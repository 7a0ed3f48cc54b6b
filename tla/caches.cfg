SPECIFICATION Spec
CONSTANTS
    p1 = p1
    p2 = p2
    p3 = p3
    blob = blob
    stuck = stuck
    commit = commit
    chart = chart
    swept = swept
    Procs = {p1, p2, p3}
    OciSlots = {blob, stuck, swept}
    StuckSlots = {stuck}
    GitSlots = {commit}
    HelmSlots = {chart}
    Cleared = {swept, commit, chart}
    Files = {"Chart.yaml", "templates"}
    Marker = "Chart.yaml"
    Events = {"crash"}
INVARIANTS
    UsableIsWhole
PROPERTIES
    StoreSpec
CONSTRAINT OneSlot
SYMMETRY Symmetry
