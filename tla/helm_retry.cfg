SPECIFICATION Spec
CONSTANTS
    p1 = p1
    p2 = p2
    p3 = p3
    blob = blob
    stuck = stuck
    commit = commit
    chart = chart
    swept = swept
    Procs = {p1}
    OciSlots = {}
    StuckSlots = {}
    GitSlots = {}
    HelmSlots = {chart}
    Cleared = {}
    Files = {"Chart.yaml", "templates"}
    Marker = "Chart.yaml"
    Events = {}
INVARIANTS
    SuccessIsWhole
