SPECIFICATION Spec
CONSTANTS
    web = web
    inputs = inputs
    yaml = yaml
    default = default
    v1 = v1
    v2 = v2
    v3 = v3
    Runners = {1, 2}
    PackageDirs <- Packages
    InputsOf <- OneEach
    Versions = {v1, v2, v3}
    Resources <- Manifests
    Asserts = {v1, v2}
    Default = default
    Torn = Torn
    None = None
    MaxEdits = 1
    MaxRuns = 3
INVARIANTS
    TypeOK
    UpdatedIsBaseline
PROPERTIES
    PassIsExact
    BaselineUntilReady
CHECK_DEADLOCK FALSE
