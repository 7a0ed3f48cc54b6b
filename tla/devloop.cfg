SPECIFICATION FairSpec
CONSTANTS
    package = package
    inputs = inputs
    chart = chart
    added = added
    root = root
    charts = charts
    later = later
    deploy = deploy
    manifests = manifests
    Files = {package, inputs, chart, added}
    Package = package
    Inputs = inputs
    Composed = {chart}
    Relevant = {package, inputs, chart, added}
    Dirs = {root, charts, later, deploy}
    DirOf <- Place
    OutDir = deploy
    SkipDirs = {deploy}
    AtStart = {root, charts}
    Rooted = TRUE
    Manifests = manifests
    MaxEdits = 2
    MaxErrors = 1
INVARIANTS
    NothingLost
    SilenceIsEarned
    StopsWithinOneRender
PROPERTIES
    EditsAreShown
    Idles
    StopEnds
