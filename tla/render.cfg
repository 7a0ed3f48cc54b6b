SPECIFICATION FairSpec
CONSTANTS
    app = app
    web = web
    base = base
    lib = lib
    Packages <- Composed
    Root = app
    FileOf <- LinkedFile
    Graphs <- ComposedGraphs
    Options <- CommandLines
    TickLength = 2
    DefaultTicks = 2
    MaxTicks = 10
    EngineTicks = 2
    MaxStart = 1
    MaxEngineStart = 1
    MaxTime = 10
    MaxLost = 1
    MaxCalls = 3
INVARIANTS
    TypeOK
    NothingForbidden
    BoundedComposition
    AtMostOneLateStart
    TimeoutIsDue
    StrictRootIsTyped
PROPERTIES
    GuestStopsInTime
    RenderEnds
