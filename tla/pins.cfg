SPECIFICATION Spec
CONSTANTS
    c1 = c1
    c2 = c2
    Nil = Nil
    Partial = Partial
    Contents = {c1, c2, Partial}
    NumNames = 2
    NumVersions = 1
    Procs = {1}
    FirstRelease <- ServedFromStart
    AddKinds = {"oci"}
    Verbs = {"add", "remove", "lock", "update", "render"}
    Events = {"publish", "annotate", "clear", "outage"}
INVARIANTS
    RenderedIsPinned
    PinsMoveOnlyByUpdate
    OfflineAfterLock
    LockMatchesManifest
    UpdateLeavesOthers
