SPECIFICATION Spec
CONSTANTS
    c1 = c1
    c2 = c2
    Nil = Nil
    Partial = Partial
    Contents = {c1, c2, Partial}
    NumNames = 1
    NumVersions = 1
    Procs = {1}
    FirstRelease <- ServedFromStart
    AddKinds = {"oci"}
    Verbs = {"add", "lock"}
    Events = {"fork", "manifest"}
INVARIANT ReplaceCanBeDropped
