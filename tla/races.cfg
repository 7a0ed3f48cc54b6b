SPECIFICATION Spec
CONSTANTS
    c1 = c1
    c2 = c2
    Nil = Nil
    Partial = Partial
    Contents = {c1, c2, Partial}
    NumNames = 1
    NumVersions = 2
    Procs = {1, 2}
    FirstRelease <- ServedFromStart
    AddKinds = {"oci"}
    Verbs = {"add", "lock", "vendor"}
    Events = {"annotate"}
INVARIANTS
    MetadataBound
    OneEntryPerVersion
PROPERTIES
    DriftIsFounded
CONSTRAINT Combined
