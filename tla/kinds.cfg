SPECIFICATION Spec
CONSTANTS
    c1 = c1
    c2 = c2
    Nil = Nil
    Partial = Partial
    Contents = {c1, c2, Partial}
    NumNames = 1
    NumVersions = 1
    Procs = {1}
    FirstRelease <- ServedFromStart
    AddKinds = {"path", "oci", "git", "helm"}
    Verbs = {"add", "lock", "check", "vendor"}
    Events = {"publish", "fork", "vendor", "manifest", "crash", "outage", "reject", "badimport"}
INVARIANTS
    PinWasServed
    CheckAfterLockClean
    VerifyAfterLock
PROPERTIES
    VendorAddIsClean
    DriftIsFounded
CONSTRAINT Combined
CHECK_DEADLOCK FALSE
