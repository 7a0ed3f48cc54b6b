SPECIFICATION Spec
CONSTANTS
    p1 = p1
    p2 = p2
    r1 = r1
    t1 = t1
    s1 = s1
    l1 = l1
    l2 = l2
    m1 = m1
    v1 = v1
    v2 = v2
    k1 = k1
    None = None
    Publishers = {p1, p2}
    Readers = {r1}
    Tags = {t1}
    Sources = {s1}
    Locks = {l1, l2}
    Unresolved = {l2}
    Stamps = {m1}
    Binaries = {v1, v2}
    Binary <- BinaryDef
    Keys = {k1}
    KeyOf <- KeyOfDef
    Checkout <- CheckoutDef
    Trusted = k1
    Readable <- ReadableDef
    MaxFaults = 1
    MaxEdits = 1
INVARIANTS
    TagsResolve
    SidecarsFollow
    SignedByItsPublisher
    ReadIsPublished
    PinnedOrRefused
    DoneIsComplete
PROPERTIES
    AuthFailureIsEarned
CONSTRAINT Combined
