\* Two writers, two owners, two files, three leases, and programs that ignore the lease.
SPECIFICATION Spec
CONSTANTS
    w1 = w1
    w2 = w2
    o1 = o1
    o2 = o2
    f1 = f1
    f2 = f2
    a = a
    b = b
    Writers = {w1, w2}
    Owners = {o1, o2}
    Files = {f1, f2}
    Contents = {a, b}
    Unlisted = Unlisted
    NoManifest = NoManifest
    OutsideEdits = TRUE
    MaxLeases = 3
INVARIANTS
    WritersExcluded
    RevokedUntilEmptied
    NothingLostUntilEmptied
    CompleteMeansGone
PROPERTIES
    DeletionsAreSaved
    CaptureIsStable
CHECK_DEADLOCK FALSE
