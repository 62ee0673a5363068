\* One writer and one owner; the lock file is emptied by a rewrite that stops half-way.
SPECIFICATION Spec
CONSTANTS
    w1 = w1
    w2 = w2
    o1 = o1
    o2 = o2
    f1 = f1
    f2 = f2
    a = a
    b = b
    Writers = {w1}
    Owners = {o1}
    Files = {f1}
    Contents = {a, b}
    Unlisted = Unlisted
    NoManifest = NoManifest
    OutsideEdits = FALSE
    MaxLeases = 2
INVARIANT
    RevokedForGood
CHECK_DEADLOCK FALSE
