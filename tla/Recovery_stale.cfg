\* One manager, one operation, one restore.
CONSTANTS
    m1 = m1
    m2 = m2
    o1 = o1
    r1 = r1
    b1 = b1
    b2 = b2
    b3 = b3
    NoResult = NoResult
    Nothing = Nothing
    Managers = {m1}
    Ops = {o1}
    Results = {r1}
    Boots = {b1, b2, b3}
    MaxVersion = 4
    MaxLine = 2
    reader = reader
    Readers = {reader}
    Limit = 2
    MaxEvents = 1
SYMMETRY Interchangeable
SPECIFICATION MCSpec
INVARIANTS
    StaleDispatcherFenced
CHECK_DEADLOCK FALSE
