\* Run by hand: another thread moves the stream between the check of a cursor and its rows.
CONSTANTS
    m1 = m1
    m2 = m2
    o1 = o1
    r1 = r1
    b1 = b1
    b2 = b2
    b3 = b3
    reader = reader
    NoResult = NoResult
    Nothing = Nothing
    Managers = {m1, m2}
    Ops = {o1}
    Results = {r1}
    Boots = {b1, b2}
    MaxVersion = 1
    MaxLine = 2
    Readers = {reader}
    Limit = 2
    MaxEvents = 5
SYMMETRY Interchangeable
SPECIFICATION MCSpec
INVARIANT
    EveryCursorFollows
CHECK_DEADLOCK FALSE
