\* Two managers, one operation, two boots, four versions of the record, one restore;
\* one reader of a stream of five events.
CONSTANTS
    m1 = m1
    m2 = m2
    o1 = o1
    r1 = r1
    b1 = b1
    b2 = b2
    b3 = b3
    reader = reader
    NoResult = NoResult
    Nothing = Nothing
    Managers = {m1, m2}
    Ops = {o1}
    Results = {r1}
    Boots = {b1, b2}
    MaxVersion = 4
    MaxLine = 2
    Readers = {reader}
    Limit = 2
    MaxEvents = 5
SYMMETRY Interchangeable
SPECIFICATION MCSpec
INVARIANTS
    EpochFence
    FencesUnique
    HandedRetained
    CursorsFollow
PROPERTIES
    TokensOnlyAge
CHECK_DEADLOCK FALSE
