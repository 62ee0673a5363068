\* Run by hand: callers who name the revision of a result spend a pin twice.
CONSTANTS
    t1 = t1  t2 = t2  i1 = i1  i2 = i2  k1 = k1  k2 = k2  k3 = k3  e1 = e1
    s1 = s1  s2 = s2  pay1 = pay1  pay2 = pay2  tok1 = tok1  d1 = d1  d2 = d2  d3 = d3
    NoThread = NoThread  NoToken = NoToken  EmptyPayload = EmptyPayload  Core = Core
    Threads = {t1}
    Ids = {i1}
    Keys = {k1, k2}
    EventIds = {}
    Streams = {s1}
    Tokens = {}
    Payloads = {pay1, pay2, EmptyPayload}
    Domains = {}
    Collisions <- NoPairs
    Requests <- PinRequests
    InitialRows <- PinRows
    ResultPins <- RevOne
    CallerRefs = {}
    MaxVersion = 3
    MaxDepth = 0
SPECIFICATION Spec
INVARIANT RevisionCAS
