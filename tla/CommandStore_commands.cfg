CONSTANTS
    t1 = t1  t2 = t2  i1 = i1  i2 = i2  k1 = k1  k2 = k2  k3 = k3  e1 = e1
    s1 = s1  s2 = s2  pay1 = pay1  pay2 = pay2  tok1 = tok1  d1 = d1  d2 = d2  d3 = d3
    NoThread = NoThread  NoToken = NoToken  EmptyPayload = EmptyPayload  Core = Core
    Threads = {t1}
    Ids = {i1, i2}
    Keys = {k1, k2}
    EventIds = {e1}
    Streams = {s1}
    Tokens = {tok1}
    Payloads = {pay1, EmptyPayload}
    Domains = {}
    Collisions <- NoPairs
    Requests <- CommandRequests
    InitialRows <- CommandRows
    ResultPins <- RevOne
    CallerRefs <- OtherRefs
    MaxVersion = 3
    MaxDepth = 0
SPECIFICATION Spec
INVARIANTS ReferentialIntegrity GapFreeStreams ReceiptEventAgreement VersionCAS
PROPERTY LedgerSpec
