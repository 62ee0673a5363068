\* Three hosts and four slots.
SPECIFICATION Spec
CONSTANTS
    h1 = h1
    h2 = h2
    h3 = h3
    Hosts = {h1, h2, h3}
    MaxTime = 3
INVARIANTS
    CompletedForGood
    OneReservation
PROPERTIES
    OneInFlight
    EndedByItsReport
    DueIsReserved
CHECK_DEADLOCK FALSE
