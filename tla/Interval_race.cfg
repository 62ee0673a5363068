\* Two hosts poll when one slot has fallen due.
SPECIFICATION Spec
CONSTANTS
    h1 = h1
    h2 = h2
    h3 = h3
    Hosts = {h1, h2}
    MaxTime = 2
INVARIANTS
    LaunchedOnce
CHECK_DEADLOCK FALSE
