SPECIFICATION MCSpec
CONSTANTS
    p1 = p1
    t1 = t1
    t2 = t2
    h1 = h1
    h2 = h2
    x = x
    y = y
    k1 = k1
    k2 = k2
    None = None
    Projects = {p1}
    Tasks = {t1, t2}
    Hosts = {h1, h2}
    Principals = {x, y}
    ReassignKeys = {k1, k2}
    ObservationKeys = {"o"}
    MaxVersions = 5
    MaxGeneration = 2
SYMMETRY Interchangeable
INVARIANTS
    NoCycles
CHECK_DEADLOCK FALSE
