CONSTANTS
    c1 = c1  c2 = c2  k1 = k1  k2 = k2  k3 = k3  k4 = k4  k5 = k5  p1 = p1  r1 = r1  r2 = r2
    Nothing = Nothing
    Callers = {c1, c2}
    Keys = {k1, k2, k3, k4, k5}
    Pools = {p1}
    Reservations = {r1, r2}
    PoolRequests <- Definitions
    MaxUnits = 2
SYMMETRY KeySymmetry
SPECIFICATION Spec
INVARIANTS HeldWithinCapacity CoveredWithinAllowance OneRequestPerVersion
PROPERTIES SettlementIsFinal
