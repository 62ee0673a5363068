\* Run by hand: a late recovery or cleanup writes over the next session.
SPECIFICATION Spec
CONSTANTS
    alice = alice
    bob = bob
    alice1 = alice1
    alice2 = alice2
    bob1 = bob1
    p = p
    q = q
    o1 = o1
    o2 = o2
    f1 = f1
    f2 = f2
    Scopes = {p, q}
    Actors = {alice, bob}
    Hosts = {alice1, alice2, bob1}
    ActorOf <- ActorOfHost
    OpenKeys = {o1, o2}
    FinishKeys = {f1, f2}
    MaxSessions = 2
SYMMETRY Interchangeable
INVARIANTS
    AllActorsMirrorScopes
CHECK_DEADLOCK FALSE
