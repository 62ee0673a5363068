----------------------------- MODULE MCSessions -----------------------------
(* Two actors, one of them with two hosts, and two scopes.  Scopes, requests and
   the two hosts of one actor are interchangeable. *)
EXTENDS Sessions, TLC

CONSTANTS alice, bob, alice1, alice2, bob1, p, q, o1, o2, f1, f2

ActorOfHost == [h \in {alice1, alice2, bob1} |-> IF h = bob1 THEN bob ELSE alice]

Interchangeable == Permutations({p, q}) \cup Permutations({alice1, alice2})
                   \cup Permutations({o1, o2}) \cup Permutations({f1, f2})
=============================================================================
