------------------------------- MODULE MCWork -------------------------------
(* The work graph with its sheets, and one assignment.  They share no state, so a
   run takes the steps of the one or of the other, not those of both. *)
EXTENDS Assignments, TLC

CONSTANTS p1, t1, t2, h1, h2, x, y, k1, k2

VARIABLE part

MCInit == Init /\ part \in {"graph", "assignment"}

MCNext ==
    /\ UNCHANGED part
    /\ \/ part = "graph" /\ WorkNext
       \/ part = "assignment" /\ AssignmentNext

MCSpec == MCInit /\ [][MCNext]_<<vars, part>>

Interchangeable == Permutations({t1, t2}) \cup Permutations({h1, h2})
=============================================================================
