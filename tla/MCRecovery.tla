----------------------------- MODULE MCRecovery -----------------------------
(* The recovery record with its managers, and a stream with its reader.  They share
   no state, so a run takes the steps of the one or of the other, not of both. *)
EXTENDS Recovery, EventCursor, TLC

CONSTANTS m1, m2, o1, r1, b1, b2, b3, reader

VARIABLE part

MCInit == Init /\ CursorInit /\ part \in {"record", "stream"}

MCNext ==
    /\ UNCHANGED part
    /\ \/ part = "record" /\ Next /\ UNCHANGED cursorVars
       \/ part = "stream" /\ CursorNext /\ UNCHANGED vars

MCSpec == MCInit /\ [][MCNext]_<<vars, cursorVars, part>>

(* Managers and boot tokens are only compared with each other. *)
Interchangeable == Permutations(Managers) \cup Permutations(Boots)
=============================================================================
