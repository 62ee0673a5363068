----------------------------- MODULE Assignments -----------------------------
(***************************************************************************)
(* Responsibility assignments, domains/work/assignments.py, beside the     *)
(* work graph: who is responsible for a piece of work, in generations.     *)
(*                                                                         *)
(* A command reads the assignment and compares the generation its caller   *)
(* expects outside the transaction.  A reassignment, and a route that is   *)
(* pinned (domains/work/sheet.py), writes the assignment it made of what   *)
(* it read, if that has its version still.  A dispatch, a result or a      *)
(* report is a record of its own, which names the revision and generation  *)
(* that were read; nothing is compared when it is written.                 *)
(*                                                                         *)
(* The scope of an assignment is not looked at.  A command repeated under  *)
(* its key after its assignment moved on finds another request under the   *)
(* key and is refused, except reassign, which replays: nothing changes.    *)
(***************************************************************************)
EXTENDS Batches, Sequences, SequencesExt

CONSTANTS Principals,
          ReassignKeys,     \* request keys of reassignments
          ObservationKeys,  \* request keys of dispatches, results and reports
          MaxGeneration     \* bound on the generations of the assignment

ASSUME AssignmentAssumption ==
    /\ None \notin {"reassign", "route", "observe"}
    /\ MaxGeneration \in Nat

VARIABLES assignment,  \* the assignment; version 0 is none
          reassigned,  \* the receipt of each reassignment
          observed     \* what was dispatched or reported under each key

assignVars == <<assignment, reassigned, observed>>
graphVars  == <<record, call>>

vars == <<graphVars, assignVars>>

(* The history has an entry for each generation. *)
Assignment == [version : Nat, history : Seq(Principals), route : BOOLEAN]

Unassigned == [version |-> 0, history |-> <<>>, route |-> FALSE]

Generation == Len(assignment.history)

Init ==
    /\ record = [r \in Records |-> Absent]
    /\ call = [h \in Hosts |-> Idle]
    /\ assignment = Unassigned
    /\ reassigned = [k \in ReassignKeys |-> Unassigned]
    /\ observed = [k \in ObservationKeys |-> Idle]

Assign(x) ==
    /\ assignment = Unassigned
    /\ assignment' = [version |-> 1, history |-> <<x>>, route |-> FALSE]
    /\ UNCHANGED <<reassigned, observed, graphVars>>

(* _fence: the caller's generation, if it names one, is the one it just read;
   either way it goes by what it read. *)
Reads(h, c) ==
    /\ Reading(h)
    /\ assignment # Unassigned
    /\ call' = [call EXCEPT ![h] = c]
    /\ UNCHANGED <<record, assignVars>>

StartReassign(h, key, x) ==
    /\ reassigned[key] = Unassigned
    /\ Generation < MaxGeneration
    /\ Reads(h, [op |-> "reassign", key |-> key,
                 value |-> [assignment EXCEPT !.version = @ + 1, !.history = Append(@, x)]])

StartPinRoute(h) ==
    /\ ~assignment.route    \* its default key is spent
    /\ Reads(h, [op |-> "route",
                 value |-> [assignment EXCEPT !.version = @ + 1, !.route = TRUE]])

(* Mutant of SameVersion: the assignment is written whatever became of it. *)
AnyVersion(c) == TRUE

SameVersion(c) == assignment.version + 1 = c.value.version

Reassign(h) ==
    LET c == call[h] IN
    /\ c.op = "reassign"
    /\ reassigned[c.key] = Unassigned
    /\ SameVersion(c)
    /\ assignment' = c.value
    /\ reassigned' = [reassigned EXCEPT ![c.key] = c.value]
    /\ Returns(h)
    /\ UNCHANGED <<record, observed>>

PinRoute(h) ==
    /\ call[h].op = "route"
    /\ SameVersion(call[h])
    /\ assignment' = call[h].value
    /\ Returns(h)
    /\ UNCHANGED <<record, reassigned, observed>>

(* A conflict of versions, or the request was answered meanwhile. *)
Conflicts(h) ==
    LET c == call[h] IN
    /\ \/ c.op \in {"reassign", "route"} /\ ~SameVersion(c)
       \/ c.op = "reassign" /\ reassigned[c.key] # Unassigned
       \/ c.op = "observe" /\ observed[c.key] # Idle
    /\ Returns(h)
    /\ UNCHANGED <<record, assignVars>>

(* dispatch, append_result and append_report. *)
StartObserve(h, key) ==
    /\ observed[key] = Idle
    /\ Reads(h, [op |-> "observe", key |-> key, version |-> assignment.version,
                 generation |-> Generation, by |-> Last(assignment.history)])

(* Mutant of Observed: the generation is that of the assignment by now. *)
ObservedNow(c) == [c EXCEPT !.generation = Generation]

Observed(c) == c

Observe(h) ==
    /\ call[h].op = "observe"
    /\ observed[call[h].key] = Idle
    /\ observed' = [observed EXCEPT ![call[h].key] = Observed(call[h])]
    /\ Returns(h)
    /\ UNCHANGED <<record, assignment, reassigned>>

AssignmentStep(h) ==
    \/ \E key \in ReassignKeys, x \in Principals : StartReassign(h, key, x)
    \/ StartPinRoute(h)
    \/ Reassign(h)
    \/ PinRoute(h)
    \/ Conflicts(h)
    \/ \E key \in ObservationKeys : StartObserve(h, key)
    \/ Observe(h)

AssignmentNext ==
    \/ \E x \in Principals : Assign(x)
    \/ \E h \in Hosts : AssignmentStep(h)

WorkNext ==
    /\ \/ BatchStep
       \/ \E h \in Hosts : GraphStep(h) \/ \E p \in Projects : Activate(h, p)
    /\ UNCHANGED assignVars

Next == AssignmentNext \/ WorkNext

Spec == Init /\ [][Next]_vars
-----------------------------------------------------------------------------

TypeOK ==
    /\ record \in [Records -> Record]
    /\ assignment \in Assignment
    /\ reassigned \in [ReassignKeys -> Assignment]
    /\ \A h \in Hosts : call[h].op \in {None, "write", "reassign", "route", "observe"}

(* A reassignment that was answered is in the history for good, at the generation
   its answer named, and a route once pinned stays, although each of them writes
   the whole of an assignment it read before. *)
ReassignmentsKept ==
    \A k \in ReassignKeys :
        /\ IsPrefix(reassigned[k].history, assignment.history)
        /\ reassigned[k].route => assignment.route

(* What was dispatched or reported, however late, is filed under the generation
   of the principal who was responsible when its caller was let through. *)
ObservationsFenced ==
    \A k \in ObservationKeys : observed[k] # Idle =>
        /\ observed[k].generation \in DOMAIN assignment.history
        /\ assignment.history[observed[k].generation] = observed[k].by

(* "A writer tried to use an assignment generation that is no longer live"
   (StaleAssignmentError): that writer is refused, unless the generation ends
   between the check and the write. *)
NoStaleObservation ==
    [][\A k \in ObservationKeys :
          observed'[k] # observed[k] => observed'[k].generation = Generation]_vars
=============================================================================
