----------------------------- MODULE Assessment -----------------------------
(***************************************************************************)
(* The assessment module of domains/assessment: a candidate is assessed    *)
(* against a criterion, which costs units of a limit pool and is recorded  *)
(* with an operation, an invocation and findings; a REWORK result gets     *)
(* corrections, findings are closed, a PASS result is accepted, an UNKNOWN *)
(* one disposed of.                                                        *)
(*                                                                         *)
(* A host reads and checks outside the transaction that writes.  Where     *)
(* what it read may be outdated when it writes, the call is a step that    *)
(* reads and one that writes; where it cannot be (a verdict and a closed   *)
(* finding stay, a finding is written at the version that was read), it is *)
(* one step.  assess is one transaction over several services; the pool is *)
(* only counted here (Limits is the ledger), the operation of the          *)
(* invocation is in the ledger of Operations, where resolvers go on.       *)
(*                                                                         *)
(* There is one obligation with one scope and one criterion.  Who decides  *)
(* is what the caller says (author, authority): the designated approver.   *)
(* A call repeated under its key is answered by what it did, and changes    *)
(* nothing.                                                                *)
(***************************************************************************)
EXTENDS Operations, FiniteSets

CONSTANTS Results,        \* request keys of assess; the result, the invocation, the
                          \* operation and the reservation have ids derived from it
          CorrectionKeys, \* request keys and ids of corrections
          DecisionKeys,   \* request keys and ids of decisions
          Findings,       \* indices of the findings of a result
          Hosts,
          Candidates,
          None,           \* no result, candidate or decision
          NoReview,       \* whether the scope admits acceptance without review
          Units,          \* bound on the units of an assessment
          Allowance,
          MaxRevision,    \* bound on the revisions of the input
          MaxClosings     \* bound on how often a finding is closed

ASSUME AssessmentAssumption ==
    /\ Results \subseteq Requests
    /\ None \notin Results \cup Candidates \cup DecisionKeys
    /\ {Units, Allowance, MaxClosings} \subseteq Nat
    /\ MaxRevision \in Nat \ {0}

VARIABLES input,       \* revision of what candidates and packets are made from
          packet,      \* the revision the frozen input packet consumed; 0 is none
          pin,         \* the revision each candidate is pinned to; 0 is none
          result,      \* the assessment results
          finding,     \* version of each finding; 1 is open, 0 is none
          correction,  \* the result each correction is for, or None
          decision,    \* the decisions taken
          spent,       \* units charged to the pool
          call         \* what each host has read

aVars == <<input, packet, pin, result, finding, correction, decision, spent, call>>

Verdicts == {"PASS", "REWORK", "UNKNOWN"}

NoResult == [version |-> 0, verdict |-> "UNKNOWN", candidate |-> None,
             charged |-> 0, corrections |-> {}]

Result == [version : Nat, verdict : Verdicts, candidate : Candidates \cup {None},
           charged : 0 .. Units, corrections : SUBSET CorrectionKeys]

(* A call under way, or a decision: its key, what it is about, and the version
   and the corrections it read of a result. *)
Idle == [op |-> "idle", key |-> None, result |-> None, candidate |-> None,
         seen |-> 0, listed |-> {}]

Ready(h) == call[h] = Idle

Calls(h, c) == call' = [call EXCEPT ![h] = c]

Done(h) == Calls(h, Idle)

Open(k) == {i \in Findings : finding[<<k, i>>] = 1}

AInit ==
    /\ input = 1
    /\ packet = 0
    /\ pin = [c \in Candidates |-> 0]
    /\ result = [k \in Results |-> NoResult]
    /\ finding = [f \in Results \X Findings |-> 0]
    /\ correction = [k \in CorrectionKeys |-> None]
    /\ decision = [k \in DecisionKeys |-> Idle]
    /\ spent = 0
    /\ call = [h \in Hosts |-> Idle]

(* Somebody revises the input, which none of these modules owns. *)
Revise ==
    /\ input < MaxRevision
    /\ input' = input + 1
    /\ UNCHANGED <<packet, pin, result, finding, correction, decision, spent, call, opVars>>

(* What the packet consumes is current when it is read, before the transaction that
   records the packet: it may have been revised in between. *)
FreezeInput ==
    /\ packet = 0
    /\ \E r \in 1 .. input : packet' = r
    /\ UNCHANGED <<input, pin, result, finding, correction, decision, spent, call, opVars>>

Reading(h) ==
    /\ Ready(h)
    /\ UNCHANGED <<input, packet, pin, result, finding, correction, decision, spent, opVars>>

(* The candidate exists and the packet's inputs are current.  The inputs a work
   candidate is pinned to are not looked at (_validate_candidate expects them at
   the top of the payload, where wrk.candidate has none). *)
StartAssess(h, k, c) ==
    /\ Reading(h)
    /\ pin[c] > 0
    /\ packet = input
    /\ Calls(h, [Idle EXCEPT !.op = "assess", !.key = k, !.candidate = c])

StateOf(verdict, invocationFailed) ==
    IF verdict = "UNKNOWN" THEN "unknown"
    ELSE IF verdict = "REWORK" /\ invocationFailed THEN "failed" ELSE "committed"

(* One transaction: reserve, prepare, record the outcome, settle at the actual
   units, then the invocation, the findings and the result. *)
Assess(h, verdict, invocationFailed, declared, actual, found) ==
    LET k == call[h].key IN
    /\ call[h].op = "assess"
    /\ result[k].version = 0
    /\ spent + declared <= Allowance
    /\ operation[k].version = 0
    /\ Records(k, StateOf(verdict, invocationFailed), 2)
    /\ spent' = spent + actual
    /\ finding' = [f \in DOMAIN finding |->
                      IF f[1] = k /\ f[2] \in found THEN 1 ELSE finding[f]]
    /\ result' = [result EXCEPT ![k] =
                     [version |-> 1, verdict |-> verdict, candidate |-> call[h].candidate,
                      charged |-> actual, corrections |-> {}]]
    /\ Done(h)
    /\ UNCHANGED <<input, packet, pin, correction, decision, outcomes>>

(* Mutant of RolledBack: the settled reservation of a failed assess stands. *)
ChargeStands(op) == spent' = IF op = "assess" THEN spent + 1 ELSE spent

RolledBack(op) == UNCHANGED spent

(* The transaction fails, at whichever of its steps, or the host dies. *)
Abort(h) ==
    /\ ~Ready(h)
    /\ RolledBack(call[h].op)
    /\ Done(h)
    /\ UNCHANGED <<input, packet, pin, result, finding, correction, decision, opVars>>

StartCorrect(h, key, k) ==
    /\ Reading(h)
    /\ correction[key] = None
    /\ result[k].version > 0 /\ result[k].verdict = "REWORK"
    /\ Calls(h, [Idle EXCEPT !.op = "correct", !.key = key, !.result = k,
                             !.seen = result[k].version, !.listed = result[k].corrections])

(* Mutant of LinkAdmitted: only the correction has to be new. *)
LinkUnversioned(c) == correction[c.key] = None

(* The correction is new and the result has not changed since it was read. *)
LinkAdmitted(c) == correction[c.key] = None /\ result[c.result].version = c.seen

(* The result of a correction: the links that were read, and the new one. *)
Linked(r, c) == [r EXCEPT !.version = @ + 1, !.corrections = c.listed \cup {c.key}]

(* The correction, and the result rewritten from what was read with the link. *)
Correct(h) ==
    LET c == call[h] IN
    /\ c.op = "correct"
    /\ LinkAdmitted(c)
    /\ correction' = [correction EXCEPT ![c.key] = c.result]
    /\ result' = [result EXCEPT ![c.result] = Linked(@, c)]
    /\ Done(h)
    /\ UNCHANGED <<input, packet, pin, finding, decision, spent, opVars>>

(* A finding that was closed may be closed again, with other evidence. *)
CloseFinding(k, i) ==
    /\ finding[<<k, i>>] \in 1 .. MaxClosings
    /\ finding' = [finding EXCEPT ![<<k, i>>] = @ + 1]
    /\ UNCHANGED <<input, packet, pin, result, correction, decision, spent, call, opVars>>

(* Every decision is a new identity under its key. *)
Record(key, d) ==
    /\ decision[key] = Idle
    /\ decision' = [decision EXCEPT ![key] = d]
    /\ UNCHANGED <<input, packet, pin, result, finding, correction, spent, opVars>>

Acceptable(k) == /\ result[k].version > 0 /\ result[k].verdict = "PASS"
                 /\ Open(k) = {}

Of(op, key, k) ==
    [Idle EXCEPT !.op = op, !.key = key, !.result = k, !.candidate = result[k].candidate]

Accept(key, k) ==
    /\ Acceptable(k)
    /\ Record(key, Of("accept", key, k))
    /\ UNCHANGED call

(* The operation of the result is left as it is. *)
DisposeUnknown(key, k) ==
    /\ result[k].version > 0 /\ result[k].verdict = "UNKNOWN"
    /\ Record(key, Of("dispose", key, k))
    /\ UNCHANGED call

(* A candidate nobody assessed. *)
AcceptWithoutReview(key, c) ==
    /\ NoReview
    /\ pin[c] > 0
    /\ Record(key, [Idle EXCEPT !.op = "no-review", !.key = key, !.candidate = c])
    /\ UNCHANGED call

(* A record that decides nothing: a new identity under its key all the same. *)
Note(key, k, c) ==
    /\ Record(key, [Idle EXCEPT !.op = "note", !.key = key, !.result = k, !.candidate = c])
    /\ UNCHANGED call

(* To select a candidate for a criterion neither assesses nor accepts it. *)
SelectCandidate(key, c) == pin[c] > 0 /\ Note(key, None, c)

(* Attempts and open findings are what the caller counted. *)
RecordLoopFacts(key) == Note(key, None, None)

AssessmentStep(h) ==
    \/ \E k \in Results :
         \/ \E c \in Candidates : StartAssess(h, k, c)
         \/ \E key \in CorrectionKeys : StartCorrect(h, key, k)
    \/ \E verdict \in Verdicts, failed \in BOOLEAN, declared \in 1 .. Units, actual \in 0 .. Units :
         \E found \in SUBSET Findings : Assess(h, verdict, failed, declared, actual, found)
    \/ Correct(h)
    \/ Abort(h)

ReviewStep ==
    \/ \E k \in Results, i \in Findings : CloseFinding(k, i)
    \/ \E key \in DecisionKeys :
         \/ \E k \in Results : Accept(key, k) \/ DisposeUnknown(key, k)
         \/ \E c \in Candidates : AcceptWithoutReview(key, c) \/ SelectCandidate(key, c)
         \/ RecordLoopFacts(key)

(* Whoever prepares an operation under the key of an assessment first keeps the
   assessment from taking place. *)
OperationStep ==
    /\ \/ \E r \in Requests : Prepare(r)
       \/ Outcome
    /\ UNCHANGED aVars
-----------------------------------------------------------------------------

ATypeOK ==
    /\ OpTypeOK
    /\ input \in 1 .. MaxRevision
    /\ packet \in 0 .. MaxRevision
    /\ pin \in [Candidates -> 0 .. MaxRevision]
    /\ result \in [Results -> Result]
    /\ finding \in [Results \X Findings -> Nat]
    /\ correction \in [CorrectionKeys -> Results \cup {None}]
    /\ spent \in Nat

(* No correction is lost: a result lists exactly the corrections made for it,
   also when two callers correct it from the same reading. *)
CorrectionsLinked ==
    \A k \in Results : result[k].corrections = {c \in CorrectionKeys : correction[c] = k}

(* The pool pays for results, once each: an assess that fails half-way, races
   another under its key or is repeated charges nothing. *)
ChargedForResults ==
    spent = Cardinality({u \in Results \X (1 .. Units) : u[2] <= result[u[1]].charged})
=============================================================================
