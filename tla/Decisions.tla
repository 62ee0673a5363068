----------------------------- MODULE Decisions ------------------------------
(***************************************************************************)
(* The decision module of domains/work/decisions.py over the assessments:  *)
(* candidates pinned to the revision of their inputs, and decisions about  *)
(* them.                                                                   *)
(*                                                                         *)
(* record_decision checks everything before its transaction, the currency  *)
(* of the pins (check_applicability) last, and then creates the decision;  *)
(* the transaction compares nothing that was checked.  One obligation and  *)
(* one criterion are those of Assessment.                                  *)
(***************************************************************************)
EXTENDS Assessment

vars == <<aVars, opVars>>

Init == OpInit /\ AInit

(* The reference of an input may name any revision that is retained, and one that
   names none is resolved before the transaction: the pin may be old from the start. *)
CreateCandidate(c) ==
    /\ pin[c] = 0
    /\ \E r \in 1 .. input : pin' = [pin EXCEPT ![c] = r]
    /\ UNCHANGED <<input, packet, result, finding, correction, decision, spent, call, opVars>>

Applicable(c) == pin[c] = input

(* Mutant of Approvable: the assessment of another candidate will do. *)
ApprovableAnyCandidate(c, k) ==
    Applicable(c) /\ (k # None => result[k].verdict = "PASS")

(* required_approval: the pins are current, and the assessment, if one is named,
   passed this very candidate. *)
Approvable(c, k) ==
    /\ Applicable(c)
    /\ k # None => result[k].verdict = "PASS" /\ result[k].candidate = c

(* A decision with a required approval. *)
StartApprove(h, key, c, k) ==
    /\ Reading(h)
    /\ pin[c] > 0
    /\ k # None => result[k].version > 0
    /\ Approvable(c, k)
    /\ Calls(h, [Idle EXCEPT !.op = "approve", !.key = key, !.result = k, !.candidate = c])

Approve(h) ==
    /\ call[h].op = "approve"
    /\ Record(call[h].key, call[h])
    /\ Done(h)

(* Any other decision may be taken on stale inputs: it says whether they were.
   One that approves without being required to needs a PASS as well. *)
RecordDecision(key, c, k) ==
    /\ pin[c] > 0
    /\ k # None => result[k].version > 0 /\ result[k].candidate = c
    /\ \E op \in {"record", "endorse"} :
         /\ op = "endorse" /\ k # None => result[k].verdict = "PASS"
         /\ Record(key, [Idle EXCEPT !.op = op, !.key = key, !.result = k, !.candidate = c])
    /\ UNCHANGED call

(* An annotation is a record of its own: the candidate and its pins stay. *)
AnnotateCandidate(key, c) == pin[c] > 0 /\ Note(key, None, c)

(* To wait for a candidate or a result; at the cap, for a decision that was taken. *)
RecordWait(key, k, c, atCap) ==
    /\ k # None => result[k].version > 0
    /\ c # None => pin[c] > 0
    /\ atCap => \E d \in DecisionKeys : decision[d] # Idle
    /\ Note(key, k, c)

(* The choice of a manager among the actions it was offered starts none of them. *)
ChooseNextAction(key, c) == pin[c] > 0 /\ Note(key, None, c)

NoteStep ==
    \E key \in DecisionKeys, c \in Candidates :
        \/ AnnotateCandidate(key, c)
        \/ ChooseNextAction(key, c)
        \/ \E k \in Results, atCap \in BOOLEAN :
             RecordWait(key, k, None, atCap) \/ RecordWait(key, None, c, atCap)

Next ==
    \/ Revise
    \/ FreezeInput
    \/ \E c \in Candidates : CreateCandidate(c)
    \/ \E h \in Hosts :
         \/ \E key \in DecisionKeys, c \in Candidates, k \in Results \cup {None} :
              StartApprove(h, key, c, k)
         \/ Approve(h)
         \/ AssessmentStep(h)
    \/ \E key \in DecisionKeys, c \in Candidates, k \in Results \cup {None} :
         RecordDecision(key, c, k)
    \/ NoteStep
    \/ ReviewStep
    \/ OperationStep

Spec == Init /\ [][Next]_vars
-----------------------------------------------------------------------------

(* The types of the records of all three modules. *)
TypeOK ==
    /\ ATypeOK
    /\ \A h \in Hosts : call[h].result \in Results \cup {None}
    /\ \A key \in DecisionKeys : decision[key].candidate \in Candidates \cup {None}

(* What was accepted, or approved on an assessment, stands on it for good: the
   result is a PASS for that very candidate, its invocation is committed in the
   operation ledger, whatever callers of the ledger still record, and an accepted
   result has no open finding. *)
DecisionsStand ==
    \A key \in DecisionKeys :
        LET d == decision[key] IN
        d.op \in {"accept", "approve", "endorse"} /\ d.result # None =>
            /\ result[d.result].verdict = "PASS"
            /\ result[d.result].candidate = d.candidate
            /\ operation[d.result].state = "committed"
            /\ d.op = "accept" => Open(d.result) = {}

(* A decision that certifies: "approval cannot certify a candidate with stale
   consumed inputs" (the error of record_decision).  The check is made before
   the transaction, and an input may be revised between them. *)
NoStaleApproval ==
    [][\A key \in DecisionKeys :
          decision[key] = Idle /\ decision'[key].op = "approve"
              => Applicable(decision'[key].candidate)]_vars
=============================================================================
