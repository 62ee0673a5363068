----------------------------- MODULE Operations -----------------------------
(***************************************************************************)
(* The operation ledger of kernel/operations.py: the durable account of an *)
(* effect outside the store.  An operation is prepared under its request   *)
(* key before an adapter runs it; afterwards whoever ran it records the    *)
(* outcome, or that it is unknown, and an unknown outcome is settled by a  *)
(* named resolver.                                                         *)
(*                                                                         *)
(* Every call but the first acts on an OperationRecord its caller was      *)
(* given earlier, by get or as an answer, and which may be stale by now:   *)
(* told is every record that was ever there to be given out, and any of    *)
(* them may come back.  A call repeated under its key is answered with the *)
(* record it made, which is in told; another one under it is refused.      *)
(***************************************************************************)
EXTENDS Integers

CONSTANTS Requests,  \* request keys of operations; the outcome of one has a default key
          Explicit   \* transition keys a caller chooses

VARIABLES operation, \* state and version of each operation; version 0 is none
          outcomes,  \* the receipt under each transition key
          told       \* the OperationRecords that may have been given out

opVars == <<operation, outcomes, told>>

Terminal == {"committed", "failed"}
Unknown  == {"unknown"}              \* or uncertain, which is treated alike
States   == {"prepared"} \cup Terminal \cup Unknown

NoOperation == [state |-> "prepared", version |-> 0]

Handle == [request : Requests, state : States, version : 1 .. 3]

Current(r) == [request |-> r, state |-> operation[r].state, version |-> operation[r].version]

(* `logical_request_key + ":outcome"`, written as the request itself. *)
Keys == Requests \cup Explicit

(* A receipt: the record it was computed from, the state, and whether a resolver
   asked for it, all of which the digest covers. *)
Receipt == [of : Handle, state : States, resolved : BOOLEAN]

NoReceipt == [state |-> "none"]

OpInit ==
    /\ operation = [r \in Requests |-> NoOperation]
    /\ outcomes = [k \in Keys |-> NoReceipt]
    /\ told = {}

Records(r, state, version) ==
    /\ operation' = [operation EXCEPT ![r] = [state |-> state, version |-> version]]
    /\ told' = told \cup {[request |-> r, state |-> state, version |-> version]}

Prepare(r) ==
    /\ operation[r].version = 0
    /\ Records(r, "prepared", 1)
    /\ UNCHANGED outcomes

(* Mutant of Admits: the caller's word for the state is enough. *)
AdmitsStale(x, resolving) ==
    x.state = "prepared" \/ (resolving /\ x.state \in Unknown)

(* Mutant of Admits: an unknown outcome is like any other. *)
AdmitsAnyone(x, resolving) ==
    x.state \notin Terminal /\ x.version = operation[x.request].version

(* What the record of the caller allows, and the version the store compares. *)
Admits(x, resolving) ==
    /\ x.state = "prepared" \/ (resolving /\ x.state \in Unknown)
    /\ x.version = operation[x.request].version

Allowed(resolving) == IF resolving THEN Terminal ELSE Terminal \cup Unknown

(* record_outcome and resolve_unknown. *)
Transition(x, state, key, resolving) ==
    /\ outcomes[key] = NoReceipt
    /\ Admits(x, resolving)
    /\ Records(x.request, state, x.version + 1)
    /\ outcomes' = [outcomes EXCEPT ![key] = [of |-> x, state |-> state, resolved |-> resolving]]

Outcome ==
    \E x \in told, resolving \in BOOLEAN :
        \E state \in Allowed(resolving), key \in {x.request} \cup Explicit :
            Transition(x, state, key, resolving)
-----------------------------------------------------------------------------

OpTypeOK ==
    /\ operation \in [Requests -> [state : States, version : 0 .. 3]]
    /\ outcomes \in [Keys -> Receipt \cup {NoReceipt}]
    /\ told \subseteq Handle

(* Nobody is ever told a terminal outcome the operation does not keep: a record
   with a terminal state names the state and version the operation still has,
   whatever callers with earlier records do. *)
ToldOutcomesStand == \A x \in told : x.state \in Terminal => x = Current(x.request)

(* The requests whose unknown outcome a resolver settled. *)
Resolved ==
    {r \in Requests : \E k \in Keys : /\ outcomes[k] # NoReceipt
                                      /\ outcomes[k].of.request = r
                                      /\ outcomes[k].of.state \in Unknown
                                      /\ outcomes[k].resolved}

(* An outcome that follows an unknown one was decided by a resolver: a caller
   that still holds the record from before cannot record it as if it had been
   seen (UnknownOutcomeError, and the version). *)
UnknownNeedsResolver == \A r \in Requests : operation[r].version = 3 => r \in Resolved

Effects == INSTANCE EffectOutcomes WITH
    outcome  <- [r \in Requests |->
                    IF operation[r].version = 0 THEN "none" ELSE operation[r].state],
    resolved <- Resolved,
    told     <- {<<x.request, x.state>> : x \in {y \in told : y.state \in Terminal}}

(* The ledger, however old the records its callers come back with and whatever
   assessments write into it, implements EffectOutcomes: an outcome is recorded
   once, an unknown one is settled by a resolver only, and nobody is told
   another one. *)
OutcomesImplemented == Effects!Spec
=============================================================================
