-------------------------- MODULE DecisionsProofs ---------------------------
(***************************************************************************)
(* Safety of Decisions, and of Assessment and Operations under it, for any *)
(* hosts, candidates, results and keys.  The argument has three layers:    *)
(* the operation ledger forgets no outcome; results, findings and          *)
(* committed operations only move forward; what a call or a decision read  *)
(* of them is still true.                                                  *)
(***************************************************************************)
EXTENDS Decisions, FiniteSetTheorems, TLAPS

(* The ledger of operations: how far a record can have come, and that no record
   anybody was given is ahead of the operation, or says something else of it. *)
OperationsOK ==
    \A r \in Requests :
        /\ operation[r].state = "prepared" <=> operation[r].version < 2
        /\ operation[r].state \in Unknown => operation[r].version = 2

ToldOK ==
    \A x \in told :
        /\ x.state = "prepared" <=> x.version = 1
        /\ x.state \in Unknown => x.version = 2
        /\ x.version <= operation[x.request].version
        /\ x.version = operation[x.request].version => x = Current(x.request)
        /\ x.state \in Terminal => x = Current(x.request)

LedgerInv == OpTypeOK /\ OperationsOK /\ ToldOK /\ UnknownNeedsResolver

(* What a host is about to write, and what a decision says, was read of a result
   and its findings (res and fin), and is still so: a correction knows all others
   at the version it read, and an approval has a PASS for its candidate. *)
Calling == [op : {"idle", "assess", "correct", "approve", "accept", "dispose",
                  "no-review", "note", "record", "endorse"},
            key : Results \cup CorrectionKeys \cup DecisionKeys \cup {None},
            result : Results \cup {None}, candidate : Candidates \cup {None},
            seen : Nat, listed : SUBSET CorrectionKeys]

Holds(c, res, fin) ==
    /\ c.op = "assess" => c.key \in Results
    /\ c.op = "correct" =>
          /\ c.key \in CorrectionKeys /\ c.result \in Results
          /\ 0 < c.seen /\ c.seen <= res[c.result].version
          /\ c.seen = res[c.result].version => c.listed = res[c.result].corrections
    /\ c.op \in {"approve", "accept", "endorse"} =>
          /\ c.key \in DecisionKeys
          /\ c.result # None =>
                /\ res[c.result].version > 0
                /\ res[c.result].verdict = "PASS" /\ res[c.result].candidate = c.candidate
    /\ c.op = "accept" => /\ c.result # None
                          /\ \A i \in Findings : fin[<<c.result, i>>] # 1

CallsOK == /\ call \in [Hosts -> Calling]
           /\ \A h \in Hosts : Holds(call[h], result, finding)

DecisionsOK == /\ decision \in [DecisionKeys -> Calling]
               /\ \A key \in DecisionKeys : Holds(decision[key], result, finding)

InputsOK == /\ input \in 1 .. MaxRevision
            /\ packet \in 0 .. MaxRevision
            /\ pin \in [Candidates -> 0 .. MaxRevision]

ResultsOK ==
    /\ result \in [Results -> Result]
    /\ finding \in [Results \X Findings -> Nat]
    /\ correction \in [CorrectionKeys -> Results \cup {None}]
    /\ \A k \in Results :
          /\ result[k].version = 0 => result[k] = NoResult
          /\ result[k].verdict = "PASS" => operation[k].state = "committed"
          /\ \A i \in Findings : finding[<<k, i>>] # 0 => result[k].version > 0

ChargedUnits(res) == {u \in Results \X (1 .. Units) : u[2] <= res[u[1]].charged}

ChargesOK == /\ spent \in Nat
             /\ IsFiniteSet(ChargedUnits(result))
             /\ spent = Cardinality(ChargedUnits(result))

IInv == /\ LedgerInv /\ InputsOK /\ ResultsOK /\ CallsOK /\ DecisionsOK
        /\ CorrectionsLinked /\ ChargesOK

(* No step changes an outcome that is known. *)
OutcomesStay ==
    \A r \in Requests : operation[r].state \in Terminal => operation'[r] = operation[r]
-----------------------------------------------------------------------------
LEMMA StatesDiffer == /\ "prepared" \notin Terminal \cup Unknown
                      /\ Terminal \cap Unknown = {}
                      /\ Terminal \cup Unknown \subseteq States
                      /\ "prepared" \in States
                      /\ "none" \notin States
BY DEF Terminal, Unknown, States

(* A record that is ahead of an operation whose outcome is not known. *)
LEMMA RecordsKeeps ==
    ASSUME OpTypeOK, OperationsOK, ToldOK,
           NEW r \in Requests, NEW state \in States, NEW version \in 1 .. 3,
           Records(r, state, version),
           operation[r].state \notin Terminal, version > operation[r].version,
           state = "prepared" <=> version = 1, state \in Unknown => version = 2
    PROVE  /\ operation' \in [Requests -> [state : States, version : 0 .. 3]]
           /\ told' \subseteq Handle
           /\ OperationsOK' /\ ToldOK' /\ OutcomesStay
<1> DEFINE new == [state |-> state, version |-> version]
           given == [request |-> r, state |-> state, version |-> version]
<1>1. operation' = [operation EXCEPT ![r] = new] /\ told' = told \cup {given}
  BY DEF Records
<1>2. new \in [state : States, version : 0 .. 3] /\ given \in Handle
  BY DEF Handle
<1>3. /\ operation' \in [Requests -> [state : States, version : 0 .. 3]]
      /\ told' \subseteq Handle
  BY <1>1, <1>2 DEF OpTypeOK
<1>4. /\ operation'[r] = new
      /\ \A q \in Requests \ {r} : operation'[q] = operation[q]
  BY <1>1 DEF OpTypeOK
<1>5. OperationsOK'
  <2> SUFFICES ASSUME NEW q \in Requests
               PROVE  /\ operation'[q].state = "prepared" <=> operation'[q].version < 2
                      /\ operation'[q].state \in Unknown => operation'[q].version = 2
    BY DEF OperationsOK
  <2>1. CASE q = r
    BY <1>4, <2>1
  <2>2. CASE q # r
    BY <1>4, <2>2 DEF OperationsOK
  <2> QED
    BY <2>1, <2>2
<1>6. Current(r)' = given /\ \A q \in Requests \ {r} : Current(q)' = Current(q)
  BY <1>4 DEF Current
<1>7. ToldOK'
  <2> SUFFICES ASSUME NEW x \in told'
               PROVE  /\ x.state = "prepared" <=> x.version = 1
                      /\ x.state \in Unknown => x.version = 2
                      /\ x.version <= operation'[x.request].version
                      /\ x.version = operation'[x.request].version => x = Current(x.request)'
                      /\ x.state \in Terminal => x = Current(x.request)'
    BY DEF ToldOK
  <2>1. CASE x = given
    BY <1>4, <1>6, <2>1
  <2>2. CASE x \in told /\ x.request # r
    <3>1. x.request \in Requests \ {r}
      BY <2>2 DEF OpTypeOK, Handle
    <3> QED
      BY <1>4, <1>6, <2>2, <3>1 DEF ToldOK
  <2>3. CASE x \in told /\ x.request = r
    <3>1. x \in Handle /\ x.version <= operation[r].version /\ operation[r].version \in 0 .. 3
      BY <2>3 DEF ToldOK, OpTypeOK
    <3>2. x.state \notin Terminal
      BY <2>3 DEF ToldOK, Current
    <3>3. x.version <= operation'[r].version /\ x.version # operation'[r].version
      BY <1>4, <3>1 DEF Handle
    <3>4. /\ x.state = "prepared" <=> x.version = 1
          /\ x.state \in Unknown => x.version = 2
      BY <2>3 DEF ToldOK
    <3> QED
      BY <2>3, <3>2, <3>3, <3>4
  <2> QED
    BY <1>1, <2>1, <2>2, <2>3
<1>8. OutcomesStay
  BY <1>4 DEF OutcomesStay
<1> QED
  BY <1>3, <1>5, <1>7, <1>8

(* An operation that is prepared, or runs as part of an assessment. *)
LEMMA UnresolvedKeeps ==
    ASSUME LedgerInv, NEW r \in Requests, NEW state \in States, NEW version \in 1 .. 2,
           Records(r, state, version), UNCHANGED outcomes,
           operation[r].version = 0, state = "prepared" <=> version = 1
    PROVE  LedgerInv' /\ OutcomesStay
<1>1. operation[r].state = "prepared"
  BY DEF LedgerInv, OperationsOK
<1>2. operation[r].state \notin Terminal
  BY <1>1, StatesDiffer
<1>3. state \in Unknown => version = 2
  BY StatesDiffer
<1>4. /\ operation' \in [Requests -> [state : States, version : 0 .. 3]]
      /\ told' \subseteq Handle
      /\ OperationsOK' /\ ToldOK' /\ OutcomesStay
  <2>1. version \in 1 .. 3 /\ version > operation[r].version
    OBVIOUS
  <2> QED
    BY <1>2, <1>3, <2>1, RecordsKeeps DEF LedgerInv
<1>5. UnknownNeedsResolver'
  <2> SUFFICES ASSUME NEW q \in Requests, operation'[q].version = 3
               PROVE  \E k \in Keys : /\ outcomes[k] # NoReceipt
                                      /\ outcomes[k].of.request = q
                                      /\ outcomes[k].of.state \in Unknown
                                      /\ outcomes[k].resolved
    BY DEF UnknownNeedsResolver, Resolved
  <2>1. operation'[q] = operation[q]
    BY DEF Records, LedgerInv, OpTypeOK
  <2> QED
    BY <2>1 DEF LedgerInv, UnknownNeedsResolver, Resolved
<1> QED
  BY <1>4, <1>5 DEF LedgerInv, OpTypeOK

LEMMA PrepareKeeps ==
    ASSUME LedgerInv, NEW r \in Requests, Prepare(r)
    PROVE  LedgerInv' /\ OutcomesStay
BY StatesDiffer, UnresolvedKeeps DEF Prepare

LEMMA TransitionKeeps ==
    ASSUME LedgerInv, NEW x \in told, NEW resolving \in BOOLEAN,
           NEW state \in Allowed(resolving), NEW key \in {x.request} \cup Explicit,
           Transition(x, state, key, resolving)
    PROVE  LedgerInv' /\ OutcomesStay
<1> DEFINE r == x.request
           receipt == [of |-> x, state |-> state, resolved |-> resolving]
<1>1. x \in Handle /\ r \in Requests /\ key \in Keys
  BY DEF LedgerInv, OpTypeOK, Handle, Keys
<1>2. /\ x.version = operation[r].version /\ x = Current(r)
      /\ x.state = "prepared" \/ (resolving /\ x.state \in Unknown)
      /\ Records(r, state, x.version + 1)
      /\ outcomes[key] = NoReceipt /\ outcomes' = [outcomes EXCEPT ![key] = receipt]
  BY DEF Transition, Admits, LedgerInv, ToldOK
<1>3. state \in States /\ state # "prepared"
  BY StatesDiffer DEF Allowed
<1>4. /\ x.state = "prepared" <=> x.version = 1
      /\ x.state \in Unknown => x.version = 2
  BY DEF LedgerInv, ToldOK
<1>5. state \in Unknown => x.version = 1
  BY <1>2, <1>4, StatesDiffer DEF Allowed
<1>6. x.version \in 1 .. 2
  <2>1. x.version \in 1 .. 3
    BY <1>1 DEF Handle
  <2> QED
    BY <1>2, <1>4, <2>1
<1>7. operation[r].state = x.state /\ x.state \notin Terminal
  BY <1>2, StatesDiffer DEF Current
<1>8. /\ operation' \in [Requests -> [state : States, version : 0 .. 3]]
      /\ told' \subseteq Handle
      /\ OperationsOK' /\ ToldOK' /\ OutcomesStay
  <2>1. /\ x.version + 1 \in 1 .. 3 /\ x.version + 1 > operation[r].version
        /\ state = "prepared" <=> x.version + 1 = 1
        /\ state \in Unknown => x.version + 1 = 2
    BY <1>2, <1>3, <1>5, <1>6
  <2> QED
    BY <1>1, <1>2, <1>3, <1>7, <2>1, RecordsKeeps DEF LedgerInv
<1>9. /\ outcomes' \in [Keys -> Receipt \cup {NoReceipt}]
      /\ outcomes'[key] = receipt
      /\ \A k \in Keys \ {key} : outcomes'[k] = outcomes[k]
  <2>1. receipt \in Receipt
    BY <1>1, <1>3 DEF Receipt
  <2> QED
    BY <1>1, <1>2, <2>1 DEF LedgerInv, OpTypeOK
<1>10. UnknownNeedsResolver'
  <2> SUFFICES ASSUME NEW q \in Requests, operation'[q].version = 3
               PROVE  \E k \in Keys : /\ outcomes'[k] # NoReceipt
                                      /\ outcomes'[k].of.request = q
                                      /\ outcomes'[k].of.state \in Unknown
                                      /\ outcomes'[k].resolved
    BY DEF UnknownNeedsResolver, Resolved
  <2>1. CASE q = r
    <3>1. operation'[r].version = x.version + 1
      BY <1>1, <1>2 DEF Records, LedgerInv, OpTypeOK
    <3>2. resolving /\ x.state \in Unknown
      BY <1>2, <1>4, <1>6, <2>1, <3>1
    <3>3. receipt # NoReceipt
      BY <1>3, StatesDiffer DEF NoReceipt
    <3> QED
      BY <1>1, <1>9, <2>1, <3>2, <3>3
  <2>2. CASE q # r
    <3>1. operation'[q] = operation[q]
      BY <1>1, <1>2, <2>2 DEF Records, LedgerInv, OpTypeOK
    <3>2. PICK k \in Keys : /\ outcomes[k] # NoReceipt
                            /\ outcomes[k].of.request = q
                            /\ outcomes[k].of.state \in Unknown
                            /\ outcomes[k].resolved
      BY <3>1 DEF LedgerInv, UnknownNeedsResolver, Resolved
    <3> QED
      BY <1>2, <1>9, <3>2
  <2> QED
    BY <2>1, <2>2
<1> QED
  BY <1>8, <1>9, <1>10 DEF LedgerInv, OpTypeOK
-----------------------------------------------------------------------------
(* Results and their findings only move forward. *)
Forward ==
    \A k \in Results : result[k].version > 0 =>
        /\ result'[k].version >= result[k].version
        /\ result'[k].verdict = result[k].verdict
        /\ result'[k].candidate = result[k].candidate
        /\ result'[k].version = result[k].version => result'[k].corrections = result[k].corrections
        /\ \A i \in Findings : finding[<<k, i>>] # 1 => finding'[<<k, i>>] # 1

LEMMA HoldsOn ==
    ASSUME result \in [Results -> Result], result' \in [Results -> Result], Forward,
           NEW c \in Calling, Holds(c, result, finding)
    PROVE  Holds(c, result', finding')
<1>1. c.op = "assess" => c.key \in Results
  BY DEF Holds
<1>2. ASSUME c.op = "correct"
      PROVE  /\ c.key \in CorrectionKeys /\ c.result \in Results
             /\ 0 < c.seen /\ c.seen <= result'[c.result].version
             /\ c.seen = result'[c.result].version => c.listed = result'[c.result].corrections
  <2> DEFINE old == result[c.result]
             new == result'[c.result]
  <2>1. /\ c.key \in CorrectionKeys /\ c.result \in Results
        /\ 0 < c.seen /\ c.seen <= old.version
        /\ c.seen = old.version => c.listed = old.corrections
    BY <1>2 DEF Holds
  <2>2. c.seen \in Nat /\ old.version \in Nat /\ new.version \in Nat
    BY <2>1 DEF Calling, Result
  <2>3. /\ new.version >= old.version
        /\ new.version = old.version => new.corrections = old.corrections
    BY <2>1, <2>2 DEF Forward
  <2> HIDE DEF old, new
  <2>4. /\ c.seen <= new.version
        /\ c.seen = new.version => c.listed = new.corrections
    BY <2>1, <2>2, <2>3
  <2> QED
    BY <2>1, <2>4 DEF new
<1>3. ASSUME c.op \in {"approve", "accept", "endorse"}
      PROVE  /\ c.key \in DecisionKeys
             /\ c.result # None =>
                   /\ result'[c.result].version > 0
                   /\ result'[c.result].verdict = "PASS"
                   /\ result'[c.result].candidate = c.candidate
  <2>1. c.key \in DecisionKeys
    BY <1>3 DEF Holds
  <2>2. ASSUME c.result # None
        PROVE  /\ result'[c.result].version > 0
               /\ result'[c.result].verdict = "PASS"
               /\ result'[c.result].candidate = c.candidate
    <3>1. /\ c.result \in Results /\ result[c.result].version > 0
          /\ result[c.result].verdict = "PASS" /\ result[c.result].candidate = c.candidate
      BY <1>3, <2>2 DEF Holds, Calling
    <3>2. result[c.result].version \in Nat /\ result'[c.result].version \in Nat
      BY <3>1 DEF Result
    <3> QED
      BY <3>1, <3>2 DEF Forward
  <2> QED
    BY <2>1, <2>2
<1>4. ASSUME c.op = "accept"
      PROVE  c.result # None /\ \A i \in Findings : finding'[<<c.result, i>>] # 1
  <2>1. /\ c.result # None /\ result[c.result].version > 0
        /\ \A i \in Findings : finding[<<c.result, i>>] # 1
    BY <1>4 DEF Holds
  <2>2. c.result \in Results
    BY <2>1 DEF Calling
  <2> QED
    BY <2>1, <2>2 DEF Forward
<1> QED
  BY <1>1, <1>2, <1>3, <1>4 DEF Holds

(* No result or finding changes. *)
LEMMA StandsStill ==
    ASSUME ResultsOK, UNCHANGED <<result, finding>>
    PROVE  result' \in [Results -> Result] /\ Forward
<1>1. \A k \in Results : result[k].version \in Nat
  BY DEF ResultsOK, Result
<1> QED
  BY <1>1 DEF ResultsOK, Forward

LEMMA LedgerRests == ASSUME LedgerInv, UNCHANGED opVars PROVE LedgerInv' /\ OutcomesStay
BY DEF LedgerInv, opVars, OpTypeOK, OperationsOK, ToldOK, UnknownNeedsResolver, Resolved, OutcomesStay, Current

LEMMA ResultsRest ==
    ASSUME ResultsOK, UNCHANGED <<result, finding, correction>>, OutcomesStay
    PROVE  ResultsOK'
<1> SUFFICES ASSUME NEW k \in Results, result[k].verdict = "PASS"
             PROVE  operation'[k].state = "committed"
  BY DEF ResultsOK
<1>1. operation[k].state = "committed" /\ k \in Requests
  BY AssessmentAssumption DEF ResultsOK
<1>2. operation'[k] = operation[k]
  BY <1>1 DEF OutcomesStay, Terminal
<1> QED
  BY <1>1, <1>2

LEMMA ChargesRest ==
    ASSUME ChargesOK, UNCHANGED <<result, spent>>
    PROVE  ChargesOK'
BY DEF ChargesOK, ChargedUnits

LEMMA IdleHolds ==
    /\ Idle \in Calling
    /\ \A res, fin : Holds(Idle, res, fin)
BY DEF Idle, Calling, Holds

(* A host is about to write what it read, or is done. *)
LEMMA CallingKeeps ==
    ASSUME CallsOK, NEW h \in Hosts, NEW c \in Calling, Holds(c, result, finding),
           Calls(h, c), result \in [Results -> Result], result' \in [Results -> Result], Forward
    PROVE  CallsOK'
<1>1. /\ call' \in [Hosts -> Calling]
      /\ call'[h] = c /\ \A g \in Hosts \ {h} : call'[g] = call[g]
  BY DEF CallsOK, Calls
<1>2. ASSUME NEW g \in Hosts PROVE Holds(call'[g], result', finding')
  <2>1. call'[g] \in Calling /\ Holds(call'[g], result, finding)
    BY <1>1 DEF CallsOK
  <2> QED
    BY <2>1, HoldsOn
<1> QED
  BY <1>1, <1>2 DEF CallsOK

LEMMA CallsRest ==
    ASSUME CallsOK, UNCHANGED call,
           result \in [Results -> Result], result' \in [Results -> Result], Forward
    PROVE  CallsOK'
BY HoldsOn DEF CallsOK

LEMMA DecisionsRest ==
    ASSUME DecisionsOK, UNCHANGED decision,
           result \in [Results -> Result], result' \in [Results -> Result], Forward
    PROVE  DecisionsOK'
BY HoldsOn DEF DecisionsOK

(* A step that reads. *)
LEMMA ReadKeeps ==
    ASSUME IInv, NEW h \in Hosts, NEW c \in Calling, Holds(c, result, finding), Calls(h, c),
           UNCHANGED <<input, packet, pin, result, finding, correction, decision, spent, opVars>>
    PROVE  IInv'
<1>1. LedgerInv' /\ OutcomesStay
  BY LedgerRests DEF IInv
<1>2. ResultsOK'
  BY <1>1, ResultsRest DEF IInv
<1>3. result \in [Results -> Result] /\ result' \in [Results -> Result] /\ Forward
  BY StandsStill DEF IInv, ResultsOK
<1>4. CallsOK' /\ DecisionsOK'
  BY <1>3, CallingKeeps, DecisionsRest DEF IInv
<1>5. ChargesOK' /\ InputsOK' /\ CorrectionsLinked'
  BY ChargesRest DEF IInv, InputsOK, CorrectionsLinked
<1> QED
  BY <1>1, <1>2, <1>4, <1>5 DEF IInv

(* A decision is recorded, by a call that read before or at once. *)
LEMMA RecordKeeps ==
    ASSUME IInv, NEW key \in DecisionKeys, NEW d \in Calling, Holds(d, result, finding),
           Record(key, d), call' = call \/ \E h \in Hosts : Done(h)
    PROVE  IInv'
<1>1. LedgerInv' /\ OutcomesStay
  BY LedgerRests DEF IInv, Record
<1>2. ResultsOK'
  BY <1>1, ResultsRest DEF IInv, Record
<1>3. result \in [Results -> Result] /\ result' \in [Results -> Result] /\ Forward
  BY StandsStill DEF IInv, ResultsOK, Record
<1>4. CallsOK'
  BY <1>3, CallsRest, CallingKeeps, IdleHolds DEF IInv, Done
<1>5. DecisionsOK'
  <2>1. /\ decision' \in [DecisionKeys -> Calling]
        /\ \A k \in DecisionKeys : decision'[k] = d \/ decision'[k] = decision[k]
    BY DEF IInv, DecisionsOK, Record
  <2>2. ASSUME NEW k \in DecisionKeys PROVE Holds(decision'[k], result', finding')
    BY <1>3, <2>1, HoldsOn DEF IInv, DecisionsOK
  <2> QED
    BY <2>1, <2>2 DEF DecisionsOK
<1>6. ChargesOK' /\ InputsOK' /\ CorrectionsLinked'
  BY ChargesRest DEF IInv, InputsOK, CorrectionsLinked, Record
<1> QED
  BY <1>1, <1>2, <1>4, <1>5, <1>6 DEF IInv

(* The inputs are revised, frozen or pinned. *)
LEMMA InputsKeep ==
    ASSUME IInv, InputsOK',
           UNCHANGED <<result, finding, correction, decision, spent, call, opVars>>
    PROVE  IInv'
<1>1. LedgerInv' /\ OutcomesStay
  BY LedgerRests DEF IInv
<1>2. ResultsOK'
  BY <1>1, ResultsRest DEF IInv
<1>3. result \in [Results -> Result] /\ result' \in [Results -> Result] /\ Forward
  BY StandsStill DEF IInv, ResultsOK
<1>4. CallsOK' /\ DecisionsOK'
  BY <1>3, CallsRest, DecisionsRest DEF IInv
<1>5. ChargesOK' /\ CorrectionsLinked'
  BY ChargesRest DEF IInv, CorrectionsLinked
<1> QED
  BY <1>1, <1>2, <1>4, <1>5 DEF IInv
-----------------------------------------------------------------------------
LEMMA InitOK == ASSUME Init PROVE IInv
<1> USE DEF Init, OpInit, AInit
<1>1. LedgerInv
  BY StatesDiffer DEF LedgerInv, OpTypeOK, OperationsOK, ToldOK, UnknownNeedsResolver, Resolved, NoOperation
<1>2. NoResult \in Result
  BY AssessmentAssumption DEF NoResult, Result, Verdicts
<1>3. ResultsOK
  BY <1>2 DEF ResultsOK, NoResult
<1>4. CallsOK /\ DecisionsOK
  BY IdleHolds DEF CallsOK, DecisionsOK
<1>5. ChargesOK
  <2>1. ChargedUnits(result) = {}
    BY DEF ChargedUnits, NoResult
  <2> QED
    BY <2>1, FS_EmptySet DEF ChargesOK
<1>6. CorrectionsLinked
  <2>1. \A k \in Results, c \in CorrectionKeys : correction[c] # k
    BY AssessmentAssumption
  <2>2. \A k \in Results : {c \in CorrectionKeys : correction[c] = k} = {}
    BY <2>1
  <2>3. \A k \in Results : result[k].corrections = {}
    BY DEF NoResult
  <2> QED
    BY <2>2, <2>3 DEF CorrectionsLinked
<1>7. InputsOK
  BY AssessmentAssumption DEF InputsOK
<1> QED
  BY <1>1, <1>3, <1>4, <1>5, <1>6, <1>7 DEF IInv

LEMMA StartAssessKeeps ==
    ASSUME IInv, NEW h \in Hosts, NEW k \in Results, NEW c \in Candidates, StartAssess(h, k, c)
    PROVE  IInv'
<1> DEFINE new == [Idle EXCEPT !.op = "assess", !.key = k, !.candidate = c]
<1>1. /\ new \in Calling
      /\ new.op = "assess" /\ new.key = k
  BY DEF Idle, Calling
<1>2. Calls(h, new)
  BY DEF StartAssess
<1> HIDE DEF new
<1>3. Holds(new, result, finding)
  BY <1>1 DEF Holds
<1> QED
  BY <1>1, <1>2, <1>3, ReadKeeps DEF StartAssess, Reading

LEMMA StartCorrectKeeps ==
    ASSUME IInv, NEW h \in Hosts, NEW key \in CorrectionKeys, NEW k \in Results,
           StartCorrect(h, key, k)
    PROVE  IInv'
<1>1. /\ result[k].version \in Nat /\ result[k].version > 0
      /\ result[k].corrections \in SUBSET CorrectionKeys
  BY DEF IInv, ResultsOK, Result, StartCorrect
<1> DEFINE new == [Idle EXCEPT !.op = "correct", !.key = key, !.result = k,
                                !.seen = result[k].version, !.listed = result[k].corrections]
<1>2. /\ new \in Calling
      /\ new.op = "correct" /\ new.key = key /\ new.result = k
      /\ new.seen = result[k].version /\ new.listed = result[k].corrections
  BY <1>1 DEF Idle, Calling
<1>3. Calls(h, new)
  BY DEF StartCorrect
<1> HIDE DEF new
<1>4. Holds(new, result, finding)
  BY <1>1, <1>2 DEF Holds
<1> QED
  BY <1>2, <1>3, <1>4, ReadKeeps DEF StartCorrect, Reading

LEMMA StartApproveKeeps ==
    ASSUME IInv, NEW h \in Hosts, NEW key \in DecisionKeys, NEW c \in Candidates,
           NEW k \in Results \cup {None}, StartApprove(h, key, c, k)
    PROVE  IInv'
<1> DEFINE new == [Idle EXCEPT !.op = "approve", !.key = key, !.result = k, !.candidate = c]
<1>1. /\ new \in Calling
      /\ new.op = "approve" /\ new.key = key /\ new.result = k /\ new.candidate = c
  BY DEF Idle, Calling
<1>2. Calls(h, new)
  BY DEF StartApprove
<1> HIDE DEF new
<1>3. Holds(new, result, finding)
  BY <1>1 DEF Holds, StartApprove, Approvable
<1> QED
  BY <1>1, <1>2, <1>3, ReadKeeps DEF StartApprove, Reading

LEMMA ApproveKeeps == ASSUME IInv, NEW h \in Hosts, Approve(h) PROVE IInv'
<1>1. call[h] \in Calling /\ Holds(call[h], result, finding)
  BY DEF IInv, CallsOK
<1>2. call[h].key \in DecisionKeys
  BY <1>1 DEF Approve, Holds
<1> QED
  BY <1>1, <1>2, RecordKeeps DEF Approve

LEMMA RecordDecisionKeeps ==
    ASSUME IInv, NEW key \in DecisionKeys, NEW c \in Candidates, NEW k \in Results \cup {None},
           RecordDecision(key, c, k)
    PROVE  IInv'
<1>1. PICK op \in {"record", "endorse"} :
        /\ op = "endorse" /\ k # None => result[k].verdict = "PASS"
        /\ Record(key, [Idle EXCEPT !.op = op, !.key = key, !.result = k, !.candidate = c])
  BY DEF RecordDecision
<1> DEFINE new == [Idle EXCEPT !.op = op, !.key = key, !.result = k, !.candidate = c]
<1>2. /\ new \in Calling
      /\ new.op = op /\ new.key = key /\ new.result = k /\ new.candidate = c
  BY DEF Idle, Calling
<1>3. Record(key, new)
  BY <1>1
<1> HIDE DEF new
<1>4. Holds(new, result, finding)
  BY <1>1, <1>2 DEF Holds, RecordDecision
<1> QED
  BY <1>2, <1>3, <1>4, RecordKeeps DEF RecordDecision

LEMMA NoteKeeps ==
    ASSUME IInv, NEW key \in DecisionKeys, NEW k \in Results \cup {None},
           NEW c \in Candidates \cup {None}, Note(key, k, c)
    PROVE  IInv'
<1> DEFINE new == [Idle EXCEPT !.op = "note", !.key = key, !.result = k, !.candidate = c]
<1>1. /\ new \in Calling
      /\ new.op = "note"
  BY DEF Idle, Calling
<1>2. Record(key, new)
  BY DEF Note
<1> HIDE DEF new
<1>3. Holds(new, result, finding)
  BY <1>1 DEF Holds
<1> QED
  BY <1>1, <1>2, <1>3, RecordKeeps DEF Note

LEMMA AcceptKeeps ==
    ASSUME IInv, NEW key \in DecisionKeys, NEW k \in Results, Accept(key, k)
    PROVE  IInv'
<1>1. k # None /\ result[k].candidate \in Candidates \cup {None}
  BY AssessmentAssumption DEF IInv, ResultsOK, Result
<1>2. /\ result[k].version > 0 /\ result[k].verdict = "PASS"
      /\ \A i \in Findings : finding[<<k, i>>] # 1
  BY DEF Accept, Acceptable, Open
<1> DEFINE new == [Idle EXCEPT !.op = "accept", !.key = key, !.result = k,
                                !.candidate = result[k].candidate]
<1>3. /\ new \in Calling
      /\ new.op = "accept" /\ new.key = key /\ new.result = k
      /\ new.candidate = result[k].candidate
  BY <1>1 DEF Idle, Calling
<1>4. Record(key, new)
  BY DEF Accept, Of
<1> HIDE DEF new
<1>5. Holds(new, result, finding)
  BY <1>3, <1>1, <1>2 DEF Holds
<1> QED
  BY <1>3, <1>4, <1>5, RecordKeeps DEF Accept

LEMMA DisposeKeeps ==
    ASSUME IInv, NEW key \in DecisionKeys, NEW k \in Results, DisposeUnknown(key, k)
    PROVE  IInv'
<1>1. result[k].candidate \in Candidates \cup {None}
  BY DEF IInv, ResultsOK, Result
<1> DEFINE new == [Idle EXCEPT !.op = "dispose", !.key = key, !.result = k,
                                !.candidate = result[k].candidate]
<1>2. /\ new \in Calling
      /\ new.op = "dispose"
  BY <1>1 DEF Idle, Calling
<1>3. Record(key, new)
  BY DEF DisposeUnknown, Of
<1> HIDE DEF new
<1>4. Holds(new, result, finding)
  BY <1>2 DEF Holds
<1> QED
  BY <1>2, <1>3, <1>4, RecordKeeps DEF DisposeUnknown

LEMMA NoReviewKeeps ==
    ASSUME IInv, NEW key \in DecisionKeys, NEW c \in Candidates, AcceptWithoutReview(key, c)
    PROVE  IInv'
<1> DEFINE new == [Idle EXCEPT !.op = "no-review", !.key = key, !.candidate = c]
<1>1. /\ new \in Calling
      /\ new.op = "no-review"
  BY DEF Idle, Calling
<1>2. Record(key, new)
  BY DEF AcceptWithoutReview
<1> HIDE DEF new
<1>3. Holds(new, result, finding)
  BY <1>1 DEF Holds
<1> QED
  BY <1>1, <1>2, <1>3, RecordKeeps DEF AcceptWithoutReview

(* Whatever fails or is refused leaves only the host free again. *)
LEMMA AbortKeeps == ASSUME IInv, NEW h \in Hosts, Abort(h) PROVE IInv'
BY IdleHolds, ReadKeeps DEF Abort, Done, RolledBack

LEMMA OperationKeeps == ASSUME IInv, OperationStep PROVE IInv'
<1>1. LedgerInv' /\ OutcomesStay
  <2>1. ASSUME NEW r \in Requests, Prepare(r) PROVE LedgerInv' /\ OutcomesStay
    BY <2>1, PrepareKeeps DEF IInv
  <2>2. CASE Outcome
    BY <2>2, TransitionKeeps DEF Outcome, IInv
  <2> QED
    BY <2>1, <2>2 DEF OperationStep
<1>2. UNCHANGED <<input, packet, pin, result, finding, correction, decision, spent, call>>
  BY DEF OperationStep, aVars
<1>3. ResultsOK'
  BY <1>1, <1>2, ResultsRest DEF IInv
<1>4. result \in [Results -> Result] /\ result' \in [Results -> Result] /\ Forward
  BY <1>2, StandsStill DEF IInv, ResultsOK
<1>5. CallsOK' /\ DecisionsOK'
  BY <1>2, <1>4, CallsRest, DecisionsRest DEF IInv
<1>6. ChargesOK' /\ InputsOK' /\ CorrectionsLinked'
  BY <1>2, ChargesRest DEF IInv, InputsOK, CorrectionsLinked
<1> QED
  BY <1>1, <1>3, <1>5, <1>6 DEF IInv

LEMMA CloseFindingKeeps ==
    ASSUME IInv, NEW k \in Results, NEW i \in Findings, CloseFinding(k, i)
    PROVE  IInv'
<1>1. LedgerInv' /\ OutcomesStay
  BY LedgerRests DEF IInv, CloseFinding
<1>2. /\ finding[<<k, i>>] \in Nat /\ finding[<<k, i>>] >= 1
      /\ finding' = [finding EXCEPT ![<<k, i>>] = @ + 1]
  BY AssessmentAssumption DEF IInv, ResultsOK, CloseFinding
<1>3. /\ finding' \in [Results \X Findings -> Nat]
      /\ finding'[<<k, i>>] \notin {0, 1}
      /\ \A f \in Results \X Findings : f # <<k, i>> => finding'[f] = finding[f]
  BY <1>2 DEF IInv, ResultsOK
<1>4. result[k].version > 0
  BY <1>2 DEF IInv, ResultsOK
<1>5. ResultsOK'
  <2>1. UNCHANGED <<result, correction>>
    BY DEF CloseFinding
  <2>2. ASSUME NEW q \in Results
        PROVE  /\ result[q].version = 0 => result[q] = NoResult
               /\ result[q].verdict = "PASS" => operation'[q].state = "committed"
               /\ \A j \in Findings : finding'[<<q, j>>] # 0 => result[q].version > 0
    <3>1. /\ result[q].version = 0 => result[q] = NoResult
          /\ result[q].verdict = "PASS" => operation[q].state = "committed"
          /\ \A j \in Findings : finding[<<q, j>>] # 0 => result[q].version > 0
      BY DEF IInv, ResultsOK
    <3>2. UNCHANGED operation
      BY DEF CloseFinding, opVars
    <3>3. \A j \in Findings : finding'[<<q, j>>] # 0 => result[q].version > 0
      BY <1>3, <1>4, <3>1
    <3> QED
      BY <3>1, <3>2, <3>3
  <2> QED
    BY <1>3, <2>1, <2>2 DEF IInv, ResultsOK
<1>6. Forward
  <2>1. \A q \in Results : result[q].version \in Nat
    BY DEF IInv, ResultsOK, Result
  <2>2. \A q \in Results, j \in Findings : finding[<<q, j>>] # 1 => finding'[<<q, j>>] # 1
    BY <1>3
  <2> QED
    BY <2>1, <2>2 DEF Forward, CloseFinding
<1>7. CallsOK' /\ DecisionsOK'
  <2>1. result \in [Results -> Result] /\ result' \in [Results -> Result]
    BY DEF IInv, ResultsOK, CloseFinding
  <2> QED
    BY <1>6, <2>1, CallsRest, DecisionsRest DEF IInv, CloseFinding
<1>8. ChargesOK' /\ InputsOK' /\ CorrectionsLinked'
  BY ChargesRest DEF IInv, InputsOK, CorrectionsLinked, CloseFinding
<1> QED
  BY <1>1, <1>5, <1>7, <1>8 DEF IInv

LEMMA LinkedResult ==
    ASSUME NEW r \in Result, NEW c \in Calling, c.key \in CorrectionKeys
    PROVE  /\ Linked(r, c) \in Result
           /\ Linked(r, c).version = r.version + 1
           /\ Linked(r, c).corrections = c.listed \cup {c.key}
           /\ Linked(r, c).verdict = r.verdict /\ Linked(r, c).candidate = r.candidate
           /\ Linked(r, c).charged = r.charged
<1> DEFINE n == r.version + 1
           links == c.listed \cup {c.key}
           new == [r EXCEPT !.version = n, !.corrections = links]
<1>1. Linked(r, c) = new
  BY DEF Linked
<1>2. n \in Nat /\ links \in SUBSET CorrectionKeys
  BY DEF Result, Calling
<1> HIDE DEF n, links
<1>3. new \in Result
  BY <1>2 DEF Result
<1>4. /\ new.version = n /\ new.corrections = links
      /\ new.verdict = r.verdict /\ new.candidate = r.candidate
      /\ new.charged = r.charged
  BY <1>2 DEF Result
<1> QED
  BY <1>1, <1>3, <1>4 DEF n, links

(* The correction and its link, in a result nobody changed since it was read. *)
LEMMA CorrectKeeps == ASSUME IInv, NEW h \in Hosts, Correct(h) PROVE IInv'
<1> DEFINE c == call[h]
           k == c.result
           old == result[k]
           new == Linked(old, c)
<1>0. /\ c \in Calling /\ Holds(c, result, finding)
      /\ result \in [Results -> Result]
      /\ correction \in [CorrectionKeys -> Results \cup {None}]
  BY DEF IInv, CallsOK, ResultsOK
<1>1. /\ c.key \in CorrectionKeys /\ k \in Results /\ c.listed \in SUBSET CorrectionKeys
      /\ c.seen = old.version => c.listed = old.corrections
      /\ c.seen \in Nat /\ 0 < c.seen /\ c.seen <= old.version
  BY <1>0 DEF Calling, Holds, Correct
<1>2. /\ correction[c.key] = None /\ old.version = c.seen
      /\ correction' = [correction EXCEPT ![c.key] = k]
      /\ result' = [result EXCEPT ![k] = new]
      /\ UNCHANGED <<input, packet, pin, finding, decision, spent, opVars>> /\ Done(h)
  BY DEF Correct, LinkAdmitted
<1>3. old \in Result /\ old.version \in Nat /\ old.version > 0
  BY <1>0, <1>1, <1>2 DEF Result
<1>4. /\ new \in Result
      /\ new.version = old.version + 1
      /\ new.corrections = old.corrections \cup {c.key}
      /\ new.verdict = old.verdict /\ new.candidate = old.candidate /\ new.charged = old.charged
  BY <1>0, <1>1, <1>2, <1>3, LinkedResult
<1> HIDE DEF new
<1>5. /\ result' \in [Results -> Result] /\ result'[k] = new
      /\ \A q \in Results \ {k} : result'[q] = result[q]
      /\ correction' \in [CorrectionKeys -> Results \cup {None}] /\ correction'[c.key] = k
      /\ \A d \in CorrectionKeys \ {c.key} : correction'[d] = correction[d]
  <2>1. /\ result \in [Results -> Result]
        /\ correction \in [CorrectionKeys -> Results \cup {None}]
    BY DEF IInv, ResultsOK
  <2> QED
    BY <1>1, <1>2, <1>4, <2>1
<1>6. LedgerInv' /\ OutcomesStay
  BY <1>2, LedgerRests DEF IInv
<1>7. old.version \in Nat /\ \A q \in Results : result[q].version \in Nat
  BY <1>1 DEF IInv, ResultsOK, Result
<1>8. ResultsOK'
  <2>1. UNCHANGED <<finding, operation>>
    BY <1>2 DEF opVars
  <2>2. ASSUME NEW q \in Results
        PROVE  /\ result'[q].version = 0 => result'[q] = NoResult
               /\ result'[q].verdict = "PASS" => operation[q].state = "committed"
               /\ \A j \in Findings : finding[<<q, j>>] # 0 => result'[q].version > 0
    <3>1. CASE q = k
      BY <1>4, <1>5, <1>7, <3>1 DEF IInv, ResultsOK
    <3>2. CASE q # k
      BY <1>5, <3>2 DEF IInv, ResultsOK
    <3> QED
      BY <3>1, <3>2
  <2> QED
    BY <1>5, <2>1, <2>2 DEF IInv, ResultsOK
<1>9. Forward
  <2> SUFFICES ASSUME NEW q \in Results
               PROVE  /\ result'[q].version >= result[q].version
                      /\ result'[q].verdict = result[q].verdict
                      /\ result'[q].candidate = result[q].candidate
                      /\ result'[q].version = result[q].version
                            => result'[q].corrections = result[q].corrections
    BY <1>2 DEF Forward
  <2>1. CASE q = k
    BY <1>4, <1>5, <1>7, <2>1
  <2>2. CASE q # k
    BY <1>5, <1>7, <2>2
  <2> QED
    BY <2>1, <2>2
<1>10. CallsOK' /\ DecisionsOK'
  BY <1>2, <1>5, <1>9, IdleHolds, CallingKeeps, DecisionsRest DEF IInv, ResultsOK, Done
<1>11. CorrectionsLinked'
  <2> SUFFICES ASSUME NEW q \in Results
               PROVE  result'[q].corrections = {d \in CorrectionKeys : correction'[d] = q}
    BY DEF CorrectionsLinked
  <2>1. result[q].corrections = {d \in CorrectionKeys : correction[d] = q}
    BY DEF IInv, CorrectionsLinked
  <2>2. correction[c.key] # q
    BY <1>2, AssessmentAssumption
  <2>3. CASE q = k
    BY <1>1, <1>4, <1>5, <2>1, <2>3
  <2>4. CASE q # k
    BY <1>1, <1>5, <2>1, <2>2, <2>4
  <2> QED
    BY <2>3, <2>4
<1>12. ChargesOK'
  <2>1. \A q \in Results : result'[q].charged = result[q].charged
    BY <1>4, <1>5
  <2>2. ChargedUnits(result') = ChargedUnits(result)
    BY <2>1 DEF ChargedUnits
  <2> QED
    BY <1>2, <2>2 DEF IInv, ChargesOK
<1>13. InputsOK'
  BY <1>2 DEF IInv, InputsOK
<1> QED
  BY <1>6, <1>8, <1>10, <1>11, <1>12, <1>13 DEF IInv

(* What one more result adds to the units that are charged. *)
LEMMA OneMoreCharge ==
    ASSUME NEW old \in [Results -> Result], NEW new \in [Results -> Result],
           NEW k \in Results, \A q \in Results \ {k} : new[q] = old[q],
           old[k].charged = 0, IsFiniteSet(ChargedUnits(old))
    PROVE  /\ IsFiniteSet(ChargedUnits(new))
           /\ Cardinality(ChargedUnits(new)) = Cardinality(ChargedUnits(old)) + new[k].charged
<1> DEFINE n == new[k].charged
           fresh == {k} \X (1 .. n)
<1>1. n \in 0 .. Units /\ Units \in Nat
  BY AssessmentAssumption DEF Result
<1>2. ChargedUnits(new) = ChargedUnits(old) \cup fresh
  <2>1. ASSUME NEW u \in ChargedUnits(new) PROVE u \in ChargedUnits(old) \cup fresh
    <3>1. u \in Results \X (1 .. Units) /\ u[2] <= new[u[1]].charged
      BY DEF ChargedUnits
    <3>2. CASE u[1] = k
      BY <1>1, <3>1, <3>2
    <3>3. CASE u[1] # k
      BY <3>1, <3>3 DEF ChargedUnits
    <3> QED
      BY <3>2, <3>3
  <2>2. ASSUME NEW u \in ChargedUnits(old) PROVE u \in ChargedUnits(new)
    <3>1. u \in Results \X (1 .. Units) /\ u[2] <= old[u[1]].charged
      BY DEF ChargedUnits
    <3>2. u[1] # k
      BY <3>1
    <3> QED
      BY <3>1, <3>2 DEF ChargedUnits
  <2>3. ASSUME NEW u \in fresh PROVE u \in ChargedUnits(new)
    BY <1>1 DEF ChargedUnits
  <2> QED
    BY <2>1, <2>2, <2>3
<1>3. ChargedUnits(old) \cap fresh = {}
  BY <1>1 DEF ChargedUnits
<1>4. IsFiniteSet({k}) /\ Cardinality({k}) = 1
  BY FS_Singleton
<1>5. IsFiniteSet(1 .. n) /\ Cardinality(1 .. n) = n
  <2>1. n \in Nat /\ n \in Int /\ 1 \in Int
    BY <1>1
  <2> HIDE DEF n
  <2>2. IsFiniteSet(1 .. n) /\ Cardinality(1 .. n) = IF 1 > n THEN 0 ELSE n - 1 + 1
    BY <2>1, FS_Interval
  <2> QED
    BY <2>1, <2>2
<1>6. IsFiniteSet(fresh) /\ Cardinality(fresh) = n
  <2>1. IsFiniteSet(fresh) /\ Cardinality(fresh) = Cardinality({k}) * Cardinality(1 .. n)
    BY <1>4, <1>5, FS_Product
  <2> QED
    BY <1>1, <1>4, <1>5, <2>1
<1>7. /\ IsFiniteSet(ChargedUnits(new))
      /\ Cardinality(ChargedUnits(new))
            = Cardinality(ChargedUnits(old)) + Cardinality(fresh) - Cardinality({})
  BY <1>2, <1>3, <1>6, FS_Union
<1>8. Cardinality({}) = 0 /\ Cardinality(ChargedUnits(old)) \in Nat
  BY FS_EmptySet, FS_CardinalityType
<1> QED
  BY <1>1, <1>6, <1>7, <1>8

LEMMA AssessKeeps ==
    ASSUME IInv, NEW h \in Hosts, NEW verdict \in Verdicts, NEW failed \in BOOLEAN,
           NEW declared \in 1 .. Units, NEW actual \in 0 .. Units, NEW found \in SUBSET Findings,
           Assess(h, verdict, failed, declared, actual, found)
    PROVE  IInv'
<1> DEFINE k == call[h].key
           new == [version |-> 1, verdict |-> verdict, candidate |-> call[h].candidate,
                   charged |-> actual, corrections |-> {}]
<1>1. /\ k \in Results /\ k \in Requests /\ call[h].candidate \in Candidates \cup {None}
      /\ result \in [Results -> Result] /\ finding \in [Results \X Findings -> Nat]
  BY AssessmentAssumption DEF IInv, CallsOK, ResultsOK, Holds, Calling, Assess
<1>2. /\ result[k].version = 0 /\ operation[k].version = 0
      /\ Records(k, StateOf(verdict, failed), 2)
      /\ spent' = spent + actual
      /\ finding' = [f \in DOMAIN finding |->
                        IF f[1] = k /\ f[2] \in found THEN 1 ELSE finding[f]]
      /\ result' = [result EXCEPT ![k] = new]
      /\ UNCHANGED <<input, packet, pin, correction, decision, outcomes>> /\ Done(h)
  BY DEF Assess
<1>3. new \in Result
  BY <1>1 DEF Result
<1>4. /\ result[k] = NoResult
      /\ \A i \in Findings : finding[<<k, i>>] = 0
  BY <1>1, <1>2 DEF IInv, ResultsOK
<1>5. /\ result' \in [Results -> Result] /\ result'[k] = new
      /\ \A q \in Results \ {k} : result'[q] = result[q]
  BY <1>1, <1>2, <1>3
<1>6. /\ finding' \in [Results \X Findings -> Nat]
      /\ \A q \in Results \ {k}, i \in Findings : finding'[<<q, i>>] = finding[<<q, i>>]
  BY <1>1, <1>2
<1>7. /\ StateOf(verdict, failed) \in States \ {"prepared"}
      /\ verdict = "PASS" => StateOf(verdict, failed) = "committed"
  BY DEF StateOf, States, Terminal, Unknown
<1>8. LedgerInv' /\ OutcomesStay
  BY <1>1, <1>2, <1>7, UnresolvedKeeps DEF IInv
<1>9. operation'[k].state = StateOf(verdict, failed)
  BY <1>1, <1>2 DEF Records, IInv, LedgerInv, OpTypeOK
<1>10. ResultsOK'
  <2>1. ASSUME NEW q \in Results
        PROVE  /\ result'[q].version = 0 => result'[q] = NoResult
               /\ result'[q].verdict = "PASS" => operation'[q].state = "committed"
               /\ \A i \in Findings : finding'[<<q, i>>] # 0 => result'[q].version > 0
    <3>1. CASE q = k
      BY <1>5, <1>7, <1>9, <3>1
    <3>2. CASE q # k
      <4>1. /\ result[q].version = 0 => result[q] = NoResult
            /\ result[q].verdict = "PASS" => operation[q].state = "committed"
            /\ \A i \in Findings : finding[<<q, i>>] # 0 => result[q].version > 0
        BY DEF IInv, ResultsOK
      <4>2. operation[q].state = "committed" => operation'[q] = operation[q]
        BY <1>8, AssessmentAssumption DEF OutcomesStay, Terminal
      <4> QED
        BY <1>5, <1>6, <3>2, <4>1, <4>2
    <3> QED
      BY <3>1, <3>2
  <2> QED
    BY <1>2, <1>5, <1>6, <2>1 DEF IInv, ResultsOK
<1>11. Forward
  <2>1. \A q \in Results : result[q].version \in Nat
    BY <1>1 DEF Result
  <2>2. \A q \in Results : result[q].version > 0 => q # k
    BY <1>2
  <2> QED
    BY <1>5, <1>6, <2>1, <2>2 DEF Forward
<1>12. CallsOK' /\ DecisionsOK'
  BY <1>1, <1>2, <1>5, <1>11, IdleHolds, CallingKeeps, DecisionsRest DEF IInv, Done
<1>13. CorrectionsLinked'
  <2>1. \A q \in Results : result'[q].corrections = result[q].corrections
    BY <1>4, <1>5 DEF NoResult
  <2> QED
    BY <1>2, <2>1 DEF IInv, CorrectionsLinked
<1>14. ChargesOK'
  <2>1. result[k].charged = 0 /\ result'[k].charged = actual
    BY <1>4, <1>5 DEF NoResult
  <2>2. /\ IsFiniteSet(ChargedUnits(result'))
        /\ Cardinality(ChargedUnits(result')) = Cardinality(ChargedUnits(result)) + actual
    BY <1>1, <1>5, <2>1, OneMoreCharge DEF IInv, ChargesOK
  <2>3. actual \in Nat /\ spent \in Nat
    BY AssessmentAssumption DEF IInv, ChargesOK
  <2> QED
    BY <1>2, <2>2, <2>3 DEF IInv, ChargesOK
<1>15. InputsOK'
  BY <1>2 DEF IInv, InputsOK
<1> QED
  BY <1>8, <1>10, <1>12, <1>13, <1>14, <1>15 DEF IInv
-----------------------------------------------------------------------------
LEMMA AssessmentKeeps == ASSUME IInv, NEW h \in Hosts, AssessmentStep(h) PROVE IInv'
<1>1. ASSUME NEW k \in Results, NEW c \in Candidates, StartAssess(h, k, c) PROVE IInv'
  BY <1>1, StartAssessKeeps
<1>2. ASSUME NEW k \in Results, NEW key \in CorrectionKeys, StartCorrect(h, key, k) PROVE IInv'
  BY <1>2, StartCorrectKeeps
<1>3. ASSUME NEW verdict \in Verdicts, NEW failed \in BOOLEAN, NEW declared \in 1 .. Units,
             NEW actual \in 0 .. Units, NEW found \in SUBSET Findings,
             Assess(h, verdict, failed, declared, actual, found)
      PROVE  IInv'
  BY <1>3, AssessKeeps
<1>4. CASE Correct(h)
  BY <1>4, CorrectKeeps
<1>5. CASE Abort(h)
  BY <1>5, AbortKeeps
<1> QED
  BY <1>1, <1>2, <1>3, <1>4, <1>5 DEF AssessmentStep

LEMMA ReviewKeeps == ASSUME IInv, ReviewStep PROVE IInv'
<1>1. ASSUME NEW k \in Results, NEW i \in Findings, CloseFinding(k, i) PROVE IInv'
  BY <1>1, CloseFindingKeeps
<1>2. ASSUME NEW key \in DecisionKeys, NEW k \in Results, Accept(key, k) \/ DisposeUnknown(key, k)
      PROVE  IInv'
  BY <1>2, AcceptKeeps, DisposeKeeps
<1>3. ASSUME NEW key \in DecisionKeys, NEW c \in Candidates,
             AcceptWithoutReview(key, c) \/ SelectCandidate(key, c)
      PROVE  IInv'
  BY <1>3, NoReviewKeeps, NoteKeeps DEF SelectCandidate
<1>4. ASSUME NEW key \in DecisionKeys, RecordLoopFacts(key) PROVE IInv'
  BY <1>4, NoteKeeps DEF RecordLoopFacts
<1> QED
  BY <1>1, <1>2, <1>3, <1>4 DEF ReviewStep

LEMMA NotesKeep == ASSUME IInv, NoteStep PROVE IInv'
BY NoteKeeps DEF NoteStep, AnnotateCandidate, ChooseNextAction, RecordWait

LEMMA NextKeeps == ASSUME IInv, Next PROVE IInv'
<1>1. ASSUME Revise \/ FreezeInput PROVE IInv'
  <2>1. InputsOK'
    BY <1>1, AssessmentAssumption DEF IInv, InputsOK, Revise, FreezeInput
  <2> QED
    BY <1>1, <2>1, InputsKeep DEF Revise, FreezeInput
<1>2. ASSUME NEW c \in Candidates, CreateCandidate(c) PROVE IInv'
  <2>1. InputsOK'
    BY <1>2, AssessmentAssumption DEF IInv, InputsOK, CreateCandidate
  <2> QED
    BY <1>2, <2>1, InputsKeep DEF CreateCandidate
<1>3. ASSUME NEW h \in Hosts, NEW key \in DecisionKeys, NEW c \in Candidates,
             NEW k \in Results \cup {None}, StartApprove(h, key, c, k)
      PROVE  IInv'
  BY <1>3, StartApproveKeeps
<1>4. ASSUME NEW h \in Hosts, Approve(h) \/ AssessmentStep(h) PROVE IInv'
  BY <1>4, ApproveKeeps, AssessmentKeeps
<1>5. ASSUME NEW key \in DecisionKeys, NEW c \in Candidates, NEW k \in Results \cup {None},
             RecordDecision(key, c, k)
      PROVE  IInv'
  BY <1>5, RecordDecisionKeeps
<1>6. CASE NoteStep
  BY <1>6, NotesKeep
<1>7. CASE ReviewStep
  BY <1>7, ReviewKeeps
<1>8. CASE OperationStep
  BY <1>8, OperationKeeps
<1> QED
  BY <1>1, <1>2, <1>3, <1>4, <1>5, <1>6, <1>7, <1>8 DEF Next

LEMMA StutterKeeps == ASSUME IInv, UNCHANGED vars PROVE IInv'
<1>1. InputsOK' /\ UNCHANGED <<result, finding, correction, decision, spent, call, opVars>>
  BY DEF vars, aVars, IInv, InputsOK
<1> QED
  BY <1>1, InputsKeep

LEMMA Invariance == Spec => []IInv
<1>1. Init => IInv
  BY InitOK
<1>2. IInv /\ [Next]_vars => IInv'
  BY NextKeeps, StutterKeeps
<1> QED
  BY <1>1, <1>2, PTL DEF Spec

(* Types of the operation ledger, of results, findings, corrections and decisions. *)
THEOREM TypeCorrect == Spec => []TypeOK
<1>1. IInv => TypeOK
  BY DEF IInv, TypeOK, ATypeOK, LedgerInv, InputsOK, ResultsOK, CallsOK, DecisionsOK,
         ChargesOK, Calling
<1> QED
  BY <1>1, Invariance, PTL

(* A known outcome that was told to anybody is the operation's for good. *)
THEOREM KnownOutcomesStand == Spec => []ToldOutcomesStand
<1>1. IInv => ToldOutcomesStand
  BY DEF IInv, LedgerInv, ToldOK, ToldOutcomesStand
<1> QED
  BY <1>1, Invariance, PTL

(* An unknown outcome is only ever settled by a resolver. *)
THEOREM UnknownIsResolved == Spec => []UnknownNeedsResolver
<1>1. IInv => UnknownNeedsResolver
  BY DEF IInv, LedgerInv
<1> QED
  BY <1>1, Invariance, PTL

(* No correction is lost, whoever corrects a result at the same time. *)
THEOREM NoCorrectionIsLost == Spec => []CorrectionsLinked
<1>1. IInv => CorrectionsLinked
  BY DEF IInv
<1> QED
  BY <1>1, Invariance, PTL

(* The pool pays for each result once, and for nothing else. *)
THEOREM OnlyResultsAreCharged == Spec => []ChargedForResults
<1>1. IInv => ChargedForResults
  BY DEF IInv, ChargesOK, ChargedUnits, ChargedForResults
<1> QED
  BY <1>1, Invariance, PTL

(* What was accepted or approved keeps its evidence. *)
THEOREM DecisionsKeepTheirEvidence == Spec => []DecisionsStand
<1>1. IInv => DecisionsStand
  <2> SUFFICES ASSUME IInv, NEW key \in DecisionKeys,
                      decision[key].op \in {"accept", "approve", "endorse"},
                      decision[key].result # None
               PROVE  LET d == decision[key] IN
                      /\ result[d.result].verdict = "PASS"
                      /\ result[d.result].candidate = d.candidate
                      /\ operation[d.result].state = "committed"
                      /\ d.op = "accept" => Open(d.result) = {}
    BY DEF DecisionsStand
  <2>1. decision[key] \in Calling /\ Holds(decision[key], result, finding)
    BY DEF IInv, DecisionsOK
  <2>2. decision[key].result \in Results
    BY <2>1 DEF Calling
  <2> QED
    BY <2>1, <2>2 DEF Holds, Open, IInv, ResultsOK
<1> QED
  BY <1>1, Invariance, PTL

-----------------------------------------------------------------------------
(* The ledger of operations implements EffectOutcomes. *)

(* What is known of an effect. *)
Knows(r) == IF operation[r].version = 0 THEN "none" ELSE operation[r].state

LEMMA LearnsIf ==
    ASSUME \A q \in Requests : Knows(q)' \in Effects!Later[Knows(q)],
           Resolved' = Resolved \cup {q \in Requests : Knows(q) = "unknown" /\ Knows(q)' # "unknown"},
           told \subseteq told',
           \A x \in told' \ told : x.state \in Terminal =>
              x.request \in Requests /\ Knows(x.request)' = x.state
    PROVE  Effects!Learn
<1>1. Effects!NothingForgotten
  BY DEF Effects!NothingForgotten, Knows
<1>2. Effects!SettledByResolver
  BY DEF Effects!SettledByResolver, Knows
<1>3. Effects!ToldAsItIs
  <2> DEFINE Out(T) == {<<x.request, x.state>> : x \in {y \in T : y.state \in Terminal}}
             known == [r \in Requests |-> Knows(r)']
  <2>1. Out(told) \subseteq Out(told')
    OBVIOUS
  <2>2. ASSUME NEW t \in Out(told') \ Out(told)
        PROVE  t[2] \in Effects!Known /\ known[t[1]] = t[2]
    <3>1. PICK x \in told' : x.state \in Terminal /\ t = <<x.request, x.state>>
      OBVIOUS
    <3>2. x \notin told
      BY <2>2, <3>1
    <3>3. t[1] = x.request /\ t[2] = x.state
      BY <3>1
    <3> QED
      BY <3>1, <3>2, <3>3 DEF Effects!Known, Terminal
  <2> QED
    BY <2>1, <2>2 DEF Effects!ToldAsItIs, Knows
<1> QED
  BY <1>1, <1>2, <1>3 DEF Effects!Learn

(* One operation is recorded at a later state, and the receipts say a resolver
   did it exactly if its outcome was unknown. *)
LEMMA RecordsLearns ==
    ASSUME OpTypeOK, NEW r \in Requests, NEW state \in States, NEW version \in 1 .. 3,
           Records(r, state, version),
           state \in Effects!Later[Knows(r)], Knows(r) = "unknown" => state # "unknown",
           Resolved' = Resolved \cup (IF Knows(r) = "unknown" THEN {r} ELSE {})
    PROVE  Effects!Learn
<1>1. /\ operation' = [operation EXCEPT ![r] = [state |-> state, version |-> version]]
      /\ told' = told \cup {[request |-> r, state |-> state, version |-> version]}
  BY DEF Records
<1>2. /\ operation'[r] = [state |-> state, version |-> version]
      /\ \A q \in Requests \ {r} : operation'[q] = operation[q]
  BY <1>1 DEF OpTypeOK
<1>3. Knows(r)' = state /\ \A q \in Requests \ {r} : Knows(q)' = Knows(q)
  <2>1. version # 0
    OBVIOUS
  <2> QED
    BY <1>2, <2>1 DEF Knows
<1>4. \A q \in Requests : Knows(q) \in Effects!Later[Knows(q)]
  <2> SUFFICES ASSUME NEW q \in Requests PROVE Knows(q) \in Effects!Later[Knows(q)]
    OBVIOUS
  <2>1. Knows(q) \in {"none", "prepared", "unknown", "committed", "failed"}
    BY DEF Knows, OpTypeOK, States, Terminal, Unknown
  <2> QED
    BY <2>1 DEF Effects!Later, Effects!Known
<1>5. \A q \in Requests : Knows(q)' \in Effects!Later[Knows(q)]
  BY <1>3, <1>4
<1>6. Resolved' = Resolved \cup {q \in Requests : Knows(q) = "unknown" /\ Knows(q)' # "unknown"}
  BY <1>3
<1>7. \A x \in told' \ told : x.request \in Requests /\ Knows(x.request)' = x.state
  <2>1. ASSUME NEW x \in told' \ told PROVE x.request = r /\ x.state = state
    BY <1>1
  <2> QED
    BY <1>3, <2>1
<1> QED
  BY <1>1, <1>5, <1>6, <1>7, LearnsIf

LEMMA UnresolvedLearns ==
    ASSUME LedgerInv, NEW r \in Requests, NEW state \in States, NEW version \in 1 .. 2,
           Records(r, state, version), UNCHANGED outcomes, operation[r].version = 0
    PROVE  Effects!Learn
<1>1. Knows(r) = "none"
  BY DEF Knows
<1>2. state \in Effects!Later["none"]
  BY DEF Effects!Later, Effects!Known, States, Terminal, Unknown
<1>3. Resolved' = Resolved
  BY DEF Resolved
<1>4. version \in 1 .. 3
  OBVIOUS
<1> QED
  BY <1>1, <1>2, <1>3, <1>4, RecordsLearns DEF LedgerInv

LEMMA TransitionLearns ==
    ASSUME LedgerInv, NEW x \in told, NEW resolving \in BOOLEAN,
           NEW state \in Allowed(resolving), NEW key \in {x.request} \cup Explicit,
           Transition(x, state, key, resolving)
    PROVE  Effects!Learn
<1> DEFINE r == x.request
           receipt == [of |-> x, state |-> state, resolved |-> resolving]
<1>1. x \in Handle /\ r \in Requests /\ key \in Keys
  BY DEF LedgerInv, OpTypeOK, Handle, Keys
<1>2. /\ x.version = operation[r].version /\ x = Current(r)
      /\ x.state = "prepared" \/ (resolving /\ x.state \in Unknown)
      /\ Records(r, state, x.version + 1)
      /\ outcomes[key] = NoReceipt /\ outcomes' = [outcomes EXCEPT ![key] = receipt]
  BY DEF Transition, Admits, LedgerInv, ToldOK
<1>3. /\ x.state = "prepared" <=> x.version = 1
      /\ x.state \in Unknown => x.version = 2
      /\ x.version \in 1 .. 3
  BY <1>1 DEF LedgerInv, ToldOK, Handle
<1>4. Knows(r) = x.state
  <2>1. operation[r].state = x.state /\ operation[r].version # 0
    BY <1>2, <1>3 DEF Current
  <2> QED
    BY <2>1 DEF Knows
<1>5. state \in States /\ state \in Effects!Later[x.state]
  <2>1. state \in {"committed", "failed", "unknown"}
    BY DEF Allowed, Terminal, Unknown
  <2>2. resolving => state \in {"committed", "failed"}
    BY DEF Allowed, Terminal
  <2> QED
    BY <1>2, <2>1, <2>2 DEF Effects!Later, Effects!Known, States, Terminal, Unknown
<1>6. x.state = "unknown" => state # "unknown"
  BY <1>2 DEF Allowed, Terminal
<1>7. x.version + 1 \in 1 .. 3
  BY <1>2, <1>3
<1>8. Resolved' = Resolved \cup (IF x.state = "unknown" THEN {r} ELSE {})
  <2> DEFINE By(rec, q) == /\ rec # NoReceipt
                           /\ rec.of.request = q
                           /\ rec.of.state \in Unknown
                           /\ rec.resolved
  <2>1. /\ outcomes'[key] = receipt
        /\ \A k \in Keys \ {key} : outcomes'[k] = outcomes[k]
    BY <1>1, <1>2 DEF LedgerInv, OpTypeOK
  <2>2. receipt # NoReceipt
    BY <1>5, StatesDiffer DEF NoReceipt
  <2>3. \A q \in Requests : By(receipt, q) <=> q = r /\ x.state = "unknown"
    BY <1>2, <2>2 DEF Unknown
  <2>4. \A q \in Requests : ~By(outcomes[key], q)
    BY <1>2
  <2> HIDE DEF receipt
  <2>5. ASSUME NEW q \in Requests
        PROVE  (\E k \in Keys : By(outcomes'[k], q))
               <=> (\E k \in Keys : By(outcomes[k], q)) \/ (q = r /\ x.state = "unknown")
    BY <1>1, <2>1, <2>3, <2>4
  <2>6. /\ Resolved = {q \in Requests : \E k \in Keys : By(outcomes[k], q)}
        /\ Resolved' = {q \in Requests : \E k \in Keys : By(outcomes'[k], q)}
    BY DEF Resolved
  <2> HIDE DEF By
  <2> QED
    BY <1>1, <2>5, <2>6
<1> QED
  BY <1>1, <1>2, <1>4, <1>5, <1>6, <1>7, <1>8, RecordsLearns DEF LedgerInv

LEMMA RestLearnsNothing == ASSUME UNCHANGED opVars PROVE UNCHANGED Effects!effects
BY DEF opVars, Effects!effects, Resolved

LEMMA StepLearns == ASSUME IInv, [Next]_vars PROVE [Effects!Learn]_(Effects!effects)
<1>1. ASSUME NEW h \in Hosts, NEW verdict \in Verdicts, NEW failed \in BOOLEAN,
             NEW declared \in 1 .. Units, NEW actual \in 0 .. Units, NEW found \in SUBSET Findings,
             Assess(h, verdict, failed, declared, actual, found)
      PROVE  Effects!Learn
  <2> DEFINE k == call[h].key
  <2>1. k \in Requests
    BY <1>1, AssessmentAssumption DEF IInv, CallsOK, Holds, Assess
  <2>2. /\ operation[k].version = 0 /\ Records(k, StateOf(verdict, failed), 2)
        /\ UNCHANGED outcomes
    BY <1>1 DEF Assess
  <2>3. StateOf(verdict, failed) \in States
    BY DEF StateOf, States, Terminal, Unknown
  <2> QED
    BY <2>1, <2>2, <2>3, UnresolvedLearns DEF IInv
<1>2. ASSUME OperationStep PROVE Effects!Learn
  <2>1. ASSUME NEW r \in Requests, Prepare(r) PROVE Effects!Learn
    <3>1. "prepared" \in States /\ 1 \in 1 .. 2
      BY StatesDiffer
    <3> QED
      BY <2>1, <3>1, UnresolvedLearns DEF Prepare, IInv
  <2>2. CASE Outcome
    BY <2>2, TransitionLearns DEF Outcome, IInv
  <2> QED
    BY <1>2, <2>1, <2>2 DEF OperationStep
<1>3. ASSUME NEW h \in Hosts,
             \/ Correct(h) \/ Abort(h) \/ Approve(h)
             \/ \E k \in Results, c \in Candidates : StartAssess(h, k, c)
             \/ \E k \in Results, key \in CorrectionKeys : StartCorrect(h, key, k)
             \/ \E key \in DecisionKeys, c \in Candidates, k \in Results \cup {None} :
                  StartApprove(h, key, c, k)
      PROVE  UNCHANGED opVars
  BY <1>3 DEF Correct, Abort, Approve, Record, StartAssess, StartCorrect, StartApprove, Reading
<1>4. ASSUME ReviewStep \/ NoteStep PROVE UNCHANGED opVars
  BY <1>4 DEF ReviewStep, NoteStep, CloseFinding, Accept, DisposeUnknown, AcceptWithoutReview,
              SelectCandidate, RecordLoopFacts, AnnotateCandidate, ChooseNextAction, RecordWait,
              Note, Record
<1>5. ASSUME \/ Revise \/ FreezeInput \/ UNCHANGED vars
             \/ \E c \in Candidates : CreateCandidate(c)
             \/ \E key \in DecisionKeys, c \in Candidates, k \in Results \cup {None} :
                  RecordDecision(key, c, k)
      PROVE  UNCHANGED opVars
  BY <1>5 DEF Revise, FreezeInput, CreateCandidate, RecordDecision, Record, vars
<1> DEFINE Learnt == [Effects!Learn]_(Effects!effects)
<1>6. ASSUME NEW h \in Hosts, AssessmentStep(h) PROVE Learnt
  <2>1. UNCHANGED opVars => Learnt
    BY RestLearnsNothing
  <2>2. Effects!Learn => Learnt
    OBVIOUS
  <2> HIDE DEF Learnt
  <2> QED
    BY <1>1, <1>3, <1>6, <2>1, <2>2 DEF AssessmentStep
<1>7. UNCHANGED opVars => Learnt
  BY RestLearnsNothing
<1>8. Effects!Learn => Learnt
  OBVIOUS
<1>9. Learnt
  <2> HIDE DEF Learnt
  <2> QED
    BY <1>2, <1>3, <1>4, <1>5, <1>6, <1>7, <1>8 DEF Next
<1> QED
  BY <1>9

LEMMA NothingLearned == ASSUME Init PROVE Effects!Start
<1>1. \A k \in Keys : outcomes[k] = NoReceipt
  BY DEF Init, OpInit
<1>2. Resolved = {}
  BY <1>1 DEF Resolved
<1>3. \A r \in Requests : operation[r].version = 0
  BY DEF Init, OpInit, NoOperation
<1>4. told = {}
  BY DEF Init, OpInit
<1>5. {<<x.request, x.state>> : x \in {y \in told : y.state \in Terminal}} = {}
  BY <1>4
<1> QED
  BY <1>2, <1>3, <1>5 DEF Effects!Start

(* The operation ledger implements EffectOutcomes: whatever callers with older
   records, resolvers and assessments do, an outcome is recorded once, an unknown
   one is settled by a resolver only, and nobody is told another. *)
THEOREM LedgerImplementsOutcomes == Spec => OutcomesImplemented
<1>1. Init => Effects!Start
  BY NothingLearned
<1>2. IInv /\ [Next]_vars => [Effects!Learn]_(Effects!effects)
  BY StepLearns
<1> QED
  BY <1>1, <1>2, Invariance, PTL DEF Spec, OutcomesImplemented, Effects!Spec
=============================================================================
