--------------------------- MODULE SessionsProofs ---------------------------
(***************************************************************************)
(* Safety of Sessions for any actors, hosts, scopes and requests.  A       *)
(* session that ended stays ended because what was read of it while it was *)
(* open is written back only if it still is, or as the record of one that  *)
(* ended.  A claim that is found, or about to be written, is that of a     *)
(* finish which was answered.  The two durable records agree on every      *)
(* session but those that a late write has displaced.                      *)
(***************************************************************************)
EXTENDS Sessions, TLAPS

Known == 1 .. Len(issued)

(* A finish of n kept its claim. *)
Kept == {"finished", "pending_released"}
Won(n, told) == \E y \in told : y[2] = n /\ y[3] \in Kept

(* What a call is about to write: the record of its session, open only if it saves,
   with a claim only if there was a winner. *)
Sensible(c) ==
    /\ c.session \in Known /\ c.write.session = c.session
    /\ c.op = "save" <=> c.write.state = "open"
    /\ c.write.claimed => Won(c.session, answers)
    /\ c.op \in {"refresh", "cleanup"} => ~CurrentOpen(c.session)

CallsOK == \A h \in Hosts : call[h] # Idle => Sensible(call[h])

ScopesOK == \A s \in Scopes :
    /\ scope[s].session # None => scope[s].session \in Known /\ ScopeOf(scope[s].session) = s
    /\ scope[s].state = "open" => scope[s].session # None
    /\ scope[s].claimed => Won(scope[s].session, answers)

AdoptedOK ==
    /\ adopted \in [Sessions -> {0, 1}]
    /\ \A n \in Sessions : adopted[n] = 1 <=> \E x \in answers : x[2] = n /\ x[3] = "finished"

AnswersOK ==
    /\ answers \subseteq FinishKeys \X Known \X (Outcomes \cup {"already_finished"})
    /\ \A x \in answers : ~CurrentOpen(x[2])
    /\ \A x, y \in answers :
          x[2] = y[2] /\ x[3] # "already_finished" /\ y[3] # "already_finished" => x = y
    /\ \A x \in answers : x[3] = "already_finished" =>
          \E y \in answers : y[2] = x[2] /\ y[1] # x[1] /\ y[3] \in Kept

IInv == TypeOK /\ CallsOK /\ ScopesOK /\ AdoptedOK /\ AnswersOK

(* No session that ended is open again. *)
Closing == \A n \in Known : CurrentOpen(n)' => CurrentOpen(n)
-----------------------------------------------------------------------------
LEMMA KnownOnes ==
    ASSUME TypeOK
    PROVE  /\ Len(issued) \in Nat /\ MaxSessions \in Nat
           /\ Known \subseteq Sessions
           /\ \A n \in Known : /\ issued[n] \in [scope : Scopes, actor : Actors, key : OpenKeys]
                               /\ ScopeOf(n) \in Scopes /\ issued[n].actor \in Actors
           /\ None \notin Known
<1>1. Len(issued) \in Nat /\ MaxSessions \in Nat /\ Len(issued) <= MaxSessions
  BY SessionAssumption DEF TypeOK
<1>2. Known \subseteq Sessions /\ None \notin Known
  BY <1>1 DEF Known, Sessions, None
<1>3. \A n \in Known : issued[n] \in [scope : Scopes, actor : Actors, key : OpenKeys]
  <2> DEFINE Issue == [scope : Scopes, actor : Actors, key : OpenKeys]
  <2>1. issued \in Seq(Issue)
    BY DEF TypeOK
  <2> HIDE DEF Issue
  <2>2. \A n \in 1 .. Len(issued) : issued[n] \in Issue
    BY <2>1
  <2> QED
    BY <2>2 DEF Known, Issue
<1> QED
  BY <1>1, <1>2, <1>3 DEF ScopeOf

LEMMA RecordsWritten ==
    ASSUME NEW r \in Record
    PROVE  /\ Released(r) \in Record /\ Released(r).session = r.session
           /\ Released(r).state = "released" /\ Released(r).claimed = r.claimed
           /\ \A rejected \in BOOLEAN :
                /\ Recovered(r, rejected) \in Record /\ Recovered(r, rejected).session = r.session
                /\ Recovered(r, rejected).state \in {"released", "rejected"}
                /\ Recovered(r, rejected).claimed = r.claimed
           /\ Refreshed(r) \in Record /\ Refreshed(r).session = r.session
           /\ Refreshed(r).state = r.state /\ Refreshed(r).claimed = r.claimed
<1>1. /\ Released(r) \in Record /\ Released(r).session = r.session
      /\ Released(r).state = "released" /\ Released(r).claimed = r.claimed
  BY DEF Released, Record
<1>2. ASSUME NEW rejected \in BOOLEAN
      PROVE  /\ Recovered(r, rejected) \in Record /\ Recovered(r, rejected).session = r.session
             /\ Recovered(r, rejected).state \in {"released", "rejected"}
             /\ Recovered(r, rejected).claimed = r.claimed
  BY DEF Recovered, Record
<1>3. /\ Refreshed(r) \in Record /\ Refreshed(r).session = r.session
      /\ Refreshed(r).state = r.state /\ Refreshed(r).claimed = r.claimed
  BY DEF Refreshed, Record
<1> QED
  BY <1>1, <1>2, <1>3

LEMMA FinishWritten ==
    ASSUME NEW r \in Record, NEW outcome \in Outcomes
    PROVE  /\ Finished(r, outcome) \in Record /\ Finished(r, outcome).session = r.session
           /\ Finished(r, outcome).state # "open"
           /\ Finished(r, outcome).claimed => outcome \in Kept
<1> DEFINE state == CASE outcome = "finished" -> "finished"
                      [] outcome = "rejected" -> "rejected"
                      [] OTHER -> "released"
           claimed == outcome \in {"finished", "pending_released"}
           recovery == outcome \in {"uncaptured", "failed"}
           new == [r EXCEPT !.state = state, !.claimed = claimed, !.recovery = recovery,
                            !.cleanup = "pending"]
<1>1. Finished(r, outcome) = new
  BY DEF Finished
<1>2. state \in {"finished", "rejected", "released"}
  OBVIOUS
<1>3. claimed \in BOOLEAN /\ recovery \in BOOLEAN /\ (claimed => outcome \in Kept)
  BY DEF Kept
<1> HIDE DEF state, claimed, recovery
<1>4. new \in Record /\ new.session = r.session /\ new.state = state /\ new.claimed = claimed
  BY <1>2, <1>3 DEF Record
<1> QED
  BY <1>1, <1>2, <1>3, <1>4

LEMMA InitOK == ASSUME Init PROVE IInv
<1> USE DEF Init
<1>1. Len(issued) = 0 /\ Known = {}
  BY DEF Known
<1>2. Blank \in Record
  BY DEF Blank, NewCheckout, Record, None
<1>3. TypeOK
  BY <1>1, <1>2, SessionAssumption DEF TypeOK, Sessions
<1>4. CallsOK /\ AnswersOK
  BY <1>1 DEF CallsOK, AnswersOK
<1>5. Blank.session = None /\ Blank.state = "free" /\ Blank.claimed = FALSE
  BY DEF Blank, NewCheckout
<1>6. ScopesOK
  BY <1>5 DEF ScopesOK
<1>7. AdoptedOK
  BY <1>1 DEF AdoptedOK
<1> QED
  BY <1>3, <1>4, <1>6, <1>7 DEF IInv
-----------------------------------------------------------------------------
(* The record of the scope of n is written: with another record of n, which is open
   only if n is. *)
LEMMA ScopeWritten ==
    ASSUME TypeOK, ScopesOK, NEW n \in Known, NEW w \in Record, w.session = n,
           w.state = "open" => CurrentOpen(n), w.claimed => Won(n, answers'),
           scope' = [scope EXCEPT ![ScopeOf(n)] = w], UNCHANGED issued,
           answers \subseteq answers'
    PROVE  /\ scope' \in [Scopes -> Record] /\ ScopesOK' /\ Closing
           /\ \A m \in Known : Current(m)' => m = n \/ (Current(m) /\ ScopeOf(m) # ScopeOf(n))
           /\ scope'[ScopeOf(n)] = w
           /\ \A s \in Scopes \ {ScopeOf(n)} : scope'[s] = scope[s]
<1>1. /\ ScopeOf(n) \in Scopes /\ \A m \in Known : ScopeOf(m) \in Scopes
      /\ None \notin Known
  BY KnownOnes
<1>2. /\ scope' \in [Scopes -> Record] /\ scope'[ScopeOf(n)] = w
      /\ \A s \in Scopes \ {ScopeOf(n)} : scope'[s] = scope[s]
  BY <1>1 DEF TypeOK
<1>3. Known' = Known /\ \A m : ScopeOf(m)' = ScopeOf(m)
  BY DEF Known, ScopeOf
<1>4. ScopesOK'
  <2> SUFFICES ASSUME NEW s \in Scopes
               PROVE  /\ scope'[s].session # None =>
                            scope'[s].session \in Known /\ ScopeOf(scope'[s].session) = s
                      /\ scope'[s].state = "open" => scope'[s].session # None
                      /\ scope'[s].claimed => Won(scope'[s].session, answers')
    BY <1>3 DEF ScopesOK, ScopeOf, Known
  <2>1. CASE s = ScopeOf(n)
    BY <1>1, <1>2, <2>1 DEF Won
  <2>2. CASE s # ScopeOf(n)
    BY <1>2, <2>2 DEF ScopesOK, Won
  <2> QED
    BY <2>1, <2>2
<1>5. \A m \in Known : Current(m)' => m = n \/ (Current(m) /\ ScopeOf(m) # ScopeOf(n))
  BY <1>1, <1>2, <1>3 DEF Current, ScopeOf
<1>6. Closing
  <2> SUFFICES ASSUME NEW m \in Known, CurrentOpen(m)' PROVE CurrentOpen(m)
    BY DEF Closing
  <2>1. CASE m = n
    BY <1>2, <2>1 DEF CurrentOpen, Current, Active, ScopeOf
  <2>2. CASE m # n
    BY <1>1, <1>2, <1>5, <2>2 DEF CurrentOpen, Current, Active, ScopeOf
  <2> QED
    BY <2>1, <2>2
<1> QED
  BY <1>2, <1>4, <1>5, <1>6

LEMMA ScopesRest ==
    ASSUME TypeOK, ScopesOK, UNCHANGED <<scope, issued>>, answers \subseteq answers'
    PROVE  scope' \in [Scopes -> Record] /\ ScopesOK' /\ Closing
<1>1. \A n : Won(n, answers) => Won(n, answers')
  BY DEF Won
<1>2. ScopesOK'
  <2> SUFFICES ASSUME NEW s \in Scopes
               PROVE  /\ scope[s].session # None =>
                            scope[s].session \in Known' /\ ScopeOf(scope[s].session)' = s
                      /\ scope[s].state = "open" => scope[s].session # None
                      /\ scope[s].claimed => Won(scope[s].session, answers')
    BY DEF ScopesOK, Won, ScopeOf
  <2> QED
    BY <1>1 DEF ScopesOK, Known, ScopeOf
<1> QED
  BY <1>2 DEF TypeOK, Closing, CurrentOpen, Current, Active, ScopeOf, Known

(* What no step of the scope, of its session or of a call disturbs. *)
LEMMA AnswersKept ==
    ASSUME IInv, Closing, UNCHANGED <<issued, adopted, answers>>
    PROVE  AnswersOK' /\ AdoptedOK'
<1>1. Known' = Known
  BY DEF Known
<1>2. \A x \in answers : x[2] \in Known /\ ~CurrentOpen(x[2])'
  BY DEF IInv, AnswersOK, Closing
<1>3. AnswersOK'
  BY <1>1, <1>2 DEF IInv, AnswersOK
<1> QED
  BY <1>3 DEF IInv, AdoptedOK

LEMMA CallsKept ==
    ASSUME IInv, Closing, UNCHANGED issued, answers \subseteq answers',
           \A h \in Hosts : call'[h] \in {call[h], Idle}
    PROVE  CallsOK'
<1> SUFFICES ASSUME NEW h \in Hosts, call'[h] # Idle PROVE Sensible(call[h])'
  BY DEF CallsOK, Idle
<1>1. call'[h] = call[h] /\ Sensible(call[h]) /\ Known' = Known
  BY DEF IInv, CallsOK, Known
<1>2. Won(call[h].session, answers) => Won(call'[h].session, answers')
  BY <1>1 DEF Won
<1> QED
  BY <1>1, <1>2 DEF Sensible, Closing

(* A session that is open has had no bytes applied and was answered to nobody, so
   its record has no claim. *)
LEMMA OpenOnes ==
    ASSUME IInv, NEW n \in Known, CurrentOpen(n)
    PROVE  /\ adopted[n] = 0
           /\ \A x \in answers : x[2] # n
           /\ n \in Sessions /\ ScopeOf(n) \in Scopes /\ scope[ScopeOf(n)] \in Record
<1>1. n \in Sessions /\ ScopeOf(n) \in Scopes
  BY KnownOnes DEF IInv
<1>2. \A x \in answers : x[2] # n
  BY DEF IInv, AnswersOK
<1>3. adopted[n] \in {0, 1} /\ adopted[n] # 1
  BY <1>1, <1>2 DEF IInv, AdoptedOK
<1> QED
  BY <1>1, <1>2, <1>3 DEF IInv, TypeOK
-----------------------------------------------------------------------------
(* A call reads: it will write the record of its session, changed. *)
LEMMA WillKeep ==
    ASSUME IInv, NEW h \in Hosts, NEW n \in Known, NEW r \in Record,
           NEW op \in {"save", "release", "recovery", "reject", "refresh", "cleanup"},
           WillWrite(h, op, n, r), r.session = n,
           op = "save" <=> r.state = "open",
           r.claimed => Won(n, answers),
           op \in {"refresh", "cleanup"} => ~CurrentOpen(n)
    PROVE  IInv' /\ Closing
<1> DEFINE new == [op |-> op, session |-> n, write |-> r]
<1>1. /\ call' = [call EXCEPT ![h] = new]
      /\ UNCHANGED <<scope, holder, issued, adopted, handles, answers, displaced>>
  BY DEF WillWrite
<1>2. n \in Sessions
  BY KnownOnes DEF IInv
<1>3. new \in Call /\ new.op = op /\ new.session = n /\ new.write = r
  BY <1>2 DEF Call
<1> HIDE DEF new
<1>4. TypeOK'
  BY <1>1, <1>3 DEF IInv, TypeOK
<1>5. ScopesOK' /\ Closing
  BY <1>1, ScopesRest DEF IInv
<1>6. AnswersOK' /\ AdoptedOK'
  BY <1>1, <1>5, AnswersKept
<1>7. CallsOK'
  <2> SUFFICES ASSUME NEW g \in Hosts, call'[g] # Idle PROVE Sensible(call[g])'
    BY DEF CallsOK, Idle
  <2>1. Known' = Known
    BY <1>1 DEF Known
  <2>2. ~CurrentOpen(n) => ~CurrentOpen(n)'
    BY <1>5 DEF Closing
  <2>3. CASE g = h
    <3>1. call'[g] = new
      BY <1>1, <2>3 DEF IInv, TypeOK
    <3> QED
      BY <1>1, <1>3, <2>1, <2>2, <3>1 DEF Sensible, Won
  <2>4. CASE g # h
    <3>1. call'[g] = call[g] /\ Sensible(call[g])
      BY <1>1, <2>4 DEF IInv, TypeOK, CallsOK
    <3> QED
      BY <1>1, <1>5, <2>1, <3>1 DEF Sensible, Closing, Won
  <2> QED
    BY <2>3, <2>4
<1> QED
  BY <1>4, <1>5, <1>6, <1>7 DEF IInv

LEMMA ReadOpenKeeps ==
    ASSUME IInv, NEW h \in Hosts, NEW n \in Known, ReadOpen(h, n)
    PROVE  IInv' /\ Closing
<1> DEFINE r == scope[ScopeOf(n)]
<1>1. r \in Record /\ r.session = n /\ r.state = "open" /\ (r.claimed => Won(n, answers))
  BY OpenOnes DEF ReadOpen, CurrentOpen, Current, Active, IInv, ScopesOK
<1>2. \/ WillWrite(h, "save", n, r)
      \/ WillWrite(h, "release", n, Released(r))
      \/ WillWrite(h, "recovery", n, Recovered(r, FALSE))
      \/ WillWrite(h, "reject", n, Recovered(r, TRUE))
  BY DEF ReadOpen
<1> HIDE DEF r
<1>3. CASE WillWrite(h, "save", n, r)
  BY <1>1, <1>3, WillKeep
<1>4. CASE WillWrite(h, "release", n, Released(r))
  <2> DEFINE w == Released(r)
  <2>1. w \in Record /\ w.session = n /\ w.state = "released" /\ w.claimed = r.claimed
    BY <1>1, RecordsWritten
  <2> HIDE DEF w
  <2>2. WillWrite(h, "release", n, w)
    BY <1>4 DEF w
  <2> QED
    BY <1>1, <2>1, <2>2, WillKeep
<1>5. CASE WillWrite(h, "recovery", n, Recovered(r, FALSE))
  <2> DEFINE w == Recovered(r, FALSE)
  <2>1. /\ w \in Record /\ w.session = n /\ w.state \in {"released", "rejected"}
        /\ w.claimed = r.claimed
    BY <1>1, RecordsWritten
  <2> HIDE DEF w
  <2>2. WillWrite(h, "recovery", n, w)
    BY <1>5 DEF w
  <2> QED
    BY <1>1, <2>1, <2>2, WillKeep
<1>6. CASE WillWrite(h, "reject", n, Recovered(r, TRUE))
  <2> DEFINE w == Recovered(r, TRUE)
  <2>1. /\ w \in Record /\ w.session = n /\ w.state \in {"released", "rejected"}
        /\ w.claimed = r.claimed
    BY <1>1, RecordsWritten
  <2> HIDE DEF w
  <2>2. WillWrite(h, "reject", n, w)
    BY <1>6 DEF w
  <2> QED
    BY <1>1, <2>1, <2>2, WillKeep
<1> QED
  BY <1>2, <1>3, <1>4, <1>5, <1>6

LEMMA ReadEndedKeeps ==
    ASSUME IInv, NEW h \in Hosts, NEW n \in Known, ReadEnded(h, n)
    PROVE  IInv' /\ Closing
<1> DEFINE r == scope[ScopeOf(n)]
<1>1. /\ r \in Record /\ r.session = n /\ r.state # "open" /\ ~CurrentOpen(n)
      /\ r.claimed => Won(n, answers)
  BY KnownOnes DEF IInv, TypeOK, ScopesOK, ReadEnded, CurrentOpen, Current, Active
<1>2. \/ WillWrite(h, "refresh", n, Refreshed(r))
      \/ \E status \in {"unsafe", "complete"} :
           WillWrite(h, "cleanup", n, [r EXCEPT !.cleanup = status])
  BY DEF ReadEnded
<1> HIDE DEF r
<1>3. CASE WillWrite(h, "refresh", n, Refreshed(r))
  <2> DEFINE w == Refreshed(r)
  <2>1. w \in Record /\ w.session = n /\ w.state = r.state /\ w.claimed = r.claimed
    BY <1>1, RecordsWritten
  <2> HIDE DEF w
  <2>2. WillWrite(h, "refresh", n, w)
    BY <1>3 DEF w
  <2> QED
    BY <1>1, <2>1, <2>2, WillKeep
<1>4. ASSUME NEW status \in {"unsafe", "complete"},
             WillWrite(h, "cleanup", n, [r EXCEPT !.cleanup = status])
      PROVE  IInv' /\ Closing
  <2> DEFINE w == [r EXCEPT !.cleanup = status]
  <2>1. w \in Record /\ w.session = n /\ w.state = r.state /\ w.claimed = r.claimed
    BY <1>1 DEF Record
  <2> HIDE DEF w
  <2>2. WillWrite(h, "cleanup", n, w)
    BY <1>4 DEF w
  <2> QED
    BY <1>1, <2>1, <2>2, WillKeep
<1> QED
  BY <1>2, <1>3, <1>4

(* The transaction of a call writes what the call has prepared. *)
LEMMA WriteBackKeeps ==
    ASSUME IInv, NEW h \in Hosts, WriteBack(h)
    PROVE  IInv' /\ Closing
<1> DEFINE c == call[h]
           n == c.session
           w == c.write
<1>1. /\ ~Ready(h) /\ Admitted(c.op, n)
      /\ scope' = [scope EXCEPT ![ScopeOf(n)] = w]
      /\ IF Ends(c.op) THEN Vacate(n) ELSE UNCHANGED holder
      /\ call' = [call EXCEPT ![h] = Idle]
      /\ displaced' = displaced \cup Displaces(n, Ends(c.op))
      /\ UNCHANGED <<issued, adopted, handles, answers>>
  BY DEF WriteBack
<1>2. c \in Call /\ Sensible(c)
  BY <1>1 DEF Ready, IInv, TypeOK, CallsOK
<1> HIDE DEF c
<1>3. /\ n \in Known /\ n \in Sessions /\ w \in Record /\ w.session = n
      /\ ScopeOf(n) \in Scopes /\ issued[n].actor \in Actors
  BY <1>2, KnownOnes DEF IInv, Call, Sensible
<1>4. c.op = "save" \/ c.op = "release" => CurrentOpen(n)
  BY <1>1 DEF Admitted
<1>5. w.state = "open" => CurrentOpen(n)
  BY <1>2, <1>4 DEF Sensible
<1>6. w.claimed => Won(n, answers')
  BY <1>1, <1>2 DEF Sensible, Won
<1> HIDE DEF n, w
<1>7. /\ scope' \in [Scopes -> Record] /\ ScopesOK' /\ Closing
  BY <1>1, <1>3, <1>5, <1>6, ScopeWritten DEF IInv
<1>8. holder' \in [Actors -> Sessions \cup {None}]
  BY <1>1, <1>3 DEF Vacate, IInv, TypeOK
<1>9. displaced' \subseteq 1 .. Len(issued')
  BY <1>1 DEF Displaces, IInv, TypeOK
<1>10. TypeOK'
  BY <1>1, <1>7, <1>8, <1>9 DEF IInv, TypeOK
<1>11. CallsOK'
  <2>1. \A g \in Hosts : call'[g] \in {call[g], Idle}
    BY <1>1 DEF IInv, TypeOK
  <2> QED
    BY <1>1, <1>7, <2>1, CallsKept
<1>12. AnswersOK' /\ AdoptedOK'
  BY <1>1, <1>7, AnswersKept
<1> QED
  BY <1>7, <1>10, <1>11, <1>12 DEF IInv

(* A step that changes calls, to end them, and handles only. *)
LEMMA CallEnds ==
    ASSUME IInv, UNCHANGED <<scope, holder, issued, adopted, answers, displaced>>,
           \A h \in Hosts : call'[h] \in {call[h], Idle}, TypeOK'
    PROVE  IInv' /\ Closing
<1>1. ScopesOK' /\ Closing
  BY ScopesRest DEF IInv
<1>2. CallsOK' /\ AnswersOK' /\ AdoptedOK'
  BY <1>1, CallsKept, AnswersKept
<1> QED
  BY <1>1, <1>2 DEF IInv

LEMMA DropKeeps ==
    ASSUME IInv, NEW h \in Hosts, Drop(h)
    PROVE  IInv' /\ Closing
<1>1. /\ call' = [call EXCEPT ![h] = Idle]
      /\ UNCHANGED <<scope, holder, issued, adopted, handles, answers, displaced>>
  BY DEF Drop
<1>2. TypeOK' /\ \A g \in Hosts : call'[g] \in {call[g], Idle}
  BY <1>1 DEF IInv, TypeOK
<1> QED
  BY <1>1, <1>2, CallEnds

(* finish: the session is open, so its bytes are not applied yet and nobody has had an
   answer. *)
LEMMA FinishKeeps ==
    ASSUME IInv, NEW h \in Hosts, NEW k \in FinishKeys, NEW n \in Known,
           NEW outcome \in Outcomes, Finish(h, k, n, outcome)
    PROVE  IInv' /\ Closing
<1> DEFINE w == Finished(scope[ScopeOf(n)], outcome)
           told == <<k, n, outcome>>
<1>1. /\ CurrentOpen(n) /\ scope' = [scope EXCEPT ![ScopeOf(n)] = w]
      /\ adopted' = IF outcome = "finished" THEN [adopted EXCEPT ![n] = @ + 1] ELSE adopted
      /\ Vacate(n) /\ displaced' = displaced \cup Displaces(n, TRUE)
      /\ answers' = answers \cup {told}
      /\ UNCHANGED <<issued, handles, call>>
  BY DEF Finish, Finishable
<1>2. /\ adopted[n] = 0 /\ \A x \in answers : x[2] # n
      /\ n \in Sessions /\ ScopeOf(n) \in Scopes /\ scope[ScopeOf(n)] \in Record
      /\ issued[n].actor \in Actors
  BY <1>1, OpenOnes, KnownOnes DEF IInv
<1>3. /\ w \in Record /\ w.session = n /\ w.state # "open"
      /\ w.claimed => outcome \in Kept
  <2> DEFINE r == scope[ScopeOf(n)]
  <2>1. r \in Record /\ r.session = n
    BY <1>1, <1>2 DEF CurrentOpen, Current
  <2>2. w = Finished(r, outcome)
    OBVIOUS
  <2> HIDE DEF r, w
  <2>3. /\ Finished(r, outcome) \in Record /\ Finished(r, outcome).session = r.session
        /\ Finished(r, outcome).state # "open"
        /\ Finished(r, outcome).claimed => outcome \in Kept
    BY <2>1, FinishWritten
  <2> QED
    BY <2>1, <2>2, <2>3
<1> HIDE DEF w
<1>4. /\ told \in FinishKeys \X Known \X Outcomes /\ told[2] = n /\ told[3] = outcome
      /\ outcome # "already_finished"
  BY DEF Outcomes
<1> HIDE DEF told
<1>5. w.claimed => Won(n, answers')
  BY <1>1, <1>3, <1>4 DEF Won
<1>6. /\ scope' \in [Scopes -> Record] /\ ScopesOK' /\ Closing
      /\ scope'[ScopeOf(n)] = w
  BY <1>1, <1>2, <1>3, <1>5, ScopeWritten DEF IInv
<1>7. Known' = Known /\ \A m : ScopeOf(m)' = ScopeOf(m)
  BY <1>1 DEF Known, ScopeOf
<1>8. ~CurrentOpen(n)'
  BY <1>3, <1>6, <1>7 DEF CurrentOpen, Current, Active, ScopeOf
<1>9. /\ adopted' \in [Sessions -> {0, 1}]
      /\ adopted'[n] = 1 <=> outcome = "finished"
      /\ \A m \in Sessions \ {n} : adopted'[m] = adopted[m]
  <2>1. CASE outcome = "finished"
    <3>1. adopted' = [adopted EXCEPT ![n] = 1]
      BY <1>1, <1>2, <2>1
    <3> QED
      BY <1>2, <2>1, <3>1 DEF IInv, AdoptedOK
  <2>2. CASE outcome # "finished"
    BY <1>1, <1>2, <2>2 DEF IInv, AdoptedOK
  <2> QED
    BY <2>1, <2>2
<1>10. TypeOK'
  <2>1. holder' \in [Actors -> Sessions \cup {None}]
    BY <1>1 DEF Vacate, IInv, TypeOK, None
  <2>2. adopted' \in [Sessions -> Nat]
    BY <1>9
  <2>3. displaced' \subseteq 1 .. Len(issued')
    BY <1>1 DEF Displaces, IInv, TypeOK
  <2> QED
    BY <1>1, <1>6, <2>1, <2>2, <2>3 DEF IInv, TypeOK
<1>11. CallsOK'
  BY <1>1, <1>6, CallsKept
<1>12. AnswersOK'
  <2>1. \A x \in answers' : x = told \/ x \in answers
    BY <1>1
  <2>2. answers' \subseteq FinishKeys \X Known' \X (Outcomes \cup {"already_finished"})
    BY <1>1, <1>4, <1>7 DEF IInv, AnswersOK
  <2>3. \A x \in answers : x[2] \in Known /\ ~CurrentOpen(x[2])'
    BY <1>6 DEF IInv, AnswersOK, Closing
  <2>4. \A x \in answers' : ~CurrentOpen(x[2])'
    BY <1>4, <1>8, <2>1, <2>3
  <2>5. \A x, y \in answers' :
          x[2] = y[2] /\ x[3] # "already_finished" /\ y[3] # "already_finished" => x = y
    BY <1>2, <1>4, <2>1 DEF IInv, AnswersOK
  <2>6. \A x \in answers' : x[3] = "already_finished" =>
          \E y \in answers' : y[2] = x[2] /\ y[1] # x[1] /\ y[3] \in Kept
    BY <1>1, <1>4, <2>1 DEF IInv, AnswersOK
  <2> QED
    BY <2>2, <2>4, <2>5, <2>6 DEF AnswersOK
<1>13. AdoptedOK'
  <2> SUFFICES ASSUME NEW m \in Sessions
               PROVE  adopted'[m] = 1 <=> \E x \in answers' : x[2] = m /\ x[3] = "finished"
    BY <1>9 DEF AdoptedOK
  <2>1. CASE m = n
    BY <1>1, <1>2, <1>4, <1>9, <2>1
  <2>2. CASE m # n
    BY <1>1, <1>4, <1>9, <2>2 DEF IInv, AdoptedOK
  <2> QED
    BY <2>1, <2>2
<1> QED
  BY <1>6, <1>10, <1>11, <1>12, <1>13 DEF IInv

(* A finish that comes second: the claim it finds is that of a winner, which had
   another request, or this one would be a replay. *)
LEMMA FinishAgainKeeps ==
    ASSUME IInv, NEW h \in Hosts, NEW k \in FinishKeys, NEW n \in Known, FinishAgain(h, k, n)
    PROVE  IInv' /\ Closing
<1> DEFINE told == <<k, n, "already_finished">>
<1>1. /\ Current(n) /\ ~CurrentOpen(n) /\ scope[ScopeOf(n)].claimed
      /\ \A o \in Kept : <<k, n, o>> \notin answers
      /\ answers' = answers \cup {told}
      /\ UNCHANGED <<scope, holder, issued, adopted, handles, call, displaced>>
  BY DEF FinishAgain, ClosedByFinish, CurrentOpen, Replayed, Kept
<1>2. PICK y \in answers : y[2] = n /\ y[3] \in Kept
  <2>1. ScopeOf(n) \in Scopes
    BY KnownOnes DEF IInv
  <2> QED
    BY <1>1, <2>1 DEF IInv, ScopesOK, Won, Current
<1>3. y[1] # k
  <2>1. y = <<y[1], y[2], y[3]>>
    BY <1>2 DEF IInv, AnswersOK
  <2> QED
    BY <1>1, <1>2, <2>1
<1>4. told \in FinishKeys \X Known \X {"already_finished"} /\ told[1] = k /\ told[2] = n
      /\ told[3] = "already_finished"
  OBVIOUS
<1> HIDE DEF told
<1>5. ScopesOK' /\ Closing
  BY <1>1, ScopesRest DEF IInv
<1>6. Known' = Known
  BY <1>1 DEF Known
<1>7. CallsOK'
  BY <1>1, <1>5, CallsKept
<1>8. AnswersOK'
  <2>1. \A x \in answers' : x = told \/ x \in answers
    BY <1>1
  <2>2. answers' \subseteq FinishKeys \X Known' \X (Outcomes \cup {"already_finished"})
    BY <1>1, <1>4, <1>6 DEF IInv, AnswersOK
  <2>3. \A x \in answers : x[2] \in Known /\ ~CurrentOpen(x[2])'
    BY <1>5 DEF IInv, AnswersOK, Closing
  <2>4. ~CurrentOpen(n)'
    BY <1>1, <1>5 DEF Closing
  <2>5. \A x \in answers' : ~CurrentOpen(x[2])'
    BY <1>4, <2>1, <2>3, <2>4
  <2>6. \A x, z \in answers' :
          x[2] = z[2] /\ x[3] # "already_finished" /\ z[3] # "already_finished" => x = z
    BY <1>4, <2>1 DEF IInv, AnswersOK
  <2>7. \A x \in answers' : x[3] = "already_finished" =>
          \E z \in answers' : z[2] = x[2] /\ z[1] # x[1] /\ z[3] \in Kept
    BY <1>1, <1>2, <1>3, <1>4, <2>1 DEF IInv, AnswersOK
  <2> QED
    BY <2>2, <2>5, <2>6, <2>7 DEF AnswersOK
<1>9. AdoptedOK'
  <2>1. \A x \in answers' : x[3] = "finished" => x \in answers
    BY <1>1, <1>4
  <2> QED
    BY <1>1, <2>1 DEF IInv, AdoptedOK
<1>10. TypeOK'
  BY <1>1 DEF IInv, TypeOK
<1> QED
  BY <1>5, <1>7, <1>8, <1>9, <1>10 DEF IInv

LEMMA OpenAgainKeeps ==
    ASSUME IInv, NEW h \in Hosts, NEW k \in OpenKeys, OpenAgain(h, k)
    PROVE  IInv' /\ Closing
<1>1. PICK n \in Opened(k) :
        /\ issued[n].actor = ActorOf[h] /\ Active(ScopeOf(n))
        /\ handles' = [handles EXCEPT ![ActorOf[h]] = @ \cup {scope[ScopeOf(n)].session}]
  BY DEF OpenAgain
<1>2. UNCHANGED <<scope, holder, issued, adopted, call, answers, displaced>>
  BY DEF OpenAgain
<1>3. n \in Known /\ ScopeOf(n) \in Scopes
  BY KnownOnes DEF IInv, Opened, Known
<1>4. scope[ScopeOf(n)].session \in Known
  BY <1>1, <1>3 DEF IInv, ScopesOK, Active
<1>5. handles' \in [Actors -> SUBSET (1 .. Len(issued'))]
  BY <1>1, <1>2, <1>4 DEF IInv, TypeOK, Known
<1>6. TypeOK' /\ \A g \in Hosts : call'[g] \in {call[g], Idle}
  BY <1>2, <1>5 DEF IInv, TypeOK
<1> QED
  BY <1>2, <1>6, CallEnds

(* open: the session n is a new one, and the sessions before it keep what they are. *)
Fresh(h, k, s, n) ==
    /\ n = Len(issued') /\ n = Len(issued) + 1 /\ Known' = Known \cup {n}
    /\ n \in Sessions /\ n \notin Known /\ n # None
    /\ issued' \in Seq([scope : Scopes, actor : Actors, key : OpenKeys])
    /\ \A m \in Known : issued'[m] = issued[m] /\ ScopeOf(m)' = ScopeOf(m)
    /\ issued'[n] = [scope |-> s, actor |-> ActorOf[h], key |-> k]
    /\ scope' \in [Scopes -> Record]
    /\ scope'[s].session = n /\ scope'[s].state = "open" /\ ~scope'[s].claimed
    /\ \A r \in Scopes \ {s} : scope'[r] = scope[r]
    /\ ActorOf[h] \in Actors /\ holder' = [holder EXCEPT ![ActorOf[h]] = n]
    /\ ~Active(s) /\ holder[ActorOf[h]] = None
    /\ handles' = [handles EXCEPT ![ActorOf[h]] = @ \cup {n}]
    /\ UNCHANGED <<adopted, call, answers, displaced>>

LEMMA OpenWritten ==
    ASSUME TypeOK, NEW h \in Hosts, NEW k \in OpenKeys, NEW s \in Scopes, Open(h, k, s)
    PROVE  \E n : Fresh(h, k, s, n)
<1> DEFINE Issue == [scope : Scopes, actor : Actors, key : OpenKeys]
           new == [scope |-> s, actor |-> ActorOf[h], key |-> k]
           n == Len(issued) + 1
<1>1. /\ n \in Sessions
      /\ issued' = Append(issued, new)
      /\ scope' = [scope EXCEPT ![s] = NewCheckout(n)]
      /\ holder' = [holder EXCEPT ![ActorOf[h]] = n]
      /\ ~Active(s) /\ holder[ActorOf[h]] = None
      /\ handles' = [handles EXCEPT ![ActorOf[h]] = @ \cup {n}]
      /\ UNCHANGED <<adopted, call, answers, displaced>>
  BY DEF Open, Admissible
<1>2. ActorOf[h] \in Actors /\ new \in Issue
  BY SessionAssumption
<1>3. issued \in Seq(Issue) /\ Len(issued) \in Nat
  BY DEF TypeOK
<1> HIDE DEF Issue, new
<1>4. issued' \in Seq(Issue) /\ Len(issued') = n /\ issued'[n] = new
  BY <1>1, <1>2, <1>3
<1>5. \A m \in 1 .. Len(issued) : issued'[m] = issued[m]
  BY <1>1, <1>2, <1>3
<1>6. Known' = Known \cup {n} /\ n \notin Known /\ n # None
  BY <1>3, <1>4 DEF Known, None
<1>7. \A m \in Known : issued'[m] = issued[m] /\ ScopeOf(m)' = ScopeOf(m)
  BY <1>5 DEF Known, ScopeOf
<1>8. /\ NewCheckout(n) \in Record /\ NewCheckout(n).session = n
      /\ NewCheckout(n).state = "open" /\ ~NewCheckout(n).claimed
  BY <1>1 DEF NewCheckout, Record
<1>9. /\ scope' \in [Scopes -> Record]
      /\ scope'[s].session = n /\ scope'[s].state = "open" /\ ~scope'[s].claimed
      /\ \A r \in Scopes \ {s} : scope'[r] = scope[r]
  BY <1>1, <1>8 DEF TypeOK
<1>10. /\ issued' \in Seq([scope : Scopes, actor : Actors, key : OpenKeys])
       /\ issued'[n] = [scope |-> s, actor |-> ActorOf[h], key |-> k]
  BY <1>4 DEF Issue, new
<1> HIDE DEF n
<1>11. n = Len(issued') /\ n = Len(issued) + 1
  BY <1>4 DEF n
<1>12. Fresh(h, k, s, n)
  BY <1>1, <1>2, <1>6, <1>7, <1>9, <1>10, <1>11 DEF Fresh
<1> QED
  BY <1>12

LEMMA OpenKeeps ==
    ASSUME IInv, NEW h \in Hosts, NEW k \in OpenKeys, NEW s \in Scopes, Open(h, k, s)
    PROVE  IInv' /\ Closing
<1>0. PICK n : Fresh(h, k, s, n)
  BY OpenWritten DEF IInv
<1>1. /\ n = Len(issued') /\ n = Len(issued) + 1 /\ Known' = Known \cup {n}
      /\ n \in Sessions /\ n \notin Known /\ n # None
      /\ issued' \in Seq([scope : Scopes, actor : Actors, key : OpenKeys])
      /\ \A m \in Known : issued'[m] = issued[m] /\ ScopeOf(m)' = ScopeOf(m)
      /\ issued'[n] = [scope |-> s, actor |-> ActorOf[h], key |-> k]
      /\ scope' \in [Scopes -> Record]
      /\ scope'[s].session = n /\ scope'[s].state = "open" /\ ~scope'[s].claimed
      /\ \A r \in Scopes \ {s} : scope'[r] = scope[r]
      /\ holder' \in [Actors -> Sessions \cup {None}]
  BY <1>0 DEF Fresh, IInv, TypeOK
<1>2. /\ ~Active(s) /\ holder[ActorOf[h]] = None
      /\ handles' = [handles EXCEPT ![ActorOf[h]] = @ \cup {n}]
      /\ UNCHANGED <<adopted, call, answers, displaced>>
  BY <1>0 DEF Fresh
<1>3. ScopeOf(n)' = s
  BY <1>1 DEF ScopeOf
<1>4. /\ Len(issued) \in Nat /\ MaxSessions \in Nat
      /\ \A m \in Known : m \in Sessions /\ ScopeOf(m) \in Scopes
  BY KnownOnes DEF IInv
<1>5. \A m \in Known : Current(m)' => Current(m) /\ ScopeOf(m) # s
  BY <1>1, <1>4 DEF Current
<1>6. Closing
  BY <1>1, <1>4, <1>5 DEF Closing, CurrentOpen, Active
<1>7. TypeOK'
  <2>1. Len(issued') <= MaxSessions
    BY <1>1, <1>4 DEF Sessions
  <2>2. handles' \in [Actors -> SUBSET (1 .. Len(issued'))]
    <3>1. Known' = 1 .. Len(issued')
      BY DEF Known
    <3>2. handles \in [Actors -> SUBSET Known]
      BY DEF IInv, TypeOK, Known
    <3> QED
      BY <1>1, <1>2, <3>1, <3>2
  <2>3. displaced' \subseteq 1 .. Len(issued')
    <3>1. displaced \subseteq Known /\ Known' = 1 .. Len(issued')
      BY DEF IInv, TypeOK, Known
    <3> QED
      BY <1>1, <1>2, <3>1
  <2> QED
    BY <1>1, <1>2, <2>1, <2>2, <2>3 DEF IInv, TypeOK
<1>8. CallsOK'
  <2> SUFFICES ASSUME NEW g \in Hosts, call[g] # Idle PROVE Sensible(call[g])'
    BY <1>2 DEF CallsOK, Idle
  <2>1. Sensible(call[g]) /\ call'[g] = call[g]
    BY <1>2 DEF IInv, CallsOK
  <2> QED
    BY <1>1, <1>2, <1>6, <2>1 DEF Sensible, Closing, Won
<1>9. ScopesOK'
  <2> SUFFICES ASSUME NEW r \in Scopes
               PROVE  /\ scope'[r].session # None =>
                            /\ scope'[r].session \in Known'
                            /\ issued'[scope'[r].session].scope = r
                      /\ scope'[r].state = "open" => scope'[r].session # None
                      /\ scope'[r].claimed => Won(scope'[r].session, answers')
    BY DEF ScopesOK, ScopeOf
  <2>1. CASE r = s
    BY <1>1, <2>1
  <2>2. CASE r # s
    BY <1>1, <1>2, <2>2 DEF IInv, ScopesOK, ScopeOf, Won
  <2> QED
    BY <2>1, <2>2
<1>10. AdoptedOK'
  BY <1>2 DEF IInv, AdoptedOK
<1>11. AnswersOK'
  <2>1. answers \subseteq FinishKeys \X Known' \X (Outcomes \cup {"already_finished"})
    BY <1>1 DEF IInv, AnswersOK
  <2>2. \A x \in answers : x[2] \in Known
    BY DEF IInv, AnswersOK
  <2>3. \A x \in answers : ~CurrentOpen(x[2])'
    BY <1>6, <2>2 DEF IInv, AnswersOK, Closing
  <2> QED
    BY <1>2, <2>1, <2>3 DEF IInv, AnswersOK
<1> QED
  BY <1>6, <1>7, <1>8, <1>9, <1>10, <1>11 DEF IInv

(* Every step keeps the invariant and ends sessions only. *)
LEMMA NextKeeps == ASSUME IInv, [Next]_vars PROVE IInv' /\ Closing
<1>1. CASE UNCHANGED vars
  <2>1. UNCHANGED <<scope, holder, issued, adopted, handles, call, answers, displaced>>
    BY <1>1 DEF vars
  <2>2. TypeOK' /\ \A g \in Hosts : call'[g] \in {call[g], Idle}
    BY <2>1 DEF IInv, TypeOK
  <2> QED
    BY <2>1, <2>2, CallEnds
<1>2. ASSUME NEW h \in Hosts, NEW k \in OpenKeys,
             (\E s \in Scopes : Open(h, k, s)) \/ OpenAgain(h, k)
      PROVE  IInv' /\ Closing
  BY <1>2, OpenKeeps, OpenAgainKeeps
<1>3. ASSUME NEW h \in Hosts, NEW n \in Known, ReadOpen(h, n) \/ ReadEnded(h, n)
      PROVE  IInv' /\ Closing
  BY <1>3, ReadOpenKeeps, ReadEndedKeeps
<1>4. ASSUME NEW h \in Hosts, NEW n \in Known, NEW k \in FinishKeys,
             (\E outcome \in Outcomes : Finish(h, k, n, outcome)) \/ FinishAgain(h, k, n)
      PROVE  IInv' /\ Closing
  BY <1>4, FinishKeeps, FinishAgainKeeps
<1>5. ASSUME NEW h \in Hosts, WriteBack(h) \/ Drop(h)
      PROVE  IInv' /\ Closing
  BY <1>5, WriteBackKeeps, DropKeeps
<1> QED
  BY <1>1, <1>2, <1>3, <1>4, <1>5 DEF Next, Known

LEMMA Invariance == Spec => []IInv
<1>1. IInv /\ [Next]_vars => IInv'
  BY NextKeeps
<1> QED
  BY InitOK, <1>1, PTL DEF Spec
-----------------------------------------------------------------------------
(* TypeOK: the types of the durable records and of the calls under way. *)
THEOREM TypeCorrect == Spec => []TypeOK
<1>1. IInv => TypeOK
  BY DEF IInv
<1> QED
  BY Invariance, <1>1, PTL

(* ClosedForGood: a session that finish, release or a recovery has ended is never
   open again, whatever the calls read of it that are still to write. *)
THEOREM EndedStaysEnded == Spec => ClosedForGood
<1>1. IInv /\ [Next]_vars =>
        [\A n \in 1 .. Len(issued) : CurrentOpen(n)' => CurrentOpen(n)]_vars
  BY NextKeeps DEF Closing, Known
<1> QED
  BY Invariance, <1>1, PTL DEF Spec, ClosedForGood

(* AnswersHold: one finish of a session wins, the bytes are applied in it and by no
   other, and already_finished is answered only behind a winner that had another
   request. *)
THEOREM FinishTellsTheTruth == Spec => []AnswersHold
<1>1. IInv => AnswersHold
  <2> SUFFICES ASSUME IInv, NEW n \in Known
               PROVE  /\ \A x, y \in First(n) : x = y
                      /\ adopted[n] = IF \E x \in First(n) : x[3] = "finished" THEN 1 ELSE 0
                      /\ \A x \in answers : x[2] = n /\ x[3] = "already_finished" =>
                            \E y \in First(n) : /\ y[1] # x[1]
                                                /\ y[3] \in {"finished", "pending_released"}
    BY DEF AnswersHold, Known
  <2>1. n \in Sessions
    BY KnownOnes DEF IInv
  <2>2. \A x, y \in First(n) : x = y
    BY DEF IInv, AnswersOK, First
  <2>3. adopted[n] \in {0, 1} /\ (adopted[n] = 1 <=> \E x \in First(n) : x[3] = "finished")
    BY <2>1 DEF IInv, AdoptedOK, First
  <2>4. ASSUME NEW x \in answers, x[2] = n, x[3] = "already_finished"
        PROVE  \E y \in First(n) : y[1] # x[1] /\ y[3] \in {"finished", "pending_released"}
    <3>1. PICK y \in answers : y[2] = x[2] /\ y[1] # x[1] /\ y[3] \in Kept
      BY <2>4 DEF IInv, AnswersOK
    <3>2. y \in First(n)
      BY <2>4, <3>1 DEF First, Kept
    <3> QED
      BY <3>1, <3>2 DEF Kept
  <2> QED
    BY <2>2, <2>3, <2>4
<1> QED
  BY Invariance, <1>1, PTL
-----------------------------------------------------------------------------
(* Actors and scopes agree, and an actor's record names a session that was opened. *)
MirrorInv ==
    /\ ActorsMirrorScopes
    /\ \A a \in Actors : holder[a] # None => holder[a] \in Known

(* The scope of n is written with another record of n, and the actor's record is
   cleared if that ends it.  Whichever other session either of them named is
   displaced. *)
LEMMA MirrorWritten ==
    ASSUME IInv, MirrorInv, NEW n \in Known, NEW w \in Record, w.session = n,
           scope' = [scope EXCEPT ![ScopeOf(n)] = w], UNCHANGED issued,
           NEW ends \in BOOLEAN, displaced' = displaced \cup Displaces(n, ends),
           ends => w.state # "open" /\ Vacate(n),
           ~ends => (w.state = "open" <=> CurrentOpen(n)) /\ UNCHANGED holder
    PROVE  MirrorInv'
<1>1. Known' = Known /\ \A m : ScopeOf(m)' = ScopeOf(m)
  BY DEF Known, ScopeOf
<1>2. /\ None \notin Known /\ Known \subseteq Sessions
      /\ \A m \in Known : ScopeOf(m) \in Scopes /\ issued[m].actor \in Actors
  BY KnownOnes DEF IInv
<1>3. /\ scope'[ScopeOf(n)] = w
      /\ \A s \in Scopes \ {ScopeOf(n)} : scope'[s] = scope[s]
  BY <1>2 DEF IInv, TypeOK
<1>4. CurrentOpen(n)' <=> w.state = "open"
  BY <1>1, <1>3 DEF CurrentOpen, Current, Active
<1>5. \A a \in Actors :
        holder'[a] = IF ends /\ a = issued[n].actor THEN None ELSE holder[a]
  BY <1>2 DEF Vacate, IInv, TypeOK
<1>6. ASSUME NEW m \in Known \ {n}, m \notin displaced'
      PROVE  /\ CurrentOpen(m)' <=> CurrentOpen(m)
             /\ ends => holder[issued[n].actor] # m
  <2> DEFINE here == CurrentOpen(m) /\ ScopeOf(m) = ScopeOf(n)
             held == holder[issued[n].actor] = m
  <2>0. m \notin Displaces(n, ends)
    BY <1>6
  <2>1. ~here /\ ~(ends /\ held)
    BY <2>0 DEF Displaces, Known
  <2>2. CASE ScopeOf(m) = ScopeOf(n)
    BY <1>1, <1>3, <2>1, <2>2 DEF CurrentOpen, Current
  <2>3. CASE ScopeOf(m) # ScopeOf(n)
    BY <1>1, <1>2, <1>3, <2>1, <2>3 DEF CurrentOpen, Current, Active
  <2> QED
    BY <2>1, <2>2, <2>3
<1>7. ActorsMirrorScopes'
  <2> SUFFICES ASSUME NEW a \in Actors, NEW m \in Known, m \notin displaced'
               PROVE  holder'[a] = m <=> (issued[m].actor = a /\ CurrentOpen(m)')
    BY <1>1 DEF ActorsMirrorScopes, Known
  <2>1. holder[a] = m <=> (issued[m].actor = a /\ CurrentOpen(m))
    BY DEF MirrorInv, ActorsMirrorScopes, Known
  <2>2. CASE m = n
    BY <1>2, <1>4, <1>5, <2>1, <2>2
  <2>3. CASE m # n
    BY <1>2, <1>5, <1>6, <2>1, <2>3
  <2> QED
    BY <2>2, <2>3
<1>8. \A a \in Actors : holder'[a] # None => holder'[a] \in Known'
  BY <1>1, <1>5 DEF MirrorInv
<1> QED
  BY <1>7, <1>8 DEF MirrorInv

LEMMA MirrorRest ==
    ASSUME MirrorInv, UNCHANGED <<scope, holder, issued, displaced>>
    PROVE  MirrorInv'
BY DEF MirrorInv, ActorsMirrorScopes, CurrentOpen, Current, Active, ScopeOf, Known

(* A new session, in a scope where none is open and of an actor who holds none. *)
LEMMA MirrorOpened ==
    ASSUME IInv, MirrorInv, NEW h \in Hosts, NEW k \in OpenKeys, NEW s \in Scopes, Open(h, k, s)
    PROVE  MirrorInv'
<1> DEFINE b == ActorOf[h]
<1>1. PICK n : Fresh(h, k, s, n)
  BY OpenWritten DEF IInv
<1>2. /\ Known' = Known \cup {n} /\ n \notin Known /\ n # None
      /\ \A m \in Known : issued'[m] = issued[m] /\ ScopeOf(m)' = ScopeOf(m)
      /\ issued'[n].scope = s /\ issued'[n].actor = b
      /\ scope'[s].session = n /\ scope'[s].state = "open"
      /\ \A r \in Scopes \ {s} : scope'[r] = scope[r]
      /\ b \in Actors /\ holder[b] = None /\ ~Active(s)
      /\ holder'[b] = n /\ \A a \in Actors \ {b} : holder'[a] = holder[a]
      /\ displaced' = displaced
  BY <1>1 DEF Fresh, IInv, TypeOK
<1>3. /\ \A m \in Known : ScopeOf(m) \in Scopes /\ issued[m].actor \in Actors
      /\ None \notin Known
  BY KnownOnes DEF IInv
<1> HIDE DEF b
<1>4. \A m \in Known : CurrentOpen(m)' <=> CurrentOpen(m)
  <2> SUFFICES ASSUME NEW m \in Known PROVE CurrentOpen(m)' <=> CurrentOpen(m)
    OBVIOUS
  <2>1. CASE ScopeOf(m) = s
    BY <1>2, <2>1 DEF CurrentOpen, Current
  <2>2. CASE ScopeOf(m) # s
    BY <1>2, <1>3, <2>2 DEF CurrentOpen, Current, Active
  <2> QED
    BY <2>1, <2>2
<1>5. CurrentOpen(n)'
  BY <1>2 DEF CurrentOpen, Current, Active, ScopeOf
<1>6. ActorsMirrorScopes'
  <2> SUFFICES ASSUME NEW a \in Actors, NEW m \in Known', m \notin displaced
               PROVE  holder'[a] = m <=> (issued'[m].actor = a /\ CurrentOpen(m)')
    BY <1>2 DEF ActorsMirrorScopes, Known
  <2>1. CASE m = n
    <3>1. \A c \in Actors : holder[c] # n
      BY <1>2 DEF MirrorInv
    <3> QED
      BY <1>2, <1>5, <2>1, <3>1
  <2>2. CASE m \in Known
    <3>1. holder[a] = m <=> (issued[m].actor = a /\ CurrentOpen(m))
      BY <2>2 DEF MirrorInv, ActorsMirrorScopes, Known
    <3> QED
      BY <1>2, <1>3, <1>4, <2>2, <3>1
  <2> QED
    BY <1>2, <2>1, <2>2
<1>7. \A a \in Actors : holder'[a] # None => holder'[a] \in Known'
  BY <1>2 DEF MirrorInv
<1> QED
  BY <1>6, <1>7 DEF MirrorInv

LEMMA MirrorWriteBack ==
    ASSUME IInv, MirrorInv, NEW h \in Hosts, WriteBack(h)
    PROVE  MirrorInv'
<1> DEFINE c == call[h]
           n == c.session
           w == c.write
           ends == Ends(c.op)
<1>1. /\ ~Ready(h) /\ Admitted(c.op, n)
      /\ scope' = [scope EXCEPT ![ScopeOf(n)] = w]
      /\ IF ends THEN Vacate(n) ELSE UNCHANGED holder
      /\ displaced' = displaced \cup Displaces(n, ends)
      /\ UNCHANGED issued
  BY DEF WriteBack
<1>2. c \in Call /\ Sensible(c)
  BY <1>1 DEF Ready, IInv, TypeOK, CallsOK
<1> HIDE DEF c
<1>3. n \in Known /\ w \in Record /\ w.session = n
  BY <1>2 DEF Call, Sensible
<1>4. ends \in BOOLEAN /\ (ends => w.state # "open")
  BY <1>2 DEF Ends, Sensible
<1>5. ~ends => (w.state = "open" <=> CurrentOpen(n))
  <2>1. CASE c.op = "save"
    BY <1>1, <1>2, <2>1 DEF Admitted, Sensible
  <2>2. CASE c.op \in {"refresh", "cleanup"}
    BY <1>2, <2>2 DEF Sensible
  <2> QED
    BY <1>2, <2>1, <2>2 DEF Call, Ends
<1> HIDE DEF n, w, ends
<1> QED
  BY <1>1, <1>3, <1>4, <1>5, MirrorWritten

LEMMA MirrorFinish ==
    ASSUME IInv, MirrorInv, NEW h \in Hosts, NEW k \in FinishKeys, NEW n \in Known,
           NEW outcome \in Outcomes, Finish(h, k, n, outcome)
    PROVE  MirrorInv'
<1> DEFINE r == scope[ScopeOf(n)]
           w == Finished(r, outcome)
<1>1. /\ CurrentOpen(n) /\ scope' = [scope EXCEPT ![ScopeOf(n)] = w]
      /\ Vacate(n) /\ displaced' = displaced \cup Displaces(n, TRUE) /\ UNCHANGED issued
  BY DEF Finish, Finishable
<1>2. r \in Record /\ r.session = n
  BY <1>1, OpenOnes DEF CurrentOpen, Current
<1> HIDE DEF r
<1>3. w \in Record /\ w.session = n /\ w.state # "open"
  BY <1>2, FinishWritten
<1> HIDE DEF w
<1> QED
  BY <1>1, <1>3, MirrorWritten

LEMMA MirrorKept ==
    ASSUME IInv, MirrorInv, [Next]_vars
    PROVE  MirrorInv'
<1>1. CASE UNCHANGED vars
  BY <1>1, MirrorRest DEF vars
<1>2. ASSUME NEW h \in Hosts, NEW k \in OpenKeys, NEW s \in Scopes, Open(h, k, s)
      PROVE  MirrorInv'
  BY <1>2, MirrorOpened
<1>3. ASSUME NEW h \in Hosts, NEW k \in OpenKeys, OpenAgain(h, k)
      PROVE  MirrorInv'
  BY <1>3, MirrorRest DEF OpenAgain
<1>4. ASSUME NEW h \in Hosts, NEW n \in Known, ReadOpen(h, n) \/ ReadEnded(h, n)
      PROVE  MirrorInv'
  BY <1>4, MirrorRest DEF ReadOpen, ReadEnded, WillWrite
<1>5. ASSUME NEW h \in Hosts, NEW n \in Known, NEW k \in FinishKeys,
             NEW outcome \in Outcomes, Finish(h, k, n, outcome)
      PROVE  MirrorInv'
  BY <1>5, MirrorFinish
<1>6. ASSUME NEW h \in Hosts, NEW n \in Known, NEW k \in FinishKeys, FinishAgain(h, k, n)
      PROVE  MirrorInv'
  BY <1>6, MirrorRest DEF FinishAgain
<1>7. ASSUME NEW h \in Hosts, WriteBack(h)
      PROVE  MirrorInv'
  BY <1>7, MirrorWriteBack
<1>8. ASSUME NEW h \in Hosts, Drop(h)
      PROVE  MirrorInv'
  BY <1>8, MirrorRest DEF Drop
<1> QED
  BY <1>1, <1>2, <1>3, <1>4, <1>5, <1>6, <1>7, <1>8 DEF Next, Known

(* ActorsMirrorScopes: the record of an actor names a session exactly while it is
   open in its scope, whatever else is being recorded, unless the late recovery or
   cleanup of another session wrote over its scope or its actor. *)
THEOREM ActorsAgreeWithScopes == Spec => []ActorsMirrorScopes
<1>1. ASSUME Init PROVE MirrorInv
  <2>1. Known = {} /\ \A n \in 1 .. Len(issued) : FALSE
    BY <1>1 DEF Init, Known
  <2> QED
    BY <1>1, <2>1 DEF Init, MirrorInv, ActorsMirrorScopes
<1>2. IInv /\ MirrorInv /\ [Next]_vars => MirrorInv'
  BY MirrorKept
<1>3. MirrorInv => ActorsMirrorScopes
  BY DEF MirrorInv
<1> QED
  BY Invariance, <1>1, <1>2, <1>3, PTL DEF Spec
=============================================================================
