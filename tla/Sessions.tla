------------------------------ MODULE Sessions ------------------------------
(***************************************************************************)
(* The authoring session service of authoring/sessions.py: one durable     *)
(* record per scope says who edits it, one per actor which session the     *)
(* actor holds.  A caller with the handle of a session saves drafts and    *)
(* metadata, finishes, releases, and afterwards refreshes and cleans up.   *)
(*                                                                         *)
(* open and finish are one transaction each.  Every other call reads the   *)
(* record of the scope first, builds the record it will write from what it *)
(* read, and writes it in a transaction of its own; which calls look at    *)
(* the record again in that transaction is the subject of this module.     *)
(*                                                                         *)
(* The files, the lease and the fence are in Retirement.  A call that is   *)
(* repeated under its key, or refused, changes nothing here unless an      *)
(* action says so.                                                         *)
(***************************************************************************)
EXTENDS Integers, Sequences

CONSTANTS Scopes, Actors,
          Hosts,        \* processes that call for an actor
          ActorOf,      \* the actor each host calls for
          OpenKeys,     \* request ids of open
          FinishKeys,   \* request ids of finish
          MaxSessions   \* bound on the sessions opened

VARIABLES scope,    \* the durable record of each scope
          holder,   \* the session the durable record of each actor names, or None
          issued,   \* scope, actor and request of each session, in order of opening
          adopted,  \* how often the bytes of each session were applied
          handles,  \* the sessions whose handle was given to each actor
          call,     \* what each host has read and is about to write
          answers,  \* what finish answered: request, session, outcome
          displaced \* history: sessions that lost their scope or their actor to the
                    \* late write of another session

vars == <<scope, holder, issued, adopted, handles, call, answers, displaced>>

Sessions == 1 .. MaxSessions

None == 0

Record == [session : Sessions \cup {None},
           state : {"free", "open", "finished", "released", "rejected"},
           claimed : BOOLEAN,    \* there is a finish claim
           recovery : BOOLEAN,   \* recovery_pending
           cleanup : {"not_requested", "pending", "unsafe", "complete"}]

NewCheckout(n) == [session |-> n, state |-> "open", claimed |-> FALSE,
                   recovery |-> FALSE, cleanup |-> "not_requested"]

Blank == [NewCheckout(None) EXCEPT !.state = "free"]

(* What a call will write to the scope of its session. *)
Call == [op : {"save", "release", "recovery", "reject", "refresh", "cleanup"},
         session : Sessions, write : Record]

Idle == [op |-> "idle", session |-> None, write |-> Blank]

Outcomes == {"finished", "pending_released", "uncaptured", "failed", "rejected"}

ASSUME SessionAssumption ==
    /\ MaxSessions \in Nat
    /\ ActorOf \in [Hosts -> Actors]

ScopeOf(n) == issued[n].scope

Active(s) == scope[s].state = "open"

(* _validate_record: the record of the scope names the session of the handle. *)
Current(n) == scope[ScopeOf(n)].session = n

CurrentOpen(n) == Current(n) /\ Active(ScopeOf(n))

Ready(h) == call[h] = Idle

CanUse(h, n) == Ready(h) /\ n \in handles[ActorOf[h]]

(* The actor's record is cleared whichever session it names. *)
Vacate(n) == holder' = [holder EXCEPT ![issued[n].actor] = None]

(* A write for n replaces the record of another session that is open in its scope,
   or clears the record of an actor who holds another one. *)
Displaces(n, vacates) ==
    {m \in 1 .. Len(issued) \ {n} :
        \/ CurrentOpen(m) /\ ScopeOf(m) = ScopeOf(n)
        \/ vacates /\ holder[issued[n].actor] = m}

(* The calls of n made under the lease of its checkout. *)
Leased(n) == {h \in Hosts : /\ call[h].session = n
                            /\ call[h].op \in {"recovery", "reject", "refresh", "cleanup"}}
-----------------------------------------------------------------------------

Init ==
    /\ scope = [s \in Scopes |-> Blank]
    /\ holder = [a \in Actors |-> None]
    /\ issued = <<>>
    /\ adopted = [n \in Sessions |-> 0]
    /\ handles = [a \in Actors |-> {}]
    /\ call = [h \in Hosts |-> Idle]
    /\ answers = {}
    /\ displaced = {}

Opened(k) == {n \in 1 .. Len(issued) : issued[n].key = k}

(* open: a new request, a scope nobody edits, an actor who edits nothing. *)
Admissible(k, s, a) == Opened(k) = {} /\ ~Active(s) /\ holder[a] = None

(* The reservation.  What the host makes of it next, materialised files or a
   failure, is a metadata call or a release of the session. *)
Open(h, k, s) ==
    LET n == Len(issued) + 1
        a == ActorOf[h]
    IN /\ Ready(h)
       /\ n \in Sessions
       /\ Admissible(k, s, a)
       /\ issued' = Append(issued, [scope |-> s, actor |-> a, key |-> k])
       /\ scope' = [scope EXCEPT ![s] = NewCheckout(n)]
       /\ holder' = [holder EXCEPT ![a] = n]
       /\ handles' = [handles EXCEPT ![a] = @ \cup {n}]
       /\ UNCHANGED <<adopted, call, answers, displaced>>

(* A repeated open answers with the session that is open in its scope now. *)
OpenAgain(h, k) ==
    /\ Ready(h)
    /\ \E n \in Opened(k) :
         /\ issued[n].actor = ActorOf[h]
         /\ Active(ScopeOf(n))
         /\ handles' = [handles EXCEPT ![ActorOf[h]] = @ \cup {scope[ScopeOf(n)].session}]
    /\ UNCHANGED <<scope, holder, issued, adopted, call, answers, displaced>>

WillWrite(h, op, n, r) ==
    /\ call' = [call EXCEPT ![h] = [op |-> op, session |-> n, write |-> r]]
    /\ UNCHANGED <<scope, holder, issued, adopted, handles, answers, displaced>>

(* release *)
Released(r) == [r EXCEPT !.state = "released", !.cleanup = "pending"]

(* record_finish_recovery, and reject_finish *)
Recovered(r, rejected) ==
    [r EXCEPT !.state = IF rejected THEN "rejected" ELSE "released",
              !.cleanup = "pending", !.recovery = ~rejected]

(* refresh_final_snapshot *)
Refreshed(r) == [r EXCEPT !.cleanup = "pending", !.recovery = FALSE]

(* The reads of the calls on an open session.  A save is an autosave, an edit of
   the content or of the metadata: what it writes otherwise no property reads. *)
ReadOpen(h, n) ==
    /\ CanUse(h, n)
    /\ CurrentOpen(n)
    /\ LET r == scope[ScopeOf(n)] IN
       \/ WillWrite(h, "save", n, r)
       \/ WillWrite(h, "release", n, Released(r))
       \/ /\ Leased(n) = {}
          /\ \/ WillWrite(h, "recovery", n, Recovered(r, FALSE))
             \/ WillWrite(h, "reject", n, Recovered(r, TRUE))

(* The reads of the calls on a session that ended: a new capture or fence, and
   the outcome of the cleanup. *)
ReadEnded(h, n) ==
    /\ CanUse(h, n)
    /\ Current(n) /\ ~Active(ScopeOf(n))
    /\ Leased(n) = {}
    /\ LET r == scope[ScopeOf(n)] IN
       \/ WillWrite(h, "refresh", n, Refreshed(r))
       \/ \E status \in {"unsafe", "complete"} :
            WillWrite(h, "cleanup", n, [r EXCEPT !.cleanup = status])

(* Mutant of Admitted: a draft or metadata is written on the first check. *)
AdmittedOnRead(op, n) ==
    CASE op \in {"save", "recovery", "reject", "cleanup"} -> TRUE
      [] op = "release" -> CurrentOpen(n)
      [] op = "refresh" -> Current(n)

(* The second check, in the transaction that writes. *)
Admitted(op, n) ==
    CASE op \in {"save", "release"} -> CurrentOpen(n)
      [] op = "refresh" -> Current(n)
      [] op \in {"recovery", "reject", "cleanup"} -> TRUE

(* Mutant of Ends: a recovery leaves the record of the actor alone. *)
EndsByRelease(op) == op = "release"

Ends(op) == op \in {"release", "recovery", "reject"}

WriteBack(h) ==
    LET c == call[h] IN
    /\ ~Ready(h)
    /\ Admitted(c.op, c.session)
    /\ scope' = [scope EXCEPT ![ScopeOf(c.session)] = c.write]
    /\ IF Ends(c.op) THEN Vacate(c.session) ELSE UNCHANGED holder
    /\ call' = [call EXCEPT ![h] = Idle]
    /\ displaced' = displaced \cup Displaces(c.session, Ends(c.op))
    /\ UNCHANGED <<issued, adopted, handles, answers>>

(* The transaction refuses, or the process ends first. *)
Drop(h) ==
    /\ ~Ready(h)
    /\ call' = [call EXCEPT ![h] = Idle]
    /\ UNCHANGED <<scope, holder, issued, adopted, handles, answers, displaced>>

(* The record finish leaves.  Uncaptured and rejected are found before there is
   a claim; what fails after it, apply among others, takes the claim back. *)
Finished(r, outcome) ==
    [r EXCEPT !.state = CASE outcome = "finished" -> "finished"
                          [] outcome = "rejected" -> "rejected"
                          [] OTHER -> "released",
              !.claimed = outcome \in {"finished", "pending_released"},
              !.recovery = outcome \in {"uncaptured", "failed"},
              !.cleanup = "pending"]

(* A request is for one session: with another it is a conflict. *)
Bound(k, n) == \A x \in answers : x[1] = k => x[2] = n

(* Mutant of Finishable: whatever state the session is in. *)
StillCurrent(k, n) == Current(n) /\ Leased(n) = {} /\ Bound(k, n)

Finishable(k, n) == CurrentOpen(n) /\ Leased(n) = {} /\ Bound(k, n)

(* One transaction: the bytes are adopted in it or not at all. *)
Finish(h, k, n, outcome) ==
    /\ CanUse(h, n)
    /\ Finishable(k, n)
    /\ scope' = [scope EXCEPT ![ScopeOf(n)] = Finished(@, outcome)]
    /\ adopted' = IF outcome = "finished" THEN [adopted EXCEPT ![n] = @ + 1] ELSE adopted
    /\ Vacate(n)
    /\ displaced' = displaced \cup Displaces(n, TRUE)
    /\ answers' = answers \cup {<<k, n, outcome>>}
    /\ UNCHANGED <<issued, handles, call>>

(* The receipts of finish k, and of the recovery bound to it. *)
Replayed(k, n) == \E o \in {"finished", "pending_released", "uncaptured"} : <<k, n, o>> \in answers

(* What a finish that comes second looks for, the adapter of semantic finish before
   it calls the service: the record names the session and has the claim of the
   winner.  The adapter answers only if the files it captures are those the winner
   adopted, and fails, which changes nothing, if they are not. *)
ClosedByFinish(n) == Current(n) /\ ~Active(ScopeOf(n)) /\ scope[ScopeOf(n)].claimed

(* Another request for a session finish has closed, for whatever outcome kept the
   claim. *)
FinishAgain(h, k, n) ==
    /\ CanUse(h, n)
    /\ Bound(k, n) /\ ~Replayed(k, n)
    /\ ClosedByFinish(n)
    /\ answers' = answers \cup {<<k, n, "already_finished">>}
    /\ UNCHANGED <<scope, holder, issued, adopted, handles, call, displaced>>

Next ==
    \E h \in Hosts :
      \/ \E k \in OpenKeys :
           \/ \E s \in Scopes : Open(h, k, s)
           \/ OpenAgain(h, k)
      \/ \E n \in 1 .. Len(issued) :
           \/ ReadOpen(h, n)
           \/ ReadEnded(h, n)
           \/ \E k \in FinishKeys, outcome \in Outcomes : Finish(h, k, n, outcome)
           \/ \E k \in FinishKeys : FinishAgain(h, k, n)
      \/ WriteBack(h)
      \/ Drop(h)

Spec == Init /\ [][Next]_vars
-----------------------------------------------------------------------------

(* The types of the durable records and of the calls under way. *)
TypeOK ==
    /\ scope \in [Scopes -> Record]
    /\ holder \in [Actors -> Sessions \cup {None}]
    /\ issued \in Seq([scope : Scopes, actor : Actors, key : OpenKeys])
    /\ Len(issued) <= MaxSessions
    /\ adopted \in [Sessions -> Nat]
    /\ handles \in [Actors -> SUBSET (1 .. Len(issued))]
    /\ call \in [Hosts -> Call \cup {Idle}]
    /\ displaced \subseteq 1 .. Len(issued)

(* The two durable records agree: an actor's record names a session exactly
   while that session is open in its scope, so no actor edits two scopes and
   none stays occupied after its session ended (open, finish, release and every
   recovery path write both).  Recovery and cleanup write without a second look,
   perhaps over the record of another session; only a session whose record they
   wrote over is excepted. *)
ActorsMirrorScopes ==
    \A a \in Actors, n \in 1 .. Len(issued) :
        n \notin displaced => (holder[a] = n <=> (issued[n].actor = a /\ CurrentOpen(n)))

(* The same of every session, which the code does not keep. *)
AllActorsMirrorScopes ==
    \A a \in Actors, n \in 1 .. Len(issued) :
        holder[a] = n <=> (issued[n].actor = a /\ CurrentOpen(n))

(* A session that ended is never open again: no draft or metadata that was
   read while it was open is written after finish, release or recovery. *)
ClosedForGood ==
    [][\A n \in 1 .. Len(issued) : CurrentOpen(n)' => CurrentOpen(n)]_vars

(* What finish answered who was first. *)
First(n) == {x \in answers : x[2] = n /\ x[3] # "already_finished"}

(* One finish of a session wins, the bytes are applied in it and by no other, and
   whoever is told already_finished, the loser of a manual and an idle finish or a
   retry under another request, is told so of a winner that kept its claim. *)
AnswersHold ==
    \A n \in 1 .. Len(issued) :
        /\ \A x, y \in First(n) : x = y
        /\ adopted[n] = IF \E x \in First(n) : x[3] = "finished" THEN 1 ELSE 0
        /\ \A x \in answers : x[2] = n /\ x[3] = "already_finished" =>
              \E y \in First(n) : y[1] # x[1] /\ y[3] \in {"finished", "pending_released"}
=============================================================================
