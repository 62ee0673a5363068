------------------------------ MODULE Interval ------------------------------
(***************************************************************************)
(* The interval controller of kernel/recovery.py: a durable record says    *)
(* when timed attention started, which slot was reserved last and which    *)
(* request is in flight.  Hosts poll it, run the request they are given,   *)
(* and report it complete.  A call reads the record, and writes it by a    *)
(* command that expects the version that was read; between the two, other  *)
(* hosts call too.                                                         *)
(*                                                                         *)
(* Time is counted in intervals.  The request of a slot is named by the    *)
(* slot, as its id is a digest of it.  All hosts act as the same actor.    *)
(***************************************************************************)
EXTENDS Integers, FiniteSets

CONSTANTS Hosts,     \* processes that poll
          MaxTime    \* bound on the clock

ASSUME IntervalAssumption == MaxTime \in Nat

VARIABLES record,    \* the durable record of the interval
          receipts,  \* the commands the store has recorded
          call,      \* what each host is about to write
          time,      \* the clock all hosts read
          ran        \* history: the requests each host was told to start

vars == <<record, receipts, call, time, ran>>

Slots == 0 .. MaxTime

None == 0   \* no request is in flight: slot 0 never falls due

Record == [version : Nat, anchor : Slots, slot : Slots, flight : Slots]

(* Version 0: the interval was not started. *)
Unstarted == [version |-> 0, anchor |-> 0, slot |-> 0, flight |-> None]

(* A command: its key is its kind with its slot, and its digest covers the
   version it expects and what it writes. *)
Command == [kind : {"start", "request", "complete"}, slot : Slots, base : Record]

Idle == [kind |-> "idle", slot |-> 0, base |-> Unstarted]

Write(kind, slot) == [kind |-> kind, slot |-> slot, base |-> record]

(* Mutant of SameKey: one key for the requests of all slots. *)
SameKind(c, d) == c.kind = d.kind

SameKey(c, d) == c.kind = d.kind /\ (c.kind # "start" => c.slot = d.slot)

Result(c) ==
    CASE c.kind = "start"    -> [version |-> 1, anchor |-> c.slot, slot |-> 0, flight |-> None]
      [] c.kind = "request"  -> [c.base EXCEPT !.version = @ + 1, !.slot = c.slot, !.flight = c.slot]
      [] c.kind = "complete" -> [c.base EXCEPT !.version = @ + 1, !.flight = None]

(* Slots that have passed since the anchor. *)
Elapsed == time - record.anchor

Due == record.version > 0 /\ record.flight = None /\ Elapsed > record.slot
-----------------------------------------------------------------------------

Init ==
    /\ record = Unstarted
    /\ receipts = {}
    /\ call = [h \in Hosts |-> Idle]
    /\ time = 0
    /\ ran = [h \in Hosts |-> {}]

Tick ==
    /\ time < MaxTime
    /\ time' = time + 1
    /\ UNCHANGED <<record, receipts, call, ran>>

(* start, or the first poll: no record yet, and now is the anchor. *)
Start(h) ==
    /\ call[h] = Idle
    /\ record.version = 0
    /\ call' = [call EXCEPT ![h] = Write("start", time)]
    /\ UNCHANGED <<record, receipts, time, ran>>

(* Mutant of Poll: a request in flight does not stop the next one. *)
PollInFlight(h) ==
    /\ call[h] = Idle
    /\ record.version > 0
    /\ Elapsed > record.slot
    /\ call' = [call EXCEPT ![h] = Write("request", Elapsed)]
    /\ UNCHANGED <<record, receipts, time, ran>>

(* poll finds a slot due and nothing in flight.  Any other answer of a poll
   writes nothing and starts nothing: not due, or still in flight. *)
Poll(h) ==
    /\ call[h] = Idle
    /\ Due
    /\ call' = [call EXCEPT ![h] = Write("request", Elapsed)]
    /\ UNCHANGED <<record, receipts, time, ran>>

(* Mutant of Complete: whatever is in flight is taken for the completed one. *)
CompleteAny(h, slot) ==
    /\ call[h] = Idle
    /\ slot # None /\ slot <= record.slot
    /\ record.flight # None
    /\ call' = [call EXCEPT ![h] = Write("complete", slot)]
    /\ UNCHANGED <<record, receipts, time, ran>>

(* complete: every poll names the request in flight, so any host may report it.
   A late or repeated report of another one writes nothing. *)
Complete(h, slot) ==
    /\ call[h] = Idle
    /\ slot # None
    /\ record.flight = slot
    /\ call' = [call EXCEPT ![h] = Write("complete", slot)]
    /\ UNCHANGED <<record, receipts, time, ran>>

(* Mutant of Applies: the record is put, not changed by a command. *)
AppliesAlways(c) == c \in Command

(* Mutant of Applies: the version is not compared. *)
AppliesAtAnyVersion(c) == \A d \in receipts : ~SameKey(c, d)

(* The key is new, and the version the one expected. *)
Applies(c) ==
    /\ \A d \in receipts : ~SameKey(c, d)
    /\ record.version = c.base.version

(* A host that asked for a request is told to start it: due, not in flight. *)
Answer(h) ==
    ran' = IF call[h].kind = "request" THEN [ran EXCEPT ![h] = @ \cup {call[h].slot}] ELSE ran

(* The command is written; the host may die before it hears of it. *)
Commit(h) ==
    /\ call[h] # Idle
    /\ Applies(call[h])
    /\ record' = Result(call[h])
    /\ receipts' = receipts \cup {call[h]}
    /\ Answer(h) \/ UNCHANGED ran
    /\ call' = [call EXCEPT ![h] = Idle]
    /\ UNCHANGED time

(* The same command was written already: its receipt answers. *)
Replay(h) ==
    /\ call[h] \in receipts
    /\ Answer(h)
    /\ call' = [call EXCEPT ![h] = Idle]
    /\ UNCHANGED <<record, receipts, time>>

(* Another command has the key, or the version has moved on: the call raises. *)
Refused(h) ==
    /\ call[h] # Idle
    /\ call[h] \notin receipts
    /\ ~Applies(call[h])
    /\ call' = [call EXCEPT ![h] = Idle]
    /\ UNCHANGED <<record, receipts, time, ran>>

(* A host dies before it writes. *)
Crash(h) ==
    /\ call[h] # Idle
    /\ call' = [call EXCEPT ![h] = Idle]
    /\ UNCHANGED <<record, receipts, time, ran>>

Next ==
    \/ Tick
    \/ \E h \in Hosts :
          \/ Start(h) \/ Poll(h) \/ Commit(h) \/ Replay(h) \/ Refused(h) \/ Crash(h)
          \/ \E slot \in Slots : Complete(h, slot)

(* Hosts poll and finish their calls, and not every call dies before it writes.
   No one is obliged to run a request, or to report it. *)
Fairness ==
    /\ WF_vars(\E h \in Hosts : Start(h) \/ Poll(h))
    /\ SF_vars(\E h \in Hosts : Commit(h))
    /\ \A h \in Hosts : WF_vars(Replay(h) \/ Refused(h))

Spec == Init /\ [][Next]_vars /\ Fairness
-----------------------------------------------------------------------------
(* Properties. *)

(* Types; what is in flight is the slot reserved last. *)
TypeOK ==
    /\ record \in Record /\ record.flight \in {None, record.slot}
    /\ receipts \subseteq Command
    /\ call \in [Hosts -> Command \cup {Idle}]
    /\ time \in Slots
    /\ ran \in [Hosts -> SUBSET Slots]

(* A request that was reported complete is not in flight again, whatever hosts
   still write of what they read before. *)
CompletedForGood ==
    \A c \in receipts : c.kind = "complete" => record.flight # c.slot

(* A slot is reserved at most once, and every host that runs its request does
   so on that one reservation. *)
OneReservation ==
    /\ \A c, d \in receipts : c.kind = "request" /\ d.kind = "request" /\ c.slot = d.slot => c = d
    /\ \A h \in Hosts : \A slot \in ran[h] : \E c \in receipts : c.kind = "request" /\ c.slot = slot

(* What is in flight stays so until it is reported complete: nothing takes its
   place; slots and anchor never go back. *)
OneInFlight ==
    [][/\ record.flight # None => record'.flight \in {record.flight, None}
       /\ record'.slot >= record.slot
       /\ record.version > 0 => record'.anchor = record.anchor]_vars

(* A report of one request never ends another. *)
EndedByItsReport ==
    [][record.flight # None /\ record'.flight = None =>
          \E c \in receipts' \ receipts : c.kind = "complete" /\ c.slot = record.flight]_vars

(* A slot that falls due is reserved, although racing hosts refuse each other. *)
DueIsReserved == Due ~> record.flight # None

(* One host runs the request of a slot. *)
LaunchedOnce == \A g, h \in Hosts : ran[g] \cap ran[h] # {} => g = h
=============================================================================
