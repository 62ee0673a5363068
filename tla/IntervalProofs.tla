--------------------------- MODULE IntervalProofs ---------------------------
(***************************************************************************)
(* Safety of Interval for any hosts and any bound on the clock.  The       *)
(* invariant says what a call knew when it read the record, that a call    *)
(* which still expects the current version read the current record, and    *)
(* that what was completed is not above the slot reserved last.            *)
(***************************************************************************)
EXTENDS Interval, TLAPS

(* What start, poll and complete have found in the record they read. *)
Sensible(c) ==
    /\ c \in Command
    /\ c.kind = "start" => c.base = Unstarted
    /\ c.kind = "request" =>
          c.base.version > 0 /\ c.base.flight = None /\ c.slot > c.base.slot
    /\ c.kind = "complete" =>
          /\ c.base.version > 0 /\ c.slot # None
          /\ c.base.flight = c.slot /\ c.base.slot = c.slot

Fresh(c) ==
    /\ c.base.version <= record.version
    /\ c.base.version = record.version => c.base = record

RecordOK ==
    /\ record \in Record
    /\ record.flight \in {None, record.slot}
    /\ record.version = 0 => record = Unstarted /\ receipts = {}

CallsOK == /\ call \in [Hosts -> Command \cup {Idle}]
           /\ \A h \in Hosts : call[h] # Idle => Sensible(call[h]) /\ Fresh(call[h])

ReceiptsOK ==
    /\ \A c \in receipts : Sensible(c)
    /\ \A c, d \in receipts : SameKey(c, d) => c = d

CompletedOK ==
    \A c \in receipts :
       c.kind = "complete" => c.slot <= record.slot /\ c.slot # record.flight

RanOK ==
    /\ ran \in [Hosts -> SUBSET Slots]
    /\ \A h \in Hosts : \A slot \in ran[h] :
          \E c \in receipts : c.kind = "request" /\ c.slot = slot

IInv == RecordOK /\ CallsOK /\ ReceiptsOK /\ CompletedOK /\ RanOK /\ time \in Slots
-----------------------------------------------------------------------------
LEMMA InitOK == ASSUME Init PROVE IInv
BY IntervalAssumption
   DEF Init, IInv, RecordOK, CallsOK, ReceiptsOK, CompletedOK, RanOK,
       Record, Unstarted, Slots, None

LEMMA CallsAreCommands ==
    ASSUME NEW kind \in {"start", "request", "complete"}, NEW slot \in Slots, record \in Record
    PROVE  /\ Write(kind, slot) \in Command
           /\ Write(kind, slot).kind = kind /\ Write(kind, slot).slot = slot
           /\ Write(kind, slot).base = record
BY DEF Write, Command

(* A host that reads the record is about to write what follows from it. *)
LEMMA ReadKeeps ==
    ASSUME IInv, NEW h \in Hosts, NEW c, Sensible(c), Fresh(c),
           call' = [call EXCEPT ![h] = c], UNCHANGED <<record, receipts, time, ran>>
    PROVE  IInv'
<1>1. call' \in [Hosts -> Command \cup {Idle}]
  BY DEF IInv, CallsOK, Sensible
<1>2. ASSUME NEW g \in Hosts, call'[g] # Idle
      PROVE  Sensible(call'[g]) /\ Fresh(call'[g])
  <2>1. CASE g = h
    BY <2>1 DEF IInv, CallsOK
  <2>2. CASE g # h
    BY <1>2, <2>2 DEF IInv, CallsOK
  <2>3. QED
    BY <2>1, <2>2
<1>3. CallsOK'
  BY <1>1, <1>2 DEF CallsOK, Fresh, Sensible
<1>4. QED
  BY <1>3 DEF IInv, RecordOK, ReceiptsOK, CompletedOK, RanOK, Sensible, SameKey

LEMMA StartKeeps == ASSUME IInv, NEW h \in Hosts, Start(h) PROVE IInv'
<1>1. record = Unstarted /\ record \in Record /\ time \in Slots
  BY DEF IInv, RecordOK, Start
<1> DEFINE c == Write("start", time)
<1>2. c \in Command /\ c.kind = "start" /\ c.base = record
  BY <1>1, CallsAreCommands
<1>3. call' = [call EXCEPT ![h] = c]
  BY DEF Start
<1> HIDE DEF c
<1>4. Sensible(c) /\ Fresh(c)
  BY <1>1, <1>2 DEF Sensible, Fresh, Record
<1>5. QED
  BY <1>3, <1>4, ReadKeeps DEF Start

LEMMA PollKeeps == ASSUME IInv, NEW h \in Hosts, Poll(h) PROVE IInv'
<1>1. record \in Record /\ time \in Slots
  BY DEF IInv, RecordOK
<1>2. record.version > 0 /\ record.flight = None /\ Elapsed > record.slot
  BY DEF Poll, Due
<1>3. Elapsed \in Slots
  BY <1>1, <1>2, IntervalAssumption DEF Elapsed, Slots, Record
<1> DEFINE c == Write("request", Elapsed)
<1>4. c \in Command /\ c.kind = "request" /\ c.base = record /\ c.slot = Elapsed
  BY <1>1, <1>3, CallsAreCommands
<1>5. call' = [call EXCEPT ![h] = c]
  BY DEF Poll
<1> HIDE DEF c
<1>6. Sensible(c) /\ Fresh(c)
  BY <1>1, <1>2, <1>4 DEF Sensible, Fresh, Record
<1>7. QED
  BY <1>5, <1>6, ReadKeeps DEF Poll

LEMMA CompleteKeeps ==
    ASSUME IInv, NEW h \in Hosts, NEW slot \in Slots, Complete(h, slot)
    PROVE  IInv'
<1>1. record \in Record /\ record.flight = slot /\ slot # None /\ record.slot = slot
  BY DEF IInv, RecordOK, Complete
<1>2. record.version > 0
  BY <1>1 DEF IInv, RecordOK, Record, Unstarted, None
<1> DEFINE c == Write("complete", slot)
<1>3. c \in Command /\ c.kind = "complete" /\ c.base = record /\ c.slot = slot
  BY <1>1, CallsAreCommands
<1>4. call' = [call EXCEPT ![h] = c]
  BY DEF Complete
<1> HIDE DEF c
<1>5. Sensible(c) /\ Fresh(c)
  BY <1>1, <1>2, <1>3 DEF Sensible, Fresh, Record
<1>6. QED
  BY <1>4, <1>5, ReadKeeps DEF Complete

(* A host that has its answer, or dies. *)
LEMMA EndKeeps ==
    ASSUME IInv, NEW h \in Hosts, call' = [call EXCEPT ![h] = Idle],
           UNCHANGED <<record, receipts, time>>, RanOK'
    PROVE  IInv'
<1>1. call' \in [Hosts -> Command \cup {Idle}]
      /\ \A g \in Hosts : call'[g] = call[g] \/ call'[g] = Idle
  BY DEF IInv, CallsOK
<1>2. CallsOK'
  BY <1>1 DEF IInv, CallsOK, Fresh, Sensible
<1>3. QED
  BY <1>2 DEF IInv, RecordOK, ReceiptsOK, CompletedOK, Sensible, SameKey

LEMMA ReplayKeeps == ASSUME IInv, NEW h \in Hosts, Replay(h) PROVE IInv'
<1>1. call[h] \in receipts /\ Sensible(call[h])
  BY DEF IInv, ReceiptsOK, Replay
<1>2. call[h].slot \in Slots
  BY <1>1 DEF Sensible, Command
<1>3. RanOK'
  BY <1>1, <1>2 DEF IInv, RanOK, Replay, Answer
<1>4. QED
  BY <1>3, EndKeeps DEF Replay

LEMMA RefusedKeeps ==
    ASSUME IInv, NEW h \in Hosts, Refused(h) \/ Crash(h)
    PROVE  IInv'
<1>1. RanOK'
  BY DEF IInv, RanOK, Refused, Crash
<1>2. QED
  BY <1>1, EndKeeps DEF Refused, Crash

LEMMA TickKeeps == ASSUME IInv, Tick PROVE IInv'
<1>1. time' \in Slots
  BY IntervalAssumption DEF IInv, Tick, Slots
<1>2. QED
  BY <1>1 DEF Tick, IInv, RecordOK, CallsOK, ReceiptsOK, CompletedOK, RanOK,
              Sensible, Fresh, SameKey
-----------------------------------------------------------------------------
(* A command that is written finds the record its caller read. *)
LEMMA CommitWrites ==
    ASSUME IInv, NEW h \in Hosts, Commit(h)
    PROVE  /\ Sensible(call[h]) /\ call[h].base = record
           /\ \A d \in receipts : ~SameKey(call[h], d)
           /\ record' = Result(call[h]) /\ receipts' = receipts \cup {call[h]}
BY DEF IInv, CallsOK, Fresh, Commit, Applies

(* What it makes of the record. *)
LEMMA Written ==
    ASSUME IInv, NEW h \in Hosts, Commit(h)
    PROVE  /\ record' \in Record
           /\ record'.version = record.version + 1
           /\ record'.slot >= record.slot
           /\ record'.flight \in {None, record'.slot}
           /\ call[h].kind = "start" => record = Unstarted /\ receipts = {}
           /\ call[h].kind = "request" =>
                 /\ record.flight = None /\ record'.flight = call[h].slot
                 /\ record'.slot > record.slot /\ record'.anchor = record.anchor
           /\ call[h].kind = "complete" =>
                 /\ record.flight = call[h].slot /\ record'.flight = None
                 /\ record.slot = call[h].slot /\ record'.slot = record.slot
                 /\ record'.anchor = record.anchor
<1> DEFINE c == call[h]
<1>1. Sensible(c) /\ c.base = record /\ record' = Result(c)
  BY CommitWrites
<1>2. RecordOK
  BY DEF IInv
<1>3. c \in Command /\ c.kind \in {"start", "request", "complete"} /\ c.slot \in Slots
  BY <1>1 DEF Sensible, Command
<1> HIDE DEF c
<1>4. 0 \in Slots /\ Slots \subseteq Nat
  BY IntervalAssumption DEF Slots
<1>5. CASE c.kind = "start"
  BY <1>1, <1>2, <1>3, <1>4, <1>5 DEF Sensible, RecordOK, Result, Record, Unstarted, None, c
<1>6. CASE c.kind = "request"
  <2>1. record' = [record EXCEPT !.version = @ + 1, !.slot = c.slot, !.flight = c.slot]
    BY <1>1, <1>6 DEF Result
  <2>2. record' = [version |-> record.version + 1, anchor |-> record.anchor,
                   slot |-> c.slot, flight |-> c.slot]
    BY <1>2, <2>1 DEF RecordOK, Record
  <2>3. record' \in Record /\ record'.version = record.version + 1
    BY <1>2, <1>3, <1>4, <2>2 DEF RecordOK, Record
  <2>4. record.flight = None /\ c.slot > record.slot
    BY <1>1, <1>6 DEF Sensible
  <2>5. c.slot \in Nat /\ record.slot \in Nat
    BY <1>2, <1>3, <1>4 DEF RecordOK, Record
  <2>6. QED
    BY <1>6, <2>2, <2>3, <2>4, <2>5 DEF c
<1>7. CASE c.kind = "complete"
  <2>1. record' = [record EXCEPT !.version = @ + 1, !.flight = None]
    BY <1>1, <1>7 DEF Result
  <2>2. record' = [version |-> record.version + 1, anchor |-> record.anchor,
                   slot |-> record.slot, flight |-> None]
    BY <1>2, <2>1 DEF RecordOK, Record
  <2>3. record' \in Record /\ record'.version = record.version + 1
    BY <1>2, <1>4, <2>2 DEF RecordOK, Record, None
  <2>4. record.flight = c.slot /\ record.slot = c.slot /\ record.slot \in Nat
    BY <1>1, <1>2, <1>4, <1>7 DEF Sensible, RecordOK, Record
  <2>5. QED
    BY <1>7, <2>2, <2>3, <2>4 DEF c
<1>8. QED
  BY <1>3, <1>5, <1>6, <1>7

LEMMA CommitCalls == ASSUME IInv, NEW h \in Hosts, Commit(h) PROVE CallsOK'
<1>1. record.version \in Nat /\ record'.version = record.version + 1
  BY Written DEF IInv, RecordOK, Record
<1>2. call' = [call EXCEPT ![h] = Idle]
  BY DEF Commit
<1>3. call' \in [Hosts -> Command \cup {Idle}]
  BY <1>2 DEF IInv, CallsOK
<1>4. ASSUME NEW g \in Hosts, call'[g] # Idle
      PROVE  Sensible(call'[g]) /\ call'[g].base.version < record'.version
  <2>1. call'[g] = call[g] /\ Sensible(call[g]) /\ Fresh(call[g])
    BY <1>2, <1>4 DEF IInv, CallsOK
  <2>2. call[g].base.version \in Nat /\ call[g].base.version <= record.version
    BY <2>1 DEF Sensible, Command, Record, Fresh
  <2>3. QED
    BY <1>1, <2>1, <2>2
<1>5. ASSUME NEW g \in Hosts, call'[g] # Idle
      PROVE  Sensible(call[g])' /\ Fresh(call[g])'
  <2>1. call'[g].base.version \in Nat
    BY <1>4, <1>5 DEF Sensible, Command, Record
  <2>2. QED
    BY <1>1, <1>4, <1>5, <2>1 DEF Fresh, Sensible
<1>6. QED
  BY <1>3, <1>5 DEF CallsOK

LEMMA CommitReceipts == ASSUME IInv, NEW h \in Hosts, Commit(h) PROVE ReceiptsOK'
<1>1. ASSUME NEW c \in receipts' PROVE Sensible(c)
  BY <1>1, CommitWrites DEF IInv, ReceiptsOK
<1>2. ASSUME NEW c \in receipts', NEW d \in receipts', SameKey(c, d) PROVE c = d
  <2>1. c \in receipts \cup {call[h]} /\ d \in receipts \cup {call[h]}
    BY CommitWrites
  <2>2. SameKey(d, c)
    BY <1>2 DEF SameKey
  <2>3. \A e \in receipts : ~SameKey(call[h], e)
    BY CommitWrites
  <2>4. QED
    BY <1>2, <2>1, <2>2, <2>3 DEF IInv, ReceiptsOK
<1>3. QED
  BY <1>1, <1>2 DEF ReceiptsOK, Sensible, SameKey

LEMMA CommitCompleted == ASSUME IInv, NEW h \in Hosts, Commit(h) PROVE CompletedOK'
<1>1. receipts' = receipts \cup {call[h]} /\ Sensible(call[h])
  BY CommitWrites
<1>2. record.slot \in Nat /\ record'.slot \in Nat /\ record'.slot >= record.slot
  BY Written, IntervalAssumption DEF IInv, RecordOK, Record, Slots
<1>3. call[h].kind \in {"start", "request", "complete"}
  BY <1>1 DEF Sensible, Command
<1>4. ASSUME NEW c \in receipts', c.kind = "complete"
      PROVE  c.slot <= record'.slot /\ c.slot # record'.flight
  <2>1. c.slot \in Nat /\ c.slot # None
    BY <1>1, <1>4, IntervalAssumption DEF IInv, ReceiptsOK, Sensible, Command, Slots
  <2>2. CASE c = call[h]
    BY <1>2, <1>4, <2>1, <2>2, Written
  <2>3. CASE c \in receipts
    <3>1. c.slot <= record.slot /\ c.slot # record.flight
      BY <1>4, <2>3 DEF IInv, CompletedOK
    <3>2. CASE call[h].kind = "start"
      BY <2>3, <3>2, Written
    <3>3. CASE call[h].kind = "request"
      BY <1>2, <2>1, <3>1, <3>3, Written
    <3>4. CASE call[h].kind = "complete"
      BY <1>2, <2>1, <3>1, <3>4, Written
    <3>5. QED
      BY <1>3, <3>2, <3>3, <3>4
  <2>4. QED
    BY <1>1, <2>2, <2>3
<1>5. QED
  BY <1>4 DEF CompletedOK

LEMMA CommitKeeps == ASSUME IInv, NEW h \in Hosts, Commit(h) PROVE IInv'
<1>1. receipts' = receipts \cup {call[h]} /\ Sensible(call[h])
  BY CommitWrites
<1>2. RecordOK'
  <2>1. record.version \in Nat
    BY DEF IInv, RecordOK, Record
  <2>2. QED
    BY <2>1, Written DEF RecordOK
<1>3. RanOK'
  <2>1. call[h].slot \in Slots
    BY <1>1 DEF Sensible, Command
  <2>2. QED
    BY <1>1, <2>1 DEF IInv, RanOK, Commit, Answer
<1>4. time' \in Slots
  BY DEF Commit, IInv, Slots
<1>5. QED
  BY <1>2, <1>3, <1>4, CommitCalls, CommitReceipts, CommitCompleted DEF IInv
-----------------------------------------------------------------------------
LEMMA NextKeeps == ASSUME IInv, [Next]_vars PROVE IInv'
<1>1. CASE Tick
  BY <1>1, TickKeeps
<1>2. ASSUME NEW h \in Hosts,
             Start(h) \/ Poll(h) \/ Commit(h) \/ Replay(h) \/ Refused(h) \/ Crash(h)
      PROVE  IInv'
  BY <1>2, StartKeeps, PollKeeps, CommitKeeps, ReplayKeeps, RefusedKeeps
<1>3. ASSUME NEW h \in Hosts, NEW slot \in Slots, Complete(h, slot) PROVE IInv'
  BY <1>3, CompleteKeeps
<1>4. CASE UNCHANGED vars
  BY <1>4 DEF vars, IInv, RecordOK, CallsOK, ReceiptsOK, CompletedOK, RanOK,
              Sensible, Fresh, SameKey
<1>5. QED
  BY <1>1, <1>2, <1>3, <1>4 DEF Next

LEMMA Inductive == Spec => []IInv
<1>1. Init => IInv
  BY InitOK
<1>2. IInv /\ [Next]_vars => IInv'
  BY NextKeeps
<1>3. QED
  BY <1>1, <1>2, PTL DEF Spec

(* The record of the interval and the calls keep their types. *)
THEOREM TypeCorrect == Spec => []TypeOK
<1>1. IInv => TypeOK
  BY DEF IInv, RecordOK, CallsOK, ReceiptsOK, RanOK, Sensible, TypeOK
<1>2. QED
  BY <1>1, Inductive, PTL

(* complete: no late write of another host brings a completed request back. *)
THEOREM CompletionIsFinal == Spec => []CompletedForGood
<1>1. IInv => CompletedForGood
  BY DEF IInv, CompletedOK, CompletedForGood
<1>2. QED
  BY <1>1, Inductive, PTL

(* poll: one reservation of a slot is ever written, and whoever runs its request
   was answered by it. *)
THEOREM SlotsAreReservedOnce == Spec => []OneReservation
<1>1. IInv => OneReservation
  <2> SUFFICES ASSUME IInv PROVE OneReservation
    OBVIOUS
  <2>1. ASSUME NEW c \in receipts, NEW d \in receipts,
               c.kind = "request", d.kind = "request", c.slot = d.slot
        PROVE  c = d
    BY <2>1 DEF IInv, ReceiptsOK, SameKey
  <2>2. QED
    BY <2>1 DEF IInv, RanOK, OneReservation
<1>2. QED
  BY <1>1, Inductive, PTL

(* A step that changes the record is a commit. *)
LEMMA OnlyCommitWrites ==
    ASSUME [Next]_vars, ~(\E h \in Hosts : Commit(h))
    PROVE  record' = record
BY DEF Next, vars, Tick, Start, Poll, Complete, Replay, Refused, Crash

(* poll and complete: a request in flight is replaced by nothing but its own
   completion, and slots are reserved in order. *)
THEOREM FlightIsExclusive == Spec => OneInFlight
<1> DEFINE Step == /\ record.flight # None => record'.flight \in {record.flight, None}
                   /\ record'.slot >= record.slot
                   /\ record.version > 0 => record'.anchor = record.anchor
<1>1. ASSUME IInv, [Next]_vars PROVE [Step]_vars
  <2>1. ASSUME NEW h \in Hosts, Commit(h) PROVE Step
    <3>1. call[h].kind \in {"start", "request", "complete"}
      BY <1>1, <2>1, CommitWrites DEF Sensible, Command
    <3>2. call[h].kind = "start" => record.version = 0 /\ record.flight = None
      BY <1>1, <2>1, Written DEF Unstarted
    <3>3. record.version \in Nat
      BY <1>1 DEF IInv, RecordOK, Record
    <3>4. QED
      BY <1>1, <2>1, <3>1, <3>2, <3>3, Written
  <2>2. ASSUME record' = record PROVE Step
    BY <1>1, <2>2, IntervalAssumption DEF IInv, RecordOK, Record, Slots
  <2> HIDE DEF Step
  <2>3. QED
    BY <1>1, <2>1, <2>2, OnlyCommitWrites
<1>2. QED
  BY <1>1, Inductive, PTL DEF Spec, OneInFlight

(* complete: a report of one request never clears another. *)
THEOREM ReportsEndTheirOwn == Spec => EndedByItsReport
<1> DEFINE Step == record.flight # None /\ record'.flight = None =>
               \E c \in receipts' \ receipts : c.kind = "complete" /\ c.slot = record.flight
<1>1. ASSUME IInv, [Next]_vars PROVE [Step]_vars
  <2>1. ASSUME NEW h \in Hosts, Commit(h), record.flight # None, record'.flight = None
        PROVE  call[h] \in receipts' \ receipts /\ call[h].kind = "complete"
               /\ call[h].slot = record.flight
    <3>1. call[h].kind \in {"start", "request", "complete"}
      BY <1>1, <2>1, CommitWrites DEF Sensible, Command
    <3>2. call[h].kind = "start" => record.flight = None
      BY <1>1, <2>1, Written DEF Unstarted
    <3>3. call[h] \in receipts' /\ call[h] \notin receipts
      BY <1>1, <2>1, CommitWrites DEF SameKey
    <3>4. QED
      BY <1>1, <2>1, <3>1, <3>2, <3>3, Written
  <2>2. ASSUME record' = record PROVE Step
    BY <2>2
  <2>3. QED
    BY <1>1, <2>1, <2>2, OnlyCommitWrites
<1>2. QED
  BY <1>1, Inductive, PTL DEF Spec, EndedByItsReport
=============================================================================
