------------------------- MODULE CommandStoreProofs -------------------------
(***************************************************************************)
(* Proofs about CommandStore for any identities, keys, streams, requests   *)
(* and nesting.  The invariant is Sound, stated of every level of the      *)
(* transaction: each operation turns sound tables into sound tables (one   *)
(* lemma per operation), and a transaction boundary only moves tables      *)
(* between levels.                                                         *)
(***************************************************************************)
EXTENDS CommandStore, SequenceTheorems, TLAPS

(* The tables are typed, and everything that makes the log and the receipts
   agree holds of them. *)
Sound(d) ==
    /\ d \in Tables
    /\ Referential(d)
    /\ GapFree(d)
    /\ ReceiptsMatchEvents(d)
    /\ VersionSpent(d)
    /\ OneWinnerPerVersion(d)

SoundLevels == \A d \in Levels : Sound(d)

IInv == TypeOK /\ SoundLevels

-----------------------------------------------------------------------------
(* Typing of the operations. *)

LEMMA NoRequestType == NoRequest \in Request
BY StoreAssumption DEF StoreAssumption, NoRequest, Request, Revisions, NoRevision, NoVersion

LEMMA EmptyTablesType == EmptyTables \in Tables
BY NoRequestType, StoreAssumption DEF EmptyTables, Tables, AbsentRow, NoReceipt, Receipt, Row,
   Revisions, NoRevision, StoreAssumption, Ref

LEMMA CommandType ==
    ASSUME NEW d \in Tables, NEW k \in Keys, NEW r \in Requests, NEW s \in Streams,
           NEW before \in SUBSET Ref, NEW after \in SUBSET Ref, NEW rev \in Int
    PROVE  CommandEffect(d, k, r, s, before, after, rev) \in Tables
<1>1. r \in Request
  BY StoreAssumption DEF StoreAssumption
<1>2. References(d, r, before, after, rev) \subseteq Ref
  BY <1>1 DEF References, Tables, Row, Ref, Revisions, Request
<1>3. CommittedRow(d.ident[r.id], r, rev) \in Row
  BY <1>1 DEF CommittedRow, Tables, Row, Request, Revisions
<1>4. [status |-> "committed", req |-> r, rev |-> rev] \in Receipt
  BY <1>1 DEF Receipt, Revisions
<1>5. CommandEvent(d, k, r, s, rev) \in Event
  BY <1>1 DEF CommandEvent, Event, Request, Tables, Revisions
<1> QED
  BY <1>1, <1>2, <1>3, <1>4, <1>5 DEF CommandEffect, Update, Tables, Request

LEMMA NoOpType ==
    ASSUME NEW d \in Tables, NEW k \in Keys, NEW r \in Requests
    PROVE  NoOpEffect(d, k, r) \in Tables
<1>1. r \in Request
  BY StoreAssumption DEF StoreAssumption
<1>2. r.id \in Ids /\ d.ident[r.id] \in Row
  BY <1>1 DEF Tables, Request
<1>3. NoOpRow(d.ident[r.id]) \in Row
  BY <1>2 DEF NoOpRow, Row
<1>4. [status |-> "noop", req |-> r, rev |-> d.ident[r.id].rev] \in Receipt
  BY <1>1, <1>2 DEF Receipt, Row
<1>5. <<r.id, r.pin>> \in Ref
  BY <1>1 DEF Ref, Request
<1> QED
  BY <1>2, <1>3, <1>4, <1>5 DEF NoOpEffect, Update, Tables

LEMMA PutType ==
    ASSUME NEW d \in Tables, NEW i \in Ids, NEW row \in Row
    PROVE  PutEffect(d, i, row) \in Tables
BY DEF PutEffect, Update, Tables

LEMMA ReferType ==
    ASSUME NEW d \in Tables, NEW i \in Ids, NEW rev \in Int
    PROVE  ReferEffect(d, i, rev) \in Tables
BY DEF ReferEffect, Update, Tables, Ref, Revisions

LEMMA ReviseType ==
    ASSUME NEW d \in Tables, NEW i \in Ids, NEW pay \in Payloads
    PROVE  ReviseEffect(d, i, pay) \in Tables
<1>1. d.ident[i] \in Row
  BY DEF Tables
<1>2. NextRevision(d.ident[i]) \in Int
  BY <1>1 DEF NextRevision, Row, Revisions
<1>3. RevisedRow(d.ident[i], pay) \in Row
  BY <1>1, <1>2 DEF RevisedRow, Row, Revisions
<1>4. <<i, NextRevision(d.ident[i])>> \in Ref
  BY <1>2 DEF Ref, Revisions
<1> QED
  BY <1>3, <1>4 DEF ReviseEffect, Update, Tables

LEMMA AppendType ==
    ASSUME NEW d \in Tables, NEW e \in Event, NEW refs \in SUBSET Ref
    PROVE  AppendEffect(d, e, refs) \in Tables
BY DEF AppendEffect, Update, Tables, Event, Ref, Revisions

LEMMA RegisterType ==
    ASSUME NEW d \in Tables, NEW known \in SUBSET Domains, NEW dom \in Domains
    PROVE  RegisterEffect(d, known, dom) \in Tables
BY DEF RegisterEffect, Tables

-----------------------------------------------------------------------------
(* Soundness of the operations. *)

LEMMA EmptyTablesSound == Sound(EmptyTables)
BY EmptyTablesType DEF Sound, EmptyTables, Referential, Resolvable, GapFree,
   ReceiptsMatchEvents, VersionSpent, OneWinnerPerVersion, NoReceipt

(* A command that is not recorded yet, agrees with the current row and names
   only identities that are there, keeps sound tables sound. *)
LEMMA CommandSound ==
    ASSUME NEW d, Sound(d), NEW k \in Keys, NEW r \in Requests, NEW s \in Streams,
           NEW before \in SUBSET Ref, NEW after \in SUBSET Ref, NEW rev \in Int,
           Unrecorded(d, k), Admissible(d, r), ForeignKeysHold(d, r, before \cup after)
    PROVE  Sound(CommandEffect(d, k, r, s, before, after, rev))
<1> DEFINE n == CommandEffect(d, k, r, s, before, after, rev)
           e == CommandEvent(d, k, r, s, rev)
           row == CommittedRow(d.ident[r.id], r, rev)
<1>1. d \in Tables /\ r \in Request /\ r.expVer >= NoVersion
  BY StoreAssumption DEF StoreAssumption, Sound
<1>2. n \in Tables
  BY <1>1, CommandType
<1>3. r.id \in Ids /\ d.ident[r.id] \in Row /\ d.receipts[k].status = "none"
  BY <1>1 DEF Tables, Request, Unrecorded
<1>4. /\ n.ident = [d.ident EXCEPT ![r.id] = row]
      /\ n.refs = d.refs \cup References(d, r, before, after, rev)
      /\ n.next = [d.next EXCEPT ![s] = d.next[s] + 1]
      /\ n.receipts = [d.receipts EXCEPT ![k] = [status |-> "committed", req |-> r, rev |-> rev]]
      /\ n.events = d.events \cup {e}
  BY DEF CommandEffect, Update
<1>5. e.id = k /\ e.stream = s /\ e.seq = d.next[s] /\ e.subj = r.id /\ e.rev = rev
  BY DEF CommandEvent
<1>6. \A i \in Ids : /\ d.ident[i].admitted => n.ident[i].admitted
                     /\ n.ident[i].ver >= d.ident[i].ver
  BY <1>1, <1>3, <1>4 DEF CommittedRow, Tables, Row
<1>7. n.ident[r.id].admitted /\ n.ident[r.id].ver = d.ident[r.id].ver + 1
  BY <1>1, <1>3, <1>4 DEF CommittedRow, Tables
<1>8. Referential(n)
  <2>1. Resolvable(n, n.refs)
    <3>1. \A ref \in d.refs : n.ident[ref[1]].admitted
      BY <1>1, <1>6 DEF Sound, Referential, Resolvable, Tables, Ref
    <3>2. \A ref \in before \cup after : n.ident[ref[1]].admitted
      BY <1>6, <1>7 DEF ForeignKeysHold, Ref
    <3>3. \A ref \in References(d, r, before, after, rev) : ref \in before \cup after \/ ref[1] = r.id
      BY DEF References
    <3> QED
      BY <3>1, <3>2, <3>3, <1>4, <1>7 DEF Resolvable
  <2>2. \A f \in n.events : n.ident[f.subj].admitted
    BY <1>1, <1>4, <1>5, <1>6, <1>7 DEF Sound, Referential, Tables, Event
  <2>3. \A l \in Keys : n.receipts[l].status # "none" => n.ident[n.receipts[l].req.id].admitted
    BY <1>1, <1>4, <1>6, <1>7 DEF Sound, Referential, Tables, Receipt, Request
  <2> QED
    BY <2>1, <2>2, <2>3 DEF Referential
<1>9. GapFree(n)
  <2>1. d.next \in [Streams -> Nat \ {0}] /\ d.events \subseteq Event
    BY <1>1 DEF Tables
  <2>2. \A f \in n.events : f.seq \in 1 .. n.next[f.stream] - 1
    BY <2>1, <1>4, <1>5 DEF Sound, GapFree, Event
  <2>3. \A t \in Streams : \A m \in 1 .. n.next[t] - 1 :
           \E f \in n.events : f.stream = t /\ f.seq = m
    BY <2>1, <1>4, <1>5 DEF Sound, GapFree
  <2>4. \A f \in d.events : f.stream = s => f.seq # e.seq
    BY <2>1, <1>5 DEF Sound, GapFree, Event
  <2>5. \A f, g \in n.events : f.stream = g.stream /\ f.seq = g.seq => f = g
    BY <2>4, <1>4, <1>5 DEF Sound, GapFree
  <2> QED
    BY <2>2, <2>3, <2>5 DEF GapFree
<1>10. ReceiptsMatchEvents(n)
  <2>1. \A f \in d.events : f.id # k
    BY <1>3 DEF Sound, ReceiptsMatchEvents
  <2>2. ASSUME NEW l \in Keys
        PROVE  IF n.receipts[l].status = "committed"
               THEN \E f \in n.events : /\ f.id = l
                                        /\ f.subj = n.receipts[l].req.id
                                        /\ f.rev = n.receipts[l].rev
               ELSE \A f \in n.events : f.id # l
    <3>1. CASE l = k
      <4>1. n.receipts[l] = [status |-> "committed", req |-> r, rev |-> rev]
        BY <3>1, <1>1, <1>4 DEF Tables
      <4> QED
        BY <4>1, <3>1, <1>4, <1>5
    <3>2. CASE l # k
      <4>1. n.receipts[l] = d.receipts[l]
        BY <3>2, <1>1, <1>4 DEF Tables
      <4> QED
        BY <4>1, <3>2, <1>4, <1>5 DEF Sound, ReceiptsMatchEvents
    <3> QED
      BY <3>1, <3>2
  <2>3. \A f, g \in n.events : f.id = g.id => f = g
    BY <2>1, <1>4, <1>5 DEF Sound, ReceiptsMatchEvents
  <2> QED
    BY <2>2, <2>3 DEF ReceiptsMatchEvents
<1>11. r.expVer # NoVersion => r.expVer = d.ident[r.id].ver
  BY DEF Admissible
<1>12. VersionSpent(n)
  <2> SUFFICES ASSUME NEW l \in Keys, n.receipts[l].status = "committed"
               PROVE  n.ident[n.receipts[l].req.id].ver > n.receipts[l].req.expVer
    BY DEF VersionSpent
  <2>1. CASE l = k
    <3>1. n.receipts[l].req = r
      BY <2>1, <1>1, <1>4 DEF Tables
    <3> QED
      BY <3>1, <1>1, <1>3, <1>7, <1>11 DEF Row, Request, NoVersion
  <2>2. CASE l # k
    <3>1. n.receipts[l] = d.receipts[l] /\ d.receipts[l] \in Receipt
      BY <2>2, <1>1, <1>4 DEF Tables
    <3>2. d.receipts[l].req.id \in Ids /\ d.receipts[l].req.expVer \in Int
      BY <3>1 DEF Receipt, Request
    <3>3. d.ident[d.receipts[l].req.id].ver > d.receipts[l].req.expVer
      BY <3>1 DEF Sound, VersionSpent
    <3>4. d.ident[d.receipts[l].req.id].ver \in Int /\ n.ident[d.receipts[l].req.id].ver \in Int
      BY <1>1, <1>2, <3>2 DEF Tables, Row
    <3> QED
      BY <3>1, <3>2, <3>3, <3>4, <1>6
  <2> QED
    BY <2>1, <2>2
<1>13. OneWinnerPerVersion(n)
  <2>1. ASSUME NEW l \in Keys, l # k, n.receipts[l].status = "committed",
               n.receipts[l].req.id = r.id, n.receipts[l].req.expVer = r.expVer,
               r.expVer # NoVersion
        PROVE  FALSE
    <3>1. n.receipts[l] = d.receipts[l]
      BY <2>1, <1>1, <1>4 DEF Tables
    <3>2. d.ident[r.id].ver > r.expVer
      BY <2>1, <3>1 DEF Sound, VersionSpent
    <3> QED
      BY <3>2, <2>1, <1>3, <1>11 DEF Row
  <2>2. n.receipts[k].req = r
    BY <1>1, <1>4 DEF Tables
  <2>3. \A l \in Keys : l # k => n.receipts[l] = d.receipts[l]
    BY <1>1, <1>4 DEF Tables
  <2> QED
    BY <2>1, <2>2, <2>3 DEF Sound, OneWinnerPerVersion
<1> QED
  BY <1>2, <1>8, <1>9, <1>10, <1>12, <1>13 DEF Sound

(* A no-op is recorded without an event and without moving a version. *)
LEMMA NoOpSound ==
    ASSUME NEW d, Sound(d), NEW k \in Keys, NEW r \in Requests, Unrecorded(d, k)
    PROVE  Sound(NoOpEffect(d, k, r))
<1> DEFINE n == NoOpEffect(d, k, r)
           rcpt == [status |-> "noop", req |-> r, rev |-> d.ident[r.id].rev]
<1>1. d \in Tables /\ r \in Request
  BY StoreAssumption DEF StoreAssumption, Sound
<1>2. n \in Tables
  BY <1>1, NoOpType
<1>3. r.id \in Ids /\ d.ident[r.id] \in Row /\ d.receipts[k].status = "none"
  BY <1>1 DEF Tables, Request, Unrecorded
<1>4. /\ n.ident = [d.ident EXCEPT ![r.id] = NoOpRow(d.ident[r.id])]
      /\ n.refs = d.refs \cup {<<r.id, r.pin>>}
      /\ n.next = d.next
      /\ n.receipts = [d.receipts EXCEPT ![k] = rcpt]
      /\ n.events = d.events
  BY DEF NoOpEffect, Update
<1>5. \A i \in Ids : /\ d.ident[i].admitted => n.ident[i].admitted
                     /\ n.ident[i].ver = d.ident[i].ver
  BY <1>1, <1>3, <1>4 DEF NoOpRow, Tables, Row
<1>6. n.ident[r.id].admitted
  BY <1>1, <1>3, <1>4 DEF NoOpRow, Tables
<1>7. n.receipts[k] = rcpt /\ \A l \in Keys : l # k => n.receipts[l] = d.receipts[l]
  BY <1>1, <1>4 DEF Tables
<1>8. \A l \in Keys : n.receipts[l].status = "committed" =>
         n.receipts[l] = d.receipts[l] /\ d.receipts[l].status = "committed"
  BY <1>7
<1>9. Referential(n)
  <2>1. Resolvable(n, n.refs)
    <3>1. \A ref \in d.refs : n.ident[ref[1]].admitted
      BY <1>1, <1>5 DEF Sound, Referential, Resolvable, Tables, Ref
    <3> QED
      BY <3>1, <1>4, <1>6 DEF Resolvable
  <2>2. \A f \in n.events : n.ident[f.subj].admitted
    BY <1>1, <1>4, <1>5 DEF Sound, Referential, Tables, Event
  <2>3. \A l \in Keys : n.receipts[l].status # "none" => n.ident[n.receipts[l].req.id].admitted
    BY <1>1, <1>7, <1>5, <1>6 DEF Sound, Referential, Tables, Receipt, Request
  <2> QED
    BY <2>1, <2>2, <2>3 DEF Referential
<1>10. GapFree(n)
  BY <1>4 DEF Sound, GapFree
<1>11. ReceiptsMatchEvents(n)
  <2>1. \A f \in n.events : f.id # k
    BY <1>3, <1>4 DEF Sound, ReceiptsMatchEvents
  <2>2. n.receipts[k].status # "committed"
    BY <1>7
  <2> QED
    BY <2>1, <2>2, <1>4, <1>7 DEF Sound, ReceiptsMatchEvents
<1>12. VersionSpent(n)
  BY <1>1, <1>8, <1>5 DEF Sound, VersionSpent, Tables, Receipt, Request
<1>13. OneWinnerPerVersion(n)
  BY <1>8 DEF Sound, OneWinnerPerVersion
<1> QED
  BY <1>2, <1>9, <1>10, <1>11, <1>12, <1>13 DEF Sound

(* Admitting an identity cannot disturb a receipt: a receipt's target is
   already there. *)
LEMMA PutSound ==
    ASSUME NEW d, Sound(d), NEW i \in Ids, NEW row \in Row, row.admitted,
           ~d.ident[i].admitted
    PROVE  Sound(PutEffect(d, i, row))
<1> DEFINE n == PutEffect(d, i, row)
<1>1. d \in Tables /\ n \in Tables
  BY PutType DEF Sound
<1>2. /\ n.ident = [d.ident EXCEPT ![i] = row]
      /\ n.refs = d.refs /\ n.next = d.next
      /\ n.receipts = d.receipts /\ n.events = d.events
  BY DEF PutEffect, Update
<1>3. \A j \in Ids : d.ident[j].admitted => n.ident[j] = d.ident[j]
  BY <1>1, <1>2 DEF Tables
<1>4. Referential(n)
  BY <1>1, <1>2, <1>3 DEF Sound, Referential, Resolvable, Tables, Ref, Event, Receipt, Request
<1>5. GapFree(n) /\ ReceiptsMatchEvents(n) /\ OneWinnerPerVersion(n)
  BY <1>2 DEF Sound, GapFree, ReceiptsMatchEvents, OneWinnerPerVersion
<1>6. VersionSpent(n)
  <2> SUFFICES ASSUME NEW k \in Keys, n.receipts[k].status = "committed"
               PROVE  n.ident[n.receipts[k].req.id].ver > n.receipts[k].req.expVer
    BY DEF VersionSpent
  <2>1. d.receipts[k].req.id \in Ids /\ d.receipts[k].status = "committed"
    BY <1>1, <1>2 DEF Tables, Receipt, Request
  <2>2. d.ident[d.receipts[k].req.id].admitted
    BY <2>1 DEF Sound, Referential
  <2> QED
    BY <2>1, <2>2, <1>2, <1>3 DEF Sound, VersionSpent
<1> QED
  BY <1>1, <1>4, <1>5, <1>6 DEF Sound

LEMMA ReferSound ==
    ASSUME NEW d, Sound(d), NEW i \in Ids, NEW rev \in Int, d.ident[i].admitted
    PROVE  Sound(ReferEffect(d, i, rev))
<1> DEFINE n == ReferEffect(d, i, rev)
<1>1. d \in Tables /\ n \in Tables
  BY ReferType DEF Sound
<1>2. /\ n.ident = d.ident /\ n.refs = d.refs \cup {<<i, rev>>} /\ n.next = d.next
      /\ n.receipts = d.receipts /\ n.events = d.events
  BY DEF ReferEffect, Update
<1> QED
  BY <1>1, <1>2 DEF Sound, Referential, Resolvable, GapFree, ReceiptsMatchEvents,
     OneWinnerPerVersion, VersionSpent

(* revise_identity moves the version on without a receipt. *)
LEMMA ReviseSound ==
    ASSUME NEW d, Sound(d), NEW i \in Ids, NEW pay \in Payloads, d.ident[i].admitted
    PROVE  Sound(ReviseEffect(d, i, pay))
<1> DEFINE n == ReviseEffect(d, i, pay)
           row == RevisedRow(d.ident[i], pay)
           rev == NextRevision(d.ident[i])
<1>1. d \in Tables /\ n \in Tables
  BY ReviseType DEF Sound
<1>2. /\ n.ident = [d.ident EXCEPT ![i] = row]
      /\ n.refs = d.refs \cup {<<i, rev>>} /\ n.next = d.next
      /\ n.receipts = d.receipts /\ n.events = d.events
  BY DEF ReviseEffect, Update
<1>3. \A j \in Ids : /\ d.ident[j].admitted => n.ident[j].admitted
                     /\ n.ident[j].ver \in Nat /\ d.ident[j].ver \in Nat
                     /\ n.ident[j].ver >= d.ident[j].ver
  BY <1>1, <1>2 DEF Tables, Row, RevisedRow
<1>4. Referential(n)
  BY <1>1, <1>2, <1>3 DEF Sound, Referential, Resolvable, Tables, Ref, Event, Receipt, Request
<1>5. GapFree(n) /\ ReceiptsMatchEvents(n) /\ OneWinnerPerVersion(n)
  BY <1>2 DEF Sound, GapFree, ReceiptsMatchEvents, OneWinnerPerVersion
<1>6. VersionSpent(n)
  <2> SUFFICES ASSUME NEW k \in Keys, n.receipts[k].status = "committed"
               PROVE  n.ident[n.receipts[k].req.id].ver > n.receipts[k].req.expVer
    BY DEF VersionSpent
  <2>1. d.receipts[k].req.id \in Ids /\ d.receipts[k].req.expVer \in Int
    BY <1>1, <1>2 DEF Tables, Receipt, Request
  <2>2. d.ident[d.receipts[k].req.id].ver > d.receipts[k].req.expVer
    BY <1>2 DEF Sound, VersionSpent
  <2> QED
    BY <2>1, <2>2, <1>2, <1>3
<1> QED
  BY <1>1, <1>4, <1>5, <1>6 DEF Sound

(* An event appended under a caller's own id is no command's event: the two
   kinds of ids are disjoint. *)
LEMMA AppendSound ==
    ASSUME NEW d, Sound(d), NEW e \in Event, NEW refs \in SUBSET Ref, e.id \in EventIds,
           \A f \in d.events : f.id # e.id,
           e.seq = d.next[e.stream], d.ident[e.subj].admitted, Resolvable(d, refs)
    PROVE  Sound(AppendEffect(d, e, refs))
<1> DEFINE n == AppendEffect(d, e, refs)
<1>1. d \in Tables /\ n \in Tables
  BY AppendType DEF Sound
<1>2. /\ n.ident = d.ident /\ n.refs = d.refs \cup refs
      /\ n.next = [d.next EXCEPT ![e.stream] = e.seq + 1]
      /\ n.receipts = d.receipts /\ n.events = d.events \cup {e}
  BY DEF AppendEffect, Update
<1>3. e.stream \in Streams /\ d.next \in [Streams -> Nat \ {0}] /\ d.events \subseteq Event
  BY <1>1 DEF Event, Tables
<1>4. Referential(n)
  BY <1>2 DEF Sound, Referential, Resolvable
<1>5. GapFree(n)
  <2>1. \A f \in n.events : f.seq \in 1 .. n.next[f.stream] - 1
    BY <1>2, <1>3 DEF Sound, GapFree, Event
  <2>2. \A t \in Streams : \A m \in 1 .. n.next[t] - 1 :
           \E f \in n.events : f.stream = t /\ f.seq = m
    BY <1>2, <1>3 DEF Sound, GapFree
  <2>3. \A f \in d.events : f.stream = e.stream => f.seq # e.seq
    BY <1>3 DEF Sound, GapFree, Event
  <2>4. \A f, g \in n.events : f.stream = g.stream /\ f.seq = g.seq => f = g
    BY <2>3, <1>2 DEF Sound, GapFree
  <2> QED
    BY <2>1, <2>2, <2>4 DEF GapFree
<1>6. ReceiptsMatchEvents(n)
  <2>1. \A k \in Keys : e.id # k
    BY StoreAssumption DEF StoreAssumption
  <2> QED
    BY <2>1, <1>2 DEF Sound, ReceiptsMatchEvents
<1>7. VersionSpent(n) /\ OneWinnerPerVersion(n)
  BY <1>2 DEF Sound, VersionSpent, OneWinnerPerVersion
<1> QED
  BY <1>1, <1>4, <1>5, <1>6, <1>7 DEF Sound

LEMMA RegisterSound ==
    ASSUME NEW d, Sound(d), NEW known \in SUBSET Domains, NEW dom \in Domains
    PROVE  Sound(RegisterEffect(d, known, dom))
<1> DEFINE n == RegisterEffect(d, known, dom)
<1>1. d \in Tables /\ n \in Tables
  BY RegisterType DEF Sound
<1>2. /\ n.ident = d.ident /\ n.refs = d.refs /\ n.next = d.next
      /\ n.receipts = d.receipts /\ n.events = d.events
  BY <1>1 DEF RegisterEffect, Tables
<1> QED
  BY <1>1, <1>2 DEF Sound, Referential, Resolvable, GapFree, ReceiptsMatchEvents,
     OneWinnerPerVersion, VersionSpent

-----------------------------------------------------------------------------
(* The inductive invariant. *)

(* An operation rewrites the working tables only, and leaves them sound. *)
LEMMA OperationSound ==
    ASSUME IInv, NEW t \in Threads, Operation(t)
    PROVE  Writes(t) /\ Sound(work') /\ workDoms' \in SUBSET Domains
<1>1. Sound(work) /\ work \in Tables /\ workDoms \in SUBSET Domains
  BY DEF IInv, SoundLevels, Levels, TypeOK
<1>2. ASSUME NEW k \in Keys, NEW r \in Requests, NEW s \in Streams,
             NEW pin \in ResultPins \cup {NoRevision},
             NEW before \in CallerRefs \cup {{}}, NEW after \in CallerRefs \cup {{}},
             Mutate(t, k, r, s, before, after, pin)
      PROVE  Writes(t) /\ Sound(work') /\ workDoms' \in SUBSET Domains
  <2>1. r \in Request /\ before \in SUBSET Ref /\ after \in SUBSET Ref /\ pin \in Int
    BY StoreAssumption DEF StoreAssumption, Revisions, NoRevision
  <2>2. ResultRevision(work, r, pin) \in Int
    BY <1>1, <2>1 DEF ResultRevision, Tables, Row, Request
  <2> QED
    BY <1>1, <1>2, <2>1, <2>2, CommandSound DEF Mutate
<1>3. ASSUME NEW k \in Keys, NEW r \in Requests, MutateNoOp(t, k, r)
      PROVE  Writes(t) /\ Sound(work') /\ workDoms' \in SUBSET Domains
  BY <1>1, <1>3, NoOpSound DEF MutateNoOp
<1>4. ASSUME NEW i \in Ids, NEW row \in InitialRows, PutIdentity(t, i, row)
      PROVE  Writes(t) /\ Sound(work') /\ workDoms' \in SUBSET Domains
  <2>1. row \in Row /\ row.admitted
    BY StoreAssumption DEF StoreAssumption
  <2> QED
    BY <1>1, <1>4, <2>1, PutSound DEF PutIdentity
<1>5. ASSUME NEW i \in Ids, NEW rev \in ResultPins, PutReference(t, i, rev)
      PROVE  Writes(t) /\ Sound(work') /\ workDoms' \in SUBSET Domains
  <2>1. rev \in Int /\ work.ident[i].admitted
    BY <1>5, StoreAssumption DEF StoreAssumption, Revisions, PutReference, Resolvable
  <2> QED
    BY <1>1, <1>5, <2>1, ReferSound DEF PutReference
<1>6. ASSUME NEW r \in Requests, ReviseIdentity(t, r)
      PROVE  Writes(t) /\ Sound(work') /\ workDoms' \in SUBSET Domains
  <2>1. r.id \in Ids /\ r.pay \in Payloads
    BY StoreAssumption DEF StoreAssumption, Request
  <2> QED
    BY <1>1, <1>6, <2>1, ReviseSound DEF ReviseIdentity
<1>7. ASSUME NEW id \in EventIds, NEW s \in Streams, NEW seq \in Sequences,
             NEW subj \in Ids \X (ResultPins \cup {NoRevision}), NEW refs \in CallerRefs \cup {{}},
             AppendEvent(t, id, s, seq, subj, refs)
      PROVE  Writes(t) /\ Sound(work') /\ workDoms' \in SUBSET Domains
  <2> DEFINE e == [id |-> id, stream |-> s, seq |-> seq, subj |-> subj[1], rev |-> subj[2]]
  <2>1. subj[1] \in Ids /\ subj[2] \in ResultPins \cup {NoRevision}
    OBVIOUS
  <2>2. \A rev \in ResultPins \cup {NoRevision} : rev \in Int
    BY StoreAssumption DEF StoreAssumption, Revisions, NoRevision
  <2>3. refs \in SUBSET Ref
    BY StoreAssumption DEF StoreAssumption
  <2>4. e \in Event
    BY <1>1, <1>7, <2>1, <2>2 DEF AppendEvent, Event, Tables, Revisions
  <2> QED
    BY <1>1, <1>7, <2>1, <2>3, <2>4, AppendSound DEF AppendEvent
<1>8. ASSUME NEW dom \in Domains, RegisterDomain(t, dom)
      PROVE  Writes(t) /\ Sound(work') /\ workDoms' \in SUBSET Domains
  BY <1>1, <1>8, RegisterSound DEF RegisterDomain
<1> QED
  BY <1>2, <1>3, <1>4, <1>5, <1>6, <1>7, <1>8 DEF Operation

LEMMA OperationInductive ==
    ASSUME IInv, NEW t \in Threads, Operation(t)
    PROVE  IInv'
<1>1. Writes(t) /\ Sound(work') /\ workDoms' \in SUBSET Domains
  BY OperationSound
<1>2. UNCHANGED <<committed, holder, saves, memDoms, open, wedged>>
  BY <1>1 DEF Writes
<1>3. TypeOK'
  BY <1>1, <1>2 DEF IInv, TypeOK, Sound
<1>4. SoundLevels'
  BY <1>1, <1>2 DEF IInv, SoundLevels, Levels
<1> QED
  BY <1>3, <1>4 DEF IInv

(* Every boundary of a transaction moves tables from one level to another. *)
LEMMA LevelsMove ==
    ASSUME IInv, TypeOK', Levels' \subseteq Levels
    PROVE  IInv'
BY DEF IInv, SoundLevels

LEMMA Front ==
    ASSUME NEW S, NEW q \in Seq(S), q # <<>>
    PROVE  LET front == SubSeq(q, 1, Len(q) - 1)
           IN  /\ q[Len(q)] \in S /\ Len(q) \in DOMAIN q
               /\ front \in Seq(S)
               /\ \A n \in DOMAIN front : n \in DOMAIN q /\ front[n] = q[n]
<1> DEFINE front == SubSeq(q, 1, Len(q) - 1)
<1>1. Len(q) \in Nat /\ Len(q) # 0 /\ Len(q) \in DOMAIN q /\ q[Len(q)] \in S
  OBVIOUS
<1>2. \A n \in 1 .. Len(q) - 1 : q[n] \in S
  OBVIOUS
<1>3. front \in Seq(S) /\ Len(front) = Len(q) - 1
  OBVIOUS
<1>4. \A n \in 1 .. (Len(q) - 1) - 1 + 1 : front[n] = q[1 + n - 1]
  BY <1>1, <1>2, SubSeqProperties
<1>5. \A n \in DOMAIN front : n \in DOMAIN q /\ front[n] = q[n]
  BY <1>1, <1>3, <1>4
<1> QED
  BY <1>1, <1>3, <1>5

LEMMA PopType ==
    ASSUME TypeOK, saves # <<>>
    PROVE  LET outer == SubSeq(saves, 1, Len(saves) - 1)
           IN  /\ saves[Len(saves)].tables \in Tables
               /\ saves[Len(saves)].doms \in SUBSET Domains
               /\ saves[Len(saves)].tables \in Levels
               /\ outer \in Seq(Saved)
               /\ {outer[n].tables : n \in DOMAIN outer} \subseteq Levels
<1> DEFINE outer == SubSeq(saves, 1, Len(saves) - 1)
<1>1. saves \in Seq(Saved)
  BY DEF TypeOK
<1>2. /\ saves[Len(saves)] \in Saved /\ Len(saves) \in DOMAIN saves
      /\ outer \in Seq(Saved)
      /\ \A n \in DOMAIN outer : n \in DOMAIN saves /\ outer[n] = saves[n]
  BY <1>1, Front
<1> HIDE DEF outer
<1>3. \A n \in DOMAIN outer : outer[n].tables \in Levels
  BY <1>2 DEF Levels
<1>4. saves[Len(saves)].tables \in Levels
  BY <1>2 DEF Levels
<1>5. saves[Len(saves)].tables \in Tables /\ saves[Len(saves)].doms \in SUBSET Domains
  BY <1>2 DEF Saved
<1> QED
  BY <1>2, <1>3, <1>4, <1>5 DEF outer

LEMMA BoundaryInductive ==
    ASSUME IInv, NEW t \in Threads, Boundary(t)
    PROVE  IInv'
<1>1. TypeOK /\ t # NoThread
  BY StoreAssumption DEF StoreAssumption, IInv
<1>2. CASE Begin(t)
  <2>1. TypeOK'
    BY <1>1, <1>2 DEF TypeOK, Begin
  <2>2. Levels' \subseteq Levels
    BY <1>2 DEF Levels, Begin
  <2> QED
    BY <2>1, <2>2, LevelsMove
<1>3. CASE Savepoint(t)
  <2>1. saves \in Seq(Saved) /\ [tables |-> work, doms |-> workDoms] \in Saved
    BY <1>1 DEF TypeOK, Saved
  <2>2. TypeOK'
    BY <1>1, <1>3, <2>1 DEF TypeOK, Savepoint
  <2>3. Levels' \subseteq Levels
    BY <1>3, <2>1 DEF Levels, Savepoint
  <2> QED
    BY <2>2, <2>3, LevelsMove
<1>4. CASE RollbackToSavepoint(t)
  <2>1. TypeOK'
    BY <1>1, <1>4, PopType DEF TypeOK, RollbackToSavepoint
  <2>2. Levels' \subseteq Levels
    BY <1>1, <1>4, PopType DEF Levels, RollbackToSavepoint
  <2> QED
    BY <2>1, <2>2, LevelsMove
<1>5. CASE ReleaseSavepoint(t)
  <2>1. TypeOK'
    BY <1>1, <1>5, PopType DEF TypeOK, ReleaseSavepoint
  <2>2. Levels' \subseteq Levels
    BY <1>1, <1>5, PopType DEF Levels, ReleaseSavepoint
  <2> QED
    BY <2>1, <2>2, LevelsMove
<1>6. CASE Commit(t)
  <2>1. TypeOK'
    BY <1>1, <1>6 DEF TypeOK, Commit
  <2>2. Levels' \subseteq Levels
    BY <1>6 DEF Levels, Commit
  <2> QED
    BY <2>1, <2>2, LevelsMove
<1>7. CASE CommitFails(t)
  <2>1. TypeOK'
    BY <1>1, <1>7 DEF TypeOK, CommitFails
  <2>2. Levels' \subseteq Levels
    BY <1>7 DEF Levels, CommitFails
  <2> QED
    BY <2>1, <2>2, LevelsMove
<1>8. CASE Rollback(t)
  <2>1. TypeOK'
    BY <1>1, <1>8 DEF TypeOK, Rollback
  <2>2. Levels' \subseteq Levels
    BY <1>8 DEF Levels, Rollback
  <2> QED
    BY <2>1, <2>2, LevelsMove
<1> QED
  BY <1>2, <1>3, <1>4, <1>5, <1>6, <1>7, <1>8 DEF Boundary

LEMMA StopOpenInductive ==
    ASSUME IInv, Stop \/ \E expected \in SUBSET Domains : Open(expected)
    PROVE  IInv'
<1>1. TypeOK
  BY DEF IInv
<1>2. CASE Stop
  <2> <<>> \in Seq(Saved) /\ {} \in SUBSET Domains
    OBVIOUS
  <2>1. TypeOK'
    BY <1>1, <1>2 DEF TypeOK, Stop
  <2>2. Levels' \subseteq Levels
    BY <1>2 DEF Levels, Stop
  <2> QED
    BY <2>1, <2>2, LevelsMove
<1>3. ASSUME NEW expected \in SUBSET Domains, Open(expected)
      PROVE  IInv'
  <2>1. TypeOK'
    BY <1>1, <1>3 DEF TypeOK, Open, Tables
  <2>2. Levels' \subseteq Levels
    BY <1>3 DEF Levels, Open
  <2> QED
    BY <2>1, <2>2, LevelsMove
<1> QED
  BY <1>2, <1>3

LEMMA InitInductive == Init => IInv
<1> SUFFICES ASSUME Init PROVE IInv
  OBVIOUS
<1> <<>> \in Seq(Saved) /\ {} \in SUBSET Domains
  OBVIOUS
<1>1. TypeOK
  BY EmptyTablesType DEF Init, TypeOK
<1>2. SoundLevels
  BY EmptyTablesSound DEF Init, SoundLevels, Levels
<1> QED
  BY <1>1, <1>2 DEF IInv

LEMMA NextInductive == IInv /\ [Next]_vars => IInv'
<1> SUFFICES ASSUME IInv, [Next]_vars PROVE IInv'
  OBVIOUS
<1>1. CASE UNCHANGED vars
  BY <1>1 DEF vars, IInv, TypeOK, SoundLevels, Levels
<1>2. CASE Next
  BY <1>2, OperationInductive, BoundaryInductive, StopOpenInductive DEF Next
<1> QED
  BY <1>1, <1>2

LEMMA Invariance == Spec => []IInv
BY InitInductive, NextInductive, PTL DEF Spec

-----------------------------------------------------------------------------
(* The theorems. *)

(* Every variable keeps its type, a transaction runs only in an open store and
   savepoints exist only inside a transaction, whatever the sizes. *)
THEOREM TypeCorrect == Spec => []TypeOK
<1>1. IInv => TypeOK
  BY DEF IInv
<1> QED
  BY <1>1, Invariance, PTL

(* What the foreign keys promise holds at every level of a transaction. *)
THEOREM ReferencesResolve == Spec => []ReferentialIntegrity
<1>1. IInv => ReferentialIntegrity
  BY DEF IInv, SoundLevels, Sound, ReferentialIntegrity
<1> QED
  BY <1>1, Invariance, PTL

(* Streams have neither gaps nor repetitions, for any mixture of commands,
   appended events, savepoints, failed commits and crashes. *)
THEOREM StreamsHaveNoGaps == Spec => []GapFreeStreams
<1>1. IInv => GapFreeStreams
  BY DEF IInv, SoundLevels, Sound, GapFreeStreams
<1> QED
  BY <1>1, Invariance, PTL

(* Receipts and events tell the same story, at every level. *)
THEOREM ReceiptsAndEventsAgree == Spec => []ReceiptEventAgreement
<1>1. IInv => ReceiptEventAgreement
  BY DEF IInv, SoundLevels, Sound, ReceiptEventAgreement
<1> QED
  BY <1>1, Invariance, PTL

(* The compare-and-swap on versions has one winner per expected version. *)
THEOREM VersionCASHasOneWinner == Spec => []VersionCAS
<1>1. IInv => VersionCAS
  BY DEF IInv, SoundLevels, Sound, VersionCAS
<1> QED
  BY <1>1, Invariance, PTL

-----------------------------------------------------------------------------
(* Descriptors.  Only register_domain touches them, and it is called inside a
   transaction, where the copy in memory is that of the working tables. *)

LEMMA OperationMirrors ==
    ASSUME TypeOK, DescriptorsMirrorTables, NEW t \in Threads, Operation(t)
    PROVE  Writes(t) /\ work'.digest = work'.doms /\ workDoms' = work'.doms
<1>1. work \in Tables /\ work.digest = work.doms
  BY DEF TypeOK, DescriptorsMirrorTables, Levels
<1>2. Writes(t) /\ holder = t /\ t # NoThread
  BY StoreAssumption DEF StoreAssumption, Operation, Mutate, MutateNoOp, PutIdentity,
     PutReference, ReviseIdentity, AppendEvent, RegisterDomain, Writes
<1>3. workDoms = work.doms
  BY <1>2 DEF DescriptorsMirrorTables
<1>4. CASE UNCHANGED workDoms /\ work'.doms = work.doms /\ work'.digest = work.digest
  BY <1>1, <1>2, <1>3, <1>4
<1>5. CASE \E dom \in Domains : RegisterDomain(t, dom)
  <2>1. PICK dom \in Domains : /\ work' = RegisterEffect(work, workDoms, dom)
                               /\ workDoms' = workDoms \cup {dom}
    BY <1>5 DEF RegisterDomain
  <2>2. work'.doms = work.doms \cup {dom} /\ work'.digest = workDoms \cup {dom}
    BY <1>1, <2>1 DEF RegisterEffect, Tables
  <2> QED
    BY <1>2, <1>3, <2>1, <2>2
<1>6. CASE ~\E dom \in Domains : RegisterDomain(t, dom)
  <2>1. /\ UNCHANGED workDoms
        /\ \/ \E k, r, s, before, after, rev :
                work' = CommandEffect(work, k, r, s, before, after, rev)
           \/ \E k, r : work' = NoOpEffect(work, k, r)
           \/ \E i, row : work' = PutEffect(work, i, row)
           \/ \E i, rev : work' = ReferEffect(work, i, rev)
           \/ \E i, pay : work' = ReviseEffect(work, i, pay)
           \/ \E e, refs : work' = AppendEffect(work, e, refs)
    BY <1>6 DEF Operation, Mutate, MutateNoOp, PutIdentity, PutReference, ReviseIdentity,
       AppendEvent
  <2>2. work'.doms = work.doms /\ work'.digest = work.digest
    BY <2>1 DEF Update, CommandEffect, NoOpEffect, PutEffect, ReferEffect, ReviseEffect,
       AppendEffect
  <2> QED
    BY <1>4, <2>1, <2>2
<1> QED
  BY <1>5, <1>6

LEMMA DescriptorsInductive ==
    ASSUME TypeOK, DescriptorsMirrorTables, [Next]_vars
    PROVE  DescriptorsMirrorTables'
<1>1. CASE UNCHANGED vars
  BY <1>1 DEF vars, DescriptorsMirrorTables, Levels
<1>2. ASSUME NEW t \in Threads, Operation(t)
      PROVE  DescriptorsMirrorTables'
  BY <1>2, OperationMirrors DEF DescriptorsMirrorTables, Levels, Writes
<1>3. ASSUME NEW t \in Threads, Boundary(t)
      PROVE  DescriptorsMirrorTables'
  <2>1. t # NoThread
    BY StoreAssumption DEF StoreAssumption
  <2>2. CASE Begin(t)
    BY <2>2 DEF Begin, DescriptorsMirrorTables, Levels
  <2>3. CASE Savepoint(t)
    <3>1. saves \in Seq(Saved) /\ [tables |-> work, doms |-> workDoms] \in Saved
      BY DEF TypeOK, Saved
    <3>2. \A n \in DOMAIN saves' :
              \/ n \in DOMAIN saves /\ saves'[n] = saves[n]
              \/ saves'[n] = [tables |-> work, doms |-> workDoms]
      BY <2>3, <3>1 DEF Savepoint
    <3> QED
      BY <2>1, <2>3, <3>2 DEF Savepoint, DescriptorsMirrorTables, Levels
  <2>4. CASE RollbackToSavepoint(t) \/ ReleaseSavepoint(t)
    <3>1. saves \in Seq(Saved) /\ saves # <<>> /\ saves' = SubSeq(saves, 1, Len(saves) - 1)
      BY <2>4 DEF TypeOK, RollbackToSavepoint, ReleaseSavepoint
    <3>2. /\ Len(saves) \in DOMAIN saves
          /\ \A n \in DOMAIN saves' : n \in DOMAIN saves /\ saves'[n] = saves[n]
      BY <3>1, Front
    <3> QED
      BY <2>4, <3>2 DEF RollbackToSavepoint, ReleaseSavepoint, DescriptorsMirrorTables, Levels
  <2>5. CASE Commit(t) \/ CommitFails(t) \/ Rollback(t)
    BY <2>1, <2>5 DEF Commit, CommitFails, Rollback, DescriptorsMirrorTables, Levels
  <2> QED
    BY <1>3, <2>2, <2>3, <2>4, <2>5 DEF Boundary
<1>4. CASE Stop
  BY <1>4 DEF Stop, DescriptorsMirrorTables, Levels
<1>5. ASSUME NEW expected \in SUBSET Domains, Open(expected)
      PROVE  DescriptorsMirrorTables'
  BY <1>5 DEF Open, DescriptorsMirrorTables, Levels, TypeOK
<1> QED
  BY <1>1, <1>2, <1>3, <1>4, <1>5 DEF Next

-----------------------------------------------------------------------------
(* Layers.  Every operation makes more history of the working tables, and a
   version moves with every command that commits. *)

Advances(a, b) ==
    /\ \A i \in Ids : b.ident[i].ver >= a.ident[i].ver
    /\ \A k \in Keys :
          a.receipts[k].status = "none" /\ b.receipts[k].status = "committed"
          => b.ident[b.receipts[k].req.id].ver > a.ident[b.receipts[k].req.id].ver

Ahead(a, b) == Extends(a, b) /\ Advances(a, b)

(* An identity that is not there has version 0. *)
Grounded(d) == \A i \in Ids : ~d.ident[i].admitted => d.ident[i].ver = 0

LayersInv ==
    /\ \A d \in Levels : Grounded(d)
    /\ Ahead(committed, work)
    /\ \A n \in DOMAIN saves : /\ Ahead(committed, saves[n].tables)
                               /\ Ahead(saves[n].tables, work)
    /\ \A m, n \in DOMAIN saves : m < n => Ahead(saves[m].tables, saves[n].tables)

LEMMA TablesParts ==
    ASSUME NEW d \in Tables
    PROVE  /\ \A i \in Ids : /\ d.ident[i] \in Row /\ d.ident[i].ver \in Nat
                             /\ d.ident[i].admitted \in BOOLEAN
           /\ d.next \in [Streams -> Nat \ {0}] /\ \A s \in Streams : d.next[s] \in Nat
           /\ \A k \in Keys : d.receipts[k] \in Receipt /\ d.receipts[k].req.id \in Ids
           /\ \A e \in d.events : e.stream \in Streams /\ e.seq \in Nat /\ e.subj \in Ids
           /\ d.doms \subseteq Domains /\ d.refs \subseteq Ref /\ d.events \subseteq Event
BY DEF Tables, Row, Receipt, Request, Event

LEMMA AheadOfItself == ASSUME NEW d \in Tables PROVE Ahead(d, d)
BY TablesParts DEF Ahead, Extends, Advances

LEMMA AheadTransitive ==
    ASSUME NEW a \in Tables, NEW b \in Tables, NEW c \in Tables, Referential(b),
           Ahead(a, b), Ahead(b, c)
    PROVE  Ahead(a, c)
<1>1. \A i \in Ids : a.ident[i].ver \in Nat /\ b.ident[i].ver \in Nat /\ c.ident[i].ver \in Nat
  BY TablesParts
<1>2. \A s \in Streams : a.next[s] \in Nat /\ b.next[s] \in Nat /\ c.next[s] \in Nat
  BY TablesParts
<1>3. \A i \in Ids : a.ident[i].admitted =>
          /\ c.ident[i].admitted
          /\ c.ident[i].ver >= a.ident[i].ver
          /\ c.ident[i].ver = a.ident[i].ver => c.ident[i] = a.ident[i]
  BY <1>1 DEF Ahead, Extends
<1>4. \A k \in Keys : a.receipts[k].status # "none" => c.receipts[k] = a.receipts[k]
  BY DEF Ahead, Extends
<1>5. /\ a.refs \subseteq c.refs /\ a.events \subseteq c.events /\ a.doms \subseteq c.doms
      /\ \A s \in Streams : c.next[s] >= a.next[s]
  BY <1>2 DEF Ahead, Extends
<1>6. \A e \in c.events \ a.events : e.seq >= a.next[e.stream]
  <2> SUFFICES ASSUME NEW e \in c.events, e \notin a.events PROVE e.seq >= a.next[e.stream]
    OBVIOUS
  <2>1. e.stream \in Streams /\ e.seq \in Nat
    BY TablesParts
  <2>2. CASE e \in b.events
    BY <2>2 DEF Ahead, Extends
  <2>3. CASE e \notin b.events
    BY <1>2, <2>1, <2>3 DEF Ahead, Extends
  <2> QED
    BY <2>2, <2>3
<1>7. Advances(a, c)
  <2>1. \A i \in Ids : c.ident[i].ver >= a.ident[i].ver
    BY <1>1 DEF Ahead, Advances
  <2>2. ASSUME NEW k \in Keys, a.receipts[k].status = "none", c.receipts[k].status = "committed"
        PROVE  c.ident[c.receipts[k].req.id].ver > a.ident[c.receipts[k].req.id].ver
    <3>1. c.receipts[k].req.id \in Ids
      BY TablesParts
    <3>2. CASE b.receipts[k].status = "none"
      BY <1>1, <2>2, <3>1, <3>2 DEF Ahead, Advances
    <3>3. CASE b.receipts[k].status # "none"
      <4>1. c.receipts[k] = b.receipts[k]
        BY <3>3 DEF Ahead, Extends
      <4> QED
        BY <1>1, <2>2, <3>1, <4>1 DEF Ahead, Advances
    <3> QED
      BY <3>2, <3>3
  <2> QED
    BY <2>1, <2>2 DEF Advances
<1> QED
  BY <1>3, <1>4, <1>5, <1>6, <1>7 DEF Ahead, Extends

(* Operations that leave the receipts, the events and the sequences alone. *)
LEMMA RowsAhead ==
    ASSUME NEW d \in Tables, NEW n \in Tables, Grounded(d), NEW i \in Ids,
           n.next = d.next, n.receipts = d.receipts, n.events = d.events,
           d.refs \subseteq n.refs, d.doms \subseteq n.doms,
           \A j \in Ids \ {i} : n.ident[j] = d.ident[j],
           \/ n.ident[i] = d.ident[i]
           \/ ~d.ident[i].admitted /\ n.ident[i].admitted
           \/ n.ident[i].admitted /\ n.ident[i].ver > d.ident[i].ver
    PROVE  Ahead(d, n) /\ Grounded(n)
<1>1. \A j \in Ids : d.ident[j].ver \in Nat /\ n.ident[j].ver \in Nat
  BY TablesParts
<1>2. \A s \in Streams : d.next[s] \in Nat
  BY TablesParts
<1>3. \A j \in Ids : n.ident[j].ver >= d.ident[j].ver
  BY <1>1 DEF Grounded
<1>4. Extends(d, n)
  BY <1>1, <1>2 DEF Extends
<1>5. Advances(d, n)
  BY <1>3 DEF Advances
<1>6. Grounded(n)
  BY <1>1 DEF Grounded
<1> QED
  BY <1>4, <1>5, <1>6 DEF Ahead

LEMMA CommandAhead ==
    ASSUME NEW d, Sound(d), Grounded(d), NEW k \in Keys, NEW r \in Requests, NEW s \in Streams,
           NEW before \in SUBSET Ref, NEW after \in SUBSET Ref, NEW rev \in Int, Unrecorded(d, k)
    PROVE  LET n == CommandEffect(d, k, r, s, before, after, rev)
           IN  Ahead(d, n) /\ Grounded(n)
<1> DEFINE n == CommandEffect(d, k, r, s, before, after, rev)
           e == CommandEvent(d, k, r, s, rev)
           row == CommittedRow(d.ident[r.id], r, rev)
           rcpt == [status |-> "committed", req |-> r, rev |-> rev]
<1>1. d \in Tables /\ r \in Request /\ r.id \in Ids
  BY StoreAssumption DEF StoreAssumption, Sound, Request
<1>2. n \in Tables
  BY <1>1, CommandType
<1>3. /\ n.ident = [d.ident EXCEPT ![r.id] = row]
      /\ n.refs = d.refs \cup References(d, r, before, after, rev)
      /\ n.next = [d.next EXCEPT ![s] = d.next[s] + 1]
      /\ n.receipts = [d.receipts EXCEPT ![k] = rcpt]
      /\ n.events = d.events \cup {e} /\ n.doms = d.doms
  BY DEF CommandEffect, Update
<1>4. row.admitted /\ row.ver = d.ident[r.id].ver + 1
  BY DEF CommittedRow
<1>5. e.stream = s /\ e.seq = d.next[s]
  BY DEF CommandEvent
<1>6. rcpt.req = r
  OBVIOUS
<1> HIDE DEF n, e, row, rcpt
<1>7. /\ n.ident[r.id] = row /\ \A i \in Ids \ {r.id} : n.ident[i] = d.ident[i]
      /\ n.receipts[k] = rcpt /\ \A l \in Keys \ {k} : n.receipts[l] = d.receipts[l]
      /\ n.next[s] = d.next[s] + 1 /\ \A t \in Streams \ {s} : n.next[t] = d.next[t]
  BY <1>1, <1>3 DEF Tables
<1>8. /\ \A i \in Ids : d.ident[i].ver \in Nat
      /\ \A t \in Streams : d.next[t] \in Nat
      /\ d.receipts[k].status = "none"
  BY <1>1, TablesParts DEF Unrecorded
<1>9. \A i \in Ids : n.ident[i].ver >= d.ident[i].ver
  BY <1>1, <1>4, <1>7, <1>8
<1>10. \A i \in Ids : d.ident[i].admitted =>
          /\ n.ident[i].admitted
          /\ n.ident[i].ver >= d.ident[i].ver
          /\ n.ident[i].ver = d.ident[i].ver => n.ident[i] = d.ident[i]
  BY <1>1, <1>4, <1>7, <1>8
<1>11. \A l \in Keys : d.receipts[l].status # "none" => n.receipts[l] = d.receipts[l]
  BY <1>7, <1>8
<1>12. \A f \in n.events \ d.events : f.seq >= d.next[f.stream]
  BY <1>3, <1>5, <1>8
<1>13. \A t \in Streams : n.next[t] >= d.next[t]
  BY <1>7, <1>8
<1>14. Extends(d, n)
  BY <1>3, <1>10, <1>11, <1>12, <1>13 DEF Extends
<1>15. Advances(d, n)
  BY <1>1, <1>4, <1>6, <1>7, <1>8, <1>9 DEF Advances
<1>16. Grounded(n)
  BY <1>4, <1>7 DEF Grounded
<1> QED
  BY <1>14, <1>15, <1>16 DEF Ahead, n

LEMMA NoOpAhead ==
    ASSUME NEW d, Sound(d), Grounded(d), NEW k \in Keys, NEW r \in Requests, Unrecorded(d, k)
    PROVE  Ahead(d, NoOpEffect(d, k, r)) /\ Grounded(NoOpEffect(d, k, r))
<1> DEFINE n == NoOpEffect(d, k, r)
           row == NoOpRow(d.ident[r.id])
           rcpt == [status |-> "noop", req |-> r, rev |-> d.ident[r.id].rev]
<1>1. d \in Tables /\ r \in Request /\ r.id \in Ids /\ d.ident[r.id] \in Row
  BY StoreAssumption, TablesParts DEF StoreAssumption, Sound, Request
<1>2. n \in Tables
  BY <1>1, NoOpType
<1>3. /\ n.ident = [d.ident EXCEPT ![r.id] = row]
      /\ n.refs = d.refs \cup {<<r.id, r.pin>>} /\ n.next = d.next
      /\ n.receipts = [d.receipts EXCEPT ![k] = rcpt]
      /\ n.events = d.events /\ n.doms = d.doms
  BY DEF NoOpEffect, Update
<1>4. /\ row.admitted /\ row.ver = d.ident[r.id].ver
      /\ d.ident[r.id].admitted => row = d.ident[r.id]
  BY <1>1 DEF NoOpRow, Row
<1>5. rcpt.status = "noop"
  OBVIOUS
<1> HIDE DEF n, row, rcpt
<1>6. /\ n.ident[r.id] = row /\ \A i \in Ids \ {r.id} : n.ident[i] = d.ident[i]
      /\ n.receipts[k] = rcpt /\ \A l \in Keys \ {k} : n.receipts[l] = d.receipts[l]
  BY <1>1, <1>3 DEF Tables
<1>7. /\ \A i \in Ids : d.ident[i].ver \in Nat
      /\ \A t \in Streams : d.next[t] \in Nat
      /\ d.receipts[k].status = "none"
  BY <1>1, TablesParts DEF Unrecorded
<1>8. \A i \in Ids : n.ident[i].ver = d.ident[i].ver /\ (d.ident[i].admitted => n.ident[i] = d.ident[i])
  BY <1>1, <1>4, <1>6
<1>9. \A l \in Keys : d.receipts[l].status # "none" => n.receipts[l] = d.receipts[l]
  BY <1>6, <1>7
<1>10. Extends(d, n)
  BY <1>3, <1>7, <1>8, <1>9 DEF Extends
<1>11. \A l \in Keys : ~(d.receipts[l].status = "none" /\ n.receipts[l].status = "committed")
  BY <1>5, <1>6
<1>12. Advances(d, n)
  BY <1>7, <1>8, <1>11 DEF Advances
<1>13. Grounded(n)
  BY <1>1, <1>4, <1>6 DEF Grounded
<1> QED
  BY <1>10, <1>12, <1>13 DEF Ahead, n

LEMMA AppendAhead ==
    ASSUME NEW d \in Tables, Grounded(d), NEW e \in Event, NEW refs \in SUBSET Ref,
           e.seq = d.next[e.stream]
    PROVE  Ahead(d, AppendEffect(d, e, refs)) /\ Grounded(AppendEffect(d, e, refs))
<1> DEFINE n == AppendEffect(d, e, refs)
<1>1. /\ n.ident = d.ident /\ n.refs = d.refs \cup refs /\ n.receipts = d.receipts
      /\ n.next = [d.next EXCEPT ![e.stream] = e.seq + 1]
      /\ n.events = d.events \cup {e} /\ n.doms = d.doms
  BY DEF AppendEffect, Update
<1> HIDE DEF n
<1>2. \A i \in Ids : d.ident[i].ver \in Nat
  BY TablesParts
<1>3. e.stream \in Streams /\ d.next \in [Streams -> Nat \ {0}]
  BY DEF Event, Tables
<1>4. \A s \in Streams : n.next[s] >= d.next[s]
  BY <1>1, <1>3
<1>5. \A f \in n.events \ d.events : f.seq >= d.next[f.stream]
  BY <1>1, <1>3
<1>6. Extends(d, n)
  BY <1>1, <1>2, <1>4, <1>5 DEF Extends
<1>7. Advances(d, n) /\ Grounded(n)
  BY <1>1, <1>2 DEF Advances, Grounded
<1> QED
  BY <1>6, <1>7 DEF Ahead, n

LEMMA PutAhead ==
    ASSUME NEW d \in Tables, Grounded(d), NEW i \in Ids, NEW row \in Row, row.admitted,
           ~d.ident[i].admitted
    PROVE  Ahead(d, PutEffect(d, i, row)) /\ Grounded(PutEffect(d, i, row))
<1> DEFINE n == PutEffect(d, i, row)
<1>1. /\ n.ident = [d.ident EXCEPT ![i] = row] /\ n.refs = d.refs /\ n.next = d.next
      /\ n.receipts = d.receipts /\ n.events = d.events /\ n.doms = d.doms
  BY DEF PutEffect, Update
<1>2. n \in Tables
  BY PutType
<1> HIDE DEF n
<1>3. n.ident[i] = row /\ \A j \in Ids \ {i} : n.ident[j] = d.ident[j]
  BY <1>1 DEF Tables
<1> QED
  BY <1>1, <1>2, <1>3, RowsAhead DEF n

LEMMA ReferAhead ==
    ASSUME NEW d \in Tables, Grounded(d), NEW i \in Ids, NEW rev \in Int
    PROVE  Ahead(d, ReferEffect(d, i, rev)) /\ Grounded(ReferEffect(d, i, rev))
<1> DEFINE n == ReferEffect(d, i, rev)
<1>1. /\ n.ident = d.ident /\ d.refs \subseteq n.refs /\ n.next = d.next
      /\ n.receipts = d.receipts /\ n.events = d.events /\ n.doms = d.doms
  BY DEF ReferEffect, Update
<1>2. n \in Tables
  BY ReferType
<1> HIDE DEF n
<1> QED
  BY <1>1, <1>2, RowsAhead DEF n

LEMMA ReviseAhead ==
    ASSUME NEW d \in Tables, Grounded(d), NEW i \in Ids, NEW pay \in Payloads,
           d.ident[i].admitted
    PROVE  Ahead(d, ReviseEffect(d, i, pay)) /\ Grounded(ReviseEffect(d, i, pay))
<1> DEFINE n == ReviseEffect(d, i, pay)
           row == RevisedRow(d.ident[i], pay)
<1>1. /\ n.ident = [d.ident EXCEPT ![i] = row] /\ d.refs \subseteq n.refs /\ n.next = d.next
      /\ n.receipts = d.receipts /\ n.events = d.events /\ n.doms = d.doms
  BY DEF ReviseEffect, Update
<1>2. row.admitted /\ row.ver = d.ident[i].ver + 1 /\ d.ident[i].ver \in Nat
  BY TablesParts DEF RevisedRow
<1>3. n \in Tables
  BY ReviseType
<1> HIDE DEF n, row
<1>4. n.ident[i] = row /\ \A j \in Ids \ {i} : n.ident[j] = d.ident[j]
  BY <1>1 DEF Tables
<1>5. n.ident[i].admitted /\ n.ident[i].ver > d.ident[i].ver
  BY <1>2, <1>4
<1> QED
  BY <1>1, <1>3, <1>4, <1>5, RowsAhead DEF n

LEMMA RegisterAhead ==
    ASSUME NEW d \in Tables, Grounded(d), NEW i \in Ids, NEW known \in SUBSET Domains,
           NEW dom \in Domains
    PROVE  Ahead(d, RegisterEffect(d, known, dom)) /\ Grounded(RegisterEffect(d, known, dom))
<1> DEFINE n == RegisterEffect(d, known, dom)
<1>1. /\ n.ident = d.ident /\ n.refs = d.refs /\ n.next = d.next
      /\ n.receipts = d.receipts /\ n.events = d.events /\ d.doms \subseteq n.doms
  BY DEF RegisterEffect, Tables
<1>2. n \in Tables
  BY RegisterType
<1> HIDE DEF n
<1> QED
  BY <1>1, <1>2, RowsAhead DEF n

LEMMA OperationAhead ==
    ASSUME IInv, Grounded(work), NEW t \in Threads, Operation(t)
    PROVE  Ahead(work, work') /\ Grounded(work')
<1>1. Sound(work) /\ work \in Tables /\ workDoms \in SUBSET Domains
  BY DEF IInv, SoundLevels, Levels, TypeOK
<1>2. ASSUME NEW k \in Keys, NEW r \in Requests, NEW s \in Streams,
             NEW pin \in ResultPins \cup {NoRevision},
             NEW before \in CallerRefs \cup {{}}, NEW after \in CallerRefs \cup {{}},
             Mutate(t, k, r, s, before, after, pin)
      PROVE  Ahead(work, work') /\ Grounded(work')
  <2>1. r \in Request /\ before \in SUBSET Ref /\ after \in SUBSET Ref /\ pin \in Int
    BY StoreAssumption DEF StoreAssumption, Revisions, NoRevision
  <2>2. ResultRevision(work, r, pin) \in Int
    BY <1>1, <2>1 DEF ResultRevision, Tables, Row, Request
  <2> QED
    BY <1>1, <1>2, <2>1, <2>2, CommandAhead DEF Mutate
<1>3. ASSUME NEW k \in Keys, NEW r \in Requests, MutateNoOp(t, k, r)
      PROVE  Ahead(work, work') /\ Grounded(work')
  BY <1>1, <1>3, NoOpAhead DEF MutateNoOp
<1>4. ASSUME NEW i \in Ids, NEW row \in InitialRows, PutIdentity(t, i, row)
      PROVE  Ahead(work, work') /\ Grounded(work')
  <2>1. row \in Row /\ row.admitted
    BY StoreAssumption DEF StoreAssumption
  <2> QED
    BY <1>1, <1>4, <2>1, PutAhead DEF PutIdentity
<1>5. ASSUME NEW i \in Ids, NEW rev \in ResultPins, PutReference(t, i, rev)
      PROVE  Ahead(work, work') /\ Grounded(work')
  <2>1. rev \in Int
    BY StoreAssumption DEF StoreAssumption, Revisions
  <2> QED
    BY <1>1, <1>5, <2>1, ReferAhead DEF PutReference
<1>6. ASSUME NEW r \in Requests, ReviseIdentity(t, r)
      PROVE  Ahead(work, work') /\ Grounded(work')
  <2>1. r.id \in Ids /\ r.pay \in Payloads
    BY StoreAssumption DEF StoreAssumption, Request
  <2> QED
    BY <1>1, <1>6, <2>1, ReviseAhead DEF ReviseIdentity
<1>7. ASSUME NEW id \in EventIds, NEW s \in Streams, NEW seq \in Sequences,
             NEW subj \in Ids \X (ResultPins \cup {NoRevision}), NEW refs \in CallerRefs \cup {{}},
             AppendEvent(t, id, s, seq, subj, refs)
      PROVE  Ahead(work, work') /\ Grounded(work')
  <2> DEFINE e == [id |-> id, stream |-> s, seq |-> seq, subj |-> subj[1], rev |-> subj[2]]
  <2>1. subj[1] \in Ids /\ subj[2] \in ResultPins \cup {NoRevision}
    OBVIOUS
  <2>2. \A rev \in ResultPins \cup {NoRevision} : rev \in Int
    BY StoreAssumption DEF StoreAssumption, Revisions, NoRevision
  <2>3. refs \in SUBSET Ref
    BY StoreAssumption DEF StoreAssumption
  <2>4. e \in Event
    BY <1>1, <1>7, <2>1, <2>2 DEF AppendEvent, Event, Tables, Revisions
  <2> QED
    BY <1>1, <1>7, <2>3, <2>4, AppendAhead DEF AppendEvent
<1>8. ASSUME NEW dom \in Domains, RegisterDomain(t, dom)
      PROVE  Ahead(work, work') /\ Grounded(work')
  <2>1. PICK i : i \in Ids
    BY StoreAssumption DEF StoreAssumption
  <2> QED
    BY <1>1, <1>8, <2>1, RegisterAhead DEF RegisterDomain
<1> QED
  BY <1>2, <1>3, <1>4, <1>5, <1>6, <1>7, <1>8 DEF Operation

(* An operation only makes the working tables longer: they stay ahead of
   everything they were ahead of. *)
LEMMA OperationKeepsLayers ==
    ASSUME IInv, LayersInv, NEW t \in Threads, Operation(t)
    PROVE  LayersInv'
<1>1. Ahead(work, work') /\ Grounded(work')
  BY OperationAhead DEF LayersInv, Levels
<1>2. UNCHANGED <<committed, saves>> /\ work' \in Tables
  BY OperationSound DEF Writes, Sound
<1>3. work \in Tables /\ Referential(work) /\ committed \in Tables
  BY DEF IInv, SoundLevels, Levels, Sound
<1>4. \A n \in DOMAIN saves : saves[n].tables \in Tables
  BY DEF IInv, SoundLevels, Levels, Sound
<1>5. \A a \in Tables : Ahead(a, work) => Ahead(a, work')
  BY <1>1, <1>2, <1>3, AheadTransitive
<1>6. Ahead(committed, work')
  BY <1>3, <1>5 DEF LayersInv
<1>7. \A n \in DOMAIN saves : Ahead(saves[n].tables, work')
  BY <1>4, <1>5 DEF LayersInv
<1> QED
  BY <1>1, <1>2, <1>6, <1>7 DEF LayersInv, Levels

LEMMA BoundaryKeepsLayers ==
    ASSUME IInv, LayersInv, NEW t \in Threads, Boundary(t)
    PROVE  LayersInv'
<1>1. committed \in Tables /\ work \in Tables /\ saves \in Seq(Saved)
  BY DEF IInv, TypeOK
<1>2. Ahead(committed, committed) /\ Ahead(work, work)
  BY <1>1, AheadOfItself
<1>3. CASE Begin(t)
  BY <1>2, <1>3 DEF Begin, LayersInv, Levels
<1>4. CASE Savepoint(t)
  <2> DEFINE top == [tables |-> work, doms |-> workDoms]
  <2>1. top \in Saved /\ top.tables = work
    BY <1>1 DEF IInv, TypeOK, Saved
  <2> HIDE DEF top
  <2>2. /\ saves' = Append(saves, top) /\ UNCHANGED <<committed, work>>
        /\ DOMAIN saves' = 1 .. Len(saves) + 1
        /\ saves'[Len(saves) + 1] = top
        /\ \A n \in DOMAIN saves : saves'[n] = saves[n]
    BY <1>1, <1>4, <2>1 DEF Savepoint, top
  <2>3. DOMAIN saves = 1 .. Len(saves) /\ Len(saves) \in Nat
    BY <1>1
  <2>4. Levels' \subseteq Levels
    BY <2>1, <2>2, <2>3 DEF Levels
  <2>5. \A n \in DOMAIN saves' : Ahead(committed, saves'[n].tables) /\ Ahead(saves'[n].tables, work)
    BY <1>2, <2>1, <2>2, <2>3 DEF LayersInv
  <2>6. ASSUME NEW m \in DOMAIN saves', NEW n \in DOMAIN saves', m < n
        PROVE  Ahead(saves'[m].tables, saves'[n].tables)
    <3>1. m \in DOMAIN saves /\ n \in 1 .. Len(saves) + 1 /\ m \in Int
      BY <2>2, <2>3, <2>6
    <3>2. CASE n \in DOMAIN saves
      BY <2>2, <2>6, <3>1, <3>2 DEF LayersInv
    <3>3. CASE n = Len(saves) + 1
      BY <2>1, <2>2, <3>1, <3>3 DEF LayersInv
    <3> QED
      BY <2>2, <2>3, <3>2, <3>3
  <2> QED
    BY <2>2, <2>4, <2>5, <2>6 DEF LayersInv
<1>5. CASE RollbackToSavepoint(t) \/ ReleaseSavepoint(t)
  <2>1. saves # <<>> /\ saves' = SubSeq(saves, 1, Len(saves) - 1) /\ UNCHANGED committed
    BY <1>5 DEF RollbackToSavepoint, ReleaseSavepoint
  <2>2. /\ Len(saves) \in DOMAIN saves /\ DOMAIN saves = 1 .. Len(saves) /\ Len(saves) \in Nat
        /\ \A n \in DOMAIN saves' : n \in DOMAIN saves /\ saves'[n] = saves[n]
    BY <1>1, <2>1, Front
  <2>3. DOMAIN saves' = 1 .. Len(saves) - 1
    BY <1>1, <2>1
  <2>4. work' = work \/ work' = saves[Len(saves)].tables
    BY <1>5 DEF RollbackToSavepoint, ReleaseSavepoint
  <2>5. work' \in Levels /\ Ahead(committed, work')
    BY <2>2, <2>4 DEF LayersInv, Levels
  <2>6. \A n \in DOMAIN saves' : Ahead(saves[n].tables, work')
    BY <2>2, <2>3, <2>4 DEF LayersInv
  <2>7. Levels' \subseteq Levels
    BY <2>1, <2>2, <2>5 DEF Levels
  <2> QED
    BY <2>1, <2>2, <2>5, <2>6, <2>7 DEF LayersInv
<1>6. CASE Commit(t) \/ CommitFails(t) \/ Rollback(t)
  BY <1>2, <1>6 DEF Commit, CommitFails, Rollback, LayersInv, Levels
<1> QED
  BY <1>3, <1>4, <1>5, <1>6 DEF Boundary

LEMMA LayersInductive == IInv /\ LayersInv /\ [Next]_vars => LayersInv'
<1> SUFFICES ASSUME IInv, LayersInv, [Next]_vars PROVE LayersInv'
  OBVIOUS
<1>1. CASE UNCHANGED vars
  BY <1>1 DEF vars, LayersInv, Levels
<1>2. CASE Stop
  <2>1. Ahead(committed, committed)
    BY AheadOfItself DEF IInv, TypeOK
  <2> QED
    BY <1>2, <2>1 DEF Stop, LayersInv, Levels
<1>3. ASSUME NEW expected \in SUBSET Domains, Open(expected)
      PROVE  LayersInv'
  BY <1>3 DEF Open, LayersInv, Levels
<1> QED
  BY <1>1, <1>2, <1>3, OperationKeepsLayers, BoundaryKeepsLayers DEF Next

LEMMA LayersInitially == Init => LayersInv
<1> SUFFICES ASSUME Init PROVE LayersInv
  OBVIOUS
<1>1. Ahead(EmptyTables, EmptyTables)
  BY EmptyTablesType, AheadOfItself
<1>2. Grounded(EmptyTables)
  BY DEF Grounded, EmptyTables, AbsentRow
<1> QED
  BY <1>1, <1>2 DEF Init, LayersInv, Levels

LEMMA LayersInvariance == Spec => []LayersInv
BY Invariance, LayersInitially, LayersInductive, PTL DEF Spec

(* The descriptors in memory are those of the tables they stand for, and the
   stored digest is theirs at every level: a savepoint, a failed commit, a
   rollback or a crash never leaves one behind the other, so the next open
   finds a composition that agrees. *)
THEOREM DescriptorsStayMirrored == Spec => []DescriptorsMirrorTables
<1>1. Init => DescriptorsMirrorTables
  <2>1. EmptyTables.doms = {} /\ EmptyTables.digest = {}
    BY DEF EmptyTables
  <2>2. ASSUME Init
        PROVE  Levels = {EmptyTables} /\ DOMAIN saves = {}
    BY <2>2 DEF Init, Levels
  <2>3. ASSUME Init
        PROVE  DescriptorsMirrorTables
    BY <2>1, <2>2, <2>3 DEF Init, DescriptorsMirrorTables
  <2> QED
    BY <2>3
<1>2. TypeOK /\ DescriptorsMirrorTables /\ [Next]_vars => DescriptorsMirrorTables'
  BY DescriptorsInductive
<1> QED
  BY <1>1, <1>2, TypeCorrect, PTL DEF Spec

(* Every savepoint extends the one around it, all extend the committed tables
   and the working tables extend them all: rolling one back takes away its own
   unit and nothing that was written outside it. *)
THEOREM SavepointsAreLayered == Spec => []Layered
<1>1. LayersInv => Layered
  BY DEF LayersInv, Layered, Ahead
<1> QED
  BY <1>1, LayersInvariance, PTL

-----------------------------------------------------------------------------
(* The ledger.  A commit publishes the working tables, which are sound and
   ahead of the committed ones; what CommandLedger asks of a step holds of any
   two such tables. *)

(* Where the events of sound tables stand in the streams they stamp. *)
LEMMA StampsOfEvents ==
    ASSUME NEW d, Sound(d), NEW s \in Streams
    PROVE  /\ Stamps(d, s) \in Seq(Keys \cup EventIds)
           /\ Len(Stamps(d, s)) = d.next[s] - 1 /\ Len(Stamps(d, s)) \in Nat
           /\ DOMAIN Stamps(d, s) = 1 .. d.next[s] - 1
           /\ \A e \in d.events : e.stream = s =>
                 e.seq \in DOMAIN Stamps(d, s) /\ Stamps(d, s)[e.seq] = e.id
           /\ \A n \in DOMAIN Stamps(d, s) :
                 \E e \in d.events : e.stream = s /\ e.seq = n /\ e.id = Stamps(d, s)[n]
<1> DEFINE at(n) == CHOOSE e \in d.events : e.stream = s /\ e.seq = n
           len == d.next[s] - 1
<1>1. d.next[s] \in Nat /\ d.next[s] # 0 /\ d.events \subseteq Event
  BY DEF Sound, Tables
<1>2. \A n \in 1 .. len : at(n) \in d.events /\ at(n).stream = s /\ at(n).seq = n
  BY DEF Sound, GapFree
<1>3. \A e \in d.events : e.stream = s => e.seq \in 1 .. len /\ e = at(e.seq)
  <2> SUFFICES ASSUME NEW e \in d.events, e.stream = s
               PROVE  e.seq \in 1 .. len /\ e = at(e.seq)
    OBVIOUS
  <2>1. e.seq \in 1 .. len
    BY DEF Sound, GapFree
  <2> QED
    BY <1>2, <2>1 DEF Sound, GapFree
<1>4. Stamps(d, s) = [n \in 1 .. len |-> at(n).id]
  BY DEF Stamps
<1> HIDE DEF at
<1>5. len \in Nat
  BY <1>1
<1> HIDE DEF len
<1>6. \A n \in 1 .. len : at(n).id \in Keys \cup EventIds
  BY <1>1, <1>2 DEF Event
<1>7. Stamps(d, s) \in Seq(Keys \cup EventIds) /\ Len(Stamps(d, s)) = len
  BY <1>4, <1>5, <1>6
<1>8. DOMAIN Stamps(d, s) = 1 .. len /\ \A n \in 1 .. len : Stamps(d, s)[n] = at(n).id
  BY <1>4
<1>9. \A e \in d.events : e.stream = s =>
          e.seq \in DOMAIN Stamps(d, s) /\ Stamps(d, s)[e.seq] = e.id
  BY <1>3, <1>8
<1>10. \A n \in DOMAIN Stamps(d, s) :
          \E e \in d.events : e.stream = s /\ e.seq = n /\ e.id = Stamps(d, s)[n]
  BY <1>2, <1>8
<1> QED
  BY <1>5, <1>7, <1>8, <1>9, <1>10 DEF len

(* The places of a key in a stream are the sequence numbers of its events. *)
LEMMA PlacesOfKey ==
    ASSUME NEW d, Sound(d), NEW s \in Streams, NEW k \in Keys
    PROVE  Ledger!Places(Stamps(d, s), k) =
               {e.seq : e \in {f \in d.events : f.stream = s /\ f.id = k}}
BY StampsOfEvents DEF Ledger!Places

LEMMA StreamsPublished ==
    ASSUME NEW a, NEW b, Sound(a), Sound(b), Ahead(a, b), NEW s \in Streams
    PROVE  /\ Len(Stamps(b, s)) >= Len(Stamps(a, s))
           /\ SubSeq(Stamps(b, s), 1, Len(Stamps(a, s))) = Stamps(a, s)
<1> DEFINE p == Stamps(a, s)  q == Stamps(b, s)
<1>1. /\ p \in Seq(Keys \cup EventIds) /\ Len(p) = a.next[s] - 1 /\ DOMAIN p = 1 .. a.next[s] - 1
      /\ \A n \in DOMAIN p : \E e \in a.events : e.stream = s /\ e.seq = n /\ e.id = p[n]
  BY StampsOfEvents
<1>2. /\ q \in Seq(Keys \cup EventIds) /\ Len(q) = b.next[s] - 1
      /\ \A e \in b.events : e.stream = s => e.seq \in DOMAIN q /\ q[e.seq] = e.id
  BY StampsOfEvents
<1>3. a.next[s] \in Nat /\ b.next[s] \in Nat /\ b.next[s] >= a.next[s]
  BY DEF Sound, Tables, Ahead, Extends
<1>4. \A n \in DOMAIN p : n \in DOMAIN q /\ q[n] = p[n]
  BY <1>1, <1>2 DEF Ahead, Extends
<1> HIDE DEF p, q
<1>5. Len(q) >= Len(p)
  BY <1>1, <1>2, <1>3
<1>6. SubSeq(q, 1, Len(p)) = p
  BY <1>1, <1>2, <1>4, <1>5
<1> QED
  BY <1>5, <1>6 DEF p, q

(* What a commit does to the decided commands and to the streams. *)
LEMMA LedgerPublishes ==
    ASSUME Sound(committed), Sound(committed'), Ahead(committed, committed')
    PROVE  Ledger!Publish
<1> DEFINE a == committed  b == committed'
<1>1. /\ a \in Tables /\ b \in Tables /\ Extends(a, b) /\ Advances(a, b)
      /\ ReceiptsMatchEvents(a) /\ ReceiptsMatchEvents(b)
      /\ \A s \in Streams : a.next[s] \in Nat /\ b.next[s] \in Nat
      /\ \A e \in b.events : e.stream \in Streams /\ e.seq \in Nat
      /\ \A k \in Keys : a.receipts[k].status \in {"none", "committed", "noop"}
  BY DEF Sound, Ahead, Tables, Event, Receipt
<1>2. Ledger!DecisionsStand
  BY <1>1 DEF Ledger!DecisionsStand, Ledger!Undecided, Extends
<1>3. Ledger!StreamsGrow
  BY StreamsPublished DEF Ledger!StreamsGrow
<1>4. Ledger!StampedOnce
  <2> SUFFICES ASSUME NEW k \in Keys, a.receipts[k].status = "none",
                      b.receipts[k].status = "committed"
               PROVE  \E s \in Streams :
                         /\ \E n \in Len(Stamps(a, s)) + 1 .. Len(Stamps(b, s)) :
                               Ledger!Places(Stamps(b, s), k) = {n}
                         /\ \A other \in Streams \ {s} :
                               Ledger!Places(Stamps(b, other), k) = {}
    BY DEF Ledger!StampedOnce, Ledger!CommitsNow, Ledger!Undecided
  <2>1. PICK e \in b.events : e.id = k
    BY <1>1 DEF ReceiptsMatchEvents
  <2>2. \A f \in b.events : f.id = k => f = e
    BY <1>1, <2>1 DEF ReceiptsMatchEvents
  <2>3. e \notin a.events
    BY <1>1, <2>1 DEF ReceiptsMatchEvents
  <2>4. e.stream \in Streams /\ e.seq \in Nat /\ e.seq >= a.next[e.stream]
    BY <1>1, <2>3 DEF Extends
  <2>5. e.seq \in 1 .. b.next[e.stream] - 1
    BY DEF Sound, GapFree
  <2>6. e.seq \in Len(Stamps(a, e.stream)) + 1 .. Len(Stamps(b, e.stream))
    <3>1. Len(Stamps(a, e.stream)) = a.next[e.stream] - 1
      BY <2>4, StampsOfEvents
    <3>2. Len(Stamps(b, e.stream)) = b.next[e.stream] - 1
      BY <2>4, StampsOfEvents
    <3> QED
      BY <1>1, <2>4, <2>5, <3>1, <3>2
  <2>7. Ledger!Places(Stamps(b, e.stream), k) = {e.seq}
    BY <2>1, <2>2, <2>4, PlacesOfKey
  <2>8. \A other \in Streams \ {e.stream} : Ledger!Places(Stamps(b, other), k) = {}
    BY <2>2, PlacesOfKey
  <2> QED
    BY <2>4, <2>6, <2>7, <2>8
<1>5. Ledger!OnlyCommandsStamped
  <2> SUFFICES ASSUME NEW k \in Keys,
                      ~(a.receipts[k].status = "none" /\ b.receipts[k].status = "committed"),
                      NEW s \in Streams
               PROVE  Ledger!Places(Stamps(b, s), k) = Ledger!Places(Stamps(a, s), k)
    BY DEF Ledger!OnlyCommandsStamped, Ledger!CommitsNow, Ledger!Undecided
  <2>1. \A e : e \in b.events /\ e.id = k <=> e \in a.events /\ e.id = k
    <3>1. CASE a.receipts[k].status = "none"
      BY <1>1, <3>1 DEF ReceiptsMatchEvents
    <3>2. CASE a.receipts[k].status = "noop"
      <4>1. b.receipts[k] = a.receipts[k]
        BY <1>1, <3>2 DEF Extends
      <4> QED
        BY <1>1, <3>2, <4>1 DEF ReceiptsMatchEvents
    <3>3. CASE a.receipts[k].status = "committed"
      <4>1. PICK e \in a.events : e.id = k
        BY <1>1, <3>3 DEF ReceiptsMatchEvents
      <4>2. e \in b.events
        BY <1>1 DEF Extends
      <4>3. \A f \in b.events : f.id = k => f = e
        BY <1>1, <4>1, <4>2 DEF ReceiptsMatchEvents
      <4>4. \A f \in a.events : f.id = k => f = e
        BY <1>1, <4>1 DEF ReceiptsMatchEvents
      <4> QED
        BY <4>1, <4>2, <4>3, <4>4
    <3> QED
      BY <1>1, <3>1, <3>2, <3>3
  <2>2. {f \in b.events : f.stream = s /\ f.id = k} = {f \in a.events : f.stream = s /\ f.id = k}
    BY <2>1
  <2>3. Ledger!Places(Stamps(a, s), k) = {e.seq : e \in {f \in a.events : f.stream = s /\ f.id = k}}
    BY PlacesOfKey
  <2>4. Ledger!Places(Stamps(b, s), k) = {e.seq : e \in {f \in b.events : f.stream = s /\ f.id = k}}
    BY PlacesOfKey
  <2> QED
    BY <2>2, <2>3, <2>4
<1>6. Ledger!VersionsAdvance
  <2>1. \A k \in Keys : b.receipts[k].req.id \in Ids
    BY <1>1, TablesParts
  <2> QED
    BY <1>1, <2>1 DEF Ledger!VersionsAdvance, Ledger!CommitsNow, Ledger!Undecided, Advances
<1> QED
  BY <1>2, <1>3, <1>4, <1>5, <1>6 DEF Ledger!Publish

(* The store, seen through its committed tables, implements CommandLedger:
   every request key is decided once and for good, every committed command is
   stamped once in one append-only stream and moves its target's version,
   however transactions, savepoints, failed commits and crashes interleave. *)
THEOREM ImplementsLedger == Spec => LedgerSpec
<1>1. Init => Ledger!Start
  <2> SUFFICES ASSUME Init PROVE Ledger!Start
    OBVIOUS
  <2>1. /\ \A k \in Keys : EmptyTables.receipts[k].status = "none"
        /\ \A i \in Ids : EmptyTables.ident[i].ver = 0
        /\ \A s \in Streams : EmptyTables.next[s] = 1
    BY DEF EmptyTables, NoReceipt, AbsentRow
  <2>2. ASSUME NEW s \in Streams
        PROVE  Stamps(EmptyTables, s) = <<>>
    <3>1. Stamps(EmptyTables, s) \in Seq(Keys \cup EventIds) /\ Len(Stamps(EmptyTables, s)) = 1 - 1
      BY <2>1, EmptyTablesSound, StampsOfEvents
    <3> QED
      BY <3>1
  <2> QED
    BY <2>1, <2>2 DEF Init, Ledger!Start, Ledger!Undecided
<1>2. IInv /\ IInv' /\ LayersInv /\ LayersInv' /\ [Next]_vars => [Ledger!Publish]_(Ledger!ledger)
  <2> SUFFICES ASSUME IInv, IInv', LayersInv, LayersInv', [Next]_vars
               PROVE  [Ledger!Publish]_(Ledger!ledger)
    OBVIOUS
  <2>1. CASE committed' = committed
    BY <2>1 DEF Ledger!ledger
  <2>2. CASE committed' # committed
    <3>1. \E t \in Threads : Commit(t)
      <4>1. ASSUME NEW t \in Threads, Operation(t)
            PROVE  committed' = committed
        BY <4>1, OperationSound DEF Writes
      <4>2. ASSUME NEW t \in Threads, Boundary(t), ~Commit(t)
            PROVE  committed' = committed
        BY <4>2 DEF Boundary, Begin, Savepoint, RollbackToSavepoint, ReleaseSavepoint,
           CommitFails, Rollback
      <4>3. CASE Stop \/ \E expected \in SUBSET Domains : Open(expected)
        BY <4>3, <2>2 DEF Stop, Open
      <4> QED
        BY <2>2, <4>1, <4>2, <4>3 DEF Next, vars
    <3>2. committed' = work
      BY <3>1 DEF Commit
    <3>3. Sound(committed) /\ Sound(work) /\ Ahead(committed, work)
      BY DEF IInv, SoundLevels, Levels, LayersInv
    <3> QED
      BY <3>2, <3>3, LedgerPublishes
  <2> QED
    BY <2>1, <2>2
<1> QED
  BY <1>1, <1>2, Invariance, LayersInvariance, PTL DEF Spec, LedgerSpec, Ledger!Spec
=============================================================================
