---------------------------- MODULE CommandStore ----------------------------
(***************************************************************************)
(* The command store (herzchen/kernel/store.py): one SQLite database,      *)
(* opened by one owner, written by threads that take turns through a       *)
(* re-entrant lock.  A transaction works on a copy of the committed        *)
(* tables; savepoints nest inside it; every operation of the store is a    *)
(* function from tables to tables, guarded as the code guards it.          *)
(*                                                                         *)
(* The tables are one record, so that what holds of the committed tables   *)
(* can be stated, with the same operator, of the working copy and of every *)
(* savepoint.  Revisions are integers: NoRevision for an unpinned          *)
(* reference, n >= 1 for "rev-<n>", a negative number for an opaque        *)
(* revision.  A request stands for everything its digest hashes.           *)
(***************************************************************************)
EXTENDS Integers, Sequences, FiniteSets

CONSTANTS Threads,        \* callers sharing one open Store
          NoThread,       \* nobody holds the transaction lock
          Ids,            \* identities (kind and id)
          Keys,           \* logical request keys
          EventIds,       \* event ids chosen by callers of append_event
          Streams,        \* event streams
          Tokens,         \* edit tokens
          NoToken,        \* no edit token
          Payloads,       \* identity payloads
          EmptyPayload,   \* the payload {} of an identity a no-op admits
          Domains,        \* domain contributions that may be registered
          Core,           \* the neutral ports, always admitted
          Collisions,     \* pairs of contributions that declare a common type
          Requests,       \* the command envelopes in use
          InitialRows,    \* states put_identity is called with
          ResultPins,     \* result revisions a caller pins itself
          CallerRefs,     \* before_refs and after_refs a caller supplies
          MaxVersion,     \* bound on an identity's version
          MaxDepth        \* bound on nested savepoints

NoRevision == 0
NoVersion  == -1

Revisions == Int
Ref       == Ids \X Revisions

(* Sequence numbers a caller may pass: every key and every id gives at most one. *)
Sequences == 1 .. Cardinality(Keys) + Cardinality(EventIds)

(* What canonical_request_digest hashes of a command envelope. *)
Request == [id: Ids, pin: Revisions, expRev: Revisions, expVer: Int,
            tok: Tokens \cup {NoToken}, pay: Payloads, dom: Domains \cup {Core}]

NoRequest == [id |-> CHOOSE i \in Ids : TRUE, pin |-> NoRevision, expRev |-> NoRevision,
              expVer |-> NoVersion, tok |-> NoToken, pay |-> EmptyPayload, dom |-> Core]

Row == [admitted: BOOLEAN, rev: Revisions, ver: Nat,
        tok: Tokens \cup {NoToken}, pay: Payloads]

AbsentRow == [admitted |-> FALSE, rev |-> NoRevision, ver |-> 0,
              tok |-> NoToken, pay |-> EmptyPayload]

Receipt == [status: {"none", "committed", "noop"}, req: Request, rev: Revisions]

NoReceipt == [status |-> "none", req |-> NoRequest, rev |-> NoRevision]

Event == [id: Keys \cup EventIds, stream: Streams, seq: Nat \ {0}, subj: Ids, rev: Revisions]

Tables == [ident: [Ids -> Row], refs: SUBSET Ref, next: [Streams -> Nat \ {0}],
           receipts: [Keys -> Receipt], events: SUBSET Event,
           doms: SUBSET Domains, digest: SUBSET Domains]

(* What a savepoint keeps. *)
Saved == [tables: Tables, doms: SUBSET Domains]

ASSUME StoreAssumption ==
    /\ Threads # {} /\ NoThread \notin Threads
    /\ Ids # {}
    /\ Keys \cap EventIds = {}
    /\ NoToken \notin Tokens
    /\ EmptyPayload \in Payloads
    /\ Core \notin Domains
    /\ Collisions \subseteq Domains \X Domains
    /\ Requests \subseteq Request
    /\ \A r \in Requests : r.expVer >= NoVersion
    /\ InitialRows \subseteq Row
    /\ \A row \in InitialRows : row.admitted
    /\ ResultPins \subseteq Revisions \ {NoRevision}
    /\ CallerRefs \subseteq SUBSET Ref
    /\ MaxVersion \in Nat /\ MaxDepth \in Nat

VARIABLES committed,  \* the tables on disk
          work,       \* the tables the SQLite connection sees
          holder,     \* the thread inside Store.transaction()
          saves,      \* the savepoints of the transaction, innermost last
          memDoms,    \* Store._domain_descriptors
          workDoms,   \* Transaction._domain_working
          open,       \* an owner has the Store open
          wedged      \* a COMMIT failed and left the connection in its transaction

vars == <<committed, work, holder, saves, memDoms, workDoms, open, wedged>>

-----------------------------------------------------------------------------
(* The operations, as functions of the tables. *)

EmptyTables == [ident |-> [i \in Ids |-> AbsentRow], refs |-> {},
                next |-> [s \in Streams |-> 1],
                receipts |-> [k \in Keys |-> NoReceipt], events |-> {},
                doms |-> {}, digest |-> {}]

(* Every reference row must name an identity row (FOREIGN KEY). *)
Resolvable(d, refs) == \A ref \in refs : d.ident[ref[1]].admitted

(* Mutant of Admissible: the expected version is not compared. *)
AdmissibleAtAnyVersion(d, r) ==
    LET row == d.ident[r.id] IN
    /\ r.pin # NoRevision => row.admitted /\ r.pin = row.rev
    /\ r.expRev # NoRevision => row.admitted /\ r.expRev = row.rev
    /\ r.tok # NoToken => r.tok = row.tok

(* The target and the expectations of a command agree with the current row. *)
Admissible(d, r) ==
    LET row == d.ident[r.id] IN
    /\ IF row.admitted
       THEN r.pin # NoRevision => r.pin = row.rev
       ELSE /\ r.expVer \in {NoVersion, 0}
            /\ r.expRev = NoRevision
            /\ r.pin = NoRevision
    /\ r.expRev # NoRevision => r.expRev = row.rev
    /\ r.expVer # NoVersion => r.expVer = row.ver
    /\ r.tok # NoToken => r.tok = row.tok

(* Mutant of Unrecorded: an earlier receipt does not stop the command. *)
AlwaysUnrecorded(d, k) == k \in DOMAIN d.receipts

(* No receipt answers the request: otherwise mutate returns it, or refuses a
   reused key, and writes nothing. *)
Unrecorded(d, k) == d.receipts[k].status = "none"

(* Mutant of ForeignKeysHold: references are stored unchecked. *)
ForeignKeysIgnored(d, r, refs) == refs \subseteq Ref

(* Every identity the command refers to is there, or is its own target. *)
ForeignKeysHold(d, r, refs) == \A ref \in refs : ref[1] = r.id \/ d.ident[ref[1]].admitted

(* The revision a committed command gives its target: pinned by the caller,
   or rev-<version + 1>. *)
ResultRevision(d, r, pin) ==
    IF pin = NoRevision THEN d.ident[r.id].ver + 1 ELSE pin

(* before_refs default to the previous revision, if there was one, after_refs
   to the result; the target is kept as the caller pinned it. *)
References(d, r, before, after, rev) ==
    LET row == d.ident[r.id]
        prior == IF before # {} THEN before
                 ELSE IF row.rev = NoRevision THEN {} ELSE {<<r.id, row.rev>>}
        later == IF after # {} THEN after ELSE {<<r.id, rev>>}
    IN  prior \cup later \cup {<<r.id, r.pin>>}

(* The operations leave what they do not name alone. *)
Update(d, ident, refs, next, receipts, events) ==
    [ident |-> ident, refs |-> refs, next |-> next, receipts |-> receipts,
     events |-> events, doms |-> d.doms, digest |-> d.digest]

CommittedRow(row, r, rev) ==
    [admitted |-> TRUE, rev |-> rev, ver |-> row.ver + 1, tok |-> row.tok, pay |-> r.pay]

CommandEvent(d, k, r, s, rev) ==
    [id |-> k, stream |-> s, seq |-> d.next[s], subj |-> r.id, rev |-> rev]

CommandEffect(d, k, r, s, before, after, rev) ==
    Update(d,
        [d.ident EXCEPT ![r.id] = CommittedRow(d.ident[r.id], r, rev)],
        d.refs \cup References(d, r, before, after, rev),
        [d.next EXCEPT ![s] = d.next[s] + 1],
        [d.receipts EXCEPT ![k] = [status |-> "committed", req |-> r, rev |-> rev]],
        d.events \cup {CommandEvent(d, k, r, s, rev)})

(* A no-op admits an absent target at version 0 and leaves a present one. *)
NoOpRow(row) ==
    [admitted |-> TRUE, rev |-> row.rev, ver |-> row.ver, tok |-> row.tok, pay |-> row.pay]

NoOpEffect(d, k, r) ==
    Update(d,
        [d.ident EXCEPT ![r.id] = NoOpRow(d.ident[r.id])],
        d.refs \cup {<<r.id, r.pin>>},
        d.next,
        [d.receipts EXCEPT ![k] = [status |-> "noop", req |-> r, rev |-> d.ident[r.id].rev]],
        d.events)

PutEffect(d, i, row) ==
    Update(d, [d.ident EXCEPT ![i] = row], d.refs, d.next, d.receipts, d.events)

ReferEffect(d, i, rev) ==
    Update(d, d.ident, d.refs \cup {<<i, rev>>}, d.next, d.receipts, d.events)

(* rev-<n + 1> after rev-<n>, rev-<version + 1> after any other revision. *)
NextRevision(row) == IF row.rev >= 1 THEN row.rev + 1 ELSE row.ver + 1

RevisedRow(row, pay) ==
    [admitted |-> TRUE, rev |-> NextRevision(row), ver |-> row.ver + 1,
     tok |-> row.tok, pay |-> pay]

ReviseEffect(d, i, pay) ==
    Update(d,
        [d.ident EXCEPT ![i] = RevisedRow(d.ident[i], pay)],
        d.refs \cup {<<i, NextRevision(d.ident[i])>>},
        d.next, d.receipts, d.events)

(* Mutant of AppendEffect: the next sequence is not moved on. *)
AppendEffectStands(d, e, refs) ==
    Update(d, d.ident, d.refs \cup refs, d.next, d.receipts, d.events \cup {e})

AppendEffect(d, e, refs) ==
    Update(d, d.ident, d.refs \cup refs,
           [d.next EXCEPT ![e.stream] = e.seq + 1], d.receipts, d.events \cup {e})

(* The persisted digest is that of the candidate composition, which starts
   from the transaction's working copy of the descriptors. *)
RegisterEffect(d, known, dom) ==
    [d EXCEPT !.doms = @ \cup {dom}, !.digest = known \cup {dom}]

-----------------------------------------------------------------------------
(* Transactions and savepoints. *)

Init ==
    /\ committed = EmptyTables
    /\ work = EmptyTables
    /\ holder = NoThread
    /\ saves = <<>>
    /\ memDoms = {}
    /\ workDoms = {}
    /\ open = TRUE
    /\ wedged = FALSE

(* Transaction._begin.  BEGIN IMMEDIATE is refused on a wedged connection. *)
Begin(t) ==
    /\ open /\ ~wedged
    /\ holder = NoThread
    /\ holder' = t
    /\ work' = committed
    /\ workDoms' = memDoms
    /\ saves' = <<>>
    /\ UNCHANGED <<committed, memDoms, open, wedged>>

(* Transaction.savepoint, also entered by a nested Store.transaction(). *)
Savepoint(t) ==
    /\ holder = t
    /\ Len(saves) < MaxDepth
    /\ saves' = Append(saves, [tables |-> work, doms |-> workDoms])
    /\ UNCHANGED <<committed, work, holder, memDoms, workDoms, open, wedged>>

(* Mutant of RollbackToSavepoint: the working descriptors are not restored. *)
RollbackKeepsDescriptors(t) ==
    /\ holder = t
    /\ saves # <<>>
    /\ work' = saves[Len(saves)].tables
    /\ saves' = SubSeq(saves, 1, Len(saves) - 1)
    /\ UNCHANGED <<committed, holder, memDoms, workDoms, open, wedged>>

(* Mutant of RollbackToSavepoint: the whole transaction is rolled back. *)
RollbackEverything(t) ==
    /\ holder = t
    /\ saves # <<>>
    /\ work' = committed
    /\ workDoms' = memDoms
    /\ saves' = SubSeq(saves, 1, Len(saves) - 1)
    /\ UNCHANGED <<committed, holder, memDoms, open, wedged>>

(* The unit inside the innermost savepoint raised; the caller carries on. *)
RollbackToSavepoint(t) ==
    /\ holder = t
    /\ saves # <<>>
    /\ work' = saves[Len(saves)].tables
    /\ workDoms' = saves[Len(saves)].doms
    /\ saves' = SubSeq(saves, 1, Len(saves) - 1)
    /\ UNCHANGED <<committed, holder, memDoms, open, wedged>>

ReleaseSavepoint(t) ==
    /\ holder = t
    /\ saves # <<>>
    /\ saves' = SubSeq(saves, 1, Len(saves) - 1)
    /\ UNCHANGED <<committed, work, holder, memDoms, workDoms, open, wedged>>

Commit(t) ==
    /\ holder = t
    /\ saves = <<>>
    /\ committed' = work
    /\ memDoms' = workDoms
    /\ holder' = NoThread
    /\ UNCHANGED <<work, saves, workDoms, open, wedged>>

(* COMMIT raises (another connection reads the file): the transaction is
   marked inactive and the lock released, but nothing rolls SQLite back. *)
CommitFails(t) ==
    /\ holder = t
    /\ saves = <<>>
    /\ holder' = NoThread
    /\ wedged' = TRUE
    /\ UNCHANGED <<committed, work, saves, memDoms, workDoms, open>>

(* The body of the outermost transaction raised. *)
Rollback(t) ==
    /\ holder = t
    /\ saves = <<>>
    /\ work' = committed
    /\ workDoms' = memDoms
    /\ holder' = NoThread
    /\ UNCHANGED <<committed, saves, memDoms, open, wedged>>

(* Store.close(), which does not wait for the transaction lock, or the death
   of the process: SQLite keeps what was committed and drops the rest. *)
Stop ==
    /\ open
    /\ open' = FALSE
    /\ work' = committed
    /\ holder' = NoThread
    /\ saves' = <<>>
    /\ memDoms' = {}
    /\ workDoms' = {}
    /\ wedged' = FALSE
    /\ UNCHANGED committed

(* Store.open: the stored digest, the stored descriptors and the composition
   the caller expects must agree. *)
Open(expected) ==
    /\ ~open
    /\ committed.digest = committed.doms
    /\ expected = committed.doms
    /\ open' = TRUE
    /\ memDoms' = committed.doms
    /\ workDoms' = committed.doms
    /\ UNCHANGED <<committed, work, holder, saves, wedged>>

-----------------------------------------------------------------------------
(* The store's operations, each called by the thread inside a transaction.
   An operation that is refused leaves the tables as they were: it runs in a
   savepoint of its own, or is a single statement. *)

Writes(t) == holder = t /\ UNCHANGED <<committed, holder, saves, memDoms, open, wedged>>

(* Store._admit_mutation looks at the committed descriptors only. *)
Admitted(r) == r.dom \in memDoms \cup {Core}

Mutate(t, k, r, s, before, after, pin) ==
    /\ Writes(t)
    /\ Admitted(r)
    /\ Unrecorded(work, k)
    /\ Admissible(work, r)
    /\ work.ident[r.id].ver < MaxVersion
    /\ ForeignKeysHold(work, r, before \cup after)
    /\ work' = CommandEffect(work, k, r, s, before, after, ResultRevision(work, r, pin))
    /\ UNCHANGED workDoms

MutateNoOp(t, k, r) ==
    /\ Writes(t)
    /\ Admitted(r)
    /\ Unrecorded(work, k)
    /\ Admissible(work, r)
    /\ work' = NoOpEffect(work, k, r)
    /\ UNCHANGED workDoms

(* An identity that exists is returned when it is the same and refused when it
   is not: neither writes. *)
PutIdentity(t, i, row) ==
    /\ Writes(t)
    /\ ~work.ident[i].admitted
    /\ work' = PutEffect(work, i, row)
    /\ UNCHANGED workDoms

PutReference(t, i, rev) ==
    /\ Writes(t)
    /\ Resolvable(work, {<<i, rev>>})
    /\ work' = ReferEffect(work, i, rev)
    /\ UNCHANGED workDoms

ReviseIdentity(t, r) ==
    /\ Writes(t)
    /\ work.ident[r.id].admitted
    /\ r.expRev = work.ident[r.id].rev
    /\ r.expVer = work.ident[r.id].ver
    /\ r.tok # NoToken => r.tok = work.ident[r.id].tok
    /\ r.expVer < MaxVersion
    /\ work' = ReviseEffect(work, r.id, r.pay)
    /\ UNCHANGED workDoms

AppendEvent(t, id, s, seq, subj, refs) ==
    /\ Writes(t)
    /\ \A e \in work.events : e.id # id
    /\ work.ident[subj[1]].admitted
    /\ seq = work.next[s]
    /\ Resolvable(work, refs)
    /\ work' = AppendEffect(work, [id |-> id, stream |-> s, seq |-> seq,
                              subj |-> subj[1], rev |-> subj[2]], refs)
    /\ UNCHANGED workDoms

(* A registry of these domains takes dom: neither it nor a type of it is in there. *)
Unclaimed(dom, known) ==
    /\ dom \notin known
    /\ \A other \in known : <<dom, other>> \notin Collisions /\ <<other, dom>> \notin Collisions

RegisterDomain(t, dom) ==
    /\ Writes(t)
    /\ Unclaimed(dom, workDoms)
    /\ dom \notin work.doms
    /\ work' = RegisterEffect(work, workDoms, dom)
    /\ workDoms' = workDoms \cup {dom}

Operation(t) ==
    \/ \E k \in Keys, r \in Requests, s \in Streams, pin \in ResultPins \cup {NoRevision},
          before \in CallerRefs \cup {{}}, after \in CallerRefs \cup {{}} :
             Mutate(t, k, r, s, before, after, pin)
    \/ \E k \in Keys, r \in Requests : MutateNoOp(t, k, r)
    \/ \E i \in Ids, row \in InitialRows : PutIdentity(t, i, row)
    \/ \E i \in Ids, rev \in ResultPins : PutReference(t, i, rev)
    \/ \E r \in Requests : ReviseIdentity(t, r)
    \/ \E id \in EventIds, s \in Streams, seq \in Sequences,
          subj \in Ids \X (ResultPins \cup {NoRevision}), refs \in CallerRefs \cup {{}} :
             AppendEvent(t, id, s, seq, subj, refs)
    \/ \E dom \in Domains : RegisterDomain(t, dom)

Boundary(t) ==
    \/ Begin(t)
    \/ Savepoint(t)
    \/ RollbackToSavepoint(t)
    \/ ReleaseSavepoint(t)
    \/ Commit(t)
    \/ CommitFails(t)
    \/ Rollback(t)

Next ==
    \/ \E t \in Threads : Operation(t) \/ Boundary(t)
    \/ Stop
    \/ \E expected \in SUBSET Domains : Open(expected)

Spec == Init /\ [][Next]_vars

-----------------------------------------------------------------------------
(* Properties. *)

(* Every variable keeps its type, a transaction runs only in an open store
   and savepoints exist only inside a transaction. *)
TypeOK ==
    /\ committed \in Tables
    /\ work \in Tables
    /\ holder \in Threads \cup {NoThread}
    /\ saves \in Seq(Saved)
    /\ memDoms \in SUBSET Domains
    /\ workDoms \in SUBSET Domains
    /\ open \in BOOLEAN
    /\ wedged \in BOOLEAN
    /\ holder # NoThread => open
    /\ saves # <<>> => holder # NoThread

(* No reference, receipt or event names an identity that is not there: what
   the foreign keys of schema.py promise, also after a refused operation or a
   rolled back savepoint in the middle of a transaction. *)
Referential(d) ==
    /\ Resolvable(d, d.refs)
    /\ \A e \in d.events : d.ident[e.subj].admitted
    /\ \A k \in Keys : d.receipts[k].status # "none" => d.ident[d.receipts[k].req.id].admitted

(* The events of a stream are numbered 1 .. next_sequence - 1 without a gap or
   a repetition, whichever mixture of mutate and append_event wrote them. *)
GapFree(d) ==
    /\ \A e \in d.events : e.seq \in 1 .. d.next[e.stream] - 1
    /\ \A s \in Streams : \A n \in 1 .. d.next[s] - 1 :
          \E e \in d.events : e.stream = s /\ e.seq = n
    /\ \A e, f \in d.events : e.stream = f.stream /\ e.seq = f.seq => e = f

(* A committed receipt has exactly one event, about the receipt's target and
   its result revision; a no-op or an absent receipt has none. *)
ReceiptsMatchEvents(d) ==
    /\ \A k \in Keys :
          IF d.receipts[k].status = "committed"
          THEN \E e \in d.events : /\ e.id = k
                                   /\ e.subj = d.receipts[k].req.id
                                   /\ e.rev = d.receipts[k].rev
          ELSE \A e \in d.events : e.id # k
    /\ \A e, f \in d.events : e.id = f.id => e = f

(* Of the commands that expected the same version of an identity at most one
   committed: nobody's update is lost under the compare-and-swap of mutate. *)
OneWinnerPerVersion(d) ==
    \A k, l \in Keys :
        LET a == d.receipts[k]  b == d.receipts[l] IN
        /\ a.status = "committed" /\ b.status = "committed"
        /\ a.req.id = b.req.id
        /\ a.req.expVer = b.req.expVer /\ a.req.expVer # NoVersion
        => k = l

(* The version a committed command expected is behind the identity's version:
   what makes OneWinnerPerVersion inductive. *)
VersionSpent(d) ==
    \A k \in Keys : d.receipts[k].status = "committed" =>
        d.ident[d.receipts[k].req.id].ver > d.receipts[k].req.expVer

(* Of the commands that pinned the same revision of an identity at most one
   committed.  Nothing promises it: a caller may name its result "rev-1" on a
   later version too, and a revision then stands for two states. *)
OneWinnerPerRevision(d) ==
    \A k, l \in Keys :
        LET a == d.receipts[k]  b == d.receipts[l] IN
        /\ a.status = "committed" /\ b.status = "committed"
        /\ a.req.id = b.req.id
        /\ a.req.pin = b.req.pin /\ a.req.pin # NoRevision
        => k = l

(* Every level of the transaction: what a reader can see now or will see after
   a rollback or a commit. *)
Levels == {committed, work} \cup {saves[n].tables : n \in DOMAIN saves}

(* Referential at every level: the foreign keys hold of what is committed, of
   what a transaction sees and of what a savepoint would bring back. *)
ReferentialIntegrity == \A d \in Levels : Referential(d)

(* GapFree at every level: _next_sequence and the check of _append_event number
   a stream together, whatever is rolled back between them. *)
GapFreeStreams == \A d \in Levels : GapFree(d)

(* ReceiptsMatchEvents at every level: _mutate never leaves a receipt without
   its event or an event without its receipt. *)
ReceiptEventAgreement == \A d \in Levels : ReceiptsMatchEvents(d)

(* OneWinnerPerVersion at every level: the compare-and-swap on the expected
   version. *)
VersionCAS == \A d \in Levels : OneWinnerPerVersion(d)

(* OneWinnerPerRevision at every level: what a pin would be worth without the
   expected version; violated where callers name the results. *)
RevisionCAS == \A d \in Levels : OneWinnerPerRevision(d)

(* The descriptors kept in memory are those of the tables they stand for: of
   the committed ones while the store is open, of the working ones inside a
   transaction, of each savepoint if it is rolled back; and the stored digest is
   theirs at every level, which the next open compares. *)
DescriptorsMirrorTables ==
    /\ \A d \in Levels : d.digest = d.doms
    /\ open => memDoms = committed.doms
    /\ holder # NoThread => workDoms = work.doms
    /\ \A n \in DOMAIN saves : saves[n].doms = saves[n].tables.doms

(* b is a with more history: nothing that a recorded is lost or rewritten. *)
Extends(a, b) ==
    /\ \A i \in Ids : a.ident[i].admitted =>
          /\ b.ident[i].admitted
          /\ b.ident[i].ver >= a.ident[i].ver
          /\ b.ident[i].ver = a.ident[i].ver => b.ident[i] = a.ident[i]
    /\ \A k \in Keys : a.receipts[k].status # "none" => b.receipts[k] = a.receipts[k]
    /\ a.refs \subseteq b.refs
    /\ a.events \subseteq b.events
    /\ \A e \in b.events \ a.events : e.seq >= a.next[e.stream]
    /\ \A s \in Streams : b.next[s] >= a.next[s]
    /\ a.doms \subseteq b.doms

(* Each savepoint extends the one around it, all extend the committed tables
   and the working tables extend them all: a savepoint that is rolled back
   takes away its own unit and nothing else. *)
Layered ==
    /\ Extends(committed, work)
    /\ \A n \in DOMAIN saves : /\ Extends(committed, saves[n].tables)
                               /\ Extends(saves[n].tables, work)
    /\ \A m, n \in DOMAIN saves : m < n => Extends(saves[m].tables, saves[n].tables)

(* What a public read returns when no transaction is running in its thread. *)
Visible == work

(* A fresh reader sees the committed state and nothing else. *)
NoUncommittedRead == open /\ holder = NoThread => Visible = committed

(* The store, seen through its committed tables only, is the ledger of
   CommandLedger. *)
Stamps(d, s) == [n \in 1 .. d.next[s] - 1 |->
                    (CHOOSE e \in d.events : e.stream = s /\ e.seq = n).id]

Ledger == INSTANCE CommandLedger WITH
    outcome <- [k \in Keys |-> committed.receipts[k]],
    version <- [i \in Ids |-> committed.ident[i].ver],
    log     <- [s \in Streams |-> Stamps(committed, s)]

LedgerSpec == Ledger!Spec
=============================================================================
