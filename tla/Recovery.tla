------------------------------ MODULE Recovery ------------------------------
(***************************************************************************)
(* Recovery epochs, fenced tokens and snapshots (kernel/recovery.py).      *)
(* Managers change one durable record, the epoch and its tokens: they read *)
(* it, compute the next one, and write it by a command that expects the    *)
(* version they read.  Dispatchers present the tokens they were handed.  A *)
(* snapshot may be restored in the place of the store, after which all     *)
(* that was recorded since is gone.                                        *)
(*                                                                         *)
(* A token's value is a digest of its operation, epoch and fence: these    *)
(* three name it.  A line is the time between two restores, which is       *)
(* history: no guard but the bound reads it.                               *)
(***************************************************************************)
EXTENDS Integers, FiniteSetsExt

CONSTANTS Managers,   \* processes that begin epochs, issue and retire tokens
          Ops,        \* operations tokens are issued for
          Results,    \* what settlements record
          NoResult,   \* a token that is not settled
          Boots,      \* boot tokens that name a begin_epoch
          Nothing,    \* no snapshot
          MaxVersion, \* bound on the versions of the record
          MaxLine     \* bound on restores, plus one

ASSUME RecoveryAssumption ==
    /\ NoResult \notin Results
    /\ MaxVersion \in Nat /\ MaxLine \in Nat \ {0}

VARIABLES db,        \* the store
          work,      \* what each manager is about to do
          handed,    \* the tokens dispatchers have, and the line they are from
          snapshot,  \* the snapshot on disk
          line       \* restores so far, plus one

vars == <<db, work, handed, snapshot, line>>

Value == Ops \X (Nat \ {0}) \X (Nat \ {0})

Token == [op : Ops, epoch : Nat \ {0}, fence : Nat \ {0},
          status : {"active", "retired", "settled"}, result : Results \cup {NoResult}]

ValueOf(t) == <<t.op, t.epoch, t.fence>>

Keys == {<<"epoch", b>> : b \in Boots} \cup ({"issue", "retire"} \X Value)

(* A command is recorded by its key and the version it expected: what it wrote
   follows from them. *)
Store == [version : Nat, epoch : Nat, tokens : SUBSET Token, receipts : SUBSET (Keys \X Nat)]

EmptyStore == [version |-> 0, epoch |-> 0, tokens |-> {}, receipts |-> {}]

(* The key, the expected version, and the record to be written. *)
Command == [key : Keys, base : Nat, epoch : Nat, tokens : SUBSET Token]

Idle == <<"idle">>
Work == {Idle} \cup ({"validated"} \X Value) \cup ({"sending"} \X Command)

(* found: the token is retained as it was handed out, active, in this epoch. *)
Valid(t) == t \in db.tokens /\ t.status = "active" /\ t.epoch = db.epoch

Retired(t) == [t EXCEPT !.status = "retired"]

(* Mutant of NextFence: fences start anew in every epoch. *)
FenceInEpoch == Max({0} \cup {t.fence : t \in {u \in db.tokens : u.epoch = db.epoch}}) + 1

NextFence == Max({0} \cup {t.fence : t \in db.tokens}) + 1

Settled(t, r) == [t EXCEPT !.status = "settled", !.result = r]

RetireAll       == {Retired(t) : t \in db.tokens}
RetireOne(v)    == {IF ValueOf(t) = v THEN Retired(t) ELSE t : t \in db.tokens}
SettleOne(v, r) == {IF ValueOf(t) = v THEN Settled(t, r) ELSE t : t \in db.tokens}

Fresh(o) == [op |-> o, epoch |-> db.epoch, fence |-> NextFence,
             status |-> "active", result |-> NoResult]

Room == db.version < MaxVersion

Send(m, key, epoch, tokens) ==
    work' = [work EXCEPT ![m] = <<"sending", [key |-> key, base |-> db.version,
                                              epoch |-> epoch, tokens |-> tokens]>>]
-----------------------------------------------------------------------------

Init ==
    /\ db = EmptyStore
    /\ work = [m \in Managers |-> Idle]
    /\ handed = {}
    /\ snapshot = Nothing
    /\ line = 1

(* Mutant of BeginEpoch: the tokens of the last epoch are kept as they are. *)
BeginEpochOnly(m, boot) ==
    /\ work[m] = Idle
    /\ Send(m, <<"epoch", boot>>, db.epoch + 1, db.tokens)
    /\ UNCHANGED <<db, handed, snapshot, line>>

BeginEpoch(m, boot) ==
    /\ work[m] = Idle
    /\ Send(m, <<"epoch", boot>>, db.epoch + 1, RetireAll)
    /\ UNCHANGED <<db, handed, snapshot, line>>

(* issue_token: an operation may have several tokens. *)
Issue(m, o) ==
    /\ work[m] = Idle
    /\ db.version > 0
    /\ Send(m, <<"issue", ValueOf(Fresh(o))>>, db.epoch, db.tokens \cup {Fresh(o)})
    /\ UNCHANGED <<db, handed, snapshot, line>>

(* retire_token validates first, and reads the record again. *)
Validate(m, t) ==
    /\ work[m] = Idle
    /\ Valid(t)
    /\ work' = [work EXCEPT ![m] = <<"validated", ValueOf(t)>>]
    /\ UNCHANGED <<db, handed, snapshot, line>>

Retire(m) ==
    /\ work[m][1] = "validated"
    /\ LET v == work[m][2] IN
       Send(m, <<"retire", v>>, db.epoch, RetireOne(v))
    /\ UNCHANGED <<db, handed, snapshot, line>>

(* Mutant of Current: the version is not compared. *)
AnyVersion(c) == c.key \notin {r[1] : r \in db.receipts}

(* The key is new, and the version the one expected. *)
Current(c) == c.key \notin {r[1] : r \in db.receipts} /\ c.base = db.version

(* The store with the command written. *)
After(c) == [db EXCEPT !.version = @ + 1, !.epoch = c.epoch, !.tokens = c.tokens,
                       !.receipts = @ \cup {<<c.key, c.base>>}]

(* The command is written; its manager has not heard of it yet. *)
Commit(m) ==
    /\ work[m][1] = "sending"
    /\ Current(work[m][2])
    /\ Room
    /\ db' = After(work[m][2])
    /\ UNCHANGED <<work, handed, snapshot, line>>

(* The command is recorded, by this call or by an equal one: the record is read
   again, and the caller of issue_token is given the token as it is by now. *)
Answer(m) ==
    /\ work[m][1] = "sending"
    /\ LET c == work[m][2] IN
       /\ <<c.key, c.base>> \in db.receipts
       /\ handed' = handed \cup
              {<<t, line>> : t \in {u \in db.tokens : c.key = <<"issue", ValueOf(u)>>}}
    /\ work' = [work EXCEPT ![m] = Idle]
    /\ UNCHANGED <<db, snapshot, line>>

(* The call is refused, or its manager dies before or after it is written. *)
Drop(m) ==
    /\ work[m] # Idle
    /\ work' = [work EXCEPT ![m] = Idle]
    /\ UNCHANGED <<db, handed, snapshot, line>>

(* settle, in one transaction: the token is looked up, apply is called, the
   record is written. *)
Settle(t, r) ==
    /\ Valid(t)
    /\ Room
    /\ db' = [db EXCEPT !.version = @ + 1, !.tokens = SettleOne(ValueOf(t), r)]
    /\ UNCHANGED <<work, handed, snapshot, line>>

(* create_snapshot, under the lock of the store. *)
Capture ==
    /\ snapshot' = db
    /\ UNCHANGED <<db, work, handed, line>>

(* The snapshot is verified in a root of its own, which the host then uses in the
   place of the old store.  Its managers are gone with it; dispatchers are not. *)
Restore ==
    /\ snapshot # Nothing
    /\ line < MaxLine
    /\ db' = snapshot
    /\ line' = line + 1
    /\ work' = [m \in Managers |-> Idle]
    /\ UNCHANGED <<handed, snapshot>>

Next ==
    \/ \E m \in Managers :
          \/ \E boot \in Boots : BeginEpoch(m, boot)
          \/ \E o \in Ops : Issue(m, o)
          \/ \E h \in handed : Validate(m, h[1])
          \/ Retire(m) \/ Commit(m) \/ Answer(m) \/ Drop(m)
    \/ \E h \in handed, r \in Results : Settle(h[1], r)
    \/ Capture \/ Restore

Spec == Init /\ [][Next]_vars
-----------------------------------------------------------------------------
(* Properties. *)

(* Types; no token is of an epoch to come. *)
TypeOK ==
    /\ db \in Store
    /\ \A t \in db.tokens : t.epoch <= db.epoch
    /\ work \in [Managers -> Work]
    /\ handed \subseteq Token \X (1 .. MaxLine)
    /\ snapshot \in Store \cup {Nothing}
    /\ line \in 1 .. MaxLine

(* No token of an earlier epoch is active, although managers that read the
   record before the epoch began still write. *)
EpochFence == \A t \in db.tokens : t.status = "active" => t.epoch = db.epoch

(* A fence is given once, in whatever epoch. *)
FencesUnique == \A t, u \in db.tokens : t.fence = u.fence => t = u

(* A token stays known to the store that handed it out, and a dispatcher is told
   that it is stale and not that it is unknown. *)
HandedRetained ==
    \A h \in handed : h[2] = line => \E t \in db.tokens : ValueOf(t) = ValueOf(h[1])

(* A token that was settled or retired is never active again, and what a
   settlement recorded stays, until an older store is restored. *)
TokensOnlyAge ==
    [][line' = line =>
         \A t \in db.tokens : \E u \in db'.tokens :
            /\ ValueOf(u) = ValueOf(t)
            /\ t.status # "active" => u.status # "active" /\ u.result = t.result]_vars

(* A dispatcher from before a restore does not have the token of one after it,
   when a new epoch was begun in between. *)
StaleDispatcherFenced ==
    \A g, h \in handed :
       /\ g[2] < line /\ h[2] = line
       /\ Valid(h[1]) /\ h[1].epoch > snapshot.epoch
       => g[1] # h[1]
=============================================================================
