--------------------------- MODULE RecoveryProofs ---------------------------
(***************************************************************************)
(* Proofs about Recovery for any managers, operations, versions and        *)
(* restores.  The invariant says that the store and the snapshot are       *)
(* sound, that a command about to be sent which still expects the current  *)
(* version leads from the store to a sound one whose tokens are those of   *)
(* the store, aged, and that what dispatchers of this line hold is         *)
(* retained.  The last part is about EventCursor, for any readers, streams *)
(* and pages.                                                              *)
(***************************************************************************)
EXTENDS Recovery, EventCursor, TLAPS

(* The tokens of a sound record: typed, of no epoch to come, active in the
   present epoch only, with fences that differ, one of them the greatest. *)
Fences(tokens) == {0} \cup {t.fence : t \in tokens}

HasGreatest(tokens) == \E n \in Fences(tokens) : \A k \in Fences(tokens) : k <= n

SoundTokens(tokens, epoch) ==
    /\ tokens \subseteq Token
    /\ epoch \in Nat
    /\ \A t \in tokens : t.epoch <= epoch /\ (t.status = "active" => t.epoch = epoch)
    /\ \A t, u \in tokens : t.fence = u.fence => t = u
    /\ HasGreatest(tokens)

Sound(d) == d \in Store /\ SoundTokens(d.tokens, d.epoch) /\ (d.version > 0 => d.epoch > 0)

(* Every token is still there, no younger than it was. *)
Ages(old, new) ==
    \A t \in old : \E u \in new :
       /\ ValueOf(u) = ValueOf(t)
       /\ t.status # "active" => u.status # "active" /\ u.result = t.result

Follows(c) ==
    /\ c.base <= db.version
    /\ c.base = db.version =>
          SoundTokens(c.tokens, c.epoch) /\ c.epoch > 0 /\ Ages(db.tokens, c.tokens)

IInv ==
    /\ Sound(db)
    /\ snapshot # Nothing => Sound(snapshot)
    /\ work \in [Managers -> Work]
    /\ \A m \in Managers :
          /\ work[m][1] = "validated" => db.epoch > 0
          /\ work[m][1] = "sending" => Follows(work[m][2])
    /\ handed \subseteq Token \X (1 .. line)
    /\ line \in 1 .. MaxLine
    /\ HandedRetained
-----------------------------------------------------------------------------
LEMMA WorkCases ==
    ASSUME NEW w \in Work
    PROVE  /\ w = Idle => w[1] = "idle"
           /\ w[1] = "validated" => w = <<"validated", w[2]>> /\ w[2] \in Value
           /\ w[1] = "sending" => w = <<"sending", w[2]>> /\ w[2] \in Command
BY DEF Work, Idle

LEMMA AgesIsReflexive == ASSUME NEW S PROVE Ages(S, S)
BY DEF Ages

(* The next fence is above all others. *)
LEMMA NextFenceIsNew ==
    ASSUME SoundTokens(db.tokens, db.epoch)
    PROVE  /\ NextFence \in Nat \ {0}
           /\ \A t \in db.tokens : t.fence < NextFence
<1>1. PICK n \in Fences(db.tokens) : \A k \in Fences(db.tokens) : k <= n
  BY DEF SoundTokens, HasGreatest
<1>2. Fences(db.tokens) \subseteq Nat
  BY DEF SoundTokens, Fences, Token
<1>3. \A k \in Fences(db.tokens) : n >= k
  BY <1>1, <1>2
<1>4. Max(Fences(db.tokens)) \in Fences(db.tokens)
      /\ \A k \in Fences(db.tokens) : Max(Fences(db.tokens)) >= k
  BY <1>1, <1>3 DEF Max
<1>5. NextFence = Max(Fences(db.tokens)) + 1
  BY DEF NextFence, Fences
<1>6. \A t \in db.tokens : t.fence \in Fences(db.tokens)
  BY DEF Fences
<1>7. QED
  BY <1>2, <1>4, <1>5, <1>6

(* f changes tokens in status, and in the result of those that were active. *)
Changed(f, S) == {f[t] : t \in S}

Changes(f, old, epoch, later) ==
    /\ f \in [old -> Token]
    /\ epoch \in Nat /\ later \in Nat /\ epoch <= later
    /\ \A t \in old :
          /\ f[t].op = t.op /\ f[t].epoch = t.epoch /\ f[t].fence = t.fence
          /\ f[t].status = "active" => t.status = "active" /\ later = epoch
          /\ t.status # "active" => f[t].result = t.result

(* Tokens changed in this way stay sound. *)
LEMMA ChangedTokens ==
    ASSUME NEW f, NEW old, NEW epoch, NEW later,
           Changes(f, old, epoch, later), SoundTokens(old, epoch)
    PROVE  SoundTokens(Changed(f, old), later) /\ Ages(old, Changed(f, old))
<1> DEFINE new == Changed(f, old)
<1>1. new \subseteq Token
  BY DEF Changed, Changes
<1>s. \A t \in old : f[t] \in new /\ t \in Token
  BY DEF Changed, SoundTokens
<1>t. \A u \in new : \E t \in old : u = f[t]
  BY DEF Changed
<1> HIDE DEF new
<1>2. \A u \in new : u.epoch <= later /\ (u.status = "active" => u.epoch = later)
  BY <1>s, <1>t DEF SoundTokens, Token, Changes
<1>3. \A u, v \in new : u.fence = v.fence => u = v
  BY <1>t DEF SoundTokens, Changes
<1>4. Fences(new) = Fences(old)
  <2>1. \A t \in old : f[t] \in new /\ f[t].fence = t.fence
    BY <1>s DEF Changes
  <2>2. \A u \in new : \E t \in old : u = f[t] /\ u.fence = t.fence
    BY <1>t DEF Changes
  <2>3. QED
    BY <2>1, <2>2 DEF Fences
<1>5. HasGreatest(new)
  BY <1>4 DEF SoundTokens, HasGreatest
<1>6. Ages(old, new)
  <2>1. ASSUME NEW t \in old
        PROVE  /\ f[t] \in new
               /\ ValueOf(f[t]) = ValueOf(t)
               /\ t.status # "active" => f[t].status # "active" /\ f[t].result = t.result
    BY <1>s DEF ValueOf, Changes
  <2>2. QED
    BY <2>1 DEF Ages
<1>7. SoundTokens(new, later)
  BY <1>1, <1>2, <1>3, <1>5 DEF SoundTokens, Changes
<1>8. QED
  BY <1>6, <1>7 DEF new

LEMMA RetiredToken ==
    ASSUME NEW t \in Token
    PROVE  /\ Retired(t) \in Token
           /\ Retired(t).op = t.op /\ Retired(t).epoch = t.epoch /\ Retired(t).fence = t.fence
           /\ Retired(t).status = "retired" /\ Retired(t).result = t.result
BY DEF Retired, Token

LEMMA SettledToken ==
    ASSUME NEW t \in Token, NEW r \in Results
    PROVE  /\ Settled(t, r) \in Token
           /\ Settled(t, r).op = t.op /\ Settled(t, r).epoch = t.epoch
           /\ Settled(t, r).fence = t.fence /\ Settled(t, r).status = "settled"
BY DEF Settled, Token

LEMMA RetireAllSound ==
    ASSUME SoundTokens(db.tokens, db.epoch)
    PROVE  SoundTokens(RetireAll, db.epoch + 1) /\ Ages(db.tokens, RetireAll)
<1> DEFINE f == [t \in db.tokens |-> Retired(t)]
<1>1. \A t \in db.tokens : t \in Token
  BY DEF SoundTokens
<1>2. f \in [db.tokens -> Token]
  BY <1>1, RetiredToken
<1>3. \A t \in db.tokens : /\ f[t].op = t.op /\ f[t].epoch = t.epoch /\ f[t].fence = t.fence
                           /\ f[t].status = "retired" /\ f[t].result = t.result
  BY <1>1, RetiredToken
<1>4. db.epoch \in Nat
  BY DEF SoundTokens
<1>5. RetireAll = Changed(f, db.tokens)
  BY DEF RetireAll, Changed
<1> HIDE DEF f
<1>6. Changes(f, db.tokens, db.epoch, db.epoch + 1)
  BY <1>2, <1>3, <1>4 DEF Changes
<1>7. QED
  BY <1>5, <1>6, ChangedTokens

LEMMA RetireOneSound ==
    ASSUME SoundTokens(db.tokens, db.epoch), NEW v
    PROVE  SoundTokens(RetireOne(v), db.epoch) /\ Ages(db.tokens, RetireOne(v))
<1> DEFINE f == [t \in db.tokens |-> IF ValueOf(t) = v THEN Retired(t) ELSE t]
<1>1. \A t \in db.tokens : t \in Token
  BY DEF SoundTokens
<1>2. \A t \in db.tokens : f[t] = Retired(t) \/ f[t] = t
  OBVIOUS
<1>3. f = [t \in db.tokens |-> f[t]]
  OBVIOUS
<1>4. db.epoch \in Nat
  BY DEF SoundTokens
<1>5. RetireOne(v) = Changed(f, db.tokens)
  BY DEF RetireOne, Changed
<1> HIDE DEF f
<1>6. f \in [db.tokens -> Token]
  BY <1>1, <1>2, <1>3, RetiredToken
<1>7. \A t \in db.tokens : /\ f[t].op = t.op /\ f[t].epoch = t.epoch /\ f[t].fence = t.fence
                           /\ f[t].status = "active" => t.status = "active"
                           /\ f[t].result = t.result
  BY <1>1, <1>2, RetiredToken
<1>8. Changes(f, db.tokens, db.epoch, db.epoch)
  BY <1>4, <1>6, <1>7 DEF Changes
<1>9. QED
  BY <1>5, <1>8, ChangedTokens

LEMMA SettleOneSound ==
    ASSUME SoundTokens(db.tokens, db.epoch), NEW s, Valid(s), NEW r \in Results
    PROVE  /\ SoundTokens(SettleOne(ValueOf(s), r), db.epoch)
           /\ Ages(db.tokens, SettleOne(ValueOf(s), r))
<1> DEFINE f == [t \in db.tokens |-> IF ValueOf(t) = ValueOf(s) THEN Settled(t, r) ELSE t]
<1>1. \A t \in db.tokens : t \in Token
  BY DEF SoundTokens
<1>2. \A t \in db.tokens : ValueOf(t) = ValueOf(s) => t = s
  BY DEF SoundTokens, ValueOf, Valid
<1>3. \A t \in db.tokens : (t = s /\ f[t] = Settled(t, r)) \/ f[t] = t
  BY <1>2
<1>4. f = [t \in db.tokens |-> f[t]]
  OBVIOUS
<1>5. db.epoch \in Nat
  BY DEF SoundTokens
<1>6. SettleOne(ValueOf(s), r) = Changed(f, db.tokens)
  <2>1. \A t \in db.tokens : f[t] = IF ValueOf(t) = ValueOf(s) THEN Settled(t, r) ELSE t
    OBVIOUS
  <2> HIDE DEF f
  <2>2. QED
    BY <2>1 DEF SettleOne, Changed
<1> HIDE DEF f
<1>7. f \in [db.tokens -> Token]
  BY <1>1, <1>3, <1>4, SettledToken
<1>8. \A t \in db.tokens : /\ f[t].op = t.op /\ f[t].epoch = t.epoch /\ f[t].fence = t.fence
                           /\ f[t].status = "active" => t.status = "active"
                           /\ t.status # "active" => f[t].result = t.result
  BY <1>1, <1>3, SettledToken DEF Valid
<1>9. Changes(f, db.tokens, db.epoch, db.epoch)
  BY <1>5, <1>7, <1>8 DEF Changes
<1>10. QED
  BY <1>6, <1>9, ChangedTokens

LEMMA FreshSound ==
    ASSUME Sound(db), db.version > 0, NEW o \in Ops
    PROVE  /\ SoundTokens(db.tokens \cup {Fresh(o)}, db.epoch)
           /\ Ages(db.tokens, db.tokens \cup {Fresh(o)})
           /\ ValueOf(Fresh(o)) \in Value
<1> DEFINE t == Fresh(o)
           new == db.tokens \cup {t}
<1>s. SoundTokens(db.tokens, db.epoch) /\ db.epoch > 0 /\ db.epoch \in Nat
  BY DEF Sound, Store, SoundTokens
<1>1. NextFence \in Nat \ {0} /\ \A u \in db.tokens : u.fence < NextFence
  BY <1>s, NextFenceIsNew
<1>2. t \in Token /\ t.fence = NextFence /\ t.epoch = db.epoch /\ t.op = o
  BY <1>s, <1>1 DEF Fresh, Token
<1>3. new \subseteq Token
  BY <1>s, <1>2 DEF SoundTokens
<1>4. \A u \in new : u.epoch <= db.epoch /\ (u.status = "active" => u.epoch = db.epoch)
  BY <1>s, <1>2 DEF SoundTokens
<1>5. \A u, v \in new : u.fence = v.fence => u = v
  BY <1>s, <1>1, <1>2 DEF SoundTokens, Token
<1>6. HasGreatest(new)
  <2>1. Fences(new) = Fences(db.tokens) \cup {NextFence}
    BY <1>2 DEF Fences
  <2>2. \A k \in Fences(db.tokens) : k <= NextFence
    BY <1>1, <1>s DEF Fences, SoundTokens, Token
  <2>3. QED
    BY <2>1, <2>2, <1>1 DEF HasGreatest
<1>7. Ages(db.tokens, new)
  BY DEF Ages
<1>8. ValueOf(t) \in Value
  BY <1>s, <1>1, <1>2 DEF ValueOf, Value
<1>9. QED
  BY <1>s, <1>3, <1>4, <1>5, <1>6, <1>7, <1>8 DEF SoundTokens
-----------------------------------------------------------------------------
LEMMA InitSound == ASSUME Init PROVE IInv
<1>1. Sound(EmptyStore)
  <2>1. EmptyStore \in Store
    BY DEF EmptyStore, Store
  <2>2. Fences({}) = {0}
    BY DEF Fences
  <2>3. HasGreatest({})
    BY <2>2 DEF HasGreatest
  <2>4. QED
    BY <2>1, <2>3 DEF Sound, SoundTokens, EmptyStore
<1>2. work \in [Managers -> Work] /\ \A m \in Managers : work[m][1] = "idle"
  BY DEF Init, Work, Idle
<1>3. QED
  BY <1>1, <1>2, RecoveryAssumption DEF Init, IInv, HandedRetained

(* A manager that has read a sound store sends what leads to a sound one. *)
LEMMA SendKeeps ==
    ASSUME IInv, NEW m \in Managers, NEW key \in Keys, NEW epoch \in Nat, NEW tokens,
           epoch > 0, SoundTokens(tokens, epoch), Ages(db.tokens, tokens),
           Send(m, key, epoch, tokens), UNCHANGED <<db, handed, snapshot, line>>
    PROVE  IInv'
<1> DEFINE c == [key |-> key, base |-> db.version, epoch |-> epoch, tokens |-> tokens]
<1>1. db.version \in Nat
  BY DEF IInv, Sound, Store
<1>2. c \in Command
  BY <1>1 DEF Command, SoundTokens
<1>3. Follows(c)
  BY <1>1 DEF Follows
<1>4. work' = [work EXCEPT ![m] = <<"sending", c>>]
  BY DEF Send
<1> HIDE DEF c
<1>5. work' \in [Managers -> Work]
  BY <1>2, <1>4 DEF IInv, Work
<1>6. ASSUME NEW n \in Managers
      PROVE  /\ work'[n][1] = "validated" => db.epoch > 0
             /\ work'[n][1] = "sending" => Follows(work'[n][2])
  <2>1. CASE n = m
    BY <1>3, <1>4, <2>1 DEF IInv
  <2>2. CASE n # m
    BY <1>4, <2>2 DEF IInv
  <2>3. QED
    BY <2>1, <2>2
<1>7. \A n \in Managers : work'[n][1] = "sending" => Follows(work[n][2])'
  BY <1>6 DEF Follows
<1>8. QED
  BY <1>5, <1>6, <1>7 DEF IInv, HandedRetained

(* A manager that stops, or stands validated, disturbs nothing. *)
LEMMA StopKeeps ==
    ASSUME IInv, NEW m \in Managers, NEW w \in Work, w[1] # "sending",
           w[1] = "validated" => db.epoch > 0,
           work' = [work EXCEPT ![m] = w], UNCHANGED <<db, snapshot, line>>,
           handed' \subseteq Token \X (1 .. line), HandedRetained'
    PROVE  IInv'
<1>1. work' \in [Managers -> Work]
  BY DEF IInv
<1>2. ASSUME NEW n \in Managers
      PROVE  /\ work'[n][1] = "validated" => db.epoch > 0
             /\ work'[n][1] = "sending" => Follows(work'[n][2])
  <2>1. CASE n = m
    BY <2>1 DEF IInv
  <2>2. CASE n # m
    BY <2>2 DEF IInv
  <2>3. QED
    BY <2>1, <2>2
<1>3. \A n \in Managers : work'[n][1] = "sending" => Follows(work[n][2])'
  BY <1>2 DEF Follows
<1>4. QED
  BY <1>1, <1>2, <1>3 DEF IInv

(* The store moves to a sound one with a higher version and the tokens aged:
   no command being sent expects the new version. *)
LEMMA WriteKeeps ==
    ASSUME IInv, Sound(db'), db'.version = db.version + 1, db'.epoch > 0,
           Ages(db.tokens, db'.tokens),
           UNCHANGED <<work, handed, snapshot, line>>
    PROVE  IInv'
<1>1. db.version \in Nat
  BY DEF IInv, Sound, Store
<1>2. ASSUME NEW n \in Managers, work[n][1] = "sending"
      PROVE  Follows(work[n][2])'
  <2>1. work[n][2] \in Command /\ work[n][2].base <= db.version
    BY <1>2, WorkCases DEF IInv, Follows
  <2>2. work[n][2].base \in Nat
    BY <2>1 DEF Command
  <2>3. QED
    BY <1>1, <2>1, <2>2 DEF Follows
<1>3. HandedRetained'
  BY DEF IInv, HandedRetained, Ages
<1>4. QED
  BY <1>2, <1>3 DEF IInv
-----------------------------------------------------------------------------
(* The managers' reads. *)
LEMMA KeyTypes ==
    /\ \A b \in Boots : <<"epoch", b>> \in Keys
    /\ \A v \in Value : <<"issue", v>> \in Keys /\ <<"retire", v>> \in Keys
BY DEF Keys

LEMMA BeginEpochKeeps ==
    ASSUME IInv, NEW m \in Managers, NEW boot \in Boots, BeginEpoch(m, boot)
    PROVE  IInv'
<1>1. SoundTokens(db.tokens, db.epoch) /\ db.epoch \in Nat
  BY DEF IInv, Sound, SoundTokens
<1>2. SoundTokens(RetireAll, db.epoch + 1) /\ Ages(db.tokens, RetireAll)
  BY <1>1, RetireAllSound
<1>3. QED
  BY <1>1, <1>2, KeyTypes, SendKeeps DEF BeginEpoch

LEMMA IssueKeeps ==
    ASSUME IInv, NEW m \in Managers, NEW o \in Ops, Issue(m, o)
    PROVE  IInv'
<1>1. Sound(db) /\ db.version > 0
  BY DEF IInv, Issue
<1>2. db.epoch \in Nat /\ db.epoch > 0
  BY <1>1 DEF Sound, SoundTokens
<1>3. /\ SoundTokens(db.tokens \cup {Fresh(o)}, db.epoch)
      /\ Ages(db.tokens, db.tokens \cup {Fresh(o)})
      /\ ValueOf(Fresh(o)) \in Value
  BY <1>1, FreshSound
<1>4. QED
  BY <1>2, <1>3, KeyTypes, SendKeeps DEF Issue

LEMMA ValidateKeeps ==
    ASSUME IInv, NEW m \in Managers, NEW h \in handed, Validate(m, h[1])
    PROVE  IInv'
<1>1. h[1] \in Token /\ h[1].epoch = db.epoch
  BY DEF IInv, Validate, Valid
<1>2. ValueOf(h[1]) \in Value /\ db.epoch > 0
  BY <1>1 DEF Token, Value, ValueOf
<1>3. <<"validated", ValueOf(h[1])>> \in Work
  BY <1>2 DEF Work
<1>4. QED
  BY <1>2, <1>3, StopKeeps DEF Validate, IInv, HandedRetained

LEMMA RetireKeeps ==
    ASSUME IInv, NEW m \in Managers, Retire(m)
    PROVE  IInv'
<1> DEFINE v == work[m][2]
<1>1. v \in Value /\ db.epoch > 0
  BY WorkCases DEF IInv, Retire
<1>2. SoundTokens(db.tokens, db.epoch) /\ db.epoch \in Nat
  BY DEF IInv, Sound, SoundTokens
<1>3. SoundTokens(RetireOne(v), db.epoch) /\ Ages(db.tokens, RetireOne(v))
  BY <1>2, RetireOneSound
<1>4. Send(m, <<"retire", v>>, db.epoch, RetireOne(v))
  BY DEF Retire
<1>5. QED
  BY <1>1, <1>2, <1>3, <1>4, KeyTypes, SendKeeps DEF Retire

LEMMA IdleIsWork == Idle \in Work /\ Idle[1] = "idle"
BY DEF Work, Idle

LEMMA DropKeeps ==
    ASSUME IInv, NEW m \in Managers, Drop(m)
    PROVE  IInv'
BY IdleIsWork, StopKeeps DEF Drop, IInv, HandedRetained

LEMMA AnswerKeeps ==
    ASSUME IInv, NEW m \in Managers, Answer(m)
    PROVE  IInv'
<1> DEFINE c == work[m][2]
<1>1. handed' = handed \cup {<<t, line>> : t \in {u \in db.tokens : c.key = <<"issue", ValueOf(u)>>}}
  BY DEF Answer
<1>2. db.tokens \subseteq Token
  BY DEF IInv, Sound, SoundTokens
<1>3. handed' \subseteq Token \X (1 .. line)
  BY <1>1, <1>2, RecoveryAssumption DEF IInv
<1>4. \A h \in handed' : h \in handed \/ h[1] \in db.tokens
  BY <1>1
<1>5. HandedRetained'
  BY <1>4 DEF HandedRetained, IInv, Answer
<1>6. QED
  BY <1>3, <1>5, IdleIsWork, StopKeeps DEF Answer
-----------------------------------------------------------------------------
(* The writes. *)
LEMMA CommitAges ==
    ASSUME IInv, NEW m \in Managers, Commit(m)
    PROVE  /\ Sound(db') /\ db'.version = db.version + 1 /\ db'.epoch > 0
           /\ Ages(db.tokens, db'.tokens)
<1> DEFINE c == work[m][2]
<1>1. c \in Command /\ Follows(c) /\ c.base = db.version
  BY WorkCases DEF IInv, Commit, Current
<1>2. SoundTokens(c.tokens, c.epoch) /\ c.epoch > 0 /\ Ages(db.tokens, c.tokens)
  BY <1>1 DEF Follows
<1>3. db \in Store /\ db' = After(c)
  BY DEF IInv, Sound, Commit
<1> HIDE DEF c
<1>4. /\ db'.version = db.version + 1 /\ db'.epoch = c.epoch /\ db'.tokens = c.tokens
      /\ db'.receipts = db.receipts \cup {<<c.key, c.base>>}
  BY <1>3 DEF After, Store
<1>5. db' \in Store
  <2>1. c.key \in Keys /\ c.base \in Nat /\ c.epoch \in Nat /\ c.tokens \subseteq Token
    BY <1>1, <1>2 DEF Command, SoundTokens
  <2>2. db.receipts \cup {<<c.key, c.base>>} \subseteq Keys \X Nat
    BY <1>3, <2>1 DEF Store
  <2>3. db' = [version |-> db.version + 1, epoch |-> c.epoch, tokens |-> c.tokens,
               receipts |-> db.receipts \cup {<<c.key, c.base>>}]
    BY <1>3 DEF After, Store
  <2>4. QED
    BY <1>3, <2>1, <2>2, <2>3 DEF Store
<1>6. QED
  BY <1>2, <1>4, <1>5 DEF Sound

LEMMA CommitKeeps ==
    ASSUME IInv, NEW m \in Managers, Commit(m)
    PROVE  IInv'
BY CommitAges, WriteKeeps DEF Commit

LEMMA SettleAges ==
    ASSUME IInv, NEW t, NEW r \in Results, Settle(t, r)
    PROVE  /\ Sound(db') /\ db'.version = db.version + 1 /\ db'.epoch > 0
           /\ Ages(db.tokens, db'.tokens)
<1> DEFINE new == SettleOne(ValueOf(t), r)
<1>1. SoundTokens(db.tokens, db.epoch) /\ db \in Store /\ Valid(t)
  BY DEF IInv, Sound, Settle
<1>2. SoundTokens(new, db.epoch) /\ Ages(db.tokens, new)
  BY <1>1, SettleOneSound
<1>3. db' = [db EXCEPT !.version = @ + 1, !.tokens = new]
  BY DEF Settle
<1>4. t \in Token /\ t.epoch = db.epoch
  BY <1>1 DEF Valid, SoundTokens
<1>5. db.epoch > 0
  BY <1>4 DEF Token
<1> HIDE DEF new
<1>6. db'.version = db.version + 1 /\ db'.epoch = db.epoch /\ db'.tokens = new
  BY <1>1, <1>3 DEF Store
<1>7. new \subseteq Token
  BY <1>2 DEF SoundTokens
<1>8. db' \in Store
  <2>1. db' = [version |-> db.version + 1, epoch |-> db.epoch, tokens |-> new,
               receipts |-> db.receipts]
    BY <1>1, <1>3 DEF Store
  <2>2. QED
    BY <1>1, <1>7, <2>1 DEF Store
<1>9. QED
  BY <1>2, <1>5, <1>6, <1>8 DEF Sound

LEMMA SettleKeeps ==
    ASSUME IInv, NEW t, NEW r \in Results, Settle(t, r)
    PROVE  IInv'
BY SettleAges, WriteKeeps DEF Settle, IInv

LEMMA CaptureKeeps == ASSUME IInv, Capture PROVE IInv'
BY DEF IInv, Capture, Follows, HandedRetained

(* What was handed out is of an earlier line now, and every manager is gone. *)
LEMMA RestoreKeeps == ASSUME IInv, Restore PROVE IInv'
<1>1. Sound(db') /\ Sound(snapshot')
  BY DEF IInv, Restore
<1>2. line \in Nat /\ line' = line + 1 /\ line' \in 1 .. MaxLine
  BY RecoveryAssumption DEF IInv, Restore
<1>3. work' \in [Managers -> Work] /\ \A m \in Managers : work'[m][1] = "idle"
  BY IdleIsWork DEF Restore
<1>4. handed' \subseteq Token \X (1 .. line) /\ 1 .. line \subseteq 1 .. line'
  BY <1>2 DEF IInv, Restore
<1>5. \A h \in handed' : h[2] # line'
  BY <1>2, <1>4
<1>6. QED
  BY <1>1, <1>2, <1>3, <1>4, <1>5 DEF IInv, HandedRetained
-----------------------------------------------------------------------------
LEMMA StutterKeeps == ASSUME IInv, UNCHANGED vars PROVE IInv'
BY DEF IInv, vars, Follows, HandedRetained

LEMMA NextKeeps == ASSUME IInv, [Next]_vars PROVE IInv'
<1>1. ASSUME NEW m \in Managers, NEW boot \in Boots, BeginEpoch(m, boot) PROVE IInv'
  BY <1>1, BeginEpochKeeps
<1>2. ASSUME NEW m \in Managers, NEW o \in Ops, Issue(m, o) PROVE IInv'
  BY <1>2, IssueKeeps
<1>3. ASSUME NEW m \in Managers, NEW h \in handed, Validate(m, h[1]) PROVE IInv'
  BY <1>3, ValidateKeeps
<1>4. ASSUME NEW m \in Managers, Retire(m) \/ Commit(m) \/ Answer(m) \/ Drop(m) PROVE IInv'
  BY <1>4, RetireKeeps, CommitKeeps, AnswerKeeps, DropKeeps
<1>5. ASSUME NEW h \in handed, NEW r \in Results, Settle(h[1], r) PROVE IInv'
  BY <1>5, SettleKeeps
<1>6. CASE Capture \/ Restore
  BY <1>6, CaptureKeeps, RestoreKeeps
<1>7. CASE UNCHANGED vars
  BY <1>7, StutterKeeps
<1>8. QED
  BY <1>1, <1>2, <1>3, <1>4, <1>5, <1>6, <1>7 DEF Next

LEMMA Inductive == Spec => []IInv
<1>1. Init => IInv
  BY InitSound
<1>2. IInv /\ [Next]_vars => IInv'
  BY NextKeeps
<1>3. QED
  BY <1>1, <1>2, PTL DEF Spec

(* The record keeps its types, and no token is of an epoch to come. *)
THEOREM TypeCorrect == Spec => []TypeOK
<1>1. IInv => TypeOK
  <2> SUFFICES ASSUME IInv PROVE TypeOK
    OBVIOUS
  <2>1. db \in Store /\ \A t \in db.tokens : t.epoch <= db.epoch
    BY DEF IInv, Sound, SoundTokens
  <2>2. snapshot \in Store \cup {Nothing}
    BY DEF IInv, Sound
  <2>3. 1 .. line \subseteq 1 .. MaxLine
    BY RecoveryAssumption DEF IInv
  <2>4. QED
    BY <2>1, <2>2, <2>3 DEF IInv, TypeOK
<1>2. QED
  BY <1>1, Inductive, PTL

(* begin_epoch fences every token of an earlier epoch: a manager that read the
   record before the epoch began cannot write over it (RecoveryManager). *)
THEOREM TokensOfOldEpochsAreFenced == Spec => []EpochFence
<1>1. IInv => EpochFence
  BY DEF IInv, Sound, SoundTokens, EpochFence
<1>2. QED
  BY <1>1, Inductive, PTL

(* issue_token gives no fence twice to the tokens of one store, whatever the
   managers that issue at the same time. *)
THEOREM FencesAreUnique == Spec => []FencesUnique
<1>1. IInv => FencesUnique
  BY DEF IInv, Sound, SoundTokens, FencesUnique
<1>2. QED
  BY <1>1, Inductive, PTL

(* The store that handed a token out retains it, until it is replaced. *)
THEOREM HandedTokensAreRetained == Spec => []HandedRetained
<1>1. IInv => HandedRetained
  BY DEF IInv
<1>2. QED
  BY <1>1, Inductive, PTL

(* retire_token and settle are final, short of a restore. *)
THEOREM TokensAge == Spec => TokensOnlyAge
<1> DEFINE Step == line' = line =>
         \A t \in db.tokens : \E u \in db'.tokens :
            /\ ValueOf(u) = ValueOf(t)
            /\ t.status # "active" => u.status # "active" /\ u.result = t.result
<1>1. ASSUME IInv, [Next]_vars PROVE [Step]_vars
  <2>1. ASSUME Ages(db.tokens, db'.tokens) PROVE Step
    BY <2>1 DEF Ages
  <2>2. ASSUME db' = db PROVE Step
    BY <2>1, <2>2, AgesIsReflexive
  <2>3. ASSUME NEW m \in Managers, Commit(m) PROVE Step
    BY <1>1, <2>1, <2>3, CommitAges
  <2>4. ASSUME NEW h \in handed, NEW r \in Results, Settle(h[1], r) PROVE Step
    BY <1>1, <2>1, <2>4, SettleAges
  <2>5. CASE Restore
    <3>1. line \in Nat /\ line' = line + 1
      BY <1>1, <2>5, RecoveryAssumption DEF IInv, Restore
    <3>2. line' # line
      BY <3>1
    <3>3. QED
      BY <3>2
  <2>6. CASE UNCHANGED vars
    BY <2>6
  <2>7. ASSUME NEW m \in Managers, NEW boot \in Boots, BeginEpoch(m, boot) PROVE db' = db
    BY <2>7 DEF BeginEpoch
  <2>8. ASSUME NEW m \in Managers, NEW o \in Ops, Issue(m, o) PROVE db' = db
    BY <2>8 DEF Issue
  <2>9. ASSUME NEW m \in Managers, NEW h \in handed, Validate(m, h[1]) PROVE db' = db
    BY <2>9 DEF Validate
  <2>10. ASSUME NEW m \in Managers, Retire(m) \/ Answer(m) \/ Drop(m) PROVE db' = db
    BY <2>10 DEF Retire, Answer, Drop
  <2>11. ASSUME Capture PROVE db' = db
    BY <2>11 DEF Capture
  <2> HIDE DEF Step
  <2>12. QED
    BY <1>1, <2>2, <2>3, <2>4, <2>5, <2>6, <2>7, <2>8, <2>9, <2>10, <2>11 DEF Next
<1>2. QED
  BY <1>1, Inductive, PTL DEF Spec, TokensOnlyAge

-----------------------------------------------------------------------------
(* Event cursors (EventCursor).  A position of a stream together with the id of
   the event there names the whole past: two streams with the same id in the
   same place are the same up to it.  So the events behind a cursor that is
   admitted are those of the present stream, whatever was rolled back or
   restored since they were read.  Reading on is from the stream the cursor was
   checked against, for rows behind an event that stayed in its place are behind
   the same past. *)

Given  == [at : Nat, id : Nat]
Cursor == [after : Nat, last : Nat, watermark : Nat, given : Seq(Given)]

CommonPast(a, b) ==
    \A n \in DOMAIN a \cap DOMAIN b : a[n].id = b[n].id => \A m \in 1 .. n : a[m] = b[m]

(* What was given along c is what T shows up to its position. *)
Matches(c, T) ==
    /\ \A i, j \in DOMAIN c.given : i < j => c.given[i].at < c.given[j].at
    /\ \A i \in DOMAIN c.given :
          /\ c.given[i].at \in 1 .. c.after /\ c.given[i].at \in DOMAIN T
          /\ T[c.given[i].at].shown /\ T[c.given[i].at].id = c.given[i].id
    /\ \A p \in DOMAIN T : p <= c.after /\ T[p].shown =>
          \E i \in DOMAIN c.given : c.given[i].at = p

Tracks(c, T) ==
    c.after <= Len(T) /\ (c.last # NoEvent => T[c.after].id = c.last) => Matches(c, T)

(* A cursor behind no event yet, or behind one. *)
WellPlaced(c) == IF c.last = NoEvent THEN c.after = 0 /\ c.given = <<>> ELSE c.after # 0

Spent(T, n) == \A i \in DOMAIN T : T[i].id <= n

(* The present stream S and the kept one K, when n ids were given. *)
Streams(S, K, n) ==
    /\ S \in Seq(Event) /\ K \in Seq(Event)
    /\ Spent(S, n) /\ Spent(K, n)
    /\ CommonPast(S, K)

(* A cursor among these streams. *)
Among(c, S, K, n) ==
    /\ c.last <= n
    /\ WellPlaced(c)
    /\ Tracks(c, S) /\ Tracks(c, K)

Page == [step : {"idle", "checked", "measured"}, seen : Nat, watermark : Nat]

(* What the check of a cursor saw at its place: its event, or none. *)
Checked(c, g) == g.step # "idle" => g.seen \in {NoEvent, c.last}

Types ==
    /\ spent \in Nat
    /\ stream \in Seq(Event) /\ tail \in Seq(Event)
    /\ cursor \in [Readers -> Cursor]
    /\ page \in [Readers -> Page]
    /\ astray \subseteq Readers

CursorInv ==
    /\ Types
    /\ Streams(Present, kept, spent)
    /\ \A r \in Readers \ astray :
          Among(cursor[r], Present, kept, spent) /\ Checked(cursor[r], page[r])

LEMMA StreamParts ==
    ASSUME NEW T \in Seq(Event)
    PROVE  /\ DOMAIN T = 1 .. Len(T) /\ Len(T) \in Nat
           /\ \A i \in DOMAIN T : T[i].id \in Nat /\ T[i].id # NoEvent /\ T[i].shown \in BOOLEAN
<1>1. \A e \in Event : e.id \in Nat /\ e.id # NoEvent /\ e.shown \in BOOLEAN
  BY CursorAssumption DEF CursorAssumption, Event, NoEvent
<1>2. DOMAIN T = 1 .. Len(T) /\ Len(T) \in Nat /\ \A i \in DOMAIN T : T[i] \in Event
  OBVIOUS
<1> QED
  BY <1>1, <1>2

LEMMA CursorParts ==
    ASSUME NEW c \in Cursor
    PROVE  /\ c.after \in Nat /\ c.last \in Nat /\ c.watermark \in Nat
           /\ c.given \in Seq(Given)
           /\ DOMAIN c.given = 1 .. Len(c.given) /\ Len(c.given) \in Nat
           /\ \A i \in DOMAIN c.given : c.given[i].at \in Nat /\ c.given[i].id \in Nat
<1>1. \A g \in Given : g.at \in Nat /\ g.id \in Nat
  BY DEF Given
<1>2. /\ c.after \in Nat /\ c.last \in Nat /\ c.watermark \in Nat
      /\ c.given \in Seq(Given)
  BY DEF Cursor
<1>3. /\ DOMAIN c.given = 1 .. Len(c.given) /\ Len(c.given) \in Nat
      /\ \A i \in DOMAIN c.given : c.given[i] \in Given
  BY <1>2
<1> QED
  BY <1>1, <1>2, <1>3

LEMMA EmptyTail == ASSUME NEW S, NEW s \in Seq(S) PROVE s \o <<>> = s
OBVIOUS

LEMMA ConcatParts ==
    ASSUME NEW S, NEW s \in Seq(S), NEW t \in Seq(S)
    PROVE  /\ s \o t \in Seq(S) /\ Len(s \o t) = Len(s) + Len(t)
           /\ DOMAIN (s \o t) = 1 .. Len(s) + Len(t)
           /\ \A i \in 1 .. Len(s) : (s \o t)[i] = s[i]
           /\ \A k \in 1 .. Len(t) : /\ Len(s) + k \in 1 .. Len(s) + Len(t)
                                     /\ (s \o t)[Len(s) + k] = t[k]
OBVIOUS

LEMMA PresentParts ==
    ASSUME stream \in Seq(Event), tail \in Seq(Event)
    PROVE  /\ Present \in Seq(Event) /\ Len(Present) = Len(stream) + Len(tail)
           /\ \A i \in DOMAIN stream : i \in DOMAIN Present /\ Present[i] = stream[i]
BY DEF Present

(* A matching stream may be changed beyond the cursor. *)
LEMMA MatchesSamePast ==
    ASSUME NEW c \in Cursor, NEW T \in Seq(Event), NEW U \in Seq(Event),
           c.after <= Len(T), c.after <= Len(U), \A m \in 1 .. c.after : T[m] = U[m],
           Matches(c, T)
    PROVE  Matches(c, U)
<1>1. \A p \in 1 .. c.after : p \in DOMAIN T /\ p \in DOMAIN U /\ T[p] = U[p]
  BY StreamParts, CursorParts
<1>2. ASSUME NEW p \in DOMAIN U, p <= c.after, U[p].shown
      PROVE  \E i \in DOMAIN c.given : c.given[i].at = p
  <2>1. c.after \in Nat /\ DOMAIN U = 1 .. Len(U) /\ Len(U) \in Nat
    BY StreamParts, CursorParts
  <2>2. p \in 1 .. c.after
    BY <1>2, <2>1
  <2> QED
    BY <1>1, <1>2, <2>2 DEF Matches
<1> QED
  BY <1>1, <1>2 DEF Matches

LEMMA TracksPrefix ==
    ASSUME NEW c \in Cursor, WellPlaced(c), NEW T \in Seq(Event), NEW U \in Seq(Event),
           Len(U) <= Len(T), \A i \in DOMAIN U : T[i] = U[i], Tracks(c, T)
    PROVE  Tracks(c, U)
<1> SUFFICES ASSUME c.after <= Len(U), c.last # NoEvent => U[c.after].id = c.last
             PROVE  Matches(c, U)
  BY DEF Tracks
<1>1. c.after <= Len(T) /\ \A m \in 1 .. c.after : T[m] = U[m]
  BY StreamParts, CursorParts
<1>2. c.last # NoEvent => T[c.after].id = c.last
  BY <1>1, CursorParts DEF WellPlaced
<1> QED
  BY <1>1, <1>2, MatchesSamePast DEF Tracks

LEMMA TracksAppend ==
    ASSUME NEW c \in Cursor, WellPlaced(c), NEW T \in Seq(Event), NEW e \in Event,
           c.last # e.id, Tracks(c, T)
    PROVE  Tracks(c, Append(T, e))
<1> DEFINE U == Append(T, e)
<1>1. /\ U \in Seq(Event) /\ Len(U) = Len(T) + 1 /\ U[Len(T) + 1] = e
      /\ \A i \in 1 .. Len(T) : U[i] = T[i]
  OBVIOUS
<1> HIDE DEF U
<1> SUFFICES ASSUME c.after <= Len(U), c.last # NoEvent => U[c.after].id = c.last
             PROVE  Matches(c, U)
  BY DEF Tracks, U
<1>2. c.after <= Len(T) /\ c.after \in Nat /\ Len(T) \in Nat
  BY <1>1, StreamParts, CursorParts DEF WellPlaced
<1>3. \A m \in 1 .. c.after : T[m] = U[m]
  BY <1>1, <1>2
<1>4. c.last # NoEvent => T[c.after].id = c.last
  BY <1>2, <1>3 DEF WellPlaced
<1> QED
  BY <1>1, <1>2, <1>3, <1>4, MatchesSamePast DEF Tracks

(* The rows of a page are behind the cursor, ascending, and leave nothing out. *)
LEMMA PageRows ==
    ASSUME Present \in Seq(Event), NEW after \in Nat, NEW watermark \in Nat,
           NEW rows \in SeqOf(DOMAIN Present, Limit), IsPage(rows, after, watermark)
    PROVE  /\ rows \in Seq(DOMAIN Present) /\ DOMAIN rows = 1 .. Len(rows) /\ Len(rows) \in Nat
           /\ \A k \in DOMAIN rows : /\ rows[k] \in DOMAIN Present /\ rows[k] \in Nat
                                     /\ rows[k] > after /\ rows[k] <= watermark
                                     /\ Present[rows[k]].shown
           /\ \A k, l \in DOMAIN rows : k < l => rows[k] < rows[l]
           /\ \A p \in DOMAIN Present : p > after /\ p <= watermark /\ Present[p].shown =>
                 (\E k \in DOMAIN rows : rows[k] = p) \/ (Len(rows) = Limit /\ Last(rows) < p)
<1>1. DOMAIN Present = 1 .. Len(Present) /\ Len(Present) \in Nat
  BY StreamParts
<1>2. PICK m \in 0 .. Limit : rows \in [1 .. m -> DOMAIN Present]
  BY DEF SeqOf
<1>3. m \in Nat
  BY <1>2, CursorAssumption DEF CursorAssumption
<1>4. rows \in Seq(DOMAIN Present) /\ DOMAIN rows = 1 .. Len(rows) /\ Len(rows) \in Nat
  BY <1>2, <1>3
<1>5. \A k \in DOMAIN rows : rows[k] \in Shown(after + 1, watermark)
  BY DEF IsPage, ToSet
<1>6. \A k \in DOMAIN rows : /\ rows[k] \in DOMAIN Present /\ rows[k] \in Nat
                             /\ rows[k] > after /\ rows[k] <= watermark
                             /\ Present[rows[k]].shown
  BY <1>1, <1>5 DEF Shown
<1>7. \A k, l \in DOMAIN rows : k < l => rows[k] < rows[l]
  BY DEF IsPage, Ascending
<1>8. ASSUME NEW p \in DOMAIN Present, p > after, p <= watermark, Present[p].shown,
             ~\E k \in DOMAIN rows : rows[k] = p
      PROVE  Len(rows) = Limit /\ Last(rows) < p
  <2>1. p \in Shown(after + 1, watermark)
    BY <1>1, <1>8 DEF Shown
  <2>2. p \notin ToSet(rows)
    BY <1>8 DEF ToSet
  <2> QED
    BY <2>1, <2>2 DEF IsPage
<1> QED
  BY <1>4, <1>6, <1>7, <1>8

LEMMA EventsOfRows ==
    ASSUME Present \in Seq(Event), NEW rows \in Seq(DOMAIN Present)
    PROVE  /\ Events(rows) \in Seq(Given) /\ Len(Events(rows)) = Len(rows)
           /\ \A k \in 1 .. Len(rows) : /\ Events(rows)[k].at = rows[k]
                                        /\ Events(rows)[k].id = Present[rows[k]].id
<1>1. \A k \in 1 .. Len(rows) : rows[k] \in Nat /\ Present[rows[k]].id \in Nat
  BY StreamParts
<1>2. \A k \in 1 .. Len(rows) : [at |-> rows[k], id |-> Present[rows[k]].id] \in Given
  BY <1>1 DEF Given
<1>3. Events(rows) = [k \in 1 .. Len(rows) |-> [at |-> rows[k], id |-> Present[rows[k]].id]]
  BY DEF Events
<1>4. Events(rows) \in Seq(Given) /\ Len(Events(rows)) = Len(rows)
  BY <1>2, <1>3
<1> QED
  BY <1>3, <1>4

(* Reading on from a cursor whose past is the present one: what it was given and the rows of the page
   are what the stream shows up to the last row. *)
LEMMA PageMatches ==
    ASSUME Present \in Seq(Event), NEW c \in Cursor, c.after <= Len(Present), Matches(c, Present),
           NEW watermark \in Nat, NEW rows \in SeqOf(DOMAIN Present, Limit),
           IsPage(rows, c.after, watermark), rows # <<>>
    PROVE  LET n == Behind(c, rows, watermark) IN
           /\ n \in Cursor /\ n.after \in DOMAIN Present /\ n.last = Present[n.after].id
           /\ Matches(n, Present)
<1> DEFINE n == Behind(c, rows, watermark)
           read == c.given \o Events(rows)
           g == Len(c.given)
<1>1. /\ c.after \in Nat /\ c.given \in Seq(Given) /\ g \in Nat /\ DOMAIN c.given = 1 .. g
      /\ \A i \in DOMAIN c.given : c.given[i].at \in Nat /\ c.given[i].id \in Nat
  BY CursorParts
<1>2. /\ rows \in Seq(DOMAIN Present) /\ DOMAIN rows = 1 .. Len(rows) /\ Len(rows) \in Nat
      /\ \A k \in DOMAIN rows : /\ rows[k] \in DOMAIN Present /\ rows[k] \in Nat
                                /\ rows[k] > c.after /\ rows[k] <= watermark
                                /\ Present[rows[k]].shown
      /\ \A k, l \in DOMAIN rows : k < l => rows[k] < rows[l]
      /\ \A p \in DOMAIN Present : p > c.after /\ p <= watermark /\ Present[p].shown =>
            (\E k \in DOMAIN rows : rows[k] = p) \/ (Len(rows) = Limit /\ Last(rows) < p)
  BY <1>1, PageRows
<1>3. /\ Events(rows) \in Seq(Given) /\ Len(Events(rows)) = Len(rows)
      /\ \A k \in 1 .. Len(rows) : /\ Events(rows)[k].at = rows[k]
                                   /\ Events(rows)[k].id = Present[rows[k]].id
  BY <1>2, EventsOfRows
<1>4. /\ read \in Seq(Given) /\ Len(read) = g + Len(rows) /\ DOMAIN read = 1 .. g + Len(rows)
      /\ \A i \in 1 .. g : read[i] = c.given[i]
      /\ \A k \in 1 .. Len(rows) : /\ g + k \in 1 .. g + Len(rows)
                                   /\ read[g + k] = Events(rows)[k]
  <2> DEFINE ev == Events(rows)
  <2>1. c.given \in Seq(Given) /\ ev \in Seq(Given)
    BY <1>1, <1>3
  <2>2. Len(ev) = Len(rows)
    BY <1>3
  <2> HIDE DEF ev
  <2>3. /\ c.given \o ev \in Seq(Given) /\ Len(c.given \o ev) = Len(c.given) + Len(ev)
        /\ DOMAIN (c.given \o ev) = 1 .. Len(c.given) + Len(ev)
        /\ \A i \in 1 .. Len(c.given) : (c.given \o ev)[i] = c.given[i]
        /\ \A k \in 1 .. Len(ev) : /\ Len(c.given) + k \in 1 .. Len(c.given) + Len(ev)
                                    /\ (c.given \o ev)[Len(c.given) + k] = ev[k]
    BY <2>1, ConcatParts
  <2> QED
    BY <2>2, <2>3 DEF ev
<1>5. \A i \in DOMAIN read : i \in 1 .. g \/ \E k \in 1 .. Len(rows) : i = g + k
  <2> SUFFICES ASSUME NEW i \in DOMAIN read, i \notin 1 .. g
               PROVE  \E k \in 1 .. Len(rows) : i = g + k
    OBVIOUS
  <2> DEFINE m == Len(rows)
  <2>0. g \in Nat /\ m \in Nat /\ i \in 1 .. g + m
    BY <1>1, <1>2, <1>4
  <2> HIDE DEF g, m
  <2>1. i - g \in 1 .. m /\ i = g + (i - g)
    BY <2>0
  <2> QED
    BY <2>1 DEF m
<1>6. Len(rows) \in DOMAIN rows /\ Last(rows) = rows[Len(rows)]
  BY <1>2 DEF Last
<1>7. /\ n.after = Last(rows) /\ n.last = Present[Last(rows)].id /\ n.watermark = watermark
      /\ n.given = read
  BY DEF Behind
<1>8. n \in Cursor
  <2>1. Present[Last(rows)].id \in Nat /\ Last(rows) \in Nat
    BY <1>2, <1>6, StreamParts
  <2>2. n = [after |-> n.after, last |-> n.last, watermark |-> n.watermark, given |-> n.given]
    BY DEF Behind
  <2> QED
    BY <1>4, <1>7, <2>1, <2>2 DEF Cursor
<1> HIDE DEF n, read, g
<1>9. ASSUME NEW k \in DOMAIN rows
      PROVE  rows[k] \in Nat /\ rows[k] > c.after /\ rows[k] <= n.after
  <2>1. rows[k] \in Nat /\ rows[k] > c.after
    BY <1>2
  <2>2. k = Len(rows) \/ k < Len(rows)
    BY <1>2
  <2>3. k < Len(rows) => rows[k] < rows[Len(rows)]
    BY <1>2, <1>6
  <2>4. rows[Len(rows)] \in Nat
    BY <1>2, <1>6
  <2> QED
    BY <1>6, <1>7, <2>1, <2>2, <2>3, <2>4
<1>10. \A i \in 1 .. g : /\ read[i].at \in 1 .. c.after /\ read[i].at \in DOMAIN Present
                         /\ Present[read[i].at].shown /\ Present[read[i].at].id = read[i].id
  BY <1>1, <1>4 DEF Matches
<1>11. \A k \in 1 .. Len(rows) : read[g + k].at = rows[k] /\ read[g + k].id = Present[rows[k]].id
  BY <1>3, <1>4
<1>12. \A i \in DOMAIN n.given :
          /\ n.given[i].at \in 1 .. n.after /\ n.given[i].at \in DOMAIN Present
          /\ Present[n.given[i].at].shown /\ Present[n.given[i].at].id = n.given[i].id
  <2> SUFFICES ASSUME NEW i \in DOMAIN read
               PROVE  /\ read[i].at \in 1 .. n.after /\ read[i].at \in DOMAIN Present
                      /\ Present[read[i].at].shown /\ Present[read[i].at].id = read[i].id
    BY <1>7
  <2>1. n.after \in Nat /\ c.after < n.after
    BY <1>2, <1>6, <1>7
  <2>2. CASE i \in 1 .. g
    BY <1>1, <1>10, <2>1, <2>2
  <2>3. ASSUME NEW k \in 1 .. Len(rows), i = g + k
        PROVE  /\ read[i].at \in 1 .. n.after /\ read[i].at \in DOMAIN Present
               /\ Present[read[i].at].shown /\ Present[read[i].at].id = read[i].id
    <3>1. k \in DOMAIN rows /\ read[i].at = rows[k] /\ read[i].id = Present[rows[k]].id
      BY <1>2, <1>11, <2>3
    <3>2. rows[k] \in DOMAIN Present /\ Present[rows[k]].shown
      BY <1>2, <3>1
    <3>3. rows[k] \in 1 .. n.after
      BY <1>1, <1>9, <2>1, <3>1
    <3> QED
      BY <3>1, <3>2, <3>3
  <2> QED
    BY <1>5, <2>2, <2>3
<1>13. \A i, j \in DOMAIN n.given : i < j => n.given[i].at < n.given[j].at
  <2> SUFFICES ASSUME NEW i \in DOMAIN read, NEW j \in DOMAIN read, i < j
               PROVE  read[i].at < read[j].at
    BY <1>7
  <2>1. CASE i \in 1 .. g /\ j \in 1 .. g
    BY <1>1, <1>4, <2>1 DEF Matches
  <2>2. ASSUME i \in 1 .. g, NEW l \in 1 .. Len(rows), j = g + l
        PROVE  read[i].at < read[j].at
    <3>1. read[i].at \in 1 .. c.after
      BY <1>10, <2>2
    <3>2. read[j].at = rows[l] /\ rows[l] \in Nat /\ rows[l] > c.after
      BY <1>2, <1>11, <2>2
    <3> QED
      BY <1>1, <3>1, <3>2
  <2>3. ASSUME NEW k \in 1 .. Len(rows), i = g + k, NEW l \in 1 .. Len(rows), j = g + l
        PROVE  read[i].at < read[j].at
    <3>1. k < l
      BY <1>1, <1>2, <2>3
    <3> QED
      BY <1>2, <1>11, <2>3, <3>1
  <2>4. ASSUME NEW k \in 1 .. Len(rows), i = g + k, j \in 1 .. g
        PROVE  FALSE
    BY <1>1, <1>2, <2>4
  <2> QED
    BY <1>5, <2>1, <2>2, <2>3, <2>4
<1>14. ASSUME NEW p \in DOMAIN Present, p <= n.after, Present[p].shown
       PROVE  \E i \in DOMAIN n.given : n.given[i].at = p
  <2>0. p \in Nat /\ n.after \in Nat
    BY <1>2, <1>6, <1>7, StreamParts
  <2>1. CASE p <= c.after
    <3>1. PICK i \in DOMAIN c.given : c.given[i].at = p
      BY <1>14, <2>1 DEF Matches
    <3>2. i \in DOMAIN n.given /\ n.given[i].at = p
      BY <1>1, <1>2, <1>4, <1>7, <3>1
    <3> QED
      BY <3>2
  <2>2. CASE ~(p <= c.after)
    <3>0. Last(rows) <= watermark
      BY <1>2, <1>6
    <3>1. p > c.after /\ p <= watermark
      BY <1>1, <1>7, <1>14, <2>0, <2>2, <3>0
    <3>2. ~(Last(rows) < p)
      BY <1>7, <1>14, <2>0
    <3>3. PICK k \in DOMAIN rows : rows[k] = p
      BY <1>2, <1>14, <3>1, <3>2
    <3>4. g + k \in DOMAIN n.given /\ n.given[g + k].at = p
      BY <1>2, <1>4, <1>7, <1>11, <3>3
    <3> QED
      BY <3>4
  <2> QED
    BY <2>1, <2>2
<1>15. Matches(n, Present)
  BY <1>12, <1>13, <1>14 DEF Matches
<1> QED
  BY <1>2, <1>6, <1>7, <1>8, <1>15 DEF n

(* A new event has an id that neither stream nor any cursor names. *)
LEMMA AppendKeeps ==
    ASSUME NEW S, NEW K, NEW n \in Nat, Streams(S, K, n), NEW e \in Event, e.id = n + 1
    PROVE  /\ Streams(Append(S, e), K, n + 1)
           /\ \A c \in Cursor : Among(c, S, K, n) => Among(c, Append(S, e), K, n + 1)
<1> DEFINE U == Append(S, e)
<1>1. S \in Seq(Event) /\ K \in Seq(Event)
  BY DEF Streams
<1>2. /\ U \in Seq(Event) /\ Len(U) = Len(S) + 1 /\ U[Len(S) + 1] = e
      /\ DOMAIN U = 1 .. Len(S) + 1 /\ Len(S) \in Nat /\ DOMAIN S = 1 .. Len(S)
      /\ \A i \in 1 .. Len(S) : U[i] = S[i]
  BY <1>1
<1> HIDE DEF U
<1>3. DOMAIN K = 1 .. Len(K) /\ Len(K) \in Nat
  BY <1>1, StreamParts
<1>4. \A i \in DOMAIN K : K[i].id \in Nat /\ K[i].id <= n /\ K[i].id # e.id
  BY <1>1, StreamParts DEF Streams, Spent
<1>5. \A i \in DOMAIN S : S[i].id \in Nat /\ S[i].id <= n
  BY <1>1, StreamParts DEF Streams, Spent
<1>6. Spent(U, n + 1) /\ Spent(K, n + 1)
  <2>1. ASSUME NEW i \in DOMAIN U PROVE U[i].id <= n + 1
    <3>1. i \in DOMAIN S \/ i = Len(S) + 1
      BY <1>2
    <3> QED
      BY <1>2, <1>5, <3>1
  <2>2. \A i \in DOMAIN K : K[i].id <= n + 1
    BY <1>4
  <2> QED
    BY <2>1, <2>2 DEF Spent
<1>7. ASSUME NEW i \in DOMAIN U \cap DOMAIN K, U[i].id = K[i].id
      PROVE  \A m \in 1 .. i : U[m] = K[m]
  <2>1. i \in DOMAIN S
    BY <1>2, <1>4, <1>7
  <2>2. \A m \in 1 .. i : S[m] = K[m]
    BY <1>2, <1>7, <2>1 DEF Streams, CommonPast
  <2> QED
    BY <1>2, <2>1, <2>2
<1>8. ASSUME NEW c \in Cursor, Among(c, S, K, n) PROVE Among(c, U, K, n + 1)
  <2>1. c.last \in Nat /\ c.last <= n
    BY <1>8, CursorParts DEF Among
  <2>2. Tracks(c, U)
    BY <1>1, <1>8, <2>1, TracksAppend DEF Among, U
  <2> QED
    BY <1>8, <2>1, <2>2 DEF Among
<1> QED
  BY <1>1, <1>2, <1>6, <1>7, <1>8 DEF Streams, CommonPast, U

(* What is rolled back leaves a stream that is the beginning of the old one. *)
LEMMA PrefixKeeps ==
    ASSUME NEW S, NEW K, NEW n, Streams(S, K, n), NEW U \in Seq(Event),
           Len(U) <= Len(S), \A i \in DOMAIN U : i \in DOMAIN S /\ S[i] = U[i]
    PROVE  /\ Streams(U, K, n)
           /\ \A c \in Cursor : Among(c, S, K, n) => Among(c, U, K, n)
<1>1. S \in Seq(Event) /\ K \in Seq(Event)
  BY DEF Streams
<1>2. DOMAIN U = 1 .. Len(U) /\ Len(U) \in Nat
  BY StreamParts
<1>3. Spent(U, n)
  BY DEF Streams, Spent
<1>4. ASSUME NEW i \in DOMAIN U \cap DOMAIN K, U[i].id = K[i].id
      PROVE  \A m \in 1 .. i : U[m] = K[m]
  <2>1. \A m \in 1 .. i : S[m] = K[m]
    BY <1>4 DEF Streams, CommonPast
  <2>2. \A m \in 1 .. i : m \in DOMAIN U
    BY <1>2
  <2> QED
    BY <2>1, <2>2
<1>5. \A c \in Cursor : Among(c, S, K, n) => Among(c, U, K, n)
  BY <1>1, TracksPrefix DEF Among
<1> QED
  BY <1>1, <1>3, <1>4, <1>5 DEF Streams, CommonPast

(* A snapshot makes the kept stream the present one, a restore the present stream
   the kept one. *)
LEMMA CopyKeeps ==
    ASSUME NEW S, NEW K, NEW n, Streams(S, K, n)
    PROVE  /\ Streams(S, S, n) /\ Streams(K, K, n)
           /\ \A c \in Cursor : Among(c, S, K, n) => Among(c, S, S, n) /\ Among(c, K, K, n)
BY DEF Streams, CommonPast, Among

(* A cursor stays a cursor behind whatever page. *)
LEMMA BehindTyped ==
    ASSUME Present \in Seq(Event), NEW c \in Cursor, NEW watermark \in Nat,
           NEW rows \in SeqOf(DOMAIN Present, Limit), IsPage(rows, c.after, watermark)
    PROVE  Behind(c, rows, watermark) \in Cursor
<1> DEFINE d == Behind(c, rows, watermark)
           read == c.given \o Events(rows)
<1>1. c.after \in Nat /\ c.last \in Nat /\ c.given \in Seq(Given)
  BY CursorParts
<1>2. /\ rows \in Seq(DOMAIN Present) /\ DOMAIN rows = 1 .. Len(rows) /\ Len(rows) \in Nat
      /\ \A k \in DOMAIN rows : rows[k] \in DOMAIN Present /\ rows[k] \in Nat
  BY <1>1, PageRows
<1>3. read \in Seq(Given)
  <2>1. Events(rows) \in Seq(Given)
    BY <1>2, EventsOfRows
  <2> QED
    BY <1>1, <2>1, ConcatParts
<1>4. rows # <<>> => Last(rows) \in DOMAIN Present /\ Last(rows) \in Nat
  <2>1. rows # <<>> => Len(rows) \in DOMAIN rows
    BY <1>2
  <2> QED
    BY <1>2, <2>1 DEF Last
<1>5. rows # <<>> => Present[Last(rows)].id \in Nat
  BY <1>4, StreamParts
<1>6. /\ d = [after |-> d.after, last |-> d.last, watermark |-> d.watermark, given |-> d.given]
      /\ d.after = (IF rows = <<>> THEN c.after ELSE Last(rows))
      /\ d.last = (IF rows = <<>> THEN c.last ELSE Present[Last(rows)].id)
      /\ d.watermark = watermark /\ d.given = read
  BY DEF Behind
<1> HIDE DEF d, read
<1>7. d.after \in Nat /\ d.last \in Nat /\ d.watermark \in Nat /\ d.given \in Seq(Given)
  BY <1>1, <1>3, <1>4, <1>5, <1>6
<1> QED
  BY <1>6, <1>7 DEF Cursor, d

(* The cursor behind a page is among the streams as the one before it was, when the
   rows were read behind the event that its check saw, or saw missing. *)
LEMMA PageKeeps ==
    ASSUME NEW K, NEW n, Streams(Present, K, n), NEW c \in Cursor, Among(c, Present, K, n),
           NEW watermark \in Nat, NEW rows \in SeqOf(DOMAIN Present, Limit),
           IsPage(rows, c.after, watermark), rows = <<>> \/ Place(c) \in {NoEvent, c.last}
    PROVE  Among(Behind(c, rows, watermark), Present, K, n)
<1> DEFINE d == Behind(c, rows, watermark)
<1>1. Present \in Seq(Event) /\ K \in Seq(Event)
  BY DEF Streams
<1>2. /\ DOMAIN Present = 1 .. Len(Present) /\ Len(Present) \in Nat
      /\ DOMAIN K = 1 .. Len(K) /\ Len(K) \in Nat
  BY <1>1, StreamParts
<1>3. c.after \in Nat /\ c.last \in Nat /\ c.given \in Seq(Given)
  BY CursorParts
<1>4. CASE rows = <<>>
  <2>1. Events(rows) = <<>>
    BY <1>4 DEF Events
  <2>2. c.given \o Events(rows) = c.given
    BY <1>3, <2>1, EmptyTail
  <2>3. d.after = c.after /\ d.last = c.last /\ d.given = c.given
    BY <1>4, <2>2 DEF Behind
  <2> HIDE DEF d
  <2>4. Among(d, Present, K, n)
    BY <2>3 DEF Among, WellPlaced, Tracks, Matches
  <2> QED
    BY <2>4 DEF d
<1>5. CASE rows # <<>>
  <2>1. /\ rows \in Seq(DOMAIN Present)
        /\ \A k \in DOMAIN rows : rows[k] \in DOMAIN Present /\ rows[k] \in Nat /\ rows[k] > c.after
    BY <1>1, <1>3, PageRows
  <2>2. 1 \in DOMAIN rows
    BY <1>5, <2>1
  <2>3. c.after <= Len(Present)
    BY <1>2, <1>3, <2>1, <2>2
  <2>4. c.last # NoEvent => Present[c.after].id = c.last
    <3> SUFFICES ASSUME c.last # NoEvent PROVE Present[c.after].id = c.last
      OBVIOUS
    <3>1. c.after \in DOMAIN Present
      BY <1>2, <1>3, <2>3 DEF Among, WellPlaced
    <3>2. Present[c.after].id # NoEvent
      BY <1>1, <3>1, StreamParts
    <3> QED
      BY <1>5, <3>1, <3>2 DEF Place
  <2>5. Matches(c, Present)
    BY <2>3, <2>4 DEF Among, Tracks
  <2>6. /\ d \in Cursor /\ d.after \in DOMAIN Present /\ d.last = Present[d.after].id
        /\ Matches(d, Present)
    BY <1>1, <1>5, <2>3, <2>5, PageMatches
  <2> HIDE DEF d
  <2>7. d.last # NoEvent /\ d.after # 0 /\ d.last <= n
    BY <1>1, <1>2, <2>6, StreamParts DEF Streams, Spent
  <2>8. Tracks(d, K)
    <3> SUFFICES ASSUME d.after <= Len(K), K[d.after].id = d.last PROVE Matches(d, K)
      BY <2>7 DEF Tracks
    <3>1. d.after \in DOMAIN K
      BY <1>2, <2>6
    <3>2. \A m \in 1 .. d.after : Present[m] = K[m]
      BY <2>6, <3>1 DEF Streams, CommonPast
    <3>3. d.after <= Len(Present)
      BY <1>2, <2>6
    <3> QED
      BY <1>1, <2>6, <3>2, <3>3, MatchesSamePast
  <2>9. Among(d, Present, K, n)
    BY <2>6, <2>7, <2>8 DEF Among, WellPlaced, Tracks
  <2> QED
    BY <2>9 DEF d
<1> QED
  BY <1>4, <1>5

LEMMA StartAmong ==
    ASSUME NEW S, NEW K, NEW n \in Nat, Streams(S, K, n)
    PROVE  Start \in Cursor /\ Among(Start, S, K, n)
<1>1. /\ Start.after = 0 /\ Start.last = NoEvent /\ Start.given = <<>>
      /\ Start.watermark = 0 /\ NoEvent = 0
  BY DEF Start, NoEvent
<1>2. Start \in Cursor
  <2>1. <<>> \in Seq(Given)
    OBVIOUS
  <2> QED
    BY <2>1 DEF Cursor, Start, NoEvent
<1>3. DOMAIN <<>> = {}
  OBVIOUS
<1>4. ASSUME NEW T \in Seq(Event) PROVE Matches(Start, T)
  <2>1. \A p \in DOMAIN T : ~(p <= 0)
    BY StreamParts
  <2> QED
    BY <1>1, <1>3, <2>1 DEF Matches
<1>5. Tracks(Start, S) /\ Tracks(Start, K)
  BY <1>4 DEF Tracks, Streams
<1> QED
  BY <1>1, <1>2, <1>5 DEF Among, WellPlaced

LEMMA Unread == NoPage \in Page /\ \A c : Checked(c, NoPage)
BY DEF NoPage, Page, Checked, NoEvent

LEMMA CursorInitially == CursorInit => CursorInv
<1> SUFFICES ASSUME CursorInit PROVE CursorInv
  OBVIOUS
<1>1. spent = 0 /\ stream = <<>> /\ tail = <<>> /\ kept = <<>> /\ astray = {}
  BY DEF CursorInit
<1>2. <<>> \in Seq(Event) /\ DOMAIN <<>> = {}
  OBVIOUS
<1>3. Present = <<>>
  BY <1>1, <1>2, EmptyTail DEF Present
<1>4. Streams(Present, kept, spent)
  BY <1>1, <1>2, <1>3 DEF Streams, Spent, CommonPast
<1>5. Start \in Cursor /\ Among(Start, Present, kept, spent)
  BY <1>1, <1>4, StartAmong
<1>6. cursor = [r \in Readers |-> Start] /\ page = [r \in Readers |-> NoPage]
  BY DEF CursorInit
<1>7. Types
  BY <1>1, <1>2, <1>5, <1>6, Unread DEF Types
<1> QED
  BY <1>4, <1>5, <1>6, <1>7, Unread DEF CursorInv

LEMMA AppendStep ==
    ASSUME CursorInv, NEW shown \in BOOLEAN, AppendToStream(shown)
    PROVE  CursorInv'
<1> DEFINE e == [id |-> spent + 1, shown |-> shown]
<1>1. /\ Types /\ Streams(Present, kept, spent)
      /\ spent \in Nat /\ stream \in Seq(Event) /\ tail \in Seq(Event)
      /\ kept \in Seq(Event) /\ cursor \in [Readers -> Cursor]
      /\ \A r \in Readers \ astray :
            Among(cursor[r], Present, kept, spent) /\ Checked(cursor[r], page[r])
  BY DEF CursorInv, Types, Streams
<1>2. /\ spent < MaxEvents /\ spent' = spent + 1 /\ tail' = Append(tail, e)
      /\ stream' = stream /\ kept' = kept /\ cursor' = cursor /\ page' = page /\ astray' = astray
  BY DEF AppendToStream
<1>3. e \in Event /\ e.id = spent + 1
  BY <1>1, <1>2, CursorAssumption DEF CursorAssumption, Event
<1> HIDE DEF e
<1>4. tail' \in Seq(Event) /\ spent' \in Nat
  BY <1>1, <1>2, <1>3
<1>5. stream \o Append(tail, e) = Append(stream \o tail, e)
  BY <1>1, <1>3
<1>6. Present' = Append(Present, e)
  BY <1>2, <1>5 DEF Present
<1>7. /\ Streams(Present', kept', spent')
      /\ \A r \in Readers \ astray : Among(cursor[r], Present', kept', spent')
  BY <1>1, <1>2, <1>3, <1>6, AppendKeeps
<1> QED
  BY <1>1, <1>2, <1>4, <1>7 DEF CursorInv, Types

LEMMA EndStep == ASSUME CursorInv, EndTransaction PROVE CursorInv'
<1>1. /\ Types /\ Streams(Present, kept, spent)
      /\ spent \in Nat /\ stream \in Seq(Event) /\ tail \in Seq(Event)
      /\ kept \in Seq(Event) /\ cursor \in [Readers -> Cursor]
      /\ \A r \in Readers \ astray :
            Among(cursor[r], Present, kept, spent) /\ Checked(cursor[r], page[r])
  BY DEF CursorInv, Types, Streams
<1>2. /\ stream' \in {stream, Present} /\ tail' = <<>> /\ spent' = spent
      /\ kept' = kept /\ cursor' = cursor /\ page' = page /\ astray' = astray
  BY DEF EndTransaction
<1>3. /\ Present \in Seq(Event) /\ Len(Present) = Len(stream) + Len(tail)
      /\ \A i \in DOMAIN stream : i \in DOMAIN Present /\ Present[i] = stream[i]
  BY <1>1, PresentParts
<1>4. stream' \in Seq(Event) /\ tail' \in Seq(Event)
  BY <1>1, <1>2, <1>3
<1>5. Present' = stream'
  BY <1>2, <1>4, EmptyTail DEF Present
<1>6. Len(stream') <= Len(Present) /\ \A i \in DOMAIN stream' : i \in DOMAIN Present /\ Present[i] = stream'[i]
  <2>1. Len(stream) <= Len(Present) /\ Len(Present) <= Len(Present)
    BY <1>1, <1>3, StreamParts
  <2> QED
    BY <1>2, <1>3, <2>1
<1>7. /\ Streams(Present', kept', spent')
      /\ \A r \in Readers \ astray : Among(cursor[r], Present', kept', spent')
  BY <1>1, <1>2, <1>4, <1>5, <1>6, PrefixKeeps
<1> QED
  BY <1>1, <1>2, <1>4, <1>7 DEF CursorInv, Types

LEMMA KeepStep == ASSUME CursorInv, KeepSnapshot PROVE CursorInv'
<1>1. /\ Types /\ Streams(Present, kept, spent)
      /\ spent \in Nat /\ stream \in Seq(Event) /\ tail \in Seq(Event)
      /\ kept \in Seq(Event) /\ cursor \in [Readers -> Cursor]
      /\ \A r \in Readers \ astray :
            Among(cursor[r], Present, kept, spent) /\ Checked(cursor[r], page[r])
  BY DEF CursorInv, Types, Streams
<1>2. /\ stream' = stream /\ tail' = tail /\ tail = <<>> /\ spent' = spent
      /\ kept' = stream /\ cursor' = cursor /\ page' = page /\ astray' = astray
  BY DEF KeepSnapshot
<1>3. Present' = Present /\ kept' = Present
  BY <1>1, <1>2, EmptyTail DEF Present
<1>4. /\ Streams(Present', kept', spent')
      /\ \A r \in Readers \ astray : Among(cursor[r], Present', kept', spent')
  BY <1>1, <1>2, <1>3, CopyKeeps
<1> QED
  BY <1>1, <1>2, <1>4 DEF CursorInv, Types

LEMMA RestoreStep == ASSUME CursorInv, RestoreStream PROVE CursorInv'
<1>1. /\ Types /\ Streams(Present, kept, spent)
      /\ spent \in Nat /\ stream \in Seq(Event) /\ tail \in Seq(Event)
      /\ kept \in Seq(Event) /\ cursor \in [Readers -> Cursor]
      /\ \A r \in Readers \ astray :
            Among(cursor[r], Present, kept, spent) /\ Checked(cursor[r], page[r])
  BY DEF CursorInv, Types, Streams
<1>2. /\ stream' = kept /\ tail' = <<>> /\ spent' = spent /\ kept' = kept
      /\ cursor' = cursor /\ page' = [r \in Readers |-> NoPage] /\ astray' = astray
  BY DEF RestoreStream
<1>3. Present' = kept
  BY <1>1, <1>2, EmptyTail DEF Present
<1>4. /\ Streams(Present', kept', spent')
      /\ \A r \in Readers \ astray : Among(cursor[r], Present', kept', spent')
  BY <1>1, <1>2, <1>3, CopyKeeps
<1>5. tail' \in Seq(Event)
  BY <1>2
<1>6. page' \in [Readers -> Page] /\ \A r \in Readers : Checked(cursor[r], page'[r])
  BY <1>2, Unread
<1>7. Types'
  BY <1>1, <1>2, <1>5, <1>6 DEF Types
<1> QED
  BY <1>1, <1>2, <1>4, <1>6, <1>7 DEF CursorInv

(* A step of a reader leaves the streams and the other readers alone. *)
LEMMA ReaderStep ==
    ASSUME CursorInv, NEW r \in Readers,
           OpenPage(r) \/ Measure(r) \/ ReadPage(r) \/ LosePage(r) \/ Restart(r)
    PROVE  CursorInv'
<1>1. /\ Types /\ Streams(Present, kept, spent) /\ Present \in Seq(Event)
      /\ spent \in Nat /\ cursor \in [Readers -> Cursor]
      /\ page \in [Readers -> Page] /\ astray \subseteq Readers
      /\ \A q \in Readers \ astray :
            Among(cursor[q], Present, kept, spent) /\ Checked(cursor[q], page[q])
  BY DEF CursorInv, Types, Streams
<1>2. stream' = stream /\ tail' = tail /\ spent' = spent /\ kept' = kept
  BY DEF OpenPage, Measure, ReadPage, LosePage, Restart
<1>3. Present' = Present
  BY <1>2 DEF Present
<1>4. ASSUME NEW d \in Cursor, cursor' = [cursor EXCEPT ![r] = d],
             NEW g \in Page, page' = [page EXCEPT ![r] = g],
             astray' \subseteq Readers, astray \ {r} \subseteq astray',
             r \notin astray' => Among(d, Present, kept, spent) /\ Checked(d, g)
      PROVE  CursorInv'
  <2>1. cursor' \in [Readers -> Cursor] /\ page' \in [Readers -> Page]
    BY <1>1, <1>4
  <2>2. ASSUME NEW q \in Readers \ astray'
        PROVE  Among(cursor'[q], Present, kept, spent) /\ Checked(cursor'[q], page'[q])
    <3>1. CASE q = r
      BY <1>1, <1>4, <3>1
    <3>2. CASE q # r
      <4>1. q \notin astray /\ cursor'[q] = cursor[q] /\ page'[q] = page[q]
        BY <1>1, <1>4, <3>2
      <4> QED
        BY <1>1, <4>1
    <3> QED
      BY <3>1, <3>2
  <2>3. Types'
    BY <1>1, <1>2, <1>4, <2>1 DEF Types
  <2> QED
    BY <1>1, <1>2, <1>3, <2>2, <2>3 DEF CursorInv
<1> DEFINE c == cursor[r]
           g == page[r]
<1>5. /\ c \in Cursor /\ g \in Page /\ g.seen \in Nat /\ g.watermark \in Nat
      /\ g.step \in {"idle", "checked", "measured"}
  BY <1>1 DEF Page
<1>6. cursor = [cursor EXCEPT ![r] = c] /\ page = [page EXCEPT ![r] = g]
  BY <1>1
<1>7. r \notin astray => Among(c, Present, kept, spent) /\ Checked(c, g)
  BY <1>1
<1>8. CASE OpenPage(r)
  <2> DEFINE h == [step |-> "checked", seen |-> Place(c), watermark |-> 0]
  <2>1. page' = [page EXCEPT ![r] = h] /\ Admits(c) /\ cursor' = cursor /\ astray' = astray
    BY <1>8 DEF OpenPage
  <2>2. Place(c) \in Nat
    BY <1>1, StreamParts DEF Place, NoEvent
  <2>3. h \in Page
    BY <2>2 DEF Page
  <2>4. r \notin astray => Checked(c, h)
    <3> SUFFICES ASSUME r \notin astray PROVE Place(c) \in {NoEvent, c.last}
      BY DEF Checked
    <3>1. DOMAIN Present = 1 .. Len(Present) /\ Len(Present) \in Nat
      BY <1>1, StreamParts
    <3>2. c.last = NoEvent => c.after = 0
      BY <1>7 DEF Among, WellPlaced
    <3> QED
      BY <2>1, <3>1, <3>2 DEF Place, Admits
  <2> HIDE DEF h, c
  <2> QED
    BY <1>1, <1>4, <1>5, <1>6, <1>7, <2>1, <2>3, <2>4
<1>9. CASE Measure(r)
  <2> DEFINE h == [g EXCEPT !.step = "measured", !.watermark = Len(Present)]
  <2>1. /\ page' = [page EXCEPT ![r] = h] /\ g.step # "idle"
        /\ cursor' = cursor /\ astray' = astray
    BY <1>1, <1>9 DEF Measure
  <2>2. Len(Present) \in Nat
    BY <1>1, StreamParts
  <2>3. h \in Page /\ h.seen = g.seen
    BY <1>5, <2>2 DEF Page
  <2>4. r \notin astray => Checked(c, h)
    BY <1>7, <2>1, <2>3 DEF Checked
  <2> HIDE DEF h, c, g
  <2> QED
    BY <1>1, <1>4, <1>5, <1>6, <1>7, <2>1, <2>3, <2>4
<1>10. CASE ReadPage(r)
  <2>1. PICK rows \in SeqOf(DOMAIN Present, Limit) :
           /\ IsPage(rows, c.after, g.watermark)
           /\ cursor' = [cursor EXCEPT ![r] = Behind(c, rows, g.watermark)]
           /\ astray' = IF rows # <<>> /\ Place(c) # g.seen THEN astray \cup {r} ELSE astray
    BY <1>10 DEF ReadPage
  <2>2. g.step # "idle" /\ page' = [page EXCEPT ![r] = NoPage]
    BY <1>10 DEF ReadPage
  <2> DEFINE d == Behind(c, rows, g.watermark)
  <2> HIDE DEF c, g
  <2>3. d \in Cursor
    BY <1>1, <1>5, <2>1, BehindTyped
  <2>4. r \notin astray' => Among(d, Present, kept, spent)
    <3> SUFFICES ASSUME r \notin astray' PROVE Among(d, Present, kept, spent)
      OBVIOUS
    <3>1. r \notin astray /\ (rows = <<>> \/ Place(c) = g.seen)
      BY <2>1
    <3>2. rows = <<>> \/ Place(c) \in {NoEvent, c.last}
      BY <1>7, <2>2, <3>1 DEF Checked
    <3> QED
      BY <1>1, <1>5, <1>7, <2>1, <3>1, <3>2, PageKeeps
  <2>5. astray' \subseteq Readers /\ astray \ {r} \subseteq astray'
    BY <1>1, <2>1
  <2> HIDE DEF d
  <2>6. cursor' = [cursor EXCEPT ![r] = d]
    BY <2>1 DEF d
  <2> QED
    BY <1>4, <2>2, <2>3, <2>4, <2>5, <2>6, Unread
<1>11. CASE LosePage(r)
  <2>1. page' = [page EXCEPT ![r] = NoPage] /\ cursor' = cursor /\ astray' = astray
    BY <1>11 DEF LosePage
  <2> HIDE DEF c
  <2> QED
    BY <1>1, <1>4, <1>5, <1>6, <1>7, <2>1, Unread
<1>12. CASE Restart(r)
  <2>1. /\ g.step = "idle" /\ page' = page /\ cursor' = [cursor EXCEPT ![r] = Start]
        /\ astray' = astray \ {r}
    BY <1>12 DEF Restart
  <2>2. Start \in Cursor /\ Among(Start, Present, kept, spent)
    BY <1>1, StartAmong
  <2>3. Checked(Start, g)
    BY <2>1 DEF Checked
  <2> HIDE DEF c, g
  <2> QED
    BY <1>1, <1>4, <1>5, <1>6, <2>1, <2>2, <2>3
<1> QED
  BY <1>8, <1>9, <1>10, <1>11, <1>12

LEMMA CursorStep == ASSUME CursorInv, [CursorNext]_cursorVars PROVE CursorInv'
<1>1. CASE UNCHANGED cursorVars
  <2>1. /\ stream' = stream /\ tail' = tail /\ spent' = spent
        /\ kept' = kept /\ cursor' = cursor /\ page' = page /\ astray' = astray
    BY <1>1 DEF cursorVars
  <2> QED
    BY <2>1 DEF CursorInv, Types, Present
<1> QED
  BY <1>1, AppendStep, EndStep, KeepStep, RestoreStep, ReaderStep DEF CursorNext

(* EventCursorReader.page: a cursor that is taken, in a store whose transactions
   were rolled back, also between the statements of a page, and that was restored
   from snapshots in any order, has been given the events of the present stream up
   to its position that the filter admits, each once, in order; unless rows were
   read for it behind an event that went or came since its check. *)
THEOREM CursorsFollowTheStream == CursorSpec => []CursorsFollow
<1>1. CursorInv => CursorsFollow
  <2> SUFFICES ASSUME CursorInv, NEW r \in Readers \ astray,
                      Admits(cursor[r]), cursor[r].after <= Len(Present)
               PROVE  LET c == cursor[r]
                          places == [i \in DOMAIN c.given |-> c.given[i].at]
                      IN  /\ Ascending(places)
                          /\ ToSet(places) = Shown(1, c.after)
                          /\ c.given = Events(places)
    BY DEF CursorsFollow, Followed
  <2> DEFINE c == cursor[r]
             places == [i \in DOMAIN c.given |-> c.given[i].at]
  <2>1. c \in Cursor /\ Among(c, Present, kept, spent) /\ Present \in Seq(Event)
    BY DEF CursorInv, Types, Streams
  <2>2. /\ c.after \in Nat /\ c.given \in Seq(Given)
        /\ DOMAIN c.given = 1 .. Len(c.given) /\ Len(c.given) \in Nat
        /\ DOMAIN Present = 1 .. Len(Present) /\ Len(Present) \in Nat
    BY <2>1, CursorParts, StreamParts
  <2>3. Matches(c, Present)
    BY <2>1 DEF Admits, Among, Tracks
  <2> HIDE DEF c
  <2>4. DOMAIN places = DOMAIN c.given /\ \A i \in DOMAIN c.given : places[i] = c.given[i].at
    OBVIOUS
  <2>5. Ascending(places)
    BY <2>3, <2>4 DEF Matches, Ascending
  <2>6. ASSUME NEW p \in ToSet(places) PROVE p \in Shown(1, c.after)
    <3>1. PICK i \in DOMAIN places : p = places[i]
      BY DEF ToSet
    <3> QED
      BY <2>2, <2>3, <2>4, <3>1 DEF Matches, Shown
  <2>7. ASSUME NEW p \in Shown(1, c.after) PROVE p \in ToSet(places)
    <3>1. p \in DOMAIN Present /\ p <= c.after /\ Present[p].shown
      BY <2>2 DEF Shown
    <3>2. PICK i \in DOMAIN c.given : c.given[i].at = p
      BY <2>3, <3>1 DEF Matches
    <3> QED
      BY <2>4, <3>2 DEF ToSet
  <2>8. c.given = Events(places)
    <3>1. \A i \in DOMAIN c.given : c.given[i] = [at |-> places[i], id |-> Present[places[i]].id]
      <4>1. ASSUME NEW i \in DOMAIN c.given
            PROVE  c.given[i] = [at |-> c.given[i].at, id |-> c.given[i].id]
        <5>1. c.given[i] \in Given
          BY <2>2
        <5> QED
          BY <5>1 DEF Given
      <4>2. \A i \in DOMAIN c.given : Present[c.given[i].at].id = c.given[i].id
        BY <2>3 DEF Matches
      <4> QED
        BY <2>4, <4>1, <4>2
    <3>2. c.given = [i \in DOMAIN c.given |-> c.given[i]]
      BY <2>2
    <3> QED
      BY <2>4, <3>1, <3>2 DEF Events
  <2> HIDE DEF places
  <2> QED
    BY <2>5, <2>6, <2>7, <2>8 DEF c, places
<1>2. CursorInit => CursorInv
  BY CursorInitially
<1>3. CursorInv /\ [CursorNext]_cursorVars => CursorInv'
  BY CursorStep
<1> QED
  BY <1>1, <1>2, <1>3, PTL DEF CursorSpec
=============================================================================
