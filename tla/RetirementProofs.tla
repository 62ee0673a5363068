-------------------------- MODULE RetirementProofs --------------------------
(***************************************************************************)
(* Proofs about the writer lease and about retirement, for any numbers of  *)
(* files, writers, owners and leases: writers and retirements exclude each *)
(* other, what a retirement revoked stays revoked, and what is deleted was *)
(* saved.                                                                  *)
(***************************************************************************)
EXTENDS Retirement, TLAPS

(* The writer lease (WriterLease). *)

(* The inductive invariant of every lock file: its contents are a state while
   a lease is held, whatever interrupted rewrites left of it before. *)
Guarded ==
    /\ LeaseTypeOK
    /\ WritersExcluded
    /\ \A o \in Owners : lease[o] # NoLease => stored \in State

LEMMA InitGuarded == LeaseInit => Guarded
<1> SUFFICES ASSUME LeaseInit PROVE Guarded
  OBVIOUS
<1>1. 0 \in 0 .. MaxLeases
  BY WriterLeaseAssumption
<1>2. LeaseTypeOK
  BY <1>1 DEF LeaseInit, LeaseTypeOK, NoLease, Closed
<1> QED BY <1>2 DEF LeaseInit, Guarded, WritersExcluded

LEMMA ReadStateType == stored \in State \cup {Blank, Torn} /\ Readable => ReadState \in State
BY DEF Readable, ReadState, State, Fresh, Blank, Torn, Phases

LEMMA NextGuarded == Guarded /\ [LeaseNext]_leaseVars => Guarded'
<1> SUFFICES ASSUME Guarded, [LeaseNext]_leaseVars PROVE Guarded'
  OBVIOUS
<1> USE WriterLeaseAssumption DEF Guarded, LeaseTypeOK, WritersExcluded, Processes, NoLease, Closed
<1>s. ASSUME Sharable PROVE ReadState \in State /\ \A o \in Owners : lease[o] = 0
  <2>1. ReadState \in State
    BY <1>s, ReadStateType DEF Sharable
  <2> QED BY <1>s, <2>1 DEF Sharable
<1>1. ASSUME NEW w \in Writers, OpenWriter(w) PROVE Guarded'
  <2>1. ReadState \in State /\ \A o \in Owners : lease[o] = 0
    BY <1>1, <1>s DEF OpenWriter
  <2> QED BY <1>1, <2>1 DEF OpenWriter, Reread, State
<1>2. ASSUME NEW w \in Writers, BeginWrite(w) PROVE Guarded'
  <2>1. ReadState \in State /\ \A o \in Owners : lease[o] = 0
    BY <1>2, <1>s DEF BeginWrite
  <2> QED BY <1>2, <2>1 DEF BeginWrite, Lock, Reread
<1>3. ASSUME NEW w \in Writers, EndWrite(w) PROVE Guarded'
  BY <1>3 DEF EndWrite, Lock
<1>4. ASSUME NEW w \in Writers, CloseWriter(w) PROVE Guarded'
  BY <1>4 DEF CloseWriter, Lock
<1>5. ASSUME NEW o \in Owners, Enter(o) PROVE Guarded'
  <2>1. ReadState \in State /\ AllFree
    BY <1>5, ReadStateType DEF Enter, AllFree
  <2>2. issued + 1 \in Leases /\ issued + 1 \in 0 .. MaxLeases /\ issued + 1 # 0
    BY <1>5 DEF Enter, Leases
  <2>3. \A q \in Owners : lease[q] = 0
    BY <2>1 DEF AllFree
  <2>4. stored' \in State
    BY <1>5, <2>1 DEF Enter, State, Phases
  <2> QED BY <1>5, <2>1, <2>2, <2>3, <2>4 DEF Enter, Lock, AllFree
<1>6. ASSUME NEW o \in Owners, Drop(o) PROVE stored' \in State \cup {Blank, Torn} => Guarded'
  <2>1. \A p \in Processes \ {o} : lock[p] = "none"
    BY <1>6 DEF Drop
  <2>2. \A p \in Processes : lock'[p] = "none"
    BY <1>6, <2>1 DEF Drop, Lock
  <2>3. \A q \in Owners : lease'[q] = 0
    BY <1>6, <2>1 DEF Drop
  <2> QED BY <1>6, <2>2, <2>3 DEF Drop, Lock
<1>7. ASSUME NEW o \in Owners, NEW phase \in {"unsafe", "complete"}, Leave(o, phase) PROVE Guarded'
  <2>1. stored' \in State
    BY <1>7 DEF Leave, Drop, State, Phases
  <2> QED BY <1>6, <1>7, <2>1 DEF Leave
<1>8. ASSUME NEW o \in Owners, OwnerCrash(o) PROVE Guarded'
  BY <1>6, <1>8 DEF OwnerCrash
<1>9. ASSUME NEW o \in Owners, TornLeave(o) PROVE Guarded'
  BY <1>6, <1>9 DEF TornLeave, Tear
<1>10. CASE Renew \/ TornRead
  <2>1. ReadState \in State /\ \A o \in Owners : lease[o] = 0
    BY <1>10, <1>s DEF Renew, TornRead
  <2> QED BY <1>10, <2>1 DEF Renew, Reread, TornRead, Tear
<1>11. CASE TornEnter
  <2>1. \A q \in Owners : lease[q] = 0
    BY <1>11 DEF TornEnter, AllFree
  <2> QED BY <1>11, <2>1 DEF TornEnter, Tear
<1>12. CASE UNCHANGED leaseVars
  BY <1>12 DEF leaseVars
<1> QED BY <1>1, <1>2, <1>3, <1>4, <1>5, <1>7, <1>8, <1>9, <1>10, <1>11, <1>12 DEF LeaseNext

(* Every behaviour of the lock file keeps its types, and a process holds the
   lock exclusively exactly while it holds a lease. *)
THEOREM TypeCorrect == LeaseSpec => []LeaseTypeOK
<1>1. Guarded => LeaseTypeOK
  BY DEF Guarded
<1> QED BY InitGuarded, NextGuarded, <1>1, PTL DEF LeaseSpec

(* No managed writer is inside a write, and no second owner holds a lease,
   while an owner retires the checkout, interrupted rewrites included. *)
THEOREM RetirementExcludesWriters == LeaseSpec => []WritersExcluded
<1>1. Guarded => WritersExcluded
  BY DEF Guarded
<1> QED BY InitGuarded, NextGuarded, <1>1, PTL DEF LeaseSpec

-----------------------------------------------------------------------------

(* Until it is emptied and read as new, a lock file that can be read remembers
   that the checkout was retired. *)
Remembered ==
    /\ ~emptied /\ issued > 0 /\ stored \in State => stored.phase # "active"
    /\ revoked # {} => issued > 0
    /\ \A o \in Owners : lease[o] # NoLease => issued > 0

LeaseInv == Guarded /\ Remembered /\ RevokedUntilEmptied

LEMMA InitLeaseInv == LeaseInit => LeaseInv
BY InitGuarded DEF LeaseInit, LeaseInv, Remembered, RevokedUntilEmptied, RevokedForGood, NoLease

(* Who finds the state active has no lease before it, or an emptied file. *)
LEMMA ActiveIsNew ==
    ASSUME LeaseInv, Sharable, Reread
    PROVE  /\ ReadState \in State
           /\ ~emptied' /\ issued > 0 => ReadState.phase # "active"
           /\ ~emptied' => ~emptied
<1>1. ReadState \in State
  BY ReadStateType DEF LeaseInv, Guarded, LeaseTypeOK, Sharable
<1>2. ~emptied' /\ issued > 0 => ReadState = stored /\ ~emptied
  BY DEF Reread, ReadState
<1>3. ~emptied' => ~emptied
  BY DEF Reread
<1> QED BY <1>1, <1>2, <1>3 DEF LeaseInv, Remembered

LEMMA NextLeaseInv == LeaseInv /\ [LeaseNext]_leaseVars => LeaseInv'
<1> SUFFICES ASSUME LeaseInv, [LeaseNext]_leaseVars PROVE LeaseInv'
  OBVIOUS
<1>0. Guarded' /\ Guarded /\ issued \in Nat
  BY NextGuarded DEF LeaseInv, Guarded, LeaseTypeOK
<1> USE DEF NoLease, Closed
<1>1. ASSUME Sharable, Reread, UNCHANGED <<lease, issued, revoked>>,
             \/ UNCHANGED lock
             \/ ReadState.phase = "active"
      PROVE  LeaseInv'
  <2>1. /\ ~emptied' /\ issued > 0 => ReadState.phase # "active"
        /\ ~emptied' => ~emptied
    BY <1>1, ActiveIsNew
  <2>2. Remembered'
    BY <1>1, <2>1 DEF LeaseInv, Remembered, Reread
  <2>3. RevokedUntilEmptied'
    BY <1>1, <2>1 DEF LeaseInv, Remembered, RevokedUntilEmptied, RevokedForGood
  <2> QED BY <1>0, <2>2, <2>3 DEF LeaseInv
<1>2. ASSUME NEW w \in Writers, OpenWriter(w) \/ BeginWrite(w) PROVE LeaseInv'
  BY <1>1, <1>2 DEF OpenWriter, BeginWrite, Current
<1>3. CASE Renew
  BY <1>1, <1>3 DEF Renew
<1>4. ASSUME NEW w \in Writers, EndWrite(w) \/ CloseWriter(w) PROVE LeaseInv'
  <2>1. Remembered'
    BY <1>4 DEF EndWrite, CloseWriter, LeaseInv, Remembered
  <2>2. RevokedUntilEmptied'
    BY <1>4, <1>0 DEF EndWrite, CloseWriter, LeaseInv, RevokedUntilEmptied, RevokedForGood, Lock, Guarded, LeaseTypeOK, Processes
  <2> QED BY <1>0, <2>1, <2>2 DEF LeaseInv
<1>5. ASSUME NEW o \in Owners, Enter(o) PROVE LeaseInv'
  <2>1. stored'.phase # "active" /\ issued' > 0
    BY <1>0, <1>5 DEF Enter
  <2>2. Remembered'
    BY <2>1 DEF Remembered
  <2>3. RevokedUntilEmptied'
    BY <1>5, <1>0, WriterLeaseAssumption
       DEF Enter, RevokedUntilEmptied, RevokedForGood, AllFree, Processes, Lock, Guarded, LeaseTypeOK
  <2> QED BY <1>0, <2>2, <2>3 DEF LeaseInv
<1>6. ASSUME NEW o \in Owners, Drop(o),
             \/ stored' \in {stored, Blank, Torn}
             \/ stored'.phase # "active"
      PROVE  LeaseInv'
  <2>1. RevokedUntilEmptied'
    BY <1>6, <1>0 DEF Drop, RevokedUntilEmptied, RevokedForGood, LeaseInv, Lock, Guarded, LeaseTypeOK, Processes
  <2>2. Blank \notin State /\ Torn \notin State
    BY DEF Blank, Torn, State, Phases
  <2>3. Remembered'
    <3>1. \A q \in Owners : lease'[q] # NoLease => lease[q] # NoLease
      BY <1>6, <1>0 DEF Drop, Guarded, LeaseTypeOK
    <3> QED BY <1>6, <2>2, <3>1 DEF Drop, LeaseInv, Remembered
  <2> QED BY <1>0, <2>1, <2>3 DEF LeaseInv
<1>7. ASSUME NEW o \in Owners, NEW phase \in {"unsafe", "complete"}, Leave(o, phase) PROVE LeaseInv'
  <2>1. stored \in State
    BY <1>0, <1>7 DEF Leave, Drop, Guarded
  <2>2. stored'.phase # "active"
    BY <1>7, <2>1 DEF Leave, State
  <2> QED BY <1>6, <1>7, <2>2 DEF Leave
<1>8. ASSUME NEW o \in Owners, OwnerCrash(o) \/ TornLeave(o) PROVE LeaseInv'
  BY <1>6, <1>8 DEF OwnerCrash, TornLeave, Tear
<1>9. CASE TornRead \/ TornEnter
  <2>1. Blank \notin State /\ Torn \notin State
    BY DEF Blank, Torn, State, Phases
  <2> QED BY <1>0, <1>9, <2>1 DEF TornRead, TornEnter, Tear, LeaseInv, Remembered, RevokedUntilEmptied, RevokedForGood
<1>10. CASE UNCHANGED leaseVars
  BY <1>10, <1>0 DEF leaseVars, LeaseInv, Remembered, RevokedUntilEmptied, RevokedForGood
<1>11. CASE LeaseNext
  BY <1>2, <1>3, <1>4, <1>5, <1>7, <1>8, <1>9, <1>11 DEF LeaseNext
<1> QED BY <1>10, <1>11

(* A descriptor a retirement found open is never written again, unless a lock
   file that an interrupted rewrite left empty was read as new. *)
THEOREM RevocationHolds == LeaseSpec => []RevokedUntilEmptied
<1>1. LeaseInv => RevokedUntilEmptied
  BY DEF LeaseInv
<1> QED BY InitLeaseInv, NextLeaseInv, <1>1, PTL DEF LeaseSpec

-----------------------------------------------------------------------------
(* Retirement of a checkout under the lease (Retirement). *)

(* Once there was a lease, the open descriptors are those it revoked, until an
   emptied file was read: files change by programs that ignore the lease only. *)
Quiet ==
    /\ \A w \in Writers : lock[w] = "shared" => descriptor[w] # Closed
    /\ ~emptied /\ issued > 0 => \A w \in Writers : descriptor[w] # Closed => w \in revoked

(* Files are deleted under leases. *)
Untouched == present # Files => issued > 0

(* A fence comes with a manifest, and the manifest is saved. *)
FenceSaved ==
    /\ session.fence # NoLease => session.manifest # NoManifest
    /\ session.manifest # NoManifest => session.manifest \in saved

(* What an owner deletes by is a saved manifest that lists all there is. *)
Listing(o) ==
    /\ work[o].step \in {"cleaning", "compared"} =>
          work[o].snap \in saved /\ present \subseteq work[o].todo
    /\ work[o].step = "captured" => work[o].snap \in Manifest
    /\ work[o].step = "compared" => work[o].target \in Files
    /\ work[o].step = "done" => present = {}

RetirementInv ==
    /\ LeaseInv
    /\ TypeOK
    /\ Quiet
    /\ Untouched
    /\ FenceSaved
    /\ \A o \in Owners : Listing(o)
    /\ NothingLostUntilEmptied
    /\ CompleteMeansGone

-----------------------------------------------------------------------------
(* The records. *)

LEMMA CheckoutType == bytes \in [Files -> Contents] => Checkout \in Manifest
BY DEF Checkout, Manifest

LEMMA SessionKept ==
    ASSUME NEW s \in Session
    PROVE  /\ \A c \in {"pending", "unsafe", "complete"} :
                 [s EXCEPT !.cleanup = c] \in Session
           /\ [s EXCEPT !.live = FALSE] \in Session
           /\ [s EXCEPT !.open = FALSE, !.cleanup = "pending"] \in Session
           /\ \A g \in Leases \cup {NoLease} : [s EXCEPT !.fence = g, !.reissued = TRUE] \in Session
           /\ \A m \in Manifest, g \in Leases \cup {NoLease} :
                 [s EXCEPT !.open = FALSE, !.cleanup = "pending", !.manifest = m,
                           !.fence = g, !.live = TRUE] \in Session
BY DEF Session

LEMMA WorkKept ==
    ASSUME NEW v \in Work
    PROVE  /\ NoWork \in Work
           /\ \A step \in Steps : [v EXCEPT !.step = step] \in Work
           /\ \A step \in Steps, m \in Manifest : [v EXCEPT !.step = step, !.snap = m] \in Work
           /\ \A step \in Steps, f \in Files : [v EXCEPT !.step = step, !.target = f] \in Work
           /\ \A step \in Steps, f \in Files :
                 [v EXCEPT !.step = step, !.todo = v.todo \ {f}] \in Work
BY DEF Work, NoWork, Steps

-----------------------------------------------------------------------------

LEMMA InitRetirementInv == Init => RetirementInv
<1> SUFFICES ASSUME Init PROVE RetirementInv
  OBVIOUS
<1>1. LeaseInv
  BY InitLeaseInv DEF Init
<1>2. session \in Session
  BY DEF Init, Session
<1>3. NoWork \in Work /\ NoWork.step = "idle"
  BY DEF NoWork, Work, Steps
<1>4. TypeOK
  <2>1. LeaseTypeOK
    BY <1>1 DEF LeaseInv, Guarded
  <2>2. \A o \in Owners : work[o].step = "idle" /\ lease[o] = NoLease
    BY <1>3 DEF Init, LeaseInit
  <2> QED BY <2>1, <2>2, <1>2, <1>3 DEF Init, TypeOK
<1>5. Quiet /\ Untouched
  BY DEF Init, LeaseInit, Quiet, Untouched, Processes
<1>6. FenceSaved
  BY DEF Init, FenceSaved
<1>7. \A o \in Owners : Listing(o)
  BY <1>3 DEF Init, Listing
<1>8. NothingLostUntilEmptied /\ CompleteMeansGone
  BY DEF Init, LeaseInit, NothingLostUntilEmptied, NothingLost, CompleteMeansGone, Blank
<1> QED BY <1>1, <1>4, <1>5, <1>6, <1>7, <1>8 DEF RetirementInv

(* Every step is one of the lock file, or leaves it alone. *)
LEMMA NextIsLeaseStep == [Next]_vars => [LeaseNext]_leaseVars
<1> SUFFICES ASSUME [Next]_vars PROVE [LeaseNext]_leaseVars
  OBVIOUS
<1>1. ASSUME NEW w \in Writers,
             OpenFiles(w) \/ CloseFiles(w) \/ BeginWrite(w) \/ \E f \in Files, c \in Contents : Write(w, f, c)
      PROVE  LeaseNext
  BY <1>1 DEF OpenFiles, CloseFiles, Write, LeaseNext
<1>2. CASE Renew \/ TornStep
  BY <1>2 DEF TornStep, LeaseNext
<1>3. ASSUME NEW o \in Owners, Start(o) \/ Crash(o) PROVE LeaseNext
  BY <1>3 DEF Start, Crash, LeaseNext
<1>4. ASSUME NEW o \in Owners, Finish(o) PROVE LeaseNext
  BY <1>4 DEF Finish, LeaseNext
<1>5. ASSUME NEW o \in Owners,
             \/ Capture(o) \/ Close(o) \/ Refresh(o) \/ Resume(o) \/ Reestablish(o) \/ Refuse(o)
             \/ Handoff(o) \/ Remove(o) \/ Stop(o) \/ Complete(o)
             \/ \E f \in Files : Compare(o, f)
      PROVE UNCHANGED leaseVars
  BY <1>5 DEF Capture, Close, Refresh, Resume, Reestablish, Refuse, Handoff, Remove, Stop, Complete, Compare
<1>6. ASSUME \/ Release \/ FenceExpires \/ \E status \in {"pending", "unsafe"} : MarkCleanup(status)
             \/ \E f \in Files, c \in Contents : OutsideEdit(f, c)
             \/ UNCHANGED vars
      PROVE UNCHANGED leaseVars
  BY <1>6 DEF Release, FenceExpires, MarkCleanup, OutsideEdit, vars
<1> QED BY <1>1, <1>2, <1>3, <1>4, <1>5, <1>6 DEF Next

-----------------------------------------------------------------------------
(* What each step keeps. *)

(* Writers, readers of the lock file, and the programs that ignore the lease. *)
LEMMA WritersKeep ==
    ASSUME RetirementInv,
           \/ \E w \in Writers : OpenFiles(w) \/ CloseFiles(w)
           \/ \E w \in Writers : BeginWrite(w) /\ UNCHANGED retirementVars
           \/ (Renew \/ TornRead \/ TornEnter) /\ UNCHANGED retirementVars
           \/ \E w \in Writers, f \in Files, c \in Contents : Write(w, f, c)
           \/ \E f \in Files, c \in Contents : OutsideEdit(f, c)
    PROVE  RetirementInv'
<1> DEFINE Kept == /\ Quiet'
                   /\ UNCHANGED <<lease, issued>>
                   /\ stored'.phase = "complete" => stored.phase = "complete"
                   /\ ~emptied' => ~emptied
<1>l. LeaseInv'
  <2>1. [LeaseNext]_leaseVars
    BY NextIsLeaseStep DEF Next, TornStep, retirementVars
  <2> QED BY <2>1, NextLeaseInv DEF RetirementInv
<1>t. LeaseTypeOK' /\ LeaseTypeOK /\ RevokedUntilEmptied /\ LeaseInv
  BY <1>l DEF LeaseInv, Guarded, RetirementInv
<1>q. Quiet
  BY DEF RetirementInv
<1>n. Kept /\ UNCHANGED <<present, session, saved, work>>
  <2>1. ASSUME NEW w \in Writers, OpenWriter(w) PROVE Kept
    <3>1. /\ ReadState \in State
          /\ ~emptied' /\ issued > 0 => ReadState.phase # "active"
          /\ ~emptied' => ~emptied
      BY <1>t, <2>1, ActiveIsNew DEF OpenWriter
    <3>2. ~emptied' => ~(issued' > 0)
      BY <2>1, <3>1 DEF OpenWriter
    <3>3. stored'.phase = "active"
      BY <2>1 DEF OpenWriter, Reread
    <3>4. ReadState.generation # Closed
      BY <3>1 DEF State, Closed
    <3>5. \A v \in Writers : lock'[v] = "shared" => descriptor'[v] # Closed
      BY <1>q, <1>t, <2>1, <3>4 DEF OpenWriter, Quiet, LeaseTypeOK
    <3> QED BY <2>1, <3>1, <3>2, <3>3, <3>5 DEF OpenWriter, Quiet
  <2>2. ASSUME NEW w \in Writers, BeginWrite(w) PROVE Kept
    <3>1. ~emptied' => ~emptied
      BY <1>t, <2>2, ActiveIsNew DEF BeginWrite
    <3>2. stored'.phase = "active"
      BY <2>2 DEF BeginWrite, Current, Reread
    <3> QED BY <1>q, <1>t, <2>2, <3>1, <3>2 DEF BeginWrite, Lock, Quiet, LeaseTypeOK, Processes
  <2>3. ASSUME NEW w \in Writers, CloseWriter(w) PROVE Kept
    BY <1>q, <1>t, <2>3 DEF CloseWriter, Lock, Quiet, LeaseTypeOK, Processes
  <2>4. ASSUME NEW w \in Writers, EndWrite(w) PROVE Kept
    BY <1>q, <1>t, <2>4 DEF EndWrite, Lock, Quiet, LeaseTypeOK, Processes
  <2>5. ASSUME Renew \/ TornRead \/ TornEnter PROVE Kept
    <3>1. stored'.phase # "complete"
      BY <2>5 DEF Renew, Reread, ReadState, Fresh, TornRead, TornEnter, Tear, Blank, Torn
    <3>2. ~emptied' => ~emptied
      BY <2>5 DEF Renew, Reread, TornRead, TornEnter
    <3>3. UNCHANGED <<lock, descriptor, lease, issued, revoked>>
      BY <2>5 DEF Renew, TornRead, TornEnter
    <3> QED BY <1>q, <3>1, <3>2, <3>3 DEF Quiet
  <2>6. ASSUME UNCHANGED leaseVars PROVE Kept
    BY <1>q, <2>6 DEF Quiet, leaseVars
  <2>7. Kept
    BY <2>1, <2>2, <2>3, <2>4, <2>5, <2>6 DEF OpenFiles, CloseFiles, Write, OutsideEdit
  <2>8. UNCHANGED <<present, session, saved, work>>
    BY DEF OpenFiles, CloseFiles, Write, OutsideEdit, retirementVars
  <2> QED BY <2>7, <2>8
<1>b. /\ bytes' \in [Files -> Contents]
      /\ ~emptied => \A f \in Files \ present : bytes'[f] = bytes[f]
  <2>0. bytes \in [Files -> Contents]
    BY DEF RetirementInv, TypeOK
  <2>1. ASSUME NEW w \in Writers, NEW g \in Files, NEW c \in Contents, Write(w, g, c)
        PROVE  bytes' \in [Files -> Contents] /\ (~emptied => present = Files)
    <3>1. bytes' \in [Files -> Contents]
      BY <2>0, <2>1 DEF Write
    <3>2. ~emptied /\ issued > 0 => lock[w] # "shared"
      BY <1>q, <1>t DEF Quiet, RevokedUntilEmptied, RevokedForGood, LeaseTypeOK, Processes
    <3>3. ~emptied => ~(issued > 0)
      BY <2>1, <3>2 DEF Write, EndWrite
    <3> QED BY <3>1, <3>3 DEF RetirementInv, Untouched
  <2>2. ASSUME NEW f \in Files, NEW c \in Contents, OutsideEdit(f, c)
        PROVE  bytes' \in [Files -> Contents] /\ \A g \in Files \ present : bytes'[g] = bytes[g]
    BY <2>0, <2>2 DEF OutsideEdit
  <2>3. CASE UNCHANGED bytes
    BY <2>0, <2>3
  <2> QED BY <2>1, <2>2, <2>3 DEF OpenFiles, CloseFiles, retirementVars
<1>o. opened' \in [Writers -> SUBSET Files]
  <2>1. opened \in [Writers -> SUBSET Files] /\ present \subseteq Files
    BY DEF RetirementInv, TypeOK
  <2> QED BY <2>1 DEF OpenFiles, CloseFiles, Write, OutsideEdit, retirementVars
<1>1. TypeOK'
  BY <1>t, <1>n, <1>b, <1>o DEF RetirementInv, TypeOK
<1>2. Untouched' /\ FenceSaved' /\ CompleteMeansGone'
  BY <1>n DEF RetirementInv, Untouched, FenceSaved, CompleteMeansGone
<1>3. \A o \in Owners : Listing(o)'
  BY <1>n DEF RetirementInv, Listing
<1>4. NothingLostUntilEmptied'
  BY <1>n, <1>b DEF RetirementInv, NothingLostUntilEmptied, NothingLost
<1> QED BY <1>l, <1>n, <1>1, <1>2, <1>3, <1>4 DEF RetirementInv

(* Owners that come and go. *)
Going(o) ==
    \/ Finish(o) \/ Crash(o)
    \/ /\ TornLeave(o)
       /\ work' = [work EXCEPT ![o] = NoWork]
       /\ UNCHANGED <<bytes, present, opened, session, saved>>

LEMMA ComingsAndGoingsKeep ==
    ASSUME RetirementInv, NEW o \in Owners,
           Start(o) \/ Going(o)
    PROVE  RetirementInv'
<1>l. LeaseInv'
  <2>1. [LeaseNext]_leaseVars
    BY NextIsLeaseStep DEF Next, Going, TornStep
  <2> QED BY <2>1, NextLeaseInv DEF RetirementInv
<1>t. LeaseTypeOK' /\ LeaseTypeOK
  BY <1>l DEF LeaseInv, Guarded, RetirementInv
<1>n. UNCHANGED <<bytes, present, opened, session, saved, descriptor, emptied>>
  BY DEF Start, Enter, Going, Finish, Leave, Crash, OwnerCrash, TornLeave, Drop
<1>k. NoWork \in Work /\ work[o] \in Work /\ [work[o] EXCEPT !.step = "started"] \in Work
  BY WorkKept DEF RetirementInv, TypeOK, Steps
<1>w. /\ work' \in [Owners -> Work]
      /\ \A q \in Owners \ {o} : work'[q] = work[q] /\ lease'[q] = lease[q]
      /\ work'[o].step \in {"idle", "started"}
      /\ work'[o].step = "idle" <=> lease'[o] = NoLease
  <2>0. work \in [Owners -> Work] /\ lease \in [Owners -> Leases \cup {NoLease}]
    BY <1>t DEF RetirementInv, TypeOK, LeaseTypeOK
  <2>1. CASE Start(o)
    <3>2. issued + 1 # NoLease
      BY <1>t DEF LeaseTypeOK, NoLease
    <3>3. work' = [work EXCEPT ![o] = [work[o] EXCEPT !.step = "started"]]
      BY <2>1 DEF Start, Advance
    <3>4. work'[o].step = "started"
      BY <1>k, <2>0, <3>3 DEF Work
    <3> QED BY <2>0, <2>1, <1>k, <3>2, <3>3, <3>4 DEF Start, Enter
  <2>2. CASE Going(o)
    <3>1. work' = [work EXCEPT ![o] = NoWork] /\ lease' = [lease EXCEPT ![o] = NoLease]
      BY <2>2 DEF Going, Finish, Leave, Crash, OwnerCrash, TornLeave, Drop
    <3>2. NoWork.step = "idle"
      BY DEF NoWork
    <3> QED BY <1>k, <2>0, <3>1, <3>2
  <2> QED BY <2>1, <2>2
<1>1. TypeOK'
  BY <1>t, <1>n, <1>w DEF RetirementInv, TypeOK
<1>2. Quiet'
  <2>1. \A w \in Writers : lock'[w] = lock[w]
    BY <1>t, WriterLeaseAssumption DEF Start, Enter, Going, Finish, Leave, Crash, OwnerCrash, TornLeave, Drop, Lock, LeaseTypeOK, Processes
  <2>2. CASE Start(o)
    BY <1>n, <2>1, <2>2 DEF Start, Enter, Quiet, RetirementInv
  <2>3. CASE Going(o)
    BY <1>n, <2>1, <2>3 DEF Going, Finish, Leave, Crash, OwnerCrash, TornLeave, Drop, Quiet, RetirementInv
  <2> QED BY <2>2, <2>3
<1>3. Untouched'
  BY <1>n, <1>t DEF Start, Enter, Going, Finish, Leave, Crash, OwnerCrash, TornLeave, Drop, Untouched, RetirementInv, LeaseTypeOK
<1>4. FenceSaved' /\ NothingLostUntilEmptied'
  BY <1>n DEF FenceSaved, NothingLostUntilEmptied, NothingLost, RetirementInv
<1>5. \A q \in Owners : Listing(q)'
  BY <1>n, <1>w DEF Listing, RetirementInv
<1>6. CompleteMeansGone'
  <2>1. stored'.phase = "complete" => stored.phase = "complete" \/ work[o].step = "done"
    <3>1. CASE Finish(o)
      <4>1. stored \in State
        BY <3>1 DEF Finish, Leave, Drop, RetirementInv, LeaseInv, Guarded
      <4> QED BY <3>1, <4>1 DEF Finish, Leave, State
    <3>2. CASE Start(o) \/ Crash(o) \/ TornLeave(o)
      BY <3>2 DEF Start, Enter, Crash, OwnerCrash, TornLeave, Tear, Blank, Torn
    <3> QED BY <3>1, <3>2 DEF Going
  <2> QED BY <1>n, <2>1 DEF CompleteMeansGone, Listing, RetirementInv
<1> QED BY <1>l, <1>1, <1>2, <1>3, <1>4, <1>5, <1>6 DEF RetirementInv

(* The record of the session, by those who need no lease. *)
LEMMA RecordsKeep ==
    ASSUME RetirementInv,
           Release \/ FenceExpires \/ \E status \in {"pending", "unsafe"} : MarkCleanup(status)
    PROVE  RetirementInv'
<1>n. UNCHANGED <<leaseVars, bytes, opened, present, saved, work>>
  BY DEF Release, FenceExpires, MarkCleanup
<1>l. LeaseInv'
  <2>1. [LeaseNext]_leaseVars
    BY <1>n
  <2> QED BY <2>1, NextLeaseInv DEF RetirementInv
<1>s. /\ session' \in Session
      /\ session'.fence = session.fence /\ session'.manifest = session.manifest
      /\ session'.cleanup = "complete" => session.cleanup = "complete"
  <2>0. session \in Session
    BY DEF RetirementInv, TypeOK
  <2>1. session' \in Session
    BY <2>0, SessionKept DEF Release, FenceExpires, MarkCleanup
  <2> QED BY <2>0, <2>1 DEF Release, FenceExpires, MarkCleanup, Session
<1>1. TypeOK'
  BY <1>n, <1>s DEF RetirementInv, TypeOK, LeaseTypeOK, leaseVars
<1>2. Quiet' /\ Untouched'
  BY <1>n DEF RetirementInv, Quiet, Untouched, leaseVars
<1>3. FenceSaved' /\ NothingLostUntilEmptied' /\ CompleteMeansGone'
  BY <1>n, <1>s DEF RetirementInv, FenceSaved, NothingLostUntilEmptied, NothingLost, CompleteMeansGone, leaseVars
<1>4. \A q \in Owners : Listing(q)'
  BY <1>n DEF RetirementInv, Listing
<1> QED BY <1>l, <1>1, <1>2, <1>3, <1>4 DEF RetirementInv

(* A step of an owner under its lease need only show what it changes. *)
LEMMA UnderLease ==
    ASSUME RetirementInv, NEW o \in Owners,
           UNCHANGED <<leaseVars, bytes, opened>>,
           present' \subseteq present, saved \subseteq saved', saved' \subseteq Manifest,
           session' \in Session, FenceSaved',
           session'.cleanup = "complete" => session.cleanup = "complete" \/ present' = {},
           NEW v \in Work, v.step # "idle", lease[o] # NoLease,
           work' = [work EXCEPT ![o] = v],
           Listing(o)', Untouched', NothingLostUntilEmptied'
    PROVE  RetirementInv'
<1>l. LeaseInv'
  <2>1. [LeaseNext]_leaseVars
    OBVIOUS
  <2> QED BY <2>1, NextLeaseInv DEF RetirementInv
<1>1. /\ work' \in [Owners -> Work] /\ work'[o] = v
      /\ \A q \in Owners \ {o} : work'[q] = work[q]
  BY DEF RetirementInv, TypeOK
<1>2. TypeOK'
  <2>1. LeaseTypeOK' /\ lease' = lease
    BY <1>l DEF LeaseInv, Guarded, leaseVars
  <2>2. bytes' \in [Files -> Contents] /\ present' \subseteq Files
    BY DEF RetirementInv, TypeOK
  <2>4. opened' \in [Writers -> SUBSET Files]
    BY DEF RetirementInv, TypeOK
  <2>3. \A q \in Owners : work'[q].step = "idle" <=> lease'[q] = NoLease
    BY <1>1, <2>1 DEF RetirementInv, TypeOK
  <2> QED BY <1>1, <2>1, <2>2, <2>3, <2>4 DEF TypeOK
<1>3. Quiet'
  BY DEF RetirementInv, Quiet, leaseVars
<1>4. \A q \in Owners : Listing(q)'
  BY <1>1 DEF RetirementInv, Listing
<1>5. CompleteMeansGone'
  BY DEF RetirementInv, CompleteMeansGone, leaseVars
<1> QED BY <1>l, <1>2, <1>3, <1>4, <1>5 DEF RetirementInv

(* An owner under its lease: what it is to delete is in a saved manifest, and
   Remove finds the bytes of the manifest in the file. *)
LEMMA OwnersKeep ==
    ASSUME RetirementInv, NEW o \in Owners,
           \/ Capture(o) \/ Close(o) \/ Refresh(o) \/ Resume(o) \/ Reestablish(o) \/ Refuse(o)
           \/ Handoff(o) \/ Remove(o) \/ Stop(o) \/ Complete(o)
           \/ \E f \in Files : Compare(o, f)
    PROVE  RetirementInv'
<1>t. /\ work \in [Owners -> Work] /\ work[o] \in Work /\ session \in Session
      /\ saved \subseteq Manifest /\ lease[o] \in Leases \cup {NoLease}
      /\ bytes \in [Files -> Contents] /\ present \subseteq Files
  BY DEF RetirementInv, TypeOK, LeaseTypeOK
<1>k. Listing(o) /\ FenceSaved /\ NothingLostUntilEmptied /\ Untouched /\ CompleteMeansGone
  BY DEF RetirementInv
<1>i. work[o].step # "idle" => lease[o] # NoLease
  BY DEF RetirementInv, TypeOK
<1>s. {"captured", "closed", "cleaning", "compared", "done", "over"} \subseteq Steps
  BY DEF Steps
<1>1. CASE Capture(o)
  <2> DEFINE v == [work[o] EXCEPT !.step = "captured", !.snap = Checkout]
  <2>1. Checkout \in Manifest
    BY <1>t, CheckoutType
  <2>2. v \in Work /\ v.step = "captured" /\ v.snap \in Manifest
    <3>1. v \in Work
      BY <1>t, <1>s, <2>1, WorkKept
    <3> QED BY <1>t, <1>s, <2>1, <3>1 DEF Work
  <2>3. work' = [work EXCEPT ![o] = v]
    BY <1>1, <1>t DEF Capture
  <2>4. Listing(o)'
    BY <1>t, <2>2, <2>3 DEF Listing
  <2>5. UNCHANGED <<leaseVars, bytes, opened, present, session, saved>> /\ lease[o] # NoLease
    BY <1>1 DEF Capture, At
  <2>6. FenceSaved' /\ NothingLostUntilEmptied' /\ Untouched'
    BY <1>k, <2>5 DEF FenceSaved, NothingLostUntilEmptied, NothingLost, Untouched, leaseVars
  <2> HIDE DEF v
  <2> QED BY <1>t, <2>2, <2>3, <2>4, <2>5, <2>6, UnderLease
<1>2. CASE Close(o) \/ Refresh(o)
  <2>1. PICK step \in {"closed", "over"} : Advance(o, step)
    BY <1>2 DEF Close, Refresh
  <2> DEFINE v == [work[o] EXCEPT !.step = step]
  <2>2. v \in Work /\ v.step = step
    <3>1. v \in Work
      BY <1>t, <1>s, WorkKept
    <3> QED BY <1>t, <1>s, <3>1 DEF Work
  <2>3. work' = [work EXCEPT ![o] = v]
    BY <1>t, <2>1 DEF Advance
  <2>4. /\ UNCHANGED <<leaseVars, bytes, opened, present>> /\ lease[o] # NoLease
        /\ work[o].snap \in Manifest
        /\ session' = WithManifest(session, work[o].snap, o)
        /\ saved' = saved \cup {work[o].snap}
    BY <1>2, <1>k DEF Close, Refresh, At, Listing
  <2>5. /\ session' \in Session
        /\ session'.manifest = work[o].snap /\ session'.cleanup = "pending"
    <3>1. session' \in Session
      BY <1>t, <2>4, SessionKept DEF WithManifest
    <3> QED BY <1>t, <2>4, <3>1 DEF WithManifest, Session
  <2>6. FenceSaved'
    BY <2>4, <2>5, RetirementAssumption DEF FenceSaved
  <2>7. Listing(o)'
    BY <1>t, <2>2, <2>3 DEF Listing
  <2>8. NothingLostUntilEmptied' /\ Untouched'
    BY <1>k, <2>4 DEF NothingLostUntilEmptied, NothingLost, Untouched, leaseVars
  <2>9. v.step # "idle" /\ session'.cleanup # "complete" /\ saved' \subseteq Manifest
    BY <1>t, <2>2, <2>4, <2>5
  <2> HIDE DEF v
  <2> QED BY <2>2, <2>3, <2>4, <2>5, <2>6, <2>7, <2>8, <2>9, UnderLease
<1>3. CASE Resume(o) \/ Reestablish(o) \/ Refuse(o) \/ Stop(o)
  <2>1. PICK step \in {"closed", "over"} :
           /\ work' = [work EXCEPT ![o] = [work[o] EXCEPT !.step = step]]
    <3>1. CASE Reestablish(o)
      <4>1. work[o].step = "closed" /\ work' = work
        BY <3>1 DEF Reestablish, At
      <4>2. work[o] = [work[o] EXCEPT !.step = "closed"]
        BY <1>t, <4>1 DEF Work
      <4> QED BY <1>t, <4>1, <4>2
    <3> QED BY <1>3, <1>t, <3>1 DEF Resume, Refuse, Stop, Advance
  <2> DEFINE v == [work[o] EXCEPT !.step = step]
  <2>2. v \in Work /\ v.step = step
    <3>1. v \in Work
      BY <1>t, <1>s, WorkKept
    <3> QED BY <1>t, <1>s, <3>1 DEF Work
  <2>4. UNCHANGED <<leaseVars, bytes, opened, present, saved>> /\ lease[o] # NoLease
    BY <1>3, <1>i DEF Resume, Reestablish, Refuse, Stop, At
  <2>5. /\ session' \in Session
        /\ session'.manifest = session.manifest
        /\ session'.cleanup = "complete" => session.cleanup = "complete"
        /\ session'.fence # session.fence => session.fence # NoLease
    <3>1. CASE Resume(o)
      BY <1>t, <3>1 DEF Resume
    <3>2. CASE Reestablish(o)
      <4>1. session' \in Session
        BY <1>t, <3>2, SessionKept DEF Reestablish
      <4> QED BY <1>t, <3>2, <4>1 DEF Reestablish, FenceAuthentic, Session
    <3>3. CASE Refuse(o) \/ Stop(o)
      <4>1. PICK status \in {session.cleanup, "unsafe", "pending"} :
               session' = [session EXCEPT !.cleanup = status]
        BY <3>3 DEF Refuse, Stop
      <4>2. session' \in Session
        BY <1>t, <4>1 DEF Session
      <4> QED BY <1>t, <4>1, <4>2 DEF Session
    <3> QED BY <1>3, <3>1, <3>2, <3>3
  <2>6. FenceSaved'
    BY <1>k, <2>4, <2>5 DEF FenceSaved
  <2>7. Listing(o)'
    BY <1>t, <2>1, <2>2 DEF Listing
  <2>8. NothingLostUntilEmptied' /\ Untouched'
    BY <1>k, <2>4 DEF NothingLostUntilEmptied, NothingLost, Untouched, leaseVars
  <2>9. v.step # "idle" /\ saved' \subseteq Manifest /\ work' = [work EXCEPT ![o] = v]
    BY <1>t, <2>1, <2>2, <2>4
  <2> HIDE DEF v
  <2> QED BY <2>2, <2>4, <2>5, <2>6, <2>7, <2>8, <2>9, UnderLease
<1>4. CASE Handoff(o)
  <2> DEFINE v == [step |-> "cleaning", snap |-> session.manifest,
                   todo |-> Listed(session.manifest), target |-> Unlisted]
  <2>1. session.manifest \in saved /\ session.manifest \in Manifest
    BY <1>4, <1>k, <1>t DEF Handoff, HandoffHolds, FenceSaved
  <2>2. v \in Work /\ v.step = "cleaning"
    BY <1>s, <2>1 DEF Work, Listed
  <2>3. /\ work' = [work EXCEPT ![o] = v] /\ lease[o] # NoLease
        /\ UNCHANGED <<leaseVars, bytes, opened, present, session, saved>>
    BY <1>4 DEF Handoff, At
  <2>4. Listing(o)'
    BY <1>4, <1>t, <2>1, <2>3 DEF Handoff, NoneUnexpected, Listing
  <2>5. FenceSaved' /\ NothingLostUntilEmptied' /\ Untouched'
    BY <1>k, <2>3 DEF FenceSaved, NothingLostUntilEmptied, NothingLost, Untouched, leaseVars
  <2>6. v.step # "idle"
    BY <2>2
  <2> HIDE DEF v
  <2> QED BY <1>t, <2>2, <2>3, <2>4, <2>5, <2>6, UnderLease
<1>5. ASSUME NEW f \in Files, Compare(o, f) PROVE RetirementInv'
  <2> DEFINE v == [work[o] EXCEPT !.step = "compared", !.target = f]
  <2>1. /\ v \in Work /\ v.step = "compared" /\ v.target = f
        /\ v.snap = work[o].snap /\ v.todo = work[o].todo
    <3>1. v \in Work
      BY <1>t, <1>s, WorkKept
    <3> QED BY <1>t, <1>s, <3>1 DEF Work
  <2>2. work' = [work EXCEPT ![o] = v]
    BY <1>5, <1>t DEF Compare
  <2>3. /\ UNCHANGED <<leaseVars, bytes, opened, present, session, saved>>
        /\ lease[o] # NoLease /\ work[o].step = "cleaning"
    BY <1>5 DEF Compare, At
  <2>4. Listing(o)'
    BY <1>k, <1>t, <2>1, <2>2, <2>3 DEF Listing
  <2>5. FenceSaved' /\ NothingLostUntilEmptied' /\ Untouched'
    BY <1>k, <2>3 DEF FenceSaved, NothingLostUntilEmptied, NothingLost, Untouched, leaseVars
  <2>6. v.step # "idle"
    BY <2>1
  <2> HIDE DEF v
  <2> QED BY <1>t, <2>1, <2>2, <2>3, <2>4, <2>5, <2>6, UnderLease
<1>6. CASE Remove(o)
  <2> DEFINE f == work[o].target
             v == [work[o] EXCEPT !.step = "cleaning", !.todo = work[o].todo \ {f}]
  <2>0. /\ f \in Files /\ work[o].snap \in saved /\ present \subseteq work[o].todo
        /\ work[o].snap[f] = bytes[f] /\ present' = present \ {f}
        /\ UNCHANGED <<leaseVars, bytes, opened, session, saved>>
        /\ lease[o] # NoLease
    BY <1>6, <1>k DEF Remove, At, Listing, SameBytes
  <2>1. /\ v \in Work /\ v.step = "cleaning"
        /\ v.snap = work[o].snap /\ v.todo = work[o].todo \ {f}
    <3>1. v \in Work
      BY <1>t, <1>s, <2>0, WorkKept
    <3> QED BY <1>t, <1>s, <2>0, <3>1 DEF Work
  <2>2. work' = [work EXCEPT ![o] = v]
    BY <1>6, <1>t DEF Remove
  <2>4. Listing(o)'
    BY <1>t, <2>0, <2>1, <2>2 DEF Listing
  <2>5. FenceSaved'
    BY <1>k, <2>0 DEF FenceSaved
  <2>6. NothingLostUntilEmptied'
    BY <1>k, <2>0 DEF NothingLostUntilEmptied, NothingLost, leaseVars
  <2>7. Untouched'
    BY <2>0 DEF Untouched, leaseVars, RetirementInv, LeaseInv, Remembered
  <2>8. v.step # "idle"
    BY <2>1
  <2> HIDE DEF v, f
  <2> QED BY <1>t, <2>0, <2>1, <2>2, <2>4, <2>5, <2>6, <2>7, <2>8, UnderLease
<1>7. CASE Complete(o)
  <2>0. /\ present = {} /\ lease[o] # NoLease
        /\ UNCHANGED <<leaseVars, bytes, opened, present, saved>>
    BY <1>7, <1>k DEF Complete, Cleaned, At, Listing
  <2>1. PICK step \in {"done", "over"} : Advance(o, step)
    BY <1>7 DEF Complete
  <2> DEFINE v == [work[o] EXCEPT !.step = step]
  <2>2. v \in Work /\ v.step = step
    <3>1. v \in Work
      BY <1>t, <1>s, WorkKept
    <3> QED BY <1>t, <1>s, <3>1 DEF Work
  <2>3. work' = [work EXCEPT ![o] = v]
    BY <1>t, <2>1 DEF Advance
  <2>4. session' \in Session /\ session'.fence = session.fence /\ session'.manifest = session.manifest
    <3>1. PICK status \in {"complete", "unsafe"} : session' = [session EXCEPT !.cleanup = status]
      BY <1>7 DEF Complete
    <3>2. session' \in Session
      BY <1>t, <3>1, SessionKept
    <3> QED BY <1>t, <3>1, <3>2 DEF Session
  <2>5. Listing(o)'
    BY <1>t, <2>0, <2>2, <2>3 DEF Listing
  <2>6. FenceSaved' /\ NothingLostUntilEmptied' /\ Untouched'
    BY <1>k, <2>0, <2>4 DEF FenceSaved, NothingLostUntilEmptied, NothingLost, Untouched, leaseVars
  <2>7. v.step # "idle" /\ present' = {}
    BY <2>0, <2>2
  <2> HIDE DEF v
  <2> QED BY <1>t, <2>0, <2>2, <2>3, <2>4, <2>5, <2>6, <2>7, UnderLease
<1> QED BY <1>1, <1>2, <1>3, <1>4, <1>5, <1>6, <1>7

LEMMA NextRetirementInv == RetirementInv /\ [Next]_vars => RetirementInv'
<1> SUFFICES ASSUME RetirementInv, [Next]_vars PROVE RetirementInv'
  OBVIOUS
<1>2. CASE UNCHANGED vars
  <2>1. LeaseInv'
    BY <1>2, NextLeaseInv DEF vars, RetirementInv
  <2>2. UNCHANGED <<leaseVars, bytes, opened, present, session, saved, work>>
    BY <1>2 DEF vars, retirementVars
  <2> QED BY <2>1, <2>2 DEF RetirementInv, TypeOK, LeaseInv, Guarded, Quiet, Untouched, FenceSaved,
                           Listing, NothingLostUntilEmptied, NothingLost, CompleteMeansGone, leaseVars
<1>3. CASE Next
  <2>1. TornStep => \/ (TornRead \/ TornEnter) /\ UNCHANGED retirementVars
                    \/ \E o \in Owners : Going(o)
    BY DEF TornStep, Going, retirementVars
  <2>2. \A o \in Owners : Finish(o) \/ Crash(o) => Going(o)
    BY DEF Going
  <2> QED BY <1>3, <2>1, <2>2, WritersKeep, ComingsAndGoingsKeep, RecordsKeep, OwnersKeep DEF Next
<1> QED BY <1>2, <1>3

-----------------------------------------------------------------------------

(* What sessions, owners and cleanups do to the lock file and its leases is what
   the lease admits: exclusion and revocation, proved of it, hold of them. *)
THEOREM RetirementKeepsTheLease == Spec => LeaseSpec
<1>1. Init => LeaseInit
  BY DEF Init
<1> QED BY <1>1, NextIsLeaseStep, PTL DEF Spec, LeaseSpec

(* Every behaviour of retirement keeps its types, and an owner works exactly
   while it holds the lease. *)
THEOREM TypesKept == Spec => []TypeOK
<1>1. RetirementInv => TypeOK
  BY DEF RetirementInv
<1> QED BY InitRetirementInv, NextRetirementInv, <1>1, PTL DEF Spec

(* Whatever the interleaving of writers, edits, owners, crashes and torn lock
   files, the bytes of a file that is unlinked are in a durable snapshot. *)
THEOREM DeletionsWereSaved == Spec => DeletionsAreSaved
<1> DEFINE Saved == \A f \in present \ present' : \E s \in saved : s[f] = bytes[f]
<1>1. RetirementInv /\ [Next]_vars => [Saved]_vars
  <2> SUFFICES ASSUME RetirementInv, Next, NEW f \in present, f \notin present'
               PROVE  \E s \in saved : s[f] = bytes[f]
    OBVIOUS
  <2>1. PICK o \in Owners : Remove(o)
    BY DEF Next, retirementVars, TornStep, OpenFiles, CloseFiles, Write, OutsideEdit, Start, Capture, Close, Refresh,
           Resume, Reestablish, Refuse, Handoff, Stop, Complete, Finish, Crash, Compare, MarkCleanup,
           Release, FenceExpires
  <2>2. f = work[o].target
    BY <2>1 DEF Remove
  <2>3. work[o].snap[f] = bytes[f]
    BY <2>1, <2>2 DEF Remove, SameBytes
  <2>4. work[o].snap \in saved
    BY <2>1 DEF RetirementInv, Listing, Remove, At
  <2> QED BY <2>3, <2>4
<1> QED BY InitRetirementInv, NextRetirementInv, <1>1, PTL DEF Spec, DeletionsAreSaved

(* Until an emptied lock file is read as new, what was written last to an
   unlinked file is in a durable snapshot: no descriptor reaches it any more. *)
THEOREM NothingIsLost == Spec => []NothingLostUntilEmptied
<1>1. RetirementInv => NothingLostUntilEmptied
  BY DEF RetirementInv
<1> QED BY InitRetirementInv, NextRetirementInv, <1>1, PTL DEF Spec

(* A cleanup is recorded as complete only when every file of the checkout is
   gone, and stays so. *)
THEOREM CompletedMeansGone == Spec => []CompleteMeansGone
<1>1. RetirementInv => CompleteMeansGone
  BY DEF RetirementInv
<1> QED BY InitRetirementInv, NextRetirementInv, <1>1, PTL DEF Spec

(* Once an owner captured the checkout, no managed write and no other owner
   changes it before the session is closed. *)
THEOREM CapturesAreStable == Spec => CaptureIsStable
<1> DEFINE Stable == \A o \in Owners : At(o, "captured") /\ Checkout' # Checkout =>
                        \E f \in Files, c \in Contents : OutsideEdit(f, c)
<1>1. RetirementInv /\ [Next]_vars => [Stable]_vars
  <2> SUFFICES ASSUME RetirementInv, Next, NEW o \in Owners, At(o, "captured"),
                      ~ \E f \in Files, c \in Contents : OutsideEdit(f, c)
               PROVE  Checkout' = Checkout
    OBVIOUS
  <2>1. \A p \in Processes \ {o} : lock[p] = "none"
    BY DEF RetirementInv, LeaseInv, Guarded, WritersExcluded, At
  <2>2. \A q \in Owners \ {o} : lease[q] = NoLease
    BY <2>1 DEF RetirementInv, TypeOK, LeaseTypeOK, Processes
  <2>3. \A w \in Writers, f \in Files, c \in Contents : ~Write(w, f, c)
    <3>1. \A w \in Writers : lock[w] = "none"
      BY <2>1, WriterLeaseAssumption DEF Processes
    <3> QED BY <3>1 DEF Write, EndWrite
  <2>4. \A q \in Owners : ~Remove(q)
    BY <2>2 DEF Remove, At
  <2>5. UNCHANGED <<bytes, present>>
    BY <2>3, <2>4 DEF Next, retirementVars, TornStep, OpenFiles, CloseFiles, Start, Capture, Close, Refresh, Resume, Reestablish, Refuse,
                      Handoff, Stop, Complete, Finish, Crash, Compare, MarkCleanup, Release, FenceExpires
  <2> QED BY <2>5 DEF Checkout
<1> QED BY InitRetirementInv, NextRetirementInv, <1>1, PTL DEF Spec, CaptureIsStable
=============================================================================
