----------------------------- MODULE Retirement -----------------------------
(***************************************************************************)
(* How an authoring session ends and its files go away: finish.py,         *)
(* idle.py, cleanup.py, integration.py and the retirement part of          *)
(* sessions.py, over the writer lease.  An owner holds the lease while it  *)
(* captures the checkout, closes the session with that capture as its      *)
(* manifest and a fence naming the lease, compares each file with the      *)
(* manifest and unlinks it, and records the outcome.  The record of the    *)
(* session is durable, and each change of it is one transaction; the       *)
(* lease, the files and the record are three things that change one after  *)
(* the other, with crashes and retries between.                            *)
(*                                                                         *)
(* One session in one checkout; a writer has a descriptor on every file    *)
(* there was when it opened them, and writes through it also to a file     *)
(* that was unlinked since.                                                *)
(* The second digest of a file and its unlink are one step: an edit        *)
(* between the two, by a program that ignores the lease, is out of scope.  *)
(***************************************************************************)
EXTENDS WriterLease

CONSTANTS Files, Contents,
          OutsideEdits,   \* whether programs that ignore the lease edit files
          Unlisted,       \* a file a manifest does not list
          NoManifest

VARIABLES bytes,    \* the last bytes of each file
          present,  \* the files that exist
          opened,   \* the files each writer has open
          session,  \* the durable record of the session
          saved,    \* the durable snapshots
          work      \* what each owner is doing

retirementVars == <<bytes, present, opened, session, saved, work>>

vars == <<leaseVars, retirementVars>>

Manifest == [Files -> Contents \cup {Unlisted}]

Listed(m) == {f \in Files : m[f] # Unlisted}

Session == [open : BOOLEAN,
            cleanup : {"not_requested", "pending", "unsafe", "complete"},
            manifest : Manifest \cup {NoManifest},
            fence : Leases \cup {NoLease},   \* the lease the fence names
            live : BOOLEAN,        \* the fence has not expired
            reissued : BOOLEAN]    \* there is a fence request to be repeated

Steps == {"idle", "started", "captured", "closed", "cleaning", "compared", "done", "over"}

(* target: the file compared last; todo: those still to be unlinked. *)
Work == [step : Steps, snap : Manifest \cup {NoManifest}, todo : SUBSET Files,
         target : Files \cup {Unlisted}]

NoWork == [step |-> "idle", snap |-> NoManifest, todo |-> {}, target |-> Unlisted]

ASSUME RetirementAssumption ==
    /\ Unlisted \notin Files \cup Contents
    /\ NoManifest \notin Manifest
    /\ OutsideEdits \in BOOLEAN

(* What a capture of the checkout reads now. *)
Checkout == [f \in Files |-> IF f \in present THEN bytes[f] ELSE Unlisted]

(* The second reading after a capture: the checkout still is what was captured. *)
StillCaptured(o) == Checkout = work[o].snap

(* Every file in the checkout is one the manifest lists. *)
NoneUnexpected(m) == present \subseteq Listed(m)

SameBytes(m, f) == f \in present /\ m[f] = bytes[f]

(* validate_retirement_handoff: the fence names the lease o holds. *)
HandoffHolds(o) == session.fence # NoLease /\ session.fence = lease[o] /\ session.live

(* reestablish_retirement_fence admits the fence of an earlier lease. *)
FenceAuthentic == session.fence # NoLease /\ session.live

Advance(o, step) == work' = [work EXCEPT ![o].step = step]

At(o, step) == lease[o] # NoLease /\ work[o].step = step

WithManifest(s, m, o) ==
    [s EXCEPT !.open = FALSE, !.cleanup = "pending", !.manifest = m,
              !.fence = lease[o], !.live = TRUE]

-----------------------------------------------------------------------------

Init ==
    /\ LeaseInit
    /\ bytes \in [Files -> Contents]
    /\ present = Files
    /\ opened = [w \in Writers |-> {}]
    /\ session = [open |-> TRUE, cleanup |-> "not_requested", manifest |-> NoManifest,
                  fence |-> NoLease, live |-> FALSE, reissued |-> FALSE]
    /\ saved = {}
    /\ work = [o \in Owners |-> NoWork]

(* A managed write reaches the file, which may have been unlinked. *)
Write(w, f, c) ==
    /\ EndWrite(w)
    /\ f \in opened[w]
    /\ bytes' = [bytes EXCEPT ![f] = c]
    /\ UNCHANGED <<present, opened, session, saved, work>>

OutsideEdit(f, c) ==
    /\ OutsideEdits
    /\ f \in present
    /\ bytes' = [bytes EXCEPT ![f] = c]
    /\ UNCHANGED <<leaseVars, present, opened, session, saved, work>>

(* finish, idle_close or cleanup_released takes the lease. *)
Start(o) ==
    /\ Enter(o)
    /\ Advance(o, "started")
    /\ UNCHANGED <<bytes, present, opened, session, saved>>

(* The caller names the files: all of an open session, those that remain when a
   closed one is captured anew. *)
Capture(o) ==
    /\ At(o, "started")
    /\ present # {}
    /\ session.open => present = Files
    /\ work' = [work EXCEPT ![o].step = "captured", ![o].snap = Checkout]
    /\ UNCHANGED <<leaseVars, bytes, present, opened, session, saved>>

(* Finished or rejected when the checkout still is what was captured; when it
   is not, or the commit is refused, released for recovery and not cleaned. *)
Close(o) ==
    /\ At(o, "captured")
    /\ session.open
    /\ session' = WithManifest(session, work[o].snap, o)
    /\ saved' = saved \cup {work[o].snap}
    /\ \E step \in {"closed", "over"} :
          /\ step = "closed" => StillCaptured(o)
          /\ Advance(o, step)
    /\ UNCHANGED <<leaseVars, bytes, present, opened>>

(* cleanup_released with a fresh capture. *)
Refresh(o) ==
    /\ At(o, "captured")
    /\ ~session.open
    /\ StillCaptured(o)
    /\ session' = WithManifest(session, work[o].snap, o)
    /\ saved' = saved \cup {work[o].snap}
    /\ Advance(o, "closed")
    /\ UNCHANGED <<leaseVars, bytes, present, opened>>

(* A repeated finish, an idle close or cleanup_released of a closed session. *)
Resume(o) ==
    /\ At(o, "started")
    /\ ~session.open
    /\ Advance(o, "closed")
    /\ UNCHANGED <<leaseVars, bytes, present, opened, session, saved>>

(* service.release: no capture, no lease, no manifest. *)
Release ==
    /\ session.open
    /\ session' = [session EXCEPT !.open = FALSE, !.cleanup = "pending"]
    /\ UNCHANGED <<leaseVars, bytes, present, opened, saved, work>>

(* service.cleanup without a lease records any status but complete; an idle
   close whose fresh capture fails records unsafe. *)
MarkCleanup(status) ==
    /\ ~session.open
    /\ session' = [session EXCEPT !.cleanup = status]
    /\ UNCHANGED <<leaseVars, bytes, present, opened, saved, work>>

FenceExpires ==
    /\ session.live
    /\ session' = [session EXCEPT !.live = FALSE]
    /\ UNCHANGED <<leaseVars, bytes, present, opened, saved, work>>

Reestablish(o) ==
    /\ At(o, "closed")
    /\ FenceAuthentic
    /\ ~HandoffHolds(o)
    /\ session' = [session EXCEPT !.fence = lease[o], !.reissued = TRUE]
    /\ UNCHANGED <<leaseVars, bytes, present, opened, saved, work>>

(* The handoff cannot be established: the fence is absent or expired, or the
   request for a new one is repeated and answered with its receipt.  The
   outcome is recorded, or not when cleanup_released gives up. *)
Refuse(o) ==
    /\ At(o, "closed")
    /\ ~HandoffHolds(o)
    /\ FenceAuthentic => session.reissued
    /\ \E status \in {session.cleanup, "unsafe"} :
          session' = [session EXCEPT !.cleanup = status]
    /\ Advance(o, "over")
    /\ UNCHANGED <<leaseVars, bytes, present, opened, saved>>

(* The manifest is authentic, and lists every file there is. *)
Handoff(o) ==
    /\ At(o, "closed")
    /\ HandoffHolds(o)
    /\ NoneUnexpected(session.manifest)
    /\ work' = [work EXCEPT ![o] = [step |-> "cleaning", snap |-> session.manifest,
                                    todo |-> Listed(session.manifest), target |-> Unlisted]]
    /\ UNCHANGED <<leaseVars, bytes, present, opened, session, saved>>

(* The first digest of file f. *)
Compare(o, f) ==
    /\ At(o, "cleaning")
    /\ f \in work[o].todo
    /\ SameBytes(work[o].snap, f)
    /\ work' = [work EXCEPT ![o].step = "compared", ![o].target = f]
    /\ UNCHANGED <<leaseVars, bytes, present, opened, session, saved>>

(* Mutant of Remove: the file is not read again before it is unlinked. *)
RemoveCompared(o) ==
    /\ At(o, "compared")
    /\ present' = present \ {work[o].target}
    /\ work' = [work EXCEPT ![o].step = "cleaning", ![o].todo = @ \ {work[o].target}]
    /\ UNCHANGED <<leaseVars, bytes, opened, session, saved>>

(* The second digest, and the unlink. *)
Remove(o) ==
    /\ At(o, "compared")
    /\ SameBytes(work[o].snap, work[o].target)
    /\ present' = present \ {work[o].target}
    /\ work' = [work EXCEPT ![o].step = "cleaning", ![o].todo = @ \ {work[o].target}]
    /\ UNCHANGED <<leaseVars, bytes, opened, session, saved>>

(* A missing or changed file is unsafe, and so is an active writer; any other
   error leaves the cleanup pending.  Either may come at any file. *)
Stop(o) ==
    /\ lease[o] # NoLease
    /\ work[o].step \in {"cleaning", "compared"}
    /\ \E status \in {"unsafe", "pending"} :
          session' = [session EXCEPT !.cleanup = status]
    /\ Advance(o, "over")
    /\ UNCHANGED <<leaseVars, bytes, present, opened, saved>>

(* Mutant of Cleaned: the outcome is recorded although files are left. *)
CleanedEarly(o) == At(o, "cleaning")

Cleaned(o) == At(o, "cleaning") /\ work[o].todo = {}

(* All is gone; the handoff is validated once more. *)
Complete(o) ==
    /\ Cleaned(o)
    /\ session' = [session EXCEPT !.cleanup = IF HandoffHolds(o) THEN "complete" ELSE "unsafe"]
    /\ Advance(o, IF HandoffHolds(o) THEN "done" ELSE "over")
    /\ UNCHANGED <<leaseVars, bytes, present, opened, saved>>

(* The owner leaves: at the end, or early, for a session that is not idle, a
   writer that does not stop, or an error, that of recording the outcome too. *)
Finish(o) ==
    /\ Leave(o, IF work[o].step = "done" THEN "complete" ELSE "unsafe")
    /\ work' = [work EXCEPT ![o] = NoWork]
    /\ UNCHANGED <<bytes, present, opened, session, saved>>

Crash(o) ==
    /\ OwnerCrash(o)
    /\ work' = [work EXCEPT ![o] = NoWork]
    /\ UNCHANGED <<bytes, present, opened, session, saved>>

(* The rewriting of the lock file fails; a holder of the lease is gone then. *)
TornStep ==
    /\ \/ (TornRead \/ TornEnter) /\ UNCHANGED work
       \/ \E o \in Owners : TornLeave(o) /\ work' = [work EXCEPT ![o] = NoWork]
    /\ UNCHANGED <<bytes, present, opened, session, saved>>

(* A file that is gone cannot be opened. *)
OpenFiles(w) ==
    /\ OpenWriter(w)
    /\ present # {}
    /\ opened' = [opened EXCEPT ![w] = present]
    /\ UNCHANGED <<bytes, present, session, saved, work>>

CloseFiles(w) ==
    /\ CloseWriter(w)
    /\ opened' = [opened EXCEPT ![w] = {}]
    /\ UNCHANGED <<bytes, present, session, saved, work>>

Next ==
    \/ \E w \in Writers : OpenFiles(w) \/ CloseFiles(w)
    \/ \E w \in Writers : BeginWrite(w) /\ UNCHANGED retirementVars
    \/ Renew /\ UNCHANGED retirementVars
    \/ TornStep
    \/ \E w \in Writers, f \in Files, c \in Contents : Write(w, f, c)
    \/ \E f \in Files, c \in Contents : OutsideEdit(f, c)
    \/ \E o \in Owners :
          \/ Start(o) \/ Capture(o) \/ Close(o) \/ Refresh(o) \/ Resume(o)
          \/ Reestablish(o) \/ Refuse(o) \/ Handoff(o)
          \/ Remove(o) \/ Stop(o) \/ Complete(o) \/ Finish(o) \/ Crash(o)
    \/ \E o \in Owners, f \in Files : Compare(o, f)
    \/ \E status \in {"pending", "unsafe"} : MarkCleanup(status)
    \/ Release \/ FenceExpires

Spec == Init /\ [][Next]_vars
-----------------------------------------------------------------------------
(* Properties. *)

(* Types; an owner works exactly while it holds the lease. *)
TypeOK ==
    /\ LeaseTypeOK
    /\ bytes \in [Files -> Contents]
    /\ present \subseteq Files
    /\ opened \in [Writers -> SUBSET Files]
    /\ session \in Session
    /\ saved \subseteq Manifest
    /\ work \in [Owners -> Work]
    /\ \A o \in Owners : work[o].step = "idle" <=> lease[o] = NoLease

(* A file is deleted only with bytes that are in a durable snapshot, whatever
   became of the lock file, the fence or an earlier owner. *)
DeletionsAreSaved ==
    [][\A f \in present \ present' : \E s \in saved : s[f] = bytes[f]]_vars

(* What was written last to a file that is gone is in a durable snapshot. *)
NothingLost ==
    \A f \in Files \ present : \E s \in saved : s[f] = bytes[f]

(* That holds until an emptied lock file is read as new: then descriptors live
   again whose files are unlinked. *)
NothingLostUntilEmptied == emptied \/ NothingLost

(* A cleanup recorded as complete, in the session or in the lock file, left no
   file behind. *)
CompleteMeansGone ==
    session.cleanup = "complete" \/ stored.phase = "complete" => present = {}

(* From its capture until the session is closed the checkout changes only by a
   program that ignores the lease: by no managed write, and no other owner. *)
CaptureIsStable ==
    [][\A o \in Owners : At(o, "captured") /\ Checkout' # Checkout =>
          \E f \in Files, c \in Contents : OutsideEdit(f, c)]_vars

Idle == \A o \in Owners : lease[o] = NoLease

(* The writer may go on with a session that no one has closed, while the lock
   file can be read. *)
OpenSessionIsWritable == session.open /\ Idle /\ Readable => ReadState.phase = "active"
=============================================================================
