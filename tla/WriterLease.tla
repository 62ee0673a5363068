----------------------------- MODULE WriterLease -----------------------------
(***************************************************************************)
(* Writers and retirement of one checkout (herzchen/authoring/             *)
(* writer_lease.py).  A lock file is locked with flock, shared for each    *)
(* write of a managed writer and exclusively while an owner retires the    *)
(* checkout; its contents, a generation and a phase, revoke the            *)
(* descriptors that were opened before.  Locks are taken without waiting   *)
(* and die with their process; the contents stay.  The file is rewritten   *)
(* by cutting it to nothing and writing it, and the process may stop       *)
(* between the two.                                                        *)
(*                                                                         *)
(* A lease has a random id, here its number among all leases, and the      *)
(* generation it wrote: a file found empty counts from 0 again, so that    *)
(* generations may repeat while ids do not.  Signatures, lock directories  *)
(* and admission of identities are left out: all here use one authority.   *)
(***************************************************************************)
EXTENDS Integers

CONSTANTS Writers, Owners,
          MaxLeases   \* bound on the leases

VARIABLES lock,       \* how each process holds the lock
          stored,     \* the contents of the lock file
          descriptor, \* the generation of each open descriptor
          lease,      \* the id of the lease each owner holds
          issued,     \* history: how many leases there were
          revoked,    \* history: the descriptors a lease found open
          emptied     \* history: the file, left empty by a lease, was read as new

leaseVars == <<lock, stored, descriptor, lease, issued, revoked, emptied>>

Processes == Writers \cup Owners

Closed  == -1   \* no descriptor
NoLease == 0

Leases == 1 .. MaxLeases

Phases == {"active", "retiring", "unsafe", "complete"}

State == [generation : Nat, phase : Phases]

(* The file cut to nothing, and one with part of a state. *)
Blank == [generation |-> -1, phase |-> "blank"]
Torn  == [generation |-> -1, phase |-> "torn"]

Fresh == [generation |-> 0, phase |-> "active"]

ASSUME WriterLeaseAssumption ==
    /\ Writers \cap Owners = {}
    /\ MaxLeases \in Nat

(* What a reader of the file takes it to say; an empty file is written anew. *)
ReadState == IF stored = Blank THEN Fresh ELSE stored

Readable == stored # Torn

Sharable == Readable /\ \A p \in Processes : lock[p] # "exclusive"

(* Mutant of AllFree: a writer's shared lock does not keep an owner out. *)
AllFreeOfOwners == Readable /\ \A p \in Processes : lock[p] # "exclusive"

AllFree == Readable /\ \A p \in Processes : lock[p] = "none"

(* Mutant of Current: only a retirement under way stops a writer. *)
CurrentUnlessRetiring(w) == ReadState.phase # "retiring"

(* The descriptor may be written: the state is active, in its generation. *)
Current(w) == ReadState.phase = "active" /\ ReadState.generation = descriptor[w]

Lock(p, how) == lock' = [lock EXCEPT ![p] = how]

(* _read_state: an empty file is written anew before it is believed. *)
Reread ==
    /\ stored' = ReadState
    /\ emptied' = (emptied \/ (stored = Blank /\ issued > 0))

(* _write_state stops after ftruncate, or in the middle of the state. *)
Tear == stored' \in {Blank, Torn}
-----------------------------------------------------------------------------

LeaseInit ==
    /\ lock = [p \in Processes |-> "none"]
    /\ stored = Blank
    /\ descriptor = [w \in Writers |-> Closed]
    /\ lease = [o \in Owners |-> NoLease]
    /\ issued = 0
    /\ revoked = {}
    /\ emptied = FALSE

OpenWriter(w) ==
    /\ descriptor[w] = Closed
    /\ Sharable
    /\ Reread
    /\ ReadState.phase = "active"
    /\ descriptor' = [descriptor EXCEPT ![w] = ReadState.generation]
    /\ UNCHANGED <<lock, lease, issued, revoked>>

(* _write_lease, up to the body: the shared lock is kept for the write. *)
BeginWrite(w) ==
    /\ descriptor[w] # Closed
    /\ lock[w] = "none"
    /\ Sharable
    /\ Reread
    /\ Current(w)
    /\ Lock(w, "shared")
    /\ UNCHANGED <<descriptor, lease, issued, revoked>>

(* A reader that gets no further: the file to be opened is missing, the
   descriptor is not current, the process ends. *)
Renew ==
    /\ stored = Blank
    /\ Sharable
    /\ Reread
    /\ UNCHANGED <<lock, descriptor, lease, issued, revoked>>

TornRead ==
    /\ stored = Blank
    /\ Sharable
    /\ Tear
    /\ UNCHANGED <<lock, descriptor, lease, issued, revoked, emptied>>

EndWrite(w) ==
    /\ lock[w] = "shared"
    /\ Lock(w, "none")
    /\ UNCHANGED <<stored, descriptor, lease, issued, revoked, emptied>>

(* close, or the end of the process at any point. *)
CloseWriter(w) ==
    /\ descriptor[w] # Closed
    /\ descriptor' = [descriptor EXCEPT ![w] = Closed]
    /\ revoked' = revoked \ {w}
    /\ Lock(w, "none")
    /\ UNCHANGED <<stored, lease, issued, emptied>>

(* hold_retirement, up to the body. *)
Enter(o) ==
    /\ lease[o] = NoLease
    /\ AllFree
    /\ issued < MaxLeases
    /\ stored' = [generation |-> ReadState.generation + 1, phase |-> "retiring"]
    /\ Lock(o, "exclusive")
    /\ issued' = issued + 1
    /\ lease' = [lease EXCEPT ![o] = issued + 1]
    /\ revoked' = {w \in Writers : descriptor[w] # Closed}
    /\ UNCHANGED <<descriptor, emptied>>

TornEnter ==
    /\ AllFree
    /\ Tear
    /\ UNCHANGED <<lock, descriptor, lease, issued, revoked, emptied>>

Drop(o) ==
    /\ lease[o] # NoLease
    /\ lease' = [lease EXCEPT ![o] = NoLease]
    /\ Lock(o, "none")
    /\ UNCHANGED <<descriptor, issued, revoked, emptied>>

(* The end of hold_retirement; no one else writes while the lease is held, so
   the generation in the file is the lease's. *)
Leave(o, phase) ==
    /\ stored' = [stored EXCEPT !.phase = phase]
    /\ Drop(o)

TornLeave(o) == Tear /\ Drop(o)

OwnerCrash(o) ==
    /\ UNCHANGED stored
    /\ Drop(o)

LeaseNext ==
    \/ \E w \in Writers : OpenWriter(w) \/ BeginWrite(w) \/ EndWrite(w) \/ CloseWriter(w)
    \/ Renew \/ TornRead \/ TornEnter
    \/ \E o \in Owners : Enter(o) \/ TornLeave(o) \/ OwnerCrash(o)
    \/ \E o \in Owners, phase \in {"unsafe", "complete"} : Leave(o, phase)

LeaseSpec == LeaseInit /\ [][LeaseNext]_leaseVars
-----------------------------------------------------------------------------
(* Properties. *)

(* Types; a process holds the lock exclusively exactly while it holds a lease. *)
LeaseTypeOK ==
    /\ lock \in [Processes -> {"none", "shared", "exclusive"}]
    /\ stored \in State \cup {Blank, Torn}
    /\ descriptor \in [Writers -> Nat \cup {Closed}]
    /\ lease \in [Owners -> Leases \cup {NoLease}]
    /\ issued \in 0 .. MaxLeases
    /\ revoked \subseteq Writers
    /\ emptied \in BOOLEAN
    /\ \A p \in Processes :
          lock[p] = "exclusive" <=> p \in Owners /\ lease[p] # NoLease

(* While an owner holds a lease no managed writer is inside a write, and no
   other owner holds one. *)
WritersExcluded ==
    \A o \in Owners : lease[o] # NoLease => \A p \in Processes \ {o} : lock[p] = "none"

(* A descriptor that was open when a retirement began is never written again:
   not after the owner left or died either. *)
RevokedForGood == \A w \in revoked : lock[w] = "none"

(* That holds until a lock file, left empty by an interrupted rewrite, is read
   as that of a checkout never retired; by nothing else is it undone. *)
RevokedUntilEmptied == emptied \/ RevokedForGood
=============================================================================
