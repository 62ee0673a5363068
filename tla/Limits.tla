------------------------------- MODULE Limits -------------------------------
(***************************************************************************)
(* The reservation ledger (herzchen/kernel/limits.py): pools of reusable   *)
(* capacity and cumulative allowance, and the reservations callers make,   *)
(* settle and release in them.  A call is one transaction of the command   *)
(* store, so its effect is atomic; what is not atomic is the caller, who   *)
(* acts on a ReservationRecord read earlier, loses answers, repeats        *)
(* requests and restarts.                                                  *)
(*                                                                         *)
(* A request of a reservation is identified with the record it asks for:   *)
(* the record holds the target, its next version and the whole body, which *)
(* is what the request digest hashes, and it is also the answer.           *)
(***************************************************************************)
EXTENDS Integers, FiniteSets

CONSTANTS Callers, Keys, Pools, Reservations,
          PoolRequests,  \* the calls of create_pool
          MaxUnits,      \* bound on the units of a request
          Nothing        \* no receipt, no record

VARIABLES pools,     \* the limit identities
          res,       \* the reservation identities
          receipts,  \* what each logical request key asked for
          known      \* the record each caller holds

vars == <<pools, res, receipts, known>>

Units == 0 .. MaxUnits

Closed == {"consumed", "released"}
Held   == {"held", "uncertain"}

Record == [ref: Reservations, ver: Nat \ {0}, pool: Pools, declared: Units \ {0},
           status: Held \cup Closed, actual: Units, charged: Units]

NoVersion == -1

PoolRequest == [pool: Pools, capacity: Nat, allowance: Nat, expVer: Nat \cup {NoVersion}]

Pool == [ver: Nat, capacity: Nat, allowance: Nat]

ASSUME LimitsAssumption ==
    /\ IsFiniteSet(Reservations)
    /\ MaxUnits \in Nat \ {0}
    /\ PoolRequests \subseteq PoolRequest
    /\ Nothing \notin Record \cup PoolRequest

(* The reservation exists in pool p, and is still held there. *)
Within(rec, p)  == rec # Nothing /\ rec.pool = p
Holding(rec, p) == Within(rec, p) /\ rec.status \in Held

(* The sum of f over the reservations, counted unit by unit. *)
UnitsOf(f) == {u \in Reservations \X (1 .. MaxUnits) : u[2] <= f[u[1]]}
Total(f)   == Cardinality(UnitsOf(f))

Larger(m, n)  == IF m > n THEN m ELSE n
Smaller(m, n) == IF m > n THEN n ELSE m

HeldUnits(rs, p) == [r \in Reservations |-> IF Holding(rs[r], p) THEN rs[r].declared ELSE 0]

UsedUnits(rs, p) == [r \in Reservations |-> IF Within(rs[r], p) THEN rs[r].charged ELSE 0]

(* What the held reservations may still be charged. *)
ProjectedUnits(rs, p) ==
    [r \in Reservations |-> IF Holding(rs[r], p) THEN Larger(rs[r].declared, rs[r].actual) ELSE 0]

(* Mutant of Fits: an uncertain reservation gives its units back. *)
FitsCertainOnly(p, n) ==
    /\ Total([r \in Reservations |->
          IF Holding(res[r], p) /\ res[r].status = "held" THEN res[r].declared ELSE 0]) + n
          <= pools[p].capacity
    /\ Total(UsedUnits(res, p)) + Total(ProjectedUnits(res, p)) + n <= pools[p].allowance

(* Mutant of Fits: only what is charged counts against the allowance. *)
FitsCharged(p, n) ==
    /\ Total(HeldUnits(res, p)) + n <= pools[p].capacity
    /\ Total(UsedUnits(res, p)) + n <= pools[p].allowance

(* n more units are available in p. *)
Fits(p, n) ==
    /\ Total(HeldUnits(res, p)) + n <= pools[p].capacity
    /\ Total(UsedUnits(res, p)) + Total(ProjectedUnits(res, p)) + n <= pools[p].allowance

Vacant(r) == res[r] = Nothing

(* Mutant of Current: an earlier version of the record is accepted. *)
Outdated(rec) == res[rec.ref] # Nothing /\ res[rec.ref].ver >= rec.ver

(* The record is the stored one: the pinned revision and the expected version
   are those of the identity. *)
Current(rec) == res[rec.ref] # Nothing /\ res[rec.ref].ver = rec.ver

(* Mutant of Allowed: a released reservation can be consumed. *)
AllowedAfterRelease(rec, target) ==
    rec.status = "held" \/ (target # "uncertain" /\ rec.status \in {"uncertain", "released"})

(* The transitions the ledger admits, judged by the caller's record. *)
Allowed(rec, target) == rec.status = "held" \/ (target # "uncertain" /\ rec.status = "uncertain")

(* The answer to caller c may be lost. *)
Answer(c, rec) == known' = [known EXCEPT ![c] = rec] \/ known' = known

-----------------------------------------------------------------------------

Init ==
    /\ pools = [p \in Pools |-> [ver |-> 0, capacity |-> 0, allowance |-> 0]]
    /\ res = [r \in Reservations |-> Nothing]
    /\ receipts = [k \in Keys |-> Nothing]
    /\ known = [c \in Callers |-> Nothing]

(* create_pool: a caller that expects the current version, or none, defines an
   existing pool anew. *)
CreatePool(k, q) ==
    /\ receipts[k] = Nothing
    /\ q.expVer \in {NoVersion, pools[q.pool].ver}
    /\ pools' = [pools EXCEPT ![q.pool] =
          [ver |-> pools[q.pool].ver + 1, capacity |-> q.capacity, allowance |-> q.allowance]]
    /\ receipts' = [receipts EXCEPT ![k] = q]
    /\ UNCHANGED <<res, known>>

NewRecord(r, p, n) ==
    [ref |-> r, ver |-> 1, pool |-> p, declared |-> n,
     status |-> "held", actual |-> 0, charged |-> 0]

Reserve(c, k, r, p, n) ==
    /\ receipts[k] = Nothing
    /\ pools[p].ver > 0
    /\ Vacant(r)
    /\ Fits(p, n)
    /\ res' = [res EXCEPT ![r] = NewRecord(r, p, n)]
    /\ receipts' = [receipts EXCEPT ![k] = NewRecord(r, p, n)]
    /\ Answer(c, NewRecord(r, p, n))
    /\ UNCHANGED pools

NextRecord(rec, target, actual) ==
    [ref |-> rec.ref, ver |-> rec.ver + 1, pool |-> rec.pool, declared |-> rec.declared,
     status |-> target, actual |-> actual,
     charged |-> IF target \in Closed THEN actual ELSE rec.charged]

(* mark_uncertain, settle and release: everything but the target's version
   comes from the record the caller brings. *)
Transition(c, k, target, actual) ==
    /\ known[c] # Nothing
    /\ receipts[k] = Nothing
    /\ Allowed(known[c], target)
    /\ Current(known[c])
    /\ res' = [res EXCEPT ![known[c].ref] = NextRecord(known[c], target, actual)]
    /\ receipts' = [receipts EXCEPT ![k] = NextRecord(known[c], target, actual)]
    /\ Answer(c, NextRecord(known[c], target, actual))
    /\ UNCHANGED pools

(* A repeated request is answered with the record of its own event, which may
   be older than the reservation. *)
Replay(c, k) ==
    /\ receipts[k] \in Record
    /\ known' = [known EXCEPT ![c] = receipts[k]]
    /\ UNCHANGED <<pools, res, receipts>>

(* get_reservation. *)
Read(c, r) ==
    /\ res[r] # Nothing
    /\ known' = [known EXCEPT ![c] = res[r]]
    /\ UNCHANGED <<pools, res, receipts>>

Restart(c) ==
    /\ known' = [known EXCEPT ![c] = Nothing]
    /\ UNCHANGED <<pools, res, receipts>>

Next ==
    \/ \E k \in Keys, q \in PoolRequests : CreatePool(k, q)
    \/ \E c \in Callers, k \in Keys, r \in Reservations, p \in Pools, n \in Units \ {0} :
          Reserve(c, k, r, p, n)
    \/ \E c \in Callers, k \in Keys, target \in {"uncertain"} \cup Closed, actual \in Units :
          Transition(c, k, target, actual)
    \/ \E c \in Callers, k \in Keys : Replay(c, k)
    \/ \E c \in Callers, r \in Reservations : Read(c, r)
    \/ \E c \in Callers : Restart(c)

Spec == Init /\ [][Next]_vars

-----------------------------------------------------------------------------
(* Properties. *)

(* Types; a stored reservation lies under its own id. *)
TypeOK ==
    /\ pools \in [Pools -> Pool]
    /\ res \in [Reservations -> Record \cup {Nothing}]
    /\ \A r \in Reservations : res[r] # Nothing => res[r].ref = r
    /\ receipts \in [Keys -> Record \cup PoolRequest \cup {Nothing}]
    /\ known \in [Callers -> Record \cup {Nothing}]

(* The reservations held in a pool that was defined once fit its capacity,
   whatever callers settle, forget, repeat or leave uncertain. *)
HeldWithinCapacity ==
    \A p \in Pools : pools[p].ver <= 1 => Total(HeldUnits(res, p)) <= pools[p].capacity

(* What a reservation takes from the allowance without overrunning what it
   declared. *)
CoveredUnits(rs, p) ==
    [r \in Reservations |->
        IF Holding(rs[r], p) THEN rs[r].declared
        ELSE IF Within(rs[r], p) THEN Smaller(rs[r].declared, rs[r].charged) ELSE 0]

(* The allowance of a pool that was defined once is exceeded by overruns of
   single reservations only, never by what was admitted. *)
CoveredWithinAllowance ==
    \A p \in Pools : pools[p].ver <= 1 => Total(CoveredUnits(res, p)) <= pools[p].allowance

(* Each version of a reservation was made by exactly one logical request:
   repeated and concurrent requests are neither applied twice nor lost. *)
OneRequestPerVersion ==
    \A r \in Reservations : res[r] # Nothing =>
        \A n \in 1 .. res[r].ver :
            \E k \in Keys : /\ receipts[k] \in Record /\ receipts[k].ref = r /\ receipts[k].ver = n
                            /\ \A l \in Keys \ {k} : receipts[l] \in Record =>
                                  ~(receipts[l].ref = r /\ receipts[l].ver = n)

(* What was consumed or released stays as it was charged, even when a caller
   comes with a record from before. *)
SettlementIsFinal ==
    [][\A r \in Reservations :
          res[r] # Nothing /\ res[r].status \in Closed => res'[r] = res[r]]_vars

(* A reservation keeps its pool and its declared units, although transitions
   write those of the caller's record. *)
DeclarationIsKept ==
    [][\A r \in Reservations : res[r] # Nothing =>
          /\ res'[r] # Nothing
          /\ res'[r].pool = res[r].pool /\ res'[r].declared = res[r].declared]_vars

=============================================================================
