---------------------------- MODULE LimitsProofs ----------------------------
(***************************************************************************)
(* Proofs about Limits for any finite set of reservations and any units,   *)
(* pools, keys and callers.  Sums over the reservations are cardinalities  *)
(* of sets of units, so what a step does to a sum is what it does to a     *)
(* set.  The invariant says that every record a caller or a receipt still  *)
(* has is a past state of the stored reservation, and the latest one only  *)
(* if it is equal to it: that is what makes the version check enough.      *)
(***************************************************************************)
EXTENDS Limits, FiniteSetTheorems, TLAPS

Amounts == [Reservations -> Units]

-----------------------------------------------------------------------------
(* Sums. *)

LEMMA UnitsFinite ==
    ASSUME NEW f
    PROVE  IsFiniteSet(UnitsOf(f)) /\ Total(f) \in Nat
<1>1. IsFiniteSet(1 .. MaxUnits)
  BY FS_Interval, LimitsAssumption DEF LimitsAssumption
<1>2. IsFiniteSet(Reservations \X (1 .. MaxUnits))
  BY <1>1, FS_Product, LimitsAssumption DEF LimitsAssumption
<1>3. UnitsOf(f) \in SUBSET (Reservations \X (1 .. MaxUnits))
  BY DEF UnitsOf
<1>4. IsFiniteSet(UnitsOf(f))
  BY <1>2, <1>3, FS_Subset
<1> QED
  BY <1>4, FS_CardinalityType DEF Total

(* A sum does not grow when no summand does. *)
LEMMA TotalMonotone ==
    ASSUME NEW f \in Amounts, NEW g \in Amounts, \A r \in Reservations : f[r] <= g[r]
    PROVE  Total(f) <= Total(g)
<1>1. UnitsOf(f) \subseteq UnitsOf(g)
  <2> SUFFICES ASSUME NEW u \in UnitsOf(f) PROVE u \in UnitsOf(g)
    OBVIOUS
  <2>1. u \in Reservations \X (1 .. MaxUnits) /\ u[2] <= f[u[1]]
    BY DEF UnitsOf
  <2>2. f[u[1]] <= g[u[1]] /\ f[u[1]] \in Int /\ g[u[1]] \in Int /\ u[2] \in Int
    BY <2>1 DEF Amounts, Units
  <2> QED
    BY <2>1, <2>2 DEF UnitsOf
<1> QED
  BY <1>1, UnitsFinite, FS_Subset DEF Total

(* A sum is at most two others when each of its summands is at most one of
   theirs. *)
LEMMA TotalCovered ==
    ASSUME NEW f \in Amounts, NEW g \in Amounts, NEW h \in Amounts,
           \A r \in Reservations : h[r] <= f[r] \/ h[r] <= g[r]
    PROVE  Total(h) <= Total(f) + Total(g)
<1>1. UnitsOf(h) \subseteq UnitsOf(f) \cup UnitsOf(g)
  <2> SUFFICES ASSUME NEW u \in UnitsOf(h) PROVE u \in UnitsOf(f) \/ u \in UnitsOf(g)
    OBVIOUS
  <2>1. u \in Reservations \X (1 .. MaxUnits) /\ u[2] <= h[u[1]]
    BY DEF UnitsOf
  <2>2. h[u[1]] <= f[u[1]] \/ h[u[1]] <= g[u[1]]
    BY <2>1
  <2>3. f[u[1]] \in Int /\ g[u[1]] \in Int /\ h[u[1]] \in Int /\ u[2] \in Int
    BY <2>1 DEF Amounts, Units
  <2>4. u[2] <= f[u[1]] \/ u[2] <= g[u[1]]
    BY <2>1, <2>2, <2>3
  <2> QED
    BY <2>1, <2>4 DEF UnitsOf
<1>2. IsFiniteSet(UnitsOf(f)) /\ IsFiniteSet(UnitsOf(g))
  BY UnitsFinite
<1>3. /\ IsFiniteSet(UnitsOf(f) \cup UnitsOf(g))
      /\ Cardinality(UnitsOf(f) \cup UnitsOf(g)) =
            Total(f) + Total(g) - Cardinality(UnitsOf(f) \cap UnitsOf(g))
  BY <1>2, FS_Union DEF Total
<1>4. Total(h) <= Cardinality(UnitsOf(f) \cup UnitsOf(g))
  BY <1>1, <1>3, FS_Subset DEF Total
<1>5. UnitsOf(f) \cap UnitsOf(g) \in SUBSET UnitsOf(f)
  OBVIOUS
<1>6. Cardinality(UnitsOf(f) \cap UnitsOf(g)) \in Nat
  BY <1>2, <1>5, FS_Subset, FS_CardinalityType
<1>7. Total(f) \in Nat /\ Total(g) \in Nat /\ Total(h) \in Nat
  BY UnitsFinite
<1> QED
  BY <1>3, <1>4, <1>6, <1>7

(* Raising one summand from nothing to n raises the sum by n at most. *)
LEMMA TotalRaised ==
    ASSUME NEW f \in Amounts, NEW g \in Amounts, NEW r \in Reservations, NEW n \in Units,
           g[r] <= n, \A q \in Reservations \ {r} : g[q] <= f[q]
    PROVE  Total(g) <= Total(f) + n
<1> DEFINE fresh == {r} \X (1 .. n)
<1>1. UnitsOf(g) \subseteq UnitsOf(f) \cup fresh
  <2> SUFFICES ASSUME NEW u \in UnitsOf(g) PROVE u \in UnitsOf(f) \/ u \in fresh
    OBVIOUS
  <2>1. u \in Reservations \X (1 .. MaxUnits) /\ u[2] <= g[u[1]]
    BY DEF UnitsOf
  <2>2. f[u[1]] \in Int /\ g[u[1]] \in Int /\ n \in Int /\ u[2] \in Int /\ u[2] >= 1
    BY <2>1 DEF Amounts, Units
  <2>3. CASE u[1] = r
    <3>1. u[2] \in 1 .. n
      BY <2>1, <2>2, <2>3
    <3> QED
      BY <2>1, <2>3, <3>1
  <2>4. CASE u[1] # r
    <3>1. u[2] <= f[u[1]]
      BY <2>1, <2>2, <2>4
    <3> QED
      BY <2>1, <3>1 DEF UnitsOf
  <2> QED
    BY <2>3, <2>4
<1>2. IsFiniteSet(fresh) /\ Cardinality(fresh) = n
  <2>1. n \in Nat
    BY DEF Units
  <2>2. IsFiniteSet({r}) /\ Cardinality({r}) = 1
    BY FS_Singleton
  <2>3. IsFiniteSet(1 .. n) /\ Cardinality(1 .. n) = n
    BY <2>1, FS_Interval
  <2>4. IsFiniteSet(fresh) /\ Cardinality(fresh) = Cardinality({r}) * Cardinality(1 .. n)
    BY <2>2, <2>3, FS_Product, Zenon
  <2> QED
    BY <2>1, <2>2, <2>3, <2>4
<1>3. IsFiniteSet(UnitsOf(f)) /\ Total(f) \in Nat /\ Total(g) \in Nat
  BY UnitsFinite
<1> HIDE DEF fresh
<1>4. /\ IsFiniteSet(UnitsOf(f) \cup fresh)
      /\ Cardinality(UnitsOf(f) \cup fresh) =
            Total(f) + n - Cardinality(UnitsOf(f) \cap fresh)
  BY <1>2, <1>3, FS_Union DEF Total
<1>5. Total(g) <= Cardinality(UnitsOf(f) \cup fresh)
  BY <1>1, <1>4, FS_Subset DEF Total
<1>6. UnitsOf(f) \cap fresh \in SUBSET UnitsOf(f)
  OBVIOUS
<1>7. Cardinality(UnitsOf(f) \cap fresh) \in Nat
  BY <1>3, <1>6, FS_Subset, FS_CardinalityType
<1>8. n \in Nat
  BY DEF Units
<1> QED
  BY <1>3, <1>4, <1>5, <1>7, <1>8

-----------------------------------------------------------------------------
(* The inductive invariant. *)

(* x is an earlier or the present state of the reservation stored under its id. *)
Past(x) ==
    /\ res[x.ref] # Nothing
    /\ x.ver <= res[x.ref].ver
    /\ x.pool = res[x.ref].pool /\ x.declared = res[x.ref].declared
    /\ x.ver = res[x.ref].ver => x = res[x.ref]

Remembered ==
    /\ \A c \in Callers : known[c] # Nothing => Past(known[c])
    /\ \A k \in Keys : receipts[k] \in Record => Past(receipts[k])

PoolsDefined == \A r \in Reservations : res[r] # Nothing => pools[res[r].pool].ver > 0

IInv ==
    /\ TypeOK /\ Remembered /\ PoolsDefined
    /\ HeldWithinCapacity /\ CoveredWithinAllowance
    /\ OneRequestPerVersion

LEMMA Kinds == Nothing \notin Record /\ \A q \in PoolRequest : q \notin Record
<1>1. Nothing \notin Record
  BY LimitsAssumption DEF LimitsAssumption
<1>2. ASSUME NEW q \in PoolRequest, q \in Record PROVE FALSE
  <2>1. "capacity" \in DOMAIN q /\ "capacity" \notin DOMAIN q
    BY <1>2 DEF PoolRequest, Record
  <2> QED
    BY <2>1
<1> QED
  BY <1>1, <1>2

Reserved == [Reservations -> Record \cup {Nothing}]

LEMMA AmountsType ==
    ASSUME NEW rs \in Reserved, NEW p \in Pools
    PROVE  /\ HeldUnits(rs, p) \in Amounts /\ UsedUnits(rs, p) \in Amounts
           /\ ProjectedUnits(rs, p) \in Amounts /\ CoveredUnits(rs, p) \in Amounts
<1>1. 0 \in Units
  BY LimitsAssumption DEF LimitsAssumption, Units
<1>2. ASSUME NEW r \in Reservations, rs[r] # Nothing
      PROVE  rs[r].declared \in Units /\ rs[r].actual \in Units /\ rs[r].charged \in Units
  BY <1>2 DEF Reserved, Record
<1>3. \A m, n \in Units : Larger(m, n) \in Units /\ Smaller(m, n) \in Units
  BY DEF Larger, Smaller
<1> QED
  BY <1>1, <1>2, <1>3 DEF Amounts, HeldUnits, UsedUnits, ProjectedUnits, CoveredUnits, Holding, Within

LEMMA NewRecordType ==
    ASSUME NEW r \in Reservations, NEW p \in Pools, NEW n \in Units \ {0}
    PROVE  NewRecord(r, p, n) \in Record
<1>1. 0 \in Units
  BY LimitsAssumption DEF LimitsAssumption, Units
<1> QED
  BY <1>1 DEF NewRecord, Record, Held

LEMMA NextRecordType ==
    ASSUME NEW rec \in Record, NEW target \in {"uncertain"} \cup Closed, NEW actual \in Units
    PROVE  NextRecord(rec, target, actual) \in Record
BY DEF NextRecord, Record, Held

LEMMA AmountsOrder ==
    ASSUME NEW f \in Amounts, NEW g \in Amounts, NEW r \in Reservations
    PROVE  f[r] \in Int /\ g[r] \in Int /\ (f[r] = g[r] => f[r] <= g[r])
BY DEF Amounts, Units

(* Admission: n more units fit, and only one free id starts to hold them. *)
LEMMA Admission ==
    ASSUME NEW old \in Reserved, NEW new \in Reserved, NEW r \in Reservations,
           NEW p \in Pools, NEW n \in Units \ {0},
           old[r] = Nothing, new = [old EXCEPT ![r] = NewRecord(r, p, n)]
    PROVE  /\ Total(HeldUnits(new, p)) <= Total(HeldUnits(old, p)) + n
           /\ Total(CoveredUnits(new, p)) <= Total(CoveredUnits(old, p)) + n
           /\ Total(CoveredUnits(old, p)) <= Total(UsedUnits(old, p)) + Total(ProjectedUnits(old, p))
           /\ \A q \in Pools \ {p} : /\ HeldUnits(new, q) = HeldUnits(old, q)
                                     /\ CoveredUnits(new, q) = CoveredUnits(old, q)
<1>1. \A q \in Pools : /\ HeldUnits(old, q) \in Amounts /\ HeldUnits(new, q) \in Amounts
                       /\ CoveredUnits(old, q) \in Amounts /\ CoveredUnits(new, q) \in Amounts
                       /\ UsedUnits(old, q) \in Amounts /\ ProjectedUnits(old, q) \in Amounts
  BY AmountsType
<1>2. new[r] = NewRecord(r, p, n) /\ \A s \in Reservations \ {r} : new[s] = old[s]
  BY DEF Reserved
<1>3. new[r] # Nothing
  BY <1>2, Kinds, NewRecordType
<1>4. /\ HeldUnits(new, p)[r] = n
      /\ \A s \in Reservations \ {r} : HeldUnits(new, p)[s] = HeldUnits(old, p)[s]
  BY <1>2, <1>3 DEF HeldUnits, Holding, Within, NewRecord, Held
<1>5. /\ CoveredUnits(new, p)[r] = n
      /\ \A s \in Reservations \ {r} : CoveredUnits(new, p)[s] = CoveredUnits(old, p)[s]
  BY <1>2, <1>3 DEF CoveredUnits, Holding, Within, NewRecord, Held
<1>6. Total(HeldUnits(new, p)) <= Total(HeldUnits(old, p)) + n
  <2>1. \A s \in Reservations \ {r} : HeldUnits(new, p)[s] <= HeldUnits(old, p)[s]
    BY <1>1, <1>4, AmountsOrder
  <2>2. n \in Units /\ HeldUnits(new, p)[r] <= n
    BY <1>4 DEF Units
  <2> QED
    BY <1>1, <2>1, <2>2, TotalRaised
<1>7. Total(CoveredUnits(new, p)) <= Total(CoveredUnits(old, p)) + n
  <2>1. \A s \in Reservations \ {r} : CoveredUnits(new, p)[s] <= CoveredUnits(old, p)[s]
    BY <1>1, <1>5, AmountsOrder
  <2>2. n \in Units /\ CoveredUnits(new, p)[r] <= n
    BY <1>5 DEF Units
  <2> QED
    BY <1>1, <2>1, <2>2, TotalRaised
<1>8. \A s \in Reservations : \/ CoveredUnits(old, p)[s] <= UsedUnits(old, p)[s]
                              \/ CoveredUnits(old, p)[s] <= ProjectedUnits(old, p)[s]
  <2> SUFFICES ASSUME NEW s \in Reservations
               PROVE  \/ CoveredUnits(old, p)[s] <= UsedUnits(old, p)[s]
                      \/ CoveredUnits(old, p)[s] <= ProjectedUnits(old, p)[s]
    OBVIOUS
  <2>1. CASE ~Within(old[s], p)
    BY <2>1 DEF CoveredUnits, UsedUnits, Holding
  <2>2. CASE Within(old[s], p)
    <3>1. old[s].declared \in Int /\ old[s].charged \in Int /\ old[s].actual \in Int
      BY <2>2 DEF Within, Reserved, Record, Units
    <3> QED
      BY <2>2, <3>1 DEF CoveredUnits, UsedUnits, ProjectedUnits, Holding, Larger, Smaller
  <2> QED
    BY <2>1, <2>2
<1>9. Total(CoveredUnits(old, p)) <= Total(UsedUnits(old, p)) + Total(ProjectedUnits(old, p))
  BY <1>1, <1>8, TotalCovered
<1>10. ASSUME NEW q \in Pools \ {p}
       PROVE  HeldUnits(new, q) = HeldUnits(old, q) /\ CoveredUnits(new, q) = CoveredUnits(old, q)
  <2>1. ~Within(new[r], q) /\ ~Within(old[r], q)
    BY <1>2 DEF Within, NewRecord
  <2> QED
    BY <1>2, <2>1 DEF HeldUnits, CoveredUnits, Holding
<1> QED
  BY <1>6, <1>7, <1>9, <1>10

(* A transition of a held reservation gives units back, or keeps them. *)
LEMMA Settlement ==
    ASSUME NEW old \in Reserved, NEW new \in Reserved, NEW r \in Reservations,
           old[r] # Nothing, old[r].status \in Held,
           NEW target \in {"uncertain"} \cup Closed, NEW actual \in Units,
           new = [old EXCEPT ![r] = NextRecord(old[r], target, actual)], NEW p \in Pools
    PROVE  /\ Total(HeldUnits(new, p)) <= Total(HeldUnits(old, p))
           /\ Total(CoveredUnits(new, p)) <= Total(CoveredUnits(old, p))
<1>1. /\ HeldUnits(old, p) \in Amounts /\ HeldUnits(new, p) \in Amounts
      /\ CoveredUnits(old, p) \in Amounts /\ CoveredUnits(new, p) \in Amounts
  BY AmountsType
<1>2. new[r] = NextRecord(old[r], target, actual) /\ \A s \in Reservations \ {r} : new[s] = old[s]
  BY DEF Reserved
<1>3. /\ new[r].pool = old[r].pool /\ new[r].declared = old[r].declared
      /\ new[r].status = target
      /\ target \in Closed => new[r].charged = actual
  BY <1>2 DEF NextRecord
<1>4. old[r].declared \in Int /\ old[r].declared >= 0 /\ actual \in Int
  BY DEF Reserved, Record, Units
<1>5. target \in Held \/ target \in Closed
  BY DEF Held, Closed
<1>6. /\ HeldUnits(new, p)[r] <= HeldUnits(old, p)[r]
      /\ CoveredUnits(new, p)[r] <= CoveredUnits(old, p)[r]
  BY <1>3, <1>4, <1>5 DEF HeldUnits, CoveredUnits, Holding, Within, Smaller, Held, Closed
<1>7. \A s \in Reservations \ {r} : /\ HeldUnits(new, p)[s] = HeldUnits(old, p)[s]
                                    /\ CoveredUnits(new, p)[s] = CoveredUnits(old, p)[s]
  BY <1>2 DEF HeldUnits, CoveredUnits
<1>8. \A s \in Reservations : /\ HeldUnits(new, p)[s] <= HeldUnits(old, p)[s]
                              /\ CoveredUnits(new, p)[s] <= CoveredUnits(old, p)[s]
  BY <1>1, <1>6, <1>7, AmountsOrder
<1> QED
  BY <1>1, <1>8, TotalMonotone

-----------------------------------------------------------------------------
(* The steps. *)

(* A past state stays one when reservations only move on. *)
LEMMA PastStays ==
    ASSUME TypeOK, TypeOK', NEW x \in Record, Past(x),
           \/ res'[x.ref] = res[x.ref]
           \/ /\ res'[x.ref] # Nothing
              /\ res'[x.ref].ver > res[x.ref].ver
              /\ res'[x.ref].pool = res[x.ref].pool
              /\ res'[x.ref].declared = res[x.ref].declared
    PROVE  Past(x)'
<1>1. x.ref \in Reservations /\ x.ver \in Nat
  BY DEF Record
<1>2. res[x.ref] \in Record /\ res[x.ref].ver \in Nat
  BY <1>1 DEF Past, TypeOK, Record
<1>3. CASE res'[x.ref] = res[x.ref]
  BY <1>3 DEF Past
<1>4. CASE res'[x.ref] # res[x.ref]
  <2>1. res'[x.ref] \in Record /\ res'[x.ref].ver \in Nat
    BY <1>1, <1>4 DEF TypeOK, Record
  <2> QED
    BY <1>1, <1>2, <1>4, <2>1 DEF Past
<1> QED
  BY <1>3, <1>4

LEMMA CreatePoolInductive ==
    ASSUME IInv, NEW k \in Keys, NEW q \in PoolRequests, CreatePool(k, q)
    PROVE  IInv'
<1>1. q \in PoolRequest /\ q \notin Record
  BY Kinds, LimitsAssumption DEF LimitsAssumption
<1>2. q.pool \in Pools /\ q.capacity \in Nat /\ q.allowance \in Nat
  BY <1>1 DEF PoolRequest
<1>3. TypeOK /\ res' = res /\ known' = known /\ receipts' = [receipts EXCEPT ![k] = q]
  BY DEF IInv, CreatePool
<1>4. /\ pools'[q.pool].ver = pools[q.pool].ver + 1
      /\ pools[q.pool].ver \in Nat
      /\ \A p \in Pools \ {q.pool} : pools'[p] = pools[p]
      /\ \A p \in Pools : pools'[p] \in Pool
  BY <1>2, <1>3 DEF CreatePool, TypeOK, Pool
<1>5. TypeOK'
  <2>1. pools' \in [Pools -> Pool]
    BY <1>2, <1>3, <1>4 DEF CreatePool, TypeOK
  <2>2. receipts' \in [Keys -> Record \cup PoolRequest \cup {Nothing}]
    BY <1>1, <1>3 DEF TypeOK
  <2> QED
    BY <1>3, <2>1, <2>2 DEF TypeOK
<1>6. \A l \in Keys : receipts'[l] \in Record => receipts'[l] = receipts[l]
  BY <1>1, <1>3 DEF TypeOK
<1>7. Remembered'
  BY <1>3, <1>6 DEF IInv, Remembered, Past
<1>8. PoolsDefined'
  <2> SUFFICES ASSUME NEW r \in Reservations, res[r] # Nothing
               PROVE  pools'[res[r].pool].ver > 0
    BY <1>3 DEF PoolsDefined
  <2>1. res[r].pool \in Pools /\ pools[res[r].pool].ver > 0
    BY <1>3 DEF IInv, PoolsDefined, TypeOK, Record
  <2> QED
    BY <2>1, <1>4
<1>9. ASSUME NEW p \in Pools, pools'[p].ver <= 1
      PROVE  /\ Total(HeldUnits(res, p)) <= pools'[p].capacity
             /\ Total(CoveredUnits(res, p)) <= pools'[p].allowance
  <2>1. CASE p # q.pool
    BY <1>4, <1>9, <2>1 DEF IInv, HeldWithinCapacity, CoveredWithinAllowance
  <2>2. CASE p = q.pool
    <3>1. pools[p].ver = 0
      BY <1>4, <1>9, <2>2
    <3>2. \A r \in Reservations : ~Within(res[r], p)
      BY <3>1 DEF IInv, PoolsDefined, Within
    <3>3. \A r \in Reservations : HeldUnits(res, p)[r] = 0 /\ CoveredUnits(res, p)[r] = 0
      BY <3>2 DEF HeldUnits, CoveredUnits, Holding
    <3>4. UnitsOf(HeldUnits(res, p)) = {} /\ UnitsOf(CoveredUnits(res, p)) = {}
      BY <3>3 DEF UnitsOf
    <3>5. Total(HeldUnits(res, p)) = 0 /\ Total(CoveredUnits(res, p)) = 0
      BY <3>4, FS_EmptySet DEF Total
    <3> QED
      BY <3>5, <1>4 DEF Pool
  <2> QED
    BY <2>1, <2>2
<1>10. HeldWithinCapacity' /\ CoveredWithinAllowance'
  BY <1>3, <1>9 DEF HeldWithinCapacity, CoveredWithinAllowance
<1>11. OneRequestPerVersion'
  <2>1. \A l \in Keys : receipts[l] \in Record => receipts'[l] = receipts[l]
    BY <1>3, Kinds DEF CreatePool, TypeOK
  <2> QED
    BY <1>3, <1>6, <2>1 DEF IInv, OneRequestPerVersion
<1> QED
  BY <1>5, <1>7, <1>8, <1>10, <1>11 DEF IInv

(* The request under key k makes version n of r: the only one that does. *)
LEMMA RequestsGrow ==
    ASSUME TypeOK, TypeOK', OneRequestPerVersion, Remembered,
           NEW k \in Keys, receipts[k] = Nothing,
           NEW x \in Record, receipts' = [receipts EXCEPT ![k] = x],
           res' = [res EXCEPT ![x.ref] = x],
           \/ res[x.ref] = Nothing /\ x.ver = 1
           \/ res[x.ref] # Nothing /\ x.ver = res[x.ref].ver + 1
    PROVE  OneRequestPerVersion'
<1>1. x.ref \in Reservations /\ x.ver \in Nat \ {0} /\ x # Nothing
  BY Kinds DEF Record
<1>2. /\ res'[x.ref] = x /\ \A r \in Reservations \ {x.ref} : res'[r] = res[r]
      /\ receipts'[k] = x /\ \A l \in Keys \ {k} : receipts'[l] = receipts[l]
  BY <1>1 DEF TypeOK
<1>3. receipts[k] \notin Record
  BY Kinds
<1>4. \A l \in Keys : receipts[l] \in Record /\ receipts[l].ref = x.ref => receipts[l].ver < x.ver
  <2> SUFFICES ASSUME NEW l \in Keys, receipts[l] \in Record, receipts[l].ref = x.ref
               PROVE  receipts[l].ver < x.ver
    OBVIOUS
  <2>1. res[x.ref] # Nothing /\ receipts[l].ver <= res[x.ref].ver
    BY DEF Remembered, Past
  <2>2. receipts[l].ver \in Nat /\ res[x.ref].ver \in Nat
    BY <1>1, <2>1 DEF TypeOK, Record
  <2> QED
    BY <1>1, <2>1, <2>2
<1> SUFFICES ASSUME NEW r \in Reservations, res'[r] # Nothing, NEW n \in 1 .. res'[r].ver
             PROVE  \E m \in Keys :
                       /\ receipts'[m] \in Record /\ receipts'[m].ref = r /\ receipts'[m].ver = n
                       /\ \A l \in Keys \ {m} : receipts'[l] \in Record =>
                             ~(receipts'[l].ref = r /\ receipts'[l].ver = n)
  BY DEF OneRequestPerVersion
<1>5. CASE r = x.ref /\ n = x.ver
  <2>1. \A l \in Keys \ {k} : receipts'[l] \in Record =>
           ~(receipts'[l].ref = r /\ receipts'[l].ver = n)
    <3> SUFFICES ASSUME NEW l \in Keys \ {k}, receipts'[l] \in Record,
                        receipts'[l].ref = r, receipts'[l].ver = n
                 PROVE  FALSE
      OBVIOUS
    <3>1. receipts[l].ver < x.ver
      BY <1>2, <1>4, <1>5
    <3> QED
      BY <1>1, <1>2, <1>5, <3>1
  <2> QED
    BY <1>2, <1>5, <2>1
<1>6. CASE ~(r = x.ref /\ n = x.ver)
  <2>1. res[r] # Nothing /\ n \in 1 .. res[r].ver
    <3>1. CASE r # x.ref
      BY <1>2, <3>1
    <3>2. CASE r = x.ref
      <4>1. n \in 1 .. x.ver /\ n # x.ver
        BY <1>2, <1>6, <3>2
      <4>2. res[r] # Nothing
        BY <1>1, <3>2, <4>1
      <4>3. res[r].ver \in Nat /\ x.ver = res[r].ver + 1
        BY <3>2, <4>2 DEF TypeOK, Record
      <4> QED
        BY <4>1, <4>2, <4>3
    <3> QED
      BY <3>1, <3>2
  <2>2. PICK m \in Keys :
           /\ receipts[m] \in Record /\ receipts[m].ref = r /\ receipts[m].ver = n
           /\ \A l \in Keys \ {m} : receipts[l] \in Record =>
                 ~(receipts[l].ref = r /\ receipts[l].ver = n)
    BY <2>1 DEF OneRequestPerVersion
  <2>3. m # k /\ receipts'[m] = receipts[m]
    BY <1>2, <1>3, <2>2
  <2>4. \A l \in Keys \ {m} : receipts'[l] \in Record =>
           ~(receipts'[l].ref = r /\ receipts'[l].ver = n)
    BY <1>2, <1>6, <2>2
  <2> QED
    BY <2>2, <2>3, <2>4
<1> QED
  BY <1>5, <1>6

(* What callers and receipts remember stays past when x, the new state of its
   reservation, is what they may learn. *)
LEMMA MemoryGrows ==
    ASSUME TypeOK, TypeOK', Remembered,
           NEW c \in Callers, NEW k \in Keys, NEW x \in Record,
           receipts' = [receipts EXCEPT ![k] = x], Answer(c, x),
           res' = [res EXCEPT ![x.ref] = x],
           \/ res[x.ref] = Nothing
           \/ /\ x.ver > res[x.ref].ver
              /\ x.pool = res[x.ref].pool /\ x.declared = res[x.ref].declared
    PROVE  Remembered'
<1>1. x.ref \in Reservations /\ x.ver \in Nat /\ x # Nothing
  BY Kinds DEF Record
<1>2. res'[x.ref] = x /\ \A r \in Reservations \ {x.ref} : res'[r] = res[r]
  BY <1>1 DEF TypeOK
<1>3. Past(x)'
  BY <1>1, <1>2 DEF Past
<1>4. ASSUME NEW y \in Record, Past(y) PROVE Past(y)'
  <2>1. y.ref \in Reservations
    BY DEF Record
  <2>2. CASE y.ref # x.ref
    BY <1>2, <1>4, <2>1, <2>2, PastStays
  <2>3. CASE y.ref = x.ref
    <3>1. res[x.ref] # Nothing
      BY <1>4, <2>3 DEF Past
    <3> QED
      BY <1>1, <1>2, <1>4, <2>3, <3>1, PastStays
  <2> QED
    BY <2>2, <2>3
<1>5. ASSUME NEW d \in Callers, known'[d] # Nothing PROVE Past(known[d])'
  <2>1. known'[d] = x \/ known'[d] = known[d]
    BY DEF Answer, TypeOK
  <2>2. CASE known'[d] = x
    BY <1>3, <2>2 DEF Past
  <2>3. CASE known'[d] = known[d]
    <3>1. known[d] \in Record /\ Past(known[d])
      BY <1>5, <2>3 DEF Remembered, TypeOK
    <3>2. \A y \in Record : Past(y) => Past(y)'
      BY <1>4
    <3> QED
      BY <2>3, <3>1, <3>2 DEF Past
  <2> QED
    BY <2>1, <2>2, <2>3
<1>6. ASSUME NEW l \in Keys, receipts'[l] \in Record PROVE Past(receipts[l])'
  <2>1. receipts'[l] = x \/ receipts'[l] = receipts[l]
    BY DEF TypeOK
  <2>2. CASE receipts'[l] = x
    BY <1>3, <2>2 DEF Past
  <2>3. CASE receipts'[l] = receipts[l]
    <3>1. receipts[l] \in Record /\ Past(receipts[l])
      BY <1>6, <2>3 DEF Remembered
    <3>2. \A y \in Record : Past(y) => Past(y)'
      BY <1>4
    <3> QED
      BY <2>3, <3>1, <3>2 DEF Past
  <2> QED
    BY <2>1, <2>2, <2>3
<1> QED
  BY <1>5, <1>6 DEF Remembered

LEMMA ReserveInductive ==
    ASSUME IInv, NEW c \in Callers, NEW k \in Keys, NEW r \in Reservations, NEW p \in Pools,
           NEW n \in Units \ {0}, Reserve(c, k, r, p, n)
    PROVE  IInv'
<1> DEFINE x == NewRecord(r, p, n)
<1>1. x \in Record /\ x.ref = r /\ x.ver = 1 /\ x.pool = p
  BY NewRecordType DEF NewRecord
<1>2. /\ TypeOK /\ receipts[k] = Nothing /\ res[r] = Nothing /\ Fits(p, n) /\ pools[p].ver > 0
      /\ res' = [res EXCEPT ![r] = x] /\ receipts' = [receipts EXCEPT ![k] = x]
      /\ Answer(c, x) /\ pools' = pools
  BY DEF IInv, Reserve, Vacant
<1>3. res[r] = Nothing /\ res' = [res EXCEPT ![r] = NewRecord(r, p, n)]
  BY <1>2
<1> HIDE DEF x
<1>4. TypeOK'
  <2>1. res' \in [Reservations -> Record \cup {Nothing}]
    BY <1>1, <1>2 DEF TypeOK
  <2>2. \A s \in Reservations : res'[s] # Nothing => res'[s].ref = s
    BY <1>1, <1>2 DEF TypeOK
  <2>3. receipts' \in [Keys -> Record \cup PoolRequest \cup {Nothing}]
    BY <1>1, <1>2 DEF TypeOK
  <2>4. known' \in [Callers -> Record \cup {Nothing}]
    BY <1>1, <1>2 DEF TypeOK, Answer
  <2> QED
    BY <1>2, <2>1, <2>2, <2>3, <2>4 DEF TypeOK
<1>5. Remembered'
  BY <1>1, <1>2, <1>4, MemoryGrows DEF IInv
<1>6. OneRequestPerVersion'
  BY <1>1, <1>2, <1>4, RequestsGrow DEF IInv
<1>7. PoolsDefined'
  BY <1>1, <1>2 DEF IInv, PoolsDefined, TypeOK
<1>8. res \in Reserved /\ res' \in Reserved
  BY <1>2, <1>4 DEF TypeOK, Reserved
<1>9. /\ Total(HeldUnits(res', p)) <= Total(HeldUnits(res, p)) + n
      /\ Total(CoveredUnits(res', p)) <= Total(CoveredUnits(res, p)) + n
      /\ Total(CoveredUnits(res, p)) <= Total(UsedUnits(res, p)) + Total(ProjectedUnits(res, p))
      /\ \A q \in Pools \ {p} : /\ HeldUnits(res', q) = HeldUnits(res, q)
                                /\ CoveredUnits(res', q) = CoveredUnits(res, q)
  <2>1. Total(HeldUnits(res', p)) <= Total(HeldUnits(res, p)) + n
    BY <1>3, <1>8, Admission
  <2>2. Total(CoveredUnits(res', p)) <= Total(CoveredUnits(res, p)) + n
    BY <1>3, <1>8, Admission
  <2>3. Total(CoveredUnits(res, p)) <= Total(UsedUnits(res, p)) + Total(ProjectedUnits(res, p))
    BY <1>3, <1>8, Admission
  <2>4. \A q \in Pools \ {p} : HeldUnits(res', q) = HeldUnits(res, q)
    BY <1>3, <1>8, Admission
  <2>5. \A q \in Pools \ {p} : CoveredUnits(res', q) = CoveredUnits(res, q)
    BY <1>3, <1>8, Admission
  <2> QED
    BY <2>1, <2>2, <2>3, <2>4, <2>5
<1>10. n \in Int /\ pools[p].capacity \in Int /\ pools[p].allowance \in Int
  BY <1>2 DEF TypeOK, Pool, Units
<1>11. /\ Total(HeldUnits(res, p)) \in Nat /\ Total(HeldUnits(res', p)) \in Nat
       /\ Total(CoveredUnits(res, p)) \in Nat /\ Total(CoveredUnits(res', p)) \in Nat
       /\ Total(UsedUnits(res, p)) \in Nat /\ Total(ProjectedUnits(res, p)) \in Nat
  BY UnitsFinite
<1>12. /\ Total(HeldUnits(res, p)) + n <= pools[p].capacity
       /\ Total(UsedUnits(res, p)) + Total(ProjectedUnits(res, p)) + n <= pools[p].allowance
  BY <1>2 DEF Fits
<1>13. /\ Total(HeldUnits(res', p)) <= pools[p].capacity
       /\ Total(CoveredUnits(res', p)) <= pools[p].allowance
  BY <1>9, <1>10, <1>11, <1>12
<1>14. HeldWithinCapacity' /\ CoveredWithinAllowance'
  <2> SUFFICES ASSUME NEW q \in Pools, pools[q].ver <= 1
               PROVE  /\ Total(HeldUnits(res', q)) <= pools[q].capacity
                      /\ Total(CoveredUnits(res', q)) <= pools[q].allowance
    BY <1>2 DEF HeldWithinCapacity, CoveredWithinAllowance
  <2>1. CASE q = p
    BY <1>13, <2>1
  <2>2. CASE q # p
    BY <1>9, <2>2 DEF IInv, HeldWithinCapacity, CoveredWithinAllowance
  <2> QED
    BY <2>1, <2>2
<1> QED
  BY <1>4, <1>5, <1>6, <1>7, <1>14 DEF IInv

(* A caller whose record passes the version check holds the stored record. *)
LEMMA CurrentIsStored ==
    ASSUME TypeOK, Remembered, NEW c \in Callers, known[c] # Nothing, Current(known[c])
    PROVE  /\ known[c] \in Record /\ known[c].ref \in Reservations
           /\ res[known[c].ref] = known[c]
<1>1. known[c] \in Record
  BY DEF TypeOK
<1> QED
  BY <1>1 DEF Remembered, Past, Current, Record

LEMMA TransitionInductive ==
    ASSUME IInv, NEW c \in Callers, NEW k \in Keys, NEW target \in {"uncertain"} \cup Closed,
           NEW actual \in Units, Transition(c, k, target, actual)
    PROVE  IInv'
<1> DEFINE old == known[c]
           r == old.ref
           x == NextRecord(old, target, actual)
<1>1. /\ TypeOK /\ Remembered /\ OneRequestPerVersion /\ receipts[k] = Nothing
      /\ old # Nothing /\ Allowed(old, target) /\ Current(old)
      /\ res' = [res EXCEPT ![r] = x] /\ receipts' = [receipts EXCEPT ![k] = x]
      /\ Answer(c, x) /\ pools' = pools
  BY DEF IInv, Transition
<1>2. old \in Record /\ r \in Reservations /\ res[r] = old
  BY <1>1, CurrentIsStored
<1>3. x \in Record
  BY <1>2, NextRecordType
<1>4. /\ x.ref = r /\ x.ver = old.ver + 1 /\ x.pool = old.pool /\ x.declared = old.declared
  BY DEF NextRecord
<1>5. old.ver \in Nat /\ old.status \in Held
  BY <1>1, <1>2 DEF Record, Allowed, Held
<1>6. res' = [res EXCEPT ![r] = NextRecord(res[r], target, actual)]
  BY <1>1, <1>2
<1> HIDE DEF x
<1>7. TypeOK'
  <2>1. res' \in [Reservations -> Record \cup {Nothing}]
    BY <1>1, <1>2, <1>3 DEF TypeOK
  <2>2. \A s \in Reservations : res'[s] # Nothing => res'[s].ref = s
    BY <1>1, <1>2, <1>4 DEF TypeOK
  <2>3. receipts' \in [Keys -> Record \cup PoolRequest \cup {Nothing}]
    BY <1>1, <1>3 DEF TypeOK
  <2>4. known' \in [Callers -> Record \cup {Nothing}]
    BY <1>1, <1>3 DEF TypeOK, Answer
  <2> QED
    BY <1>1, <2>1, <2>2, <2>3, <2>4 DEF TypeOK
<1>8. Remembered'
  <2>1. x.ver > res[x.ref].ver /\ x.pool = res[x.ref].pool /\ x.declared = res[x.ref].declared
    BY <1>2, <1>4, <1>5
  <2>2. res' = [res EXCEPT ![x.ref] = x]
    BY <1>1, <1>4
  <2> HIDE DEF old, r
  <2> QED
    BY <1>1, <1>3, <1>7, <2>1, <2>2, MemoryGrows
<1>9. OneRequestPerVersion'
  <2>1. res[x.ref] # Nothing /\ x.ver = res[x.ref].ver + 1
    BY <1>1, <1>2, <1>4
  <2>2. res' = [res EXCEPT ![x.ref] = x]
    BY <1>1, <1>4
  <2> HIDE DEF old, r
  <2> QED
    BY <1>1, <1>3, <1>7, <2>1, <2>2, RequestsGrow
<1>10. PoolsDefined'
  <2>1. \A s \in Reservations : res'[s] # Nothing => res[s] # Nothing /\ res'[s].pool = res[s].pool
    BY <1>1, <1>2, <1>4 DEF TypeOK
  <2> QED
    BY <1>1, <2>1 DEF IInv, PoolsDefined
<1>11. res \in Reserved /\ res' \in Reserved
  BY <1>1, <1>7 DEF TypeOK, Reserved
<1>12. ASSUME NEW p \in Pools
       PROVE  /\ Total(HeldUnits(res', p)) <= Total(HeldUnits(res, p))
              /\ Total(CoveredUnits(res', p)) <= Total(CoveredUnits(res, p))
  <2>1. res[r] # Nothing /\ res[r].status \in Held
    BY <1>1, <1>2, <1>5
  <2> HIDE DEF old, r
  <2> QED
    BY <1>2, <1>6, <1>11, <2>1, Settlement
<1>13. ASSUME NEW p \in Pools, pools[p].ver <= 1
       PROVE  /\ Total(HeldUnits(res', p)) <= pools[p].capacity
              /\ Total(CoveredUnits(res', p)) <= pools[p].allowance
  <2>1. /\ Total(HeldUnits(res, p)) <= pools[p].capacity
        /\ Total(CoveredUnits(res, p)) <= pools[p].allowance
    BY <1>13 DEF IInv, HeldWithinCapacity, CoveredWithinAllowance
  <2>2. pools[p].capacity \in Int /\ pools[p].allowance \in Int
    BY <1>1 DEF TypeOK, Pool
  <2>3. /\ Total(HeldUnits(res, p)) \in Nat /\ Total(HeldUnits(res', p)) \in Nat
        /\ Total(CoveredUnits(res, p)) \in Nat /\ Total(CoveredUnits(res', p)) \in Nat
    BY UnitsFinite
  <2> QED
    BY <1>12, <2>1, <2>2, <2>3
<1>14. HeldWithinCapacity' /\ CoveredWithinAllowance'
  BY <1>1, <1>13 DEF HeldWithinCapacity, CoveredWithinAllowance
<1> QED
  BY <1>7, <1>8, <1>9, <1>10, <1>14 DEF IInv

(* What a caller learns or forgets without a request is still past. *)
LEMMA RecallInductive ==
    ASSUME IInv, UNCHANGED <<pools, res, receipts>>,
           known' \in [Callers -> Record \cup {Nothing}],
           \A c \in Callers : \/ known'[c] \in {Nothing, known[c]}
                              \/ \E k \in Keys : known'[c] = receipts[k] /\ receipts[k] \in Record
                              \/ \E r \in Reservations : known'[c] = res[r] /\ res[r] # Nothing
    PROVE  IInv'
<1>1. TypeOK'
  BY DEF IInv, TypeOK
<1>2. ASSUME NEW c \in Callers, known'[c] # Nothing PROVE Past(known'[c])
  <2>1. ASSUME NEW r \in Reservations, res[r] # Nothing PROVE Past(res[r])
    <3>1. res[r] \in Record /\ res[r].ref = r /\ res[r].ver \in Nat
      BY <2>1 DEF IInv, TypeOK, Record
    <3> QED
      BY <2>1, <3>1 DEF Past
  <2>2. \A k \in Keys : receipts[k] \in Record => Past(receipts[k])
    BY DEF IInv, Remembered
  <2>3. known[c] # Nothing => Past(known[c])
    BY DEF IInv, Remembered
  <2> HIDE DEF Past
  <2> QED
    BY <1>2, <2>1, <2>2, <2>3
<1>3. Remembered'
  BY <1>2 DEF IInv, Remembered, Past
<1> QED
  BY <1>1, <1>3 DEF IInv, PoolsDefined, HeldWithinCapacity, CoveredWithinAllowance, OneRequestPerVersion

LEMMA InitInductive ==
    ASSUME Init
    PROVE  IInv
<1>1. Nothing \notin Record
  BY Kinds
<1>2. TypeOK
  BY DEF Init, TypeOK, Pool
<1>3. \A r \in Reservations, p \in Pools : ~Within(res[r], p)
  BY DEF Init, Within
<1>4. ASSUME NEW p \in Pools
      PROVE  Total(HeldUnits(res, p)) = 0 /\ Total(CoveredUnits(res, p)) = 0
  <2>1. \A r \in Reservations : HeldUnits(res, p)[r] = 0 /\ CoveredUnits(res, p)[r] = 0
    BY <1>3 DEF HeldUnits, CoveredUnits, Holding
  <2>2. UnitsOf(HeldUnits(res, p)) = {} /\ UnitsOf(CoveredUnits(res, p)) = {}
    BY <2>1 DEF UnitsOf
  <2> QED
    BY <2>2, FS_EmptySet DEF Total
<1>5. HeldWithinCapacity /\ CoveredWithinAllowance
  BY <1>4 DEF Init, HeldWithinCapacity, CoveredWithinAllowance
<1> QED
  BY <1>1, <1>2, <1>5 DEF Init, IInv, Remembered, PoolsDefined, OneRequestPerVersion

LEMMA NextInductive ==
    ASSUME IInv, [Next]_vars
    PROVE  IInv'
<1>1. ASSUME NEW k \in Keys, NEW q \in PoolRequests, CreatePool(k, q) PROVE IInv'
  BY <1>1, CreatePoolInductive
<1>2. ASSUME NEW c \in Callers, NEW k \in Keys, NEW r \in Reservations, NEW p \in Pools,
             NEW n \in Units \ {0}, Reserve(c, k, r, p, n)
      PROVE  IInv'
  BY <1>2, ReserveInductive
<1>3. ASSUME NEW c \in Callers, NEW k \in Keys, NEW target \in {"uncertain"} \cup Closed,
             NEW actual \in Units, Transition(c, k, target, actual)
      PROVE  IInv'
  BY <1>3, TransitionInductive
<1>4. ASSUME NEW c \in Callers, NEW k \in Keys, Replay(c, k) PROVE IInv'
  <2>1. known' = [known EXCEPT ![c] = receipts[k]] /\ receipts[k] \in Record
    BY <1>4 DEF Replay
  <2>2. /\ known' \in [Callers -> Record \cup {Nothing}]
        /\ \A d \in Callers : known'[d] = known[d] \/ known'[d] = receipts[k]
    BY <2>1 DEF IInv, TypeOK
  <2> QED
    BY <1>4, <2>1, <2>2, RecallInductive DEF Replay
<1>5. ASSUME NEW c \in Callers, NEW r \in Reservations, Read(c, r) PROVE IInv'
  <2>1. known' = [known EXCEPT ![c] = res[r]] /\ res[r] # Nothing
    BY <1>5 DEF Read
  <2>2. /\ known' \in [Callers -> Record \cup {Nothing}]
        /\ \A d \in Callers : known'[d] = known[d] \/ known'[d] = res[r]
    BY <2>1 DEF IInv, TypeOK
  <2> QED
    BY <1>5, <2>1, <2>2, RecallInductive DEF Read
<1>6. ASSUME NEW c \in Callers, Restart(c) PROVE IInv'
  <2>1. known' = [known EXCEPT ![c] = Nothing]
    BY <1>6 DEF Restart
  <2>2. /\ known' \in [Callers -> Record \cup {Nothing}]
        /\ \A d \in Callers : known'[d] \in {Nothing, known[d]}
    BY <2>1 DEF IInv, TypeOK
  <2> QED
    BY <1>6, <2>2, RecallInductive DEF Restart
<1>7. CASE UNCHANGED vars
  BY <1>7 DEF vars, IInv, TypeOK, Remembered, Past, PoolsDefined, HeldWithinCapacity,
              CoveredWithinAllowance, OneRequestPerVersion
<1> QED
  BY <1>1, <1>2, <1>3, <1>4, <1>5, <1>6, <1>7 DEF Next

LEMMA Invariance == Spec => []IInv
<1>1. Init => IInv
  BY InitInductive
<1>2. IInv /\ [Next]_vars => IInv'
  BY NextInductive
<1> QED
  BY <1>1, <1>2, PTL DEF Spec

-----------------------------------------------------------------------------
(* Theorems. *)

(* Reservations, receipts and the records in callers' hands have their types,
   for any reservations, keys, pools and callers. *)
THEOREM TypeCorrect == Spec => []TypeOK
<1>1. IInv => TypeOK
  BY DEF IInv
<1> QED
  BY <1>1, Invariance, PTL

(* A pool that was defined once never holds more than its capacity, however
   many callers reserve, settle, repeat and forget. *)
THEOREM CapacityIsNeverExceeded == Spec => []HeldWithinCapacity
<1>1. IInv => HeldWithinCapacity
  BY DEF IInv
<1> QED
  BY <1>1, Invariance, PTL

(* What was admitted against an allowance never exceeds it; only overruns of
   what a reservation declared may. *)
THEOREM AllowanceCoversAdmissions == Spec => []CoveredWithinAllowance
<1>1. IInv => CoveredWithinAllowance
  BY DEF IInv
<1> QED
  BY <1>1, Invariance, PTL

(* Each version of a reservation comes from exactly one logical request. *)
THEOREM RequestsApplyOnce == Spec => []OneRequestPerVersion
<1>1. IInv => OneRequestPerVersion
  BY DEF IInv
<1> QED
  BY <1>1, Invariance, PTL

(* What a step does to a stored reservation: nothing, or a transition that
   keeps its declaration and that a closed one does not admit. *)
LEMMA StepKeeps ==
    ASSUME IInv, Next, NEW r \in Reservations, res[r] # Nothing
    PROVE  /\ res'[r] # Nothing
           /\ res'[r].pool = res[r].pool /\ res'[r].declared = res[r].declared
           /\ res[r].status \in Closed => res'[r] = res[r]
<1>1. CASE res' = res
  BY <1>1
<1>2. ASSUME NEW c \in Callers, NEW k \in Keys, NEW q \in Reservations, NEW p \in Pools,
             NEW n \in Units \ {0}, Reserve(c, k, q, p, n)
      PROVE  res'[r] = res[r]
  BY <1>2 DEF Reserve, Vacant, IInv, TypeOK
<1>3. ASSUME NEW c \in Callers, NEW k \in Keys, NEW target \in {"uncertain"} \cup Closed,
             NEW actual \in Units, Transition(c, k, target, actual)
      PROVE  /\ res'[r] # Nothing
             /\ res'[r].pool = res[r].pool /\ res'[r].declared = res[r].declared
             /\ res[r].status \in Closed => res'[r] = res[r]
  <2>1. /\ known[c] # Nothing /\ Allowed(known[c], target) /\ Current(known[c])
        /\ res' = [res EXCEPT ![known[c].ref] = NextRecord(known[c], target, actual)]
    BY <1>3 DEF Transition
  <2>2. known[c] \in Record /\ known[c].ref \in Reservations /\ res[known[c].ref] = known[c]
    BY <2>1, CurrentIsStored DEF IInv
  <2>3. NextRecord(known[c], target, actual) # Nothing
    BY <2>2, NextRecordType, Kinds
  <2>4. CASE r # known[c].ref
    BY <2>1, <2>4 DEF IInv, TypeOK
  <2>5. CASE r = known[c].ref
    <3>1. res'[r] = NextRecord(res[r], target, actual)
      BY <2>1, <2>2, <2>5 DEF IInv, TypeOK
    <3>2. res[r].status \notin Closed
      BY <2>1, <2>2, <2>5 DEF Allowed, Closed
    <3> QED
      BY <2>2, <2>3, <2>5, <3>1, <3>2 DEF NextRecord
  <2> QED
    BY <2>4, <2>5
<1> QED
  BY <1>1, <1>2, <1>3 DEF Next, CreatePool, Replay, Read, Restart

(* A consumed or released reservation stays as it was charged. *)
THEOREM SettledStaysSettled == Spec => SettlementIsFinal
<1>1. IInv /\ [Next]_vars =>
         [\A r \in Reservations :
             res[r] # Nothing /\ res[r].status \in Closed => res'[r] = res[r]]_vars
  BY StepKeeps
<1> QED
  BY <1>1, Invariance, PTL DEF Spec, SettlementIsFinal

(* A reservation keeps its pool and its declared units. *)
THEOREM DeclarationStays == Spec => DeclarationIsKept
<1>1. IInv /\ [Next]_vars =>
         [\A r \in Reservations : res[r] # Nothing =>
             /\ res'[r] # Nothing
             /\ res'[r].pool = res[r].pool /\ res'[r].declared = res[r].declared]_vars
  BY StepKeeps
<1> QED
  BY <1>1, Invariance, PTL DEF Spec, DeclarationIsKept
=============================================================================
