-------------------------- MODULE RingShardProofs ---------------------------
(***************************************************************************)
(* Proofs about one history shard, for every capacity and every history:   *)
(* the three indices of the deletion log agree, tombstones are current,    *)
(* and neither the ring nor the log ever forgets what a client that is not *)
(* refused still needs.                                                    *)
(***************************************************************************)
EXTENDS RingShardHistory, FiniteSetTheorems, WellFoundedInduction, TLAPS

Revs(q) == {q[j].rev : j \in 1 .. Len(q)}

Deleted(L, k) == L[k].rev > 0 /\ L[k].op # "put"

(* The shape of a shard.                                                   *)
IsShard(s) ==
  /\ s = [ring |-> s.ring, horizon |-> s.horizon, byKey |-> s.byKey, byRev |-> s.byRev,
          full |-> s.full]
  /\ s.ring \in Seq(EventSet)
  /\ s.horizon \in Nat
  /\ DOMAIN s.byKey \subseteq Keys
  /\ DOMAIN s.byRev \subseteq Nat
  /\ s.full \subseteq DOMAIN s.byRev
  /\ IsFiniteSet(DOMAIN s.byKey)
  /\ IsFiniteSet(s.full)

(* The ring is in revision order and holds what was pushed after g, up to  *)
(* r; what lies at or below g is below the floor.                          *)
RingInv(s, g, r) ==
  /\ Len(s.ring) <= RingCapacity
  /\ \A i, j \in 1 .. Len(s.ring) : i < j => s.ring[i].rev < s.ring[j].rev
  /\ \A x \in Revs(s.ring) : g < x /\ x <= r
  /\ s.horizon <= r
  /\ g > 0 => g < s.horizon

(* L, the last event of every key, against the ring: it is in the ring or  *)
(* has left it, and no two keys share one.                                 *)
LastInv(s, L, g, r) ==
  /\ \A k \in Keys : L[k].rev <= r /\ (L[k].rev \in Revs(s.ring) \/ L[k].rev <= g)
  /\ \A k, l \in Keys : L[k].rev = L[l].rev /\ L[k].rev > 0 => k = l

(* The two indices are inverse to each other and hold last events only.    *)
IndexInv(s, L) ==
  /\ \A k \in DOMAIN s.byKey :
       /\ L[k].op = "delete" /\ s.byKey[k] = L[k].rev /\ s.byKey[k] > 0
       /\ s.byKey[k] \in DOMAIN s.byRev /\ s.byRev[s.byKey[k]] = k
  /\ \A x \in DOMAIN s.byRev : s.byRev[x] \in DOMAIN s.byKey /\ s.byKey[s.byRev[x]] = x
  /\ \A f \in s.full, x \in DOMAIN s.byRev \ s.full : x < f

(* What the log does not hold, or holds without its body, the ring does    *)
(* not hold either.                                                        *)
KeptInv(s, L) ==
  /\ \A k \in Keys : Deleted(L, k) /\ k \notin DOMAIN s.byKey => L[k].rev < s.horizon
  /\ \A k \in Keys : Deleted(L, k) /\ L[k].rev \in Revs(s.ring) => L[k].rev \in s.full

LogInv(s, L, g, r) == LastInv(s, L, g, r) /\ IndexInv(s, L) /\ KeptInv(s, L)

CapInv(s) ==
  /\ Cardinality(DOMAIN s.byKey) <= StrippedTierCap
  /\ Cardinality(s.full) <= FullTierCap

HistoryInv ==
  /\ rev \in Nat /\ gone \in Nat /\ last \in [Keys -> EventSet]
  /\ IsShard(shard)
  /\ RingInv(shard, gone, rev)
  /\ LogInv(shard, last, gone, rev)
  /\ CapInv(shard)

-------------------------------------------------------------------------------
(* The least element of a set of naturals is what Min names.               *)
LEMMA LeastNat ==
  ASSUME NEW S \in SUBSET Nat, S # {}
  PROVE  Min(S) \in S /\ \A y \in S : Min(S) <= y
<1> DEFINE Less == {ss \in Nat \X Nat : ss[1] < ss[2]}
<1>1. IsWellFoundedOn(Less, Nat)
  BY NatLessThanWellFounded, Zenon DEF OpToRel
<1>2. PICK x \in S : \A y \in S : ~(<<y, x>> \in Less)
  <2> HIDE DEF Less
  <2> QED
    BY <1>1, WFMin
<1>3. \A y \in S : x <= y
  <2> SUFFICES ASSUME NEW y \in S PROVE x <= y
    OBVIOUS
  <2>1. ~(<<y, x>> \in Less) /\ x \in Nat /\ y \in Nat
    BY <1>2
  <2> QED
    BY <2>1
<1> QED
  BY <1>3 DEF Min

LEMMA LargerOfTwo ==
  ASSUME NEW a \in Nat, NEW b \in Nat
  PROVE  Max({a, b}) = IF a > b THEN a ELSE b
BY DEF Max

LEMMA OneLeast ==
  ASSUME NEW a \in Nat
  PROVE  Min({a}) = a
BY DEF Min

(* A ring has no more revisions than events.                               *)
LEMMA RevsCount ==
  ASSUME NEW q \in Seq(EventSet)
  PROVE  /\ Revs(q) \subseteq Nat
         /\ IsFiniteSet(Revs(q))
         /\ Cardinality(Revs(q)) <= Len(q)
<1> DEFINE f == [j \in 1 .. Len(q) |-> q[j].rev]
<1>1. Len(q) \in Nat /\ \A j \in 1 .. Len(q) : q[j] \in EventSet
  OBVIOUS
<1>2. f \in Surjection(1 .. Len(q), Revs(q))
  BY DEF Surjection, Revs
<1>3. IsFiniteSet(1 .. Len(q)) /\ Cardinality(1 .. Len(q)) = Len(q)
  BY <1>1, FS_Interval, SMTT(30)
<1>4. IsFiniteSet(Revs(q)) /\ Cardinality(Revs(q)) <= Len(q)
  <2> HIDE DEF f
  <2> QED
    BY <1>2, <1>3, FS_Surjection
<1> QED
  BY <1>1, <1>4 DEF Revs, EventSet

(* The counting argument behind both caps: of more revisions than the ring *)
(* can hold, the oldest has left it.                                       *)
LEMMA OldestHasLeft ==
  ASSUME NEW s, IsShard(s), Len(s.ring) <= RingCapacity, NEW g \in Nat,
         NEW S \in SUBSET Nat, IsFiniteSet(S), Cardinality(S) > RingCapacity,
         \A x \in S : x \in Revs(s.ring) \/ x <= g
  PROVE  S # {} /\ Min(S) \in S /\ (\A y \in S : Min(S) <= y) /\ Min(S) <= g
<1> DEFINE m == Min(S)
<1>1. RingCapacity \in Nat /\ s.ring \in Seq(EventSet) /\ Len(s.ring) \in Nat
  BY RingCapacityAssumption DEF IsShard
<1>2. S # {}
  BY <1>1, FS_EmptySet
<1>3. m \in S /\ m \in Nat /\ (\A y \in S : m <= y /\ y \in Nat)
  BY <1>2, LeastNat
<1> HIDE DEF m
<1>4. ASSUME m > g PROVE FALSE
  <2>1. S \subseteq Revs(s.ring)
    BY <1>3, <1>4
  <2>2. IsFiniteSet(Revs(s.ring)) /\ Cardinality(Revs(s.ring)) <= Len(s.ring)
    BY <1>1, RevsCount
  <2>3. Cardinality(S) <= Cardinality(Revs(s.ring))
    BY <2>1, <2>2, FS_Subset
  <2> QED
    BY <1>1, <2>2, <2>3, FS_CardinalityType
<1>5. m <= g
  BY <1>3, <1>4
<1> QED
  BY <1>2, <1>3, <1>5 DEF m

-------------------------------------------------------------------------------
(* Pushing an event newer than everything in the ring.                     *)
LEMMA PushRingFields ==
  ASSUME NEW s, IsShard(s), NEW e \in EventSet
  PROVE  LET t == PushRing(s, e)
             q == Append(s.ring, e)
         IN /\ IsShard(t)
            /\ t.byKey = s.byKey /\ t.byRev = s.byRev /\ t.full = s.full
            /\ IF Len(q) > RingCapacity
               THEN t.ring = Tail(q) /\ t.horizon = Max({s.horizon, Tail(q)[1].rev})
               ELSE t.ring = q /\ t.horizon = s.horizon
<1> DEFINE q == Append(s.ring, e)
           h == Max({s.horizon, Tail(q)[1].rev})
<1>1. q \in Seq(EventSet) /\ Len(q) = Len(s.ring) + 1 /\ Len(s.ring) \in Nat
  BY DEF IsShard
<1>2. RingCapacity \in Nat /\ RingCapacity > 0
  BY RingCapacityAssumption
<1>3. ASSUME Len(q) > RingCapacity
      PROVE  Tail(q) \in Seq(EventSet) /\ h \in Nat
  <2>1. q # <<>> /\ Tail(q) \in Seq(EventSet) /\ Len(Tail(q)) = Len(q) - 1
    BY <1>1, <1>2, <1>3
  <2>2. 1 \in 1 .. Len(Tail(q))
    BY <2>1, <1>1, <1>2, <1>3
  <2>3. Tail(q)[1] \in EventSet
    BY <2>1, <2>2
  <2>4. Tail(q)[1].rev \in Nat /\ s.horizon \in Nat
    BY <2>3 DEF EventSet, IsShard
  <2>5. h \in Nat
    BY <2>4, LargerOfTwo
  <2> QED
    BY <2>1, <2>5
<1> HIDE DEF h
<1>4. CASE Len(q) > RingCapacity
  <2>1. PushRing(s, e) = [s EXCEPT !.ring = Tail(q), !.horizon = h]
    BY <1>4 DEF PushRing, h
  <2> HIDE DEF q
  <2>2. PushRing(s, e) = [ring |-> Tail(q), horizon |-> h, byKey |-> s.byKey,
                          byRev |-> s.byRev, full |-> s.full]
    BY <2>1 DEF IsShard
  <2> DEFINE t == PushRing(s, e)
  <2>3. t = [ring |-> Tail(q), horizon |-> h, byKey |-> s.byKey, byRev |-> s.byRev,
             full |-> s.full]
    BY <2>2
  <2> HIDE DEF t
  <2>4. /\ t.ring = Tail(q) /\ t.horizon = h
        /\ t.byKey = s.byKey /\ t.byRev = s.byRev /\ t.full = s.full
    BY <2>3
  <2>5. IsShard(t)
    BY <2>3, <2>4, <1>3, <1>4 DEF IsShard
  <2> QED
    BY <2>4, <2>5, <1>4, Zenon DEF t, h, q
<1>5. CASE ~(Len(q) > RingCapacity)
  <2>1. PushRing(s, e) = [s EXCEPT !.ring = q]
    BY <1>5 DEF PushRing
  <2> HIDE DEF q
  <2>2. PushRing(s, e) = [ring |-> q, horizon |-> s.horizon, byKey |-> s.byKey,
                          byRev |-> s.byRev, full |-> s.full]
    BY <2>1 DEF IsShard
  <2> QED
    BY <2>2, <1>1, <1>5 DEF IsShard, q
<1> QED
  BY <1>4, <1>5

(* q is the ring of s with e behind it, in order.                          *)
Appended(q, s, e, g) ==
  /\ q \in Seq(EventSet) /\ Len(q) = Len(s.ring) + 1 /\ q[Len(q)] = e
  /\ \A i, j \in 1 .. Len(q) : i < j => q[i].rev < q[j].rev
  /\ Revs(q) = Revs(s.ring) \cup {e.rev}
  /\ \A x \in Revs(q) : g <= x /\ x <= e.rev /\ x \in Nat
  /\ \A x \in Revs(s.ring) : g < x

LEMMA AppendInOrder ==
  ASSUME NEW s, IsShard(s), NEW g \in Nat, NEW r \in Nat, RingInv(s, g, r),
         NEW e \in EventSet, e.rev > r
  PROVE  Appended(Append(s.ring, e), s, e, g)
<1> DEFINE q == Append(s.ring, e)
<1>1. s.ring \in Seq(EventSet) /\ Len(s.ring) \in Nat /\ e.rev \in Nat
  BY DEF IsShard, EventSet
<1>2. /\ q \in Seq(EventSet) /\ Len(q) = Len(s.ring) + 1
      /\ \A j \in 1 .. Len(s.ring) : q[j] = s.ring[j]
      /\ q[Len(q)] = e
  BY <1>1
<1>3. \A j \in 1 .. Len(s.ring) :
        /\ s.ring[j].rev \in Revs(s.ring) /\ s.ring[j].rev \in Nat
        /\ s.ring[j].rev <= r /\ g < s.ring[j].rev
  <2> SUFFICES ASSUME NEW j \in 1 .. Len(s.ring)
               PROVE  /\ s.ring[j].rev \in Revs(s.ring) /\ s.ring[j].rev \in Nat
                      /\ s.ring[j].rev <= r /\ g < s.ring[j].rev
    OBVIOUS
  <2>1. s.ring[j] \in EventSet
    BY <1>1
  <2>2. s.ring[j].rev \in Nat
    BY <2>1 DEF EventSet
  <2>3. s.ring[j].rev \in Revs(s.ring)
    BY DEF Revs
  <2> QED
    BY <2>2, <2>3, Zenon DEF RingInv
<1>4. \A x \in Revs(s.ring) : g < x /\ x <= r /\ x \in Nat
  BY <1>1, RevsCount DEF RingInv
<1> HIDE DEF q
<1>5. \A i, j \in 1 .. Len(q) : i < j => q[i].rev < q[j].rev
  <2> SUFFICES ASSUME NEW i \in 1 .. Len(q), NEW j \in 1 .. Len(q), i < j
               PROVE  q[i].rev < q[j].rev
    OBVIOUS
  <2>1. i \in 1 .. Len(s.ring)
    BY <1>1, <1>2
  <2>2. CASE j \in 1 .. Len(s.ring)
    BY <1>2, <2>1, <2>2 DEF RingInv
  <2>3. CASE j = Len(q)
    BY <1>1, <1>2, <1>3, <2>1, <2>3
  <2> QED
    BY <1>1, <1>2, <2>2, <2>3
<1>6. Revs(q) = Revs(s.ring) \cup {e.rev}
  <2>1. \A j \in 1 .. Len(q) : j \in 1 .. Len(s.ring) \/ j = Len(q)
    BY <1>1, <1>2
  <2>2. \A j \in 1 .. Len(s.ring) : j \in 1 .. Len(q)
    BY <1>1, <1>2
  <2>3. Len(q) \in 1 .. Len(q)
    BY <1>1, <1>2
  <2> QED
    BY <1>2, <2>1, <2>2, <2>3 DEF Revs
<1>7. g <= r
  <2>1. g > 0 => g < s.horizon /\ s.horizon <= r /\ s.horizon \in Nat
    BY DEF RingInv, IsShard
  <2> QED
    BY <2>1
<1>8. \A x \in Revs(q) : g <= x /\ x <= e.rev /\ x \in Nat
  BY <1>1, <1>4, <1>6, <1>7
<1> QED
  BY <1>2, <1>4, <1>5, <1>6, <1>8, Zenon DEF q, Appended

(* PushRing keeps the ring in order and within its capacity, and raises    *)
(* the floor above the event that leaves.                                  *)
Left(s, e, g) ==
  LET before == Revs(s.ring) \cup {e.rev}
      after  == Revs(PushRing(s, e).ring)
  IN IF before \subseteq after THEN g ELSE Max({g, Min(before \ after)})

LEMMA PushRingEffect ==
  ASSUME NEW s, IsShard(s), NEW g \in Nat, NEW r \in Nat, RingInv(s, g, r),
         NEW e \in EventSet, e.rev > r
  PROVE  LET t == PushRing(s, e)
             h == Left(s, e, g)
         IN /\ h \in Nat /\ g <= h /\ RingInv(t, h, e.rev)
            /\ s.horizon <= t.horizon
            /\ e.rev \in Revs(t.ring)
            /\ \A x \in Revs(t.ring) : x \in Revs(s.ring) \/ x = e.rev
            /\ \A x \in Revs(s.ring) : x \in Revs(t.ring) \/ x <= h
<1> DEFINE q == Append(s.ring, e)
           t == PushRing(s, e)
           h == Left(s, e, g)
<1>1. /\ q \in Seq(EventSet) /\ Len(q) = Len(s.ring) + 1 /\ q[Len(q)] = e
      /\ \A i, j \in 1 .. Len(q) : i < j => q[i].rev < q[j].rev
      /\ Revs(q) = Revs(s.ring) \cup {e.rev}
      /\ \A x \in Revs(q) : g <= x /\ x <= e.rev /\ x \in Nat
      /\ \A x \in Revs(s.ring) : g < x
  <2>1. Appended(q, s, e, g)
    BY AppendInOrder
  <2> HIDE DEF q
  <2> QED
    BY <2>1, Zenon DEF Appended
<1>2. /\ IsShard(t)
      /\ IF Len(q) > RingCapacity
         THEN t.ring = Tail(q) /\ t.horizon = Max({s.horizon, Tail(q)[1].rev})
         ELSE t.ring = q /\ t.horizon = s.horizon
  BY PushRingFields
<1>3. h = IF Revs(q) \subseteq Revs(t.ring) THEN g ELSE Max({g, Min(Revs(q) \ Revs(t.ring))})
  BY <1>1 DEF Left
<1>4. /\ RingCapacity \in Nat /\ RingCapacity > 0 /\ Len(s.ring) \in Nat /\ e.rev \in Nat
      /\ s.horizon \in Nat /\ s.horizon <= r /\ (g > 0 => g < s.horizon)
      /\ Len(s.ring) <= RingCapacity
  BY RingCapacityAssumption DEF IsShard, EventSet, RingInv
<1>5. /\ \A j \in 1 .. Len(q) : q[j].rev \in Revs(q)
      /\ \A x \in Revs(q) : \E j \in 1 .. Len(q) : x = q[j].rev
  BY DEF Revs
<1> HIDE DEF q, t, h
<1>6. CASE Len(q) <= RingCapacity
  <2>1. t.ring = q /\ t.horizon = s.horizon /\ h = g
    BY <1>2, <1>3, <1>6, <1>1, <1>4
  <2>2. Len(q) \in 1 .. Len(q)
    BY <1>1, <1>4
  <2>3. e.rev \in Revs(q)
    BY <1>1, <1>5, <2>2
  <2>4. \A x \in Revs(q) : g < x
    BY <1>1, <1>4
  <2>5. RingInv(t, g, e.rev)
    <3>1. \A i, j \in 1 .. Len(t.ring) : i < j => t.ring[i].rev < t.ring[j].rev
      BY <2>1, <1>1, Zenon
    <3>2. \A x \in Revs(t.ring) : g < x /\ x <= e.rev
      BY <2>1, <2>4, <1>1, Zenon
    <3>3. Len(t.ring) <= RingCapacity
      BY <2>1, <1>6, Zenon
    <3>4. t.horizon <= e.rev /\ (g > 0 => g < t.horizon)
      BY <2>1, <1>4
    <3> QED
      BY <3>1, <3>2, <3>3, <3>4, Zenon DEF RingInv
  <2> QED
    BY <2>1, <2>3, <2>5, <1>1, <1>4 DEF t, h
<1>7. CASE Len(q) > RingCapacity
  <2> DEFINE old == q[1].rev
             T == Tail(q)
  <2>1. /\ T \in Seq(EventSet) /\ Len(T) = Len(q) - 1 /\ Len(T) \in Nat
        /\ \A j \in 1 .. Len(T) : T[j] = q[j + 1] /\ j + 1 \in 1 .. Len(q)
    BY <1>1, <1>4, <1>7
  <2>2. t.ring = T /\ t.horizon = Max({s.horizon, T[1].rev}) /\ Len(s.ring) >= 1
    <3>1. t.ring = T /\ t.horizon = Max({s.horizon, T[1].rev})
      BY <1>2, <1>7, Zenon DEF T
    <3>2. Len(s.ring) >= 1
      BY <1>1, <1>4, <1>7
    <3> QED
      BY <3>1, <3>2
  <2>3. 1 \in 1 .. Len(q) /\ 1 \in 1 .. Len(T) /\ Len(T) \in 1 .. Len(T) /\ Len(q) = Len(T) + 1
    BY <1>1, <1>4, <2>1, <2>2
  <2>4. old \in Revs(q) /\ old \in Nat
    BY <1>1, <1>5, <2>3
  <2>5. g < old
    <3>1. 1 \in 1 .. Len(s.ring) /\ s.ring \in Seq(EventSet) /\ q[1] = s.ring[1]
      BY <1>4, <2>2 DEF q, IsShard
    <3>2. old \in Revs(s.ring)
      BY <3>1 DEF Revs
    <3> QED
      BY <3>2, <1>1
  <2> HIDE DEF old, T
  <2>6. \A x \in Revs(T) : x \in Revs(q) /\ old < x
    <3> SUFFICES ASSUME NEW j \in 1 .. Len(T) PROVE T[j].rev \in Revs(q) /\ old < T[j].rev
      BY DEF Revs
    <3>1. T[j] = q[j + 1] /\ j + 1 \in 1 .. Len(q) /\ 1 < j + 1
      BY <2>1
    <3> QED
      BY <3>1, <1>1, <1>5, <2>3 DEF old
  <2>7. \A x \in Revs(q) : x \in Revs(T) \/ x = old
    <3> SUFFICES ASSUME NEW j \in 1 .. Len(q), j # 1 PROVE q[j].rev \in Revs(T)
      BY <1>5 DEF old
    <3>1. j - 1 \in 1 .. Len(T) /\ (j - 1) + 1 = j
      BY <1>1, <2>1
    <3>2. T[j - 1] = q[j]
      BY <3>1, <2>1
    <3> QED
      BY <3>1, <3>2 DEF Revs
  <2>8. Revs(q) \ Revs(T) = {old} /\ ~(Revs(q) \subseteq Revs(T))
    <3>1. old \notin Revs(T)
      BY <2>4, <2>6
    <3> QED
      BY <2>4, <2>6, <2>7, <3>1, Zenon
  <2>9. h = old
    <3>1. Min({old}) = old /\ Max({g, old}) = IF g > old THEN g ELSE old
      BY <2>4, OneLeast, LargerOfTwo
    <3>2. h = Max({g, Min(Revs(q) \ Revs(T))})
      BY <2>8, <1>3, <2>2, Zenon
    <3>3. h = Max({g, old})
      BY <3>1, <3>2, <2>8, Zenon
    <3> QED
      BY <3>1, <3>3, <2>5, <2>4
  <2>10. T[1].rev \in Revs(T) /\ T[1].rev \in Nat
    BY <2>3, <2>6, <1>1 DEF Revs
  <2>11. /\ t.horizon \in Nat /\ s.horizon <= t.horizon /\ t.horizon <= e.rev
         /\ old < t.horizon
    <3>1. Max({s.horizon, T[1].rev}) = IF s.horizon > T[1].rev THEN s.horizon ELSE T[1].rev
      BY <2>10, <1>4, LargerOfTwo
    <3>2. old < T[1].rev /\ T[1].rev <= e.rev
      BY <2>10, <2>6, <1>1
    <3> QED
      BY <3>1, <3>2, <2>2, <2>10, <2>4, <1>4
  <2>12. \A i, j \in 1 .. Len(T) : i < j => T[i].rev < T[j].rev
    <3> SUFFICES ASSUME NEW i \in 1 .. Len(T), NEW j \in 1 .. Len(T), i < j
                 PROVE  T[i].rev < T[j].rev
      OBVIOUS
    <3>1. /\ T[i] = q[i + 1] /\ i + 1 \in 1 .. Len(q)
          /\ T[j] = q[j + 1] /\ j + 1 \in 1 .. Len(q)
      BY <2>1
    <3>2. i + 1 < j + 1
      OBVIOUS
    <3> QED
      BY <3>1, <3>2, <1>1, Zenon
  <2>13. e.rev \in Revs(T)
    <3>1. T[Len(T)] = q[Len(q)]
      BY <2>1, <2>3
    <3> QED
      BY <3>1, <2>3, <1>1 DEF Revs
  <2>14. RingInv(t, old, e.rev)
    BY <2>1, <2>2, <2>4, <2>6, <2>11, <2>12, <1>1, <1>4 DEF RingInv
  <2>15. \A x \in Revs(s.ring) : x \in Revs(T) \/ x <= old
    BY <2>7, <2>4, <1>1
  <2>16. \A x \in Revs(T) : x \in Revs(s.ring) \/ x = e.rev
    BY <2>6, <1>1
  <2>17. h \in Nat /\ g <= h
    BY <2>4, <2>5, <2>9
  <2> QED
    BY <2>2, <2>9, <2>11, <2>13, <2>14, <2>15, <2>16, <2>17 DEF t, h
<1> QED
  BY <1>1, <1>4, <1>6, <1>7

-------------------------------------------------------------------------------
(* The deletion log beside the ring.                                       *)
LEMMA PushRingLog ==
  ASSUME NEW s, IsShard(s), NEW g \in Nat, NEW r \in Nat, RingInv(s, g, r),
         NEW e \in EventSet, e.rev > r, NEW L \in [Keys -> EventSet], LogInv(s, L, g, r)
  PROVE  LogInv(PushRing(s, e), L, Left(s, e, g), r)
<1> DEFINE t == PushRing(s, e)
           h == Left(s, e, g)
<1>1. /\ h \in Nat /\ g <= h /\ s.horizon <= t.horizon
      /\ \A x \in Revs(t.ring) : x \in Revs(s.ring) \/ x = e.rev
      /\ \A x \in Revs(s.ring) : x \in Revs(t.ring) \/ x <= h
  BY PushRingEffect, Zenon
<1>2. IsShard(t) /\ t.byKey = s.byKey /\ t.byRev = s.byRev /\ t.full = s.full
  BY PushRingFields, Zenon
<1>3. \A k \in Keys : L[k].rev \in Nat /\ L[k].rev <= r /\ L[k].rev # e.rev
  BY DEF LogInv, LastInv, EventSet
<1> HIDE DEF t, h
<1>4. LastInv(t, L, h, r)
  <2>1. \A k \in Keys : L[k].rev \in Revs(t.ring) \/ L[k].rev <= h
    BY <1>1, <1>3 DEF LogInv, LastInv
  <2> QED
    BY <2>1, <1>3 DEF LogInv, LastInv
<1>5. IndexInv(t, L)
  BY <1>2, Zenon DEF LogInv, IndexInv
<1>6. KeptInv(t, L)
  <2>1. ASSUME NEW k \in Keys, Deleted(L, k), k \notin DOMAIN t.byKey
        PROVE  L[k].rev < t.horizon
    <3>1. L[k].rev < s.horizon /\ s.horizon \in Nat /\ t.horizon \in Nat
      BY <2>1, <1>2 DEF LogInv, KeptInv, IsShard
    <3> QED
      BY <3>1, <1>1, <1>3
  <2>2. ASSUME NEW k \in Keys, Deleted(L, k), L[k].rev \in Revs(t.ring)
        PROVE  L[k].rev \in t.full
    BY <2>2, <1>1, <1>2, <1>3 DEF LogInv, KeptInv
  <2> QED
    BY <2>1, <2>2 DEF KeptInv
<1> QED
  BY <1>4, <1>5, <1>6 DEF LogInv, t, h

LEMMA RememberFields ==
  ASSUME NEW s, IsShard(s), NEW e \in EventSet
  PROVE  LET t == Remember(s, e)
         IN /\ IsShard(t) /\ t.ring = s.ring /\ t.horizon = s.horizon
            /\ t.byKey = With(s.byKey, e.key, e.rev)
            /\ t.byRev = With(s.byRev, e.rev, e.key)
            /\ t.full = s.full \cup {e.rev}
<1> DEFINE t == Remember(s, e)
           a == With(s.byKey, e.key, e.rev)
           b == With(s.byRev, e.rev, e.key)
           c == s.full \cup {e.rev}
<1>1. t = [s EXCEPT !.byKey = a, !.byRev = b, !.full = c]
  BY DEF Remember
<1>2. /\ DOMAIN a = DOMAIN s.byKey \cup {e.key} /\ DOMAIN b = DOMAIN s.byRev \cup {e.rev}
      /\ e.key \in Keys /\ e.rev \in Nat
  BY DEF With, EventSet
<1>3. IsFiniteSet(DOMAIN a) /\ IsFiniteSet(c)
  <2>1. IsFiniteSet(DOMAIN s.byKey) /\ IsFiniteSet(s.full)
    BY DEF IsShard
  <2>2. IsFiniteSet(DOMAIN s.byKey \cup {e.key})
    BY <2>1, FS_AddElement
  <2>3. IsFiniteSet(s.full \cup {e.rev})
    BY <2>1, FS_AddElement
  <2> QED
    BY <2>2, <2>3, <1>2, Zenon
<1>4. DOMAIN a \subseteq Keys /\ DOMAIN b \subseteq Nat /\ c \subseteq DOMAIN b
  BY <1>2 DEF IsShard
<1> HIDE DEF t, a, b, c
<1>5. t = [ring |-> s.ring, horizon |-> s.horizon, byKey |-> a, byRev |-> b, full |-> c]
  BY <1>1 DEF IsShard
<1>6. t.ring = s.ring /\ t.horizon = s.horizon /\ t.byKey = a /\ t.byRev = b /\ t.full = c
  BY <1>5
<1>7. IsShard(t)
  BY <1>3, <1>4, <1>5, <1>6 DEF IsShard
<1> QED
  BY <1>6, <1>7, Zenon DEF t, a, b, c

(* A deletion newer than everything, of a key that existed, is remembered. *)
LEMMA RememberLog ==
  ASSUME NEW s, IsShard(s), NEW g \in Nat, NEW r \in Nat,
         NEW L \in [Keys -> EventSet], LogInv(s, L, g, r),
         NEW e \in EventSet, e.rev > r, e.op = "delete", L[e.key].op = "put",
         e.rev \in Revs(s.ring)
  PROVE  LogInv(Remember(s, e), [L EXCEPT ![e.key] = e], g, e.rev)
<1> DEFINE t == Remember(s, e)
           M == [L EXCEPT ![e.key] = e]
<1>1. /\ t.ring = s.ring /\ t.horizon = s.horizon
      /\ t.byKey = With(s.byKey, e.key, e.rev) /\ t.byRev = With(s.byRev, e.rev, e.key)
      /\ t.full = s.full \cup {e.rev}
  BY RememberFields, Zenon
<1>2. /\ e.key \in Keys /\ e.rev \in Nat /\ e.rev > 0
      /\ M[e.key] = e /\ \A k \in Keys : k # e.key => M[k] = L[k]
  BY DEF EventSet
<1>3. \A k \in Keys : L[k].rev \in Nat /\ L[k].rev <= r /\ L[k].rev # e.rev /\ L[k].rev <= e.rev
  BY <1>2 DEF LogInv, LastInv, EventSet
<1>4. /\ \A k \in DOMAIN s.byKey :
           /\ k \in Keys
           /\ L[k].op = "delete" /\ s.byKey[k] = L[k].rev /\ s.byKey[k] > 0
           /\ s.byKey[k] \in DOMAIN s.byRev /\ s.byRev[s.byKey[k]] = k
      /\ \A x \in DOMAIN s.byRev : s.byRev[x] \in DOMAIN s.byKey /\ s.byKey[s.byRev[x]] = x
      /\ \A f \in s.full, x \in DOMAIN s.byRev \ s.full : x < f
      /\ s.full \subseteq DOMAIN s.byRev
  BY DEF LogInv, IndexInv, IsShard
<1>5. e.key \notin DOMAIN s.byKey
  BY <1>4
<1>6. e.rev \notin DOMAIN s.byRev /\ \A x \in DOMAIN s.byRev : x < e.rev /\ x \in Nat
  BY <1>2, <1>3, <1>4
<1>7. /\ DOMAIN t.byKey = DOMAIN s.byKey \cup {e.key} /\ t.byKey[e.key] = e.rev
      /\ \A k \in DOMAIN s.byKey : t.byKey[k] = s.byKey[k]
      /\ DOMAIN t.byRev = DOMAIN s.byRev \cup {e.rev} /\ t.byRev[e.rev] = e.key
      /\ \A x \in DOMAIN s.byRev : t.byRev[x] = s.byRev[x]
  <2>1. /\ DOMAIN t.byKey = DOMAIN s.byKey \cup {e.key} /\ t.byKey[e.key] = e.rev
        /\ \A k \in DOMAIN s.byKey : k # e.key => t.byKey[k] = s.byKey[k]
    BY <1>1 DEF With
  <2>2. /\ DOMAIN t.byRev = DOMAIN s.byRev \cup {e.rev} /\ t.byRev[e.rev] = e.key
        /\ \A x \in DOMAIN s.byRev : x # e.rev => t.byRev[x] = s.byRev[x]
    BY <1>1 DEF With
  <2> QED
    BY <2>1, <2>2, <1>5, <1>6, Zenon
<1> HIDE DEF t, M
<1>8. LastInv(t, M, g, e.rev)
  <2>1. \A k \in Keys : M[k].rev <= e.rev /\ (M[k].rev \in Revs(t.ring) \/ M[k].rev <= g)
    BY <1>1, <1>2, <1>3 DEF LogInv, LastInv
  <2>2. ASSUME NEW k \in Keys, NEW l \in Keys, M[k].rev = M[l].rev, M[k].rev > 0
        PROVE  k = l
    BY <2>2, <1>2, <1>3 DEF LogInv, LastInv
  <2> QED
    BY <2>1, <2>2 DEF LastInv
<1>9. IndexInv(t, M)
  <2>1. ASSUME NEW k \in DOMAIN t.byKey
        PROVE  /\ M[k].op = "delete" /\ t.byKey[k] = M[k].rev /\ t.byKey[k] > 0
               /\ t.byKey[k] \in DOMAIN t.byRev /\ t.byRev[t.byKey[k]] = k
    <3>1. CASE k = e.key
      BY <3>1, <1>2, <1>7
    <3>2. CASE k \in DOMAIN s.byKey
      BY <3>2, <1>2, <1>4, <1>5, <1>7
    <3> QED
      BY <3>1, <3>2, <1>7
  <2>2. ASSUME NEW x \in DOMAIN t.byRev
        PROVE  t.byRev[x] \in DOMAIN t.byKey /\ t.byKey[t.byRev[x]] = x
    BY <2>2, <1>4, <1>7
  <2>3. ASSUME NEW f \in t.full, NEW x \in DOMAIN t.byRev \ t.full
        PROVE  x < f
    BY <2>3, <1>1, <1>4, <1>6, <1>7
  <2> QED
    BY <2>1, <2>2, <2>3 DEF IndexInv
<1>10. KeptInv(t, M)
  <2>1. ASSUME NEW k \in Keys, Deleted(M, k), k \notin DOMAIN t.byKey
        PROVE  M[k].rev < t.horizon
    BY <2>1, <1>1, <1>2, <1>7 DEF LogInv, KeptInv, Deleted
  <2>2. ASSUME NEW k \in Keys, Deleted(M, k), M[k].rev \in Revs(t.ring)
        PROVE  M[k].rev \in t.full
    BY <2>2, <1>1, <1>2 DEF LogInv, KeptInv, Deleted
  <2> QED
    BY <2>1, <2>2 DEF KeptInv
<1> QED
  BY <1>8, <1>9, <1>10 DEF LogInv, t, M

(* The revision index has as many entries as the key index.                *)
LEMMA IndexCount ==
  ASSUME NEW s, IsShard(s), NEW L, IndexInv(s, L)
  PROVE  /\ IsFiniteSet(DOMAIN s.byRev)
         /\ Cardinality(DOMAIN s.byRev) = Cardinality(DOMAIN s.byKey)
<1> DEFINE K == DOMAIN s.byKey
           R == DOMAIN s.byRev
           f == [k \in K |-> s.byKey[k]]
<1>1. \A k \in K : s.byKey[k] \in R /\ s.byRev[s.byKey[k]] = k
  BY DEF IndexInv
<1>2. \A x \in R : s.byRev[x] \in K /\ s.byKey[s.byRev[x]] = x
  BY DEF IndexInv
<1>3. f \in Surjection(K, R)
  BY <1>1, <1>2 DEF Surjection
<1>4. f \in Injection(K, R)
  BY <1>1 DEF Injection, IsInjective
<1>5. IsFiniteSet(K)
  BY DEF IsShard
<1> HIDE DEF f, K, R
<1>6. IsFiniteSet(R) /\ Cardinality(R) = Cardinality(K)
  BY <1>3, <1>4, <1>5, FS_Surjection
<1> QED
  BY <1>6 DEF K, R

(* What the log holds is a last event: in the ring, or gone.               *)
LEMMA EntriesAreKnown ==
  ASSUME NEW s, IsShard(s), NEW g \in Nat, NEW r \in Nat,
         NEW L \in [Keys -> EventSet], LogInv(s, L, g, r)
  PROVE  \A x \in DOMAIN s.byRev : x > 0 /\ (x \in Revs(s.ring) \/ x <= g)
<1> SUFFICES ASSUME NEW x \in DOMAIN s.byRev
             PROVE  x > 0 /\ (x \in Revs(s.ring) \/ x <= g)
  OBVIOUS
<1> DEFINE k == s.byRev[x]
<1>1. k \in DOMAIN s.byKey /\ s.byKey[k] = x
  BY DEF LogInv, IndexInv
<1>2. k \in Keys /\ L[k].rev = x /\ x > 0
  BY <1>1 DEF LogInv, IndexInv, IsShard
<1> HIDE DEF k
<1> QED
  BY <1>2 DEF LogInv, LastInv

(* Dropping the oldest body past the first cap costs nothing in the ring.  *)
LEMMA CapFullTierLog ==
  ASSUME NEW s, IsShard(s), NEW g \in Nat, NEW r \in Nat, RingInv(s, g, r),
         NEW L \in [Keys -> EventSet], LogInv(s, L, g, r),
         Cardinality(s.full) <= FullTierCap + 1
  PROVE  LET t == CapFullTier(s)
         IN /\ IsShard(t) /\ LogInv(t, L, g, r) /\ Cardinality(t.full) <= FullTierCap
            /\ t.ring = s.ring /\ t.horizon = s.horizon
            /\ t.byKey = s.byKey /\ t.byRev = s.byRev
<1>1. RingCapacity \in Nat /\ IsFiniteSet(s.full) /\ Cardinality(s.full) \in Nat
  BY RingCapacityAssumption, FS_CardinalityType DEF IsShard
<1>2. CASE ~(Cardinality(s.full) > FullTierCap)
  <2>1. CapFullTier(s) = s
    BY <1>2 DEF CapFullTier
  <2> QED
    BY <2>1, <1>1, <1>2 DEF FullTierCap
<1>3. CASE Cardinality(s.full) > FullTierCap
  <2> DEFINE t == CapFullTier(s)
             m == Min(s.full)
             F == s.full \ {m}
  <2>1. t = [s EXCEPT !.full = F]
    BY <1>3, Zenon DEF CapFullTier
  <2>2. m \in s.full /\ (\A y \in s.full : m <= y) /\ m <= g
    <3>1. \A x \in s.full : x \in Revs(s.ring) \/ x <= g
      BY EntriesAreKnown DEF IsShard
    <3>2. s.full \in SUBSET Nat /\ Len(s.ring) <= RingCapacity
      BY DEF IsShard, RingInv
    <3> QED
      BY <3>1, <3>2, <1>1, <1>3, OldestHasLeft DEF FullTierCap
  <2>3. IsFiniteSet(F) /\ Cardinality(F) = Cardinality(s.full) - 1
    BY <2>2, <1>1, FS_RemoveElement
  <2> HIDE DEF t, m, F
  <2>4. t = [ring |-> s.ring, horizon |-> s.horizon, byKey |-> s.byKey, byRev |-> s.byRev,
             full |-> F]
    BY <2>1 DEF IsShard
  <2>5. /\ t.ring = s.ring /\ t.horizon = s.horizon /\ t.byKey = s.byKey /\ t.byRev = s.byRev
        /\ t.full = F
    BY <2>4
  <2>6. \A x \in F : x \in s.full /\ x # m
    BY DEF F
  <2>7. IsShard(t)
    BY <2>3, <2>4, <2>5, <2>6 DEF IsShard
  <2>8. LastInv(t, L, g, r)
    BY <2>5, Zenon DEF LogInv, LastInv
  <2>9. IndexInv(t, L)
    <3>1. /\ \A k \in DOMAIN t.byKey :
               /\ L[k].op = "delete" /\ t.byKey[k] = L[k].rev /\ t.byKey[k] > 0
               /\ t.byKey[k] \in DOMAIN t.byRev /\ t.byRev[t.byKey[k]] = k
          /\ \A x \in DOMAIN t.byRev :
               t.byRev[x] \in DOMAIN t.byKey /\ t.byKey[t.byRev[x]] = x
      BY <2>5, Zenon DEF LogInv, IndexInv
    <3>2. ASSUME NEW f \in F, NEW x \in DOMAIN s.byRev, x \notin F PROVE x < f
      <4>1. f \in s.full /\ f # m /\ f \in Nat /\ m \in Nat /\ m <= f
        BY <2>2, <2>6 DEF IsShard
      <4>2. CASE x = m
        BY <4>1, <4>2
      <4>3. CASE x # m
        <5>1. x \in DOMAIN s.byRev \ s.full
          BY <3>2, <4>3 DEF F
        <5> QED
          BY <5>1, <4>1 DEF LogInv, IndexInv
      <4> QED
        BY <4>2, <4>3
    <3> QED
      BY <3>1, <3>2, <2>5 DEF IndexInv
  <2>10. KeptInv(t, L)
    <3>1. ASSUME NEW k \in Keys, Deleted(L, k), L[k].rev \in Revs(t.ring)
          PROVE  L[k].rev \in F
      <4>1. L[k].rev \in s.full
        BY <3>1, <2>5 DEF LogInv, KeptInv
      <4>2. L[k].rev > g /\ L[k].rev \in Nat /\ m \in Nat
        BY <3>1, <2>2, <2>5, <4>1 DEF RingInv, IsShard
      <4> QED
        BY <4>1, <4>2, <2>2 DEF F
    <3>2. \A k \in Keys : Deleted(L, k) /\ k \notin DOMAIN t.byKey => L[k].rev < t.horizon
      BY <2>5 DEF LogInv, KeptInv
    <3> QED
      BY <3>1, <3>2, <2>5 DEF KeptInv
  <2>11. Cardinality(F) <= FullTierCap
    BY <2>3, <1>1 DEF FullTierCap
  <2>12. LogInv(t, L, g, r)
    BY <2>8, <2>9, <2>10 DEF LogInv
  <2> QED
    BY <2>5, <2>7, <2>11, <2>12, Zenon DEF t
<1> QED
  BY <1>2, <1>3

(* A shard from which one tombstone is taken, and its fields.              *)
Drop(s, k, x) ==
  [s EXCEPT !.byKey = Without(@, {k}), !.byRev = Without(@, {x}), !.full = @ \ {x}]

Dropped(t, s, k, x) ==
  /\ IsShard(t) /\ t.ring = s.ring /\ t.horizon = s.horizon
  /\ DOMAIN t.byKey = DOMAIN s.byKey \ {k} /\ DOMAIN t.byRev = DOMAIN s.byRev \ {x}
  /\ \A l \in DOMAIN t.byKey : t.byKey[l] = s.byKey[l]
  /\ \A y \in DOMAIN t.byRev : t.byRev[y] = s.byRev[y]
  /\ t.full = s.full \ {x}

LEMMA DropFields ==
  ASSUME NEW s, IsShard(s), NEW k, NEW x, NEW t, t = Drop(s, k, x)
  PROVE  Dropped(t, s, k, x)
<1> DEFINE a == Without(s.byKey, {k})
           b == Without(s.byRev, {x})
           c == s.full \ {x}
<1>1. /\ DOMAIN a = DOMAIN s.byKey \ {k} /\ \A l \in DOMAIN a : a[l] = s.byKey[l]
      /\ DOMAIN b = DOMAIN s.byRev \ {x} /\ \A y \in DOMAIN b : b[y] = s.byRev[y]
  BY DEF Without, Restrict
<1>2. IsFiniteSet(DOMAIN a) /\ IsFiniteSet(c)
  <2>1. IsFiniteSet(DOMAIN s.byKey) /\ IsFiniteSet(s.full)
    BY DEF IsShard
  <2>2. IsFiniteSet(DOMAIN s.byKey \ {k})
    BY <2>1, FS_RemoveElement
  <2>3. IsFiniteSet(s.full \ {x})
    BY <2>1, FS_RemoveElement
  <2> QED
    BY <2>2, <2>3, <1>1, Zenon
<1>3. DOMAIN a \subseteq Keys /\ DOMAIN b \subseteq Nat /\ c \subseteq DOMAIN b
  BY <1>1 DEF IsShard
<1>4. t = [ring |-> s.ring, horizon |-> s.horizon, byKey |-> a, byRev |-> b, full |-> c]
  <2>1. t = [s EXCEPT !.byKey = a, !.byRev = b, !.full = c]
    BY DEF Drop
  <2> HIDE DEF a, b, c
  <2> QED
    BY <2>1 DEF IsShard
<1> HIDE DEF a, b
<1>5. t.ring = s.ring /\ t.horizon = s.horizon /\ t.byKey = a /\ t.byRev = b /\ t.full = c
  <2> HIDE DEF c
  <2> QED
    BY <1>4
<1>6. IsShard(t)
  <2> HIDE DEF c
  <2> QED
    BY <1>2, <1>3, <1>4, <1>5 DEF IsShard
<1> QED
  BY <1>1, <1>5, <1>6 DEF Dropped

(* Taking one tombstone out of all three indices keeps them in agreement.  *)
LEMMA DropIndex ==
  ASSUME NEW s, IsShard(s), NEW L \in [Keys -> EventSet], IndexInv(s, L),
         NEW k \in DOMAIN s.byKey, NEW t, Dropped(t, s, k, s.byKey[k])
  PROVE  IndexInv(t, L)
<1> DEFINE x == s.byKey[k]
<1>1. /\ \A l \in DOMAIN s.byKey :
           /\ L[l].op = "delete" /\ s.byKey[l] = L[l].rev /\ s.byKey[l] > 0
           /\ s.byKey[l] \in DOMAIN s.byRev /\ s.byRev[s.byKey[l]] = l
      /\ \A y \in DOMAIN s.byRev : s.byRev[y] \in DOMAIN s.byKey /\ s.byKey[s.byRev[y]] = y
      /\ \A f \in s.full, y \in DOMAIN s.byRev \ s.full : y < f
  BY DEF IndexInv
<1>2. /\ DOMAIN t.byKey = DOMAIN s.byKey \ {k} /\ DOMAIN t.byRev = DOMAIN s.byRev \ {x}
      /\ \A l \in DOMAIN t.byKey : t.byKey[l] = s.byKey[l]
      /\ \A y \in DOMAIN t.byRev : t.byRev[y] = s.byRev[y]
      /\ t.full = s.full \ {x}
  BY DEF Dropped
<1>3. s.byRev[x] = k /\ x \in DOMAIN s.byRev
  BY <1>1
<1> HIDE DEF x
<1>4. ASSUME NEW l \in DOMAIN t.byKey
      PROVE  /\ L[l].op = "delete" /\ t.byKey[l] = L[l].rev /\ t.byKey[l] > 0
             /\ t.byKey[l] \in DOMAIN t.byRev /\ t.byRev[t.byKey[l]] = l
  <2>1. l \in DOMAIN s.byKey /\ l # k /\ t.byKey[l] = s.byKey[l]
    BY <1>2
  <2>2. s.byKey[l] # x
    BY <2>1, <1>1, <1>3
  <2> QED
    BY <2>1, <2>2, <1>1, <1>2
<1>5. ASSUME NEW y \in DOMAIN t.byRev
      PROVE  t.byRev[y] \in DOMAIN t.byKey /\ t.byKey[t.byRev[y]] = y
  <2>1. y \in DOMAIN s.byRev /\ y # x /\ t.byRev[y] = s.byRev[y]
    BY <1>2
  <2>2. s.byRev[y] \in DOMAIN s.byKey /\ s.byKey[s.byRev[y]] = y
    BY <2>1, <1>1
  <2>3. s.byRev[y] # k
    BY <2>1, <2>2 DEF x
  <2> QED
    BY <2>1, <2>2, <2>3, <1>2
<1>6. ASSUME NEW f \in t.full, NEW y \in DOMAIN t.byRev \ t.full PROVE y < f
  BY <1>6, <1>1, <1>2
<1> QED
  BY <1>4, <1>5, <1>6 DEF IndexInv

(* Past the second cap the oldest tombstone goes: it was below the floor.  *)
LEMMA CapStrippedTierLog ==
  ASSUME NEW s, IsShard(s), NEW g \in Nat, NEW r \in Nat, RingInv(s, g, r),
         NEW L \in [Keys -> EventSet], LogInv(s, L, g, r),
         Cardinality(DOMAIN s.byKey) <= StrippedTierCap + 1,
         Cardinality(s.full) <= FullTierCap
  PROVE  LET t == CapStrippedTier(s)
         IN /\ IsShard(t) /\ LogInv(t, L, g, r) /\ CapInv(t)
            /\ t.ring = s.ring /\ t.horizon = s.horizon
<1>1. /\ RingCapacity \in Nat /\ StrippedTierCap = 2 * RingCapacity
      /\ StrippedTierCap \in Nat /\ StrippedTierCap >= RingCapacity
      /\ IsFiniteSet(DOMAIN s.byKey) /\ Cardinality(DOMAIN s.byKey) \in Nat
      /\ IsFiniteSet(s.full) /\ Cardinality(s.full) \in Nat /\ FullTierCap \in Nat
  BY RingCapacityAssumption, FS_CardinalityType DEF IsShard, StrippedTierCap, FullTierCap
<1>2. CASE ~(Cardinality(DOMAIN s.byKey) > StrippedTierCap)
  <2>1. CapStrippedTier(s) = s
    BY <1>2 DEF CapStrippedTier
  <2>2. CapInv(s)
    BY <1>1, <1>2 DEF CapInv
  <2> QED
    BY <2>1, <2>2
<1>3. CASE Cardinality(DOMAIN s.byKey) > StrippedTierCap
  <2> DEFINE t == CapStrippedTier(s)
             m == Min(DOMAIN s.byRev)
             k == s.byRev[m]
  <2>1. t = Drop(s, k, m)
    BY <1>3, Zenon DEF CapStrippedTier, Drop
  <2>2. IndexInv(s, L)
    BY DEF LogInv
  <2>3. m \in DOMAIN s.byRev /\ m <= g /\ m \in Nat
    <3>1. IsFiniteSet(DOMAIN s.byRev) /\ Cardinality(DOMAIN s.byRev) > RingCapacity
      BY <2>2, <1>1, <1>3, IndexCount
    <3>2. DOMAIN s.byRev \in SUBSET Nat /\ Len(s.ring) <= RingCapacity
      BY DEF IsShard, RingInv
    <3>3. \A x \in DOMAIN s.byRev : x \in Revs(s.ring) \/ x <= g
      BY EntriesAreKnown
    <3>4. m \in DOMAIN s.byRev /\ m <= g
      BY <3>1, <3>2, <3>3, OldestHasLeft
    <3> QED
      BY <3>2, <3>4
  <2>4. Dropped(t, s, k, m)
    <3> HIDE DEF t, m, k
    <3> QED
      BY <2>1, DropFields
  <2> HIDE DEF t, m
  <2>5. k \in DOMAIN s.byKey /\ s.byKey[k] = m /\ k \in Keys /\ L[k].rev = m /\ m > 0
    BY <2>2, <2>3 DEF IndexInv, IsShard
  <2> HIDE DEF k
  <2>6. IndexInv(t, L)
    BY <2>2, <2>4, <2>5, DropIndex
  <2>7. /\ t.ring = s.ring /\ t.horizon = s.horizon /\ IsShard(t)
        /\ DOMAIN t.byKey = DOMAIN s.byKey \ {k} /\ t.full = s.full \ {m}
    BY <2>4 DEF Dropped
  <2>8. LastInv(t, L, g, r)
    BY <2>7, Zenon DEF LogInv, LastInv
  <2>9. KeptInv(t, L)
    <3>1. ASSUME NEW l \in Keys, Deleted(L, l), l \notin DOMAIN t.byKey
          PROVE  L[l].rev < t.horizon
      <4>1. CASE l = k
        <5>1. g > 0 /\ g < s.horizon /\ s.horizon \in Nat
          BY <2>3, <2>5 DEF RingInv, IsShard
        <5> QED
          BY <5>1, <4>1, <2>3, <2>5, <2>7
      <4>2. CASE l # k
        BY <4>2, <3>1, <2>7 DEF LogInv, KeptInv
      <4> QED
        BY <4>1, <4>2
    <3>2. ASSUME NEW l \in Keys, Deleted(L, l), L[l].rev \in Revs(t.ring)
          PROVE  L[l].rev \in t.full
      <4>1. L[l].rev \in s.full
        BY <3>2, <2>7 DEF LogInv, KeptInv
      <4>2. L[l].rev > g /\ L[l].rev \in Nat
        BY <3>2, <2>7, <4>1 DEF RingInv, IsShard
      <4> QED
        BY <4>1, <4>2, <2>3, <2>7
    <3> QED
      BY <3>1, <3>2 DEF KeptInv
  <2>10. CapInv(t)
    <3>1. Cardinality(DOMAIN s.byKey \ {k}) = Cardinality(DOMAIN s.byKey) - 1
      BY <2>5, <1>1, FS_RemoveElement
    <3>2. Cardinality(s.full \ {m}) <= Cardinality(s.full) /\ Cardinality(s.full \ {m}) \in Nat
      <4>1. s.full \ {m} \in SUBSET s.full
        OBVIOUS
      <4> QED
        BY <4>1, <1>1, FS_Subset, FS_CardinalityType
    <3> QED
      BY <3>1, <3>2, <2>7, <1>1 DEF CapInv
  <2>11. LogInv(t, L, g, r)
    BY <2>6, <2>8, <2>9 DEF LogInv
  <2> QED
    BY <2>7, <2>10, <2>11 DEF t
<1> QED
  BY <1>2, <1>3

(* A key that is written again loses its tombstone, and only that one.     *)
ForgetKeeps(s, L, g, e) ==
  LET t == Forget(s, e.key)
  IN  /\ IsShard(t) /\ LogInv(t, [L EXCEPT ![e.key] = e], g, e.rev) /\ CapInv(t)
      /\ t.ring = s.ring /\ t.horizon = s.horizon

LEMMA ForgetLog ==
  ASSUME NEW s, IsShard(s), NEW g \in Nat, NEW r \in Nat,
         NEW L \in [Keys -> EventSet], LogInv(s, L, g, r), CapInv(s),
         NEW e \in EventSet, e.rev > r, e.op = "put", e.rev \in Revs(s.ring)
  PROVE  ForgetKeeps(s, L, g, e)
<1> DEFINE t == Forget(s, e.key)
           M == [L EXCEPT ![e.key] = e]
<1>1. /\ e.key \in Keys /\ e.rev \in Nat /\ e.rev > 0
      /\ M[e.key] = e /\ \A k \in Keys : k # e.key => M[k] = L[k]
  BY DEF EventSet
<1>2. \A k \in Keys : L[k].rev \in Nat /\ L[k].rev <= r /\ L[k].rev # e.rev /\ L[k].rev <= e.rev
  BY <1>1 DEF LogInv, LastInv, EventSet
<1>3. /\ IsShard(t) /\ t.ring = s.ring /\ t.horizon = s.horizon /\ IndexInv(t, L) /\ CapInv(t)
      /\ DOMAIN t.byKey = DOMAIN s.byKey \ {e.key}
      /\ \A x \in s.full : x \in t.full \/ (e.key \in DOMAIN s.byKey /\ x = s.byKey[e.key])
  <2>1. CASE e.key \notin DOMAIN s.byKey
    <3>1. t = s
      BY <2>1 DEF Forget
    <3> QED
      BY <3>1, <2>1 DEF LogInv
  <2>2. CASE e.key \in DOMAIN s.byKey
    <3> DEFINE x == s.byKey[e.key]
    <3>1. t = Drop(s, e.key, x)
      BY <2>2, Zenon DEF Forget, Drop
    <3> HIDE DEF t, x
    <3>2. Dropped(t, s, e.key, x)
      BY <3>1, DropFields
    <3>3. /\ IsShard(t) /\ t.ring = s.ring /\ t.horizon = s.horizon
          /\ DOMAIN t.byKey = DOMAIN s.byKey \ {e.key} /\ t.full = s.full \ {x}
      BY <3>2 DEF Dropped
    <3>4. IndexInv(t, L)
      BY <3>2, <2>2, DropIndex DEF LogInv, x
    <3>5. CapInv(t)
      <4>1. /\ IsFiniteSet(DOMAIN s.byKey) /\ DOMAIN t.byKey \in SUBSET DOMAIN s.byKey
            /\ IsFiniteSet(s.full) /\ t.full \in SUBSET s.full
        BY <3>3 DEF IsShard
      <4>2. /\ Cardinality(DOMAIN s.byKey) \in Nat /\ Cardinality(DOMAIN t.byKey) \in Nat
            /\ Cardinality(DOMAIN t.byKey) <= Cardinality(DOMAIN s.byKey)
        BY <4>1, FS_Subset, FS_CardinalityType
      <4>3. /\ Cardinality(s.full) \in Nat /\ Cardinality(t.full) \in Nat
            /\ Cardinality(t.full) <= Cardinality(s.full)
        BY <4>1, FS_Subset, FS_CardinalityType
      <4>4. StrippedTierCap \in Nat /\ FullTierCap \in Nat
        BY RingCapacityAssumption DEF StrippedTierCap, FullTierCap
      <4> QED
        BY <4>2, <4>3, <4>4 DEF CapInv
    <3> QED
      BY <3>3, <3>4, <3>5, <2>2 DEF x
  <2> QED
    BY <2>1, <2>2
<1> HIDE DEF t, M
<1>4. LastInv(t, M, g, e.rev)
  <2>1. \A k \in Keys : M[k].rev <= e.rev /\ (M[k].rev \in Revs(t.ring) \/ M[k].rev <= g)
    BY <1>1, <1>2, <1>3 DEF LogInv, LastInv
  <2>2. ASSUME NEW k \in Keys, NEW l \in Keys, M[k].rev = M[l].rev, M[k].rev > 0
        PROVE  k = l
    BY <2>2, <1>1, <1>2 DEF LogInv, LastInv
  <2> QED
    BY <2>1, <2>2 DEF LastInv
<1>5. IndexInv(t, M)
  <2>1. \A k \in DOMAIN t.byKey : k \in Keys /\ k # e.key /\ M[k] = L[k]
    BY <1>1, <1>3 DEF IsShard
  <2> QED
    BY <2>1, <1>3, ZenonT(30) DEF IndexInv
<1>6. KeptInv(t, M)
  <2>1. ASSUME NEW k \in Keys, Deleted(M, k), k \notin DOMAIN t.byKey
        PROVE  M[k].rev < t.horizon
    <3>1. k # e.key /\ M[k] = L[k] /\ Deleted(L, k) /\ k \notin DOMAIN s.byKey
      BY <2>1, <1>1, <1>3 DEF Deleted
    <3> QED
      BY <3>1, <1>3 DEF LogInv, KeptInv
  <2>2. ASSUME NEW k \in Keys, Deleted(M, k), M[k].rev \in Revs(t.ring)
        PROVE  M[k].rev \in t.full
    <3>1. k # e.key /\ M[k] = L[k] /\ Deleted(L, k) /\ L[k].rev > 0
      BY <2>2, <1>1 DEF Deleted
    <3>2. L[k].rev \in s.full
      BY <3>1, <2>2, <1>3 DEF LogInv, KeptInv
    <3>3. e.key \in DOMAIN s.byKey => s.byKey[e.key] = L[e.key].rev
      BY DEF LogInv, IndexInv
    <3>4. L[k].rev # L[e.key].rev
      BY <3>1, <1>1 DEF LogInv, LastInv
    <3> QED
      BY <3>1, <3>2, <3>3, <3>4, <1>3
  <2> QED
    BY <2>1, <2>2 DEF KeptInv
<1>7. LogInv(t, M, g, e.rev)
  BY <1>4, <1>5, <1>6 DEF LogInv
<1> QED
  BY <1>3, <1>7, Zenon DEF t, M, ForgetKeeps

-------------------------------------------------------------------------------
(* push_into_shard keeps everything, for a put and for a delete.           *)
LEMMA PushKeeps ==
  ASSUME HistoryInv, NEW e \in EventSet, e.rev > rev, Push(e),
         e.op = "delete" => Exists(e.key)
  PROVE  HistoryInv'
<1> DEFINE s1 == PushRing(shard, e)
           h == Left(shard, e, gone)
           M == [last EXCEPT ![e.key] = e]
<1>1. /\ rev \in Nat /\ gone \in Nat /\ last \in [Keys -> EventSet] /\ IsShard(shard)
      /\ RingInv(shard, gone, rev) /\ LogInv(shard, last, gone, rev) /\ CapInv(shard)
  BY DEF HistoryInv
<1>2. h \in Nat /\ RingInv(s1, h, e.rev) /\ e.rev \in Revs(s1.ring)
  BY <1>1, PushRingEffect, Zenon
<1>3. /\ IsShard(s1)
      /\ s1.byKey = shard.byKey /\ s1.byRev = shard.byRev /\ s1.full = shard.full
  BY <1>1, PushRingFields, Zenon
<1>4. LogInv(s1, last, h, rev)
  BY <1>1, PushRingLog
<1>5. CapInv(s1)
  BY <1>1, <1>3, Zenon DEF CapInv
<1>6. /\ shard' = PushIntoShard(shard, e) /\ last' = M /\ rev' = e.rev
      /\ last' \in [Keys -> EventSet] /\ e.rev \in Nat
  BY <1>1 DEF Push, EventSet
<1> HIDE DEF s1, h, M
<1>7. /\ IsShard(shard') /\ LogInv(shard', M, h, e.rev) /\ CapInv(shard')
      /\ shard'.ring = s1.ring /\ shard'.horizon = s1.horizon
  <2>1. CASE e.op = "put"
    <3>1. shard' = Forget(s1, e.key)
      BY <2>1, <1>6, Zenon DEF PushIntoShard, s1
    <3> QED
      <4>1. e.rev > rev /\ e.rev \in Revs(s1.ring)
        BY <1>2
      <4>2. ForgetKeeps(s1, last, h, e)
        BY <4>1, <2>1, <1>1, <1>2, <1>3, <1>4, <1>5, ForgetLog, SMTT(60)
      <4> QED
        BY <3>1, <4>2, Zenon DEF ForgetKeeps, M
  <2>2. CASE e.op = "delete"
    <3> DEFINE s2 == Remember(s1, e)
               s3 == CapFullTier(s2)
    <3>1. shard' = CapStrippedTier(s3)
      BY <2>2, <1>6 DEF PushIntoShard, s1
    <3>2. LogInv(s2, M, h, e.rev)
      <4>1. last[e.key].op = "put"
        BY <2>2 DEF Exists
      <4> QED
        BY <4>1, <2>2, <1>1, <1>2, <1>3, <1>4, RememberLog DEF M
    <3>3. /\ IsShard(s2) /\ s2.ring = s1.ring /\ s2.horizon = s1.horizon
          /\ s2.byKey = With(s1.byKey, e.key, e.rev)
          /\ s2.full = s1.full \cup {e.rev}
      BY <1>3, RememberFields, Zenon
    <3>4. /\ RingCapacity \in Nat /\ FullTierCap \in Nat /\ StrippedTierCap \in Nat
          /\ IsFiniteSet(s1.full) /\ Cardinality(s1.full) \in Nat
          /\ IsFiniteSet(DOMAIN s1.byKey) /\ Cardinality(DOMAIN s1.byKey) \in Nat
          /\ Cardinality(s1.full) <= FullTierCap
          /\ Cardinality(DOMAIN s1.byKey) <= StrippedTierCap
      BY <1>3, <1>5, RingCapacityAssumption, FS_CardinalityType
         DEF IsShard, CapInv, FullTierCap, StrippedTierCap
    <3>5. Cardinality(s2.full) <= FullTierCap + 1
      <4>1. Cardinality(s1.full \cup {e.rev}) =
              IF e.rev \in s1.full THEN Cardinality(s1.full) ELSE Cardinality(s1.full) + 1
        BY <3>4, FS_AddElement
      <4> QED
        BY <4>1, <3>3, <3>4
    <3>6. Cardinality(DOMAIN s2.byKey) <= StrippedTierCap + 1
      <4>1. Cardinality(DOMAIN s1.byKey \cup {e.key}) =
              IF e.key \in DOMAIN s1.byKey THEN Cardinality(DOMAIN s1.byKey)
              ELSE Cardinality(DOMAIN s1.byKey) + 1
        BY <3>4, FS_AddElement
      <4>2. DOMAIN s2.byKey = DOMAIN s1.byKey \cup {e.key}
        BY <3>3 DEF With
      <4> QED
        BY <4>1, <4>2, <3>4
    <3>7. RingInv(s2, h, e.rev)
      BY <3>3, <1>2, Zenon DEF RingInv
    <3> HIDE DEF s2
    <3>8. M \in [Keys -> EventSet]
      BY <1>6
    <3>9. /\ IsShard(s3) /\ LogInv(s3, M, h, e.rev) /\ Cardinality(s3.full) <= FullTierCap
          /\ s3.ring = s2.ring /\ s3.horizon = s2.horizon /\ s3.byKey = s2.byKey
      BY <3>2, <3>3, <3>5, <3>7, <3>8, <1>2, <1>6, CapFullTierLog, Zenon
    <3> HIDE DEF s3
    <3>10. RingInv(s3, h, e.rev)
      BY <3>9, <3>7, Zenon DEF RingInv
    <3>11. Cardinality(DOMAIN s3.byKey) <= StrippedTierCap + 1
      BY <3>9, <3>6, Zenon
    <3>12. /\ IsShard(shard') /\ LogInv(shard', M, h, e.rev) /\ CapInv(shard')
           /\ shard'.ring = s3.ring /\ shard'.horizon = s3.horizon
      BY <3>1, <3>8, <3>9, <3>10, <3>11, <1>2, <1>6, CapStrippedTierLog, Zenon
    <3> QED
      BY <3>12, <3>9, <3>3, Zenon
  <2> QED
    BY <2>1, <2>2 DEF EventSet
<1>8. gone' = h
  <2>1. Revs(shard'.ring) = Revs(s1.ring)
    BY <1>7, Zenon
  <2> QED
    BY <2>1 DEF Push, Left, Revs, s1, h
<1>9. RingInv(shard', h, e.rev)
  BY <1>7, <1>2, Zenon DEF RingInv
<1> QED
  BY <1>2, <1>6, <1>7, <1>8, <1>9 DEF HistoryInv

LEMMA HistoryNext == HistoryInv /\ [Next]_vars => HistoryInv'
<1> SUFFICES ASSUME HistoryInv, [Next]_vars PROVE HistoryInv'
  OBVIOUS
<1>1. rev \in Nat
  BY DEF HistoryInv
<1>2. ASSUME NEW k \in Keys, NEW skip \in 0 .. MaxSkip, PutKey(k, skip) PROVE HistoryInv'
  <2> DEFINE e == [key |-> k, rev |-> rev + 1 + skip, op |-> "put"]
  <2>1. e \in EventSet /\ e.rev > rev /\ e.op = "put"
    BY <1>1, <1>2, HistoryAssumption DEF EventSet
  <2>2. Push(e)
    BY <1>2 DEF PutKey
  <2> HIDE DEF e
  <2> QED
    BY <2>1, <2>2, PushKeeps
<1>3. ASSUME NEW k \in Keys, NEW skip \in 0 .. MaxSkip, DeleteKey(k, skip) PROVE HistoryInv'
  <2> DEFINE e == [key |-> k, rev |-> rev + 1 + skip, op |-> "delete"]
  <2>1. e \in EventSet /\ e.rev > rev /\ e.key = k
    BY <1>1, <1>3, HistoryAssumption DEF EventSet
  <2>2. Push(e) /\ Exists(k)
    BY <1>3 DEF DeleteKey
  <2> HIDE DEF e
  <2> QED
    BY <2>1, <2>2, PushKeeps
<1>4. CASE UNCHANGED vars
  BY <1>4 DEF vars, HistoryInv
<1> QED
  BY <1>2, <1>3, <1>4 DEF Next

LEMMA HistoryInit == Init => HistoryInv
<1> SUFFICES ASSUME Init PROVE HistoryInv
  OBVIOUS
<1>1. /\ shard = [ring |-> <<>>, horizon |-> 0, byKey |-> Empty, byRev |-> Empty, full |-> {}]
      /\ rev = 0 /\ gone = 0
      /\ last = [k \in Keys |-> [key |-> k, rev |-> 0, op |-> "delete"]]
  BY DEF Init, NewShard
<1>2. /\ shard.ring = <<>> /\ shard.horizon = 0 /\ shard.byKey = Empty /\ shard.byRev = Empty
      /\ shard.full = {}
  BY <1>1
<1>3. DOMAIN Empty = {}
  BY DEF Empty
<1>4. last \in [Keys -> EventSet] /\ \A k \in Keys : last[k].rev = 0
  BY <1>1 DEF EventSet
<1>5. IsFiniteSet({}) /\ Cardinality({}) = 0
  BY FS_EmptySet
<1>6. shard.ring \in Seq(EventSet) /\ Len(shard.ring) = 0 /\ Revs(shard.ring) = {}
  BY <1>2 DEF Revs
<1>7. IsShard(shard)
  BY <1>1, <1>2, <1>3, <1>5, <1>6 DEF IsShard
<1>8. /\ RingCapacity \in Nat /\ FullTierCap \in Nat /\ StrippedTierCap \in Nat
  BY RingCapacityAssumption DEF FullTierCap, StrippedTierCap
<1>9. RingInv(shard, gone, rev)
  BY <1>1, <1>2, <1>6, <1>8 DEF RingInv
<1>10. LogInv(shard, last, gone, rev)
  <2>1. LastInv(shard, last, gone, rev)
    BY <1>1, <1>4 DEF LastInv
  <2>2. IndexInv(shard, last)
    BY <1>2, <1>3 DEF IndexInv
  <2>3. KeptInv(shard, last)
    BY <1>4 DEF KeptInv, Deleted
  <2> QED
    BY <2>1, <2>2, <2>3 DEF LogInv
<1>11. CapInv(shard)
  BY <1>2, <1>3, <1>5, <1>8 DEF CapInv
<1> QED
  BY <1>1, <1>4, <1>7, <1>9, <1>10, <1>11 DEF HistoryInv

(* The inductive invariant of a shard's history: the ring is in revision   *)
(* order, every key's last event is in it or has left it below the floor,  *)
(* and ring, indices and tiers fit together (push_into_shard).             *)
THEOREM HistoryInvariant == Spec => []HistoryInv
<1> QED
  BY HistoryInit, HistoryNext, PTL DEF Spec

(* The three indices of the deletion log describe the same entries and the *)
(* shard stays within RING_CAPACITY, FULL_TIER_CAP and STRIPPED_TIER_CAP,  *)
(* for every capacity and any history of puts and deletes.                 *)
THEOREM DeletionIndicesAgree == Spec => []IndicesAgree
<1>1. HistoryInv => IndicesAgree
  <2> SUFFICES ASSUME HistoryInv PROVE IndicesAgree
    OBVIOUS
  <2>1. TypeOK
    <3>1. shard.horizon \in 0 .. rev
      BY DEF HistoryInv, IsShard, RingInv
    <3> QED
      BY <3>1 DEF TypeOK, HistoryInv, IsShard, RingInv, CapInv
  <2> QED
    BY <2>1, Zenon DEF IndicesAgree, HistoryInv, IsShard, LogInv, IndexInv
<1> QED
  BY <1>1, HistoryInvariant, PTL

(* Whatever left the ring lies below the floor, so a client that is not    *)
(* told Compacted finds every later event in the ring (push_into_shard,    *)
(* the check of `from' against horizon_rv).                                *)
THEOREM EvictionRaisesFloor == Spec => []NothingLostAboveFloor
<1>1. HistoryInv => NothingLostAboveFloor
  BY DEF HistoryInv, RingInv, NothingLostAboveFloor
<1> QED
  BY <1>1, HistoryInvariant, PTL

(* A tombstone never speaks of a key that exists and carries the revision  *)
(* of its key's last event (DeletionLog::record and remove).               *)
THEOREM TombstonesStayCurrent == Spec => []TombstonesAreCurrent
<1>1. HistoryInv => TombstonesAreCurrent
  BY DEF HistoryInv, LogInv, IndexInv, TombstonesAreCurrent, Exists
<1> QED
  BY <1>1, HistoryInvariant, PTL

(* A deletion that is still in the ring and not undone keeps its body: of  *)
(* more bodies than the first cap the oldest has left the ring.            *)
THEOREM BodiesOutliveRing == Spec => []RingDeletionsKeepBodies
<1>1. HistoryInv => RingDeletionsKeepBodies
  BY DEF HistoryInv, LogInv, KeptInv, Deleted, RingDeletionsKeepBodies, Exists, InRing, Revs
<1> QED
  BY <1>1, HistoryInvariant, PTL

(* A deletion whose tombstone was forgotten lies below the floor, as the   *)
(* comment of STRIPPED_TIER_CAP promises: of more tombstones than the      *)
(* second cap the oldest has left the ring.                                *)
THEOREM ForgottenIsBelowFloor == Spec => []ForgottenDeletionsExpire
<1>1. HistoryInv => ForgottenDeletionsExpire
  BY DEF HistoryInv, LogInv, KeptInv, Deleted, ForgottenDeletionsExpire, Exists
<1> QED
  BY <1>1, HistoryInvariant, PTL

=============================================================================
