----------------------------- MODULE QuotaProofs -----------------------------
(***************************************************************************)
(* Proofs about the pod counter of a ResourceQuota, for any finite set of  *)
(* pods, any limits and any combination of races.                          *)
(***************************************************************************)
EXTENDS Quota, FiniteSetTheorems, TLAPS

-------------------------------------------------------------------------------
(* The inductive invariant.                                                *)

\* The number the counter stands for: what is stored, but for the changes the
\* counter does not account for yet.  Only the put of a request changes it.
Accounted == Count + Cardinality(Removing) - Cardinality(Adding)

\* A pod that is about to be created is not stored; a task knows its direction.
TasksFit ==
  \A p \in Requests :
    /\ task[p].pc = "create" => task[p].sign = 1 /\ p \in Pods /\ p \notin stored
    /\ task[p].pc = "removed" => task[p].sign = -1

\* Nobody else removes what the DeleteCollection has listed, without that race.
TodoFits == "collection" \notin races => todo \subseteq stored

\* Whoever will put the quota has its current limit, unless its put fails.
LimitsFit ==
  /\ rec.fresh /\ rec.pc # "idle" => rec.hard = quota.hard
  /\ "edit" \notin races =>
       /\ quota.hard = want
       /\ other.pc = "put" => other.hard = want
       /\ \A p \in Requests : task[p].pc = "put" => task[p].hard = want

\* A limit that will be put is one that the quota has had.
HardsFit ==
  /\ other.pc = "put" => other.hard \in Limits
  /\ \A p \in Requests : task[p].pc = "put" => task[p].hard \in Limits

\* Every value that will be put is exact when it is put, and a pod that was
\* admitted still has its place.
CountsFit ==
  /\ quota.used # NoCount => quota.used = Accounted
  /\ other.pc = "put" => other.val = Accounted
  /\ rec.pc = "put" /\ rec.fresh => rec.val = Accounted
  /\ \A p \in Requests :
       /\ task[p].pc = "put" => task[p].val = Accounted + task[p].sign
       /\ task[p].pc = "create" => Count < task[p].hard

\* The part of TypeOK about the lock.
LockFits ==
  /\ lock \in Requests \cup {"free", "other"}
  /\ (lock = "other") = (other.pc = "put")
  /\ \A p \in Requests : (lock = p) = (task[p].pc \in {"create", "read", "put"})

QuotaInv == TypeOK /\ TasksFit /\ TodoFits /\ LimitsFit /\ HardsFit /\ (races = {} => CountsFit)

-------------------------------------------------------------------------------
(* Types, tasks and limits.                                                *)

LEMMA RequestNames == \A p \in Requests : p # "free" /\ p # "other"
  BY QuotaConstants DEF Requests, Sweep

LEMMA CountIsNat ==
  ASSUME TypeOK
  PROVE  /\ IsFiniteSet(stored) /\ IsFiniteSet(Adding) /\ IsFiniteSet(Removing)
         /\ Count \in Nat /\ Cardinality(Adding) \in Nat /\ Cardinality(Removing) \in Nat
<1>1. stored \subseteq Pods /\ Adding \subseteq Requests /\ Removing \subseteq Requests
  BY DEF TypeOK, Adding, Removing
<1>3. IsFiniteSet(Requests)
  BY QuotaConstants, FS_AddElement DEF Requests
<1>2. IsFiniteSet(stored) /\ IsFiniteSet(Adding) /\ IsFiniteSet(Removing)
  BY <1>1, <1>3, QuotaConstants, FS_Subset
<1> QED  BY <1>2, FS_CardinalityType DEF Count

\* A put of the quota keeps its type, and the reconciler's.
LEMMA WriteType ==
  ASSUME TypeOK, NEW hard \in Limits, NEW used \in Nat \cup {NoCount}, Write(hard, used)
  PROVE  /\ quota' \in [hard : Limits, used : Nat \cup {NoCount}] /\ rec' \in Reconciler
         /\ quota'.hard = hard /\ quota'.used = used
         /\ rec'.pc = rec.pc /\ rec'.val = rec.val /\ rec'.hard = rec.hard
         /\ rec'.fresh => rec.fresh /\ quota' = quota
<1>1. rec \in Reconciler
  BY DEF TypeOK
<1>2. quota' = [hard |-> hard, used |-> used]
  BY DEF Write
<1> DEFINE f == rec.fresh /\ quota' = quota
<1>3. f \in BOOLEAN /\ rec' = [rec EXCEPT !.fresh = f]
  BY DEF Write
<1> HIDE DEF f
<1>4. rec' \in Reconciler /\ rec'.pc = rec.pc /\ rec'.val = rec.val /\ rec'.hard = rec.hard
      /\ rec'.fresh = f
  BY <1>1, <1>3 DEF Reconciler
<1>5. rec'.fresh => rec.fresh /\ quota' = quota
  BY <1>4 DEF f
<1> QED  BY <1>2, <1>4, <1>5

\* A step of one request keeps types, the lock and the others' requests.
LEMMA TaskType ==
  ASSUME TypeOK, NEW p \in Requests, NEW n \in Task, task' = [task EXCEPT ![p] = n],
         NEW held \in BOOLEAN, held <=> n.pc \in {"create", "read", "put"},
         held => lock \in {p, "free"} /\ lock' = p,
         ~held => lock' = IF lock = p THEN "free" ELSE lock,
         other' = other
  PROVE  /\ task' \in [Requests -> Task] /\ task'[p] = n
         /\ \A q \in Requests \ {p} : task'[q] = task[q]
         /\ LockFits'
<1>1. task' \in [Requests -> Task] /\ task'[p] = n /\ \A q \in Requests \ {p} : task'[q] = task[q]
  BY DEF TypeOK
<1>2. p # "free" /\ p # "other"
  BY RequestNames
<1>3. lock' \in Requests \cup {"free", "other"} /\ (lock' = "other") = (other'.pc = "put")
  BY <1>2 DEF TypeOK
<1>4. ASSUME NEW q \in Requests PROVE (lock' = q) <=> (task'[q].pc \in {"create", "read", "put"})
  <2>1. q # "free" /\ q # "other"
    BY RequestNames
  <2>2. CASE q = p
    BY <1>1, <1>2, <2>2 DEF TypeOK
  <2>3. CASE q # p
    <3>1. (lock = q) <=> (task'[q].pc \in {"create", "read", "put"})
      BY <1>1, <2>3 DEF TypeOK
    <3>2. (lock' = q) <=> (lock = q)
      BY <1>2, <2>1, <2>3
    <3> QED  BY <3>1, <3>2
  <2> QED  BY <2>2, <2>3
<1> QED  BY <1>1, <1>3, <1>4 DEF LockFits

-------------------------------------------------------------------------------
(* What the counter stands for.                                            *)

\* A step of p's request moves p in or out of the sets of pending changes.
LEMMA Pending ==
  ASSUME NEW p \in Requests, \A q \in Requests \ {p} : task'[q] = task[q]
  PROVE  /\ Adding' = IF task'[p].sign > 0 /\ task'[p].pc \in {"read", "put"}
                      THEN Adding \cup {p} ELSE Adding \ {p}
         /\ Removing' = IF task'[p].sign < 0 /\ task'[p].pc \in {"removed", "read", "put"}
                        THEN Removing \cup {p} ELSE Removing \ {p}
  BY DEF Adding, Removing

\* Whoever holds the lock is the only one with an addition to account for.
LEMMA AddingHoldsLock ==
  ASSUME TypeOK
  PROVE  \A p \in Adding : lock = p
  BY DEF TypeOK, Adding

\* A step that keeps what the counter stands for, the quota and the pending puts.
LEMMA CountsKept ==
  ASSUME QuotaInv, races = {}, NEW p \in Requests, \A q \in Requests \ {p} : task'[q] = task[q],
         Accounted' = Accounted, UNCHANGED <<quota, other, rec>>,
         stored' \subseteq stored \cup {p},
         task'[p].pc = "put" => task'[p].val = Accounted + task'[p].sign,
         task'[p].pc = "create" => Count' < task'[p].hard,
         \A q \in Requests \ {p} : task[q].pc = "create" => Count' <= Count
  PROVE  CountsFit'
<1> USE DEF QuotaInv, CountsFit
<1>1. ASSUME NEW q \in Requests \ {p}, task[q].pc = "create" PROVE Count' < task[q].hard
  <2>1. Count \in Nat /\ task[q].hard \in Nat /\ Count < task[q].hard /\ Count' <= Count
    BY <1>1, CountIsNat DEF TypeOK, Task
  <2>2. IsFiniteSet(stored \cup {p})
    BY CountIsNat, FS_AddElement
  <2>3. Count' \in Nat
    BY <2>2, FS_Subset, FS_CardinalityType DEF Count
  <2> QED  BY <2>1, <2>3
<1> QED  BY <1>1

-------------------------------------------------------------------------------
(* Requests for pods.                                                      *)

LEMMA AdmitInv ==
  ASSUME QuotaInv, NEW p \in Pods, Admit(p)
  PROVE  QuotaInv'
<1> p \in Requests
  BY DEF Requests
<1> DEFINE n == [Idle EXCEPT !.pc = "create", !.sign = 1, !.hard = quota.hard]
<1>1. /\ task[p].pc = "idle" /\ p \notin stored /\ lock = "free" /\ lock' = p
      /\ task' = [task EXCEPT ![p] = n] /\ UNCHANGED <<races, todo, stored, quota, want, other, rec>>
      /\ (IF quota.used = NoCount THEN Count ELSE quota.used) < quota.hard
  BY DEF Admit
<1>2. quota.hard \in Limits /\ quota.hard \in Nat /\ quota.used \in Nat \cup {NoCount}
  BY QuotaConstants DEF QuotaInv, TypeOK
<1>3. n \in Task /\ n.pc = "create" /\ n.sign = 1 /\ n.hard = quota.hard
  BY <1>2 DEF Idle, Task
<1> HIDE DEF n
<1>4. /\ task' \in [Requests -> Task] /\ task'[p] = n
      /\ \A q \in Requests \ {p} : task'[q] = task[q]
      /\ LockFits'
  BY <1>1, <1>3, TaskType DEF QuotaInv
<1>5. TypeOK' /\ TasksFit' /\ TodoFits' /\ LimitsFit' /\ HardsFit'
  BY <1>1, <1>3, <1>4 DEF QuotaInv, TypeOK, LockFits, TasksFit, TodoFits, LimitsFit, HardsFit
<1>6. ASSUME races = {} PROVE CountsFit'
  <2>1. Adding' = Adding /\ Removing' = Removing /\ Adding = {}
    <3>1. p \notin Adding /\ p \notin Removing
      BY <1>1 DEF Adding, Removing
    <3>2. Adding = {}
      BY <1>1, AddingHoldsLock, RequestNames DEF QuotaInv, Adding
    <3> QED  BY <1>3, <1>4, <3>1, <3>2, Pending
  <2>2. Accounted' = Accounted /\ Count' = Count
    BY <1>1, <2>1 DEF Accounted, Count
  <2>3. Count < quota.hard
    <3>1. Cardinality({}) = 0
      BY FS_EmptySet
    <3>2. quota.used # NoCount => quota.used = Count + Cardinality(Removing)
      BY <1>6, <2>1, <3>1, CountIsNat DEF QuotaInv, CountsFit, Accounted
    <3> QED  BY <1>1, <1>2, <3>2, CountIsNat DEF QuotaInv
  <2>4. Count <= Count
    BY CountIsNat DEF QuotaInv
  <2> QED  BY <1>1, <1>3, <1>4, <1>6, <2>2, <2>3, <2>4, CountsKept
<1> QED  BY <1>1, <1>5, <1>6 DEF QuotaInv

LEMMA StoreCreateInv ==
  ASSUME QuotaInv, NEW p \in Requests, StoreCreate(p)
  PROVE  QuotaInv'
<1> DEFINE n == [task[p] EXCEPT !.pc = "read"]
<1>1. /\ task[p].pc = "create" /\ task[p].sign = 1 /\ p \in Pods /\ p \notin stored /\ lock = p
      /\ stored' = stored \cup {p} /\ task' = [task EXCEPT ![p] = n]
      /\ UNCHANGED <<races, todo, quota, want, lock, other, rec>>
  BY DEF StoreCreate, QuotaInv, TasksFit, TypeOK
<1>2. n \in Task /\ n.pc = "read" /\ n.sign = 1
  BY <1>1 DEF QuotaInv, TypeOK, Task
<1> HIDE DEF n
<1>3. /\ task' \in [Requests -> Task] /\ task'[p] = n
      /\ \A q \in Requests \ {p} : task'[q] = task[q]
      /\ LockFits'
  BY <1>1, <1>2, TaskType DEF QuotaInv
<1>4. TypeOK' /\ LimitsFit' /\ HardsFit'
  BY <1>1, <1>2, <1>3 DEF QuotaInv, TypeOK, LockFits, LimitsFit, HardsFit
<1>5. TasksFit' /\ TodoFits'
  BY <1>1, <1>2, <1>3 DEF QuotaInv, TypeOK, TasksFit, TodoFits
<1>6. ASSUME races = {} PROVE CountsFit'
  <2>1. Adding' = Adding \cup {p} /\ Removing' = Removing /\ p \notin Adding
    <3>1. p \notin Adding /\ p \notin Removing
      BY <1>1 DEF Adding, Removing
    <3> QED  BY <1>2, <1>3, <3>1, Pending
  <2>2. Count' = Count + 1 /\ Cardinality(Adding') = Cardinality(Adding) + 1
    BY <1>1, <2>1, CountIsNat, FS_AddElement DEF Count, QuotaInv
  <2>3. Accounted' = Accounted
    BY <2>1, <2>2, CountIsNat DEF Accounted, QuotaInv
  <2>4. \A q \in Requests \ {p} : task[q].pc # "create"
    BY <1>1 DEF QuotaInv, TypeOK
  <2> QED  BY <1>1, <1>2, <1>3, <1>6, <2>3, <2>4, CountsKept
<1> QED  BY <1>1, <1>4, <1>5, <1>6 DEF QuotaInv

LEMMA RemoveInv ==
  ASSUME QuotaInv, NEW p \in Pods, Remove(p)
  PROVE  QuotaInv'
<1> p \in Requests
  BY DEF Requests
<1> DEFINE n == [Idle EXCEPT !.pc = "removed"]
<1>1. /\ task[p].pc = "idle" /\ p \in stored /\ lock # p
      /\ stored' = stored \ {p} /\ task' = [task EXCEPT ![p] = n]
      /\ UNCHANGED <<races, todo, quota, want, lock, other, rec>>
      /\ "collection" \in races \/ p \notin todo
  BY DEF Remove, QuotaInv, TypeOK
<1>2. n \in Task /\ n.pc = "removed" /\ n.sign = -1
  BY DEF Idle, Task
<1> HIDE DEF n
<1>3. /\ task' \in [Requests -> Task] /\ task'[p] = n
      /\ \A q \in Requests \ {p} : task'[q] = task[q]
      /\ LockFits'
  BY <1>1, <1>2, TaskType DEF QuotaInv
<1>4. TypeOK' /\ LimitsFit' /\ HardsFit'
  BY <1>1, <1>2, <1>3 DEF QuotaInv, TypeOK, LockFits, LimitsFit, HardsFit
<1>5. TasksFit' /\ TodoFits'
  BY <1>1, <1>2, <1>3 DEF QuotaInv, TasksFit, TodoFits
<1>6. ASSUME races = {} PROVE CountsFit'
  <2>1. Removing' = Removing \cup {p} /\ Adding' = Adding /\ p \notin Removing
    <3>1. p \notin Adding /\ p \notin Removing
      BY <1>1 DEF Adding, Removing
    <3> QED  BY <1>2, <1>3, <3>1, Pending
  <2>2. Count' = Count - 1 /\ Cardinality(Removing') = Cardinality(Removing) + 1
    BY <1>1, <2>1, CountIsNat, FS_AddElement, FS_RemoveElement DEF Count, QuotaInv
  <2>3. Accounted' = Accounted /\ Count' <= Count
    BY <2>1, <2>2, CountIsNat DEF Accounted, QuotaInv
  <2> QED  BY <1>1, <1>2, <1>3, <1>6, <2>3, CountsKept
<1> QED  BY <1>1, <1>4, <1>5, <1>6 DEF QuotaInv

LEMMA SweepListsInv ==
  ASSUME QuotaInv, NEW pods \in SUBSET stored, SweepLists(pods) \/ (SweepRefused /\ pods = {})
  PROVE  QuotaInv'
<1>1. todo' = pods /\ UNCHANGED <<races, stored, quota, want, lock, task, other, rec>>
  BY DEF SweepLists, SweepRefused
<1>2. Accounted' = Accounted /\ Count' = Count
  BY <1>1 DEF Accounted, Count, Adding, Removing
<1>3. TypeOK' /\ TasksFit' /\ TodoFits' /\ LimitsFit' /\ HardsFit'
  BY <1>1 DEF QuotaInv, TypeOK, TasksFit, TodoFits, LimitsFit, HardsFit
<1>4. races = {} => CountsFit'
  BY <1>1, <1>2 DEF QuotaInv, CountsFit
<1> QED  BY <1>1, <1>3, <1>4 DEF QuotaInv

\* Without the race the pod is still there, so that there is one to subtract.
LEMMA SweepRemovesInv ==
  ASSUME QuotaInv, NEW p \in Pods, SweepRemoves(p)
  PROVE  QuotaInv'
<1> DEFINE n == [Idle EXCEPT !.pc = "removed"]
<1> Sweep \in Requests
  BY DEF Requests
<1>1. /\ task[Sweep].pc = "idle" /\ p \in todo /\ lock # Sweep
      /\ todo' = todo \ {p} /\ stored' = stored \ {p} /\ task' = [task EXCEPT ![Sweep] = n]
      /\ UNCHANGED <<races, quota, want, lock, other, rec>>
  BY DEF SweepRemoves, QuotaInv, TypeOK
<1>2. n \in Task /\ n.pc = "removed" /\ n.sign = -1
  BY DEF Idle, Task
<1> HIDE DEF n
<1>3. /\ task' \in [Requests -> Task] /\ task'[Sweep] = n
      /\ \A q \in Requests \ {Sweep} : task'[q] = task[q]
      /\ LockFits'
  BY <1>1, <1>2, TaskType DEF QuotaInv
<1>4. TypeOK' /\ LimitsFit' /\ HardsFit'
  BY <1>1, <1>2, <1>3 DEF QuotaInv, TypeOK, LockFits, LimitsFit, HardsFit
<1>5. TasksFit' /\ TodoFits'
  BY <1>1, <1>2, <1>3 DEF QuotaInv, TasksFit, TodoFits
<1>6. ASSUME races = {} PROVE CountsFit'
  <2>1. Removing' = Removing \cup {Sweep} /\ Adding' = Adding /\ Sweep \notin Removing
    <3>1. Sweep \notin Adding /\ Sweep \notin Removing
      BY <1>1 DEF Adding, Removing
    <3> QED  BY <1>2, <1>3, <3>1, Pending
  <2>2. p \in stored
    BY <1>1, <1>6 DEF QuotaInv, TodoFits
  <2>3. Count' = Count - 1 /\ Cardinality(Removing') = Cardinality(Removing) + 1
    BY <1>1, <2>1, <2>2, CountIsNat, FS_AddElement, FS_RemoveElement DEF Count, QuotaInv
  <2>4. Accounted' = Accounted /\ Count' <= Count
    BY <2>1, <2>3, CountIsNat DEF Accounted, QuotaInv
  <2> QED  BY <1>1, <1>2, <1>3, <1>6, <2>4, CountsKept
<1> QED  BY <1>1, <1>4, <1>5, <1>6 DEF QuotaInv

LEMMA LockRemovedInv ==
  ASSUME QuotaInv, NEW p \in Requests, LockRemoved(p)
  PROVE  QuotaInv'
<1> DEFINE n == [task[p] EXCEPT !.pc = "read"]
<1>1. /\ task[p].pc = "removed" /\ task[p].sign = -1 /\ lock = "free" /\ lock' = p
      /\ task' = [task EXCEPT ![p] = n]
      /\ UNCHANGED <<races, todo, stored, quota, want, other, rec>>
  BY DEF LockRemoved, QuotaInv, TasksFit, TodoFits
<1>2. n \in Task /\ n.pc = "read" /\ n.sign = -1
  BY <1>1 DEF QuotaInv, TypeOK, Task
<1> HIDE DEF n
<1>3. /\ task' \in [Requests -> Task] /\ task'[p] = n
      /\ \A q \in Requests \ {p} : task'[q] = task[q]
      /\ LockFits'
  BY <1>1, <1>2, TaskType DEF QuotaInv
<1>4. TypeOK' /\ LimitsFit' /\ HardsFit'
  BY <1>1, <1>2, <1>3 DEF QuotaInv, TypeOK, LockFits, LimitsFit, HardsFit
<1>5. TasksFit' /\ TodoFits'
  BY <1>1, <1>2, <1>3 DEF QuotaInv, TasksFit, TodoFits
<1>6. ASSUME races = {} PROVE CountsFit'
  <2>1. Removing' = Removing /\ Adding' = Adding
    <3>1. p \notin Adding /\ p \in Removing
      BY <1>1 DEF Adding, Removing
    <3> QED  BY <1>2, <1>3, <3>1, Pending
  <2>2. Accounted' = Accounted /\ Count' = Count /\ Count <= Count
    BY <1>1, <2>1, CountIsNat DEF Accounted, Count, QuotaInv
  <2> QED  BY <1>1, <1>2, <1>3, <1>6, <2>2, CountsKept
<1> QED  BY <1>1, <1>4, <1>5, <1>6 DEF QuotaInv

\* The value read is right when it is put: a counter stands for one less or
\* one more, and a clean count has the change already.
LEMMA ReadInv ==
  ASSUME QuotaInv, NEW p \in Requests, Read(p)
  PROVE  QuotaInv'
<1> DEFINE n == [task[p] EXCEPT !.pc = "put", !.val = NewValue(p), !.hard = quota.hard]
<1>1. /\ task[p].pc = "read" /\ lock = p /\ task' = [task EXCEPT ![p] = n]
      /\ quota.used = NoCount => CountIsClean({p})
      /\ UNCHANGED <<races, todo, stored, quota, want, lock, other, rec>>
  BY DEF Read, QuotaInv, TypeOK
<1>2. quota.hard \in Nat /\ quota.used \in Nat \cup {NoCount} /\ Count \in Nat
  BY QuotaConstants, CountIsNat DEF QuotaInv, TypeOK
<1>3. NewValue(p) \in Nat /\ task[p] \in Task /\ task[p].sign \in {-1, 1}
  BY <1>2 DEF NewValue, QuotaInv, TypeOK, Task
<1>4. n \in Task /\ n.pc = "put" /\ n.sign = task[p].sign /\ n.val = NewValue(p) /\ n.hard = quota.hard
  BY <1>2, <1>3 DEF Task
<1> HIDE DEF n
<1>5. /\ task' \in [Requests -> Task] /\ task'[p] = n
      /\ \A q \in Requests \ {p} : task'[q] = task[q]
      /\ LockFits'
  BY <1>1, <1>4, TaskType DEF QuotaInv
<1>6. TypeOK' /\ LimitsFit' /\ HardsFit'
  BY <1>1, <1>4, <1>5 DEF QuotaInv, TypeOK, LockFits, LimitsFit, HardsFit
<1>7. TasksFit' /\ TodoFits'
  BY <1>1, <1>4, <1>5 DEF QuotaInv, TasksFit, TodoFits
<1>8. ASSUME races = {} PROVE CountsFit'
  <2>1. Removing' = Removing /\ Adding' = Adding
    <3>1. IF task[p].sign = 1 THEN p \in Adding /\ p \notin Removing ELSE p \notin Adding /\ p \in Removing
      BY <1>1, <1>3 DEF Adding, Removing
    <3>2. /\ task'[p].pc = "put" /\ task'[p].sign = task[p].sign
          /\ (task[p].sign > 0) = (task[p].sign = 1) /\ (task[p].sign < 0) = (task[p].sign # 1)
      BY <1>3, <1>4, <1>5
    <3> QED  BY <1>5, <3>1, <3>2, Pending
  <2>2. Accounted' = Accounted /\ Count' = Count /\ Count <= Count
    BY <1>1, <2>1, CountIsNat DEF Accounted, Count, QuotaInv
  <2>3. Adding \subseteq {p}
    BY <1>1, AddingHoldsLock DEF QuotaInv
  <2>4. Cardinality({}) = 0 /\ Cardinality({p}) = 1
    BY FS_EmptySet, FS_Singleton
  <2>5. NewValue(p) = Accounted + task[p].sign
    <3>1. CASE quota.used = NoCount
      <4>1. Dirty \subseteq {p}
        BY <1>1, <1>8, <3>1 DEF CountIsClean
      <4>2. IF task[p].sign = 1 THEN Adding = {p} /\ Removing = {} ELSE Adding = {} /\ Removing = {p}
        BY <1>1, <1>3, <4>1 DEF Dirty, Adding, Removing
      <4>3. Count = Accounted + task[p].sign
        <5>1. CASE task[p].sign = 1
          <6>1. Adding = {p} /\ Removing = {}
            BY <4>2, <5>1
          <6>2. Accounted = Count + 0 - 1
            BY <1>2, <2>4, <6>1 DEF Accounted
          <6> QED  BY <1>2, <5>1, <6>2
        <5>2. CASE task[p].sign = -1
          <6>1. Adding = {} /\ Removing = {p}
            BY <4>2, <5>2
          <6>2. Accounted = Count + 1
            BY <1>2, <2>4, <6>1 DEF Accounted
          <6> QED  BY <1>2, <5>2, <6>2
        <5> QED  BY <1>3, <5>1, <5>2
      <4> QED  BY <3>1, <4>3 DEF NewValue
    <3>2. CASE quota.used # NoCount
      <4>1. quota.used = Accounted /\ quota.used \in Nat
        BY <1>2, <1>8, <3>2 DEF QuotaInv, CountsFit
      <4>2. ASSUME task[p].sign = -1 PROVE Accounted # 0
        <5>1. p \in Removing /\ p \notin Adding
          BY <1>1, <4>2 DEF Adding, Removing
        <5>2. Adding = {}
          BY <2>3, <5>1
        <5>3. Cardinality(Removing) # 0
          BY <5>1, CountIsNat, FS_EmptySet DEF QuotaInv
        <5> QED  BY <1>2, <2>4, <5>2, <5>3, CountIsNat DEF Accounted, QuotaInv
      <4> QED  BY <1>3, <3>2, <4>1, <4>2 DEF NewValue
    <3> QED  BY <3>1, <3>2
  <2> QED  BY <1>1, <1>4, <1>5, <1>8, <2>2, <2>5, CountsKept
<1> QED  BY <1>1, <1>6, <1>7, <1>8 DEF QuotaInv

\* With the put the counter stands for one pod more or less; the put changes
\* the quota, so that a recount that began before it will not be stored.
LEMMA PutInv ==
  ASSUME QuotaInv, NEW p \in Requests, Put(p)
  PROVE  QuotaInv'
<1>1. /\ task[p].pc = "put" /\ lock = p /\ Write(task[p].hard, task[p].val)
      /\ task' = [task EXCEPT ![p] = Idle] /\ lock' = "free"
      /\ UNCHANGED <<races, todo, stored, want, other>>
  BY DEF Put, QuotaInv, TypeOK
<1>2. task[p].val \in Nat /\ task[p].sign \in {-1, 1}
  BY DEF QuotaInv, TypeOK, Task
<1>3. Idle \in Task /\ Idle.pc = "idle"
  BY DEF Idle, Task
<1>4. /\ task' \in [Requests -> Task] /\ task'[p] = Idle
      /\ \A q \in Requests \ {p} : task'[q] = task[q]
      /\ LockFits'
  BY <1>1, <1>3, TaskType DEF QuotaInv
<1>5. task[p].hard \in Limits
  BY <1>1 DEF QuotaInv, HardsFit
<1>6. /\ quota' \in [hard : Limits, used : Nat \cup {NoCount}] /\ rec' \in Reconciler
      /\ quota'.hard = task[p].hard /\ quota'.used = task[p].val
      /\ rec'.pc = rec.pc /\ rec'.val = rec.val /\ rec'.hard = rec.hard
      /\ rec'.fresh => rec.fresh /\ quota' = quota
  BY <1>1, <1>2, <1>5, WriteType DEF QuotaInv
<1>7. TypeOK' /\ TasksFit' /\ TodoFits'
  BY <1>1, <1>3, <1>4, <1>6 DEF QuotaInv, TypeOK, LockFits, TasksFit, TodoFits
<1>8. LimitsFit' /\ HardsFit'
  BY <1>1, <1>3, <1>4, <1>6 DEF QuotaInv, LimitsFit, HardsFit
<1>9. ASSUME races = {} PROVE CountsFit'
  <2>1. Adding' = Adding \ {p} /\ Removing' = Removing \ {p}
    BY <1>3, <1>4, Pending
  <2>2. IF task[p].sign = 1 THEN p \in Adding /\ p \notin Removing ELSE p \notin Adding /\ p \in Removing
    BY <1>1, <1>2 DEF Adding, Removing
  <2>3. /\ Cardinality(Adding') = IF p \in Adding THEN Cardinality(Adding) - 1 ELSE Cardinality(Adding)
        /\ Cardinality(Removing') = IF p \in Removing THEN Cardinality(Removing) - 1 ELSE Cardinality(Removing)
    BY <2>1, CountIsNat, FS_RemoveElement DEF QuotaInv
  <2>4. Count' = Count
    BY <1>1 DEF Count
  <2>5. Accounted' = Accounted + task[p].sign
    <3>1. CASE task[p].sign = 1
      BY <2>2, <2>3, <2>4, <3>1, CountIsNat DEF Accounted, QuotaInv
    <3>2. CASE task[p].sign = -1
      BY <2>2, <2>3, <2>4, <3>2, CountIsNat DEF Accounted, QuotaInv
    <3> QED  BY <1>2, <3>1, <3>2
  <2>6. quota'.used = Accounted' /\ Accounted \in Int
    BY <1>1, <1>6, <1>9, <2>5, CountIsNat DEF QuotaInv, CountsFit, Accounted
  <2>7. ~rec'.fresh
    <3> SUFFICES ASSUME quota' = quota PROVE FALSE
      BY <1>6
    <3>1. quota.used = task[p].val /\ quota.used # NoCount
      BY <1>2, <1>6, QuotaConstants
    <3>2. Accounted = Accounted + task[p].sign
      BY <1>6, <1>9, <2>5, <2>6, <3>1 DEF QuotaInv, CountsFit
    <3> QED  BY <1>2, <2>6, <3>2
  <2>8. other'.pc # "put" /\ \A q \in Requests : task'[q].pc \notin {"create", "put"}
    BY <1>1, <1>3, <1>4, RequestNames DEF QuotaInv, TypeOK
  <2> QED  BY <2>6, <2>7, <2>8 DEF CountsFit
<1> QED  BY <1>1, <1>7, <1>8, <1>9 DEF QuotaInv

LEMMA CancelInv ==
  ASSUME QuotaInv, NEW p \in Requests, Cancel(p)
  PROVE  QuotaInv'
<1>1. /\ task' = [task EXCEPT ![p] = Idle] /\ lock' = IF lock = p THEN "free" ELSE lock
      /\ UNCHANGED <<races, stored, quota, want, other, rec>> /\ races # {}
      /\ todo' \in {{}, todo}
  BY DEF Cancel
<1>2. Idle \in Task /\ Idle.pc = "idle"
  BY DEF Idle, Task
<1>3. /\ task' \in [Requests -> Task] /\ task'[p] = Idle
      /\ \A q \in Requests \ {p} : task'[q] = task[q]
      /\ LockFits'
  BY <1>1, <1>2, TaskType DEF QuotaInv
<1>4. TypeOK' /\ TasksFit' /\ TodoFits'
  BY <1>1, <1>2, <1>3 DEF QuotaInv, TypeOK, LockFits, TasksFit, TodoFits
<1>5. LimitsFit' /\ HardsFit'
  BY <1>1, <1>2, <1>3 DEF QuotaInv, LimitsFit, HardsFit
<1> QED  BY <1>1, <1>4, <1>5 DEF QuotaInv

-------------------------------------------------------------------------------
(* Recounts and edits.                                                     *)

\* When no change is pending the count is what the counter stands for.
LEMMA CleanCount ==
  ASSUME TypeOK, races = {}, CountIsClean({})
  PROVE  Count = Accounted
<1>1. Adding = {} /\ Removing = {}
  BY DEF CountIsClean, Dirty
<1> QED  BY <1>1, CountIsNat, FS_EmptySet DEF Accounted

LEMMA OtherCountsInv ==
  ASSUME QuotaInv, OtherCounts
  PROVE  QuotaInv'
<1>1. /\ lock = "free" /\ CountIsClean({}) /\ lock' = "other"
      /\ other' = [pc |-> "put", val |-> Count, hard |-> quota.hard]
      /\ UNCHANGED <<races, todo, stored, quota, want, task, rec>>
  BY DEF OtherCounts
<1>2. quota.hard \in Limits /\ quota.hard \in Nat /\ Count \in Nat
  BY QuotaConstants, CountIsNat DEF QuotaInv, TypeOK
<1>3. other' \in Recount /\ other'.pc = "put" /\ other'.val = Count /\ other'.hard = quota.hard
  BY <1>1, <1>2 DEF Recount
<1>4. LockFits'
  BY <1>1, <1>3, RequestNames DEF QuotaInv, TypeOK, LockFits
<1>5. TypeOK' /\ TasksFit' /\ TodoFits' /\ LimitsFit' /\ HardsFit'
  BY <1>1, <1>2, <1>3, <1>4 DEF QuotaInv, TypeOK, LockFits, TasksFit, TodoFits, LimitsFit, HardsFit
<1>6. ASSUME races = {} PROVE CountsFit'
  <2>1. Accounted' = Accounted /\ Count' = Count
    BY <1>1 DEF Accounted, Count, Adding, Removing
  <2>2. other'.val = Accounted
    BY <1>1, <1>3, <1>6, CleanCount DEF QuotaInv
  <2> QED  BY <1>1, <1>6, <2>1, <2>2 DEF QuotaInv, CountsFit
<1> QED  BY <1>1, <1>5, <1>6 DEF QuotaInv

LEMMA OtherPutsInv ==
  ASSUME QuotaInv, OtherPuts
  PROVE  QuotaInv'
<1>1. /\ other.pc = "put" /\ lock = "other" /\ Write(other.hard, other.val)
      /\ other' = Quiet /\ lock' = "free"
      /\ UNCHANGED <<races, todo, stored, want, task>>
  BY DEF OtherPuts, QuotaInv, TypeOK
<1>2. other.hard \in Limits /\ other.val \in Nat
  BY <1>1 DEF QuotaInv, TypeOK, HardsFit, Recount
<1>3. Quiet \in Recount /\ Quiet.pc = "idle"
  BY DEF Quiet, Recount
<1>4. /\ quota' \in [hard : Limits, used : Nat \cup {NoCount}] /\ rec' \in Reconciler
      /\ quota'.hard = other.hard /\ quota'.used = other.val
      /\ rec'.pc = rec.pc /\ rec'.val = rec.val /\ rec'.hard = rec.hard
      /\ rec'.fresh => rec.fresh /\ quota' = quota
  BY <1>1, <1>2, WriteType DEF QuotaInv
<1>5. LockFits'
  BY <1>1, <1>3, RequestNames DEF QuotaInv, TypeOK, LockFits
<1>6. TypeOK' /\ TasksFit' /\ TodoFits'
  BY <1>1, <1>3, <1>4, <1>5 DEF QuotaInv, TypeOK, LockFits, TasksFit, TodoFits
<1>7. LimitsFit' /\ HardsFit'
  BY <1>1, <1>3, <1>4 DEF QuotaInv, LimitsFit, HardsFit
<1>8. ASSUME races = {} PROVE CountsFit'
  <2>1. Accounted' = Accounted /\ Count' = Count
    BY <1>1 DEF Accounted, Count, Adding, Removing
  <2> QED  BY <1>1, <1>3, <1>4, <1>8, <2>1 DEF QuotaInv, CountsFit
<1> QED  BY <1>1, <1>6, <1>7, <1>8 DEF QuotaInv

LEMMA ReconcilerInv ==
  ASSUME QuotaInv, RecLists \/ RecCounts \/ RecPuts
  PROVE  QuotaInv'
<1>1. UNCHANGED <<races, todo, stored, want, lock, task, other>>
  BY DEF RecLists, RecCounts, RecPuts
<1>2. LockFits' /\ TasksFit' /\ TodoFits' /\ Accounted' = Accounted /\ Count' = Count
  BY <1>1 DEF QuotaInv, TypeOK, LockFits, TasksFit, TodoFits, Accounted, Count, Adding, Removing
<1>3. rec \in Reconciler /\ quota.hard \in Limits /\ quota.hard \in Nat /\ Count \in Nat
  BY QuotaConstants, CountIsNat DEF QuotaInv, TypeOK
<1>4. CASE RecLists
  <2>1. /\ rec' = [pc |-> "count", val |-> 0, hard |-> quota.hard, fresh |-> TRUE] /\ quota' = quota
    BY <1>4 DEF RecLists
  <2>2. rec' \in Reconciler /\ rec'.pc = "count" /\ rec'.hard = quota.hard
    BY <1>3, <2>1 DEF Reconciler
  <2>3. TypeOK' /\ LimitsFit' /\ HardsFit'
    BY <1>1, <1>2, <1>3, <2>1, <2>2 DEF QuotaInv, TypeOK, LockFits, LimitsFit, HardsFit
  <2>4. races = {} => CountsFit'
    BY <1>1, <1>2, <2>1, <2>2 DEF QuotaInv, CountsFit
  <2> QED  BY <1>1, <1>2, <2>3, <2>4 DEF QuotaInv
<1>5. CASE RecCounts
  <2>1. /\ rec' = [rec EXCEPT !.pc = "put", !.val = Count] /\ quota' = quota
        /\ rec.pc = "count" /\ CountIsClean({})
    BY <1>5 DEF RecCounts
  <2>2. /\ rec' \in Reconciler /\ rec'.pc = "put" /\ rec'.val = Count /\ rec'.hard = rec.hard
        /\ rec'.fresh = rec.fresh
    BY <1>3, <2>1 DEF Reconciler
  <2>3. TypeOK' /\ LimitsFit' /\ HardsFit'
    BY <1>1, <1>2, <2>1, <2>2 DEF QuotaInv, TypeOK, LockFits, LimitsFit, HardsFit
  <2>4. ASSUME races = {} PROVE CountsFit'
    <3>1. Count = Accounted
      BY <2>1, <2>4, CleanCount DEF QuotaInv
    <3> QED  BY <1>1, <1>2, <2>1, <2>2, <2>4, <3>1 DEF QuotaInv, CountsFit
  <2> QED  BY <1>1, <1>2, <2>3, <2>4 DEF QuotaInv
<1>6. CASE RecPuts
  <2>1. /\ rec.pc = "put" /\ rec' = [rec EXCEPT !.pc = "idle"]
        /\ quota' = IF rec.fresh /\ rec.val # quota.used
                    THEN [hard |-> rec.hard, used |-> rec.val] ELSE quota
    BY <1>6 DEF RecPuts
  <2>2. rec' \in Reconciler /\ rec'.pc = "idle"
    BY <1>3, <2>1 DEF Reconciler
  <2>3. rec.val \in Nat /\ (rec.fresh => rec.hard = quota.hard)
    BY <1>3, <2>1 DEF QuotaInv, LimitsFit, Reconciler
  <2>4. /\ quota' \in [hard : Limits, used : Nat \cup {NoCount}] /\ quota'.hard = quota.hard
        /\ quota'.used = quota.used \/ (rec.fresh /\ quota'.used = rec.val)
    <3>1. CASE rec.fresh /\ rec.val # quota.used
      BY <1>3, <2>1, <2>3, <3>1
    <3>2. CASE ~(rec.fresh /\ rec.val # quota.used)
      BY <2>1, <3>2 DEF QuotaInv, TypeOK
    <3> QED  BY <3>1, <3>2
  <2>5. TypeOK' /\ LimitsFit' /\ HardsFit'
    BY <1>1, <1>2, <2>2, <2>4 DEF QuotaInv, TypeOK, LockFits, LimitsFit, HardsFit
  <2>6. races = {} => CountsFit'
    BY <1>1, <1>2, <2>1, <2>2, <2>4 DEF QuotaInv, CountsFit
  <2> QED  BY <1>1, <1>2, <2>5, <2>6 DEF QuotaInv
<1> QED  BY <1>4, <1>5, <1>6

LEMMA EditInv ==
  ASSUME QuotaInv, NEW hard \in Limits, NEW used \in {NoCount, quota.used}, Edit(hard, used)
  PROVE  QuotaInv'
<1>1. /\ [hard |-> hard, used |-> used] # quota /\ Write(hard, used) /\ want' = hard
      /\ "edit" \in races \/ (other.pc # "put" /\ \A p \in Requests : task[p].pc # "put")
      /\ UNCHANGED <<races, todo, stored, lock, task, other>>
  BY DEF Edit
<1>2. used \in Nat \cup {NoCount}
  BY DEF QuotaInv, TypeOK
<1>3. /\ quota' \in [hard : Limits, used : Nat \cup {NoCount}] /\ rec' \in Reconciler
      /\ quota'.hard = hard /\ quota'.used = used
      /\ rec'.pc = rec.pc /\ rec'.val = rec.val /\ rec'.hard = rec.hard
      /\ rec'.fresh => rec.fresh /\ quota' = quota
  BY <1>1, <1>2, WriteType DEF QuotaInv
<1>4. ~rec'.fresh
  BY <1>1, <1>3 DEF Write
<1>5. LockFits' /\ TasksFit' /\ TodoFits' /\ Accounted' = Accounted /\ Count' = Count
  BY <1>1 DEF QuotaInv, TypeOK, LockFits, TasksFit, TodoFits, Accounted, Count, Adding, Removing
<1>6. TypeOK' /\ LimitsFit' /\ HardsFit'
  BY <1>1, <1>3, <1>4, <1>5 DEF QuotaInv, TypeOK, LockFits, LimitsFit, HardsFit
<1>7. races = {} => CountsFit'
  BY <1>1, <1>3, <1>4, <1>5 DEF QuotaInv, CountsFit
<1> QED  BY <1>1, <1>5, <1>6, <1>7 DEF QuotaInv

-------------------------------------------------------------------------------
(* The theorems.                                                           *)

LEMMA InitInv == Init => QuotaInv
<1> SUFFICES ASSUME Init PROVE QuotaInv
  OBVIOUS
<1>1. Idle \in Task /\ Idle.pc = "idle" /\ Quiet \in Recount /\ Quiet.pc = "idle"
  BY DEF Idle, Task, Quiet, Recount
<1>2. /\ rec \in Reconciler /\ rec.pc = "idle" /\ quota.hard = want /\ quota.used = NoCount
      /\ quota \in [hard : Limits, used : Nat \cup {NoCount}]
  BY DEF Init, Reconciler
<1>3. TypeOK
  BY <1>1, <1>2, RequestNames DEF Init, TypeOK
<1>4. \A p \in Requests : task[p].pc = "idle"
  BY <1>1 DEF Init
<1>5. other.pc = "idle"
  BY <1>1 DEF Init
<1>6. TodoFits
  BY DEF Init, TodoFits
<1> QED
  BY <1>2, <1>3, <1>4, <1>5, <1>6 DEF QuotaInv, TasksFit, LimitsFit, HardsFit, CountsFit

LEMMA NextInv == QuotaInv /\ [Next]_vars => QuotaInv'
<1> SUFFICES ASSUME QuotaInv, [Next]_vars PROVE QuotaInv'
  OBVIOUS
<1>0. ASSUME NEW p \in Pods, Admit(p) \/ Remove(p) \/ SweepRemoves(p) PROVE QuotaInv'
  BY <1>0, AdmitInv, RemoveInv, SweepRemovesInv
<1>6. CASE (\E pods \in SUBSET stored : SweepLists(pods)) \/ SweepRefused
  <2>1. {} \in SUBSET stored
    OBVIOUS
  <2>2. CASE SweepRefused
    BY <2>1, <2>2, SweepListsInv
  <2> QED  BY <1>6, <2>2, SweepListsInv
<1>1. ASSUME NEW p \in Requests, Finish(p) \/ Cancel(p) PROVE QuotaInv'
  BY <1>1, StoreCreateInv, LockRemovedInv, ReadInv, PutInv, CancelInv DEF Finish
<1>2. CASE OtherCounts \/ OtherPuts
  BY <1>2, OtherCountsInv, OtherPutsInv
<1>3. CASE RecLists \/ RecCounts \/ RecPuts
  BY <1>3, ReconcilerInv
<1>4. CASE \E hard \in Limits, used \in {NoCount, quota.used} : Edit(hard, used)
  BY <1>4, EditInv
<1>5. CASE UNCHANGED vars
  <2>1. Accounted' = Accounted /\ Count' = Count
    BY <1>5 DEF vars, Accounted, Count, Adding, Removing
  <2>2. TypeOK' /\ TasksFit' /\ TodoFits' /\ LimitsFit' /\ HardsFit'
    BY <1>5 DEF vars, QuotaInv, TypeOK, TasksFit, TodoFits, LimitsFit, HardsFit
  <2>3. races' = {} => CountsFit'
    BY <1>5, <2>1 DEF vars, QuotaInv, CountsFit
  <2> QED  BY <2>2, <2>3 DEF QuotaInv
<1> QED  BY <1>0, <1>1, <1>2, <1>3, <1>4, <1>5, <1>6 DEF Next

\* The counter of a quota, the pending puts and the reconciler's copy satisfy
\* the invariant above in every reachable state, whatever the races.
THEOREM QuotaInvariant == Spec => []QuotaInv
  BY InitInv, NextInv, PTL DEF Spec

\* Without races status.used never drifts: it is what is stored, but for the
\* changes whose adjustment is on its way.
THEOREM CounterIsExact == Spec => []UsedIsExact
<1>1. QuotaInv => UsedIsExact
  BY DEF QuotaInv, CountsFit, Accounted, UsedIsExact, InStep
<1> QED  BY <1>1, QuotaInvariant, PTL

\* No status write brings an old spec.hard back, unless the quota is edited
\* between the get and the put of a status write.
THEOREM EditsAreKept == Spec => []EditIsKept
<1>1. QuotaInv => EditIsKept
  BY DEF QuotaInv, LimitsFit, EditIsKept
<1> QED  BY <1>1, QuotaInvariant, PTL

\* Without races a create never takes the namespace past the limit it was
\* admitted under: only its own store write adds a pod while it has the lock.
THEOREM CreatesStayWithinLimit == Spec => NoOverAdmission
<1>1. QuotaInv /\ [Next]_vars => [races = {} =>
        \A p \in Pods : p \in stored' \ stored => Cardinality(stored') <= task[p].hard]_vars
  <2> SUFFICES ASSUME QuotaInv, Next, races = {}, NEW p \in Pods, p \in stored' \ stored
               PROVE  Cardinality(stored') <= task[p].hard
    OBVIOUS
  <2>1. StoreCreate(p)
    BY DEF Next, Finish, Admit, StoreCreate, Remove, SweepLists, SweepRemoves, SweepRefused, LockRemoved, Read, Put, Cancel, OtherCounts,
       OtherPuts, RecLists, RecCounts, RecPuts, Edit
  <2>2. Cardinality(stored') = Count + 1
    BY <2>1, CountIsNat, FS_AddElement DEF StoreCreate, Count, QuotaInv
  <2>3. Count < task[p].hard /\ task[p].hard \in Nat /\ Count \in Nat
    BY <2>1, CountIsNat DEF StoreCreate, QuotaInv, CountsFit, TypeOK, Task, Requests
  <2> QED  BY <2>2, <2>3
<1> QED  BY <1>1, QuotaInvariant, PTL DEF Spec, NoOverAdmission

===============================================================================
