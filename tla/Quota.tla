-------------------------------- MODULE Quota --------------------------------
(***************************************************************************)
(* The pod counter of a ResourceQuota (quota.rs) in one namespace.         *)
(* status.used is the baseline of admission and is adjusted by one at      *)
(* every creation and removal of a pod, under the lock of the namespace    *)
(* (QuotaAdmissionLocks); a mutation of another kind of object recounts it *)
(* under the lock, the periodic reconciler (lib.rs) without.  A pod is     *)
(* removed from the store before the lock is taken.  A DeleteCollection    *)
(* lists the pods once and then takes them one by one, whatever has become *)
(* of them since.                                                          *)
(*                                                                         *)
(* The list of the quotas and the get of the one that is written are one   *)
(* step: the write overwrites what changes between them either way.        *)
(* Requested amounts (requests.cpu, ...) go the same way as the count.     *)
(***************************************************************************)
EXTENDS Integers, FiniteSets

CONSTANTS
  Pods,         \* at most one request per pod is in flight, and one DeleteCollection
  Limits,       \* values of spec.hard
  NoCount,      \* status.used has no entry
  RaceSets      \* the sets of races considered: see below

(*   "recount"  the pods are counted while a pod is already stored or      *)
(*              removed and the counter not yet adjusted for it;           *)
(*   "cancel"   a handler is dropped (client gone, or a crash) after its   *)
(*              store write;                                               *)
(*   "edit"     the quota is edited between the get and the put of a       *)
(*              status write;                                              *)
(*   "collection"  another request removes a pod that a DeleteCollection   *)
(*              has listed and not come to yet.                            *)
AllRaces == {"recount", "cancel", "edit", "collection"}

Sweep == "sweep"                  \* the DeleteCollection
Requests == Pods \cup {Sweep}

ASSUME QuotaConstants ==
  /\ IsFiniteSet(Pods) /\ Pods \cap {"free", "other", Sweep} = {}
  /\ Limits \subseteq Nat \ {0} /\ NoCount \notin Nat
  /\ RaceSets \subseteq SUBSET AllRaces

VARIABLES
  races,        \* the races of this behaviour
  todo,         \* pods the DeleteCollection has listed and not come to yet
  stored,       \* pods in the store
  quota,        \* the ResourceQuota: spec.hard and status.used
  want,         \* the spec.hard of the last edit that was acknowledged
  lock,         \* holder of the namespace's lock: a request, "other", "free"
  task,         \* the request in flight for a pod, the DeleteCollection's current one
  other,        \* a recount after a mutation of another kind of object
  rec           \* the periodic reconciler

vars == <<races, todo, stored, quota, want, lock, task, other, rec>>

Count == Cardinality(stored)
Idle == [pc |-> "idle", sign |-> -1, val |-> 0, hard |-> 0]
Quiet == [pc |-> "idle", val |-> 0, hard |-> 0]

\* The requests that the counter does not account for yet.
Adding == {p \in Requests : task[p].sign > 0 /\ task[p].pc \in {"read", "put"}}
Removing == {p \in Requests : task[p].sign < 0 /\ task[p].pc \in {"removed", "read", "put"}}
Dirty == Adding \cup Removing

\* A full count now sees exactly the pods the counter stands for, but for `own`.
CountIsClean(own) == "recount" \in races \/ Dirty \subseteq own

\* A put that changes the quota makes the reconciler's conditional put fail; one
\* that does not change it is no write to the store.
Write(hard, used) ==
  /\ quota' = [hard |-> hard, used |-> used]
  /\ rec' = [rec EXCEPT !.fresh = @ /\ quota' = quota]

\* No request runs, or none that a missing entry could confuse.
Alone == "recount" \in races \/ \A p \in Requests : task[p].pc = "idle"
Bootstrapped == quota.used # NoCount \/ Alone

-------------------------------------------------------------------------------
(* Requests for pods.                                                      *)

\* A namespace that is full takes one more.
Bug_AtTheLimit(p) ==
  /\ task[p].pc = "idle" /\ p \notin stored /\ lock = "free" /\ Bootstrapped
  /\ (IF quota.used = NoCount THEN Count ELSE quota.used) <= quota.hard
  /\ lock' = p
  /\ task' = [task EXCEPT ![p] = [Idle EXCEPT !.pc = "create", !.sign = 1, !.hard = quota.hard]]
  /\ UNCHANGED <<races, todo, stored, quota, want, other, rec>>

\* create_pod up to check_resource_quota: the counter, or a count if there is
\* none (pod_count_baseline), against spec.hard.  A rejected create leaves
\* nothing behind.
Admit(p) ==
  /\ task[p].pc = "idle" /\ p \notin stored /\ lock = "free" /\ Bootstrapped
  /\ (IF quota.used = NoCount THEN Count ELSE quota.used) < quota.hard
  /\ lock' = p
  /\ task' = [task EXCEPT ![p] = [Idle EXCEPT !.pc = "create", !.sign = 1, !.hard = quota.hard]]
  /\ UNCHANGED <<races, todo, stored, quota, want, other, rec>>

\* create_if_namespace_active.
StoreCreate(p) ==
  /\ task[p].pc = "create"
  /\ stored' = stored \cup {p}
  /\ task' = [task EXCEPT ![p].pc = "read"]
  /\ UNCHANGED <<races, todo, quota, want, lock, other, rec>>

\* A hard delete (delete_pod, evict_pod, the drain of the last finalizer): outside
\* the lock.  The handler goes on only if the delete finds the pod.
Remove(p) ==
  /\ task[p].pc = "idle" /\ p \in stored /\ Bootstrapped
  /\ "collection" \in races \/ p \notin todo
  /\ stored' = stored \ {p}
  /\ task' = [task EXCEPT ![p] = [Idle EXCEPT !.pc = "removed"]]
  /\ UNCHANGED <<races, todo, quota, want, lock, other, rec>>

\* delete_collection_pods: the pods that its list shows ready for a hard delete.
SweepLists(pods) ==
  /\ task[Sweep].pc = "idle" /\ todo = {} /\ pods # {}
  /\ todo' = pods
  /\ UNCHANGED <<races, stored, quota, want, lock, task, other, rec>>

\* One of them: the delete's result is not looked at.
SweepRemoves(p) ==
  /\ task[Sweep].pc = "idle" /\ p \in todo /\ Bootstrapped
  /\ todo' = todo \ {p}
  /\ stored' = stored \ {p}
  /\ task' = [task EXCEPT ![Sweep] = [Idle EXCEPT !.pc = "removed"]]
  /\ UNCHANGED <<races, quota, want, lock, other, rec>>

\* A validating webhook refuses one of them: the rest are left alone.
SweepRefused ==
  /\ task[Sweep].pc = "idle" /\ todo # {}
  /\ todo' = {}
  /\ UNCHANGED <<races, stored, quota, want, lock, task, other, rec>>

LockRemoved(p) ==
  /\ task[p].pc = "removed" /\ lock = "free"
  /\ lock' = p
  /\ task' = [task EXCEPT ![p].pc = "read"]
  /\ UNCHANGED <<races, todo, stored, quota, want, other, rec>>

\* The count that fills in a missing entry is adjusted once more.
Bug_AdjustCount(p) ==
  LET old == IF quota.used = NoCount THEN Count ELSE quota.used
  IN IF task[p].sign > 0 THEN old + 1 ELSE IF old = 0 THEN 0 ELSE old - 1

\* pod_count_new_value: one more or one less; a missing entry is counted, and
\* the count has the change already.
NewValue(p) ==
  IF quota.used = NoCount THEN Count
  ELSE IF task[p].sign > 0 THEN quota.used + 1
  ELSE IF quota.used = 0 THEN 0 ELSE quota.used - 1

\* adjust_pod_quota_usage up to the get of write_quota_used_updates.
Read(p) ==
  /\ task[p].pc = "read"
  /\ quota.used = NoCount => CountIsClean({p})
  /\ task' = [task EXCEPT ![p].pc = "put", ![p].val = NewValue(p), ![p].hard = quota.hard]
  /\ UNCHANGED <<races, todo, stored, quota, want, lock, other, rec>>

\* The unconditional put of write_quota_used_updates; the lock is dropped.
Put(p) ==
  /\ task[p].pc = "put"
  /\ Write(task[p].hard, task[p].val)
  /\ task' = [task EXCEPT ![p] = Idle]
  /\ lock' = "free"
  /\ UNCHANGED <<races, todo, stored, want, other>>

\* The handler is dropped: the lock with it, the adjustment is never made, and a
\* DeleteCollection goes no further.
Cancel(p) ==
  /\ "cancel" \in races /\ task[p].pc \in {"removed", "read"}
  /\ task' = [task EXCEPT ![p] = Idle]
  /\ lock' = IF lock = p THEN "free" ELSE lock
  /\ todo' = IF p = Sweep THEN {} ELSE todo
  /\ UNCHANGED <<races, stored, quota, want, other, rec>>

-------------------------------------------------------------------------------
(* Recounts.                                                               *)

\* update_quota_status after a mutation of another kind of object: count and
\* get, then put without a precondition, under the lock.
OtherCounts ==
  /\ lock = "free" /\ CountIsClean({})
  /\ lock' = "other"
  /\ other' = [pc |-> "put", val |-> Count, hard |-> quota.hard]
  /\ UNCHANGED <<races, todo, stored, quota, want, task, rec>>

OtherPuts ==
  /\ other.pc = "put"
  /\ Write(other.hard, other.val)
  /\ other' = Quiet
  /\ lock' = "free"
  /\ UNCHANGED <<races, todo, stored, want, task>>

\* reconcile_quota_status: list, count, then a put that any write since the
\* list makes fail.
RecLists ==
  /\ rec.pc = "idle"
  /\ rec' = [pc |-> "count", val |-> 0, hard |-> quota.hard, fresh |-> TRUE]
  /\ UNCHANGED <<races, todo, stored, quota, want, lock, task, other>>

RecCounts ==
  /\ rec.pc = "count" /\ CountIsClean({})
  /\ rec' = [rec EXCEPT !.pc = "put", !.val = Count]
  /\ UNCHANGED <<races, todo, stored, quota, want, lock, task, other>>

\* The put has no precondition.
Bug_NoPrecondition ==
  /\ rec.pc = "put"
  /\ quota' = IF rec.val # quota.used THEN [hard |-> rec.hard, used |-> rec.val] ELSE quota
  /\ rec' = [rec EXCEPT !.pc = "idle"]
  /\ UNCHANGED <<races, todo, stored, want, lock, task, other>>

\* Only an entry that is missing is written.
Bug_FillInOnly ==
  /\ rec.pc = "put"
  /\ quota' = IF rec.fresh /\ quota.used = NoCount
              THEN [quota EXCEPT !.used = rec.val] ELSE quota
  /\ rec' = [rec EXCEPT !.pc = "idle"]
  /\ UNCHANGED <<races, todo, stored, want, lock, task, other>>

RecPuts ==
  /\ rec.pc = "put"
  /\ quota' = IF rec.fresh /\ rec.val # quota.used
              THEN [hard |-> rec.hard, used |-> rec.val] ELSE quota
  /\ rec' = [rec EXCEPT !.pc = "idle"]
  /\ UNCHANGED <<races, todo, stored, want, lock, task, other>>

\* A client edits spec.hard, or replaces the quota by one without a status.
Edit(hard, used) ==
  /\ [hard |-> hard, used |-> used] # quota
  /\ used = NoCount => Alone
  /\ "edit" \in races \/ (other.pc # "put" /\ \A p \in Requests : task[p].pc # "put")
  /\ Write(hard, used)
  /\ want' = hard
  /\ UNCHANGED <<races, todo, stored, lock, task, other>>

-------------------------------------------------------------------------------
Init ==
  /\ races \in RaceSets
  /\ stored = {} /\ todo = {} /\ lock = "free"
  /\ want \in Limits /\ quota = [hard |-> want, used |-> NoCount]
  /\ task = [p \in Requests |-> Idle] /\ other = Quiet
  /\ rec = [pc |-> "idle", val |-> 0, hard |-> 0, fresh |-> FALSE]

Finish(p) == StoreCreate(p) \/ LockRemoved(p) \/ Read(p) \/ Put(p)

Next ==
  \/ \E p \in Pods : Admit(p) \/ Remove(p) \/ SweepRemoves(p)
  \/ (\E pods \in SUBSET stored : SweepLists(pods)) \/ SweepRefused
  \/ \E p \in Requests : Finish(p) \/ Cancel(p)
  \/ OtherCounts \/ OtherPuts
  \/ RecLists \/ RecCounts \/ RecPuts
  \/ \E hard \in Limits, used \in {NoCount, quota.used} : Edit(hard, used)

Spec == Init /\ [][Next]_vars

\* Handlers that run go on, and the reconciler's timer fires.
FairSpec ==
  /\ Spec
  /\ \A p \in Requests : SF_vars(LockRemoved(p)) /\ WF_vars(Finish(p))
  /\ WF_vars(OtherPuts) /\ WF_vars(RecLists) /\ WF_vars(RecCounts) /\ WF_vars(RecPuts)

-------------------------------------------------------------------------------
Task == [pc : {"idle", "create", "removed", "read", "put"}, sign : {-1, 1}, val : Nat, hard : Nat]
Recount == [pc : {"idle", "put"}, val : Nat, hard : Nat]
Reconciler == [pc : {"idle", "count", "put"}, val : Nat, hard : Nat, fresh : BOOLEAN]

(* Type invariant; the holder of the lock has something left to do.        *)
TypeOK ==
  /\ races \in RaceSets /\ stored \subseteq Pods /\ todo \subseteq Pods /\ want \in Limits
  /\ quota \in [hard : Limits, used : Nat \cup {NoCount}]
  /\ task \in [Requests -> Task] /\ other \in Recount /\ rec \in Reconciler
  /\ lock \in Requests \cup {"free", "other"}
  /\ (lock = "other") = (other.pc = "put")
  /\ \A p \in Requests : (lock = p) = (task[p].pc \in {"create", "read", "put"})

(* status.used plus the adjustments that are on their way is exactly what  *)
(* the store holds: no creation, removal, recount or edit makes the        *)
(* counter drift, as long as no count runs beside a pod that is already    *)
(* stored or removed, no handler is dropped and no pod that a              *)
(* DeleteCollection has listed is removed by another request               *)
(* (pod_count_baseline says "kept exactly in sync").  The lock and its     *)
(* holder agree (TypeOK).                                                  *)
InStep == quota.used # NoCount =>
            quota.used = Count + Cardinality(Removing) - Cardinality(Adding)
UsedIsExact == TypeOK /\ (races = {} => InStep)

(* A create that is admitted never takes the namespace past the limit it   *)
(* was admitted under (check_resource_quota under QuotaAdmissionLocks).    *)
NoOverAdmission ==
  [][races = {} => \A p \in Pods : p \in stored' \ stored => Cardinality(stored') <= task[p].hard]_vars

(* What a client wrote into spec.hard stays until the next edit: the       *)
(* status writes, which put the whole object, do not bring an old one back *)
(* (the reconciler's put is conditional on the revision it listed).        *)
EditIsKept == "edit" \notin races => quota.hard = want

(* Drift is healed: whatever counts ran beside requests, whichever         *)
(* handlers were dropped and whatever was subtracted twice, once requests  *)
(* and edits cease the reconciler brings the counter back to what is       *)
(* stored (reconcile_quota_status).                                        *)
DriftHeals ==
  (\E h \in Limits : <>[](/\ \A p \in Requests : task[p].pc = "idle"
                           /\ quota.hard = h /\ quota.used # NoCount))
    => <>[](quota.used = Count)

(* record_pod_removed is called "exactly once, strictly after the store    *)
(* delete succeeds, from every pod hard-delete call site (... ,            *)
(* DeleteCollection, eviction)", so the counter stays in step with the     *)
(* store.  A pod that a DeleteCollection has listed and another DELETE has *)
(* removed meanwhile is subtracted twice: TLC refutes this.                *)
RemovedOnce == InStep

===============================================================================
