------------------------------ MODULE Scheduler ------------------------------
(***************************************************************************)
(* The scheduler (crates/scheduler): the tally of what runs where          *)
(* (NodeTally), the scheduling task of each pod, preemption with its       *)
(* deferred bind, the pod watch that feeds both, and the periodic resync.  *)
(* Every acquisition of the tally lock and every call of the API server is *)
(* one step; the tasks, the watch, the resync, the users and the kubelets  *)
(* run in between.  Resource requests are one number: all dimensions are   *)
(* checked alike.  A terminal phase is applied like a removal and is not   *)
(* told apart from it.                                                     *)
(***************************************************************************)
EXTENDS Naturals, SequencesExt

CONSTANTS
  Pods, Nodes, NoNode,
  Prio,         \* priority of a pod
  Size,         \* what a pod requests
  Cap,          \* what a node has
  Start,        \* the node a pod has when the scheduler starts, or NoNode
  Deletable,    \* the pods that users delete
  Vip,          \* pods that must get a node, whatever else is there
  Races,        \* which of the races below occur
  MaxTries,     \* MAX_PREEMPTION_ATTEMPTS
  MaxFaults,    \* bound: API calls of the scheduler that fail
  MaxQueue      \* bound: length of the watch backlog a status patch may add to

(* Races says which of these occur:                                        *)
(*   "early"      the watch reports a victim's deletion before the task    *)
(*                that counts on it has done its own bookkeeping for it;   *)
(*   "victims"    a pod that is being deleted already, or whose bind is    *)
(*                still on its way, is chosen as a victim;                 *)
(*   "stale"      a report that a pod is pending is handled after the      *)
(*                answer to its bind;                                      *)
(*   "lost"       a bind is stored and its answer is lost;                 *)
(*   "reconnect"  the watch reconnects while a pod is being placed.        *)
AllRaces == {"early", "victims", "stale", "lost", "reconnect"}

\* What the pods of S request together: the number of the units they ask for.
Used(S) == Cardinality(UNION {{p} \X (1..Size[p]) : p \in S})

ASSUME SchedulerConstants ==
  /\ IsFiniteSet(Pods) /\ NoNode \notin Nodes
  /\ Prio \in [Pods -> Nat] /\ Size \in [Pods -> Nat] /\ Cap \in [Nodes -> Nat]
  /\ Start \in [Pods -> Nodes \cup {NoNode}]
  /\ \A n \in Nodes : Used({p \in Pods : Start[p] = n}) <= Cap[n]
  /\ Deletable \subseteq Pods /\ Vip \subseteq Pods \ Deletable
  /\ Races \subseteq AllRaces
  /\ MaxTries \in Nat \ {0} /\ MaxFaults \in Nat /\ MaxQueue \in Nat

VARIABLES
  api,          \* the stored pods: st and spec.nodeName
  runs,         \* where the containers of a pod run
  queue,        \* pod watch events the scheduler has not handled
  listed,       \* the pod of the resync's list that is handled next
  tally,        \* NodeTally.pods: the node a pod occupies or is reserved on
  claimed,      \* NodeTally.reserved_victims
  task,         \* the scheduling task of a pod
  faults,       \* API calls that have failed
  spared        \* history: nodes that keep a pod whose room is given away

vars == <<api, runs, queue, listed, tally, claimed, task, faults, spared>>

NoTask == [pc |-> "idle", node |-> NoNode, victims |-> {}, left |-> {}, cur |-> {},
           tries |-> 0]
Live(p) == api[p].st \in {"live", "leaving"}
Marked(p) == api[p].st \in {"leaving", "gone"}          \* deletionTimestamp
Event(p, kind, node) == [pod |-> p, kind |-> kind, node |-> node]

\* in_flight: a pod is in it exactly while it has a task or a waiting plan.
InFlight(p) == task[p].pc # "idle"
Evicting(q) == task[q].pc \in {"nominate", "evict", "forget", "register"}

Fits(p, n, others) == Used(others) + Size[p] <= Cap[n]
OnNode(n) == {p \in Pods : tally[p] = n}                 \* usage_by_node
PodsOn(n) == OnNode(n) \ claimed                         \* pods_on
Running(n) == {p \in Pods : runs[p] = n}
At(q, pc) == [task EXCEPT ![q].pc = pc]

-------------------------------------------------------------------------------
(* Users and kubelets.                                                     *)

CreatePod(p) ==
  /\ api[p].st = "absent"
  /\ api' = [api EXCEPT ![p].st = "live"]
  /\ queue' = Append(queue, Event(p, "live", NoNode))
  /\ UNCHANGED <<runs, listed, tally, claimed, task, faults, spared>>

\* DELETE of the API server (delete_pod): the first one only marks the pod,
\* one for a marked pod removes the object whatever its containers do.
DeleteStored(p) ==
  IF ~Live(p) THEN UNCHANGED <<api, queue>>
  ELSE IF Marked(p)
  THEN /\ api' = [api EXCEPT ![p].st = "gone"]
       /\ queue' = Append(queue, Event(p, "gone", NoNode))
  ELSE /\ api' = [api EXCEPT ![p].st = "leaving"]
       /\ queue' = Append(queue, Event(p, "leaving", api[p].node))

UserDelete(p) ==
  /\ p \in Deletable /\ api[p].st = "live"
  /\ "victims" \in Races \/ \A q \in Pods : p \notin task[q].victims
  /\ DeleteStored(p)
  /\ UNCHANGED <<runs, listed, tally, claimed, task, faults, spared>>

\* The kubelet has stopped a marked pod and deletes it for good; an unbound one
\* is removed by the pod garbage collector.
EndPod(p) ==
  /\ Marked(p) /\ (Live(p) \/ runs[p] # NoNode)
  /\ runs' = [runs EXCEPT ![p] = NoNode]
  /\ DeleteStored(p)
  /\ UNCHANGED <<listed, tally, claimed, task, faults, spared>>

-------------------------------------------------------------------------------
(* The pod watch and the resync (handle_pod_event).                        *)

Unscheduled(p) == Live(p) /\ api[p].node = NoNode

\* A pod without a node starts a task unless it has one (should_schedule).
Started(p) == IF InFlight(p) THEN task
              ELSE [task EXCEPT ![p] = [NoTask EXCEPT !.pc = "pick"]]

\* The plans that are ready are collected before v is taken off them.
Bug_CollectFirst(v) ==
  [q \in Pods |->
     IF task[q].pc # "wait" THEN task[q]
     ELSE [task[q] EXCEPT !.left = @ \ {v},
                          !.pc = IF task[q].left = {} THEN "recheck" ELSE "wait"]]

\* PreemptionWaiters::resolve: the plans for which v was the last victim.
Resolved(v) ==
  [q \in Pods |->
     IF task[q].pc # "wait" THEN task[q]
     ELSE [task[q] EXCEPT !.left = @ \ {v},
                          !.pc = IF task[q].left \subseteq {v} THEN "recheck" ELSE "wait"]]

\* Whether the watch delivers event e now.
Timely(e) ==
  \/ "early" \in Races
  \/ \A q \in Pods :
       /\ e.kind = "leaving" => e.pod \notin task[q].cur
       /\ e.kind = "gone" => ~((Evicting(q) \/ task[q].pc = "verify") /\ e.pod \in task[q].victims)

\* apply_event, then the deferred binds it releases and the pod's own task.
Deliver ==
  /\ queue # <<>> /\ Timely(Head(queue))
  /\ queue' = Tail(queue)
  /\ LET e == Head(queue) IN
     IF e.kind = "gone"
     THEN tally' = [tally EXCEPT ![e.pod] = NoNode] /\ task' = Resolved(e.pod)
     ELSE IF e.node # NoNode
     THEN tally' = [tally EXCEPT ![e.pod] = e.node] /\ task' = task
     ELSE tally' = tally /\ task' = Started(e.pod)
  /\ UNCHANGED <<api, runs, listed, claimed, faults, spared>>

\* resync_once: list the unscheduled pods, then hand over those without a task;
\* what happens to one pod of the list does not depend on the others.
ResyncList(p) ==
  /\ listed = {} /\ Unscheduled(p) /\ ~InFlight(p)
  /\ listed' = {p}
  /\ UNCHANGED <<api, runs, queue, tally, claimed, task, faults, spared>>

ResyncHandle(p) ==
  /\ p \in listed
  /\ listed' = listed \ {p}
  /\ task' = Started(p)
  /\ UNCHANGED <<api, runs, queue, tally, claimed, faults, spared>>

\* The watch reconnects: the relist replaces the tally in one step, plans that
\* wait are abandoned and their pods released, unbound pods are handled again.
Reconnect ==
  /\ \A q \in Pods : task[q].pc \in {"idle", "pick", "wait"} \/ "reconnect" \in Races
  /\ faults < MaxFaults /\ faults' = faults + 1
  /\ tally' = [p \in Pods |-> IF Live(p) THEN api[p].node ELSE NoNode]
  /\ claimed' = {}
  /\ task' = [q \in Pods |-> IF task[q].pc = "wait" THEN NoTask ELSE task[q]]
  /\ queue' = SetToSeq({Event(p, "live", NoNode) : p \in {q \in Pods : Unscheduled(q)}})
  /\ UNCHANGED <<api, runs, listed, spared>>

-------------------------------------------------------------------------------
(* The scheduling task of a pod.                                           *)

\* pick_node: the fit check and the reservation are one step.  Which of the
\* nodes that fit scores best is left open.
PickNode(p, n) ==
  /\ task[p].pc = "pick" /\ Fits(p, n, OnNode(n))
  /\ tally' = [tally EXCEPT ![p] = n]
  /\ task' = [task EXCEPT ![p].pc = "bind", ![p].node = n]
  /\ UNCHANGED <<api, runs, queue, listed, claimed, faults, spared>>

PickNothing(p) ==
  /\ task[p].pc = "pick" /\ \A n \in Nodes : ~Fits(p, n, OnNode(n))
  /\ task' = At(p, "plan")
  /\ UNCHANGED <<api, runs, queue, listed, tally, claimed, faults, spared>>

\* select_preemption_victims: pods of lower priority that request something,
\* the lowest first, until what stays leaves enough room.  The order of equal
\* priorities is that of a hash set.
VictimSets(p, n) ==
  LET here == PodsOn(n)
      candidates == {v \in here : Prio[v] < Prio[p] /\ Size[v] > 0}
  IN {V \in SUBSET candidates \ {{}} :
        /\ \A v \in V, w \in candidates \ V : Prio[v] <= Prio[w]
        /\ Fits(p, n, here \ V)
        /\ \E v \in V : /\ \A w \in V : Prio[w] <= Prio[v]
                        /\ ~Fits(p, n, here \ (V \ {v}))}

Preemptions(p) ==
  {m \in UNION {{n} \X VictimSets(p, n) : n \in Nodes} :
     "victims" \in Races \/ \A v \in m[2] : ~Marked(v) /\ api[v].node # NoNode}

\* The next attempt of preempt_and_pick_node, or no more.
Retry(p) == IF task[p].tries + 1 < MaxTries
            THEN [task EXCEPT ![p].pc = "plan", ![p].tries = @ + 1]
            ELSE [task EXCEPT ![p] = NoTask]

\* Whether some order of the pods gives m's node no fewer victims than k.
CostsAtLeast(p, m, k) == \E w \in Preemptions(p) : w[1] = m[1] /\ k <= Cardinality(w[2])

\* find_preemption_candidate: one set of victims for each node, in the order its
\* pods happen to have, and of these the smallest.
Plan(p) ==
  /\ task[p].pc = "plan"
  /\ \E plan \in Preemptions(p) :
       /\ \A m \in Preemptions(p) : CostsAtLeast(p, m, Cardinality(plan[2]))
       /\ task' = [task EXCEPT ![p].pc = "verify", ![p].node = plan[1],
                               ![p].victims = plan[2], ![p].left = plan[2]]
  /\ UNCHANGED <<api, runs, queue, listed, tally, claimed, faults, spared>>

NoPlan(p) ==
  /\ task[p].pc = "plan" /\ Preemptions(p) = {}
  /\ task' = Retry(p)
  /\ UNCHANGED <<api, runs, queue, listed, tally, claimed, faults, spared>>

\* verify_and_reserve_preemption: re-check, reserve and claim in one step.
Verify(p) ==
  /\ task[p].pc = "verify"
  /\ LET t == task[p] IN
     IF Fits(p, t.node, PodsOn(t.node) \ t.victims)
     THEN /\ tally' = [tally EXCEPT ![p] = t.node]
          /\ claimed' = claimed \cup t.victims
          /\ task' = At(p, "nominate")
     ELSE task' = Retry(p) /\ UNCHANGED <<tally, claimed>>
  /\ UNCHANGED <<api, runs, queue, listed, faults, spared>>

\* The best-effort nominatedNodeName patch, which the watch reports back.
Nominate(p) ==
  /\ task[p].pc = "nominate"
  /\ task' = At(p, "evict")
  /\ queue' = IF Unscheduled(p) /\ Len(queue) < MaxQueue
              THEN Append(queue, Event(p, "live", NoNode)) ELSE queue
  /\ UNCHANGED <<api, runs, listed, tally, claimed, faults, spared>>

\* evict_victims: the DELETE of one victim, then its tally entry is dropped.
EvictVictim(p, v) ==
  /\ task[p].pc = "evict" /\ v \in task[p].left
  /\ DeleteStored(v)
  /\ task' = [task EXCEPT ![p].pc = "forget", ![p].left = @ \ {v}, ![p].cur = {v}]
  /\ UNCHANGED <<runs, listed, tally, claimed, faults, spared>>

ForgetVictim(p) ==
  /\ task[p].pc = "forget"
  /\ tally' = [v \in Pods |-> IF v \in task[p].cur THEN NoNode ELSE tally[v]]
  /\ task' = [task EXCEPT ![p].cur = {},
                          ![p].pc = IF task[p].left = {} THEN "register" ELSE "evict"]
  /\ UNCHANGED <<api, runs, queue, listed, claimed, faults, spared>>

\* The claim on the victims outlives the failed attempt.
Bug_KeepClaim(p, v) ==
  /\ task[p].pc = "evict" /\ v \in task[p].left
  /\ faults < MaxFaults /\ faults' = faults + 1
  /\ tally' = [tally EXCEPT ![p] = NoNode]
  /\ claimed' = claimed
  /\ task' = Retry(p)
  /\ UNCHANGED <<api, runs, queue, listed, spared>>

\* What the tally holds on p's node once p and its claims are taken back.
Kept(p) == {q \in OnNode(task[p].node) \ {p} : ~Marked(q) /\ q \notin claimed \ task[p].victims}

\* The DELETE fails: the reservation and the claims are undone.  Another plan
\* may have counted the room of the claimed pods as free (pods_on) and keeps it.
EvictFails(p, v) ==
  /\ task[p].pc = "evict" /\ v \in task[p].left
  /\ faults < MaxFaults /\ faults' = faults + 1
  /\ tally' = [tally EXCEPT ![p] = NoNode]
  /\ claimed' = claimed \ task[p].victims
  /\ task' = Retry(p)
  /\ spared' = spared \cup {n \in Nodes : n = task[p].node /\ Used(Kept(p)) > Cap[n]}
  /\ UNCHANGED <<api, runs, queue, listed>>

\* Bound at once: a deletion that was accepted is taken for a pod that is gone.
Bug_BindAtOnce(p) ==
  /\ task[p].pc = "register"
  /\ claimed' = claimed \ task[p].victims
  /\ task' = At(p, "bind")
  /\ UNCHANGED <<api, runs, queue, listed, tally, faults, spared>>

\* release_victims and register_preemption_waiter, under one lock.
Register(p) ==
  /\ task[p].pc = "register"
  /\ claimed' = claimed \ task[p].victims
  /\ task' = [task EXCEPT ![p].pc = "wait", ![p].left = task[p].victims]
  /\ UNCHANGED <<api, runs, queue, listed, tally, faults, spared>>

\* attempt_deferred_bind: the victims are gone, does the pod still fit?
Recheck(p) ==
  /\ task[p].pc = "recheck"
  /\ IF Fits(p, task[p].node, PodsOn(task[p].node) \ {p})
     THEN task' = At(p, "bind") /\ tally' = tally
     ELSE task' = [task EXCEPT ![p] = NoTask] /\ tally' = [tally EXCEPT ![p] = NoNode]
  /\ UNCHANGED <<api, runs, queue, listed, claimed, faults, spared>>

\* The binding handler of the API server: a pod is bound once.
StoreBinding(p, n) ==
  /\ api' = [api EXCEPT ![p].node = n]
  /\ runs' = [runs EXCEPT ![p] = n]
  /\ queue' = Append(queue, Event(p, "live", n))

\* bind_pod: pc "bound" stands for the answers that leave the reservation in
\* place (stored, or already assigned), "failed" for all others.
Bind(p) ==
  /\ task[p].pc = "bind"
  /\ IF Unscheduled(p)
     THEN /\ StoreBinding(p, task[p].node)
          /\ \E answer \in {"bound"} \cup (IF "lost" \in Races THEN {"failed"} ELSE {}) :
               task' = At(p, answer)
     ELSE /\ task' = At(p, IF Live(p) THEN "bound" ELSE "failed")
          /\ UNCHANGED <<api, runs, queue>>
  /\ UNCHANGED <<listed, tally, claimed, faults, spared>>

BindFails(p) ==
  /\ task[p].pc = "bind"
  /\ faults < MaxFaults /\ faults' = faults + 1
  /\ task' = At(p, "failed")
  /\ UNCHANGED <<api, runs, queue, listed, tally, claimed, spared>>

\* Whether nothing that was read before the bind is still to be handled.
Settled(p) ==
  \/ "stale" \in Races
  \/ /\ p \notin listed
     /\ \A i \in DOMAIN queue : queue[i].pod = p => queue[i].node # NoNode \/ queue[i].kind = "gone"

\* The reservation of a bind that failed stays.
Bug_NoRollback(p) ==
  /\ task[p].pc \in {"bound", "failed"} /\ Settled(p)
  /\ task' = [task EXCEPT ![p] = NoTask]
  /\ UNCHANGED <<api, runs, queue, listed, tally, claimed, faults, spared>>

\* The roll-back does not look at the answer.
Bug_RollbackAlways(p) ==
  /\ task[p].pc \in {"bound", "failed"} /\ Settled(p)
  /\ tally' = [tally EXCEPT ![p] = NoNode]
  /\ task' = [task EXCEPT ![p] = NoTask]
  /\ UNCHANGED <<api, runs, queue, listed, claimed, faults, spared>>

\* bind_reserved_node: roll the reservation back on a failure; in both cases
\* the pod leaves in_flight.
BindReturns(p) ==
  /\ task[p].pc \in {"bound", "failed"} /\ Settled(p)
  /\ tally' = IF task[p].pc = "failed" THEN [tally EXCEPT ![p] = NoNode] ELSE tally
  /\ task' = [task EXCEPT ![p] = NoTask]
  /\ UNCHANGED <<api, runs, queue, listed, claimed, faults, spared>>

-------------------------------------------------------------------------------
Init ==
  /\ api = [p \in Pods |-> [st |-> IF Start[p] = NoNode THEN "absent" ELSE "live",
                             node |-> Start[p]]]
  /\ runs = Start
  /\ queue = <<>> /\ listed = {} /\ claimed = {} /\ faults = 0 /\ spared = {}
  /\ tally = Start
  /\ task = [p \in Pods |-> NoTask]

Place(p) ==
  \/ \E n \in Nodes : PickNode(p, n)
  \/ PickNothing(p)
  \/ Plan(p) \/ NoPlan(p) \/ Verify(p) \/ Nominate(p)
  \/ \E v \in Pods : EvictVictim(p, v)
  \/ ForgetVictim(p) \/ Register(p) \/ Recheck(p) \/ Bind(p) \/ BindReturns(p)

Fail(p) == BindFails(p) \/ \E v \in Pods : EvictFails(p, v)

Next ==
  \/ \E p \in Pods : CreatePod(p) \/ UserDelete(p) \/ EndPod(p)
  \/ Deliver
  \/ \E p \in Pods : ResyncList(p) \/ ResyncHandle(p)
  \/ Reconnect
  \/ \E p \in Pods : Place(p) \/ Fail(p)

Spec == Init /\ [][Next]_vars

\* The tasks and the watch run, the resync timer fires, kubelets stop what is
\* deleted.  Nobody is obliged to create or to delete a pod.  Pods that have a
\* node from the start never get a task.
FairSpec ==
  /\ Spec
  /\ WF_vars(Deliver) /\ WF_vars(\E p \in Pods : EndPod(p))
  /\ \A p \in {q \in Pods : Start[q] = NoNode} :
       WF_vars(Place(p)) /\ WF_vars(ResyncList(p) \/ ResyncHandle(p))

-------------------------------------------------------------------------------
Places == Nodes \cup {NoNode}
Reports == [pod : Pods, kind : {"live", "leaving", "gone"}, node : Places]
Tasks == [pc : {"idle", "pick", "plan", "verify", "nominate", "evict", "forget", "register",
                "wait", "recheck", "bind", "bound", "failed"},
          node : Places, victims : SUBSET Pods, left : SUBSET Pods, cur : SUBSET Pods,
          tries : Nat]

(* Type invariant, with the bookkeeping of the task records: victims are   *)
(* of lower priority, and what is left of them is among them.              *)
TypeOK ==
  /\ api \in [Pods -> [st : {"absent", "live", "leaving", "gone"}, node : Places]]
  /\ runs \in [Pods -> Places]
  /\ queue \in Seq(Reports)
  /\ listed \subseteq Pods /\ claimed \subseteq Pods /\ faults \in 0..MaxFaults
  /\ spared \subseteq Nodes
  /\ tally \in [Pods -> Places]
  /\ task \in [Pods -> Tasks]
  /\ \A p \in Pods : /\ task[p].left \cup task[p].cur \subseteq task[p].victims
                     /\ task[p].cur = {} \/ task[p].pc = "forget"
                     /\ task[p].tries < MaxTries
                     /\ \A v \in task[p].victims : Prio[v] < Prio[p]

\* The pods that run on node n and that nobody is removing.
Staying(n) == {p \in Running(n) : ~Marked(p) /\ p \notin claimed}

RoomIsLeft == \A n \in Nodes \ spared : Used(Staying(n)) <= Cap[n]

VictimsAreGone ==
  \A p \in Pods : task[p].pc \in {"recheck", "bind"} => \A v \in task[p].victims : ~Live(v)

(* What stays on a node never needs more than the node has, however tasks, *)
(* evictions, the watch and failures interleave (select_and_reserve_node,  *)
(* verify_and_reserve_preemption); the one exception is a node where an    *)
(* eviction fails after another plan has counted on its room.  And no bind *)
(* that preempt_and_pick_node defers is tried before all the victims of    *)
(* its plan are gone from the API server (attempt_deferred_bind).  Pods    *)
(* that are shutting down may still take room a bind relies on.            *)
NoOvercommit == RoomIsLeft /\ VictimsAreGone

(* The tally is wrong about a stored binding only while an event that      *)
(* corrects it is on its way or the pod is being deleted: no roll-back, no *)
(* overwritten reservation and no reconnect makes the scheduler forget a   *)
(* pod that keeps running (NodeTally, bind_reserved_node).                 *)
TallyKnowsBound ==
  \A p \in Pods :
    api[p].st = "live" /\ api[p].node # NoNode /\ tally[p] # api[p].node
      => \E i \in DOMAIN queue : queue[i].pod = p /\ queue[i].node = api[p].node

(* A reservation for a pod that is not bound belongs to a task that will   *)
(* bind it or give it back: otherwise the room is lost until the watch     *)
(* reconnects (assume, and the roll-backs of the failure paths).           *)
ReservationHasOwner ==
  \A p \in Pods : Unscheduled(p) /\ tally[p] # NoNode => InFlight(p)

(* A claimed victim belongs to a plan that is still evicting: a claim left *)
(* behind hides the pod from every later plan (release_victims).  The task *)
(* records are as TypeOK says.                                             *)
ClaimHasOwner ==
  /\ TypeOK
  /\ \A v \in claimed : \E q \in Pods : Evicting(q) /\ v \in task[q].victims

(* A pod that outranks enough of what runs gets its node: a failed         *)
(* attempt, an abandoned plan or a lost event delays it, and the resync    *)
(* tries again (pods_needing_resync; the doc comment of PreemptionWaiters  *)
(* says no pod is ever stuck forever).                                     *)
VipIsPlaced ==
  \A p \in Vip : Unscheduled(p) ~> api[p].node # NoNode

===============================================================================
