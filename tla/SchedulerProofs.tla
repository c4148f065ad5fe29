--------------------------- MODULE SchedulerProofs ---------------------------
(***************************************************************************)
(* Proofs about the scheduler, for any finite set of pods, any nodes,      *)
(* priorities, requests and capacities, any bound on failures, and (as the *)
(* theorems say) any or some of the races.                                 *)
(***************************************************************************)
EXTENDS Scheduler, FiniteSetTheorems, TLAPS

-------------------------------------------------------------------------------
(* Types.                                                                  *)

\* What the task records keep besides their types (second part of TypeOK).
TaskRecord(p) ==
  /\ task[p].left \cup task[p].cur \subseteq task[p].victims
  /\ task[p].cur = {} \/ task[p].pc = "forget"
  /\ task[p].tries < MaxTries
  /\ \A v \in task[p].victims : Prio[v] < Prio[p]

LEMMA NoTaskType == NoTask \in Tasks
  BY SchedulerConstants DEF NoTask, Tasks, Places

\* A set of finitely many reports is written as a sequence of them.
LEMMA SetToSeqType ==
  ASSUME NEW T, NEW S \in SUBSET T, IsFiniteSet(S)
  PROVE  SetToSeq(S) \in Seq(T)
<1>1. Cardinality(S) \in Nat /\ ExistsBijection(1..Cardinality(S), S)
  BY FS_CardinalityType
<1>2. PICK f : f \in Bijection(1..Cardinality(S), S)
  BY <1>1 DEF ExistsBijection
<1>3. f \in [1..Cardinality(S) -> S] /\ IsInjective(f)
  BY <1>2 DEF Bijection, Injection, IsInjective
<1>4. SetToSeq(S) \in [1..Cardinality(S) -> S]
  BY <1>3 DEF SetToSeq
<1> QED
  BY <1>1, <1>4

\* The elements of the sequence are those of the set.
LEMMA SetToSeqElements ==
  ASSUME NEW S, IsFiniteSet(S), NEW i \in DOMAIN SetToSeq(S)
  PROVE  SetToSeq(S)[i] \in S
<1>1. Cardinality(S) \in Nat /\ ExistsBijection(1..Cardinality(S), S)
  BY FS_CardinalityType
<1>2. PICK f : f \in Bijection(1..Cardinality(S), S)
  BY <1>1 DEF ExistsBijection
<1>3. f \in [1..Cardinality(S) -> S] /\ IsInjective(f)
  BY <1>2 DEF Bijection, Injection, IsInjective
<1>4. SetToSeq(S) \in [1..Cardinality(S) -> S]
  BY <1>3 DEF SetToSeq
<1> QED
  BY <1>4

LEMMA StartedType ==
  ASSUME TypeOK, NEW p \in Pods
  PROVE  /\ Started(p) \in [Pods -> Tasks]
         /\ \A q \in Pods : q # p \/ task[p].pc # "idle" => Started(p)[q] = task[q]
         /\ LET n == Started(p)[p] IN
            task[p].pc = "idle" => /\ n.pc = "pick" /\ n.node = NoNode /\ n.victims = {}
                                   /\ n.left = {} /\ n.cur = {} /\ n.tries = 0
<1> DEFINE n == [NoTask EXCEPT !.pc = "pick"]
<1>1. /\ n \in Tasks /\ n.pc = "pick" /\ n.node = NoNode /\ n.victims = {}
      /\ n.left = {} /\ n.cur = {} /\ n.tries = 0
  BY NoTaskType DEF NoTask, Tasks
<1>2. task \in [Pods -> Tasks]
  BY DEF TypeOK
<1>3. Started(p) = IF task[p].pc # "idle" THEN task ELSE [task EXCEPT ![p] = n]
  BY DEF Started, InFlight
<1> HIDE DEF n
<1>4. CASE task[p].pc # "idle"
  BY <1>2, <1>3, <1>4
<1>5. CASE task[p].pc = "idle"
  <2>1. Started(p) = [task EXCEPT ![p] = n]
    BY <1>3, <1>5
  <2>2. Started(p) \in [Pods -> Tasks] /\ Started(p)[p] = n
    BY <2>1, <1>1, <1>2
  <2>3. \A q \in Pods : q # p => Started(p)[q] = task[q]
    BY <2>1, <1>2
  <2> QED
    BY <2>2, <2>3, <1>1, <1>5
<1> QED
  BY <1>4, <1>5

\* A plan is taken back: the next attempt, or the end of the task.
LEMMA RetryType ==
  ASSUME TypeOK, NEW p \in Pods
  PROVE  /\ Retry(p) \in [Pods -> Tasks]
         /\ \A q \in Pods : q # p => Retry(p)[q] = task[q]
         /\ \/ Retry(p)[p] = NoTask
            \/ LET n == Retry(p)[p] IN
               /\ n.pc = "plan" /\ n.tries = task[p].tries + 1 /\ n.tries < MaxTries
               /\ n.node = task[p].node /\ n.victims = task[p].victims
               /\ n.left = task[p].left /\ n.cur = task[p].cur
<1> DEFINE k == task[p].tries + 1
           n == [task[p] EXCEPT !.pc = "plan", !.tries = k]
<1>1. task \in [Pods -> Tasks]
  BY DEF TypeOK
<1>2. k \in Nat /\ task[p] \in Tasks
  BY <1>1 DEF Tasks
<1>3. Retry(p) = IF k < MaxTries THEN [task EXCEPT ![p] = n] ELSE [task EXCEPT ![p] = NoTask]
  BY <1>1 DEF Retry
<1>3a. k = task[p].tries + 1
  OBVIOUS
<1> HIDE DEF k
<1>3b. /\ n \in Tasks /\ n.pc = "plan" /\ n.tries = k
      /\ n.node = task[p].node /\ n.victims = task[p].victims
      /\ n.left = task[p].left /\ n.cur = task[p].cur
  BY <1>2 DEF Tasks
<1> HIDE DEF n
<1>4. CASE k < MaxTries
  <2>1. Retry(p) = [task EXCEPT ![p] = n]
    BY <1>3, <1>4
  <2> QED
    BY <2>1, <1>1, <1>3a, <1>3b, <1>4
<1>5. CASE ~(k < MaxTries)
  <2>1. Retry(p) = [task EXCEPT ![p] = NoTask]
    BY <1>3, <1>5
  <2> QED
    BY <2>1, <1>1, NoTaskType
<1> QED
  BY <1>4, <1>5

LEMMA ResolvedType ==
  ASSUME TypeOK, NEW v \in Pods
  PROVE  /\ Resolved(v) \in [Pods -> Tasks]
         /\ \A q \in Pods :
              /\ task[q].pc # "wait" => Resolved(v)[q] = task[q]
              /\ task[q].pc = "wait" => Resolved(v)[q].pc \in {"wait", "recheck"}
              /\ Resolved(v)[q].node = task[q].node
              /\ Resolved(v)[q].victims = task[q].victims
              /\ Resolved(v)[q].cur = task[q].cur
              /\ Resolved(v)[q].tries = task[q].tries
              /\ Resolved(v)[q].left \subseteq task[q].left
<1> DEFINE c(q) == IF task[q].left \subseteq {v} THEN "recheck" ELSE "wait"
           n(q) == [task[q] EXCEPT !.left = @ \ {v}, !.pc = c(q)]
<1>1. \A q \in Pods : task[q] \in Tasks
  BY DEF TypeOK
<1>2. \A q \in Pods : /\ n(q) \in Tasks
                      /\ n(q).pc \in {"wait", "recheck"}
                      /\ n(q).node = task[q].node /\ n(q).victims = task[q].victims
                      /\ n(q).cur = task[q].cur /\ n(q).tries = task[q].tries
                      /\ n(q).left \subseteq task[q].left
  <2> TAKE q \in Pods
  <2>1. c(q) \in {"wait", "recheck"}
    OBVIOUS
  <2> HIDE DEF c
  <2>2. task[q] \in Tasks /\ task[q].left \in SUBSET Pods
    BY <1>1 DEF Tasks
  <2> QED
    BY <2>1, <2>2 DEF Tasks
<1>3. Resolved(v) = [q \in Pods |-> IF task[q].pc # "wait" THEN task[q] ELSE n(q)]
  BY DEF Resolved
<1> HIDE DEF n
<1>4. Resolved(v) \in [Pods -> Tasks]
  BY <1>1, <1>2, <1>3
<1>5. ASSUME NEW q \in Pods
      PROVE  Resolved(v)[q] = IF task[q].pc # "wait" THEN task[q] ELSE n(q)
  BY <1>3
<1> QED
  BY <1>1, <1>2, <1>4, <1>5

-------------------------------------------------------------------------------
(* What each step of a task does to the task records, field by field.      *)

\* Only the record of p changes.
OnlyTask(p) == task' \in [Pods -> Tasks] /\ \A q \in Pods : q # p => task'[q] = task[q]

\* The record of p afterwards.
TaskIs(p, pc, node, victims, left, cur, tries) ==
  /\ OnlyTask(p)
  /\ task'[p].pc = pc /\ task'[p].node = node /\ task'[p].victims = victims
  /\ task'[p].left = left /\ task'[p].cur = cur /\ task'[p].tries = tries

Pcs == {"idle", "pick", "plan", "verify", "nominate", "evict", "forget", "register",
        "wait", "recheck", "bind", "bound", "failed"}

LEMMA AtFacts ==
  ASSUME TypeOK, NEW p \in Pods, NEW c \in Pcs, task' = At(p, c)
  PROVE  LET t == task[p] IN TaskIs(p, c, t.node, t.victims, t.left, t.cur, t.tries)
<1> DEFINE n == [task[p] EXCEPT !.pc = c]
<1>1. task \in [Pods -> Tasks]
  BY DEF TypeOK
<1>2. /\ n \in Tasks /\ n.pc = c /\ n.node = task[p].node /\ n.victims = task[p].victims
      /\ n.left = task[p].left /\ n.cur = task[p].cur /\ n.tries = task[p].tries
  BY <1>1 DEF Tasks, Pcs
<1>3. task' = [task EXCEPT ![p] = n]
  BY <1>1 DEF At
<1> HIDE DEF n
<1> QED
  BY <1>1, <1>2, <1>3 DEF TaskIs, OnlyTask

LEMMA NoTaskFacts ==
  ASSUME TypeOK, NEW p \in Pods, task' = [task EXCEPT ![p] = NoTask]
  PROVE  TaskIs(p, "idle", NoNode, {}, {}, {}, 0) /\ task'[p] = NoTask
<1>1. task \in [Pods -> Tasks]
  BY DEF TypeOK
<1>2. OnlyTask(p) /\ task'[p] = NoTask
  BY <1>1, NoTaskType DEF OnlyTask
<1> QED
  BY <1>2 DEF TaskIs, NoTask

LEMMA RetryFacts ==
  ASSUME TypeOK, NEW p \in Pods, task' = Retry(p)
  PROVE  LET t == task[p] IN
         \/ TaskIs(p, "idle", NoNode, {}, {}, {}, 0) /\ task'[p] = NoTask
         \/ /\ TaskIs(p, "plan", t.node, t.victims, t.left, t.cur, t.tries + 1)
            /\ t.tries + 1 < MaxTries
<1>1. CASE task'[p] = NoTask
  <2>1. OnlyTask(p)
    BY RetryType DEF OnlyTask
  <2> QED
    BY <2>1, <1>1 DEF TaskIs, NoTask
<1>2. CASE task'[p] # NoTask
  BY RetryType, <1>2 DEF TaskIs, OnlyTask
<1> QED
  BY <1>1, <1>2

LEMMA RetryVictims ==
  ASSUME TypeOK, NEW p \in Pods, task' = Retry(p)
  PROVE  /\ OnlyTask(p) /\ task'[p].pc \in {"plan", "idle"}
         /\ \/ task'[p].victims = {}
            \/ task'[p].victims = task[p].victims /\ task'[p].node = task[p].node
<1>1. CASE TaskIs(p, "idle", NoNode, {}, {}, {}, 0)
  BY <1>1 DEF TaskIs
<1>2. CASE LET t == task[p] IN TaskIs(p, "plan", t.node, t.victims, t.left, t.cur, t.tries + 1)
  BY <1>2 DEF TaskIs
<1> QED
  BY <1>1, <1>2, RetryFacts

LEMMA PickNodeFacts ==
  ASSUME TypeOK, NEW p \in Pods, NEW n \in Nodes, PickNode(p, n)
  PROVE  LET t == task[p] IN TaskIs(p, "bind", n, t.victims, t.left, t.cur, t.tries)
<1> DEFINE r == [task[p] EXCEPT !.pc = "bind", !.node = n]
<1>1. task \in [Pods -> Tasks]
  BY DEF TypeOK
<1>1a. task[p] \in Tasks /\ n \in Places
  BY <1>1 DEF Places
<1>2. /\ r \in Tasks /\ r.pc = "bind" /\ r.node = n /\ r.victims = task[p].victims
      /\ r.left = task[p].left /\ r.cur = task[p].cur /\ r.tries = task[p].tries
  BY <1>1a DEF Tasks
<1>3. task' = [task EXCEPT ![p] = r]
  BY <1>1 DEF PickNode
<1> HIDE DEF r
<1> QED
  BY <1>1, <1>2, <1>3 DEF TaskIs, OnlyTask

\* The plan of p is to evict V from n.
Planned(p, n, V) ==
  /\ task[p].pc = "plan" /\ V \in VictimSets(p, n)
  /\ "victims" \in Races \/ \A v \in V : ~Marked(v) /\ api[v].node # NoNode
  /\ task' = [task EXCEPT ![p].pc = "verify", ![p].node = n, ![p].victims = V, ![p].left = V]
  /\ UNCHANGED <<api, runs, queue, listed, tally, claimed, faults, spared>>

LEMMA PlanPlans ==
  ASSUME NEW p \in Pods, Plan(p)
  PROVE  \E n \in Nodes, V \in SUBSET Pods : Planned(p, n, V)
<1>1. PICK m \in Preemptions(p) :
        task' = [task EXCEPT ![p].pc = "verify", ![p].node = m[1],
                             ![p].victims = m[2], ![p].left = m[2]]
  BY DEF Plan
<1>2. m \in UNION {{n} \X VictimSets(p, n) : n \in Nodes}
  BY DEF Preemptions
<1>3. PICK n \in Nodes : m \in {n} \X VictimSets(p, n)
  BY <1>2
<1>4. m[1] = n /\ m[2] \in VictimSets(p, n)
  BY <1>3
<1>5. "victims" \in Races \/ \A v \in m[2] : ~Marked(v) /\ api[v].node # NoNode
  BY DEF Preemptions
<1>6. m[2] \in SUBSET Pods
  BY <1>4 DEF VictimSets, PodsOn, OnNode
<1>7. task[p].pc = "plan" /\ UNCHANGED <<api, runs, queue, listed, tally, claimed, faults, spared>>
  BY DEF Plan
<1>8. Planned(p, n, m[2])
  BY <1>1, <1>4, <1>5, <1>7 DEF Planned
<1> QED
  BY <1>6, <1>8

LEMMA PlanFacts ==
  ASSUME TypeOK, NEW p \in Pods, NEW n \in Nodes, NEW V \in SUBSET Pods, Planned(p, n, V)
  PROVE  TaskIs(p, "verify", n, V, V, task[p].cur, task[p].tries)
<1> DEFINE r == [task[p] EXCEPT !.pc = "verify", !.node = n, !.victims = V, !.left = V]
<1>1. task \in [Pods -> Tasks]
  BY DEF TypeOK
<1>1a. task[p] \in Tasks /\ n \in Places
  BY <1>1 DEF Places
<1>2. /\ r \in Tasks /\ r.pc = "verify" /\ r.node = n /\ r.victims = V
      /\ r.left = V /\ r.cur = task[p].cur /\ r.tries = task[p].tries
  BY <1>1a DEF Tasks
<1>3. task' = [task EXCEPT ![p] = r]
  BY <1>1 DEF Planned
<1> HIDE DEF r
<1> QED
  BY <1>1, <1>2, <1>3 DEF TaskIs, OnlyTask

LEMMA EvictVictimFacts ==
  ASSUME TypeOK, NEW p \in Pods, NEW v \in Pods, EvictVictim(p, v)
  PROVE  LET t == task[p] IN TaskIs(p, "forget", t.node, t.victims, t.left \ {v}, {v}, t.tries)
<1> DEFINE r == [task[p] EXCEPT !.pc = "forget", !.left = @ \ {v}, !.cur = {v}]
<1>1. task \in [Pods -> Tasks]
  BY DEF TypeOK
<1>1a. task[p] \in Tasks /\ task[p].left \in SUBSET Pods /\ {v} \in SUBSET Pods
  BY <1>1 DEF Tasks
<1>2. /\ r \in Tasks /\ r.pc = "forget" /\ r.node = task[p].node /\ r.victims = task[p].victims
      /\ r.left = task[p].left \ {v} /\ r.cur = {v} /\ r.tries = task[p].tries
  BY <1>1a DEF Tasks
<1>3. task' = [task EXCEPT ![p] = r]
  BY <1>1 DEF EvictVictim
<1> HIDE DEF r
<1> QED
  BY <1>1, <1>2, <1>3 DEF TaskIs, OnlyTask

LEMMA ForgetVictimFacts ==
  ASSUME TypeOK, NEW p \in Pods, ForgetVictim(p)
  PROVE  LET t == task[p] IN
         \E c \in {"register", "evict"} : /\ TaskIs(p, c, t.node, t.victims, t.left, {}, t.tries)
                                          /\ c = "register" => t.left = {}
<1> DEFINE c == IF task[p].left = {} THEN "register" ELSE "evict"
           r == [task[p] EXCEPT !.cur = {}, !.pc = c]
<1>1. task \in [Pods -> Tasks]
  BY DEF TypeOK
<1>2. task' = [task EXCEPT ![p] = r]
  BY <1>1 DEF ForgetVictim
<1>3. c \in {"register", "evict"} /\ (c = "register" => task[p].left = {})
  OBVIOUS
<1> HIDE DEF c
<1>3a. task[p] \in Tasks
  BY <1>1
<1>4. /\ r \in Tasks /\ r.pc = c /\ r.node = task[p].node /\ r.victims = task[p].victims
      /\ r.left = task[p].left /\ r.cur = {} /\ r.tries = task[p].tries
  BY <1>3, <1>3a DEF Tasks
<1> HIDE DEF r
<1>5. TaskIs(p, c, task[p].node, task[p].victims, task[p].left, {}, task[p].tries)
  BY <1>1, <1>2, <1>4 DEF TaskIs, OnlyTask
<1> QED
  BY <1>3, <1>5

LEMMA RegisterFacts ==
  ASSUME TypeOK, NEW p \in Pods, Register(p)
  PROVE  LET t == task[p] IN TaskIs(p, "wait", t.node, t.victims, t.victims, t.cur, t.tries)
<1> DEFINE r == [task[p] EXCEPT !.pc = "wait", !.left = task[p].victims]
<1>1. task \in [Pods -> Tasks]
  BY DEF TypeOK
<1>1a. task[p] \in Tasks /\ task[p].victims \in SUBSET Pods
  BY <1>1 DEF Places, Tasks
<1>2. /\ r \in Tasks /\ r.pc = "wait" /\ r.node = task[p].node /\ r.victims = task[p].victims
      /\ r.left = task[p].victims /\ r.cur = task[p].cur /\ r.tries = task[p].tries
  BY <1>1a DEF Tasks
<1>3. task' = [task EXCEPT ![p] = r]
  BY <1>1 DEF Register
<1> HIDE DEF r
<1> QED
  BY <1>1, <1>2, <1>3 DEF TaskIs, OnlyTask

-------------------------------------------------------------------------------
(* The watch backlog as a set of reports.                                  *)

LEMMA AppendRange ==
  ASSUME NEW S, NEW s \in Seq(S), NEW e \in S
  PROVE  Append(s, e) \in Seq(S) /\ Range(Append(s, e)) = Range(s) \cup {e}
<1> DEFINE t == Append(s, e)
<1>1. t \in Seq(S) /\ DOMAIN s = 1..Len(s) /\ Len(s) \in Nat /\ DOMAIN t = 1..Len(s)+1
  OBVIOUS
<1>2. \A i \in DOMAIN s : t[i] = s[i]
  OBVIOUS
<1>3. t[Len(s)+1] = e
  OBVIOUS
<1> HIDE DEF t
<1>4. \A i \in DOMAIN t : i \in DOMAIN s \/ i = Len(s) + 1
  BY <1>1
<1>5. DOMAIN s \subseteq DOMAIN t /\ Len(s) + 1 \in DOMAIN t
  BY <1>1
<1> QED
  BY <1>1, <1>2, <1>3, <1>4, <1>5 DEF Range, t

LEMMA TailRange ==
  ASSUME NEW S, NEW s \in Seq(S), s # <<>>
  PROVE  /\ Tail(s) \in Seq(S) /\ Head(s) \in S
         /\ Range(s) = {Head(s)} \cup Range(Tail(s))
<1> DEFINE t == Tail(s)
<1>1. t \in Seq(S) /\ Head(s) = s[1] /\ Head(s) \in S
  OBVIOUS
<1>2. /\ DOMAIN s = 1..Len(s) /\ Len(s) \in Nat \ {0} /\ DOMAIN t = 1..Len(s)-1
      /\ \A i \in DOMAIN t : t[i] = s[i+1]
  OBVIOUS
<1> HIDE DEF t
<1>3. \A i \in DOMAIN s : i = 1 \/ (i - 1 \in DOMAIN t /\ t[i-1] = s[i])
  BY <1>2
<1>4. \A i \in DOMAIN t : i + 1 \in DOMAIN s /\ 1 \in DOMAIN s
  BY <1>2
<1>5. 1 \in DOMAIN s
  BY <1>2
<1> QED
  BY <1>1, <1>2, <1>3, <1>4, <1>5 DEF Range, t

LEMMA RangeType ==
  ASSUME NEW S, NEW s \in Seq(S), NEW e \in Range(s)
  PROVE  e \in S
  BY DEF Range

LEMMA BacklogType ==
  ASSUME TypeOK, NEW e \in Range(queue)
  PROVE  e \in Reports /\ e.pod \in Pods /\ e.node \in Places
<1>1. queue \in Seq(Reports)
  BY DEF TypeOK
<1>2. e \in Reports
  BY <1>1, RangeType
<1> QED
  BY <1>2 DEF Reports

LEMMA EventType ==
  ASSUME NEW p \in Pods, NEW k \in {"live", "leaving", "gone"}, NEW n \in Places
  PROVE  LET e == Event(p, k, n) IN e \in Reports /\ e.pod = p /\ e.kind = k /\ e.node = n
  BY DEF Event, Reports

\* The backlog gets one more report at most.
Adds(e) == queue' \in Seq(Reports) /\ Range(queue') = Range(queue) \cup {e}

LEMMA AddsType ==
  ASSUME TypeOK, NEW p \in Pods, NEW k \in {"live", "leaving", "gone"}, NEW n \in Places,
         queue' = Append(queue, Event(p, k, n))
  PROVE  Adds(Event(p, k, n))
  BY EventType, AppendRange, SMT DEF TypeOK, Adds

\* DELETE: what it does to the pod and which report it makes.
LEMMA DeleteFacts ==
  ASSUME TypeOK, NEW p \in Pods, DeleteStored(p)
  PROVE  /\ api' \in [Pods -> [st : {"absent", "live", "leaving", "gone"}, node : Places]]
         /\ queue' \in Seq(Reports)
         /\ \A q \in Pods : q # p => api'[q] = api[q]
         /\ api'[p].node = api[p].node
         /\ \/ /\ api[p].st \in {"absent", "gone"} /\ api' = api /\ queue' = queue
            \/ /\ api[p].st = "leaving" /\ api'[p].st = "gone"
               /\ Range(queue') = Range(queue) \cup {Event(p, "gone", NoNode)}
            \/ /\ api[p].st = "live" /\ api'[p].st = "leaving"
               /\ Range(queue') = Range(queue) \cup {Event(p, "leaving", api[p].node)}
<1> DEFINE Obj == [st : {"absent", "live", "leaving", "gone"}, node : Places]
<1>1. api \in [Pods -> Obj] /\ queue \in Seq(Reports) /\ NoNode \in Places
  BY DEF TypeOK, Places
<1>2. CASE api[p].st \in {"absent", "gone"}
  <2>1. api' = api /\ queue' = queue
    BY <1>2 DEF DeleteStored, Live
  <2> QED
    BY <2>1, <1>1, <1>2
<1>3. CASE api[p].st = "leaving"
  <2>1. /\ api' = [api EXCEPT ![p].st = "gone"]
        /\ queue' = Append(queue, Event(p, "gone", NoNode))
    BY <1>3 DEF DeleteStored, Live, Marked
  <2>2. Adds(Event(p, "gone", NoNode))
    BY <2>1, <1>1, AddsType
  <2>3. /\ api' \in [Pods -> Obj] /\ api'[p].node = api[p].node /\ api'[p].st = "gone"
        /\ \A q \in Pods : q # p => api'[q] = api[q]
    BY <2>1, <1>1
  <2> QED
    BY <2>2, <2>3, <1>3 DEF Adds
<1>4. CASE api[p].st = "live"
  <2>1. /\ api' = [api EXCEPT ![p].st = "leaving"]
        /\ queue' = Append(queue, Event(p, "leaving", api[p].node))
    BY <1>4 DEF DeleteStored, Live, Marked
  <2>2. Adds(Event(p, "leaving", api[p].node))
    BY <2>1, <1>1, AddsType
  <2>3. /\ api' \in [Pods -> Obj] /\ api'[p].node = api[p].node /\ api'[p].st = "leaving"
        /\ \A q \in Pods : q # p => api'[q] = api[q]
    BY <2>1, <1>1
  <2> QED
    BY <2>2, <2>3, <1>4 DEF Adds
<1> QED
  BY <1>1, <1>2, <1>3, <1>4

\* The backlog after a reconnect: the unscheduled pods.
LEMMA RelistFacts ==
  ASSUME TypeOK, Reconnect
  PROVE  /\ queue' \in Seq(Reports)
         /\ \A e \in Range(queue') : \E p \in Pods : Unscheduled(p) /\ e = Event(p, "live", NoNode)
<1> DEFINE U == {q \in Pods : Unscheduled(q)}
           f == [p \in U |-> Event(p, "live", NoNode)]
           E == {Event(p, "live", NoNode) : p \in U}
<1>1. IsFiniteSet(U)
  BY SchedulerConstants, FS_Subset
<1>2. f \in Surjection(U, E)
  BY DEF Surjection
<1>3. IsFiniteSet(E)
  BY <1>1, <1>2, FS_Surjection
<1>4. E \in SUBSET Reports
  BY EventType DEF Places
<1>5. queue' = SetToSeq(E)
  BY DEF Reconnect
<1>6. queue' \in Seq(Reports)
  BY <1>3, <1>4, <1>5, SetToSeqType
<1>7. \A e \in Range(queue') : e \in E
  BY <1>3, <1>5, SetToSeqElements DEF Range
<1> QED
  BY <1>6, <1>7

-------------------------------------------------------------------------------
(* Type correctness.                                                       *)

Objects == [st : {"absent", "live", "leaving", "gone"}, node : Places]

\* A task record as TypeOK wants it, whichever of its fields a step changes.
LEMMA TaskRecordStep ==
  ASSUME TypeOK, NEW p \in Pods, OnlyTask(p),
         task'[p].left \cup task'[p].cur \subseteq task'[p].victims,
         task'[p].cur = {} \/ task'[p].pc = "forget",
         task'[p].tries < MaxTries,
         \A v \in task'[p].victims : Prio[v] < Prio[p]
  PROVE  task' \in [Pods -> Tasks] /\ \A q \in Pods : TaskRecord(q)'
  BY DEF TypeOK, OnlyTask, TaskRecord

\* A step that keeps victims and tries, and adds nothing to left and cur.
LEMMA TaskShrinks ==
  ASSUME TypeOK, NEW p \in Pods, OnlyTask(p),
         task'[p].left \subseteq task[p].victims, task'[p].cur \subseteq task[p].victims,
         task'[p].cur = {} \/ task'[p].pc = "forget",
         task'[p].victims = task[p].victims, task'[p].tries = task[p].tries
  PROVE  task' \in [Pods -> Tasks] /\ \A q \in Pods : TaskRecord(q)'
  BY TaskRecordStep DEF TypeOK

LEMMA TypeOKSplit ==
  TypeOK <=> /\ api \in [Pods -> Objects] /\ runs \in [Pods -> Places]
             /\ queue \in Seq(Reports) /\ listed \subseteq Pods /\ claimed \subseteq Pods
             /\ faults \in 0..MaxFaults /\ tally \in [Pods -> Places] /\ spared \subseteq Nodes
             /\ task \in [Pods -> Tasks] /\ \A p \in Pods : TaskRecord(p)
  BY DEF TypeOK, Objects, TaskRecord

LEMMA TaskEnds ==
  ASSUME TypeOK, NEW p \in Pods, OnlyTask(p), task'[p] = NoTask
  PROVE  task' \in [Pods -> Tasks] /\ \A q \in Pods : TaskRecord(q)'
<1>1. /\ task'[p].left = {} /\ task'[p].cur = {} /\ task'[p].victims = {} /\ task'[p].tries = 0
      /\ 0 < MaxTries
  BY SchedulerConstants DEF NoTask
<1> QED
  BY <1>1, TaskRecordStep

LEMMA RetryRecord ==
  ASSUME TypeOK, NEW p \in Pods, task' = Retry(p), task[p].pc # "forget"
  PROVE  task' \in [Pods -> Tasks] /\ \A q \in Pods : TaskRecord(q)'
<1>1. CASE OnlyTask(p) /\ task'[p] = NoTask
  BY <1>1, TaskEnds
<1>2. CASE /\ TaskIs(p, "plan", task[p].node, task[p].victims, task[p].left, task[p].cur,
                     task[p].tries + 1)
           /\ task[p].tries + 1 < MaxTries
  BY <1>2, TaskRecordStep DEF TaskIs, TypeOK
<1> QED
  BY <1>1, <1>2, RetryFacts DEF TaskIs

LEMMA StartedRecord ==
  ASSUME TypeOK, NEW p \in Pods, task' = Started(p)
  PROVE  task' \in [Pods -> Tasks] /\ \A q \in Pods : TaskRecord(q)'
<1>1. CASE task[p].pc # "idle"
  BY <1>1, StartedType DEF TypeOK, TaskRecord
<1>2. CASE task[p].pc = "idle"
  <2>1. /\ task'[p].left = {} /\ task'[p].cur = {} /\ task'[p].victims = {}
        /\ task'[p].tries = 0 /\ 0 < MaxTries /\ OnlyTask(p)
    BY <1>2, StartedType, SchedulerConstants DEF OnlyTask
  <2> QED
    BY <2>1, TaskRecordStep
<1> QED
  BY <1>1, <1>2

LEMMA ResolvedRecord ==
  ASSUME TypeOK, NEW v \in Pods, task' = Resolved(v)
  PROVE  task' \in [Pods -> Tasks] /\ \A q \in Pods : TaskRecord(q)'
<1>1. task' \in [Pods -> Tasks]
  BY ResolvedType
<1>2. ASSUME NEW q \in Pods
      PROVE  TaskRecord(q)'
  <2>1. /\ task'[q].left \subseteq task[q].left /\ task'[q].cur = task[q].cur
        /\ task[q].pc = "forget" => task'[q].pc = "forget"
        /\ task'[q].victims = task[q].victims /\ task'[q].tries = task[q].tries
    BY ResolvedType
  <2> QED
    BY <2>1 DEF TypeOK, TaskRecord
<1> QED
  BY <1>1, <1>2

LEMMA TypeInit == Init => TypeOK
<1> SUFFICES ASSUME Init PROVE TypeOK
  OBVIOUS
<1>1. api \in [Pods -> Objects]
  BY SchedulerConstants DEF Init, Objects, Places
<1>2. task \in [Pods -> Tasks]
  BY NoTaskType DEF Init
<1>3. \A p \in Pods : TaskRecord(p)
  BY SchedulerConstants DEF Init, TaskRecord, NoTask
<1>4. runs \in [Pods -> Places] /\ tally \in [Pods -> Places]
  BY SchedulerConstants DEF Init, Places
<1>5. queue \in Seq(Reports) /\ listed = {} /\ claimed = {} /\ faults \in 0..MaxFaults /\ spared = {}
  BY SchedulerConstants DEF Init
<1> QED
  BY <1>1, <1>2, <1>3, <1>4, <1>5, TypeOKSplit

LEMMA TypeNext == TypeOK /\ [Next]_vars => TypeOK'
<1> SUFFICES ASSUME TypeOK, [Next]_vars
             PROVE  TypeOK'
  OBVIOUS
<1>t. /\ api \in [Pods -> Objects] /\ runs \in [Pods -> Places]
      /\ queue \in Seq(Reports) /\ listed \subseteq Pods /\ claimed \subseteq Pods
      /\ faults \in 0..MaxFaults /\ tally \in [Pods -> Places] /\ spared \subseteq Nodes
      /\ task \in [Pods -> Tasks] /\ NoNode \in Places /\ MaxFaults \in Nat
  BY TypeOKSplit, SchedulerConstants DEF Places
<1>u. \A p \in Pods : TaskRecord(p)
  BY TypeOKSplit
<1>d. /\ api' \in [Pods -> Objects] /\ runs' \in [Pods -> Places]
      /\ queue' \in Seq(Reports) /\ listed' \subseteq Pods /\ claimed' \subseteq Pods
      /\ faults' \in 0..MaxFaults /\ tally' \in [Pods -> Places] /\ spared' \subseteq Nodes
      /\ task' \in [Pods -> Tasks] /\ \A p \in Pods : TaskRecord(p)'
      => TypeOK'
  BY DEF TypeOK, Objects, TaskRecord
<1>k. task' = task => \A p \in Pods : TaskRecord(p)'
  BY <1>u DEF TaskRecord
<1>1. CASE UNCHANGED vars
  BY <1>1, <1>t, <1>k, <1>d DEF vars
<1>2. ASSUME NEW p \in Pods, CreatePod(p)
      PROVE  TypeOK'
  <2>1. api' \in [Pods -> Objects]
    BY <1>2, <1>t DEF CreatePod, Objects
  <2>2. queue' \in Seq(Reports)
    BY <1>2, <1>t, AddsType DEF CreatePod, Adds
  <2> QED
    BY <2>1, <2>2, <1>2, <1>t, <1>k, <1>d DEF CreatePod
<1>3. ASSUME NEW p \in Pods, UserDelete(p)
      PROVE  TypeOK'
  BY <1>3, <1>t, <1>k, <1>d, DeleteFacts DEF UserDelete, Objects
<1>4. ASSUME NEW p \in Pods, EndPod(p)
      PROVE  TypeOK'
  BY <1>4, <1>t, <1>k, <1>d, DeleteFacts DEF EndPod, Objects
<1>5. CASE Deliver
  <2> DEFINE e == Head(queue)
  <2>1. queue' \in Seq(Reports) /\ e \in Reports
    BY <1>5, <1>t, TailRange DEF Deliver
  <2>2. e.pod \in Pods /\ e.node \in Places
    BY <2>1 DEF Reports
  <2>3. /\ api' = api /\ runs' = runs /\ listed' = listed /\ claimed' = claimed
        /\ faults' = faults /\ spared' = spared
    BY <1>5 DEF Deliver
  <2>4. \/ tally' = [tally EXCEPT ![e.pod] = NoNode] /\ task' = Resolved(e.pod)
        \/ tally' = [tally EXCEPT ![e.pod] = e.node] /\ task' = task
        \/ tally' = tally /\ task' = Started(e.pod)
    BY <1>5 DEF Deliver
  <2> HIDE DEF e
  <2>5. tally' \in [Pods -> Places]
    BY <2>2, <2>4, <1>t
  <2>6. task' \in [Pods -> Tasks] /\ \A p \in Pods : TaskRecord(p)'
    BY <2>2, <2>4, <1>t, <1>k, ResolvedRecord, StartedRecord
  <2> QED
    BY <2>1, <2>3, <2>5, <2>6, <1>t, <1>d
<1>6. ASSUME NEW p \in Pods, ResyncList(p)
      PROVE  TypeOK'
  BY <1>6, <1>t, <1>k, <1>d DEF ResyncList
<1>7. ASSUME NEW p \in Pods, ResyncHandle(p)
      PROVE  TypeOK'
  BY <1>7, <1>t, <1>d, StartedRecord DEF ResyncHandle
<1>8. CASE Reconnect
  <2>1. queue' \in Seq(Reports)
    BY <1>8, RelistFacts
  <2>2. task' \in [Pods -> Tasks]
    BY <1>8, <1>t, NoTaskType DEF Reconnect
  <2>3. \A p \in Pods : TaskRecord(p)'
    <3> TAKE p \in Pods
    <3>1. task'[p] = task[p] \/ task'[p] = NoTask
      BY <1>8 DEF Reconnect
    <3>2. CASE task'[p] = task[p]
      BY <3>2, <1>u DEF TaskRecord
    <3>3. CASE task'[p] = NoTask
      BY <3>3, SchedulerConstants DEF TaskRecord, NoTask
    <3> QED
      BY <3>1, <3>2, <3>3
  <2>4. tally' \in [Pods -> Places]
    BY <1>8, <1>t DEF Reconnect, Objects
  <2>5. claimed' = {} /\ faults' \in 0..MaxFaults
    BY <1>8, <1>t DEF Reconnect
  <2> QED
    BY <2>1, <2>2, <2>3, <2>4, <2>5, <1>8, <1>t, <1>d DEF Reconnect
<1>9. ASSUME NEW p \in Pods, Place(p)
      PROVE  TypeOK'
  <2>1. ASSUME NEW n \in Nodes, PickNode(p, n)
        PROVE  TypeOK'
    <3>1. task' \in [Pods -> Tasks] /\ \A q \in Pods : TaskRecord(q)'
      BY <2>1, PickNodeFacts, TaskShrinks, <1>u DEF TaskIs, TaskRecord, PickNode
    <3> QED
      BY <3>1, <2>1, <1>t, <1>d DEF PickNode, Places
  <2>2. ASSUME PickNothing(p)
        PROVE  TypeOK'
    <3>1. task' \in [Pods -> Tasks] /\ \A q \in Pods : TaskRecord(q)'
      BY <2>2, AtFacts, TaskShrinks, <1>u DEF TaskIs, TaskRecord, PickNothing, Pcs
    <3> QED
      BY <3>1, <2>2, <1>t, <1>d DEF PickNothing
  <2>3. ASSUME NEW n \in Nodes, NEW V \in SUBSET Pods, Planned(p, n, V)
        PROVE  TypeOK'
    <3>1. \A v \in V : Prio[v] < Prio[p]
      BY <2>3 DEF Planned, VictimSets
    <3>2. task' \in [Pods -> Tasks] /\ \A q \in Pods : TaskRecord(q)'
      <4>1. TaskIs(p, "verify", n, V, V, task[p].cur, task[p].tries)
        BY <2>3, PlanFacts
      <4>2. task[p].cur = {}
        BY <2>3, <1>u DEF Planned, TaskRecord
      <4> QED
        BY <4>1, <4>2, <3>1, TaskRecordStep, <1>u DEF TaskIs, TaskRecord
    <3> QED
      BY <3>2, <2>3, <1>t, <1>d DEF Planned
  <2>4. ASSUME NoPlan(p)
        PROVE  TypeOK'
    BY <2>4, RetryRecord, <1>t, <1>d DEF NoPlan
  <2>5. ASSUME Verify(p)
        PROVE  TypeOK'
    <3>1. task' \in [Pods -> Tasks] /\ \A q \in Pods : TaskRecord(q)'
      <4>1. task[p].pc = "verify" /\ (task' = At(p, "nominate") \/ task' = Retry(p))
        BY <2>5 DEF Verify
      <4>2. CASE task' = At(p, "nominate")
        BY <4>1, <4>2, AtFacts, TaskShrinks, <1>u DEF TaskIs, TaskRecord, Pcs
      <4> QED
        BY <4>1, <4>2, RetryRecord
    <3>2. task[p].node \in Places /\ task[p].victims \subseteq Pods
      BY <1>t DEF Tasks
    <3> QED
      BY <3>1, <3>2, <2>5, <1>t, <1>d DEF Verify
  <2>6. ASSUME Nominate(p)
        PROVE  TypeOK'
    <3>1. task' \in [Pods -> Tasks] /\ \A q \in Pods : TaskRecord(q)'
      BY <2>6, AtFacts, TaskShrinks, <1>u DEF TaskIs, TaskRecord, Nominate, Pcs
    <3>2. queue' \in Seq(Reports)
      BY <2>6, <1>t, AddsType DEF Nominate, Adds
    <3> QED
      BY <3>1, <3>2, <2>6, <1>t, <1>d DEF Nominate
  <2>7. ASSUME NEW v \in Pods, EvictVictim(p, v)
        PROVE  TypeOK'
    <3>1. task' \in [Pods -> Tasks] /\ \A q \in Pods : TaskRecord(q)'
      <4>1. /\ v \in task[p].victims
            /\ TaskIs(p, "forget", task[p].node, task[p].victims, task[p].left \ {v}, {v},
                      task[p].tries)
        BY <2>7, EvictVictimFacts, <1>u DEF EvictVictim, TaskRecord
      <4> QED
        BY <4>1, TaskShrinks, <1>u DEF TaskIs, TaskRecord
    <3> QED
      BY <3>1, <2>7, DeleteFacts, <1>t, <1>d DEF EvictVictim, Objects
  <2>8. ASSUME ForgetVictim(p)
        PROVE  TypeOK'
    <3>1. task' \in [Pods -> Tasks] /\ \A q \in Pods : TaskRecord(q)'
      BY <2>8, ForgetVictimFacts, TaskShrinks, <1>u DEF TaskIs, TaskRecord
    <3> QED
      BY <3>1, <2>8, <1>t, <1>d DEF ForgetVictim
  <2>9. ASSUME Register(p)
        PROVE  TypeOK'
    <3>1. task' \in [Pods -> Tasks] /\ \A q \in Pods : TaskRecord(q)'
      BY <2>9, RegisterFacts, TaskShrinks, <1>u DEF TaskIs, TaskRecord, Register
    <3> QED
      BY <3>1, <2>9, <1>t, <1>d DEF Register
  <2>10. ASSUME Recheck(p)
         PROVE  TypeOK'
    <3>1. task' \in [Pods -> Tasks] /\ \A q \in Pods : TaskRecord(q)'
      <4>1. task[p].pc = "recheck" /\ (task' = At(p, "bind") \/ task' = [task EXCEPT ![p] = NoTask])
        BY <2>10 DEF Recheck
      <4>2. CASE task' = At(p, "bind")
        BY <4>1, <4>2, AtFacts, TaskShrinks, <1>u DEF TaskIs, TaskRecord, Pcs
      <4> QED
        BY <4>1, <4>2, NoTaskFacts, TaskEnds DEF TaskIs
    <3> QED
      BY <3>1, <2>10, <1>t, <1>d DEF Recheck
  <2>11. ASSUME Bind(p)
         PROVE  TypeOK'
    <3>1. task[p].pc = "bind" /\ \E c \in {"bound", "failed"} : task' = At(p, c)
      BY <2>11 DEF Bind
    <3>2. task' \in [Pods -> Tasks] /\ \A q \in Pods : TaskRecord(q)'
      BY <3>1, AtFacts, TaskShrinks, <1>u DEF TaskIs, TaskRecord, Pcs
    <3>3. task[p].node \in Places
      BY <1>t DEF Tasks
    <3>4. api' \in [Pods -> Objects] /\ runs' \in [Pods -> Places]
      <4>1. \/ /\ api' = [api EXCEPT ![p].node = task[p].node]
               /\ runs' = [runs EXCEPT ![p] = task[p].node]
            \/ api' = api /\ runs' = runs
        <5>1. CASE Unscheduled(p)
          BY <2>11, <5>1, Zenon DEF Bind, StoreBinding
        <5>2. CASE ~Unscheduled(p)
          BY <2>11, <5>2, Zenon DEF Bind
        <5> QED
          BY <5>1, <5>2
      <4>2. api \in [Pods -> Objects] /\ runs \in [Pods -> Places] /\ p \in Pods
        BY <1>t
      <4>3. runs' \in [Pods -> Places]
        BY <4>1, <4>2, <3>3
      <4>4. [api[p] EXCEPT !.node = task[p].node] \in Objects
        BY <4>2, <3>3 DEF Objects
      <4>5. api' = [api EXCEPT ![p] = [api[p] EXCEPT !.node = task[p].node]] \/ api' = api
        BY <4>1
      <4>6. api' \in [Pods -> Objects]
        BY <4>5, <4>4, <4>2
      <4> QED
        BY <4>3, <4>6
    <3>5. queue' \in Seq(Reports)
      BY <2>11, <3>3, <1>t, AddsType DEF Bind, StoreBinding, Adds
    <3> QED
      BY <3>2, <3>4, <3>5, <2>11, <1>t, <1>d DEF Bind
  <2>12. ASSUME BindReturns(p)
         PROVE  TypeOK'
    <3>1. task' \in [Pods -> Tasks] /\ \A q \in Pods : TaskRecord(q)'
      BY <2>12, NoTaskFacts, TaskEnds DEF BindReturns, TaskIs
    <3> QED
      BY <3>1, <2>12, <1>t, <1>d DEF BindReturns
  <2> QED
    BY <1>9, <2>1, <2>2, <2>3, <2>4, <2>5, <2>6, <2>7, <2>8, <2>9, <2>10, <2>11, <2>12, PlanPlans
    DEF Place
<1>10. ASSUME NEW p \in Pods, Fail(p)
       PROVE  TypeOK'
  <2>1. ASSUME BindFails(p)
        PROVE  TypeOK'
    <3>1. task' \in [Pods -> Tasks] /\ \A q \in Pods : TaskRecord(q)'
      BY <2>1, AtFacts, TaskShrinks, <1>u DEF TaskIs, TaskRecord, BindFails, Pcs
    <3> QED
      BY <3>1, <2>1, <1>t, <1>d DEF BindFails
  <2>2. ASSUME NEW v \in Pods, EvictFails(p, v)
        PROVE  TypeOK'
    <3>1. task' \in [Pods -> Tasks] /\ \A q \in Pods : TaskRecord(q)'
      BY <2>2, RetryRecord DEF EvictFails
    <3> QED
      BY <3>1, <2>2, <1>t, <1>d DEF EvictFails
  <2> QED
    BY <1>10, <2>1, <2>2 DEF Fail
<1> QED
  BY <1>1, <1>2, <1>3, <1>4, <1>5, <1>6, <1>7, <1>8, <1>9, <1>10 DEF Next

-------------------------------------------------------------------------------
(* The invariant that holds whatever races occur.                          *)

\* Of a pod that was never created nothing is known.
Unborn ==
  \A p \in Pods : api[p].st = "absent" =>
    /\ api[p].node = NoNode /\ tally[p] = NoNode /\ task[p].pc = "idle" /\ p \notin listed
    /\ \A e \in Range(queue) : e.pod # p

\* A report tells the node a pod has or none; only pods that are gone are
\* reported as gone.
ReportsFit ==
  \A e \in Range(queue) :
    /\ e.node \in {NoNode, api[e.pod].node}
    /\ e.kind = "gone" => e.node = NoNode /\ api[e.pod].st = "gone"

\* Where in its task an unscheduled pod may have a reservation.
Early == {"idle", "pick", "plan", "verify"}

ReservedFit ==
  \A p \in Pods : /\ Unscheduled(p) /\ tally[p] # NoNode => task[p].pc \notin Early
                  /\ task[p].pc = "bound" => ~Unscheduled(p)

\* A task knows its node from its pick or its plan on.
NodeKnown == \A p \in Pods : task[p].pc \notin {"idle", "pick", "plan"} => task[p].node \in Nodes

VictimsBorn == \A p \in Pods : \A v \in task[p].victims : api[v].st # "absent"

ClaimsOwned == \A v \in claimed : \E q \in Pods : Evicting(q) /\ v \in task[q].victims

BaseInv ==
  TypeOK /\ Unborn /\ ReportsFit /\ ReservedFit /\ NodeKnown /\ VictimsBorn /\ ClaimsOwned

\* A step of the task of p that leaves the store and the backlog alone.
OwnStep(p) ==
  /\ task[p].pc # "idle" /\ OnlyTask(p)
  /\ api' = api /\ listed' = listed /\ queue' = queue
  /\ \A q \in Pods : q # p => tally'[q] \in {tally[q], NoNode}
  /\ tally'[p] # NoNode => task'[p].pc \notin Early \/ tally'[p] = tally[p]
  /\ task'[p].pc \in Early => task[p].pc \in Early \/ tally'[p] = NoNode \/ ~Unscheduled(p)
  /\ task'[p].pc = "bound" => ~Unscheduled(p)
  /\ \/ task'[p].pc \in {"idle", "pick", "plan"} \/ task'[p].node \in Nodes
     \/ task[p].pc \notin {"idle", "pick", "plan"} /\ task'[p].node = task[p].node
  /\ task'[p].victims \subseteq task[p].victims \/ \A v \in task'[p].victims : api[v].st # "absent"
  /\ \A v \in claimed' : \/ v \in claimed /\ ~(Evicting(p) /\ v \in task[p].victims)
                         \/ Evicting(p)' /\ v \in task'[p].victims

LEMMA VictimsArePods ==
  ASSUME TypeOK
  PROVE  \A q \in Pods : \A v \in task[q].victims : v \in Pods
  BY DEF TypeOK, Tasks

LEMMA OwnStepKeeps ==
  ASSUME BaseInv, TypeOK', NEW p \in Pods, OwnStep(p)
  PROVE  BaseInv'
<1>1. Unborn'
  BY DEF BaseInv, Unborn, OwnStep, OnlyTask
<1>2. ReportsFit'
  BY DEF BaseInv, ReportsFit, OwnStep
<1>3. ReservedFit'
  BY DEF BaseInv, ReservedFit, OwnStep, OnlyTask, Unscheduled, Live
<1>4. VictimsBorn' /\ NodeKnown'
  BY DEF BaseInv, VictimsBorn, NodeKnown, OwnStep, OnlyTask
<1>5. ClaimsOwned'
  BY DEF BaseInv, ClaimsOwned, OwnStep, OnlyTask, Evicting
<1> QED
  BY <1>1, <1>2, <1>3, <1>4, <1>5 DEF BaseInv

\* A DELETE of one pod, with or without a task step that only evicts.
LEMMA DeleteKeeps ==
  ASSUME BaseInv, TypeOK', NEW v \in Pods, DeleteStored(v),
         listed' = listed, tally' = tally, claimed' = claimed,
         \A q \in Pods : /\ task'[q].victims = task[q].victims /\ task'[q].node = task[q].node
                         /\ \/ task'[q].pc = task[q].pc
                            \/ task[q].pc = "evict" /\ task'[q].pc = "forget"
  PROVE  BaseInv'
<1>t. TypeOK
  BY DEF BaseInv
<1>d. /\ \A q \in Pods : q # v => api'[q] = api[q]
      /\ api'[v].node = api[v].node
      /\ \/ /\ api[v].st \in {"absent", "gone"} /\ api' = api /\ Range(queue') = Range(queue)
         \/ /\ api[v].st = "leaving" /\ api'[v].st = "gone"
            /\ Range(queue') = Range(queue) \cup {Event(v, "gone", NoNode)}
         \/ /\ api[v].st = "live" /\ api'[v].st = "leaving"
            /\ Range(queue') = Range(queue) \cup {Event(v, "leaving", api[v].node)}
  BY <1>t, DeleteFacts
<1>e. /\ Event(v, "gone", NoNode).pod = v /\ Event(v, "gone", NoNode).node = NoNode
      /\ Event(v, "gone", NoNode).kind = "gone"
      /\ Event(v, "leaving", api[v].node).pod = v
      /\ Event(v, "leaving", api[v].node).node = api[v].node
      /\ Event(v, "leaving", api[v].node).kind = "leaving"
  BY DEF Event
<1>f. \A e \in Range(queue) : e.pod \in Pods
  BY <1>t, BacklogType
<1>1. Unborn'
  BY <1>d, <1>e DEF BaseInv, Unborn
<1>2. ReportsFit'
  BY <1>d, <1>e, <1>f DEF BaseInv, ReportsFit
<1>3. ReservedFit'
  BY <1>d DEF BaseInv, ReservedFit, Unscheduled, Live, Early
<1>4. VictimsBorn' /\ NodeKnown'
  BY <1>d, <1>t, VictimsArePods DEF BaseInv, VictimsBorn, NodeKnown
<1>5. ClaimsOwned'
  BY DEF BaseInv, ClaimsOwned, Evicting
<1> QED
  BY <1>1, <1>2, <1>3, <1>4, <1>5 DEF BaseInv

LEMMA PlaceBase ==
  ASSUME BaseInv, TypeOK', NEW p \in Pods, Place(p)
  PROVE  BaseInv'
<1>t. TypeOK
  BY DEF BaseInv
<1>1. ASSUME NEW n \in Nodes, PickNode(p, n)
      PROVE  BaseInv'
  <2>1. LET t == task[p] IN TaskIs(p, "bind", n, t.victims, t.left, t.cur, t.tries)
    BY <1>1, <1>t, PickNodeFacts
  <2>2. OwnStep(p)
    BY <2>1, <1>1, <1>t DEF OwnStep, TaskIs, PickNode, Early, Evicting, TypeOK
  <2> QED
    BY <2>2, OwnStepKeeps
<1>2. ASSUME PickNothing(p)
      PROVE  BaseInv'
  <2>1. LET t == task[p] IN TaskIs(p, "plan", t.node, t.victims, t.left, t.cur, t.tries)
    BY <1>2, <1>t, AtFacts DEF PickNothing, Pcs
  <2>2. OwnStep(p)
    BY <2>1, <1>2, <1>t DEF OwnStep, TaskIs, PickNothing, Early, Evicting, TypeOK
  <2> QED
    BY <2>2, OwnStepKeeps
<1>3. ASSUME NEW n \in Nodes, NEW V \in SUBSET Pods, Planned(p, n, V)
      PROVE  BaseInv'
  <2>1. TaskIs(p, "verify", n, V, V, task[p].cur, task[p].tries)
    BY <1>3, <1>t, PlanFacts
  <2>2. \A v \in V : tally[v] = n /\ tally[v] # NoNode
    BY <1>3, SchedulerConstants DEF Planned, VictimSets, PodsOn, OnNode
  <2>3. \A v \in V : api[v].st # "absent"
    BY <2>2 DEF BaseInv, Unborn
  <2>4. OwnStep(p)
    BY <2>1, <2>3, <1>3, <1>t DEF OwnStep, TaskIs, Planned, Early, Evicting, TypeOK
  <2> QED
    BY <2>4, OwnStepKeeps
<1>4. ASSUME NoPlan(p)
      PROVE  BaseInv'
  <2>1. /\ OnlyTask(p) /\ task'[p].pc \in {"plan", "idle"}
        /\ task'[p].victims \subseteq task[p].victims
    BY <1>4, <1>t, RetryFacts DEF NoPlan, TaskIs
  <2>2. OwnStep(p)
    BY <2>1, <1>4, <1>t DEF OwnStep, NoPlan, Early, Evicting, TypeOK
  <2> QED
    BY <2>2, OwnStepKeeps
<1>5. ASSUME Verify(p)
      PROVE  BaseInv'
  <2>1. CASE Fits(p, task[p].node, PodsOn(task[p].node) \ task[p].victims)
    <3>1. /\ task[p].pc = "verify" /\ task' = At(p, "nominate")
          /\ claimed' = claimed \cup task[p].victims
          /\ tally' = [tally EXCEPT ![p] = task[p].node]
          /\ api' = api /\ listed' = listed /\ queue' = queue
      BY <1>5, <2>1 DEF Verify
    <3>2. LET t == task[p] IN TaskIs(p, "nominate", t.node, t.victims, t.left, t.cur, t.tries)
      BY <3>1, <1>t, AtFacts DEF Pcs
    <3>3. OwnStep(p)
      BY <3>1, <3>2, <1>t DEF OwnStep, TaskIs, Early, Evicting, TypeOK
    <3> QED
      BY <3>3, OwnStepKeeps
  <2>2. CASE ~Fits(p, task[p].node, PodsOn(task[p].node) \ task[p].victims)
    <3>1. /\ task[p].pc = "verify" /\ task' = Retry(p) /\ claimed' = claimed /\ tally' = tally
          /\ api' = api /\ listed' = listed /\ queue' = queue
      BY <1>5, <2>2 DEF Verify
    <3>2. /\ OnlyTask(p) /\ task'[p].pc \in {"plan", "idle"}
          /\ task'[p].victims \subseteq task[p].victims
      BY <3>1, <1>t, RetryFacts DEF TaskIs
    <3>3. OwnStep(p)
      BY <3>1, <3>2, <1>t DEF OwnStep, Early, Evicting, TypeOK
    <3> QED
      BY <3>3, OwnStepKeeps
  <2> QED
    BY <2>1, <2>2
<1>6. ASSUME Nominate(p)
      PROVE  BaseInv'
  <2>1. LET t == task[p] IN TaskIs(p, "evict", t.node, t.victims, t.left, t.cur, t.tries)
    BY <1>6, <1>t, AtFacts DEF Nominate, Pcs
  <2>2. /\ task[p].pc = "nominate" /\ api' = api /\ listed' = listed /\ tally' = tally
        /\ claimed' = claimed
    BY <1>6 DEF Nominate
  <2> DEFINE e == Event(p, "live", NoNode)
  <2>3. e.pod = p /\ e.node = NoNode /\ e.kind = "live"
    BY DEF Event
  <2>4. Range(queue') \subseteq Range(queue) \cup {e}
    BY <1>6, <1>t, AddsType DEF Nominate, Adds, Places
  <2> HIDE DEF e
  <2>5. Unborn' /\ ReportsFit'
    BY <2>1, <2>2, <2>3, <2>4 DEF BaseInv, Unborn, ReportsFit, TaskIs, OnlyTask
  <2>6. ReservedFit' /\ VictimsBorn' /\ NodeKnown'
    BY <2>1, <2>2 DEF BaseInv, ReservedFit, VictimsBorn, NodeKnown, TaskIs, OnlyTask, Unscheduled, Live, Early
  <2>7. ClaimsOwned'
    BY <2>1, <2>2 DEF BaseInv, ClaimsOwned, TaskIs, OnlyTask, Evicting
  <2> QED
    BY <2>5, <2>6, <2>7 DEF BaseInv
<1>7. ASSUME NEW v \in Pods, EvictVictim(p, v)
      PROVE  BaseInv'
  <2>1. LET t == task[p] IN TaskIs(p, "forget", t.node, t.victims, t.left \ {v}, {v}, t.tries)
    BY <1>7, <1>t, EvictVictimFacts
  <2>2. \A q \in Pods : /\ task'[q].victims = task[q].victims /\ task'[q].node = task[q].node
                        /\ \/ task'[q].pc = task[q].pc
                           \/ task[q].pc = "evict" /\ task'[q].pc = "forget"
    BY <2>1, <1>7 DEF TaskIs, OnlyTask, EvictVictim
  <2> QED
    BY <2>2, <1>7, DeleteKeeps DEF EvictVictim
<1>8. ASSUME ForgetVictim(p)
      PROVE  BaseInv'
  <2>1. /\ OnlyTask(p) /\ task'[p].pc \in {"register", "evict"}
        /\ task'[p].victims = task[p].victims /\ task'[p].node = task[p].node
    BY <1>8, <1>t, ForgetVictimFacts DEF TaskIs
  <2>2. OwnStep(p)
    BY <2>1, <1>8, <1>t DEF OwnStep, ForgetVictim, Early, Evicting, TypeOK
  <2> QED
    BY <2>2, OwnStepKeeps
<1>9. ASSUME Register(p)
      PROVE  BaseInv'
  <2>1. LET t == task[p] IN TaskIs(p, "wait", t.node, t.victims, t.victims, t.cur, t.tries)
    BY <1>9, <1>t, RegisterFacts
  <2>2. OwnStep(p)
    BY <2>1, <1>9, <1>t DEF OwnStep, TaskIs, Register, Early, Evicting, TypeOK
  <2> QED
    BY <2>2, OwnStepKeeps
<1>10. ASSUME Recheck(p)
       PROVE  BaseInv'
  <2>1. /\ task[p].pc = "recheck"
        /\ \/ task' = At(p, "bind") /\ tally' = tally
           \/ task' = [task EXCEPT ![p] = NoTask] /\ tally' = [tally EXCEPT ![p] = NoNode]
        /\ api' = api /\ listed' = listed /\ queue' = queue /\ claimed' = claimed
    BY <1>10 DEF Recheck
  <2>2. CASE task' = At(p, "bind") /\ tally' = tally
    <3>1. LET t == task[p] IN TaskIs(p, "bind", t.node, t.victims, t.left, t.cur, t.tries)
      BY <2>2, <1>t, AtFacts DEF Pcs
    <3>2. OwnStep(p)
      BY <3>1, <2>1, <2>2, <1>t DEF OwnStep, TaskIs, Early, Evicting, TypeOK
    <3> QED
      BY <3>2, OwnStepKeeps
  <2>3. CASE task' = [task EXCEPT ![p] = NoTask] /\ tally' = [tally EXCEPT ![p] = NoNode]
    <3>1. TaskIs(p, "idle", NoNode, {}, {}, {}, 0)
      BY <2>3, <1>t, NoTaskFacts
    <3>2. OwnStep(p)
      BY <3>1, <2>1, <2>3, <1>t DEF OwnStep, TaskIs, Early, Evicting, TypeOK
    <3> QED
      BY <3>2, OwnStepKeeps
  <2> QED
    BY <2>1, <2>2, <2>3
<1>11. ASSUME Bind(p)
       PROVE  BaseInv'
  <2>1. CASE ~Unscheduled(p)
    <3>1. \E c \in {"bound", "failed"} : task' = At(p, c)
      BY <1>11, <2>1 DEF Bind
    <3>2. /\ OnlyTask(p) /\ task'[p].pc \in {"bound", "failed"}
          /\ task'[p].victims = task[p].victims
          /\ task'[p].node = task[p].node
      BY <3>1, <1>t, AtFacts DEF Pcs, TaskIs
    <3>3. OwnStep(p)
      BY <3>2, <2>1, <1>11, <1>t DEF OwnStep, Bind, Early, Evicting, TypeOK
    <3> QED
      BY <3>3, OwnStepKeeps
  <2>2. CASE Unscheduled(p)
    <3> DEFINE n == task[p].node
               e == Event(p, "live", n)
    <3>1. /\ task[p].pc = "bind" /\ StoreBinding(p, n) /\ listed' = listed /\ tally' = tally
          /\ claimed' = claimed /\ \E c \in {"bound", "failed"} : task' = At(p, c)
      BY <1>11, <2>2 DEF Bind
    <3>2. /\ OnlyTask(p) /\ task'[p].pc \in {"bound", "failed"}
          /\ task'[p].victims = task[p].victims
          /\ task'[p].node = task[p].node
      BY <3>1, <1>t, AtFacts DEF Pcs, TaskIs
    <3>3. n \in Places
      BY <1>t DEF TypeOK, Tasks
    <3>4. Adds(e)
      BY <3>1, <3>3, <1>t, AddsType DEF StoreBinding
    <3>5. e.pod = p /\ e.node = n /\ e.kind = "live"
      BY DEF Event
    <3>6. /\ api'[p].node = n /\ api'[p].st = api[p].st
          /\ \A q \in Pods : q # p => api'[q] = api[q]
      BY <3>1, <1>t DEF StoreBinding, TypeOK
    <3>8. \A x \in Range(queue) : x.pod \in Pods
      BY <1>t, BacklogType
    <3> HIDE DEF n, e
    <3>7. api[p].node = NoNode /\ api[p].st \in {"live", "leaving"}
      BY <2>2 DEF Unscheduled, Live
    <3>9. Unborn'
      BY <3>1, <3>2, <3>4, <3>5, <3>6, <3>7 DEF BaseInv, Unborn, OnlyTask, Adds
    <3>10. ReportsFit'
      BY <3>4, <3>5, <3>6, <3>7, <3>8 DEF BaseInv, ReportsFit, Adds
    <3>11. \A q \in Pods : q # p => (Unscheduled(q)' <=> Unscheduled(q))
      BY <3>6 DEF Unscheduled, Live
    <3>12. n # NoNode
      BY <3>1, SchedulerConstants DEF BaseInv, NodeKnown, n
    <3>13. ReservedFit'
      BY <3>1, <3>2, <3>6, <3>11, <3>12
      DEF BaseInv, ReservedFit, OnlyTask, Unscheduled, Live, Early
    <3>14. VictimsBorn'
      BY <3>2, <3>6, <1>t, VictimsArePods DEF BaseInv, VictimsBorn, OnlyTask
    <3>15. NodeKnown'
      BY <3>1, <3>2 DEF BaseInv, NodeKnown, OnlyTask
    <3>16. ClaimsOwned'
      BY <3>1, <3>2 DEF BaseInv, ClaimsOwned, OnlyTask, Evicting
    <3> QED
      BY <3>9, <3>10, <3>13, <3>14, <3>15, <3>16 DEF BaseInv
  <2> QED
    BY <2>1, <2>2
<1>12. ASSUME BindReturns(p)
       PROVE  BaseInv'
  <2>1. TaskIs(p, "idle", NoNode, {}, {}, {}, 0)
    BY <1>12, <1>t, NoTaskFacts DEF BindReturns
  <2>2. OwnStep(p)
    BY <2>1, <1>12, <1>t DEF OwnStep, TaskIs, BindReturns, Early, Evicting, TypeOK, BaseInv, ReservedFit
  <2> QED
    BY <2>2, OwnStepKeeps
<1> QED
  BY <1>1, <1>2, <1>3, <1>4, <1>5, <1>6, <1>7, <1>8, <1>9, <1>10, <1>11, <1>12, PlanPlans DEF Place

LEMMA BaseNext == BaseInv /\ [Next]_vars => BaseInv'
<1> SUFFICES ASSUME BaseInv, [Next]_vars
             PROVE  BaseInv'
  OBVIOUS
<1>t. TypeOK /\ TypeOK'
  BY TypeNext DEF BaseInv
<1>1. CASE UNCHANGED vars
  <2>1. Unborn' /\ ReportsFit' /\ VictimsBorn' /\ NodeKnown'
    BY <1>1 DEF BaseInv, Unborn, ReportsFit, VictimsBorn, NodeKnown, vars
  <2>2. ReservedFit' /\ ClaimsOwned'
    BY <1>1 DEF BaseInv, ReservedFit, ClaimsOwned, Evicting, Unscheduled, Live, vars
  <2> QED
    BY <2>1, <2>2, <1>t DEF BaseInv
<1>2. ASSUME NEW p \in Pods, CreatePod(p)
      PROVE  BaseInv'
  <2> DEFINE e == Event(p, "live", NoNode)
  <2>1. Adds(e)
    BY <1>2, <1>t, AddsType DEF CreatePod, Places
  <2>2. e.pod = p /\ e.node = NoNode /\ e.kind = "live"
    BY DEF Event
  <2>3. /\ api'[p].node = api[p].node /\ api[p].st = "absent" /\ api'[p].st = "live"
        /\ \A q \in Pods : q # p => api'[q] = api[q]
    BY <1>2, <1>t DEF CreatePod, TypeOK
  <2>4. listed' = listed /\ tally' = tally /\ claimed' = claimed /\ task' = task
    BY <1>2 DEF CreatePod
  <2>5. \A x \in Range(queue) : x.pod \in Pods
    BY <1>t, BacklogType
  <2> HIDE DEF e
  <2>6. Unborn' /\ ReportsFit'
    BY <2>1, <2>2, <2>3, <2>4, <2>5 DEF BaseInv, Unborn, ReportsFit, Adds
  <2>7. ReservedFit'
    BY <2>3, <2>4 DEF BaseInv, ReservedFit, Unborn, Unscheduled, Live
  <2>8. VictimsBorn' /\ NodeKnown'
    BY <2>3, <2>4, <1>t, VictimsArePods DEF BaseInv, VictimsBorn, NodeKnown
  <2>9. ClaimsOwned'
    BY <2>4 DEF BaseInv, ClaimsOwned, Evicting
  <2> QED
    BY <2>6, <2>7, <2>8, <2>9, <1>t DEF BaseInv
<1>3. ASSUME NEW p \in Pods, UserDelete(p)
      PROVE  BaseInv'
  BY <1>3, <1>t, DeleteKeeps DEF UserDelete
<1>4. ASSUME NEW p \in Pods, EndPod(p)
      PROVE  BaseInv'
  BY <1>4, <1>t, DeleteKeeps DEF EndPod
<1>5. CASE Deliver
  <2> DEFINE e == Head(queue)
             v == e.pod
  <2>1. /\ e \in Reports /\ Range(queue) = {e} \cup Range(queue')
    BY <1>5, <1>t, TailRange DEF Deliver, TypeOK
  <2>2. v \in Pods /\ e.node \in Places
    BY <2>1 DEF Reports
  <2>3. api' = api /\ listed' = listed /\ claimed' = claimed
    BY <1>5 DEF Deliver
  <2>4. \/ /\ e.kind = "gone" /\ tally' = [tally EXCEPT ![v] = NoNode] /\ task' = Resolved(v)
        \/ /\ e.node # NoNode /\ tally' = [tally EXCEPT ![v] = e.node] /\ task' = task
        \/ tally' = tally /\ task' = Started(v)
    BY <1>5 DEF Deliver
  <2>5. api[v].st # "absent" /\ e.node \in {NoNode, api[v].node}
    BY <2>1, <2>2 DEF BaseInv, Unborn, ReportsFit
  <2>6. ReportsFit'
    BY <2>1, <2>3 DEF BaseInv, ReportsFit
  <2>t. tally \in [Pods -> Places]
    BY <1>t DEF TypeOK
  <2> HIDE DEF e, v
  <2>7. CASE tally' = [tally EXCEPT ![v] = NoNode] /\ task' = Resolved(v)
    <3>1. \A q \in Pods :
            /\ task[q].pc # "wait" => task'[q].pc = task[q].pc
            /\ task[q].pc = "wait" => task'[q].pc \in {"wait", "recheck"}
            /\ task'[q].victims = task[q].victims /\ task'[q].node = task[q].node
      BY <2>7, <2>2, <1>t, ResolvedType
    <3>2. \A q \in Pods : tally'[q] \in {tally[q], NoNode}
      BY <2>7, <2>t
    <3>3. Unborn'
      BY <2>1, <2>3, <3>1, <3>2 DEF BaseInv, Unborn
    <3>4. ReservedFit'
      BY <2>3, <3>1, <3>2 DEF BaseInv, ReservedFit, Unscheduled, Live, Early
    <3>5. VictimsBorn' /\ NodeKnown'
      BY <2>3, <3>1 DEF BaseInv, VictimsBorn, NodeKnown
    <3>6. ClaimsOwned'
      BY <2>3, <3>1 DEF BaseInv, ClaimsOwned, Evicting
    <3> QED
      BY <2>6, <3>3, <3>4, <3>5, <3>6, <1>t DEF BaseInv
  <2>8. CASE e.node # NoNode /\ tally' = [tally EXCEPT ![v] = e.node] /\ task' = task
    <3>1. \A q \in Pods : tally'[q] = tally[q] \/ (q = v /\ ~Unscheduled(q))
      BY <2>8, <2>t, <2>5 DEF Unscheduled
    <3>2. Unborn'
      BY <2>1, <2>3, <2>5, <2>8, <3>1 DEF BaseInv, Unborn
    <3>3. ReservedFit'
      BY <2>3, <2>8, <3>1 DEF BaseInv, ReservedFit, Unscheduled, Live
    <3>4. VictimsBorn' /\ NodeKnown'
      BY <2>3, <2>8 DEF BaseInv, VictimsBorn, NodeKnown
    <3>5. ClaimsOwned'
      BY <2>3, <2>8 DEF BaseInv, ClaimsOwned, Evicting
    <3> QED
      BY <2>6, <3>2, <3>3, <3>4, <3>5, <1>t DEF BaseInv
  <2>9. CASE tally' = tally /\ task' = Started(v)
    <3>1. \A q \in Pods : \/ task'[q] = task[q]
                          \/ /\ q = v /\ task[q].pc = "idle" /\ task'[q].pc = "pick"
                             /\ task'[q].victims = {}
      BY <2>9, <2>2, <1>t, StartedType
    <3>2. Unborn'
      BY <2>1, <2>3, <2>5, <2>9, <3>1 DEF BaseInv, Unborn
    <3>3. ReservedFit'
      BY <2>3, <2>9, <3>1 DEF BaseInv, ReservedFit, Unscheduled, Live, Early
    <3>4. VictimsBorn' /\ NodeKnown'
      BY <2>3, <3>1 DEF BaseInv, VictimsBorn, NodeKnown
    <3>5. ClaimsOwned'
      BY <2>3, <3>1 DEF BaseInv, ClaimsOwned, Evicting
    <3> QED
      BY <2>6, <3>2, <3>3, <3>4, <3>5, <1>t DEF BaseInv
  <2> QED
    BY <2>4, <2>7, <2>8, <2>9
<1>6. ASSUME NEW p \in Pods, ResyncList(p)
      PROVE  BaseInv'
  <2>1. /\ listed' = {p} /\ Unscheduled(p) /\ api' = api /\ queue' = queue /\ tally' = tally
        /\ claimed' = claimed /\ task' = task
    BY <1>6 DEF ResyncList
  <2>2. Unborn' /\ ReportsFit' /\ VictimsBorn' /\ NodeKnown'
    BY <2>1 DEF BaseInv, Unborn, ReportsFit, VictimsBorn, NodeKnown, Unscheduled, Live
  <2>3. ReservedFit' /\ ClaimsOwned'
    BY <2>1 DEF BaseInv, ReservedFit, ClaimsOwned, Evicting, Unscheduled, Live
  <2> QED
    BY <2>2, <2>3, <1>t DEF BaseInv
<1>7. ASSUME NEW p \in Pods, ResyncHandle(p)
      PROVE  BaseInv'
  <2>1. /\ p \in listed /\ listed' = listed \ {p} /\ task' = Started(p) /\ api' = api
        /\ queue' = queue /\ tally' = tally /\ claimed' = claimed
    BY <1>7 DEF ResyncHandle
  <2>2. \A q \in Pods : \/ task'[q] = task[q]
                        \/ /\ q = p /\ task[q].pc = "idle" /\ task'[q].pc = "pick"
                           /\ task'[q].victims = {}
    BY <2>1, <1>t, StartedType
  <2>3. Unborn' /\ ReportsFit' /\ VictimsBorn' /\ NodeKnown'
    BY <2>1, <2>2 DEF BaseInv, Unborn, ReportsFit, VictimsBorn, NodeKnown
  <2>4. ReservedFit'
    BY <2>1, <2>2 DEF BaseInv, ReservedFit, Unscheduled, Live, Early
  <2>5. ClaimsOwned'
    BY <2>1, <2>2 DEF BaseInv, ClaimsOwned, Evicting
  <2> QED
    BY <2>3, <2>4, <2>5, <1>t DEF BaseInv
<1>8. CASE Reconnect
  <2>1. /\ api' = api /\ listed' = listed /\ claimed' = {}
        /\ \A p \in Pods : tally'[p] = IF Live(p) THEN api[p].node ELSE NoNode
        /\ \A q \in Pods : task'[q] = IF task[q].pc = "wait" THEN NoTask ELSE task[q]
    BY <1>8 DEF Reconnect
  <2>2. \A e \in Range(queue') : \E p \in Pods :
          Unscheduled(p) /\ e.pod = p /\ e.node = NoNode /\ e.kind = "live"
    BY <1>8, <1>t, RelistFacts DEF Event
  <2>3. NoTask.pc = "idle" /\ NoTask.victims = {}
    BY DEF NoTask
  <2>4. Unborn' /\ ReportsFit'
    BY <2>1, <2>2, <2>3 DEF BaseInv, Unborn, ReportsFit, Unscheduled, Live
  <2>5. ReservedFit'
    BY <2>1, <2>3 DEF BaseInv, ReservedFit, Unscheduled, Live
  <2>6. VictimsBorn' /\ NodeKnown'
    BY <2>1, <2>3 DEF BaseInv, VictimsBorn, NodeKnown
  <2>7. ClaimsOwned'
    BY <2>1 DEF ClaimsOwned
  <2> QED
    BY <2>4, <2>5, <2>6, <2>7, <1>t DEF BaseInv
<1>9. ASSUME NEW p \in Pods, Place(p)
      PROVE  BaseInv'
  BY <1>9, <1>t, PlaceBase
<1>10. ASSUME NEW p \in Pods, BindFails(p)
       PROVE  BaseInv'
  <2>1. LET t == task[p] IN TaskIs(p, "failed", t.node, t.victims, t.left, t.cur, t.tries)
    BY <1>10, <1>t, AtFacts DEF BindFails, Pcs
  <2>2. OwnStep(p)
    BY <2>1, <1>10, <1>t DEF OwnStep, TaskIs, BindFails, Early, Evicting, TypeOK
  <2> QED
    BY <2>2, <1>t, OwnStepKeeps
<1>11. ASSUME NEW p \in Pods, NEW v \in Pods, EvictFails(p, v)
       PROVE  BaseInv'
  <2>1. /\ OnlyTask(p) /\ task'[p].pc \in {"plan", "idle"}
        /\ task'[p].victims \subseteq task[p].victims
    BY <1>11, <1>t, RetryFacts DEF EvictFails, TaskIs
  <2>2. OwnStep(p)
    BY <2>1, <1>11, <1>t DEF OwnStep, EvictFails, Early, Evicting, TypeOK
  <2> QED
    BY <2>2, <1>t, OwnStepKeeps
<1> QED
  BY <1>1, <1>2, <1>3, <1>4, <1>5, <1>6, <1>7, <1>8, <1>9, <1>10, <1>11 DEF Next, Fail

LEMMA BaseInit == Init => BaseInv
<1> SUFFICES ASSUME Init PROVE BaseInv
  OBVIOUS
<1>1. Range(queue) = {} /\ listed = {} /\ claimed = {}
  BY DEF Init, Range
<1>2. \A p \in Pods : /\ task[p].pc = "idle" /\ task[p].victims = {}
                      /\ api[p].node = Start[p] /\ tally[p] = Start[p]
                      /\ api[p].st = IF Start[p] = NoNode THEN "absent" ELSE "live"
  BY DEF Init, NoTask
<1>3. Unborn /\ ReportsFit /\ VictimsBorn /\ NodeKnown /\ ClaimsOwned
  BY <1>1, <1>2 DEF Unborn, ReportsFit, VictimsBorn, NodeKnown, ClaimsOwned
<1>4. ReservedFit
  BY <1>2 DEF ReservedFit, Unscheduled, Live
<1> QED
  BY <1>3, <1>4, TypeInit DEF BaseInv

(* The inductive invariant holds in every state, whatever interleaves: the *)
(* watch's backlog, the tally, the task records and the claims of the      *)
(* scheduler's maps fit the stored pods and each other.                    *)
THEOREM SchedulerInvariant == Spec => []BaseInv
<1>1. BaseInv /\ [Next]_vars => BaseInv'
  BY BaseNext
<1> QED
  BY BaseInit, <1>1, PTL DEF Spec

(* A claimed victim belongs to a plan that is still evicting, and the task *)
(* records are well formed, whatever interleaves: failed evictions, retries *)
(* and reconnects leave no claim behind (claim_victims, release_victims).  *)
THEOREM ClaimsHaveOwners == Spec => []ClaimHasOwner
<1>1. BaseInv => ClaimHasOwner
  BY DEF BaseInv, ClaimsOwned, ClaimHasOwner
<1> QED
  BY <1>1, SchedulerInvariant, PTL

(* A reservation for a pod that is not bound belongs to a task, whatever   *)
(* interleaves: every way out of a task gives it back (assume and the      *)
(* roll-backs of preempt_and_pick_node, bind_reserved_node and             *)
(* attempt_deferred_bind).                                                 *)
THEOREM ReservationsHaveOwners == Spec => []ReservationHasOwner
<1>1. BaseInv => ReservationHasOwner
  BY DEF BaseInv, ReservedFit, ReservationHasOwner, InFlight, Early
<1> QED
  BY <1>1, SchedulerInvariant, PTL

-------------------------------------------------------------------------------
(* What the scheduler knows of stored bindings, when no stale report of a  *)
(* pending pod is handled after its bind and no answer to a bind is lost.  *)

\* Nothing that was read before the bind of p is still to be handled.
Clean(p) ==
  /\ p \notin listed
  /\ \A e \in Range(queue) : e.pod = p => e.node # NoNode \/ e.kind = "gone"

\* A pod with a node has no task, but for the answer to its bind.
BoundSettled ==
  \A p \in Pods : api[p].node # NoNode =>
    task[p].pc = "bound" \/ (task[p].pc = "idle" /\ Clean(p))

\* The victim whose tally entry is about to be dropped is being deleted.
CurMarked == \A p \in Pods : \A v \in task[p].cur : Marked(v)

TallyKnows ==
  \A p \in Pods :
    api[p].st = "live" /\ api[p].node # NoNode /\ tally[p] # api[p].node
      => \E e \in Range(queue) : e.pod = p /\ e.node = api[p].node

KnownInv == BoundSettled /\ CurMarked /\ TallyKnows

\* A step of the task of p that leaves the store and the backlog alone.
OwnKnown(p) ==
  /\ OnlyTask(p) /\ api' = api /\ listed' = listed /\ queue' = queue
  /\ api[p].node = NoNode \/ (task'[p].pc = "idle" /\ Clean(p))
  /\ task'[p].cur \subseteq task[p].cur
  /\ \A q \in Pods : \/ tally'[q] = tally[q] \/ api[q].st # "live"
                     \/ q = p /\ api[p].node = NoNode

LEMMA OwnKnownKeeps ==
  ASSUME KnownInv, NEW p \in Pods, OwnKnown(p)
  PROVE  KnownInv'
<1>1. BoundSettled'
  BY DEF KnownInv, BoundSettled, OwnKnown, OnlyTask, Clean
<1>2. CurMarked'
  BY DEF KnownInv, CurMarked, OwnKnown, OnlyTask, Marked
<1>3. TallyKnows'
  BY DEF KnownInv, TallyKnows, OwnKnown
<1> QED
  BY <1>1, <1>2, <1>3 DEF KnownInv

\* A DELETE of one pod.
LEMMA DeleteKnown ==
  ASSUME BaseInv, KnownInv, NEW v \in Pods, DeleteStored(v),
         listed' = listed, tally' = tally,
         \A q \in Pods : /\ \/ task'[q].pc = task[q].pc
                            \/ task[q].pc = "evict" /\ task'[q].pc = "forget"
                         /\ \A w \in task'[q].cur : w \in task[q].cur \/ w = v
                         /\ v \in task'[q].cur => api[v].st # "absent"
  PROVE  KnownInv'
<1>t. TypeOK
  BY DEF BaseInv
<1>d. /\ \A q \in Pods : q # v => api'[q] = api[q]
      /\ api'[v].node = api[v].node
      /\ \/ /\ api[v].st \in {"absent", "gone"} /\ api' = api /\ Range(queue') = Range(queue)
         \/ /\ api[v].st = "leaving" /\ api'[v].st = "gone"
            /\ Range(queue') = Range(queue) \cup {Event(v, "gone", NoNode)}
         \/ /\ api[v].st = "live" /\ api'[v].st = "leaving"
            /\ Range(queue') = Range(queue) \cup {Event(v, "leaving", api[v].node)}
  BY <1>t, DeleteFacts
<1>e. /\ Event(v, "gone", NoNode).pod = v /\ Event(v, "gone", NoNode).kind = "gone"
      /\ Event(v, "leaving", api[v].node).pod = v
      /\ Event(v, "leaving", api[v].node).node = api[v].node
  BY DEF Event
<1>1. BoundSettled'
  BY <1>d, <1>e DEF KnownInv, BoundSettled, Clean
<1>2. CurMarked'
  <2> SUFFICES ASSUME NEW q \in Pods, NEW w \in task'[q].cur
               PROVE  Marked(w)'
    BY DEF CurMarked
  <2>1. w = v \/ (w \in task[q].cur /\ w \in Pods /\ w # v)
    BY <1>t DEF TypeOK, Tasks
  <2>2. CASE w = v
    <3>1. api[v].st \in {"absent", "live", "leaving", "gone"} /\ api[v].st # "absent"
      BY <2>2, <1>t DEF TypeOK
    <3> QED
      BY <2>2, <3>1, <1>d DEF Marked
  <2>3. CASE w \in task[q].cur /\ w \in Pods /\ w # v
    BY <2>3, <1>d DEF KnownInv, CurMarked, Marked
  <2> QED
    BY <2>1, <2>2, <2>3
<1>3. TallyKnows'
  BY <1>d DEF KnownInv, TallyKnows
<1> QED
  BY <1>1, <1>2, <1>3 DEF KnownInv

LEMMA KnownNext ==
  ASSUME Races \cap {"stale", "lost"} = {}
  PROVE  BaseInv /\ KnownInv /\ [Next]_vars => KnownInv'
<1> SUFFICES ASSUME BaseInv, KnownInv, [Next]_vars
             PROVE  KnownInv'
  OBVIOUS
<1>t. TypeOK /\ tally \in [Pods -> Places] /\ api \in [Pods -> Objects]
  BY DEF BaseInv, TypeOK, Objects
<1>u. \A p \in Pods : task[p].pc \notin {"idle", "bound"} => api[p].node = NoNode
  BY DEF KnownInv, BoundSettled
<1>c. \A p \in Pods : task[p].pc = "forget" \/ task[p].cur = {}
  BY <1>t DEF TypeOK
<1>1. CASE UNCHANGED vars
  <2>1. BoundSettled' /\ TallyKnows'
    BY <1>1 DEF vars, KnownInv, BoundSettled, Clean, TallyKnows
  <2>2. CurMarked'
    BY <1>1 DEF vars, KnownInv, CurMarked, Marked
  <2> QED
    BY <2>1, <2>2 DEF KnownInv
<1>2. ASSUME NEW p \in Pods, CreatePod(p)
      PROVE  KnownInv'
  <2> DEFINE e == Event(p, "live", NoNode)
  <2>1. Adds(e)
    BY <1>2, <1>t, AddsType DEF CreatePod, Places
  <2>2. e.pod = p
    BY DEF Event
  <2>3. /\ api[p].st = "absent" /\ api'[p].node = api[p].node /\ api'[p].st = "live"
        /\ \A q \in Pods : q # p => api'[q] = api[q]
    BY <1>2, <1>t DEF CreatePod, TypeOK
  <2>4. listed' = listed /\ tally' = tally /\ task' = task
    BY <1>2 DEF CreatePod
  <2>5. api[p].node = NoNode
    BY <2>3 DEF BaseInv, Unborn
  <2> HIDE DEF e
  <2>6. BoundSettled'
    BY <2>1, <2>2, <2>3, <2>4, <2>5 DEF KnownInv, BoundSettled, Clean, Adds
  <2>7. CurMarked'
    <3> SUFFICES ASSUME NEW q \in Pods, NEW w \in task[q].cur
                 PROVE  Marked(w)'
      BY <2>4 DEF CurMarked
    <3>1. Marked(w) /\ w \in Pods
      BY <1>t DEF KnownInv, CurMarked, TypeOK, Tasks
    <3> QED
      BY <3>1, <2>3 DEF Marked
  <2>8. TallyKnows'
    BY <2>1, <2>3, <2>4, <2>5 DEF KnownInv, TallyKnows, Adds
  <2> QED
    BY <2>6, <2>7, <2>8 DEF KnownInv
<1>3. ASSUME NEW p \in Pods, UserDelete(p)
      PROVE  KnownInv'
  <2>1. DeleteStored(p) /\ listed' = listed /\ tally' = tally /\ task' = task /\ api[p].st = "live"
    BY <1>3 DEF UserDelete
  <2> QED
    BY <2>1, DeleteKnown
<1>4. ASSUME NEW p \in Pods, EndPod(p)
      PROVE  KnownInv'
  <2>1. /\ DeleteStored(p) /\ listed' = listed /\ tally' = tally /\ task' = task
        /\ api[p].st # "absent"
    BY <1>4 DEF EndPod, Marked
  <2> QED
    BY <2>1, DeleteKnown
<1>5. CASE Deliver
  <2> DEFINE e == Head(queue)
             v == e.pod
  <2>1. e \in Reports /\ Range(queue) = {e} \cup Range(queue')
    BY <1>5, <1>t, TailRange DEF Deliver, TypeOK
  <2>2. v \in Pods /\ e.node \in Places
    BY <2>1 DEF Reports
  <2>3. api' = api /\ listed' = listed
    BY <1>5 DEF Deliver
  <2>4. \/ /\ e.kind = "gone" /\ tally' = [tally EXCEPT ![v] = NoNode] /\ task' = Resolved(v)
        \/ /\ e.node # NoNode /\ tally' = [tally EXCEPT ![v] = e.node] /\ task' = task
        \/ /\ e.kind # "gone" /\ e.node = NoNode /\ tally' = tally /\ task' = Started(v)
    BY <1>5 DEF Deliver
  <2>5. /\ e.node \in {NoNode, api[v].node}
        /\ e.kind = "gone" => e.node = NoNode /\ api[v].st = "gone"
    BY <2>1 DEF BaseInv, ReportsFit
  <2>v. v = e.pod
    OBVIOUS
  <2> HIDE DEF e, v
  <2>6. CASE e.kind = "gone" /\ tally' = [tally EXCEPT ![v] = NoNode] /\ task' = Resolved(v)
    <3>1. \A q \in Pods :
            /\ task[q].pc # "wait" => task'[q].pc = task[q].pc
            /\ task'[q].cur = task[q].cur
      BY <2>6, <2>2, <1>t, ResolvedType
    <3>2. BoundSettled'
      BY <2>1, <2>3, <3>1 DEF KnownInv, BoundSettled, Clean
    <3>3. CurMarked'
      BY <2>3, <3>1 DEF KnownInv, CurMarked, Marked
    <3>4. \A q \in Pods : q # v => tally'[q] = tally[q]
      BY <2>6, <1>t
    <3>5. TallyKnows'
      BY <2>1, <2>3, <2>5, <2>6, <3>4 DEF KnownInv, TallyKnows
    <3> QED
      BY <3>2, <3>3, <3>5 DEF KnownInv
  <2>7. CASE e.node # NoNode /\ tally' = [tally EXCEPT ![v] = e.node] /\ task' = task
    <3>1. BoundSettled'
      BY <2>1, <2>3, <2>7 DEF KnownInv, BoundSettled, Clean
    <3>2. CurMarked'
      BY <2>3, <2>7 DEF KnownInv, CurMarked, Marked
    <3>3. tally'[v] = api[v].node /\ \A q \in Pods : q # v => tally'[q] = tally[q]
      BY <2>2, <2>5, <2>7, <1>t
    <3>4. TallyKnows'
      BY <2>1, <2>3, <2>v, <3>3 DEF KnownInv, TallyKnows
    <3> QED
      BY <3>1, <3>2, <3>4 DEF KnownInv
  <2>8. CASE e.kind # "gone" /\ e.node = NoNode /\ tally' = tally /\ task' = Started(v)
    <3>1. \A q \in Pods : \/ task'[q] = task[q]
                          \/ q = v /\ task[q].pc = "idle" /\ task'[q].cur = {}
      BY <2>8, <2>2, <1>t, StartedType
    <3>2. ~Clean(v)
      BY <2>1, <2>8, <2>v DEF Clean
    <3>3. BoundSettled'
      BY <2>1, <2>3, <3>1, <3>2 DEF KnownInv, BoundSettled, Clean
    <3>4. CurMarked'
      BY <2>3, <3>1 DEF KnownInv, CurMarked, Marked
    <3>5. TallyKnows'
      BY <2>1, <2>3, <2>8 DEF KnownInv, TallyKnows
    <3> QED
      BY <3>3, <3>4, <3>5 DEF KnownInv
  <2> QED
    BY <2>4, <2>6, <2>7, <2>8
<1>6. ASSUME NEW p \in Pods, ResyncList(p)
      PROVE  KnownInv'
  <2>1. /\ listed = {} /\ listed' = {p} /\ api[p].node = NoNode /\ api' = api /\ queue' = queue
        /\ tally' = tally /\ task' = task
    BY <1>6 DEF ResyncList, Unscheduled
  <2>2. BoundSettled' /\ TallyKnows'
    BY <2>1 DEF KnownInv, BoundSettled, Clean, TallyKnows
  <2>3. CurMarked'
    BY <2>1 DEF KnownInv, CurMarked, Marked
  <2> QED
    BY <2>2, <2>3 DEF KnownInv
<1>7. ASSUME NEW p \in Pods, ResyncHandle(p)
      PROVE  KnownInv'
  <2>1. /\ p \in listed /\ listed' = listed \ {p} /\ task' = Started(p) /\ api' = api
        /\ queue' = queue /\ tally' = tally
    BY <1>7 DEF ResyncHandle
  <2>2. \A q \in Pods : \/ task'[q] = task[q]
                        \/ q = p /\ task[q].pc = "idle" /\ task'[q].cur = {}
    BY <2>1, <1>t, StartedType
  <2>3. BoundSettled' /\ TallyKnows'
    BY <2>1, <2>2 DEF KnownInv, BoundSettled, Clean, TallyKnows
  <2>4. CurMarked'
    BY <2>1, <2>2 DEF KnownInv, CurMarked, Marked
  <2> QED
    BY <2>3, <2>4 DEF KnownInv
<1>8. CASE Reconnect
  <2>1. /\ api' = api /\ listed' = listed
        /\ \A p \in Pods : tally'[p] = IF Live(p) THEN api[p].node ELSE NoNode
        /\ \A q \in Pods : task'[q] = IF task[q].pc = "wait" THEN NoTask ELSE task[q]
    BY <1>8 DEF Reconnect
  <2>2. \A e \in Range(queue') : \E p \in Pods : api[p].node = NoNode /\ e.pod = p
    BY <1>8, <1>t, RelistFacts DEF Event, Unscheduled
  <2>3. NoTask.cur = {}
    BY DEF NoTask
  <2>4. BoundSettled'
    BY <2>1, <2>2, <1>u DEF KnownInv, BoundSettled, Clean
  <2>5. CurMarked'
    BY <2>1, <2>3 DEF KnownInv, CurMarked, Marked
  <2>6. TallyKnows'
    BY <2>1 DEF TallyKnows, Live
  <2> QED
    BY <2>4, <2>5, <2>6 DEF KnownInv
<1>9. ASSUME NEW p \in Pods, Place(p)
      PROVE  KnownInv'
  <2>1. ASSUME NEW n \in Nodes, PickNode(p, n)
        PROVE  KnownInv'
    <3>1. LET t == task[p] IN TaskIs(p, "bind", n, t.victims, t.left, t.cur, t.tries)
      BY <2>1, <1>t, PickNodeFacts
    <3>2. OwnKnown(p)
      BY <3>1, <2>1, <1>t, <1>u DEF OwnKnown, TaskIs, PickNode
    <3> QED
      BY <3>2, OwnKnownKeeps
  <2>2. ASSUME PickNothing(p)
        PROVE  KnownInv'
    <3>1. LET t == task[p] IN TaskIs(p, "plan", t.node, t.victims, t.left, t.cur, t.tries)
      BY <2>2, <1>t, AtFacts DEF PickNothing, Pcs
    <3>2. OwnKnown(p)
      BY <3>1, <2>2, <1>t, <1>u DEF OwnKnown, TaskIs, PickNothing
    <3> QED
      BY <3>2, OwnKnownKeeps
  <2>3. ASSUME NEW n \in Nodes, NEW V \in SUBSET Pods, Planned(p, n, V)
        PROVE  KnownInv'
    <3>1. TaskIs(p, "verify", n, V, V, task[p].cur, task[p].tries)
      BY <2>3, <1>t, PlanFacts
    <3>2. OwnKnown(p)
      BY <3>1, <2>3, <1>t, <1>u DEF OwnKnown, TaskIs, Planned
    <3> QED
      BY <3>2, OwnKnownKeeps
  <2>4. ASSUME NoPlan(p)
        PROVE  KnownInv'
    <3>1. OnlyTask(p) /\ task'[p].cur \subseteq task[p].cur
      BY <2>4, <1>t, RetryFacts DEF NoPlan, TaskIs
    <3>2. OwnKnown(p)
      BY <3>1, <2>4, <1>t, <1>u DEF OwnKnown, NoPlan
    <3> QED
      BY <3>2, OwnKnownKeeps
  <2>5. ASSUME Verify(p)
        PROVE  KnownInv'
    <3>1. /\ task[p].pc = "verify" /\ (task' = At(p, "nominate") \/ task' = Retry(p))
          /\ tally' = [tally EXCEPT ![p] = task[p].node] \/ tally' = tally
          /\ api' = api /\ listed' = listed /\ queue' = queue
      BY <2>5 DEF Verify
    <3>2. OnlyTask(p) /\ task'[p].cur \subseteq task[p].cur
      BY <3>1, <1>t, AtFacts, RetryFacts DEF TaskIs, Pcs
    <3>3. OwnKnown(p)
      BY <3>1, <3>2, <1>t, <1>u DEF OwnKnown
    <3> QED
      BY <3>3, OwnKnownKeeps
  <2>6. ASSUME Nominate(p)
        PROVE  KnownInv'
    <3>1. LET t == task[p] IN TaskIs(p, "evict", t.node, t.victims, t.left, t.cur, t.tries)
      BY <2>6, <1>t, AtFacts DEF Nominate, Pcs
    <3>2. /\ task[p].pc = "nominate" /\ api' = api /\ listed' = listed /\ tally' = tally
          /\ api[p].node = NoNode
      BY <2>6, <1>u DEF Nominate
    <3> DEFINE e == Event(p, "live", NoNode)
    <3>3. e.pod = p
      BY DEF Event
    <3>4. Range(queue) \subseteq Range(queue') /\ Range(queue') \subseteq Range(queue) \cup {e}
      BY <2>6, <1>t, AddsType DEF Nominate, Adds, Places
    <3> HIDE DEF e
    <3>5. BoundSettled'
      BY <3>1, <3>2, <3>3, <3>4 DEF KnownInv, BoundSettled, Clean, TaskIs, OnlyTask
    <3>6. CurMarked'
      BY <3>1, <3>2 DEF KnownInv, CurMarked, Marked, TaskIs, OnlyTask
    <3>7. TallyKnows'
      BY <3>2, <3>4 DEF KnownInv, TallyKnows
    <3> QED
      BY <3>5, <3>6, <3>7 DEF KnownInv
  <2>7. ASSUME NEW v \in Pods, EvictVictim(p, v)
        PROVE  KnownInv'
    <3>1. LET t == task[p] IN TaskIs(p, "forget", t.node, t.victims, t.left \ {v}, {v}, t.tries)
      BY <2>7, <1>t, EvictVictimFacts
    <3>2. v \in task[p].victims
      BY <2>7, <1>t DEF EvictVictim, TypeOK
    <3>3. api[v].st # "absent"
      BY <3>2 DEF BaseInv, VictimsBorn
    <3>4. \A q \in Pods : /\ \/ task'[q].pc = task[q].pc
                             \/ task[q].pc = "evict" /\ task'[q].pc = "forget"
                          /\ \A w \in task'[q].cur : w \in task[q].cur \/ w = v
      BY <3>1, <2>7 DEF TaskIs, OnlyTask, EvictVictim
    <3> QED
      BY <3>3, <3>4, <2>7, DeleteKnown DEF EvictVictim
  <2>8. ASSUME ForgetVictim(p)
        PROVE  KnownInv'
    <3>1. OnlyTask(p) /\ task'[p].cur = {}
      BY <2>8, <1>t, ForgetVictimFacts DEF TaskIs
    <3>2. \A v \in Pods : v \in task[p].cur => api[v].st # "live"
      BY DEF KnownInv, CurMarked, Marked
    <3>3. OwnKnown(p)
      BY <3>1, <3>2, <2>8, <1>t, <1>u DEF OwnKnown, ForgetVictim
    <3> QED
      BY <3>3, OwnKnownKeeps
  <2>9. ASSUME Register(p)
        PROVE  KnownInv'
    <3>1. LET t == task[p] IN TaskIs(p, "wait", t.node, t.victims, t.victims, t.cur, t.tries)
      BY <2>9, <1>t, RegisterFacts
    <3>2. OwnKnown(p)
      BY <3>1, <2>9, <1>t, <1>u DEF OwnKnown, TaskIs, Register
    <3> QED
      BY <3>2, OwnKnownKeeps
  <2>10. ASSUME Recheck(p)
         PROVE  KnownInv'
    <3>1. /\ task[p].pc = "recheck" /\ api' = api /\ listed' = listed /\ queue' = queue
          /\ task' = At(p, "bind") \/ task' = [task EXCEPT ![p] = NoTask]
          /\ tally' = tally \/ tally' = [tally EXCEPT ![p] = NoNode]
      BY <2>10 DEF Recheck
    <3>2. OnlyTask(p) /\ task'[p].cur \subseteq task[p].cur
      BY <3>1, <1>t, AtFacts, NoTaskFacts DEF TaskIs, Pcs
    <3>3. OwnKnown(p)
      BY <3>1, <3>2, <1>t, <1>u DEF OwnKnown
    <3> QED
      BY <3>3, OwnKnownKeeps
  <2>11. ASSUME Bind(p)
         PROVE  KnownInv'
    <3>1. CASE ~Unscheduled(p)
      <4>1. \E c \in {"bound", "failed"} : task' = At(p, c)
        BY <2>11, <3>1 DEF Bind
      <4>2. OnlyTask(p) /\ task'[p].cur \subseteq task[p].cur
        BY <4>1, <1>t, AtFacts DEF Pcs, TaskIs
      <4>3. OwnKnown(p)
        BY <4>2, <3>1, <2>11, <1>t, <1>u DEF OwnKnown, Bind
      <4> QED
        BY <4>3, OwnKnownKeeps
    <3>2. CASE Unscheduled(p)
      <4> DEFINE n == task[p].node
                 e == Event(p, "live", n)
      <4>1. /\ task[p].pc = "bind" /\ StoreBinding(p, n) /\ listed' = listed /\ tally' = tally
            /\ task' = At(p, "bound")
        BY <2>11, <3>2 DEF Bind
      <4>2. OnlyTask(p) /\ task'[p].pc = "bound" /\ task'[p].cur = task[p].cur
        BY <4>1, <1>t, AtFacts DEF Pcs, TaskIs
      <4>3. n \in Places
        BY <1>t DEF TypeOK, Tasks
      <4>4. Adds(e)
        BY <4>1, <4>3, <1>t, AddsType DEF StoreBinding
      <4>5. e.pod = p /\ e.node = n
        BY DEF Event
      <4>6. /\ api'[p].node = n /\ \A q \in Pods : api'[q].st = api[q].st
            /\ \A q \in Pods : q # p => api'[q] = api[q]
        BY <4>1, <1>t DEF StoreBinding, TypeOK
      <4> HIDE DEF n, e
      <4>7. BoundSettled'
        BY <4>1, <4>2, <4>4, <4>5, <4>6 DEF KnownInv, BoundSettled, Clean, OnlyTask, Adds
      <4>8. CurMarked'
        <5>1. \A q \in Pods : task'[q].cur = task[q].cur /\ task[q].cur \subseteq Pods
          BY <4>2, <1>t DEF OnlyTask, TypeOK, Tasks
        <5> QED
          BY <5>1, <4>6 DEF KnownInv, CurMarked, Marked
      <4>9. TallyKnows'
        BY <4>1, <4>4, <4>5, <4>6 DEF KnownInv, TallyKnows, Adds
      <4> QED
        BY <4>7, <4>8, <4>9 DEF KnownInv
    <3> QED
      BY <3>1, <3>2
  <2>12. ASSUME BindReturns(p)
         PROVE  KnownInv'
    <3>1. TaskIs(p, "idle", NoNode, {}, {}, {}, 0)
      BY <2>12, <1>t, NoTaskFacts DEF BindReturns
    <3>2. Clean(p)
      BY <2>12 DEF BindReturns, Settled, Clean, Range
    <3>3. OwnKnown(p)
      BY <3>1, <3>2, <2>12, <1>t, <1>u DEF OwnKnown, TaskIs, BindReturns
    <3> QED
      BY <3>3, OwnKnownKeeps
  <2> QED
    BY <1>9, <2>1, <2>2, <2>3, <2>4, <2>5, <2>6, <2>7, <2>8, <2>9, <2>10, <2>11, <2>12, PlanPlans
    DEF Place
<1>10. ASSUME NEW p \in Pods, BindFails(p)
       PROVE  KnownInv'
  <2>1. LET t == task[p] IN TaskIs(p, "failed", t.node, t.victims, t.left, t.cur, t.tries)
    BY <1>10, <1>t, AtFacts DEF BindFails, Pcs
  <2>2. OwnKnown(p)
    BY <2>1, <1>10, <1>t, <1>u DEF OwnKnown, TaskIs, BindFails
  <2> QED
    BY <2>2, OwnKnownKeeps
<1>11. ASSUME NEW p \in Pods, NEW v \in Pods, EvictFails(p, v)
       PROVE  KnownInv'
  <2>1. OnlyTask(p) /\ task'[p].cur \subseteq task[p].cur
    BY <1>11, <1>t, RetryFacts DEF EvictFails, TaskIs
  <2>2. OwnKnown(p)
    BY <2>1, <1>11, <1>t, <1>u DEF OwnKnown, EvictFails
  <2> QED
    BY <2>2, OwnKnownKeeps
<1> QED
  BY <1>1, <1>2, <1>3, <1>4, <1>5, <1>6, <1>7, <1>8, <1>9, <1>10, <1>11 DEF Next, Fail

LEMMA KnownInit == Init => KnownInv
<1> SUFFICES ASSUME Init PROVE KnownInv
  OBVIOUS
<1>1. Range(queue) = {} /\ listed = {}
  BY DEF Init, Range
<1>2. \A p \in Pods : /\ task[p].pc = "idle" /\ task[p].cur = {}
                      /\ api[p].node = Start[p] /\ tally[p] = Start[p]
  BY DEF Init, NoTask
<1> QED
  BY <1>1, <1>2 DEF KnownInv, BoundSettled, Clean, CurMarked, TallyKnows

(* The tally is wrong about a stored binding only while the report that    *)
(* corrects it is in the backlog or the pod is being deleted, for every    *)
(* interleaving in which no stale report of a pending pod is handled after *)
(* its bind and no answer to a bind is lost (NodeTally::apply_event,       *)
(* bind_reserved_node, the relist of a reconnect).                         *)
THEOREM BoundPodsAreKnown ==
  ASSUME Races \cap {"stale", "lost"} = {}
  PROVE  Spec => []TallyKnowsBound
<1>1. Init => KnownInv
  BY KnownInit
<1>2. BaseInv /\ KnownInv /\ [Next]_vars => KnownInv'
  BY KnownNext
<1>3. KnownInv => TallyKnowsBound
  BY DEF KnownInv, TallyKnows, TallyKnowsBound, Range
<1> QED
  BY <1>1, <1>2, <1>3, SchedulerInvariant, PTL DEF Spec

-------------------------------------------------------------------------------
(* What a set of pods requests.                                            *)

Units(S) == UNION {{p} \X (1..Size[p]) : p \in S}

LEMMA UnitsFinite ==
  ASSUME NEW S \in SUBSET Pods
  PROVE  IsFiniteSet(Units(S)) /\ Used(S) = Cardinality(Units(S)) /\ Used(S) \in Nat
<1> DEFINE F == {{p} \X (1..Size[p]) : p \in S}
           f == [p \in S |-> {p} \X (1..Size[p])]
<1>1. IsFiniteSet(S)
  BY SchedulerConstants, FS_Subset
<1>2. f \in Surjection(S, F)
  BY DEF Surjection
<1>3. IsFiniteSet(F)
  BY <1>1, <1>2, FS_Surjection
<1>4. \A T \in F : IsFiniteSet(T)
  <2> SUFFICES ASSUME NEW p \in S PROVE IsFiniteSet({p} \X (1..Size[p]))
    OBVIOUS
  <2>1. Size[p] \in Nat
    BY SchedulerConstants
  <2>2. IsFiniteSet(1..Size[p])
    BY <2>1, FS_Interval
  <2>3. IsFiniteSet({p})
    BY FS_Singleton
  <2> QED
    BY <2>2, <2>3, FS_Product
<1>5. IsFiniteSet(Units(S))
  BY <1>3, <1>4, FS_UNION DEF Units
<1>6. Used(S) = Cardinality(Units(S))
  BY DEF Used, Units
<1> QED
  BY <1>5, <1>6, FS_CardinalityType

LEMMA UsedOne ==
  ASSUME NEW p \in Pods
  PROVE  Used({p}) = Size[p]
<1>1. Size[p] \in Nat
  BY SchedulerConstants
<1>2. IsFiniteSet(1..Size[p]) /\ Cardinality(1..Size[p]) = Size[p]
  BY <1>1, FS_Interval, SMTT(30)
<1>3. IsFiniteSet({p}) /\ Cardinality({p}) = 1
  BY FS_Singleton
<1>4. Cardinality({p} \X (1..Size[p])) = 1 * Size[p]
  <2>1. Cardinality({p} \X (1..Size[p])) = Cardinality({p}) * Cardinality(1..Size[p])
    BY <1>2, <1>3, FS_Product, Zenon
  <2> QED
    BY <2>1, <1>1, <1>2, <1>3
<1>5. UNION {{q} \X (1..Size[q]) : q \in {p}} = {p} \X (1..Size[p])
  BY Zenon
<1> QED
  BY <1>1, <1>4, <1>5 DEF Used

\* More pods request at least as much.
LEMMA UsedGrows ==
  ASSUME NEW T \in SUBSET Pods, NEW S \in SUBSET T
  PROVE  Used(S) <= Used(T) /\ Used(S) \in Nat /\ Used(T) \in Nat
<1>1. Units(S) \in SUBSET Units(T)
  BY Zenon DEF Units
<1>2. IsFiniteSet(Units(T)) /\ Used(T) = Cardinality(Units(T)) /\ Used(T) \in Nat
  BY UnitsFinite
<1>3. Used(S) = Cardinality(Units(S)) /\ Used(S) \in Nat
  BY UnitsFinite
<1>4. Cardinality(Units(S)) <= Cardinality(Units(T))
  BY <1>1, <1>2, FS_Subset
<1> QED
  BY <1>2, <1>3, <1>4

\* One pod more adds what it requests, at most.
LEMMA UsedAdd ==
  ASSUME NEW S \in SUBSET Pods, NEW p \in Pods
  PROVE  Used(S \cup {p}) <= Used(S) + Size[p]
<1>1. Units(S \cup {p}) = Units(S) \cup Units({p})
  BY Zenon DEF Units
<1>2. /\ IsFiniteSet(Units(S)) /\ Used(S) = Cardinality(Units(S)) /\ Used(S) \in Nat
      /\ IsFiniteSet(Units({p})) /\ Used({p}) = Cardinality(Units({p})) /\ Used({p}) \in Nat
      /\ Used(S \cup {p}) = Cardinality(Units(S \cup {p}))
  BY UnitsFinite
<1>3. /\ Cardinality(Units(S) \cup Units({p}))
         = Cardinality(Units(S)) + Cardinality(Units({p})) - Cardinality(Units(S) \cap Units({p}))
      /\ IsFiniteSet(Units(S) \cap Units({p}))
  BY <1>2, FS_Union, FS_Intersection
<1>4. Cardinality(Units(S) \cap Units({p})) \in Nat
  BY <1>3, FS_CardinalityType
<1>5. Used({p}) = Size[p]
  BY UsedOne
<1>6. Used(S \cup {p}) = Used(S) + Used({p}) - Cardinality(Units(S) \cap Units({p}))
  BY <1>1, <1>2, <1>3
<1> QED
  BY <1>2, <1>4, <1>5, <1>6

-------------------------------------------------------------------------------
(* How far the eviction of a plan is, whatever races occur.                *)

\* The victims that a task has evicted are marked, and those that a waiting
\* plan no longer waits for are gone.
TaskProgress(p) ==
  /\ task[p].pc = "pick" => task[p].victims = {}
  /\ Evicting(p) \/ task[p].pc = "verify" => \A v \in task[p].victims \ task[p].left : Marked(v)
  /\ task[p].pc = "register" => task[p].left = {}
  /\ task[p].pc = "wait" => \A v \in task[p].victims \ task[p].left : api[v].st = "gone"
  /\ task[p].pc \in {"recheck", "bind"} => \A v \in task[p].victims : api[v].st = "gone"

Progress == \A p \in Pods : TaskProgress(p)

\* No pod comes back.
Forward ==
  \A q \in Pods : /\ Marked(q) => Marked(q)'
                  /\ api[q].st = "gone" => api'[q].st = "gone"

LEMMA ProgressStays ==
  ASSUME TypeOK, Forward, NEW q \in Pods, TaskProgress(q), task'[q] = task[q]
  PROVE  TaskProgress(q)'
<1>1. task[q].victims \subseteq Pods
  BY VictimsArePods
<1> QED
  BY <1>1 DEF Forward, TaskProgress, Evicting

\* A step of one task, told by the new record of the task.
LEMMA ProgressOf ==
  ASSUME TypeOK, Progress, Forward, NEW p \in Pods, OnlyTask(p), TaskProgress(p)'
  PROVE  Progress'
  BY ProgressStays DEF Progress, OnlyTask

LEMMA DeleteForward ==
  ASSUME TypeOK, NEW v \in Pods, DeleteStored(v)
  PROVE  Forward /\ (Live(v) => Marked(v)') /\ (~Live(v) => api' = api)
<1>1. /\ \A q \in Pods : q # v => api'[q] = api[q]
      /\ \/ api' = api
         \/ api[v].st = "leaving" /\ api'[v].st = "gone"
         \/ api[v].st = "live" /\ api'[v].st = "leaving"
  BY DeleteFacts
<1>2. Forward
  BY <1>1 DEF Forward, Marked
<1>3. api \in [Pods -> Objects]
  BY TypeOKSplit
<1>4. Live(v) => api'[v].st \in {"leaving", "gone"}
  BY <1>3 DEF DeleteStored, Live, Marked, Objects
<1> QED
  BY <1>2, <1>4 DEF DeleteStored, Marked

\* What a report that v is gone does to the plans that wait.
LEMMA ResolvedLeft ==
  ASSUME TypeOK, NEW v \in Pods, NEW q \in Pods, task[q].pc = "wait"
  PROVE  /\ Resolved(v)[q].left = task[q].left \ {v}
         /\ Resolved(v)[q].pc \in {"wait", "recheck"}
         /\ Resolved(v)[q].pc = "recheck" => task[q].left \subseteq {v}
         /\ Resolved(v)[q].victims = task[q].victims
<1> DEFINE c == IF task[q].left \subseteq {v} THEN "recheck" ELSE "wait"
           r == [task[q] EXCEPT !.left = @ \ {v}, !.pc = c]
<1>1. task[q] \in Tasks
  BY DEF TypeOK
<1>2. Resolved(v)[q] = r
  BY DEF Resolved
<1>3. c \in {"wait", "recheck"} /\ (c = "recheck" => task[q].left \subseteq {v})
  OBVIOUS
<1> HIDE DEF c
<1>4. r.left = task[q].left \ {v} /\ r.pc = c /\ r.victims = task[q].victims
  BY <1>1 DEF Tasks
<1> HIDE DEF r
<1> QED
  BY <1>2, <1>3, <1>4

LEMMA ProgressPlace ==
  ASSUME BaseInv, Progress, NEW p \in Pods, Place(p)
  PROVE  Progress'
<1>t. TypeOK
  BY DEF BaseInv
<1>p. TaskProgress(p)
  BY DEF Progress
<1>f. api' = api => Forward
  BY DEF Forward, Marked
<1>o. OnlyTask(p) /\ Forward /\ TaskProgress(p)' => Progress'
  BY <1>t, ProgressOf
<1>1. ASSUME NEW n \in Nodes, PickNode(p, n)
      PROVE  Progress'
  <2>1. LET t == task[p] IN TaskIs(p, "bind", n, t.victims, t.left, t.cur, t.tries)
    BY <1>1, <1>t, PickNodeFacts
  <2>2. task[p].pc = "pick" /\ api' = api
    BY <1>1 DEF PickNode
  <2> QED
    BY <2>1, <2>2, <1>p, <1>f, <1>o DEF TaskIs, TaskProgress, Evicting
<1>2. ASSUME PickNothing(p)
      PROVE  Progress'
  <2>1. LET t == task[p] IN TaskIs(p, "plan", t.node, t.victims, t.left, t.cur, t.tries)
    BY <1>2, <1>t, AtFacts DEF PickNothing, Pcs
  <2>2. api' = api
    BY <1>2 DEF PickNothing
  <2> QED
    BY <2>1, <2>2, <1>f, <1>o DEF TaskIs, TaskProgress, Evicting
<1>3. ASSUME NEW n \in Nodes, NEW V \in SUBSET Pods, Planned(p, n, V)
      PROVE  Progress'
  <2>1. TaskIs(p, "verify", n, V, V, task[p].cur, task[p].tries)
    BY <1>3, <1>t, PlanFacts
  <2>2. api' = api
    BY <1>3 DEF Planned
  <2> QED
    BY <2>1, <2>2, <1>f, <1>o DEF TaskIs, TaskProgress, Evicting
<1>r. task' = Retry(p) /\ api' = api => Progress'
  <2> SUFFICES ASSUME task' = Retry(p), api' = api PROVE Progress'
    OBVIOUS
  <2>1. OnlyTask(p) /\ task'[p].pc \in {"plan", "idle"}
    BY <1>t, RetryFacts DEF TaskIs
  <2> QED
    BY <2>1, <1>f, <1>o DEF TaskProgress, Evicting
<1>4. ASSUME NoPlan(p)
      PROVE  Progress'
  BY <1>4, <1>r DEF NoPlan
<1>5. ASSUME Verify(p)
      PROVE  Progress'
  <2>1. api' = api /\ task[p].pc = "verify" /\ (task' = At(p, "nominate") \/ task' = Retry(p))
    BY <1>5 DEF Verify
  <2>2. CASE task' = At(p, "nominate")
    <3>1. LET t == task[p] IN TaskIs(p, "nominate", t.node, t.victims, t.left, t.cur, t.tries)
      BY <2>2, <1>t, AtFacts DEF Pcs
    <3> QED
      BY <3>1, <2>1, <1>p, <1>f, <1>o DEF TaskIs, TaskProgress, Evicting, Marked
  <2> QED
    BY <2>1, <2>2, <1>r
<1>6. ASSUME Nominate(p)
      PROVE  Progress'
  <2>1. LET t == task[p] IN TaskIs(p, "evict", t.node, t.victims, t.left, t.cur, t.tries)
    BY <1>6, <1>t, AtFacts DEF Nominate, Pcs
  <2>2. api' = api /\ task[p].pc = "nominate"
    BY <1>6 DEF Nominate
  <2> QED
    BY <2>1, <2>2, <1>p, <1>f, <1>o DEF TaskIs, TaskProgress, Evicting, Marked
<1>7. ASSUME NEW v \in Pods, EvictVictim(p, v)
      PROVE  Progress'
  <2>1. LET t == task[p] IN TaskIs(p, "forget", t.node, t.victims, t.left \ {v}, {v}, t.tries)
    BY <1>7, <1>t, EvictVictimFacts
  <2>2. task[p].pc = "evict" /\ v \in task[p].left /\ DeleteStored(v)
    BY <1>7 DEF EvictVictim
  <2>3. Forward /\ (Live(v) => Marked(v)') /\ (~Live(v) => api' = api)
    BY <2>2, <1>t, DeleteForward
  <2>4. v \in task[p].victims /\ task[p].victims \subseteq Pods
    BY <2>2, <1>t, VictimsArePods DEF TypeOK
  <2>5. ~Live(v) => Marked(v)
    BY <2>4, <1>t DEF BaseInv, VictimsBorn, TypeOK, Live, Marked
  <2>6. Marked(v)'
    BY <2>3, <2>5 DEF Marked
  <2>7. \A w \in task[p].victims \ (task[p].left \ {v}) : Marked(w)'
    BY <2>2, <2>3, <2>4, <2>6, <1>p DEF Forward, TaskProgress, Evicting
  <2>8. TaskProgress(p)'
    BY <2>1, <2>7 DEF TaskIs, TaskProgress, Evicting
  <2> QED
    BY <2>1, <2>3, <2>8, <1>o DEF TaskIs
<1>8. ASSUME ForgetVictim(p)
      PROVE  Progress'
  <2>1. PICK c \in {"register", "evict"} :
          /\ LET t == task[p] IN TaskIs(p, c, t.node, t.victims, t.left, {}, t.tries)
          /\ c = "register" => task[p].left = {}
    BY <1>8, <1>t, ForgetVictimFacts
  <2>2. api' = api /\ task[p].pc = "forget"
    BY <1>8 DEF ForgetVictim
  <2> QED
    BY <2>1, <2>2, <1>p, <1>f, <1>o DEF TaskIs, TaskProgress, Evicting, Marked
<1>9. ASSUME Register(p)
      PROVE  Progress'
  <2>1. LET t == task[p] IN TaskIs(p, "wait", t.node, t.victims, t.victims, t.cur, t.tries)
    BY <1>9, <1>t, RegisterFacts
  <2>2. api' = api
    BY <1>9 DEF Register
  <2> QED
    BY <2>1, <2>2, <1>f, <1>o DEF TaskIs, TaskProgress, Evicting
<1>e. task' = [task EXCEPT ![p] = NoTask] /\ api' = api => Progress'
  <2> SUFFICES ASSUME task' = [task EXCEPT ![p] = NoTask], api' = api PROVE Progress'
    OBVIOUS
  <2>1. TaskIs(p, "idle", NoNode, {}, {}, {}, 0)
    BY <1>t, NoTaskFacts
  <2> QED
    BY <2>1, <1>f, <1>o DEF TaskIs, TaskProgress, Evicting
<1>10. ASSUME Recheck(p)
       PROVE  Progress'
  <2>1. /\ api' = api /\ task[p].pc = "recheck"
        /\ task' = At(p, "bind") \/ task' = [task EXCEPT ![p] = NoTask]
    BY <1>10 DEF Recheck
  <2>2. CASE task' = At(p, "bind")
    <3>1. LET t == task[p] IN TaskIs(p, "bind", t.node, t.victims, t.left, t.cur, t.tries)
      BY <2>2, <1>t, AtFacts DEF Pcs
    <3> QED
      BY <3>1, <2>1, <1>p, <1>f, <1>o DEF TaskIs, TaskProgress, Evicting
  <2> QED
    BY <2>1, <2>2, <1>e
<1>11. ASSUME Bind(p)
       PROVE  Progress'
  <2>1. PICK c \in {"bound", "failed"} : task' = At(p, c)
    BY <1>11 DEF Bind
  <2>2. OnlyTask(p) /\ task'[p].pc = c
    BY <2>1, <1>t, AtFacts DEF Pcs, TaskIs
  <2>3. \A q \in Pods : api'[q].st = api[q].st
    <3>1. api' = api \/ api' = [api EXCEPT ![p].node = task[p].node]
      BY <1>11 DEF Bind, StoreBinding
    <3> QED
      BY <3>1, <1>t DEF TypeOK
  <2>4. Forward
    BY <2>3 DEF Forward, Marked
  <2> QED
    BY <2>2, <2>4, <1>o DEF TaskProgress, Evicting
<1>12. ASSUME BindReturns(p)
       PROVE  Progress'
  BY <1>12, <1>e DEF BindReturns
<1> QED
  BY <1>1, <1>2, <1>3, <1>4, <1>5, <1>6, <1>7, <1>8, <1>9, <1>10, <1>11, <1>12, PlanPlans DEF Place

LEMMA ProgressNext == BaseInv /\ Progress /\ [Next]_vars => Progress'
<1> SUFFICES ASSUME BaseInv, Progress, [Next]_vars
             PROVE  Progress'
  OBVIOUS
<1>t. TypeOK
  BY DEF BaseInv
<1>f. api' = api => Forward
  BY DEF Forward, Marked
<1>k. Forward /\ task' = task => Progress'
  BY <1>t, ProgressStays DEF Progress
<1>n. NoTask.pc = "idle"
  BY DEF NoTask
<1>s. ASSUME NEW p \in Pods, task' = Started(p), api' = api
      PROVE  Progress'
  <2>1. \A q \in Pods : \/ task'[q] = task[q]
                        \/ task'[q].pc = "pick" /\ task'[q].victims = {}
    BY <1>s, <1>t, StartedType
  <2> SUFFICES ASSUME NEW q \in Pods PROVE TaskProgress(q)'
    BY DEF Progress
  <2>2. CASE task'[q] = task[q]
    BY <2>2, <1>s, <1>t, <1>f, ProgressStays DEF Progress
  <2>3. CASE task'[q].pc = "pick" /\ task'[q].victims = {}
    BY <2>3 DEF TaskProgress, Evicting
  <2> QED
    BY <2>1, <2>2, <2>3
<1>1. CASE UNCHANGED vars
  BY <1>1, <1>f, <1>k DEF vars
<1>2. ASSUME NEW p \in Pods, CreatePod(p)
      PROVE  Progress'
  <2>1. api[p].st = "absent" /\ \A q \in Pods : q # p => api'[q] = api[q]
    BY <1>2, <1>t DEF CreatePod, TypeOK
  <2>2. Forward /\ task' = task
    BY <2>1, <1>2 DEF Forward, Marked, CreatePod
  <2> QED
    BY <2>2, <1>k
<1>3. ASSUME NEW p \in Pods, UserDelete(p)
      PROVE  Progress'
  BY <1>3, <1>t, <1>k, DeleteForward DEF UserDelete
<1>4. ASSUME NEW p \in Pods, EndPod(p)
      PROVE  Progress'
  BY <1>4, <1>t, <1>k, DeleteForward DEF EndPod
<1>5. CASE Deliver
  <2> DEFINE e == Head(queue)
             v == e.pod
  <2>1. e \in Reports /\ e \in Range(queue)
    BY <1>5, <1>t, TailRange DEF Deliver, TypeOK
  <2>2. v \in Pods /\ (e.kind = "gone" => api[v].st = "gone")
    BY <2>1 DEF Reports, BaseInv, ReportsFit
  <2>3. api' = api
    BY <1>5 DEF Deliver
  <2>4. \/ e.kind = "gone" /\ task' = Resolved(v)
        \/ task' = task
        \/ task' = Started(v)
    BY <1>5 DEF Deliver
  <2> HIDE DEF e, v
  <2>5. CASE e.kind = "gone" /\ task' = Resolved(v)
    <3> SUFFICES ASSUME NEW q \in Pods PROVE TaskProgress(q)'
      BY DEF Progress
    <3>1. CASE task[q].pc # "wait"
      <4>1. task'[q] = task[q]
        BY <3>1, <2>2, <2>5, <1>t, ResolvedType
      <4> QED
        BY <4>1, <2>3, <1>t, <1>f, ProgressStays DEF Progress
    <3>2. CASE task[q].pc = "wait"
      <4>1. /\ task'[q].left = task[q].left \ {v}
            /\ task'[q].pc \in {"wait", "recheck"}
            /\ task'[q].pc = "recheck" => task[q].left \subseteq {v}
            /\ task'[q].victims = task[q].victims
        BY <3>2, <2>2, <2>5, <1>t, ResolvedLeft
      <4>2. \A w \in task[q].victims \ task[q].left : api[w].st = "gone"
        BY <3>2 DEF Progress, TaskProgress
      <4>3. \A w \in task[q].victims \ (task[q].left \ {v}) : api[w].st = "gone"
        BY <4>2, <2>2, <2>5
      <4> QED
        BY <4>1, <4>3, <2>3 DEF TaskProgress, Evicting
    <3> QED
      BY <3>1, <3>2
  <2> QED
    BY <2>2, <2>3, <2>4, <2>5, <1>f, <1>k, <1>s
<1>6. ASSUME NEW p \in Pods, ResyncList(p)
      PROVE  Progress'
  BY <1>6, <1>f, <1>k DEF ResyncList
<1>7. ASSUME NEW p \in Pods, ResyncHandle(p)
      PROVE  Progress'
  BY <1>7, <1>s DEF ResyncHandle
<1>8. CASE Reconnect
  <2> SUFFICES ASSUME NEW q \in Pods PROVE TaskProgress(q)'
    BY DEF Progress
  <2>1. api' = api /\ (task'[q] = task[q] \/ task'[q] = NoTask)
    BY <1>8 DEF Reconnect
  <2>2. CASE task'[q] = task[q]
    BY <2>1, <2>2, <1>t, <1>f, ProgressStays DEF Progress
  <2>3. CASE task'[q] = NoTask
    BY <2>3, <1>n DEF TaskProgress, Evicting
  <2> QED
    BY <2>1, <2>2, <2>3
<1>9. ASSUME NEW p \in Pods, Place(p)
      PROVE  Progress'
  BY <1>9, ProgressPlace
<1>10. ASSUME NEW p \in Pods, BindFails(p)
       PROVE  Progress'
  <2>1. LET t == task[p] IN TaskIs(p, "failed", t.node, t.victims, t.left, t.cur, t.tries)
    BY <1>10, <1>t, AtFacts DEF BindFails, Pcs
  <2>2. api' = api
    BY <1>10 DEF BindFails
  <2> QED
    BY <2>1, <2>2, <1>t, <1>f, ProgressOf DEF TaskIs, TaskProgress, Evicting
<1>11. ASSUME NEW p \in Pods, NEW v \in Pods, EvictFails(p, v)
       PROVE  Progress'
  <2>1. OnlyTask(p) /\ task'[p].pc \in {"plan", "idle"}
    BY <1>11, <1>t, RetryFacts DEF EvictFails, TaskIs
  <2>2. api' = api
    BY <1>11 DEF EvictFails
  <2> QED
    BY <2>1, <2>2, <1>t, <1>f, ProgressOf DEF TaskProgress, Evicting
<1> QED
  BY <1>1, <1>2, <1>3, <1>4, <1>5, <1>6, <1>7, <1>8, <1>9, <1>10, <1>11 DEF Next, Fail

LEMMA ProgressInit == Init => Progress
  BY DEF Init, NoTask, Progress, TaskProgress, Evicting

(* Whatever races occur and calls fail, no bind that was deferred behind   *)
(* an eviction is tried before every victim of its plan is gone from the   *)
(* API server: the waiting plan gives up a victim only when the watch has  *)
(* reported that very deletion (PreemptionWaiters::resolve,                *)
(* attempt_deferred_bind).                                                 *)
THEOREM DeferredBindsWait == Spec => []VictimsAreGone
<1>1. BaseInv /\ Progress /\ [Next]_vars => Progress'
  BY ProgressNext
<1>2. Progress => VictimsAreGone
  BY DEF Progress, TaskProgress, VictimsAreGone, Live
<1> QED
  BY <1>1, <1>2, ProgressInit, SchedulerInvariant, PTL DEF Spec

-------------------------------------------------------------------------------
(* Room: no race but an early report of a deletion.                        *)

\* The pods that the tally counts on n and that nobody is removing.
Reserved(n) == {p \in OnNode(n) : ~Marked(p) /\ p \notin claimed}

RoomKept == \A n \in Nodes \ spared : Used(Reserved(n)) <= Cap[n]

\* Where in its task a pod holds the room of its node.
Holding == {"nominate", "evict", "forget", "register", "wait", "recheck", "bind"}

VictimsBound ==
  \A p \in Pods : \A v \in task[p].victims : api[v].node # NoNode /\ api[v].node = task[p].node

HoldsRoom ==
  \A p \in Pods : Unscheduled(p) /\ task[p].pc \in Holding => tally[p] = task[p].node

RunsWhere == \A p \in Pods : runs[p] # NoNode => runs[p] = api[p].node

Counted == \A p \in Pods : api[p].st = "live" /\ api[p].node # NoNode => tally[p] = api[p].node

HoldInv == VictimsBound /\ HoldsRoom /\ RunsWhere /\ Counted
RoomInv == HoldInv /\ RoomKept

\* Nothing is counted that was not.
Quiet ==
  /\ spared \subseteq spared'
  /\ \A q \in Pods : tally'[q] # NoNode /\ ~Marked(q)' /\ q \notin claimed' =>
       tally[q] = tally'[q] /\ ~Marked(q) /\ q \notin claimed

LEMMA QuietKeeps ==
  ASSUME RoomKept, Quiet
  PROVE  RoomKept'
<1> SUFFICES ASSUME NEW n \in Nodes, n \notin spared' PROVE Used(Reserved(n)') <= Cap[n]
  BY DEF RoomKept, Used
<1>1. Reserved(n)' \in SUBSET Reserved(n)
  BY SchedulerConstants DEF Reserved, OnNode, Quiet
<1>2. Reserved(n) \in SUBSET Pods
  BY DEF Reserved, OnNode
<1>3. Used(Reserved(n)') <= Used(Reserved(n)) /\ Used(Reserved(n)') \in Nat
      /\ Used(Reserved(n)) \in Nat
  BY <1>1, <1>2, UsedGrows
<1>4. Used(Reserved(n)) <= Cap[n] /\ Cap[n] \in Nat
  BY SchedulerConstants DEF RoomKept, Quiet
<1> QED
  BY <1>3, <1>4

\* The reservation that a fit check allows leaves room for itself.
LEMMA FitKeepsRoom ==
  ASSUME RoomKept, NEW p \in Pods, NEW n \in Nodes, NEW S \in SUBSET Pods, Fits(p, n, S),
         tally \in [Pods -> Places], tally' = [tally EXCEPT ![p] = n], api' = api,
         claimed \subseteq claimed', spared' = spared, Reserved(n)' \subseteq S \cup {p}
  PROVE  RoomKept'
<1> SUFFICES ASSUME NEW m \in Nodes, m \notin spared' PROVE Used(Reserved(m)') <= Cap[m]
  BY DEF RoomKept, Used
<1>1. CASE m # n
  <2>1. Reserved(m)' \in SUBSET Reserved(m)
    BY <1>1 DEF Reserved, OnNode, Marked
  <2>2. Reserved(m) \in SUBSET Pods /\ Used(Reserved(m)) <= Cap[m] /\ Cap[m] \in Nat
    BY SchedulerConstants DEF Reserved, OnNode, RoomKept
  <2> QED
    BY <2>1, <2>2, UsedGrows
<1>2. CASE m = n
  <2>1. Reserved(m)' \in SUBSET (S \cup {p})
    BY <1>2
  <2>2. Used(Reserved(m)') <= Used(S \cup {p})
        /\ Used(Reserved(m)') \in Nat /\ Used(S \cup {p}) \in Nat
    BY <2>1, UsedGrows
  <2>3. Used(S \cup {p}) <= Used(S) + Size[p]
    BY UsedAdd
  <2>4. Used(S) \in Nat /\ Size[p] \in Nat /\ Cap[n] \in Nat
    BY UsedGrows, SchedulerConstants
  <2>5. Used(S) + Size[p] <= Cap[n]
    BY DEF Fits
  <2> QED
    BY <1>2, <2>2, <2>3, <2>4, <2>5
<1> QED
  BY <1>1, <1>2

\* A step of the task of p that leaves the store alone.
OwnRoom(p) ==
  /\ OnlyTask(p) /\ api' = api /\ runs' = runs
  /\ task'[p].pc \in Holding => tally'[p] = task'[p].node
  /\ \A v \in task'[p].victims :
       \/ v \in task[p].victims /\ task'[p].node = task[p].node
       \/ api[v].node # NoNode /\ api[v].node = task'[p].node
  /\ \A q \in Pods : tally'[q] = tally[q] \/ q = p \/ (~Unscheduled(q) /\ api[q].st # "live")
  /\ api[p].node = NoNode \/ tally'[p] = tally[p]

LEMMA OwnRoomKeeps ==
  ASSUME HoldInv, NEW p \in Pods, OwnRoom(p)
  PROVE  HoldInv'
<1>1. VictimsBound' /\ RunsWhere'
  BY DEF HoldInv, VictimsBound, RunsWhere, OwnRoom, OnlyTask
<1>2. HoldsRoom'
  BY DEF HoldInv, HoldsRoom, OwnRoom, OnlyTask, Unscheduled, Live
<1>3. Counted'
  BY DEF HoldInv, Counted, OwnRoom
<1> QED
  BY <1>1, <1>2, <1>3 DEF HoldInv

\* The tally only loses entries.
Shrinks ==
  /\ claimed \subseteq claimed' /\ spared' = spared
  /\ \A q \in Pods : tally'[q] \in {tally[q], NoNode}

LEMMA OwnRoomQuiet ==
  ASSUME NEW p \in Pods, OwnRoom(p), Shrinks
  PROVE  Quiet
  BY DEF Quiet, OwnRoom, Shrinks, Marked

\* A DELETE of one pod.
LEMMA DeleteRoom ==
  ASSUME BaseInv, RoomInv, NEW v \in Pods, DeleteStored(v), tally' = tally,
         claimed' = claimed, spared' = spared,
         \A q \in Pods : /\ task'[q].victims = task[q].victims /\ task'[q].node = task[q].node
                         /\ \/ task'[q].pc = task[q].pc
                            \/ task[q].pc = "evict" /\ task'[q].pc = "forget"
                         /\ runs'[q] \in {runs[q], NoNode}
  PROVE  RoomInv'
<1>t. TypeOK
  BY DEF BaseInv
<1>d. /\ \A q \in Pods : q # v => api'[q] = api[q]
      /\ api'[v].node = api[v].node
      /\ \/ api' = api
         \/ api[v].st = "leaving" /\ api'[v].st = "gone"
         \/ api[v].st = "live" /\ api'[v].st = "leaving"
  BY <1>t, DeleteFacts
<1>1. \A q \in Pods : /\ api'[q].node = api[q].node /\ (Unscheduled(q)' => Unscheduled(q))
                      /\ api'[q].st = "live" => api[q].st = "live"
  BY <1>d DEF Unscheduled, Live
<1>2. VictimsBound' /\ RunsWhere'
  BY <1>1, <1>t, VictimsArePods DEF RoomInv, HoldInv, VictimsBound, RunsWhere
<1>3. HoldsRoom'
  BY <1>1 DEF RoomInv, HoldInv, HoldsRoom, Holding
<1>4. Counted'
  BY <1>1 DEF RoomInv, HoldInv, Counted
<1>5. Quiet
  <2>1. \A q \in Pods : Marked(q) => Marked(q)'
    BY <1>t, DeleteForward DEF Forward
  <2> QED
    BY <2>1 DEF Quiet
<1> QED
  BY <1>2, <1>3, <1>4, <1>5, QuietKeeps DEF RoomInv, HoldInv

LEMMA PlaceRoom ==
  ASSUME BaseInv, KnownInv, Progress, RoomInv, Races \subseteq {"early"}, NEW p \in Pods, Place(p)
  PROVE  RoomInv'
<1>t. TypeOK /\ tally \in [Pods -> Places]
  BY DEF BaseInv, TypeOK
<1>u. task[p].pc \notin {"idle", "bound"} => api[p].node = NoNode
  BY DEF KnownInv, BoundSettled
<1>q. OwnRoom(p) /\ Shrinks => RoomInv'
  BY OwnRoomKeeps, OwnRoomQuiet, QuietKeeps DEF RoomInv
<1>1. ASSUME NEW n \in Nodes, PickNode(p, n)
      PROVE  RoomInv'
  <2>1. LET t == task[p] IN TaskIs(p, "bind", n, t.victims, t.left, t.cur, t.tries)
    BY <1>1, <1>t, PickNodeFacts
  <2>2. task[p].victims = {}
    BY <1>1 DEF PickNode, Progress, TaskProgress
  <2>3. OwnRoom(p)
    BY <2>1, <2>2, <1>1, <1>t, <1>u DEF OwnRoom, TaskIs, PickNode
  <2>4. HoldInv'
    BY <2>3, OwnRoomKeeps DEF RoomInv
  <2>5. /\ Fits(p, n, OnNode(n)) /\ tally' = [tally EXCEPT ![p] = n] /\ api' = api
        /\ claimed' = claimed /\ spared' = spared
    BY <1>1 DEF PickNode
  <2>6. OnNode(n) \in SUBSET Pods /\ Reserved(n)' \subseteq OnNode(n) \cup {p}
    BY <2>5, <1>t DEF OnNode, Reserved
  <2>7. RoomKept'
    BY <2>5, <2>6, <1>t, FitKeepsRoom DEF RoomInv
  <2> QED
    BY <2>4, <2>7 DEF RoomInv
<1>2. ASSUME PickNothing(p)
      PROVE  RoomInv'
  <2>1. LET t == task[p] IN TaskIs(p, "plan", t.node, t.victims, t.left, t.cur, t.tries)
    BY <1>2, <1>t, AtFacts DEF PickNothing, Pcs
  <2> QED
    BY <2>1, <1>2, <1>t, <1>q DEF OwnRoom, Shrinks, TaskIs, PickNothing, Holding
<1>3. ASSUME NEW n \in Nodes, NEW V \in SUBSET Pods, Planned(p, n, V)
      PROVE  RoomInv'
  <2>1. TaskIs(p, "verify", n, V, V, task[p].cur, task[p].tries)
    BY <1>3, <1>t, PlanFacts
  <2>2. \A v \in V : ~Marked(v) /\ api[v].node # NoNode /\ tally[v] = n /\ v \in Pods
    BY <1>3 DEF Planned, VictimSets, PodsOn, OnNode
  <2>3. \A v \in V : api[v].st = "live"
    BY <2>2, <1>t DEF BaseInv, Unborn, TypeOK, Marked
  <2>4. \A v \in V : api[v].node # NoNode /\ api[v].node = n
    BY <2>2, <2>3 DEF RoomInv, HoldInv, Counted
  <2> QED
    BY <2>1, <2>4, <1>3, <1>t, <1>q DEF OwnRoom, Shrinks, TaskIs, Planned, Holding
<1>4. ASSUME NoPlan(p)
      PROVE  RoomInv'
  <2>1. /\ OnlyTask(p) /\ task'[p].pc \in {"plan", "idle"}
        /\ \/ task'[p].victims = {}
           \/ task'[p].victims = task[p].victims /\ task'[p].node = task[p].node
    BY <1>4, <1>t, RetryVictims DEF NoPlan
  <2> QED
    BY <2>1, <1>4, <1>t, <1>q DEF OwnRoom, Shrinks, NoPlan, Holding
<1>5. ASSUME Verify(p)
      PROVE  RoomInv'
  <2>1. CASE Fits(p, task[p].node, PodsOn(task[p].node) \ task[p].victims)
    <3>0. task[p].node \in Nodes
      BY <1>5 DEF Verify, BaseInv, NodeKnown
    <3>n. PICK n \in Nodes : n = task[p].node
      BY <3>0
    <3> DEFINE S == PodsOn(n) \ task[p].victims
    <3>1. /\ task[p].pc = "verify" /\ task' = At(p, "nominate")
          /\ tally' = [tally EXCEPT ![p] = n] /\ api' = api /\ runs' = runs
          /\ claimed' = claimed \cup task[p].victims /\ spared' = spared
      BY <1>5, <2>1, <3>n DEF Verify
    <3>2. LET t == task[p] IN TaskIs(p, "nominate", n, t.victims, t.left, t.cur, t.tries)
      BY <3>1, <3>n, <1>t, AtFacts DEF Pcs
    <3>3. OwnRoom(p)
      BY <3>1, <3>2, <3>n, <1>t, <1>u DEF OwnRoom, TaskIs
    <3>4. HoldInv'
      BY <3>3, OwnRoomKeeps DEF RoomInv
    <3>6. Fits(p, n, S)
      BY <2>1, <3>n
    <3>7. S \in SUBSET Pods /\ Reserved(n)' \subseteq S \cup {p}
      BY <3>1, <1>t DEF PodsOn, OnNode, Reserved
    <3>8. claimed \subseteq claimed' /\ tally' = [tally EXCEPT ![p] = n] /\ api' = api /\ spared' = spared
      BY <3>1
    <3> HIDE DEF S
    <3>9. RoomKept'
      BY <3>6, <3>7, <3>8, <1>t, FitKeepsRoom DEF RoomInv
    <3> QED
      BY <3>4, <3>9 DEF RoomInv
  <2>2. CASE ~Fits(p, task[p].node, PodsOn(task[p].node) \ task[p].victims)
    <3>1. /\ task[p].pc = "verify" /\ task' = Retry(p) /\ tally' = tally /\ api' = api /\ runs' = runs
          /\ claimed' = claimed /\ spared' = spared
      BY <1>5, <2>2 DEF Verify
    <3>2. /\ OnlyTask(p) /\ task'[p].pc \in {"plan", "idle"}
          /\ \/ task'[p].victims = {}
             \/ task'[p].victims = task[p].victims /\ task'[p].node = task[p].node
      BY <3>1, <1>t, RetryVictims
    <3> QED
      BY <3>1, <3>2, <1>t, <1>q DEF OwnRoom, Shrinks, Holding
  <2> QED
    BY <2>1, <2>2
<1>6. ASSUME Nominate(p)
      PROVE  RoomInv'
  <2>1. LET t == task[p] IN TaskIs(p, "evict", t.node, t.victims, t.left, t.cur, t.tries)
    BY <1>6, <1>t, AtFacts DEF Nominate, Pcs
  <2>2. /\ task[p].pc = "nominate" /\ api' = api /\ runs' = runs /\ tally' = tally
        /\ claimed' = claimed /\ spared' = spared
    BY <1>6 DEF Nominate
  <2>3. \A q \in Pods : task'[q].node = task[q].node /\ task'[q].victims = task[q].victims
    BY <2>1 DEF TaskIs, OnlyTask
  <2>4. \A q \in Pods : task'[q].pc = task[q].pc \/ (q = p /\ task'[q].pc = "evict")
    BY <2>1 DEF TaskIs, OnlyTask
  <2>5. HoldInv'
    BY <2>2, <2>3, <2>4
    DEF RoomInv, HoldInv, VictimsBound, RunsWhere, Counted, HoldsRoom, Unscheduled, Live, Holding
  <2>6. Quiet
    BY <2>2 DEF Quiet, Marked
  <2> QED
    BY <2>5, <2>6, QuietKeeps DEF RoomInv
<1>7. ASSUME NEW v \in Pods, EvictVictim(p, v)
      PROVE  RoomInv'
  <2>1. LET t == task[p] IN TaskIs(p, "forget", t.node, t.victims, t.left \ {v}, {v}, t.tries)
    BY <1>7, <1>t, EvictVictimFacts
  <2>2. \A q \in Pods : /\ task'[q].victims = task[q].victims /\ task'[q].node = task[q].node
                        /\ \/ task'[q].pc = task[q].pc
                           \/ task[q].pc = "evict" /\ task'[q].pc = "forget"
                        /\ runs'[q] \in {runs[q], NoNode}
    BY <2>1, <1>7 DEF TaskIs, OnlyTask, EvictVictim
  <2> QED
    BY <2>2, <1>7, DeleteRoom DEF EvictVictim
<1>8. ASSUME ForgetVictim(p)
      PROVE  RoomInv'
  <2>1. /\ OnlyTask(p) /\ task'[p].pc \in {"register", "evict"} /\ task'[p].node = task[p].node
        /\ task'[p].victims = task[p].victims
    BY <1>8, <1>t, ForgetVictimFacts DEF TaskIs
  <2>2. \A v \in task[p].cur : api[v].node # NoNode /\ api[v].st # "live"
    BY <1>t DEF RoomInv, HoldInv, VictimsBound, KnownInv, CurMarked, Marked, TypeOK
  <2>3. /\ task[p].pc = "forget" /\ api' = api /\ runs' = runs
        /\ \A q \in Pods : tally'[q] = IF q \in task[p].cur THEN NoNode ELSE tally[q]
        /\ claimed' = claimed /\ spared' = spared
    BY <1>8 DEF ForgetVictim
  <2>4. p \notin task[p].cur
    BY <2>2, <2>3, <1>u
  <2>5. HoldInv'
    <3>1. VictimsBound' /\ RunsWhere'
      BY <2>1, <2>3 DEF RoomInv, HoldInv, VictimsBound, RunsWhere, OnlyTask
    <3>2. HoldsRoom'
      BY <2>1, <2>2, <2>3 DEF RoomInv, HoldInv, HoldsRoom, OnlyTask, Unscheduled, Live, Holding
    <3>3. Counted'
      BY <2>2, <2>3 DEF RoomInv, HoldInv, Counted
    <3> QED
      BY <3>1, <3>2, <3>3 DEF HoldInv
  <2>6. Quiet
    BY <2>3 DEF Quiet, Marked
  <2> QED
    BY <2>5, <2>6, QuietKeeps DEF RoomInv
<1>9. ASSUME Register(p)
      PROVE  RoomInv'
  <2>1. LET t == task[p] IN TaskIs(p, "wait", t.node, t.victims, t.victims, t.cur, t.tries)
    BY <1>9, <1>t, RegisterFacts
  <2>2. /\ task[p].pc = "register" /\ tally' = tally /\ api' = api /\ runs' = runs
        /\ claimed' = claimed \ task[p].victims /\ spared' = spared
    BY <1>9 DEF Register
  <2>3. HoldInv'
    BY <2>1, <2>2
    DEF RoomInv, HoldInv, VictimsBound, RunsWhere, Counted, HoldsRoom, Unscheduled, Live, Holding,
        TaskIs, OnlyTask
  <2>4. Quiet
    <3>1. \A v \in task[p].victims : Marked(v)
      BY <2>2 DEF Progress, TaskProgress, Evicting
    <3> QED
      BY <2>2, <3>1 DEF Quiet, Marked
  <2> QED
    BY <2>3, <2>4, QuietKeeps DEF RoomInv
<1>10. ASSUME Recheck(p)
       PROVE  RoomInv'
  <2> DEFINE n == task[p].node
  <2>0. n \in Nodes
    BY <1>10 DEF Recheck, BaseInv, NodeKnown
  <2>1. CASE Fits(p, n, PodsOn(n) \ {p})
    <3>1. /\ task[p].pc = "recheck" /\ task' = At(p, "bind") /\ tally' = tally
          /\ api' = api /\ runs' = runs /\ claimed' = claimed /\ spared' = spared
      BY <1>10, <2>1 DEF Recheck
    <3>2. LET t == task[p] IN TaskIs(p, "bind", n, t.victims, t.left, t.cur, t.tries)
      BY <3>1, <1>t, AtFacts DEF Pcs
    <3>3. Quiet
      BY <3>1 DEF Quiet, Marked
    <3> HIDE DEF n
    <3>4. HoldInv'
      BY <3>1, <3>2
      DEF RoomInv, HoldInv, VictimsBound, RunsWhere, Counted, HoldsRoom, Unscheduled, Live, Holding,
          TaskIs, OnlyTask, n
    <3> QED
      BY <3>3, <3>4, QuietKeeps DEF RoomInv
  <2>2. CASE ~Fits(p, n, PodsOn(n) \ {p})
    <3>1. /\ task[p].pc = "recheck" /\ task' = [task EXCEPT ![p] = NoTask]
          /\ tally' = [tally EXCEPT ![p] = NoNode] /\ api' = api /\ runs' = runs
          /\ claimed' = claimed /\ spared' = spared
      BY <1>10, <2>2 DEF Recheck
    <3>2. TaskIs(p, "idle", NoNode, {}, {}, {}, 0)
      BY <3>1, <1>t, NoTaskFacts
    <3> QED
      BY <3>1, <3>2, <1>t, <1>u, <1>q DEF OwnRoom, Shrinks, TaskIs, Holding
  <2> QED
    BY <2>1, <2>2
<1>11. ASSUME Bind(p)
       PROVE  RoomInv'
  <2> DEFINE n == task[p].node
  <2>1. CASE ~Unscheduled(p)
    <3>1. /\ \E c \in {"bound", "failed"} : task' = At(p, c)
          /\ tally' = tally /\ api' = api /\ runs' = runs
          /\ claimed' = claimed /\ spared' = spared
      BY <1>11, <2>1 DEF Bind
    <3>2. /\ OnlyTask(p) /\ task'[p].pc \in {"bound", "failed"}
          /\ task'[p].victims = task[p].victims /\ task'[p].node = task[p].node
      BY <3>1, <1>t, AtFacts DEF Pcs, TaskIs
    <3> QED
      BY <3>1, <3>2, <1>q DEF OwnRoom, Shrinks, Holding
  <2>2. CASE Unscheduled(p)
    <3>1. /\ task[p].pc = "bind" /\ StoreBinding(p, n) /\ tally' = tally /\ task' = At(p, "bound")
          /\ claimed' = claimed /\ spared' = spared
      BY <1>11, <2>2 DEF Bind
    <3>2. LET t == task[p] IN TaskIs(p, "bound", n, t.victims, t.left, t.cur, t.tries)
      BY <3>1, <1>t, AtFacts DEF Pcs
    <3>3. /\ api'[p].node = n /\ api'[p].st = api[p].st /\ runs'[p] = n
          /\ \A q \in Pods : q # p => api'[q] = api[q] /\ runs'[q] = runs[q]
      BY <3>1, <1>t DEF StoreBinding, TypeOK
    <3>4. n \in Nodes /\ n # NoNode
      BY <3>1, SchedulerConstants DEF BaseInv, NodeKnown
    <3>5. tally[p] = n
      BY <3>1, <2>2 DEF RoomInv, HoldInv, HoldsRoom, Holding
    <3>6. VictimsBound'
      <4>1. \A q \in Pods : task'[q].victims = task[q].victims /\ task'[q].node = task[q].node
        BY <3>2 DEF TaskIs, OnlyTask
      <4>2. \A v \in Pods : api[v].node # NoNode => api'[v].node = api[v].node
        BY <2>2, <3>3 DEF Unscheduled
      <4> QED
        BY <4>1, <4>2, <1>t, VictimsArePods DEF RoomInv, HoldInv, VictimsBound
    <3>7. RunsWhere'
      BY <3>3 DEF RoomInv, HoldInv, RunsWhere
    <3>8. HoldsRoom'
      BY <3>1, <3>2, <3>3 DEF RoomInv, HoldInv, HoldsRoom, TaskIs, OnlyTask, Unscheduled, Live,
                              Holding
    <3>9. Counted'
      BY <3>1, <3>3, <3>5 DEF RoomInv, HoldInv, Counted
    <3>10. \A q \in Pods : api'[q].st = api[q].st
      BY <3>3
    <3>11. Quiet
      BY <3>1, <3>10 DEF Quiet, Marked
    <3>12. RoomKept'
      BY <3>11, QuietKeeps DEF RoomInv
    <3> QED
      BY <3>6, <3>7, <3>8, <3>9, <3>12 DEF RoomInv, HoldInv
  <2> QED
    BY <2>1, <2>2
<1>12. ASSUME BindReturns(p)
       PROVE  RoomInv'
  <2>1. TaskIs(p, "idle", NoNode, {}, {}, {}, 0)
    BY <1>12, <1>t, NoTaskFacts DEF BindReturns
  <2> QED
    BY <2>1, <1>12, <1>t, <1>u, <1>q DEF OwnRoom, Shrinks, TaskIs, BindReturns, Holding
<1> QED
  BY <1>1, <1>2, <1>3, <1>4, <1>5, <1>6, <1>7, <1>8, <1>9, <1>10, <1>11, <1>12, PlanPlans DEF Place

LEMMA RoomNext ==
  ASSUME Races \subseteq {"early"}
  PROVE  BaseInv /\ KnownInv /\ Progress /\ RoomInv /\ [Next]_vars => RoomInv'
<1> SUFFICES ASSUME BaseInv, KnownInv, Progress, RoomInv, [Next]_vars
             PROVE  RoomInv'
  OBVIOUS
<1>t. TypeOK /\ tally \in [Pods -> Places]
  BY DEF BaseInv, TypeOK
<1>u. \A p \in Pods : task[p].pc \notin {"idle", "bound"} => api[p].node = NoNode
  BY DEF KnownInv, BoundSettled
<1>1. CASE UNCHANGED vars
  <2>1. HoldInv'
    BY <1>1 DEF vars, RoomInv, HoldInv, VictimsBound, RunsWhere, Counted, HoldsRoom, Unscheduled, Live
  <2>2. Quiet
    BY <1>1 DEF vars, Quiet, Marked
  <2> QED
    BY <2>1, <2>2, QuietKeeps DEF RoomInv
<1>2. ASSUME NEW p \in Pods, CreatePod(p)
      PROVE  RoomInv'
  <2>1. /\ api[p].st = "absent" /\ api'[p].node = api[p].node
        /\ \A q \in Pods : q # p => api'[q] = api[q]
    BY <1>2, <1>t DEF CreatePod, TypeOK
  <2>2. /\ runs' = runs /\ tally' = tally /\ task' = task
        /\ claimed' = claimed /\ spared' = spared
    BY <1>2 DEF CreatePod
  <2>3. task[p].pc = "idle" /\ api[p].node = NoNode
    BY <2>1 DEF BaseInv, Unborn
  <2>4. VictimsBound' /\ RunsWhere' /\ Counted'
    BY <2>1, <2>2, <2>3, <1>t, VictimsArePods DEF RoomInv, HoldInv, VictimsBound, RunsWhere, Counted
  <2>5. HoldsRoom'
    BY <2>1, <2>2, <2>3 DEF RoomInv, HoldInv, HoldsRoom, Unscheduled, Live, Holding
  <2>6. Quiet
    BY <2>1, <2>2 DEF Quiet, Marked
  <2> QED
    BY <2>4, <2>5, <2>6, QuietKeeps DEF RoomInv, HoldInv
<1>3. ASSUME NEW p \in Pods, UserDelete(p)
      PROVE  RoomInv'
  <2>1. /\ DeleteStored(p) /\ tally' = tally /\ task' = task /\ runs' = runs
        /\ claimed' = claimed /\ spared' = spared
    BY <1>3 DEF UserDelete
  <2> QED
    BY <2>1, DeleteRoom
<1>4. ASSUME NEW p \in Pods, EndPod(p)
      PROVE  RoomInv'
  <2>1. /\ DeleteStored(p) /\ tally' = tally /\ task' = task /\ runs' = [runs EXCEPT ![p] = NoNode]
        /\ claimed' = claimed /\ spared' = spared
    BY <1>4 DEF EndPod
  <2>2. \A q \in Pods : runs'[q] \in {runs[q], NoNode}
    BY <2>1, <1>t DEF TypeOK
  <2> QED
    BY <2>1, <2>2, DeleteRoom
<1>5. CASE Deliver
  <2> DEFINE e == Head(queue)
             v == e.pod
  <2>1. e \in Reports /\ e \in Range(queue)
    BY <1>5, <1>t, TailRange DEF Deliver, TypeOK
  <2>2. v \in Pods /\ e.node \in Places
    BY <2>1 DEF Reports
  <2>3. api' = api /\ runs' = runs /\ claimed' = claimed /\ spared' = spared
    BY <1>5 DEF Deliver
  <2>4. \/ /\ e.kind = "gone" /\ tally' = [tally EXCEPT ![v] = NoNode] /\ task' = Resolved(v)
        \/ /\ e.node # NoNode /\ tally' = [tally EXCEPT ![v] = e.node] /\ task' = task
        \/ /\ tally' = tally /\ task' = Started(v)
    BY <1>5 DEF Deliver
  <2>5. /\ e.node \in {NoNode, api[v].node}
        /\ e.kind = "gone" => api[v].st = "gone"
    BY <2>1 DEF BaseInv, ReportsFit
  <2> HIDE DEF e, v
  <2>6. CASE e.kind = "gone" /\ tally' = [tally EXCEPT ![v] = NoNode] /\ task' = Resolved(v)
    <3>1. \A q \in Pods :
            /\ task[q].pc # "wait" => task'[q].pc = task[q].pc
            /\ task[q].pc = "wait" => task'[q].pc \in {"wait", "recheck"}
            /\ task'[q].victims = task[q].victims /\ task'[q].node = task[q].node
      BY <2>6, <2>2, <1>t, ResolvedType
    <3>2. \A q \in Pods : tally'[q] = tally[q] \/ api[q].st = "gone"
      BY <2>2, <2>5, <2>6, <1>t
    <3>3. VictimsBound' /\ RunsWhere' /\ Counted'
      BY <2>3, <3>1, <3>2 DEF RoomInv, HoldInv, VictimsBound, RunsWhere, Counted
    <3>4. HoldsRoom'
      BY <2>3, <3>1, <3>2 DEF RoomInv, HoldInv, HoldsRoom, Unscheduled, Live, Holding
    <3>5. Quiet
      BY <2>2, <2>3, <2>6, <1>t DEF Quiet, Marked
    <3> QED
      BY <3>3, <3>4, <3>5, QuietKeeps DEF RoomInv, HoldInv
  <2>7. CASE e.node # NoNode /\ tally' = [tally EXCEPT ![v] = e.node] /\ task' = task
    <3>1. \A q \in Pods : tally'[q] = tally[q] \/ (tally'[q] = api[q].node /\ ~Unscheduled(q))
      BY <2>2, <2>5, <2>7, <1>t DEF Unscheduled
    <3>2. VictimsBound' /\ RunsWhere' /\ Counted'
      BY <2>3, <2>7, <3>1 DEF RoomInv, HoldInv, VictimsBound, RunsWhere, Counted
    <3>3. HoldsRoom'
      BY <2>3, <2>7, <3>1 DEF RoomInv, HoldInv, HoldsRoom, Unscheduled, Live
    <3>4. Quiet
      <4>1. ~Marked(v) => tally[v] = e.node
        BY <2>2, <2>5, <2>7, <1>t DEF BaseInv, Unborn, TypeOK, Marked, RoomInv, HoldInv, Counted
      <4> QED
        BY <4>1, <2>2, <2>3, <2>7, <1>t DEF Quiet, Marked
    <3> QED
      BY <3>2, <3>3, <3>4, QuietKeeps DEF RoomInv, HoldInv
  <2>8. CASE tally' = tally /\ task' = Started(v)
    <3>1. \A q \in Pods : \/ task'[q] = task[q]
                          \/ task'[q].pc = "pick" /\ task'[q].victims = {}
      BY <2>8, <2>2, <1>t, StartedType
    <3>2. VictimsBound' /\ RunsWhere' /\ Counted'
      BY <2>3, <2>8, <3>1 DEF RoomInv, HoldInv, VictimsBound, RunsWhere, Counted
    <3>3. HoldsRoom'
      BY <2>3, <2>8, <3>1 DEF RoomInv, HoldInv, HoldsRoom, Unscheduled, Live, Holding
    <3>4. Quiet
      BY <2>3, <2>8 DEF Quiet, Marked
    <3> QED
      BY <3>2, <3>3, <3>4, QuietKeeps DEF RoomInv, HoldInv
  <2> QED
    BY <2>4, <2>6, <2>7, <2>8
<1>6. ASSUME NEW p \in Pods, ResyncList(p)
      PROVE  RoomInv'
  <2>1. /\ api' = api /\ runs' = runs /\ tally' = tally /\ task' = task
        /\ claimed' = claimed /\ spared' = spared
    BY <1>6 DEF ResyncList
  <2>2. HoldInv'
    BY <2>1 DEF RoomInv, HoldInv, VictimsBound, RunsWhere, Counted, HoldsRoom, Unscheduled, Live
  <2>3. Quiet
    BY <2>1 DEF Quiet, Marked
  <2> QED
    BY <2>2, <2>3, QuietKeeps DEF RoomInv
<1>7. ASSUME NEW p \in Pods, ResyncHandle(p)
      PROVE  RoomInv'
  <2>1. /\ task' = Started(p) /\ api' = api /\ runs' = runs /\ tally' = tally
        /\ claimed' = claimed /\ spared' = spared
    BY <1>7 DEF ResyncHandle
  <2>2. \A q \in Pods : \/ task'[q] = task[q]
                        \/ task'[q].pc = "pick" /\ task'[q].victims = {}
    BY <2>1, <1>t, StartedType
  <2>3. VictimsBound' /\ RunsWhere' /\ Counted'
    BY <2>1, <2>2 DEF RoomInv, HoldInv, VictimsBound, RunsWhere, Counted
  <2>4. HoldsRoom'
    BY <2>1, <2>2 DEF RoomInv, HoldInv, HoldsRoom, Unscheduled, Live, Holding
  <2>5. Quiet
    BY <2>1 DEF Quiet, Marked
  <2> QED
    BY <2>3, <2>4, <2>5, QuietKeeps DEF RoomInv, HoldInv
<1>8. CASE Reconnect
  <2>1. /\ api' = api /\ runs' = runs /\ claimed' = {} /\ spared' = spared
        /\ \A p \in Pods : tally'[p] = IF Live(p) THEN api[p].node ELSE NoNode
        /\ \A q \in Pods : task'[q] = IF task[q].pc = "wait" THEN NoTask ELSE task[q]
        /\ \A q \in Pods : task[q].pc \in {"idle", "pick", "wait"}
    BY <1>8 DEF Reconnect
  <2>2. NoTask.pc = "idle" /\ NoTask.victims = {}
    BY DEF NoTask
  <2>3. VictimsBound' /\ RunsWhere' /\ Counted'
    BY <2>1, <2>2 DEF RoomInv, HoldInv, VictimsBound, RunsWhere, Counted, Live
  <2>4. HoldsRoom'
    BY <2>1, <2>2 DEF HoldsRoom, Holding
  <2>5. Quiet
    <3>1. claimed = {}
      BY <2>1 DEF BaseInv, ClaimsOwned, Evicting
    <3>2. \A q \in Pods : tally'[q] # NoNode /\ ~Marked(q) => tally[q] = tally'[q]
      <4> SUFFICES ASSUME NEW q \in Pods, tally'[q] # NoNode, ~Marked(q) PROVE tally[q] = tally'[q]
        OBVIOUS
      <4>1. Live(q) /\ tally'[q] = api[q].node
        BY <2>1
      <4>2. api[q].st = "live"
        BY <4>1 DEF Live, Marked
      <4> QED
        BY <4>1, <4>2 DEF RoomInv, HoldInv, Counted
    <3> QED
      BY <2>1, <3>1, <3>2 DEF Quiet, Marked
  <2> QED
    BY <2>3, <2>4, <2>5, QuietKeeps DEF RoomInv, HoldInv
<1>9. ASSUME NEW p \in Pods, Place(p)
      PROVE  RoomInv'
  BY <1>9, PlaceRoom
<1>q. ASSUME NEW p \in Pods, OwnRoom(p), Shrinks
      PROVE  RoomInv'
  BY <1>q, OwnRoomKeeps, OwnRoomQuiet, QuietKeeps DEF RoomInv
<1>10. ASSUME NEW p \in Pods, BindFails(p)
       PROVE  RoomInv'
  <2>1. LET t == task[p] IN TaskIs(p, "failed", t.node, t.victims, t.left, t.cur, t.tries)
    BY <1>10, <1>t, AtFacts DEF BindFails, Pcs
  <2> QED
    BY <2>1, <1>10, <1>t, <1>q DEF OwnRoom, Shrinks, TaskIs, BindFails, Holding
<1>11. ASSUME NEW p \in Pods, NEW v \in Pods, EvictFails(p, v)
       PROVE  RoomInv'
  <2> DEFINE n == task[p].node
  <2>1. /\ OnlyTask(p) /\ task'[p].pc \in {"plan", "idle"}
        /\ \/ task'[p].victims = {}
           \/ task'[p].victims = task[p].victims /\ task'[p].node = n
    BY <1>11, <1>t, RetryVictims DEF EvictFails
  <2>2. /\ task[p].pc = "evict" /\ tally' = [tally EXCEPT ![p] = NoNode] /\ api' = api /\ runs' = runs
        /\ claimed' = claimed \ task[p].victims
        /\ spared' = spared \cup {m \in Nodes : m = n /\ Used(Kept(p)) > Cap[m]}
    BY <1>11 DEF EvictFails
  <2>3. HoldInv'
    <3>1. OwnRoom(p)
      BY <2>1, <2>2, <1>t, <1>u DEF OwnRoom, Holding
    <3> QED
      BY <3>1, OwnRoomKeeps DEF RoomInv
  <2>4. ASSUME NEW m \in Nodes, m \notin spared'
        PROVE  Used(Reserved(m)') <= Cap[m]
    <3>1. m # NoNode /\ Cap[m] \in Nat
      BY SchedulerConstants
    <3>2. CASE m = n
      <4>1. Reserved(m)' \in SUBSET Kept(p) /\ Kept(p) \in SUBSET Pods
        BY <2>2, <3>1, <3>2, <1>t DEF Reserved, OnNode, Kept, Marked
      <4>2. Used(Reserved(m)') <= Used(Kept(p)) /\ Used(Reserved(m)') \in Nat /\ Used(Kept(p)) \in Nat
        BY <4>1, UsedGrows
      <4>3. ~(Used(Kept(p)) > Cap[m])
        BY <2>2, <2>4, <3>2
      <4> QED
        BY <4>2, <4>3, <3>1
    <3>3. CASE m # n
      <4>1. \A w \in task[p].victims : tally[w] = m => Marked(w)
        <5> SUFFICES ASSUME NEW w \in task[p].victims, tally[w] = m, ~Marked(w) PROVE FALSE
          OBVIOUS
        <5>1. w \in Pods /\ api[w].st # "absent" /\ api[w].node # NoNode /\ api[w].node = n
          BY <1>t, VictimsArePods DEF BaseInv, VictimsBorn, RoomInv, HoldInv, VictimsBound
        <5>2. api[w].st = "live"
          BY <5>1, <1>t DEF TypeOK, Marked
        <5> QED
          BY <5>1, <5>2, <3>3 DEF RoomInv, HoldInv, Counted
      <4>2. Reserved(m)' \in SUBSET Reserved(m)
        BY <2>2, <3>1, <4>1, <1>t DEF Reserved, OnNode, Marked
      <4>3. Reserved(m) \in SUBSET Pods /\ Used(Reserved(m)) <= Cap[m]
        BY <2>2, <2>4 DEF Reserved, OnNode, RoomInv, RoomKept
      <4> QED
        BY <4>2, <4>3, <3>1, UsedGrows
    <3> QED
      BY <3>2, <3>3
  <2>5. RoomKept'
    BY <2>4 DEF RoomKept, Used
  <2> QED
    BY <2>3, <2>5 DEF RoomInv
<1> QED
  BY <1>1, <1>2, <1>3, <1>4, <1>5, <1>6, <1>7, <1>8, <1>9, <1>10, <1>11 DEF Next, Fail

LEMMA RoomInit == Init => RoomInv
<1> SUFFICES ASSUME Init PROVE RoomInv
  OBVIOUS
<1>1. \A p \in Pods : /\ task[p].pc = "idle" /\ task[p].victims = {}
                      /\ api[p].node = Start[p] /\ tally[p] = Start[p] /\ runs[p] = Start[p]
  BY DEF Init, NoTask
<1>2. HoldInv
  BY <1>1 DEF HoldInv, VictimsBound, HoldsRoom, RunsWhere, Counted, Holding
<1>3. claimed = {} /\ \A p \in Pods : ~Marked(p)
  BY DEF Init, Marked
<1>4. \A n \in Nodes : Reserved(n) = {p \in Pods : Start[p] = n}
  BY <1>1, <1>3 DEF Reserved, OnNode
<1>5. RoomKept
  BY <1>4, SchedulerConstants DEF RoomKept
<1> QED
  BY <1>2, <1>5 DEF RoomInv

(* What stays on a node never needs more than it has, for any pods, nodes, *)
(* priorities, requests and failures, however early the watch reports a    *)
(* deletion, when none of the other four races occurs: a reservation is    *)
(* made in the same step as its fit check, a pod is in the tally as long   *)
(* as it runs and nobody removes it, and a victim's claim is given back    *)
(* only when it is marked; but for the nodes where an eviction fails after *)
(* another plan has counted on its room.  And a deferred bind waits for    *)
(* all its victims (select_and_reserve_node,                               *)
(* verify_and_reserve_preemption, release_victims, NodeTally).             *)
THEOREM NodesAreNotOvercommitted ==
  ASSUME Races \subseteq {"early"}
  PROVE  Spec => []NoOvercommit
<1>1. BaseInv /\ KnownInv /\ [Next]_vars => KnownInv'
  BY KnownNext
<1>2. BaseInv /\ Progress /\ [Next]_vars => Progress'
  BY ProgressNext
<1>3. BaseInv /\ KnownInv /\ Progress /\ RoomInv /\ [Next]_vars => RoomInv'
  BY RoomNext
<1>4. BaseInv /\ RoomInv => RoomIsLeft
  <2> SUFFICES ASSUME BaseInv, RoomInv, NEW n \in Nodes, n \notin spared
               PROVE  Used(Staying(n)) <= Cap[n]
    BY DEF RoomIsLeft
  <2>1. Staying(n) \in SUBSET Reserved(n)
    <3> SUFFICES ASSUME NEW q \in Staying(n) PROVE q \in Reserved(n)
      OBVIOUS
    <3>1. q \in Pods /\ runs[q] = n /\ n # NoNode /\ ~Marked(q) /\ q \notin claimed
      BY SchedulerConstants DEF Staying, Running
    <3>2. api[q].node = n
      BY <3>1 DEF RoomInv, HoldInv, RunsWhere
    <3>3. api[q].st = "live"
      BY <3>1, <3>2 DEF BaseInv, TypeOK, Unborn, Marked
    <3>4. tally[q] = n
      BY <3>1, <3>2, <3>3 DEF RoomInv, HoldInv, Counted
    <3> QED
      BY <3>1, <3>4 DEF Reserved, OnNode
  <2>2. Reserved(n) \in SUBSET Pods /\ Used(Reserved(n)) <= Cap[n] /\ Cap[n] \in Nat
    BY SchedulerConstants DEF Reserved, OnNode, RoomInv, RoomKept
  <2> QED
    BY <2>1, <2>2, UsedGrows
<1>5. RoomIsLeft /\ VictimsAreGone => NoOvercommit
  BY DEF NoOvercommit
<1> QED
  BY <1>1, <1>2, <1>3, <1>4, <1>5, SchedulerInvariant, DeferredBindsWait, KnownInit, ProgressInit,
     RoomInit, PTL DEF Spec

===============================================================================
