--------------------------- MODULE WatchCacheProofs ---------------------------
(***************************************************************************)
(* WatchCache's invariants, for any sets of clients, keys and prefixes,    *)
(* any capacities and any bounds: every mapped                             *)
(* shard that nobody watches has an idle-GC task left; the client of a     *)
(* covered stream holds exactly the database its stream has reached; a     *)
(* client sent away has been told of the deletions it was owed; the floors *)
(* cover what went with removed shards; and rings, deletion logs and       *)
(* reclaimed floors stay within their caps.  Each rests on an inductive    *)
(* invariant that uses the ones before it: GcInv, ViewInv, DeletionInv     *)
(* with EndInv, FloorsInv, CapsInv, TypesInv.                              *)
(***************************************************************************)
EXTENDS WatchCache, FiniteSetTheorems, WellFoundedInduction, TLAPS

Counters == {"shards", "opens", "gcs", "evicts", "restarts", "boot"}
Fields   == {"pc", "prefix", "from", "cursor", "sid", "items", "horizon", "queue", "last",
             "reused", "covered", "lagged", "stones", "asof"}

\* The map, the counters and the streams have the shape the steps rely on.
Shape ==
  /\ DOMAIN used = Counters /\ used.shards \in Nat
  /\ DOMAIN shards = AllPrefixes
  /\ DOMAIN st = Watchers
  /\ \A w \in Watchers : DOMAIN st[w] = Fields

\* Identities are never handed out twice: a mapped shard has one of those given
\* out so far, and one prefix.
OwnShard ==
  /\ \A p \in AllPrefixes : shards[p] # None => shards[p] \in 1 .. used.shards
  /\ \A p, q \in AllPrefixes : shards[p] # None /\ shards[p] = shards[q] => p = q

GcInv == Shape /\ OwnShard /\ IdleShardHasGcTask

-------------------------------------------------------------------------------
(* What a step of stream w does to the guards it holds.                     *)

OnlyStream(w) ==
  /\ DOMAIN st' = Watchers
  /\ \A v \in Watchers : DOMAIN st'[v] = Fields
  /\ \A v \in Watchers \ {w} : st'[v] = st[v]

\* Stream w keeps the guard it has, if it has one.
KeepsGuard(w) ==
  OnlyStream(w) /\ (st[w].pc \in AttachedPcs => st'[w].pc \in AttachedPcs /\ st'[w].sid = st[w].sid)

\* As long as no stream drops its guard no shard becomes idle, so arming more
\* checks and mapping a fresh, armed shard keep the invariant.
LEMMA GuardsKept ==
  ASSUME NEW w \in Watchers, KeepsGuard(w)
  PROVE  \A s : Attached(s) \subseteq Attached(s)'
  BY DEF KeepsGuard, OnlyStream, Attached

LEMMA QuietStep ==
  ASSUME GcInv, NEW w \in Watchers, KeepsGuard(w), UNCHANGED <<shards, armed>>,
         DOMAIN used' = Counters, used'.shards = used.shards
  PROVE  GcInv'
<1>1. Shape'
  BY DEF GcInv, Shape, KeepsGuard, OnlyStream
<1>2. OwnShard'
  BY DEF GcInv, OwnShard
<1>3. IdleShardHasGcTask'
  BY GuardsKept DEF GcInv, IdleShardHasGcTask
<1> QED
  BY <1>1, <1>2, <1>3 DEF GcInv

\* ShardWatcherGuard::drop arms the check when it leaves its shard idle.
LEMMA DetachStep ==
  ASSUME GcInv, NEW w \in Watchers, Detach(w), OnlyStream(w), UNCHANGED <<shards, used>>
  PROVE  GcInv'
<1>1. Shape'
  BY DEF GcInv, Shape, OnlyStream
<1>2. OwnShard'
  BY DEF GcInv, OwnShard
<1>3. IdleShardHasGcTask'
  <2> SUFFICES ASSUME NEW p \in AllPrefixes, shards[p] # None, Attached(shards[p])' = {}
               PROVE  shards[p] \in armed'
    BY DEF IdleShardHasGcTask
  <2>1. Attached(shards[p]) \subseteq {w}
    BY DEF OnlyStream, Attached
  <2>2. CASE Attached(shards[p]) = {}
    BY <2>2 DEF GcInv, IdleShardHasGcTask, Detach
  <2>3. CASE Attached(shards[p]) = {w}
    <3>1. st[w].pc \in AttachedPcs /\ st[w].sid = shards[p]
      BY <2>3 DEF Attached
    <3> QED
      BY <3>1, <2>3 DEF Detach
  <2> QED
    BY <2>1, <2>2, <2>3
<1> QED
  BY <1>1, <1>2, <1>3 DEF GcInv

\* get_or_create_shard maps a new shard with its check armed.
LEMMA SeedStep ==
  ASSUME GcInv, NEW p, NEW shard, SeedShard(p, shard),
         used' = [used EXCEPT !.shards = @ + 1],
         DOMAIN st' = Watchers, \A v \in Watchers : DOMAIN st'[v] = Fields,
         \A s : Attached(s) \subseteq Attached(s)'
  PROVE  GcInv'
<1>1. /\ DOMAIN used' = Counters
      /\ used'.shards = used.shards + 1
      /\ used.shards \in Nat
  BY DEF GcInv, Shape, Counters
<1>2. \A q \in AllPrefixes : shards'[q] = IF q = p THEN used.shards + 1 ELSE shards[q]
  BY DEF GcInv, Shape, SeedShard, NextShard
<1>3. Shape'
  BY <1>1 DEF GcInv, Shape, SeedShard
<1>4. OwnShard'
  <2>1. \A q \in AllPrefixes : shards[q] # None => shards[q] \in 1 .. used.shards
    BY DEF GcInv, OwnShard
  <2>2. ASSUME NEW q \in AllPrefixes, shards'[q] # None
        PROVE  shards'[q] \in 1 .. used'.shards
    BY <2>1, <2>2, <1>1, <1>2
  <2>3. ASSUME NEW q \in AllPrefixes, NEW r \in AllPrefixes, shards'[q] # None, shards'[q] = shards'[r]
        PROVE  q = r
    <3>1. CASE q = p \/ r = p
      BY <3>1, <2>1, <2>3, <1>1, <1>2
    <3>2. CASE q # p /\ r # p
      BY <3>2, <2>3, <1>2 DEF GcInv, OwnShard
    <3> QED BY <3>1, <3>2
  <2> QED
    BY <2>2, <2>3 DEF OwnShard
<1>5. IdleShardHasGcTask'
  <2> SUFFICES ASSUME NEW q \in AllPrefixes, shards'[q] # None, Attached(shards[q])' = {}
               PROVE  shards'[q] \in armed'
    BY DEF IdleShardHasGcTask
  <2>1. CASE q = p
    BY <2>1, <1>2 DEF SeedShard, NextShard
  <2>2. CASE q # p
    <3>1. shards'[q] = shards[q]
      BY <2>2, <1>2
    <3>2. ASSUME NEW v \in Attached(shards[q]) PROVE FALSE
      <4>1. v \in Watchers /\ st'[v].sid = shards[q] /\ st'[v].pc \in AttachedPcs
        BY Zenon DEF Attached
      <4> QED
        BY <4>1, <3>1 DEF Attached
    <3>3. Attached(shards[q]) = {}
      BY <3>2
    <3>4. armed' = armed \cup {NextShard}
      BY DEF SeedShard
    <3> QED
      BY <3>1, <3>3, <3>4 DEF GcInv, IdleShardHasGcTask
  <2> QED BY <2>1, <2>2
<1> QED
  BY <1>3, <1>4, <1>5 DEF GcInv

-------------------------------------------------------------------------------
(* The induction, one step per action.                                      *)

LEMMA InitGc == Init => GcInv
<1> SUFFICES ASSUME Init PROVE GcInv
  OBVIOUS
<1>1. DOMAIN NoStream = Fields
  BY DEF NoStream, Fields
<1>2. DOMAIN used = Counters /\ used.shards = 0
  BY DEF Init, Counters
<1>3. \A p \in AllPrefixes : shards[p] = None
  BY DEF Init
<1> QED
  BY <1>1, <1>2, <1>3 DEF Init, GcInv, Shape, OwnShard, IdleShardHasGcTask

LEMMA RestartGc == GcInv /\ Restart => GcInv'
<1> SUFFICES ASSUME GcInv, Restart PROVE GcInv'
  OBVIOUS
<1>1. DOMAIN NoStream = Fields
  BY DEF NoStream, Fields
<1>2. DOMAIN used' = Counters /\ used'.shards = 0
  BY DEF GcInv, Shape, Restart, Counters
<1>3. /\ shards' = [p \in AllPrefixes |-> None]
      /\ st' = [w \in Watchers |-> NoStream]
  BY DEF Restart, Fresh
<1> QED
  BY <1>1, <1>2, <1>3 DEF GcInv, Shape, OwnShard, IdleShardHasGcTask

\* A writer maps a shard only for a delete nobody would remember.
LEMMA WriterGc == GcInv /\ WriterNext => GcInv'
<1> SUFFICES ASSUME GcInv, WriterNext PROVE GcInv'
  OBVIOUS
<1> DEFINE Quiet == UNCHANGED <<shards, armed, st, used>>
<1>1. ASSUME NEW batch, Commit(batch) PROVE Quiet
  BY <1>1 DEF Commit, shardVars
<1>2. ASSUME Quiet PROVE GcInv'
  BY <1>2 DEF GcInv, Shape, OwnShard, IdleShardHasGcTask, Attached
<1>3. CASE \E k \in Keys : Put(k) \/ Delete(k)
  BY <1>1, <1>2, <1>3 DEF Put, Delete
<1>4. CASE \E ns \in {NsOf[k] : k \in Keys} \ {All} : DeleteNamespace(ns)
  BY <1>1, <1>2, <1>4 DEF DeleteNamespace
<1>5. CASE MatchShards \/ Send
  BY <1>2, <1>5 DEF MatchShards, Send, shardVars
<1>6. CASE PushShards
  <2>1. UNCHANGED st
    BY <1>6 DEF PushShards
  <2>2. CASE Quiet
    BY <2>2, <1>2
  <2>3. CASE \E p, shard : SeedShard(p, shard) /\ used' = [used EXCEPT !.shards = @ + 1]
    <3>1. PICK p, shard : SeedShard(p, shard) /\ used' = [used EXCEPT !.shards = @ + 1]
      BY <2>3
    <3>2. \A s : Attached(s) \subseteq Attached(s)'
      BY <2>1 DEF Attached
    <3>3. DOMAIN st' = Watchers /\ \A v \in Watchers : DOMAIN st'[v] = Fields
      BY <2>1 DEF GcInv, Shape
    <3> QED
      BY <3>1, <3>2, <3>3, SeedStep
  <2> QED
    BY <1>6, <2>1, <2>2, <2>3 DEF PushShards
<1> QED
  BY <1>3, <1>4, <1>5, <1>6 DEF WriterNext

\* The idle check drops its task only together with the shard, or when the
\* shard is watched or gone from the map.
LEMMA ShardGc == GcInv /\ ShardNext => GcInv'
<1> SUFFICES ASSUME GcInv, ShardNext PROVE GcInv'
  OBVIOUS
<1> USE DEF GcInv
<1>1. ASSUME NEW p \in AllPrefixes, shards' = [shards EXCEPT ![p] = None], UNCHANGED st,
             DOMAIN used' = Counters, used'.shards = used.shards,
             armed' = armed \/ armed' = armed \ {shards[p]}
      PROVE  GcInv'
  <2>1. \A q \in AllPrefixes : shards'[q] = IF q = p THEN None ELSE shards[q]
    BY <1>1 DEF Shape
  <2>2. Shape'
    BY <1>1 DEF Shape
  <2>3. OwnShard'
    BY <1>1, <2>1 DEF OwnShard
  <2>4. ASSUME NEW q \in AllPrefixes, shards'[q] # None, Attached(shards[q])' = {}
        PROVE  shards'[q] \in armed'
    <3>1. q # p /\ shards'[q] = shards[q] /\ shards[q] # None
      BY <2>1, <2>4
    <3>2. shards[q] # shards[p]
      BY <3>1 DEF OwnShard
    <3>3. Attached(shards[q]) = {}
      BY <1>1, <2>4, <3>1 DEF Attached
    <3> QED
      BY <1>1, <3>1, <3>2, <3>3 DEF IdleShardHasGcTask
  <2> QED
    BY <2>2, <2>3, <2>4 DEF IdleShardHasGcTask
<1>2. ASSUME UNCHANGED <<shards, st, armed>>, DOMAIN used' = Counters, used'.shards = used.shards
      PROVE  GcInv'
  BY <1>2 DEF Shape, OwnShard, IdleShardHasGcTask, Attached
<1>3. ASSUME NEW p \in AllPrefixes, IdleGcRemove(p)
      PROVE  GcInv'
  <2>1. DOMAIN used' = Counters /\ used'.shards = used.shards
    BY <1>3 DEF IdleGcRemove, Shape, Counters
  <2> QED
    BY <1>1, <1>3, <2>1 DEF IdleGcRemove
<1>4. ASSUME NEW p \in AllPrefixes, TearDownShard(p)
      PROVE  GcInv'
  <2>1. UNCHANGED <<st, armed, used>>
    BY <1>4 DEF TearDownShard
  <2>2. shards' = shards \/ shards' = [shards EXCEPT ![p] = None]
    BY <1>4 DEF TearDownShard
  <2> QED
    BY <1>1, <1>2, <2>1, <2>2 DEF Shape
<1>5. ASSUME NEW s \in ShardIds, IdleGcDecline(s)
      PROVE  GcInv'
  <2>1. /\ UNCHANGED <<shards, st, used>>
        /\ armed' = armed \ {s}
        /\ Attached(s) # {} \/ \A p \in AllPrefixes : shards[p] # s
    BY <1>5 DEF IdleGcDecline
  <2> QED
    BY <2>1 DEF Shape, OwnShard, IdleShardHasGcTask, Attached
<1>6. ASSUME NEW p, NEW s, PreserveReclaimedHorizon(p, s)
      PROVE  GcInv'
  <2>1. UNCHANGED <<shards, st, armed, used>>
    BY <1>6 DEF PreserveReclaimedHorizon
  <2> QED
    BY <1>2, <2>1 DEF Shape
<1>7. ASSUME NEW root, EvictStart(root)
      PROVE  GcInv'
  <2>1. DOMAIN used' = Counters /\ used'.shards = used.shards
    BY <1>7 DEF EvictStart, Shape, Counters
  <2> QED
    BY <1>2, <1>7, <2>1 DEF EvictStart
<1> QED
  BY <1>3, <1>4, <1>5, <1>6, <1>7 DEF ShardNext

\* A stream takes a guard once, holds it through replay, live loop and lag
\* recovery, and drops it only where Detach looks whether it was the last.
LEMMA StreamGc == ASSUME NEW w \in Watchers, GcInv, StreamNext(w) PROVE GcInv'
<1>1. /\ DOMAIN st = Watchers
      /\ \A v \in Watchers : DOMAIN st[v] = Fields
      /\ DOMAIN used = Counters
  BY DEF GcInv, Shape
<1>2. ASSUME UNCHANGED <<shards, armed, used>>, KeepsGuard(w) PROVE GcInv'
  BY <1>2, QuietStep, <1>1
<1>3. ASSUME NEW p, NEW from, NEW listed, OpenWatch(w, p, from, listed)
      PROVE  GcInv'
  <2>1. KeepsGuard(w)
    BY <1>1, <1>3 DEF OpenWatch, KeepsGuard, OnlyStream, NoStream, Fields, AttachedPcs
  <2>2. DOMAIN used' = Counters /\ used'.shards = used.shards
    BY <1>1, <1>3 DEF OpenWatch, Counters
  <2> QED
    BY <1>3, <2>1, <2>2, QuietStep DEF OpenWatch, shardVars
<1>4. CASE Resolve(w)
  BY <1>1, <1>2, <1>4 DEF Resolve, shardVars, KeepsGuard, OnlyStream, Fields, AttachedPcs
<1>5. CASE CreateShard(w)
  <2>1. KeepsGuard(w)
    BY <1>1, <1>5 DEF CreateShard, KeepsGuard, OnlyStream, Fields, AttachedPcs
  <2>2. CASE shards[st[w].prefix] # None
    BY <1>2, <1>5, <2>1, <2>2 DEF CreateShard, shardVars
  <2>3. CASE shards[st[w].prefix] = None
    <3>1. \A s : Attached(s) \subseteq Attached(s)'
      BY <2>1, GuardsKept
    <3> QED
      BY <1>5, <2>1, <2>3, <3>1, SeedStep DEF CreateShard, KeepsGuard, OnlyStream
  <2> QED BY <2>2, <2>3
<1>6. CASE ListForBackfill(w)
  BY <1>1, <1>2, <1>6 DEF ListForBackfill, shardVars, KeepsGuard, OnlyStream, Fields, AttachedPcs
<1>7. CASE (\E r \in 1 .. Len(log) : BackfillRow(w, r)) \/ BackfillDone(w)
  BY <1>1, <1>2, <1>7 DEF BackfillRow, BackfillDone, Goto, shardVars, KeepsGuard, OnlyStream, Fields, AttachedPcs
<1>8. CASE Attach(w)
  BY <1>1, <1>2, <1>8 DEF Attach, Goto, shardVars, KeepsGuard, OnlyStream, Fields, AttachedPcs
<1>9. CASE LoadHorizon(w)
  BY <1>1, <1>2, <1>9 DEF LoadHorizon, shardVars, KeepsGuard, OnlyStream, Fields, AttachedPcs
<1>10. CASE SnapshotRing(w)
  BY <1>1, <1>2, <1>10 DEF SnapshotRing, shardVars, KeepsGuard, OnlyStream, Fields, AttachedPcs
<1>11. CASE Replay(w)
  <2>1. UNCHANGED <<shards, armed, used>> /\ st[w].pc = "replay"
    BY <1>11 DEF Replay, shardVars
  <2>2. \/ \E q, r : st' = [st EXCEPT ![w].queue = q, ![w].last = r]
        \/ st' = [st EXCEPT ![w].pc = "live", ![w].horizon = 0]
    BY <1>11 DEF Replay, Yield, Drained
  <2>3. CASE \E q, r : st' = [st EXCEPT ![w].queue = q, ![w].last = r]
    BY <1>1, <1>2, <2>1, <2>3 DEF KeepsGuard, OnlyStream, Fields, AttachedPcs
  <2>4. CASE st' = [st EXCEPT ![w].pc = "live", ![w].horizon = 0]
    BY <1>1, <1>2, <2>1, <2>4 DEF KeepsGuard, OnlyStream, Fields, AttachedPcs
  <2> QED BY <2>2, <2>3, <2>4
<1>12. CASE Recv(w)
  BY <1>1, <1>2, <1>12 DEF Recv, shardVars, KeepsGuard, OnlyStream, Fields, AttachedPcs
<1>13. CASE Lagged(w)
  BY <1>1, <1>2, <1>13 DEF Lagged, shardVars, KeepsGuard, OnlyStream, Fields, AttachedPcs
<1>14. CASE ScanRing(w)
  BY <1>1, <1>2, <1>14 DEF ScanRing, shardVars, KeepsGuard, OnlyStream, Fields, AttachedPcs
<1>15. CASE Catchup(w)
  <2>1. UNCHANGED <<shards, armed, used>> /\ st[w].pc = "catchup"
    BY <1>15 DEF Catchup, shardVars
  <2>2. \/ \E q, r : st' = [st EXCEPT ![w].queue = q, ![w].last = r]
        \/ st' = [st EXCEPT ![w].pc = "check", ![w].horizon = 0]
    BY <1>15 DEF Catchup, Yield, Drained
  <2>3. CASE \E q, r : st' = [st EXCEPT ![w].queue = q, ![w].last = r]
    BY <1>1, <1>2, <2>1, <2>3 DEF KeepsGuard, OnlyStream, Fields, AttachedPcs
  <2>4. CASE st' = [st EXCEPT ![w].pc = "check", ![w].horizon = 0]
    BY <1>1, <1>2, <2>1, <2>4 DEF KeepsGuard, OnlyStream, Fields, AttachedPcs
  <2> QED BY <2>2, <2>3, <2>4
<1>16. CASE Recovered(w)
  BY <1>1, <1>2, <1>16 DEF Recovered, Goto, shardVars, KeepsGuard, OnlyStream, Fields, AttachedPcs
<1>17. CASE Unrecovered(w) \/ Compacted(w)
  BY <1>1, <1>2, <1>17 DEF Unrecovered, Compacted, Goto, shardVars, KeepsGuard, OnlyStream, Fields,
                           AttachedPcs
<1>19. CASE CollectTombstones(w)
  <2>1. PICK a, b : st' = [st EXCEPT ![w] =
          [NoStream EXCEPT !.pc = "tombstones", !.prefix = st[w].prefix, !.sid = st[w].sid,
                           !.stones = a, !.asof = b]]
    BY <1>19 DEF CollectTombstones
  <2> DEFINE x == [NoStream EXCEPT !.pc = "tombstones", !.prefix = st[w].prefix, !.sid = st[w].sid,
                                   !.stones = a, !.asof = b]
  <2>2. DOMAIN x = Fields /\ x.pc = "tombstones" /\ x.sid = st[w].sid
    BY DEF NoStream, Fields
  <2> HIDE DEF x
  <2>3. KeepsGuard(w)
    BY <1>1, <2>1, <2>2 DEF x, KeepsGuard, OnlyStream, AttachedPcs
  <2> QED
    BY <1>2, <1>19, <2>3 DEF CollectTombstones, shardVars
<1>20. CASE \E k \in Keys : YieldTombstone(w, k)
  <2>1. UNCHANGED <<shards, armed, used>> /\ \E a : st' = [st EXCEPT ![w].stones = a]
    BY <1>20 DEF YieldTombstone, shardVars
  <2> QED
    BY <1>1, <1>2, <2>1 DEF KeepsGuard, OnlyStream, Fields
<1>18. CASE CloseWatch(w)
  <2>1. OnlyStream(w)
    BY <1>1, <1>18 DEF CloseWatch, OnlyStream, NoStream, Fields
  <2> QED
    BY <1>18, <2>1, DetachStep DEF CloseWatch
<1> QED
  BY <1>3, <1>4, <1>5, <1>6, <1>7, <1>8, <1>9, <1>10, <1>11, <1>12, <1>13, <1>14, <1>15,
     <1>16, <1>17, <1>18, <1>19, <1>20 DEF StreamNext, StreamStep

\* Map, armed checks and guards are consistent in every reachable state: the
\* idle checks and the guards of the streams never lose sight of a mapped shard.
THEOREM GcInvariant == Spec => []GcInv
<1>1. GcInv /\ [Next]_vars => GcInv'
  <2> SUFFICES ASSUME GcInv, [Next]_vars PROVE GcInv'
    OBVIOUS
  <2>1. CASE UNCHANGED vars
    BY <2>1 DEF vars, shardVars, GcInv, Shape, OwnShard, IdleShardHasGcTask, Attached
  <2>2. CASE Next
    BY <2>2, WriterGc, ShardGc, StreamGc, RestartGc DEF Next
  <2> QED BY <2>1, <2>2
<1> QED
  BY <1>1, InitGc, PTL DEF Spec

\* IdleShardHasGcTask for all clients, prefixes and bounds: a shard of the map
\* that no ShardWatcherGuard holds has an armed schedule_idle_gc task.
THEOREM IdleShardsAreCollected == Spec => []IdleShardHasGcTask
  BY GcInvariant, PTL DEF GcInv

-------------------------------------------------------------------------------
(* Rows as a function of the log.                                           *)

\* RowRev over any sequence of events.
RowIn(L, k, r) ==
  LET touching == {i \in 1 .. r : L[i].key = k}
  IN IF touching = {} \/ L[Max(touching)].op = "delete" THEN 0 ELSE Max(touching)

LEMMA RowRevIsRowIn ==
  /\ \A k, r : RowRev(k, r) = RowIn(log, k, r)
  /\ \A k, r : RowRev(k, r)' = RowIn(log', k', r')
BY DEF RowRev, RowIn

\* i is the last of the first r events on key k.
LastOn(L, k, r, i) ==
  /\ i \in 1 .. r /\ L[i].key = k
  /\ \A j \in 1 .. r : L[j].key = k => j <= i

\* A set of naturals that is not empty has a least element.
LEMMA LeastNat ==
  ASSUME NEW S \in SUBSET Nat, S # {}
  PROVE  \E x \in S : \A y \in S : x <= y
<1> DEFINE Less == {ss \in Nat \X Nat : ss[1] < ss[2]}
<1>1. IsWellFoundedOn(Less, Nat)
  BY NatLessThanWellFounded, Zenon DEF OpToRel
<1>2. PICK x \in S : \A y \in S : ~(<<y, x>> \in Less)
  <2> HIDE DEF Less
  <2> QED
    BY <1>1, WFMin
<1>3. \A y \in S : x <= y
  <2> SUFFICES ASSUME NEW y \in S PROVE x <= y
    OBVIOUS
  <2>1. ~(<<y, x>> \in Less) /\ x \in Nat /\ y \in Nat
    BY <1>2
  <2> QED
    BY <2>1
<1> QED
  BY <1>3

LEMMA SomeLast ==
  ASSUME NEW L, NEW k, NEW r \in Nat, NEW n \in 1 .. r, L[n].key = k
  PROVE  \E i \in 1 .. r : LastOn(L, k, r, i)
<1> DEFINE S == {d \in 0 .. r : d < r /\ L[r - d].key = k}
<1>1. r - n \in S
  <2>1. r - (r - n) = n /\ r - n \in 0 .. r /\ r - n < r
    OBVIOUS
  <2> QED
    BY <2>1
<1>2. PICK d \in S : \A y \in S : d <= y
  <2>1. \A y \in S : y \in Nat
    OBVIOUS
  <2>2. r - n \in S
    BY <1>1
  <2> HIDE DEF S
  <2> QED
    BY <2>1, <2>2, LeastNat
<1>3. LastOn(L, k, r, r - d)
  <2>1. r - d \in 1 .. r /\ L[r - d].key = k /\ d \in Nat
    BY <1>2
  <2>2. ASSUME NEW j \in 1 .. r, L[j].key = k PROVE j <= r - d
    <3>1. r - (r - j) = j /\ r - j \in 0 .. r /\ r - j < r
      OBVIOUS
    <3>2. r - j \in S
      BY <3>1, <2>2
    <3>3. d <= r - j
      BY <3>2, <1>2
    <3> QED
      BY <3>3, <2>1
  <2> QED
    BY <2>1, <2>2 DEF LastOn
<1> QED
  BY <1>3 DEF LastOn

LEMMA BothPlusOne ==
  ASSUME NEW a \in Nat, NEW b \in Nat, a <= b
  PROVE  a + 1 \in Nat /\ b + 1 \in Nat /\ a + 1 <= b + 1
  OBVIOUS

LEMMA MaxIs ==
  ASSUME NEW S \in SUBSET Nat, NEW i \in S, \A j \in S : j <= i
  PROVE  Max(S) = i
<1>1. Max(S) \in S /\ \A j \in S : Max(S) >= j
  <2>1. \A j \in S : i >= j
    OBVIOUS
  <2> QED
    BY <2>1 DEF Max
<1>2. Max(S) \in Nat /\ i \in Nat /\ Max(S) <= i /\ Max(S) >= i
  BY <1>1
<1> QED
  BY <1>2

LEMMA MaxOfTwo ==
  ASSUME NEW a \in Nat, NEW b \in Nat
  PROVE  Max({a, b}) = IF a > b THEN a ELSE b
BY DEF Max

\* The row of a key is what its last event says.
LEMMA RowInLast ==
  ASSUME NEW L, NEW k, NEW r \in Nat, NEW i, LastOn(L, k, r, i)
  PROVE  RowIn(L, k, r) = IF L[i].op = "delete" THEN 0 ELSE i
<1> DEFINE touching == {j \in 1 .. r : L[j].key = k}
<1>1. i \in touching /\ (\A l \in touching : l <= i) /\ touching \in SUBSET Nat
  BY DEF LastOn
<1>2. Max(touching) = i
  <2> HIDE DEF touching
  <2> QED
    BY <1>1, MaxIs
<1>3. touching # {}
  BY <1>1
<1>4. RowIn(L, k, r) = IF touching = {} \/ L[Max(touching)].op = "delete" THEN 0
                       ELSE Max(touching)
  BY DEF RowIn
<1> HIDE DEF touching
<1> QED
  BY <1>2, <1>3, <1>4

LEMMA RowInNone ==
  ASSUME NEW L, NEW k, NEW r, \A i \in 1 .. r : L[i].key # k
  PROVE  RowIn(L, k, r) = 0
BY DEF RowIn

\* A row that exists carries the revision of a put.
LEMMA RowInPut ==
  ASSUME NEW L, NEW k, NEW r \in Nat, RowIn(L, k, r) # 0
  PROVE  /\ RowIn(L, k, r) \in 1 .. r
         /\ L[RowIn(L, k, r)].key = k /\ L[RowIn(L, k, r)].op # "delete"
<1>1. \E i \in 1 .. r : L[i].key = k
  BY RowInNone
<1>2. PICK i \in 1 .. r : LastOn(L, k, r, i)
  BY <1>1, SomeLast
<1>3. RowIn(L, k, r) = i /\ L[i].op # "delete"
  BY <1>2, RowInLast
<1> QED
  BY <1>2, <1>3 DEF LastOn

\* What an event on the key itself says.
LEMMA RowInNow ==
  ASSUME NEW L, NEW r \in Nat \ {0}
  PROVE  RowIn(L, L[r].key, r) = IF L[r].op = "delete" THEN 0 ELSE r
<1>1. LastOn(L, L[r].key, r, r) /\ r \in Nat
  BY DEF LastOn
<1> QED
  BY <1>1, RowInLast

\* Later events, and events on other keys, leave a row as it was.
LEMMA RowInKept ==
  ASSUME NEW L, NEW M, NEW k, NEW r \in Nat, NEW q \in Nat, r <= q,
         \A i \in 1 .. r : M[i] = L[i],
         \A i \in 1 .. q : i > r => M[i].key # k
  PROVE  RowIn(M, k, q) = RowIn(L, k, r)
<1>1. CASE \A i \in 1 .. r : L[i].key # k
  <2>1. \A i \in 1 .. q : M[i].key # k
    BY <1>1
  <2> QED
    BY <2>1, <1>1, RowInNone
<1>2. CASE \E i \in 1 .. r : L[i].key = k
  <2>1. PICK i \in 1 .. r : LastOn(L, k, r, i)
    BY <1>2, SomeLast
  <2>2. LastOn(M, k, q, i) /\ M[i] = L[i]
    BY <2>1 DEF LastOn
  <2> QED
    BY <2>1, <2>2, RowInLast
<1> QED
  BY <1>1, <1>2

-------------------------------------------------------------------------------
(* Prefixes.                                                                *)

\* A prefix's parent is a prefix that covers it, and the shards a key matches
\* are those of the prefixes it lies under.
LEMMA PrefixFacts ==
  ASSUME NEW p \in AllPrefixes
  PROVE  /\ Parent(p) \in AllPrefixes
         /\ Under(p) \subseteq Under(Parent(p))
         /\ \A k \in Under(p) : k \in Keys /\ p \in Matching(k)
<1>1. /\ p = <<p[1], p[2]>>
      /\ \E k \in Keys : Parent(p) = RootPrefix(k)
  <2>1. PICK k \in Keys : p \in Matching(k)
    BY DEF AllPrefixes
  <2> QED
    BY <2>1 DEF Matching, RootPrefix, Parent
<1>2. Parent(p) \in AllPrefixes
  BY <1>1 DEF AllPrefixes, Matching
<1>3. Under(p) \subseteq Under(Parent(p))
  BY <1>1 DEF Under, Parent
<1>4. \A k \in Under(p) : k \in Keys /\ p \in Matching(k)
  BY <1>1 DEF Under, Matching, RootPrefix
<1> QED
  BY <1>2, <1>3, <1>4

-------------------------------------------------------------------------------
(* One shard.                                                               *)

EventSet    == [key : Keys, rev : Nat, op : {"put", "delete"}]
ShardFields == {"ring", "horizon", "byKey", "byRev", "full"}

IsShard(s) == DOMAIN s = ShardFields /\ s.ring \in Seq(EventSet) /\ s.horizon \in Nat

\* The events of q are those of the log L, up to revision n.
Genuine(L, q, n) ==
  \A i \in DOMAIN q : q[i].rev \in 1 .. n /\ q[i].rev <= Len(L) /\ q[i] = L[q[i].rev]

InOrder(q) == \A i, j \in DOMAIN q : i < j => q[i].rev <= q[j].rev

\* Shard s, complete after revision c, has the events of prefix p up to
\* revision n, except those its floor gives up.
Holds(L, s, c, p, n) ==
  \A r \in 1 .. Len(L) :
    c < r /\ s.horizon < r /\ r <= n /\ L[r].key \in Under(p) =>
      \E i \in DOMAIN s.ring : s.ring[i].rev = r

\* The deletion log's operators leave ring and floor alone.
SameRing(t, s) == DOMAIN t = ShardFields /\ t.ring = s.ring /\ t.horizon = s.horizon

LEMMA DeletionLogKeepsRing ==
  ASSUME NEW s, DOMAIN s = ShardFields
  PROVE  /\ \A k : SameRing(Forget(s, k), s)
         /\ \A e : SameRing(Remember(s, e), s)
         /\ SameRing(CapFullTier(s), s)
         /\ SameRing(CapStrippedTier(s), s)
<1>1. ASSUME NEW a, NEW b, NEW c
      PROVE  /\ SameRing([s EXCEPT !.byKey = a, !.byRev = b, !.full = c], s)
             /\ SameRing([s EXCEPT !.full = c], s)
  BY DEF SameRing, ShardFields
<1>2. SameRing(s, s)
  BY DEF SameRing
<1>3. \A k : SameRing(Forget(s, k), s)
  BY <1>1, <1>2 DEF Forget
<1>4. \A e : SameRing(Remember(s, e), s)
  BY <1>1 DEF Remember
<1>5. SameRing(CapFullTier(s), s)
  BY <1>1, <1>2 DEF CapFullTier
<1>6. SameRing(CapStrippedTier(s), s)
  BY <1>1, <1>2 DEF CapStrippedTier
<1> QED
  BY <1>3, <1>4, <1>5, <1>6

LEMMA PushIsPushRing ==
  ASSUME NEW s, NEW e, DOMAIN s = ShardFields, DOMAIN PushRing(s, e) = ShardFields
  PROVE  SameRing(PushIntoShard(s, e), PushRing(s, e))
<1> DEFINE t == PushRing(s, e)
<1> HIDE DEF t
<1>1. DOMAIN t = ShardFields
  BY DEF t
<1>2. CASE e.op = "put"
  <2>1. PushIntoShard(s, e) = Forget(t, e.key)
    BY <1>2 DEF PushIntoShard, t
  <2> QED
    BY <2>1, <1>1, DeletionLogKeepsRing DEF t
<1>3. CASE e.op # "put"
  <2> DEFINE a == Remember(t, e)
             b == CapFullTier(a)
  <2>1. PushIntoShard(s, e) = CapStrippedTier(b)
    BY <1>3 DEF PushIntoShard, t
  <2>2. SameRing(a, t)
    BY <1>1, DeletionLogKeepsRing
  <2> HIDE DEF a
  <2>3. SameRing(b, a)
    BY <2>2, DeletionLogKeepsRing DEF SameRing
  <2> HIDE DEF b
  <2>4. SameRing(CapStrippedTier(b), b)
    BY <2>3, DeletionLogKeepsRing DEF SameRing
  <2>5. SameRing(CapStrippedTier(b), t)
    BY <2>2, <2>3, <2>4 DEF SameRing
  <2> QED
    BY <2>1, <2>5 DEF t
<1> QED
  BY <1>2, <1>3

\* What push_into_shard does to the ring: the event is its last, the others
\* were there before, and in an ordered ring nothing above the floor is lost.
AfterPush(t, s, e) ==
  /\ IsShard(t)
  /\ Len(t.ring) \in Nat \ {0} /\ t.ring[Len(t.ring)] = e
  /\ s.horizon <= t.horizon
  /\ \A i \in DOMAIN t.ring : t.ring[i] = e \/ \E j \in DOMAIN s.ring : t.ring[i] = s.ring[j]
  /\ InOrder(s.ring) /\ (\A j \in DOMAIN s.ring : s.ring[j].rev <= e.rev) =>
       /\ InOrder(t.ring)
       /\ \A j \in DOMAIN s.ring : s.ring[j].rev > t.horizon =>
            \E i \in DOMAIN t.ring : t.ring[i].rev = s.ring[j].rev

LEMMA PushEffect ==
  ASSUME NEW s, IsShard(s), NEW e \in EventSet
  PROVE  AfterPush(PushIntoShard(s, e), s, e)
<1> DEFINE n == Len(s.ring)
           q == Append(s.ring, e)
           t == PushIntoShard(s, e)
           Sorted == InOrder(s.ring) /\ \A j \in DOMAIN s.ring : s.ring[j].rev <= e.rev
<1>1. /\ s.ring \in Seq(EventSet) /\ n \in Nat /\ s.horizon \in Nat /\ DOMAIN s.ring = 1 .. n
      /\ DOMAIN s = ShardFields
  BY DEF IsShard
<1>2. /\ q \in Seq(EventSet) /\ Len(q) = n + 1 /\ DOMAIN q = 1 .. n + 1
      /\ q[n + 1] = e /\ \A i \in 1 .. n : q[i] = s.ring[i]
  BY <1>1
<1>3. RingCapacity \in Nat /\ RingCapacity > 0
  BY RingCapacityAssumption
<1> HIDE DEF q, n, t
<1>4. \A i \in 1 .. n + 1 : q[i].rev \in Nat
  <2>1. \A i \in 1 .. n + 1 : q[i] \in EventSet
    BY <1>2
  <2> QED
    BY <2>1 DEF EventSet
<1>5. ASSUME Sorted PROVE \A i, j \in 1 .. n + 1 : i < j => q[i].rev <= q[j].rev
  <2> SUFFICES ASSUME NEW i \in 1 .. n + 1, NEW j \in 1 .. n + 1, i < j
               PROVE  q[i].rev <= q[j].rev
    OBVIOUS
  <2>1. i \in 1 .. n
    BY <1>1
  <2>2. CASE j \in 1 .. n
    BY <1>1, <1>2, <1>5, <2>1, <2>2 DEF InOrder
  <2>3. CASE j = n + 1
    BY <1>1, <1>2, <1>5, <2>1, <2>3
  <2> QED
    BY <1>1, <2>2, <2>3
<1>6. CASE n + 1 > RingCapacity
  <2> DEFINE h == Max({s.horizon, Tail(q)[1].rev})
             u == PushRing(s, e)
  <2>1. /\ Tail(q) \in Seq(EventSet) /\ Len(Tail(q)) = n /\ n >= 1
        /\ \A i \in 1 .. n : Tail(q)[i] = q[i + 1]
    BY <1>1, <1>2, <1>3, <1>6
  <2>2. h \in Nat /\ s.horizon <= h /\ q[2].rev <= h
    <3>1. Tail(q)[1] = q[2] /\ q[2].rev \in Nat
      BY <1>1, <1>4, <2>1
    <3>2. h = Max({s.horizon, q[2].rev})
      BY <3>1
    <3>3. h = IF s.horizon > q[2].rev THEN s.horizon ELSE q[2].rev
      BY <3>1, <3>2, <1>1, MaxOfTwo
    <3> HIDE DEF h
    <3> QED
      BY <3>1, <3>3, <1>1
  <2> HIDE DEF h
  <2>3. u = [s EXCEPT !.ring = Tail(q), !.horizon = h]
    BY <1>2, <1>6 DEF PushRing, q, h
  <2>4. DOMAIN u = ShardFields /\ u.ring = Tail(q) /\ u.horizon = h
    BY <1>1, <2>3 DEF ShardFields
  <2>5. DOMAIN t = ShardFields /\ t.ring = Tail(q) /\ t.horizon = h
    BY <1>1, <2>4, PushIsPushRing DEF SameRing, t
  <2>6. DOMAIN t.ring = 1 .. n /\ \A i \in 1 .. n : t.ring[i] = q[i + 1]
    BY <2>1, <2>5
  <2>7. IsShard(t)
    BY <2>1, <2>2, <2>5 DEF IsShard
  <2>8. Len(t.ring) \in Nat \ {0} /\ t.ring[Len(t.ring)] = e
    BY <1>1, <1>2, <2>1, <2>5
  <2>9. ASSUME NEW i \in DOMAIN t.ring
        PROVE  t.ring[i] = e \/ \E j \in DOMAIN s.ring : t.ring[i] = s.ring[j]
    <3>1. i \in 1 .. n /\ (i + 1 \in 1 .. n \/ i + 1 = n + 1)
      BY <1>1, <2>6
    <3> QED
      BY <3>1, <1>1, <1>2, <2>6
  <2>10. ASSUME Sorted PROVE InOrder(t.ring)
    <3> SUFFICES ASSUME NEW i \in 1 .. n, NEW j \in 1 .. n, i < j
                 PROVE  t.ring[i].rev <= t.ring[j].rev
      BY <2>6 DEF InOrder
    <3>1. i + 1 \in 1 .. n + 1 /\ j + 1 \in 1 .. n + 1 /\ i + 1 < j + 1
      BY <1>1
    <3> QED
      BY <3>1, <1>5, <2>6, <2>10
  <2>11. ASSUME Sorted, NEW j \in DOMAIN s.ring, s.ring[j].rev > t.horizon
         PROVE  \E i \in DOMAIN t.ring : t.ring[i].rev = s.ring[j].rev
    <3>1. j \in 1 .. n /\ s.ring[j] = q[j] /\ q[j].rev > h
      BY <1>1, <1>2, <2>5, <2>11
    <3>2. j # 1
      <4>1. 1 \in 1 .. n + 1 /\ 2 \in 1 .. n + 1
        BY <1>1, <2>1
      <4>2. q[1].rev <= q[2].rev /\ q[1].rev \in Nat /\ q[2].rev \in Nat
        BY <4>1, <1>4, <1>5, <2>11
      <4> QED
        BY <3>1, <4>2, <2>2
    <3>3. j - 1 \in 1 .. n /\ t.ring[j - 1] = q[j]
      <4>1. j - 1 \in 1 .. n /\ (j - 1) + 1 = j
        BY <1>1, <3>1, <3>2
      <4> QED
        BY <4>1, <2>6
    <3> QED
      BY <3>1, <3>3, <2>6
  <2> QED
    BY <2>2, <2>5, <2>7, <2>8, <2>9, <2>10, <2>11 DEF AfterPush, t
<1>7. CASE ~(n + 1 > RingCapacity)
  <2> DEFINE u == PushRing(s, e)
  <2>1. u = [s EXCEPT !.ring = q]
    BY <1>2, <1>7 DEF PushRing, q
  <2>2. DOMAIN u = ShardFields /\ u.ring = q /\ u.horizon = s.horizon
    BY <1>1, <2>1 DEF ShardFields
  <2>3. DOMAIN t = ShardFields /\ t.ring = q /\ t.horizon = s.horizon
    BY <1>1, <2>2, PushIsPushRing DEF SameRing, t
  <2>4. IsShard(t) /\ Len(t.ring) \in Nat \ {0} /\ t.ring[Len(t.ring)] = e
    BY <1>1, <1>2, <2>3 DEF IsShard
  <2>5. ASSUME NEW i \in DOMAIN t.ring
        PROVE  t.ring[i] = e \/ \E j \in DOMAIN s.ring : t.ring[i] = s.ring[j]
    BY <1>1, <1>2, <2>3
  <2>6. Sorted => InOrder(t.ring)
    BY <1>2, <1>5, <2>3 DEF InOrder
  <2>7. ASSUME NEW j \in DOMAIN s.ring
        PROVE  \E i \in DOMAIN t.ring : t.ring[i].rev = s.ring[j].rev
    BY <1>1, <1>2, <2>3
  <2>8. s.horizon <= t.horizon
    BY <1>1, <2>3
  <2> QED
    BY <2>4, <2>5, <2>6, <2>7, <2>8 DEF AfterPush, t
<1> QED
  BY <1>6, <1>7

\* M is L with more events behind it.
Extends(M, L) ==
  /\ Len(L) \in Nat /\ Len(M) \in Nat /\ Len(L) <= Len(M)
  /\ \A i \in 1 .. Len(L) : M[i] = L[i]

LEMMA GenuineGrown ==
  ASSUME NEW L, NEW M, Extends(M, L), NEW q, NEW n \in Nat, NEW m \in Nat, n <= m,
         Genuine(L, q, n)
  PROVE  Genuine(M, q, m)
<1> SUFFICES ASSUME NEW i \in DOMAIN q
             PROVE  q[i].rev \in 1 .. m /\ q[i].rev <= Len(M) /\ q[i] = M[q[i].rev]
  BY DEF Genuine
<1>1. q[i].rev \in 1 .. n /\ q[i].rev <= Len(L) /\ q[i] = L[q[i].rev]
  BY DEF Genuine
<1>2. q[i].rev \in 1 .. Len(L)
  BY <1>1 DEF Extends
<1> QED
  BY <1>1, <1>2 DEF Extends

LEMMA GenuinePush ==
  ASSUME NEW L, NEW s, NEW t, NEW e, AfterPush(t, s, e), NEW n,
         Genuine(L, s.ring, n), e.rev \in 1 .. n, e.rev <= Len(L), e = L[e.rev]
  PROVE  Genuine(L, t.ring, n)
  BY DEF Genuine, AfterPush

\* A claim for fewer keys, up to an earlier or after a later revision.
LEMMA HoldsNarrower ==
  ASSUME NEW L, NEW s, NEW c, NEW n, NEW p, NEW q, Holds(L, s, c, p, n), Under(q) \subseteq Under(p)
  PROVE  Holds(L, s, c, q, n)
  BY Zenon DEF Holds

LEMMA HoldsShorter ==
  ASSUME NEW L, Len(L) \in Nat, NEW s, NEW c, NEW p, NEW n \in Nat, NEW m \in Nat, m <= n,
         Holds(L, s, c, p, n)
  PROVE  Holds(L, s, c, p, m)
  BY DEF Holds

LEMMA HoldsLater ==
  ASSUME NEW L, Len(L) \in Nat, NEW s, NEW c \in Nat, NEW d \in Nat, c <= d, NEW p, NEW n,
         Holds(L, s, c, p, n)
  PROVE  Holds(L, s, d, p, n)
  BY DEF Holds

LEMMA HoldsNothing ==
  ASSUME NEW L, NEW s, NEW p, NEW c \in Nat, NEW n \in Nat, Len(L) \in Nat,
         n <= c \/ Len(L) <= c
  PROVE  Holds(L, s, c, p, n)
  BY DEF Holds

LEMMA HoldsGrown ==
  ASSUME NEW L, NEW M, Extends(M, L), NEW s, NEW p, NEW c, NEW n \in Nat, n <= Len(L),
         Holds(L, s, c, p, n)
  PROVE  Holds(M, s, c, p, n)
<1> SUFFICES ASSUME NEW r \in 1 .. Len(M), c < r, s.horizon < r, r <= n, M[r].key \in Under(p)
             PROVE  \E i \in DOMAIN s.ring : s.ring[i].rev = r
  BY DEF Holds
<1>1. r \in 1 .. Len(L) /\ M[r] = L[r]
  BY DEF Extends
<1> QED
  BY <1>1 DEF Holds

LEMMA HoldsPush ==
  ASSUME NEW L, Len(L) \in Nat, NEW s, IsShard(s), NEW t, NEW e \in EventSet, AfterPush(t, s, e),
         InOrder(s.ring), \A j \in DOMAIN s.ring : s.ring[j].rev <= e.rev,
         NEW p, NEW c, NEW n \in Nat, Holds(L, s, c, p, n)
  PROVE  /\ Holds(L, t, c, p, n)
         /\ n + 1 = e.rev => Holds(L, t, c, p, e.rev)
<1>1. s.horizon \in Nat /\ t.horizon \in Nat /\ s.horizon <= t.horizon /\ e.rev \in Nat
  BY DEF IsShard, AfterPush, EventSet
<1>2. \A j \in DOMAIN s.ring : s.ring[j].rev > t.horizon =>
        \E i \in DOMAIN t.ring : t.ring[i].rev = s.ring[j].rev
  BY DEF AfterPush
<1>3. \E i \in DOMAIN t.ring : t.ring[i].rev = e.rev
  <2>1. t.ring \in Seq(EventSet) /\ Len(t.ring) \in Nat \ {0} /\ t.ring[Len(t.ring)] = e
    BY DEF AfterPush, IsShard
  <2>2. Len(t.ring) \in DOMAIN t.ring
    BY <2>1
  <2> QED
    BY <2>1, <2>2
<1>4. ASSUME NEW r \in 1 .. Len(L), c < r, t.horizon < r, r <= n, L[r].key \in Under(p)
      PROVE  \E i \in DOMAIN t.ring : t.ring[i].rev = r
  <2>1. s.horizon < r
    BY <1>1, <1>4
  <2>2. PICK j \in DOMAIN s.ring : s.ring[j].rev = r
    BY <2>1, <1>4 DEF Holds
  <2> QED
    BY <2>2, <1>1, <1>2, <1>4
<1>5. Holds(L, t, c, p, n)
  BY <1>4 DEF Holds
<1>6. ASSUME n + 1 = e.rev, NEW r \in 1 .. Len(L), c < r, t.horizon < r, r <= e.rev,
             L[r].key \in Under(p)
      PROVE  \E i \in DOMAIN t.ring : t.ring[i].rev = r
  <2>1. r <= n \/ r = e.rev
    BY <1>1, <1>6
  <2> QED
    BY <2>1, <1>3, <1>4, <1>6
<1> QED
  BY <1>5, <1>6 DEF Holds

\* The ring's last event.
LEMMA TopFacts ==
  ASSUME NEW s, IsShard(s), NEW L, NEW n \in Nat, Genuine(L, s.ring, n), Len(L) \in Nat
  PROVE  /\ RingTop(s) \in 0 .. n /\ RingTop(s) <= Len(L)
         /\ RingTop(s) # 0 => \E i \in DOMAIN s.ring : s.ring[i].rev = RingTop(s)
         /\ InOrder(s.ring) => \A i \in DOMAIN s.ring : s.ring[i].rev <= RingTop(s)
<1>1. s.ring \in Seq(EventSet) /\ DOMAIN s.ring = 1 .. Len(s.ring) /\ Len(s.ring) \in Nat
  BY DEF IsShard
<1>2. CASE s.ring = <<>>
  BY <1>1, <1>2 DEF RingTop
<1>3. CASE s.ring # <<>>
  <2> DEFINE z == Len(s.ring)
  <2>1. z \in DOMAIN s.ring /\ RingTop(s) = s.ring[z].rev
    BY <1>1, <1>3 DEF RingTop, Last
  <2>2. s.ring[z].rev \in 1 .. n /\ s.ring[z].rev <= Len(L)
    BY <2>1 DEF Genuine
  <2>3. ASSUME InOrder(s.ring), NEW i \in DOMAIN s.ring PROVE s.ring[i].rev <= RingTop(s)
    <3>1. CASE i = z
      BY <3>1, <2>1, <2>2
    <3>2. CASE i # z
      <4>1. i < z
        BY <3>2, <1>1
      <4> QED
        BY <4>1, <2>1, <2>3 DEF InOrder
    <3> QED BY <3>1, <3>2
  <2> QED
    BY <2>1, <2>2, <2>3
<1> QED
  BY <1>2, <1>3

LEMMA TopPush ==
  ASSUME NEW s, NEW t, NEW e, AfterPush(t, s, e)
  PROVE  RingTop(t) = e.rev
<1>1. t.ring \in Seq(EventSet) /\ Len(t.ring) \in Nat \ {0} /\ t.ring[Len(t.ring)] = e
  BY DEF AfterPush, IsShard
<1>2. t.ring # <<>>
  BY <1>1
<1> QED
  BY <1>1, <1>2 DEF RingTop, Last

\* A ring that reaches at most one event past n and is complete up to n is
\* complete up to its last event.
LEMMA HoldsTop ==
  ASSUME NEW s, IsShard(s), NEW L, Len(L) \in Nat, NEW n \in Nat, Genuine(L, s.ring, n + 1),
         NEW c, NEW p, Holds(L, s, c, p, n)
  PROVE  Holds(L, s, c, p, RingTop(s))
<1>1. RingTop(s) \in 0 .. n + 1
      /\ (RingTop(s) # 0 => \E i \in DOMAIN s.ring : s.ring[i].rev = RingTop(s))
  BY TopFacts
<1> SUFFICES ASSUME NEW r \in 1 .. Len(L), c < r, s.horizon < r, r <= RingTop(s),
                    L[r].key \in Under(p)
             PROVE  \E i \in DOMAIN s.ring : s.ring[i].rev = r
  BY DEF Holds
<1>2. CASE r <= n
  BY <1>2 DEF Holds
<1>3. CASE ~(r <= n)
  BY <1>1, <1>3
<1> QED BY <1>2, <1>3

-------------------------------------------------------------------------------
(* What a client believes, and what its stream still owes it.               *)

\* v is the database after the first r commits, as far as prefix p goes.
AtRev(L, v, p, r) == \A k \in Under(p) : v[k] = RowIn(L, k, r)

\* A request that has not reached its replay (n is `sent').
Opened(x, v, L, n) ==
  /\ x.prefix \in AllPrefixes /\ x.last = x.from /\ x.from \in 0 .. Len(L)
  /\ x.cursor \in 1 .. n + 1
  /\ AtRev(L, v, x.prefix, x.from)

\* The rows of a backfill.
Rows(x, L, n) == \A r \in x.items : r \in 1 .. n + 1 /\ r <= Len(L) /\ L[r].op = "put"

\* The queue is the log after `last', up to where the receiver takes over and
\* up to its own last event, as far as the prefix goes.
Queued(x, L) ==
  \A r \in 1 .. Len(L) :
    /\ x.last < r /\ L[r].key \in Under(x.prefix)
    /\ r < x.cursor \/ \E i \in DOMAIN x.queue : r <= x.queue[i].rev
    => \E i \in DOMAIN x.queue : x.queue[i].rev = r

Replaying(x, v, L, n) ==
  /\ x.prefix \in AllPrefixes /\ x.last \in 0 .. Len(L) /\ x.cursor \in 1 .. n + 1
  /\ DOMAIN x.queue \subseteq Nat
  /\ Genuine(L, x.queue, n + 1) /\ InOrder(x.queue)
  /\ \A i \in DOMAIN x.queue : x.last <= x.queue[i].rev /\ x.queue[i].key \in Under(x.prefix)
  /\ Queued(x, L)
  /\ AtRev(L, v, x.prefix, x.last)

\* The last revision a stream has consumed: replayed, or received and skipped.
Reached(x) == IF x.last < x.cursor THEN x.cursor - 1 ELSE x.last

Following(x, v, L, n) ==
  /\ x.prefix \in AllPrefixes /\ x.last \in 0 .. Len(L) /\ x.cursor \in 1 .. n + 1
  /\ AtRev(L, v, x.prefix, Reached(x))

LEMMA AtRevGrown ==
  ASSUME NEW L, NEW M, Extends(M, L), NEW v, NEW p, NEW r \in 0 .. Len(L), AtRev(L, v, p, r)
  PROVE  AtRev(M, v, p, r)
<1> SUFFICES ASSUME NEW k \in Under(p) PROVE RowIn(M, k, r) = RowIn(L, k, r)
  BY DEF AtRev
<1>1. r \in Nat /\ (\A i \in 1 .. r : M[i] = L[i]) /\ \A i \in 1 .. r : i > r => M[i].key # k
  BY DEF Extends
<1> QED
  BY <1>1, RowInKept

\* A client that has seen all there is on its prefix up to r holds r's state.
LEMMA AtRevSkip ==
  ASSUME NEW L, NEW v, NEW p, NEW r \in Nat, NEW q \in Nat, r <= q, AtRev(L, v, p, r),
         \A i \in 1 .. q : i > r => L[i].key \notin Under(p)
  PROVE  AtRev(L, v, p, q)
<1> SUFFICES ASSUME NEW k \in Under(p) PROVE RowIn(L, k, q) = RowIn(L, k, r)
  BY DEF AtRev
<1>1. (\A i \in 1 .. r : L[i] = L[i]) /\ \A i \in 1 .. q : i > r => L[i].key # k
  OBVIOUS
<1> QED
  BY <1>1, RowInKept

\* One event is yielded to a client that holds all there was before it.
LEMMA AtRevApply ==
  ASSUME NEW L, NEW v, NEW p, NEW r \in Nat, NEW q \in Nat \ {0}, r <= q,
         DOMAIN v = Keys, Under(p) \subseteq Keys, AtRev(L, v, p, r),
         L[q] \in EventSet, L[q].rev = q, L[q].key \in Under(p),
         \A i \in 1 .. q : i > r /\ i < q => L[i].key \notin Under(p)
  PROVE  AtRev(L, Apply(v, L[q]), p, q)
<1> DEFINE e == L[q]
<1>1. e.op \in {"put", "delete"} /\ e.key \in Keys /\ q \in Nat
  BY DEF EventSet
<1>2. \A k \in Keys : Apply(v, e)[k] = IF k = e.key THEN (IF e.op = "put" THEN e.rev ELSE 0) ELSE v[k]
  BY <1>1 DEF Apply
<1> SUFFICES ASSUME NEW k \in Under(p) PROVE Apply(v, e)[k] = RowIn(L, k, q)
  BY DEF AtRev
<1>3. CASE k = e.key
  <2>1. RowIn(L, e.key, q) = IF e.op = "delete" THEN 0 ELSE q
    BY RowInNow
  <2> QED
    BY <1>1, <1>2, <1>3, <2>1
<1>4. CASE k # e.key
  <2>1. (\A i \in 1 .. r : L[i] = L[i]) /\ \A i \in 1 .. q : i > r => L[i].key # k
    BY <1>4
  <2>2. RowIn(L, k, q) = RowIn(L, k, r)
    BY <2>1, <1>1, RowInKept
  <2> QED
    BY <2>2, <1>2, <1>4 DEF AtRev
<1> QED BY <1>3, <1>4

\* A longer log and a receiver further behind change none of it.
LEMMA StreamGrown ==
  ASSUME NEW L, NEW M, Extends(M, L), NEW n \in Nat, NEW m \in Nat, n <= m, n <= Len(L),
         NEW x, NEW v
  PROVE  /\ Opened(x, v, L, n) => Opened(x, v, M, m)
         /\ Rows(x, L, n) => Rows(x, M, m)
         /\ Replaying(x, v, L, n) => Replaying(x, v, M, m)
         /\ Following(x, v, L, n) => Following(x, v, M, m)
<1>1. /\ Len(L) \in Nat /\ Len(M) \in Nat /\ Len(L) <= Len(M)
      /\ \A i \in 1 .. Len(L) : M[i] = L[i]
  BY DEF Extends
<1>2. ASSUME Opened(x, v, L, n) PROVE Opened(x, v, M, m)
  <2>1. x.from \in 0 .. Len(M) /\ x.cursor \in 1 .. m + 1
    BY <1>1, <1>2 DEF Opened
  <2>2. AtRev(M, v, x.prefix, x.from)
    BY <1>2, AtRevGrown DEF Opened
  <2> QED
    BY <1>2, <2>1, <2>2 DEF Opened
<1>3. ASSUME Rows(x, L, n) PROVE Rows(x, M, m)
  BY <1>1, <1>3 DEF Rows
<1>4. ASSUME Replaying(x, v, L, n) PROVE Replaying(x, v, M, m)
  <2>1. x.last \in 0 .. Len(L) /\ x.cursor \in 1 .. n + 1
    BY <1>4 DEF Replaying
  <2>2. x.last \in 0 .. Len(M) /\ x.cursor \in 1 .. m + 1
    BY <1>1, <2>1
  <2>3. AtRev(M, v, x.prefix, x.last)
    BY <1>4, <2>1, AtRevGrown DEF Replaying
  <2>4. Genuine(L, x.queue, n + 1)
    BY <1>4 DEF Replaying
  <2>5. Genuine(M, x.queue, m + 1)
    <3>1. n + 1 \in Nat /\ m + 1 \in Nat /\ n + 1 <= m + 1
      OBVIOUS
    <3> QED
      BY <3>1, <2>4, GenuineGrown
  <2>6. Queued(x, M)
    <3> SUFFICES ASSUME NEW r \in 1 .. Len(M), x.last < r, M[r].key \in Under(x.prefix),
                        r < x.cursor \/ \E i \in DOMAIN x.queue : r <= x.queue[i].rev
                 PROVE  \E i \in DOMAIN x.queue : x.queue[i].rev = r
      BY DEF Queued
    <3>1. r <= Len(L)
      <4>1. CASE r < x.cursor
        BY <4>1, <1>1, <2>1
      <4>2. CASE \E i \in DOMAIN x.queue : r <= x.queue[i].rev
        <5>1. PICK i \in DOMAIN x.queue : r <= x.queue[i].rev
          BY <4>2
        <5>2. x.queue[i].rev \in 1 .. n + 1 /\ x.queue[i].rev <= Len(L)
          BY <2>4 DEF Genuine
        <5> QED
          BY <5>1, <5>2, <1>1
      <4> QED BY <4>1, <4>2
    <3>2. r \in 1 .. Len(L) /\ M[r] = L[r]
      BY <3>1, <1>1
    <3>3. Queued(x, L)
      BY <1>4 DEF Replaying
    <3> QED
      BY <3>2, <3>3 DEF Queued
  <2> QED
    BY <1>4, <2>2, <2>3, <2>5, <2>6 DEF Replaying
<1>5. ASSUME Following(x, v, L, n) PROVE Following(x, v, M, m)
  <2>1. x.last \in 0 .. Len(L) /\ x.cursor \in 1 .. n + 1
    BY <1>5 DEF Following
  <2>2. x.last \in 0 .. Len(M) /\ x.cursor \in 1 .. m + 1 /\ Reached(x) \in 0 .. Len(L)
    BY <1>1, <2>1 DEF Reached
  <2>3. AtRev(M, v, x.prefix, Reached(x))
    BY <1>5, <2>2, AtRevGrown DEF Following
  <2> QED
    BY <1>5, <2>2, <2>3 DEF Following
<1> QED
  BY <1>2, <1>3, <1>4, <1>5

-------------------------------------------------------------------------------
(* The inductive invariant.  Its parts take the state as parameters, so that *)
(* a step lemma can speak of them before and after the step alike.           *)

\* What is in flight: at most one event is pushed and not sent, the matched
\* shards belong to the event after `sent', and only a namespace's deletions
\* wait behind that one.
Writing(L, n, m, t, u) ==
  /\ L \in Seq(EventSet) /\ Len(L) \in Nat /\ Len(L) <= MaxRev
  /\ \A i \in 1 .. Len(L) : L[i].rev = i
  /\ n \in Nat /\ m \in {n, n + 1} /\ m <= Len(L)
  /\ t # None => m = n /\ n < Len(L) /\ t \subseteq 1 .. u
  /\ \A i \in 1 .. Len(L) : i > n + 1 => L[i].op = "delete"

\* Shard s, complete after revision c.
ShardOK(s, c, L, n) ==
  /\ IsShard(s) /\ Genuine(L, s.ring, n + 1)
  /\ c \in 0 .. Never
  /\ c # Never => InOrder(s.ring)

HeapInv ==
  /\ used.shards \in 0 .. MaxShards
  /\ DOMAIN heap = ShardIds /\ DOMAIN since = ShardIds
  /\ \A s \in ShardIds : ShardOK(heap[s], since[s], log, sent)

FloorInv ==
  /\ DOMAIN entries = AllPrefixes
  /\ \A p \in AllPrefixes : entries[p] \in Nat
  /\ overflow \in Nat

\* A mapped shard has all that was pushed for its prefix since it is complete,
\* and an event it was not matched with predates that.
Mapped(p, H, C, S, L, n, m, t) ==
  S[p] # None =>
    /\ Holds(L, H[S[p]], C[S[p]], p, m)
    /\ t # None /\ S[p] \notin t /\ L[n + 1].key \in Under(p) => C[S[p]] > n

\* The shard a request holds on to serves its prefix, has what the receiver will
\* not deliver, and has no gap below its last event.
Opening == {"list", "backfill", "attach", "horizon", "snapshot"}

HeldShard(x, H, C, S, L, m, t, u) ==
  /\ x.sid \in 1 .. u
  /\ \A q \in AllPrefixes : S[q] # None /\ S[q] = x.sid => q \in {x.prefix, Parent(x.prefix)}
  /\ Holds(L, H[x.sid], C[x.sid], x.prefix, x.cursor - 1)
  /\ Holds(L, H[x.sid], C[x.sid], x.prefix, RingTop(H[x.sid]))
  /\ t # None /\ x.sid \in t => Holds(L, H[x.sid], C[x.sid], x.prefix, m)

\* A stream that was promised a complete history and has not lagged.
Owed(x) == x.covered /\ ~x.lagged

\* What x and v owe to the log alone.
ClientOK(x, v, L, n) ==
  /\ x.pc \in {"resolve", "create"} \cup Opening => Opened(x, v, L, n)
  /\ x.pc = "backfill" => Rows(x, L, n)
  /\ x.pc \in {"scan", "catchup", "check"} => ~Owed(x)
  /\ x.pc = "replay" /\ Owed(x) => Replaying(x, v, L, n)
  /\ x.pc = "live" /\ Owed(x) => Following(x, v, L, n)

ViewShape == DOMAIN view = Watchers /\ \A w \in Watchers : DOMAIN view[w] = Keys

ViewInv ==
  /\ Writing(log, sent, pushed, targets, used.shards)
  /\ HeapInv
  /\ FloorInv
  /\ \A p \in AllPrefixes : Mapped(p, heap, since, shards, log, sent, pushed, targets)
  /\ ViewShape
  /\ \A w \in Watchers : ClientOK(st[w], view[w], log, sent)
  /\ \A w \in Watchers : st[w].pc \in Opening =>
       HeldShard(st[w], heap, since, shards, log, pushed, targets, used.shards)

LEMMA NeverIsNat == Never \in Nat /\ MaxRev \in Nat /\ MaxRev < Never
  BY WatchConstants DEF Never

\* The types the other lemmas ask for.
LEMMA WritingTypes ==
  ASSUME NEW L, NEW n, NEW m, NEW t, NEW u, Writing(L, n, m, t, u)
  PROVE  /\ Len(L) \in Nat /\ n \in Nat /\ m \in Nat /\ n <= m /\ m <= n + 1
         /\ m <= Len(L) /\ n <= Len(L) /\ Len(L) < Never
         /\ \A i \in 1 .. Len(L) : L[i] \in EventSet /\ L[i].rev = i
BY NeverIsNat DEF Writing

-------------------------------------------------------------------------------
(* Steps that touch one stream and nothing it shares with others.           *)

StillHere == UNCHANGED <<log, sent, pushed, targets, shards, heap, since, entries, overflow>>

\* Stream w alone moves.
Moves(w) ==
  /\ OnlyStream(w)
  /\ DOMAIN view' = Watchers /\ DOMAIN view'[w] = Keys
  /\ \A v \in Watchers \ {w} : view'[v] = view[v]

LEMMA OneStream ==
  ASSUME ViewInv, NEW w \in Watchers, Moves(w), StillHere, used'.shards = used.shards,
         ClientOK(st'[w], view'[w], log, sent),
         st'[w].pc \in Opening =>
           HeldShard(st'[w], heap, since, shards, log, pushed, targets, used.shards)
  PROVE  ViewInv'
<1>1. Writing(log, sent, pushed, targets, used.shards)'
  BY DEF ViewInv, StillHere
<1>2. HeapInv' /\ FloorInv'
  BY DEF ViewInv, StillHere, HeapInv, FloorInv
<1>3. \A p \in AllPrefixes : Mapped(p, heap, since, shards, log, sent, pushed, targets)'
  BY DEF ViewInv, StillHere
<1>4. ViewShape'
  BY DEF ViewInv, ViewShape, Moves
<1>5. ASSUME NEW v \in Watchers
      PROVE  /\ ClientOK(st[v], view[v], log, sent)'
             /\ (st[v].pc \in Opening =>
                  HeldShard(st[v], heap, since, shards, log, pushed, targets, used.shards))'
  <2>1. CASE v = w
    BY <2>1 DEF StillHere
  <2>2. CASE v # w
    <3>1. st'[v] = st[v] /\ view'[v] = view[v]
      BY <2>2 DEF Moves, OnlyStream
    <3> QED
      BY <3>1 DEF ViewInv, StillHere
  <2> QED BY <2>1, <2>2
<1> QED
  BY <1>1, <1>2, <1>3, <1>4, <1>5 DEF ViewInv

\* Two records that agree on what a request has fixed when it opens.
SameClient(y, x) ==
  y.prefix = x.prefix /\ y.from = x.from /\ y.last = x.last /\ y.cursor = x.cursor

LEMMA SameClientOpened ==
  ASSUME NEW x, NEW y, SameClient(y, x), NEW v, NEW L, NEW n, Opened(x, v, L, n)
  PROVE  Opened(y, v, L, n)
BY DEF SameClient, Opened

LEMMA SameClientHeld ==
  ASSUME NEW x, NEW y, SameClient(y, x), y.sid = x.sid,
         NEW H, NEW C, NEW S, NEW L, NEW m, NEW t, NEW u, HeldShard(x, H, C, S, L, m, t, u)
  PROVE  HeldShard(y, H, C, S, L, m, t, u)
BY DEF SameClient, HeldShard

\* Where a stream has nothing to show yet, or no longer.
LEMMA NothingOwed ==
  ASSUME NEW x, x.pc \in {"off", "tombstones", "gone"}, NEW v, NEW L, NEW n
  PROVE  ClientOK(x, v, L, n) /\ x.pc \notin Opening
BY DEF ClientOK, Opening

LEMMA OpenView ==
  ASSUME GcInv, ViewInv, NEW w \in Watchers, NEW p \in WatchPrefixes, NEW from \in 0 .. Len(log),
         NEW listed, OpenWatch(w, p, from, listed)
  PROVE  ViewInv'
<1> DEFINE y == st'[w]
           x == [NoStream EXCEPT !.pc = "resolve", !.prefix = p, !.from = from,
                                 !.cursor = sent + 1, !.last = from]
<1>1. /\ DOMAIN st = Watchers /\ (\A v \in Watchers : DOMAIN st[v] = Fields) /\ DOMAIN used = Counters
      /\ DOMAIN view = Watchers /\ \A v \in Watchers : DOMAIN view[v] = Keys
  BY DEF GcInv, Shape, ViewInv, ViewShape
<1>2. /\ DOMAIN x = Fields
      /\ x.pc = "resolve" /\ x.prefix = p /\ x.from = from /\ x.cursor = sent + 1 /\ x.last = from
  BY DEF NoStream, Fields
<1>3. st' = [st EXCEPT ![w] = x] /\ view' = [view EXCEPT ![w] = StateAt(from)]
  BY DEF OpenWatch
<1> HIDE DEF x
<1>4. y = x /\ view'[w] = StateAt(from)
  BY <1>1, <1>3
<1>5. Moves(w)
  <2>1. DOMAIN StateAt(from) = Keys
    BY DEF StateAt
  <2> HIDE DEF y
  <2> QED
    BY <1>1, <1>2, <1>3, <2>1 DEF Moves, OnlyStream
<1>6. StillHere /\ used'.shards = used.shards
  BY <1>1 DEF OpenWatch, writerVars, shardVars, StillHere, Counters
<1>7. Opened(y, view'[w], log, sent)
  <2>1. p \in AllPrefixes /\ sent \in Nat
    BY WatchConstants DEF ViewInv, Writing
  <2>2. AtRev(log, view'[w], p, from)
    <3> SUFFICES ASSUME NEW k \in Under(p) PROVE StateAt(from)[k] = RowIn(log, k, from)
      BY <1>4 DEF AtRev
    <3>1. k \in Keys
      BY DEF Under
    <3>2. RowRev(k, from) = RowIn(log, k, from)
      BY RowRevIsRowIn
    <3> QED
      BY <3>1, <3>2 DEF StateAt
  <2>3. sent + 1 \in 1 .. sent + 1
    BY <2>1
  <2> QED
    BY <1>2, <1>4, <2>1, <2>2, <2>3 DEF Opened
<1>8. ClientOK(y, view'[w], log, sent) /\ y.pc \notin Opening
  BY <1>2, <1>4, <1>7 DEF ClientOK, Opening
<1> QED
  BY <1>5, <1>6, <1>8, OneStream

\* What the shape of the state gives every step of stream w.
LEMMA Shapes ==
  ASSUME GcInv, ViewInv
  PROVE  /\ DOMAIN st = Watchers /\ (\A v \in Watchers : DOMAIN st[v] = Fields)
         /\ DOMAIN used = Counters /\ used.shards \in 0 .. MaxShards
         /\ DOMAIN view = Watchers /\ (\A v \in Watchers : DOMAIN view[v] = Keys)
         /\ DOMAIN heap = ShardIds /\ DOMAIN since = ShardIds /\ DOMAIN shards = AllPrefixes
         /\ (\A s \in 1 .. used.shards : s \in ShardIds) /\ MaxShards \in Nat
BY WatchConstants DEF GcInv, Shape, ViewInv, ViewShape, HeapInv, ShardIds

\* A shard of the map that covers the prefix is one a request can hold on to.
LEMMA MappedIsHeld ==
  ASSUME GcInv, ViewInv, NEW x, NEW v, Opened(x, v, log, sent),
         NEW q \in {x.prefix, Parent(x.prefix)}, shards[q] # None, x.sid = shards[q]
  PROVE  HeldShard(x, heap, since, shards, log, pushed, targets, used.shards)
<1> DEFINE sid == shards[q]
<1>1. x.prefix \in AllPrefixes /\ x.cursor \in 1 .. sent + 1
  BY DEF Opened
<1>2. q \in AllPrefixes /\ Under(x.prefix) \subseteq Under(q)
  BY <1>1, PrefixFacts
<1>3. sid \in 1 .. used.shards /\ \A p \in AllPrefixes : shards[p] # None /\ shards[p] = sid => p = q
  BY <1>2 DEF GcInv, OwnShard
<1>4. /\ Len(log) \in Nat /\ sent \in Nat /\ pushed \in Nat /\ sent <= pushed /\ pushed <= sent + 1
  BY WritingTypes DEF ViewInv
<1>5. ShardOK(heap[sid], since[sid], log, sent)
  BY <1>3, Shapes DEF ViewInv, HeapInv
<1>6. Holds(log, heap[sid], since[sid], q, pushed)
  BY <1>2 DEF ViewInv, Mapped
<1> HIDE DEF sid
<1>7. /\ IsShard(heap[sid]) /\ heap[sid].horizon \in Nat /\ since[sid] \in Nat
      /\ Genuine(log, heap[sid].ring, sent + 1)
  BY <1>5, NeverIsNat DEF ShardOK, IsShard
<1>8. Holds(log, heap[sid], since[sid], x.prefix, pushed)
  BY <1>2, <1>6, HoldsNarrower, Zenon
<1>9. Holds(log, heap[sid], since[sid], x.prefix, x.cursor - 1)
  <2>1. x.cursor - 1 \in Nat /\ x.cursor - 1 <= pushed
    BY <1>1, <1>4
  <2> QED
    BY <1>4, <1>8, <2>1, HoldsShorter, Zenon
<1>10. Holds(log, heap[sid], since[sid], x.prefix, RingTop(heap[sid]))
  <2>1. Genuine(log, heap[sid].ring, pushed + 1)
    BY <1>4, <1>7 DEF Genuine
  <2> QED
    BY <1>4, <1>7, <1>8, <2>1, HoldsTop
<1>11. x.sid = sid
  BY DEF sid
<1> QED
  BY <1>3, <1>8, <1>9, <1>10, <1>11 DEF HeldShard

LEMMA ResolveView ==
  ASSUME GcInv, ViewInv, NEW w \in Watchers, Resolve(w)
  PROVE  ViewInv'
<1> DEFINE x == st[w]
           y == st'[w]
           sid == FindShard(x.prefix)
           next == IF sid = None THEN "create" ELSE "attach"
           flag == sid # None
<1>1. st' = [st EXCEPT ![w].sid = sid, ![w].reused = flag, ![w].pc = next]
  BY DEF Resolve
<1> HIDE DEF sid, next, flag
<1>2. /\ DOMAIN y = Fields /\ OnlyStream(w)
      /\ SameClient(y, x) /\ y.sid = sid /\ y.pc = next
  BY <1>1, Shapes DEF Fields, OnlyStream, SameClient
<1>3. StillHere /\ used'.shards = used.shards /\ view' = view
  BY DEF Resolve, writerVars, shardVars, StillHere
<1>4. Moves(w)
  BY <1>2, <1>3, Shapes DEF Moves
<1>5. Opened(y, view[w], log, sent)
  <2>1. Opened(x, view[w], log, sent)
    BY DEF Resolve, ViewInv, ClientOK
  <2> QED
    BY <2>1, <1>2, SameClientOpened
<1>6. next \in {"create", "attach"}
  BY DEF next
<1>7. ClientOK(y, view[w], log, sent)
  BY <1>2, <1>5, <1>6 DEF ClientOK
<1>8. ASSUME y.pc \in Opening
      PROVE  HeldShard(y, heap, since, shards, log, pushed, targets, used.shards)
  <2>1. sid # None
    BY <1>2, <1>8 DEF next, Opening
  <2>2. PICK q \in {x.prefix, Parent(x.prefix)} : shards[q] # None /\ sid = shards[q]
    BY <2>1 DEF sid, FindShard, FindShardKey
  <2>3. q \in {y.prefix, Parent(y.prefix)} /\ y.sid = shards[q]
    BY <1>2, <2>2 DEF SameClient
  <2> HIDE DEF y
  <2> QED
    BY <1>5, <2>2, <2>3, MappedIsHeld
<1> QED
  BY <1>3, <1>4, <1>7, <1>8, OneStream

\* The steps between the shard's lookup and its snapshot.
LEMMA KeepsHold ==
  ASSUME GcInv, ViewInv, NEW w \in Watchers, OnlyStream(w), view' = view, StillHere,
         used'.shards = used.shards, st[w].pc \in Opening, st'[w].pc \in Opening,
         SameClient(st'[w], st[w]), st'[w].sid = st[w].sid,
         st'[w].pc = "backfill" => Rows(st'[w], log, sent)
  PROVE  ViewInv'
<1> DEFINE x == st[w]
           y == st'[w]
<1>1. Moves(w)
  BY Shapes DEF Moves
<1>2. /\ Opened(x, view[w], log, sent)
      /\ HeldShard(x, heap, since, shards, log, pushed, targets, used.shards)
  BY DEF ViewInv, ClientOK
<1>3. Opened(y, view[w], log, sent)
  BY <1>2, SameClientOpened
<1>4. HeldShard(y, heap, since, shards, log, pushed, targets, used.shards)
  BY <1>2, SameClientHeld
<1>5. ClientOK(y, view'[w], log, sent)
  BY <1>3 DEF ClientOK, Opening
<1> QED
  BY <1>1, <1>4, <1>5, OneStream

\* A row of the list carries the revision of a put, and puts are pushed at once.
LEMMA ListRows ==
  ASSUME ViewInv, NEW k, Exists(k)
  PROVE  LET r == RowRev(k, Len(log))
         IN r \in 1 .. sent + 1 /\ r <= Len(log) /\ log[r].op = "put"
<1> DEFINE r == RowIn(log, k, Len(log))
<1>1. RowRev(k, Len(log)) = r
  BY RowRevIsRowIn
<1>2. Writing(log, sent, pushed, targets, used.shards)
  BY DEF ViewInv
<1>3. Len(log) \in Nat /\ sent \in Nat /\ \A i \in 1 .. Len(log) : log[i] \in EventSet
  BY <1>2, WritingTypes
<1>4. r \in 1 .. Len(log) /\ log[r].op # "delete"
  BY <1>1, <1>3, RowInPut DEF Exists
<1> HIDE DEF r
<1>5. ~(r > sent + 1)
  BY <1>2, <1>4 DEF Writing
<1>6. log[r].op = "put"
  BY <1>3, <1>4 DEF EventSet
<1> QED
  BY <1>1, <1>3, <1>4, <1>5, <1>6

LEMMA ListView ==
  ASSUME GcInv, ViewInv, NEW w \in Watchers, ListForBackfill(w)
  PROVE  ViewInv'
<1> DEFINE rows == {RowRev(k, Len(log)) : k \in {x \in Under(st[w].prefix) : Exists(x)}}
<1>1. st' = [st EXCEPT ![w].pc = "backfill", ![w].items = rows]
  BY DEF ListForBackfill
<1>2. \A r \in rows : r \in 1 .. sent + 1 /\ r <= Len(log) /\ log[r].op = "put"
  BY ListRows
<1> HIDE DEF rows
<1>3. /\ OnlyStream(w) /\ SameClient(st'[w], st[w]) /\ st'[w].sid = st[w].sid
      /\ st'[w].pc = "backfill" /\ st'[w].items = rows
  BY <1>1, Shapes DEF OnlyStream, Fields, SameClient
<1>4. StillHere /\ used' = used /\ view' = view /\ st[w].pc = "list"
  BY DEF ListForBackfill, writerVars, shardVars, StillHere
<1>5. Rows(st'[w], log, sent)
  BY <1>2, <1>3 DEF Rows
<1>6. st[w].pc \in Opening /\ st'[w].pc \in Opening
  BY <1>3, <1>4 DEF Opening
<1> QED
  BY <1>3, <1>4, <1>5, <1>6, KeepsHold

LEMMA OpeningView ==
  ASSUME GcInv, ViewInv, NEW w \in Watchers, BackfillDone(w) \/ Attach(w) \/ LoadHorizon(w)
  PROVE  ViewInv'
<1>1. StillHere /\ used' = used /\ view' = view
  BY DEF BackfillDone, Attach, LoadHorizon, Goto, writerVars, shardVars, StillHere
<1>2. st[w].pc \in {"backfill", "attach", "horizon"}
  BY DEF BackfillDone, Attach, LoadHorizon
<1>3. /\ OnlyStream(w) /\ SameClient(st'[w], st[w]) /\ st'[w].sid = st[w].sid
      /\ st'[w].pc \in {"attach", "horizon", "snapshot"}
  <2>1. \/ \E pc \in {"attach", "horizon"} : st' = [st EXCEPT ![w].pc = pc]
        \/ \E h : st' = [st EXCEPT ![w].pc = "snapshot", ![w].horizon = h]
    BY DEF BackfillDone, Attach, LoadHorizon, Goto
  <2>2. CASE \E pc \in {"attach", "horizon"} : st' = [st EXCEPT ![w].pc = pc]
    BY <2>2, Shapes DEF OnlyStream, Fields, SameClient
  <2>3. CASE \E h : st' = [st EXCEPT ![w].pc = "snapshot", ![w].horizon = h]
    BY <2>3, Shapes DEF OnlyStream, Fields, SameClient
  <2> QED
    BY <2>1, <2>2, <2>3
<1>4. st[w].pc \in Opening /\ st'[w].pc \in Opening /\ st'[w].pc # "backfill"
  BY <1>2, <1>3 DEF Opening
<1> QED
  BY <1>1, <1>3, <1>4, KeepsHold

\* Another request made the shard in the meantime.
LEMMA FoundView ==
  ASSUME GcInv, ViewInv, NEW w \in Watchers, CreateShard(w), shards[st[w].prefix] # None
  PROVE  ViewInv'
<1> DEFINE x == st[w]
           y == st'[w]
           sid == shards[x.prefix]
<1>1. /\ st' = [st EXCEPT ![w].pc = "list", ![w].sid = sid]
      /\ x.pc = "create"
  BY DEF CreateShard
<1> HIDE DEF sid
<1>2. OnlyStream(w) /\ SameClient(y, x) /\ y.sid = sid /\ y.pc = "list"
  BY <1>1, Shapes DEF Fields, OnlyStream, SameClient
<1>3. StillHere /\ used' = used /\ view' = view
  BY DEF CreateShard, writerVars, shardVars, StillHere
<1>4. Moves(w)
  BY <1>2, <1>3, Shapes DEF Moves
<1>5. Opened(y, view[w], log, sent)
  <2>1. Opened(x, view[w], log, sent)
    BY <1>1 DEF ViewInv, ClientOK
  <2> QED
    BY <2>1, <1>2, SameClientOpened
<1>6. ClientOK(y, view[w], log, sent)
  BY <1>2, <1>5 DEF ClientOK
<1>7. HeldShard(y, heap, since, shards, log, pushed, targets, used.shards)
  <2>1. y.sid = shards[y.prefix] /\ shards[y.prefix] # None
    BY <1>2 DEF SameClient, sid
  <2> HIDE DEF y
  <2> QED
    BY <1>5, <2>1, MappedIsHeld
<1> QED
  BY <1>3, <1>4, <1>6, <1>7, OneStream

\* The copy of a complete shard's ring is all the receiver will not deliver.
LEMMA SnapshotIsComplete ==
  ASSUME NEW L, NEW n, NEW m, NEW t, NEW u, Writing(L, n, m, t, u),
         NEW s, NEW c, ShardOK(s, c, L, n), NEW y, NEW v, Opened(y, v, L, n),
         c <= y.from, s.horizon <= y.from,
         Holds(L, s, c, y.prefix, y.cursor - 1), Holds(L, s, c, y.prefix, RingTop(s)),
         y.queue = Restrict(s.ring, {i \in DOMAIN s.ring : s.ring[i].key \in Under(y.prefix)
                                                           /\ s.ring[i].rev > y.from})
  PROVE  Replaying(y, v, L, n)
<1>1. Len(L) \in Nat /\ n \in Nat /\ Len(L) < Never /\ Never \in Nat
  BY WritingTypes, NeverIsNat
<1>2. /\ y.prefix \in AllPrefixes /\ y.last = y.from /\ y.from \in 0 .. Len(L)
      /\ y.cursor \in 1 .. n + 1 /\ AtRev(L, v, y.prefix, y.last)
  BY DEF Opened
<1>3. /\ IsShard(s) /\ Genuine(L, s.ring, n + 1) /\ c \in Nat /\ InOrder(s.ring)
      /\ s.horizon \in Nat /\ s.ring \in Seq(EventSet)
  BY <1>1, <1>2 DEF ShardOK, IsShard
<1>4. \A i \in DOMAIN s.ring : /\ i \in Nat /\ s.ring[i].rev \in 1 .. n + 1
                               /\ s.ring[i].rev <= Len(L) /\ s.ring[i] = L[s.ring[i].rev]
  BY <1>3 DEF Genuine
<1>5. /\ \A i \in DOMAIN y.queue : /\ i \in DOMAIN s.ring /\ y.queue[i] = s.ring[i]
                                   /\ s.ring[i].key \in Under(y.prefix) /\ s.ring[i].rev > y.from
      /\ \A i \in DOMAIN s.ring :
           s.ring[i].key \in Under(y.prefix) /\ s.ring[i].rev > y.from => i \in DOMAIN y.queue
  BY DEF Restrict
<1>6. DOMAIN y.queue \subseteq Nat
  BY <1>4, <1>5
<1>7. Genuine(L, y.queue, n + 1)
  BY <1>4, <1>5 DEF Genuine
<1>8. InOrder(y.queue)
  BY <1>3, <1>5 DEF InOrder
<1>9. \A i \in DOMAIN y.queue : y.last <= y.queue[i].rev /\ y.queue[i].key \in Under(y.prefix)
  BY <1>2, <1>4, <1>5
<1>10. Queued(y, L)
  <2> SUFFICES ASSUME NEW r \in 1 .. Len(L), y.last < r, L[r].key \in Under(y.prefix),
                      r < y.cursor \/ \E i \in DOMAIN y.queue : r <= y.queue[i].rev
               PROVE  \E i \in DOMAIN y.queue : y.queue[i].rev = r
    BY DEF Queued
  <2>1. c < r /\ s.horizon < r
    BY <1>1, <1>2, <1>3
  <2>2. \E i \in DOMAIN s.ring : s.ring[i].rev = r
    <3>1. CASE r < y.cursor
      <4>1. r <= y.cursor - 1
        BY <3>1, <1>1, <1>2
      <4> QED
        BY <4>1, <2>1 DEF Holds
    <3>2. CASE \E i \in DOMAIN y.queue : r <= y.queue[i].rev
      <4>1. PICK i \in DOMAIN s.ring : r <= s.ring[i].rev
        BY <3>2, <1>5
      <4>2. RingTop(s) \in 0 .. n + 1 /\ s.ring[i].rev <= RingTop(s)
        BY <1>1, <1>3, TopFacts
      <4>3. r <= RingTop(s)
        BY <4>1, <4>2, <1>1, <1>4
      <4> QED
        BY <4>3, <2>1 DEF Holds
    <3> QED BY <3>1, <3>2
  <2>3. PICK i \in DOMAIN s.ring : s.ring[i].rev = r
    BY <2>2
  <2>4. s.ring[i].key \in Under(y.prefix) /\ s.ring[i].rev > y.from
    BY <2>3, <1>2, <1>4
  <2> QED
    BY <2>3, <2>4, <1>5
<1> QED
  BY <1>2, <1>6, <1>7, <1>8, <1>9, <1>10 DEF Replaying

LEMMA SnapshotView ==
  ASSUME GcInv, ViewInv, NEW w \in Watchers, SnapshotRing(w)
  PROVE  ViewInv'
<1> DEFINE x == st[w]
           y == st'[w]
           sid == x.sid
           full == since[sid] <= x.from /\ heap[sid].horizon <= x.from
           events == Retained(sid, x.prefix, x.from)
<1>1. /\ st' = [st EXCEPT ![w].pc = "replay", ![w].queue = events, ![w].covered = full]
      /\ x.pc = "snapshot"
  BY DEF SnapshotRing
<1>2. StillHere /\ used' = used /\ view' = view
  BY DEF SnapshotRing, writerVars, shardVars, StillHere
<1>3. /\ Opened(x, view[w], log, sent)
      /\ HeldShard(x, heap, since, shards, log, pushed, targets, used.shards)
  BY <1>1 DEF ViewInv, ClientOK, Opening
<1>4. sid \in ShardIds /\ sid # None
  BY <1>3, Shapes, WatchConstants DEF HeldShard
<1>5. ShardOK(heap[sid], since[sid], log, sent)
  BY <1>4 DEF ViewInv, HeapInv
<1> HIDE DEF full, events
<1>6. /\ OnlyStream(w) /\ SameClient(y, x) /\ y.pc = "replay" /\ y.queue = events
      /\ y.covered = full
  BY <1>1, Shapes DEF OnlyStream, Fields, SameClient
<1>7. Opened(y, view[w], log, sent)
  BY <1>3, <1>6, SameClientOpened
<1>8. Moves(w)
  BY <1>2, <1>6, Shapes DEF Moves
<1>9. ASSUME Owed(y) PROVE Replaying(y, view[w], log, sent)
  <2>1. full
    BY <1>6, <1>9, Zenon DEF Owed
  <2>2. since[sid] <= y.from /\ heap[sid].horizon <= y.from
    BY <2>1, <1>6 DEF full, SameClient
  <2>3. y.queue = Restrict(heap[sid].ring, {i \in DOMAIN heap[sid].ring :
                      heap[sid].ring[i].key \in Under(y.prefix) /\ heap[sid].ring[i].rev > y.from})
    BY <1>4, <1>6 DEF events, Retained, SameClient
  <2>4. /\ Holds(log, heap[sid], since[sid], y.prefix, y.cursor - 1)
        /\ Holds(log, heap[sid], since[sid], y.prefix, RingTop(heap[sid]))
    BY <1>3, <1>6 DEF HeldShard, SameClient
  <2>5. Writing(log, sent, pushed, targets, used.shards)
    BY DEF ViewInv
  <2> HIDE DEF y, sid
  <2> QED
    BY <1>5, <1>7, <2>2, <2>3, <2>4, <2>5, SnapshotIsComplete
<1>10. ClientOK(y, view[w], log, sent) /\ y.pc \notin Opening
  BY <1>6, <1>9 DEF ClientOK, Opening
<1> QED
  BY <1>2, <1>8, <1>10, OneStream

\* Yielding the first queued event brings the client to that event's revision.
LEMMA YieldReplaying ==
  ASSUME NEW L, NEW n, NEW m, NEW t, NEW u, Writing(L, n, m, t, u),
         NEW x, NEW v, DOMAIN v = Keys, Replaying(x, v, L, n),
         NEW i \in DOMAIN x.queue, \A j \in DOMAIN x.queue : i <= j,
         NEW y, y.prefix = x.prefix, y.cursor = x.cursor, y.last = x.queue[i].rev,
         y.queue = Without(x.queue, {i})
  PROVE  Replaying(y, Apply(v, x.queue[i]), L, n)
<1> DEFINE e == x.queue[i]
           r == e.rev
<1>1. Len(L) \in Nat /\ n \in Nat /\ \A j \in 1 .. Len(L) : L[j] \in EventSet /\ L[j].rev = j
  BY WritingTypes
<1>2. /\ x.prefix \in AllPrefixes /\ x.last \in 0 .. Len(L) /\ x.cursor \in 1 .. n + 1
      /\ DOMAIN x.queue \subseteq Nat /\ Genuine(L, x.queue, n + 1) /\ InOrder(x.queue)
      /\ Queued(x, L) /\ AtRev(L, v, x.prefix, x.last)
      /\ \A j \in DOMAIN x.queue : x.last <= x.queue[j].rev /\ x.queue[j].key \in Under(x.prefix)
  BY DEF Replaying
<1>3. \A j \in DOMAIN x.queue : /\ x.queue[j].rev \in 1 .. n + 1 /\ x.queue[j].rev <= Len(L)
                                /\ x.queue[j] = L[x.queue[j].rev]
  BY <1>2 DEF Genuine
<1>4. r \in 1 .. Len(L) /\ r \in Nat \ {0} /\ e = L[r] /\ e.key \in Under(x.prefix) /\ x.last <= r
  BY <1>1, <1>2, <1>3
<1>5. \A j \in DOMAIN x.queue : r <= x.queue[j].rev
  <2> SUFFICES ASSUME NEW j \in DOMAIN x.queue PROVE r <= x.queue[j].rev
    OBVIOUS
  <2>1. CASE i = j
    BY <2>1, <1>3
  <2>2. CASE i # j
    <3>1. i < j
      BY <2>2, <1>2
    <3> QED
      BY <3>1, <1>2 DEF InOrder
  <2> QED BY <2>1, <2>2
<1>6. /\ \A j \in DOMAIN y.queue : j \in DOMAIN x.queue /\ j # i /\ y.queue[j] = x.queue[j]
      /\ \A j \in DOMAIN x.queue : j # i => j \in DOMAIN y.queue
  BY DEF Without, Restrict
<1> HIDE DEF r, e
<1>7. y.last = r
  BY DEF r, e
<1>8. AtRev(L, Apply(v, e), x.prefix, r)
  <2>1. ASSUME NEW j \in 1 .. r, j > x.last, j < r PROVE L[j].key \notin Under(x.prefix)
    <3> SUFFICES ASSUME L[j].key \in Under(x.prefix) PROVE FALSE
      OBVIOUS
    <3>1. j \in 1 .. Len(L) /\ x.last < j /\ j <= x.queue[i].rev
      BY <2>1, <1>1, <1>2, <1>4 DEF r, e
    <3>2. PICK l \in DOMAIN x.queue : x.queue[l].rev = j
      BY <3>1, <1>2 DEF Queued
    <3> QED
      BY <3>2, <1>4, <1>5, <2>1
  <2>2. Under(x.prefix) \subseteq Keys
    BY DEF Under
  <2>3. L[r] \in EventSet /\ L[r].rev = r /\ L[r].key \in Under(x.prefix)
    BY <1>1, <1>4
  <2>4. x.last \in Nat
    BY <1>1, <1>2
  <2>5. AtRev(L, Apply(v, L[r]), x.prefix, r)
    BY <2>1, <2>2, <2>3, <2>4, <1>2, <1>4, AtRevApply
  <2> QED
    BY <2>5, <1>4
<1>9. Genuine(L, y.queue, n + 1) /\ InOrder(y.queue) /\ DOMAIN y.queue \subseteq Nat
  <2>1. Genuine(L, y.queue, n + 1)
    BY <1>3, <1>6 DEF Genuine
  <2>2. InOrder(y.queue)
    BY <1>2, <1>6 DEF InOrder
  <2> QED
    BY <1>2, <1>6, <2>1, <2>2
<1>10. \A j \in DOMAIN y.queue : y.last <= y.queue[j].rev /\ y.queue[j].key \in Under(y.prefix)
  BY <1>2, <1>5, <1>6, <1>7
<1>11. Queued(y, L)
  <2> SUFFICES ASSUME NEW l \in 1 .. Len(L), r < l, L[l].key \in Under(x.prefix),
                      l < x.cursor \/ \E j \in DOMAIN y.queue : l <= y.queue[j].rev
               PROVE  \E j \in DOMAIN y.queue : y.queue[j].rev = l
    BY <1>7 DEF Queued
  <2>1. x.last < l
    BY <1>1, <1>2, <1>4
  <2>2. l < x.cursor \/ \E j \in DOMAIN x.queue : l <= x.queue[j].rev
    BY <1>6
  <2>3. PICK j \in DOMAIN x.queue : x.queue[j].rev = l
    BY <2>1, <2>2, <1>2 DEF Queued
  <2>4. j # i
    BY <2>3, <1>4 DEF r, e
  <2> QED
    BY <2>3, <2>4, <1>6
<1>12. y.prefix \in AllPrefixes /\ y.last \in 0 .. Len(L) /\ y.cursor \in 1 .. n + 1
  BY <1>1, <1>2, <1>4, <1>7
<1>13. AtRev(L, Apply(v, e), y.prefix, y.last)
  BY <1>7, <1>8
<1> QED
  BY <1>9, <1>10, <1>11, <1>12, <1>13 DEF Replaying, e

\* With nothing left in the queue the live loop can take over.
LEMMA DrainedFollowing ==
  ASSUME NEW L, NEW n, NEW m, NEW t, NEW u, Writing(L, n, m, t, u),
         NEW x, NEW v, Replaying(x, v, L, n), DOMAIN x.queue = {},
         NEW y, y.prefix = x.prefix, y.cursor = x.cursor, y.last = x.last
  PROVE  Following(y, v, L, n)
<1>1. Len(L) \in Nat /\ n \in Nat /\ n <= Len(L)
  BY WritingTypes
<1>2. /\ x.prefix \in AllPrefixes /\ x.last \in 0 .. Len(L) /\ x.cursor \in 1 .. n + 1
      /\ Queued(x, L) /\ AtRev(L, v, x.prefix, x.last)
  BY DEF Replaying
<1>3. Reached(y) \in Nat /\ x.last \in Nat /\ x.last <= Reached(y) /\ Reached(y) <= Len(L)
      /\ (Reached(y) # x.last => Reached(y) < x.cursor)
  BY <1>1, <1>2 DEF Reached
<1>4. ASSUME NEW i \in 1 .. Reached(y), i > x.last PROVE L[i].key \notin Under(x.prefix)
  <2>1. i \in 1 .. Len(L) /\ x.last < i /\ i < x.cursor
    BY <1>1, <1>2, <1>3, <1>4
  <2> QED
    BY <2>1, <1>2 DEF Queued
<1>5. AtRev(L, v, x.prefix, Reached(y))
  BY <1>2, <1>3, <1>4, AtRevSkip
<1> QED
  BY <1>2, <1>5 DEF Following

\* The fields a yield leaves alone, and those it sets.
LEMMA YieldEffect ==
  ASSUME GcInv, ViewInv, NEW w \in Watchers, NEW i, Yield(w, i)
  PROVE  LET x == st[w]
             y == st'[w]
         IN /\ Moves(w)
            /\ y.pc = x.pc /\ y.prefix = x.prefix /\ y.from = x.from /\ y.cursor = x.cursor
            /\ y.last = Max({x.last, x.queue[i].rev})
            /\ y.queue = Without(x.queue, {i})
            /\ view'[w] = Apply(view[w], x.queue[i])
            /\ Owed(y) => Owed(x)
<1> DEFINE x == st[w]
           y == st'[w]
           rest == Without(x.queue, {i})
           top == Max({x.last, x.queue[i].rev})
           v == Apply(view[w], x.queue[i])
<1>1. DOMAIN v = Keys
  BY Shapes DEF Apply
<1>2. view' = [view EXCEPT ![w] = v] /\ st' = [st EXCEPT ![w].queue = rest, ![w].last = top]
  BY DEF Yield
<1> HIDE DEF rest, top, v
<1>3. /\ OnlyStream(w) /\ y.pc = x.pc /\ y.prefix = x.prefix /\ y.cursor = x.cursor
      /\ y.last = top /\ y.queue = rest /\ y.from = x.from /\ y.covered = x.covered /\ y.lagged = x.lagged
  BY <1>2, Shapes DEF OnlyStream, Fields
<1>4. view'[w] = v /\ Moves(w)
  BY <1>1, <1>2, <1>3, Shapes DEF Moves
<1>5. Owed(y) => Owed(x)
  <2> HIDE DEF x, y
  <2> QED
    BY <1>3, Zenon DEF Owed
<1> QED
  BY <1>3, <1>4, <1>5 DEF rest, top, v

LEMMA DrainedEffect ==
  ASSUME GcInv, ViewInv, NEW w \in Watchers, NEW pc, Drained(w, pc)
  PROVE  LET x == st[w]
             y == st'[w]
         IN /\ Moves(w) /\ view' = view
            /\ y.pc = pc /\ SameClient(y, x) /\ y.queue = x.queue
            /\ y.prefix = x.prefix /\ y.cursor = x.cursor /\ y.last = x.last
            /\ DOMAIN x.queue = {}
            /\ Owed(y) => Owed(x)
<1> DEFINE x == st[w]
           y == st'[w]
<1>1. view' = view /\ st' = [st EXCEPT ![w].pc = pc, ![w].horizon = 0] /\ DOMAIN x.queue = {}
  BY DEF Drained
<1>2. /\ OnlyStream(w) /\ y.pc = pc /\ SameClient(y, x) /\ y.queue = x.queue
      /\ y.covered = x.covered /\ y.lagged = x.lagged
  BY <1>1, Shapes DEF OnlyStream, Fields, SameClient
<1>3. Moves(w)
  BY <1>1, <1>2, Shapes DEF Moves
<1>4. Owed(y) => Owed(x)
  <2> HIDE DEF x, y
  <2> QED
    BY <1>2, Zenon DEF Owed
<1> QED
  BY <1>1, <1>2, <1>3, <1>4 DEF SameClient

LEMMA ReplayView ==
  ASSUME GcInv, ViewInv, NEW w \in Watchers, Replay(w)
  PROVE  ViewInv'
<1> DEFINE x == st[w]
           y == st'[w]
<1>1. StillHere /\ used' = used /\ x.pc = "replay"
  BY DEF Replay, writerVars, shardVars, StillHere
<1>2. /\ Writing(log, sent, pushed, targets, used.shards)
      /\ Owed(x) => Replaying(x, view[w], log, sent)
  BY <1>1 DEF ViewInv, ClientOK
<1>3. CASE \E i \in DOMAIN x.queue : Yield(w, i)
  <2>1. PICK i \in DOMAIN x.queue : Yield(w, i)
    BY <1>3
  <2>2. /\ Moves(w) /\ y.pc = x.pc /\ y.prefix = x.prefix /\ y.cursor = x.cursor
        /\ y.last = Max({x.last, x.queue[i].rev}) /\ y.queue = Without(x.queue, {i})
        /\ view'[w] = Apply(view[w], x.queue[i]) /\ (Owed(y) => Owed(x))
    BY <2>1, YieldEffect
  <2>3. \A j \in DOMAIN x.queue : i <= j
    BY <2>1 DEF Yield
  <2>4. ASSUME Owed(y) PROVE Replaying(y, view'[w], log, sent)
    <3>1. Replaying(x, view[w], log, sent)
      BY <1>2, <2>2, <2>4
    <3>2. x.last \in Nat /\ x.queue[i].rev \in Nat /\ x.last <= x.queue[i].rev
      BY <3>1, <1>2, WritingTypes DEF Replaying, Genuine
    <3>3. y.last = x.queue[i].rev
      BY <2>2, <3>2, MaxOfTwo, SMTT(30)
    <3>4. DOMAIN view[w] = Keys
      BY Shapes
    <3> HIDE DEF x, y
    <3> QED
      BY <1>2, <2>1, <2>2, <2>3, <3>1, <3>3, <3>4, YieldReplaying
  <2>5. ClientOK(y, view'[w], log, sent) /\ y.pc \notin Opening
    BY <1>1, <2>2, <2>4 DEF ClientOK, Opening
  <2> QED
    BY <1>1, <2>2, <2>5, OneStream
<1>4. CASE Drained(w, "live")
  <2>1. /\ Moves(w) /\ view' = view /\ y.pc = "live" /\ y.prefix = x.prefix
        /\ y.cursor = x.cursor /\ y.last = x.last /\ DOMAIN x.queue = {}
        /\ Owed(y) => Owed(x)
    BY <1>4, DrainedEffect
  <2>2. ASSUME Owed(y) PROVE Following(y, view[w], log, sent)
    <3> HIDE DEF x, y
    <3> QED
      BY <1>2, <2>1, <2>2, DrainedFollowing
  <2>3. ClientOK(y, view'[w], log, sent) /\ y.pc \notin Opening
    BY <2>1, <2>2 DEF ClientOK, Opening
  <2> QED
    BY <1>1, <2>1, <2>3, OneStream
<1> QED
  BY <1>3, <1>4 DEF Replay

LEMMA CatchupView ==
  ASSUME GcInv, ViewInv, NEW w \in Watchers, Catchup(w)
  PROVE  ViewInv'
<1> DEFINE x == st[w]
           y == st'[w]
<1>1. StillHere /\ used' = used /\ x.pc = "catchup"
  BY DEF Catchup, writerVars, shardVars, StillHere
<1>2. ~Owed(x)
  BY <1>1 DEF ViewInv, ClientOK
<1>3. Moves(w) /\ y.pc \in {"catchup", "check"} /\ (Owed(y) => Owed(x))
  <2>1. CASE \E i \in DOMAIN x.queue : Yield(w, i)
    BY <1>1, <2>1, YieldEffect
  <2>2. CASE Drained(w, "check")
    BY <2>2, DrainedEffect
  <2> QED
    BY <2>1, <2>2 DEF Catchup
<1>4. ClientOK(y, view'[w], log, sent) /\ y.pc \notin Opening
  BY <1>2, <1>3 DEF ClientOK, Opening
<1> QED
  BY <1>1, <1>3, <1>4, OneStream

\* The live loop yields an event of the prefix that replay has not, and skips
\* the others; either way the client has reached it.
LEMMA ReceivedFollowing ==
  ASSUME NEW L, NEW n, NEW m, NEW t, NEW u, Writing(L, n, m, t, u),
         NEW x, NEW v, DOMAIN v = Keys, Following(x, v, L, n), x.cursor <= n,
         NEW y, y.prefix = x.prefix, y.cursor = x.cursor + 1
  PROVE  LET e == L[x.cursor]
         IN /\ e.key \in Under(x.prefix) /\ e.rev > x.last /\ y.last = e.rev
               => Following(y, Apply(v, e), L, n)
            /\ ~(e.key \in Under(x.prefix) /\ e.rev > x.last) /\ y.last = x.last
               => Following(y, v, L, n)
<1> DEFINE e == L[x.cursor]
           c == x.cursor
<1>1. /\ Len(L) \in Nat /\ n \in Nat /\ n <= Len(L)
      /\ \A j \in 1 .. Len(L) : L[j] \in EventSet /\ L[j].rev = j
  BY WritingTypes
<1>2. /\ x.prefix \in AllPrefixes /\ x.last \in 0 .. Len(L) /\ c \in 1 .. n
      /\ AtRev(L, v, x.prefix, Reached(x))
  BY <1>1 DEF Following
<1>3. e \in EventSet /\ e.rev = c /\ c \in Nat \ {0} /\ c - 1 \in Nat /\ c <= Len(L)
      /\ x.last \in Nat
  BY <1>1, <1>2
<1> HIDE DEF e, c
<1>4. e = L[c] /\ y.cursor = c + 1 /\ x.cursor = c
  BY DEF e, c
<1>5. ASSUME e.key \in Under(x.prefix), e.rev > x.last, y.last = e.rev
      PROVE  Following(y, Apply(v, e), L, n)
  <2>1. Reached(x) = c - 1 /\ Reached(y) = c
    BY <1>3, <1>4, <1>5 DEF Reached
  <2>2. \A i \in 1 .. c : i > c - 1 /\ i < c => L[i].key \notin Under(x.prefix)
    BY <1>3
  <2>3. Under(x.prefix) \subseteq Keys /\ c - 1 <= c
    BY <1>3 DEF Under
  <2>4. AtRev(L, v, x.prefix, c - 1) /\ L[c] \in EventSet /\ L[c].rev = c
        /\ L[c].key \in Under(x.prefix)
    BY <1>2, <1>3, <1>4, <1>5, <2>1
  <2>5. AtRev(L, Apply(v, e), x.prefix, c)
    BY <1>3, <1>4, <2>2, <2>3, <2>4, AtRevApply
  <2>6. y.last \in 0 .. Len(L) /\ y.cursor \in 1 .. n + 1
    BY <1>1, <1>2, <1>3, <1>4, <1>5
  <2> QED
    BY <1>2, <2>1, <2>5, <2>6 DEF Following
<1>6. ASSUME ~(e.key \in Under(x.prefix) /\ e.rev > x.last), y.last = x.last
      PROVE  Following(y, v, L, n)
  <2>1. y.last \in 0 .. Len(L) /\ y.cursor \in 1 .. n + 1
    BY <1>1, <1>2, <1>4, <1>6
  <2>2. CASE c <= x.last
    <3>1. Reached(x) = x.last /\ Reached(y) = x.last
      BY <2>2, <1>3, <1>4, <1>6 DEF Reached
    <3> QED
      BY <1>2, <2>1, <3>1 DEF Following
  <2>3. CASE c > x.last
    <3>1. Reached(x) = c - 1 /\ Reached(y) = c
      BY <2>3, <1>3, <1>4, <1>6 DEF Reached
    <3>2. \A i \in 1 .. c : i > c - 1 => L[i].key \notin Under(x.prefix)
      <4>1. e.key \notin Under(x.prefix)
        BY <2>3, <1>3, <1>6
      <4>2. \A i \in 1 .. c : i > c - 1 => i = c
        BY <1>3
      <4> QED
        BY <4>1, <4>2, <1>4
    <3>3. c \in Nat /\ c - 1 <= c
      BY <1>3
    <3>4. AtRev(L, v, x.prefix, c)
      BY <1>2, <1>3, <3>1, <3>2, <3>3, AtRevSkip
    <3> QED
      BY <1>2, <2>1, <3>1, <3>4 DEF Following
  <2> QED
    BY <1>3, <2>2, <2>3
<1> QED
  BY <1>5, <1>6 DEF e

LEMMA RecvView ==
  ASSUME GcInv, ViewInv, NEW w \in Watchers, Recv(w)
  PROVE  ViewInv'
<1> DEFINE x == st[w]
           y == st'[w]
           e == log[x.cursor]
           Fresher == e.key \in Under(x.prefix) /\ e.rev > x.last
           v == Apply(view[w], e)
<1>1. StillHere /\ used' = used /\ x.pc = "live" /\ Unread(w) \in 1 .. BroadcastCapacity
  BY DEF Recv, writerVars, shardVars, StillHere
<1>2. DOMAIN v = Keys /\ DOMAIN view[w] = Keys
  BY Shapes DEF Apply
<1>3. \/ Fresher /\ view' = [view EXCEPT ![w] = v]
                 /\ st' = [st EXCEPT ![w].cursor = @ + 1, ![w].last = e.rev]
      \/ ~Fresher /\ view' = view /\ st' = [st EXCEPT ![w].cursor = @ + 1]
  BY DEF Recv
<1> HIDE DEF Fresher, v, e
<1>4. /\ Moves(w) /\ y.pc = x.pc /\ y.prefix = x.prefix /\ y.cursor = x.cursor + 1
      /\ y.covered = x.covered /\ y.lagged = x.lagged
      /\ \/ Fresher /\ view'[w] = v /\ y.last = e.rev
         \/ ~Fresher /\ view'[w] = view[w] /\ y.last = x.last
  <2>1. CASE /\ Fresher /\ view' = [view EXCEPT ![w] = v]
             /\ st' = [st EXCEPT ![w].cursor = @ + 1, ![w].last = e.rev]
    BY <1>2, <2>1, Shapes DEF Moves, OnlyStream, Fields
  <2>2. CASE ~Fresher /\ view' = view /\ st' = [st EXCEPT ![w].cursor = @ + 1]
    BY <1>2, <2>2, Shapes DEF Moves, OnlyStream, Fields
  <2> QED
    BY <1>3, <2>1, <2>2
<1>5. Owed(y) => Owed(x)
  <2> HIDE DEF x, y
  <2> QED
    BY <1>4, Zenon DEF Owed
<1>6. ASSUME Owed(y) PROVE Following(y, view'[w], log, sent)
  <2>1. Following(x, view[w], log, sent) /\ Writing(log, sent, pushed, targets, used.shards)
    BY <1>1, <1>5, <1>6 DEF ViewInv, ClientOK
  <2>2. x.cursor <= sent
    <3>1. sent \in Nat /\ x.cursor \in 1 .. sent + 1
      BY <2>1, WritingTypes DEF Following
    <3>2. BroadcastCapacity \in Nat
      BY WatchConstants
    <3> QED
      BY <1>1, <3>1, <3>2 DEF Unread
  <2> HIDE DEF x, y
  <2>3. /\ Fresher /\ y.last = e.rev => Following(y, v, log, sent)
        /\ ~Fresher /\ y.last = x.last => Following(y, view[w], log, sent)
    <3>1. y.prefix = x.prefix /\ y.cursor = x.cursor + 1
      BY <1>4
    <3> QED
      BY <1>2, <2>1, <2>2, <3>1, ReceivedFollowing DEF Fresher, e, v
  <2> QED
    BY <1>4, <2>3
<1>7. ClientOK(y, view'[w], log, sent) /\ y.pc \notin Opening
  BY <1>1, <1>4, <1>6 DEF ClientOK, Opening
<1> QED
  BY <1>1, <1>4, <1>7, OneStream

\* Lag recovery, the end of a stream and the client's own leaving promise
\* nothing that ViewExactWhenCovered speaks of.
LEMMA LagView ==
  ASSUME GcInv, ViewInv, NEW w \in Watchers,
         Lagged(w) \/ ScanRing(w) \/ Recovered(w) \/ Unrecovered(w)
  PROVE  ViewInv'
<1> DEFINE x == st[w]
           y == st'[w]
<1>1. StillHere /\ used' = used /\ view' = view
  BY DEF Lagged, ScanRing, Recovered, Unrecovered, writerVars, shardVars, StillHere
<1>2. /\ Moves(w) /\ y.pc \in {"scan", "catchup", "live", "collect"}
      /\ ~Owed(y)
  <2>1. CASE Lagged(w)
    <3>1. st' = [st EXCEPT ![w].pc = "scan", ![w].cursor = sent + 1, ![w].lagged = TRUE]
      BY <2>1 DEF Lagged
    <3>2. OnlyStream(w) /\ y.pc = "scan" /\ y.lagged = TRUE
      BY <3>1, Shapes DEF OnlyStream, Fields
    <3>3. ~Owed(y)
      <4> HIDE DEF y
      <4> QED
        BY <3>2, Zenon DEF Owed
    <3> QED
      BY <1>1, <3>2, <3>3, Shapes DEF Moves
  <2>2. CASE ScanRing(w) \/ Recovered(w) \/ Unrecovered(w)
    <3>1. ~Owed(x)
      BY <2>2 DEF ScanRing, Recovered, Unrecovered, ViewInv, ClientOK
    <3>2. /\ OnlyStream(w) /\ y.pc \in {"catchup", "live", "collect"}
          /\ y.covered = x.covered /\ y.lagged = x.lagged
      <4>1. CASE \E q : st' = [st EXCEPT ![w].pc = "catchup", ![w].queue = q]
        BY <4>1, Shapes DEF OnlyStream, Fields
      <4>2. CASE \E pc \in {"live", "collect"} : st' = [st EXCEPT ![w].pc = pc]
        BY <4>2, Shapes DEF OnlyStream, Fields
      <4> QED
        BY <2>2, <4>1, <4>2 DEF ScanRing, Recovered, Unrecovered, Goto
    <3>3. ~Owed(y)
      <4> HIDE DEF x, y
      <4> QED
        BY <3>1, <3>2, Zenon DEF Owed
    <3> QED
      BY <1>1, <3>2, <3>3, Shapes DEF Moves
  <2> QED
    BY <2>1, <2>2
<1>3. ClientOK(y, view'[w], log, sent) /\ y.pc \notin Opening
  BY <1>2 DEF ClientOK, Opening
<1> QED
  BY <1>1, <1>2, <1>3, OneStream

Ending(w) ==
  CollectTombstones(w) \/ (\E k \in Keys : YieldTombstone(w, k)) \/ Compacted(w)

\* The tombstones are collected and yielded and the stream ends: what is left of
\* it is the shard it holds on to.
LEMMA EndingEffect ==
  ASSUME GcInv, ViewInv, NEW w \in Watchers, Ending(w)
  PROVE  /\ StillHere /\ used' = used /\ Moves(w)
         /\ st[w].pc \in {"replay", "collect", "tombstones"}
         /\ st'[w].pc \in {"tombstones", "gone"} /\ st'[w].sid = st[w].sid
         /\ \/ st[w].pc = "tombstones" /\ st'[w].cursor = st[w].cursor /\ st'[w].last = st[w].last
            \/ st'[w].cursor = 0 /\ st'[w].last = 0
         /\ view' = view \/ \E k \in Keys : view' = [view EXCEPT ![w] = [view[w] EXCEPT ![k] = 0]]
<1>1. CASE CollectTombstones(w)
  <2>1. PICK a, b : st' = [st EXCEPT ![w] =
          [NoStream EXCEPT !.pc = "tombstones", !.prefix = st[w].prefix, !.sid = st[w].sid,
                           !.stones = a, !.asof = b]]
    BY <1>1 DEF CollectTombstones
  <2> DEFINE x == [NoStream EXCEPT !.pc = "tombstones", !.prefix = st[w].prefix, !.sid = st[w].sid,
                                   !.stones = a, !.asof = b]
  <2>2. /\ DOMAIN x = Fields /\ x.pc = "tombstones" /\ x.sid = st[w].sid
        /\ x.cursor = 0 /\ x.last = 0
    BY DEF NoStream, Fields
  <2> HIDE DEF x
  <2>3. StillHere /\ used' = used /\ view' = view /\ st[w].pc \in {"replay", "collect"}
    BY <1>1 DEF CollectTombstones, writerVars, shardVars, StillHere
  <2>4. st' = [st EXCEPT ![w] = x]
    BY <2>1 DEF x
  <2>5. Moves(w) /\ st'[w] = x
    BY <2>2, <2>3, <2>4, Shapes DEF Moves, OnlyStream
  <2> QED
    BY <2>2, <2>3, <2>5
<1>2. ASSUME NEW k \in Keys, YieldTombstone(w, k)
      PROVE  /\ StillHere /\ used' = used /\ Moves(w)
             /\ st[w].pc = "tombstones" /\ st'[w].pc = "tombstones" /\ st'[w].sid = st[w].sid
             /\ st'[w].cursor = st[w].cursor /\ st'[w].last = st[w].last
             /\ view' = [view EXCEPT ![w] = [view[w] EXCEPT ![k] = 0]]
  <2> DEFINE v == [view[w] EXCEPT ![k] = 0]
  <2>1. /\ StillHere /\ used' = used /\ st[w].pc = "tombstones"
        /\ (\E a : st' = [st EXCEPT ![w].stones = a]) /\ view' = [view EXCEPT ![w] = v]
    BY <1>2 DEF YieldTombstone, writerVars, shardVars, StillHere
  <2>2. DOMAIN v = Keys
    BY Shapes
  <2> HIDE DEF v
  <2>3. /\ OnlyStream(w) /\ st'[w].pc = "tombstones" /\ st'[w].sid = st[w].sid
        /\ st'[w].cursor = st[w].cursor /\ st'[w].last = st[w].last
    BY <2>1, Shapes DEF OnlyStream, Fields
  <2>4. Moves(w)
    BY <2>1, <2>2, <2>3, Shapes DEF Moves
  <2> QED
    BY <2>1, <2>3, <2>4 DEF v
<1>3. CASE Compacted(w)
  <2>1. /\ StillHere /\ used' = used /\ view' = view /\ st[w].pc = "tombstones"
        /\ st' = [st EXCEPT ![w].pc = "gone"]
    BY <1>3 DEF Compacted, Goto, writerVars, shardVars, StillHere
  <2>2. /\ OnlyStream(w) /\ st'[w].pc = "gone" /\ st'[w].sid = st[w].sid
        /\ st'[w].cursor = st[w].cursor /\ st'[w].last = st[w].last
    BY <2>1, Shapes DEF OnlyStream, Fields
  <2> QED
    BY <2>1, <2>2, Shapes DEF Moves
<1> QED
  BY <1>1, <1>2, <1>3 DEF Ending

LEMMA LeaveView ==
  ASSUME GcInv, ViewInv, NEW w \in Watchers, Ending(w) \/ CloseWatch(w)
  PROVE  ViewInv'
<1> DEFINE y == st'[w]
<1>1. StillHere /\ used' = used /\ Moves(w) /\ y.pc \in {"off", "tombstones", "gone"}
  <2>1. CASE Ending(w)
    BY <2>1, EndingEffect
  <2>2. CASE CloseWatch(w)
    <3>1. /\ st' = [st EXCEPT ![w] = NoStream] /\ view' = [view EXCEPT ![w] = StateAt(0)]
          /\ StillHere /\ used' = used
      BY <2>2 DEF CloseWatch, writerVars, StillHere
    <3>2. DOMAIN NoStream = Fields /\ NoStream.pc = "off" /\ DOMAIN StateAt(0) = Keys
      BY DEF NoStream, Fields, StateAt
    <3> QED
      BY <3>1, <3>2, Shapes DEF Moves, OnlyStream
  <2> QED
    BY <2>1, <2>2
<1>2. ClientOK(y, view'[w], log, sent) /\ y.pc \notin Opening
  BY <1>1, NothingOwed
<1> QED
  BY <1>1, <1>2, OneStream

-------------------------------------------------------------------------------
(* The writer.                                                              *)

SameCache == UNCHANGED <<shards, heap, since, entries, overflow, st, view, used>>

\* A commit and a send leave the cache and the streams as they are.
LEMMA LogGrows ==
  ASSUME GcInv, ViewInv, Extends(log', log), sent' \in Nat, sent <= sent', UNCHANGED <<pushed, targets>>,
         targets = None, SameCache, Writing(log', sent', pushed', targets', used'.shards)
  PROVE  ViewInv'
<1>1. /\ Len(log) \in Nat /\ sent \in Nat /\ sent <= Len(log) /\ pushed \in Nat /\ pushed <= Len(log)
  BY WritingTypes DEF ViewInv
<1>2. \A s \in ShardIds : ShardOK(heap[s], since[s], log, sent)
  BY DEF ViewInv, HeapInv
<1>3. ASSUME NEW s \in ShardIds
      PROVE  /\ ShardOK(heap[s], since[s], log', sent')
             /\ RingTop(heap[s]) \in Nat /\ RingTop(heap[s]) <= Len(log)
  <2>1. IsShard(heap[s]) /\ Genuine(log, heap[s].ring, sent + 1)
    BY <1>2 DEF ShardOK
  <2>2. sent + 1 \in Nat /\ sent' + 1 \in Nat /\ sent + 1 <= sent' + 1
    BY <1>1, BothPlusOne, Zenon
  <2>3. Genuine(log', heap[s].ring, sent' + 1)
    BY <2>1, <2>2, GenuineGrown
  <2>4. RingTop(heap[s]) \in Nat /\ RingTop(heap[s]) <= Len(log)
    BY <1>1, <2>1, <2>2, TopFacts
  <2> QED
    BY <1>2, <2>3, <2>4 DEF ShardOK
<1>4. HeapInv'
  BY <1>3 DEF ViewInv, HeapInv, SameCache
<1>5. FloorInv' /\ ViewShape'
  BY DEF ViewInv, FloorInv, ViewShape, SameCache
<1>6. ASSUME NEW p \in AllPrefixes
      PROVE  Mapped(p, heap, since, shards, log', sent', pushed, targets)
  <2> SUFFICES ASSUME shards[p] # None
               PROVE  Holds(log', heap[shards[p]], since[shards[p]], p, pushed)
    BY DEF Mapped
  <2>1. Holds(log, heap[shards[p]], since[shards[p]], p, pushed)
    BY DEF ViewInv, Mapped
  <2> QED
    BY <1>1, <2>1, HoldsGrown
<1>7. ASSUME NEW w \in Watchers PROVE ClientOK(st[w], view[w], log', sent')
  <2> DEFINE x == st[w]
             v == view[w]
  <2>1. ClientOK(x, v, log, sent)
    BY DEF ViewInv
  <2> HIDE DEF x, v
  <2>2. /\ Opened(x, v, log, sent) => Opened(x, v, log', sent')
        /\ Rows(x, log, sent) => Rows(x, log', sent')
        /\ Replaying(x, v, log, sent) => Replaying(x, v, log', sent')
        /\ Following(x, v, log, sent) => Following(x, v, log', sent')
    BY <1>1, StreamGrown
  <2>3. ClientOK(x, v, log', sent')
    BY <2>1, <2>2 DEF ClientOK
  <2> QED
    BY <2>3 DEF x, v
<1>8. ASSUME NEW w \in Watchers, st[w].pc \in Opening
      PROVE  HeldShard(st[w], heap, since, shards, log', pushed, targets, used.shards)
  <2> DEFINE x == st[w]
             sid == x.sid
  <2>1. HeldShard(x, heap, since, shards, log, pushed, targets, used.shards)
    BY <1>8 DEF ViewInv
  <2>2. x.cursor \in 1 .. sent + 1
    BY <1>8 DEF ViewInv, ClientOK, Opened
  <2>3. sid \in ShardIds
    BY <2>1, Shapes DEF HeldShard
  <2>4. x.cursor - 1 \in Nat /\ x.cursor - 1 <= Len(log)
    BY <1>1, <2>2
  <2>5. Holds(log', heap[sid], since[sid], x.prefix, x.cursor - 1)
    BY <2>1, <2>4, HoldsGrown DEF HeldShard
  <2>6. Holds(log', heap[sid], since[sid], x.prefix, RingTop(heap[sid]))
    BY <1>3, <2>1, <2>3, HoldsGrown DEF HeldShard
  <2> QED
    BY <2>1, <2>5, <2>6 DEF HeldShard
<1> QED
  BY <1>4, <1>5, <1>6, <1>7, <1>8 DEF ViewInv, SameCache

\* A batch continues the revisions of the log, and only its first may be a put.
Batch(b) ==
  /\ b \in Seq(EventSet) /\ Len(b) \in Nat
  /\ \A i \in 1 .. Len(b) : b[i].rev = Len(log) + i
  /\ \A i \in 1 .. Len(b) : i > 1 => b[i].op = "delete"

LEMMA CommitView ==
  ASSUME GcInv, ViewInv, NEW b, Batch(b), Commit(b)
  PROVE  ViewInv'
<1>1. Writing(log, sent, pushed, targets, used.shards)
  BY DEF ViewInv
<1>2. /\ Len(log) \in Nat /\ sent = Len(log) /\ pushed = sent /\ targets = None
      /\ log \in Seq(EventSet)
  BY <1>1 DEF Commit, Idle, Writing
<1>3. b \in Seq(EventSet) /\ Len(b) \in Nat
  BY DEF Batch
<1>4. log' = log \o b /\ Len(log) + Len(b) <= MaxRev
  BY DEF Commit
<1>5. /\ log' \in Seq(EventSet) /\ Len(log') = Len(log) + Len(b)
      /\ \A i \in 1 .. Len(log) : log'[i] = log[i]
      /\ \A i \in 1 .. Len(log') : i > Len(log) => log'[i] = b[i - Len(log)]
  BY <1>2, <1>3, <1>4
<1>6. Extends(log', log)
  BY <1>2, <1>3, <1>5 DEF Extends
<1>7. SameCache /\ UNCHANGED <<sent, pushed, targets>>
  BY DEF Commit, shardVars, SameCache
<1>8. \A i \in 1 .. Len(log') : log'[i].rev = i
  <2> SUFFICES ASSUME NEW i \in 1 .. Len(log') PROVE log'[i].rev = i
    OBVIOUS
  <2>1. CASE i <= Len(log)
    BY <2>1, <1>1, <1>2, <1>5 DEF Writing
  <2>2. CASE i > Len(log)
    <3>1. i - Len(log) \in 1 .. Len(b)
      BY <2>2, <1>2, <1>3, <1>5
    <3>2. b[i - Len(log)].rev = Len(log) + (i - Len(log))
      BY <3>1 DEF Batch
    <3> QED
      BY <2>2, <3>2, <1>2, <1>5
  <2> QED
    BY <2>1, <2>2, <1>2
<1>9. \A i \in 1 .. Len(log') : i > sent + 1 => log'[i].op = "delete"
  <2> SUFFICES ASSUME NEW i \in 1 .. Len(log'), i > sent + 1 PROVE log'[i].op = "delete"
    OBVIOUS
  <2>1. i - Len(log) \in 1 .. Len(b) /\ i - Len(log) > 1 /\ log'[i] = b[i - Len(log)]
    BY <1>2, <1>3, <1>5
  <2> QED
    BY <2>1 DEF Batch
<1>10. Writing(log', sent', pushed', targets', used'.shards)
  <2>1. Len(log') \in Nat /\ Len(log') <= MaxRev /\ sent \in Nat /\ sent <= Len(log')
    BY <1>2, <1>3, <1>4, <1>5
  <2>2. pushed' \in {sent', sent' + 1} /\ pushed' <= Len(log') /\ targets' = None /\ sent' \in Nat
    BY <1>2, <1>7, <2>1
  <2>3. \A i \in 1 .. Len(log') : i > sent' + 1 => log'[i].op = "delete"
    BY <1>7, <1>9
  <2> QED
    BY <1>5, <1>8, <2>1, <2>2, <2>3 DEF Writing
<1> QED
  BY <1>2, <1>6, <1>7, <1>10, LogGrows

LEMMA SendView ==
  ASSUME GcInv, ViewInv, Send
  PROVE  ViewInv'
<1>1. Writing(log, sent, pushed, targets, used.shards)
  BY DEF ViewInv
<1>2. /\ log' = log /\ pushed' = pushed /\ targets' = targets /\ sent' = sent + 1 /\ pushed = sent + 1
  BY DEF Send
<1>3. SameCache
  BY DEF Send, SameCache, shardVars
<1>4. Len(log) \in Nat /\ sent \in Nat /\ pushed <= Len(log)
  BY <1>1, WritingTypes
<1>5. targets = None
  BY <1>1, <1>2, <1>4 DEF Writing
<1>6. Writing(log', sent', pushed', targets', used'.shards)
  BY <1>1, <1>2, <1>3, <1>4, <1>5 DEF Writing, SameCache
<1>7. Extends(log', log)
  BY <1>2, <1>4 DEF Extends
<1> QED
  BY <1>2, <1>3, <1>4, <1>5, <1>6, <1>7, LogGrows

LEMMA OneEventBatch ==
  ASSUME ViewInv, NEW k \in Keys, NEW op \in {"put", "delete"}
  PROVE  Batch(<<[key |-> k, rev |-> Len(log) + 1, op |-> op]>>)
<1> DEFINE e == [key |-> k, rev |-> Len(log) + 1, op |-> op]
<1>1. Len(log) \in Nat
  BY WritingTypes DEF ViewInv
<1>2. e \in EventSet /\ e.rev = Len(log) + 1
  BY <1>1 DEF EventSet
<1> HIDE DEF e
<1>3. <<e>> \in Seq(EventSet) /\ Len(<<e>>) = 1 /\ <<e>>[1] = e
  BY <1>2
<1>4. \A i \in 1 .. 1 : i = 1
  OBVIOUS
<1>5. Batch(<<e>>)
  BY <1>2, <1>3, <1>4 DEF Batch
<1> QED
  BY <1>5 DEF e

LEMMA NamespaceBatch ==
  ASSUME ViewInv, NEW doomed \in SUBSET Keys, NEW order \in SetToSeqs(doomed)
  PROVE  Batch([i \in 1 .. Len(order) |->
                 [key |-> order[i], rev |-> Len(log) + i, op |-> "delete"]])
<1> DEFINE n == Cardinality(doomed)
           b == [i \in 1 .. n |-> [key |-> order[i], rev |-> Len(log) + i, op |-> "delete"]]
<1>1. Len(log) \in Nat
  BY WritingTypes DEF ViewInv
<1>2. n \in Nat
  BY FS_Subset, FS_CardinalityType, WatchConstants
<1> HIDE DEF n
<1>3. order \in [1 .. n -> doomed]
  BY DEF SetToSeqs, n
<1>4. Len(order) = n
  BY <1>2, <1>3
<1>5. \A i \in 1 .. n : /\ b[i] \in EventSet /\ b[i].rev = Len(log) + i /\ b[i].op = "delete"
  BY <1>1, <1>2, <1>3 DEF EventSet
<1>6. DOMAIN b = 1 .. n /\ b = [i \in 1 .. n |-> b[i]]
  OBVIOUS
<1> HIDE DEF b
<1>7. b \in Seq(EventSet) /\ Len(b) = n
  BY <1>2, <1>5, <1>6
<1>8. Batch(b)
  BY <1>2, <1>5, <1>7 DEF Batch
<1> QED
  BY <1>4, <1>8 DEF b

\* The shards found under the read lock are those of the event's prefixes.
LEMMA MatchView ==
  ASSUME GcInv, ViewInv, MatchShards
  PROVE  ViewInv'
<1> DEFINE k == log[sent + 1].key
           found == {shards[p] : p \in MatchingShards(k)}
<1>1. Writing(log, sent, pushed, targets, used.shards)
  BY DEF ViewInv
<1>2. targets' = found /\ pushed = sent /\ sent < Len(log) /\ UNCHANGED <<log, pushed, sent>>
  BY DEF MatchShards
<1>3. SameCache
  BY DEF MatchShards, shardVars, SameCache
<1>4. /\ Len(log) \in Nat /\ sent \in Nat /\ pushed \in Nat /\ sent + 1 \in 1 .. Len(log)
      /\ \A i \in 1 .. Len(log) : log[i] \in EventSet
  BY <1>1, <1>2, WritingTypes
<1>5. k \in Keys
  BY <1>4 DEF EventSet
<1>6. \A s \in found : \E q \in AllPrefixes : shards[q] # None /\ shards[q] = s
  BY <1>5 DEF MatchingShards, AllPrefixes
<1>7. \A p \in AllPrefixes : shards[p] # None /\ k \in Under(p) => shards[p] \in found
  BY PrefixFacts DEF MatchingShards
<1> HIDE DEF found, k
<1>8. found \subseteq 1 .. used.shards
  BY <1>6 DEF GcInv, OwnShard
<1>9. Writing(log, sent, pushed, targets, used.shards)'
  BY <1>1, <1>2, <1>3, <1>8 DEF Writing, SameCache
<1>10. HeapInv' /\ FloorInv' /\ ViewShape'
  BY <1>2, <1>3 DEF ViewInv, HeapInv, FloorInv, ViewShape, SameCache
<1>11. ASSUME NEW p \in AllPrefixes
       PROVE  Mapped(p, heap, since, shards, log, sent, pushed, found)
  BY <1>7 DEF ViewInv, Mapped, k
<1>12. ASSUME NEW w \in Watchers, st[w].pc \in Opening
       PROVE  HeldShard(st[w], heap, since, shards, log, pushed, found, used.shards)
  <2> DEFINE x == st[w]
             sid == x.sid
  <2>1. HeldShard(x, heap, since, shards, log, pushed, targets, used.shards)
    BY <1>12 DEF ViewInv
  <2>2. x.prefix \in AllPrefixes
    BY <1>12 DEF ViewInv, ClientOK, Opened
  <2>3. ASSUME sid \in found PROVE Holds(log, heap[sid], since[sid], x.prefix, pushed)
    <3>1. PICK q \in AllPrefixes : shards[q] # None /\ shards[q] = sid
      BY <1>6, <2>3
    <3>2. q \in {x.prefix, Parent(x.prefix)}
      BY <2>1, <3>1 DEF HeldShard
    <3>3. Under(x.prefix) \subseteq Under(q)
      BY <2>2, <3>2, PrefixFacts
    <3>4. Holds(log, heap[sid], since[sid], q, pushed)
      BY <3>1 DEF ViewInv, Mapped
    <3>5. heap[sid].horizon \in Nat /\ since[sid] \in Nat
      <4>1. sid \in ShardIds
        BY <2>1, Shapes DEF HeldShard
      <4> QED
        BY <4>1, NeverIsNat DEF ViewInv, HeapInv, ShardOK, IsShard
    <3> QED
      BY <3>3, <3>4, HoldsNarrower, Zenon
  <2> QED
    BY <2>1, <2>3 DEF HeldShard
<1>13. \A w \in Watchers : ClientOK(st[w], view[w], log, sent)
  BY DEF ViewInv
<1> QED
  BY <1>2, <1>3, <1>9, <1>10, <1>11, <1>12, <1>13 DEF ViewInv, SameCache

-------------------------------------------------------------------------------
(* Pushes and new shards.                                                   *)

\* Shard t with its history complete after d still has what s had after c, and
\* the event e.
Keeps(t, d, s, c, e, L) ==
  \A p : \A m \in Nat : Holds(L, s, c, p, m) =>
    Holds(L, t, d, p, m) /\ (m + 1 = e.rev => Holds(L, t, d, p, e.rev))

\* A push in revision order keeps a shard complete; one out of order voids the
\* claim (d is Never).
LEMMA PushKeeps ==
  ASSUME NEW L, Len(L) \in Nat, Len(L) < Never, NEW n \in Nat,
         NEW s, NEW c, ShardOK(s, c, L, n),
         NEW e \in EventSet, e.rev \in 1 .. n + 1, e.rev <= Len(L), e = L[e.rev],
         NEW t, t = PushIntoShard(s, e), NEW d \in 0 .. Never, c <= d,
         d = Never \/ \A j \in DOMAIN s.ring : s.ring[j].rev <= e.rev
  PROVE  ShardOK(t, d, L, n) /\ Keeps(t, d, s, c, e, L)
<1>1. IsShard(s) /\ Genuine(L, s.ring, n + 1) /\ c \in 0 .. Never /\ (c # Never => InOrder(s.ring))
  BY DEF ShardOK
<1>2. AfterPush(t, s, e)
  BY <1>1, PushEffect
<1>3. IsShard(t) /\ Genuine(L, t.ring, n + 1)
  <2>1. IsShard(t)
    BY <1>2 DEF AfterPush
  <2>2. Genuine(L, t.ring, n + 1)
    BY <1>1, <1>2, GenuinePush, Zenon
  <2> QED BY <2>1, <2>2
<1>4. c \in Nat /\ d \in Nat /\ Never \in Nat /\ t.horizon \in Nat
  BY <1>1, <1>3, NeverIsNat DEF IsShard
<1>5. CASE d = Never
  <2>1. \A p : \A m \in Nat : Holds(L, t, d, p, m)
    BY <1>4, <1>5, HoldsNothing
  <2>2. e.rev \in Nat
    BY DEF EventSet
  <2>3. Keeps(t, d, s, c, e, L)
    BY <2>1, <2>2 DEF Keeps
  <2> QED
    BY <1>3, <1>5, <2>3 DEF ShardOK
<1>6. CASE d # Never
  <2>1. InOrder(s.ring) /\ \A j \in DOMAIN s.ring : s.ring[j].rev <= e.rev
    BY <1>1, <1>4, <1>6
  <2>2. InOrder(t.ring)
    BY <1>2, <2>1 DEF AfterPush
  <2>3. ASSUME NEW p, NEW m \in Nat, Holds(L, s, c, p, m)
        PROVE  Holds(L, t, d, p, m) /\ (m + 1 = e.rev => Holds(L, t, d, p, e.rev))
    <3>1. Holds(L, t, c, p, m) /\ (m + 1 = e.rev => Holds(L, t, c, p, e.rev))
      BY <1>1, <1>2, <2>1, <2>3, HoldsPush
    <3>3. Holds(L, t, d, p, m)
      BY <1>4, <3>1, HoldsLater, Zenon
    <3>4. ASSUME m + 1 = e.rev PROVE Holds(L, t, d, p, e.rev)
      <4>1. Holds(L, t, c, p, e.rev)
        BY <3>1, <3>4
      <4> QED
        BY <1>4, <4>1, HoldsLater, Zenon
    <3> QED
      BY <3>3, <3>4
  <2>4. Keeps(t, d, s, c, e, L)
    BY <2>3 DEF Keeps
  <2> QED
    BY <1>3, <2>2, <2>4 DEF ShardOK
<1> QED
  BY <1>5, <1>6

\* get_or_create_shard: an identity no stream and no other prefix has.
LEMMA Seeded ==
  ASSUME GcInv, ViewInv, NEW p \in AllPrefixes, NEW shard, SeedShard(p, shard),
         UNCHANGED <<log, sent, overflow>>, used'.shards = used.shards + 1,
         ShardOK(shard, since'[NextShard], log, sent),
         pushed' \in Nat, pushed' <= since'[NextShard], targets' # None => since'[NextShard] > sent,
         \A q \in AllPrefixes \ {p} : Mapped(q, heap, since, shards, log, sent, pushed', targets')
  PROVE  /\ HeapInv' /\ FloorInv'
         /\ \A q \in AllPrefixes : Mapped(q, heap', since', shards', log', sent', pushed', targets')
         /\ \A x : HeldShard(x, heap, since, shards, log, pushed', targets', used.shards)
                   => HeldShard(x, heap', since', shards', log', pushed', targets', used'.shards)
<1> DEFINE new == NextShard
           c == IF targets = None THEN pushed ELSE pushed + 1
<1>1. /\ shards' = [shards EXCEPT ![p] = new] /\ heap' = [heap EXCEPT ![new] = shard]
      /\ since' = [since EXCEPT ![new] = c] /\ entries' = [entries EXCEPT ![p] = 0]
      /\ new = used.shards + 1 /\ new <= MaxShards
  BY DEF SeedShard, NextShard
<1> HIDE DEF new, c
<1>2. new \in ShardIds /\ used.shards \in Nat /\ used'.shards \in 0 .. MaxShards
  BY <1>1, Shapes DEF ShardIds
<1>3. /\ DOMAIN heap' = ShardIds /\ DOMAIN since' = ShardIds
      /\ heap'[new] = shard
      /\ \A s \in ShardIds \ {new} : heap'[s] = heap[s] /\ since'[s] = since[s]
      /\ shards'[p] = new /\ \A q \in AllPrefixes \ {p} : shards'[q] = shards[q]
  BY <1>1, <1>2, Shapes
<1>4. \A s \in 1 .. used.shards : s \in ShardIds \ {new}
  BY <1>1, <1>2, Shapes
<1>5. ShardOK(shard, since'[new], log, sent) /\ pushed' <= since'[new]
      /\ (targets' # None => since'[new] > sent)
  BY DEF new
<1>6. HeapInv'
  <2>1. ASSUME NEW s \in ShardIds PROVE ShardOK(heap'[s], since'[s], log', sent')
    <3>1. CASE s = new
      BY <3>1, <1>3, <1>5
    <3>2. CASE s # new
      BY <3>2, <1>3 DEF ViewInv, HeapInv
    <3> QED BY <3>1, <3>2
  <2> QED
    BY <1>2, <1>3, <2>1 DEF HeapInv
<1>7. FloorInv'
  BY <1>1 DEF ViewInv, FloorInv
<1>8. ASSUME NEW q \in AllPrefixes
      PROVE  Mapped(q, heap', since', shards', log', sent', pushed', targets')
  <2>1. CASE q = p
    <3>1. Len(log) \in Nat /\ since'[new] \in Nat
      BY <1>5, WritingTypes, NeverIsNat DEF ViewInv, ShardOK
    <3>2. Holds(log, heap'[new], since'[new], p, pushed')
      BY <3>1, <1>5, HoldsNothing
    <3> QED
      BY <2>1, <3>2, <1>3, <1>5 DEF Mapped
  <2>2. CASE q # p
    <3>1. Mapped(q, heap, since, shards, log, sent, pushed', targets') /\ shards'[q] = shards[q]
      BY <2>2, <1>3
    <3>2. shards[q] # None => heap'[shards[q]] = heap[shards[q]] /\ since'[shards[q]] = since[shards[q]]
      BY <1>3, <1>4 DEF GcInv, OwnShard
    <3> QED
      BY <3>1, <3>2 DEF Mapped
  <2> QED BY <2>1, <2>2
<1>9. ASSUME NEW x, HeldShard(x, heap, since, shards, log, pushed', targets', used.shards)
      PROVE  HeldShard(x, heap', since', shards', log', pushed', targets', used'.shards)
  <2>1. x.sid \in 1 .. used.shards
    BY <1>9 DEF HeldShard
  <2>2. /\ x.sid \in 1 .. used'.shards /\ x.sid # new
        /\ heap'[x.sid] = heap[x.sid] /\ since'[x.sid] = since[x.sid]
    BY <2>1, <1>2, <1>3, <1>4
  <2>3. ASSUME NEW q \in AllPrefixes, shards'[q] # None, shards'[q] = x.sid
        PROVE  q \in {x.prefix, Parent(x.prefix)}
    BY <2>2, <2>3, <1>3, <1>9 DEF HeldShard
  <2> QED
    BY <1>9, <2>2, <2>3 DEF HeldShard
<1> QED
  BY <1>6, <1>7, <1>8, <1>9

LEMMA NewShardOK ==
  ASSUME NEW f \in Nat, NEW L, NEW n, NEW c \in 0 .. Never
  PROVE  ShardOK(NewShard(f), c, L, n) /\ RingTop(NewShard(f)) = 0
<1>1. NewShard(f).ring = <<>> /\ NewShard(f).horizon = f /\ DOMAIN NewShard(f) = ShardFields
  BY DEF NewShard, ShardFields
<1>2. <<>> \in Seq(EventSet) /\ DOMAIN <<>> = {}
  OBVIOUS
<1> QED
  BY <1>1, <1>2 DEF ShardOK, IsShard, Genuine, InOrder, RingTop

LEMMA FloorIsNat ==
  ASSUME ViewInv, NEW p \in AllPrefixes
  PROVE  FindReclaimedHorizon(p) \in Nat
<1>1. Parent(p) \in AllPrefixes
  BY PrefixFacts
<1> QED
  BY <1>1 DEF ViewInv, FloorInv, FindReclaimedHorizon

LEMMA CreateView ==
  ASSUME GcInv, ViewInv, NEW w \in Watchers, CreateShard(w), shards[st[w].prefix] = None
  PROVE  ViewInv'
<1> DEFINE x == st[w]
           y == st'[w]
           p == x.prefix
           new == NextShard
           shard == NewShard(FindReclaimedHorizon(p))
           c == since'[new]
<1>1. /\ SeedShard(p, shard) /\ st' = [st EXCEPT ![w].pc = "list", ![w].sid = new]
      /\ used' = [used EXCEPT !.shards = @ + 1] /\ x.pc = "create"
      /\ UNCHANGED <<log, sent, pushed, targets, overflow, view>>
  BY DEF CreateShard, writerVars
<1>2. Opened(x, view[w], log, sent) /\ p \in AllPrefixes /\ x.cursor \in 1 .. sent + 1
  BY <1>1 DEF ViewInv, ClientOK, Opened
<1>3. /\ Writing(log, sent, pushed, targets, used.shards)
      /\ Len(log) \in Nat /\ sent \in Nat /\ pushed \in Nat /\ sent <= pushed /\ pushed < Never
      /\ Never \in Nat
  BY WritingTypes, NeverIsNat DEF ViewInv
<1>4. used'.shards = used.shards + 1 /\ new = used.shards + 1 /\ new \in ShardIds /\ used.shards \in Nat
  BY <1>1, Shapes DEF Counters, NextShard, SeedShard, ShardIds
<1>5. c = IF targets = None THEN pushed ELSE pushed + 1
  BY <1>1, <1>4, Shapes DEF SeedShard
<1>6. c \in 0 .. Never /\ c \in Nat /\ pushed <= c /\ (targets # None => c > sent)
  BY <1>3, <1>5
<1>7. ShardOK(shard, c, log, sent) /\ RingTop(shard) = 0
  BY <1>2, <1>6, FloorIsNat, NewShardOK
<1>8. heap'[new] = shard
  BY <1>1, <1>4, Shapes DEF SeedShard
<1> HIDE DEF shard, c
<1>9. /\ HeapInv' /\ FloorInv'
      /\ \A q \in AllPrefixes : Mapped(q, heap', since', shards', log', sent', pushed', targets')
      /\ \A z : HeldShard(z, heap, since, shards, log, pushed', targets', used.shards)
                => HeldShard(z, heap', since', shards', log', pushed', targets', used'.shards)
  <2>1. \A q \in AllPrefixes : Mapped(q, heap, since, shards, log, sent, pushed', targets')
    BY <1>1 DEF ViewInv
  <2>2. pushed' \in Nat /\ pushed' <= since'[NextShard] /\ (targets' # None => since'[NextShard] > sent)
        /\ ShardOK(shard, since'[NextShard], log, sent)
    BY <1>1, <1>3, <1>6, <1>7 DEF c
  <2> QED
    BY <1>1, <1>2, <1>4, <2>1, <2>2, Seeded
<1>10. /\ OnlyStream(w) /\ SameClient(y, x) /\ y.pc = "list" /\ y.sid = new
  <2> HIDE DEF new
  <2> QED
    BY <1>1, Shapes DEF OnlyStream, Fields, SameClient
<1>11. Opened(y, view[w], log, sent)
  BY <1>2, <1>10, SameClientOpened
<1>12. ClientOK(y, view[w], log, sent)
  BY <1>10, <1>11 DEF ClientOK
<1>13. HeldShard(y, heap', since', shards', log, pushed, targets, used'.shards)
  <2>1. ASSUME NEW q \in AllPrefixes, shards'[q] # None, shards'[q] = new PROVE q = p
    <3> SUFFICES ASSUME q # p PROVE FALSE
      OBVIOUS
    <3>1. shards'[q] = shards[q]
      BY <1>1, Shapes DEF SeedShard
    <3> QED
      <4>1. new \in 1 .. used.shards
        BY <2>1, <3>1 DEF GcInv, OwnShard
      <4> HIDE DEF new
      <4> QED
        BY <4>1, <1>4
  <2>2. x.cursor - 1 \in Nat /\ x.cursor - 1 <= c /\ 0 <= c
    BY <1>2, <1>3, <1>6
  <2>3. /\ Holds(log, shard, c, p, x.cursor - 1) /\ Holds(log, shard, c, p, 0)
        /\ Holds(log, shard, c, p, pushed)
    BY <1>3, <1>6, <2>2, HoldsNothing
  <2>4. new \in 1 .. used'.shards
    BY <1>4
  <2>5. y.sid = new /\ y.prefix = p /\ y.cursor = x.cursor /\ heap'[y.sid] = shard
        /\ since'[y.sid] = c /\ RingTop(shard) = 0
    BY <1>7, <1>8, <1>10 DEF SameClient, c
  <2> HIDE DEF new, p, y, x
  <2> QED
    BY <2>1, <2>3, <2>4, <2>5 DEF HeldShard
<1>14. Writing(log', sent', pushed', targets', used'.shards)
  BY <1>1, <1>3, <1>4 DEF Writing
<1>15. ASSUME NEW v \in Watchers
       PROVE  /\ ClientOK(st'[v], view'[v], log', sent')
              /\ st'[v].pc \in Opening =>
                   HeldShard(st'[v], heap', since', shards', log', pushed', targets', used'.shards)
  <2>1. CASE v = w
    BY <2>1, <1>1, <1>12, <1>13
  <2>2. CASE v # w
    <3>1. st'[v] = st[v]
      BY <2>2, <1>10 DEF OnlyStream
    <3>2. /\ ClientOK(st[v], view[v], log, sent)
          /\ st[v].pc \in Opening =>
               HeldShard(st[v], heap, since, shards, log, pushed', targets', used.shards)
      BY <1>1 DEF ViewInv
    <3> QED
      BY <1>1, <1>9, <3>1, <3>2
  <2> QED BY <2>1, <2>2
<1>16. ViewShape'
  BY <1>1 DEF ViewInv, ViewShape
<1> QED
  BY <1>9, <1>14, <1>15, <1>16 DEF ViewInv

\* The event after `sent' goes into the shards S: those it was matched with, or
\* the root's shard that has come up since.
LEMMA PushedInto ==
  ASSUME GcInv, ViewInv, targets # None, NEW S, targets \subseteq S, S \subseteq ShardIds,
         \A s \in S : s \in targets \/ \E q \in AllPrefixes : shards[q] # None /\ shards[q] = s,
         heap' = [s \in ShardIds |-> IF s \in S THEN PushIntoShard(heap[s], log[sent + 1])
                                     ELSE heap[s]],
         pushed' = sent + 1, targets' = None,
         UNCHANGED <<log, sent, shards, since, entries, overflow, used, st, view>>
  PROVE  ViewInv'
<1> DEFINE e == log[sent + 1]
<1>1. Writing(log, sent, pushed, targets, used.shards)
  BY DEF ViewInv
<1>2. /\ Len(log) \in Nat /\ Len(log) < Never /\ sent \in Nat /\ pushed = sent
      /\ sent + 1 <= Len(log) /\ sent + 1 \in 1 .. sent + 1
      /\ e \in EventSet /\ e.rev = sent + 1 /\ e = log[e.rev]
  <2>1. /\ Len(log) \in Nat /\ Len(log) < Never /\ sent \in Nat /\ pushed = sent /\ sent < Len(log)
        /\ \A i \in 1 .. Len(log) : log[i] \in EventSet /\ log[i].rev = i
    BY <1>1, WritingTypes DEF Writing
  <2> QED
    BY <2>1
<1> HIDE DEF e
<1>3. ASSUME NEW s \in S
      PROVE  /\ heap'[s] = PushIntoShard(heap[s], e)
             /\ ShardOK(heap'[s], since[s], log, sent)
             /\ Keeps(heap'[s], since[s], heap[s], since[s], e, log)
             /\ RingTop(heap'[s]) = e.rev
  <2>1. s \in ShardIds /\ heap'[s] = PushIntoShard(heap[s], e)
    BY DEF e
  <2>2. ShardOK(heap[s], since[s], log, sent)
    BY <2>1 DEF ViewInv, HeapInv
  <2>3. IsShard(heap[s]) /\ since[s] \in 0 .. Never /\ since[s] <= since[s]
        /\ \A j \in DOMAIN heap[s].ring : heap[s].ring[j].rev <= e.rev
    BY <2>2, <1>2, NeverIsNat DEF ShardOK, Genuine
  <2>4. ShardOK(heap'[s], since[s], log, sent) /\ Keeps(heap'[s], since[s], heap[s], since[s], e, log)
    BY <2>1, <2>2, <2>3, <1>2, PushKeeps
  <2>5. AfterPush(heap'[s], heap[s], e)
    BY <2>1, <2>3, <1>2, PushEffect
  <2>6. RingTop(heap'[s]) = e.rev
    BY <2>5, TopPush
  <2> QED
    BY <2>1, <2>4, <2>6
<1>4. \A s \in ShardIds \ S : heap'[s] = heap[s]
  OBVIOUS
<1>5. HeapInv'
  <2>1. ASSUME NEW s \in ShardIds PROVE ShardOK(heap'[s], since[s], log, sent)
    BY <1>3, <1>4 DEF ViewInv, HeapInv
  <2>2. DOMAIN heap' = ShardIds
    OBVIOUS
  <2> QED
    BY <2>1, <2>2 DEF ViewInv, HeapInv
<1>6. FloorInv' /\ ViewShape'
  BY DEF ViewInv, FloorInv, ViewShape
<1>7. ASSUME NEW p \in AllPrefixes
      PROVE  Mapped(p, heap', since, shards, log, sent, sent + 1, None)
  <2> SUFFICES ASSUME shards[p] # None
               PROVE  Holds(log, heap'[shards[p]], since[shards[p]], p, sent + 1)
    BY DEF Mapped
  <2> DEFINE s == shards[p]
  <2>1. s \in ShardIds
    BY Shapes DEF GcInv, OwnShard
  <2>2. /\ Holds(log, heap[s], since[s], p, sent)
        /\ s \notin targets /\ e.key \in Under(p) => since[s] > sent
    BY <1>2 DEF ViewInv, Mapped, e
  <2> HIDE DEF s
  <2>3. CASE s \in S
    <3>1. Keeps(heap'[s], since[s], heap[s], since[s], e, log)
      BY <2>3, <1>3
    <3>2. Holds(log, heap'[s], since[s], p, e.rev)
      BY <2>2, <3>1, <1>2 DEF Keeps
    <3> QED
      BY <3>2, <1>2 DEF s
  <2>4. CASE s \notin S
    <3>1. heap'[s] = heap[s] /\ s \notin targets
      BY <2>1, <2>4, <1>4
    <3>2. since[s] \in Nat
      BY <2>1, NeverIsNat DEF ViewInv, HeapInv, ShardOK
    <3>3. ASSUME NEW r \in 1 .. Len(log), since[s] < r, heap[s].horizon < r, r <= sent + 1,
                 log[r].key \in Under(p)
          PROVE  \E i \in DOMAIN heap[s].ring : heap[s].ring[i].rev = r
      <4>1. r # sent + 1
        BY <3>1, <3>2, <3>3, <2>2, <1>2 DEF e
      <4>2. r <= sent
        BY <3>3, <4>1, <1>2
      <4> QED
        BY <4>2, <3>3, <2>2 DEF Holds
    <3> QED
      BY <3>1, <3>3 DEF Holds, s
  <2> QED
    BY <2>3, <2>4 DEF s
<1>8. ASSUME NEW w \in Watchers, st[w].pc \in Opening
      PROVE  HeldShard(st[w], heap', since, shards, log, sent + 1, None, used.shards)
  <2> DEFINE x == st[w]
             s == x.sid
  <2>1. HeldShard(x, heap, since, shards, log, sent, targets, used.shards)
    BY <1>2, <1>8 DEF ViewInv
  <2>2. x.prefix \in AllPrefixes /\ x.cursor \in 1 .. sent + 1
    BY <1>8 DEF ViewInv, ClientOK, Opened
  <2>3. s \in ShardIds /\ x.cursor - 1 \in Nat
    BY <2>1, <2>2, <1>2, Shapes DEF HeldShard
  <2>4. CASE s \in S
    <3>1. Holds(log, heap[s], since[s], x.prefix, sent)
      <4>1. CASE s \in targets
        BY <4>1, <2>1 DEF HeldShard
      <4>2. CASE s \notin targets
        <5>1. PICK q \in AllPrefixes : shards[q] # None /\ shards[q] = s
          BY <2>4, <4>2
        <5>2. q \in {x.prefix, Parent(x.prefix)}
          BY <2>1, <5>1 DEF HeldShard
        <5>3. Under(x.prefix) \subseteq Under(q)
          BY <2>2, <5>2, PrefixFacts
        <5>4. Holds(log, heap[s], since[s], q, sent)
          BY <5>1, <1>2 DEF ViewInv, Mapped
        <5>5. heap[s].horizon \in Nat /\ since[s] \in Nat
          BY <2>3, NeverIsNat DEF ViewInv, HeapInv, ShardOK, IsShard
        <5> QED
          BY <5>3, <5>4, HoldsNarrower, Zenon
      <4> QED BY <4>1, <4>2
    <3>2. Holds(log, heap[s], since[s], x.prefix, x.cursor - 1)
      BY <2>1 DEF HeldShard
    <3>3. Keeps(heap'[s], since[s], heap[s], since[s], e, log) /\ RingTop(heap'[s]) = sent + 1
      BY <2>4, <1>2, <1>3
    <3>4. Holds(log, heap'[s], since[s], x.prefix, x.cursor - 1)
      BY <2>3, <3>2, <3>3 DEF Keeps
    <3>5. Holds(log, heap'[s], since[s], x.prefix, sent + 1)
      BY <1>2, <3>1, <3>3 DEF Keeps
    <3> QED
      BY <2>1, <3>3, <3>4, <3>5 DEF HeldShard
  <2>5. CASE s \notin S
    BY <2>1, <2>3, <2>5, <1>4 DEF HeldShard
  <2> QED BY <2>4, <2>5
<1>9. Writing(log, sent, sent + 1, None, used.shards)
  BY <1>1, <1>2 DEF Writing
<1>10. \A w \in Watchers : ClientOK(st[w], view[w], log, sent)
  BY DEF ViewInv
<1> QED
  BY <1>5, <1>6, <1>7, <1>8, <1>9, <1>10 DEF ViewInv

\* A delete that no shard would remember makes the root's shard.
LEMMA PushedNew ==
  ASSUME GcInv, ViewInv, NEW root \in AllPrefixes, targets = {}, targets # None, targets' = None,
         pushed' = sent + 1, used'.shards = used.shards + 1,
         SeedShard(root, PushIntoShard(NewShard(FindReclaimedHorizon(root)), log[sent + 1])),
         UNCHANGED <<log, sent, overflow, st, view>>
  PROVE  ViewInv'
<1> DEFINE e == log[sent + 1]
           shard == PushIntoShard(NewShard(FindReclaimedHorizon(root)), e)
           c == since'[NextShard]
<1>1. Writing(log, sent, pushed, targets, used.shards)
  BY DEF ViewInv
<1>2. /\ Len(log) \in Nat /\ Len(log) < Never /\ sent \in Nat /\ pushed = sent
      /\ sent + 1 <= Len(log) /\ sent + 1 \in 1 .. sent + 1
      /\ e \in EventSet /\ e.rev = sent + 1 /\ e = log[e.rev] /\ Never \in Nat
  <2>1. /\ Len(log) \in Nat /\ Len(log) < Never /\ sent \in Nat /\ pushed = sent /\ sent < Len(log)
        /\ (\A i \in 1 .. Len(log) : log[i] \in EventSet /\ log[i].rev = i) /\ Never \in Nat
    BY <1>1, WritingTypes, NeverIsNat DEF Writing
  <2> QED
    BY <2>1
<1>3. c = sent + 1
  <2>1. NextShard \in ShardIds
    BY Shapes DEF SeedShard, NextShard, ShardIds
  <2> QED
    BY <2>1, <1>2, Shapes DEF SeedShard
<1>4. c \in 0 .. Never /\ c <= c
  BY <1>2, <1>3
<1>5. ShardOK(shard, c, log, sent)
  <2> DEFINE fresh == NewShard(FindReclaimedHorizon(root))
  <2>1. ShardOK(fresh, c, log, sent)
    BY <1>4, FloorIsNat, NewShardOK
  <2>2. \A j \in DOMAIN fresh.ring : fresh.ring[j].rev <= e.rev
    BY DEF NewShard
  <2> HIDE DEF fresh, e, c
  <2>3. PushIntoShard(fresh, e) = PushIntoShard(fresh, e)
    OBVIOUS
  <2>4. ShardOK(PushIntoShard(fresh, e), c, log, sent)
    BY <1>2, <1>4, <2>1, <2>2, PushKeeps
  <2> QED
    BY <2>4 DEF fresh
<1> HIDE DEF shard
<1>6. ASSUME NEW q \in AllPrefixes \ {root}
      PROVE  Mapped(q, heap, since, shards, log, sent, sent + 1, None)
  <2> DEFINE s == shards[q]
  <2> SUFFICES ASSUME s # None PROVE Holds(log, heap[s], since[s], q, sent + 1)
    BY DEF Mapped
  <2>1. Holds(log, heap[s], since[s], q, sent) /\ (e.key \in Under(q) => since[s] > sent)
    BY <1>2 DEF ViewInv, Mapped
  <2>2. s \in ShardIds
    BY Shapes DEF GcInv, OwnShard
  <2>3. since[s] \in Nat
    BY <2>2, NeverIsNat DEF ViewInv, HeapInv, ShardOK
  <2> HIDE DEF s
  <2>4. ASSUME NEW r \in 1 .. Len(log), since[s] < r, heap[s].horizon < r, r <= sent + 1,
               log[r].key \in Under(q)
        PROVE  \E i \in DOMAIN heap[s].ring : heap[s].ring[i].rev = r
    <3>1. r # sent + 1
      BY <2>1, <2>3, <2>4, <1>2
    <3>2. r <= sent
      BY <2>4, <3>1, <1>2
    <3> QED
      BY <3>2, <2>4, <2>1 DEF Holds
  <2> QED
    BY <2>4 DEF Holds
<1>7. /\ HeapInv' /\ FloorInv'
      /\ \A q \in AllPrefixes : Mapped(q, heap', since', shards', log', sent', pushed', targets')
      /\ \A z : HeldShard(z, heap, since, shards, log, pushed', targets', used.shards)
                => HeldShard(z, heap', since', shards', log', pushed', targets', used'.shards)
  <2>1. SeedShard(root, shard)
    BY DEF shard
  <2>2. pushed' \in Nat /\ pushed' <= since'[NextShard]
    BY <1>2, <1>3
  <2>3. \A q \in AllPrefixes \ {root} : Mapped(q, heap, since, shards, log, sent, pushed', targets')
    BY <1>6
  <2> QED
    BY <1>5, <2>1, <2>2, <2>3, Seeded
<1>8. ASSUME NEW w \in Watchers, st[w].pc \in Opening
      PROVE  HeldShard(st[w], heap, since, shards, log, sent + 1, None, used.shards)
  BY <1>8 DEF ViewInv, HeldShard
<1>9. Writing(log, sent, sent + 1, None, used'.shards)
  BY <1>1, <1>2 DEF Writing
<1>10. (\A w \in Watchers : ClientOK(st[w], view[w], log, sent)) /\ ViewShape'
  BY DEF ViewInv, ViewShape
<1> QED
  BY <1>7, <1>8, <1>9, <1>10 DEF ViewInv

LEMMA PushView ==
  ASSUME GcInv, ViewInv, PushShards
  PROVE  ViewInv'
<1> DEFINE e == log[sent + 1]
           root == RootPrefix(e.key)
           PushTo(S) == heap' = [s \in ShardIds |->
                                   IF s \in S THEN PushIntoShard(heap[s], e) ELSE heap[s]]
<1>1. /\ targets # None /\ targets' = None /\ pushed' = sent + 1
      /\ UNCHANGED <<log, sent, st, view>>
  BY DEF PushShards
<1>2. targets \subseteq ShardIds
  BY <1>1, Shapes DEF ViewInv, Writing
<1>3. root \in AllPrefixes
  <2>1. e \in EventSet
    <3>1. /\ Len(log) \in Nat /\ sent \in Nat /\ sent < Len(log)
          /\ \A i \in 1 .. Len(log) : log[i] \in EventSet
      BY <1>1, WritingTypes DEF ViewInv, Writing
    <3> QED
      BY <3>1
  <2>2. e.key \in Keys
    BY <2>1 DEF EventSet
  <2> QED
    BY <2>2 DEF AllPrefixes, Matching
<1>4. \/ PushTo(targets) /\ UNCHANGED <<shards, since, entries, overflow, used>>
      \/ /\ targets = {} /\ shards[root] # None /\ PushTo({shards[root]})
         /\ UNCHANGED <<shards, since, entries, overflow, used>>
      \/ /\ targets = {} /\ SeedShard(root, PushIntoShard(NewShard(FindReclaimedHorizon(root)), e))
         /\ used' = [used EXCEPT !.shards = @ + 1] /\ UNCHANGED overflow
  BY DEF PushShards
<1>5. CASE PushTo(targets) /\ UNCHANGED <<shards, since, entries, overflow, used>>
  <2>1. targets \subseteq targets /\ \A s \in targets : s \in targets
    OBVIOUS
  <2> QED
    BY <1>1, <1>2, <1>5, <2>1, PushedInto
<1>6. CASE /\ targets = {} /\ shards[root] # None /\ PushTo({shards[root]})
           /\ UNCHANGED <<shards, since, entries, overflow, used>>
  <2>1. {shards[root]} \subseteq ShardIds
    BY <1>3, <1>6, Shapes DEF GcInv, OwnShard
  <2>2. targets \subseteq {shards[root]}
    BY <1>6
  <2>3. \A s \in {shards[root]} : s \in targets \/ \E q \in AllPrefixes : shards[q] # None /\ shards[q] = s
    BY <1>3, <1>6
  <2> QED
    BY <1>1, <1>6, <2>1, <2>2, <2>3, PushedInto
<1>7. CASE /\ targets = {}
           /\ SeedShard(root, PushIntoShard(NewShard(FindReclaimedHorizon(root)), e))
           /\ used' = [used EXCEPT !.shards = @ + 1] /\ UNCHANGED overflow
  <2>1. used'.shards = used.shards + 1
    BY <1>7, Shapes DEF Counters
  <2> QED
    BY <1>1, <1>3, <1>7, <2>1, PushedNew
<1> QED
  BY <1>4, <1>5, <1>6, <1>7

\* A backfilled row: pushed behind a later event it voids the shard's order;
\* into a shard of the map it is one the shard was given, or the event being
\* pushed; into another it ends what the shard can be complete for.
LEMMA BackfillView ==
  ASSUME GcInv, ViewInv, NEW w \in Watchers, NEW r \in 1 .. Len(log), BackfillRow(w, r)
  PROVE  ViewInv'
<1> DEFINE x == st[w]
           y == st'[w]
           sid == x.sid
           e == [key |-> log[r].key, rev |-> r, op |-> "put"]
           s == heap[sid]
           c == since[sid]
           t == PushIntoShard(s, e)
           home == shards[x.prefix] = sid
           d == IF RingTop(s) > r THEN Never ELSE IF home THEN c ELSE Max({c, r})
<1>1. /\ heap' = [heap EXCEPT ![sid] = t] /\ since' = [since EXCEPT ![sid] = d]
      /\ st' = [st EXCEPT ![w].items = x.items \ {r}] /\ x.pc = "backfill" /\ r \in x.items
      /\ UNCHANGED <<log, sent, pushed, targets, shards, entries, overflow, view, used>>
  BY DEF BackfillRow, writerVars
<1>2. /\ Writing(log, sent, pushed, targets, used.shards)
      /\ Len(log) \in Nat /\ Len(log) < Never /\ Never \in Nat /\ sent \in Nat /\ pushed \in Nat
      /\ sent <= pushed /\ log[r] \in EventSet /\ log[r].rev = r
  BY WritingTypes, NeverIsNat DEF ViewInv
<1>3. /\ Opened(x, view[w], log, sent) /\ Rows(x, log, sent)
      /\ HeldShard(x, heap, since, shards, log, pushed, targets, used.shards)
  BY <1>1 DEF ViewInv, ClientOK, Opening
<1>4. e = log[r] /\ e \in EventSet /\ e.rev = r /\ e.rev \in 1 .. sent + 1 /\ e.rev <= Len(log)
  <2>1. r \in 1 .. sent + 1 /\ log[r].op = "put"
    BY <1>1, <1>3 DEF Rows
  <2>2. e = log[r]
    BY <1>2, <2>1 DEF EventSet
  <2> QED
    BY <1>2, <2>1, <2>2
<1>5. sid \in ShardIds /\ sid # None
  BY <1>3, Shapes, WatchConstants DEF HeldShard
<1>6. ShardOK(s, c, log, sent)
  BY <1>5 DEF ViewInv, HeapInv
<1> HIDE DEF e, t, d
<1>7. heap'[sid] = t /\ since'[sid] = d
      /\ \A i \in ShardIds \ {sid} : heap'[i] = heap[i] /\ since'[i] = since[i]
      /\ DOMAIN heap' = ShardIds /\ DOMAIN since' = ShardIds
  <2> HIDE DEF sid
  <2> QED
    BY <1>1, <1>5, Shapes
<1>8. /\ OnlyStream(w) /\ SameClient(y, x) /\ y.sid = x.sid /\ y.pc = "backfill"
      /\ y.items = x.items \ {r}
  BY <1>1, Shapes DEF OnlyStream, Fields, SameClient
<1> HIDE DEF s, c
<1>9. c \in 0 .. Never /\ c \in Nat /\ IsShard(s) /\ Genuine(log, s.ring, sent + 1)
      /\ (c # Never => InOrder(s.ring))
  BY <1>2, <1>6 DEF ShardOK
<1>10. RingTop(s) \in Nat /\ (c # Never => \A j \in DOMAIN s.ring : s.ring[j].rev <= RingTop(s))
  BY <1>2, <1>9, TopFacts
<1>11. \/ d = Never
       \/ RingTop(s) <= r /\ home /\ d = c
       \/ RingTop(s) <= r /\ d \in 0 .. Never /\ c <= d /\ r <= d
  <2>1. Max({c, r}) = IF c > r THEN c ELSE r
    BY <1>9, MaxOfTwo
  <2> QED
    BY <2>1, <1>2, <1>9, <1>10 DEF d
<1>12. d \in 0 .. Never /\ d \in Nat /\ c <= d
  BY <1>2, <1>9, <1>11
<1>13. d = Never \/ \A j \in DOMAIN s.ring : s.ring[j].rev <= e.rev
  <2> SUFFICES ASSUME d # Never, NEW j \in DOMAIN s.ring PROVE s.ring[j].rev <= e.rev
    OBVIOUS
  <2>1. c # Never /\ RingTop(s) <= r
    BY <1>2, <1>9, <1>11, <1>12
  <2>2. s.ring[j].rev <= RingTop(s) /\ s.ring[j].rev \in Nat
    BY <2>1, <1>2, <1>9, <1>10 DEF Genuine
  <2> QED
    BY <2>1, <2>2, <1>4, <1>10
<1>14. ShardOK(t, d, log, sent) /\ Keeps(t, d, s, c, e, log)
  <2>1. t = PushIntoShard(s, e)
    BY DEF t
  <2> QED
    BY <2>1, <1>2, <1>4, <1>6, <1>12, <1>13, PushKeeps
<1>15. RingTop(t) = r
  BY <1>4, <1>9, PushEffect, TopPush DEF t
<1>16. HeapInv'
  <2>1. ASSUME NEW i \in ShardIds PROVE ShardOK(heap'[i], since'[i], log, sent)
    <3>1. CASE i = sid
      BY <3>1, <1>7, <1>14
    <3>2. CASE i # sid
      BY <3>2, <1>7 DEF ViewInv, HeapInv
    <3> QED BY <3>1, <3>2
  <2> QED
    BY <1>1, <1>7, <2>1 DEF ViewInv, HeapInv
<1>17. ASSUME NEW p \in AllPrefixes
       PROVE  Mapped(p, heap', since', shards, log, sent, pushed, targets)
  <2>1. Mapped(p, heap, since, shards, log, sent, pushed, targets)
    BY DEF ViewInv
  <2>2. CASE shards[p] = sid /\ shards[p] # None
    <3>1. /\ Holds(log, s, c, p, pushed)
          /\ targets # None /\ sid \notin targets /\ log[sent + 1].key \in Under(p) => c > sent
      BY <2>1, <2>2 DEF Mapped, s, c
    <3>2. Holds(log, t, d, p, pushed)
      BY <3>1, <1>2, <1>14 DEF Keeps
    <3>3. c > sent => d > sent
      BY <1>2, <1>9, <1>12
    <3> QED
      BY <2>2, <3>1, <3>2, <3>3, <1>7 DEF Mapped
  <2>3. CASE shards[p] # sid /\ shards[p] # None
    <3>1. shards[p] \in ShardIds \ {sid}
      BY <2>3, Shapes DEF GcInv, OwnShard
    <3>2. heap'[shards[p]] = heap[shards[p]] /\ since'[shards[p]] = since[shards[p]]
      BY <3>1, <1>7
    <3> QED
      BY <2>1, <3>2 DEF Mapped
  <2> QED
    BY <2>2, <2>3 DEF Mapped
<1>18. ASSUME NEW z, NEW v, Opened(z, v, log, sent),
              HeldShard(z, heap, since, shards, log, pushed, targets, used.shards)
       PROVE  HeldShard(z, heap', since', shards, log, pushed, targets, used.shards)
  <2>1. z.prefix \in AllPrefixes /\ z.cursor - 1 \in Nat
    BY <1>2, <1>18 DEF Opened
  <2>2. CASE z.sid = sid
    <3>1. /\ Holds(log, s, c, z.prefix, z.cursor - 1)
          /\ targets # None /\ sid \in targets => Holds(log, s, c, z.prefix, pushed)
      BY <1>18, <2>2 DEF HeldShard, s, c
    <3>2. /\ Holds(log, t, d, z.prefix, z.cursor - 1)
          /\ targets # None /\ sid \in targets => Holds(log, t, d, z.prefix, pushed)
      BY <3>1, <2>1, <1>2, <1>14 DEF Keeps
    <3>3. Holds(log, t, d, z.prefix, r)
      <4>1. CASE d = Never \/ r <= d
        BY <4>1, <1>2, <1>12, HoldsNothing
      <4>2. CASE home /\ d = c
        <5> DEFINE q == x.prefix
        <5>1. q \in AllPrefixes /\ shards[q] = sid /\ shards[q] # None
          BY <4>2, <1>3, <1>5 DEF Opened
        <5>2. q \in {z.prefix, Parent(z.prefix)}
          BY <5>1, <2>2, <1>18 DEF HeldShard
        <5>3. Under(z.prefix) \subseteq Under(q)
          BY <5>2, <2>1, PrefixFacts
        <5>4. Holds(log, s, c, q, pushed)
          BY <5>1 DEF ViewInv, Mapped, s, c
        <5>5. Holds(log, t, d, q, pushed)
          BY <5>4, <1>2, <1>14 DEF Keeps
        <5>6. IsShard(t) /\ t.horizon \in Nat /\ Genuine(log, t.ring, pushed + 1)
          <6>1. IsShard(t) /\ Genuine(log, t.ring, sent + 1)
            BY <1>14 DEF ShardOK
          <6> QED
            BY <6>1, <1>2 DEF Genuine, IsShard
        <5> HIDE DEF q
        <5>7. Holds(log, t, d, z.prefix, pushed)
          BY <5>3, <5>5, HoldsNarrower, Zenon
        <5>8. Holds(log, t, d, z.prefix, RingTop(t))
          BY <5>6, <5>7, <1>2, HoldsTop
        <5> QED
          BY <5>8, <1>15
      <4> QED
        BY <4>1, <4>2, <1>11
    <3> QED
      BY <1>7, <1>15, <1>18, <2>2, <3>2, <3>3 DEF HeldShard
  <2>3. CASE z.sid # sid
    <3>1. z.sid \in ShardIds \ {sid}
      BY <2>3, <1>18, Shapes DEF HeldShard
    <3>2. heap'[z.sid] = heap[z.sid] /\ since'[z.sid] = since[z.sid]
      BY <3>1, <1>7
    <3> QED
      BY <3>2, <1>18 DEF HeldShard
  <2> QED BY <2>2, <2>3
<1>19. ClientOK(y, view[w], log, sent)
  <2>1. Opened(y, view[w], log, sent)
    BY <1>3, <1>8, SameClientOpened
  <2>2. Rows(y, log, sent)
    BY <1>3, <1>8 DEF Rows
  <2> QED
    BY <2>1, <2>2, <1>8 DEF ClientOK
<1>20. HeldShard(y, heap', since', shards, log, pushed, targets, used.shards)
  BY <1>3, <1>8, <1>18, SameClientHeld
<1>21. ASSUME NEW v \in Watchers
       PROVE  /\ ClientOK(st'[v], view[v], log, sent)
              /\ st'[v].pc \in Opening =>
                   HeldShard(st'[v], heap', since', shards, log, pushed, targets, used.shards)
  <2>1. CASE v = w
    BY <2>1, <1>19, <1>20
  <2>2. CASE v # w
    <3>1. st'[v] = st[v]
      BY <2>2, <1>8 DEF OnlyStream
    <3>2. /\ ClientOK(st[v], view[v], log, sent)
          /\ st[v].pc \in Opening =>
               /\ Opened(st[v], view[v], log, sent)
               /\ HeldShard(st[v], heap, since, shards, log, pushed, targets, used.shards)
      BY DEF ViewInv, ClientOK
    <3> QED
      BY <1>18, <3>1, <3>2
  <2> QED BY <2>1, <2>2
<1>22. ViewShape' /\ FloorInv'
  BY <1>1 DEF ViewInv, ViewShape, FloorInv
<1> QED
  BY <1>1, <1>2, <1>16, <1>17, <1>21, <1>22 DEF ViewInv

-------------------------------------------------------------------------------
(* Removals, floors and restarts.                                           *)

\* A shard that leaves the map keeps its contents, and the streams keep it.
LEMMA ShrinkView ==
  ASSUME GcInv, ViewInv, FloorInv', used'.shards = used.shards,
         \A p \in AllPrefixes : shards'[p] = shards[p] \/ shards'[p] = None,
         UNCHANGED <<log, sent, pushed, targets, heap, since, st, view>>
  PROVE  ViewInv'
<1>1. ASSUME NEW p \in AllPrefixes
      PROVE  Mapped(p, heap, since, shards', log, sent, pushed, targets)
  <2>1. Mapped(p, heap, since, shards, log, sent, pushed, targets)
    BY DEF ViewInv
  <2>2. shards'[p] = shards[p] \/ shards'[p] = None
    OBVIOUS
  <2> QED
    BY <2>1, <2>2 DEF Mapped
<1>2. ASSUME NEW w \in Watchers, st[w].pc \in Opening
      PROVE  HeldShard(st[w], heap, since, shards', log, pushed, targets, used.shards)
  <2>1. HeldShard(st[w], heap, since, shards, log, pushed, targets, used.shards)
    BY <1>2 DEF ViewInv
  <2>2. ASSUME NEW q \in AllPrefixes, shards'[q] # None, shards'[q] = st[w].sid
        PROVE  q \in {st[w].prefix, Parent(st[w].prefix)}
    <3>1. shards[q] # None /\ shards[q] = st[w].sid
      BY <2>2
    <3> QED
      BY <3>1, <2>1 DEF HeldShard
  <2> QED
    BY <2>1, <2>2 DEF HeldShard
<1>3. HeapInv' /\ ViewShape'
  BY DEF ViewInv, HeapInv, ViewShape
<1>4. Writing(log, sent, pushed, targets, used.shards)
      /\ \A w \in Watchers : ClientOK(st[w], view[w], log, sent)
  BY DEF ViewInv
<1> QED
  BY <1>1, <1>2, <1>3, <1>4 DEF ViewInv

LEMMA PreserveFloor ==
  ASSUME ViewInv, NEW p \in AllPrefixes, NEW sid \in ShardIds, PreserveReclaimedHorizon(p, sid)
  PROVE  FloorInv'
<1> DEFINE floor == FloorOf(heap[sid])
           ins == [entries EXCEPT ![p] = floor]
<1>1. floor \in Nat
  <2>1. IsShard(heap[sid])
    BY DEF ViewInv, HeapInv, ShardOK
  <2>2. heap[sid].horizon \in Nat /\ heap[sid].ring \in Seq(EventSet)
    BY <2>1 DEF IsShard
  <2>3. CASE heap[sid].ring = <<>>
    BY <2>2, <2>3 DEF FloorOf
  <2>4. CASE heap[sid].ring # <<>>
    <3> DEFINE r == heap[sid].ring[Len(heap[sid].ring)].rev
    <3>1. heap[sid].ring[Len(heap[sid].ring)] \in EventSet
      BY <2>2, <2>4
    <3>2. r \in Nat
      BY <3>1 DEF EventSet
    <3>3. floor = Max({heap[sid].horizon, r})
      BY <2>4 DEF FloorOf
    <3> HIDE DEF r
    <3> QED
      BY <2>2, <3>2, <3>3, MaxOfTwo
  <2> QED BY <2>3, <2>4
<1> HIDE DEF floor
<1>2. DOMAIN ins = AllPrefixes /\ (\A q \in AllPrefixes : ins[q] \in Nat) /\ overflow \in Nat
      /\ DOMAIN entries = AllPrefixes /\ \A q \in AllPrefixes : entries[q] \in Nat
  BY <1>1 DEF ViewInv, FloorInv
<1>3. \/ UNCHANGED <<entries, overflow>>
      \/ entries' = ins /\ UNCHANGED overflow
      \/ \E victim \in AllPrefixes : /\ entries' = [ins EXCEPT ![victim] = 0]
                                     /\ overflow' = Max({overflow, ins[victim]})
  BY DEF PreserveReclaimedHorizon, floor
<1> HIDE DEF ins
<1>4. CASE UNCHANGED <<entries, overflow>>
  BY <1>2, <1>4 DEF FloorInv
<1>5. CASE entries' = ins /\ UNCHANGED overflow
  BY <1>2, <1>5 DEF FloorInv
<1>6. CASE \E victim \in AllPrefixes : /\ entries' = [ins EXCEPT ![victim] = 0]
                                       /\ overflow' = Max({overflow, ins[victim]})
  <2>1. PICK victim \in AllPrefixes : /\ entries' = [ins EXCEPT ![victim] = 0]
                                      /\ overflow' = Max({overflow, ins[victim]})
    BY <1>6
  <2>2. ins[victim] \in Nat
    BY <1>2
  <2>3. overflow' \in Nat
    BY <1>2, <2>1, <2>2, MaxOfTwo
  <2> QED
    BY <1>2, <2>1, <2>3 DEF FloorInv
<1> QED
  BY <1>3, <1>4, <1>5, <1>6

LEMMA ShardView ==
  ASSUME GcInv, ViewInv, ShardNext
  PROVE  ViewInv'
<1>1. FloorInv /\ DOMAIN shards = AllPrefixes /\ DOMAIN used = Counters
  BY Shapes DEF ViewInv
<1>2. ASSUME UNCHANGED <<entries, overflow>> PROVE FloorInv'
  BY <1>1, <1>2 DEF FloorInv
<1>3. ASSUME NEW p \in AllPrefixes, IdleGcRemove(p) PROVE ViewInv'
  <2>1. used'.shards = used.shards /\ FloorInv'
    BY <1>1, <1>2, <1>3 DEF IdleGcRemove, Counters
  <2>2. \A q \in AllPrefixes : shards'[q] = shards[q] \/ shards'[q] = None
    BY <1>1, <1>3 DEF IdleGcRemove
  <2> QED
    BY <1>3, <2>1, <2>2, ShrinkView DEF IdleGcRemove, writerVars
<1>4. ASSUME NEW p \in AllPrefixes, TearDownShard(p) PROVE ViewInv'
  <2>1. used'.shards = used.shards /\ FloorInv'
    BY <1>2, <1>4 DEF TearDownShard
  <2>2. \A q \in AllPrefixes : shards'[q] = shards[q] \/ shards'[q] = None
    BY <1>1, <1>4 DEF TearDownShard
  <2> QED
    BY <1>4, <2>1, <2>2, ShrinkView DEF TearDownShard, writerVars
<1>5. ASSUME NEW s \in ShardIds, IdleGcDecline(s) PROVE ViewInv'
  BY <1>2, <1>5, ShrinkView DEF IdleGcDecline, writerVars
<1>6. ASSUME NEW p \in AllPrefixes, NEW s \in ShardIds, PreserveReclaimedHorizon(p, s) PROVE ViewInv'
  <2>1. FloorInv'
    BY <1>6, PreserveFloor
  <2> QED
    BY <1>6, <2>1, ShrinkView DEF PreserveReclaimedHorizon, writerVars
<1>7. ASSUME NEW root, EvictStart(root) PROVE ViewInv'
  <2>1. used'.shards = used.shards /\ FloorInv'
    BY <1>1, <1>2, <1>7 DEF EvictStart, Counters
  <2> QED
    BY <1>7, <2>1, ShrinkView DEF EvictStart, writerVars
<1> QED
  BY <1>3, <1>4, <1>5, <1>6, <1>7 DEF ShardNext

\* SqliteStore::new: no shards, no streams, and nothing in flight.
LEMMA FreshView ==
  ASSUME NEW L, L \in Seq(EventSet), Len(L) <= MaxRev, \A i \in 1 .. Len(L) : L[i].rev = i,
         NEW H, H = [s \in ShardIds |-> NewShard(0)], NEW C, C = [s \in ShardIds |-> 0]
  PROVE  /\ Len(L) \in Nat /\ Writing(L, Len(L), Len(L), None, 0)
         /\ DOMAIN H = ShardIds /\ DOMAIN C = ShardIds
         /\ \A s \in ShardIds : ShardOK(H[s], C[s], L, Len(L))
         /\ 0 \in 0 .. MaxShards
         /\ \A v : ClientOK(NoStream, v, L, Len(L)) /\ NoStream.pc \notin Opening
<1>1. Len(L) \in Nat
  OBVIOUS
<1>2. Writing(L, Len(L), Len(L), None, 0)
  BY <1>1 DEF Writing
<1>3. \A s \in ShardIds : ShardOK(H[s], C[s], L, Len(L))
  <2>1. 0 \in Nat /\ 0 \in 0 .. Never
    BY NeverIsNat
  <2> QED
    BY <2>1, NewShardOK
<1>4. NoStream.pc = "off"
  BY DEF NoStream
<1>5. \A v : ClientOK(NoStream, v, L, Len(L)) /\ NoStream.pc \notin Opening
  BY <1>4, NothingOwed
<1> QED
  BY <1>1, <1>2, <1>3, <1>5, WatchConstants

LEMMA RestartView ==
  ASSUME GcInv, ViewInv, Restart
  PROVE  ViewInv'
<1>1. log \in Seq(EventSet) /\ Len(log) <= MaxRev /\ \A i \in 1 .. Len(log) : log[i].rev = i
  BY DEF ViewInv, Writing
<1>2. /\ log' = log /\ pushed' = Len(log) /\ sent' = Len(log) /\ targets' = None
      /\ shards' = [p \in AllPrefixes |-> None]
      /\ heap' = [s \in ShardIds |-> NewShard(0)] /\ since' = [s \in ShardIds |-> 0]
      /\ entries' = [p \in AllPrefixes |-> 0] /\ overflow' = 0
      /\ st' = [w \in Watchers |-> NoStream] /\ view' = [w \in Watchers |-> StateAt(0)]
  BY DEF Restart, Fresh
<1>3. used'.shards = 0
  BY Shapes DEF Restart, Counters
<1>4. /\ Writing(log, Len(log), Len(log), None, 0)
      /\ DOMAIN heap' = ShardIds /\ DOMAIN since' = ShardIds /\ 0 \in 0 .. MaxShards
      /\ \A s \in ShardIds : ShardOK(heap'[s], since'[s], log, Len(log))
      /\ \A v : ClientOK(NoStream, v, log, Len(log)) /\ NoStream.pc \notin Opening
  BY <1>1, <1>2, FreshView
<1>5. HeapInv' /\ FloorInv'
  BY <1>2, <1>3, <1>4 DEF HeapInv, FloorInv
<1>6. \A p \in AllPrefixes : Mapped(p, heap', since', shards', log', sent', pushed', targets')
  BY <1>2 DEF Mapped
<1>7. ViewShape'
  BY <1>2 DEF ViewShape, StateAt
<1>8. \A w \in Watchers : st'[w] = NoStream
  BY <1>2
<1> QED
  BY <1>2, <1>3, <1>4, <1>5, <1>6, <1>7, <1>8 DEF ViewInv

LEMMA InitView == Init => ViewInv
<1> SUFFICES ASSUME Init PROVE ViewInv
  OBVIOUS
<1>1. /\ log = <<>> /\ pushed = 0 /\ sent = 0 /\ targets = None
      /\ shards = [p \in AllPrefixes |-> None]
      /\ heap = [s \in ShardIds |-> NewShard(0)] /\ since = [s \in ShardIds |-> 0]
      /\ entries = [p \in AllPrefixes |-> 0] /\ overflow = 0
      /\ st = [w \in Watchers |-> NoStream] /\ view = [w \in Watchers |-> [k \in Keys |-> 0]]
      /\ used.shards = 0
  BY DEF Init
<1>2. log \in Seq(EventSet) /\ Len(log) = 0 /\ Len(log) <= MaxRev
      /\ \A i \in 1 .. Len(log) : log[i].rev = i
  BY <1>1, NeverIsNat
<1>3. /\ Writing(log, Len(log), Len(log), None, 0)
      /\ DOMAIN heap = ShardIds /\ DOMAIN since = ShardIds /\ 0 \in 0 .. MaxShards
      /\ \A s \in ShardIds : ShardOK(heap[s], since[s], log, Len(log))
      /\ \A v : ClientOK(NoStream, v, log, Len(log)) /\ NoStream.pc \notin Opening
  <2>1. /\ heap = [s \in ShardIds |-> NewShard(0)] /\ since = [s \in ShardIds |-> 0]
    BY <1>1
  <2> QED
    BY <1>2, <2>1, FreshView, Zenon
<1>4. HeapInv /\ FloorInv
  BY <1>1, <1>2, <1>3 DEF HeapInv, FloorInv
<1>5. \A p \in AllPrefixes : Mapped(p, heap, since, shards, log, sent, pushed, targets)
  BY <1>1 DEF Mapped
<1>6. ViewShape
  BY <1>1 DEF ViewShape
<1>7. \A w \in Watchers : st[w] = NoStream
  BY <1>1
<1> QED
  BY <1>1, <1>2, <1>3, <1>4, <1>5, <1>6, <1>7 DEF ViewInv

-------------------------------------------------------------------------------
(* The induction, one step per action.                                      *)

LEMMA WriterView ==
  ASSUME GcInv, ViewInv, WriterNext
  PROVE  ViewInv'
<1>1. ASSUME NEW k \in Keys, Put(k) \/ Delete(k) PROVE ViewInv'
  <2>1. \E op \in {"put", "delete"} : Commit(<<[key |-> k, rev |-> Len(log) + 1, op |-> op]>>)
    BY <1>1 DEF Put, Delete
  <2> QED
    BY <2>1, OneEventBatch, CommitView
<1>2. ASSUME NEW ns, DeleteNamespace(ns) PROVE ViewInv'
  <2> DEFINE doomed == {k \in Keys : NsOf[k] = ns /\ Exists(k)}
             b(order) == [i \in 1 .. Len(order) |->
                            [key |-> order[i], rev |-> Len(log) + i, op |-> "delete"]]
  <2>1. PICK order \in SetToSeqs(doomed) : Commit(b(order))
    BY <1>2 DEF DeleteNamespace
  <2>2. Batch(b(order))
    <3>1. doomed \in SUBSET Keys
      OBVIOUS
    <3> HIDE DEF doomed
    <3> QED
      BY <3>1, NamespaceBatch
  <2> HIDE DEF b
  <2> QED
    BY <2>1, <2>2, CommitView
<1> QED
  BY <1>1, <1>2, MatchView, PushView, SendView DEF WriterNext

LEMMA StreamView ==
  ASSUME GcInv, ViewInv, NEW w \in Watchers, StreamNext(w)
  PROVE  ViewInv'
<1>1. CASE CreateShard(w)
  BY <1>1, FoundView, CreateView
<1>2. CASE Ending(w) \/ CloseWatch(w)
  BY <1>2, LeaveView
<1>3. CASE \E r \in 1 .. Len(log) : BackfillRow(w, r)
  BY <1>3, BackfillView
<1>4. CASE \E p \in WatchPrefixes, from \in 0 .. Len(log), listed \in BOOLEAN :
             OpenWatch(w, p, from, listed)
  BY <1>4, OpenView
<1>5. CASE BackfillDone(w) \/ Attach(w) \/ LoadHorizon(w)
  BY <1>5, OpeningView
<1>6. CASE Lagged(w) \/ ScanRing(w) \/ Recovered(w) \/ Unrecovered(w)
  BY <1>6, LagView
<1> QED
  BY <1>1, <1>2, <1>3, <1>4, <1>5, <1>6, ResolveView, ListView, SnapshotView, ReplayView,
     RecvView, CatchupView DEF StreamNext, StreamStep, Ending

LEMMA NextView ==
  ASSUME GcInv, ViewInv, [Next]_vars
  PROVE  ViewInv'
<1>1. CASE UNCHANGED vars
  <2>1. UNCHANGED <<log, sent, pushed, targets, shards, heap, since, entries, overflow, st, view, used>>
    BY <1>1 DEF vars, writerVars, shardVars
  <2> QED
    BY <2>1 DEF ViewInv, HeapInv, FloorInv, ViewShape
<1>2. CASE Next
  BY <1>2, WriterView, ShardView, StreamView, RestartView DEF Next
<1> QED BY <1>1, <1>2

\* What the shards hold and what the streams have been promised, in every
\* reachable state: a mapped shard has what was pushed for its prefix since it
\* is complete, and what a covered stream holds and still has queued is the log.
THEOREM ViewInvariant == Spec => [](GcInv /\ ViewInv)
<1>1. GcInv /\ ViewInv /\ [Next]_vars => ViewInv'
  BY NextView
<1>2. Init => ViewInv
  BY InitView
<1> QED
  BY <1>1, <1>2, GcInvariant, PTL DEF Spec

\* A stream the invariant follows holds the database of what it has consumed.
LEMMA FollowingIsExact ==
  ASSUME ViewInv, NEW w \in Watchers, Following(st[w], view[w], log, sent)
  PROVE  Exact(w)
<1> DEFINE x == st[w]
           top == Max({x.last, x.cursor - 1})
<1>1. Len(log) \in Nat /\ sent \in Nat
  BY WritingTypes DEF ViewInv
<1>2. x.last \in Nat /\ x.cursor - 1 \in Nat /\ x.cursor \in Nat
      /\ AtRev(log, view[w], x.prefix, Reached(x))
  BY <1>1 DEF Following
<1>3. top = Reached(x)
  <2>1. top = IF x.last > x.cursor - 1 THEN x.last ELSE x.cursor - 1
    BY <1>2, MaxOfTwo
  <2> HIDE DEF top
  <2> QED
    BY <2>1, <1>2 DEF Reached
<1> HIDE DEF top
<1>4. ASSUME NEW k \in Under(x.prefix) PROVE view[w][k] = RowRev(k, top)
  <2>1. RowRev(k, top) = RowIn(log, k, top)
    BY RowRevIsRowIn
  <2> QED
    BY <2>1, <1>2, <1>3 DEF AtRev
<1> QED
  BY <1>4 DEF Exact, top

\* ViewExactWhenCovered for all clients, keys, prefixes, capacities and bounds:
\* between the lookup of the shard, its backfill, its snapshot and the first live
\* event no event a covered stream is owed is lost, repeated out of order or
\* applied too early, whatever writers, idle checks, tear-downs, restarts and
\* other watches do in between.
THEOREM CoveredViewsAreExact == Spec => []ViewExactWhenCovered
<1>1. GcInv /\ ViewInv => ViewExactWhenCovered
  <2> SUFFICES ASSUME ViewInv, NEW w \in Watchers, st[w].pc = "live", st[w].covered, ~st[w].lagged
               PROVE  Exact(w)
    BY Zenon DEF ViewExactWhenCovered
  <2>1. Owed(st[w])
    BY Zenon DEF Owed
  <2>2. Following(st[w], view[w], log, sent)
    <3>1. ClientOK(st[w], view[w], log, sent)
      BY DEF ViewInv
    <3> QED
      BY <2>1, <3>1 DEF ClientOK
  <2> QED
    BY <2>2, FollowingIsExact
<1> QED
  BY <1>1, ViewInvariant, PTL

-------------------------------------------------------------------------------
(* The deletion log of one shard.                                           *)

\* Names deleted under p (DeletedUnder, of any log).
Deleted(L, p) ==
  {k \in Under(p) : \E i \in 1 .. Len(L) : L[i].key = k /\ L[i].op = "delete"}

Remembers(s, k, i) == k \in DOMAIN s.byKey /\ s.byKey[k] = i

\* A put of k is committed and not yet pushed.
Coming(L, k, m) == \E j \in 1 .. Len(L) : m < j /\ L[j].key = k /\ L[j].op = "put"

\* Shard s of prefix p, complete after revision c, when m events are pushed: its
\* tombstones are deletions of the prefix, its last event is the last pushed for
\* it, and with room for every name it has each name whose last event is a
\* deletion, unless a backfill has run ahead of a put.
DeletionLog(s, c, L, p, m) ==
  /\ DOMAIN s.byKey \subseteq Deleted(L, p)
  /\ \A i \in 1 .. Len(L) : c < i /\ i <= m /\ L[i].key \in Under(p) => i <= RingTop(s)
  /\ Cardinality(Deleted(L, p)) <= StrippedTierCap =>
       \A k \in Under(p) : \A i \in 1 .. Len(L) :
         LastOn(L, k, m, i) /\ L[i].op = "delete" /\ c < i =>
           Remembers(s, k, i) \/ Coming(L, k, m)

LEMMA DeletedIsFinite ==
  ASSUME NEW L, NEW p
  PROVE  IsFiniteSet(Deleted(L, p)) /\ Deleted(L, p) \subseteq Keys
         /\ Cardinality(Deleted(L, p)) \in Nat
<1>1. Deleted(L, p) \subseteq Keys
  BY DEF Deleted, Under
<1> QED
  BY <1>1, FS_Subset, FS_CardinalityType, WatchConstants

\* What a push does to the names of the deletion log: a put takes its name out, a
\* delete puts its name in and may push another out, if there is no room for both.
LEMMA PushNames ==
  ASSUME NEW s, IsShard(s), NEW e
  PROVE  LET t == PushIntoShard(s, e)
             all == DOMAIN s.byKey \cup {e.key}
         IN /\ e.op = "put" =>
                 /\ DOMAIN t.byKey = DOMAIN s.byKey \ {e.key}
                 /\ \A k \in DOMAIN t.byKey : t.byKey[k] = s.byKey[k]
            /\ e.op # "put" => DOMAIN t.byKey \subseteq all
            /\ e.op # "put" /\ ~(Cardinality(all) > StrippedTierCap) =>
                 /\ DOMAIN t.byKey = all
                 /\ \A k \in all : t.byKey[k] = IF k = e.key THEN e.rev ELSE s.byKey[k]
<1> DEFINE q == PushRing(s, e)
           t == PushIntoShard(s, e)
           all == DOMAIN s.byKey \cup {e.key}
<1>1. DOMAIN s = ShardFields
  BY DEF IsShard
<1>2. DOMAIN q = ShardFields /\ q.byKey = s.byKey
  <2>1. ASSUME NEW a, NEW b
        PROVE  LET f == [s EXCEPT !.ring = a, !.horizon = b]
                   g == [s EXCEPT !.ring = a]
               IN /\ DOMAIN f = ShardFields /\ f.byKey = s.byKey
                  /\ DOMAIN g = ShardFields /\ g.byKey = s.byKey
    BY <1>1 DEF ShardFields
  <2> QED
    BY <2>1 DEF PushRing
<1> HIDE DEF q
<1>3. ASSUME e.op = "put"
      PROVE  /\ DOMAIN t.byKey = DOMAIN s.byKey \ {e.key}
             /\ \A k \in DOMAIN t.byKey : t.byKey[k] = s.byKey[k]
  <2>1. t = Forget(q, e.key)
    BY <1>3 DEF PushIntoShard, q
  <2>2. t.byKey = IF e.key \in DOMAIN s.byKey THEN Without(s.byKey, {e.key}) ELSE s.byKey
    <3>1. ASSUME NEW a, NEW b, NEW c
          PROVE  [q EXCEPT !.byKey = a, !.byRev = b, !.full = c].byKey = a
      BY <1>2 DEF ShardFields
    <3> QED
      BY <1>2, <2>1, <3>1 DEF Forget
  <2> HIDE DEF t
  <2> QED
    BY <2>2 DEF Without, Restrict
<1>4. ASSUME e.op # "put"
      PROVE  /\ DOMAIN t.byKey \subseteq all
             /\ ~(Cardinality(all) > StrippedTierCap) =>
                  /\ DOMAIN t.byKey = all
                  /\ \A k \in all : t.byKey[k] = IF k = e.key THEN e.rev ELSE s.byKey[k]
  <2> DEFINE a == Remember(q, e)
             b == CapFullTier(a)
             names == With(s.byKey, e.key, e.rev)
  <2>1. t = CapStrippedTier(b)
    BY <1>4 DEF PushIntoShard, q
  <2>2. DOMAIN names = all /\ \A k \in all : names[k] = IF k = e.key THEN e.rev ELSE s.byKey[k]
    BY DEF With
  <2> HIDE DEF names, t
  <2>3. DOMAIN a = ShardFields /\ a.byKey = names
    BY <1>2 DEF Remember, ShardFields, names
  <2> HIDE DEF a
  <2>4. DOMAIN b = ShardFields /\ b.byKey = names
    <3>1. ASSUME NEW x
          PROVE  DOMAIN [a EXCEPT !.full = x] = ShardFields /\ [a EXCEPT !.full = x].byKey = names
      BY <2>3 DEF ShardFields
    <3> QED
      BY <2>3, <3>1 DEF CapFullTier
  <2> HIDE DEF b
  <2>5. ASSUME NEW x, NEW y, NEW z
        PROVE  [b EXCEPT !.byKey = x, !.byRev = y, !.full = z].byKey = x
    BY <2>4 DEF ShardFields
  <2>6. /\ Cardinality(all) > StrippedTierCap =>
             \E S : t.byKey = Without(names, S)
        /\ ~(Cardinality(all) > StrippedTierCap) => t.byKey = names
    BY <2>1, <2>2, <2>4, <2>5 DEF CapStrippedTier
  <2>7. \A S : DOMAIN Without(names, S) \subseteq all
    BY <2>2 DEF Without, Restrict
  <2> QED
    BY <2>2, <2>6, <2>7
<1> QED
  BY <1>3, <1>4

\* A shard that is complete for nothing yet owes no tombstone.
LEMMA NothingToRemember ==
  ASSUME NEW s, NEW c \in Nat, NEW L, NEW p, NEW m \in Nat, m <= c, Len(L) \in Nat,
         DOMAIN s.byKey \subseteq Deleted(L, p)
  PROVE  DeletionLog(s, c, L, p, m)
<1>1. \A i \in 1 .. Len(L) : ~(c < i /\ i <= m)
  OBVIOUS
<1>2. \A k : \A i \in 1 .. Len(L) : LastOn(L, k, m, i) => i <= m
  BY DEF LastOn
<1> QED
  BY <1>1, <1>2 DEF DeletionLog

\* The last event on a key before and after the next push.
LEMMA LastOnNext ==
  ASSUME NEW L, NEW m \in Nat, m + 1 <= Len(L), Len(L) \in Nat, NEW k, k # L[m + 1].key
  PROVE  /\ \A i : LastOn(L, k, m + 1, i) => LastOn(L, k, m, i)
         /\ Coming(L, k, m) => Coming(L, k, m + 1)
<1>1. ASSUME NEW i, LastOn(L, k, m + 1, i) PROVE LastOn(L, k, m, i)
  <2>1. i \in 1 .. m + 1 /\ L[i].key = k /\ i # m + 1
    BY <1>1 DEF LastOn
  <2>2. i \in 1 .. m
    BY <2>1
  <2>3. \A j \in 1 .. m : L[j].key = k => j <= i
    BY <1>1 DEF LastOn
  <2> QED
    BY <2>1, <2>2, <2>3 DEF LastOn
<1>2. ASSUME Coming(L, k, m) PROVE Coming(L, k, m + 1)
  <2>1. PICK j \in 1 .. Len(L) : m < j /\ L[j].key = k /\ L[j].op = "put"
    BY <1>2 DEF Coming
  <2>2. m + 1 < j
    BY <2>1
  <2> QED
    BY <2>1, <2>2 DEF Coming
<1> QED
  BY <1>1, <1>2

\* An event that is not the prefix's, or that the shard is not complete for, is
\* pushed elsewhere.
LEMMA PassedBy ==
  ASSUME NEW L, NEW m \in Nat, m + 1 <= Len(L), Len(L) \in Nat, NEW s, NEW c \in Nat, NEW p,
         DeletionLog(s, c, L, p, m), L[m + 1].key \in Under(p) => c > m
  PROVE  DeletionLog(s, c, L, p, m + 1)
<1>1. CASE L[m + 1].key \in Under(p)
  <2>1. m + 1 <= c /\ m + 1 \in Nat /\ DOMAIN s.byKey \subseteq Deleted(L, p)
    BY <1>1 DEF DeletionLog
  <2> QED
    BY <2>1, NothingToRemember
<1>2. CASE L[m + 1].key \notin Under(p)
  <2>1. ASSUME NEW i \in 1 .. Len(L), c < i, i <= m + 1, L[i].key \in Under(p)
        PROVE  i <= RingTop(s)
    <3>1. i # m + 1
      BY <1>2, <2>1
    <3>2. i <= m
      BY <2>1, <3>1
    <3> QED
      BY <2>1, <3>2 DEF DeletionLog
  <2>2. ASSUME Cardinality(Deleted(L, p)) <= StrippedTierCap, NEW k \in Under(p),
               NEW i \in 1 .. Len(L), LastOn(L, k, m + 1, i), L[i].op = "delete", c < i
        PROVE  Remembers(s, k, i) \/ Coming(L, k, m + 1)
    <3>1. k # L[m + 1].key
      BY <1>2
    <3>2. LastOn(L, k, m, i) /\ (Coming(L, k, m) => Coming(L, k, m + 1))
      BY <2>2, <3>1, LastOnNext
    <3> QED
      BY <2>2, <3>2 DEF DeletionLog
  <2> QED
    BY <2>1, <2>2 DEF DeletionLog
<1> QED BY <1>1, <1>2

\* The next event is pushed: a deletion is remembered, a put takes its name out.
LEMMA PushRemembers ==
  ASSUME NEW L, NEW m \in Nat, m + 1 <= Len(L), Len(L) \in Nat, NEW s, IsShard(s),
         L[m + 1] \in EventSet, L[m + 1].rev = m + 1, NEW c \in Nat, NEW p,
         L[m + 1].key \in Under(p), DeletionLog(s, c, L, p, m)
  PROVE  DeletionLog(PushIntoShard(s, L[m + 1]), c, L, p, m + 1)
<1> DEFINE e == L[m + 1]
           t == PushIntoShard(s, e)
           all == DOMAIN s.byKey \cup {e.key}
<1>1. RingTop(t) = m + 1
  BY PushEffect, TopPush
<1>2. /\ e.op = "put" => /\ DOMAIN t.byKey = DOMAIN s.byKey \ {e.key}
                         /\ \A k \in DOMAIN t.byKey : t.byKey[k] = s.byKey[k]
      /\ e.op # "put" => DOMAIN t.byKey \subseteq all
      /\ e.op # "put" /\ ~(Cardinality(all) > StrippedTierCap) =>
           /\ DOMAIN t.byKey = all
           /\ \A k \in all : t.byKey[k] = IF k = e.key THEN e.rev ELSE s.byKey[k]
  BY PushNames
<1>3. m + 1 \in 1 .. Len(L) /\ e.op \in {"put", "delete"}
  BY DEF EventSet
<1> HIDE DEF t
<1>4. DOMAIN s.byKey \subseteq Deleted(L, p)
  BY DEF DeletionLog
<1>5. e.op # "put" => all \subseteq Deleted(L, p)
  BY <1>3, <1>4 DEF Deleted
<1>6. DOMAIN t.byKey \subseteq Deleted(L, p)
  BY <1>2, <1>4, <1>5
<1>7. \A i \in 1 .. Len(L) : c < i /\ i <= m + 1 /\ L[i].key \in Under(p) => i <= RingTop(t)
  BY <1>1
<1>8. ASSUME Cardinality(Deleted(L, p)) <= StrippedTierCap, NEW k \in Under(p),
             NEW i \in 1 .. Len(L), LastOn(L, k, m + 1, i), L[i].op = "delete", c < i
      PROVE  Remembers(t, k, i) \/ Coming(L, k, m + 1)
  <2>1. e.op # "put" => ~(Cardinality(all) > StrippedTierCap)
    <3> SUFFICES ASSUME e.op # "put" PROVE ~(Cardinality(all) > StrippedTierCap)
      OBVIOUS
    <3>1. Cardinality(all) <= Cardinality(Deleted(L, p)) /\ Cardinality(all) \in Nat
          /\ Cardinality(Deleted(L, p)) \in Nat
      <4> HIDE DEF all
      <4> QED
        BY <1>5, DeletedIsFinite, FS_Subset, FS_CardinalityType
    <3>2. StrippedTierCap \in Nat
      BY RingCapacityAssumption DEF StrippedTierCap
    <3> QED
      BY <3>1, <3>2, <1>8
  <2>2. CASE k = e.key
    <3>1. i = m + 1
      BY <1>3, <1>8, <2>2 DEF LastOn
    <3>2. e.op # "put" /\ e.rev = i
      BY <1>8, <3>1
    <3> QED
      BY <1>2, <2>1, <2>2, <3>2 DEF Remembers
  <2>3. CASE k # e.key
    <3>1. LastOn(L, k, m, i) /\ (Coming(L, k, m) => Coming(L, k, m + 1))
      BY <1>8, <2>3, LastOnNext
    <3>2. Remembers(s, k, i) \/ Coming(L, k, m)
      BY <1>8, <3>1 DEF DeletionLog
    <3>3. Remembers(s, k, i) => Remembers(t, k, i)
      BY <1>2, <2>1, <2>3 DEF Remembers
    <3> QED
      BY <3>1, <3>2, <3>3
  <2> QED BY <2>2, <2>3
<1>9. DeletionLog(t, c, L, p, m + 1)
  BY <1>6, <1>7, <1>8 DEF DeletionLog
<1> QED
  BY <1>9 DEF t

\* A backfilled row that is not behind a later event: it is a row still there, so
\* the tombstone it takes out is older, or a put that is on its way undoes it.
LEMMA BackfillRemembers ==
  ASSUME NEW L, Len(L) \in Nat, NEW m \in Nat, m <= Len(L), NEW s, IsShard(s), RingTop(s) \in Nat,
         NEW c \in Nat, NEW d \in Nat, c <= d, NEW p, DeletionLog(s, c, L, p, m),
         NEW r \in 1 .. Len(L), L[r] \in EventSet, L[r].rev = r, L[r].op = "put",
         d >= Len(L) \/ RingTop(s) <= r
  PROVE  DeletionLog(PushIntoShard(s, L[r]), d, L, p, m)
<1> DEFINE e == L[r]
           t == PushIntoShard(s, e)
<1>1. RingTop(t) = r
  BY PushEffect, TopPush
<1>2. /\ DOMAIN t.byKey = DOMAIN s.byKey \ {e.key}
      /\ \A k \in DOMAIN t.byKey : t.byKey[k] = s.byKey[k]
  BY PushNames
<1> HIDE DEF t
<1>3. DOMAIN t.byKey \subseteq Deleted(L, p)
  BY <1>2 DEF DeletionLog
<1>4. CASE d >= Len(L)
  <2>1. m <= d
    BY <1>4
  <2>2. DeletionLog(t, d, L, p, m)
    BY <2>1, <1>3, NothingToRemember
  <2> QED
    BY <2>2 DEF t
<1>5. CASE RingTop(s) <= r
  <2>1. ASSUME NEW i \in 1 .. Len(L), d < i, i <= m, L[i].key \in Under(p) PROVE i <= RingTop(s) /\ i <= r
    <3>1. c < i
      BY <2>1
    <3>2. i <= RingTop(s)
      BY <3>1, <2>1 DEF DeletionLog
    <3> QED
      BY <3>2, <1>5
  <2>2. ASSUME Cardinality(Deleted(L, p)) <= StrippedTierCap, NEW k \in Under(p),
               NEW i \in 1 .. Len(L), LastOn(L, k, m, i), L[i].op = "delete", d < i
        PROVE  Remembers(t, k, i) \/ Coming(L, k, m)
    <3>1. c < i /\ i <= m /\ L[i].key = k
      BY <2>2 DEF LastOn
    <3>2. Remembers(s, k, i) \/ Coming(L, k, m)
      BY <2>2, <3>1 DEF DeletionLog
    <3>3. CASE k = e.key
      <4>1. i <= r /\ i # r
        BY <2>1, <2>2, <3>1
      <4>2. r > m
        BY <2>2, <3>3, <4>1 DEF LastOn
      <4> QED
        BY <3>3, <4>2 DEF Coming
    <3>4. CASE k # e.key
      BY <1>2, <3>2, <3>4 DEF Remembers
    <3> QED BY <3>3, <3>4
  <2>3. DeletionLog(t, d, L, p, m)
    BY <1>1, <1>3, <2>1, <2>2 DEF DeletionLog
  <2> QED
    BY <2>3 DEF t
<1> QED
  BY <1>4, <1>5

\* A commit only makes the names that may have to be remembered more.
LEMMA DeletionLogGrown ==
  ASSUME NEW L, NEW M, Extends(M, L), NEW m \in Nat, m <= Len(L), NEW s, NEW c, NEW p,
         DeletionLog(s, c, L, p, m)
  PROVE  DeletionLog(s, c, M, p, m)
<1>1. /\ Len(L) \in Nat /\ Len(M) \in Nat /\ Len(L) <= Len(M)
      /\ \A i \in 1 .. Len(L) : M[i] = L[i]
  BY DEF Extends
<1>2. \A i \in 1 .. Len(L) : i \in 1 .. Len(M)
  BY <1>1
<1>3. Deleted(L, p) \subseteq Deleted(M, p)
  BY <1>1, <1>2 DEF Deleted
<1>4. Cardinality(Deleted(M, p)) <= StrippedTierCap => Cardinality(Deleted(L, p)) <= StrippedTierCap
  <2>1. /\ Cardinality(Deleted(L, p)) <= Cardinality(Deleted(M, p))
        /\ Cardinality(Deleted(L, p)) \in Nat /\ Cardinality(Deleted(M, p)) \in Nat
    BY <1>3, DeletedIsFinite, FS_Subset
  <2>2. StrippedTierCap \in Nat
    BY RingCapacityAssumption DEF StrippedTierCap
  <2> QED
    BY <2>1, <2>2
<1>5. \A i \in 1 .. Len(M) : i <= m => i \in 1 .. Len(L) /\ M[i] = L[i]
  BY <1>1
<1>6. \A k : \A i : LastOn(M, k, m, i) => LastOn(L, k, m, i) /\ i \in 1 .. Len(L) /\ M[i] = L[i]
  BY <1>1, <1>5 DEF LastOn
<1>7. \A k : Coming(L, k, m) => Coming(M, k, m)
  BY <1>1, <1>2 DEF Coming
<1>8. \A i \in 1 .. Len(M) : c < i /\ i <= m /\ M[i].key \in Under(p) => i <= RingTop(s)
  BY <1>5 DEF DeletionLog
<1>9. ASSUME Cardinality(Deleted(M, p)) <= StrippedTierCap, NEW k \in Under(p),
             NEW i \in 1 .. Len(M), LastOn(M, k, m, i), M[i].op = "delete", c < i
      PROVE  Remembers(s, k, i) \/ Coming(M, k, m)
  BY <1>4, <1>6, <1>7, <1>9 DEF DeletionLog
<1> QED
  BY <1>3, <1>8, <1>9 DEF DeletionLog

-------------------------------------------------------------------------------
(* What a client has been told.                                             *)

LaterOn(L, k, r) == \E j \in 1 .. Len(L) : r < j /\ L[j].key = k

\* Stream x, whose client holds v (n is `sent'): the client differs from the
\* revision it came with only where there is a later event, and is still to get
\* later events only.
Told(x, v, L, n) ==
  /\ x.prefix \in AllPrefixes /\ x.from \in 0 .. Len(L) /\ x.last \in Nat /\ x.from <= x.last
  /\ x.cursor \in 1 .. n + 1
  /\ Genuine(L, x.queue, n + 1) /\ \A i \in DOMAIN x.queue : x.from < x.queue[i].rev
  /\ \A k \in Under(x.prefix) : v[k] = RowIn(L, k, x.from) \/ LaterOn(L, k, x.from)

LEMMA ToldGrown ==
  ASSUME NEW L, NEW M, Extends(M, L), NEW n \in Nat, NEW m \in Nat, n <= m, n <= Len(L),
         NEW x, NEW v, Told(x, v, L, n)
  PROVE  Told(x, v, M, m)
<1>1. /\ Len(L) \in Nat /\ Len(M) \in Nat /\ Len(L) <= Len(M)
      /\ \A i \in 1 .. Len(L) : M[i] = L[i]
  BY DEF Extends
<1>2. x.from \in 0 .. Len(L) /\ x.from \in 0 .. Len(M) /\ x.cursor \in 1 .. m + 1
  BY <1>1 DEF Told
<1>3. Genuine(M, x.queue, m + 1)
  <2>1. Genuine(L, x.queue, n + 1)
    BY DEF Told
  <2>2. n + 1 \in Nat /\ m + 1 \in Nat /\ n + 1 <= m + 1
    OBVIOUS
  <2> QED
    BY <2>1, <2>2, GenuineGrown
<1>4. ASSUME NEW k PROVE LaterOn(L, k, x.from) => LaterOn(M, k, x.from)
  BY <1>1 DEF LaterOn
<1>5. ASSUME NEW k PROVE RowIn(M, k, x.from) = RowIn(L, k, x.from)
  <2>1. x.from \in Nat /\ (\A i \in 1 .. x.from : M[i] = L[i])
        /\ \A i \in 1 .. x.from : i > x.from => M[i].key # k
    BY <1>1, <1>2
  <2> QED
    BY <2>1, RowInKept
<1> QED
  BY <1>2, <1>3, <1>4, <1>5 DEF Told

\* The client hears of an event later than the revision it came with.
LEMMA Hears ==
  ASSUME NEW L, Len(L) \in Nat, NEW x, NEW v, DOMAIN v = Keys, NEW n, Told(x, v, L, n),
         NEW e, e.rev \in 1 .. Len(L), e = L[e.rev], x.from < e.rev,
         NEW k \in Under(x.prefix)
  PROVE  Apply(v, e)[k] = RowIn(L, k, x.from) \/ LaterOn(L, k, x.from)
<1>1. k \in Keys
  BY DEF Under
<1>2. CASE k = e.key
  BY <1>2 DEF LaterOn
<1>3. CASE k # e.key
  <2>1. Apply(v, e)[k] = v[k]
    BY <1>1, <1>3 DEF Apply
  <2> QED
    BY <2>1 DEF Told
<1> QED BY <1>2, <1>3

LEMMA YieldTold ==
  ASSUME NEW L, Len(L) \in Nat, NEW n \in Nat, NEW x, NEW v, DOMAIN v = Keys, Told(x, v, L, n),
         NEW i \in DOMAIN x.queue, NEW y, y.prefix = x.prefix, y.from = x.from,
         y.cursor = x.cursor, y.last = Max({x.last, x.queue[i].rev}),
         y.queue = Without(x.queue, {i})
  PROVE  Told(y, Apply(v, x.queue[i]), L, n)
<1> DEFINE e == x.queue[i]
<1>1. e.rev \in 1 .. Len(L) /\ e.rev \in Nat /\ e = L[e.rev] /\ x.from < e.rev /\ x.last \in Nat
      /\ x.from \in Nat /\ x.from <= x.last
  BY DEF Told, Genuine
<1>2. y.last \in Nat /\ y.from <= y.last
  <2>1. y.last = IF x.last > e.rev THEN x.last ELSE e.rev
    BY <1>1, MaxOfTwo
  <2> QED
    BY <1>1, <2>1
<1>3. /\ DOMAIN y.queue \subseteq DOMAIN x.queue
      /\ \A j \in DOMAIN y.queue : y.queue[j] = x.queue[j]
  BY DEF Without, Restrict
<1>4. Genuine(L, y.queue, n + 1) /\ \A j \in DOMAIN y.queue : y.from < y.queue[j].rev
  BY <1>3 DEF Told, Genuine
<1> HIDE DEF e
<1>5. \A k \in Under(y.prefix) : Apply(v, e)[k] = RowIn(L, k, y.from) \/ LaterOn(L, k, y.from)
  BY <1>1, Hears
<1>6. Told(y, Apply(v, e), L, n)
  BY <1>2, <1>4, <1>5 DEF Told
<1> QED
  BY <1>6 DEF e

LEMMA ReceivedTold ==
  ASSUME NEW L, NEW n, NEW m, NEW t, NEW u, Writing(L, n, m, t, u),
         NEW x, NEW v, DOMAIN v = Keys, Told(x, v, L, n), x.cursor <= n,
         NEW y, y.prefix = x.prefix, y.from = x.from, y.cursor = x.cursor + 1, y.queue = x.queue
  PROVE  LET e == L[x.cursor]
         IN /\ e.rev > x.last /\ y.last = e.rev => Told(y, Apply(v, e), L, n)
            /\ y.last = x.last => Told(y, v, L, n)
<1> DEFINE e == L[x.cursor]
<1>1. Len(L) \in Nat /\ n \in Nat /\ n <= Len(L) /\ \A i \in 1 .. Len(L) : L[i].rev = i
  BY WritingTypes
<1>2. x.cursor \in 1 .. Len(L) /\ y.cursor \in 1 .. n + 1 /\ x.from \in Nat /\ x.last \in Nat
      /\ x.from <= x.last
  BY <1>1 DEF Told
<1>3. e.rev = x.cursor /\ e.rev \in 1 .. Len(L) /\ e = L[e.rev]
  BY <1>1, <1>2
<1>4. y.last = x.last => Told(y, v, L, n)
  BY <1>2 DEF Told
<1> HIDE DEF e
<1>5. ASSUME e.rev > x.last, y.last = e.rev PROVE Told(y, Apply(v, e), L, n)
  <2>1. x.from < e.rev /\ y.last \in Nat /\ y.from <= y.last
    BY <1>2, <1>3, <1>5
  <2>2. \A k \in Under(y.prefix) : Apply(v, e)[k] = RowIn(L, k, y.from) \/ LaterOn(L, k, y.from)
    BY <1>1, <1>3, <2>1, Hears
  <2> QED
    BY <1>2, <2>1, <2>2 DEF Told
<1> QED
  BY <1>4, <1>5 DEF e

\* What a scan of a shard's ring finds.
LEMMA RetainedTold ==
  ASSUME ViewInv, NEW p, NEW r \in Nat, NEW sid, sid = None \/ sid \in ShardIds
  PROVE  LET q == Retained(sid, p, r)
         IN Genuine(log, q, sent + 1) /\ \A i \in DOMAIN q : r < q[i].rev
<1> DEFINE q == Retained(sid, p, r)
<1>1. CASE sid = None
  <2>1. DOMAIN q = {}
    BY <1>1 DEF Retained, Empty
  <2> QED
    BY <2>1 DEF Genuine
<1>2. CASE sid # None
  <2> DEFINE ring == heap[sid].ring
  <2>1. Genuine(log, ring, sent + 1)
    BY <1>2 DEF ViewInv, HeapInv, ShardOK
  <2>2. q = Restrict(ring, {i \in DOMAIN ring : ring[i].key \in Under(p) /\ ring[i].rev > r})
    BY <1>2 DEF Retained
  <2> HIDE DEF q, ring
  <2>3. \A i \in DOMAIN q : i \in DOMAIN ring /\ q[i] = ring[i] /\ ring[i].rev > r
    BY <2>2 DEF Restrict
  <2>4. \A i \in DOMAIN ring : ring[i].rev \in Nat
    <3>1. sent \in Nat
      BY WritingTypes DEF ViewInv
    <3> QED
      BY <2>1, <3>1 DEF Genuine
  <2>5. Genuine(log, q, sent + 1) /\ \A i \in DOMAIN q : r < q[i].rev
    BY <2>1, <2>3, <2>4 DEF Genuine
  <2> QED
    BY <2>5 DEF q
<1> QED BY <1>1, <1>2

Ended == {"off", "tombstones", "gone"}

\* What a step of stream w leaves: other streams as they are, and a client that
\* has been told no less.
Advances(w) ==
  /\ Moves(w)
  /\ st'[w].pc \notin Ended => Told(st'[w], view'[w], log, sent)

ClientTold(w) == st[w].pc \notin Ended => Told(st[w], view[w], log, sent)

LEMMA OpenTold ==
  ASSUME GcInv, ViewInv, NEW w \in Watchers, NEW p \in WatchPrefixes, NEW from \in 0 .. Len(log),
         NEW listed, OpenWatch(w, p, from, listed)
  PROVE  Advances(w)
<1> DEFINE y == st'[w]
           x == [NoStream EXCEPT !.pc = "resolve", !.prefix = p, !.from = from,
                                 !.cursor = sent + 1, !.last = from]
<1>1. /\ DOMAIN x = Fields
      /\ x.pc = "resolve" /\ x.prefix = p /\ x.from = from /\ x.cursor = sent + 1 /\ x.last = from
      /\ x.queue = Empty
  BY DEF NoStream, Fields
<1>2. st' = [st EXCEPT ![w] = x] /\ view' = [view EXCEPT ![w] = StateAt(from)]
  BY DEF OpenWatch
<1> HIDE DEF x
<1>3. y = x /\ view'[w] = StateAt(from)
  BY <1>2, Shapes
<1>4. Moves(w)
  <2>1. DOMAIN StateAt(from) = Keys
    BY DEF StateAt
  <2> HIDE DEF y
  <2> QED
    BY <1>1, <1>2, <2>1, Shapes DEF Moves, OnlyStream
<1>5. Told(y, view'[w], log, sent)
  <2>1. p \in AllPrefixes /\ sent \in Nat /\ Len(log) \in Nat
    BY WatchConstants, WritingTypes DEF ViewInv
  <2>2. ASSUME NEW k \in Under(p) PROVE StateAt(from)[k] = RowIn(log, k, from)
    <3>1. k \in Keys
      BY DEF Under
    <3>2. RowRev(k, from) = RowIn(log, k, from)
      BY RowRevIsRowIn
    <3> QED
      BY <3>1, <3>2 DEF StateAt
  <2>3. sent + 1 \in 1 .. sent + 1 /\ from \in Nat /\ from <= from
    BY <2>1
  <2>4. DOMAIN Empty = {}
    BY DEF Empty
  <2> QED
    BY <1>1, <1>3, <2>1, <2>2, <2>3, <2>4 DEF Told, Genuine
<1> QED
  BY <1>1, <1>3, <1>4, <1>5 DEF Advances

\* Steps that leave the client's revision, its queue and its view alone.
LEMMA QuietTold ==
  ASSUME NEW w \in Watchers, Moves(w), ClientTold(w), view' = view, st[w].pc \notin Ended,
         SameClient(st'[w], st[w]), st'[w].queue = st[w].queue
  PROVE  Advances(w)
<1>1. Told(st[w], view[w], log, sent)
  BY DEF ClientTold
<1>2. Told(st'[w], view'[w], log, sent)
  BY <1>1 DEF Told, SameClient
<1> QED
  BY <1>2 DEF Advances

LEMMA ResolvingTold ==
  ASSUME GcInv, ViewInv, NEW w \in Watchers, ClientTold(w),
         Resolve(w) \/ CreateShard(w) \/ ListForBackfill(w) \/ (\E r : BackfillRow(w, r))
  PROVE  Advances(w)
<1> DEFINE x == st[w]
           y == st'[w]
<1>1. view' = view /\ x.pc \in {"resolve", "create", "list", "backfill"}
  BY DEF Resolve, CreateShard, ListForBackfill, BackfillRow
<1>2. /\ OnlyStream(w) /\ SameClient(y, x) /\ y.queue = x.queue
  <2>1. CASE \E a, b : \E pc \in {"create", "attach"} :
               st' = [st EXCEPT ![w].sid = a, ![w].reused = b, ![w].pc = pc]
    BY <2>1, Shapes DEF OnlyStream, Fields, SameClient
  <2>2. CASE \E a : st' = [st EXCEPT ![w].pc = "list", ![w].sid = a]
    BY <2>2, Shapes DEF OnlyStream, Fields, SameClient
  <2>3. CASE \E a : st' = [st EXCEPT ![w].pc = "backfill", ![w].items = a]
    BY <2>3, Shapes DEF OnlyStream, Fields, SameClient
  <2>4. CASE x.pc = "backfill" /\ \E a : st' = [st EXCEPT ![w].items = a]
    BY <2>4, Shapes DEF OnlyStream, Fields, SameClient
  <2>5. Resolve(w) => \E a, b : \E pc \in {"create", "attach"} :
               st' = [st EXCEPT ![w].sid = a, ![w].reused = b, ![w].pc = pc]
    BY DEF Resolve
  <2>6. CreateShard(w) => \E a : st' = [st EXCEPT ![w].pc = "list", ![w].sid = a]
    BY DEF CreateShard
  <2>7. ListForBackfill(w) => \E a : st' = [st EXCEPT ![w].pc = "backfill", ![w].items = a]
    BY DEF ListForBackfill
  <2>8. (\E r : BackfillRow(w, r)) => x.pc = "backfill" /\ \E a : st' = [st EXCEPT ![w].items = a]
    BY DEF BackfillRow
  <2> QED
    BY <2>1, <2>2, <2>3, <2>4, <2>5, <2>6, <2>7, <2>8
<1>3. Moves(w)
  BY <1>1, <1>2, Shapes DEF Moves
<1>4. x.pc \notin Ended
  BY <1>1 DEF Ended
<1> QED
  BY <1>1, <1>2, <1>3, <1>4, QuietTold

LEMMA OpeningTold ==
  ASSUME GcInv, ViewInv, NEW w \in Watchers, ClientTold(w),
         BackfillDone(w) \/ Attach(w) \/ LoadHorizon(w) \/ Recovered(w) \/ Unrecovered(w)
  PROVE  Advances(w)
<1> DEFINE x == st[w]
           y == st'[w]
<1>1. view' = view /\ x.pc \in {"backfill", "attach", "horizon", "check"}
  BY DEF BackfillDone, Attach, LoadHorizon, Recovered, Unrecovered
<1>2. /\ OnlyStream(w) /\ SameClient(y, x) /\ y.queue = x.queue
  <2>1. \/ \E pc \in {"attach", "horizon", "live", "collect"} : st' = [st EXCEPT ![w].pc = pc]
        \/ \E h : st' = [st EXCEPT ![w].pc = "snapshot", ![w].horizon = h]
    BY DEF BackfillDone, Attach, LoadHorizon, Recovered, Unrecovered, Goto
  <2>2. CASE \E pc \in {"attach", "horizon", "live", "collect"} : st' = [st EXCEPT ![w].pc = pc]
    BY <2>2, Shapes DEF OnlyStream, Fields, SameClient
  <2>3. CASE \E h : st' = [st EXCEPT ![w].pc = "snapshot", ![w].horizon = h]
    BY <2>3, Shapes DEF OnlyStream, Fields, SameClient
  <2> QED
    BY <2>1, <2>2, <2>3
<1>3. Moves(w)
  BY <1>1, <1>2, Shapes DEF Moves
<1>4. x.pc \notin Ended
  BY <1>1 DEF Ended
<1> QED
  BY <1>1, <1>2, <1>3, <1>4, QuietTold

\* The ring is copied, on connect after `from' and in lag recovery after `last'.
LEMMA ScanTold ==
  ASSUME GcInv, ViewInv, NEW w \in Watchers, ClientTold(w), SnapshotRing(w) \/ ScanRing(w)
  PROVE  Advances(w)
<1> DEFINE x == st[w]
           y == st'[w]
<1>1. view' = view /\ x.pc \in {"snapshot", "scan"}
  BY DEF SnapshotRing, ScanRing
<1>2. Told(x, view[w], log, sent)
  BY <1>1 DEF ClientTold, Ended
<1>3. x.from \in Nat /\ x.last \in Nat /\ x.from <= x.last /\ x.prefix \in AllPrefixes
  BY <1>2, WritingTypes DEF Told, ViewInv
<1> DEFINE Copies(sid, r, d) ==
             \/ \E c : st' = [st EXCEPT ![w].pc = d, ![w].queue = Retained(sid, x.prefix, r),
                                       ![w].covered = c]
             \/ st' = [st EXCEPT ![w].pc = d, ![w].queue = Retained(sid, x.prefix, r)]
<1>4. PICK sid \in ShardIds \cup {None}, r \in {x.from, x.last}, d \in {"replay", "catchup"} :
        Copies(sid, r, d)
  <2>1. CASE SnapshotRing(w)
    <3>1. x.sid \in ShardIds
      <4>1. HeldShard(x, heap, since, shards, log, pushed, targets, used.shards)
        BY <2>1 DEF SnapshotRing, ViewInv, Opening
      <4> QED
        BY <4>1, Shapes DEF HeldShard
    <3>2. \E c : st' = [st EXCEPT ![w].pc = "replay", ![w].queue = Retained(x.sid, x.prefix, x.from),
                                  ![w].covered = c]
      BY <2>1 DEF SnapshotRing
    <3> QED
      BY <3>1, <3>2
  <2>2. CASE ScanRing(w)
    <3> DEFINE sid == FindShard(x.prefix)
    <3>1. sid = None \/ sid \in ShardIds
      <4>1. Parent(x.prefix) \in AllPrefixes
        BY <1>3, PrefixFacts
      <4>2. \A q \in AllPrefixes : shards[q] # None => shards[q] \in ShardIds
        BY Shapes DEF GcInv, OwnShard
      <4> QED
        BY <1>3, <4>1, <4>2 DEF FindShard, FindShardKey
    <3>2. st' = [st EXCEPT ![w].pc = "catchup", ![w].queue = Retained(sid, x.prefix, x.last)]
      BY <2>2 DEF ScanRing
    <3> HIDE DEF sid
    <3> QED
      BY <3>1, <3>2
  <2> QED
    BY <2>1, <2>2
<1> DEFINE q == Retained(sid, x.prefix, r)
<1>5. Genuine(log, q, sent + 1) /\ \A i \in DOMAIN q : r < q[i].rev
  BY <1>3, RetainedTold
<1>6. \/ \E c : st' = [st EXCEPT ![w].pc = d, ![w].queue = q, ![w].covered = c]
      \/ st' = [st EXCEPT ![w].pc = d, ![w].queue = q]
  BY <1>4
<1> HIDE DEF q, Copies
<1>7. OnlyStream(w) /\ SameClient(y, x) /\ y.queue = q /\ y.pc = d
  <2>1. CASE \E c : st' = [st EXCEPT ![w].pc = d, ![w].queue = q, ![w].covered = c]
    BY <2>1, Shapes DEF OnlyStream, Fields, SameClient
  <2>2. CASE st' = [st EXCEPT ![w].pc = d, ![w].queue = q]
    BY <2>2, Shapes DEF OnlyStream, Fields, SameClient
  <2> QED
    BY <1>6, <2>1, <2>2
<1>8. Moves(w)
  BY <1>1, <1>7, Shapes DEF Moves
<1>9. \A i \in DOMAIN q : x.from < q[i].rev
  <2> SUFFICES ASSUME NEW i \in DOMAIN q PROVE x.from < q[i].rev
    OBVIOUS
  <2>1. q[i].rev \in Nat /\ r < q[i].rev /\ x.from <= r
    <3>1. q[i].rev \in Nat
      BY <1>5, WritingTypes DEF Genuine, ViewInv
    <3> QED
      BY <1>3, <1>5, <3>1
  <2> QED
    BY <1>3, <2>1
<1>10. Told(y, view'[w], log, sent)
  BY <1>1, <1>2, <1>5, <1>7, <1>9 DEF Told, SameClient
<1> QED
  BY <1>7, <1>8, <1>10 DEF Advances

LEMMA ReplayTold ==
  ASSUME GcInv, ViewInv, NEW w \in Watchers, ClientTold(w), Replay(w) \/ Catchup(w)
  PROVE  Advances(w)
<1> DEFINE x == st[w]
           y == st'[w]
<1>1. x.pc \in {"replay", "catchup"}
  BY DEF Replay, Catchup
<1>2. Told(x, view[w], log, sent) /\ x.pc \notin Ended
  BY <1>1 DEF ClientTold, Ended
<1>3. CASE \E i \in DOMAIN x.queue : Yield(w, i)
  <2>1. PICK i \in DOMAIN x.queue : Yield(w, i)
    BY <1>3
  <2>2. /\ Moves(w) /\ y.pc = x.pc /\ y.prefix = x.prefix /\ y.from = x.from /\ y.cursor = x.cursor
        /\ y.last = Max({x.last, x.queue[i].rev}) /\ y.queue = Without(x.queue, {i})
        /\ view'[w] = Apply(view[w], x.queue[i])
    BY <2>1, YieldEffect
  <2>3. Len(log) \in Nat /\ sent \in Nat /\ DOMAIN view[w] = Keys
    BY WritingTypes, Shapes DEF ViewInv
  <2>4. Told(y, view'[w], log, sent)
    <3> HIDE DEF x, y
    <3> QED
      BY <1>2, <2>1, <2>2, <2>3, YieldTold
  <2> QED
    BY <1>1, <2>2, <2>4 DEF Advances
<1>4. CASE Drained(w, "live") \/ Drained(w, "check")
  <2>1. /\ Moves(w) /\ view' = view /\ y.pc \in {"live", "check"} /\ SameClient(y, x)
        /\ y.queue = x.queue
    BY <1>4, DrainedEffect
  <2> QED
    BY <1>2, <2>1, QuietTold
<1> QED
  BY <1>3, <1>4 DEF Replay, Catchup

LEMMA RecvTold ==
  ASSUME GcInv, ViewInv, NEW w \in Watchers, ClientTold(w), Recv(w)
  PROVE  Advances(w)
<1> DEFINE x == st[w]
           y == st'[w]
           e == log[x.cursor]
           Fresher == e.key \in Under(x.prefix) /\ e.rev > x.last
           v == Apply(view[w], e)
<1>1. x.pc = "live" /\ Unread(w) \in 1 .. BroadcastCapacity
  BY DEF Recv
<1>2. DOMAIN v = Keys /\ DOMAIN view[w] = Keys
  BY Shapes DEF Apply
<1>3. \/ Fresher /\ view' = [view EXCEPT ![w] = v]
                 /\ st' = [st EXCEPT ![w].cursor = @ + 1, ![w].last = e.rev]
      \/ ~Fresher /\ view' = view /\ st' = [st EXCEPT ![w].cursor = @ + 1]
  BY DEF Recv
<1>4. Told(x, view[w], log, sent) /\ Writing(log, sent, pushed, targets, used.shards)
  BY <1>1 DEF ClientTold, Ended, ViewInv
<1>5. x.cursor <= sent
  <2>1. sent \in Nat /\ x.cursor \in 1 .. sent + 1
    BY <1>4, WritingTypes DEF Told
  <2>2. BroadcastCapacity \in Nat
    BY WatchConstants
  <2> QED
    BY <1>1, <2>1, <2>2 DEF Unread
<1>6. Fresher => e.rev > x.last
  OBVIOUS
<1> HIDE DEF Fresher, v, e
<1>7. /\ Moves(w) /\ y.pc = x.pc /\ y.prefix = x.prefix /\ y.cursor = x.cursor + 1
      /\ y.from = x.from /\ y.queue = x.queue
      /\ \/ Fresher /\ view'[w] = v /\ y.last = e.rev
         \/ view'[w] = view[w] /\ y.last = x.last
  <2>1. CASE /\ Fresher /\ view' = [view EXCEPT ![w] = v]
             /\ st' = [st EXCEPT ![w].cursor = @ + 1, ![w].last = e.rev]
    BY <1>2, <2>1, Shapes DEF Moves, OnlyStream, Fields
  <2>2. CASE ~Fresher /\ view' = view /\ st' = [st EXCEPT ![w].cursor = @ + 1]
    BY <1>2, <2>2, Shapes DEF Moves, OnlyStream, Fields
  <2> QED
    BY <1>3, <2>1, <2>2
<1>8. Told(y, view'[w], log, sent)
  <2> HIDE DEF x, y
  <2>1. /\ e.rev > x.last /\ y.last = e.rev => Told(y, v, log, sent)
        /\ y.last = x.last => Told(y, view[w], log, sent)
    BY <1>2, <1>4, <1>5, <1>7, ReceivedTold DEF e, v
  <2> QED
    BY <1>6, <1>7, <2>1
<1> QED
  BY <1>1, <1>7, <1>8 DEF Advances

LEMMA LaggedTold ==
  ASSUME GcInv, ViewInv, NEW w \in Watchers, ClientTold(w), Lagged(w)
  PROVE  Advances(w)
<1> DEFINE x == st[w]
           y == st'[w]
<1>1. /\ st' = [st EXCEPT ![w].pc = "scan", ![w].cursor = sent + 1, ![w].lagged = TRUE]
      /\ view' = view /\ x.pc = "live"
  BY DEF Lagged
<1>2. /\ OnlyStream(w) /\ y.pc = "scan" /\ y.cursor = sent + 1 /\ y.prefix = x.prefix
      /\ y.from = x.from /\ y.last = x.last /\ y.queue = x.queue
  BY <1>1, Shapes DEF OnlyStream, Fields
<1>3. Moves(w)
  BY <1>1, <1>2, Shapes DEF Moves
<1>4. Told(x, view[w], log, sent)
  BY <1>1 DEF ClientTold, Ended
<1>5. sent + 1 \in 1 .. sent + 1
  BY WritingTypes DEF ViewInv
<1>6. Told(y, view'[w], log, sent)
  BY <1>1, <1>2, <1>4, <1>5 DEF Told
<1> QED
  BY <1>2, <1>3, <1>6 DEF Advances

LEMMA LeaveTold ==
  ASSUME GcInv, ViewInv, NEW w \in Watchers, Ending(w) \/ CloseWatch(w)
  PROVE  Advances(w)
<1>1. CASE Ending(w)
  <2>1. Moves(w) /\ st'[w].pc \in Ended
    BY <1>1, EndingEffect DEF Ended
  <2> QED
    BY <2>1 DEF Advances
<1>2. CASE CloseWatch(w)
  <2>1. st' = [st EXCEPT ![w] = NoStream] /\ view' = [view EXCEPT ![w] = StateAt(0)]
    BY <1>2 DEF CloseWatch
  <2>2. DOMAIN NoStream = Fields /\ NoStream.pc = "off" /\ DOMAIN StateAt(0) = Keys
    BY DEF NoStream, Fields, StateAt
  <2>3. Moves(w) /\ st'[w].pc = "off"
    BY <2>1, <2>2, Shapes DEF Moves, OnlyStream
  <2> QED
    BY <2>3 DEF Advances, Ended
<1> QED
  BY <1>1, <1>2

LEMMA StreamTold ==
  ASSUME GcInv, ViewInv, NEW w \in Watchers, ClientTold(w), StreamNext(w)
  PROVE  Advances(w)
<1>1. CASE \E p \in WatchPrefixes, from \in 0 .. Len(log), listed \in BOOLEAN :
             OpenWatch(w, p, from, listed)
  BY <1>1, OpenTold
<1>2. CASE Resolve(w) \/ CreateShard(w) \/ ListForBackfill(w)
           \/ \E r \in 1 .. Len(log) : BackfillRow(w, r)
  BY <1>2, ResolvingTold
<1>3. CASE BackfillDone(w) \/ Attach(w) \/ LoadHorizon(w) \/ Recovered(w) \/ Unrecovered(w)
  BY <1>3, OpeningTold
<1>4. CASE SnapshotRing(w) \/ ScanRing(w)
  BY <1>4, ScanTold
<1>5. CASE Replay(w) \/ Catchup(w)
  BY <1>5, ReplayTold
<1>6. CASE Ending(w) \/ CloseWatch(w)
  BY <1>6, LeaveTold
<1> QED
  BY <1>1, <1>2, <1>3, <1>4, <1>5, <1>6, RecvTold, LaggedTold DEF StreamNext, StreamStep, Ending

-------------------------------------------------------------------------------
(* The invariant behind DeletedBeforeGone, beside ViewInv.                  *)

\* What is committed and not pushed (m events are): one event for a key, and a
\* delete of a row that is there.
Pending(L, m) ==
  /\ \A i, j \in 1 .. Len(L) : m < i /\ m < j /\ L[i].key = L[j].key => i = j
  /\ \A j \in 1 .. Len(L) : m < j /\ L[j].op = "delete" => RowIn(L, L[j].key, m) # 0

\* A mapped shard keeps its deletion log, and is matched only with its own events.
Remembering(p, H, C, S, L, n, m, t) ==
  S[p] # None =>
    /\ DeletionLog(H[S[p]], C[S[p]], L, p, m)
    /\ t # None /\ S[p] \in t => L[n + 1].key \in Under(p)

DeletionInv ==
  /\ Pending(log, pushed)
  /\ \A p \in AllPrefixes : Remembering(p, heap, since, shards, log, sent, pushed, targets)
  /\ \A w \in Watchers : ClientTold(w)

\* get_or_create_shard: the new shard is complete for nothing pushed before it.
LEMMA SeedRemembers ==
  ASSUME GcInv, ViewInv, NEW p \in AllPrefixes, NEW shard, SeedShard(p, shard),
         DOMAIN shard.byKey \subseteq Deleted(log, p), NEW m \in Nat, NEW t,
         since'[NextShard] \in Nat, m <= since'[NextShard], t # None => t \subseteq 1 .. used.shards,
         \A q \in AllPrefixes \ {p} : Remembering(q, heap, since, shards, log, sent, m, t)
  PROVE  \A q \in AllPrefixes : Remembering(q, heap', since', shards', log, sent, m, t)
<1> DEFINE new == NextShard
<1>1. /\ shards' = [shards EXCEPT ![p] = new] /\ heap' = [heap EXCEPT ![new] = shard]
      /\ \E c : since' = [since EXCEPT ![new] = c]
      /\ new = used.shards + 1 /\ new <= MaxShards
      /\ since'[new] \in Nat /\ m <= since'[new]
  BY DEF SeedShard, NextShard
<1> HIDE DEF new
<1>2. new \in ShardIds /\ new \notin 1 .. used.shards /\ \A s \in 1 .. used.shards : s \in ShardIds \ {new}
  BY <1>1, Shapes DEF ShardIds
<1>3. /\ heap'[new] = shard
      /\ \A s \in ShardIds \ {new} : heap'[s] = heap[s] /\ since'[s] = since[s]
      /\ shards'[p] = new /\ \A q \in AllPrefixes \ {p} : shards'[q] = shards[q]
  BY <1>1, <1>2, Shapes
<1> SUFFICES ASSUME NEW q \in AllPrefixes
             PROVE  Remembering(q, heap', since', shards', log, sent, m, t)
  OBVIOUS
<1>4. CASE q = p
  <2>1. Len(log) \in Nat
    BY WritingTypes DEF ViewInv
  <2>2. DeletionLog(shard, since'[new], log, p, m)
    BY <1>1, <2>1, NothingToRemember
  <2>3. ~(t # None /\ new \in t)
    BY <1>2
  <2> QED
    BY <1>3, <1>4, <2>2, <2>3 DEF Remembering
<1>5. CASE q # p
  <2>1. Remembering(q, heap, since, shards, log, sent, m, t) /\ shards'[q] = shards[q]
    BY <1>3, <1>5
  <2>2. shards[q] # None => heap'[shards[q]] = heap[shards[q]] /\ since'[shards[q]] = since[shards[q]]
    BY <1>2, <1>3 DEF GcInv, OwnShard
  <2> QED
    BY <2>1, <2>2 DEF Remembering
<1> QED BY <1>4, <1>5

LEMMA CreateRemembers ==
  ASSUME GcInv, ViewInv, DeletionInv, NEW w \in Watchers, CreateShard(w)
  PROVE  \A q \in AllPrefixes : Remembering(q, heap', since', shards', log, sent, pushed, targets)
<1> DEFINE p == st[w].prefix
           shard == NewShard(FindReclaimedHorizon(p))
<1>1. CASE shards[p] # None
  <2>1. UNCHANGED <<shards, heap, since>>
    BY <1>1 DEF CreateShard, shardVars
  <2> QED
    BY <2>1 DEF DeletionInv
<1>2. CASE shards[p] = None
  <2>1. SeedShard(p, shard)
    BY <1>2 DEF CreateShard
  <2>2. p \in AllPrefixes
    BY DEF CreateShard, ViewInv, ClientOK, Opened
  <2>3. DOMAIN shard.byKey \subseteq Deleted(log, p)
    <3>1. shard.byKey = Empty /\ DOMAIN Empty = {}
      BY DEF NewShard, Empty
    <3> QED
      BY <3>1
  <2>4. /\ Writing(log, sent, pushed, targets, used.shards)
        /\ pushed \in Nat
    BY WritingTypes DEF ViewInv
  <2>5. since'[NextShard] = IF targets = None THEN pushed ELSE pushed + 1
    <3>1. NextShard \in ShardIds
      BY <2>1, Shapes DEF SeedShard, NextShard, ShardIds
    <3> QED
      BY <2>1, <3>1, Shapes DEF SeedShard
  <2>6. since'[NextShard] \in Nat /\ pushed <= since'[NextShard]
    BY <2>4, <2>5
  <2>7. targets # None => targets \subseteq 1 .. used.shards
    BY <2>4 DEF Writing
  <2>8. \A q \in AllPrefixes \ {p} : Remembering(q, heap, since, shards, log, sent, pushed, targets)
    BY DEF DeletionInv
  <2> HIDE DEF p, shard
  <2> QED
    BY <2>1, <2>2, <2>3, <2>4, <2>6, <2>7, <2>8, SeedRemembers
<1> QED BY <1>1, <1>2

LEMMA BackfillKeepsLog ==
  ASSUME GcInv, ViewInv, DeletionInv, NEW w \in Watchers, NEW r \in 1 .. Len(log), BackfillRow(w, r)
  PROVE  \A q \in AllPrefixes : Remembering(q, heap', since', shards', log, sent, pushed, targets)
<1> DEFINE x == st[w]
           sid == x.sid
           e == [key |-> log[r].key, rev |-> r, op |-> "put"]
           s == heap[sid]
           c == since[sid]
           t == PushIntoShard(s, e)
           d == IF RingTop(s) > r THEN Never
                ELSE IF shards[x.prefix] = sid THEN c ELSE Max({c, r})
<1>1. /\ heap' = [heap EXCEPT ![sid] = t] /\ since' = [since EXCEPT ![sid] = d]
      /\ x.pc = "backfill" /\ r \in x.items /\ shards' = shards
  BY DEF BackfillRow
<1>2. /\ Len(log) \in Nat /\ Len(log) < Never /\ Never \in Nat /\ sent \in Nat /\ pushed \in Nat
      /\ pushed <= Len(log) /\ log[r] \in EventSet /\ log[r].rev = r
  BY WritingTypes, NeverIsNat DEF ViewInv
<1>3. /\ Rows(x, log, sent)
      /\ HeldShard(x, heap, since, shards, log, pushed, targets, used.shards)
  BY <1>1 DEF ViewInv, ClientOK, Opening
<1>4. e = log[r] /\ log[r].op = "put"
  <2>1. log[r].op = "put"
    BY <1>1, <1>3 DEF Rows
  <2> QED
    BY <1>2, <2>1 DEF EventSet
<1>5. sid \in ShardIds
  BY <1>3, Shapes DEF HeldShard
<1>6. ShardOK(s, c, log, sent)
  BY <1>5 DEF ViewInv, HeapInv
<1> HIDE DEF e, t, d
<1>7. /\ heap'[sid] = t /\ since'[sid] = d
      /\ \A i \in ShardIds \ {sid} : heap'[i] = heap[i] /\ since'[i] = since[i]
  <2> HIDE DEF sid
  <2> QED
    BY <1>1, <1>5, Shapes
<1> HIDE DEF s, c
<1>8. c \in Nat /\ c <= Never /\ IsShard(s) /\ Genuine(log, s.ring, sent + 1)
  BY <1>2, <1>6 DEF ShardOK
<1>9. RingTop(s) \in Nat
  <2> DEFINE n == sent + 1
  <2>1. n \in Nat /\ Len(log) \in Nat
    BY <1>2
  <2>2. IsShard(s) /\ Genuine(log, s.ring, n)
    BY <1>8
  <2> HIDE DEF n
  <2>3. RingTop(s) \in 0 .. n
    BY <2>1, <2>2, TopFacts
  <2> QED
    BY <2>1, <2>3
<1>10. d \in Nat /\ c <= d /\ (d >= Len(log) \/ RingTop(s) <= r)
  <2>1. Max({c, r}) = IF c > r THEN c ELSE r
    BY <1>8, MaxOfTwo
  <2> QED
    BY <2>1, <1>2, <1>8, <1>9 DEF d
<1> SUFFICES ASSUME NEW q \in AllPrefixes, shards[q] # None
             PROVE  /\ DeletionLog(heap'[shards[q]], since'[shards[q]], log, q, pushed)
                    /\ targets # None /\ shards[q] \in targets => log[sent + 1].key \in Under(q)
  BY <1>1 DEF Remembering
<1>11. /\ DeletionLog(heap[shards[q]], since[shards[q]], log, q, pushed)
       /\ targets # None /\ shards[q] \in targets => log[sent + 1].key \in Under(q)
  BY DEF DeletionInv, Remembering
<1>12. CASE shards[q] = sid
  <2>1. DeletionLog(s, c, log, q, pushed)
    BY <1>11, <1>12 DEF s, c
  <2>2. DeletionLog(PushIntoShard(s, log[r]), d, log, q, pushed)
    BY <2>1, <1>2, <1>4, <1>8, <1>9, <1>10, BackfillRemembers
  <2> QED
    BY <2>2, <1>4, <1>7, <1>11, <1>12 DEF t
<1>13. CASE shards[q] # sid
  <2>1. shards[q] \in ShardIds \ {sid}
    BY <1>13, Shapes DEF GcInv, OwnShard
  <2> QED
    BY <2>1, <1>7, <1>11
<1> QED BY <1>12, <1>13

LEMMA StreamDeletion ==
  ASSUME GcInv, ViewInv, DeletionInv, NEW w \in Watchers, StreamNext(w)
  PROVE  DeletionInv'
<1>1. Advances(w)
  BY StreamTold DEF DeletionInv
<1>2. UNCHANGED <<log, sent, pushed, targets>>
  <2>1. (\E p \in WatchPrefixes, from \in 0 .. Len(log), listed \in BOOLEAN :
           OpenWatch(w, p, from, listed)) => UNCHANGED <<log, sent, pushed, targets>>
    BY DEF OpenWatch, writerVars
  <2>2. StreamStep(w) => UNCHANGED <<log, sent, pushed, targets>>
    BY DEF StreamStep, Resolve, CreateShard, ListForBackfill, BackfillRow, BackfillDone, Attach,
           LoadHorizon, SnapshotRing, Replay, Recv, Lagged, ScanRing, Catchup, Recovered,
           Unrecovered, CollectTombstones, YieldTombstone, Compacted, Goto, writerVars
  <2>3. CloseWatch(w) => UNCHANGED <<log, sent, pushed, targets>>
    BY DEF CloseWatch, writerVars
  <2> QED
    BY <2>1, <2>2, <2>3 DEF StreamNext
<1>3. \A q \in AllPrefixes : Remembering(q, heap', since', shards', log, sent, pushed, targets)
  <2>1. CASE CreateShard(w)
    BY <2>1, CreateRemembers
  <2>2. CASE \E r \in 1 .. Len(log) : BackfillRow(w, r)
    BY <2>2, BackfillKeepsLog
  <2>3. CASE ~CreateShard(w) /\ ~\E r \in 1 .. Len(log) : BackfillRow(w, r)
    <3>1. UNCHANGED <<heap, since, shards>>
      <4>1. (\E p \in WatchPrefixes, from \in 0 .. Len(log), listed \in BOOLEAN :
               OpenWatch(w, p, from, listed)) => UNCHANGED <<heap, since, shards>>
        BY DEF OpenWatch, shardVars
      <4>2. StreamStep(w) => UNCHANGED <<heap, since, shards>>
        BY <2>3 DEF StreamStep, Resolve, ListForBackfill, BackfillDone, Attach,
               LoadHorizon, SnapshotRing, Replay, Recv, Lagged, ScanRing, Catchup,
               Recovered, Unrecovered, CollectTombstones, YieldTombstone, Compacted, Goto, shardVars
      <4>3. CloseWatch(w) => UNCHANGED <<heap, since, shards>>
        BY DEF CloseWatch
      <4> QED
        BY <4>1, <4>2, <4>3 DEF StreamNext
    <3> QED
      BY <3>1 DEF DeletionInv
  <2> QED BY <2>1, <2>2, <2>3
<1>4. ASSUME NEW v \in Watchers PROVE ClientTold(v)'
  <2>1. CASE v = w
    BY <1>1, <1>2, <2>1 DEF Advances, ClientTold
  <2>2. CASE v # w
    <3>1. st'[v] = st[v] /\ view'[v] = view[v]
      BY <1>1, <2>2 DEF Advances, Moves, OnlyStream
    <3> QED
      BY <1>2, <3>1 DEF DeletionInv, ClientTold
  <2> QED BY <2>1, <2>2
<1>5. Pending(log, pushed)'
  BY <1>2 DEF DeletionInv
<1> QED
  BY <1>2, <1>3, <1>4, <1>5 DEF DeletionInv

\* A batch touches a key once, and deletes only what is there.
Fits(b) ==
  /\ \A i, j \in 1 .. Len(b) : b[i].key = b[j].key => i = j
  /\ \A i \in 1 .. Len(b) : b[i].op = "delete" => RowIn(log, b[i].key, Len(log)) # 0

LEMMA OneEventFits ==
  ASSUME NEW k \in Keys, NEW op, op = "delete" => Exists(k)
  PROVE  Fits(<<[key |-> k, rev |-> Len(log) + 1, op |-> op]>>)
<1> DEFINE e == [key |-> k, rev |-> Len(log) + 1, op |-> op]
<1>1. e.key = k /\ e.op = op
  OBVIOUS
<1>2. op = "delete" => RowIn(log, k, Len(log)) # 0
  BY RowRevIsRowIn DEF Exists
<1> HIDE DEF e
<1>3. Len(<<e>>) = 1 /\ <<e>>[1] = e /\ \A i \in 1 .. 1 : i = 1
  OBVIOUS
<1>4. Fits(<<e>>)
  BY <1>1, <1>2, <1>3 DEF Fits
<1> QED
  BY <1>4 DEF e

LEMMA NamespaceFits ==
  ASSUME NEW doomed \in SUBSET Keys, \A k \in doomed : Exists(k), NEW order \in SetToSeqs(doomed)
  PROVE  Fits([i \in 1 .. Len(order) |->
                 [key |-> order[i], rev |-> Len(log) + i, op |-> "delete"]])
<1> DEFINE n == Cardinality(doomed)
           b == [i \in 1 .. n |-> [key |-> order[i], rev |-> Len(log) + i, op |-> "delete"]]
<1>1. n \in Nat
  BY FS_Subset, FS_CardinalityType, WatchConstants
<1> HIDE DEF n
<1>2. order \in [1 .. n -> doomed] /\ \A i, j \in 1 .. n : i # j => order[i] # order[j]
  BY DEF SetToSeqs, n
<1>3. Len(order) = n
  BY <1>1, <1>2
<1>4. \A i \in 1 .. n : b[i].key = order[i]
  OBVIOUS
<1>5. Len(b) = n
  <2>1. DOMAIN b = 1 .. n
    OBVIOUS
  <2> HIDE DEF b
  <2> QED
    BY <1>1, <2>1
<1> HIDE DEF b
<1>6. \A i \in 1 .. n : RowIn(log, order[i], Len(log)) # 0
  BY <1>2, RowRevIsRowIn DEF Exists
<1>7. Fits(b)
  BY <1>2, <1>4, <1>5, <1>6 DEF Fits
<1> QED
  BY <1>3, <1>7 DEF b

\* A commit or a send: the log may grow, and nothing is pushed.
LEMMA GrowsDeletion ==
  ASSUME GcInv, ViewInv, DeletionInv, Extends(log', log), sent' \in Nat, sent <= sent',
         UNCHANGED <<pushed, targets>>, targets = None, SameCache, Pending(log', pushed)
  PROVE  DeletionInv'
<1>1. sent \in Nat /\ sent <= Len(log) /\ pushed \in Nat /\ pushed <= Len(log)
  BY WritingTypes DEF ViewInv
<1>2. ASSUME NEW p \in AllPrefixes
      PROVE  Remembering(p, heap, since, shards, log', sent', pushed, targets)
  <2> SUFFICES ASSUME shards[p] # None
               PROVE  DeletionLog(heap[shards[p]], since[shards[p]], log', p, pushed)
    BY DEF Remembering
  <2>1. DeletionLog(heap[shards[p]], since[shards[p]], log, p, pushed)
    BY DEF DeletionInv, Remembering
  <2> QED
    BY <1>1, <2>1, DeletionLogGrown
<1>3. ASSUME NEW w \in Watchers PROVE st[w].pc \notin Ended => Told(st[w], view[w], log', sent')
  BY <1>1, ToldGrown DEF DeletionInv, ClientTold
<1> QED
  BY <1>2, <1>3 DEF DeletionInv, ClientTold, SameCache

LEMMA CommitDeletion ==
  ASSUME GcInv, ViewInv, DeletionInv, NEW b, Batch(b), Fits(b), Commit(b)
  PROVE  DeletionInv'
<1>1. Writing(log, sent, pushed, targets, used.shards)
  BY DEF ViewInv
<1>2. /\ Len(log) \in Nat /\ sent = Len(log) /\ pushed = sent /\ targets = None
      /\ log \in Seq(EventSet)
  BY <1>1 DEF Commit, Idle, Writing
<1>3. b \in Seq(EventSet) /\ Len(b) \in Nat
  BY DEF Batch
<1>4. log' = log \o b
  BY DEF Commit
<1>5. /\ Len(log') = Len(log) + Len(b)
      /\ \A i \in 1 .. Len(log) : log'[i] = log[i]
      /\ \A i \in 1 .. Len(log') : i > Len(log) => log'[i] = b[i - Len(log)]
  BY <1>2, <1>3, <1>4
<1>6. Extends(log', log)
  BY <1>2, <1>3, <1>5 DEF Extends
<1>7. SameCache /\ UNCHANGED <<sent, pushed, targets>>
  BY DEF Commit, shardVars, SameCache
<1>8. \A i \in 1 .. Len(log') : i > Len(log) => i - Len(log) \in 1 .. Len(b)
  BY <1>2, <1>3, <1>5
<1>9. ASSUME NEW i \in 1 .. Len(log'), NEW j \in 1 .. Len(log'), Len(log) < i, Len(log) < j,
             log'[i].key = log'[j].key
      PROVE  i = j
  <2>1. b[i - Len(log)].key = b[j - Len(log)].key
    BY <1>5, <1>9
  <2>2. i - Len(log) = j - Len(log)
    BY <1>8, <1>9, <2>1 DEF Fits
  <2> QED
    BY <1>2, <2>2
<1>10. ASSUME NEW j \in 1 .. Len(log'), Len(log) < j, log'[j].op = "delete"
       PROVE  RowIn(log', log'[j].key, Len(log)) # 0
  <2> DEFINE k == log'[j].key
  <2>1. log'[j] = b[j - Len(log)] /\ j - Len(log) \in 1 .. Len(b)
    BY <1>5, <1>8, <1>10
  <2>2. RowIn(log, k, Len(log)) # 0
    BY <1>10, <2>1 DEF Fits
  <2>3. \A i \in 1 .. Len(log) : i > Len(log) => log'[i].key # k
    BY <1>2
  <2>4. Len(log) <= Len(log)
    BY <1>2
  <2> HIDE DEF k
  <2>5. RowIn(log', k, Len(log)) = RowIn(log, k, Len(log))
    BY <1>2, <1>5, <2>3, <2>4, RowInKept
  <2> QED
    BY <2>2, <2>5 DEF k
<1>11. Pending(log', pushed)
  BY <1>2, <1>9, <1>10 DEF Pending
<1>12. sent' \in Nat /\ sent <= sent'
  BY <1>2, <1>7
<1> QED
  BY <1>2, <1>6, <1>7, <1>11, <1>12, GrowsDeletion

LEMMA SendDeletion ==
  ASSUME GcInv, ViewInv, DeletionInv, Send
  PROVE  DeletionInv'
<1>1. Writing(log, sent, pushed, targets, used.shards)
  BY DEF ViewInv
<1>2. /\ log' = log /\ pushed' = pushed /\ targets' = targets /\ sent' = sent + 1 /\ pushed = sent + 1
  BY DEF Send
<1>3. SameCache
  BY DEF Send, SameCache, shardVars
<1>4. Len(log) \in Nat /\ sent \in Nat /\ pushed <= Len(log)
  BY <1>1, WritingTypes
<1>5. targets = None
  BY <1>1, <1>2, <1>4 DEF Writing
<1>6. Extends(log', log)
  BY <1>2, <1>4 DEF Extends
<1>7. Pending(log', pushed)
  BY <1>2 DEF DeletionInv
<1>8. sent' \in Nat /\ sent <= sent'
  BY <1>2, <1>4
<1> QED
  BY <1>2, <1>3, <1>5, <1>6, <1>7, <1>8, GrowsDeletion

\* The event after `sent' is matched with the shards of its own prefixes.
LEMMA MatchDeletion ==
  ASSUME GcInv, ViewInv, DeletionInv, MatchShards
  PROVE  DeletionInv'
<1> DEFINE k == log[sent + 1].key
           found == {shards[p] : p \in MatchingShards(k)}
<1>1. targets' = found /\ UNCHANGED <<log, pushed, sent>> /\ sent < Len(log)
  BY DEF MatchShards
<1>2. SameCache
  BY DEF MatchShards, shardVars, SameCache
<1>3. k \in Keys
  <2>1. /\ Len(log) \in Nat /\ sent \in Nat /\ \A i \in 1 .. Len(log) : log[i] \in EventSet
    BY WritingTypes DEF ViewInv
  <2>2. sent + 1 \in 1 .. Len(log)
    BY <1>1, <2>1
  <2> QED
    BY <2>1, <2>2 DEF EventSet
<1>4. \A s \in found : \E q \in AllPrefixes : shards[q] # None /\ shards[q] = s /\ q \in Matching(k)
  BY <1>3 DEF MatchingShards, AllPrefixes
<1>5. \A q \in Matching(k) : k \in Under(q)
  BY <1>3 DEF Matching, RootPrefix, Under
<1> HIDE DEF found, k
<1>6. ASSUME NEW p \in AllPrefixes
      PROVE  Remembering(p, heap, since, shards, log, sent, pushed, found)
  <2>1. ASSUME shards[p] # None, shards[p] \in found PROVE k \in Under(p)
    <3>1. PICK q \in AllPrefixes : shards[q] # None /\ shards[q] = shards[p] /\ q \in Matching(k)
      BY <1>4, <2>1
    <3>2. p = q
      BY <3>1 DEF GcInv, OwnShard
    <3> QED
      BY <1>5, <3>1, <3>2
  <2>2. Remembering(p, heap, since, shards, log, sent, pushed, targets)
    BY DEF DeletionInv
  <2> QED
    BY <2>1, <2>2 DEF Remembering, k
<1> QED
  BY <1>1, <1>2, <1>6 DEF DeletionInv, ClientTold, SameCache

\* One event more is pushed.
LEMMA PendingNext ==
  ASSUME NEW L, Len(L) \in Nat, NEW m \in Nat, m + 1 <= Len(L), Pending(L, m)
  PROVE  Pending(L, m + 1)
<1>1. \A i \in 1 .. Len(L) : m + 1 < i => m < i
  OBVIOUS
<1>2. \A i, j \in 1 .. Len(L) : m + 1 < i /\ m + 1 < j /\ L[i].key = L[j].key => i = j
  BY <1>1 DEF Pending
<1>3. ASSUME NEW j \in 1 .. Len(L), m + 1 < j, L[j].op = "delete"
      PROVE  RowIn(L, L[j].key, m + 1) # 0
  <2>1. RowIn(L, L[j].key, m) # 0
    BY <1>1, <1>3 DEF Pending
  <2>2. L[m + 1].key # L[j].key
    <3>1. m + 1 \in 1 .. Len(L) /\ m < m + 1 /\ m < j /\ m + 1 # j
      BY <1>3
    <3> QED
      BY <3>1 DEF Pending
  <2>3. \A i \in 1 .. m + 1 : i > m => L[i].key # L[j].key
    BY <2>2
  <2>4. m <= m + 1 /\ m + 1 \in Nat /\ \A i \in 1 .. m : L[i] = L[i]
    OBVIOUS
  <2>5. RowIn(L, L[j].key, m + 1) = RowIn(L, L[j].key, m)
    BY <2>3, <2>4, RowInKept
  <2> QED
    BY <2>1, <2>5
<1> QED
  BY <1>2, <1>3 DEF Pending

\* The event after `sent' goes into the shards S: those it was matched with, or
\* the root's shard that has come up since.
LEMMA PushedIntoRemembers ==
  ASSUME GcInv, ViewInv, DeletionInv, targets # None, NEW S, targets \subseteq S,
         \A p \in AllPrefixes : shards[p] # None /\ shards[p] \in S \ targets =>
           log[sent + 1].key \in Under(p),
         heap' = [s \in ShardIds |-> IF s \in S THEN PushIntoShard(heap[s], log[sent + 1])
                                     ELSE heap[s]],
         UNCHANGED <<shards, since>>
  PROVE  \A p \in AllPrefixes :
           Remembering(p, heap', since', shards', log, sent, sent + 1, None)
<1> DEFINE e == log[sent + 1]
<1>1. Writing(log, sent, pushed, targets, used.shards)
  BY DEF ViewInv
<1>2. /\ Len(log) \in Nat /\ sent \in Nat /\ pushed = sent /\ sent + 1 <= Len(log)
      /\ e \in EventSet /\ e.rev = sent + 1
  <2>1. /\ Len(log) \in Nat /\ sent \in Nat /\ pushed = sent /\ sent < Len(log)
        /\ \A i \in 1 .. Len(log) : log[i] \in EventSet /\ log[i].rev = i
    BY <1>1, WritingTypes DEF Writing
  <2> QED
    BY <2>1
<1> SUFFICES ASSUME NEW p \in AllPrefixes, shards[p] # None
             PROVE  DeletionLog(heap'[shards[p]], since[shards[p]], log, p, sent + 1)
  BY DEF Remembering
<1> DEFINE s == shards[p]
<1>3. s \in ShardIds
  BY Shapes DEF GcInv, OwnShard
<1>4. /\ DeletionLog(heap[s], since[s], log, p, sent)
      /\ s \in targets => e.key \in Under(p)
      /\ s \notin targets /\ e.key \in Under(p) => since[s] > sent
  BY <1>2 DEF DeletionInv, Remembering, ViewInv, Mapped
<1>5. IsShard(heap[s]) /\ since[s] \in Nat
  BY <1>3, NeverIsNat DEF ViewInv, HeapInv, ShardOK
<1>6. heap'[s] = IF s \in S THEN PushIntoShard(heap[s], e) ELSE heap[s]
  BY <1>3
<1>7. s \in S \ targets => e.key \in Under(p)
  OBVIOUS
<1> HIDE DEF s
<1>8. CASE s \in S
  <2>1. e.key \in Under(p)
    BY <1>4, <1>7, <1>8
  <2>2. DeletionLog(PushIntoShard(heap[s], log[sent + 1]), since[s], log, p, sent + 1)
    BY <2>1, <1>2, <1>4, <1>5, PushRemembers
  <2> QED
    BY <2>2, <1>6, <1>8 DEF s
<1>9. CASE s \notin S
  <2>1. e.key \in Under(p) => since[s] > sent
    BY <1>4, <1>9
  <2>2. DeletionLog(heap[s], since[s], log, p, sent + 1)
    BY <2>1, <1>2, <1>4, <1>5, PassedBy
  <2> QED
    BY <2>2, <1>6, <1>9 DEF s
<1> QED BY <1>8, <1>9

LEMMA PushedNewRemembers ==
  ASSUME GcInv, ViewInv, DeletionInv, targets = {}, targets # None,
         log[sent + 1].op # "put",
         SeedShard(RootPrefix(log[sent + 1].key),
                   PushIntoShard(NewShard(FindReclaimedHorizon(RootPrefix(log[sent + 1].key))),
                                 log[sent + 1]))
  PROVE  \A p \in AllPrefixes :
           Remembering(p, heap', since', shards', log, sent, sent + 1, None)
<1> DEFINE e == log[sent + 1]
           root == RootPrefix(e.key)
           fresh == NewShard(FindReclaimedHorizon(root))
           shard == PushIntoShard(fresh, e)
<1>1. Writing(log, sent, pushed, targets, used.shards)
  BY DEF ViewInv
<1>2. /\ Len(log) \in Nat /\ sent \in Nat /\ pushed = sent /\ sent + 1 <= Len(log)
      /\ sent + 1 \in 1 .. Len(log) /\ e \in EventSet /\ e.rev = sent + 1 /\ 0 \in 0 .. Never
  <2>1. /\ Len(log) \in Nat /\ sent \in Nat /\ pushed = sent /\ sent < Len(log)
        /\ (\A i \in 1 .. Len(log) : log[i] \in EventSet /\ log[i].rev = i) /\ Never \in Nat
    BY <1>1, WritingTypes, NeverIsNat DEF Writing
  <2> QED
    BY <2>1
<1>3. e.key \in Keys /\ e.op = "delete" /\ root \in AllPrefixes /\ e.key \in Under(root)
  <2>1. e.key \in Keys /\ e.op = "delete"
    BY <1>2 DEF EventSet
  <2> QED
    BY <2>1 DEF AllPrefixes, Matching, RootPrefix, Under
<1>4. SeedShard(root, shard)
  OBVIOUS
<1>5. since'[NextShard] = sent + 1
  <2>1. NextShard \in ShardIds
    BY Shapes DEF SeedShard, NextShard, ShardIds
  <2> QED
    BY <1>2, <1>4, <2>1, Shapes DEF SeedShard
<1>6. DOMAIN shard.byKey \subseteq {e.key}
  <2>1. IsShard(fresh)
    BY <1>2, <1>3, FloorIsNat, NewShardOK DEF ShardOK
  <2>2. DOMAIN fresh.byKey = {}
    BY DEF NewShard, Empty
  <2> HIDE DEF fresh
  <2>3. DOMAIN shard.byKey \subseteq DOMAIN fresh.byKey \cup {e.key}
    BY <1>3, <2>1, PushNames
  <2> QED
    BY <2>2, <2>3
<1>7. e.key \in Deleted(log, root)
  BY <1>2, <1>3 DEF Deleted
<1>8. ASSUME NEW q \in AllPrefixes \ {root}
      PROVE  Remembering(q, heap, since, shards, log, sent, sent + 1, None)
  <2> DEFINE s == shards[q]
  <2> SUFFICES ASSUME s # None PROVE DeletionLog(heap[s], since[s], log, q, sent + 1)
    BY DEF Remembering
  <2>1. /\ DeletionLog(heap[s], since[s], log, q, sent)
        /\ e.key \in Under(q) => since[s] > sent
    BY <1>2 DEF DeletionInv, Remembering, ViewInv, Mapped
  <2>2. s \in ShardIds
    BY Shapes DEF GcInv, OwnShard
  <2>3. since[s] \in Nat
    BY <2>2, NeverIsNat DEF ViewInv, HeapInv, ShardOK
  <2> HIDE DEF s
  <2> QED
    BY <2>1, <2>3, <1>2, PassedBy
<1>9. sent + 1 \in Nat /\ since'[NextShard] \in Nat /\ sent + 1 <= since'[NextShard]
  BY <1>2, <1>5
<1>10. DOMAIN shard.byKey \subseteq Deleted(log, root)
  BY <1>6, <1>7
<1> HIDE DEF shard, root
<1> QED
  BY <1>3, <1>4, <1>8, <1>9, <1>10, SeedRemembers

LEMMA PushDeletion ==
  ASSUME GcInv, ViewInv, DeletionInv, PushShards
  PROVE  DeletionInv'
<1> DEFINE e == log[sent + 1]
           root == RootPrefix(e.key)
           PushTo(S) == heap' = [s \in ShardIds |->
                                   IF s \in S THEN PushIntoShard(heap[s], e) ELSE heap[s]]
<1>1. /\ targets # None /\ targets' = None /\ pushed' = sent + 1
      /\ UNCHANGED <<log, sent, st, view>>
  BY DEF PushShards
<1>2. /\ Len(log) \in Nat /\ sent \in Nat /\ pushed = sent /\ sent + 1 <= Len(log) /\ e \in EventSet
  <2>1. /\ Len(log) \in Nat /\ sent \in Nat /\ pushed = sent /\ sent < Len(log)
        /\ \A i \in 1 .. Len(log) : log[i] \in EventSet
    BY <1>1, WritingTypes DEF ViewInv, Writing
  <2> QED
    BY <2>1
<1>3. root \in AllPrefixes /\ e.key \in Under(root)
  <2>1. e.key \in Keys
    BY <1>2 DEF EventSet
  <2> QED
    BY <2>1 DEF AllPrefixes, Matching, RootPrefix, Under
<1>4. \/ PushTo(targets) /\ UNCHANGED <<shards, since>>
      \/ targets = {} /\ shards[root] # None /\ PushTo({shards[root]}) /\ UNCHANGED <<shards, since>>
      \/ /\ targets = {} /\ e.op # "put"
         /\ SeedShard(root, PushIntoShard(NewShard(FindReclaimedHorizon(root)), e))
  BY DEF PushShards
<1>5. \A p \in AllPrefixes : Remembering(p, heap', since', shards', log, sent, sent + 1, None)
  <2>1. CASE PushTo(targets) /\ UNCHANGED <<shards, since>>
    BY <1>1, <2>1, PushedIntoRemembers
  <2>2. CASE /\ targets = {} /\ shards[root] # None /\ PushTo({shards[root]})
             /\ UNCHANGED <<shards, since>>
    <3>1. ASSUME NEW p \in AllPrefixes, shards[p] # None, shards[p] = shards[root]
          PROVE  e.key \in Under(p)
      <4>1. p = root
        BY <1>3, <3>1 DEF GcInv, OwnShard
      <4> QED
        BY <1>3, <4>1
    <3>2. targets \subseteq {shards[root]}
      BY <2>2
    <3> DEFINE S == {shards[root]}
    <3>3. /\ targets \subseteq S
          /\ \A p \in AllPrefixes : shards[p] # None /\ shards[p] \in S \ targets => e.key \in Under(p)
          /\ PushTo(S)
      BY <2>2, <3>1, <3>2
    <3> HIDE DEF S
    <3> QED
      BY <1>1, <2>2, <3>3, PushedIntoRemembers
  <2>3. CASE /\ targets = {} /\ e.op # "put"
             /\ SeedShard(root, PushIntoShard(NewShard(FindReclaimedHorizon(root)), e))
    BY <1>1, <2>3, PushedNewRemembers
  <2> QED
    BY <1>4, <2>1, <2>2, <2>3
<1>6. Pending(log, sent + 1)
  BY <1>2, PendingNext DEF DeletionInv
<1> QED
  BY <1>1, <1>5, <1>6 DEF DeletionInv, ClientTold

LEMMA WriterDeletion ==
  ASSUME GcInv, ViewInv, DeletionInv, WriterNext
  PROVE  DeletionInv'
<1>1. ASSUME NEW k \in Keys, Put(k) \/ Delete(k) PROVE DeletionInv'
  <2>1. PICK op \in {"put", "delete"} :
          /\ Commit(<<[key |-> k, rev |-> Len(log) + 1, op |-> op]>>)
          /\ op = "delete" => Exists(k)
    BY <1>1 DEF Put, Delete
  <2> DEFINE b == <<[key |-> k, rev |-> Len(log) + 1, op |-> op]>>
  <2>2. Batch(b) /\ Fits(b)
    BY <2>1, OneEventBatch, OneEventFits
  <2>3. Commit(b)
    BY <2>1
  <2> HIDE DEF b
  <2> QED
    BY <2>2, <2>3, CommitDeletion
<1>2. ASSUME NEW ns, DeleteNamespace(ns) PROVE DeletionInv'
  <2> DEFINE doomed == {k \in Keys : NsOf[k] = ns /\ Exists(k)}
             b(order) == [i \in 1 .. Len(order) |->
                            [key |-> order[i], rev |-> Len(log) + i, op |-> "delete"]]
  <2>1. PICK order \in SetToSeqs(doomed) : Commit(b(order))
    BY <1>2 DEF DeleteNamespace
  <2>2. Batch(b(order)) /\ Fits(b(order))
    <3>1. doomed \in SUBSET Keys /\ \A k \in doomed : Exists(k)
      OBVIOUS
    <3> HIDE DEF doomed
    <3> QED
      BY <3>1, NamespaceBatch, NamespaceFits
  <2> HIDE DEF b
  <2> QED
    BY <2>1, <2>2, CommitDeletion
<1> QED
  BY <1>1, <1>2, MatchDeletion, PushDeletion, SendDeletion DEF WriterNext

\* Shards that leave the map take nothing from those that stay.
LEMMA ShardDeletion ==
  ASSUME GcInv, ViewInv, DeletionInv, ShardNext
  PROVE  DeletionInv'
<1>1. UNCHANGED <<log, sent, pushed, targets, heap, since, st, view>>
  BY DEF ShardNext, IdleGcRemove, TearDownShard, IdleGcDecline, PreserveReclaimedHorizon, EvictStart,
         writerVars
<1>2. \A q \in AllPrefixes : shards'[q] = shards[q] \/ shards'[q] = None
  <2>1. \/ \E p \in AllPrefixes : shards' = [shards EXCEPT ![p] = None]
        \/ shards' = shards
    BY DEF ShardNext, IdleGcRemove, TearDownShard, IdleGcDecline, PreserveReclaimedHorizon, EvictStart
  <2> QED
    BY <2>1, Shapes
<1>3. ASSUME NEW p \in AllPrefixes
      PROVE  Remembering(p, heap, since, shards', log, sent, pushed, targets)
  <2>1. Remembering(p, heap, since, shards, log, sent, pushed, targets)
    BY DEF DeletionInv
  <2>2. shards'[p] = shards[p] \/ shards'[p] = None
    BY <1>2
  <2> QED
    BY <2>1, <2>2 DEF Remembering
<1> QED
  BY <1>1, <1>3 DEF DeletionInv, ClientTold

\* At start-up nothing is mapped, nothing is in flight and nobody watches.
LEMMA FreshDeletion ==
  ASSUME NEW L, Len(L) \in Nat
  PROVE  Pending(L, Len(L))
<1>1. \A i \in 1 .. Len(L) : ~(Len(L) < i)
  OBVIOUS
<1> QED
  BY <1>1 DEF Pending

LEMMA RestartDeletion ==
  ASSUME GcInv, ViewInv, DeletionInv, Restart
  PROVE  DeletionInv'
<1>1. /\ log' = log /\ pushed' = Len(log)
      /\ shards' = [p \in AllPrefixes |-> None] /\ st' = [w \in Watchers |-> NoStream]
  BY DEF Restart, Fresh
<1>2. Len(log) \in Nat
  BY WritingTypes DEF ViewInv
<1>3. Pending(log', pushed')
  BY <1>1, <1>2, FreshDeletion
<1>4. \A p \in AllPrefixes : Remembering(p, heap', since', shards', log', sent', pushed', targets')
  BY <1>1 DEF Remembering
<1>5. ASSUME NEW w \in Watchers PROVE ClientTold(w)'
  <2>1. st'[w] = NoStream /\ NoStream.pc = "off"
    BY <1>1 DEF NoStream
  <2> QED
    BY <2>1 DEF ClientTold, Ended
<1> QED
  BY <1>3, <1>4, <1>5 DEF DeletionInv

LEMMA InitDeletion == Init => DeletionInv
<1> SUFFICES ASSUME Init PROVE DeletionInv
  OBVIOUS
<1>1. /\ log = <<>> /\ pushed = 0
      /\ shards = [p \in AllPrefixes |-> None] /\ st = [w \in Watchers |-> NoStream]
  BY DEF Init
<1>2. Len(log) = 0 /\ Len(log) \in Nat
  BY <1>1
<1>3. Pending(log, pushed)
  BY <1>1, <1>2, FreshDeletion
<1>4. \A p \in AllPrefixes : Remembering(p, heap, since, shards, log, sent, pushed, targets)
  BY <1>1 DEF Remembering
<1>5. ASSUME NEW w \in Watchers PROVE ClientTold(w)
  <2>1. st[w] = NoStream /\ NoStream.pc = "off"
    BY <1>1 DEF NoStream
  <2> QED
    BY <2>1 DEF ClientTold, Ended
<1> QED
  BY <1>3, <1>4, <1>5 DEF DeletionInv

LEMMA NextDeletion ==
  ASSUME GcInv, ViewInv, DeletionInv, [Next]_vars
  PROVE  DeletionInv'
<1>1. CASE UNCHANGED vars
  <2>1. UNCHANGED <<log, sent, pushed, targets, shards, heap, since, st, view>>
    BY <1>1 DEF vars, writerVars, shardVars
  <2> QED
    BY <2>1 DEF DeletionInv, ClientTold
<1>2. CASE Next
  BY <1>2, WriterDeletion, ShardDeletion, StreamDeletion, RestartDeletion DEF Next
<1> QED BY <1>1, <1>2

\* What the mapped shards remember of deletions and what every client has been
\* told, in every reachable state.
THEOREM DeletionInvariant == Spec => [](GcInv /\ ViewInv /\ DeletionInv)
<1>1. GcInv /\ ViewInv /\ DeletionInv /\ [Next]_vars => DeletionInv'
  BY NextDeletion
<1>2. Init => DeletionInv
  BY InitDeletion
<1> QED
  BY <1>1, <1>2, ViewInvariant, PTL DEF Spec

\* The deletion log tells a client that was at from that k is gone.
Recalls(s, k, from) == k \in DOMAIN s.byKey /\ s.byKey[k] > from

\* k is gone from the log L, which the shard s, complete since c, has up to m.
GoneFrom(L, m, s, c, q, k) ==
  /\ Len(L) \in Nat /\ m \in Nat /\ m <= Len(L) /\ Pending(L, m)
  /\ c \in Nat /\ DeletionLog(s, c, L, q, m)
  /\ Cardinality(Deleted(L, q)) <= StrippedTierCap
  /\ k \in Under(q) /\ RowIn(L, k, m) = 0 /\ RowIn(L, k, Len(L)) = 0

\* The deletion log of a shard complete since the client's revision has every
\* name that is gone and that the client may still hold.
LEMMA GoneIsRemembered ==
  ASSUME NEW L, NEW m, NEW s, NEW c, NEW q, NEW k, GoneFrom(L, m, s, c, q, k),
         NEW from \in 0 .. Len(L), c <= from
  PROVE  Recalls(s, k, from) \/ (RowIn(L, k, from) = 0 /\ ~LaterOn(L, k, from))
<1> USE DEF Recalls
<1>0. /\ Len(L) \in Nat /\ m \in Nat /\ m <= Len(L) /\ Pending(L, m)
      /\ c \in Nat /\ DeletionLog(s, c, L, q, m)
      /\ Cardinality(Deleted(L, q)) <= StrippedTierCap
      /\ k \in Under(q) /\ RowIn(L, k, m) = 0 /\ RowIn(L, k, Len(L)) = 0
  BY DEF GoneFrom
<1> USE <1>0
<1>1. CASE \A i \in 1 .. Len(L) : L[i].key # k
  <2>1. ~LaterOn(L, k, from)
    BY <1>1 DEF LaterOn
  <2>2. \A i \in 1 .. from : L[i].key # k
    BY <1>1
  <2> QED
    BY <2>1, <2>2, RowInNone
<1>2. CASE \E i \in 1 .. Len(L) : L[i].key = k
  <2>1. PICK j \in 1 .. Len(L) : LastOn(L, k, Len(L), j)
    BY <1>2, SomeLast
  <2>2. L[j].key = k /\ L[j].op = "delete" /\ \A i \in 1 .. Len(L) : L[i].key = k => i <= j
    <3>1. RowIn(L, k, Len(L)) = IF L[j].op = "delete" THEN 0 ELSE j
      BY <2>1, RowInLast
    <3>2. j # 0
      OBVIOUS
    <3> QED
      BY <2>1, <3>1, <3>2 DEF LastOn
  <2>3. CASE j <= from
    <3>1. ~LaterOn(L, k, from)
      BY <2>2, <2>3 DEF LaterOn
    <3>2. /\ from \in Nat /\ from <= Len(L) /\ (\A i \in 1 .. from : L[i] = L[i])
          /\ \A i \in 1 .. Len(L) : i > from => L[i].key # k
      BY <2>2, <2>3
    <3>3. RowIn(L, k, Len(L)) = RowIn(L, k, from)
      BY <3>2, RowInKept
    <3> QED
      BY <3>1, <3>3
  <2>4. CASE j > from
    <3>1. j <= m
      <4> SUFFICES ASSUME m < j PROVE FALSE
        OBVIOUS
      <4> QED
        BY <2>2 DEF Pending
    <3>2. LastOn(L, k, m, j)
      BY <2>2, <3>1 DEF LastOn
    <3>3. ~Coming(L, k, m)
      <4> SUFFICES ASSUME Coming(L, k, m) PROVE FALSE
        OBVIOUS
      <4>1. PICK i \in 1 .. Len(L) : m < i /\ L[i].key = k
        BY DEF Coming
      <4> QED
        BY <2>2, <3>1, <4>1
    <3>4. c < j
      BY <2>4
    <3>5. Remembers(s, k, j)
      BY <2>2, <3>2, <3>3, <3>4 DEF DeletionLog
    <3> QED
      BY <2>4, <3>5 DEF Remembers
  <2> QED
    BY <2>3, <2>4
<1> QED
  BY <1>1, <1>2

-------------------------------------------------------------------------------
(* The reclaimed floors.                                                    *)

\* preserve_reclaimed_horizon's floor is the higher of the eviction floor and
\* the ring's last revision, and in an ordered ring no event is above it.
LEMMA FloorFacts ==
  ASSUME NEW s, IsShard(s), NEW L, Len(L) \in Nat, NEW n \in Nat, Genuine(L, s.ring, n)
  PROVE  /\ FloorOf(s) \in Nat /\ s.horizon <= FloorOf(s) /\ RingTop(s) <= FloorOf(s)
         /\ FloorOf(s) = s.horizon \/ FloorOf(s) = RingTop(s)
         /\ InOrder(s.ring) => \A i \in DOMAIN s.ring : s.ring[i].rev <= FloorOf(s)
<1>1. s.horizon \in Nat /\ s.ring \in Seq(EventSet)
  BY DEF IsShard
<1>2. RingTop(s) \in Nat /\ (InOrder(s.ring) => \A i \in DOMAIN s.ring : s.ring[i].rev <= RingTop(s))
  <2>1. RingTop(s) \in 0 .. n
    BY TopFacts
  <2>2. InOrder(s.ring) => \A i \in DOMAIN s.ring : s.ring[i].rev <= RingTop(s)
    BY TopFacts
  <2> QED
    BY <2>1, <2>2
<1>3. FloorOf(s) = IF s.horizon > RingTop(s) THEN s.horizon ELSE RingTop(s)
  <2>1. CASE s.ring = <<>>
    BY <1>1, <2>1 DEF FloorOf, RingTop
  <2>2. CASE s.ring # <<>>
    <3>1. FloorOf(s) = Max({s.horizon, RingTop(s)})
      BY <2>2 DEF FloorOf, RingTop, Last
    <3> QED
      BY <1>1, <1>2, <3>1, MaxOfTwo
  <2> QED BY <2>1, <2>2
<1>4. \A i \in DOMAIN s.ring : s.ring[i].rev \in Nat
  <2>1. \A i \in DOMAIN s.ring : s.ring[i] \in EventSet
    BY <1>1
  <2> QED
    BY <2>1 DEF EventSet
<1> HIDE DEF FloorOf
<1>5. FloorOf(s) \in Nat /\ s.horizon <= FloorOf(s) /\ RingTop(s) <= FloorOf(s)
      /\ (FloorOf(s) = s.horizon \/ FloorOf(s) = RingTop(s))
  BY <1>1, <1>2, <1>3
<1>6. InOrder(s.ring) => \A i \in DOMAIN s.ring : s.ring[i].rev <= FloorOf(s)
  BY <1>2, <1>4, <1>5
<1> QED
  BY <1>5, <1>6

\* An event that is not older than the ring does not lower the floor.
LEMMA FloorGrows ==
  ASSUME NEW s, IsShard(s), NEW L, Len(L) \in Nat, NEW n \in Nat, Genuine(L, s.ring, n),
         NEW e \in EventSet, NEW t, AfterPush(t, s, e), Genuine(L, t.ring, n), RingTop(s) <= e.rev
  PROVE  FloorOf(s) <= FloorOf(t) /\ s.horizon <= t.horizon
<1>1. /\ FloorOf(s) \in Nat /\ (FloorOf(s) = s.horizon \/ FloorOf(s) = RingTop(s))
      /\ s.horizon \in Nat /\ RingTop(s) \in 0 .. n
  BY FloorFacts, TopFacts DEF IsShard
<1>2. IsShard(t) /\ s.horizon <= t.horizon
  BY DEF AfterPush
<1>3. FloorOf(t) \in Nat /\ t.horizon <= FloorOf(t) /\ RingTop(t) <= FloorOf(t)
      /\ t.horizon \in Nat
  BY <1>2, FloorFacts DEF IsShard
<1>4. RingTop(t) = e.rev /\ e.rev \in Nat
  BY TopPush DEF EventSet
<1> QED
  BY <1>1, <1>2, <1>3, <1>4

\* A floor of prefix p waits in P, and it is the only one.
Waits(p, P)   == \E i \in ShardIds : <<p, i>> \in P
Only(p, i, P) == <<p, i>> \in P /\ \A j \in ShardIds : <<p, j>> \in P => j = i

\* Revision n is at most the floor kept for p: by its shard, by the one shard
\* whose floor waits, by its entry.
Kept(n, p, S, H, P, E) ==
  IF S[p] # None THEN n <= FloorOf(H[S[p]])
  ELSE IF Waits(p, P) THEN \E i \in ShardIds : Only(p, i, P) /\ n <= FloorOf(H[i])
  ELSE n <= E[p]

\* ... or for the type, or for every prefix.
FloorKept(q, n, S, H, P, E, o) ==
  n <= o \/ Kept(n, q, S, H, P, E) \/ Kept(n, Parent(q), S, H, P, E)

\* Revision n is at most what find_reclaimed_horizon will answer for a type.
RootKept(q, n, S, H, P, E, o) ==
  IF S[q] # None THEN n <= H[S[q]].horizon
  ELSE IF Waits(q, P) THEN n = 0 \/ \E i \in ShardIds : Only(q, i, P) /\ n <= FloorOf(H[i])
  ELSE n <= IF E[q] # 0 THEN E[q] ELSE o

Covers(q, l, S, H, P, E, o) ==
  /\ FloorKept(q, l[q], S, H, P, E, o)
  /\ q = Parent(q) => RootKept(q, l[q], S, H, P, E, o)

Ordered(C, u) == \A i \in 1 .. u : C[i] # Never

FloorsInv ==
  /\ DOMAIN lost = AllPrefixes /\ \A q \in AllPrefixes : lost[q] \in Nat
  /\ preserving \subseteq AllPrefixes \X (1 .. used.shards)
  /\ Ordered(since, used.shards) =>
       \A q \in AllPrefixes : Covers(q, lost, shards, heap, preserving, entries, overflow)

\* The shards only gain events, and no event is older than their last.
LEMMA FloorsGrow ==
  ASSUME GcInv, FloorsInv, UNCHANGED <<lost, shards, preserving, entries, overflow>>,
         used'.shards = used.shards,
         Ordered(since', used.shards) => Ordered(since, used.shards),
         Ordered(since', used.shards) =>
           \A i \in 1 .. used.shards :
             /\ {FloorOf(heap[i]), FloorOf(heap'[i]), heap[i].horizon, heap'[i].horizon} \subseteq Nat
             /\ FloorOf(heap[i]) <= FloorOf(heap'[i])
             /\ heap[i].horizon <= heap'[i].horizon
  PROVE  FloorsInv'
<1>1. /\ DOMAIN lost' = AllPrefixes /\ \A q \in AllPrefixes : lost'[q] \in Nat
      /\ preserving' \subseteq AllPrefixes \X (1 .. used'.shards)
  BY DEF FloorsInv
<1>2. ASSUME Ordered(since', used.shards), NEW q \in AllPrefixes
      PROVE  Covers(q, lost, shards, heap', preserving, entries, overflow)
  <2>1. Covers(q, lost, shards, heap, preserving, entries, overflow)
    BY <1>2 DEF FloorsInv
  <2>2. /\ \A p \in AllPrefixes : shards[p] # None => shards[p] \in 1 .. used.shards
        /\ \A p, i : <<p, i>> \in preserving => i \in 1 .. used.shards
    BY DEF GcInv, OwnShard, FloorsInv
  <2>3. \A n \in Nat : \A i \in 1 .. used.shards :
          /\ n <= FloorOf(heap[i]) => n <= FloorOf(heap'[i])
          /\ n <= heap[i].horizon => n <= heap'[i].horizon
    BY <1>2
  <2>4. lost[q] \in Nat /\ Parent(q) \in AllPrefixes
    BY PrefixFacts DEF FloorsInv
  <2> DEFINE n == lost[q]
  <2>5. ASSUME NEW p \in AllPrefixes, Kept(n, p, shards, heap, preserving, entries)
        PROVE  Kept(n, p, shards, heap', preserving, entries)
    <3> HIDE DEF n
    <3>1. CASE shards[p] # None
      BY <3>1, <2>2, <2>3, <2>4, <2>5 DEF Kept, n
    <3>2. CASE shards[p] = None /\ Waits(p, preserving)
      <4>1. PICK i \in ShardIds : Only(p, i, preserving) /\ n <= FloorOf(heap[i])
        BY <3>2, <2>5 DEF Kept
      <4>2. i \in 1 .. used.shards
        BY <4>1, <2>2 DEF Only
      <4>3. n <= FloorOf(heap'[i])
        BY <4>1, <4>2, <2>3, <2>4 DEF n
      <4> QED
        BY <3>2, <4>1, <4>3 DEF Kept
    <3>3. CASE shards[p] = None /\ ~Waits(p, preserving)
      BY <3>3, <2>5 DEF Kept
    <3> QED BY <3>1, <3>2, <3>3
  <2>6. FloorKept(q, n, shards, heap', preserving, entries, overflow)
    <3>1. FloorKept(q, n, shards, heap, preserving, entries, overflow)
      BY <2>1 DEF Covers
    <3> HIDE DEF n
    <3> QED
      BY <3>1, <2>4, <2>5 DEF FloorKept
  <2>7. ASSUME q = Parent(q) PROVE RootKept(q, n, shards, heap', preserving, entries, overflow)
    <3>1. RootKept(q, n, shards, heap, preserving, entries, overflow)
      BY <2>1, <2>7 DEF Covers
    <3> HIDE DEF n
    <3>2. CASE shards[q] # None
      BY <3>1, <3>2, <2>2, <2>3, <2>4 DEF RootKept, n
    <3>3. CASE shards[q] = None /\ Waits(q, preserving) /\ n # 0
      <4>1. PICK i \in ShardIds : Only(q, i, preserving) /\ n <= FloorOf(heap[i])
        BY <3>1, <3>3 DEF RootKept
      <4>2. i \in 1 .. used.shards
        BY <4>1, <2>2 DEF Only
      <4>3. n <= FloorOf(heap'[i])
        BY <4>1, <4>2, <2>3, <2>4 DEF n
      <4> QED
        BY <3>3, <4>1, <4>3 DEF RootKept
    <3>4. CASE shards[q] = None /\ (~Waits(q, preserving) \/ n = 0)
      BY <3>1, <3>4 DEF RootKept
    <3> QED BY <3>2, <3>3, <3>4
  <2> QED
    BY <2>6, <2>7 DEF Covers
<1> QED
  BY <1>1, <1>2 DEF FloorsInv

\* Nothing has happened to prefix q.
Untouched(q, S, H, P, E, S2, H2, P2, E2) ==
  /\ S2[q] = S[q] /\ E2[q] = E[q]
  /\ S[q] # None => H2[S[q]] = H[S[q]]
  /\ \A i \in ShardIds : <<q, i>> \in P2 <=> <<q, i>> \in P
  /\ \A i \in ShardIds : <<q, i>> \in P => H2[i] = H[i]

LEMMA UntouchedKept ==
  ASSUME NEW q, NEW S, NEW H, NEW P, NEW E, NEW S2, NEW H2, NEW P2, NEW E2,
         Untouched(q, S, H, P, E, S2, H2, P2, E2)
  PROVE  /\ \A n : Kept(n, q, S, H, P, E) => Kept(n, q, S2, H2, P2, E2)
         /\ \A n : \A o \in Nat : \A o2 \in Nat : n \in Nat /\ o <= o2 /\ E[q] \in Nat =>
              (RootKept(q, n, S, H, P, E, o) => RootKept(q, n, S2, H2, P2, E2, o2))
<1>1. Waits(q, P) <=> Waits(q, P2)
  BY DEF Waits, Untouched
<1>2. \A i \in ShardIds : Only(q, i, P) => Only(q, i, P2) /\ H2[i] = H[i]
  BY DEF Only, Untouched
<1>3. S2[q] = S[q] /\ E2[q] = E[q] /\ (S[q] # None => H2[S[q]] = H[S[q]])
  BY DEF Untouched
<1>4. ASSUME NEW n, Kept(n, q, S, H, P, E) PROVE Kept(n, q, S2, H2, P2, E2)
  <2>1. CASE S[q] # None
    BY <1>3, <1>4, <2>1 DEF Kept
  <2>2. CASE S[q] = None /\ Waits(q, P)
    <3>1. PICK i \in ShardIds : Only(q, i, P) /\ n <= FloorOf(H[i])
      BY <1>4, <2>2 DEF Kept
    <3>2. Only(q, i, P2) /\ n <= FloorOf(H2[i])
      BY <1>2, <3>1
    <3> QED
      BY <1>1, <1>3, <2>2, <3>2 DEF Kept
  <2>3. CASE S[q] = None /\ ~Waits(q, P)
    BY <1>1, <1>3, <1>4, <2>3 DEF Kept
  <2> QED BY <2>1, <2>2, <2>3
<1>5. ASSUME NEW n \in Nat, NEW o \in Nat, NEW o2 \in Nat, o <= o2, E[q] \in Nat,
             RootKept(q, n, S, H, P, E, o)
      PROVE  RootKept(q, n, S2, H2, P2, E2, o2)
  <2>1. CASE S[q] # None
    BY <1>3, <1>5, <2>1 DEF RootKept
  <2>2. CASE S[q] = None /\ Waits(q, P) /\ n # 0
    <3>1. PICK i \in ShardIds : Only(q, i, P) /\ n <= FloorOf(H[i])
      BY <1>5, <2>2 DEF RootKept
    <3>2. Only(q, i, P2) /\ n <= FloorOf(H2[i])
      BY <1>2, <3>1
    <3> QED
      BY <1>1, <1>3, <2>2, <3>2 DEF RootKept
  <2>3. CASE S[q] = None /\ Waits(q, P) /\ n = 0
    BY <1>1, <1>3, <2>3 DEF RootKept
  <2>4. CASE S[q] = None /\ ~Waits(q, P)
    <3>1. n <= IF E[q] # 0 THEN E[q] ELSE o
      BY <1>5, <2>4 DEF RootKept
    <3>2. n <= IF E2[q] # 0 THEN E2[q] ELSE o2
      BY <1>3, <1>5, <3>1
    <3> QED
      BY <1>1, <1>3, <2>4, <3>2 DEF RootKept
  <2> QED BY <2>1, <2>2, <2>3, <2>4
<1> QED
  BY <1>4, <1>5

\* What changes for prefix p alone: it is enough that p keeps its floor, or that
\* nothing is claimed of p and the namespaces it serves.
Change(p, l, S, H, P, E, o, l2, S2, H2, P2, E2, o2) ==
  /\ o \in Nat /\ o2 \in Nat /\ o <= o2
  /\ \A q \in AllPrefixes : l[q] \in Nat /\ l2[q] \in Nat /\ E[q] \in Nat
  /\ \A q \in AllPrefixes \ {p} : Untouched(q, S, H, P, E, S2, H2, P2, E2)
  /\ \A q \in AllPrefixes : p \notin {q, Parent(q)} => l2[q] = l[q]
  /\ \A q \in AllPrefixes : p \in {q, Parent(q)} =>
       \/ l2[q] = 0
       \/ Kept(l2[q], p, S2, H2, P2, E2)
       \/ /\ l2[q] = l[q]
          /\ Kept(l[q], p, S, H, P, E) => l[q] <= o2 \/ Kept(l[q], p, S2, H2, P2, E2)
  /\ p = Parent(p) /\ RootKept(p, l[p], S, H, P, E, o) => RootKept(p, l2[p], S2, H2, P2, E2, o2)

LEMMA OnePrefix ==
  ASSUME NEW p \in AllPrefixes, NEW l, NEW l2, NEW o, NEW o2,
         NEW S, NEW H, NEW P, NEW E, NEW S2, NEW H2, NEW P2, NEW E2,
         Change(p, l, S, H, P, E, o, l2, S2, H2, P2, E2, o2)
  PROVE  \A q \in AllPrefixes : Covers(q, l, S, H, P, E, o) => Covers(q, l2, S2, H2, P2, E2, o2)
<1> SUFFICES ASSUME NEW q \in AllPrefixes, Covers(q, l, S, H, P, E, o)
             PROVE  Covers(q, l2, S2, H2, P2, E2, o2)
  OBVIOUS
<1>0. /\ o \in Nat /\ o2 \in Nat /\ o <= o2
      /\ \A r \in AllPrefixes : l[r] \in Nat /\ l2[r] \in Nat /\ E[r] \in Nat
      /\ \A r \in AllPrefixes \ {p} : Untouched(r, S, H, P, E, S2, H2, P2, E2)
      /\ \A r \in AllPrefixes : p \notin {r, Parent(r)} => l2[r] = l[r]
      /\ \A r \in AllPrefixes : p \in {r, Parent(r)} =>
           \/ l2[r] = 0
           \/ Kept(l2[r], p, S2, H2, P2, E2)
           \/ /\ l2[r] = l[r]
              /\ Kept(l[r], p, S, H, P, E) => l[r] <= o2 \/ Kept(l[r], p, S2, H2, P2, E2)
      /\ p = Parent(p) /\ RootKept(p, l[p], S, H, P, E, o) => RootKept(p, l2[p], S2, H2, P2, E2, o2)
  BY DEF Change
<1> USE <1>0
<1>1. Parent(q) \in AllPrefixes /\ l[q] \in Nat /\ l2[q] \in Nat /\ E[q] \in Nat
  BY PrefixFacts
<1>2. \A r \in AllPrefixes \ {p} : \A n : Kept(n, r, S, H, P, E) => Kept(n, r, S2, H2, P2, E2)
  BY UntouchedKept
<1>3. FloorKept(q, l[q], S, H, P, E, o)
  BY DEF Covers
<1>4. FloorKept(q, l2[q], S2, H2, P2, E2, o2)
  <2>1. CASE p \notin {q, Parent(q)}
    BY <1>1, <1>2, <1>3, <2>1 DEF FloorKept
  <2>2. CASE p \in {q, Parent(q)} /\ l2[q] = 0
    BY <2>2 DEF FloorKept
  <2>3. CASE p \in {q, Parent(q)} /\ Kept(l2[q], p, S2, H2, P2, E2)
    BY <2>3 DEF FloorKept
  <2>4. CASE /\ p \in {q, Parent(q)} /\ l2[q] = l[q]
             /\ Kept(l[q], p, S, H, P, E) => l[q] <= o2 \/ Kept(l[q], p, S2, H2, P2, E2)
    <3>1. CASE l[q] <= o
      <4>1. l2[q] <= o2
        BY <1>1, <2>4, <3>1
      <4> QED
        BY <4>1 DEF FloorKept
    <3>2. CASE Kept(l[q], p, S, H, P, E)
      BY <2>4, <3>2 DEF FloorKept
    <3>3. CASE \E r \in {q, Parent(q)} \ {p} : Kept(l[q], r, S, H, P, E)
      BY <1>1, <1>2, <2>4, <3>3 DEF FloorKept
    <3> QED
      BY <1>3, <3>1, <3>2, <3>3 DEF FloorKept
  <2> QED BY <2>1, <2>2, <2>3, <2>4
<1>5. ASSUME q = Parent(q) PROVE RootKept(q, l2[q], S2, H2, P2, E2, o2)
  <2>1. RootKept(q, l[q], S, H, P, E, o)
    BY <1>5 DEF Covers
  <2>2. CASE q = p
    BY <1>5, <2>1, <2>2
  <2>3. CASE q # p
    <3>1. l2[q] = l[q] /\ Untouched(q, S, H, P, E, S2, H2, P2, E2)
      BY <1>5, <2>3
    <3> QED
      BY <1>1, <2>1, <3>1, UntouchedKept
  <2> QED BY <2>2, <2>3
<1> QED
  BY <1>4, <1>5 DEF Covers

ChangeNow(p) == Change(p, lost, shards, heap, preserving, entries, overflow,
                       lost', shards', heap', preserving', entries', overflow')

LEMMA ChangeFloors ==
  ASSUME FloorsInv, DOMAIN lost' = AllPrefixes, \A q \in AllPrefixes : lost'[q] \in Nat,
         preserving' \subseteq AllPrefixes \X (1 .. used'.shards),
         NEW p \in AllPrefixes,
         Ordered(since', used'.shards) => Ordered(since, used.shards) /\ ChangeNow(p)
  PROVE  FloorsInv'
<1>1. ASSUME ChangeNow(p), NEW q \in AllPrefixes,
             Covers(q, lost, shards, heap, preserving, entries, overflow)
      PROVE  Covers(q, lost', shards', heap', preserving', entries', overflow')
  BY <1>1, OnePrefix DEF ChangeNow
<1> QED
  BY <1>1 DEF FloorsInv

\* A bounded set of naturals has its maximum.
LEMMA BoundedMax ==
  ASSUME NEW S \in SUBSET Nat, S # {}, NEW b \in Nat, \A x \in S : x <= b
  PROVE  Max(S) \in S /\ Max(S) \in Nat /\ Max(S) <= b
<1> DEFINE D == {d \in Nat : d <= b /\ b - d \in S}
<1>1. \A x \in S : b - x \in D
  <2> SUFFICES ASSUME NEW x \in S PROVE b - x \in D
    OBVIOUS
  <2>1. x \in Nat /\ x <= b /\ b - x \in Nat /\ b - x <= b /\ b - (b - x) = x
    OBVIOUS
  <2> QED
    BY <2>1
<1>2. PICK d \in D : \A y \in D : d <= y
  <2>1. D \in SUBSET Nat /\ D # {}
    BY <1>1
  <2> HIDE DEF D
  <2> QED
    BY <2>1, LeastNat
<1>3. b - d \in S /\ d \in Nat /\ d <= b
  BY <1>2
<1>4. \A x \in S : x <= b - d
  <2> SUFFICES ASSUME NEW x \in S PROVE x <= b - d
    OBVIOUS
  <2>1. b - x \in D /\ x \in Nat /\ x <= b
    BY <1>1
  <2>2. d <= b - x
    BY <1>2, <2>1
  <2> QED
    BY <1>3, <2>1, <2>2
<1>5. Max(S) = b - d
  BY <1>3, <1>4, MaxIs
<1> QED
  BY <1>3, <1>5

\* The revisions that go with a shard are at most its floor.
LEMMA LoseFacts ==
  ASSUME GcInv, ViewInv, FloorsInv, NEW p \in AllPrefixes, shards[p] # None,
         NEW sid, sid = shards[p], ~Waiting(p), NEW q \in AllPrefixes
  PROVE  /\ Lose(p, sid)[q] \in Nat
         /\ p \notin {q, Parent(q)} => Lose(p, sid)[q] = lost[q]
         /\ Lose(p, sid)[q] = lost[q] \/ (since[sid] # Never => Lose(p, sid)[q] <= FloorOf(heap[sid]))
<1> DEFINE s == heap[sid]
           A == {s.horizon} \cup {e.rev : e \in ToSet(s.ring)}
           newest == Max(A)
           served == {r \in AllPrefixes : r = p \/ (Parent(r) = p /\ shards[r] = None)}
           M(r) == {lost[r]} \cup {x \in 1 .. newest : log[x].key \in Under(r)}
<1>1. Lose(p, sid) = [r \in AllPrefixes |-> IF r \in served THEN Max(M(r)) ELSE lost[r]]
  BY DEF Lose
<1>2. sid \in ShardIds
  BY Shapes DEF GcInv, OwnShard
<1>3. ShardOK(s, since[sid], log, sent) /\ Len(log) \in Nat /\ sent + 1 \in Nat
  BY <1>2, WritingTypes DEF ViewInv, HeapInv
<1>4. IsShard(s) /\ Genuine(log, s.ring, sent + 1) /\ (since[sid] # Never => InOrder(s.ring))
  BY <1>3 DEF ShardOK
<1>5. lost[q] \in Nat
  BY DEF FloorsInv
<1> HIDE DEF s
<1>6. newest \in Nat /\ (since[sid] # Never => newest <= FloorOf(s))
  <2>1. A \in SUBSET Nat /\ A # {} /\ s.ring \in Seq(EventSet) /\ s.horizon \in Nat
    <3>1. s.ring \in Seq(EventSet) /\ s.horizon \in Nat
      BY <1>4 DEF IsShard
    <3>2. \A e \in ToSet(s.ring) : e \in EventSet
      BY <3>1 DEF ToSet
    <3>3. \A e \in ToSet(s.ring) : e.rev \in Nat
      BY <3>2 DEF EventSet
    <3> QED
      BY <3>1, <3>3
  <2>2. \A x \in A : x = s.horizon \/ \E i \in DOMAIN s.ring : x = s.ring[i].rev
    BY DEF ToSet
  <2>3. /\ FloorOf(s) \in Nat /\ s.horizon <= FloorOf(s)
        /\ InOrder(s.ring) => \A i \in DOMAIN s.ring : s.ring[i].rev <= FloorOf(s)
    BY <1>3, <1>4, FloorFacts
  <2>4. \A i \in DOMAIN s.ring : s.ring[i].rev \in 1 .. sent + 1
    BY <1>4 DEF Genuine
  <2> DEFINE b == s.horizon + (sent + 1)
  <2>5. b \in Nat /\ \A x \in A : x <= b
    <3> HIDE DEF A
    <3>1. b \in Nat /\ s.horizon <= b /\ \A y \in 1 .. sent + 1 : y <= b
      BY <1>3, <2>1
    <3>2. ASSUME NEW x \in A PROVE x <= b
      BY <2>2, <2>4, <3>1
    <3> QED BY <3>1, <3>2
  <2> HIDE DEF A, b
  <2>6. newest \in A /\ newest \in Nat
    BY <2>1, <2>5, BoundedMax
  <2>7. ASSUME since[sid] # Never PROVE newest <= FloorOf(s)
    BY <1>4, <2>2, <2>3, <2>6, <2>7
  <2> QED BY <2>6, <2>7
<1> HIDE DEF newest
<1>7. ASSUME q \in served
      PROVE  Max(M(q)) \in Nat /\ (Max(M(q)) = lost[q] \/ Max(M(q)) <= newest)
  <2>1. M(q) \in SUBSET Nat /\ M(q) # {} /\ lost[q] + newest \in Nat
        /\ \A x \in M(q) : x <= lost[q] + newest
    BY <1>5, <1>6
  <2>2. \A x \in M(q) : x = lost[q] \/ x <= newest
    BY <1>6
  <2> HIDE DEF M
  <2>3. Max(M(q)) \in M(q) /\ Max(M(q)) \in Nat
    BY <2>1, BoundedMax
  <2> QED
    BY <2>2, <2>3
<1> HIDE DEF M
<1>8. CASE q \in served
  <2>1. Lose(p, sid)[q] = Max(M(q)) /\ p \in {q, Parent(q)}
    BY <1>1, <1>8
  <2>2. FloorOf(s) \in Nat
    BY <1>3, <1>4, FloorFacts
  <2> DEFINE m == Max(M(q))
  <2>3. m \in Nat /\ (m = lost[q] \/ m <= newest)
    BY <1>7, <1>8
  <2> HIDE DEF m
  <2>4. m = lost[q] \/ (since[sid] # Never => m <= FloorOf(s))
    BY <1>6, <2>2, <2>3
  <2> QED
    BY <2>1, <2>3, <2>4 DEF m, s
<1>9. CASE q \notin served
  BY <1>1, <1>5, <1>9
<1> QED BY <1>8, <1>9

\* A shard leaves the map: the only floor of its prefix that waits.
LEMMA RemoveFloors ==
  ASSUME GcInv, ViewInv, FloorsInv, NEW p \in AllPrefixes, shards[p] # None,
         shards' = [shards EXCEPT ![p] = None],
         preserving' = preserving \cup {<<p, shards[p]>>}, lost' = Lose(p, shards[p]),
         UNCHANGED <<heap, since, entries, overflow>>, used'.shards = used.shards
  PROVE  FloorsInv'
<1> DEFINE sid == shards[p]
<1>1. sid \in 1 .. used.shards /\ sid \in ShardIds
  BY Shapes DEF GcInv, OwnShard
<1>2. preserving' \subseteq AllPrefixes \X (1 .. used'.shards)
  BY <1>1 DEF FloorsInv
<1>3. DOMAIN lost' = AllPrefixes /\ \A q \in AllPrefixes : lost'[q] \in Nat
  <2>1. CASE Waiting(p)
    BY <2>1 DEF Lose, Forgive, FloorsInv
  <2>2. CASE ~Waiting(p)
    <3>1. \A q \in AllPrefixes : lost'[q] \in Nat
      BY <2>2, LoseFacts
    <3>2. DOMAIN lost' = AllPrefixes
      BY <2>2 DEF Lose
    <3> QED BY <3>1, <3>2
  <2> QED BY <2>1, <2>2
<1>4. shards'[p] = None /\ \A q \in AllPrefixes \ {p} : shards'[q] = shards[q]
  BY Shapes
<1>5. /\ \A q \in AllPrefixes : lost[q] \in Nat /\ lost'[q] \in Nat /\ entries[q] \in Nat
      /\ overflow \in Nat
  BY <1>3 DEF FloorsInv, ViewInv, FloorInv
<1>6. ASSUME NEW q \in AllPrefixes \ {p}
      PROVE  Untouched(q, shards, heap, preserving, entries, shards', heap, preserving', entries)
  <2>1. \A i : <<q, i>> # <<p, sid>>
    OBVIOUS
  <2> QED
    BY <1>4, <2>1 DEF Untouched
<1>7. ASSUME Ordered(since, used.shards) PROVE ChangeNow(p)
  <2>2. since[sid] # Never
    BY <1>1, <1>7 DEF Ordered
  <2>3. ASSUME NEW r \in AllPrefixes, p \notin {r, Parent(r)} PROVE lost'[r] = lost[r]
    <3>1. CASE Waiting(p)
      BY <2>3, <3>1 DEF Lose, Forgive
    <3>2. CASE ~Waiting(p)
      BY <2>3, <3>2, LoseFacts
    <3> QED BY <3>1, <3>2
  <2>4. ASSUME NEW n, n <= FloorOf(heap[sid]), ~Waiting(p)
        PROVE  /\ Kept(n, p, shards', heap, preserving', entries)
               /\ RootKept(p, n, shards', heap, preserving', entries, overflow)
    <3>1. \A j \in ShardIds : <<p, j>> \in preserving' => j = sid
      BY <2>4 DEF Waiting
    <3>2. <<p, sid>> \in preserving'
      OBVIOUS
    <3>3. Only(p, sid, preserving') /\ Waits(p, preserving')
      BY <1>1, <3>1, <3>2 DEF Only, Waits
    <3> QED
      BY <1>1, <1>4, <2>4, <3>3 DEF Kept, RootKept
  <2>5. Waiting(p) => \A r \in AllPrefixes : p \in {r, Parent(r)} => lost'[r] = 0
    BY DEF Lose, Forgive
  <2>6. ASSUME NEW r \in AllPrefixes, p \in {r, Parent(r)}
        PROVE  \/ lost'[r] = 0
               \/ Kept(lost'[r], p, shards', heap, preserving', entries)
               \/ /\ lost'[r] = lost[r]
                  /\ Kept(lost[r], p, shards, heap, preserving, entries)
                     => lost[r] <= overflow \/ Kept(lost[r], p, shards', heap, preserving', entries)
    <3>1. CASE Waiting(p)
      BY <2>5, <2>6, <3>1
    <3>2. CASE ~Waiting(p) /\ lost'[r] = lost[r]
      <4>1. ASSUME Kept(lost[r], p, shards, heap, preserving, entries)
            PROVE  lost[r] <= FloorOf(heap[sid])
        BY <4>1 DEF Kept
      <4> QED
        BY <2>4, <3>2, <4>1
    <3>3. CASE ~Waiting(p) /\ lost'[r] # lost[r]
      <4>1. lost'[r] <= FloorOf(heap[sid])
        BY <2>2, <3>3, LoseFacts
      <4> QED
        BY <2>4, <3>3, <4>1
    <3> QED BY <3>1, <3>2, <3>3
  <2>7. ASSUME p = Parent(p), RootKept(p, lost[p], shards, heap, preserving, entries, overflow)
        PROVE  RootKept(p, lost'[p], shards', heap, preserving', entries, overflow)
    <3>1. CASE Waiting(p)
      <4>1. lost'[p] = 0
        BY <2>5, <3>1
      <4>2. Waits(p, preserving')
        BY <1>1 DEF Waits
      <4> QED
        BY <1>4, <4>1, <4>2 DEF RootKept
    <3>2. CASE ~Waiting(p)
      <4>1. lost[p] <= heap[sid].horizon
        BY <2>7 DEF RootKept
      <4>2. lost[p] <= FloorOf(heap[sid])
        <5>1. ShardOK(heap[sid], since[sid], log, sent) /\ Len(log) \in Nat /\ sent + 1 \in Nat
          BY <1>1, WritingTypes DEF ViewInv, HeapInv
        <5>2. IsShard(heap[sid]) /\ Genuine(log, heap[sid].ring, sent + 1)
          BY <5>1 DEF ShardOK
        <5> DEFINE s == heap[sid]
        <5>3. FloorOf(s) \in Nat /\ s.horizon <= FloorOf(s) /\ s.horizon \in Nat
          BY <5>1, <5>2, FloorFacts DEF IsShard
        <5> QED
          BY <1>5, <4>1, <5>3
      <4>3. lost'[p] <= FloorOf(heap[sid])
        BY <2>2, <3>2, <4>2, LoseFacts
      <4> QED
        BY <2>4, <3>2, <4>3
    <3> QED BY <3>1, <3>2
  <2>8. Change(p, lost, shards, heap, preserving, entries, overflow,
               lost', shards', heap, preserving', entries, overflow)
    <3>1. overflow \in Nat /\ overflow <= overflow
      BY <1>5
    <3> QED
      BY <1>5, <1>6, <2>3, <2>6, <2>7, <3>1, Zenon DEF Change
  <2> QED
    BY <2>8 DEF ChangeNow
<1>8. Ordered(since', used'.shards) => Ordered(since, used.shards) /\ ChangeNow(p)
  BY <1>7
<1> QED
  BY <1>2, <1>3, <1>8, ChangeFloors

\* get_or_create_shard: the new shard starts with the floor kept for its prefix.
LEMMA SeedFloors ==
  ASSUME GcInv, ViewInv, FloorsInv, NEW p \in AllPrefixes, shards[p] = None,
         NEW shard, SeedShard(p, shard), IsShard(shard), Genuine(log, shard.ring, sent + 1),
         FindReclaimedHorizon(p) <= shard.horizon,
         UNCHANGED <<preserving, overflow>>, used'.shards = used.shards + 1
  PROVE  FloorsInv'
<1> DEFINE new == NextShard
           u == used.shards
<1>1. /\ shards' = [shards EXCEPT ![p] = new] /\ heap' = [heap EXCEPT ![new] = shard]
      /\ \E c : since' = [since EXCEPT ![new] = c]
      /\ entries' = [entries EXCEPT ![p] = 0]
      /\ lost' = IF Waiting(p) THEN Forgive(p) ELSE lost
      /\ new = u + 1 /\ new <= MaxShards
  BY DEF SeedShard, NextShard
<1>2. u \in Nat /\ new \in ShardIds /\ new \notin 1 .. u /\ 1 .. u \subseteq 1 .. used'.shards
      /\ \A i \in 1 .. u : i \in ShardIds
  BY <1>1, Shapes DEF ShardIds
<1>3. DOMAIN lost' = AllPrefixes /\ \A q \in AllPrefixes : lost'[q] \in Nat /\ lost[q] \in Nat
  BY <1>1 DEF FloorsInv, Forgive
<1>4. preserving \subseteq AllPrefixes \X (1 .. u)
      /\ preserving' \subseteq AllPrefixes \X (1 .. used'.shards)
  BY <1>2 DEF FloorsInv
<1>5. /\ \A q \in AllPrefixes : entries[q] \in Nat
      /\ overflow \in Nat /\ DOMAIN entries = AllPrefixes
  BY DEF ViewInv, FloorInv
<1>6. /\ shards'[p] = new /\ \A q \in AllPrefixes \ {p} : shards'[q] = shards[q]
      /\ entries'[p] = 0 /\ \A q \in AllPrefixes \ {p} : entries'[q] = entries[q]
      /\ heap'[new] = shard /\ \A i \in 1 .. u : heap'[i] = heap[i] /\ since'[i] = since[i]
  <2> HIDE DEF new, u
  <2> QED
    BY <1>1, <1>2, <1>5, Shapes
<1>7. new # None
  BY <1>2, WatchConstants
<1> HIDE DEF new, u
<1>8. ASSUME NEW q \in AllPrefixes \ {p}
      PROVE  Untouched(q, shards, heap, preserving, entries, shards', heap', preserving', entries')
  <2>1. shards[q] # None => shards[q] \in 1 .. u
    BY DEF GcInv, OwnShard, u
  <2>2. \A i : <<q, i>> \in preserving => i \in 1 .. u
    BY <1>4
  <2> QED
    BY <1>6, <2>1, <2>2 DEF Untouched
<1>9. shard.horizon \in Nat /\ FloorOf(shard) \in Nat /\ shard.horizon <= FloorOf(shard)
  <2>1. Len(log) \in Nat /\ sent + 1 \in Nat
    BY WritingTypes DEF ViewInv
  <2> QED
    BY <2>1, FloorFacts DEF IsShard
<1>10. entries[p] <= shard.horizon
  <2>1. CASE entries[p] # 0
    BY <2>1 DEF FindReclaimedHorizon
  <2>2. CASE entries[p] = 0
    BY <1>9, <2>2
  <2> QED BY <2>1, <2>2
<1>11. ASSUME NEW r \in AllPrefixes, p \notin {r, Parent(r)} PROVE lost'[r] = lost[r]
  BY <1>1, <1>11 DEF Forgive
<1>12. ASSUME NEW r \in AllPrefixes, p \in {r, Parent(r)}
       PROVE  \/ lost'[r] = 0
              \/ Kept(lost'[r], p, shards', heap', preserving', entries')
              \/ /\ lost'[r] = lost[r]
                 /\ Kept(lost[r], p, shards, heap, preserving, entries)
                    => lost[r] <= overflow' \/ Kept(lost[r], p, shards', heap', preserving', entries')
  <2>1. CASE Waiting(p)
    BY <1>1, <1>12, <2>1 DEF Forgive
  <2>2. CASE ~Waiting(p)
    <3>1. lost'[r] = lost[r]
      BY <1>1, <2>2
    <3>2. ASSUME Kept(lost[r], p, shards, heap, preserving, entries)
          PROVE  Kept(lost[r], p, shards', heap', preserving', entries')
      <4>1. lost[r] <= entries[p]
        BY <2>2, <3>2 DEF Kept, Waits, Waiting
      <4>2. lost[r] \in Nat /\ entries[p] \in Nat
        BY <1>3, <1>5
      <4>3. lost[r] <= FloorOf(shard)
        BY <1>9, <1>10, <4>1, <4>2
      <4> QED
        BY <1>6, <1>7, <4>3 DEF Kept
    <3> QED BY <3>1, <3>2
  <2> QED BY <2>1, <2>2
<1>13. ASSUME p = Parent(p), RootKept(p, lost[p], shards, heap, preserving, entries, overflow)
       PROVE  RootKept(p, lost'[p], shards', heap', preserving', entries', overflow')
  <2>1. lost'[p] <= shard.horizon
    <3>1. CASE Waiting(p)
      <4>1. lost'[p] = 0
        BY <1>1, <3>1 DEF Forgive
      <4> QED
        BY <1>9, <4>1
    <3>2. CASE ~Waiting(p)
      <4>1. lost'[p] = lost[p]
        BY <1>1, <3>2
      <4>2. lost[p] <= IF entries[p] # 0 THEN entries[p] ELSE overflow
        BY <1>13, <3>2 DEF RootKept, Waits, Waiting
      <4>3. FindReclaimedHorizon(p) = IF entries[p] # 0 THEN entries[p] ELSE overflow
        BY <1>13 DEF FindReclaimedHorizon
      <4>4. FindReclaimedHorizon(p) \in Nat /\ lost[p] \in Nat
        BY <1>3, <1>5, <4>3
      <4> QED
        BY <1>9, <4>1, <4>2, <4>3, <4>4
    <3> QED BY <3>1, <3>2
  <2> QED
    BY <1>6, <1>7, <2>1 DEF RootKept
<1>14. ChangeNow(p)
  <2>1. overflow \in Nat /\ overflow' \in Nat /\ overflow <= overflow'
    BY <1>5
  <2>2. \A q \in AllPrefixes : lost[q] \in Nat /\ lost'[q] \in Nat /\ entries[q] \in Nat
    BY <1>3, <1>5
  <2> QED
    BY <1>8, <1>11, <1>12, <1>13, <2>1, <2>2, Zenon DEF ChangeNow, Change
<1>15. Ordered(since', used'.shards) => Ordered(since, used.shards)
  BY <1>2, <1>6 DEF Ordered, u
<1> QED
  BY <1>3, <1>4, <1>14, <1>15, ChangeFloors

\* preserve_reclaimed_horizon: the floor is in its entry, and over the cap the
\* victim's floor is in the overflow.
LEMMA StoreFloors ==
  ASSUME GcInv, ViewInv, FloorsInv, NEW p \in AllPrefixes, NEW sid \in ShardIds,
         PreserveReclaimedHorizon(p, sid)
  PROVE  FloorsInv'
<1> DEFINE floor == FloorOf(heap[sid])
           ins == [entries EXCEPT ![p] = floor]
           held == {q \in AllPrefixes : ins[q] # 0}
<1>1. /\ <<p, sid>> \in preserving /\ preserving' = preserving \ {<<p, sid>>}
      /\ UNCHANGED <<shards, heap, since, lost, used>>
  BY DEF PreserveReclaimedHorizon
<1>2. \/ floor = 0 /\ UNCHANGED <<entries, overflow>>
      \/ floor # 0 /\ entries' = ins /\ UNCHANGED overflow
      \/ floor # 0 /\ \E victim \in AllPrefixes : /\ entries' = [ins EXCEPT ![victim] = 0]
                                     /\ overflow' = Max({overflow, ins[victim]})
  BY DEF PreserveReclaimedHorizon
<1>3. floor \in Nat
  <2>1. ShardOK(heap[sid], since[sid], log, sent) /\ Len(log) \in Nat /\ sent + 1 \in Nat
    BY WritingTypes DEF ViewInv, HeapInv
  <2> QED
    BY <2>1, FloorFacts DEF ShardOK
<1>4. /\ DOMAIN entries = AllPrefixes /\ \A q \in AllPrefixes : entries[q] \in Nat /\ lost[q] \in Nat
      /\ overflow \in Nat /\ DOMAIN lost = AllPrefixes
      /\ preserving \subseteq AllPrefixes \X (1 .. used.shards)
  BY DEF ViewInv, FloorInv, FloorsInv
<1> HIDE DEF floor
<1>5. /\ DOMAIN ins = AllPrefixes /\ ins[p] = floor
      /\ (\A q \in AllPrefixes : ins[q] \in Nat) /\ \A q \in AllPrefixes \ {p} : ins[q] = entries[q]
  BY <1>3, <1>4
<1> HIDE DEF ins
<1> DEFINE After(E, o) == \A q \in AllPrefixes : Covers(q, lost, shards, heap, preserving', E, o)
           Before == \A q \in AllPrefixes : Covers(q, lost, shards, heap, preserving, entries, overflow)
<1>6. ASSUME Before, NEW E, floor = 0 \/ E[p] = floor, E[p] \in Nat,
             \A q \in AllPrefixes \ {p} : E[q] = entries[q]
      PROVE  After(E, overflow)
  <2>1. ASSUME NEW q \in AllPrefixes \ {p}
        PROVE  Untouched(q, shards, heap, preserving, entries, shards, heap, preserving', E)
    BY <1>1, <1>6 DEF Untouched
  <2>2. Waits(p, preserving)
    BY <1>1 DEF Waits
  <2>3. ASSUME NEW n, NEW i \in ShardIds, Only(p, i, preserving), n <= FloorOf(heap[i])
        PROVE  n <= floor /\ ~Waits(p, preserving')
    BY <1>1, <2>3 DEF Only, Waits, floor
  <2>4. ASSUME NEW r \in AllPrefixes, Kept(lost[r], p, shards, heap, preserving, entries)
        PROVE  lost[r] <= overflow \/ Kept(lost[r], p, shards, heap, preserving', E)
    <3>1. CASE shards[p] # None
      BY <2>4, <3>1 DEF Kept
    <3>2. CASE shards[p] = None
      <4>1. \E i \in ShardIds : Only(p, i, preserving) /\ lost[r] <= FloorOf(heap[i])
        BY <2>2, <2>4, <3>2 DEF Kept
      <4>2. lost[r] <= floor /\ ~Waits(p, preserving')
        BY <2>3, <4>1
      <4>3. CASE floor = 0
        BY <1>4, <4>2, <4>3
      <4>4. CASE E[p] = floor
        BY <3>2, <4>2, <4>4 DEF Kept
      <4> QED BY <1>6, <4>3, <4>4
    <3> QED BY <3>1, <3>2
  <2>5. ASSUME RootKept(p, lost[p], shards, heap, preserving, entries, overflow)
        PROVE  RootKept(p, lost[p], shards, heap, preserving', E, overflow)
    <3>1. CASE shards[p] # None
      BY <2>5, <3>1 DEF RootKept
    <3>2. CASE shards[p] = None /\ lost[p] = 0
      <4>1. lost[p] <= IF E[p] # 0 THEN E[p] ELSE overflow
        BY <1>4, <1>6, <3>2
      <4> QED
        BY <3>2, <4>1 DEF RootKept
    <3>3. CASE shards[p] = None /\ lost[p] # 0
      <4>1. \E i \in ShardIds : Only(p, i, preserving) /\ lost[p] <= FloorOf(heap[i])
        BY <2>2, <2>5, <3>3 DEF RootKept
      <4>2. lost[p] <= floor /\ ~Waits(p, preserving')
        BY <2>3, <4>1
      <4>3. floor # 0
        BY <1>4, <3>3, <4>2
      <4>4. lost[p] <= IF E[p] # 0 THEN E[p] ELSE overflow
        BY <1>6, <4>2, <4>3
      <4> QED
        BY <3>3, <4>2, <4>4 DEF RootKept
    <3> QED BY <3>1, <3>2, <3>3
  <2>6. overflow \in Nat /\ overflow <= overflow
        /\ \A q \in AllPrefixes : lost[q] \in Nat /\ lost[q] \in Nat /\ entries[q] \in Nat
    BY <1>4
  <2>7. Change(p, lost, shards, heap, preserving, entries, overflow,
               lost, shards, heap, preserving', E, overflow)
    BY <2>1, <2>4, <2>5, <2>6, Zenon DEF Change
  <2> QED
    BY <1>6, <2>7, OnePrefix
<1>7. ASSUME NEW v \in AllPrefixes, NEW E, NEW o \in Nat, After(ins, overflow),
             E[v] = 0, \A q \in AllPrefixes \ {v} : E[q] = ins[q],
             overflow <= o, ins[v] <= o
      PROVE  After(E, o)
  <2>1. ASSUME NEW q \in AllPrefixes \ {v}
        PROVE  Untouched(q, shards, heap, preserving', ins, shards, heap, preserving', E)
    BY <1>7 DEF Untouched
  <2>2. \A q \in AllPrefixes : lost[q] \in Nat /\ lost[q] \in Nat /\ ins[q] \in Nat
    BY <1>4, <1>5
  <2>3. ASSUME NEW r \in AllPrefixes, Kept(lost[r], v, shards, heap, preserving', ins)
        PROVE  lost[r] <= o \/ Kept(lost[r], v, shards, heap, preserving', E)
    <3>1. CASE shards[v] # None \/ Waits(v, preserving')
      BY <2>3, <3>1 DEF Kept
    <3>2. CASE shards[v] = None /\ ~Waits(v, preserving')
      <4>1. lost[r] <= ins[v]
        BY <2>3, <3>2 DEF Kept
      <4> QED
        BY <1>7, <2>2, <4>1
    <3> QED BY <3>1, <3>2
  <2>4. ASSUME RootKept(v, lost[v], shards, heap, preserving', ins, overflow)
        PROVE  RootKept(v, lost[v], shards, heap, preserving', E, o)
    <3>1. CASE shards[v] # None \/ Waits(v, preserving')
      BY <2>4, <3>1 DEF RootKept
    <3>2. CASE shards[v] = None /\ ~Waits(v, preserving')
      <4>1. lost[v] <= IF ins[v] # 0 THEN ins[v] ELSE overflow
        BY <2>4, <3>2 DEF RootKept
      <4>2. lost[v] <= IF E[v] # 0 THEN E[v] ELSE o
        BY <1>4, <1>7, <2>2, <4>1
      <4> QED
        BY <3>2, <4>2 DEF RootKept
    <3> QED BY <3>1, <3>2
  <2>5. overflow \in Nat /\ o \in Nat /\ overflow <= o
    BY <1>4, <1>7
  <2>6. Change(v, lost, shards, heap, preserving', ins, overflow,
               lost, shards, heap, preserving', E, o)
    BY <2>1, <2>2, <2>3, <2>4, <2>5, Zenon DEF Change
  <2> QED
    BY <1>7, <2>6, OnePrefix
<1>8. ASSUME Before PROVE After(entries', overflow')
  <2>1. CASE floor = 0 /\ UNCHANGED <<entries, overflow>>
    <3>1. entries[p] \in Nat /\ \A q \in AllPrefixes \ {p} : entries[q] = entries[q]
      BY <1>4
    <3>2. After(entries, overflow)
      <4> HIDE DEF After, Before
      <4> QED
        BY <1>6, <1>8, <2>1, <3>1
    <3> QED
      BY <2>1, <3>2
  <2>2. CASE floor # 0
    <3>1. After(ins, overflow)
      <4>1. ins[p] = floor /\ ins[p] \in Nat /\ \A q \in AllPrefixes \ {p} : ins[q] = entries[q]
        BY <1>5
      <4> HIDE DEF After, Before
      <4> QED
        BY <1>6, <1>8, <4>1
    <3>2. CASE entries' = ins /\ UNCHANGED overflow
      BY <3>1, <3>2
    <3>3. CASE \E victim \in AllPrefixes : /\ entries' = [ins EXCEPT ![victim] = 0]
                                           /\ overflow' = Max({overflow, ins[victim]})
      <4>1. PICK v \in AllPrefixes : /\ entries' = [ins EXCEPT ![v] = 0]
                                     /\ overflow' = Max({overflow, ins[v]})
        BY <3>3
      <4>2. entries'[v] = 0 /\ \A q \in AllPrefixes \ {v} : entries'[q] = ins[q]
        BY <1>5, <4>1
      <4>3. ins[v] \in Nat /\ overflow \in Nat
        BY <1>4, <1>5
      <4>4. overflow' = IF overflow > ins[v] THEN overflow ELSE ins[v]
        BY <4>1, <4>3, MaxOfTwo
      <4>5. overflow' \in Nat /\ overflow <= overflow' /\ ins[v] <= overflow'
        BY <4>3, <4>4
      <4> HIDE DEF After, Before
      <4> QED
        BY <1>7, <3>1, <4>2, <4>5
    <3> QED
      BY <1>2, <2>2, <3>2, <3>3
  <2> QED
    BY <1>2, <2>1, <2>2
<1> QED
  BY <1>1, <1>4, <1>8 DEF FloorsInv

\* A shard of the heap, before and after one event of the log is pushed into it.
LEMMA PushedFloor ==
  ASSUME ViewInv, NEW i \in ShardIds, NEW e \in EventSet, e.rev \in 1 .. sent + 1,
         e.rev <= Len(log), e = log[e.rev]
  PROVE  LET s == heap[i]
             t == PushIntoShard(s, e)
         IN /\ {FloorOf(s), FloorOf(t), s.horizon, t.horizon, RingTop(s)} \subseteq Nat
            /\ RingTop(s) <= sent + 1
            /\ RingTop(s) <= e.rev => FloorOf(s) <= FloorOf(t) /\ s.horizon <= t.horizon
<1> DEFINE s == heap[i]
           t == PushIntoShard(s, e)
           n == sent + 1
<1>1. Len(log) \in Nat /\ n \in Nat
  BY WritingTypes DEF ViewInv
<1>2. IsShard(s) /\ Genuine(log, s.ring, n)
  BY DEF ViewInv, HeapInv, ShardOK
<1>3. AfterPush(t, s, e)
  BY <1>2, PushEffect
<1> HIDE DEF t
<1>4. IsShard(t) /\ Genuine(log, t.ring, n)
  <2>1. IsShard(t)
    BY <1>3 DEF AfterPush
  <2> HIDE DEF s, n
  <2>2. e.rev \in 1 .. n
    BY DEF n
  <2>3. Genuine(log, t.ring, n)
    BY <1>2, <1>3, <2>2, GenuinePush
  <2> QED BY <2>1, <2>3
<1> HIDE DEF s, n
<1>5. FloorOf(s) \in Nat /\ FloorOf(t) \in Nat /\ s.horizon \in Nat /\ t.horizon \in Nat
  BY <1>1, <1>2, <1>4, FloorFacts DEF IsShard
<1>6. RingTop(s) \in 0 .. n
  BY <1>1, <1>2, TopFacts
<1>7. RingTop(s) <= e.rev => FloorOf(s) <= FloorOf(t) /\ s.horizon <= t.horizon
  BY <1>1, <1>2, <1>3, <1>4, FloorGrows
<1>8. RingTop(s) \in Nat /\ RingTop(s) <= n
  BY <1>1, <1>6
<1> QED
  BY <1>5, <1>7, <1>8 DEF s, t, n

\* The event being pushed is the newest there is.
LEMMA PushFloors ==
  ASSUME GcInv, ViewInv, FloorsInv, PushShards
  PROVE  FloorsInv'
<1> DEFINE e == log[sent + 1]
           root == RootPrefix(e.key)
           shard == PushIntoShard(NewShard(FindReclaimedHorizon(root)), e)
           PushTo(S) == heap' = [s \in ShardIds |->
                                   IF s \in S THEN PushIntoShard(heap[s], e) ELSE heap[s]]
<1>1. \/ (\E S : PushTo(S)) /\ UNCHANGED <<shards, since, entries, overflow, used, lost, preserving>>
      \/ /\ targets # None /\ shards[root] = None /\ SeedShard(root, shard)
         /\ used' = [used EXCEPT !.shards = @ + 1] /\ UNCHANGED <<preserving, overflow>>
  BY DEF PushShards
<1>2. /\ Len(log) \in Nat /\ sent \in Nat /\ sent < Len(log)
      /\ e \in EventSet /\ e.rev = sent + 1 /\ e.key \in Keys
  <2>1. /\ Len(log) \in Nat /\ sent \in Nat /\ sent < Len(log)
        /\ \A i \in 1 .. Len(log) : log[i] \in EventSet /\ log[i].rev = i
    BY WritingTypes DEF ViewInv, Writing, PushShards
  <2>2. e \in EventSet /\ e.rev = sent + 1
    BY <2>1
  <2> QED
    BY <2>1, <2>2 DEF EventSet
<1>3. e.rev \in 1 .. sent + 1 /\ e.rev <= Len(log) /\ e = log[e.rev] /\ sent + 1 \in Nat
  BY <1>2
<1>4. \A i \in 1 .. used.shards : i \in ShardIds
  BY Shapes
<1>5. CASE (\E S : PushTo(S)) /\ UNCHANGED <<shards, since, entries, overflow, used, lost, preserving>>
  <2>1. ASSUME NEW i \in 1 .. used.shards
        PROVE  /\ {FloorOf(heap[i]), FloorOf(heap'[i]), heap[i].horizon, heap'[i].horizon} \subseteq Nat
               /\ FloorOf(heap[i]) <= FloorOf(heap'[i])
               /\ heap[i].horizon <= heap'[i].horizon
    <3> DEFINE s == heap[i]
               t == PushIntoShard(s, e)
    <3>1. heap'[i] = t \/ heap'[i] = s
      BY <1>4, <1>5
    <3> HIDE DEF e
    <3>2. /\ {FloorOf(s), FloorOf(t), s.horizon, t.horizon} \subseteq Nat
          /\ FloorOf(s) <= FloorOf(t) /\ s.horizon <= t.horizon
      BY <1>2, <1>3, <1>4, PushedFloor
    <3> HIDE DEF s, t
    <3>3. CASE heap'[i] = t
      BY <3>2, <3>3 DEF s
    <3>4. CASE heap'[i] = s
      <4>1. /\ FloorOf(s) \in Nat /\ s.horizon \in Nat /\ FloorOf(s) <= FloorOf(s)
            /\ s.horizon <= s.horizon
        BY <3>2
      <4> QED
        BY <3>4, <4>1 DEF s
    <3> QED BY <3>1, <3>3, <3>4
  <2> QED
    BY <1>5, <2>1, FloorsGrow
<1>6. CASE /\ targets # None /\ shards[root] = None /\ SeedShard(root, shard)
           /\ used' = [used EXCEPT !.shards = @ + 1] /\ UNCHANGED <<preserving, overflow>>
  <2>1. root \in AllPrefixes
    BY <1>2 DEF AllPrefixes, Matching
  <2> DEFINE f == FindReclaimedHorizon(root)
             s == NewShard(f)
  <2>2. f \in Nat
    BY <2>1, FloorIsNat
  <2> HIDE DEF f
  <2>3. IsShard(s) /\ Genuine(log, s.ring, sent + 1) /\ s.horizon = f
    <3>1. 0 \in 0 .. Never
      BY NeverIsNat
    <3>2. ShardOK(s, 0, log, sent)
      BY <2>2, <3>1, NewShardOK
    <3> QED
      BY <3>2 DEF ShardOK, NewShard
  <2> HIDE DEF s, e
  <2>4. AfterPush(shard, s, e)
    BY <1>2, <2>3, PushEffect DEF s, f
  <2> HIDE DEF shard
  <2>5. IsShard(shard) /\ f <= shard.horizon
    BY <2>3, <2>4 DEF AfterPush
  <2>6. Genuine(log, shard.ring, sent + 1)
    BY <1>3, <2>3, <2>4, GenuinePush
  <2>7. used'.shards = used.shards + 1
    BY <1>6, Shapes DEF Counters
  <2> HIDE DEF root
  <2> QED
    BY <1>6, <2>1, <2>5, <2>6, <2>7, SeedFloors DEF f
<1> QED
  BY <1>1, <1>5, <1>6

\* A backfilled row is behind the ring's last event, or voids the ring's order.
LEMMA BackfillFloors ==
  ASSUME GcInv, ViewInv, FloorsInv, NEW w \in Watchers, NEW r \in 1 .. Len(log), BackfillRow(w, r)
  PROVE  FloorsInv'
<1> DEFINE x == st[w]
           sid == x.sid
           e == [key |-> log[r].key, rev |-> r, op |-> "put"]
           s == heap[sid]
           t == PushIntoShard(s, e)
           d == IF RingTop(heap[sid]) > r THEN Never
                ELSE IF shards[x.prefix] = sid THEN since[sid] ELSE Max({since[sid], r})
<1>1. /\ heap' = [heap EXCEPT ![sid] = t] /\ since' = [since EXCEPT ![sid] = d]
      /\ x.pc = "backfill" /\ r \in x.items
      /\ UNCHANGED <<shards, lost, preserving, entries, overflow, used>>
  BY DEF BackfillRow
<1>2. /\ Len(log) \in Nat /\ Len(log) < Never /\ Never \in Nat /\ sent \in Nat
      /\ log[r] \in EventSet /\ log[r].rev = r
  BY WritingTypes, NeverIsNat DEF ViewInv
<1>3. /\ Rows(x, log, sent)
      /\ HeldShard(x, heap, since, shards, log, pushed, targets, used.shards)
  BY <1>1 DEF ViewInv, ClientOK, Opening
<1>4. e = log[r] /\ e \in EventSet /\ e.rev = r /\ r \in 1 .. sent + 1 /\ r <= Len(log)
  <2>1. log[r].op = "put" /\ r \in 1 .. sent + 1
    BY <1>1, <1>3 DEF Rows
  <2> QED
    BY <1>2, <2>1 DEF EventSet
<1>5. sid \in ShardIds /\ sid \in 1 .. used.shards
  BY <1>3, Shapes DEF HeldShard
<1>6. since[sid] \in 0 .. Never
  BY <1>5 DEF ViewInv, HeapInv, ShardOK
<1> HIDE DEF e
<1>7. /\ {FloorOf(s), FloorOf(t), s.horizon, t.horizon, RingTop(s)} \subseteq Nat
      /\ RingTop(s) <= r => FloorOf(s) <= FloorOf(t) /\ s.horizon <= t.horizon
  BY <1>4, <1>5, PushedFloor
<1> HIDE DEF t
<1>8. d = Never \/ (RingTop(s) <= r /\ since[sid] # Never)
  <2>1. CASE RingTop(s) > r
    BY <2>1
  <2>2. CASE ~(RingTop(s) > r)
    <3>1. Max({since[sid], r}) = IF since[sid] > r THEN since[sid] ELSE r
      BY <1>2, <1>6, MaxOfTwo
    <3>2. since[sid] = Never => d = Never
      BY <1>2, <2>2, <3>1
    <3>3. RingTop(s) <= r
      BY <1>7, <2>2
    <3> QED BY <3>2, <3>3
  <2> QED BY <2>1, <2>2
<1> HIDE DEF d
<1>9. /\ heap'[sid] = t /\ since'[sid] = d
      /\ \A i \in ShardIds \ {sid} : heap'[i] = heap[i] /\ since'[i] = since[i]
  <2> HIDE DEF sid
  <2> QED
    BY <1>1, <1>5, Shapes
<1>10. ASSUME Ordered(since', used.shards)
       PROVE  Ordered(since, used.shards) /\ RingTop(s) <= r
  <2>1. d # Never
    BY <1>5, <1>9, <1>10 DEF Ordered
  <2>2. RingTop(s) <= r /\ since[sid] # Never
    BY <1>8, <2>1
  <2>3. \A i \in 1 .. used.shards : i # sid => since[i] # Never
    <3>1. \A i \in 1 .. used.shards : i \in ShardIds
      BY Shapes
    <3> QED
      BY <1>9, <1>10, <3>1 DEF Ordered
  <2> QED
    BY <2>2, <2>3 DEF Ordered
<1>11. ASSUME Ordered(since', used.shards), NEW i \in 1 .. used.shards
       PROVE  /\ {FloorOf(heap[i]), FloorOf(heap'[i]), heap[i].horizon, heap'[i].horizon} \subseteq Nat
              /\ FloorOf(heap[i]) <= FloorOf(heap'[i])
              /\ heap[i].horizon <= heap'[i].horizon
  <2>1. CASE i = sid
    BY <1>7, <1>9, <1>10, <1>11, <2>1
  <2>2. CASE i # sid
    <3>1. heap'[i] = heap[i] /\ i \in ShardIds
      BY <1>9, <2>2, Shapes
    <3>2. FloorOf(heap[i]) \in Nat /\ heap[i].horizon \in Nat
      BY <1>4, <3>1, PushedFloor
    <3> QED
      BY <3>1, <3>2
  <2> QED BY <2>1, <2>2
<1>12. used'.shards = used.shards
  BY <1>1
<1> QED
  BY <1>1, <1>10, <1>11, <1>12, FloorsGrow

\* get_or_create_shard of a watch request.
LEMMA CreateFloors ==
  ASSUME GcInv, ViewInv, FloorsInv, NEW w \in Watchers, CreateShard(w)
  PROVE  FloorsInv'
<1> DEFINE p == st[w].prefix
           f == FindReclaimedHorizon(p)
           s == NewShard(f)
<1>1. CASE shards[p] # None
  <2>1. UNCHANGED <<lost, shards, preserving, entries, overflow, used, heap, since>>
    BY <1>1 DEF CreateShard, shardVars
  <2> QED
    BY <2>1 DEF FloorsInv
<1>2. CASE shards[p] = None
  <2>1. /\ st[w].pc = "create" /\ SeedShard(p, s) /\ used' = [used EXCEPT !.shards = @ + 1]
        /\ UNCHANGED <<preserving, overflow>>
    BY <1>2 DEF CreateShard
  <2>2. p \in AllPrefixes
    BY <2>1 DEF ViewInv, ClientOK, Opened
  <2>3. f \in Nat
    BY <2>2, FloorIsNat
  <2>4. used'.shards = used.shards + 1
    BY <2>1, Shapes DEF Counters
  <2> HIDE DEF f
  <2>5. IsShard(s) /\ Genuine(log, s.ring, sent + 1) /\ f <= s.horizon
    <3>1. 0 \in 0 .. Never
      BY NeverIsNat
    <3>2. ShardOK(s, 0, log, sent)
      BY <2>3, <3>1, NewShardOK
    <3> QED
      BY <2>3, <3>2 DEF ShardOK, NewShard
  <2> HIDE DEF s, p
  <2> QED
    BY <1>2, <2>1, <2>2, <2>4, <2>5, SeedFloors DEF f
<1> QED BY <1>1, <1>2

\* Nothing the floors depend on changes.
FloorsUntouched ==
  /\ UNCHANGED <<lost, shards, preserving, entries, overflow, heap, since>>
  /\ used'.shards = used.shards

LEMMA FloorsUntouchedKept ==
  ASSUME FloorsInv, FloorsUntouched
  PROVE  FloorsInv'
BY DEF FloorsInv, FloorsUntouched

LEMMA WriterFloors ==
  ASSUME GcInv, ViewInv, FloorsInv, WriterNext
  PROVE  FloorsInv'
<1>1. CASE PushShards
  BY <1>1, PushFloors
<1>2. CASE ~PushShards
  <2>1. FloorsUntouched
    BY <1>2 DEF WriterNext, Put, Delete, DeleteNamespace, Commit, MatchShards, Send, shardVars,
           FloorsUntouched
  <2> QED
    BY <2>1, FloorsUntouchedKept
<1> QED BY <1>1, <1>2

LEMMA ShardFloors ==
  ASSUME GcInv, ViewInv, FloorsInv, ShardNext
  PROVE  FloorsInv'
<1>1. ASSUME NEW p \in AllPrefixes, IdleGcRemove(p) PROVE FloorsInv'
  <2>1. /\ shards[p] # None /\ shards' = [shards EXCEPT ![p] = None]
        /\ preserving' = preserving \cup {<<p, shards[p]>>} /\ lost' = Lose(p, shards[p])
        /\ UNCHANGED <<heap, since, entries, overflow>> /\ used' = [used EXCEPT !.gcs = @ + 1]
    BY <1>1 DEF IdleGcRemove
  <2>2. used'.shards = used.shards
    BY <2>1, Shapes DEF Counters
  <2> QED
    BY <2>1, <2>2, RemoveFloors
<1>2. ASSUME NEW p \in AllPrefixes, TearDownShard(p) PROVE FloorsInv'
  <2>1. CASE shards[p] = None
    <3>1. FloorsUntouched
      BY <1>2, <2>1 DEF TearDownShard, FloorsUntouched
    <3> QED
      BY <3>1, FloorsUntouchedKept
  <2>2. CASE shards[p] # None
    <3>1. /\ shards' = [shards EXCEPT ![p] = None]
          /\ preserving' = preserving \cup {<<p, shards[p]>>} /\ lost' = Lose(p, shards[p])
          /\ UNCHANGED <<heap, since, entries, overflow>> /\ used' = used
      BY <1>2, <2>2 DEF TearDownShard
    <3> QED
      BY <2>2, <3>1, RemoveFloors
  <2> QED BY <2>1, <2>2
<1>3. ASSUME NEW s \in ShardIds, IdleGcDecline(s) PROVE FloorsInv'
  <2>1. FloorsUntouched
    BY <1>3 DEF IdleGcDecline, FloorsUntouched
  <2> QED
    BY <2>1, FloorsUntouchedKept
<1>4. ASSUME NEW root, EvictStart(root) PROVE FloorsInv'
  <2>1. used' = [used EXCEPT !.evicts = @ + 1]
    BY <1>4 DEF EvictStart
  <2>2. used'.shards = used.shards
    BY <2>1, Shapes DEF Counters
  <2>3. FloorsUntouched
    BY <1>4, <2>2 DEF EvictStart, FloorsUntouched
  <2> QED
    BY <2>3, FloorsUntouchedKept
<1> QED
  BY <1>1, <1>2, <1>3, <1>4, StoreFloors DEF ShardNext

LEMMA StreamFloors ==
  ASSUME GcInv, ViewInv, FloorsInv, NEW w \in Watchers, StreamNext(w)
  PROVE  FloorsInv'
<1>1. CASE CreateShard(w)
  BY <1>1, CreateFloors
<1>2. CASE \E r \in 1 .. Len(log) : BackfillRow(w, r)
  BY <1>2, BackfillFloors
<1>3. CASE \E p \in WatchPrefixes, from \in 0 .. Len(log), listed \in BOOLEAN :
             OpenWatch(w, p, from, listed)
  <2>1. used' = [used EXCEPT !.opens = @ + 1] /\ UNCHANGED shardVars
    BY <1>3 DEF OpenWatch
  <2>2. used'.shards = used.shards
    BY <2>1, Shapes DEF Counters
  <2>3. FloorsUntouched
    BY <2>1, <2>2 DEF FloorsUntouched, shardVars
  <2> QED
    BY <2>3, FloorsUntouchedKept
<1>4. CASE CloseWatch(w)
  <2>1. FloorsUntouched
    BY <1>4 DEF CloseWatch, FloorsUntouched
  <2> QED
    BY <2>1, FloorsUntouchedKept
<1>5. CASE StreamStep(w) /\ ~CreateShard(w) /\ ~\E r \in 1 .. Len(log) : BackfillRow(w, r)
  <2>1. FloorsUntouched
    BY <1>5 DEF StreamStep, Resolve, ListForBackfill, BackfillDone, Attach, LoadHorizon,
           SnapshotRing, Replay, Recv, Lagged, ScanRing, Catchup, Recovered,
           Unrecovered, CollectTombstones, YieldTombstone, Compacted, Goto, shardVars, FloorsUntouched
  <2> QED
    BY <2>1, FloorsUntouchedKept
<1> QED
  BY <1>1, <1>2, <1>3, <1>4, <1>5 DEF StreamNext

\* With nothing lost and no floor waiting there is nothing to cover.
LEMMA NothingLost ==
  ASSUME NEW S, NEW H, NEW E, NEW l, NEW q \in AllPrefixes,
         S = [p \in AllPrefixes |-> None], E = [p \in AllPrefixes |-> 0], l = [p \in AllPrefixes |-> 0]
  PROVE  Covers(q, l, S, H, {}, E, 0)
<1>1. l[q] = 0 /\ S[q] = None /\ E[q] = 0 /\ ~Waits(q, {})
  BY DEF Waits
<1>2. FloorKept(q, l[q], S, H, {}, E, 0)
  BY <1>1 DEF FloorKept
<1>3. RootKept(q, l[q], S, H, {}, E, 0)
  BY <1>1 DEF RootKept
<1> QED
  BY <1>2, <1>3 DEF Covers

LEMMA InitFloors == Init => FloorsInv
<1> SUFFICES ASSUME Init PROVE FloorsInv
  OBVIOUS
<1>1. /\ lost = [p \in AllPrefixes |-> 0] /\ preserving = {} /\ overflow = 0
      /\ shards = [p \in AllPrefixes |-> None] /\ entries = [p \in AllPrefixes |-> 0]
  BY DEF Init
<1>2. \A q \in AllPrefixes : Covers(q, lost, shards, heap, preserving, entries, overflow)
  BY <1>1, NothingLost
<1> QED
  BY <1>1, <1>2 DEF FloorsInv

LEMMA RestartFloors == Restart => FloorsInv'
<1> SUFFICES ASSUME Restart PROVE FloorsInv'
  OBVIOUS
<1>1. /\ lost' = [p \in AllPrefixes |-> 0] /\ preserving' = {} /\ overflow' = 0
      /\ shards' = [p \in AllPrefixes |-> None] /\ entries' = [p \in AllPrefixes |-> 0]
  BY DEF Restart, Fresh
<1>2. \A q \in AllPrefixes : Covers(q, lost', shards', heap', preserving', entries', overflow')
  BY <1>1, NothingLost
<1> QED
  BY <1>1, <1>2 DEF FloorsInv

LEMMA NextFloors ==
  ASSUME GcInv, ViewInv, FloorsInv, [Next]_vars
  PROVE  FloorsInv'
<1>1. CASE UNCHANGED vars
  <2>1. FloorsUntouched
    BY <1>1 DEF vars, shardVars, FloorsUntouched
  <2> QED
    BY <2>1, FloorsUntouchedKept
<1>2. CASE Next
  BY <1>2, WriterFloors, ShardFloors, StreamFloors, RestartFloors DEF Next
<1> QED BY <1>1, <1>2

\* Where the floor of every shard that has left the map is to be found, in every
\* reachable state: with the shard that took its place, with the removal that
\* has yet to store it, or among the stored floors.
THEOREM FloorsInvariant == Spec => [](GcInv /\ ViewInv /\ FloorsInv)
<1>1. GcInv /\ ViewInv /\ FloorsInv /\ [Next]_vars => FloorsInv'
  BY NextFloors
<1>2. Init => FloorsInv
  BY InitFloors
<1> QED
  BY <1>1, <1>2, ViewInvariant, PTL DEF Spec

LEMMA MaxOfThree ==
  ASSUME NEW a \in Nat, NEW b \in Nat, NEW c \in Nat
  PROVE  Max({a, b, c}) \in Nat /\ Max({a, b, c}) >= a /\ Max({a, b, c}) >= b /\ Max({a, b, c}) >= c
<1> DEFINE S == {a, b, c}
<1>1. PICK m \in S : \A j \in S : j <= m
  OBVIOUS
<1>2. S \in SUBSET Nat /\ m \in Nat
  OBVIOUS
<1> HIDE DEF S
<1>3. Max(S) = m
  BY <1>1, <1>2, MaxIs
<1> QED
  BY <1>1, <1>2, <1>3 DEF S

\* What is stored covers what was discarded.
LEMMA FloorsAnswer ==
  ASSUME GcInv, ViewInv, FloorsInv
  PROVE  ReclaimedFloorCovers
<1> SUFFICES ASSUME Never \notin Range(since), NEW p \in AllPrefixes,
                    ~Waiting(p), ~Waiting(Parent(p))
             PROVE  /\ p = Parent(p) => CompactionHorizonFor(p) >= lost[p]
                    /\ FindShard(p) = None =>
                         Max({entries[p], entries[Parent(p)], overflow}) >= lost[p]
  BY DEF ReclaimedFloorCovers
<1>1. Ordered(since, used.shards)
  <2>1. \A i \in 1 .. used.shards : i \in DOMAIN since
    BY Shapes
  <2> QED
    BY <2>1 DEF Ordered, Range
<1>2. Covers(p, lost, shards, heap, preserving, entries, overflow)
  BY <1>1 DEF FloorsInv
<1>3. Parent(p) \in AllPrefixes /\ lost[p] \in Nat
  BY PrefixFacts DEF FloorsInv
<1>4. entries[p] \in Nat /\ entries[Parent(p)] \in Nat /\ overflow \in Nat
  BY <1>3 DEF ViewInv, FloorInv
<1>5. ~Waits(p, preserving) /\ ~Waits(Parent(p), preserving)
  BY DEF Waiting, Waits
<1>6. ASSUME p = Parent(p) PROVE CompactionHorizonFor(p) >= lost[p]
  <2>1. RootKept(p, lost[p], shards, heap, preserving, entries, overflow)
    BY <1>2, <1>6 DEF Covers
  <2>2. CASE shards[p] # None
    <3>1. FindShard(p) = shards[p]
      BY <2>2, WatchConstants DEF FindShard, FindShardKey
    <3>2. lost[p] <= heap[shards[p]].horizon
      BY <2>1, <2>2 DEF RootKept
    <3>3. heap[shards[p]].horizon \in Nat
      <4>1. shards[p] \in ShardIds
        BY <2>2, Shapes DEF GcInv, OwnShard
      <4> QED
        BY <4>1 DEF ViewInv, HeapInv, ShardOK, IsShard
    <3> QED
      BY <2>2, <3>1, <3>2, <3>3, <1>3 DEF CompactionHorizonFor
  <2>3. CASE shards[p] = None
    <3>1. FindShard(p) = None
      BY <2>3, <1>6 DEF FindShard, FindShardKey
    <3>2. FindReclaimedHorizon(p) = IF entries[p] # 0 THEN entries[p] ELSE overflow
      BY <1>6 DEF FindReclaimedHorizon
    <3>3. lost[p] <= IF entries[p] # 0 THEN entries[p] ELSE overflow
      BY <2>1, <2>3, <1>5 DEF RootKept
    <3> QED
      BY <3>1, <3>2, <3>3, <1>3, <1>4 DEF CompactionHorizonFor
  <2> QED BY <2>2, <2>3
<1>7. ASSUME FindShard(p) = None
      PROVE  Max({entries[p], entries[Parent(p)], overflow}) >= lost[p]
  <2>1. shards[p] = None /\ shards[Parent(p)] = None
    BY <1>3, <1>7, WatchConstants DEF FindShard, FindShardKey
  <2>2. lost[p] <= overflow \/ lost[p] <= entries[p] \/ lost[p] <= entries[Parent(p)]
    BY <1>2, <1>5, <2>1 DEF Covers, FloorKept, Kept
  <2> DEFINE m == Max({entries[p], entries[Parent(p)], overflow})
  <2>3. m \in Nat /\ m >= entries[p] /\ m >= entries[Parent(p)] /\ m >= overflow
    BY <1>4, MaxOfThree
  <2> HIDE DEF m
  <2>4. m >= lost[p]
    BY <1>3, <1>4, <2>2, <2>3
  <2> QED
    BY <2>4 DEF m
<1> QED
  BY <1>6, <1>7

\* ReclaimedFloorCovers for all keys, prefixes, capacities and bounds: however
\* idle checks, tear-downs, new shards and evicted floors interleave, a resource
\* type is refused every revision whose history went with a shard, and a
\* namespace's floor is kept where the lookup reads.
THEOREM FloorsCover == Spec => []ReclaimedFloorCovers
<1>1. GcInv /\ ViewInv /\ FloorsInv => ReclaimedFloorCovers
  BY FloorsAnswer
<1> QED
  BY <1>1, FloorsInvariant, PTL

-------------------------------------------------------------------------------
(* The caps, and the types of every variable.                               *)

\* f is byKey, g is byRev: two views of one set of entries.
Mirror(f, g) ==
  /\ DOMAIN g \subseteq Nat
  /\ \A k \in DOMAIN f : f[k] \in DOMAIN g /\ g[f[k]] = k
  /\ \A r \in DOMAIN g : g[r] \in DOMAIN f /\ f[g[r]] = r

LEMMA MirrorAdd ==
  ASSUME NEW f, NEW g, Mirror(f, g), NEW k, k \notin DOMAIN f, NEW r \in Nat, r \notin DOMAIN g
  PROVE  Mirror(With(f, k, r), With(g, r, k))
<1> DEFINE a == With(f, k, r)
           b == With(g, r, k)
<1>1. /\ DOMAIN a = DOMAIN f \cup {k} /\ a[k] = r /\ \A x \in DOMAIN f : a[x] = f[x]
      /\ DOMAIN b = DOMAIN g \cup {r} /\ b[r] = k /\ \A y \in DOMAIN g : b[y] = g[y]
  BY DEF With
<1> HIDE DEF a, b
<1>2. ASSUME NEW x \in DOMAIN a PROVE a[x] \in DOMAIN b /\ b[a[x]] = x
  BY <1>1 DEF Mirror
<1>3. ASSUME NEW y \in DOMAIN b PROVE b[y] \in DOMAIN a /\ a[b[y]] = y
  BY <1>1 DEF Mirror
<1>4. DOMAIN b \subseteq Nat
  BY <1>1 DEF Mirror
<1> QED
  BY <1>2, <1>3, <1>4 DEF Mirror, a, b

LEMMA MirrorDrop ==
  ASSUME NEW f, NEW g, Mirror(f, g), NEW k \in DOMAIN f, NEW r, r = f[k]
  PROVE  Mirror(Without(f, {k}), Without(g, {r}))
<1> DEFINE a == Without(f, {k})
           b == Without(g, {r})
<1>1. /\ DOMAIN a = DOMAIN f \ {k} /\ \A x \in DOMAIN a : a[x] = f[x]
      /\ DOMAIN b = DOMAIN g \ {r} /\ \A y \in DOMAIN b : b[y] = g[y]
  BY DEF Without, Restrict
<1> HIDE DEF a, b
<1>2. ASSUME NEW x \in DOMAIN a PROVE a[x] \in DOMAIN b /\ b[a[x]] = x
  <2>1. x \in DOMAIN f /\ x # k /\ a[x] = f[x]
    BY <1>1
  <2>2. f[x] \in DOMAIN g /\ g[f[x]] = x /\ g[f[k]] = k
    BY <2>1 DEF Mirror
  <2>3. f[x] # r
    BY <2>1, <2>2
  <2> QED
    BY <1>1, <2>1, <2>2, <2>3
<1>3. ASSUME NEW y \in DOMAIN b PROVE b[y] \in DOMAIN a /\ a[b[y]] = y
  <2>1. y \in DOMAIN g /\ y # r /\ b[y] = g[y]
    BY <1>1
  <2>2. g[y] \in DOMAIN f /\ f[g[y]] = y
    BY <2>1 DEF Mirror
  <2>3. g[y] # k
    BY <2>1, <2>2
  <2> QED
    BY <1>1, <2>1, <2>2, <2>3
<1>4. DOMAIN b \subseteq Nat
  BY <1>1 DEF Mirror
<1> QED
  BY <1>2, <1>3, <1>4 DEF Mirror, a, b

\* The names of a deletion log: few enough, and each with a deletion of the log.
Names(f, L) ==
  /\ IsFiniteSet(DOMAIN f) /\ Cardinality(DOMAIN f) <= StrippedTierCap
  /\ \A k \in DOMAIN f : f[k] \in 1 .. Len(L) /\ L[f[k]].key = k /\ L[f[k]].op = "delete"

LEMMA CapIsNat == StrippedTierCap \in Nat /\ StrippedTierCap > 0
BY RingCapacityAssumption DEF StrippedTierCap

LEMMA NamesFewer ==
  ASSUME NEW f, NEW L, Names(f, L), NEW S
  PROVE  Names(Without(f, S), L)
<1> DEFINE a == Without(f, S)
<1>1. DOMAIN a = DOMAIN f \ S /\ \A x \in DOMAIN a : a[x] = f[x]
  BY DEF Without, Restrict
<1> HIDE DEF a
<1>2. IsFiniteSet(DOMAIN f) /\ Cardinality(DOMAIN f) <= StrippedTierCap
  BY DEF Names
<1>3. /\ IsFiniteSet(DOMAIN a) /\ Cardinality(DOMAIN a) <= Cardinality(DOMAIN f)
      /\ Cardinality(DOMAIN a) \in Nat /\ Cardinality(DOMAIN f) \in Nat
  BY <1>1, <1>2, FS_Subset, FS_CardinalityType
<1>4. Cardinality(DOMAIN a) <= StrippedTierCap
  BY <1>2, <1>3, CapIsNat
<1> QED
  BY <1>1, <1>3, <1>4 DEF Names, a

\* One name more, and the oldest out if that is one too many.
LEMMA NamesAdd ==
  ASSUME NEW f, NEW g, NEW L, Names(f, L), Mirror(f, g), NEW e \in EventSet,
         e.key \notin DOMAIN f, e.rev \in 1 .. Len(L), L[e.rev].key = e.key, L[e.rev].op = "delete",
         NEW h, h = With(f, e.key, e.rev), NEW i, i = With(g, e.rev, e.key)
  PROVE  /\ Mirror(h, i)
         /\ Cardinality(DOMAIN h) <= StrippedTierCap => Names(h, L)
         /\ Cardinality(DOMAIN h) > StrippedTierCap =>
              \A r \in DOMAIN i : /\ Mirror(Without(h, {i[r]}), Without(i, {r}))
                                  /\ Names(Without(h, {i[r]}), L)
<1>1. e.rev \in Nat
  BY DEF EventSet
<1>2. e.rev \notin DOMAIN g
  <2> SUFFICES ASSUME e.rev \in DOMAIN g PROVE FALSE
    OBVIOUS
  <2>1. g[e.rev] \in DOMAIN f /\ f[g[e.rev]] = e.rev
    BY DEF Mirror
  <2>2. L[e.rev].key = g[e.rev]
    BY <2>1 DEF Names
  <2> QED
    BY <2>1, <2>2
<1>3. Mirror(h, i)
  BY <1>1, <1>2, MirrorAdd
<1>4. DOMAIN h = DOMAIN f \cup {e.key} /\ \A k \in DOMAIN h : h[k] = IF k = e.key THEN e.rev ELSE f[k]
  BY DEF With
<1>5. \A k \in DOMAIN h : h[k] \in 1 .. Len(L) /\ L[h[k]].key = k /\ L[h[k]].op = "delete"
  BY <1>4 DEF Names
<1>6. IsFiniteSet(DOMAIN f) /\ Cardinality(DOMAIN f) <= StrippedTierCap
  BY DEF Names
<1>7. /\ IsFiniteSet(DOMAIN h) /\ Cardinality(DOMAIN h) = Cardinality(DOMAIN f) + 1
      /\ Cardinality(DOMAIN f) \in Nat
  BY <1>4, <1>6, FS_AddElement, FS_CardinalityType
<1>8. Cardinality(DOMAIN h) <= StrippedTierCap => Names(h, L)
  BY <1>5, <1>7 DEF Names
<1>9. ASSUME NEW r \in DOMAIN i
      PROVE  Mirror(Without(h, {i[r]}), Without(i, {r})) /\ Names(Without(h, {i[r]}), L)
  <2> DEFINE k == i[r]
             a == Without(h, {k})
  <2>1. k \in DOMAIN h /\ h[k] = r
    BY <1>3 DEF Mirror
  <2>2. Mirror(a, Without(i, {r}))
    BY <1>3, <2>1, MirrorDrop
  <2>3. DOMAIN a = DOMAIN h \ {k} /\ \A x \in DOMAIN a : a[x] = h[x]
    BY DEF Without, Restrict
  <2> HIDE DEF a, k
  <2>4. IsFiniteSet(DOMAIN a) /\ Cardinality(DOMAIN a) = Cardinality(DOMAIN h) - 1
    BY <1>7, <2>1, <2>3, FS_RemoveElement
  <2>5. Cardinality(DOMAIN a) <= StrippedTierCap
    BY <1>6, <1>7, <2>4, CapIsNat
  <2>6. Names(a, L)
    BY <1>5, <2>3, <2>4, <2>5 DEF Names
  <2> QED
    BY <2>2, <2>6 DEF a, k
<1> QED
  BY <1>3, <1>8, <1>9

Indexed(s, L) == Mirror(s.byKey, s.byRev) /\ Names(s.byKey, L)

\* push_into_shard keeps both indices and the cap, if it is not told of the
\* deletion of a name that it has down as deleted.
LEMMA PushIndexed ==
  ASSUME NEW s, IsShard(s), NEW L, Indexed(s, L), NEW e \in EventSet, e.rev \in 1 .. Len(L),
         e.op # "put" => L[e.rev] = e /\ e.key \notin DOMAIN s.byKey
  PROVE  Indexed(PushIntoShard(s, e), L)
<1> DEFINE q == PushRing(s, e)
           t == PushIntoShard(s, e)
<1>1. DOMAIN s = ShardFields
  BY DEF IsShard
<1>2. DOMAIN q = ShardFields /\ q.byKey = s.byKey /\ q.byRev = s.byRev
  <2>1. ASSUME NEW a, NEW b
        PROVE  LET f == [s EXCEPT !.ring = a, !.horizon = b]
                   g == [s EXCEPT !.ring = a]
               IN /\ DOMAIN f = ShardFields /\ f.byKey = s.byKey /\ f.byRev = s.byRev
                  /\ DOMAIN g = ShardFields /\ g.byKey = s.byKey /\ g.byRev = s.byRev
    BY <1>1 DEF ShardFields
  <2> QED
    BY <2>1 DEF PushRing
<1> HIDE DEF q
<1>3. Mirror(s.byKey, s.byRev) /\ Names(s.byKey, L)
  BY DEF Indexed
<1>4. CASE e.op = "put"
  <2>1. t = Forget(q, e.key)
    BY <1>4 DEF PushIntoShard, q
  <2>2. CASE e.key \notin DOMAIN s.byKey
    BY <1>2, <1>3, <2>1, <2>2 DEF Forget, Indexed
  <2>3. CASE e.key \in DOMAIN s.byKey
    <3> DEFINE a == Without(s.byKey, {e.key})
               b == Without(s.byRev, {s.byKey[e.key]})
    <3>1. ASSUME NEW x, NEW y, NEW z
          PROVE  LET u == [q EXCEPT !.byKey = x, !.byRev = y, !.full = z]
                 IN u.byKey = x /\ u.byRev = y
      BY <1>2 DEF ShardFields
    <3>2. t.byKey = a /\ t.byRev = b
      BY <1>2, <2>1, <2>3, <3>1 DEF Forget
    <3>3. Mirror(a, b) /\ Names(a, L)
      BY <1>3, <2>3, MirrorDrop, NamesFewer
    <3> HIDE DEF a, b, t
    <3>4. Indexed(t, L)
      BY <3>2, <3>3 DEF Indexed
    <3> QED
      BY <3>4 DEF t
  <2> QED BY <2>2, <2>3
<1>5. CASE e.op # "put"
  <2> DEFINE a == Remember(q, e)
             b == CapFullTier(a)
             h == With(s.byKey, e.key, e.rev)
             i == With(s.byRev, e.rev, e.key)
  <2>1. t = CapStrippedTier(b)
    BY <1>5 DEF PushIntoShard, q
  <2>2. L[e.rev].key = e.key /\ L[e.rev].op = "delete" /\ e.key \notin DOMAIN s.byKey
    BY <1>5 DEF EventSet
  <2>3. /\ Mirror(h, i)
        /\ Cardinality(DOMAIN h) <= StrippedTierCap => Names(h, L)
        /\ Cardinality(DOMAIN h) > StrippedTierCap =>
             \A r \in DOMAIN i : /\ Mirror(Without(h, {i[r]}), Without(i, {r}))
                                 /\ Names(Without(h, {i[r]}), L)
    BY <1>3, <2>2, NamesAdd
  <2>4. DOMAIN h # {} /\ IsFiniteSet(DOMAIN h) /\ Cardinality(DOMAIN h) \in Nat
    <3>1. DOMAIN h = DOMAIN s.byKey \cup {e.key}
      BY DEF With
    <3>2. IsFiniteSet(DOMAIN s.byKey)
      BY <1>3 DEF Names
    <3> HIDE DEF h
    <3> QED
      BY <3>1, <3>2, FS_AddElement, FS_CardinalityType
  <2> HIDE DEF h, i, t
  <2>5. DOMAIN a = ShardFields /\ a.byKey = h /\ a.byRev = i
    BY <1>2 DEF Remember, ShardFields, h, i
  <2> HIDE DEF a
  <2>6. DOMAIN b = ShardFields /\ b.byKey = h /\ b.byRev = i
    <3>1. ASSUME NEW x
          PROVE  LET u == [a EXCEPT !.full = x]
                 IN DOMAIN u = ShardFields /\ u.byKey = h /\ u.byRev = i
      BY <2>5 DEF ShardFields
    <3> QED
      BY <2>5, <3>1 DEF CapFullTier
  <2> HIDE DEF b
  <2>7. CASE Cardinality(DOMAIN h) > StrippedTierCap
    <3> DEFINE r == Min(DOMAIN i)
    <3>1. r \in DOMAIN i
      <4>1. DOMAIN i \in SUBSET Nat /\ DOMAIN i # {}
        BY <2>3, <2>4 DEF Mirror
      <4>2. PICK x \in DOMAIN i : \A y \in DOMAIN i : x <= y
        BY <4>1, LeastNat
      <4> QED
        BY <4>2 DEF Min
    <3>2. ASSUME NEW x, NEW y, NEW z
          PROVE  LET u == [b EXCEPT !.byKey = x, !.byRev = y, !.full = z]
                 IN u.byKey = x /\ u.byRev = y
      BY <2>6 DEF ShardFields
    <3>3. t.byKey = Without(h, {i[r]}) /\ t.byRev = Without(i, {r})
      BY <2>1, <2>6, <2>7, <3>2 DEF CapStrippedTier
    <3> HIDE DEF r
    <3> QED
      BY <2>3, <2>7, <3>1, <3>3 DEF Indexed, t
  <2>8. CASE ~(Cardinality(DOMAIN h) > StrippedTierCap)
    <3>1. t = b
      BY <2>1, <2>6, <2>8 DEF CapStrippedTier
    <3>2. Cardinality(DOMAIN h) <= StrippedTierCap
      BY <2>4, <2>8, CapIsNat
    <3> QED
      BY <2>3, <2>6, <3>1, <3>2 DEF Indexed, t
  <2> QED BY <2>7, <2>8
<1> QED BY <1>4, <1>5

\* Its ring has room, and its floor is not above the log.
Roomy(s, L) == Len(s.ring) <= RingCapacity /\ s.horizon <= Len(L)

LEMMA PushRoomy ==
  ASSUME NEW s, IsShard(s), NEW L, Len(L) \in Nat, Roomy(s, L), NEW n, Genuine(L, s.ring, n),
         NEW e \in EventSet, e.rev <= Len(L)
  PROVE  Roomy(PushIntoShard(s, e), L)
<1> DEFINE n0 == Len(s.ring)
           q == Append(s.ring, e)
           t == PushIntoShard(s, e)
           u == PushRing(s, e)
<1>1. /\ s.ring \in Seq(EventSet) /\ n0 \in Nat /\ s.horizon \in Nat /\ DOMAIN s = ShardFields
      /\ n0 <= RingCapacity /\ RingCapacity \in Nat /\ RingCapacity > 0 /\ s.horizon <= Len(L)
  BY RingCapacityAssumption DEF IsShard, Roomy
<1>2. /\ q \in Seq(EventSet) /\ Len(q) = n0 + 1 /\ q[n0 + 1] = e /\ \A i \in 1 .. n0 : q[i] = s.ring[i]
  BY <1>1
<1> HIDE DEF q, n0, t
<1>3. \A i \in 1 .. n0 + 1 : q[i].rev \in Nat /\ q[i].rev <= Len(L)
  <2>1. \A i \in 1 .. n0 : q[i] \in EventSet /\ q[i].rev <= Len(L)
    <3>1. \A i \in 1 .. n0 : s.ring[i] \in EventSet /\ i \in DOMAIN s.ring
      BY <1>1 DEF n0
    <3> QED
      BY <1>2, <3>1 DEF Genuine
  <2>2. \A i \in 1 .. n0 + 1 : i \in 1 .. n0 \/ i = n0 + 1
    BY <1>1
  <2>3. \A i \in 1 .. n0 + 1 : q[i] \in EventSet /\ q[i].rev <= Len(L)
    BY <1>2, <2>1, <2>2
  <2> QED
    BY <2>3 DEF EventSet
<1>4. CASE n0 + 1 > RingCapacity
  <2> DEFINE h == Max({s.horizon, Tail(q)[1].rev})
  <2>1. Len(Tail(q)) = n0 /\ n0 >= 1 /\ Tail(q)[1] = q[2]
    BY <1>1, <1>2, <1>4
  <2>2. h \in Nat /\ h <= Len(L)
    <3>1. q[2].rev \in Nat /\ q[2].rev <= Len(L)
      BY <1>1, <1>3, <2>1
    <3>2. h = IF s.horizon > q[2].rev THEN s.horizon ELSE q[2].rev
      BY <1>1, <2>1, <3>1, MaxOfTwo
    <3> HIDE DEF h
    <3> QED
      BY <1>1, <3>1, <3>2
  <2> HIDE DEF h
  <2>3. u = [s EXCEPT !.ring = Tail(q), !.horizon = h]
    BY <1>2, <1>4 DEF PushRing, q, h
  <2>4. DOMAIN u = ShardFields /\ u.ring = Tail(q) /\ u.horizon = h
    BY <1>1, <2>3 DEF ShardFields
  <2>5. t.ring = Tail(q) /\ t.horizon = h
    BY <1>1, <2>4, PushIsPushRing DEF SameRing, t
  <2> QED
    BY <1>1, <2>1, <2>2, <2>5 DEF Roomy, t
<1>5. CASE ~(n0 + 1 > RingCapacity)
  <2>1. u = [s EXCEPT !.ring = q]
    BY <1>2, <1>5 DEF PushRing, q
  <2>2. DOMAIN u = ShardFields /\ u.ring = q /\ u.horizon = s.horizon
    BY <1>1, <2>1 DEF ShardFields
  <2>3. t.ring = q /\ t.horizon = s.horizon
    BY <1>1, <2>2, PushIsPushRing DEF SameRing, t
  <2>4. n0 + 1 <= RingCapacity
    BY <1>1, <1>5
  <2> QED
    BY <1>1, <1>2, <2>3, <2>4 DEF Roomy, t
<1> QED BY <1>4, <1>5

\* The entries a push leaves: those that were there, and the deleted name's.
Entries(t, s, e) ==
  \A k \in DOMAIN t.byKey :
    IF k = e.key THEN e.op # "put" /\ t.byKey[k] = e.rev
    ELSE k \in DOMAIN s.byKey /\ t.byKey[k] = s.byKey[k]

LEMMA PushEntries ==
  ASSUME NEW s, IsShard(s), NEW e
  PROVE  Entries(PushIntoShard(s, e), s, e)
<1> DEFINE q == PushRing(s, e)
           t == PushIntoShard(s, e)
<1>1. DOMAIN s = ShardFields
  BY DEF IsShard
<1>2. DOMAIN q = ShardFields /\ q.byKey = s.byKey
  <2>1. ASSUME NEW a, NEW b
        PROVE  LET f == [s EXCEPT !.ring = a, !.horizon = b]
                   g == [s EXCEPT !.ring = a]
               IN /\ DOMAIN f = ShardFields /\ f.byKey = s.byKey
                  /\ DOMAIN g = ShardFields /\ g.byKey = s.byKey
    BY <1>1 DEF ShardFields
  <2> QED
    BY <2>1 DEF PushRing
<1> HIDE DEF q
<1>3. \A f, S : /\ DOMAIN Without(f, S) = DOMAIN f \ S
                /\ \A k \in DOMAIN f \ S : Without(f, S)[k] = f[k]
  BY DEF Without, Restrict
<1>4. CASE e.op = "put"
  <2>1. DOMAIN t.byKey = DOMAIN s.byKey \ {e.key} /\ \A k \in DOMAIN t.byKey : t.byKey[k] = s.byKey[k]
    BY <1>4, PushNames, ZenonT(60)
  <2> HIDE DEF t
  <2> QED
    BY <2>1 DEF Entries, t
<1>5. CASE e.op # "put"
  <2> DEFINE a == Remember(q, e)
             b == CapFullTier(a)
             h == With(s.byKey, e.key, e.rev)
  <2>1. t = CapStrippedTier(b)
    BY <1>5 DEF PushIntoShard, q
  <2>2. DOMAIN h = DOMAIN s.byKey \cup {e.key}
        /\ \A k \in DOMAIN h : h[k] = IF k = e.key THEN e.rev ELSE s.byKey[k]
    BY DEF With
  <2> HIDE DEF h, t
  <2>3. DOMAIN a = ShardFields /\ a.byKey = h
    BY <1>2 DEF Remember, ShardFields, h
  <2> HIDE DEF a
  <2>4. DOMAIN b = ShardFields /\ b.byKey = h
    <3>1. ASSUME NEW x
          PROVE  DOMAIN [a EXCEPT !.full = x] = ShardFields /\ [a EXCEPT !.full = x].byKey = h
      BY <2>3 DEF ShardFields
    <3> QED
      BY <2>3, <3>1 DEF CapFullTier
  <2> HIDE DEF b
  <2>5. ASSUME NEW x, NEW y, NEW z
        PROVE  [b EXCEPT !.byKey = x, !.byRev = y, !.full = z].byKey = x
    BY <2>4 DEF ShardFields
  <2>6. CASE Cardinality(DOMAIN h) > StrippedTierCap
    <3> DEFINE S == {b.byRev[Min(DOMAIN b.byRev)]}
               w == Without(h, S)
    <3>1. t.byKey = w
      BY <2>1, <2>4, <2>5, <2>6 DEF CapStrippedTier
    <3>2. DOMAIN w = DOMAIN h \ S /\ \A k \in DOMAIN h \ S : w[k] = h[k]
      BY <1>3
    <3> HIDE DEF w, S
    <3>3. DOMAIN t.byKey \subseteq DOMAIN h /\ \A k \in DOMAIN t.byKey : t.byKey[k] = h[k]
      BY <3>1, <3>2
    <3> QED
      BY <1>5, <2>2, <3>3 DEF Entries, t
  <2>7. CASE ~(Cardinality(DOMAIN h) > StrippedTierCap)
    <3>1. t.byKey = h
      BY <2>1, <2>4, <2>7 DEF CapStrippedTier
    <3> QED
      BY <1>5, <2>2, <3>1 DEF Entries, t
  <2> QED
    BY <2>6, <2>7
<1> QED BY <1>4, <1>5

\* The tombstones of s are the last word on their names, when m events are pushed.
Current(s, L, m) ==
  \A k \in DOMAIN s.byKey :
    s.byKey[k] <= m /\ \A j \in 1 .. Len(L) : j <= m /\ L[j].key = k => j <= s.byKey[k]

\* So a name with a row has no tombstone.
LEMMA NoTombstone ==
  ASSUME NEW s, NEW L, Len(L) \in Nat, NEW m \in Nat, m <= Len(L), Indexed(s, L), Current(s, L, m),
         NEW k, RowIn(L, k, m) # 0
  PROVE  k \notin DOMAIN s.byKey
<1> SUFFICES ASSUME k \in DOMAIN s.byKey PROVE FALSE
  OBVIOUS
<1> DEFINE i == s.byKey[k]
<1>1. i \in 1 .. Len(L) /\ L[i].key = k /\ L[i].op = "delete"
  BY DEF Indexed, Names
<1>2. i <= m /\ \A j \in 1 .. Len(L) : j <= m /\ L[j].key = k => j <= i
  BY DEF Current
<1> HIDE DEF i
<1>3. LastOn(L, k, m, i)
  BY <1>1, <1>2 DEF LastOn
<1>4. RowIn(L, k, m) = 0
  BY <1>1, <1>3, RowInLast
<1> QED
  BY <1>4

\* The next event of the log, pushed into a shard, or of no concern to it.
LEMMA CurrentPush ==
  ASSUME NEW s, NEW t, NEW L, Len(L) \in Nat, NEW m \in Nat, m + 1 <= Len(L), Current(s, L, m),
         Indexed(s, L), NEW e, e = L[m + 1], e.rev = m + 1, Entries(t, s, e)
  PROVE  Current(t, L, m + 1)
<1> SUFFICES ASSUME NEW k \in DOMAIN t.byKey
             PROVE  /\ t.byKey[k] <= m + 1
                    /\ \A j \in 1 .. Len(L) : j <= m + 1 /\ L[j].key = k => j <= t.byKey[k]
  BY DEF Current
<1>1. CASE k = e.key
  <2>1. t.byKey[k] = m + 1
    BY <1>1 DEF Entries
  <2> QED
    BY <2>1
<1>2. CASE k # e.key
  <2>1. k \in DOMAIN s.byKey /\ t.byKey[k] = s.byKey[k]
    BY <1>2 DEF Entries
  <2>2. s.byKey[k] \in 1 .. Len(L)
    BY <2>1 DEF Indexed, Names
  <2>3. s.byKey[k] <= m /\ \A j \in 1 .. Len(L) : j <= m /\ L[j].key = k => j <= s.byKey[k]
    BY <2>1 DEF Current
  <2>4. \A j \in 1 .. Len(L) : j <= m + 1 /\ L[j].key = k => j <= m
    BY <1>2
  <2> QED
    BY <2>1, <2>2, <2>3, <2>4
<1> QED BY <1>1, <1>2

LEMMA CurrentSkip ==
  ASSUME NEW s, NEW L, Len(L) \in Nat, NEW m \in Nat, m + 1 <= Len(L), Current(s, L, m),
         Indexed(s, L), L[m + 1].key \notin DOMAIN s.byKey
  PROVE  Current(s, L, m + 1)
<1> SUFFICES ASSUME NEW k \in DOMAIN s.byKey
             PROVE  /\ s.byKey[k] <= m + 1
                    /\ \A j \in 1 .. Len(L) : j <= m + 1 /\ L[j].key = k => j <= s.byKey[k]
  BY DEF Current
<1>1. s.byKey[k] \in 1 .. Len(L)
  BY DEF Indexed, Names
<1>2. s.byKey[k] <= m /\ \A j \in 1 .. Len(L) : j <= m /\ L[j].key = k => j <= s.byKey[k]
  BY DEF Current
<1>3. \A j \in 1 .. Len(L) : j <= m + 1 /\ L[j].key = k => j <= m
  OBVIOUS
<1> QED
  BY <1>1, <1>2, <1>3

\* A longer log.
LEMMA LogsGrown ==
  ASSUME NEW L, NEW M, Extends(M, L), NEW s
  PROVE  /\ Indexed(s, L) => Indexed(s, M)
         /\ IsShard(s) /\ Roomy(s, L) => Roomy(s, M)
         /\ \A m \in Nat : m <= Len(L) /\ Current(s, L, m) => Current(s, M, m)
<1>1. Len(L) \in Nat /\ Len(M) \in Nat /\ Len(L) <= Len(M) /\ \A i \in 1 .. Len(L) : M[i] = L[i]
  BY DEF Extends
<1>2. Indexed(s, L) => Indexed(s, M)
  <2>1. Names(s.byKey, L) => Names(s.byKey, M)
    BY <1>1 DEF Names
  <2> QED
    BY <2>1 DEF Indexed
<1>3. IsShard(s) /\ Roomy(s, L) => Roomy(s, M)
  BY <1>1 DEF Roomy, IsShard
<1>4. ASSUME NEW m \in Nat, m <= Len(L), Current(s, L, m) PROVE Current(s, M, m)
  <2>1. \A j \in 1 .. Len(M) : j <= m => j \in 1 .. Len(L) /\ M[j] = L[j]
    BY <1>1, <1>4
  <2> QED
    BY <1>4, <2>1 DEF Current
<1> QED
  BY <1>2, <1>3, <1>4

LEMMA NewShardLogs ==
  ASSUME NEW f \in Nat, NEW L, f <= Len(L), NEW m
  PROVE  LET s == NewShard(f)
         IN Indexed(s, L) /\ Roomy(s, L) /\ Current(s, L, m) /\ DOMAIN s.byKey = {}
<1> DEFINE s == NewShard(f)
<1>1. s.byKey = Empty /\ s.byRev = Empty /\ s.ring = <<>> /\ s.horizon = f
  BY DEF NewShard
<1>2. DOMAIN Empty = {}
  BY DEF Empty
<1> HIDE DEF s
<1>3. Mirror(Empty, Empty)
  BY <1>2 DEF Mirror
<1>4. IsFiniteSet({}) /\ Cardinality({}) = 0
  BY FS_EmptySet
<1>5. Names(Empty, L)
  BY <1>2, <1>4, CapIsNat DEF Names
<1>6. Roomy(s, L)
  BY <1>1, RingCapacityAssumption DEF Roomy
<1> QED
  BY <1>1, <1>2, <1>3, <1>5, <1>6 DEF Indexed, Current, s

\* A shard within its caps.
Logged(s, L) == Indexed(s, L) /\ Roomy(s, L)

\* The tombstones of p's shard are current; it has none when the event being
\* pushed passes it by.
MapLog(p, H, S, L, n, m, t) ==
  S[p] # None =>
    /\ Current(H[S[p]], L, m)
    /\ t # None /\ S[p] \notin t /\ L[n + 1].key \in Under(p) => DOMAIN H[S[p]].byKey = {}

\* The reclaimed floors E and their overflow o.
HeldBy(E) == {p \in AllPrefixes : E[p] # 0}

Capped(E, o, n) ==
  /\ o <= n /\ \A p \in AllPrefixes : E[p] <= n
  /\ IsFiniteSet(HeldBy(E)) /\ Cardinality(HeldBy(E)) <= MaxReclaimed

CapsInv ==
  /\ \A i \in ShardIds : Logged(heap[i], log)
  /\ \A p \in AllPrefixes : MapLog(p, heap, shards, log, sent, pushed, targets)
  /\ targets # None => \A i \in targets : Current(heap[i], log, pushed)
  /\ Capped(entries, overflow, Len(log))

Invs == GcInv /\ ViewInv /\ DeletionInv /\ CapsInv

LEMMA PushLogged ==
  ASSUME NEW s, IsShard(s), NEW L, Len(L) \in Nat, Logged(s, L), NEW n, Genuine(L, s.ring, n),
         NEW e \in EventSet, e.rev \in 1 .. Len(L),
         e.op # "put" => L[e.rev] = e /\ e.key \notin DOMAIN s.byKey
  PROVE  Logged(PushIntoShard(s, e), L)
<1>1. Indexed(s, L) /\ Roomy(s, L)
  BY DEF Logged
<1>2. Indexed(PushIntoShard(s, e), L)
  BY <1>1, PushIndexed
<1>3. e.rev <= Len(L)
  OBVIOUS
<1>4. Roomy(PushIntoShard(s, e), L)
  BY <1>1, <1>3, PushRoomy
<1> QED
  BY <1>2, <1>4 DEF Logged

\* A commit or a send: the log may grow, and nothing is pushed.
LEMMA GrowsCaps ==
  ASSUME Invs, Extends(log', log), UNCHANGED <<pushed, targets>>, targets = None, SameCache
  PROVE  CapsInv'
<1>1. pushed \in Nat /\ pushed <= Len(log) /\ Len(log) \in Nat
  BY WritingTypes DEF Invs, ViewInv
<1>2. Len(log') \in Nat /\ Len(log) <= Len(log')
  BY DEF Extends
<1>3. ASSUME NEW i \in ShardIds PROVE Logged(heap[i], log')
  <2>1. IsShard(heap[i]) /\ Logged(heap[i], log)
    BY DEF Invs, ViewInv, HeapInv, ShardOK, CapsInv
  <2> QED
    BY <2>1, LogsGrown DEF Logged
<1>4. ASSUME NEW p \in AllPrefixes PROVE MapLog(p, heap, shards, log', sent', pushed, targets)
  <2> SUFFICES ASSUME shards[p] # None PROVE Current(heap[shards[p]], log', pushed)
    BY DEF MapLog
  <2>1. Current(heap[shards[p]], log, pushed)
    BY DEF Invs, CapsInv, MapLog
  <2> QED
    BY <1>1, <2>1, LogsGrown
<1>5. Capped(entries, overflow, Len(log'))
  <2>1. overflow \in Nat /\ \A p \in AllPrefixes : entries[p] \in Nat
    BY DEF Invs, ViewInv, FloorInv
  <2> QED
    BY <1>1, <1>2, <2>1 DEF Invs, CapsInv, Capped
<1> QED
  BY <1>3, <1>4, <1>5 DEF CapsInv, SameCache

LEMMA CommitExtends ==
  ASSUME ViewInv, NEW b, Batch(b), Commit(b)
  PROVE  Extends(log', log)
<1>1. log \in Seq(EventSet) /\ Len(log) \in Nat /\ b \in Seq(EventSet) /\ Len(b) \in Nat
  BY DEF ViewInv, Writing, Batch
<1>2. log' = log \o b
  BY DEF Commit
<1>3. Len(log') = Len(log) + Len(b) /\ \A i \in 1 .. Len(log) : log'[i] = log[i]
  BY <1>1, <1>2
<1> QED
  BY <1>1, <1>3 DEF Extends

LEMMA CommitCaps ==
  ASSUME Invs, NEW b, Batch(b), Commit(b)
  PROVE  CapsInv'
<1>1. Writing(log, sent, pushed, targets, used.shards)
  BY DEF Invs, ViewInv
<1>2. /\ Len(log) \in Nat /\ sent = Len(log) /\ pushed = sent /\ targets = None
      /\ log \in Seq(EventSet)
  BY <1>1 DEF Commit, Idle, Writing
<1>3. SameCache /\ UNCHANGED <<pushed, targets>>
  BY DEF Commit, shardVars, SameCache
<1>4. Extends(log', log)
  BY CommitExtends DEF Invs
<1> QED
  BY <1>2, <1>3, <1>4, GrowsCaps

LEMMA SendCaps ==
  ASSUME Invs, Send
  PROVE  CapsInv'
<1>1. Writing(log, sent, pushed, targets, used.shards)
  BY DEF Invs, ViewInv
<1>2. /\ log' = log /\ UNCHANGED <<pushed, targets>> /\ pushed = sent + 1
  BY DEF Send
<1>3. SameCache
  BY DEF Send, SameCache, shardVars
<1>4. Len(log) \in Nat /\ sent \in Nat
  BY <1>1, WritingTypes
<1>5. targets = None
  BY <1>1, <1>2, <1>4 DEF Writing
<1>6. Extends(log', log)
  BY <1>2, <1>4 DEF Extends
<1> QED
  BY <1>2, <1>3, <1>5, <1>6, GrowsCaps

LEMMA MatchCaps ==
  ASSUME Invs, MatchShards
  PROVE  CapsInv'
<1> DEFINE k == log[sent + 1].key
           found == {shards[p] : p \in MatchingShards(k)}
<1>1. targets' = found /\ UNCHANGED <<log, pushed, sent>> /\ sent < Len(log)
  BY DEF MatchShards
<1>2. SameCache
  BY DEF MatchShards, shardVars, SameCache
<1>3. k \in Keys
  <2>1. /\ Len(log) \in Nat /\ sent \in Nat /\ \A i \in 1 .. Len(log) : log[i] \in EventSet
    BY WritingTypes DEF Invs, ViewInv
  <2>2. sent + 1 \in 1 .. Len(log)
    BY <1>1, <2>1
  <2> QED
    BY <2>1, <2>2 DEF EventSet
<1>4. \A s \in found : \E q \in AllPrefixes : shards[q] # None /\ shards[q] = s
  BY <1>3 DEF MatchingShards, AllPrefixes
<1>5. \A p \in AllPrefixes : shards[p] # None /\ k \in Under(p) => shards[p] \in found
  BY PrefixFacts DEF MatchingShards
<1> HIDE DEF found, k
<1>6. ASSUME NEW p \in AllPrefixes PROVE MapLog(p, heap, shards, log, sent, pushed, found)
  BY <1>5 DEF Invs, CapsInv, MapLog, k
<1>7. ASSUME NEW i \in found PROVE Current(heap[i], log, pushed)
  <2>1. PICK q \in AllPrefixes : shards[q] # None /\ shards[q] = i
    BY <1>4
  <2> QED
    BY <2>1 DEF Invs, CapsInv, MapLog
<1> QED
  BY <1>1, <1>2, <1>6, <1>7 DEF Invs, CapsInv, SameCache

\* A name is deleted only while it has a row, so no current tombstone has it.
LEMMA NotDeletedTwice ==
  ASSUME Invs, targets # None, NEW i \in ShardIds, Current(heap[i], log, sent),
         log[sent + 1].op # "put"
  PROVE  log[sent + 1].key \notin DOMAIN heap[i].byKey
<1> DEFINE e == log[sent + 1]
<1>1. /\ Len(log) \in Nat /\ sent \in Nat /\ pushed = sent /\ sent < Len(log)
      /\ \A j \in 1 .. Len(log) : log[j] \in EventSet
  BY WritingTypes DEF Invs, ViewInv, Writing
<1>2. sent + 1 \in 1 .. Len(log) /\ sent <= Len(log)
  BY <1>1
<1>3. e.op = "delete"
  BY <1>1, <1>2 DEF EventSet
<1>4. RowIn(log, e.key, sent) # 0
  BY <1>1, <1>2, <1>3 DEF Invs, DeletionInv, Pending
<1>5. Indexed(heap[i], log)
  BY DEF Invs, CapsInv, Logged
<1> HIDE DEF e
<1> QED
  BY <1>1, <1>2, <1>4, <1>5, NoTombstone DEF e

\* A mapped shard that the event does not reach.
LEMMA PassedLog ==
  ASSUME Invs, targets # None, NEW p \in AllPrefixes, shards[p] # None, shards[p] \notin targets
  PROVE  Current(heap[shards[p]], log, sent + 1)
<1> DEFINE e == log[sent + 1]
           s == heap[shards[p]]
<1>1. Len(log) \in Nat /\ sent \in Nat /\ pushed = sent /\ sent + 1 <= Len(log)
  <2>1. Len(log) \in Nat /\ sent \in Nat /\ pushed = sent /\ sent < Len(log)
    BY WritingTypes DEF Invs, ViewInv, Writing
  <2> QED
    BY <2>1
<1>2. Current(s, log, sent) /\ (e.key \in Under(p) => DOMAIN s.byKey = {})
  BY <1>1 DEF Invs, CapsInv, MapLog
<1>3. DOMAIN s.byKey \subseteq Under(p)
  BY DEF Invs, DeletionInv, Remembering, DeletionLog, Deleted
<1>4. e.key \notin DOMAIN s.byKey
  BY <1>2, <1>3
<1>5. Indexed(s, log)
  <2>1. shards[p] \in ShardIds
    BY Shapes DEF Invs, GcInv, OwnShard
  <2> QED
    BY <2>1 DEF Invs, CapsInv, Logged
<1> HIDE DEF s
<1>6. Current(s, log, sent + 1)
  BY <1>1, <1>2, <1>4, <1>5, CurrentSkip
<1> QED
  BY <1>6 DEF s

\* The event after `sent' goes into the shards S.
LEMMA PushedIntoCaps ==
  ASSUME Invs, targets # None, NEW S \in SUBSET ShardIds, targets \subseteq S,
         \A i \in S : Current(heap[i], log, sent),
         heap' = [s \in ShardIds |-> IF s \in S THEN PushIntoShard(heap[s], log[sent + 1])
                                     ELSE heap[s]]
  PROVE  /\ \A i \in ShardIds : Logged(heap'[i], log)
         /\ \A p \in AllPrefixes : MapLog(p, heap', shards, log, sent, sent + 1, None)
<1> DEFINE e == log[sent + 1]
<1>1. /\ Len(log) \in Nat /\ sent \in Nat /\ sent + 1 <= Len(log) /\ sent + 1 \in 1 .. Len(log)
      /\ e \in EventSet /\ e.rev = sent + 1
  <2>1. /\ Len(log) \in Nat /\ sent \in Nat /\ sent < Len(log)
        /\ \A i \in 1 .. Len(log) : log[i] \in EventSet /\ log[i].rev = i
    BY WritingTypes DEF Invs, ViewInv, Writing
  <2> QED
    BY <2>1
<1>2. ASSUME NEW i \in ShardIds
      PROVE  /\ heap'[i] = IF i \in S THEN PushIntoShard(heap[i], e) ELSE heap[i]
             /\ IsShard(heap[i]) /\ Genuine(log, heap[i].ring, sent + 1) /\ Logged(heap[i], log)
  BY DEF Invs, ViewInv, HeapInv, ShardOK, CapsInv
<1>3. ASSUME NEW i \in ShardIds PROVE Logged(heap'[i], log)
  <2>1. CASE i \in S
    <3>1. e.op # "put" => log[e.rev] = e /\ e.key \notin DOMAIN heap[i].byKey
      BY <1>1, <2>1, NotDeletedTwice
    <3> HIDE DEF e
    <3>2. Logged(PushIntoShard(heap[i], e), log)
      BY <1>1, <1>2, <3>1, PushLogged
    <3> QED
      BY <1>2, <2>1, <3>2
  <2>2. CASE i \notin S
    BY <1>2, <2>2
  <2> QED BY <2>1, <2>2
<1>4. ASSUME NEW p \in AllPrefixes, shards[p] # None
      PROVE  Current(heap'[shards[p]], log, sent + 1)
  <2> DEFINE i == shards[p]
  <2>1. i \in ShardIds
    BY <1>4, Shapes DEF Invs, GcInv, OwnShard
  <2>2. CASE i \in S
    <3> DEFINE s == heap[i]
               t == PushIntoShard(s, e)
    <3>1. Current(s, log, sent) /\ Indexed(s, log) /\ Entries(t, s, e) /\ heap'[i] = t
      BY <1>2, <2>1, <2>2, PushEntries DEF Logged
    <3> HIDE DEF s, t, i
    <3>2. Current(t, log, sent + 1)
      BY <1>1, <3>1, CurrentPush
    <3> QED
      BY <3>1, <3>2 DEF i
  <2>3. CASE i \notin S
    BY <1>2, <1>4, <2>1, <2>3, PassedLog
  <2> QED BY <2>2, <2>3
<1> QED
  BY <1>3, <1>4 DEF MapLog

\* get_or_create_shard: the new shard starts within its caps.
LEMMA SeedCaps ==
  ASSUME Invs, NEW p \in AllPrefixes, NEW shard, SeedShard(p, shard), Logged(shard, log),
         NEW m \in Nat, Current(shard, log, m), NEW t, t # None => DOMAIN shard.byKey = {},
         \A q \in AllPrefixes \ {p} : MapLog(q, heap, shards, log, sent, m, t)
  PROVE  /\ \A i \in ShardIds : Logged(heap'[i], log)
         /\ \A q \in AllPrefixes : MapLog(q, heap', shards', log, sent, m, t)
         /\ \A i \in 1 .. used.shards : heap'[i] = heap[i]
         /\ Capped(entries', overflow, Len(log))
<1> DEFINE new == NextShard
<1>1. /\ shards' = [shards EXCEPT ![p] = new] /\ heap' = [heap EXCEPT ![new] = shard]
      /\ entries' = [entries EXCEPT ![p] = 0]
      /\ new = used.shards + 1 /\ new <= MaxShards
  BY DEF SeedShard, NextShard
<1> HIDE DEF new
<1>2. new \in ShardIds /\ new \notin 1 .. used.shards /\ \A s \in 1 .. used.shards : s \in ShardIds \ {new}
  BY <1>1, Shapes DEF Invs, ShardIds
<1>3. /\ heap'[new] = shard
      /\ \A s \in ShardIds \ {new} : heap'[s] = heap[s]
      /\ shards'[p] = new /\ \A q \in AllPrefixes \ {p} : shards'[q] = shards[q]
  BY <1>1, <1>2, Shapes DEF Invs
<1>4. ASSUME NEW i \in ShardIds PROVE Logged(heap'[i], log)
  <2>1. CASE i = new
    BY <1>3, <2>1
  <2>2. CASE i # new
    BY <1>3, <2>2 DEF Invs, CapsInv
  <2> QED BY <2>1, <2>2
<1>5. ASSUME NEW q \in AllPrefixes PROVE MapLog(q, heap', shards', log, sent, m, t)
  <2>1. CASE q = p
    BY <1>3, <2>1 DEF MapLog
  <2>2. CASE q # p
    <3>1. MapLog(q, heap, shards, log, sent, m, t) /\ shards'[q] = shards[q]
      BY <1>3, <2>2
    <3>2. shards[q] # None => heap'[shards[q]] = heap[shards[q]]
      BY <1>2, <1>3 DEF Invs, GcInv, OwnShard
    <3> QED
      BY <3>1, <3>2 DEF MapLog
  <2> QED BY <2>1, <2>2
<1>6. Capped(entries', overflow, Len(log))
  <2>1. /\ Capped(entries, overflow, Len(log)) /\ DOMAIN entries = AllPrefixes
        /\ Len(log) \in Nat
    BY WritingTypes DEF Invs, CapsInv, ViewInv, FloorInv
  <2>2. \A q \in AllPrefixes : entries'[q] = IF q = p THEN 0 ELSE entries[q]
    BY <1>1, <2>1
  <2>3. HeldBy(entries') \subseteq HeldBy(entries)
    BY <2>2 DEF HeldBy
  <2>4. IsFiniteSet(HeldBy(entries)) /\ Cardinality(HeldBy(entries)) <= MaxReclaimed
    BY <2>1 DEF Capped
  <2>5. /\ IsFiniteSet(HeldBy(entries')) /\ Cardinality(HeldBy(entries')) <= Cardinality(HeldBy(entries))
        /\ Cardinality(HeldBy(entries)) \in Nat /\ Cardinality(HeldBy(entries')) \in Nat
    BY <2>3, <2>4, FS_Subset, FS_CardinalityType
  <2>6. Cardinality(HeldBy(entries')) <= MaxReclaimed
    BY <2>4, <2>5, WatchConstants
  <2>7. overflow <= Len(log) /\ \A q \in AllPrefixes : entries'[q] <= Len(log)
    BY <2>1, <2>2 DEF Capped
  <2> QED
    BY <2>5, <2>6, <2>7 DEF Capped
<1>7. \A i \in 1 .. used.shards : heap'[i] = heap[i]
  BY <1>2, <1>3
<1> QED
  BY <1>4, <1>5, <1>6, <1>7

LEMMA FloorBelowLog ==
  ASSUME Invs, NEW p \in AllPrefixes
  PROVE  FindReclaimedHorizon(p) \in Nat /\ FindReclaimedHorizon(p) <= Len(log)
<1>1. Parent(p) \in AllPrefixes
  BY PrefixFacts
<1>2. FindReclaimedHorizon(p) \in Nat
  BY FloorIsNat DEF Invs
<1>3. FindReclaimedHorizon(p) <= Len(log)
  BY <1>1 DEF Invs, CapsInv, Capped, FindReclaimedHorizon
<1> QED
  BY <1>2, <1>3

LEMMA CreateCaps ==
  ASSUME Invs, NEW w \in Watchers, CreateShard(w)
  PROVE  CapsInv'
<1> DEFINE p == st[w].prefix
           shard == NewShard(FindReclaimedHorizon(p))
<1>1. UNCHANGED <<log, sent, pushed, targets>>
  BY DEF CreateShard, writerVars
<1>2. CASE shards[p] # None
  <2>1. UNCHANGED <<shards, heap, entries, overflow>>
    BY <1>2 DEF CreateShard, shardVars
  <2> QED
    BY <1>1, <2>1 DEF Invs, CapsInv
<1>3. CASE shards[p] = None
  <2>1. SeedShard(p, shard) /\ overflow' = overflow
    BY <1>3 DEF CreateShard
  <2>2. p \in AllPrefixes
    BY DEF CreateShard, Invs, ViewInv, ClientOK, Opened
  <2>3. Logged(shard, log) /\ Current(shard, log, pushed) /\ DOMAIN shard.byKey = {}
    BY <2>2, FloorBelowLog, NewShardLogs DEF Logged
  <2>4. \A q \in AllPrefixes \ {p} : MapLog(q, heap, shards, log, sent, pushed, targets)
    BY DEF Invs, CapsInv
  <2>5. pushed \in Nat
    BY WritingTypes DEF Invs, ViewInv
  <2> HIDE DEF p, shard
  <2>6. /\ \A i \in ShardIds : Logged(heap'[i], log)
        /\ \A q \in AllPrefixes : MapLog(q, heap', shards', log, sent, pushed, targets)
        /\ \A i \in 1 .. used.shards : heap'[i] = heap[i]
        /\ Capped(entries', overflow, Len(log))
    BY <2>1, <2>2, <2>3, <2>4, <2>5, SeedCaps
  <2>7. targets # None => \A i \in targets : Current(heap'[i], log, pushed)
    <3>1. targets # None => targets \subseteq 1 .. used.shards
      BY DEF Invs, ViewInv, Writing
    <3> QED
      BY <2>6, <3>1 DEF Invs, CapsInv
  <2> QED
    BY <1>1, <2>1, <2>6, <2>7 DEF CapsInv
<1> QED BY <1>2, <1>3

LEMMA PushCaps ==
  ASSUME Invs, PushShards
  PROVE  CapsInv'
<1> DEFINE e == log[sent + 1]
           root == RootPrefix(e.key)
           PushTo(S) == heap' = [s \in ShardIds |->
                                   IF s \in S THEN PushIntoShard(heap[s], e) ELSE heap[s]]
<1>1. /\ targets # None /\ targets' = None /\ pushed' = sent + 1
      /\ UNCHANGED <<log, sent>>
  BY DEF PushShards
<1>2. /\ Len(log) \in Nat /\ sent \in Nat /\ pushed = sent /\ sent + 1 <= Len(log) /\ e \in EventSet
      /\ e.rev = sent + 1 /\ targets \subseteq 1 .. used.shards
  <2>1. /\ Len(log) \in Nat /\ sent \in Nat /\ pushed = sent /\ sent < Len(log)
        /\ (\A i \in 1 .. Len(log) : log[i] \in EventSet /\ log[i].rev = i)
        /\ targets \subseteq 1 .. used.shards
    BY <1>1, WritingTypes DEF Invs, ViewInv, Writing
  <2> QED
    BY <2>1
<1>3. root \in AllPrefixes
  <2>1. e.key \in Keys
    BY <1>2 DEF EventSet
  <2> QED
    BY <2>1 DEF AllPrefixes, Matching, RootPrefix
<1>4. \/ PushTo(targets) /\ UNCHANGED <<shards, entries, overflow>>
      \/ /\ targets = {} /\ shards[root] # None /\ PushTo({shards[root]})
         /\ UNCHANGED <<shards, entries, overflow>>
      \/ /\ targets = {} /\ e.op # "put" /\ overflow' = overflow
         /\ SeedShard(root, PushIntoShard(NewShard(FindReclaimedHorizon(root)), e))
  BY DEF PushShards
<1>5. /\ \A i \in ShardIds : Logged(heap'[i], log)
      /\ \A p \in AllPrefixes : MapLog(p, heap', shards', log, sent, sent + 1, None)
      /\ Capped(entries', overflow', Len(log))
  <2>1. CASE PushTo(targets) /\ UNCHANGED <<shards, entries, overflow>>
    <3>1. targets \in SUBSET ShardIds
      BY <1>2, Shapes DEF Invs
    <3>2. \A i \in targets : Current(heap[i], log, sent)
      BY <1>1, <1>2 DEF Invs, CapsInv
    <3>3. PushTo(targets)
      BY <2>1
    <3>4. /\ \A i \in ShardIds : Logged(heap'[i], log)
          /\ \A p \in AllPrefixes : MapLog(p, heap', shards, log, sent, sent + 1, None)
      BY <1>1, <3>1, <3>2, <3>3, PushedIntoCaps
    <3> QED
      BY <2>1, <3>4 DEF Invs, CapsInv
  <2>2. CASE /\ targets = {} /\ shards[root] # None /\ PushTo({shards[root]})
             /\ UNCHANGED <<shards, entries, overflow>>
    <3> DEFINE S == {shards[root]}
    <3>1. S \in SUBSET ShardIds /\ targets \subseteq S
      BY <1>3, <2>2, Shapes DEF Invs, GcInv, OwnShard
    <3>2. \A i \in S : Current(heap[i], log, sent)
      BY <1>2, <1>3, <2>2 DEF Invs, CapsInv, MapLog
    <3>3. PushTo(S)
      BY <2>2
    <3> HIDE DEF S
    <3>4. /\ \A i \in ShardIds : Logged(heap'[i], log)
          /\ \A p \in AllPrefixes : MapLog(p, heap', shards, log, sent, sent + 1, None)
      BY <1>1, <3>1, <3>2, <3>3, PushedIntoCaps
    <3> QED
      BY <2>2, <3>4 DEF Invs, CapsInv
  <2>3. CASE /\ targets = {} /\ e.op # "put" /\ overflow' = overflow
             /\ SeedShard(root, PushIntoShard(NewShard(FindReclaimedHorizon(root)), e))
    <3> DEFINE fresh == NewShard(FindReclaimedHorizon(root))
               shard == PushIntoShard(fresh, e)
    <3>1. SeedShard(root, shard)
      BY <2>3
    <3>2. /\ Indexed(fresh, log) /\ Roomy(fresh, log) /\ Current(fresh, log, sent)
          /\ DOMAIN fresh.byKey = {}
      BY <1>3, FloorBelowLog, NewShardLogs
    <3>3. IsShard(fresh) /\ Genuine(log, fresh.ring, sent + 1)
      <4>1. 0 \in 0 .. Never
        BY NeverIsNat
      <4>2. FindReclaimedHorizon(root) \in Nat
        BY <1>3, FloorBelowLog
      <4> QED
        BY <4>1, <4>2, NewShardOK DEF ShardOK
    <3>4. e.rev \in 1 .. Len(log) /\ log[e.rev] = e
      BY <1>2
    <3> HIDE DEF fresh, e
    <3>5. Logged(shard, log)
      BY <1>2, <3>2, <3>3, <3>4, PushLogged DEF Logged
    <3>6. Entries(shard, fresh, e)
      BY <3>3, PushEntries
    <3> HIDE DEF shard
    <3>7. Current(shard, log, sent + 1)
      <4>1. e = log[sent + 1]
        BY DEF e
      <4> QED
        BY <1>2, <3>2, <3>6, <4>1, CurrentPush
    <3>8. ASSUME NEW q \in AllPrefixes \ {root}
          PROVE  MapLog(q, heap, shards, log, sent, sent + 1, None)
      <4>1. shards[q] # None => Current(heap[shards[q]], log, sent + 1)
        BY <1>1, <2>3, PassedLog
      <4> QED
        BY <4>1 DEF MapLog
    <3>9. sent + 1 \in Nat
      BY <1>2
    <3> HIDE DEF root
    <3>10. /\ \A i \in ShardIds : Logged(heap'[i], log)
           /\ \A q \in AllPrefixes : MapLog(q, heap', shards', log, sent, sent + 1, None)
           /\ Capped(entries', overflow, Len(log))
      BY <1>3, <3>1, <3>5, <3>7, <3>8, <3>9, SeedCaps
    <3> QED
      BY <2>3, <3>10
  <2> QED
    BY <1>4, <2>1, <2>2, <2>3
<1> QED
  BY <1>1, <1>5 DEF CapsInv

LEMMA BackfillCaps ==
  ASSUME Invs, NEW w \in Watchers, NEW r \in 1 .. Len(log), BackfillRow(w, r)
  PROVE  CapsInv'
<1> DEFINE sid == st[w].sid
           e == [key |-> log[r].key, rev |-> r, op |-> "put"]
           s == heap[sid]
           t == PushIntoShard(s, e)
<1>1. /\ heap' = [heap EXCEPT ![sid] = t] /\ st[w].pc = "backfill"
      /\ UNCHANGED <<log, sent, pushed, targets, shards, entries, overflow>>
  BY DEF BackfillRow, writerVars
<1>2. Len(log) \in Nat /\ log[r] \in EventSet /\ r \in Nat
  BY WritingTypes DEF Invs, ViewInv
<1>3. e \in EventSet /\ e.rev = r /\ e.op = "put"
  BY <1>2 DEF EventSet
<1>4. sid \in ShardIds
  <2>1. sid \in 1 .. used.shards
    BY <1>1 DEF Invs, ViewInv, HeldShard, Opening
  <2> QED
    BY <2>1, Shapes DEF Invs
<1>5. IsShard(s) /\ Genuine(log, s.ring, sent + 1) /\ Logged(s, log)
  BY <1>4 DEF Invs, ViewInv, HeapInv, ShardOK, CapsInv
<1> HIDE DEF e, sid
<1>6. heap'[sid] = t /\ \A i \in ShardIds \ {sid} : heap'[i] = heap[i]
  BY <1>1, <1>4, Shapes DEF Invs
<1> HIDE DEF s
<1>7. Logged(t, log) /\ Entries(t, s, e)
  BY <1>2, <1>3, <1>5, PushLogged, PushEntries
<1> HIDE DEF t
<1>8. /\ Current(s, log, pushed) => Current(t, log, pushed)
      /\ DOMAIN s.byKey = {} => DOMAIN t.byKey = {}
  <2>1. \A k \in DOMAIN t.byKey : k \in DOMAIN s.byKey /\ t.byKey[k] = s.byKey[k]
    BY <1>3, <1>7 DEF Entries
  <2> QED
    BY <2>1 DEF Current
<1>9. ASSUME NEW i \in ShardIds
      PROVE  /\ Logged(heap'[i], log)
             /\ Current(heap[i], log, pushed) => Current(heap'[i], log, pushed)
             /\ DOMAIN heap[i].byKey = {} => DOMAIN heap'[i].byKey = {}
  <2>1. CASE i = sid
    BY <1>6, <1>7, <1>8, <2>1 DEF s
  <2>2. CASE i # sid
    BY <1>6, <2>2 DEF Invs, CapsInv
  <2> QED BY <2>1, <2>2
<1>10. ASSUME NEW p \in AllPrefixes PROVE MapLog(p, heap', shards, log, sent, pushed, targets)
  <2>1. shards[p] # None => shards[p] \in ShardIds
    BY Shapes DEF Invs, GcInv, OwnShard
  <2>2. MapLog(p, heap, shards, log, sent, pushed, targets)
    BY DEF Invs, CapsInv
  <2> QED
    BY <1>9, <2>1, <2>2 DEF MapLog
<1>11. targets # None => \A i \in targets : Current(heap'[i], log, pushed)
  <2>1. targets # None => targets \subseteq ShardIds
    BY Shapes DEF Invs, ViewInv, Writing
  <2> QED
    BY <1>9, <2>1 DEF Invs, CapsInv
<1> QED
  BY <1>1, <1>9, <1>10, <1>11 DEF Invs, CapsInv

\* The floor a shard leaves behind is a revision of the log.
LEMMA FloorOfBelowLog ==
  ASSUME Invs, NEW i \in ShardIds
  PROVE  FloorOf(heap[i]) \in Nat /\ FloorOf(heap[i]) <= Len(log)
<1> DEFINE s == heap[i]
           q == s.ring
<1>1. /\ IsShard(s) /\ Genuine(log, q, sent + 1) /\ s.horizon <= Len(log) /\ Len(log) \in Nat
  BY WritingTypes DEF Invs, ViewInv, HeapInv, ShardOK, CapsInv, Logged, Roomy
<1>2. s.horizon \in Nat /\ q \in Seq(EventSet)
  BY <1>1 DEF IsShard
<1>3. CASE q = <<>>
  BY <1>1, <1>2, <1>3 DEF FloorOf
<1>4. CASE q # <<>>
  <2> DEFINE r == q[Len(q)].rev
  <2>1. Len(q) \in DOMAIN q
    BY <1>2, <1>4
  <2>2. r \in 1 .. sent + 1 /\ r <= Len(log)
    BY <1>1, <2>1 DEF Genuine
  <2>3. r \in Nat
    <3>1. q[Len(q)] \in EventSet
      BY <1>2, <2>1
    <3> QED
      BY <3>1 DEF EventSet
  <2>4. FloorOf(s) = Max({s.horizon, r})
    BY <1>4 DEF FloorOf
  <2> HIDE DEF r, s
  <2>5. Max({s.horizon, r}) = IF s.horizon > r THEN s.horizon ELSE r
    BY <1>2, <2>3, MaxOfTwo
  <2>6. FloorOf(s) \in Nat /\ FloorOf(s) <= Len(log)
    BY <1>1, <1>2, <2>2, <2>3, <2>4, <2>5
  <2> QED
    BY <2>6 DEF s
<1> QED BY <1>3, <1>4

\* preserve_reclaimed_horizon: one floor more, and the oldest out if that is one
\* too many.
LEMMA PreserveCaps ==
  ASSUME Invs, NEW p \in AllPrefixes, NEW sid \in ShardIds, PreserveReclaimedHorizon(p, sid)
  PROVE  Capped(entries', overflow', Len(log))
<1> DEFINE floor == FloorOf(heap[sid])
           ins == [entries EXCEPT ![p] = floor]
           n == Len(log)
<1>1. floor \in Nat /\ floor <= n
  BY FloorOfBelowLog
<1>2. /\ DOMAIN entries = AllPrefixes /\ (\A q \in AllPrefixes : entries[q] \in Nat)
      /\ overflow \in Nat /\ Capped(entries, overflow, n) /\ n \in Nat
  BY WritingTypes DEF Invs, ViewInv, FloorInv, CapsInv
<1>3. \/ UNCHANGED <<entries, overflow>>
      \/ entries' = ins /\ UNCHANGED overflow /\ Cardinality(HeldBy(ins)) <= MaxReclaimed
      \/ /\ ~(Cardinality(HeldBy(ins)) <= MaxReclaimed)
         /\ \E victim \in HeldBy(ins) : /\ entries' = [ins EXCEPT ![victim] = 0]
                                        /\ overflow' = Max({overflow, ins[victim]})
  BY DEF PreserveReclaimedHorizon, HeldBy
<1> HIDE DEF floor, n
<1>4. /\ DOMAIN ins = AllPrefixes
      /\ \A q \in AllPrefixes : ins[q] = (IF q = p THEN floor ELSE entries[q])
  BY <1>2
<1> HIDE DEF ins
<1>5. /\ IsFiniteSet(HeldBy(entries)) /\ Cardinality(HeldBy(entries)) <= MaxReclaimed
      /\ overflow <= n /\ \A q \in AllPrefixes : entries[q] <= n
  BY <1>2 DEF Capped
<1>6. \A q \in AllPrefixes : ins[q] \in Nat /\ ins[q] <= n
  BY <1>1, <1>2, <1>4, <1>5
<1>7. /\ IsFiniteSet(HeldBy(ins)) /\ Cardinality(HeldBy(ins)) <= Cardinality(HeldBy(entries)) + 1
      /\ Cardinality(HeldBy(entries)) \in Nat /\ Cardinality(HeldBy(ins)) \in Nat /\ MaxReclaimed \in Nat
  <2> DEFINE more == HeldBy(entries) \cup {p}
  <2>1. HeldBy(ins) \subseteq more
    BY <1>4 DEF HeldBy
  <2>2. /\ IsFiniteSet(more) /\ Cardinality(HeldBy(entries)) \in Nat
        /\ Cardinality(more) = IF p \in HeldBy(entries) THEN Cardinality(HeldBy(entries))
                               ELSE Cardinality(HeldBy(entries)) + 1
    BY <1>5, FS_AddElement, FS_CardinalityType
  <2> HIDE DEF more
  <2>3. /\ IsFiniteSet(HeldBy(ins)) /\ Cardinality(HeldBy(ins)) <= Cardinality(more)
        /\ Cardinality(HeldBy(ins)) \in Nat /\ Cardinality(more) \in Nat
    BY <2>1, <2>2, FS_Subset, FS_CardinalityType
  <2> QED
    BY <2>2, <2>3, WatchConstants
<1>8. CASE UNCHANGED <<entries, overflow>>
  BY <1>2, <1>8 DEF n
<1>9. CASE entries' = ins /\ UNCHANGED overflow /\ Cardinality(HeldBy(ins)) <= MaxReclaimed
  BY <1>5, <1>6, <1>7, <1>9 DEF Capped, n
<1>10. ASSUME NEW victim \in HeldBy(ins), entries' = [ins EXCEPT ![victim] = 0],
              overflow' = Max({overflow, ins[victim]})
       PROVE  Capped(entries', overflow', n)
  <2>1. victim \in AllPrefixes
    BY DEF HeldBy
  <2>2. \A q \in AllPrefixes : entries'[q] = IF q = victim THEN 0 ELSE ins[q]
    BY <1>4, <1>10
  <2>3. HeldBy(entries') = HeldBy(ins) \ {victim}
    BY <2>2 DEF HeldBy
  <2>4. IsFiniteSet(HeldBy(entries')) /\ Cardinality(HeldBy(entries')) = Cardinality(HeldBy(ins)) - 1
    <3> DEFINE held == HeldBy(ins)
    <3>1. IsFiniteSet(held) /\ victim \in held
      BY <1>7, <1>10
    <3> HIDE DEF held
    <3>2. IsFiniteSet(held \ {victim}) /\ Cardinality(held \ {victim}) = Cardinality(held) - 1
      BY <3>1, FS_RemoveElement
    <3> QED
      BY <2>3, <3>2, Zenon DEF held
  <2>5. Cardinality(HeldBy(entries')) <= MaxReclaimed
    BY <1>5, <1>7, <2>4
  <2>6. ins[victim] \in Nat /\ ins[victim] <= n
    BY <1>6, <2>1
  <2>7. overflow' <= n
    BY <1>2, <1>5, <1>10, <2>6, MaxOfTwo
  <2>8. \A q \in AllPrefixes : entries'[q] <= n
    BY <1>2, <1>6, <2>2
  <2> QED
    BY <2>4, <2>5, <2>7, <2>8 DEF Capped
<1>11. Capped(entries', overflow', n)
  BY <1>3, <1>8, <1>9, <1>10 DEF n
<1> QED
  BY <1>11 DEF n

LEMMA ShardCaps ==
  ASSUME Invs, ShardNext
  PROVE  CapsInv'
<1>1. UNCHANGED <<log, sent, pushed, targets, heap>>
  BY DEF ShardNext, IdleGcRemove, TearDownShard, IdleGcDecline, PreserveReclaimedHorizon, EvictStart,
         writerVars
<1>2. \A q \in AllPrefixes : shards'[q] = shards[q] \/ shards'[q] = None
  <2>1. \/ \E p \in AllPrefixes : shards' = [shards EXCEPT ![p] = None]
        \/ shards' = shards
    BY DEF ShardNext, IdleGcRemove, TearDownShard, IdleGcDecline, PreserveReclaimedHorizon, EvictStart
  <2> QED
    BY <2>1, Shapes DEF Invs
<1>3. ASSUME NEW p \in AllPrefixes PROVE MapLog(p, heap, shards', log, sent, pushed, targets)
  <2>1. MapLog(p, heap, shards, log, sent, pushed, targets)
    BY DEF Invs, CapsInv
  <2>2. shards'[p] = shards[p] \/ shards'[p] = None
    BY <1>2
  <2> QED
    BY <2>1, <2>2 DEF MapLog
<1>4. Capped(entries', overflow', Len(log))
  <2>1. CASE \E p \in AllPrefixes, s \in ShardIds : PreserveReclaimedHorizon(p, s)
    BY <2>1, PreserveCaps
  <2>2. CASE UNCHANGED <<entries, overflow>>
    BY <2>2 DEF Invs, CapsInv
  <2> QED
    BY <2>1, <2>2 DEF ShardNext, IdleGcRemove, TearDownShard, IdleGcDecline, EvictStart
<1> QED
  BY <1>1, <1>3, <1>4 DEF Invs, CapsInv

LEMMA WriterCaps ==
  ASSUME Invs, WriterNext
  PROVE  CapsInv'
<1>0. ViewInv
  BY DEF Invs
<1>1. ASSUME NEW k \in Keys, Put(k) \/ Delete(k) PROVE CapsInv'
  <2>1. PICK op \in {"put", "delete"} : Commit(<<[key |-> k, rev |-> Len(log) + 1, op |-> op]>>)
    BY <1>1 DEF Put, Delete
  <2> DEFINE b == <<[key |-> k, rev |-> Len(log) + 1, op |-> op]>>
  <2>2. Batch(b)
    BY <1>0, OneEventBatch
  <2>3. Commit(b)
    BY <2>1
  <2> HIDE DEF b
  <2> QED
    BY <2>2, <2>3, CommitCaps
<1>2. ASSUME NEW ns, DeleteNamespace(ns) PROVE CapsInv'
  <2> DEFINE doomed == {k \in Keys : NsOf[k] = ns /\ Exists(k)}
             b(order) == [i \in 1 .. Len(order) |->
                            [key |-> order[i], rev |-> Len(log) + i, op |-> "delete"]]
  <2>1. PICK order \in SetToSeqs(doomed) : Commit(b(order))
    BY <1>2 DEF DeleteNamespace
  <2>2. Batch(b(order))
    <3>1. doomed \in SUBSET Keys
      OBVIOUS
    <3> HIDE DEF doomed
    <3> QED
      BY <1>0, <3>1, NamespaceBatch
  <2> HIDE DEF b
  <2> QED
    BY <2>1, <2>2, CommitCaps
<1> QED
  BY <1>1, <1>2, MatchCaps, PushCaps, SendCaps DEF WriterNext

LEMMA StreamCaps ==
  ASSUME Invs, NEW w \in Watchers, StreamNext(w)
  PROVE  CapsInv'
<1>1. CASE CreateShard(w)
  BY <1>1, CreateCaps
<1>2. CASE \E r \in 1 .. Len(log) : BackfillRow(w, r)
  BY <1>2, BackfillCaps
<1>3. CASE ~CreateShard(w) /\ ~\E r \in 1 .. Len(log) : BackfillRow(w, r)
  <2> DEFINE Same == UNCHANGED <<log, sent, pushed, targets, heap, shards, entries, overflow>>
  <2>1. (\E p \in WatchPrefixes, from \in 0 .. Len(log), listed \in BOOLEAN :
           OpenWatch(w, p, from, listed)) => Same
    BY DEF OpenWatch, writerVars, shardVars
  <2>2. StreamStep(w) => Same
    BY <1>3 DEF StreamStep, Resolve, ListForBackfill, BackfillDone, Attach,
           LoadHorizon, SnapshotRing, Replay, Recv, Lagged, ScanRing, Catchup,
           Recovered, Unrecovered, CollectTombstones, YieldTombstone, Compacted, Goto, writerVars, shardVars
  <2>3. CloseWatch(w) => Same
    BY DEF CloseWatch, writerVars
  <2>4. Same
    BY <2>1, <2>2, <2>3 DEF StreamNext
  <2> QED
    BY <2>4 DEF Invs, CapsInv
<1> QED BY <1>1, <1>2, <1>3

\* SqliteStore::new.
LEMMA FreshCaps ==
  ASSUME NEW L, Len(L) \in Nat, NEW E, E = [p \in AllPrefixes |-> 0],
         NEW H, H = [s \in ShardIds |-> NewShard(0)]
  PROVE  Capped(E, 0, Len(L)) /\ \A i \in ShardIds : Logged(H[i], L)
<1>1. HeldBy(E) = {}
  BY DEF HeldBy
<1>2. IsFiniteSet({}) /\ Cardinality({}) <= MaxReclaimed
  <2>1. Cardinality({}) = 0 /\ MaxReclaimed \in Nat
    BY FS_EmptySet, WatchConstants
  <2> QED
    BY <2>1, FS_EmptySet
<1>3. Capped(E, 0, Len(L))
  <2>1. IsFiniteSet(HeldBy(E)) /\ Cardinality(HeldBy(E)) <= MaxReclaimed
    BY <1>1, <1>2, Zenon
  <2>2. 0 <= Len(L) /\ \A p \in AllPrefixes : E[p] <= Len(L)
    OBVIOUS
  <2> QED
    BY <2>1, <2>2 DEF Capped
<1>4. 0 \in Nat /\ 0 <= Len(L)
  OBVIOUS
<1>5. Indexed(NewShard(0), L) /\ Roomy(NewShard(0), L)
  BY <1>4, NewShardLogs
<1> QED
  BY <1>3, <1>5 DEF Logged

LEMMA RestartCaps ==
  ASSUME Invs, Restart
  PROVE  CapsInv'
<1>1. /\ log' = log /\ targets' = None /\ shards' = [p \in AllPrefixes |-> None]
      /\ heap' = [s \in ShardIds |-> NewShard(0)]
      /\ entries' = [p \in AllPrefixes |-> 0] /\ overflow' = 0
  BY DEF Restart, Fresh
<1>2. Len(log) \in Nat
  BY WritingTypes DEF Invs, ViewInv
<1>3. Capped(entries', 0, Len(log)) /\ \A i \in ShardIds : Logged(heap'[i], log)
  BY <1>1, <1>2, FreshCaps
<1>4. \A p \in AllPrefixes : MapLog(p, heap', shards', log', sent', pushed', targets')
  BY <1>1 DEF MapLog
<1> QED
  BY <1>1, <1>3, <1>4 DEF CapsInv

LEMMA InitCaps == Init => CapsInv
<1> SUFFICES ASSUME Init PROVE CapsInv
  OBVIOUS
<1>1. /\ log = <<>> /\ targets = None /\ shards = [p \in AllPrefixes |-> None]
      /\ heap = [s \in ShardIds |-> NewShard(0)]
      /\ entries = [p \in AllPrefixes |-> 0] /\ overflow = 0
  BY DEF Init
<1>2. Len(log) \in Nat
  BY <1>1
<1>3. Capped(entries, 0, Len(log)) /\ \A i \in ShardIds : Logged(heap[i], log)
  BY <1>1, <1>2, FreshCaps
<1>4. \A p \in AllPrefixes : MapLog(p, heap, shards, log, sent, pushed, targets)
  BY <1>1 DEF MapLog
<1> QED
  BY <1>1, <1>3, <1>4 DEF CapsInv

LEMMA NextCaps ==
  ASSUME Invs, [Next]_vars
  PROVE  CapsInv'
<1>1. CASE UNCHANGED vars
  <2>1. UNCHANGED <<log, sent, pushed, targets, shards, heap, entries, overflow>>
    BY <1>1 DEF vars, writerVars, shardVars
  <2> QED
    BY <2>1 DEF Invs, CapsInv
<1>2. CASE Next
  BY <1>2, WriterCaps, ShardCaps, StreamCaps, RestartCaps DEF Next
<1> QED BY <1>1, <1>2

\* In every reachable state the two indices of a deletion log agree and hold at
\* most STRIPPED_TIER_CAP names, each with the revision of a deletion of it, a
\* mapped shard's tombstones are its names' last events, no ring outgrows its
\* capacity, and no floor, stored or of a shard, is later than the log.
THEOREM CapsInvariant == Spec => []Invs
<1>1. GcInv /\ ViewInv /\ DeletionInv /\ CapsInv /\ [Next]_vars => CapsInv'
  BY NextCaps DEF Invs
<1>2. Init => CapsInv
  BY InitCaps
<1>3. Spec => [](GcInv /\ ViewInv /\ DeletionInv /\ CapsInv)
  BY <1>1, <1>2, DeletionInvariant, PTL DEF Spec
<1> QED
  BY <1>3, PTL DEF Invs

-------------------------------------------------------------------------------
(* The types.                                                               *)

AFunction(f) == f = [x \in DOMAIN f |-> f[x]]

\* Stream x, whose client believes v.
Typed(x, v, L, u) ==
  /\ x.pc \in Pcs
  /\ x.pc \in Ended => x.cursor = 0 /\ x.last = 0
  /\ x.last \in 0 .. Len(L)
  /\ x.pc \in AttachedPcs => x.sid \in 1 .. u
  /\ \A k \in Keys : v[k] \in 0 .. Len(L)
  /\ AFunction(v)

Functions ==
  /\ AFunction(shards) /\ AFunction(since) /\ AFunction(lost) /\ AFunction(entries)
  /\ AFunction(view)

TypesInv ==
  /\ Functions
  /\ armed \subseteq ShardIds /\ evicting \subseteq AllPrefixes
  /\ \A q \in AllPrefixes : lost[q] <= Len(log)
  /\ \A w \in Watchers : Typed(st[w], view[w], log, used.shards)

Known == Invs /\ FloorsInv /\ TypesInv

LEMMA ExceptIsFunction ==
  ASSUME NEW f, NEW x, NEW y
  PROVE  AFunction([f EXCEPT ![x] = y])
BY DEF AFunction

LEMMA MapIsFunction ==
  ASSUME NEW S, NEW c
  PROVE  AFunction([x \in S |-> c])
BY DEF AFunction

\* A variable is replaced, changed at one place or left.
LEMMA StaysFunctions ==
  ASSUME Functions, Next
  PROVE  Functions'
<1>1. AFunction(shards')
  <2>1. \/ shards' = shards
        \/ \E a, b : shards' = [shards EXCEPT ![a] = b]
        \/ shards' = [p \in AllPrefixes |-> None]
    <3>1. WriterNext => shards' = shards \/ \E a, b : shards' = [shards EXCEPT ![a] = b]
      BY DEF WriterNext, Put, Delete, DeleteNamespace, Commit, MatchShards, PushShards, Send,
             SeedShard, shardVars
    <3>2. ShardNext => shards' = shards \/ \E a, b : shards' = [shards EXCEPT ![a] = b]
      BY DEF ShardNext, IdleGcRemove, TearDownShard, IdleGcDecline, PreserveReclaimedHorizon,
             EvictStart
    <3>3. ASSUME NEW w \in Watchers, StreamNext(w)
          PROVE  shards' = shards \/ \E a, b : shards' = [shards EXCEPT ![a] = b]
      BY <3>3 DEF StreamNext, OpenWatch, CloseWatch, StreamStep, Resolve, CreateShard, SeedShard,
             ListForBackfill, BackfillRow, BackfillDone, Attach, LoadHorizon, SnapshotRing,
             Replay, Recv, Lagged, ScanRing, Catchup, Recovered, Unrecovered,
             CollectTombstones, YieldTombstone, Compacted, Goto, shardVars
    <3> QED
      BY <3>1, <3>2, <3>3 DEF Next, Restart, Fresh
  <2> QED
    BY <2>1, ExceptIsFunction, MapIsFunction DEF Functions
<1>2. AFunction(since')
  <2>1. \/ since' = since
        \/ \E a, b : since' = [since EXCEPT ![a] = b]
        \/ since' = [s \in ShardIds |-> 0]
    <3>1. WriterNext => since' = since \/ \E a, b : since' = [since EXCEPT ![a] = b]
      BY DEF WriterNext, Put, Delete, DeleteNamespace, Commit, MatchShards, PushShards, Send,
             SeedShard, shardVars
    <3>2. ShardNext => since' = since
      BY DEF ShardNext, IdleGcRemove, TearDownShard, IdleGcDecline, PreserveReclaimedHorizon,
             EvictStart
    <3>3. ASSUME NEW w \in Watchers, StreamNext(w)
          PROVE  since' = since \/ \E a, b : since' = [since EXCEPT ![a] = b]
      BY <3>3 DEF StreamNext, OpenWatch, CloseWatch, StreamStep, Resolve, CreateShard, SeedShard,
             ListForBackfill, BackfillRow, BackfillDone, Attach, LoadHorizon, SnapshotRing,
             Replay, Recv, Lagged, ScanRing, Catchup, Recovered, Unrecovered,
             CollectTombstones, YieldTombstone, Compacted, Goto, shardVars
    <3> QED
      BY <3>1, <3>2, <3>3 DEF Next, Restart, Fresh
  <2> QED
    BY <2>1, ExceptIsFunction, MapIsFunction DEF Functions
<1>3. AFunction(entries')
  <2>1. \/ entries' = entries
        \/ \E a, b : entries' = [entries EXCEPT ![a] = b]
        \/ \E a, b, c, d : entries' = [[entries EXCEPT ![a] = b] EXCEPT ![c] = d]
        \/ entries' = [p \in AllPrefixes |-> 0]
    <3>1. WriterNext => entries' = entries \/ \E a, b : entries' = [entries EXCEPT ![a] = b]
      BY DEF WriterNext, Put, Delete, DeleteNamespace, Commit, MatchShards, PushShards, Send,
             SeedShard, shardVars
    <3>2. ASSUME NEW p, NEW s, PreserveReclaimedHorizon(p, s)
          PROVE  \/ entries' = entries
                 \/ \E a, b : entries' = [entries EXCEPT ![a] = b]
                 \/ \E a, b, c, d : entries' = [[entries EXCEPT ![a] = b] EXCEPT ![c] = d]
      BY <3>2, Zenon DEF PreserveReclaimedHorizon
    <3>3. ASSUME NEW w \in Watchers, StreamNext(w)
          PROVE  entries' = entries \/ \E a, b : entries' = [entries EXCEPT ![a] = b]
      BY <3>3 DEF StreamNext, OpenWatch, CloseWatch, StreamStep, Resolve, CreateShard, SeedShard,
             ListForBackfill, BackfillRow, BackfillDone, Attach, LoadHorizon, SnapshotRing,
             Replay, Recv, Lagged, ScanRing, Catchup, Recovered, Unrecovered,
             CollectTombstones, YieldTombstone, Compacted, Goto, shardVars
    <3>4. CASE ShardNext
      <4>1. \/ entries' = entries
            \/ \E p \in AllPrefixes, s \in ShardIds : PreserveReclaimedHorizon(p, s)
        BY <3>4 DEF ShardNext, IdleGcRemove, TearDownShard, IdleGcDecline, EvictStart
      <4> QED
        BY <3>2, <4>1
    <3>5. CASE Restart
      BY <3>5 DEF Restart, Fresh
    <3> QED
      BY <3>1, <3>3, <3>4, <3>5 DEF Next
  <2> QED
    BY <2>1, ExceptIsFunction, MapIsFunction DEF Functions
<1>4. AFunction(lost')
  <2>1. \A p, s : AFunction(Forgive(p)) /\ AFunction(Lose(p, s))
    <3>1. \A p : AFunction(Forgive(p))
      BY DEF Forgive, AFunction
    <3>2. ASSUME NEW p, NEW s, ~Waiting(p) PROVE AFunction(Lose(p, s))
      BY <3>2 DEF Lose, AFunction
    <3> QED
      BY <3>1, <3>2 DEF Lose
  <2>2. \/ lost' = lost
        \/ \E p : lost' = Forgive(p)
        \/ \E p, s : lost' = Lose(p, s)
        \/ lost' = [p \in AllPrefixes |-> 0]
    <3>1. WriterNext => lost' = lost \/ \E p : lost' = Forgive(p)
      BY DEF WriterNext, Put, Delete, DeleteNamespace, Commit, MatchShards, PushShards, Send,
             SeedShard, shardVars
    <3>2. ShardNext => lost' = lost \/ \E p, s : lost' = Lose(p, s)
      BY DEF ShardNext, IdleGcRemove, TearDownShard, IdleGcDecline, PreserveReclaimedHorizon,
             EvictStart
    <3>3. ASSUME NEW w \in Watchers, StreamNext(w)
          PROVE  lost' = lost \/ \E p : lost' = Forgive(p)
      BY <3>3 DEF StreamNext, OpenWatch, CloseWatch, StreamStep, Resolve, CreateShard, SeedShard,
             ListForBackfill, BackfillRow, BackfillDone, Attach, LoadHorizon, SnapshotRing,
             Replay, Recv, Lagged, ScanRing, Catchup, Recovered, Unrecovered,
             CollectTombstones, YieldTombstone, Compacted, Goto, shardVars
    <3> QED
      BY <3>1, <3>2, <3>3 DEF Next, Restart, Fresh
  <2>3. AFunction([p \in AllPrefixes |-> 0])
    BY DEF AFunction
  <2> QED
    BY <2>1, <2>2, <2>3, Zenon DEF Functions
<1>5. AFunction(view')
  <2>1. \/ view' = view
        \/ \E a, b : view' = [view EXCEPT ![a] = b]
        \/ view' = [w \in Watchers |-> StateAt(0)]
    <3>1. WriterNext => view' = view
      BY DEF WriterNext, Put, Delete, DeleteNamespace, Commit, MatchShards, PushShards, Send
    <3>2. ShardNext => view' = view
      BY DEF ShardNext, IdleGcRemove, TearDownShard, IdleGcDecline, PreserveReclaimedHorizon,
             EvictStart
    <3>3. ASSUME NEW w \in Watchers, StreamNext(w)
          PROVE  view' = view \/ \E a, b : view' = [view EXCEPT ![a] = b]
      BY <3>3, Zenon DEF StreamNext, OpenWatch, CloseWatch, StreamStep, Resolve, CreateShard,
             ListForBackfill, BackfillRow, BackfillDone, Attach, LoadHorizon, SnapshotRing,
             Replay, Recv, Lagged, ScanRing, Catchup, Recovered, Unrecovered,
             CollectTombstones, YieldTombstone, Compacted, Goto, Yield, Drained
    <3>4. Restart => view' = [w \in Watchers |-> StateAt(0)]
      BY DEF Restart, Fresh
    <3> QED
      BY <3>1, <3>2, <3>3, <3>4 DEF Next
  <2>2. AFunction([w \in Watchers |-> StateAt(0)])
    BY DEF AFunction
  <2>3. CASE \E a, b : view' = [view EXCEPT ![a] = b]
    BY <2>3, ExceptIsFunction
  <2> QED
    BY <2>1, <2>2, <2>3, Zenon DEF Functions
<1> QED
  BY <1>1, <1>2, <1>3, <1>4, <1>5 DEF Functions

\* What a client may believe.
Believes(v, L) == AFunction(v) /\ \A k \in Keys : v[k] \in 0 .. Len(L)

LEMMA StateBelieved ==
  ASSUME Len(log) \in Nat, NEW r \in 0 .. Len(log)
  PROVE  Believes(StateAt(r), log)
<1>1. ASSUME NEW k \in Keys PROVE StateAt(r)[k] \in 0 .. Len(log)
  <2>1. r \in Nat
    OBVIOUS
  <2>2. RowIn(log, k, r) = 0 \/ RowIn(log, k, r) \in 1 .. r
    BY <2>1, RowInPut
  <2>3. StateAt(r)[k] = RowIn(log, k, r)
    BY RowRevIsRowIn DEF StateAt
  <2> QED
    BY <2>2, <2>3
<1>2. AFunction(StateAt(r))
  BY DEF AFunction, StateAt
<1> QED
  BY <1>1, <1>2 DEF Believes

LEMMA ApplyBelieved ==
  ASSUME Len(log) \in Nat, NEW v, DOMAIN v = Keys, Believes(v, log), NEW e, e.rev \in 1 .. Len(log)
  PROVE  Believes(Apply(v, e), log)
<1>1. AFunction(Apply(v, e))
  BY ExceptIsFunction DEF Apply
<1>2. ASSUME NEW k \in Keys PROVE Apply(v, e)[k] \in 0 .. Len(log)
  BY DEF Apply, Believes
<1> QED
  BY <1>1, <1>2 DEF Believes

LEMMA KnownTypes ==
  ASSUME Known
  PROVE  /\ GcInv /\ ViewInv /\ Len(log) \in Nat /\ sent \in Nat /\ sent <= Len(log)
         /\ \A w \in Watchers : /\ Typed(st[w], view[w], log, used.shards) /\ ClientTold(w)
                                /\ Believes(view[w], log) /\ DOMAIN view[w] = Keys
<1>1. GcInv /\ ViewInv /\ Len(log) \in Nat /\ sent \in Nat /\ sent <= Len(log)
  BY WritingTypes DEF Known, Invs, ViewInv
<1>2. ASSUME NEW w \in Watchers
      PROVE  Typed(st[w], view[w], log, used.shards) /\ ClientTold(w) /\ DOMAIN view[w] = Keys
  BY <1>1, Shapes DEF Known, TypesInv, Invs, DeletionInv
<1> QED
  BY <1>1, <1>2 DEF Typed, Believes

\* Steps that leave the client's view and revision alone.
LEMMA QuietTyped ==
  ASSUME Known, NEW w \in Watchers, view' = view, st'[w].last = st[w].last,
         st'[w].pc \in Pcs \ Ended,
         st'[w].pc \in AttachedPcs => st'[w].sid \in 1 .. used'.shards
  PROVE  Typed(st'[w], view'[w], log, used'.shards)
<1>1. Typed(st[w], view[w], log, used.shards)
  BY KnownTypes
<1> QED
  BY <1>1 DEF Typed

LEMMA OpeningTyped ==
  ASSUME Known, NEW w \in Watchers,
         \/ Resolve(w) \/ CreateShard(w) \/ ListForBackfill(w)
         \/ (\E r \in 1 .. Len(log) : BackfillRow(w, r)) \/ BackfillDone(w)
         \/ Attach(w) \/ LoadHorizon(w) \/ SnapshotRing(w)
  PROVE  Typed(st'[w], view'[w], log, used'.shards)
<1> DEFINE x == st[w]
           y == st'[w]
<1>0. GcInv /\ ViewInv
  BY KnownTypes
<1>1. view' = view
  BY DEF Resolve, CreateShard, ListForBackfill, BackfillRow, BackfillDone, Attach, LoadHorizon,
         SnapshotRing
<1>2. CASE \E a, b : \E pc \in {"create", "attach"} :
             st' = [st EXCEPT ![w].sid = a, ![w].reused = b, ![w].pc = pc]
  <2>1. y.last = x.last /\ y.pc \in {"create", "attach"}
    BY <1>0, <1>2, Shapes DEF Fields
  <2> QED
    BY <1>1, <2>1, QuietTyped DEF Pcs, AttachedPcs, Ended
<1>3. CASE \E a : st' = [st EXCEPT ![w].pc = "list", ![w].sid = a]
  <2>1. y.last = x.last /\ y.pc = "list"
    BY <1>0, <1>3, Shapes DEF Fields
  <2> QED
    BY <1>1, <2>1, QuietTyped DEF Pcs, AttachedPcs, Ended
<1>4. CASE \E a : st' = [st EXCEPT ![w].pc = "backfill", ![w].items = a]
  <2>1. y.last = x.last /\ y.pc = "backfill"
    BY <1>0, <1>4, Shapes DEF Fields
  <2> QED
    BY <1>1, <2>1, QuietTyped DEF Pcs, AttachedPcs, Ended
<1>5. CASE x.pc = "backfill" /\ \E a : st' = [st EXCEPT ![w].items = a]
  <2>1. y.last = x.last /\ y.pc = "backfill"
    BY <1>0, <1>5, Shapes DEF Fields
  <2> QED
    BY <1>1, <2>1, QuietTyped DEF Pcs, AttachedPcs, Ended
<1>6. CASE st' = [st EXCEPT ![w].pc = "attach"]
  <2>1. y.last = x.last /\ y.pc = "attach"
    BY <1>0, <1>6, Shapes DEF Fields
  <2> QED
    BY <1>1, <2>1, QuietTyped DEF Pcs, AttachedPcs, Ended
<1>7. CASE /\ x.pc \in {"attach", "horizon", "snapshot"} /\ used' = used
           /\ y.last = x.last /\ y.sid = x.sid /\ y.pc \in {"horizon", "snapshot", "replay"}
  <2>1. x.sid \in 1 .. used'.shards
    BY <1>0, <1>7 DEF ViewInv, Opening, HeldShard
  <2> QED
    BY <1>1, <1>7, <2>1, QuietTyped DEF Pcs, AttachedPcs, Ended
<1>8. Resolve(w) => \E a, b : \E pc \in {"create", "attach"} :
        st' = [st EXCEPT ![w].sid = a, ![w].reused = b, ![w].pc = pc]
  BY DEF Resolve
<1>9. CreateShard(w) => \E a : st' = [st EXCEPT ![w].pc = "list", ![w].sid = a]
  BY DEF CreateShard
<1>10. ListForBackfill(w) => \E a : st' = [st EXCEPT ![w].pc = "backfill", ![w].items = a]
  BY DEF ListForBackfill
<1>11. ASSUME NEW r, BackfillRow(w, r)
       PROVE  x.pc = "backfill" /\ \E a : st' = [st EXCEPT ![w].items = a]
  BY <1>11 DEF BackfillRow
<1>12. BackfillDone(w) => st' = [st EXCEPT ![w].pc = "attach"]
  BY DEF BackfillDone, Goto
<1>13. ASSUME Attach(w) \/ LoadHorizon(w) \/ SnapshotRing(w)
       PROVE  /\ x.pc \in {"attach", "horizon", "snapshot"} /\ used' = used
              /\ y.last = x.last /\ y.sid = x.sid /\ y.pc \in {"horizon", "snapshot", "replay"}
  <2>1. /\ x.pc \in {"attach", "horizon", "snapshot"} /\ used' = used
        /\ \/ st' = [st EXCEPT ![w].pc = "horizon"]
           \/ \E h : st' = [st EXCEPT ![w].pc = "snapshot", ![w].horizon = h]
           \/ \E q, c : st' = [st EXCEPT ![w].pc = "replay", ![w].queue = q, ![w].covered = c]
    BY <1>13 DEF Attach, LoadHorizon, SnapshotRing, Goto
  <2>2. CASE st' = [st EXCEPT ![w].pc = "horizon"]
    BY <1>0, <2>1, <2>2, Shapes DEF Fields
  <2>3. CASE \E h : st' = [st EXCEPT ![w].pc = "snapshot", ![w].horizon = h]
    BY <1>0, <2>1, <2>3, Shapes DEF Fields
  <2>4. CASE \E q, c : st' = [st EXCEPT ![w].pc = "replay", ![w].queue = q, ![w].covered = c]
    <3>1. y.last = x.last /\ y.sid = x.sid /\ y.pc = "replay"
      BY <1>0, <2>4, Shapes DEF Fields
    <3> QED
      BY <2>1, <3>1
  <2> QED
    BY <2>1, <2>2, <2>3, <2>4
<1> QED
  BY <1>2, <1>3, <1>4, <1>5, <1>6, <1>7, <1>8, <1>9, <1>10, <1>11, <1>12, <1>13

LEMMA OpenTyped ==
  ASSUME Known, NEW w \in Watchers, NEW p, NEW from \in 0 .. Len(log), NEW listed,
         OpenWatch(w, p, from, listed)
  PROVE  Typed(st'[w], view'[w], log, used'.shards)
<1> DEFINE x == [NoStream EXCEPT !.pc = "resolve", !.prefix = p, !.from = from,
                                 !.cursor = sent + 1, !.last = from]
<1>1. x.pc = "resolve" /\ x.last = from
  BY DEF NoStream
<1>2. st' = [st EXCEPT ![w] = x] /\ view' = [view EXCEPT ![w] = StateAt(from)]
  BY DEF OpenWatch
<1> HIDE DEF x
<1>3. st'[w] = x /\ view'[w] = StateAt(from)
  BY <1>2, KnownTypes, Shapes
<1>4. Believes(StateAt(from), log)
  BY KnownTypes, StateBelieved
<1> QED
  BY <1>1, <1>3, <1>4 DEF Typed, Believes, Pcs, AttachedPcs, Ended

LEMMA LeaveTyped ==
  ASSUME Known, NEW w \in Watchers, Ending(w) \/ CloseWatch(w)
  PROVE  Typed(st'[w], view'[w], log, used'.shards)
<1>0. GcInv /\ ViewInv /\ Len(log) \in Nat /\ Believes(view[w], log)
  BY KnownTypes
<1>1. CASE Ending(w)
  <2>1. /\ used' = used /\ st[w].pc \in {"replay", "collect", "tombstones"}
        /\ st'[w].pc \in {"tombstones", "gone"} /\ st'[w].sid = st[w].sid
        /\ \/ st[w].pc = "tombstones" /\ st'[w].cursor = st[w].cursor /\ st'[w].last = st[w].last
           \/ st'[w].cursor = 0 /\ st'[w].last = 0
        /\ view' = view \/ \E k \in Keys : view' = [view EXCEPT ![w] = [view[w] EXCEPT ![k] = 0]]
    BY <1>0, <1>1, EndingEffect
  <2>2. Typed(st[w], view[w], log, used.shards)
    BY KnownTypes
  <2>3. Believes(view'[w], log)
    <3>1. CASE view' = view
      BY <1>0, <3>1
    <3>2. CASE \E k \in Keys : view' = [view EXCEPT ![w] = [view[w] EXCEPT ![k] = 0]]
      <4>1. PICK k \in Keys : view' = [view EXCEPT ![w] = [view[w] EXCEPT ![k] = 0]]
        BY <3>2
      <4> DEFINE v == [view[w] EXCEPT ![k] = 0]
      <4>2. AFunction(v)
        BY ExceptIsFunction
      <4>3. \A j \in Keys : v[j] \in 0 .. Len(log)
        BY <1>0, Shapes DEF Believes
      <4> HIDE DEF v
      <4>4. view'[w] = v
        BY <1>0, <4>1, Shapes DEF v
      <4> QED
        BY <4>2, <4>3, <4>4 DEF Believes
    <3> QED
      BY <2>1, <3>1, <3>2
  <2>4. st'[w].cursor = 0 /\ st'[w].last = 0
    BY <2>1, <2>2 DEF Typed, Ended
  <2>5. st'[w].sid \in 1 .. used'.shards
    BY <2>1, <2>2 DEF Typed, AttachedPcs
  <2> QED
    BY <1>0, <2>1, <2>3, <2>4, <2>5 DEF Typed, Believes, Pcs, AttachedPcs, Ended
<1>2. CASE CloseWatch(w)
  <2>1. st' = [st EXCEPT ![w] = NoStream] /\ view' = [view EXCEPT ![w] = StateAt(0)]
    BY <1>2 DEF CloseWatch
  <2>2. NoStream.pc = "off" /\ NoStream.cursor = 0 /\ NoStream.last = 0
    BY DEF NoStream
  <2>3. Believes(StateAt(0), log)
    BY <1>0, StateBelieved
  <2>4. st'[w] = NoStream /\ view'[w] = StateAt(0)
    BY <1>0, <2>1, Shapes
  <2> QED
    BY <1>0, <2>2, <2>3, <2>4 DEF Typed, Believes, Pcs, AttachedPcs, Ended
<1> QED BY <1>1, <1>2

LEMMA YieldTyped ==
  ASSUME Known, NEW w \in Watchers, st[w].pc \in {"replay", "catchup"}, used' = used,
         NEW i \in DOMAIN st[w].queue, Yield(w, i)
  PROVE  Typed(st'[w], view'[w], log, used'.shards)
<1> DEFINE x == st[w]
           y == st'[w]
           e == x.queue[i]
<1>0. /\ GcInv /\ ViewInv /\ Len(log) \in Nat /\ Typed(x, view[w], log, used.shards)
      /\ ClientTold(w) /\ Believes(view[w], log) /\ DOMAIN view[w] = Keys
  BY KnownTypes
<1>1. y.pc = x.pc /\ y.last = Max({x.last, e.rev}) /\ view'[w] = Apply(view[w], e)
  BY <1>0, YieldEffect
<1>2. y.sid = x.sid
  <2>1. \E q, r : st' = [st EXCEPT ![w].queue = q, ![w].last = r]
    BY DEF Yield
  <2> QED
    BY <1>0, <2>1, Shapes DEF Fields
<1>3. e.rev \in 1 .. Len(log)
  <2>1. Genuine(log, x.queue, sent + 1)
    BY <1>0 DEF ClientTold, Told, Ended
  <2> QED
    BY <1>0, <2>1, KnownTypes DEF Genuine
<1> HIDE DEF e
<1>4. Believes(Apply(view[w], e), log)
  BY <1>0, <1>3, ApplyBelieved
<1>5. y.last \in 0 .. Len(log)
  <2>1. x.last \in 0 .. Len(log)
    BY <1>0 DEF Typed
  <2>2. x.last \in Nat /\ e.rev \in Nat
    BY <1>3, <2>1
  <2> DEFINE a == x.last
             b == e.rev
  <2> HIDE DEF a, b
  <2>3. Max({a, b}) = IF a > b THEN a ELSE b
    BY <2>2, MaxOfTwo DEF a, b
  <2> QED
    BY <1>1, <1>3, <2>1, <2>3 DEF a, b
<1> HIDE DEF x, y
<1>6. y.pc \in Pcs /\ y.pc \notin Ended /\ (y.pc \in AttachedPcs => y.sid \in 1 .. used'.shards)
  <2>1. x.pc \in {"replay", "catchup"} /\ x.pc \in AttachedPcs
    BY DEF AttachedPcs, x
  <2>2. y.sid \in 1 .. used'.shards
    BY <1>0, <1>2, <2>1 DEF Typed
  <2> QED
    BY <1>1, <2>1, <2>2 DEF Pcs, Ended
<1>7. Typed(y, view'[w], log, used'.shards)
  BY <1>1, <1>4, <1>5, <1>6 DEF Typed, Believes
<1> QED
  BY <1>7 DEF y

LEMMA RecvTyped ==
  ASSUME Known, NEW w \in Watchers, Recv(w)
  PROVE  Typed(st'[w], view'[w], log, used'.shards)
<1> DEFINE x == st[w]
           y == st'[w]
           e == log[x.cursor]
           v == Apply(view[w], e)
<1>0. /\ GcInv /\ ViewInv /\ Len(log) \in Nat /\ sent \in Nat /\ sent <= Len(log)
      /\ Typed(x, view[w], log, used.shards)
      /\ ClientTold(w) /\ Believes(view[w], log) /\ DOMAIN view[w] = Keys
  BY KnownTypes
<1>1. x.pc = "live" /\ Unread(w) \in 1 .. BroadcastCapacity /\ used' = used
  BY DEF Recv
<1>2. \/ /\ view' = [view EXCEPT ![w] = v]
         /\ st' = [st EXCEPT ![w].cursor = @ + 1, ![w].last = e.rev]
      \/ view' = view /\ st' = [st EXCEPT ![w].cursor = @ + 1]
  BY DEF Recv
<1>3. e.rev \in 1 .. Len(log)
  <2>1. x.cursor \in 1 .. sent + 1
    BY <1>0, <1>1 DEF ClientTold, Told, Ended
  <2>2. BroadcastCapacity \in Nat
    BY WatchConstants
  <2>3. x.cursor \in 1 .. Len(log)
    BY <1>0, <1>1, <2>1, <2>2 DEF Unread
  <2>4. e.rev = x.cursor
    BY <1>0, <2>3, WritingTypes DEF ViewInv
  <2> QED
    BY <2>3, <2>4
<1> HIDE DEF e
<1>4. Believes(v, log)
  BY <1>0, <1>3, ApplyBelieved
<1> HIDE DEF v
<1>5. /\ y.pc = "live" /\ y.sid = x.sid
      /\ \/ y.last = e.rev /\ view'[w] = v
         \/ y.last = x.last /\ view'[w] = view[w]
  <2>1. CASE /\ view' = [view EXCEPT ![w] = v]
             /\ st' = [st EXCEPT ![w].cursor = @ + 1, ![w].last = e.rev]
    BY <1>0, <1>1, <2>1, Shapes DEF Fields
  <2>2. CASE view' = view /\ st' = [st EXCEPT ![w].cursor = @ + 1]
    BY <1>0, <1>1, <2>2, Shapes DEF Fields
  <2> QED BY <1>2, <2>1, <2>2
<1> HIDE DEF x, y
<1>6. x.sid \in 1 .. used.shards /\ x.last \in 0 .. Len(log)
  BY <1>0, <1>1 DEF Typed, AttachedPcs
<1>7. y.last \in 0 .. Len(log) /\ Believes(view'[w], log)
  BY <1>0, <1>3, <1>4, <1>5, <1>6
<1>8. Typed(y, view'[w], log, used'.shards)
  BY <1>1, <1>5, <1>6, <1>7 DEF Typed, Believes, Pcs, AttachedPcs, Ended
<1> QED
  BY <1>8 DEF y

LEMMA FollowTyped ==
  ASSUME Known, NEW w \in Watchers,
         \/ Replay(w) \/ Recv(w) \/ Lagged(w) \/ ScanRing(w) \/ Catchup(w)
         \/ Recovered(w) \/ Unrecovered(w)
  PROVE  Typed(st'[w], view'[w], log, used'.shards)
<1> DEFINE x == st[w]
           y == st'[w]
<1>0. GcInv /\ ViewInv /\ Typed(x, view[w], log, used.shards)
  BY KnownTypes
<1>1. CASE /\ view' = view /\ used' = used
           /\ y.last = x.last /\ y.sid = x.sid /\ x.pc \in AttachedPcs
           /\ y.pc \in {"live", "scan", "catchup", "check", "collect"}
  <2>1. x.sid \in 1 .. used'.shards
    BY <1>0, <1>1 DEF Typed
  <2> QED
    BY <1>1, <2>1, QuietTyped DEF Pcs, AttachedPcs, Ended
<1>2. ASSUME Replay(w) \/ Catchup(w) PROVE Typed(y, view'[w], log, used'.shards)
  <2>1. /\ x.pc \in {"replay", "catchup"} /\ used' = used
        /\ \/ \E i \in DOMAIN x.queue : Yield(w, i)
           \/ \E pc \in {"live", "check"} : Drained(w, pc)
    BY <1>2 DEF Replay, Catchup
  <2>2. CASE \E pc \in {"live", "check"} : Drained(w, pc)
    <3>1. view' = view /\ \E pc \in {"live", "check"} :
                            st' = [st EXCEPT ![w].pc = pc, ![w].horizon = 0]
      BY <2>2 DEF Drained
    <3>2. y.last = x.last /\ y.sid = x.sid /\ y.pc \in {"live", "check"}
      BY <1>0, <3>1, Shapes DEF Fields
    <3> QED
      BY <1>1, <2>1, <3>1, <3>2 DEF AttachedPcs
  <2> QED
    BY <2>1, <2>2, YieldTyped
<1>3. CASE Lagged(w)
  <2>1. /\ view' = view /\ used' = used /\ x.pc = "live"
        /\ \E c, d : st' = [st EXCEPT ![w].pc = "scan", ![w].cursor = c, ![w].lagged = d]
    BY <1>3 DEF Lagged
  <2>2. y.last = x.last /\ y.sid = x.sid /\ y.pc = "scan"
    BY <1>0, <2>1, Shapes DEF Fields
  <2> QED
    BY <1>1, <2>1, <2>2 DEF AttachedPcs
<1>4. CASE ScanRing(w)
  <2>1. /\ view' = view /\ used' = used /\ x.pc = "scan"
        /\ \E q : st' = [st EXCEPT ![w].pc = "catchup", ![w].queue = q]
    BY <1>4 DEF ScanRing
  <2>2. y.last = x.last /\ y.sid = x.sid /\ y.pc = "catchup"
    BY <1>0, <2>1, Shapes DEF Fields
  <2> QED
    BY <1>1, <2>1, <2>2 DEF AttachedPcs
<1>5. CASE Recovered(w) \/ Unrecovered(w)
  <2>1. /\ view' = view /\ used' = used /\ x.pc = "check"
        /\ \E pc \in {"live", "collect"} : st' = [st EXCEPT ![w].pc = pc]
    BY <1>5 DEF Recovered, Unrecovered, Goto
  <2>2. y.last = x.last /\ y.sid = x.sid /\ y.pc \in {"live", "collect"}
    BY <1>0, <2>1, Shapes DEF Fields
  <2> QED
    BY <1>1, <2>1, <2>2 DEF AttachedPcs
<1> QED
  BY <1>2, <1>3, <1>4, <1>5, RecvTyped

\* A bigger log and more shards.
LEMMA TypedGrown ==
  ASSUME NEW x, NEW v, NEW L, NEW M, Extends(M, L), NEW u \in Nat, NEW n \in Nat, u <= n,
         Typed(x, v, L, u)
  PROVE  Typed(x, v, M, n)
<1>1. Len(L) \in Nat /\ Len(M) \in Nat /\ Len(L) <= Len(M)
  BY DEF Extends
<1>2. \A i : (i \in 0 .. Len(L) => i \in 0 .. Len(M)) /\ (i \in 1 .. u => i \in 1 .. n)
  BY <1>1
<1> QED
  BY <1>2 DEF Typed

LEMMA StreamTyped ==
  ASSUME Known, NEW w \in Watchers, StreamNext(w)
  PROVE  /\ Moves(w) /\ log' = log
         /\ Typed(st'[w], view'[w], log, used'.shards)
         /\ used'.shards \in Nat /\ used.shards <= used'.shards
<1>1. Moves(w)
  BY KnownTypes, StreamTold DEF Advances
<1>2. Typed(st'[w], view'[w], log, used'.shards)
  <2>1. (\E p \in WatchPrefixes, from \in 0 .. Len(log), listed \in BOOLEAN :
           OpenWatch(w, p, from, listed)) => Typed(st'[w], view'[w], log, used'.shards)
    BY OpenTyped
  <2> QED
    BY <2>1, OpeningTyped, FollowTyped, LeaveTyped DEF StreamNext, StreamStep, Ending
<1>3. /\ log' = log
      /\ \/ used' = used
         \/ \E n : used' = [used EXCEPT !.opens = n]
         \/ used' = [used EXCEPT !.shards = @ + 1]
  BY DEF StreamNext, OpenWatch, CloseWatch, StreamStep, Resolve, CreateShard,
         ListForBackfill, BackfillRow, BackfillDone, Attach, LoadHorizon, SnapshotRing,
         Replay, Recv, Lagged, ScanRing, Catchup, Recovered, Unrecovered,
         CollectTombstones, YieldTombstone, Compacted, Goto, writerVars
<1>4. used'.shards \in Nat /\ used.shards <= used'.shards
  BY <1>3, KnownTypes, Shapes DEF Counters
<1> QED
  BY <1>1, <1>2, <1>3, <1>4

\* No event that goes with a shard is later than the log.
LEMMA LoseBelowLog ==
  ASSUME Known, NEW p \in AllPrefixes, shards[p] # None, NEW sid, sid = shards[p],
         NEW q \in AllPrefixes
  PROVE  Lose(p, sid)[q] <= Len(log)
<1> DEFINE s == heap[sid]
           n == Len(log)
           A == {s.horizon} \cup {e.rev : e \in ToSet(s.ring)}
           newest == Max(A)
           served == {r \in AllPrefixes : r = p \/ (Parent(r) = p /\ shards[r] = None)}
           M(r) == {lost[r]} \cup {x \in 1 .. newest : log[x].key \in Under(r)}
<1>0. GcInv /\ ViewInv /\ n \in Nat /\ lost[q] \in Nat /\ lost[q] <= n
  BY KnownTypes DEF Known, FloorsInv, TypesInv
<1>1. CASE Waiting(p)
  BY <1>0, <1>1 DEF Lose, Forgive
<1>2. CASE ~Waiting(p)
  <2>1. Lose(p, sid) = [r \in AllPrefixes |-> IF r \in served THEN Max(M(r)) ELSE lost[r]]
    BY <1>2 DEF Lose
  <2>2. sid \in ShardIds
    BY <1>0, Shapes DEF GcInv, OwnShard
  <2>3. IsShard(s) /\ Genuine(log, s.ring, sent + 1) /\ s.horizon <= n
    BY <2>2 DEF Known, Invs, ViewInv, HeapInv, ShardOK, CapsInv, Logged, Roomy
  <2> HIDE DEF s, n
  <2>4. newest \in Nat /\ newest <= n
    <3>1. s.ring \in Seq(EventSet) /\ s.horizon \in Nat
      BY <2>3 DEF IsShard
    <3>2. \A x \in A : x = s.horizon \/ \E i \in DOMAIN s.ring : x = s.ring[i].rev
      BY DEF ToSet
    <3>3. \A i \in DOMAIN s.ring : s.ring[i].rev \in Nat /\ s.ring[i].rev <= n
      <4>1. \A i \in DOMAIN s.ring : s.ring[i] \in EventSet
        BY <3>1
      <4> QED
        BY <2>3, <4>1 DEF Genuine, EventSet, n
    <3>4. A # {}
      OBVIOUS
    <3> HIDE DEF A
    <3>5. A \in SUBSET Nat /\ \A x \in A : x <= n
      BY <2>3, <3>1, <3>2, <3>3
    <3> QED
      BY <1>0, <3>4, <3>5, BoundedMax
  <2> HIDE DEF newest
  <2>5. Max(M(q)) <= n
    <3>1. M(q) \in SUBSET Nat /\ M(q) # {} /\ \A x \in M(q) : x <= n
      BY <1>0, <2>4
    <3> HIDE DEF M
    <3> QED
      BY <1>0, <3>1, BoundedMax
  <2> HIDE DEF M, served
  <2>6. Lose(p, sid)[q] <= n
    BY <1>0, <2>1, <2>5
  <2> QED
    BY <2>6 DEF n
<1> QED BY <1>1, <1>2

LEMMA ForgiveBelowLog ==
  ASSUME Known, NEW p
  PROVE  \A q \in AllPrefixes : Forgive(p)[q] <= Len(log)
<1>1. Len(log) \in Nat /\ \A q \in AllPrefixes : lost[q] <= Len(log)
  BY KnownTypes DEF Known, TypesInv
<1> QED
  BY <1>1 DEF Forgive

\* get_or_create_shard.
LEMMA SeedTypes ==
  ASSUME Known, NEW p, NEW shard, SeedShard(p, shard)
  PROVE  armed' \subseteq ShardIds /\ \A q \in AllPrefixes : lost'[q] <= Len(log)
<1>1. NextShard \in ShardIds
  <2>1. used.shards \in Nat /\ NextShard <= MaxShards
    BY KnownTypes, Shapes DEF SeedShard
  <2> QED
    BY <2>1, WatchConstants DEF NextShard, ShardIds
<1>2. armed' \subseteq ShardIds
  BY <1>1 DEF SeedShard, Known, TypesInv
<1>3. lost' = lost \/ lost' = Forgive(p)
  BY DEF SeedShard
<1> QED
  BY <1>2, <1>3, ForgiveBelowLog DEF Known, TypesInv

LEMMA DetachTypes ==
  ASSUME Known, NEW w \in Watchers, Detach(w)
  PROVE  armed' \subseteq ShardIds
<1>1. st[w].pc \in AttachedPcs => st[w].sid \in ShardIds
  BY KnownTypes, Shapes DEF Typed
<1> QED
  BY <1>1 DEF Detach, Known, TypesInv

LEMMA StreamTypes ==
  ASSUME Known, NEW w \in Watchers, StreamNext(w)
  PROVE  TypesInv'
<1>1. Functions'
  BY StaysFunctions DEF Next, Known, TypesInv
<1>2. /\ evicting' = evicting
      /\ \/ UNCHANGED <<armed, lost>>
         \/ lost' = lost /\ Detach(w)
         \/ \E p, shard : SeedShard(p, shard)
  BY DEF StreamNext, OpenWatch, CloseWatch, StreamStep, Resolve, CreateShard,
         ListForBackfill, BackfillRow, BackfillDone, Attach, LoadHorizon, SnapshotRing,
         Replay, Recv, Lagged, ScanRing, Catchup, Recovered, Unrecovered,
         CollectTombstones, YieldTombstone, Compacted, Goto, shardVars
<1>3. armed' \subseteq ShardIds /\ \A q \in AllPrefixes : lost'[q] <= Len(log)
  BY <1>2, DetachTypes, SeedTypes DEF Known, TypesInv
<1>4. /\ Moves(w) /\ log' = log /\ Typed(st'[w], view'[w], log, used'.shards)
      /\ used'.shards \in Nat /\ used.shards <= used'.shards
  BY StreamTyped
<1>5. ASSUME NEW v \in Watchers PROVE Typed(st'[v], view'[v], log, used'.shards)
  <2>1. CASE v = w
    BY <1>4, <2>1
  <2>2. CASE v # w
    <3>1. Typed(st[v], view[v], log, used.shards) /\ Len(log) \in Nat /\ used.shards \in Nat
      BY KnownTypes, Shapes
    <3>2. Extends(log, log)
      BY <3>1 DEF Extends
    <3>3. Typed(st[v], view[v], log, used'.shards)
      BY <1>4, <3>1, <3>2, TypedGrown
    <3> QED
      BY <1>4, <2>2, <3>3 DEF Moves, OnlyStream
  <2> QED BY <2>1, <2>2
<1> QED
  BY <1>1, <1>2, <1>3, <1>4, <1>5 DEF Known, TypesInv

LEMMA ShardTypes ==
  ASSUME Known, ShardNext
  PROVE  TypesInv'
<1>1. Functions'
  BY StaysFunctions DEF Next, Known, TypesInv
<1>2. /\ UNCHANGED <<log, st, view>> /\ used'.shards = used.shards
  <2>1. /\ UNCHANGED <<log, st, view>>
        /\ \/ used' = used
           \/ used' = [used EXCEPT !.gcs = @ + 1]
           \/ used' = [used EXCEPT !.evicts = @ + 1]
    BY DEF ShardNext, IdleGcRemove, TearDownShard, IdleGcDecline, PreserveReclaimedHorizon,
           EvictStart, writerVars
  <2> QED
    BY <2>1, KnownTypes, Shapes DEF Counters
<1>3. armed' \subseteq armed
  BY DEF ShardNext, IdleGcRemove, TearDownShard, IdleGcDecline, PreserveReclaimedHorizon, EvictStart
<1>4. evicting' \subseteq AllPrefixes
  <2>1. evicting' \subseteq evicting \/ evicting' \subseteq AllPrefixes
    BY DEF ShardNext, IdleGcRemove, TearDownShard, IdleGcDecline, PreserveReclaimedHorizon, EvictStart
  <2> QED
    BY <2>1 DEF Known, TypesInv
<1>5. \/ lost' = lost
      \/ \E p \in AllPrefixes : shards[p] # None /\ lost' = Lose(p, shards[p])
  BY DEF ShardNext, IdleGcRemove, TearDownShard, IdleGcDecline, PreserveReclaimedHorizon, EvictStart
<1>6. \A q \in AllPrefixes : lost'[q] <= Len(log)
  BY <1>5, LoseBelowLog DEF Known, TypesInv
<1> QED
  BY <1>1, <1>2, <1>3, <1>4, <1>6 DEF Known, TypesInv

LEMMA WriterExtends ==
  ASSUME ViewInv, WriterNext
  PROVE  Extends(log', log)
<1>1. ASSUME NEW k \in Keys, Put(k) \/ Delete(k) PROVE Extends(log', log)
  <2>1. PICK op \in {"put", "delete"} : Commit(<<[key |-> k, rev |-> Len(log) + 1, op |-> op]>>)
    BY <1>1 DEF Put, Delete
  <2> DEFINE b == <<[key |-> k, rev |-> Len(log) + 1, op |-> op]>>
  <2>2. Batch(b)
    BY OneEventBatch
  <2>3. Commit(b)
    BY <2>1
  <2> HIDE DEF b
  <2> QED
    BY <2>2, <2>3, CommitExtends
<1>2. ASSUME NEW ns, DeleteNamespace(ns) PROVE Extends(log', log)
  <2> DEFINE doomed == {k \in Keys : NsOf[k] = ns /\ Exists(k)}
             b(order) == [i \in 1 .. Len(order) |->
                            [key |-> order[i], rev |-> Len(log) + i, op |-> "delete"]]
  <2>1. PICK order \in SetToSeqs(doomed) : Commit(b(order))
    BY <1>2 DEF DeleteNamespace
  <2>2. Batch(b(order))
    <3>1. doomed \in SUBSET Keys
      OBVIOUS
    <3> HIDE DEF doomed
    <3> QED
      BY <3>1, NamespaceBatch
  <2> HIDE DEF b
  <2> QED
    BY <2>1, <2>2, CommitExtends
<1>3. ASSUME MatchShards \/ PushShards \/ Send PROVE Extends(log', log)
  <2>1. log' = log /\ Len(log) \in Nat
    BY <1>3, WritingTypes DEF MatchShards, PushShards, Send, ViewInv
  <2> QED
    BY <2>1 DEF Extends
<1> QED
  BY <1>1, <1>2, <1>3 DEF WriterNext

LEMMA WriterTypes ==
  ASSUME Known, WriterNext
  PROVE  TypesInv'
<1>0. ViewInv /\ Len(log) \in Nat /\ used.shards \in Nat
  BY KnownTypes, Shapes
<1>1. Functions'
  BY StaysFunctions DEF Next, Known, TypesInv
<1>2. UNCHANGED <<st, view, evicting>>
  BY DEF WriterNext, Put, Delete, DeleteNamespace, Commit, MatchShards, PushShards, Send, shardVars
<1>3. Extends(log', log) /\ Len(log') \in Nat /\ Len(log) <= Len(log')
  BY <1>0, WriterExtends DEF Extends
<1>4. \/ UNCHANGED <<armed, lost, used>>
      \/ used' = [used EXCEPT !.shards = @ + 1] /\ \E p, shard : SeedShard(p, shard)
  BY DEF WriterNext, Put, Delete, DeleteNamespace, Commit, MatchShards, PushShards, Send, shardVars
<1>5. armed' \subseteq ShardIds /\ \A q \in AllPrefixes : lost'[q] <= Len(log)
  BY <1>4, SeedTypes DEF Known, TypesInv
<1>6. used'.shards \in Nat /\ used.shards <= used'.shards
  BY <1>0, <1>4, KnownTypes, Shapes DEF Counters
<1>7. ASSUME NEW q \in AllPrefixes PROVE lost'[q] \in Nat
  <2>1. lost[q] \in Nat /\ (lost' = lost \/ \E p : lost' = Forgive(p))
    BY <1>4 DEF SeedShard, Known, FloorsInv
  <2> QED
    BY <2>1 DEF Forgive
<1>8. ASSUME NEW q \in AllPrefixes PROVE lost'[q] <= Len(log')
  <2>1. lost'[q] \in Nat /\ lost'[q] <= Len(log)
    BY <1>5, <1>7
  <2> QED
    BY <1>0, <1>3, <2>1
<1>9. ASSUME NEW w \in Watchers PROVE Typed(st'[w], view'[w], log', used'.shards)
  <2>1. Typed(st[w], view[w], log, used.shards)
    BY KnownTypes
  <2>2. Typed(st[w], view[w], log', used'.shards)
    BY <1>0, <1>3, <1>6, <2>1, TypedGrown
  <2> QED
    BY <1>2, <2>2
<1> QED
  BY <1>1, <1>2, <1>5, <1>8, <1>9 DEF Known, TypesInv

\* SqliteStore::new.
LEMMA FreshTyped ==
  ASSUME NEW L, Len(L) \in Nat, NEW v, v = [k \in Keys |-> 0], NEW u
  PROVE  Typed(NoStream, v, L, u)
<1>1. NoStream.pc = "off" /\ NoStream.cursor = 0 /\ NoStream.last = 0
  BY DEF NoStream
<1>2. AFunction(v)
  BY DEF AFunction
<1> QED
  BY <1>1, <1>2 DEF Typed, Pcs, AttachedPcs, Ended

LEMMA RestartTypes ==
  ASSUME Known, Restart
  PROVE  TypesInv'
<1>1. /\ log' = log /\ armed' = {} /\ evicting' = {} /\ lost' = [p \in AllPrefixes |-> 0]
      /\ st' = [w \in Watchers |-> NoStream] /\ view' = [w \in Watchers |-> StateAt(0)]
  BY DEF Restart, Fresh
<1>2. Len(log) \in Nat
  BY KnownTypes
<1>3. Functions'
  BY StaysFunctions DEF Next, Known, TypesInv
<1>4. StateAt(0) = [k \in Keys |-> 0]
  <2>1. ASSUME NEW k \in Keys PROVE RowRev(k, 0) = 0
    <3>1. RowRev(k, 0) = RowIn(log, k, 0)
      BY RowRevIsRowIn
    <3>2. RowIn(log, k, 0) = 0 \/ RowIn(log, k, 0) \in 1 .. 0
      BY RowInPut
    <3> QED
      BY <3>1, <3>2
  <2> QED
    BY <2>1 DEF StateAt
<1>5. ASSUME NEW w \in Watchers PROVE Typed(st'[w], view'[w], log', used'.shards)
  <2>1. st'[w] = NoStream /\ view'[w] = StateAt(0)
    BY <1>1
  <2> QED
    BY <1>1, <1>2, <1>4, <2>1, FreshTyped
<1> QED
  BY <1>1, <1>2, <1>3, <1>5 DEF TypesInv

LEMMA InitTypes == Init => TypesInv
<1> SUFFICES ASSUME Init PROVE TypesInv
  OBVIOUS
<1>1. /\ log = <<>> /\ armed = {} /\ evicting = {} /\ lost = [p \in AllPrefixes |-> 0]
      /\ st = [w \in Watchers |-> NoStream] /\ view = [w \in Watchers |-> [k \in Keys |-> 0]]
      /\ shards = [p \in AllPrefixes |-> None] /\ since = [s \in ShardIds |-> 0]
      /\ entries = [p \in AllPrefixes |-> 0]
  BY DEF Init
<1>2. Len(log) \in Nat
  BY <1>1
<1>3. Functions
  BY <1>1 DEF Functions, AFunction
<1>4. ASSUME NEW w \in Watchers PROVE Typed(st[w], view[w], log, used.shards)
  <2>1. st[w] = NoStream /\ view[w] = [k \in Keys |-> 0]
    BY <1>1
  <2> QED
    BY <1>2, <2>1, FreshTyped
<1> QED
  BY <1>1, <1>2, <1>3, <1>4 DEF TypesInv

LEMMA NextTypes ==
  ASSUME Known, [Next]_vars
  PROVE  TypesInv'
<1>1. CASE UNCHANGED vars
  <2>1. UNCHANGED <<log, shards, since, entries, lost, armed, evicting, st, view, used>>
    BY <1>1 DEF vars, writerVars, shardVars
  <2> QED
    BY <2>1 DEF Known, TypesInv, Functions
<1>2. CASE Next
  BY <1>2, WriterTypes, ShardTypes, StreamTypes, RestartTypes DEF Next
<1> QED BY <1>1, <1>2

\* The caches, the streams and the clients' views are well-typed in every
\* reachable state, for all constants: the invariant that the types and the caps
\* are inductive with.
THEOREM TypesInvariant == Spec => []Known
<1>1. Invs /\ FloorsInv /\ TypesInv /\ [Next]_vars => TypesInv'
  BY NextTypes DEF Known
<1>2. Spec => [](Invs /\ FloorsInv /\ TypesInv)
  BY <1>1, InitTypes, CapsInvariant, FloorsInvariant, PTL DEF Spec
<1> QED
  BY <1>2, PTL DEF Known

LEMMA LogTyped ==
  ASSUME Known
  PROVE  log \in SeqUpTo(Event, MaxRev)
<1>1. /\ log \in Seq(EventSet) /\ Len(log) \in Nat /\ Len(log) <= MaxRev
      /\ \A i \in 1 .. Len(log) : log[i].rev = i
  BY DEF Known, Invs, ViewInv, Writing
<1>2. MaxRev \in Nat
  BY WatchConstants
<1>3. ASSUME NEW i \in 1 .. Len(log) PROVE log[i] \in Event
  <2>1. log[i] \in EventSet /\ i \in 1 .. MaxRev /\ log[i].rev = i
    BY <1>1, <1>2
  <2> QED
    BY <2>1 DEF EventSet, Event
<1>4. log \in [1 .. Len(log) -> Event]
  BY <1>1, <1>3
<1>5. Len(log) \in 0 .. MaxRev
  BY <1>1, <1>2
<1> QED
  BY <1>4, <1>5 DEF SeqUpTo

LEMMA ShardsTyped ==
  ASSUME Known
  PROVE  /\ targets = None \/ targets \subseteq ShardIds
         /\ shards \in [AllPrefixes -> ShardIds \cup {None}]
         /\ \A s \in ShardIds : /\ Len(heap[s].ring) <= RingCapacity
                                /\ heap[s].horizon \in Revs
                                /\ Cardinality(DOMAIN heap[s].byKey) <= StrippedTierCap
         /\ since \in [ShardIds -> Revs \cup {Never}]
         /\ preserving \subseteq AllPrefixes \X ShardIds
<1>0. GcInv /\ ViewInv /\ Len(log) \in Nat /\ MaxRev \in Nat /\ Len(log) <= MaxRev
  BY KnownTypes, WatchConstants DEF ViewInv, Writing
<1>1. 1 .. used.shards \subseteq ShardIds
  BY <1>0, Shapes
<1>2. targets = None \/ targets \subseteq ShardIds
  BY <1>0, <1>1 DEF ViewInv, Writing
<1>3. shards \in [AllPrefixes -> ShardIds \cup {None}]
  <2>1. AFunction(shards) /\ DOMAIN shards = AllPrefixes
    BY <1>0, Shapes DEF Known, TypesInv, Functions
  <2>2. \A p \in AllPrefixes : shards[p] \in ShardIds \cup {None}
    BY <1>0, <1>1 DEF GcInv, OwnShard
  <2> QED
    BY <2>1, <2>2 DEF AFunction
<1>4. ASSUME NEW s \in ShardIds
      PROVE  /\ Len(heap[s].ring) <= RingCapacity
             /\ heap[s].horizon \in Revs
             /\ Cardinality(DOMAIN heap[s].byKey) <= StrippedTierCap
             /\ since[s] \in Revs \cup {Never}
  <2>1. Logged(heap[s], log) /\ IsShard(heap[s]) /\ since[s] \in 0 .. Never
    BY DEF Known, Invs, CapsInv, ViewInv, HeapInv, ShardOK
  <2>2. heap[s].horizon \in Nat /\ heap[s].horizon <= Len(log)
    BY <2>1 DEF Logged, Roomy, IsShard
  <2>3. heap[s].horizon \in Revs
    BY <1>0, <2>2 DEF Revs
  <2>4. since[s] \in Revs \cup {Never}
    BY <1>0, <2>1 DEF Revs, Never
  <2>5. Len(heap[s].ring) <= RingCapacity /\ Cardinality(DOMAIN heap[s].byKey) <= StrippedTierCap
    BY <2>1 DEF Logged, Indexed, Roomy, Names
  <2> QED
    BY <2>3, <2>4, <2>5
<1>5. since \in [ShardIds -> Revs \cup {Never}]
  <2>1. AFunction(since) /\ DOMAIN since = ShardIds
    BY <1>0, Shapes DEF Known, TypesInv, Functions
  <2> QED
    BY <1>4, <2>1 DEF AFunction
<1>6. preserving \subseteq AllPrefixes \X ShardIds
  BY <1>1 DEF Known, FloorsInv
<1> QED
  BY <1>2, <1>3, <1>4, <1>5, <1>6

LEMMA FloorsTyped ==
  ASSUME Known
  PROVE  /\ lost \in [AllPrefixes -> Revs] /\ entries \in [AllPrefixes -> Revs] /\ overflow \in Revs
         /\ Cardinality({p \in AllPrefixes : entries[p] # 0}) <= MaxReclaimed
<1>0. Len(log) \in Nat /\ MaxRev \in Nat /\ Len(log) <= MaxRev
  BY KnownTypes, WatchConstants DEF ViewInv, Writing
<1>1. \A n \in Nat : n <= Len(log) => n \in Revs
  BY <1>0 DEF Revs
<1>2. lost \in [AllPrefixes -> Revs]
  <2>1. AFunction(lost) /\ DOMAIN lost = AllPrefixes
        /\ \A q \in AllPrefixes : lost[q] \in Nat /\ lost[q] <= Len(log)
    BY DEF Known, TypesInv, Functions, FloorsInv
  <2>2. \A q \in AllPrefixes : lost[q] \in Revs
    BY <1>1, <2>1
  <2> QED
    BY <2>1, <2>2 DEF AFunction
<1>3. Capped(entries, overflow, Len(log)) /\ FloorInv
  BY DEF Known, Invs, CapsInv, ViewInv
<1>4. entries \in [AllPrefixes -> Revs]
  <2>1. AFunction(entries) /\ DOMAIN entries = AllPrefixes
    BY <1>3 DEF Known, TypesInv, Functions, FloorInv
  <2>2. \A q \in AllPrefixes : entries[q] \in Revs
    BY <1>1, <1>3 DEF Capped, FloorInv
  <2> QED
    BY <2>1, <2>2 DEF AFunction
<1>5. overflow \in Revs
  BY <1>1, <1>3 DEF Capped, FloorInv
<1>6. Cardinality({p \in AllPrefixes : entries[p] # 0}) <= MaxReclaimed
  BY <1>3 DEF Capped, HeldBy
<1> QED
  BY <1>2, <1>4, <1>5, <1>6

LEMMA StreamsTyped ==
  ASSUME Known
  PROVE  /\ \A w \in Watchers : /\ st[w].pc \in Pcs
                                /\ st[w].cursor \in 0 .. MaxRev + 1
                                /\ st[w].last \in Revs
                                /\ st[w].pc \in AttachedPcs => st[w].sid \in ShardIds
         /\ view \in [Watchers -> [Keys -> Revs]]
<1>0. /\ GcInv /\ ViewInv /\ Len(log) \in Nat /\ MaxRev \in Nat /\ Len(log) <= MaxRev
      /\ sent \in Nat /\ sent <= Len(log)
  BY KnownTypes, WatchConstants DEF ViewInv, Writing
<1>1. ASSUME NEW w \in Watchers
      PROVE  /\ st[w].pc \in Pcs
             /\ st[w].cursor \in 0 .. MaxRev + 1
             /\ st[w].last \in Revs
             /\ st[w].pc \in AttachedPcs => st[w].sid \in ShardIds
             /\ view[w] \in [Keys -> Revs]
  <2>1. /\ Typed(st[w], view[w], log, used.shards) /\ ClientTold(w) /\ DOMAIN view[w] = Keys
    BY KnownTypes
  <2>2. st[w].pc \in Pcs /\ st[w].last \in 0 .. Len(log) /\ st[w].last \in Revs
    BY <1>0, <2>1 DEF Typed, Revs
  <2>3. st[w].pc \in AttachedPcs => st[w].sid \in ShardIds
    BY <1>0, <2>1, Shapes DEF Typed
  <2>4. st[w].cursor \in 0 .. MaxRev + 1
    <3>1. CASE st[w].pc \in Ended
      BY <1>0, <2>1, <3>1 DEF Typed
    <3>2. CASE st[w].pc \notin Ended
      <4>1. st[w].cursor \in 1 .. sent + 1
        BY <2>1, <3>2 DEF ClientTold, Told
      <4> QED
        BY <1>0, <4>1
    <3> QED BY <3>1, <3>2
  <2>5. view[w] \in [Keys -> Revs]
    <3>1. \A k \in Keys : view[w][k] \in 0 .. Len(log)
      BY <2>1 DEF Typed
    <3>2. \A k \in Keys : view[w][k] \in Revs
      BY <1>0, <3>1 DEF Revs
    <3> QED
      BY <2>1, <3>2 DEF Typed, AFunction
  <2> QED
    BY <2>2, <2>3, <2>4, <2>5
<1>2. AFunction(view) /\ DOMAIN view = Watchers
  BY <1>0, Shapes DEF Known, TypesInv, Functions
<1>3. view \in [Watchers -> [Keys -> Revs]]
  BY <1>1, <1>2 DEF AFunction
<1> QED
  BY <1>1, <1>3

\* TypeOK for all clients, keys, prefixes and bounds: no ring outgrows
\* RingCapacity, no deletion log STRIPPED_TIER_CAP, the reclaimed floors never
\* MAX_RECLAIMED_HORIZONS, and a stream that holds a ShardWatcherGuard holds a
\* shard that exists.
THEOREM CachesStayBounded == Spec => []TypeOK
<1>1. ASSUME Known PROVE TypeOK
  <2>1. sent \in Revs /\ pushed \in sent .. sent + 1 /\ pushed <= Len(log)
    <3>1. /\ Len(log) \in Nat /\ MaxRev \in Nat /\ Len(log) <= MaxRev /\ sent \in Nat
          /\ sent <= Len(log) /\ pushed \in {sent, sent + 1} /\ pushed <= Len(log)
      BY <1>1, KnownTypes, WatchConstants DEF ViewInv, Writing
    <3> QED
      BY <3>1 DEF Revs
  <2>2. armed \subseteq ShardIds /\ evicting \subseteq AllPrefixes
    BY <1>1 DEF Known, TypesInv
  <2> QED
    BY <1>1, <2>1, <2>2, LogTyped, ShardsTyped, FloorsTyped, StreamsTyped DEF TypeOK
<1> QED
  BY <1>1, TypesInvariant, PTL

-------------------------------------------------------------------------------
(* What a client that is sent away has been told.                           *)

\* k is gone from the first r events of L, and not written to by the others.
GoneIn(L, k, r) == RowIn(L, k, r) = 0 /\ \A i \in 1 .. Len(L) : r < i => L[i].key # k

\* Stream x, whose client believes v: every name that was gone when the
\* tombstones were collected is one the client does not hold or is still to get.
SentAway(x, v, L) ==
  x.pc \in {"tombstones", "gone"} =>
    /\ x.asof \in 0 .. Len(L)
    /\ x.pc = "gone" => x.stones = {}
    /\ x.asof > 0 =>
         \A k \in Under(x.prefix) : GoneIn(L, k, x.asof) => v[k] = 0 \/ k \in x.stones

EndInv == \A w \in Watchers : SentAway(st[w], view[w], log)

\* A longer log has fewer names gone since, and none more.
LEMMA SentAwayGrown ==
  ASSUME NEW x, NEW v, NEW L, NEW M, Extends(M, L), SentAway(x, v, L)
  PROVE  SentAway(x, v, M)
<1> SUFFICES ASSUME x.pc \in {"tombstones", "gone"}
             PROVE  /\ x.asof \in 0 .. Len(M)
                    /\ x.pc = "gone" => x.stones = {}
                    /\ x.asof > 0 => \A k \in Under(x.prefix) :
                         GoneIn(M, k, x.asof) => v[k] = 0 \/ k \in x.stones
  BY DEF SentAway
<1>1. /\ Len(L) \in Nat /\ Len(M) \in Nat /\ Len(L) <= Len(M)
      /\ \A i \in 1 .. Len(L) : M[i] = L[i]
  BY DEF Extends
<1>2. /\ x.asof \in 0 .. Len(L) /\ (x.pc = "gone" => x.stones = {})
      /\ (x.asof > 0 => \A k \in Under(x.prefix) :
            GoneIn(L, k, x.asof) => v[k] = 0 \/ k \in x.stones)
  BY DEF SentAway
<1>3. ASSUME NEW k, GoneIn(M, k, x.asof) PROVE GoneIn(L, k, x.asof)
  <2>1. RowIn(M, k, x.asof) = RowIn(L, k, x.asof)
    <3>1. x.asof \in Nat /\ x.asof <= x.asof /\ \A i \in 1 .. x.asof : M[i] = L[i]
      BY <1>1, <1>2
    <3>2. \A i \in 1 .. x.asof : i > x.asof => M[i].key # k
      BY <1>2
    <3> HIDE DEF SentAway
    <3> QED
      BY <3>1, <3>2, RowInKept
  <2> QED
    BY <1>1, <1>3, <2>1 DEF GoneIn
<1> QED
  BY <1>1, <1>2, <1>3

\* The names collected: all that are gone and that the client may still hold.
LEMMA CollectedAll ==
  ASSUME GcInv, ViewInv, DeletionInv, NEW w \in Watchers, st[w].pc \notin Ended, LogComplete(w),
         NEW k \in Under(st[w].prefix), GoneIn(log, k, pushed)
  PROVE  view[w][k] = 0 \/ k \in Tombstones(w)
<1> DEFINE x == st[w]
           p == x.prefix
           q == FindShardKey(p)
           sid == FindShard(p)
           s == heap[sid]
           c == since[sid]
<1>0. sid # None /\ c <= x.from /\ Cardinality(DeletedUnder(q)) <= StrippedTierCap
  BY DEF LogComplete
<1>1. Told(x, view[w], log, sent)
  BY DEF DeletionInv, ClientTold
<1>2. p \in AllPrefixes /\ x.from \in 0 .. Len(log)
      /\ (view[w][k] = RowIn(log, k, x.from) \/ LaterOn(log, k, x.from))
  BY <1>1 DEF Told
<1>3. q \in {p, Parent(p)} /\ sid = shards[q] /\ shards[q] # None
  BY <1>0 DEF FindShard, FindShardKey
<1>4. q \in AllPrefixes /\ k \in Under(q) /\ k \in Keys
  BY <1>2, <1>3, PrefixFacts
<1>5. /\ Len(log) \in Nat /\ pushed \in Nat /\ pushed <= Len(log)
  BY WritingTypes DEF ViewInv
<1>6. c \in Nat
  <2>1. sid \in ShardIds
    BY <1>3, <1>4, Shapes DEF GcInv, OwnShard
  <2> QED
    BY <2>1, NeverIsNat DEF ViewInv, HeapInv, ShardOK
<1>7. DeletionLog(s, c, log, q, pushed) /\ Pending(log, pushed)
  BY <1>3, <1>4 DEF DeletionInv, Remembering
<1>8. RowIn(log, k, pushed) = 0 /\ RowIn(log, k, Len(log)) = 0
  <2>1. /\ RowIn(log, k, pushed) = 0
        /\ \A i \in 1 .. Len(log) : i > pushed => log[i].key # k
    BY <1>5 DEF GoneIn
  <2>2. \A i \in 1 .. pushed : log[i] = log[i]
    OBVIOUS
  <2>3. RowIn(log, k, Len(log)) = RowIn(log, k, pushed)
    BY <1>5, <2>1, <2>2, RowInKept
  <2> QED
    BY <2>1, <2>3
<1>9. Cardinality(Deleted(log, q)) <= StrippedTierCap
  BY <1>0 DEF DeletedUnder, Deleted
<1>10. c <= x.from
  BY <1>0
<1>11. k \in Tombstones(w) <=> k \in DOMAIN s.byKey /\ s.byKey[k] > x.from
  BY <1>0 DEF Tombstones
<1> HIDE DEF s, c, q, p, sid
<1>12. GoneFrom(log, pushed, s, c, q, k)
  BY <1>4, <1>5, <1>6, <1>7, <1>8, <1>9 DEF GoneFrom
<1>13. Recalls(s, k, x.from) \/ (RowIn(log, k, x.from) = 0 /\ ~LaterOn(log, k, x.from))
  BY <1>2, <1>10, <1>12, GoneIsRemembered
<1> QED
  BY <1>2, <1>11, <1>13 DEF Recalls

LEMMA CollectEnd ==
  ASSUME GcInv, ViewInv, DeletionInv, NEW w \in Watchers, CollectTombstones(w)
  PROVE  SentAway(st'[w], view'[w], log)
<1> DEFINE m == IF LogComplete(w) THEN pushed ELSE 0
           y == [NoStream EXCEPT !.pc = "tombstones", !.prefix = st[w].prefix, !.sid = st[w].sid,
                                 !.stones = Tombstones(w), !.asof = m]
<1>1. st' = [st EXCEPT ![w] = y] /\ view' = view /\ st[w].pc \in {"replay", "collect"}
  BY DEF CollectTombstones
<1>2. /\ y.pc = "tombstones" /\ y.prefix = st[w].prefix
      /\ y.stones = Tombstones(w) /\ y.asof = m
  <2> HIDE DEF m
  <2> QED BY DEF NoStream
<1> HIDE DEF y
<1>3. st'[w] = y
  BY <1>1, Shapes
<1>4. pushed \in Nat /\ Len(log) \in Nat /\ pushed <= Len(log)
  BY WritingTypes DEF ViewInv
<1>5. m \in 0 .. Len(log)
  BY <1>4
<1>6. ASSUME m > 0, NEW k \in Under(st[w].prefix), GoneIn(log, k, m)
      PROVE  view[w][k] = 0 \/ k \in Tombstones(w)
  <2>1. LogComplete(w) /\ m = pushed
    BY <1>6
  <2>2. st[w].pc \notin Ended
    BY <1>1 DEF Ended
  <2>3. GoneIn(log, k, pushed)
    BY <1>6, <2>1
  <2> QED
    BY <1>6, <2>1, <2>2, <2>3, CollectedAll
<1> HIDE DEF m
<1> QED
  BY <1>1, <1>2, <1>3, <1>5, <1>6 DEF SentAway

LEMMA YieldEnd ==
  ASSUME GcInv, ViewInv, EndInv, NEW w \in Watchers, NEW k \in Keys, YieldTombstone(w, k)
  PROVE  SentAway(st'[w], view'[w], log)
<1> DEFINE x == st[w]
           y == st'[w]
           v == [view[w] EXCEPT ![k] = 0]
<1>1. /\ st' = [st EXCEPT ![w].stones = x.stones \ {k}] /\ view' = [view EXCEPT ![w] = v]
      /\ x.pc = "tombstones"
  BY DEF YieldTombstone
<1>2. /\ y.pc = "tombstones" /\ y.prefix = x.prefix /\ y.asof = x.asof
      /\ y.stones = x.stones \ {k}
  BY <1>1, Shapes DEF Fields
<1>3. \A j \in Keys : v[j] = IF j = k THEN 0 ELSE view[w][j]
  BY Shapes
<1> HIDE DEF v
<1>4. view'[w] = v
  BY <1>1, Shapes
<1>5. \A j \in Under(x.prefix) : j \in Keys
  BY DEF Under
<1>6. SentAway(x, view[w], log)
  BY DEF EndInv
<1> HIDE DEF x, y
<1>7. /\ x.asof \in 0 .. Len(log)
      /\ (x.asof > 0 => \A j \in Under(x.prefix) :
            GoneIn(log, j, x.asof) => view[w][j] = 0 \/ j \in x.stones)
  BY <1>1, <1>6 DEF SentAway, x
<1>8. ASSUME x.asof > 0, NEW j \in Under(x.prefix), GoneIn(log, j, x.asof)
      PROVE  v[j] = 0 \/ j \in y.stones
  BY <1>2, <1>3, <1>5, <1>7, <1>8
<1>9. SentAway(y, v, log)
  BY <1>2, <1>7, <1>8 DEF SentAway
<1> QED
  BY <1>4, <1>9 DEF y

LEMMA CompactedEnd ==
  ASSUME GcInv, ViewInv, EndInv, NEW w \in Watchers, Compacted(w)
  PROVE  SentAway(st'[w], view'[w], log)
<1> DEFINE x == st[w]
           y == st'[w]
<1>1. /\ st' = [st EXCEPT ![w].pc = "gone"] /\ view' = view
      /\ x.pc = "tombstones" /\ x.stones = {}
  BY DEF Compacted, Goto
<1>2. /\ y.pc = "gone" /\ y.prefix = x.prefix /\ y.asof = x.asof /\ y.stones = x.stones
  BY <1>1, Shapes DEF Fields
<1>3. SentAway(x, view[w], log)
  BY DEF EndInv
<1> HIDE DEF x, y
<1>4. SentAway(y, view[w], log)
  BY <1>1, <1>2, <1>3 DEF SentAway
<1> QED
  BY <1>1, <1>4 DEF y

\* A stream that is not being sent away.
LEMMA StaysOn ==
  ASSUME GcInv, ViewInv, DeletionInv, NEW w \in Watchers, StreamNext(w), ~Ending(w)
  PROVE  SentAway(st'[w], view'[w], log)
<1>1. ASSUME NEW p, NEW from, NEW listed, OpenWatch(w, p, from, listed)
      PROVE  st'[w].pc = "resolve"
  <2> DEFINE x == [NoStream EXCEPT !.pc = "resolve", !.prefix = p, !.from = from,
                                   !.cursor = sent + 1, !.last = from]
  <2>1. x.pc = "resolve"
    BY DEF NoStream
  <2>2. st' = [st EXCEPT ![w] = x]
    BY <1>1 DEF OpenWatch
  <2> HIDE DEF x
  <2> QED
    BY <2>1, <2>2, Shapes
<1>2. CloseWatch(w) => st'[w].pc = "off"
  BY Shapes DEF CloseWatch, NoStream
<1>3. ASSUME Resolve(w) \/ CreateShard(w) \/ ListForBackfill(w)
      PROVE  st'[w].pc \in {"create", "attach", "list", "backfill"}
  <2>1. CASE \E a, b : \E pc \in {"create", "attach"} :
               st' = [st EXCEPT ![w].sid = a, ![w].reused = b, ![w].pc = pc]
    BY <2>1, Shapes DEF Fields
  <2>2. CASE \E a : st' = [st EXCEPT ![w].pc = "list", ![w].sid = a]
    BY <2>2, Shapes DEF Fields
  <2>3. CASE \E a : st' = [st EXCEPT ![w].pc = "backfill", ![w].items = a]
    BY <2>3, Shapes DEF Fields
  <2> QED
    BY <1>3, <2>1, <2>2, <2>3 DEF Resolve, CreateShard, ListForBackfill
<1>4. ASSUME NEW r, BackfillRow(w, r) PROVE st'[w].pc = "backfill"
  <2>1. st[w].pc = "backfill" /\ \E a : st' = [st EXCEPT ![w].items = a]
    BY <1>4 DEF BackfillRow
  <2> QED
    BY <2>1, Shapes DEF Fields
<1>5. ASSUME BackfillDone(w) \/ Attach(w) \/ LoadHorizon(w) \/ SnapshotRing(w)
      PROVE  st'[w].pc \in {"attach", "horizon", "snapshot", "replay"}
  <2>1. CASE \E pc \in {"attach", "horizon"} : st' = [st EXCEPT ![w].pc = pc]
    BY <2>1, Shapes DEF Fields
  <2>2. CASE \E h : st' = [st EXCEPT ![w].pc = "snapshot", ![w].horizon = h]
    BY <2>2, Shapes DEF Fields
  <2>3. CASE \E a, c : st' = [st EXCEPT ![w].pc = "replay", ![w].queue = a, ![w].covered = c]
    BY <2>3, Shapes DEF Fields
  <2> QED
    BY <1>5, <2>1, <2>2, <2>3 DEF BackfillDone, Attach, LoadHorizon, SnapshotRing, Goto
<1>6. ASSUME Replay(w) \/ Catchup(w) PROVE st'[w].pc \in {"replay", "catchup", "live", "check"}
  <2>1. /\ st[w].pc \in {"replay", "catchup"}
        /\ \/ \E a, b : st' = [st EXCEPT ![w].queue = a, ![w].last = b]
           \/ \E pc \in {"live", "check"} : st' = [st EXCEPT ![w].pc = pc, ![w].horizon = 0]
    BY <1>6 DEF Replay, Catchup, Yield, Drained
  <2>2. CASE \E a, b : st' = [st EXCEPT ![w].queue = a, ![w].last = b]
    BY <2>1, <2>2, Shapes DEF Fields
  <2>3. CASE \E pc \in {"live", "check"} : st' = [st EXCEPT ![w].pc = pc, ![w].horizon = 0]
    BY <2>3, Shapes DEF Fields
  <2> QED BY <2>1, <2>2, <2>3
<1>7. ASSUME Recv(w) \/ Lagged(w) PROVE st'[w].pc \in {"live", "scan"}
  <2>1. /\ st[w].pc = "live"
        /\ \/ \E a : st' = [st EXCEPT ![w].cursor = a]
           \/ \E a, b : st' = [st EXCEPT ![w].cursor = a, ![w].last = b]
           \/ \E a, b : st' = [st EXCEPT ![w].pc = "scan", ![w].cursor = a, ![w].lagged = b]
    BY <1>7 DEF Recv, Lagged
  <2>2. CASE \E a : st' = [st EXCEPT ![w].cursor = a]
    BY <2>1, <2>2, Shapes DEF Fields
  <2>3. CASE \E a, b : st' = [st EXCEPT ![w].cursor = a, ![w].last = b]
    BY <2>1, <2>3, Shapes DEF Fields
  <2>4. CASE \E a, b : st' = [st EXCEPT ![w].pc = "scan", ![w].cursor = a, ![w].lagged = b]
    BY <2>4, Shapes DEF Fields
  <2> QED BY <2>1, <2>2, <2>3, <2>4
<1>8. ASSUME ScanRing(w) \/ Recovered(w) \/ Unrecovered(w)
      PROVE  st'[w].pc \in {"catchup", "live", "collect"}
  <2>1. CASE \E a : st' = [st EXCEPT ![w].pc = "catchup", ![w].queue = a]
    BY <2>1, Shapes DEF Fields
  <2>2. CASE \E pc \in {"live", "collect"} : st' = [st EXCEPT ![w].pc = pc]
    BY <2>2, Shapes DEF Fields
  <2> QED
    BY <1>8, <2>1, <2>2 DEF ScanRing, Recovered, Unrecovered, Goto
<1>9. st'[w].pc \notin {"tombstones", "gone"}
  BY <1>1, <1>2, <1>3, <1>4, <1>5, <1>6, <1>7, <1>8 DEF StreamNext, StreamStep, Ending
<1> QED
  BY <1>9 DEF SentAway

LEMMA StreamEnd ==
  ASSUME GcInv, ViewInv, DeletionInv, EndInv, NEW w \in Watchers, StreamNext(w)
  PROVE  EndInv'
<1>1. Moves(w)
  BY StreamTold DEF DeletionInv, Advances
<1>2. log' = log
  BY DEF StreamNext, OpenWatch, CloseWatch, StreamStep, Resolve, CreateShard,
         ListForBackfill, BackfillRow, BackfillDone, Attach, LoadHorizon, SnapshotRing,
         Replay, Recv, Lagged, ScanRing, Catchup, Recovered, Unrecovered,
         CollectTombstones, YieldTombstone, Compacted, writerVars
<1>3. SentAway(st'[w], view'[w], log)
  BY CollectEnd, YieldEnd, CompactedEnd, StaysOn DEF Ending
<1>4. ASSUME NEW v \in Watchers PROVE SentAway(st'[v], view'[v], log)
  <2>1. CASE v = w
    BY <1>3, <2>1
  <2>2. CASE v # w
    BY <1>1, <2>2 DEF Moves, OnlyStream, EndInv
  <2> QED BY <2>1, <2>2
<1> QED
  BY <1>2, <1>4 DEF EndInv

LEMMA NextEnd ==
  ASSUME GcInv, ViewInv, DeletionInv, EndInv, [Next]_vars
  PROVE  EndInv'
<1>1. CASE UNCHANGED vars
  BY <1>1 DEF EndInv, vars, writerVars
<1>2. CASE WriterNext
  <2>1. Extends(log', log)
    BY <1>2, WriterExtends
  <2>2. st' = st /\ view' = view
    BY <1>2 DEF WriterNext, Put, Delete, DeleteNamespace, Commit, MatchShards, PushShards, Send
  <2>3. ASSUME NEW w \in Watchers PROVE SentAway(st[w], view[w], log')
    BY <2>1, SentAwayGrown DEF EndInv
  <2> QED
    BY <2>2, <2>3 DEF EndInv
<1>3. CASE ShardNext
  BY <1>3 DEF ShardNext, IdleGcRemove, TearDownShard, IdleGcDecline, PreserveReclaimedHorizon,
              EvictStart, writerVars, EndInv
<1>4. CASE Restart
  <2>1. st' = [w \in Watchers |-> NoStream]
    BY <1>4 DEF Restart, Fresh
  <2>2. \A w \in Watchers : st'[w].pc = "off"
    BY <2>1 DEF NoStream
  <2> QED
    BY <2>2 DEF EndInv, SentAway
<1> QED
  BY <1>1, <1>2, <1>3, <1>4, StreamEnd DEF Next

\* DeletedBeforeGone for all clients, keys, prefixes, capacities and bounds: a
\* client that is told to relist, on connect or after a lag, has heard of every
\* object it may still hold that was gone when its tombstones were collected,
\* whichever events the ring has evicted and whatever was written while they were
\* being yielded, if the deletion log had had room for the names.
THEOREM DeletionsAreTold == Spec => []DeletedBeforeGone
<1>1. Init => EndInv
  <2> SUFFICES ASSUME Init PROVE EndInv
    OBVIOUS
  <2>1. \A w \in Watchers : st[w].pc = "off"
    BY DEF Init, NoStream
  <2> QED
    BY <2>1 DEF EndInv, SentAway
<1>2. GcInv /\ ViewInv /\ DeletionInv /\ EndInv /\ [Next]_vars => EndInv'
  BY NextEnd
<1>3. ViewInv /\ EndInv => DeletedBeforeGone
  <2> SUFFICES ASSUME ViewInv, EndInv, NEW w \in Watchers, st[w].pc = "gone", st[w].asof > 0,
                      NEW k \in Under(st[w].prefix), GoneSince(k, st[w].asof)
               PROVE  view[w][k] = 0
    BY DEF DeletedBeforeGone
  <2>1. SentAway(st[w], view[w], log)
    BY DEF EndInv
  <2>2. RowIn(log, k, st[w].asof) = 0
    BY RowRevIsRowIn DEF GoneSince
  <2>3. GoneIn(log, k, st[w].asof)
    BY <2>2 DEF GoneIn, GoneSince
  <2> QED
    BY <2>1, <2>3 DEF SentAway
<1> QED
  BY <1>1, <1>2, <1>3, DeletionInvariant, PTL DEF Spec
===============================================================================
