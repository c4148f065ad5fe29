------------------------------ MODULE WatchCache -----------------------------
(***************************************************************************)
(* The watch side of crates/store/src/sqlite.rs: the map of history shards *)
(* and everything that creates, fills, finds and drops them, and the life  *)
(* of a watch stream from the request to the live loop and through lag     *)
(* recovery.                                                               *)
(*                                                                         *)
(* The writer is what SqliteStoreProofs shows it to be: it commits, then   *)
(* pushes each event into the matching shards, then sends it on the        *)
(* broadcast channel, in revision order.  log[r] is the event of revision  *)
(* r; the first `pushed' of them have been pushed, the first `sent' sent,  *)
(* and a commit waits for both (the write_conn mutex).                     *)
(*                                                                         *)
(* A prefix is <<root, ns>>, or <<root, All>> for the resource type's      *)
(* root.  A shard is a heap object with an identity: a stream, a GC task   *)
(* or a tear-down can hold one that the map no longer has.                 *)
(***************************************************************************)
EXTENDS RingShard, SequencesExt

CONSTANTS
  Watchers,           \* streams, each opened by a client of its own
  Keys,               \* object keys
  RootOf, NsOf,       \* resource-type root and namespace of a key
  All,                \* "no namespace": the namespace part of a root
  WatchPrefixes,      \* prefixes clients watch
  None,               \* no shard, no prefix
  BroadcastCapacity,  \* BROADCAST_CAPACITY
  MaxReclaimed,       \* MAX_RECLAIMED_HORIZONS
  MaxRev,             \* bound: revisions handed out
  MaxShards,          \* bound: shards ever created
  MaxOpens,           \* bound: watch requests
  MaxGcs,             \* bound: idle-GC removals
  MaxEvicts,          \* bound: resource types torn down
  MaxRestarts,        \* bound: process restarts
  MaxLosses           \* bound: the last three together

RootPrefix(k) == <<RootOf[k], All>>
Matching(k)   == {RootPrefix(k), <<RootOf[k], NsOf[k]>>}
AllPrefixes   == UNION {Matching(k) : k \in Keys}
Parent(p)     == <<p[1], All>>
Under(p)      == {k \in Keys : RootOf[k] = p[1] /\ p[2] \in {All, NsOf[k]}}
ShardIds      == 1 .. MaxShards
Never         == MaxRev + 1

ASSUME WatchConstants ==
  /\ IsFiniteSet(Keys) /\ DOMAIN RootOf = Keys /\ DOMAIN NsOf = Keys
  /\ WatchPrefixes \subseteq AllPrefixes
  /\ {BroadcastCapacity, MaxReclaimed} \subseteq Nat \ {0}
  /\ {MaxRev, MaxShards} \subseteq Nat
  /\ None \notin ShardIds /\ None \notin AllPrefixes

VARIABLES
  log, pushed, sent,
  targets,      \* shards the event being pushed was matched with; None between events
  shards,       \* SqliteStore::shards: prefix -> shard id or None
  heap,         \* shard id -> contents
  since,        \* history: the shard has every event after this revision, in order
  lost,         \* history: last event of a prefix that went with a shard serving it
  armed,        \* shards with an idle-GC task waiting for its grace period
  preserving,   \* <<prefix, shard>> out of the map, floor not yet preserved
  evicting,     \* shard keys evict_resource_type still has to tear down
  entries,      \* ReclaimedHorizons.entries; 0 is "no entry"
  overflow,     \* ReclaimedHorizons.overflow
  st,           \* the streams
  view,         \* history: what each stream's client believes, key -> revision
  used          \* how much of every bound is spent

writerVars == <<log, pushed, sent, targets>>
shardVars  == <<shards, heap, since, lost, armed, preserving, evicting, entries, overflow>>
vars       == <<writerVars, shardVars, st, view, used>>

-------------------------------------------------------------------------------
(* The database, seen through the log.                                      *)

\* Revision of k's row after the first r commits; 0 if there is no row.
RowRev(k, r) ==
  LET touching == {i \in 1 .. r : log[i].key = k}
  IN IF touching = {} \/ log[Max(touching)].op = "delete" THEN 0 ELSE Max(touching)

Exists(k) == RowRev(k, Len(log)) # 0

StateAt(r) == [k \in Keys |-> RowRev(k, r)]

-------------------------------------------------------------------------------
(* Lookups: find_shard / find_shard_key, matching_shards,                   *)
(* find_reclaimed_horizon, compaction_horizon_for.                          *)

FindShardKey(p) ==
  IF shards[p] # None THEN p ELSE IF shards[Parent(p)] # None THEN Parent(p) ELSE None

FindShard(p) == IF FindShardKey(p) = None THEN None ELSE shards[FindShardKey(p)]

\* A namespace's own shard is forgotten.
Bug_RootShardOnly(k) == {p \in {RootPrefix(k)} : shards[p] # None}

MatchingShards(k) == {p \in Matching(k) : shards[p] # None}

FindReclaimedHorizon(p) ==
  IF entries[p] # 0 THEN entries[p]
  ELSE IF entries[Parent(p)] # 0 THEN entries[Parent(p)]
  ELSE overflow

CompactionHorizonFor(p) ==
  IF FindShard(p) # None THEN heap[FindShard(p)].horizon ELSE FindReclaimedHorizon(p)

-------------------------------------------------------------------------------
(* Shard creation and removal.                                              *)

\* A shard of p is out of the map and its floor is not stored yet.
Waiting(p) == \E s \in ShardIds : <<p, s>> \in preserving

\* History: a shard of p comes or goes while the floor of an earlier one waits.
\* It starts without that floor, the floors may be stored in either order, and
\* nothing is claimed any more of p and the namespaces it serves.
Forgive(p) == [q \in AllPrefixes |-> IF p \in {q, Parent(q)} THEN 0 ELSE lost[q]]

\* get_or_create_shard when p has no shard: the floor comes from what earlier
\* shards left behind, the exact entry is consumed, an idle check is armed.
NextShard == used.shards + 1

SeedShard(p, shard) ==
  /\ NextShard <= MaxShards
  /\ shards' = [shards EXCEPT ![p] = NextShard]
  /\ heap' = [heap EXCEPT ![NextShard] = shard]
  /\ since' = [since EXCEPT ![NextShard] = IF targets = None THEN pushed ELSE pushed + 1]
  /\ armed' = armed \cup {NextShard}
  /\ lost' = IF Waiting(p) THEN Forgive(p) ELSE lost
  /\ entries' = [entries EXCEPT ![p] = 0]

\* Streams holding a ShardWatcherGuard.
AttachedPcs == {"horizon", "snapshot", "replay", "live", "scan", "catchup", "check",
                "collect", "tombstones", "gone"}
Attached(sid) == {w \in Watchers : st[w].sid = sid /\ st[w].pc \in AttachedPcs}

\* Only an expired stream arms the check.
Bug_ArmOnExpiry(w) ==
  armed' = IF st[w].pc = "gone" /\ Attached(st[w].sid) = {w}
           THEN armed \cup {st[w].sid} ELSE armed

\* ShardWatcherGuard::drop: the last watcher out arms the idle check.
Detach(w) ==
  armed' = IF st[w].pc \in AttachedPcs /\ Attached(st[w].sid) = {w}
           THEN armed \cup {st[w].sid} ELSE armed

\* History: p's shard goes, and with it the events of p and of the namespaces
\* it was serving.
Lose(p, sid) ==
  LET newest == Max({heap[sid].horizon} \cup {e.rev : e \in ToSet(heap[sid].ring)})
      served == {q \in AllPrefixes : q = p \/ (Parent(q) = p /\ shards[q] = None)}
  IN IF Waiting(p) THEN Forgive(p)
     ELSE [q \in AllPrefixes |->
             IF q \in served
             THEN Max({lost[q]} \cup {r \in 1 .. newest : log[r].key \in Under(q)})
             ELSE lost[q]]

\* Times that shards have left the map so far.
Losses == used.gcs + used.evicts + used.restarts

\* schedule_idle_gc's task wakes up: it removes its shard if it is still the
\* one in the map and idle, and otherwise does nothing more.
IdleGcRemove(p) ==
  LET sid == shards[p]
  IN /\ sid # None
     /\ sid \in armed
     /\ Attached(sid) = {}
     /\ used.gcs < MaxGcs /\ Losses < MaxLosses
     /\ used' = [used EXCEPT !.gcs = @ + 1]
     /\ shards' = [shards EXCEPT ![p] = None]
     /\ armed' = armed \ {sid}
     /\ preserving' = preserving \cup {<<p, sid>>}
     /\ lost' = Lose(p, sid)
     /\ UNCHANGED <<writerVars, heap, since, evicting, entries, overflow, st, view>>

IdleGcDecline(sid) ==
  /\ sid \in armed
  /\ Attached(sid) # {} \/ \A p \in AllPrefixes : shards[p] # sid
  /\ armed' = armed \ {sid}
  /\ UNCHANGED <<writerVars, shards, heap, since, lost, preserving, evicting, entries, overflow,
                 st, view, used>>

\* The floor is stored without a look at the cap.
Bug_NoReclaimedCap(p, sid) ==
  /\ <<p, sid>> \in preserving
  /\ preserving' = preserving \ {<<p, sid>>}
  /\ entries' = [entries EXCEPT ![p] = FloorOf(heap[sid])]
  /\ UNCHANGED <<writerVars, shards, heap, since, lost, armed, evicting, overflow, st, view, used>>

\* preserve_reclaimed_horizon, in a lock acquisition of its own.
PreserveReclaimedHorizon(p, sid) ==
  LET floor == FloorOf(heap[sid])
      ins   == [entries EXCEPT ![p] = floor]
      held  == {q \in AllPrefixes : ins[q] # 0}
  IN /\ <<p, sid>> \in preserving
     /\ preserving' = preserving \ {<<p, sid>>}
     /\ IF floor = 0
        THEN UNCHANGED <<entries, overflow>>
        ELSE IF Cardinality(held) <= MaxReclaimed
        THEN entries' = ins /\ UNCHANGED overflow
        ELSE \E victim \in held :
               /\ \A q \in held : ins[victim] <= ins[q]
               /\ entries' = [ins EXCEPT ![victim] = 0]
               /\ overflow' = Max({overflow, ins[victim]})
     /\ UNCHANGED <<writerVars, shards, heap, since, lost, armed, evicting, st, view, used>>

\* evict_resource_type: the keys are collected once, then each shard is torn
\* down (removed, floor preserved) in turn, watched or not.
EvictStart(root) ==
  /\ used.evicts < MaxEvicts /\ Losses < MaxLosses
  /\ evicting = {}
  /\ evicting' = {p \in AllPrefixes : p[1] = root /\ shards[p] # None}
  /\ used' = [used EXCEPT !.evicts = @ + 1]
  /\ UNCHANGED <<writerVars, shards, heap, since, lost, armed, preserving, entries, overflow, st, view>>

TearDownShard(p) ==
  /\ p \in evicting
  /\ evicting' = evicting \ {p}
  /\ IF shards[p] = None
     THEN UNCHANGED <<shards, preserving, lost>>
     ELSE /\ shards' = [shards EXCEPT ![p] = None]
          /\ preserving' = preserving \cup {<<p, shards[p]>>}
          /\ lost' = Lose(p, shards[p])
  /\ UNCHANGED <<writerVars, heap, since, armed, entries, overflow, st, view, used>>

-------------------------------------------------------------------------------
(* The writer.                                                              *)

Idle == sent = Len(log)

Commit(batch) ==
  /\ Idle
  /\ Len(log) + Len(batch) <= MaxRev
  /\ log' = log \o batch
  /\ UNCHANGED <<pushed, sent, targets, shardVars, st, view, used>>

Put(k) == Commit(<<[key |-> k, rev |-> Len(log) + 1, op |-> "put"]>>)

Delete(k) ==
  /\ Exists(k)
  /\ Commit(<<[key |-> k, rev |-> Len(log) + 1, op |-> "delete"]>>)

DeleteNamespace(ns) ==
  LET doomed == {k \in Keys : NsOf[k] = ns /\ Exists(k)}
  IN /\ doomed # {}
     /\ \E order \in SetToSeqs(doomed) :
          Commit([i \in 1 .. Len(order) |->
                   [key |-> order[i], rev |-> Len(log) + i, op |-> "delete"]])

\* push_event_locked: the matching shards are looked up under the map's read
\* lock, then the event is pushed into each; a delete nobody would remember
\* makes (or by now finds) the root's shard.
MatchShards ==
  /\ targets = None
  /\ pushed = sent
  /\ sent < Len(log)
  /\ targets' = {shards[p] : p \in MatchingShards(log[sent + 1].key)}
  /\ UNCHANGED <<log, pushed, sent, shardVars, st, view, used>>

PushShards ==
  LET e    == log[sent + 1]
      root == RootPrefix(e.key)
      PushTo(S) == /\ heap' = [s \in ShardIds |->
                         IF s \in S THEN PushIntoShard(heap[s], e) ELSE heap[s]]
                   /\ UNCHANGED <<shards, since, lost, armed, preserving, evicting,
                                  entries, overflow, used>>
  IN /\ targets # None
     /\ targets' = None
     /\ pushed' = sent + 1
     /\ IF targets # {} \/ e.op = "put" THEN PushTo(targets)
        ELSE IF shards[root] # None THEN PushTo({shards[root]})
        ELSE /\ SeedShard(root, PushIntoShard(NewShard(FindReclaimedHorizon(root)), e))
             /\ used' = [used EXCEPT !.shards = @ + 1]
             /\ UNCHANGED <<preserving, evicting, overflow>>
     /\ UNCHANGED <<log, sent, st, view>>

\* tx.send.
Send ==
  /\ pushed = sent + 1
  /\ sent' = pushed
  /\ UNCHANGED <<log, pushed, targets, shardVars, st, view, used>>

-------------------------------------------------------------------------------
(* Opening a watch.  Every step is a point where the code has let go of the *)
(* lock it held, or awaits.                                                 *)

NoStream == [pc |-> "off", prefix |-> None, from |-> 0, cursor |-> 0, sid |-> None,
             items |-> {}, horizon |-> 0, queue |-> Empty, last |-> 0,
             reused |-> FALSE, covered |-> FALSE, lagged |-> FALSE,
             stones |-> {}, asof |-> 0]

Goto(w, pc) == st' = [st EXCEPT ![w].pc = pc]

\* watch_generic_impl, then watch(): both receivers are subscribed before
\* anything is looked at.  The client holds the state of revision `from': its
\* own resourceVersion, which the handler checks against the floor first, or
\* that of a list the handler has just taken for it.
OpenWatch(w, p, from, listed) ==
  /\ st[w].pc = "off"
  /\ used.opens < MaxOpens
  /\ listed \/ (from > 0 /\ from >= CompactionHorizonFor(p))
  /\ used' = [used EXCEPT !.opens = @ + 1]
  /\ st' = [st EXCEPT ![w] = [NoStream EXCEPT !.pc = "resolve", !.prefix = p,
                                !.from = from, !.cursor = sent + 1, !.last = from]]
  /\ view' = [view EXCEPT ![w] = StateAt(from)]
  /\ UNCHANGED <<writerVars, shardVars>>

Resolve(w) ==
  /\ st[w].pc = "resolve"
  /\ st' = [st EXCEPT ![w].sid    = FindShard(st[w].prefix),
                      ![w].reused = FindShard(st[w].prefix) # None,
                      ![w].pc     = IF FindShard(st[w].prefix) = None
                                    THEN "create" ELSE "attach"]
  /\ UNCHANGED <<writerVars, shardVars, view, used>>

\* get_or_create_shard: another request may have made the shard meanwhile,
\* and the caller still goes on to backfill it.
CreateShard(w) ==
  LET p == st[w].prefix
  IN /\ st[w].pc = "create"
     /\ IF shards[p] # None
        THEN /\ st' = [st EXCEPT ![w].pc = "list", ![w].sid = shards[p]]
             /\ UNCHANGED <<shardVars, used>>
        ELSE /\ SeedShard(p, NewShard(FindReclaimedHorizon(p)))
             /\ st' = [st EXCEPT ![w].pc = "list", ![w].sid = NextShard]
             /\ used' = [used EXCEPT !.shards = @ + 1]
             /\ UNCHANGED <<preserving, evicting, overflow>>
     /\ UNCHANGED <<writerVars, view>>

RingTop(s) == IF s.ring = <<>> THEN 0 ELSE Last(s.ring).rev

\* list(prefix).await: the revisions of the rows of the prefix.
ListForBackfill(w) ==
  /\ st[w].pc = "list"
  /\ st' = [st EXCEPT ![w].pc = "backfill",
        ![w].items = {RowRev(k, Len(log)) : k \in {x \in Under(st[w].prefix) : Exists(x)}}]
  /\ UNCHANGED <<writerVars, shardVars, view, used>>

\* The rows are pushed oldest first.  History: one pushed behind a later event
\* breaks the ring's order; one pushed after the shard has left the map may
\* follow events the shard was not given.
BackfillRow(w, r) ==
  LET sid == st[w].sid
  IN /\ st[w].pc = "backfill"
     /\ r \in st[w].items
     /\ \A x \in st[w].items : r <= x
     /\ heap' = [heap EXCEPT ![sid] =
          PushIntoShard(@, [key |-> log[r].key, rev |-> r, op |-> "put"])]
     /\ st' = [st EXCEPT ![w].items = @ \ {r}]
     /\ since' = [since EXCEPT ![sid] =
          IF RingTop(heap[sid]) > r THEN Never
          ELSE IF shards[st[w].prefix] = sid THEN @ ELSE Max({@, r})]
     /\ UNCHANGED <<writerVars, shards, lost, armed, preserving, evicting, entries, overflow,
                    view, used>>

BackfillDone(w) ==
  /\ st[w].pc = "backfill"
  /\ st[w].items = {}
  /\ Goto(w, "attach")
  /\ UNCHANGED <<writerVars, shardVars, view, used>>

\* ShardWatcherGuard::attach.
Attach(w) ==
  /\ st[w].pc = "attach"
  /\ Goto(w, "horizon")
  /\ UNCHANGED <<writerVars, shardVars, view, used>>

LoadHorizon(w) ==
  /\ st[w].pc = "horizon"
  /\ st' = [st EXCEPT ![w].pc = "snapshot", ![w].horizon = heap[st[w].sid].horizon]
  /\ UNCHANGED <<writerVars, shardVars, view, used>>

\* The events of prefix p later than r in a shard's ring, at their positions.
Retained(sid, p, r) ==
  IF sid = None THEN Empty
  ELSE LET ring == heap[sid].ring
       IN Restrict(ring, {i \in DOMAIN ring : ring[i].key \in Under(p) /\ ring[i].rev > r})

\* The ring is copied.  History: `covered' says the shard was given every event
\* after `from', in order, and has evicted none of them.
SnapshotRing(w) ==
  LET s == st[w]
  IN /\ s.pc = "snapshot"
     /\ st' = [st EXCEPT ![w].pc      = "replay",
                         ![w].queue   = Retained(s.sid, s.prefix, s.from),
                         ![w].covered = /\ since[s.sid] <= s.from
                                        /\ heap[s.sid].horizon <= s.from]
     /\ UNCHANGED <<writerVars, shardVars, view, used>>

-------------------------------------------------------------------------------
(* The stream.                                                              *)

Apply(v, e) == [v EXCEPT ![e.key] = IF e.op = "put" THEN e.rev ELSE 0]

\* The first queued event, at position i, is yielded; last_replayed follows the
\* highest revision.
Yield(w, i) ==
  LET e == st[w].queue[i]
  IN /\ \A j \in DOMAIN st[w].queue : i <= j
     /\ view' = [view EXCEPT ![w] = Apply(@, e)]
     /\ st' = [st EXCEPT ![w].queue = Without(@, {i}), ![w].last = Max({@, e.rev})]

Drained(w, pc) ==
  /\ DOMAIN st[w].queue = {}
  /\ st' = [st EXCEPT ![w].pc = pc, ![w].horizon = 0]
  /\ UNCHANGED view

\* Only the deletions still above the floor.
Bug_TombstonesAboveFloor(w) ==
  LET sid == FindShard(st[w].prefix)
  IN IF sid = None THEN {}
     ELSE {k \in Under(st[w].prefix) \cap DOMAIN heap[sid].byKey :
             heap[sid].byKey[k] > heap[sid].horizon}

\* The deletion-log entries of the shard the prefix resolves to now, later
\* than the stream's start.
Tombstones(w) ==
  LET sid == FindShard(st[w].prefix)
  IN IF sid = None THEN {}
     ELSE {k \in Under(st[w].prefix) \cap DOMAIN heap[sid].byKey :
             heap[sid].byKey[k] > st[w].from}

\* from_revision is below the horizon loaded when the watch opened.
StartExpired(w) == st[w].from > 0 /\ st[w].from < st[w].horizon

\* Keys of prefix p that have ever been deleted.
DeletedUnder(p) ==
  {k \in Under(p) : \E i \in 1 .. Len(log) : log[i].key = k /\ log[i].op = "delete"}

\* History: the shard the prefix resolves to now is in order and complete since
\* the stream's start, and its deletion log has had room for every name deleted.
LogComplete(w) ==
  LET p == st[w].prefix
  IN /\ FindShard(p) # None
     /\ since[FindShard(p)] <= st[w].from
     /\ Cardinality(DeletedUnder(FindShardKey(p))) <= StrippedTierCap

\* The stream is over: the tombstones are copied under the deletion log's lock,
\* which is then let go.  Nothing else of the stream is read again.
CollectTombstones(w) ==
  LET s == st[w]
  IN /\ (s.pc = "replay" /\ StartExpired(w)) \/ s.pc = "collect"
     /\ st' = [st EXCEPT ![w] =
          [NoStream EXCEPT !.pc = "tombstones", !.prefix = s.prefix, !.sid = s.sid,
                           !.stones = Tombstones(w),
                           !.asof = IF LogComplete(w) THEN pushed ELSE 0]]
     /\ UNCHANGED <<writerVars, shardVars, view, used>>

\* The copies are yielded one at a time, at the client's pace, ...
YieldTombstone(w, k) ==
  /\ st[w].pc = "tombstones"
  /\ k \in st[w].stones
  /\ view' = [view EXCEPT ![w] = [@ EXCEPT ![k] = 0]]
  /\ st' = [st EXCEPT ![w].stones = @ \ {k}]
  /\ UNCHANGED <<writerVars, shardVars, used>>

\* ... then Compacted; the guard goes with the stream, when the client drops it.
Compacted(w) ==
  /\ st[w].pc = "tombstones"
  /\ st[w].stones = {}
  /\ Goto(w, "gone")
  /\ UNCHANGED <<writerVars, shardVars, view, used>>

\* The receiver is subscribed when the stream starts to be polled.
Bug_SubscribeLate(w) ==
  /\ st[w].pc = "replay"
  /\ ~StartExpired(w)
  /\ \/ \E i \in DOMAIN st[w].queue : Yield(w, i)
     \/ /\ DOMAIN st[w].queue = {}
        /\ st' = [st EXCEPT ![w].pc = "live", ![w].cursor = sent + 1]
        /\ UNCHANGED view
  /\ UNCHANGED <<writerVars, shardVars, used>>

Replay(w) ==
  /\ st[w].pc = "replay"
  /\ ~StartExpired(w)
  /\ (\E i \in DOMAIN st[w].queue : Yield(w, i)) \/ Drained(w, "live")
  /\ UNCHANGED <<writerVars, shardVars, used>>

Unread(w) == sent + 1 - st[w].cursor

Recv(w) ==
  LET e == log[st[w].cursor]
  IN /\ st[w].pc = "live"
     /\ Unread(w) \in 1 .. BroadcastCapacity
     /\ IF e.key \in Under(st[w].prefix) /\ e.rev > st[w].last
        THEN /\ view' = [view EXCEPT ![w] = Apply(@, e)]
             /\ st' = [st EXCEPT ![w].cursor = @ + 1, ![w].last = e.rev]
        ELSE /\ st' = [st EXCEPT ![w].cursor = @ + 1]
             /\ UNCHANGED view
     /\ UNCHANGED <<writerVars, shardVars, used>>

\* RecvError::Lagged: subscribe again, then look for the gap in the ring of
\* whatever shard the prefix resolves to now.
Lagged(w) ==
  /\ st[w].pc = "live"
  /\ Unread(w) > BroadcastCapacity
  /\ st' = [st EXCEPT ![w].pc = "scan", ![w].cursor = sent + 1, ![w].lagged = TRUE]
  /\ UNCHANGED <<writerVars, shardVars, view, used>>

ScanRing(w) ==
  /\ st[w].pc = "scan"
  /\ st' = [st EXCEPT ![w].pc = "catchup",
                      ![w].queue = Retained(FindShard(st[w].prefix), st[w].prefix, st[w].last)]
  /\ UNCHANGED <<writerVars, shardVars, view, used>>

Catchup(w) ==
  /\ st[w].pc = "catchup"
  /\ (\E i \in DOMAIN st[w].queue : Yield(w, i)) \/ Drained(w, "check")
  /\ UNCHANGED <<writerVars, shardVars, used>>

CurrentHorizon(w) ==
  IF FindShard(st[w].prefix) = None THEN 0 ELSE heap[FindShard(st[w].prefix)].horizon

Recovered(w) ==
  /\ st[w].pc = "check"
  /\ CurrentHorizon(w) <= st[w].last
  /\ Goto(w, "live")
  /\ UNCHANGED <<writerVars, shardVars, view, used>>

\* The horizon is read under a lock of its own, before the tombstones.
Unrecovered(w) ==
  /\ st[w].pc = "check"
  /\ CurrentHorizon(w) > st[w].last
  /\ Goto(w, "collect")
  /\ UNCHANGED <<writerVars, shardVars, view, used>>

\* The client goes away: the request or the stream is dropped where it awaits
\* or yields.
CloseWatch(w) ==
  /\ st[w].pc \in {"list", "replay", "live", "catchup", "tombstones", "gone"}
  /\ Detach(w)
  /\ st' = [st EXCEPT ![w] = NoStream]
  /\ view' = [view EXCEPT ![w] = StateAt(0)]
  /\ UNCHANGED <<writerVars, shards, heap, since, lost, preserving, evicting, entries, overflow, used>>

-------------------------------------------------------------------------------
(* SqliteStore::new on an empty and on an existing database: the rows are   *)
(* all there is.                                                            *)

Fresh(n) ==
  /\ pushed' = n
  /\ sent' = n
  /\ targets' = None
  /\ shards' = [p \in AllPrefixes |-> None]
  /\ heap' = [s \in ShardIds |-> NewShard(0)]
  /\ since' = [s \in ShardIds |-> 0]
  /\ lost' = [p \in AllPrefixes |-> 0]
  /\ armed' = {}
  /\ preserving' = {}
  /\ evicting' = {}
  /\ entries' = [p \in AllPrefixes |-> 0]
  /\ overflow' = 0
  /\ st' = [w \in Watchers |-> NoStream]
  /\ view' = [w \in Watchers |-> StateAt(0)]

Restart ==
  /\ used.restarts < MaxRestarts /\ Losses < MaxLosses
  /\ Fresh(Len(log))
  /\ used' = [used EXCEPT !.restarts = @ + 1, !.shards = 0, !.boot = Len(log)]
  /\ UNCHANGED log

Init ==
  /\ log = <<>>
  /\ pushed = 0
  /\ sent = 0
  /\ targets = None
  /\ shards = [p \in AllPrefixes |-> None]
  /\ heap = [s \in ShardIds |-> NewShard(0)]
  /\ since = [s \in ShardIds |-> 0]
  /\ lost = [p \in AllPrefixes |-> 0]
  /\ armed = {}
  /\ preserving = {}
  /\ evicting = {}
  /\ entries = [p \in AllPrefixes |-> 0]
  /\ overflow = 0
  /\ st = [w \in Watchers |-> NoStream]
  /\ view = [w \in Watchers |-> [k \in Keys |-> 0]]
  /\ used = [shards |-> 0, opens |-> 0, gcs |-> 0, evicts |-> 0, restarts |-> 0, boot |-> 0]

WriterNext ==
  \/ \E k \in Keys : Put(k) \/ Delete(k)
  \/ \E ns \in {NsOf[k] : k \in Keys} \ {All} : DeleteNamespace(ns)
  \/ MatchShards
  \/ PushShards
  \/ Send

ShardNext ==
  \/ \E p \in AllPrefixes : IdleGcRemove(p) \/ TearDownShard(p)
  \/ \E s \in ShardIds : IdleGcDecline(s)
  \/ \E p \in AllPrefixes, s \in ShardIds : PreserveReclaimedHorizon(p, s)
  \/ \E root \in {RootOf[k] : k \in Keys} : EvictStart(root)

StreamStep(w) ==
  \/ Resolve(w) \/ CreateShard(w) \/ ListForBackfill(w)
  \/ (\E r \in 1 .. Len(log) : BackfillRow(w, r)) \/ BackfillDone(w)
  \/ Attach(w) \/ LoadHorizon(w) \/ SnapshotRing(w)
  \/ Replay(w) \/ Recv(w)
  \/ Lagged(w) \/ ScanRing(w) \/ Catchup(w) \/ Recovered(w) \/ Unrecovered(w)
  \/ CollectTombstones(w) \/ (\E k \in Keys : YieldTombstone(w, k)) \/ Compacted(w)

StreamNext(w) ==
  \/ \E p \in WatchPrefixes, from \in 0 .. Len(log), listed \in BOOLEAN :
       OpenWatch(w, p, from, listed)
  \/ StreamStep(w)
  \/ CloseWatch(w)

Next ==
  \/ WriterNext
  \/ ShardNext
  \/ \E w \in Watchers : StreamNext(w)
  \/ Restart

Spec == Init /\ [][Next]_vars

\* The writer finishes what it has committed, the runtime polls every stream
\* and the requests behind them; clients, idle checks and restarts are free.
FairSpec ==
  /\ Spec
  /\ WF_vars(MatchShards \/ PushShards \/ Send)
  /\ \A w \in Watchers : WF_vars(StreamStep(w))

-------------------------------------------------------------------------------
(* Properties.                                                              *)

Event     == [key : Keys, rev : 1 .. MaxRev, op : {"put", "delete"}]
SeqUpTo(S, n) == UNION {[1 .. i -> S] : i \in 0 .. n}
Revs      == 0 .. MaxRev
Pcs       == AttachedPcs \cup {"off", "resolve", "create", "list", "backfill", "attach"}

\* Every variable has its type; the reclaimed floors stay under their cap.
TypeOK ==
  /\ log \in SeqUpTo(Event, MaxRev)
  /\ sent \in Revs /\ pushed \in sent .. sent + 1 /\ pushed <= Len(log)
  /\ targets = None \/ targets \subseteq ShardIds
  /\ shards \in [AllPrefixes -> ShardIds \cup {None}]
  /\ \A s \in ShardIds : /\ Len(heap[s].ring) <= RingCapacity
                         /\ heap[s].horizon \in Revs
                         /\ Cardinality(DOMAIN heap[s].byKey) <= StrippedTierCap
  /\ since \in [ShardIds -> Revs \cup {Never}]
  /\ lost \in [AllPrefixes -> Revs]
  /\ armed \subseteq ShardIds
  /\ preserving \subseteq AllPrefixes \X ShardIds
  /\ evicting \subseteq AllPrefixes
  /\ entries \in [AllPrefixes -> Revs]
  /\ overflow \in Revs
  /\ Cardinality({p \in AllPrefixes : entries[p] # 0}) <= MaxReclaimed
  /\ \A w \in Watchers : /\ st[w].pc \in Pcs
                         /\ st[w].cursor \in 0 .. MaxRev + 1
                         /\ st[w].last \in Revs
                         /\ st[w].pc \in AttachedPcs => st[w].sid \in ShardIds
  /\ view \in [Watchers -> [Keys -> Revs]]

\* The client holds the database as of everything its stream has consumed.
Exact(w) ==
  \A k \in Under(st[w].prefix) :
    view[w][k] = RowRev(k, Max({st[w].last, st[w].cursor - 1}))

\* What watch() promises a client whose shard is in order and complete since the
\* client's revision: once live, and until it lags, the client holds
\* exactly the database of the last revision its stream has reached, whatever writers,
\* idle checks, tear-downs and other watches did between the lookup of the
\* shard, its snapshot and the first live event.
ViewExactWhenCovered ==
  \A w \in Watchers : st[w].pc = "live" /\ st[w].covered /\ ~st[w].lagged => Exact(w)

\* k was gone when the first r events had been pushed, and nothing has been
\* written to it since.
GoneSince(k, r) ==
  /\ RowRev(k, r) = 0
  /\ \A i \in 1 .. Len(log) : r < i => log[i].key # k

\* The tombstone block before Compacted, on connect and after a lag alike: a
\* client told to relist has by then been told of every object it may still hold
\* that was gone when the block looked at the deletion log, however slowly it
\* took the tombstones, if the shard its prefix resolved to was in order and
\* complete since the client's revision and its deletion log had had room for
\* all the names deleted.
DeletedBeforeGone ==
  \A w \in Watchers : st[w].pc = "gone" /\ st[w].asof > 0 =>
    \A k \in Under(st[w].prefix) : GoneSince(k, st[w].asof) => view[w][k] = 0

\* schedule_idle_gc and the two places that call it: a mapped shard nobody
\* watches always has a task left that will look at it again, so no shard
\* outlives its last watcher for ever.
IdleShardHasGcTask ==
  \A p \in AllPrefixes : shards[p] # None /\ Attached(shards[p]) = {} => shards[p] \in armed

\* preserve_reclaimed_horizon and find_reclaimed_horizon: what is refused covers
\* what was discarded.  Once the floors of its removed shards are stored, a
\* resource type, with a shard or without, is refused every revision whose
\* history went with a shard; of a namespace without a shard the floor is at one
\* of the three places the lookup reads, though the first one that answers may
\* have an older one.  (No backfill has put a ring out of order: the floor's
\* "back is the highest" relies on it.)
ReclaimedFloorCovers ==
  Never \notin Range(since) =>
    \A p \in AllPrefixes : ~Waiting(p) /\ ~Waiting(Parent(p)) =>
      /\ p = Parent(p) => CompactionHorizonFor(p) >= lost[p]
      /\ FindShard(p) = None => Max({entries[p], entries[Parent(p)], overflow}) >= lost[p]

\* A stream with a complete history ends, lags, or comes to hold the current
\* database: nothing it was owed is lost between replay and live delivery.
EventuallyConsistent ==
  \A w \in Watchers : st[w].covered ~>
    \/ st[w].pc \in {"off", "gone"} \/ st[w].lagged
    \/ \A k \in Under(st[w].prefix) : view[w][k] = RowRev(k, Len(log))

(* What comments and docs of the repository say, and the code does not do:  *)
(* TLC refutes each of these, on the instances the README gives.            *)

\* watch(): "An EXISTING, reused shard ... has been accumulating real history
\* since whichever earlier watch created it", so replaying it is enough.
ReusedShardHasHistory ==
  \A w \in Watchers :
    st[w].pc = "live" /\ st[w].reused /\ ~st[w].lagged => Exact(w)

\* Lag recovery falls back to Compacted "rather than silently skipping events".
LagNeverSkips ==
  \A w \in Watchers : st[w].pc = "live" /\ st[w].covered /\ st[w].lagged => Exact(w)

\* "every deletion since the watcher started is delivered before Compacted": not
\* one pushed while the tombstones collected before it are being yielded.
EveryDeletionBeforeGone ==
  [][\A w \in Watchers : Compacted(w) /\ st[w].asof > 0 =>
       \A k \in Under(st[w].prefix) : GoneSince(k, pushed) => view[w][k] = 0]_vars

\* After a cold start a client with a stale resourceVersion gets 410 and relists.
\* So one that is served live without a relist does not go on believing in an
\* object that was deleted before the restart.
ColdStartResume ==
  \A w \in Watchers : st[w].pc = "live" /\ st[w].from < used.boot =>
    \A k \in Under(st[w].prefix) :
      /\ RowRev(k, used.boot) = 0
      /\ \A i \in used.boot + 1 .. Len(log) : log[i].key # k
      => view[w][k] = 0
===============================================================================
