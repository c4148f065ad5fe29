# u7s: a TLA+ verification project

u7s is a Kubernetes-compatible control plane in Rust: an API server over an
embedded SQLite store, a scheduler and a migration tool. This directory holds
TLA+ models of it, TLC configurations that check them, and TLAPS proofs.

Every object of a cluster goes through the store, and every controller, kubelet
and scheduler acts on what watches tell it. A missed, duplicated or reordered
watch event is a controller that is wrong for ever and that no test reproduces.
So the store and the path from a committed row to a watching client come first.
Beside them are the parts that keep a resource from being handed out twice or
lost while several actors and failures interleave: the scheduler, service
addresses, the pod quota and the ring of service-account keys.

## 1. Inventory

| Part | Source | State it keeps | Operations | What is hard |
|---|---|---|---|---|
| Store, write and read paths | `crates/store/src/sqlite.rs`, `lib.rs` | tables `objects` and `meta.revision`; `last_written_revision`; the `write_conn` mutex; a pool of read connections | `put`, `create_if_namespace_active`, `delete`, `delete_namespace_resources`, `get`, `list`, `new` | order of commits against order of events; a crash between the two; stale pooled reads |
| Store, history shards | `sqlite.rs` (`push_into_shard`) | ring, floor (`horizon`), two-tier deletion log with three indices | push with eviction and downgrades | caps, and what may be forgotten when |
| Store, watch cache | `sqlite.rs` (`watch`, shard functions) | shard map, reclaimed floors, idle-GC tasks, broadcast channels | open, backfill, attach, replay, live, lag recovery, idle removal, tear-down | every step is under another lock, or behind an await |
| Watch responses | `apiserver/src/handlers/watch.rs` and the live loop of `sqlite.rs` | selector bookkeeping, two receivers, debounce timer, heartbeat | event, bookmark, heartbeat, time-out | two channels read in any order; what a bookmark's revision means |
| List pagination | `sqlite.rs` `list_sync`, `handlers/generic.rs` | continue tokens | pages with a pinned revision | pages read a moving database |
| Generic resource handlers | `handlers/generic.rs`, `resource.rs`, `status.rs`, `scale.rs` | none of their own | read-modify-write with retries, finalizers, graceful deletion | lost updates, deletion racing updates |
| Namespace lifecycle | `handlers/namespaces.rs`, `namespace_guard.rs` | phase, finalizers | terminate, empty, remove | creation racing termination |
| Pods | `handlers/pods.rs` | none | binding, eviction, deletion in two steps | a second DELETE removes a pod that still runs; budgets under concurrent evictions |
| Scheduler | `crates/scheduler/src` | `NodeTally` (pods, reservations, claimed victims), `in_flight`, `PreemptionWaiters`, backoff | filter, score, reserve, bind, preempt, deferred bind, resync, reconnect | the tally against late, early and lost events, failed binds and concurrent preemptors |
| Inflight limits, priority and fairness, watch permits | `inflight.rs`, `apf.rs`, `state.rs` | semaphores, queues | acquire, release | leaks, starvation |
| Service addresses | `service_alloc.rs`, `handlers/resource.rs` | one sentinel key per address or port | reserve, allocate, commit, rollback, release, repair | a write that fails, or a client that leaves, after the reservation; a stale spec stored back |
| Quota | `quota.rs`, `lib.rs` | `status.used`; one lock per namespace | admit, adjust, recount, reconcile | counts beside requests in flight; whole-object status writes |
| Keys and certificates | `sa_keys.rs`, `rotation.rs`, `cert_expiry.rs`, `tls.rs` | key ring on disk, in memory and as a snapshot | tick, persist, publish, load | a crash between file and memory; retirement against live tokens; long stops |
| Bootstrap tokens and CSRs | `bootstrap_token.rs`, `csr_approver.rs` | secrets, CSRs | approve, sign | expiry, repeated approval |
| Authentication, authorization | `auth.rs`, `rbac.rs`, `node_authz.rs` | caches | decide | stale caches |
| Custom resources | `handlers/crd.rs`, `cr.rs` | CRD registry | register, convert, tear down | tear-down under open watches |
| Migration | `crates/migrate/src` | a plan on disk | import, cut over, roll back | a crash half way |
| Rest | patching, admission, discovery, encoding, proxying, generated code | none | functions of one request | none that a model checker reaches |

A write goes: handler, `spawn_blocking`, `write_conn` mutex, SQLite transaction,
`last_written_revision`, matching shards, `tx`, `bookmark_tx`, unlock. A watch
goes: handler (floor check, maybe a list), subscribe to both channels, find or
create the shard, backfill if created, attach, load the floor, copy the ring,
then a generator that replays and follows the channels, under the handler's own
loop that filters and adds heartbeats.

What makes each part correct: the store's stream of events is the revision log;
a read is no older than any acknowledged write; a shard never serves a gap
silently; a client that is not told to relist holds what the database holds; a
filtered client holds its selection; its sync revision keeps up with all writes.
No node is over-committed by bindings of the scheduler, and a pod that
outranks what runs gets its node; no address or port is held by two Services or
leaked; the quota's counter is the number of pods, or becomes it again; no token
is refused before it expires. For the parts still to come: no object is left in
a namespace that is gone; no permit is leaked; a certificate rotation or a
cut-over can be resumed from any crash; a paged list followed by a watch
converges.

## 2. Modules

| Module | Models | State and actions |
|---|---|---|
| `RevisionLog` | abstract: what the store promises | a durable log, what has been announced of it, restarts |
| `SqliteStore` | write and read paths | one action per locked section: the transaction (`Put`, `CreateIfNamespaceActive`, `Delete`, `DeleteNamespaceResources`), `BumpLastWritten`, `PushEventLocked` per event, `WriteReturns`; a read is `ReadPool`, `ReadGuard`, `ReadRetry`; `Restart` at any point |
| `SqliteStoreProofs` | theorems about `SqliteStore` | |
| `RingShard` | `push_into_shard` and its data as operators | `PushRing`, `Remember`, `CapFullTier`, `CapStrippedTier`, `Forget`, `FloorOf` |
| `RingShardHistory` | one shard under every history | `PutKey`, `DeleteKey` with revisions skipped for other types |
| `RingShardProofs` | theorems about `RingShardHistory` | |
| `WatchCache` | shard map, floors, streams | extends `RingShard`; shards are heap objects with identities, so a stream, a task or a tear-down can hold one that the map has lost; a step ends where the code releases a lock, yields or awaits: a stream that is over collects its tombstones (`CollectTombstones`), yields them one by one (`YieldTombstone`) and then `Compacted` |
| `WatchCacheProofs` | theorems about `WatchCache` | |
| `WatchResponse` | live loop with both channels, under the handler's loop | writer in four steps; stream (`Snapshot`, one `ReplayEvent` per replayed event, live loop), handler bookkeeping, client cache |
| `WatchResponseProofs` | theorems about `WatchResponse` | |
| `ServiceAlloc` | `service_alloc.rs` and the Service handlers of `resource.rs` | stored Services, sentinels, requests in flight; one action per store call; a client that disconnects (`Reject`, `ReserveUnseen`, `Abandon`, `Landed`), crash, `seed_services` (`StoreSeeded`, `SeedSentinel`), `repair` |
| `ServiceAllocProofs` | theorems about `ServiceAlloc` | |
| `Scheduler` | tally, scheduling tasks, preemption, pod watch, resync; the pod handlers they call | one action per acquisition of the tally lock or API call; users, kubelets, failing calls and reconnects run between them |
| `SchedulerProofs` | theorems about `Scheduler` | |
| `Quota` | the pod counter of a ResourceQuota | requests for pods, a DeleteCollection (`SweepLists`, `SweepRemoves`, `SweepRefused`), recounts under the lock, the reconciler without it, edits; one action per store call; a request's `sign` is +1 for a create, -1 for a removal |
| `QuotaProofs` | theorems about `Quota` | |
| `SaKeyring` | `sa_keys.rs` and its use by `tokens.rs` | clock, file, memory, snapshot, tokens, an outside verifier's copy of the JWKS; `tick` in two steps, stop, load |
| `SaKeyringProofs` | theorems about `SaKeyring` | |
| `MC...` | instances for TLC | keys, namespaces, pods, symmetry |

`WatchCache` uses `RingShard`'s operators unchanged, and its writer is what
`SqliteStoreProofs` shows `SqliteStore` to be: it commits, pushes and sends in
revision order, and the next commit waits. `WatchResponse` takes a stream with a
complete history, which is what `WatchCache` is about.

`ServiceAlloc`, `Scheduler` and `Quota` each have a constant that names the races
the code leaves open (`Races`, `RaceSets`). A guard that mentions it holds one
such interleaving back; with the race in the constant the interleaving happens.
This separates what the code guarantees outside of a known race from the race
itself: the passing runs leave out the races that break their properties, and
section 3 says for each race which property it breaks.

Definitions whose name starts with `Bug_` are deliberate faults, each next to
the definition it stands for; they are used only to see that a property fails
when the code is wrong.

Abstractions. A body is an opaque value (`SqliteStore`), nothing but put or
deleted (the `op` of an event in `RingShard` and `WatchCache`), or whether it
matches the selector (`sel`, beside the `type` ADDED, MODIFIED or DELETED of an
event in `WatchResponse`). What a stream has yet to replay is a set of revisions
in `WatchResponse`: the code replays the ring in revision order, and so does
`ReplayEvent`. A prefix is a pair of type and namespace. Revisions are
natural numbers: 64-bit overflow is out of reach of the program. Time appears
only as the freedom of timers to fire. SQLite is a map with atomic transactions
and snapshot reads; a pooled read may see any committed state. Power loss, which
with `synchronous=NORMAL` may lose committed transactions, is not modelled: a
restart is a process crash. In `ServiceAlloc` a value is one address or one port,
a Service the set of values it lists. In `Scheduler` a request is one number (what a set of
pods requests is counted in units, `Used`), and which of the nodes that fit scores best is open; `Plan` looks at all nodes in one
step, where the code takes the lock once per node, and `Verify` looks again; a terminal phase counts as
removal; forced deletion (grace period 0) and finalizers of pods are left out.
In `Quota` there is one quota and one namespace, and a requested amount goes the
way of the count. In `SaKeyring` a key is its `sign_from` and its identity, the
clock does not go back, and no disk fails for longer than `Gap`. Tokio's broadcast channel is the log with a cursor
per receiver, and a receiver more than the capacity behind lags.

## 3. Runs

Passing runs.

- `store_writes` (2 writers, namespace plus 2 objects, 5 revisions, 1 crash).
  `PublishInv` (which implies `StreamIsLog`), `RowsReflectLog`: what is broadcast is the log and
  the rows are what the log says, although a namespace deletion commits several
  revisions at once. `LifecycleWellFormed`: no event changes nothing.
  `FencedCreates`: `create_if_namespace_active` never adds to a terminating or
  missing namespace. Five revisions let a namespace be created, filled with both
  objects, terminated and emptied.
- `store_service` (1 writer, 1 reader, 3 revisions, 1 crash).
  `ReadsReflectAcknowledged`: `get` and `list` are linearizable with respect to
  acknowledged writes. `ImplementsRevisionLog`: refinement.
  `CommittedIsAnnounced`: liveness.
- `ring_shard` (ring of 2, 5 keys, 12 revisions, gaps of 1): the ring wraps and
  both tiers of the log (2 and 4 entries) overflow. `NothingLostAboveFloor` and
  `ForgottenDeletionsExpire` say that what was dropped is refused;
  `IndicesAgree`, `TombstonesAreCurrent` and `RingDeletionsKeepBodies` that the
  deletion log tells the truth.
- `watch_streams` (1 client, 2 namespaces, both scopes, ring and channel of 1, 3
  revisions, 2 opens, 2 shards): `ViewExactWhenCovered`, `DeletedBeforeGone`, and
  `EventuallyConsistent` under fairness. A ring and a channel of one event make
  every second write an eviction and a lag (811,627 states). `DeletedBeforeGone`
  says that what was gone when the tombstones were collected is told before
  Compacted, while other deletes and creates land between the collection, each
  tombstone and Compacted; of those later deletes it says nothing (below). No shard
  is removed in this run; `watch_lifecycle` and the proofs have that.
- `watch_lifecycle` (1 client, 1 key, both scopes, 2 revisions, 2 opens, 2
  shards, one loss: idle removal, tear-down or restart; room for one reclaimed
  floor; 2,625,346 states). `IdleShardHasGcTask`: a shard whose last watcher left
  has a task that looks at it. `ReclaimedFloorCovers`: what is refused covers what
  was discarded, also when an unwatched delete makes the shard again. `TypeOK`:
  every variable in its type, and ring, deletion log and reclaimed floors within
  their caps; a tear-down of both shards brings one floor more than there is room
  for. The same holds for any number of losses (section 4).
- `watch_response` (1 object, writes to a sibling namespace and to another type,
  3 revisions, 2 opens, bookmark channel of 1; 317,277 states): `SelectionFollowed`,
  `ResumeFollowed`, `NoPhantomDelete`, and `SyncRevisionConverges` under fairness.

- `service_alloc` (2 requests on 2 Services, one with a bootstrap address, which
  the start-up stores itself or not, and one with a finalizer; 2 values, 3
  revisions, crashes, clients that disconnect; `Races = {}`; 1,237,643 states up to
  what a settling request no longer uses, `View`).
  `NeverSharedValue`, `HeldIsReserved`, `NothingLeaks`, `OneSettler`. Two values
  and two requests let one request release what the other reserves; the initial
  Services include those of a version that kept no reservations. A disconnect
  while a sentinel is put (`ReserveUnseen`), or during a commit, a rollback or the
  release after a deletion (`Abandon`), does leak: `lost` records these values
  until the next start, and `NothingLeaks` is about all others.
- `scheduler` (4 pods on a node of size 3: pods of size 2 and 1 fill it, two of
  higher priority and sizes 1 and 2 want their room; 1 failing call or reconnect,
  2 preemption attempts, users delete the large pod; `Races = {}`; 597,434
  states). `NoOvercommit`, `TallyKnowsBound`, `ReservationHasOwner`,
  `ClaimHasOwner`, and `VipIsPlaced` under fairness. Two preemptors contend, one
  may evict one pod or both, and a pod is picked for room that an evicted one
  still uses. With more nodes preemptors contend less; the proofs have any number.
- `quota` (2 pods and a DeleteCollection, limits 1 and 2; behaviours without races
  and behaviours with counts beside requests, dropped handlers and pods that the
  DeleteCollection and another request remove; 126,707 states). `UsedIsExact`,
  `NoOverAdmission` without races, `EditIsKept` without lost edits, `DriftHeals`
  with and without. Deadlock is checked here.
- `sa_keyring` (rotation 4, prepublication 3, token life 5, margin 1, gap 1,
  cache age 2; 13 seconds, 4 keys, 1 token at a time). `TokensVerify`,
  `FreshVerifierKnowsSigner`, `FileLoads`, `SignerNeverGoesBack`. The schedule
  lets three generations of keys overlap and a stop outlast a rotation.

The `TypeOK` of `SqliteStore` and that of `WatchCache` are checked by themselves;
of the other modules with the invariant that speaks most of the shape of the
state, which has it as a conjunct (`IndicesAgree`, `NoPhantomDelete`, `OneSettler`,
`ClaimHasOwner`, `UsedIsExact`); that of `SaKeyring` is proved.

Except in `quota` deadlock is not checked: when all bounds are spent the models
stop, and so does a server nobody calls.

Runs that show a disagreement between the code and what the repository says
of it; TLC finds the behaviour, and PROJECT.json quotes the line.

- `find_shared_value` (`Races = {"overlap"}`, 4 revisions): an update drops a
  port of a Service and releases it, another Service reserves it, and a
  DeleteCollection that listed the first Service before stores the old spec back
  (`resource.rs:5282`): both list the port.
- `find_double_decrement` (`RaceSets = {{"collection"}}`): a DELETE removes a pod
  that a DeleteCollection has listed, and subtracts it; the DeleteCollection does
  not look at the result of its own delete (`pods.rs:1220`) and subtracts the pod
  again. The counter is one too low, and the next create passes the limit.

The races, one at a time in the cfg of the passing run:

| Model | Race | Breaks | What happens |
|---|---|---|---|
| `ServiceAlloc` | `blind` | `NothingLeaks` | a PUT without a resourceVersion is stored over a newer spec whose values it never saw (`resource.rs:4545`) |
| `ServiceAlloc` | `cancel` | `NothingLeaks` | the client of a PUT, PATCH or apply leaves while the put of the Service runs: it lands and the transaction is dropped. What the new spec no longer lists is never released; what it newly lists is released by the drop and may be handed out again. A POST that creates runs on a spawned task (`service_alloc.rs:106-128`) and is safe, a PUT or an apply that creates is not (`resource.rs:4513`) |
| `ServiceAlloc` | `overlap` | `OneSettler` | a deletion releases what its stale read listed (`resource.rs:4739`) beside another write of the Service |
| `ServiceAlloc` | `reseed` | `NeverSharedValue` | `default/kubernetes` is deleted, its address is released and given to another Service; the next start stores `default/kubernetes` with it (`lib.rs:3035`) before `check_seed_sentinel_holder` refuses to go on. Two stored Services list the address, and no later start gets further |
| `Scheduler` | `early` | `VipIsPlaced`, on behaviours without a reconnect | the watch reports a victim's deletion before the plan is registered (`run.rs:208`). The plan waits for events that are past, and the resync skips the pod because it is in `in_flight`. It ends when the API server ends the watch, after 30 minutes (`watch.rs:1229`, `run.rs:408-410`): the relist drops the plan and releases the pod (`run.rs:1536-1545`). `lib.rs:1446-1449` has it that a lost plan "costs at most `RESYNC_INTERVAL`" |
| `Scheduler` | `victims` | none of the invariants in this instance; not proved | the DELETE of a victim that is already terminating removes it at once while it runs (`pods.rs:1334`); a victim whose bind is on its way is deleted unbound |
| `Scheduler` | `stale` | `TallyKnowsBound` | an old report that the pod is pending starts a second task; its reservation replaces the true node and `AlreadyAssigned` keeps it (`run.rs:46-52`) |
| `Scheduler` | `lost` | `TallyKnowsBound` | the bind is stored, its answer lost: the roll-back forgets a running pod (`run.rs:64-70`) |
| `Scheduler` | `reconnect` | `NoOvercommit` | the relist drops the reservations of tasks between reserve and bind (`lib.rs:2019`) |
| `Quota` | `recount`, `cancel`, `collection` | `UsedIsExact`, `NoOverAdmission`, were they asked of these behaviours | a count beside a request in flight, a dropped handler, or a pod removed by two requests, leaves the counter off by one (`lib.rs:3317`, `pods.rs:1349`, `pods.rs:1220`), though `quota.rs:684-687` calls it "kept exactly in sync" |
| `Quota` | `edit` | `EditIsKept`, were it asked | a whole-object status write undoes an edit of `spec.hard` (`quota.rs:913`) |

What `NoOvercommit` does not say. It counts the pods of a node that nobody is
removing. `evict_victims` takes a victim off the tally when its DELETE is answered
(`run.rs:264-267`), and a pod that is picked then binds at once: together with the
victims that still shut down the node may for a while hold more than it has, which
is what the doc of `preempt_and_pick_node` (`run.rs:128-139`) says a kubelet answers
with OutOfResource. Only the preemptor's own bind waits for its victims (the second
half of `NoOvercommit`, and `DeferredBindsWait`). And it leaves out the nodes in
`spared`: a plan that verifies while another one evicts counts the room of the
claimed pods as free (`pods_on`, `lib.rs:2507`) although the other plan reserved
only what its own pod needs; if an eviction of the other plan then fails, its
victims stay and the node is over-committed for good. `EvictFails` records such a
node, and the run reaches it. 2502-2503 says the capacity is folded into that
plan's "own `assume` reservation".

Seven more disagreements. The modules state each as a property
that fails on the code as it is; to see it, replace the properties of the cfg:

- `LagNeverSkips` (`WatchStreams.cfg` with `Spec`, `RootScope`, ring and channel
  of 1, `MaxReclaimed` 1, `MaxRev` 5, one shard, one open): lag recovery raises
  `last_replayed` to the newest event the ring holds (`sqlite.rs:2678`) before it
  compares it with the floor (2698), so a gap the ring has evicted is skipped;
  2647-2649 says it falls back to Compacted "rather than silently skipping events".
- `ReusedShardHasHistory` (the same with ring and channel of 4 and `MaxRev` 4): an
  unwatched delete makes the type's shard without a backfill (926-928); a later
  watch from an older revision reuses it and misses earlier writes; 2435-2436 says
  a reused shard "has been accumulating real history".
- `ColdStartResume` (the same with ring and channel of 3, `MaxRev` 2, and
  `MaxRestarts` and `MaxLosses` 1): after a
  restart there is no floor, so a stale revision is served and deletions before
  the restart are never told; `ai/prompts/state-store.md:168` says such clients
  "receive 410 Gone and relist".
- `EveryDeletionBeforeGone` (`WatchStreams.cfg` with `Spec`): the tombstones are
  collected under a lock, which is released before they are yielded
  (`sqlite.rs:2529-2555`, `2721-2753`); a delete that is pushed before Compacted
  is not among them, and the relist cannot show it. 2718-2719 says "every deletion
  since the watcher started is delivered before Compacted".
- `DisconnectsLeakNothing` (`ServiceAlloc.cfg`): a client leaves while a sentinel is
  put (`service_alloc.rs:219-227`, `state.rs:1879-1888`), in the middle of a commit or
  rollback, which have taken the list out of the transaction (47-59), or between a
  delete and its release (`resource.rs:4737-4757`). The sentinels stay until the
  next start; 29-30 says such a client "cannot leak a VIP or node port".
- `SelectionExitIsTold` (`WatchResponse.cfg` with `Spec` and one open): a client
  that lists with a selector and then watches is not told when a listed object
  leaves the selection (`watch.rs:1220`); 902-903 says a DELETE tells it.
- `BookmarkIsResumable` (the same): a bookmark can be ahead of an event the stream
  has not delivered (`watch.rs:1645`), so resuming from it loses the event;
  `ai/prompts/architecture.md:267` says a bookmark "lets the client resume".

Other disagreements met while modelling, without a run of their own:

- `current_revision()` is 0 after a restart until the next write (`sqlite.rs:535`),
  while `ai/prompts/state-store.md:168` says the counter is restored.
- A live event pushed between the creation of a shard and its backfill puts the
  ring out of revision order (`sqlite.rs:2449`; `state-store.md:51` promises order).
- The idle check can remove a shard between lookup and attach (2415 to 2462), in
  spite of the comment at 237-240; the shard's watchers then have no shard in the
  map for lag recovery.
- A shard leaves the map (250) before its floor is stored (259): a shard created
  in between starts with floor 0.
- A namespace's own reclaimed floor hides a newer one of the type's root (1163).
  For this reason `ReclaimedFloorCovers` says of a namespace only that the floor
  is at one of the three places the lookup reads.
- A bookmark of the own type is dropped as "no new information" (2792), which
  does not hold for a namespaced watch and a write in a sibling namespace; the
  heartbeat makes up for it within a minute.
- A failed conversion of a custom resource drops the event while the bookmark
  that follows moves on (`watch.rs:1433`).

`WatchCache`'s properties name their scope accordingly. `ViewExactWhenCovered`
speaks of streams whose shard was given every event since the client's revision,
in order, and has evicted none of them (`covered` records this at the snapshot).
`DeletedBeforeGone` speaks of clients whose prefix resolves, when the tombstones
are collected, to a shard that is in order and complete since their revision, and
whose deletion log has had room for all the names ever deleted under it (`asof`
records what had been pushed by then).
`ReclaimedFloorCovers` speaks of moments when no floor is waiting to be stored and
no backfill has put a ring out of order; when a shard comes or goes while the
floor of an earlier one waits, nothing more is claimed of what was lost before
(`Forgive`).

### Fairness

`SqliteStore!FairSpec` and `WatchCache!FairSpec`: weak fairness of the steps a
holder of the write mutex takes after its commit; a blocking closure runs to its
end, nothing in it waits for another task. `WatchCache!FairSpec` and
`WatchResponse!FairSpec`: weak fairness of each stream's own steps; hyper polls a
response body as long as the client reads. `WatchResponse!FairSpec` has strong
fairness of the heartbeat: the 60-second interval is due again and again, and the
handler's biased select looks at it whenever the stream is pending; a stream that
is never pending for a minute has been given events and bookmarks instead.
Clients, writers' requests, idle checks and restarts have no fairness.

`Scheduler!FairSpec`: weak fairness of the watch loop, of each task's own steps,
of the resync, whose timer fires every `RESYNC_INTERVAL`, and of kubelets that
stop what is deleted. Failures have a bound instead: a call that fails for ever
places no pod. `Quota!FairSpec`: weak fairness of handlers that run and of the
reconciler's timer; strong fairness of a removal's wait for the lock, because
tokio's semaphore serves its waiters in order. Creates, deletions and edits have
no fairness in either; `DriftHeals` speaks of behaviours in which they cease.

## 4. Proofs

`SqliteStoreProofs` proves for all values of the constants (any sets of writers,
readers, keys and bodies, any bounds), from `ConstantsAssumption`:

- `TypeCorrect`: `Spec => []TypeOK`.
- `PublishCorrect`: `Spec => []PublishInv`.
- `StreamCorrect`: `Spec => []StreamIsLog`.
- `Refinement`: `Spec => ImplementsRevisionLog`.

`StreamIsLog` (what was sent is a gap-free piece of the log) is not inductive:
while a writer holds the mutex, some committed events are not sent yet, and
nothing in `StreamIsLog` says they are the right ones. `PublishInv` adds that
what the holder has yet to push is exactly the rest of the log, and that nobody
has anything to push when the mutex is free. The latter is what the comment on
`push_event_locked` asks for: events are pushed before the mutex is released.
`PublishInv` is inductive relative to `TypeOK`; `StreamIsLog` follows from it, and
so does the refinement: a transaction maps to `Extend`, a push to `Announce`, a
restart to `Reopen`, everything else to a stutter. The proofs rest on a
few lemmas: `WriteIsCommit` (every write step is a `Commit` of one batch),
`CommitTypeOK`, `ReadTypeOK` and `NoReadType` (types), `CommitExtendsLog` (a
commit puts its batch at the end of the log) and `PublishInvStep` (the induction
step of the publication invariant).

- `LogInvariant`: `Spec => []LogInv`, with `RowsFollowLog` (`RowsReflectLog`),
  `LifecyclesAreWellFormed` (`LifecycleWellFormed`) and `CreatesAreFenced`
  (`FencedCreates`).
- `ReadsAreCurrent`: `Spec => []ReadsReflectAcknowledged`.

The three parts of `LogInv` need each other: that a commit changes something, or
finds an active namespace, is known from the rows, and the log is what later
states keep. `RowInKept` says that a longer log keeps every earlier row,
`WriteFits` what each of the four writes may put into its batch, and
`RowsCommit`, `LifecycleCommit` and `FencedCommit` carry the parts over a commit.
For the reads, `AckInv` says where an acknowledged revision is remembered: in
`last_written_revision`, or below what the process found at start (after a
restart the counter is 0). `ReadInv` adds that a reader holds the state of one
revision of the log. `TrustedIsFresh` is the point: when the guard lets a pooled
read through, that revision is no older than what was acknowledged before it.

`SaKeyringProofs` proves for every policy and every bound, from `PolicyAssumption`:

- `KeyringTypes`: `Spec => []TypeOK`.
- `KeyringInvariant`: `Spec => []KeyringInv`.
- `TokensAlwaysVerify`: `Spec => []TokensVerify`.
- `SignerIsAnnounced`: `Spec => []FreshVerifierKnowsSigner`.
- `FileAlwaysLoads`: `Spec => []FileLoads`.
- `SignerMovesForward`: `Spec => SignerNeverGoesBack`.

`PolicyAssumption` says: prepublication is shorter than rotation (what `validate`
checks), tokens live, a snapshot is replaced before it is older than the margin
(`Gap <= Margin`), and an outside verifier refreshes soon enough to see a key
before it signs (`CacheAge + Gap <= Prepublish`). The defaults (a tick a minute,
a margin of an hour, a day of prepublication) leave room for all of it.

None of the four properties is inductive. `TokensVerify` speaks of the snapshot,
but the next snapshot is made from memory, and after a stop from the file, which
may be ahead of memory by a failed or interrupted tick. So `KeyringInv` asks the
same of all three: the file and the memory each hold the key of every live token,
a key with a successor outlives every token it signed (`Covers`), each has a
signer that is no older than the last one (`HasSigner`, `SignsWith`), and any key
an outside verifier lacks signs only when its copy is too old (`Announced`).
`Running` adds how far file and memory may differ: keys the file has beyond
memory start at least `Prepublish` after the last snapshot, and a difference
means that memory is due for a change, so that no tick leaves it standing.
`PlanFacts`, `PlanCovers`, `PlanHasSigner`, `PlanSignsWith` and `PlanAdds` say what
`plan` preserves, `SignerFacts` and `StaleFacts` what `signer_index` returns and
when a tick changes the list; `InitKeyring`, `PersistKeyring`, `PublishKeyring` and
`StepKeyring` are the induction.

`RingShardProofs` proves for every ring capacity, key set and history, from
`RingCapacityAssumption` and `HistoryAssumption`:

- `HistoryInvariant`: `Spec => []HistoryInv`, with `DeletionIndicesAgree`
  (`IndicesAgree`), `EvictionRaisesFloor` (`NothingLostAboveFloor`),
  `TombstonesStayCurrent` (`TombstonesAreCurrent`), `BodiesOutliveRing`
  (`RingDeletionsKeepBodies`) and `ForgottenIsBelowFloor`
  (`ForgottenDeletionsExpire`).

`HistoryInv` relates the shard to the last event of each key. The ring is in
revision order and holds everything after the last evicted revision (`RingInv`);
the last event of a key is in the ring or evicted (`LastInv`); the indices are
inverse and every entry with a body is newer than every entry without
(`IndexInv`); a deletion in the ring keeps its body, and a deletion that is in no
index is below the floor (`KeptInv`). The last two are why the caps are safe:
the body tier has one entry per ring slot, so a deletion downgraded by
`CapFullTier` has left the ring (`OldestHasLeft`, `RevsCount`), and one dropped by
`CapStrippedTier` raises the floor. One lemma per helper of `push_into_shard`
carries the invariant over it, and `PushKeeps` composes them.

`WatchCacheProofs` proves for any clients, keys, prefixes, capacities and bounds,
from `WatchConstants` and `RingCapacityAssumption`, every invariant that the two
runs of `WatchCache` check:

- `GcInvariant`: `Spec => []GcInv`, with `IdleShardsAreCollected`
  (`IdleShardHasGcTask`).
- `ViewInvariant`: `Spec => [](GcInv /\ ViewInv)`, with `CoveredViewsAreExact`
  (`ViewExactWhenCovered`).
- `DeletionInvariant`: the same with `DeletionInv`, with `DeletionsAreTold`
  (`Spec => []DeletedBeforeGone`).
- `FloorsInvariant`: `GcInv`, `ViewInv` and `FloorsInv`, with `FloorsCover`
  (`ReclaimedFloorCovers`).
- `CapsInvariant`: the first three with `CapsInv`; `TypesInvariant`: all of them
  with `TypesInv`; and `CachesStayBounded` (`TypeOK`).

Idle checks. A check that removes its shard disarms it; for the property to
survive, no other prefix may be mapped to that shard. So `GcInv` adds that
identities of shards are not handed out twice and that each is mapped once
(`OwnShard`), and the shape of the counters and stream records (`Shape`). A step of
a stream either keeps its guard (`GuardsKept`, `QuietStep`), drops it where the
last one out arms the check (`DetachStep`), or maps a shard whose check is armed
(`SeedStep`).

Views. `ViewExactWhenCovered` is about a stream that is live, and what it holds by
then was decided when it subscribed, found its shard and copied the ring.
`ViewInv` follows the promise through these steps. Rings hold events of the log
(`Genuine`), in order unless the shard is marked. A mapped shard holds every event
pushed for its prefix since it is complete and has not evicted (`Holds`,
`Mapped`), and an event that was matched without it predates that. A request
between lookup and snapshot keeps a shard that holds everything up to the
request's own subscription, whether or not the map still has that shard
(`HeldShard`): this is why the idle check between lookup and attach does no harm
to the view. A replaying stream's queue has no gap up to where its receiver takes
over (`Queued`, `Replaying`), and a live stream's client has the rows of what it
has reached (`Following`). `PushEffect` says what `push_into_shard` does to ring
and floor; `SnapshotIsComplete`, `YieldReplaying` and `ReceivedFollowing` are the
steps of one stream; `PushKeeps`, `Seeded` and `BackfillView` those that change
shards under it. The queue is replayed one event at a time, as the code yields it,
so nothing has to be said about folds.

Deletions. A client that is sent away gets the tombstones of the shard its prefix
resolves to when they are collected, and `Compacted` some steps later. `DeletionInv` says that a mapped shard remembers, with
its revision, every name whose last pushed event is a deletion since the shard is
complete, as long as it has had room for the names, unless a put of the name is
committed and a backfill has run ahead of its push (`DeletionLog`, `Coming`); that
of the events not pushed yet no two are on one name, and a deletion is of a name
that has a row (`Pending`); and that what a client believes of a key is the
row of its `from` or has a later event (`Told`). `PushRemembers`, `PassedBy` and
`BackfillRemembers` carry the log over pushes, over events the shard is not given
and over backfilled rows; from `GoneIsRemembered`, `CollectedAll` concludes that
what is collected has every name that is gone by then and that the client may
hold. `EndInv` (`SentAway`) carries this from the collection to the end of the
stream: of the names gone at the collection and not written since, the client
holds none or has the tombstone still to come. The names deleted after the
collection are not in it, and the stream does not tell them (section 3).

Floors. `FloorsInv` says where the floor of a removed shard is: with a successor
that started from it, with the removal that has yet to store it, in the entry of
its prefix, or in the store-wide floor (`Kept`, `FloorKept`), and for a type's root
at the one place the lookup answers from (`RootKept`). Every step changes this for
one prefix and those it serves (`Change`, `OnePrefix`); `RemoveFloors`,
`StoreFloors` and `SeedFloors` are the three moves.

Caps. The cap on names needs the two indices of a deletion log to agree
(`Mirror`), which needs that no name is deleted twice in a row for one shard: the
tombstones of a mapped shard are the last events of their names (`Current`), and
the log deletes only what exists (`Pending` again, `NotDeletedTwice`). A shard that
the map has lost is given the event it was already matched with, for which the
same is known, and backfilled puts, which only remove names.
`PreserveCaps` counts the reclaimed floors: one in, and the oldest out when there
is one too many. `TypesInv` adds the types, among them that the sid of a stream
with a guard is a shard and that no floor, view or cursor is ahead of the log.

`WatchResponseProofs` proves for any keys, any history and any number of watches,
from `ResponseConstants`:

- `ResponseInvariant`: `Spec => []ResponseInv`, with `SelectionIsFollowed`
  (`SelectionFollowed`), `ResumesAreFollowed` (`ResumeFollowed`) and
  `DeletesAreNeverPhantom` (`NoPhantomDelete`).

The properties speak of the moments when a stream has delivered what it was
given. In between, `DeliveringInv` says that the client's cache and the handler's
`ever_matched` are the selection as of `last_replayed`, and `QueueInv` that what is
left to replay has no gap: every event between `last_replayed` and the newest
queued one, and every one the receiver will not see. `LogInv` is what makes an
ADDED or a DELETED event mean what it says. `HandleFollowed` and `HandleResumed`
say what the handler's filter does with one event; `EventStep` joins both for
replayed and live events.

`ServiceAllocProofs` proves for any Services, values, owners and concurrent
requests, from `ServiceAllocConstants` and `Races = {}`:

- `AllocInvariant`: `Spec => []AllocInv`, with `ValuesAreNeverShared`
  (`NeverSharedValue`), `HeldValuesAreReserved` (`HeldIsReserved`),
  `ReservationsNeverLeak` (`NothingLeaks`) and `ValuesHaveOneSettler`
  (`OneSettler`).

`ValuesAreNeverShared` is thus about starts at which the Service that the server
stores itself has its values to itself (no `reseed`), and `ReservationsNeverLeak`
about all values but `lost`, those that a client abandoned which disconnected
during the put or the release of a sentinel; the disconnects themselves are steps
of the specification with or without races.

The properties speak of stored Services and of sentinels; whether the next write
keeps them depends on what a request in flight knows. `AllocInv` adds that: what
a request read is still so or its write will be refused, and what it is about to
store is reserved by it, was its Service's, or is kept for its Service
(`Requested`); what it still has to commit or roll back is reserved and in no
Service (`Settles`); a value kept for a Service is held by no other
(`OwnedForOwner`); while the server restarts, what the repair has passed is right
(`Restarting`); the Service that the start stores is there since its first start
(`SeededStays`); an abandoned value is in no Service and in no request until the
next start (`LostFits`). `ReserveUnseenInv` and `AbandonInv` are the disconnects,
`StoreSeededInv` the put of the start, `TakeInv`, `ReleaseInv`, `StoreInv` and `WriteInv` the other
steps that touch sentinels and Services. The runs show what each of the races breaks,
so the hypothesis cannot be dropped.

`QuotaProofs` proves for any pods and limits, from `QuotaConstants`:

- `QuotaInvariant`: `Spec => []QuotaInv`, with `CounterIsExact` (`UsedIsExact`),
  `EditsAreKept` (`EditIsKept`) and `CreatesStayWithinLimit`
  (`Spec => NoOverAdmission`, an action property).

The set of races is a variable here: the theorems cover every choice, and the
properties name the ones they hold for. `UsedIsExact` and `NoOverAdmission` hold
only without any: a pod that a DeleteCollection has listed and another request
removes (`collection`) is subtracted twice (`find_double_decrement`). Without that
race what the collection has still to remove is stored (`TodoFits`). `CountsFit`, the core of `QuotaInv`, says
that every value somebody is about to put is right when it is put: the counter,
the pending recount, the reconciler's value as long as its precondition holds,
and what a request computed under the lock; and that an admitted pod still has
its place. `LimitsFit` and `HardsFit` say the same of `spec.hard`.

`SchedulerProofs` proves for any pods, nodes, priorities, requests, failures and
bounds, from `SchedulerConstants`:

- `SchedulerInvariant`: `Spec => []BaseInv`, with `ClaimsHaveOwners`
  (`ClaimHasOwner`) and `ReservationsHaveOwners` (`ReservationHasOwner`), all
  three with every race.
- `BoundPodsAreKnown`: `Spec => []TallyKnowsBound` without `stale` and `lost`.
- `DeferredBindsWait`: `Spec => []VictimsAreGone`, with every race.
- `NodesAreNotOvercommitted`: `Spec => []NoOvercommit` with no race but `early`.

`BaseInv` says how task records, reservations, claims and the backlog fit the
stored pods. `KnownInv` adds that a bound pod has no task but for the answer to its
bind, and that nothing read before the bind is still to be handled. `Progress`
follows the eviction of a plan: what is no longer left to evict is marked, and what
is no longer waited for is gone, which is why a deferred bind waits for all its
victims. `RoomInv` is about room: what the tally counts on a node and nobody is
removing (`Reserved`) fits, but for the nodes in `spared` (`RoomKept`); a pod holds
its reservation from its pick to its bind (`HoldsRoom`), and a live bound pod is
counted (`Counted`). `FitKeepsRoom` is the crucial lemma: the fit check and the
reservation are one step under the tally's lock, so a pod that passes fits beside
everything reserved. A victim that is given up becomes `Reserved` again, and
`Progress` says that those a task gives up after its evictions are marked; where an
eviction fails first, the node is `spared` if somebody has counted on that room.
`UsedAdd` and `UsedGrows` are about sums of requests, which
is why `Used` counts units: sums over sets by recursion are out of the prover's
reach, cardinalities are not.

Only model-checked: liveness (`CommittedIsAnnounced`, `EventuallyConsistent`,
`SyncRevisionConverges`, `VipIsPlaced`, `DriftHeals`), because reasoning from
fairness is beyond TLAPS 1.4.5. Every invariant, action property and refinement
that a passing run checks is proved.

## 5. Plan

Done: store, shards, watches, watch responses, service values, scheduler, pod
quota, key ring. Next, in this order:

1. `ListPages`: `list_sync` with limit, continue key and selector, continue tokens
   with pinned revision; a paged list followed by a watch from that revision
   converges.
2. `NamespaceLifecycle`: termination, guard, content deletion over `SqliteStore`'s
   fenced create; nothing is left behind, deletion ends; quota locks of a
   namespace that is created again.
3. Disruption budgets under concurrent evictions, forced deletion and finalizers
   of pods, added to `Scheduler`; its PVC waiters and backoff.
4. `Inflight` and watch permits; the certificate half of `rotation.rs`; the
   cut-over of the migration tool: crash-restart models.

### Not modelled

Most of the repository is tests, generated code and request handlers that turn
one document into another. Encoding, discovery, proxying, metrics and generated
code keep no state. Patch, server-side apply, CEL and schema validation are tree
algorithms on documents. Admission and authorization decide about one request;
their caches, CSR approval, bootstrap tokens and custom-resource conversion are
candidates after the plan above. In the modelled parts: scoring and the affinity,
topology, taint and volume predicates of the scheduler; scopes and the other
resource kinds of the quota; dual-stack family selection and dry-run of service
values; the contents of `sa.pub`, which nothing reads back.
