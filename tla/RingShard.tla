------------------------------ MODULE RingShard ------------------------------
(***************************************************************************)
(* One watch-history shard (RingShard in crates/store/src/sqlite.rs): the  *)
(* bounded ring of recent events, the floor below which history is gone,   *)
(* and the two-tier deletion log that outlives the ring.  Pure operators;  *)
(* RingShardHistory drives one shard, WatchCache a whole map of them.      *)
(*                                                                         *)
(* An event is [key, rev, op]; op = "delete" is a tombstone.  The deletion *)
(* log keeps the three indices of the code, because they are updated one   *)
(* by one and must not drift apart: byKey and byRev are functions on the   *)
(* keys and revisions present, full is the set of revisions whose entry    *)
(* still carries the deleted body.                                         *)
(***************************************************************************)
EXTENDS Naturals, Sequences, FiniteSets, FiniteSetsExt, Functions

CONSTANT RingCapacity   \* RING_CAPACITY

ASSUME RingCapacityAssumption == RingCapacity \in Nat \ {0}

FullTierCap     == RingCapacity
StrippedTierCap == 2 * RingCapacity

Empty == [x \in {} |-> x]

NewShard(floor) ==
  [ring |-> <<>>, horizon |-> floor, byKey |-> Empty, byRev |-> Empty, full |-> {}]

With(f, x, v) == [y \in DOMAIN f \cup {x} |-> IF y = x THEN v ELSE f[y]]
Without(f, S) == Restrict(f, DOMAIN f \ S)

-------------------------------------------------------------------------------
(* The ring half of push_into_shard.  Past the capacity the oldest event    *)
(* goes and the revision of the new oldest becomes the floor.               *)

\* The floor is left where it was when an event is evicted.
Bug_ForgetFloor(s, e) ==
  LET ring == Append(s.ring, e)
  IN IF Len(ring) > RingCapacity THEN [s EXCEPT !.ring = Tail(ring)]
     ELSE [s EXCEPT !.ring = ring]

PushRing(s, e) ==
  LET ring == Append(s.ring, e)
  IN IF Len(ring) > RingCapacity
     THEN [s EXCEPT !.ring = Tail(ring), !.horizon = Max({@, Tail(ring)[1].rev})]
     ELSE [s EXCEPT !.ring = ring]

(* The deletion-log half: a delete is remembered with its body, the oldest  *)
(* body is dropped past the first cap, the oldest entry past the second; a  *)
(* put means the key is back and its tombstone is removed.                  *)

Remember(s, e) ==
  [s EXCEPT !.byKey = With(@, e.key, e.rev),
            !.byRev = With(@, e.rev, e.key),
            !.full  = @ \cup {e.rev}]

\* One body too few is kept.
Bug_TightFullTier(s) ==
  IF Cardinality(s.full) >= FullTierCap
  THEN [s EXCEPT !.full = @ \ {Min(s.full)}]
  ELSE s

CapFullTier(s) ==
  IF Cardinality(s.full) > FullTierCap
  THEN [s EXCEPT !.full = @ \ {Min(s.full)}]
  ELSE s

\* The revision index keeps the entry.
Bug_LeakRevision(s) ==
  IF Cardinality(DOMAIN s.byKey) > StrippedTierCap
  THEN LET r == Min(DOMAIN s.byRev)
       IN [s EXCEPT !.byKey = Without(@, {s.byRev[r]}), !.full = @ \ {r}]
  ELSE s

\* The log forgets as early as the ring does.
Bug_ShortLog(s) ==
  IF Cardinality(DOMAIN s.byKey) >= RingCapacity
  THEN LET r == Min(DOMAIN s.byRev)
       IN [s EXCEPT !.byKey = Without(@, {s.byRev[r]}),
                    !.byRev = Without(@, {r}),
                    !.full  = @ \ {r}]
  ELSE s

CapStrippedTier(s) ==
  IF Cardinality(DOMAIN s.byKey) > StrippedTierCap
  THEN LET r == Min(DOMAIN s.byRev)
       IN [s EXCEPT !.byKey = Without(@, {s.byRev[r]}),
                    !.byRev = Without(@, {r}),
                    !.full  = @ \ {r}]
  ELSE s

\* A recreated key keeps its tombstone.
Bug_KeepTombstone(s, k) == s

Forget(s, k) ==
  IF k \in DOMAIN s.byKey
  THEN [s EXCEPT !.byKey = Without(@, {k}),
                 !.byRev = Without(@, {s.byKey[k]}),
                 !.full  = @ \ {s.byKey[k]}]
  ELSE s

PushIntoShard(s, e) ==
  LET r == PushRing(s, e)
  IN IF e.op = "put" THEN Forget(r, e.key)
     ELSE CapStrippedTier(CapFullTier(Remember(r, e)))

\* Only what the ring has evicted, not what goes with it.
Bug_EvictionFloorOnly(s) == s.horizon

\* preserve_reclaimed_horizon's floor of a shard about to be dropped.
FloorOf(s) ==
  IF s.ring = <<>> THEN s.horizon ELSE Max({s.horizon, s.ring[Len(s.ring)].rev})

===============================================================================
