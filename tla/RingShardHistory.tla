-------------------------- MODULE RingShardHistory ---------------------------
(***************************************************************************)
(* One shard under every legal history of its resource type: keys are      *)
(* created, updated and deleted in any order, each write takes the next    *)
(* revision or skips some (revisions are shared with other types), and     *)
(* every event is pushed, as it is once the shard exists.                  *)
(***************************************************************************)
EXTENDS RingShard

CONSTANTS
  Keys,
  MaxRev,       \* bound: revisions handed out
  MaxSkip       \* bound: revisions taken by other types between two pushes

ASSUME HistoryAssumption == MaxRev \in Nat /\ MaxSkip \in Nat

VARIABLES
  shard,
  last,         \* history: the last event of every key; revision 0 is "none"
  rev,          \* the last revision handed out
  gone          \* history: highest revision that was pushed and left the ring

vars == <<shard, last, rev, gone>>

EventSet == [key : Keys, rev : Nat, op : {"put", "delete"}]

Exists(k) == last[k].op = "put"

InRing(r) == \E j \in 1 .. Len(shard.ring) : shard.ring[j].rev = r

Push(e) ==
  /\ e.rev <= MaxRev
  /\ shard' = PushIntoShard(shard, e)
  /\ last' = [last EXCEPT ![e.key] = e]
  /\ rev' = e.rev
  /\ gone' = LET before == {shard.ring[j].rev : j \in 1 .. Len(shard.ring)} \cup {e.rev}
                 after  == {shard'.ring[j].rev : j \in 1 .. Len(shard'.ring)}
             IN IF before \subseteq after THEN gone ELSE Max({gone, Min(before \ after)})

PutKey(k, skip) == Push([key |-> k, rev |-> rev + 1 + skip, op |-> "put"])

DeleteKey(k, skip) ==
  /\ Exists(k)
  /\ Push([key |-> k, rev |-> rev + 1 + skip, op |-> "delete"])

Init ==
  /\ shard = NewShard(0)
  /\ last = [k \in Keys |-> [key |-> k, rev |-> 0, op |-> "delete"]]
  /\ rev = 0
  /\ gone = 0

Next == \E k \in Keys, skip \in 0 .. MaxSkip : PutKey(k, skip) \/ DeleteKey(k, skip)

Spec == Init /\ [][Next]_vars

-------------------------------------------------------------------------------
\* The shard has its type, and the ring and both tiers of the deletion log
\* stay within RING_CAPACITY, FULL_TIER_CAP and STRIPPED_TIER_CAP.
TypeOK ==
  /\ shard.ring \in Seq(EventSet)
  /\ Len(shard.ring) <= RingCapacity
  /\ shard.horizon \in 0 .. rev
  /\ DOMAIN shard.byKey \subseteq Keys
  /\ Cardinality(DOMAIN shard.byKey) <= StrippedTierCap
  /\ Cardinality(shard.full) <= FullTierCap

\* The three indices of the deletion log describe the same entries: by_key
\* and by_revision are inverse to each other, full_revisions names only
\* entries that exist, and bodies are kept for the newest deletions.  The
\* shard keeps its type and its caps.
IndicesAgree ==
  /\ TypeOK
  /\ \A k \in DOMAIN shard.byKey :
       shard.byKey[k] \in DOMAIN shard.byRev /\ shard.byRev[shard.byKey[k]] = k
  /\ \A r \in DOMAIN shard.byRev :
       shard.byRev[r] \in DOMAIN shard.byKey /\ shard.byKey[shard.byRev[r]] = r
  /\ shard.full \subseteq DOMAIN shard.byRev
  /\ \A f \in shard.full, r \in DOMAIN shard.byRev \ shard.full : r < f

\* A client that saw everything up to `from' and is not told Compacted finds
\* every later event in the ring: whatever was pushed and has left the ring
\* lies below the floor, and a `from' below the floor is refused.
NothingLostAboveFloor == gone > 0 => gone < shard.horizon

\* A tombstone never speaks of a key that exists, and carries the revision
\* of the key's last event: a replayed DELETED cannot remove an object that
\* has been created again.
TombstonesAreCurrent ==
  \A k \in DOMAIN shard.byKey : ~Exists(k) /\ shard.byKey[k] = last[k].rev

\* Every deletion still in the ring and not undone has its tombstone with the
\* body: the first tier is as large as the ring, so a watcher that is told
\* Compacted first gets, in full, the deletions it could have replayed.
RingDeletionsKeepBodies ==
  \A k \in Keys : last[k].rev > 0 /\ ~Exists(k) /\ InRing(last[k].rev) => last[k].rev \in shard.full

\* STRIPPED_TIER_CAP's comment: a tombstone the log had to forget belongs to a
\* deletion below the floor, so a watcher that would have needed it is told
\* Compacted and "never a silently missed DELETE".
ForgottenDeletionsExpire ==
  \A k \in Keys :
    last[k].rev > 0 /\ ~Exists(k) /\ k \notin DOMAIN shard.byKey => last[k].rev < shard.horizon
===============================================================================
