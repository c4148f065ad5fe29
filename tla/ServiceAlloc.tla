----------------------------- MODULE ServiceAlloc -----------------------------
(***************************************************************************)
(* Reservation of cluster IPs and node ports (service_alloc.rs), together  *)
(* with the Service handlers that drive it (handlers/resource.rs) and the  *)
(* start-up repair.  A reservation is a create-only sentinel key: every    *)
(* store call is one atomic step, and other requests run between any two   *)
(* of them.  A value stands for one IP or one port: both kinds go through  *)
(* the same sentinels.                                                     *)
(*                                                                         *)
(* A request is one handler invocation: create, update (PUT, PATCH and     *)
(* server-side apply), delete, collection (one object of a                 *)
(* DeleteCollection) or drain (the deletion that completes when the last   *)
(* finalizer goes).                                                        *)
(***************************************************************************)
EXTENDS Naturals, FiniteSets

CONSTANTS
  Services,
  Values,
  Owner,        \* Owner[v]: the Service v is kept for from the boot on, or Nobody
  Nobody,
  Seeds,        \* the Service that the start-up stores itself, one of these
  Finalized,    \* the Services that carry a finalizer until it is drained
  Requests,     \* handler invocations that may be in flight together
  Races,        \* what clients do concurrently: see below
  MaxRev        \* bound: store revisions of Service objects

(* Races says which of these occur:                                        *)
(*   "overlap"  a deletion of a Service beside another write of it;        *)
(*   "blind"    a PUT without a resourceVersion, which is stored over      *)
(*              whatever is there by then;                                 *)
(*   "cancel"   the client of a write disconnects while its put runs: the  *)
(*              transaction is dropped and the put lands;                  *)
(*   "reseed"   the Service that the start-up stores itself is deleted.    *)
(* A client may disconnect at any other point in any case.                 *)
AllRaces == {"overlap", "blind", "cancel", "reseed"}

ASSUME ServiceAllocConstants ==
  /\ Nobody \notin Services /\ IsFiniteSet(Services)
  /\ Owner \in [Values -> Services \cup {Nobody}]
  /\ Seeds \subseteq Services \cup {Nobody}
  /\ Finalized \subseteq Services
  /\ Races \subseteq AllRaces
  /\ MaxRev \in Nat \ {0}

VARIABLES
  svc,          \* stored Services: rev 0 is absent, marked is being deleted
  sentinel,     \* per value: "free", "plain" or "owned" (pre-reserved)
  req,          \* the requests in flight
  phase,        \* of the server: "down", "seed", "repair", "up"
  todo,         \* values the running start-up pass has not handled yet
  rev,          \* last store revision
  seeded,       \* the Service that the start-up stores (default/kubernetes), or Nobody
  lost          \* history: values whose reservation was abandoned since the start

vars == <<svc, sentinel, req, phase, todo, rev, seeded, lost>>

Absent == [rev |-> 0, vals |-> {}, marked |-> FALSE]
Idle == [pc |-> "idle", op |-> "create", svc |-> Nobody, exp |-> 0,
         old |-> {}, want |-> {}, auto |-> FALSE, created |-> {}, stale |-> {}]

Stored(s) == svc[s].rev # 0
Holders(v) == {s \in Services : Stored(s) /\ v \in svc[s].vals}
Free == {v \in Values : sentinel[v] = "free"}

Deletions == {"delete", "collection", "drain"}

\* Whether the clients send a request with operation op on s now.
Sent(s, op) ==
  /\ op \in Deletions /\ s = seeded => "reseed" \in Races
  /\ \/ "overlap" \in Races
     \/ \A r \in Requests : req[r].svc = s => {op, req[r].op} \cap Deletions = {}

\* The cluster IP of a Service is immutable, except that changing its type to
\* ExternalName drops it: without overlaps nobody does that to a bootstrap one.
KeepsVip(s, want) ==
  \/ "overlap" \in Races
  \/ \A v \in svc[s].vals : Owner[v] = s => v \in want

Release(v) == sentinel' = [sentinel EXCEPT ![v] = "free"]

-------------------------------------------------------------------------------
(* Handlers up to the store write.                                         *)

\* What begin() needs to reserve: the wanted values not already in the spec.
Missing(r) == (req[r].want \ req[r].old) \ req[r].created

StartCreate(r, s, want, auto) ==
  /\ phase = "up" /\ req[r].pc = "idle" /\ Sent(s, "create")
  /\ req' = [req EXCEPT ![r] = [Idle EXCEPT !.pc = "reserve", !.svc = s,
                                            !.want = want, !.auto = auto]]
  /\ UNCHANGED <<svc, sentinel, phase, todo, rev, seeded, lost>>

\* The handler has read the stored Service; a blind PUT states no revision.
StartUpdate(r, s, want, auto, blind) ==
  /\ phase = "up" /\ req[r].pc = "idle" /\ Stored(s) /\ Sent(s, "update") /\ KeepsVip(s, want)
  /\ blind => "blind" \in Races
  /\ req' = [req EXCEPT ![r] =
       [Idle EXCEPT !.pc = "reserve", !.op = "update", !.svc = s,
                    !.exp = IF blind THEN 0 ELSE svc[s].rev,
                    !.old = svc[s].vals, !.want = want, !.auto = auto]]
  /\ UNCHANGED <<svc, sentinel, phase, todo, rev, seeded, lost>>

\* allocate_next_port, allocate_service_ip: a value that nobody holds.
AllocateNext(r, v) ==
  /\ req[r].pc = "reserve" /\ req[r].auto /\ v \in Free
  /\ sentinel' = [sentinel EXCEPT ![v] = "plain"]
  /\ req' = [req EXCEPT ![r].auto = FALSE, ![r].created = @ \cup {v},
                        ![r].want = @ \cup {v}]
  /\ UNCHANGED <<svc, phase, todo, rev, seeded, lost>>

\* The sentinel is put without the create-only precondition.
Bug_PutUnconditionally(r, v) ==
  /\ req[r].pc = "reserve" /\ v \in Missing(r) /\ sentinel[v] # "owned"
  /\ sentinel' = [sentinel EXCEPT ![v] = "plain"]
  /\ req' = [req EXCEPT ![r].created = @ \cup {v}]
  /\ UNCHANGED <<svc, phase, todo, rev, seeded, lost>>

\* reserve: a preset value is taken, or was reserved ahead for this Service.
Reserve(r, v) ==
  /\ req[r].pc = "reserve" /\ v \in Missing(r) /\ sentinel[v] = "free"
  /\ sentinel' = [sentinel EXCEPT ![v] = "plain"]
  /\ req' = [req EXCEPT ![r].created = @ \cup {v}]
  /\ UNCHANGED <<svc, phase, todo, rev, seeded, lost>>

\* Any owner will do.
Bug_AnyOwner(r, v) == sentinel[v] = "owned"

PreReserved(r, v) == sentinel[v] = "owned" /\ Owner[v] = req[r].svc

\* The client disconnects while the put of a sentinel runs: it lands, and the
\* transaction that is dropped does not know of it.
ReserveUnseen(r, v) ==
  /\ req[r].pc = "reserve" /\ v \in Free /\ (req[r].auto \/ v \in Missing(r))
  /\ sentinel' = [sentinel EXCEPT ![v] = "plain"]
  /\ req' = [req EXCEPT ![r].pc = "drop"]
  /\ lost' = lost \cup {v}
  /\ UNCHANGED <<svc, phase, todo, rev, seeded>>

\* A preset value someone else holds, a full range or a failing write: the
\* transaction is dropped and a spawned task gives back what it reserved.  A
\* client that disconnects here drops it the same way.
Reject(r) ==
  /\ req[r].pc \in {"reserve", "write"} /\ req[r].op \notin Deletions
  /\ req' = [req EXCEPT ![r].pc = "drop"]
  /\ UNCHANGED <<svc, sentinel, phase, todo, rev, seeded, lost>>

\* Everything the stored spec lists is taken for stale.
Bug_ReleaseAllOld(r) ==
  /\ req[r].pc = "reserve" /\ ~req[r].auto
  /\ \A v \in Missing(r) : PreReserved(r, v)
  /\ req' = [req EXCEPT ![r].pc = "write", ![r].stale = req[r].old]
  /\ UNCHANGED <<svc, sentinel, phase, todo, rev, seeded, lost>>

\* begin() is done: what the Service no longer lists is stale.
Reserved(r) ==
  /\ req[r].pc = "reserve" /\ ~req[r].auto
  /\ \A v \in Missing(r) : PreReserved(r, v)
  /\ req' = [req EXCEPT ![r].pc = "write", ![r].stale = req[r].old \ req[r].want]
  /\ UNCHANGED <<svc, sentinel, phase, todo, rev, seeded, lost>>

-------------------------------------------------------------------------------
(* The store write, and what follows it.                                   *)

Put(s, vals, marked) ==
  /\ rev < MaxRev
  /\ rev' = rev + 1
  /\ svc' = [svc EXCEPT ![s] = [rev |-> rev + 1, vals |-> vals, marked |-> marked]]

\* The request goes on to commit, or its client has gone and the transaction is
\* dropped although the put has landed.
Landed(r) ==
  \E pc \in {"commit"} \cup (IF "cancel" \in Races THEN {"drop"} ELSE {}) :
    req' = [req EXCEPT ![r].pc = pc, ![r].created = IF pc = "commit" THEN {} ELSE @]

\* POST writes the object and commits on a spawned task (create_committing), a
\* PUT or apply that creates does not.  A blind PUT that meant to create stores
\* its object over a Service created meanwhile (update_after_lost_create_race).
WriteCreate(r) ==
  /\ req[r].pc = "write" /\ req[r].op = "create"
  /\ Stored(req[r].svc) => "blind" \in Races
  /\ Put(req[r].svc, req[r].want, FALSE)
  /\ Landed(r)
  /\ UNCHANGED <<sentinel, phase, todo, seeded, lost>>

\* The name is taken: POST answers 409 and drops the transaction.
CreateConflict(r) ==
  /\ req[r].pc = "write" /\ req[r].op = "create" /\ Stored(req[r].svc)
  /\ req' = [req EXCEPT ![r].pc = "drop"]
  /\ UNCHANGED <<svc, sentinel, phase, todo, rev, seeded, lost>>

\* The name came from generateName: the same transaction tries another one.
CreateRetry(r, s) ==
  /\ req[r].pc = "write" /\ req[r].op = "create" /\ Stored(req[r].svc)
  /\ Sent(s, "create") /\ \A v \in req[r].want : sentinel[v] # "owned"
  /\ req' = [req EXCEPT ![r].svc = s]
  /\ UNCHANGED <<svc, sentinel, phase, todo, rev, seeded, lost>>

\* A server-side apply that lost the create race, and a PATCH whose revision
\* is no longer the stored one, roll back and start over from a new read.
RollbackAndRetry(r) ==
  /\ req[r].pc = "write"
  /\ IF req[r].op = "create" THEN Stored(req[r].svc)
                             ELSE req[r].exp # 0 /\ req[r].exp # svc[req[r].svc].rev
  /\ req' = [req EXCEPT ![r].pc = "rollback", ![r].stale = {}]
  /\ UNCHANGED <<svc, sentinel, phase, todo, rev, seeded, lost>>

Retry(r) ==
  LET s == req[r].svc IN
  /\ req[r].pc = "rollback" /\ req[r].created = {}
  /\ req' = [req EXCEPT ![r] =
       IF Stored(s) /\ KeepsVip(s, req[r].want)
                    THEN [@ EXCEPT !.pc = "reserve", !.op = "update", !.exp = svc[s].rev,
                                   !.old = svc[s].vals]
                    ELSE Idle]
  /\ UNCHANGED <<svc, sentinel, phase, todo, rev, seeded, lost>>

CanPut(r) == req[r].exp = 0 \/ req[r].exp = svc[req[r].svc].rev

WriteUpdate(r) ==
  /\ req[r].pc = "write" /\ req[r].op = "update" /\ CanPut(r)
  /\ Put(req[r].svc, req[r].want, svc[req[r].svc].marked)
  /\ Landed(r)
  /\ UNCHANGED <<sentinel, phase, todo, seeded, lost>>

\* The 409 returns without dropping the transaction.
Bug_ForgetTxn(r) ==
  /\ req[r].pc = "write" /\ req[r].op = "update" /\ ~CanPut(r)
  /\ req' = [req EXCEPT ![r] = Idle]
  /\ UNCHANGED <<svc, sentinel, phase, todo, rev, seeded, lost>>

UpdateConflict(r) ==
  /\ req[r].pc = "write" /\ req[r].op = "update" /\ ~CanPut(r)
  /\ req' = [req EXCEPT ![r].pc = "drop"]
  /\ UNCHANGED <<svc, sentinel, phase, todo, rev, seeded, lost>>

\* One delete_sentinel of a rollback or of a dropped transaction.
GiveBack(r, v) ==
  /\ req[r].pc \in {"drop", "rollback"} /\ v \in req[r].created
  /\ Release(v)
  /\ req' = [req EXCEPT ![r].created = @ \ {v}]
  /\ UNCHANGED <<svc, phase, todo, rev, seeded, lost>>

\* One delete_sentinel of commit, or of release_service_allocations.
ReleaseStale(r, v) ==
  /\ req[r].pc = "commit" /\ v \in req[r].stale
  /\ Release(v)
  /\ req' = [req EXCEPT ![r].stale = @ \ {v}]
  /\ UNCHANGED <<svc, phase, todo, rev, seeded, lost>>

\* What r reserved and has not stored yet, or is about to release.
Settling(r) == IF req[r].pc = "commit" THEN req[r].stale ELSE req[r].created

\* The client disconnects during commit, rollback or the release after a
\* deletion.  The list is out of the transaction, so nobody goes on with it.
Abandon(r) ==
  /\ req[r].pc \in {"commit", "rollback"}
  /\ lost' = lost \cup {v \in Settling(r) : sentinel[v] = "plain"}
  /\ req' = [req EXCEPT ![r] = Idle]
  /\ UNCHANGED <<svc, sentinel, phase, todo, rev, seeded>>

Finish(r) ==
  /\ \/ req[r].pc = "commit" /\ req[r].stale = {}
     \/ req[r].pc = "drop" /\ req[r].created = {}
  /\ req' = [req EXCEPT ![r] = Idle]
  /\ UNCHANGED <<svc, sentinel, phase, todo, rev, seeded, lost>>

-------------------------------------------------------------------------------
(* Deletion.                                                               *)

\* "drain": a write took the last finalizer off an object being deleted.
StartDelete(r, s, op) ==
  /\ phase = "up" /\ req[r].pc = "idle" /\ Stored(s) /\ Sent(s, op)
  /\ op = "drain" => svc[s].marked
  /\ req' = [req EXCEPT ![r] = [Idle EXCEPT !.pc = "write", !.op = op, !.svc = s,
                                            !.exp = svc[s].rev, !.old = svc[s].vals]]
  /\ UNCHANGED <<svc, sentinel, phase, todo, rev, seeded, lost>>

\* The object goes, whatever its revision, and then what the read spec lists.
\* A collection tolerates that the object is gone and releases all the same.
HardDelete(r) ==
  LET s == req[r].svc IN
  /\ req[r].pc = "write" /\ req[r].op \in Deletions
  /\ req[r].op = "drain" \/ s \notin Finalized
  /\ svc' = [svc EXCEPT ![s] = Absent]
  /\ req' = [req EXCEPT ![r] = IF Stored(s) \/ req[r].op = "collection"
                               THEN [@ EXCEPT !.pc = "commit", !.stale = req[r].old]
                               ELSE Idle]
  /\ UNCHANGED <<sentinel, phase, todo, rev, seeded, lost>>

\* An object with finalizers is only marked: the spec that was read is stored
\* again, blindly by a collection; DELETE states the revision it read, and
\* reads again when that one is no longer stored.
SoftDelete(r) ==
  LET s == req[r].svc IN
  /\ req[r].pc = "write" /\ req[r].op \in Deletions \ {"drain"} /\ s \in Finalized
  /\ IF req[r].op = "collection" \/ CanPut(r)
     THEN Put(s, req[r].old, TRUE) /\ req' = [req EXCEPT ![r] = Idle]
     ELSE /\ req' = [req EXCEPT ![r] = IF Stored(s) THEN [@ EXCEPT !.exp = svc[s].rev,
                                                                  !.old = svc[s].vals]
                                                   ELSE Idle]
          /\ UNCHANGED <<svc, rev>>
  /\ UNCHANGED <<sentinel, phase, todo, seeded, lost>>

-------------------------------------------------------------------------------
(* Crash, and the start-up pass that runs before the server listens.       *)

Crash ==
  /\ phase # "down"
  /\ phase' = "down"
  /\ req' = [r \in Requests |-> Idle]
  /\ todo' = {} /\ lost' = {}
  /\ UNCHANGED <<svc, sentinel, rev, seeded>>

\* seed_services: first the Service of the start-up itself is stored, unless it
\* is there, whatever has become of its values.
StoreSeeded ==
  /\ phase = "down"
  /\ phase' = "seed"
  /\ todo' = {v \in Values : Owner[v] # Nobody}
  /\ IF seeded = Nobody \/ Stored(seeded)
     THEN UNCHANGED <<svc, rev>>
     ELSE Put(seeded, {v \in Values : Owner[v] = seeded}, FALSE)
  /\ UNCHANGED <<sentinel, req, seeded, lost>>

\* Then every bootstrap value gets its owned sentinel unless some sentinel is
\* there; the start fails, which is a Crash, when another Service lists the value
\* (check_seed_sentinel_holder).
SeedSentinel(v) ==
  /\ phase = "seed" /\ v \in todo
  /\ sentinel[v] # "free" => Holders(v) \subseteq {Owner[v]}
  /\ sentinel' = [sentinel EXCEPT ![v] = IF @ = "free" THEN "owned" ELSE @]
  /\ todo' = todo \ {v}
  /\ UNCHANGED <<svc, req, phase, rev, seeded, lost>>

StartRepair ==
  /\ phase = "seed" /\ todo = {}
  /\ phase' = "repair"
  /\ todo' = Values
  /\ UNCHANGED <<svc, sentinel, req, rev, seeded, lost>>

\* repair, one value at a time: seed a held value's missing sentinel, delete
\* a plain sentinel that no Service holds.
Repair(v) ==
  /\ phase = "repair" /\ v \in todo
  /\ sentinel' = [sentinel EXCEPT ![v] =
       CASE Holders(v) # {} /\ @ = "free"  -> "plain"
         [] Holders(v) = {} /\ @ = "plain" -> "free"
         [] OTHER -> @]
  /\ todo' = todo \ {v}
  /\ UNCHANGED <<svc, req, phase, rev, seeded, lost>>

Listen ==
  /\ phase = "repair" /\ todo = {}
  /\ phase' = "up"
  /\ UNCHANGED <<svc, sentinel, req, todo, rev, seeded, lost>>

-------------------------------------------------------------------------------
\* The first start: Services stored before reservations were kept hold
\* distinct values, and none of them a bootstrap value of another Service.
Init ==
  /\ svc \in [Services -> {Absent} \cup [rev : {1}, vals : SUBSET Values, marked : {FALSE}]]
  /\ \A v \in Values : Cardinality(Holders(v)) <= 1
  /\ \A v \in Values : Owner[v] # Nobody => Holders(v) \subseteq {Owner[v]}
  /\ sentinel = [v \in Values |-> "free"]
  /\ req = [r \in Requests |-> Idle]
  /\ phase = "down"
  /\ todo = {} /\ lost = {}
  /\ rev = 1
  /\ seeded \in Seeds

RequestStep(r) ==
  \/ \E s \in Services, want \in SUBSET Values, auto \in BOOLEAN :
        \/ StartCreate(r, s, want, auto)
        \/ \E blind \in BOOLEAN : StartUpdate(r, s, want, auto, blind)
  \/ \E s \in Services, op \in Deletions : StartDelete(r, s, op)
  \/ \E s \in Services : CreateRetry(r, s)
  \/ \E v \in Values :
        \/ AllocateNext(r, v) \/ Reserve(r, v) \/ ReserveUnseen(r, v)
        \/ GiveBack(r, v) \/ ReleaseStale(r, v)
  \/ Reject(r) \/ Reserved(r)
  \/ WriteCreate(r) \/ CreateConflict(r) \/ RollbackAndRetry(r) \/ Retry(r)
  \/ WriteUpdate(r) \/ UpdateConflict(r)
  \/ HardDelete(r) \/ SoftDelete(r)
  \/ Abandon(r) \/ Finish(r)

Next ==
  \/ \E r \in Requests : RequestStep(r)
  \/ Crash \/ StoreSeeded \/ StartRepair \/ Listen
  \/ \E v \in Values : SeedSentinel(v) \/ Repair(v)

Spec == Init /\ [][Next]_vars

-------------------------------------------------------------------------------
Request ==
  [pc : {"idle", "reserve", "write", "commit", "drop", "rollback"},
   op : {"create", "update"} \cup Deletions,
   svc : Services \cup {Nobody}, exp : 0 .. MaxRev, old : SUBSET Values,
   want : SUBSET Values, auto : BOOLEAN, created : SUBSET Values, stale : SUBSET Values]

\* Every variable has its type, and a transaction only reserves what the spec
\* about to be stored lists.
TypeOK ==
  /\ svc \in [Services -> [rev : 0 .. MaxRev, vals : SUBSET Values, marked : BOOLEAN]]
  /\ sentinel \in [Values -> {"free", "plain", "owned"}]
  /\ req \in [Requests -> Request]
  /\ \A r \in Requests : req[r].created \subseteq req[r].want
  /\ phase \in {"down", "seed", "repair", "up"}
  /\ todo \subseteq Values /\ lost \subseteq Values
  /\ rev \in 1 .. MaxRev
  /\ seeded \in Services \cup {Nobody}

\* "Two Services can never hold the same VIP or node port" (service_alloc.rs
\* 3-4), whatever the requests, crashes and repair passes in between, as long as
\* the Service that a start stores finds its values unused (the reseed race).
NeverSharedValue == \A v \in Values : Cardinality(Holders(v)) <= 1

\* While the server serves, whatever a stored Service lists is reserved: no
\* commit, rollback, dropped transaction or deletion releases another
\* Service's value, and repair has reserved what earlier versions did not.
HeldIsReserved ==
  phase = "up" => \A v \in Values : Holders(v) # {} => sentinel[v] # "free"

\* No reservation leaks but what a client abandoned that disconnected during
\* the put or the release of a sentinel: while the server serves, any other
\* plain sentinel belongs to a stored Service or to a request that is still
\* going to settle it, and what a crash or a disconnect left behind before the
\* start has been released by its repair.
NothingLeaks ==
  phase = "up" => \A v \in Values \ lost : sentinel[v] = "plain" =>
     Holders(v) # {} \/ \E r \in Requests : v \in Settling(r)

\* "a handler future cancelled by a client disconnect cannot leak a VIP or node
\* port" (service_alloc.rs 29-30).  TLC refutes it: a sentinel that lands after
\* its transaction is dropped, or is still to be released when the client of a
\* commit, rollback or deletion goes, stays until the next start.
DisconnectsLeakNothing == lost = {}

\* A value is settled by one request only: of two requests at work, no two
\* reserve or release the same value, so no release takes a value that
\* another request has just been granted.  The state keeps its type.
OneSettler ==
  /\ TypeOK
  /\ \A q, r \in Requests : q # r => Settling(q) \cap Settling(r) = {}
===============================================================================
