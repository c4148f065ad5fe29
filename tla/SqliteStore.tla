----------------------------- MODULE SqliteStore -----------------------------
(***************************************************************************)
(* The write and read paths of crates/store/src/sqlite.rs.                 *)
(*                                                                         *)
(* A writer (put, create_if_namespace_active, delete,                      *)
(* delete_namespace_resources) takes the write_conn mutex, runs one SQLite *)
(* IMMEDIATE transaction, raises last_written_revision, hands every event  *)
(* of the transaction to push_event_locked and only then lets the mutex    *)
(* go.  These are separate steps here: readers run between them, and the   *)
(* process can die between them.                                           *)
(*                                                                         *)
(* A reader (get, list) reads a committed snapshot through the pool, then  *)
(* compares it with last_written_revision and possibly reads again: get    *)
(* through the write connection, under the mutex, list through the pool.   *)
(*                                                                         *)
(* A key is an opaque value.  A row holds the revision of the last write   *)
(* and a value; revision 0 stands for "no row".  For a namespace object    *)
(* the value is all that matters of its status.phase.                      *)
(***************************************************************************)
EXTENDS Naturals, Sequences, FiniteSets

CONSTANTS
  Writers,      \* callers of put, create, delete
  Readers,      \* callers of get and list, each with one call under way
  Keys,         \* object keys
  NsKeys,       \* the keys of Namespace objects
  NsOf,         \* NsOf[k]: key of the namespace k lives in, or NoNs
  NoNs,         \* "cluster-scoped"
  Values,       \* object bodies, up to metadata.resourceVersion
  NoVal,        \* the body of a row that does not exist
  Terminating,  \* the body of a Namespace whose phase is Terminating
  NoRev,        \* expected_revision = None
  Free,         \* nobody holds the write_conn mutex
  MaxRev,       \* bound: revisions handed out
  MaxCrashes    \* bound: process restarts

ASSUME ConstantsAssumption ==
  /\ NsKeys \subseteq Keys
  /\ NsOf \in [Keys -> NsKeys \cup {NoNs}]
  /\ Terminating \in Values
  /\ NoVal \notin Values
  /\ NoRev \notin Nat
  /\ Free \notin Writers
  /\ MaxRev \in Nat
  /\ MaxCrashes \in Nat
  /\ IsFiniteSet(Keys)

VARIABLES
  objects,      \* table objects: key -> [rev, val]
  revision,     \* meta.revision
  log,          \* history: log[r] is the event of revision r
  lastWritten,  \* last_written_revision
  holder,       \* who holds write_conn, or Free
  bumped,       \* the holder has raised last_written_revision
  pending,      \* committed events the holder has yet to push
  stream,       \* everything sent on the broadcast channel by this process
  base,         \* history: Len(log) when this process opened the database
  reader,       \* the read each reader has under way, or its last answer
  acked,        \* history: highest revision returned to a caller
  crashes       \* restarts so far

durable == <<objects, revision, log>>
memory  == <<lastWritten, holder, bumped, pending, stream>>
vars    == <<durable, memory, base, reader, acked, crashes>>

-------------------------------------------------------------------------------
(* Rows, events and reads.                                                  *)

Row    == [rev : Nat, val : Values \cup {NoVal}]
NoRow  == [rev |-> 0, val |-> NoVal]

\* InternalEvent: val = NoVal is `value: None', a tombstone.  `fenced' marks
\* the events of create_if_namespace_active.
Event == [key : Keys, rev : Nat, val : Values \cup {NoVal},
          isCreate : BOOLEAN, fenced : BOOLEAN]

Abs == INSTANCE RevisionLog
         WITH Event <- Event, log <- log, stream <- stream, base <- base

\* The row of key k after the first r events of the log.
RowAt(k, r) ==
  LET touching == {i \in 1 .. r : log[i].key = k}
      last     == CHOOSE i \in touching : \A j \in touching : j <= i
  IN IF touching = {} \/ log[last].val = NoVal
     THEN NoRow
     ELSE [rev |-> last, val |-> log[last].val]

Reader == [pc   : {"idle", "guard", "retry"},
           op   : {"get", "list"},
           want : SUBSET Keys,      \* {key} for get, the prefix's keys for list
           got  : [Keys -> Row],    \* rows read; NoRow outside want
           rev  : Nat,              \* ListResponse.revision
           must : Nat]              \* history: acked when the guard looked

NoRead == [pc |-> "idle", op |-> "get", want |-> {},
           got |-> [k \in Keys |-> NoRow], rev |-> 0, must |-> 0]

-------------------------------------------------------------------------------
(* put_sync, delete_sync and create_if_namespace_active_sync decide what to *)
(* do from the stored row, the new body and expected_revision.  Every       *)
(* verdict but "write" rolls the transaction back and changes nothing.      *)

\* A body equal to the stored one is written all the same.
Bug_NoNoopCheck(row, v, exp) ==
  CASE exp = 0 /\ row.rev # 0             -> "AlreadyExists"
    [] exp \notin {NoRev, 0, row.rev}     -> "RevisionMismatch"
    [] OTHER                              -> "write"

PutVerdict(row, v, exp) ==
  CASE exp = 0 /\ row.rev # 0             -> "AlreadyExists"
    [] exp \notin {NoRev, 0, row.rev}     -> "RevisionMismatch"
    [] OTHER -> IF row.rev # 0 /\ v = row.val THEN "noop" ELSE "write"

DeleteVerdict(row, exp) ==
  IF row.rev = 0 THEN "NotFound"
  ELSE IF exp \notin {NoRev, 0, row.rev} THEN "RevisionMismatch"
  ELSE "write"

\* The phase is not looked at.
Bug_NoPhaseCheck(nsRow, row) ==
  IF nsRow.rev = 0 THEN "NamespaceNotFound"
  ELSE IF row.rev # 0 THEN "AlreadyExists"
  ELSE "write"

CreateVerdict(nsRow, row) ==
  IF nsRow.rev = 0 THEN "NamespaceNotFound"
  ELSE IF nsRow.val = Terminating THEN "NamespaceTerminating"
  ELSE IF row.rev # 0 THEN "AlreadyExists"
  ELSE "write"

-------------------------------------------------------------------------------
(* Writers.                                                                 *)

\* The upsert leaves the revision column of an existing row as it was.
Bug_KeepRevisionColumn(c, batch) ==
  /\ holder = Free
  /\ revision + Len(batch) <= MaxRev
  /\ holder' = c
  /\ bumped' = FALSE
  /\ pending' = batch
  /\ log' = log \o batch
  /\ revision' = revision + Len(batch)
  /\ objects' = [k \in Keys |->
        IF \E i \in 1 .. Len(batch) : batch[i].key = k
        THEN LET e == batch[CHOOSE i \in 1 .. Len(batch) : batch[i].key = k]
             IN IF e.val = NoVal THEN NoRow
                ELSE [rev |-> IF objects[k].rev = 0 THEN e.rev ELSE objects[k].rev, val |-> e.val]
        ELSE objects[k]]
  /\ UNCHANGED <<lastWritten, stream, base, reader, acked, crashes>>

\* One committed transaction: the batch takes the next revisions, the rows
\* change, and the mutex stays with c until the batch has been pushed.
Commit(c, batch) ==
  /\ holder = Free
  /\ revision + Len(batch) <= MaxRev
  /\ holder' = c
  /\ bumped' = FALSE
  /\ pending' = batch
  /\ log' = log \o batch
  /\ revision' = revision + Len(batch)
  /\ objects' = [k \in Keys |->
        IF \E i \in 1 .. Len(batch) : batch[i].key = k
        THEN LET e == batch[CHOOSE i \in 1 .. Len(batch) : batch[i].key = k]
             IN IF e.val = NoVal THEN NoRow ELSE [rev |-> e.rev, val |-> e.val]
        ELSE objects[k]]
  /\ UNCHANGED <<lastWritten, stream, base, reader, acked, crashes>>

Put(c, k, v, exp) ==
  /\ PutVerdict(objects[k], v, exp) = "write"
  /\ Commit(c, << [key |-> k, rev |-> revision + 1, val |-> v,
                   isCreate |-> objects[k].rev = 0, fenced |-> FALSE] >>)

CreateIfNamespaceActive(c, k, v) ==
  /\ CreateVerdict(IF NsOf[k] = NoNs THEN [rev |-> 1, val |-> NoVal]
                                     ELSE objects[NsOf[k]],
                   objects[k]) = "write"
  /\ Commit(c, << [key |-> k, rev |-> revision + 1, val |-> v,
                   isCreate |-> TRUE, fenced |-> TRUE] >>)

Delete(c, k, exp) ==
  /\ DeleteVerdict(objects[k], exp) = "write"
  /\ Commit(c, << [key |-> k, rev |-> revision + 1, val |-> NoVal,
                   isCreate |-> FALSE, fenced |-> FALSE] >>)

\* The whole namespace is deleted under one shared revision.
Bug_SharedRevision(c, ns) ==
  LET doomed == {k \in Keys : NsOf[k] = ns /\ objects[k].rev # 0}
      n      == Cardinality(doomed)
  IN /\ doomed # {}
     /\ \E order \in [1 .. n -> doomed] :
          /\ \A i, j \in 1 .. n : order[i] = order[j] => i = j
          /\ Commit(c, [i \in 1 .. n |->
               [key |-> order[i], rev |-> revision + 1, val |-> NoVal,
                isCreate |-> FALSE, fenced |-> FALSE]])

\* Every row of the namespace, in whatever order SQLite returns them, each
\* with a revision of its own, in one transaction.
DeleteNamespaceResources(c, ns) ==
  LET doomed == {k \in Keys : NsOf[k] = ns /\ objects[k].rev # 0}
      n      == Cardinality(doomed)
  IN /\ doomed # {}
     /\ \E order \in [1 .. n -> doomed] :
          /\ \A i, j \in 1 .. n : order[i] = order[j] => i = j
          /\ Commit(c, [i \in 1 .. n |->
               [key |-> order[i], rev |-> revision + i, val |-> NoVal,
                isCreate |-> FALSE, fenced |-> FALSE]])

\* The counter runs one ahead of what is committed.
Bug_BumpPastCommit ==
  /\ holder # Free
  /\ ~bumped
  /\ bumped' = TRUE
  /\ lastWritten' = revision + 1
  /\ UNCHANGED <<durable, holder, pending, stream, base, reader, acked, crashes>>

\* last_written.fetch_max, right after COMMIT and before any event is pushed.
BumpLastWritten ==
  /\ holder # Free
  /\ ~bumped
  /\ bumped' = TRUE
  /\ lastWritten' = IF revision > lastWritten THEN revision ELSE lastWritten
  /\ UNCHANGED <<durable, holder, pending, stream, base, reader, acked, crashes>>

\* push_event_locked: the event is sent on the broadcast channel.
PushEventLocked ==
  /\ holder # Free
  /\ bumped
  /\ pending # <<>>
  /\ stream' = Append(stream, Head(pending))
  /\ pending' = Tail(pending)
  /\ UNCHANGED <<durable, lastWritten, holder, bumped, base, reader, acked, crashes>>

\* The mutex is let go before the last event has been pushed.
Bug_ReleaseBeforePush ==
  /\ holder # Free
  /\ bumped
  /\ holder' = Free
  /\ bumped' = FALSE
  /\ pending' = <<>>
  /\ acked' = revision
  /\ UNCHANGED <<durable, lastWritten, stream, base, reader, crashes>>

\* The blocking closure ends: the guard is dropped, the caller has its answer.
WriteReturns ==
  /\ holder # Free
  /\ bumped
  /\ pending = <<>>
  /\ holder' = Free
  /\ bumped' = FALSE
  /\ acked' = revision
  /\ UNCHANGED <<durable, lastWritten, pending, stream, base, reader, crashes>>

-------------------------------------------------------------------------------
(* Readers.                                                                 *)

Restricted(want) == [k \in Keys |-> IF k \in want THEN objects[k] ELSE NoRow]

\* get_sync or list_sync on a pool connection: one committed snapshot.
ReadPool(c, op, want) ==
  /\ reader[c].pc = "idle"
  /\ reader' = [reader EXCEPT ![c] =
        [pc |-> "guard", op |-> op, want |-> want,
         got |-> Restricted(want), rev |-> revision, must |-> 0]]
  /\ UNCHANGED <<durable, memory, base, acked, crashes>>

\* get believes a snapshot that has no row.
Bug_TrustAbsence(r) ==
  IF r.op = "list"
  THEN r.rev < lastWritten
  ELSE \E k \in r.want : r.got[k].rev # 0 /\ r.got[k].rev < lastWritten

\* What makes get and list distrust the snapshot they have.
Stale(r) ==
  IF r.op = "list"
  THEN r.rev < lastWritten
  ELSE \E k \in r.want :
         \/ r.got[k].rev # 0 /\ r.got[k].rev < lastWritten
         \/ r.got[k].rev = 0 /\ lastWritten > 0

\* last_written_revision is loaded after the pool read; the answer goes out
\* unless it may be stale.
ReadGuard(c) ==
  /\ reader[c].pc = "guard"
  /\ reader' = [reader EXCEPT
        ![c].pc   = IF Stale(reader[c]) THEN "retry" ELSE "idle",
        ![c].must = acked]
  /\ UNCHANGED <<durable, memory, base, acked, crashes>>

\* The second read.  get waits for the write_conn mutex, list goes back to
\* the pool and takes whatever is committed by then.
ReadRetry(c) ==
  /\ reader[c].pc = "retry"
  /\ reader[c].op = "get" => holder = Free
  /\ reader' = [reader EXCEPT
        ![c].pc  = "idle",
        ![c].got = Restricted(reader[c].want),
        ![c].rev = revision]
  /\ UNCHANGED <<durable, memory, base, acked, crashes>>

-------------------------------------------------------------------------------
(* The process dies and SqliteStore::new opens the file again: rows and     *)
(* meta.revision survive, everything in memory starts empty or at zero.     *)
Restart ==
  /\ crashes < MaxCrashes
  /\ crashes' = crashes + 1
  /\ lastWritten' = 0
  /\ holder' = Free
  /\ bumped' = FALSE
  /\ pending' = <<>>
  /\ stream' = <<>>
  /\ base' = Len(log)
  /\ reader' = [c \in Readers |-> NoRead]
  /\ UNCHANGED <<durable, acked>>

Init ==
  /\ objects = [k \in Keys |-> NoRow]
  /\ revision = 0
  /\ log = <<>>
  /\ lastWritten = 0
  /\ holder = Free
  /\ bumped = FALSE
  /\ pending = <<>>
  /\ stream = <<>>
  /\ base = 0
  /\ reader = [c \in Readers |-> NoRead]
  /\ acked = 0
  /\ crashes = 0

Write(c) ==
  \/ \E k \in Keys, v \in Values, exp \in {NoRev} \cup 0 .. revision : Put(c, k, v, exp)
  \/ \E k \in Keys, v \in Values : CreateIfNamespaceActive(c, k, v)
  \/ \E k \in Keys, exp \in {NoRev} \cup 0 .. revision : Delete(c, k, exp)
  \/ \E ns \in NsKeys : DeleteNamespaceResources(c, ns)

Read(c) ==
  \/ \E k \in Keys : ReadPool(c, "get", {k})
  \/ ReadPool(c, "list", Keys)
  \/ ReadGuard(c)
  \/ ReadRetry(c)

Next ==
  \/ \E c \in Writers : Write(c)
  \/ \E c \in Readers : Read(c)
  \/ BumpLastWritten
  \/ PushEventLocked
  \/ WriteReturns
  \/ Restart

\* The closure run by spawn_blocking has no early return after COMMIT, and a
\* dropped request does not stop it; a waiting reader gets the mutex in turn.
Fairness ==
  /\ WF_vars(BumpLastWritten)
  /\ WF_vars(PushEventLocked)
  /\ WF_vars(WriteReturns)

Spec == Init /\ [][Next]_vars

FairSpec == Spec /\ Fairness

-------------------------------------------------------------------------------
(* What must hold.                                                          *)

\* Every variable has its type, and the two counters kept in memory never
\* run ahead of meta.revision (last_written_revision, put's return value).
TypeOK ==
  /\ objects \in [Keys -> Row]
  /\ revision \in Nat
  /\ log \in Seq(Event)
  /\ lastWritten \in 0 .. revision
  /\ holder \in Writers \cup {Free}
  /\ bumped \in BOOLEAN
  /\ pending \in Seq(Event)
  /\ stream \in Seq(Event)
  /\ base \in Nat
  /\ reader \in [Readers -> Reader]
  /\ acked \in 0 .. revision
  /\ crashes \in Nat

\* What push_event_locked's comment asks of the mutex: what this process has
\* broadcast is the log from where the process started, in revision order,
\* with no revision missing and none twice, whatever writers interleave and
\* however many events one transaction makes.
StreamIsLog ==
  /\ base + Len(stream) <= Len(log)
  /\ \A i \in 1 .. Len(stream) :
       /\ stream[i] = log[base + i]
       /\ stream[i].rev = base + i

\* The strengthening that makes StreamIsLog inductive: what the holder has
\* yet to push is exactly the rest of the log, and nobody but the holder has
\* anything left to push.
PublishInv ==
  /\ revision = Len(log)
  /\ \A i \in 1 .. Len(log) : log[i].rev = i
  /\ base + Len(stream) + Len(pending) = Len(log)
  /\ \A i \in 1 .. Len(stream) : stream[i] = log[base + i]
  /\ \A i \in 1 .. Len(pending) : pending[i] = log[base + Len(stream) + i]
  /\ holder = Free => pending = <<>> /\ ~bumped

\* The rows are what the log says: each key holds the body and the revision
\* of the last event on it, also after a namespace was deleted in one
\* transaction and after restarts (objects.revision and meta.revision).
RowsReflectLog ==
  /\ revision = Len(log)
  /\ \A k \in Keys : objects[k] = RowAt(k, Len(log))
  /\ \A k \in Keys : objects[k].rev # 0 => log[objects[k].rev].rev = objects[k].rev

\* Read from first to last, the events of one key are a lifecycle a watcher
\* can follow: an ADDED only when the key was absent, a DELETED only when it
\* was present, and never an event whose body is what the key already held
\* (put_sync's no-op check, is_create, delete_sync's NotFound).
LifecycleWellFormed ==
  \A r \in 1 .. Len(log) :
    LET e == log[r]
        before == RowAt(e.key, r - 1)
    IN /\ e.isCreate <=> (before = NoRow /\ e.val # NoVal)
       /\ e.val # before.val

\* create_if_namespace_active never lands in a namespace that was absent or
\* Terminating at the moment its own revision was taken, so nothing it makes
\* can outlive the namespace's sweep.
FencedCreates ==
  \A r \in 1 .. Len(log) :
    log[r].fenced /\ NsOf[log[r].key] # NoNs =>
      LET ns == RowAt(NsOf[log[r].key], r - 1)
      IN ns # NoRow /\ ns.val # Terminating

\* An answer given by get or list is the state of the keys asked for at one
\* revision, no older than anything acknowledged to any caller when the
\* staleness guard ran; list's resourceVersion is that revision.
ReadsReflectAcknowledged ==
  \A c \in Readers :
    LET a == reader[c]
    IN a.pc = "idle" /\ a.want # {} =>
         \E r \in a.must .. Len(log) :
           /\ \A k \in a.want : a.got[k] = RowAt(k, r)
           /\ a.op = "list" => a.rev = r

\* The store implements the abstract log (see RevisionLog).
ImplementsRevisionLog == Abs!AbsSpec

\* Every committed revision is eventually broadcast, unless the process is
\* replaced first: nothing between COMMIT and tx.send can drop an event.
CommittedIsAnnounced ==
  \A r \in 1 .. MaxRev : Len(log) >= r ~> base + Len(stream) >= r
===============================================================================
