---------------------------- MODULE WatchResponse -----------------------------
(***************************************************************************)
(* What a watch client is told, and when it may resume from it: the live   *)
(* loop of the store's watch stream (crates/store/src/sqlite.rs), with its *)
(* two broadcast channels and debounced bookmarks, under the loop of       *)
(* watch_generic_impl (crates/apiserver/src/handlers/watch.rs), with its   *)
(* selector bookkeeping, heartbeat and time-out.                           *)
(*                                                                         *)
(* The stream's history is complete (WatchCache is about when it is not).  *)
(* The resource is a built-in one, watched with bookmarks allowed and with *)
(* a selector; of a body only whether it matches the selector is kept.     *)
(* Besides the keys under the watched prefix there are writes in another   *)
(* namespace of the same type (Sibling) and to another type (Foreign).     *)
(***************************************************************************)
EXTENDS Naturals, Sequences, FiniteSetsExt

CONSTANTS
  Keys,               \* objects under the watched prefix
  Sibling, Foreign,   \* writes the watched prefix does not match
  BookmarkCapacity,   \* BOOKMARK_BROADCAST_CAPACITY
  MaxRev,             \* bound: revisions handed out
  MaxOpens            \* bound: watch requests

ASSUME ResponseConstants ==
  /\ Sibling # Foreign /\ {Sibling, Foreign} \cap Keys = {}
  /\ BookmarkCapacity \in Nat \ {0}
  /\ MaxRev \in Nat /\ MaxOpens \in Nat

VARIABLES
  log,          \* log[r]: the event of revision r
  lastWritten,  \* last_written_revision
  sent,         \* events sent on tx
  announced,    \* bookmarks sent on bookmark_tx
  stream,       \* the store's stream
  handler,      \* the handler's loop state
  client,       \* the client: its cache, and the revision it would resume from
  opens         \* watch requests so far

writerVars == <<log, lastWritten, sent, announced>>
vars == <<writerVars, stream, handler, client, opens>>

-------------------------------------------------------------------------------
(* The writer: commit, raise last_written_revision, send the event, send    *)
(* the bookmark, and only then let the next writer in.                      *)

Writes(k) == {i \in 1 .. Len(log) : log[i].key = k}
LastOf(k, r) == {i \in Writes(k) : i <= r}

\* Keys that exist and match the selector after revision r.
Scope(r) ==
  {k \in Keys : LastOf(k, r) # {} /\ log[Max(LastOf(k, r))].type # "DELETED"
                                  /\ log[Max(LastOf(k, r))].sel = "in"}

Exists(k) == Writes(k) # {} /\ log[Max(Writes(k))].type # "DELETED"

Commit(e) ==
  /\ announced = Len(log)
  /\ Len(log) < MaxRev
  /\ log' = Append(log, e)
  /\ UNCHANGED <<lastWritten, sent, announced, stream, handler, client, opens>>

Put(k, sel) ==
  Commit([key |-> k, type |-> IF Exists(k) THEN "MODIFIED" ELSE "ADDED", sel |-> sel,
          rev |-> Len(log) + 1])

\* deleted_body is the body the object had.
Delete(k) ==
  /\ Exists(k)
  /\ Commit([key |-> k, type |-> "DELETED", sel |-> log[Max(Writes(k))].sel,
             rev |-> Len(log) + 1])

Bump ==
  /\ lastWritten < Len(log)
  /\ lastWritten' = Len(log)
  /\ UNCHANGED <<log, sent, announced, stream, handler, client, opens>>

SendEvent ==
  /\ sent < lastWritten
  /\ sent' = sent + 1
  /\ UNCHANGED <<log, lastWritten, announced, stream, handler, client, opens>>

SendBookmark ==
  /\ announced < sent
  /\ announced' = announced + 1
  /\ UNCHANGED <<log, lastWritten, sent, stream, handler, client, opens>>

-------------------------------------------------------------------------------
(* What the handler makes of one event of the store's stream.               *)

\* An object that does not match is reported deleted, told of before or not.
Bug_IgnoreEverMatched(h, e) ==
  e.type = "MODIFIED" /\ e.key \notin h.locallyDeleted

\* should_emit_synthetic_delete, and the check of locally_deleted before it.
SyntheticDelete(h, e) ==
  /\ e.type = "MODIFIED"
  /\ e.key \in h.everMatched
  /\ e.key \notin h.locallyDeleted

\* The client drops the key; phantom records the keys it did not hold then.
Drop(c, e) ==
  [c EXCEPT !.rv = e.rev, !.cache = @ \ {e.key}, !.phantom = @ \cup ({e.key} \ c.cache)]

\* The object matches the selector: ADDED or MODIFIED.
Matching(h, c, e) ==
  << [h EXCEPT !.everMatched = @ \cup {e.key}, !.locallyDeleted = @ \ {e.key}],
     [c EXCEPT !.rv = e.rev, !.cache = @ \cup {e.key}] >>

\* It does not: a DELETED of the handler's own making, or nothing.
NotMatching(h, c, e) ==
  IF SyntheticDelete(h, e)
  THEN << [h EXCEPT !.everMatched = @ \ {e.key}, !.locallyDeleted = @ \cup {e.key}],
          Drop(c, e) >>
  ELSE << [h EXCEPT !.everMatched = @ \ {e.key}], c >>

\* A real deletion: redundant after a synthetic one, else told if the last body
\* matched.
Deleted(h, c, e) ==
  IF e.key \in h.locallyDeleted
  THEN << [h EXCEPT !.locallyDeleted = @ \ {e.key}], c >>
  ELSE << [h EXCEPT !.everMatched = @ \ {e.key}], IF e.sel = "in" THEN Drop(c, e) ELSE c >>

\* The handler's state and the client's after event e.
Handle(hc, e) ==
  LET h == [hc[1] EXCEPT !.lastRv = Max({@, e.rev})]
      c == hc[2]
  IN IF e.type = "DELETED" THEN Deleted(h, c, e)
     ELSE IF e.sel = "in" THEN Matching(h, c, e)
     ELSE NotMatching(h, c, e)

-------------------------------------------------------------------------------
(* Opening the watch.                                                       *)

\* queue: the revisions still to be replayed.  start: "initial" for a watch
\* with sendInitialEvents; for the others a history, "exact" if the client's
\* cache was right for the revision it gave.
NoStream  == [pc |-> "off", from |-> 0, cursor |-> 0, bookmarkCursor |-> 0, queue |-> {},
              lastReplayed |-> 0, bookmarkRv |-> 0, debounce |-> "unset", start |-> "stale"]
NoHandler == [everMatched |-> {}, locallyDeleted |-> {}, lastRv |-> 0]

\* The client lists the prefix with its selector (and will watch from there).
List ==
  /\ stream.pc = "off"
  /\ opens < MaxOpens
  /\ client' = [client EXCEPT !.cache = Scope(Len(log)), !.rv = Len(log)]
  /\ UNCHANGED <<writerVars, stream, handler, opens>>

\* A watch from the client's own revision, or one with sendInitialEvents, for
\* which the handler takes a list first.
Open(initial) ==
  LET from == IF initial THEN Len(log) ELSE client.rv
  IN /\ stream.pc = "off"
     /\ opens < MaxOpens
     /\ initial \/ client.rv > 0
     /\ opens' = opens + 1
     /\ stream' = [NoStream EXCEPT !.pc = "subscribe", !.from = from, !.lastReplayed = from,
                                   !.bookmarkRv = from,
                                   !.start = IF initial THEN "initial"
                                             ELSE IF client.cache = Scope(from) THEN "exact"
                                             ELSE "stale"]
     /\ handler' = [NoHandler EXCEPT !.lastRv = client.rv]
     /\ UNCHANGED <<writerVars, client>>

Subscribe ==
  /\ stream.pc = "subscribe"
  /\ stream' = [stream EXCEPT !.pc = "snapshot", !.cursor = sent + 1,
                              !.bookmarkCursor = announced + 1]
  /\ UNCHANGED <<writerVars, handler, client, opens>>

\* The first event after the client's revision is left out.
Bug_ReplaySkipsFirst ==
  /\ stream.pc = "snapshot"
  /\ \E top \in sent .. lastWritten :
       stream' = [stream EXCEPT !.pc = "start",
                     !.queue = {r \in stream.from + 2 .. top : log[r].key \in Keys}]
  /\ UNCHANGED <<writerVars, handler, client, opens>>

\* The ring holds what was pushed: all that is sent, and maybe the event that
\* is about to be.
Snapshot ==
  /\ stream.pc = "snapshot"
  /\ \E top \in sent .. lastWritten :
       stream' = [stream EXCEPT !.pc = "start",
                     !.queue = {r \in stream.from + 1 .. top : log[r].key \in Keys}]
  /\ UNCHANGED <<writerVars, handler, client, opens>>

\* After the initial items, or the event before: what is left to replay comes
\* next, then the live loop.
Replaying(queue) == IF queue = {} THEN "live" ELSE "replay"

\* The initial items and the bookmark that closes them.
Start ==
  LET scope  == Scope(stream.from)
      lastRv == Max({handler.lastRv, stream.from})
  IN /\ stream.pc = "start"
     /\ IF stream.start = "initial"
        THEN /\ handler' = [handler EXCEPT !.everMatched = scope, !.lastRv = lastRv]
             /\ client' = [cache |-> scope, rv |-> lastRv, phantom |-> {}]
        ELSE UNCHANGED <<handler, client>>
     /\ stream' = [stream EXCEPT !.pc = Replaying(stream.queue)]
     /\ UNCHANGED <<writerVars, opens>>

\* One event of the snapshot, the oldest that is left.
ReplayEvent ==
  LET r  == Min(stream.queue)
      hc == Handle(<<handler, client>>, log[r])
  IN /\ stream.pc = "replay"
     /\ handler' = hc[1]
     /\ client' = hc[2]
     /\ stream' = [stream EXCEPT !.pc = Replaying(stream.queue \ {r}), !.queue = @ \ {r},
                                 !.lastReplayed = Max({@, r})]
     /\ UNCHANGED <<writerVars, opens>>

-------------------------------------------------------------------------------
(* The live loop.  The store's select picks any branch that is ready.       *)

\* A bookmark reaches the handler and goes out to the client.
Bookmark(h, c, r) ==
  /\ handler' = [h EXCEPT !.lastRv = Max({@, r})]
  /\ client' = [c EXCEPT !.rv = r]

RecvEvent ==
  LET e == log[stream.cursor]
      hc == Handle(<<handler, client>>, e)
  IN /\ stream.pc = "live"
     /\ stream.cursor <= sent
     /\ IF e.key \in Keys /\ e.rev > stream.lastReplayed
        THEN /\ Bookmark(hc[1], hc[2], e.rev)     \* every event is followed by one
             /\ stream' = [stream EXCEPT !.cursor = @ + 1, !.lastReplayed = e.rev]
        ELSE /\ stream' = [stream EXCEPT !.cursor = @ + 1]
             /\ UNCHANGED <<handler, client>>
     /\ UNCHANGED <<writerVars, opens>>

UnreadBookmarks == announced + 1 - stream.bookmarkCursor

\* A bookmark of another type counts as an event already seen.
Bug_BookmarkAdvancesReplay ==
  LET r == stream.bookmarkCursor
  IN /\ stream.pc = "live"
     /\ UnreadBookmarks \in 1 .. BookmarkCapacity
     /\ stream' = IF log[r].key = Foreign
                  THEN [stream EXCEPT !.bookmarkCursor = @ + 1, !.lastReplayed = Max({@, r}),
                                      !.bookmarkRv = Max({@, r}), !.debounce = "set"]
                  ELSE [stream EXCEPT !.bookmarkCursor = @ + 1]
     /\ UNCHANGED <<writerVars, handler, client, opens>>

\* A bookmark of the watcher's own type is dropped, another one is kept for
\* the debounce timer.
RecvBookmark ==
  LET r == stream.bookmarkCursor
  IN /\ stream.pc = "live"
     /\ UnreadBookmarks \in 1 .. BookmarkCapacity
     /\ stream' = IF log[r].key = Foreign /\ r > stream.bookmarkRv
                  THEN [stream EXCEPT !.bookmarkCursor = @ + 1, !.bookmarkRv = r,
                                      !.debounce = "set"]
                  ELSE [stream EXCEPT !.bookmarkCursor = @ + 1]
     /\ UNCHANGED <<writerVars, handler, client, opens>>

BookmarkLagged ==
  /\ stream.pc = "live"
  /\ UnreadBookmarks > BookmarkCapacity
  /\ stream' = [stream EXCEPT !.bookmarkCursor = announced + 1]
  /\ UNCHANGED <<writerVars, handler, client, opens>>

DebounceFires ==
  /\ stream.pc = "live"
  /\ stream.debounce = "set"
  /\ stream' = [stream EXCEPT !.debounce = "unset"]
  /\ Bookmark(handler, client, Max({stream.bookmarkRv, stream.lastReplayed}))
  /\ UNCHANGED <<writerVars, opens>>

\* The handler's select is biased: its timers are looked at only when the
\* store's stream had nothing to give.
PollPending ==
  /\ stream.pc = "live"
  /\ stream.cursor > sent
  /\ UnreadBookmarks = 0
  /\ stream' = [stream EXCEPT !.pc = "timers"]
  /\ UNCHANGED <<writerVars, handler, client, opens>>

\* The heartbeat repeats what this stream has seen.
Bug_HeartbeatLastRv ==
  /\ stream.pc = "timers"
  /\ client' = [client EXCEPT !.rv = handler.lastRv]
  /\ stream' = [stream EXCEPT !.pc = "live"]
  /\ UNCHANGED <<writerVars, handler, opens>>

\* bookmark_tick: current_revision() is read now.
Heartbeat ==
  /\ stream.pc = "timers"
  /\ client' = [client EXCEPT !.rv = Max({lastWritten, handler.lastRv})]
  /\ stream' = [stream EXCEPT !.pc = "live"]
  /\ UNCHANGED <<writerVars, handler, opens>>

\* No timer is due.
PollAgain ==
  /\ stream.pc = "timers"
  /\ stream' = [stream EXCEPT !.pc = "live"]
  /\ UNCHANGED <<writerVars, handler, client, opens>>

\* max_duration: one more bookmark, and the response ends.
TimeOut ==
  /\ stream.pc = "timers"
  /\ client' = [client EXCEPT !.rv = Max({lastWritten, handler.lastRv})]
  /\ stream' = NoStream
  /\ handler' = NoHandler
  /\ UNCHANGED <<writerVars, opens>>

Disconnect ==
  /\ stream.pc # "off"
  /\ stream' = NoStream
  /\ handler' = NoHandler
  /\ UNCHANGED <<writerVars, client, opens>>

-------------------------------------------------------------------------------
Init ==
  /\ log = <<>>
  /\ lastWritten = 0
  /\ sent = 0
  /\ announced = 0
  /\ stream = NoStream
  /\ handler = NoHandler
  /\ client = [cache |-> {}, rv |-> 0, phantom |-> {}]
  /\ opens = 0

WriterNext ==
  \/ \E k \in Keys : Delete(k) \/ \E sel \in {"in", "out"} : Put(k, sel)
  \/ \E k \in {Sibling, Foreign} : Put(k, "in")
  \/ Bump
  \/ SendEvent
  \/ SendBookmark

StreamNext ==
  \/ Subscribe \/ Snapshot \/ Start \/ ReplayEvent
  \/ RecvEvent \/ RecvBookmark \/ BookmarkLagged \/ DebounceFires

Next ==
  \/ WriterNext
  \/ List
  \/ \E initial \in BOOLEAN : Open(initial)
  \/ StreamNext
  \/ PollPending \/ Heartbeat \/ PollAgain
  \/ TimeOut
  \/ Disconnect

Spec == Init /\ [][Next]_vars

\* A writer finishes its closure, the runtime polls the response, and a stream
\* with nothing to give for a minute gets its heartbeat.
FairSpec ==
  /\ Spec
  /\ WF_vars(Bump \/ SendEvent \/ SendBookmark)
  /\ WF_vars(StreamNext)
  /\ WF_vars(PollPending)
  /\ SF_vars(Heartbeat)

-------------------------------------------------------------------------------
(* Properties.                                                              *)

\* The revision the store's stream has consumed all events up to.
Reached ==
  IF stream.pc = "replay" THEN stream.lastReplayed
  ELSE Max({stream.lastReplayed, stream.cursor - 1})

Event == [key : Keys \cup {Sibling, Foreign}, type : {"ADDED", "MODIFIED", "DELETED"},
          sel : {"in", "out"}, rev : 1 .. MaxRev]

Stream == [pc : {"off", "subscribe", "snapshot", "start", "replay", "live", "timers"},
           from : Nat, cursor : Nat, bookmarkCursor : Nat, queue : SUBSET Nat,
           lastReplayed : Nat, bookmarkRv : Nat, debounce : {"unset", "set"},
           start : {"initial", "exact", "stale"}]

\* What a revision means to the client is bounded by what is committed: no
\* event and no bookmark is ahead of meta.revision, and the channels never are.
TypeOK ==
  /\ log \in Seq(Event)
  /\ lastWritten \in 0 .. Len(log)
  /\ sent \in 0 .. lastWritten
  /\ announced \in 0 .. sent
  /\ stream \in Stream
  /\ stream.from <= Len(log)
  /\ stream.cursor <= sent + 1
  /\ stream.bookmarkCursor <= announced + 1
  /\ stream.queue \subseteq 1 .. Len(log)
  /\ stream.lastReplayed <= Len(log)
  /\ stream.bookmarkRv <= Len(log)
  /\ handler \in [everMatched : SUBSET Keys, locallyDeleted : SUBSET Keys, lastRv : 0 .. Len(log)]
  /\ client \in [cache : SUBSET Keys, rv : 0 .. Len(log), phantom : SUBSET Keys]
  /\ opens \in 0 .. MaxOpens

Delivering == {"replay", "live", "timers"}

\* A client that was given the initial state by this stream always holds exactly
\* the objects that match its selector as of what the stream has reached: bodies
\* may enter and leave the selection, objects may be deleted while in or out of
\* it, and bookmarks of any kind never make the stream skip an event.
SelectionFollowed ==
  stream.pc \in Delivering /\ stream.start = "initial" => client.cache = Scope(Reached)

\* A client that resumed with a right cache loses nothing either, for objects
\* that do not leave its selection.
ResumeFollowed ==
  stream.pc \in Delivering /\ stream.start # "stale" =>
    \A k \in Keys :
      (\A i \in stream.from + 1 .. Reached : log[i].key = k => log[i].sel = "in") =>
        (k \in client.cache <=> k \in Scope(Reached))

\* "An object that never matched must not receive a phantom DELETE": a stream
\* that began with the initial state never tells of the deletion of an object
\* that is not in the client's cache.  The state keeps its type.
NoPhantomDelete ==
  TypeOK /\ (stream.pc \in Delivering /\ stream.start = "initial" => client.phantom = {})

\* What KCM's consistency check needs: every write of the store, of whatever
\* type, is eventually covered by the revision an open watch has told its
\* client, although bookmarks are dropped, coalesced and lost to lag.
SyncRevisionConverges ==
  \A r \in 1 .. MaxRev :
    lastWritten >= r /\ stream.pc = "live" ~> client.rv >= r \/ stream.pc = "off"

(* What comments and docs of the repository say, and the code does not do:  *)
(* TLC refutes both, on the instances the README gives.                     *)

\* "An object that exits a filtered watch's scope produces a DELETE so the
\* client's cache drops it", also for a client that listed first.
SelectionExitIsTold ==
  stream.pc = "live" /\ stream.start # "stale" => client.cache \subseteq Scope(Reached)

\* A bookmark "lets the client resume without a full relist": its revision
\* stands for what the client has been told.
BookmarkIsResumable ==
  stream.pc = "live" /\ stream.start = "initial" => client.cache = Scope(client.rv)
===============================================================================
