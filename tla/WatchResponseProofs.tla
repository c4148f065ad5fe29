------------------------- MODULE WatchResponseProofs --------------------------
(***************************************************************************)
(* Theorems about WatchResponse: for any keys, any history and any number  *)
(* of watches, what a client is told keeps its cache equal to its          *)
(* selection.                                                              *)
(***************************************************************************)
EXTENDS WatchResponse, WellFoundedInduction, TLAPS

-------------------------------------------------------------------------------
(* Keys and logs, as functions of the log.                                  *)

\* i is the last of the first r events on key k.
LastOn(L, k, r, i) ==
  /\ i \in 1 .. r /\ L[i].key = k
  /\ \A j \in 1 .. r : L[j].key = k => j <= i

\* k has a row after r events, and its body matches the selector.
There(L, k, r) == \E i \in 1 .. r : LastOn(L, k, r, i) /\ L[i].type # "DELETED"
Held(L, k, r)  ==
  \E i \in 1 .. r : LastOn(L, k, r, i) /\ L[i].type # "DELETED" /\ L[i].sel = "in"

HeldSet(L, r) == {k \in Keys : Held(L, k, r)}

\* Every event says truly what it found.
LogInv ==
  \A r \in 1 .. Len(log) :
    /\ log[r].rev = r
    /\ log[r].type = "ADDED"   => ~There(log, log[r].key, r - 1)
    /\ log[r].type = "DELETED" => (log[r].sel = "in" <=> Held(log, log[r].key, r - 1))

\* What is to be replayed: every event under the prefix between last_replayed
\* and the newest of them, and every one the receiver will not see.
QueueInv(L, s) ==
  /\ \A q \in s.queue : q > s.lastReplayed /\ q <= Len(L) /\ L[q].key \in Keys
  /\ \A r \in s.lastReplayed + 1 .. Len(L) :
       L[r].key \in Keys /\ (r < s.cursor \/ \E q \in s.queue : r <= q) => r \in s.queue

\* The cache is the selection as of p, and the handler knows it.
Followed(L, h, c, p) ==
  /\ c.cache = HeldSet(L, p)
  /\ h.everMatched = c.cache
  /\ h.locallyDeleted \cap c.cache = {}
  /\ c.phantom = {}

\* The same key by key, for the keys that did not leave the selection.
Resumed(L, h, c, f, p) ==
  \A k \in Keys :
    (\A i \in f + 1 .. p : L[i].key = k => L[i].sel = "in") =>
      /\ k \in c.cache <=> Held(L, k, p)
      /\ k \notin h.locallyDeleted

Opening == {"subscribe", "snapshot", "start"}

\* A watch that is being opened: nothing has been told yet.
OpeningInv ==
  stream.pc \in Opening =>
    /\ handler.everMatched = {} /\ handler.locallyDeleted = {}
    /\ stream.lastReplayed = stream.from
    /\ stream.start = "exact" => client.cache = HeldSet(log, stream.from)

\* A watch that is being served.
DeliveringInv ==
  stream.pc \in Delivering =>
    /\ stream.from <= stream.lastReplayed
    /\ stream.start = "initial" => Followed(log, handler, client, stream.lastReplayed)
    /\ stream.start # "stale" => Resumed(log, handler, client, stream.from, stream.lastReplayed)

CursorInv ==
  /\ stream.pc \in {"start", "replay", "live", "timers"} => QueueInv(log, stream)
  /\ stream.pc = "replay" => stream.queue # {}
  /\ stream.pc \in {"live", "timers"} => stream.queue = {}
  /\ stream.pc \notin {"off", "subscribe"} => stream.cursor >= 1

ResponseInv == TypeOK /\ LogInv /\ OpeningInv /\ DeliveringInv /\ CursorInv

-------------------------------------------------------------------------------
(* Last events.                                                             *)

\* A set of naturals that is not empty has a least element.
LEMMA LeastNat ==
  ASSUME NEW S \in SUBSET Nat, S # {}
  PROVE  \E x \in S : \A y \in S : x <= y
<1> DEFINE Less == {ss \in Nat \X Nat : ss[1] < ss[2]}
<1>1. IsWellFoundedOn(Less, Nat)
  BY NatLessThanWellFounded, Zenon DEF OpToRel
<1>2. PICK x \in S : \A y \in S : ~(<<y, x>> \in Less)
  <2> HIDE DEF Less
  <2> QED
    BY <1>1, WFMin
<1>3. \A y \in S : x <= y
  <2> SUFFICES ASSUME NEW y \in S PROVE x <= y
    OBVIOUS
  <2>1. ~(<<y, x>> \in Less) /\ x \in Nat /\ y \in Nat
    BY <1>2
  <2> QED
    BY <2>1
<1> QED
  BY <1>3

LEMMA SomeLast ==
  ASSUME NEW L, NEW k, NEW r \in Nat, NEW n \in 1 .. r, L[n].key = k
  PROVE  \E i \in 1 .. r : LastOn(L, k, r, i)
<1> DEFINE S == {d \in 0 .. r : d < r /\ L[r - d].key = k}
<1>1. r - n \in S
  <2>1. r - (r - n) = n /\ r - n \in 0 .. r /\ r - n < r
    OBVIOUS
  <2> QED
    BY <2>1
<1>2. PICK d \in S : \A y \in S : d <= y
  <2>1. \A y \in S : y \in Nat
    OBVIOUS
  <2>2. r - n \in S
    BY <1>1
  <2> HIDE DEF S
  <2> QED
    BY <2>1, <2>2, LeastNat
<1>3. LastOn(L, k, r, r - d) /\ r - d \in 1 .. r
  <2>1. r - d \in 1 .. r /\ L[r - d].key = k /\ d \in Nat
    BY <1>2
  <2>2. ASSUME NEW j \in 1 .. r, L[j].key = k PROVE j <= r - d
    <3>1. r - (r - j) = j /\ r - j \in 0 .. r /\ r - j < r
      OBVIOUS
    <3>2. r - j \in S
      BY <3>1, <2>2
    <3>3. d <= r - j
      BY <3>2, <1>2
    <3> QED
      BY <3>3, <2>1
  <2> QED
    BY <2>1, <2>2 DEF LastOn
<1> QED
  BY <1>3

LEMMA OneLast ==
  ASSUME NEW L, NEW k, NEW r \in Nat, NEW i \in 1 .. r, NEW j \in 1 .. r,
         LastOn(L, k, r, i), LastOn(L, k, r, j)
  PROVE  i = j
BY DEF LastOn

LEMMA HeldLast ==
  ASSUME NEW L, NEW k, NEW r \in Nat, NEW i \in 1 .. r, LastOn(L, k, r, i)
  PROVE  /\ There(L, k, r) <=> L[i].type # "DELETED"
         /\ Held(L, k, r) <=> L[i].type # "DELETED" /\ L[i].sel = "in"
BY OneLast, Zenon DEF There, Held

LEMMA HeldNone ==
  ASSUME NEW L, NEW k, NEW r \in Nat, \A i \in 1 .. r : L[i].key # k
  PROVE  ~There(L, k, r) /\ ~Held(L, k, r)
BY DEF There, Held, LastOn

\* What an event on the key itself says.
LEMMA HeldNow ==
  ASSUME NEW L, NEW r \in Nat \ {0}
  PROVE  Held(L, L[r].key, r) <=> L[r].type # "DELETED" /\ L[r].sel = "in"
<1>1. LastOn(L, L[r].key, r, r) /\ r \in 1 .. r
  BY DEF LastOn
<1> QED
  BY <1>1, HeldLast

\* Later events, and events on other keys, change nothing.
LEMMA HeldKept ==
  ASSUME NEW L, NEW M, NEW k, NEW r \in Nat, NEW q \in Nat, r <= q,
         \A i \in 1 .. r : M[i] = L[i],
         \A i \in 1 .. q : i > r => M[i].key # k
  PROVE  /\ There(M, k, q) <=> There(L, k, r)
         /\ Held(M, k, q) <=> Held(L, k, r)
<1>1. CASE \A i \in 1 .. r : L[i].key # k
  <2>1. \A i \in 1 .. q : M[i].key # k
    BY <1>1
  <2> QED
    BY <2>1, <1>1, HeldNone
<1>2. CASE \E i \in 1 .. r : L[i].key = k
  <2>1. PICK i \in 1 .. r : LastOn(L, k, r, i)
    BY <1>2, SomeLast
  <2>2. LastOn(M, k, q, i) /\ M[i] = L[i] /\ i \in 1 .. q
    BY <2>1 DEF LastOn
  <2> QED
    BY <2>1, <2>2, HeldLast
<1> QED
  BY <1>1, <1>2

LEMMA MaxIs ==
  ASSUME NEW S \in SUBSET Nat, NEW i \in S, \A j \in S : j <= i
  PROVE  Max(S) = i
<1>1. Max(S) \in S /\ \A j \in S : Max(S) >= j
  <2>1. \A j \in S : i >= j
    OBVIOUS
  <2> QED
    BY <2>1 DEF Max
<1>2. Max(S) \in Nat /\ i \in Nat /\ Max(S) <= i /\ Max(S) >= i
  BY <1>1
<1> QED
  BY <1>2

LEMMA MaxOfTwo ==
  ASSUME NEW a \in Nat, NEW b \in Nat
  PROVE  Max({a, b}) = IF a > b THEN a ELSE b
BY DEF Max

\* The last event of a key among the first r, in the model's terms.
LEMMA LastOfIs ==
  ASSUME NEW k, Len(log) \in Nat, NEW r \in 0 .. Len(log)
  PROVE  \/ LastOf(k, r) = {} /\ \A i \in 1 .. r : log[i].key # k
         \/ /\ LastOf(k, r) # {} /\ Max(LastOf(k, r)) \in 1 .. r
            /\ LastOn(log, k, r, Max(LastOf(k, r)))
<1>1. LastOf(k, r) = {i \in 1 .. r : log[i].key = k}
  BY DEF LastOf, Writes
<1>2. CASE \A i \in 1 .. r : log[i].key # k
  BY <1>1, <1>2
<1>3. CASE \E i \in 1 .. r : log[i].key = k
  <2>1. PICK i \in 1 .. r : LastOn(log, k, r, i)
    <3>1. r \in Nat
      OBVIOUS
    <3> QED
      BY <3>1, <1>3, SomeLast
  <2>2. i \in LastOf(k, r) /\ (\A j \in LastOf(k, r) : j <= i) /\ LastOf(k, r) \in SUBSET Nat
    BY <2>1, <1>1 DEF LastOn
  <2>3. Max(LastOf(k, r)) = i
    BY <2>2, MaxIs
  <2> QED
    BY <2>1, <2>2, <2>3
<1> QED
  BY <1>2, <1>3

LEMMA ScopeIsHeld ==
  ASSUME Len(log) \in Nat, NEW r \in 0 .. Len(log)
  PROVE  Scope(r) = HeldSet(log, r)
<1>1. ASSUME NEW k \in Keys
      PROVE  Held(log, k, r) <=> /\ LastOf(k, r) # {}
                                 /\ log[Max(LastOf(k, r))].type # "DELETED"
                                 /\ log[Max(LastOf(k, r))].sel = "in"
  <2>1. r \in Nat
    OBVIOUS
  <2> QED
    BY <2>1, LastOfIs, HeldLast, HeldNone
<1> QED
  BY <1>1 DEF Scope, HeldSet

LEMMA ExistsIsThere ==
  ASSUME Len(log) \in Nat, NEW k
  PROVE  /\ Exists(k) <=> There(log, k, Len(log))
         /\ Exists(k) => (log[Max(Writes(k))].sel = "in" <=> Held(log, k, Len(log)))
<1>1. Writes(k) = LastOf(k, Len(log)) /\ Len(log) \in 0 .. Len(log)
  BY DEF Writes, LastOf
<1>2. \/ Writes(k) = {} /\ \A i \in 1 .. Len(log) : log[i].key # k
      \/ /\ Writes(k) # {} /\ Max(Writes(k)) \in 1 .. Len(log)
         /\ LastOn(log, k, Len(log), Max(Writes(k)))
  BY <1>1, LastOfIs
<1> QED
  BY <1>2, HeldLast, HeldNone DEF Exists

-------------------------------------------------------------------------------
(* What one event does to the handler and the client.                       *)

Handler == [everMatched : SUBSET Keys, locallyDeleted : SUBSET Keys, lastRv : Nat]
Client  == [cache : SUBSET Keys, rv : Nat, phantom : SUBSET Keys]

\* The five ways an event can go: it is told as ADDED or MODIFIED, told as a
\* deletion of the handler's own making, not told, suppressed after such a
\* deletion, or a deletion told or kept back by the last body.
Told(h, c, e, g, d) ==
  /\ e.type # "DELETED" /\ e.sel = "in"
  /\ g.everMatched = h.everMatched \cup {e.key} /\ g.locallyDeleted = h.locallyDeleted \ {e.key}
  /\ d.cache = c.cache \cup {e.key} /\ d.phantom = c.phantom

Retracted(h, c, e, g, d) ==
  /\ e.type = "MODIFIED" /\ e.sel # "in"
  /\ e.key \in h.everMatched /\ e.key \notin h.locallyDeleted
  /\ g.everMatched = h.everMatched \ {e.key} /\ g.locallyDeleted = h.locallyDeleted \cup {e.key}
  /\ d.cache = c.cache \ {e.key} /\ d.phantom = c.phantom \cup ({e.key} \ c.cache)

Unseen(h, c, e, g, d) ==
  /\ e.type # "DELETED" /\ e.sel # "in"
  /\ e.type # "MODIFIED" \/ e.key \notin h.everMatched \/ e.key \in h.locallyDeleted
  /\ g.everMatched = h.everMatched \ {e.key} /\ g.locallyDeleted = h.locallyDeleted
  /\ d.cache = c.cache /\ d.phantom = c.phantom

Suppressed(h, c, e, g, d) ==
  /\ e.type = "DELETED" /\ e.key \in h.locallyDeleted
  /\ g.everMatched = h.everMatched /\ g.locallyDeleted = h.locallyDeleted \ {e.key}
  /\ d.cache = c.cache /\ d.phantom = c.phantom

Removed(h, c, e, g, d) ==
  /\ e.type = "DELETED" /\ e.key \notin h.locallyDeleted
  /\ g.everMatched = h.everMatched \ {e.key} /\ g.locallyDeleted = h.locallyDeleted
  /\ IF e.sel = "in"
     THEN d.cache = c.cache \ {e.key} /\ d.phantom = c.phantom \cup ({e.key} \ c.cache)
     ELSE d.cache = c.cache /\ d.phantom = c.phantom

Outcome(h, c, e, g, d) ==
  /\ \/ Told(h, c, e, g, d) \/ Retracted(h, c, e, g, d) \/ Unseen(h, c, e, g, d)
     \/ Suppressed(h, c, e, g, d) \/ Removed(h, c, e, g, d)
  /\ g.lastRv = Max({h.lastRv, e.rev})
  /\ d.rv \in {c.rv, e.rev}
  /\ g \in Handler /\ d \in Client

LEMMA HandleOutcome ==
  ASSUME NEW h \in Handler, NEW c \in Client, NEW e, e.key \in Keys, e.rev \in Nat
  PROVE  Outcome(h, c, e, Handle(<<h, c>>, e)[1], Handle(<<h, c>>, e)[2])
<1> DEFINE z == [h EXCEPT !.lastRv = Max({@, e.rev})]
<1>1. /\ z.everMatched = h.everMatched /\ z.locallyDeleted = h.locallyDeleted
      /\ z.lastRv = Max({h.lastRv, e.rev}) /\ z \in Handler
  <2>1. h.lastRv \in Nat
    BY DEF Handler
  <2>2. Max({h.lastRv, e.rev}) \in Nat
    BY <2>1, MaxOfTwo
  <2> HIDE DEF Max
  <2> QED
    BY <2>2 DEF Handler
<1>2. Handle(<<h, c>>, e) = IF e.type = "DELETED" THEN Deleted(z, c, e)
                            ELSE IF e.sel = "in" THEN Matching(z, c, e)
                            ELSE NotMatching(z, c, e)
  BY DEF Handle
<1> DEFINE g == Handle(<<h, c>>, e)[1]
           d == Handle(<<h, c>>, e)[2]
<1> HIDE DEF z
<1>3. CASE e.type # "DELETED" /\ e.sel = "in"
  <2>1. /\ g = [z EXCEPT !.everMatched = @ \cup {e.key}, !.locallyDeleted = @ \ {e.key}]
        /\ d = [c EXCEPT !.rv = e.rev, !.cache = @ \cup {e.key}]
    BY <1>2, <1>3 DEF Matching
  <2> HIDE DEF g, d
  <2>2. /\ g.everMatched = z.everMatched \cup {e.key} /\ g.lastRv = z.lastRv
        /\ g.locallyDeleted = z.locallyDeleted \ {e.key} /\ g \in Handler
    BY <2>1, <1>1 DEF Handler
  <2>3. d.cache = c.cache \cup {e.key} /\ d.phantom = c.phantom /\ d.rv = e.rev /\ d \in Client
    BY <2>1 DEF Client
  <2> QED
    BY <2>2, <2>3, <1>1, <1>3 DEF Outcome, Told, g, d
<1>4. CASE e.type # "DELETED" /\ e.sel # "in" /\ SyntheticDelete(z, e)
  <2>1. /\ g = [z EXCEPT !.everMatched = @ \ {e.key}, !.locallyDeleted = @ \cup {e.key}]
        /\ d = [c EXCEPT !.rv = e.rev, !.cache = @ \ {e.key},
                         !.phantom = @ \cup ({e.key} \ c.cache)]
    BY <1>2, <1>4 DEF NotMatching, Drop
  <2> HIDE DEF g, d
  <2>2. /\ g.everMatched = z.everMatched \ {e.key} /\ g.lastRv = z.lastRv
        /\ g.locallyDeleted = z.locallyDeleted \cup {e.key} /\ g \in Handler
    BY <2>1, <1>1 DEF Handler
  <2>3. /\ d.cache = c.cache \ {e.key} /\ d.phantom = c.phantom \cup ({e.key} \ c.cache)
        /\ d.rv = e.rev /\ d \in Client
    BY <2>1 DEF Client
  <2> QED
    BY <2>2, <2>3, <1>1, <1>4 DEF Outcome, Retracted, SyntheticDelete, g, d
<1>5. CASE e.type # "DELETED" /\ e.sel # "in" /\ ~SyntheticDelete(z, e)
  <2>1. g = [z EXCEPT !.everMatched = @ \ {e.key}] /\ d = c
    BY <1>2, <1>5 DEF NotMatching
  <2> HIDE DEF g, d
  <2>2. /\ g.everMatched = z.everMatched \ {e.key} /\ g.lastRv = z.lastRv
        /\ g.locallyDeleted = z.locallyDeleted /\ g \in Handler
    BY <2>1, <1>1 DEF Handler
  <2> QED
    BY <2>1, <2>2, <1>1, <1>5 DEF Outcome, Unseen, SyntheticDelete, g, d
<1>6. CASE e.type = "DELETED" /\ e.key \in z.locallyDeleted
  <2>1. g = [z EXCEPT !.locallyDeleted = @ \ {e.key}] /\ d = c
    BY <1>2, <1>6 DEF Deleted
  <2> HIDE DEF g, d
  <2>2. /\ g.everMatched = z.everMatched /\ g.lastRv = z.lastRv
        /\ g.locallyDeleted = z.locallyDeleted \ {e.key} /\ g \in Handler
    BY <2>1, <1>1 DEF Handler
  <2> QED
    BY <2>1, <2>2, <1>1, <1>6 DEF Outcome, Suppressed, g, d
<1>7. CASE e.type = "DELETED" /\ e.key \notin z.locallyDeleted
  <2>1. /\ g = [z EXCEPT !.everMatched = @ \ {e.key}]
        /\ d = IF e.sel = "in"
               THEN [c EXCEPT !.rv = e.rev, !.cache = @ \ {e.key},
                              !.phantom = @ \cup ({e.key} \ c.cache)]
               ELSE c
    BY <1>2, <1>7 DEF Deleted, Drop
  <2> HIDE DEF g, d
  <2>2. /\ g.everMatched = z.everMatched \ {e.key} /\ g.lastRv = z.lastRv
        /\ g.locallyDeleted = z.locallyDeleted /\ g \in Handler
    BY <2>1, <1>1 DEF Handler
  <2>3. /\ d \in Client /\ d.rv \in {c.rv, e.rev}
        /\ IF e.sel = "in"
           THEN d.cache = c.cache \ {e.key} /\ d.phantom = c.phantom \cup ({e.key} \ c.cache)
           ELSE d.cache = c.cache /\ d.phantom = c.phantom
    BY <2>1 DEF Client
  <2> QED
    BY <2>2, <2>3, <1>1, <1>7 DEF Outcome, Removed, g, d
<1> QED
  BY <1>3, <1>4, <1>5, <1>6, <1>7

\* An event e = L[r] that says truly what it found after the event before it.
TrueEvent(L, r) ==
  /\ L[r].type = "ADDED"   => ~There(L, L[r].key, r - 1)
  /\ L[r].type = "DELETED" => (L[r].sel = "in" <=> Held(L, L[r].key, r - 1))

\* r is the next event under the prefix after p.
NextUnder(L, p, r) ==
  /\ p < r /\ L[r].key \in Keys
  /\ \A i \in p + 1 .. r - 1 : L[i].key \notin Keys

LEMMA HeldNext ==
  ASSUME NEW L, NEW p \in Nat, NEW r \in Nat, NextUnder(L, p, r), NEW k \in Keys
  PROVE  /\ Held(L, k, r - 1) <=> Held(L, k, p)
         /\ There(L, k, r - 1) <=> There(L, k, p)
         /\ k # L[r].key => (Held(L, k, r) <=> Held(L, k, p))
<1>1. p <= r - 1 /\ r - 1 \in Nat /\ p <= r
  BY DEF NextUnder
<1>2. \A i \in 1 .. r - 1 : i > p => L[i].key # k
  BY DEF NextUnder
<1>3. k # L[r].key => \A i \in 1 .. r : i > p => L[i].key # k
  BY <1>2
<1>4. \A i \in 1 .. p : L[i] = L[i]
  OBVIOUS
<1>5. /\ Held(L, k, r - 1) <=> Held(L, k, p)
      /\ There(L, k, r - 1) <=> There(L, k, p)
  BY <1>1, <1>2, <1>4, HeldKept
<1>6. k # L[r].key => (Held(L, k, r) <=> Held(L, k, p))
  BY <1>1, <1>3, <1>4, HeldKept
<1> QED
  BY <1>5, <1>6

LEMMA HeldIsThere ==
  ASSUME NEW L, NEW k, NEW r, Held(L, k, r)
  PROVE  There(L, k, r)
BY DEF Held, There

\* A stream that began with the initial state: one more event keeps the cache
\* equal to the selection, and tells no deletion the client did not need.
LEMMA HandleFollowed ==
  ASSUME NEW L, NEW p \in Nat, NEW r \in Nat, NextUnder(L, p, r), TrueEvent(L, r),
         L[r].type \in {"ADDED", "MODIFIED", "DELETED"},
         NEW h, NEW c, NEW g, NEW d, Outcome(h, c, L[r], g, d), Followed(L, h, c, p),
         c \in Client
  PROVE  Followed(L, g, d, r)
<1> DEFINE e == L[r]
           k == e.key
           H == HeldSet(L, r)
<1>1. k \in Keys /\ r \in Nat \ {0}
  BY DEF NextUnder
<1>2. c.cache \subseteq Keys /\ \A x \in Keys : x \in c.cache <=> Held(L, x, p)
  BY DEF Followed, HeldSet
<1>3. H \subseteq Keys /\ \A x \in Keys : x \in H <=> Held(L, x, r)
  BY DEF HeldSet
<1>4. \A x \in Keys : x # k => (x \in H <=> x \in c.cache)
  BY <1>2, <1>3, HeldNext
<1>5. k \in H <=> e.type # "DELETED" /\ e.sel = "in"
  BY <1>1, <1>3, HeldNow
<1>6. e.type = "ADDED" => k \notin c.cache
  BY <1>1, <1>2, HeldNext, HeldIsThere DEF TrueEvent
<1>7. e.type = "DELETED" => (e.sel = "in" <=> k \in c.cache)
  BY <1>1, <1>2, HeldNext DEF TrueEvent
<1>8. h.everMatched = c.cache /\ h.locallyDeleted \cap c.cache = {} /\ c.phantom = {}
  BY DEF Followed
<1>9. e.type \in {"ADDED", "MODIFIED", "DELETED"}
  OBVIOUS
<1> HIDE DEF e, k, H
<1>10. CASE Told(h, c, e, g, d)
  <2>1. d.cache = H
    BY <1>10, <1>1, <1>2, <1>3, <1>4, <1>5 DEF Told, k
  <2> QED
    BY <2>1, <1>10, <1>8 DEF Told, Followed, H
<1>11. CASE Retracted(h, c, e, g, d)
  <2>1. d.cache = H
    BY <1>11, <1>1, <1>2, <1>3, <1>4, <1>5 DEF Retracted, k
  <2> QED
    BY <2>1, <1>11, <1>8 DEF Retracted, Followed, H
<1>12. CASE Unseen(h, c, e, g, d)
  <2>1. k \notin c.cache /\ k \notin H
    BY <1>12, <1>5, <1>6, <1>8, <1>9 DEF Unseen, k
  <2>2. d.cache = H
    BY <2>1, <1>12, <1>2, <1>3, <1>4 DEF Unseen
  <2> QED
    BY <2>1, <2>2, <1>12, <1>8 DEF Unseen, Followed, H, k
<1>13. CASE Suppressed(h, c, e, g, d)
  <2>1. k \notin c.cache /\ k \notin H
    BY <1>13, <1>5, <1>8 DEF Suppressed, k
  <2>2. d.cache = H
    BY <2>1, <1>13, <1>2, <1>3, <1>4 DEF Suppressed
  <2> QED
    BY <2>1, <2>2, <1>13, <1>8 DEF Suppressed, Followed, H, k
<1>14. CASE Removed(h, c, e, g, d)
  <2>1. k \notin H
    BY <1>14, <1>5 DEF Removed
  <2>2. d.cache = c.cache \ {k} /\ d.phantom = {}
    BY <1>14, <1>7, <1>8 DEF Removed, k
  <2>3. d.cache = H
    BY <2>1, <2>2, <1>2, <1>3, <1>4
  <2> QED
    BY <2>2, <2>3, <1>14, <1>8 DEF Removed, Followed, H, k
<1> QED
  BY <1>10, <1>11, <1>12, <1>13, <1>14 DEF Outcome, e

\* A stream that resumed from a right cache, key by key.
LEMMA HandleResumed ==
  ASSUME NEW L, NEW f \in Nat, NEW p \in Nat, NEW r \in Nat, f <= p,
         NextUnder(L, p, r), TrueEvent(L, r),
         NEW h, NEW c, NEW g, NEW d, Outcome(h, c, L[r], g, d), Resumed(L, h, c, f, p)
  PROVE  Resumed(L, g, d, f, r)
<1> SUFFICES ASSUME NEW x \in Keys, \A i \in f + 1 .. r : L[i].key = x => L[i].sel = "in"
             PROVE  (x \in d.cache <=> Held(L, x, r)) /\ x \notin g.locallyDeleted
  BY DEF Resumed
<1> DEFINE e == L[r]
           k == e.key
<1>1. k \in Keys /\ r \in Nat \ {0} /\ p < r
  BY DEF NextUnder
<1>2. (x \in c.cache <=> Held(L, x, p)) /\ x \notin h.locallyDeleted
  <2>1. \A i \in f + 1 .. p : L[i].key = x => L[i].sel = "in"
    BY <1>1
  <2> QED
    BY <2>1 DEF Resumed
<1>3. x # k => (Held(L, x, r) <=> Held(L, x, p))
  BY HeldNext
<1>4. x = k => (Held(L, x, r) <=> e.type # "DELETED" /\ e.sel = "in")
  BY <1>1, HeldNow
<1>5. x = k => e.sel = "in"
  BY <1>1
<1>6. x = k /\ e.type = "DELETED" => x \in c.cache
  <2>1. x = k => (Held(L, x, r - 1) <=> Held(L, x, p))
    BY HeldNext
  <2> QED
    BY <2>1, <1>2, <1>5 DEF TrueEvent
<1> HIDE DEF e, k
<1>7. CASE Told(h, c, e, g, d)
  BY <1>7, <1>2, <1>3, <1>4, <1>5 DEF Told, k
<1>8. CASE Retracted(h, c, e, g, d)
  BY <1>8, <1>2, <1>3, <1>4, <1>5 DEF Retracted, k
<1>9. CASE Unseen(h, c, e, g, d)
  BY <1>9, <1>2, <1>3, <1>4, <1>5 DEF Unseen, k
<1>10. CASE Suppressed(h, c, e, g, d)
  BY <1>10, <1>2, <1>3, <1>4, <1>5 DEF Suppressed, k
<1>11. CASE Removed(h, c, e, g, d)
  BY <1>11, <1>2, <1>3, <1>4, <1>5 DEF Removed, k
<1> QED
  BY <1>7, <1>8, <1>9, <1>10, <1>11 DEF Outcome, e

\* Both stay right while the log grows.
LEMMA GrownLog ==
  ASSUME NEW L, NEW M, NEW h, NEW c, NEW f, NEW p \in Nat, \A i \in 1 .. p : M[i] = L[i],
         f \in Nat
  PROVE  /\ HeldSet(M, p) = HeldSet(L, p)
         /\ Followed(L, h, c, p) => Followed(M, h, c, p)
         /\ Resumed(L, h, c, f, p) => Resumed(M, h, c, f, p)
<1>1. \A k : Held(M, k, p) <=> Held(L, k, p)
  <2>1. p <= p /\ \A i \in 1 .. p : ~(i > p)
    OBVIOUS
  <2> QED
    BY <2>1, HeldKept
<1>2. HeldSet(M, p) = HeldSet(L, p)
  BY <1>1 DEF HeldSet
<1>3. ASSUME Resumed(L, h, c, f, p) PROVE Resumed(M, h, c, f, p)
  <2>1. \A i \in f + 1 .. p : M[i] = L[i]
    OBVIOUS
  <2> QED
    BY <2>1, <1>1, <1>3 DEF Resumed
<1> QED
  BY <1>2, <1>3 DEF Followed

-------------------------------------------------------------------------------
(* The invariant, action by action.                                         *)

LEMMA Types ==
  ASSUME TypeOK
  PROVE  /\ Len(log) \in Nat /\ lastWritten \in Nat /\ sent \in Nat /\ announced \in Nat
         /\ stream.from \in Nat /\ stream.cursor \in Nat /\ stream.bookmarkCursor \in Nat
         /\ stream.lastReplayed \in Nat /\ stream.bookmarkRv \in Nat
         /\ handler \in Handler /\ handler.lastRv <= Len(log)
         /\ client \in Client /\ client.rv <= Len(log)
         /\ lastWritten <= Len(log) /\ sent <= lastWritten /\ announced <= sent
         /\ stream \in Stream /\ stream.from <= Len(log) /\ stream.cursor <= sent + 1
         /\ stream.bookmarkCursor <= announced + 1 /\ stream.lastReplayed <= Len(log)
         /\ stream.bookmarkRv <= Len(log)
<1>1. /\ stream.from \in Nat /\ stream.cursor \in Nat /\ stream.bookmarkCursor \in Nat
      /\ stream.lastReplayed \in Nat /\ stream.bookmarkRv \in Nat
  BY DEF TypeOK, Stream
<1>2. Len(log) \in Nat
  BY DEF TypeOK
<1>3. /\ handler \in Handler /\ handler.lastRv <= Len(log)
      /\ client \in Client /\ client.rv <= Len(log)
  BY <1>2 DEF TypeOK, Handler, Client
<1>4. /\ lastWritten \in Nat /\ sent \in Nat /\ announced \in Nat
      /\ lastWritten <= Len(log) /\ sent <= lastWritten /\ announced <= sent
  BY <1>2 DEF TypeOK
<1> QED
  BY <1>1, <1>2, <1>3, <1>4 DEF TypeOK

\* The bounds TypeOK puts on the handler and the client, from the other side.
LEMMA TypesBack ==
  ASSUME NEW n \in Nat, NEW h \in Handler, h.lastRv <= n, NEW c \in Client, c.rv <= n
  PROVE  /\ h \in [everMatched : SUBSET Keys, locallyDeleted : SUBSET Keys, lastRv : 0 .. n]
         /\ c \in [cache : SUBSET Keys, rv : 0 .. n, phantom : SUBSET Keys]
<1>1. h.lastRv \in 0 .. n /\ c.rv \in 0 .. n
  BY DEF Handler, Client
<1> QED
  BY <1>1 DEF Handler, Client

LEMMA CommitOK ==
  ASSUME ResponseInv, NEW e \in Event, Commit(e), e.rev = Len(log) + 1,
         e.type = "ADDED"   => ~There(log, e.key, Len(log)),
         e.type = "DELETED" => (e.sel = "in" <=> Held(log, e.key, Len(log)))
  PROVE  ResponseInv'
<1> DEFINE n == Len(log)
<1>1. log \in Seq(Event) /\ n \in Nat /\ log' = Append(log, e)
  BY DEF ResponseInv, TypeOK, Commit
<1>2. /\ Len(log') = n + 1 /\ log'[n + 1] = e /\ \A i \in 1 .. n : log'[i] = log[i]
      /\ log' \in Seq(Event)
  BY <1>1
<1>3. UNCHANGED <<lastWritten, sent, announced, stream, handler, client, opens>>
  BY DEF Commit
<1>4. TypeOK'
  <2>1. TypeOK /\ handler \in Handler /\ handler.lastRv <= n + 1
        /\ client \in Client /\ client.rv <= n + 1 /\ n + 1 \in Nat
    <3>1. TypeOK
      BY DEF ResponseInv
    <3>2. /\ handler \in Handler /\ handler.lastRv <= n
          /\ client \in Client /\ client.rv <= n
      BY <3>1, Types, Zenon
    <3>3. handler.lastRv \in Nat /\ client.rv \in Nat
      BY <3>2 DEF Handler, Client
    <3> QED
      BY <1>1, <3>1, <3>2, <3>3, SMTT(30)
  <2>2. /\ handler' \in [everMatched : SUBSET Keys, locallyDeleted : SUBSET Keys,
                         lastRv : 0 .. Len(log')]
        /\ client' \in [cache : SUBSET Keys, rv : 0 .. Len(log'), phantom : SUBSET Keys]
    BY <2>1, <1>2, <1>3, TypesBack
  <2> QED
    BY <1>1, <1>2, <1>3, <2>1, <2>2, Types, SMTT(30) DEF TypeOK
<1> HIDE DEF n
<1>5. LogInv'
  <2> SUFFICES ASSUME NEW r \in 1 .. Len(log')
               PROVE  /\ log'[r].rev = r
                      /\ log'[r].type = "ADDED" => ~There(log', log'[r].key, r - 1)
                      /\ log'[r].type = "DELETED" =>
                           (log'[r].sel = "in" <=> Held(log', log'[r].key, r - 1))
    BY DEF LogInv
  <2> DEFINE q == r - 1
  <2>1. q \in Nat /\ q <= q /\ (\A i \in 1 .. q : log'[i] = log[i]) /\ \A i \in 1 .. q : ~(i > q)
    BY <1>1, <1>2
  <2> HIDE DEF q
  <2>2. \A k : /\ There(log', k, q) <=> There(log, k, q)
               /\ Held(log', k, q) <=> Held(log, k, q)
    BY <2>1, HeldKept
  <2>3. CASE r <= n
    <3>1. r \in 1 .. Len(log) /\ log'[r] = log[r]
      BY <2>3, <1>1, <1>2 DEF n
    <3> QED
      BY <3>1, <2>2 DEF q, ResponseInv, LogInv
  <2>4. CASE r = n + 1
    <3>1. log'[r] = e /\ q = n /\ e.rev = r
      BY <2>4, <1>1, <1>2 DEF q, n
    <3>2. /\ e.type = "ADDED"   => ~There(log', e.key, q)
          /\ e.type = "DELETED" => (e.sel = "in" <=> Held(log', e.key, q))
      BY <2>2, <3>1 DEF n
    <3> QED
      BY <3>1, <3>2 DEF q
  <2> QED
    BY <2>3, <2>4, <1>1, <1>2
<1>6. OpeningInv'
  <2>1. stream.from \in Nat /\ \A i \in 1 .. stream.from : log'[i] = log[i]
    BY <1>2, <1>1, Types DEF ResponseInv, TypeOK, n
  <2>2. HeldSet(log', stream.from) = HeldSet(log, stream.from)
    BY <2>1, GrownLog
  <2> QED
    BY <2>2, <1>3 DEF ResponseInv, OpeningInv
<1>7. DeliveringInv'
  <2>1. /\ stream.lastReplayed \in Nat /\ stream.from \in Nat
        /\ \A i \in 1 .. stream.lastReplayed : log'[i] = log[i]
    BY <1>2, <1>1, Types DEF ResponseInv, TypeOK, n
  <2> DEFINE p == stream.lastReplayed
             f == stream.from
  <2> HIDE DEF p, f
  <2>2. /\ Followed(log, handler, client, p) => Followed(log', handler, client, p)
        /\ Resumed(log, handler, client, f, p) => Resumed(log', handler, client, f, p)
    BY <2>1, GrownLog DEF p, f
  <2> QED
    BY <2>2, <1>3 DEF ResponseInv, DeliveringInv, p, f
<1>8. CursorInv'
  <2>1. ASSUME QueueInv(log, stream) PROVE QueueInv(log', stream)
    <3>1. stream.cursor <= n + 1 /\ stream.cursor \in Nat /\ stream.lastReplayed \in Nat
      BY <1>1, Types DEF ResponseInv, TypeOK, n
    <3>2. stream.queue \subseteq 1 .. n
      BY DEF ResponseInv, TypeOK, n
    <3>3. \A q \in stream.queue : q > stream.lastReplayed /\ q <= Len(log') /\ log'[q].key \in Keys
      BY <3>2, <1>1, <1>2, <2>1 DEF QueueInv, n
    <3>4. ASSUME NEW r \in stream.lastReplayed + 1 .. Len(log'),
                 log'[r].key \in Keys, r < stream.cursor \/ \E q \in stream.queue : r <= q
          PROVE  r \in stream.queue
      <4>1. r <= n
        BY <3>1, <3>2, <3>4, <1>1
      <4>2. r \in stream.lastReplayed + 1 .. Len(log) /\ log'[r] = log[r]
        BY <4>1, <3>1, <1>1, <1>2 DEF n
      <4> QED
        BY <4>2, <3>4, <2>1 DEF QueueInv
    <3> QED
      BY <3>3, <3>4 DEF QueueInv
  <2> QED
    BY <2>1, <1>3 DEF ResponseInv, CursorInv
<1> QED
  BY <1>4, <1>5, <1>6, <1>7, <1>8 DEF ResponseInv

LEMMA PutOK ==
  ASSUME ResponseInv, NEW k \in Keys \cup {Sibling, Foreign}, NEW sel \in {"in", "out"}, Put(k, sel)
  PROVE  ResponseInv'
<1> DEFINE e == [key |-> k, type |-> IF Exists(k) THEN "MODIFIED" ELSE "ADDED", sel |-> sel,
                 rev |-> Len(log) + 1]
<1>1. Len(log) \in Nat
  BY Types DEF ResponseInv
<1>2. Commit(e) /\ Len(log) + 1 \in 1 .. MaxRev
  BY <1>1, ResponseConstants DEF Put, Commit
<1>3. e \in Event
  BY <1>2 DEF Event
<1>4. /\ e.rev = Len(log) + 1 /\ e.key = k /\ e.type # "DELETED"
      /\ e.type = "ADDED" => ~Exists(k)
  OBVIOUS
<1> HIDE DEF e
<1>5. e.type = "ADDED" => ~There(log, e.key, Len(log))
  BY <1>1, <1>4, ExistsIsThere
<1> QED
  BY <1>2, <1>3, <1>4, <1>5, CommitOK

LEMMA DeleteOK ==
  ASSUME ResponseInv, NEW k \in Keys, Delete(k)
  PROVE  ResponseInv'
<1> DEFINE e == [key |-> k, type |-> "DELETED", sel |-> log[Max(Writes(k))].sel,
                 rev |-> Len(log) + 1]
<1>1. Len(log) \in Nat /\ log \in Seq(Event)
  BY Types DEF ResponseInv, TypeOK
<1>2. Commit(e) /\ Exists(k) /\ Len(log) + 1 \in 1 .. MaxRev
  BY <1>1, ResponseConstants DEF Delete, Commit
<1>3. log[Max(Writes(k))].sel \in {"in", "out"}
  <2>1. Writes(k) # {} /\ Writes(k) = LastOf(k, Len(log)) /\ Len(log) \in 0 .. Len(log)
    BY <1>1, <1>2 DEF Exists, Writes, LastOf
  <2>2. Max(Writes(k)) \in 1 .. Len(log)
    BY <2>1, <1>1, LastOfIs
  <2>3. \A i \in 1 .. Len(log) : log[i] \in Event
    BY <1>1
  <2>4. \A v \in Event : v.sel \in {"in", "out"}
    BY DEF Event
  <2> QED
    BY <2>2, <2>3, <2>4, Zenon
<1>4. e \in Event
  BY <1>2, <1>3 DEF Event
<1>5. /\ e.rev = Len(log) + 1 /\ e.key = k /\ e.type = "DELETED"
      /\ e.sel = log[Max(Writes(k))].sel
  OBVIOUS
<1> HIDE DEF e
<1>6. e.sel = "in" <=> Held(log, e.key, Len(log))
  BY <1>1, <1>2, <1>5, ExistsIsThere
<1> QED
  BY <1>2, <1>4, <1>5, <1>6, CommitOK

LEMMA AnnounceOK ==
  ASSUME ResponseInv, Bump \/ SendEvent \/ SendBookmark
  PROVE  ResponseInv'
<1>1. UNCHANGED <<log, stream, handler, client, opens>>
  BY DEF Bump, SendEvent, SendBookmark
<1>2. TypeOK'
  <2>1. TypeOK
    BY DEF ResponseInv
  <2>2. /\ Len(log) \in Nat /\ lastWritten \in Nat /\ sent \in Nat /\ announced \in Nat
        /\ stream.cursor \in Nat /\ stream.bookmarkCursor \in Nat
        /\ lastWritten <= Len(log) /\ sent <= lastWritten /\ announced <= sent
        /\ stream.cursor <= sent + 1 /\ stream.bookmarkCursor <= announced + 1
    BY <2>1, Types
  <2>3. /\ lastWritten' \in 0 .. Len(log) /\ sent' \in 0 .. lastWritten' /\ announced' \in 0 .. sent'
        /\ sent <= sent' /\ announced <= announced'
    BY <2>2 DEF Bump, SendEvent, SendBookmark
  <2>4. stream.cursor <= sent' + 1 /\ stream.bookmarkCursor <= announced' + 1
    BY <2>2, <2>3
  <2> QED
    BY <1>1, <2>1, <2>3, <2>4 DEF TypeOK
<1> QED
  BY <1>1, <1>2 DEF ResponseInv, LogInv, OpeningInv, DeliveringInv, CursorInv

LEMMA ListOK ==
  ASSUME ResponseInv, List
  PROVE  ResponseInv'
<1>1. UNCHANGED <<log, lastWritten, sent, announced, stream, handler, opens>> /\ stream.pc = "off"
  BY DEF List, writerVars
<1>2. TypeOK /\ Len(log) \in Nat /\ client \in Client
  BY Types DEF ResponseInv
<1>3. client' = [client EXCEPT !.cache = Scope(Len(log)), !.rv = Len(log)]
  BY DEF List
<1>4. Scope(Len(log)) \subseteq Keys
  BY DEF Scope
<1>5. client' \in [cache : SUBSET Keys, rv : 0 .. Len(log), phantom : SUBSET Keys]
  <2> DEFINE S == Scope(Len(log))
             n == Len(log)
  <2>1. S \in SUBSET Keys /\ n \in 0 .. n /\ client' = [client EXCEPT !.cache = S, !.rv = n]
    BY <1>2, <1>3, <1>4
  <2> HIDE DEF S, n
  <2>2. client' \in [cache : SUBSET Keys, rv : 0 .. n, phantom : SUBSET Keys]
    BY <2>1, <1>2 DEF Client
  <2> QED
    BY <2>2 DEF n
<1>6. TypeOK'
  BY <1>1, <1>2, <1>5 DEF TypeOK
<1> QED
  BY <1>1, <1>6 DEF ResponseInv, LogInv, OpeningInv, DeliveringInv, CursorInv, Opening, Delivering

LEMMA OpenOK ==
  ASSUME ResponseInv, NEW initial \in BOOLEAN, Open(initial)
  PROVE  ResponseInv'
<1> DEFINE from == IF initial THEN Len(log) ELSE client.rv
<1>1. UNCHANGED <<log, lastWritten, sent, announced, client>>
  BY DEF Open, writerVars
<1>2. TypeOK /\ Len(log) \in Nat /\ client \in Client /\ client.rv \in Nat /\ client.rv <= Len(log)
  BY Types DEF ResponseInv, Client
<1>3. from \in 0 .. Len(log)
  BY <1>2
<1> HIDE DEF from
<1>4. /\ stream' = [NoStream EXCEPT !.pc = "subscribe", !.from = from, !.lastReplayed = from,
                                   !.bookmarkRv = from,
                                   !.start = IF initial THEN "initial"
                                             ELSE IF client.cache = Scope(from) THEN "exact"
                                             ELSE "stale"]
      /\ handler' = [NoHandler EXCEPT !.lastRv = client.rv]
      /\ opens' \in 0 .. MaxOpens
  BY <1>2, ResponseConstants DEF Open, from, TypeOK
<1>5. /\ stream' \in Stream /\ stream'.pc = "subscribe" /\ stream'.from = from
      /\ stream'.lastReplayed = from /\ stream'.bookmarkRv = from /\ stream'.queue = {}
      /\ stream'.cursor = 0 /\ stream'.bookmarkCursor = 0
      /\ stream'.start = "exact" => client.cache = Scope(from)
  <2> DEFINE start == IF initial THEN "initial"
                      ELSE IF client.cache = Scope(from) THEN "exact" ELSE "stale"
  <2>1. start \in {"initial", "exact", "stale"} /\ (start = "exact" => client.cache = Scope(from))
    OBVIOUS
  <2>2. stream' = [pc |-> "subscribe", from |-> from, cursor |-> 0, bookmarkCursor |-> 0,
                   queue |-> {}, lastReplayed |-> from, bookmarkRv |-> from,
                   debounce |-> "unset", start |-> start]
    BY <1>4, Zenon DEF NoStream
  <2> HIDE DEF start
  <2>3. from \in Nat
    BY <1>2, <1>3
  <2> QED
    BY <2>1, <2>2, <2>3 DEF Stream
<1>6. /\ handler' \in [everMatched : SUBSET Keys, locallyDeleted : SUBSET Keys, lastRv : 0 .. Len(log)]
      /\ handler'.everMatched = {} /\ handler'.locallyDeleted = {}
  <2>1. handler' = [everMatched |-> {}, locallyDeleted |-> {}, lastRv |-> client.rv]
    BY <1>4 DEF NoHandler
  <2>2. client.rv \in 0 .. Len(log)
    BY <1>2
  <2> QED
    BY <2>1, <2>2
<1>7. TypeOK'
  <2>1. from \in Nat /\ from <= Len(log) /\ opens' \in 0 .. MaxOpens /\ sent \in Nat /\ announced \in Nat
    BY <1>2, <1>3, <1>4, Types
  <2> QED
    BY <1>1, <1>2, <2>1, <1>5, <1>6 DEF TypeOK
<1>8. stream'.start = "exact" => client'.cache = HeldSet(log', stream'.from)
  BY <1>1, <1>2, <1>3, <1>5, ScopeIsHeld
<1> QED
  BY <1>1, <1>5, <1>6, <1>7, <1>8
     DEF ResponseInv, LogInv, OpeningInv, DeliveringInv, CursorInv, Delivering

LEMMA SubscribeOK ==
  ASSUME ResponseInv, Subscribe
  PROVE  ResponseInv'
<1>1. UNCHANGED <<log, lastWritten, sent, announced, handler, client, opens>>
  BY DEF Subscribe, writerVars
<1>2. TypeOK /\ stream \in Stream /\ sent \in Nat /\ announced \in Nat
  BY Types DEF ResponseInv, TypeOK
<1>3. stream' = [stream EXCEPT !.pc = "snapshot", !.cursor = sent + 1,
                               !.bookmarkCursor = announced + 1]
  BY DEF Subscribe
<1>4. /\ stream' \in Stream /\ stream'.pc = "snapshot" /\ stream'.from = stream.from
      /\ stream'.cursor = sent + 1 /\ stream'.bookmarkCursor = announced + 1
      /\ stream'.queue = stream.queue /\ stream'.lastReplayed = stream.lastReplayed
      /\ stream'.bookmarkRv = stream.bookmarkRv /\ stream'.start = stream.start
  <2> DEFINE u == sent + 1
             v == announced + 1
  <2>1. /\ u \in Nat /\ v \in Nat
        /\ stream' = [stream EXCEPT !.pc = "snapshot", !.cursor = u, !.bookmarkCursor = v]
    BY <1>2, <1>3
  <2> HIDE DEF u, v
  <2>2. /\ stream' \in Stream /\ stream'.pc = "snapshot" /\ stream'.from = stream.from
        /\ stream'.cursor = u /\ stream'.bookmarkCursor = v
        /\ stream'.queue = stream.queue /\ stream'.lastReplayed = stream.lastReplayed
        /\ stream'.bookmarkRv = stream.bookmarkRv /\ stream'.start = stream.start
    BY <2>1, <1>2 DEF Stream
  <2> QED
    BY <2>2 DEF u, v
<1>5. TypeOK'
  BY <1>1, <1>2, <1>4 DEF TypeOK
<1>6. OpeningInv'
  BY <1>1, <1>4 DEF ResponseInv, OpeningInv, Opening, Subscribe
<1> QED
  BY <1>1, <1>2, <1>4, <1>5, <1>6 DEF ResponseInv, LogInv, DeliveringInv, CursorInv, Delivering

LEMMA SnapshotOK ==
  ASSUME ResponseInv, Snapshot
  PROVE  ResponseInv'
<1>1. UNCHANGED <<log, lastWritten, sent, announced, handler, client, opens>>
  BY DEF Snapshot, writerVars
<1>2. /\ TypeOK /\ stream \in Stream /\ sent \in Nat /\ lastWritten \in Nat /\ Len(log) \in Nat
      /\ stream.from \in Nat /\ stream.cursor \in Nat /\ stream.pc = "snapshot"
      /\ lastWritten <= Len(log) /\ stream.cursor <= sent + 1 /\ stream.cursor >= 1
  <2>1. TypeOK /\ CursorInv
    BY DEF ResponseInv
  <2>2. stream.pc = "snapshot"
    BY DEF Snapshot
  <2>3. stream.cursor >= 1
    BY <2>1, <2>2 DEF CursorInv
  <2> QED
    BY <2>1, <2>2, <2>3, Types
<1>3. PICK top \in sent .. lastWritten :
        stream' = [stream EXCEPT !.pc = "start",
                     !.queue = {r \in stream.from + 1 .. top : log[r].key \in Keys}]
  BY DEF Snapshot
<1> DEFINE Q == {r \in stream.from + 1 .. top : log[r].key \in Keys}
<1>4. top \in Nat /\ top <= Len(log) /\ sent <= top
  BY <1>2, <1>3
<1>5. Q \subseteq 1 .. Len(log)
  BY <1>2, <1>4
<1> HIDE DEF Q
<1>6. /\ stream' \in Stream /\ stream'.pc = "start" /\ stream'.from = stream.from
      /\ stream'.cursor = stream.cursor /\ stream'.bookmarkCursor = stream.bookmarkCursor
      /\ stream'.queue = Q /\ stream'.lastReplayed = stream.lastReplayed
      /\ stream'.bookmarkRv = stream.bookmarkRv /\ stream'.start = stream.start
  <2>1. Q \in SUBSET Nat
    BY <1>5, <1>2
  <2>2. stream' = [stream EXCEPT !.pc = "start", !.queue = Q]
    BY <1>3 DEF Q
  <2> QED
    BY <2>1, <2>2, <1>2 DEF Stream
<1>7. TypeOK'
  BY <1>1, <1>2, <1>5, <1>6 DEF TypeOK
<1>8. OpeningInv'
  BY <1>1, <1>2, <1>6 DEF ResponseInv, OpeningInv, Opening
<1>9. QueueInv(log, stream')
  <2>1. stream'.lastReplayed = stream.from
    BY <1>2, <1>6 DEF ResponseInv, OpeningInv, Opening
  <2>2. \A q \in Q : q > stream.from /\ q <= Len(log) /\ log[q].key \in Keys
    BY <1>2, <1>4 DEF Q
  <2>3. \A r \in stream.from + 1 .. Len(log) :
          log[r].key \in Keys /\ (r < stream.cursor \/ \E q \in Q : r <= q) => r \in Q
    BY <1>2, <1>4 DEF Q
  <2> QED
    BY <2>1, <2>2, <2>3, <1>6 DEF QueueInv
<1> QED
  BY <1>1, <1>2, <1>6, <1>7, <1>8, <1>9 DEF ResponseInv, LogInv, DeliveringInv, CursorInv, Delivering

LEMMA StartOK ==
  ASSUME ResponseInv, Start
  PROVE  ResponseInv'
<1> DEFINE scope == Scope(stream.from)
           lastRv == Max({handler.lastRv, stream.from})
<1>1. UNCHANGED <<log, lastWritten, sent, announced, opens>>
  BY DEF Start, writerVars
<1>2. /\ TypeOK /\ stream \in Stream /\ Len(log) \in Nat /\ stream.pc = "start"
      /\ stream.from \in 0 .. Len(log) /\ stream.lastReplayed = stream.from
      /\ handler \in Handler /\ handler.lastRv \in 0 .. Len(log)
      /\ client \in Client /\ client.rv \in 0 .. Len(log)
      /\ handler.everMatched = {} /\ handler.locallyDeleted = {}
  <2>1. TypeOK /\ OpeningInv /\ stream.pc = "start"
    BY DEF ResponseInv, Start
  <2>2. handler.lastRv \in Nat /\ client.rv \in Nat
    BY <2>1, Types DEF Handler, Client
  <2> QED
    BY <2>1, <2>2, Types DEF OpeningInv, Opening
<1>3. scope = HeldSet(log, stream.from) /\ scope \subseteq Keys
  BY <1>2, ScopeIsHeld DEF HeldSet
<1>4. lastRv \in 0 .. Len(log)
  <2>1. handler.lastRv \in Nat /\ stream.from \in Nat /\ Len(log) \in Nat
    BY <1>2
  <2> QED
    BY <1>2, <2>1, MaxOfTwo, SMTT(30)
<1>5. /\ stream.start = "initial" =>
           /\ handler' = [handler EXCEPT !.everMatched = scope, !.lastRv = lastRv]
           /\ client' = [cache |-> scope, rv |-> lastRv, phantom |-> {}]
      /\ stream.start # "initial" => handler' = handler /\ client' = client
      /\ stream' = [stream EXCEPT !.pc = Replaying(stream.queue)]
  BY DEF Start
<1> HIDE DEF scope, lastRv
<1>6. /\ stream' \in Stream /\ stream'.pc = Replaying(stream.queue) /\ stream'.from = stream.from
      /\ stream'.cursor = stream.cursor /\ stream'.bookmarkCursor = stream.bookmarkCursor
      /\ stream'.queue = stream.queue /\ stream'.lastReplayed = stream.lastReplayed
      /\ stream'.bookmarkRv = stream.bookmarkRv /\ stream'.start = stream.start
      /\ stream'.pc = IF stream'.queue = {} THEN "live" ELSE "replay"
  <2> DEFINE pc == Replaying(stream.queue)
  <2>1. pc \in {"live", "replay"} /\ stream' = [stream EXCEPT !.pc = pc]
    BY <1>5 DEF Replaying
  <2> HIDE DEF pc
  <2>2. /\ stream' \in Stream /\ stream'.pc = pc /\ stream'.from = stream.from
        /\ stream'.cursor = stream.cursor /\ stream'.bookmarkCursor = stream.bookmarkCursor
        /\ stream'.queue = stream.queue /\ stream'.lastReplayed = stream.lastReplayed
        /\ stream'.bookmarkRv = stream.bookmarkRv /\ stream'.start = stream.start
    BY <2>1, <1>2 DEF Stream
  <2> QED
    BY <2>2 DEF pc, Replaying
<1>7. stream.start = "initial" =>
        /\ handler'.everMatched = scope /\ handler'.locallyDeleted = {} /\ handler' \in Handler
        /\ handler'.lastRv = lastRv
        /\ client'.cache = scope /\ client'.rv = lastRv /\ client'.phantom = {} /\ client' \in Client
  <2> SUFFICES ASSUME stream.start = "initial"
               PROVE  /\ handler'.everMatched = scope /\ handler'.locallyDeleted = {}
                      /\ handler' \in Handler /\ handler'.lastRv = lastRv
                      /\ client'.cache = scope /\ client'.rv = lastRv /\ client'.phantom = {}
                      /\ client' \in Client
    OBVIOUS
  <2>1. scope \in SUBSET Keys /\ lastRv \in Nat
    BY <1>2, <1>3, <1>4
  <2>2. handler' = [everMatched |-> scope, locallyDeleted |-> {}, lastRv |-> lastRv]
    <3>1. handler = [everMatched |-> handler.everMatched, locallyDeleted |-> handler.locallyDeleted,
                     lastRv |-> handler.lastRv]
      BY <1>2 DEF Handler
    <3> QED
      BY <3>1, <1>2, <1>5
  <2>3. client' = [cache |-> scope, rv |-> lastRv, phantom |-> {}]
    BY <1>5
  <2> QED
    BY <2>1, <2>2, <2>3 DEF Handler, Client
<1>8. /\ handler' \in Handler /\ handler'.lastRv <= Len(log)
      /\ client' \in Client /\ client'.rv <= Len(log)
  BY <1>2, <1>4, <1>5, <1>7
<1>9. TypeOK'
  BY <1>1, <1>2, <1>6, <1>8, TypesBack DEF TypeOK
<1>10. stream.start = "initial" => Followed(log, handler', client', stream.from)
  BY <1>3, <1>7 DEF Followed
<1>11. stream.start # "stale" => Resumed(log, handler', client', stream.from, stream.from)
  <2>1. stream.start # "stale" => client'.cache = HeldSet(log, stream.from)
                                  /\ handler'.locallyDeleted = {}
    <3>1. stream.start \in {"initial", "exact", "stale"}
      BY <1>2 DEF Stream
    <3>2. stream.start = "exact" => client.cache = HeldSet(log, stream.from)
      BY <1>2 DEF ResponseInv, OpeningInv, Opening
    <3> QED
      BY <3>1, <3>2, <1>2, <1>3, <1>5, <1>7
  <2> QED
    BY <2>1 DEF Resumed, HeldSet
<1>12. DeliveringInv'
  BY <1>1, <1>2, <1>6, <1>10, <1>11 DEF DeliveringInv
<1>13. QueueInv(log, stream') /\ stream'.cursor >= 1
  BY <1>2, <1>6 DEF ResponseInv, CursorInv, QueueInv
<1> QED
  BY <1>1, <1>6, <1>9, <1>12, <1>13 DEF ResponseInv, LogInv, OpeningInv, CursorInv, Opening

\* One more event of the log reaches the handler.
LEMMA EventStep ==
  ASSUME ResponseInv, stream.pc \in Delivering, NEW r \in 1 .. Len(log),
         NextUnder(log, stream.lastReplayed, r), NEW g, NEW d,
         g = Handle(<<handler, client>>, log[r])[1], d = Handle(<<handler, client>>, log[r])[2]
  PROVE  /\ stream.start = "initial" => Followed(log, g, d, r)
         /\ stream.start # "stale" => Resumed(log, g, d, stream.from, r)
         /\ g \in Handler /\ g.lastRv <= Len(log) /\ d \in Client /\ d.rv <= Len(log)
         /\ stream.from <= r
<1>1. /\ Len(log) \in Nat /\ stream.from \in Nat /\ stream.lastReplayed \in Nat
      /\ handler \in Handler /\ handler.lastRv <= Len(log)
      /\ client \in Client /\ client.rv <= Len(log) /\ r \in Nat
  BY Types DEF ResponseInv
<1>2. log[r] \in Event
  BY DEF ResponseInv, TypeOK
<1>3. log[r].rev = r /\ TrueEvent(log, r) /\ log[r].type \in {"ADDED", "MODIFIED", "DELETED"}
  BY <1>2 DEF ResponseInv, LogInv, TrueEvent, Event
<1>4. log[r].key \in Keys /\ stream.lastReplayed < r
  BY DEF NextUnder
<1>5. Outcome(handler, client, log[r], g, d)
  BY <1>1, <1>3, <1>4, HandleOutcome
<1>6. /\ stream.from <= stream.lastReplayed
      /\ stream.start = "initial" => Followed(log, handler, client, stream.lastReplayed)
      /\ stream.start # "stale" => Resumed(log, handler, client, stream.from, stream.lastReplayed)
  BY DEF ResponseInv, DeliveringInv
<1>7. stream.start = "initial" => Followed(log, g, d, r)
  BY <1>1, <1>3, <1>5, <1>6, HandleFollowed
<1>8. stream.start # "stale" => Resumed(log, g, d, stream.from, r)
  BY <1>1, <1>3, <1>5, <1>6, HandleResumed
<1>9. g \in Handler /\ d \in Client /\ g.lastRv = Max({handler.lastRv, r}) /\ d.rv \in {client.rv, r}
  BY <1>3, <1>5 DEF Outcome
<1>10. handler.lastRv \in Nat
  BY <1>1 DEF Handler
<1>11. g.lastRv <= Len(log) /\ d.rv <= Len(log)
  <2>1. g.lastRv = IF handler.lastRv > r THEN handler.lastRv ELSE r
    BY <1>1, <1>9, <1>10, MaxOfTwo
  <2>2. r <= Len(log)
    BY <1>1
  <2>3. g.lastRv \in {handler.lastRv, r}
    BY <2>1
  <2> QED
    BY <2>2, <2>3, <1>1, <1>9
<1> QED
  BY <1>1, <1>4, <1>6, <1>7, <1>8, <1>9, <1>11

LEMMA ReplayEventOK ==
  ASSUME ResponseInv, ReplayEvent
  PROVE  ResponseInv'
<1> DEFINE r == Min(stream.queue)
           Q == stream.queue \ {r}
           p == stream.lastReplayed
<1>1. UNCHANGED <<log, lastWritten, sent, announced, opens>>
  BY DEF ReplayEvent, writerVars
<1>2. /\ TypeOK /\ stream \in Stream /\ Len(log) \in Nat /\ p \in Nat
      /\ stream.queue \subseteq 1 .. Len(log) /\ stream.queue # {} /\ stream.pc = "replay"
      /\ QueueInv(log, stream) /\ stream.cursor \in Nat /\ stream.cursor >= 1
  BY Types DEF ResponseInv, TypeOK, ReplayEvent, CursorInv
<1>3. r \in stream.queue /\ \A q \in stream.queue : r <= q
  <2>1. stream.queue \in SUBSET Nat
    BY <1>2
  <2>2. \E x \in stream.queue : \A y \in stream.queue : x <= y
    BY <2>1, <1>2, LeastNat
  <2> QED
    BY <2>2 DEF Min
<1>4. r \in 1 .. Len(log) /\ r \in Nat /\ r > p
  BY <1>2, <1>3 DEF QueueInv
<1>5. NextUnder(log, p, r)
  <2>1. log[r].key \in Keys
    BY <1>2, <1>3 DEF QueueInv
  <2>2. ASSUME NEW i \in p + 1 .. r - 1, log[i].key \in Keys PROVE FALSE
    <3>1. i \in p + 1 .. Len(log) /\ i <= r /\ i < r
      BY <1>2, <1>4
    <3>2. i \in stream.queue
      BY <3>1, <2>2, <1>2, <1>3 DEF QueueInv
    <3>3. r <= i
      BY <3>2, <1>3
    <3> QED
      BY <3>1, <3>3, <1>2, <1>4
  <2> QED
    BY <2>1, <2>2, <1>4 DEF NextUnder
<1>6. /\ handler' = Handle(<<handler, client>>, log[r])[1]
      /\ client' = Handle(<<handler, client>>, log[r])[2]
      /\ stream' = [stream EXCEPT !.pc = Replaying(Q), !.queue = Q, !.lastReplayed = Max({@, r})]
  BY DEF ReplayEvent
<1>7. Max({p, r}) = r
  BY <1>2, <1>4, MaxOfTwo
<1> HIDE DEF r
<1>8. /\ stream.start = "initial" => Followed(log, handler', client', r)
      /\ stream.start # "stale" => Resumed(log, handler', client', stream.from, r)
      /\ handler' \in Handler /\ handler'.lastRv <= Len(log)
      /\ client' \in Client /\ client'.rv <= Len(log)
      /\ stream.from <= r
  BY <1>2, <1>4, <1>5, <1>6, EventStep DEF Delivering
<1>9. /\ stream' \in Stream /\ stream'.from = stream.from
      /\ stream'.cursor = stream.cursor /\ stream'.bookmarkCursor = stream.bookmarkCursor
      /\ stream'.queue = Q /\ stream'.lastReplayed = r
      /\ stream'.bookmarkRv = stream.bookmarkRv /\ stream'.start = stream.start
      /\ stream'.pc = IF stream'.queue = {} THEN "live" ELSE "replay"
  <2> DEFINE pc == Replaying(Q)
             m == Max({p, r})
  <2>1. /\ pc \in {"live", "replay"} /\ m \in Nat /\ Q \in SUBSET Nat
        /\ stream' = [stream EXCEPT !.pc = pc, !.queue = Q, !.lastReplayed = m]
    BY <1>2, <1>4, <1>6, <1>7 DEF Replaying
  <2> HIDE DEF pc, m, Q
  <2>2. /\ stream' \in Stream /\ stream'.pc = pc /\ stream'.from = stream.from
        /\ stream'.cursor = stream.cursor /\ stream'.bookmarkCursor = stream.bookmarkCursor
        /\ stream'.queue = Q /\ stream'.lastReplayed = m
        /\ stream'.bookmarkRv = stream.bookmarkRv /\ stream'.start = stream.start
    BY <2>1, <1>2 DEF Stream
  <2>3. m = r
    BY <1>7 DEF m
  <2> QED
    BY <2>2, <2>3 DEF pc, Replaying
<1>10. TypeOK'
  <2>1. Q \subseteq 1 .. Len(log) /\ r <= Len(log)
    BY <1>2, <1>4
  <2> HIDE DEF Q
  <2> QED
    BY <1>1, <1>2, <1>8, <1>9, <2>1, TypesBack DEF TypeOK
<1>11. DeliveringInv'
  BY <1>1, <1>8, <1>9 DEF DeliveringInv
<1>12. QueueInv(log, stream')
  <2>1. \A q \in Q : q > r /\ q <= Len(log) /\ log[q].key \in Keys
    BY <1>2, <1>3, <1>4 DEF QueueInv
  <2>2. ASSUME NEW i \in r + 1 .. Len(log), log[i].key \in Keys,
               i < stream.cursor \/ \E q \in Q : i <= q
        PROVE  i \in Q
    <3>1. i \in p + 1 .. Len(log) /\ i # r
      BY <1>2, <1>4
    <3>2. i < stream.cursor \/ \E q \in stream.queue : i <= q
      BY <2>2
    <3> QED
      BY <3>1, <3>2, <2>2, <1>2 DEF QueueInv
  <2> HIDE DEF Q
  <2> QED
    BY <2>1, <2>2, <1>9 DEF QueueInv
<1> QED
  BY <1>1, <1>2, <1>9, <1>10, <1>11, <1>12 DEF ResponseInv, LogInv, OpeningInv, CursorInv, Opening

\* A bookmark only moves revisions.
LEMMA BookmarkKeeps ==
  ASSUME NEW h \in Handler, NEW c \in Client, NEW n \in Nat, h.lastRv <= n, c.rv <= n,
         NEW r \in 0 .. n, Bookmark(h, c, r)
  PROVE  /\ handler' \in Handler /\ handler'.lastRv <= n /\ client' \in Client /\ client'.rv <= n
         /\ \A L, p : Followed(L, h, c, p) => Followed(L, handler', client', p)
         /\ \A L, f, p : Resumed(L, h, c, f, p) => Resumed(L, handler', client', f, p)
<1> DEFINE m == Max({h.lastRv, r})
<1>1. h.lastRv \in Nat /\ r \in Nat /\ r <= n
  BY DEF Handler
<1>2. m \in Nat /\ m <= n
  BY <1>1, MaxOfTwo
<1>3. handler' = [h EXCEPT !.lastRv = m] /\ client' = [c EXCEPT !.rv = r]
  BY DEF Bookmark
<1> HIDE DEF m
<1>4. /\ handler'.everMatched = h.everMatched /\ handler'.locallyDeleted = h.locallyDeleted
      /\ handler' \in Handler /\ handler'.lastRv = m
      /\ client'.cache = c.cache /\ client'.phantom = c.phantom
      /\ client' \in Client /\ client'.rv = r
  BY <1>1, <1>2, <1>3 DEF Handler, Client
<1>5. \A L, p : Followed(L, h, c, p) => Followed(L, handler', client', p)
  BY <1>4 DEF Followed
<1>6. \A L, f, p : Resumed(L, h, c, f, p) => Resumed(L, handler', client', f, p)
  BY <1>4 DEF Resumed
<1> QED
  BY <1>1, <1>2, <1>4, <1>5, <1>6

LEMMA RecvEventOK ==
  ASSUME ResponseInv, RecvEvent
  PROVE  ResponseInv'
<1> DEFINE r == stream.cursor
           p == stream.lastReplayed
           n == Len(log)
           g == Handle(<<handler, client>>, log[r])[1]
           d == Handle(<<handler, client>>, log[r])[2]
<1>1. UNCHANGED <<log, lastWritten, sent, announced, opens>>
  BY DEF RecvEvent, writerVars
<1>2. /\ TypeOK /\ stream \in Stream /\ n \in Nat /\ p \in Nat /\ r \in Nat /\ r >= 1
      /\ sent \in Nat /\ sent <= n /\ r <= sent /\ stream.pc = "live" /\ stream.queue = {}
      /\ QueueInv(log, stream) /\ p <= n
  <2>1. TypeOK /\ CursorInv
    BY DEF ResponseInv
  <2>2. stream.pc = "live" /\ stream.cursor <= sent
    BY DEF RecvEvent
  <2>3. /\ stream \in Stream /\ n \in Nat /\ p \in Nat /\ r \in Nat
        /\ sent \in Nat /\ sent <= n /\ p <= n
    BY <2>1, Types
  <2>4. r >= 1 /\ stream.queue = {} /\ QueueInv(log, stream)
    BY <2>1, <2>2 DEF CursorInv
  <2> QED
    BY <2>1, <2>2, <2>3, <2>4
<1>3. r \in 1 .. n /\ log[r].rev = r
  BY <1>2 DEF ResponseInv, LogInv
<1>4. \A i \in p + 1 .. n : log[i].key \in Keys => i >= r
  BY <1>2 DEF QueueInv
<1>5. CASE log[r].key \in Keys /\ r > p
  <2>1. NextUnder(log, p, r)
    BY <1>2, <1>3, <1>4, <1>5 DEF NextUnder
  <2>2. Bookmark(g, d, r) /\ stream' = [stream EXCEPT !.cursor = @ + 1, !.lastReplayed = r]
    BY <1>3, <1>5 DEF RecvEvent
  <2>3. /\ stream.start = "initial" => Followed(log, g, d, r)
        /\ stream.start # "stale" => Resumed(log, g, d, stream.from, r)
        /\ g \in Handler /\ g.lastRv <= n /\ d \in Client /\ d.rv <= n
        /\ stream.from <= r
    <3>1. stream.pc \in Delivering
      BY <1>2 DEF Delivering
    <3> HIDE DEF r, p, g, d
    <3>2. g = Handle(<<handler, client>>, log[r])[1] /\ d = Handle(<<handler, client>>, log[r])[2]
      BY DEF g, d
    <3> QED
      BY <3>1, <3>2, <1>3, <2>1, EventStep DEF p
  <2> HIDE DEF g, d
  <2>4. r \in 0 .. n
    BY <1>2
  <2>5. /\ handler' \in Handler /\ handler'.lastRv <= n /\ client' \in Client /\ client'.rv <= n
        /\ stream.start = "initial" => Followed(log, handler', client', r)
        /\ stream.start # "stale" => Resumed(log, handler', client', stream.from, r)
    <3> HIDE DEF r, n
    <3> QED
      BY <2>2, <2>3, <2>4, <1>2, BookmarkKeeps
  <2>6. /\ stream' \in Stream /\ stream'.pc = stream.pc /\ stream'.from = stream.from
        /\ stream'.cursor = r + 1 /\ stream'.bookmarkCursor = stream.bookmarkCursor
        /\ stream'.queue = stream.queue /\ stream'.lastReplayed = r
        /\ stream'.bookmarkRv = stream.bookmarkRv /\ stream'.start = stream.start
    <3> DEFINE u == r + 1
    <3>1. u \in Nat /\ stream' = [stream EXCEPT !.cursor = u, !.lastReplayed = r]
      BY <1>2, <2>2
    <3> HIDE DEF u
    <3>2. /\ stream' \in Stream /\ stream'.pc = stream.pc /\ stream'.from = stream.from
          /\ stream'.cursor = u /\ stream'.bookmarkCursor = stream.bookmarkCursor
          /\ stream'.queue = stream.queue /\ stream'.lastReplayed = r
          /\ stream'.bookmarkRv = stream.bookmarkRv /\ stream'.start = stream.start
      BY <3>1, <1>2 DEF Stream
    <3> QED
      BY <3>2 DEF u
  <2>7. TypeOK'
    <3>1. r <= n /\ r + 1 <= sent + 1
      BY <1>2
    <3> QED
      BY <1>1, <1>2, <2>5, <2>6, <3>1, TypesBack DEF TypeOK
  <2>8. DeliveringInv'
    BY <1>1, <2>3, <2>5, <2>6 DEF DeliveringInv
  <2>9. QueueInv(log, stream') /\ stream'.cursor >= 1
    BY <1>2, <2>6 DEF QueueInv
  <2> QED
    BY <1>1, <1>2, <2>6, <2>7, <2>8, <2>9
       DEF ResponseInv, LogInv, OpeningInv, CursorInv, Opening
<1>6. CASE ~(log[r].key \in Keys /\ r > p)
  <2>1. UNCHANGED <<handler, client>> /\ stream' = [stream EXCEPT !.cursor = @ + 1]
    BY <1>3, <1>6 DEF RecvEvent
  <2> HIDE DEF g, d
  <2>2. /\ stream' \in Stream /\ stream'.pc = stream.pc /\ stream'.from = stream.from
        /\ stream'.cursor = r + 1 /\ stream'.bookmarkCursor = stream.bookmarkCursor
        /\ stream'.queue = stream.queue /\ stream'.lastReplayed = p
        /\ stream'.bookmarkRv = stream.bookmarkRv /\ stream'.start = stream.start
    <3> DEFINE u == r + 1
    <3>1. u \in Nat /\ stream' = [stream EXCEPT !.cursor = u]
      BY <1>2, <2>1
    <3> HIDE DEF u
    <3>2. /\ stream' \in Stream /\ stream'.pc = stream.pc /\ stream'.from = stream.from
          /\ stream'.cursor = u /\ stream'.bookmarkCursor = stream.bookmarkCursor
          /\ stream'.queue = stream.queue /\ stream'.lastReplayed = stream.lastReplayed
          /\ stream'.bookmarkRv = stream.bookmarkRv /\ stream'.start = stream.start
      BY <3>1, <1>2 DEF Stream
    <3> QED
      BY <3>2 DEF u
  <2>3. TypeOK'
    <3>1. r + 1 <= sent + 1
      BY <1>2
    <3> QED
      BY <1>1, <1>2, <2>1, <2>2, <3>1 DEF TypeOK
  <2>4. DeliveringInv'
    BY <1>1, <2>1, <2>2 DEF ResponseInv, DeliveringInv
  <2>5. QueueInv(log, stream') /\ stream'.cursor >= 1
    <3>1. \A i \in p + 1 .. n : log[i].key \in Keys => i >= r + 1
      BY <1>2, <1>4, <1>6
    <3> QED
      BY <1>2, <2>2, <3>1 DEF QueueInv
  <2> QED
    BY <1>1, <1>2, <2>2, <2>3, <2>4, <2>5
       DEF ResponseInv, LogInv, OpeningInv, CursorInv, Opening
<1> QED
  BY <1>5, <1>6

\* Steps that only move the bookmark side of the stream.
LEMMA StreamOnly ==
  ASSUME ResponseInv, stream.pc \in {"live", "timers"},
         UNCHANGED <<log, lastWritten, sent, announced, opens>>,
         handler' \in Handler, handler'.lastRv <= Len(log),
         client' \in Client, client'.rv <= Len(log),
         stream.start = "initial" =>
           Followed(log, handler', client', stream.lastReplayed),
         stream.start # "stale" =>
           Resumed(log, handler', client', stream.from, stream.lastReplayed),
         stream' \in Stream, stream'.pc \in {"live", "timers"}, stream'.from = stream.from,
         stream'.cursor = stream.cursor, stream'.bookmarkCursor <= announced + 1,
         stream'.queue = stream.queue, stream'.lastReplayed = stream.lastReplayed,
         stream'.bookmarkRv <= Len(log), stream'.start = stream.start
  PROVE  ResponseInv'
<1>1. TypeOK /\ Len(log) \in Nat
  BY Types DEF ResponseInv
<1>2. TypeOK'
  BY <1>1, TypesBack DEF TypeOK
<1>3. DeliveringInv'
  BY DEF ResponseInv, DeliveringInv, Delivering
<1>4. CursorInv'
  BY DEF ResponseInv, CursorInv, QueueInv
<1> QED
  BY <1>2, <1>3, <1>4 DEF ResponseInv, LogInv, OpeningInv, Opening

\* The handler and the client are left alone.
LEMMA TellsNothing ==
  ASSUME ResponseInv, stream.pc \in {"live", "timers"},
         UNCHANGED <<log, lastWritten, sent, announced, handler, client, opens>>,
         stream' \in Stream, stream'.pc \in {"live", "timers"}, stream'.from = stream.from,
         stream'.cursor = stream.cursor, stream'.bookmarkCursor <= announced + 1,
         stream'.queue = stream.queue, stream'.lastReplayed = stream.lastReplayed,
         stream'.bookmarkRv <= Len(log), stream'.start = stream.start
  PROVE  ResponseInv'
<1>1. /\ handler' \in Handler /\ handler'.lastRv <= Len(log)
      /\ client' \in Client /\ client'.rv <= Len(log)
  BY Types DEF ResponseInv
<1>2. stream.pc \in Delivering
  BY DEF Delivering
<1>3. /\ stream.start = "initial" => Followed(log, handler', client', stream.lastReplayed)
      /\ stream.start # "stale" => Resumed(log, handler', client', stream.from, stream.lastReplayed)
  BY <1>2 DEF ResponseInv, DeliveringInv
<1> QED
  BY <1>1, <1>3, StreamOnly

\* RecvBookmark and BookmarkLagged: nothing reaches the handler.
LEMMA RecvBookmarkOK ==
  ASSUME ResponseInv, RecvBookmark
  PROVE  ResponseInv'
<1> DEFINE r == stream.bookmarkCursor
           u == r + 1
<1>1. UNCHANGED <<log, lastWritten, sent, announced, handler, client, opens>> /\ stream.pc = "live"
  BY DEF RecvBookmark, writerVars
<1>2. /\ TypeOK /\ stream \in Stream /\ Len(log) \in Nat /\ announced \in Nat /\ r \in Nat
      /\ announced <= Len(log) /\ stream.bookmarkRv \in Nat /\ stream.bookmarkRv <= Len(log)
  <2>1. TypeOK
    BY DEF ResponseInv
  <2>2. Len(log) \in Nat /\ announced \in Nat /\ sent \in Nat /\ lastWritten \in Nat /\ r \in Nat
        /\ stream.bookmarkRv \in Nat
    BY <2>1, Types
  <2> QED
    BY <2>1, <2>2 DEF TypeOK
<1>3. r <= announced
  BY <1>2 DEF RecvBookmark, UnreadBookmarks
<1>4. \/ stream' = [stream EXCEPT !.bookmarkCursor = u, !.bookmarkRv = r, !.debounce = "set"]
      \/ stream' = [stream EXCEPT !.bookmarkCursor = u]
  BY DEF RecvBookmark
<1>5. u \in Nat /\ u <= announced + 1 /\ r <= Len(log)
  BY <1>2, <1>3
<1> HIDE DEF u, r
<1>6. CASE stream' = [stream EXCEPT !.bookmarkCursor = u, !.bookmarkRv = r, !.debounce = "set"]
  <2>1. /\ stream' \in Stream /\ stream'.pc = stream.pc /\ stream'.from = stream.from
        /\ stream'.cursor = stream.cursor /\ stream'.bookmarkCursor = u
        /\ stream'.queue = stream.queue /\ stream'.lastReplayed = stream.lastReplayed
        /\ stream'.bookmarkRv = r /\ stream'.start = stream.start
    BY <1>2, <1>5, <1>6 DEF Stream
  <2> QED
    BY <2>1, <1>1, <1>5, TellsNothing
<1>7. CASE stream' = [stream EXCEPT !.bookmarkCursor = u]
  <2>1. /\ stream' \in Stream /\ stream'.pc = stream.pc /\ stream'.from = stream.from
        /\ stream'.cursor = stream.cursor /\ stream'.bookmarkCursor = u
        /\ stream'.queue = stream.queue /\ stream'.lastReplayed = stream.lastReplayed
        /\ stream'.bookmarkRv = stream.bookmarkRv /\ stream'.start = stream.start
    BY <1>2, <1>5, <1>7 DEF Stream
  <2> QED
    BY <2>1, <1>1, <1>2, <1>5, TellsNothing
<1> QED
  BY <1>4, <1>6, <1>7

LEMMA BookmarkLaggedOK ==
  ASSUME ResponseInv, BookmarkLagged
  PROVE  ResponseInv'
<1> DEFINE u == announced + 1
<1>1. UNCHANGED <<log, lastWritten, sent, announced, handler, client, opens>> /\ stream.pc = "live"
  BY DEF BookmarkLagged, writerVars
<1>2. /\ stream \in Stream /\ announced \in Nat /\ stream.bookmarkRv <= Len(log)
      /\ u \in Nat /\ u <= announced + 1 /\ stream' = [stream EXCEPT !.bookmarkCursor = u]
  <2>1. TypeOK
    BY DEF ResponseInv
  <2>2. stream' = [stream EXCEPT !.bookmarkCursor = u]
    BY DEF BookmarkLagged
  <2> QED
    BY <2>1, <2>2, Types
<1> HIDE DEF u
<1>3. /\ stream' \in Stream /\ stream'.pc = stream.pc /\ stream'.from = stream.from
      /\ stream'.cursor = stream.cursor /\ stream'.bookmarkCursor = u
      /\ stream'.queue = stream.queue /\ stream'.lastReplayed = stream.lastReplayed
      /\ stream'.bookmarkRv = stream.bookmarkRv /\ stream'.start = stream.start
  BY <1>2 DEF Stream
<1> QED
  BY <1>1, <1>2, <1>3, TellsNothing

LEMMA PollOK ==
  ASSUME ResponseInv, PollPending \/ PollAgain
  PROVE  ResponseInv'
<1>1. /\ UNCHANGED <<log, lastWritten, sent, announced, handler, client, opens>>
      /\ stream.pc \in {"live", "timers"}
  BY DEF PollPending, PollAgain, writerVars
<1>2. PICK pc \in {"live", "timers"} : stream' = [stream EXCEPT !.pc = pc]
  BY DEF PollPending, PollAgain
<1>3. stream \in Stream /\ stream.bookmarkRv <= Len(log) /\ stream.bookmarkCursor <= announced + 1
  BY DEF ResponseInv, TypeOK
<1>4. /\ stream' \in Stream /\ stream'.pc = pc /\ stream'.from = stream.from
      /\ stream'.cursor = stream.cursor /\ stream'.bookmarkCursor = stream.bookmarkCursor
      /\ stream'.queue = stream.queue /\ stream'.lastReplayed = stream.lastReplayed
      /\ stream'.bookmarkRv = stream.bookmarkRv /\ stream'.start = stream.start
  BY <1>2, <1>3 DEF Stream
<1> QED
  BY <1>1, <1>2, <1>3, <1>4, TellsNothing

LEMMA DebounceFiresOK ==
  ASSUME ResponseInv, DebounceFires
  PROVE  ResponseInv'
<1> DEFINE r == Max({stream.bookmarkRv, stream.lastReplayed})
           n == Len(log)
<1>1. UNCHANGED <<log, lastWritten, sent, announced, opens>> /\ stream.pc = "live"
  BY DEF DebounceFires, writerVars
<1>2. /\ stream \in Stream /\ n \in Nat /\ stream.bookmarkRv \in 0 .. n
      /\ stream.lastReplayed \in 0 .. n /\ stream.bookmarkCursor <= announced + 1
      /\ handler \in Handler /\ handler.lastRv <= n /\ client \in Client /\ client.rv <= n
  BY Types DEF ResponseInv, TypeOK
<1>3. r \in 0 .. n
  BY <1>2, MaxOfTwo
<1>4. Bookmark(handler, client, r) /\ stream' = [stream EXCEPT !.debounce = "unset"]
  BY DEF DebounceFires
<1> HIDE DEF r, n
<1>5. /\ handler' \in Handler /\ handler'.lastRv <= n /\ client' \in Client /\ client'.rv <= n
      /\ \A L, p : Followed(L, handler, client, p) => Followed(L, handler', client', p)
      /\ \A L, f, p : Resumed(L, handler, client, f, p) => Resumed(L, handler', client', f, p)
  BY <1>2, <1>3, <1>4, BookmarkKeeps
<1>6. stream.pc \in Delivering
  BY <1>1 DEF Delivering
<1>7. /\ stream.start = "initial" => Followed(log, handler', client', stream.lastReplayed)
      /\ stream.start # "stale" => Resumed(log, handler', client', stream.from, stream.lastReplayed)
  BY <1>5, <1>6 DEF ResponseInv, DeliveringInv
<1>8. /\ stream' \in Stream /\ stream'.pc = stream.pc /\ stream'.from = stream.from
      /\ stream'.cursor = stream.cursor /\ stream'.bookmarkCursor = stream.bookmarkCursor
      /\ stream'.queue = stream.queue /\ stream'.lastReplayed = stream.lastReplayed
      /\ stream'.bookmarkRv = stream.bookmarkRv /\ stream'.start = stream.start
  BY <1>2, <1>4 DEF Stream
<1>9. stream.bookmarkRv <= Len(log)
  BY <1>2 DEF n
<1>10. /\ handler' \in Handler /\ handler'.lastRv <= Len(log)
       /\ client' \in Client /\ client'.rv <= Len(log)
  BY <1>5 DEF n
<1> QED
  BY <1>1, <1>2, <1>7, <1>8, <1>9, <1>10, StreamOnly

\* The client's revision alone changes.
LEMMA RevisionOnly ==
  ASSUME ResponseInv, Heartbeat \/ TimeOut
  PROVE  /\ client'.cache = client.cache /\ client'.phantom = client.phantom
         /\ client' \in Client /\ client'.rv <= Len(log)
<1> DEFINE v == Max({lastWritten, handler.lastRv})
<1>1. /\ lastWritten \in 0 .. Len(log) /\ Len(log) \in Nat /\ client \in Client
      /\ handler.lastRv \in 0 .. Len(log)
  BY Types DEF ResponseInv, TypeOK, Handler
<1>2. v \in Nat /\ v <= Len(log)
  BY <1>1, MaxOfTwo
<1>3. client' = [client EXCEPT !.rv = v]
  BY DEF Heartbeat, TimeOut
<1> HIDE DEF v
<1> QED
  BY <1>1, <1>2, <1>3 DEF Client

LEMMA HeartbeatOK ==
  ASSUME ResponseInv, Heartbeat
  PROVE  ResponseInv'
<1>1. /\ UNCHANGED <<log, lastWritten, sent, announced, handler, opens>> /\ stream.pc = "timers"
      /\ stream' = [stream EXCEPT !.pc = "live"]
  BY DEF Heartbeat, writerVars
<1>2. /\ client'.cache = client.cache /\ client'.phantom = client.phantom
      /\ client' \in Client /\ client'.rv <= Len(log)
  BY RevisionOnly
<1>3. /\ stream \in Stream /\ stream.bookmarkRv <= Len(log) /\ stream.bookmarkCursor <= announced + 1
      /\ handler' \in Handler /\ handler'.lastRv <= Len(log)
  BY <1>1, Types DEF ResponseInv, TypeOK
<1>4. /\ stream' \in Stream /\ stream'.pc = "live" /\ stream'.from = stream.from
      /\ stream'.cursor = stream.cursor /\ stream'.bookmarkCursor = stream.bookmarkCursor
      /\ stream'.queue = stream.queue /\ stream'.lastReplayed = stream.lastReplayed
      /\ stream'.bookmarkRv = stream.bookmarkRv /\ stream'.start = stream.start
  BY <1>1, <1>3 DEF Stream
<1>5. stream.pc \in Delivering
  BY <1>1 DEF Delivering
<1>6. /\ stream.start = "initial" => Followed(log, handler', client', stream.lastReplayed)
      /\ stream.start # "stale" => Resumed(log, handler', client', stream.from, stream.lastReplayed)
  BY <1>1, <1>2, <1>5 DEF ResponseInv, DeliveringInv, Followed, Resumed
<1> QED
  BY <1>1, <1>2, <1>3, <1>4, <1>6, StreamOnly

LEMMA StreamEndsOK ==
  ASSUME ResponseInv, TimeOut \/ Disconnect
  PROVE  ResponseInv'
<1>1. /\ UNCHANGED <<log, lastWritten, sent, announced, opens>>
      /\ stream' = NoStream /\ handler' = NoHandler
  BY DEF TimeOut, Disconnect, writerVars
<1>2. client' \in Client /\ client'.rv <= Len(log)
  <2>1. CASE TimeOut
    BY <2>1, RevisionOnly
  <2>2. CASE Disconnect
    BY <2>2, Types DEF ResponseInv, Disconnect
  <2> QED
    BY <2>1, <2>2
<1>3. TypeOK /\ Len(log) \in Nat /\ sent \in Nat /\ announced \in Nat
  BY Types DEF ResponseInv
<1>4. /\ stream' \in Stream /\ stream'.pc = "off" /\ stream'.from = 0 /\ stream'.cursor = 0
      /\ stream'.bookmarkCursor = 0 /\ stream'.queue = {} /\ stream'.lastReplayed = 0
      /\ stream'.bookmarkRv = 0
  BY <1>1 DEF NoStream, Stream
<1>5. handler' \in Handler /\ handler'.lastRv <= Len(log)
  <2>1. handler' = [everMatched |-> {}, locallyDeleted |-> {}, lastRv |-> 0]
    BY <1>1 DEF NoHandler
  <2> QED
    BY <2>1, <1>3 DEF Handler
<1>6. TypeOK'
  BY <1>1, <1>2, <1>3, <1>4, <1>5, TypesBack DEF TypeOK
<1> QED
  BY <1>1, <1>4, <1>6
     DEF ResponseInv, LogInv, OpeningInv, DeliveringInv, CursorInv, Opening, Delivering

-------------------------------------------------------------------------------
(* The theorems.                                                            *)

\* The inductive invariant of a watch response: the log is truthful, what is
\* left to replay has no gap, and handler, cache and selection agree.
THEOREM ResponseInvariant == Spec => []ResponseInv
<1>1. Init => ResponseInv
  <2> SUFFICES ASSUME Init PROVE ResponseInv
    OBVIOUS
  <2>1. log = <<>> /\ Len(log) = 0 /\ stream = NoStream /\ handler = NoHandler
        /\ lastWritten = 0 /\ sent = 0 /\ announced = 0
        /\ client = [cache |-> {}, rv |-> 0, phantom |-> {}] /\ opens = 0
    BY DEF Init
  <2>2. /\ stream \in Stream /\ stream.pc = "off" /\ stream.from = 0 /\ stream.cursor = 0
        /\ stream.bookmarkCursor = 0 /\ stream.queue = {} /\ stream.lastReplayed = 0
        /\ stream.bookmarkRv = 0
    BY <2>1 DEF NoStream, Stream
  <2>3. TypeOK
    BY <2>1, <2>2, ResponseConstants DEF TypeOK, NoHandler
  <2> QED
    BY <2>1, <2>2, <2>3
       DEF ResponseInv, LogInv, OpeningInv, DeliveringInv, CursorInv, Opening, Delivering
<1>2. ResponseInv /\ [Next]_vars => ResponseInv'
  <2> SUFFICES ASSUME ResponseInv, [Next]_vars PROVE ResponseInv'
    OBVIOUS
  <2>1. ASSUME WriterNext PROVE ResponseInv'
    <3>1. ASSUME NEW k \in Keys, Delete(k) PROVE ResponseInv'
      BY <3>1, DeleteOK
    <3>2. ASSUME NEW k \in Keys, NEW sel \in {"in", "out"}, Put(k, sel) PROVE ResponseInv'
      BY <3>2, PutOK
    <3>3. ASSUME NEW k \in {Sibling, Foreign}, Put(k, "in") PROVE ResponseInv'
      BY <3>3, PutOK
    <3>4. ASSUME Bump \/ SendEvent \/ SendBookmark PROVE ResponseInv'
      BY <3>4, AnnounceOK
    <3> QED
      BY <2>1, <3>1, <3>2, <3>3, <3>4, Zenon DEF WriterNext
  <2>2. ASSUME StreamNext PROVE ResponseInv'
    BY <2>2, SubscribeOK, SnapshotOK, StartOK, ReplayEventOK, RecvEventOK, RecvBookmarkOK,
       BookmarkLaggedOK, DebounceFiresOK, Zenon DEF StreamNext
  <2>3. ASSUME NEW initial \in BOOLEAN, Open(initial) PROVE ResponseInv'
    BY <2>3, OpenOK
  <2>4. ASSUME UNCHANGED vars PROVE ResponseInv'
    BY <2>4 DEF vars, writerVars, ResponseInv, TypeOK, LogInv, OpeningInv, DeliveringInv, CursorInv
  <2> QED
    BY <2>1, <2>2, <2>3, <2>4, ListOK, PollOK, HeartbeatOK, StreamEndsOK, Zenon DEF Next
<1> QED
  BY <1>1, <1>2, PTL DEF Spec

\* What Reached stands for: nothing under the prefix lies between it and the
\* last event told.
LEMMA ReachedIsQuiet ==
  ASSUME ResponseInv, stream.pc \in Delivering
  PROVE  /\ Reached \in 0 .. Len(log) /\ stream.lastReplayed <= Reached
         /\ \A i \in stream.lastReplayed + 1 .. Reached : log[i].key \notin Keys
         /\ \A k \in Keys : Held(log, k, Reached) <=> Held(log, k, stream.lastReplayed)
         /\ Scope(Reached) = HeldSet(log, stream.lastReplayed)
<1> DEFINE p == stream.lastReplayed
           m == stream.cursor - 1
<1>1. /\ Len(log) \in Nat /\ sent \in Nat /\ p \in Nat /\ p <= Len(log) /\ stream.cursor \in Nat
      /\ stream.cursor <= sent + 1 /\ sent <= Len(log)
  <2>1. TypeOK
    BY DEF ResponseInv
  <2>2. Len(log) \in Nat /\ sent \in Nat /\ lastWritten \in Nat
    BY <2>1, Types
  <2> QED
    BY <2>1, <2>2, Types
<1>2. stream.cursor >= 1 /\ QueueInv(log, stream)
  BY DEF ResponseInv, CursorInv, Delivering
<1>3. m \in Nat /\ m <= Len(log)
  BY <1>1, <1>2
<1>4. /\ Reached \in 0 .. Len(log) /\ p <= Reached
      /\ stream.pc # "replay" => Reached = IF p > m THEN p ELSE m
      /\ stream.pc = "replay" => Reached = p
  <2>1. Max({p, m}) = IF p > m THEN p ELSE m
    BY <1>1, <1>3, MaxOfTwo
  <2>2. /\ stream.pc # "replay" => Reached = Max({p, m})
        /\ stream.pc = "replay" => Reached = p
    BY DEF Reached
  <2> HIDE DEF p, m
  <2> QED
    BY <1>1, <1>3, <2>1, <2>2
<1>5. ASSUME NEW i \in p + 1 .. Reached, log[i].key \in Keys PROVE FALSE
  <2>1. stream.pc # "replay" /\ i \in p + 1 .. Len(log) /\ i < stream.cursor
    BY <1>1, <1>2, <1>3, <1>4
  <2>2. stream.queue = {}
    BY <2>1 DEF ResponseInv, CursorInv, Delivering
  <2> QED
    BY <2>1, <2>2, <1>2, <1>5 DEF QueueInv
<1> DEFINE q == Reached
<1>6. q \in Nat /\ p <= q /\ \A k \in Keys : \A i \in 1 .. q : i > p => log[i].key # k
  BY <1>1, <1>4, <1>5
<1>7. \A i \in 1 .. p : log[i] = log[i]
  OBVIOUS
<1>8. \A k \in Keys : Held(log, k, q) <=> Held(log, k, p)
  <2> HIDE DEF p, q
  <2> QED
    BY <1>1, <1>6, <1>7, HeldKept
<1>9. Scope(q) = HeldSet(log, q)
  BY <1>1, <1>4, ScopeIsHeld
<1>10. HeldSet(log, q) = HeldSet(log, p)
  BY <1>8 DEF HeldSet
<1> QED
  BY <1>4, <1>5, <1>8, <1>9, <1>10

\* A client given the initial state by its stream always holds exactly the
\* objects in its selection as of what the stream has reached: for any keys,
\* any writes, any order of the two channels and any number of watches.
THEOREM SelectionIsFollowed == Spec => []SelectionFollowed
<1>1. ResponseInv => SelectionFollowed
  BY ReachedIsQuiet DEF SelectionFollowed, ResponseInv, DeliveringInv, Followed
<1> QED
  BY <1>1, ResponseInvariant, PTL

\* Such a client is never told of the deletion of an object it does not hold
\* (should_emit_synthetic_delete, locally_deleted), and every revision it is
\* told is committed.
THEOREM DeletesAreNeverPhantom == Spec => []NoPhantomDelete
<1>1. ResponseInv => NoPhantomDelete
  BY DEF NoPhantomDelete, ResponseInv, DeliveringInv, Followed
<1> QED
  BY <1>1, ResponseInvariant, PTL

\* A client that resumed with a right cache follows every object that did not
\* leave its selection.
THEOREM ResumesAreFollowed == Spec => []ResumeFollowed
<1>1. ResponseInv => ResumeFollowed
  <2> SUFFICES ASSUME ResponseInv, stream.pc \in Delivering, stream.start # "stale", NEW k \in Keys,
                      \A i \in stream.from + 1 .. Reached : log[i].key = k => log[i].sel = "in"
               PROVE  k \in client.cache <=> k \in Scope(Reached)
    BY DEF ResumeFollowed
  <2>1. /\ Len(log) \in Nat /\ stream.from \in Nat /\ stream.lastReplayed \in Nat
    BY Types DEF ResponseInv
  <2>2. /\ Reached \in 0 .. Len(log) /\ stream.lastReplayed <= Reached
        /\ Scope(Reached) = HeldSet(log, stream.lastReplayed)
    BY ReachedIsQuiet
  <2>3. \A i \in stream.from + 1 .. stream.lastReplayed : log[i].key = k => log[i].sel = "in"
    BY <2>1, <2>2
  <2>4. k \in client.cache <=> Held(log, k, stream.lastReplayed)
    BY <2>3 DEF ResponseInv, DeliveringInv, Resumed
  <2> QED
    BY <2>2, <2>4 DEF HeldSet
<1> QED
  BY <1>1, ResponseInvariant, PTL

===============================================================================
