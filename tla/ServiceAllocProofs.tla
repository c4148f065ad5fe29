-------------------------- MODULE ServiceAllocProofs --------------------------
(***************************************************************************)
(* Proofs about the reservation of cluster IPs and node ports, for any     *)
(* Services, values and concurrent requests, with crashes and repairs at   *)
(* any point and clients that disconnect, as long as none of the races of  *)
(* ServiceAlloc occurs.                                                    *)
(***************************************************************************)
EXTENDS ServiceAlloc, FiniteSetTheorems, TLAPS

-------------------------------------------------------------------------------
(* The inductive invariant.                                                *)

\* No revision is ahead of the store's counter, so that a revision is given once.
Revisions ==
  /\ \A s \in Services : svc[s].rev <= rev
  /\ \A r \in Requests : req[r].exp <= rev

\* Nothing runs while the server is not up, and repair has put right what it
\* has passed.
Restarting ==
  /\ phase # "up" => \A r \in Requests : req[r] = Idle
  /\ phase = "seed" => \A v \in todo : Owner[v] # Nobody
  /\ \A v \in Values : phase = "repair" /\ v \notin todo =>
       /\ Holders(v) # {} => sentinel[v] # "free"
       /\ sentinel[v] = "plain" => Holders(v) # {}

OneHolder == \A v \in Values : \A s, t \in Holders(v) : s = t

\* A value that is kept for a Service, or that the next start would keep for it,
\* is held by nobody else.
OwnedForOwner ==
  \A v \in Values :
    /\ sentinel[v] = "owned" => Owner[v] # Nobody
    /\ sentinel[v] = "owned" \/ (Owner[v] # Nobody /\ sentinel[v] = "free")
         => Holders(v) \subseteq {Owner[v]}

\* A deletion is alone with its Service, which is not the one the start stores.
Exclusive ==
  /\ \A q, r \in Requests :
       q # r /\ req[q].svc = req[r].svc /\ req[r].svc # Nobody => req[r].op \notin Deletions
  /\ \A r \in Requests : req[r].op \in Deletions => req[r].svc # seeded

\* Once the start-up has stored its Service that stays; before, nobody has its
\* values.
SeededStays ==
  seeded # Nobody =>
    Stored(seeded) \/ (phase = "down" /\ \A v \in Values : Owner[v] = seeded => Holders(v) = {})

\* What was abandoned stays out of reach until the next start.
LostFits ==
  /\ lost # {} => phase = "up"
  /\ \A v \in lost : /\ sentinel[v] = "plain" /\ Holders(v) = {}
                      /\ \A r \in Requests : v \notin Settling(r)

\* r is a create or an update before its store write.
Writing(r) == req[r].pc \in {"reserve", "write"} /\ req[r].op \notin Deletions

\* What r knows of its Service still holds, or its write will be refused; all
\* it is about to store and has not reserved is kept for its Service.
Requested(r) ==
  /\ req[r].pc = "idle" => req[r] = Idle
  /\ req[r].pc # "idle" => req[r].svc \in Services
  /\ req[r].pc = "commit" => req[r].created = {}
  /\ req[r].op \in Deletions =>
       /\ req[r].pc \in {"write", "commit"}
       /\ req[r].created = {}
       /\ req[r].pc = "write" => /\ Stored(req[r].svc)
                                 /\ req[r].exp = svc[req[r].svc].rev
                                 /\ req[r].old = svc[req[r].svc].vals
  /\ Writing(r) /\ req[r].op = "create" => req[r].old = {}
  /\ Writing(r) /\ req[r].op = "update" =>
       /\ req[r].exp # 0
       /\ req[r].exp = svc[req[r].svc].rev => req[r].old = svc[req[r].svc].vals
       /\ \A v \in req[r].old : Owner[v] = req[r].svc => v \in req[r].want
  /\ Writing(r) /\ req[r].pc = "write" =>
       /\ req[r].stale = req[r].old \ req[r].want
       /\ \A v \in Missing(r) : PreReserved(r, v)

\* What r has still to settle is reserved and in no Service; only the deletion
\* of its owner settles a value that is kept for one.
Settles(r) ==
  \A v \in Settling(r) :
    /\ Holders(v) = {}
    /\ sentinel[v] # "free"
    /\ req[r].pc # "commit" => sentinel[v] = "plain"
    /\ sentinel[v] = "owned" => req[r].op \in Deletions /\ req[r].svc = Owner[v]

AllocInv ==
  /\ TypeOK /\ Revisions /\ Restarting /\ OneHolder /\ OwnedForOwner
  /\ HeldIsReserved /\ NothingLeaks /\ OneSettler /\ Exclusive /\ SeededStays /\ LostFits
  /\ \A r \in Requests : Requested(r) /\ Settles(r)

-------------------------------------------------------------------------------
(* Steps that change nothing but one request.                              *)

LEMMA IdleIsRequest == Idle \in Request
  BY ServiceAllocConstants DEF Idle, Request

LEMMA RequestFacts ==
  ASSUME AllocInv, NEW r \in Requests
  PROVE  req[r] \in Request /\ req[r].exp <= rev /\ req[r].created \subseteq req[r].want
  BY DEF AllocInv, TypeOK, Revisions

LEMMA RequestOnly ==
  ASSUME AllocInv, NEW r \in Requests, NEW n \in Request, phase = "up",
         req' = [req EXCEPT ![r] = n],
         UNCHANGED <<svc, sentinel, phase, todo, rev, seeded, lost>>,
         n.exp <= rev, n.created \subseteq n.want,
         Settling(r)' = Settling(r), Requested(r)', Settles(r)', Exclusive'
  PROVE  AllocInv'
<1>1. req'[r] = n /\ \A q \in Requests \ {r} : req'[q] = req[q]
  BY DEF AllocInv, TypeOK
<1>2. \A v : Holders(v)' = Holders(v)
  BY DEF Holders, Stored
<1>3. \A q \in Requests : Settling(q)' = Settling(q)
  BY <1>1 DEF Settling
<1>4. TypeOK'
  BY <1>1 DEF AllocInv, TypeOK
<1>5. Revisions'
  BY <1>1 DEF AllocInv, Revisions
<1>6. Restarting' /\ OneHolder' /\ OwnedForOwner' /\ HeldIsReserved' /\ NothingLeaks' /\ OneSettler'
  BY <1>2, <1>3, <1>4 DEF AllocInv, Restarting, OneHolder, OwnedForOwner, HeldIsReserved, NothingLeaks, OneSettler
<1>8. SeededStays' /\ LostFits'
  BY <1>2, <1>3 DEF AllocInv, SeededStays, LostFits, Stored
<1>7. ASSUME NEW q \in Requests \ {r} PROVE Requested(q)' /\ Settles(q)'
  BY <1>1, <1>2, <1>3 DEF AllocInv, Requested, Settles, Writing, Missing, PreReserved, Stored
<1> QED  BY <1>4, <1>5, <1>6, <1>7, <1>8 DEF AllocInv

\* A request that may be sent leaves deletions alone with their Services.
LEMMA SentExclusive ==
  ASSUME AllocInv, Races = {}, NEW r \in Requests, NEW s \in Services, NEW op,
         req'[r].svc = s, req'[r].op = op,
         \A q \in Requests \ {r} : req'[q] = req[q], Sent(s, op), seeded' = seeded
  PROVE  Exclusive'
<1>1. /\ op \in Deletions => s # seeded
      /\ \A q \in Requests \ {r} : req[q].svc = s => op \notin Deletions /\ req[q].op \notin Deletions
  BY DEF Sent
<1> QED  BY <1>1 DEF Exclusive, AllocInv

LEMMA StartCreateInv ==
  ASSUME AllocInv, Races = {}, NEW r \in Requests, NEW s \in Services,
         NEW want \in SUBSET Values, NEW auto \in BOOLEAN, StartCreate(r, s, want, auto)
  PROVE  AllocInv'
<1> DEFINE n == [Idle EXCEPT !.pc = "reserve", !.svc = s, !.want = want, !.auto = auto]
<1>1. req[r] = Idle /\ req' = [req EXCEPT ![r] = n] /\ phase = "up"
      /\ UNCHANGED <<svc, sentinel, phase, todo, rev, seeded, lost>>
  BY DEF StartCreate, AllocInv, Requested
<1>2. /\ n \in Request
      /\ n.exp <= rev /\ n.created \subseteq n.want
  <2>1. n \in Request
    BY IdleIsRequest DEF Request
  <2>2. n.exp = 0 /\ n.created = {} /\ rev \in Nat
    BY DEF Idle, AllocInv, TypeOK
  <2> QED  BY <2>1, <2>2
<1>3. req'[r] = n /\ \A q \in Requests \ {r} : req'[q] = req[q]
  BY <1>1 DEF AllocInv, TypeOK
<1>4. /\ n.pc = "reserve" /\ n.op = "create" /\ n.svc = s /\ n.exp = 0 /\ n.old = {}
      /\ n.want = want /\ n.created = {} /\ n.stale = {}
  BY DEF Idle
<1> HIDE DEF n
<1>5. Settling(r) = {} /\ Settling(r)' = {}
  BY <1>1, <1>3, <1>4 DEF Settling, Idle
<1>6. Requested(r)' /\ Settles(r)'
  BY <1>1, <1>3, <1>4, <1>5 DEF Requested, Settles, Writing, Deletions, KeepsVip, Stored
<1>7. Exclusive'
  BY <1>1, <1>3, <1>4, SentExclusive DEF StartCreate
<1> QED  BY <1>1, <1>2, <1>5, <1>6, <1>7, RequestOnly

LEMMA StartUpdateInv ==
  ASSUME AllocInv, Races = {}, NEW r \in Requests, NEW s \in Services,
         NEW want \in SUBSET Values, NEW auto \in BOOLEAN, NEW blind \in BOOLEAN,
         StartUpdate(r, s, want, auto, blind)
  PROVE  AllocInv'
<1> DEFINE n == [Idle EXCEPT !.pc = "reserve", !.op = "update", !.svc = s, !.exp = svc[s].rev,
                             !.old = svc[s].vals, !.want = want, !.auto = auto]
<1>1. /\ req[r] = Idle /\ req' = [req EXCEPT ![r] = n] /\ phase = "up"
      /\ UNCHANGED <<svc, sentinel, phase, todo, rev, seeded, lost>>
      /\ Stored(s) /\ KeepsVip(s, want)
  BY DEF StartUpdate, AllocInv, Requested
<1>2. n \in Request /\ n.exp <= rev /\ n.created \subseteq n.want
  BY ServiceAllocConstants DEF Request, Idle, AllocInv, TypeOK, Revisions
<1>3. req'[r] = n /\ \A q \in Requests \ {r} : req'[q] = req[q]
  BY <1>1 DEF AllocInv, TypeOK
<1>4. /\ n.pc = "reserve" /\ n.op = "update" /\ n.svc = s /\ n.exp = svc[s].rev /\ n.old = svc[s].vals
      /\ n.want = want /\ n.created = {} /\ n.stale = {}
  BY DEF Idle
<1> HIDE DEF n
<1>5. Settling(r) = {} /\ Settling(r)' = {}
  BY <1>1, <1>3, <1>4 DEF Settling, Idle
<1>6. Requested(r)' /\ Settles(r)'
  BY <1>1, <1>3, <1>4, <1>5 DEF Requested, Settles, Writing, Deletions, KeepsVip, Stored
<1>7. Exclusive'
  BY <1>1, <1>3, <1>4, SentExclusive DEF StartUpdate
<1> QED  BY <1>1, <1>2, <1>5, <1>6, <1>7, RequestOnly

LEMMA StartDeleteInv ==
  ASSUME AllocInv, Races = {}, NEW r \in Requests, NEW s \in Services, NEW op \in Deletions,
         StartDelete(r, s, op)
  PROVE  AllocInv'
<1> DEFINE n == [Idle EXCEPT !.pc = "write", !.op = op, !.svc = s, !.exp = svc[s].rev,
                             !.old = svc[s].vals]
<1>1. /\ req[r] = Idle /\ req' = [req EXCEPT ![r] = n] /\ phase = "up"
      /\ UNCHANGED <<svc, sentinel, phase, todo, rev, seeded, lost>>
      /\ Stored(s)
  BY DEF StartDelete, AllocInv, Requested
<1>2. n \in Request /\ n.exp <= rev /\ n.created \subseteq n.want
  BY ServiceAllocConstants DEF Request, Idle, AllocInv, TypeOK, Revisions
<1>3. req'[r] = n /\ \A q \in Requests \ {r} : req'[q] = req[q]
  BY <1>1 DEF AllocInv, TypeOK
<1>4. /\ n.pc = "write" /\ n.op = op /\ n.svc = s /\ n.exp = svc[s].rev /\ n.old = svc[s].vals
      /\ n.want = {} /\ n.created = {} /\ n.stale = {}
  BY DEF Idle
<1> HIDE DEF n
<1>5. Settling(r) = {} /\ Settling(r)' = {}
  BY <1>1, <1>3, <1>4 DEF Settling, Idle
<1>6. Requested(r)' /\ Settles(r)'
  BY <1>1, <1>3, <1>4, <1>5 DEF Requested, Settles, Writing, Deletions, KeepsVip, Stored
<1>7. Exclusive'
  BY <1>1, <1>3, <1>4, SentExclusive DEF StartDelete
<1> QED  BY <1>1, <1>2, <1>5, <1>6, <1>7, RequestOnly

\* The transaction is given up: what it reserved is still to be given back.
LEMMA GiveUpInv ==
  ASSUME AllocInv, Races = {}, NEW r \in Requests,
         Reject(r) \/ CreateConflict(r) \/ UpdateConflict(r)
  PROVE  AllocInv'
<1> DEFINE n == [req[r] EXCEPT !.pc = "drop"]
<1>1. /\ req[r].pc \in {"reserve", "write"} /\ req[r].op \notin Deletions
      /\ req' = [req EXCEPT ![r] = n]
      /\ UNCHANGED <<svc, sentinel, phase, todo, rev, seeded, lost>>
  BY DEF Reject, CreateConflict, UpdateConflict, AllocInv, Requested, Deletions
<1>2. req[r] \in Request /\ n \in Request /\ n.exp <= rev /\ n.created \subseteq n.want
  BY RequestFacts DEF Request
<1>3. req'[r] = n /\ \A q \in Requests \ {r} : req'[q] = req[q]
  BY <1>1 DEF AllocInv, TypeOK
<1>4. /\ n.pc = "drop" /\ n.op = req[r].op /\ n.svc = req[r].svc /\ n.created = req[r].created
  BY <1>2 DEF Request
<1>5. phase = "up"
  BY <1>1 DEF AllocInv, Restarting, Idle
<1> HIDE DEF n
<1>6. Settling(r)' = Settling(r)
  BY <1>1, <1>3, <1>4 DEF Settling
<1>7. Requested(r)'
  BY <1>1, <1>3, <1>4 DEF Requested, Writing, AllocInv
<1>8. Settles(r)'
  BY <1>1, <1>3, <1>4, <1>6 DEF Settles, AllocInv, Holders, Stored
<1>9. Exclusive'
  BY <1>1, <1>3, <1>4 DEF Exclusive, AllocInv
<1> QED  BY <1>1, <1>2, <1>5, <1>6, <1>7, <1>8, <1>9, RequestOnly

LEMMA ReservedInv ==
  ASSUME AllocInv, Races = {}, NEW r \in Requests, Reserved(r)
  PROVE  AllocInv'
<1> DEFINE n == [req[r] EXCEPT !.pc = "write", !.stale = req[r].old \ req[r].want]
<1>1. /\ req[r].pc = "reserve" /\ req[r].op \notin Deletions
      /\ req' = [req EXCEPT ![r] = n]
      /\ UNCHANGED <<svc, sentinel, phase, todo, rev, seeded, lost>>
      /\ \A v \in Missing(r) : PreReserved(r, v)
  BY DEF Reserved, AllocInv, Requested
<1>2. req[r] \in Request /\ n \in Request /\ n.exp <= rev /\ n.created \subseteq n.want
  BY RequestFacts DEF Request
<1>3. req'[r] = n /\ \A q \in Requests \ {r} : req'[q] = req[q]
  BY <1>1 DEF AllocInv, TypeOK
<1>4. /\ n.pc = "write" /\ n.op = req[r].op /\ n.svc = req[r].svc /\ n.created = req[r].created
      /\ n.stale = req[r].old \ req[r].want /\ n.old = req[r].old /\ n.want = req[r].want
      /\ n.exp = req[r].exp
  BY <1>2 DEF Request
<1>5. phase = "up"
  BY <1>1 DEF AllocInv, Restarting, Idle
<1> HIDE DEF n
<1>6. Settling(r)' = Settling(r)
  BY <1>1, <1>3, <1>4 DEF Settling
<1>7. Requested(r)'
  BY <1>1, <1>3, <1>4 DEF Requested, Writing, AllocInv, Missing, PreReserved
<1>8. Settles(r)'
  BY <1>1, <1>3, <1>4, <1>6 DEF Settles, AllocInv, Holders, Stored
<1>9. Exclusive'
  BY <1>1, <1>3, <1>4 DEF Exclusive, AllocInv
<1> QED  BY <1>1, <1>2, <1>5, <1>6, <1>7, <1>8, <1>9, RequestOnly

LEMMA CreateRetryInv ==
  ASSUME AllocInv, Races = {}, NEW r \in Requests, NEW s \in Services, CreateRetry(r, s)
  PROVE  AllocInv'
<1> DEFINE n == [req[r] EXCEPT !.svc = s]
<1>1. /\ req[r].pc = "write" /\ req[r].op = "create"
      /\ req' = [req EXCEPT ![r] = n]
      /\ UNCHANGED <<svc, sentinel, phase, todo, rev, seeded, lost>>
      /\ \A v \in req[r].want : sentinel[v] # "owned"
  BY DEF CreateRetry
<1>2. req[r] \in Request /\ n \in Request /\ n.exp <= rev /\ n.created \subseteq n.want
  BY RequestFacts DEF Request
<1>3. req'[r] = n /\ \A q \in Requests \ {r} : req'[q] = req[q]
  BY <1>1 DEF AllocInv, TypeOK
<1>4. /\ n.pc = "write" /\ n.op = "create" /\ n.svc = s /\ n.created = req[r].created
      /\ n.stale = req[r].stale /\ n.old = req[r].old /\ n.want = req[r].want
      /\ n.exp = req[r].exp
  BY <1>1, <1>2 DEF Request
<1>5. phase = "up"
  BY <1>1 DEF AllocInv, Restarting, Idle
<1> HIDE DEF n
<1>6. Settling(r)' = Settling(r)
  BY <1>1, <1>3, <1>4 DEF Settling
<1>7. Missing(r) = {}
  BY <1>1 DEF AllocInv, Requested, Writing, Missing, PreReserved, Deletions
<1>8. Requested(r)'
  BY <1>1, <1>3, <1>4, <1>7 DEF Requested, Writing, AllocInv, Missing, PreReserved, Deletions
<1>9. Settles(r)'
  BY <1>1, <1>3, <1>4, <1>6 DEF Settles, AllocInv, Holders, Stored
<1>10. Exclusive'
  BY <1>1, <1>3, <1>4, SentExclusive DEF CreateRetry
<1> QED  BY <1>1, <1>2, <1>5, <1>6, <1>8, <1>9, <1>10, RequestOnly

LEMMA RollbackAndRetryInv ==
  ASSUME AllocInv, Races = {}, NEW r \in Requests, RollbackAndRetry(r)
  PROVE  AllocInv'
<1> DEFINE n == [req[r] EXCEPT !.pc = "rollback", !.stale = {}]
<1>1. /\ req[r].pc = "write" /\ req[r].op \notin Deletions
      /\ req' = [req EXCEPT ![r] = n]
      /\ UNCHANGED <<svc, sentinel, phase, todo, rev, seeded, lost>>
  BY DEF RollbackAndRetry, AllocInv, Requested, Deletions
<1>2. req[r] \in Request /\ n \in Request /\ n.exp <= rev /\ n.created \subseteq n.want
  BY RequestFacts DEF Request
<1>3. req'[r] = n /\ \A q \in Requests \ {r} : req'[q] = req[q]
  BY <1>1 DEF AllocInv, TypeOK
<1>4. n.pc = "rollback" /\ n.op = req[r].op /\ n.svc = req[r].svc /\ n.created = req[r].created
  BY <1>1, <1>2 DEF Request
<1>5. phase = "up"
  BY <1>1 DEF AllocInv, Restarting, Idle
<1> HIDE DEF n
<1>6. Settling(r)' = Settling(r)
  BY <1>1, <1>3, <1>4 DEF Settling
<1>7. Requested(r)'
  BY <1>1, <1>3, <1>4 DEF Requested, Writing, AllocInv
<1>8. Settles(r)'
  BY <1>1, <1>3, <1>4, <1>6 DEF Settles, AllocInv, Holders, Stored
<1>9. Exclusive'
  BY <1>1, <1>3, <1>4 DEF Exclusive, AllocInv
<1> QED  BY <1>1, <1>2, <1>5, <1>6, <1>7, <1>8, <1>9, RequestOnly

\* A request with nothing left to settle may end.
LEMMA EndInv ==
  ASSUME AllocInv, NEW r \in Requests, phase = "up", Settling(r) = {},
         req' = [req EXCEPT ![r] = Idle], UNCHANGED <<svc, sentinel, phase, todo, rev, seeded, lost>>
  PROVE  AllocInv'
<1>1. req'[r] = Idle /\ \A q \in Requests \ {r} : req'[q] = req[q]
  BY DEF AllocInv, TypeOK
<1>2. /\ Idle.pc = "idle" /\ Idle.op = "create" /\ Idle.svc = Nobody /\ Idle.exp = 0
      /\ Idle.created = {} /\ Idle.want = {}
  BY DEF Idle
<1>3. Settling(r)' = {}
  BY <1>1, <1>2 DEF Settling
<1>4. Requested(r)' /\ Settles(r)'
  BY <1>1, <1>2, <1>3 DEF Requested, Settles, Writing, Deletions
<1>5. Exclusive'
  BY <1>1, <1>2 DEF Exclusive, AllocInv, Deletions
<1>6. 0 <= rev
  BY DEF AllocInv, TypeOK
<1> QED  BY <1>2, <1>3, <1>4, <1>5, <1>6, IdleIsRequest, RequestOnly

LEMMA FinishInv ==
  ASSUME AllocInv, NEW r \in Requests, Finish(r)
  PROVE  AllocInv'
<1>1. Settling(r) = {} /\ phase = "up"
  BY DEF Finish, Settling, AllocInv, Restarting, Idle
<1> QED  BY <1>1, EndInv DEF Finish

LEMMA RetryInv ==
  ASSUME AllocInv, Races = {}, NEW r \in Requests, Retry(r)
  PROVE  AllocInv'
<1> DEFINE s == req[r].svc
           n == [req[r] EXCEPT !.pc = "reserve", !.op = "update", !.exp = svc[s].rev,
                               !.old = svc[s].vals]
<1>1. /\ req[r].pc = "rollback" /\ req[r].created = {} /\ req[r].op \notin Deletions
      /\ UNCHANGED <<svc, sentinel, phase, todo, rev, seeded, lost>>
      /\ s \in Services
  BY DEF Retry, AllocInv, Requested
<1>2. phase = "up" /\ Settling(r) = {}
  BY <1>1 DEF AllocInv, Restarting, Idle, Settling
<1>3. CASE ~(Stored(s) /\ KeepsVip(s, req[r].want))
  BY <1>1, <1>2, <1>3, EndInv DEF Retry
<1>4. CASE Stored(s) /\ KeepsVip(s, req[r].want)
  <2>1. req' = [req EXCEPT ![r] = n]
    BY <1>4 DEF Retry
  <2>2. req[r] \in Request /\ svc[s].rev \in 0 .. MaxRev /\ svc[s].vals \in SUBSET Values
    BY <1>1 DEF Request, AllocInv, TypeOK
  <2>3. n \in Request /\ n.exp <= rev /\ n.created \subseteq n.want
    BY <1>1, <2>2 DEF Request, AllocInv, TypeOK, Revisions
  <2>4. req'[r] = n /\ \A q \in Requests \ {r} : req'[q] = req[q]
    BY <2>1 DEF AllocInv, TypeOK
  <2>5. /\ n.pc = "reserve" /\ n.op = "update" /\ n.svc = s /\ n.created = {}
        /\ n.old = svc[s].vals /\ n.want = req[r].want /\ n.exp = svc[s].rev
    BY <1>1, <2>2 DEF Request
  <2> HIDE DEF n
  <2>6. Settling(r)' = {}
    BY <2>4, <2>5 DEF Settling
  <2>7. Requested(r)' /\ Settles(r)'
    BY <1>1, <1>4, <2>4, <2>5, <2>6 DEF Requested, Settles, Writing, Deletions, KeepsVip, Stored
  <2>8. Exclusive'
    BY <1>1, <2>4, <2>5 DEF Exclusive, AllocInv, Deletions
  <2> QED  BY <1>1, <1>2, <2>1, <2>3, <2>6, <2>7, <2>8, RequestOnly
<1> QED  BY <1>3, <1>4

-------------------------------------------------------------------------------
(* Steps that take or release one sentinel.                                *)

\* A free value is reserved by one more request and held by nobody.
LEMMA TakeInv ==
  ASSUME AllocInv, NEW r \in Requests, NEW v \in Values, NEW n \in Request,
         req[r].pc = "reserve", sentinel[v] = "free",
         sentinel' = [sentinel EXCEPT ![v] = "plain"],
         req' = [req EXCEPT ![r] = n],
         n.pc = "reserve", n.op = req[r].op, n.svc = req[r].svc, n.exp = req[r].exp,
         n.old = req[r].old, req[r].want \subseteq n.want,
         n.created = req[r].created \cup {v}, n.created \subseteq n.want,
         UNCHANGED <<svc, phase, todo, rev, seeded, lost>>
  PROVE  AllocInv'
<1>1. req'[r] = n /\ \A q \in Requests \ {r} : req'[q] = req[q]
  BY DEF AllocInv, TypeOK
<1>2. sentinel'[v] = "plain" /\ \A u \in Values \ {v} : sentinel'[u] = sentinel[u]
  BY DEF AllocInv, TypeOK
<1>3. \A u : Holders(u)' = Holders(u)
  BY DEF Holders, Stored
<1>4. phase = "up"
  BY DEF AllocInv, Restarting, Idle
<1>5. Holders(v) = {}
  BY <1>4 DEF AllocInv, HeldIsReserved
<1>6. /\ Settling(r)' = Settling(r) \cup {v}
      /\ \A q \in Requests \ {r} : Settling(q)' = Settling(q)
  BY <1>1 DEF Settling
<1>7. \A q \in Requests : v \notin Settling(q)
  BY DEF AllocInv, Settles
<1>8. TypeOK'
  BY <1>1 DEF AllocInv, TypeOK
<1>9. Revisions' /\ Restarting' /\ OneHolder'
  BY <1>1, <1>3, <1>4 DEF AllocInv, Revisions, Restarting, OneHolder
<1>10. OwnedForOwner'
  BY <1>2, <1>3 DEF AllocInv, OwnedForOwner
<1>11. HeldIsReserved'
  BY <1>2, <1>3 DEF AllocInv, HeldIsReserved
<1>12. NothingLeaks'
  BY <1>2, <1>3, <1>4, <1>6 DEF AllocInv, NothingLeaks
<1>17. SeededStays' /\ LostFits'
  <2>1. v \notin lost /\ lost \subseteq Values
    BY DEF AllocInv, LostFits, TypeOK
  <2> QED  BY <1>2, <1>3, <1>6, <2>1 DEF AllocInv, SeededStays, LostFits, Stored
<1>13. OneSettler'
  BY <1>6, <1>7, <1>8 DEF AllocInv, OneSettler
<1>14. Exclusive'
  BY <1>1 DEF AllocInv, Exclusive
<1>15. ASSUME NEW q \in Requests PROVE Requested(q)'
  <2>1. CASE q = r
    BY <1>1, <2>1 DEF AllocInv, Requested, Writing
  <2>2. CASE q # r
    <3>1. req'[q] = req[q] /\ Requested(q)
      BY <1>1, <2>2 DEF AllocInv
    <3>2. \A u \in Values : PreReserved(q, u) => PreReserved(q, u)'
      BY <1>2, <3>1 DEF PreReserved
    <3>3. Missing(q)' = Missing(q) /\ Missing(q) \subseteq Values
      BY <3>1 DEF Missing, AllocInv, TypeOK, Request
    <3> QED  BY <3>1, <3>2, <3>3 DEF Requested, Writing, Stored
  <2> QED  BY <2>1, <2>2
<1>16. ASSUME NEW q \in Requests PROVE Settles(q)'
  <2>1. CASE q = r
    BY <1>1, <1>2, <1>3, <1>5, <1>6, <2>1 DEF AllocInv, Settles, Settling, TypeOK, Request
  <2>2. CASE q # r
    <3>1. Settling(q) \subseteq Values
      BY DEF Settling, AllocInv, TypeOK, Request
    <3> QED  BY <1>1, <1>2, <1>3, <1>6, <1>7, <2>2, <3>1 DEF AllocInv, Settles
  <2> QED  BY <2>1, <2>2
<1> QED
  BY <1>8, <1>9, <1>10, <1>11, <1>12, <1>13, <1>14, <1>15, <1>16, <1>17 DEF AllocInv

\* The value of a sentinel that is released is in no Service, and no other
\* request counts on it: one that does has the Service the value is kept for,
\* and so has the deletion that releases it, which is alone with that Service.
LEMMA ReleaseInv ==
  ASSUME AllocInv, NEW r \in Requests, NEW v \in Values, NEW n \in Request,
         v \in Settling(r), Release(v),
         req' = [req EXCEPT ![r] = n],
         n.pc = req[r].pc, n.pc \in {"commit", "drop", "rollback"},
         n.op = req[r].op, n.svc = req[r].svc, n.exp = req[r].exp,
         n.created \subseteq req[r].created, n.created \subseteq n.want,
         Settling(r)' = Settling(r) \ {v},
         UNCHANGED <<svc, phase, todo, rev, seeded, lost>>
  PROVE  AllocInv'
<1>1. req'[r] = n /\ \A q \in Requests \ {r} : req'[q] = req[q]
  BY DEF AllocInv, TypeOK
<1>2. sentinel'[v] = "free" /\ \A u \in Values \ {v} : sentinel'[u] = sentinel[u]
  BY DEF AllocInv, TypeOK, Release
<1>3. \A u : Holders(u)' = Holders(u)
  BY DEF Holders, Stored
<1>4. phase = "up"
  BY DEF AllocInv, Restarting, Idle
<1>5. Holders(v) = {}
  BY DEF AllocInv, Settles
<1>6. \A q \in Requests \ {r} : Settling(q)' = Settling(q) /\ v \notin Settling(q)
  BY <1>1 DEF Settling, AllocInv, OneSettler
<1>8. TypeOK'
  BY <1>1 DEF AllocInv, TypeOK, Release
<1>9. Revisions' /\ Restarting' /\ OneHolder'
  BY <1>1, <1>3, <1>4 DEF AllocInv, Revisions, Restarting, OneHolder
<1>10. OwnedForOwner'
  BY <1>2, <1>3, <1>5 DEF AllocInv, OwnedForOwner
<1>11. HeldIsReserved'
  BY <1>2, <1>3, <1>5 DEF AllocInv, HeldIsReserved
<1>12. NothingLeaks'
  <2> SUFFICES ASSUME NEW u \in Values \ lost, sentinel'[u] = "plain", Holders(u) = {}
               PROVE  \E q \in Requests : u \in Settling(q)'
    BY <1>3 DEF NothingLeaks
  <2>1. u # v
    BY <1>2
  <2>2. PICK q \in Requests : u \in Settling(q)
    BY <1>2, <1>4, <2>1 DEF AllocInv, NothingLeaks
  <2>3. CASE q = r
    BY <2>1, <2>2, <2>3
  <2>4. CASE q # r
    BY <1>6, <2>2, <2>4
  <2> QED  BY <2>3, <2>4
<1>13. OneSettler'
  BY <1>6, <1>8 DEF AllocInv, OneSettler
<1>17. SeededStays' /\ LostFits'
  <2>1. v \notin lost /\ lost \subseteq Values
    BY DEF AllocInv, LostFits, TypeOK
  <2> QED  BY <1>2, <1>3, <1>6, <2>1 DEF AllocInv, SeededStays, LostFits, Stored
<1>14. Exclusive'
  BY <1>1 DEF AllocInv, Exclusive
<1>15. ASSUME NEW q \in Requests PROVE Requested(q)'
  <2>1. CASE q = r
    BY <1>1, <2>1 DEF AllocInv, Requested, Writing
  <2>2. CASE q # r
    <3>1. req'[q] = req[q] /\ Requested(q)
      BY <1>1, <2>2 DEF AllocInv
    <3>2. ASSUME req[q].pc # "idle" PROVE ~PreReserved(q, v)
      BY <2>2, <3>1, <3>2, ServiceAllocConstants
         DEF AllocInv, Settles, PreReserved, Exclusive, Requested
    <3>3. ASSUME req[q].pc # "idle", NEW u \in Values, PreReserved(q, u) PROVE PreReserved(q, u)'
      BY <1>2, <3>1, <3>2, <3>3 DEF PreReserved
    <3>4. Missing(q)' = Missing(q) /\ Missing(q) \subseteq Values
      BY <3>1 DEF Missing, AllocInv, TypeOK, Request
    <3> QED  BY <3>1, <3>3, <3>4 DEF Requested, Writing, Stored
  <2> QED  BY <2>1, <2>2
<1>16. ASSUME NEW q \in Requests PROVE Settles(q)'
  <2>1. Settling(q) \subseteq Values
    BY DEF Settling, AllocInv, TypeOK, Request
  <2>2. /\ Settling(q)' \subseteq Settling(q) \ {v}
        /\ req'[q].pc = req[q].pc /\ req'[q].op = req[q].op /\ req'[q].svc = req[q].svc
    BY <1>1, <1>6
  <2> QED  BY <1>2, <1>3, <2>1, <2>2 DEF AllocInv, Settles
<1> QED
  BY <1>8, <1>9, <1>10, <1>11, <1>12, <1>13, <1>14, <1>15, <1>16, <1>17 DEF AllocInv

LEMMA AllocateNextInv ==
  ASSUME AllocInv, NEW r \in Requests, NEW v \in Values, AllocateNext(r, v) \/ Reserve(r, v)
  PROVE  AllocInv'
<1>1. req[r] \in Request /\ req[r].created \subseteq req[r].want
  BY DEF AllocInv, TypeOK
<1>2. CASE AllocateNext(r, v)
  <2> DEFINE n == [req[r] EXCEPT !.auto = FALSE, !.created = @ \cup {v}, !.want = @ \cup {v}]
  <2>1. req' = [req EXCEPT ![r] = n] /\ sentinel[v] = "free"
    BY <1>2 DEF AllocateNext, Free, AllocInv, TypeOK
  <2>2. n \in Request
    BY <1>1 DEF Request
  <2>3. /\ n.pc = req[r].pc /\ n.op = req[r].op /\ n.svc = req[r].svc /\ n.exp = req[r].exp
        /\ n.old = req[r].old /\ n.want = req[r].want \cup {v}
        /\ n.created = req[r].created \cup {v}
    BY <1>1 DEF Request
  <2> HIDE DEF n
  <2>4. /\ req[r].pc = "reserve" /\ sentinel[v] = "free"
        /\ sentinel' = [sentinel EXCEPT ![v] = "plain"] /\ UNCHANGED <<svc, phase, todo, rev, seeded, lost>>
        /\ req[r].want \subseteq n.want /\ n.created \subseteq n.want
    BY <1>1, <1>2, <2>1, <2>3 DEF AllocateNext
  <2> QED  BY <2>1, <2>2, <2>3, <2>4, TakeInv
<1>3. CASE Reserve(r, v)
  <2> DEFINE n == [req[r] EXCEPT !.created = @ \cup {v}]
  <2>1. req' = [req EXCEPT ![r] = n] /\ v \in req[r].want
    BY <1>3 DEF Reserve, Missing
  <2>2. n \in Request
    BY <1>1 DEF Request
  <2>3. /\ n.pc = req[r].pc /\ n.op = req[r].op /\ n.svc = req[r].svc /\ n.exp = req[r].exp
        /\ n.old = req[r].old /\ n.want = req[r].want /\ n.created = req[r].created \cup {v}
    BY <1>1 DEF Request
  <2> HIDE DEF n
  <2>4. /\ req[r].pc = "reserve" /\ sentinel[v] = "free"
        /\ sentinel' = [sentinel EXCEPT ![v] = "plain"] /\ UNCHANGED <<svc, phase, todo, rev, seeded, lost>>
        /\ req[r].want \subseteq n.want /\ n.created \subseteq n.want
    BY <1>1, <1>3, <2>1, <2>3 DEF Reserve
  <2> QED  BY <2>1, <2>2, <2>3, <2>4, TakeInv
<1> QED  BY <1>2, <1>3

LEMMA GiveBackInv ==
  ASSUME AllocInv, NEW r \in Requests, NEW v \in Values, GiveBack(r, v) \/ ReleaseStale(r, v)
  PROVE  AllocInv'
<1>1. req[r] \in Request /\ req[r].created \subseteq req[r].want
  BY DEF AllocInv, TypeOK
<1>2. CASE GiveBack(r, v)
  <2> DEFINE n == [req[r] EXCEPT !.created = @ \ {v}]
  <2>1. req' = [req EXCEPT ![r] = n]
    BY <1>2 DEF GiveBack
  <2>2. n \in Request
    BY <1>1 DEF Request
  <2>3. /\ n.pc = req[r].pc /\ n.op = req[r].op /\ n.svc = req[r].svc /\ n.exp = req[r].exp
        /\ n.want = req[r].want /\ n.created = req[r].created \ {v}
    BY <1>1 DEF Request
  <2> HIDE DEF n
  <2>4. req'[r] = n
    BY <2>1 DEF AllocInv, TypeOK
  <2>5. v \in Settling(r) /\ Settling(r)' = Settling(r) \ {v}
    BY <1>2, <2>3, <2>4 DEF GiveBack, Settling
  <2>6. /\ Release(v) /\ UNCHANGED <<svc, phase, todo, rev, seeded, lost>> /\ req[r].pc \in {"drop", "rollback"}
        /\ n.created \subseteq req[r].created /\ n.created \subseteq n.want
    BY <1>1, <1>2, <2>3 DEF GiveBack
  <2> QED  BY <2>1, <2>2, <2>3, <2>5, <2>6, ReleaseInv
<1>3. CASE ReleaseStale(r, v)
  <2> DEFINE n == [req[r] EXCEPT !.stale = @ \ {v}]
  <2>1. req' = [req EXCEPT ![r] = n]
    BY <1>3 DEF ReleaseStale
  <2>2. n \in Request
    BY <1>1 DEF Request
  <2>3. /\ n.pc = req[r].pc /\ n.op = req[r].op /\ n.svc = req[r].svc /\ n.exp = req[r].exp
        /\ n.want = req[r].want /\ n.created = req[r].created /\ n.stale = req[r].stale \ {v}
    BY <1>1 DEF Request
  <2> HIDE DEF n
  <2>4. req'[r] = n
    BY <2>1 DEF AllocInv, TypeOK
  <2>5. v \in Settling(r) /\ Settling(r)' = Settling(r) \ {v}
    BY <1>3, <2>3, <2>4 DEF ReleaseStale, Settling
  <2>6. /\ Release(v) /\ UNCHANGED <<svc, phase, todo, rev, seeded, lost>> /\ req[r].pc \in {"commit"}
        /\ n.created \subseteq req[r].created /\ n.created \subseteq n.want
    BY <1>1, <1>3, <2>3 DEF ReleaseStale
  <2> QED  BY <2>1, <2>2, <2>3, <2>5, <2>6, ReleaseInv
<1> QED  BY <1>2, <1>3

\* A sentinel that lands unseen is nobody's.
LEMMA ReserveUnseenInv ==
  ASSUME AllocInv, NEW r \in Requests, NEW v \in Values, ReserveUnseen(r, v)
  PROVE  AllocInv'
<1> DEFINE n == [req[r] EXCEPT !.pc = "drop"]
<1>1. /\ req[r].pc = "reserve" /\ sentinel[v] = "free" /\ req' = [req EXCEPT ![r] = n]
      /\ sentinel' = [sentinel EXCEPT ![v] = "plain"]
      /\ lost' = lost \cup {v} /\ UNCHANGED <<svc, phase, todo, rev, seeded>>
  BY DEF ReserveUnseen, Free
<1>2. req[r] \in Request /\ n \in Request /\ n.exp <= rev /\ n.created \subseteq n.want
  BY RequestFacts DEF Request
<1>3. req'[r] = n /\ \A q \in Requests \ {r} : req'[q] = req[q]
  BY <1>1 DEF AllocInv, TypeOK
<1>4. /\ n.pc = "drop" /\ n.op = req[r].op /\ n.svc = req[r].svc /\ n.created = req[r].created
      /\ req[r].op \notin Deletions
  BY <1>1, <1>2 DEF Request, AllocInv, Requested
<1> HIDE DEF n
<1>5. sentinel'[v] = "plain" /\ \A u \in Values \ {v} : sentinel'[u] = sentinel[u]
  BY <1>1 DEF AllocInv, TypeOK
<1>6. phase = "up" /\ \A u : Holders(u)' = Holders(u)
  BY <1>1 DEF AllocInv, Restarting, Idle, Holders, Stored
<1>7. Holders(v) = {} /\ \A q \in Requests : v \notin Settling(q)
  BY <1>1, <1>6 DEF AllocInv, HeldIsReserved, Settles
<1>8. \A q \in Requests : Settling(q)' = Settling(q) /\ Settling(q) \subseteq Values
  BY <1>1, <1>3, <1>4 DEF Settling, AllocInv, TypeOK, Request
<1>9. TypeOK'
  BY <1>1, <1>2, <1>3 DEF AllocInv, TypeOK
<1>10. Revisions' /\ Restarting' /\ OneHolder'
  BY <1>1, <1>2, <1>3, <1>6 DEF AllocInv, Revisions, Restarting, OneHolder
<1>11. OwnedForOwner' /\ HeldIsReserved'
  BY <1>1, <1>5, <1>6, <1>7 DEF AllocInv, OwnedForOwner, HeldIsReserved
<1>12. NothingLeaks' /\ OneSettler'
  BY <1>1, <1>5, <1>6, <1>8, <1>9 DEF AllocInv, NothingLeaks, OneSettler
<1>13. Exclusive' /\ SeededStays'
  BY <1>1, <1>3, <1>4, <1>6 DEF AllocInv, Exclusive, SeededStays, Stored
<1>14. LostFits'
  <2>1. lost \subseteq Values
    BY DEF AllocInv, TypeOK
  <2> QED  BY <1>1, <1>5, <1>6, <1>7, <1>8, <2>1 DEF AllocInv, LostFits
<1>15. ASSUME NEW q \in Requests PROVE Requested(q)'
  <2>1. CASE q = r
    BY <1>1, <1>3, <1>4, <2>1 DEF AllocInv, Requested, Writing
  <2>2. CASE q # r
    <3>1. req'[q] = req[q] /\ Requested(q)
      BY <1>3, <2>2 DEF AllocInv
    <3>2. \A u \in Values : PreReserved(q, u) => PreReserved(q, u)'
      BY <1>1, <1>5, <3>1 DEF PreReserved
    <3>3. Missing(q)' = Missing(q) /\ Missing(q) \subseteq Values
      BY <3>1 DEF Missing, AllocInv, TypeOK, Request
    <3> QED  BY <1>1, <3>1, <3>2, <3>3 DEF Requested, Writing, Stored
  <2> QED  BY <2>1, <2>2
<1>16. ASSUME NEW q \in Requests PROVE Settles(q)'
  <2>1. req'[q].op = req[q].op /\ req'[q].svc = req[q].svc /\ (req'[q].pc # "commit" => req[q].pc # "commit")
    BY <1>1, <1>3, <1>4
  <2> QED  BY <1>5, <1>6, <1>7, <1>8, <2>1 DEF AllocInv, Settles
<1> QED
  BY <1>9, <1>10, <1>11, <1>12, <1>13, <1>14, <1>15, <1>16 DEF AllocInv

\* What a request abandons is nobody's until the next start, but for a sentinel
\* that is kept for a Service.
LEMMA AbandonInv ==
  ASSUME AllocInv, NEW r \in Requests, Abandon(r)
  PROVE  AllocInv'
<1>1. /\ req[r].pc \in {"commit", "rollback"} /\ req' = [req EXCEPT ![r] = Idle]
      /\ lost' = lost \cup {v \in Settling(r) : sentinel[v] = "plain"}
      /\ UNCHANGED <<svc, sentinel, phase, todo, rev, seeded>>
  BY DEF Abandon
<1>2. req'[r] = Idle /\ \A q \in Requests \ {r} : req'[q] = req[q]
  BY <1>1 DEF AllocInv, TypeOK
<1>3. /\ Idle.pc = "idle" /\ Idle.op = "create" /\ Idle.svc = Nobody /\ Idle.exp = 0
      /\ Idle.created = {} /\ Idle.want = {} /\ "create" \notin Deletions
  BY DEF Idle, Deletions
<1>4. phase = "up" /\ \A v : Holders(v)' = Holders(v)
  BY <1>1, <1>3 DEF AllocInv, Restarting, Holders, Stored
<1>5. /\ Settling(r)' = {} /\ Settling(r) \subseteq Values
      /\ \A q \in Requests \ {r} : Settling(q)' = Settling(q)
  BY <1>2, <1>3 DEF Settling, AllocInv, TypeOK, Request
<1>6. TypeOK'
  BY <1>1, <1>2, <1>3, <1>5, IdleIsRequest DEF AllocInv, TypeOK
<1>7. Revisions'
  BY <1>1, <1>2, <1>3 DEF AllocInv, Revisions, TypeOK
<1>8. Restarting' /\ OneHolder' /\ OwnedForOwner' /\ HeldIsReserved'
  BY <1>1, <1>4 DEF AllocInv, Restarting, OneHolder, OwnedForOwner, HeldIsReserved
<1>9. NothingLeaks'
  <2> SUFFICES ASSUME NEW v \in Values \ lost', sentinel[v] = "plain", Holders(v) = {}
               PROVE  \E q \in Requests : v \in Settling(q)'
    BY <1>1, <1>4 DEF NothingLeaks
  <2>1. PICK q \in Requests : v \in Settling(q)
    BY <1>1, <1>4 DEF AllocInv, NothingLeaks
  <2>2. q # r
    BY <1>1, <2>1
  <2> QED  BY <1>5, <2>1, <2>2
<1>10. OneSettler'
  BY <1>5, <1>6 DEF AllocInv, OneSettler
<1>11. Exclusive' /\ SeededStays'
  BY <1>1, <1>2, <1>3, <1>4 DEF AllocInv, Exclusive, SeededStays, Stored
<1>12. LostFits'
  <2>1. ASSUME NEW v \in lost' PROVE sentinel[v] = "plain" /\ Holders(v) = {}
    BY <1>1, <2>1 DEF AllocInv, LostFits, Settles
  <2>2. ASSUME NEW v \in lost', NEW q \in Requests \ {r} PROVE v \notin Settling(q)
    BY <1>1, <2>2 DEF AllocInv, LostFits, OneSettler
  <2> QED  BY <1>1, <1>4, <1>5, <2>1, <2>2 DEF LostFits
<1>13. ASSUME NEW q \in Requests PROVE Requested(q)' /\ Settles(q)'
  <2>1. CASE q = r
    BY <1>2, <1>3, <1>5, <2>1 DEF Requested, Settles, Writing
  <2>2. CASE q # r
    BY <1>1, <1>2, <1>4, <1>5, <2>2
       DEF AllocInv, Requested, Settles, Writing, Missing, PreReserved, Stored
  <2> QED  BY <2>1, <2>2
<1> QED
  BY <1>6, <1>7, <1>8, <1>9, <1>10, <1>11, <1>12, <1>13 DEF AllocInv

-------------------------------------------------------------------------------
(* Steps that write a Service.                                             *)

\* A request stores its Service with the values L, all reserved for it and for
\* nobody else, and is left to settle what the Service no longer lists.
StoreStep(r, s, n, row, L) ==
  /\ phase = "up" /\ req[r].svc = s
  /\ req' = [req EXCEPT ![r] = n]
  /\ svc' = [svc EXCEPT ![s] = row]
  /\ UNCHANGED <<sentinel, phase, todo, seeded, lost>>
  /\ rev' \in 1 .. MaxRev /\ rev <= rev' /\ row.rev <= rev'
  /\ L = IF row.rev = 0 THEN {} ELSE row.vals
  /\ n.exp <= rev /\ n.created \subseteq n.want
  /\ n.svc \in {s, Nobody} /\ (n.op \in Deletions => req[r].op \in Deletions /\ n.svc = s)
  /\ Requested(r)'
  /\ \A v \in L : /\ Holders(v) \subseteq {s} /\ sentinel[v] # "free"
                  /\ sentinel[v] = "owned" => Owner[v] = s
                  /\ \A q \in Requests \ {r} : v \notin Settling(q)
                  /\ v \notin lost
  /\ Settling(r) \subseteq L
  /\ Settling(r)' = {v \in Values : s \in Holders(v)} \ L
  /\ n.pc # "commit" => Settling(r)' = {}
  /\ \A v \in Settling(r)' : sentinel[v] = "owned" => n.op \in Deletions /\ n.svc = Owner[v]
  /\ \A q \in Requests \ {r} : req[q].svc = s => req[q].op \notin Deletions /\ row.rev = rev + 1
  /\ row.rev = 0 => s # seeded

LEMMA StoreInv ==
  ASSUME AllocInv, NEW r \in Requests, NEW s \in Services, NEW n \in Request,
         NEW row \in [rev : 0 .. MaxRev, vals : SUBSET Values, marked : BOOLEAN],
         NEW L \in SUBSET Values, StoreStep(r, s, n, row, L)
  PROVE  AllocInv'
<1> USE DEF StoreStep
<1>1. req'[r] = n /\ \A q \in Requests \ {r} : req'[q] = req[q]
  BY DEF AllocInv, TypeOK
<1>2. svc'[s] = row /\ \A t \in Services \ {s} : svc'[t] = svc[t]
  BY DEF AllocInv, TypeOK
<1>3. ASSUME NEW v \in Values
      PROVE  Holders(v)' = IF v \in L THEN {s} \cup Holders(v) ELSE Holders(v) \ {s}
  BY <1>2 DEF Holders, Stored
<1>4. ASSUME NEW v \in L PROVE Holders(v)' = {s}
  BY <1>3
<1>5. \A q \in Requests \ {r} : Settling(q)' = Settling(q)
  BY <1>1 DEF Settling
<1>6. \A q \in Requests : Settling(q) \subseteq Values
  BY DEF Settling, AllocInv, TypeOK, Request
<1>7. TypeOK'
  BY <1>1 DEF AllocInv, TypeOK
<1>8. Revisions'
  <2>1. rev \in Nat /\ rev' \in Nat /\ \A t \in Services : svc[t].rev \in Nat
    BY DEF AllocInv, TypeOK
  <2>2. \A q \in Requests : req[q].exp \in Nat
    BY DEF AllocInv, TypeOK, Request
  <2>3. n.exp \in Nat /\ row.rev \in Nat
    BY DEF Request
  <2>4. ASSUME NEW t \in Services PROVE svc'[t].rev <= rev'
    BY <1>2, <2>1, <2>3 DEF AllocInv, Revisions
  <2>5. ASSUME NEW q \in Requests PROVE req'[q].exp <= rev'
    BY <1>1, <2>1, <2>2, <2>3 DEF AllocInv, Revisions
  <2> QED  BY <2>4, <2>5 DEF Revisions
<1>9. Restarting'
  BY DEF AllocInv, Restarting
<1>10. OneHolder'
  BY <1>3, <1>4 DEF AllocInv, OneHolder
<1>11. OwnedForOwner'
  <2> SUFFICES ASSUME NEW v \in Values
               PROVE  /\ sentinel[v] = "owned" => Owner[v] # Nobody
                      /\ sentinel[v] = "owned" \/ (Owner[v] # Nobody /\ sentinel[v] = "free")
                           => Holders(v)' \subseteq {Owner[v]}
    BY DEF OwnedForOwner
  <2> QED  BY <1>3, <1>4 DEF AllocInv, OwnedForOwner
<1>12. HeldIsReserved'
  BY <1>3 DEF AllocInv, HeldIsReserved
<1>13. NothingLeaks'
  <2> SUFFICES ASSUME NEW v \in Values \ lost, sentinel[v] = "plain", Holders(v)' = {}
               PROVE  \E q \in Requests : v \in Settling(q)'
    BY DEF NothingLeaks
  <2>1. v \notin L
    <3>1. {s} # {}
      OBVIOUS
    <3> QED  BY <1>4, <3>1, Zenon
  <2>2. CASE s \in Holders(v)
    BY <2>1, <2>2
  <2>3. CASE s \notin Holders(v)
    <3>1. Holders(v) = {}
      BY <1>3, <2>1, <2>3
    <3>2. PICK q \in Requests : v \in Settling(q)
      BY <3>1 DEF AllocInv, NothingLeaks
    <3>3. q # r
      BY <2>1, <3>2
    <3> QED  BY <1>5, <3>2, <3>3
  <2> QED  BY <2>2, <2>3
<1>14. OneSettler'
  <2>1. ASSUME NEW q \in Requests \ {r} PROVE Settling(q) \cap Settling(r)' = {}
    BY DEF AllocInv, Settles
  <2> QED  BY <1>5, <1>7, <2>1 DEF AllocInv, OneSettler
<1>15. Exclusive'
  BY <1>1 DEF AllocInv, Exclusive
<1>18. SeededStays'
  <2>1. phase' = "up" /\ (seeded # Nobody => Stored(seeded) /\ seeded \in Services)
    BY DEF AllocInv, SeededStays, TypeOK
  <2> QED  BY <1>2, <2>1 DEF SeededStays, Stored
<1>19. LostFits'
  <2>1. lost \subseteq Values
    BY DEF AllocInv, TypeOK
  <2>2. ASSUME NEW v \in lost PROVE Holders(v)' = {}
    BY <1>3, <2>1, <2>2 DEF AllocInv, LostFits
  <2>3. ASSUME NEW v \in lost PROVE v \notin Settling(r)'
    BY <2>3 DEF AllocInv, LostFits
  <2> QED  BY <1>5, <2>2, <2>3 DEF AllocInv, LostFits
<1>16. ASSUME NEW q \in Requests \ {r} PROVE Requested(q)' /\ Settles(q)'
  <2>1. req'[q] = req[q] /\ Requested(q) /\ Settles(q) /\ req[q] \in Request
    BY <1>1 DEF AllocInv, TypeOK
  <2>2. Writing(q)' = Writing(q) /\ Missing(q)' = Missing(q)
        /\ \A v : PreReserved(q, v)' = PreReserved(q, v)
    BY <2>1 DEF Writing, Missing, PreReserved
  <2>3. Requested(q)'
    <3>1. CASE req[q].svc = s
      <4>1. req[q].exp <= rev /\ req[q].exp \in Nat /\ rev \in Nat /\ req[q].op \notin Deletions
        BY <2>1, <3>1 DEF AllocInv, Revisions, Request, TypeOK
      <4>2. req[q].exp # svc'[s].rev
        BY <1>2, <3>1, <4>1
      <4> QED  BY <2>1, <2>2, <3>1, <4>1, <4>2 DEF Requested
    <3>2. CASE req[q].svc # s
      <4>1. req[q].pc # "idle" => svc'[req[q].svc] = svc[req[q].svc]
        BY <1>2, <2>1, <3>2 DEF Requested
      <4> QED  BY <2>1, <2>2, <4>1 DEF Requested, Stored, Writing, Idle, Deletions
    <3> QED  BY <3>1, <3>2
  <2>4. ASSUME NEW v \in Settling(q) PROVE Holders(v)' = {}
    BY <1>3, <1>6, <2>1 DEF Settles
  <2>5. Settles(q)'
    BY <1>5, <2>1, <2>4 DEF Settles
  <2> QED  BY <2>3, <2>5
<1>17. Settles(r)'
  <2> SUFFICES ASSUME NEW v \in Settling(r)'
               PROVE  /\ Holders(v)' = {} /\ sentinel[v] # "free" /\ n.pc = "commit"
                      /\ sentinel[v] = "owned" => n.op \in Deletions /\ n.svc = Owner[v]
    BY <1>1 DEF Settles
  <2>1. v \in Values /\ s \in Holders(v) /\ v \notin L
    OBVIOUS
  <2>2. Holders(v) = {s}
    BY <2>1 DEF AllocInv, OneHolder
  <2> QED  BY <1>3, <2>1, <2>2 DEF AllocInv, HeldIsReserved
<1> QED
  BY <1>7, <1>8, <1>9, <1>10, <1>11, <1>12, <1>13, <1>14, <1>15, <1>16, <1>17, <1>18, <1>19 DEF AllocInv

\* Whatever a create or an update stores was listed already, is reserved by
\* the request itself, or is kept for the Service; what the Service no longer
\* lists is not kept for it.
LEMMA WriteInv ==
  ASSUME AllocInv, Races = {}, NEW r \in Requests, WriteCreate(r) \/ WriteUpdate(r)
  PROVE  AllocInv'
<1> DEFINE s == req[r].svc
           n == [req[r] EXCEPT !.pc = "commit", !.created = {}]
<1>1. /\ req[r].pc = "write" /\ req[r].op \in {"create", "update"} /\ req[r].op \notin Deletions
      /\ req' = [req EXCEPT ![r] = n] /\ UNCHANGED <<sentinel, phase, todo, seeded, lost>>
      /\ s \in Services
  <2>1. s \in Services
    BY DEF WriteCreate, WriteUpdate, AllocInv, Requested
  <2>2. CASE WriteCreate(r)
    BY <2>1, <2>2 DEF WriteCreate, Landed, Deletions
  <2>3. CASE WriteUpdate(r)
    BY <2>1, <2>3 DEF WriteUpdate, Landed, Deletions
  <2> QED  BY <2>2, <2>3
<1>2. phase = "up"
  BY <1>1 DEF AllocInv, Restarting, Idle
<1>3. req[r] \in Request /\ n \in Request /\ n.exp <= rev /\ n.created \subseteq n.want
  BY RequestFacts DEF Request
<1>4. PICK marked \in BOOLEAN : Put(s, req[r].want, marked)
  <2>1. svc[s].marked \in BOOLEAN
    BY <1>1 DEF AllocInv, TypeOK
  <2> QED  BY <2>1 DEF WriteCreate, WriteUpdate
<1> DEFINE row == [rev |-> rev + 1, vals |-> req[r].want, marked |-> marked]
<1>5. /\ rev \in Nat /\ rev + 1 \in 1 .. MaxRev /\ rev' = rev + 1
      /\ svc' = [svc EXCEPT ![s] = row]
  BY <1>4, ServiceAllocConstants DEF Put, AllocInv, TypeOK
<1>6. /\ row \in [rev : 0 .. MaxRev, vals : SUBSET Values, marked : BOOLEAN]
      /\ row.rev = rev + 1 /\ row.vals = req[r].want
  BY <1>3, <1>5 DEF Request
<1>7. /\ n.pc = "commit" /\ n.op = req[r].op /\ n.svc = s /\ n.created = {}
      /\ n.stale = req[r].stale
  BY <1>3 DEF Request
<1> HIDE DEF n, row
<1>8. req'[r] = n
  BY <1>1 DEF AllocInv, TypeOK
<1>9. /\ req[r].old = {v \in Values : s \in Holders(v)}
      /\ \A v \in req[r].old : Owner[v] = s => v \in req[r].want
      /\ \A v \in req[r].old : s \in Holders(v)
  <2>1. Requested(r) /\ svc[s].vals \subseteq Values
    BY <1>1 DEF AllocInv, TypeOK
  <2>2. CASE WriteCreate(r)
    <3>1. ~Stored(s) /\ req[r].old = {}
      BY <1>1, <2>1, <2>2 DEF WriteCreate, Requested, Writing
    <3> QED  BY <3>1 DEF Holders
  <2>3. CASE WriteUpdate(r)
    <3>1. Stored(s) /\ req[r].old = svc[s].vals /\ \A v \in req[r].old : Owner[v] = s => v \in req[r].want
      BY <1>1, <2>1, <2>3 DEF WriteUpdate, CanPut, Requested, Writing, Stored
    <3> QED  BY <1>1, <2>1, <3>1 DEF Holders
  <2> QED  BY <2>2, <2>3
<1>10. /\ req[r].stale = req[r].old \ req[r].want
       /\ \A v \in Missing(r) : PreReserved(r, v)
       /\ Settling(r) = req[r].created /\ Settling(r)' = req[r].stale
       /\ req[r].created \subseteq req[r].want
  BY <1>1, <1>7, <1>8 DEF AllocInv, Requested, Writing, Settling, TypeOK
<1>11. req[r].want \in SUBSET Values
  BY <1>3 DEF Request
<1>12. \A q \in Requests \ {r} : req[q].svc = s => req[q].op \notin Deletions
  BY <1>1, ServiceAllocConstants DEF AllocInv, Exclusive
<1>13. ASSUME NEW v \in req[r].want
       PROVE  /\ Holders(v) \subseteq {s} /\ sentinel[v] # "free"
              /\ sentinel[v] = "owned" => Owner[v] = s
              /\ \A q \in Requests \ {r} : v \notin Settling(q)
              /\ v \notin lost
  <2>1. v \in Values
    BY <1>11
  <2>2. CASE v \in req[r].old
    <3>1. s \in Holders(v)
      BY <1>9, <2>2
    <3>2. Holders(v) \subseteq {s} /\ sentinel[v] # "free"
      BY <1>2, <2>1, <3>1 DEF AllocInv, OneHolder, HeldIsReserved
    <3>3. sentinel[v] = "owned" => Owner[v] = s
      BY <2>1, <3>1 DEF AllocInv, OwnedForOwner
    <3>4. \A q \in Requests : v \notin Settling(q)
      BY <3>1 DEF AllocInv, Settles
    <3>5. v \notin lost
      BY <3>1 DEF AllocInv, LostFits
    <3> QED  BY <3>2, <3>3, <3>4, <3>5
  <2>3. CASE v \in req[r].created
    <3>1. Holders(v) = {} /\ sentinel[v] = "plain"
      BY <1>1, <1>10, <2>3 DEF AllocInv, Settles
    <3>2. v \notin lost
      BY <1>10, <2>3 DEF AllocInv, LostFits
    <3> QED  BY <1>10, <2>3, <3>1, <3>2 DEF AllocInv, OneSettler
  <2>4. CASE v \in Missing(r)
    <3>1. sentinel[v] = "owned" /\ Owner[v] = s
      BY <1>10, <2>4 DEF PreReserved
    <3>2. Holders(v) \subseteq {s}
      BY <2>1, <3>1 DEF AllocInv, OwnedForOwner
    <3>3. \A q \in Requests \ {r} : v \notin Settling(q)
      BY <1>12, <3>1 DEF AllocInv, Settles
    <3>4. v \notin lost
      BY <3>1 DEF AllocInv, LostFits
    <3> QED  BY <3>1, <3>2, <3>3, <3>4
  <2> QED  BY <2>2, <2>3, <2>4 DEF Missing
<1>14. \A v \in Settling(r)' : sentinel[v] # "owned"
  <2> SUFFICES ASSUME NEW v \in req[r].old \ req[r].want, sentinel[v] = "owned" PROVE FALSE
    BY <1>10
  <2>1. v \in Values /\ s \in Holders(v)
    BY <1>9
  <2>2. Owner[v] = s
    BY <2>1 DEF AllocInv, OwnedForOwner
  <2> QED  BY <1>9, <2>2
<1>15. Requested(r)'
  BY <1>1, <1>7, <1>8 DEF Requested, Writing
<1>16. Settling(r)' = {v \in Values : s \in Holders(v)} \ req[r].want
  BY <1>9, <1>10
<1>17. req[r].want = IF row.rev = 0 THEN {} ELSE row.vals
  BY <1>5, <1>6
<1>18. rev <= rev' /\ row.rev <= rev' /\ rev' \in 1 .. MaxRev /\ row.rev # 0
  BY <1>5, <1>6
<1>19. StoreStep(r, s, n, row, req[r].want)
  BY <1>1, <1>2, <1>3, <1>5, <1>6, <1>7, <1>10, <1>12, <1>13, <1>14, <1>15, <1>16,
     <1>17, <1>18 DEF StoreStep
<1> QED  BY <1>1, <1>3, <1>6, <1>11, <1>19, StoreInv

\* A deletion is alone with its Service, so what it read is what is stored.
LEMMA Deleting ==
  ASSUME AllocInv, NEW r \in Requests, req[r].pc = "write", req[r].op \in Deletions
  PROVE  /\ req[r].svc \in Services /\ Stored(req[r].svc) /\ phase = "up"
         /\ req[r].exp = svc[req[r].svc].rev /\ req[r].old = svc[req[r].svc].vals
         /\ req[r].old = {v \in Values : req[r].svc \in Holders(v)}
         /\ Settling(r) = {}
         /\ \A q \in Requests \ {r} : req[q].svc # req[r].svc
         /\ req[r].svc # seeded
<1>1. /\ req[r].svc \in Services /\ Stored(req[r].svc)
      /\ req[r].exp = svc[req[r].svc].rev /\ req[r].old = svc[req[r].svc].vals
  BY DEF AllocInv, Requested
<1>2. phase = "up"
  BY DEF AllocInv, Restarting, Idle
<1>3. Settling(r) = {}
  BY DEF AllocInv, Requested, Settling
<1>4. \A q \in Requests \ {r} : req[q].svc # req[r].svc
  BY <1>1, ServiceAllocConstants DEF AllocInv, Exclusive
<1>5. req[r].old = {v \in Values : req[r].svc \in Holders(v)}
  <2>1. svc[req[r].svc].vals \subseteq Values
    BY <1>1 DEF AllocInv, TypeOK
  <2> QED  BY <1>1, <2>1 DEF Holders
<1>6. req[r].svc # seeded
  BY DEF AllocInv, Exclusive
<1> QED  BY <1>1, <1>2, <1>3, <1>4, <1>5, <1>6

LEMMA HardDeleteInv ==
  ASSUME AllocInv, NEW r \in Requests, HardDelete(r)
  PROVE  AllocInv'
<1> DEFINE s == req[r].svc
           n == [req[r] EXCEPT !.pc = "commit", !.stale = req[r].old]
<1>1. req[r].pc = "write" /\ req[r].op \in Deletions
  BY DEF HardDelete
<1>2. /\ s \in Services /\ Stored(s) /\ phase = "up" /\ Settling(r) = {}
      /\ req[r].old = {v \in Values : s \in Holders(v)}
      /\ \A q \in Requests \ {r} : req[q].svc # s
      /\ s # seeded
  BY <1>1, Deleting
<1>3. /\ req' = [req EXCEPT ![r] = n] /\ UNCHANGED <<sentinel, phase, todo, rev, seeded, lost>>
      /\ svc' = [svc EXCEPT ![s] = Absent]
  BY <1>2 DEF HardDelete
<1>4. req[r] \in Request /\ n \in Request /\ n.exp <= rev /\ n.created \subseteq n.want
  BY RequestFacts DEF Request
<1>5. /\ n.pc = "commit" /\ n.op = req[r].op /\ n.svc = s /\ n.created = req[r].created
      /\ n.stale = req[r].old
  BY <1>4 DEF Request
<1> HIDE DEF n
<1>6. req'[r] = n
  BY <1>3 DEF AllocInv, TypeOK
<1>7. Settling(r)' = req[r].old
  BY <1>5, <1>6 DEF Settling
<1>8. Requested(r)'
  BY <1>1, <1>2, <1>5, <1>6 DEF AllocInv, Requested, Writing
<1>9. \A v \in Settling(r)' : sentinel[v] = "owned" => n.svc = Owner[v]
  BY <1>2, <1>5, <1>7 DEF AllocInv, OwnedForOwner
<1>10. /\ Absent \in [rev : 0 .. MaxRev, vals : SUBSET Values, marked : BOOLEAN]
       /\ Absent.rev = 0
  BY ServiceAllocConstants DEF Absent
<1>11. rev' \in 1 .. MaxRev /\ rev <= rev' /\ 0 <= rev'
  BY <1>3 DEF AllocInv, TypeOK
<1>12. {} \in SUBSET Values /\ {} = IF Absent.rev = 0 THEN {} ELSE Absent.vals
  BY <1>10
<1>13. StoreStep(r, s, n, Absent, {})
  BY <1>1, <1>2, <1>3, <1>4, <1>5, <1>7, <1>8, <1>9, <1>10, <1>11, <1>12 DEF StoreStep
<1> QED  BY <1>2, <1>4, <1>10, <1>12, <1>13, StoreInv

LEMMA SoftDeleteInv ==
  ASSUME AllocInv, NEW r \in Requests, SoftDelete(r)
  PROVE  AllocInv'
<1> DEFINE s == req[r].svc
           row == [rev |-> rev + 1, vals |-> req[r].old, marked |-> TRUE]
<1>1. req[r].pc = "write" /\ req[r].op \in Deletions
  BY DEF SoftDelete
<1>2. /\ s \in Services /\ Stored(s) /\ phase = "up" /\ Settling(r) = {} /\ CanPut(r)
      /\ req[r].old = {v \in Values : s \in Holders(v)}
      /\ \A q \in Requests \ {r} : req[q].svc # s
  BY <1>1, Deleting DEF CanPut
<1>3. /\ req' = [req EXCEPT ![r] = Idle] /\ UNCHANGED <<sentinel, phase, todo, seeded, lost>>
      /\ Put(s, req[r].old, TRUE)
  BY <1>2 DEF SoftDelete
<1>4. /\ rev \in Nat /\ rev' = rev + 1 /\ rev' \in 1 .. MaxRev /\ svc' = [svc EXCEPT ![s] = row]
  BY <1>3, ServiceAllocConstants DEF Put, AllocInv, TypeOK
<1>5. /\ row \in [rev : 0 .. MaxRev, vals : SUBSET Values, marked : BOOLEAN]
      /\ row.rev = rev + 1 /\ row.vals = req[r].old /\ row.rev # 0 /\ row.rev <= rev'
  BY <1>2, <1>4
<1> HIDE DEF row
<1>6. req'[r] = Idle
  BY <1>3 DEF AllocInv, TypeOK
<1>7. /\ Idle.pc = "idle" /\ Idle.op = "create" /\ Idle.svc = Nobody /\ Idle.exp = 0
      /\ Idle.created = {} /\ Idle.want = {} /\ "create" \notin Deletions
  BY DEF Idle, Deletions
<1>8. Settling(r)' = {}
  BY <1>6, <1>7 DEF Settling
<1>9. Requested(r)'
  BY <1>6, <1>7 DEF Requested, Writing
<1>10. ASSUME NEW v \in req[r].old
       PROVE  /\ v \in Values /\ Holders(v) \subseteq {s} /\ sentinel[v] # "free"
              /\ sentinel[v] = "owned" => Owner[v] = s
              /\ \A q \in Requests : v \notin Settling(q)
              /\ v \notin lost
  <2>1. v \in Values /\ s \in Holders(v)
    BY <1>2
  <2>2. \A q \in Requests : v \notin Settling(q)
    BY <2>1 DEF AllocInv, Settles
  <2>3. Holders(v) \subseteq {s} /\ sentinel[v] # "free"
    BY <1>2, <2>1 DEF AllocInv, OneHolder, HeldIsReserved
  <2>4. sentinel[v] = "owned" => Owner[v] = s
    BY <2>1 DEF AllocInv, OwnedForOwner
  <2>5. v \notin lost
    BY <2>1 DEF AllocInv, LostFits
  <2> QED  BY <2>1, <2>2, <2>3, <2>4, <2>5
<1>11. /\ req[r].old \in SUBSET Values /\ req[r].old = IF row.rev = 0 THEN {} ELSE row.vals
       /\ {} = {v \in Values : s \in Holders(v)} \ req[r].old
       /\ 0 <= rev /\ rev <= rev'
  BY <1>2, <1>4, <1>5
<1>12. StoreStep(r, s, Idle, row, req[r].old)
  BY <1>2, <1>3, <1>4, <1>5, <1>7, <1>8, <1>9, <1>10, <1>11 DEF StoreStep
<1> QED  BY <1>2, <1>5, <1>11, <1>12, IdleIsRequest, StoreInv

-------------------------------------------------------------------------------
(* Crash and start-up.                                                     *)

\* With every request idle, what is left of the invariant is about the store.
AllIdle == (\A r \in Requests : req[r] = Idle) /\ rev \in Nat

IdleFacts ==
  /\ \A r \in Requests : Settling(r) = {} /\ Requested(r) /\ Settles(r)
  /\ \A r \in Requests : req[r].exp <= rev /\ req[r].created \subseteq req[r].want
  /\ Exclusive
  /\ \A q, r \in Requests : q # r => Settling(q) \cap Settling(r) = {}

LEMMA IdleFactsHold == AllIdle => IdleFacts
<1> SUFFICES ASSUME AllIdle PROVE IdleFacts
  OBVIOUS
<1> USE DEF AllIdle
<1>1. /\ Idle.pc = "idle" /\ Idle.op = "create" /\ Idle.svc = Nobody /\ Idle.exp = 0
      /\ Idle.created = {} /\ Idle.want = {} /\ "create" \notin Deletions
  BY DEF Idle, Deletions
<1>2. \A r \in Requests : Settling(r) = {}
  BY <1>1 DEF Settling
<1>3. \A r \in Requests : Requested(r) /\ Settles(r)
  BY <1>1, <1>2 DEF Requested, Settles, Writing
<1>4. Exclusive
  BY <1>1 DEF Exclusive
<1> QED  BY <1>1, <1>2, <1>3, <1>4 DEF IdleFacts

LEMMA CrashInv ==
  ASSUME AllocInv, Crash
  PROVE  AllocInv'
<1>1. \A v : Holders(v)' = Holders(v)
  BY DEF Holders, Stored, Crash
<1>2. /\ \A r \in Requests : req'[r] = Idle
      /\ req' \in [Requests -> Request] /\ rev' \in Nat
  BY IdleIsRequest DEF Crash, AllocInv, TypeOK
<1>3. IdleFacts'
  <2>1. AllIdle'
    BY <1>2 DEF AllIdle
  <2> QED  BY <2>1, IdleFactsHold, PTL
<1>4. TypeOK'
  BY <1>2, <1>3 DEF Crash, AllocInv, TypeOK, IdleFacts
<1>5. OneHolder' /\ OwnedForOwner' /\ SeededStays' /\ LostFits'
  BY <1>1 DEF Crash, AllocInv, OneHolder, OwnedForOwner, SeededStays, LostFits, Stored
<1>6. Revisions' /\ Restarting' /\ HeldIsReserved' /\ NothingLeaks' /\ OneSettler'
  BY <1>2, <1>3, <1>4
     DEF Crash, AllocInv, Revisions, Restarting, HeldIsReserved, NothingLeaks, OneSettler, IdleFacts
<1> QED  BY <1>3, <1>4, <1>5, <1>6 DEF AllocInv, IdleFacts

\* What a start-up step has to keep: nothing else of the invariant can change.
LEMMA StartUpRest ==
  ASSUME AllocInv, phase # "up", UNCHANGED <<req, seeded, lost>>,
         TypeOK', OneHolder', OwnedForOwner', SeededStays', Restarting',
         \A s \in Services : svc'[s].rev <= rev', rev <= rev',
         phase' = "up" => HeldIsReserved' /\ NothingLeaks'
  PROVE  AllocInv'
<1>1. (\A r \in Requests : req'[r] = Idle) /\ rev' \in Nat
  BY DEF AllocInv, Restarting, TypeOK
<1>2. IdleFacts'
  <2>1. AllIdle'
    BY <1>1 DEF AllIdle
  <2> QED  BY <2>1, IdleFactsHold, PTL
<1>3. Revisions' /\ OneSettler' /\ HeldIsReserved' /\ NothingLeaks' /\ LostFits'
  BY <1>2 DEF AllocInv, Revisions, OneSettler, HeldIsReserved, NothingLeaks, LostFits, IdleFacts
<1> QED  BY <1>2, <1>3 DEF AllocInv, IdleFacts

\* The Service of the start-up is stored only the first time, when nobody else
\* has its values.
LEMMA StoreSeededInv ==
  ASSUME AllocInv, StoreSeeded
  PROVE  AllocInv'
<1>1. phase = "down" /\ phase' = "seed" /\ UNCHANGED <<sentinel, req, seeded, lost>>
  BY DEF StoreSeeded
<1>2. todo' \subseteq Values
  BY DEF StoreSeeded
<1>3. Restarting'
  BY <1>1 DEF AllocInv, Restarting, StoreSeeded
<1>4. rev \in Nat /\ \A s \in Services : svc[s].rev \in Nat /\ svc[s].rev <= rev
  BY DEF AllocInv, TypeOK, Revisions
<1>5. CASE seeded = Nobody \/ Stored(seeded)
  <2>1. UNCHANGED <<svc, rev>>
    BY <1>5 DEF StoreSeeded
  <2>2. \A v : Holders(v)' = Holders(v)
    BY <2>1 DEF Holders, Stored
  <2>3. TypeOK'
    BY <1>1, <1>2, <2>1 DEF AllocInv, TypeOK
  <2>4. OneHolder' /\ OwnedForOwner' /\ SeededStays'
    BY <1>1, <1>5, <2>1, <2>2 DEF AllocInv, OneHolder, OwnedForOwner, SeededStays, Stored
  <2> QED  BY <1>1, <1>3, <1>4, <2>1, <2>3, <2>4, StartUpRest
<1>6. CASE seeded # Nobody /\ ~Stored(seeded)
  <2> DEFINE vals == {v \in Values : Owner[v] = seeded}
             row == [rev |-> rev + 1, vals |-> vals, marked |-> FALSE]
  <2>1. /\ rev < MaxRev /\ rev' = rev + 1 /\ svc' = [svc EXCEPT ![seeded] = row]
        /\ seeded \in Services
    BY <1>6 DEF StoreSeeded, Put, AllocInv, TypeOK
  <2>2. /\ row \in [rev : 0 .. MaxRev, vals : SUBSET Values, marked : BOOLEAN]
        /\ row.rev = rev + 1 /\ row.vals = vals
    BY <1>4, <2>1, ServiceAllocConstants
  <2> HIDE DEF row
  <2>3. svc'[seeded] = row /\ \A s \in Services \ {seeded} : svc'[s] = svc[s]
    BY <2>1 DEF AllocInv, TypeOK
  <2>4. TypeOK'
    BY <1>1, <1>2, <1>4, <2>1, <2>2, ServiceAllocConstants DEF AllocInv, TypeOK
  <2>5. ASSUME NEW v \in Values
        PROVE  Holders(v)' = IF Owner[v] = seeded THEN {seeded} ELSE Holders(v)
    <3>1. seeded \notin Holders(v)
      BY <1>6 DEF Holders
    <3>2. Owner[v] = seeded => Holders(v) = {}
      BY <1>6 DEF AllocInv, SeededStays
    <3>3. row.rev # 0
      BY <1>4, <2>2
    <3>4. Holders(v)' = IF v \in vals THEN Holders(v) \cup {seeded} ELSE Holders(v)
      BY <2>1, <2>2, <2>3, <3>1, <3>3 DEF Holders, Stored
    <3> QED  BY <3>2, <3>4
  <2>6. OneHolder' /\ OwnedForOwner'
    BY <1>1, <2>5 DEF AllocInv, OneHolder, OwnedForOwner
  <2>7. SeededStays'
    BY <1>1, <1>4, <2>2, <2>3 DEF SeededStays, Stored
  <2>8. \A s \in Services : svc'[s].rev <= rev'
    BY <1>4, <2>1, <2>2, <2>3
  <2> QED  BY <1>1, <1>3, <1>4, <2>1, <2>4, <2>6, <2>7, <2>8, StartUpRest
<1> QED  BY <1>5, <1>6

LEMMA StartUpInv ==
  ASSUME AllocInv, StartRepair \/ Listen \/ \E v \in Values : SeedSentinel(v) \/ Repair(v)
  PROVE  AllocInv'
<1>1. \A v : Holders(v)' = Holders(v)
  BY DEF Holders, Stored, StartRepair, SeedSentinel, Listen, Repair
<1>2. phase \notin {"up", "down"} /\ UNCHANGED <<svc, req, rev, seeded, lost>>
  BY DEF StartRepair, SeedSentinel, Listen, Repair
<1>3. TypeOK'
  BY <1>2 DEF AllocInv, TypeOK, StartRepair, SeedSentinel, Listen, Repair
<1>4. OneHolder' /\ SeededStays' /\ rev <= rev' /\ \A s \in Services : svc'[s].rev <= rev'
  BY <1>1, <1>2 DEF AllocInv, OneHolder, SeededStays, Stored, Revisions, TypeOK
<1>5. \A r \in Requests : req'[r] = Idle
  BY <1>2 DEF AllocInv, Restarting
<1>6. CASE StartRepair
  BY <1>1, <1>2, <1>3, <1>4, <1>5, <1>6, StartUpRest
     DEF StartRepair, AllocInv, Restarting, OwnedForOwner
<1>7. CASE Listen
  <2>1. Restarting' /\ OwnedForOwner' /\ HeldIsReserved' /\ NothingLeaks'
    BY <1>1, <1>7 DEF Listen, AllocInv, Restarting, OwnedForOwner, HeldIsReserved, NothingLeaks
  <2> QED  BY <1>2, <1>3, <1>4, <2>1, StartUpRest
<1>8. CASE \E v \in Values : SeedSentinel(v)
  <2>1. PICK v \in Values : SeedSentinel(v)
    BY <1>8
  <2>2. /\ \A u \in Values \ {v} : sentinel'[u] = sentinel[u]
        /\ sentinel'[v] = IF sentinel[v] = "free" THEN "owned" ELSE sentinel[v]
        /\ phase = "seed" /\ phase' = "seed" /\ v \in todo
    BY <2>1 DEF SeedSentinel, AllocInv, TypeOK
  <2>3. Owner[v] # Nobody
    BY <2>2 DEF AllocInv, Restarting
  <2>4. OwnedForOwner'
    BY <1>1, <2>2, <2>3 DEF AllocInv, OwnedForOwner
  <2>5. Restarting'
    BY <1>2, <1>5, <2>1, <2>2 DEF Restarting, SeedSentinel, AllocInv
  <2> QED  BY <1>2, <1>3, <1>4, <2>2, <2>4, <2>5, StartUpRest
<1>9. CASE \E v \in Values : Repair(v)
  <2>1. PICK v \in Values : Repair(v)
    BY <1>9
  <2>2. /\ \A u \in Values \ {v} : sentinel'[u] = sentinel[u]
        /\ sentinel'[v] = IF Holders(v) # {} /\ sentinel[v] = "free" THEN "plain" ELSE
                          IF Holders(v) = {} /\ sentinel[v] = "plain" THEN "free" ELSE sentinel[v]
    BY <2>1 DEF Repair, AllocInv, TypeOK
  <2>3. phase' = "repair" /\ phase = "repair" /\ todo' = todo \ {v}
    BY <2>1 DEF Repair
  <2>4. OwnedForOwner'
    BY <1>1, <2>2 DEF AllocInv, OwnedForOwner
  <2>5. Restarting'
    BY <1>1, <1>5, <2>2, <2>3 DEF AllocInv, Restarting
  <2> QED  BY <1>2, <1>3, <1>4, <2>3, <2>4, <2>5, StartUpRest
<1> QED  BY <1>6, <1>7, <1>8, <1>9

\* Two elements make a finite set larger than one.
LEMMA AtMostOne ==
  ASSUME NEW S, IsFiniteSet(S), Cardinality(S) <= 1, NEW s \in S, NEW t \in S
  PROVE  s = t
<1> SUFFICES ASSUME s # t PROVE FALSE
  OBVIOUS
<1>1. Cardinality({s, t}) = 2
  <2>1. IsFiniteSet({s}) /\ Cardinality({s}) = 1
    BY FS_Singleton
  <2>2. Cardinality({s} \cup {t}) = Cardinality({s}) + 1
    BY <2>1, FS_AddElement
  <2>3. {s, t} = {s} \cup {t}
    OBVIOUS
  <2> QED  BY <2>1, <2>2, <2>3
<1>2. Cardinality({s, t}) <= Cardinality(S)
  BY FS_Subset
<1>3. Cardinality(S) \in Nat
  BY FS_CardinalityType
<1> QED  BY <1>1, <1>2, <1>3

LEMMA InitInv == Init => AllocInv
<1> SUFFICES ASSUME Init PROVE AllocInv
  OBVIOUS
<1>1. rev = 1 /\ phase = "down" /\ \A r \in Requests : req[r] = Idle
  BY DEF Init
<1>2. req \in [Requests -> Request]
  BY IdleIsRequest DEF Init
<1>3. IdleFacts
  BY <1>1, IdleFactsHold DEF AllIdle
<1>4. ASSUME NEW s \in Services
      PROVE  /\ svc[s] \in [rev : 0 .. MaxRev, vals : SUBSET Values, marked : BOOLEAN]
             /\ svc[s].rev <= rev
  <2>1. 0 \in 0 .. MaxRev /\ 1 \in 0 .. MaxRev
    BY ServiceAllocConstants
  <2>2. CASE svc[s] = Absent
    <3>1. /\ Absent \in [rev : 0 .. MaxRev, vals : SUBSET Values, marked : BOOLEAN]
          /\ Absent.rev = 0
      BY <2>1 DEF Absent
    <3> QED  BY <1>1, <2>2, <3>1
  <2>3. CASE svc[s] \in [rev : {1}, vals : SUBSET Values, marked : {FALSE}]
    <3>1. {1} \subseteq 0 .. MaxRev /\ {FALSE} \subseteq BOOLEAN
      BY <2>1
    <3>2. svc[s] \in [rev : 0 .. MaxRev, vals : SUBSET Values, marked : BOOLEAN]
      BY <2>3, <3>1, Zenon
    <3>3. svc[s].rev = 1
      BY <2>3
    <3> QED  BY <1>1, <3>2, <3>3
  <2> QED  BY <2>2, <2>3 DEF Init
<1>5. svc \in [Services -> [rev : 0 .. MaxRev, vals : SUBSET Values, marked : BOOLEAN]]
  BY <1>4 DEF Init
<1>6. TypeOK
  BY <1>1, <1>2, <1>3, <1>5, ServiceAllocConstants DEF Init, TypeOK, IdleFacts
<1>7. OneHolder
  <2> SUFFICES ASSUME NEW v \in Values PROVE \A s, t \in Holders(v) : s = t
    BY DEF OneHolder
  <2>1. Holders(v) \subseteq Services /\ Cardinality(Holders(v)) <= 1
    BY DEF Init, Holders
  <2>2. IsFiniteSet(Holders(v))
    BY <2>1, ServiceAllocConstants, FS_Subset
  <2> QED  BY <2>1, <2>2, AtMostOne
<1>8. Restarting /\ OwnedForOwner /\ HeldIsReserved /\ NothingLeaks /\ LostFits
  BY <1>1 DEF Init, Restarting, OwnedForOwner, HeldIsReserved, NothingLeaks, LostFits
<1>9. SeededStays
  <2> SUFFICES ASSUME seeded # Nobody, ~Stored(seeded), NEW v \in Values, Owner[v] = seeded
               PROVE  Holders(v) = {}
    BY <1>1 DEF SeededStays
  <2>1. Holders(v) \subseteq {seeded}
    BY DEF Init
  <2>2. seeded \notin Holders(v)
    BY DEF Holders
  <2> QED  BY <2>1, <2>2
<1> QED  BY <1>3, <1>4, <1>6, <1>7, <1>8, <1>9 DEF AllocInv, Revisions, OneSettler, IdleFacts

-------------------------------------------------------------------------------
(* The theorems.                                                           *)

LEMMA NextInv == Races = {} /\ AllocInv /\ [Next]_vars => AllocInv'
<1> SUFFICES ASSUME Races = {}, AllocInv, [Next]_vars PROVE AllocInv'
  OBVIOUS
<1>1. CASE \E r \in Requests : RequestStep(r)
  <2>1. PICK r \in Requests : RequestStep(r)
    BY <1>1
  <2>2. CASE \E s \in Services, want \in SUBSET Values, auto \in BOOLEAN : StartCreate(r, s, want, auto)
    BY <2>2, StartCreateInv
  <2>3. CASE \E s \in Services, want \in SUBSET Values, auto, blind \in BOOLEAN :
               StartUpdate(r, s, want, auto, blind)
    BY <2>3, StartUpdateInv
  <2>4. CASE \E s \in Services, op \in Deletions : StartDelete(r, s, op)
    BY <2>4, StartDeleteInv
  <2>5. CASE \E s \in Services : CreateRetry(r, s)
    BY <2>5, CreateRetryInv
  <2>6. CASE \E v \in Values : AllocateNext(r, v) \/ Reserve(r, v)
    BY <2>6, AllocateNextInv
  <2>7. CASE \E v \in Values : GiveBack(r, v) \/ ReleaseStale(r, v)
    BY <2>7, GiveBackInv
  <2>12. CASE Abandon(r) \/ \E v \in Values : ReserveUnseen(r, v)
    BY <2>12, AbandonInv, ReserveUnseenInv
  <2>8. CASE Reject(r) \/ CreateConflict(r) \/ UpdateConflict(r)
    BY <2>8, GiveUpInv
  <2>9. CASE WriteCreate(r) \/ WriteUpdate(r)
    BY <2>9, WriteInv
  <2>10. CASE Reserved(r) \/ RollbackAndRetry(r) \/ Retry(r) \/ Finish(r)
    BY <2>10, ReservedInv, RollbackAndRetryInv, RetryInv, FinishInv
  <2>11. CASE HardDelete(r) \/ SoftDelete(r)
    BY <2>11, HardDeleteInv, SoftDeleteInv
  <2> QED
    BY <2>1, <2>2, <2>3, <2>4, <2>5, <2>6, <2>7, <2>8, <2>9, <2>10, <2>11, <2>12 DEF RequestStep
<1>2. CASE Crash
  BY <1>2, CrashInv
<1>3. CASE StartRepair \/ Listen \/ \E v \in Values : SeedSentinel(v) \/ Repair(v)
  BY <1>3, StartUpInv
<1>5. CASE StoreSeeded
  BY <1>5, StoreSeededInv
<1>4. CASE UNCHANGED vars
  BY <1>4 DEF vars, AllocInv, TypeOK, Revisions, Restarting, OneHolder, OwnedForOwner,
     HeldIsReserved, NothingLeaks, OneSettler, Exclusive, Requested, Settles, Settling,
     Holders, Stored, Writing, Missing, PreReserved, SeededStays, LostFits
<1> QED  BY <1>1, <1>2, <1>3, <1>4, <1>5 DEF Next

\* Every state a server reaches without the races satisfies the invariant above.
THEOREM AllocInvariant ==
  ASSUME Races = {}
  PROVE  Spec => []AllocInv
<1>1. AllocInv /\ [Next]_vars => AllocInv'
  BY NextInv
<1> QED  BY <1>1, InitInv, PTL DEF Spec

\* Two Services never hold the same cluster IP or node port: a write lists only
\* values that its request reserved, that its Service had, or that are kept
\* for it, and a crash or a repair in between gives none of them away.
THEOREM ValuesAreNeverShared ==
  ASSUME Races = {}
  PROVE  Spec => []NeverSharedValue
<1>1. AllocInv => NeverSharedValue
  <2> SUFFICES ASSUME AllocInv, NEW v \in Values PROVE Cardinality(Holders(v)) <= 1
    BY DEF NeverSharedValue
  <2>1. CASE Holders(v) = {}
    <3>1. Cardinality({}) = 0
      BY FS_EmptySet
    <3> QED  BY <2>1, <3>1
  <2>2. CASE Holders(v) # {}
    <3>1. PICK s : s \in Holders(v)
      BY <2>2
    <3>2. Holders(v) = {s}
      BY <3>1 DEF AllocInv, OneHolder
    <3>3. Cardinality({s}) = 1
      BY FS_Singleton
    <3> QED  BY <3>2, <3>3
  <2> QED  BY <2>1, <2>2
<1> QED  BY <1>1, AllocInvariant, PTL

\* While the server serves, the value of a stored Service is reserved: neither
\* a commit, a rollback, a dropped transaction nor a deletion releases it.
THEOREM HeldValuesAreReserved ==
  ASSUME Races = {}
  PROVE  Spec => []HeldIsReserved
<1>1. AllocInv => HeldIsReserved
  BY DEF AllocInv
<1> QED  BY <1>1, AllocInvariant, PTL

\* While the server serves, a reservation that no disconnected client's request
\* has abandoned since the start belongs to a stored Service or to a request at
\* work, whatever failed or crashed before.
THEOREM ReservationsNeverLeak ==
  ASSUME Races = {}
  PROVE  Spec => []NothingLeaks
<1>1. AllocInv => NothingLeaks
  BY DEF AllocInv
<1> QED  BY <1>1, AllocInvariant, PTL

\* No two requests reserve or release the same value.
THEOREM ValuesHaveOneSettler ==
  ASSUME Races = {}
  PROVE  Spec => []OneSettler
<1>1. AllocInv => OneSettler
  BY DEF AllocInv
<1> QED  BY <1>1, AllocInvariant, PTL

===============================================================================
