--------------------------- MODULE SaKeyringProofs ---------------------------
(***************************************************************************)
(* Proofs about the ring of ServiceAccount signing keys, for every policy  *)
(* that satisfies PolicyAssumption and every bound of a run.               *)
(***************************************************************************)
EXTENDS SaKeyring, TLAPS

\* What plan does to a list K at t: it drops Retired keys, and adds at most one
\* key, which signs no earlier than prepublish from t and after every other key.
LEMMA PlanFacts ==
  ASSUME NEW K \in SUBSET Key, NEW t \in Nat, minted \in Nat, NEW L \in Plans(K, t)
  PROVE  \/ L = Kept(K, t)
         \/ \E n \in [from : Nat, kid : {minted + 1}] :
              /\ L = Kept(K, t) \cup {n}
              /\ n.from >= t + Prepublish
              /\ \A k \in Kept(K, t) : k.from < n.from
<1>1. CASE L \in {Kept(K, t) : m \in {k \in K : IsNewest(k, Kept(K, t)) /\ ~SuccessorDue(k, t)}}
  BY <1>1
<1>2. CASE L \in {Kept(K, t) \cup {Successor(m, t)} :
                    m \in {k \in K : IsNewest(k, Kept(K, t)) /\ SuccessorDue(k, t)}}
  <2>1. PICK m \in K : /\ IsNewest(m, Kept(K, t))
                       /\ L = Kept(K, t) \cup {Successor(m, t)}
    BY <1>2
  <2> DEFINE n == Successor(m, t)
  <2>2. m.from \in Nat
    BY DEF Key
  <2>3. n \in [from : Nat, kid : {minted + 1}] /\ n.from >= t + Prepublish
        /\ n.from >= m.from + Rotate
    BY <2>2, PolicyAssumption DEF Successor
  <2>4. ASSUME NEW k \in Kept(K, t) PROVE k.from < n.from
    <3>1. k.from \in Nat /\ k.from <= m.from
      BY <2>1 DEF IsNewest, Kept, Key
    <3>2. Rotate > 0
      BY PolicyAssumption
    <3> QED  BY <3>1, <3>2, <2>2, <2>3, PolicyAssumption
  <2> QED  BY <2>1, <2>3, <2>4
<1> QED  BY <1>1, <1>2 DEF Plans

\* A tick that changes the list would change it at every later moment too, so the
\* ticks after one that failed change it again.
LEMMA StaleFacts ==
  ASSUME NEW K \in SUBSET Key, NEW t \in Nat, minted \in Nat
  PROVE  /\ \A L \in Plans(K, t) : L # K => Stale(K, t)
         /\ K \in Plans(K, t) => ~Stale(K, t)
         /\ Stale(K, t) => Stale(K, t + 1)
<1>1. \A k \in K : k.from \in Nat
  BY DEF Key
<1>2. ASSUME NEW L \in Plans(K, t), L # K, Retired(K, t) = {} PROVE Stale(K, t)
  <2>1. Kept(K, t) = K
    BY <1>2 DEF Kept
  <2>2. PICK m \in K : IsNewest(m, K) /\ SuccessorDue(m, t)
    BY <1>2, <2>1 DEF Plans
  <2> QED  BY <2>2 DEF Stale
<1>3. ASSUME K \in Plans(K, t) PROVE ~Stale(K, t)
  <2>1. CASE \E m \in K : IsNewest(m, Kept(K, t)) /\ ~SuccessorDue(m, t) /\ K = Kept(K, t)
    <3>1. PICK m \in K : IsNewest(m, K) /\ ~SuccessorDue(m, t)
      BY <2>1
    <3>2. Retired(K, t) = {}
      BY <2>1 DEF Kept, Retired
    <3>3. ASSUME NEW d \in K, IsNewest(d, K), SuccessorDue(d, t) PROVE FALSE
      <4>1. d.from = m.from
        BY <3>1, <3>3, <1>1 DEF IsNewest
      <4> QED  BY <4>1, <3>1, <3>3 DEF SuccessorDue
    <3> QED  BY <3>2, <3>3 DEF Stale
  <2>2. ASSUME NEW n \in [from : Nat, kid : {minted + 1}], K = Kept(K, t) \cup {n},
               \A k \in Kept(K, t) : k.from < n.from
        PROVE FALSE
    <3>1. n \in K /\ n \notin Kept(K, t)
      BY <2>2
    <3>2. PICK j \in K : j.from > n.from
      BY <3>1 DEF Kept, Retired
    <3> QED  BY <3>2, <2>2, <1>1
  <2>3. CASE K \in {Kept(K, t) \cup {Successor(m, t)} :
                      m \in {k \in K : IsNewest(k, Kept(K, t)) /\ SuccessorDue(k, t)}}
    <3>1. PICK m \in K : IsNewest(m, Kept(K, t)) /\ K = Kept(K, t) \cup {Successor(m, t)}
      BY <2>3
    <3>2. Successor(m, t) \in [from : Nat, kid : {minted + 1}]
          /\ Successor(m, t).from >= m.from + Rotate
      BY <1>1, PolicyAssumption DEF Successor
    <3>3. \A k \in Kept(K, t) : k.from <= m.from /\ k.from \in Nat
      BY <3>1, <1>1 DEF IsNewest, Kept
    <3>4. \A k \in Kept(K, t) : k.from < Successor(m, t).from
      BY <3>2, <3>3, <1>1, PolicyAssumption
    <3> QED  BY <3>1, <3>2, <3>4, <2>2
  <2> QED  BY <1>3, <2>1, <2>3 DEF Plans
<1>4. ASSUME Stale(K, t) PROVE Stale(K, t + 1)
  <2>1. CASE Retired(K, t) # {}
    <3>1. PICK k \in K, j \in K : j.from > k.from /\ j.from + retire_after <= t
      BY <2>1 DEF Retired
    <3>2. j.from + retire_after <= t + 1
      BY <3>1, <1>1, PolicyAssumption DEF retire_after
    <3> QED  BY <3>1, <3>2 DEF Stale, Retired
  <2>2. CASE \E m \in K : IsNewest(m, K) /\ SuccessorDue(m, t)
    <3>1. PICK m \in K : IsNewest(m, K) /\ SuccessorDue(m, t)
      BY <2>2
    <3>2. SuccessorDue(m, t + 1)
      BY <3>1, <1>1, PolicyAssumption DEF SuccessorDue
    <3> QED  BY <3>1, <3>2 DEF Stale
  <2> QED  BY <1>4, <2>1, <2>2 DEF Stale
<1> QED  BY <1>2, <1>3, <1>4 DEF Stale

\* A tick at this moment keeps the key of every live token.
LEMMA PlanCovers ==
  ASSUME NEW K \in SUBSET Key, NEW L \in Plans(K, now), TypeOK, Live, Covers(K)
  PROVE  Covers(L)
<1>1. now \in Nat /\ minted \in Nat
  BY DEF TypeOK
<1>2. \A j, k \in Kept(K, now) : j.from = k.from => j = k
  BY DEF Covers, Kept
<1>3. ASSUME NEW t \in tokens PROVE t.key \in Kept(K, now)
  <2>1. t.exp \in Nat /\ t.exp > now /\ t.key \in K
    BY PolicyAssumption DEF TypeOK, Live, Covers
  <2>2. ASSUME NEW j \in K, j.from > t.key.from, j.from + retire_after <= now PROVE FALSE
    <3>1. j.from \in Nat /\ retire_after \in Nat
      BY PolicyAssumption DEF Key, retire_after
    <3>2. t.exp <= j.from + retire_after
      BY <2>2 DEF Covers
    <3> QED  BY <3>1, <3>2, <2>1, <2>2, <1>1
  <2> QED  BY <2>1, <2>2 DEF Kept, Retired
<1>4. CASE L = Kept(K, now)
  BY <1>2, <1>3, <1>4 DEF Covers, Kept
<1>5. ASSUME NEW n \in [from : Nat, kid : {minted + 1}], L = Kept(K, now) \cup {n},
             n.from >= now + Prepublish, \A k \in Kept(K, now) : k.from < n.from
      PROVE  Covers(L)
  <2>1. \A k \in Kept(K, now) : k.from \in Nat
    BY DEF Kept, Key
  <2>2. \A j, k \in L : j.from = k.from => j = k
    BY <1>2, <1>5, <2>1
  <2>3. ASSUME NEW t \in tokens PROVE t.exp <= n.from + retire_after
    <3>1. t.exp \in Nat /\ t.exp <= now + Life
      BY PolicyAssumption DEF TypeOK, Live
    <3> QED  BY <3>1, <1>1, <1>5, PolicyAssumption DEF retire_after
  <2>4. ASSUME NEW t \in tokens, NEW k \in L, k.from > t.key.from
        PROVE  t.exp <= k.from + retire_after
    BY <2>3, <2>4, <1>5 DEF Covers, Kept
  <2> QED  BY <2>2, <2>4, <1>3, <1>5 DEF Covers
<1> QED  BY <1>1, <1>4, <1>5, PlanFacts

\* It keeps the key that is due to sign.
LEMMA PlanHasSigner ==
  ASSUME NEW K \in SUBSET Key, NEW L \in Plans(K, now), TypeOK, HasSigner(K, now)
  PROVE  HasSigner(L, now) /\ L # {}
<1>1. now \in Nat /\ minted \in Nat
  BY DEF TypeOK
<1>2. PICK s \in K : /\ s.from <= now /\ s.from >= snap.signer.from
                     /\ \A k \in K : k.from > s.from => k.from > now
  BY DEF HasSigner
<1>3. s \in Kept(K, now)
  <2>1. ASSUME NEW j \in K, j.from > s.from, j.from + retire_after <= now PROVE FALSE
    BY <2>1, <1>1, <1>2, PolicyAssumption DEF Key, retire_after
  <2> QED  BY <2>1 DEF Kept, Retired
<1>4. CASE L = Kept(K, now)
  BY <1>2, <1>3, <1>4 DEF HasSigner, Kept
<1>5. ASSUME NEW n \in [from : Nat, kid : {minted + 1}], L = Kept(K, now) \cup {n},
             n.from >= now + Prepublish
      PROVE  HasSigner(L, now) /\ L # {}
  <2>1. n.from > now
    BY <1>5, <1>1, PolicyAssumption
  <2> QED  BY <2>1, <1>2, <1>3, <1>5 DEF HasSigner, Kept
<1> QED  BY <1>1, <1>4, <1>5, PlanFacts

\* It keeps the signer of the snapshot, which may be Gap old.
LEMMA PlanSignsWith ==
  ASSUME NEW K \in SUBSET Key, NEW L \in Plans(K, now), TypeOK, SignsWith(K),
         snap.asof <= now, now <= snap.asof + Gap
  PROVE  SignsWith(L)
<1>1. now \in Nat /\ minted \in Nat /\ snap.asof \in Nat
  BY DEF TypeOK
<1>2. snap.signer \in Kept(K, now)
  <2>1. ASSUME NEW j \in K, j.from > snap.signer.from, j.from + retire_after <= now PROVE FALSE
    BY <2>1, <1>1, PolicyAssumption DEF SignsWith, Key, retire_after
  <2> QED  BY <2>1 DEF SignsWith, Kept, Retired
<1>3. CASE L = Kept(K, now)
  BY <1>2, <1>3 DEF SignsWith, Kept
<1>4. ASSUME NEW n \in [from : Nat, kid : {minted + 1}], L = Kept(K, now) \cup {n},
             n.from >= now + Prepublish
      PROVE  SignsWith(L)
  <2>1. n.from > snap.asof
    BY <1>4, <1>1, PolicyAssumption
  <2> QED  BY <2>1, <1>2, <1>4 DEF SignsWith, Kept
<1> QED  BY <1>1, <1>3, <1>4, PlanFacts

\* A key that plan adds signs no earlier than prepublish from now, and the list
\* stays one of Keys when the new key is within the bound.
LEMMA PlanAdds ==
  ASSUME NEW K \in SUBSET Key, NEW L \in Plans(K, now), TypeOK, Mint(K, L)
  PROVE  /\ L \in SUBSET Key /\ minted' \in 0..MaxKeys
         /\ \A k \in L \ K : k.from >= now + Prepublish
<1>1. now \in Nat /\ minted \in 0..MaxKeys /\ minted \in Nat /\ MaxKeys \in Nat
  BY PolicyAssumption DEF TypeOK
<1>2. CASE L = Kept(K, now)
  <2>1. L \subseteq K
    BY <1>2 DEF Kept
  <2> QED  BY <2>1, <1>1 DEF Mint
<1>3. ASSUME NEW n \in [from : Nat, kid : {minted + 1}], L = Kept(K, now) \cup {n},
             n.from >= now + Prepublish
      PROVE  /\ L \in SUBSET Key /\ minted' \in 0..MaxKeys
             /\ \A k \in L \ K : k.from >= now + Prepublish
  <2>1. \A k \in L \ K : k = n
    BY <1>3 DEF Kept
  <2>2. CASE L \subseteq K
    BY <2>1, <2>2, <1>1 DEF Mint
  <2>3. CASE ~(L \subseteq K)
    <3>1. minted < MaxKeys /\ minted' = minted + 1
      BY <2>3 DEF Mint
    <3>2. n \in Key
      BY <3>1, <1>1 DEF Key
    <3>3. L \in SUBSET Key
      BY <3>2, <1>3 DEF Kept
    <3> QED  BY <3>1, <3>3, <2>1, <1>1, <1>3
  <2> QED  BY <2>2, <2>3
<1> QED  BY <1>1, <1>2, <1>3, PlanFacts

\* The signer a snapshot is built with, when the list has one that is due.
LEMMA SignerFacts ==
  ASSUME NEW K \in SUBSET Key, NEW t \in Nat, HasSigner(K, t), snap.signer.from \in Nat,
         NEW s \in K, IsSigner(s, K, t)
  PROVE  /\ s.from <= t /\ s.from >= snap.signer.from
         /\ \A k \in K : k.from > s.from => k.from > t
<1>1. PICK d \in K : d.from <= t /\ d.from >= snap.signer.from
  BY DEF HasSigner
<1>2. s.from <= t /\ \A k \in K : k.from > s.from => k.from > t
  BY <1>1 DEF IsSigner
<1>3. d.from <= s.from
  BY <1>1, <1>2 DEF Key
<1> QED  BY <1>1, <1>2, <1>3 DEF Key

\* The invariant holds at the start.
LEMMA InitKeyring ==
  ASSUME Init
  PROVE  KeyringInv
<1>1. TypeOK
  BY PolicyAssumption DEF Init, TypeOK, Key, NoKey, Snapshot
<1> QED  BY <1>1, PolicyAssumption DEF Init, KeyringInv, Live, Announced, OnDisk, Running, Up, Snapshot, NoKey

\* A start or a tick publishes the list in the file.
LEMMA PublishKeyring ==
  ASSUME KeyringInv, pc \in {"persisted", "starting"},
         NEW s \in file, IsSigner(s, file, at), snap' = Snapshot(s, file, at),
         pc' = "idle", mem' = file,
         UNCHANGED <<now, file, at, minted, tokens, cache, fetched>>
  PROVE  KeyringInv' /\ snap'.signer.from >= snap.signer.from
<1>1. /\ TypeOK /\ file \in SUBSET Key /\ at \in Nat /\ now \in Nat
      /\ snap.signer.from \in Nat /\ s.from \in Nat
  BY DEF KeyringInv, TypeOK, Key
<1>2. file # {} /\ Covers(file) /\ HasSigner(file, now) /\ at <= now /\ now <= at + Gap
      /\ HasSigner(file, at)
  BY DEF KeyringInv, OnDisk
<1>3. /\ s.from <= at /\ s.from >= snap.signer.from
      /\ \A k \in file : k.from > s.from => k.from > at
  BY <1>1, <1>2, SignerFacts
<1>4. snap'.signer = s /\ snap'.verify = file /\ snap'.asof = at
  BY DEF Snapshot
<1>5. TypeOK'
  BY <1>1, <1>4 DEF TypeOK, Snapshot
<1>6. HasSigner(file, now)'
  <2>1. PICK d \in file : /\ d.from <= now /\ d.from >= snap.signer.from
                          /\ \A k \in file : k.from > d.from => k.from > now
    BY <1>2 DEF HasSigner
  <2>2. d.from >= s.from
    BY <2>1, <1>1, <1>2, <1>3 DEF Key
  <2> QED  BY <2>1, <2>2, <1>4 DEF HasSigner
<1>7. Covers(file)'
  BY <1>2 DEF Covers
<1>8. SignsWith(file)'
  BY <1>3, <1>4 DEF SignsWith
<1>9. Live'
  BY DEF KeyringInv, Live, Announced
<1>10. OnDisk'
  BY <1>2, <1>6, <1>7 DEF OnDisk
<1>11. Running'
  BY <1>9, <1>2, <1>3, <1>4, <1>6, <1>7, <1>8 DEF Running, SignsWith, Covers, HasSigner, Announced, Live
<1> QED  BY <1>3, <1>4, <1>5, <1>9, <1>10, <1>11 DEF KeyringInv

\* A tick or a start writes the list L that follows from K, the keys in memory
\* or in the file.
LEMMA PersistKeyring ==
  ASSUME KeyringInv, NEW K \in {file, mem}, file # {}, Covers(K), HasSigner(K, now),
         NEW L \in Plans(K, now), Mint(K, L), file' = L, at' = now,
         \/ pc = "idle" /\ K = mem /\ L # K /\ pc' = "persisted"
         \/ pc = "down" /\ K = file /\ pc' = "starting",
         UNCHANGED <<now, mem, snap, tokens, cache, fetched>>
  PROVE  KeyringInv'
<1>1. /\ TypeOK /\ Live /\ OnDisk /\ Running /\ K \in SUBSET Key /\ now \in Nat
      /\ fetched \in Nat /\ fetched <= now /\ snap.asof \in Nat
  BY DEF KeyringInv, TypeOK, Live
<1>2. Covers(L) /\ HasSigner(L, now) /\ L # {}
  BY <1>1, PlanCovers, PlanHasSigner
<1>3. /\ L \in SUBSET Key /\ minted' \in 0..MaxKeys
      /\ \A k \in L \ K : k.from >= now + Prepublish
  BY <1>1, PlanAdds
<1>4. TypeOK'
  BY <1>1, <1>3 DEF TypeOK
<1>5. OnDisk'
  <2>1. Covers(L)' /\ HasSigner(L, now)' /\ HasSigner(L, at)'
    BY <1>2 DEF Covers, HasSigner
  <2> QED  BY <2>1, <1>1, <1>2, PolicyAssumption DEF OnDisk
<1>6. CASE pc = "idle" /\ K = mem /\ L # K /\ pc' = "persisted"
  <2>1. /\ snap.verify = mem /\ snap.asof <= now /\ now <= snap.asof + Gap
        /\ snap.signer.from <= snap.asof /\ SignsWith(mem) /\ Covers(mem) /\ HasSigner(mem, now)
        /\ Announced(mem)
    BY <1>6, <1>1 DEF Running, Up
  <2>2. SignsWith(L)
    BY <1>1, <1>6, <2>1, PlanSignsWith
  <2>3. \A k \in L \ mem : k.from >= snap.asof + Prepublish
    BY <1>3, <1>6, <2>1, <1>1, PolicyAssumption DEF Key
  <2>4. SignsWith(file)' /\ SignsWith(mem)' /\ Covers(mem)' /\ HasSigner(mem, now)'
        /\ Announced(mem)'
    BY <2>1, <2>2 DEF SignsWith, Covers, HasSigner, Announced
  <2>5. Running'
    <3>1. Stale(mem, now)
      BY <1>1, <1>6, StaleFacts DEF TypeOK
    <3>2. Stale(mem, now)'
      BY <3>1 DEF Stale, Retired, IsNewest, SuccessorDue
    <3> QED  BY <3>2, <2>1, <2>3, <2>4, <1>6 DEF Running
  <2>6. Live'
    <3>1. ASSUME cache # {}, NEW k \in L \ cache PROVE k.from >= fetched + CacheAge
      <4>1. CASE k \in file
        BY <3>1, <4>1, <1>1 DEF Live, Announced
      <4>2. CASE k \notin file /\ k \notin mem
        BY <4>2, <3>1, <1>1, <1>3, <1>6, PolicyAssumption DEF Key
      <4>3. CASE k \in mem
        BY <4>3, <3>1, <2>1 DEF Announced
      <4> QED  BY <4>1, <4>2, <4>3
    <3> QED  BY <3>1, <1>1 DEF Live, Announced
  <2> QED  BY <1>4, <1>5, <2>5, <2>6 DEF KeyringInv
<1>7. CASE pc = "down" /\ K = file /\ pc' = "starting"
  <2>1. ASSUME cache # {}, NEW k \in L \ cache PROVE k.from >= fetched + CacheAge
    <3>1. CASE k \in file
      BY <2>1, <3>1, <1>1 DEF Live, Announced
    <3>2. CASE k \notin file
      BY <3>2, <2>1, <1>1, <1>3, <1>7, PolicyAssumption DEF Key
    <3> QED  BY <3>1, <3>2
  <2>2. Live'
    BY <2>1, <1>1 DEF Live, Announced
  <2>3. Running'
    BY <1>7 DEF Running, Up
  <2> QED  BY <1>4, <1>5, <2>2, <2>3 DEF KeyringInv
<1> QED  BY <1>6, <1>7

\* Every step keeps the invariant, and no step moves signing to an older key.
LEMMA StepKeyring ==
  ASSUME KeyringInv, [Next]_vars
  PROVE  KeyringInv' /\ snap'.signer.from >= snap.signer.from
<1> USE DEF KeyringInv
<1>0. /\ now \in Nat /\ snap.asof \in Nat /\ snap.signer.from \in Nat /\ snap.signer \in Key
      /\ file \in SUBSET Key /\ mem \in SUBSET Key /\ at \in Nat /\ fetched \in Nat
  BY DEF TypeOK, Key
<1>1. CASE TickUnchanged
  <2>1. PICK s \in mem : IsSigner(s, mem, now) /\ snap' = Snapshot(s, mem, now)
    BY <1>1 DEF TickUnchanged
  <2>2. /\ SignsWith(file) /\ SignsWith(mem) /\ Covers(mem) /\ HasSigner(mem, now) /\ Announced(mem)
        /\ snap.asof <= now /\ now <= snap.asof + Gap /\ Covers(file) /\ HasSigner(file, now)
        /\ \A k \in file \ mem : k.from >= snap.asof + Prepublish
    BY <1>1 DEF Running, OnDisk, TickUnchanged, Up, SignsWith
  <2>3. /\ s.from <= now /\ s.from >= snap.signer.from
        /\ \A k \in mem : k.from > s.from => k.from > now
    BY <1>0, <2>1, <2>2, SignerFacts
  <2>4. file = mem
    BY <1>0, <1>1, StaleFacts DEF TickUnchanged, Running, Up, TypeOK
  <2>5. snap'.signer = s /\ snap'.verify = mem /\ snap'.asof = now
    BY <2>1 DEF Snapshot
  <2>6. TypeOK'
    BY <2>5, <2>1, <1>1, <1>0 DEF TickUnchanged, TypeOK, Snapshot
  <2>7. SignsWith(mem)' /\ HasSigner(mem, now)' /\ Covers(mem)' /\ Announced(mem)'
    <3>1. SignsWith(mem)'
      BY <2>1, <2>3, <2>5, <1>1 DEF TickUnchanged, SignsWith
    <3>2. s.from >= s.from
      BY <1>0 DEF Key
    <3>3. HasSigner(mem, now)'
      BY <2>1, <2>3, <2>5, <3>2, <1>1 DEF TickUnchanged, HasSigner
    <3>4. Covers(mem)' /\ Announced(mem)'
      BY <2>2, <1>1 DEF TickUnchanged, Covers, Announced
    <3> QED  BY <3>1, <3>3, <3>4
  <2> QED
    BY <2>3, <2>4, <2>5, <2>6, <2>7, <1>0, <1>1, PolicyAssumption
       DEF TickUnchanged, Live, OnDisk, Running, Up, SignsWith, HasSigner, Covers, Announced
<1>2. CASE TickPersist
  <2>1. PICK K \in Plans(mem, now) : K # mem /\ file' = K /\ Mint(mem, K)
    BY <1>2 DEF TickPersist
  <2>2. Covers(mem) /\ HasSigner(mem, now) /\ file # {} /\ pc = "idle"
    BY <1>2 DEF TickPersist, Running, Up, OnDisk
  <2>3. KeyringInv'
    BY <1>2, <2>1, <2>2, PersistKeyring DEF TickPersist
  <2> QED  BY <2>3, <1>0, <1>2 DEF TickPersist
<1>3. CASE TickPublish
  BY <1>3, PublishKeyring DEF TickPublish
<1>4. CASE TickFails
  <2>1. Covers(mem)' /\ HasSigner(mem, now)' /\ SignsWith(mem)' /\ Announced(mem)'
        /\ Covers(file)' /\ HasSigner(file, now)' /\ SignsWith(file)' /\ Announced(file)'
    BY <1>4 DEF TickFails, Running, OnDisk, Live, Up, SignsWith, Covers, HasSigner, Announced
  <2> QED  BY <2>1, <1>0, <1>4 DEF TickFails, TypeOK, Running, OnDisk, Live, Up
<1>5. CASE Stop
  <2>1. file # {} => Covers(file)' /\ HasSigner(file, now)'
    BY <1>5 DEF Stop, OnDisk, Covers, HasSigner
  <2>2. Announced(file)'
    BY <1>5 DEF Stop, Live, Announced
  <2> QED  BY <2>1, <2>2, <1>0, <1>5 DEF Stop, TypeOK, Running, OnDisk, Live, Up
<1>6. CASE Generate
  <2> DEFINE k == [from |-> now, kid |-> minted + 1]
  <2>1. k \in Key /\ file' = {k} /\ minted' \in 0..MaxKeys
    BY <1>6, <1>0, PolicyAssumption DEF Generate, Key, TypeOK
  <2>2. TypeOK'
    BY <2>1, <1>6 DEF Generate, TypeOK
  <2>3. tokens = {} /\ cache = {} /\ snap.signer.from <= now
    BY <1>6 DEF Generate, OnDisk
  <2>4. Covers(file)' /\ HasSigner(file, now)' /\ Announced(file)'
    BY <2>1, <2>3, <1>0, <1>6 DEF Generate, Covers, HasSigner, Announced
  <2> QED  BY <2>1, <2>2, <2>3, <2>4, <1>0, <1>6 DEF Generate, OnDisk, Live, Running, Up
<1>7. CASE Load
  <2>1. PICK K \in Plans(file, now) : file' = K /\ Mint(file, K)
    BY <1>7 DEF Load
  <2>2. file # {} /\ Covers(file) /\ HasSigner(file, now)
    BY <1>7 DEF Load, Loads, OnDisk
  <2>3. KeyringInv'
    BY <1>7, <2>1, <2>2, PersistKeyring DEF Load
  <2> QED  BY <2>3, <1>0, <1>7 DEF Load
<1>8. CASE Start
  BY <1>8, PublishKeyring DEF Start
<1>9. ASSUME NEW life \in 1..Life, Sign(life) PROVE KeyringInv' /\ snap' = snap
  <2> DEFINE t == [key |-> snap.signer, exp |-> now + life]
  <2>1. tokens' = tokens \cup {t} /\ UNCHANGED <<now, file, mem, snap, pc, at, minted, cache, fetched>>
        /\ t.key = snap.signer /\ t.exp = now + life
    BY <1>9 DEF Sign
  <2>2. life \in Nat /\ life > 0 /\ life <= Life
    BY PolicyAssumption
  <2>3. t \in [key : Key, exp : 1..(MaxTime + Life)]
    BY <1>0, <2>2, PolicyAssumption
  <2>4. ASSUME NEW K \in {file, mem} PROVE Covers(K)' /\ K # {}
    <3>1. SignsWith(K) /\ Covers(K) /\ snap.asof <= now /\ now <= snap.asof + Gap
      BY <1>9 DEF Sign, Running, Up, OnDisk
    <3>2. ASSUME NEW k \in K, k.from > snap.signer.from PROVE now + life <= k.from + retire_after
      BY <3>1, <3>2, <1>0, <2>2, PolicyAssumption DEF SignsWith, Key, retire_after
    <3> QED  BY <3>1, <3>2, <2>1 DEF Covers, SignsWith
  <2>5. Live'
    BY <2>1, <2>2, <1>0, PolicyAssumption DEF Live, Announced
  <2>6. TypeOK'
    BY <2>1, <2>3 DEF TypeOK
  <2>7. OnDisk'
    BY <2>1, <2>4 DEF OnDisk, HasSigner
  <2>8. Running'
    BY <2>1, <2>4, <1>9 DEF Sign, Running, Up, HasSigner, SignsWith, Announced
  <2> QED  BY <2>1, <2>5, <2>6, <2>7, <2>8
<1>10. CASE Fetch
  <2>1. cache' = mem /\ fetched' = now /\ Up
    BY <1>10 DEF Fetch, Running
  <2>2. \A k \in file \ mem : k.from >= now + CacheAge
    BY <2>1, <1>0, PolicyAssumption DEF Running, Key
  <2>3. Announced(file)' /\ Announced(mem)'
    BY <2>1, <2>2, <1>10 DEF Fetch, Announced
  <2>4. Covers(mem)' /\ HasSigner(mem, now)' /\ SignsWith(mem)' /\ SignsWith(file)'
        /\ Covers(file)' /\ HasSigner(file, now)' /\ file # {}
    BY <2>1, <1>10 DEF Fetch, Running, OnDisk, SignsWith, Covers, HasSigner
  <2>5. pc = "persisted" => HasSigner(file, at)'
    BY <1>10 DEF Fetch, OnDisk, HasSigner
  <2>6. TypeOK'
    BY <2>1, <1>10, <1>0 DEF Fetch, TypeOK
  <2>7. OnDisk'
    BY <2>1, <2>4, <2>5, <1>10 DEF Fetch, OnDisk, Up
  <2>8. Running'
    <3>1. file # mem => Stale(mem, now)'
      BY <2>1, <1>10 DEF Fetch, Running, Stale, Retired, IsNewest, SuccessorDue
    <3> QED  BY <3>1, <2>1, <2>3, <2>4, <1>10 DEF Fetch, Running, Up
  <2>9. Live'
    BY <2>1, <2>3, <1>0, <1>10 DEF Fetch, Live
  <2> QED  BY <2>6, <2>7, <2>8, <2>9, <1>0, <1>10 DEF Fetch
<1>11. CASE Advance
  <2>1. now' = now + 1 /\ tokens' = {t \in tokens : t.exp > now + 1}
        /\ UNCHANGED <<file, mem, snap, pc, at, minted, cache, fetched>> /\ now + 1 <= MaxTime
    BY <1>11, <1>0, PolicyAssumption DEF Advance
  <2>2. ASSUME NEW K \in SUBSET Key, HasSigner(K, now) PROVE HasSigner(K, now + 1)
    <3>1. PICK d \in K : /\ d.from <= now /\ d.from >= snap.signer.from
                         /\ \A k \in K : k.from > d.from => k.from > now
      BY <2>2 DEF HasSigner
    <3>2. CASE \E k \in K : k.from = now + 1
      <4>1. PICK k \in K : k.from = now + 1
        BY <3>2
      <4>2. k.from <= now + 1 /\ k.from >= snap.signer.from
        BY <3>1, <4>1, <1>0 DEF Key
      <4> QED  BY <4>1, <4>2, <2>1 DEF HasSigner
    <3>3. CASE ~ \E k \in K : k.from = now + 1
      <4>1. d.from <= now + 1 /\ \A k \in K : k.from > d.from => k.from > now + 1
        BY <3>1, <3>3, <1>0 DEF Key
      <4> QED  BY <4>1, <3>1, <2>1 DEF HasSigner
    <3> QED  BY <3>2, <3>3
  <2>3. (Covers(file) => Covers(file)') /\ (Covers(mem) => Covers(mem)')
    BY <2>1 DEF Covers
  <2>4. TypeOK'
    BY <2>1, <1>0 DEF TypeOK
  <2>5. Live'
    <3>1. \A t \in tokens : t.exp \in Nat
      BY PolicyAssumption DEF TypeOK
    <3> QED  BY <3>1, <2>1, <1>0, PolicyAssumption DEF Live, Announced
  <2>6. OnDisk'
    <3>1. file # {} => Covers(file)' /\ HasSigner(file, now)'
      <4>1. file # {} => HasSigner(file, now + 1)
        BY <2>2, <1>0 DEF OnDisk
      <4> QED  BY <4>1, <2>1, <2>3 DEF OnDisk, HasSigner
    <3>2. pc \in {"persisted", "starting"} =>
            at <= now + 1 /\ now + 1 <= at + Gap /\ HasSigner(file, at)'
      <4>1. pc = "persisted" => now + 1 <= snap.asof + Gap /\ snap.asof <= at
        BY <1>11, <1>0, PolicyAssumption DEF Advance, Running, Up
      <4>2. pc = "starting" => now + 1 <= at + Gap
        BY <1>11, <1>0, PolicyAssumption DEF Advance
      <4>3. pc \in {"persisted", "starting"} => at <= now /\ HasSigner(file, at)'
        BY <2>1 DEF OnDisk, HasSigner
      <4> QED  BY <4>1, <4>2, <4>3, <1>0, PolicyAssumption
    <3> QED  BY <3>1, <3>2, <2>1, <1>0 DEF OnDisk
  <2>7. Running'
    <3>1. Up => Covers(mem)' /\ HasSigner(mem, now)'
      <4>1. Up => HasSigner(mem, now + 1)
        BY <2>2, <1>0 DEF Running
      <4> QED  BY <4>1, <2>1, <2>3 DEF Running, HasSigner
    <3>2. Up => snap.asof <= now + 1 /\ now + 1 <= snap.asof + Gap
      BY <1>11, <1>0, PolicyAssumption DEF Advance, Running
    <3>3. Up /\ file # mem => Stale(mem, now)'
      <4>1. Up /\ file # mem => Stale(mem, now + 1)
        BY <1>0, StaleFacts DEF Running, TypeOK
      <4> QED  BY <4>1, <2>1 DEF Stale, Retired, IsNewest, SuccessorDue
    <3> QED  BY <3>1, <3>2, <3>3, <2>1 DEF Running, Up, SignsWith, Announced
  <2> QED  BY <2>1, <2>4, <2>5, <2>6, <2>7, <1>0
<1>12. CASE UNCHANGED vars
  BY <1>12, <1>0 DEF vars, TypeOK, Live, OnDisk, Running, Up, Covers, SignsWith, HasSigner, Announced
<1> QED
  BY <1>0, <1>1, <1>2, <1>3, <1>4, <1>5, <1>6, <1>7, <1>8, <1>9, <1>10, <1>11, <1>12 DEF Next

\* KeyringInv holds in every state the ring of keys reaches.
THEOREM KeyringInvariant == Spec => []KeyringInv
<1>1. Init => KeyringInv
  BY InitKeyring
<1>2. KeyringInv /\ [Next]_vars => KeyringInv'
  BY StepKeyring
<1> QED  BY <1>1, <1>2, PTL DEF Spec

\* Every variable has its type, and no token outlives the policy's cap.
THEOREM KeyringTypes == Spec => []TypeOK
<1>1. KeyringInv => TypeOK
  BY DEF KeyringInv
<1> QED  BY <1>1, KeyringInvariant, PTL

\* No token is rejected before its own expiry (sa_keys.rs:2), for every policy
\* whose margin is at least the age a snapshot can reach.
THEOREM TokensAlwaysVerify == Spec => []TokensVerify
<1>1. KeyringInv => TokensVerify
  BY DEF KeyringInv, Running, Covers, TokensVerify
<1> QED  BY <1>1, KeyringInvariant, PTL

\* A verifier outside the server that refreshes its copy of the JWKS often enough
\* never meets a token of a key it does not have.
THEOREM SignerIsAnnounced == Spec => []FreshVerifierKnowsSigner
<1>1. ASSUME KeyringInv, Up, cache # {}, now < fetched + CacheAge PROVE snap.signer \in cache
  <2>1. /\ snap.signer \in mem /\ snap.signer.from <= snap.asof /\ snap.asof <= now
        /\ snap.signer.from \in Nat /\ snap.asof \in Nat /\ now \in Nat /\ fetched \in Nat
    BY <1>1 DEF KeyringInv, Running, SignsWith, TypeOK, Key
  <2>2. snap.signer \notin cache => snap.signer.from >= fetched + CacheAge
    BY <1>1, <2>1 DEF KeyringInv, Running, Announced
  <2> QED  BY <1>1, <2>1, <2>2, PolicyAssumption
<1>2. KeyringInv => FreshVerifierKnowsSigner
  BY <1>1 DEF FreshVerifierKnowsSigner
<1> QED  BY <1>2, KeyringInvariant, PTL

\* tick never leaves a file that the next start refuses.
THEOREM FileAlwaysLoads == Spec => []FileLoads
<1>1. KeyringInv => FileLoads
  BY DEF KeyringInv, OnDisk, Covers, FileLoads, Loads
<1> QED  BY <1>1, KeyringInvariant, PTL

\* Signing never returns to an older key, across stops and starts too.
THEOREM SignerMovesForward == Spec => SignerNeverGoesBack
<1>1. KeyringInv /\ [Next]_vars => [snap'.signer.from >= snap.signer.from]_vars
  BY StepKeyring
<1> QED  BY <1>1, KeyringInvariant, PTL DEF Spec, SignerNeverGoesBack
===============================================================================
