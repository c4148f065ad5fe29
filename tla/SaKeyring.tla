------------------------------ MODULE SaKeyring ------------------------------
(***************************************************************************)
(* The ring of ServiceAccount signing keys (sa_keys.rs).  A tick drops the *)
(* keys whose tokens have all expired, queues a successor, writes the file *)
(* and only then changes memory and the snapshot that signs, verifies and  *)
(* is served as the JWKS.  The server may stop between any two steps; the  *)
(* second file that persist writes (sa.pub) may fail after the first.      *)
(*                                                                         *)
(* A key is its sign_from and the kid that tells it from every other; the  *)
(* list is a set, its order that of sign_from.  The clock does not go back.*)
(***************************************************************************)
EXTENDS Integers, FiniteSets

CONSTANTS
  Rotate, Prepublish, Life, Margin,   \* RotationPolicy
  Gap,          \* age a snapshot reaches before the next tick has replaced it
  CacheAge,     \* a verifier outside fetches the JWKS at least this often
  MaxTime, MaxKeys, MaxTokens         \* bounds of a run

\* RotationPolicy::validate and what the defaults leave room for: a tick every
\* minute, a margin of an hour, a day of prepublication.
ASSUME PolicyAssumption ==
  /\ Rotate \in Nat /\ Prepublish \in Nat /\ Life \in Nat /\ Margin \in Nat
  /\ Gap \in Nat /\ CacheAge \in Nat \ {0}
  /\ MaxTime \in Nat /\ MaxKeys \in Nat /\ MaxTokens \in Nat
  /\ Prepublish < Rotate
  /\ Life > 0
  /\ Gap <= Margin
  /\ CacheAge + Gap <= Prepublish

VARIABLES
  now,          \* the clock
  file,         \* keys in the keyring file
  mem,          \* Inner::keys
  snap,         \* Inner::snapshot, and the time it was built for
  pc,           \* "down", "idle"; "persisted": a tick has written the file,
                \* "starting": that of a start has
  at,           \* the time that tick read
  minted,       \* number of keys generated
  tokens,       \* tokens that have not expired
  cache,        \* the JWKS a verifier outside holds
  fetched       \* when it was fetched

vars == <<now, file, mem, snap, pc, at, minted, tokens, cache, fetched>>

Key == [from : Nat, kid : 0..MaxKeys]
NoKey == [from |-> 0, kid |-> 0]
Up == pc \in {"idle", "persisted"}   \* the server signs and verifies
retire_after == Life + Margin

-------------------------------------------------------------------------------
(* plan and signer_index.                                                  *)

\* The key goes when its successor takes over.
Bug_RetireAtSwitch(K, t) == {k \in K : \E j \in K : j.from > k.from /\ j.from <= t}

\* Keys whose replacement has been signing for longer than a token can live.
Retired(K, t) == {k \in K : \E j \in K : j.from > k.from /\ j.from + retire_after <= t}

Kept(K, t) == K \ Retired(K, t)

IsNewest(m, K) == m \in K /\ \A k \in K : k.from <= m.from
IsOldest(m, K) == m \in K /\ \A k \in K : k.from >= m.from

\* The key that follows m, generated at t.
Successor(m, t) ==
  [from |-> IF m.from + Rotate >= t + Prepublish THEN m.from + Rotate ELSE t + Prepublish,
   kid |-> minted + 1]

\* Within prepublish of the end of m's time as the signer.
SuccessorDue(m, t) == m.from + Rotate - Prepublish <= t

\* The successor follows the oldest key of the list instead of the newest.
Bug_FollowOldest(K, t) ==
  {Kept(K, t) : m \in {k \in K : IsOldest(k, Kept(K, t)) /\ ~SuccessorDue(k, t)}}
    \cup {Kept(K, t) \cup {Successor(m, t)} :
            m \in {k \in K : IsOldest(k, Kept(K, t)) /\ SuccessorDue(k, t)}}

\* The successor is generated when it has to sign.
Bug_NoPrepublication(K, t) ==
  {Kept(K, t) : m \in {k \in K : IsNewest(k, Kept(K, t)) /\ k.from + Rotate > t}}
    \cup {Kept(K, t) \cup {[from |-> m.from + Rotate, kid |-> minted + 1]} :
            m \in {k \in K : IsNewest(k, Kept(K, t)) /\ k.from + Rotate <= t}}

\* The list K advanced to t, as a set of one.
Plans(K, t) ==
  {Kept(K, t) : m \in {k \in K : IsNewest(k, Kept(K, t)) /\ ~SuccessorDue(k, t)}}
    \cup {Kept(K, t) \cup {Successor(m, t)} :
            m \in {k \in K : IsNewest(k, Kept(K, t)) /\ SuccessorDue(k, t)}}

\* The last key due at t; the first of the list when none is.
IsSigner(s, K, t) ==
  /\ s \in K
  /\ IF \E k \in K : k.from <= t
       THEN s.from <= t /\ \A k \in K : k.from > s.from => k.from > t
       ELSE IsOldest(s, K)

Snapshot(s, K, t) == [signer |-> s, verify |-> K, asof |-> t]

\* A change of the list from K to L generates at most one key.
Mint(K, L) ==
  IF L \subseteq K THEN minted' = minted ELSE minted < MaxKeys /\ minted' = minted + 1

-------------------------------------------------------------------------------
(* tick, in the loop of run.                                               *)

TickUnchanged ==
  /\ pc = "idle" /\ mem \in Plans(mem, now)
  /\ \E s \in mem : IsSigner(s, mem, now) /\ snap' = Snapshot(s, mem, now)
  /\ UNCHANGED <<now, file, mem, pc, at, minted, tokens, cache, fetched>>

TickPersist ==
  /\ pc = "idle"
  /\ \E K \in Plans(mem, now) : K # mem /\ file' = K /\ Mint(mem, K)
  /\ pc' = "persisted" /\ at' = now
  /\ UNCHANGED <<now, mem, snap, tokens, cache, fetched>>

TickPublish ==
  /\ pc = "persisted"
  /\ pc' = "idle" /\ mem' = file
  /\ \E s \in file : IsSigner(s, file, at) /\ snap' = Snapshot(s, file, at)
  /\ UNCHANGED <<now, file, at, minted, tokens, cache, fetched>>

\* sa.pub could not be written: persist fails, memory stays as it was.
TickFails ==
  /\ pc = "persisted" /\ pc' = "idle"
  /\ UNCHANGED <<now, file, mem, snap, at, minted, tokens, cache, fetched>>

-------------------------------------------------------------------------------
(* load_or_generate.  Nothing is signed or served before it returns.       *)

Stop ==
  /\ pc # "down" /\ pc' = "down"
  /\ UNCHANGED <<now, file, mem, snap, at, minted, tokens, cache, fetched>>

\* No file: a ring of one key is written.
Generate ==
  /\ pc = "down" /\ file = {} /\ minted < MaxKeys
  /\ file' = {[from |-> now, kid |-> minted + 1]} /\ minted' = minted + 1
  /\ UNCHANGED <<now, mem, snap, pc, at, tokens, cache, fetched>>

\* The file is accepted when its keys are in strictly increasing order.
Loads(K) == K # {} /\ \A j, k \in K : j.from = k.from => j = k

\* The tick of a start; the start may still fail after it.
Load ==
  /\ pc = "down" /\ Loads(file)
  /\ \E K \in Plans(file, now) : file' = K /\ Mint(file, K)
  /\ pc' = "starting" /\ at' = now
  /\ UNCHANGED <<now, mem, snap, tokens, cache, fetched>>

\* A start signs with the first key of the file.
Bug_FirstKeySigns ==
  /\ pc = "starting"
  /\ pc' = "idle" /\ mem' = file
  /\ \E s \in file : IsOldest(s, file) /\ snap' = Snapshot(s, file, at)
  /\ UNCHANGED <<now, file, at, minted, tokens, cache, fetched>>

Start ==
  /\ pc = "starting"
  /\ pc' = "idle" /\ mem' = file
  /\ \E s \in file : IsSigner(s, file, at) /\ snap' = Snapshot(s, file, at)
  /\ UNCHANGED <<now, file, at, minted, tokens, cache, fetched>>

-------------------------------------------------------------------------------
(* Use of the snapshot.                                                    *)

\* A TokenRequest: the lifetime is capped by the policy's.
Sign(life) ==
  /\ Up /\ Cardinality(tokens) < MaxTokens
  /\ tokens' = tokens \cup {[key |-> snap.signer, exp |-> now + life]}
  /\ UNCHANGED <<now, file, mem, snap, pc, at, minted, cache, fetched>>

\* A verifier outside the server fetches the JWKS.
Fetch ==
  /\ Up /\ cache' = snap.verify /\ fetched' = now
  /\ UNCHANGED <<now, file, mem, snap, pc, at, minted, tokens>>

\* A second passes; expired tokens are no longer of interest.  While the server
\* is up a tick replaces the snapshot within Gap: a disk that fails for longer,
\* which the code would endure with an old snapshot, is not considered.
Advance ==
  /\ now < MaxTime
  /\ Up => now < snap.asof + Gap
  /\ pc = "starting" => now < at + Gap
  /\ now' = now + 1
  /\ tokens' = {t \in tokens : t.exp > now + 1}
  /\ UNCHANGED <<file, mem, snap, pc, at, minted, cache, fetched>>

-------------------------------------------------------------------------------
Init ==
  /\ now = 0 /\ at = 0 /\ fetched = 0 /\ minted = 0
  /\ file = {} /\ mem = {} /\ tokens = {} /\ cache = {}
  /\ snap = Snapshot(NoKey, {}, 0) /\ pc = "down"

Next ==
  \/ TickUnchanged \/ TickPersist \/ TickPublish \/ TickFails
  \/ Stop \/ Generate \/ Load \/ Start
  \/ \E life \in 1..Life : Sign(life)
  \/ Fetch \/ Advance

Spec == Init /\ [][Next]_vars

-------------------------------------------------------------------------------
(* Properties.                                                             *)

\* Every variable has its type; no token outlives the policy's cap.
TypeOK ==
  /\ now \in Nat /\ at \in Nat /\ fetched \in Nat /\ minted \in 0..MaxKeys
  /\ file \in SUBSET Key /\ mem \in SUBSET Key /\ cache \in SUBSET Key
  /\ snap \in [signer : Key, verify : SUBSET Key, asof : Nat]
  /\ pc \in {"down", "starting", "idle", "persisted"}
  /\ tokens \in SUBSET [key : Key, exp : 1..(MaxTime + Life)]

\* "no token is rejected before its own expiry" (sa_keys.rs:2): the snapshot of a
\* running server verifies every token that has not expired, whatever stops, late
\* ticks and writes that fail or half fail came between its signature and now, as
\* long as a tick succeeds within Gap (Advance).
TokensVerify == Up => \A t \in tokens : t.key \in snap.verify

\* A key is published before it signs: a verifier whose copy of the JWKS is younger
\* than CacheAge already holds the key that signs now.
FreshVerifierKnowsSigner ==
  (Up /\ cache # {} /\ now < fetched + CacheAge) => snap.signer \in cache

\* tick never writes a file that load_or_generate would refuse.
FileLoads == file # {} => Loads(file)

\* The signer is never an older key than before, across stops and starts too.
SignerNeverGoesBack == [][snap'.signer.from >= snap.signer.from]_vars

-------------------------------------------------------------------------------
(* The inductive invariant behind them, proved in SaKeyringProofs.         *)

\* K has a key to sign with at t, and it is no older than the last signer.
HasSigner(K, t) ==
  \E s \in K : /\ s.from <= t /\ s.from >= snap.signer.from
              /\ \A k \in K : k.from > s.from => k.from > t

\* K holds the key of every live token until its replacement has signed for
\* long enough, and no two keys with the same sign_from.
Covers(K) ==
  /\ \A j, k \in K : j.from = k.from => j = k
  /\ \A t \in tokens :
       /\ t.key \in K
       /\ \A k \in K : k.from > t.key.from => t.exp <= k.from + retire_after

\* K holds the signer in use, and its successor was not yet due at the last tick.
SignsWith(K) ==
  /\ snap.signer \in K
  /\ \A k \in K : k.from > snap.signer.from => k.from > snap.asof

\* A key of K that the verifier's copy lacks signs only after that copy is too old.
Announced(K) == cache # {} => \A k \in K \ cache : k.from >= fetched + CacheAge

Live ==
  /\ \A t \in tokens : t.exp > now /\ t.exp <= now + Life
  /\ fetched <= now
  /\ Announced(file)

OnDisk ==
  /\ file = {} => pc = "down" /\ tokens = {} /\ cache = {} /\ snap.signer.from <= now
  /\ file # {} => Covers(file) /\ HasSigner(file, now)
  /\ pc \in {"persisted", "starting"} =>
       at <= now /\ now <= at + Gap /\ HasSigner(file, at)

\* A tick at t changes the list K.
Stale(K, t) ==
  \/ Retired(K, t) # {}
  \/ \E m \in K : IsNewest(m, K) /\ SuccessorDue(m, t)

Running ==
  Up => /\ snap.verify = mem
        /\ snap.asof <= now /\ now <= snap.asof + Gap /\ snap.signer.from <= snap.asof
        /\ SignsWith(file) /\ SignsWith(mem)
        /\ Covers(mem) /\ HasSigner(mem, now) /\ Announced(mem)
        /\ \A k \in file \ mem : k.from >= snap.asof + Prepublish
        /\ file # mem => Stale(mem, now)
        /\ pc = "persisted" => snap.asof <= at

KeyringInv == TypeOK /\ now <= MaxTime /\ Live /\ OnDisk /\ Running

===============================================================================
