-------------------------- MODULE SqliteStoreProofs --------------------------
(***************************************************************************)
(* Theorems about SqliteStore, for every set of keys, values, writers and  *)
(* readers and every bound.                                                *)
(***************************************************************************)
EXTENDS SqliteStore, FiniteSetTheorems, WellFoundedInduction, TLAPS

\* The batches the four kinds of writer commit: at least one event, each
\* with the revision that follows the one before, no key twice.
Batch(b) ==
  /\ b \in Seq(Event)
  /\ Len(b) > 0
  /\ \A i \in 1 .. Len(b) : b[i].rev = revision + i
  /\ \A i, j \in 1 .. Len(b) : b[i].key = b[j].key => i = j

\* The batch of delete_namespace_sync: tombstones of rows that exist, each
\* with a revision of its own.
LEMMA NamespaceBatch ==
  ASSUME TypeOK, NEW c \in Writers, NEW ns \in NsKeys, DeleteNamespaceResources(c, ns)
  PROVE  \E b : /\ Batch(b) /\ Commit(c, b)
                /\ \A i \in 1 .. Len(b) :
                     /\ objects[b[i].key].rev # 0 /\ b[i].val = NoVal
                     /\ ~b[i].isCreate /\ ~b[i].fenced
<1> DEFINE doomed == {k \in Keys : NsOf[k] = ns /\ objects[k].rev # 0}
           n == Cardinality(doomed)
<1>1. PICK order \in [1 .. n -> doomed] :
        /\ \A i, j \in 1 .. n : order[i] = order[j] => i = j
        /\ Commit(c, [i \in 1 .. n |->
             [key |-> order[i], rev |-> revision + i, val |-> NoVal,
              isCreate |-> FALSE, fenced |-> FALSE]])
  BY DEF DeleteNamespaceResources
<1>2. doomed # {} /\ IsFiniteSet(doomed)
  BY FS_Subset, ConstantsAssumption DEF DeleteNamespaceResources
<1>3. n \in Nat /\ n > 0
  BY <1>2, FS_CardinalityType, FS_EmptySet
<1> DEFINE b == [i \in 1 .. n |->
             [key |-> order[i], rev |-> revision + i, val |-> NoVal,
              isCreate |-> FALSE, fenced |-> FALSE]]
<1>4. ASSUME NEW i \in 1 .. n
      PROVE  /\ b[i] \in Event /\ b[i].key = order[i] /\ b[i].rev = revision + i
             /\ objects[b[i].key].rev # 0 /\ b[i].val = NoVal
             /\ ~b[i].isCreate /\ ~b[i].fenced
  <2>1. order[i] \in Keys /\ revision + i \in Nat /\ objects[order[i]].rev # 0
    <3>1. \A k \in doomed : k \in Keys /\ objects[k].rev # 0
      OBVIOUS
    <3> HIDE DEF doomed
    <3>2. i \in Nat
      BY <1>3
    <3> HIDE DEF n
    <3>3. order[i] \in doomed
      OBVIOUS
    <3>4. revision + i \in Nat
      BY <3>2 DEF TypeOK
    <3> QED BY <3>1, <3>3, <3>4
  <2> DEFINE e == [key |-> order[i], rev |-> revision + i, val |-> NoVal,
                   isCreate |-> FALSE, fenced |-> FALSE]
  <2>2. b[i] = e
    OBVIOUS
  <2>3. e \in Event
    BY <2>1 DEF Event
  <2>4. ~e.isCreate /\ ~e.fenced
    BY Zenon
  <2>5. e.key = order[i] /\ e.rev = revision + i /\ e.val = NoVal
    OBVIOUS
  <2> HIDE DEF b, e
  <2> QED BY <2>1, <2>2, <2>3, <2>4, <2>5, Zenon
<1>5. b \in Seq(Event) /\ Len(b) = n
  BY <1>3, <1>4
<1>6. Batch(b)
  BY <1>1, <1>3, <1>4, <1>5 DEF Batch
<1>7. Commit(c, b)
  BY <1>1
<1>8. \A i \in 1 .. Len(b) : /\ objects[b[i].key].rev # 0 /\ b[i].val = NoVal
                             /\ ~b[i].isCreate /\ ~b[i].fenced
  BY <1>4, <1>5, Zenon
<1> HIDE DEF b
<1> QED BY <1>6, <1>7, <1>8, Zenon

\* Every write step is the commit of one such batch: put_sync, delete_sync,
\* create_if_namespace_active_sync and delete_namespace_sync.
LEMMA WriteIsCommit ==
  ASSUME TypeOK, NEW c \in Writers, Write(c)
  PROVE  \E b : Batch(b) /\ Commit(c, b)
<1>1. ASSUME NEW k \in Keys, NEW v \in Values, NEW exp, Put(c, k, v, exp)
      PROVE  \E b : Batch(b) /\ Commit(c, b)
  <2> DEFINE b == << [key |-> k, rev |-> revision + 1, val |-> v,
                      isCreate |-> objects[k].rev = 0, fenced |-> FALSE] >>
  <2>1. Batch(b)
    BY <1>1 DEF Batch, Event, TypeOK
  <2>2. Commit(c, b)
    BY <1>1 DEF Put
  <2> QED BY <2>1, <2>2
<1>2. ASSUME NEW k \in Keys, NEW v \in Values, CreateIfNamespaceActive(c, k, v)
      PROVE  \E b : Batch(b) /\ Commit(c, b)
  <2> DEFINE b == << [key |-> k, rev |-> revision + 1, val |-> v,
                      isCreate |-> TRUE, fenced |-> TRUE] >>
  <2>1. Batch(b)
    BY <1>2 DEF Batch, Event, TypeOK
  <2>2. Commit(c, b)
    BY <1>2 DEF CreateIfNamespaceActive
  <2> QED BY <2>1, <2>2
<1>3. ASSUME NEW k \in Keys, NEW exp, Delete(c, k, exp)
      PROVE  \E b : Batch(b) /\ Commit(c, b)
  <2> DEFINE b == << [key |-> k, rev |-> revision + 1, val |-> NoVal,
                      isCreate |-> FALSE, fenced |-> FALSE] >>
  <2>1. Batch(b)
    BY <1>3 DEF Batch, Event, TypeOK
  <2>2. Commit(c, b)
    BY <1>3 DEF Delete
  <2> QED BY <2>1, <2>2
<1>4. ASSUME NEW ns \in NsKeys, DeleteNamespaceResources(c, ns)
      PROVE  \E b : Batch(b) /\ Commit(c, b)
  BY <1>4, NamespaceBatch
<1> QED BY <1>1, <1>2, <1>3, <1>4 DEF Write
-------------------------------------------------------------------------------
\* Committing a batch keeps the types: the rows it writes are rows, the log
\* and the pending events are sequences of events, the counters stay below
\* meta.revision.
LEMMA CommitTypeOK ==
  ASSUME TypeOK, NEW c \in Writers, NEW b, Batch(b), Commit(c, b)
  PROVE  TypeOK'
<1>1. objects' \in [Keys -> Row]
  <2> SUFFICES ASSUME NEW k \in Keys
               PROVE  objects'[k] \in Row
    BY DEF Commit
  <2>1. CASE \E i \in 1 .. Len(b) : b[i].key = k
    <3> DEFINE i == CHOOSE i \in 1 .. Len(b) : b[i].key = k
    <3>1. i \in 1 .. Len(b)
      BY <2>1
    <3> HIDE DEF i
    <3>2. b[i] \in Event
      BY <3>1 DEF Batch
    <3>3. objects'[k] = IF b[i].val = NoVal THEN NoRow
                        ELSE [rev |-> b[i].rev, val |-> b[i].val]
      BY <2>1 DEF Commit, i
    <3> QED BY <3>2, <3>3 DEF Event, Row, NoRow
  <2>2. CASE ~ \E i \in 1 .. Len(b) : b[i].key = k
    BY <2>2 DEF Commit, TypeOK
  <2> QED BY <2>1, <2>2
<1>2. revision' \in Nat /\ revision' >= revision
  BY DEF Commit, Batch, TypeOK
<1>3. log' \in Seq(Event) /\ pending' \in Seq(Event)
  BY DEF Commit, Batch, TypeOK
<1>4. lastWritten' \in 0 .. revision' /\ acked' \in 0 .. revision'
  BY <1>2 DEF Commit, TypeOK
<1> QED BY <1>1, <1>2, <1>3, <1>4 DEF Commit, TypeOK

\* What a read step leaves in reader is a Reader: pool read, guard, retry.
LEMMA ReadTypeOK ==
  ASSUME TypeOK, NEW c \in Readers, Read(c)
  PROVE  TypeOK'
<1>0. \A want \in SUBSET Keys : Restricted(want) \in [Keys -> Row]
  BY DEF Restricted, NoRow, Row, TypeOK, ConstantsAssumption
<1>1. ASSUME NEW op \in {"get", "list"}, NEW want \in SUBSET Keys, ReadPool(c, op, want)
      PROVE  TypeOK'
  BY <1>0, <1>1 DEF ReadPool, TypeOK, Reader, durable, memory
<1>2. CASE ReadGuard(c)
  <2>1. reader[c] \in Reader
    BY DEF TypeOK
  <2> DEFINE pc == IF Stale(reader[c]) THEN "retry" ELSE "idle"
  <2>2. [reader[c] EXCEPT !.pc = pc, !.must = acked] \in Reader
    <3>1. pc \in {"idle", "guard", "retry"} /\ acked \in Nat
      BY DEF TypeOK
    <3> HIDE DEF pc
    <3> QED BY <2>1, <3>1 DEF Reader
  <2>3. reader' \in [Readers -> Reader]
    BY <1>2, <2>2 DEF ReadGuard, TypeOK
  <2> QED BY <1>2, <2>3 DEF ReadGuard, TypeOK, durable, memory
<1>3. CASE ReadRetry(c)
  <2>1. reader[c] \in Reader
    BY DEF TypeOK
  <2>2. Restricted(reader[c].want) \in [Keys -> Row]
    BY <1>0, <2>1 DEF Reader
  <2>3. [reader[c] EXCEPT !.pc = "idle", !.got = Restricted(reader[c].want),
                          !.rev = revision] \in Reader
    BY <2>1, <2>2 DEF TypeOK, Reader
  <2>4. reader' \in [Readers -> Reader]
    BY <1>3, <2>3 DEF ReadRetry, TypeOK
  <2> QED BY <1>3, <2>4 DEF ReadRetry, TypeOK, durable, memory
<1> QED BY <1>1, <1>2, <1>3 DEF Read

\* NoRead is what a restarted process has for every reader.
LEMMA NoReadType == NoRead \in Reader
  BY DEF NoRead, Reader, Row, NoRow

\* The type invariant, for every instance: in particular the two counters
\* kept in memory, last_written_revision and the highest revision returned
\* to a caller, never pass meta.revision.
THEOREM TypeCorrect == Spec => []TypeOK
<1>1. Init => TypeOK
  <2> SUFFICES ASSUME Init PROVE TypeOK
    OBVIOUS
  <2>1. NoRow \in Row
    BY DEF NoRow, Row
  <2>2. objects \in [Keys -> Row] /\ reader \in [Readers -> Reader]
    BY <2>1, NoReadType DEF Init
  <2>3. bumped \in BOOLEAN
    BY DEF Init
  <2> QED BY <2>2, <2>3 DEF Init, TypeOK
<1>2. TypeOK /\ [Next]_vars => TypeOK'
  <2> SUFFICES ASSUME TypeOK, [Next]_vars
               PROVE  TypeOK'
    OBVIOUS
  <2>1. ASSUME NEW c \in Writers, Write(c)
        PROVE  TypeOK'
    BY <2>1, WriteIsCommit, CommitTypeOK
  <2>2. ASSUME NEW c \in Readers, Read(c)
        PROVE  TypeOK'
    BY <2>2, ReadTypeOK
  <2>3. CASE BumpLastWritten
    BY <2>3 DEF BumpLastWritten, TypeOK, durable
  <2>4. CASE PushEventLocked
    <3>1. Head(pending) \in Event /\ Tail(pending) \in Seq(Event)
      BY <2>4 DEF PushEventLocked, TypeOK
    <3> QED BY <2>4, <3>1 DEF PushEventLocked, TypeOK, durable
  <2>5. CASE WriteReturns
    <3>1. bumped' \in BOOLEAN
      BY <2>5 DEF WriteReturns
    <3>2. acked' \in 0 .. revision'
      BY <2>5 DEF WriteReturns, TypeOK, durable
    <3> QED BY <2>5, <3>1, <3>2 DEF WriteReturns, TypeOK, durable
  <2>6. CASE Restart
    <3>1. bumped' \in BOOLEAN
      BY <2>6 DEF Restart
    <3>2. reader' \in [Readers -> Reader]
      BY <2>6, NoReadType DEF Restart
    <3> QED BY <2>6, <3>1, <3>2 DEF Restart, TypeOK, durable
  <2>7. CASE UNCHANGED vars
    BY <2>7 DEF TypeOK, vars, durable, memory
  <2> QED BY <2>1, <2>2, <2>3, <2>4, <2>5, <2>6, <2>7 DEF Next
<1> QED BY <1>1, <1>2, PTL DEF Spec
-------------------------------------------------------------------------------
\* A commit puts its batch at the end of the log and nothing else there.
LEMMA CommitExtendsLog ==
  ASSUME TypeOK, NEW c \in Writers, NEW b, Batch(b), Commit(c, b)
  PROVE  /\ Len(log') = Len(log) + Len(b)
         /\ \A i \in 1 .. Len(log) : log'[i] = log[i]
         /\ \A i \in 1 .. Len(b) : log'[Len(log) + i] = b[i]
  BY DEF Commit, Batch, TypeOK

\* The mutex makes the pending events of the one writer that holds it the
\* end of the log, which is the inductive step behind push_event_locked's
\* promise: every commit starts from an empty pending queue.
LEMMA PublishInvStep ==
  ASSUME TypeOK, PublishInv, [Next]_vars
  PROVE  PublishInv'
<1>1. ASSUME NEW c \in Writers, Write(c)
      PROVE  PublishInv'
  <2>1. PICK b : Batch(b) /\ Commit(c, b)
    BY <1>1, WriteIsCommit
  <2>2. /\ Len(log') = Len(log) + Len(b)
        /\ \A i \in 1 .. Len(log) : log'[i] = log[i]
        /\ \A i \in 1 .. Len(b) : log'[Len(log) + i] = b[i]
    BY <2>1, CommitExtendsLog
  <2>3. pending = <<>> /\ pending' = b /\ stream' = stream /\ base' = base
    BY <2>1 DEF Commit, PublishInv
  <2>4. /\ Len(log) \in Nat /\ Len(b) \in Nat /\ Len(stream) \in Nat /\ base \in Nat
        /\ Len(pending) = 0
    BY <2>1, <2>3 DEF Batch, TypeOK
  <2>5. revision' = Len(log')
    BY <2>1, <2>2 DEF Commit, PublishInv
  <2>6. ASSUME NEW i \in 1 .. Len(log')
        PROVE  log'[i].rev = i
    <3>1. CASE i <= Len(log)
      BY <2>2, <2>4, <3>1 DEF PublishInv
    <3>2. CASE i > Len(log)
      <4>1. i - Len(log) \in 1 .. Len(b) /\ Len(log) + (i - Len(log)) = i
        BY <2>2, <2>4, <3>2
      <4>2. log'[i] = b[i - Len(log)]
        BY <2>2, <4>1
      <4>3. b[i - Len(log)].rev = revision + (i - Len(log))
        BY <2>1, <4>1 DEF Batch
      <4> QED BY <2>4, <4>1, <4>2, <4>3 DEF PublishInv
    <3> QED BY <2>4, <3>1, <3>2
  <2>7. base + Len(stream') + Len(pending') = Len(log') /\ base + Len(stream) = Len(log)
    <3>1. base + Len(stream) + Len(pending) = Len(log)
      BY DEF PublishInv
    <3>2. base + Len(stream) = Len(log)
      BY <2>4, <3>1
    <3>3. Len(stream') = Len(stream) /\ Len(pending') = Len(b)
      BY <2>3
    <3> QED BY <2>2, <2>4, <3>2, <3>3
  <2>8. \A i \in 1 .. Len(stream') : stream'[i] = log'[base' + i]
    BY <2>2, <2>3, <2>4, <2>7 DEF PublishInv
  <2>9. \A i \in 1 .. Len(pending') : pending'[i] = log'[base' + Len(stream') + i]
    BY <2>2, <2>3, <2>4, <2>7
  <2>10. holder' # Free
    BY <2>1, ConstantsAssumption DEF Commit
  <2> QED BY <2>3, <2>5, <2>6, <2>7, <2>8, <2>9, <2>10 DEF PublishInv
<1>2. ASSUME NEW c \in Readers, Read(c)
      PROVE  PublishInv'
  <2>1. UNCHANGED <<durable, memory, base>>
    BY <1>2 DEF Read, ReadPool, ReadGuard, ReadRetry
  <2> QED BY <2>1 DEF PublishInv, durable, memory
<1>3. CASE BumpLastWritten
  BY <1>3 DEF BumpLastWritten, PublishInv, durable
<1>4. CASE PushEventLocked
  <2>1. /\ Len(pending) \in Nat \ {0} /\ Len(stream) \in Nat /\ base \in Nat
        /\ Head(pending) = pending[1]
        /\ Len(pending') = Len(pending) - 1
        /\ \A i \in 1 .. Len(pending') : pending'[i] = pending[i + 1]
    BY <1>4 DEF PushEventLocked, TypeOK
  <2>2. /\ Len(stream') = Len(stream) + 1
        /\ \A i \in 1 .. Len(stream) : stream'[i] = stream[i]
        /\ stream'[Len(stream) + 1] = pending[1]
    BY <1>4, <2>1 DEF PushEventLocked, TypeOK
  <2>3. log' = log /\ revision' = revision /\ base' = base /\ holder' = holder /\ holder # Free
    BY <1>4 DEF PushEventLocked, durable
  <2>4. base' + Len(stream') + Len(pending') = Len(log')
    <3>1. base + Len(stream) + Len(pending) = Len(log)
      BY DEF PublishInv
    <3>2. Len(log') = Len(log)
      BY <2>3
    <3>3. base + (Len(stream) + 1) + (Len(pending) - 1) = Len(log)
      <4>1. /\ base \in Nat /\ Len(stream) \in Nat /\ Len(pending) \in Nat
            /\ Len(log) \in Nat
        BY DEF TypeOK
      <4>2. \A x, y, z, w \in Nat : x + y + z = w => x + (y + 1) + (z - 1) = w
        OBVIOUS
      <4> QED BY <3>1, <4>1, <4>2
    <3> QED BY <2>1, <2>2, <2>3, <3>2, <3>3
  <2>5. \A i \in 1 .. Len(stream') : stream'[i] = log'[base' + i]
    <3> SUFFICES ASSUME NEW i \in 1 .. Len(stream')
                 PROVE  stream'[i] = log'[base' + i]
      OBVIOUS
    <3>1. CASE i \in 1 .. Len(stream)
      BY <2>2, <2>3, <3>1 DEF PublishInv
    <3>2. CASE i = Len(stream) + 1
      <4>1. pending[1] = log[base + Len(stream) + 1]
        BY <2>1 DEF PublishInv
      <4>2. base + Len(stream) + 1 = base + i
        BY <2>1, <3>2
      <4> QED BY <2>2, <2>3, <3>2, <4>1, <4>2
    <3> QED BY <2>1, <2>2, <3>1, <3>2
  <2>6. \A i \in 1 .. Len(pending') : pending'[i] = log'[base' + Len(stream') + i]
    <3> SUFFICES ASSUME NEW i \in 1 .. Len(pending')
                 PROVE  pending'[i] = log'[base' + Len(stream') + i]
      OBVIOUS
    <3>1. i + 1 \in 1 .. Len(pending) /\ pending'[i] = pending[i + 1]
      BY <2>1
    <3>2. pending[i + 1] = log[base + Len(stream) + (i + 1)]
      BY <3>1 DEF PublishInv
    <3>3. base + Len(stream) + (i + 1) = base' + Len(stream') + i
      BY <2>1, <2>2, <2>3
    <3> QED BY <2>3, <3>1, <3>2, <3>3
  <2> QED BY <2>3, <2>4, <2>5, <2>6 DEF PublishInv
<1>5. CASE WriteReturns
  BY <1>5 DEF WriteReturns, PublishInv, durable
<1>6. CASE Restart
  <2>1. /\ log' = log /\ revision' = revision /\ stream' = <<>> /\ pending' = <<>>
        /\ base' = Len(log) /\ holder' = Free /\ ~ bumped'
    BY <1>6 DEF Restart, durable
  <2>2. Len(log) \in Nat /\ Len(stream') = 0 /\ Len(pending') = 0
    BY <2>1 DEF TypeOK
  <2> QED BY <2>1, <2>2 DEF PublishInv
<1>7. CASE UNCHANGED vars
  BY <1>7 DEF PublishInv, vars, durable, memory
<1> QED BY <1>1, <1>2, <1>3, <1>4, <1>5, <1>6, <1>7 DEF Next

\* The inductive invariant of the publishing side of the store.
THEOREM PublishCorrect == Spec => []PublishInv
<1>1. Init => PublishInv
  BY DEF Init, PublishInv
<1>2. TypeOK /\ PublishInv /\ [Next]_vars => PublishInv'
  BY PublishInvStep
<1> QED BY <1>1, <1>2, TypeCorrect, PTL DEF Spec

\* push_event_locked's promise for any number of writers, keys and restarts:
\* the broadcast channel carries the log from the process's start on, in
\* revision order, without a gap and without a repetition.
THEOREM StreamCorrect == Spec => []StreamIsLog
<1>1. TypeOK /\ PublishInv => StreamIsLog
  <2> SUFFICES ASSUME TypeOK, PublishInv PROVE StreamIsLog
    OBVIOUS
  <2>1. base \in Nat /\ Len(stream) \in Nat /\ Len(pending) \in Nat /\ Len(log) \in Nat
    BY DEF TypeOK
  <2>2. base + Len(stream) <= Len(log)
    BY <2>1 DEF PublishInv
  <2>3. ASSUME NEW i \in 1 .. Len(stream)
        PROVE  stream[i] = log[base + i] /\ stream[i].rev = base + i
    <3>1. base + i \in 1 .. Len(log)
      BY <2>1, <2>2
    <3> QED BY <3>1 DEF PublishInv
  <2> QED BY <2>2, <2>3 DEF StreamIsLog
<1> QED BY <1>1, TypeCorrect, PublishCorrect, PTL

-------------------------------------------------------------------------------
\* The store implements the abstract log: a write extends it, a push
\* announces its next event, a restart reopens it, and the other steps, the
\* reads and the two counters, are invisible.
THEOREM Refinement == Spec => ImplementsRevisionLog
<1>1. Init => Abs!AbsInit
  BY DEF Init, Abs!AbsInit
<1>2. TypeOK /\ PublishInv /\ [Next]_vars => [Abs!AbsNext]_(Abs!absVars)
  <2> SUFFICES ASSUME TypeOK, PublishInv, [Next]_vars
               PROVE  Abs!AbsNext \/ UNCHANGED Abs!absVars
    OBVIOUS
  <2>1. ASSUME NEW c \in Writers, Write(c)
        PROVE  Abs!Extend
    <3>1. PICK b : Batch(b) /\ Commit(c, b)
      BY <2>1, WriteIsCommit
    <3>2. Len(log') = Len(log) + Len(b) /\ \A i \in 1 .. Len(log) : log'[i] = log[i]
      BY <3>1, CommitExtendsLog
    <3>3. log' \in Seq(Event) /\ Len(log') > Len(log)
      BY <3>1, <3>2 DEF Commit, Batch, TypeOK
    <3> QED BY <3>1, <3>2, <3>3 DEF Abs!Extend, Commit
  <2>2. ASSUME NEW c \in Readers, Read(c)
        PROVE  UNCHANGED Abs!absVars
    BY <2>2 DEF Read, ReadPool, ReadGuard, ReadRetry, durable, memory, Abs!absVars
  <2>3. CASE BumpLastWritten
    BY <2>3 DEF BumpLastWritten, durable, Abs!absVars
  <2>4. CASE PushEventLocked
    <3>1. Len(pending) \in Nat \ {0} /\ Head(pending) = pending[1]
      BY <2>4 DEF PushEventLocked, TypeOK
    <3>2. pending[1] = log[base + Len(stream) + 1]
      BY <3>1 DEF PublishInv
    <3>3. base + Len(stream) < Len(log)
      BY <3>1 DEF PublishInv, TypeOK
    <3> QED BY <2>4, <3>1, <3>2, <3>3 DEF PushEventLocked, durable, Abs!AbsNext, Abs!Announce
  <2>5. CASE WriteReturns
    BY <2>5 DEF WriteReturns, durable, Abs!absVars
  <2>6. CASE Restart
    BY <2>6 DEF Restart, durable, Abs!AbsNext, Abs!Reopen
  <2>7. CASE UNCHANGED vars
    BY <2>7 DEF vars, durable, memory, Abs!absVars
  <2> QED BY <2>1, <2>2, <2>3, <2>4, <2>5, <2>6, <2>7 DEF Next, Abs!AbsNext
<1> QED
  BY <1>1, <1>2, TypeCorrect, PublishCorrect, PTL
     DEF Spec, ImplementsRevisionLog, Abs!AbsSpec

-------------------------------------------------------------------------------
(* Rows as a function of the log.                                           *)

\* RowAt over any sequence of events.
RowIn(L, k, r) ==
  LET touching == {i \in 1 .. r : L[i].key = k}
      last     == CHOOSE i \in touching : \A j \in touching : j <= i
  IN IF touching = {} \/ L[last].val = NoVal
     THEN NoRow
     ELSE [rev |-> last, val |-> L[last].val]

LEMMA RowAtIsRowIn ==
  /\ \A k, r : RowAt(k, r) = RowIn(log, k, r)
  /\ \A k, r : RowAt(k, r)' = RowIn(log', k', r')
BY DEF RowAt, RowIn

\* i is the last of the first r events on key k.
LastOn(L, k, r, i) ==
  /\ i \in 1 .. r /\ L[i].key = k
  /\ \A j \in 1 .. r : L[j].key = k => j <= i

\* A set of naturals that is not empty has a least element.
LEMMA LeastNat ==
  ASSUME NEW S \in SUBSET Nat, S # {}
  PROVE  \E x \in S : \A y \in S : x <= y
<1> DEFINE Less == {ss \in Nat \X Nat : ss[1] < ss[2]}
<1>1. IsWellFoundedOn(Less, Nat)
  BY NatLessThanWellFounded, Zenon DEF OpToRel
<1>2. PICK x \in S : \A y \in S : ~(<<y, x>> \in Less)
  <2> HIDE DEF Less
  <2> QED
    BY <1>1, WFMin
<1>3. \A y \in S : x <= y
  <2> SUFFICES ASSUME NEW y \in S PROVE x <= y
    OBVIOUS
  <2>1. ~(<<y, x>> \in Less) /\ x \in Nat /\ y \in Nat
    BY <1>2
  <2> QED
    BY <2>1
<1> QED
  BY <1>3

LEMMA SomeLast ==
  ASSUME NEW L, NEW k, NEW r \in Nat, NEW n \in 1 .. r, L[n].key = k
  PROVE  \E i : LastOn(L, k, r, i)
<1> DEFINE S == {d \in 0 .. r : d < r /\ L[r - d].key = k}
<1>1. r - n \in S
  <2>1. r - (r - n) = n /\ r - n \in 0 .. r /\ r - n < r
    OBVIOUS
  <2> QED
    BY <2>1
<1>2. PICK d \in S : \A y \in S : d <= y
  <2>1. \A y \in S : y \in Nat
    OBVIOUS
  <2>2. r - n \in S
    BY <1>1
  <2> HIDE DEF S
  <2> QED
    BY <2>1, <2>2, LeastNat
<1>3. LastOn(L, k, r, r - d)
  <2>1. r - d \in 1 .. r /\ L[r - d].key = k /\ d \in Nat
    BY <1>2
  <2>2. ASSUME NEW j \in 1 .. r, L[j].key = k PROVE j <= r - d
    <3>1. r - (r - j) = j /\ r - j \in 0 .. r /\ r - j < r
      OBVIOUS
    <3>2. r - j \in S
      BY <3>1, <2>2
    <3>3. d <= r - j
      BY <3>2, <1>2
    <3> QED
      BY <3>3, <2>1
  <2> QED
    BY <2>1, <2>2 DEF LastOn
<1> QED
  BY <1>3

\* The row of a key is what its last event says.
LEMMA RowInLast ==
  ASSUME NEW L, NEW k, NEW r \in Nat, NEW i, LastOn(L, k, r, i)
  PROVE  RowIn(L, k, r) = IF L[i].val = NoVal THEN NoRow ELSE [rev |-> i, val |-> L[i].val]
<1> DEFINE touching == {j \in 1 .. r : L[j].key = k}
           last == CHOOSE j \in touching : \A l \in touching : l <= j
<1>1. i \in touching /\ \A l \in touching : l <= i
  BY DEF LastOn
<1>2. \A j \in touching : j \in Nat
  OBVIOUS
<1>3. last \in touching /\ \A l \in touching : l <= last
  <2> HIDE DEF touching
  <2> QED
    BY <1>1
<1>4. last = i
  <2>1. last \in Nat /\ i \in Nat /\ last <= i /\ i <= last
    BY <1>1, <1>2, <1>3
  <2> HIDE DEF last
  <2> QED
    BY <2>1
<1>5. touching # {}
  BY <1>1
<1>6. RowIn(L, k, r) = IF touching = {} \/ L[last].val = NoVal THEN NoRow
                       ELSE [rev |-> last, val |-> L[last].val]
  BY DEF RowIn
<1> HIDE DEF touching, last
<1> QED
  BY <1>4, <1>5, <1>6

LEMMA RowInNone ==
  ASSUME NEW L, NEW k, NEW r, \A i \in 1 .. r : L[i].key # k
  PROVE  RowIn(L, k, r) = NoRow
BY DEF RowIn

\* A row is absent or carries the revision of a write.
LEMMA RowInShape ==
  ASSUME NEW L, NEW k, NEW r \in Nat
  PROVE  \/ RowIn(L, k, r) = NoRow
         \/ /\ RowIn(L, k, r).rev \in 1 .. r /\ RowIn(L, k, r).val # NoVal
<1>1. CASE \A i \in 1 .. r : L[i].key # k
  BY <1>1, RowInNone
<1>2. CASE \E i \in 1 .. r : L[i].key = k
  <2>1. PICK i : LastOn(L, k, r, i)
    BY <1>2, SomeLast
  <2> QED
    BY <2>1, RowInLast DEF LastOn
<1> QED
  BY <1>1, <1>2

\* Later events, and events on other keys, leave a row as it was.
LEMMA RowInKept ==
  ASSUME NEW L, NEW M, NEW k, NEW r \in Nat, NEW q \in Nat, r <= q,
         \A i \in 1 .. r : M[i] = L[i],
         \A i \in 1 .. q : i > r => M[i].key # k
  PROVE  RowIn(M, k, q) = RowIn(L, k, r)
<1>1. CASE \A i \in 1 .. r : L[i].key # k
  <2>1. \A i \in 1 .. q : M[i].key # k
    BY <1>1
  <2> QED
    BY <2>1, <1>1, RowInNone
<1>2. CASE \E i \in 1 .. r : L[i].key = k
  <2>1. PICK i : LastOn(L, k, r, i)
    BY <1>2, SomeLast
  <2>2. LastOn(M, k, q, i) /\ M[i] = L[i]
    BY <2>1 DEF LastOn
  <2> QED
    BY <2>1, <2>2, RowInLast
<1> QED
  BY <1>1, <1>2

-------------------------------------------------------------------------------
(* What a write may put into the log.                                       *)

\* An event that fits the rows it was decided on: the flags put_sync,
\* delete_sync and create_if_namespace_active_sync give it are true.
Fits(e) ==
  /\ e.isCreate <=> (objects[e.key] = NoRow /\ e.val # NoVal)
  /\ e.val # objects[e.key].val
  /\ e.fenced /\ NsOf[e.key] # NoNs =>
       objects[NsOf[e.key]] # NoRow /\ objects[NsOf[e.key]].val # Terminating

FittingBatch(b) ==
  /\ Batch(b)
  /\ \A i \in 1 .. Len(b) : Fits(b[i]) /\ (b[i].fenced => Len(b) = 1)

RowShape ==
  \A k \in Keys : objects[k] = NoRow \/ (objects[k].rev # 0 /\ objects[k].val # NoVal)

LEMMA PutFits ==
  ASSUME TypeOK, RowShape, NEW c \in Writers, NEW k \in Keys, NEW v \in Values, NEW exp,
         Put(c, k, v, exp)
  PROVE  \E b : FittingBatch(b) /\ Commit(c, b)
<1> DEFINE cr == objects[k].rev = 0
           e == [key |-> k, rev |-> revision + 1, val |-> v, isCreate |-> cr,
                 fenced |-> FALSE]
           b == << e >>
<1>1. Commit(c, b)
  BY DEF Put
<1>2. PutVerdict(objects[k], v, exp) = "write"
  BY DEF Put
<1>3. ~(objects[k].rev # 0 /\ v = objects[k].val)
  BY <1>2 DEF PutVerdict
<1>4. /\ e.key = k /\ e.val = v /\ (e.isCreate <=> objects[k].rev = 0) /\ ~e.fenced
  BY Zenon
<1>5. v # NoVal
  BY ConstantsAssumption
<1>6. Batch(b)
  BY DEF Batch, Event, TypeOK
<1>7. (objects[k].rev = 0 <=> objects[k] = NoRow) /\ NoRow.val = NoVal
  BY DEF RowShape, NoRow
<1>8. v # objects[k].val
  BY <1>3, <1>5, <1>7
<1> HIDE DEF e
<1>9. Fits(e)
  BY <1>4, <1>5, <1>7, <1>8, Zenon DEF Fits
<1>10. \A i \in 1 .. Len(b) : b[i] = e
  OBVIOUS
<1>11. \A i \in 1 .. Len(b) : Fits(b[i]) /\ (b[i].fenced => Len(b) = 1)
  BY <1>4, <1>9, <1>10, Zenon
<1> QED
  BY <1>1, <1>6, <1>11 DEF FittingBatch

LEMMA CreateFits ==
  ASSUME TypeOK, RowShape, NEW c \in Writers, NEW k \in Keys, NEW v \in Values,
         CreateIfNamespaceActive(c, k, v)
  PROVE  \E b : FittingBatch(b) /\ Commit(c, b)
<1> DEFINE e == [key |-> k, rev |-> revision + 1, val |-> v, isCreate |-> TRUE,
                 fenced |-> TRUE]
           b == << e >>
           ns == IF NsOf[k] = NoNs THEN [rev |-> 1, val |-> NoVal] ELSE objects[NsOf[k]]
<1>1. Commit(c, b) /\ CreateVerdict(ns, objects[k]) = "write"
  BY DEF CreateIfNamespaceActive
<1>2. ns.rev # 0 /\ ns.val # Terminating /\ objects[k].rev = 0
  <2> HIDE DEF ns
  <2> QED
    BY <1>1 DEF CreateVerdict
<1>3. NsOf[k] # NoNs => objects[NsOf[k]].rev # 0 /\ objects[NsOf[k]].val # Terminating
  BY <1>2
<1>4. e.key = k /\ e.val = v /\ e.isCreate /\ e.fenced
  BY Zenon
<1>5. v # NoVal
  BY ConstantsAssumption
<1>6. Batch(b)
  BY DEF Batch, Event, TypeOK
<1>7. objects[k] = NoRow /\ objects[k].val = NoVal
  BY <1>2 DEF RowShape, NoRow
<1>8. NsOf[k] # NoNs => objects[NsOf[k]] # NoRow
  BY <1>3 DEF NoRow
<1> HIDE DEF e, ns
<1>9. Fits(e)
  BY <1>3, <1>4, <1>5, <1>7, <1>8, Zenon DEF Fits
<1>10. (\A i \in 1 .. Len(b) : b[i] = e) /\ Len(b) = 1
  OBVIOUS
<1>11. \A i \in 1 .. Len(b) : Fits(b[i]) /\ (b[i].fenced => Len(b) = 1)
  BY <1>9, <1>10, Zenon
<1> QED
  BY <1>1, <1>6, <1>11 DEF FittingBatch

LEMMA DeleteFits ==
  ASSUME TypeOK, RowShape, NEW c \in Writers, NEW k \in Keys, NEW exp, Delete(c, k, exp)
  PROVE  \E b : FittingBatch(b) /\ Commit(c, b)
<1> DEFINE e == [key |-> k, rev |-> revision + 1, val |-> NoVal, isCreate |-> FALSE,
                 fenced |-> FALSE]
           b == << e >>
<1>1. Commit(c, b) /\ DeleteVerdict(objects[k], exp) = "write"
  BY DEF Delete
<1>2. objects[k].rev # 0
  BY <1>1 DEF DeleteVerdict
<1>3. objects[k].val # NoVal
  BY <1>2 DEF RowShape, NoRow
<1>4. e.key = k /\ e.val = NoVal /\ ~e.isCreate /\ ~e.fenced
  BY Zenon
<1>5. Batch(b)
  BY DEF Batch, Event, TypeOK
<1> HIDE DEF e
<1>6. Fits(e)
  BY <1>3, <1>4, Zenon DEF Fits
<1>7. \A i \in 1 .. Len(b) : b[i] = e
  OBVIOUS
<1>8. \A i \in 1 .. Len(b) : Fits(b[i]) /\ (b[i].fenced => Len(b) = 1)
  BY <1>4, <1>6, <1>7, Zenon
<1> QED
  BY <1>1, <1>5, <1>8 DEF FittingBatch

LEMMA NamespaceFits ==
  ASSUME TypeOK, RowShape, NEW c \in Writers, NEW ns \in NsKeys,
         DeleteNamespaceResources(c, ns)
  PROVE  \E b : FittingBatch(b) /\ Commit(c, b)
<1>1. PICK b : /\ Batch(b) /\ Commit(c, b)
               /\ \A i \in 1 .. Len(b) :
                    /\ objects[b[i].key].rev # 0 /\ b[i].val = NoVal
                    /\ ~b[i].isCreate /\ ~b[i].fenced
  BY NamespaceBatch
<1>2. ASSUME NEW i \in 1 .. Len(b) PROVE Fits(b[i]) /\ (b[i].fenced => Len(b) = 1)
  <2>1. b[i].val = NoVal /\ ~b[i].isCreate /\ ~b[i].fenced
    BY <1>1, Zenon
  <2>2. b[i].key \in Keys
    <3>1. b[i] \in Event
      BY <1>1 DEF Batch
    <3> QED
      BY <3>1 DEF Event
  <2>3. objects[b[i].key].val # NoVal
    BY <1>1, <2>2 DEF RowShape, NoRow
  <2> QED
    BY <2>1, <2>3, Zenon DEF Fits
<1> QED
  BY <1>1, <1>2 DEF FittingBatch

\* Every write is the commit of a batch that fits the rows.
LEMMA WriteFits ==
  ASSUME TypeOK, RowShape, NEW c \in Writers, Write(c)
  PROVE  \E b : FittingBatch(b) /\ Commit(c, b)
BY PutFits, CreateFits, DeleteFits, NamespaceFits DEF Write

-------------------------------------------------------------------------------
(* Rows, lifecycles and fenced creates.                                     *)

RowsInv == TypeOK /\ PublishInv /\ RowsReflectLog

LEMMA RowsHaveShape == TypeOK /\ RowsReflectLog => RowShape
<1> SUFFICES ASSUME TypeOK, RowsReflectLog, NEW k \in Keys
             PROVE  objects[k] = NoRow \/ (objects[k].rev # 0 /\ objects[k].val # NoVal)
  BY DEF RowShape
<1>1. objects[k] = RowIn(log, k, Len(log)) /\ Len(log) \in Nat
  BY RowAtIsRowIn DEF RowsReflectLog, TypeOK
<1> QED
  BY <1>1, RowInShape

\* The rows before an event of a batch are the rows the batch was decided on,
\* on its own key always and on every key if it is the first.
LEMMA RowsBefore ==
  ASSUME RowsInv, NEW c \in Writers, NEW b, Batch(b), Commit(c, b),
         NEW i \in 1 .. Len(b), NEW k \in Keys, k = b[i].key \/ i = 1
  PROVE  RowIn(log', k, Len(log) + i - 1) = objects[k]
<1>1. /\ Len(log') = Len(log) + Len(b)
      /\ \A j \in 1 .. Len(log) : log'[j] = log[j]
      /\ \A j \in 1 .. Len(b) : log'[Len(log) + j] = b[j]
  BY CommitExtendsLog DEF RowsInv
<1>2. Len(log) \in Nat /\ Len(b) \in Nat /\ Len(log) + i - 1 \in Nat
  BY DEF RowsInv, TypeOK, Batch
<1>3. ASSUME NEW j \in 1 .. Len(log) + i - 1, j > Len(log) PROVE log'[j].key # k
  <2>1. j - Len(log) \in 1 .. Len(b) /\ j - Len(log) < i /\ Len(log) + (j - Len(log)) = j
    BY <1>2, <1>3, SMTT(30)
  <2>2. log'[j] = b[j - Len(log)] /\ i # 1
    BY <1>1, <1>2, <2>1, SMTT(30)
  <2> QED
    BY <2>1, <2>2 DEF Batch
<1>4. RowIn(log', k, Len(log) + i - 1) = RowIn(log, k, Len(log))
  <2> DEFINE q == Len(log) + i - 1
             r == Len(log)
  <2>1. q \in Nat /\ r \in Nat /\ r <= q
    BY <1>2
  <2>2. (\A j \in 1 .. r : log'[j] = log[j]) /\ \A j \in 1 .. q : j > r => log'[j].key # k
    BY <1>1, <1>3
  <2> HIDE DEF q, r
  <2>3. RowIn(log', k, q) = RowIn(log, k, r)
    BY <2>1, <2>2, RowInKept, SMTT(60)
  <2> QED
    BY <2>3 DEF q, r
<1> QED
  BY <1>4, RowAtIsRowIn DEF RowsInv, RowsReflectLog

LEMMA RowsCommit ==
  ASSUME RowsInv, NEW c \in Writers, NEW b, Batch(b), Commit(c, b), PublishInv'
  PROVE  RowsReflectLog'
<1>1. /\ Len(log') = Len(log) + Len(b)
      /\ \A j \in 1 .. Len(log) : log'[j] = log[j]
      /\ \A j \in 1 .. Len(b) : log'[Len(log) + j] = b[j]
  BY CommitExtendsLog DEF RowsInv
<1>2. Len(log) \in Nat /\ Len(b) \in Nat /\ Len(log') \in Nat
  BY <1>1 DEF RowsInv, TypeOK, Batch
<1>3. \A i \in 1 .. Len(log') : log'[i].rev = i
  BY DEF PublishInv
<1>4. ASSUME NEW k \in Keys PROVE objects'[k] = RowIn(log', k, Len(log'))
  <2>1. CASE \E i \in 1 .. Len(b) : b[i].key = k
    <3> DEFINE i == CHOOSE i \in 1 .. Len(b) : b[i].key = k
    <3>1. i \in 1 .. Len(b) /\ b[i].key = k
      BY <2>1
    <3>2. objects'[k] = IF b[i].val = NoVal THEN NoRow ELSE [rev |-> b[i].rev, val |-> b[i].val]
      BY <2>1 DEF Commit
    <3> HIDE DEF i
    <3>3. log'[Len(log) + i] = b[i] /\ Len(log) + i \in 1 .. Len(log')
      BY <1>1, <1>2, <3>1
    <3>4. LastOn(log', k, Len(log'), Len(log) + i)
      <4>1. ASSUME NEW j \in 1 .. Len(log'), log'[j].key = k PROVE j <= Len(log) + i
        <5>1. CASE j <= Len(log)
          BY <5>1, <1>2, <3>1
        <5>2. CASE j > Len(log)
          <6>1. j - Len(log) \in 1 .. Len(b) /\ Len(log) + (j - Len(log)) = j
            BY <5>2, <1>1, <1>2
          <6>2. b[j - Len(log)].key = k
            BY <6>1, <4>1, <1>1
          <6>3. j - Len(log) = i
            BY <6>1, <6>2, <3>1 DEF Batch
          <6> QED
            BY <6>1, <6>3, <1>2
        <5> QED
          BY <5>1, <5>2, <1>2
      <4> QED
        BY <3>1, <3>3, <4>1 DEF LastOn
    <3>5. b[i].rev = Len(log) + i
      BY <1>3, <3>3
    <3>6. RowIn(log', k, Len(log')) = IF b[i].val = NoVal THEN NoRow
                                      ELSE [rev |-> Len(log) + i, val |-> b[i].val]
      BY <3>3, <3>4, <1>2, RowInLast
    <3> QED
      BY <3>2, <3>5, <3>6, Zenon
  <2>2. CASE ~\E i \in 1 .. Len(b) : b[i].key = k
    <3>1. objects'[k] = objects[k]
      BY <2>2 DEF Commit
    <3>2. ASSUME NEW j \in 1 .. Len(log'), j > Len(log) PROVE log'[j].key # k
      <4>1. j - Len(log) \in 1 .. Len(b) /\ Len(log) + (j - Len(log)) = j
        BY <3>2, <1>1, <1>2
      <4> QED
        BY <4>1, <2>2, <1>1
    <3>3. RowIn(log', k, Len(log')) = RowIn(log, k, Len(log))
      <4> DEFINE q == Len(log')
                 r == Len(log)
      <4>1. q \in Nat /\ r \in Nat /\ r <= q
        BY <1>1, <1>2
      <4>2. (\A j \in 1 .. r : log'[j] = log[j]) /\ \A j \in 1 .. q : j > r => log'[j].key # k
        BY <1>1, <3>2
      <4> HIDE DEF q, r
      <4>3. RowIn(log', k, q) = RowIn(log, k, r)
        BY <4>1, <4>2, RowInKept
      <4> QED
        BY <4>3 DEF q, r
    <3> QED
      BY <3>1, <3>3, RowAtIsRowIn DEF RowsInv, RowsReflectLog
  <2> QED
    BY <2>1, <2>2
<1>5. ASSUME NEW k \in Keys, objects'[k].rev # 0
      PROVE  log'[objects'[k].rev].rev = objects'[k].rev
  <2>1. objects'[k].rev \in 1 .. Len(log')
    BY <1>2, <1>4, <1>5, RowInShape DEF NoRow
  <2> QED
    BY <2>1, <1>3
<1>6. \A k \in Keys : objects'[k] = RowAt(k, Len(log))'
  BY <1>4, RowAtIsRowIn
<1>7. revision' = Len(log')
  BY DEF PublishInv
<1> QED
  BY <1>5, <1>6, <1>7 DEF RowsReflectLog

LEMMA LifecycleCommit ==
  ASSUME RowsInv, LifecycleWellFormed, NEW c \in Writers, NEW b, FittingBatch(b), Commit(c, b)
  PROVE  LifecycleWellFormed'
<1>1. /\ Len(log') = Len(log) + Len(b)
      /\ \A j \in 1 .. Len(log) : log'[j] = log[j]
      /\ \A j \in 1 .. Len(b) : log'[Len(log) + j] = b[j]
  BY CommitExtendsLog DEF RowsInv, FittingBatch
<1>2. Len(log) \in Nat /\ Len(b) \in Nat /\ Len(log') \in Nat
  BY <1>1 DEF RowsInv, TypeOK, FittingBatch, Batch
<1> DEFINE Step(e, before) == /\ e.isCreate <=> (before = NoRow /\ e.val # NoVal)
                              /\ e.val # before.val
<1>3. ASSUME NEW r \in 1 .. Len(log') PROVE Step(log'[r], RowIn(log', log'[r].key, r - 1))
  <2>1. CASE r <= Len(log)
    <3>1. r \in 1 .. Len(log) /\ log'[r] = log[r] /\ r - 1 \in Nat
      BY <2>1, <1>1, <1>2
    <3>2. RowIn(log', log[r].key, r - 1) = RowIn(log, log[r].key, r - 1)
      <4> DEFINE q == r - 1
      <4>1. q \in Nat /\ \A j \in 1 .. q : log'[j] = log[j]
        BY <3>1, <1>1, <1>2
      <4>2. \A j \in 1 .. q : ~(j > q)
        BY <4>1
      <4>3. q <= q
        BY <4>1
      <4> HIDE DEF q
      <4>4. RowIn(log', log[r].key, q) = RowIn(log, log[r].key, q)
        BY <4>1, <4>2, <4>3, RowInKept
      <4> QED
        BY <4>4 DEF q
    <3>3. Step(log[r], RowAt(log[r].key, r - 1))
      BY <3>1, Zenon DEF LifecycleWellFormed
    <3> HIDE DEF Step
    <3>4. Step(log[r], RowIn(log, log[r].key, r - 1))
      BY <3>3, RowAtIsRowIn, Zenon
    <3> QED
      BY <3>1, <3>2, <3>4, Zenon
  <2>2. CASE r > Len(log)
    <3> DEFINE i == r - Len(log)
    <3>1. i \in 1 .. Len(b) /\ Len(log) + i = r /\ Len(log) + i - 1 = r - 1
      BY <2>2, <1>1, <1>2
    <3> HIDE DEF i
    <3>2. log'[r] = b[i] /\ b[i].key \in Keys
      <4>1. b[i] \in Event
        BY <3>1 DEF FittingBatch, Batch
      <4>2. b[i].key \in Keys
        BY <4>1 DEF Event
      <4> QED
        BY <4>2, <3>1, <1>1
    <3>3. RowIn(log', b[i].key, Len(log) + i - 1) = objects[b[i].key]
      BY <3>1, <3>2, RowsBefore DEF FittingBatch
    <3>4. RowIn(log', b[i].key, r - 1) = objects[b[i].key]
      BY <3>1, <3>3
    <3>5. Step(b[i], objects[b[i].key])
      BY <3>1, Zenon DEF FittingBatch, Fits
    <3> HIDE DEF Step
    <3> QED
      BY <3>2, <3>4, <3>5, Zenon
  <2> QED
    BY <2>1, <2>2, <1>2
<1>4. \A r \in 1 .. Len(log') : Step(log'[r], RowAt(log[r].key, r - 1)')
  <2> HIDE DEF Step
  <2> QED
    BY <1>3, RowAtIsRowIn, Zenon DEF RowAt, RowIn
<1> QED
  BY <1>4, Zenon DEF LifecycleWellFormed

LEMMA FencedCommit ==
  ASSUME RowsInv, FencedCreates, NEW c \in Writers, NEW b, FittingBatch(b), Commit(c, b)
  PROVE  FencedCreates'
<1>1. /\ Len(log') = Len(log) + Len(b)
      /\ \A j \in 1 .. Len(log) : log'[j] = log[j]
      /\ \A j \in 1 .. Len(b) : log'[Len(log) + j] = b[j]
  BY CommitExtendsLog DEF RowsInv, FittingBatch
<1>2. Len(log) \in Nat /\ Len(b) \in Nat /\ Len(log') \in Nat
  BY <1>1 DEF RowsInv, TypeOK, FittingBatch, Batch
<1> DEFINE Open(row) == row # NoRow /\ row.val # Terminating
<1>3. ASSUME NEW r \in 1 .. Len(log'), log'[r].fenced, NsOf[log'[r].key] # NoNs
      PROVE  Open(RowIn(log', NsOf[log'[r].key], r - 1))
  <2>1. CASE r <= Len(log)
    <3>1. r \in 1 .. Len(log) /\ log'[r] = log[r] /\ r - 1 \in Nat
      BY <2>1, <1>1, <1>2
    <3> DEFINE n == NsOf[log[r].key]
    <3>2. RowIn(log', n, r - 1) = RowIn(log, n, r - 1)
      <4> DEFINE q == r - 1
      <4>1. q \in Nat /\ \A j \in 1 .. q : log'[j] = log[j]
        BY <3>1, <1>1, <1>2
      <4>2. \A j \in 1 .. q : ~(j > q)
        BY <4>1
      <4>3. q <= q
        BY <4>1
      <4> HIDE DEF q, n
      <4>4. RowIn(log', n, q) = RowIn(log, n, q)
        BY <4>1, <4>2, <4>3, RowInKept
      <4> QED
        BY <4>4 DEF q
    <3>3. log[r].fenced /\ NsOf[log[r].key] # NoNs
      BY <3>1, <1>3, Zenon
    <3>4. Open(RowAt(n, r - 1))
      BY <3>1, <3>3, Zenon DEF FencedCreates
    <3> HIDE DEF Open
    <3>5. Open(RowIn(log, n, r - 1))
      BY <3>4, RowAtIsRowIn, Zenon
    <3> QED
      BY <3>1, <3>2, <3>5, Zenon
  <2>2. CASE r > Len(log)
    <3> DEFINE i == r - Len(log)
    <3>1. i \in 1 .. Len(b) /\ Len(log) + i = r /\ Len(log) + i - 1 = r - 1
      BY <2>2, <1>1, <1>2
    <3> HIDE DEF i
    <3>2. log'[r] = b[i] /\ b[i].key \in Keys
      <4>1. b[i] \in Event
        BY <3>1 DEF FittingBatch, Batch
      <4>2. b[i].key \in Keys
        BY <4>1 DEF Event
      <4> QED
        BY <4>2, <3>1, <1>1
    <3> DEFINE n == NsOf[b[i].key]
    <3>3. b[i].fenced /\ n # NoNs
      BY <3>2, <1>3, Zenon
    <3>4. Len(b) = 1 /\ Open(objects[n])
      BY <3>1, <3>3, Zenon DEF FittingBatch, Fits
    <3>5. i = 1 /\ n \in Keys
      BY <3>1, <3>2, <3>3, <3>4, ConstantsAssumption
    <3> HIDE DEF n, Open
    <3>6. RowIn(log', n, Len(log) + i - 1) = objects[n]
      BY <3>1, <3>5, RowsBefore DEF FittingBatch
    <3>7. RowIn(log', n, r - 1) = objects[n]
      BY <3>1, <3>6
    <3> QED
      BY <3>2, <3>4, <3>7, Zenon DEF n
  <2> QED
    BY <2>1, <2>2, <1>2
<1>4. \A r \in 1 .. Len(log') : log'[r].fenced /\ NsOf[log'[r].key] # NoNs =>
                                Open(RowAt(NsOf[log[r].key], r - 1)')
  <2> HIDE DEF Open
  <2> QED
    BY <1>3, Zenon DEF RowAt, RowIn
<1> QED
  BY <1>4, Zenon DEF FencedCreates

LogInv == RowsInv /\ LifecycleWellFormed /\ FencedCreates

LEMMA LogInvNext == LogInv /\ TypeOK' /\ PublishInv' /\ [Next]_vars => LogInv'
<1> SUFFICES ASSUME LogInv, TypeOK', PublishInv', [Next]_vars PROVE LogInv'
  OBVIOUS
<1>1. ASSUME NEW c \in Writers, Write(c) PROVE LogInv'
  <2>1. RowShape
    BY RowsHaveShape DEF LogInv, RowsInv
  <2>2. PICK b : FittingBatch(b) /\ Commit(c, b)
    BY <1>1, <2>1, WriteFits DEF LogInv, RowsInv
  <2>3. RowsReflectLog'
    BY <2>2, RowsCommit DEF LogInv, FittingBatch
  <2>4. LifecycleWellFormed'
    BY <2>2, LifecycleCommit DEF LogInv
  <2>5. FencedCreates'
    BY <2>2, FencedCommit DEF LogInv
  <2> QED
    BY <2>3, <2>4, <2>5 DEF LogInv, RowsInv
<1>2. CASE UNCHANGED durable
  <2>1. objects' = objects /\ revision' = revision /\ log' = log
    BY <1>2 DEF durable
  <2>2. RowsReflectLog /\ LifecycleWellFormed /\ FencedCreates
    BY DEF LogInv, RowsInv
  <2>3. \A k, r : RowAt(k, r)' = RowAt(k, r)
    BY <2>1, ZenonT(30) DEF RowAt
  <2>4. RowsReflectLog'
    BY <2>1, <2>2, <2>3, Zenon DEF RowsReflectLog
  <2>5. LifecycleWellFormed'
    BY <2>1, <2>2, <2>3, Zenon DEF LifecycleWellFormed
  <2>6. FencedCreates'
    BY <2>1, <2>2, <2>3, Zenon DEF FencedCreates
  <2> QED
    BY <2>4, <2>5, <2>6 DEF LogInv, RowsInv
<1>3. ASSUME NEW c \in Readers, Read(c) PROVE UNCHANGED durable
  BY <1>3 DEF Read, ReadPool, ReadGuard, ReadRetry
<1>4. BumpLastWritten \/ PushEventLocked \/ WriteReturns \/ Restart \/ UNCHANGED vars
      => UNCHANGED durable
  BY DEF BumpLastWritten, PushEventLocked, WriteReturns, Restart, vars
<1> QED
  BY <1>1, <1>2, <1>3, <1>4 DEF Next

\* The log, its rows and its flags together: the inductive invariant behind
\* the three theorems that follow.
THEOREM LogInvariant == Spec => []LogInv
<1>1. Init => RowsReflectLog /\ LifecycleWellFormed /\ FencedCreates
  <2> SUFFICES ASSUME Init PROVE RowsReflectLog /\ LifecycleWellFormed /\ FencedCreates
    OBVIOUS
  <2>1. log = <<>> /\ Len(log) = 0 /\ revision = 0 /\ \A k \in Keys : objects[k] = NoRow
    BY DEF Init
  <2>2. \A k \in Keys : RowAt(k, Len(log)) = NoRow
    BY <2>1, RowAtIsRowIn, RowInNone
  <2> QED
    BY <2>1, <2>2 DEF RowsReflectLog, LifecycleWellFormed, FencedCreates, NoRow
<1>2. LogInv <=> TypeOK /\ PublishInv /\ RowsReflectLog /\ LifecycleWellFormed /\ FencedCreates
  BY DEF LogInv, RowsInv
<1> QED
  BY <1>1, <1>2, LogInvNext, TypeCorrect, PublishCorrect, PTL DEF Spec

\* Each key holds the body and the revision of the last event on it, for any
\* writers, namespaces and restarts (objects.revision, meta.revision).
THEOREM RowsFollowLog == Spec => []RowsReflectLog
<1>1. LogInv => RowsReflectLog
  BY DEF LogInv, RowsInv
<1> QED
  BY <1>1, LogInvariant, PTL

\* A watcher that reads the log sees ADDED only for absent keys, DELETED only
\* for present ones and no event that changes nothing (put_sync's no-op
\* check, is_create, delete_sync's NotFound).
THEOREM LifecyclesAreWellFormed == Spec => []LifecycleWellFormed
<1>1. LogInv => LifecycleWellFormed
  BY DEF LogInv
<1> QED
  BY <1>1, LogInvariant, PTL

\* create_if_namespace_active never creates in a namespace that is absent or
\* Terminating at the revision of the create.
THEOREM CreatesAreFenced == Spec => []FencedCreates
<1>1. LogInv => FencedCreates
  BY DEF LogInv
<1> QED
  BY <1>1, LogInvariant, PTL

-------------------------------------------------------------------------------
(* Reads.                                                                   *)

\* What was acknowledged is covered by last_written_revision, or by what the
\* process found in the file when it started.
AckInv ==
  /\ base <= revision
  /\ acked <= lastWritten \/ acked <= base
  /\ bumped => lastWritten = revision

\* What a reader holds, given the log L and where the process found it (b):
\* the state at the revision it read at, not before the process started while
\* the guard has yet to look at it, and not before what the guard asked for
\* once it is an answer.
ReadOK(a, L, b) ==
  a.want # {} =>
    /\ a.rev <= Len(L)
    /\ \A k \in a.want : a.got[k] = RowIn(L, k, a.rev)
    /\ a.pc = "idle"  => a.must <= a.rev
    /\ a.pc = "guard" => b <= a.rev
    /\ a.pc = "retry" => a.must <= Len(L)

ReadInv == AckInv /\ \A c \in Readers : ReadOK(reader[c], log, base)

LEMMA AckNext == LogInv /\ TypeOK' /\ PublishInv' /\ AckInv /\ [Next]_vars => AckInv'
<1> SUFFICES ASSUME LogInv, TypeOK', PublishInv', AckInv, [Next]_vars PROVE AckInv'
  OBVIOUS
<1>1. /\ base \in Nat /\ revision \in Nat /\ acked \in 0 .. revision
      /\ lastWritten \in 0 .. revision /\ revision = Len(log)
  BY DEF LogInv, RowsInv, TypeOK, PublishInv
<1>2. ASSUME NEW c \in Writers, Write(c) PROVE AckInv'
  <2>1. PICK b : Batch(b) /\ Commit(c, b)
    BY <1>2, WriteIsCommit DEF LogInv, RowsInv
  <2>2. /\ base' = base /\ acked' = acked /\ lastWritten' = lastWritten /\ ~bumped'
        /\ revision' = revision + Len(b)
    BY <2>1, Zenon DEF Commit
  <2>3. Len(b) \in Nat
    BY <2>1 DEF Batch
  <2> QED
    BY <2>2, <2>3, <1>1 DEF AckInv
<1>3. ASSUME NEW c \in Readers, Read(c) PROVE AckInv'
  <2>1. UNCHANGED <<base, acked, lastWritten, bumped, revision>>
    BY <1>3 DEF Read, ReadPool, ReadGuard, ReadRetry, durable, memory
  <2> QED
    BY <2>1 DEF AckInv
<1>4. CASE BumpLastWritten
  BY <1>4, <1>1 DEF BumpLastWritten, AckInv, durable
<1>5. CASE PushEventLocked
  BY <1>5 DEF PushEventLocked, AckInv, durable
<1>6. CASE WriteReturns
  BY <1>6, <1>1 DEF WriteReturns, AckInv, durable
<1>7. CASE Restart
  BY <1>7, <1>1 DEF Restart, AckInv, durable
<1>8. CASE UNCHANGED vars
  BY <1>8 DEF vars, memory, durable, AckInv
<1> QED
  BY <1>2, <1>3, <1>4, <1>5, <1>6, <1>7, <1>8 DEF Next

\* A read that is not touched stays right while the log grows.
LEMMA ReadKept ==
  ASSUME NEW a \in Reader, NEW L, NEW M, NEW b, ReadOK(a, L, b),
         Len(L) \in Nat, Len(M) \in Nat, Len(L) <= Len(M),
         \A i \in 1 .. Len(L) : M[i] = L[i]
  PROVE  ReadOK(a, M, b)
<1>1. a.rev \in Nat /\ a.must \in Nat
  BY DEF Reader
<1>2. ASSUME a.rev <= Len(L), NEW k PROVE RowIn(M, k, a.rev) = RowIn(L, k, a.rev)
  <2> DEFINE q == a.rev
  <2>1. q \in Nat /\ q <= q /\ (\A j \in 1 .. q : M[j] = L[j]) /\ \A j \in 1 .. q : ~(j > q)
    BY <1>1, <1>2
  <2> HIDE DEF q
  <2>2. RowIn(M, k, q) = RowIn(L, k, q)
    BY <2>1, RowInKept
  <2> QED
    BY <2>2 DEF q
<1> QED
  BY <1>1, <1>2 DEF ReadOK

\* One committed snapshot, taken through the pool or the write connection.
LEMMA SnapshotIsRow ==
  ASSUME LogInv, NEW want \in SUBSET Keys, NEW k \in want
  PROVE  Restricted(want)[k] = RowIn(log, k, revision)
<1>1. k \in Keys /\ Restricted(want)[k] = objects[k]
  BY DEF Restricted
<1> QED
  BY <1>1, RowAtIsRowIn DEF LogInv, RowsInv, RowsReflectLog

LEMMA ReadPoolOK ==
  ASSUME LogInv, ReadInv, NEW c \in Readers, NEW op, NEW want \in SUBSET Keys,
         ReadPool(c, op, want), reader \in [Readers -> Reader]
  PROVE  ReadOK(reader'[c], log, base)
<1> DEFINE a == [pc |-> "guard", op |-> op, want |-> want,
                 got |-> Restricted(want), rev |-> revision, must |-> 0]
<1>1. reader'[c] = a
  BY DEF ReadPool
<1>2. /\ revision \in Nat /\ revision = Len(log) /\ base <= revision
  BY DEF LogInv, RowsInv, TypeOK, PublishInv, ReadInv, AckInv
<1>3. /\ a.want = want /\ a.rev = revision /\ a.got = Restricted(want) /\ a.pc = "guard"
  OBVIOUS
<1> HIDE DEF a
<1>4. \A k \in a.want : a.got[k] = RowIn(log, k, a.rev)
  BY <1>3, SnapshotIsRow
<1>5. ReadOK(a, log, base)
  BY <1>2, <1>3, <1>4 DEF ReadOK
<1> QED
  BY <1>1, <1>5

\* A snapshot the guard trusts is at least as new as last_written_revision.
LEMMA TrustedIsFresh ==
  ASSUME TypeOK, NEW a \in Reader, ReadOK(a, log, base), a.want # {}, ~Stale(a)
  PROVE  lastWritten <= a.rev
<1>1. a.rev \in Nat /\ a.got \in [Keys -> Row] /\ a.want \subseteq Keys /\ lastWritten \in Nat
  BY DEF Reader, TypeOK
<1>2. CASE a.op = "list"
  BY <1>1, <1>2 DEF Stale
<1>3. CASE a.op # "list"
  <2>1. PICK k \in a.want : TRUE
    OBVIOUS
  <2> DEFINE g == a.got[k]
  <2>2. g \in Row /\ g.rev \in Nat
    BY <1>1, <2>1 DEF Row
  <2>3. ~(g.rev # 0 /\ g.rev < lastWritten) /\ ~(g.rev = 0 /\ lastWritten > 0)
    BY <1>3, <2>1 DEF Stale
  <2>4. g = RowIn(log, k, a.rev)
    BY <2>1 DEF ReadOK
  <2>5. g = NoRow \/ g.rev \in 1 .. a.rev
    BY <1>1, <2>4, RowInShape
  <2> HIDE DEF g
  <2>6. g.rev = 0 \/ g.rev \in 1 .. a.rev
    BY <2>5 DEF NoRow
  <2> QED
    BY <1>1, <2>2, <2>3, <2>6
<1> QED
  BY <1>2, <1>3

LEMMA ReadGuardOK ==
  ASSUME LogInv, ReadInv, NEW c \in Readers, ReadGuard(c)
  PROVE  ReadOK(reader'[c], log, base)
<1> DEFINE a == reader[c]
           z == reader'[c]
<1>1. a \in Reader /\ reader \in [Readers -> Reader]
  BY DEF LogInv, RowsInv, TypeOK
<1>2. /\ a = [pc |-> a.pc, op |-> a.op, want |-> a.want, got |-> a.got, rev |-> a.rev, must |-> a.must]
      /\ a.rev \in Nat
  BY <1>1 DEF Reader
<1>3. z = [a EXCEPT !.pc = IF Stale(a) THEN "retry" ELSE "idle", !.must = acked]
  BY <1>1 DEF ReadGuard
<1>4. /\ z.pc = (IF Stale(a) THEN "retry" ELSE "idle") /\ z.must = acked
      /\ z.want = a.want /\ z.got = a.got /\ z.rev = a.rev
  BY <1>2, <1>3
<1>5. ReadOK(a, log, base) /\ a.pc = "guard" /\ TypeOK /\ revision = Len(log)
  BY DEF ReadInv, ReadGuard, LogInv, RowsInv, PublishInv
<1> HIDE DEF a, z
<1>6. /\ acked \in 0 .. revision /\ lastWritten \in Nat /\ base \in Nat /\ revision \in Nat
      /\ acked <= lastWritten \/ acked <= base
  BY DEF LogInv, RowsInv, TypeOK, ReadInv, AckInv
<1>7. ASSUME a.want # {}, ~Stale(a) PROVE acked <= a.rev
  <2>1. lastWritten <= a.rev
    BY <1>1, <1>5, <1>7, TrustedIsFresh
  <2>2. base <= a.rev
    BY <1>5, <1>7 DEF ReadOK
  <2> QED
    BY <2>1, <2>2, <1>2, <1>6
<1>8. \A k \in z.want : z.want # {} => z.got[k] = RowIn(log, k, z.rev)
  BY <1>4, <1>5 DEF ReadOK
<1>9. z.want # {} =>
        /\ z.rev <= Len(log)
        /\ z.pc = "idle"  => z.must <= z.rev
        /\ z.pc = "guard" => base <= z.rev
        /\ z.pc = "retry" => z.must <= Len(log)
  BY <1>4, <1>5, <1>6, <1>7 DEF ReadOK
<1>10. ReadOK(z, log, base)
  BY <1>8, <1>9 DEF ReadOK
<1> QED
  BY <1>10 DEF z

LEMMA ReadRetryOK ==
  ASSUME LogInv, ReadInv, NEW c \in Readers, ReadRetry(c)
  PROVE  ReadOK(reader'[c], log, base)
<1> DEFINE a == reader[c]
           z == reader'[c]
<1>1. a \in Reader /\ reader \in [Readers -> Reader]
  BY DEF LogInv, RowsInv, TypeOK
<1>2. /\ a = [pc |-> a.pc, op |-> a.op, want |-> a.want, got |-> a.got, rev |-> a.rev, must |-> a.must]
      /\ a.want \in SUBSET Keys
  BY <1>1 DEF Reader
<1>3. z = [a EXCEPT !.pc = "idle", !.got = Restricted(a.want), !.rev = revision]
  BY <1>1 DEF ReadRetry
<1>4. /\ z.pc = "idle" /\ z.must = a.must
      /\ z.want = a.want /\ z.got = Restricted(a.want) /\ z.rev = revision
  BY <1>2, <1>3
<1>5. ReadOK(a, log, base) /\ a.pc = "retry" /\ revision = Len(log) /\ revision \in Nat
  BY DEF ReadInv, ReadRetry, LogInv, RowsInv, PublishInv, TypeOK
<1> HIDE DEF a, z
<1>6. \A k \in z.want : z.got[k] = RowIn(log, k, z.rev)
  BY <1>2, <1>4, SnapshotIsRow
<1>7. ReadOK(z, log, base)
  BY <1>4, <1>5, <1>6 DEF ReadOK
<1> QED
  BY <1>7 DEF z

LEMMA ReadNext == LogInv /\ TypeOK' /\ PublishInv' /\ ReadInv /\ [Next]_vars => ReadInv'
<1> SUFFICES ASSUME LogInv, TypeOK', PublishInv', ReadInv, [Next]_vars PROVE ReadInv'
  OBVIOUS
<1>1. AckInv'
  BY AckNext DEF ReadInv
<1>2. /\ reader \in [Readers -> Reader] /\ Len(log) \in Nat /\ Len(log') \in Nat
      /\ \A c \in Readers : ReadOK(reader[c], log, base)
  BY DEF LogInv, RowsInv, TypeOK, ReadInv
<1>3. SUFFICES ASSUME NEW d \in Readers PROVE ReadOK(reader'[d], log', base')
  BY <1>1 DEF ReadInv
<1>4. ASSUME NEW c \in Writers, Write(c) PROVE ReadOK(reader'[d], log', base')
  <2>1. PICK b : Batch(b) /\ Commit(c, b)
    BY <1>4, WriteIsCommit DEF LogInv, RowsInv
  <2>2. /\ Len(log') = Len(log) + Len(b)
        /\ \A j \in 1 .. Len(log) : log'[j] = log[j]
    BY <2>1, CommitExtendsLog DEF LogInv, RowsInv
  <2>3. reader' = reader /\ base' = base
    BY <2>1, Zenon DEF Commit
  <2>4. Len(b) \in Nat /\ Len(log) <= Len(log')
    BY <2>1, <2>2, <1>2 DEF Batch
  <2>5. ReadOK(reader[d], log', base)
    BY <1>2, <2>2, <2>4, ReadKept
  <2> QED
    BY <2>3, <2>5
<1>5. ASSUME NEW c \in Readers, Read(c) PROVE ReadOK(reader'[d], log', base')
  <2>1. log' = log /\ base' = base
    BY <1>5 DEF Read, ReadPool, ReadGuard, ReadRetry, durable
  <2>2. CASE d # c
    <3>1. reader'[d] = reader[d]
      BY <1>5, <1>2, <2>2 DEF Read, ReadPool, ReadGuard, ReadRetry
    <3> QED
      BY <3>1, <2>1, <1>2
  <2>3. CASE d = c
    <3>1. ASSUME NEW k \in Keys, ReadPool(c, "get", {k}) PROVE ReadOK(reader'[c], log, base)
      BY <3>1, <1>2, ReadPoolOK
    <3>2. ASSUME ReadPool(c, "list", Keys) PROVE ReadOK(reader'[c], log, base)
      BY <3>2, <1>2, ReadPoolOK
    <3>3. ASSUME ReadGuard(c) PROVE ReadOK(reader'[c], log, base)
      BY <3>3, ReadGuardOK
    <3>4. ASSUME ReadRetry(c) PROVE ReadOK(reader'[c], log, base)
      BY <3>4, ReadRetryOK
    <3> QED
      BY <1>5, <2>1, <2>3, <3>1, <3>2, <3>3, <3>4 DEF Read
  <2> QED
    BY <2>2, <2>3
<1>6. CASE Restart
  <2>1. reader'[d] = NoRead
    BY <1>6 DEF Restart
  <2> QED
    BY <2>1 DEF NoRead, ReadOK
<1>7. CASE BumpLastWritten \/ PushEventLocked \/ WriteReturns \/ UNCHANGED vars
  <2>1. log' = log /\ base' = base /\ reader' = reader
    BY <1>7 DEF BumpLastWritten, PushEventLocked, WriteReturns, vars, durable
  <2> QED
    BY <2>1, <1>2
<1> QED
  BY <1>4, <1>5, <1>6, <1>7 DEF Next

\* An answer of get or list is the state at one revision, no older than
\* anything acknowledged when the staleness guard ran, and list's
\* resourceVersion is that revision: for any keys, writers, readers, schedule
\* and restarts, also while last_written_revision is still 0 after a restart.
THEOREM ReadsAreCurrent == Spec => []ReadsReflectAcknowledged
<1>1. Init => ReadInv
  <2> SUFFICES ASSUME Init PROVE ReadInv
    OBVIOUS
  <2>1. AckInv
    BY DEF Init, AckInv
  <2>2. \A c \in Readers : reader[c].want = {}
    BY DEF Init, NoRead
  <2> QED
    BY <2>1, <2>2 DEF ReadInv, ReadOK
<1>2. LogInv /\ ReadInv => ReadsReflectAcknowledged
  <2> SUFFICES ASSUME LogInv, ReadInv, NEW c \in Readers,
                      reader[c].pc = "idle", reader[c].want # {}
               PROVE  \E r \in reader[c].must .. Len(log) :
                        /\ \A k \in reader[c].want : reader[c].got[k] = RowAt(k, r)
                        /\ reader[c].op = "list" => reader[c].rev = r
    BY DEF ReadsReflectAcknowledged
  <2> DEFINE a == reader[c]
  <2>1. a \in Reader /\ ReadOK(a, log, base) /\ Len(log) \in Nat
    BY DEF LogInv, RowsInv, TypeOK, ReadInv
  <2>2. a.rev \in Nat /\ a.must \in Nat
    BY <2>1 DEF Reader
  <2>3. a.must <= a.rev /\ a.rev <= Len(log) /\ \A k \in a.want : a.got[k] = RowAt(k, a.rev)
    BY <2>1, RowAtIsRowIn DEF ReadOK
  <2>4. a.rev \in a.must .. Len(log)
    BY <2>1, <2>2, <2>3
  <2> QED
    BY <2>3, <2>4
<1>3. LogInv => TypeOK /\ PublishInv
  BY DEF LogInv, RowsInv
<1> QED
  BY <1>1, <1>2, <1>3, ReadNext, LogInvariant, PTL DEF Spec

===============================================================================
