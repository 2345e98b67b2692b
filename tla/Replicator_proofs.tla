-------------------------- MODULE Replicator_proofs --------------------------
(* Proofs about Replicator, for any number of replicas and transactions,     *)
(* whatever calls are lost or late, and whoever else cleans up: the replicas *)
(* agree on what is written, and a value read is the serial one.             *)
EXTENDS Replicator, MemActor_proofs, NaturalsInduction, WellFoundedInduction

(* What a transaction may be said to have got where.                         *)
AllCommit(t) == \A r \in Replica : txnState[r][t] = "COMMIT"
SomeReset(t) == \E r \in Replica : txnState[r][t] = "RESET"
Ready(r, t) == writeLock[r] = t /\ queuedValue[r] = Write[t]

(* Somebody wants t to be committed, or some replica did it.                 *)
Asked(t) ==
  \/ owner[t].kind = "commitTxn"
  \/ cleaner[t].kind = "commitTxn"
  \/ \E c \in late : c.txn = t /\ c.kind \in {"commitTxn", "commitValue"}
  \/ \E r \in Replica : txnState[r][t] = "COMMIT"

(* The invariant, part by part: an answer of a transaction's actor is its    *)
(* state, if it is not OPEN;                                                 *)
AnswerIsState(step, t) ==
  \A r \in Replica :
    /\ step.kind = "commitTxn" /\ step.reply[r] \in {"yes", "no"} => txnState[r][t] = "COMMIT"
    /\ step.kind = "resetTxn" /\ step.reply[r] \in {"yes", "no"} => txnState[r][t] = "RESET"
    /\ step.kind \in {"addLock", "txnState"} /\ step.reply[r] \in {"COMMIT", "RESET"}
         => txnState[r][t] = step.reply[r]
AnswersAreStates ==
  \A t \in Time : AnswerIsState(owner[t], t) /\ AnswerIsState(cleaner[t], t)

(* values are installed after all replicas committed, and dropped after one  *)
(* reverted, or when the owner got no lock;                                  *)
ValuesFollow ==
  \A c \in late :
    /\ c.kind = "commitValue" => AllCommit(c.txn)
    /\ c.kind = "resetValue" =>
         \/ SomeReset(c.txn)
         \/ owner[c.txn].kind \in {"resetTxn", "gone"} /\ ~Asked(c.txn)

(* a lock or a value that comes late belongs to a transaction that failed;   *)
LateIsFailed ==
  \A c \in late : c.kind \in {"lock", "queue"} =>
    /\ ~Asked(c.txn)
    /\ \/ owner[c.txn].kind \in {"resetTxn", "gone"}
       \/ owner[c.txn].kind = c.kind /\ owner[c.txn].reply[c.to] = "failed"

(* up to its decision the owner has what it was told it has;                 *)
OwnerHolds ==
  \A t \in Time, r \in Replica :
    \/ SomeReset(t)
    \/ /\ owner[t].kind = "lock" /\ owner[t].reply[r] = "yes" => writeLock[r] = t
       /\ owner[t].kind \in {"addLock", "queue"} => writeLock[r] = t
       /\ owner[t].kind = "queue" /\ owner[t].reply[r] = "yes" => queuedValue[r] = Write[t]

(* a transaction that is to be committed is ready or on record everywhere,   *)
(* unless it was reverted somewhere;                                         *)
AskedIsReady ==
  \A t \in Time : Asked(t) =>
    /\ owner[t].kind \in {"commitTxn", "resetTxn", "gone"}
    /\ SomeReset(t) \/ \A r \in Replica : Ready(r, t) \/ Holds(r, t)

CleanerKinds ==
  \A t \in Time : cleaner[t].kind \in {"idle", "txnState", "commitTxn", "resetTxn"}

(* what an actor has queued or on record is what its transaction wrote, and  *)
(* a record is there once all replicas committed, the lock then gone.        *)
ActorsKnow ==
  \A r \in Replica :
    /\ staleCommit[r] = NoTime
    /\ queuedValue[r] # NoValue =>
         writeLock[r] \in Time /\ queuedValue[r] = Write[writeLock[r]]
    /\ \A t \in Time : HasRecord(r, t) =>
         AllCommit(t) /\ Holds(r, t) /\ writeLock[r] # t
    /\ \A i \in DOMAIN history[r] : history[r][i].time \in Time =>
         history[r][i].value = Write[history[r][i].time]

(* A value answered leaves the reader's mark, and is the serial one.         *)
SerialValue(t, v) ==
  /\ \E u \in Time : Newest(t, u) /\ v = Write[u]
  /\ \E r \in Replica : lastRead[r] >= t
ReadsSerial ==
  \A t \in Time :
    /\ seen[t] \in Value => SerialValue(t, seen[t])
    /\ owner[t].kind = "read" =>
         \A r \in Replica : owner[t].reply[r] \in Value => SerialValue(t, owner[t].reply[r])

IInv ==
  /\ MemInv /\ ReplicatorTypeOK
  /\ AnswersAreStates /\ ValuesFollow /\ LateIsFailed /\ OwnerHolds /\ AskedIsReady
  /\ CleanerKinds /\ ActorsKnow /\ ReadsSerial

-----------------------------------------------------------------------------
(* A call of transaction t that replica r has still to handle.               *)
Called(k, r, t) ==
  \/ owner[t].kind = k /\ owner[t].reply[r] = "waiting"
  \/ cleaner[t].kind = k /\ cleaner[t].reply[r] = "waiting"
  \/ [kind |-> k, txn |-> t, to |-> r] \in late

(* What the invariant says of a transaction from a call of it.               *)
LEMMA CalledMeans ==
  ASSUME IInv, NEW k, NEW r \in Replica, NEW t \in Time, Called(k, r, t)
  PROVE  /\ k = "commitTxn" => Asked(t)
         /\ k = "commitValue" => AllCommit(t) /\ Asked(t) /\ ~SomeReset(t)
         /\ k \in {"lock", "queue"} => ~Asked(t)
         /\ k = "resetValue" =>
              SomeReset(t) \/ (owner[t].kind \in {"resetTxn", "gone"} /\ ~Asked(t))
<1> DEFINE c == [kind |-> k, txn |-> t, to |-> r]
<1>1. c.kind = k /\ c.txn = t /\ c.to = r
  OBVIOUS
<1>2. /\ owner[t].kind \notin {"commitValue", "resetValue"}
      /\ cleaner[t].kind \notin {"commitValue", "resetValue", "lock", "queue"}
  BY DEF IInv, ReplicatorTypeOK, Step, Kind, Idle, CleanerKinds
<1>3. owner[t].kind \in {"lock", "queue"} => ~Asked(t)
  BY DEF IInv, AskedIsReady
<1> HIDE DEF c
<1>4. CASE c \in late
  <2>1. k = "commitTxn" => Asked(t)
    BY <1>1, <1>4 DEF Asked
  <2>2. k = "commitValue" => AllCommit(t) /\ Asked(t)
    BY <1>1, <1>4 DEF Asked, IInv, ValuesFollow
  <2>3. k \in {"lock", "queue"} => ~Asked(t)
    BY <1>1, <1>4 DEF IInv, LateIsFailed
  <2>4. k = "resetValue" =>
          SomeReset(t) \/ (owner[t].kind \in {"resetTxn", "gone"} /\ ~Asked(t))
    BY <1>1, <1>4 DEF IInv, ValuesFollow
  <2>5. AllCommit(t) => ~SomeReset(t)
    BY DEF AllCommit, SomeReset
  <2> QED BY <2>1, <2>2, <2>3, <2>4, <2>5
<1>5. CASE c \notin late
  <2>1. owner[t].kind = k \/ cleaner[t].kind = k
    BY <1>5 DEF Called, c
  <2>2. k = "commitTxn" => Asked(t)
    BY <2>1 DEF Asked
  <2> QED BY <1>2, <1>3, <2>1, <2>2
<1> QED BY <1>4, <1>5

(* Whatever is called of an actor, it is a handler of MemActor.              *)
LEMMA AtActorIsMemNext ==
  ASSUME NEW k, NEW r \in Replica, NEW t \in Time, NEW a, AtActor(k, r, t, a),
         Write \in [Time -> Result]
  PROVE  MemNext
<1>1. Write[t] \in Result /\ r \in Ptr
  BY DEF Replica
<1>2. \/ a \in Result /\ GetValue(r, t, a)
      \/ \E w \in Time : GetValueConflict(r, t, w)
      \/ LockGranted(r, t) \/ LockRedundant(r, t)
      \/ \E w \in Time : LockRefused(r, t, w)
      \/ QueueValue(r, t, Write[t]) \/ QueueRefused(r, t)
      \/ WriteCommit(r, t) \/ WriteReset(r, t) \/ LockMismatch(r, t)
  BY DEF AtActor
<1> QED BY <1>1, <1>2 DEF MemNext

LEMMA HandleKeepsMemInv ==
  ASSUME MemInv, NEW k, NEW r \in Replica, NEW t \in Time, NEW a, Handle(k, r, t, a)
  PROVE  MemInv'
<1>1. AtActor(k, r, t, a) \/ UNCHANGED memVars
  BY DEF Handle, AddLock, SetState
<1>2. CASE AtActor(k, r, t, a)
  <2>1. MemNext
    BY <1>2, AtActorIsMemNext, ReplicatorAssumption
  <2> QED BY <2>1, MemStep
<1> QED BY <1>1, <1>2, MemStutter

-----------------------------------------------------------------------------
(* What handling a call does to an actor, given what the invariant says of   *)
(* the call.                                                                 *)
Granting(k, r, t) ==
  /\ k = "lock" /\ writeLock[r] = NoTime /\ queuedValue[r] = NoValue
  /\ writeLock' = [writeLock EXCEPT ![r] = t]
  /\ UNCHANGED <<history, staleCommit, queuedValue>>
Queueing(k, r, t) ==
  /\ k = "queue" /\ writeLock[r] = t /\ queuedValue[r] = NoValue
  /\ queuedValue' = [queuedValue EXCEPT ![r] = Write[t]]
  /\ UNCHANGED <<history, writeLock, staleCommit>>
Installing(k, r, t) ==
  /\ k = "commitValue" /\ Ready(r, t)
  /\ history' = [history EXCEPT ![r] =
                   Append(Without(@, t), [time |-> t, value |-> Write[t]])]
  /\ writeLock' = [writeLock EXCEPT ![r] = NoTime]
  /\ queuedValue' = [queuedValue EXCEPT ![r] = NoValue]
  /\ UNCHANGED staleCommit
Dropping(k, r, t) ==
  /\ k = "resetValue" /\ writeLock[r] = t
  /\ writeLock' = [writeLock EXCEPT ![r] = NoTime]
  /\ queuedValue' = [queuedValue EXCEPT ![r] = NoValue]
  /\ UNCHANGED <<history, staleCommit>>
Looking == UNCHANGED <<history, writeLock, staleCommit, queuedValue>>

Effect(k, r, t) ==
  Looking \/ Granting(k, r, t) \/ Queueing(k, r, t) \/ Installing(k, r, t) \/ Dropping(k, r, t)

LEMMA HandleEffect ==
  ASSUME IInv, NEW k, NEW r \in Replica, NEW t \in Time, NEW a,
         Called(k, r, t), Handle(k, r, t, a)
  PROVE  /\ Effect(k, r, t)
         /\ k = "lock" /\ a = "yes" => writeLock'[r] = t
         /\ k = "queue" /\ a = "yes" => writeLock'[r] = t /\ queuedValue'[r] = Write[t]
<1> USE TypesAssumption, ReplicatorAssumption DEF Replica
<1>1. /\ staleCommit \in [Ptr -> OptTime] /\ staleCommit[r] = NoTime
      /\ writeLock \in [Ptr -> OptTime]
      /\ queuedValue \in [Ptr -> Value \cup {Null, NoValue}]
      /\ t # NoTime /\ Write[t] # NoValue
      /\ queuedValue[r] # NoValue => writeLock[r] \in Time /\ queuedValue[r] = Write[writeLock[r]]
  BY DEF IInv, MemInv, MemTypeOK, ActorsKnow, NoTime, Result
<1>2. [staleCommit EXCEPT ![r] = NoTime] = staleCommit
  BY <1>1
<1>3. CASE ~AtActor(k, r, t, a)
  <2>1. UNCHANGED memVars /\ k \notin {"lock", "queue"}
    BY <1>3 DEF Handle, AddLock, SetState
  <2> QED BY <2>1 DEF memVars, Effect, Looking
<1>4. CASE AtActor(k, r, t, a) /\ k = "read"
  BY <1>4 DEF AtActor, GetValue, GetValueConflict, memVars, Effect, Looking
<1>5. CASE AtActor(k, r, t, a) /\ k = "lock"
  <2>1. CASE LockGranted(r, t)
    <3>1. queuedValue[r] = NoValue
      BY <1>1, <2>1 DEF LockGranted, NoTime
    <3> QED BY <1>1, <1>5, <2>1, <3>1 DEF LockGranted, Effect, Granting
  <2>2. CASE LockRedundant(r, t)
    BY <1>5, <2>2 DEF LockRedundant, memVars, Effect, Looking
  <2>3. CASE a = "no" /\ \E w \in Time : LockRefused(r, t, w)
    BY <1>5, <2>3 DEF LockRefused, Effect, Looking
  <2> QED BY <1>5, <2>1, <2>2, <2>3 DEF AtActor
<1>6. CASE AtActor(k, r, t, a) /\ k = "queue"
  <2>1. CASE QueueValue(r, t, Write[t])
    <3>1. QueueNormally(r, t, Write[t])
      BY <1>1, <2>1 DEF QueueValue, QueueAfterCommit
    <3>2. writeLock[r] = t /\ queuedValue[r] = NoValue
      BY <1>1, <3>1 DEF QueueNormally, MayQueue
    <3>3. staleCommit' = staleCommit
      BY <1>2, <3>1 DEF QueueNormally
    <3> QED BY <1>1, <1>6, <3>1, <3>2, <3>3 DEF QueueNormally, Effect, Queueing
  <2>2. CASE a = "failed" /\ QueueRefused(r, t)
    BY <1>6, <2>2 DEF QueueRefused, Effect, Looking
  <2> QED BY <1>6, <2>1, <2>2 DEF AtActor
<1>7. CASE AtActor(k, r, t, a) /\ k = "commitValue"
  <2>1. CASE WriteCommit(r, t)
    <3>1. Asked(t) /\ ~SomeReset(t) /\ writeLock[r] = t
      BY <1>7, <2>1, CalledMeans DEF WriteCommit, CommitQueued, CommitEmpty, OwnsLock
    <3>2. ~Holds(r, t)
      BY <3>1 DEF IInv, ActorsKnow, Holds, HasRecord
    <3>3. Ready(r, t)
      BY <3>1, <3>2 DEF IInv, AskedIsReady
    <3>4. CommitQueued(r, t)
      BY <1>1, <2>1, <3>3 DEF WriteCommit, CommitEmpty, HasQueued, Ready
    <3> QED BY <1>2, <1>7, <3>3, <3>4 DEF CommitQueued, Effect, Installing, Ready
  <2>2. CASE LockMismatch(r, t)
    BY <1>7, <2>2 DEF LockMismatch, Effect, Looking
  <2> QED BY <1>7, <2>1, <2>2 DEF AtActor
<1>8. CASE AtActor(k, r, t, a) /\ k = "resetValue"
  <2>1. CASE WriteReset(r, t)
    BY <1>2, <1>8, <2>1 DEF WriteReset, OwnsLock, Effect, Dropping
  <2>2. CASE LockMismatch(r, t)
    BY <1>8, <2>2 DEF LockMismatch, Effect, Looking
  <2> QED BY <1>8, <2>1, <2>2 DEF AtActor
<1>9. AtActor(k, r, t, a) => k \in {"read", "lock", "queue", "commitValue", "resetValue"}
  BY DEF AtActor
<1> QED BY <1>3, <1>4, <1>5, <1>6, <1>7, <1>8, <1>9

-----------------------------------------------------------------------------
(* A call of t handled by replica r, whoever hears of its answer a.          *)
Hears(step, k, r, a, stepAfter) ==
  /\ stepAfter.kind = step.kind
  /\ \A q \in Replica :
       \/ stepAfter.reply[q] = step.reply[q]
       \/ q = r /\ step.kind = k /\ step.reply[r] = "waiting" /\ stepAfter.reply[r] = a
Delivered(k, r, t, a) ==
  /\ Called(k, r, t) /\ Handle(k, r, t, a)
  /\ owner' \in [Time -> Step] /\ cleaner' \in [Time -> Step]
  /\ Hears(owner[t], k, r, a, owner'[t]) /\ Hears(cleaner[t], k, r, a, cleaner'[t])
  /\ \A u \in Time \ {t} : owner'[u] = owner[u] /\ cleaner'[u] = cleaner[u]
  /\ late' \subseteq late
  /\ UNCHANGED <<seen, faults>>

(* A step of t in which the reply of r is filled in.                         *)
Filled(steps, t, r, a) == [steps EXCEPT ![t].reply[r] = a]
LEMMA ReplyFilled ==
  ASSUME NEW steps \in [Time -> Step], NEW t \in Time, NEW r \in Replica, NEW a \in Reply,
         NEW after, after = Filled(steps, t, r, a)
  PROVE  /\ after \in [Time -> Step]
         /\ after[t].kind = steps[t].kind
         /\ after[t].reply[r] = a
         /\ \A q \in Replica \ {r} : after[t].reply[q] = steps[t].reply[q]
         /\ \A u \in Time \ {t} : after[u] = steps[u]
<1> DEFINE filled == [steps[t].reply EXCEPT ![r] = a]
           s == [steps[t] EXCEPT !.reply = filled]
<1>1. steps[t] \in Step
  OBVIOUS
<1>2. steps[t].kind \in Kind \cup Idle /\ steps[t].reply \in [Replica -> Reply]
  BY <1>1 DEF Step
<1>3. filled \in [Replica -> Reply]
  BY <1>2
<1>4. s = [kind |-> steps[t].kind, reply |-> filled]
  <2> DEFINE e == steps[t]
  <2>1. e = [kind |-> e.kind, reply |-> e.reply]
    BY <1>1 DEF Step
  <2> HIDE DEF e, filled
  <2>2. [[kind |-> e.kind, reply |-> e.reply] EXCEPT !.reply = filled]
          = [kind |-> e.kind, reply |-> filled]
    OBVIOUS
  <2>3. [e EXCEPT !.reply = filled] = [kind |-> e.kind, reply |-> filled]
    BY <2>1, <2>2, Zenon
  <2> QED BY <2>3 DEF e
<1>5. s \in Step /\ s.kind = steps[t].kind /\ s.reply = filled
  BY <1>2, <1>3, <1>4 DEF Step
<1>6. after = [steps EXCEPT ![t] = s]
  BY DEF Filled
<1>7. filled[r] = a /\ \A q \in Replica \ {r} : filled[q] = steps[t].reply[q]
  BY <1>2
<1> HIDE DEF s, filled
<1>8. [steps EXCEPT ![t] = s] \in [Time -> Step]
  BY <1>5
<1>9. [steps EXCEPT ![t] = s][t] = s /\ \A u \in Time \ {t} : [steps EXCEPT ![t] = s][u] = steps[u]
  OBVIOUS
<1> QED BY <1>5, <1>6, <1>7, <1>8, <1>9

LEMMA OwnerHears ==
  ASSUME IInv, NEW t \in Time, NEW r \in Replica, DeliverToOwner(t, r)
  PROVE  \E a \in Reply : Delivered(owner[t].kind, r, t, a)
<1>1. PICK a \in Reply : Handle(owner[t].kind, r, t, a)
                         /\ owner' = Filled(owner, t, r, a)
  BY DEF DeliverToOwner, Filled
<1>2. owner[t].reply[r] = "waiting"
  BY DEF DeliverToOwner, Waiting
<1>3. owner \in [Time -> Step]
  BY DEF IInv, ReplicatorTypeOK
<1>4. /\ owner' \in [Time -> Step]
      /\ owner'[t].kind = owner[t].kind
      /\ owner'[t].reply[r] = a
      /\ \A q \in Replica \ {r} : owner'[t].reply[q] = owner[t].reply[q]
      /\ \A u \in Time \ {t} : owner'[u] = owner[u]
  BY <1>1, <1>3, ReplyFilled
<1>5. Hears(owner[t], owner[t].kind, r, a, owner'[t])
  BY <1>2, <1>4 DEF Hears
<1>6. Hears(cleaner[t], owner[t].kind, r, a, cleaner[t])
  BY DEF Hears
<1> QED BY <1>1, <1>2, <1>4, <1>5, <1>6 DEF Delivered, Called, DeliverToOwner, IInv, ReplicatorTypeOK

LEMMA CleanerHears ==
  ASSUME IInv, NEW t \in Time, NEW r \in Replica, DeliverToCleaner(t, r)
  PROVE  \E a \in Reply : Delivered(cleaner[t].kind, r, t, a)
<1>1. PICK a \in Reply : Handle(cleaner[t].kind, r, t, a)
                         /\ cleaner' = Filled(cleaner, t, r, a)
  BY DEF DeliverToCleaner, Filled
<1>2. cleaner[t].reply[r] = "waiting"
  BY DEF DeliverToCleaner, Waiting
<1>3. cleaner \in [Time -> Step]
  BY DEF IInv, ReplicatorTypeOK
<1>4. /\ cleaner' \in [Time -> Step]
      /\ cleaner'[t].kind = cleaner[t].kind
      /\ cleaner'[t].reply[r] = a
      /\ \A q \in Replica \ {r} : cleaner'[t].reply[q] = cleaner[t].reply[q]
      /\ \A u \in Time \ {t} : cleaner'[u] = cleaner[u]
  BY <1>1, <1>3, ReplyFilled
<1>5. Hears(cleaner[t], cleaner[t].kind, r, a, cleaner'[t])
  BY <1>2, <1>4 DEF Hears
<1>6. Hears(owner[t], cleaner[t].kind, r, a, owner[t])
  BY DEF Hears
<1> QED BY <1>1, <1>2, <1>4, <1>5, <1>6 DEF Delivered, Called, DeliverToCleaner, IInv, ReplicatorTypeOK

LEMMA NobodyHears ==
  ASSUME IInv, NEW c \in late, DeliverLate(c)
  PROVE  /\ c.txn \in Time /\ c.to \in Replica
         /\ \E a \in Reply : Delivered(c.kind, c.to, c.txn, a)
<1>1. c.txn \in Time /\ c.to \in Replica /\ c = [kind |-> c.kind, txn |-> c.txn, to |-> c.to]
  BY DEF IInv, ReplicatorTypeOK, Late
<1>2. PICK a \in Reply : Handle(c.kind, c.to, c.txn, a)
  BY DEF DeliverLate
<1>3. Called(c.kind, c.to, c.txn)
  BY <1>1 DEF Called
<1>4. Delivered(c.kind, c.to, c.txn, a)
  BY <1>1, <1>2, <1>3 DEF Delivered, DeliverLate, Hears, IInv, ReplicatorTypeOK
<1> QED BY <1>1, <1>4

-----------------------------------------------------------------------------
(* What an answer tells, and what no answer takes back.                      *)
Deciding(k, r, t) ==
  \A q \in Replica, u \in Time :
    \/ txnState'[q][u] = txnState[q][u]
    \/ /\ q = r /\ u = t /\ txnState[q][u] = "OPEN"
       /\ \/ k = "commitTxn" /\ txnState'[q][u] = "COMMIT"
          \/ k = "resetTxn" /\ txnState'[q][u] = "RESET"
Telling(k, r, t, a) ==
  /\ k = "commitTxn" /\ a \in {"yes", "no"} => txnState'[r][t] = "COMMIT"
  /\ k = "resetTxn" /\ a \in {"yes", "no"} => txnState'[r][t] = "RESET"
  /\ k \in {"addLock", "txnState"} => txnState'[r][t] = a

LEMMA HandleDecides ==
  ASSUME ReplicatorTypeOK, NEW k, NEW r \in Replica, NEW t \in Time, NEW a,
         Handle(k, r, t, a)
  PROVE  /\ txnState' \in [Replica -> [Time -> TxnState]]
         /\ txnLocks' \in [Replica -> SUBSET Time]
         /\ Deciding(k, r, t)
         /\ Telling(k, r, t, a)
<1> USE DEF ReplicatorTypeOK, TxnState, Deciding, Telling
<1>1. CASE AtActor(k, r, t, a)
  BY <1>1 DEF AtActor, deciders
<1>2. CASE k = "addLock" /\ AddLock(r, t, a)
  BY <1>2 DEF AddLock
<1>3. CASE k = "commitTxn" /\ SetState(r, t, "COMMIT", a)
  BY <1>3 DEF SetState, deciders
<1>4. CASE k = "resetTxn" /\ SetState(r, t, "RESET", a)
  BY <1>4 DEF SetState, deciders
<1>5. CASE k = "txnState" /\ a = txnState[r][t] /\ UNCHANGED <<memVars, deciders>>
  BY <1>5 DEF deciders
<1> QED BY <1>1, <1>2, <1>3, <1>4, <1>5 DEF Handle

LEMMA DeliveredKeeps ==
  ASSUME IInv, NEW k, NEW r \in Replica, NEW t \in Time, NEW a, Delivered(k, r, t, a)
  PROVE  /\ ReplicatorTypeOK'
         /\ \A u \in Time :
              /\ owner'[u].kind = owner[u].kind /\ cleaner'[u].kind = cleaner[u].kind
              /\ Asked(u)' => Asked(u)
              /\ AllCommit(u) => AllCommit(u)'
              /\ SomeReset(u) => SomeReset(u)'
         /\ AnswersAreStates'
<1>1. ReplicatorTypeOK
  BY DEF IInv
<1>2. Handle(k, r, t, a)
  BY DEF Delivered
<1>3. ReplicatorTypeOK'
  <2>1. MemTypeOK'
    BY <1>2, HandleKeepsMemInv DEF IInv, MemInv
  <2>2. /\ txnState' \in [Replica -> [Time -> TxnState]]
        /\ txnLocks' \in [Replica -> SUBSET Time]
    BY <1>1, <1>2, HandleDecides
  <2> QED BY <1>1, <2>1, <2>2 DEF Delivered, ReplicatorTypeOK
<1>4. \A u \in Time :
        owner'[u].kind = owner[u].kind /\ cleaner'[u].kind = cleaner[u].kind
  BY DEF Delivered, Hears
<1>5. \A q \in Replica, u \in Time :
        /\ txnState[q][u] # "OPEN" => txnState'[q][u] = txnState[q][u]
        /\ txnState'[q][u] = "COMMIT" => txnState[q][u] = "COMMIT" \/ (u = t /\ k = "commitTxn")
  <2>1. Deciding(k, r, t)
    BY <1>1, <1>2, HandleDecides
  <2> QED BY <2>1 DEF Deciding
<1>6. k = "commitTxn" => Asked(t)
  BY CalledMeans DEF Delivered
<1>7. ASSUME NEW u \in Time
      PROVE  /\ Asked(u)' => Asked(u)
             /\ AllCommit(u) => AllCommit(u)'
             /\ SomeReset(u) => SomeReset(u)'
  <2>1. Asked(u)' => Asked(u)
    BY <1>4, <1>5, <1>6 DEF Asked, Delivered
  <2>2. AllCommit(u) => AllCommit(u)'
    BY <1>5 DEF AllCommit
  <2>3. SomeReset(u) => SomeReset(u)'
    BY <1>5 DEF SomeReset
  <2> QED BY <2>1, <2>2, <2>3
<1>8. AnswersAreStates'
  <2>1. Telling(k, r, t, a)
    BY <1>1, <1>2, HandleDecides
  <2>2. ASSUME NEW before, NEW after, Hears(before, k, r, a, after), AnswerIsState(before, t)
        PROVE  \A q \in Replica :
    /\ after.kind = "commitTxn" /\ after.reply[q] \in {"yes", "no"} => txnState'[q][t] = "COMMIT"
    /\ after.kind = "resetTxn" /\ after.reply[q] \in {"yes", "no"} => txnState'[q][t] = "RESET"
    /\ after.kind \in {"addLock", "txnState"} /\ after.reply[q] \in {"COMMIT", "RESET"}
         => txnState'[q][t] = after.reply[q]
    <3>1. TAKE q \in Replica
    <3>2. CASE after.reply[q] = before.reply[q]
      BY <1>5, <2>2, <3>2 DEF Hears, AnswerIsState
    <3>3. CASE q = r /\ before.kind = k /\ after.reply[r] = a
      <4>1. after.kind = k
        BY <2>2, <3>3 DEF Hears
      <4> QED BY <2>1, <3>3, <4>1 DEF Telling
    <3> QED BY <2>2, <3>2, <3>3 DEF Hears
  <2>3. AnswerIsState(owner[t], t) /\ AnswerIsState(cleaner[t], t)
    BY DEF IInv, AnswersAreStates
  <2>4. AnswerIsState(owner[t], t)' /\ AnswerIsState(cleaner[t], t)'
    BY <2>2, <2>3 DEF Delivered, AnswerIsState
  <2>5. ASSUME NEW u \in Time, u # t
        PROVE  AnswerIsState(owner[u], u)' /\ AnswerIsState(cleaner[u], u)'
    <3>1. owner'[u] = owner[u] /\ cleaner'[u] = cleaner[u]
      BY <2>5 DEF Delivered
    <3>2. AnswerIsState(owner[u], u) /\ AnswerIsState(cleaner[u], u)
      BY DEF IInv, AnswersAreStates
    <3> QED BY <1>5, <3>1, <3>2 DEF AnswerIsState
  <2> QED BY <2>4, <2>5 DEF AnswersAreStates
<1> QED BY <1>3, <1>4, <1>7, <1>8

LEMMA DeliveredKeepsLate ==
  ASSUME IInv, NEW k, NEW r \in Replica, NEW t \in Time, NEW a, Delivered(k, r, t, a)
  PROVE  ValuesFollow' /\ LateIsFailed' /\ CleanerKinds'
<1>1. /\ \A c \in late' : c \in late /\ c.txn \in Time /\ c.to \in Replica
      /\ \A u \in Time :
              /\ owner'[u].kind = owner[u].kind /\ cleaner'[u].kind = cleaner[u].kind
              /\ Asked(u)' => Asked(u)
              /\ AllCommit(u) => AllCommit(u)'
              /\ SomeReset(u) => SomeReset(u)'
  BY DeliveredKeeps DEF Delivered, IInv, ReplicatorTypeOK, Late
<1>2. ValuesFollow'
  BY <1>1 DEF IInv, ValuesFollow
<1>3. \A u \in Time, q \in Replica : owner[u].reply[q] = "failed" => owner'[u].reply[q] = "failed"
  BY DEF Delivered, Hears
<1>4. LateIsFailed'
  BY <1>1, <1>3 DEF IInv, LateIsFailed
<1>5. CleanerKinds'
  BY <1>1 DEF IInv, CleanerKinds
<1> QED BY <1>2, <1>4, <1>5

(* What a transaction has, it keeps until its decision.                      *)
Undecided(t) == owner[t].kind \in {"lock", "addLock", "queue"}

(* Only the values of its own transaction take a lock away, and they follow  *)
(* a decision.                                                               *)
LEMMA LockKept ==
  ASSUME IInv, NEW k, NEW r \in Replica, NEW t \in Time, NEW a, Delivered(k, r, t, a),
         NEW q \in Replica, NEW u \in Time, writeLock[q] = u, writeLock'[q] # u
  PROVE  /\ q = r /\ u = t /\ (Installing(k, r, t) \/ Dropping(k, r, t))
         /\ SomeReset(u) \/ ~Undecided(u)
<1> USE TypesAssumption, ReplicatorAssumption
<1>1. /\ writeLock \in [Replica -> OptTime] /\ u # NoTime
      /\ queuedValue \in [Replica -> Value \cup {Null, NoValue}]
  BY DEF IInv, MemInv, MemTypeOK, Replica, NoTime
<1>2. Effect(k, r, t)
  BY HandleEffect DEF Delivered
<1>3. q = r /\ u = t /\ (Installing(k, r, t) \/ Dropping(k, r, t))
  <2>1. CASE Looking
    BY <2>1 DEF Looking
  <2>2. CASE Granting(k, r, t)
    BY <1>1, <2>2 DEF Granting
  <2>3. CASE Queueing(k, r, t)
    BY <2>3 DEF Queueing
  <2>4. CASE Installing(k, r, t)
    BY <1>1, <2>4 DEF Installing, Ready
  <2>5. CASE Dropping(k, r, t)
    BY <1>1, <2>5 DEF Dropping
  <2> QED BY <1>2, <2>1, <2>2, <2>3, <2>4, <2>5 DEF Effect
<1>4. k = "commitValue" \/ k = "resetValue"
  BY <1>3 DEF Installing, Dropping
<1>5. SomeReset(t) \/ Asked(t) \/ owner[t].kind \in {"resetTxn", "gone"}
  BY <1>4, CalledMeans DEF Delivered
<1>6. Asked(t) => ~Undecided(t)
  BY DEF IInv, AskedIsReady, Undecided
<1> QED BY <1>3, <1>5, <1>6 DEF Undecided

(* Nor does anything else take its queued value.                             *)
LEMMA ValueKept ==
  ASSUME IInv, NEW k, NEW r \in Replica, NEW t \in Time, NEW a, Delivered(k, r, t, a),
         NEW q \in Replica, NEW u \in Time, writeLock[q] = u, queuedValue[q] = Write[u],
         writeLock'[q] = u
  PROVE  queuedValue'[q] = Write[u]
<1> USE TypesAssumption, ReplicatorAssumption
<1>1. /\ writeLock \in [Replica -> OptTime] /\ u # NoTime /\ Write[u] # NoValue
      /\ queuedValue \in [Replica -> Value \cup {Null, NoValue}]
  BY DEF IInv, MemInv, MemTypeOK, Replica, NoTime, Result
<1>2. Effect(k, r, t)
  BY HandleEffect DEF Delivered
<1>3. CASE Looking
  BY <1>3 DEF Looking
<1>4. CASE Granting(k, r, t)
  BY <1>1, <1>4 DEF Granting
<1>5. CASE Queueing(k, r, t)
  BY <1>1, <1>5 DEF Queueing
<1>6. CASE Installing(k, r, t)
  BY <1>1, <1>6 DEF Installing
<1>7. CASE Dropping(k, r, t)
  BY <1>1, <1>7 DEF Dropping
<1> QED BY <1>2, <1>3, <1>4, <1>5, <1>6, <1>7 DEF Effect

LEMMA DeliveredKeepsOwner ==
  ASSUME IInv, NEW k, NEW r \in Replica, NEW t \in Time, NEW a, Delivered(k, r, t, a)
  PROVE  OwnerHolds'
<1>1. SUFFICES ASSUME NEW u \in Time, NEW q \in Replica, ~SomeReset(u)'
               PROVE  /\ owner'[u].kind = "lock" /\ owner'[u].reply[q] = "yes"
                           => writeLock'[q] = u
                      /\ owner'[u].kind \in {"addLock", "queue"} => writeLock'[q] = u
                      /\ owner'[u].kind = "queue" /\ owner'[u].reply[q] = "yes"
                           => queuedValue'[q] = Write[u]
  BY DEF OwnerHolds
<1>2. owner'[u].kind = owner[u].kind /\ ~SomeReset(u)
  BY <1>1, DeliveredKeeps
<1>3. /\ owner[u].kind = "lock" /\ owner[u].reply[q] = "yes" => writeLock[q] = u
      /\ owner[u].kind \in {"addLock", "queue"} => writeLock[q] = u
      /\ owner[u].kind = "queue" /\ owner[u].reply[q] = "yes" => queuedValue[q] = Write[u]
  BY <1>2 DEF IInv, OwnerHolds
<1>4. Undecided(u) /\ writeLock[q] = u => writeLock'[q] = u
  BY <1>2, LockKept
<1>5. \/ owner'[u].reply[q] = owner[u].reply[q]
      \/ q = r /\ u = t /\ owner[u].kind = k /\ owner'[u].reply[q] = a
  BY DEF Delivered, Hears
<1>6. /\ k = "lock" /\ a = "yes" => writeLock'[r] = t
      /\ k = "queue" /\ a = "yes" => queuedValue'[r] = Write[t]
  BY HandleEffect DEF Delivered
<1>7. owner'[u].kind = "lock" /\ owner'[u].reply[q] = "yes" => writeLock'[q] = u
  BY <1>2, <1>3, <1>4, <1>5, <1>6 DEF Undecided
<1>8. owner'[u].kind \in {"addLock", "queue"} => writeLock'[q] = u
  BY <1>2, <1>3, <1>4 DEF Undecided
<1>9. owner'[u].kind = "queue" /\ owner'[u].reply[q] = "yes" => queuedValue'[q] = Write[u]
  BY <1>2, <1>3, <1>5, <1>6, <1>8, ValueKept
<1> QED BY <1>7, <1>8, <1>9

-----------------------------------------------------------------------------
(* Histories only grow, and by what a transaction wrote.                     *)
LEMMA InstalledAtTheEnd ==
  ASSUME IInv, NEW k, NEW r \in Replica, NEW t \in Time, Installing(k, r, t)
  PROVE  LET n == Len(history[r])
         IN  /\ n \in Nat /\ DOMAIN history[r] = 1..n /\ DOMAIN history'[r] = 1..(n + 1)
             /\ \A i \in 1..n : history'[r][i] = history[r][i]
             /\ history'[r][n + 1] = [time |-> t, value |-> Write[t]]
             /\ \A q \in Replica \ {r} : history'[q] = history[q]
<1> DEFINE g == Without(history[r], t)
           e == [time |-> t, value |-> Write[t]]
<1> USE ReplicatorAssumption
<1>1. history \in [Replica -> Seq(Record)]
  BY DEF IInv, MemInv, MemTypeOK, Replica
<1>2. history[r] \in Seq(Record)
  BY <1>1
<1>3. /\ g \in Seq(Record) /\ Len(g) = Len(history[r]) /\ Len(g) \in Nat
      /\ DOMAIN history[r] = 1..Len(history[r])
      /\ \A i \in 1..Len(history[r]) :
           g[i] = IF history[r][i].time = t THEN Removed ELSE history[r][i]
  BY <1>2, WithoutType, AppendType
<1>4. \A i \in 1..Len(history[r]) : history[r][i].time # t
  BY <1>3 DEF IInv, ActorsKnow, HasRecord, Installing, Ready
<1>5. e \in Record
  BY DEF Record, OptTime
<1> HIDE DEF g, e
<1>6. history' = [history EXCEPT ![r] = Append(g, e)]
  BY DEF Installing, g, e
<1>7. history'[r] = Append(g, e) /\ \A q \in Replica \ {r} : history'[q] = history[q]
  BY <1>1, <1>6
<1>8. /\ DOMAIN Append(g, e) = 1..(Len(g) + 1)
      /\ \A i \in 1..Len(g) : Append(g, e)[i] = g[i]
      /\ Append(g, e)[Len(g) + 1] = e
  BY <1>3, <1>5, AppendType
<1> QED BY <1>3, <1>4, <1>7, <1>8 DEF e

NewRecord(q, u, k, r, t) == q = r /\ u = t /\ Installing(k, r, t)
LEMMA RecordsAfter ==
  ASSUME IInv, NEW k, NEW r \in Replica, NEW t \in Time, NEW a, Delivered(k, r, t, a),
         NEW q \in Replica
  PROVE  /\ \A u \in Time :
              /\ HasRecord(q, u) => HasRecord(q, u)'
              /\ HasRecord(q, u)' => HasRecord(q, u) \/ NewRecord(q, u, k, r, t)
              /\ Holds(q, u) => Holds(q, u)'
              /\ NewRecord(q, u, k, r, t) => Holds(q, u)'
         /\ \A i \in DOMAIN history'[q] : history'[q][i].time \in Time =>
              history'[q][i].value = Write[history'[q][i].time]
<1>1. \A i \in DOMAIN history[q] : history[q][i].time \in Time =>
        history[q][i].value = Write[history[q][i].time]
  BY DEF IInv, ActorsKnow
<1>2. CASE Installing(k, r, t) /\ q = r
  <2> DEFINE n == Len(history[r])
             e == [time |-> t, value |-> Write[t]]
  <2>1. /\ n \in Nat /\ DOMAIN history[r] = 1..n /\ DOMAIN history'[r] = 1..(n + 1)
        /\ \A i \in 1..n : history'[r][i] = history[r][i]
        /\ history'[r][n + 1] = e
    BY <1>2, InstalledAtTheEnd
  <2> HIDE DEF n
  <2>2. \A u \in Time : HasRecord(q, u) => HasRecord(q, u)'
    BY <1>2, <2>1 DEF HasRecord
  <2>3. \A u \in Time : HasRecord(q, u)' => HasRecord(q, u) \/ NewRecord(q, u, k, r, t)
    BY <1>2, <2>1 DEF HasRecord, NewRecord
  <2>4. \A u \in Time : Holds(q, u) => Holds(q, u)'
    BY <1>2, <2>1 DEF Holds
  <2>5. \A u \in Time : NewRecord(q, u, k, r, t) => Holds(q, u)'
    <3>1. n + 1 \in DOMAIN history'[r]
      BY <2>1
    <3> QED BY <2>1, <3>1 DEF Holds, NewRecord
  <2>6. \A i \in DOMAIN history'[q] : history'[q][i].time \in Time =>
              history'[q][i].value = Write[history'[q][i].time]
    BY <1>1, <1>2, <2>1
  <2> QED BY <2>2, <2>3, <2>4, <2>5, <2>6
<1>3. CASE ~(Installing(k, r, t) /\ q = r)
  <2>1. Effect(k, r, t)
    BY HandleEffect DEF Delivered
  <2>2. CASE Installing(k, r, t)
    <3>1. history'[q] = history[q]
      BY <1>3, <2>2, InstalledAtTheEnd
    <3> QED BY <1>1, <1>3, <3>1 DEF HasRecord, Holds, NewRecord
  <2>3. CASE ~Installing(k, r, t)
    <3>1. history' = history
      BY <2>1, <2>3 DEF Effect, Looking, Granting, Queueing, Dropping
    <3> QED BY <1>1, <1>3, <3>1 DEF HasRecord, Holds, NewRecord
  <2> QED BY <2>2, <2>3
<1> QED BY <1>2, <1>3

LEMMA DeliveredKeepsReady ==
  ASSUME IInv, NEW k, NEW r \in Replica, NEW t \in Time, NEW a, Delivered(k, r, t, a)
  PROVE  AskedIsReady'
<1>1. SUFFICES ASSUME NEW u \in Time, Asked(u)', ~SomeReset(u)', NEW q \in Replica
               PROVE  Ready(q, u)' \/ Holds(q, u)'
  <2>1. \A u \in Time : Asked(u)' => owner'[u].kind \in {"commitTxn", "resetTxn", "gone"}
    BY DeliveredKeeps DEF IInv, AskedIsReady
  <2> QED BY <2>1 DEF AskedIsReady
<1>2. Asked(u) /\ ~SomeReset(u)
  BY <1>1, DeliveredKeeps
<1>3. Ready(q, u) \/ Holds(q, u)
  BY <1>2 DEF IInv, AskedIsReady
<1>4. CASE Holds(q, u)
  BY <1>4, RecordsAfter
<1>5. CASE Ready(q, u) /\ writeLock'[q] = u
  BY <1>5, ValueKept DEF Ready
<1>6. CASE Ready(q, u) /\ writeLock'[q] # u
  <2>1. q = r /\ u = t /\ (Installing(k, r, t) \/ Dropping(k, r, t))
    BY <1>6, LockKept DEF Ready
  <2>2. ~Dropping(k, r, t)
    BY <1>2, <2>1, CalledMeans DEF Dropping, Delivered
  <2>3. NewRecord(q, u, k, r, t)
    BY <2>1, <2>2 DEF NewRecord
  <2> QED BY <2>3, RecordsAfter
<1> QED BY <1>3, <1>4, <1>5, <1>6

LEMMA DeliveredKeepsActors ==
  ASSUME IInv, NEW k, NEW r \in Replica, NEW t \in Time, NEW a, Delivered(k, r, t, a)
  PROVE  ActorsKnow'
<1> USE TypesAssumption, ReplicatorAssumption
<1>1. /\ writeLock \in [Replica -> OptTime] /\ t # NoTime /\ Write[t] # NoValue
      /\ queuedValue \in [Replica -> Value \cup {Null, NoValue}]
  BY DEF IInv, MemInv, MemTypeOK, Replica, NoTime, Result
<1>2. Effect(k, r, t)
  BY HandleEffect DEF Delivered
<1>3. SUFFICES ASSUME NEW q \in Replica
               PROVE  /\ staleCommit'[q] = NoTime
                      /\ queuedValue'[q] # NoValue =>
                           writeLock'[q] \in Time /\ queuedValue'[q] = Write[writeLock'[q]]
                      /\ \A u \in Time : HasRecord(q, u)' =>
                           AllCommit(u)' /\ Holds(q, u)' /\ writeLock'[q] # u
                      /\ \A i \in DOMAIN history'[q] : history'[q][i].time \in Time =>
                           history'[q][i].value = Write[history'[q][i].time]
  BY DEF ActorsKnow
<1>4. /\ staleCommit[q] = NoTime
      /\ queuedValue[q] # NoValue =>
           writeLock[q] \in Time /\ queuedValue[q] = Write[writeLock[q]]
      /\ \A u \in Time : HasRecord(q, u) => AllCommit(u) /\ Holds(q, u) /\ writeLock[q] # u
  BY DEF IInv, ActorsKnow
<1>5. staleCommit'[q] = NoTime
  BY <1>2, <1>4 DEF Effect, Looking, Granting, Queueing, Installing, Dropping
<1>6. queuedValue'[q] # NoValue =>
        writeLock'[q] \in Time /\ queuedValue'[q] = Write[writeLock'[q]]
  <2>1. CASE Looking
    BY <1>4, <2>1 DEF Looking
  <2>2. CASE Granting(k, r, t)
    BY <1>1, <1>4, <2>2 DEF Granting
  <2>3. CASE Queueing(k, r, t)
    BY <1>1, <1>4, <2>3 DEF Queueing
  <2>4. CASE Installing(k, r, t)
    BY <1>1, <1>4, <2>4 DEF Installing
  <2>5. CASE Dropping(k, r, t)
    BY <1>1, <1>4, <2>5 DEF Dropping
  <2> QED BY <1>2, <2>1, <2>2, <2>3, <2>4, <2>5 DEF Effect
<1>7. ASSUME NEW u \in Time, HasRecord(q, u)'
      PROVE  AllCommit(u)' /\ Holds(q, u)' /\ writeLock'[q] # u
  <2>1. CASE NewRecord(q, u, k, r, t)
    <3>1. Holds(q, u)'
      BY <2>1, RecordsAfter
    <3>2. writeLock'[q] = NoTime
      BY <1>1, <2>1 DEF NewRecord, Installing
    <3>3. AllCommit(u)
      BY <2>1, CalledMeans DEF NewRecord, Installing, Delivered
    <3> QED BY <1>1, <2>1, <3>1, <3>2, <3>3, DeliveredKeeps DEF NewRecord
  <2>2. CASE HasRecord(q, u)
    <3>1. AllCommit(u) /\ Holds(q, u) /\ writeLock[q] # u
      BY <1>4, <2>2
    <3>2. AllCommit(u)' /\ Holds(q, u)'
      BY <3>1, DeliveredKeeps, RecordsAfter
    <3>3. ASSUME Granting(k, r, t), q = r, u = t
          PROVE  FALSE
      <4>1. Asked(t) /\ AllCommit(t)
        BY <3>1, <3>3, ReplicatorAssumption DEF Asked, AllCommit
      <4>2. ~Asked(t)
        BY <3>3, CalledMeans DEF Granting, Delivered
      <4> QED BY <4>1, <4>2
    <3>4. writeLock'[q] # u
      BY <1>1, <1>2, <3>1, <3>3 DEF Effect, Looking, Granting, Queueing, Installing, Dropping, NoTime
    <3> QED BY <3>2, <3>4
  <2> QED BY <1>7, <2>1, <2>2, RecordsAfter
<1>8. \A i \in DOMAIN history'[q] : history'[q][i].time \in Time =>
        history'[q][i].value = Write[history'[q][i].time]
  BY RecordsAfter
<1> QED BY <1>5, <1>6, <1>7, <1>8

-----------------------------------------------------------------------------
(* Reads.                                                                    *)

(* Read marks never go down.                                                 *)
LEMMA MarksRise ==
  ASSUME MemTypeOK, NEW k, NEW r \in Replica, NEW t \in Time, NEW a, Handle(k, r, t, a),
         NEW q \in Replica
  PROVE  lastRead'[q] \in Nat /\ lastRead[q] \in Nat /\ lastRead'[q] >= lastRead[q]
<1> USE TypesAssumption DEF Replica
<1>1. /\ lastRead \in [Ptr -> OptTime] /\ lastRead[q] \in Nat /\ lastRead[r] \in Nat /\ t \in Nat
      /\ r \in Ptr /\ q \in Ptr
  <2>1. lastRead \in [Ptr -> OptTime] /\ r \in Ptr /\ q \in Ptr
    BY DEF MemTypeOK
  <2>2. OptTime \subseteq Nat /\ t \in Nat
    BY DEF OptTime, NoTime
  <2> QED BY <2>1, <2>2
<1>2. /\ LastRead(r, t) \in Nat /\ LastRead(r, t) >= lastRead[r]
  BY <1>1 DEF LastRead, NoTime
<1>3. CASE UNCHANGED lastRead
  BY <1>1, <1>3
<1>4. CASE Touch(r, t)
  BY <1>1, <1>2, <1>4 DEF Touch
<1>5. CASE \E v : GetValue(r, t, v)
  <2>1. lastRead' = [lastRead EXCEPT ![r] = IF LastRead(r, t) > t THEN LastRead(r, t) ELSE t]
    BY <1>5 DEF GetValue
  <2> QED BY <1>1, <1>2, <2>1
<1>6. UNCHANGED lastRead \/ Touch(r, t) \/ \E v : GetValue(r, t, v)
  <2>1. CASE AtActor(k, r, t, a)
    BY <2>1 DEF AtActor, GetValueConflict, memVars, LockGranted, LockRedundant, LockRefused,
       QueueValue, QueueNormally, QueueAfterCommit, QueueRefused, WriteCommit, CommitQueued,
       CommitEmpty, WriteReset, LockMismatch
  <2>2. CASE ~AtActor(k, r, t, a)
    BY <2>2 DEF Handle, AddLock, SetState, memVars
  <2> QED BY <2>1, <2>2
<1> QED BY <1>3, <1>4, <1>5, <1>6

(* A write that a replica installs was on record or, everywhere, still under *)
(* its lock: no newer transaction read before it.                            *)
LEMMA SerialStays ==
  ASSUME IInv, NEW k, NEW r \in Replica, NEW t \in Time, NEW a, Delivered(k, r, t, a),
         NEW u \in Time, NEW v, SerialValue(u, v)
  PROVE  SerialValue(u, v)'
<1>1. PICK w \in Time : Newest(u, w) /\ v = Write[w]
  BY DEF SerialValue
<1>2. PICK q \in Replica : lastRead[q] >= u
  BY DEF SerialValue
<1>3. lastRead'[q] >= u
  <2>1. lastRead'[q] \in Nat /\ lastRead[q] \in Nat /\ lastRead'[q] >= lastRead[q] /\ u \in Nat
    BY MarksRise, TypesAssumption DEF IInv, MemInv, Delivered
  <2> QED BY <1>2, <2>1
<1>4. w \in Recorded'
  BY <1>1, RecordsAfter DEF Newest, Recorded
<1>5. ASSUME NEW x \in Recorded', x < u
      PROVE  x <= w
  <2>1. x \in Time
    BY DEF Recorded
  <2>2. CASE x \in Recorded
    BY <1>1, <1>5, <2>1, <2>2 DEF Newest
  <2>3. CASE x \notin Recorded
    <3>1. PICK p \in Replica : HasRecord(p, x)'
      BY DEF Recorded
    <3>2. ~HasRecord(p, x) /\ \A o \in Replica : ~HasRecord(o, x)
      BY <2>1, <2>3 DEF Recorded
    <3>3. x = t /\ Installing(k, r, t)
      BY <2>1, <3>1, <3>2, RecordsAfter DEF NewRecord
    <3>4. Asked(x) /\ ~SomeReset(x)
      BY <3>3, CalledMeans DEF Installing, Delivered
    <3>5. ~Holds(q, x)
      BY <3>2 DEF Holds, HasRecord
    <3>6. writeLock[q] = x
      BY <2>1, <3>4, <3>5 DEF IInv, AskedIsReady, Ready
    <3>7. lastRead[q] \in 1..x
      BY <2>1, <3>6, TypesAssumption DEF IInv, MemInv, LockAboveReads, Replica, NoTime
    <3> QED BY <1>2, <1>5, <2>1, <3>7, TypesAssumption
  <2> QED BY <2>2, <2>3
<1> QED BY <1>1, <1>3, <1>4, <1>5 DEF SerialValue, Newest

(* The value an actor answers is the newest before the reader of them all.   *)
LEMMA AnswerIsSerial ==
  ASSUME IInv, NEW r \in Replica, NEW t \in Time, NEW a \in Value,
         Delivered("read", r, t, a), owner[t].kind = "read"
  PROVE  SerialValue(t, a)'
<1> USE TypesAssumption DEF Replica
<1>1. GetValue(r, t, a) /\ UNCHANGED history
  <2>1. Handle("read", r, t, a) /\ a # "failed"
    BY ReplicatorAssumption DEF Delivered, Result
  <2>2. AtActor("read", r, t, a)
    BY <2>1 DEF Handle
  <2> QED BY <2>1, <2>2 DEF AtActor, GetValue
<1>2. /\ \A p \in Ptr : lastRead[p] \in Nat /\ history[p] \in Seq(Record)
      /\ \A x \in Time : x \in Nat /\ x # NoTime
      /\ lastRead \in [Ptr -> OptTime]
  <2>1. lastRead \in [Ptr -> OptTime] /\ history \in [Ptr -> Seq(Record)]
    BY DEF IInv, MemInv, MemTypeOK
  <2>2. OptTime \subseteq Nat /\ \A x \in Time : x \in Nat /\ x # NoTime
    BY DEF OptTime, NoTime
  <2> QED BY <2>1, <2>2
<1>3. ~Asked(t)
  BY DEF IInv, AskedIsReady
<1>4. \A x \in Recorded : x \in Time /\ AllCommit(x) /\ Asked(x) /\ ~SomeReset(x)
  <2>1. \A x \in Recorded : x \in Time /\ AllCommit(x)
    BY DEF IInv, ActorsKnow, Recorded
  <2> QED BY <2>1, ReplicatorAssumption DEF AllCommit, Asked, SomeReset
<1>5. PICK i \in Visible(r, t) : /\ \A j \in Visible(r, t) : j <= i
                                 /\ a = history[r][i].value
  <2>1. a # Null
    OBVIOUS
  <2> QED BY <1>1, <2>1 DEF GetValue, SnapshotValue
<1>6. PICK w \in Time : i \in DOMAIN history[r] /\ w = history[r][i].time /\ w \in 1..t
  <2>1. i \in DOMAIN history[r] /\ history[r][i].time \in 1..t
    BY DEF Visible
  <2>2. history[r][i] \in Record
    BY <1>2, <2>1, AppendType
  <2> QED BY <1>2, <2>1, <2>2 DEF Record, OptTime, NoTime
<1>7. a = Write[w]
  BY <1>5, <1>6 DEF IInv, ActorsKnow
<1>8. HasRecord(r, w) /\ w \in Recorded
  BY <1>6 DEF HasRecord, Recorded
<1>9. w < t
  BY <1>2, <1>3, <1>4, <1>6, <1>8
<1>10. ASSUME NEW x \in Recorded, x < t
       PROVE  x <= w
  <2>1. x \in Time /\ (Ready(r, x) \/ Holds(r, x))
    BY <1>4 DEF IInv, AskedIsReady
  <2>2. ~Ready(r, x)
    <3>1. SUFFICES ASSUME writeLock[r] = x PROVE FALSE
      BY DEF Ready
    <3>2. lastRead[r] \in 1..x /\ LockedBefore(r, t)
      BY <1>2, <1>10, <2>1, <3>1 DEF IInv, MemInv, LockAboveReads, LockedBefore
    <3>3. LastRead(r, t) = lastRead[r]
      BY <3>2 DEF LastRead, NoTime
    <3> QED BY <1>1, <1>2, <1>10, <2>1, <3>2, <3>3 DEF GetValue
  <2>3. PICK j \in DOMAIN history[r] : history[r][j].time = x
    BY <2>1, <2>2 DEF Holds
  <2>4. DOMAIN history[r] = 1..Len(history[r]) /\ Len(history[r]) \in Nat
    BY <1>2, AppendType
  <2>5. j \in Visible(r, t)
    BY <1>2, <1>10, <2>1, <2>3 DEF Visible, NoTime
  <2>6. j <= i /\ j \in Int /\ i \in Int
    BY <1>5, <1>6, <2>4, <2>5
  <2>7. history[r][i].time = w /\ w # NoTime /\ x # NoTime
    BY <1>2, <1>6, <2>1
  <2>8. CASE j = i
    BY <1>2, <1>6, <2>3, <2>7, <2>8
  <2>9. CASE j < i
    BY <1>6, <2>3, <2>7, <2>9 DEF IInv, MemInv, HistorySorted
  <2> QED BY <2>6, <2>8, <2>9
<1>11. Newest(t, w)
  BY <1>8, <1>9, <1>10 DEF Newest
<1>12. Newest(t, w)'
  <2>1. Recorded' = Recorded
    BY <1>1 DEF Recorded, HasRecord
  <2> QED BY <1>11, <2>1 DEF Newest
<1>13. lastRead'[r] >= t
  <2>1. lastRead' = [lastRead EXCEPT ![r] = IF LastRead(r, t) > t THEN LastRead(r, t) ELSE t]
    BY <1>1 DEF GetValue
  <2>2. LastRead(r, t) \in Nat
    BY <1>2 DEF LastRead
  <2> QED BY <1>2, <2>1, <2>2
<1> QED BY <1>6, <1>7, <1>12, <1>13 DEF SerialValue

LEMMA DeliveredKeepsReads ==
  ASSUME IInv, NEW k, NEW r \in Replica, NEW t \in Time, NEW a, Delivered(k, r, t, a)
  PROVE  ReadsSerial'
<1>1. ASSUME NEW u \in Time, seen'[u] \in Value
      PROVE  SerialValue(u, seen[u])'
  BY <1>1, SerialStays DEF Delivered, IInv, ReadsSerial
<1>2. ASSUME NEW u \in Time, owner'[u].kind = "read", NEW q \in Replica,
             owner'[u].reply[q] \in Value
      PROVE  SerialValue(u, owner[u].reply[q])'
  <2>1. owner[u].kind = "read"
    BY <1>2, DeliveredKeeps
  <2>2. CASE owner'[u].reply[q] = owner[u].reply[q]
    BY <1>2, <2>1, <2>2, SerialStays DEF IInv, ReadsSerial
  <2>3. CASE q = r /\ u = t /\ owner[u].kind = k /\ owner'[u].reply[q] = a
    BY <1>2, <2>1, <2>3, AnswerIsSerial
  <2> QED BY <2>2, <2>3 DEF Delivered, Hears
<1> QED BY <1>1, <1>2 DEF ReadsSerial

LEMMA DeliveredStep ==
  ASSUME IInv, NEW k, NEW r \in Replica, NEW t \in Time, NEW a, Delivered(k, r, t, a)
  PROVE  IInv'
<1>1. MemInv'
  BY HandleKeepsMemInv DEF IInv, Delivered
<1> QED BY <1>1, DeliveredKeeps, DeliveredKeepsLate, DeliveredKeepsOwner, DeliveredKeepsReady,
           DeliveredKeepsActors, DeliveredKeepsReads DEF IInv

-----------------------------------------------------------------------------
(* Steps that leave the actors alone.                                        *)
ActorsStill == UNCHANGED <<memVars, deciders>>

LEMMA StillActors ==
  ASSUME IInv, ActorsStill
  PROVE  /\ MemInv' /\ ActorsKnow'
         /\ \A t \in Time : (AllCommit(t)' <=> AllCommit(t)) /\ (SomeReset(t)' <=> SomeReset(t))
         /\ \A t \in Time, r \in Replica :
              (Ready(r, t)' <=> Ready(r, t)) /\ (Holds(r, t)' <=> Holds(r, t))
<1>1. MemInv'
  BY MemStutter DEF IInv, ActorsStill
<1>2. \A t \in Time : (AllCommit(t)' <=> AllCommit(t)) /\ (SomeReset(t)' <=> SomeReset(t))
  BY DEF ActorsStill, deciders, AllCommit, SomeReset
<1>3. \A t \in Time, r \in Replica :
        (Ready(r, t)' <=> Ready(r, t)) /\ (Holds(r, t)' <=> Holds(r, t))
  BY DEF ActorsStill, memVars, Ready, Holds
<1>4. \A t \in Time, r \in Replica : HasRecord(r, t)' <=> HasRecord(r, t)
  BY DEF ActorsStill, memVars, HasRecord
<1>5. ActorsKnow
  BY DEF IInv
<1>6. UNCHANGED <<history, writeLock, staleCommit, queuedValue>>
  BY DEF ActorsStill, memVars
<1>7. ActorsKnow'
  BY <1>2, <1>3, <1>4, <1>5, <1>6 DEF ActorsKnow
<1> QED BY <1>1, <1>2, <1>3, <1>7

LEMMA StillSerial ==
  ASSUME ActorsStill, NEW t, NEW v, SerialValue(t, v)
  PROVE  SerialValue(t, v)'
<1>1. UNCHANGED <<history, lastRead>>
  BY DEF ActorsStill, memVars
<1>2. Recorded' = Recorded
  BY <1>1 DEF Recorded, HasRecord
<1> QED BY <1>1, <1>2 DEF SerialValue, Newest

(* A fresh step waits for all replicas.                                      *)
LEMMA AskIsStep ==
  ASSUME NEW k \in Kind \cup Idle
  PROVE  /\ Ask(k) \in Step /\ Ask(k).kind = k
         /\ \A r \in Replica : Ask(k).reply[r] = "waiting"
<1>1. [r \in Replica |-> "waiting"] \in [Replica -> Reply]
  BY DEF Reply
<1> QED BY <1>1 DEF Ask, Step

(* What a client leaves behind, and what it calls.                           *)
LEMMA LeftAndCalled ==
  ASSUME NEW t \in Time, NEW step \in Step, NEW calls \in SUBSET Late,
         NEW c \in Rest(t, step) \cup calls, c \notin calls
  PROVE  /\ c \in Late /\ c.txn = t /\ c.kind = step.kind /\ c.kind \in Kind
         /\ c.to \in Replica /\ step.reply[c.to] = "waiting"
<1>1. PICK r \in Waiting(step) : c = [kind |-> step.kind, txn |-> t, to |-> r]
  BY DEF Rest
<1>2. r \in Replica /\ step.kind \in Kind /\ step.reply[r] = "waiting"
  BY DEF Waiting
<1>3. c.txn = t /\ c.kind = step.kind /\ c.to = r
  BY <1>1
<1> QED BY <1>1, <1>2, <1>3 DEF Late

(* The calls that follow a decision.                                         *)
Following(calls, t, unlocked) ==
  /\ calls \subseteq ToAll("commitValue", t) \cup ToAll("resetValue", t)
  /\ \A c \in calls :
       \/ c.kind = "commitValue" /\ c.txn = t /\ AllCommit(t)
       \/ c.kind = "resetValue" /\ c.txn = t /\ (SomeReset(t) \/ unlocked)

LEMMA ToAllIsFollowing ==
  ASSUME NEW t \in Time, NEW unlocked \in BOOLEAN
  PROVE  /\ Following({}, t, unlocked)
         /\ AllCommit(t) => Following(ToAll("commitValue", t), t, unlocked)
         /\ SomeReset(t) \/ unlocked => Following(ToAll("resetValue", t), t, unlocked)
  BY DEF Following, ToAll

LEMMA FollowingIsLate ==
  ASSUME NEW t \in Time, NEW unlocked, NEW calls, Following(calls, t, unlocked)
  PROVE  calls \subseteq Late
  BY DEF Following, ToAll, Late

-----------------------------------------------------------------------------
(* The owner goes on from one call to another: what all its actions have in  *)
(* common.                                                                   *)
GoesOn(from, k) ==
  \/ k = "read" /\ from = "idle"
  \/ k = "read done" /\ from = "read"
  \/ k = "lock" /\ from \in {"idle", "read done"}
  \/ k = "addLock" /\ from = "lock"
  \/ k = "queue" /\ from = "addLock"
  \/ k = "commitTxn" /\ from = "queue"
  \/ k = "resetTxn" /\ from \in {"lock", "addLock", "queue", "commitTxn"}
  \/ k = "gone" /\ from \in {"commitTxn", "resetTxn"}

OwnerTurn(t, from, k, calls) ==
  /\ Goes(t, from, k, calls)
  /\ GoesOn(from, k)
  /\ from \in {"lock", "queue"} /\ k # "resetTxn" => Granted(owner[t])
  /\ Following(calls, t, k = "resetTxn" /\ ~Asked(t))
  /\ seen' \in [Time -> Result \cup {NoValue}]
  /\ \A u \in Time \ {t} : seen'[u] = seen[u]
  /\ seen'[t] \in Value => SerialValue(t, seen'[t])

LEMMA OwnerTurnFrame ==
  ASSUME IInv, NEW t \in Time, NEW from, NEW k, NEW calls, OwnerTurn(t, from, k, calls)
  PROVE  /\ ActorsStill /\ ReplicatorTypeOK'
         /\ owner[t].kind = from /\ owner'[t].kind = k
         /\ \A r \in Replica : owner'[t].reply[r] = "waiting"
         /\ \A u \in Time \ {t} : owner'[u] = owner[u]
         /\ \A c \in late' : c \in Late /\
              \/ c \in late
              \/ c.txn = t /\ c.kind = from /\ owner[t].reply[c.to] = "waiting"
                 /\ c.kind \in Kind
              \/ c.txn = t /\ c.kind = "commitValue" /\ AllCommit(t)
              \/ c.txn = t /\ c.kind = "resetValue"
                 /\ (SomeReset(t) \/ (k = "resetTxn" /\ ~Asked(t)))
         /\ \A u \in Time : Asked(u)' => Asked(u) \/ (u = t /\ k = "commitTxn")
<1>1. /\ owner[t].kind = from /\ owner' = [owner EXCEPT ![t] = Ask(k)]
      /\ late' = late \cup Rest(t, owner[t]) \cup calls
      /\ UNCHANGED <<memVars, deciders, cleaner, faults>>
      /\ GoesOn(from, k)
      /\ Following(calls, t, k = "resetTxn" /\ ~Asked(t))
  BY DEF OwnerTurn, Goes
<1>2. ActorsStill
  BY <1>1 DEF ActorsStill
<1>3. ReplicatorTypeOK /\ owner \in [Time -> Step] /\ owner[t] \in Step /\ late \subseteq Late
  BY DEF IInv, ReplicatorTypeOK
<1>4. k \in Kind \cup Idle
  BY <1>1 DEF GoesOn, Kind, Idle
<1>5. Ask(k) \in Step /\ Ask(k).kind = k /\ \A r \in Replica : Ask(k).reply[r] = "waiting"
  BY <1>4, AskIsStep
<1>6. calls \subseteq Late
  BY <1>1, FollowingIsLate
<1>7. /\ owner' \in [Time -> Step] /\ owner'[t].kind = k
      /\ \A r \in Replica : owner'[t].reply[r] = "waiting"
      /\ \A u \in Time \ {t} : owner'[u] = owner[u]
  BY <1>1, <1>3, <1>5
<1>8. ASSUME NEW c \in late'
      PROVE  c \in Late /\
              \/ c \in late
              \/ c.txn = t /\ c.kind = from /\ owner[t].reply[c.to] = "waiting"
                 /\ c.kind \in Kind
              \/ c.txn = t /\ c.kind = "commitValue" /\ AllCommit(t)
              \/ c.txn = t /\ c.kind = "resetValue"
                 /\ (SomeReset(t) \/ (k = "resetTxn" /\ ~Asked(t)))
  <2>1. CASE c \in late
    BY <1>3, <2>1
  <2>2. CASE c \in calls
    BY <1>1, <1>6, <2>2 DEF Following
  <2>3. CASE c \in Rest(t, owner[t]) /\ c \notin calls
    BY <1>1, <1>3, <1>6, <2>3, LeftAndCalled
  <2> QED BY <1>1, <2>1, <2>2, <2>3
<1>9. ReplicatorTypeOK'
  <2>1. MemTypeOK'
    BY <1>2, StillActors DEF MemInv
  <2>2. late' \subseteq Late
    BY <1>8
  <2>3. seen' \in [Time -> Result \cup {NoValue}]
    BY DEF OwnerTurn
  <2> QED BY <1>1, <1>3, <1>7, <2>1, <2>2, <2>3 DEF ReplicatorTypeOK, deciders
<1>10. ASSUME NEW u \in Time, Asked(u)'
       PROVE  Asked(u) \/ (u = t /\ k = "commitTxn")
  <2>1. UNCHANGED <<cleaner, txnState>>
    BY <1>1 DEF deciders
  <2>2. CASE owner'[u].kind = "commitTxn"
    BY <1>7, <2>2 DEF Asked
  <2>3. CASE \E c \in late' : c.txn = u /\ c.kind \in {"commitTxn", "commitValue"}
    <3>1. PICK c \in late' : c.txn = u /\ c.kind \in {"commitTxn", "commitValue"}
      BY <2>3
    <3>2. AllCommit(t) => Asked(t)
      BY ReplicatorAssumption DEF AllCommit, Asked
    <3>3. from = "commitTxn" => Asked(t)
      BY <1>1 DEF Asked
    <3>4. c \in late => Asked(u)
      BY <3>1 DEF Asked
    <3> QED BY <1>8, <3>1, <3>2, <3>3, <3>4 DEF Kind
  <2>4. CASE cleaner[u].kind = "commitTxn" \/ \E r \in Replica : txnState[r][u] = "COMMIT"
    BY <2>4 DEF Asked
  <2> QED BY <1>10, <2>1, <2>2, <2>3, <2>4 DEF Asked
<1> QED BY <1>1, <1>2, <1>7, <1>8, <1>9, <1>10

LEMMA OwnerTurnStep ==
  ASSUME IInv, NEW t \in Time, NEW from, NEW k, NEW calls, OwnerTurn(t, from, k, calls)
  PROVE  IInv'
<1>1. /\ ActorsStill /\ ReplicatorTypeOK'
      /\ owner[t].kind = from /\ owner'[t].kind = k
      /\ \A r \in Replica : owner'[t].reply[r] = "waiting"
      /\ \A u \in Time \ {t} : owner'[u] = owner[u]
  BY OwnerTurnFrame
<1>2. \A c \in late' : c \in Late /\
              \/ c \in late
              \/ c.txn = t /\ c.kind = from /\ owner[t].reply[c.to] = "waiting"
                 /\ c.kind \in Kind
              \/ c.txn = t /\ c.kind = "commitValue" /\ AllCommit(t)
              \/ c.txn = t /\ c.kind = "resetValue"
                 /\ (SomeReset(t) \/ (k = "resetTxn" /\ ~Asked(t)))
  BY OwnerTurnFrame
<1>3. \A u \in Time : Asked(u)' => Asked(u) \/ (u = t /\ k = "commitTxn")
  BY OwnerTurnFrame
<1>4. /\ GoesOn(from, k) /\ UNCHANGED cleaner
      /\ from \in {"lock", "queue"} /\ k # "resetTxn" =>
           \A r \in Replica : owner[t].reply[r] = "yes"
  BY DEF OwnerTurn, Goes, Granted, Every
<1>5. /\ MemInv' /\ ActorsKnow'
      /\ \A u \in Time : (AllCommit(u)' <=> AllCommit(u)) /\ (SomeReset(u)' <=> SomeReset(u))
      /\ \A u \in Time, r \in Replica :
              (Ready(r, u)' <=> Ready(r, u)) /\ (Holds(r, u)' <=> Holds(r, u))
  BY <1>1, StillActors
<1>6. UNCHANGED txnState /\ UNCHANGED writeLock /\ UNCHANGED queuedValue
  BY <1>1 DEF ActorsStill, memVars, deciders
<1>7. AnswersAreStates'
  BY <1>1, <1>4, <1>6 DEF IInv, AnswersAreStates, AnswerIsState
<1>8. ASSUME Asked(t), k # "resetTxn"
      PROVE  k = "gone"
  BY <1>1, <1>4, <1>8 DEF IInv, AskedIsReady, GoesOn
<1>9. from \in {"resetTxn", "gone"} => k \in {"resetTxn", "gone"}
  BY <1>4 DEF GoesOn
<1>10. ValuesFollow'
  <2>1. SUFFICES ASSUME NEW c \in late'
                 PROVE  /\ c.kind = "commitValue" => AllCommit(c.txn)'
                        /\ c.kind = "resetValue" =>
                             \/ SomeReset(c.txn)'
                             \/ owner'[c.txn].kind \in {"resetTxn", "gone"} /\ ~Asked(c.txn)'
    BY DEF ValuesFollow
  <2>2. c.txn \in Time
    BY <1>2 DEF Late
  <2>3. CASE c \in late
    <3>1. /\ c.kind = "commitValue" => AllCommit(c.txn)
          /\ c.kind = "resetValue" =>
               \/ SomeReset(c.txn)
               \/ owner[c.txn].kind \in {"resetTxn", "gone"} /\ ~Asked(c.txn)
      BY <2>3 DEF IInv, ValuesFollow
    <3>2. owner[c.txn].kind \in {"resetTxn", "gone"} => owner'[c.txn].kind \in {"resetTxn", "gone"}
      BY <1>1, <1>9, <2>2
    <3>3. owner[c.txn].kind \in {"resetTxn", "gone"} /\ ~Asked(c.txn) => ~Asked(c.txn)'
      BY <1>1, <1>3, <1>9, <2>2
    <3> QED BY <1>5, <2>2, <3>1, <3>2, <3>3
  <2>4. CASE c \notin late
    <3>1. c.txn = t
      BY <1>2, <2>4
    <3>2. c.kind = "commitValue" => AllCommit(t)
      BY <1>2, <2>4 DEF Kind
    <3>3. c.kind = "resetValue" => SomeReset(t) \/ (k = "resetTxn" /\ ~Asked(t))
      BY <1>2, <2>4 DEF Kind
    <3>4. k = "resetTxn" /\ ~Asked(t) => ~Asked(t)'
      BY <1>3
    <3> QED BY <1>1, <1>5, <3>1, <3>2, <3>3, <3>4
  <2> QED BY <2>3, <2>4
<1>11. LateIsFailed'
  <2>1. SUFFICES ASSUME NEW c \in late', c.kind \in {"lock", "queue"}
                 PROVE  /\ ~Asked(c.txn)'
                        /\ \/ owner'[c.txn].kind \in {"resetTxn", "gone"}
                           \/ owner'[c.txn].kind = c.kind /\ owner'[c.txn].reply[c.to] = "failed"
    BY DEF LateIsFailed
  <2>2. c.txn \in Time /\ c.to \in Replica
    BY <1>2 DEF Late
  <2>3. CASE c \in late /\ c.txn # t
    <3>1. ~Asked(c.txn)'
      BY <1>3, <2>1, <2>2, <2>3 DEF IInv, LateIsFailed
    <3> QED BY <1>1, <2>1, <2>2, <2>3, <3>1 DEF IInv, LateIsFailed
  <2>4. CASE c \in late /\ c.txn = t
    <3>1. ~Asked(t) /\ (from \in {"resetTxn", "gone"}
                        \/ (from = c.kind /\ owner[t].reply[c.to] = "failed"))
      BY <1>1, <2>1, <2>4 DEF IInv, LateIsFailed
    <3>2. k \in {"resetTxn", "gone"}
      BY <1>4, <1>9, <2>1, <2>2, <3>1 DEF GoesOn
    <3> QED BY <1>1, <1>3, <2>4, <3>1, <3>2
  <2>5. CASE c \notin late
    <3>1. c.txn = t /\ c.kind = from /\ owner[t].reply[c.to] = "waiting"
      BY <1>2, <2>1, <2>5
    <3>2. k = "resetTxn"
      BY <1>4, <2>1, <2>2, <3>1
    <3>3. ~Asked(t)
      BY <1>1, <2>1, <3>1 DEF IInv, AskedIsReady
    <3> QED BY <1>1, <1>3, <3>1, <3>2, <3>3
  <2> QED BY <2>3, <2>4, <2>5
<1>12. ASSUME NEW r \in Replica, ~SomeReset(t)
       PROVE  /\ k \in {"addLock", "queue"} => writeLock[r] = t
              /\ k = "commitTxn" => Ready(r, t)
  <2>1. /\ from = "lock" /\ owner[t].reply[r] = "yes" => writeLock[r] = t
        /\ from \in {"addLock", "queue"} => writeLock[r] = t
        /\ from = "queue" /\ owner[t].reply[r] = "yes" => queuedValue[r] = Write[t]
    BY <1>1, <1>12 DEF IInv, OwnerHolds
  <2> QED BY <1>4, <2>1 DEF GoesOn, Ready
<1>13. OwnerHolds'
  <2>1. SUFFICES ASSUME NEW u \in Time, NEW r \in Replica, ~SomeReset(u)'
                 PROVE  /\ owner'[u].kind = "lock" /\ owner'[u].reply[r] = "yes" => writeLock'[r] = u
                        /\ owner'[u].kind \in {"addLock", "queue"} => writeLock'[r] = u
                        /\ owner'[u].kind = "queue" /\ owner'[u].reply[r] = "yes"
                             => queuedValue'[r] = Write[u]
    BY DEF OwnerHolds
  <2>2. ~SomeReset(u)
    BY <1>5, <2>1
  <2>3. CASE u # t
    BY <1>1, <1>6, <2>2, <2>3 DEF IInv, OwnerHolds
  <2>4. CASE u = t
    BY <1>1, <1>6, <1>12, <2>2, <2>4
  <2> QED BY <2>3, <2>4
<1>14. AskedIsReady'
  <2>1. SUFFICES ASSUME NEW u \in Time, Asked(u)'
                 PROVE  /\ owner'[u].kind \in {"commitTxn", "resetTxn", "gone"}
                        /\ ~SomeReset(u)' => \A r \in Replica : Ready(r, u)' \/ Holds(r, u)'
    BY DEF AskedIsReady
  <2>2. CASE Asked(u)
    <3>1. /\ owner[u].kind \in {"commitTxn", "resetTxn", "gone"}
          /\ ~SomeReset(u) => \A r \in Replica : Ready(r, u) \/ Holds(r, u)
      BY <2>2 DEF IInv, AskedIsReady
    <3>2. owner'[u].kind \in {"commitTxn", "resetTxn", "gone"}
      BY <1>1, <1>8, <2>2, <3>1
    <3> QED BY <1>5, <3>1, <3>2
  <2>3. CASE u = t /\ k = "commitTxn"
    BY <1>1, <1>5, <1>12, <2>3
  <2> QED BY <1>3, <2>1, <2>2, <2>3
<1>15. CleanerKinds'
  BY <1>4 DEF IInv, CleanerKinds
<1>16. ReadsSerial'
  <2>1. ASSUME NEW u \in Time, seen'[u] \in Value
        PROVE  SerialValue(u, seen[u])'
    <3>1. SerialValue(u, seen'[u])
      BY <2>1 DEF IInv, ReadsSerial, OwnerTurn
    <3> QED BY <1>1, <3>1, StillSerial
  <2>2. ASSUME NEW u \in Time, owner'[u].kind = "read", NEW r \in Replica,
               owner'[u].reply[r] \in Value
        PROVE  SerialValue(u, owner[u].reply[r])'
    <3>1. u # t
      BY <1>1, <2>2, ReplicatorAssumption DEF Result
    <3>2. SerialValue(u, owner[u].reply[r])
      BY <1>1, <2>2, <3>1 DEF IInv, ReadsSerial
    <3>3. SerialValue(u, owner'[u].reply[r])
      BY <1>1, <3>1, <3>2
    <3> QED BY <1>1, <3>3, StillSerial
  <2> QED BY <2>1, <2>2 DEF ReadsSerial
<1> QED BY <1>1, <1>5, <1>7, <1>10, <1>11, <1>13, <1>14, <1>15, <1>16 DEF IInv

-----------------------------------------------------------------------------
(* A cleanup goes on from one call to another.                               *)
CleanerTurn(t, from, k, calls) ==
  /\ Cleans(t, from, k, calls)
  /\ k \in {"idle", "txnState", "commitTxn", "resetTxn"}
  /\ k = "commitTxn" => Asked(t)
  /\ Following(calls, t, FALSE)

LEMMA CleanerTurnStep ==
  ASSUME IInv, NEW t \in Time, NEW from, NEW k, NEW calls, CleanerTurn(t, from, k, calls)
  PROVE  IInv'
<1>1. /\ cleaner[t].kind = from /\ cleaner' = [cleaner EXCEPT ![t] = Ask(k)]
      /\ late' = late \cup Rest(t, cleaner[t]) \cup calls
      /\ UNCHANGED <<memVars, deciders, owner, seen, faults>>
      /\ k \in {"idle", "txnState", "commitTxn", "resetTxn"}
      /\ Following(calls, t, FALSE)
  BY DEF CleanerTurn, Cleans
<1>2. ActorsStill /\ UNCHANGED txnState /\ UNCHANGED writeLock /\ UNCHANGED queuedValue
  BY <1>1 DEF ActorsStill, memVars, deciders
<1>3. ReplicatorTypeOK /\ cleaner \in [Time -> Step] /\ cleaner[t] \in Step /\ late \subseteq Late
  BY DEF IInv, ReplicatorTypeOK
<1>4. Ask(k) \in Step /\ Ask(k).kind = k /\ \A r \in Replica : Ask(k).reply[r] = "waiting"
  BY <1>1, AskIsStep DEF Kind, Idle
<1>5. /\ cleaner' \in [Time -> Step] /\ cleaner'[t].kind = k
      /\ \A r \in Replica : cleaner'[t].reply[r] = "waiting"
      /\ \A u \in Time \ {t} : cleaner'[u] = cleaner[u]
  BY <1>1, <1>3, <1>4
<1>6. ASSUME NEW c \in late'
      PROVE  c \in Late /\
              \/ c \in late
              \/ c.txn = t /\ c.kind = from
              \/ c.txn = t /\ c.kind = "commitValue" /\ AllCommit(t)
              \/ c.txn = t /\ c.kind = "resetValue" /\ SomeReset(t)
  <2>1. CASE c \in late
    BY <1>3, <2>1
  <2>2. CASE c \in calls
    BY <1>1, <2>2, FollowingIsLate DEF Following
  <2>3. CASE c \in Rest(t, cleaner[t]) /\ c \notin calls
    BY <1>1, <1>3, <2>3, FollowingIsLate, LeftAndCalled
  <2> QED BY <1>1, <2>1, <2>2, <2>3
<1>7. from \in {"idle", "txnState", "commitTxn", "resetTxn"}
  BY <1>1 DEF IInv, CleanerKinds
<1>8. /\ MemInv' /\ ActorsKnow'
      /\ \A u \in Time : (AllCommit(u)' <=> AllCommit(u)) /\ (SomeReset(u)' <=> SomeReset(u))
      /\ \A u \in Time, r \in Replica :
              (Ready(r, u)' <=> Ready(r, u)) /\ (Holds(r, u)' <=> Holds(r, u))
  BY <1>2, StillActors
<1>9. ReplicatorTypeOK'
  <2>1. late' \subseteq Late
    BY <1>6
  <2> QED BY <1>1, <1>3, <1>5, <1>8, <2>1 DEF ReplicatorTypeOK, deciders, MemInv
<1>10. ASSUME NEW u \in Time, Asked(u)'
       PROVE  Asked(u)
  <2>1. CASE cleaner'[u].kind = "commitTxn"
    BY <1>5, <2>1 DEF Asked, CleanerTurn
  <2>2. CASE \E c \in late' : c.txn = u /\ c.kind \in {"commitTxn", "commitValue"}
    <3>1. PICK c \in late' : c.txn = u /\ c.kind \in {"commitTxn", "commitValue"}
      BY <2>2
    <3>2. AllCommit(t) => Asked(t)
      BY ReplicatorAssumption DEF AllCommit, Asked
    <3>3. from = "commitTxn" => Asked(t)
      BY <1>1 DEF Asked
    <3>4. c \in late => Asked(u)
      BY <3>1 DEF Asked
    <3> QED BY <1>6, <1>7, <3>1, <3>2, <3>3, <3>4
  <2>3. CASE owner[u].kind = "commitTxn" \/ \E r \in Replica : txnState[r][u] = "COMMIT"
    BY <2>3 DEF Asked
  <2> QED BY <1>1, <1>2, <1>10, <2>1, <2>2, <2>3 DEF Asked
<1>11. AnswersAreStates'
  BY <1>1, <1>2, <1>5 DEF IInv, AnswersAreStates, AnswerIsState
<1>12. ValuesFollow'
  <2>1. SUFFICES ASSUME NEW c \in late'
                 PROVE  /\ c.kind = "commitValue" => AllCommit(c.txn)'
                        /\ c.kind = "resetValue" =>
                             \/ SomeReset(c.txn)'
                             \/ owner'[c.txn].kind \in {"resetTxn", "gone"} /\ ~Asked(c.txn)'
    BY DEF ValuesFollow
  <2>2. c.txn \in Time
    BY <1>6 DEF Late
  <2>3. /\ c.kind = "commitValue" => AllCommit(c.txn)
        /\ c.kind = "resetValue" =>
             \/ SomeReset(c.txn)
             \/ owner[c.txn].kind \in {"resetTxn", "gone"} /\ ~Asked(c.txn)
    <3>1. CASE c \in late
      BY <3>1 DEF IInv, ValuesFollow
    <3>2. CASE c \notin late
      BY <1>6, <1>7, <3>2
    <3> QED BY <3>1, <3>2
  <2> QED BY <1>1, <1>8, <1>10, <2>2, <2>3
<1>13. LateIsFailed'
  <2>1. SUFFICES ASSUME NEW c \in late', c.kind \in {"lock", "queue"}
                 PROVE  /\ ~Asked(c.txn)'
                        /\ \/ owner'[c.txn].kind \in {"resetTxn", "gone"}
                           \/ owner'[c.txn].kind = c.kind /\ owner'[c.txn].reply[c.to] = "failed"
    BY DEF LateIsFailed
  <2>2. c.txn \in Time /\ c \in late
    BY <1>6, <1>7, <2>1 DEF Late
  <2> QED BY <1>1, <1>10, <2>1, <2>2 DEF IInv, LateIsFailed
<1>14. OwnerHolds'
  BY <1>1, <1>2, <1>8 DEF IInv, OwnerHolds
<1>15. AskedIsReady'
  BY <1>1, <1>8, <1>10 DEF IInv, AskedIsReady
<1>16. CleanerKinds'
  BY <1>1, <1>5 DEF IInv, CleanerKinds
<1>17. ReadsSerial'
  BY <1>1, <1>2, StillSerial DEF IInv, ReadsSerial
<1> QED BY <1>8, <1>9, <1>11, <1>12, <1>13, <1>14, <1>15, <1>16, <1>17 DEF IInv

-----------------------------------------------------------------------------
(* A lost call is heard of as failed, and stays in the mail or not.          *)
Failing(t, r, mailed) ==
  /\ Hears(owner[t], owner[t].kind, r, "failed", owner'[t])
  /\ Hears(cleaner[t], cleaner[t].kind, r, "failed", cleaner'[t])
  /\ owner' \in [Time -> Step] /\ cleaner' \in [Time -> Step]
  /\ \A u \in Time \ {t} : owner'[u] = owner[u] /\ cleaner'[u] = cleaner[u]
  /\ late' \subseteq late \cup mailed
  /\ \A c \in mailed :
       /\ c.txn = t /\ c.to = r /\ c \in Late
       /\ \/ c.kind = owner[t].kind /\ owner'[t].reply[r] = "failed"
          \/ c.kind = cleaner[t].kind
  /\ faults' \in 0..MaxFaults
  /\ UNCHANGED <<memVars, deciders, seen>>

LEMMA FaultFails ==
  ASSUME IInv, Fault
  PROVE  \E t \in Time, r \in Replica, mailed \in SUBSET Late : Failing(t, r, mailed)
<1>1. /\ ReplicatorTypeOK /\ owner \in [Time -> Step] /\ cleaner \in [Time -> Step]
      /\ Replica # {} /\ "failed" \in Reply
  BY ReplicatorAssumption DEF IInv, ReplicatorTypeOK, Reply
<1>2. faults' \in 0..MaxFaults
  BY <1>1, ReplicatorAssumption DEF Fault, ReplicatorTypeOK
<1>3. UNCHANGED <<memVars, deciders, seen>>
  BY DEF Fault
<1>4. \A t \in Time, r \in Replica :
        /\ Hears(owner[t], owner[t].kind, r, "failed", owner[t])
        /\ Hears(cleaner[t], cleaner[t].kind, r, "failed", cleaner[t])
  BY DEF Hears
<1>5. \A t \in Time, r \in Replica, step \in Step :
        r \in Waiting(step) => step.kind \in Kind /\ step.reply[r] = "waiting"
  BY DEF Waiting
<1>6. ASSUME NEW t \in Time, NEW r \in Waiting(owner[t]),
             owner' = Filled(owner, t, r, "failed"), UNCHANGED cleaner,
             NEW c, c = [kind |-> owner[t].kind, txn |-> t, to |-> r],
             late' \in {late, late \cup {c}}
      PROVE  Failing(t, r, {c}) /\ {c} \in SUBSET Late /\ r \in Replica
  <2>1. r \in Replica /\ owner[t].kind \in Kind /\ owner[t].reply[r] = "waiting"
    BY <1>1 DEF Waiting
  <2>2. /\ owner' \in [Time -> Step] /\ owner'[t].kind = owner[t].kind
        /\ owner'[t].reply[r] = "failed"
        /\ \A q \in Replica \ {r} : owner'[t].reply[q] = owner[t].reply[q]
        /\ \A u \in Time \ {t} : owner'[u] = owner[u]
    BY <1>1, <1>6, <2>1, ReplyFilled
  <2>3. c.txn = t /\ c.to = r /\ c.kind = owner[t].kind /\ c \in Late
    BY <1>6, <2>1 DEF Late
  <2>4. Hears(owner[t], owner[t].kind, r, "failed", owner'[t])
    BY <2>1, <2>2 DEF Hears
  <2> QED BY <1>1, <1>2, <1>3, <1>4, <1>6, <2>1, <2>2, <2>3, <2>4 DEF Failing
<1>7. ASSUME NEW t \in Time, NEW r \in Waiting(cleaner[t]),
             cleaner' = Filled(cleaner, t, r, "failed"), UNCHANGED owner,
             NEW c, c = [kind |-> cleaner[t].kind, txn |-> t, to |-> r],
             late' \in {late, late \cup {c}}
      PROVE  Failing(t, r, {c}) /\ {c} \in SUBSET Late /\ r \in Replica
  <2>1. r \in Replica /\ cleaner[t].kind \in Kind /\ cleaner[t].reply[r] = "waiting"
    BY <1>1 DEF Waiting
  <2>2. /\ cleaner' \in [Time -> Step] /\ cleaner'[t].kind = cleaner[t].kind
        /\ cleaner'[t].reply[r] = "failed"
        /\ \A q \in Replica \ {r} : cleaner'[t].reply[q] = cleaner[t].reply[q]
        /\ \A u \in Time \ {t} : cleaner'[u] = cleaner[u]
    BY <1>1, <1>7, <2>1, ReplyFilled
  <2>3. c.txn = t /\ c.to = r /\ c.kind = cleaner[t].kind /\ c \in Late
    BY <1>7, <2>1 DEF Late
  <2>4. Hears(cleaner[t], cleaner[t].kind, r, "failed", cleaner'[t])
    BY <2>1, <2>2 DEF Hears
  <2> QED BY <1>1, <1>2, <1>3, <1>4, <1>7, <2>1, <2>2, <2>3, <2>4 DEF Failing
<1>8. ASSUME late' \subseteq late, UNCHANGED <<owner, cleaner>>
      PROVE  \A t \in Time, r \in Replica : Failing(t, r, {})
  BY <1>1, <1>2, <1>3, <1>4, <1>8 DEF Failing
<1>9. CASE \E t \in Time : \E r \in Waiting(owner[t]) :
             /\ owner' = Filled(owner, t, r, "failed")
             /\ late' \in {late, late \cup {[kind |-> owner[t].kind, txn |-> t, to |-> r]}}
             /\ UNCHANGED cleaner
  BY <1>6, <1>9
<1>10. CASE \E t \in Time : \E r \in Waiting(cleaner[t]) :
             /\ cleaner' = Filled(cleaner, t, r, "failed")
             /\ late' \in {late, late \cup {[kind |-> cleaner[t].kind, txn |-> t, to |-> r]}}
             /\ UNCHANGED owner
  BY <1>7, <1>10
<1>11. CASE \E c \in late : late' = late \ {c} /\ UNCHANGED <<owner, cleaner>>
  <2>1. \E t \in Time : TRUE
    BY <1>1, <1>11 DEF ReplicatorTypeOK, Late
  <2> QED BY <1>1, <1>8, <1>11, <2>1
<1> QED BY <1>9, <1>10, <1>11 DEF Fault, Filled

LEMMA FailingStep ==
  ASSUME IInv, NEW t \in Time, NEW r \in Replica, NEW mailed \in SUBSET Late,
         Failing(t, r, mailed)
  PROVE  IInv'
<1>1. /\ owner' \in [Time -> Step] /\ cleaner' \in [Time -> Step]
      /\ owner'[t].kind = owner[t].kind /\ cleaner'[t].kind = cleaner[t].kind
      /\ \A u \in Time \ {t} : owner'[u] = owner[u] /\ cleaner'[u] = cleaner[u]
      /\ late' \subseteq late \cup mailed
      /\ UNCHANGED <<memVars, deciders, seen>>
  BY DEF Failing, Hears
<1>2. ActorsStill /\ UNCHANGED txnState /\ UNCHANGED writeLock /\ UNCHANGED queuedValue
  BY <1>1 DEF ActorsStill, memVars, deciders
<1>3. \A u \in Time :
        owner'[u].kind = owner[u].kind /\ cleaner'[u].kind = cleaner[u].kind
  BY <1>1
<1>4. \A u \in Time, q \in Replica :
        /\ owner'[u].reply[q] = owner[u].reply[q] \/ owner'[u].reply[q] = "failed"
        /\ cleaner'[u].reply[q] = cleaner[u].reply[q] \/ cleaner'[u].reply[q] = "failed"
  BY <1>1 DEF Failing, Hears
<1>5. ReplicatorTypeOK /\ late \subseteq Late
  BY DEF IInv, ReplicatorTypeOK
<1>6. ASSUME NEW c \in late'
      PROVE  c \in Late /\
               \/ c \in late
               \/ /\ c.txn = t /\ c.to = r
                  /\ \/ c.kind = owner[t].kind /\ owner'[t].reply[r] = "failed"
                     \/ c.kind = cleaner[t].kind
  BY <1>1, <1>5 DEF Failing
<1>7. /\ MemInv' /\ ActorsKnow'
      /\ \A u \in Time : (AllCommit(u)' <=> AllCommit(u)) /\ (SomeReset(u)' <=> SomeReset(u))
      /\ \A u \in Time, q \in Replica :
              (Ready(q, u)' <=> Ready(q, u)) /\ (Holds(q, u)' <=> Holds(q, u))
  BY <1>2, StillActors
<1>8. ReplicatorTypeOK'
  <2>1. late' \subseteq Late
    BY <1>6
  <2> QED BY <1>1, <1>5, <1>7, <2>1 DEF Failing, ReplicatorTypeOK, deciders, MemInv
<1>9. /\ owner[t].kind \notin {"commitValue", "resetValue"}
      /\ cleaner[t].kind \in {"idle", "txnState", "commitTxn", "resetTxn"}
  BY <1>5 DEF IInv, ReplicatorTypeOK, Step, Kind, Idle, CleanerKinds
<1>10. ASSUME NEW u \in Time, Asked(u)'
       PROVE  Asked(u)
  <2>1. CASE \E c \in late' : c.txn = u /\ c.kind \in {"commitTxn", "commitValue"}
    <3>1. PICK c \in late' : c.txn = u /\ c.kind \in {"commitTxn", "commitValue"}
      BY <2>1
    <3>2. owner[t].kind = "commitTxn" \/ cleaner[t].kind = "commitTxn" => Asked(t)
      BY DEF Asked
    <3>3. c \in late => Asked(u)
      BY <3>1 DEF Asked
    <3> QED BY <1>6, <1>9, <3>1, <3>2, <3>3
  <2> QED BY <1>2, <1>3, <1>10, <2>1 DEF Asked
<1>11. AnswersAreStates'
  BY <1>2, <1>3, <1>4 DEF IInv, AnswersAreStates, AnswerIsState
<1>12. ASSUME NEW c \in late'
       PROVE  /\ c.txn \in Time /\ c.to \in Replica
              /\ c.kind \in {"commitValue", "resetValue"} => c \in late
              /\ c.kind \in {"lock", "queue"} =>
                   c \in late \/ (c.txn = t /\ c.to = r /\ c.kind = owner[t].kind
                                  /\ owner'[t].reply[r] = "failed")
  BY <1>6, <1>9 DEF Late
<1>13. ValuesFollow'
  BY <1>3, <1>7, <1>10, <1>12 DEF IInv, ValuesFollow
<1>14. LateIsFailed'
  <2>1. SUFFICES ASSUME NEW c \in late', c.kind \in {"lock", "queue"}
                 PROVE  /\ ~Asked(c.txn)'
                        /\ \/ owner'[c.txn].kind \in {"resetTxn", "gone"}
                           \/ owner'[c.txn].kind = c.kind /\ owner'[c.txn].reply[c.to] = "failed"
    BY DEF LateIsFailed
  <2>2. CASE c \in late
    BY <1>3, <1>4, <1>10, <1>12, <2>1, <2>2 DEF IInv, LateIsFailed
  <2>3. CASE c \notin late
    <3>1. c.txn = t /\ c.to = r /\ c.kind = owner[t].kind /\ owner'[t].reply[r] = "failed"
      BY <1>12, <2>1, <2>3
    <3>2. ~Asked(t)
      BY <2>1, <3>1 DEF IInv, AskedIsReady
    <3> QED BY <1>3, <1>10, <3>1, <3>2
  <2> QED BY <2>2, <2>3
<1>15. OwnerHolds'
  BY <1>2, <1>3, <1>4, <1>7 DEF IInv, OwnerHolds
<1>16. AskedIsReady'
  BY <1>3, <1>7, <1>10 DEF IInv, AskedIsReady
<1>17. CleanerKinds'
  BY <1>3 DEF IInv, CleanerKinds
<1>18. ReadsSerial'
  <2>1. ASSUME NEW u \in Time, seen'[u] \in Value
        PROVE  SerialValue(u, seen[u])'
    BY <1>1, <1>2, <2>1, StillSerial DEF IInv, ReadsSerial
  <2>2. ASSUME NEW u \in Time, owner'[u].kind = "read", NEW q \in Replica,
               owner'[u].reply[q] \in Value
        PROVE  SerialValue(u, owner[u].reply[q])'
    <3>1. owner'[u].reply[q] = owner[u].reply[q]
      BY <1>4, <2>2, ReplicatorAssumption DEF Result
    <3>2. SerialValue(u, owner'[u].reply[q])
      BY <1>3, <2>2, <3>1 DEF IInv, ReadsSerial
    <3> QED BY <1>2, <3>2, StillSerial
  <2> QED BY <2>1, <2>2 DEF ReadsSerial
<1> QED BY <1>7, <1>8, <1>11, <1>13, <1>14, <1>15, <1>16, <1>17, <1>18 DEF IInv

-----------------------------------------------------------------------------
(* The least-number principle, and with it: the answer a reduction of the    *)
(* states picks is one that a replica gave.                                  *)
LEMMA LeastReplica ==
  ASSUME NEW S \in SUBSET Nat, S # {}
  PROVE  \E k \in S : \A m \in S : k <= m
<1> DEFINE R == OpToRel(<, Nat)
<1>1. IsWellFoundedOn(R, Nat)
  BY NatLessThanWellFounded
<1>2. \A m \in Nat, k \in Nat : m < k => <<m, k>> \in R
  BY DEF OpToRel
<1> HIDE DEF R
<1>3. PICK k \in S : \A m \in S : <<m, k>> \notin R
  BY <1>1, WFMin
<1>4. ASSUME NEW m \in S PROVE k <= m
  <2>1. k \in Nat /\ m \in Nat
    BY <1>3
  <2>2. ~(m < k)
    BY <1>2, <1>3, <2>1
  <2>3. QED
    BY <2>1, <2>2
<1>5. QED
  BY <1>3, <1>4

LEMMA StateOfIsAnAnswer ==
  ASSUME NEW step, StateOf(step) # "OPEN"
  PROVE  \E r \in Replica : step.reply[r] = StateOf(step)
<1> DEFINE closed == {r \in Replica : step.reply[r] # "OPEN"}
           first == CHOOSE r \in closed : \A q \in closed : r <= q
<1>1. closed # {} /\ StateOf(step) = step.reply[first]
  BY DEF StateOf
<1>2. closed \in SUBSET Nat
  BY ReplicatorAssumption
<1>3. \E r \in closed : \A q \in closed : r <= q
  BY <1>1, <1>2, LeastReplica
<1>4. first \in closed
  BY <1>3
<1> QED BY <1>1, <1>4

-----------------------------------------------------------------------------
(* Every action of an owner is a turn of it, and every one of a cleanup.     *)
LEMMA TurnsOfOwner ==
  ASSUME IInv, NEW t \in Time, Own(t)
  PROVE  \E from, k, calls : OwnerTurn(t, from, k, calls)
<1>1. /\ seen \in [Time -> Result \cup {NoValue}] /\ ReadsSerial
      /\ AnswerIsState(owner[t], t)
      /\ \E r \in Replica : TRUE
  BY ReplicatorAssumption DEF IInv, ReplicatorTypeOK, AnswersAreStates
<1>2. /\ \A unlocked \in BOOLEAN : Following({}, t, unlocked)
      /\ AllCommit(t) => Following(ToAll("commitValue", t), t, FALSE)
      /\ \A unlocked \in BOOLEAN :
           SomeReset(t) \/ unlocked => Following(ToAll("resetValue", t), t, unlocked)
  BY ToAllIsFollowing
<1>3. ASSUME NEW from, NEW k, NEW calls, Goes(t, from, k, calls), GoesOn(from, k),
             from \in {"lock", "queue"} /\ k # "resetTxn" => Granted(owner[t]),
             Following(calls, t, k = "resetTxn" /\ ~Asked(t)), UNCHANGED seen
      PROVE  OwnerTurn(t, from, k, calls)
  BY <1>1, <1>3 DEF OwnerTurn, ReadsSerial
<1>4. CASE StartRead(t)
  BY <1>2, <1>3, <1>4 DEF StartRead, GoesOn
<1>5. CASE ReadValue(t)
  <2>1. PICK r \in Replica : owner[t].reply[r] \in Value
                             /\ seen' = [seen EXCEPT ![t] = owner[t].reply[r]]
    BY <1>5 DEF ReadValue
  <2>2. Goes(t, "read", "read done", {}) /\ owner[t].kind = "read"
    BY <1>5 DEF ReadValue, Goes
  <2>3. SerialValue(t, owner[t].reply[r])
    BY <1>1, <2>1, <2>2 DEF ReadsSerial
  <2>4. OwnerTurn(t, "read", "read done", {})
    BY <1>1, <1>2, <2>1, <2>2, <2>3 DEF OwnerTurn, GoesOn, Result
  <2> QED BY <2>4
<1>6. CASE ReadNone(t)
  <2>1. seen' = [seen EXCEPT ![t] = Null] /\ Goes(t, "read", "read done", {})
    BY <1>6 DEF ReadNone
  <2>2. seen'[t] \notin Value
    BY <1>1, <2>1, TypesAssumption
  <2>3. OwnerTurn(t, "read", "read done", {})
    BY <1>1, <1>2, <2>1, <2>2 DEF OwnerTurn, GoesOn, Result
  <2> QED BY <2>3
<1>7. CASE StartLock(t)
  BY <1>2, <1>3, <1>7 DEF StartLock, GoesOn
<1>8. CASE LockAnswered(t)
  <2>1. CASE Granted(owner[t])
    BY <1>2, <1>3, <1>8, <2>1 DEF LockAnswered, GoesOn
  <2>2. CASE ~Granted(owner[t])
    <3>1. Goes(t, "lock", "resetTxn", ToAll("resetValue", t)) /\ owner[t].kind = "lock"
      BY <1>8, <2>2 DEF LockAnswered, Goes
    <3>2. ~Asked(t)
      BY <3>1 DEF IInv, AskedIsReady
    <3> QED BY <1>2, <1>3, <1>8, <3>1, <3>2 DEF LockAnswered, GoesOn
  <2> QED BY <2>1, <2>2
<1>9. CASE Registered(t)
  <2>1. PICK calls :
          /\ Goes(t, "addLock", "queue", calls)
          /\ StateOf(owner[t]) = "OPEN" => calls = {}
          /\ StateOf(owner[t]) = "RESET" => calls = ToAll("resetValue", t)
    BY <1>9 DEF Registered
  <2>2. owner[t].kind = "addLock" /\ Every(owner[t], TxnState) /\ UNCHANGED seen
    BY <1>9, <2>1 DEF Registered, Goes
  <2>3. CASE StateOf(owner[t]) = "OPEN"
    BY <1>2, <1>3, <2>1, <2>2, <2>3 DEF GoesOn
  <2>4. CASE StateOf(owner[t]) # "OPEN"
    <3>1. PICK r \in Replica : owner[t].reply[r] = StateOf(owner[t])
      BY <2>4, StateOfIsAnAnswer
    <3>2. txnState[r][t] = StateOf(owner[t]) /\ StateOf(owner[t]) \in {"COMMIT", "RESET"}
      BY <1>1, <2>2, <2>4, <3>1 DEF Every, TxnState, AnswerIsState
    <3>3. txnState[r][t] # "COMMIT"
      BY <2>2 DEF Asked, IInv, AskedIsReady
    <3>4. SomeReset(t) /\ StateOf(owner[t]) = "RESET"
      BY <3>2, <3>3 DEF SomeReset
    <3> QED BY <1>2, <1>3, <2>1, <2>2, <3>4 DEF GoesOn
  <2> QED BY <2>3, <2>4
<1>10. CASE AllQueued(t)
  BY <1>2, <1>3, <1>10 DEF AllQueued, Accepted, Granted, GoesOn
<1>11. CASE Committed(t)
  <2>1. /\ Goes(t, "commitTxn", "gone", Values(owner[t], "commitValue", t))
        /\ owner[t].kind = "commitTxn" /\ Taken(owner[t]) /\ UNCHANGED seen
    BY <1>11 DEF Committed, Goes
  <2>2. AllCommit(t)
    BY <1>1, <2>1 DEF Taken, Every, AnswerIsState, AllCommit
  <2> QED BY <1>2, <1>3, <2>1, <2>2 DEF GoesOn, Values
<1>12. CASE Reverted(t)
  <2>1. /\ Goes(t, "resetTxn", "gone", Values(owner[t], "resetValue", t))
        /\ owner[t].kind = "resetTxn" /\ Taken(owner[t]) /\ UNCHANGED seen
    BY <1>12 DEF Reverted, Goes
  <2>2. SomeReset(t)
    BY <1>1, <2>1 DEF Taken, Every, AnswerIsState, SomeReset
  <2> QED BY <1>2, <1>3, <2>1, <2>2 DEF GoesOn, Values
<1>13. CASE Revert(t)
  BY <1>2, <1>3, <1>13 DEF Revert, GoesOn
<1> QED BY <1>4, <1>5, <1>6, <1>7, <1>8, <1>9, <1>10, <1>11, <1>12, <1>13 DEF Own

LEMMA TurnsOfCleaner ==
  ASSUME IInv, NEW t \in Time, Clean(t)
  PROVE  \E from, k, calls : CleanerTurn(t, from, k, calls)
<1>1. AnswerIsState(cleaner[t], t) /\ \E r \in Replica : TRUE
  BY ReplicatorAssumption DEF IInv, AnswersAreStates
<1>2. /\ Following({}, t, FALSE)
      /\ AllCommit(t) => Following(ToAll("commitValue", t), t, FALSE)
      /\ SomeReset(t) => Following(ToAll("resetValue", t), t, FALSE)
  BY ToAllIsFollowing
<1>3. CASE Conflict(t)
  BY <1>2, <1>3 DEF Conflict, CleanerTurn
<1>4. CASE Cleanup(t)
  <2>1. CASE StateOf(cleaner[t]) = "COMMIT"
    <3>1. Cleans(t, "txnState", "commitTxn", {}) /\ cleaner[t].kind = "txnState"
      BY <1>4, <2>1 DEF Cleanup, Cleans
    <3>2. PICK r \in Replica : cleaner[t].reply[r] = "COMMIT"
      BY <2>1, StateOfIsAnAnswer
    <3>3. Asked(t)
      BY <1>1, <3>1, <3>2 DEF AnswerIsState, Asked
    <3> QED BY <1>2, <3>1, <3>3 DEF CleanerTurn
  <2>2. CASE StateOf(cleaner[t]) # "COMMIT"
    <3>1. Cleans(t, "txnState", "resetTxn", {})
      BY <1>4, <2>2 DEF Cleanup
    <3> QED BY <1>2, <3>1 DEF CleanerTurn
  <2> QED BY <2>1, <2>2
<1>5. CASE Cleaned(t)
  <2>1. CASE Cleans(t, "commitTxn", "idle", Values(cleaner[t], "commitValue", t))
    <3>1. AllCommit(t)
      BY <1>1, <1>5, <2>1 DEF Cleaned, Cleans, Taken, Every, AnswerIsState, AllCommit
    <3>2. CleanerTurn(t, "commitTxn", "idle", Values(cleaner[t], "commitValue", t))
      BY <1>2, <2>1, <3>1 DEF CleanerTurn, Values
    <3> QED BY <3>2
  <2>2. CASE Cleans(t, "resetTxn", "idle", Values(cleaner[t], "resetValue", t))
    <3>1. SomeReset(t)
      BY <1>1, <1>5, <2>2 DEF Cleaned, Cleans, Taken, Every, AnswerIsState, SomeReset
    <3>2. CleanerTurn(t, "resetTxn", "idle", Values(cleaner[t], "resetValue", t))
      BY <1>2, <2>2, <3>1 DEF CleanerTurn, Values
    <3> QED BY <3>2
  <2> QED BY <1>5, <2>1, <2>2 DEF Cleaned
<1>6. CASE CleanupFails(t)
  <2>1. PICK k \in {"txnState", "commitTxn", "resetTxn"} : Cleans(t, k, "idle", {})
    BY <1>6 DEF CleanupFails
  <2>2. CleanerTurn(t, k, "idle", {})
    BY <1>2, <2>1 DEF CleanerTurn
  <2> QED BY <2>2
<1> QED BY <1>3, <1>4, <1>5, <1>6 DEF Clean

-----------------------------------------------------------------------------
LEMMA ReplicatorInitially == Init => IInv
<1> SUFFICES ASSUME Init PROVE IInv
  OBVIOUS
<1> USE TypesAssumption, ReplicatorAssumption
<1>1. MemInv
  BY MemInitially DEF Init
<1>2. /\ Ask("idle") \in Step /\ Ask("idle").kind = "idle"
      /\ \A r \in Replica : Ask("idle").reply[r] = "waiting"
  BY AskIsStep DEF Idle
<1>3. /\ \A t \in Time : owner[t] = Ask("idle") /\ cleaner[t] = Ask("idle") /\ seen[t] = NoValue
      /\ late = {} /\ \A r \in Replica, t \in Time : txnState[r][t] = "OPEN"
  BY DEF Init
<1>4. ReplicatorTypeOK
  BY <1>1, <1>2 DEF Init, MemInv, ReplicatorTypeOK, TxnState
<1>5. AnswersAreStates /\ CleanerKinds /\ OwnerHolds
  BY <1>2, <1>3 DEF AnswersAreStates, AnswerIsState, CleanerKinds, OwnerHolds
<1>6. ValuesFollow /\ LateIsFailed
  BY <1>3 DEF ValuesFollow, LateIsFailed
<1>7. AskedIsReady
  BY <1>2, <1>3 DEF AskedIsReady, Asked
<1>8. ActorsKnow
  <2>1. \A r \in Replica : history[r] = << >> /\ staleCommit[r] = NoTime /\ queuedValue[r] = NoValue
    BY DEF Init, MemInit, Replica
  <2>2. \A i \in DOMAIN << >> : FALSE
    OBVIOUS
  <2> QED BY <2>1, <2>2 DEF ActorsKnow, HasRecord
<1>9. ReadsSerial
  BY <1>2, <1>3 DEF ReadsSerial
<1> QED BY <1>1, <1>4, <1>5, <1>6, <1>7, <1>8, <1>9 DEF IInv

LEMMA ReplicatorStutter == IInv /\ UNCHANGED vars => IInv'
<1> SUFFICES ASSUME IInv, UNCHANGED vars PROVE IInv'
  OBVIOUS
<1>1. UNCHANGED <<memVars, deciders, clients, faults>>
  BY DEF vars
<1>2. /\ UNCHANGED <<owner, cleaner, late, seen, faults>>
      /\ UNCHANGED <<txnState, txnLocks, writeLock, queuedValue>>
      /\ ActorsStill
  BY <1>1 DEF clients, deciders, memVars, ActorsStill
<1>3. /\ MemInv' /\ ActorsKnow'
      /\ \A t \in Time : (AllCommit(t)' <=> AllCommit(t)) /\ (SomeReset(t)' <=> SomeReset(t))
      /\ \A t \in Time, r \in Replica :
           (Ready(r, t)' <=> Ready(r, t)) /\ (Holds(r, t)' <=> Holds(r, t))
  BY <1>2, StillActors
<1>4. \A t \in Time : Asked(t)' <=> Asked(t)
  BY <1>2 DEF Asked
<1>5. ReplicatorTypeOK'
  BY <1>2, <1>3 DEF IInv, ReplicatorTypeOK, MemInv
<1>6. AnswersAreStates' /\ CleanerKinds'
  BY <1>2 DEF IInv, AnswersAreStates, AnswerIsState, CleanerKinds
<1>7. ValuesFollow' /\ LateIsFailed'
  <2>1. \A c \in late : c.txn \in Time
    BY DEF IInv, ReplicatorTypeOK, Late
  <2> QED BY <1>2, <1>3, <1>4, <2>1 DEF IInv, ValuesFollow, LateIsFailed
<1>8. OwnerHolds' /\ AskedIsReady'
  BY <1>2, <1>3, <1>4 DEF IInv, OwnerHolds, AskedIsReady
<1>9. ReadsSerial'
  BY <1>2, StillSerial DEF IInv, ReadsSerial
<1> QED BY <1>3, <1>5, <1>6, <1>7, <1>8, <1>9 DEF IInv

LEMMA ReplicatorStep == IInv /\ [Next]_vars => IInv'
<1> SUFFICES ASSUME IInv, Next PROVE IInv'
  BY ReplicatorStutter
<1>1. ASSUME NEW t \in Time, NEW r \in Replica, DeliverToOwner(t, r)
      PROVE  IInv'
  BY <1>1, OwnerHears, DeliveredStep
<1>2. ASSUME NEW t \in Time, NEW r \in Replica, DeliverToCleaner(t, r)
      PROVE  IInv'
  BY <1>2, CleanerHears, DeliveredStep
<1>3. ASSUME NEW c \in late, DeliverLate(c)
      PROVE  IInv'
  BY <1>3, NobodyHears, DeliveredStep
<1>4. CASE Fault
  BY <1>4, FaultFails, FailingStep
<1>5. ASSUME NEW t \in Time, Own(t)
      PROVE  IInv'
  BY <1>5, TurnsOfOwner, OwnerTurnStep
<1>6. ASSUME NEW t \in Time, Clean(t)
      PROVE  IInv'
  BY <1>6, TurnsOfCleaner, CleanerTurnStep
<1> QED BY <1>1, <1>2, <1>3, <1>4, <1>5, <1>6 DEF Next, Deliver

THEOREM ReplicatorInvariant == Spec => []IInv
  BY ReplicatorInitially, ReplicatorStep, PTL DEF Spec

(* Whatever calls and replies are lost, come late or are cleaned up, for any *)
(* number of replicas and transactions: a write that one replica has on      *)
(* record is on record at each, or under its lock and queued there           *)
(* (RestmInternalReplicator.scala:32-42,63-77).                              *)
THEOREM ReplicasDoAgree == Spec => []ReplicasAgree
<1>1. IInv => ReplicasAgree
  <2> SUFFICES ASSUME IInv, NEW t \in Recorded, NEW r \in Replica
               PROVE  Holds(r, t) \/ (writeLock[r] = t /\ queuedValue[r] = Write[t])
    BY DEF ReplicasAgree
  <2>1. t \in Time /\ AllCommit(t)
    BY DEF IInv, ActorsKnow, Recorded
  <2>2. Asked(t) /\ ~SomeReset(t)
    BY <2>1, ReplicatorAssumption DEF AllCommit, Asked, SomeReset
  <2> QED BY <2>1, <2>2 DEF IInv, AskedIsReady, Ready
<1> QED BY <1>1, ReplicatorInvariant, PTL

(* A value read from whichever replica answered first is that of the newest  *)
(* write before the reader at any replica, and stays so                      *)
(* (RestmInternalReplicator.scala:56-57).                                    *)
THEOREM ValuesAreSerial == Spec => []ValuesSerial
<1>1. IInv => ValuesSerial
  BY DEF IInv, ReadsSerial, SerialValue, ValuesSerial
<1> QED BY <1>1, ReplicatorInvariant, PTL
=============================================================================
