-------------------------- MODULE Lifecycle_proofs --------------------------
(* Proofs about Lifecycle, for any number of actor objects, transactions and *)
(* values, any storage, and pointers known from the start or made by a       *)
(* transaction: locks stay with the actor in use, a decided write keeps its  *)
(* lock and its value, no committed write is lost, and reads are serial      *)
(* until the actor collects or expires.                                      *)
EXTENDS Lifecycle, FiniteSetTheorems, WellFoundedInduction, TLAPS

Holding == {"locked", "queued", "decided"}

(* The inductive invariant, part by part: types of what the argument looks   *)
(* at;                                                                       *)
LocksTyped ==
  /\ writeLock \in [Obj -> OptTime]
  /\ queuedValue \in [Obj -> Result \cup {NoValue}]
  /\ status \in [Time -> Status]
  /\ committed \in [Time -> Result \cup {NoValue}]
  /\ closed \subseteq Obj
  /\ \A e \in expiry : e.obj \in Obj
  /\ stores \in [Obj -> Nat]

(* the actor in use is open;                                                 *)
CurrentOpen == current \in Obj => current \notin closed

(* what the node still means to do, it means to do to an actor that is or    *)
(* was in use: none of it meets an object made later;                        *)
OnceCurrent ==
  /\ \A o \in Obj : stores[o] > 0 => o \in closed \cup {current}
  /\ \A e \in expiry : e.obj \in closed \cup {current}

(* a transaction that got the lock has it until it installs or reverts;      *)
HoldersLock ==
  \A t \in Time : status[t] \in Holding => current \in Obj /\ writeLock[current] = t

(* and nobody works on a pointer before its creator made it.                 *)
NotYetMade ==
  Creator \in Time /\ status[Creator] = "idle" =>
    committed[Creator] = NoValue /\ \A t \in Time : status[t] \notin Holding

IInv ==
  LocksTyped /\ CurrentOpen /\ OnceCurrent /\ LockedIsCurrent /\ HoldersLock
    /\ DecidedKept /\ NotYetMade

LEMMA InitHolds == Init => IInv
<1> SUFFICES ASSUME Init PROVE IInv
  OBVIOUS
<1> USE TypesAssumption, LifecycleAssumption
<1>1. LocksTyped
  BY DEF Init, MemInit, LocksTyped, OptTime, Obj, Status
<1>2. CurrentOpen /\ OnceCurrent
  BY DEF Init, CurrentOpen, OnceCurrent
<1>3. LockedIsCurrent
  BY DEF Init, MemInit, LockedIsCurrent, Obj
<1>4. HoldersLock /\ DecidedKept /\ NotYetMade
  BY DEF Init, HoldersLock, DecidedKept, NotYetMade, Holding
<1> QED BY <1>1, <1>2, <1>3, <1>4 DEF IInv

(* With no actor in use, nobody holds a lock, of any object.                 *)
LEMMA NoneHeld ==
  ASSUME IInv, current \notin Obj
  PROVE  /\ \A o \in Obj : writeLock[o] = NoTime
         /\ \A t \in Time : status[t] \notin Holding
BY DEF IInv, LockedIsCurrent, HoldersLock

-----------------------------------------------------------------------------
(* What the invariant speaks of, but for current and closed.                 *)
kept == <<writeLock, queuedValue, status, committed>>

(* An actor comes into use while no lock is held.                            *)
LEMMA RestoreKeeps ==
  ASSUME IInv, NEW o \in Fresh, NEW time, Restore(o, time)
  PROVE  IInv'
<1> USE LifecycleAssumption
<1>1. current \notin Obj /\ o \in Obj \ closed /\ current' = o
  BY DEF Restore, Fresh
<1>2. UNCHANGED <<kept, closed, expiry, stores>>
  BY DEF Restore, kept, txnVars
<1>3. /\ \A p \in Obj : writeLock[p] = NoTime
      /\ \A t \in Time : status[t] \notin Holding
  BY <1>1, NoneHeld
<1>4. LocksTyped' /\ CurrentOpen' /\ NotYetMade'
  BY <1>1, <1>2 DEF IInv, LocksTyped, CurrentOpen, NotYetMade, kept
<1>5. OnceCurrent'
  <2>1. \A e \in expiry : e.obj \in Obj
    BY DEF IInv, LocksTyped
  <2> QED BY <1>1, <1>2, <2>1 DEF IInv, OnceCurrent
<1>6. LockedIsCurrent' /\ HoldersLock' /\ DecidedKept'
  BY <1>2, <1>3 DEF LockedIsCurrent, HoldersLock, DecidedKept, Holding, kept
<1> QED BY <1>4, <1>5, <1>6 DEF IInv

LEMMA RestoreFailsKeeps == IInv /\ RestoreFails => IInv'
<1> SUFFICES ASSUME IInv, RestoreFails PROVE IInv'
  OBVIOUS
<1> USE LifecycleAssumption
<1>1. current \notin Obj /\ current' \notin Obj
  BY DEF RestoreFails
<1>2. UNCHANGED <<kept, closed, expiry, stores>>
  BY DEF RestoreFails, kept, txnVars, nodeVars, memVars
<1>3. /\ \A p \in Obj : writeLock[p] = NoTime
      /\ \A t \in Time : status[t] \notin Holding
  BY <1>1, NoneHeld
<1>4. LocksTyped' /\ CurrentOpen' /\ NotYetMade'
  BY <1>1, <1>2 DEF IInv, LocksTyped, CurrentOpen, NotYetMade, kept
<1>5. OnceCurrent'
  <2>1. \A e \in expiry : e.obj \in Obj
    BY DEF IInv, LocksTyped
  <2> QED BY <1>1, <1>2, <2>1 DEF IInv, OnceCurrent
<1>6. LockedIsCurrent' /\ HoldersLock' /\ DecidedKept'
  BY <1>2, <1>3 DEF LockedIsCurrent, HoldersLock, DecidedKept, Holding, kept
<1> QED BY <1>4, <1>5, <1>6 DEF IInv

(* Steps of the node that move neither locks nor actors: what is left to     *)
(* show is that they aim at actors that were in use.                         *)
LEMMA NodeKeeps ==
  ASSUME IInv, UNCHANGED <<kept, current, closed>>,
         \A e \in expiry' : e.obj \in Obj, stores' \in [Obj -> Nat], OnceCurrent'
  PROVE  IInv'
BY DEF IInv, LocksTyped, CurrentOpen, LockedIsCurrent, HoldersLock, DecidedKept, NotYetMade, kept

(* An expiry drops the actor in use, and only when it is not locked: then    *)
(* nobody holds anything.                                                    *)
LEMMA ExpireKeeps ==
  ASSUME IInv, NEW e \in expiry, Expire(e)
  PROVE  IInv'
<1> USE LifecycleAssumption
<1>1. e.obj \in Obj \ closed /\ writeLock[e.obj] = NoTime
  BY DEF Expire, Settled, IsWriteLocked, IInv, LocksTyped
<1>2. e.obj = current
  BY <1>1 DEF IInv, OnceCurrent
<1>3. current' \notin Obj /\ closed' = closed \cup {current} /\ expiry' \subseteq expiry
  BY <1>2 DEF Expire
<1>4. UNCHANGED <<kept, stores>>
  BY DEF Expire, kept, txnVars, memVars
<1>5. /\ \A o \in Obj : writeLock[o] = NoTime
      /\ \A t \in Time : status[t] \notin Holding
  <2>1. \A t \in Time : t # NoTime
    BY TypesAssumption DEF NoTime
  <2> QED BY <1>1, <1>2, <2>1 DEF IInv, LockedIsCurrent, HoldersLock
<1>6. LocksTyped' /\ CurrentOpen' /\ NotYetMade'
  BY <1>1, <1>2, <1>3, <1>4 DEF IInv, LocksTyped, CurrentOpen, NotYetMade, kept
<1>7. OnceCurrent'
  BY <1>3, <1>4 DEF IInv, OnceCurrent
<1>8. LockedIsCurrent' /\ HoldersLock' /\ DecidedKept'
  BY <1>4, <1>5 DEF LockedIsCurrent, HoldersLock, DecidedKept, Holding, kept
<1> QED BY <1>6, <1>7, <1>8 DEF IInv

-----------------------------------------------------------------------------
(* Transactions leave the actors and the plans of the node as they are.      *)
Elsewhere == <<current, closed, expiry, stores>>

LEMMA MapsKeep ==
  ASSUME IInv, UNCHANGED Elsewhere
  PROVE  CurrentOpen' /\ OnceCurrent'
BY DEF IInv, CurrentOpen, OnceCurrent, Elsewhere

(* newPtr sets its pointer's lock free; nobody can hold it before.           *)
LEMMA CreateKeeps ==
  ASSUME IInv, NEW t \in Time, Create(t)
  PROVE  IInv'
<1> USE TypesAssumption, LifecycleAssumption
<1>1. /\ t = Creator /\ current \in Obj /\ status[t] = "idle"
      /\ status' = [status EXCEPT ![t] = "created"]
      /\ writeLock' = [writeLock EXCEPT ![current] = NoTime]
      /\ queuedValue' = [queuedValue EXCEPT ![current] = NoValue]
      /\ UNCHANGED committed
  BY DEF Create, Goes, InitValue
<1>2. UNCHANGED Elsewhere
  BY DEF Create, Elsewhere, mapVars, nodeVars
<1>3. \A u \in Time : status[u] \notin Holding
  BY <1>1 DEF IInv, NotYetMade
<1>4. LocksTyped'
  BY <1>1, <1>2 DEF IInv, LocksTyped, Status, OptTime, Elsewhere
<1>5. \A u \in Time : status'[u] \notin Holding
  BY <1>1, <1>3 DEF IInv, LocksTyped, Holding
<1>6. LockedIsCurrent'
  BY <1>1, <1>2 DEF IInv, LocksTyped, LockedIsCurrent, Elsewhere
<1>7. HoldersLock' /\ DecidedKept'
  BY <1>5 DEF HoldersLock, DecidedKept, Holding
<1>8. NotYetMade'
  BY <1>1 DEF IInv, LocksTyped, NotYetMade
<1> QED BY <1>2, <1>4, <1>6, <1>7, <1>8, MapsKeep DEF IInv

(* A lock is granted by the actor in use, when nobody has it.                *)
LEMMA LockKeeps ==
  ASSUME IInv, NEW t \in Time, Lock(t)
  PROVE  IInv'
<1> USE TypesAssumption, LifecycleAssumption
<1>1. /\ current \in Obj /\ writeLock[current] = NoTime /\ Known(t)
      /\ writeLock' = [writeLock EXCEPT ![current] = t]
      /\ status' = [status EXCEPT ![t] = "locked"]
      /\ t = Creator => status[t] # "idle"
      /\ UNCHANGED <<queuedValue, committed>>
  BY DEF Lock, Goes
<1>2. UNCHANGED Elsewhere
  BY DEF Lock, Elsewhere, mapVars, nodeVars
<1>3. \A u \in Time : status[u] \notin Holding
  BY <1>1 DEF IInv, HoldersLock, NoTime
<1>4. LocksTyped'
  BY <1>1, <1>2 DEF IInv, LocksTyped, Status, OptTime, Elsewhere
<1>5. LockedIsCurrent'
  BY <1>1, <1>2 DEF IInv, LocksTyped, CurrentOpen, LockedIsCurrent, Elsewhere
<1>6. \A u \in Time : status'[u] \in Holding => u = t /\ status'[u] = "locked"
  BY <1>1, <1>3 DEF IInv, LocksTyped, Holding
<1>7. HoldersLock' /\ DecidedKept'
  BY <1>1, <1>2, <1>6 DEF IInv, LocksTyped, HoldersLock, DecidedKept, Elsewhere, Holding
<1>8. NotYetMade'
  <2> SUFFICES ASSUME Creator \in Time, status'[Creator] = "idle"
               PROVE  FALSE
    BY DEF NotYetMade
  <2>1. t # Creator /\ status[Creator] = "idle"
    BY <1>1 DEF IInv, LocksTyped
  <2>2. committed[Creator] = NoValue
    BY <2>1 DEF IInv, NotYetMade
  <2> QED BY <1>1, <2>1, <2>2 DEF Known
<1> QED BY <1>2, <1>4, <1>5, <1>7, <1>8, MapsKeep DEF IInv

(* Only the holder's value is queued, and only before the decision.          *)
LEMMA QueueKeeps ==
  ASSUME IInv, NEW t \in Time, NEW v \in Result, Queue(t, v)
  PROVE  IInv'
<1> USE TypesAssumption, LifecycleAssumption
<1>1. /\ current \in Obj /\ status[t] = "locked"
      /\ status' = [status EXCEPT ![t] = "queued"]
      /\ queuedValue' = [queuedValue EXCEPT ![current] = v]
      /\ UNCHANGED <<writeLock, committed>>
  BY DEF Queue, Goes, QueueNormally
<1>2. UNCHANGED Elsewhere
  BY DEF Queue, Elsewhere, mapVars, nodeVars
<1>3. LocksTyped'
  BY <1>1, <1>2 DEF IInv, LocksTyped, Status, Elsewhere
<1>4. LockedIsCurrent'
  BY <1>1, <1>2 DEF IInv, LockedIsCurrent, Elsewhere
<1>5. HoldersLock'
  BY <1>1, <1>2 DEF IInv, LocksTyped, HoldersLock, Elsewhere, Holding
<1>6. \A u \in Time : status'[u] # "decided"
  <2> SUFFICES ASSUME NEW u \in Time, status'[u] = "decided"
               PROVE  FALSE
    OBVIOUS
  <2>1. u # t /\ status[u] = "decided"
    BY <1>1 DEF IInv, LocksTyped
  <2> QED BY <1>1, <2>1 DEF IInv, HoldersLock, Holding
<1>7. DecidedKept'
  BY <1>6 DEF DecidedKept
<1>8. NotYetMade'
  BY <1>1 DEF IInv, LocksTyped, NotYetMade, Holding
<1> QED BY <1>2, <1>3, <1>4, <1>5, <1>7, <1>8, MapsKeep DEF IInv

(* What is decided is what is queued under the lock.                         *)
LEMMA DecideKeeps ==
  ASSUME IInv, NEW t \in Time, Decide(t)
  PROVE  IInv'
<1> USE TypesAssumption, LifecycleAssumption
<1>1. UNCHANGED Elsewhere /\ UNCHANGED <<writeLock, queuedValue>>
  BY DEF Decide, Elsewhere, mapVars, nodeVars, memVars
<1>2. \/ /\ current \in Obj /\ status[t] = "queued"
         /\ status' = [status EXCEPT ![t] = "decided"]
         /\ committed' = [committed EXCEPT ![t] = queuedValue[current]]
      \/ /\ status[t] = "created"
         /\ status' = [status EXCEPT ![t] = "installed"]
         /\ committed' = [committed EXCEPT ![t] = First]
  BY DEF Decide, Goes
<1>3. LocksTyped'
  BY <1>1, <1>2 DEF IInv, LocksTyped, Status, Elsewhere, Result
<1>4. LockedIsCurrent'
  BY <1>1 DEF IInv, LockedIsCurrent, Elsewhere
<1>5. HoldersLock'
  BY <1>1, <1>2 DEF IInv, LocksTyped, HoldersLock, Elsewhere, Holding
<1>6. DecidedKept'
  BY <1>1, <1>2 DEF IInv, LocksTyped, HoldersLock, DecidedKept, Elsewhere, Holding
<1>7. NotYetMade'
  BY <1>2 DEF IInv, LocksTyped, NotYetMade, Holding
<1> QED BY <1>1, <1>3, <1>4, <1>5, <1>6, <1>7, MapsKeep DEF IInv

(* Installing and reverting free the lock of the one that holds it.          *)
LEMMA ReleaseKeeps ==
  ASSUME IInv, NEW t \in Time, NEW to \in {"installed", "gone"},
         current \in Obj, writeLock[current] = t,
         status' = [status EXCEPT ![t] = to],
         writeLock' = [writeLock EXCEPT ![current] = NoTime],
         queuedValue' = [queuedValue EXCEPT ![current] = NoValue],
         UNCHANGED <<committed, Elsewhere>>
  PROVE  IInv'
<1> USE TypesAssumption, LifecycleAssumption
<1>1. UNCHANGED Elsewhere
  OBVIOUS
<1>2. \A u \in Time : status'[u] \notin Holding
  BY DEF IInv, LocksTyped, HoldersLock, Holding
<1>3. LocksTyped'
  BY <1>1 DEF IInv, LocksTyped, Status, OptTime, Elsewhere
<1>4. LockedIsCurrent'
  BY <1>1 DEF IInv, LocksTyped, LockedIsCurrent, Elsewhere
<1>5. HoldersLock' /\ DecidedKept'
  BY <1>2 DEF HoldersLock, DecidedKept, Holding
<1>6. NotYetMade'
  BY <1>2 DEF IInv, LocksTyped, NotYetMade
<1> QED BY <1>1, <1>3, <1>4, <1>5, <1>6, MapsKeep DEF IInv

LEMMA TransactKeeps ==
  ASSUME IInv, NEW t \in Time, Transact(t)
  PROVE  IInv'
<1>1. CASE Call(t)
  BY <1>1, RestoreKeeps, RestoreFailsKeeps DEF Call
<1>2. CASE Create(t)
  BY <1>2, CreateKeeps
<1>3. CASE Lock(t)
  BY <1>3, LockKeeps
<1>4. CASE Decide(t)
  BY <1>4, DecideKeeps
<1>5. CASE Install(t)
  <2>1. /\ current \in Obj /\ writeLock[current] = t
        /\ status' = [status EXCEPT ![t] = "installed"]
        /\ writeLock' = [writeLock EXCEPT ![current] = NoTime]
        /\ queuedValue' = [queuedValue EXCEPT ![current] = NoValue]
    BY <1>5 DEF Install, Goes, CommitQueued, OwnsLock
  <2>2. UNCHANGED <<committed, Elsewhere>>
    BY <1>5 DEF Install, Elsewhere, mapVars, nodeVars
  <2> QED BY <2>1, <2>2, ReleaseKeeps
<1>6. CASE Revert(t)
  <2>1. /\ current \in Obj /\ writeLock[current] = t
        /\ status' = [status EXCEPT ![t] = "gone"]
        /\ writeLock' = [writeLock EXCEPT ![current] = NoTime]
        /\ queuedValue' = [queuedValue EXCEPT ![current] = NoValue]
    BY <1>6 DEF Revert, Goes, WriteReset, OwnsLock
  <2>2. UNCHANGED <<committed, Elsewhere>>
    BY <1>6 DEF Revert, Elsewhere, mapVars, nodeVars
  <2> QED BY <2>1, <2>2, ReleaseKeeps
<1>7. ASSUME NEW v \in Result, Queue(t, v) PROVE IInv'
  BY <1>7, QueueKeeps
<1>8. CASE SendRead(t) \/ Read(t)
  <2>1. UNCHANGED <<kept, Elsewhere>>
    BY <1>8 DEF SendRead, Read, kept, Elsewhere, mapVars, nodeVars, memVars
  <2>2. UNCHANGED <<kept, current, closed>> /\ (\A e \in expiry' : e.obj \in Obj) /\ stores' \in [Obj -> Nat]
    BY <2>1 DEF IInv, LocksTyped, Elsewhere
  <2>3. OnceCurrent'
    BY <2>1, MapsKeep
  <2> QED BY <2>2, <2>3, NodeKeeps
<1> QED BY <1>1, <1>2, <1>3, <1>4, <1>5, <1>6, <1>7, <1>8 DEF Transact

-----------------------------------------------------------------------------
(* The freeze thread, the messages of the node, and the expiry tasks.        *)

LEMMA FreezeKeeps == IInv /\ (Freeze \/ AskFlush) => IInv'
<1> SUFFICES ASSUME IInv, Freeze \/ AskFlush PROVE IInv'
  OBVIOUS
<1> USE LifecycleAssumption
<1>1. CASE FreezeFinds
  BY <1>1, RestoreKeeps, RestoreFailsKeeps DEF FreezeFinds
<1>2. CASE QueueStorage \/ FreezeFlushes \/ AskFlush
  <2>1. UNCHANGED <<kept, current, closed, expiry, stores>>
    BY <1>2 DEF QueueStorage, FreezeFlushes, AskFlush, kept, mapVars, txnVars, memVars
  <2>2. OnceCurrent' /\ (\A e \in expiry' : e.obj \in Obj) /\ stores' \in [Obj -> Nat]
    BY <2>1 DEF IInv, OnceCurrent, LocksTyped
  <2> QED BY <2>1, <2>2, NodeKeeps
<1>3. CASE FreezeSends
  <2>1. UNCHANGED <<kept, current, closed, expiry>>
    BY <1>3 DEF FreezeSends, kept, mapVars, txnVars, memVars
  <2>2. current # NoObj /\ stores' = IF current = "failed" THEN stores
                                      ELSE [stores EXCEPT ![current] = @ + 1]
    BY <1>3 DEF FreezeSends
  <2>3. stores' \in [Obj -> Nat] /\ \A o \in Obj : o # current => stores'[o] = stores[o]
    <3>1. stores \in [Obj -> Nat]
      BY DEF IInv, LocksTyped
    <3>2. CASE stores' = stores
      BY <3>1, <3>2
    <3>3. CASE stores' = [stores EXCEPT ![current] = @ + 1]
      <4>1. \A o \in Obj : stores'[o] = IF o = current THEN stores[o] + 1 ELSE stores[o]
        BY <3>1, <3>3
      <4>2. \A o \in Obj : stores[o] \in Nat /\ stores[o] + 1 \in Nat
        BY <3>1
      <4>3. stores' = [o \in Obj |-> stores'[o]]
        BY <3>1, <3>3
      <4> QED BY <4>1, <4>2, <4>3
    <3> QED BY <2>2, <3>2, <3>3
  <2>4. OnceCurrent' /\ (\A e \in expiry' : e.obj \in Obj)
    BY <2>1, <2>3 DEF IInv, LocksTyped, OnceCurrent
  <2> QED BY <2>1, <2>3, <2>4, NodeKeeps
<1> QED BY <1>1, <1>2, <1>3 DEF Freeze

LEMMA StoreKeeps ==
  ASSUME IInv, NEW o \in Obj, Store(o)
  PROVE  IInv'
<1>1. UNCHANGED <<kept, current, closed>> /\ stores[o] > 0
  BY DEF Store, StoreNothing, StoreRecords, StoreFails, kept, mapVars, txnVars, memVars
<1>2. stores' = [stores EXCEPT ![o] = @ - 1]
  BY DEF Store, StoreNothing, StoreRecords, StoreFails
<1>3. stores' \in [Obj -> Nat] /\ \A p \in Obj : stores'[p] <= stores[p]
  BY <1>1, <1>2 DEF IInv, LocksTyped
<1>4. \A e \in expiry' : e \in expiry \/ e.obj = o
  BY DEF Store, StoreNothing, StoreRecords, StoreFails, NewTask
<1>5. \A e \in expiry' : e.obj \in Obj
  BY <1>4 DEF IInv, LocksTyped
<1>6. OnceCurrent'
  <2>1. \A p \in Obj : stores'[p] > 0 => stores[p] > 0
    BY <1>3 DEF IInv, LocksTyped
  <2> QED BY <1>1, <1>4, <2>1 DEF IInv, OnceCurrent
<1> QED BY <1>1, <1>3, <1>5, <1>6, NodeKeeps

LEMMA CollectKeeps ==
  ASSUME IInv, NEW o \in Obj, NEW t \in Old, Collect(o, t)
  PROVE  IInv'
<1>1. UNCHANGED <<kept, current, closed, expiry, stores>>
  BY DEF Collect, kept, mapVars, txnVars
<1>2. OnceCurrent' /\ (\A e \in expiry' : e.obj \in Obj) /\ stores' \in [Obj -> Nat]
  BY <1>1 DEF IInv, OnceCurrent, LocksTyped
<1> QED BY <1>1, <1>2, NodeKeeps

(* A task that is dropped or put off still aims at the same actor.           *)
LEMMA TaskKeeps ==
  ASSUME IInv, NEW e \in expiry, ExpireNot(e) \/ ExpireLater(e)
  PROVE  IInv'
<1>1. UNCHANGED <<kept, current, closed, stores>>
  BY DEF ExpireNot, ExpireLater, kept, mapVars, txnVars, memVars
<1>2. \A f \in expiry' : \E g \in expiry : f.obj = g.obj
  <2>1. CASE ExpireNot(e)
    BY <2>1 DEF ExpireNot
  <2>2. CASE ExpireLater(e)
    <3>1. e.obj = [e EXCEPT !.read = lastRead[e.obj]].obj
      OBVIOUS
    <3>2. expiry' = (expiry \ {e}) \cup {[e EXCEPT !.read = lastRead[e.obj]]}
      BY <2>2 DEF ExpireLater
    <3> QED BY <3>1, <3>2
  <2> QED BY <2>1, <2>2
<1>3. OnceCurrent' /\ (\A f \in expiry' : f.obj \in Obj) /\ stores' \in [Obj -> Nat]
  BY <1>1, <1>2 DEF IInv, OnceCurrent, LocksTyped
<1> QED BY <1>1, <1>3, NodeKeeps

LEMMA StepHolds == IInv /\ [Next]_vars => IInv'
<1> SUFFICES ASSUME IInv, [Next]_vars PROVE IInv'
  OBVIOUS
<1>1. CASE Freeze \/ AskFlush
  BY <1>1, FreezeKeeps
<1>2. ASSUME NEW o \in Obj, Store(o) PROVE IInv'
  BY <1>2, StoreKeeps
<1>3. ASSUME NEW o \in Obj, NEW t \in Old, Collect(o, t) PROVE IInv'
  BY <1>3, CollectKeeps
<1>4. ASSUME NEW e \in expiry, ExpireNot(e) \/ ExpireLater(e) PROVE IInv'
  BY <1>4, TaskKeeps
<1>5. ASSUME NEW e \in expiry, Expire(e) PROVE IInv'
  BY <1>5, ExpireKeeps
<1>6. ASSUME NEW t \in Time, Transact(t) PROVE IInv'
  BY <1>6, TransactKeeps
<1>7. CASE UNCHANGED vars
  <2>1. UNCHANGED <<kept, current, closed, expiry, stores>>
    BY <1>7 DEF vars, kept, memVars, mapVars, nodeVars, txnVars
  <2>2. OnceCurrent' /\ (\A e \in expiry' : e.obj \in Obj) /\ stores' \in [Obj -> Nat]
    BY <2>1 DEF IInv, OnceCurrent, LocksTyped
  <2> QED BY <2>1, <2>2, NodeKeeps
<1>8. CASE Node
  BY <1>1, <1>2, <1>3, <1>4, <1>5, <1>8 DEF Node
<1> QED BY <1>6, <1>7, <1>8 DEF Next

LEMMA AlwaysIInv == Spec => []IInv
BY InitHolds, StepHolds, PTL DEF Spec

(* Whatever restores, stores, collections and expiries fall between the      *)
(* steps of transactions, a lock is held at the open actor that every other  *)
(* call finds: no pointer is ever locked at two actors, and none is dropped  *)
(* under a lock (RestmActors.scala:68-83,154-185).                           *)
THEOREM LocksStayCurrent == Spec => []LockedIsCurrent
<1>1. IInv => LockedIsCurrent
  BY DEF IInv
<1> QED BY AlwaysIInv, <1>1, PTL

(* A transaction that was decided still has, at the actor in use, its lock   *)
(* and the value it decided on, until it installs them                       *)
(* (RestmActors.scala:68-83).                                                *)
THEOREM DecidedIsKept == Spec => []DecidedKept
<1>1. IInv => DecidedKept
  BY DEF IInv
<1> QED BY AlwaysIInv, <1>1, PTL

-----------------------------------------------------------------------------
(* The records of an actor and those in storage.  First the types the rest   *)
(* of the argument needs: storage holds finitely many records, and marks are *)
(* on records that are there.                                                *)
StorageTyped ==
  /\ history \in [Obj -> Seq(Record)]
  /\ cold \in [Time -> Result \cup {NoValue}]
  /\ IsFiniteSet(Stored)
  /\ stored \in [Obj -> SUBSET Nat]
  /\ \A o \in Obj : stored[o] \subseteq DOMAIN history[o]

(* What is in storage is restored, each record once and nothing else: the    *)
(* positions count the records before, as a sort by time does.               *)
RestoredWell ==
  /\ Cardinality(Stored) \in Nat
  /\ DOMAIN Restored = 1..Cardinality(Stored)
  /\ Restored \in Seq(Record)
  /\ \A i \in DOMAIN Restored :
       Restored[i].time \in Stored /\ Restored[i].value = cold[Restored[i].time]
  /\ \A t \in Stored : \E i \in DOMAIN Restored : Restored[i].time = t
  /\ \A i, j \in DOMAIN Restored : Restored[i].time = Restored[j].time => i = j

LEMMA RestoredRecords == StorageTyped => RestoredWell
<1> SUFFICES ASSUME StorageTyped PROVE RestoredWell
  OBVIOUS
<1> DEFINE n == Cardinality(Stored)
           Below(t) == {u \in Stored : u < t}
           rank == [t \in Stored |-> Cardinality(Below(t))]
           at(i) == CHOOSE t \in Stored : Cardinality({u \in Stored : u < t}) = i - 1
<1>1. /\ IsFiniteSet(Stored) /\ n \in Nat /\ Stored \subseteq Time
      /\ \A t \in Stored : t \in Nat
  BY FS_CardinalityType, TypesAssumption DEF StorageTyped, Stored
<1>2. \A t \in Stored : /\ IsFiniteSet(Below(t)) /\ Cardinality(Below(t)) \in Nat
                       /\ Cardinality(Below(t)) < n
  <2> SUFFICES ASSUME NEW t \in Stored
               PROVE  /\ IsFiniteSet(Below(t)) /\ Cardinality(Below(t)) \in Nat
                      /\ Cardinality(Below(t)) < n
    OBVIOUS
  <2>1. IsFiniteSet(Stored \ {t}) /\ Cardinality(Stored \ {t}) = n - 1
    BY <1>1, FS_RemoveElement
  <2>2. Below(t) \in SUBSET (Stored \ {t})
    BY <1>1
  <2>3. IsFiniteSet(Below(t)) /\ Cardinality(Below(t)) <= n - 1
    BY <2>1, <2>2, FS_Subset
  <2>4. Cardinality(Below(t)) \in Nat
    BY <2>3, FS_CardinalityType
  <2> HIDE DEF n, Below
  <2> QED BY <1>1, <2>3, <2>4
<1>3. \A u, w \in Stored : u < w => Cardinality(Below(u)) < Cardinality(Below(w))
  <2> SUFFICES ASSUME NEW u \in Stored, NEW w \in Stored, u < w
               PROVE  Cardinality(Below(u)) < Cardinality(Below(w))
    OBVIOUS
  <2>1. u \in Below(w) /\ IsFiniteSet(Below(w))
    BY <1>2
  <2>2. IsFiniteSet(Below(w) \ {u}) /\ Cardinality(Below(w) \ {u}) = Cardinality(Below(w)) - 1
    BY <2>1, FS_RemoveElement
  <2>3. Below(u) \in SUBSET (Below(w) \ {u})
    <3> SUFFICES ASSUME NEW x \in Below(u) PROVE x \in Below(w) \ {u}
      OBVIOUS
    <3>1. x \in Stored /\ x < u /\ x \in Nat /\ u \in Nat /\ w \in Nat
      BY <1>1
    <3>2. x < w /\ x # u
      BY <3>1
    <3> QED BY <3>1, <3>2
  <2>4. Cardinality(Below(u)) <= Cardinality(Below(w)) - 1
    BY <2>2, <2>3, FS_Subset
  <2> HIDE DEF Below, n
  <2>5. Cardinality(Below(u)) \in Nat /\ Cardinality(Below(w)) \in Nat
    BY <1>2
  <2> QED BY <2>4, <2>5
<1>4. rank \in Injection(Stored, 0..(n - 1))
  <2>1. rank \in [Stored -> 0..(n - 1)]
    <3> HIDE DEF Below, n
    <3>1. \A t \in Stored : Cardinality(Below(t)) \in 0..(n - 1)
      BY <1>1, <1>2
    <3> QED BY <3>1
  <2>2. ASSUME NEW u \in Stored, NEW w \in Stored, u # w PROVE rank[u] # rank[w]
    <3> HIDE DEF Below, n
    <3>1. u < w \/ w < u
      BY <1>1, <2>2
    <3>2. Cardinality(Below(u)) \in Nat /\ Cardinality(Below(w)) \in Nat
      BY <1>2
    <3>3. Cardinality(Below(u)) < Cardinality(Below(w)) \/ Cardinality(Below(w)) < Cardinality(Below(u))
      BY <1>3, <3>1
    <3>4. Cardinality(Below(u)) # Cardinality(Below(w))
      BY <3>2, <3>3
    <3> QED BY <3>4
  <2> HIDE DEF rank
  <2> QED BY <2>1, <2>2 DEF Injection, IsInjective
<1>5. \A i \in 1..n : \E t \in Stored : Cardinality(Below(t)) = i - 1
  <2>1. IsFiniteSet(0..(n - 1)) /\ Cardinality(0..(n - 1)) = n
    <3> HIDE DEF n
    <3>1. 0 \in Int /\ n - 1 \in Int
      BY <1>1
    <3>2. /\ IsFiniteSet(0..(n - 1))
          /\ Cardinality(0..(n - 1)) = IF 0 > n - 1 THEN 0 ELSE (n - 1) - 0 + 1
      BY <3>1, FS_Interval
    <3> QED BY <1>1, <3>2
  <2>2. rank \in Surjection(Stored, 0..(n - 1))
    <3> HIDE DEF rank, n
    <3>1. Cardinality(Stored) = Cardinality(0..(n - 1))
      BY <2>1 DEF n
    <3> QED BY <1>4, <2>1, <3>1, FS_Injection
  <2> SUFFICES ASSUME NEW i \in 1..n PROVE \E t \in Stored : rank[t] = i - 1
    OBVIOUS
  <2> HIDE DEF rank, n
  <2>3. i - 1 \in 0..(n - 1)
    BY <1>1
  <2> QED BY <2>2, <2>3 DEF Surjection
<1>6. \A i \in 1..n : at(i) \in Stored /\ Cardinality(Below(at(i))) = i - 1
  BY <1>5
<1>7. DOMAIN Restored = 1..n /\ \A i \in 1..n : Restored[i] = [time |-> at(i), value |-> cold[at(i)]]
  BY DEF Restored
<1> HIDE DEF at, Below, rank, n
<1>8. \A i \in 1..n : Restored[i].time = at(i) /\ Restored[i].value = cold[at(i)]
  BY <1>7
<1>9. \A t \in Stored : \E i \in DOMAIN Restored : Restored[i].time = t
  <2> SUFFICES ASSUME NEW t \in Stored PROVE \E i \in 1..n : at(i) = t
    BY <1>7, <1>8
  <2> DEFINE i == Cardinality(Below(t)) + 1
  <2>1. i \in 1..n /\ i - 1 = Cardinality(Below(t))
    BY <1>1, <1>2
  <2> HIDE DEF i
  <2>2. at(i) \in Stored /\ Cardinality(Below(at(i))) = Cardinality(Below(t))
    BY <1>6, <2>1
  <2>3. Cardinality(Below(t)) \in Nat
    BY <1>2
  <2>4. ~(at(i) < t)
    BY <1>3, <2>2, <2>3
  <2>5. ~(t < at(i))
    BY <1>3, <2>2, <2>3
  <2>6. at(i) = t
    BY <1>1, <2>2, <2>4, <2>5
  <2> QED BY <2>1, <2>6
<1>10. \A i, j \in 1..n : Restored[i].time = Restored[j].time => i = j
  <2> SUFFICES ASSUME NEW i \in 1..n, NEW j \in 1..n, at(i) = at(j) PROVE i = j
    BY <1>8
  <2>1. i - 1 = j - 1
    BY <1>6
  <2> QED BY <1>1, <2>1
<1>11. Restored \in Seq(Record)
  <2>1. ASSUME NEW i \in 1..n PROVE Restored[i] \in Record
    <3>1. at(i) \in Time /\ cold[at(i)] \in Result
      BY <1>6 DEF StorageTyped, Stored
    <3> QED BY <1>7, <3>1 DEF Record, OptTime
  <2>2. Restored = [i \in 1..n |-> Restored[i]]
    BY <1>7 DEF Restored, n
  <2> QED BY <1>1, <2>1, <2>2
<1>12. \A i \in 1..n : Restored[i].time \in Stored /\ Restored[i].value = cold[Restored[i].time]
  BY <1>6, <1>8
<1> QED BY <1>1, <1>7, <1>9, <1>10, <1>11, <1>12 DEF RestoredWell, n

-----------------------------------------------------------------------------
(* What holds of the buffers whatever their transactions write: no two       *)
(* records of one actor have the same time, and an actor never in use has    *)
(* none.  Where a new record replaces the stored one of its time, as in      *)
(* HeapColdStorage, what is marked stored is.                                *)
UniqueTimes ==
  \A o \in Obj : \A i, j \in Records(o) : history[o][i].time = history[o][j].time => i = j
Unused ==
  \A o \in Obj \ (closed \cup {current}) : history[o] = << >> /\ stored[o] = {}
RecordsTimed == \A o \in Obj : \A i \in Records(o) : history[o][i].time \in Time
HInv == StorageTyped /\ UniqueTimes /\ RecordsTimed /\ Unused /\ (~OldWins => MarkedIsStored)

held == <<history, stored, cold, current, closed>>

LEMMA HeldKeeps ==
  ASSUME HInv, UNCHANGED held
  PROVE  HInv'
BY DEF HInv, StorageTyped, Stored, UniqueTimes, RecordsTimed, Unused, MarkedIsStored, Records, held

(* A step that changes one buffer, and storage not at all.                   *)
LEMMA OneBufferKeeps ==
  ASSUME HInv, NEW o \in Obj, UNCHANGED cold,
         history' \in [Obj -> Seq(Record)], stored' \in [Obj -> SUBSET Nat],
         stored'[o] \subseteq DOMAIN history'[o],
         \A i, j \in Records(o)' : history'[o][i].time = history'[o][j].time => i = j,
         \A i \in Records(o)' : history'[o][i].time \in Time,
         ~OldWins => \A i \in stored'[o] \cap Records(o)' :
                       cold[history'[o][i].time] = history'[o][i].value,
         \A p \in Obj \ {o} : history'[p] = history[p] /\ stored'[p] = stored[p],
         o \in closed' \cup {current'},
         \A p \in Obj \ {o} : p \in closed \cup {current} <=> p \in closed' \cup {current'},
         closed \subseteq closed'
  PROVE  HInv'
<1>1. \A p \in Obj \ {o} : Records(p)' = Records(p)
  BY DEF Records
<1>2. StorageTyped'
  BY DEF HInv, StorageTyped, Stored
<1>3. UniqueTimes'
  <2> SUFFICES ASSUME NEW p \in Obj, NEW i \in Records(p)', NEW j \in Records(p)',
                      history'[p][i].time = history'[p][j].time
               PROVE  i = j
    BY DEF UniqueTimes
  <2>1. CASE p = o
    BY <2>1
  <2>2. CASE p # o
    BY <1>1, <2>2 DEF HInv, UniqueTimes
  <2> QED BY <2>1, <2>2
<1>3a. RecordsTimed'
  <2> SUFFICES ASSUME NEW p \in Obj, NEW i \in Records(p)' PROVE history'[p][i].time \in Time
    BY DEF RecordsTimed
  <2>1. CASE p = o
    BY <2>1
  <2>2. CASE p # o
    BY <1>1, <2>2 DEF HInv, RecordsTimed
  <2> QED BY <2>1, <2>2
<1>4. Unused'
  BY DEF HInv, Unused
<1>5. ~OldWins => MarkedIsStored'
  <2> SUFFICES ASSUME ~OldWins, NEW p \in Obj \ closed', NEW i \in (stored[p] \cap Records(p))'
               PROVE  cold'[history'[p][i].time] = history'[p][i].value
    BY DEF MarkedIsStored
  <2>1. CASE p = o
    BY <2>1
  <2>2. CASE p # o
    BY <1>1, <2>2 DEF HInv, MarkedIsStored
  <2> QED BY <2>1, <2>2
<1> QED BY <1>2, <1>3, <1>3a, <1>4, <1>5 DEF HInv

LEMMA RestoreHolds ==
  ASSUME IInv, HInv, NEW o \in Fresh, NEW time, Restore(o, time)
  PROVE  HInv'
<1>1. /\ current = NoObj /\ current' = o /\ o \in Obj /\ o \notin closed /\ NoObj \notin Obj
      /\ history' = [history EXCEPT ![o] = Restored]
      /\ stored' = [stored EXCEPT ![o] = 1..Cardinality(Stored)]
      /\ UNCHANGED <<cold, closed>>
  BY LifecycleAssumption DEF Restore, Fresh
<1>2. RestoredWell /\ StorageTyped
  BY RestoredRecords DEF HInv
<1>3. /\ history' \in [Obj -> Seq(Record)] /\ history'[o] = Restored
      /\ \A p \in Obj \ {o} : history'[p] = history[p]
  BY <1>1, <1>2 DEF StorageTyped, RestoredWell
<1>4. 1..Cardinality(Stored) \in SUBSET Nat
  BY <1>2 DEF RestoredWell
<1>5. /\ stored' \in [Obj -> SUBSET Nat] /\ stored'[o] = 1..Cardinality(Stored)
      /\ \A p \in Obj \ {o} : stored'[p] = stored[p]
  BY <1>1, <1>2, <1>4 DEF StorageTyped
<1>6. stored'[o] \subseteq DOMAIN history'[o] /\ Records(o)' \subseteq DOMAIN Restored
  BY <1>2, <1>3, <1>5 DEF RestoredWell, Records
<1>7. /\ \A i, j \in Records(o)' : history'[o][i].time = history'[o][j].time => i = j
      /\ \A i \in stored'[o] \cap Records(o)' : cold[history'[o][i].time] = history'[o][i].value
      /\ \A i \in Records(o)' : history'[o][i].time \in Time
  BY <1>2, <1>3, <1>6 DEF RestoredWell, Stored
<1>8. /\ o \in closed' \cup {current'} /\ closed \subseteq closed'
      /\ \A p \in Obj \ {o} : p \in closed \cup {current} <=> p \in closed' \cup {current'}
  BY <1>1
<1> QED BY <1>1, <1>3, <1>5, <1>6, <1>7, <1>8, OneBufferKeeps

LEMMA RestoreFailsHolds == HInv /\ RestoreFails => HInv'
<1> SUFFICES ASSUME HInv, RestoreFails PROVE HInv'
  OBVIOUS
<1>1. UNCHANGED <<history, stored, cold, closed>> /\ current \notin Obj /\ current' \notin Obj
  BY LifecycleAssumption DEF RestoreFails, memVars, nodeVars
<1>2. StorageTyped' /\ UniqueTimes' /\ RecordsTimed' /\ (~OldWins => MarkedIsStored')
  BY <1>1 DEF HInv, StorageTyped, Stored, UniqueTimes, RecordsTimed, MarkedIsStored, Records
<1>3. Unused'
  BY <1>1 DEF HInv, Unused
<1> QED BY <1>2, <1>3 DEF HInv

LEMMA CreateHolds ==
  ASSUME HInv, NEW t \in Time, Create(t)
  PROVE  HInv'
<1> DEFINE new == << [time |-> t, value |-> First] >>
<1>1. /\ current \in Obj /\ history[current] = << >>
      /\ history' = [history EXCEPT ![current] = new]
      /\ UNCHANGED <<stored, cold, current, closed>>
  BY DEF Create, InitValue, mapVars, nodeVars
<1>2. StorageTyped
  BY DEF HInv
<1>3. new \in Seq(Record) /\ DOMAIN new = {1}
  <2>1. [time |-> t, value |-> First] \in Record
    BY LifecycleAssumption DEF Record, OptTime, Result
  <2> QED BY <2>1
<1>4. /\ history' \in [Obj -> Seq(Record)] /\ history'[current] = new
      /\ \A p \in Obj \ {current} : history'[p] = history[p]
  BY <1>1, <1>2, <1>3 DEF StorageTyped
<1>5. stored'[current] = {}
  BY <1>1, <1>2 DEF StorageTyped
<1>6. stored' \in [Obj -> SUBSET Nat]
  BY <1>1, <1>2 DEF StorageTyped
<1>7. /\ \A i, j \in Records(current)' : i = j
      /\ \A i \in Records(current)' : history'[current][i].time \in Time
  BY <1>3, <1>4, <1>1 DEF Records
<1> QED BY <1>1, <1>4, <1>5, <1>6, <1>7, OneBufferKeeps

(* The buffer after a commit: its records but for those of the time of the   *)
(* new one, and that one behind them.                                        *)
AfterCommit(h, t, v) == Append(Without(h, t), [time |-> t, value |-> v])
IsAfterCommit(new, h, t, v) ==
  /\ new \in Seq(Record) /\ Len(h) \in Nat
  /\ DOMAIN h = 1..Len(h) /\ DOMAIN new = 1..(Len(h) + 1)
  /\ new[Len(h) + 1] = [time |-> t, value |-> v]
  /\ \A i \in DOMAIN h : new[i] = IF h[i].time = t THEN Removed ELSE h[i]

LEMMA InstalledBuffer ==
  ASSUME NEW h \in Seq(Record), NEW t \in Time, NEW v \in Result
  PROVE  IsAfterCommit(AfterCommit(h, t, v), h, t, v)
<1> DEFINE w == Without(h, t)
           r == [time |-> t, value |-> v]
<1>1. Len(h) \in Nat /\ DOMAIN h = 1..Len(h)
  OBVIOUS
<1>2. r \in Record /\ Removed \in Record
  BY TypesAssumption DEF Record, OptTime, Removed, Result, NoTime
<1>3. /\ w \in Seq(Record) /\ Len(w) = Len(h)
      /\ \A i \in 1..Len(h) : w[i] = IF h[i].time = t THEN Removed ELSE h[i]
  BY <1>1, <1>2 DEF Without
<1> HIDE DEF w, r
<1>4. /\ Append(w, r) \in Seq(Record) /\ Len(Append(w, r)) = Len(h) + 1
      /\ Append(w, r)[Len(h) + 1] = r
      /\ \A i \in 1..Len(h) : Append(w, r)[i] = w[i]
  BY <1>1, <1>2, <1>3
<1>5. DOMAIN Append(w, r) = 1..(Len(h) + 1)
  BY <1>4
<1> DEFINE new == Append(w, r)
<1> HIDE DEF new
<1>6. IsAfterCommit(new, h, t, v)
  BY <1>1, <1>3, <1>4, <1>5 DEF IsAfterCommit, new, r
<1> QED BY <1>6 DEF AfterCommit, new, w, r

LEMMA InstallHolds ==
  ASSUME IInv, HInv, NEW t \in Time, Install(t)
  PROVE  HInv'
<1> DEFINE h == history[current]
           new == AfterCommit(h, t, queuedValue[current])
<1>1. /\ current \in Obj /\ queuedValue[current] \in Result
      /\ history' = [history EXCEPT ![current] = new]
      /\ UNCHANGED <<stored, cold, current, closed>>
  BY DEF Install, CommitQueued, HasQueued, mapVars, nodeVars, IInv, LocksTyped, AfterCommit
<1>2. StorageTyped /\ h \in Seq(Record)
  BY <1>1 DEF HInv, StorageTyped
<1>2a. IsAfterCommit(new, h, t, queuedValue[current])
  BY <1>1, <1>2, InstalledBuffer
<1> HIDE DEF new
<1>3. /\ new \in Seq(Record) /\ Len(h) \in Nat /\ DOMAIN h = 1..Len(h)
      /\ DOMAIN new = 1..(Len(h) + 1)
      /\ new[Len(h) + 1] = [time |-> t, value |-> queuedValue[current]]
      /\ \A i \in DOMAIN h : new[i] = IF h[i].time = t THEN Removed ELSE h[i]
  BY <1>2a DEF IsAfterCommit
<1>4. /\ history' \in [Obj -> Seq(Record)] /\ history'[current] = new
      /\ \A p \in Obj \ {current} : history'[p] = history[p]
  BY <1>1, <1>2, <1>3 DEF StorageTyped
<1>5. /\ stored' \in [Obj -> SUBSET Nat]
      /\ stored'[current] = stored[current] /\ stored[current] \subseteq DOMAIN h
  BY <1>1, <1>2 DEF StorageTyped
<1>6. \A i \in Records(current)' :
        \/ i \in Records(current) /\ new[i] = h[i] /\ h[i].time # t
        \/ i = Len(h) + 1 /\ new[i].time = t
  BY <1>1, <1>3, <1>4 DEF Records
<1>7. /\ \A i, j \in Records(current)' :
           history'[current][i].time = history'[current][j].time => i = j
      /\ \A i \in Records(current)' : history'[current][i].time \in Time
  BY <1>1, <1>4, <1>6 DEF HInv, UniqueTimes, RecordsTimed
<1>8. \A i \in stored'[current] \cap Records(current)' :
        i \in Records(current) /\ i \in stored[current] /\ new[i] = h[i]
  BY <1>3, <1>5, <1>6
<1>9. ASSUME ~OldWins
      PROVE  \A i \in stored'[current] \cap Records(current)' :
               cold[history'[current][i].time] = history'[current][i].value
  BY <1>1, <1>4, <1>8, <1>9 DEF HInv, MarkedIsStored, IInv, CurrentOpen
<1> QED BY <1>1, <1>3, <1>4, <1>5, <1>7, <1>9, OneBufferKeeps

(* store writes the value of a record not marked yet under its time, or      *)
(* leaves what storage has; nothing leaves storage, whichever of the records *)
(* it gets to.                                                               *)
MergedAt(o, S, t) ==
  \/ cold'[t] = cold[t] /\ (cold[t] # NoValue \/ \A i \in S : history[o][i].time # t)
  \/ \E i \in S : history[o][i].time = t /\ cold'[t] = history[o][i].value

LEMMA MergeDoes ==
  ASSUME StorageTyped, NEW o \in Obj, NEW S \in SUBSET ToUpload(o), cold' = Merge(o, S)
  PROVE  /\ cold' \in [Time -> Result \cup {NoValue}]
         /\ \A t \in Time : MergedAt(o, S, t)
         /\ Stored \subseteq Stored' /\ IsFiniteSet(Stored')
         /\ \A i \in S : history[o][i].time \in Time => history[o][i].time \in Stored'
<1> DEFINE h == history[o]
           up == S
           chosen(t) == CHOOSE i \in up : h[i].time = t
           Times == {h[i].time : i \in up}
<1>1. h \in Seq(Record) /\ up \subseteq DOMAIN h /\ cold \in [Time -> Result \cup {NoValue}]
  BY DEF StorageTyped, ToUpload, Records
<1>2. \A i \in up : h[i].value \in Result /\ h[i].value # NoValue
  <2> HIDE DEF up, h
  <2> SUFFICES ASSUME NEW i \in up PROVE h[i].value \in Result /\ h[i].value # NoValue
    OBVIOUS
  <2>1. h[i] \in Record
    BY <1>1
  <2>2. h[i].value \in Result
    BY <2>1 DEF Record
  <2> QED BY <2>2, TypesAssumption DEF Result
<1>3. /\ DOMAIN cold' = Time
      /\ \A t \in Time : cold'[t] = IF \E i \in up : h[i].time = t /\ ~(OldWins /\ cold[t] # NoValue)
                                   THEN h[chosen(t)].value ELSE cold[t]
  BY DEF Merge
<1>4. \A t \in Time : (\E i \in up : h[i].time = t) => chosen(t) \in up /\ h[chosen(t)].time = t
  OBVIOUS
<1> HIDE DEF chosen
<1>5. \A t \in Time : MergedAt(o, S, t)
  <2> SUFFICES ASSUME NEW t \in Time PROVE MergedAt(o, S, t)
    OBVIOUS
  <2>1. CASE \E i \in up : h[i].time = t /\ ~(OldWins /\ cold[t] # NoValue)
    BY <1>3, <1>4, <2>1 DEF MergedAt
  <2>2. CASE ~\E i \in up : h[i].time = t /\ ~(OldWins /\ cold[t] # NoValue)
    BY <1>3, <2>2 DEF MergedAt
  <2> QED BY <2>1, <2>2
<1>6. ASSUME NEW t \in Time
      PROVE  \/ cold'[t] = cold[t] /\ (cold[t] # NoValue \/ t \notin Times)
             \/ t \in Times /\ cold'[t] \in Result /\ cold'[t] # NoValue
  <2>1. CASE cold'[t] = cold[t] /\ (cold[t] # NoValue \/ \A i \in up : h[i].time # t)
    BY <2>1
  <2>2. CASE \E i \in up : h[i].time = t /\ cold'[t] = h[i].value
    BY <1>2, <2>2
  <2> QED BY <1>5, <2>1, <2>2 DEF MergedAt
<1> HIDE DEF Times
<1>7. cold' \in [Time -> Result \cup {NoValue}]
  <2>1. cold' = [t \in Time |-> cold'[t]]
    BY <1>3 DEF Merge
  <2>2. ASSUME NEW t \in Time PROVE cold'[t] \in Result \cup {NoValue}
    BY <1>1, <1>6
  <2> QED BY <2>1, <2>2, Zenon
<1>8. Stored \subseteq Stored' /\ Stored' \subseteq Stored \cup Times
  <2>1. ASSUME NEW t \in Stored PROVE t \in Stored'
    BY <1>6, <2>1 DEF Stored
  <2>2. ASSUME NEW t \in Stored' PROVE t \in Stored \cup Times
    BY <1>6, <2>2 DEF Stored
  <2> QED BY <2>1, <2>2
<1>9. IsFiniteSet(Stored')
  <2>1. Len(h) \in Nat /\ DOMAIN h = 1..Len(h)
    BY <1>1
  <2>2. IsFiniteSet(1..Len(h))
    BY <2>1, FS_Interval
  <2>3. IsFiniteSet(up)
    BY <1>1, <2>1, <2>2, FS_Subset
  <2> DEFINE f == [i \in up |-> h[i].time]
  <2>4. f \in Surjection(up, Times)
    BY DEF Surjection, Times
  <2> HIDE DEF f, up, h
  <2>5. IsFiniteSet(Times)
    BY <2>3, <2>4, FS_Surjection
  <2>6. IsFiniteSet(Stored \cup Times)
    BY <2>5, FS_Union DEF StorageTyped
  <2> QED BY <1>8, <2>6, FS_Subset
<1>10. \A i \in up : h[i].time \in Time => h[i].time \in Stored'
  <2> SUFFICES ASSUME NEW i \in up, h[i].time \in Time PROVE h[i].time \in Stored'
    OBVIOUS
  <2>1. h[i].time \in Times
    BY DEF Times
  <2> DEFINE t == h[i].time
  <2>2. t \in Time /\ t \in Times
    BY <2>1
  <2> HIDE DEF up, h, t
  <2>3. cold'[t] # NoValue
    BY <1>6, <2>2
  <2>4. t \in Stored'
    BY <2>2, <2>3 DEF Stored
  <2> QED BY <2>4 DEF t
<1> QED BY <1>5, <1>7, <1>8, <1>9, <1>10

(* A store gets to the records S and marks those of M: all, or, when it      *)
(* fails, none.                                                              *)
IsStored(o, S, M) ==
  /\ M \subseteq S
  /\ o \notin closed /\ o = current /\ cold' = Merge(o, S)
  /\ stored' = [stored EXCEPT ![o] = @ \cup M]
  /\ UNCHANGED <<history, current, closed, status, committed>>

LEMMA StoreDoes ==
  ASSUME IInv, StorageTyped, NEW o \in Obj, StoreRecords(o) \/ StoreFails(o)
  PROVE  \E S, M \in SUBSET ToUpload(o) :
           /\ IsStored(o, S, M)
           /\ \/ UNCHANGED expiry
              \/ M = ToUpload(o) /\ expiry' = expiry \cup NewTask(o)
<1>1. o = current
  BY DEF StoreRecords, StoreFails, IInv, OnceCurrent
<1>2. CASE StoreRecords(o)
  <2>1. IsStored(o, ToUpload(o), ToUpload(o)) /\ expiry' = expiry \cup NewTask(o)
    BY <1>1, <1>2 DEF StoreRecords, IsStored, memVars, mapVars, txnVars
  <2> QED BY <2>1
<1>3. CASE StoreFails(o)
  <2>1. PICK S \in SUBSET ToUpload(o) : cold' = Merge(o, S)
    BY <1>3 DEF StoreFails
  <2>2. stored = [stored EXCEPT ![o] = @ \cup {}]
    BY DEF StorageTyped
  <2>3. IsStored(o, S, {}) /\ UNCHANGED expiry
    BY <1>1, <1>3, <2>1, <2>2 DEF StoreFails, IsStored, memVars, mapVars, txnVars
  <2> QED BY <2>3
<1> QED BY <1>2, <1>3

LEMMA StoreRecordsHolds ==
  ASSUME IInv, HInv, NEW o \in Obj, StoreRecords(o) \/ StoreFails(o)
  PROVE  HInv'
<1>0. PICK S, M \in SUBSET ToUpload(o) : IsStored(o, S, M)
  BY StoreDoes DEF HInv
<1>1. /\ M \subseteq S
      /\ o \notin closed /\ o = current /\ cold' = Merge(o, S)
      /\ stored' = [stored EXCEPT ![o] = @ \cup M]
      /\ UNCHANGED <<history, current, closed>>
  BY <1>0 DEF IsStored
<1>2. StorageTyped
  BY DEF HInv
<1>3. /\ cold' \in [Time -> Result \cup {NoValue}]
      /\ \A t \in Time : MergedAt(o, S, t)
      /\ IsFiniteSet(Stored')
  BY <1>1, <1>2, MergeDoes
<1>4. M \subseteq DOMAIN history[o] /\ M \in SUBSET Nat
  BY <1>2 DEF ToUpload, Records, StorageTyped
<1>5. /\ stored' \in [Obj -> SUBSET Nat] /\ stored'[o] = stored[o] \cup M
      /\ \A p \in Obj \ {o} : stored'[p] = stored[p]
  BY <1>1, <1>2, <1>4 DEF StorageTyped
<1>6. StorageTyped'
  <2>1. \A p \in Obj : stored'[p] \subseteq DOMAIN history[p]
    BY <1>2, <1>4, <1>5 DEF StorageTyped
  <2> QED BY <1>1, <1>2, <1>3, <1>5, <2>1 DEF StorageTyped
<1>7. UniqueTimes' /\ RecordsTimed'
  BY <1>1 DEF HInv, UniqueTimes, RecordsTimed, Records
<1>8. Unused'
  BY <1>1, <1>5 DEF HInv, Unused
<1>9. ASSUME ~OldWins PROVE MarkedIsStored'
  <2>1. \A p \in Obj : Records(p)' = Records(p)
    BY <1>1 DEF Records
  <2> SUFFICES ASSUME NEW p \in Obj \ closed, NEW i \in stored'[p] \cap Records(p)
               PROVE  cold'[history[p][i].time] = history[p][i].value
    BY <1>1, <2>1 DEF MarkedIsStored
  <2>2. p = o
    BY <1>1, <1>5, <1>8 DEF HInv, Unused
  <2>3. i \in stored[o] \/ i \in M
    BY <1>5, <2>2
  <2> DEFINE t == history[o][i].time
  <2>4. t \in Time
    BY <2>2 DEF HInv, RecordsTimed
  <2>5. cold'[t] = history[o][i].value
    <3>1. \A j \in S : j \in Records(o) /\ j \notin stored[o]
      BY DEF ToUpload
    <3>2. \A j \in S : history[o][j].time = t => j = i
      BY <2>2, <3>1 DEF HInv, UniqueTimes
    <3>3. CASE i \in stored[o]
      <4>1. cold[t] = history[o][i].value
        BY <1>9, <2>2, <3>3 DEF HInv, MarkedIsStored
      <4>2. \A j \in S : history[o][j].time # t
        BY <3>1, <3>2, <3>3
      <4>3. cold'[t] = cold[t]
        BY <1>3, <2>4, <4>2 DEF MergedAt
      <4> QED BY <4>1, <4>3
    <3>4. CASE i \in M
      <4>1. cold'[t] = Merge(o, S)[t] /\ ~OldWins
        BY <1>1, <1>9
      <4>2. \E j \in S : history[o][j].time = t /\ ~(OldWins /\ cold[t] # NoValue)
        BY <1>1, <1>9, <3>4
      <4>3. cold'[t] = history[o][CHOOSE j \in S : history[o][j].time = t].value
        BY <2>4, <4>1, <4>2 DEF Merge
      <4>4. (CHOOSE j \in S : history[o][j].time = t) = i
        BY <1>1, <3>2, <3>4
      <4> QED BY <4>3, <4>4
    <3> QED BY <2>3, <3>3, <3>4
  <2> QED BY <2>2, <2>5
<1> QED BY <1>6, <1>7, <1>8, <1>9 DEF HInv

(* A collection removes records of an actor that has some.                   *)
IsCollected(o) ==
  /\ DOMAIN history'[o] = DOMAIN history[o]
  /\ \A i \in DOMAIN history[o] : history'[o][i] \in {Removed, history[o][i]}
  /\ history' \in [Obj -> Seq(Record)]
  /\ \A p \in Obj \ {o} : history'[p] = history[p]

LEMMA CollectDoes ==
  ASSUME StorageTyped, NEW o \in Obj, NEW t, Collect(o, t)
  PROVE  IsCollected(o)
<1>1. history \in [Obj -> Seq(Record)] /\ history[o] \in Seq(Record)
  BY DEF StorageTyped
<1>2. Removed \in Record
  BY TypesAssumption DEF Record, OptTime, Removed, Result
<1>3. CASE history' = history
  BY <1>1, <1>3 DEF IsCollected
<1> DEFINE h == history[o]
           new == [i \in DOMAIN h |-> IF h[i].time <= t /\ i # Newest(o) THEN Removed ELSE h[i]]
<1>4. CASE history' = [history EXCEPT ![o] = new]
  <2>1. Len(h) \in Nat /\ DOMAIN h = 1..Len(h) /\ DOMAIN new = DOMAIN h
    BY <1>1
  <2>2. \A i \in DOMAIN h : new[i] \in {Removed, h[i]}
    OBVIOUS
  <2>3. new = [i \in 1..Len(h) |-> new[i]]
    BY <2>1
  <2>4. \A i \in 1..Len(h) : new[i] \in Record
    BY <1>1, <1>2, <2>1, <2>2
  <2> HIDE DEF new
  <2>5. new \in Seq(Record)
    BY <2>1, <2>3, <2>4
  <2>6. history'[o] = new /\ \A p \in Obj \ {o} : history'[p] = history[p]
    BY <1>1, <1>4
  <2>7. history' \in [Obj -> Seq(Record)]
    BY <1>1, <1>4, <2>5
  <2> QED BY <2>1, <2>2, <2>6, <2>7 DEF IsCollected
<1> QED BY <1>3, <1>4 DEF Collect

LEMMA CollectHolds ==
  ASSUME HInv, NEW o \in Obj, NEW t, Collect(o, t)
  PROVE  HInv'
<1>1. UNCHANGED <<stored, cold, current, closed>>
  BY DEF Collect, mapVars
<1>2. CASE Records(o) = {}
  <2>1. UNCHANGED held
    BY <1>1, <1>2 DEF Collect, held
  <2> QED BY <2>1, HeldKeeps
<1>3. CASE Records(o) # {}
  <2>1. o \in closed \cup {current}
    <3>1. history[o] # << >>
      BY <1>3 DEF Records
    <3> QED BY <3>1 DEF HInv, Unused
  <2>2. StorageTyped /\ IsCollected(o)
    BY CollectDoes DEF HInv
  <2>3. \A i \in Records(o)' : i \in Records(o) /\ history'[o][i] = history[o][i]
    BY <2>2 DEF Records, IsCollected
  <2>4. stored'[o] \subseteq DOMAIN history'[o] /\ stored' \in [Obj -> SUBSET Nat]
    BY <1>1, <2>2 DEF StorageTyped, IsCollected
  <2>5. /\ \A i, j \in Records(o)' : history'[o][i].time = history'[o][j].time => i = j
        /\ \A i \in Records(o)' : history'[o][i].time \in Time
    BY <2>3 DEF HInv, UniqueTimes, RecordsTimed
  <2>6. CASE o \notin closed
    <3>1. ~OldWins => \A i \in stored'[o] \cap Records(o)' :
                        cold[history'[o][i].time] = history'[o][i].value
      BY <1>1, <2>3, <2>6 DEF HInv, MarkedIsStored
    <3> QED BY <1>1, <2>1, <2>2, <2>4, <2>5, <3>1, OneBufferKeeps DEF IsCollected
  <2>7. CASE o \in closed
    <3>1. UNCHANGED held
      BY <1>1, <2>7 DEF Collect, held
    <3> QED BY <3>1, HeldKeeps
  <2> QED BY <2>6, <2>7
<1> QED BY <1>2, <1>3

LEMMA ExpireHolds ==
  ASSUME IInv, HInv, NEW e \in expiry, Expire(e)
  PROVE  HInv'
<1>1. e.obj = current /\ current \in Obj
  BY DEF Expire, Settled, IInv, LocksTyped, OnceCurrent
<1>2. /\ current' = NoObj /\ closed' = closed \cup {current} /\ NoObj \notin Obj
      /\ UNCHANGED <<history, stored, cold>>
  BY <1>1, LifecycleAssumption DEF Expire, memVars
<1>3. StorageTyped' /\ UniqueTimes' /\ RecordsTimed'
  BY <1>2 DEF HInv, StorageTyped, Stored, UniqueTimes, RecordsTimed, Records
<1>4. Unused' /\ (~OldWins => MarkedIsStored')
  BY <1>2 DEF HInv, Unused, MarkedIsStored, Records
<1> QED BY <1>3, <1>4 DEF HInv

LEMMA BuffersInit == Init => HInv
<1> SUFFICES ASSUME Init PROVE HInv
  OBVIOUS
<1>1. /\ history = [o \in Obj |-> << >>] /\ stored = [o \in Obj |-> {}]
      /\ cold = [t \in Time |-> NoValue]
  BY DEF Init, MemInit, Obj
<1>2. Stored = {}
  BY <1>1 DEF Stored
<1>3. IsFiniteSet(Stored)
  BY <1>2, FS_EmptySet
<1>4. \A o \in Obj : Records(o) = {}
  BY <1>1 DEF Records
<1>5. StorageTyped
  BY <1>1, <1>3 DEF StorageTyped
<1> QED BY <1>1, <1>4, <1>5 DEF HInv, UniqueTimes, RecordsTimed, Unused, MarkedIsStored

LEMMA BuffersHold == IInv /\ HInv /\ [Next]_vars => HInv'
<1> SUFFICES ASSUME IInv, HInv, [Next]_vars PROVE HInv'
  OBVIOUS
<1>1. ASSUME NEW o \in Fresh, NEW time, Restore(o, time) PROVE HInv'
  BY <1>1, RestoreHolds
<1>2. ASSUME RestoreFails PROVE HInv'
  BY <1>2, RestoreFailsHolds
<1>3. ASSUME NEW t \in Time, Transact(t) PROVE HInv'
  <2>1. CASE Call(t)
    BY <1>1, <1>2, <2>1 DEF Call
  <2>2. CASE Create(t)
    BY <2>2, CreateHolds
  <2>3. CASE Install(t)
    BY <2>3, InstallHolds
  <2>4. CASE \/ Lock(t) \/ Decide(t) \/ Revert(t) \/ SendRead(t) \/ Read(t)
             \/ \E v \in Result : Queue(t, v)
    <3>1. UNCHANGED held
      BY <2>4 DEF Lock, Decide, Revert, SendRead, Read, Queue, QueueNormally, WriteReset, held,
                  mapVars, nodeVars, memVars
    <3> QED BY <3>1, HeldKeeps
  <2> QED BY <1>3, <2>1, <2>2, <2>3, <2>4 DEF Transact
<1>4. ASSUME Freeze \/ AskFlush PROVE HInv'
  <2>1. CASE FreezeFinds
    BY <1>1, <1>2, <2>1 DEF FreezeFinds
  <2>2. CASE QueueStorage \/ FreezeSends \/ FreezeFlushes \/ AskFlush
    <3>1. UNCHANGED held
      BY <2>2 DEF QueueStorage, FreezeSends, FreezeFlushes, AskFlush, held, mapVars, memVars
    <3> QED BY <3>1, HeldKeeps
  <2> QED BY <1>4, <2>1, <2>2 DEF Freeze
<1>5. ASSUME NEW o \in Obj, Store(o) PROVE HInv'
  <2>1. CASE StoreRecords(o) \/ StoreFails(o)
    BY <2>1, StoreRecordsHolds
  <2>2. CASE StoreNothing(o)
    <3>1. UNCHANGED held
      BY <2>2 DEF StoreNothing, held, mapVars, memVars
    <3> QED BY <3>1, HeldKeeps
  <2> QED BY <1>5, <2>1, <2>2 DEF Store
<1>6. ASSUME NEW o \in Obj, NEW t \in Old, Collect(o, t) PROVE HInv'
  BY <1>6, CollectHolds
<1>7. ASSUME NEW e \in expiry, ExpireNot(e) \/ ExpireLater(e) \/ Expire(e) PROVE HInv'
  <2>1. CASE Expire(e)
    BY <2>1, ExpireHolds
  <2>2. CASE ExpireNot(e) \/ ExpireLater(e)
    <3>1. UNCHANGED held
      BY <2>2 DEF ExpireNot, ExpireLater, held, mapVars, memVars
    <3> QED BY <3>1, HeldKeeps
  <2> QED BY <1>7, <2>1, <2>2
<1>8. CASE UNCHANGED vars
  <2>1. UNCHANGED held
    BY <1>8 DEF vars, held, memVars, mapVars, nodeVars
  <2> QED BY <2>1, HeldKeeps
<1>9. CASE Node
  BY <1>4, <1>5, <1>6, <1>7, <1>9 DEF Node
<1> QED BY <1>3, <1>8, <1>9 DEF Next

LEMMA AlwaysHInv == Spec => [](IInv /\ HInv)
BY InitHolds, StepHolds, BuffersInit, BuffersHold, PTL DEF Spec

-----------------------------------------------------------------------------
(* What is on record is what the transactions decided, and the newest of it  *)
(* is kept, if the transaction that makes the pointer writes it no more (one *)
(* that writes it twice writes two records of one time, and only the first   *)
(* may reach storage).  A transaction has written once its record is in the  *)
(* actor's buffer;                                                           *)
Written == {t \in Time : status[t] \in {"created", "installed"}}
ValueOf(t) == IF t = Creator THEN First ELSE committed[t]

(* the creator comes first, and has no lock;                                 *)
CreatorOnly ==
  /\ \A t \in Time : status[t] = "created" => t = Creator
  /\ Creator \in Time =>
       /\ status[Creator] \in {"idle", "created", "installed"}
       /\ status[Creator] = "installed" => committed[Creator] = First
MadeFirst ==
  Creator \in Time /\ status[Creator] \in {"idle", "created"} =>
    /\ committed[Creator] = NoValue
    /\ \A t \in Time : status[t] \notin Holding /\ status[t] # "installed"
TxnInv == CreatorOnly /\ MadeFirst

(* every record, in a buffer or in storage, is of a transaction that wrote,  *)
(* with its value; what is marked stored is, and what an expiry task         *)
(* remembers;                                                                *)
RecordsWritten ==
  \A o \in Obj : \A i \in Records(o) :
    /\ history[o][i].time \in Written
    /\ history[o][i].value = ValueOf(history[o][i].time)
ColdWritten == \A t \in Stored : t \in Written /\ cold[t] = ValueOf(t)
MarkedInCold == \A o \in Obj : \A i \in stored[o] \cap Records(o) : history[o][i].time \in Stored
TasksInCold == \A e \in expiry : e.txns \subseteq Stored

(* and no write is newer than all that the actor in use holds, or storage    *)
(* when there is none.                                                       *)
HeldAt(u) ==
  IF current \in Obj THEN \E i \in Records(current) : history[current][i].time = u
                     ELSE u \in Stored
Surviving == \A t \in Written : \E u \in Written : t <= u /\ HeldAt(u)

DataInv == RecordsWritten /\ ColdWritten /\ MarkedInCold /\ TasksInCold /\ Surviving
SInv == TxnInv /\ DataInv

(* The same transactions have written the same, to the same records.         *)
SameWrites == Written' = Written /\ \A t \in Written : ValueOf(t)' = ValueOf(t)

LEMMA DataKeeps ==
  ASSUME DataInv, SameWrites, UNCHANGED <<history, stored, cold, current>>,
         \A e \in expiry' : \E f \in expiry : e.txns = f.txns
  PROVE  DataInv'
<1>1. \A o \in Obj : Records(o)' = Records(o)
  BY DEF Records
<1>2. Stored' = Stored
  BY DEF Stored
<1>3. RecordsWritten' /\ ColdWritten'
  BY <1>1, <1>2 DEF DataInv, RecordsWritten, ColdWritten, SameWrites
<1>4. MarkedInCold' /\ TasksInCold'
  BY <1>1, <1>2 DEF DataInv, MarkedInCold, TasksInCold
<1>5. Surviving'
  <2>1. \A u \in Written : HeldAt(u)' <=> HeldAt(u)
    BY <1>1, <1>2 DEF HeldAt
  <2> QED BY <2>1 DEF DataInv, Surviving, SameWrites
<1> QED BY <1>3, <1>4, <1>5 DEF DataInv

LEMMA SurvivesInit == Init => SInv
<1> SUFFICES ASSUME Init PROVE SInv
  OBVIOUS
<1>1. /\ history = [o \in Obj |-> << >>] /\ cold = [t \in Time |-> NoValue] /\ expiry = {}
      /\ status = [t \in Time |-> "idle"] /\ committed = [t \in Time |-> NoValue]
  BY DEF Init, MemInit, Obj
<1>2. Written = {} /\ Stored = {} /\ \A o \in Obj : Records(o) = {}
  BY <1>1 DEF Written, Stored, Records
<1>3. TxnInv
  BY <1>1 DEF TxnInv, CreatorOnly, MadeFirst, Holding
<1>4. DataInv
  BY <1>1, <1>2 DEF DataInv, RecordsWritten, ColdWritten, MarkedInCold, TasksInCold, Surviving
<1> QED BY <1>3, <1>4 DEF SInv

(* The steps of transactions between the creation and an installation write  *)
(* nothing.                                                                  *)
LEMMA LockSurvives ==
  ASSUME IInv, SInv, Creator \notin Writer, NEW t \in Time, Lock(t)
  PROVE  SInv'
<1>1. /\ t # Creator /\ Known(t) /\ status[t] = "idle"
      /\ status' = [status EXCEPT ![t] = "locked"]
      /\ UNCHANGED <<committed, history, stored, cold, current, expiry>>
  BY DEF Lock, Goes, mapVars, nodeVars
<1>2. Creator \in Time => status[Creator] = "installed"
  BY <1>1 DEF Known, SInv, TxnInv, CreatorOnly, MadeFirst
<1>3. TxnInv'
  BY <1>1, <1>2 DEF IInv, LocksTyped, SInv, TxnInv, CreatorOnly, MadeFirst
<1>4. SameWrites
  BY <1>1 DEF IInv, LocksTyped, SameWrites, Written, ValueOf
<1>5. DataInv'
  BY <1>1, <1>4, DataKeeps DEF SInv
<1> QED BY <1>3, <1>5 DEF SInv

LEMMA QueueSurvives ==
  ASSUME IInv, SInv, NEW t \in Time, NEW v \in Result, Queue(t, v)
  PROVE  SInv'
<1>1. /\ status[t] = "locked" /\ status' = [status EXCEPT ![t] = "queued"]
      /\ UNCHANGED <<committed, history, stored, cold, current, expiry>>
  BY DEF Queue, QueueNormally, Goes, mapVars, nodeVars
<1>2. t # Creator
  BY <1>1 DEF SInv, TxnInv, CreatorOnly
<1>3. TxnInv'
  BY <1>1, <1>2 DEF IInv, LocksTyped, SInv, TxnInv, CreatorOnly, MadeFirst, Holding
<1>4. SameWrites
  BY <1>1 DEF IInv, LocksTyped, SameWrites, Written, ValueOf
<1>5. DataInv'
  BY <1>1, <1>4, DataKeeps DEF SInv
<1> QED BY <1>3, <1>5 DEF SInv

LEMMA DecideSurvives ==
  ASSUME IInv, SInv, NEW t \in Time, Decide(t)
  PROVE  SInv'
<1>1. UNCHANGED <<history, stored, cold, current, expiry>>
  BY DEF Decide, memVars, mapVars, nodeVars
<1>2. CASE /\ status[t] = "queued" /\ status' = [status EXCEPT ![t] = "decided"]
           /\ committed' = [committed EXCEPT ![t] = queuedValue[current]]
  <2>1. t # Creator
    BY <1>2 DEF SInv, TxnInv, CreatorOnly
  <2>2. TxnInv'
    BY <1>2, <2>1 DEF IInv, LocksTyped, SInv, TxnInv, CreatorOnly, MadeFirst, Holding
  <2>3. SameWrites
    BY <1>2 DEF IInv, LocksTyped, SameWrites, Written, ValueOf
  <2>4. DataInv'
    BY <1>1, <2>3, DataKeeps DEF SInv
  <2> QED BY <2>2, <2>4 DEF SInv
<1>3. CASE /\ status[t] = "created" /\ status' = [status EXCEPT ![t] = "installed"]
           /\ committed' = [committed EXCEPT ![t] = First]
  <2>1. t = Creator
    BY <1>3 DEF SInv, TxnInv, CreatorOnly
  <2>2. TxnInv'
    BY <1>3, <2>1 DEF IInv, LocksTyped, SInv, TxnInv, CreatorOnly, MadeFirst
  <2>3. SameWrites
    BY <1>3, <2>1 DEF IInv, LocksTyped, SameWrites, Written, ValueOf
  <2>4. DataInv'
    BY <1>1, <2>3, DataKeeps DEF SInv
  <2> QED BY <2>2, <2>4 DEF SInv
<1> QED BY <1>2, <1>3 DEF Decide, Goes

LEMMA RevertSurvives ==
  ASSUME IInv, SInv, NEW t \in Time, Revert(t)
  PROVE  SInv'
<1>1. /\ status[t] \in {"locked", "queued"} /\ status' = [status EXCEPT ![t] = "gone"]
      /\ UNCHANGED <<committed, history, stored, cold, current, expiry>>
  BY DEF Revert, WriteReset, Goes, mapVars, nodeVars
<1>2. t # Creator
  BY <1>1 DEF SInv, TxnInv, CreatorOnly
<1>3. TxnInv'
  BY <1>1, <1>2 DEF IInv, LocksTyped, SInv, TxnInv, CreatorOnly, MadeFirst, Holding
<1>4. SameWrites
  BY <1>1 DEF IInv, LocksTyped, SameWrites, Written, ValueOf
<1>5. DataInv'
  BY <1>1, <1>4, DataKeeps DEF SInv
<1> QED BY <1>3, <1>5 DEF SInv

(* Steps of the node that leave records and storage alone.                   *)
LEMMA OthersSurvive ==
  ASSUME SInv, UNCHANGED <<status, committed, history, stored, cold, current>>,
         \A e \in expiry' : \E f \in expiry : e.txns = f.txns
  PROVE  SInv'
<1>1. TxnInv'
  BY DEF SInv, TxnInv, CreatorOnly, MadeFirst
<1>2. SameWrites
  BY DEF SameWrites, Written, ValueOf
<1>3. DataInv'
  BY <1>2, DataKeeps DEF SInv
<1> QED BY <1>1, <1>3 DEF SInv

(* A creation is the first write of all.                                     *)
LEMMA CreateSurvives ==
  ASSUME IInv, HInv, SInv, NEW t \in Time, Create(t)
  PROVE  SInv'
<1> DEFINE new == << [time |-> t, value |-> First] >>
<1>1. /\ t = Creator /\ current \in Obj /\ status[t] = "idle"
      /\ status' = [status EXCEPT ![t] = "created"]
      /\ history' = [history EXCEPT ![current] = new]
      /\ UNCHANGED <<committed, stored, cold, current, expiry>>
  BY DEF Create, InitValue, Goes, mapVars, nodeVars
<1>2. Written = {}
  BY <1>1 DEF SInv, TxnInv, CreatorOnly, MadeFirst, Written
<1>3. Written' = {t} /\ ValueOf(t)' = First
  BY <1>1, <1>2 DEF IInv, LocksTyped, Written, ValueOf
<1>4. TxnInv'
  BY <1>1 DEF IInv, LocksTyped, SInv, TxnInv, CreatorOnly, MadeFirst, Holding
<1>5. Stored' = {} /\ Stored = {}
  BY <1>1, <1>2 DEF SInv, DataInv, ColdWritten, Stored
<1>6. \A o \in Obj : Records(o) = {}
  BY <1>2 DEF SInv, DataInv, RecordsWritten
<1>7. history'[current] = new /\ \A o \in Obj \ {current} : Records(o)' = {}
  BY <1>1, <1>6 DEF HInv, StorageTyped, Records
<1>8. Records(current)' = {1} /\ history'[current][1].time = t /\ history'[current][1].value = First
  <2>1. DOMAIN new = {1} /\ new[1] = [time |-> t, value |-> First]
    OBVIOUS
  <2>2. new[1] # Removed
    BY <2>1, TypesAssumption DEF Removed, NoTime
  <2> QED BY <1>1, <1>7, <2>1, <2>2 DEF Records
<1>9. RecordsWritten' /\ ColdWritten' /\ TasksInCold'
  BY <1>1, <1>3, <1>5, <1>7, <1>8 DEF SInv, DataInv, RecordsWritten, ColdWritten, TasksInCold
<1>10. MarkedInCold'
  <2>1. history[current] = << >> /\ stored[current] \subseteq DOMAIN history[current]
    BY <1>1 DEF Create, InitValue, HInv, StorageTyped
  <2>2. stored'[current] = {}
    BY <1>1, <2>1
  <2> QED BY <1>1, <1>7, <2>2 DEF MarkedInCold
<1>11. Surviving'
  <2>1. HeldAt(t)'
    BY <1>1, <1>8 DEF HeldAt
  <2>2. t <= t
    BY TypesAssumption
  <2> QED BY <1>3, <2>1, <2>2 DEF Surviving
<1> QED BY <1>4, <1>9, <1>10, <1>11 DEF SInv, DataInv

(* An installation adds the record of a transaction that has none yet, with  *)
(* the value that was decided.                                               *)
LEMMA InstallSurvives ==
  ASSUME IInv, HInv, SInv, NEW t \in Time, Install(t)
  PROVE  SInv'
<1> DEFINE h == history[current]
           v == queuedValue[current]
           new == AfterCommit(h, t, v)
           last == Len(h) + 1
<1>1. /\ current \in Obj /\ v \in Result /\ status[t] = "decided"
      /\ status' = [status EXCEPT ![t] = "installed"]
      /\ history' = [history EXCEPT ![current] = new]
      /\ UNCHANGED <<committed, stored, cold, current, expiry>>
  BY DEF Install, CommitQueued, HasQueued, Goes, mapVars, nodeVars, IInv, LocksTyped, AfterCommit
<1>2. h \in Seq(Record) /\ stored[current] \subseteq DOMAIN h
  BY <1>1 DEF HInv, StorageTyped
<1>3. IsAfterCommit(new, h, t, v)
  BY <1>1, <1>2, InstalledBuffer
<1> HIDE DEF new
<1>4. t # Creator /\ v = committed[t] /\ t \notin Written
  BY <1>1 DEF SInv, TxnInv, CreatorOnly, IInv, DecidedKept, Written
<1>5. TxnInv'
  BY <1>1, <1>4 DEF IInv, LocksTyped, SInv, TxnInv, CreatorOnly, MadeFirst, Holding
<1>6. Written' = Written \cup {t} /\ \A u \in Time : ValueOf(u)' = ValueOf(u)
  BY <1>1 DEF IInv, LocksTyped, Written, ValueOf
<1>7. history'[current] = new /\ \A o \in Obj \ {current} : history'[o] = history[o]
  BY <1>1 DEF HInv, StorageTyped
<1>8. /\ new[last] = [time |-> t, value |-> v] /\ new[last] # Removed /\ last \in DOMAIN new
      /\ last \notin DOMAIN h /\ DOMAIN new = DOMAIN h \cup {last}
      /\ \A i \in DOMAIN h : new[i] = IF h[i].time = t THEN Removed ELSE h[i]
  <2>1. new[last] # Removed
    <3>1. new[last].time = t /\ Removed.time = NoTime /\ t # NoTime
      BY <1>3, TypesAssumption DEF IsAfterCommit, Removed, NoTime
    <3> QED BY <3>1
  <2> QED BY <1>3, <2>1 DEF IsAfterCommit
<1> HIDE DEF last, h, v
<1>9. \A i \in Records(current) : h[i].time # t
  BY <1>1, <1>4 DEF SInv, DataInv, RecordsWritten, h
<1>10. Records(current)' = Records(current) \cup {last}
  BY <1>1, <1>7, <1>8, <1>9 DEF Records, h
<1>11. \A o \in Obj \ {current} : Records(o)' = Records(o)
  BY <1>7 DEF Records
<1>12. \A i \in Records(current) : new[i] = h[i]
  BY <1>8, <1>9 DEF Records, h
<1>13. Stored' = Stored /\ Stored \subseteq Time
  BY <1>1 DEF Stored
<1>14. RecordsWritten'
  <2> SUFFICES ASSUME NEW o \in Obj, NEW i \in Records(o)'
               PROVE  (/\ history[o][i].time \in Written
                       /\ history[o][i].value = ValueOf(history[o][i].time))'
    BY DEF RecordsWritten
  <2>1. CASE o # current
    <3>1. i \in Records(o) /\ history'[o][i] = history[o][i]
      BY <1>7, <1>11, <2>1
    <3>2. history[o][i].time \in Written /\ history[o][i].value = ValueOf(history[o][i].time)
      BY <3>1 DEF SInv, DataInv, RecordsWritten
    <3> QED BY <1>1, <1>6, <3>1, <3>2 DEF ValueOf
  <2>2. CASE o = current /\ i \in Records(current)
    <3>1. history'[o][i] = h[i]
      BY <1>7, <1>12, <2>2
    <3>2. h[i].time \in Written /\ h[i].value = ValueOf(h[i].time)
      BY <2>2 DEF SInv, DataInv, RecordsWritten, h
    <3> QED BY <1>1, <1>6, <3>1, <3>2 DEF ValueOf
  <2>3. CASE o = current /\ i = last
    <3>1. history'[o][i].time = t /\ history'[o][i].value = v
      BY <1>7, <1>8, <2>3
    <3>2. (history[o][i].time \in Written)'
      BY <1>6, <3>1
    <3>3. committed'[t] = v
      BY <1>1, <1>4
    <3>4. (history[o][i].value = ValueOf(history[o][i].time))'
      BY <1>4, <3>1, <3>3 DEF ValueOf
    <3> QED BY <3>2, <3>4
  <2> QED BY <1>1, <1>10, <2>1, <2>2, <2>3
<1>15. ColdWritten'
  <2> SUFFICES ASSUME NEW u \in Stored PROVE u \in Written' /\ cold[u] = ValueOf(u)'
    BY <1>1, <1>13 DEF ColdWritten
  <2> QED BY <1>6, <1>13 DEF SInv, DataInv, ColdWritten
<1>16. MarkedInCold'
  <2> SUFFICES ASSUME NEW o \in Obj, NEW i \in stored[o] \cap Records(o)'
               PROVE  history'[o][i].time \in Stored
    BY <1>1, <1>13 DEF MarkedInCold
  <2>1. i \in Records(o) /\ history'[o][i] = history[o][i]
    <3>1. CASE o # current
      BY <1>7, <1>11, <3>1
    <3>2. CASE o = current
      <4>1. i \in Records(current) \cup {last} /\ i \in DOMAIN h
        BY <1>1, <1>2, <1>10, <3>2
      <4>2. i \in Records(current)
        BY <1>8, <4>1
      <4> QED BY <1>7, <1>12, <3>2, <4>2 DEF h
    <3> QED BY <3>1, <3>2
  <2> QED BY <2>1 DEF SInv, DataInv, MarkedInCold
<1>17. TasksInCold'
  BY <1>1, <1>13 DEF SInv, DataInv, TasksInCold
<1>18. Surviving'
  <2>1. HeldAt(t)'
    BY <1>1, <1>7, <1>8, <1>10 DEF HeldAt
  <2>2. ASSUME NEW u \in Written, HeldAt(u) PROVE HeldAt(u)'
    <3>1. PICK i \in Records(current) : history[current][i].time = u
      BY <1>1, <2>2 DEF HeldAt
    <3>2. i \in Records(current)' /\ history'[current][i].time = u
      BY <1>7, <1>10, <1>12, <3>1 DEF h
    <3> QED BY <1>1, <3>2 DEF HeldAt
  <2>3. t <= t
    BY TypesAssumption
  <2> QED BY <1>6, <2>1, <2>2, <2>3 DEF SInv, DataInv, Surviving
<1> QED BY <1>5, <1>14, <1>15, <1>16, <1>17, <1>18 DEF SInv, DataInv

(* A restored actor has what storage has, all of it marked.                  *)
LEMMA RestoreSurvives ==
  ASSUME HInv, SInv, NEW o \in Fresh, NEW time, Restore(o, time)
  PROVE  SInv'
<1>1. /\ current \notin Obj /\ current' = o /\ o \in Obj
      /\ history' = [history EXCEPT ![o] = Restored]
      /\ stored' = [stored EXCEPT ![o] = 1..Cardinality(Stored)]
      /\ UNCHANGED <<cold, expiry, status, committed>>
  BY LifecycleAssumption DEF Restore, Fresh, txnVars
<1>2. RestoredWell
  BY RestoredRecords DEF HInv
<1>3. /\ history'[o] = Restored /\ stored'[o] = 1..Cardinality(Stored)
      /\ \A p \in Obj \ {o} : history'[p] = history[p] /\ stored'[p] = stored[p]
  BY <1>1 DEF HInv, StorageTyped
<1>4. /\ Stored' = Stored /\ Written' = Written /\ \A t \in Time : ValueOf(t)' = ValueOf(t)
      /\ Stored \subseteq Time
  BY <1>1 DEF Stored, Written, ValueOf
<1>5. \A p \in Obj \ {o} : Records(p)' = Records(p)
  BY <1>3 DEF Records
<1>6. Records(o)' = DOMAIN Restored
  <2>1. \A i \in DOMAIN Restored : Restored[i] # Removed
    <3> SUFFICES ASSUME NEW i \in DOMAIN Restored PROVE Restored[i].time # NoTime
      BY DEF Removed
    <3>1. Restored[i].time \in Time
      BY <1>2, <1>4 DEF RestoredWell
    <3> QED BY <3>1, TypesAssumption DEF NoTime
  <2> QED BY <1>3, <2>1 DEF Records
<1>7. RecordsWritten'
  <2> SUFFICES ASSUME NEW p \in Obj, NEW i \in Records(p)'
               PROVE  (/\ history[p][i].time \in Written
                       /\ history[p][i].value = ValueOf(history[p][i].time))'
    BY DEF RecordsWritten
  <2>1. CASE p = o
    <3>1. Restored[i].time \in Stored /\ Restored[i].value = cold[Restored[i].time]
      BY <1>2, <1>6, <2>1 DEF RestoredWell
    <3>2. Restored[i].time \in Written /\ Restored[i].value = ValueOf(Restored[i].time)
      BY <3>1 DEF SInv, DataInv, ColdWritten
    <3> QED BY <1>1, <1>3, <1>4, <2>1, <3>2 DEF ValueOf
  <2>2. CASE p # o
    <3>1. /\ history[p][i].time \in Written /\ history[p][i].value = ValueOf(history[p][i].time)
          /\ history'[p][i] = history[p][i]
      BY <1>3, <1>5, <2>2 DEF SInv, DataInv, RecordsWritten
    <3> QED BY <1>1, <1>4, <3>1 DEF ValueOf
  <2> QED BY <2>1, <2>2
<1>8. ColdWritten' /\ TasksInCold'
  BY <1>1, <1>4 DEF SInv, DataInv, ColdWritten, TasksInCold
<1>9. MarkedInCold'
  <2> SUFFICES ASSUME NEW p \in Obj, NEW i \in (stored[p] \cap Records(p))'
               PROVE  history'[p][i].time \in Stored
    BY <1>4 DEF MarkedInCold
  <2>1. CASE p = o
    BY <1>2, <1>3, <1>6, <2>1 DEF RestoredWell
  <2>2. CASE p # o
    BY <1>3, <1>5, <2>2 DEF SInv, DataInv, MarkedInCold
  <2> QED BY <2>1, <2>2
<1>10. Surviving'
  <2>1. ASSUME NEW u \in Written, HeldAt(u) PROVE HeldAt(u)'
    <3>1. u \in Stored
      BY <1>1, <2>1 DEF HeldAt
    <3>2. PICK i \in DOMAIN Restored : Restored[i].time = u
      BY <1>2, <3>1 DEF RestoredWell
    <3>3. i \in Records(o)' /\ history'[o][i].time = u
      BY <1>3, <1>6, <3>2
    <3> QED BY <1>1, <3>3 DEF HeldAt
  <2> QED BY <1>4, <2>1 DEF SInv, DataInv, Surviving
<1>11. TxnInv'
  BY <1>1 DEF SInv, TxnInv, CreatorOnly, MadeFirst
<1> QED BY <1>7, <1>8, <1>9, <1>10, <1>11 DEF SInv, DataInv

LEMMA RestoreFailsSurvives == SInv /\ RestoreFails => SInv'
<1> SUFFICES ASSUME SInv, RestoreFails PROVE SInv'
  OBVIOUS
<1>1. /\ current \notin Obj /\ current' \notin Obj
      /\ UNCHANGED <<history, stored, cold, expiry, status, committed>>
  BY LifecycleAssumption DEF RestoreFails, memVars, nodeVars, txnVars
<1>2. Stored' = Stored /\ Written' = Written /\ \A t \in Time : ValueOf(t)' = ValueOf(t)
  BY <1>1 DEF Stored, Written, ValueOf
<1>3. TxnInv' /\ RecordsWritten' /\ ColdWritten' /\ MarkedInCold' /\ TasksInCold'
  BY <1>1, <1>2 DEF SInv, TxnInv, CreatorOnly, MadeFirst, DataInv, RecordsWritten, ColdWritten,
                    MarkedInCold, TasksInCold, Records, Written, ValueOf
<1>4. Surviving'
  BY <1>1, <1>2 DEF SInv, DataInv, Surviving, HeldAt
<1> QED BY <1>3, <1>4 DEF SInv, DataInv

(* What is stored is what is on record, and every record of the actor is in  *)
(* storage after a store that does not fail: also the task that may expire   *)
(* it later remembers no other.                                              *)
LEMMA StoreSurvives ==
  ASSUME IInv, HInv, SInv, NEW o \in Obj, StoreRecords(o) \/ StoreFails(o)
  PROVE  SInv'
<1>0. PICK S, M \in SUBSET ToUpload(o) :
        /\ IsStored(o, S, M)
        /\ \/ UNCHANGED expiry
           \/ M = ToUpload(o) /\ expiry' = expiry \cup NewTask(o)
  BY StoreDoes DEF HInv
<1>1. /\ cold' = Merge(o, S) /\ o = current /\ M \subseteq S
      /\ stored' = [stored EXCEPT ![o] = @ \cup M]
      /\ UNCHANGED <<history, current, status, committed>>
  BY <1>0 DEF IsStored
<1>2. /\ cold' \in [Time -> Result \cup {NoValue}] /\ \A t \in Time : MergedAt(o, S, t)
      /\ Stored \subseteq Stored'
      /\ \A i \in S : history[o][i].time \in Time => history[o][i].time \in Stored'
  BY <1>1, MergeDoes DEF HInv
<1>3. /\ Written' = Written /\ (\A t \in Time : ValueOf(t)' = ValueOf(t))
      /\ \A p \in Obj : Records(p)' = Records(p)
  BY <1>1 DEF Written, ValueOf, Records
<1>4. \A i \in S : i \in Records(o) /\ history[o][i].time \in Stored'
  BY <1>2 DEF HInv, RecordsTimed, ToUpload
<1>5. M = ToUpload(o) => \A i \in Records(o) : history[o][i].time \in Stored'
  <2> SUFFICES ASSUME M = ToUpload(o), NEW i \in Records(o) PROVE history[o][i].time \in Stored'
    OBVIOUS
  <2>1. CASE i \in stored[o]
    BY <1>2, <2>1 DEF SInv, DataInv, MarkedInCold
  <2>2. CASE i \notin stored[o]
    BY <1>1, <1>4, <2>2 DEF ToUpload
  <2> QED BY <2>1, <2>2
<1>6. TxnInv' /\ RecordsWritten'
  BY <1>1, <1>3 DEF SInv, TxnInv, CreatorOnly, MadeFirst, DataInv, RecordsWritten, ValueOf
<1>7. ColdWritten'
  <2> SUFFICES ASSUME NEW t \in Stored' PROVE t \in Written /\ cold'[t] = ValueOf(t)
    BY <1>3 DEF ColdWritten, Stored
  <2>1. t \in Time /\ cold'[t] # NoValue /\ MergedAt(o, S, t)
    BY <1>2 DEF Stored
  <2>2. CASE cold'[t] = cold[t]
    <3>1. t \in Stored
      BY <2>1, <2>2 DEF Stored
    <3> QED BY <2>2, <3>1 DEF SInv, DataInv, ColdWritten
  <2>3. CASE \E i \in S : history[o][i].time = t /\ cold'[t] = history[o][i].value
    BY <1>4, <2>3 DEF SInv, DataInv, RecordsWritten
  <2> QED BY <2>1, <2>2, <2>3 DEF MergedAt
<1>8. MarkedInCold'
  <2> SUFFICES ASSUME NEW p \in Obj, NEW i \in stored'[p] \cap Records(p)
               PROVE  history[p][i].time \in Stored'
    BY <1>1, <1>3 DEF MarkedInCold
  <2>1. CASE p = o
    <3>1. i \in stored[o] \/ i \in M
      BY <1>1, <2>1 DEF HInv, StorageTyped
    <3> QED BY <1>1, <1>2, <1>4, <2>1, <3>1 DEF SInv, DataInv, MarkedInCold
  <2>2. CASE p # o
    <3>1. stored'[p] = stored[p]
      BY <1>1, <2>2 DEF HInv, StorageTyped
    <3> QED BY <1>2, <3>1 DEF SInv, DataInv, MarkedInCold
  <2> QED BY <2>1, <2>2
<1>9. TasksInCold'
  <2> SUFFICES ASSUME NEW e \in expiry' PROVE e.txns \subseteq Stored'
    BY DEF TasksInCold
  <2>1. CASE e \in expiry
    BY <1>2, <2>1 DEF SInv, DataInv, TasksInCold
  <2>2. CASE M = ToUpload(o) /\ e \in NewTask(o)
    <3>1. e.txns = TimesOf(o)
      BY <2>2 DEF NewTask
    <3> QED BY <1>5, <2>2, <3>1 DEF TimesOf
  <2>3. e \in expiry \/ (M = ToUpload(o) /\ e \in NewTask(o))
    BY <1>0
  <2> QED BY <2>1, <2>2, <2>3
<1>10. Surviving'
  <2>1. \A u \in Written : HeldAt(u) => HeldAt(u)'
    BY <1>1, <1>3 DEF HeldAt
  <2> QED BY <1>3, <2>1 DEF SInv, DataInv, Surviving
<1> QED BY <1>6, <1>7, <1>8, <1>9, <1>10 DEF SInv, DataInv

(* The least-number principle, and with it: one of the records is the        *)
(* newest, the one before which the most others are.                         *)
LEMMA LeastNumber ==
  ASSUME NEW S \in SUBSET Nat, S # {}
  PROVE  \E k \in S : \A m \in S : k <= m
<1> DEFINE R == OpToRel(<, Nat)
<1>1. IsWellFoundedOn(R, Nat)
  BY NatLessThanWellFounded
<1>2. \A m \in Nat, k \in Nat : m < k => <<m, k>> \in R
  BY DEF OpToRel
<1> HIDE DEF R
<1>3. PICK k \in S : \A m \in S : <<m, k>> \notin R
  BY <1>1, WFMin
<1>4. ASSUME NEW m \in S PROVE k <= m
  <2>1. k \in Nat /\ m \in Nat
    BY <1>3
  <2>2. ~(m < k)
    BY <1>2, <1>3, <2>1
  <2> QED BY <2>1, <2>2
<1> QED BY <1>3, <1>4

LEMMA NewestIsRecord ==
  ASSUME HInv, NEW o \in Obj, Records(o) # {}
  PROVE  /\ Newest(o) \in Records(o)
         /\ \A j \in Records(o) : history[o][j].time <= history[o][Newest(o)].time
<1> DEFINE h == history[o]
           R == Records(o)
           Later(i) == {j \in R : h[j].time > h[i].time}
           S == {c \in Nat : \E i \in R : c = Cardinality(Later(i))}
<1>1. /\ h \in Seq(Record) /\ R \subseteq DOMAIN h
      /\ \A i \in R : h[i].time \in Nat /\ i \in Nat
      /\ \A i, j \in R : h[i].time = h[j].time => i = j
  <2>1. h \in Seq(Record) /\ R \subseteq DOMAIN h
    BY DEF HInv, StorageTyped, Records
  <2>2. \A i \in R : h[i].time \in Nat
    BY TypesAssumption DEF HInv, RecordsTimed
  <2>3. \A i, j \in R : h[i].time = h[j].time => i = j
    BY DEF HInv, UniqueTimes
  <2>4. DOMAIN h = 1..Len(h) /\ Len(h) \in Nat
    BY <2>1
  <2>5. \A i \in R : i \in Nat
    BY <2>1, <2>4
  <2> QED BY <2>1, <2>2, <2>3, <2>5
<1>2. IsFiniteSet(R)
  <2>1. Len(h) \in Nat /\ DOMAIN h = 1..Len(h)
    BY <1>1
  <2>2. IsFiniteSet(1..Len(h))
    BY <2>1, FS_Interval
  <2> QED BY <1>1, <2>1, <2>2, FS_Subset
<1> HIDE DEF h, R
<1>3. \A i \in R : IsFiniteSet(Later(i)) /\ Cardinality(Later(i)) \in Nat
  <2> SUFFICES ASSUME NEW i \in R
               PROVE  IsFiniteSet(Later(i)) /\ Cardinality(Later(i)) \in Nat
    OBVIOUS
  <2>1. Later(i) \in SUBSET R
    OBVIOUS
  <2>2. IsFiniteSet(Later(i))
    BY <1>2, <2>1, FS_Subset
  <2> QED BY <2>2, FS_CardinalityType
<1>4. PICK i \in R : \A j \in R : Cardinality(Later(i)) <= Cardinality(Later(j))
  <2> HIDE DEF Later
  <2>1. S \in SUBSET Nat /\ S # {}
    BY <1>3 DEF R
  <2>2. PICK k \in S : \A m \in S : k <= m
    BY <2>1, LeastNumber
  <2>3. PICK i \in R : k = Cardinality(Later(i))
    BY <2>2
  <2>4. \A j \in R : Cardinality(Later(j)) \in S
    BY <1>3
  <2> QED BY <2>2, <2>3, <2>4
<1>5. \A j \in R : h[j].time <= h[i].time
  <2> SUFFICES ASSUME NEW j \in R, h[j].time > h[i].time PROVE FALSE
    BY <1>1
  <2>1. j \in Later(i) /\ IsFiniteSet(Later(i))
    BY <1>3
  <2>2. IsFiniteSet(Later(i) \ {j}) /\ Cardinality(Later(i) \ {j}) = Cardinality(Later(i)) - 1
    BY <2>1, FS_RemoveElement
  <2>3. Later(j) \in SUBSET (Later(i) \ {j})
    <3> SUFFICES ASSUME NEW x \in Later(j) PROVE x \in Later(i) \ {j}
      OBVIOUS
    <3>1. x \in R /\ h[x].time > h[j].time
      OBVIOUS
    <3>2. h[x].time \in Nat /\ h[j].time \in Nat /\ h[i].time \in Nat
      BY <1>1, <3>1
    <3>3. h[x].time > h[i].time /\ x # j
      BY <3>1, <3>2
    <3> QED BY <3>1, <3>3
  <2>4. Cardinality(Later(j)) <= Cardinality(Later(i)) - 1
    BY <2>2, <2>3, FS_Subset
  <2> HIDE DEF Later
  <2>5. Cardinality(Later(i)) \in Nat /\ Cardinality(Later(j)) \in Nat
    BY <1>3
  <2> QED BY <1>4, <2>4, <2>5
<1>6. \E n \in R : \A j \in R : h[j].time <= h[n].time /\ (h[j].time = h[n].time => n <= j)
  <2>1. \A j \in R : h[j].time = h[i].time => i <= j
    BY <1>1
  <2> QED BY <1>5, <2>1
<1>7. Newest(o) = CHOOSE n \in R : \A j \in R : h[j].time <= h[n].time /\ (h[j].time = h[n].time => n <= j)
  BY DEF Newest, R, h
<1>8. Newest(o) \in R /\ \A j \in R : h[j].time <= h[Newest(o)].time
  BY <1>6, <1>7
<1> QED BY <1>8 DEF R, h

(* A collection leaves the newest record.                                    *)
LEMMA CollectSurvives ==
  ASSUME HInv, SInv, NEW o \in Obj, NEW age, Collect(o, age)
  PROVE  SInv'
<1>1. UNCHANGED <<stored, cold, current, closed, expiry, status, committed>>
  BY DEF Collect, mapVars, txnVars
<1>2. IsCollected(o)
  BY CollectDoes DEF HInv
<1>3. \A p \in Obj : \A i \in Records(p)' : i \in Records(p) /\ history'[p][i] = history[p][i]
  <2> SUFFICES ASSUME NEW p \in Obj, NEW i \in Records(p)'
               PROVE  i \in Records(p) /\ history'[p][i] = history[p][i]
    OBVIOUS
  <2>1. CASE p = o
    BY <1>2, <2>1 DEF IsCollected, Records
  <2>2. CASE p # o
    BY <1>2, <2>2 DEF IsCollected, Records
  <2> QED BY <2>1, <2>2
<1>4. /\ Written' = Written /\ Stored' = Stored /\ \A t \in Time : ValueOf(t)' = ValueOf(t)
  BY <1>1 DEF Written, Stored, ValueOf
<1>5. TxnInv' /\ ColdWritten' /\ TasksInCold'
  BY <1>1, <1>4 DEF SInv, TxnInv, CreatorOnly, MadeFirst, DataInv, ColdWritten, TasksInCold, Stored
<1>6. RecordsWritten'
  BY <1>1, <1>3, <1>4 DEF SInv, DataInv, RecordsWritten, ValueOf
<1>7. MarkedInCold'
  BY <1>1, <1>3, <1>4 DEF SInv, DataInv, MarkedInCold
<1>8. CASE current # o \/ Records(o) = {} \/ o \in closed
  <2>1. ASSUME NEW u \in Written, HeldAt(u) PROVE HeldAt(u)'
    <3>1. CASE current \notin Obj
      BY <1>1, <1>4, <2>1, <3>1 DEF HeldAt
    <3>2. CASE current \in Obj
      <4>1. history'[current] = history[current]
        <5>1. CASE current # o
          BY <1>2, <3>2, <5>1 DEF IsCollected
        <5>2. CASE current = o
          BY <1>8, <5>2 DEF Collect
        <5> QED BY <5>1, <5>2
      <4>2. Records(current)' = Records(current)
        BY <1>1, <4>1 DEF Records
      <4> QED BY <1>1, <2>1, <3>2, <4>1, <4>2 DEF HeldAt
    <3> QED BY <3>1, <3>2
  <2>2. Surviving'
    BY <1>4, <2>1 DEF SInv, DataInv, Surviving
  <2> QED BY <1>5, <1>6, <1>7, <2>2 DEF SInv, DataInv
<1>9. CASE current = o /\ Records(o) # {} /\ o \notin closed
  <2>1. PICK n \in Records(o) :
          n = Newest(o) /\ \A j \in Records(o) : history[o][j].time <= history[o][n].time
    BY <1>9, NewestIsRecord
  <2>2. PICK w \in Written : w = history[o][n].time
    BY <2>1 DEF SInv, DataInv, RecordsWritten
  <2>3. history'[o][n] = history[o][n]
    BY <1>9, <2>1 DEF Collect, Records, HInv, StorageTyped
  <2>4. n \in Records(o)'
    BY <1>2, <2>1, <2>3 DEF Records, IsCollected
  <2>5. HeldAt(w)'
    BY <1>1, <1>9, <2>2, <2>3, <2>4 DEF HeldAt
  <2>6. ASSUME NEW t \in Written PROVE t <= w
    <3>1. PICK u \in Written : t <= u /\ HeldAt(u)
      BY DEF SInv, DataInv, Surviving
    <3>2. u <= w
      BY <1>9, <2>1, <2>2, <3>1 DEF HeldAt
    <3>3. t \in Nat /\ u \in Nat /\ w \in Nat
      BY <2>2, TypesAssumption DEF Written
    <3> QED BY <3>1, <3>2, <3>3
  <2>7. Surviving'
    BY <1>4, <2>2, <2>5, <2>6 DEF Surviving
  <2> QED BY <1>5, <1>6, <1>7, <2>7 DEF SInv, DataInv
<1> QED BY <1>8, <1>9

(* An actor expires when it holds no record its task did not see stored.     *)
LEMMA ExpireSurvives ==
  ASSUME IInv, SInv, NEW e \in expiry, Expire(e)
  PROVE  SInv'
<1>1. e.obj = current /\ current \in Obj /\ ~HasNewCommit(current, e.txns)
  BY DEF Expire, Settled, IInv, LocksTyped, OnceCurrent
<1>2. /\ current' \notin Obj /\ expiry' \subseteq expiry
      /\ UNCHANGED <<history, stored, cold, status, committed>>
  BY LifecycleAssumption DEF Expire, memVars, txnVars
<1>3. Written' = Written /\ Stored' = Stored /\ \A t \in Time : ValueOf(t)' = ValueOf(t)
  BY <1>2 DEF Written, Stored, ValueOf
<1>4. TxnInv' /\ RecordsWritten' /\ ColdWritten' /\ MarkedInCold' /\ TasksInCold'
  BY <1>2, <1>3 DEF SInv, TxnInv, CreatorOnly, MadeFirst, DataInv, RecordsWritten, ColdWritten,
                    MarkedInCold, TasksInCold, Records, Written, ValueOf
<1>5. \A u \in Written : HeldAt(u) => HeldAt(u)'
  <2> SUFFICES ASSUME NEW u \in Written, HeldAt(u) PROVE u \in Stored
    BY <1>2, <1>3 DEF HeldAt
  <2>1. u \in TimesOf(current)
    BY <1>1 DEF HeldAt, TimesOf
  <2>2. u \in e.txns
    BY <1>1, <2>1 DEF HasNewCommit
  <2> QED BY <2>2 DEF SInv, DataInv, TasksInCold
<1>6. Surviving'
  BY <1>3, <1>5 DEF SInv, DataInv, Surviving
<1> QED BY <1>4, <1>6 DEF SInv, DataInv

LEMMA SurvivesStep ==
  ASSUME IInv, HInv, SInv, Creator \notin Writer, [Next]_vars
  PROVE  SInv'
<1>1. ASSUME NEW o \in Fresh, NEW time, Restore(o, time) PROVE SInv'
  BY <1>1, RestoreSurvives
<1>2. ASSUME RestoreFails PROVE SInv'
  BY <1>2, RestoreFailsSurvives
<1> DEFINE untouched == <<status, committed, history, stored, cold, current>>
<1>3. ASSUME NEW t \in Time, Transact(t) PROVE SInv'
  <2>1. CASE Call(t)
    BY <1>1, <1>2, <2>1 DEF Call
  <2>2. CASE Create(t)
    BY <2>2, CreateSurvives
  <2>3. CASE Lock(t)
    BY <2>3, LockSurvives
  <2>4. CASE Decide(t)
    BY <2>4, DecideSurvives
  <2>5. CASE Install(t)
    BY <2>5, InstallSurvives
  <2>6. CASE Revert(t)
    BY <2>6, RevertSurvives
  <2>7. ASSUME NEW v \in Result, Queue(t, v) PROVE SInv'
    BY <2>7, QueueSurvives
  <2>8. CASE SendRead(t) \/ Read(t)
    <3>1. UNCHANGED untouched /\ UNCHANGED expiry
      BY <2>8 DEF SendRead, Read, mapVars, nodeVars, memVars
    <3> QED BY <3>1, OthersSurvive
  <2> QED BY <1>3, <2>1, <2>2, <2>3, <2>4, <2>5, <2>6, <2>7, <2>8 DEF Transact
<1>4. ASSUME Freeze \/ AskFlush PROVE SInv'
  <2>1. CASE FreezeFinds
    BY <1>1, <1>2, <2>1 DEF FreezeFinds
  <2>2. CASE QueueStorage \/ FreezeSends \/ FreezeFlushes \/ AskFlush
    <3>1. UNCHANGED untouched /\ UNCHANGED expiry
      BY <2>2 DEF QueueStorage, FreezeSends, FreezeFlushes, AskFlush, mapVars, txnVars, memVars
    <3> QED BY <3>1, OthersSurvive
  <2> QED BY <1>4, <2>1, <2>2 DEF Freeze
<1>5. ASSUME NEW o \in Obj, Store(o) PROVE SInv'
  <2>1. CASE StoreRecords(o) \/ StoreFails(o)
    BY <2>1, StoreSurvives
  <2>2. CASE StoreNothing(o)
    <3>1. UNCHANGED untouched /\ UNCHANGED expiry
      BY <2>2 DEF StoreNothing, mapVars, txnVars, memVars
    <3> QED BY <3>1, OthersSurvive
  <2> QED BY <1>5, <2>1, <2>2 DEF Store
<1>6. ASSUME NEW o \in Obj, NEW t \in Old, Collect(o, t) PROVE SInv'
  BY <1>6, CollectSurvives
<1>7. ASSUME NEW e \in expiry, ExpireNot(e) \/ ExpireLater(e) \/ Expire(e) PROVE SInv'
  <2>1. CASE Expire(e)
    BY <2>1, ExpireSurvives
  <2>2. CASE ExpireNot(e)
    <3>1. UNCHANGED untouched /\ expiry' \subseteq expiry
      BY <2>2 DEF ExpireNot, mapVars, txnVars, memVars
    <3> QED BY <3>1, OthersSurvive
  <2>3. CASE ExpireLater(e)
    <3> DEFINE later == [e EXCEPT !.read = lastRead[e.obj]]
    <3>1. UNCHANGED untouched /\ expiry' = (expiry \ {e}) \cup {later}
      BY <2>3 DEF ExpireLater, mapVars, txnVars, memVars
    <3>2. later.txns = e.txns
      OBVIOUS
    <3> HIDE DEF later
    <3>3. \A f \in expiry' : \E g \in expiry : f.txns = g.txns
      BY <3>1, <3>2
    <3> QED BY <3>1, <3>3, OthersSurvive
  <2> QED BY <1>7, <2>1, <2>2, <2>3
<1>8. CASE UNCHANGED vars
  <2>1. UNCHANGED untouched /\ UNCHANGED expiry
    BY <1>8 DEF vars, memVars, mapVars, nodeVars, txnVars
  <2> QED BY <2>1, OthersSurvive
<1>9. CASE Node
  BY <1>4, <1>5, <1>6, <1>7, <1>9 DEF Node
<1> QED BY <1>3, <1>8, <1>9 DEF Next

LEMMA AlwaysSInv == ASSUME Creator \notin Writer PROVE Spec => [](IInv /\ HInv /\ SInv)
<1>1. Init => IInv /\ HInv /\ SInv
  BY InitHolds, BuffersInit, SurvivesInit
<1>2. IInv /\ HInv /\ SInv /\ [Next]_vars => (IInv /\ HInv /\ SInv)'
  BY StepHolds, BuffersHold, SurvivesStep
<1> QED BY <1>1, <1>2, PTL DEF Spec

(* No decided write is lost, in memory or in storage, and the newest is what *)
(* a reader or a restore finds, in every order of commits, stores,           *)
(* collections, expiries and failing restores, for every pointer but one its *)
(* creator writes again after newPtr, of which the code may lose that write  *)
(* (RestmActors.scala:54-86).                                                *)
THEOREM WritesSurvive == ASSUME Creator \notin Writer PROVE Spec => []CommittedSurvive
<1>1. IInv /\ HInv /\ SInv => CommittedSurvive
  <2> SUFFICES ASSUME IInv, HInv, SInv, NEW t \in Installed, \A u \in Installed : u <= t
               PROVE  \/ current \in Obj /\ OnRecord(current, t)
                      \/ current \notin Obj /\ cold[t] = committed[t]
    BY DEF IInv, CommittedSurvive
  <2>1. t \in Written /\ t \in Time /\ status[t] = "installed"
    BY DEF Installed, Written
  <2>2. PICK u \in Written : t <= u /\ HeldAt(u)
    BY <2>1 DEF SInv, DataInv, Surviving
  <2>3. u = t
    <3>1. status[u] = "installed"
      <4>1. status[u] # "created"
        BY <2>1, <2>2 DEF SInv, TxnInv, CreatorOnly, MadeFirst, Written
      <4> QED BY <4>1 DEF Written
    <3>2. u <= t /\ u \in Nat /\ t \in Nat
      BY <2>1, <3>1, TypesAssumption DEF Installed, Written
    <3> QED BY <2>2, <3>2
  <2>4. ValueOf(t) = committed[t]
    BY <2>1 DEF SInv, TxnInv, CreatorOnly, ValueOf
  <2>5. CASE current \in Obj
    <3>1. PICK i \in Records(current) : history[current][i].time = t
      BY <2>2, <2>3, <2>5 DEF HeldAt
    <3>2. history[current][i].value = committed[t]
      BY <2>4, <2>5, <3>1 DEF SInv, DataInv, RecordsWritten
    <3>3. history[current][i] \in Record
      BY <2>5, <3>1 DEF HInv, StorageTyped, Records
    <3>4. history[current][i] = [time |-> t, value |-> committed[t]]
      BY <3>1, <3>2, <3>3 DEF Record
    <3> QED BY <2>5, <3>4 DEF OnRecord
  <2>6. CASE current \notin Obj
    BY <2>2, <2>3, <2>4, <2>6 DEF HeldAt, SInv, DataInv, ColdWritten
  <2> QED BY <2>5, <2>6
<1> QED BY AlwaysSInv, <1>1, PTL

(* What an actor does not store again is in storage, as it is on record: for *)
(* every pointer where store keeps the new one of two records of a time, as  *)
(* HeapColdStorage does, and for those their creator writes once, whichever  *)
(* is kept (RestmActors.scala:59-61).                                        *)
THEOREM MarksAreTrue ==
  ASSUME ~OldWins \/ Creator \notin Writer PROVE Spec => []MarkedIsStored
<1>1. CASE ~OldWins
  <2>1. HInv => MarkedIsStored
    BY <1>1 DEF HInv
  <2> QED BY AlwaysHInv, <2>1, PTL
<1>2. CASE Creator \notin Writer
  <2>1. SInv => MarkedIsStored
    <3> SUFFICES ASSUME SInv, NEW o \in Obj, NEW i \in stored[o] \cap Records(o)
                 PROVE  cold[history[o][i].time] = history[o][i].value
      BY DEF MarkedIsStored
    <3>1. history[o][i].time \in Stored /\ history[o][i].value = ValueOf(history[o][i].time)
      BY DEF SInv, DataInv, MarkedInCold, RecordsWritten
    <3> QED BY <3>1 DEF SInv, DataInv, ColdWritten
  <2> QED BY <1>2, AlwaysSInv, <2>1, PTL
<1> QED BY <1>1, <1>2

-----------------------------------------------------------------------------
(* What readers were answered, while the actor is the first one.  Types;     *)
ReadTyped ==
  /\ lastRead \in [Obj -> OptTime]
  /\ reading \in [Time -> Obj \cup {NoObj}]
  /\ seen \in [Time -> Result \cup {NoValue}]

(* calls and answers are of the actor in use, which keeps the newest read;   *)
ReadsHere ==
  \A t \in Time : reading[t] # NoObj => t \in Reader /\ reading[t] = current /\ current \in Obj
SeenMarked ==
  \A t \in Time : seen[t] # NoValue => t \in Reader /\ current \in Obj /\ lastRead[current] >= t

(* before it is in use, nothing happened;                                    *)
UsedFirst ==
  current \notin Obj =>
    Stored = {} /\ \A t \in Time : status[t] = "idle" /\ seen[t] = NoValue

(* its records are in time order, and not newer than the lock, nor is a read *)
(* (which HistorySorted and LockAboveReads of MemActor say of any caller);   *)
InOrder ==
  current \in Obj => \A i, j \in Records(current) :
    i < j => history[current][i].time < history[current][j].time
LockAbove ==
  current \in Obj /\ writeLock[current] # NoTime =>
    /\ lastRead[current] <= writeLock[current]
    /\ \A i \in Records(current) : history[current][i].time <= writeLock[current]

(* a transaction has a committed value once it is decided, and a value       *)
(* queued before; a record is of a transaction that was installed, or the    *)
(* first one of the creator, which the creator may still replace;            *)
Progress ==
  \A t \in Time :
    /\ status[t] = "created" => t = Creator
    /\ status[t] = "queued" => queuedValue[current] # NoValue
    /\ committed[t] # NoValue <=> status[t] \in {"decided", "installed"}
InstalledAs(u, v) == status[u] = "installed" /\ v = committed[u]
FirstOf(u, v) == u = Creator /\ status[u] \notin {"idle", "installed"} /\ v = First
Authored ==
  current \in Obj => \A i \in Records(current) :
    \/ InstalledAs(history[current][i].time, history[current][i].value)
    \/ FirstOf(history[current][i].time, history[current][i].value)

(* and nobody but the creator does anything before the creator committed.    *)
MakerAlone ==
  Creator \in Time /\ committed[Creator] = NoValue =>
    \A t \in Time \ {Creator} : status[t] = "idle" /\ seen[t] = NoValue /\ reading[t] = NoObj

Served ==
  /\ ReadsHere /\ SeenMarked /\ UsedFirst /\ InOrder /\ LockAbove
  /\ Progress /\ Authored /\ MakerAlone /\ SerialWhileHeld
RInv == ReadTyped /\ (closed = {} => Served)

LEMMA ReadsInit == Init => RInv
<1> SUFFICES ASSUME Init PROVE RInv
  OBVIOUS
<1> USE TypesAssumption, LifecycleAssumption
<1>1. ReadTyped
  BY DEF Init, MemInit, ReadTyped, Obj, OptTime
<1>2. current \notin Obj /\ Stored = {}
  BY DEF Init, Stored
<1>3. \A t \in Time : /\ status[t] = "idle" /\ seen[t] = NoValue /\ reading[t] = NoObj
                      /\ committed[t] = NoValue
  BY DEF Init
<1>4. ReadsHere /\ SeenMarked /\ UsedFirst /\ Progress /\ MakerAlone
  BY <1>2, <1>3 DEF ReadsHere, SeenMarked, UsedFirst, Progress, MakerAlone
<1>5. InOrder /\ LockAbove /\ Authored
  BY <1>2 DEF InOrder, LockAbove, Authored
<1>6. SerialWhileHeld
  BY <1>3 DEF SerialWhileHeld, SnapshotsHold
<1> QED BY <1>1, <1>4, <1>5, <1>6 DEF RInv, Served

(* Every step leaves reads and answers of their types.                       *)
LEMMA ReadTypesKeep == IInv /\ ReadTyped /\ [Next]_vars => ReadTyped'
<1> SUFFICES ASSUME IInv, ReadTyped, [Next]_vars PROVE ReadTyped'
  OBVIOUS
<1> USE TypesAssumption, LifecycleAssumption
<1>1. ASSUME NEW o \in Fresh, NEW time \in OptTime, Restore(o, time) PROVE ReadTyped'
  BY <1>1 DEF Restore, ReadTyped, txnVars, Fresh
<1>2. ASSUME UNCHANGED <<lastRead, reading, seen>> PROVE ReadTyped'
  BY <1>2 DEF ReadTyped
<1>3. ASSUME RestoreFails PROVE ReadTyped'
  BY <1>2, <1>3 DEF RestoreFails, memVars, txnVars
<1>4. ASSUME NEW t \in Time, Transact(t) PROVE ReadTyped'
  <2>1. CASE Call(t)
    BY <1>1, <1>3, <2>1 DEF Call, OptTime
  <2>2. CASE Create(t)
    BY <2>2 DEF Create, InitValue, ReadTyped, OptTime
  <2>3. CASE Lock(t) \/ Decide(t) \/ Install(t) \/ Revert(t) \/ \E v \in Result : Queue(t, v)
    BY <1>2, <2>3 DEF Lock, Decide, Install, Revert, Queue, CommitQueued, WriteReset,
                      QueueNormally, memVars
  <2>4. CASE SendRead(t)
    BY <2>4 DEF SendRead, ReadTyped, memVars
  <2>5. CASE Read(t)
    <3>1. reading[t] \in Obj
      BY <2>5 DEF Read, ReadTyped
    <3>2. PICK v \in Result : seen' = [seen EXCEPT ![t] = v]
      BY <2>5 DEF Read
    <3>3. \E s \in OptTime : lastRead' = [lastRead EXCEPT ![reading[t]] = s]
      BY <2>5, <3>1 DEF Read, ReadTyped, OptTime
    <3>4. reading' = [reading EXCEPT ![t] = NoObj]
      BY <2>5 DEF Read
    <3> QED BY <3>1, <3>2, <3>3, <3>4 DEF ReadTyped
  <2> QED BY <1>4, <2>1, <2>2, <2>3, <2>4, <2>5 DEF Transact
<1>5. CASE FreezeFinds
  BY <1>1, <1>3, <1>5 DEF FreezeFinds, OptTime
<1>6. CASE QueueStorage \/ FreezeSends \/ FreezeFlushes \/ AskFlush
  BY <1>2, <1>6 DEF QueueStorage, FreezeSends, FreezeFlushes, AskFlush, memVars, txnVars
<1>7. ASSUME NEW o \in Obj, Store(o) \/ \E t \in Old : Collect(o, t) PROVE ReadTyped'
  BY <1>2, <1>7 DEF Store, StoreNothing, StoreRecords, StoreFails, Collect, memVars, txnVars
<1>8. ASSUME NEW e \in expiry, ExpireNot(e) \/ ExpireLater(e) \/ Expire(e) PROVE ReadTyped'
  BY <1>2, <1>8 DEF ExpireNot, ExpireLater, Expire, memVars, txnVars
<1>9. CASE UNCHANGED vars
  BY <1>2, <1>9 DEF vars, memVars, txnVars
<1>10. CASE Node
  BY <1>5, <1>6, <1>7, <1>8, <1>10 DEF Node, Freeze
<1> QED BY <1>4, <1>9, <1>10 DEF Next

-----------------------------------------------------------------------------
(* Steps of the actions.  Answers stay right where neither they nor the      *)
(* committed values change, and nothing comes back on record.                *)
LEMMA SerialKeeps ==
  ASSUME SerialWhileHeld, UNCHANGED <<committed, seen>>, AllHeld' => AllHeld
  PROVE  SerialWhileHeld'
BY DEF SerialWhileHeld, SnapshotsHold, Before

(* The first actor in use starts with nothing, as nothing was stored.        *)
LEMMA RestoreServes ==
  ASSUME IInv, HInv, ReadTyped, Served, closed = {},
         NEW o \in Fresh, NEW time, Restore(o, time)
  PROVE  Served'
<1> USE LifecycleAssumption
<1>1. /\ current \notin Obj /\ current' = o /\ o \in Obj
      /\ history' = [history EXCEPT ![o] = Restored]
      /\ UNCHANGED <<writeLock, queuedValue, closed, cold>>
      /\ UNCHANGED <<status, reading, seen, committed>>
  BY DEF Restore, Fresh, txnVars
<1>2. /\ Stored = {} /\ \A t \in Time : status[t] = "idle" /\ seen[t] = NoValue
      /\ \A t \in Time : reading[t] = NoObj
  BY <1>1 DEF Served, UsedFirst, ReadsHere
<1>3. Records(o)' = {}
  <2>1. Cardinality(Stored) = 0
    BY <1>2, FS_EmptySet
  <2>2. history'[o] = Restored
    BY <1>1 DEF HInv, StorageTyped
  <2>3. DOMAIN history'[o] = {}
    BY <2>1, <2>2 DEF Restored
  <2> QED BY <2>3 DEF Records
<1>4. writeLock'[o] = NoTime
  BY <1>1, NoneHeld
<1>5. ReadsHere' /\ SeenMarked' /\ UsedFirst'
  BY <1>1, <1>2 DEF ReadsHere, SeenMarked, UsedFirst
<1>6. InOrder' /\ LockAbove' /\ Authored'
  BY <1>1, <1>3, <1>4 DEF InOrder, LockAbove, Authored
<1>7. Progress' /\ MakerAlone'
  BY <1>1, <1>2 DEF Served, Progress, MakerAlone
<1>8. SerialWhileHeld'
  BY <1>1, <1>2 DEF SerialWhileHeld, SnapshotsHold
<1> QED BY <1>5, <1>6, <1>7, <1>8 DEF Served

LEMMA RestoreFailsServes ==
  ASSUME Served, closed = {}, RestoreFails
  PROVE  Served'
<1> USE LifecycleAssumption
<1>1. /\ current \notin Obj /\ current' \notin Obj
      /\ UNCHANGED <<queuedValue, cold, status, reading, seen, committed>>
  BY DEF RestoreFails, memVars, nodeVars, txnVars
<1>2. /\ Stored = {} /\ \A t \in Time : status[t] = "idle" /\ seen[t] = NoValue
      /\ \A t \in Time : reading[t] = NoObj
  BY <1>1 DEF Served, UsedFirst, ReadsHere
<1>3. ReadsHere' /\ SeenMarked' /\ UsedFirst'
  BY <1>1, <1>2 DEF ReadsHere, SeenMarked, UsedFirst, Stored
<1>4. InOrder' /\ LockAbove' /\ Authored'
  BY <1>1 DEF InOrder, LockAbove, Authored
<1>5. Progress' /\ MakerAlone'
  BY <1>1, <1>2 DEF Served, Progress, MakerAlone
<1>6. SerialWhileHeld'
  BY <1>1, <1>2 DEF SerialWhileHeld, SnapshotsHold
<1> QED BY <1>3, <1>4, <1>5, <1>6 DEF Served

(* Storing records writes only what a restore would read, for the actor in   *)
(* use; the other steps of the node change nothing of this.                  *)
LEMMA NodeServes ==
  ASSUME Served, UNCHANGED <<memVars, txnVars, mapVars>>, UNCHANGED cold \/ current \in Obj
  PROVE  Served'
<1>1. /\ UNCHANGED <<history, lastRead, writeLock, queuedValue, current, closed>>
      /\ UNCHANGED <<status, reading, seen, committed>>
  BY DEF memVars, txnVars, mapVars
<1>2. ReadsHere' /\ SeenMarked' /\ Progress' /\ MakerAlone'
  BY <1>1 DEF Served, ReadsHere, SeenMarked, Progress, MakerAlone
<1>3. UsedFirst'
  BY <1>1 DEF Served, UsedFirst, Stored
<1>4. InOrder' /\ LockAbove'
  BY <1>1 DEF Served, InOrder, LockAbove, Records
<1>5. Authored'
  BY <1>1 DEF Served, Authored, Records, InstalledAs, FirstOf
<1>6. SerialWhileHeld'
  BY <1>1, SerialKeeps DEF Served, AllHeld, Installed, OnRecord, Records
<1> QED BY <1>2, <1>3, <1>4, <1>5, <1>6 DEF Served

(* A collection takes records away, and changes none.                        *)
LEMMA CollectServes ==
  ASSUME HInv, Served, NEW o \in Obj, NEW t, Collect(o, t)
  PROVE  Served'
<1>1. /\ UNCHANGED <<lastRead, writeLock, queuedValue, cold, current, closed>>
      /\ UNCHANGED <<status, reading, seen, committed>>
  BY DEF Collect, mapVars, txnVars
<1>2. IsCollected(o)
  BY CollectDoes DEF HInv
<1>3. ASSUME current \in Obj, NEW i \in Records(current)'
      PROVE  i \in Records(current) /\ history'[current][i] = history[current][i]
  <2>1. i \in DOMAIN history'[current] /\ history'[current][i] # Removed
    BY <1>1, <1>3 DEF Records
  <2> QED BY <1>2, <1>3, <2>1 DEF IsCollected, Records
<1>4. ReadsHere' /\ SeenMarked' /\ Progress' /\ MakerAlone' /\ UsedFirst'
  BY <1>1 DEF Served, ReadsHere, SeenMarked, Progress, MakerAlone, UsedFirst, Stored
<1>5. InOrder'
  BY <1>1, <1>3 DEF Served, InOrder
<1>6. LockAbove'
  BY <1>1, <1>3 DEF Served, LockAbove
<1>7. Authored'
  <2> SUFFICES ASSUME current \in Obj, NEW i \in Records(current)'
               PROVE  (\/ InstalledAs(history[current][i].time, history[current][i].value)
                       \/ FirstOf(history[current][i].time, history[current][i].value))'
    BY <1>1 DEF Authored
  <2>1. i \in Records(current) /\ history'[current][i] = history[current][i]
    BY <1>3
  <2> QED BY <1>1, <2>1 DEF Served, Authored, InstalledAs, FirstOf
<1>8. AllHeld' => AllHeld
  <2> SUFFICES ASSUME AllHeld', NEW u \in Installed
               PROVE  current \in Obj /\ OnRecord(current, u)
    BY <1>1 DEF AllHeld
  <2>1. current \in Obj /\ OnRecord(current, u)'
    BY <1>1 DEF AllHeld, Installed
  <2> QED BY <1>1, <1>3, <2>1 DEF OnRecord
<1>9. SerialWhileHeld'
  BY <1>1, <1>8, SerialKeeps DEF Served
<1> QED BY <1>4, <1>5, <1>6, <1>7, <1>9 DEF Served

(* Where the buffer stays, and the same transactions are installed.          *)
LEMMA BufferServes ==
  ASSUME HInv, Served, current \in Obj, UNCHANGED <<history, current, closed>>,
         \A u \in Time : status'[u] = "installed" <=> status[u] = "installed",
         \A u \in Time : status[u] = "installed" => committed'[u] = committed[u],
         \A u \in Time : status[u] # "idle" => status'[u] # "idle"
  PROVE  InOrder' /\ Authored' /\ (AllHeld' => AllHeld)
<1>1. Records(current)' = Records(current)
  BY DEF Records
<1>2. InOrder'
  BY <1>1 DEF Served, InOrder
<1>3. Authored'
  <2> SUFFICES ASSUME NEW i \in Records(current)
               PROVE  (\/ InstalledAs(history[current][i].time, history[current][i].value)
                       \/ FirstOf(history[current][i].time, history[current][i].value))'
    BY <1>1 DEF Authored
  <2>1. history[current][i].time \in Time
    BY DEF HInv, RecordsTimed
  <2> QED BY <2>1 DEF Served, Authored, InstalledAs, FirstOf
<1>4. AllHeld' => AllHeld
  <2> SUFFICES ASSUME AllHeld', NEW u \in Installed PROVE OnRecord(current, u)
    BY DEF AllHeld
  <2>1. u \in Time /\ u \in Installed' /\ committed'[u] = committed[u]
    BY DEF Installed
  <2>2. OnRecord(current, u)'
    BY <2>1 DEF AllHeld
  <2> QED BY <1>1, <2>1, <2>2 DEF OnRecord
<1> QED BY <1>2, <1>3, <1>4

(* A creation comes before any answer, so none is there to become wrong.     *)
LEMMA CreateServes ==
  ASSUME IInv, HInv, Served, Creator \notin Reader, NEW t \in Time, Create(t)
  PROVE  Served'
<1> USE TypesAssumption, LifecycleAssumption
<1> DEFINE r == [time |-> t, value |-> First]
<1>1. /\ t = Creator /\ current \in Obj /\ status[t] = "idle"
      /\ status' = [status EXCEPT ![t] = "created"]
      /\ history' = [history EXCEPT ![current] = <<r>>]
      /\ writeLock' = [writeLock EXCEPT ![current] = NoTime]
      /\ UNCHANGED <<current, cold, closed, reading, seen, committed>>
  BY DEF Create, Goes, InitValue, mapVars, nodeVars
<1>2. committed[Creator] = NoValue
  BY <1>1 DEF IInv, NotYetMade
<1>3. \A u \in Time \ {t} : status[u] = "idle" /\ seen[u] = NoValue /\ reading[u] = NoObj
  BY <1>1, <1>2 DEF Served, MakerAlone
<1>4. \A u \in Time : seen[u] = NoValue /\ reading[u] = NoObj
  BY <1>1, <1>3 DEF Served, SeenMarked, ReadsHere
<1>5. ReadsHere' /\ SeenMarked' /\ UsedFirst' /\ MakerAlone'
  BY <1>1, <1>3, <1>4 DEF IInv, LocksTyped, ReadsHere, SeenMarked, UsedFirst, MakerAlone
<1>6. Progress'
  BY <1>1, <1>2, <1>3 DEF IInv, LocksTyped, Served, Progress
<1>7. \A i \in Records(current)' : i = 1 /\ history'[current][i] = r
  BY <1>1 DEF HInv, StorageTyped, Records
<1>8. writeLock'[current] = NoTime
  BY <1>1 DEF IInv, LocksTyped
<1>9. InOrder' /\ LockAbove'
  BY <1>1, <1>7, <1>8 DEF InOrder, LockAbove
<1>10. Authored'
  <2>1. status'[t] = "created"
    BY <1>1 DEF IInv, LocksTyped
  <2>2. FirstOf(t, First)'
    BY <1>1, <2>1 DEF FirstOf
  <2>3. \A i \in Records(current)' :
          history'[current][i].time = t /\ history'[current][i].value = First
    BY <1>7
  <2> QED BY <1>1, <2>2, <2>3 DEF Authored, FirstOf
<1>11. SerialWhileHeld'
  BY <1>1, <1>4 DEF SerialWhileHeld, SnapshotsHold
<1> QED BY <1>5, <1>6, <1>9, <1>10, <1>11 DEF Served

(* A lock is refused to a transaction older than a read or a record.         *)
LEMMA LockServes ==
  ASSUME IInv, HInv, ReadTyped, Served, NEW t \in Time, Lock(t)
  PROVE  Served'
<1> USE TypesAssumption, LifecycleAssumption
<1>1. /\ current \in Obj /\ Known(t)
      /\ ~(lastRead[current] > t) /\ ~HasRecordAfter(current, t)
      /\ writeLock' = [writeLock EXCEPT ![current] = t]
      /\ status[t] = IF t = Creator THEN "created" ELSE "idle"
      /\ status' = [status EXCEPT ![t] = "locked"]
      /\ UNCHANGED <<history, lastRead, queuedValue, current, cold, closed>>
      /\ UNCHANGED <<reading, seen, committed>>
  BY DEF Lock, Goes, WrittenAfter, mapVars, nodeVars
<1>2. status'[t] = "locked" /\ \A u \in Time \ {t} : status'[u] = status[u]
  BY <1>1 DEF IInv, LocksTyped
<1>3. ReadsHere' /\ SeenMarked' /\ UsedFirst'
  BY <1>1 DEF Served, ReadsHere, SeenMarked, UsedFirst
<1>4. InOrder' /\ Authored' /\ (AllHeld' => AllHeld)
  BY <1>1, <1>2, BufferServes
<1>5. LockAbove'
  <2>1. writeLock'[current] = t
    BY <1>1 DEF IInv, LocksTyped
  <2>2. lastRead[current] \in Nat
    BY <1>1 DEF ReadTyped, OptTime, NoTime
  <2>3. lastRead[current] <= t
    BY <1>1, <2>2
  <2>4. ASSUME NEW i \in Records(current) PROVE history[current][i].time <= t
    <3>1. history[current][i].time \in Nat /\ ~(history[current][i].time > t)
      BY <1>1 DEF HInv, RecordsTimed, HasRecordAfter, Records
    <3> QED BY <3>1
  <2> QED BY <1>1, <2>1, <2>3, <2>4 DEF LockAbove, Records
<1>6. Progress'
  BY <1>1, <1>2 DEF Served, Progress
<1>7. MakerAlone'
  BY <1>1, <1>2 DEF Served, MakerAlone, Known
<1>8. SerialWhileHeld'
  BY <1>1, <1>4, SerialKeeps DEF Served
<1> QED BY <1>3, <1>4, <1>5, <1>6, <1>7, <1>8 DEF Served

LEMMA QueueServes ==
  ASSUME IInv, HInv, Served, NEW t \in Time, NEW v \in Result, Queue(t, v)
  PROVE  Served'
<1> USE TypesAssumption, LifecycleAssumption
<1>1. /\ current \in Obj /\ status[t] = "locked"
      /\ queuedValue' = [queuedValue EXCEPT ![current] = v]
      /\ status' = [status EXCEPT ![t] = "queued"]
      /\ UNCHANGED <<history, lastRead, writeLock, current, cold, closed>>
      /\ UNCHANGED <<reading, seen, committed>>
  BY DEF Queue, Goes, QueueNormally, mapVars, nodeVars
<1>2. status'[t] = "queued" /\ \A u \in Time \ {t} : status'[u] = status[u]
  BY <1>1 DEF IInv, LocksTyped
<1>3. queuedValue'[current] # NoValue
  BY <1>1 DEF IInv, LocksTyped, Result
<1>4. ReadsHere' /\ SeenMarked' /\ UsedFirst'
  BY <1>1 DEF Served, ReadsHere, SeenMarked, UsedFirst
<1>5. InOrder' /\ Authored' /\ (AllHeld' => AllHeld)
  BY <1>1, <1>2, BufferServes
<1>6. LockAbove'
  BY <1>1 DEF Served, LockAbove, Records
<1>7. Progress'
  BY <1>1, <1>2, <1>3 DEF Served, Progress
<1>8. MakerAlone'
  BY <1>1, <1>2 DEF Served, MakerAlone
<1>9. SerialWhileHeld'
  BY <1>1, <1>5, SerialKeeps DEF Served
<1> QED BY <1>4, <1>5, <1>6, <1>7, <1>8, <1>9 DEF Served

LEMMA RevertServes ==
  ASSUME IInv, HInv, Served, NEW t \in Time, Revert(t)
  PROVE  Served'
<1> USE TypesAssumption, LifecycleAssumption
<1>1. /\ current \in Obj /\ writeLock[current] = t /\ status[t] \in {"locked", "queued"}
      /\ writeLock' = [writeLock EXCEPT ![current] = NoTime]
      /\ status' = [status EXCEPT ![t] = "gone"]
      /\ UNCHANGED <<history, lastRead, current, cold, closed>>
      /\ UNCHANGED <<reading, seen, committed>>
  BY DEF Revert, Goes, WriteReset, OwnsLock, mapVars, nodeVars
<1>2. status'[t] = "gone" /\ \A u \in Time \ {t} : status'[u] = status[u]
  BY <1>1 DEF IInv, LocksTyped
<1>3. \A u \in Time \ {t} : status[u] # "queued"
  BY <1>1 DEF IInv, HoldersLock, Holding
<1>4. ReadsHere' /\ SeenMarked' /\ UsedFirst'
  BY <1>1 DEF Served, ReadsHere, SeenMarked, UsedFirst
<1>5. InOrder' /\ Authored' /\ (AllHeld' => AllHeld)
  BY <1>1, <1>2, BufferServes
<1>6. LockAbove'
  BY <1>1 DEF IInv, LocksTyped, LockAbove
<1>7. Progress'
  <2>1. committed'[t] = NoValue
    BY <1>1 DEF Served, Progress
  <2>2. \A u \in Time \ {t} :
          /\ status'[u] = "created" => u = Creator
          /\ committed'[u] # NoValue <=> status'[u] \in {"decided", "installed"}
    BY <1>1, <1>2 DEF Served, Progress
  <2>3. \A u \in Time : status'[u] # "queued"
    BY <1>2, <1>3
  <2>4. status'[t] # "created" /\ status'[t] \notin {"decided", "installed"}
    BY <1>2
  <2> QED BY <2>1, <2>2, <2>3, <2>4 DEF Progress
<1>8. MakerAlone'
  BY <1>1, <1>2 DEF Served, MakerAlone
<1>9. SerialWhileHeld'
  BY <1>1, <1>5, SerialKeeps DEF Served
<1> QED BY <1>4, <1>5, <1>6, <1>7, <1>8, <1>9 DEF Served

(* A decision under the lock is of a transaction no older than any reader    *)
(* that was answered, so that no answer lacks its value.                     *)
LEMMA DecideQueuedServes ==
  ASSUME IInv, HInv, ReadTyped, Served, NEW t \in Time, Decide(t), status[t] = "queued"
  PROVE  Served'
<1> USE TypesAssumption, LifecycleAssumption
<1>1. /\ current \in Obj
      /\ status' = [status EXCEPT ![t] = "decided"]
      /\ committed' = [committed EXCEPT ![t] = queuedValue[current]]
      /\ UNCHANGED <<history, lastRead, writeLock, queuedValue, current, cold, closed>>
      /\ UNCHANGED <<reading, seen>>
  BY DEF Decide, Goes, memVars, mapVars, nodeVars
<1>2. /\ status'[t] = "decided" /\ committed'[t] = queuedValue[current]
      /\ \A u \in Time \ {t} : status'[u] = status[u] /\ committed'[u] = committed[u]
  BY <1>1 DEF IInv, LocksTyped
<1>3. queuedValue[current] # NoValue /\ committed[t] = NoValue
  BY DEF Served, Progress
<1>4. writeLock[current] = t /\ t # NoTime
  BY DEF IInv, HoldersLock, Holding, NoTime
<1>5. ReadsHere' /\ SeenMarked' /\ UsedFirst'
  BY <1>1 DEF Served, ReadsHere, SeenMarked, UsedFirst
<1>6. InOrder' /\ Authored' /\ (AllHeld' => AllHeld)
  BY <1>1, <1>2, BufferServes
<1>7. LockAbove'
  BY <1>1 DEF Served, LockAbove, Records
<1>8. Progress'
  BY <1>1, <1>2, <1>3 DEF Served, Progress
<1>9. MakerAlone'
  BY <1>1, <1>2, <1>3 DEF Served, MakerAlone
<1>10. SerialWhileHeld'
  <2> SUFFICES ASSUME AllHeld, NEW s \in Reader, seen[s] # NoValue
               PROVE  (\/ Before(s) = {} /\ seen[s] = Null
                       \/ \E u \in Before(s) : /\ \A w \in Before(s) : w <= u
                                               /\ seen[s] = committed[u])'
    BY <1>1, <1>6 DEF SerialWhileHeld, SnapshotsHold
  <2>1. s \in Time /\ s <= lastRead[current] /\ lastRead[current] <= t
    BY <1>1, <1>4 DEF Served, SeenMarked, LockAbove
  <2>2. ~(t < s)
    BY <1>1, <2>1 DEF ReadTyped, OptTime, NoTime
  <2>3. Before(s)' = Before(s) /\ \A u \in Before(s) : committed'[u] = committed[u]
    BY <1>2, <2>2 DEF Before
  <2>4. \/ Before(s) = {} /\ seen[s] = Null
        \/ \E u \in Before(s) : (\A w \in Before(s) : w <= u) /\ seen[s] = committed[u]
    BY DEF Served, SerialWhileHeld, SnapshotsHold
  <2> QED BY <1>1, <2>3, <2>4
<1> QED BY <1>5, <1>6, <1>7, <1>8, <1>9, <1>10 DEF Served

(* A creation is decided before anyone else was answered.                    *)
LEMMA DecideCreatedServes ==
  ASSUME IInv, HInv, Served, Creator \notin Reader,
         NEW t \in Time, Decide(t), status[t] # "queued"
  PROVE  Served'
<1> USE TypesAssumption, LifecycleAssumption
<1>1. /\ status[t] = "created"
      /\ status' = [status EXCEPT ![t] = "installed"]
      /\ committed' = [committed EXCEPT ![t] = First]
      /\ UNCHANGED <<history, lastRead, writeLock, queuedValue, current, cold, closed>>
      /\ UNCHANGED <<reading, seen>>
  BY DEF Decide, Goes, memVars, mapVars, nodeVars
<1>2. t = Creator /\ committed[t] = NoValue /\ current \in Obj
  BY <1>1 DEF Served, Progress, UsedFirst
<1>3. \A u \in Time : seen[u] = NoValue /\ reading[u] = NoObj
  BY <1>2 DEF Served, MakerAlone, SeenMarked, ReadsHere
<1>4. /\ status'[t] = "installed" /\ committed'[t] = First /\ First # NoValue
      /\ \A u \in Time \ {t} : status'[u] = status[u] /\ committed'[u] = committed[u]
  BY <1>1 DEF IInv, LocksTyped
<1>5. ReadsHere' /\ SeenMarked' /\ UsedFirst'
  BY <1>1, <1>2, <1>3 DEF ReadsHere, SeenMarked, UsedFirst
<1>6. InOrder' /\ LockAbove'
  BY <1>1 DEF Served, InOrder, LockAbove, Records
<1>7. Authored'
  <2> SUFFICES ASSUME NEW i \in Records(current)
               PROVE  (\/ InstalledAs(history[current][i].time, history[current][i].value)
                       \/ FirstOf(history[current][i].time, history[current][i].value))'
    BY <1>1 DEF Authored, Records
  <2>1. history[current][i].time \in Time
    BY <1>2 DEF HInv, RecordsTimed
  <2>2. CASE history[current][i].time = t
    BY <1>1, <1>2, <1>4, <2>2 DEF Served, Authored, InstalledAs, FirstOf
  <2>3. CASE history[current][i].time # t
    BY <1>1, <1>2, <1>4, <2>1, <2>3 DEF Served, Authored, InstalledAs, FirstOf
  <2> QED BY <2>2, <2>3
<1>8. Progress'
  BY <1>1, <1>4 DEF Served, Progress
<1>9. MakerAlone'
  BY <1>2, <1>4 DEF MakerAlone
<1>10. SerialWhileHeld'
  BY <1>1, <1>3 DEF SerialWhileHeld, SnapshotsHold
<1> QED BY <1>5, <1>6, <1>7, <1>8, <1>9, <1>10 DEF Served

(* The record of a commit has the time of the lock, and is the newest one.   *)
LEMMA InstallServes ==
  ASSUME IInv, HInv, Served, NEW t \in Time, Install(t)
  PROVE  Served'
<1> USE TypesAssumption, LifecycleAssumption
<1> DEFINE h == history[current]
           v == queuedValue[current]
           new == AfterCommit(h, t, v)
           last == Len(h) + 1
<1>1. /\ current \in Obj /\ v \in Result /\ status[t] = "decided"
      /\ writeLock[current] = t /\ v = committed[t]
      /\ status' = [status EXCEPT ![t] = "installed"]
      /\ history' = [history EXCEPT ![current] = new]
      /\ writeLock' = [writeLock EXCEPT ![current] = NoTime]
      /\ UNCHANGED <<lastRead, current, cold, closed, reading, seen, committed>>
  BY DEF Install, CommitQueued, HasQueued, OwnsLock, Goes, mapVars, nodeVars, IInv, LocksTyped,
         DecidedKept, AfterCommit
<1>2. /\ status'[t] = "installed" /\ writeLock'[current] = NoTime
      /\ \A u \in Time \ {t} : status'[u] = status[u] /\ status[u] # "queued"
  BY <1>1 DEF IInv, LocksTyped, HoldersLock, Holding
<1>3. h \in Seq(Record)
  BY <1>1 DEF HInv, StorageTyped
<1>4. IsAfterCommit(new, h, t, v)
  BY <1>1, <1>3, InstalledBuffer
<1>5. history'[current] = new
  BY <1>1 DEF HInv, StorageTyped
<1> HIDE DEF new
<1>6. \A i \in Records(current)' :
        \/ i \in Records(current) /\ new[i] = h[i] /\ h[i].time # t /\ i < last
        \/ i = last /\ new[i] = [time |-> t, value |-> v]
  BY <1>1, <1>4, <1>5 DEF Records, IsAfterCommit
<1>7. \A i \in Records(current) : h[i].time # t => i \in Records(current)' /\ new[i] = h[i]
  BY <1>1, <1>4, <1>5 DEF Records, IsAfterCommit
<1>8. \A i \in Records(current) : h[i].time \in Time /\ h[i].time <= t
  BY <1>1 DEF HInv, RecordsTimed, Served, LockAbove, NoTime
<1> HIDE DEF h, v, last
<1>9. ReadsHere' /\ SeenMarked' /\ UsedFirst'
  BY <1>1 DEF Served, ReadsHere, SeenMarked, UsedFirst
<1>10. InOrder'
  <2> SUFFICES ASSUME NEW i \in Records(current)', NEW j \in Records(current)', i < j
               PROVE  new[i].time < new[j].time
    BY <1>1, <1>5 DEF InOrder
  <2>1. i # last
    <3>1. CASE i = last /\ j = last
      BY <1>3, <3>1 DEF last
    <3>2. CASE i = last /\ j \in Records(current) /\ j < last
      <4>1. i \in Nat /\ j \in Nat
        BY <1>3, <3>2, <1>1 DEF Records, last, h
      <4> QED BY <3>2, <4>1
    <3> QED BY <1>6, <3>1, <3>2
  <2>2. i \in Records(current) /\ new[i] = h[i] /\ h[i].time # t
    BY <1>6, <2>1
  <2>3. CASE j = last
    <3>1. new[j].time = t
      BY <1>4, <2>3 DEF IsAfterCommit, last
    <3> QED BY <1>8, <2>2, <3>1
  <2>4. CASE j # last
    <3>1. j \in Records(current) /\ new[j] = h[j]
      BY <1>6, <2>4
    <3> QED BY <1>1, <2>2, <3>1 DEF Served, InOrder, h
  <2> QED BY <2>3, <2>4
<1>11. LockAbove'
  BY <1>1, <1>2 DEF LockAbove
<1>12. Progress'
  <2>1. \A u \in Time : status'[u] \notin {"queued"} /\ (status'[u] = "created" => u = Creator)
    BY <1>2 DEF Served, Progress
  <2>2. \A u \in Time : committed[u] # NoValue <=> status'[u] \in {"decided", "installed"}
    BY <1>1, <1>2 DEF Served, Progress
  <2> QED BY <1>1, <2>1, <2>2 DEF Progress
<1>13. Authored'
  <2> SUFFICES ASSUME NEW i \in Records(current)'
               PROVE  (\/ InstalledAs(history[current][i].time, history[current][i].value)
                       \/ FirstOf(history[current][i].time, history[current][i].value))'
    BY <1>1 DEF Authored
  <2>1. CASE new[i] = [time |-> t, value |-> v]
    BY <1>1, <1>2, <1>5, <2>1 DEF InstalledAs
  <2>2. CASE i \in Records(current) /\ new[i] = h[i] /\ h[i].time # t
    <3>1. InstalledAs(h[i].time, h[i].value) \/ FirstOf(h[i].time, h[i].value)
      BY <1>1, <2>2 DEF Served, Authored, h
    <3>2. h[i].time \in Time \ {t}
      BY <1>8, <2>2
    <3> QED BY <1>1, <1>2, <1>5, <2>2, <3>1, <3>2 DEF InstalledAs, FirstOf
  <2> QED BY <1>6, <2>1, <2>2
<1>14. MakerAlone'
  BY <1>1, <1>2 DEF Served, MakerAlone, Progress
<1>15. AllHeld' => AllHeld
  <2> SUFFICES ASSUME AllHeld', NEW u \in Installed PROVE OnRecord(current, u)
    BY <1>1 DEF AllHeld
  <2>1. u \in Time \ {t} /\ u \in Installed'
    BY <1>1, <1>2 DEF Installed
  <2>2. PICK i \in Records(current)' : new[i] = [time |-> u, value |-> committed[u]]
    <3>1. OnRecord(current, u)'
      BY <2>1 DEF AllHeld
    <3> QED BY <1>1, <1>5, <3>1 DEF OnRecord
  <2>3. new[i].time # t
    BY <2>1, <2>2
  <2>4. i \in Records(current) /\ h[i] = [time |-> u, value |-> committed[u]]
    BY <1>6, <2>2, <2>3
  <2> QED BY <2>4 DEF OnRecord, h
<1>16. SerialWhileHeld'
  BY <1>1, <1>15, SerialKeeps DEF Served
<1> QED BY <1>9, <1>10, <1>11, <1>12, <1>13, <1>14, <1>16 DEF Served

LEMMA SendReadServes ==
  ASSUME Served, Creator \notin Reader, NEW t \in Time, SendRead(t)
  PROVE  Served'
<1> USE TypesAssumption, LifecycleAssumption
<1>1. /\ current \in Obj /\ t \in Reader /\ Known(t)
      /\ reading' = [reading EXCEPT ![t] = current]
      /\ UNCHANGED <<history, lastRead, writeLock, queuedValue, current, cold, closed>>
      /\ UNCHANGED <<status, seen, committed>>
  BY DEF SendRead, memVars, mapVars, nodeVars
<1>2. ReadsHere'
  BY <1>1 DEF Served, ReadsHere
<1>3. SeenMarked' /\ Progress' /\ UsedFirst'
  BY <1>1 DEF Served, SeenMarked, Progress, UsedFirst
<1>4. InOrder' /\ LockAbove'
  BY <1>1 DEF Served, InOrder, LockAbove, Records
<1>5. Authored'
  BY <1>1 DEF Served, Authored, Records, InstalledAs, FirstOf
<1>6. MakerAlone'
  BY <1>1 DEF Served, MakerAlone, Known
<1>7. SerialWhileHeld'
  BY <1>1, SerialKeeps DEF Served, AllHeld, Installed, OnRecord, Records
<1> QED BY <1>2, <1>3, <1>4, <1>5, <1>6, <1>7 DEF Served

(* What a read may be answered: the record of the newest transaction before  *)
(* it that committed.  One that is decided and not on record has the lock,   *)
(* which the read then waits for; all that are installed are on record.      *)
ServedAt(t, v) ==
  \/ Before(t) = {} /\ v = Null
  \/ \E u \in Before(t) : (\A w \in Before(t) : w <= u) /\ v = committed[u]

LEMMA AnswerIsSerial ==
  ASSUME IInv, HInv, ReadTyped, Served, AllHeld, Creator \notin Reader,
         NEW t \in Time, Read(t), NEW v, SnapshotValue(current, t, v)
  PROVE  ServedAt(t, v)
<1> USE TypesAssumption, LifecycleAssumption
<1> DEFINE h == history[current]
           Seen == Visible(current, t)
<1>1. /\ current \in Obj /\ t \in Reader /\ Undecided(t) /\ reading[t] # NoObj
      /\ lastRead[current] >= t \/ ~LockedBefore(current, t)
  BY DEF Read, Served, ReadsHere
<1>2. h \in Seq(Record) /\ DOMAIN h \subseteq Nat /\ lastRead[current] \in Nat
  BY <1>1 DEF HInv, StorageTyped, ReadTyped, OptTime, NoTime
<1>3. Creator \in Time => committed[Creator] # NoValue /\ t # Creator
  BY <1>1 DEF Served, MakerAlone
<1>4. \A w \in Before(t) : status[w] = "installed"
  <2> SUFFICES ASSUME NEW w \in Before(t), status[w] # "installed" PROVE FALSE
    OBVIOUS
  <2>1. w \in Time /\ w < t /\ status[w] = "decided"
    BY DEF Before, Served, Progress
  <2>2. writeLock[current] = w /\ w # NoTime
    BY <2>1 DEF IInv, HoldersLock, Holding, NoTime
  <2>3. lastRead[current] <= w
    BY <1>1, <2>2 DEF Served, LockAbove
  <2>4. ~(lastRead[current] >= t)
    BY <1>2, <2>1, <2>3
  <2> QED BY <1>1, <2>1, <2>2, <2>4 DEF LockedBefore
<1>5. \A w \in Before(t) : \E j \in Seen : h[j].time = w /\ j \in Records(current)
  <2> SUFFICES ASSUME NEW w \in Before(t)
               PROVE  \E j \in Seen : h[j].time = w /\ j \in Records(current)
    OBVIOUS
  <2>1. w \in Time /\ w < t /\ OnRecord(current, w)
    BY <1>4 DEF Before, AllHeld, Installed
  <2>2. PICK j \in Records(current) : h[j] = [time |-> w, value |-> committed[w]]
    BY <2>1 DEF OnRecord
  <2>3. j \in DOMAIN h /\ h[j].time = w /\ w \in 1..t
    BY <2>1, <2>2 DEF Records
  <2> QED BY <2>2, <2>3 DEF Visible
<1>6. \A i \in Seen : /\ i \in Records(current) /\ h[i].time \in Before(t)
                      /\ h[i].value = committed[h[i].time]
  <2> SUFFICES ASSUME NEW i \in Seen
               PROVE  /\ i \in Records(current) /\ h[i].time \in Before(t)
                      /\ h[i].value = committed[h[i].time]
    OBVIOUS
  <2> DEFINE u == h[i].time
  <2>1. i \in DOMAIN h /\ u \in 1..t
    BY DEF Visible
  <2>2. i \in Records(current)
    BY <2>1 DEF Records, Removed, NoTime
  <2>3. u \in Time
    BY <1>1, <2>2 DEF HInv, RecordsTimed
  <2>4. InstalledAs(u, h[i].value) \/ FirstOf(u, h[i].value)
    BY <1>1, <2>2 DEF Served, Authored
  <2> HIDE DEF u
  <2>5. CASE InstalledAs(u, h[i].value)
    <3>1. committed[u] # NoValue /\ u # t
      BY <1>1, <2>3, <2>5 DEF Served, Progress, InstalledAs, Undecided
    <3>2. u < t
      BY <2>1, <3>1
    <3> QED BY <2>2, <2>3, <2>5, <3>1, <3>2 DEF InstalledAs, Before, u
  <2>6. CASE FirstOf(u, h[i].value)
    <3>1. u < t /\ committed[u] # NoValue
      BY <1>3, <2>1, <2>3, <2>6 DEF FirstOf
    <3>2. u \in Before(t) /\ status[u] # "installed"
      BY <2>3, <2>6, <3>1 DEF Before, FirstOf
    <3> QED BY <1>4, <3>2
  <2> QED BY <2>4, <2>5, <2>6
<1>7. CASE Seen = {} /\ v = Null
  BY <1>5, <1>7 DEF ServedAt
<1>8. CASE \E i \in Seen : (\A j \in Seen : j <= i) /\ v = h[i].value
  <2>1. PICK i \in Seen : (\A j \in Seen : j <= i) /\ v = h[i].value
    BY <1>8
  <2>2. ASSUME NEW w \in Before(t) PROVE w <= h[i].time
    <3>1. PICK j \in Seen : h[j].time = w /\ j \in Records(current)
      BY <1>5
    <3>2. h[i].time \in Nat /\ w \in Nat
      BY <1>6, <2>1 DEF Before
    <3>3. CASE j = i
      BY <3>1, <3>2, <3>3
    <3>4. CASE j < i
      <4>1. w < h[i].time
        BY <1>1, <1>6, <3>1, <3>4 DEF Served, InOrder
      <4> QED BY <3>2, <4>1
    <3>5. j <= i /\ i \in Nat /\ j \in Nat
      BY <1>2, <2>1, <3>1 DEF Visible
    <3> QED BY <3>3, <3>4, <3>5
  <2> QED BY <1>6, <2>1, <2>2 DEF ServedAt
<1> QED BY <1>7, <1>8 DEF SnapshotValue

LEMMA ReadServes ==
  ASSUME IInv, HInv, ReadTyped, Served, Creator \notin Reader, NEW t \in Time, Read(t)
  PROVE  Served'
<1> USE TypesAssumption, LifecycleAssumption
<1>1. /\ current \in Obj /\ t \in Reader /\ reading[t] = current
      /\ lastRead[current] >= t \/ ~LockedBefore(current, t)
      /\ lastRead' = [lastRead EXCEPT ![current] = IF @ > t THEN @ ELSE t]
      /\ reading' = [reading EXCEPT ![t] = NoObj]
      /\ UNCHANGED <<history, writeLock, queuedValue, current, cold, closed, status, committed>>
  BY DEF Read, Served, ReadsHere, mapVars, nodeVars
<1>2. PICK v \in Result : SnapshotValue(current, t, v) /\ seen' = [seen EXCEPT ![t] = v]
  BY <1>1 DEF Read
<1>3. seen'[t] = v /\ \A s \in Time \ {t} : seen'[s] = seen[s]
  BY <1>2 DEF ReadTyped
<1>4. /\ lastRead[current] \in Nat /\ t \in Nat
      /\ lastRead'[current] = IF lastRead[current] > t THEN lastRead[current] ELSE t
  BY <1>1 DEF ReadTyped, OptTime, NoTime
<1>5. ReadsHere'
  BY <1>1 DEF Served, ReadsHere, ReadTyped
<1>6. SeenMarked'
  <2> SUFFICES ASSUME NEW s \in Time, seen'[s] # NoValue
               PROVE  s \in Reader /\ lastRead'[current] >= s
    BY <1>1 DEF SeenMarked
  <2>1. CASE s = t
    BY <1>1, <1>4, <2>1
  <2>2. CASE s # t
    <3>1. s \in Reader /\ lastRead[current] >= s /\ s \in Nat
      BY <1>3, <2>2 DEF Served, SeenMarked
    <3> QED BY <1>4, <3>1
  <2> QED BY <2>1, <2>2
<1>7. UsedFirst' /\ Progress'
  BY <1>1 DEF Served, UsedFirst, Progress
<1>8. InOrder'
  BY <1>1 DEF Served, InOrder, Records
<1>9. Authored'
  BY <1>1 DEF Served, Authored, Records, InstalledAs, FirstOf
<1>10. LockAbove'
  <2> SUFFICES ASSUME writeLock[current] # NoTime
               PROVE  lastRead'[current] <= writeLock[current]
    BY <1>1 DEF Served, LockAbove, Records
  <2>1. lastRead[current] <= writeLock[current] /\ writeLock[current] \in Nat
    BY <1>1 DEF Served, LockAbove, IInv, LocksTyped, OptTime, NoTime
  <2>2. lastRead[current] >= t \/ ~(writeLock[current] < t)
    BY <1>1 DEF LockedBefore
  <2> QED BY <1>4, <2>1, <2>2
<1>11. MakerAlone'
  <2> SUFFICES ASSUME Creator \in Time, committed[Creator] = NoValue PROVE FALSE
    BY <1>1 DEF MakerAlone
  <2>1. t # Creator /\ current # NoObj
    BY <1>1
  <2> QED BY <1>1, <2>1 DEF Served, MakerAlone
<1>12. SerialWhileHeld'
  <2> SUFFICES ASSUME AllHeld', NEW s \in Reader, seen'[s] # NoValue
               PROVE  (\/ Before(s) = {} /\ seen[s] = Null
                       \/ \E u \in Before(s) : /\ \A w \in Before(s) : w <= u
                                               /\ seen[s] = committed[u])'
    BY DEF SerialWhileHeld, SnapshotsHold
  <2>1. AllHeld
    BY <1>1 DEF AllHeld, Installed, OnRecord, Records
  <2>2. ServedAt(s, seen'[s])
    <3>1. CASE s = t
      BY <1>2, <1>3, <2>1, <3>1, AnswerIsSerial
    <3>2. CASE s # t
      BY <1>3, <2>1, <3>2 DEF Served, SerialWhileHeld, SnapshotsHold, ServedAt
    <3> QED BY <3>1, <3>2
  <2>3. Before(s)' = Before(s)
    BY <1>1 DEF Before
  <2> QED BY <1>1, <2>2, <2>3 DEF ServedAt
<1> QED BY <1>5, <1>6, <1>7, <1>8, <1>9, <1>10, <1>11, <1>12 DEF Served

LEMMA ServedStep ==
  ASSUME IInv, HInv, ReadTyped, Served, closed = {}, closed' = {}, Creator \notin Reader,
         [Next]_vars
  PROVE  Served'
<1>1. ASSUME NEW o \in Fresh, NEW time, Restore(o, time) PROVE Served'
  BY <1>1, RestoreServes
<1>2. ASSUME RestoreFails PROVE Served'
  BY <1>2, RestoreFailsServes
<1>3. ASSUME NEW t \in Time, Transact(t) PROVE Served'
  <2>1. CASE Call(t)
    BY <1>1, <1>2, <2>1 DEF Call
  <2>2. CASE Create(t)
    BY <2>2, CreateServes
  <2>3. CASE Lock(t)
    BY <2>3, LockServes
  <2>4. CASE Decide(t)
    BY <2>4, DecideQueuedServes, DecideCreatedServes
  <2>5. CASE Install(t)
    BY <2>5, InstallServes
  <2>6. CASE Revert(t)
    BY <2>6, RevertServes
  <2>7. ASSUME NEW v \in Result, Queue(t, v) PROVE Served'
    BY <2>7, QueueServes
  <2>8. CASE SendRead(t)
    BY <2>8, SendReadServes
  <2>9. CASE Read(t)
    BY <2>9, ReadServes
  <2> QED BY <1>3, <2>1, <2>2, <2>3, <2>4, <2>5, <2>6, <2>7, <2>8, <2>9 DEF Transact
<1>4. ASSUME Freeze \/ AskFlush PROVE Served'
  <2>1. CASE FreezeFinds
    BY <1>1, <1>2, <2>1 DEF FreezeFinds
  <2>2. CASE QueueStorage \/ FreezeSends \/ FreezeFlushes \/ AskFlush
    <3>1. UNCHANGED <<memVars, txnVars, mapVars, cold>>
      BY <2>2 DEF QueueStorage, FreezeSends, FreezeFlushes, AskFlush
    <3> QED BY <3>1, NodeServes
  <2> QED BY <1>4, <2>1, <2>2 DEF Freeze
<1>5. ASSUME NEW o \in Obj, Store(o) PROVE Served'
  <2>1. UNCHANGED <<memVars, txnVars, mapVars>>
    BY <1>5 DEF Store, StoreNothing, StoreRecords, StoreFails
  <2>2. o \in closed \cup {current}
    BY <1>5 DEF IInv, OnceCurrent, Store, StoreNothing, StoreRecords, StoreFails
  <2>3. current \in Obj
    BY <2>2
  <2> QED BY <2>1, <2>3, NodeServes
<1>6. ASSUME NEW o \in Obj, NEW t \in Old, Collect(o, t) PROVE Served'
  BY <1>6, CollectServes
<1>7. ASSUME NEW e \in expiry, ExpireNot(e) \/ ExpireLater(e) \/ Expire(e) PROVE Served'
  <2>1. ~Expire(e)
    BY DEF Expire
  <2>2. UNCHANGED <<memVars, txnVars, mapVars, cold>>
    BY <1>7, <2>1 DEF ExpireNot, ExpireLater
  <2> QED BY <2>2, NodeServes
<1>8. CASE UNCHANGED vars
  <2>1. UNCHANGED <<memVars, txnVars, mapVars, cold>>
    BY <1>8 DEF vars, nodeVars
  <2> QED BY <2>1, NodeServes
<1>9. CASE Node
  BY <1>4, <1>5, <1>6, <1>7, <1>9 DEF Node
<1> QED BY <1>3, <1>8, <1>9 DEF Next

(* An actor that is dropped stays dropped.                                   *)
LEMMA ClosedGrows == [Next]_vars => closed \subseteq closed'
<1> SUFFICES ASSUME [Next]_vars PROVE closed \subseteq closed'
  OBVIOUS
<1>1. CASE UNCHANGED vars
  BY <1>1 DEF vars, mapVars
<1>2. ASSUME NEW t \in Time, Transact(t) PROVE closed \subseteq closed'
  BY <1>2 DEF Transact, Call, Restore, RestoreFails, Create, Lock, Queue, Decide, Install, Revert,
              SendRead, Read, mapVars
<1>3. CASE Freeze \/ AskFlush
  BY <1>3 DEF Freeze, FreezeFinds, QueueStorage, FreezeSends, FreezeFlushes, AskFlush, Restore,
              RestoreFails, mapVars
<1>4. ASSUME NEW o \in Obj, Store(o) \/ \E t \in Old : Collect(o, t) PROVE closed \subseteq closed'
  BY <1>4 DEF Store, StoreNothing, StoreRecords, StoreFails, Collect, mapVars
<1>5. ASSUME NEW e \in expiry, ExpireNot(e) \/ ExpireLater(e) \/ Expire(e)
      PROVE  closed \subseteq closed'
  BY <1>5 DEF ExpireNot, ExpireLater, Expire, mapVars
<1>6. CASE Node
  BY <1>3, <1>4, <1>5, <1>6 DEF Node
<1> QED BY <1>1, <1>2, <1>6 DEF Next

(* Until its first actor is dropped or has lost a committed write to a       *)
(* collection, what any transaction but its creator read of a pointer is the *)
(* value of the newest transaction before it that committed, in every order  *)
(* of reads, locks, decisions, commits and stores, whether the pointer was   *)
(* known or is being made (MemActor.scala:92-113,157-171).                   *)
THEOREM ReadsAreSerial == ASSUME Creator \notin Reader PROVE Spec => []SerialWhileHeld
<1>1. IInv /\ HInv /\ RInv /\ [Next]_vars => RInv'
  <2> SUFFICES ASSUME IInv, HInv, RInv, [Next]_vars PROVE RInv'
    OBVIOUS
  <2>1. ReadTyped'
    BY ReadTypesKeep DEF RInv
  <2>2. closed' = {} => closed = {}
    <3>1. closed \subseteq closed'
      BY ClosedGrows
    <3> QED BY <3>1
  <2>3. closed' = {} => Served'
    BY <2>2, ServedStep DEF RInv
  <2> QED BY <2>1, <2>3 DEF RInv
<1>2. RInv => SerialWhileHeld
  BY DEF RInv, Served, SerialWhileHeld, AllHeld
<1> QED BY AlwaysHInv, ReadsInit, StepHolds, BuffersHold, InitHolds, BuffersInit, <1>1, <1>2, PTL DEF Spec
=============================================================================
