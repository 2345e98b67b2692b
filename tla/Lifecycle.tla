------------------------------ MODULE Lifecycle ------------------------------
(* What a node does with the actor of one pointer over time                  *)
(* (storage/actors/RestmActors.scala, storage/cold): it restores it from     *)
(* cold storage when a call names the pointer, stores its records after      *)
(* every commit, collects old ones, and drops the actor when it was idle.    *)
(* Its handlers are those of MemActor, on successive actor objects of the    *)
(* one pointer; the callers are transactions as STMTxnCtx runs them.         *)
EXTENDS MemActor, FiniteSets

Obj == Ptr   \* here: the actor objects of one pointer, one after the other

CONSTANTS
  NoObj,     \* no actor object
  Writer,    \* transactions that may write the pointer
  Reader,    \* transactions that may read it
  Creator,   \* the transaction that creates it by newPtr; NoTime: it was known
  First,     \* the value newPtr gives it
  Old,       \* transactions that may get older than the 15 s of collectGarbage
  OldWins,   \* the merge of store: BdbColdStorage keeps an old record of the
             \* same time, HeapColdStorage the new one
  MayFail    \* what may fail of cold storage: "read", "store"

ASSUME LifecycleAssumption ==
  /\ NoObj \notin Obj /\ "failed" \notin Obj
  /\ Writer \subseteq Time /\ Reader \subseteq Time
  /\ Creator \in Time \cup {NoTime}
  /\ First \in Value /\ Old \subseteq Time
  /\ OldWins \in BOOLEAN /\ MayFail \subseteq {"read", "store"}

VARIABLES
  current,      \* Obj, NoObj, or "failed": what ptrs1 and ptrs2 hold for it
  closed,       \* SUBSET Obj
  stored,       \* [Obj -> set of slots of history with a coldStorageTs]
  cold,         \* [Time -> Result or NoValue], the cold storage
  notes,        \* commits whose queueStorage is still to be called
  freezeQueue,  \* sequence of "ptr" and "flush"
  stores,       \* [Obj -> store messages in its queue]
  collects,     \* SUBSET Obj with a collectGarbage message in their queue
  expiry,       \* tasks of expireQueue, and their messages
  status,       \* [Time -> Status], the write of each transaction
  reading,      \* [Time -> Obj or NoObj], the actor a getValue was sent to
  seen,         \* [Time -> Result or NoValue], its last answer
  committed,    \* [Time -> Result or NoValue], what was decided
  flush,        \* {"no", "asked", "done"}, a flushColdStorage
  before,       \* the transactions installed when it was asked for
  lapsed        \* SUBSET Time, the records of the last store if it failed

mapVars == <<current, closed>>
nodeVars == <<stored, cold, freezeQueue, stores, collects, expiry>>
txnVars == <<status, reading, seen, committed>>
flushVars == <<flush, before>>
owedVars == <<flushVars, lapsed>>
vars == <<memVars, mapVars, nodeVars, notes, txnVars, owedVars>>

Status == {"idle", "created", "locked", "queued", "decided", "installed", "gone"}
Task == [obj : Obj, txns : SUBSET Time, read : Time]

LifecycleTypeOK ==
  /\ MemTypeOK
  /\ current \in Obj \cup {NoObj, "failed"}
  /\ closed \subseteq Obj
  /\ \A o \in Obj : stored[o] \subseteq DOMAIN history[o]
  /\ cold \in [Time -> Result \cup {NoValue}]
  /\ notes \in Nat
  /\ freezeQueue \in Seq({"ptr", "flush"})
  /\ stores \in [Obj -> Nat]
  /\ collects \subseteq Obj
  /\ expiry \subseteq Task
  /\ status \in [Time -> Status]
  /\ reading \in [Time -> Obj \cup {NoObj}]
  /\ seen \in [Time -> Result \cup {NoValue}]
  /\ committed \in [Time -> Result \cup {NoValue}]
  /\ flush \in {"no", "asked", "done"}
  /\ before \subseteq Time
  /\ lapsed \subseteq Time

Init ==
  /\ MemInit
  /\ current = NoObj /\ closed = {}
  /\ stored = [o \in Obj |-> {}]
  /\ cold = [t \in Time |-> NoValue]
  /\ notes = 0 /\ freezeQueue = << >>
  /\ stores = [o \in Obj |-> 0]
  /\ collects = {} /\ expiry = {}
  /\ status = [t \in Time |-> "idle"]
  /\ reading = [t \in Time |-> NoObj]
  /\ seen = [t \in Time |-> NoValue]
  /\ committed = [t \in Time |-> NoValue]
  /\ flush = "no" /\ before = {} /\ lapsed = {}

-----------------------------------------------------------------------------
(* getPtrActor: the actor of a pointer nobody holds is made from storage.    *)

Fresh == Obj \ (closed \cup {current})
Stored == {t \in Time : cold[t] # NoValue}

(* The records in storage, sorted by time.                                   *)
Restored ==
  [i \in 1..Cardinality(Stored) |->
     LET t == CHOOSE t \in Stored : Cardinality({u \in Stored : u < t}) = i - 1
     IN  [time |-> t, value |-> cold[t]]]

Restore(o, time) ==
  /\ current = NoObj
  /\ current' = o
  /\ history' = [history EXCEPT ![o] = Restored]
  /\ stored' = [stored EXCEPT ![o] = 1..Cardinality(Stored)]
  /\ lastRead' = [lastRead EXCEPT ![o] = time]
  /\ UNCHANGED <<writeLock, staleCommit, queuedValue, closed, cold, freezeQueue, stores,
                 collects, expiry, notes, txnVars, owedVars>>

(* coldStorage.read throws: the failed future stays in both maps.            *)
RestoreFails ==
  /\ "read" \in MayFail
  /\ current = NoObj
  /\ current' = "failed"
  /\ UNCHANGED <<memVars, closed, nodeVars, notes, txnVars, owedVars>>

(* A pointer made by newPtr travels in its creator's committed values only.  *)
Known(t) ==
  t = Creator \/ \A u \in Time : u = Creator => committed[u] # NoValue

Call(t) ==
  /\ t \in Reader \cup Writer
  /\ Known(t)
  /\ \/ \E o \in Fresh : Restore(o, t)
     \/ RestoreFails

-----------------------------------------------------------------------------
(* Transactions.  The value of a transaction's write is its own; the first   *)
(* value its newPtr gave it is another.                                      *)

Goes(t, from, to) ==
  /\ status[t] \in from
  /\ status' = [status EXCEPT ![t] = to]

Create(t) ==
  /\ t = Creator
  /\ current \in Obj
  /\ InitValue(current, t, First)
  /\ Goes(t, {"idle"}, "created")
  /\ notes' = notes + 1
  /\ UNCHANGED <<mapVars, nodeVars, reading, seen, committed, owedVars>>

Lock(t) ==
  /\ t \in Writer
  /\ Known(t)
  /\ current \in Obj
  /\ writeLock[current] = NoTime
  /\ ~(lastRead[current] > t)
  /\ ~WrittenAfter(current, t)
  /\ writeLock' = [writeLock EXCEPT ![current] = t]
  /\ Goes(t, IF t = Creator THEN {"created"} ELSE {"idle"}, "locked")
  /\ UNCHANGED <<history, lastRead, staleCommit, queuedValue, mapVars, nodeVars, notes,
                 reading, seen, committed, owedVars>>

Queue(t, v) ==
  /\ current \in Obj
  /\ QueueNormally(current, t, v)
  /\ Goes(t, {"locked"}, "queued")
  /\ UNCHANGED <<mapVars, nodeVars, notes, reading, seen, committed, owedVars>>

(* The transaction's actor decides; for a creator that writes nothing more,  *)
(* its first value counts.                                                   *)
Decide(t) ==
  /\ \/ /\ current \in Obj
        /\ Goes(t, {"queued"}, "decided")
        /\ committed' = [committed EXCEPT ![t] = queuedValue[current]]
     \/ /\ Goes(t, {"created"}, "installed")
        /\ committed' = [committed EXCEPT ![t] = First]
  /\ UNCHANGED <<memVars, mapVars, nodeVars, notes, reading, seen, owedVars>>

Install(t) ==
  /\ current \in Obj
  /\ CommitQueued(current, t)
  /\ Goes(t, {"decided"}, "installed")
  /\ notes' = notes + 1
  /\ UNCHANGED <<mapVars, nodeVars, reading, seen, committed, owedVars>>

Revert(t) ==
  /\ current \in Obj
  /\ WriteReset(current, t)
  /\ Goes(t, {"locked", "queued"}, "gone")
  /\ UNCHANGED <<mapVars, nodeVars, notes, reading, seen, committed, owedVars>>

Undecided(t) == status[t] \in {"idle", "created", "locked", "queued"}

(* getValue is sent to the actor found, which may be closed when it runs: it *)
(* does not pass the queue.                                                  *)
SendRead(t) ==
  /\ t \in Reader
  /\ Known(t)
  /\ Undecided(t)
  /\ reading[t] = NoObj
  /\ current \in Obj
  /\ reading' = [reading EXCEPT ![t] = current]
  /\ UNCHANGED <<memVars, mapVars, nodeVars, notes, status, seen, committed, owedVars>>

Read(t) ==
  LET o == reading[t] IN
  /\ o # NoObj
  /\ Undecided(t)
  /\ lastRead[o] >= t \/ ~LockedBefore(o, t)
  /\ \E v \in Result : SnapshotValue(o, t, v) /\ seen' = [seen EXCEPT ![t] = v]
  /\ lastRead' = [lastRead EXCEPT ![o] = IF @ > t THEN @ ELSE t]
  /\ reading' = [reading EXCEPT ![t] = NoObj]
  /\ UNCHANGED <<history, writeLock, staleCommit, queuedValue, mapVars, nodeVars, notes,
                 status, committed, owedVars>>

Transact(t) ==
  \/ Call(t) \/ Create(t) \/ Lock(t) \/ Decide(t) \/ Install(t) \/ Revert(t)
  \/ \E v \in Result : Queue(t, v)
  \/ SendRead(t) \/ Read(t)

-----------------------------------------------------------------------------
(* The freeze thread.                                                        *)

(* queueStorage(id), after the future of a commit or a creation.             *)
QueueStorage ==
  /\ notes > 0
  /\ notes' = notes - 1
  /\ freezeQueue' = Append(freezeQueue, "ptr")
  /\ UNCHANGED <<memVars, mapVars, stored, cold, stores, collects, expiry, txnVars, owedVars>>

AskFlush ==
  /\ flush = "no"
  /\ flush' = "asked"
  /\ before' = {t \in Time : status[t] = "installed"}
  /\ freezeQueue' = Append(freezeQueue, "flush")
  /\ UNCHANGED <<memVars, mapVars, stored, cold, stores, collects, expiry, notes, txnVars,
                 lapsed>>

(* The thread finds or restores the actor, with no lastRead, and sends it    *)
(* the store message; it does not wait for that message.                     *)
FreezeFinds ==
  /\ freezeQueue # << >> /\ Head(freezeQueue) = "ptr"
  /\ \/ \E o \in Fresh : Restore(o, NoTime)
     \/ RestoreFails

FreezeSends ==
  /\ freezeQueue # << >> /\ Head(freezeQueue) = "ptr"
  /\ current # NoObj
  /\ freezeQueue' = Tail(freezeQueue)
  /\ stores' = IF current = "failed" THEN stores ELSE [stores EXCEPT ![current] = @ + 1]
  /\ UNCHANGED <<memVars, mapVars, stored, cold, collects, expiry, notes, txnVars, owedVars>>

FreezeFlushes ==
  /\ freezeQueue # << >> /\ Head(freezeQueue) = "flush"
  /\ freezeQueue' = Tail(freezeQueue)
  /\ flush' = "done"
  /\ UNCHANGED before
  /\ UNCHANGED <<memVars, mapVars, stored, cold, stores, collects, expiry, notes, txnVars,
                 lapsed>>

-----------------------------------------------------------------------------
(* Messages of the node to the actor; a closed actor refuses them.           *)

Records(o) == {i \in DOMAIN history[o] : history[o][i] # Removed}
TimesOf(o) == {history[o][i].time : i \in Records(o)}
NotTheLast(o) == {i \in Records(o) : i < Len(history[o])} \ stored[o]
ToUpload(o) == Records(o) \ stored[o]

(* The storage after a store of the records S.                               *)
Replace(o, S) ==
  [t \in Time |->
     IF \E i \in S : history[o][i].time = t
       THEN history[o][CHOOSE i \in S : history[o][i].time = t].value
       ELSE NoValue]
Merge(o, S) ==
  [t \in Time |->
     IF \E i \in S : history[o][i].time = t /\ ~(OldWins /\ cold[t] # NoValue)
       THEN history[o][CHOOSE i \in S : history[o][i].time = t].value
       ELSE cold[t]]

(* The expiry task remembers what the actor held when it was stored; an      *)
(* actor without lastRead gets none, by an exception (lastRead.get).         *)
NeverNewCommit(o, times) == FALSE
HasNewCommit(o, times) == \E t \in TimesOf(o) : t \notin times

NewTask(o) ==
  IF lastRead[o] = NoTime
    THEN {}
    ELSE {[obj |-> o, txns |-> TimesOf(o), read |-> lastRead[o]]}

StoreNothing(o) ==
  /\ stores[o] > 0
  /\ stores' = [stores EXCEPT ![o] = @ - 1]
  /\ o \in closed \/ ToUpload(o) = {}
  /\ collects' = IF o \in closed THEN collects ELSE collects \cup {o}
  /\ UNCHANGED <<memVars, mapVars, stored, cold, freezeQueue, expiry, notes, txnVars, owedVars>>

StoreRecords(o) ==
  /\ stores[o] > 0
  /\ stores' = [stores EXCEPT ![o] = @ - 1]
  /\ o \notin closed
  /\ ToUpload(o) # {}
  /\ cold' = Merge(o, ToUpload(o))
  /\ stored' = [stored EXCEPT ![o] = @ \cup ToUpload(o)]
  /\ collects' = collects \cup {o}
  /\ expiry' = expiry \cup NewTask(o)
  /\ lapsed' = {}
  /\ UNCHANGED <<memVars, mapVars, freezeQueue, notes, txnVars, flushVars>>

(* coldStorage.store throws: nothing is marked and no expiry is scheduled,   *)
(* though records put one by one (DynamoColdStorage) may be in storage.      *)
(* Nobody asks for another store until the next commit.                      *)
StoreFails(o) ==
  /\ "store" \in MayFail
  /\ stores[o] > 0
  /\ stores' = [stores EXCEPT ![o] = @ - 1]
  /\ o \notin closed
  /\ ToUpload(o) # {}
  /\ \E S \in SUBSET ToUpload(o) : cold' = Merge(o, S)
  /\ lapsed' = {history[o][i].time : i \in ToUpload(o)}
  /\ collects' = collects \cup {o}
  /\ UNCHANGED <<memVars, mapVars, stored, freezeQueue, expiry, notes, txnVars, flushVars>>

(* collectGarbage: the records older than 15 s but the newest; time t stands *)
(* for the age limit.                                                        *)
Newest(o) == CHOOSE i \in Records(o) : \A j \in Records(o) :
               /\ history[o][j].time <= history[o][i].time
               /\ history[o][j].time = history[o][i].time => i <= j

Collect(o, t) ==
  /\ o \in collects
  /\ collects' = collects \ {o}
  /\ history' = IF o \in closed \/ Records(o) = {} THEN history ELSE
       [history EXCEPT ![o] = [i \in DOMAIN @ |->
          IF @[i].time <= t /\ i # Newest(o) THEN Removed ELSE @[i]]]
  /\ UNCHANGED <<lastRead, writeLock, staleCommit, queuedValue, mapVars, stored, cold,
                 freezeQueue, stores, expiry, notes, txnVars, owedVars>>

(* The expiry task, IDLE_PTR_TIME after the store or after its last run.     *)
Settled(e) == e.obj \in closed \/ HasNewCommit(e.obj, e.txns)
IsReadActive(e) == lastRead[e.obj] > e.read
NeverWriteLocked(o) == FALSE
IsWriteLocked(o) == writeLock[o] # NoTime

ExpireNot(e) ==
  /\ Settled(e) \/ (~IsReadActive(e) /\ IsWriteLocked(e.obj))
  /\ expiry' = expiry \ {e}
  /\ UNCHANGED <<memVars, mapVars, stored, cold, freezeQueue, stores, collects, notes, txnVars,
                 owedVars>>

ExpireLater(e) ==
  /\ ~Settled(e)
  /\ IsReadActive(e)
  /\ expiry' = (expiry \ {e}) \cup {[e EXCEPT !.read = lastRead[e.obj]]}
  /\ UNCHANGED <<memVars, mapVars, stored, cold, freezeQueue, stores, collects, notes, txnVars,
                 owedVars>>

Expire(e) ==
  /\ ~Settled(e)
  /\ ~IsReadActive(e)
  /\ ~IsWriteLocked(e.obj)
  /\ expiry' = expiry \ {e}
  /\ current' = NoObj
  /\ closed' = closed \cup {e.obj}
  /\ UNCHANGED <<memVars, stored, cold, freezeQueue, stores, collects, notes, txnVars, owedVars>>

-----------------------------------------------------------------------------
Freeze == QueueStorage \/ FreezeFinds \/ FreezeSends \/ FreezeFlushes
Store(o) == StoreNothing(o) \/ StoreRecords(o) \/ StoreFails(o)

Node ==
  \/ Freeze
  \/ AskFlush
  \/ \E o \in Obj : Store(o) \/ \E t \in Old : Collect(o, t)
  \/ \E e \in expiry : ExpireNot(e) \/ ExpireLater(e) \/ Expire(e)

Next == Node \/ \E t \in Time : Transact(t)

Spec == Init /\ [][Next]_vars

(* The freeze thread runs, and actors handle their messages.                 *)
Fairness ==
  /\ WF_vars(Freeze)
  /\ \A o \in Obj : WF_vars(Store(o))

FairSpec == Spec /\ Fairness

-----------------------------------------------------------------------------
Installed == {t \in Time : status[t] = "installed"}

(* Who holds a lock holds it at the actor every other call finds: an actor   *)
(* is never dropped under a lock, and two actors never grant locks for the   *)
(* same pointer (RestmActors.scala:68-83,154-185).                           *)
LockedIsCurrent ==
  \A o \in Obj : writeLock[o] # NoTime => o = current /\ o \notin closed

(* A decided write keeps its lock and its queued value until it is on        *)
(* record, whatever the node does in between (RestmActors.scala:68-83).      *)
DecidedKept ==
  \A t \in Time : status[t] = "decided" =>
    /\ current \in Obj
    /\ writeLock[current] = t
    /\ queuedValue[current] = committed[t]

(* However a commit, the freeze thread, a collection and an expiry fall      *)
(* together, a decided write is kept, and the newest write is on record in   *)
(* memory, or else in storage, also when the pointer could not be restored   *)
(* (RestmActors.scala:54-86).                                                *)
OnRecord(o, t) ==
  \E i \in Records(o) : history[o][i] = [time |-> t, value |-> committed[t]]

CommittedSurvive ==
  /\ DecidedKept
  /\ \A t \in Installed : (\A u \in Installed : u <= t) =>
       \/ current \in Obj /\ OnRecord(current, t)
       \/ current \notin Obj /\ cold[t] = committed[t]

(* A record that will not be stored again is in storage (coldStorageTs,      *)
(* RestmActors.scala:59-61, against the merge in store).                     *)
MarkedIsStored ==
  \A o \in Obj \ closed : \A i \in stored[o] \cap Records(o) :
    cold[history[o][i].time] = history[o][i].value

(* What a transaction was answered is what the transactions before it wrote: *)
(* perfect isolation (README.md:13), whatever happens to the actor.          *)
Before(t) == {u \in Time : u < t /\ committed[u] # NoValue}
SnapshotsHold ==
  \A t \in Reader : seen[t] # NoValue =>
    \/ Before(t) = {} /\ seen[t] = Null
    \/ \E u \in Before(t) : (\A w \in Before(t) : w <= u) /\ seen[t] = committed[u]

(* Reads are the serial ones while the actor is the first one and has all    *)
(* committed writes on record, that is until a collection (MemActor.scala:58)*)
(* or an expiry (RestmActors.scala:78); after either, they need not be.      *)
AllHeld == closed = {} /\ \A t \in Installed : current \in Obj /\ OnRecord(current, t)
SerialWhileHeld == AllHeld => SnapshotsHold

(* After a flush, what was on record before it is in storage.                *)
FlushedIsStored ==
  flush = "done" => \A t \in before : cold[t] = committed[t]

(* Every commit reaches storage, or a newer one does, unless the last store  *)
(* had the one or the other in hand and failed; the next commit is owed both *)
(* again (RestmActors.scala:56-61,88-90).                                    *)
CommitsReachStore ==
  \A t \in Time : status[t] = "installed" ~>
    \/ cold[t] = committed[t]
    \/ \E u \in Time : u > t /\ cold[u] # NoValue
    \/ \E u \in lapsed : u >= t
=============================================================================
