--------------------------- MODULE MemActorThreads ---------------------------
(* The pointer actor as its threads run it: getValue runs on its caller's    *)
(* thread, under rwlock first and then under history's lock, while the       *)
(* actor's own thread is between two such sections of a handler              *)
(* (storage/actors/MemActor.scala).  A handler that has one section, or      *)
(* whose other writes no other thread reads, is one step; ActorQueue keeps   *)
(* the handlers of one actor apart.                                          *)
EXTENDS MemActor

VARIABLES
  doing,    \* [Ptr -> Doing], the handler that has appended and not unlocked
  reading,  \* [Time -> [Ptr -> {"idle", "look"}]], getValue's progress
  seen      \* [Time -> [Ptr -> Result or NoValue]], its last answer

threadVars == <<memVars, doing, reading, seen>>
Doing == {"nothing", "commit", "late", "lateDelete"}

ThreadTypeOK ==
  /\ MemTypeOK
  /\ doing \in [Ptr -> Doing]
  /\ reading \in [Time -> [Ptr -> {"idle", "look"}]]
  /\ seen \in [Time -> [Ptr -> Result \cup {NoValue}]]

ThreadInit ==
  /\ MemInit
  /\ doing = [p \in Ptr |-> "nothing"]
  /\ reading = [t \in Time |-> [p \in Ptr |-> "idle"]]
  /\ seen = [t \in Time |-> [p \in Ptr |-> NoValue]]

Exists(p) == lastRead[p] # NoTime

-----------------------------------------------------------------------------
(* The actor is created by the first call that names its pointer, on that    *)
(* call's thread; a new pointer is named by init first.                      *)
Create(p, t) ==
  /\ ~Exists(p)
  /\ \/ Touch(p, t) /\ UNCHANGED <<history, writeLock, staleCommit, queuedValue>>
     \/ \E v \in Value : InitValue(p, t, v)
  /\ UNCHANGED <<doing, reading, seen>>

(* Handlers of one section, on the actor's thread.                           *)
HandleAtOnce(p, t) ==
  /\ Exists(p)
  /\ doing[p] = "nothing"
  /\ \/ LockGranted(p, t)
     \/ \E v \in Result : QueueNormally(p, t, v)
     \/ CommitEmpty(p, t)
     \/ WriteReset(p, t)
  /\ UNCHANGED <<doing, reading, seen>>

(* writeCommit of a queued value, and a value after its commit: history      *)
(* first ...                                                                 *)
AppendQueued(p, t) ==
  /\ doing[p] = "nothing"
  /\ OwnsLock(p, t)
  /\ HasQueued(p)
  /\ history' = [history EXCEPT ![p] =
                   Append(Without(@, t), [time |-> t, value |-> queuedValue[p]])]
  /\ doing' = [doing EXCEPT ![p] = "commit"]
  /\ UNCHANGED <<lastRead, writeLock, staleCommit, queuedValue, reading, seen>>

AppendLate(p, t, v) ==
  /\ doing[p] = "nothing"
  /\ MayQueue(p, t)
  /\ staleCommit[p] = t
  /\ writeLock[p] # NoTime
  /\ history' = [history EXCEPT ![p] =
                   Append(@, [time |-> writeLock[p], value |-> v])]
  /\ doing' = [doing EXCEPT ![p] = IF v = Null THEN "lateDelete" ELSE "late"]
  /\ UNCHANGED <<lastRead, writeLock, staleCommit, queuedValue, reading, seen>>

(* ... and then the lock, with the fields only the actor's thread uses.      *)
LeftQueued(p) == IF doing[p] = "lateDelete" THEN Null ELSE NoValue

UnlockOnly(p) ==
  /\ doing[p] # "nothing"
  /\ writeLock' = [writeLock EXCEPT ![p] = NoTime]
  /\ doing' = [doing EXCEPT ![p] = "nothing"]
  /\ UNCHANGED <<history, lastRead, staleCommit, queuedValue, reading, seen>>
Unlock(p) ==
  /\ doing[p] # "nothing"
  /\ writeLock' = [writeLock EXCEPT ![p] = NoTime]
  /\ staleCommit' = [staleCommit EXCEPT ![p] = NoTime]
  /\ queuedValue' = [queuedValue EXCEPT ![p] = LeftQueued(p)]
  /\ doing' = [doing EXCEPT ![p] = "nothing"]
  /\ UNCHANGED <<history, lastRead, reading, seen>>

-----------------------------------------------------------------------------
(* getValue(t) on its caller's thread.                                       *)

Advance(t, p, from, to) ==
  /\ reading[t][p] = from
  /\ reading' = [reading EXCEPT ![t][p] = to]

(* lastRead is read without a lock: an old value of it leads to Mark.        *)
SkipMark(t, p) ==
  /\ lastRead[p] >= t
  /\ Advance(t, p, "idle", "look")
  /\ UNCHANGED <<memVars, doing, seen>>

(* Under rwlock; with a lock of an older writer, the call fails here and     *)
(* leaves no trace.                                                          *)
CheckOnly(t, p) ==
  /\ Exists(p)
  /\ ~LockedBefore(p, t)
  /\ Advance(t, p, "idle", "look")
  /\ UNCHANGED <<memVars, doing, seen>>
Mark(t, p) ==
  /\ Exists(p)
  /\ ~LockedBefore(p, t)
  /\ lastRead' = [lastRead EXCEPT ![p] = IF @ > t THEN @ ELSE t]
  /\ Advance(t, p, "idle", "look")
  /\ UNCHANGED <<history, writeLock, staleCommit, queuedValue, doing, seen>>

(* Under history's lock.                                                     *)
Look(t, p) ==
  /\ Advance(t, p, "look", "idle")
  /\ \E v \in Result :
       /\ SnapshotValue(p, t, v)
       /\ seen' = [seen EXCEPT ![t][p] = v]
  /\ UNCHANGED <<memVars, doing>>

-----------------------------------------------------------------------------
ThreadNext ==
  \E p \in Ptr :
    \/ \E t \in Time :
         \/ Create(p, t)
         \/ HandleAtOnce(p, t)
         \/ AppendQueued(p, t)
         \/ \E v \in Result : AppendLate(p, t, v)
         \/ SkipMark(t, p)
         \/ Mark(t, p)
         \/ Look(t, p)
    \/ Unlock(p)

ThreadSpec == ThreadInit /\ [][ThreadNext]_threadVars

-----------------------------------------------------------------------------
(* What a thread was once answered it would be answered again, whatever the  *)
(* writers did between its two sections or did since (README.md:13, "perfect *)
(* isolation"): nothing was or will be slipped in under its mark, but by     *)
(* transaction t itself.                                                     *)
AnswersRepeat ==
  \A t \in Time, p \in Ptr : seen[t][p] # NoValue =>
    \/ SnapshotValue(p, t, seen[t][p])
    \/ \E i \in DOMAIN history[p] : history[p][i].time = t

(* The steps add up to the atomic handlers of MemActor: a value is installed *)
(* at the moment history is appended (MemActor.scala:187,218,250), although  *)
(* the lock is still seen by readers then.                                   *)
Appended(p) == doing[p] # "nothing"

Atomic == INSTANCE MemActor
  WITH writeLock <- [p \in Ptr |-> IF Appended(p) THEN NoTime ELSE writeLock[p]],
       staleCommit <- [p \in Ptr |-> IF Appended(p) THEN NoTime ELSE staleCommit[p]],
       queuedValue <- [p \in Ptr |-> IF Appended(p) THEN LeftQueued(p) ELSE queuedValue[p]]

ImplementsAtomicActor == Atomic!MemSpec
=============================================================================
