------------------------------ MODULE MemActor ------------------------------
(* The actor that owns one pointer (storage/actors/MemActor.scala), for      *)
(* every pointer of a node.  A handler is one action: the actor's queue runs *)
(* them one at a time (ActorQueue), and what getValue sees on its caller's   *)
(* thread of a handler under way adds up to these actions (MemActorThreads). *)
(* The callers are arbitrary: the internal REST API lets any client send any *)
(* handler call with any timestamp, in any order.                            *)
EXTENDS RestmTypes

VARIABLES
  history,      \* [Ptr -> Seq(Record)], in the order records were appended
  lastRead,     \* [Ptr -> Time or NoTime]; NoTime: the actor does not exist
  writeLock,    \* [Ptr -> Time or NoTime]
  staleCommit,  \* [Ptr -> Time or NoTime]
  queuedValue   \* [Ptr -> Value, Null (a queued delete) or NoValue]

memVars == <<history, lastRead, writeLock, staleCommit, queuedValue>>

OptTime == Time \cup {NoTime}
Record == [time : OptTime, value : Result]

(* The slot of a record that "history --= ..." took out of the buffer.       *)
Removed == [time |-> NoTime, value |-> Null]

MemTypeOK ==
  /\ history \in [Ptr -> Seq(Record)]
  /\ lastRead \in [Ptr -> OptTime]
  /\ writeLock \in [Ptr -> OptTime]
  /\ staleCommit \in [Ptr -> OptTime]
  /\ queuedValue \in [Ptr -> Value \cup {Null, NoValue}]

MemInit ==
  /\ history = [p \in Ptr |-> << >>]
  /\ lastRead = [p \in Ptr |-> NoTime]
  /\ writeLock = [p \in Ptr |-> NoTime]
  /\ staleCommit = [p \in Ptr |-> NoTime]
  /\ queuedValue = [p \in Ptr |-> NoValue]

-----------------------------------------------------------------------------
(* Reading the history.                                                      *)

(* The records of p a reader at time t may see.                              *)
Visible(p, t) == {i \in DOMAIN history[p] : history[p][i].time \in 1..t}

(* v is what lastIndexWhere(_.time <= t) finds, null and nothing alike None. *)
SnapshotValue(p, t, v) ==
  \/ Visible(p, t) = {} /\ v = Null
  \/ \E i \in Visible(p, t) :
       /\ \A j \in Visible(p, t) : j <= i
       /\ v = history[p][i].value

HasRecordAfter(p, t) == \E i \in DOMAIN history[p] : history[p][i].time > t

(* The time of the record history.find(_.time >= t) returns.                 *)
IsFirstRecordFrom(p, t, w) ==
  \E i \in DOMAIN history[p] :
    /\ history[p][i].time = w
    /\ w >= t
    /\ \A j \in 1..(i - 1) : history[p][j].time < t

(* The buffer without the records of time t; not without the older ones.     *)
OnlyAfter(h, t) == [i \in 1..Len(h) |-> IF h[i].time <= t THEN Removed ELSE h[i]]
Without(h, t) == [i \in 1..Len(h) |-> IF h[i].time = t THEN Removed ELSE h[i]]

(* An actor is created by the first call that names its pointer, with that   *)
(* call's timestamp as lastRead.                                             *)
LastRead(p, t) == IF lastRead[p] = NoTime THEN t ELSE lastRead[p]
Touch(p, t) == lastRead' = [lastRead EXCEPT ![p] = LastRead(p, t)]

(* The conditions of the handlers, each behind the bug that would drop it.   *)
NeverReadLocked(p, t) == FALSE
ReadLocked(p, t) == LastRead(p, t) > t

NeverLockedBefore(p, t) == FALSE
LockedBefore(p, t) == writeLock[p] # NoTime /\ writeLock[p] < t

NeverWrittenAfter(p, t) == FALSE
WrittenAfter(p, t) == HasRecordAfter(p, t)

OwnsAnyLock(p, t) == writeLock[p] # NoTime
OwnsLock(p, t) == writeLock[p] = t

HasQueued(p) == queuedValue[p] # NoValue

-----------------------------------------------------------------------------
(* getValue(t).                                                              *)

GetValue(p, t, v) ==
  /\ LastRead(p, t) >= t \/ ~LockedBefore(p, t)
  /\ SnapshotValue(p, t, v)
  /\ lastRead' = [lastRead EXCEPT ![p] =
                    IF LastRead(p, t) > t THEN LastRead(p, t) ELSE t]
  /\ UNCHANGED <<history, writeLock, staleCommit, queuedValue>>

GetValueConflict(p, t, w) ==
  /\ LastRead(p, t) < t
  /\ LockedBefore(p, t)
  /\ w = writeLock[p]
  /\ UNCHANGED memVars

(* init(t, v).                                                               *)
InitValue(p, t, v) ==
  /\ history[p] = << >>
  /\ history' = [history EXCEPT ![p] = << [time |-> t, value |-> v] >>]
  /\ lastRead' = [lastRead EXCEPT ![p] = t]
  /\ writeLock' = [writeLock EXCEPT ![p] = NoTime]
  /\ queuedValue' = [queuedValue EXCEPT ![p] = NoValue]
  /\ staleCommit' = [staleCommit EXCEPT ![p] = NoTime]

(* writeLock(t).                                                             *)
LockRedundant(p, t) ==
  /\ writeLock[p] = t
  /\ UNCHANGED memVars

LockGranted(p, t) ==
  /\ writeLock[p] = NoTime
  /\ ~ReadLocked(p, t)
  /\ ~WrittenAfter(p, t)
  /\ writeLock' = [writeLock EXCEPT ![p] = t]
  /\ Touch(p, t)
  /\ UNCHANGED <<history, staleCommit, queuedValue>>

(* w is the transaction the caller is told it conflicts with.                *)
LockRefused(p, t, w) ==
  /\ \/ writeLock[p] \notin {NoTime, t} /\ w = writeLock[p]
     \/ writeLock[p] = NoTime /\ ReadLocked(p, t) /\ w = lastRead[p]
     \/ /\ writeLock[p] = NoTime
        /\ ~ReadLocked(p, t)
        /\ WrittenAfter(p, t)
        /\ IsFirstRecordFrom(p, t, w)
  /\ Touch(p, t)
  /\ UNCHANGED <<history, writeLock, staleCommit, queuedValue>>

-----------------------------------------------------------------------------
(* Values: writeBlob(t, v) for v in Value, delete(t) for v = Null.           *)

MayQueue(p, t) ==
  /\ t \in {writeLock[p], staleCommit[p]}
  /\ queuedValue[p] = NoValue

QueueNormally(p, t, v) ==
  /\ MayQueue(p, t)
  /\ staleCommit[p] # t
  /\ queuedValue' = [queuedValue EXCEPT ![p] = v]
  /\ staleCommit' = IF v = Null THEN [staleCommit EXCEPT ![p] = NoTime]
                                ELSE staleCommit
  /\ UNCHANGED <<history, lastRead, writeLock>>

(* The commit came before the value.  The record is stamped with whatever    *)
(* lock is there at that moment; a delete leaves its null queued.            *)
QueueAfterCommit(p, t, v) ==
  /\ MayQueue(p, t)
  /\ staleCommit[p] = t
  /\ writeLock[p] # NoTime
  /\ history' = [history EXCEPT ![p] =
                   Append(@, [time |-> writeLock[p], value |-> v])]
  /\ writeLock' = [writeLock EXCEPT ![p] = NoTime]
  /\ staleCommit' = [staleCommit EXCEPT ![p] = NoTime]
  /\ queuedValue' = IF v = Null THEN [queuedValue EXCEPT ![p] = Null]
                                ELSE queuedValue
  /\ UNCHANGED lastRead

QueueValue(p, t, v) == QueueNormally(p, t, v) \/ QueueAfterCommit(p, t, v)

(* Lock mismatch, value already queued, or no lock to stamp the record with. *)
QueueRefused(p, t) ==
  /\ \/ ~MayQueue(p, t)
     \/ staleCommit[p] = t /\ writeLock[p] = NoTime
  /\ Touch(p, t)
  /\ UNCHANGED <<history, writeLock, staleCommit, queuedValue>>

-----------------------------------------------------------------------------
(* writeCommit(t) and writeReset(t); both refuse a lock that is not t's.     *)

CommitQueued(p, t) ==
  /\ OwnsLock(p, t)
  /\ HasQueued(p)
  /\ history' = [history EXCEPT ![p] =
                   Append(Without(@, t), [time |-> t, value |-> queuedValue[p]])]
  /\ staleCommit' = [staleCommit EXCEPT ![p] = NoTime]
  /\ queuedValue' = [queuedValue EXCEPT ![p] = NoValue]
  /\ writeLock' = [writeLock EXCEPT ![p] = NoTime]
  /\ UNCHANGED lastRead

CommitEmpty(p, t) ==
  /\ OwnsLock(p, t)
  /\ ~HasQueued(p)
  /\ staleCommit' = [staleCommit EXCEPT ![p] = t]
  /\ writeLock' = [writeLock EXCEPT ![p] = NoTime]
  /\ UNCHANGED <<history, lastRead, queuedValue>>

WriteCommit(p, t) == CommitQueued(p, t) \/ CommitEmpty(p, t)

WriteReset(p, t) ==
  /\ OwnsLock(p, t)
  /\ writeLock' = [writeLock EXCEPT ![p] = NoTime]
  /\ queuedValue' = [queuedValue EXCEPT ![p] = NoValue]
  /\ staleCommit' = [staleCommit EXCEPT ![p] = NoTime]
  /\ UNCHANGED <<history, lastRead>>

LockMismatch(p, t) ==
  /\ ~OwnsLock(p, t)
  /\ Touch(p, t)
  /\ UNCHANGED <<history, writeLock, staleCommit, queuedValue>>

-----------------------------------------------------------------------------
(* Arbitrary callers.  Only init is tied to its caller, RestmImpl.newPtr:    *)
(* it draws a random id, so it initialises a pointer nobody has named yet.   *)
MemNext ==
  \E p \in Ptr, t \in Time :
    \/ \E v \in Result : GetValue(p, t, v)
    \/ \E w \in Time : GetValueConflict(p, t, w)
    \/ \E v \in Value : lastRead[p] = NoTime /\ InitValue(p, t, v)
    \/ LockRedundant(p, t)
    \/ LockGranted(p, t)
    \/ \E w \in Time : LockRefused(p, t, w)
    \/ \E v \in Result : QueueValue(p, t, v)
    \/ QueueRefused(p, t)
    \/ WriteCommit(p, t)
    \/ WriteReset(p, t)
    \/ LockMismatch(p, t)

MemSpec == MemInit /\ [][MemNext]_memVars

-----------------------------------------------------------------------------
(* What the actor promises whoever calls it.                                 *)

(* History is appended in time order, so the last record found is the       *)
(* newest one: lastIndexWhere in getValue (MemActor.scala:97,112) relies on  *)
(* an order that only the checks of writeLock (162-167) establish, through   *)
(* the removal in writeCommit and the record a late writeBlob appends.       *)
HistorySorted ==
  \A p \in Ptr : \A i, j \in DOMAIN history[p] :
    /\ i < j
    /\ history[p][i].time # NoTime
    /\ history[p][j].time # NoTime
    => history[p][i].time <= history[p][j].time

(* A held write lock is not older than any read or any record of its        *)
(* pointer, whatever reads slip in while it is held: getValue's conflict     *)
(* check (MemActor.scala:105) against writeLock's two (162, 166).            *)
LockAboveReads ==
  \A p \in Ptr : writeLock[p] # NoTime =>
    /\ lastRead[p] \in 1..writeLock[p]
    /\ ~HasRecordAfter(p, writeLock[p])

(* A snapshot taken is a snapshot kept: no call of any other transaction     *)
(* changes what a reader older than the newest reader would find.  This is   *)
(* the multi-version promise getValue's fast path (MemActor.scala:96-102)    *)
(* depends on when it skips the lock.                                        *)
SnapshotKept(p, t) ==
  \A v \in Result : SnapshotValue(p, t, v)' <=> SnapshotValue(p, t, v)

SnapshotStable ==
  [][\A p \in Ptr, t \in Time : t < lastRead[p] => SnapshotKept(p, t)]_memVars
=============================================================================
