--------------------------- MODULE MemActor_proofs ---------------------------
(* What holds of every pointer whatever its callers do, for all timestamps,  *)
(* values and numbers of pointers.                                           *)
EXTENDS MemActor, TLAPS

(* The inductive invariant: HistorySorted needs LockAboveReads (a record is  *)
(* appended with the time of the lock held), LockAboveReads needs the types. *)
MemInv == MemTypeOK /\ HistorySorted /\ LockAboveReads

(* Appending, and emptying slots, keeps a buffer a sequence of records.      *)
LEMMA AppendType ==
  ASSUME NEW h \in Seq(Record), NEW r \in Record
  PROVE  /\ Append(h, r) \in Seq(Record)
         /\ DOMAIN Append(h, r) = 1..(Len(h) + 1)
         /\ DOMAIN h = 1..Len(h)
         /\ Len(h) \in Nat
         /\ \A i \in 1..Len(h) : Append(h, r)[i] = h[i]
         /\ Append(h, r)[Len(h) + 1] = r
  OBVIOUS

(* Taking a writer's records out keeps the length of the buffer and the      *)
(* places of all others.                                                     *)
LEMMA WithoutType ==
  ASSUME NEW h \in Seq(Record), NEW t \in Time
  PROVE  /\ Without(h, t) \in Seq(Record)
         /\ Len(Without(h, t)) = Len(h)
         /\ DOMAIN Without(h, t) = 1..Len(h)
         /\ \A i \in 1..Len(h) : Without(h, t)[i] = IF h[i].time = t THEN Removed ELSE h[i]
<1>1. Len(h) \in Nat /\ \A i \in 1..Len(h) : h[i] \in Record
  OBVIOUS
<1>2. Removed \in Record
  BY DEF Removed, Record, OptTime, Result
<1>3. Without(h, t) \in [1..Len(h) -> Record]
  BY <1>1, <1>2 DEF Without
<1>4. Without(h, t) \in Seq(Record)
  BY <1>1, <1>3
<1>5. QED
  BY <1>1, <1>3, <1>4 DEF Without

(* A handler that leaves the buffers and the locks alone, and raises the     *)
(* read mark of p at most to a time its lock allows, keeps the invariant.    *)
LEMMA MarkKeeps ==
  ASSUME MemInv, NEW p \in Ptr, NEW r \in Time,
         lastRead' = [lastRead EXCEPT ![p] = r],
         writeLock[p] # NoTime => r <= writeLock[p],
         UNCHANGED <<history, writeLock, staleCommit, queuedValue>>
  PROVE  MemInv'
<1> USE TypesAssumption DEF MemInv
<1>1. MemTypeOK'
  BY DEF MemTypeOK, OptTime
<1>2. HistorySorted'
  BY DEF HistorySorted
<1>3. LockAboveReads'
  BY DEF LockAboveReads, HasRecordAfter, MemTypeOK, OptTime, NoTime
<1>4. QED
  BY <1>1, <1>2, <1>3

(* Touching an actor that exists changes nothing; one that is created has no *)
(* lock.                                                                     *)
LEMMA TouchKeeps ==
  ASSUME MemInv, NEW p \in Ptr, NEW t \in Time, Touch(p, t),
         UNCHANGED <<history, writeLock, staleCommit, queuedValue>>
  PROVE  MemInv'
<1>1. LastRead(p, t) \in Time
  BY DEF LastRead, MemInv, MemTypeOK, OptTime
<1>2. writeLock[p] # NoTime => LastRead(p, t) <= writeLock[p]
  BY TypesAssumption DEF LastRead, MemInv, LockAboveReads, MemTypeOK, OptTime, NoTime
<1>3. QED
  BY <1>1, <1>2, MarkKeeps DEF Touch

(* Giving up the lock of one pointer keeps the invariant when its buffer is  *)
(* kept too.                                                                 *)
LEMMA UnlockKeeps ==
  ASSUME MemInv, NEW p \in Ptr,
         writeLock' = [writeLock EXCEPT ![p] = NoTime],
         UNCHANGED <<history, lastRead>>,
         staleCommit' \in [Ptr -> OptTime],
         queuedValue' \in [Ptr -> Value \cup {Null, NoValue}]
  PROVE  MemInv'
<1> USE DEF MemInv
<1>1. MemTypeOK'
  BY DEF MemTypeOK, OptTime
<1>2. HistorySorted'
  BY DEF HistorySorted
<1>3. LockAboveReads'
  BY DEF LockAboveReads, HasRecordAfter, MemTypeOK
<1>4. QED
  BY <1>1, <1>2, <1>3

(* A record appended at the time of the lock held, to a buffer that lost no  *)
(* more than some records, and the lock given up: writeCommit and a late     *)
(* writeBlob.                                                                *)
LEMMA AppendKeeps ==
  ASSUME MemInv, NEW p \in Ptr, NEW w \in Time, writeLock[p] = w,
         NEW v \in Result, NEW g \in Seq(Record),
         Len(g) = Len(history[p]),
         \A i \in 1..Len(g) : g[i] \in {history[p][i], Removed},
         history' = [history EXCEPT ![p] = Append(g, [time |-> w, value |-> v])],
         writeLock' = [writeLock EXCEPT ![p] = NoTime],
         UNCHANGED lastRead,
         staleCommit' \in [Ptr -> OptTime],
         queuedValue' \in [Ptr -> Value \cup {Null, NoValue}]
  PROVE  MemInv'
<1> USE DEF MemInv
<1> DEFINE r == [time |-> w, value |-> v]
           h == Append(g, r)
<1>1. r \in Record
  BY DEF Record, OptTime
<1>2. /\ h \in Seq(Record)
      /\ DOMAIN h = 1..(Len(g) + 1)
      /\ Len(g) \in Nat
      /\ \A i \in 1..Len(g) : h[i] = g[i]
      /\ h[Len(g) + 1] = r
  BY <1>1, AppendType
<1> HIDE DEF h
<1>3. history[p] \in Seq(Record) /\ DOMAIN history[p] = 1..Len(g)
  BY AppendType DEF MemTypeOK
<1>4. MemTypeOK'
  BY <1>2 DEF MemTypeOK, OptTime, h
<1>5. HistorySorted'
  <2> SUFFICES ASSUME NEW q \in Ptr,
                      NEW i \in DOMAIN history'[q], NEW j \in DOMAIN history'[q],
                      i < j,
                      history'[q][i].time # NoTime,
                      history'[q][j].time # NoTime
               PROVE  history'[q][i].time <= history'[q][j].time
    BY DEF HistorySorted
  <2>1. CASE q # p
    BY <2>1 DEF HistorySorted, MemTypeOK
  <2>2. CASE q = p
    <3>1. history'[q] = h
      BY <2>2 DEF MemTypeOK, h
    <3>2. i \in 1..Len(g) /\ h[i] = history[p][i]
      <4>1. i \in 1..(Len(g) + 1) /\ j \in 1..(Len(g) + 1)
        BY <1>2, <3>1
      <4>2. i \in 1..Len(g)
        BY <1>2, <4>1
      <4>3. g[i] \in {history[p][i], Removed} /\ h[i] = g[i]
        BY <1>2, <4>2
      <4>4. h[i].time # NoTime
        BY <3>1
      <4>5. QED
        BY <4>2, <4>3, <4>4 DEF Removed
    <3>3. CASE j \in 1..Len(g)
      <4>1. h[j] = history[p][j]
        BY <1>2, <3>1, <3>3 DEF Removed, NoTime
      <4>2. QED
        BY <1>3, <3>1, <3>2, <3>3, <4>1 DEF HistorySorted
    <3>4. CASE j = Len(g) + 1
      <4>1. history[p][i] \in Record
        BY <1>3, <3>2
      <4>2. ~(history[p][i].time > w)
        BY <1>3, <3>2, TypesAssumption DEF LockAboveReads, HasRecordAfter, NoTime
      <4>3. h[j].time = w /\ w \in Nat /\ history[p][i].time \in Nat
        BY <1>2, <3>4, <4>1, TypesAssumption DEF Record, OptTime, NoTime
      <4>4. QED
        BY <3>1, <3>2, <4>2, <4>3
    <3>5. QED
      BY <1>2, <3>1, <3>3, <3>4
  <2>3. QED
    BY <2>1, <2>2
<1>6. LockAboveReads'
  BY DEF LockAboveReads, HasRecordAfter, MemTypeOK
<1>7. QED
  BY <1>4, <1>5, <1>6

-----------------------------------------------------------------------------
(* Every handler keeps the invariant.                                        *)
LEMMA MemStep ==
  ASSUME MemInv, MemNext
  PROVE  MemInv'
<1> USE DEF MemInv
<1>1. PICK p \in Ptr, t \in Time :
        \/ \E v \in Result : GetValue(p, t, v)
        \/ \E w \in Time : GetValueConflict(p, t, w)
        \/ \E v \in Value : lastRead[p] = NoTime /\ InitValue(p, t, v)
        \/ LockRedundant(p, t)
        \/ LockGranted(p, t)
        \/ \E w \in Time : LockRefused(p, t, w)
        \/ \E v \in Result : QueueValue(p, t, v)
        \/ QueueRefused(p, t)
        \/ WriteCommit(p, t)
        \/ WriteReset(p, t)
        \/ LockMismatch(p, t)
  BY DEF MemNext
<1>2. ASSUME NEW v \in Result, GetValue(p, t, v)
      PROVE  MemInv'
  <2> DEFINE r == IF LastRead(p, t) > t THEN LastRead(p, t) ELSE t
  <2>1. LastRead(p, t) \in Time /\ r \in Time
    BY DEF LastRead, MemTypeOK, OptTime
  <2>2. writeLock[p] # NoTime => r <= writeLock[p]
    <3> SUFFICES ASSUME writeLock[p] # NoTime
                 PROVE  r <= writeLock[p]
      OBVIOUS
    <3>1. t \in Nat /\ writeLock[p] \in Nat /\ NoTime = 0
      BY TypesAssumption DEF MemTypeOK, OptTime, NoTime
    <3>2. lastRead[p] \in 1..writeLock[p] /\ LastRead(p, t) = lastRead[p]
      BY <3>1 DEF LockAboveReads, LastRead
    <3>3. lastRead[p] >= t \/ writeLock[p] >= t
      BY <1>2, <3>1, <3>2 DEF GetValue, LockedBefore
    <3>4. QED
      BY <3>1, <3>2, <3>3
  <2>3. QED
    BY <1>2, <2>1, <2>2, MarkKeeps DEF GetValue
<1>3. ASSUME UNCHANGED memVars
      PROVE  MemInv'
  BY <1>3 DEF memVars, MemTypeOK, HistorySorted, LockAboveReads, HasRecordAfter
<1>4. ASSUME NEW v \in Value, lastRead[p] = NoTime, InitValue(p, t, v)
      PROVE  MemInv'
  <2> DEFINE h == << [time |-> t, value |-> v] >>
  <2>1. [time |-> t, value |-> v] \in Record
    BY DEF Record, OptTime, Result
  <2>2. h \in Seq(Record) /\ DOMAIN h = 1..1
    BY <2>1
  <2>3. MemTypeOK'
    BY <1>4, <2>2 DEF InitValue, MemTypeOK, OptTime
  <2>4. HistorySorted'
    BY <1>4, <2>2 DEF InitValue, HistorySorted, MemTypeOK
  <2>5. LockAboveReads'
    BY <1>4 DEF InitValue, LockAboveReads, HasRecordAfter, MemTypeOK, NoTime
  <2>6. QED
    BY <2>3, <2>4, <2>5
<1>5. ASSUME LockGranted(p, t)
      PROVE  MemInv'
  <2>1. LastRead(p, t) \in Time
    BY DEF LastRead, MemTypeOK, OptTime
  <2>2. MemTypeOK'
    BY <1>5, <2>1 DEF LockGranted, Touch, MemTypeOK, OptTime
  <2>3. HistorySorted'
    BY <1>5 DEF LockGranted, HistorySorted
  <2>4. LockAboveReads'
    BY <1>5, <2>1, TypesAssumption
       DEF LockGranted, ReadLocked, WrittenAfter, Touch, LockAboveReads, HasRecordAfter,
           MemTypeOK, NoTime
  <2>5. QED
    BY <2>2, <2>3, <2>4
<1>6. ASSUME NEW v \in Result, QueueNormally(p, t, v)
      PROVE  MemInv'
  <2>1. MemTypeOK'
    BY <1>6 DEF QueueNormally, MemTypeOK, OptTime, Result
  <2>2. HistorySorted' /\ LockAboveReads'
    BY <1>6 DEF QueueNormally, HistorySorted, LockAboveReads, HasRecordAfter
  <2>3. QED
    BY <2>1, <2>2
<1>7. ASSUME NEW v \in Result, QueueAfterCommit(p, t, v)
      PROVE  MemInv'
  <2>1. writeLock[p] \in Time
    BY <1>7 DEF QueueAfterCommit, MemTypeOK, OptTime
  <2>2. history[p] \in Seq(Record)
    BY DEF MemTypeOK
  <2>3. staleCommit' \in [Ptr -> OptTime] /\ queuedValue' \in [Ptr -> Value \cup {Null, NoValue}]
    BY <1>7 DEF QueueAfterCommit, MemTypeOK, OptTime
  <2>4. history' = [history EXCEPT
                      ![p] = Append(history[p], [time |-> writeLock[p], value |-> v])]
    BY <1>7 DEF QueueAfterCommit
  <2>5. writeLock' = [writeLock EXCEPT ![p] = NoTime] /\ UNCHANGED lastRead
    BY <1>7 DEF QueueAfterCommit
  <2>6. QED
    BY <2>1, <2>2, <2>3, <2>4, <2>5, AppendKeeps
<1>8. ASSUME CommitQueued(p, t)
      PROVE  MemInv'
  <2> DEFINE g == Without(history[p], t)
  <2>1. history[p] \in Seq(Record)
    BY DEF MemTypeOK
  <2>2. /\ g \in Seq(Record)
        /\ Len(g) = Len(history[p])
        /\ \A i \in 1..Len(g) : g[i] \in {history[p][i], Removed}
    BY <2>1, WithoutType
  <2>3. queuedValue[p] \in Result
    BY <1>8 DEF CommitQueued, OwnsLock, HasQueued, MemTypeOK, Result
  <2>4. staleCommit' \in [Ptr -> OptTime] /\ queuedValue' \in [Ptr -> Value \cup {Null, NoValue}]
    BY <1>8 DEF CommitQueued, OwnsLock, HasQueued, MemTypeOK, OptTime
  <2>5. history' = [history EXCEPT
                      ![p] = Append(g, [time |-> t, value |-> queuedValue[p]])]
    BY <1>8 DEF CommitQueued, OwnsLock, HasQueued
  <2>6. writeLock[p] = t /\ writeLock' = [writeLock EXCEPT ![p] = NoTime] /\ UNCHANGED lastRead
    BY <1>8 DEF CommitQueued, OwnsLock, HasQueued
  <2> HIDE DEF g
  <2>7. QED
    BY <2>2, <2>3, <2>4, <2>5, <2>6, AppendKeeps
<1>9. ASSUME CommitEmpty(p, t) \/ WriteReset(p, t)
      PROVE  MemInv'
  <2>1. staleCommit' \in [Ptr -> OptTime] /\ queuedValue' \in [Ptr -> Value \cup {Null, NoValue}]
    BY <1>9 DEF CommitEmpty, WriteReset, MemTypeOK, OptTime
  <2>2. QED
    BY <1>9, <2>1, UnlockKeeps DEF CommitEmpty, WriteReset
<1>10. ASSUME \/ \E w \in Time : LockRefused(p, t, w)
              \/ QueueRefused(p, t)
              \/ LockMismatch(p, t)
       PROVE  MemInv'
  BY <1>10, TouchKeeps DEF LockRefused, QueueRefused, LockMismatch
<1>11. QED
  BY <1>1, <1>2, <1>3, <1>4, <1>5, <1>6, <1>7, <1>8, <1>9, <1>10
     DEF GetValueConflict, LockRedundant, QueueValue, WriteCommit

(* No pointer has an actor at first.                                         *)
LEMMA MemInitially == MemInit => MemInv
  BY DEF MemInit, MemInv, MemTypeOK, HistorySorted, LockAboveReads, OptTime, NoTime

(* The invariant is about the actors' fields only.                           *)
LEMMA MemStutter ==
  ASSUME MemInv, UNCHANGED memVars
  PROVE  MemInv'
  BY DEF memVars, MemInv, MemTypeOK, HistorySorted, LockAboveReads, HasRecordAfter

(* Types, the order of every history and the place of every lock above the   *)
(* reads hold whatever handlers are called, with any timestamps, in any      *)
(* order: they are the actor's own, not a discipline of its callers.         *)
THEOREM MemActorInvariant == MemSpec => [](MemTypeOK /\ HistorySorted /\ LockAboveReads)
<1>1. MemInv /\ [MemNext]_memVars => MemInv'
  BY MemStep, MemStutter
<1>2. MemSpec => []MemInv
  BY <1>1, MemInitially, PTL DEF MemSpec
<1>3. QED
  BY <1>2, PTL DEF MemInv

(* Every history is in time order but for its emptied slots, so the last     *)
(* record found is the newest (lastIndexWhere, MemActor.scala:97,112).       *)
THEOREM HistoriesAreSorted == MemSpec => []HistorySorted
<1>1. MemTypeOK /\ HistorySorted /\ LockAboveReads => HistorySorted
  OBVIOUS
<1>2. QED
  BY <1>1, MemActorInvariant, PTL

-----------------------------------------------------------------------------
(* Snapshots.                                                                *)

(* A snapshot only depends on the slots a reader may see.                    *)
LEMMA SameSlots ==
  ASSUME NEW p \in Ptr, NEW t \in Time,
         Visible(p, t)' = Visible(p, t),
         \A i \in Visible(p, t) : history'[p][i] = history[p][i]
  PROVE  SnapshotKept(p, t)
  BY DEF SnapshotKept, SnapshotValue

(* An append newer than t, to a buffer that lost no slot a reader at t sees. *)
LEMMA AppendKeepsSnapshot ==
  ASSUME MemTypeOK, NEW p \in Ptr, NEW t \in Time, NEW w \in Time, t < w,
         NEW v \in Result, NEW g \in Seq(Record),
         Len(g) = Len(history[p]),
         \A i \in 1..Len(g) :
           g[i] = history[p][i] \/ (history[p][i].time = w /\ g[i] = Removed),
         history' = [history EXCEPT ![p] = Append(g, [time |-> w, value |-> v])]
  PROVE  SnapshotKept(p, t)
<1> DEFINE r == [time |-> w, value |-> v]
           h == Append(g, r)
<1>1. r \in Record
  BY DEF Record, OptTime
<1>2. /\ DOMAIN h = 1..(Len(g) + 1)
      /\ Len(g) \in Nat
      /\ \A i \in 1..Len(g) : h[i] = g[i]
      /\ h[Len(g) + 1] = r
  BY <1>1, AppendType
<1>3. history'[p] = h
  BY DEF MemTypeOK
<1>4. DOMAIN history[p] = 1..Len(g)
  BY AppendType DEF MemTypeOK
<1> HIDE DEF h
<1>5. t \in Nat /\ w \in Nat
  BY TypesAssumption
<1>6. \A i \in 1..Len(g) :
        /\ h[i].time \in 1..t <=> history[p][i].time \in 1..t
        /\ h[i].time \in 1..t => h[i] = history[p][i]
  BY <1>2, <1>5 DEF Removed, NoTime
<1>7. h[Len(g) + 1].time \notin 1..t
  BY <1>2, <1>5
<1>8. Visible(p, t)' = Visible(p, t)
  BY <1>2, <1>3, <1>4, <1>6, <1>7 DEF Visible
<1>9. \A i \in Visible(p, t) : history'[p][i] = history[p][i]
  BY <1>3, <1>4, <1>6 DEF Visible
<1>10. QED
  BY <1>8, <1>9, SameSlots

(* No handler changes a snapshot older than the newest read.                 *)
LEMMA SnapshotStep ==
  ASSUME MemInv, MemNext, NEW q \in Ptr, NEW s \in Time, s < lastRead[q]
  PROVE  SnapshotKept(q, s)
<1> USE DEF MemInv
<1>1. ASSUME history'[q] = history[q]
      PROVE  SnapshotKept(q, s)
  BY <1>1 DEF SnapshotKept, SnapshotValue, Visible
<1>2. ASSUME NEW v \in Value, NEW t \in Time, lastRead[q] = NoTime, InitValue(q, t, v)
      PROVE  SnapshotKept(q, s)
  BY <1>2, TypesAssumption DEF NoTime
<1>3. ASSUME writeLock[q] \in Time
      PROVE  s < writeLock[q]
  <2>1. s \in Nat /\ writeLock[q] \in Nat /\ writeLock[q] # NoTime
    BY <1>3, TypesAssumption DEF NoTime
  <2>2. lastRead[q] \in 1..writeLock[q]
    BY <2>1 DEF LockAboveReads
  <2>3. QED
    BY <2>1, <2>2
<1>4. ASSUME NEW v \in Result, NEW t \in Time, QueueAfterCommit(q, t, v)
      PROVE  SnapshotKept(q, s)
  <2>1. writeLock[q] \in Time
    BY <1>4 DEF QueueAfterCommit, MemTypeOK, OptTime
  <2>2. history[q] \in Seq(Record)
    BY DEF MemTypeOK
  <2>3. history' = [history EXCEPT
                      ![q] = Append(history[q], [time |-> writeLock[q], value |-> v])]
    BY <1>4 DEF QueueAfterCommit
  <2>4. QED
    BY <1>3, <2>1, <2>2, <2>3, AppendKeepsSnapshot
<1>5. ASSUME NEW t \in Time, CommitQueued(q, t)
      PROVE  SnapshotKept(q, s)
  <2> DEFINE g == Without(history[q], t)
  <2>1. history[q] \in Seq(Record)
    BY DEF MemTypeOK
  <2>2. /\ g \in Seq(Record)
        /\ Len(g) = Len(history[q])
        /\ \A i \in 1..Len(g) :
             g[i] = history[q][i] \/ (history[q][i].time = t /\ g[i] = Removed)
    BY <2>1, WithoutType
  <2>3. queuedValue[q] \in Result
    BY <1>5 DEF CommitQueued, OwnsLock, HasQueued, MemTypeOK, Result
  <2>4. history' = [history EXCEPT
                      ![q] = Append(g, [time |-> t, value |-> queuedValue[q]])]
    BY <1>5 DEF CommitQueued, OwnsLock, HasQueued
  <2>5. s < t
    BY <1>3, <1>5 DEF CommitQueued, OwnsLock, HasQueued
  <2> HIDE DEF g
  <2>6. QED
    BY <2>2, <2>3, <2>4, <2>5, AppendKeepsSnapshot
<1>6. ASSUME NEW p \in Ptr, NEW t \in Time, p # q \/ ~(\E v \in Result : QueueAfterCommit(p, t, v)),
             p # q \/ ~CommitQueued(p, t),
             \/ \E v \in Result : QueueValue(p, t, v)
             \/ WriteCommit(p, t)
      PROVE  history'[q] = history[q]
  BY <1>6 DEF QueueValue, QueueNormally, QueueAfterCommit, WriteCommit, CommitQueued,
              CommitEmpty, MemTypeOK
<1>7. ASSUME NEW p \in Ptr, NEW t \in Time, NEW v \in Value, InitValue(p, t, v), p # q
      PROVE  history'[q] = history[q]
  BY <1>7 DEF InitValue, MemTypeOK
<1>8. ASSUME NEW p \in Ptr, NEW t \in Time,
             \/ \E v \in Result : GetValue(p, t, v)
             \/ \E w \in Time : GetValueConflict(p, t, w)
             \/ LockRedundant(p, t)
             \/ LockGranted(p, t)
             \/ \E w \in Time : LockRefused(p, t, w)
             \/ QueueRefused(p, t)
             \/ WriteReset(p, t)
             \/ LockMismatch(p, t)
      PROVE  history'[q] = history[q]
  BY <1>8 DEF GetValue, GetValueConflict, LockRedundant, LockGranted, LockRefused,
              QueueRefused, WriteReset, LockMismatch, memVars
<1>9. QED
  BY <1>1, <1>2, <1>4, <1>5, <1>6, <1>7, <1>8 DEF MemNext

(* Multi-version reads: what a reader finds in its snapshot stays there once *)
(* a newer read marked the pointer, whatever the writers do afterwards.      *)
THEOREM SnapshotsAreStable == MemSpec => SnapshotStable
<1>1. MemInv /\ MemNext => \A p \in Ptr, t \in Time : t < lastRead[p] => SnapshotKept(p, t)
  BY SnapshotStep
<1>2. MemInv /\ [MemNext]_memVars
        => [\A p \in Ptr, t \in Time : t < lastRead[p] => SnapshotKept(p, t)]_memVars
  BY <1>1
<1>3. MemInv /\ [MemNext]_memVars => MemInv'
  BY MemStep, MemStutter
<1>4. QED
  BY <1>2, <1>3, MemInitially, PTL DEF MemSpec, SnapshotStable
=============================================================================
