----------------------- MODULE MemActorThreads_proofs -----------------------
(* The threads of a pointer actor implement its atomic handlers, and answer  *)
(* alike whenever asked, for any pointers, timestamps and values; and the    *)
(* timestamps that safeNow gives those who ask are in order (TxnTime).       *)
EXTENDS MemActorThreads, TxnTime, MemActor_proofs, WellFoundedInduction

(* A lock stays above the marks until it is released, also while the value   *)
(* is on record already; and a getValue past its first section has a mark.   *)
LocksAbove ==
  \A p \in Ptr :
    /\ writeLock[p] # NoTime => lastRead[p] \in 1..writeLock[p]
    /\ doing[p] # "nothing" => writeLock[p] # NoTime

LooksMarked ==
  \A t \in Time, p \in Ptr :
    reading[t][p] = "look" \/ seen[t][p] # NoValue => lastRead[p] >= t

ThreadInv == ThreadTypeOK /\ LocksAbove /\ LooksMarked /\ AnswersRepeat

-----------------------------------------------------------------------------
(* The least-number principle, for sets.                                     *)
LEMMA Least ==
  ASSUME NEW S \in SUBSET Nat, S # {}
  PROVE  \E k \in S : \A m \in S : k <= m
<1> DEFINE R == OpToRel(<, Nat)
<1>1. IsWellFoundedOn(R, Nat)
  BY NatLessThanWellFounded
<1>2. \A m \in Nat, k \in Nat : m < k => <<m, k>> \in R
  BY DEF OpToRel
<1> HIDE DEF R
<1>3. PICK k \in S : \A m \in S : <<m, k>> \notin R
  BY <1>1, WFMin
<1>4. ASSUME NEW m \in S PROVE k <= m
  <2>1. k \in Nat /\ m \in Nat
    BY <1>3
  <2>2. ~(m < k)
    BY <1>2, <1>3, <2>1
  <2>3. QED
    BY <2>1, <2>2
<1>5. QED
  BY <1>3, <1>4

(* Every reader finds something, if only nothing.                            *)
LEMMA SnapshotExists ==
  ASSUME MemTypeOK, NEW p \in Ptr, NEW t \in Time
  PROVE  \E v \in Result : SnapshotValue(p, t, v)
<1>1. CASE Visible(p, t) = {}
  BY <1>1 DEF SnapshotValue, Result
<1>2. CASE Visible(p, t) # {}
  <2> DEFINE n == Len(history[p])
             S == {n - i : i \in Visible(p, t)}
  <2>1. history[p] \in Seq(Record) /\ n \in Nat /\ DOMAIN history[p] = 1..n
    BY AppendType DEF MemTypeOK
  <2>2. Visible(p, t) \subseteq 1..n
    BY <2>1 DEF Visible
  <2> HIDE DEF n
  <2>3. S \in SUBSET Nat /\ S # {}
    BY <1>2, <2>1, <2>2
  <2>4. PICK k \in S : \A m \in S : k <= m
    BY <2>3, Least
  <2>5. PICK i \in Visible(p, t) : k = n - i
    BY <2>4
  <2>6. \A j \in Visible(p, t) : j <= i
    <3> TAKE j \in Visible(p, t)
    <3>1. n - i <= n - j
      BY <2>4, <2>5
    <3>2. QED
      BY <2>1, <2>2, <3>1
  <2>7. history[p][i].value \in Result
    <3>1. history[p][i] \in Record
      BY <2>1, <2>2
    <3>2. QED
      BY <3>1 DEF Record
  <2>8. QED
    BY <2>6, <2>7 DEF SnapshotValue
<1>3. QED
  BY <1>1, <1>2
-----------------------------------------------------------------------------
(* The invariant, part by part.                                              *)

(* What an installation appends is a record, to a buffer that lost at most   *)
(* records of the same time.                                                 *)
LEMMA QueuedBuffer ==
  ASSUME ThreadTypeOK, NEW p \in Ptr, NEW t \in Time, AppendQueued(p, t)
  PROVE  \E g \in Seq(Record), v \in Result :
           /\ writeLock[p] = t
           /\ v = queuedValue[p]
           /\ Len(g) = Len(history[p])
           /\ \A i \in 1..Len(g) :
                g[i] = history[p][i] \/ (history[p][i].time = t /\ g[i] = Removed)
           /\ history' = [history EXCEPT ![p] = Append(g, [time |-> t, value |-> v])]
<1> USE DEF ThreadTypeOK, MemTypeOK
<1>1. queuedValue[p] \in Result
  BY DEF AppendQueued, HasQueued, Result
<1>2. /\ Without(history[p], t) \in Seq(Record)
      /\ Len(Without(history[p], t)) = Len(history[p])
      /\ \A i \in 1..Len(Without(history[p], t)) :
           \/ Without(history[p], t)[i] = history[p][i]
           \/ history[p][i].time = t /\ Without(history[p], t)[i] = Removed
  BY WithoutType
<1>3. /\ writeLock[p] = t
      /\ history' = [history EXCEPT ![p] =
                       Append(Without(history[p], t), [time |-> t, value |-> queuedValue[p]])]
  BY DEF AppendQueued, OwnsLock
<1>4. QED
  BY <1>1, <1>2, <1>3

(* Types.                                                                    *)
LEMMA ThreadTypes ==
  ASSUME ThreadTypeOK, ThreadNext
  PROVE  ThreadTypeOK'
<1> USE DEF ThreadTypeOK, MemTypeOK, Doing
<1>1. ASSUME NEW p \in Ptr, NEW t \in Time, Create(p, t) PROVE ThreadTypeOK'
  <2>1. CASE Touch(p, t) /\ UNCHANGED <<history, writeLock, staleCommit, queuedValue>>
    BY <1>1, <2>1 DEF Create, Touch, LastRead, OptTime
  <2>2. CASE \E v \in Value : InitValue(p, t, v)
    <3>1. PICK v \in Value : InitValue(p, t, v)
      BY <2>2
    <3>2. << [time |-> t, value |-> v] >> \in Seq(Record)
      BY DEF Record, OptTime, Result
    <3>3. QED
      BY <1>1, <3>1, <3>2 DEF Create, InitValue, OptTime
  <2>3. QED
    BY <1>1, <2>1, <2>2 DEF Create
<1>2. ASSUME NEW p \in Ptr, NEW t \in Time, HandleAtOnce(p, t) PROVE ThreadTypeOK'
  <2>1. CASE LockGranted(p, t)
    BY <1>2, <2>1 DEF HandleAtOnce, LockGranted, Touch, LastRead, OptTime
  <2>2. CASE \E v \in Result : QueueNormally(p, t, v)
    BY <1>2, <2>2 DEF HandleAtOnce, QueueNormally, OptTime, Result
  <2>3. CASE CommitEmpty(p, t) \/ WriteReset(p, t)
    BY <1>2, <2>3 DEF HandleAtOnce, CommitEmpty, WriteReset, OptTime
  <2>4. QED
    BY <1>2, <2>1, <2>2, <2>3 DEF HandleAtOnce
<1>3. ASSUME NEW p \in Ptr, NEW t \in Time, AppendQueued(p, t) PROVE ThreadTypeOK'
  <2> HIDE DEF ThreadTypeOK, MemTypeOK, Doing
  <2>1. PICK g \in Seq(Record), v \in Result :
          /\ writeLock[p] = t
          /\ v = queuedValue[p]
          /\ Len(g) = Len(history[p])
          /\ \A i \in 1..Len(g) :
               g[i] = history[p][i] \/ (history[p][i].time = t /\ g[i] = Removed)
          /\ history' = [history EXCEPT ![p] = Append(g, [time |-> t, value |-> v])]
    BY <1>3, QueuedBuffer
  <2>2. Append(g, [time |-> t, value |-> v]) \in Seq(Record)
    BY AppendType DEF Record, OptTime
  <2>3. history' \in [Ptr -> Seq(Record)]
    BY <2>1, <2>2 DEF ThreadTypeOK, MemTypeOK
  <2>4. QED
    BY <1>3, <2>3 DEF AppendQueued, ThreadTypeOK, MemTypeOK, Doing
<1>4. ASSUME NEW p \in Ptr, NEW t \in Time, NEW v \in Result, AppendLate(p, t, v)
      PROVE  ThreadTypeOK'
  <2>1. Append(history[p], [time |-> writeLock[p], value |-> v]) \in Seq(Record)
    BY AppendType DEF Record
  <2>2. QED
    BY <1>4, <2>1 DEF AppendLate
<1>5. ASSUME NEW p \in Ptr, Unlock(p) PROVE ThreadTypeOK'
  BY <1>5 DEF Unlock, LeftQueued, OptTime
<1>6. ASSUME NEW p \in Ptr, NEW t \in Time, SkipMark(t, p) PROVE ThreadTypeOK'
  BY <1>6 DEF SkipMark, Advance, memVars
<1>7. ASSUME NEW p \in Ptr, NEW t \in Time, Mark(t, p) PROVE ThreadTypeOK'
  <2>1. lastRead' \in [Ptr -> OptTime]
    BY <1>7 DEF Mark, OptTime
  <2>2. QED
    BY <1>7, <2>1 DEF Mark, Advance
<1>8. ASSUME NEW p \in Ptr, NEW t \in Time, Look(t, p) PROVE ThreadTypeOK'
  BY <1>8 DEF Look, Advance, memVars
<1>9. QED
  BY <1>1, <1>2, <1>3, <1>4, <1>5, <1>6, <1>7, <1>8 DEF ThreadNext

(* Marks and locks are numbers.                                              *)
LEMMA OptTimesNatural ==
  ASSUME MemTypeOK, NEW p \in Ptr
  PROVE  lastRead[p] \in Nat /\ writeLock[p] \in Nat
<1>1. OptTime \subseteq Nat
  BY TypesAssumption DEF OptTime, NoTime
<1>2. QED
  BY <1>1 DEF MemTypeOK

(* A mark goes up only as far as the lock allows; a lock is granted above    *)
(* the mark, and held until after the value is on record.                    *)
LEMMA LocksAboveStep ==
  ASSUME ThreadTypeOK, LocksAbove, ThreadNext
  PROVE  LocksAbove'
<1> USE TypesAssumption DEF ThreadTypeOK, MemTypeOK, NoTime, LocksAbove
<1>0. \A p \in Ptr : lastRead[p] \in Nat /\ writeLock[p] \in Nat
  BY OptTimesNatural
<1>1. ASSUME NEW p \in Ptr, NEW t \in Time, Create(p, t) PROVE LocksAbove'
  <2>1. lastRead[p] = NoTime /\ writeLock[p] = NoTime /\ doing[p] = "nothing"
    BY <1>1 DEF Create, Exists
  <2>2. /\ lastRead' = [lastRead EXCEPT ![p] = t]
        /\ writeLock' = writeLock
        /\ doing' = doing
    BY <1>1, <2>1 DEF Create, Touch, LastRead, InitValue
  <2>3. QED
    BY <2>1, <2>2
<1>2. ASSUME NEW p \in Ptr, NEW t \in Time, HandleAtOnce(p, t) PROVE LocksAbove'
  <2>1. CASE LockGranted(p, t)
    <3>1. lastRead' = lastRead
      BY <1>2, <2>1 DEF HandleAtOnce, LockGranted, Touch, LastRead, Exists
    <3>2. lastRead[p] \in 1..t
      BY <1>0, <1>2, <2>1 DEF HandleAtOnce, LockGranted, ReadLocked, LastRead, Exists
    <3>3. QED
      BY <1>2, <2>1, <3>1, <3>2 DEF HandleAtOnce, LockGranted
  <2>2. CASE \E v \in Result : QueueNormally(p, t, v)
    BY <1>2, <2>2 DEF HandleAtOnce, QueueNormally
  <2>3. CASE CommitEmpty(p, t) \/ WriteReset(p, t)
    BY <1>2, <2>3 DEF HandleAtOnce, CommitEmpty, WriteReset
  <2>4. QED
    BY <1>2, <2>1, <2>2, <2>3 DEF HandleAtOnce
<1>3. ASSUME NEW p \in Ptr, NEW t \in Time,
             AppendQueued(p, t) \/ \E v \in Result : AppendLate(p, t, v)
      PROVE  LocksAbove'
  BY <1>3 DEF AppendQueued, OwnsLock, AppendLate
<1>4. ASSUME NEW p \in Ptr, Unlock(p) PROVE LocksAbove'
  BY <1>4 DEF Unlock
<1>5. ASSUME NEW p \in Ptr, NEW t \in Time, SkipMark(t, p) \/ Look(t, p) PROVE LocksAbove'
  BY <1>5 DEF SkipMark, Look, memVars
<1>6. ASSUME NEW p \in Ptr, NEW t \in Time, Mark(t, p) PROVE LocksAbove'
  <2>1. lastRead'[p] >= 1 /\ (writeLock[p] # NoTime => lastRead'[p] <= writeLock[p])
    BY <1>0, <1>6 DEF Mark, Exists, LockedBefore
  <2>2. lastRead'[p] \in Nat
    BY <1>0, <1>6 DEF Mark
  <2>3. QED
    BY <1>0, <1>6, <2>1, <2>2 DEF Mark
<1>7. QED
  BY <1>1, <1>2, <1>3, <1>4, <1>5, <1>6 DEF ThreadNext

(* Marks never go down once the actor exists.                                *)
LEMMA MarksRise ==
  ASSUME ThreadTypeOK, ThreadNext, NEW q \in Ptr
  PROVE  lastRead[q] # NoTime => lastRead'[q] >= lastRead[q]
<1> USE TypesAssumption DEF ThreadTypeOK, MemTypeOK, NoTime
<1>0. \A p \in Ptr : lastRead[p] \in Nat
  BY OptTimesNatural
<1>1. ASSUME NEW p \in Ptr, NEW t \in Time, Create(p, t)
      PROVE  lastRead[q] # NoTime => lastRead'[q] >= lastRead[q]
  <2>1. lastRead[p] = NoTime /\ lastRead' = [lastRead EXCEPT ![p] = t]
    BY <1>1 DEF Create, Exists, Touch, LastRead, InitValue
  <2>2. QED
    BY <1>0, <2>1
<1>2. ASSUME NEW p \in Ptr, NEW t \in Time, HandleAtOnce(p, t)
      PROVE  lastRead' = lastRead
  BY <1>2 DEF HandleAtOnce, Exists, LockGranted, Touch, LastRead, QueueNormally, CommitEmpty,
     WriteReset
<1>3. ASSUME NEW p \in Ptr, NEW t \in Time, Mark(t, p)
      PROVE  lastRead'[q] >= lastRead[q]
  BY <1>0, <1>3 DEF Mark
<1>4. ASSUME NEW p \in Ptr, NEW t \in Time,
             \/ AppendQueued(p, t) \/ \E v \in Result : AppendLate(p, t, v)
             \/ SkipMark(t, p) \/ Look(t, p)
      PROVE  lastRead' = lastRead
  BY <1>4 DEF AppendQueued, AppendLate, SkipMark, Look, memVars
<1>5. ASSUME NEW p \in Ptr, Unlock(p) PROVE lastRead' = lastRead
  BY <1>5 DEF Unlock
<1>6. lastRead' = lastRead => lastRead'[q] >= lastRead[q]
  BY <1>0
<1>7. QED
  BY <1>1, <1>2, <1>3, <1>4, <1>5, <1>6 DEF ThreadNext

(* A getValue past its first section left its mark there.                    *)
LEMMA LooksMarkedStep ==
  ASSUME ThreadTypeOK, LooksMarked, ThreadNext
  PROVE  LooksMarked'
<1> SUFFICES ASSUME NEW s \in Time, NEW q \in Ptr,
                    reading'[s][q] = "look" \/ seen'[s][q] # NoValue
             PROVE  lastRead'[q] >= s
  BY DEF LooksMarked
<1>1. /\ s \in Nat /\ s > 0
      /\ lastRead[q] \in Nat /\ lastRead'[q] \in Nat
  <2>1. ThreadTypeOK'
    BY ThreadTypes
  <2>2. OptTime \subseteq Nat
    BY TypesAssumption DEF OptTime, NoTime
  <2>3. lastRead[q] \in OptTime /\ lastRead'[q] \in OptTime
    BY <2>1 DEF ThreadTypeOK, MemTypeOK
  <2>4. s \in Nat /\ s > 0
    BY TypesAssumption
  <2>5. lastRead[q] \in Nat /\ lastRead'[q] \in Nat
    BY <2>2, <2>3
  <2>6. QED
    BY <2>4, <2>5
<1>2. CASE reading[s][q] = "look" \/ seen[s][q] # NoValue
  <2>1. lastRead[q] >= s
    BY <1>2 DEF LooksMarked
  <2>2. lastRead[q] # NoTime
    BY <1>1, <2>1 DEF NoTime
  <2>3. lastRead'[q] >= lastRead[q]
    BY <2>2, MarksRise
  <2>4. QED
    BY <1>1, <2>1, <2>3
<1>3. CASE reading[s][q] # "look" /\ seen[s][q] = NoValue
  <2>1. ASSUME NEW t \in Time, NEW p \in Ptr, Look(t, p) PROVE FALSE
    BY <1>3, <2>1 DEF Look, Advance, ThreadTypeOK
  <2>2. ASSUME NEW t \in Time, NEW p \in Ptr, Mark(t, p) PROVE lastRead'[q] >= s
    <3>1. t = s /\ p = q
      BY <1>3, <2>2 DEF Mark, Advance, ThreadTypeOK
    <3>2. QED
      BY <1>1, <2>2, <3>1 DEF Mark, ThreadTypeOK, MemTypeOK
  <2>3. ASSUME NEW t \in Time, NEW p \in Ptr, SkipMark(t, p) PROVE lastRead'[q] >= s
    <3>1. t = s /\ p = q
      BY <1>3, <2>3 DEF SkipMark, Advance, ThreadTypeOK
    <3>2. QED
      BY <2>3, <3>1 DEF SkipMark, memVars
  <2>4. ASSUME UNCHANGED <<reading, seen>> PROVE FALSE
    BY <1>3, <2>4
  <2>5. QED
    BY <2>1, <2>2, <2>3, <2>4
    DEF ThreadNext, Create, HandleAtOnce, AppendQueued, AppendLate, Unlock
<1>4. QED
  BY <1>2, <1>3

(* A record appended at the time of the lock held is above every answer      *)
(* given, or the reader's own.                                               *)
LEMMA AppendKeepsAnswers ==
  ASSUME ThreadInv, NEW p \in Ptr, NEW w \in Time, writeLock[p] = w,
         NEW v \in Result, NEW g \in Seq(Record),
         Len(g) = Len(history[p]),
         \A i \in 1..Len(g) :
           g[i] = history[p][i] \/ (history[p][i].time = w /\ g[i] = Removed),
         history' = [history EXCEPT ![p] = Append(g, [time |-> w, value |-> v])],
         seen' = seen
  PROVE  AnswersRepeat'
<1> USE DEF ThreadInv
<1> SUFFICES ASSUME NEW s \in Time, NEW q \in Ptr, seen[s][q] # NoValue
             PROVE  \/ SnapshotValue(q, s, seen[s][q])'
                    \/ \E i \in DOMAIN history'[q] : history'[q][i].time = s
  BY DEF AnswersRepeat
<1>1. \/ SnapshotValue(q, s, seen[s][q])
      \/ \E i \in DOMAIN history[q] : history[q][i].time = s
  BY DEF AnswersRepeat
<1>2. CASE q # p
  <2>1. history'[q] = history[q]
    BY <1>2 DEF ThreadTypeOK, MemTypeOK
  <2>2. QED
    BY <1>1, <2>1 DEF SnapshotValue, Visible
<1>3. CASE q = p
  <2> DEFINE r == [time |-> w, value |-> v]
             h == Append(g, r)
  <2>1. r \in Record
    BY DEF Record, OptTime
  <2>2. /\ DOMAIN h = 1..(Len(g) + 1)
        /\ Len(g) \in Nat
        /\ \A i \in 1..Len(g) : h[i] = g[i]
        /\ h[Len(g) + 1] = r
    BY <2>1, AppendType
  <2>3. history'[p] = h
    BY DEF ThreadTypeOK, MemTypeOK
  <2>4. DOMAIN history[p] = 1..Len(g)
    BY AppendType DEF ThreadTypeOK, MemTypeOK
  <2> HIDE DEF h
  <2>5. s <= w
    <3>1. lastRead[p] >= s
      BY <1>3 DEF LooksMarked
    <3>2. lastRead[p] \in 1..w
      BY TypesAssumption DEF LocksAbove, NoTime
    <3>3. s \in Nat /\ w \in Nat
      BY TypesAssumption
    <3>4. QED
      BY <3>1, <3>2, <3>3
  <2>6. CASE s = w
    BY <1>3, <2>2, <2>3, <2>6
  <2>7. CASE s # w /\ SnapshotValue(q, s, seen[s][q])
    <3>1. s < w
      BY <2>5, <2>7, TypesAssumption
    <3>2. SnapshotKept(p, s)
      BY <3>1, AppendKeepsSnapshot DEF ThreadTypeOK
    <3>3. seen[s][q] \in Result
      BY DEF ThreadTypeOK
    <3>4. QED
      BY <1>3, <2>7, <3>2, <3>3 DEF SnapshotKept
  <2>8. CASE s # w /\ \E i \in DOMAIN history[q] : history[q][i].time = s
    <3>1. PICK i \in 1..Len(g) : history[q][i].time = s
      BY <1>3, <2>4, <2>8
    <3>2. h[i] = history[q][i]
      BY <1>3, <2>2, <2>8, <3>1
    <3>3. i \in DOMAIN h
      BY <2>2
    <3>4. QED
      BY <1>3, <2>3, <3>1, <3>2, <3>3
  <2>9. QED
    BY <1>1, <2>6, <2>7, <2>8
<1>4. QED
  BY <1>2, <1>3

(* Answers once given stay right, and are right when given.                  *)
LEMMA AnswersStep ==
  ASSUME ThreadInv, ThreadNext
  PROVE  AnswersRepeat'
<1> USE DEF ThreadInv
<1>1. ASSUME history' = history, seen' = seen PROVE AnswersRepeat'
  BY <1>1 DEF AnswersRepeat, SnapshotValue, Visible
<1>2. ASSUME NEW p \in Ptr, NEW t \in Time, Create(p, t) PROVE AnswersRepeat'
  <2>1. \A s \in Time : seen[s][p] = NoValue
    <3>1. lastRead[p] = 0
      BY <1>2 DEF Create, Exists, NoTime
    <3>2. QED
      BY <3>1, TypesAssumption DEF LooksMarked
  <2>2. \A q \in Ptr : q # p => history'[q] = history[q]
    BY <1>2 DEF Create, InitValue, ThreadTypeOK, MemTypeOK
  <2>3. seen' = seen
    BY <1>2 DEF Create
  <2>4. QED
    BY <2>1, <2>2, <2>3 DEF AnswersRepeat, SnapshotValue, Visible
<1>3. ASSUME NEW p \in Ptr, NEW t \in Time, AppendQueued(p, t) PROVE AnswersRepeat'
  <2>1. PICK g \in Seq(Record), v \in Result :
          /\ writeLock[p] = t
          /\ v = queuedValue[p]
          /\ Len(g) = Len(history[p])
          /\ \A i \in 1..Len(g) :
               g[i] = history[p][i] \/ (history[p][i].time = t /\ g[i] = Removed)
          /\ history' = [history EXCEPT ![p] = Append(g, [time |-> t, value |-> v])]
    BY <1>3, QueuedBuffer
  <2>2. seen' = seen
    BY <1>3 DEF AppendQueued
  <2>3. QED
    BY <2>1, <2>2, AppendKeepsAnswers
<1>4. ASSUME NEW p \in Ptr, NEW t \in Time, NEW v \in Result, AppendLate(p, t, v)
      PROVE  AnswersRepeat'
  <2>1. writeLock[p] \in Time /\ history[p] \in Seq(Record)
    BY <1>4 DEF AppendLate, ThreadTypeOK, MemTypeOK, OptTime
  <2>2. /\ history' = [history EXCEPT
                         ![p] = Append(history[p], [time |-> writeLock[p], value |-> v])]
        /\ seen' = seen
    BY <1>4 DEF AppendLate
  <2>3. QED
    BY <2>1, <2>2, AppendKeepsAnswers
<1>5. ASSUME NEW p \in Ptr, NEW t \in Time, Look(t, p) PROVE AnswersRepeat'
  <2>1. PICK v \in Result : /\ SnapshotValue(p, t, v)
                            /\ seen' = [seen EXCEPT ![t][p] = v]
    BY <1>5 DEF Look
  <2>2. history' = history
    BY <1>5 DEF Look, memVars
  <2>3. \A s \in Time, q \in Ptr :
          seen'[s][q] = IF s = t /\ q = p THEN v ELSE seen[s][q]
    BY <2>1 DEF ThreadTypeOK
  <2>4. QED
    BY <2>1, <2>2, <2>3 DEF AnswersRepeat, SnapshotValue, Visible
<1>6. ASSUME NEW p \in Ptr, NEW t \in Time,
             HandleAtOnce(p, t) \/ SkipMark(t, p) \/ Mark(t, p)
      PROVE  history' = history /\ seen' = seen
  BY <1>6 DEF HandleAtOnce, LockGranted, QueueNormally, CommitEmpty, WriteReset, SkipMark,
     Mark, memVars
<1>7. ASSUME NEW p \in Ptr, Unlock(p) PROVE history' = history /\ seen' = seen
  BY <1>7 DEF Unlock
<1>8. QED
  BY <1>1, <1>2, <1>3, <1>4, <1>5, <1>6, <1>7 DEF ThreadNext

(* The inductive invariant.                                                  *)
LEMMA ThreadInvariant == ThreadSpec => []ThreadInv
<1>1. ThreadInit => ThreadInv
  <2> SUFFICES ASSUME ThreadInit PROVE ThreadInv
    OBVIOUS
  <2>1. MemTypeOK
    BY MemInitially DEF ThreadInit, MemInv
  <2>2. ThreadTypeOK
    BY <2>1 DEF ThreadInit, ThreadTypeOK, Doing
  <2>3. LocksAbove /\ LooksMarked /\ AnswersRepeat
    BY DEF ThreadInit, MemInit, LocksAbove, LooksMarked, AnswersRepeat
  <2>4. QED
    BY <2>2, <2>3 DEF ThreadInv
<1>2. ThreadInv /\ [ThreadNext]_threadVars => ThreadInv'
  <2> SUFFICES ASSUME ThreadInv, [ThreadNext]_threadVars PROVE ThreadInv'
    OBVIOUS
  <2>1. CASE ThreadNext
    BY <2>1, ThreadTypes, LocksAboveStep, LooksMarkedStep, AnswersStep DEF ThreadInv
  <2>2. CASE UNCHANGED threadVars
    BY <2>2 DEF threadVars, memVars, ThreadInv, ThreadTypeOK, MemTypeOK, LocksAbove,
       LooksMarked, AnswersRepeat, SnapshotValue, Visible
  <2>3. QED
    BY <2>1, <2>2
<1>3. QED
  BY <1>1, <1>2, PTL DEF ThreadSpec

(* A thread that was answered between two sections of a handler would get    *)
(* the same answer at any later time (MemActor.scala:93-115 against          *)
(* 184-195 and 247-259).                                                     *)
THEOREM ThreadsRepeatAnswers == ThreadSpec => []AnswersRepeat
  BY ThreadInvariant, PTL DEF ThreadInv

-----------------------------------------------------------------------------
(* The refinement: which step of the threads is which handler.               *)

Lock == [p \in Ptr |-> IF Appended(p) THEN NoTime ELSE writeLock[p]]
Stale == [p \in Ptr |-> IF Appended(p) THEN NoTime ELSE staleCommit[p]]
Queued == [p \in Ptr |-> IF Appended(p) THEN LeftQueued(p) ELSE queuedValue[p]]

(* Before a handler appends, a pointer shows the fields as they are.         *)
LEMMA Shown ==
  ASSUME ThreadTypeOK, NEW p \in Ptr, doing[p] = "nothing"
  PROVE  Lock[p] = writeLock[p] /\ Stale[p] = staleCommit[p] /\ Queued[p] = queuedValue[p]
  BY DEF Lock, Stale, Queued, Appended

(* A change of the fields of one pointer shows as that change.               *)
LEMMA ShownNext ==
  ASSUME ThreadTypeOK, NEW p \in Ptr,
         \A q \in Ptr : q # p => /\ writeLock'[q] = writeLock[q]
                                 /\ staleCommit'[q] = staleCommit[q]
                                 /\ queuedValue'[q] = queuedValue[q]
                                 /\ doing'[q] = doing[q]
  PROVE  /\ Lock' = [Lock EXCEPT ![p] = IF Appended(p)' THEN NoTime ELSE writeLock'[p]]
         /\ Stale' = [Stale EXCEPT ![p] = IF Appended(p)' THEN NoTime ELSE staleCommit'[p]]
         /\ Queued' = [Queued EXCEPT
                         ![p] = IF Appended(p)' THEN LeftQueued(p)' ELSE queuedValue'[p]]
  BY DEF Lock, Stale, Queued, Appended, LeftQueued

(* Histories and marks show as they are.                                     *)
LEMMA SameReads ==
  ASSUME NEW p \in Ptr, NEW t \in Time
  PROVE  /\ Atomic!ReadLocked(p, t) <=> ReadLocked(p, t)
         /\ Atomic!WrittenAfter(p, t) <=> WrittenAfter(p, t)
         /\ Atomic!Touch(p, t) <=> Touch(p, t)
         /\ Atomic!Without(history[p], t) = Without(history[p], t)
         /\ \A v : Atomic!SnapshotValue(p, t, v) <=> SnapshotValue(p, t, v)
  BY DEF ReadLocked, LastRead, WrittenAfter, HasRecordAfter, Touch, Without, Removed,
         SnapshotValue, Visible, Atomic!ReadLocked, Atomic!LastRead, Atomic!WrittenAfter,
         Atomic!HasRecordAfter, Atomic!Touch, Atomic!Without, Atomic!Removed,
         Atomic!SnapshotValue, Atomic!Visible, NoTime, Atomic!NoTime

(* Handlers of one section are the handlers themselves.                      *)
LEMMA AtOnceIsAtomic ==
  ASSUME ThreadTypeOK, NEW p \in Ptr, NEW t \in Time, HandleAtOnce(p, t)
  PROVE  Atomic!MemNext
<1> USE DEF ThreadTypeOK, MemTypeOK, HandleAtOnce
<1>1. CASE LockGranted(p, t)
  <2>1. /\ Lock' = [Lock EXCEPT ![p] = t]
        /\ Stale' = Stale
        /\ Queued' = Queued
    BY <1>1 DEF LockGranted, Lock, Stale, Queued, Appended, LeftQueued
  <2>2. Lock[p] = NoTime
    BY <1>1, Shown DEF LockGranted
  <2>3. /\ ~Atomic!ReadLocked(p, t)
        /\ ~Atomic!WrittenAfter(p, t)
        /\ Atomic!Touch(p, t)
        /\ history' = history
    BY <1>1, SameReads DEF LockGranted
  <2>4. Atomic!LockGranted(p, t)
    BY <2>1, <2>2, <2>3 DEF Atomic!LockGranted, Lock, Stale, Queued, NoTime, Atomic!NoTime
  <2>5. QED
    BY <2>4 DEF Atomic!MemNext
<1>2. ASSUME NEW v \in Result, QueueNormally(p, t, v) PROVE Atomic!MemNext
  <2>1. /\ Lock' = Lock
        /\ Stale' = IF v = Null THEN [Stale EXCEPT ![p] = NoTime] ELSE Stale
        /\ Queued' = [Queued EXCEPT ![p] = v]
        /\ UNCHANGED <<history, lastRead>>
    BY <1>2 DEF QueueNormally, Lock, Stale, Queued, Appended, LeftQueued
  <2>2. t \in {Lock[p], Stale[p]} /\ Queued[p] = NoValue /\ Stale[p] # t
    BY <1>2, Shown DEF QueueNormally, MayQueue
  <2>3. Atomic!QueueNormally(p, t, v)
    BY <2>1, <2>2 DEF Atomic!QueueNormally, Atomic!MayQueue, Lock, Stale, Queued, NoTime,
       Atomic!NoTime
  <2>4. v \in Atomic!Result
    BY DEF Result, Atomic!Result
  <2>5. QED
    BY <2>3, <2>4 DEF Atomic!MemNext, Atomic!QueueValue
<1>3. CASE CommitEmpty(p, t)
  <2>1. /\ Lock' = [Lock EXCEPT ![p] = NoTime]
        /\ Stale' = [Stale EXCEPT ![p] = t]
        /\ Queued' = Queued
        /\ UNCHANGED <<history, lastRead>>
    BY <1>3 DEF CommitEmpty, Lock, Stale, Queued, Appended, LeftQueued
  <2>2. Lock[p] = t /\ Queued[p] = NoValue
    BY <1>3, Shown DEF CommitEmpty, OwnsLock, HasQueued
  <2>3. Atomic!CommitEmpty(p, t)
    BY <2>1, <2>2 DEF Atomic!CommitEmpty, Atomic!OwnsLock, Atomic!HasQueued, Lock, Stale,
       Queued, NoTime, Atomic!NoTime
  <2>4. QED
    BY <2>3 DEF Atomic!MemNext, Atomic!WriteCommit
<1>4. CASE WriteReset(p, t)
  <2>1. /\ Lock' = [Lock EXCEPT ![p] = NoTime]
        /\ Stale' = [Stale EXCEPT ![p] = NoTime]
        /\ Queued' = [Queued EXCEPT ![p] = NoValue]
        /\ UNCHANGED <<history, lastRead>>
    BY <1>4 DEF WriteReset, Lock, Stale, Queued, Appended, LeftQueued
  <2>2. Lock[p] = t
    BY <1>4, Shown DEF WriteReset, OwnsLock
  <2>3. Atomic!WriteReset(p, t)
    BY <2>1, <2>2 DEF Atomic!WriteReset, Atomic!OwnsLock, Lock, Stale, Queued, NoTime,
       Atomic!NoTime
  <2>4. QED
    BY <2>3 DEF Atomic!MemNext
<1>5. QED
  BY <1>1, <1>2, <1>3, <1>4 DEF HandleAtOnce

(* An actor comes into being by a call it turns down, or by init.            *)
LEMMA CreateIsAtomic ==
  ASSUME ThreadInv, NEW p \in Ptr, NEW t \in Time, Create(p, t)
  PROVE  Atomic!MemNext
<1> USE DEF ThreadInv, ThreadTypeOK, MemTypeOK
<1>1. /\ lastRead[p] = NoTime
      /\ writeLock[p] = NoTime
      /\ doing[p] = "nothing"
      /\ doing' = doing
  <2>1. lastRead[p] = NoTime /\ doing' = doing
    BY DEF Create, Exists
  <2>2. writeLock[p] = NoTime
    BY <2>1 DEF LocksAbove, NoTime
  <2>3. doing[p] = "nothing"
    BY <2>2 DEF LocksAbove
  <2>4. QED
    BY <2>1, <2>2, <2>3
<1>2. Lock[p] = NoTime
  BY <1>1, Shown
<1>3. t # NoTime
  BY TypesAssumption DEF NoTime
<1>4. CASE Touch(p, t) /\ UNCHANGED <<history, writeLock, staleCommit, queuedValue>>
  <2>1. Lock' = Lock /\ Stale' = Stale /\ Queued' = Queued
    BY <1>1, <1>4 DEF Lock, Stale, Queued, Appended, LeftQueued
  <2>2. Atomic!Touch(p, t) /\ history' = history
    BY <1>4, SameReads
  <2>3. Atomic!LockMismatch(p, t)
    BY <1>2, <1>3, <2>1, <2>2 DEF Atomic!LockMismatch, Atomic!OwnsLock, Lock, Stale, Queued
  <2>4. QED
    BY <2>3 DEF Atomic!MemNext
<1>5. ASSUME NEW v \in Value, InitValue(p, t, v) PROVE Atomic!MemNext
  <2>1. /\ Lock' = [Lock EXCEPT ![p] = NoTime]
        /\ Stale' = [Stale EXCEPT ![p] = NoTime]
        /\ Queued' = [Queued EXCEPT ![p] = NoValue]
    BY <1>1, <1>5 DEF InitValue, Lock, Stale, Queued, Appended, LeftQueued
  <2>2. /\ history[p] = << >>
        /\ history' = [history EXCEPT ![p] = << [time |-> t, value |-> v] >>]
        /\ lastRead' = [lastRead EXCEPT ![p] = t]
    BY <1>5 DEF InitValue
  <2>3. Atomic!InitValue(p, t, v)
    BY <2>1, <2>2 DEF Atomic!InitValue, Lock, Stale, Queued, NoTime, Atomic!NoTime
  <2>4. lastRead[p] = Atomic!NoTime
    BY <1>1 DEF NoTime, Atomic!NoTime
  <2>5. QED
    BY <2>3, <2>4 DEF Atomic!MemNext
<1>6. QED
  BY <1>4, <1>5 DEF Create

(* To append is to install: the lock shows as released from then on.         *)
LEMMA QueuedIsAtomic ==
  ASSUME ThreadTypeOK, NEW p \in Ptr, NEW t \in Time, AppendQueued(p, t)
  PROVE  Atomic!MemNext
<1> USE DEF ThreadTypeOK, MemTypeOK
<1>1. /\ doing[p] = "nothing"
      /\ doing' = [doing EXCEPT ![p] = "commit"]
      /\ UNCHANGED <<lastRead, writeLock, staleCommit, queuedValue>>
  BY DEF AppendQueued
<1>2. /\ Lock' = [Lock EXCEPT ![p] = NoTime]
      /\ Stale' = [Stale EXCEPT ![p] = NoTime]
      /\ Queued' = [Queued EXCEPT ![p] = NoValue]
  BY <1>1 DEF Lock, Stale, Queued, Appended, LeftQueued
<1>3. Lock[p] = t /\ Queued[p] # NoValue /\ Queued[p] = queuedValue[p]
  BY <1>1, Shown DEF AppendQueued, OwnsLock, HasQueued
<1>4. history' = [history EXCEPT ![p] =
                    Append(Atomic!Without(history[p], t), [time |-> t, value |-> Queued[p]])]
  <2>1. history' = [history EXCEPT ![p] =
                      Append(Without(history[p], t), [time |-> t, value |-> queuedValue[p]])]
    BY DEF AppendQueued
  <2>2. Atomic!Without(history[p], t) = Without(history[p], t)
    BY SameReads
  <2>3. QED
    BY <1>3, <2>1, <2>2
<1>5. Atomic!CommitQueued(p, t)
  BY <1>1, <1>2, <1>3, <1>4 DEF Atomic!CommitQueued, Atomic!OwnsLock, Atomic!HasQueued, Lock,
     Stale, Queued, NoTime, Atomic!NoTime
<1>6. QED
  BY <1>5 DEF Atomic!MemNext, Atomic!WriteCommit

LEMMA LateIsAtomic ==
  ASSUME ThreadTypeOK, NEW p \in Ptr, NEW t \in Time, NEW v \in Result, AppendLate(p, t, v)
  PROVE  Atomic!MemNext
<1> USE DEF ThreadTypeOK, MemTypeOK
<1>1. /\ doing[p] = "nothing"
      /\ doing' = [doing EXCEPT ![p] = IF v = Null THEN "lateDelete" ELSE "late"]
      /\ UNCHANGED <<lastRead, writeLock, staleCommit, queuedValue>>
      /\ history' = [history EXCEPT ![p] =
                       Append(@, [time |-> writeLock[p], value |-> v])]
  BY DEF AppendLate
<1>2. /\ t \in {Lock[p], Stale[p]}
      /\ Queued[p] = NoValue
      /\ Stale[p] = t
      /\ Lock[p] # NoTime
      /\ Lock[p] = writeLock[p]
  BY <1>1, Shown DEF AppendLate, MayQueue
<1>3. /\ Lock' = [Lock EXCEPT ![p] = NoTime]
      /\ Stale' = [Stale EXCEPT ![p] = NoTime]
  BY <1>1 DEF Lock, Stale, Appended
<1>4. Queued' = IF v = Null THEN [Queued EXCEPT ![p] = Null] ELSE Queued
  <2>1. CASE v = Null
    BY <1>1, <2>1 DEF Queued, Appended, LeftQueued
  <2>2. CASE v # Null
    <3>1. doing' = [doing EXCEPT ![p] = "late"]
      BY <1>1, <2>2
    <3>2. Queued' = [Queued EXCEPT ![p] = NoValue]
      BY <1>1, <3>1 DEF Queued, Appended, LeftQueued
    <3>3. QED
      BY <1>2, <2>2, <3>2 DEF Queued
  <2>3. QED
    BY <2>1, <2>2
<1>5. history' = [history EXCEPT ![p] = Append(@, [time |-> Lock[p], value |-> v])]
  BY <1>1, <1>2
<1>6. Atomic!QueueAfterCommit(p, t, v)
  BY <1>1, <1>2, <1>3, <1>4, <1>5 DEF Atomic!QueueAfterCommit, Atomic!MayQueue, Lock, Stale,
     Queued, NoTime, Atomic!NoTime
<1>7. v \in Atomic!Result
  BY DEF Result, Atomic!Result
<1>8. QED
  BY <1>6, <1>7 DEF Atomic!MemNext, Atomic!QueueValue

(* getValue takes effect when it leaves its mark, with what it would find at *)
(* that moment.                                                              *)
LEMMA MarkIsAtomic ==
  ASSUME ThreadTypeOK, NEW p \in Ptr, NEW t \in Time, Mark(t, p)
  PROVE  Atomic!MemNext
<1> USE DEF ThreadTypeOK, MemTypeOK
<1>1. /\ lastRead[p] # NoTime
      /\ ~LockedBefore(p, t)
      /\ lastRead' = [lastRead EXCEPT ![p] = IF lastRead[p] > t THEN lastRead[p] ELSE t]
      /\ UNCHANGED <<history, writeLock, staleCommit, queuedValue, doing>>
  BY DEF Mark, Exists
<1>2. Lock' = Lock /\ Stale' = Stale /\ Queued' = Queued
  BY <1>1 DEF Lock, Stale, Queued, Appended, LeftQueued
<1>3. PICK v \in Result : SnapshotValue(p, t, v)
  BY SnapshotExists
<1>4. Atomic!SnapshotValue(p, t, v) /\ v \in Atomic!Result
  BY <1>3, SameReads DEF Result, Atomic!Result
<1>5. ~Atomic!LockedBefore(p, t)
  BY <1>1 DEF LockedBefore, Atomic!LockedBefore, Appended, NoTime, Atomic!NoTime
<1>6. Atomic!LastRead(p, t) = lastRead[p]
  BY <1>1 DEF Atomic!LastRead, NoTime, Atomic!NoTime
<1>7. Atomic!GetValue(p, t, v)
  BY <1>1, <1>2, <1>4, <1>5, <1>6 DEF Atomic!GetValue, Lock, Stale, Queued
<1>8. QED
  BY <1>4, <1>7 DEF Atomic!MemNext

(* The rest of a handler, and of getValue, was shown already.                *)
LEMMA UnlockIsHidden ==
  ASSUME ThreadTypeOK, NEW p \in Ptr, Unlock(p)
  PROVE  UNCHANGED Atomic!memVars
<1>1. /\ history' = history
      /\ lastRead' = lastRead
      /\ Lock' = Lock
      /\ Stale' = Stale
      /\ Queued' = Queued
  BY DEF ThreadTypeOK, MemTypeOK, Unlock, Lock, Stale, Queued, Appended, LeftQueued
<1>2. QED
  BY <1>1 DEF Atomic!memVars, Lock, Stale, Queued

LEMMA LookIsHidden ==
  ASSUME NEW p \in Ptr, NEW t \in Time, SkipMark(t, p) \/ Look(t, p)
  PROVE  UNCHANGED Atomic!memVars
<1>1. /\ UNCHANGED <<history, lastRead, writeLock, staleCommit, queuedValue>>
      /\ doing' = doing
  BY DEF SkipMark, Look, memVars
<1>2. QED
  BY <1>1 DEF Atomic!memVars, Appended, LeftQueued

(* Whatever the threads do between the sections of MemActor.scala's          *)
(* handlers, the pointer shows the atomic handlers of MemActor.              *)
THEOREM ThreadsAreAtomic == ThreadSpec => ImplementsAtomicActor
<1>1. ThreadInit => Atomic!MemInit
  BY DEF ThreadInit, MemInit, Atomic!MemInit, Appended, NoTime, Atomic!NoTime
<1>2. ThreadInv /\ [ThreadNext]_threadVars => [Atomic!MemNext]_(Atomic!memVars)
  <2> SUFFICES ASSUME ThreadInv, [ThreadNext]_threadVars
               PROVE  Atomic!MemNext \/ UNCHANGED Atomic!memVars
    OBVIOUS
  <2>1. ThreadTypeOK
    BY DEF ThreadInv
  <2>2. CASE UNCHANGED threadVars
    <3>1. /\ UNCHANGED <<history, lastRead, writeLock, staleCommit, queuedValue>>
          /\ doing' = doing
      BY <2>2 DEF threadVars, memVars
    <3>2. QED
      BY <3>1 DEF Atomic!memVars, Appended, LeftQueued
  <2>3. ASSUME NEW p \in Ptr, Unlock(p) PROVE UNCHANGED Atomic!memVars
    BY <2>1, <2>3, UnlockIsHidden
  <2>4. ASSUME NEW p \in Ptr, NEW t \in Time, Create(p, t) PROVE Atomic!MemNext
    BY <2>4, CreateIsAtomic
  <2>5. ASSUME NEW p \in Ptr, NEW t \in Time, HandleAtOnce(p, t) PROVE Atomic!MemNext
    BY <2>1, <2>5, AtOnceIsAtomic
  <2>6. ASSUME NEW p \in Ptr, NEW t \in Time, AppendQueued(p, t) PROVE Atomic!MemNext
    BY <2>1, <2>6, QueuedIsAtomic
  <2>7. ASSUME NEW p \in Ptr, NEW t \in Time, NEW v \in Result, AppendLate(p, t, v)
        PROVE  Atomic!MemNext
    BY <2>1, <2>7, LateIsAtomic
  <2>8. ASSUME NEW p \in Ptr, NEW t \in Time, Mark(t, p) PROVE Atomic!MemNext
    BY <2>1, <2>8, MarkIsAtomic
  <2>9. ASSUME NEW p \in Ptr, NEW t \in Time, SkipMark(t, p) \/ Look(t, p)
        PROVE  UNCHANGED Atomic!memVars
    BY <2>9, LookIsHidden
  <2>10. QED
    BY <2>2, <2>3, <2>4, <2>5, <2>6, <2>7, <2>8, <2>9 DEF ThreadNext
<1>3. QED
  BY <1>1, <1>2, ThreadInvariant, PTL DEF ThreadSpec, ImplementsAtomicActor, Atomic!MemSpec

-----------------------------------------------------------------------------
(* TxnTime: safeNow never returns the same time twice, nor an earlier one.   *)

(* Division with remainder, the property of \div and % that carry rests on.  *)
LEMMA Division ==
  ASSUME NEW n \in Int
  PROVE  /\ n \div NanosPerSecond \in Int
         /\ n % NanosPerSecond \in 0..(NanosPerSecond - 1)
         /\ n = (NanosPerSecond * (n \div NanosPerSecond)) + (n % NanosPerSecond)
BY TxnTimeAssumption, SMT

(* One nanosecond more stays in its second, or begins the next one.          *)
LEMMA OneMore ==
  ASSUME NEW n \in Int
  PROVE  \/ /\ (n + 1) \div NanosPerSecond = n \div NanosPerSecond
            /\ (n + 1) % NanosPerSecond = (n % NanosPerSecond) + 1
         \/ (n + 1) \div NanosPerSecond = n \div NanosPerSecond + 1
BY TxnTimeAssumption, SMT

-----------------------------------------------------------------------------
(* The order of exact times.                                                 *)

LEMMA CarryType ==
  ASSUME NEW e \in ExactTime
  PROVE  Carry(e) \in ExactTime
<1>1. /\ e.nanos \div NanosPerSecond \in Int
      /\ e.nanos % NanosPerSecond \in Int
  BY Division DEF ExactTime
<1>2. QED
  BY <1>1 DEF Carry, ExactTime

LEMMA BeforeTransitive ==
  ASSUME NEW a \in ExactTime, NEW b \in ExactTime, NEW c \in ExactTime,
         Before(a, b), Before(b, c)
  PROVE  Before(a, c)
<1>1. Carry(a) \in ExactTime /\ Carry(b) \in ExactTime /\ Carry(c) \in ExactTime
  BY CarryType
<1>2. QED
  BY <1>1 DEF Before, Lexical, ExactTime

LEMMA BeforeIrreflexive ==
  ASSUME NEW a \in ExactTime
  PROVE  ~Before(a, a)
<1>1. Carry(a) \in ExactTime
  BY CarryType
<1>2. QED
  BY <1>1 DEF Before, Lexical, ExactTime

(* What safeNow computes is later than what it read, on either branch.       *)
LEMMA LaterIsLater ==
  ASSUME NEW last \in ExactTime, NEW time \in ExactTime
  PROVE  Later(last, time) \in ExactTime /\ Before(last, Later(last, time))
<1>1. CASE Before(last, time)
  BY <1>1 DEF Later
<1>2. CASE ~Before(last, time)
  <2> DEFINE more == [last EXCEPT !.nanos = @ + 1]
  <2>1. Later(last, time) = more
    BY <1>2 DEF Later
  <2>2. more \in ExactTime /\ more.epoch = last.epoch /\ more.nanos = last.nanos + 1
    BY DEF ExactTime
  <2>3. last.nanos \in Int /\ last.epoch \in Int
    BY DEF ExactTime
  <2>4. /\ last.nanos \div NanosPerSecond \in Int
        /\ last.nanos % NanosPerSecond \in Int
    BY <2>3, Division
  <2>5. \/ /\ more.nanos \div NanosPerSecond = last.nanos \div NanosPerSecond
           /\ more.nanos % NanosPerSecond = (last.nanos % NanosPerSecond) + 1
        \/ more.nanos \div NanosPerSecond = (last.nanos \div NanosPerSecond) + 1
    BY <2>2, <2>3, OneMore
  <2>6. Before(last, more)
    <3> HIDE DEF more
    <3>1. QED
      BY <2>2, <2>3, <2>4, <2>5 DEF Before, Lexical, Carry
  <2>7. QED
    BY <2>1, <2>2, <2>6
<1>3. QED
  BY <1>1, <1>2

-----------------------------------------------------------------------------
(* The inductive invariant: besides the order of what was drawn, safeLast is *)
(* no earlier than any of it, and what a thread computed is later than what  *)
(* it read, so that a successful exchange extends the order.                 *)
NoneAfterLast ==
  \A i \in DOMAIN drawn : drawn[i] = safeLast \/ Before(drawn[i], safeLast)

ComputedIsLater ==
  \A th \in Thread : at[th] = "computed" => Before(prev[th], next[th])

TimeInv == TimeTypeOK /\ DrawnInOrder /\ NoneAfterLast /\ ComputedIsLater

LEMMA TimeInit == Init => TimeInv
<1>1. SUFFICES ASSUME Init PROVE TimeInv
  OBVIOUS
<1>2. safeLast \in ExactTime
  BY <1>1, TxnTimeAssumption DEF Init
<1>3. DOMAIN drawn = {}
  BY <1>1 DEF Init
<1>4. QED
  BY <1>1, <1>2, <1>3 DEF Init, TimeInv, TimeTypeOK, DrawnInOrder, NoneAfterLast, ComputedIsLater

LEMMA SetKeeps ==
  ASSUME TimeInv, NEW th \in Thread, Set(th)
  PROVE  TimeInv'
<1>1. /\ next[th] \in ExactTime /\ prev[th] \in ExactTime
      /\ safeLast \in ExactTime /\ drawn \in Seq(ExactTime)
  BY DEF TimeInv, TimeTypeOK
<1>2. at[th] = "computed" /\ prev[th] = safeLast
  BY DEF Set, Untouched
<1>3. safeLast' = next[th] /\ drawn' = Append(drawn, next[th]) /\ UNCHANGED <<prev, next>>
  BY DEF Set
<1>4. Before(safeLast, next[th])
  BY <1>2 DEF TimeInv, ComputedIsLater
<1>5. ASSUME NEW i \in DOMAIN drawn PROVE Before(drawn[i], next[th])
  <2>1. drawn[i] \in ExactTime
    BY <1>1, <1>5
  <2>2. drawn[i] = safeLast \/ Before(drawn[i], safeLast)
    BY <1>5 DEF TimeInv, NoneAfterLast
  <2>3. QED
    BY <1>1, <1>4, <2>1, <2>2, BeforeTransitive
<1>6. /\ DOMAIN drawn' = 1..(Len(drawn) + 1) /\ DOMAIN drawn = 1..Len(drawn)
      /\ Len(drawn) \in Nat
      /\ \A i \in 1..Len(drawn) : drawn'[i] = drawn[i]
      /\ drawn'[Len(drawn) + 1] = next[th]
  BY <1>1, <1>3
<1>7. TimeTypeOK'
  <2>1. at' \in [Thread -> {"idle", "read", "computed"}]
    BY DEF Set, TimeInv, TimeTypeOK
  <2>2. drawn' \in Seq(ExactTime)
    BY <1>1, <1>3
  <2>3. QED
    BY <1>1, <1>3, <2>1, <2>2 DEF TimeInv, TimeTypeOK
<1>8. DrawnInOrder'
  <2>1. SUFFICES ASSUME NEW i \in DOMAIN drawn', NEW j \in DOMAIN drawn', i < j
                 PROVE  Before(drawn'[i], drawn'[j])
    BY DEF DrawnInOrder, Before, Lexical, Carry
  <2>2. i \in DOMAIN drawn /\ drawn'[i] = drawn[i]
    BY <1>6, <2>1
  <2>3. CASE j = Len(drawn) + 1
    BY <1>5, <1>6, <2>2, <2>3
  <2>4. CASE j \in DOMAIN drawn
    <3>1. drawn'[j] = drawn[j]
      BY <1>6, <2>4
    <3>2. Before(drawn[i], drawn[j])
      BY <2>1, <2>2, <2>4 DEF TimeInv, DrawnInOrder
    <3>3. QED
      BY <2>2, <3>1, <3>2
  <2>5. QED
    BY <1>6, <2>3, <2>4
<1>9. NoneAfterLast'
  <2>1. SUFFICES ASSUME NEW i \in DOMAIN drawn'
                 PROVE  drawn'[i] = safeLast' \/ Before(drawn'[i], safeLast')
    BY DEF NoneAfterLast, Before, Lexical, Carry
  <2>2. QED
    BY <1>3, <1>5, <1>6
<1>10. ComputedIsLater'
  <2>1. \A t \in Thread : at'[t] = "computed" => at[t] = "computed"
    BY DEF Set, TimeInv, TimeTypeOK
  <2>2. QED
    BY <1>3, <2>1 DEF TimeInv, ComputedIsLater, Before, Lexical, Carry
<1>11. QED
  BY <1>7, <1>8, <1>9, <1>10 DEF TimeInv

LEMMA TimeStep == TimeInv /\ [Next]_vars => TimeInv'
<1>1. SUFFICES ASSUME TimeInv, [Next]_vars PROVE TimeInv'
  OBVIOUS
<1>2. ASSUME NEW th \in Thread, Get(th) PROVE TimeInv'
  BY <1>1, <1>2 DEF Get, TimeInv, TimeTypeOK, DrawnInOrder, NoneAfterLast, ComputedIsLater,
                    Before, Lexical, Carry
<1>3. ASSUME NEW th \in Thread, Compute(th) PROVE TimeInv'
  <2>1. PICK time \in Reading : next' = [next EXCEPT ![th] = Later(prev[th], time)]
    BY <1>3 DEF Compute
  <2>2. time \in ExactTime /\ prev[th] \in ExactTime
    BY <1>1, TxnTimeAssumption DEF TimeInv, TimeTypeOK
  <2>3. Later(prev[th], time) \in ExactTime /\ Before(prev[th], Later(prev[th], time))
    BY <2>2, LaterIsLater
  <2>4. UNCHANGED <<safeLast, prev, drawn>> /\ at' = [at EXCEPT ![th] = "computed"]
    BY <1>3 DEF Compute
  <2>5. TimeTypeOK'
    BY <1>1, <2>1, <2>3, <2>4 DEF TimeInv, TimeTypeOK
  <2>6. DrawnInOrder' /\ NoneAfterLast'
    BY <1>1, <2>4 DEF TimeInv, DrawnInOrder, NoneAfterLast, Before, Lexical, Carry
  <2>7. ASSUME NEW t \in Thread, at'[t] = "computed" PROVE Before(prev'[t], next'[t])
    <3>1. CASE t = th
      <4>1. next'[t] = Later(prev[th], time) /\ prev'[t] = prev[th]
        BY <1>1, <2>1, <2>4, <3>1 DEF TimeInv, TimeTypeOK
      <4>2. QED
        BY <2>3, <4>1
    <3>2. CASE t # th
      <4>1. next'[t] = next[t] /\ prev'[t] = prev[t] /\ at[t] = "computed"
        BY <1>1, <2>1, <2>4, <2>7, <3>2 DEF TimeInv, TimeTypeOK
      <4>2. QED
        BY <1>1, <4>1 DEF TimeInv, ComputedIsLater
    <3>3. QED
      BY <3>1, <3>2
  <2>8. ComputedIsLater'
    BY <2>7 DEF ComputedIsLater, Before, Lexical, Carry
  <2>9. QED
    BY <2>5, <2>6, <2>8 DEF TimeInv
<1>4. ASSUME NEW th \in Thread, Set(th) PROVE TimeInv'
  BY <1>1, <1>4, SetKeeps
<1>5. ASSUME NEW th \in Thread, Retry(th) PROVE TimeInv'
  BY <1>1, <1>5 DEF Retry, TimeInv, TimeTypeOK, DrawnInOrder, NoneAfterLast, ComputedIsLater,
                    Before, Lexical, Carry
<1>6. CASE UNCHANGED vars
  BY <1>1, <1>6 DEF vars, TimeInv, TimeTypeOK, DrawnInOrder, NoneAfterLast, ComputedIsLater,
                    Before, Lexical, Carry
<1>7. QED
  BY <1>1, <1>2, <1>3, <1>4, <1>5, <1>6 DEF Next

-----------------------------------------------------------------------------
(* However many threads draw timestamps, whatever the clocks read and        *)
(* however long a second is, each is later than all before it                *)
(* (TxnTime.scala:77-86).                                                    *)
THEOREM TimestampsInOrder == Spec => []DrawnInOrder
<1>1. TimeInv => DrawnInOrder
  BY DEF TimeInv
<1>2. QED
  BY <1>1, TimeInit, TimeStep, PTL DEF Spec

(* No two of them are equal, as RestmTypes assumes of transactions' times.   *)
THEOREM TimestampsDiffer ==
  Spec => [](\A i, j \in DOMAIN drawn : i # j => drawn[i] # drawn[j])
<1>1. TimeInv => \A i, j \in DOMAIN drawn : i # j => drawn[i] # drawn[j]
  <2>1. SUFFICES ASSUME TimeInv, NEW i \in DOMAIN drawn, NEW j \in DOMAIN drawn, i # j
                 PROVE  drawn[i] # drawn[j]
    OBVIOUS
  <2>2. drawn \in Seq(ExactTime)
    BY <2>1 DEF TimeInv, TimeTypeOK
  <2>3. /\ i \in Int /\ j \in Int
        /\ drawn[i] \in ExactTime
    BY <2>2
  <2>4. i < j \/ j < i
    BY <2>1, <2>3
  <2>5. Before(drawn[i], drawn[j]) \/ Before(drawn[j], drawn[i])
    BY <2>1, <2>4 DEF TimeInv, DrawnInOrder
  <2>6. QED
    BY <2>3, <2>5, BeforeIrreflexive
<1>2. QED
  BY <1>1, TimeInit, TimeStep, PTL DEF Spec

-----------------------------------------------------------------------------
(* A time as one number, in nanoseconds: carry keeps it, - and + are its     *)
(* difference and sum, and compare its order.                                *)
Total(e) == NanosPerSecond * e.epoch + e.nanos
Normal(e) == e \in ExactTime /\ e.nanos \in 0..(NanosPerSecond - 1)

LEMMA TotalType == ASSUME NEW e \in ExactTime PROVE Total(e) \in Int
BY TxnTimeAssumption DEF Total, ExactTime

LEMMA CarryKeepsTotal ==
  ASSUME NEW e \in ExactTime
  PROVE  Normal(Carry(e)) /\ Total(Carry(e)) = Total(e)
<1> DEFINE d == e.nanos \div NanosPerSecond
           m == e.nanos % NanosPerSecond
<1>0. e.epoch \in Int /\ e.nanos \in Int /\ NanosPerSecond \in Nat
  BY TxnTimeAssumption DEF ExactTime
<1>1. /\ d \in Int /\ m \in 0..(NanosPerSecond - 1)
      /\ e.nanos = (NanosPerSecond * d) + m
  BY <1>0, Division
<1>2. Carry(e) = [epoch |-> e.epoch + d, nanos |-> m]
  BY DEF Carry
<1> HIDE DEF d, m
<1>3. Carry(e) \in ExactTime /\ Carry(e).epoch = e.epoch + d /\ Carry(e).nanos = m
  BY <1>0, <1>1, <1>2 DEF ExactTime
<1>4. NanosPerSecond * (e.epoch + d) = (NanosPerSecond * e.epoch) + (NanosPerSecond * d)
  BY <1>0, <1>1
<1>5. Total(Carry(e)) = Total(e)
  BY <1>0, <1>1, <1>3, <1>4 DEF Total
<1> QED BY <1>1, <1>3, <1>5 DEF Normal

LEMMA LessEpoch ==
  ASSUME NEW a, NEW b, Normal(a), Normal(b), a.epoch < b.epoch
  PROVE  Total(a) < Total(b)
<1> DEFINE k == b.epoch - a.epoch
           n == NanosPerSecond
<1>1. /\ n \in Nat \ {0} /\ a.epoch \in Int /\ b.epoch \in Int /\ k \in Int /\ k >= 1
      /\ a.nanos \in 0..(n - 1) /\ b.nanos \in 0..(n - 1)
  BY TxnTimeAssumption DEF Normal, ExactTime
<1>2. b.epoch = a.epoch + k
  BY <1>1
<1> HIDE DEF k, n
<1>3. n * k >= n /\ n * k \in Int /\ n * a.epoch \in Int
  BY <1>1
<1>4. n * b.epoch = (n * a.epoch) + (n * k)
  BY <1>1, <1>2
<1> QED BY <1>1, <1>3, <1>4 DEF Total, n

LEMMA LexicalIsLess ==
  ASSUME NEW a, NEW b, Normal(a), Normal(b)
  PROVE  /\ Lexical(a, b) <=> Total(a) < Total(b)
         /\ Total(a) = Total(b) => a = b
<1>1. /\ a.epoch \in Int /\ b.epoch \in Int /\ a.nanos \in Int /\ b.nanos \in Int
      /\ Total(a) \in Int /\ Total(b) \in Int
  BY TotalType DEF Normal, ExactTime
<1>2. CASE a.epoch < b.epoch
  BY <1>1, <1>2, LessEpoch DEF Lexical
<1>3. CASE b.epoch < a.epoch
  BY <1>1, <1>3, LessEpoch DEF Lexical
<1>4. CASE a.epoch = b.epoch
  <2> DEFINE s == NanosPerSecond * a.epoch
  <2>1. s \in Int /\ Total(a) = s + a.nanos /\ Total(b) = s + b.nanos
    BY <1>1, <1>4, TxnTimeAssumption DEF Total
  <2> HIDE DEF s
  <2>2. Lexical(a, b) <=> a.nanos < b.nanos
    BY <1>1, <1>4 DEF Lexical
  <2>3. a.nanos = b.nanos => a = b
    BY <1>4 DEF Normal, ExactTime
  <2>4. Lexical(a, b) <=> Total(a) < Total(b)
    BY <1>1, <2>1, <2>2
  <2>5. ASSUME Total(a) = Total(b) PROVE a.nanos = b.nanos
    <3>1. ~(Total(a) < Total(b)) /\ ~(Total(b) < Total(a))
      BY <1>1, <2>5
    <3>2. ~(a.nanos < b.nanos) /\ ~(b.nanos < a.nanos)
      BY <1>1, <2>1, <3>1
    <3> QED BY <1>1, <3>2
  <2> QED BY <2>3, <2>4, <2>5
<1> QED BY <1>1, <1>2, <1>3, <1>4

LEMMA BeforeIsLess ==
  ASSUME NEW a \in ExactTime, NEW b \in ExactTime
  PROVE  Before(a, b) <=> Total(a) < Total(b)
BY CarryKeepsTotal, LexicalIsLess DEF Before

LEMMA PlusAdds ==
  ASSUME NEW a \in ExactTime, NEW b \in ExactTime
  PROVE  Normal(Plus(a, b)) /\ Total(Plus(a, b)) = Total(a) + Total(b)
<1> DEFINE c == [epoch |-> a.epoch + b.epoch, nanos |-> a.nanos + b.nanos]
<1>1. /\ a.epoch \in Int /\ b.epoch \in Int /\ a.nanos \in Int /\ b.nanos \in Int
      /\ NanosPerSecond \in Nat
  BY TxnTimeAssumption DEF ExactTime
<1>2. c \in ExactTime /\ c.epoch = a.epoch + b.epoch /\ c.nanos = a.nanos + b.nanos
  BY <1>1 DEF ExactTime
<1> HIDE DEF c
<1>3. Total(c) = Total(a) + Total(b)
  BY <1>1, <1>2 DEF Total
<1> QED BY <1>2, <1>3, CarryKeepsTotal DEF Plus, c

LEMMA MinusSubtracts ==
  ASSUME NEW a \in ExactTime, NEW b \in ExactTime
  PROVE  Normal(Minus(a, b)) /\ Total(Minus(a, b)) = Total(a) - Total(b)
<1> DEFINE c == [epoch |-> a.epoch - b.epoch, nanos |-> a.nanos - b.nanos]
<1>1. /\ a.epoch \in Int /\ b.epoch \in Int /\ a.nanos \in Int /\ b.nanos \in Int
      /\ NanosPerSecond \in Nat
  BY TxnTimeAssumption DEF ExactTime
<1>2. c \in ExactTime /\ c.epoch = a.epoch - b.epoch /\ c.nanos = a.nanos - b.nanos
  BY <1>1 DEF ExactTime
<1> HIDE DEF c
<1>3. Total(c) = Total(a) - Total(b)
  BY <1>1, <1>2 DEF Total
<1> QED BY <1>2, <1>3, CarryKeepsTotal DEF Minus, c

-----------------------------------------------------------------------------
(* The recursion of carry.                                                   *)
CarryOnce(e) ==
  IF e.nanos < 0 THEN [epoch |-> e.epoch - 1, nanos |-> e.nanos + NanosPerSecond]
  ELSE [epoch |-> e.epoch + 1, nanos |-> e.nanos - NanosPerSecond]

(* How far nanos is from its second.                                         *)
Excess(e) == IF e.nanos < 0 THEN -e.nanos
             ELSE IF e.nanos >= NanosPerSecond THEN e.nanos - NanosPerSecond + 1 ELSE 0

(* What is in its second is carried; a carry of anything else keeps the time *)
(* and comes closer.                                                         *)
LEMMA CarryComesCloser ==
  ASSUME NEW e \in ExactTime
  PROVE  /\ Excess(e) \in Nat
         /\ Excess(e) = 0 => Carry(e) = e
         /\ Excess(e) # 0 => /\ CarryOnce(e) \in ExactTime /\ Carry(CarryOnce(e)) = Carry(e)
                             /\ Excess(CarryOnce(e)) < Excess(e)
<1> DEFINE n == NanosPerSecond
           c == CarryOnce(e)
<1>1. n \in Nat \ {0} /\ e.epoch \in Int /\ e.nanos \in Int
  BY TxnTimeAssumption DEF ExactTime
<1>2. Excess(e) \in Nat /\ (Excess(e) = 0 <=> e.nanos \in 0..(n - 1))
  BY <1>1 DEF Excess
<1>3. ASSUME Excess(e) = 0
      PROVE  Carry(e) = e
  <2>1. Normal(e)
    BY <1>2, <1>3 DEF Normal
  <2> QED BY <2>1, CarryKeepsTotal, LexicalIsLess
<1>4. ASSUME Excess(e) # 0
      PROVE  c \in ExactTime /\ Total(c) = Total(e) /\ Excess(c) < Excess(e)
  <2>1. CASE e.nanos < 0
    <3>1. c = [epoch |-> e.epoch - 1, nanos |-> e.nanos + n]
      BY <2>1 DEF CarryOnce
    <3>2. c \in ExactTime /\ c.epoch = e.epoch - 1 /\ c.nanos = e.nanos + n
      BY <1>1, <3>1 DEF ExactTime
    <3>3. n * (e.epoch - 1) = (n * e.epoch) - n
      BY <1>1
    <3>4. Total(c) = Total(e)
      BY <1>1, <3>2, <3>3 DEF Total
    <3>5. Excess(c) < Excess(e)
      BY <1>1, <2>1, <3>2 DEF Excess
    <3> QED BY <3>2, <3>4, <3>5
  <2>2. CASE e.nanos >= n
    <3>1. c = [epoch |-> e.epoch + 1, nanos |-> e.nanos - n]
      BY <1>1, <2>2 DEF CarryOnce
    <3>2. c \in ExactTime /\ c.epoch = e.epoch + 1 /\ c.nanos = e.nanos - n
      BY <1>1, <3>1 DEF ExactTime
    <3>3. n * (e.epoch + 1) = (n * e.epoch) + n
      BY <1>1
    <3>4. Total(c) = Total(e)
      BY <1>1, <3>2, <3>3 DEF Total
    <3>5. Excess(c) < Excess(e)
      BY <1>1, <2>2, <3>2 DEF Excess
    <3> QED BY <3>2, <3>4, <3>5
  <2> QED BY <1>1, <1>2, <1>4, <2>1, <2>2
<1>5. ASSUME Excess(e) # 0
      PROVE  Carry(c) = Carry(e)
  BY <1>4, <1>5, CarryKeepsTotal, LexicalIsLess
<1> QED BY <1>2, <1>3, <1>4, <1>5

(* The recursion has an answer, and only one.                                *)
LEMMA CarryAgainUnfolds ==
  ASSUME NEW e \in ExactTime
  PROVE  CarryAgain[e] = IF Excess(e) = 0 THEN e ELSE CarryAgain[CarryOnce(e)]
<1> DEFINE Body(f) ==
      [t \in ExactTime |->
         IF t.nanos < 0
         THEN f[[epoch |-> t.epoch - 1, nanos |-> t.nanos + NanosPerSecond]]
         ELSE IF t.nanos >= NanosPerSecond
         THEN f[[epoch |-> t.epoch + 1, nanos |-> t.nanos - NanosPerSecond]]
         ELSE t]
           g == [t \in ExactTime |-> Carry(t)]
<1>1. ASSUME NEW f, NEW t \in ExactTime
      PROVE  Body(f)[t] = IF Excess(t) = 0 THEN t ELSE f[CarryOnce(t)]
  <2>1. NanosPerSecond \in Nat \ {0} /\ t.nanos \in Int
    BY TxnTimeAssumption DEF ExactTime
  <2>2. CASE t.nanos < 0
    BY <2>1, <2>2 DEF CarryOnce, Excess
  <2>3. CASE ~(t.nanos < 0) /\ t.nanos >= NanosPerSecond
    BY <2>1, <2>3 DEF CarryOnce, Excess
  <2>4. CASE ~(t.nanos < 0) /\ ~(t.nanos >= NanosPerSecond)
    BY <2>1, <2>4 DEF Excess
  <2> QED BY <2>2, <2>3, <2>4
<1>2. g = Body(g)
  <2>1. ASSUME NEW t \in ExactTime
        PROVE  g[t] = Body(g)[t]
    <3>1. CASE Excess(t) = 0
      BY <1>1, <3>1, CarryComesCloser
    <3>2. CASE Excess(t) # 0
      <4>1. CarryOnce(t) \in ExactTime /\ Carry(CarryOnce(t)) = Carry(t)
        BY <3>2, CarryComesCloser
      <4> QED BY <1>1, <3>2, <4>1
    <3> QED BY <3>1, <3>2
  <2> QED BY <2>1
<1>3. CarryAgain = CHOOSE f : f = Body(f)
  BY DEF CarryAgain
<1> HIDE DEF Body, g
<1>4. CarryAgain = Body(CarryAgain)
  BY <1>2, <1>3
<1> QED BY <1>1, <1>4

LEMMA CarryAgainIsCarry ==
  \A e \in ExactTime : CarryAgain[e] = Carry(e)
<1> DEFINE Wrong == {e \in ExactTime : CarryAgain[e] # Carry(e)}
           S == {Excess(e) : e \in Wrong}
<1> SUFFICES ASSUME Wrong # {}
             PROVE  FALSE
  OBVIOUS
<1>1. S \in SUBSET Nat /\ S # {}
  BY CarryComesCloser
<1>2. PICK k \in S : \A m \in S : k <= m
  BY <1>1, Least
<1>3. PICK e \in Wrong : Excess(e) = k
  BY <1>2
<1>4. CASE Excess(e) = 0
  BY <1>3, <1>4, CarryAgainUnfolds, CarryComesCloser
<1>5. CASE Excess(e) # 0
  <2>1. /\ CarryOnce(e) \in ExactTime /\ Carry(CarryOnce(e)) = Carry(e)
        /\ Excess(CarryOnce(e)) \in Nat /\ Excess(e) \in Nat /\ Excess(CarryOnce(e)) < Excess(e)
    BY <1>3, <1>5, CarryComesCloser
  <2>2. CarryOnce(e) \in Wrong
    BY <1>3, <1>5, <2>1, CarryAgainUnfolds
  <2> QED BY <1>2, <1>3, <2>1, <2>2
<1> QED BY <1>4, <1>5

(* The sums and differences of the times drawn agree with their order, and   *)
(* one priority keeps it, whatever it adds: their total is what each adds to,*)
(* and the recursion of carry ends in the normal form of that total          *)
(* (TxnTime.scala:40-69,103-104).                                            *)
THEOREM TimesAddUp == Spec => []TimesAgree
<1> USE TxnTimeAssumption
<1>1. TimeInv => DifferencesAgree
  <2> SUFFICES ASSUME TimeInv, NEW i \in DOMAIN drawn, NEW j \in DOMAIN drawn
               PROVE  /\ Before(drawn[i], drawn[j]) <=> Before(Zero, Minus(drawn[j], drawn[i]))
                      /\ Plus(Minus(drawn[j], drawn[i]), drawn[i]) = Carry(drawn[j])
    BY DEF DifferencesAgree
  <2> DEFINE a == drawn[i]
             b == drawn[j]
             c == Minus(b, a)
  <2>1. a \in ExactTime /\ b \in ExactTime /\ Zero \in ExactTime
    <3>1. drawn \in Seq(ExactTime)
      BY DEF TimeInv, TimeTypeOK
    <3>2. Zero \in ExactTime
      BY DEF Zero, ExactTime
    <3> QED BY <3>1, <3>2
  <2>2. Normal(c) /\ Total(c) = Total(b) - Total(a)
    BY <2>1, MinusSubtracts
  <2> HIDE DEF a, b, c
  <2>3. Total(a) \in Int /\ Total(b) \in Int /\ Total(Zero) = 0
    BY <2>1, TotalType DEF Total, Zero
  <2>4. Before(a, b) <=> Before(Zero, c)
    <3>1. (Before(a, b) <=> Total(a) < Total(b)) /\ (Before(Zero, c) <=> Total(Zero) < Total(c))
      BY <2>1, <2>2, BeforeIsLess DEF Normal
    <3> QED BY <2>2, <2>3, <3>1
  <2>5. Plus(c, a) = Carry(b)
    <3>1. Normal(Plus(c, a)) /\ Total(Plus(c, a)) = Total(b)
      BY <2>1, <2>2, <2>3, PlusAdds DEF Normal
    <3>2. Normal(Carry(b)) /\ Total(Carry(b)) = Total(b)
      BY <2>1, CarryKeepsTotal
    <3> QED BY <3>1, <3>2, LexicalIsLess
  <2> QED BY <2>4, <2>5 DEF a, b, c
<1>2. TimeInv => PriorityKeepsOrder
  <2> SUFFICES ASSUME TimeInv, NEW i \in DOMAIN drawn, NEW j \in DOMAIN drawn, i < j,
                      NEW p \in Priority
               PROVE  Before(Effective(drawn[i], p), Effective(drawn[j], p))
    BY DEF PriorityKeepsOrder
  <2> DEFINE a == drawn[i]
             b == drawn[j]
             more == [epoch |-> 0, nanos |-> p * NanosPerMilli]
  <2>1. a \in ExactTime /\ b \in ExactTime /\ more \in ExactTime /\ Before(a, b)
    <3>1. drawn \in Seq(ExactTime)
      BY DEF TimeInv, TimeTypeOK
    <3>2. p \in Int /\ p * NanosPerMilli \in Int
      OBVIOUS
    <3>3. more \in ExactTime
      BY <3>2 DEF ExactTime
    <3> QED BY <3>1, <3>3 DEF TimeInv, DrawnInOrder
  <2>2. Effective(a, p) = Plus(a, more) /\ Effective(b, p) = Plus(b, more)
    BY DEF Effective
  <2> HIDE DEF a, b, more
  <2>3. Total(a) \in Int /\ Total(b) \in Int /\ Total(more) \in Int /\ Total(a) < Total(b)
    BY <2>1, TotalType, BeforeIsLess
  <2>4. /\ Plus(a, more) \in ExactTime /\ Total(Plus(a, more)) = Total(a) + Total(more)
        /\ Plus(b, more) \in ExactTime /\ Total(Plus(b, more)) = Total(b) + Total(more)
    BY <2>1, PlusAdds DEF Normal
  <2>5. Total(Plus(a, more)) < Total(Plus(b, more))
    BY <2>3, <2>4
  <2>6. Before(Plus(a, more), Plus(b, more))
    BY <2>4, <2>5, BeforeIsLess
  <2> QED BY <2>2, <2>6 DEF a, b
<1>3. TimeInv => CarryEnds
  <2> SUFFICES ASSUME TimeInv, NEW i \in DOMAIN drawn, NEW p \in Priority
               PROVE  LET e == [drawn[i] EXCEPT !.nanos = @ + p * NanosPerMilli]
                      IN  CarryAgain[e] = Carry(e)
    BY DEF CarryEnds
  <2>1. drawn[i] \in ExactTime /\ p * NanosPerMilli \in Int
    <3>1. drawn \in Seq(ExactTime)
      BY DEF TimeInv, TimeTypeOK
    <3>2. p \in Int /\ NanosPerMilli \in Int
      OBVIOUS
    <3> QED BY <3>1, <3>2
  <2>2. [drawn[i] EXCEPT !.nanos = @ + p * NanosPerMilli] \in ExactTime
    BY <2>1 DEF ExactTime
  <2> QED BY <2>2, CarryAgainIsCarry
<1>4. TimeInv => TimesAgree
  BY <1>1, <1>2, <1>3 DEF TimesAgree
<1> QED BY <1>4, TimeInit, TimeStep, PTL DEF Spec
=============================================================================
