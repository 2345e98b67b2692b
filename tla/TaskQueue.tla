------------------------------ MODULE TaskQueue -----------------------------
(* The queue of stm/task/TaskQueue.scala: several linked lists, so that      *)
(* transactions which lock one of them each do not meet, the counters of a   *)
(* ScalarArray for the size, and an index of the ids that are queued.  Every *)
(* operation is a transaction; a list or a counter locked by another one is  *)
(* passed over, so any of them may be the one that is used.                  *)
(* Of a list we know what Fifo says, of the index what Collection says.      *)
EXTENDS Integers, FiniteSets, SequencesExt

CONSTANTS
  Value,      \* tasks; two are the same if their ids are
  Nothing,
  Width,      \* how many lists a queue is made with
  MaxLists,   \* how many it may grow to
  MaxSize,    \* how many tasks may be queued
  MaxCount,   \* how far a counter may get from zero
  Restarts    \* may a node call init after others have used the queue?

VARIABLES
  lists,      \* queues
  counters,   \* size
  index,      \* [Value -> how often the index has its id]
  last        \* the last operation, for the record

vars == <<lists, counters, index, last>>

(* The sum of a sequence of numbers, and of the lengths of the lists.        *)
Total(counts) ==
  LET sum[i \in 0..Len(counts)] == IF i = 0 THEN 0 ELSE sum[i - 1] + counts[i]
  IN sum[Len(counts)]
Size == Total([i \in DOMAIN lists |-> Len(lists[i])])

Queued == FlattenSeq(lists)
Spots(v) == UNION {{i} \X {j \in DOMAIN lists[i] : lists[i][j] = v} : i \in DOMAIN lists}
QueuedTimes(v) == Cardinality(Spots(v))

(* createInnerData.                                                          *)
Empties == [i \in 1..Width |-> << >>]
NoCounts == [i \in 1..Width |-> 0]

Init ==
  /\ lists = Empties /\ counters = NoCounts
  /\ index = [v \in Value |-> 0]
  /\ last = Nothing

(* ScalarArray.add: any counter whose lock is free.                          *)
Counted(n) ==
  \E j \in DOMAIN counters :
    /\ counters[j] + n \in (-MaxCount)..MaxCount
    /\ counters' = [counters EXCEPT ![j] = @ + n]

Add(v) ==
  /\ Size < MaxSize
  /\ \E i \in DOMAIN lists : lists' = [lists EXCEPT ![i] = Append(@, v)]
  /\ Counted(1)
  /\ index' = [index EXCEPT ![v] = @ + 1]
  /\ last' = <<"put", v>>

StillIndexed(v) == UNCHANGED index   \* as if take left the id
Unindexed(v) == index' = [index EXCEPT ![v] = IF @ > 0 THEN @ - 1 ELSE @]

(* take(minEmpty) takes what it finds, indexed or not; take() requires that  *)
(* it was indexed and fails otherwise, which leaves everything as it was.    *)
TakenFrom(i) ==
  /\ lists[i] # << >>
  /\ lists' = [lists EXCEPT ![i] = Tail(@)]
  /\ Counted(-1)
  /\ Unindexed(Head(lists[i]))
  /\ last' = <<"drop", Head(lists[i])>>

Take == \E i \in DOMAIN lists : TakenFrom(i) /\ index[Head(lists[i])] > 0
TakeAny == \E i \in DOMAIN lists : TakenFrom(i)

EmptyLists == {i \in DOMAIN lists : lists[i] = << >>}

(* take answers None when as many lists as it asks for are locked and empty. *)
AllEmpty == Cardinality(EmptyLists) >= Len(lists)

TakeNone ==
  /\ AllEmpty
  /\ last' = <<"empty">>
  /\ UNCHANGED <<lists, counters, index>>

(* The new list comes with no counter of its own.                            *)
Grow ==
  /\ Len(lists) < MaxLists
  /\ lists' = Append(lists, << >>)
  /\ UNCHANGED <<counters, index, last>>

(* init by another node, or by a restarted one: a queue with another number  *)
(* of lists than asked for is replaced by a new one.                         *)
Reinit ==
  /\ Restarts
  /\ Len(lists) # Width
  /\ lists' = Empties /\ counters' = NoCounts
  /\ index' = [v \in Value |-> 0]
  /\ UNCHANGED last

Next == Take \/ TakeAny \/ TakeNone \/ Grow \/ Reinit \/ \E v \in Value : Add(v)
Spec == Init /\ [][Next]_vars

-----------------------------------------------------------------------------
(* The counters, whichever of them were used and however the queue grew,     *)
(* sum to what size() should answer (l.152-197): each may go below zero.     *)
SizeAgrees == Total(counters) = Size

(* The index has each id as often as the lists have its task (l.152-185):    *)
(* what is queued is contained, what is not is not                           *)
(* (StmCollectionSpecBase.scala:287-289), and take()'s require never fails.  *)
IndexAgrees == \A v \in Value : index[v] = QueuedTimes(v)

(* An addition adds its task, a take takes the one it answers, and take()    *)
(* says None only when no list has any (l.80-131), also after grow.          *)
Abstract == INSTANCE Collection WITH items <- [v \in Value |-> QueuedTimes(v)]
ImplementsCollection == Abstract!CollectionSpec

(* A node that starts beside others, or again, leaves the queued tasks where *)
(* they are (l.49-58).                                                       *)
InitKeepsTasks == [][Reinit => UNCHANGED Queued]_vars
=============================================================================
