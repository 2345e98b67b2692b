------------------------------- MODULE TxnTime -------------------------------
(* The timestamps of transactions (storage/types/TxnTime.scala): exact times *)
(* whose nanoseconds may leave their second, and safeNow, which any number   *)
(* of threads of a node call and which never returns the same time twice,    *)
(* whatever the two unrelated clocks it reads return.                        *)
EXTENDS Integers, Sequences

CONSTANTS
  Thread,
  Reading,         \* the times new ExactTime() may read
  Priority,        \* priorities, in milliseconds
  NanosPerSecond,
  NanosPerMilli,
  MaxDrawn         \* bound on the timestamps drawn

ExactTime == [epoch : Int, nanos : Int]

ASSUME TxnTimeAssumption ==
  /\ Reading \subseteq ExactTime /\ Reading # {}
  /\ Priority \subseteq Int
  /\ NanosPerSecond \in Nat \ {0} /\ NanosPerMilli \in Nat
  /\ MaxDrawn \in Nat

VARIABLES
  safeLast,   \* ExactTime, the AtomicReference
  at,         \* [Thread -> {"idle", "read", "computed"}]
  prev,       \* [Thread -> ExactTime]: safeLast as the thread read it
  next,       \* [Thread -> ExactTime]: what it computed from prev
  drawn       \* the times returned, in the order they replaced safeLast

vars == <<safeLast, at, prev, next, drawn>>

-----------------------------------------------------------------------------
(* carry moves whole seconds out of nanos, from below zero too.              *)
CarryUp(e) ==
  IF e.nanos < 0 THEN e ELSE [epoch |-> e.epoch + e.nanos \div NanosPerSecond,
                              nanos |-> e.nanos % NanosPerSecond]
Carry(e) ==
  [epoch |-> e.epoch + e.nanos \div NanosPerSecond,
   nanos |-> e.nanos % NanosPerSecond]

Plus(a, b) == Carry([epoch |-> a.epoch + b.epoch, nanos |-> a.nanos + b.nanos])
Minus(a, b) == Carry([epoch |-> a.epoch - b.epoch, nanos |-> a.nanos - b.nanos])

(* compare, after carrying what is not normal.                               *)
Lexical(a, b) == a.epoch < b.epoch \/ (a.epoch = b.epoch /\ a.nanos < b.nanos)
Before(a, b) == Lexical(Carry(a), Carry(b))

(* The time a transaction of priority p is ordered by.                       *)
Effective(e, p) == Plus(e, [epoch |-> 0, nanos |-> p * NanosPerMilli])

-----------------------------------------------------------------------------
TimeTypeOK ==
  /\ safeLast \in ExactTime
  /\ at \in [Thread -> {"idle", "read", "computed"}]
  /\ prev \in [Thread -> ExactTime]
  /\ next \in [Thread -> ExactTime]
  /\ drawn \in Seq(ExactTime)

Init ==
  /\ safeLast \in Reading
  /\ at = [th \in Thread |-> "idle"]
  /\ prev = [th \in Thread |-> safeLast]
  /\ next = [th \in Thread |-> safeLast]
  /\ drawn = << >>

(* The function given to updateAndGet.                                       *)
NotBefore(last, time) ==
  IF Before(time, last) THEN [last EXCEPT !.nanos = @ + 1] ELSE time
Later(last, time) ==
  IF Before(last, time) THEN time ELSE [last EXCEPT !.nanos = @ + 1]

Get(th) ==
  /\ at[th] = "idle"
  /\ Len(drawn) < MaxDrawn
  /\ at' = [at EXCEPT ![th] = "read"]
  /\ prev' = [prev EXCEPT ![th] = safeLast]
  /\ UNCHANGED <<safeLast, next, drawn>>

Compute(th) ==
  /\ at[th] = "read"
  /\ \E time \in Reading : next' = [next EXCEPT ![th] = Later(prev[th], time)]
  /\ at' = [at EXCEPT ![th] = "computed"]
  /\ UNCHANGED <<safeLast, prev, drawn>>

(* compareAndSet; equal times are the same object, as times only grow.       *)
Untouched(th) == safeLast = prev[th]

Set(th) ==
  /\ at[th] = "computed"
  /\ Untouched(th)
  /\ safeLast' = next[th]
  /\ drawn' = Append(drawn, next[th])
  /\ at' = [at EXCEPT ![th] = "idle"]
  /\ UNCHANGED <<prev, next>>

Retry(th) ==
  /\ at[th] = "computed"
  /\ ~Untouched(th)
  /\ at' = [at EXCEPT ![th] = "idle"]
  /\ UNCHANGED <<safeLast, prev, next, drawn>>

Next == \E th \in Thread : Get(th) \/ Compute(th) \/ Set(th) \/ Retry(th)

Spec == Init /\ [][Next]_vars

(* carry as the code recurses (TxnTime.scala:40-44).                         *)
CarryAgain[e \in ExactTime] ==
  IF e.nanos < 0
  THEN CarryAgain[[epoch |-> e.epoch - 1, nanos |-> e.nanos + NanosPerSecond]]
  ELSE IF e.nanos >= NanosPerSecond
  THEN CarryAgain[[epoch |-> e.epoch + 1, nanos |-> e.nanos - NanosPerSecond]]
  ELSE e

-----------------------------------------------------------------------------
(* Every timestamp drawn is later than all drawn before it, through clocks   *)
(* that jump back, carries, and threads that race for safeLast               *)
(* (TxnTime.scala:77-86): a timestamp identifies its transaction.            *)
DrawnInOrder ==
  \A i, j \in DOMAIN drawn : i < j => Before(drawn[i], drawn[j])

(* The same priority keeps that order: the milliseconds it adds are carried  *)
(* as compare carries (TxnTime.scala:103-104).                               *)
PriorityKeepsOrder ==
  \A i, j \in DOMAIN drawn : i < j =>
    \A p \in Priority : Before(Effective(drawn[i], p), Effective(drawn[j], p))

(* What - and + say of two times is what compare says (TxnTime.scala:52-69). *)
Zero == [epoch |-> 0, nanos |-> 0]
DifferencesAgree ==
  \A i, j \in DOMAIN drawn :
    /\ Before(drawn[i], drawn[j]) <=> Before(Zero, Minus(drawn[j], drawn[i]))
    /\ Plus(Minus(drawn[j], drawn[i]), drawn[i]) = Carry(drawn[j])

(* carry ends in the normal form that Carry says.                            *)
CarryEnds ==
  \A i \in DOMAIN drawn, p \in Priority :
    LET e == [drawn[i] EXCEPT !.nanos = @ + p * NanosPerMilli]
    IN  CarryAgain[e] = Carry(e)

(* The readings of one clock agree in every way they are used: carry ends in *)
(* the normal form the other operations assume, sums and differences agree   *)
(* with compare, and a priority keeps the order (TxnTime.scala:40-69,        *)
(* 103-104).                                                                 *)
TimesAgree == CarryEnds /\ DifferencesAgree /\ PriorityKeepsOrder
=============================================================================
