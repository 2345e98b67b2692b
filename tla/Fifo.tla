-------------------------------- MODULE Fifo --------------------------------
(* What a list promises its users (collection/LinkedList.scala: add and      *)
(* remove): values come out once each, in the order they went in.            *)
EXTENDS Sequences

CONSTANT Value

VARIABLES
  items,   \* the values in the list, the oldest first
  out      \* the values removed so far

fifoVars == <<items, out>>

FifoInit == items = << >> /\ out = << >>

Enqueue(v) ==
  /\ items' = Append(items, v)
  /\ UNCHANGED out

Dequeue ==
  /\ items # << >>
  /\ items' = Tail(items)
  /\ out' = Append(out, Head(items))

FifoNext == Dequeue \/ \E v \in Value : Enqueue(v)

FifoSpec == FifoInit /\ [][FifoNext]_fifoVars
=============================================================================
