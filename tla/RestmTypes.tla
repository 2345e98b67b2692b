----------------------------- MODULE RestmTypes -----------------------------
(* The three types every layer of the transactional memory shares            *)
(* (storage/Restm.scala): pointers, timestamps and values.  A timestamp is   *)
(* also the identity of the transaction that drew it (TxnTime.next), so      *)
(* "transaction t" and "time t" are the same thing below.                    *)
EXTENDS Integers, Sequences

CONSTANTS
  Ptr,      \* pointer ids
  Time,     \* transaction timestamps, ordered as TxnTime orders them
  Value,    \* stored values
  Null,     \* the null a delete stores; also what a read of nothing returns
  NoValue   \* an empty Option[ValueType]: nothing queued, nothing cached

(* Timestamps are positive so that 0 can stand for an empty Option.          *)
ASSUME TypesAssumption ==
  /\ Time \subseteq Nat \ {0}
  /\ Null \notin Value
  /\ NoValue \notin Value
  /\ NoValue # Null

(* An empty Option[TimeStamp].                                               *)
NoTime == 0

(* What a read can return.                                                   *)
Result == Value \cup {Null}
=============================================================================
