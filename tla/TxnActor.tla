------------------------------ MODULE TxnActor ------------------------------
(* The actor that decides one transaction (storage/actors/TxnActor.scala),   *)
(* for every transaction: its state and the pointers registered with it.     *)
EXTENDS RestmTypes

VARIABLES
  txnState,   \* [Time -> {"OPEN", "COMMIT", "RESET"}]
  txnLocks    \* [Time -> SUBSET Ptr]

txnVars == <<txnState, txnLocks>>

Decision == {"COMMIT", "RESET"}

TxnTypeOK ==
  /\ txnState \in [Time -> {"OPEN"} \cup Decision]
  /\ txnLocks \in [Time -> SUBSET Ptr]

TxnInit ==
  /\ txnState = [t \in Time |-> "OPEN"]
  /\ txnLocks = [t \in Time |-> {}]

(* addLock(p); the reply is txnState[t].                                     *)
AddLock(t, p) ==
  /\ txnLocks' = IF txnState[t] = "OPEN"
                   THEN [txnLocks EXCEPT ![t] = @ \cup {p}]
                   ELSE txnLocks
  /\ UNCHANGED txnState

(* setState(s) for a decision s; the reply is txnLocks[t].  It neither takes *)
(* a decision back nor minds being asked again.                              *)
SetStateAnyway(t, s) ==
  /\ txnState' = [txnState EXCEPT ![t] = s]
  /\ UNCHANGED txnLocks
SetStateOnce(t, s) ==
  /\ txnState[t] = "OPEN"
  /\ txnState' = [txnState EXCEPT ![t] = s]
  /\ UNCHANGED txnLocks
SetState(t, s) ==
  /\ txnState[t] \in {"OPEN", s}
  /\ txnState' = [txnState EXCEPT ![t] = s]
  /\ UNCHANGED txnLocks

(* require(state == "OPEN") fails: the other decision was taken.             *)
SetStateRefused(t, s) ==
  /\ txnState[t] \notin {"OPEN", s}
  /\ UNCHANGED txnVars
=============================================================================
