------------------------------ MODULE Replicator ------------------------------
(* One pointer replicated over several nodes                                 *)
(* (storage/remote/RestmInternalReplicator.scala).  Every node has its own   *)
(* pointer actor and its own actor of every transaction; the replicator      *)
(* sends each call to all of them and reduces their replies.  Above it run   *)
(* RestmImpl and STMTxnCtx, with one write per transaction and with the      *)
(* cleanups of transactions that others take for dead.                       *)
EXTENDS MemActor, FiniteSets

Replica == Ptr   \* MemActor's pointers: the copies of the one pointer

CONSTANTS
  Write,      \* [Time -> Result]: what each transaction writes; Null: a delete
  Reader,     \* the transactions that read first
  Writer,     \* the transactions that write
  Orphan,     \* those that may last longer than txnTimeout
  MaxFaults,  \* bound on calls and replies that get lost
  Fragile     \* the kinds of call that get lost

(* Replicas are numbered in the order of inner().                            *)
ASSUME ReplicatorAssumption ==
  /\ Replica \subseteq Nat /\ Replica # {} /\ IsFiniteSet(Replica)
  /\ Write \in [Time -> Result] /\ "waiting" \notin Result /\ "failed" \notin Result
  /\ Reader \subseteq Time /\ Writer \subseteq Time /\ Orphan \subseteq Time
  /\ MaxFaults \in Nat
  /\ Fragile \subseteq {"read", "lock", "addLock", "queue", "commitTxn", "resetTxn",
                      "txnState", "commitValue", "resetValue"}

VARIABLES
  txnState,   \* [Replica -> [Time -> {"OPEN", "COMMIT", "RESET"}]]
  txnLocks,   \* [Replica -> SUBSET Time]: who registered the pointer
  owner,      \* [Time -> Step]: the call its transaction waits for
  cleaner,    \* [Time -> Step]: the call a cleanup of it waits for
  late,       \* calls nobody waits for, still to be delivered
  seen,       \* [Time -> Result or NoValue]: what a read was answered
  faults      \* how many calls were lost

deciders == <<txnState, txnLocks>>
clients == <<owner, cleaner, late, seen>>
vars == <<memVars, deciders, clients, faults>>

TxnState == {"OPEN", "COMMIT", "RESET"}
Reply == TxnState \cup Result \cup {"yes", "no", "failed", "waiting"}
Kind == {"read", "lock", "addLock", "queue", "commitTxn", "resetTxn", "txnState"}
Idle == {"idle", "read done", "gone"}
Step == [kind : Kind \cup Idle, reply : [Replica -> Reply]]
Late == [kind : Kind \cup {"commitValue", "resetValue"}, txn : Time, to : Replica]

Ask(k) == [kind |-> k, reply |-> [r \in Replica |-> "waiting"]]
ToAll(k, t) == [kind : {k}, txn : {t}, to : Replica]

ReplicatorTypeOK ==
  /\ MemTypeOK
  /\ txnState \in [Replica -> [Time -> TxnState]]
  /\ txnLocks \in [Replica -> SUBSET Time]
  /\ owner \in [Time -> Step] /\ cleaner \in [Time -> Step]
  /\ late \subseteq Late
  /\ seen \in [Time -> Result \cup {NoValue}]
  /\ faults \in 0..MaxFaults

Init ==
  /\ MemInit
  /\ txnState = [r \in Replica |-> [t \in Time |-> "OPEN"]]
  /\ txnLocks = [r \in Replica |-> {}]
  /\ owner = [t \in Time |-> Ask("idle")] /\ cleaner = [t \in Time |-> Ask("idle")]
  /\ late = {}
  /\ seen = [t \in Time |-> NoValue]
  /\ faults = 0

-----------------------------------------------------------------------------
(* A call of transaction t handled by replica r, and its reply a.            *)

SetStateOnce(r, t, s, a) ==
  /\ txnState[r][t] = "OPEN"
  /\ txnState' = [txnState EXCEPT ![r][t] = s]
  /\ a = IF t \in txnLocks[r] THEN "yes" ELSE "no"
  /\ UNCHANGED <<memVars, txnLocks>>
SetState(r, t, s, a) ==
  \/ /\ txnState[r][t] \in {"OPEN", s}
     /\ txnState' = [txnState EXCEPT ![r][t] = s]
     /\ a = IF t \in txnLocks[r] THEN "yes" ELSE "no"
     /\ UNCHANGED <<memVars, txnLocks>>
  \/ /\ txnState[r][t] \notin {"OPEN", s}
     /\ a = "failed"
     /\ UNCHANGED <<memVars, deciders>>

AddLock(r, t, a) ==
  /\ txnLocks' = IF txnState[r][t] = "OPEN" THEN [txnLocks EXCEPT ![r] = @ \cup {t}]
                                            ELSE txnLocks
  /\ a = txnState[r][t]
  /\ UNCHANGED <<memVars, txnState>>

AtActor(k, r, t, a) ==
  /\ \/ k = "read" /\ a \in Result /\ GetValue(r, t, a)
     \/ k = "read" /\ a = "failed" /\ \E w \in Time : GetValueConflict(r, t, w)
     \/ k = "lock" /\ a = "yes" /\ (LockGranted(r, t) \/ LockRedundant(r, t))
     \/ k = "lock" /\ a = "no" /\ \E w \in Time : LockRefused(r, t, w)
     \/ k = "queue" /\ a = "yes" /\ QueueValue(r, t, Write[t])
     \/ k = "queue" /\ a = "failed" /\ QueueRefused(r, t)
     \/ k = "commitValue" /\ a = "yes" /\ WriteCommit(r, t)
     \/ k = "resetValue" /\ a = "yes" /\ WriteReset(r, t)
     \/ k \in {"commitValue", "resetValue"} /\ a = "failed" /\ LockMismatch(r, t)
  /\ UNCHANGED deciders

Handle(k, r, t, a) ==
  \/ AtActor(k, r, t, a)
  \/ k = "addLock" /\ AddLock(r, t, a)
  \/ k = "commitTxn" /\ SetState(r, t, "COMMIT", a)
  \/ k = "resetTxn" /\ SetState(r, t, "RESET", a)
  \/ k = "txnState" /\ a = txnState[r][t] /\ UNCHANGED <<memVars, deciders>>

Waiting(step) == {r \in Replica : step.kind \in Kind /\ step.reply[r] = "waiting"}

DeliverToOwner(t, r) ==
  /\ r \in Waiting(owner[t])
  /\ \E a \in Reply :
       /\ Handle(owner[t].kind, r, t, a)
       /\ owner' = [owner EXCEPT ![t].reply[r] = a]
  /\ UNCHANGED <<cleaner, late, seen, faults>>

DeliverToCleaner(t, r) ==
  /\ r \in Waiting(cleaner[t])
  /\ \E a \in Reply :
       /\ Handle(cleaner[t].kind, r, t, a)
       /\ cleaner' = [cleaner EXCEPT ![t].reply[r] = a]
  /\ UNCHANGED <<owner, late, seen, faults>>

DeliverLate(c) ==
  /\ c \in late
  /\ \E a \in Reply : Handle(c.kind, c.to, c.txn, a)
  /\ late' = late \ {c}
  /\ UNCHANGED <<owner, cleaner, seen, faults>>

(* A call that fails on its way is late if it still arrives, or lost.        *)
Fault ==
  /\ faults < MaxFaults
  /\ faults' = faults + 1
  /\ \/ \E t \in Time : \E r \in Waiting(owner[t]) :
          /\ owner[t].kind \in Fragile
          /\ owner' = [owner EXCEPT ![t].reply[r] = "failed"]
          /\ late' \in {late, late \cup {[kind |-> owner[t].kind, txn |-> t, to |-> r]}}
          /\ UNCHANGED cleaner
     \/ \E t \in Time : \E r \in Waiting(cleaner[t]) :
          /\ cleaner[t].kind \in Fragile
          /\ cleaner' = [cleaner EXCEPT ![t].reply[r] = "failed"]
          /\ late' \in {late, late \cup {[kind |-> cleaner[t].kind, txn |-> t, to |-> r]}}
          /\ UNCHANGED owner
     \/ \E c \in late : c.kind \in Fragile /\ late' = late \ {c} /\ UNCHANGED <<owner, cleaner>>
  /\ UNCHANGED <<memVars, deciders, seen>>

-----------------------------------------------------------------------------
(* The reductions of the replies.                                            *)

Some(step, S) == \E r \in Replica : step.reply[r] \in S
Every(step, S) == \A r \in Replica : step.reply[r] \in S

(* Future.sequence fails as soon as one of its futures does; the calls it    *)
(* leaves behind are late.                                                   *)
Fails(step) == Some(step, {"failed"})
Rest(t, step) == {[kind |-> step.kind, txn |-> t, to |-> r] : r \in Waiting(step)}

(* The first answer that is not OPEN, in the order of the replicas.          *)
StateOf(step) ==
  LET closed == {r \in Replica : step.reply[r] # "OPEN"}
  IN  IF closed = {} THEN "OPEN"
      ELSE step.reply[CHOOSE r \in closed : \A q \in closed : r <= q]

Granted(step) == Every(step, {"yes"})

-----------------------------------------------------------------------------
(* The owner of t: STMTxnCtx over RestmImpl.                                 *)

Goes(t, from, k, calls) ==
  /\ owner[t].kind = from
  /\ owner' = [owner EXCEPT ![t] = Ask(k)]
  /\ late' = late \cup Rest(t, owner[t]) \cup calls
  /\ UNCHANGED <<memVars, deciders, cleaner, faults>>

StartRead(t) == t \in Reader /\ Goes(t, "idle", "read", {}) /\ UNCHANGED seen

(* Future.find: the first value defined, or None once all have ended.        *)
ReadValue(t) ==
  /\ \E r \in Replica :
       /\ owner[t].reply[r] \in Value
       /\ seen' = [seen EXCEPT ![t] = owner[t].reply[r]]
  /\ Goes(t, "read", "read done", {})

ReadNone(t) ==
  /\ Every(owner[t], {Null, "failed"})
  /\ seen' = [seen EXCEPT ![t] = Null]
  /\ Goes(t, "read", "read done", {})

StartLock(t) ==
  /\ t \in Writer
  /\ UNCHANGED seen
  /\ Goes(t, IF t \in Reader THEN "read done" ELSE "idle", "lock", {})

(* Granted by all: register.  Refused by one: reset at all, then give up.    *)
LockAnswered(t) ==
  /\ Every(owner[t], {"yes", "no"})
  /\ UNCHANGED seen
  /\ IF Granted(owner[t])
       THEN Goes(t, "lock", "addLock", {})
       ELSE Goes(t, "lock", "resetTxn", ToAll("resetValue", t))

Registered(t) ==
  /\ Every(owner[t], TxnState)
  /\ UNCHANGED seen
  /\ Goes(t, "addLock", "queue",
          CASE StateOf(owner[t]) = "OPEN" -> {}
            [] StateOf(owner[t]) = "RESET" -> ToAll("resetValue", t)
            [] StateOf(owner[t]) = "COMMIT" -> ToAll("commitValue", t))

Accepted(step) == Every(step, {"yes"})
AllQueued(t) ==
  /\ Accepted(owner[t])
  /\ UNCHANGED seen
  /\ Goes(t, "queue", "commitTxn", {})

(* The values follow the decision of the replicas that all took it.          *)
Values(step, k, t) == IF Some(step, {"yes"}) THEN ToAll(k, t) ELSE {}

AsSoonAsOne(step) == Some(step, {"yes", "no"})
Taken(step) == Every(step, {"yes", "no"})

Committed(t) ==
  /\ Taken(owner[t])
  /\ UNCHANGED seen
  /\ Goes(t, "commitTxn", "gone", Values(owner[t], "commitValue", t))

Reverted(t) ==
  /\ Taken(owner[t])
  /\ UNCHANGED seen
  /\ Goes(t, "resetTxn", "gone", Values(owner[t], "resetValue", t))

(* Any failure ends the transaction, and it reverts.                         *)
Revert(t) ==
  /\ Fails(owner[t])
  /\ UNCHANGED seen
  /\ \/ \E k \in {"lock", "addLock", "queue", "commitTxn"} : Goes(t, k, "resetTxn", {})
     \/ Goes(t, "resetTxn", "gone", {})

Own(t) ==
  \/ StartRead(t) \/ ReadValue(t) \/ ReadNone(t)
  \/ StartLock(t) \/ LockAnswered(t) \/ Registered(t)
  \/ AllQueued(t) \/ Committed(t) \/ Reverted(t) \/ Revert(t)

-----------------------------------------------------------------------------
(* A cleanup of t by whoever meets its lock.                                 *)

Cleans(t, from, k, calls) ==
  /\ cleaner[t].kind = from
  /\ cleaner' = [cleaner EXCEPT ![t] = Ask(k)]
  /\ late' = late \cup Rest(t, cleaner[t]) \cup calls
  /\ UNCHANGED <<memVars, deciders, owner, seen, faults>>

Conflict(t) ==
  /\ t \in Orphan
  /\ \E r \in Replica : writeLock[r] = t
  /\ Cleans(t, "idle", "txnState", {})

Cleanup(t) ==
  /\ Every(cleaner[t], TxnState)
  /\ Cleans(t, "txnState", IF StateOf(cleaner[t]) = "COMMIT" THEN "commitTxn" ELSE "resetTxn", {})

Cleaned(t) ==
  /\ Taken(cleaner[t])
  /\ \/ Cleans(t, "commitTxn", "idle", Values(cleaner[t], "commitValue", t))
     \/ Cleans(t, "resetTxn", "idle", Values(cleaner[t], "resetValue", t))

CleanupFails(t) ==
  /\ Fails(cleaner[t])
  /\ \E k \in {"txnState", "commitTxn", "resetTxn"} : Cleans(t, k, "idle", {})

Clean(t) == Conflict(t) \/ Cleanup(t) \/ Cleaned(t) \/ CleanupFails(t)

-----------------------------------------------------------------------------
Deliver ==
  \/ \E t \in Time, r \in Replica : DeliverToOwner(t, r) \/ DeliverToCleaner(t, r)
  \/ \E c \in late : DeliverLate(c)

Next == Deliver \/ Fault \/ \E t \in Time : Own(t) \/ Clean(t)

Spec == Init /\ [][Next]_vars

(* Calls arrive unless they are lost, and an orphan is met until it is       *)
(* cleaned up; owners may stop at any point, or go on (LiveSpec).            *)
Fairness ==
  /\ \A r \in Replica : WF_vars(\E c \in late : c.to = r /\ DeliverLate(c))
  /\ \A t \in Time : WF_vars(Clean(t) \/ \E r \in Replica : DeliverToCleaner(t, r))

FairSpec == Spec /\ Fairness

LiveSpec ==
  /\ FairSpec
  /\ \A t \in Time : WF_vars(Own(t) \/ \E r \in Replica : DeliverToOwner(t, r))

-----------------------------------------------------------------------------
HasRecord(r, t) == \E i \in DOMAIN history[r] : history[r][i].time = t
Holds(r, t) == \E i \in DOMAIN history[r] : history[r][i] = [time |-> t, value |-> Write[t]]
Recorded == {t \in Time : \E r \in Replica : HasRecord(r, t)}

(* No replica alone has a write: where it is not on record yet, its lock is  *)
(* held and its value queued, whatever was lost or cleaned up in between     *)
(* (RestmInternalReplicator.scala:32-42,63-77).                              *)
ReplicasAgree ==
  \A t \in Recorded, r \in Replica :
    Holds(r, t) \/ (writeLock[r] = t /\ queuedValue[r] = Write[t])

(* A value read is that of the newest write before the reader, although one  *)
(* replica's word is taken for it (Future.find,                              *)
(* RestmInternalReplicator.scala:56-57).                                     *)
Newest(t, u) == u \in Recorded /\ u < t /\ \A w \in Recorded : w < t => w <= u
ValuesSerial ==
  \A t \in Time : seen[t] \in Value => \E u \in Time : Newest(t, u) /\ seen[t] = Write[u]

(* The same of a read of nothing: perfect isolation (README.md:13).          *)
NothingSerial ==
  \A t \in Time : seen[t] = Null =>
    (\A u \in Time : Newest(t, u) => Write[u] = Null)


(* A lock is not held for good while others keep cleaning up                 *)
(* (StmRecoverySpecBase.scala:63).                                           *)
LocksReleased == \A t \in Time, r \in Replica : writeLock[r] = t ~> writeLock[r] # t
=============================================================================
