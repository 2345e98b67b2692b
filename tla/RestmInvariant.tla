--------------------------- MODULE RestmInvariant ---------------------------
(* Why the reads of Restm are serializable: the inductive invariant, in the  *)
(* parts its proof treats one by one.                                        *)
EXTENDS Restm

Created(c, p) == initCache[c][p] # NoValue
Wrote(t, p) == writeCache[t][p] # NoValue

QueueCall(t, p) == [op |-> "queue", txn |-> t, ptr |-> p]
CommitCall(t, p) == [op |-> "commitValue", txn |-> t, ptr |-> p]
ResetCall(t, p) == [op |-> "resetValue", txn |-> t, ptr |-> p]

(* A pointer not created yet is named by nobody and by no call on its way,   *)
(* so that init is the first call its actor gets (RestmImpl.scala:43-50);    *)
(* one that was created has one creator.                                     *)
FreshUntouched ==
  \A p \in Ptr : Fresh(p) =>
    /\ lastRead[p] = NoTime
    /\ \A t \in Time :
         /\ readCache[t][p] = NoValue
         /\ lockCall[t][p] = "none"
         /\ p \notin txnLocks[t]
         /\ CommitCall(t, p) \notin net
         /\ ResetCall(t, p) \notin net

OneCreator ==
  \A p \in Ptr, c \in Time : Created(c, p) =>
    /\ p \notin Static
    /\ readCache[c][p] = NoValue
    /\ \A d \in Time : Created(d, p) => d = c

(* Calls to pointers and to the transaction's actor follow its decision, and *)
(* the decision to commit is only taken by its own client.                   *)
CallsFollowDecision ==
  \A t \in Time :
    /\ ToTxn("commitTxn", t) \in net => Committed(t)
    /\ Committed(t) => phase[t] \notin {"active", "queueing"}
    /\ \A p \in Ptr :
         /\ CommitCall(t, p) \in net => Committed(t)
         /\ ResetCall(t, p) \in net => txnState[t] = "RESET"
         /\ QueueCall(t, p) \in net => Wrote(t, p) /\ phase[t] # "active"

(* Until a transaction is decided it keeps the locks it was granted; its     *)
(* actor knows those that were registered.                                   *)
LocksKept ==
  \A t \in Time, p \in Ptr :
    /\ txnState[t] = "OPEN" /\ lockCall[t][p] \in {"granted", "held"} => writeLock[p] = t
    /\ txnState[t] = "OPEN" /\ lockCall[t][p] = "held" => p \in txnLocks[t]
    /\ Wrote(t, p) => lockCall[t][p] = "held"
    /\ Wrote(t, p) /\ txnState[t] # "RESET" => p \in txnLocks[t]

(* What is queued is what the lock's owner wrote, and no value comes after   *)
(* its commit.                                                               *)
QueuedByOwner ==
  \A p \in Ptr :
    /\ queuedValue[p] # NoValue =>
         /\ writeLock[p] # NoTime
         /\ queuedValue[p] = writeCache[writeLock[p]][p]
         /\ phase[writeLock[p]] # "active"
    /\ staleCommit[p] # NoTime =>
         /\ Committed(staleCommit[p])
         /\ ~Wrote(staleCommit[p], p)

(* A commit waits for its values.                                            *)
QueuedWhenAsked ==
  \A t \in Time, p \in Ptr :
    phase[t] = "queueing" /\ txnState[t] = "OPEN" /\ Wrote(t, p) /\ QueueCall(t, p) \notin net
      => queuedValue[p] = writeCache[t][p]

(* History has one record per writer, in time order.                         *)
OneRecordEach ==
  \A p \in Ptr : \A i, j \in DOMAIN history[p] :
    /\ i < j
    /\ history[p][i].time # NoTime
    /\ history[p][j].time # NoTime
    => history[p][i].time < history[p][j].time

(* A creation is on record until a committed write of its creator takes its  *)
(* place.                                                                    *)
CreationsKept ==
  \A p \in Ptr, c \in Time : Created(c, p) =>
    \E i \in DOMAIN history[p] :
      /\ history[p][i].time = c
      /\ \/ history[p][i].value = initCache[c][p]
         \/ Committed(c) /\ Wrote(c, p) /\ history[p][i].value = writeCache[c][p]

RecordsAuthored ==
  \A p \in Ptr : \A i \in DOMAIN history[p] :
    LET r == history[p][i] IN r.time # NoTime =>
      \/ Committed(r.time) /\ Wrote(r.time, p) /\ r.value = writeCache[r.time][p]
      \/ Created(r.time, p) /\ r.value = initCache[r.time][p]

(* Reads leave their mark, and reach a created pointer through its creator's *)
(* commit only.                                                              *)
ReadsMarked ==
  \A t \in Time, p \in Ptr : readCache[t][p] # NoValue =>
    /\ lastRead[p] >= t
    /\ p \in Static \/ \E c \in Time : Created(c, p) /\ Committed(c)

(* A decided write waits under its lock, and is on record once the lock is   *)
(* given up.                                                                 *)
CommitsKept ==
  \A t \in Time, p \in Ptr : Committed(t) /\ Wrote(t, p) =>
    IF writeLock[p] = t THEN queuedValue[p] = writeCache[t][p]
                        ELSE Installed(t, p)

(* All of it.  The last part is what the others are for; each of them is     *)
(* needed for the next step of some other.                                   *)
IInv ==
  /\ RestmTypeOK /\ LockAboveReads
  /\ FreshUntouched /\ OneCreator
  /\ CallsFollowDecision /\ LocksKept
  /\ QueuedByOwner /\ QueuedWhenAsked
  /\ OneRecordEach /\ CreationsKept /\ RecordsAuthored
  /\ ReadsMarked /\ CommitsKept
  /\ Serializable
=============================================================================
