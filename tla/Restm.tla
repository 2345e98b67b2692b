-------------------------------- MODULE Restm --------------------------------
(* Transactions over the transactional memory: the client's transaction      *)
(* context (stm/STMTxnCtx.scala, run by stm/STMTxn.scala), the coordinator   *)
(* (storage/RestmImpl.scala) and the actors it calls.  A call whose future   *)
(* the code drops is a message of its own, delivered at any time, in any     *)
(* order, or lost.  Timeouts (5 s for a body, 7 s for the owner of a         *)
(* conflicting lock) may expire at any moment.                               *)
EXTENDS MemActor, TxnActor

CONSTANTS
  Static,       \* pointers with a well-known id; newPtr creates the others
  Stores(_, _)  \* Stores(t, p): what the body of t may store in p

ASSUME StoresAssumption ==
  /\ Static \subseteq Ptr
  /\ \A t \in Time, p \in Ptr : Stores(t, p) \subseteq Result

VARIABLES
  phase,       \* [Time -> Phase], the attempt with timestamp t
  readCache,   \* [Time -> [Ptr -> Result or NoValue]]
  initCache,   \* [Time -> [Ptr -> Value or NoValue]], the pointers t created
  writeCache,  \* [Time -> [Ptr -> Result or NoValue]], Null for a delete
  lockCall,    \* [Time -> [Ptr -> LockProgress]], STMTxnCtx.writeLocks
  net          \* calls whose answer nobody waits for, or is still awaited

clientVars == <<phase, readCache, initCache, writeCache, lockCall>>
vars == <<memVars, txnVars, clientVars, net>>

(* "active": the body runs; "queueing": commit() sends the values;           *)
(* "committed", "aborted": reported; "failed": to be reverted; "dead": the   *)
(* coordinator of t crashed, or the body was abandoned (testAbandoned).      *)
Phase == {"active", "queueing", "committed", "failed", "aborted", "dead"}

(* RestmImpl.lock: asked, granted by the pointer, registered (held); refused *)
(* or failed.                                                                *)
LockProgress == {"none", "asked", "granted", "held", "refused"}

PtrCall == [op : {"queue", "commitValue", "resetValue"}, txn : Time, ptr : Ptr]
TxnCall == [op : {"commitTxn", "resetTxn"}, txn : Time]

RestmTypeOK ==
  /\ MemTypeOK
  /\ TxnTypeOK
  /\ phase \in [Time -> Phase]
  /\ readCache \in [Time -> [Ptr -> Result \cup {NoValue}]]
  /\ initCache \in [Time -> [Ptr -> Value \cup {NoValue}]]
  /\ writeCache \in [Time -> [Ptr -> Result \cup {NoValue}]]
  /\ lockCall \in [Time -> [Ptr -> LockProgress]]
  /\ net \subseteq PtrCall \cup TxnCall

Init ==
  /\ MemInit
  /\ TxnInit
  /\ phase = [t \in Time |-> "active"]
  /\ readCache = [t \in Time |-> [p \in Ptr |-> NoValue]]
  /\ initCache = [t \in Time |-> [p \in Ptr |-> NoValue]]
  /\ writeCache = [t \in Time |-> [p \in Ptr |-> NoValue]]
  /\ lockCall = [t \in Time |-> [p \in Ptr |-> "none"]]
  /\ net = {}

-----------------------------------------------------------------------------
(* Helpers.                                                                  *)

ToPtrs(op, t, S) == {[op |-> op, txn |-> t, ptr |-> p] : p \in S}
ToTxn(op, t) == [op |-> op, txn |-> t]

(* A pointer's random id reaches other transactions only through values its  *)
(* creator committed.                                                        *)
Known(t, p) ==
  \/ p \in Static
  \/ \E c \in Time : initCache[c][p] # NoValue /\ (c = t \/ txnState[c] = "COMMIT")

Fresh(p) == p \notin Static /\ \A c \in Time : initCache[c][p] = NoValue

(* readOpt: what t sees in p, NoValue before it was read.                    *)
Seen(t, p) == IF writeCache[t][p] # NoValue THEN writeCache[t][p]
              ELSE IF initCache[t][p] # NoValue THEN initCache[t][p]
              ELSE readCache[t][p]

Written(t) == {p \in Ptr : writeCache[t][p] # NoValue}

(* RestmImpl.cleanup(w) once w is older than txnTimeout, nothing before:     *)
(* state of w first, then the call it chose, on its own.                     *)
AlwaysReset(w) == ToTxn("resetTxn", w)
CleanupCall(w) == ToTxn(IF txnState[w] = "COMMIT" THEN "commitTxn" ELSE "resetTxn", w)
MayCleanup(w) == \E sent \in {{}, {CleanupCall(w)}} : net' = net \cup sent

Fail(t) == phase' = [phase EXCEPT ![t] = IF @ = "active" THEN "failed" ELSE @]

-----------------------------------------------------------------------------
(* The body.                                                                 *)

NewPtr(t, p) ==
  /\ phase[t] = "active"
  /\ Fresh(p)
  /\ \E v \in Stores(t, p) \cap Value :
       /\ InitValue(p, t, v)
       /\ initCache' = [initCache EXCEPT ![t][p] = v]
  /\ UNCHANGED <<txnVars, phase, readCache, writeCache, lockCall, net>>

Read(t, p) ==
  /\ phase[t] = "active"
  /\ Known(t, p)
  /\ Seen(t, p) = NoValue
  /\ \E v \in Result :
       /\ GetValue(p, t, v)
       /\ readCache' = [readCache EXCEPT ![t][p] = v]
  /\ UNCHANGED <<txnVars, phase, initCache, writeCache, lockCall, net>>

ReadConflict(t, p) ==
  /\ phase[t] = "active"
  /\ Known(t, p)
  /\ Seen(t, p) = NoValue
  /\ \E w \in Time : GetValueConflict(p, t, w) /\ MayCleanup(w)
  /\ Fail(t)
  /\ UNCHANGED <<txnVars, readCache, initCache, writeCache, lockCall>>

(* write and delete read first, STMPtr.lock need not; once per pointer.      *)
AskLock(t, p) ==
  /\ phase[t] = "active"
  /\ Known(t, p)
  /\ lockCall[t][p] = "none"
  /\ lockCall' = [lockCall EXCEPT ![t][p] = "asked"]
  /\ UNCHANGED <<memVars, txnVars, phase, readCache, initCache, writeCache, net>>

(* RestmImpl.lock, first _lockValue ...                                      *)
LockValue(t, p) ==
  /\ lockCall[t][p] = "asked"
  /\ LockGranted(p, t)
  /\ lockCall' = [lockCall EXCEPT ![t][p] = "granted"]
  /\ UNCHANGED <<txnVars, phase, readCache, initCache, writeCache, net>>

(* A refused lock fails a write or a delete; STMPtr.lock only answers false, *)
(* and the body may go on without the pointer (a second write of it fails).  *)
LockConflict(t, p) ==
  /\ lockCall[t][p] = "asked"
  /\ \E w \in Time : LockRefused(p, t, w) /\ MayCleanup(w)
  /\ lockCall' = [lockCall EXCEPT ![t][p] = "refused"]
  /\ Fail(t) \/ UNCHANGED phase
  /\ UNCHANGED <<txnVars, readCache, initCache, writeCache>>

(* ... then _addLock.  The client gets the lock even if t was decided in     *)
(* between: the pointer is told later.                                       *)
RegisterLock(t, p) ==
  /\ lockCall[t][p] = "granted"
  /\ phase[t] # "dead"
  /\ AddLock(t, p)
  /\ lockCall' = [lockCall EXCEPT ![t][p] = "held"]
  /\ \/ txnState[t] = "OPEN" /\ UNCHANGED net
     \/ txnState[t] = "RESET" /\ net' = net \cup ToPtrs("resetValue", t, {p})
     \/ txnState[t] = "COMMIT" /\ net' = net \cup ToPtrs("commitValue", t, {p})
  /\ UNCHANGED <<memVars, phase, readCache, initCache, writeCache>>

(* The _addLock call fails: the client's future fails, the pointer stays     *)
(* locked.                                                                   *)
RegisterLost(t, p) ==
  /\ lockCall[t][p] = "granted"
  /\ phase[t] # "dead"
  /\ lockCall' = [lockCall EXCEPT ![t][p] = "refused"]
  /\ Fail(t)
  /\ UNCHANGED <<memVars, txnVars, readCache, initCache, writeCache, net>>

(* The write itself, or, with v = Null, the delete of something that exists; *)
(* "Post-commit write" otherwise.                                            *)
Put(t, p) ==
  /\ phase[t] = "active"
  /\ lockCall[t][p] = "held"
  /\ Seen(t, p) # NoValue
  /\ \E v \in Stores(t, p) \ {Seen(t, p)} :
       writeCache' = [writeCache EXCEPT ![t][p] = v]
  /\ UNCHANGED <<memVars, txnVars, phase, readCache, initCache, lockCall, net>>

-----------------------------------------------------------------------------
(* The end of a transaction.                                                 *)

(* The body threw, or ran for more than 5 seconds.                           *)
BodyFails(t) ==
  /\ phase[t] = "active"
  /\ Fail(t)
  /\ UNCHANGED <<memVars, txnVars, readCache, initCache, writeCache, lockCall, net>>

(* STMTxnCtx.commit: every value or delete is sent ...                       *)
Commit(t) ==
  /\ phase[t] = "active"
  /\ phase' = [phase EXCEPT ![t] = "queueing"]
  /\ net' = net \cup ToPtrs("queue", t, Written(t))
  /\ UNCHANGED <<memVars, txnVars, readCache, initCache, writeCache, lockCall>>

(* ... and once all were accepted, RestmImpl.commit.                         *)
WithoutWaiting(t) == phase[t] = "queueing"
AllQueued(t) ==
  /\ phase[t] = "queueing"
  /\ ToPtrs("queue", t, Ptr) \cap net = {}

CommitTxn(t) ==
  /\ AllQueued(t)
  /\ SetState(t, "COMMIT")
  /\ phase' = [phase EXCEPT ![t] = "committed"]
  /\ net' = net \cup ToPtrs("commitValue", t, txnLocks[t])
  /\ UNCHANGED <<memVars, readCache, initCache, writeCache, lockCall>>

(* The decision is taken but its answer is lost on the way back.             *)
CommitReplyLost(t) ==
  /\ AllQueued(t)
  /\ SetState(t, "COMMIT")
  /\ phase' = [phase EXCEPT ![t] = "failed"]
  /\ UNCHANGED <<memVars, readCache, initCache, writeCache, lockCall, net>>

CommitRefused(t) ==
  /\ AllQueued(t)
  /\ SetStateRefused(t, "COMMIT")
  /\ phase' = [phase EXCEPT ![t] = "failed"]
  /\ UNCHANGED <<memVars, readCache, initCache, writeCache, lockCall, net>>

(* STMTxnCtx.revert, RestmImpl.reset.                                        *)
Revert(t) ==
  /\ phase[t] = "failed"
  /\ \/ /\ SetState(t, "RESET")
        /\ net' = net \cup ToPtrs("resetValue", t, txnLocks[t])
     \/ /\ SetStateRefused(t, "RESET")
        /\ UNCHANGED net
  /\ phase' = [phase EXCEPT ![t] = "aborted"]
  /\ UNCHANGED <<memVars, readCache, initCache, writeCache, lockCall>>

(* The coordinator of t stops: nothing it would still have started happens.  *)
Crash(t) ==
  /\ phase[t] \in {"active", "queueing", "failed"}
  /\ phase' = [phase EXCEPT ![t] = "dead"]
  /\ UNCHANGED <<memVars, txnVars, readCache, initCache, writeCache, lockCall, net>>

-----------------------------------------------------------------------------
(* Messages.                                                                 *)

DeliverQueue(t, p) ==
  LET m == [op |-> "queue", txn |-> t, ptr |-> p] IN
  /\ m \in net
  /\ net' = net \ {m}
  /\ \/ QueueValue(p, t, writeCache[t][p]) /\ UNCHANGED phase
     \/ /\ QueueRefused(p, t)
        /\ phase' = [phase EXCEPT ![t] = IF @ = "queueing" THEN "failed" ELSE @]
  /\ UNCHANGED <<txnVars, readCache, initCache, writeCache, lockCall>>

DeliverCommitValue(t, p) ==
  LET m == [op |-> "commitValue", txn |-> t, ptr |-> p] IN
  /\ m \in net
  /\ net' = net \ {m}
  /\ WriteCommit(p, t) \/ LockMismatch(p, t)
  /\ UNCHANGED <<txnVars, clientVars>>

DeliverResetValue(t, p) ==
  LET m == [op |-> "resetValue", txn |-> t, ptr |-> p] IN
  /\ m \in net
  /\ net' = net \ {m}
  /\ WriteReset(p, t) \/ LockMismatch(p, t)
  /\ UNCHANGED <<txnVars, clientVars>>

(* The second half of a cleanup: commit(w) or reset(w) by a stranger.        *)
DeliverCommitTxn(w) ==
  LET m == ToTxn("commitTxn", w) IN
  /\ m \in net
  /\ \/ /\ SetState(w, "COMMIT")
        /\ net' = (net \ {m}) \cup ToPtrs("commitValue", w, txnLocks[w])
     \/ /\ SetStateRefused(w, "COMMIT")
        /\ net' = net \ {m}
  /\ UNCHANGED <<memVars, clientVars>>

DeliverResetTxn(w) ==
  LET m == ToTxn("resetTxn", w) IN
  /\ m \in net
  /\ \/ /\ SetState(w, "RESET")
        /\ net' = (net \ {m}) \cup ToPtrs("resetValue", w, txnLocks[w])
     \/ /\ SetStateRefused(w, "RESET")
        /\ net' = net \ {m}
  /\ UNCHANGED <<memVars, clientVars>>

(* A call is lost with the node that was to send or to answer it; only the   *)
(* client of a queued value notices.                                         *)
Lose(m) ==
  /\ m \in net
  /\ net' = net \ {m}
  /\ phase' = IF m.op = "queue" /\ phase[m.txn] = "queueing"
                THEN [phase EXCEPT ![m.txn] = "failed"]
                ELSE phase
  /\ UNCHANGED <<memVars, txnVars, readCache, initCache, writeCache, lockCall>>

(* A transaction newer than all of Time runs into the lock of p: it leaves   *)
(* no mark, it only cleans up.                                               *)
Probe(p) ==
  /\ writeLock[p] # NoTime
  /\ net' = net \cup {CleanupCall(writeLock[p])}
  /\ UNCHANGED <<memVars, txnVars, clientVars>>

-----------------------------------------------------------------------------
Body(t) ==
  \/ \E p \in Ptr :
       \/ NewPtr(t, p)
       \/ Read(t, p)
       \/ ReadConflict(t, p)
       \/ AskLock(t, p)
       \/ Put(t, p)
  \/ BodyFails(t)
  \/ Commit(t)

Coordinator(t) ==
  \/ \E p \in Ptr :
       \/ LockValue(t, p)
       \/ LockConflict(t, p)
       \/ RegisterLock(t, p)
  \/ CommitTxn(t)
  \/ CommitRefused(t)
  \/ Revert(t)

Delivery ==
  \E t \in Time :
    \/ \E p \in Ptr :
         \/ DeliverQueue(t, p)
         \/ DeliverCommitValue(t, p)
         \/ DeliverResetValue(t, p)
    \/ DeliverCommitTxn(t)
    \/ DeliverResetTxn(t)

Fault ==
  \/ \E t \in Time :
       \/ CommitReplyLost(t)
       \/ Crash(t)
       \/ \E p \in Ptr : RegisterLost(t, p)
  \/ \E m \in net : Lose(m)

Work ==
  \/ \E t \in Time : Body(t) \/ Coordinator(t)
  \/ Delivery

(* What comes from outside the transactions of Time and their calls.         *)
Disturbance ==
  \/ Fault
  \/ \E p \in Ptr : Probe(p)

Next == Work \/ Disturbance

Spec == Init /\ [][Next]_vars

-----------------------------------------------------------------------------
(* Safety.                                                                   *)

Committed(t) == txnState[t] = "COMMIT"

(* What t leaves in p if it commits: its last write, else what it created.   *)
Effect(t, p) == IF writeCache[t][p] # NoValue THEN writeCache[t][p]
                                              ELSE initCache[t][p]

(* "Perfect isolation" (README.md:13): the store as its clients see it.      *)
Store == INSTANCE SerialStore
  WITH reads <- readCache,
       effects <- [t \in Time |-> [p \in Ptr |-> Effect(t, p)]],
       committed <- {t \in Time : Committed(t)}

(* The code implements that store: the one instant a transaction takes       *)
(* effect is TxnActor.setState, though values are installed long after it,   *)
(* by whoever happens to, and each pointer knows only its own reads and lock *)
(* (MemActor.scala:105,162,166).                                             *)
ImplementsSerialStore == Store!StoreSpec

(* Every read of every transaction, also of one that will not commit, stays  *)
(* what a serial execution in timestamp order reads.                         *)
Serializable == Store!SerialReads

(* Once decided, a write is in its pointer's history or still waits there    *)
(* under the lock, registered with its transaction so that anybody's cleanup *)
(* finds it: the commit that RestmImpl.commit (71-74) reports is not undone  *)
(* by lost calls, late resets or other transactions.                         *)
Installed(t, p) ==
  \E i \in DOMAIN history[p] :
    history[p][i] = [time |-> t, value |-> writeCache[t][p]]

CommittedWritesSafe ==
  \A t \in Time, p \in Ptr : Committed(t) /\ writeCache[t][p] # NoValue =>
    \/ Installed(t, p)
    \/ /\ writeLock[p] = t
       /\ queuedValue[p] = writeCache[t][p]
       /\ p \in txnLocks[t]

(* No pointer ever holds a record of a transaction that did not commit,      *)
(* but for the value a pointer was created with, whose id nobody else has.   *)
NothingUncommitted ==
  \A p \in Ptr : \A i \in DOMAIN history[p] :
    LET r == history[p][i] IN r.time # NoTime =>
      \/ Committed(r.time) /\ r.value = writeCache[r.time][p]
      \/ r.value = initCache[r.time][p]

-----------------------------------------------------------------------------
(* Liveness.  Bodies, crashes and losses owe nothing; thread pools drain the *)
(* queues of the coordinator and of every actor; and somebody goes on using  *)
(* a pointer that is locked, which is what recovery depends on.              *)
Fairness ==
  /\ \A t \in Time :
       /\ WF_vars(Coordinator(t))
       /\ WF_vars(DeliverCommitTxn(t) \/ DeliverResetTxn(t))
       /\ \A p \in Ptr :
            WF_vars(DeliverQueue(t, p) \/ DeliverCommitValue(t, p) \/ DeliverResetValue(t, p))
  /\ \A p \in Ptr : WF_vars(Probe(p))

(* A decided write reaches its pointer although the coordinator drops the    *)
(* futures of commitValue (RestmImpl.scala:72) and may die before any of     *)
(* them: whoever meets the lock re-sends them.                               *)
CommitsGetInstalled ==
  \A t \in Time, p \in Ptr :
    (Committed(t) /\ writeCache[t][p] # NoValue) ~> Installed(t, p)

(* A lock its transaction knows of is released, whatever became of the       *)
(* transaction and its coordinator (RestmImpl.scala:58-74, 101).             *)
RegisteredLocksReleased ==
  \A t \in Time, p \in Ptr :
    (writeLock[p] = t /\ p \in txnLocks[t]) ~> (writeLock[p] # t)

(* "recover orphaned trasactions" (StmRecoverySpecBase.scala:63): whatever a *)
(* transaction that never ends has locked becomes free again.                *)
OrphanedLocksReleased ==
  \A t \in Time, p \in Ptr : (writeLock[p] = t) ~> (writeLock[p] # t)
=============================================================================
