---------------------------- MODULE Restm_proofs ----------------------------
(* What holds of every run of the transactional memory, for any number of    *)
(* transactions, pointers and values: what one step can do to each part of   *)
(* its state, where its actions are gone through one by one; each part of    *)
(* the inductive invariant; the theorems it gives; and the refinement of the *)
(* serial store.                                                             *)
EXTENDS RestmInvariant, MemActor_proofs

-----------------------------------------------------------------------------
(* The calls in net.                                                         *)

(* Calls to pointers are told apart by what they are, whose they are and     *)
(* where they go.                                                            *)
LEMMA Calls ==
  ASSUME NEW t \in Time, NEW p \in Ptr, NEW u \in Time, NEW q \in Ptr
  PROVE  /\ QueueCall(t, p) = QueueCall(u, q) <=> t = u /\ p = q
         /\ CommitCall(t, p) = CommitCall(u, q) <=> t = u /\ p = q
         /\ ResetCall(t, p) = ResetCall(u, q) <=> t = u /\ p = q
         /\ QueueCall(t, p) \notin {CommitCall(u, q), ResetCall(u, q)}
         /\ CommitCall(t, p) # ResetCall(u, q)
  BY DEF QueueCall, CommitCall, ResetCall

(* So are calls to transactions, from each other and from calls to pointers. *)
LEMMA TxnCalls ==
  ASSUME NEW t \in Time, NEW u \in Time, NEW q \in Ptr,
         NEW op \in {"commitTxn", "resetTxn"}
  PROVE  /\ ToTxn(op, t) \notin {QueueCall(u, q), CommitCall(u, q), ResetCall(u, q)}
         /\ ToTxn("commitTxn", t) = ToTxn(op, u) <=> op = "commitTxn" /\ t = u
<1>1. DOMAIN ToTxn(op, t) = {"op", "txn"}
  BY DEF ToTxn
<1>2. /\ DOMAIN QueueCall(u, q) = {"op", "txn", "ptr"}
      /\ DOMAIN CommitCall(u, q) = {"op", "txn", "ptr"}
      /\ DOMAIN ResetCall(u, q) = {"op", "txn", "ptr"}
  BY DEF QueueCall, CommitCall, ResetCall
<1>3. ToTxn(op, t) \notin {QueueCall(u, q), CommitCall(u, q), ResetCall(u, q)}
  BY <1>1, <1>2
<1>4. ToTxn("commitTxn", t) = ToTxn(op, u) <=> op = "commitTxn" /\ t = u
  BY DEF ToTxn
<1>5. QED
  BY <1>3, <1>4

(* The sets of calls a commit or a reset sends.                              *)
LEMMA Sent ==
  ASSUME NEW t \in Time, NEW S \in SUBSET Ptr
  PROVE  /\ ToPtrs("queue", t, S) = {QueueCall(t, q) : q \in S}
         /\ ToPtrs("commitValue", t, S) = {CommitCall(t, q) : q \in S}
         /\ ToPtrs("resetValue", t, S) = {ResetCall(t, q) : q \in S}
  BY DEF ToPtrs, QueueCall, CommitCall, ResetCall

(* Calls have the types of calls.                                            *)
LEMMA CallTypes ==
  ASSUME NEW t \in Time
  PROVE  /\ \A p \in Ptr : {QueueCall(t, p), CommitCall(t, p), ResetCall(t, p)} \subseteq PtrCall
         /\ {ToTxn("commitTxn", t), ToTxn("resetTxn", t)} \subseteq TxnCall
         /\ CleanupCall(t) \in {ToTxn("commitTxn", t), ToTxn("resetTxn", t)}
         /\ CleanupCall(t) = ToTxn("commitTxn", t) => Committed(t)
  BY DEF ToTxn, CleanupCall, PtrCall, TxnCall, QueueCall, CommitCall, ResetCall, Committed

-----------------------------------------------------------------------------
(* What a step can do to the clients.                                        *)

(* The markers differ from times and from values.                            *)
LEMMA Constants ==
  /\ NoTime \notin Time /\ NoTime = 0
  /\ Time \subseteq Nat
  /\ NoValue \notin Result
  /\ \A t \in Time, p \in Ptr : Stores(t, p) \subseteq Result
  BY TypesAssumption, StoresAssumption DEF NoTime, Result

(* Times, and the missing one, are natural numbers.                          *)
LEMMA TimesNatural ==
  ASSUME RestmTypeOK, NEW p \in Ptr
  PROVE  lastRead[p] \in Nat /\ writeLock[p] \in Nat /\ staleCommit[p] \in Nat
<1>1. lastRead[p] \in OptTime /\ writeLock[p] \in OptTime /\ staleCommit[p] \in OptTime
  BY DEF RestmTypeOK, MemTypeOK
<1>2. OptTime \subseteq Nat
  BY TypesAssumption DEF OptTime, NoTime
<1>3. QED
  BY <1>1, <1>2

(* Phases only move on, and only Commit starts the queueing.                 *)
LEMMA PhaseStep ==
  ASSUME RestmTypeOK, Next, NEW t \in Time
  PROVE  /\ phase'[t] = "active" => phase[t] = "active"
         /\ phase'[t] = "queueing" => phase[t] = "queueing" \/ Commit(t)
<1> USE DEF RestmTypeOK, Phase, Fail
<1>1. CASE \E u \in Time : Body(u)
  BY <1>1 DEF Body, NewPtr, Read, ReadConflict, AskLock, Put, BodyFails, Commit
<1>2. CASE \E u \in Time : Coordinator(u)
  BY <1>2 DEF Coordinator, LockValue, LockConflict, RegisterLock, CommitTxn, CommitRefused,
              Revert
<1>3. CASE Delivery
  BY <1>3 DEF Delivery, DeliverQueue, DeliverCommitValue, DeliverResetValue,
              DeliverCommitTxn, DeliverResetTxn, clientVars
<1>4. CASE Disturbance
  BY <1>4 DEF Disturbance, Fault, CommitReplyLost, Crash, RegisterLost, Lose, Probe, clientVars
<1>5. QED
  BY <1>1, <1>2, <1>3, <1>4 DEF Next, Work

(* Each cache entry changes by one action only, and writes are never undone. *)
LEMMA CacheStep ==
  ASSUME RestmTypeOK, Next, NEW t \in Time, NEW p \in Ptr
  PROVE  /\ readCache'[t][p] = readCache[t][p] \/ Read(t, p)
         /\ initCache'[t][p] = initCache[t][p] \/ NewPtr(t, p)
         /\ writeCache'[t][p] = writeCache[t][p] \/ Put(t, p)
         /\ Wrote(t, p) => Wrote(t, p)'
<1> USE Constants DEF RestmTypeOK, Wrote
<1>1. ASSUME NEW u \in Time, NEW q \in Ptr, NewPtr(u, q)
      PROVE  /\ initCache'[t][p] = initCache[t][p] \/ NewPtr(t, p)
             /\ UNCHANGED <<readCache, writeCache>>
  <2>1. PICK v \in Value : initCache' = [initCache EXCEPT ![u][q] = v]
    BY <1>1 DEF NewPtr
  <2>2. UNCHANGED <<readCache, writeCache>>
    BY <1>1 DEF NewPtr
  <2>3. u # t \/ q # p => initCache'[t][p] = initCache[t][p]
    BY <2>1
  <2>4. QED
    BY <1>1, <2>1, <2>2, <2>3
<1>2. ASSUME NEW u \in Time, NEW q \in Ptr, Read(u, q)
      PROVE  /\ readCache'[t][p] = readCache[t][p] \/ Read(t, p)
             /\ UNCHANGED <<initCache, writeCache>>
  <2>1. PICK v \in Result : readCache' = [readCache EXCEPT ![u][q] = v]
    BY <1>2 DEF Read
  <2>2. UNCHANGED <<initCache, writeCache>>
    BY <1>2 DEF Read
  <2>3. u # t \/ q # p => readCache'[t][p] = readCache[t][p]
    BY <2>1
  <2>4. QED
    BY <1>2, <2>1, <2>2, <2>3
<1>3. ASSUME NEW u \in Time, NEW q \in Ptr, Put(u, q)
      PROVE  /\ writeCache'[t][p] = writeCache[t][p] \/ Put(t, p)
             /\ Wrote(t, p) => Wrote(t, p)'
             /\ UNCHANGED <<readCache, initCache>>
  <2>1. PICK v \in Stores(u, q) : writeCache' = [writeCache EXCEPT ![u][q] = v]
    BY <1>3 DEF Put
  <2>2. v \in Result
    BY <2>1
  <2>3. UNCHANGED <<readCache, initCache>>
    BY <1>3 DEF Put
  <2>4. QED
    BY <1>3, <2>1, <2>2, <2>3
<1>4. CASE UNCHANGED <<readCache, initCache, writeCache>>
  BY <1>4
<1>5. QED
  BY <1>1, <1>2, <1>3, <1>4
  DEF Next, Work, Disturbance, Fault, Body, Coordinator, Delivery, ReadConflict, AskLock,
      LockValue, LockConflict, RegisterLock, RegisterLost, BodyFails, Commit, CommitTxn,
      CommitReplyLost, CommitRefused, Revert, Crash, DeliverQueue, DeliverCommitValue,
      DeliverResetValue, DeliverCommitTxn, DeliverResetTxn, Lose, Probe, clientVars

(* A lock call moves on from asked only when answered, from held never.      *)
LEMMA LockCallStep ==
  ASSUME RestmTypeOK, Next, NEW t \in Time, NEW p \in Ptr
  PROVE  \/ lockCall'[t][p] = lockCall[t][p]
         \/ AskLock(t, p) /\ lockCall'[t][p] = "asked"
         \/ LockValue(t, p) /\ lockCall'[t][p] = "granted"
         \/ RegisterLock(t, p) /\ lockCall'[t][p] = "held"
         \/ /\ lockCall[t][p] \in {"asked", "granted"}
            /\ lockCall'[t][p] = "refused"
            /\ UNCHANGED <<history, writeLock, queuedValue, staleCommit, txnVars>>
<1> USE DEF RestmTypeOK, LockProgress
<1>1. ASSUME NEW u \in Time, NEW q \in Ptr,
             AskLock(u, q) \/ LockValue(u, q) \/ RegisterLock(u, q)
      PROVE  \/ lockCall'[t][p] = lockCall[t][p]
             \/ AskLock(t, p) /\ lockCall'[t][p] = "asked"
             \/ LockValue(t, p) /\ lockCall'[t][p] = "granted"
             \/ RegisterLock(t, p) /\ lockCall'[t][p] = "held"
  <2>1. PICK l \in {"asked", "granted", "held"} :
          /\ lockCall' = [lockCall EXCEPT ![u][q] = l]
          /\ \/ l = "asked" /\ AskLock(u, q)
             \/ l = "granted" /\ LockValue(u, q)
             \/ l = "held" /\ RegisterLock(u, q)
    <3>1. AskLock(u, q) => lockCall' = [lockCall EXCEPT ![u][q] = "asked"]
      BY DEF AskLock
    <3>2. LockValue(u, q) => lockCall' = [lockCall EXCEPT ![u][q] = "granted"]
      BY DEF LockValue
    <3>3. RegisterLock(u, q) => lockCall' = [lockCall EXCEPT ![u][q] = "held"]
      BY DEF RegisterLock
    <3>4. QED
      BY <1>1, <3>1, <3>2, <3>3
  <2>2. u # t \/ q # p => lockCall'[t][p] = lockCall[t][p]
    BY <2>1
  <2>3. u = t /\ q = p => lockCall'[t][p] = l
    BY <2>1
  <2>4. QED
    BY <2>1, <2>2, <2>3
<1>2. ASSUME NEW u \in Time, NEW q \in Ptr,
             LockConflict(u, q) \/ RegisterLost(u, q)
      PROVE  /\ \/ lockCall'[t][p] = lockCall[t][p]
                \/ /\ lockCall[t][p] \in {"asked", "granted"}
                   /\ lockCall'[t][p] = "refused"
             /\ UNCHANGED <<history, writeLock, queuedValue, staleCommit, txnVars>>
  <2>1. /\ lockCall[u][q] \in {"asked", "granted"}
        /\ lockCall' = [lockCall EXCEPT ![u][q] = "refused"]
    BY <1>2 DEF LockConflict, RegisterLost
  <2>2. UNCHANGED <<history, writeLock, queuedValue, staleCommit, txnVars>>
    BY <1>2 DEF LockConflict, RegisterLost, LockRefused, memVars
  <2>3. QED
    BY <2>1, <2>2
<1>3. CASE UNCHANGED lockCall
  BY <1>3
<1>4. QED
  BY <1>1, <1>2, <1>3
  DEF Next, Work, Disturbance, Fault, Body, Coordinator, Delivery, NewPtr, Read, ReadConflict,
      Put, BodyFails, Commit, CommitTxn,
      CommitReplyLost, CommitRefused, Revert, Crash, DeliverQueue, DeliverCommitValue,
      DeliverResetValue, DeliverCommitTxn, DeliverResetTxn, Lose, Probe, clientVars

-----------------------------------------------------------------------------
(* What a step can do to the transactions' actors and to the calls.          *)

(* Only its own client commits a transaction that was open; a cleanup's      *)
(* commit finds it committed.                                                *)
LEMMA StateStep ==
  ASSUME RestmTypeOK, CallsFollowDecision, Next, NEW t \in Time
  PROVE  /\ txnLocks[t] \subseteq txnLocks'[t]
         /\ \A p \in txnLocks'[t] \ txnLocks[t] : lockCall[t][p] = "granted"
         /\ \/ txnState'[t] = txnState[t]
            \/ txnState[t] = "OPEN" /\ txnState'[t] = "RESET"
            \/ /\ txnState[t] = "OPEN" /\ txnState'[t] = "COMMIT"
               /\ CommitTxn(t) \/ CommitReplyLost(t)
<1> USE DEF RestmTypeOK, TxnTypeOK, Decision
<1>1. ASSUME NEW u \in Time, NEW q \in Ptr, RegisterLock(u, q)
      PROVE  /\ txnLocks[t] \subseteq txnLocks'[t]
             /\ \A p \in txnLocks'[t] \ txnLocks[t] : lockCall[t][p] = "granted"
             /\ UNCHANGED txnState
  BY <1>1 DEF RegisterLock, AddLock
<1>2. ASSUME NEW u \in Time, CommitTxn(u) \/ CommitReplyLost(u)
      PROVE  /\ \/ txnState'[t] = txnState[t]
                \/ u = t /\ txnState[t] = "OPEN" /\ txnState'[t] = "COMMIT"
             /\ UNCHANGED txnLocks
  BY <1>2 DEF CommitTxn, CommitReplyLost, SetState
<1>3. ASSUME NEW u \in Time, Revert(u) \/ DeliverResetTxn(u)
      PROVE  /\ \/ txnState'[t] = txnState[t]
                \/ txnState[t] = "OPEN" /\ txnState'[t] = "RESET"
             /\ UNCHANGED txnLocks
  BY <1>3 DEF Revert, DeliverResetTxn, SetState, SetStateRefused, txnVars
<1>4. ASSUME NEW u \in Time, DeliverCommitTxn(u)
      PROVE  UNCHANGED <<txnState, txnLocks>>
  <2>1. Committed(u)
    BY <1>4 DEF DeliverCommitTxn, CallsFollowDecision
  <2>2. QED
    BY <1>4, <2>1 DEF DeliverCommitTxn, SetState, SetStateRefused, txnVars, Committed
<1>5. ASSUME NEW u \in Time, CommitRefused(u)
      PROVE  UNCHANGED <<txnState, txnLocks>>
  BY <1>5 DEF CommitRefused, SetStateRefused, txnVars
<1>6. CASE UNCHANGED <<txnState, txnLocks>>
  BY <1>6
<1>7. QED
  BY <1>1, <1>2, <1>3, <1>4, <1>5, <1>6
  DEF Next, Work, Disturbance, Fault, Body, Coordinator, Delivery, NewPtr, Read, ReadConflict,
      AskLock, LockValue, LockConflict, RegisterLost, Put, BodyFails, Commit, Crash,
      DeliverQueue, DeliverCommitValue, DeliverResetValue, Lose, Probe, txnVars

(* Values are sent by Commit only, installations and resets after the        *)
(* decision they follow, to pointers the transaction locked.                 *)
LEMMA CallStep ==
  ASSUME RestmTypeOK, CallsFollowDecision, Next, NEW t \in Time, NEW p \in Ptr
  PROVE  /\ QueueCall(t, p) \in net' => QueueCall(t, p) \in net \/ (Commit(t) /\ Wrote(t, p))
         /\ QueueCall(t, p) \in net =>
              QueueCall(t, p) \in net' \/ DeliverQueue(t, p) \/ Lose(QueueCall(t, p))
         /\ CommitCall(t, p) \in net' =>
              \/ CommitCall(t, p) \in net
              \/ Committed(t)' /\ (p \in txnLocks[t] \/ lockCall[t][p] = "granted")
         /\ ResetCall(t, p) \in net' =>
              \/ ResetCall(t, p) \in net
              \/ txnState'[t] = "RESET" /\ (p \in txnLocks[t] \/ lockCall[t][p] = "granted")
<1> DEFINE Conclusion ==
             /\ QueueCall(t, p) \in net' => QueueCall(t, p) \in net \/ (Commit(t) /\ Wrote(t, p))
             /\ QueueCall(t, p) \in net =>
                  QueueCall(t, p) \in net' \/ DeliverQueue(t, p) \/ Lose(QueueCall(t, p))
             /\ CommitCall(t, p) \in net' =>
                  \/ CommitCall(t, p) \in net
                  \/ Committed(t)' /\ (p \in txnLocks[t] \/ lockCall[t][p] = "granted")
             /\ ResetCall(t, p) \in net' =>
                  \/ ResetCall(t, p) \in net
                  \/ txnState'[t] = "RESET" /\ (p \in txnLocks[t] \/ lockCall[t][p] = "granted")
<1>1. txnLocks \in [Time -> SUBSET Ptr]
  BY DEF RestmTypeOK, TxnTypeOK
<1>2. ASSUME NEW u \in Time, Commit(u)
      PROVE  Conclusion
  <2>1. net' = net \cup {QueueCall(u, q) : q \in Written(u)} /\ Written(u) \subseteq Ptr
    BY <1>2, Sent DEF Commit, Written
  <2>2. QueueCall(t, p) \in net' => QueueCall(t, p) \in net \/ (u = t /\ Wrote(t, p))
    BY <2>1, Calls DEF Written, Wrote
  <2>3. CommitCall(t, p) \notin net' \ net /\ ResetCall(t, p) \notin net' \ net
    BY <2>1, Calls
  <2>4. QED
    BY <1>2, <2>1, <2>2, <2>3
<1>3. ASSUME NEW u \in Time, CommitTxn(u) \/ DeliverCommitTxn(u)
      PROVE  Conclusion
  <2>1. \/ /\ net' \subseteq net \cup {CommitCall(u, q) : q \in txnLocks[u]}
           /\ txnState' = [txnState EXCEPT ![u] = "COMMIT"]
        \/ net' \subseteq net
    BY <1>1, <1>3, Sent DEF CommitTxn, DeliverCommitTxn, SetState
  <2>2. net \subseteq net' \cup {ToTxn("commitTxn", u)}
    BY <1>3 DEF CommitTxn, DeliverCommitTxn
  <2>3. CommitCall(t, p) \in net' => CommitCall(t, p) \in net \/ (Committed(t)' /\ p \in txnLocks[t])
    BY <1>1, <2>1, Calls DEF Committed, RestmTypeOK, TxnTypeOK
  <2>4. QueueCall(t, p) \notin net' \ net /\ ResetCall(t, p) \notin net' \ net
    BY <1>1, <2>1, Calls
  <2>5. QueueCall(t, p) \notin net \ net'
    BY <2>2, TxnCalls
  <2>6. QED
    BY <2>3, <2>4, <2>5
<1>4. ASSUME NEW u \in Time, Revert(u) \/ DeliverResetTxn(u)
      PROVE  Conclusion
  <2>1. \/ /\ net' \subseteq net \cup {ResetCall(u, q) : q \in txnLocks[u]}
           /\ txnState' = [txnState EXCEPT ![u] = "RESET"]
        \/ net' \subseteq net
    BY <1>1, <1>4, Sent DEF Revert, DeliverResetTxn, SetState
  <2>2. net \subseteq net' \cup {ToTxn("resetTxn", u)}
    BY <1>4 DEF Revert, DeliverResetTxn
  <2>3. ResetCall(t, p) \in net'
          => ResetCall(t, p) \in net \/ (txnState'[t] = "RESET" /\ p \in txnLocks[t])
    BY <1>1, <2>1, Calls DEF RestmTypeOK, TxnTypeOK
  <2>4. QueueCall(t, p) \notin net' \ net /\ CommitCall(t, p) \notin net' \ net
    BY <1>1, <2>1, Calls
  <2>5. QueueCall(t, p) \notin net \ net'
    BY <2>2, TxnCalls
  <2>6. QED
    BY <2>3, <2>4, <2>5
<1>5. ASSUME NEW u \in Time, NEW q \in Ptr, RegisterLock(u, q)
      PROVE  Conclusion
  <2>1. \/ net' = net
        \/ txnState[u] = "RESET" /\ net' = net \cup {ResetCall(u, q)}
        \/ txnState[u] = "COMMIT" /\ net' = net \cup {CommitCall(u, q)}
    BY <1>5, Sent DEF RegisterLock
  <2>2. UNCHANGED txnState /\ lockCall[u][q] = "granted"
    BY <1>5 DEF RegisterLock, AddLock
  <2>3. CommitCall(t, p) \in net' \ net => u = t /\ q = p /\ Committed(t)
    BY <2>1, Calls DEF Committed
  <2>4. ResetCall(t, p) \in net' \ net => u = t /\ q = p /\ txnState[t] = "RESET"
    BY <2>1, Calls
  <2>5. QueueCall(t, p) \notin net' \ net
    BY <2>1, Calls
  <2>6. QED
    BY <2>1, <2>2, <2>3, <2>4, <2>5 DEF Committed
<1>6. ASSUME NEW u \in Time, \E s \in {{}, {CleanupCall(u)}} : net' = net \cup s
      PROVE  Conclusion
  <2>1. net' \subseteq net \cup {CleanupCall(u)} /\ net \subseteq net'
    BY <1>6
  <2>2. PICK op \in {"commitTxn", "resetTxn"} : CleanupCall(u) = ToTxn(op, u)
    BY CallTypes
  <2>3. /\ QueueCall(t, p) \notin net' \ net
        /\ CommitCall(t, p) \notin net' \ net
        /\ ResetCall(t, p) \notin net' \ net
    BY <2>1, <2>2, TxnCalls
  <2>4. QED
    BY <2>1, <2>3
<1>7. ASSUME NEW u \in Time, NEW q \in Ptr, ReadConflict(u, q) \/ LockConflict(u, q)
      PROVE  Conclusion
  BY <1>6, <1>7 DEF ReadConflict, LockConflict, MayCleanup
<1>8. ASSUME NEW q \in Ptr, Probe(q)
      PROVE  Conclusion
  <2>1. writeLock[q] \in Time
    BY <1>8 DEF Probe, RestmTypeOK, MemTypeOK, OptTime
  <2>2. QED
    BY <1>6, <1>8, <2>1 DEF Probe
<1>9. ASSUME NEW u \in Time, NEW q \in Ptr,
             DeliverQueue(u, q) \/ DeliverCommitValue(u, q) \/ DeliverResetValue(u, q)
      PROVE  Conclusion
  <2>1. \/ DeliverQueue(u, q) /\ net' = net \ {QueueCall(u, q)}
        \/ net' = net \ {CommitCall(u, q)}
        \/ net' = net \ {ResetCall(u, q)}
    BY <1>9 DEF DeliverQueue, DeliverCommitValue, DeliverResetValue, QueueCall, CommitCall,
                ResetCall
  <2>2. QueueCall(t, p) \in net \ net' => DeliverQueue(t, p)
    BY <2>1, Calls
  <2>3. QED
    BY <1>1, <2>1, <2>2
<1>10. ASSUME NEW m \in net, Lose(m)
      PROVE  Conclusion
  <2>1. net' = net \ {m}
    BY <1>10 DEF Lose
  <2>2. QueueCall(t, p) \in net \ net' => Lose(QueueCall(t, p))
    BY <1>10, <2>1
  <2>3. net' \subseteq net
    BY <2>1
  <2>4. QED
    BY <1>1, <2>2, <2>3
<1>11. ASSUME net' = net PROVE Conclusion
  BY <1>1, <1>11
<1> HIDE DEF Conclusion
<1>12. Conclusion
  <2>1. CASE \E u \in Time : Body(u)
    BY <1>2, <1>7, <1>11, <2>1 DEF Body, NewPtr, Read, AskLock, Put, BodyFails
  <2>2. CASE \E u \in Time : Coordinator(u)
    BY <1>3, <1>4, <1>5, <1>7, <1>11, <2>2 DEF Coordinator, LockValue, CommitRefused
  <2>3. CASE Delivery
    BY <1>3, <1>4, <1>9, <2>3 DEF Delivery
  <2>4. CASE Disturbance
    BY <1>8, <1>10, <1>11, <2>4 DEF Disturbance, Fault, RegisterLost, CommitReplyLost, Crash
  <2>5. QED
    BY <2>1, <2>2, <2>3, <2>4 DEF Next, Work
<1>13. QED
  BY <1>12 DEF Conclusion

(* A cleanup only sends commit for what it found committed.                  *)
LEMMA CleanupStep ==
  ASSUME RestmTypeOK, CallsFollowDecision, Next, NEW t \in Time,
         ToTxn("commitTxn", t) \in net'
  PROVE  ToTxn("commitTxn", t) \in net \/ Committed(t)
<1> DEFINE m == ToTxn("commitTxn", t)
           Fine == m \in net \/ Committed(t)
<1> USE DEF RestmTypeOK, TxnTypeOK
<1>1. ASSUME NEW u \in Time, NEW S \in SUBSET Ptr,
             NEW op \in {"queue", "commitValue", "resetValue"}
      PROVE  m \notin ToPtrs(op, u, S)
  <2>1. \A q \in Ptr : m \notin {QueueCall(u, q), CommitCall(u, q), ResetCall(u, q)}
    BY TxnCalls
  <2>2. QED
    BY <2>1, Sent
<1>2. ASSUME NEW u \in Time, Commit(u) \/ CommitTxn(u) \/ Revert(u)
      PROVE  Fine
  BY <1>1, <1>2 DEF Commit, Written, CommitTxn, Revert
<1>3. ASSUME NEW u \in Time, DeliverCommitTxn(u) \/ DeliverResetTxn(u)
      PROVE  Fine
  BY <1>1, <1>3 DEF DeliverCommitTxn, DeliverResetTxn
<1>4. ASSUME NEW u \in Time, NEW q \in Ptr, RegisterLock(u, q)
      PROVE  Fine
  BY <1>1, <1>4 DEF RegisterLock
<1>5. ASSUME NEW u \in Time, \E s \in {{}, {CleanupCall(u)}} : net' = net \cup s
      PROVE  Fine
  <2>1. m \in net \/ m = CleanupCall(u)
    BY <1>5
  <2>2. ASSUME m = CleanupCall(u)
        PROVE  Committed(t)
    <3>1. PICK op \in {"commitTxn", "resetTxn"} : CleanupCall(u) = ToTxn(op, u)
      BY CallTypes
    <3>2. t = u /\ op = "commitTxn"
      BY <2>2, <3>1 DEF ToTxn
    <3>3. QED
      BY <3>1, <3>2, CallTypes
  <2>3. QED
    BY <2>1, <2>2
<1>6. ASSUME NEW u \in Time, NEW q \in Ptr, ReadConflict(u, q) \/ LockConflict(u, q)
      PROVE  Fine
  BY <1>5, <1>6 DEF ReadConflict, LockConflict, MayCleanup
<1>7. ASSUME NEW q \in Ptr, Probe(q)
      PROVE  Fine
  <2>1. writeLock[q] \in Time
    BY <1>7 DEF Probe, MemTypeOK, OptTime
  <2>2. QED
    BY <1>5, <1>7, <2>1 DEF Probe
<1>8. ASSUME net' \subseteq net
      PROVE  Fine
  BY <1>8
<1> HIDE DEF Fine
<1>9. ASSUME NEW u \in Time, NEW q \in Ptr,
             DeliverQueue(u, q) \/ DeliverCommitValue(u, q) \/ DeliverResetValue(u, q)
      PROVE  Fine
  BY <1>8, <1>9 DEF DeliverQueue, DeliverCommitValue, DeliverResetValue
<1>10. ASSUME NEW u \in Time, Body(u) \/ Coordinator(u)
       PROVE  Fine
  BY <1>2, <1>4, <1>6, <1>8, <1>10
  DEF Body, Coordinator, NewPtr, Read, AskLock, Put, BodyFails, LockValue, CommitRefused
<1>11. ASSUME Disturbance
       PROVE  Fine
  BY <1>7, <1>8, <1>11 DEF Disturbance, Fault, CommitReplyLost, Crash, RegisterLost, Lose
<1>12. Fine
  BY <1>3, <1>9, <1>10, <1>11 DEF Next, Work, Delivery
<1>13. QED
  BY <1>12 DEF Fine

-----------------------------------------------------------------------------
(* What a step can do to a pointer.                                          *)

(* No value comes after its commit here: MemActor's stale-commit path is     *)
(* there for callers other than RestmImpl and STMTxnCtx.                     *)
LEMMA ValueInTime ==
  ASSUME CallsFollowDecision, QueuedByOwner, RestmTypeOK,
         NEW t \in Time, NEW p \in Ptr, DeliverQueue(t, p)
  PROVE  /\ writeCache[t][p] \in Result
         /\ QueueNormally(p, t, writeCache[t][p]) \/ QueueRefused(p, t)
<1>1. QueueCall(t, p) \in net
  BY DEF DeliverQueue, QueueCall
<1>2. Wrote(t, p)
  BY <1>1 DEF CallsFollowDecision
<1>3. writeCache[t][p] \in Result
  BY <1>2 DEF RestmTypeOK, Wrote
<1>4. staleCommit[p] # t
  BY <1>2, Constants DEF QueuedByOwner
<1>5. QED
  BY <1>3, <1>4 DEF DeliverQueue, QueueValue, QueueAfterCommit

(* A pointer's lock, queued value and history change by the handler of one   *)
(* call, which names the transaction it is for.                              *)
LEMMA PtrStep ==
  ASSUME RestmTypeOK, CallsFollowDecision, QueuedByOwner, Next, NEW p \in Ptr
  PROVE  \/ /\ history'[p] = history[p]
            /\ writeLock'[p] = writeLock[p]
            /\ queuedValue'[p] = queuedValue[p]
            /\ staleCommit'[p] = staleCommit[p]
         \/ \E t \in Time : NewPtr(t, p)
         \/ \E t \in Time : LockValue(t, p)
         \/ \E t \in Time : DeliverQueue(t, p) /\ QueueNormally(p, t, writeCache[t][p])
         \/ \E t \in Time : Committed(t) /\ DeliverCommitValue(t, p) /\ WriteCommit(p, t)
         \/ \E t \in Time : /\ txnState[t] = "RESET"
                            /\ DeliverResetValue(t, p)
                            /\ WriteReset(p, t)
<1> DEFINE Same == /\ history'[p] = history[p]
                   /\ writeLock'[p] = writeLock[p]
                   /\ queuedValue'[p] = queuedValue[p]
                   /\ staleCommit'[p] = staleCommit[p]
<1> USE DEF RestmTypeOK, MemTypeOK
<1>1. ASSUME NEW t \in Time, NEW q \in Ptr, NewPtr(t, q), q # p
      PROVE  Same
  BY <1>1 DEF NewPtr, InitValue
<1>2. ASSUME NEW t \in Time, NEW q \in Ptr, LockValue(t, q), q # p
      PROVE  Same
  BY <1>2 DEF LockValue, LockGranted
<1>3. ASSUME NEW t \in Time, NEW q \in Ptr, DeliverQueue(t, q),
             q # p \/ ~QueueNormally(p, t, writeCache[t][p])
      PROVE  Same
  <2>1. QueueNormally(q, t, writeCache[t][q]) \/ QueueRefused(q, t)
    BY <1>3, ValueInTime
  <2>2. CASE QueueRefused(q, t)
    BY <2>2 DEF QueueRefused
  <2>3. CASE QueueNormally(q, t, writeCache[t][q])
    BY <1>3, <2>3 DEF QueueNormally
  <2>4. QED
    BY <2>1, <2>2, <2>3
<1>4. ASSUME NEW t \in Time, NEW q \in Ptr, DeliverCommitValue(t, q),
             q # p \/ ~(Committed(t) /\ WriteCommit(p, t))
      PROVE  Same
  <2>1. Committed(t)
    BY <1>4 DEF DeliverCommitValue, CallsFollowDecision, CommitCall
  <2>2. CASE LockMismatch(q, t)
    BY <2>2 DEF LockMismatch
  <2>3. CASE WriteCommit(q, t) /\ q # p
    BY <2>3 DEF WriteCommit, CommitQueued, CommitEmpty
  <2>4. QED
    BY <1>4, <2>1, <2>2, <2>3 DEF DeliverCommitValue
<1>5. ASSUME NEW t \in Time, NEW q \in Ptr, DeliverResetValue(t, q),
             q # p \/ ~(txnState[t] = "RESET" /\ WriteReset(p, t))
      PROVE  Same
  <2>1. txnState[t] = "RESET"
    BY <1>5 DEF DeliverResetValue, CallsFollowDecision, ResetCall
  <2>2. CASE LockMismatch(q, t)
    BY <2>2 DEF LockMismatch
  <2>3. CASE WriteReset(q, t) /\ q # p
    BY <2>3 DEF WriteReset
  <2>4. QED
    BY <1>5, <2>1, <2>2, <2>3 DEF DeliverResetValue
<1>6. ASSUME NEW t \in Time, NEW q \in Ptr,
             Read(t, q) \/ ReadConflict(t, q) \/ LockConflict(t, q)
      PROVE  Same
  BY <1>6 DEF Read, ReadConflict, LockConflict, GetValue, GetValueConflict, LockRefused, memVars
<1>7. ASSUME UNCHANGED memVars
      PROVE  Same
  BY <1>7 DEF memVars
<1> HIDE DEF Same
<1>8. ASSUME NEW t \in Time, Body(t)
      PROVE  Same \/ NewPtr(t, p)
  BY <1>1, <1>6, <1>7, <1>8 DEF Body, AskLock, Put, BodyFails, Commit
<1>9. ASSUME NEW t \in Time, Coordinator(t)
      PROVE  Same \/ LockValue(t, p)
  BY <1>2, <1>6, <1>7, <1>9 DEF Coordinator, RegisterLock, CommitTxn, CommitRefused, Revert
<1>10. ASSUME Disturbance
       PROVE  Same
  BY <1>7, <1>10 DEF Disturbance, Fault, CommitReplyLost, Crash, RegisterLost, Lose, Probe
<1>11. ASSUME Delivery
       PROVE  \/ Same
              \/ \E t \in Time : DeliverQueue(t, p) /\ QueueNormally(p, t, writeCache[t][p])
              \/ \E t \in Time : Committed(t) /\ DeliverCommitValue(t, p) /\ WriteCommit(p, t)
              \/ \E t \in Time : /\ txnState[t] = "RESET"
                                 /\ DeliverResetValue(t, p)
                                 /\ WriteReset(p, t)
  <2>1. PICK t \in Time :
          \/ \E q \in Ptr :
               DeliverQueue(t, q) \/ DeliverCommitValue(t, q) \/ DeliverResetValue(t, q)
          \/ DeliverCommitTxn(t)
          \/ DeliverResetTxn(t)
    BY <1>11 DEF Delivery
  <2>2. CASE DeliverCommitTxn(t) \/ DeliverResetTxn(t)
    BY <1>7, <2>2 DEF DeliverCommitTxn, DeliverResetTxn
  <2>3. QED
    BY <1>3, <1>4, <1>5, <2>1, <2>2
<1>12. QED
  BY <1>8, <1>9, <1>10, <1>11 DEF Next, Work, Same

(* Reads only move a mark up, and nobody marks a pointer before its creation. *)
LEMMA MarkStep ==
  ASSUME RestmTypeOK, CallsFollowDecision, LocksKept, FreshUntouched, Next, NEW p \in Ptr
  PROVE  /\ lastRead'[p] = lastRead[p] \/ lastRead'[p] >= lastRead[p]
         /\ Fresh(p) => lastRead'[p] = lastRead[p] \/ \E t \in Time : NewPtr(t, p)
<1> DEFINE Up == lastRead'[p] = lastRead[p] \/ (~Fresh(p) /\ lastRead'[p] >= lastRead[p])
<1>1. ASSUME NEW t \in Time, NEW q \in Ptr, Touch(q, t), q = p => ~Fresh(p)
      PROVE  Up
  BY <1>1, TypesAssumption DEF Touch, LastRead, RestmTypeOK, MemTypeOK, OptTime, NoTime
<1>2. ASSUME NEW t \in Time, NEW q \in Ptr, Read(t, q)
      PROVE  Up
  <2>1. ~Fresh(q)
    BY <1>2 DEF Read, Known, Fresh
  <2>2. PICK v \in Result : GetValue(q, t, v)
    BY <1>2 DEF Read
  <2> DEFINE r == IF LastRead(q, t) > t THEN LastRead(q, t) ELSE t
  <2>3. lastRead' = [lastRead EXCEPT ![q] = r]
    BY <2>2 DEF GetValue
  <2>4. r >= lastRead[q]
    <3>1. t \in Nat /\ lastRead[q] \in Nat
      BY TimesNatural, Constants
    <3>2. LastRead(q, t) \in Nat /\ LastRead(q, t) >= lastRead[q]
      BY <3>1 DEF LastRead, NoTime
    <3>3. QED
      BY <3>1, <3>2
  <2> HIDE DEF r
  <2>5. QED
    BY <2>1, <2>3, <2>4 DEF RestmTypeOK, MemTypeOK
<1>3. ASSUME NEW t \in Time, NEW q \in Ptr, LockValue(t, q) \/ LockConflict(t, q)
      PROVE  Up
  <2>1. ~Fresh(q)
    BY <1>3 DEF LockValue, LockConflict, FreshUntouched
  <2>2. Touch(q, t)
    BY <1>3 DEF LockValue, LockConflict, LockGranted, LockRefused
  <2>3. QED
    BY <1>1, <2>1, <2>2
<1>4. ASSUME NEW t \in Time, NEW q \in Ptr,
             DeliverQueue(t, q) \/ DeliverCommitValue(t, q) \/ DeliverResetValue(t, q)
      PROVE  Up
  <2>1. QueueCall(t, q) \in net \/ CommitCall(t, q) \in net \/ ResetCall(t, q) \in net
    BY <1>4 DEF DeliverQueue, DeliverCommitValue, DeliverResetValue, QueueCall, CommitCall,
                ResetCall
  <2>2. QueueCall(t, q) \in net => lockCall[t][q] = "held"
    BY DEF CallsFollowDecision, LocksKept
  <2>3. ~Fresh(q)
    BY <2>1, <2>2 DEF FreshUntouched
  <2>4. UNCHANGED lastRead \/ Touch(q, t)
    BY <1>4 DEF DeliverQueue, DeliverCommitValue, DeliverResetValue, QueueValue,
                QueueNormally, QueueAfterCommit, QueueRefused, WriteCommit, CommitQueued,
                CommitEmpty, WriteReset, LockMismatch
  <2>5. QED
    BY <1>1, <2>3, <2>4
<1>5. ASSUME NEW t \in Time, NEW q \in Ptr, NewPtr(t, q), q # p
      PROVE  Up
  BY <1>5 DEF NewPtr, InitValue, RestmTypeOK, MemTypeOK
<1>6. ASSUME NEW t \in Time, NewPtr(t, p)
      PROVE  lastRead'[p] = lastRead[p] \/ lastRead'[p] >= lastRead[p]
  BY <1>6, TypesAssumption
  DEF NewPtr, InitValue, FreshUntouched, RestmTypeOK, MemTypeOK, NoTime
<1>7. ASSUME NEW t \in Time, NEW q \in Ptr, ReadConflict(t, q)
      PROVE  Up
  BY <1>7 DEF ReadConflict, GetValueConflict, memVars
<1>8. ASSUME UNCHANGED memVars
      PROVE  Up
  BY <1>8 DEF memVars
<1> HIDE DEF Up
<1>9. ASSUME NEW t \in Time, Body(t)
      PROVE  Up \/ NewPtr(t, p)
  BY <1>2, <1>5, <1>7, <1>8, <1>9 DEF Body, AskLock, Put, BodyFails, Commit
<1>10. ASSUME NEW t \in Time, Coordinator(t)
       PROVE  Up
  BY <1>3, <1>8, <1>10 DEF Coordinator, RegisterLock, CommitTxn, CommitRefused, Revert
<1>11. ASSUME Disturbance
       PROVE  Up
  BY <1>8, <1>11 DEF Disturbance, Fault, CommitReplyLost, Crash, RegisterLost, Lose, Probe
<1>12. ASSUME Delivery
       PROVE  Up
  BY <1>4, <1>8, <1>12 DEF Delivery, DeliverCommitTxn, DeliverResetTxn
<1>13. Up \/ \E t \in Time : NewPtr(t, p)
  BY <1>9, <1>10, <1>11, <1>12 DEF Next, Work
<1>14. QED
  BY <1>6, <1>13 DEF Up

(* Every step of the memory's actors is a call some caller could send, so    *)
(* their invariant holds here.                                               *)
LEMMA NextCallsActors ==
  ASSUME RestmTypeOK, CallsFollowDecision, QueuedByOwner, FreshUntouched, Next
  PROVE  MemNext \/ UNCHANGED memVars
<1>1. ASSUME NEW t \in Time, NEW p \in Ptr, NewPtr(t, p)
      PROVE  MemNext
  <2>1. lastRead[p] = NoTime
    BY <1>1 DEF NewPtr, FreshUntouched
  <2>2. PICK v \in Stores(t, p) \cap Value : InitValue(p, t, v)
    BY <1>1 DEF NewPtr
  <2>3. QED
    BY <2>1, <2>2 DEF MemNext
<1>2. ASSUME NEW t \in Time, NEW p \in Ptr, Read(t, p) \/ ReadConflict(t, p)
      PROVE  MemNext
  BY <1>2 DEF Read, ReadConflict, MemNext
<1>3. ASSUME NEW t \in Time, NEW p \in Ptr, LockValue(t, p) \/ LockConflict(t, p)
      PROVE  MemNext
  BY <1>3 DEF LockValue, LockConflict, MemNext
<1>4. ASSUME NEW t \in Time, NEW p \in Ptr, DeliverQueue(t, p)
      PROVE  MemNext
  BY <1>4, ValueInTime DEF MemNext, QueueValue
<1>5. ASSUME NEW t \in Time, NEW p \in Ptr,
             DeliverCommitValue(t, p) \/ DeliverResetValue(t, p)
      PROVE  MemNext
  BY <1>5 DEF DeliverCommitValue, DeliverResetValue, MemNext
<1>6. QED
  BY <1>1, <1>2, <1>3, <1>4, <1>5
  DEF Next, Work, Disturbance, Fault, Body, Coordinator, Delivery, AskLock, RegisterLock,
      RegisterLost, Put, BodyFails, Commit, CommitTxn, CommitReplyLost, CommitRefused, Revert,
      Crash, DeliverCommitTxn, DeliverResetTxn, Lose, Probe

(* The order of histories follows from there being one record for each       *)
(* writer.                                                                   *)
LEMMA SortedHistories ==
  ASSUME RestmTypeOK, OneRecordEach
  PROVE  HistorySorted
<1> SUFFICES ASSUME NEW p \in Ptr, NEW i \in DOMAIN history[p], NEW j \in DOMAIN history[p],
                    i < j,
                    history[p][i].time # NoTime,
                    history[p][j].time # NoTime
             PROVE  history[p][i].time <= history[p][j].time
  BY DEF HistorySorted
<1>1. history[p][i] \in Record /\ history[p][j] \in Record
  BY DEF RestmTypeOK, MemTypeOK
<1>2. history[p][i].time \in Nat /\ history[p][j].time \in Nat
  BY <1>1, TypesAssumption DEF Record, OptTime, NoTime
<1>3. QED
  BY <1>2 DEF OneRecordEach

-----------------------------------------------------------------------------
(* The invariant, part by part.                                              *)

(* The variables of the clients keep their types: caches and lock calls      *)
(* change entry by entry.                                                    *)
LEMMA ClientTypes ==
  ASSUME RestmTypeOK, Next
  PROVE  /\ phase' \in [Time -> Phase]
         /\ readCache' \in [Time -> [Ptr -> Result \cup {NoValue}]]
         /\ initCache' \in [Time -> [Ptr -> Value \cup {NoValue}]]
         /\ writeCache' \in [Time -> [Ptr -> Result \cup {NoValue}]]
         /\ lockCall' \in [Time -> [Ptr -> LockProgress]]
<1> DEFINE Types == /\ phase' \in [Time -> Phase]
                    /\ readCache' \in [Time -> [Ptr -> Result \cup {NoValue}]]
                    /\ initCache' \in [Time -> [Ptr -> Value \cup {NoValue}]]
                    /\ writeCache' \in [Time -> [Ptr -> Result \cup {NoValue}]]
                    /\ lockCall' \in [Time -> [Ptr -> LockProgress]]
<1> USE Constants DEF RestmTypeOK, Phase, LockProgress, Fail
<1>1. ASSUME NEW t \in Time, NEW p \in Ptr, NewPtr(t, p) \/ Read(t, p) \/ ReadConflict(t, p)
      PROVE  Types
  BY <1>1 DEF NewPtr, Read, ReadConflict
<1>2. ASSUME NEW t \in Time, NEW p \in Ptr, AskLock(t, p) \/ LockValue(t, p) \/ LockConflict(t, p)
      PROVE  Types
  BY <1>2 DEF AskLock, LockValue, LockConflict
<1>3. ASSUME NEW t \in Time, NEW p \in Ptr, RegisterLock(t, p) \/ RegisterLost(t, p)
      PROVE  Types
  BY <1>3 DEF RegisterLock, RegisterLost
<1>4. ASSUME NEW t \in Time, NEW p \in Ptr, Put(t, p)
      PROVE  Types
  <2>1. PICK v \in Stores(t, p) : writeCache' = [writeCache EXCEPT ![t][p] = v]
    BY <1>4 DEF Put
  <2>2. v \in Result
    BY <2>1
  <2>3. QED
    BY <1>4, <2>1, <2>2 DEF Put
<1>5. ASSUME NEW t \in Time, BodyFails(t) \/ Commit(t) \/ CommitTxn(t) \/ CommitReplyLost(t)
                              \/ CommitRefused(t) \/ Revert(t) \/ Crash(t)
      PROVE  Types
  BY <1>5 DEF BodyFails, Commit, CommitTxn, CommitReplyLost, CommitRefused, Revert, Crash
<1>6. ASSUME NEW t \in Time, NEW p \in Ptr, DeliverQueue(t, p)
      PROVE  Types
  BY <1>6 DEF DeliverQueue
<1>7. ASSUME NEW m \in net, Lose(m)
      PROVE  Types
  BY <1>7 DEF Lose
<1>8. ASSUME UNCHANGED clientVars
      PROVE  Types
  BY <1>8 DEF clientVars
<1> HIDE DEF Types
<1>9. Types
  BY <1>1, <1>2, <1>3, <1>4, <1>5, <1>6, <1>7, <1>8
  DEF Next, Work, Disturbance, Fault, Body, Coordinator, Delivery, DeliverCommitValue,
      DeliverResetValue, DeliverCommitTxn, DeliverResetTxn, Probe
<1>10. QED
  BY <1>9 DEF Types

(* The decisions, the registered locks and the calls on their way keep their *)
(* types.                                                                    *)
LEMMA ServerTypes ==
  ASSUME RestmTypeOK, Next
  PROVE  TxnTypeOK' /\ net' \subseteq PtrCall \cup TxnCall
<1> DEFINE Calling == net' \subseteq PtrCall \cup TxnCall
<1> USE DEF RestmTypeOK, TxnTypeOK, Decision
<1>1. ASSUME NEW t \in Time, NEW S \in SUBSET Ptr,
             NEW op \in {"queue", "commitValue", "resetValue"}
      PROVE  ToPtrs(op, t, S) \subseteq PtrCall
  BY DEF ToPtrs, PtrCall
<1>2. ASSUME NEW t \in Time, Commit(t)
      PROVE  TxnTypeOK' /\ Calling
  BY <1>1, <1>2 DEF Commit, Written, txnVars
<1>3. ASSUME NEW t \in Time, CommitTxn(t) \/ DeliverCommitTxn(t) \/ CommitReplyLost(t)
      PROVE  TxnTypeOK' /\ Calling
  BY <1>1, <1>3 DEF CommitTxn, DeliverCommitTxn, CommitReplyLost, SetState, SetStateRefused, txnVars
<1>4. ASSUME NEW t \in Time, Revert(t) \/ DeliverResetTxn(t) \/ CommitRefused(t)
      PROVE  TxnTypeOK' /\ Calling
  BY <1>1, <1>4 DEF Revert, DeliverResetTxn, CommitRefused, SetState, SetStateRefused, txnVars
<1>5. ASSUME NEW t \in Time, NEW p \in Ptr, RegisterLock(t, p)
      PROVE  TxnTypeOK' /\ Calling
  BY <1>1, <1>5 DEF RegisterLock, AddLock
<1>6. ASSUME UNCHANGED txnVars, NEW w \in Time, \E s \in {{}, {CleanupCall(w)}} : net' = net \cup s
      PROVE  TxnTypeOK' /\ Calling
  BY <1>6, CallTypes DEF txnVars
<1>7. ASSUME NEW t \in Time, NEW p \in Ptr, ReadConflict(t, p) \/ LockConflict(t, p)
      PROVE  TxnTypeOK' /\ Calling
  BY <1>6, <1>7 DEF ReadConflict, LockConflict, MayCleanup
<1>8. ASSUME NEW p \in Ptr, Probe(p)
      PROVE  TxnTypeOK' /\ Calling
  <2>1. writeLock[p] \in Time
    BY <1>8 DEF Probe, MemTypeOK, OptTime
  <2>2. QED
    BY <1>6, <1>8, <2>1 DEF Probe
<1>9. ASSUME UNCHANGED txnVars, net' \subseteq net
      PROVE  TxnTypeOK' /\ Calling
  BY <1>9 DEF txnVars
<1>10. ASSUME NEW t \in Time, NEW p \in Ptr,
              DeliverQueue(t, p) \/ DeliverCommitValue(t, p) \/ DeliverResetValue(t, p)
      PROVE  TxnTypeOK' /\ Calling
  BY <1>9, <1>10 DEF DeliverQueue, DeliverCommitValue, DeliverResetValue
<1>11. ASSUME NEW m \in net, Lose(m)
       PROVE  TxnTypeOK' /\ Calling
  BY <1>9, <1>11 DEF Lose
<1> DEFINE Good == TxnTypeOK' /\ Calling
<1> HIDE DEF Calling
<1>12. ASSUME NEW t \in Time, Body(t)
       PROVE  Good
  BY <1>2, <1>7, <1>9, <1>12 DEF Body, NewPtr, Read, AskLock, Put, BodyFails
<1>13. ASSUME NEW t \in Time, Coordinator(t)
       PROVE  Good
  BY <1>3, <1>4, <1>5, <1>7, <1>9, <1>13 DEF Coordinator, LockValue
<1>14. ASSUME Delivery
       PROVE  Good
  BY <1>3, <1>4, <1>10, <1>14 DEF Delivery
<1>15. ASSUME Disturbance
       PROVE  Good
  BY <1>3, <1>8, <1>9, <1>11, <1>15 DEF Disturbance, Fault, Crash, RegisterLost
<1>16. QED
  BY <1>12, <1>13, <1>14, <1>15 DEF Next, Work, Calling

(* With the pointer actors' own invariant, all types are kept, and locks stay*)
(* above reads.                                                              *)
LEMMA TypeStep ==
  ASSUME IInv, Next
  PROVE  RestmTypeOK' /\ LockAboveReads'
<1> USE DEF IInv
<1>1. MemInv
  BY SortedHistories DEF MemInv, RestmTypeOK
<1>2. MemInv'
  BY <1>1, NextCallsActors, MemStep, MemStutter
<1>3. QED
  BY <1>2, ClientTypes, ServerTypes DEF MemInv, RestmTypeOK

(* A creation is never taken back, and only newPtr makes one                 *)
(* (RestmImpl.scala:43-50).                                                  *)
LEMMA CreatedStays ==
  ASSUME RestmTypeOK, Next, NEW t \in Time, NEW p \in Ptr, Created(t, p)
  PROVE  initCache'[t][p] = initCache[t][p] /\ Created(t, p)'
<1>1. ~NewPtr(t, p)
  BY DEF NewPtr, Fresh, Created
<1>2. QED
  BY <1>1, CacheStep DEF Created

(* Nobody names a pointer before newPtr drew its id.                         *)
LEMMA FreshUntouchedStep ==
  ASSUME IInv, Next
  PROVE  FreshUntouched'
<1> USE DEF IInv
<1> SUFFICES ASSUME NEW p \in Ptr, Fresh(p)'
             PROVE  (/\ lastRead[p] = NoTime
                     /\ \A t \in Time :
                          /\ readCache[t][p] = NoValue
                          /\ lockCall[t][p] = "none"
                          /\ p \notin txnLocks[t]
                          /\ CommitCall(t, p) \notin net
                          /\ ResetCall(t, p) \notin net)'
  BY DEF FreshUntouched
<1>1. Fresh(p)
  BY CreatedStays DEF Fresh, Created
<1>2. ASSUME NEW t \in Time
      PROVE  ~NewPtr(t, p)
  <2>1. SUFFICES ASSUME NewPtr(t, p) PROVE FALSE
    OBVIOUS
  <2>2. PICK v \in Value : initCache' = [initCache EXCEPT ![t][p] = v]
    BY <2>1 DEF NewPtr
  <2>3. initCache'[t][p] = v
    BY <2>2 DEF RestmTypeOK
  <2>4. QED
    BY <2>3, TypesAssumption DEF Fresh
<1>3. lastRead'[p] = NoTime
  BY <1>1, <1>2, MarkStep DEF FreshUntouched
<1>4. ASSUME NEW t \in Time
      PROVE  /\ readCache'[t][p] = NoValue
             /\ lockCall'[t][p] = "none"
             /\ p \notin txnLocks'[t]
             /\ (CommitCall(t, p) \notin net)'
             /\ (ResetCall(t, p) \notin net)'
  <2>1. /\ readCache[t][p] = NoValue
        /\ lockCall[t][p] = "none"
        /\ p \notin txnLocks[t]
        /\ CommitCall(t, p) \notin net
        /\ ResetCall(t, p) \notin net
    BY <1>1 DEF FreshUntouched
  <2>2. ~Read(t, p)
    BY <1>1 DEF Read, Known, Fresh
  <2>3. ~AskLock(t, p)
    BY <1>1 DEF AskLock, Known, Fresh
  <2>4. ~LockValue(t, p) /\ ~RegisterLock(t, p)
    BY <2>1 DEF LockValue, RegisterLock
  <2>5. readCache'[t][p] = NoValue
    BY <2>1, <2>2, CacheStep
  <2>6. lockCall'[t][p] = "none"
    BY <2>1, <2>3, <2>4, LockCallStep
  <2>7. p \notin txnLocks'[t]
    BY <2>1, StateStep
  <2>8. (CommitCall(t, p) \notin net)' /\ (ResetCall(t, p) \notin net)'
    BY <2>1, CallStep DEF CommitCall, ResetCall
  <2>9. QED
    BY <2>5, <2>6, <2>7, <2>8
<1>5. QED
  BY <1>3, <1>4

(* Two transactions never create the same pointer.                           *)
LEMMA OneCreatorStep ==
  ASSUME IInv, Next
  PROVE  OneCreator'
<1> USE DEF IInv
<1> SUFFICES ASSUME NEW p \in Ptr, NEW c \in Time, Created(c, p)'
             PROVE  /\ p \notin Static
                    /\ readCache'[c][p] = NoValue
                    /\ \A d \in Time : Created(d, p)' => d = c
  BY DEF OneCreator
<1>1. CASE Created(c, p)
  <2>1. ~Fresh(p)
    BY <1>1 DEF Fresh, Created
  <2>2. \A d \in Time : ~NewPtr(d, p)
    BY <2>1 DEF NewPtr
  <2>3. ~Read(c, p)
    BY <1>1 DEF Read, Seen, Created
  <2>4. \A d \in Time : initCache'[d][p] = initCache[d][p]
    BY <2>2, CacheStep
  <2>5. QED
    BY <1>1, <2>3, <2>4, CacheStep DEF OneCreator, Created
<1>2. CASE ~Created(c, p)
  <2>1. NewPtr(c, p)
    BY <1>2, CacheStep DEF Created
  <2>2. Fresh(p)
    BY <2>1 DEF NewPtr
  <2>3. readCache'[c][p] = NoValue
    BY <2>1, <2>2 DEF NewPtr, FreshUntouched
  <2>4. \A d \in Time : Created(d, p)' => d = c
    BY <2>1, <2>2 DEF NewPtr, Created, Fresh, RestmTypeOK
  <2>5. QED
    BY <2>2, <2>3, <2>4 DEF Fresh
<1>3. QED
  BY <1>1, <1>2

(* Decisions are final.                                                      *)
LEMMA DecisionStays ==
  ASSUME RestmTypeOK, CallsFollowDecision, Next, NEW t \in Time
  PROVE  /\ Committed(t) => Committed(t)'
         /\ txnState[t] = "RESET" => txnState'[t] = "RESET"
         /\ txnState'[t] = "OPEN" => txnState[t] = "OPEN"
         /\ Committed(t)' => Committed(t) \/ CommitTxn(t) \/ CommitReplyLost(t)
  BY StateStep DEF Committed

(* No call to install or to reset is sent before the decision it follows.    *)
LEMMA CallsFollowDecisionStep ==
  ASSUME IInv, Next
  PROVE  CallsFollowDecision'
<1> USE DEF IInv
<1>1. ASSUME NEW t \in Time
      PROVE  /\ (ToTxn("commitTxn", t) \in net => Committed(t))'
             /\ (Committed(t) => phase[t] \notin {"active", "queueing"})'
  <2>1. CASE Committed(t)
    <3>1. ~Commit(t)
      BY <2>1 DEF CallsFollowDecision, Commit
    <3>2. QED
      BY <2>1, <3>1, DecisionStays, PhaseStep DEF CallsFollowDecision
  <2>2. CASE ~Committed(t)
    <3>1. ToTxn("commitTxn", t) \notin net
      BY <2>2 DEF CallsFollowDecision
    <3>2. (ToTxn("commitTxn", t) \notin net)'
      BY <2>2, <3>1, CleanupStep DEF ToTxn
    <3>3. CommitTxn(t) \/ CommitReplyLost(t) => phase'[t] \in {"committed", "failed"}
      BY DEF CommitTxn, CommitReplyLost, RestmTypeOK
    <3>4. QED
      BY <2>2, <3>2, <3>3, DecisionStays
  <2>3. QED
    BY <2>1, <2>2
<1>2. ASSUME NEW t \in Time, NEW p \in Ptr
      PROVE  /\ (CommitCall(t, p) \in net => Committed(t))'
             /\ (ResetCall(t, p) \in net => txnState[t] = "RESET")'
             /\ (QueueCall(t, p) \in net => Wrote(t, p) /\ phase[t] # "active")'
  <2>1. (CommitCall(t, p) \in net => Committed(t))'
    BY CallStep, DecisionStays DEF CallsFollowDecision, CommitCall
  <2>2. (ResetCall(t, p) \in net => txnState[t] = "RESET")'
    BY CallStep, DecisionStays DEF CallsFollowDecision, ResetCall
  <2>3. (QueueCall(t, p) \in net => Wrote(t, p) /\ phase[t] # "active")'
    <3>1. CASE QueueCall(t, p) \in net
      BY <3>1, CacheStep, PhaseStep DEF CallsFollowDecision
    <3>2. CASE Commit(t) /\ Wrote(t, p)
      <4>1. phase'[t] # "active"
        BY <3>2 DEF Commit, RestmTypeOK
      <4>2. QED
        BY <3>2, <4>1, CacheStep
    <3>3. QED
      BY <3>1, <3>2, CallStep DEF QueueCall
  <2>4. QED
    BY <2>1, <2>2, <2>3
<1>3. QED
  BY <1>1, <1>2 DEF CallsFollowDecision

(* An undecided transaction keeps its lock, the pointer's history, and its   *)
(* value once that is queued.                                                *)
LEMMA LockStays ==
  ASSUME IInv, Next, NEW t \in Time, NEW p \in Ptr, writeLock[p] = t, txnState[t] = "OPEN"
  PROVE  /\ writeLock'[p] = t
         /\ history'[p] = history[p]
         /\ queuedValue[p] # NoValue => queuedValue'[p] = queuedValue[p]
<1> USE DEF IInv
<1>1. writeLock[p] # NoTime
  BY Constants
<1>2. ~Committed(t) /\ txnState[t] # "RESET"
  BY DEF Committed
<1>3. ASSUME NEW u \in Time, NewPtr(u, p)
      PROVE  FALSE
  BY <1>1, <1>3, Constants DEF NewPtr, FreshUntouched, LockAboveReads
<1>4. ASSUME NEW u \in Time, LockValue(u, p)
      PROVE  FALSE
  BY <1>1, <1>4 DEF LockValue, LockGranted
<1>5. ASSUME NEW u \in Time, QueueNormally(p, u, writeCache[u][p])
      PROVE  /\ writeLock'[p] = t
             /\ history'[p] = history[p]
             /\ queuedValue[p] = NoValue
  BY <1>5 DEF QueueNormally, MayQueue
<1>6. ASSUME NEW u \in Time, Committed(u), WriteCommit(p, u)
      PROVE  FALSE
  BY <1>2, <1>6 DEF WriteCommit, CommitQueued, CommitEmpty, OwnsLock
<1>7. ASSUME NEW u \in Time, txnState[u] = "RESET", WriteReset(p, u)
      PROVE  FALSE
  BY <1>2, <1>7 DEF WriteReset, OwnsLock
<1>8. QED
  BY <1>3, <1>4, <1>5, <1>6, <1>7, PtrStep

(* Writes happen while the body runs.                                        *)
LEMMA WriteStays ==
  ASSUME IInv, Next, NEW t \in Time, NEW p \in Ptr, phase[t] # "active"
  PROVE  writeCache'[t][p] = writeCache[t][p]
  BY CacheStep DEF IInv, Put

(* Nothing of a committed transaction changes.                               *)
LEMMA CommittedStays ==
  ASSUME IInv, Next, NEW t \in Time, NEW p \in Ptr, Committed(t)
  PROVE  writeCache'[t][p] = writeCache[t][p] /\ Committed(t)'
  BY WriteStays, DecisionStays DEF IInv, CallsFollowDecision

(* Only a decision ends a lock, and a write has its lock registered first    *)
(* (RestmImpl.scala:88-99).                                                  *)
LEMMA LocksKeptStep ==
  ASSUME IInv, Next
  PROVE  LocksKept'
<1> USE DEF IInv
<1> SUFFICES ASSUME NEW t \in Time, NEW p \in Ptr
             PROVE  /\ (txnState[t] = "OPEN" /\ lockCall[t][p] \in {"granted", "held"}
                          => writeLock[p] = t)'
                    /\ (txnState[t] = "OPEN" /\ lockCall[t][p] = "held" => p \in txnLocks[t])'
                    /\ (Wrote(t, p) => lockCall[t][p] = "held")'
                    /\ (Wrote(t, p) /\ txnState[t] # "RESET" => p \in txnLocks[t])'
  BY DEF LocksKept
<1>1. txnState'[t] = "OPEN" => txnState[t] = "OPEN"
  BY DecisionStays
<1>2. (txnState[t] = "OPEN" /\ lockCall[t][p] \in {"granted", "held"} => writeLock[p] = t)'
  <2>1. CASE lockCall[t][p] \in {"granted", "held"}
    BY <1>1, <2>1, LockStays DEF LocksKept
  <2>2. CASE LockValue(t, p)
    BY <2>2 DEF LockValue, LockGranted, RestmTypeOK, MemTypeOK
  <2>3. CASE lockCall'[t][p] \notin {"granted", "held"}
    BY <2>3
  <2>4. RegisterLock(t, p) => lockCall[t][p] = "granted"
    BY DEF RegisterLock
  <2>5. QED
    BY <2>1, <2>2, <2>3, <2>4, LockCallStep
<1>3. (txnState[t] = "OPEN" /\ lockCall[t][p] = "held" => p \in txnLocks[t])'
  <2>1. CASE lockCall[t][p] = "held"
    BY <1>1, <2>1, StateStep DEF LocksKept
  <2>2. CASE RegisterLock(t, p)
    BY <2>2 DEF RegisterLock, AddLock, RestmTypeOK, TxnTypeOK
  <2>3. QED
    BY <2>1, <2>2, LockCallStep
<1>4. lockCall[t][p] = "held" => lockCall'[t][p] = "held"
  BY LockCallStep DEF AskLock, LockValue
<1>5. (Wrote(t, p) => lockCall[t][p] = "held")'
  <2>1. Put(t, p) => lockCall[t][p] = "held"
    BY DEF Put
  <2>2. QED
    BY <1>4, <2>1, CacheStep DEF LocksKept, Wrote
<1>6. (Wrote(t, p) /\ txnState[t] # "RESET" => p \in txnLocks[t])'
  <2>1. CASE Wrote(t, p)
    BY <2>1, DecisionStays, StateStep DEF LocksKept
  <2>2. CASE Put(t, p) /\ txnState'[t] # "RESET"
    <3>1. lockCall[t][p] = "held" /\ txnState'[t] = txnState[t] /\ txnLocks'[t] = txnLocks[t]
      BY <2>2 DEF Put, txnVars
    <3>2. txnState[t] # "COMMIT"
      BY <2>2 DEF Put, CallsFollowDecision, Committed
    <3>3. txnState[t] = "OPEN"
      BY <2>2, <3>1, <3>2 DEF RestmTypeOK, TxnTypeOK, Decision
    <3>4. QED
      BY <3>1, <3>3 DEF LocksKept
  <2>3. QED
    BY <2>1, <2>2, CacheStep DEF Wrote
<1>7. QED
  BY <1>2, <1>3, <1>5, <1>6

(* What waits in a pointer is what the owner of its lock wrote.              *)
LEMMA QueuedByOwnerStep ==
  ASSUME IInv, Next
  PROVE  QueuedByOwner'
<1> USE DEF IInv
<1> SUFFICES ASSUME NEW p \in Ptr
             PROVE  /\ (queuedValue[p] # NoValue =>
                          /\ writeLock[p] # NoTime
                          /\ queuedValue[p] = writeCache[writeLock[p]][p]
                          /\ phase[writeLock[p]] # "active")'
                    /\ (staleCommit[p] # NoTime =>
                          /\ Committed(staleCommit[p])
                          /\ ~Wrote(staleCommit[p], p))'
  BY DEF QueuedByOwner
<1>1. /\ writeLock[p] \in Time \cup {NoTime}
      /\ staleCommit[p] \in Time \cup {NoTime}
  BY DEF RestmTypeOK, MemTypeOK, OptTime
<1>2. ASSUME queuedValue'[p] # NoValue
      PROVE  (/\ writeLock[p] # NoTime
              /\ queuedValue[p] = writeCache[writeLock[p]][p]
              /\ phase[writeLock[p]] # "active")'
  <2>1. CASE queuedValue'[p] = queuedValue[p] /\ writeLock'[p] = writeLock[p]
    <3>1. /\ writeLock[p] \in Time
          /\ queuedValue[p] = writeCache[writeLock[p]][p]
          /\ phase[writeLock[p]] # "active"
      BY <1>1, <1>2, <2>1 DEF QueuedByOwner
    <3>2. QED
      BY <2>1, <3>1, WriteStays, PhaseStep, Constants
  <2>2. ASSUME NEW t \in Time, NewPtr(t, p)
        PROVE  FALSE
    BY <1>2, <2>2 DEF NewPtr, InitValue, RestmTypeOK, MemTypeOK
  <2>3. ASSUME NEW t \in Time, LockValue(t, p)
        PROVE  FALSE
    BY <1>2, <2>3 DEF LockValue, LockGranted, QueuedByOwner
  <2>4. ASSUME NEW t \in Time, DeliverQueue(t, p), QueueNormally(p, t, writeCache[t][p])
        PROVE  (/\ writeLock[p] # NoTime
                /\ queuedValue[p] = writeCache[writeLock[p]][p]
                /\ phase[writeLock[p]] # "active")'
    <3>1. /\ writeLock'[p] = t
          /\ queuedValue'[p] = writeCache[t][p]
      BY <2>4 DEF QueueNormally, MayQueue, RestmTypeOK, MemTypeOK
    <3>2. phase[t] # "active"
      BY <2>4 DEF DeliverQueue, CallsFollowDecision, QueueCall
    <3>3. QED
      BY <3>1, <3>2, WriteStays, PhaseStep, Constants
  <2>5. ASSUME NEW t \in Time, WriteCommit(p, t) \/ WriteReset(p, t)
        PROVE  FALSE
    BY <1>2, <2>5 DEF WriteCommit, CommitQueued, CommitEmpty, HasQueued, WriteReset,
                      RestmTypeOK, MemTypeOK
  <2>6. QED
    BY <2>1, <2>2, <2>3, <2>4, <2>5, PtrStep
<1>3. ASSUME staleCommit'[p] # NoTime
      PROVE  (Committed(staleCommit[p]) /\ ~Wrote(staleCommit[p], p))'
  <2>1. CASE staleCommit'[p] = staleCommit[p]
    BY <1>1, <1>3, <2>1, CommittedStays DEF QueuedByOwner, Wrote
  <2>2. ASSUME NEW t \in Time, Committed(t), CommitEmpty(p, t)
        PROVE  (Committed(staleCommit[p]) /\ ~Wrote(staleCommit[p], p))'
    <3>1. ~Wrote(t, p)
      BY <2>2 DEF CommitsKept, CommitEmpty, OwnsLock, HasQueued, Wrote
    <3>2. staleCommit'[p] = t
      BY <2>2 DEF CommitEmpty, RestmTypeOK, MemTypeOK
    <3>3. QED
      BY <2>2, <3>1, <3>2, CommittedStays DEF Wrote
  <2>3. ASSUME NEW t \in Time,
               \/ NewPtr(t, p)
               \/ LockValue(t, p)
               \/ QueueNormally(p, t, writeCache[t][p])
               \/ CommitQueued(p, t)
               \/ WriteReset(p, t)
        PROVE  staleCommit'[p] = staleCommit[p]
    BY <1>3, <2>3 DEF NewPtr, InitValue, LockValue, LockGranted, QueueNormally, CommitQueued,
                      WriteReset, RestmTypeOK, MemTypeOK
  <2>4. QED
    BY <2>1, <2>2, <2>3, PtrStep DEF WriteCommit
<1>4. QED
  BY <1>2, <1>3

(* A value accepted by its pointer stays queued until the decision           *)
(* (STMTxnCtx.commit waits for it).                                          *)
LEMMA QueuedWhenAskedStep ==
  ASSUME IInv, Next
  PROVE  QueuedWhenAsked'
<1> USE DEF IInv
<1> SUFFICES ASSUME NEW t \in Time, NEW p \in Ptr,
                    phase'[t] = "queueing", txnState'[t] = "OPEN", Wrote(t, p)',
                    (QueueCall(t, p) \notin net)'
             PROVE  queuedValue'[p] = writeCache'[t][p]
  BY DEF QueuedWhenAsked
<1>1. txnState[t] = "OPEN"
  BY DecisionStays
<1>2. ~Commit(t)
  <2>1. SUFFICES ASSUME Commit(t) PROVE FALSE
    OBVIOUS
  <2>2. p \in Written(t)
    BY <2>1 DEF Commit, Written, Wrote
  <2>3. QueueCall(t, p) \in net'
    BY <2>1, <2>2, Sent DEF Commit, Written
  <2>4. QED
    BY <2>3 DEF QueueCall
<1>3. phase[t] = "queueing"
  BY <1>2, PhaseStep
<1>4. writeCache'[t][p] = writeCache[t][p] /\ Wrote(t, p)
  BY <1>3, WriteStays DEF Wrote
<1>5. CASE QueueCall(t, p) \notin net
  <2>1. queuedValue[p] = writeCache[t][p]
    BY <1>1, <1>3, <1>4, <1>5 DEF QueuedWhenAsked
  <2>2. writeLock[p] = t
    BY <1>1, <1>4 DEF LocksKept
  <2>3. queuedValue'[p] = queuedValue[p]
    BY <1>1, <1>4, <2>1, <2>2, LockStays DEF Wrote
  <2>4. QED
    BY <1>4, <2>1, <2>3
<1>6. CASE QueueCall(t, p) \in net
  <2>1. DeliverQueue(t, p) \/ Lose(QueueCall(t, p))
    BY <1>6, CallStep DEF QueueCall
  <2>2. ~Lose(QueueCall(t, p))
    BY <1>3 DEF Lose, QueueCall, RestmTypeOK
  <2>3. QueueValue(p, t, writeCache[t][p])
    BY <1>3, <2>1, <2>2 DEF DeliverQueue, RestmTypeOK
  <2>4. staleCommit[p] # t
    BY <1>4, Constants DEF QueuedByOwner
  <2>5. QED
    BY <1>4, <2>3, <2>4 DEF QueueValue, QueueNormally, QueueAfterCommit, RestmTypeOK, MemTypeOK
<1>7. QED
  BY <1>5, <1>6

-----------------------------------------------------------------------------
(* The histories.                                                            *)

(* What an installation does to the buffer.                                  *)
LEMMA InstalledHistory ==
  ASSUME RestmTypeOK, NEW t \in Time, NEW p \in Ptr, CommitQueued(p, t)
  PROVE  \E n \in Nat :
           /\ DOMAIN history[p] = 1..n
           /\ DOMAIN history'[p] = 1..(n + 1)
           /\ \A i \in 1..n :
                history'[p][i] = IF history[p][i].time = t THEN Removed ELSE history[p][i]
           /\ history'[p][n + 1] = [time |-> t, value |-> queuedValue[p]]
<1> DEFINE g == Without(history[p], t)
           r == [time |-> t, value |-> queuedValue[p]]
<1>1. history[p] \in Seq(Record)
  BY DEF RestmTypeOK, MemTypeOK
<1>2. queuedValue[p] \in Result
  BY DEF CommitQueued, HasQueued, RestmTypeOK, MemTypeOK, Result
<1>3. r \in Record
  BY <1>2 DEF Record, OptTime
<1>4. /\ g \in Seq(Record)
      /\ Len(g) = Len(history[p])
      /\ \A i \in 1..Len(g) : g[i] = IF history[p][i].time = t THEN Removed ELSE history[p][i]
  BY <1>1, WithoutType
<1>5. history'[p] = Append(g, r)
  BY DEF CommitQueued, RestmTypeOK, MemTypeOK
<1> HIDE DEF g, r
<1>6. /\ DOMAIN history'[p] = 1..(Len(g) + 1)
      /\ Len(g) \in Nat
      /\ \A i \in 1..Len(g) : history'[p][i] = g[i]
      /\ history'[p][Len(g) + 1] = r
  BY <1>3, <1>4, <1>5, AppendType
<1>7. DOMAIN history[p] = 1..Len(g)
  BY <1>1, <1>4
<1>8. QED
  BY <1>4, <1>6, <1>7 DEF r

(* Histories change by creations and installations only.                     *)
LEMMA HistoryStep ==
  ASSUME IInv, Next, NEW p \in Ptr
  PROVE  \/ history'[p] = history[p]
         \/ \E t \in Time : NewPtr(t, p)
         \/ \E t \in Time : Committed(t) /\ CommitQueued(p, t)
<1>1. ASSUME NEW t \in Time,
             \/ LockValue(t, p)
             \/ QueueNormally(p, t, writeCache[t][p])
             \/ CommitEmpty(p, t)
             \/ WriteReset(p, t)
      PROVE  history'[p] = history[p]
  BY <1>1 DEF LockValue, LockGranted, QueueNormally, CommitEmpty, WriteReset
<1>2. QED
  BY <1>1, PtrStep DEF IInv, WriteCommit

(* A creation is the only record of its pointer.                             *)
LEMMA CreatedHistory ==
  ASSUME RestmTypeOK, NEW t \in Time, NEW p \in Ptr, NewPtr(t, p)
  PROVE  /\ Created(t, p)'
         /\ DOMAIN history'[p] = {1}
         /\ history'[p][1] = [time |-> t, value |-> initCache'[t][p]]
<1>1. PICK v \in Value : /\ InitValue(p, t, v)
                         /\ initCache' = [initCache EXCEPT ![t][p] = v]
  BY DEF NewPtr
<1>2. initCache'[t][p] = v
  BY <1>1 DEF RestmTypeOK
<1>3. history'[p] = << [time |-> t, value |-> v] >>
  BY <1>1 DEF InitValue, RestmTypeOK, MemTypeOK
<1>4. QED
  BY <1>2, <1>3, TypesAssumption DEF Created

(* No writer has two records: the creation makes way for the creator's commit*)
(* (MemActor.scala:251).                                                     *)
LEMMA OneRecordEachStep ==
  ASSUME IInv, Next
  PROVE  OneRecordEach'
<1> USE DEF IInv
<1> SUFFICES ASSUME NEW p \in Ptr,
                    NEW i \in DOMAIN history'[p], NEW j \in DOMAIN history'[p],
                    i < j, history'[p][i].time # NoTime, history'[p][j].time # NoTime
             PROVE  history'[p][i].time < history'[p][j].time
  BY DEF OneRecordEach
<1>1. CASE history'[p] = history[p]
  BY <1>1 DEF OneRecordEach
<1>2. ASSUME NEW t \in Time, NewPtr(t, p)
      PROVE  FALSE
  <2>1. DOMAIN history'[p] = {1}
    BY <1>2, CreatedHistory
  <2>2. QED
    BY <2>1
<1>3. ASSUME NEW t \in Time, CommitQueued(p, t)
      PROVE  history'[p][i].time < history'[p][j].time
  <2>1. PICK n \in Nat :
          /\ DOMAIN history[p] = 1..n
          /\ DOMAIN history'[p] = 1..(n + 1)
          /\ \A k \in 1..n :
               history'[p][k] = IF history[p][k].time = t THEN Removed ELSE history[p][k]
          /\ history'[p][n + 1] = [time |-> t, value |-> queuedValue[p]]
    BY <1>3, InstalledHistory
  <2>2. i \in 1..n /\ history'[p][i] = history[p][i] /\ history[p][i].time # t
    BY <2>1 DEF Removed
  <2>3. CASE j \in 1..n
    <3>1. history'[p][j] = history[p][j]
      BY <2>1, <2>3 DEF Removed
    <3>2. QED
      BY <2>1, <2>2, <2>3, <3>1 DEF OneRecordEach
  <2>4. CASE j = n + 1
    <3>1. history[p][i] \in Record
      BY <2>1, <2>2 DEF RestmTypeOK, MemTypeOK
    <3>2. history[p][i].time \in Time
      BY <2>2, <3>1 DEF Record, OptTime
    <3>3. ~(history[p][i].time > t)
      BY <1>3, <2>1, <2>2, Constants DEF CommitQueued, OwnsLock, LockAboveReads, HasRecordAfter
    <3>4. history'[p][j].time = t
      BY <2>1, <2>4
    <3>5. history[p][i].time \in Nat /\ t \in Nat
      BY <3>2, Constants
    <3>6. QED
      BY <2>2, <3>3, <3>4, <3>5
  <2>5. QED
    BY <2>1, <2>3, <2>4
<1>4. QED
  BY <1>1, <1>2, <1>3, HistoryStep

(* A record is an installed write or a creation.                             *)
LEMMA RecordsAuthoredStep ==
  ASSUME IInv, Next
  PROVE  RecordsAuthored'
<1> USE DEF IInv
<1> DEFINE Authored(r, p) == \/ Committed(r.time) /\ Wrote(r.time, p) /\ r.value = writeCache[r.time][p]
                             \/ Created(r.time, p) /\ r.value = initCache[r.time][p]
<1> SUFFICES ASSUME NEW p \in Ptr, NEW i \in DOMAIN history'[p], history'[p][i].time # NoTime
             PROVE  Authored(history[p][i], p)'
  BY DEF RecordsAuthored
<1>1. ASSUME i \in DOMAIN history[p], history'[p][i] = history[p][i]
      PROVE  Authored(history[p][i], p)'
  <2> DEFINE w == history[p][i].time
  <2>1. history[p][i] \in Record
    BY <1>1 DEF RestmTypeOK, MemTypeOK
  <2>2. w \in Time
    BY <1>1, <2>1 DEF Record, OptTime
  <2>3. Authored(history[p][i], p)
    BY <1>1 DEF RecordsAuthored
  <2>4. QED
    BY <1>1, <2>2, <2>3, CommittedStays, CreatedStays DEF Wrote
<1>2. CASE history'[p] = history[p]
  BY <1>1, <1>2
<1>3. ASSUME NEW t \in Time, NewPtr(t, p)
      PROVE  Authored(history[p][i], p)'
  <2>1. i = 1 /\ history'[p][i] = [time |-> t, value |-> initCache'[t][p]] /\ Created(t, p)'
    BY <1>3, CreatedHistory
  <2>2. QED
    BY <2>1 DEF Created
<1>4. ASSUME NEW t \in Time, Committed(t), CommitQueued(p, t)
      PROVE  Authored(history[p][i], p)'
  <2>1. PICK n \in Nat :
          /\ DOMAIN history[p] = 1..n
          /\ DOMAIN history'[p] = 1..(n + 1)
          /\ \A k \in 1..n :
               history'[p][k] = IF history[p][k].time = t THEN Removed ELSE history[p][k]
          /\ history'[p][n + 1] = [time |-> t, value |-> queuedValue[p]]
    BY <1>4, InstalledHistory
  <2>2. CASE i \in 1..n
    BY <1>1, <2>1, <2>2 DEF Removed
  <2>3. CASE i = n + 1
    <3>1. queuedValue[p] = writeCache[t][p] /\ Wrote(t, p)
      BY <1>4 DEF CommitQueued, OwnsLock, HasQueued, QueuedByOwner, Wrote
    <3>2. QED
      BY <1>4, <2>1, <2>3, <3>1, CommittedStays DEF Wrote
  <2>4. QED
    BY <2>1, <2>2, <2>3
<1>5. QED
  BY <1>2, <1>3, <1>4, HistoryStep

(* A creation leaves its place only to its creator's committed write.        *)
LEMMA CreationsKeptStep ==
  ASSUME IInv, Next
  PROVE  CreationsKept'
<1> USE DEF IInv
<1> SUFFICES ASSUME NEW p \in Ptr, NEW c \in Time, Created(c, p)'
             PROVE  \E i \in DOMAIN history'[p] :
                      /\ history'[p][i].time = c
                      /\ \/ history'[p][i].value = initCache'[c][p]
                         \/ /\ Committed(c)' /\ Wrote(c, p)'
                            /\ history'[p][i].value = writeCache'[c][p]
  BY DEF CreationsKept
<1>1. CASE NewPtr(c, p)
  <2>1. 1 \in DOMAIN history'[p] /\ history'[p][1] = [time |-> c, value |-> initCache'[c][p]]
    BY <1>1, CreatedHistory
  <2>2. history'[p][1].time = c /\ history'[p][1].value = initCache'[c][p]
    BY <2>1
  <2>3. QED
    BY <2>1, <2>2
<1>2. CASE ~NewPtr(c, p)
  <2>1. Created(c, p) /\ initCache'[c][p] = initCache[c][p]
    BY <1>2, CacheStep DEF Created
  <2>2. PICK i \in DOMAIN history[p] :
          /\ history[p][i].time = c
          /\ \/ history[p][i].value = initCache[c][p]
             \/ Committed(c) /\ Wrote(c, p) /\ history[p][i].value = writeCache[c][p]
    BY <2>1 DEF CreationsKept
  <2>3. ASSUME i \in DOMAIN history'[p], history'[p][i] = history[p][i]
        PROVE  \E j \in DOMAIN history'[p] :
                 /\ history'[p][j].time = c
                 /\ \/ history'[p][j].value = initCache'[c][p]
                    \/ /\ Committed(c)' /\ Wrote(c, p)'
                       /\ history'[p][j].value = writeCache'[c][p]
    BY <2>1, <2>2, <2>3, CommittedStays DEF Wrote
  <2>4. CASE history'[p] = history[p]
    BY <2>3, <2>4
  <2>5. ASSUME NEW t \in Time, NewPtr(t, p)
        PROVE  FALSE
    BY <2>1, <2>5 DEF NewPtr, Fresh, Created
  <2>6. ASSUME NEW t \in Time, Committed(t), CommitQueued(p, t)
        PROVE  \E j \in DOMAIN history'[p] :
                 /\ history'[p][j].time = c
                 /\ \/ history'[p][j].value = initCache'[c][p]
                    \/ /\ Committed(c)' /\ Wrote(c, p)'
                       /\ history'[p][j].value = writeCache'[c][p]
    <3>1. PICK n \in Nat :
            /\ DOMAIN history[p] = 1..n
            /\ DOMAIN history'[p] = 1..(n + 1)
            /\ \A k \in 1..n :
                 history'[p][k] = IF history[p][k].time = t THEN Removed ELSE history[p][k]
            /\ history'[p][n + 1] = [time |-> t, value |-> queuedValue[p]]
      BY <2>6, InstalledHistory
    <3>2. CASE t # c
      <4>1. i \in DOMAIN history'[p] /\ history'[p][i] = history[p][i]
        BY <2>2, <3>1, <3>2
      <4>2. QED
        BY <2>3, <4>1
    <3>3. CASE t = c
      <4>1. queuedValue[p] = writeCache[c][p] /\ Wrote(c, p)
        BY <2>6, <3>3 DEF CommitQueued, OwnsLock, HasQueued, QueuedByOwner, Wrote
      <4>2. writeCache'[c][p] = writeCache[c][p] /\ Committed(c)'
        BY <2>6, <3>3, CommittedStays
      <4>3. n + 1 \in DOMAIN history'[p]
        BY <3>1
      <4>4. /\ history'[p][n + 1].time = c
            /\ history'[p][n + 1].value = writeCache'[c][p]
        BY <3>1, <3>3, <4>1, <4>2
      <4>5. QED
        BY <4>1, <4>2, <4>3, <4>4 DEF Wrote
    <3>4. QED
      BY <3>2, <3>3
  <2>7. QED
    BY <2>4, <2>5, <2>6, HistoryStep
<1>3. QED
  BY <1>1, <1>2

(* A read leaves its mark and reaches a created pointer through a commit     *)
(* only.                                                                     *)
LEMMA ReadsMarkedStep ==
  ASSUME IInv, Next
  PROVE  ReadsMarked'
<1> USE DEF IInv
<1> SUFFICES ASSUME NEW t \in Time, NEW p \in Ptr, readCache'[t][p] # NoValue
             PROVE  /\ lastRead'[p] >= t
                    /\ p \in Static \/ \E c \in Time : Created(c, p)' /\ Committed(c)'
  BY DEF ReadsMarked
<1>1. ASSUME NEW c \in Time, Created(c, p), Committed(c)
      PROVE  Created(c, p)' /\ Committed(c)'
  BY <1>1, CreatedStays, CommittedStays
<1>2. CASE readCache[t][p] # NoValue
  <2>1. lastRead[p] >= t
    BY <1>2 DEF ReadsMarked
  <2>2. lastRead'[p] = lastRead[p] \/ lastRead'[p] >= lastRead[p]
    BY MarkStep
  <2>3. lastRead'[p] \in Nat /\ lastRead[p] \in Nat /\ t \in Nat
    <3>1. RestmTypeOK'
      BY TypeStep
    <3>2. lastRead'[p] \in OptTime /\ OptTime \subseteq Nat
      BY <3>1, TypesAssumption DEF RestmTypeOK, MemTypeOK, OptTime, NoTime
    <3>3. QED
      BY <3>2, TimesNatural, Constants
  <2>4. lastRead'[p] >= t
    BY <2>1, <2>2, <2>3
  <2>5. QED
    BY <1>1, <1>2, <2>4 DEF ReadsMarked
<1>3. CASE Read(t, p)
  <2>1. PICK v \in Result : GetValue(p, t, v)
    BY <1>3 DEF Read
  <2> DEFINE r == IF LastRead(p, t) > t THEN LastRead(p, t) ELSE t
  <2>2. lastRead'[p] = r
    BY <2>1 DEF GetValue, RestmTypeOK, MemTypeOK
  <2>3. LastRead(p, t) \in Nat /\ t \in Nat
    BY TimesNatural, Constants DEF LastRead
  <2>4. r >= t
    BY <2>3
  <2>5. ~Created(t, p)
    BY <1>3 DEF Read, Seen, Created
  <2>6. p \in Static \/ \E c \in Time : Created(c, p) /\ Committed(c)
    BY <1>3, <2>5 DEF Read, Known, Created, Committed
  <2>7. QED
    BY <1>1, <2>2, <2>4, <2>6
<1>4. QED
  BY <1>2, <1>3, CacheStep

(* A decided write does not get lost, whoever resets, locks or installs in   *)
(* the meantime.                                                             *)
LEMMA CommitsKeptStep ==
  ASSUME IInv, Next
  PROVE  CommitsKept'
<1> USE DEF IInv
<1> DEFINE Safe(t, p) == IF writeLock[p] = t THEN queuedValue[p] = writeCache[t][p]
                                             ELSE Installed(t, p)
<1> SUFFICES ASSUME NEW t \in Time, NEW p \in Ptr, Committed(t)', Wrote(t, p)'
             PROVE  Safe(t, p)'
  BY DEF CommitsKept
<1>1. ASSUME CommitTxn(t) \/ CommitReplyLost(t), ~Committed(t)
      PROVE  Safe(t, p)'
  <2>1. /\ phase[t] = "queueing"
        /\ UNCHANGED <<memVars, writeCache>>
        /\ ToPtrs("queue", t, Ptr) \cap net = {}
        /\ txnState[t] = "OPEN"
    BY <1>1 DEF CommitTxn, CommitReplyLost, AllQueued, SetState, Committed
  <2>2. Wrote(t, p)
    BY <2>1 DEF Wrote
  <2>3. QueueCall(t, p) \notin net
    BY <2>1, Sent
  <2>4. queuedValue[p] = writeCache[t][p]
    BY <2>1, <2>2, <2>3 DEF QueuedWhenAsked
  <2>5. writeLock[p] = t
    BY <2>1, <2>2 DEF LocksKept
  <2>6. QED
    BY <2>1, <2>4, <2>5 DEF memVars
<1>2. ASSUME Committed(t)
      PROVE  Safe(t, p)'
  <2>1. writeCache'[t][p] = writeCache[t][p] /\ Wrote(t, p) /\ Safe(t, p)
    BY <1>2, CommittedStays DEF Wrote, CommitsKept
  <2>2. lockCall[t][p] = "held"
    BY <2>1 DEF LocksKept
  <2>3. ASSUME history'[p] = history[p], writeLock'[p] = writeLock[p],
               queuedValue'[p] = queuedValue[p]
        PROVE  Safe(t, p)'
    BY <2>1, <2>3 DEF Installed
  <2>4. ASSUME history'[p] = history[p], writeLock[p] # t, writeLock'[p] # t
        PROVE  Safe(t, p)'
    BY <2>1, <2>4 DEF Installed
  <2>5. ASSUME NEW u \in Time, NewPtr(u, p)
        PROVE  FALSE
    BY <2>2, <2>5 DEF NewPtr, FreshUntouched
  <2>6. ASSUME NEW u \in Time, LockValue(u, p)
        PROVE  Safe(t, p)'
    <3>1. u # t
      BY <2>2, <2>6 DEF LockValue
    <3>2. writeLock[p] = NoTime /\ writeLock'[p] = u /\ history'[p] = history[p]
      BY <2>6 DEF LockValue, LockGranted, RestmTypeOK, MemTypeOK
    <3>3. QED
      BY <2>4, <3>1, <3>2, Constants
  <2>7. ASSUME NEW u \in Time, QueueNormally(p, u, writeCache[u][p])
        PROVE  Safe(t, p)'
    <3>1. queuedValue[p] = NoValue /\ writeLock'[p] = writeLock[p] /\ history'[p] = history[p]
      BY <2>7 DEF QueueNormally, MayQueue
    <3>2. writeLock[p] # t
      BY <2>1, <3>1 DEF Wrote
    <3>3. QED
      BY <2>4, <3>1, <3>2
  <2>8. ASSUME NEW u \in Time, WriteReset(p, u), txnState[u] = "RESET"
        PROVE  Safe(t, p)'
    <3>1. writeLock[p] = u /\ writeLock'[p] = NoTime /\ history'[p] = history[p] /\ u # t
      BY <1>2, <2>8 DEF WriteReset, OwnsLock, Committed, RestmTypeOK, MemTypeOK
    <3>2. QED
      BY <2>4, <3>1, Constants
  <2>9. ASSUME NEW u \in Time, CommitEmpty(p, u)
        PROVE  Safe(t, p)'
    <3>1. /\ writeLock[p] = u /\ writeLock'[p] = NoTime /\ history'[p] = history[p]
          /\ queuedValue[p] = NoValue
      BY <2>9 DEF CommitEmpty, OwnsLock, HasQueued, RestmTypeOK, MemTypeOK
    <3>2. writeLock[p] # t
      BY <2>1, <3>1 DEF Wrote
    <3>3. QED
      BY <2>4, <3>1, <3>2, Constants
  <2>10. ASSUME NEW u \in Time, CommitQueued(p, u)
         PROVE  Safe(t, p)'
    <3>1. PICK n \in Nat :
            /\ DOMAIN history[p] = 1..n
            /\ DOMAIN history'[p] = 1..(n + 1)
            /\ \A k \in 1..n :
                 history'[p][k] = IF history[p][k].time = u THEN Removed ELSE history[p][k]
            /\ history'[p][n + 1] = [time |-> u, value |-> queuedValue[p]]
      BY <2>10, InstalledHistory
    <3>2. writeLock[p] = u /\ writeLock'[p] # t
      BY <2>10, Constants DEF CommitQueued, OwnsLock, RestmTypeOK, MemTypeOK
    <3>3. Installed(t, p)'
      <4>1. CASE u = t
        <5>1. history'[p][n + 1] = [time |-> t, value |-> writeCache'[t][p]]
          BY <2>1, <3>1, <3>2, <4>1
        <5>2. n + 1 \in DOMAIN history'[p]
          BY <3>1
        <5>3. QED
          BY <5>1, <5>2 DEF Installed
      <4>2. CASE u # t
        <5>1. PICK i \in DOMAIN history[p] :
                history[p][i] = [time |-> t, value |-> writeCache[t][p]]
          BY <2>1, <3>2, <4>2 DEF Installed
        <5>2. i \in DOMAIN history'[p] /\ history'[p][i] = history[p][i]
          BY <3>1, <4>2, <5>1
        <5>3. QED
          BY <2>1, <5>1, <5>2 DEF Installed
      <4>3. QED
        BY <4>1, <4>2
    <3>4. QED
      BY <3>2, <3>3
  <2> HIDE DEF Safe
  <2>11. QED
    BY <2>3, <2>5, <2>6, <2>7, <2>8, <2>9, <2>10, PtrStep DEF WriteCommit
<1>3. QED
  BY <1>1, <1>2, DecisionStays

-----------------------------------------------------------------------------
(* The reads.                                                                *)

(* The serial store's state, said in the code's terms.                       *)
Writers(p, t) == {w \in Time : Committed(w) /\ w < t /\ Effect(w, p) # NoValue}

(* The writers before a time.                                                *)
LEMMA StoreWriters ==
  ASSUME NEW p \in Ptr, NEW t \in Time
  PROVE  Store!WritersBefore(p, t) = Writers(p, t)
  BY DEF Store!WritersBefore, Writers

(* What the serial store holds before a time, from its writers.              *)
LEMMA StoreValue ==
  ASSUME NEW p \in Ptr, NEW t \in Time, NEW v
  PROVE  Store!ValueBefore(p, t, v) <=>
           \/ Writers(p, t) = {} /\ v = Null
           \/ \E w \in Writers(p, t) :
                /\ \A u \in Writers(p, t) : u <= w
                /\ v = Effect(w, p)
  BY StoreWriters DEF Store!ValueBefore, Writers

(* A reader that is answered met no lock of an older writer: such a lock is  *)
(* above every read so far, and keeps the reader out itself.                 *)
LEMMA NoOlderLock ==
  ASSUME IInv, NEW t \in Time, NEW p \in Ptr, NEW v, GetValue(p, t, v)
  PROVE  writeLock[p] = NoTime \/ writeLock[p] >= t
<1> USE DEF IInv
<1> SUFFICES ASSUME writeLock[p] # NoTime, ~(writeLock[p] >= t)
             PROVE  FALSE
  OBVIOUS
<1>1. lastRead[p] \in Nat /\ writeLock[p] \in Nat /\ t \in Nat /\ NoTime = 0
  BY TimesNatural, Constants
<1>2. lastRead[p] \in 1..writeLock[p]
  BY DEF LockAboveReads
<1>3. LastRead(p, t) = lastRead[p]
  BY <1>1, <1>2 DEF LastRead
<1>4. LockedBefore(p, t)
  BY <1>1 DEF LockedBefore
<1>5. QED
  BY <1>1, <1>2, <1>3, <1>4 DEF GetValue

(* Every committed writer before t is then on record.                        *)
LEMMA WritersOnRecord ==
  ASSUME IInv, NEW t \in Time, NEW p \in Ptr, writeLock[p] = NoTime \/ writeLock[p] >= t,
         NEW u \in Writers(p, t)
  PROVE  \E i \in Visible(p, t) :
           history[p][i].time = u /\ history[p][i].value = Effect(u, p)
<1> USE DEF IInv
<1>1. u \in Time /\ Committed(u) /\ u < t /\ Effect(u, p) # NoValue
  BY DEF Writers
<1>2. t \in Nat /\ u \in Nat /\ u # 0 /\ NoTime = 0
  BY <1>1, TypesAssumption DEF NoTime
<1>3. u \in 1..t
  BY <1>1, <1>2
<1>4. CASE Wrote(u, p)
  <2>1. writeLock[p] # u
    BY <1>1, <1>2
  <2>2. Installed(u, p)
    BY <1>1, <1>4, <2>1 DEF CommitsKept
  <2>3. Effect(u, p) = writeCache[u][p]
    BY <1>4 DEF Effect, Wrote
  <2>4. PICK i \in DOMAIN history[p] : history[p][i] = [time |-> u, value |-> writeCache[u][p]]
    BY <2>2 DEF Installed
  <2>5. history[p][i].time = u /\ history[p][i].value = Effect(u, p)
    BY <2>3, <2>4
  <2>6. QED
    BY <1>3, <2>4, <2>5 DEF Visible
<1>5. CASE ~Wrote(u, p)
  <2>1. Effect(u, p) = initCache[u][p] /\ Created(u, p)
    BY <1>1, <1>5 DEF Effect, Wrote, Created
  <2>2. PICK i \in DOMAIN history[p] :
          history[p][i].time = u /\ history[p][i].value = initCache[u][p]
    BY <1>1, <1>5, <2>1 DEF CreationsKept
  <2>3. QED
    BY <1>3, <2>1, <2>2 DEF Visible
<1>6. QED
  BY <1>4, <1>5

(* And every record a reader sees is the effect of such a writer.            *)
LEMMA RecordsSerial ==
  ASSUME IInv, NEW t \in Time, NEW p \in Ptr, writeLock[p] = NoTime \/ writeLock[p] >= t,
         Known(t, p), Seen(t, p) = NoValue,
         NEW i \in Visible(p, t)
  PROVE  /\ history[p][i].time \in Writers(p, t)
         /\ history[p][i].value = Effect(history[p][i].time, p)
<1> USE DEF IInv
<1> DEFINE w == history[p][i].time
<1>1. i \in DOMAIN history[p] /\ w \in 1..t /\ history[p][i] \in Record
  BY DEF Visible, RestmTypeOK, MemTypeOK
<1>2. w # NoTime /\ w \in Time
  BY <1>1, Constants DEF Record, OptTime
<1>3. w \in Nat /\ t \in Nat
  BY <1>2, Constants
<1>4. ~Wrote(t, p) /\ ~Created(t, p)
  BY DEF Seen, Wrote, Created
<1>5. \/ Committed(w) /\ Wrote(w, p)
      \/ Created(w, p)
  BY <1>1, <1>2 DEF RecordsAuthored
<1>6. w < t
  <2>1. w # t
    BY <1>4, <1>5
  <2>2. QED
    BY <1>1, <1>3, <2>1
<1>7. Committed(w)
  <2>1. CASE Created(w, p)
    <3>1. p \notin Static
      BY <1>2, <2>1 DEF OneCreator
    <3>2. PICK c \in Time : Created(c, p) /\ (c = t \/ Committed(c))
      BY <3>1 DEF Known, Created, Committed
    <3>3. c = w
      BY <1>2, <2>1, <3>2 DEF OneCreator
    <3>4. QED
      BY <1>4, <3>2, <3>3
  <2>2. QED
    BY <1>5, <2>1
<1>8. Effect(w, p) # NoValue
  BY <1>5 DEF Effect, Wrote, Created
<1>9. w \in Writers(p, t)
  BY <1>2, <1>6, <1>7, <1>8 DEF Writers
<1>10. PICK j \in Visible(p, t) : history[p][j].time = w /\ history[p][j].value = Effect(w, p)
  BY <1>9, WritersOnRecord
<1>11. i = j
  <2>1. j \in DOMAIN history[p] /\ i \in Nat /\ j \in Nat
    BY <1>1, <1>10 DEF Visible, RestmTypeOK, MemTypeOK
  <2>2. ~(i < j) /\ ~(j < i)
    BY <1>1, <1>2, <1>3, <1>10, <2>1 DEF OneRecordEach
  <2>3. QED
    BY <2>1, <2>2
<1>12. QED
  BY <1>9, <1>10, <1>11

(* So a read returns what the serial store holds.                            *)
LEMMA ReadSerial ==
  ASSUME IInv, NEW t \in Time, NEW p \in Ptr, NEW v,
         Known(t, p), Seen(t, p) = NoValue, GetValue(p, t, v)
  PROVE  Store!ValueBefore(p, t, v)
<1> USE DEF IInv
<1>1. writeLock[p] = NoTime \/ writeLock[p] >= t
  BY NoOlderLock
<1>2. SnapshotValue(p, t, v)
  BY DEF GetValue
<1>3. CASE Visible(p, t) = {} /\ v = Null
  BY <1>1, <1>3, WritersOnRecord, StoreValue
<1>4. ASSUME NEW i \in Visible(p, t), \A j \in Visible(p, t) : j <= i, v = history[p][i].value
      PROVE  Store!ValueBefore(p, t, v)
  <2> DEFINE w == history[p][i].time
  <2>1. w \in Writers(p, t) /\ v = Effect(w, p)
    BY <1>1, <1>4, RecordsSerial
  <2>2. ASSUME NEW u \in Writers(p, t)
        PROVE  u <= w
    <3>1. PICK j \in Visible(p, t) : history[p][j].time = u
      BY <1>1, WritersOnRecord
    <3>2. /\ i \in DOMAIN history[p] /\ i \in Nat
          /\ j \in DOMAIN history[p] /\ j \in Nat
      BY DEF Visible, RestmTypeOK, MemTypeOK
    <3>3. u \in Time /\ w \in Time
      BY <2>1 DEF Writers
    <3>4. u \in Nat /\ w \in Nat /\ u # NoTime /\ w # NoTime
      BY <3>3, Constants
    <3>5. CASE j = i
      BY <3>1, <3>4, <3>5
    <3>6. CASE j < i
      BY <3>1, <3>2, <3>4, <3>6 DEF OneRecordEach
    <3>7. QED
      BY <1>4, <3>2, <3>5, <3>6
  <2>3. QED
    BY <2>1, <2>2, StoreValue
<1>5. QED
  BY <1>2, <1>3, <1>4 DEF SnapshotValue

(* Nobody later has read what a transaction that can commit overwrites: its  *)
(* lock is above the mark every read left.                                   *)
LEMMA CommitUndisturbed ==
  ASSUME IInv, NEW t \in Time, txnState[t] = "OPEN",
         NEW r \in Time, r > t, NEW p \in Ptr, Effect(t, p) # NoValue
  PROVE  readCache[r][p] = NoValue
<1> USE DEF IInv
<1> SUFFICES ASSUME readCache[r][p] # NoValue
             PROVE  FALSE
  OBVIOUS
<1>1. lastRead[p] >= r /\ (p \in Static \/ \E c \in Time : Created(c, p) /\ Committed(c))
  BY DEF ReadsMarked
<1>2. r \in Nat /\ t \in Nat /\ lastRead[p] \in Nat
  BY TimesNatural, Constants
<1>3. CASE Wrote(t, p)
  <2>1. writeLock[p] = t
    BY <1>3 DEF LocksKept
  <2>2. lastRead[p] \in 1..t
    BY <2>1, Constants DEF LockAboveReads
  <2>3. QED
    BY <1>1, <1>2, <2>2
<1>4. CASE ~Wrote(t, p)
  <2>1. Created(t, p)
    BY <1>4 DEF Effect, Wrote, Created
  <2>2. PICK c \in Time : Created(c, p) /\ Committed(c)
    BY <1>1, <2>1 DEF OneCreator
  <2>3. c = t
    BY <2>1, <2>2 DEF OneCreator
  <2>4. QED
    BY <2>2, <2>3 DEF Committed
<1>5. QED
  BY <1>3, <1>4

(* What a committed transaction leaves behind does not change.               *)
LEMMA EffectStays ==
  ASSUME IInv, Next, NEW t \in Time, NEW p \in Ptr, Committed(t)
  PROVE  Effect(t, p)' = Effect(t, p)
<1>1. phase[t] # "active"
  BY DEF IInv, CallsFollowDecision
<1>2. ~NewPtr(t, p)
  BY <1>1 DEF NewPtr
<1>3. QED
  BY <1>2, CommittedStays, CacheStep DEF IInv, Effect

(* A read made stays right: a new commit finds nobody later who read past it.*)
(* A new read is right when made.                                            *)
LEMMA SerializableStep ==
  ASSUME IInv, Next
  PROVE  Serializable'
<1> USE DEF IInv
<1> SUFFICES ASSUME NEW t \in Time, NEW p \in Ptr, readCache'[t][p] # NoValue
             PROVE  Store!ValueBefore(p, t, readCache[t][p])'
  BY DEF Serializable, Store!SerialReads
<1>1. Store!ValueBefore(p, t, readCache'[t][p])
  <2>1. CASE Read(t, p)
    <3>1. PICK v \in Result : GetValue(p, t, v) /\ readCache' = [readCache EXCEPT ![t][p] = v]
      BY <2>1 DEF Read
    <3>2. readCache'[t][p] = v
      BY <3>1 DEF RestmTypeOK
    <3>3. QED
      BY <2>1, <3>1, <3>2, ReadSerial DEF Read
  <2>2. CASE readCache'[t][p] = readCache[t][p]
    BY <2>2 DEF Serializable, Store!SerialReads
  <2>3. QED
    BY <2>1, <2>2, CacheStep
<1>2. ASSUME NEW w \in Time, Committed(w)', w < t, Effect(w, p)' # NoValue
      PROVE  Committed(w)
  <2>1. SUFFICES ASSUME ~Committed(w), CommitTxn(w) \/ CommitReplyLost(w)
                 PROVE  FALSE
    BY <1>2, DecisionStays
  <2>2. /\ txnState[w] = "OPEN"
        /\ UNCHANGED <<readCache, initCache, writeCache>>
    BY <2>1 DEF CommitTxn, CommitReplyLost, SetState, Committed
  <2>3. Effect(w, p) # NoValue
    BY <1>2, <2>2 DEF Effect
  <2>4. t > w
    BY <1>2, Constants
  <2>5. readCache[t][p] = NoValue
    BY <2>2, <2>3, <2>4, CommitUndisturbed
  <2>6. QED
    BY <2>2, <2>5
<1>3. Writers(p, t)' = Writers(p, t)
  <2>1. ASSUME NEW w \in Writers(p, t)
        PROVE  w \in Writers(p, t)'
    BY <2>1, CommittedStays, EffectStays DEF Writers
  <2>2. ASSUME NEW w \in Writers(p, t)'
        PROVE  w \in Writers(p, t)
    <3>1. w \in Time /\ Committed(w)' /\ w < t /\ Effect(w, p)' # NoValue
      BY <2>2 DEF Writers
    <3>2. Committed(w)
      BY <1>2, <3>1
    <3>3. QED
      BY <3>1, <3>2, EffectStays DEF Writers
  <2>3. QED
    BY <2>1, <2>2
<1>4. \A w \in Writers(p, t) : Effect(w, p)' = Effect(w, p)
  BY EffectStays DEF Writers
<1>5. Store!WritersBefore(p, t)' = Writers(p, t)'
  BY DEF Store!WritersBefore, Writers
<1>6. \/ Writers(p, t) = {} /\ readCache'[t][p] = Null
      \/ \E w \in Writers(p, t) :
           /\ \A u \in Writers(p, t) : u <= w
           /\ readCache'[t][p] = Effect(w, p)
  BY <1>1, StoreValue
<1>7. QED
  BY <1>3, <1>4, <1>5, <1>6 DEF Store!ValueBefore, Writers

-----------------------------------------------------------------------------
(* The theorems.                                                             *)

(* Nothing has been read, written or sent at first.                          *)
LEMMA Initially == Init => IInv
<1> SUFFICES ASSUME Init PROVE IInv
  OBVIOUS
<1> USE Constants DEF Init, MemInit, TxnInit
<1>1. RestmTypeOK
  BY DEF RestmTypeOK, MemTypeOK, TxnTypeOK, OptTime, Phase, LockProgress
<1>2. LockAboveReads /\ OneRecordEach /\ RecordsAuthored /\ QueuedByOwner
  BY DEF LockAboveReads, OneRecordEach, RecordsAuthored, QueuedByOwner
<1>3. FreshUntouched /\ OneCreator /\ CreationsKept
  BY DEF FreshUntouched, OneCreator, CreationsKept, Created
<1>4. CallsFollowDecision /\ LocksKept /\ QueuedWhenAsked /\ CommitsKept
  BY DEF CallsFollowDecision, LocksKept, QueuedWhenAsked, CommitsKept, Committed, Wrote
<1>5. ReadsMarked /\ Serializable
  BY DEF ReadsMarked, Serializable, Store!SerialReads
<1>6. QED
  BY <1>1, <1>2, <1>3, <1>4, <1>5 DEF IInv

(* Every step keeps every part.                                              *)
LEMMA Step ==
  ASSUME IInv, [Next]_vars
  PROVE  IInv'
<1>1. CASE Next
  <2>1. RestmTypeOK' /\ LockAboveReads'
    BY <1>1, TypeStep
  <2>2. FreshUntouched' /\ OneCreator' /\ CallsFollowDecision' /\ LocksKept'
    BY <1>1, FreshUntouchedStep, OneCreatorStep, CallsFollowDecisionStep, LocksKeptStep
  <2>3. QueuedByOwner' /\ QueuedWhenAsked' /\ OneRecordEach'
    BY <1>1, QueuedByOwnerStep, QueuedWhenAskedStep, OneRecordEachStep
  <2>4. CreationsKept' /\ RecordsAuthored' /\ ReadsMarked' /\ CommitsKept' /\ Serializable'
    BY <1>1, CreationsKeptStep, RecordsAuthoredStep, ReadsMarkedStep, CommitsKeptStep,
       SerializableStep
  <2>5. QED
    BY <2>1, <2>2, <2>3, <2>4 DEF IInv
<1>2. CASE UNCHANGED vars
  <2> USE <1>2 DEF vars, memVars, txnVars, clientVars, IInv
  <2>1. RestmTypeOK' /\ LockAboveReads'
    BY DEF RestmTypeOK, MemTypeOK, TxnTypeOK, LockAboveReads, HasRecordAfter
  <2>2. FreshUntouched' /\ OneCreator' /\ CallsFollowDecision' /\ LocksKept'
    BY DEF FreshUntouched, Fresh, OneCreator, Created, CallsFollowDecision, LocksKept, Wrote,
           Committed, CommitCall, ResetCall, QueueCall, ToTxn
  <2>3. QueuedByOwner' /\ QueuedWhenAsked' /\ OneRecordEach'
    BY DEF QueuedByOwner, QueuedWhenAsked, OneRecordEach, Wrote, Committed, QueueCall
  <2>4. CreationsKept' /\ RecordsAuthored' /\ ReadsMarked' /\ CommitsKept'
    BY DEF CreationsKept, RecordsAuthored, ReadsMarked, CommitsKept, Created, Wrote, Committed,
           Installed
  <2>5. Serializable'
    <3> SUFFICES ASSUME NEW t \in Time, NEW p \in Ptr, readCache[t][p] # NoValue
                 PROVE  Store!ValueBefore(p, t, readCache[t][p])'
      BY DEF Serializable, Store!SerialReads
    <3>1. \A w \in Time : Effect(w, p)' = Effect(w, p) /\ Committed(w)' = Committed(w)
      BY DEF Effect, Committed
    <3>2. Store!WritersBefore(p, t)' = Store!WritersBefore(p, t)
      BY <3>1 DEF Store!WritersBefore
    <3>3. Store!ValueBefore(p, t, readCache[t][p])
      BY DEF Serializable, Store!SerialReads
    <3>4. QED
      BY <3>1, <3>2, <3>3 DEF Store!ValueBefore, Store!WritersBefore
  <2>6. QED
    BY <2>1, <2>2, <2>3, <2>4, <2>5
<1>3. QED
  BY <1>1, <1>2

(* The invariant holds of every run, for any number of transactions and      *)
(* pointers, with crashes, lost and reordered calls and strangers' cleanups. *)
THEOREM RestmInvariantHolds == Spec => []IInv
  BY Initially, Step, PTL DEF Spec

(* Every read of every transaction is, and stays, what a serial execution in *)
(* timestamp order reads, though locks, marks and records are each known to  *)
(* one pointer only (MemActor.scala:93-115, 159-197).                        *)
THEOREM ReadsAreSerializable == Spec => []Serializable
  BY RestmInvariantHolds, PTL DEF IInv

(* A decided write is on record, or waits under its registered lock for      *)
(* whoever cleans up (RestmImpl.scala:58-74).                                *)
THEOREM CommittedWritesAreSafe == Spec => []CommittedWritesSafe
<1>1. IInv => CommittedWritesSafe
  <2> SUFFICES ASSUME IInv, NEW t \in Time, NEW p \in Ptr, Committed(t), Wrote(t, p)
               PROVE  \/ Installed(t, p)
                      \/ /\ writeLock[p] = t
                         /\ queuedValue[p] = writeCache[t][p]
                         /\ p \in txnLocks[t]
    BY DEF CommittedWritesSafe, Wrote
  <2>1. p \in txnLocks[t]
    BY DEF IInv, LocksKept, Committed
  <2>2. QED
    BY <2>1 DEF IInv, CommitsKept
<1>2. QED
  BY <1>1, RestmInvariantHolds, PTL

(* What a reader can find was committed, or is its pointer's first value     *)
(* (MemActor.scala:117-157, 199-236).                                        *)
THEOREM OnlyCommittedOnRecord == Spec => []NothingUncommitted
<1>1. IInv => NothingUncommitted
  BY DEF IInv, RecordsAuthored, NothingUncommitted
<1>2. QED
  BY <1>1, RestmInvariantHolds, PTL

-----------------------------------------------------------------------------
(* The refinement.                                                           *)

(* TxnActor.setState, asked by the owner, is the commit of the abstract      *)
(* store.                                                                    *)
LEMMA CommitsStore ==
  ASSUME IInv, NEW t \in Time, ~Committed(t), CommitTxn(t) \/ CommitReplyLost(t)
  PROVE  Store!CommitStore(t)
<1> USE DEF IInv
<1>1. /\ txnState[t] = "OPEN" /\ txnState' = [txnState EXCEPT ![t] = "COMMIT"]
      /\ UNCHANGED <<readCache, initCache, writeCache>>
  BY DEF CommitTxn, CommitReplyLost, SetState, Committed
<1>2. Store!Undisturbed(t)
  BY <1>1, CommitUndisturbed DEF Store!Undisturbed
<1>3. {u \in Time : Committed(u)}' = {u \in Time : Committed(u)} \cup {t}
  BY <1>1 DEF Committed, RestmTypeOK, TxnTypeOK
<1>4. [u \in Time |-> [p \in Ptr |-> Effect(u, p)]]' = [u \in Time |-> [p \in Ptr |-> Effect(u, p)]]
  BY <1>1 DEF Effect
<1>5. QED
  BY <1>1, <1>2, <1>3, <1>4 DEF Store!CommitStore

(* An answered read is a read of the abstract store.                         *)
LEMMA ReadsStore ==
  ASSUME IInv, NEW t \in Time, NEW p \in Ptr, Read(t, p)
  PROVE  \E v \in Result : Store!ReadStore(t, p, v)
<1> USE DEF IInv
<1>1. PICK v \in Result : GetValue(p, t, v) /\ readCache' = [readCache EXCEPT ![t][p] = v]
  BY DEF Read
<1>2. ~Committed(t) /\ readCache[t][p] = NoValue
  BY DEF Read, CallsFollowDecision, Seen
<1>3. Store!ValueBefore(p, t, v)
  BY <1>1, ReadSerial DEF Read
<1>4. UNCHANGED <<txnState, initCache, writeCache>>
  BY DEF Read, txnVars
<1>5. /\ {u \in Time : Committed(u)}' = {u \in Time : Committed(u)}
      /\ [u \in Time |-> [q \in Ptr |-> Effect(u, q)]]'
           = [u \in Time |-> [q \in Ptr |-> Effect(u, q)]]
  BY <1>4 DEF Committed, Effect
<1>6. Store!ReadStore(t, p, v)
  BY <1>1, <1>2, <1>3, <1>5 DEF Store!ReadStore
<1>7. QED
  BY <1>6

(* A creation or a write is a write of the abstract store.                   *)
LEMMA WritesStore ==
  ASSUME IInv, NEW t \in Time, NEW p \in Ptr, NewPtr(t, p) \/ Put(t, p)
  PROVE  \E v \in Result : Store!WriteStore(t, p, v)
<1> USE Constants DEF IInv, RestmTypeOK
<1> DEFINE e == [u \in Time |-> [q \in Ptr |-> Effect(u, q)]]
<1>1. UNCHANGED <<txnState, readCache>> /\ ~Committed(t)
  BY DEF NewPtr, Put, txnVars, CallsFollowDecision
<1>2. {u \in Time : Committed(u)}' = {u \in Time : Committed(u)}
  BY <1>1 DEF Committed
<1>3. ASSUME NEW v \in Result, Effect(t, p)' = v,
             \A u \in Time, q \in Ptr : u # t \/ q # p => Effect(u, q)' = Effect(u, q)
      PROVE  Store!WriteStore(t, p, v)
  <2>1. [e EXCEPT ![t][p] = v]
          = [u \in Time |-> [q \in Ptr |-> IF u = t /\ q = p THEN v ELSE Effect(u, q)]]
    OBVIOUS
  <2>2. \A u \in Time, q \in Ptr : Effect(u, q)' = IF u = t /\ q = p THEN v ELSE Effect(u, q)
    BY <1>3
  <2>3. \A u \in Time :
          [q \in Ptr |-> Effect(u, q)]' = [q \in Ptr |-> IF u = t /\ q = p THEN v ELSE Effect(u, q)]
    BY <2>2
  <2>4. e' = [u \in Time |-> [q \in Ptr |-> IF u = t /\ q = p THEN v ELSE Effect(u, q)]]
    BY <2>3
  <2>5. e' = [e EXCEPT ![t][p] = v]
    BY <2>1, <2>4
  <2>6. QED
    BY <1>1, <1>2, <2>5 DEF Store!WriteStore
<1>4. CASE NewPtr(t, p)
  <2>1. PICK v \in Value : initCache' = [initCache EXCEPT ![t][p] = v]
    BY <1>4 DEF NewPtr
  <2>2. UNCHANGED writeCache /\ writeCache[t][p] = NoValue
    BY <1>4 DEF NewPtr, FreshUntouched, LocksKept, Wrote
  <2>3. Effect(t, p)' = v
    BY <2>1, <2>2 DEF Effect
  <2>4. \A u \in Time, q \in Ptr : u # t \/ q # p => Effect(u, q)' = Effect(u, q)
    BY <2>1, <2>2 DEF Effect
  <2>5. v \in Result
    BY DEF Result
  <2>6. QED
    BY <1>3, <2>3, <2>4, <2>5
<1>5. CASE Put(t, p)
  <2>1. PICK v \in Stores(t, p) : writeCache' = [writeCache EXCEPT ![t][p] = v]
    BY <1>5 DEF Put
  <2>2. v \in Result /\ UNCHANGED initCache
    BY <1>5, <2>1 DEF Put
  <2>3. Effect(t, p)' = v
    BY <2>1, <2>2 DEF Effect
  <2>4. \A u \in Time, q \in Ptr : u # t \/ q # p => Effect(u, q)' = Effect(u, q)
    BY <2>1, <2>2 DEF Effect
  <2>5. QED
    BY <1>3, <2>2, <2>3, <2>4
<1>6. QED
  BY <1>4, <1>5

(* Everything else is invisible to the clients: locks, queued values,        *)
(* installations, cleanups, faults.                                          *)
LEMMA OthersStutter ==
  ASSUME IInv, Next,
         \A t \in Time : CommitTxn(t) \/ CommitReplyLost(t) => Committed(t),
         \A t \in Time, p \in Ptr : ~Read(t, p) /\ ~NewPtr(t, p) /\ ~Put(t, p)
  PROVE  UNCHANGED Store!storeVars
<1>1. RestmTypeOK /\ RestmTypeOK'
  BY TypeStep DEF IInv
<1>2. \A t \in Time, p \in Ptr : /\ readCache'[t][p] = readCache[t][p]
                                 /\ initCache'[t][p] = initCache[t][p]
                                 /\ writeCache'[t][p] = writeCache[t][p]
  BY CacheStep DEF IInv
<1>3. readCache' = readCache /\ initCache' = initCache /\ writeCache' = writeCache
  BY <1>1, <1>2 DEF RestmTypeOK
<1>4. \A t \in Time : Committed(t)' <=> Committed(t)
  BY DecisionStays DEF IInv
<1>5. {t \in Time : Committed(t)}' = {t \in Time : Committed(t)}
  BY <1>4
<1>6. [t \in Time |-> [p \in Ptr |-> Effect(t, p)]]' = [t \in Time |-> [p \in Ptr |-> Effect(t, p)]]
  BY <1>3 DEF Effect
<1>7. QED
  BY <1>3, <1>5, <1>6 DEF Store!storeVars

(* The code implements the abstract store: a transaction takes effect in one *)
(* instant, TxnActor.setState (TxnActor.scala), whatever becomes of its      *)
(* coordinator and its calls (RestmImpl.scala:43-110).                       *)
THEOREM RestmImplementsStore == Spec => ImplementsSerialStore
<1>1. Init => Store!StoreInit
  BY DEF Init, TxnInit, Store!StoreInit, Effect, Committed
<1>2. IInv /\ Next => Store!StoreNext \/ UNCHANGED Store!storeVars
  <2> SUFFICES ASSUME IInv, Next
               PROVE  Store!StoreNext \/ UNCHANGED Store!storeVars
    OBVIOUS
  <2>1. CASE \E t \in Time : ~Committed(t) /\ (CommitTxn(t) \/ CommitReplyLost(t))
    BY <2>1, CommitsStore DEF Store!StoreNext
  <2>2. CASE \E t \in Time, p \in Ptr : Read(t, p)
    <3>1. PICK t \in Time, p \in Ptr : Read(t, p)
      BY <2>2
    <3>2. \E v \in Result : Store!ReadStore(t, p, v)
      BY <3>1, ReadsStore
    <3>3. QED
      BY <3>2 DEF Store!StoreNext, Store!Result, Result
  <2>3. CASE \E t \in Time, p \in Ptr : NewPtr(t, p) \/ Put(t, p)
    <3>1. PICK t \in Time, p \in Ptr : NewPtr(t, p) \/ Put(t, p)
      BY <2>3
    <3>2. \E v \in Result : Store!WriteStore(t, p, v)
      BY <3>1, WritesStore
    <3>3. QED
      BY <3>2 DEF Store!StoreNext, Store!Result, Result
  <2>4. QED
    BY <2>1, <2>2, <2>3, OthersStutter
<1>3. UNCHANGED vars => UNCHANGED Store!storeVars
  BY DEF vars, clientVars, txnVars, Store!storeVars, Effect, Committed
<1>4. IInv /\ [Next]_vars => [Store!StoreNext]_(Store!storeVars)
  BY <1>2, <1>3
<1>5. QED
  BY <1>1, <1>4, RestmInvariantHolds, PTL DEF Spec, ImplementsSerialStore, Store!StoreSpec
=============================================================================
