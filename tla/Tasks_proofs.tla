---------------------------- MODULE Tasks_proofs ----------------------------
(* Proofs about the task layer.  Tasks, for every graph of tasks, every      *)
(* number of executors and every fault: a task has one runner at a time;     *)
(* while no reply was lost, it runs once its triggers are complete and its   *)
(* outcome stays; and where no two tasks wait for the same one, a task that  *)
(* can run is queued.  Daemons: what stop answers for is still.              *)
EXTENDS Tasks, Daemons, FiniteSetTheorems, TLAPS

-----------------------------------------------------------------------------
(* One runner.  The queue plays no part in the argument: whatever it holds,  *)
(* obtainTask keeps the second runner out as long as the first is on record. *)

(* Subscribing changes subscribers only.                                     *)
LEMMA SubscribedKeeps ==
  ASSUME NEW d, NEW t \in DOMAIN d, \A u \in DOMAIN d : d[u] \in TaskData(DOMAIN d)
  PROVE  /\ DOMAIN Subscribed(d, t) = DOMAIN d
         /\ \A u \in DOMAIN d : /\ Subscribed(d, t)[u] \in TaskData(DOMAIN d)
                                /\ Subscribed(d, t)[u].executor = d[u].executor
BY DEF Subscribed, TaskData

LEMMA AddedType ==
  ASSUME NEW q \in [Task -> Nat], NEW T
  PROVE  Added(q, T) \in [Task -> Nat]
BY DEF Added

(* What the steps do to data and queue together: the domain grows, records   *)
(* keep their type, and executors are kept but for those named.              *)
LEMMA CreateStep ==
  ASSUME TasksTypeOK, NEW t \in Task, Create(t)
  PROVE  /\ Made' = Made \cup {t} /\ t \notin Made
         /\ \A u \in Made' : data'[u] \in TaskData(Made')
         /\ \A u \in Made : data'[u].executor = data[u].executor
         /\ queue' \in [Task -> Nat]
<1> DEFINE d == [u \in Made \cup {t} |-> IF u = t THEN NewTask(t) ELSE data[u]]
<1>1. DOMAIN d = Made \cup {t} /\ t \notin Made /\ Ancestors[t] \subseteq Made
  BY DEF Create
<1>2. \A u \in DOMAIN d : d[u] \in TaskData(DOMAIN d)
  <2>1. NewTask(t) \in TaskData(DOMAIN d)
    BY <1>1 DEF NewTask, TaskData
  <2>2. \A u \in Made : data[u] \in TaskData(DOMAIN d)
    BY <1>1 DEF TasksTypeOK, TaskData
  <2> QED BY <1>1, <2>1, <2>2
<1>3. \A u \in Made : d[u] = data[u]
  BY <1>1
<1>4. data' = Subscribed(d, t) /\ queue' = Added(queue, IfCanRun(Subscribed(d, t), t))
  BY DEF Create
<1> HIDE DEF d
<1>5. /\ DOMAIN data' = DOMAIN d
      /\ \A u \in DOMAIN d : /\ data'[u] \in TaskData(DOMAIN d)
                             /\ data'[u].executor = d[u].executor
  BY <1>1, <1>2, <1>4, SubscribedKeeps
<1>6. queue' \in [Task -> Nat]
  BY <1>4, AddedType DEF TasksTypeOK
<1> QED BY <1>1, <1>3, <1>5, <1>6 DEF Made

(* A completion changes the executor of its own task only.                   *)
LEMMA OutcomeStep ==
  ASSUME TasksTypeOK, NEW t \in Made, NEW d, NEW own, Complete(t, d, own),
         d \in {Success(t), Failure(t)}
  PROVE  /\ Made' = Made
         /\ \A u \in Made : data'[u] \in TaskData(Made) /\ data'[u].executor = data[u].executor
         /\ queue' \in [Task -> Nat]
<1>1. queue' \in [Task -> Nat]
  BY AddedType DEF Complete, TasksTypeOK
<1>2. data' = Success(t) \/ data' = Failure(t)
  BY DEF Complete
<1>3. \A u \in Made : data[u] \in TaskData(Made)
  BY DEF TasksTypeOK
<1>4. CASE data' = Success(t)
  <2>1. DOMAIN data' = DOMAIN data
    BY <1>4 DEF Success
  <2>2. \A u \in Made : /\ data'[u] \in TaskData(Made)
                       /\ data'[u].executor = data[u].executor
    BY <1>3, <1>4 DEF Success, TaskData, Made
  <2> QED BY <1>1, <2>1, <2>2 DEF Made
<1>5. CASE data' = Failure(t)
  <2>1. DOMAIN data' = DOMAIN data
    BY <1>5 DEF Failure
  <2>2. \A u \in Made : /\ data'[u] \in TaskData(Made)
                       /\ data'[u].executor = data[u].executor
    BY <1>3, <1>5 DEF Failure, TaskData, Made
  <2> QED BY <1>1, <2>1, <2>2 DEF Made
<1> QED BY <1>2, <1>4, <1>5

LEMMA ContinueStep ==
  ASSUME TasksTypeOK, NEW t \in Made, Children[t] \subseteq Made, NEW own,
         Complete(t, Continue(t), own)
  PROVE  /\ Made' = Made
         /\ \A u \in Made : data'[u] \in TaskData(Made)
         /\ \A u \in Made \ {t} : data'[u].executor = data[u].executor
         /\ queue' \in [Task -> Nat]
<1> DEFINE d == [data EXCEPT ![t] = [@ EXCEPT !.part = 1, !.executor = NoOne,
                                              !.triggers = Children[t]]]
<1>1. queue' \in [Task -> Nat]
  BY AddedType DEF Complete, TasksTypeOK
<1>2. data' = Subscribed(d, t)
  BY DEF Complete, Continue
<1>3. DOMAIN d = Made
  BY DEF Made
<1>4. \A u \in Made : d[u] \in TaskData(Made)
  BY DEF TasksTypeOK, TaskData, Made
<1>5. \A u \in Made \ {t} : d[u] = data[u]
  BY DEF Made
<1> HIDE DEF d
<1>6. /\ DOMAIN data' = DOMAIN d
      /\ \A u \in DOMAIN d : /\ data'[u] \in TaskData(DOMAIN d)
                             /\ data'[u].executor = d[u].executor
  BY <1>2, <1>3, <1>4, SubscribedKeeps
<1> QED BY <1>1, <1>3, <1>5, <1>6 DEF Made

(* A completion after a run: the run's task is made, and its executor is the *)
(* only one whose record may go.                                             *)
LEMMA ReturnsStep ==
  ASSUME TasksTypeOK, NEW e \in Executor, Returns(e)
  PROVE  /\ run[e].task \in Made /\ run' = [run EXCEPT ![e] = Idle]
         /\ Made' = Made
         /\ \A u \in Made : data'[u] \in TaskData(Made)
         /\ \A u \in Made \ {run[e].task} : data'[u].executor = data[u].executor
         /\ queue' \in [Task -> Nat]
<1> DEFINE t == run[e].task
<1>1. t \in Made /\ run' = [run EXCEPT ![e] = Idle] /\ run[e].made \subseteq Made
  BY DEF Returns, Busy, TasksTypeOK
<1>2. CASE run[e].made = Children[t] /\ Complete(t, Continue(t), IfCanRun(Continue(t), t))
  BY <1>1, <1>2, ContinueStep
<1>3. CASE Complete(t, Success(t), {})
  BY <1>1, <1>3, OutcomeStep
<1> QED BY <1>1, <1>2, <1>3 DEF Returns

-----------------------------------------------------------------------------
(* The invariant: the types, and one runner for each task, whose executor is *)
(* on record.                                                                *)
IInv == TasksTypeOK /\ OneRunner

LEMMA InitHolds == Init => IInv
BY TasksAssumption DEF Init, IInv, TasksTypeOK, OneRunner, Made, Busy, Idle

(* A step that leaves every run alone, or only frees runners, and keeps the  *)
(* executors of the tasks still run.                                         *)
LEMMA RunsKept ==
  ASSUME OneRunner,
         \A f \in Executor : f \in Busy' => f \in Busy /\ run'[f].task = run[f].task,
         \A f \in Busy' : data'[run[f].task].executor = data[run[f].task].executor
  PROVE  OneRunner'
BY DEF OneRunner, Busy

FaultsType == [number : 0..MaxFaults, lost : BOOLEAN]

LEMMA FaultStep == ASSUME TasksTypeOK, NEW kind, Fault(kind) PROVE faults' \in FaultsType
BY TasksAssumption DEF TasksTypeOK, Fault, FaultsType

LEMMA StepHolds == IInv /\ [Next]_vars => IInv'
<1> SUFFICES ASSUME IInv, [Next]_vars PROVE IInv'
  OBVIOUS
<1> USE DEF IInv
<1>0. /\ TasksTypeOK /\ OneRunner
      /\ \A e \in Busy : run[e].task \in Made /\ e \in Executor
  BY DEF TasksTypeOK, Busy
<1>1. ASSUME NEW t \in Task, ByClient(t) PROVE IInv'
  <2>1. Create(t) /\ UNCHANGED <<run, failing, faults>>
    BY <1>1 DEF ByClient
  <2>2. /\ Made' = Made \cup {t}
        /\ \A u \in Made' : data'[u] \in TaskData(Made')
        /\ \A u \in Made : data'[u].executor = data[u].executor
        /\ queue' \in [Task -> Nat]
    BY <2>1, CreateStep
  <2>3. TasksTypeOK'
    BY <2>1, <2>2 DEF TasksTypeOK
  <2>4. OneRunner'
    BY <1>0, <2>1, <2>2, RunsKept DEF Busy
  <2> QED BY <2>3, <2>4
<1>2. ASSUME NEW t \in Task, Fail(t) PROVE IInv'
  <2>1. /\ t \in Made /\ Complete(t, Failure(t), {}) /\ UNCHANGED <<run, faults>>
        /\ failing' = failing \ {t}
    BY <1>2 DEF Fail, TasksTypeOK
  <2>2. /\ Made' = Made
        /\ \A u \in Made : data'[u] \in TaskData(Made) /\ data'[u].executor = data[u].executor
        /\ queue' \in [Task -> Nat]
    BY <2>1, OutcomeStep
  <2>3. TasksTypeOK'
    BY <2>1, <2>2 DEF TasksTypeOK
  <2>4. OneRunner'
    BY <1>0, <2>1, <2>2, RunsKept DEF Busy
  <2> QED BY <2>3, <2>4
<1>3. ASSUME NEW t \in Task, DropFailure(t) PROVE IInv'
  <2>1. UNCHANGED <<data, queue, run>> /\ failing' = failing \ {t} /\ faults' \in FaultsType
    BY <1>0, <1>3, FaultStep DEF DropFailure
  <2>2. TasksTypeOK'
    BY <2>1 DEF TasksTypeOK, FaultsType, Made
  <2>3. OneRunner'
    BY <1>0, <2>1, RunsKept DEF Busy
  <2> QED BY <2>2, <2>3
<1>4. ASSUME NEW e \in Executor, NEW t \in Made, Take(e, t) PROVE IInv'
  <2>1. queue' \in [Task -> Nat] /\ UNCHANGED <<failing, faults>> /\ e \notin Busy
    BY <1>4 DEF Take, TasksTypeOK
  <2>2. CASE UNCHANGED <<data, run>>
    <3>1. TasksTypeOK'
      BY <2>1, <2>2 DEF TasksTypeOK, Made
    <3>2. OneRunner'
      BY <1>0, <2>2, RunsKept DEF Busy
    <3> QED BY <3>1, <3>2
  <2>3. CASE /\ Obtainable(t)
             /\ data' = [data EXCEPT ![t].executor = e]
             /\ run' = [run EXCEPT ![e] = [task |-> t, part |-> data[t].part, made |-> {}]]
    <3>1. /\ Made' = Made
          /\ data[t].part \in {0, 1}
          /\ \A u \in Made : data'[u] \in TaskData(Made)
      BY <2>3 DEF TasksTypeOK, TaskData, Made
    <3>2. TasksTypeOK'
      BY <2>1, <2>3, <3>1 DEF TasksTypeOK
    <3>3. \A u \in Made \ {t} : data'[u].executor = data[u].executor
      BY <2>3 DEF Made
    <3>4. data'[t].executor = e
      BY <2>3 DEF Made, TasksTypeOK, TaskData
    <3>5. \A f \in Busy : run[f].task # t
      BY <2>3, <1>0, TasksAssumption DEF Obtainable, OneRunner
    <3>6. \A f \in Executor \ {e} : run'[f] = run[f]
      BY <2>3 DEF TasksTypeOK
    <3>7. run'[e].task = t
      BY <2>3 DEF TasksTypeOK
    <3>8. Busy' = Busy \cup {e}
      BY <3>6, <3>7, TasksAssumption DEF Busy, TasksTypeOK
    <3>9. OneRunner'
      BY <1>0, <2>1, <3>3, <3>4, <3>5, <3>6, <3>7, <3>8 DEF OneRunner
    <3> QED BY <3>2, <3>9
  <2> QED BY <1>4, <2>2, <2>3 DEF Take
<1>5. ASSUME NEW e \in Executor, NEW c \in Task, ByFunction(e, c) PROVE IInv'
  <2>1. /\ Create(c) /\ UNCHANGED <<failing, faults>>
        /\ run' = [run EXCEPT ![e].made = @ \cup {c}]
    BY <1>5 DEF ByFunction
  <2>2. /\ Made' = Made \cup {c}
        /\ \A u \in Made' : data'[u] \in TaskData(Made')
        /\ \A u \in Made : data'[u].executor = data[u].executor
        /\ queue' \in [Task -> Nat]
    BY <2>1, CreateStep
  <2>3. \A f \in Executor : run'[f].task = run[f].task
    BY <2>1 DEF TasksTypeOK
  <2>4. run' \in [Executor -> [task : Made' \cup {NoOne}, part : {0, 1}, made : SUBSET Made']]
    BY <2>1, <2>2 DEF TasksTypeOK
  <2>5. TasksTypeOK'
    BY <2>1, <2>2, <2>4 DEF TasksTypeOK
  <2>6. OneRunner'
    BY <1>0, <2>2, <2>3, RunsKept DEF Busy
  <2> QED BY <2>5, <2>6
<1>6. ASSUME NEW e \in Executor, Returns(e), faults' \in FaultsType,
             failing' = failing \/ failing' = failing \cup {run[e].task}
      PROVE  IInv'
  <2>1. /\ run[e].task \in Made /\ run' = [run EXCEPT ![e] = Idle]
        /\ Made' = Made
        /\ \A u \in Made : data'[u] \in TaskData(Made)
        /\ \A u \in Made \ {run[e].task} : data'[u].executor = data[u].executor
        /\ queue' \in [Task -> Nat]
    BY <1>0, <1>6, ReturnsStep
  <2>2. Idle \in [task : Made \cup {NoOne}, part : {0, 1}, made : SUBSET Made]
    BY DEF Idle
  <2>3. TasksTypeOK'
    BY <1>6, <2>1, <2>2 DEF TasksTypeOK, FaultsType
  <2>4. e \notin Busy' /\ \A f \in Executor \ {e} : run'[f] = run[f]
    BY <2>1 DEF Busy, Idle, TasksTypeOK
  <2>5. e \in Busy
    BY <1>6 DEF Returns
  <2>6. \A f \in Busy' : f \in Busy /\ f # e /\ run[f].task # run[e].task
    BY <1>0, <2>4, <2>5 DEF Busy, OneRunner
  <2>7. OneRunner'
    BY <1>0, <2>1, <2>4, <2>6, RunsKept
  <2> QED BY <2>3, <2>7
<1>7. ASSUME NEW e \in Executor, e \in Busy, UNCHANGED <<data, queue>>,
             run' = [run EXCEPT ![e] = Idle], faults' \in FaultsType,
             failing' = failing \/ failing' = failing \cup {run[e].task}
      PROVE  IInv'
  <2>1. Idle \in [task : Made \cup {NoOne}, part : {0, 1}, made : SUBSET Made]
    BY DEF Idle
  <2>2. TasksTypeOK'
    BY <1>0, <1>7, <2>1 DEF TasksTypeOK, FaultsType, Made
  <2>3. e \notin Busy' /\ \A f \in Executor \ {e} : run'[f] = run[f]
    BY <1>7 DEF Busy, Idle, TasksTypeOK
  <2>4. OneRunner'
    BY <1>0, <1>7, <2>3, RunsKept DEF Busy
  <2> QED BY <2>2, <2>4
<1>8. ASSUME NEW e \in Executor, Finish(e) \/ LoseReply(e) PROVE IInv'
  BY <1>0, <1>6, <1>8, FaultStep DEF Finish, LoseReply, FaultsType, TasksTypeOK
<1>9. ASSUME NEW e \in Executor, Throw(e) \/ Crash(e) PROVE IInv'
  BY <1>0, <1>7, <1>9, FaultStep DEF Throw, Crash, FaultsType, TasksTypeOK
<1>10. CASE UNCHANGED vars
  <2>1. TasksTypeOK'
    BY <1>10 DEF vars, TasksTypeOK, Made
  <2>2. OneRunner'
    BY <1>10 DEF vars, OneRunner, Busy
  <2> QED BY <2>1, <2>2
<1> QED BY <1>1, <1>2, <1>3, <1>4, <1>5, <1>8, <1>9, <1>10 DEF Next, Step

(* Whatever functions throw, executors stop and replies are lost, a task     *)
(* never has two runners, and its runner is the executor on its record       *)
(* (obtainTask and complete, Task.scala:143-153,235-264).                    *)
THEOREM TaskHasOneRunner == Spec => []OneRunner
<1>1. Spec => []IInv
  BY InitHolds, StepHolds, PTL DEF Spec
<1>2. IInv => OneRunner
  BY DEF IInv
<1> QED BY <1>1, <1>2, PTL

(* Every record, run and report names tasks that were made, and entries of   *)
(* the queue are counted (TaskData, Task.scala:375-382).                     *)
THEOREM TasksTyped == Spec => []TasksTypeOK
<1>1. Spec => []IInv
  BY InitHolds, StepHolds, PTL DEF Spec
<1>2. IInv => TasksTypeOK
  BY DEF IInv
<1> QED BY <1>1, <1>2, PTL

-----------------------------------------------------------------------------
(* What the steps do to the records of tasks, field by field.                *)
Kept(e, f) ==
  /\ e.part = f.part /\ e.executor = f.executor
  /\ e.result = f.result /\ e.exception = f.exception
  /\ e.triggers = f.triggers
Joined(e, f, joins, t) ==
  e.subscribers = IF joins THEN f.subscribers \cup {t} ELSE f.subscribers
Untouched(u) == Kept(data'[u], data[u])
SubscribersPlus(u, T, t) == Joined(data'[u], data[u], u \in T, t)

LEMMA SubscribedFields ==
  ASSUME NEW d, NEW t \in DOMAIN d, \A u \in DOMAIN d : d[u] \in TaskData(DOMAIN d),
         NEW u \in DOMAIN d
  PROVE  /\ Kept(Subscribed(d, t)[u], d[u])
         /\ Joined(Subscribed(d, t)[u], d[u], u \in d[t].triggers, t)
BY DEF Subscribed, TaskData, Kept, Joined

LEMMA CreateDoes ==
  ASSUME TasksTypeOK, NEW t \in Task, Create(t)
  PROVE  /\ Made' = Made \cup {t} /\ t \notin Made /\ Ancestors[t] \subseteq Made
         /\ \A u \in Made : Untouched(u) /\ SubscribersPlus(u, Ancestors[t], t)
         /\ data'[t].part = 0 /\ data'[t].executor = NoOne
         /\ data'[t].result = FALSE /\ data'[t].exception = FALSE
         /\ data'[t].triggers = Ancestors[t] /\ data'[t].subscribers = {}
         /\ queue' = Added(queue, IfCanRun(data', t))
<1> DEFINE d == [u \in Made \cup {t} |-> IF u = t THEN NewTask(t) ELSE data[u]]
<1>1. DOMAIN d = Made \cup {t} /\ t \notin Made /\ Ancestors[t] \subseteq Made
  BY DEF Create
<1>2. \A u \in DOMAIN d : d[u] \in TaskData(DOMAIN d)
  <2>1. NewTask(t) \in TaskData(DOMAIN d)
    BY <1>1 DEF NewTask, TaskData
  <2>2. \A u \in Made : data[u] \in TaskData(DOMAIN d)
    BY <1>1 DEF TasksTypeOK, TaskData
  <2> QED BY <1>1, <2>1, <2>2
<1>3. (\A u \in Made : d[u] = data[u]) /\ d[t] = NewTask(t)
  BY <1>1
<1>4. data' = Subscribed(d, t) /\ queue' = Added(queue, IfCanRun(Subscribed(d, t), t))
  BY DEF Create
<1>5. /\ d[t].part = 0 /\ d[t].executor = NoOne /\ d[t].result = FALSE /\ d[t].exception = FALSE
      /\ d[t].triggers = Ancestors[t] /\ d[t].subscribers = {}
  BY <1>3 DEF NewTask
<1> HIDE DEF d
<1>6. Made' = DOMAIN d
  BY <1>4 DEF Made, Subscribed
<1>7. \A u \in Made : Untouched(u) /\ SubscribersPlus(u, Ancestors[t], t)
  <2> SUFFICES ASSUME NEW u \in Made PROVE Untouched(u) /\ SubscribersPlus(u, Ancestors[t], t)
    OBVIOUS
  <2>1. Kept(data'[u], d[u]) /\ Joined(data'[u], d[u], u \in d[t].triggers, t)
    BY <1>1, <1>2, <1>4, SubscribedFields
  <2>2. d[u] = data[u] /\ d[t].triggers = Ancestors[t]
    BY <1>3, <1>5
  <2> QED BY <2>1, <2>2 DEF Untouched, SubscribersPlus
<1>8. /\ data'[t].part = 0 /\ data'[t].executor = NoOne
      /\ data'[t].result = FALSE /\ data'[t].exception = FALSE
      /\ data'[t].triggers = Ancestors[t] /\ data'[t].subscribers = {}
  <2>1. Kept(data'[t], d[t]) /\ Joined(data'[t], d[t], t \in d[t].triggers, t)
    BY <1>1, <1>2, <1>4, SubscribedFields
  <2> QED BY <1>1, <1>5, <2>1 DEF Kept, Joined
<1> QED BY <1>1, <1>4, <1>6, <1>7, <1>8

Resumable(r, T) == [r EXCEPT !.part = 1, !.executor = NoOne, !.triggers = T]
Continued(f, r, T) ==
  /\ f.part = 1 /\ f.executor = NoOne /\ f.triggers = T
  /\ f.result = r.result /\ f.exception = r.exception
  /\ f.subscribers = r.subscribers

LEMMA ContinuedFields ==
  ASSUME NEW M, NEW r \in TaskData(M), NEW T
  PROVE  Continued(Resumable(r, T), r, T)
BY DEF TaskData, Continued, Resumable

LEMMA ContinueDoes ==
  ASSUME TasksTypeOK, NEW t \in Made, Children[t] \subseteq Made, data' = Continue(t)
  PROVE  /\ Made' = Made
         /\ \A u \in Made \ {t} : Untouched(u)
         /\ \A u \in Made : SubscribersPlus(u, Children[t], t)
         /\ data'[t].part = 1 /\ data'[t].executor = NoOne
         /\ data'[t].result = data[t].result /\ data'[t].exception = data[t].exception
         /\ data'[t].triggers = Children[t]
<1> DEFINE d == [data EXCEPT ![t] = [@ EXCEPT !.part = 1, !.executor = NoOne,
                                              !.triggers = Children[t]]]
<1>1. data' = Subscribed(d, t)
  BY DEF Continue
<1>2. DOMAIN d = Made
  BY DEF Made
<1>3. \A u \in Made : d[u] \in TaskData(Made)
  BY DEF TasksTypeOK, TaskData, Made
<1>4. \A u \in Made \ {t} : d[u] = data[u]
  BY DEF Made
<1>5. /\ d[t].part = 1 /\ d[t].executor = NoOne /\ d[t].triggers = Children[t]
      /\ d[t].result = data[t].result /\ d[t].exception = data[t].exception
      /\ d[t].subscribers = data[t].subscribers
  <2>1. d[t] = Resumable(data[t], Children[t])
    BY DEF Made, Resumable
  <2>2. data[t] \in TaskData(Made)
    BY DEF TasksTypeOK
  <2> HIDE DEF d
  <2>3. Continued(d[t], data[t], Children[t])
    BY <2>1, <2>2, ContinuedFields
  <2> QED BY <2>3 DEF Continued
<1> HIDE DEF d
<1>6. Made' = Made
  BY <1>1, <1>2 DEF Made, Subscribed
<1>7. \A u \in Made \ {t} : Untouched(u)
  BY <1>1, <1>2, <1>3, <1>4, SubscribedFields DEF Untouched, Kept
<1>8. \A u \in Made : SubscribersPlus(u, Children[t], t)
  <2> SUFFICES ASSUME NEW u \in Made PROVE SubscribersPlus(u, Children[t], t)
    OBVIOUS
  <2>1. Joined(data'[u], d[u], u \in d[t].triggers, t)
    BY <1>1, <1>2, <1>3, SubscribedFields
  <2>2. d[u].subscribers = data[u].subscribers /\ d[t].triggers = Children[t]
    BY <1>4, <1>5
  <2> QED BY <2>1, <2>2 DEF SubscribersPlus, Joined
<1>9. /\ data'[t].part = 1 /\ data'[t].executor = NoOne
      /\ data'[t].result = data[t].result /\ data'[t].exception = data[t].exception
      /\ data'[t].triggers = Children[t]
  <2>1. Kept(data'[t], d[t])
    BY <1>1, <1>2, <1>3, SubscribedFields
  <2> QED BY <1>5, <2>1 DEF Kept
<1> QED BY <1>6, <1>7, <1>8, <1>9

LEMMA OutcomeDoes ==
  ASSUME TasksTypeOK, NEW t \in Made, data' \in {Success(t), Failure(t)}
  PROVE  /\ Made' = Made /\ IsComplete(data', t)
         /\ \A u \in Made \ {t} : data'[u] = data[u]
         /\ data'[t].part = data[t].part /\ data'[t].executor = data[t].executor
         /\ data'[t].triggers = data[t].triggers /\ data'[t].subscribers = data[t].subscribers
<1>1. data[t] \in TaskData(Made)
  BY DEF TasksTypeOK
<1>2. CASE data' = Success(t)
  BY <1>1, <1>2 DEF Success, Made, IsComplete, TaskData
<1>3. CASE data' = Failure(t)
  BY <1>1, <1>3 DEF Failure, Made, IsComplete, TaskData
<1> QED BY <1>2, <1>3

-----------------------------------------------------------------------------
(* While no reply was lost.  The invariant relates the queue, the records,   *)
(* the runs and the reports:                                                 *)
(*   - a task waits for its ancestors in its first part, for its children in *)
(*     its second, and a run is of the part on record;                       *)
(*   - a task being run or reported is not complete, and not both;           *)
(*   - an entry of the queue is the only one of its task, which can run;     *)
(*   - a task taken could run, and a complete one was taken;                 *)
(*   - a subscriber of a task not complete waits for it.                     *)
TriggersByPart ==
  \A t \in Made : data[t].triggers = IF data[t].part = 0 THEN Ancestors[t] ELSE Children[t]
RunsByPart == \A e \in Busy : run[e].part = data[run[e].task].part
Exclusive ==
  /\ \A e \in Busy : ~IsComplete(data, run[e].task) /\ run[e].task \notin failing
  /\ \A t \in failing : ~IsComplete(data, t) /\ data[t].executor # NoOne
Queued == \A t \in Task : queue[t] > 0 => queue[t] = 1 /\ t \in Made /\ Runnable(t)
Taken ==
  \A t \in Made : /\ data[t].executor # NoOne => CanRun(data, t)
                  /\ IsComplete(data, t) => data[t].executor # NoOne
Awaited ==
  \A s, u \in Made : s \in data[u].subscribers /\ ~IsComplete(data, u) => u \in data[s].triggers

DataOnce == TriggersByPart /\ Queued /\ Taken /\ Awaited
RunOnce == RunsByPart /\ Exclusive
OnceInv == NoneLost => DataOnce /\ RunOnce

(* A subscriber of a task not complete is neither queued nor taken.          *)
LEMMA SubscribersWait ==
  ASSUME TasksTypeOK, DataOnce, NEW t \in Made, ~IsComplete(data, t),
         NEW s \in data[t].subscribers
  PROVE  /\ s \in Made /\ t \in data[s].triggers /\ ~CanRun(data, s)
         /\ data[s].executor = NoOne /\ ~IsComplete(data, s) /\ queue[s] = 0
<1>1. s \in Made
  BY DEF TasksTypeOK, TaskData
<1>2. t \in data[s].triggers
  BY <1>1 DEF DataOnce, Awaited
<1>3. ~CanRun(data, s)
  BY <1>2 DEF CanRun
<1>4. data[s].executor = NoOne /\ ~IsComplete(data, s)
  BY <1>1, <1>3 DEF DataOnce, Taken
<1>5. queue[s] = 0
  <2>1. ~(queue[s] > 0)
    BY <1>1, <1>3 DEF DataOnce, Queued, Runnable, TasksTypeOK
  <2> QED BY <1>1, <2>1 DEF TasksTypeOK
<1> QED BY <1>1, <1>2, <1>3, <1>4, <1>5

(* A task taken is not its own subscriber, unless it is complete.            *)
LEMMA NotItsOwn ==
  ASSUME TasksTypeOK, DataOnce, NEW t \in Made, ~IsComplete(data, t), data[t].executor # NoOne
  PROVE  t \notin data[t].subscribers /\ queue[t] = 0 /\ CanRun(data, t)
<1>1. t \notin data[t].subscribers
  BY SubscribersWait
<1>2. ~(queue[t] > 0)
  BY DEF DataOnce, Queued, Runnable, TasksTypeOK
<1> QED BY <1>1, <1>2 DEF TasksTypeOK, DataOnce, Taken

(* Records whose fields other than subscribers are kept are as complete.     *)
LEMMA UntouchedComplete ==
  ASSUME NEW u \in Made, u \in Made', Untouched(u)
  PROVE  IsComplete(data', u) <=> IsComplete(data, u)
BY DEF Untouched, Kept, IsComplete, Made

LEMMA CanStillRun ==
  ASSUME TasksTypeOK, NEW s \in Made, CanRun(data, s), data'[s].triggers = data[s].triggers,
         \A u \in Made : IsComplete(data, u) => IsComplete(data', u)
  PROVE  CanRun(data', s)
BY DEF CanRun, TasksTypeOK, TaskData

(* Making a task.                                                            *)
LEMMA CreateOnce ==
  ASSUME TasksTypeOK, DataOnce, NEW t \in Task, Create(t)
  PROVE  DataOnce'
<1>1. /\ Made' = Made \cup {t} /\ t \notin Made /\ Ancestors[t] \subseteq Made
      /\ \A u \in Made : Untouched(u) /\ SubscribersPlus(u, Ancestors[t], t)
      /\ data'[t].part = 0 /\ data'[t].executor = NoOne
      /\ data'[t].result = FALSE /\ data'[t].exception = FALSE
      /\ data'[t].triggers = Ancestors[t] /\ data'[t].subscribers = {}
      /\ queue' = Added(queue, IfCanRun(data', t))
  BY CreateDoes
<1>2. \A u \in Made : IsComplete(data', u) <=> IsComplete(data, u)
  BY <1>1, UntouchedComplete
<1>3. ~IsComplete(data', t)
  BY <1>1 DEF IsComplete
<1>4. \A u \in Made : /\ data'[u].triggers = data[u].triggers
                      /\ data'[u].part = data[u].part
                      /\ data'[u].executor = data[u].executor
  BY <1>1 DEF Untouched, Kept
<1>5. \A u \in Made : CanRun(data, u) => CanRun(data', u)
  BY <1>2, <1>4, CanStillRun
<1>6. TriggersByPart'
  BY <1>1, <1>4 DEF DataOnce, TriggersByPart
<1>7. Taken'
  <2>1. \A u \in Made : /\ data'[u].executor # NoOne => CanRun(data', u)
                        /\ IsComplete(data', u) => data'[u].executor # NoOne
    BY <1>2, <1>4, <1>5 DEF DataOnce, Taken
  <2> QED BY <1>1, <1>3, <2>1 DEF Taken
<1>8. Queued'
  <2> SUFFICES ASSUME NEW u \in Task, queue'[u] > 0
               PROVE  queue'[u] = 1 /\ u \in Made' /\ Runnable(u)'
    BY DEF Queued
  <2>1. CASE u = t
    <3>1. queue[t] = 0
      BY <1>1 DEF DataOnce, Queued, TasksTypeOK
    <3>2. queue'[t] = 1 /\ CanRun(data', t)
      BY <1>1, <2>1, <3>1 DEF Added, IfCanRun
    <3> QED BY <1>1, <1>3, <2>1, <3>2 DEF Runnable
  <2>2. CASE u # t
    <3>1. queue'[u] = queue[u]
      BY <1>1, <2>2 DEF Added, IfCanRun
    <3>2. queue[u] = 1 /\ u \in Made /\ Runnable(u)
      BY <3>1 DEF DataOnce, Queued
    <3> QED BY <1>1, <1>2, <1>4, <1>5, <3>1, <3>2 DEF Runnable
  <2> QED BY <2>1, <2>2
<1>9. Awaited'
  <2> SUFFICES ASSUME NEW s \in Made', NEW u \in Made',
                      s \in data'[u].subscribers, ~IsComplete(data', u)
               PROVE  u \in data'[s].triggers
    BY DEF Awaited
  <2>1. u \in Made
    BY <1>1
  <2>2. data[u].subscribers \subseteq Made
    BY <2>1 DEF TasksTypeOK, TaskData
  <2>3. Joined(data'[u], data[u], u \in Ancestors[t], t)
    BY <1>1, <2>1 DEF SubscribersPlus
  <2>4. CASE s = t
    BY <1>1, <2>2, <2>3, <2>4 DEF Joined
  <2>5. CASE s # t
    <3>1. s \in Made /\ s \in data[u].subscribers
      BY <1>1, <2>2, <2>3, <2>5 DEF Joined
    <3> QED BY <1>2, <1>4, <2>1, <3>1 DEF DataOnce, Awaited
  <2> QED BY <2>4, <2>5
<1> QED BY <1>6, <1>7, <1>8, <1>9 DEF DataOnce

(* A completion that records an outcome: the subscribers that can run now    *)
(* could not before, so none of them was queued.                             *)
LEMMA OutcomeOnce ==
  ASSUME TasksTypeOK, DataOnce, NEW t \in Made, ~IsComplete(data, t), data[t].executor # NoOne,
         NEW d, Complete(t, d, {}), d \in {Success(t), Failure(t)}
  PROVE  DataOnce'
<1>1. data' = d /\ data' \in {Success(t), Failure(t)}
  BY DEF Complete
<1>2. /\ Made' = Made /\ IsComplete(data', t)
      /\ \A u \in Made \ {t} : data'[u] = data[u]
      /\ data'[t].part = data[t].part /\ data'[t].executor = data[t].executor
      /\ data'[t].triggers = data[t].triggers /\ data'[t].subscribers = data[t].subscribers
  BY <1>1, OutcomeDoes
<1>3. PICK T \in SUBSET {s \in data[t].subscribers : CanRun(data', s)} :
        queue' = Added(Added(queue, {}), T)
  BY <1>1 DEF Complete, AddedSideBySide
<1>4. \A u \in Made \ {t} : IsComplete(data', u) <=> IsComplete(data, u)
  BY <1>2 DEF IsComplete, Made
<1>5. \A u \in Made : /\ data'[u].triggers = data[u].triggers
                      /\ data'[u].part = data[u].part
                      /\ data'[u].executor = data[u].executor
                      /\ data'[u].subscribers = data[u].subscribers
  BY <1>2
<1>6. \A u \in Made : IsComplete(data, u) => IsComplete(data', u)
  BY <1>2, <1>4
<1>7. \A u \in Made : CanRun(data, u) => CanRun(data', u)
  BY <1>5, <1>6, CanStillRun
<1>8. t \notin data[t].subscribers /\ queue[t] = 0
  BY NotItsOwn
<1>9. TriggersByPart'
  BY <1>2, <1>5 DEF DataOnce, TriggersByPart
<1>10. Taken'
  <2> SUFFICES ASSUME NEW u \in Made
               PROVE  /\ data'[u].executor # NoOne => CanRun(data', u)
                      /\ IsComplete(data', u) => data'[u].executor # NoOne
    BY <1>2 DEF Taken
  <2> QED BY <1>2, <1>4, <1>5, <1>7 DEF DataOnce, Taken
<1>11. Queued'
  <2> SUFFICES ASSUME NEW u \in Task, queue'[u] > 0
               PROVE  queue'[u] = 1 /\ u \in Made /\ Runnable(u)'
    BY <1>2 DEF Queued
  <2>1. CASE u \in T
    <3>1. /\ u \in Made /\ ~IsComplete(data, u) /\ data[u].executor = NoOne /\ queue[u] = 0
          /\ CanRun(data', u)
      BY <1>3, <2>1, SubscribersWait
    <3>2. u # t
      BY <1>8, <2>1
    <3>3. queue'[u] = 1
      BY <1>3, <2>1, <3>1 DEF Added
    <3> QED BY <1>4, <1>5, <3>1, <3>2, <3>3 DEF Runnable
  <2>2. CASE u \notin T
    <3>1. queue'[u] = queue[u]
      BY <1>3, <2>2 DEF Added
    <3>2. queue[u] = 1 /\ u \in Made /\ Runnable(u)
      BY <3>1 DEF DataOnce, Queued
    <3>3. u # t
      BY <1>8, <3>2
    <3> QED BY <1>4, <1>5, <1>7, <3>1, <3>2, <3>3 DEF Runnable
  <2> QED BY <2>1, <2>2
<1>12. Awaited'
  BY <1>2, <1>5, <1>6 DEF DataOnce, Awaited
<1> QED BY <1>9, <1>10, <1>11, <1>12 DEF DataOnce

(* A completion that continues: the subscribers still wait, and the task is  *)
(* queued again when nothing is left of its children.                        *)
LEMMA ContinueOnce ==
  ASSUME TasksTypeOK, DataOnce, NEW t \in Made, ~IsComplete(data, t), data[t].executor # NoOne,
         data[t].part = 0, Children[t] \subseteq Made,
         Complete(t, Continue(t), IfCanRun(Continue(t), t))
  PROVE  DataOnce'
<1>1. data' = Continue(t)
  BY DEF Complete
<1>2. /\ Made' = Made
      /\ \A u \in Made \ {t} : Untouched(u)
      /\ \A u \in Made : SubscribersPlus(u, Children[t], t)
      /\ data'[t].part = 1 /\ data'[t].executor = NoOne
      /\ data'[t].result = data[t].result /\ data'[t].exception = data[t].exception
      /\ data'[t].triggers = Children[t]
  BY <1>1, ContinueDoes
<1>3. \A u \in Made : IsComplete(data', u) <=> IsComplete(data, u)
  <2>1. \A u \in Made \ {t} : IsComplete(data', u) <=> IsComplete(data, u)
    BY <1>2, UntouchedComplete
  <2>2. IsComplete(data', t) <=> IsComplete(data, t)
    BY <1>2 DEF IsComplete, Made
  <2> QED BY <2>1, <2>2
<1>4. \A u \in Made \ {t} : /\ data'[u].triggers = data[u].triggers
                            /\ data'[u].part = data[u].part
                            /\ data'[u].executor = data[u].executor
  BY <1>2 DEF Untouched, Kept
<1>5. \A u \in Made \ {t} : CanRun(data, u) => CanRun(data', u)
  BY <1>3, <1>4, CanStillRun
<1>6. t \notin data[t].subscribers /\ queue[t] = 0 /\ CanRun(data, t)
  BY NotItsOwn
<1>7. PICK T \in SUBSET {s \in data[t].subscribers : CanRun(data', s)} :
        queue' = Added(Added(queue, IfCanRun(data', t)), T)
  BY <1>1 DEF Complete, AddedSideBySide
<1>8. T = {}
  <2> SUFFICES ASSUME NEW s \in data[t].subscribers, CanRun(data', s) PROVE FALSE
    BY <1>7
  <2>1. s \in Made /\ s # t /\ t \in data[s].triggers
    BY <1>6, SubscribersWait
  <2>2. t \in data'[s].triggers
    BY <1>4, <2>1
  <2> QED BY <1>3, <2>2 DEF CanRun
<1>9. TriggersByPart'
  BY <1>2, <1>4 DEF DataOnce, TriggersByPart
<1>10. Taken'
  <2> SUFFICES ASSUME NEW u \in Made
               PROVE  /\ data'[u].executor # NoOne => CanRun(data', u)
                      /\ IsComplete(data', u) => data'[u].executor # NoOne
    BY <1>2 DEF Taken
  <2>1. CASE u = t
    BY <1>2, <1>3, <2>1
  <2>2. CASE u # t
    BY <1>3, <1>4, <1>5, <2>2 DEF DataOnce, Taken
  <2> QED BY <2>1, <2>2
<1>11. Queued'
  <2> SUFFICES ASSUME NEW u \in Task, queue'[u] > 0
               PROVE  queue'[u] = 1 /\ u \in Made /\ Runnable(u)'
    BY <1>2 DEF Queued
  <2>1. CASE u = t
    <3>1. queue'[t] = 1 /\ CanRun(data', t)
      BY <1>6, <1>7, <1>8, <2>1 DEF Added, IfCanRun
    <3> QED BY <1>2, <1>3, <2>1, <3>1 DEF Runnable
  <2>2. CASE u # t
    <3>1. queue'[u] = queue[u]
      BY <1>7, <1>8, <2>2 DEF Added, IfCanRun
    <3>2. queue[u] = 1 /\ u \in Made /\ Runnable(u)
      BY <3>1 DEF DataOnce, Queued
    <3> QED BY <1>3, <1>4, <1>5, <2>2, <3>1, <3>2 DEF Runnable
  <2> QED BY <2>1, <2>2
<1>12. Awaited'
  <2> SUFFICES ASSUME NEW s \in Made, NEW u \in Made,
                      s \in data'[u].subscribers, ~IsComplete(data', u)
               PROVE  u \in data'[s].triggers
    BY <1>2 DEF Awaited
  <2>1. Joined(data'[u], data[u], u \in Children[t], t)
    BY <1>2 DEF SubscribersPlus
  <2>2. CASE s \in data[u].subscribers
    <3>1. u \in data[s].triggers /\ ~IsComplete(data, u)
      BY <1>3, <2>2 DEF DataOnce, Awaited
    <3>2. s # t
      BY <1>6, <3>1 DEF CanRun
    <3> QED BY <1>4, <3>1, <3>2
  <2>3. CASE s \notin data[u].subscribers
    <3>1. s = t /\ u \in Children[t]
      BY <2>1, <2>3 DEF Joined
    <3> QED BY <1>2, <3>1
  <2> QED BY <2>2, <2>3
<1> QED BY <1>9, <1>10, <1>11, <1>12 DEF DataOnce

(* Taking a task: its entry was the only one, and it can run.                *)
LEMMA TakeDoes ==
  ASSUME TasksTypeOK, DataOnce, NEW e \in Executor, NEW t \in Made, Take(e, t)
  PROVE  /\ e \notin Busy /\ UNCHANGED <<failing, faults>>
         /\ queue' = [queue EXCEPT ![t] = @ - 1] /\ queue[t] = 1
         /\ Runnable(t)
         /\ data' = [data EXCEPT ![t].executor = e]
         /\ run' = [run EXCEPT ![e] = [task |-> t, part |-> data[t].part, made |-> {}]]
<1>1. t \in Task /\ queue[t] > 0
  BY DEF Take, TasksTypeOK
<1>2. queue[t] = 1 /\ Runnable(t)
  BY <1>1 DEF DataOnce, Queued
<1>3. Obtainable(t)
  BY <1>2 DEF Runnable, Obtainable
<1> QED BY <1>2, <1>3 DEF Take

LEMMA TakeOnce ==
  ASSUME TasksTypeOK, DataOnce, NEW e \in Executor, NEW t \in Made, Take(e, t)
  PROVE  DataOnce'
<1>1. /\ queue' = [queue EXCEPT ![t] = @ - 1] /\ queue[t] = 1 /\ Runnable(t)
      /\ data' = [data EXCEPT ![t].executor = e]
  BY TakeDoes
<1>2. /\ Made' = Made
      /\ \A u \in Made \ {t} : data'[u] = data[u]
      /\ data'[t].executor = e /\ e # NoOne
  BY <1>1, TasksAssumption DEF Made, TasksTypeOK, TaskData
<1>3. \A u \in Made : /\ data'[u].triggers = data[u].triggers
                      /\ data'[u].part = data[u].part
                      /\ data'[u].subscribers = data[u].subscribers
                      /\ data'[u].result = data[u].result
                      /\ data'[u].exception = data[u].exception
  BY <1>1 DEF Made, TasksTypeOK, TaskData
<1>4. \A u \in Made : IsComplete(data', u) <=> IsComplete(data, u)
  BY <1>2, <1>3 DEF IsComplete, Made
<1>5. \A u \in Made : CanRun(data, u) => CanRun(data', u)
  BY <1>3, <1>4, CanStillRun
<1>6. TriggersByPart'
  BY <1>2, <1>3 DEF DataOnce, TriggersByPart
<1>7. Taken'
  <2> SUFFICES ASSUME NEW u \in Made
               PROVE  /\ data'[u].executor # NoOne => CanRun(data', u)
                      /\ IsComplete(data', u) => data'[u].executor # NoOne
    BY <1>2 DEF Taken
  <2>1. CASE u = t
    BY <1>1, <1>2, <1>5, <2>1 DEF Runnable
  <2>2. CASE u # t
    BY <1>2, <1>4, <1>5, <2>2 DEF DataOnce, Taken
  <2> QED BY <2>1, <2>2
<1>8. Queued'
  <2> SUFFICES ASSUME NEW u \in Task, queue'[u] > 0
               PROVE  queue'[u] = 1 /\ u \in Made /\ Runnable(u)'
    BY <1>2 DEF Queued
  <2>1. u # t /\ queue'[u] = queue[u]
    BY <1>1 DEF TasksTypeOK
  <2>2. queue[u] = 1 /\ u \in Made /\ Runnable(u)
    BY <2>1 DEF DataOnce, Queued
  <2> QED BY <1>2, <1>4, <1>5, <2>1, <2>2 DEF Runnable
<1>9. Awaited'
  BY <1>2, <1>3, <1>4 DEF DataOnce, Awaited
<1> QED BY <1>6, <1>7, <1>8, <1>9 DEF DataOnce

(* What is run and what is reported stays so: the runs that go on keep their *)
(* task and part, and the records of what is run or reported keep their part *)
(* and do not become complete.                                               *)
LEMMA RunsOnceKept ==
  ASSUME RunOnce, TasksTypeOK,
         \A f \in Busy' : /\ f \in Busy
                         /\ run'[f].task = run[f].task /\ run'[f].part = run[f].part
                         /\ data'[run[f].task].part = data[run[f].task].part
                         /\ ~IsComplete(data', run[f].task) /\ run[f].task \notin failing',
         \A t \in failing' : ~IsComplete(data', t) /\ data'[t].executor # NoOne
  PROVE  RunOnce'
BY DEF RunOnce, RunsByPart, Exclusive

LEMMA InitOnce == Init => OnceInv
<1> SUFFICES ASSUME Init PROVE DataOnce /\ RunOnce
  BY DEF OnceInv
<1>1. Made = {} /\ Busy = {} /\ failing = {} /\ \A t \in Task : ~(queue[t] > 0)
  BY DEF Init, Made, Busy, Idle
<1> QED BY <1>1 DEF DataOnce, RunOnce, TriggersByPart, RunsByPart, Exclusive, Queued, Taken, Awaited

LEMMA StepOnce ==
  ASSUME IInv, DataOnce, RunOnce, Next, NoneLost'
  PROVE  DataOnce' /\ RunOnce'
<1>0. /\ TasksTypeOK /\ OneRunner
      /\ \A e \in Busy : /\ e \in Executor /\ run[e].task \in Made
                         /\ data[run[e].task].executor = e /\ e # NoOne
      /\ failing \subseteq Made
  BY TasksAssumption DEF IInv, TasksTypeOK, OneRunner, Busy
<1>1. ASSUME NEW t \in Task, Create(t), UNCHANGED failing,
             \A e \in Executor : run'[e].task = run[e].task /\ run'[e].part = run[e].part
      PROVE  DataOnce' /\ RunOnce'
  <2>1. Made' = Made \cup {t} /\ \A u \in Made : Untouched(u)
    BY <1>0, <1>1, CreateDoes
  <2>2. \A u \in Made : /\ IsComplete(data', u) <=> IsComplete(data, u)
                        /\ data'[u].part = data[u].part
                        /\ data'[u].executor = data[u].executor
    BY <2>1, UntouchedComplete DEF Untouched, Kept
  <2>3. \A e \in Busy' : e \in Busy
    BY <1>1 DEF Busy
  <2>4. RunOnce'
    <3>1. \A f \in Busy' : /\ f \in Busy
                           /\ run'[f].task = run[f].task /\ run'[f].part = run[f].part
                           /\ data'[run[f].task].part = data[run[f].task].part
                           /\ ~IsComplete(data', run[f].task) /\ run[f].task \notin failing'
      BY <1>0, <1>1, <2>2, <2>3 DEF RunOnce, Exclusive
    <3>2. \A u \in failing' : ~IsComplete(data', u) /\ data'[u].executor # NoOne
      BY <1>0, <1>1, <2>2 DEF RunOnce, Exclusive
    <3> QED BY <1>0, <3>1, <3>2, RunsOnceKept
  <2>5. DataOnce'
    BY <1>0, <1>1, CreateOnce
  <2> QED BY <2>4, <2>5
<1>2. ASSUME NEW t \in Task, ByClient(t) PROVE DataOnce' /\ RunOnce'
  BY <1>1, <1>2 DEF ByClient
<1>3. ASSUME NEW e \in Executor, NEW c \in Task, ByFunction(e, c) PROVE DataOnce' /\ RunOnce'
  <2>1. Create(c) /\ UNCHANGED failing /\ run' = [run EXCEPT ![e].made = @ \cup {c}]
    BY <1>3 DEF ByFunction
  <2>2. \A f \in Executor : run'[f].task = run[f].task /\ run'[f].part = run[f].part
    BY <1>0, <2>1 DEF TasksTypeOK
  <2> QED BY <1>1, <2>1, <2>2
<1>4. ASSUME NEW t \in Task, Fail(t) PROVE DataOnce' /\ RunOnce'
  <2>1. /\ t \in failing /\ t \in Made /\ Complete(t, Failure(t), {})
        /\ failing' = failing \ {t} /\ run' = run
        /\ ~IsComplete(data, t) /\ data[t].executor # NoOne
    BY <1>0, <1>4 DEF Fail, RunOnce, Exclusive
  <2>2. DataOnce'
    BY <1>0, <2>1, OutcomeOnce
  <2>3. data' = Failure(t)
    BY <2>1 DEF Complete
  <2>4. Made' = Made /\ \A u \in Made \ {t} : data'[u] = data[u]
    BY <1>0, <2>1, <2>3, OutcomeDoes
  <2>5. \A u \in Made \ {t} : IsComplete(data', u) <=> IsComplete(data, u)
    BY <2>4 DEF IsComplete, Made
  <2>6. \A f \in Busy : run[f].task # t
    BY <2>1 DEF RunOnce, Exclusive
  <2>7. RunOnce'
    <3>1. \A f \in Busy' : /\ f \in Busy
                           /\ run'[f].task = run[f].task /\ run'[f].part = run[f].part
                           /\ data'[run[f].task].part = data[run[f].task].part
                           /\ ~IsComplete(data', run[f].task) /\ run[f].task \notin failing'
      BY <1>0, <2>1, <2>4, <2>5, <2>6 DEF RunOnce, Exclusive, Busy
    <3>2. \A u \in failing' : ~IsComplete(data', u) /\ data'[u].executor # NoOne
      BY <1>0, <2>1, <2>4, <2>5 DEF RunOnce, Exclusive
    <3> QED BY <1>0, <3>1, <3>2, RunsOnceKept
  <2> QED BY <2>2, <2>7
<1>5. ASSUME NEW t \in Task, DropFailure(t) PROVE DataOnce' /\ RunOnce'
  BY <1>5 DEF DropFailure, DataOnce, TriggersByPart, Queued, Taken, Awaited, Runnable, CanRun,
              IsComplete, Made, RunOnce, RunsByPart, Exclusive, Busy
<1>6. ASSUME NEW e \in Executor, NEW t \in Made, Take(e, t) PROVE DataOnce' /\ RunOnce'
  <2>1. /\ UNCHANGED failing /\ Runnable(t)
        /\ data' = [data EXCEPT ![t].executor = e]
        /\ run' = [run EXCEPT ![e] = [task |-> t, part |-> data[t].part, made |-> {}]]
    BY <1>0, <1>6, TakeDoes
  <2>2. /\ Made' = Made
        /\ \A u \in Made \ {t} : data'[u] = data[u]
        /\ data'[t].executor = e /\ data'[t].part = data[t].part
        /\ data'[t].result = data[t].result /\ data'[t].exception = data[t].exception
    BY <1>0, <2>1 DEF Made, TasksTypeOK, TaskData
  <2>3. \A u \in Made : IsComplete(data', u) <=> IsComplete(data, u)
    BY <2>2 DEF IsComplete, Made
  <2>4. \A f \in Executor \ {e} : run'[f] = run[f]
    BY <1>0, <2>1 DEF TasksTypeOK
  <2>5. run'[e].task = t /\ run'[e].part = data[t].part
    BY <1>0, <2>1 DEF TasksTypeOK
  <2>6. t \notin failing
    BY <2>1 DEF Runnable, RunOnce, Exclusive
  <2>7. RunsByPart'
    <3> SUFFICES ASSUME NEW f \in Busy' PROVE run'[f].part = data'[run'[f].task].part
      BY DEF RunsByPart
    <3>1. CASE f = e
      BY <2>2, <2>5, <3>1
    <3>2. CASE f # e
      <4>1. f \in Busy /\ run'[f] = run[f]
        BY <2>4, <3>2 DEF Busy
      <4> QED BY <1>0, <2>2, <4>1 DEF RunOnce, RunsByPart
    <3> QED BY <3>1, <3>2
  <2>8. Exclusive'
    <3>1. \A f \in Busy' : ~IsComplete(data', run'[f].task) /\ run'[f].task \notin failing'
      <4> SUFFICES ASSUME NEW f \in Busy'
                   PROVE  ~IsComplete(data', run'[f].task) /\ run'[f].task \notin failing
        BY <2>1
      <4>1. CASE f = e
        BY <2>1, <2>3, <2>5, <2>6, <4>1 DEF Runnable
      <4>2. CASE f # e
        <5>1. f \in Busy /\ run'[f] = run[f]
          BY <2>4, <4>2 DEF Busy
        <5> QED BY <1>0, <2>3, <5>1 DEF RunOnce, Exclusive
      <4> QED BY <4>1, <4>2
    <3>2. \A u \in failing' : ~IsComplete(data', u) /\ data'[u].executor # NoOne
      BY <1>0, <2>1, <2>2, <2>3, <2>6 DEF RunOnce, Exclusive
    <3> QED BY <3>1, <3>2 DEF Exclusive
  <2>9. DataOnce'
    BY <1>0, <1>6, TakeOnce
  <2> QED BY <2>7, <2>8, <2>9 DEF RunOnce
<1>7. ASSUME NEW e \in Executor, Finish(e) PROVE DataOnce' /\ RunOnce'
  <2> DEFINE t == run[e].task
  <2>1. /\ e \in Busy /\ t \in Made /\ failing' = failing
        /\ run' = [run EXCEPT ![e] = Idle]
        /\ ~IsComplete(data, t) /\ data[t].executor # NoOne /\ run[e].part = data[t].part
        /\ t \notin failing /\ run[e].made \subseteq Made
    BY <1>0, <1>7 DEF Finish, Returns, RunOnce, RunsByPart, Exclusive, TasksTypeOK
  <2>2. /\ Made' = Made /\ DataOnce'
        /\ \A u \in Made \ {t} : /\ data'[u].part = data[u].part
                                 /\ data'[u].executor = data[u].executor
                                 /\ IsComplete(data', u) <=> IsComplete(data, u)
    <3>1. CASE /\ run[e].part = 0 /\ run[e].made = Children[t]
               /\ Complete(t, Continue(t), IfCanRun(Continue(t), t))
      <4>1. Children[t] \subseteq Made /\ data[t].part = 0 /\ data' = Continue(t)
        BY <2>1, <3>1 DEF Complete
      <4>2. DataOnce'
        BY <1>0, <2>1, <3>1, <4>1, ContinueOnce
      <4>3. Made' = Made /\ \A u \in Made \ {t} : Untouched(u)
        BY <1>0, <2>1, <4>1, ContinueDoes
      <4> QED BY <4>2, <4>3, UntouchedComplete DEF Untouched, Kept
    <3>2. CASE Complete(t, Success(t), {})
      <4>1. DataOnce'
        BY <1>0, <2>1, <3>2, OutcomeOnce
      <4>2. data' = Success(t)
        BY <3>2 DEF Complete
      <4>3. Made' = Made /\ \A u \in Made \ {t} : data'[u] = data[u]
        BY <1>0, <2>1, <4>2, OutcomeDoes
      <4> QED BY <4>1, <4>3 DEF IsComplete, Made
    <3> QED BY <1>7, <3>1, <3>2 DEF Finish, Returns
  <2>3. e \notin Busy' /\ \A f \in Executor \ {e} : run'[f] = run[f]
    BY <1>0, <2>1 DEF Busy, Idle, TasksTypeOK
  <2>4. \A f \in Busy' : f \in Busy /\ run'[f] = run[f] /\ run[f].task # t
    BY <1>0, <2>1, <2>3 DEF Busy, OneRunner
  <2>5. RunOnce'
    <3>1. \A f \in Busy' : /\ f \in Busy
                           /\ run'[f].task = run[f].task /\ run'[f].part = run[f].part
                           /\ data'[run[f].task].part = data[run[f].task].part
                           /\ ~IsComplete(data', run[f].task) /\ run[f].task \notin failing'
      BY <1>0, <2>1, <2>2, <2>4 DEF RunOnce, Exclusive
    <3>2. \A u \in failing' : ~IsComplete(data', u) /\ data'[u].executor # NoOne
      BY <1>0, <2>1, <2>2 DEF RunOnce, Exclusive
    <3> QED BY <1>0, <3>1, <3>2, RunsOnceKept
  <2> QED BY <2>2, <2>5
<1>8. ASSUME NEW e \in Executor, e \in Busy, UNCHANGED <<data, queue>>,
             run' = [run EXCEPT ![e] = Idle],
             failing' = failing \/ failing' = failing \cup {run[e].task}
      PROVE  DataOnce' /\ RunOnce'
  <2>1. e \notin Busy' /\ \A f \in Executor \ {e} : run'[f] = run[f]
    BY <1>0, <1>8 DEF Busy, Idle, TasksTypeOK
  <2>2. \A f \in Busy' : f \in Busy /\ run'[f] = run[f] /\ run[f].task # run[e].task
    BY <1>0, <1>8, <2>1 DEF Busy, OneRunner
  <2>3. RunOnce'
    BY <1>0, <1>8, <2>2, RunsOnceKept DEF RunOnce, Exclusive
  <2>4. DataOnce'
    BY <1>8 DEF DataOnce, TriggersByPart, Queued, Taken, Awaited, Runnable, CanRun,
                IsComplete, Made
  <2> QED BY <2>3, <2>4
<1>9. ASSUME NEW e \in Executor, Throw(e) \/ Crash(e) PROVE DataOnce' /\ RunOnce'
  BY <1>8, <1>9 DEF Throw, Crash
<1>10. ASSUME NEW e \in Executor, LoseReply(e) PROVE FALSE
  BY <1>0, <1>10 DEF LoseReply, Fault, NoneLost, TasksTypeOK
<1> QED BY <1>2, <1>3, <1>4, <1>5, <1>6, <1>7, <1>9, <1>10 DEF Next, Step

LEMMA NoneLostBefore == TasksTypeOK /\ [Next]_vars /\ NoneLost' => NoneLost
<1> SUFFICES ASSUME TasksTypeOK, [Next]_vars PROVE ~faults'.lost => ~faults.lost
  BY DEF NoneLost
<1>1. faults' = faults \/ \E kind : Fault(kind)
  BY DEF Next, Step, vars, ByClient, Fail, DropFailure, Take, ByFunction, Finish, Throw, Crash,
         LoseReply
<1>2. ASSUME NEW kind, Fault(kind) PROVE faults'.lost = (faults.lost \/ kind = "lost")
  BY <1>2 DEF Fault
<1>3. faults.lost \in BOOLEAN
  BY DEF TasksTypeOK
<1> QED BY <1>1, <1>2, <1>3

LEMMA OnceHolds == IInv /\ OnceInv /\ [Next]_vars => OnceInv'
<1> SUFFICES ASSUME IInv, OnceInv, [Next]_vars, NoneLost' PROVE DataOnce' /\ RunOnce'
  BY DEF OnceInv
<1>1. DataOnce /\ RunOnce
  BY NoneLostBefore DEF IInv, OnceInv
<1>2. CASE UNCHANGED vars
  BY <1>1, <1>2 DEF vars, DataOnce, TriggersByPart, Queued, Taken, Awaited, Runnable, CanRun,
                    IsComplete, Made, RunOnce, RunsByPart, Exclusive, Busy
<1> QED BY <1>1, <1>2, StepOnce

LEMMA SpecOnce == Spec => [](IInv /\ OnceInv)
BY InitHolds, StepHolds, InitOnce, OnceHolds, PTL DEF Spec

(* Until a reply is lost, no function runs before what it waits for is       *)
(* complete, however often its executors stop and its entries are repeated   *)
(* (initTriggers and complete, Task.scala:179-196,235-264).                  *)
THEOREM FunctionsRunInTurn == Spec => []WaitsForTriggers
<1>1. IInv /\ OnceInv => WaitsForTriggers
  <2> SUFFICES ASSUME IInv, OnceInv, NoneLost, NEW e \in Busy,
                      NEW u \in IF run[e].part = 0 THEN Ancestors[run[e].task]
                                                   ELSE Children[run[e].task]
               PROVE  IsComplete(data, u)
    BY DEF WaitsForTriggers
  <2> DEFINE t == run[e].task
  <2>1. t \in Made /\ data[t].executor = e /\ e # NoOne
    BY TasksAssumption DEF IInv, TasksTypeOK, OneRunner, Busy
  <2>2. CanRun(data, t)
    BY <2>1 DEF OnceInv, DataOnce, Taken
  <2>3. u \in data[t].triggers
    BY <2>1 DEF OnceInv, DataOnce, TriggersByPart, RunOnce, RunsByPart
  <2> QED BY <2>2, <2>3 DEF CanRun
<1> QED BY <1>1, SpecOnce, PTL

(* Until a reply is lost, the outcome of a task is recorded once: neither a  *)
(* late failure nor a second run changes it (Task.scala:166-176,235-264).    *)
THEOREM OutcomesAreFinal == Spec => OutcomesFinal
<1>1. IInv /\ OnceInv /\ [Next]_vars => [NoneLost => OutcomesKept]_vars
  <2> SUFFICES ASSUME IInv, DataOnce, RunOnce, Next, NEW t \in Made, IsComplete(data, t)
               PROVE  data'[t].result = data[t].result /\ data'[t].exception = data[t].exception
    BY DEF OutcomesKept, OnceInv
  <2>0. /\ TasksTypeOK
        /\ \A e \in Busy : e \in Executor /\ run[e].task \in Made
    BY DEF IInv, TasksTypeOK, Busy
  <2>1. ASSUME NEW c \in Task, Create(c)
        PROVE  data'[t].result = data[t].result /\ data'[t].exception = data[t].exception
    <3>1. Untouched(t)
      BY <2>0, <2>1, CreateDoes
    <3> QED BY <3>1 DEF Untouched, Kept
  <2>2. ASSUME NEW u \in Made, u # t, data' \in {Success(u), Failure(u)}
        PROVE  data'[t].result = data[t].result /\ data'[t].exception = data[t].exception
    <3>1. data'[t] = data[t]
      BY <2>0, <2>2, OutcomeDoes
    <3> QED BY <3>1
  <2>3. ASSUME NEW e \in Executor, Returns(e)
        PROVE  data'[t].result = data[t].result /\ data'[t].exception = data[t].exception
    <3>1. e \in Busy /\ run[e].task \in Made /\ run[e].task # t /\ run[e].made \subseteq Made
      BY <2>0, <2>3 DEF Returns, RunOnce, Exclusive, TasksTypeOK
    <3>2. CASE run[e].made = Children[run[e].task] /\ data' = Continue(run[e].task)
      <4>1. Untouched(t)
        BY <2>0, <3>1, <3>2, ContinueDoes
      <4> QED BY <4>1 DEF Untouched, Kept
    <3>3. CASE data' = Success(run[e].task)
      BY <2>2, <3>1, <3>3
    <3> QED BY <2>3, <3>2, <3>3 DEF Returns, Complete
  <2>4. ASSUME NEW u \in Task, Fail(u)
        PROVE  data'[t].result = data[t].result /\ data'[t].exception = data[t].exception
    <3>1. u \in Made /\ u # t /\ data' = Failure(u)
      BY <2>0, <2>4 DEF Fail, Complete, RunOnce, Exclusive, TasksTypeOK
    <3> QED BY <2>2, <3>1
  <2>5. ASSUME NEW e \in Executor, NEW u \in Made, Take(e, u)
        PROVE  data'[t].result = data[t].result /\ data'[t].exception = data[t].exception
    BY <2>0, <2>5 DEF Take, TasksTypeOK, TaskData, Made
  <2>6. ASSUME UNCHANGED data
        PROVE  data'[t].result = data[t].result /\ data'[t].exception = data[t].exception
    BY <2>6
  <2> QED BY <2>1, <2>3, <2>4, <2>5, <2>6
          DEF Next, Step, ByClient, DropFailure, ByFunction, Finish, Throw, Crash, LoseReply
<1> QED BY <1>1, SpecOnce, PTL DEF Spec, OutcomesFinal

-----------------------------------------------------------------------------
(* Runnable tasks are queued, whatever the faults, where no two tasks wait   *)
(* for the same one: a completion then has one subscriber to add, and adding *)
(* it meets no other add.  The invariant: a task is subscribed to each of    *)
(* its triggers, and to nothing it never asked for.                          *)
Awaits(t) == Ancestors[t] \cup Children[t]
OneWaiter == \A s, t \in Task : Awaits(s) \cap Awaits(t) # {} => s = t

Subscribes ==
  \A s, u \in Made : /\ u \in data[s].triggers => s \in data[u].subscribers
                     /\ s \in data[u].subscribers => u \in Awaits(s)
QueueInv == TasksTypeOK /\ Subscribes /\ RunnableIsQueued

LEMMA AddedMore ==
  ASSUME NEW q \in [Task -> Nat], NEW T, NEW t \in Task
  PROVE  q[t] > 0 \/ t \in T => Added(q, T)[t] > 0
BY DEF Added

(* At most one task is subscribed to a task.                                 *)
LEMMA OneIsAdded ==
  ASSUME OneWaiter, TasksTypeOK, Subscribes, NEW t \in Made, NEW X \in SUBSET data[t].subscribers
  PROVE  AddedSideBySide(X) = {X}
<1>1. \A r, s \in X : r = s /\ s \in Task
  BY DEF OneWaiter, TasksTypeOK, TaskData, Subscribes
<1>2. CASE X = {}
  BY <1>2, FS_EmptySet DEF AddedSideBySide
<1>3. CASE X # {}
  <2>1. PICK s \in X : X = {s}
    BY <1>1, <1>3
  <2>2. Cardinality(X) = 1
    BY <2>1, FS_Singleton
  <2> QED BY <2>2 DEF AddedSideBySide
<1> QED BY <1>2, <1>3

LEMMA CreateQueues ==
  ASSUME TasksTypeOK, Subscribes, RunnableIsQueued, NEW t \in Task, Create(t)
  PROVE  Subscribes' /\ RunnableIsQueued'
<1>1. /\ Made' = Made \cup {t} /\ t \notin Made /\ Ancestors[t] \subseteq Made
      /\ \A u \in Made : Untouched(u) /\ SubscribersPlus(u, Ancestors[t], t)
      /\ data'[t].triggers = Ancestors[t] /\ data'[t].subscribers = {}
      /\ queue' = Added(queue, IfCanRun(data', t))
  BY CreateDoes
<1>2. \A u \in Made : /\ IsComplete(data', u) <=> IsComplete(data, u)
                      /\ data'[u].triggers = data[u].triggers
                      /\ data'[u].executor = data[u].executor
                      /\ data[u].triggers \subseteq Made /\ data[u].subscribers \subseteq Made
  BY <1>1, UntouchedComplete DEF Untouched, Kept, TasksTypeOK, TaskData
<1>3. \A u \in Made : CanRun(data', u) => CanRun(data, u)
  BY <1>2 DEF CanRun
<1>4. Subscribes'
  <2> SUFFICES ASSUME NEW s \in Made', NEW u \in Made'
               PROVE  /\ u \in data'[s].triggers => s \in data'[u].subscribers
                      /\ s \in data'[u].subscribers => u \in Awaits(s)
    BY DEF Subscribes, Awaits
  <2>1. CASE u = t
    BY <1>1, <1>2, <2>1
  <2>2. CASE u # t
    <3>1. u \in Made /\ Joined(data'[u], data[u], u \in Ancestors[t], t)
      BY <1>1, <2>2 DEF SubscribersPlus
    <3>2. CASE s = t
      BY <1>1, <1>2, <3>1, <3>2 DEF Joined, Awaits
    <3>3. CASE s # t
      BY <1>1, <1>2, <3>1, <3>3 DEF Joined, Subscribes
    <3> QED BY <3>2, <3>3
  <2> QED BY <2>1, <2>2
<1>5. RunnableIsQueued'
  <2> SUFFICES ASSUME NEW s \in Made', Runnable(s)' PROVE queue'[s] > 0
    BY DEF RunnableIsQueued
  <2>1. CASE s = t
    BY <1>1, <2>1, AddedMore DEF Runnable, IfCanRun, TasksTypeOK
  <2>2. CASE s # t
    <3>1. s \in Made /\ Runnable(s)
      BY <1>1, <1>2, <1>3, <2>2 DEF Runnable
    <3> QED BY <1>1, <3>1, AddedMore DEF RunnableIsQueued, TasksTypeOK
  <2> QED BY <2>1, <2>2
<1> QED BY <1>4, <1>5

LEMMA OutcomeQueues ==
  ASSUME OneWaiter, TasksTypeOK, Subscribes, RunnableIsQueued, NEW t \in Made,
         NEW d, Complete(t, d, {}), d \in {Success(t), Failure(t)}
  PROVE  Subscribes' /\ RunnableIsQueued'
<1>1. data' = d /\ data' \in {Success(t), Failure(t)}
  BY DEF Complete
<1>2. /\ Made' = Made /\ IsComplete(data', t)
      /\ \A u \in Made \ {t} : data'[u] = data[u]
      /\ data'[t].triggers = data[t].triggers /\ data'[t].subscribers = data[t].subscribers
  BY <1>1, OutcomeDoes
<1> DEFINE X == {s \in data[t].subscribers : CanRun(data', s)}
<1>3. queue' = Added(Added(queue, {}), X)
  <2>1. AddedSideBySide(X) = {X}
    BY OneIsAdded
  <2> QED BY <1>1, <2>1 DEF Complete
<1>4. \A u \in Made \ {t} : IsComplete(data', u) <=> IsComplete(data, u)
  BY <1>2 DEF IsComplete, Made
<1>5. Subscribes'
  BY <1>2 DEF Subscribes, Awaits
<1>6. RunnableIsQueued'
  <2> SUFFICES ASSUME NEW s \in Made, Runnable(s)' PROVE queue'[s] > 0
    BY <1>2 DEF RunnableIsQueued
  <2>1. s # t /\ data'[s] = data[s]
    BY <1>2 DEF Runnable
  <2>2. ~IsComplete(data, s) /\ data[s].executor = NoOne /\ CanRun(data', s)
    BY <1>4, <2>1 DEF Runnable
  <2>3. CASE t \in data[s].triggers
    <3>1. s \in X /\ s \in Task
      BY <2>2, <2>3 DEF Subscribes, TasksTypeOK
    <3>2. Added(queue, {}) \in [Task -> Nat]
      BY AddedType DEF TasksTypeOK
    <3> HIDE DEF X
    <3> QED BY <1>3, <3>1, <3>2, AddedMore
  <2>4. CASE t \notin data[s].triggers
    <3>1. CanRun(data, s)
      BY <1>4, <2>1, <2>2, <2>4 DEF CanRun, TasksTypeOK, TaskData
    <3>2. queue[s] > 0 /\ s \in Task
      BY <2>2, <3>1 DEF Runnable, RunnableIsQueued, TasksTypeOK
    <3>3. Added(queue, {}) \in [Task -> Nat] /\ Added(queue, {})[s] > 0
      BY <3>2, AddedType, AddedMore DEF TasksTypeOK
    <3> HIDE DEF X
    <3> QED BY <1>3, <3>2, <3>3, AddedMore
  <2> QED BY <2>3, <2>4
<1> QED BY <1>5, <1>6

LEMMA ContinueQueues ==
  ASSUME TasksTypeOK, Subscribes, RunnableIsQueued, NEW t \in Made, Children[t] \subseteq Made,
         Complete(t, Continue(t), IfCanRun(Continue(t), t))
  PROVE  Subscribes' /\ RunnableIsQueued'
<1>1. data' = Continue(t)
  BY DEF Complete
<1>2. /\ Made' = Made
      /\ \A u \in Made \ {t} : Untouched(u)
      /\ \A u \in Made : SubscribersPlus(u, Children[t], t)
      /\ data'[t].triggers = Children[t]
      /\ data'[t].result = data[t].result /\ data'[t].exception = data[t].exception
  BY <1>1, ContinueDoes
<1>3. PICK T : queue' = Added(Added(queue, IfCanRun(data', t)), T)
  BY <1>1 DEF Complete
<1>4. \A u \in Made : IsComplete(data', u) <=> IsComplete(data, u)
  <2>1. \A u \in Made \ {t} : IsComplete(data', u) <=> IsComplete(data, u)
    BY <1>2, UntouchedComplete
  <2>2. IsComplete(data', t) <=> IsComplete(data, t)
    BY <1>2 DEF IsComplete, Made
  <2> QED BY <2>1, <2>2
<1>5. \A u \in Made \ {t} : /\ data'[u].triggers = data[u].triggers
                            /\ data'[u].executor = data[u].executor
                            /\ data[u].triggers \subseteq Made
  BY <1>2 DEF Untouched, Kept, TasksTypeOK, TaskData
<1>6. Subscribes'
  <2> SUFFICES ASSUME NEW s \in Made, NEW u \in Made
               PROVE  /\ u \in data'[s].triggers => s \in data'[u].subscribers
                      /\ s \in data'[u].subscribers => u \in Awaits(s)
    BY <1>2 DEF Subscribes, Awaits
  <2>1. Joined(data'[u], data[u], u \in Children[t], t)
    BY <1>2 DEF SubscribersPlus
  <2>2. CASE s = t
    BY <1>2, <2>1, <2>2 DEF Joined, Subscribes, Awaits
  <2>3. CASE s # t
    BY <1>5, <2>1, <2>3 DEF Joined, Subscribes
  <2> QED BY <2>2, <2>3
<1>7. RunnableIsQueued'
  <2> SUFFICES ASSUME NEW s \in Made, Runnable(s)' PROVE queue'[s] > 0
    BY <1>2 DEF RunnableIsQueued
  <2>1. queue[s] > 0 \/ s \in IfCanRun(data', t)
    <3>1. CASE s = t
      BY <3>1 DEF Runnable, IfCanRun
    <3>2. CASE s # t
      <4>1. CanRun(data, s)
        BY <1>4, <1>5, <3>2 DEF CanRun, Runnable
      <4> QED BY <1>4, <1>5, <3>2, <4>1 DEF Runnable, RunnableIsQueued
    <3> QED BY <3>1, <3>2
  <2>2. s \in Task /\ queue \in [Task -> Nat]
    BY DEF TasksTypeOK
  <2>3. /\ Added(queue, IfCanRun(data', t)) \in [Task -> Nat]
        /\ Added(queue, IfCanRun(data', t))[s] > 0
    BY <2>1, <2>2, AddedType, AddedMore
  <2> QED BY <1>3, <2>2, <2>3, AddedMore
<1> QED BY <1>6, <1>7

LEMMA StepQueues ==
  ASSUME OneWaiter, IInv, QueueInv, [Next]_vars
  PROVE  Subscribes' /\ RunnableIsQueued'
<1>0. /\ TasksTypeOK /\ Subscribes /\ RunnableIsQueued
      /\ failing \subseteq Made
      /\ \A e \in Busy : run[e].task \in Made /\ run[e].made \subseteq Made
  BY DEF QueueInv, TasksTypeOK, Busy
<1>1. ASSUME NEW t \in Task, Create(t) PROVE Subscribes' /\ RunnableIsQueued'
  BY <1>0, <1>1, CreateQueues
<1>2. ASSUME NEW e \in Executor, Returns(e) PROVE Subscribes' /\ RunnableIsQueued'
  <2> DEFINE t == run[e].task
  <2>1. t \in Made /\ run[e].made \subseteq Made
    BY <1>0, <1>2 DEF Returns
  <2>2. CASE run[e].made = Children[t] /\ Complete(t, Continue(t), IfCanRun(Continue(t), t))
    BY <1>0, <2>1, <2>2, ContinueQueues
  <2>3. CASE Complete(t, Success(t), {})
    BY <1>0, <2>1, <2>3, OutcomeQueues
  <2> QED BY <1>2, <2>2, <2>3 DEF Returns
<1>3. ASSUME NEW t \in Task, Fail(t) PROVE Subscribes' /\ RunnableIsQueued'
  <2>1. t \in Made /\ Complete(t, Failure(t), {})
    BY <1>0, <1>3 DEF Fail
  <2> QED BY <1>0, <2>1, OutcomeQueues
<1>4. ASSUME NEW e \in Executor, NEW t \in Made, Take(e, t)
      PROVE  Subscribes' /\ RunnableIsQueued'
  <2>1. queue' = [queue EXCEPT ![t] = @ - 1] /\ t \in Task
    BY <1>0, <1>4 DEF Take, TasksTypeOK
  <2>2. \A s \in Task \ {t} : queue'[s] = queue[s]
    BY <1>0, <2>1 DEF TasksTypeOK
  <2>3. CASE Obtainable(t) /\ data' = [data EXCEPT ![t].executor = e]
    <3>1. /\ Made' = Made
          /\ \A u \in Made \ {t} : data'[u] = data[u]
          /\ data'[t].executor = e /\ e # NoOne
      BY <2>3, <1>0, TasksAssumption DEF Made, TasksTypeOK, TaskData
    <3>2. \A u \in Made : /\ data'[u].triggers = data[u].triggers
                          /\ data'[u].subscribers = data[u].subscribers
                          /\ data'[u].result = data[u].result
                          /\ data'[u].exception = data[u].exception
      BY <2>3, <1>0 DEF Made, TasksTypeOK, TaskData
    <3>3. \A u \in Made : IsComplete(data', u) <=> IsComplete(data, u)
      BY <3>1, <3>2 DEF IsComplete, Made
    <3>4. Subscribes'
      BY <1>0, <3>1, <3>2 DEF Subscribes, Awaits
    <3>5. RunnableIsQueued'
      <4> SUFFICES ASSUME NEW s \in Made, Runnable(s)' PROVE queue'[s] > 0
        BY <3>1 DEF RunnableIsQueued
      <4>1. s # t /\ s \in Task
        BY <1>0, <3>1 DEF Runnable, TasksTypeOK
      <4>2. Runnable(s)
        BY <1>0, <3>1, <3>2, <3>3, <4>1 DEF Runnable, CanRun, TasksTypeOK, TaskData
      <4> QED BY <1>0, <2>2, <4>1, <4>2 DEF RunnableIsQueued
    <3> QED BY <3>4, <3>5
  <2>4. CASE ~Obtainable(t) /\ UNCHANGED data
    <3>1. Made' = Made /\ ~Runnable(t) /\ \A s \in Made : Runnable(s)' <=> Runnable(s)
      BY <2>4 DEF Made, Runnable, Obtainable, CanRun, IsComplete
    <3> QED BY <1>0, <2>2, <2>4, <3>1 DEF Subscribes, RunnableIsQueued, TasksTypeOK, Made, Awaits
  <2> QED BY <1>4, <2>3, <2>4 DEF Take
<1>5. ASSUME UNCHANGED <<data, queue>> PROVE Subscribes' /\ RunnableIsQueued'
  BY <1>0, <1>5 DEF Subscribes, RunnableIsQueued, Runnable, CanRun, IsComplete, Made, Awaits
<1> QED BY <1>1, <1>2, <1>3, <1>4, <1>5
        DEF Next, Step, ByClient, DropFailure, ByFunction, Finish, Throw, Crash, LoseReply, vars

(* Whatever executors stop, functions throw and reports and replies get      *)
(* lost, a task that could run is in the queue, provided that no two tasks   *)
(* wait for the same one (initTriggers and complete, Task.scala:179-196,     *)
(* 235-264): the entry of one of several subscribers may be lost.            *)
THEOREM RunnableTasksAreQueued == ASSUME OneWaiter PROVE Spec => []RunnableIsQueued
<1>1. Init => QueueInv
  BY InitHolds DEF IInv, QueueInv, Init, Subscribes, RunnableIsQueued, Made
<1>2. IInv /\ QueueInv /\ [Next]_vars => QueueInv'
  BY StepQueues, StepHolds DEF IInv, QueueInv
<1>3. QueueInv => RunnableIsQueued
  BY DEF QueueInv
<1> QED BY <1>1, <1>2, <1>3, InitHolds, StepHolds, PTL DEF Spec

-----------------------------------------------------------------------------
(* The daemons.  join looks at the poller before it looks at the threads:    *)
(* only a poller starts threads, and only start makes a poller, so what join *)
(* found ended stays ended until start is called again.  Unless a start was  *)
(* under way when stop was called, none is before the next one, so that join *)
(* looks at the poller there is.                                             *)
StopInv ==
  /\ stop \in {"no", "called", "mainGone", "done"}
  /\ starting # "no" /\ stop # "no" => again
  /\ stop \in {"mainGone", "done"} /\ ~again => ~MainAlive
  /\ StoppedIsStill

LEMMA StopStep == StopInv /\ [DaemonsNext]_daemonVars => StopInv'
<1> SUFFICES ASSUME StopInv, [DaemonsNext]_daemonVars PROVE StopInv'
  OBVIOUS
<1> USE DEF StopInv, StoppedIsStill
<1>1. CASE Main
  <2>1. MainAlive /\ UNCHANGED <<starting, stop, again>>
    BY <1>1 DEF Main, MainTest, StartAll, StartInterrupted, MainSleep, MainAlive, clientVars
  <2> QED BY <2>1
<1>2. CASE Start \/ StartFails \/ StartAssigns
  BY <1>2 DEF Start, StartFails, StartAssigns, mainVars, threadVars, MainAlive, Alive
<1>10. CASE StartMain
  <2>1. starting = "init" /\ starting' = "assign" /\ UNCHANGED <<stop, again>>
    BY <1>10 DEF StartMain
  <2> QED BY <2>1
<1>3. CASE Stop
  BY <1>3 DEF Stop
<1>4. CASE JoinMain
  BY <1>4 DEF JoinMain, IsMainAlive, mainVars, threadVars, MainAlive, Alive
<1>5. CASE JoinThreads
  BY <1>5 DEF JoinThreads, mainVars, threadVars, MainAlive, Alive
<1>6. ASSUME NEW d \in Daemon, Register(d) PROVE StopInv'
  BY <1>6 DEF Register, mainVars, threadVars, clientVars, MainAlive, Alive
<1>7. ASSUME NEW d \in Daemon, Thread(d) PROVE StopInv'
  <2>1. UNCHANGED <<main, starting, stop, again>>
    BY <1>7 DEF Thread, ThreadEnds, RunTask, Awaken, Rise, ThreadTo, mainVars, clientVars
  <2>2. Alive(d)
    BY <1>7 DEF Thread, ThreadEnds, RunTask, Awaken, Rise, Alive
  <2>3. ~(stop' = "done" /\ ~again')
    BY <2>1, <2>2
  <2> QED BY <2>1, <2>3 DEF MainAlive
<1>8. ASSUME NEW j \in Job, JobStep(j) PROVE StopInv'
  BY <1>8 DEF JobStep, mainVars, threadVars, clientVars, MainAlive, Alive
<1>9. CASE UNCHANGED daemonVars
  BY <1>9 DEF daemonVars, mainVars, threadVars, clientVars, MainAlive, Alive
<1> QED BY <1>1, <1>2, <1>3, <1>4, <1>5, <1>6, <1>7, <1>8, <1>9, <1>10 DEF DaemonsNext

(* Any number of daemons, jobs, starts and stops: when the future of stop is *)
(* done, and no start was under way or called since stop was, no thread is   *)
(* left that could take another task (StmDaemons.scala:53-78, 96-114).       *)
THEOREM StoppedStaysStill == DaemonsSpec => []StoppedIsStill
<1>1. DaemonsInit => StopInv
  BY DEF DaemonsInit, StopInv, StoppedIsStill
<1>2. StopInv => StoppedIsStill
  BY DEF StopInv
<1> QED BY <1>1, <1>2, StopStep, PTL DEF DaemonsSpec
=============================================================================
