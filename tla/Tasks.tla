------------------------------- MODULE Tasks --------------------------------
(* The task layer of stm/task: Task.scala and StmExecutionQueue.scala.  A    *)
(* task keeps its function, its executor, its outcome, the tasks it waits    *)
(* for (triggers) and the tasks that wait for it (subscribers).  Executors   *)
(* take tasks from the queue, run their functions and complete them.  Every  *)
(* transaction of the code is one step, as Restm makes it; what happens      *)
(* between two transactions is left to interleave.                           *)
(*                                                                           *)
(* A function is known by what it asks of the layer: the first function of a *)
(* task makes the tasks of Children and continues when they are complete     *)
(* (TaskContinue, as TreeCollection's sort does), the second, or the first   *)
(* of a task without children, succeeds; each may throw.                     *)
EXTENDS Naturals, FiniteSets

CONSTANTS
  Task, Executor, NoOne,
  Children,     \* [Task -> the tasks its function makes and waits for]
  Ancestors,    \* [Task -> the tasks it waits for from the start]
  Faults,       \* which of "crash", "lost" and "drop" may happen
  MaxFaults

ASSUME TasksAssumption ==
  /\ Children \in [Task -> SUBSET Task] /\ Ancestors \in [Task -> SUBSET Task]
  /\ NoOne \notin Executor \cup Task
  /\ MaxFaults \in Nat

VARIABLES
  data,      \* TaskData of every task made
  queue,     \* [Task -> how often it is in the work queue]
  run,       \* [Executor -> what it runs]
  failing,   \* tasks whose failure is being reported
  faults     \* how many faults happened, and whether a reply was lost

vars == <<data, queue, run, failing, faults>>

Made == DOMAIN data
IsComplete(d, t) == t \in DOMAIN d /\ (d[t].result \/ d[t].exception)
Idle == [task |-> NoOne, part |-> 0, made |-> {}]
Busy == {e \in Executor : run[e].task # NoOne}

TaskData(M) == [part : {0, 1}, executor : Executor \cup {NoOne}, result : BOOLEAN,
                exception : BOOLEAN, triggers : SUBSET M, subscribers : SUBSET M]

TasksTypeOK ==
  /\ Made \subseteq Task
  /\ \A t \in Made : data[t] \in TaskData(Made)
  /\ queue \in [Task -> Nat]
  /\ run \in [Executor -> [task : Made \cup {NoOne}, part : {0, 1}, made : SUBSET Made]]
  /\ failing \subseteq Made
  /\ faults \in [number : 0..MaxFaults, lost : BOOLEAN]

Init ==
  /\ data = << >>
  /\ queue = [t \in Task |-> 0]
  /\ run = [e \in Executor |-> Idle]
  /\ failing = {}
  /\ faults = [number |-> 0, lost |-> FALSE]

-----------------------------------------------------------------------------
Added(q, T) == [t \in Task |-> IF t \in T THEN q[t] + 1 ELSE q[t]]

(* addSubscriber on every trigger.                                           *)
Subscribed(d, t) ==
  [u \in DOMAIN d |-> IF u \in d[t].triggers
                      THEN [d[u] EXCEPT !.subscribers = @ \cup {t}] ELSE d[u]]

(* One complete trigger is enough.                                           *)
CanRunAny(d, t) == d[t].triggers = {} \/ \E u \in d[t].triggers : IsComplete(d, u)

CanRun(d, t) == \A u \in d[t].triggers : IsComplete(d, u)

(* As if a task were left to its triggers.                                   *)
NeverQueued(d, t) == {}

(* initTriggers: t is queued at once if nothing is left to wait for.         *)
IfCanRun(d, t) == IF CanRun(d, t) THEN {t} ELSE {}

NewTask(t) == [part |-> 0, executor |-> NoOne, result |-> FALSE, exception |-> FALSE,
               triggers |-> Ancestors[t], subscribers |-> {}]

(* Task.create and initTriggers, from StmExecutionQueue.add or Task.map.     *)
Create(t) ==
  /\ t \notin Made /\ Ancestors[t] \subseteq Made
  /\ LET d == Subscribed([u \in Made \cup {t} |-> IF u = t THEN NewTask(t) ELSE data[u]], t)
     IN /\ data' = d
        /\ queue' = Added(queue, IfCanRun(d, t))

ByClient(t) ==
  /\ \A u \in Task : t \notin Children[u]
  /\ Create(t)
  /\ UNCHANGED <<run, failing, faults>>

(* getTask: the entry taken is gone whether or not its task can be obtained. *)
ObtainableAgain(t) == ~IsComplete(data, t)
Obtainable(t) == data[t].executor = NoOne /\ ~IsComplete(data, t)
Take(e, t) ==
  /\ e \notin Busy /\ queue[t] > 0
  /\ queue' = [queue EXCEPT ![t] = @ - 1]
  /\ IF Obtainable(t)
     THEN /\ data' = [data EXCEPT ![t].executor = e]
          /\ run' = [run EXCEPT ![e] = [task |-> t, part |-> data[t].part, made |-> {}]]
     ELSE UNCHANGED <<data, run>>
  /\ UNCHANGED <<failing, faults>>

(* A first function makes the tasks it will wait for, each in a transaction. *)
ByFunction(e, c) ==
  /\ e \in Busy /\ run[e].part = 0
  /\ c \in Children[run[e].task] \ run[e].made
  /\ Create(c)
  /\ run' = [run EXCEPT ![e].made = @ \cup {c}]
  /\ UNCHANGED <<failing, faults>>

(* complete: what becomes of the task, then the subscribers that can run are *)
(* added to their queues, side by side.  Two adds of one transaction may     *)
(* meet in one list and lose one of them (LinkedList, MaxParallel = 2).      *)
Success(t) == [data EXCEPT ![t].result = TRUE]
Failure(t) == [data EXCEPT ![t].exception = TRUE]
Unsubscribed(t) ==
  [data EXCEPT ![t] = [@ EXCEPT !.part = 1, !.executor = NoOne, !.triggers = Children[t]]]
Continue(t) ==
  Subscribed([data EXCEPT ![t] = [@ EXCEPT !.part = 1, !.executor = NoOne,
                                           !.triggers = Children[t]]], t)

AddedSideBySide(T) == IF Cardinality(T) <= 1 THEN {T} ELSE SUBSET T \ {{}}

Complete(t, d, own) ==
  /\ data' = d
  /\ \E T \in AddedSideBySide({s \in data[t].subscribers : CanRun(d, s)}) :
       queue' = Added(Added(queue, own), T)

Returns(e) ==
  LET t == run[e].task IN
  /\ e \in Busy
  /\ \/ /\ run[e].part = 0 /\ run[e].made = Children[t]
        /\ Complete(t, Continue(t), IfCanRun(Continue(t), t))
     \/ /\ run[e].part = 1 \/ Children[t] = {}
        /\ Complete(t, Success(t), {})
  /\ run' = [run EXCEPT ![e] = Idle]

FinishAndReport(e) ==
  Returns(e) /\ failing' = failing \cup {run[e].task} /\ UNCHANGED faults
Finish(e) == Returns(e) /\ UNCHANGED <<failing, faults>>

(* The function throws, or its completion is refused: a failure is reported  *)
(* in a future of its own, and the executor goes on.                         *)
Throw(e) ==
  /\ e \in Busy
  /\ failing' = failing \cup {run[e].task}
  /\ run' = [run EXCEPT ![e] = Idle]
  /\ UNCHANGED <<data, queue, faults>>

Fail(t) ==
  /\ t \in failing
  /\ Complete(t, Failure(t), {})
  /\ failing' = failing \ {t}
  /\ UNCHANGED <<run, faults>>

-----------------------------------------------------------------------------
Fault(kind) ==
  /\ kind \in Faults /\ faults.number < MaxFaults
  /\ faults' = [number |-> faults.number + 1, lost |-> faults.lost \/ kind = "lost"]

(* An executor stops with its task; another takes its place.                 *)
Crash(e) ==
  /\ e \in Busy
  /\ Fault("crash")
  /\ run' = [run EXCEPT ![e] = Idle]
  /\ UNCHANGED <<data, queue, failing>>

(* The completion commits but its reply is lost: it looks refused.           *)
LoseReply(e) ==
  /\ Returns(e)
  /\ Fault("lost")
  /\ failing' = failing \cup {run[e].task}

(* Nobody looks whether the report of a failure fails itself.                *)
DropFailure(t) ==
  /\ t \in failing
  /\ Fault("drop")
  /\ failing' = failing \ {t}
  /\ UNCHANGED <<data, queue, run>>

Step(e) ==
  \/ \E t \in Made : Take(e, t)
  \/ \E c \in Task : ByFunction(e, c)
  \/ Finish(e) \/ Throw(e)

Next ==
  \/ \E t \in Task : ByClient(t) \/ Fail(t) \/ DropFailure(t)
  \/ \E e \in Executor : Step(e) \/ Crash(e) \/ LoseReply(e)

Spec == Init /\ [][Next]_vars

(* The executor threads loop for ever (task, l.94-118), functions return or  *)
(* throw, and a report under way gets done.  take(1) may look into an empty  *)
(* list and answer None; it looks into a random one each time.               *)
Fairness ==
  /\ \A e \in Executor : WF_vars(Step(e))
  /\ \A t \in Task : WF_vars(Fail(t))

LiveSpec == Spec /\ Fairness

-----------------------------------------------------------------------------
Runnable(t) == ~IsComplete(data, t) /\ data[t].executor = NoOne /\ CanRun(data, t)

(* A task that could run is in the queue, whichever of its triggers came     *)
(* last, and in whatever order it was made and they completed: "each leaf    *)
(* being an executing or queued task" (README.md:102).                       *)
RunnableIsQueued == \A t \in Made : Runnable(t) => queue[t] > 0

(* No reply of a completion was lost: none was taken for a failure.          *)
NoneLost == ~faults.lost

(* No function runs before the tasks it waits for are complete, unless its   *)
(* completion was taken for a failure (Task.scala:235).                      *)
WaitsForTriggers ==
  NoneLost => \A e \in Busy :
    LET waits == IF run[e].part = 0 THEN Ancestors ELSE Children
    IN \A u \in waits[run[e].task] : IsComplete(data, u)

(* No two executors run one task, and the one that does is on record: a      *)
(* duplicate entry, a crash or a failure under way must not let a second one *)
(* in (obtainTask, Task.scala:143-153).                                      *)
OneRunner ==
  /\ \A e, f \in Busy : run[e].task = run[f].task => e = f
  /\ \A e \in Busy : data[run[e].task].executor = e

(* An outcome, once there for a subscriber or a client to read, stays, with  *)
(* the same exception (Task.scala:166-176).                                  *)
OutcomesKept ==
  \A t \in Made : IsComplete(data, t) =>
    data'[t].result = data[t].result /\ data'[t].exception = data[t].exception
OutcomesFinal == [][NoneLost => OutcomesKept]_vars

(* Every task made is completed in the end, with all it expands into: again  *)
(* and again nothing is left to complete, and no task made goes away.        *)
AllComplete == []<>(\A t \in Made : IsComplete(data, t))
=============================================================================
