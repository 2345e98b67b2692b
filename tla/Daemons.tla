------------------------------ MODULE Daemons -------------------------------
(* The threads of stm/task/StmDaemons.scala: a poller that starts a thread   *)
(* for every registered daemon, the executor loops those threads run         *)
(* (StmExecutionQueue.scala: task and runTask), and their start and stop.    *)
(* Threads are told to end by their interrupt flags; a blocking call clears  *)
(* the flag when it throws.  A job, the transaction that takes a task and    *)
(* the function it yields, is a chain of futures of other pools: its thread  *)
(* only waits for it.                                                        *)
EXTENDS Naturals, FiniteSets

CONSTANTS
  Daemon,       \* the names of daemons
  Job, NoJob,   \* executions of tasks; NoJob is none of them
  MaxStarts     \* how often start and stop are called

VARIABLES
  config,      \* the daemons registered
  main,        \* where the poller is
  mainFlag,    \* the poller's interrupt flag
  thread,      \* [Daemon -> where its thread is]
  flag,        \* [Daemon -> the interrupt flag of its thread]
  awaits,      \* [Daemon -> the job its thread waits for]
  job,         \* [Job -> how far it is]
  starting,    \* where a call of start is
  stop,        \* how far the last stop is
  again,       \* was start called since that stop, or under way when it was
  starts, stops

mainVars == <<main, mainFlag>>
threadVars == <<thread, flag, awaits>>
clientVars == <<starting, stop, again, starts, stops>>
daemonVars == <<config, mainVars, threadVars, job, clientVars>>

MainAlive == main \in {"test", "read", "sleep"}
Alive(d) == thread[d] \in {"loop", "await", "nap"}
UnderWay(j) == job[j] \in {"taking", "running"}

DaemonsTypeOK ==
  /\ config \subseteq Daemon
  /\ main \in {"none", "test", "read", "sleep", "ended"}
  /\ thread \in [Daemon -> {"none", "loop", "await", "nap", "ended"}]
  /\ mainFlag \in BOOLEAN /\ flag \in [Daemon -> BOOLEAN] /\ again \in BOOLEAN
  /\ awaits \in [Daemon -> Job \cup {NoJob}]
  /\ job \in [Job -> {"unborn", "taking", "running", "done"}]
  /\ \A d \in Daemon : awaits[d] # NoJob <=> thread[d] = "await"
  /\ starting \in {"no", "init", "assign"}
  /\ stop \in {"no", "called", "mainGone", "done"}
  /\ starts \in 0..MaxStarts /\ stops \in 0..MaxStarts

DaemonsInit ==
  /\ config = {}
  /\ main = "none" /\ mainFlag = FALSE
  /\ thread = [d \in Daemon |-> "none"]
  /\ flag = [d \in Daemon |-> FALSE]
  /\ awaits = [d \in Daemon |-> NoJob]
  /\ job = [j \in Job |-> "unborn"]
  /\ starting = "no" /\ stop = "no" /\ again = FALSE /\ starts = 0 /\ stops = 0

-----------------------------------------------------------------------------
(* The poller.                                                               *)

(* The interrupt flag is tested, and cleared.                                *)
MainEnds ==
  /\ main' = "ended" /\ mainFlag' = FALSE
  /\ flag' = [d \in Daemon |-> flag[d] \/ Alive(d)]

MainTest ==
  /\ main = "test"
  /\ IF mainFlag THEN MainEnds ELSE main' = "read" /\ UNCHANGED <<mainFlag, flag>>
  /\ UNCHANGED <<config, thread, awaits, job, clientVars>>

(* A daemon whose thread ended is not started again.                         *)
StartedOnce(D) ==
  /\ thread' = [d \in Daemon |-> IF d \in D /\ thread[d] = "none" THEN "loop" ELSE thread[d]]
  /\ UNCHANGED <<flag, awaits>>

Started(D) ==
  /\ thread' = [d \in Daemon |-> IF d \in D /\ ~Alive(d) THEN "loop" ELSE thread[d]]
  /\ flag' = [d \in Daemon |-> IF d \in D /\ ~Alive(d) THEN FALSE ELSE flag[d]]
  /\ UNCHANGED awaits

(* startAll: the daemons registered, and without a living thread, get one.   *)
StartAll ==
  /\ main = "read"
  /\ Started(config)
  /\ main' = "sleep"
  /\ UNCHANGED <<config, mainFlag, job, clientVars>>

(* An interrupt while startAll waits for the list: the flag is cleared, and  *)
(* the exception caught and printed (l.60-64).                               *)
StartInterrupted ==
  /\ main = "read" /\ mainFlag
  /\ \E D \in SUBSET config : Started(D)
  /\ main' = "sleep" /\ mainFlag' = FALSE
  /\ UNCHANGED <<config, job, clientVars>>

(* An interrupt while the poller sleeps ends it.                             *)
MainSleep ==
  /\ main = "sleep"
  /\ IF mainFlag THEN MainEnds ELSE main' = "test" /\ UNCHANGED <<mainFlag, flag>>
  /\ UNCHANGED <<config, thread, awaits, job, clientVars>>

Main == MainTest \/ StartAll \/ StartInterrupted \/ MainSleep

-----------------------------------------------------------------------------
(* The thread of a daemon: the loop of StmExecutionQueue.task.               *)

ThreadTo(d, place, j) ==
  /\ thread' = [thread EXCEPT ![d] = place]
  /\ awaits' = [awaits EXCEPT ![d] = j]
  /\ UNCHANGED <<config, mainVars, clientVars>>

(* The interrupt flag, set again by the handler of an InterruptedException,  *)
(* ends the loop; the job goes on.                                           *)
ThreadEnds(d) ==
  /\ Alive(d) /\ flag[d]
  /\ ThreadTo(d, "ended", NoJob)
  /\ flag' = [flag EXCEPT ![d] = FALSE]
  /\ UNCHANGED job

(* runTask begins with the transaction that takes a task.                    *)
RunTask(d) ==
  /\ thread[d] = "loop" /\ ~flag[d]
  /\ \E j \in Job : /\ job[j] = "unborn"
                    /\ job' = [job EXCEPT ![j] = "taking"]
                    /\ ThreadTo(d, "await", j)
  /\ UNCHANGED flag

(* Its job is done: the thread takes a nap if there was no task, or not.     *)
Awaken(d) ==
  /\ thread[d] = "await" /\ ~UnderWay(awaits[d])
  /\ \E place \in {"nap", "loop"} : ThreadTo(d, place, NoJob)
  /\ UNCHANGED <<flag, job>>

Rise(d) ==
  /\ thread[d] = "nap"
  /\ ThreadTo(d, "loop", NoJob)
  /\ UNCHANGED <<flag, job>>

Thread(d) == ThreadEnds(d) \/ RunTask(d) \/ Awaken(d) \/ Rise(d)

(* A job takes a task and runs its function, or finds none.                  *)
JobStep(j) ==
  /\ \/ job[j] = "taking" /\ \E k \in {"running", "done"} : job' = [job EXCEPT ![j] = k]
     \/ job[j] = "running" /\ job' = [job EXCEPT ![j] = "done"]
  /\ UNCHANGED <<config, mainVars, threadVars, clientVars>>

-----------------------------------------------------------------------------
(* The clients: registerDaemons, start, stop and the future stop answers.    *)
(* They call start one at a time, and stop whenever they like.               *)

(* mainThread is a poller that lives.  One that start just made is not in it *)
(* yet; start looked, the one before it is dead.                             *)
IsMainAlive == MainAlive /\ starting # "assign"

Register(d) ==
  /\ d \notin config
  /\ config' = config \cup {d}
  /\ UNCHANGED <<mainVars, threadVars, job, clientVars>>

Start ==
  /\ starting = "no"
  /\ starts < MaxStarts /\ starts' = starts + 1
  /\ starting' = IF IsMainAlive THEN "no" ELSE "init"
  /\ again' = TRUE
  /\ UNCHANGED <<config, mainVars, threadVars, job, stop, stops>>

(* start waits up to 30 s for the task queue, or throws; then the poller     *)
(* runs before mainThread names it.                                          *)
StartFails ==
  /\ starting = "init" /\ starting' = "no"
  /\ UNCHANGED <<config, mainVars, threadVars, job, stop, again, starts, stops>>

StartMain ==
  /\ starting = "init" /\ starting' = "assign"
  /\ main' = "test" /\ mainFlag' = FALSE
  /\ UNCHANGED <<config, threadVars, job, stop, again, starts, stops>>

StartAssigns ==
  /\ starting = "assign" /\ starting' = "no"
  /\ UNCHANGED <<config, mainVars, threadVars, job, stop, again, starts, stops>>

Stop ==
  /\ stop \in {"no", "done"}
  /\ stops < MaxStarts /\ stops' = stops + 1
  /\ mainFlag' = (mainFlag \/ IsMainAlive)
  /\ stop' = "called" /\ again' = (starting # "no")
  /\ UNCHANGED <<config, main, threadVars, job, starting, starts>>

(* join looks at the poller first and at the threads after it; if one lives, *)
(* it looks at both again 100 ms later.                                      *)
JoinEarly ==
  /\ stop = "called"
  /\ stop' = "mainGone"
  /\ UNCHANGED <<config, mainVars, threadVars, job, starting, again, starts, stops>>
JoinMain ==
  /\ stop = "called" /\ ~IsMainAlive
  /\ stop' = "mainGone"
  /\ UNCHANGED <<config, mainVars, threadVars, job, starting, again, starts, stops>>

JoinThreads ==
  /\ stop = "mainGone"
  /\ stop' = IF \E d \in Daemon : Alive(d) THEN "called" ELSE "done"
  /\ UNCHANGED <<config, mainVars, threadVars, job, starting, again, starts, stops>>

DaemonsNext ==
  \/ Main \/ Stop \/ JoinMain \/ JoinThreads
  \/ Start \/ StartFails \/ StartMain \/ StartAssigns
  \/ \E d \in Daemon : Register(d) \/ Thread(d)
  \/ \E j \in Job : JobStep(j)

DaemonsSpec == DaemonsInit /\ [][DaemonsNext]_daemonVars

(* Threads run, jobs end, and join looks every 100 ms.                       *)
DaemonsFairness ==
  /\ WF_daemonVars(Main) /\ WF_daemonVars(JoinMain) /\ WF_daemonVars(JoinThreads)
  /\ \A d \in Daemon : WF_daemonVars(Thread(d))
  /\ \A j \in Job : WF_daemonVars(JobStep(j))

DaemonsLiveSpec == DaemonsSpec /\ DaemonsFairness

-----------------------------------------------------------------------------
(* When stop's future is done, and no start was under way or called since    *)
(* stop was, no thread lives that could take another task (join, l.101-114). *)
StoppedIsStill ==
  stop = "done" /\ ~again => ~MainAlive /\ \A d \in Daemon : ~Alive(d)

(* While the poller lives on, every daemon registered gets a thread that     *)
(* stays, though the one it had under an earlier poller may be still ending  *)
(* when the new poller looks (startAll, l.80-94).                            *)
DaemonsComeBack ==
  \A d \in Daemon : <>[](MainAlive /\ d \in config) => <>[]Alive(d)

(* When stop's future is done, the tasks under way are: "This will block     *)
(* while all tasks are completed" (README.md:112).                           *)
StopWaitsForTasks == stop = "done" /\ ~again => \A j \in Job : ~UnderWay(j)

(* A stop ends, unless start is called: tests wait 30 seconds for it         *)
(* (StmExecutionSpecBase.scala:61).                                          *)
StopEnds == stop = "called" ~> stop = "done" \/ again
=============================================================================
