------------------------------- MODULE MCLive -------------------------------
(* What must happen in the end, in three scenes that share nothing: the      *)
(* threads of daemons, a tree of tasks, and one write to two replicas with   *)
(* one decision or installation lost.  Each is under the fairness of its own *)
(* module; in the others nothing ever starts, so nothing is owed.            *)
EXTENDS Replicator, Daemons

CONSTANTS a, b, m, p, e1, e2, NoOne

VARIABLES scene, data, queue, run, failing, taskFaults

taskVars == <<data, queue, run, failing, taskFaults>>

MCWrite == [t \in Time |-> a]

MCTask == {p, a, b, m}
MCExecutor == {e1, e2}
MCChildren == [t \in MCTask |-> IF t = p THEN {a, b} ELSE {}]
MCAncestors == [t \in MCTask |-> IF t = m THEN {p} ELSE {}]
Tree == INSTANCE Tasks
  WITH Task <- MCTask, Executor <- MCExecutor, Faults <- {}, MaxFaults <- 0,
       Children <- MCChildren, Ancestors <- MCAncestors, faults <- taskFaults

MCNext ==
  /\ UNCHANGED scene
  /\ \/ scene = "copies" /\ Next /\ UNCHANGED <<taskVars, daemonVars>>
     \/ scene = "tree" /\ Tree!Next /\ UNCHANGED <<vars, daemonVars>>
     \/ scene = "daemons" /\ DaemonsNext /\ UNCHANGED <<vars, taskVars>>

MCInit ==
  /\ scene \in {"copies", "tree", "daemons"}
  /\ Init /\ Tree!Init /\ DaemonsInit

MCSpec ==
  /\ MCInit
  /\ [][MCNext]_<<scene, vars, taskVars, daemonVars>>
  /\ Fairness /\ Tree!Fairness /\ DaemonsFairness

(* Every task made is completed (Tasks; Task.scala:235-262).                 *)
AllComplete == Tree!AllComplete
=============================================================================
