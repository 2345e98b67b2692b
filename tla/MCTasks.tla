------------------------------ MODULE MCTasks -------------------------------
(* Tasks on small instances, in two scenes: "tree", a tree of tasks as sort  *)
(* expands into, whose root p is mapped to m, without faults; and "faults",  *)
(* a tree one level deep, whose root q is mapped to n, and faults.           *)
EXTENDS Tasks

CONSTANTS p, a, b, c, m, q, x, y, n
VARIABLE scene

MCChildren ==
  [t \in Task |-> CASE t = p -> {a, b} [] t = a -> {c} [] t = q -> {x, y} [] OTHER -> {}]
MCAncestors == [t \in Task |-> CASE t = m -> {p} [] t = n -> {q} [] OTHER -> {}]

MCNext ==
  /\ UNCHANGED scene
  /\ Next
  /\ \/ scene = "tree" /\ faults'.number = 0 /\ Made' \subseteq {p, a, b, c, m}
     \/ scene = "faults" /\ Made' \subseteq {q, x, y, n}

MCInit == Init /\ scene \in {"tree", "faults"}
MCSpec == MCInit /\ [][MCNext]_<<vars, scene>>
=============================================================================
