---------------------------- MODULE MCCollections ----------------------------
(* The collections of stm/collection and stm/clustering and the task queue,  *)
(* on small instances and one at a time, each in a scene of its own.  "grow" *)
(* and "restart" are both the task queue, the second with nodes that call    *)
(* init again; "split" and "torn" are both a node of a classification tree,  *)
(* the second with splits that overlap, find no rule or stop.                *)
EXTENDS Collections

VARIABLE tree   \* of the map or the coins

listVars == vars

Number == 1..5
Letter == {"x", "y"}
Elements == 1..4
Tasks == 1..2
Items == 1..4
Splits == 1..2
SideOf == [i \in Items |-> IF i = 1 THEN "pass" ELSE "fail"]

Map == INSTANCE TreeMap WITH Key <- 1..4, Content <- Letter, MaxSize <- 4, last <- answer
Coins == INSTANCE TreeCollection WITH Value <- 1..3, MaxSize <- 4, last <- answer

MCInit ==
  /\ scene \in {"set", "map", "coins", "pages", "list", "grow", "restart", "split", "torn"}
  /\ Map!Init /\ Pages!Init /\ Init /\ Queue!Init /\ Leaf!Init

MCNext ==
  /\ UNCHANGED scene
  /\ \/ /\ UNCHANGED <<nodes, pageVars, listVars, queueVars, leafVars>>
        /\ \/ scene = "map" /\ Map!Next
           \/ scene = "coins" /\ Coins!Next
     \/ /\ UNCHANGED <<tree, listVars, queueVars, leafVars>>
        /\ \/ scene = "set" /\ Set!Next /\ UNCHANGED pageVars
           \/ scene = "pages" /\ Pages!Next
     \/ scene = "list" /\ Next /\ UNCHANGED <<tree, nodes, answer, pageVars, queueVars, leafVars>>
     \/ /\ UNCHANGED <<tree, nodes, pageVars, listVars, leafVars>>
        /\ \/ scene = "grow" /\ Queue!Next /\ ~Queue!Reinit
           \/ scene = "restart" /\ Queue!Next
     \/ /\ UNCHANGED <<tree, nodes, answer, pageVars, listVars, queueVars>>
        /\ \/ scene = "split" /\ Leaf!Next
           \/ scene = "torn" /\ Torn!Next /\ 4 \notin items'

MCSpec ==
  MCInit /\ [][MCNext]_<<scene, tree, nodes, answer, pageVars, listVars, queueVars, leafVars>>

(* The list sort makes is in order and complete (TreeCollection.scala:160).  *)
SortIsRight == scene = "coins" => Coins!SortIsRight

(* Trees and queue are collections: nothing is lost, doubled or overlooked,  *)
(* but for init, which is not looked at here (TaskQueue.scala:52).           *)
Contents == [v \in Number |->
  CASE scene = "set" \/ scene = "pages" -> Set!Occurs(nodes, v)
    [] scene = "coins" -> Coins!Count(tree, v)
    [] scene = "map" -> IF v \in 1..4 THEN Map!KeyCount(v) ELSE 0
    [] scene = "grow" -> IF v \in 1..2 THEN Queue!QueuedTimes(v) ELSE 0
    [] OTHER -> 0]
AsCollection == INSTANCE Collection
  WITH Value <- Number, items <- Contents, last <- IF scene = "restart" THEN Nothing ELSE answer
ImplementsCollection == AsCollection!CollectionSpec
=============================================================================
