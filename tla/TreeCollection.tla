--------------------------- MODULE TreeCollection ---------------------------
(* The unordered tree of stm/collection/TreeCollection.scala: a coin at every*)
(* node decides where an addition or a removal goes.  Every operation is a   *)
(* transaction; sort builds a list of its own out of what it finds.          *)
EXTENDS Trees, Sequences

CONSTANTS
  Value,      \* numbers, in their order
  Nothing,
  MaxSize     \* how many nodes a tree may have

VARIABLES
  tree,
  last        \* the last operation, for the record

vars == <<tree, last>>

Init == tree = Nil /\ last = Nothing

(* The trees += may leave.                                                   *)
RECURSIVE With(_, _)
With(t, v) ==
  IF IsNil(t) THEN {Node(v, Nil, Nil)}
  ELSE {[t EXCEPT !.left = l] : l \in With(t.left, v)}
       \cup {[t EXCEPT !.right = r] : r \in With(t.right, v)}

(* The trees get may leave, each with the value it answers: a leaf goes, or  *)
(* what a child leaves takes that child's place.  A side that is empty sends *)
(* the search to the other.                                                  *)
RECURSIVE Got(_)
Sides(t) ==
  {<<[t EXCEPT !.left = g[1]], g[2]>> : g \in IF IsNil(t.left) THEN {} ELSE Got(t.left)}
  \cup {<<[t EXCEPT !.right = g[1]], g[2]>> : g \in IF IsNil(t.right) THEN {} ELSE Got(t.right)}
Got(t) == IF Sides(t) = {} THEN {<<Nil, t.value>>} ELSE Sides(t)

(* The continuation of a sort task: a cursor on the head of each subtree's   *)
(* sorted list and one on the node's own value; the least value is added to  *)
(* the result, and its cursor moves to the next of its list, if there is one.*)
RECURSIVE Merged(_)
MergedAtOnce(cursors) ==   \* as if the first list were taken whole
  IF cursors = {} THEN << >>
  ELSE LET next == CHOOSE c \in cursors : \A d \in cursors : Head(c[2]) <= Head(d[2])
       IN next[2] \o Merged(cursors \ {next})
Merged(cursors) ==
  IF cursors = {} THEN << >>
  ELSE LET next == CHOOSE c \in cursors : \A d \in cursors : Head(c[2]) <= Head(d[2])
           rest == cursors \ {next}
       IN <<Head(next[2])>>
          \o Merged(IF Tail(next[2]) = << >> THEN rest
                    ELSE rest \cup {<<next[1], Tail(next[2])>>})

RECURSIVE Sorted(_)
Sorted(t) ==
  IF IsNil(t) THEN << >>
  ELSE Merged({c \in {<<"left", Sorted(t.left)>>, <<"right", Sorted(t.right)>>,
                      <<"node", <<t.value>>>>} : c[2] # << >>})

Add(v) ==
  /\ Size(tree) < MaxSize
  /\ tree' \in With(tree, v)
  /\ last' = <<"put", v>>

Get ==
  /\ ~IsNil(tree)
  /\ \E g \in Got(tree) : tree' = g[1] /\ last' = <<"drop", g[2]>>

GetNone ==
  /\ IsNil(tree)
  /\ last' = <<"empty">>
  /\ UNCHANGED tree

Next == Get \/ GetNone \/ \E v \in Value : Add(v)
Spec == Init /\ [][Next]_vars

-----------------------------------------------------------------------------
(* The list that sort makes of whatever tree the coins grew is in order and  *)
(* has each value as often as the tree (l.160-185).                          *)
SortIsRight ==
  LET list == Sorted(tree)
  IN /\ \A i \in 1..(Len(list) - 1) : list[i] <= list[i + 1]
     /\ \A v \in Value : Len(SelectSeq(list, LAMBDA x : x = v)) = Count(tree, v)

(* An addition adds its value, get takes the one it answers and only that,   *)
(* and finds nothing only when there is nothing (l.72-135,202-214).          *)
Abstract == INSTANCE Collection WITH items <- [v \in Value |-> Count(tree, v)]
ImplementsCollection == Abstract!CollectionSpec
=============================================================================
