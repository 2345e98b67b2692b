-------------------------------- MODULE Ways --------------------------------
(* A binary tree as a function: its domain are the ways from the root to its *)
(* nodes, 0 for left and 1 for right, its values what the nodes hold.  A node*)
(* lives behind a pointer of its own and is reached from its parent only, so *)
(* with a way all its beginnings are in the domain.                          *)
EXTENDS Integers, Sequences, FiniteSets

Way == Seq({0, 1})
Top == << >>
NoNodes == [w \in {} |-> 0]

Children(w) == {Append(w, 0), Append(w, 1)}
Leaves(tree) == {w \in DOMAIN tree : Children(w) \cap DOMAIN tree = {}}

(* Where a node can be added: as the root, or as the child of a node that    *)
(* has none at that side.                                                    *)
Free(tree) ==
  IF DOMAIN tree = {} THEN {Top}
  ELSE (UNION {Children(w) : w \in DOMAIN tree}) \ DOMAIN tree

Added(tree, w, value) ==
  [x \in DOMAIN tree \cup {w} |-> IF x = w THEN value ELSE tree[x]]
Dropped(tree, w) == [x \in DOMAIN tree \ {w} |-> tree[x]]

(* Is x below u, at that side of it?  Is it u or below?                      *)
Under(u, side, x) ==
  /\ Len(x) > Len(u) /\ x[Len(u) + 1] = side
  /\ \A i \in 1..Len(u) : x[i] = u[i]
Within(u, x) == Len(x) >= Len(u) /\ \A i \in 1..Len(u) : x[i] = u[i]

(* Where one ends who goes on to the same side from w as long as he can.     *)
Straight(tree, w, side) ==
  {x \in DOMAIN tree : Within(w, x) /\ \A i \in (Len(w) + 1)..Len(x) : x[i] = side}
End(tree, w, side) ==
  CHOOSE x \in Straight(tree, w, side) : Append(x, side) \notin DOMAIN tree

(* How often a value is in the tree.                                         *)
Occurs(tree, value) == Cardinality({w \in DOMAIN tree : tree[w] = value})
=============================================================================
