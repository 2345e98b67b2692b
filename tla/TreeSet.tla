------------------------------ MODULE TreeSet -------------------------------
(* The search tree of stm/collection/TreeSet.scala: greater values to the    *)
(* left, the others, equal ones included, to the right.  Every operation is  *)
(* a transaction.                                                            *)
EXTENDS Ways

CONSTANTS
  Value,      \* numbers, in their order
  Nothing,
  MaxSize     \* how many nodes a tree may have

VARIABLES
  nodes,      \* the tree that hangs from rootPtr
  last        \* the last operation, for the record

vars == <<nodes, last>>

Init == nodes = NoNodes /\ last = Nothing

(* min goes right, max goes left.                                            *)
LeastOf(w) == nodes[End(nodes, w, 1)]
GreatestOf(w) == nodes[End(nodes, w, 0)]

(* The node where a search for v that begins at w ends, if it finds v.       *)
Found(w, v) ==
  {x \in DOMAIN nodes :
     /\ Within(w, x) /\ nodes[x] = v
     /\ \A u \in DOMAIN nodes : Within(w, u) =>
          (Under(u, 0, x) => nodes[u] < v) /\ (Under(u, 1, x) => nodes[u] > v)}
Contains(v) == Found(Top, v) # {}

(* A node with a left subtree takes the least value of that, one with only a *)
(* right subtree the greatest of it, which is then removed there.            *)
GreatestLeft(w) == GreatestOf(Append(w, 0))   \* the wrong end
LeastLeft(w) == LeastOf(Append(w, 0))
Filler(w) ==
  IF Append(w, 0) \in DOMAIN nodes THEN LeastLeft(w) ELSE GreatestOf(Append(w, 1))
FillerFound(w) ==
  IF Append(w, 0) \in DOMAIN nodes THEN Found(Append(w, 0), Filler(w))
  ELSE Found(Append(w, 1), Filler(w))

Add(v) ==
  /\ Cardinality(DOMAIN nodes) < MaxSize
  /\ \E w \in Free(nodes) :
       /\ \A u \in DOMAIN nodes :
            (Under(u, 0, w) => nodes[u] < v) /\ (Under(u, 1, w) => nodes[u] >= v)
       /\ nodes' = Added(nodes, w, v)
  /\ last' = <<"put", v>>

(* The nodes a removal comes to: the one its search finds, and below each    *)
(* that is no leaf the one where the value that fills it was.  The last of   *)
(* them is dropped.  A search that ends nowhere throws before anything is    *)
(* written; remove then answers false.                                       *)
Remove(v) ==
  /\ \E filled \in SUBSET (DOMAIN nodes) :
       /\ filled = Found(Top, v) \cup UNION {FillerFound(w) : w \in filled \ Leaves(nodes)}
       /\ filled \cap Leaves(nodes) # {}
       /\ nodes' = [w \in DOMAIN nodes \ (filled \cap Leaves(nodes)) |->
                      IF w \in filled THEN Filler(w) ELSE nodes[w]]
  /\ last' = <<"drop", v>>

Next == \E v \in Value : Add(v) \/ Remove(v)
Spec == Init /\ [][Next]_vars

-----------------------------------------------------------------------------
(* A value is found exactly when it is somewhere in the tree, whatever was   *)
(* removed before and moved up in its place (l.54-101,122-130): "contains    *)
(* mustBe true" after add, "mustBe false" after remove of the only one       *)
(* (StmCollectionSpecBase.scala:117-121).                                    *)
FoundIffPresent == \A v \in Value : Contains(v) <=> \E w \in DOMAIN nodes : nodes[w] = v

(* min and max answer the least and the greatest value (l.46-52).            *)
EndsAreRight ==
  \A w \in DOMAIN nodes : LeastOf(Top) <= nodes[w] /\ nodes[w] <= GreatestOf(Top)

(* An addition adds its value, a removal removes one occurrence of its own,  *)
(* and neither loses another (l.54-120).                                     *)
Abstract == INSTANCE Collection WITH items <- [v \in Value |-> Occurs(nodes, v)]
ImplementsCollection == Abstract!CollectionSpec
=============================================================================
