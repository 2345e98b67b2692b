------------------------------ MODULE PageTree ------------------------------
(* The bag of pages of stm/clustering/PageTree.scala: a binary tree whose    *)
(* nodes keep one page each.  A page goes to a random free place, the pages  *)
(* taken are leaves.  Additions, takes and every block of a stream are       *)
(* transactions of their own; what a stream keeps between its blocks is the  *)
(* tree id of the next node, the way from the root to it as a number.        *)
EXTENDS Ways

CONSTANTS
  Value,     \* pages, numbers: each is added at most once
  Nothing

VARIABLES
  nodes,     \* the tree that hangs from rootPtr
  last,      \* the last operation, for the record
  added,     \* how many pages were added
  cursor,    \* the tree id the next block of the stream is at
  given,     \* the pages the stream gave
  steady     \* the pages that have been there since it began

streamVars == <<cursor, given, steady>>
vars == <<nodes, last, added, streamVars>>

NoStream == -2
AtEnd == -1

Init ==
  /\ nodes = NoNodes /\ last = Nothing /\ added = 0
  /\ cursor = NoStream /\ given = << >> /\ steady = {}

Has(path) == path \in DOMAIN nodes

-----------------------------------------------------------------------------
(* getTreeId: the bits of the way, behind a 1.  At a node so deep that a Long*)
(* cannot hold its id, 63 levels, the code throws and the stream fails.      *)
TreeId(path) ==
  LET id[n \in 0..Len(path)] == IF n = 0 THEN 1 ELSE 2 * id[n - 1] + path[n]
  IN id[Len(path)]

(* toDigits(id, 2).tail, which getByTreeId follows.                          *)
PathTo[id \in Nat \ {0}] ==
  IF id = 1 THEN Top ELSE Append(PathTo[id \div 2], id % 2)

LeftChild(path) == End(nodes, path, 0)

(* The closest node that has path on its left, if there is one.              *)
RightParents(path) == {SubSeq(path, 1, n - 1) : n \in {m \in 1..Len(path) : path[m] = 0}}

(* nextNode: the ways of the nodes that follow, at most one.                 *)
JustRight(path) ==   \* as if the right child always came next
  IF Has(Append(path, 1)) THEN {Append(path, 1)} ELSE {}
NextNode(path) ==
  IF Has(Append(path, 1)) THEN {LeftChild(Append(path, 1))}
  ELSE {q \in RightParents(path) : \A r \in RightParents(path) : Len(r) <= Len(q)}

-----------------------------------------------------------------------------
(* At every node a coin says which side an addition tries, and a page taken, *)
(* if there are nodes at both; so a new node may be at any free place, and   *)
(* the page taken that of any leaf, which is unlinked.                       *)
Add(v) ==
  /\ v = added + 1
  /\ \E path \in Free(nodes) : nodes' = Added(nodes, path, v)
  /\ added' = v
  /\ last' = <<"put", v>>
  /\ UNCHANGED streamVars

Get ==
  /\ \E path \in Leaves(nodes) :
       /\ nodes' = Dropped(nodes, path)
       /\ last' = <<"drop", nodes[path]>>
       /\ steady' = steady \ {nodes[path]}
  /\ UNCHANGED <<added, cursor, given>>

GetNone ==
  /\ ~Has(Top)
  /\ last' = <<"empty">>
  /\ UNCHANGED <<nodes, added, streamVars>>

-----------------------------------------------------------------------------
(* atomic().pageStream(): it begins at id 0, which stands for the first node.*)
Begin ==
  /\ cursor = NoStream
  /\ cursor' = 0 /\ given' = << >> /\ steady' = {nodes[path] : path \in DOMAIN nodes}
  /\ UNCHANGED <<nodes, last, added>>

Block(path) ==
  /\ given' = Append(given, nodes[path])
  /\ cursor' = IF NextNode(path) = {} THEN AtEnd
               ELSE TreeId(CHOOSE q \in NextNode(path) : TRUE)
  /\ UNCHANGED <<nodes, last, added, steady>>

NextBlock ==
  /\ cursor >= 0 /\ Has(Top)
  /\ LET path == IF cursor = 0 THEN LeftChild(Top) ELSE PathTo[cursor]
     IN Has(path) /\ Block(path)

NoBlock ==
  /\ cursor >= 0 /\ ~Has(Top)
  /\ cursor' = AtEnd
  /\ UNCHANGED <<nodes, last, added, given, steady>>

(* "Cannot locate node": the node the stream would go on with was taken.     *)
Fail ==
  /\ cursor > 0 /\ Has(Top) /\ ~Has(PathTo[cursor])
  /\ cursor' = NoStream /\ given' = << >> /\ steady' = {}
  /\ UNCHANGED <<nodes, last, added>>

Next ==
  \/ Get \/ GetNone \/ Begin \/ NextBlock \/ NoBlock \/ Fail
  \/ \E v \in Value : Add(v)

Spec == Init /\ [][Next]_vars

-----------------------------------------------------------------------------
(* A stream that comes to its end gave every page that was there all the     *)
(* time, and none twice, whatever was added and taken between its blocks     *)
(* (l.58-69,132-187,232-256): the ids it goes on with stay those of their    *)
(* nodes.                                                                    *)
StreamIsComplete ==
  cursor = AtEnd => /\ steady \subseteq {given[i] : i \in DOMAIN given}
                    /\ \A i, j \in DOMAIN given : given[i] = given[j] => i = j

(* A page is added once, taken once, and an empty tree is really empty       *)
(* (l.83-115,189-201).                                                       *)
Abstract == INSTANCE Collection WITH items <- [v \in Value |-> Occurs(nodes, v)]
ImplementsCollection == Abstract!CollectionSpec
=============================================================================
