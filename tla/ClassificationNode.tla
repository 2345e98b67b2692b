------------------------- MODULE ClassificationNode -------------------------
(* The split of one node of a classification tree                            *)
(* (stm/clustering/ClassificationTreeNode.scala) while others go on adding.  *)
(* The node collects items in a buffer; a split puts the buffer aside, finds *)
(* a rule, takes the pages out one by one and routes them to three children, *)
(* again for what came in meanwhile, and closes the node with what is left.  *)
(* Every step is one transaction over node, buffers and children; a buffer,  *)
(* and what a child got, is a bag, as PageTree is a Collection.              *)
EXTENDS Naturals, Sequences, Functions

CONSTANTS
  Item,
  Side,        \* [Item -> {"pass", "fail", "exception"}]: what the rule says
  Split,       \* executions of split
  FewRows,     \* so many routed pages need no further round (10 in the code)
  BlockSize,   \* so many items make a block (128 in the code)
  Overlap,     \* may a split begin while another is under way?
  MayBeNull,   \* may the strategy find no rule?
  MayStop      \* may an executor stop?

VARIABLES
  node,        \* itemBuffer and splitBuffer, 0 for None, and whether it has
               \* a rule and a splitTask
  buffers,     \* the buffers made, as a sequence of bags
  routed,      \* the bag of items in the children
  split,       \* [Split -> where it is, its buffer, its pages in hand, rows]
  added        \* the items added

vars == <<node, buffers, routed, split, added>>

NoItems == [i \in Item |-> 0]
Plus(B, C) == [i \in Item |-> B[i] + C[i]]
One(i) == [j \in Item |-> IF j = i THEN 1 ELSE 0]
Size(B) == SumFunction(B)
IsEmpty(B) == \A i \in Item : B[i] = 0
Into(k, B) == [buffers EXCEPT ![k] = Plus(@, B)]

At(s, place) == split[s].at = place
Goes(s, place) == split' = [split EXCEPT ![s].at = place]
Working(s) == split[s].at \notin {"idle", "asked", "done", "failed"}

Init ==
  /\ node = [item |-> 1, split |-> 0, rule |-> FALSE, task |-> FALSE]
  /\ buffers = <<NoItems>>
  /\ routed = NoItems
  /\ split = [s \in Split |-> [at |-> "idle", buffer |-> 0, hand |-> NoItems, rows |-> 0]]
  /\ added = {}

-----------------------------------------------------------------------------
(* add: to the buffer, or to a child once the node is closed.  An addition   *)
(* to the buffer may ask for a split, if none was asked for by another one   *)
(* (autosplit, splitTask).                                                   *)
Add(i) ==
  /\ i \notin added
  /\ added' = added \cup {i}
  /\ IF node.item = 0
       THEN routed' = Plus(routed, One(i)) /\ UNCHANGED <<node, buffers, split>>
       ELSE /\ buffers' = Into(node.item, One(i))
            /\ UNCHANGED routed
            /\ \/ UNCHANGED <<node, split>>
               \/ /\ ~node.task
                  /\ node' = [node EXCEPT !.task = TRUE]
                  /\ \E s \in Split : At(s, "idle") /\ Goes(s, "asked")

(* splitCluster, by a client.                                                *)
Ask(s) ==
  /\ At(s, "idle")
  /\ Goes(s, "asked")
  /\ UNCHANGED <<node, buffers, routed, added>>

(* The buffer is put aside for this split, unless there is one already.      *)
PutAside(s) ==
  /\ At(s, "asked")
  /\ Overlap \/ \A r \in Split : ~Working(r)
  /\ IF node.split = 0 /\ node.item # 0
       THEN /\ node' = [node EXCEPT !.item = Len(buffers) + 1, !.split = node.item]
            /\ buffers' = Append(buffers, NoItems)
            /\ split' = [split EXCEPT ![s].at = "aside", ![s].buffer = node.item]
       ELSE Goes(s, "check") /\ UNCHANGED <<node, buffers>>
  /\ UNCHANGED <<routed, added>>

(* The rule is made from the pages put aside; there must be some.            *)
MakeRule(s) ==
  /\ At(s, "aside")
  /\ IF IsEmpty(buffers[split[s].buffer])
       THEN Goes(s, "failed")
       ELSE Goes(s, "rule") \/ (MayBeNull /\ Goes(s, "no rule"))
  /\ UNCHANGED <<node, buffers, routed, added>>

SetRule(s) ==
  /\ At(s, "rule")
  /\ node' = [node EXCEPT !.rule = TRUE]
  /\ Goes(s, "transfer")
  /\ UNCHANGED <<buffers, routed, added>>

(* transferAsync: get takes a page, route puts it into its child.            *)
TakePage(s) ==
  /\ At(s, "transfer")
  /\ \E i \in Item :
       /\ buffers[split[s].buffer][i] > 0
       /\ buffers' = [buffers EXCEPT ![split[s].buffer][i] = @ - 1]
       /\ split' = [split EXCEPT ![s].hand = Plus(@, One(i))]
  /\ UNCHANGED <<node, routed, added>>

RoutePage(s) ==
  /\ At(s, "transfer")
  /\ \E i \in Item :
       /\ split[s].hand[i] > 0
       /\ routed' = Plus(routed, One(i))
       /\ split' = [split EXCEPT ![s].hand[i] = @ - 1, ![s].rows = @ + 1]
  /\ UNCHANGED <<node, buffers, added>>

Transferred(s) ==
  /\ At(s, "transfer")
  /\ IsEmpty(buffers[split[s].buffer]) /\ IsEmpty(split[s].hand)

(* transferBuffers: what came in since is the next to be transferred.        *)
TransferBuffers(s) ==
  /\ Transferred(s) /\ split[s].rows > FewRows
  /\ IF node.item = 0
       THEN Goes(s, "failed") /\ UNCHANGED <<node, buffers>>
       ELSE /\ node' = [node EXCEPT !.item = Len(buffers) + 1, !.split = node.item]
            /\ buffers' = Append(buffers, NoItems)
            /\ split' = [split EXCEPT ![s].buffer = node.item, ![s].rows = 0]
  /\ UNCHANGED <<routed, added>>

(* The last round moves the rest and closes the node.  Its blocks go to the  *)
(* children side by side in one transaction, and of two that meet in one     *)
(* place of a child's buffer one is lost.                                    *)
Lost(B) ==
  IF Size(B) <= BlockSize THEN {NoItems}
  ELSE {L \in [Item -> 0..1] : \A i \in Item :
          L[i] > 0 => B[i] > 0 /\ \E j \in Item : Side[j] = Side[i] /\ B[j] > L[j]}

Close(s) == node' = [node EXCEPT !.item = 0, !.split = 0] /\ Goes(s, "check")
CloseOnly(s) ==   \* the rest stays in its buffer
  /\ Transferred(s) /\ split[s].rows <= FewRows
  /\ Close(s)
  /\ UNCHANGED <<buffers, routed, added>>
LastRound(s) ==
  /\ Transferred(s) /\ split[s].rows <= FewRows
  /\ LET rest == IF node.item = 0 THEN NoItems ELSE buffers[node.item] IN
       /\ \E L \in Lost(rest) : routed' = [i \in Item |-> routed[i] + rest[i] - L[i]]
       /\ buffers' = IF node.item = 0 THEN buffers ELSE [buffers EXCEPT ![node.item] = NoItems]
  /\ Close(s)
  /\ UNCHANGED added

(* Without a rule the pages put aside are copied to the node's buffer.       *)
NoRule(s) ==
  /\ At(s, "no rule")
  /\ IF node.item = 0
       THEN Goes(s, "failed") /\ UNCHANGED buffers
       ELSE buffers' = Into(node.item, buffers[split[s].buffer]) /\ Goes(s, "check")
  /\ UNCHANGED <<node, routed, added>>

(* The end of every split: with a rule, the node must be closed and have     *)
(* something on either side; without, what is aside is copied.               *)
HasSome(side) == \E i \in Item : Side[i] = side /\ routed[i] > 0

Check(s) ==
  /\ At(s, "check")
  /\ IF node.rule
       THEN /\ Goes(s, IF node.item = 0 /\ HasSome("pass") /\ HasSome("fail")
                       THEN "done" ELSE "failed")
            /\ UNCHANGED buffers
       ELSE /\ buffers' = IF node.split = 0 THEN buffers ELSE Into(node.item, buffers[node.split])
            /\ Goes(s, IF IsEmpty(buffers'[node.item]) THEN "failed" ELSE "done")
  /\ UNCHANGED <<node, routed, added>>

(* An executor stops, with the pages its split has in hand.                  *)
Stop(s) ==
  /\ MayStop /\ Working(s)
  /\ Goes(s, "failed")
  /\ UNCHANGED <<node, buffers, routed, added>>

Step(s) ==
  \/ PutAside(s) \/ MakeRule(s) \/ SetRule(s) \/ TakePage(s) \/ RoutePage(s)
  \/ TransferBuffers(s) \/ LastRound(s) \/ NoRule(s) \/ Check(s)

Next ==
  \/ \E i \in Item : Add(i)
  \/ \E s \in Split : Ask(s) \/ Step(s) \/ Stop(s)

Spec == Init /\ [][Next]_vars

-----------------------------------------------------------------------------
(* Every item added is in the tree once: in a buffer of the node, in the     *)
(* hands of its split, or in a child (l.78-86,457-597), whenever it came in. *)
InBuffer(k, i) == IF k = 0 THEN 0 ELSE buffers[k][i]
Kept(i) == InBuffer(node.item, i) + InBuffer(node.split, i) + routed[i]
Carries(s, i) == Working(s) /\ split[s].hand[i] > 0
NothingLost ==
  \A i \in added :
    \/ Kept(i) = 1 /\ \A s \in Split : ~Carries(s, i)
    \/ /\ Kept(i) = 0
       /\ \E s \in Split : split[s].hand[i] = 1 /\ \A r \in Split : Carries(r, i) <=> r = s

(* A node that was split is closed when the split ends: require, l.613.      *)
ClosedWhenSplit == \A s \in Split : At(s, "check") /\ node.rule => node.item = 0

(* Splits that overlap, find no rule or stop may leave an item twice         *)
(* (NothingLost), but none goes but what a split had in hand when it         *)
(* stopped, and a closed node has a rule to route by (l.84,536).             *)
NothingVanishes ==
  /\ \A i \in added :
       Kept(i) > 0 \/ \E s \in Split : Carries(s, i) \/ (At(s, "failed") /\ split[s].hand[i] > 0)
  /\ node.item = 0 => node.rule
=============================================================================
