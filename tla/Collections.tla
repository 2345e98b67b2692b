----------------------------- MODULE Collections -----------------------------
(* The collections whose operators need no recursion, side by side: the list *)
(* is LinkedList itself, beside it a search tree, a bag of pages, a task     *)
(* queue and a node of a classification tree, each with parameters of its    *)
(* own.  No two of them move together.                                       *)
EXTENDS LinkedList

CONSTANTS
  Nothing,
  Element, MaxNodes,                                     \* of the search tree
  PageNumber,                                            \* of the bag of pages
  Value, Width, MaxLists, MaxSize, MaxCount, Restarts,   \* of the task queue
  Item, Side, Split, FewRows, BlockSize                  \* of the node

VARIABLES
  scene,                                 \* the one that moves
  answer,                                \* the last operation of a collection
  nodes,                                 \* of the search tree or the pages
  added, cursor, given, steady,          \* of the pages and their stream
  lists, counters, index,                \* of the task queue
  leaf, buffers, routed, split, items    \* of the node

pageVars == <<added, cursor, given, steady>>
queueVars == <<lists, counters, index>>
leafVars == <<leaf, buffers, routed, split, items>>

Set == INSTANCE TreeSet WITH Value <- Element, MaxSize <- MaxNodes, last <- answer
Pages == INSTANCE PageTree WITH Value <- PageNumber, last <- answer
Queue == INSTANCE TaskQueue WITH last <- answer

(* A node whose splits run one at a time, find a rule and end; and one whose *)
(* splits may overlap, find no rule or stop.                                 *)
Leaf == INSTANCE ClassificationNode
  WITH Overlap <- FALSE, MayBeNull <- FALSE, MayStop <- FALSE, node <- leaf, added <- items
Torn == INSTANCE ClassificationNode
  WITH Overlap <- TRUE, MayBeNull <- TRUE, MayStop <- TRUE, node <- leaf, added <- items

(* What is in a search tree is found and its ends are right, whatever was    *)
(* removed before and moved up (TreeSet.scala:46-130).                       *)
SearchesAreRight == scene = "set" => Set!FoundIffPresent /\ Set!EndsAreRight

(* A stream of pages gives what was there all the time, once, though others  *)
(* add and take pages between its blocks (PageTree.scala:132-187,232-256).   *)
StreamIsComplete == scene = "pages" => Pages!StreamIsComplete

(* Lists, counters and index of the task queue agree (TaskQueue.scala:152).  *)
QueueAgrees == Queue!SizeAgrees /\ Queue!IndexAgrees

(* A split of a node keeps every item that was added before and meanwhile,   *)
(* and once; splits that overlap, find no rule or stop keep it at least once *)
(* but for what a stopped one had in hand (ClassificationTreeNode.scala:457).*)
SplitKeepsItems ==
  /\ scene = "split" => Leaf!NothingLost /\ Leaf!ClosedWhenSplit
  /\ scene = "torn" => Torn!NothingVanishes
=============================================================================
