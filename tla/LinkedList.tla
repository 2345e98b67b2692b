----------------------------- MODULE LinkedList -----------------------------
(* The linked list of stm/collection/LinkedList.scala: a root pointer with   *)
(* the newest node (head) and the oldest (tail), and nodes linked both ways. *)
(* A call is a chain of futures; each step reads or writes one pointer       *)
(* through the caches of its transaction, and the call keeps the copies it   *)
(* read.  Calls of different transactions never overlap (Restm), calls of    *)
(* one transaction do when their futures run side by side: MaxParallel adds  *)
(* stand for the Future.sequence of Task.complete (Task.scala l.254).        *)
EXTENDS Naturals, Sequences, FiniteSets

CONSTANTS
  MaxCalls,      \* calls in a behaviour; call c adds the value c in node c
  MaxParallel    \* how many adds of one transaction run side by side

VARIABLES
  root,    \* SimpleLinkedListHead: [head, tail]
  node,    \* SimpleLinkedListNode of every pointer made: [value, next, prev]
  call,    \* the state of every call
  out      \* the values removed, in order

vars == <<root, node, call, out>>

Call == 1..MaxCalls
NoNode == 0
Ptr == Call \cup {NoNode}
Root == [head : Ptr, tail : Ptr]
Content == [value : Call, next : Ptr, prev : Ptr]
Empty == [head |-> NoNode, tail |-> NoNode]

(* Where a call is: "old" and "link" read and write the newest node, "new"   *)
(* makes a node, "push" writes the root of an add; "oldest", "next",         *)
(* "unlink" and "pop" belong to remove.                                      *)
Adding == {"old", "new", "link", "push"}
Removing == {"oldest", "next", "unlink", "pop"}
Ended == {"done", "failed", "corrupt"}
Where == {"unborn"} \cup Adding \cup Removing \cup Ended
Blank == [value |-> 1, next |-> NoNode, prev |-> NoNode]
Unborn == [at |-> "unborn", root |-> Empty, read |-> Blank, next |-> Blank]

ListTypeOK ==
  /\ root \in Root
  /\ DOMAIN node \subseteq Call /\ \A n \in DOMAIN node : node[n] \in Content
  /\ call \in [Call -> [at : Where, root : Root, read : Content, next : Content]]
  /\ out \in Seq(Call)

Init ==
  /\ root = Empty
  /\ node = << >>
  /\ call = [c \in Call |-> Unborn]
  /\ out = << >>

(* The node n holds x from now on, as after STMPtr.dynamic or write.         *)
Stored(n, x) == [m \in DOMAIN node \cup {n} |-> IF m = n THEN x ELSE node[m]]

Goes(c, state) == call' = [call EXCEPT ![c] = state]
To(c, place) == Goes(c, [call[c] EXCEPT !.at = place])
At(c, place) == call[c].at = place

UnderWay == {c \in Call : call[c].at \in Adding \cup Removing}
Born(c) == /\ At(c, "unborn")
           /\ \A b \in 1..(c - 1) : ~At(b, "unborn")
           /\ \A b \in Call : call[b].at \notin {"failed", "corrupt"}

(* add reads the root and asks the copy to add: without a newest node there  *)
(* must be no oldest one.                                                    *)
StartAdd(c) ==
  /\ Born(c)
  /\ Cardinality(UnderWay) < MaxParallel
  /\ \A b \in UnderWay : call[b].at \in Adding
  /\ LET place == IF root.head # NoNode THEN "old"
                  ELSE IF root.tail = NoNode THEN "new" ELSE "failed"
     IN Goes(c, [Unborn EXCEPT !.at = place, !.root = root])
  /\ UNCHANGED <<root, node, out>>

(* The newest node is read; it must have no next.                            *)
ReadOld(c) ==
  /\ At(c, "old")
  /\ LET old == node[call[c].root.head]
     IN Goes(c, [call[c] EXCEPT !.at = IF old.next = NoNode THEN "new" ELSE "failed",
                                !.read = old])
  /\ UNCHANGED <<root, node, out>>

New(c) ==
  /\ At(c, "new")
  /\ node' = Stored(c, [value |-> c, next |-> NoNode, prev |-> call[c].root.head])
  /\ To(c, IF call[c].root.head = NoNode THEN "push" ELSE "link")
  /\ UNCHANGED <<root, out>>

Link(c) ==
  /\ At(c, "link")
  /\ node' = Stored(call[c].root.head, [call[c].read EXCEPT !.next = c])
  /\ To(c, "push")
  /\ UNCHANGED <<root, out>>

(* Every add writes the root of a new list.                                  *)
PushAlone(c) ==
  /\ At(c, "push")
  /\ root' = [head |-> c, tail |-> c]
  /\ To(c, "done")
  /\ UNCHANGED <<node, out>>

(* The copy of the root is written with its new newest node.                 *)
Push(c) ==
  /\ At(c, "push")
  /\ root' = [head |-> c,
              tail |-> IF call[c].root.head = NoNode THEN c ELSE call[c].root.tail]
  /\ To(c, "done")
  /\ UNCHANGED <<node, out>>

(* remove of an empty list answers None.                                     *)
StartRemove(c) ==
  /\ Born(c)
  /\ UnderWay = {}
  /\ LET place == IF root.tail # NoNode THEN "oldest"
                  ELSE IF root.head = NoNode THEN "done" ELSE "failed"
     IN Goes(c, [Unborn EXCEPT !.at = place, !.root = root])
  /\ UNCHANGED <<root, node, out>>

(* The oldest node is read; it must have no prev.  If it is the only one the *)
(* root must agree: "List header seems to be corrupt" (l.181).               *)
ReadOldest(c) ==
  /\ At(c, "oldest")
  /\ LET oldest == node[call[c].root.tail]
         place == IF oldest.prev # NoNode THEN "failed"
                  ELSE IF oldest.next # NoNode THEN "next"
                  ELSE IF call[c].root.tail = call[c].root.head THEN "pop" ELSE "corrupt"
     IN Goes(c, [call[c] EXCEPT !.at = place, !.read = oldest])
  /\ UNCHANGED <<root, node, out>>

ReadNext(c) ==
  /\ At(c, "next")
  /\ LET next == node[call[c].read.next]
     IN Goes(c, [call[c] EXCEPT !.at = IF next.prev = call[c].root.tail THEN "unlink" ELSE "failed",
                                !.next = next])
  /\ UNCHANGED <<root, node, out>>

(* The next node keeps its prev.                                             *)
Forget(c) == At(c, "unlink") /\ To(c, "pop") /\ UNCHANGED <<root, node, out>>

Unlink(c) ==
  /\ At(c, "unlink")
  /\ node' = Stored(call[c].read.next, [call[c].next EXCEPT !.prev = NoNode])
  /\ To(c, "pop")
  /\ UNCHANGED <<root, out>>

Pop(c) ==
  /\ At(c, "pop")
  /\ root' = IF call[c].read.next = NoNode THEN Empty
             ELSE [call[c].root EXCEPT !.tail = call[c].read.next]
  /\ out' = Append(out, call[c].read.value)
  /\ To(c, "done")
  /\ UNCHANGED node

Next ==
  \E c \in Call :
    \/ StartAdd(c) \/ ReadOld(c) \/ New(c) \/ Link(c) \/ Push(c)
    \/ StartRemove(c) \/ ReadOldest(c) \/ ReadNext(c) \/ Unlink(c) \/ Pop(c)

Spec == Init /\ [][Next]_vars

(* stream: the values met from the oldest node along next.                   *)
Stream ==
  LET walk[n \in Ptr, k \in 0..MaxCalls] ==
        IF n = NoNode \/ k = 0 THEN << >>
        ELSE <<node[n].value>> \o walk[node[n].next, k - 1]
  IN walk[root.tail, MaxCalls]

-----------------------------------------------------------------------------
(* No require of add and remove fails on a list the calls themselves built,  *)
(* in whatever order they came (l.150, 161, 171, 175, 181, 186).             *)
RequiresHold == \A c \in Call : call[c].at \notin {"failed", "corrupt"}

(* Between calls the nodes that are left form one list, in the order they    *)
(* were added, along next from the oldest and along prev from the newest:    *)
(* an add that wrote one link, or a remove that left one, would show in one  *)
(* direction only, or in a root that names a node that is not at its end.    *)
Left == DOMAIN node \ {out[i] : i \in DOMAIN out}

Linked(f, N, first, last) ==
  /\ N = {} => first = NoNode /\ last = NoNode
  /\ N # {} => first \in N /\ last \in N
  /\ \A n \in N :
       /\ f[n].value = n /\ first <= n /\ n <= last
       /\ IF n = last THEN f[n].next = NoNode
          ELSE f[n].next \in N /\ n < f[n].next
       /\ IF n = first THEN f[n].prev = NoNode
          ELSE f[n].prev \in N /\ f[n].prev < n
       /\ \A m \in N : n < m => f[n].next <= m /\ n <= f[m].prev

LinkedInOrder == UnderWay = {} => Linked(node, Left, root.tail, root.head)

(* What was removed came in before all that was removed later or is left.    *)
FirstInFirstOut ==
  \A i \in DOMAIN out :
    /\ \A j \in DOMAIN out : i < j => out[i] < out[j]
    /\ \A n \in Left : out[i] < n

ListSound == RequiresHold /\ LinkedInOrder /\ FirstInFirstOut

(* The assertion of l.181: a list whose oldest node is alone has it as its   *)
(* newest node too.                                                          *)
HeaderNotCorrupt == \A c \in Call : ~At(c, "corrupt")

(* Calls one at a time, the list is a first-in first-out queue: an add takes *)
(* effect when it links its node, or writes the root of an empty list, and a *)
(* remove when it writes the root.                                           *)
Abstract == INSTANCE Fifo WITH Value <- Call, items <- Stream
ImplementsFifo == Abstract!FifoSpec
=============================================================================
