-------------------------- MODULE Collections_proofs --------------------------
(* Five collections.  The linked list keeps its links, its root and its      *)
(* order through any adds and removes, for any number of calls that come one *)
(* at a time.  The split of a node of a classification tree keeps every item *)
(* once, for any items and splits.  The task queue is a collection, and its  *)
(* index says what is in it, for any tasks and any number of lists.  So is   *)
(* the search tree, which finds what is in it, for any numbers, and the bag  *)
(* of pages, whose streams give every page once, for any number of pages.    *)
EXTENDS Collections, Ways, FiniteSetTheorems, WellFoundedInduction, TLAPS

(* The list, LinkedList.scala.                                               *)

Busy(c) == call[c].at \in Adding \cup Removing
Whole == Linked(node, Left, root.tail, root.head)

(* Calls begin in turn, each when those before it are done; a node is of a   *)
(* call that began, a removed value of a node.                               *)
Births ==
  /\ \A b, c \in Call : b < c /\ ~At(c, "unborn") => At(b, "done")
  /\ \A n \in DOMAIN node : ~At(n, "unborn")
  /\ \A i \in DOMAIN out : out[i] \in DOMAIN node

(* What a call has in hand, and how far the list is from whole, wherever the *)
(* call is: an add that made its node has not linked it, or has not written  *)
(* the root; a remove that unlinked the oldest node still has it in the root.*)
Reading(c) ==
  /\ Busy(c) => call[c].root = root
  /\ call[c].at \in {"old", "new"} => c \notin DOMAIN node
  /\ call[c].at \in {"old", "new", "oldest", "next", "unlink"} => Whole

AddInPlace(c) ==
  /\ At(c, "old") => root.head # NoNode
  /\ At(c, "new") \/ At(c, "link") => root.head = NoNode \/ call[c].read = node[root.head]
  /\ At(c, "link") =>
       /\ c \in Left /\ root.head # NoNode
       /\ Linked(node, Left \ {c}, root.tail, root.head)
       /\ node[c] = [value |-> c, next |-> NoNode, prev |-> root.head]
  /\ At(c, "push") =>
       /\ c \in Left
       /\ Linked(node, Left, IF root.head = NoNode THEN c ELSE root.tail, c)

RemoveInPlace(c) ==
  /\ call[c].at \in Removing => root.tail \in Left /\ \A n \in Left : root.tail <= n
  /\ At(c, "next") \/ At(c, "unlink") =>
       call[c].read = node[root.tail] /\ call[c].read.next # NoNode
  /\ At(c, "unlink") => call[c].next = node[call[c].read.next]
  /\ At(c, "pop") =>
       /\ call[c].read.value = root.tail
       /\ Linked(node, Left \ {root.tail}, call[c].read.next,
                 IF call[c].read.next = NoNode THEN NoNode ELSE root.head)

InPlace == \A c \in Call : Reading(c) /\ AddInPlace(c) /\ RemoveInPlace(c)

ListInv == ListTypeOK /\ ListSound /\ Births /\ InPlace

-----------------------------------------------------------------------------
(* Lists as functions.                                                       *)

(* Only the nodes of a list matter to it.                                    *)
LEMMA SameNodes ==
  ASSUME NEW f, NEW g, NEW N \in SUBSET Nat, NEW first, NEW last,
         Linked(f, N, first, last), \A n \in N : g[n] = f[n]
  PROVE  Linked(g, N, first, last)
BY DEF Linked

(* A node with no neighbours is a list.                                      *)
LEMMA OneNode ==
  ASSUME NEW f, NEW c \in Nat \ {0}, f[c] = [value |-> c, next |-> NoNode, prev |-> NoNode]
  PROVE  Linked(f, {c}, c, c)
BY DEF Linked, NoNode

(* The newest node, linked both ways, comes after the last.                  *)
LEMMA AddsLast ==
  ASSUME NEW f, NEW g, NEW N \in SUBSET (Nat \ {0}), NEW first, NEW last \in N,
         Linked(f, N, first, last),
         NEW c \in Nat, \A n \in N : n < c,
         \A n \in N \ {last} : g[n] = f[n],
         g[last].value = f[last].value, g[last].prev = f[last].prev, g[last].next = c,
         g[c] = [value |-> c, next |-> NoNode, prev |-> last]
  PROVE  Linked(g, N \cup {c}, first, c)
<1> DEFINE M == N \cup {c}
<1>1. c \notin N /\ first \in N
  BY DEF Linked
<1>2. \A n \in N : g[n].value = n /\ first <= n /\ n <= c /\ g[n].prev = f[n].prev
  BY DEF Linked
<1>3. \A n \in N : g[n].next \in M /\ n < g[n].next
  BY DEF Linked
<1>4. g[c].value = c /\ g[c].next = NoNode /\ g[c].prev = last /\ first <= c /\ first # c
  <2>1. first \in Nat /\ first < c
    BY <1>1
  <2> QED BY <2>1
<1>5. \A n \in N : IF n = first THEN g[n].prev = NoNode ELSE g[n].prev \in M /\ g[n].prev < n
  BY <1>2 DEF Linked
<1>6. ASSUME NEW n \in M, NEW m \in M, n < m
      PROVE  g[n].next <= m /\ n <= g[m].prev
  <2>1. n \in N
    <3>1. n \in Nat /\ m \in Nat /\ (m \in N => m < c) /\ m <= c
      BY <1>6
    <3> QED BY <1>6, <3>1
  <2>2. CASE m = c
    <3>1. g[n].next \in M /\ \A k \in M : k <= c
      BY <1>3, <2>1
    <3>2. n <= last
      BY <2>1 DEF Linked
    <3> QED BY <1>4, <2>2, <3>1, <3>2
  <2>3. CASE m # c
    <3>1. m \in N /\ n # last
      <4>1. m \in N /\ m <= last /\ m \in Nat /\ n \in Nat /\ last \in Nat
        BY <1>6, <2>1, <2>3 DEF Linked
      <4> QED BY <1>6, <4>1
    <3>2. g[n].next = f[n].next /\ g[m].prev = f[m].prev
      BY <1>2, <2>1, <3>1
    <3> QED BY <1>6, <2>1, <3>1, <3>2 DEF Linked
  <2> QED BY <2>2, <2>3
<1>7. \A n \in M : /\ g[n].value = n /\ first <= n /\ n <= c
                   /\ IF n = c THEN g[n].next = NoNode ELSE g[n].next \in M /\ n < g[n].next
                   /\ IF n = first THEN g[n].prev = NoNode ELSE g[n].prev \in M /\ g[n].prev < n
  <2> SUFFICES ASSUME NEW n \in M
               PROVE  /\ g[n].value = n /\ first <= n /\ n <= c
                      /\ IF n = c THEN g[n].next = NoNode ELSE g[n].next \in M /\ n < g[n].next
                      /\ IF n = first THEN g[n].prev = NoNode
                         ELSE g[n].prev \in M /\ g[n].prev < n
    OBVIOUS
  <2>1. CASE n = c
    <3>1. last \in M
      OBVIOUS
    <3>2. last < c
      OBVIOUS
    <3>3. c <= c
      BY c \in Nat
    <3> QED BY <1>4, <2>1, <3>1, <3>2, <3>3
  <2>2. CASE n \in N
    <3>1. n # c
      BY <1>1, <2>2
    <3> QED BY <1>2, <1>3, <1>5, <2>2, <3>1
  <2> QED BY <2>1, <2>2
<1> HIDE DEF M
<1>8. first \in M /\ c \in M
  BY <1>1 DEF M
<1>9. Linked(g, M, first, c)
  BY <1>6, <1>7, <1>8 DEF Linked
<1> QED BY <1>9 DEF M

(* Without the oldest node, the next one is the oldest.                      *)
LEMMA DropsFirst ==
  ASSUME NEW f, NEW g, NEW N \in SUBSET (Nat \ {0}), NEW first \in N, NEW last,
         Linked(f, N, first, last), NEW next, next = f[first].next, next # NoNode,
         \A n \in N \ {first, next} : g[n] = f[n],
         g[next].value = f[next].value, g[next].next = f[next].next, g[next].prev = NoNode
  PROVE  Linked(g, N \ {first}, next, last)
<1> DEFINE M == N \ {first}
<1>1. next \in M /\ first < next /\ last \in M
  <2>1. last \in N /\ f[last].next = NoNode
    BY DEF Linked
  <2>2. first # last
    BY <2>1
  <2>3. next \in N /\ first < next
    BY <2>2 DEF Linked
  <2>4. first # next
    <3>1. first \in Nat
      OBVIOUS
    <3> QED BY <2>3, <3>1
  <2> QED BY <2>1, <2>2, <2>3, <2>4
<1>2. \A n \in M : g[n].value = n /\ n <= last /\ g[n].next = f[n].next
  BY DEF Linked
<1>3. \A n \in M : first < n /\ next <= n
  <2> SUFFICES ASSUME NEW n \in M
               PROVE  first < n /\ next <= n
    OBVIOUS
  <2>1. n \in Nat /\ first \in Nat /\ n # first /\ first <= n
    BY DEF Linked
  <2>2. first < n
    BY <2>1
  <2> QED BY <2>2 DEF Linked
<1>4. \A n \in M : IF n = last THEN g[n].next = NoNode ELSE g[n].next \in M /\ n < g[n].next
  <2> SUFFICES ASSUME NEW n \in M
               PROVE  IF n = last THEN g[n].next = NoNode ELSE g[n].next \in M /\ n < g[n].next
    OBVIOUS
  <2>1. IF n = last THEN f[n].next = NoNode ELSE f[n].next \in N /\ n < f[n].next
    BY DEF Linked
  <2>2. g[n].next = f[n].next /\ n \in Nat /\ first \in Nat /\ first < n
    BY <1>2, <1>3
  <2>3. CASE n = last
    BY <2>1, <2>2, <2>3
  <2>4. CASE n # last
    <3>1. f[n].next \in N /\ n < f[n].next /\ f[n].next \in Nat
      BY <2>1, <2>4
    <3>2. f[n].next # first
      BY <2>2, <3>1
    <3> QED BY <2>2, <2>4, <3>1, <3>2
  <2> QED BY <2>3, <2>4
<1>5. \A n \in M : n # next => g[n].prev = f[n].prev /\ g[n].prev \in M /\ g[n].prev < n
  <2> SUFFICES ASSUME NEW n \in M, n # next
               PROVE  g[n].prev = f[n].prev /\ g[n].prev \in M /\ g[n].prev < n
    OBVIOUS
  <2>1. g[n].prev = f[n].prev
    OBVIOUS
  <2>2. n \in N /\ n # first
    OBVIOUS
  <2>3. f[n].prev \in N /\ f[n].prev < n
    BY <2>2 DEF Linked
  <2>4. next <= f[n].prev
    <3>1. next \in N /\ next < n
      <4>1. next \in Nat /\ n \in Nat /\ next <= n
        BY <1>1, <1>3
      <4> QED BY <1>1, <4>1
    <3> QED BY <2>2, <3>1 DEF Linked
  <2>5. f[n].prev # first
    <3>1. f[n].prev \in Nat /\ next \in Nat /\ first \in Nat /\ first < next
      BY <1>1, <2>3
    <3> QED BY <2>4, <3>1
  <2> QED BY <2>1, <2>3, <2>5
<1>6. ASSUME NEW n \in M, NEW m \in M, n < m
      PROVE  g[n].next <= m /\ n <= g[m].prev
  <2>1. m # next
    <3>1. next <= n /\ n \in Nat /\ m \in Nat
      BY <1>3
    <3> QED BY <1>6, <3>1
  <2>2. f[n].next <= m /\ n <= f[m].prev
    BY <1>6 DEF Linked
  <2> QED BY <1>2, <1>5, <2>1, <2>2
<1>7. g[next].prev = NoNode
  OBVIOUS
<1> HIDE DEF M
<1>8. Linked(g, M, next, last)
  BY <1>1, <1>2, <1>3, <1>4, <1>5, <1>6, <1>7 DEF Linked
<1> QED BY <1>8 DEF M

(* The only node has no next, and the list without it is empty.              *)
LEMMA DropsOnly ==
  ASSUME NEW f, NEW g, NEW N \in SUBSET (Nat \ {0}), NEW first \in N, NEW last,
         Linked(f, N, first, last), f[first].next = NoNode
  PROVE  first = last /\ Linked(g, N \ {first}, NoNode, NoNode)
<1>1. first = last
  BY DEF Linked, NoNode
<1>2. N \ {first} = {}
  <2> SUFFICES ASSUME NEW n \in N, n # first
               PROVE  FALSE
    OBVIOUS
  <2>1. first <= n /\ n <= first
    BY <1>1 DEF Linked
  <2>2. first \in Nat /\ n \in Nat
    OBVIOUS
  <2> QED BY <2>1, <2>2
<1> QED BY <1>1, <1>2 DEF Linked

-----------------------------------------------------------------------------
(* Calls, one at a time.                                                     *)

State == [at : Where, root : Root, read : Content, next : Content]

LEMMA Numbers ==
  ASSUME MaxCalls \in Nat, ListTypeOK
  PROVE  /\ Call \subseteq Nat \ {0}
         /\ Left \subseteq DOMAIN node /\ DOMAIN node \subseteq Call
         /\ \A n \in Left : node[n] \in Content
         /\ DOMAIN out \subseteq Nat
BY DEF ListTypeOK, Call, Left

(* With at most one call under way, one may begin when none is.              *)
LEMMA NoneUnderWay ==
  ASSUME MaxCalls \in Nat, Cardinality(UnderWay) < 1
  PROVE  UnderWay = {}
<1>1. IsFiniteSet(Call)
  BY FS_Interval DEF Call
<1>2. IsFiniteSet(UnderWay)
  BY <1>1, FS_Subset DEF UnderWay
<1>3. Cardinality(UnderWay) \in Nat
  BY <1>2, FS_CardinalityType
<1>4. Cardinality(UnderWay) = 0
  BY <1>3
<1> QED BY <1>2, <1>4, FS_EmptySet

(* A call under way is the last that began: no node is later.                *)
LEMMA LastBegan ==
  ASSUME MaxCalls \in Nat, ListTypeOK, Births, NEW c \in Call, Busy(c)
  PROVE  \A n \in DOMAIN node : n <= c
<1> SUFFICES ASSUME NEW n \in DOMAIN node, ~(n <= c)
             PROVE  FALSE
  OBVIOUS
<1>1. n \in Call /\ n \in Nat /\ c \in Nat
  BY Numbers
<1>2. At(c, "done")
  BY <1>1 DEF Births
<1> QED BY <1>2 DEF Busy, At, Adding, Removing

(* What a step of one call has to show.                                      *)
LEMMA CallMoves ==
  ASSUME MaxCalls \in Nat, ListInv, NEW c \in Call, NEW state \in State, Goes(c, state),
         Busy(c) \/ (Born(c) /\ UnderWay = {}),
         state.at \notin {"unborn", "failed", "corrupt"},
         ListTypeOK', FirstInFirstOut',
         \A n \in DOMAIN node' : n \in DOMAIN node \/ n = c,
         \A i \in DOMAIN out' : out'[i] \in DOMAIN node',
         state.at = "done" => Whole',
         (Reading(c) /\ AddInPlace(c) /\ RemoveInPlace(c))'
  PROVE  ListInv'
<1>1. call'[c] = state /\ \A b \in Call \ {c} : call'[b] = call[b]
  BY DEF Goes, ListInv, ListTypeOK
<1>2. \A b \in Call : At(b, "done") => ~Busy(b) /\ ~At(b, "unborn")
  BY DEF At, Busy, Adding, Removing
<1>3. \A b \in Call : b < c => At(b, "done")
  <2> SUFFICES ASSUME NEW b \in Call, b < c
               PROVE  At(b, "done")
    OBVIOUS
  <2>1. CASE Busy(c)
    BY <2>1 DEF ListInv, Births, Busy, At, Adding, Removing
  <2>2. CASE Born(c) /\ UnderWay = {}
    <3>1. b \in 1..(c - 1)
      BY Numbers DEF Call
    <3>2. call[b].at \in Where
      BY DEF ListInv, ListTypeOK
    <3>3. call[b].at \notin {"unborn", "failed", "corrupt"} \cup Adding \cup Removing
      BY <2>2, <3>1 DEF Born, At, UnderWay
    <3> QED BY <3>2, <3>3 DEF At, Where, Ended
  <2> QED BY <2>1, <2>2
<1>4. \A b \in Call : b > c => At(b, "unborn")
  <2> SUFFICES ASSUME NEW b \in Call, b > c, ~At(b, "unborn")
               PROVE  FALSE
    OBVIOUS
  <2>1. c < b
    BY Numbers DEF ListInv
  <2>2. At(c, "done")
    BY <2>1 DEF ListInv, Births
  <2> QED BY <1>2, <2>2 DEF Born
<1>5. \A b \in Call \ {c} : ~Busy(b) /\ ~Busy(b)' /\ (At(b, "done") \/ At(b, "unborn"))
  <2> SUFFICES ASSUME NEW b \in Call \ {c}
               PROVE  ~Busy(b) /\ ~Busy(b)' /\ (At(b, "done") \/ At(b, "unborn"))
    OBVIOUS
  <2>1. b < c \/ b > c
    BY Numbers DEF ListInv
  <2>2. At(b, "done") \/ At(b, "unborn")
    BY <1>3, <1>4, <2>1
  <2>3. ~Busy(b)
    BY <2>2 DEF At, Busy, Adding, Removing
  <2> QED BY <1>1, <2>2, <2>3 DEF Busy
<1>6. RequiresHold'
  <2> SUFFICES ASSUME NEW b \in Call
               PROVE  call'[b].at \notin {"failed", "corrupt"}
    BY DEF RequiresHold
  <2> QED BY <1>1 DEF ListInv, ListSound, RequiresHold
<1>7. LinkedInOrder'
  <2> SUFFICES ASSUME UnderWay' = {}
               PROVE  Whole'
    BY DEF LinkedInOrder, Whole
  <2>1. state.at \notin Adding \cup Removing
    BY <1>1 DEF UnderWay
  <2>2. state.at = "done"
    BY <2>1 DEF State, Where, Ended
  <2> QED BY <2>2
<1>8. Births'
  <2>1. ASSUME NEW b \in Call, NEW d \in Call, b < d, ~At(d, "unborn")'
        PROVE  At(b, "done")'
    <3>1. CASE d = c
      <4>1. b # c
        BY <2>1, <3>1, Numbers DEF ListInv
      <4> QED BY <1>1, <1>3, <2>1, <3>1, <4>1 DEF At
    <3>2. CASE d # c
      <4>1. ~At(d, "unborn")
        BY <1>1, <2>1, <3>2 DEF At
      <4>2. d < c
        BY <1>4, <3>2, <4>1, Numbers DEF ListInv
      <4>3. b < c
        BY <2>1, <4>2, Numbers DEF ListInv
      <4>4. b # c
        BY <4>3, Numbers DEF ListInv
      <4> QED BY <1>1, <1>3, <4>3, <4>4 DEF At
    <3> QED BY <3>1, <3>2
  <2>2. ASSUME NEW n \in DOMAIN node'
        PROVE  ~At(n, "unborn")'
    <3>1. n \in Call
      BY <2>2 DEF ListTypeOK
    <3> QED BY <1>1, <2>2, <3>1 DEF ListInv, Births, At
  <2> QED BY <2>1, <2>2 DEF Births
<1>9. InPlace'
  <2> SUFFICES ASSUME NEW b \in Call
               PROVE  (Reading(b) /\ AddInPlace(b) /\ RemoveInPlace(b))'
    BY DEF InPlace
  <2>1. CASE b = c
    BY <2>1
  <2>2. CASE b # c
    <3>1. ~Busy(b)'
      BY <1>5, <2>2
    <3>2. call'[b].at \notin {"old", "new", "link", "push", "oldest", "next", "unlink", "pop"}
      BY <3>1 DEF Busy, Adding, Removing
    <3> QED BY <3>1, <3>2 DEF Reading, AddInPlace, RemoveInPlace, Removing, At
  <2> QED BY <2>1, <2>2
<1> QED BY <1>6, <1>7, <1>8, <1>9 DEF ListInv, ListSound

-----------------------------------------------------------------------------
(* One step after the other.                                                 *)

(* A step that only reads leaves the list as it was.                         *)
LEMMA CallReads ==
  ASSUME MaxCalls \in Nat, ListInv, NEW c \in Call, NEW state \in State, Goes(c, state),
         Busy(c) \/ (Born(c) /\ UnderWay = {}),
         state.at \notin {"unborn", "failed", "corrupt"},
         UNCHANGED <<root, node, out>>,
         state.at = "done" => Whole,
         (Reading(c) /\ AddInPlace(c) /\ RemoveInPlace(c))'
  PROVE  ListInv'
<1>1. ListTypeOK'
  BY DEF ListInv, ListTypeOK, Goes, State
<1>2. Left' = Left
  BY DEF Left
<1>3. FirstInFirstOut'
  BY <1>2 DEF ListInv, ListSound, FirstInFirstOut
<1>4. state.at = "done" => Whole'
  BY <1>2 DEF Whole
<1>5. /\ \A n \in DOMAIN node' : n \in DOMAIN node \/ n = c
      /\ \A i \in DOMAIN out' : out'[i] \in DOMAIN node'
  BY DEF ListInv, Births
<1> QED BY <1>1, <1>3, <1>4, <1>5, CallMoves

(* Which nodes a whole list has at its ends.                                 *)
LEMMA Ends ==
  ASSUME MaxCalls \in Nat, ListTypeOK, Whole
  PROVE  /\ root.head = NoNode <=> Left = {}
         /\ root.tail = NoNode <=> Left = {}
         /\ root.head # NoNode => root.head \in Left /\ root.tail \in Left
         /\ \A n \in Left : root.tail <= n
<1>1. NoNode \notin Left
  BY Numbers DEF NoNode
<1> QED BY <1>1 DEF Whole, Linked

(* A call begins with a copy of the root.                                    *)
LEMMA Begins ==
  ASSUME NEW place \in Where, NEW copy \in Root, Unborn \in State
  PROVE  [Unborn EXCEPT !.at = place, !.root = copy] =
         [at |-> place, root |-> copy, read |-> Blank, next |-> Blank]
<1> DEFINE x == [Unborn EXCEPT !.at = place, !.root = copy]
<1>1. Unborn.read = Blank /\ Unborn.next = Blank
  BY DEF Unborn
<1>2. x \in State /\ x.at = place /\ x.root = copy /\ x.read = Blank /\ x.next = Blank
  BY <1>1 DEF State
<1> HIDE DEF x
<1>3. x = [at |-> x.at, root |-> x.root, read |-> x.read, next |-> x.next]
  BY <1>2 DEF State
<1> QED BY <1>2, <1>3 DEF x

LEMMA AddStarts ==
  ASSUME MaxCalls \in Nat, MaxParallel = 1, ListInv, NEW c \in Call, StartAdd(c)
  PROVE  ListInv'
<1>1. UnderWay = {}
  BY NoneUnderWay DEF StartAdd
<1>2. Whole
  BY <1>1 DEF ListInv, ListSound, LinkedInOrder, Whole
<1> DEFINE place == IF root.head # NoNode THEN "old" ELSE "new"
           state == [at |-> place, root |-> root, read |-> Blank, next |-> Blank]
<1>3. root.head = NoNode => root.tail = NoNode
  BY <1>2, Ends DEF ListInv
<1>4. Goes(c, state)
  <2>1. state = [Unborn EXCEPT !.at = place, !.root = root]
    <3>1. place \in Where /\ root \in Root
      BY DEF Where, Adding, Removing, Ended, ListInv, ListTypeOK
    <3>2. Unborn \in State
      BY DEF Unborn, State, Where, Root, Empty, Blank, Content, NoNode, Ptr, Call
    <3> QED BY <3>1, <3>2, Begins
  <2> HIDE DEF state
  <2>2. place = IF root.head # NoNode THEN "old" ELSE IF root.tail = NoNode THEN "new" ELSE "failed"
    BY <1>3
  <2> HIDE DEF place
  <2> QED BY <2>1, <2>2 DEF StartAdd
<1>5. c \notin DOMAIN node
  BY DEF StartAdd, Born, ListInv, Births
<1>6. state \in State
  BY DEF State, Where, Adding, Blank, Content, NoNode, Ptr, Call, ListInv, ListTypeOK
<1>7. UNCHANGED <<root, node, out>> /\ Born(c)
  BY DEF StartAdd
<1>8. call'[c] = state
  BY <1>4 DEF Goes, ListInv, ListTypeOK
<1>9. Whole'
  BY <1>2, <1>7 DEF Whole, Left
<1>10. (Reading(c) /\ AddInPlace(c) /\ RemoveInPlace(c))'
  BY <1>5, <1>7, <1>8, <1>9 DEF Reading, AddInPlace, RemoveInPlace, Removing, At
<1> HIDE DEF state
<1> QED BY <1>1, <1>4, <1>6, <1>7, <1>2, <1>10, CallReads, <1>8 DEF state

LEMMA RemoveStarts ==
  ASSUME MaxCalls \in Nat, ListInv, NEW c \in Call, StartRemove(c)
  PROVE  ListInv'
<1>1. UnderWay = {}
  BY DEF StartRemove
<1>2. Whole
  BY <1>1 DEF ListInv, ListSound, LinkedInOrder, Whole
<1> DEFINE place == IF root.tail # NoNode THEN "oldest" ELSE "done"
           state == [at |-> place, root |-> root, read |-> Blank, next |-> Blank]
<1>3. root.head = NoNode <=> root.tail = NoNode
  BY <1>2, Ends DEF ListInv
<1>4. Goes(c, state)
  <2>1. state = [Unborn EXCEPT !.at = place, !.root = root]
    <3>1. place \in Where /\ root \in Root
      BY DEF Where, Adding, Removing, Ended, ListInv, ListTypeOK
    <3>2. Unborn \in State
      BY DEF Unborn, State, Where, Root, Empty, Blank, Content, NoNode, Ptr, Call
    <3> QED BY <3>1, <3>2, Begins
  <2> HIDE DEF state
  <2>2. place = IF root.tail # NoNode THEN "oldest" ELSE IF root.head = NoNode THEN "done" ELSE "failed"
    BY <1>3
  <2> HIDE DEF place
  <2> QED BY <2>1, <2>2 DEF StartRemove
<1>5. root.tail # NoNode => root.tail \in Left /\ \A n \in Left : root.tail <= n
  BY <1>2, <1>3, Ends DEF ListInv
<1>6. state \in State
  BY DEF State, Where, Removing, Ended, Blank, Content, NoNode, Ptr, Call, ListInv, ListTypeOK
<1>7. UNCHANGED <<root, node, out>> /\ Born(c)
  BY DEF StartRemove
<1>8. call'[c] = state
  BY <1>4 DEF Goes, ListInv, ListTypeOK
<1>9. Whole' /\ Left' = Left
  BY <1>2, <1>7 DEF Whole, Left
<1>10. (Reading(c) /\ AddInPlace(c) /\ RemoveInPlace(c))'
  BY <1>5, <1>7, <1>8, <1>9 DEF Reading, AddInPlace, RemoveInPlace, Removing, At
<1> HIDE DEF state
<1> QED BY <1>1, <1>4, <1>6, <1>7, <1>2, <1>10, CallReads, <1>8 DEF state

LEMMA OldIsRead ==
  ASSUME MaxCalls \in Nat, ListInv, NEW c \in Call, ReadOld(c)
  PROVE  ListInv'
<1> DEFINE old == node[root.head]
           state == [call[c] EXCEPT !.at = "new", !.read = old]
<1>1. Busy(c) /\ call[c].root = root /\ Whole /\ root.head # NoNode /\ c \notin DOMAIN node
  BY DEF ReadOld, At, Busy, Adding, ListInv, InPlace, Reading, AddInPlace
<1>2. root.head \in Left
  BY <1>1, Ends DEF ListInv
<1>3. old.next = NoNode /\ old \in Content
  BY <1>1, <1>2, Numbers DEF Whole, Linked, ListInv
<1>4. Goes(c, state) /\ UNCHANGED <<root, node, out>>
  BY <1>1, <1>3 DEF ReadOld
<1>5. call[c] \in State
  BY DEF ListInv, ListTypeOK, State
<1>6. state \in State /\ state.at = "new" /\ state.root = root /\ state.read = old
  BY <1>1, <1>3, <1>5 DEF State, Where, Adding
<1>7. call'[c] = state
  BY <1>4 DEF Goes, ListInv, ListTypeOK
<1>8. Whole'
  BY <1>1, <1>4 DEF Whole, Left
<1>9. (Reading(c) /\ AddInPlace(c) /\ RemoveInPlace(c))'
  BY <1>1, <1>4, <1>6, <1>7, <1>8 DEF Reading, AddInPlace, RemoveInPlace, Removing, At
<1> HIDE DEF state
<1> QED BY <1>1, <1>4, <1>6, <1>9, CallReads

LEMMA OldestIsRead ==
  ASSUME MaxCalls \in Nat, ListInv, NEW c \in Call, ReadOldest(c)
  PROVE  ListInv'
<1> DEFINE oldest == node[root.tail]
           place == IF oldest.next # NoNode THEN "next" ELSE "pop"
           state == [call[c] EXCEPT !.at = place, !.read = oldest]
<1>1. Busy(c) /\ call[c].root = root /\ Whole
  BY DEF ReadOldest, At, Busy, Removing, ListInv, InPlace, Reading
<1>2. root.tail \in Left /\ \A n \in Left : root.tail <= n
  BY DEF ReadOldest, At, Removing, ListInv, InPlace, RemoveInPlace
<1>3. oldest.prev = NoNode /\ oldest.value = root.tail /\ oldest \in Content
  BY <1>1, <1>2, Numbers DEF Whole, Linked, ListInv
<1>4. oldest.next = NoNode =>
        root.tail = root.head /\ Linked(node, Left \ {root.tail}, NoNode, NoNode)
  <2>1. Left \in SUBSET (Nat \ {0})
    BY Numbers DEF ListInv
  <2> QED BY <1>1, <1>2, <2>1, DropsOnly DEF Whole
<1>5. Goes(c, state) /\ UNCHANGED <<root, node, out>>
  BY <1>1, <1>3, <1>4 DEF ReadOldest
<1>6. call[c] \in State
  BY DEF ListInv, ListTypeOK, State
<1>7. state \in State /\ state.at = place /\ state.root = root /\ state.read = oldest
  BY <1>1, <1>3, <1>6 DEF State, Where, Removing
<1>8. call'[c] = state
  BY <1>5 DEF Goes, ListInv, ListTypeOK
<1>9. Whole' /\ Left' = Left
  BY <1>1, <1>5 DEF Whole, Left
<1> HIDE DEF state
<1>10. (Reading(c) /\ AddInPlace(c))'
  BY <1>1, <1>5, <1>7, <1>8, <1>9 DEF Reading, AddInPlace, Removing, At
<1>11. RemoveInPlace(c)'
  BY <1>2, <1>3, <1>4, <1>5, <1>7, <1>8, <1>9 DEF RemoveInPlace, Removing, At
<1> QED BY <1>1, <1>5, <1>7, <1>10, <1>11, CallReads

LEMMA NextIsRead ==
  ASSUME MaxCalls \in Nat, ListInv, NEW c \in Call, ReadNext(c)
  PROVE  ListInv'
<1> DEFINE m == call[c].read.next
           state == [call[c] EXCEPT !.at = "unlink", !.next = node[m]]
<1>1. /\ Busy(c) /\ call[c].root = root /\ Whole
      /\ call[c].read = node[root.tail] /\ m # NoNode
      /\ root.tail \in Left /\ \A n \in Left : root.tail <= n
  BY DEF ReadNext, At, Busy, Removing, ListInv, InPlace, Reading, RemoveInPlace
<1>2. m \in Left /\ root.tail < m
  BY <1>1 DEF Whole, Linked
<1>3. Left \subseteq Nat /\ node[m] \in Content
  BY <1>2, Numbers DEF ListInv
<1>4. node[m].prev = root.tail
  <2>0. m \in Nat /\ root.tail \in Nat
    BY <1>1, <1>2, <1>3
  <2>1. root.tail <= node[m].prev
    BY <1>1, <1>2 DEF Whole, Linked
  <2>2. m # root.tail
    <3> HIDE DEF m
    <3> QED BY <1>2, <2>0
  <2>3. node[m].prev \in Left /\ node[m].prev < m
    BY <1>1, <1>2, <2>2 DEF Whole, Linked
  <2>4. root.tail < node[m].prev => m <= node[m].prev
    BY <1>1, <2>3 DEF Whole, Linked
  <2>5. node[m].prev \in Nat
    BY <1>3, <2>3
  <2> HIDE DEF m
  <2> QED BY <2>0, <2>1, <2>3, <2>4, <2>5
<1>5. Goes(c, state) /\ UNCHANGED <<root, node, out>>
  BY <1>1, <1>4 DEF ReadNext
<1>6. call[c] \in State
  BY DEF ListInv, ListTypeOK, State
<1>7. state \in State /\ state.at = "unlink" /\ state.root = root
      /\ state.read = call[c].read /\ state.next = node[m]
  BY <1>1, <1>3, <1>6 DEF State, Where, Removing
<1>8. call'[c] = state
  BY <1>5 DEF Goes, ListInv, ListTypeOK
<1>9. Whole' /\ Left' = Left
  BY <1>1, <1>5 DEF Whole, Left
<1> HIDE DEF state
<1>10. (Reading(c) /\ AddInPlace(c))'
  BY <1>1, <1>5, <1>7, <1>8, <1>9 DEF Reading, AddInPlace, Removing, At
<1>11. RemoveInPlace(c)'
  BY <1>1, <1>5, <1>7, <1>8, <1>9 DEF RemoveInPlace, Removing, At
<1> QED BY <1>1, <1>5, <1>7, <1>10, <1>11, CallReads

LEMMA NodeIsMade ==
  ASSUME MaxCalls \in Nat, ListInv, NEW c \in Call, New(c)
  PROVE  ListInv'
<1> DEFINE x == [value |-> c, next |-> NoNode, prev |-> root.head]
           place == IF root.head = NoNode THEN "push" ELSE "link"
           state == [call[c] EXCEPT !.at = place]
<1>1. /\ Busy(c) /\ call[c].root = root /\ Whole /\ c \notin DOMAIN node
      /\ root.head = NoNode \/ call[c].read = node[root.head]
  BY DEF New, At, Busy, Adding, ListInv, InPlace, Reading, AddInPlace
<1>2. call[c] \in State
  BY DEF ListInv, ListTypeOK, State
<1>3. node' = Stored(c, x) /\ Goes(c, state) /\ UNCHANGED <<root, out>>
  BY <1>1 DEF New, To
<1>4. state \in State /\ state.at = place /\ state.root = root /\ state.read = call[c].read
  BY <1>1, <1>2 DEF State, Where, Adding
<1>5. /\ DOMAIN node' = DOMAIN node \cup {c}
      /\ node'[c] = x
      /\ \A n \in DOMAIN node : node'[n] = node[n]
  BY <1>1, <1>3 DEF Stored
<1>6. call'[c] = state
  BY <1>3 DEF Goes, ListInv, ListTypeOK
<1>7. Left' = Left \cup {c} /\ c \notin Left
  BY <1>1, <1>3, <1>5 DEF Left, ListInv, Births
<1>8. ListTypeOK'
  <2>1. x \in Content
    BY DEF Content, Ptr, NoNode, Root, ListInv, ListTypeOK
  <2> HIDE DEF x, state
  <2> QED BY <1>3, <1>4, <1>5, <2>1 DEF ListInv, ListTypeOK, Goes, State
<1>9. FirstInFirstOut'
  <2>1. ASSUME NEW i \in DOMAIN out
        PROVE  out[i] < c
    <3>1. out[i] \in DOMAIN node
      BY DEF ListInv, Births
    <3>2. out[i] <= c /\ out[i] # c /\ out[i] \in Nat /\ c \in Nat
      BY <1>1, <3>1, LastBegan, Numbers DEF ListInv
    <3> QED BY <3>2
  <2> QED BY <1>3, <1>7, <2>1 DEF FirstInFirstOut, ListInv, ListSound
<1>10. /\ \A n \in DOMAIN node' : n \in DOMAIN node \/ n = c
       /\ \A i \in DOMAIN out' : out'[i] \in DOMAIN node'
  BY <1>3, <1>5 DEF ListInv, Births
<1>11. Linked(node', Left, root.tail, root.head)
  <2>1. Left \in SUBSET Nat /\ \A n \in Left : node'[n] = node[n]
    BY <1>5, Numbers DEF ListInv
  <2> QED BY <1>1, <2>1, SameNodes DEF Whole
<1>12. root.head = NoNode => Linked(node', Left', c, c)
  <2> SUFFICES ASSUME root.head = NoNode
               PROVE  Linked(node', Left', c, c)
    OBVIOUS
  <2>1. Left' = {c}
    BY <1>1, <1>7, Ends DEF ListInv
  <2>2. c \in Nat \ {0} /\ node'[c] = [value |-> c, next |-> NoNode, prev |-> NoNode]
    BY <1>5, Numbers DEF ListInv
  <2> QED BY <2>1, <2>2, OneNode
<1>13. root.head # NoNode => node'[root.head] = node[root.head]
  BY <1>1, <1>5, Ends, Numbers DEF ListInv
<1>14. Left' \ {c} = Left
  BY <1>7
<1> HIDE DEF state
<1>15. (Reading(c) /\ RemoveInPlace(c))'
  BY <1>3, <1>4, <1>6 DEF Reading, RemoveInPlace, Removing, At
<1>16. AddInPlace(c)'
  BY <1>1, <1>3, <1>4, <1>5, <1>6, <1>7, <1>11, <1>12, <1>13, <1>14 DEF AddInPlace, At
<1> QED BY <1>1, <1>3, <1>4, <1>8, <1>9, <1>10, <1>15, <1>16, CallMoves

LEMMA NodeIsLinked ==
  ASSUME MaxCalls \in Nat, ListInv, NEW c \in Call, Link(c)
  PROVE  ListInv'
<1> DEFINE x == [call[c].read EXCEPT !.next = c]
           state == [call[c] EXCEPT !.at = "push"]
           N == Left \ {c}
<1>1. /\ Busy(c) /\ call[c].root = root /\ root.head # NoNode /\ c \in Left
      /\ call[c].read = node[root.head]
      /\ Linked(node, N, root.tail, root.head)
      /\ node[c] = [value |-> c, next |-> NoNode, prev |-> root.head]
  BY DEF Link, At, Busy, Adding, ListInv, InPlace, Reading, AddInPlace
<1>2. root.head \in N
  BY <1>1 DEF Linked
<1>3. call[c] \in State /\ node[root.head] \in Content
  BY <1>2, Numbers DEF ListInv, ListTypeOK, State
<1>4. node' = Stored(root.head, x) /\ Goes(c, state) /\ UNCHANGED <<root, out>>
  BY <1>1 DEF Link, To
<1>5. state \in State /\ state.at = "push" /\ state.root = root
  BY <1>1, <1>3 DEF State, Where, Adding
<1>6. /\ DOMAIN node' = DOMAIN node
      /\ node'[root.head] = x
      /\ \A n \in DOMAIN node \ {root.head} : node'[n] = node[n]
  BY <1>2, <1>4, Numbers DEF Stored, ListInv
<1>7. x \in Content /\ x.value = node[root.head].value /\ x.prev = node[root.head].prev
      /\ x.next = c
  BY <1>1, <1>3 DEF Content, Ptr
<1>8. call'[c] = state
  BY <1>4 DEF Goes, ListInv, ListTypeOK
<1>9. Left' = Left
  BY <1>4, <1>6 DEF Left
<1> HIDE DEF x, state
<1>10. ListTypeOK'
  BY <1>4, <1>5, <1>6, <1>7 DEF ListInv, ListTypeOK, Goes, State
<1>11. FirstInFirstOut'
  BY <1>4, <1>9 DEF FirstInFirstOut, ListInv, ListSound
<1>12. /\ \A n \in DOMAIN node' : n \in DOMAIN node \/ n = c
       /\ \A i \in DOMAIN out' : out'[i] \in DOMAIN node'
  BY <1>4, <1>6 DEF ListInv, Births
<1>13. Linked(node', Left, root.tail, c)
  <2>1. N \in SUBSET (Nat \ {0}) /\ c \in Nat /\ c \in DOMAIN node
    BY <1>1, Numbers DEF ListInv
  <2>2. \A n \in N : n < c
    <3> SUFFICES ASSUME NEW n \in N
                 PROVE  n < c
      OBVIOUS
    <3>1. n <= c /\ n # c /\ n \in Nat
      BY <1>1, <2>1, LastBegan, Numbers DEF ListInv
    <3> QED BY <2>1, <3>1
  <2>3. \A n \in N \ {root.head} : node'[n] = node[n]
    BY <1>6, Numbers DEF ListInv
  <2>4. node'[c] = [value |-> c, next |-> NoNode, prev |-> root.head]
    BY <1>1, <1>2, <1>6, <2>1
  <2>5. N \cup {c} = Left
    BY <1>1
  <2> HIDE DEF N
  <2>6. Linked(node', N \cup {c}, root.tail, c)
    BY <1>1, <1>2, <1>6, <1>7, <2>1, <2>2, <2>3, <2>4, AddsLast
  <2> QED BY <2>5, <2>6
<1>14. (Reading(c) /\ RemoveInPlace(c))'
  BY <1>4, <1>5, <1>8 DEF Reading, RemoveInPlace, Removing, At
<1>15. AddInPlace(c)'
  BY <1>1, <1>4, <1>5, <1>8, <1>9, <1>13 DEF AddInPlace, At
<1> QED BY <1>1, <1>4, <1>5, <1>10, <1>11, <1>12, <1>14, <1>15, CallMoves

LEMMA RootIsPushed ==
  ASSUME MaxCalls \in Nat, ListInv, NEW c \in Call, Push(c)
  PROVE  ListInv'
<1> DEFINE first == IF root.head = NoNode THEN c ELSE root.tail
           state == [call[c] EXCEPT !.at = "done"]
<1>1. Busy(c) /\ call[c].root = root /\ Linked(node, Left, first, c)
  BY DEF Push, At, Busy, Adding, ListInv, InPlace, Reading, AddInPlace
<1>2. call[c] \in State
  BY DEF ListInv, ListTypeOK, State
<1>3. state \in State /\ state.at = "done"
  BY <1>2 DEF State, Where, Ended
<1>4. root' = [head |-> c, tail |-> first] /\ Goes(c, state) /\ UNCHANGED <<node, out>>
  BY <1>1 DEF Push, To
<1>5. call'[c] = state
  BY <1>4 DEF Goes, ListInv, ListTypeOK
<1>6. Left' = Left
  BY <1>4 DEF Left
<1>7. first \in Ptr
  BY DEF Ptr, ListInv, ListTypeOK, Root
<1> HIDE DEF first, state
<1>8. ListTypeOK'
  BY <1>3, <1>4, <1>7 DEF ListInv, ListTypeOK, Goes, State, Root, Ptr
<1>9. FirstInFirstOut'
  BY <1>4, <1>6 DEF FirstInFirstOut, ListInv, ListSound
<1>10. /\ \A n \in DOMAIN node' : n \in DOMAIN node \/ n = c
       /\ \A i \in DOMAIN out' : out'[i] \in DOMAIN node'
  BY <1>4 DEF ListInv, Births
<1>11. Whole'
  BY <1>1, <1>4, <1>6 DEF Whole
<1>12. (Reading(c) /\ AddInPlace(c) /\ RemoveInPlace(c))'
  BY <1>3, <1>5 DEF Reading, AddInPlace, RemoveInPlace, Adding, Removing, Busy, At
<1> QED BY <1>1, <1>3, <1>4, <1>8, <1>9, <1>10, <1>11, <1>12, CallMoves

LEMMA OldestIsUnlinked ==
  ASSUME MaxCalls \in Nat, ListInv, NEW c \in Call, Unlink(c)
  PROVE  ListInv'
<1> DEFINE m == call[c].read.next
           x == [call[c].next EXCEPT !.prev = NoNode]
           state == [call[c] EXCEPT !.at = "pop"]
<1>1. /\ Busy(c) /\ call[c].root = root /\ Whole
      /\ call[c].read = node[root.tail] /\ m # NoNode /\ call[c].next = node[m]
      /\ root.tail \in Left /\ \A n \in Left : root.tail <= n
  BY DEF Unlink, At, Busy, Removing, ListInv, InPlace, Reading, RemoveInPlace
<1>2. m \in Left /\ root.tail < m /\ m = node[root.tail].next
  BY <1>1 DEF Whole, Linked
<1>3. call[c] \in State /\ node[m] \in Content
  BY <1>2, Numbers DEF ListInv, ListTypeOK, State
<1>4. node' = Stored(m, x) /\ Goes(c, state) /\ UNCHANGED <<root, out>>
  BY <1>1 DEF Unlink, To
<1>5. /\ state \in State /\ state.at = "pop" /\ state.root = root
      /\ state.read = call[c].read
  BY <1>1, <1>3 DEF State, Where, Removing
<1>6. /\ x \in Content /\ x.value = node[m].value /\ x.next = node[m].next
      /\ x.prev = NoNode
  BY <1>1, <1>3 DEF Content, Ptr
<1>7. /\ DOMAIN node' = DOMAIN node
      /\ node'[m] = x
      /\ \A n \in DOMAIN node \ {m} : node'[n] = node[n]
  BY <1>2, <1>4, Numbers DEF Stored, ListInv
<1>8. call'[c] = state
  BY <1>4 DEF Goes, ListInv, ListTypeOK
<1>9. Left' = Left
  BY <1>4, <1>7 DEF Left
<1>10. m = state.read.next /\ state.read.value = root.tail
  BY <1>1, <1>5 DEF Whole, Linked
<1> HIDE DEF m, x, state
<1>11. ListTypeOK'
  BY <1>4, <1>5, <1>6, <1>7 DEF ListInv, ListTypeOK, Goes, State
<1>12. FirstInFirstOut'
  BY <1>4, <1>9 DEF FirstInFirstOut, ListInv, ListSound
<1>13. /\ \A n \in DOMAIN node' : n \in DOMAIN node \/ n = c
       /\ \A i \in DOMAIN out' : out'[i] \in DOMAIN node'
  BY <1>4, <1>7 DEF ListInv, Births
<1>14. Linked(node', Left \ {root.tail}, m, root.head)
  <2>1. Left \in SUBSET (Nat \ {0}) /\ Left \subseteq DOMAIN node
    BY Numbers DEF ListInv
  <2>2. \A n \in Left \ {root.tail, m} : node'[n] = node[n]
    BY <1>7, <2>1
  <2>3. /\ node'[m].value = node[m].value /\ node'[m].next = node[m].next
        /\ node'[m].prev = NoNode
    BY <1>6, <1>7
  <2>4. Linked(node, Left, root.tail, root.head) /\ root.tail \in Left /\ m # NoNode
    BY <1>1 DEF Whole, m
  <2> QED BY <1>2, <2>1, <2>2, <2>3, <2>4, DropsFirst
<1>15. (Reading(c) /\ AddInPlace(c))'
  BY <1>4, <1>5, <1>8 DEF Reading, AddInPlace, Removing, At
<1>16. RemoveInPlace(c)'
  BY <1>1, <1>4, <1>5, <1>8, <1>9, <1>10, <1>14 DEF RemoveInPlace, Removing, At
<1> QED BY <1>1, <1>4, <1>5, <1>11, <1>12, <1>13, <1>15, <1>16, CallMoves

LEMMA RootIsPopped ==
  ASSUME MaxCalls \in Nat, ListInv, NEW c \in Call, Pop(c)
  PROVE  ListInv'
<1> DEFINE m == call[c].read.next
           head == IF m = NoNode THEN NoNode ELSE root.head
           state == [call[c] EXCEPT !.at = "done"]
<1>1. /\ Busy(c) /\ call[c].root = root
      /\ root.tail \in Left /\ \A n \in Left : root.tail <= n
      /\ call[c].read.value = root.tail
      /\ Linked(node, Left \ {root.tail}, m, head)
  BY DEF Pop, At, Busy, Removing, ListInv, InPlace, Reading, RemoveInPlace
<1>2. call[c] \in State /\ root \in Root
  BY DEF ListInv, ListTypeOK, State
<1>3. state \in State /\ state.at = "done"
  BY <1>2 DEF State, Where, Ended
<1>4. Goes(c, state) /\ UNCHANGED node /\ out' = Append(out, root.tail)
  BY <1>1 DEF Pop, To
<1>5. root' \in Root /\ root'.tail = m /\ root'.head = head
  <2>1. m \in Ptr
    BY <1>2 DEF State, Content
  <2>2. root' = IF m = NoNode THEN Empty ELSE [root EXCEPT !.tail = m]
    BY <1>1 DEF Pop
  <2> HIDE DEF m
  <2>3. CASE m = NoNode
    BY <2>1, <2>2, <2>3 DEF Empty, Root
  <2>4. CASE m # NoNode
    BY <1>2, <2>1, <2>2, <2>4 DEF Root
  <2> QED BY <2>3, <2>4
<1>6. call'[c] = state
  BY <1>4 DEF Goes, ListInv, ListTypeOK
<1> HIDE DEF m, head, state
<1>7. out \in Seq(Call) /\ root.tail \in Call /\ root.tail \in DOMAIN node
  BY <1>1, Numbers DEF ListInv, ListTypeOK
<1>8. /\ out' \in Seq(Call) /\ DOMAIN out' = DOMAIN out \cup {Len(out) + 1}
      /\ \A i \in DOMAIN out : out'[i] = out[i] /\ i \in Nat /\ i < Len(out) + 1
      /\ out'[Len(out) + 1] = root.tail /\ Len(out) \in Nat
  BY <1>4, <1>7
<1>9. Left' = Left \ {root.tail}
  <2>1. {out'[i] : i \in DOMAIN out'} = {out[i] : i \in DOMAIN out} \cup {root.tail}
    BY <1>8
  <2> QED BY <1>4, <2>1 DEF Left
<1>10. ListTypeOK'
  BY <1>3, <1>4, <1>5, <1>8 DEF ListInv, ListTypeOK, Goes, State
<1>11. FirstInFirstOut'
  <2>1. ASSUME NEW i \in DOMAIN out', NEW j \in DOMAIN out', i < j
        PROVE  out'[i] < out'[j]
    <3>1. i \in DOMAIN out
      BY <1>8, <2>1
    <3>2. CASE j \in DOMAIN out
      BY <1>8, <2>1, <3>1, <3>2 DEF FirstInFirstOut, ListInv, ListSound
    <3>3. CASE j = Len(out) + 1
      BY <1>1, <1>8, <3>1, <3>3 DEF FirstInFirstOut, ListInv, ListSound
    <3> QED BY <1>8, <3>2, <3>3
  <2>2. ASSUME NEW i \in DOMAIN out', NEW n \in Left'
        PROVE  out'[i] < n
    <3>1. n \in Left /\ n # root.tail /\ root.tail <= n /\ n \in Nat /\ root.tail \in Nat
      BY <1>1, <1>9, Numbers DEF ListInv
    <3>2. CASE i \in DOMAIN out
      BY <1>8, <3>1, <3>2 DEF FirstInFirstOut, ListInv, ListSound
    <3>3. CASE i = Len(out) + 1
      BY <1>8, <3>1, <3>3
    <3> QED BY <1>8, <3>2, <3>3
  <2> QED BY <2>1, <2>2 DEF FirstInFirstOut
<1>12. /\ \A n \in DOMAIN node' : n \in DOMAIN node \/ n = c
       /\ \A i \in DOMAIN out' : out'[i] \in DOMAIN node'
  BY <1>4, <1>7, <1>8 DEF ListInv, Births
<1>13. Whole'
  BY <1>1, <1>4, <1>5, <1>9 DEF Whole
<1>14. (Reading(c) /\ AddInPlace(c) /\ RemoveInPlace(c))'
  BY <1>3, <1>6 DEF Reading, AddInPlace, RemoveInPlace, Adding, Removing, Busy, At
<1> QED BY <1>1, <1>3, <1>4, <1>10, <1>11, <1>12, <1>13, <1>14, CallMoves

-----------------------------------------------------------------------------
LEMMA ListInitially == ASSUME MaxCalls \in Nat, Init PROVE ListInv
<1>1. DOMAIN node = {} /\ DOMAIN out = {} /\ Left = {} /\ out \in Seq(Call)
  BY DEF Init, Left
<1>2. \A c \in Call : call[c] = Unborn /\ At(c, "unborn")
  BY DEF Init, At, Unborn
<1>3. ListTypeOK
  <2>1. ASSUME NEW c \in Call
        PROVE  Unborn \in [at : Where, root : Root, read : Content, next : Content]
    BY DEF Unborn, Where, Root, Empty, Blank, Content, NoNode, Ptr, Call
  <2>2. root \in Root
    BY DEF Init, Empty, Root, Ptr
  <2>3. call \in [Call -> [at : Where, root : Root, read : Content, next : Content]]
    <3>1. call = [c \in Call |-> Unborn]
      BY DEF Init
    <3> QED BY <2>1, <3>1
  <2> QED BY <1>1, <2>2, <2>3 DEF ListTypeOK
<1>4. RequiresHold /\ FirstInFirstOut
  BY <1>1, <1>2 DEF RequiresHold, FirstInFirstOut, At
<1>5. LinkedInOrder
  BY <1>1 DEF LinkedInOrder, Linked, Init, Empty
<1>6. Births
  BY <1>1, <1>2 DEF Births
<1>7. InPlace
  BY <1>2 DEF InPlace, Reading, AddInPlace, RemoveInPlace, Busy, At, Adding, Removing
<1> QED BY <1>3, <1>4, <1>5, <1>6, <1>7 DEF ListInv, ListSound

(* Calls that come one at a time never fail a require of the list, leave it  *)
(* whole between them, linked both ways in the order of the additions, and   *)
(* what they remove is always the oldest (LinkedList.scala l.140-190).       *)
THEOREM ListStaysSound ==
  ASSUME MaxCalls \in Nat, MaxParallel = 1
  PROVE  Spec => []ListSound
<1>1. Init => ListInv
  BY ListInitially
<1>2. ListInv /\ [Next]_vars => ListInv'
  <2> SUFFICES ASSUME ListInv, [Next]_vars
               PROVE  ListInv'
    OBVIOUS
  <2>1. ASSUME NEW c \in Call, StartAdd(c)
        PROVE  ListInv'
    BY <2>1, AddStarts
  <2>2. ASSUME NEW c \in Call, ReadOld(c)
        PROVE  ListInv'
    BY <2>2, OldIsRead
  <2>3. ASSUME NEW c \in Call, New(c)
        PROVE  ListInv'
    BY <2>3, NodeIsMade
  <2>4. ASSUME NEW c \in Call, Link(c)
        PROVE  ListInv'
    BY <2>4, NodeIsLinked
  <2>5. ASSUME NEW c \in Call, Push(c)
        PROVE  ListInv'
    BY <2>5, RootIsPushed
  <2>6. ASSUME NEW c \in Call, StartRemove(c)
        PROVE  ListInv'
    BY <2>6, RemoveStarts
  <2>7. ASSUME NEW c \in Call, ReadOldest(c)
        PROVE  ListInv'
    BY <2>7, OldestIsRead
  <2>8. ASSUME NEW c \in Call, ReadNext(c)
        PROVE  ListInv'
    BY <2>8, NextIsRead
  <2>9. ASSUME NEW c \in Call, Unlink(c)
        PROVE  ListInv'
    BY <2>9, OldestIsUnlinked
  <2>10. ASSUME NEW c \in Call, Pop(c)
         PROVE  ListInv'
    BY <2>10, RootIsPopped
  <2>11. CASE UNCHANGED vars
    <3>1. UNCHANGED <<root, node, call, out>>
      BY <2>11 DEF vars
    <3>2. Left' = Left /\ UnderWay' = UnderWay
      BY <3>1 DEF Left, UnderWay
    <3>3. ListTypeOK'
      BY <3>1 DEF ListInv, ListTypeOK
    <3>4. ListSound'
      BY <3>1, <3>2 DEF ListInv, ListSound, RequiresHold, LinkedInOrder, FirstInFirstOut
    <3>5. Births'
      BY <3>1 DEF ListInv, Births, At
    <3>6. InPlace'
      <4> SUFFICES ASSUME NEW c \in Call
                   PROVE  (Reading(c) /\ AddInPlace(c) /\ RemoveInPlace(c))'
        BY DEF InPlace
      <4>1. Reading(c) /\ AddInPlace(c) /\ RemoveInPlace(c)
        BY DEF ListInv, InPlace
      <4>2. Reading(c)'
        BY <3>1, <3>2, <4>1 DEF Reading, Whole, Busy
      <4>3. AddInPlace(c)'
        BY <3>1, <3>2, <4>1 DEF AddInPlace, At
      <4>4. RemoveInPlace(c)'
        BY <3>1, <3>2, <4>1 DEF RemoveInPlace, At
      <4> QED BY <4>2, <4>3, <4>4
    <3> QED BY <3>3, <3>4, <3>5, <3>6 DEF ListInv
  <2> QED BY <2>1, <2>2, <2>3, <2>4, <2>5, <2>6, <2>7, <2>8, <2>9, <2>10, <2>11 DEF Next
<1>3. ListInv => ListSound
  BY DEF ListInv
<1> QED BY <1>1, <1>2, <1>3, PTL DEF Spec

-----------------------------------------------------------------------------
(* The node of a classification tree, ClassificationTreeNode.scala.          *)

Bag == [Item -> Nat]
Place == {"idle", "asked", "aside", "rule", "transfer", "check", "done", "failed"}

(* The last round is moved as one block.                                     *)
OneBlock == \A B \in [Item -> 0..1] : Leaf!Size(B) <= BlockSize

LeafTypeOK ==
  /\ leaf \in [item : 0..Len(buffers), split : 0..Len(buffers),
               rule : BOOLEAN, task : BOOLEAN]
  /\ buffers \in Seq(Bag) /\ routed \in Bag
  /\ split \in [Split -> [at : Place, buffer : Nat, hand : Bag, rows : Nat]]
  /\ items \subseteq Item

(* Which split holds the buffer put aside; a buffer nobody holds any more is *)
(* empty, a hand is empty but during the transfer, and a node with a rule is *)
(* closed once the transfer is over.                                         *)
Holds(s) == split[s].at \in {"aside", "rule", "transfer"}

SplitInv ==
  /\ \A r, s \in Split : Leaf!Working(r) /\ Leaf!Working(s) => r = s
  /\ \A s \in Split : Holds(s) => leaf.split # 0 /\ split[s].buffer = leaf.split
  /\ leaf.split # 0 => leaf.item # 0 /\ leaf.item # leaf.split
  /\ leaf.split # 0 => Leaf!IsEmpty(buffers[leaf.split]) \/ \E s \in Split : Holds(s)
  /\ \A s \in Split, i \in Item : split[s].hand[i] # 0 => Leaf!At(s, "transfer")
  /\ leaf.rule => leaf.item = 0 \/ \E s \in Split : Leaf!At(s, "transfer")
  /\ \A s \in Split : Leaf!At(s, "transfer") => leaf.rule
  /\ leaf.item = 0 => leaf.rule

(* An item that was added is in one place, one that was not is in none.      *)
Once(i) ==
  \/ Leaf!Kept(i) = 1 /\ \A s \in Split : split[s].hand[i] = 0
  \/ /\ Leaf!Kept(i) = 0
     /\ \E s \in Split : split[s].hand[i] = 1 /\ \A r \in Split \ {s} : split[r].hand[i] = 0
Nowhere(i) == Leaf!Kept(i) = 0 /\ \A s \in Split : split[s].hand[i] = 0
Counted == \A i \in Item : IF i \in items THEN Once(i) ELSE Nowhere(i)

LeafInv == LeafTypeOK /\ SplitInv /\ Counted

LEMMA LeafInitially == ASSUME Leaf!Init PROVE LeafInv
<1>1. Leaf!NoItems \in Bag /\ \A i \in Item : Leaf!NoItems[i] = 0
  BY DEF Leaf!NoItems, Bag
<1>2. /\ leaf = [item |-> 1, split |-> 0, rule |-> FALSE, task |-> FALSE]
      /\ buffers = <<Leaf!NoItems>> /\ routed = Leaf!NoItems /\ items = {}
      /\ split = [s \in Split |->
                    [at |-> "idle", buffer |-> 0, hand |-> Leaf!NoItems, rows |-> 0]]
  BY DEF Leaf!Init
<1>3. buffers \in Seq(Bag) /\ Len(buffers) = 1 /\ buffers[1] = Leaf!NoItems
  BY <1>1, <1>2
<1>4. LeafTypeOK
  BY <1>1, <1>2, <1>3 DEF LeafTypeOK, Place
<1>5. \A s \in Split : split[s].at = "idle" /\ split[s].hand = Leaf!NoItems
  BY <1>2
<1>6. SplitInv
  BY <1>1, <1>2, <1>5 DEF SplitInv, Leaf!Working, Leaf!At, Holds
<1>7. \A i \in Item : Nowhere(i)
  BY <1>1, <1>2, <1>3, <1>5 DEF Nowhere, Leaf!Kept, Leaf!InBuffer
<1> QED BY <1>2, <1>4, <1>6, <1>7 DEF LeafInv, Counted

(* A step that moves no item.                                                *)
LEMMA CountStays ==
  ASSUME Counted, items' = items,
         \A i \in Item : Leaf!Kept(i)' = Leaf!Kept(i),
         \A s \in Split, i \in Item : split'[s].hand[i] = split[s].hand[i]
  PROVE  Counted'
<1> SUFFICES ASSUME NEW i \in Item
             PROVE  (IF i \in items THEN Once(i) ELSE Nowhere(i))'
  BY DEF Counted
<1>1. CASE i \in items
  <2>1. Once(i)
    BY <1>1 DEF Counted
  <2> QED BY <1>1, <2>1 DEF Once
<1>2. CASE i \notin items
  <2>1. Nowhere(i)
    BY <1>2 DEF Counted
  <2> QED BY <1>2, <2>1 DEF Nowhere
<1> QED BY <1>1, <1>2

SplitState == [at : Place, buffer : Nat, hand : Bag, rows : Nat]

LEMMA SplitGoes ==
  ASSUME LeafTypeOK, NEW s \in Split, NEW place \in Place, Leaf!Goes(s, place)
  PROVE  /\ split' \in [Split -> SplitState]
         /\ split'[s].at = place /\ split'[s].buffer = split[s].buffer
         /\ split'[s].hand = split[s].hand
         /\ \A r \in Split \ {s} : split'[r] = split[r]
<1>1. split \in [Split -> SplitState]
  BY DEF LeafTypeOK, SplitState
<1> QED BY <1>1 DEF Leaf!Goes, SplitState

(* The step of a split that moves no item, or the choice of a split to ask   *)
(* for: SplitInv is left to show.                                            *)
LEMMA OnlyGoes ==
  ASSUME LeafInv, NEW s \in Split, NEW place \in Place, Leaf!Goes(s, place),
         leaf' \in [item : {leaf.item}, split : {leaf.split}, rule : BOOLEAN, task : BOOLEAN],
         UNCHANGED <<buffers, routed, items>>
  PROVE  LeafTypeOK' /\ Counted'
<1>1. leaf'.item = leaf.item /\ leaf'.split = leaf.split
  OBVIOUS
<1>2. LeafTypeOK'
  BY <1>1, SplitGoes DEF LeafInv, LeafTypeOK, SplitState
<1>3. \A r \in Split, i \in Item : split'[r].hand[i] = split[r].hand[i]
  BY SplitGoes DEF LeafInv
<1>4. \A i \in Item : Leaf!Kept(i)' = Leaf!Kept(i)
  BY <1>1 DEF Leaf!Kept, Leaf!InBuffer
<1> QED BY <1>2, <1>3, <1>4, CountStays DEF LeafInv

LEMMA SplitIsAsked ==
  ASSUME LeafInv, NEW s \in Split, Leaf!Ask(s)
  PROVE  LeafInv'
<1>1. /\ split[s].at = "idle" /\ Leaf!Goes(s, "asked")
      /\ UNCHANGED <<leaf, buffers, routed, items>>
  BY DEF Leaf!Ask, Leaf!At
<1>2. "asked" \in Place
  BY DEF Place
<1>3. split'[s].at = "asked" /\ split'[s].hand = split[s].hand
      /\ \A r \in Split \ {s} : split'[r] = split[r]
  BY <1>1, <1>2, SplitGoes DEF LeafInv
<1>4. LeafTypeOK' /\ Counted'
  BY <1>1, <1>2, OnlyGoes DEF LeafInv, LeafTypeOK
<1>5. SplitInv'
  BY <1>1, <1>3 DEF LeafInv, SplitInv, Leaf!Working, Leaf!At, Holds, Leaf!IsEmpty
<1> QED BY <1>4, <1>5 DEF LeafInv

LEMMA RuleIsMade ==
  ASSUME LeafInv, NEW s \in Split, Leaf!MakeRule(s)
  PROVE  LeafInv'
<1> DEFINE place == IF Leaf!IsEmpty(buffers[split[s].buffer]) THEN "failed" ELSE "rule"
<1>1. split[s].at = "aside" /\ Leaf!Goes(s, place) /\ UNCHANGED <<leaf, buffers, routed, items>>
  BY DEF Leaf!MakeRule, Leaf!At
<1>2. place \in Place
  BY DEF Place
<1>3. split'[s].at = place /\ split'[s].hand = split[s].hand /\ split'[s].buffer = split[s].buffer
      /\ \A r \in Split \ {s} : split'[r] = split[r]
  BY <1>1, <1>2, SplitGoes DEF LeafInv
<1>4. LeafTypeOK' /\ Counted'
  BY <1>1, <1>2, OnlyGoes DEF LeafInv, LeafTypeOK
<1>5. leaf.split # 0 /\ split[s].buffer = leaf.split /\ leaf.item # 0
  BY <1>1 DEF LeafInv, SplitInv, Holds
<1>6. Leaf!IsEmpty(buffers[leaf.split])' <=> Leaf!IsEmpty(buffers[leaf.split])
  BY <1>1 DEF Leaf!IsEmpty
<1>7. place \in {"rule", "failed"} /\ (place = "rule" \/ Leaf!IsEmpty(buffers[leaf.split]))
  BY <1>5
<1> HIDE DEF place
<1>8. SplitInv'
  BY <1>1, <1>3, <1>5, <1>6, <1>7 DEF LeafInv, SplitInv, Leaf!Working, Leaf!At, Holds
<1> QED BY <1>4, <1>8 DEF LeafInv

LEMMA RuleIsSet ==
  ASSUME LeafInv, NEW s \in Split, Leaf!SetRule(s)
  PROVE  LeafInv'
<1>1. /\ split[s].at = "rule" /\ Leaf!Goes(s, "transfer")
      /\ UNCHANGED <<buffers, routed, items>>
      /\ leaf' = [leaf EXCEPT !.rule = TRUE]
  BY DEF Leaf!SetRule, Leaf!At
<1>2. "transfer" \in Place
  BY DEF Place
<1>3. /\ split'[s].at = "transfer" /\ split'[s].hand = split[s].hand
      /\ split'[s].buffer = split[s].buffer
      /\ \A r \in Split \ {s} : split'[r] = split[r]
  BY <1>1, <1>2, SplitGoes DEF LeafInv
<1>4. leaf' \in [item : {leaf.item}, split : {leaf.split}, rule : {TRUE}, task : BOOLEAN]
  BY <1>1 DEF LeafInv, LeafTypeOK
<1>5. leaf'.item = leaf.item /\ leaf'.split = leaf.split /\ leaf'.rule = TRUE
  BY <1>4
<1>6. LeafTypeOK' /\ Counted'
  BY <1>1, <1>2, <1>4, OnlyGoes
<1>7. SplitInv'
  BY <1>1, <1>3, <1>5 DEF LeafInv, SplitInv, Leaf!Working, Leaf!At, Holds, Leaf!IsEmpty
<1> QED BY <1>6, <1>7 DEF LeafInv

(* A new, empty buffer takes the place of the node's, which is put aside.    *)
LEMMA NewBuffer ==
  ASSUME LeafTypeOK, Leaf!IsEmpty(buffers[leaf.split]) \/ leaf.split = 0, leaf.item # 0,
         leaf' = [leaf EXCEPT !.item = Len(buffers) + 1, !.split = leaf.item],
         buffers' = Append(buffers, Leaf!NoItems), UNCHANGED routed
  PROVE  /\ buffers' \in Seq(Bag)
         /\ leaf' \in [item : 0..Len(buffers'), split : 0..Len(buffers'),
                       rule : BOOLEAN, task : BOOLEAN]
         /\ leaf'.split = leaf.item /\ leaf'.item # 0 /\ leaf'.item # leaf'.split
         /\ leaf'.rule = leaf.rule
         /\ \A i \in Item : Leaf!Kept(i)' = Leaf!Kept(i)
<1>1. Leaf!NoItems \in Bag /\ \A i \in Item : Leaf!NoItems[i] = 0
  BY DEF Leaf!NoItems, Bag
<1>2. /\ buffers \in Seq(Bag) /\ Len(buffers) \in Nat
      /\ leaf.item \in 0..Len(buffers) /\ leaf.split \in 0..Len(buffers)
      /\ leaf.rule \in BOOLEAN /\ leaf.task \in BOOLEAN
  BY DEF LeafTypeOK
<1>3. /\ buffers' \in Seq(Bag) /\ Len(buffers') = Len(buffers) + 1
      /\ buffers'[Len(buffers) + 1] = Leaf!NoItems
      /\ \A k \in 1..Len(buffers) : buffers'[k] = buffers[k]
  BY <1>1, <1>2
<1>4. /\ leaf'.item = Len(buffers) + 1 /\ leaf'.split = leaf.item
      /\ leaf'.rule = leaf.rule /\ leaf'.task = leaf.task
  BY DEF LeafTypeOK
<1>5. leaf' \in [item : 0..Len(buffers'), split : 0..Len(buffers'),
                 rule : BOOLEAN, task : BOOLEAN]
  <2>1. Len(buffers) + 1 \in 0..Len(buffers') /\ leaf.item \in 0..Len(buffers')
    BY <1>2, <1>3
  <2> QED BY <1>2, <2>1 DEF LeafTypeOK
<1>6. leaf'.item # 0 /\ leaf'.item # leaf'.split
  BY <1>2, <1>4
<1>7. ASSUME NEW i \in Item
      PROVE  Leaf!Kept(i)' = Leaf!Kept(i)
  <2>1. buffers'[leaf'.item][i] = 0 /\ buffers'[leaf'.split][i] = buffers[leaf.item][i]
    BY <1>1, <1>2, <1>3, <1>4
  <2>2. Leaf!InBuffer(leaf.split, i) = 0
    BY DEF Leaf!InBuffer, Leaf!IsEmpty
  <2>3. buffers[leaf.item][i] \in Nat /\ routed[i] \in Nat
    BY <1>2 DEF LeafTypeOK, Bag
  <2>4. Leaf!Kept(i) = buffers[leaf.item][i] + routed[i]
    BY <2>2, <2>3 DEF Leaf!Kept, Leaf!InBuffer
  <2>5. Leaf!Kept(i)' = buffers[leaf.item][i] + routed[i]
    <3>1. Leaf!InBuffer(leaf.item, i)' = 0
      BY <1>6, <2>1 DEF Leaf!InBuffer
    <3>2. Leaf!InBuffer(leaf.split, i)' = buffers[leaf.item][i]
      BY <1>4, <2>1 DEF Leaf!InBuffer
    <3>3. routed'[i] = routed[i]
      OBVIOUS
    <3> QED BY <2>3, <3>1, <3>2, <3>3 DEF Leaf!Kept
  <2> QED BY <2>4, <2>5
<1> QED BY <1>3, <1>4, <1>5, <1>6, <1>7

LEMMA BufferIsPutAside ==
  ASSUME LeafInv, NEW s \in Split, Leaf!PutAside(s)
  PROVE  LeafInv'
<1>1. split[s].at = "asked" /\ (\A r \in Split : ~Leaf!Working(r)) /\ UNCHANGED <<routed, items>>
  BY DEF Leaf!PutAside, Leaf!At
<1>2. \A r \in Split : ~Holds(r) /\ ~Leaf!At(r, "transfer")
  BY <1>1 DEF Holds, Leaf!Working, Leaf!At
<1>3. split \in [Split -> SplitState]
  BY DEF LeafInv, LeafTypeOK, SplitState
<1>4. CASE leaf.split = 0 /\ leaf.item # 0
  <2>1. /\ leaf' = [leaf EXCEPT !.item = Len(buffers) + 1, !.split = leaf.item]
        /\ buffers' = Append(buffers, Leaf!NoItems)
        /\ split' = [split EXCEPT ![s].at = "aside", ![s].buffer = leaf.item]
    BY <1>4 DEF Leaf!PutAside
  <2>2. /\ buffers' \in Seq(Bag)
        /\ leaf' \in [item : 0..Len(buffers'), split : 0..Len(buffers'),
                      rule : BOOLEAN, task : BOOLEAN]
        /\ leaf'.split = leaf.item /\ leaf'.item # 0 /\ leaf'.item # leaf'.split
        /\ leaf'.rule = leaf.rule
        /\ \A i \in Item : Leaf!Kept(i)' = Leaf!Kept(i)
    BY <1>1, <1>4, <2>1, NewBuffer DEF LeafInv
  <2>3. leaf.item \in Nat /\ "aside" \in Place
    BY DEF LeafInv, LeafTypeOK, Place
  <2>4. /\ split' \in [Split -> SplitState]
        /\ split'[s].at = "aside" /\ split'[s].buffer = leaf.item
        /\ split'[s].hand = split[s].hand
        /\ \A r \in Split \ {s} : split'[r] = split[r]
    BY <1>3, <2>1, <2>3 DEF SplitState
  <2>5. LeafTypeOK'
    BY <1>1, <2>2, <2>4 DEF LeafInv, LeafTypeOK, SplitState
  <2>6. Counted'
    BY <1>1, <2>2, <2>4, CountStays DEF LeafInv
  <2>7. SplitInv'
    BY <1>1, <1>2, <1>4, <2>2, <2>4 DEF LeafInv, SplitInv, Leaf!Working, Leaf!At, Holds
  <2> QED BY <2>5, <2>6, <2>7 DEF LeafInv
<1>5. CASE ~(leaf.split = 0 /\ leaf.item # 0)
  <2>1. Leaf!Goes(s, "check") /\ UNCHANGED <<leaf, buffers>> /\ "check" \in Place
    BY <1>5 DEF Leaf!PutAside, Place
  <2>2. /\ split'[s].at = "check" /\ split'[s].hand = split[s].hand
        /\ \A r \in Split \ {s} : split'[r] = split[r]
    BY <2>1, SplitGoes DEF LeafInv
  <2>3. LeafTypeOK' /\ Counted'
    BY <1>1, <2>1, OnlyGoes DEF LeafInv, LeafTypeOK
  <2>4. SplitInv'
    BY <1>1, <1>2, <2>1, <2>2 DEF LeafInv, SplitInv, Leaf!Working, Leaf!At, Holds, Leaf!IsEmpty
  <2> QED BY <2>3, <2>4 DEF LeafInv
<1> QED BY <1>4, <1>5

LEMMA BuffersAreTransferred ==
  ASSUME LeafInv, NEW s \in Split, Leaf!TransferBuffers(s)
  PROVE  LeafInv'
<1>1. split[s].at = "transfer" /\ UNCHANGED <<routed, items>>
  BY DEF Leaf!TransferBuffers, Leaf!Transferred, Leaf!At
<1>2. leaf.split # 0 /\ split[s].buffer = leaf.split /\ leaf.item # 0
  BY <1>1 DEF LeafInv, SplitInv, Holds
<1>3. Leaf!IsEmpty(buffers[leaf.split])
  BY <1>2 DEF Leaf!TransferBuffers, Leaf!Transferred
<1>4. /\ leaf' = [leaf EXCEPT !.item = Len(buffers) + 1, !.split = leaf.item]
      /\ buffers' = Append(buffers, Leaf!NoItems)
      /\ split' = [split EXCEPT ![s].buffer = leaf.item, ![s].rows = 0]
  BY <1>2 DEF Leaf!TransferBuffers
<1>5. /\ buffers' \in Seq(Bag)
      /\ leaf' \in [item : 0..Len(buffers'), split : 0..Len(buffers'),
                    rule : BOOLEAN, task : BOOLEAN]
      /\ leaf'.split = leaf.item /\ leaf'.item # 0 /\ leaf'.item # leaf'.split
      /\ leaf'.rule = leaf.rule
      /\ \A i \in Item : Leaf!Kept(i)' = Leaf!Kept(i)
  BY <1>1, <1>2, <1>3, <1>4, NewBuffer DEF LeafInv
<1>6. split \in [Split -> SplitState] /\ leaf.item \in Nat
  BY DEF LeafInv, LeafTypeOK, SplitState
<1>7. /\ split' \in [Split -> SplitState]
      /\ split'[s].at = "transfer" /\ split'[s].buffer = leaf.item
      /\ split'[s].hand = split[s].hand
      /\ \A r \in Split \ {s} : split'[r] = split[r]
  BY <1>1, <1>4, <1>6 DEF SplitState
<1>8. LeafTypeOK'
  BY <1>1, <1>5, <1>7 DEF LeafInv, LeafTypeOK, SplitState
<1>9. Counted'
  BY <1>1, <1>5, <1>7, CountStays DEF LeafInv
<1>10. \A r \in Split \ {s} : ~Leaf!Working(r) /\ ~Holds(r)
  BY <1>1 DEF LeafInv, SplitInv, Leaf!Working, Leaf!At, Holds
<1>11. SplitInv'
  BY <1>1, <1>2, <1>5, <1>7, <1>10 DEF LeafInv, SplitInv, Leaf!Working, Leaf!At, Holds
<1> QED BY <1>8, <1>9, <1>11 DEF LeafInv

(* What is kept of an item: in the node's buffer, put aside, in a child.     *)
LEMMA KeptIsNat ==
  ASSUME LeafTypeOK, NEW i \in Item
  PROVE  /\ Leaf!InBuffer(leaf.item, i) \in Nat /\ Leaf!InBuffer(leaf.split, i) \in Nat
         /\ routed[i] \in Nat
<1>1. /\ leaf.item \in 0..Len(buffers) /\ leaf.split \in 0..Len(buffers)
      /\ buffers \in Seq(Bag) /\ routed \in Bag
  BY DEF LeafTypeOK
<1>2. \A k \in 1..Len(buffers) : buffers[k][i] \in Nat
  BY <1>1 DEF Bag
<1> QED BY <1>1, <1>2 DEF Leaf!InBuffer, Bag

LEMMA RestIsMoved ==
  ASSUME LeafInv, OneBlock, NEW s \in Split, Leaf!LastRound(s)
  PROVE  LeafInv'
<1>1. split[s].at = "transfer" /\ UNCHANGED items
  BY DEF Leaf!LastRound, Leaf!Transferred, Leaf!At
<1>2. leaf.split # 0 /\ split[s].buffer = leaf.split /\ leaf.item # 0 /\ leaf.rule
  BY <1>1 DEF LeafInv, SplitInv, Holds, Leaf!At
<1>3. Leaf!IsEmpty(buffers[leaf.split])
  BY <1>2 DEF Leaf!LastRound, Leaf!Transferred
<1> DEFINE rest == buffers[leaf.item]
<1>4. /\ buffers \in Seq(Bag) /\ leaf.item \in 1..Len(buffers) /\ leaf.split \in 1..Len(buffers)
      /\ routed \in Bag /\ rest \in Bag
  BY <1>2 DEF LeafInv, LeafTypeOK
<1>5. \A i \in Item : Leaf!Kept(i) = rest[i] + routed[i]
  BY <1>2, <1>3, <1>4 DEF Leaf!Kept, Leaf!InBuffer, Leaf!IsEmpty, Bag
<1>6. rest \in [Item -> 0..1]
  <2>1. ASSUME NEW i \in Item
        PROVE  rest[i] \in 0..1
    <3>1. Leaf!Kept(i) \in {0, 1}
      BY DEF LeafInv, Counted, Once, Nowhere
    <3>2. rest[i] \in Nat /\ routed[i] \in Nat
      BY <1>4 DEF Bag
    <3> QED BY <1>5, <3>1, <3>2
  <2> QED BY <1>4, <2>1 DEF Bag
<1>7. /\ \A i \in Item : routed'[i] = routed[i] + rest[i]
      /\ routed' \in Bag
  <2>1. Leaf!Lost(rest) = {Leaf!NoItems}
    BY <1>6 DEF OneBlock, Leaf!Lost
  <2>2. routed' = [i \in Item |-> routed[i] + rest[i] - Leaf!NoItems[i]]
    BY <1>2, <2>1 DEF Leaf!LastRound
  <2>3. \A i \in Item : Leaf!NoItems[i] = 0 /\ routed[i] \in Nat /\ rest[i] \in Nat
    BY <1>4 DEF Leaf!NoItems, Bag
  <2> HIDE DEF rest
  <2>4. \A i \in Item : routed'[i] = routed[i] + rest[i]
    BY <2>2, <2>3
  <2>5. routed' = [i \in Item |-> routed'[i]]
    BY <2>2
  <2> QED BY <2>3, <2>4, <2>5 DEF Bag
<1>8. /\ leaf' = [leaf EXCEPT !.item = 0, !.split = 0] /\ Leaf!Goes(s, "check")
      /\ buffers' = [buffers EXCEPT ![leaf.item] = Leaf!NoItems]
  BY <1>2 DEF Leaf!LastRound, Leaf!Close
<1>9. "check" \in Place /\ Leaf!NoItems \in Bag
  BY DEF Place, Leaf!NoItems, Bag
<1>10. /\ split' \in [Split -> SplitState]
       /\ split'[s].at = "check" /\ split'[s].hand = split[s].hand
       /\ \A r \in Split \ {s} : split'[r] = split[r]
  BY <1>8, <1>9, SplitGoes DEF LeafInv
<1>11. buffers' \in Seq(Bag) /\ Len(buffers') = Len(buffers)
  BY <1>4, <1>8, <1>9
<1>12. leaf'.item = 0 /\ leaf'.split = 0 /\ leaf'.rule = leaf.rule /\ leaf'.task = leaf.task
  BY <1>8 DEF LeafInv, LeafTypeOK
<1>13. LeafTypeOK'
  <2>1. leaf' \in [item : 0..Len(buffers'), split : 0..Len(buffers'),
                   rule : BOOLEAN, task : BOOLEAN]
    <3>1. 0 \in 0..Len(buffers')
      BY <1>4, <1>11
    <3>2. leaf \in [item : 0..Len(buffers'), split : 0..Len(buffers'),
                    rule : BOOLEAN, task : BOOLEAN]
      BY <1>11 DEF LeafInv, LeafTypeOK
    <3> QED BY <1>8, <3>1, <3>2
  <2> QED BY <1>1, <1>7, <1>10, <1>11, <2>1 DEF LeafInv, LeafTypeOK, SplitState
<1>14. Counted'
  <2>1. ASSUME NEW i \in Item
        PROVE  Leaf!Kept(i)' = Leaf!Kept(i)
    <3>1. Leaf!Kept(i)' = 0 + 0 + routed'[i]
      BY <1>12 DEF Leaf!Kept, Leaf!InBuffer
    <3>2. rest[i] \in Nat /\ routed[i] \in Nat
      BY <1>4 DEF Bag
    <3> QED BY <1>5, <1>7, <3>1, <3>2
  <2>2. \A r \in Split, i \in Item : split'[r].hand[i] = split[r].hand[i]
    BY <1>10
  <2> QED BY <1>1, <2>1, <2>2, CountStays DEF LeafInv
<1>15. SplitInv'
  <2>1. \A r \in Split \ {s} : ~Leaf!Working(r) /\ ~Holds(r)
    BY <1>1 DEF LeafInv, SplitInv, Leaf!Working, Leaf!At, Holds
  <2>2. \A i \in Item : split[s].hand[i] = 0
    BY DEF Leaf!LastRound, Leaf!Transferred, Leaf!IsEmpty
  <2> QED BY <1>2, <1>10, <1>12, <2>1, <2>2
          DEF LeafInv, SplitInv, Leaf!Working, Leaf!At, Holds
<1> QED BY <1>13, <1>14, <1>15 DEF LeafInv

LEMMA SplitIsChecked ==
  ASSUME LeafInv, NEW s \in Split, Leaf!Check(s)
  PROVE  LeafInv'
<1>1. split[s].at = "check" /\ UNCHANGED <<leaf, routed, items>>
  BY DEF Leaf!Check, Leaf!At
<1>2. \A r \in Split : ~Holds(r) /\ ~Leaf!At(r, "transfer")
  BY <1>1 DEF LeafInv, SplitInv, Leaf!Working, Leaf!At, Holds
<1>3. UNCHANGED buffers
  <2>1. CASE leaf.rule \/ leaf.split = 0
    BY <2>1 DEF Leaf!Check
  <2>2. CASE ~leaf.rule /\ leaf.split # 0
    <3>1. Leaf!IsEmpty(buffers[leaf.split])
      BY <1>2, <2>2 DEF LeafInv, SplitInv
    <3>2. buffers' = [buffers EXCEPT ![leaf.item] =
                        Leaf!Plus(buffers[leaf.item], buffers[leaf.split])]
      BY <2>2 DEF Leaf!Check, Leaf!Into
    <3>3. buffers \in Seq(Bag) /\ leaf.item \in 1..Len(buffers)
      BY <2>2 DEF LeafInv, SplitInv, LeafTypeOK
    <3>4. Leaf!Plus(buffers[leaf.item], buffers[leaf.split]) = buffers[leaf.item]
      <4>1. buffers[leaf.item] \in Bag
        BY <3>3
      <4> QED BY <3>1, <4>1 DEF Leaf!Plus, Leaf!IsEmpty, Bag
    <3> QED BY <3>2, <3>3, <3>4
  <2> QED BY <2>1, <2>2
<1>4. PICK place \in {"done", "failed"} : Leaf!Goes(s, place)
  BY DEF Leaf!Check
<1>5. place \in Place
  BY DEF Place
<1>6. /\ split'[s].at = place /\ split'[s].hand = split[s].hand
      /\ \A r \in Split \ {s} : split'[r] = split[r]
  BY <1>4, <1>5, SplitGoes DEF LeafInv
<1>7. LeafTypeOK' /\ Counted'
  BY <1>1, <1>3, <1>4, <1>5, OnlyGoes DEF LeafInv, LeafTypeOK
<1>8. SplitInv'
  BY <1>1, <1>2, <1>3, <1>6 DEF LeafInv, SplitInv, Leaf!Working, Leaf!At, Holds, Leaf!IsEmpty
<1> QED BY <1>7, <1>8 DEF LeafInv

LEMMA PageIsTaken ==
  ASSUME LeafInv, NEW s \in Split, Leaf!TakePage(s)
  PROVE  LeafInv'
<1>1. split[s].at = "transfer" /\ UNCHANGED <<leaf, routed, items>>
  BY DEF Leaf!TakePage, Leaf!At
<1>2. /\ leaf.split # 0 /\ split[s].buffer = leaf.split
      /\ leaf.item # 0 /\ leaf.item # leaf.split
  BY <1>1 DEF LeafInv, SplitInv, Holds
<1>3. PICK i \in Item :
        /\ buffers[leaf.split][i] > 0
        /\ buffers' = [buffers EXCEPT ![leaf.split][i] = @ - 1]
        /\ split' = [split EXCEPT ![s].hand = Leaf!Plus(@, Leaf!One(i))]
  BY <1>2 DEF Leaf!TakePage
<1>4. /\ buffers \in Seq(Bag) /\ leaf.item \in 1..Len(buffers) /\ leaf.split \in 1..Len(buffers)
      /\ split \in [Split -> SplitState]
  BY <1>2 DEF LeafInv, LeafTypeOK, SplitState
<1>5. buffers[leaf.split] \in Bag /\ split[s].hand \in Bag
  BY <1>4 DEF SplitState
<1>6. Leaf!Kept(i) = 1 /\ \A r \in Split : split[r].hand[i] = 0
  <2>1. buffers[leaf.split][i] \in Nat
    BY <1>5 DEF Bag
  <2>2. Leaf!Kept(i) # 0
    BY <1>2, <1>3, <2>1, KeptIsNat DEF LeafInv, Leaf!Kept, Leaf!InBuffer
  <2> QED BY <2>2 DEF LeafInv, Counted, Once, Nowhere
<1>7. /\ buffers' \in Seq(Bag) /\ Len(buffers') = Len(buffers)
      /\ buffers'[leaf.split] = [buffers[leaf.split] EXCEPT ![i] = @ - 1]
      /\ buffers'[leaf.item] = buffers[leaf.item]
  <2>1. [buffers[leaf.split] EXCEPT ![i] = @ - 1] \in Bag
    BY <1>3, <1>5 DEF Bag
  <2>2. buffers' = [buffers EXCEPT ![leaf.split] = [buffers[leaf.split] EXCEPT ![i] = @ - 1]]
    BY <1>3, <1>4
  <2> QED BY <1>2, <1>4, <2>1, <2>2
<1>8. /\ Leaf!Plus(split[s].hand, Leaf!One(i)) \in Bag
      /\ \A j \in Item : Leaf!Plus(split[s].hand, Leaf!One(i))[j] =
                           split[s].hand[j] + (IF j = i THEN 1 ELSE 0)
  BY <1>5 DEF Leaf!Plus, Leaf!One, Bag
<1>9. /\ split' \in [Split -> SplitState]
      /\ split'[s].hand = Leaf!Plus(split[s].hand, Leaf!One(i))
      /\ split'[s].at = "transfer" /\ split'[s].buffer = split[s].buffer
      /\ \A r \in Split \ {s} : split'[r] = split[r]
  BY <1>1, <1>3, <1>4, <1>8 DEF SplitState
<1>10. LeafTypeOK'
  BY <1>1, <1>7, <1>9 DEF LeafInv, LeafTypeOK, SplitState
<1>11. SplitInv'
  BY <1>1, <1>2, <1>9 DEF LeafInv, SplitInv, Leaf!Working, Leaf!At, Holds
<1>12. ASSUME NEW j \in Item \ {i}
       PROVE  Leaf!Kept(j)' = Leaf!Kept(j)
  <2>1. buffers'[leaf.split][j] = buffers[leaf.split][j]
    BY <1>5, <1>7 DEF Bag
  <2> QED BY <1>1, <1>7, <2>1 DEF Leaf!Kept, Leaf!InBuffer
<1>13. Leaf!Kept(i)' = 0
  <2>1. buffers'[leaf.split][i] = buffers[leaf.split][i] - 1
    BY <1>5, <1>7 DEF Bag
  <2>2. /\ Leaf!InBuffer(leaf.split, i)' = Leaf!InBuffer(leaf.split, i) - 1
        /\ Leaf!InBuffer(leaf.item, i)' = Leaf!InBuffer(leaf.item, i)
    BY <1>1, <1>2, <1>7, <2>1 DEF Leaf!InBuffer
  <2>3. Leaf!Kept(i)' = Leaf!InBuffer(leaf.item, i) + (Leaf!InBuffer(leaf.split, i) - 1) + routed[i]
    BY <1>1, <2>2 DEF Leaf!Kept
  <2> QED BY <1>6, <2>3, KeptIsNat DEF LeafInv, Leaf!Kept
<1>14. Counted'
  <2> SUFFICES ASSUME NEW j \in Item
               PROVE  (IF j \in items THEN Once(j) ELSE Nowhere(j))'
    BY DEF Counted
  <2>1. CASE j = i
    <3>1. i \in items
      BY <1>6 DEF LeafInv, Counted, Nowhere
    <3>2. split'[s].hand[i] = 1 /\ \A r \in Split \ {s} : split'[r].hand[i] = 0
      BY <1>6, <1>8, <1>9
    <3> QED BY <1>1, <1>13, <2>1, <3>1, <3>2 DEF Once
  <2>2. CASE j # i
    <3>1. \A r \in Split : split'[r].hand[j] = split[r].hand[j]
      <4>1. split[s].hand[j] \in Nat
        BY <1>5 DEF Bag
      <4> QED BY <1>8, <1>9, <2>2, <4>1
    <3>2. Leaf!Kept(j)' = Leaf!Kept(j)
      BY <1>12, <2>2
    <3>3. CASE j \in items
      <4>1. Once(j)
        BY <3>3 DEF LeafInv, Counted
      <4> QED BY <1>1, <3>1, <3>2, <3>3, <4>1 DEF Once
    <3>4. CASE j \notin items
      <4>1. Nowhere(j)
        BY <3>4 DEF LeafInv, Counted
      <4> QED BY <1>1, <3>1, <3>2, <3>4, <4>1 DEF Nowhere
    <3> QED BY <3>3, <3>4
  <2> QED BY <2>1, <2>2
<1> QED BY <1>10, <1>11, <1>14 DEF LeafInv

LEMMA PageIsRouted ==
  ASSUME LeafInv, NEW s \in Split, Leaf!RoutePage(s)
  PROVE  LeafInv'
<1>1. split[s].at = "transfer" /\ UNCHANGED <<leaf, buffers, items>>
  BY DEF Leaf!RoutePage, Leaf!At
<1>2. PICK i \in Item :
        /\ split[s].hand[i] > 0
        /\ routed' = Leaf!Plus(routed, Leaf!One(i))
        /\ split' = [split EXCEPT ![s].hand[i] = @ - 1, ![s].rows = @ + 1]
  BY DEF Leaf!RoutePage
<1>3. split \in [Split -> SplitState] /\ split[s].hand \in Bag /\ routed \in Bag
  BY DEF LeafInv, LeafTypeOK, SplitState
<1>4. /\ Leaf!Kept(i) = 0 /\ split[s].hand[i] = 1
      /\ \A r \in Split \ {s} : split[r].hand[i] = 0
  <2>1. split[s].hand[i] # 0
    BY <1>2, <1>3 DEF Bag
  <2> QED BY <2>1 DEF LeafInv, Counted, Once, Nowhere
<1>5. i \in items
  BY <1>4 DEF LeafInv, Counted, Nowhere
<1>6. /\ routed' \in Bag
      /\ \A j \in Item : routed'[j] = routed[j] + (IF j = i THEN 1 ELSE 0)
  BY <1>2, <1>3 DEF Leaf!Plus, Leaf!One, Bag
<1>7. /\ split' \in [Split -> SplitState]
      /\ split'[s].hand[i] = 0 /\ \A j \in Item \ {i} : split'[s].hand[j] = split[s].hand[j]
      /\ split'[s].at = "transfer" /\ split'[s].buffer = split[s].buffer
      /\ \A r \in Split \ {s} : split'[r] = split[r]
  <2> DEFINE hand == [split[s].hand EXCEPT ![i] = @ - 1]
             rows == split[s].rows + 1
             state == [split[s] EXCEPT !.hand = hand, !.rows = rows]
  <2>1. hand \in Bag /\ hand[i] = 0 /\ \A j \in Item \ {i} : hand[j] = split[s].hand[j]
    BY <1>3, <1>4 DEF Bag
  <2>2. split' = [split EXCEPT ![s] = state]
    BY <1>2, <1>3
  <2>4. rows \in Nat /\ split[s] \in SplitState
    BY <1>3 DEF SplitState
  <2> HIDE DEF hand, rows
  <2>3. /\ state \in SplitState /\ state.hand = hand
        /\ state.at = split[s].at /\ state.buffer = split[s].buffer
    BY <2>1, <2>4 DEF SplitState
  <2> HIDE DEF state
  <2> QED BY <1>1, <1>3, <2>1, <2>2, <2>3
<1>8. LeafTypeOK'
  BY <1>1, <1>6, <1>7 DEF LeafInv, LeafTypeOK, SplitState
<1>9. SplitInv'
  BY <1>1, <1>4, <1>7 DEF LeafInv, SplitInv, Leaf!Working, Leaf!At, Holds, Leaf!IsEmpty
<1>10. Counted'
  <2> SUFFICES ASSUME NEW j \in Item
               PROVE  (IF j \in items THEN Once(j) ELSE Nowhere(j))'
    BY DEF Counted
  <2>1. CASE j = i
    <3>1. Leaf!Kept(i)' = 1
      <4>1. routed'[i] = routed[i] + 1
        BY <1>6
      <4>2. Leaf!Kept(i)' =
              Leaf!InBuffer(leaf.item, i) + Leaf!InBuffer(leaf.split, i) + (routed[i] + 1)
        BY <1>1, <4>1 DEF Leaf!Kept, Leaf!InBuffer
      <4> QED BY <1>4, <4>2, KeptIsNat DEF LeafInv, Leaf!Kept
    <3> QED BY <1>1, <1>4, <1>5, <1>7, <2>1, <3>1 DEF Once
  <2>2. CASE j # i
    <3>1. \A r \in Split : split'[r].hand[j] = split[r].hand[j]
      BY <1>7, <2>2
    <3>2. Leaf!Kept(j)' = Leaf!Kept(j)
      <4>1. routed'[j] = routed[j]
        BY <1>3, <1>6, <2>2 DEF Bag
      <4> QED BY <1>1, <4>1 DEF Leaf!Kept, Leaf!InBuffer
    <3>3. CASE j \in items
      <4>1. Once(j)
        BY <3>3 DEF LeafInv, Counted
      <4> QED BY <1>1, <3>1, <3>2, <3>3, <4>1 DEF Once
    <3>4. CASE j \notin items
      <4>1. Nowhere(j)
        BY <3>4 DEF LeafInv, Counted
      <4> QED BY <1>1, <3>1, <3>2, <3>4, <4>1 DEF Nowhere
    <3> QED BY <3>3, <3>4
  <2> QED BY <2>1, <2>2
<1> QED BY <1>8, <1>9, <1>10 DEF LeafInv

(* The bags a new item makes one more in.                                    *)
LEMMA OneMoreItem ==
  ASSUME NEW B \in Bag, NEW i \in Item
  PROVE  /\ Leaf!Plus(B, Leaf!One(i)) \in Bag
         /\ \A j \in Item : Leaf!Plus(B, Leaf!One(i))[j] = B[j] + (IF j = i THEN 1 ELSE 0)
BY DEF Leaf!Plus, Leaf!One, Bag

LEMMA ItemIsAdded ==
  ASSUME LeafInv, NEW i \in Item, Leaf!Add(i)
  PROVE  LeafInv'
<1>1. i \notin items /\ items' = items \cup {i}
  BY DEF Leaf!Add
<1>2. Leaf!Kept(i) = 0 /\ \A s \in Split : split[s].hand[i] = 0
  BY <1>1 DEF LeafInv, Counted, Nowhere
<1>3. split \in [Split -> SplitState] /\ routed \in Bag /\ buffers \in Seq(Bag)
  BY DEF LeafInv, LeafTypeOK, SplitState
<1>4. ASSUME \A j \in Item : Leaf!Kept(j)' = Leaf!Kept(j) + (IF j = i THEN 1 ELSE 0),
             \A s \in Split, j \in Item : split'[s].hand[j] = split[s].hand[j]
      PROVE  Counted'
  <2> SUFFICES ASSUME NEW j \in Item
               PROVE  (IF j \in items THEN Once(j) ELSE Nowhere(j))'
    BY DEF Counted
  <2>1. CASE j = i
    BY <1>1, <1>2, <1>4, <2>1 DEF Once
  <2>2. CASE j # i
    <3>1. Leaf!Kept(j)' = Leaf!Kept(j)
      BY <1>4, <2>2, KeptIsNat DEF LeafInv, Leaf!Kept
    <3>2. CASE j \in items
      <4>1. Once(j)
        BY <3>2 DEF LeafInv, Counted
      <4> QED BY <1>1, <1>4, <3>1, <3>2, <4>1 DEF Once
    <3>3. CASE j \notin items
      <4>1. Nowhere(j)
        BY <3>3 DEF LeafInv, Counted
      <4> QED BY <1>1, <1>4, <2>2, <3>1, <3>3, <4>1 DEF Nowhere
    <3> QED BY <3>2, <3>3
  <2> QED BY <2>1, <2>2
<1>5. CASE leaf.item = 0
  <2>1. routed' = Leaf!Plus(routed, Leaf!One(i)) /\ UNCHANGED <<leaf, buffers, split>>
    BY <1>5 DEF Leaf!Add
  <2>2. routed' \in Bag /\ \A j \in Item : routed'[j] = routed[j] + (IF j = i THEN 1 ELSE 0)
    BY <1>3, <2>1, OneMoreItem
  <2>3. LeafTypeOK'
    BY <1>1, <2>1, <2>2 DEF LeafInv, LeafTypeOK
  <2>4. SplitInv'
    BY <2>1 DEF LeafInv, SplitInv, Leaf!Working, Leaf!At, Holds, Leaf!IsEmpty
  <2>5. ASSUME NEW j \in Item
        PROVE  Leaf!Kept(j)' = Leaf!Kept(j) + (IF j = i THEN 1 ELSE 0)
    <3>1. Leaf!Kept(j)' = Leaf!InBuffer(leaf.item, j) + Leaf!InBuffer(leaf.split, j)
                          + (routed[j] + (IF j = i THEN 1 ELSE 0))
      BY <2>1, <2>2 DEF Leaf!Kept, Leaf!InBuffer
    <3> QED BY <3>1, KeptIsNat DEF LeafInv, Leaf!Kept
  <2>6. Counted'
    BY <1>4, <2>1, <2>5
  <2> QED BY <2>3, <2>4, <2>6 DEF LeafInv
<1>6. CASE leaf.item # 0
  <2> DEFINE grown == Leaf!Plus(buffers[leaf.item], Leaf!One(i))
  <2>1. leaf.item \in 1..Len(buffers) /\ leaf.split \in 0..Len(buffers)
    BY <1>6 DEF LeafInv, LeafTypeOK
  <2>2. buffers' = [buffers EXCEPT ![leaf.item] = grown] /\ routed' = routed
    BY <1>6 DEF Leaf!Add, Leaf!Into
  <2>3. /\ grown \in Bag
        /\ \A j \in Item : grown[j] = buffers[leaf.item][j] + (IF j = i THEN 1 ELSE 0)
    BY <1>3, <2>1, OneMoreItem
  <2> HIDE DEF grown
  <2>4. /\ buffers' \in Seq(Bag) /\ Len(buffers') = Len(buffers)
        /\ buffers'[leaf.item] = grown
        /\ leaf.split # 0 /\ leaf.split # leaf.item => buffers'[leaf.split] = buffers[leaf.split]
    BY <1>3, <2>1, <2>2, <2>3
  <2>5. /\ leaf' \in [item : {leaf.item}, split : {leaf.split}, rule : {leaf.rule},
                      task : BOOLEAN]
        /\ split' = split \/ \E s \in Split : Leaf!At(s, "idle") /\ Leaf!Goes(s, "asked")
    <3>1. leaf' = leaf \/ leaf' = [leaf EXCEPT !.task = TRUE]
      BY <1>6 DEF Leaf!Add
    <3>2. leaf \in [item : {leaf.item}, split : {leaf.split}, rule : {leaf.rule},
                    task : BOOLEAN]
      BY DEF LeafInv, LeafTypeOK
    <3>3. split' = split \/ \E s \in Split : Leaf!At(s, "idle") /\ Leaf!Goes(s, "asked")
      BY <1>6 DEF Leaf!Add
    <3> QED BY <3>1, <3>2, <3>3
  <2>6. leaf'.item = leaf.item /\ leaf'.split = leaf.split /\ leaf'.rule = leaf.rule
    BY <2>5
  <2>7. /\ split' \in [Split -> SplitState]
        /\ \A s \in Split : /\ split'[s].hand = split[s].hand
                            /\ \/ split'[s] = split[s]
                               \/ split[s].at = "idle" /\ split'[s].at = "asked"
    <3>1. "asked" \in Place
      BY DEF Place
    <3>2. CASE split' = split
      BY <1>3, <3>2
    <3>3. CASE \E s \in Split : Leaf!At(s, "idle") /\ Leaf!Goes(s, "asked")
      <4>1. PICK s \in Split : Leaf!At(s, "idle") /\ Leaf!Goes(s, "asked")
        BY <3>3
      <4>2. /\ split' \in [Split -> SplitState]
            /\ split'[s].at = "asked" /\ split'[s].hand = split[s].hand
            /\ \A r \in Split \ {s} : split'[r] = split[r]
        BY <3>1, <4>1, SplitGoes DEF LeafInv
      <4> QED BY <4>1, <4>2 DEF Leaf!At
    <3> QED BY <2>5, <3>2, <3>3
  <2>8. LeafTypeOK'
    BY <1>1, <1>3, <2>2, <2>4, <2>5, <2>7 DEF LeafInv, LeafTypeOK, SplitState
  <2>9. SplitInv'
    <3>1. \A s \in Split : /\ Leaf!Working(s)' <=> Leaf!Working(s)
                           /\ Holds(s)' <=> Holds(s)
                           /\ Leaf!At(s, "transfer")' <=> Leaf!At(s, "transfer")
                           /\ Holds(s) => split'[s].buffer = split[s].buffer
      BY <2>7 DEF Leaf!Working, Holds, Leaf!At
    <3>2. leaf.split # 0 => (Leaf!IsEmpty(buffers[leaf.split])' <=> Leaf!IsEmpty(buffers[leaf.split]))
      BY <2>4, <2>6 DEF LeafInv, SplitInv, Leaf!IsEmpty
    <3> QED BY <2>6, <2>7, <3>1, <3>2 DEF LeafInv, SplitInv
  <2>10. ASSUME NEW j \in Item
         PROVE  Leaf!Kept(j)' = Leaf!Kept(j) + (IF j = i THEN 1 ELSE 0)
    <3>1. Leaf!InBuffer(leaf.item, j)' =
            Leaf!InBuffer(leaf.item, j) + (IF j = i THEN 1 ELSE 0)
      BY <1>6, <2>3, <2>4, <2>6 DEF Leaf!InBuffer
    <3>2. Leaf!InBuffer(leaf.split, j)' = Leaf!InBuffer(leaf.split, j)
      BY <2>4, <2>6 DEF Leaf!InBuffer, LeafInv, SplitInv
    <3>3. Leaf!Kept(j)' = (Leaf!InBuffer(leaf.item, j) + (IF j = i THEN 1 ELSE 0))
                          + Leaf!InBuffer(leaf.split, j) + routed[j]
      BY <2>2, <3>1, <3>2 DEF Leaf!Kept
    <3> QED BY <3>3, KeptIsNat DEF LeafInv, Leaf!Kept
  <2>11. Counted'
    BY <1>4, <2>7, <2>10
  <2> QED BY <2>8, <2>9, <2>11 DEF LeafInv
<1> QED BY <1>5, <1>6

(* However additions and splits of a node come, one split at a time, each    *)
(* item added is in the node's buffers, in the hands of its split or in a    *)
(* child, and once; and when a split ends, a node with a rule is closed      *)
(* (ClassificationTreeNode.scala l.78-86,457-627).                           *)
THEOREM SplitLosesNothing ==
  ASSUME OneBlock
  PROVE  Leaf!Spec /\ [](scene = "split") => []SplitKeepsItems
<1>1. Leaf!Init => LeafInv
  BY LeafInitially
<1>2. LeafInv /\ [Leaf!Next]_(Leaf!vars) => LeafInv'
  <2> SUFFICES ASSUME LeafInv, [Leaf!Next]_(Leaf!vars)
               PROVE  LeafInv'
    OBVIOUS
  <2>1. ASSUME NEW i \in Item, Leaf!Add(i)
        PROVE  LeafInv'
    BY <2>1, ItemIsAdded
  <2>2. ASSUME NEW s \in Split, Leaf!Ask(s)
        PROVE  LeafInv'
    BY <2>2, SplitIsAsked
  <2>3. ASSUME NEW s \in Split, Leaf!Step(s)
        PROVE  LeafInv'
    <3>1. ~Leaf!NoRule(s)
      BY DEF LeafInv, LeafTypeOK, Place, Leaf!NoRule, Leaf!At
    <3> QED
      BY <2>3, <3>1, BufferIsPutAside, RuleIsMade, RuleIsSet, PageIsTaken, PageIsRouted,
         BuffersAreTransferred, RestIsMoved, SplitIsChecked DEF Leaf!Step
  <2>4. ASSUME NEW s \in Split, Leaf!Stop(s)
        PROVE  FALSE
    BY <2>4 DEF Leaf!Stop
  <2>5. CASE UNCHANGED Leaf!vars
    <3>1. UNCHANGED <<leaf, buffers, routed, split, items>>
      BY <2>5 DEF Leaf!vars
    <3>2. LeafTypeOK' /\ SplitInv'
      BY <3>1 DEF LeafInv, LeafTypeOK, SplitInv, Leaf!Working, Leaf!At, Holds, Leaf!IsEmpty
    <3>3. \A i \in Item : Leaf!Kept(i)' = Leaf!Kept(i)
      BY <3>1 DEF Leaf!Kept, Leaf!InBuffer
    <3> QED BY <3>1, <3>2, <3>3, CountStays DEF LeafInv
  <2> QED BY <2>1, <2>2, <2>3, <2>4, <2>5 DEF Leaf!Next
<1>3. LeafInv => Leaf!NothingLost /\ Leaf!ClosedWhenSplit
  <2> SUFFICES ASSUME LeafInv
               PROVE  Leaf!NothingLost /\ Leaf!ClosedWhenSplit
    OBVIOUS
  <2>1. \A s \in Split, i \in Item :
          /\ split[s].hand[i] \in Nat
          /\ Leaf!Carries(s, i) <=> split[s].hand[i] # 0
    <3> SUFFICES ASSUME NEW s \in Split, NEW i \in Item
                 PROVE  /\ split[s].hand[i] \in Nat
                        /\ Leaf!Carries(s, i) <=> split[s].hand[i] # 0
      OBVIOUS
    <3>1. split[s].hand[i] \in Nat
      BY DEF LeafInv, LeafTypeOK, Bag
    <3>2. split[s].hand[i] # 0 => Leaf!Working(s)
      BY DEF LeafInv, SplitInv, Leaf!Working, Leaf!At
    <3> QED BY <3>1, <3>2 DEF Leaf!Carries
  <2>2. Leaf!NothingLost
    <3> SUFFICES ASSUME NEW i \in items
                 PROVE  \/ Leaf!Kept(i) = 1 /\ \A s \in Split : ~Leaf!Carries(s, i)
                        \/ /\ Leaf!Kept(i) = 0
                           /\ \E s \in Split : /\ split[s].hand[i] = 1
                                               /\ \A r \in Split : Leaf!Carries(r, i) <=> r = s
      BY DEF Leaf!NothingLost
    <3>1. i \in Item /\ Once(i)
      BY DEF LeafInv, LeafTypeOK, Counted
    <3> QED BY <2>1, <3>1 DEF Once
  <2>3. Leaf!ClosedWhenSplit
    BY DEF LeafInv, SplitInv, Leaf!ClosedWhenSplit, Leaf!Working, Leaf!At
  <2> QED BY <2>2, <2>3
<1>4. LeafInv /\ scene = "split" => SplitKeepsItems
  BY <1>3 DEF SplitKeepsItems
<1> QED BY <1>1, <1>2, <1>4, PTL DEF Leaf!Spec

(* Splits that overlap, find no rule or stop: one more place to be at.       *)
TornState == [at : Place \cup {"no rule"}, buffer : Nat, hand : Bag, rows : Nat]

TornTypeOK ==
  /\ leaf \in [item : 0..Len(buffers), split : 0..Len(buffers),
               rule : BOOLEAN, task : BOOLEAN]
  /\ buffers \in Seq(Bag) /\ routed \in Bag
  /\ split \in [Split -> TornState]
  /\ items \subseteq Item

(* However they overlap, one split alone holds the buffer put aside, and     *)
(* only once: it stays named by the node until the node is closed.  A hand   *)
(* has pages during the transfer, or because its split stopped.              *)
HoldsAside(s) == split[s].at \in {"aside", "rule", "transfer", "no rule"}

TornSplitInv ==
  /\ \A s \in Split : HoldsAside(s) =>
       leaf.split # 0 /\ leaf.item # 0 /\ split[s].buffer = leaf.split
  /\ \A r, s \in Split : HoldsAside(r) /\ HoldsAside(s) => r = s
  /\ \A s \in Split : split[s].at = "transfer" => leaf.rule
  /\ leaf.item = 0 => leaf.rule
  /\ \A s \in Split, i \in Item :
       split[s].hand[i] # 0 => split[s].at \in {"transfer", "failed"}

Somewhere(i) ==
  \/ leaf.item # 0 /\ buffers[leaf.item][i] # 0
  \/ leaf.split # 0 /\ buffers[leaf.split][i] # 0
  \/ routed[i] # 0
  \/ \E s \in Split : split[s].hand[i] # 0

TornInv == TornTypeOK /\ TornSplitInv /\ \A i \in items : Somewhere(i)

(* What the node collected since its buffer was put aside is no more than    *)
(* one block, as it may be after copies.                                     *)
RestIsBlock == leaf.item # 0 => Torn!Size(buffers[leaf.item]) <= BlockSize

LEMMA TornInitially == ASSUME Torn!Init PROVE TornInv
<1>1. Torn!NoItems \in Bag /\ \A i \in Item : Torn!NoItems[i] = 0
  BY DEF Torn!NoItems, Bag
<1>2. /\ leaf = [item |-> 1, split |-> 0, rule |-> FALSE, task |-> FALSE]
      /\ buffers = <<Torn!NoItems>> /\ routed = Torn!NoItems /\ items = {}
      /\ split = [s \in Split |->
                    [at |-> "idle", buffer |-> 0, hand |-> Torn!NoItems, rows |-> 0]]
  BY DEF Torn!Init
<1>3. buffers \in Seq(Bag) /\ Len(buffers) = 1
  BY <1>1, <1>2
<1>4. TornTypeOK
  BY <1>1, <1>2, <1>3 DEF TornTypeOK, TornState, Place
<1>5. \A s \in Split : split[s].at = "idle" /\ split[s].hand = Torn!NoItems
  BY <1>2
<1>6. TornSplitInv
  <2>1. \A s \in Split : ~HoldsAside(s) /\ split[s].at # "transfer"
    BY <1>5 DEF HoldsAside
  <2>2. \A s \in Split, i \in Item : split[s].hand[i] = 0
    BY <1>1, <1>5
  <2>3. leaf.item # 0
    BY <1>2
  <2> QED BY <2>1, <2>2, <2>3 DEF TornSplitInv
<1> QED BY <1>2, <1>4, <1>6 DEF TornInv

LEMMA TornGoes ==
  ASSUME TornTypeOK, NEW s \in Split, NEW place \in Place \cup {"no rule"}, Torn!Goes(s, place)
  PROVE  /\ split' \in [Split -> TornState]
         /\ split'[s].at = place /\ split'[s].buffer = split[s].buffer
         /\ split'[s].hand = split[s].hand
         /\ \A r \in Split \ {s} : split'[r] = split[r]
<1>1. split \in [Split -> TornState]
  BY DEF TornTypeOK
<1> QED BY <1>1 DEF Torn!Goes, TornState

(* A step that moves a split alone.                                          *)
LEMMA TornMoves ==
  ASSUME TornInv, NEW s \in Split, NEW place \in Place \cup {"no rule"}, Torn!Goes(s, place),
         leaf' \in [item : {leaf.item}, split : {leaf.split}, rule : BOOLEAN, task : BOOLEAN],
         leaf.rule => leaf'.rule,
         UNCHANGED <<buffers, routed, items>>,
         place \in {"aside", "rule", "transfer", "no rule"} => HoldsAside(s),
         place = "transfer" => leaf'.rule,
         place = "failed" \/ split[s].at \notin {"transfer", "failed"}
  PROVE  TornInv'
<1>1. leaf'.item = leaf.item /\ leaf'.split = leaf.split
  OBVIOUS
<1>2. /\ split' \in [Split -> TornState]
      /\ split'[s].at = place /\ split'[s].buffer = split[s].buffer
      /\ split'[s].hand = split[s].hand
      /\ \A r \in Split \ {s} : split'[r] = split[r]
  BY TornGoes DEF TornInv
<1>3. TornTypeOK'
  BY <1>1, <1>2 DEF TornInv, TornTypeOK
<1>4. \A r \in Split : HoldsAside(r)' => HoldsAside(r)
  BY <1>2 DEF HoldsAside
<1>5. TornSplitInv'
  <2>1. \A r \in Split : HoldsAside(r)' =>
          leaf'.split # 0 /\ leaf'.item # 0 /\ split'[r].buffer = leaf'.split
    BY <1>1, <1>2, <1>4 DEF TornInv, TornSplitInv
  <2>2. \A q, r \in Split : HoldsAside(q)' /\ HoldsAside(r)' => q = r
    BY <1>4 DEF TornInv, TornSplitInv
  <2>3. \A r \in Split : split'[r].at = "transfer" => leaf'.rule
    BY <1>2 DEF TornInv, TornSplitInv
  <2>4. leaf'.item = 0 => leaf'.rule
    BY <1>1 DEF TornInv, TornSplitInv
  <2>5. ASSUME NEW r \in Split, NEW i \in Item, split'[r].hand[i] # 0
        PROVE  split'[r].at \in {"transfer", "failed"}
    <3>1. split[r].hand[i] # 0
      BY <1>2, <2>5
    <3>2. split[r].at \in {"transfer", "failed"}
      BY <3>1 DEF TornInv, TornSplitInv
    <3>3. CASE r = s
      BY <1>2, <3>2, <3>3
    <3>4. CASE r # s
      BY <1>2, <3>2, <3>4
    <3> QED BY <3>3, <3>4
  <2> QED BY <2>1, <2>2, <2>3, <2>4, <2>5 DEF TornSplitInv
<1>6. ASSUME NEW i \in items
      PROVE  Somewhere(i)'
  <2>1. Somewhere(i)
    BY DEF TornInv
  <2>2. \A r \in Split : split'[r].hand = split[r].hand
    BY <1>2
  <2> QED BY <1>1, <2>1, <2>2 DEF Somewhere
<1> QED BY <1>3, <1>5, <1>6 DEF TornInv

LEMMA TornSteps ==
  ASSUME TornInv, NEW s \in Split
  PROVE  /\ Torn!Ask(s) => TornInv'
         /\ Torn!MakeRule(s) => TornInv'
         /\ Torn!SetRule(s) => TornInv'
         /\ Torn!Stop(s) => TornInv'
<1>1. /\ {"asked", "failed", "rule", "no rule", "transfer"} \subseteq Place \cup {"no rule"}
      /\ leaf \in [item : {leaf.item}, split : {leaf.split}, rule : BOOLEAN, task : BOOLEAN]
  BY DEF Place, TornInv, TornTypeOK
<1>2. CASE Torn!Ask(s)
  <2>1. /\ split[s].at = "idle" /\ Torn!Goes(s, "asked")
        /\ UNCHANGED <<leaf, buffers, routed, items>>
    BY <1>2 DEF Torn!Ask, Torn!At
  <2> QED BY <1>1, <2>1, TornMoves
<1>3. CASE Torn!MakeRule(s)
  <2>1. /\ split[s].at = "aside" /\ HoldsAside(s)
        /\ UNCHANGED <<leaf, buffers, routed, items>>
        /\ Torn!Goes(s, "failed") \/ Torn!Goes(s, "rule") \/ Torn!Goes(s, "no rule")
    BY <1>3 DEF Torn!MakeRule, Torn!At, HoldsAside
  <2>2. CASE Torn!Goes(s, "failed")
    BY <1>1, <2>1, <2>2, TornMoves
  <2>3. CASE Torn!Goes(s, "rule")
    BY <1>1, <2>1, <2>3, TornMoves
  <2>4. CASE Torn!Goes(s, "no rule")
    BY <1>1, <2>1, <2>4, TornMoves
  <2> QED BY <2>1, <2>2, <2>3, <2>4
<1>4. CASE Torn!SetRule(s)
  <2>1. /\ split[s].at = "rule" /\ HoldsAside(s) /\ Torn!Goes(s, "transfer")
        /\ leaf' = [leaf EXCEPT !.rule = TRUE]
        /\ UNCHANGED <<buffers, routed, items>>
    BY <1>4 DEF Torn!SetRule, Torn!At, HoldsAside
  <2>2. /\ leaf' \in [item : {leaf.item}, split : {leaf.split}, rule : BOOLEAN, task : BOOLEAN]
        /\ leaf'.rule
    BY <1>1, <2>1
  <2> QED BY <1>1, <2>1, <2>2, TornMoves
<1>5. CASE Torn!Stop(s)
  <2>1. Torn!Goes(s, "failed") /\ UNCHANGED <<leaf, buffers, routed, items>>
    BY <1>5 DEF Torn!Stop
  <2> QED BY <1>1, <2>1, TornMoves
<1> QED BY <1>2, <1>3, <1>4, <1>5

(* The buffer in use is put aside and a new one made: by the first, which    *)
(* holds it from now on, or by who holds the one put aside, which is empty.  *)
LEMMA TornPutsAside ==
  ASSUME TornInv, NEW s \in Split, leaf.item # 0,
         \A r \in Split \ {s} : ~HoldsAside(r),
         leaf.split # 0 => \A i \in Item : buffers[leaf.split][i] = 0,
         leaf' = [leaf EXCEPT !.item = Len(buffers) + 1, !.split = leaf.item],
         buffers' = Append(buffers, Torn!NoItems),
         split' \in [Split -> TornState],
         split'[s].at \in {"aside", "transfer"}, split'[s].at = "transfer" => leaf.rule,
         split'[s].buffer = leaf.item, split'[s].hand = split[s].hand,
         \A i \in Item : split[s].hand[i] = 0,
         \A r \in Split \ {s} : split'[r] = split[r],
         UNCHANGED <<routed, items>>
  PROVE  TornInv'
<1>1. Torn!NoItems \in Bag
  BY DEF Torn!NoItems, Bag
<1>2. /\ buffers \in Seq(Bag) /\ leaf.item \in 1..Len(buffers)
      /\ leaf.split \in 0..Len(buffers)
  BY DEF TornInv, TornTypeOK
<1>3. /\ buffers' \in Seq(Bag) /\ Len(buffers') = Len(buffers) + 1
      /\ \A k \in 1..Len(buffers) : buffers'[k] = buffers[k]
  BY <1>1, <1>2
<1>4. /\ leaf'.item = Len(buffers) + 1 /\ leaf'.split = leaf.item /\ leaf'.rule = leaf.rule
      /\ leaf' \in [item : 0..(Len(buffers) + 1), split : 0..(Len(buffers) + 1),
                    rule : BOOLEAN, task : BOOLEAN]
      /\ leaf'.item # 0
  <2>1. /\ leaf.item \in 0..(Len(buffers) + 1) /\ Len(buffers) + 1 \in 0..(Len(buffers) + 1)
        /\ Len(buffers) + 1 # 0
    BY <1>2
  <2>2. /\ leaf' = [leaf EXCEPT !.item = Len(buffers) + 1, !.split = leaf.item]
        /\ leaf \in [item : 0..Len(buffers), split : 0..Len(buffers),
                     rule : BOOLEAN, task : BOOLEAN]
    BY DEF TornInv, TornTypeOK
  <2> QED BY <2>1, <2>2
<1>5. TornTypeOK'
  BY <1>3, <1>4 DEF TornInv, TornTypeOK
<1>6. \A r \in Split : HoldsAside(r)' => r = s
  BY DEF HoldsAside
<1>7. TornSplitInv'
  <2>1. \A r \in Split : HoldsAside(r)' =>
          leaf'.split # 0 /\ leaf'.item # 0 /\ split'[r].buffer = leaf'.split
    BY <1>4, <1>6
  <2>2. \A q, r \in Split : HoldsAside(q)' /\ HoldsAside(r)' => q = r
    BY <1>6
  <2>3. \A r \in Split : split'[r].at = "transfer" => leaf'.rule
    BY <1>4 DEF TornInv, TornSplitInv
  <2>4. leaf'.item = 0 => leaf'.rule
    BY <1>4
  <2>5. \A r \in Split, i \in Item :
          split'[r].hand[i] # 0 => split'[r].at \in {"transfer", "failed"}
    BY DEF TornInv, TornSplitInv
  <2> QED BY <2>1, <2>2, <2>3, <2>4, <2>5 DEF TornSplitInv
<1>8. ASSUME NEW i \in items
      PROVE  Somewhere(i)'
  <2>1. Somewhere(i) /\ i \in Item
    BY DEF TornInv, TornTypeOK
  <2>2. CASE buffers[leaf.item][i] # 0
    BY <1>2, <1>3, <1>4, <2>2 DEF Somewhere
  <2>3. CASE routed[i] # 0
    BY <2>3 DEF Somewhere
  <2>4. ASSUME NEW r \in Split, split[r].hand[i] # 0
        PROVE  Somewhere(i)'
    <3>1. split'[r].hand = split[r].hand
      OBVIOUS
    <3> QED BY <2>4, <3>1 DEF Somewhere
  <2> QED BY <2>1, <2>2, <2>3, <2>4 DEF Somewhere
<1> QED BY <1>5, <1>7, <1>8 DEF TornInv

LEMMA TornBuffersMove ==
  ASSUME TornInv, NEW s \in Split
  PROVE  /\ Torn!PutAside(s) => TornInv'
         /\ Torn!TransferBuffers(s) => TornInv'
<1>1. /\ {"aside", "check", "transfer"} \subseteq Place
      /\ leaf \in [item : {leaf.item}, split : {leaf.split}, rule : BOOLEAN, task : BOOLEAN]
      /\ split \in [Split -> TornState]
      /\ leaf.item \in 0..Len(buffers)
  BY DEF Place, TornInv, TornTypeOK
<1>2. CASE Torn!PutAside(s)
  <2>1. split[s].at = "asked" /\ UNCHANGED <<routed, items>>
    BY <1>2 DEF Torn!PutAside, Torn!At
  <2>2. CASE leaf.split = 0 /\ leaf.item # 0
    <3>1. /\ leaf' = [leaf EXCEPT !.item = Len(buffers) + 1, !.split = leaf.item]
          /\ buffers' = Append(buffers, Torn!NoItems)
          /\ split' = [split EXCEPT ![s].at = "aside", ![s].buffer = leaf.item]
      BY <1>2, <2>2 DEF Torn!PutAside
    <3>2. /\ split' \in [Split -> TornState] /\ split'[s].at = "aside"
          /\ split'[s].buffer = leaf.item /\ split'[s].hand = split[s].hand
          /\ \A r \in Split \ {s} : split'[r] = split[r]
      <4>1. leaf.item \in Nat
        BY <1>1
      <4> QED BY <1>1, <3>1, <4>1 DEF TornState
    <3>3. \A r \in Split : ~HoldsAside(r)
      BY <2>2 DEF TornInv, TornSplitInv
    <3>4. \A i \in Item : split[s].hand[i] = 0
      BY <2>1 DEF TornInv, TornSplitInv
    <3> QED BY <2>1, <2>2, <3>1, <3>2, <3>3, <3>4, TornPutsAside
  <2>3. CASE ~(leaf.split = 0 /\ leaf.item # 0)
    <3>1. Torn!Goes(s, "check") /\ UNCHANGED <<leaf, buffers>>
      BY <1>2, <2>3 DEF Torn!PutAside
    <3> QED BY <1>1, <2>1, <3>1, TornMoves
  <2> QED BY <2>2, <2>3
<1>3. CASE Torn!TransferBuffers(s)
  <2>1. /\ split[s].at = "transfer" /\ UNCHANGED <<routed, items>>
        /\ \A i \in Item : buffers[split[s].buffer][i] = 0 /\ split[s].hand[i] = 0
    BY <1>3 DEF Torn!TransferBuffers, Torn!Transferred, Torn!At, Torn!IsEmpty
  <2>2. HoldsAside(s)
    BY <2>1 DEF HoldsAside
  <2>3. /\ leaf.item # 0 /\ split[s].buffer = leaf.split /\ leaf.rule
        /\ \A r \in Split \ {s} : ~HoldsAside(r)
    BY <2>1, <2>2 DEF TornInv, TornSplitInv
  <2>4. /\ leaf' = [leaf EXCEPT !.item = Len(buffers) + 1, !.split = leaf.item]
        /\ buffers' = Append(buffers, Torn!NoItems)
        /\ split' = [split EXCEPT ![s].buffer = leaf.item, ![s].rows = 0]
    BY <1>3, <2>3 DEF Torn!TransferBuffers
  <2>5. /\ split' \in [Split -> TornState] /\ split'[s].at = "transfer"
        /\ split'[s].buffer = leaf.item /\ split'[s].hand = split[s].hand
        /\ \A r \in Split \ {s} : split'[r] = split[r]
    <3>1. leaf.item \in Nat
      BY <1>1
    <3> QED BY <1>1, <2>1, <2>4, <3>1 DEF TornState
  <2> QED BY <2>1, <2>3, <2>4, <2>5, TornPutsAside
<1> QED BY <1>2, <1>3

(* More in a buffer is not less in any.                                      *)
LEMMA MoreIsNotLess ==
  ASSUME TornTypeOK, NEW k \in 1..Len(buffers), NEW B \in Bag, buffers' = Torn!Into(k, B)
  PROVE  /\ buffers' \in Seq(Bag) /\ Len(buffers') = Len(buffers)
         /\ \A m \in 1..Len(buffers), i \in Item : buffers[m][i] # 0 => buffers'[m][i] # 0
         /\ \A i \in Item : B[i] # 0 => buffers'[k][i] # 0
<1> DEFINE C == Torn!Plus(buffers[k], B)
<1>1. buffers \in Seq(Bag) /\ buffers[k] \in Bag
  BY DEF TornTypeOK
<1>2. /\ C \in Bag
      /\ \A i \in Item : /\ C[i] = buffers[k][i] + B[i]
                         /\ buffers[k][i] \in Nat /\ B[i] \in Nat
  BY <1>1 DEF Torn!Plus, Bag
<1>3. buffers' = [buffers EXCEPT ![k] = C]
  BY DEF Torn!Into
<1> HIDE DEF C
<1>4. /\ buffers' \in Seq(Bag) /\ Len(buffers') = Len(buffers) /\ buffers'[k] = C
      /\ \A m \in 1..Len(buffers) : m # k => buffers'[m] = buffers[m]
  BY <1>1, <1>2, <1>3
<1>5. \A i \in Item : (buffers[k][i] # 0 => C[i] # 0) /\ (B[i] # 0 => C[i] # 0)
  BY <1>2
<1> QED BY <1>4, <1>5

(* Copies are made, and a split goes to its end.                             *)
LEMMA TornCopies ==
  ASSUME TornInv, NEW s \in Split, NEW place \in {"check", "done", "failed"},
         Torn!Goes(s, place), split[s].at \notin {"transfer", "failed"},
         leaf.item # 0, NEW B \in Bag, buffers' = Torn!Into(leaf.item, B),
         UNCHANGED <<leaf, routed, items>>
  PROVE  TornInv'
<1>1. leaf.item \in 1..Len(buffers) /\ leaf.split \in 0..Len(buffers) /\ place \in Place
  BY DEF TornInv, TornTypeOK, Place
<1>2. /\ buffers' \in Seq(Bag) /\ Len(buffers') = Len(buffers)
      /\ \A m \in 1..Len(buffers), i \in Item : buffers[m][i] # 0 => buffers'[m][i] # 0
  BY <1>1, MoreIsNotLess DEF TornInv
<1>3. /\ split' \in [Split -> TornState]
      /\ split'[s].at = place /\ split'[s].hand = split[s].hand
      /\ split'[s].buffer = split[s].buffer
      /\ \A r \in Split \ {s} : split'[r] = split[r]
  BY <1>1, TornGoes DEF TornInv
<1>4. TornTypeOK'
  BY <1>2, <1>3 DEF TornInv, TornTypeOK
<1>a. \A r \in Split : (HoldsAside(r)' => HoldsAside(r)) /\ split'[r].buffer = split[r].buffer
  BY <1>3 DEF HoldsAside
<1>5. TornSplitInv'
  <2>1. \A r \in Split : HoldsAside(r)' =>
          leaf'.split # 0 /\ leaf'.item # 0 /\ split'[r].buffer = leaf'.split
    BY <1>a DEF TornInv, TornSplitInv
  <2>2. \A q, r \in Split : HoldsAside(q)' /\ HoldsAside(r)' => q = r
    BY <1>a DEF TornInv, TornSplitInv
  <2>3. \A r \in Split : split'[r].at = "transfer" => leaf'.rule
    BY <1>3 DEF TornInv, TornSplitInv
  <2>4. \A r \in Split, i \in Item :
          split'[r].hand[i] # 0 => split'[r].at \in {"transfer", "failed"}
    BY <1>3 DEF TornInv, TornSplitInv
  <2>5. leaf'.item = 0 => leaf'.rule
    BY DEF TornInv, TornSplitInv
  <2> QED BY <2>1, <2>2, <2>3, <2>4, <2>5 DEF TornSplitInv
<1>6. ASSUME NEW i \in items
      PROVE  Somewhere(i)'
  <2>1. Somewhere(i) /\ i \in Item
    BY DEF TornInv, TornTypeOK
  <2>2. \A r \in Split : split'[r].hand = split[r].hand
    BY <1>3
  <2> QED BY <1>1, <1>2, <2>1, <2>2 DEF Somewhere
<1> QED BY <1>4, <1>5, <1>6 DEF TornInv

LEMMA TornChecks ==
  ASSUME TornInv, NEW s \in Split
  PROVE  /\ Torn!NoRule(s) => TornInv'
         /\ Torn!Check(s) => TornInv'
<1>1. /\ {"check", "done", "failed"} \subseteq Place
      /\ leaf \in [item : {leaf.item}, split : {leaf.split}, rule : BOOLEAN, task : BOOLEAN]
      /\ buffers \in Seq(Bag) /\ leaf.item \in 0..Len(buffers) /\ leaf.split \in 0..Len(buffers)
  BY DEF Place, TornInv, TornTypeOK
<1>2. CASE Torn!NoRule(s)
  <2>1. split[s].at = "no rule" /\ UNCHANGED <<leaf, routed, items>>
    BY <1>2 DEF Torn!NoRule, Torn!At
  <2>2. leaf.item # 0 /\ leaf.split # 0 /\ split[s].buffer = leaf.split
    BY <2>1 DEF TornInv, TornSplitInv, HoldsAside
  <2>3. buffers' = Torn!Into(leaf.item, buffers[leaf.split]) /\ Torn!Goes(s, "check")
    BY <1>2, <2>2 DEF Torn!NoRule
  <2>4. buffers[leaf.split] \in Bag
    BY <1>1, <2>2
  <2> QED BY <2>1, <2>2, <2>3, <2>4, TornCopies
<1>3. CASE Torn!Check(s)
  <2>1. split[s].at = "check" /\ UNCHANGED <<leaf, routed, items>>
    BY <1>3 DEF Torn!Check, Torn!At
  <2>2. Torn!Goes(s, "done") \/ Torn!Goes(s, "failed")
    BY <1>3 DEF Torn!Check
  <2>3. CASE UNCHANGED buffers
    BY <1>1, <2>1, <2>2, <2>3, TornMoves
  <2>4. CASE ~leaf.rule /\ leaf.split # 0 /\ buffers' = Torn!Into(leaf.item, buffers[leaf.split])
    <3>1. leaf.item # 0
      BY <2>4 DEF TornInv, TornSplitInv
    <3>2. buffers[leaf.split] \in Bag
      BY <1>1, <2>4
    <3> QED BY <2>1, <2>2, <2>4, <3>1, <3>2, TornCopies
  <2> QED BY <1>3, <2>3, <2>4 DEF Torn!Check
<1> QED BY <1>2, <1>3

LEMMA TornPages ==
  ASSUME TornInv, NEW s \in Split
  PROVE  /\ Torn!TakePage(s) => TornInv'
         /\ Torn!RoutePage(s) => TornInv'
<1>1. /\ split \in [Split -> TornState] /\ split[s].hand \in Bag
      /\ buffers \in Seq(Bag) /\ routed \in Bag
      /\ leaf.item \in 0..Len(buffers) /\ leaf.split \in 0..Len(buffers)
  BY DEF TornInv, TornTypeOK, TornState
<1>2. CASE Torn!TakePage(s)
  <2>1. split[s].at = "transfer" /\ UNCHANGED <<leaf, routed, items>>
    BY <1>2 DEF Torn!TakePage, Torn!At
  <2>2. split[s].buffer = leaf.split /\ leaf.split \in 1..Len(buffers)
    <3>1. HoldsAside(s)
      BY <2>1 DEF HoldsAside
    <3>2. split[s].buffer = leaf.split /\ leaf.split # 0
      BY <3>1 DEF TornInv, TornSplitInv
    <3> QED BY <1>1, <3>2
  <2>3. PICK i \in Item :
          /\ buffers[leaf.split][i] > 0
          /\ buffers' = [buffers EXCEPT ![leaf.split][i] = @ - 1]
          /\ split' = [split EXCEPT ![s].hand = Torn!Plus(@, Torn!One(i))]
    BY <1>2, <2>2 DEF Torn!TakePage
  <2> DEFINE B == [buffers[leaf.split] EXCEPT ![i] = @ - 1]
             hand == Torn!Plus(split[s].hand, Torn!One(i))
  <2>4. /\ B \in Bag /\ \A j \in Item \ {i} : B[j] = buffers[leaf.split][j]
        /\ hand \in Bag /\ hand[i] # 0 /\ \A j \in Item : split[s].hand[j] # 0 => hand[j] # 0
    <3>1. buffers[leaf.split] \in Bag
      BY <1>1, <2>2
    <3>2. B \in Bag /\ \A j \in Item \ {i} : B[j] = buffers[leaf.split][j]
      BY <2>3, <3>1 DEF Bag
    <3>3. /\ hand \in Bag
          /\ \A j \in Item : split[s].hand[j] \in Nat
          /\ \A j \in Item : hand[j] = split[s].hand[j] + (IF j = i THEN 1 ELSE 0)
      BY <1>1 DEF Bag, Torn!Plus, Torn!One
    <3> HIDE DEF hand
    <3>4. hand[i] # 0 /\ \A j \in Item : split[s].hand[j] # 0 => hand[j] # 0
      BY <3>3
    <3> QED BY <3>2, <3>3, <3>4
  <2>5. buffers' = [buffers EXCEPT ![leaf.split] = B] /\ split' = [split EXCEPT ![s].hand = hand]
    BY <1>1, <2>2, <2>3
  <2> HIDE DEF B, hand
  <2>6. /\ buffers' \in Seq(Bag) /\ Len(buffers') = Len(buffers)
        /\ \A m \in 1..Len(buffers), j \in Item \ {i} : buffers'[m][j] = buffers[m][j]
    BY <1>1, <2>2, <2>4, <2>5
  <2>7. /\ split' \in [Split -> TornState] /\ split'[s].hand = hand
        /\ split'[s].at = "transfer" /\ split'[s].buffer = split[s].buffer
        /\ \A r \in Split \ {s} : split'[r] = split[r]
    BY <1>1, <2>1, <2>4, <2>5 DEF TornState
  <2>8. TornTypeOK'
    BY <2>1, <2>6, <2>7 DEF TornInv, TornTypeOK
  <2>9. TornSplitInv'
    BY <2>1, <2>7 DEF TornInv, TornSplitInv, HoldsAside
  <2>10. ASSUME NEW j \in items
         PROVE  Somewhere(j)'
    <3>1. j \in Item /\ Somewhere(j)
      BY DEF TornInv, TornTypeOK
    <3>2. \A r \in Split : split[r].hand[j] # 0 => split'[r].hand[j] # 0
      BY <2>4, <2>7, <3>1
    <3>3. CASE j = i
      BY <2>4, <2>7, <3>3 DEF Somewhere
    <3>4. CASE j # i
      BY <1>1, <2>1, <2>6, <3>1, <3>2, <3>4 DEF Somewhere
    <3> QED BY <3>3, <3>4
  <2> QED BY <2>8, <2>9, <2>10, <2>1 DEF TornInv
<1>3. CASE Torn!RoutePage(s)
  <2>1. split[s].at = "transfer" /\ UNCHANGED <<leaf, buffers, items>>
    BY <1>3 DEF Torn!RoutePage, Torn!At
  <2>2. PICK i \in Item :
          /\ split[s].hand[i] > 0
          /\ routed' = Torn!Plus(routed, Torn!One(i))
          /\ split' = [split EXCEPT ![s].hand[i] = @ - 1, ![s].rows = @ + 1]
    BY <1>3 DEF Torn!RoutePage
  <2>3. /\ routed' \in Bag /\ routed'[i] # 0
        /\ \A j \in Item : routed[j] # 0 => routed'[j] # 0
    <3>1. /\ routed' \in Bag /\ \A j \in Item : routed[j] \in Nat
          /\ \A j \in Item : routed'[j] = routed[j] + (IF j = i THEN 1 ELSE 0)
      BY <1>1, <2>2 DEF Bag, Torn!Plus, Torn!One
    <3> QED BY <3>1
  <2> DEFINE hand == [split[s].hand EXCEPT ![i] = @ - 1]
             rows == split[s].rows + 1
             state == [split[s] EXCEPT !.hand = hand, !.rows = rows]
  <2>4. hand \in Bag /\ \A j \in Item \ {i} : hand[j] = split[s].hand[j]
    BY <1>1, <2>2 DEF Bag
  <2>5. split' = [split EXCEPT ![s] = state]
    BY <1>1, <2>2
  <2>6. rows \in Nat /\ split[s] \in TornState
    <3>1. split[s] \in TornState
      BY <1>1
    <3>2. split[s].rows \in Nat
      BY <3>1 DEF TornState
    <3> QED BY <3>1, <3>2
  <2> HIDE DEF hand, rows
  <2>7. /\ state \in TornState /\ state.hand = hand
        /\ state.at = split[s].at /\ state.buffer = split[s].buffer
    BY <2>4, <2>6 DEF TornState
  <2> HIDE DEF state
  <2>8. /\ split' \in [Split -> TornState] /\ split'[s].hand = hand
        /\ split'[s].at = "transfer" /\ split'[s].buffer = split[s].buffer
        /\ \A r \in Split \ {s} : split'[r] = split[r]
    BY <1>1, <2>1, <2>5, <2>7
  <2>9. TornTypeOK'
    BY <2>1, <2>3, <2>8 DEF TornInv, TornTypeOK
  <2>10. TornSplitInv'
    BY <2>1, <2>8 DEF TornInv, TornSplitInv, HoldsAside
  <2>11. ASSUME NEW j \in items
         PROVE  Somewhere(j)'
    <3>1. j \in Item /\ Somewhere(j)
      BY DEF TornInv, TornTypeOK
    <3>2. CASE j = i
      BY <2>3, <3>2 DEF Somewhere
    <3>3. CASE j # i
      <4>1. \A r \in Split : split'[r].hand[j] = split[r].hand[j]
        BY <2>4, <2>8, <3>1, <3>3
      <4> QED BY <2>1, <2>3, <3>1, <4>1 DEF Somewhere
    <3> QED BY <3>2, <3>3
  <2> QED BY <2>9, <2>10, <2>11, <2>1 DEF TornInv
<1> QED BY <1>2, <1>3

(* The last round moves all of the rest, which is one block.                 *)
LEMMA TornRestMoves ==
  ASSUME TornInv, RestIsBlock, NEW s \in Split, Torn!LastRound(s)
  PROVE  TornInv'
<1>1. /\ split[s].at = "transfer" /\ items' = items
      /\ \A i \in Item : buffers[split[s].buffer][i] = 0 /\ split[s].hand[i] = 0
  BY DEF Torn!LastRound, Torn!Transferred, Torn!At, Torn!IsEmpty
<1>2. HoldsAside(s)
  BY <1>1 DEF HoldsAside
<1>3. /\ leaf.item # 0 /\ split[s].buffer = leaf.split /\ leaf.split # 0 /\ leaf.rule
      /\ \A r \in Split \ {s} : ~HoldsAside(r)
  BY <1>1, <1>2 DEF TornInv, TornSplitInv
<1>4. /\ split \in [Split -> TornState] /\ buffers \in Seq(Bag) /\ routed \in Bag
      /\ leaf.item \in 1..Len(buffers) /\ leaf.split \in 1..Len(buffers)
      /\ leaf \in [item : 0..Len(buffers), split : 0..Len(buffers),
                   rule : BOOLEAN, task : BOOLEAN]
  BY <1>3 DEF TornInv, TornTypeOK
<1> DEFINE rest == buffers[leaf.item]
<1>5. rest \in Bag /\ Torn!Size(rest) <= BlockSize
  BY <1>3, <1>4 DEF RestIsBlock
<1>6. /\ \E L \in Torn!Lost(rest) : routed' = [i \in Item |-> routed[i] + rest[i] - L[i]]
      /\ buffers' = [buffers EXCEPT ![leaf.item] = Torn!NoItems]
      /\ leaf' = [leaf EXCEPT !.item = 0, !.split = 0] /\ Torn!Goes(s, "check")
  BY <1>3 DEF Torn!LastRound, Torn!Close
<1> HIDE DEF rest
<1>7. Torn!Lost(rest) = {Torn!NoItems}
  BY <1>5 DEF Torn!Lost
<1>8. /\ routed' \in Bag
      /\ \A i \in Item : (rest[i] # 0 => routed'[i] # 0) /\ (routed[i] # 0 => routed'[i] # 0)
  <2>1. routed' = [i \in Item |-> routed[i] + rest[i] - Torn!NoItems[i]]
    BY <1>6, <1>7
  <2>2. \A i \in Item : Torn!NoItems[i] = 0 /\ rest[i] \in Nat /\ routed[i] \in Nat
    BY <1>4, <1>5 DEF Torn!NoItems, Bag
  <2> QED BY <2>1, <2>2 DEF Bag
<1>9. buffers' \in Seq(Bag) /\ Len(buffers') = Len(buffers)
  <2>1. Torn!NoItems \in Bag
    BY DEF Torn!NoItems, Bag
  <2> QED BY <1>4, <1>6, <2>1
<1>10. /\ leaf'.item = 0 /\ leaf'.split = 0 /\ leaf'.rule = leaf.rule
       /\ leaf' \in [item : 0..Len(buffers), split : 0..Len(buffers),
                     rule : BOOLEAN, task : BOOLEAN]
  <2>1. 0 \in 0..Len(buffers)
    BY <1>4
  <2>2. /\ leaf' = [leaf EXCEPT !.item = 0, !.split = 0]
        /\ leaf \in [item : 0..Len(buffers), split : 0..Len(buffers),
                     rule : BOOLEAN, task : BOOLEAN]
    BY <1>4, <1>6
  <2> QED BY <2>1, <2>2
<1>11. /\ split' \in [Split -> TornState]
       /\ split'[s].at = "check" /\ split'[s].hand = split[s].hand
       /\ \A r \in Split \ {s} : split'[r] = split[r]
  <2>1. "check" \in Place
    BY DEF Place
  <2> QED BY <1>6, <2>1, TornGoes DEF TornInv
<1>12. TornTypeOK'
  BY <1>1, <1>8, <1>9, <1>10, <1>11 DEF TornInv, TornTypeOK
<1>13. TornSplitInv'
  <2>1. ASSUME NEW r \in Split
        PROVE  ~HoldsAside(r)' /\ split'[r].at # "transfer"
    <3>1. CASE r = s
      BY <1>11, <3>1 DEF HoldsAside
    <3>2. CASE r # s
      BY <1>3, <1>11, <3>2 DEF HoldsAside
    <3> QED BY <3>1, <3>2
  <2>2. leaf'.rule
    BY <1>3, <1>10
  <2>3. ASSUME NEW r \in Split, NEW i \in Item, split'[r].hand[i] # 0
        PROVE  split'[r].at \in {"transfer", "failed"}
    <3>1. r # s
      BY <1>1, <1>11, <2>3
    <3> QED BY <1>11, <2>3, <3>1 DEF TornInv, TornSplitInv
  <2> QED BY <2>1, <2>2, <2>3 DEF TornSplitInv
<1>14. ASSUME NEW i \in items
       PROVE  Somewhere(i)'
  <2>1. i \in Item /\ Somewhere(i)
    BY DEF TornInv, TornTypeOK
  <2>2. \A r \in Split : split'[r].hand = split[r].hand
    BY <1>11
  <2>3. CASE rest[i] # 0
    BY <1>8, <2>1, <2>3 DEF Somewhere
  <2>4. CASE rest[i] = 0
    BY <1>1, <1>3, <1>8, <2>1, <2>2, <2>4 DEF Somewhere, rest
  <2> QED BY <2>3, <2>4
<1> QED BY <1>1, <1>12, <1>13, <1>14 DEF TornInv

LEMMA TornAdds ==
  ASSUME TornInv, NEW i \in Item, Torn!Add(i)
  PROVE  TornInv'
<1>1. items' = items \cup {i}
  BY DEF Torn!Add
<1>2. /\ split \in [Split -> TornState] /\ buffers \in Seq(Bag) /\ routed \in Bag
      /\ leaf.item \in 0..Len(buffers) /\ leaf.split \in 0..Len(buffers)
      /\ leaf \in [item : 0..Len(buffers), split : 0..Len(buffers),
                   rule : BOOLEAN, task : BOOLEAN]
      /\ items \subseteq Item
  BY DEF TornInv, TornTypeOK
<1>3. Torn!One(i) \in Bag /\ Torn!One(i)[i] # 0
  BY DEF Torn!One, Bag
<1>4. CASE leaf.item = 0
  <2>1. routed' = Torn!Plus(routed, Torn!One(i)) /\ UNCHANGED <<leaf, buffers, split>>
    BY <1>4 DEF Torn!Add
  <2>2. /\ routed' \in Bag /\ routed'[i] # 0
        /\ \A j \in Item : routed[j] # 0 => routed'[j] # 0
    <3>1. /\ routed' \in Bag /\ \A j \in Item : routed[j] \in Nat
          /\ \A j \in Item : routed'[j] = routed[j] + (IF j = i THEN 1 ELSE 0)
      BY <1>2, <2>1 DEF Bag, Torn!Plus, Torn!One
    <3> QED BY <3>1
  <2>3. TornTypeOK'
    BY <1>1, <1>2, <2>1, <2>2 DEF TornTypeOK
  <2>4. TornSplitInv'
    BY <2>1 DEF TornInv, TornSplitInv, HoldsAside
  <2>5. \A j \in items' : Somewhere(j)'
    BY <1>1, <1>2, <2>1, <2>2 DEF TornInv, Somewhere
  <2> QED BY <2>3, <2>4, <2>5 DEF TornInv
<1>5. CASE leaf.item # 0
  <2>1. buffers' = Torn!Into(leaf.item, Torn!One(i)) /\ UNCHANGED routed
    BY <1>5 DEF Torn!Add
  <2>2. /\ buffers' \in Seq(Bag) /\ Len(buffers') = Len(buffers)
        /\ \A m \in 1..Len(buffers), j \in Item : buffers[m][j] # 0 => buffers'[m][j] # 0
        /\ buffers'[leaf.item][i] # 0
    <3>1. leaf.item \in 1..Len(buffers)
      BY <1>2, <1>5
    <3> QED BY <1>3, <2>1, <3>1, MoreIsNotLess DEF TornInv
  <2>3. /\ leaf' \in [item : 0..Len(buffers), split : 0..Len(buffers),
                      rule : BOOLEAN, task : BOOLEAN]
        /\ leaf'.item = leaf.item /\ leaf'.split = leaf.split /\ leaf'.rule = leaf.rule
        /\ split' \in [Split -> TornState]
        /\ \A r \in Split : /\ split'[r].hand = split[r].hand
                            /\ split'[r].buffer = split[r].buffer
                            /\ \/ split'[r].at = split[r].at
                               \/ split'[r].at = "asked" /\ split[r].at = "idle"
    <3> DEFINE Kept == /\ leaf' \in [item : 0..Len(buffers), split : 0..Len(buffers),
                                     rule : BOOLEAN, task : BOOLEAN]
                       /\ leaf'.item = leaf.item /\ leaf'.split = leaf.split
                       /\ leaf'.rule = leaf.rule
               Only == /\ split' \in [Split -> TornState]
                       /\ \A r \in Split :
                            /\ split'[r].hand = split[r].hand
                            /\ split'[r].buffer = split[r].buffer
                            /\ \/ split'[r].at = split[r].at
                               \/ split'[r].at = "asked" /\ split[r].at = "idle"
    <3>2. ASSUME NEW s \in Split, split[s].at = "idle", Torn!Goes(s, "asked"),
                 leaf' = [leaf EXCEPT !.task = TRUE]
          PROVE  Kept /\ Only
      <4>1. "asked" \in Place
        BY DEF Place
      <4>2. /\ split' \in [Split -> TornState]
            /\ split'[s].at = "asked" /\ split'[s].buffer = split[s].buffer
            /\ split'[s].hand = split[s].hand
            /\ \A r \in Split \ {s} : split'[r] = split[r]
        BY <3>2, <4>1, TornGoes DEF TornInv
      <4>3. Kept
        BY <1>2, <3>2
      <4>4. Only
        BY <3>2, <4>2
      <4> QED BY <4>3, <4>4
    <3>3. \/ UNCHANGED <<leaf, split>>
          \/ /\ leaf' = [leaf EXCEPT !.task = TRUE]
             /\ \E s \in Split : split[s].at = "idle" /\ Torn!Goes(s, "asked")
      BY <1>5 DEF Torn!Add, Torn!At
    <3>4. Kept /\ Only
      <4>1. CASE UNCHANGED <<leaf, split>>
        BY <1>2, <4>1
      <4> HIDE DEF Kept, Only
      <4> QED BY <3>2, <3>3, <4>1
    <3> QED BY <3>4
  <2>4. TornTypeOK'
    BY <1>1, <1>2, <2>1, <2>2, <2>3 DEF TornTypeOK
  <2>5. TornSplitInv'
    <3>1. \A r \in Split : HoldsAside(r)' <=> HoldsAside(r)
      BY <2>3 DEF HoldsAside
    <3> QED BY <2>3, <3>1 DEF TornInv, TornSplitInv
  <2>6. ASSUME NEW j \in items'
        PROVE  Somewhere(j)'
    <3>1. CASE j = i
      BY <1>5, <2>2, <2>3, <3>1 DEF Somewhere
    <3>2. CASE j # i
      <4>1. j \in Item /\ Somewhere(j)
        BY <1>1, <1>2, <3>2 DEF TornInv
      <4>2. /\ leaf.item # 0 /\ leaf.item \in 1..Len(buffers)
            /\ leaf.split # 0 => leaf.split \in 1..Len(buffers)
        BY <1>2, <1>5
      <4>3. /\ buffers[leaf.item][j] # 0 => buffers'[leaf.item][j] # 0
            /\ leaf.split # 0 /\ buffers[leaf.split][j] # 0 => buffers'[leaf.split][j] # 0
        BY <2>2, <4>1, <4>2
      <4> QED BY <2>1, <2>3, <4>1, <4>3 DEF Somewhere
    <3> QED BY <3>1, <3>2
  <2> QED BY <2>4, <2>5, <2>6 DEF TornInv
<1> QED BY <1>4, <1>5

LEMMA TornSplitsKeep ==
  ASSUME TornInv, RestIsBlock, [Torn!Next]_(Torn!vars)
  PROVE  TornInv'
<1>1. ASSUME NEW i \in Item, Torn!Add(i)
      PROVE  TornInv'
  BY <1>1, TornAdds
<1>2. ASSUME NEW s \in Split, Torn!Ask(s) \/ Torn!Step(s) \/ Torn!Stop(s)
      PROVE  TornInv'
  BY <1>2, TornSteps, TornBuffersMove, TornChecks, TornPages, TornRestMoves DEF Torn!Step
<1>3. CASE UNCHANGED Torn!vars
  <2>1. UNCHANGED <<leaf, buffers, routed, split, items>>
    BY <1>3 DEF Torn!vars
  <2> QED BY <2>1 DEF TornInv, TornTypeOK, TornSplitInv, HoldsAside, Somewhere
<1> QED BY <1>1, <1>2, <1>3 DEF Torn!Next

LEMMA TornShowsAll ==
  ASSUME TornInv
  PROVE  Torn!NothingVanishes
<1>1. leaf.item = 0 => leaf.rule
  BY DEF TornInv, TornSplitInv
<1>2. ASSUME NEW i \in items
      PROVE  \/ Torn!Kept(i) > 0
             \/ \E s \in Split :
                  Torn!Carries(s, i) \/ (Torn!At(s, "failed") /\ split[s].hand[i] > 0)
  <2>1. /\ Somewhere(i) /\ i \in Item
        /\ buffers \in Seq(Bag) /\ routed[i] \in Nat
        /\ leaf.item \in 0..Len(buffers) /\ leaf.split \in 0..Len(buffers)
        /\ \A s \in Split : split[s].hand[i] \in Nat
    BY DEF TornInv, TornTypeOK, TornState, Bag
  <2>2. ASSUME NEW s \in Split, split[s].hand[i] # 0
        PROVE  Torn!Carries(s, i) \/ (Torn!At(s, "failed") /\ split[s].hand[i] > 0)
    <3>1. split[s].hand[i] > 0
      BY <2>1, <2>2
    <3>2. split[s].at \in {"transfer", "failed"}
      BY <2>1, <2>2 DEF TornInv, TornSplitInv
    <3> QED BY <3>1, <3>2 DEF Torn!Carries, Torn!Working, Torn!At
  <2>3. Torn!InBuffer(leaf.item, i) \in Nat /\ Torn!InBuffer(leaf.split, i) \in Nat
    <3>1. \A k \in 1..Len(buffers) : buffers[k] \in Bag
      BY <2>1
    <3>2. \A k \in 1..Len(buffers) : buffers[k][i] \in Nat
      BY <2>1, <3>1 DEF Bag
    <3> QED BY <2>1, <3>2 DEF Torn!InBuffer
  <2>4. CASE leaf.item # 0 /\ buffers[leaf.item][i] # 0
    <3>1. Torn!InBuffer(leaf.item, i) # 0
      BY <2>4 DEF Torn!InBuffer
    <3> QED BY <2>1, <2>3, <3>1 DEF Torn!Kept
  <2>5. CASE leaf.split # 0 /\ buffers[leaf.split][i] # 0
    <3>1. Torn!InBuffer(leaf.split, i) # 0
      BY <2>5 DEF Torn!InBuffer
    <3> QED BY <2>1, <2>3, <3>1 DEF Torn!Kept
  <2>6. CASE routed[i] # 0
    BY <2>1, <2>3, <2>6 DEF Torn!Kept
  <2> QED BY <2>1, <2>2, <2>4, <2>5, <2>6 DEF Somewhere
<1> QED BY <1>1, <1>2 DEF Torn!NothingVanishes

(* However splits overlap, find no rule or stop while items are added, an    *)
(* item that was added stays in the node's buffers, in the hands of a split, *)
(* one that stopped included, or in a child, and a closed node has a rule to *)
(* route by: as long as no last round moves more than one block              *)
(* (ClassificationTreeNode.scala l.84,457-627).                              *)
THEOREM TornSplitsKeepItems ==
  Torn!Spec /\ [](scene = "torn") /\ []RestIsBlock => []SplitKeepsItems
<1>1. Torn!Init => TornInv
  BY TornInitially
<1>2. TornInv /\ RestIsBlock /\ [Torn!Next]_(Torn!vars) => TornInv'
  BY TornSplitsKeep
<1>3. TornInv /\ scene = "torn" => SplitKeepsItems
  BY TornShowsAll DEF SplitKeepsItems
<1> QED BY <1>1, <1>2, <1>3, PTL DEF Torn!Spec

-----------------------------------------------------------------------------
(* The task queue, TaskQueue.scala.                                          *)

(* Where lists have a task: the number of a list, and a place in it.         *)
HasAt(ls, p, v) == p[1] \in 1..Len(ls) /\ p[2] \in 1..Len(ls[p[1]]) /\ ls[p[1]][p[2]] = v
Places(ls, v) == {p \in Nat \X Nat : HasAt(ls, p, v)}

QueueInv ==
  /\ lists \in Seq(Seq(Value)) /\ index \in [Value -> Nat]
  /\ counters \in Seq(Int) /\ Queue!Total(counters) = Queue!Size
  /\ \A v \in Value : IsFiniteSet(Places(lists, v)) /\ index[v] = Cardinality(Places(lists, v))

(* Sums of sequences of numbers.                                             *)

(* The least-number principle, for sets.                                     *)
LEMMA Least ==
  ASSUME NEW S \in SUBSET Nat, S # {}
  PROVE  \E k \in S : \A m \in S : k <= m
<1> DEFINE R == OpToRel(<, Nat)
<1>1. IsWellFoundedOn(R, Nat)
  BY NatLessThanWellFounded
<1>2. \A m \in Nat, k \in Nat : m < k => <<m, k>> \in R
  BY DEF OpToRel
<1> HIDE DEF R
<1>3. PICK k \in S : \A m \in S : <<m, k>> \notin R
  BY <1>1, WFMin
<1>4. ASSUME NEW m \in S PROVE k <= m
  <2>1. k \in Nat /\ m \in Nat /\ ~(m < k)
    BY <1>2, <1>3
  <2> QED BY <2>1
<1> QED BY <1>3, <1>4

(* f[i] is the sum of the first i numbers of s.                              *)
Sums(f, s, k) ==
  /\ f \in [0..k -> Int] /\ f[0] = 0
  /\ \A i \in 1..k : f[i] = f[i - 1] + s[i]

LEMMA SumsExist ==
  ASSUME NEW s \in Seq(Int)
  PROVE  \E f : Sums(f, s, Len(s))
<1> DEFINE Missing == {k \in 0..Len(s) : ~\E f : Sums(f, s, k)}
<1>a. Len(s) \in Nat /\ Missing \in SUBSET Nat
  OBVIOUS
<1>b. ASSUME Missing = {}
      PROVE  \E f : Sums(f, s, Len(s))
  BY <1>a, <1>b
<1>1. SUFFICES ASSUME Missing # {}
               PROVE  FALSE
  BY <1>b
<1>2. PICK k \in Missing : \A m \in Missing : k <= m
  BY <1>a, <1>1, Least
<1>3. k \in 0..Len(s) /\ ~\E f : Sums(f, s, k)
  OBVIOUS
<1>4. k # 0
  <2>1. Sums([i \in 0..0 |-> 0], s, 0)
    BY DEF Sums
  <2> QED BY <1>3, <2>1
<1>5. k \in 1..Len(s) /\ k - 1 \in 0..Len(s) /\ ~(k <= k - 1) /\ s[k] \in Int
  BY <1>3, <1>4
<1>6. PICK f : Sums(f, s, k - 1)
  BY <1>2, <1>5
<1> DEFINE g == [i \in 0..k |-> IF i = k THEN f[k - 1] + s[k] ELSE f[i]]
<1>7. Sums(g, s, k)
  <2>1. f \in [0..(k - 1) -> Int] /\ f[0] = 0 /\ \A i \in 1..(k - 1) : f[i] = f[i - 1] + s[i]
    BY <1>6 DEF Sums
  <2>2. \A i \in 0..k : i # k => i \in 0..(k - 1)
    BY <1>5
  <2>3. g \in [0..k -> Int]
    BY <1>5, <2>1, <2>2
  <2>4. g[0] = 0
    BY <1>5, <2>1
  <2>5. ASSUME NEW i \in 1..k
        PROVE  g[i] = g[i - 1] + s[i]
    <3>1. i \in 0..k /\ i - 1 \in 0..k /\ i - 1 # k /\ k \in Int
      BY <1>5
    <3>2. CASE i = k
      BY <3>1, <3>2
    <3>3. CASE i # k
      <4>1. i \in 1..(k - 1)
        BY <1>5, <3>3
      <4>2. g[i] = f[i] /\ g[i - 1] = f[i - 1]
        BY <3>1, <3>3
      <4> QED BY <2>1, <4>1, <4>2
    <3> QED BY <3>2, <3>3
  <2> QED BY <2>3, <2>4, <2>5 DEF Sums
<1> QED BY <1>3, <1>7

(* What Total says is the last of the sums, whoever computed them.           *)
LEMMA TotalIs ==
  ASSUME NEW s \in Seq(Int), NEW f, Sums(f, s, Len(s))
  PROVE  Queue!Total(s) = f[Len(s)]
<1> DEFINE n == Len(s)
           Body(g) == [i \in 0..n |-> IF i = 0 THEN 0 ELSE g[i - 1] + s[i]]
           h == CHOOSE g : g = Body(g)
<1>1. n \in Nat
  OBVIOUS
<1>2. f = Body(f)
  <2>1. /\ f = [i \in 0..n |-> f[i]]
        /\ \A i \in 0..n : i = 0 \/ i \in 1..n
        /\ f[0] = 0 /\ \A i \in 1..n : f[i] = f[i - 1] + s[i]
    BY <1>1 DEF Sums
  <2> HIDE DEF n
  <2>2. \A i \in 0..n : f[i] = IF i = 0 THEN 0 ELSE f[i - 1] + s[i]
    BY <2>1
  <2> QED BY <2>1, <2>2
<1>3. Queue!Total(s) = h[n]
  BY DEF Queue!Total
<1> HIDE DEF Body
<1>4. h = Body(h)
  BY <1>2
<1> HIDE DEF h
<1>5. \A i \in 0..n : h[i] = IF i = 0 THEN 0 ELSE h[i - 1] + s[i]
  BY <1>4 DEF Body
<1> DEFINE Apart == {i \in 0..n : h[i] # f[i]}
<1>6. Apart = {}
  <2> SUFFICES ASSUME Apart # {}
               PROVE  FALSE
    OBVIOUS
  <2>1. Apart \in SUBSET Nat
    BY <1>1
  <2>2. PICK k \in Apart : \A m \in Apart : k <= m
    BY <2>1, Least
  <2>3. k \in 0..n /\ h[k] # f[k] /\ f[0] = 0
    BY DEF Sums
  <2>4. k # 0
    BY <1>5, <2>3
  <2>5. k \in 1..n /\ k - 1 \in 0..n /\ ~(k <= k - 1)
    BY <1>1, <2>3, <2>4
  <2>6. h[k - 1] = f[k - 1]
    BY <2>2, <2>5
  <2>7. f[k] = f[k - 1] + s[k]
    BY <2>5 DEF Sums
  <2> QED BY <1>5, <2>3, <2>4, <2>6, <2>7
<1> QED BY <1>1, <1>3, <1>6

(* A number that grows by n makes the sum grow by n.                         *)
LEMMA TotalGrows ==
  ASSUME NEW s \in Seq(Int), NEW j \in 1..Len(s), NEW n \in Int, NEW r,
         r = [s EXCEPT ![j] = @ + n]
  PROVE  r \in Seq(Int) /\ Queue!Total(s) \in Int /\ Queue!Total(r) = Queue!Total(s) + n
<1>1. PICK f : Sums(f, s, Len(s))
  BY SumsExist
<1>2. /\ f \in [0..Len(s) -> Int] /\ f[0] = 0
      /\ \A i \in 1..Len(s) : f[i] = f[i - 1] + s[i]
  BY <1>1 DEF Sums
<1>3. /\ r \in Seq(Int) /\ Len(r) = Len(s) /\ Len(s) \in Nat
      /\ \A i \in 1..Len(s) : r[i] = IF i = j THEN s[i] + n ELSE s[i]
      /\ \A i \in 1..Len(s) : s[i] \in Int
  OBVIOUS
<1> DEFINE g == [i \in 0..Len(s) |-> IF j <= i THEN f[i] + n ELSE f[i]]
<1>4. g \in [0..Len(s) -> Int] /\ g[0] = 0
  BY <1>2, <1>3
<1>5. ASSUME NEW i \in 1..Len(s)
      PROVE  g[i] = g[i - 1] + r[i]
  <2>a. i \in 0..Len(s) /\ i - 1 \in 0..Len(s) /\ i \in Int /\ j \in Int
    BY <1>3
  <2>1. /\ i \in 0..Len(s) /\ i - 1 \in 0..Len(s) /\ i \in Int /\ j \in Int
        /\ f[i] \in Int /\ f[i - 1] \in Int /\ s[i] \in Int
        /\ f[i] = f[i - 1] + s[i]
    BY <1>2, <1>3, <2>a
  <2>2. /\ g[i] = IF j <= i THEN f[i] + n ELSE f[i]
        /\ g[i - 1] = IF j <= i - 1 THEN f[i - 1] + n ELSE f[i - 1]
    BY <2>1
  <2>3. r[i] = IF i = j THEN s[i] + n ELSE s[i]
    BY <1>3
  <2> HIDE DEF g
  <2> QED BY <2>1, <2>2, <2>3
<1>6. Sums(g, r, Len(r))
  BY <1>3, <1>4, <1>5 DEF Sums
<1>7. Queue!Total(r) = g[Len(s)] /\ Queue!Total(s) = f[Len(s)]
  BY <1>1, <1>3, <1>6, TotalIs
<1>a. Len(s) \in 0..Len(s) /\ j <= Len(s)
  BY <1>3
<1>8. Len(s) \in 0..Len(s) /\ j <= Len(s) /\ f[Len(s)] \in Int
  BY <1>2, <1>a
<1>9. g[Len(s)] = f[Len(s)] + n
  BY <1>8
<1> QED BY <1>3, <1>7, <1>8, <1>9

LEMMA TotalIsInt ==
  ASSUME NEW s \in Seq(Int)
  PROVE  Queue!Total(s) \in Int
<1>1. PICK f : Sums(f, s, Len(s))
  BY SumsExist
<1>2. f \in [0..Len(s) -> Int] /\ Len(s) \in 0..Len(s)
  BY <1>1 DEF Sums
<1> QED BY <1>1, <1>2, TotalIs

(* Another number, zero, leaves it.                                          *)
LEMMA TotalKept ==
  ASSUME NEW s \in Seq(Int)
  PROVE  Append(s, 0) \in Seq(Int) /\ Queue!Total(Append(s, 0)) = Queue!Total(s)
<1> DEFINE r == Append(s, 0)
           g == [i \in 0..(Len(s) + 1) |-> 0]
<1>1. PICK f : Sums(f, s, Len(s))
  BY SumsExist
<1>2. /\ f \in [0..Len(s) -> Int] /\ f[0] = 0
      /\ \A i \in 1..Len(s) : f[i] = f[i - 1] + s[i]
  BY <1>1 DEF Sums
<1>3. /\ r \in Seq(Int) /\ Len(r) = Len(s) + 1 /\ Len(s) \in Nat
      /\ r[Len(s) + 1] = 0 /\ \A i \in 1..Len(s) : r[i] = s[i]
  OBVIOUS
<1> HIDE DEF r
<1> DEFINE h == [i \in 0..(Len(s) + 1) |-> IF i = Len(s) + 1 THEN f[Len(s)] ELSE f[i]]
<1>4. h \in [0..(Len(s) + 1) -> Int] /\ h[0] = 0 /\ h[Len(s) + 1] = f[Len(s)]
  BY <1>2, <1>3
<1>5. ASSUME NEW i \in 1..(Len(s) + 1)
      PROVE  h[i] = h[i - 1] + r[i]
  <2>1. i \in 0..(Len(s) + 1) /\ i - 1 \in 0..Len(s) /\ i - 1 # Len(s) + 1
    BY <1>3
  <2>a. i - 1 \in 0..(Len(s) + 1)
    BY <1>3, <2>1
  <2>b. h[i - 1] = f[i - 1]
    BY <2>1, <2>a
  <2>2. h[i - 1] = f[i - 1] /\ f[i - 1] \in Int
    BY <1>2, <2>1, <2>b
  <2>3. CASE i = Len(s) + 1
    BY <1>3, <1>4, <2>2, <2>3
  <2>4. CASE i # Len(s) + 1
    <3>1. i \in 1..Len(s) /\ h[i] = f[i]
      BY <1>3, <2>1, <2>4
    <3> QED BY <1>2, <1>3, <2>2, <3>1
  <2> QED BY <2>3, <2>4
<1>6. Sums(h, r, Len(r))
  BY <1>3, <1>4, <1>5 DEF Sums
<1>7. Queue!Total(r) = h[Len(s) + 1] /\ Queue!Total(s) = f[Len(s)]
  BY <1>1, <1>3, <1>6, TotalIs
<1> QED BY <1>3, <1>4, <1>7 DEF r

LEMMA TotalOfNone ==
  ASSUME NEW s \in Seq(Int), \A i \in 1..Len(s) : s[i] = 0
  PROVE  Queue!Total(s) = 0
<1> DEFINE f == [i \in 0..Len(s) |-> 0]
<1>1. Len(s) \in Nat
  OBVIOUS
<1>2. ASSUME NEW i \in 1..Len(s)
      PROVE  f[i] = f[i - 1] + s[i]
  <2>1. i \in 0..Len(s) /\ i - 1 \in 0..Len(s)
    BY <1>1
  <2> QED BY <2>1
<1>3. f \in [0..Len(s) -> Int] /\ f[0] = 0
  BY <1>1
<1> HIDE DEF f
<1>4. Sums(f, s, Len(s))
  BY <1>2, <1>3 DEF Sums
<1>5. Queue!Total(s) = f[Len(s)]
  BY <1>4, TotalIs
<1> QED BY <1>1, <1>5 DEF f

LEMMA SpotsArePlaces ==
  ASSUME NEW T, NEW ls \in Seq(Seq(T)), NEW v
  PROVE  UNION {{i} \X {j \in DOMAIN ls[i] : ls[i][j] = v} : i \in DOMAIN ls} = Places(ls, v)
<1>1. /\ DOMAIN ls = 1..Len(ls)
      /\ \A i \in 1..Len(ls) : ls[i] \in Seq(T) /\ DOMAIN ls[i] = 1..Len(ls[i])
  OBVIOUS
<1> DEFINE Of(i) == {i} \X {j \in DOMAIN ls[i] : ls[i][j] = v}
<1>2. SUFFICES ASSUME NEW p
               PROVE  (\E i \in DOMAIN ls : p \in Of(i)) <=> p \in Places(ls, v)
  OBVIOUS
<1>3. ASSUME NEW i \in DOMAIN ls, p \in Of(i)
      PROVE  p \in Places(ls, v)
  BY <1>1, <1>3 DEF Places, HasAt
<1>4. ASSUME p \in Places(ls, v)
      PROVE  p[1] \in DOMAIN ls /\ p \in Of(p[1])
  BY <1>1, <1>4 DEF Places, HasAt
<1> QED BY <1>3, <1>4

LEMMA NoPlaces ==
  ASSUME NEW T, NEW ls \in Seq(Seq(T)), NEW v, \A i \in 1..Len(ls) : Len(ls[i]) = 0
  PROVE  Places(ls, v) = {}
BY DEF Places, HasAt

(* A new queue has nothing in its lists, its index or its counters.          *)
LEMMA NewQueue ==
  ASSUME Width \in Nat, lists = Queue!Empties, counters = Queue!NoCounts,
         index = [v \in Value |-> 0]
  PROVE  QueueInv
<1>1. /\ lists = [i \in 1..Width |-> << >>] /\ counters = [i \in 1..Width |-> 0]
      /\ index = [v \in Value |-> 0]
  BY DEF Queue!Empties, Queue!NoCounts
<1>2. lists \in Seq(Seq(Value)) /\ Len(lists) = Width
  <2>1. << >> \in Seq(Value)
    OBVIOUS
  <2> QED BY <1>1, <2>1
<1>3. \A i \in 1..Len(lists) : Len(lists[i]) = 0
  BY <1>1, <1>2
<1>4. \A v \in Value : Places(lists, v) = {}
  BY <1>2, <1>3, NoPlaces
<1>5. counters \in Seq(Int) /\ Queue!Total(counters) = 0
  <2>1. counters \in Seq(Int) /\ Len(counters) = Width
    BY <1>1
  <2>2. \A i \in 1..Len(counters) : counters[i] = 0
    BY <1>1, <2>1
  <2> QED BY <2>1, <2>2, TotalOfNone
<1>6. Queue!Size = 0
  <2> DEFINE s == [i \in DOMAIN lists |-> Len(lists[i])]
  <2>1. s \in Seq(Int) /\ Len(s) = Len(lists) /\ \A i \in 1..Len(s) : s[i] = 0
    BY <1>2, <1>3
  <2> HIDE DEF s
  <2>2. Queue!Total(s) = 0
    BY <2>1, TotalOfNone
  <2> QED BY <2>2 DEF Queue!Size, s
<1> QED BY <1>1, <1>2, <1>4, <1>5, <1>6, FS_EmptySet DEF QueueInv

LEMMA QueueInitially ==
  ASSUME Width \in Nat, Queue!Init
  PROVE  QueueInv /\ index = [v \in Value |-> 0] /\ answer = Nothing
BY NewQueue DEF Queue!Init

(* A list that grows by n makes the size grow by n, and so does a counter.   *)
LEMMA SizeGrows ==
  ASSUME NEW T, lists \in Seq(Seq(T)), lists' \in Seq(Seq(T)), Len(lists') = Len(lists),
         NEW i \in 1..Len(lists), NEW n \in Int, Len(lists'[i]) = Len(lists[i]) + n,
         \A m \in 1..Len(lists) : m # i => lists'[m] = lists[m]
  PROVE  Queue!Size \in Int /\ Queue!Size' = Queue!Size + n
<1> DEFINE s == [m \in 1..Len(lists) |-> Len(lists[m])]
           r == [m \in 1..Len(lists) |-> Len(lists'[m])]
<1>1. DOMAIN lists = 1..Len(lists) /\ DOMAIN lists' = 1..Len(lists) /\ Len(lists) \in Nat
  OBVIOUS
<1>2. \A m \in 1..Len(lists) : Len(lists[m]) \in Int /\ Len(lists'[m]) \in Int
  OBVIOUS
<1>3. s \in Seq(Int) /\ Len(s) = Len(lists)
  BY <1>1, <1>2
<1>4. r = [s EXCEPT ![i] = @ + n]
  BY <1>1
<1>5. Queue!Size = Queue!Total(s) /\ Queue!Size' = Queue!Total(r)
  BY <1>1 DEF Queue!Size
<1> HIDE DEF s, r
<1> QED BY <1>3, <1>4, <1>5, TotalGrows

LEMMA SizeIsInt ==
  ASSUME NEW T, lists \in Seq(Seq(T))
  PROVE  Queue!Size \in Int
<1> DEFINE s == [m \in 1..Len(lists) |-> Len(lists[m])]
<1>1. DOMAIN lists = 1..Len(lists) /\ Len(lists) \in Nat
  OBVIOUS
<1>2. \A m \in 1..Len(lists) : Len(lists[m]) \in Int
  OBVIOUS
<1>3. s \in Seq(Int)
  BY <1>1, <1>2
<1>4. Queue!Size = Queue!Total(s)
  BY <1>1 DEF Queue!Size
<1> HIDE DEF s
<1> QED BY <1>3, <1>4, TotalIsInt

LEMMA CounterCounts ==
  ASSUME counters \in Seq(Int), NEW n \in Int, Queue!Counted(n)
  PROVE  /\ counters' \in Seq(Int)
         /\ Queue!Total(counters') = Queue!Total(counters) + n
<1>1. PICK j \in DOMAIN counters : counters' = [counters EXCEPT ![j] = @ + n]
  BY DEF Queue!Counted
<1>2. j \in 1..Len(counters)
  OBVIOUS
<1> QED BY <1>1, <1>2, TotalGrows

(* An addition takes a place of its own.                                     *)
LEMMA OneMoreQueued ==
  ASSUME lists \in Seq(Seq(Value)), NEW v \in Value, NEW i \in 1..Len(lists),
         lists' = [lists EXCEPT ![i] = Append(@, v)]
  PROVE  /\ lists' \in Seq(Seq(Value)) /\ Queue!Size' = Queue!Size + 1
         /\ \E p : p \notin Places(lists, v) /\ Places(lists', v) = Places(lists, v) \cup {p}
         /\ \A w : w # v => Places(lists', w) = Places(lists, w)
<1> DEFINE k == Len(lists[i]) + 1
<1>1. lists[i] \in Seq(Value) /\ k \in Nat /\ i \in Nat
  OBVIOUS
<1>2. Append(lists[i], v) \in Seq(Value)
  BY <1>1
<1>3. /\ lists' \in Seq(Seq(Value)) /\ Len(lists') = Len(lists)
      /\ lists'[i] = Append(lists[i], v)
      /\ \A m \in 1..Len(lists) : m # i => lists'[m] = lists[m]
  BY <1>1, <1>2
<1>4. /\ Len(lists'[i]) = k /\ lists'[i][k] = v
      /\ \A j \in 1..Len(lists[i]) : lists'[i][j] = lists[i][j]
  BY <1>1, <1>3
<1>5. 1..k = (1..Len(lists[i])) \cup {k} /\ k \notin 1..Len(lists[i])
  BY <1>1
<1> HIDE DEF k
<1>6. ASSUME NEW w, NEW p \in Nat \X Nat
      PROVE  HasAt(lists', p, w) <=> HasAt(lists, p, w) \/ (w = v /\ p = <<i, k>>)
  <2>1. CASE p[1] # i
    BY <1>3, <2>1 DEF HasAt
  <2>2. CASE p[1] = i /\ p[2] # k
    BY <1>3, <1>4, <1>5, <2>2 DEF HasAt
  <2>3. CASE p[1] = i /\ p[2] = k
    <3>1. p = <<i, k>>
      BY <2>3
    <3>2. ~HasAt(lists, p, w)
      BY <1>5, <2>3 DEF HasAt
    <3>3. HasAt(lists', p, w) <=> w = v
      BY <1>1, <1>3, <1>4, <2>3 DEF HasAt
    <3> QED BY <3>1, <3>2, <3>3
  <2> QED BY <2>1, <2>2, <2>3
<1>7. <<i, k>> \in Nat \X Nat /\ <<i, k>> \notin Places(lists, v)
  BY <1>1, <1>5 DEF Places, HasAt
<1>8. Places(lists', v) = Places(lists, v) \cup {<<i, k>>}
  BY <1>6, <1>7 DEF Places
<1>9. \A w : w # v => Places(lists', w) = Places(lists, w)
  BY <1>6 DEF Places
<1>10. Queue!Size' = Queue!Size + 1
  <2>1. Len(lists'[i]) = Len(lists[i]) + 1
    BY <1>4 DEF k
  <2> QED BY <1>3, <2>1, SizeGrows
<1> QED BY <1>3, <1>7, <1>8, <1>9, <1>10

(* A take from the front moves the tasks behind it.                          *)
LEMMA OneLessQueued ==
  ASSUME NEW T, NEW ls \in Seq(Seq(T)), NEW i \in 1..Len(ls), ls[i] # << >>,
         NEW ms, ms = [ls EXCEPT ![i] = Tail(@)]
  PROVE  /\ ms \in Seq(Seq(T)) /\ Head(ls[i]) \in T
         /\ <<i, 1>> \in Places(ls, Head(ls[i]))
         /\ \A w : ExistsBijection(Places(ls, w) \ {<<i, 1>>}, Places(ms, w))
         /\ \A w : w # Head(ls[i]) => <<i, 1>> \notin Places(ls, w)
<1> DEFINE k == Len(ls[i])
<1>1. ls[i] \in Seq(T) /\ k \in Nat /\ k >= 1 /\ i \in Nat
  OBVIOUS
<1>2. /\ Tail(ls[i]) \in Seq(T) /\ Head(ls[i]) = ls[i][1] /\ ls[i][1] \in T
      /\ Len(Tail(ls[i])) = k - 1
      /\ \A j \in 1..(k - 1) : Tail(ls[i])[j] = ls[i][j + 1]
  BY <1>1
<1>3. /\ ms \in Seq(Seq(T)) /\ Len(ms) = Len(ls)
      /\ ms[i] = Tail(ls[i])
      /\ \A m \in 1..Len(ls) : m # i => ms[m] = ls[m]
  BY <1>1, <1>2
<1>4. <<i, 1>> \in Nat \X Nat /\ \A w : <<i, 1>> \in Places(ls, w) <=> w = Head(ls[i])
  BY <1>1, <1>2 DEF Places, HasAt
<1>5. ASSUME NEW w
      PROVE  ExistsBijection(Places(ls, w) \ {<<i, 1>>}, Places(ms, w))
  <2> DEFINE S == Places(ls, w) \ {<<i, 1>>}
             Moved(p) == IF p[1] = i THEN <<i, p[2] - 1>> ELSE p
             f == [p \in S |-> Moved(p)]
  <2>1. ASSUME NEW p \in S
        PROVE  Moved(p) \in Places(ms, w)
    <3>1. p \in Nat \X Nat /\ HasAt(ls, p, w) /\ p # <<i, 1>>
      BY <2>1 DEF Places
    <3>2. CASE p[1] # i
      BY <1>3, <3>1, <3>2 DEF Places, HasAt
    <3>3. CASE p[1] = i
      <4>1. p = <<i, p[2]>> /\ p[2] \in 1..k /\ p[2] # 1 /\ ls[i][p[2]] = w
        BY <3>1, <3>3 DEF HasAt
      <4>2. p[2] - 1 \in 1..(k - 1) /\ p[2] - 1 + 1 = p[2]
        BY <1>1, <4>1
      <4>3. Len(ms[i]) = k - 1 /\ ms[i][p[2] - 1] = w
        BY <1>2, <1>3, <4>1, <4>2
      <4>4. Moved(p) = <<i, p[2] - 1>> /\ Moved(p) \in Nat \X Nat
        BY <1>1, <3>3, <4>2
      <4> QED BY <1>3, <4>2, <4>3, <4>4 DEF Places, HasAt
    <3> QED BY <3>2, <3>3
  <2>2. ASSUME NEW p \in S, NEW q \in S, Moved(p) = Moved(q)
        PROVE  p = q
    <3>1. p \in Nat \X Nat /\ q \in Nat \X Nat
      BY DEF Places
    <3>2. p = <<p[1], p[2]>> /\ q = <<q[1], q[2]>>
      BY <3>1
    <3>3. p[1] = q[1]
      BY <2>2, <3>1
    <3>4. p[2] = q[2]
      BY <2>2, <3>1, <3>3
    <3> QED BY <3>2, <3>3, <3>4
  <2>3. ASSUME NEW q \in Places(ms, w)
        PROVE  \E p \in S : Moved(p) = q
    <3>1. q \in Nat \X Nat /\ HasAt(ms, q, w)
      BY <2>3 DEF Places
    <3>2. CASE q[1] # i
      <4>1. q \in S
        BY <1>3, <3>1, <3>2 DEF Places, HasAt
      <4> QED BY <3>2, <4>1
    <3>3. CASE q[1] = i
      <4>1. q = <<i, q[2]>> /\ q[2] \in 1..(k - 1) /\ ms[i][q[2]] = w
        BY <1>2, <1>3, <3>1, <3>3 DEF HasAt
      <4>2. q[2] + 1 \in 1..k /\ q[2] + 1 # 1 /\ q[2] + 1 - 1 = q[2] /\ ls[i][q[2] + 1] = w
        BY <1>1, <1>2, <1>3, <4>1
      <4>3. <<i, q[2] + 1>> \in S
        BY <1>1, <4>2 DEF Places, HasAt
      <4>4. Moved(<<i, q[2] + 1>>) = q
        BY <4>1, <4>2
      <4> QED BY <4>3, <4>4
    <3> QED BY <3>2, <3>3
  <2> HIDE DEF S, Moved
  <2>4. f \in Bijection(S, Places(ms, w))
    <3>1. f \in [S -> Places(ms, w)] /\ \A p \in S : f[p] = Moved(p)
      BY <2>1
    <3> HIDE DEF f
    <3>2. f \in Injection(S, Places(ms, w))
      BY <2>2, <3>1 DEF Injection, IsInjective
    <3>3. f \in Surjection(S, Places(ms, w))
      BY <2>3, <3>1 DEF Surjection
    <3> QED BY <3>2, <3>3 DEF Bijection
  <2> QED BY <2>4 DEF ExistsBijection, S
<1> QED BY <1>2, <1>3, <1>4, <1>5

(* A new list has no task.                                                   *)
LEMMA OneMoreList ==
  ASSUME NEW T, NEW ls \in Seq(Seq(T))
  PROVE  /\ Append(ls, << >>) \in Seq(Seq(T))
         /\ \A v : Places(Append(ls, << >>), v) = Places(ls, v)
<1> DEFINE ms == Append(ls, << >>)
<1>1. << >> \in Seq(T)
  OBVIOUS
<1>2. /\ ms \in Seq(Seq(T)) /\ Len(ms) = Len(ls) + 1 /\ ms[Len(ls) + 1] = << >>
      /\ \A m \in 1..Len(ls) : ms[m] = ls[m]
  BY <1>1
<1> HIDE DEF ms
<1>3. ASSUME NEW v, NEW p \in Nat \X Nat
      PROVE  HasAt(ms, p, v) <=> HasAt(ls, p, v)
  <2>1. CASE p[1] \in 1..Len(ls)
    <3>a. ms[p[1]] = ls[p[1]]
      BY <1>2, <2>1, Zenon
    <3>b. Len(ls) \in Nat /\ Len(ms) = Len(ls) + 1
      BY <1>2
    <3>c. p[1] \in 1..Len(ms)
      BY <2>1, <3>b
    <3>1. ms[p[1]] = ls[p[1]] /\ p[1] \in 1..Len(ms)
      BY <3>a, <3>c
    <3>2. HasAt(ms, p, v) <=> p[2] \in 1..Len(ms[p[1]]) /\ ms[p[1]][p[2]] = v
      BY <3>1 DEF HasAt
    <3>3. HasAt(ls, p, v) <=> p[2] \in 1..Len(ls[p[1]]) /\ ls[p[1]][p[2]] = v
      BY <2>1 DEF HasAt
    <3> QED BY <3>1, <3>2, <3>3
  <2>2. CASE p[1] = Len(ls) + 1
    <3>1. Len(ms[p[1]]) = 0
      BY <1>2, <2>2
    <3> QED BY <2>2, <3>1 DEF HasAt
  <2>3. CASE p[1] \notin 1..(Len(ls) + 1)
    BY <1>2, <2>3 DEF HasAt
  <2> QED BY <2>1, <2>2, <2>3
<1>4. \A v : Places(ms, v) = Places(ls, v)
  BY <1>3 DEF Places
<1> QED BY <1>2, <1>4 DEF ms

(* TaskQueue counts as this module does.                                     *)
LEMMA QueueCounts ==
  \A S : Queue!Cardinality(S) = Cardinality(S)
BY DEF Queue!Cardinality, Cardinality

(* The index is what the queue is as a collection.                           *)
Times == [v \in Value |-> Queue!QueuedTimes(v)]

LEMMA TimesAreIndex ==
  ASSUME QueueInv
  PROVE  Times = index
<1>1. lists \in Seq(Seq(Value))
  BY DEF QueueInv
<1>2. ASSUME NEW v \in Value
      PROVE  Queue!QueuedTimes(v) = index[v]
  <2>1. Queue!Spots(v) = Places(lists, v)
    BY <1>1, SpotsArePlaces DEF Queue!Spots
  <2>2. Queue!QueuedTimes(v) = Cardinality(Places(lists, v))
    BY <2>1, QueueCounts DEF Queue!QueuedTimes
  <2> QED BY <2>2 DEF QueueInv
<1> QED BY <1>2 DEF Times, QueueInv

LEMMA QueueAdds ==
  ASSUME QueueInv, NEW v \in Value, Queue!Add(v)
  PROVE  QueueInv' /\ index' = [index EXCEPT ![v] = @ + 1] /\ answer' = <<"put", v>>
<1>1. PICK i \in DOMAIN lists : lists' = [lists EXCEPT ![i] = Append(@, v)]
  BY DEF Queue!Add
<1>2. /\ index' = [index EXCEPT ![v] = @ + 1] /\ answer' = <<"put", v>>
      /\ lists \in Seq(Seq(Value)) /\ i \in 1..Len(lists)
  BY DEF QueueInv, Queue!Add
<1>a. lists' \in Seq(Seq(Value)) /\ Queue!Size' = Queue!Size + 1
  BY <1>1, <1>2, OneMoreQueued
<1>b. counters' \in Seq(Int) /\ Queue!Total(counters') = Queue!Total(counters) + 1
  BY CounterCounts DEF QueueInv, Queue!Add
<1>c. Queue!Total(counters') = Queue!Size'
  BY <1>a, <1>b DEF QueueInv
<1>3. PICK p : /\ lists' \in Seq(Seq(Value))
               /\ p \notin Places(lists, v) /\ Places(lists', v) = Places(lists, v) \cup {p}
               /\ \A w : w # v => Places(lists', w) = Places(lists, w)
  BY <1>1, <1>2, OneMoreQueued
<1>4. index' \in [Value -> Nat]
  BY <1>2 DEF QueueInv
<1>5. ASSUME NEW w \in Value
      PROVE  IsFiniteSet(Places(lists', w)) /\ index'[w] = Cardinality(Places(lists', w))
  <2>1. IsFiniteSet(Places(lists, w)) /\ index[w] = Cardinality(Places(lists, w))
    BY DEF QueueInv
  <2>2. CASE w # v
    <3>1. index'[w] = index[w]
      BY <1>2, <2>2 DEF QueueInv
    <3> QED BY <1>3, <2>1, <2>2, <3>1
  <2>3. CASE w = v
    <3>1. index'[w] = index[w] + 1
      BY <1>2, <2>3 DEF QueueInv
    <3>2. /\ IsFiniteSet(Places(lists, v) \cup {p})
          /\ Cardinality(Places(lists, v) \cup {p}) = Cardinality(Places(lists, v)) + 1
      BY <1>3, <2>1, <2>3, FS_AddElement
    <3> QED BY <1>3, <2>1, <2>3, <3>1, <3>2
  <2> QED BY <2>2, <2>3
<1> QED BY <1>2, <1>a, <1>b, <1>c, <1>4, <1>5 DEF QueueInv

LEMMA QueueTakes ==
  ASSUME QueueInv, NEW i \in DOMAIN lists, Queue!TakenFrom(i)
  PROVE  /\ QueueInv'
         /\ \E v \in Value : /\ index[v] > 0 /\ index' = [index EXCEPT ![v] = @ - 1]
                             /\ answer' = <<"drop", v>>
<1> DEFINE v == Head(lists[i])
<1>1. /\ lists' = [lists EXCEPT ![i] = Tail(@)] /\ lists[i] # << >>
      /\ lists \in Seq(Seq(Value)) /\ i \in 1..Len(lists)
      /\ index' = [index EXCEPT ![v] = IF @ > 0 THEN @ - 1 ELSE @] /\ answer' = <<"drop", v>>
  BY DEF QueueInv, Queue!TakenFrom, Queue!Unindexed
<1>2. /\ lists' \in Seq(Seq(Value)) /\ v \in Value
      /\ <<i, 1>> \in Places(lists, v)
      /\ \A w : ExistsBijection(Places(lists, w) \ {<<i, 1>>}, Places(lists', w))
      /\ \A w : w # v => <<i, 1>> \notin Places(lists, w)
  BY <1>1, OneLessQueued
<1>a. Queue!Size' = Queue!Size - 1
  <2>1. /\ lists[i] \in Seq(Value) /\ DOMAIN lists = 1..Len(lists)
        /\ lists'[i] = Tail(lists[i]) /\ Len(lists') = Len(lists)
        /\ \A m \in 1..Len(lists) : m # i => lists'[m] = lists[m]
    BY <1>1
  <2>2. Len(lists'[i]) = Len(lists[i]) + (-1)
    BY <1>1, <2>1
  <2>3. Queue!Size \in Int /\ Queue!Size' = Queue!Size + (-1)
    <3>1. lists' \in Seq(Seq(Value)) /\ lists \in Seq(Seq(Value)) /\ -1 \in Int
      BY <1>1, <1>2
    <3> QED BY <1>1, <2>1, <2>2, <3>1, SizeGrows
  <2> QED BY <2>3
<1>b. counters' \in Seq(Int) /\ Queue!Total(counters') = Queue!Total(counters) + (-1)
  BY CounterCounts DEF QueueInv, Queue!TakenFrom
<1>d. Queue!Size \in Int
  BY <1>1, SizeIsInt
<1>c. Queue!Total(counters') = Queue!Size'
  BY <1>a, <1>b, <1>d DEF QueueInv
<1> HIDE DEF v
<1>3. IsFiniteSet(Places(lists, v)) /\ index[v] = Cardinality(Places(lists, v)) /\ index[v] \in Nat
  BY <1>2 DEF QueueInv
<1>4. index[v] > 0
  <2>1. index[v] # 0
    BY <1>2, <1>3, FS_EmptySet
  <2> QED BY <1>3, <2>1
<1>5. index' = [index EXCEPT ![v] = @ - 1] /\ index' \in [Value -> Nat]
  BY <1>1, <1>2, <1>3, <1>4 DEF QueueInv
<1>6. ASSUME NEW w \in Value
      PROVE  IsFiniteSet(Places(lists', w)) /\ index'[w] = Cardinality(Places(lists', w))
  <2> DEFINE S == Places(lists, w)
  <2>1. IsFiniteSet(S) /\ index[w] = Cardinality(S)
    BY DEF QueueInv
  <2>2. /\ IsFiniteSet(S \ {<<i, 1>>})
        /\ Cardinality(S \ {<<i, 1>>}) = IF <<i, 1>> \in S THEN Cardinality(S) - 1
                                         ELSE Cardinality(S)
    BY <2>1, FS_RemoveElement
  <2>3. /\ IsFiniteSet(Places(lists', w))
        /\ Cardinality(Places(lists', w)) = Cardinality(S \ {<<i, 1>>})
    BY <1>2, <2>2, FS_Bijection
  <2> HIDE DEF S
  <2>4. index'[w] = IF w = v THEN index[w] - 1 ELSE index[w]
    BY <1>5, <1>2 DEF QueueInv
  <2>5. <<i, 1>> \in S <=> w = v
    BY <1>2 DEF S
  <2> QED BY <2>1, <2>2, <2>3, <2>4, <2>5
<1> QED BY <1>1, <1>2, <1>b, <1>c, <1>4, <1>5, <1>6 DEF QueueInv

(* As many empty lists as there are lists are all of them.                   *)
LEMMA QueueSaysNone ==
  ASSUME QueueInv, Queue!TakeNone
  PROVE  /\ QueueInv'
         /\ \A v \in Value : index[v] = 0
         /\ UNCHANGED index /\ answer' = <<"empty">>
<1>a. /\ lists \in Seq(Seq(Value)) /\ Len(lists) \in Nat /\ DOMAIN lists = 1..Len(lists)
      /\ Cardinality(Queue!EmptyLists) >= Len(lists)
  BY QueueCounts DEF QueueInv, Queue!TakeNone, Queue!AllEmpty
<1>b. UNCHANGED <<lists, counters, index>> /\ answer' = <<"empty">>
  BY DEF Queue!TakeNone
<1>c. Queue!EmptyLists = {i \in 1..Len(lists) : lists[i] = << >>}
  BY <1>a DEF Queue!EmptyLists
<1>1. /\ Cardinality(Queue!EmptyLists) >= Len(lists)
      /\ UNCHANGED <<lists, counters, index>> /\ answer' = <<"empty">>
      /\ lists \in Seq(Seq(Value)) /\ Len(lists) \in Nat
      /\ Queue!EmptyLists = {i \in 1..Len(lists) : lists[i] = << >>}
  BY <1>a, <1>b, <1>c
<1>2. IsFiniteSet(1..Len(lists)) /\ Cardinality(1..Len(lists)) = Len(lists)
  BY <1>1, FS_Interval
<1>3. Queue!EmptyLists \in SUBSET (1..Len(lists))
  BY <1>1
<1>4. /\ IsFiniteSet(Queue!EmptyLists)
      /\ Cardinality(Queue!EmptyLists) <= Len(lists)
      /\ Len(lists) = Cardinality(Queue!EmptyLists) => 1..Len(lists) = Queue!EmptyLists
  BY <1>2, <1>3, FS_Subset
<1>5. Cardinality(Queue!EmptyLists) \in Nat
  BY <1>4, FS_CardinalityType
<1>6. 1..Len(lists) = Queue!EmptyLists
  BY <1>1, <1>4, <1>5
<1>7. ASSUME NEW i \in 1..Len(lists)
      PROVE  Len(lists[i]) = 0
  <2>1. i \in Queue!EmptyLists
    BY <1>6
  <2>2. lists[i] = << >>
    BY <1>c, <2>1
  <2> QED BY <2>2
<1>8. \A v \in Value : Places(lists, v) = {}
  BY <1>1, <1>7, NoPlaces
<1>9. \A v \in Value : index[v] = 0
  BY <1>8, FS_EmptySet DEF QueueInv
<1>10. QueueInv'
  BY <1>1 DEF QueueInv, Queue!Size
<1> QED BY <1>1, <1>9, <1>10

LEMMA QueueGrows ==
  ASSUME QueueInv, Queue!Grow
  PROVE  QueueInv' /\ UNCHANGED <<index, answer>>
<1>1. /\ lists' = Append(lists, << >>) /\ UNCHANGED <<counters, index, answer>>
      /\ lists \in Seq(Seq(Value))
  BY DEF QueueInv, Queue!Grow
<1>2. lists' \in Seq(Seq(Value)) /\ \A v : Places(lists', v) = Places(lists, v)
  BY <1>1, OneMoreList
<1>3. Queue!Size' = Queue!Size
  <2> DEFINE s == [m \in 1..Len(lists) |-> Len(lists[m])]
             r == [m \in 1..(Len(lists) + 1) |-> Len(lists'[m])]
  <2>1. /\ DOMAIN lists = 1..Len(lists) /\ DOMAIN lists' = 1..(Len(lists) + 1)
        /\ Len(lists) \in Nat /\ lists'[Len(lists) + 1] = << >>
        /\ \A m \in 1..Len(lists) : lists'[m] = lists[m]
    BY <1>1
  <2>2. \A m \in 1..Len(lists) : Len(lists[m]) \in Int
    BY <1>1
  <2>3. s \in Seq(Int) /\ Len(s) = Len(lists)
    BY <2>1, <2>2
  <2>4. r = Append(s, 0)
    <3>1. \A m \in 1..(Len(lists) + 1) : r[m] = Append(s, 0)[m]
      BY <2>1, <2>3
    <3> DEFINE q == Append(s, 0)
    <3>2. q \in Seq(Int) /\ Len(q) = Len(lists) + 1
      BY <2>1, <2>3
    <3>3. q = [m \in 1..(Len(lists) + 1) |-> q[m]]
      <4> HIDE DEF q
      <4> QED BY <3>2
    <3>4. r = [m \in 1..(Len(lists) + 1) |-> r[m]]
      OBVIOUS
    <3> HIDE DEF q, r
    <3>5. \A m \in 1..(Len(lists) + 1) : r[m] = q[m]
      BY <3>1 DEF q
    <3>6. r = q
      BY <3>3, <3>4, <3>5
    <3> QED BY <3>6 DEF q
  <2>5. Queue!Size = Queue!Total(s) /\ Queue!Size' = Queue!Total(r)
    BY <2>1 DEF Queue!Size
  <2> HIDE DEF s, r
  <2> QED BY <2>3, <2>4, <2>5, TotalKept
<1> QED BY <1>1, <1>2, <1>3 DEF QueueInv

(* Every step but init keeps the queue, and index and answer tell which.     *)
LEMMA QueueSteps ==
  ASSUME QueueInv, [Queue!Next]_(Queue!vars), ~Queue!Reinit
  PROVE  /\ QueueInv'
         /\ \/ UNCHANGED <<index, answer>>
            \/ (\A v \in Value : index[v] = 0) /\ UNCHANGED index /\ answer' = <<"empty">>
            \/ \E v \in Value : \/ /\ index' = [index EXCEPT ![v] = @ + 1]
                                   /\ answer' = <<"put", v>>
                                \/ /\ index[v] > 0 /\ index' = [index EXCEPT ![v] = @ - 1]
                                   /\ answer' = <<"drop", v>>
<1>1. ASSUME NEW v \in Value, Queue!Add(v)
      PROVE  QueueInv' /\ index' = [index EXCEPT ![v] = @ + 1] /\ answer' = <<"put", v>>
  BY <1>1, QueueAdds
<1>2. ASSUME NEW i \in DOMAIN lists, Queue!TakenFrom(i)
      PROVE  /\ QueueInv'
             /\ \E v \in Value : /\ index[v] > 0 /\ index' = [index EXCEPT ![v] = @ - 1]
                                 /\ answer' = <<"drop", v>>
  BY <1>2, QueueTakes
<1>3. CASE Queue!TakeNone
  BY <1>3, QueueSaysNone
<1>4. CASE Queue!Grow
  BY <1>4, QueueGrows
<1>5. CASE UNCHANGED Queue!vars
  BY <1>5 DEF QueueInv, Queue!vars, Queue!Size
<1>6. CASE Queue!Take
  BY <1>2, <1>6 DEF Queue!Take
<1>7. CASE Queue!TakeAny
  BY <1>2, <1>7 DEF Queue!TakeAny
<1> QED BY <1>1, <1>3, <1>4, <1>5, <1>6, <1>7 DEF Queue!Next

(* A queue that init replaces is a new one.                                  *)
LEMMA QueueIsReplaced ==
  ASSUME Width \in Nat
  PROVE  Queue!Reinit => QueueInv'
<1> DEFINE Renewed == /\ lists = Queue!Empties /\ counters = Queue!NoCounts
                      /\ index = [v \in Value |-> 0]
<1>1. Renewed => QueueInv
  BY NewQueue
<1>2. Renewed' => QueueInv'
  BY <1>1, PTL
<1>3. Queue!Reinit => Renewed'
  BY DEF Queue!Reinit, Queue!Empties, Queue!NoCounts
<1> QED BY <1>2, <1>3

(* The counters sum to the number of queued tasks, and the ids in the index  *)
(* are those of the tasks in the lists, each as often                        *)
(* (TaskQueue.scala:152-197): what is queued is contained, what was taken is *)
(* not, size() answers right, and the require of take() never fails; for any *)
(* tasks, any number of lists to begin with and any that grow adds, whatever *)
(* lists and counters are met, and also when a node calls init anew.         *)
THEOREM QueueIsRight ==
  ASSUME Width \in Nat
  PROVE  Queue!Spec => []QueueAgrees
<1>1. Queue!Init => QueueInv
  BY QueueInitially
<1>2. QueueInv /\ [Queue!Next]_(Queue!vars) => QueueInv'
  BY QueueSteps, QueueIsReplaced
<1>3. ASSUME QueueInv
      PROVE  QueueAgrees
  BY <1>3, TimesAreIndex DEF QueueAgrees, Queue!IndexAgrees, Queue!SizeAgrees, Times, QueueInv
<1> QED BY <1>1, <1>2, <1>3, PTL DEF Queue!Spec

(* Whatever lists and counters its operations meet, the queue behaves as a   *)
(* collection (TaskQueue.scala:80-131): an add adds its task once, a take    *)
(* takes one that was there, the one it answers, and take() answers None     *)
(* only when no list has any.                                                *)
THEOREM QueueIsCollection ==
  ASSUME Width \in Nat, ~Restarts
  PROVE  Queue!Spec => Queue!ImplementsCollection
<1>1. Queue!Init => QueueInv /\ Queue!Abstract!CollectionInit
  BY QueueInitially, TimesAreIndex DEF Queue!Abstract!CollectionInit, Times
<1>2. QueueInv => Times = index
  BY TimesAreIndex
<1>3. QueueInv' => (Times = index)'
  BY <1>2, PTL
<1>4. QueueInv /\ [Queue!Next]_(Queue!vars) =>
        QueueInv' /\ [Queue!Abstract!CollectionNext]_<<Times, answer>>
  <2> SUFFICES ASSUME QueueInv, [Queue!Next]_(Queue!vars)
               PROVE  QueueInv' /\ [Queue!Abstract!CollectionNext]_<<Times, answer>>
    OBVIOUS
  <2>0. ~Queue!Reinit
    BY DEF Queue!Reinit
  <2>1. QueueInv'
    BY <2>0, QueueSteps
  <2>2. Times = index /\ Times' = index'
    BY <1>2, <1>3, <2>1
  <2>3. CASE UNCHANGED <<index, answer>>
    BY <2>1, <2>2, <2>3
  <2>4. CASE (\A v \in Value : index[v] = 0) /\ UNCHANGED index /\ answer' = <<"empty">>
    <3>1. Queue!Abstract!Empty
      BY <2>2, <2>4 DEF Queue!Abstract!Empty, Times
    <3> QED BY <2>1, <3>1 DEF Queue!Abstract!CollectionNext
  <2>5. ASSUME NEW v \in Value, index' = [index EXCEPT ![v] = @ + 1], answer' = <<"put", v>>
        PROVE  Queue!Abstract!CollectionNext
    <3>1. Queue!Abstract!Put(v)
      BY <2>2, <2>5 DEF Queue!Abstract!Put, Times
    <3> QED BY <3>1 DEF Queue!Abstract!CollectionNext
  <2>6. ASSUME NEW v \in Value, index[v] > 0, index' = [index EXCEPT ![v] = @ - 1],
               answer' = <<"drop", v>>
        PROVE  Queue!Abstract!CollectionNext
    <3>1. Queue!Abstract!Drop(v)
      BY <2>2, <2>6 DEF Queue!Abstract!Drop, Times
    <3> QED BY <3>1 DEF Queue!Abstract!CollectionNext
  <2> QED BY <2>0, <2>1, <2>3, <2>4, <2>5, <2>6, QueueSteps
<1> QED BY <1>1, <1>4, PTL DEF Queue!Spec, Queue!ImplementsCollection,
                               Queue!Abstract!CollectionSpec, Times

(* Ways.                                                                     *)
Bit == {0, 1}

LEMMA WayFacts ==
  /\ \A w \in Way : Len(w) \in Nat /\ \A i \in 1..Len(w) : w[i] \in Bit
  /\ Top \in Way /\ Len(Top) = 0
  /\ \A w \in Way, s \in Bit :
       /\ Append(w, s) \in Way /\ Len(Append(w, s)) = Len(w) + 1
       /\ Append(w, s)[Len(w) + 1] = s
       /\ \A i \in 1..Len(w) : Append(w, s)[i] = w[i]
  /\ \A u, w \in Way : Len(u) = Len(w) /\ (\A i \in 1..Len(u) : u[i] = w[i]) => u = w
BY DEF Way, Bit, Top

(* A tree, by the ways to its nodes.                                         *)
Shape(D) ==
  /\ D \in SUBSET Way /\ IsFiniteSet(D)
  /\ \E n \in Nat : \A w \in D : Len(w) <= n
  /\ \A x \in D, u \in Way, s \in Bit : Under(u, s, x) => u \in D

(* Below a way is the way itself, or what is on one of its sides.            *)
LEMMA WithinIs ==
  ASSUME NEW u \in Way, NEW x \in Way
  PROVE  Within(u, x) <=> u = x \/ \E s \in Bit : Under(u, s, x)
<1>1. ASSUME Within(u, x), u # x
      PROVE  \E s \in Bit : Under(u, s, x)
  <2>1. Len(x) > Len(u)
    BY <1>1, WayFacts DEF Within
  <2> QED BY <1>1, <2>1, WayFacts DEF Within, Under
<1>2. u = x => Within(u, x)
  BY WayFacts DEF Within
<1>3. ASSUME NEW s \in Bit, Under(u, s, x)
      PROVE  Within(u, x)
  BY <1>3, WayFacts DEF Within, Under
<1> QED BY <1>1, <1>2, <1>3

(* The side is one or the other.                                             *)
LEMMA OneSide ==
  ASSUME NEW u \in Way, NEW x \in Way, NEW s \in Bit, NEW r \in Bit, Under(u, s, x), Under(u, r, x)
  PROVE  s = r
BY DEF Under

(* What is on a side of a node is the child there, or below it.              *)
LEMMA UnderIsWithinChild ==
  ASSUME NEW u \in Way, NEW x \in Way, NEW s \in Bit
  PROVE  Under(u, s, x) <=> Within(Append(u, s), x)
<1>1. Len(Append(u, s)) = Len(u) + 1 /\ Append(u, s)[Len(u) + 1] = s
      /\ \A i \in 1..Len(u) : Append(u, s)[i] = u[i]
  BY WayFacts
<1>2. Len(u) \in Nat /\ Len(x) \in Nat
  BY WayFacts
<1>3. ASSUME Under(u, s, x), NEW i \in 1..Len(Append(u, s))
      PROVE  x[i] = Append(u, s)[i]
  BY <1>1, <1>2, <1>3 DEF Under
<1> QED BY <1>1, <1>2, <1>3 DEF Under, Within

(* A tree has with a node all above it.                                      *)
LEMMA AllAbove ==
  ASSUME NEW D, Shape(D), NEW x \in D, NEW u \in Way, Within(u, x)
  PROVE  u \in D
BY WithinIs DEF Shape

(* What is below something below is below.                                   *)
LEMMA WithinWithin ==
  ASSUME NEW u \in Way, NEW w \in Way, NEW x \in Way, Within(u, w), Within(w, x)
  PROVE  Within(u, x)
BY WayFacts DEF Within

LEMMA UnderWithin ==
  ASSUME NEW u \in Way, NEW w \in Way, NEW x \in Way, NEW s \in Bit, Under(u, s, w), Within(w, x)
  PROVE  Under(u, s, x)
<1>1. Append(u, s) \in Way
  BY WayFacts
<1> QED BY <1>1, UnderIsWithinChild, WithinWithin

(* A free place is no node's, and no node is below it.                       *)
LEMMA FreePlace ==
  ASSUME NEW t, Shape(DOMAIN t), NEW w \in Free(t)
  PROVE  /\ w \in Way /\ w \notin DOMAIN t
         /\ \A x \in DOMAIN t, s \in Bit : ~Under(w, s, x)
         /\ \A u \in Way, s \in Bit : Under(u, s, w) => u \in DOMAIN t
<1> DEFINE D == DOMAIN t
           Y == UNION {Children(p) : p \in D}
<1>1. CASE D = {}
  <2>1. w = Top
    BY <1>1 DEF Free
  <2> QED BY <1>1, <2>1, WayFacts DEF Under
<1>2. CASE D # {}
  <2>1. w \in Y /\ w \notin D
    BY <1>2 DEF Free
  <2>2. PICK p \in D, r \in Bit : w = Append(p, r)
    BY <2>1 DEF Children, Bit
  <2>3. p \in Way /\ w \in Way
    BY <2>2, WayFacts DEF Shape
  <2>4. ASSUME NEW x \in DOMAIN t, NEW s \in Bit, Under(w, s, x)
        PROVE  FALSE
    BY <2>1, <2>3, <2>4 DEF Shape
  <2>5. ASSUME NEW u \in Way, NEW s \in Bit, Under(u, s, w)
        PROVE  u \in DOMAIN t
    <3>1. Len(w) = Len(p) + 1 /\ \A i \in 1..Len(p) : w[i] = p[i]
      BY <2>2, <2>3, WayFacts
    <3>2. Len(u) \in Nat /\ Len(p) \in Nat
      BY <2>3, WayFacts
    <3>3. Within(u, p)
      BY <2>5, <3>1, <3>2 DEF Under, Within
    <3> QED BY <2>2, <3>3, AllAbove
  <2> QED BY <2>1, <2>3, <2>4, <2>5
<1> QED BY <1>1, <1>2

LEMMA ShapeGrows ==
  ASSUME NEW t, Shape(DOMAIN t), NEW w \in Free(t)
  PROVE  Shape(DOMAIN t \cup {w})
<1> DEFINE D == DOMAIN t \cup {w}
<1>1. w \in Way /\ \A u \in Way, s \in Bit : Under(u, s, w) => u \in DOMAIN t
  BY FreePlace
<1>2. IsFiniteSet(D)
  BY FS_AddElement DEF Shape
<1>3. \E n \in Nat : \A x \in D : Len(x) <= n
  <2>1. PICK n \in Nat : \A x \in DOMAIN t : Len(x) <= n
    BY DEF Shape
  <2>2. n + Len(w) \in Nat /\ \A x \in D : Len(x) <= n + Len(w)
    BY <1>1, <2>1, WayFacts DEF Shape
  <2> QED BY <2>2
<1>4. D \in SUBSET Way
  BY <1>1 DEF Shape
<1>5. \A x \in D, u \in Way, s \in Bit : Under(u, s, x) => u \in D
  BY <1>1 DEF Shape
<1> HIDE DEF D
<1>6. Shape(D)
  BY <1>2, <1>3, <1>4, <1>5 DEF Shape
<1> QED BY <1>6 DEF D

LEMMA ShapeShrinks ==
  ASSUME NEW t, Shape(DOMAIN t), NEW L \in SUBSET Leaves(t)
  PROVE  Shape(DOMAIN t \ L)
<1> DEFINE D == DOMAIN t \ L
<1>1. D \in SUBSET Way /\ D \in SUBSET DOMAIN t
  BY DEF Shape
<1>2. IsFiniteSet(D)
  BY <1>1, FS_Subset DEF Shape
<1>3. \E n \in Nat : \A x \in D : Len(x) <= n
  BY <1>1 DEF Shape
<1>4. ASSUME NEW x \in D, NEW u \in Way, NEW s \in Bit, Under(u, s, x)
      PROVE  u \in D
  <2>1. u \in DOMAIN t /\ x \in DOMAIN t /\ x \in Way
    BY <1>1, <1>4 DEF Shape
  <2>2. Append(u, s) \in DOMAIN t
    BY <1>4, <2>1, UnderIsWithinChild, AllAbove, WayFacts
  <2>3. u \notin Leaves(t)
    BY <2>2 DEF Leaves, Children, Bit
  <2> QED BY <2>1, <2>3
<1> HIDE DEF D
<1>5. Shape(D)
  BY <1>1, <1>2, <1>3, <1>4 DEF Shape
<1> QED BY <1>5 DEF D

(* Going on to one side ends at a node that has no child there.              *)
LEMMA EndIsThere ==
  ASSUME NEW t, Shape(DOMAIN t), NEW w \in DOMAIN t, NEW s \in Bit
  PROVE  End(t, w, s) \in Straight(t, w, s) /\ Append(End(t, w, s), s) \notin DOMAIN t
<1> DEFINE S == Straight(t, w, s)
<1>1. PICK n \in Nat : \A x \in DOMAIN t : Len(x) <= n
  BY DEF Shape
<1>2. \A x \in S : x \in DOMAIN t /\ x \in Way /\ Len(x) \in Nat /\ Len(x) <= n
  BY <1>1, WayFacts DEF Straight, Shape
<1>3. w \in S
  <2>1. w \in Way /\ Len(w) \in Nat
    BY WayFacts DEF Shape
  <2> QED BY <2>1 DEF Straight, Within
<1> DEFINE M == {n - Len(x) : x \in S}
<1>4. M \in SUBSET Nat
  <2> SUFFICES ASSUME NEW x \in S PROVE n - Len(x) \in Nat
    OBVIOUS
  <2> QED BY <1>2
<1>5. n - Len(w) \in M
  BY <1>3
<1>6. PICK m \in M : \A k \in M : m <= k
  BY <1>4, <1>5, Least
<1>7. PICK x \in S : m = n - Len(x)
  BY <1>6
<1>8. Append(x, s) \notin DOMAIN t
  <2> SUFFICES ASSUME Append(x, s) \in DOMAIN t
               PROVE  FALSE
    OBVIOUS
  <2> DEFINE y == Append(x, s)
  <2>1. /\ y \in Way /\ Len(y) = Len(x) + 1 /\ y[Len(x) + 1] = s
        /\ \A i \in 1..Len(x) : y[i] = x[i]
    BY <1>2, WayFacts
  <2>2. Len(w) \in Nat /\ Len(x) \in Nat /\ Len(x) >= Len(w)
        /\ (\A i \in 1..Len(w) : x[i] = w[i]) /\ \A i \in (Len(w) + 1)..Len(x) : x[i] = s
    BY <1>2, WayFacts DEF Straight, Within, Shape
  <2> HIDE DEF y
  <2>3. Within(w, y)
    BY <2>1, <2>2 DEF Within
  <2>4. \A i \in (Len(w) + 1)..Len(y) : y[i] = s
    BY <2>1, <2>2
  <2>5. y \in S
    BY <2>3, <2>4 DEF Straight, y
  <2>6. n - Len(y) \in M
    BY <2>5
  <2>7. m <= n - Len(y)
    BY <1>6, <2>6
  <2> QED BY <1>2, <1>7, <2>1, <2>2, <2>7
<1> QED BY <1>7, <1>8 DEF End

(* Any beginning of a way is a way.                                          *)
LEMMA Beginning ==
  ASSUME NEW x \in Way, NEW n \in 0..Len(x)
  PROVE  \E u \in Way : Len(u) = n /\ \A i \in 1..n : u[i] = x[i]
<1> DEFINE u == [i \in 1..n |-> x[i]]
<1>1. n \in Nat /\ \A i \in 1..n : x[i] \in Bit
  BY WayFacts
<1>2. u \in Way /\ Len(u) = n
  BY <1>1 DEF Way, Bit
<1> QED BY <1>2

(* Who goes on straight passes all the nodes that are straight on.           *)
LEMMA EndIsLast ==
  ASSUME NEW t, Shape(DOMAIN t), NEW w \in DOMAIN t, NEW s \in Bit, NEW u \in Straight(t, w, s)
  PROVE  u = End(t, w, s) \/ Under(u, s, End(t, w, s))
<1> DEFINE e == End(t, w, s)
<1>1. e \in Straight(t, w, s) /\ Append(e, s) \notin DOMAIN t
  BY EndIsThere
<1> HIDE DEF e
<1>2. /\ w \in Way /\ u \in Way /\ e \in Way /\ u \in DOMAIN t /\ e \in DOMAIN t
      /\ Within(w, u) /\ Within(w, e)
      /\ \A i \in (Len(w) + 1)..Len(u) : u[i] = s
      /\ \A i \in (Len(w) + 1)..Len(e) : e[i] = s
  BY <1>1 DEF Straight, Shape
<1>3. Len(w) \in Nat /\ Len(u) \in Nat /\ Len(e) \in Nat
  BY <1>2, WayFacts
<1>4. \A i \in 1..Len(u) : i \in 1..Len(e) => u[i] = e[i]
  <2> SUFFICES ASSUME NEW i \in 1..Len(u), i \in 1..Len(e)
               PROVE  u[i] = e[i]
    OBVIOUS
  <2>1. CASE i <= Len(w)
    BY <1>2, <1>3, <2>1 DEF Within
  <2>2. CASE i > Len(w)
    BY <1>2, <1>3, <2>2
  <2> QED BY <1>3, <2>1, <2>2
<1>5. CASE Len(u) > Len(e)
  <2>1. /\ Append(e, s) \in Way /\ Len(Append(e, s)) = Len(e) + 1 /\ Append(e, s)[Len(e) + 1] = s
        /\ \A i \in 1..Len(e) : Append(e, s)[i] = e[i]
    BY <1>2, WayFacts
  <2>2. Len(e) >= Len(w)
    BY <1>2 DEF Within
  <2>3. u[Len(e) + 1] = s
    BY <1>2, <1>3, <1>5, <2>2
  <2>4. Within(Append(e, s), u)
    BY <1>3, <1>4, <1>5, <2>1, <2>3 DEF Within
  <2> QED BY <1>1, <1>2, <2>1, <2>4, AllAbove
<1>6. CASE Len(u) = Len(e)
  BY <1>2, <1>3, <1>4, <1>6, WayFacts DEF e
<1>7. CASE Len(u) < Len(e)
  <2>1. Len(u) >= Len(w)
    BY <1>2 DEF Within
  <2>2. e[Len(u) + 1] = s
    BY <1>2, <1>3, <1>7, <2>1
  <2> QED BY <1>3, <1>4, <1>7, <2>2 DEF Under, e
<1> QED BY <1>3, <1>5, <1>6, <1>7

(* What is below w is straight on, or below a node that is, at the other side*)
LEMMA StraightOrAside ==
  ASSUME NEW t, Shape(DOMAIN t), NEW w \in DOMAIN t, NEW s \in Bit,
         NEW x \in DOMAIN t, Within(w, x), x \notin Straight(t, w, s)
  PROVE  \E u \in Straight(t, w, s), r \in Bit : r # s /\ Under(u, r, x)
<1> DEFINE M == {i \in Nat : i \in (Len(w) + 1)..Len(x) /\ x[i] # s}
<1>1. w \in Way /\ x \in Way /\ Len(w) \in Nat /\ Len(x) \in Nat
  BY WayFacts DEF Shape
<1>2. M # {}
  BY <1>1 DEF Straight
<1>3. PICK j \in M : \A k \in M : j <= k
  BY <1>2, Least
<1>4. j \in (Len(w) + 1)..Len(x) /\ x[j] # s /\ \A i \in (Len(w) + 1)..(j - 1) : x[i] = s
  BY <1>1, <1>3
<1> HIDE DEF M
<1>5. PICK u \in Way : Len(u) = j - 1 /\ \A i \in 1..(j - 1) : u[i] = x[i]
  <2>1. j - 1 \in 0..Len(x)
    BY <1>1, <1>4
  <2> QED BY <1>1, <2>1, Beginning
<1>6. x[j] \in Bit
  BY <1>1, <1>4, WayFacts
<1>7. Under(u, x[j], x) /\ Within(u, x)
  BY <1>1, <1>4, <1>5 DEF Under, Within
<1>8. u \in DOMAIN t
  BY <1>7, AllAbove
<1>9. Within(w, u)
  BY <1>1, <1>4, <1>5 DEF Within
<1>10. u \in Straight(t, w, s)
  BY <1>1, <1>4, <1>5, <1>8, <1>9 DEF Straight
<1> QED BY <1>4, <1>6, <1>7, <1>10

(* The search tree, TreeSet.scala.                                           *)

(* What is left of a node is not less, what is right of it is not greater.   *)
Ordered(t) ==
  \A u, x \in DOMAIN t : (Under(u, 0, x) => t[x] >= t[u]) /\ (Under(u, 1, x) => t[x] <= t[u])

SetInv == nodes \in [DOMAIN nodes -> Element] /\ Shape(DOMAIN nodes) /\ Ordered(nodes)

LEMMA SetWays ==
  /\ \A u, s, x : Set!Under(u, s, x) <=> Under(u, s, x)
  /\ \A u, x : Set!Within(u, x) <=> Within(u, x)
  /\ \A t : Set!Leaves(t) = Leaves(t) /\ Set!Free(t) = Free(t)
  /\ \A t, w, v : Set!Added(t, w, v) = Added(t, w, v)
  /\ \A t, w, s : Set!End(t, w, s) = End(t, w, s)
  /\ Set!Top = Top /\ Set!NoNodes = NoNodes
<1>1. \A u, s, x : Set!Under(u, s, x) <=> Under(u, s, x)
  BY DEF Set!Under, Under
<1>2. \A u, x : Set!Within(u, x) <=> Within(u, x)
  BY DEF Set!Within, Within
<1>3. \A t : Set!Leaves(t) = Leaves(t) /\ Set!Free(t) = Free(t)
  BY DEF Set!Leaves, Leaves, Set!Free, Free, Set!Children, Children, Set!Top, Top
<1>4. \A t, w, v : Set!Added(t, w, v) = Added(t, w, v)
  BY DEF Set!Added, Added
<1>5. \A t, w, s : Set!End(t, w, s) = End(t, w, s)
  BY DEF Set!End, End, Set!Straight, Straight, Set!Within, Within
<1>6. Set!Top = Top /\ Set!NoNodes = NoNodes
  BY DEF Set!Top, Top, Set!NoNodes, NoNodes
<1> QED BY <1>1, <1>2, <1>3, <1>4, <1>5, <1>6

(* The ends of what is below a node.                                         *)
LEMMA SetEnds ==
  ASSUME Element \in SUBSET Int, SetInv, NEW w \in DOMAIN nodes, NEW x \in DOMAIN nodes, Within(w, x)
  PROVE  /\ End(nodes, w, 0) \in DOMAIN nodes /\ Within(w, End(nodes, w, 0))
         /\ End(nodes, w, 1) \in DOMAIN nodes /\ Within(w, End(nodes, w, 1))
         /\ nodes[End(nodes, w, 1)] <= nodes[x] /\ nodes[x] <= nodes[End(nodes, w, 0)]
<1> DEFINE lo == End(nodes, w, 1)
           hi == End(nodes, w, 0)
<1>1. Shape(DOMAIN nodes) /\ 0 \in Bit /\ 1 \in Bit
  BY DEF SetInv, Bit
<1>2. lo \in Straight(nodes, w, 1) /\ hi \in Straight(nodes, w, 0)
  BY <1>1, EndIsThere
<1>3. lo \in DOMAIN nodes /\ Within(w, lo) /\ hi \in DOMAIN nodes /\ Within(w, hi)
  BY <1>2 DEF Straight
<1>4. \A y \in DOMAIN nodes : nodes[y] \in Int
  BY DEF SetInv
<1>5. \A u \in Straight(nodes, w, 1) : u \in DOMAIN nodes /\ nodes[lo] <= nodes[u]
  <2> SUFFICES ASSUME NEW u \in Straight(nodes, w, 1)
               PROVE  u \in DOMAIN nodes /\ nodes[lo] <= nodes[u]
    OBVIOUS
  <2>1. u \in DOMAIN nodes
    BY DEF Straight
  <2>2. u = lo \/ Under(u, 1, lo)
    BY <1>1, EndIsLast
  <2> HIDE DEF lo
  <2> QED BY <1>3, <1>4, <2>1, <2>2 DEF SetInv, Ordered
<1>6. \A u \in Straight(nodes, w, 0) : u \in DOMAIN nodes /\ nodes[u] <= nodes[hi]
  <2> SUFFICES ASSUME NEW u \in Straight(nodes, w, 0)
               PROVE  u \in DOMAIN nodes /\ nodes[u] <= nodes[hi]
    OBVIOUS
  <2>1. u \in DOMAIN nodes
    BY DEF Straight
  <2>2. u = hi \/ Under(u, 0, hi)
    BY <1>1, EndIsLast
  <2> HIDE DEF hi
  <2> QED BY <1>3, <1>4, <2>1, <2>2 DEF SetInv, Ordered
<1> HIDE DEF lo, hi
<1>7. nodes[lo] <= nodes[x]
  <2>1. CASE x \in Straight(nodes, w, 1)
    BY <1>5, <2>1
  <2>2. CASE x \notin Straight(nodes, w, 1)
    <3>1. PICK u \in Straight(nodes, w, 1) : Under(u, 0, x)
      BY <1>1, <2>2, StraightOrAside DEF Bit
    <3> QED BY <1>3, <1>4, <1>5, <3>1 DEF SetInv, Ordered
  <2> QED BY <2>1, <2>2
<1>8. nodes[x] <= nodes[hi]
  <2>1. CASE x \in Straight(nodes, w, 0)
    BY <1>6, <2>1
  <2>2. CASE x \notin Straight(nodes, w, 0)
    <3>1. PICK u \in Straight(nodes, w, 0) : Under(u, 1, x)
      BY <1>1, <2>2, StraightOrAside DEF Bit
    <3> QED BY <1>3, <1>4, <1>6, <3>1 DEF SetInv, Ordered
  <2> QED BY <2>1, <2>2
<1> QED BY <1>3, <1>7, <1>8 DEF lo, hi

(* A search finds what is below where it begins: the highest of its nodes.   *)
LEMMA SetFinds ==
  ASSUME Element \in SUBSET Int, SetInv, NEW w \in Way, NEW v, NEW y \in DOMAIN nodes,
         Within(w, y), nodes[y] = v
  PROVE  Set!Found(w, v) # {}
<1> DEFINE X == {x \in DOMAIN nodes : Within(w, x) /\ nodes[x] = v}
           M == {Len(x) : x \in X}
<1>1. \A x \in DOMAIN nodes : x \in Way /\ Len(x) \in Nat /\ nodes[x] \in Int
  BY WayFacts DEF SetInv, Shape
<1>2. M \in SUBSET Nat /\ M # {}
  BY <1>1
<1>3. PICK m \in M : \A k \in M : m <= k
  BY <1>2, Least
<1>4. PICK x \in X : Len(x) = m
  BY <1>3
<1>5. ASSUME NEW u \in DOMAIN nodes, Within(w, u), NEW s \in Bit, Under(u, s, x)
      PROVE  nodes[u] # v
  <2> SUFFICES ASSUME nodes[u] = v PROVE FALSE
    OBVIOUS
  <2>1. Len(u) \in M
    BY <1>5
  <2>2. Len(x) <= Len(u)
    BY <1>3, <1>4, <2>1
  <2>3. Len(u) < Len(x)
    BY <1>5 DEF Under
  <2> QED BY <1>1, <2>2, <2>3
<1>6. x \in DOMAIN nodes /\ Within(w, x) /\ nodes[x] = v
  BY <1>4
<1> HIDE DEF X, M
<1>7. \A u \in DOMAIN nodes : Within(w, u) =>
        (Under(u, 0, x) => nodes[u] < v) /\ (Under(u, 1, x) => nodes[u] > v)
  BY <1>1, <1>5, <1>6 DEF SetInv, Ordered, Bit
<1>8. x \in Set!Found(w, v)
  BY <1>6, <1>7 DEF Set!Found, Set!Within, Within, Set!Under, Under
<1> QED BY <1>8

(* What moves up into a node comes from below it and fits there.             *)
LEMMA FillerFits ==
  ASSUME Element \in SUBSET Int, SetInv, NEW w \in DOMAIN nodes, w \notin Leaves(nodes)
  PROVE  /\ \E y \in DOMAIN nodes, s \in Bit :
              Under(w, s, y) /\ Set!Filler(w) = nodes[y] /\ (s = 0 <=> Append(w, 0) \in DOMAIN nodes)
         /\ \A x \in DOMAIN nodes : /\ Under(w, 0, x) => nodes[x] >= Set!Filler(w)
                                    /\ Under(w, 1, x) => nodes[x] <= Set!Filler(w)
<1>1. /\ Shape(DOMAIN nodes) /\ w \in Way /\ 0 \in Bit /\ 1 \in Bit
      /\ Append(w, 0) \in Way /\ Append(w, 1) \in Way
      /\ \A x \in DOMAIN nodes : x \in Way /\ nodes[x] \in Int
  BY WayFacts DEF SetInv, Shape, Bit
<1>2. \A x \in DOMAIN nodes : /\ Under(w, 0, x) <=> Within(Append(w, 0), x)
                              /\ Under(w, 1, x) <=> Within(Append(w, 1), x)
  BY <1>1, UnderIsWithinChild
<1>3. Append(w, 0) \in DOMAIN nodes \/ Append(w, 1) \in DOMAIN nodes
  BY DEF Leaves, Children
<1>4. CASE Append(w, 0) \in DOMAIN nodes
  <2> DEFINE e == End(nodes, Append(w, 0), 1)
  <2>1. Set!Filler(w) = nodes[e]
    BY <1>4, SetWays DEF Set!Filler, Set!LeastLeft, Set!LeastOf
  <2>2. Within(Append(w, 0), Append(w, 0))
    BY <1>1, WithinIs
  <2>3. e \in DOMAIN nodes /\ Within(Append(w, 0), e)
    BY <1>4, <2>2, SetEnds
  <2>4. \A x \in DOMAIN nodes : Under(w, 0, x) => nodes[e] <= nodes[x]
    BY <1>2, <1>4, SetEnds
  <2> HIDE DEF e
  <2>5. Under(w, 0, e) /\ nodes[w] <= nodes[e]
    BY <1>2, <2>3 DEF SetInv, Ordered
  <2>6. \A x \in DOMAIN nodes : Under(w, 1, x) => nodes[x] <= nodes[e]
    <3> SUFFICES ASSUME NEW x \in DOMAIN nodes, Under(w, 1, x) PROVE nodes[x] <= nodes[e]
      OBVIOUS
    <3>1. nodes[x] <= nodes[w]
      BY DEF SetInv, Ordered
    <3> QED BY <1>1, <2>3, <2>5, <3>1
  <2>7. \E y \in DOMAIN nodes, s \in Bit :
          Under(w, s, y) /\ Set!Filler(w) = nodes[y] /\ (s = 0 <=> Append(w, 0) \in DOMAIN nodes)
    BY <1>1, <1>4, <2>1, <2>3, <2>5
  <2> QED BY <1>1, <2>1, <2>3, <2>4, <2>6, <2>7
<1>5. CASE Append(w, 0) \notin DOMAIN nodes
  <2> DEFINE e == End(nodes, Append(w, 1), 0)
  <2>1. Set!Filler(w) = nodes[e]
    BY <1>5, SetWays DEF Set!Filler, Set!GreatestOf
  <2>2. Within(Append(w, 1), Append(w, 1))
    BY <1>1, WithinIs
  <2>3. e \in DOMAIN nodes /\ Within(Append(w, 1), e)
    BY <1>3, <1>5, <2>2, SetEnds
  <2>4. \A x \in DOMAIN nodes : Under(w, 1, x) => nodes[x] <= nodes[e]
    BY <1>2, <1>3, <1>5, SetEnds
  <2>5. \A x \in DOMAIN nodes : ~Under(w, 0, x)
    BY <1>1, <1>2, <1>5, AllAbove
  <2> HIDE DEF e
  <2>6. Under(w, 1, e)
    BY <1>2, <2>3
  <2>7. \E y \in DOMAIN nodes, s \in Bit :
          Under(w, s, y) /\ Set!Filler(w) = nodes[y] /\ (s = 0 <=> Append(w, 0) \in DOMAIN nodes)
    <3>1. ~(1 = 0)
      OBVIOUS
    <3> QED BY <1>1, <1>5, <2>1, <2>3, <2>6, <3>1
  <2> QED BY <1>1, <2>1, <2>3, <2>4, <2>5, <2>7
<1> QED BY <1>4, <1>5

LEMMA SetInitially == ASSUME Set!Init PROVE SetInv
<1>1. nodes = NoNodes
  BY SetWays DEF Set!Init
<1>2. DOMAIN nodes = {}
  BY <1>1 DEF NoNodes
<1>3. nodes \in [{} -> Element]
  BY <1>1 DEF NoNodes
<1>4. Shape({})
  BY FS_EmptySet DEF Shape
<1> QED BY <1>2, <1>3, <1>4 DEF SetInv, Ordered

LEMMA SetAdds ==
  ASSUME Element \in SUBSET Int, SetInv, NEW v \in Element, Set!Add(v)
  PROVE  SetInv'
<1>1. PICK w \in Free(nodes) :
        /\ \A u \in DOMAIN nodes : (Under(u, 0, w) => nodes[u] < v) /\ (Under(u, 1, w) => nodes[u] >= v)
        /\ nodes' = Added(nodes, w, v)
  BY SetWays DEF Set!Add, Set!Under, Under
<1>2. Shape(DOMAIN nodes) /\ 0 \in Bit /\ 1 \in Bit
  BY DEF SetInv, Bit
<1>3. w \notin DOMAIN nodes /\ \A x \in DOMAIN nodes, s \in Bit : ~Under(w, s, x)
  BY <1>2, FreePlace
<1>4. DOMAIN nodes' = DOMAIN nodes \cup {w} /\ nodes'[w] = v
      /\ \A x \in DOMAIN nodes : nodes'[x] = nodes[x]
  BY <1>1, <1>3 DEF Added
<1>5. nodes' \in [DOMAIN nodes' -> Element]
  BY <1>1 DEF Added, SetInv
<1>6. Shape(DOMAIN nodes')
  BY <1>2, <1>4, ShapeGrows
<1>7. ~Under(w, 0, w) /\ ~Under(w, 1, w)
  BY <1>2, FreePlace, WayFacts DEF Under
<1>8. ASSUME NEW u \in DOMAIN nodes', NEW x \in DOMAIN nodes'
      PROVE  /\ Under(u, 0, x) => nodes'[x] >= nodes'[u]
             /\ Under(u, 1, x) => nodes'[x] <= nodes'[u]
  <2>1. CASE u = w
    BY <1>2, <1>3, <1>4, <1>7, <2>1
  <2>2. CASE u \in DOMAIN nodes /\ x = w
    <3>1. v \in Int /\ nodes[u] \in Int
      BY <2>2 DEF SetInv
    <3> QED BY <1>1, <1>4, <2>2, <3>1
  <2>3. CASE u \in DOMAIN nodes /\ x \in DOMAIN nodes
    BY <1>4, <2>3 DEF SetInv, Ordered
  <2> QED BY <1>4, <2>1, <2>2, <2>3
<1> QED BY <1>5, <1>6, <1>8 DEF SetInv, Ordered

LEMMA SetRemoves ==
  ASSUME Element \in SUBSET Int, SetInv, NEW v, Set!Remove(v)
  PROVE  SetInv'
<1> DEFINE D == DOMAIN nodes
<1>1. PICK filled \in SUBSET D :
        nodes' = [w \in D \ (filled \cap Leaves(nodes)) |->
                    IF w \in filled THEN Set!Filler(w) ELSE nodes[w]]
  BY SetWays DEF Set!Remove
<1>2. /\ DOMAIN nodes' = D \ (filled \cap Leaves(nodes))
      /\ \A w \in DOMAIN nodes' : nodes'[w] = IF w \in filled THEN Set!Filler(w) ELSE nodes[w]
  BY <1>1
<1>3. DOMAIN nodes' \in SUBSET D /\ \A w \in D : w \in Way /\ nodes[w] \in Element /\ nodes[w] \in Int
  BY <1>2 DEF SetInv, Shape
<1>4. Shape(DOMAIN nodes')
  BY <1>2, ShapeShrinks DEF SetInv
<1>5. ASSUME NEW x \in DOMAIN nodes'
      PROVE  \E y \in D : Within(x, y) /\ nodes'[x] = nodes[y]
  <2>1. CASE x \in filled
    <3>1. x \in D /\ x \notin Leaves(nodes) /\ nodes'[x] = Set!Filler(x)
      BY <1>2, <2>1
    <3>2. PICK y \in D, s \in Bit : Under(x, s, y) /\ Set!Filler(x) = nodes[y]
      BY <3>1, FillerFits
    <3> QED BY <1>3, <3>1, <3>2, WithinIs
  <2>2. CASE x \notin filled
    <3>1. x \in D /\ nodes'[x] = nodes[x]
      BY <1>2, <2>2
    <3> QED BY <1>3, <3>1, WithinIs
  <2> QED BY <2>1, <2>2
<1>6. nodes' \in [DOMAIN nodes' -> Element]
  <2>1. \A x \in DOMAIN nodes' : nodes'[x] \in Element
    BY <1>3, <1>5
  <2>2. nodes' = [x \in DOMAIN nodes' |-> nodes'[x]]
    BY <1>1
  <2> QED BY <2>1, <2>2
<1>7. ASSUME NEW u \in DOMAIN nodes', NEW y \in D
      PROVE  /\ Under(u, 0, y) => nodes[y] >= nodes'[u]
             /\ Under(u, 1, y) => nodes[y] <= nodes'[u]
  <2>1. CASE u \in filled
    <3>1. u \in D /\ u \notin Leaves(nodes) /\ nodes'[u] = Set!Filler(u)
      BY <1>2, <2>1
    <3> QED BY <3>1, FillerFits
  <2>2. CASE u \notin filled
    <3>1. u \in D /\ nodes'[u] = nodes[u]
      BY <1>2, <2>2
    <3> QED BY <3>1 DEF SetInv, Ordered
  <2> QED BY <2>1, <2>2
<1>8. ASSUME NEW u \in DOMAIN nodes', NEW x \in DOMAIN nodes'
      PROVE  /\ Under(u, 0, x) => nodes'[x] >= nodes'[u]
             /\ Under(u, 1, x) => nodes'[x] <= nodes'[u]
  <2>1. PICK y \in D : Within(x, y) /\ nodes'[x] = nodes[y]
    BY <1>5
  <2>2. u \in Way /\ x \in Way /\ y \in Way /\ 0 \in Bit /\ 1 \in Bit
    BY <1>3 DEF Bit
  <2>3. (Under(u, 0, x) => Under(u, 0, y)) /\ (Under(u, 1, x) => Under(u, 1, y))
    BY <2>1, <2>2, UnderWithin
  <2> QED BY <1>7, <2>1, <2>3
<1> QED BY <1>4, <1>6, <1>8 DEF SetInv, Ordered

(* What is in the tree is found and the ends are right.                      *)
LEMMA SetShows ==
  ASSUME Element \in SUBSET Int, SetInv
  PROVE  Set!FoundIffPresent /\ Set!EndsAreRight
<1>1. Top \in Way /\ \A x \in Way : Within(Top, x)
  BY WayFacts DEF Within
<1>2. \A x \in DOMAIN nodes : x \in Way
  BY DEF SetInv, Shape
<1>3. ASSUME NEW v \in Element
      PROVE  Set!Contains(v) <=> \E w \in DOMAIN nodes : nodes[w] = v
  <2>1. Set!Contains(v) => \E w \in DOMAIN nodes : nodes[w] = v
    BY DEF Set!Contains, Set!Found
  <2>2. ASSUME NEW w \in DOMAIN nodes, nodes[w] = v
        PROVE  Set!Contains(v)
    BY <1>1, <1>2, <2>2, SetFinds, SetWays DEF Set!Contains
  <2> QED BY <2>1, <2>2
<1>4. ASSUME NEW w \in DOMAIN nodes
      PROVE  Set!LeastOf(Top) <= nodes[w] /\ nodes[w] <= Set!GreatestOf(Top)
  <2>1. Top \in DOMAIN nodes
    BY <1>1, <1>2, AllAbove DEF SetInv
  <2>2. Within(Top, w)
    BY <1>1, <1>2
  <2> QED BY <2>1, <2>2, SetEnds, SetWays DEF Set!LeastOf, Set!GreatestOf
<1> QED BY <1>3, <1>4, SetWays DEF Set!FoundIffPresent, Set!EndsAreRight

(* Whatever was added and removed, and moved up into the place of what was,  *)
(* a search finds a value exactly when it is in the tree, and min and max    *)
(* answer the least and the greatest (TreeSet.scala:46-130); for numbers,    *)
(* equal ones included, and trees of any size.                               *)
THEOREM SetIsSearchable ==
  ASSUME Element \in SUBSET Int
  PROVE  Set!Spec => []SearchesAreRight
<1>1. Set!Init => SetInv
  BY SetInitially
<1>2. SetInv /\ [Set!Next]_(Set!vars) => SetInv'
  <2>1. ASSUME SetInv, Set!Next
        PROVE  SetInv'
    BY <2>1, SetAdds, SetRemoves DEF Set!Next
  <2>2. ASSUME SetInv, UNCHANGED Set!vars
        PROVE  SetInv'
    BY <2>2 DEF SetInv, Ordered, Set!vars
  <2> QED BY <2>1, <2>2
<1>3. SetInv => SearchesAreRight
  BY SetShows DEF SearchesAreRight
<1> QED BY <1>1, <1>2, <1>3, PTL DEF Set!Spec

(* How often values occur.                                                   *)
Of(t, v) == {w \in DOMAIN t : t[w] = v}

LEMMA OneMoreNode ==
  ASSUME NEW t, IsFiniteSet(DOMAIN t), NEW w, w \notin DOMAIN t, NEW v, NEW u
  PROVE  Occurs(t, u) \in Nat /\ Occurs(Added(t, w, v), u) = Occurs(t, u) + IF u = v THEN 1 ELSE 0
<1> DEFINE a == Added(t, w, v)
<1>1. /\ DOMAIN a = DOMAIN t \cup {w} /\ a[w] = v
      /\ \A x \in DOMAIN t : a[x] = t[x]
  BY DEF Added
<1> HIDE DEF a
<1>2. IsFiniteSet(Of(t, u)) /\ Cardinality(Of(t, u)) \in Nat /\ w \notin Of(t, u)
  BY FS_Subset, FS_CardinalityType DEF Of
<1>5. Occurs(t, u) = Cardinality(Of(t, u)) /\ Occurs(a, u) = Cardinality(Of(a, u))
  BY DEF Occurs, Of
<1>3. CASE u = v
  <2>1. Of(a, u) = Of(t, u) \cup {w}
    BY <1>1, <1>3 DEF Of
  <2>2. Cardinality(Of(a, u)) = Cardinality(Of(t, u)) + 1
    BY <1>2, <2>1, FS_AddElement
  <2>3. Occurs(a, u) = Occurs(t, u) + 1
    BY <1>5, <2>2
  <2> QED BY <1>2, <1>3, <1>5, <2>3 DEF a
<1>4. CASE u # v
  <2>1. Of(a, u) = Of(t, u)
    BY <1>1, <1>4 DEF Of
  <2>2. Occurs(a, u) = Occurs(t, u) + 0
    BY <1>2, <1>5, <2>1
  <2> QED BY <1>2, <1>4, <1>5, <2>2 DEF a
<1> QED BY <1>3, <1>4

LEMMA OneLessNode ==
  ASSUME NEW t, IsFiniteSet(DOMAIN t), NEW w \in DOMAIN t, NEW u
  PROVE  /\ Occurs(t, u) \in Nat
         /\ Occurs(Dropped(t, w), u) = Occurs(t, u) - IF u = t[w] THEN 1 ELSE 0
         /\ Occurs(t, t[w]) > 0
<1> DEFINE a == Dropped(t, w)
<1>1. /\ DOMAIN a = DOMAIN t \ {w}
      /\ \A x \in DOMAIN t \ {w} : a[x] = t[x]
  BY DEF Dropped
<1> HIDE DEF a
<1>2. \A z : IsFiniteSet(Of(t, z)) /\ Cardinality(Of(t, z)) \in Nat
  BY FS_Subset, FS_CardinalityType DEF Of
<1>3. Of(a, u) = Of(t, u) \ {w}
  BY <1>1 DEF Of
<1>4. Cardinality(Of(a, u)) = IF w \in Of(t, u) THEN Cardinality(Of(t, u)) - 1 ELSE Cardinality(Of(t, u))
  BY <1>2, <1>3, FS_RemoveElement
<1>5. w \in Of(t, u) <=> u = t[w]
  BY DEF Of
<1>7. Occurs(t, u) = Cardinality(Of(t, u)) /\ Occurs(a, u) = Cardinality(Of(a, u))
  BY DEF Occurs, Of
<1>8. Occurs(a, u) = Occurs(t, u) - IF u = t[w] THEN 1 ELSE 0
  BY <1>2, <1>4, <1>5, <1>7
<1>6. Occurs(t, t[w]) > 0
  <2>1. w \in Of(t, t[w])
    BY DEF Of
  <2>2. Cardinality(Of(t, t[w])) # 0 /\ Cardinality(Of(t, t[w])) \in Nat
    BY <1>2, <2>1, FS_EmptySet
  <2>3. Occurs(t, t[w]) = Cardinality(Of(t, t[w]))
    BY DEF Occurs, Of
  <2> QED BY <2>2, <2>3
<1> QED BY <1>2, <1>6, <1>7, <1>8 DEF a

(* A search ends at one node.                                                *)
LEMMA OneFound ==
  ASSUME Element \in SUBSET Int, SetInv, NEW w \in Way, NEW v,
         NEW x \in Set!Found(w, v), NEW y \in Set!Found(w, v)
  PROVE  x = y
<1>1. ASSUME NEW z \in Set!Found(w, v)
      PROVE  /\ z \in DOMAIN nodes /\ z \in Way /\ Within(w, z) /\ nodes[z] = v /\ v \in Int
             /\ \A u \in DOMAIN nodes : Within(w, u) =>
                  (Under(u, 0, z) => nodes[u] < v) /\ (Under(u, 1, z) => nodes[u] > v)
  BY DEF Set!Found, Set!Within, Within, Set!Under, Under, SetInv, Shape
<1>2. ASSUME NEW a \in Set!Found(w, v), NEW b \in Set!Found(w, v), a # b, Len(a) <= Len(b)
      PROVE  FALSE
  <2> DEFINE M == {i \in Nat : i \in 1..Len(a) /\ a[i] # b[i]}
  <2>1. /\ a \in Way /\ b \in Way /\ Len(a) \in Nat /\ Len(b) \in Nat /\ Len(w) \in Nat
        /\ a \in DOMAIN nodes /\ b \in DOMAIN nodes /\ Within(w, a) /\ Within(w, b)
        /\ nodes[a] = v /\ v \in Int
    BY <1>1, <1>2, WayFacts
  <2>2. CASE M = {}
    <3>1. Within(a, b)
      BY <1>2, <2>1, <2>2 DEF Within
    <3>2. PICK s \in Bit : Under(a, s, b)
      BY <1>2, <2>1, <3>1, WithinIs
    <3>3. s = 0 \/ s = 1
      BY DEF Bit
    <3> QED BY <1>1, <2>1, <3>2, <3>3
  <2>3. CASE M # {}
    <3>1. PICK j \in M : \A k \in M : j <= k
      BY <2>3, Least
    <3>2. j \in 1..Len(a) /\ j \in 1..Len(b) /\ a[j] # b[j] /\ \A i \in 1..(j - 1) : a[i] = b[i]
      BY <1>2, <2>1, <3>1
    <3> HIDE DEF M
    <3>3. j > Len(w)
      BY <2>1, <3>2 DEF Within
    <3>4. j - 1 \in 0..Len(a)
      BY <2>1, <3>2
    <3>5. PICK p \in Way : Len(p) = j - 1 /\ \A i \in 1..(j - 1) : p[i] = a[i]
      BY <2>1, <3>4, Beginning
    <3>6. Within(p, a) /\ Under(p, a[j], a) /\ Under(p, b[j], b) /\ Within(w, p)
      <4>1. Within(p, a) /\ Under(p, a[j], a)
        BY <2>1, <3>2, <3>5 DEF Within, Under
      <4>2. Under(p, b[j], b)
        BY <2>1, <3>2, <3>5 DEF Under
      <4>3. Within(w, p)
        BY <2>1, <3>2, <3>3, <3>5 DEF Within
      <4> QED BY <4>1, <4>2, <4>3
    <3>7. p \in DOMAIN nodes /\ nodes[p] \in Int
      BY <2>1, <3>5, <3>6, AllAbove DEF SetInv
    <3>8. a[j] \in Bit /\ b[j] \in Bit
      BY <2>1, <3>2, WayFacts
    <3> QED BY <1>1, <1>2, <2>1, <3>2, <3>6, <3>7, <3>8 DEF Bit
  <2> QED BY <2>2, <2>3
<1>3. Len(x) \in Nat /\ Len(y) \in Nat
  BY <1>1, WayFacts
<1> QED BY <1>2, <1>3

(* Steps, from all of F but the last, that each go deeper and come to all    *)
(* but the first: none is passed over, and no two of them come to the same.  *)
Descends(F, L, first, g) ==
  /\ F \in SUBSET Way /\ first \in F
  /\ \A x \in F \ L : g[x] \in F /\ Len(g[x]) > Len(x)
  /\ \A z \in F : z = first \/ \E x \in F \ L : z = g[x]

LEMMA Descent ==
  ASSUME NEW F, NEW L, NEW first, NEW g, Descends(F, L, first, g)
  PROVE  /\ \A x \in F : Len(first) <= Len(x)
         /\ \A x, y \in F \ L : g[x] = g[y] => x = y
<1>0. /\ F \in SUBSET Way /\ first \in F
      /\ \A x \in F \ L : g[x] \in F /\ Len(g[x]) > Len(x)
      /\ \A z \in F : z = first \/ \E x \in F \ L : z = g[x]
  BY DEF Descends
<1>1. \A x \in F : Len(x) \in Nat
  BY <1>0, WayFacts
<1>2. \A x \in F : Len(first) <= Len(x) /\ (Len(x) = Len(first) => x = first)
  <2> DEFINE M == {Len(x) : x \in F}
  <2>1. M \in SUBSET Nat /\ M # {}
    BY <1>0, <1>1
  <2>2. PICK m \in M : \A k \in M : m <= k
    BY <2>1, Least
  <2>3. \A x \in F : m <= Len(x)
    BY <2>2
  <2>4. m \in Nat
    BY <2>1, <2>2
  <2>5. PICK y \in F : Len(y) = m
    BY <2>2
  <2> HIDE DEF M
  <2>6. \A x \in F : Len(x) = m => x = first
    BY <1>0, <1>1, <2>3, <2>4
  <2> QED BY <2>3, <2>5, <2>6
<1> DEFINE Gap(x, z) == z = x \/ Len(z) < Len(x) \/ Len(z) > Len(g[x]) \/ z = g[x]
<1>3. \A x \in F \ L, z \in F : Gap(x, z)
  <2> SUFFICES ASSUME \E x \in F \ L, z \in F : ~Gap(x, z)
               PROVE  FALSE
    OBVIOUS
  <2> DEFINE M == {n \in Nat : \E x \in F \ L, z \in F : ~Gap(x, z) /\ n = Len(z)}
  <2>1. M # {}
    BY <1>1
  <2>2. PICK n \in M : \A k \in M : n <= k
    BY <2>1, Least
  <2>3. PICK x \in F \ L, z \in F : ~Gap(x, z) /\ n = Len(z)
    BY <2>2
  <2>4. \A a \in F \ L, b \in F : Len(b) < n => Gap(a, b)
    <3> SUFFICES ASSUME NEW a \in F \ L, NEW b \in F, Len(b) < n, ~Gap(a, b)
                 PROVE  FALSE
      OBVIOUS
    <3>1. Len(b) \in M
      BY <1>1
    <3> QED BY <1>1, <2>2, <3>1
  <2>5. /\ z # x /\ Len(x) <= Len(z) /\ Len(z) <= Len(g[x]) /\ z # g[x]
        /\ Len(x) \in Nat /\ Len(z) \in Nat /\ g[x] \in F /\ Len(g[x]) \in Nat
    BY <1>0, <1>1, <2>3
  <2> HIDE DEF M
  <2>6. z # first
    BY <1>2, <2>5
  <2>7. PICK y \in F \ L : z = g[y]
    BY <1>0, <2>6
  <2>8. Len(y) \in Nat /\ Len(y) < Len(z)
    BY <1>0, <1>1, <2>7
  <2>9. Len(y) < Len(x)
    <3>1. Gap(x, y)
      BY <2>3, <2>4, <2>8
    <3> QED BY <2>5, <2>7, <2>8, <3>1
  <2>10. x # first
    BY <1>1, <1>2, <2>5, <2>8, <2>9
  <2>11. PICK w \in F \ L : x = g[w]
    BY <1>0, <2>10
  <2>12. Len(w) \in Nat /\ Len(w) < Len(x) /\ Len(w) < Len(z)
    BY <1>0, <1>1, <2>5, <2>11
  <2>13. Gap(w, y) /\ Gap(y, w)
    BY <2>3, <2>4, <2>8, <2>12
  <2> QED BY <2>5, <2>7, <2>8, <2>9, <2>11, <2>12, <2>13
<1>4. ASSUME NEW x \in F \ L, NEW y \in F \ L, g[x] = g[y], x # y, Len(x) <= Len(y)
      PROVE  FALSE
  <2>1. Gap(x, y) /\ Len(x) \in Nat /\ Len(y) \in Nat /\ Len(g[y]) \in Nat /\ Len(g[y]) > Len(y)
    BY <1>0, <1>1, <1>3
  <2> QED BY <1>4, <2>1
<1>5. \A x, y \in F : Len(x) <= Len(y) \/ Len(y) <= Len(x)
  BY <1>1
<1> QED BY <1>2, <1>4, <1>5

(* The value that fills a node is found, at one place and below it.          *)
LEMMA FillerIsFound ==
  ASSUME Element \in SUBSET Int, SetInv, NEW w \in DOMAIN nodes, w \notin Leaves(nodes)
  PROVE  \E y \in DOMAIN nodes :
           Set!FillerFound(w) = {y} /\ Len(y) > Len(w) /\ nodes[y] = Set!Filler(w)
<1>1. PICK y \in DOMAIN nodes, s \in Bit :
        Under(w, s, y) /\ Set!Filler(w) = nodes[y] /\ (s = 0 <=> Append(w, 0) \in DOMAIN nodes)
  BY FillerFits
<1>2. w \in Way /\ y \in Way /\ Append(w, s) \in Way /\ Len(Append(w, s)) = Len(w) + 1
      /\ Len(w) \in Nat
  BY WayFacts DEF SetInv, Shape
<1>3. Set!FillerFound(w) = Set!Found(Append(w, s), Set!Filler(w))
  BY <1>1 DEF Set!FillerFound, Bit
<1>4. Within(Append(w, s), y)
  BY <1>1, <1>2, UnderIsWithinChild
<1>5. PICK x : x \in Set!Found(Append(w, s), Set!Filler(w))
  BY <1>1, <1>2, <1>4, SetFinds
<1>6. Set!FillerFound(w) = {x}
  BY <1>2, <1>3, <1>5, OneFound
<1>7. x \in DOMAIN nodes /\ Within(Append(w, s), x) /\ nodes[x] = Set!Filler(w)
  BY <1>5, SetWays DEF Set!Found
<1>8. Len(x) \in Nat /\ Len(x) > Len(w)
  BY <1>2, <1>7, WayFacts DEF Within, SetInv, Shape
<1> QED BY <1>6, <1>7, <1>8

(* A removal takes one occurrence of its value, and no other comes or goes:  *)
(* every other node that is filled or dropped had its value moved up.        *)
LEMMA SetDrops ==
  ASSUME Element \in SUBSET Int, SetInv, NEW v, Set!Remove(v)
  PROVE  /\ v \in Element /\ Occurs(nodes, v) > 0
         /\ \A u : Occurs(nodes', u) = Occurs(nodes, u) - IF u = v THEN 1 ELSE 0
<1> DEFINE D == DOMAIN nodes
           L == Leaves(nodes)
<1>1. PICK F \in SUBSET D :
        /\ F = Set!Found(Top, v) \cup UNION {Set!FillerFound(w) : w \in F \ L}
        /\ F \cap L # {}
        /\ nodes' = [w \in D \ (F \cap L) |-> IF w \in F THEN Set!Filler(w) ELSE nodes[w]]
  BY SetWays DEF Set!Remove
<1> DEFINE g == [w \in F \ L |-> CHOOSE y : y \in Set!FillerFound(w)]
<1>2. /\ IsFiniteSet(D) /\ F \in SUBSET Way /\ Top \in Way
      /\ \A x \in D : nodes[x] \in Element
  BY WayFacts DEF SetInv, Shape
<1>3. ASSUME NEW w \in F \ L
      PROVE  /\ Set!FillerFound(w) = {g[w]} /\ g[w] \in F /\ Len(g[w]) > Len(w)
             /\ nodes[g[w]] = Set!Filler(w)
  <2>1. PICK y \in D : Set!FillerFound(w) = {y} /\ Len(y) > Len(w) /\ nodes[y] = Set!Filler(w)
    BY FillerIsFound
  <2>2. g[w] = y
    BY <2>1
  <2>3. y \in F
    <3>1. y \in UNION {Set!FillerFound(x) : x \in F \ L}
      BY <2>1
    <3> QED BY <1>1, <3>1
  <2> QED BY <2>1, <2>2, <2>3
<1>4. \A z \in F : z \in Set!Found(Top, v) \/ \E x \in F \ L : z = g[x]
  <2> SUFFICES ASSUME NEW z \in F, z \notin Set!Found(Top, v)
               PROVE  \E x \in F \ L : z = g[x]
    OBVIOUS
  <2> HIDE DEF g
  <2>1. z \in UNION {Set!FillerFound(w) : w \in F \ L}
    BY <1>1
  <2>2. PICK x \in F \ L : z \in Set!FillerFound(x)
    BY <2>1
  <2> QED BY <1>3, <2>2
<1> HIDE DEF g
<1>5. PICK first : first \in Set!Found(Top, v)
  <2> SUFFICES ASSUME Set!Found(Top, v) = {}
               PROVE  FALSE
    OBVIOUS
  <2> DEFINE M == {Len(x) : x \in F}
  <2>1. M \in SUBSET Nat /\ M # {}
    <3>1. \A x \in F : Len(x) \in Nat
      BY <1>2, WayFacts
    <3>2. F # {}
      BY <1>1
    <3> QED BY <3>1, <3>2
  <2>2. PICK m \in M : \A k \in M : m <= k
    BY <2>1, Least
  <2>3. PICK z \in F : Len(z) = m
    BY <2>2
  <2>4. PICK x \in F \ L : z = g[x]
    BY <1>4
  <2>5. Len(x) \in M /\ Len(x) \in Nat /\ Len(z) \in Nat /\ Len(z) > Len(x)
    BY <1>2, <1>3, <2>4, WayFacts
  <2> HIDE DEF M
  <2> QED BY <2>2, <2>3, <2>5
<1>6. first \in F /\ first \in D /\ nodes[first] = v
  BY <1>1, <1>5 DEF Set!Found
<1>7. \A z \in F : z = first \/ \E x \in F \ L : z = g[x]
  BY <1>2, <1>4, <1>5, OneFound
<1>8. /\ \A x \in F : Len(first) <= Len(x)
      /\ \A x, y \in F \ L : g[x] = g[y] => x = y
  <2>1. \A x \in F \ L : g[x] \in F /\ Len(g[x]) > Len(x)
    BY <1>3
  <2>2. F \in SUBSET Way /\ first \in F
    BY <1>2, <1>6
  <2> HIDE DEF L, D
  <2>3. Descends(F, L, first, g)
    BY <1>7, <2>1, <2>2 DEF Descends
  <2> QED BY <2>3, Descent
<1>9. \A x \in F \ L : g[x] # first
  <2> SUFFICES ASSUME NEW x \in F \ L, g[x] = first
               PROVE  FALSE
    OBVIOUS
  <2>1. Len(first) > Len(x) /\ Len(first) <= Len(x)
    BY <1>3, <1>8
  <2>2. Len(first) \in Nat /\ Len(x) \in Nat
    BY <1>2, <1>6, WayFacts
  <2> QED BY <2>1, <2>2
<1>10. /\ DOMAIN nodes' = D \ (F \cap L)
       /\ \A x \in DOMAIN nodes' : IF x \in F THEN x \in F \ L /\ nodes'[x] = nodes[g[x]]
                                   ELSE nodes'[x] = nodes[x]
  BY <1>1, <1>3
<1>11. ASSUME NEW u
       PROVE  ExistsBijection(Of(nodes', u), Of(nodes, u) \ {first})
  <2> DEFINE P == Of(nodes', u)
             Q == Of(nodes, u) \ {first}
             Came(x) == IF x \in F THEN g[x] ELSE x
             h == [x \in P |-> Came(x)]
  <2>1. ASSUME NEW x \in P
        PROVE  Came(x) \in Q
    BY <1>1, <1>3, <1>6, <1>9, <1>10 DEF Of
  <2>2. ASSUME NEW x \in P, NEW y \in P, Came(x) = Came(y)
        PROVE  x = y
    <3>1. (x \in F => x \in F \ L) /\ (y \in F => y \in F \ L)
      BY <1>10 DEF Of
    <3> QED BY <1>3, <1>8, <2>2, <3>1
  <2>3. ASSUME NEW y \in Q
        PROVE  \E x \in P : Came(x) = y
    <3>1. y \in D /\ nodes[y] = u /\ y # first
      BY DEF Of
    <3>2. CASE y \in F
      <4>1. PICK x \in F \ L : y = g[x]
        BY <1>7, <3>1, <3>2
      <4>2. x \in DOMAIN nodes' /\ nodes'[x] = u
        BY <1>10, <3>1, <4>1
      <4> QED BY <4>1, <4>2 DEF Of
    <3>3. CASE y \notin F
      <4>1. y \in DOMAIN nodes' /\ nodes'[y] = u
        BY <1>10, <3>1, <3>3
      <4> QED BY <3>3, <4>1 DEF Of
    <3> QED BY <3>2, <3>3
  <2> HIDE DEF P, Q, Came
  <2>4. h \in Bijection(P, Q)
    <3>1. h \in [P -> Q] /\ \A x \in P : h[x] = Came(x)
      BY <2>1
    <3> HIDE DEF h
    <3>2. h \in Injection(P, Q)
      BY <2>2, <3>1 DEF Injection, IsInjective
    <3>3. h \in Surjection(P, Q)
      BY <2>3, <3>1 DEF Surjection
    <3> QED BY <3>2, <3>3 DEF Bijection
  <2> QED BY <2>4 DEF ExistsBijection, P, Q
<1>12. \A u : IsFiniteSet(Of(nodes, u)) /\ Cardinality(Of(nodes, u)) \in Nat
  BY <1>2, FS_Subset, FS_CardinalityType DEF Of
<1>13. \A u : first \in Of(nodes, u) <=> u = v
  BY <1>6 DEF Of
<1>14. ASSUME NEW u
       PROVE  Occurs(nodes', u) = Occurs(nodes, u) - IF u = v THEN 1 ELSE 0
  <2>1. IsFiniteSet(Of(nodes, u) \ {first}) /\
        Cardinality(Of(nodes, u) \ {first}) =
          IF first \in Of(nodes, u) THEN Cardinality(Of(nodes, u)) - 1 ELSE Cardinality(Of(nodes, u))
    BY <1>12, FS_RemoveElement
  <2>2. Cardinality(Of(nodes', u)) = Cardinality(Of(nodes, u) \ {first})
    <3>1. IsFiniteSet(Of(nodes', u))
      BY <1>2, <1>10, FS_Subset DEF Of
    <3> QED BY <1>11, <3>1, FS_Bijection
  <2>3. Occurs(nodes, u) = Cardinality(Of(nodes, u)) /\ Occurs(nodes', u) = Cardinality(Of(nodes', u))
    BY DEF Occurs, Of
  <2> QED BY <1>12, <1>13, <2>1, <2>2, <2>3
<1>15. Occurs(nodes, v) > 0
  <2>1. Cardinality(Of(nodes, v)) # 0 /\ Cardinality(Of(nodes, v)) \in Nat
    BY <1>12, <1>13, FS_EmptySet
  <2>2. Occurs(nodes, v) = Cardinality(Of(nodes, v))
    BY DEF Occurs, Of
  <2> QED BY <2>1, <2>2
<1> QED BY <1>2, <1>6, <1>14, <1>15

LEMMA EmptyTree == DOMAIN NoNodes = {} /\ \A v : Occurs(NoNodes, v) = 0
<1>1. DOMAIN NoNodes = {}
  BY DEF NoNodes
<1>2. \A v : {w \in DOMAIN NoNodes : NoNodes[w] = v} = {}
  BY <1>1
<1> QED BY <1>1, <1>2, FS_EmptySet DEF Occurs

LEMMA OneUp ==
  ASSUME NEW S, NEW a \in [S -> Nat], NEW b, b = [u \in S |-> b[u]], NEW v \in S
  PROVE  /\ (\A u \in S : b[u] = a[u] + IF u = v THEN 1 ELSE 0) => b = [a EXCEPT ![v] = @ + 1]
         /\ (\A u \in S : b[u] = a[u] - IF u = v THEN 1 ELSE 0) => b = [a EXCEPT ![v] = @ - 1]
<1>1. ASSUME \A u \in S : b[u] = a[u] + IF u = v THEN 1 ELSE 0
      PROVE  b = [a EXCEPT ![v] = @ + 1]
  <2>1. \A u \in S : b[u] = IF u = v THEN a[u] + 1 ELSE a[u]
    BY <1>1
  <2> QED BY <2>1
<1>2. ASSUME \A u \in S : b[u] = a[u] - IF u = v THEN 1 ELSE 0
      PROVE  b = [a EXCEPT ![v] = @ - 1]
  <2>1. \A u \in S : b[u] = IF u = v THEN a[u] - 1 ELSE a[u]
    BY <1>2
  <2> QED BY <2>1
<1> QED BY <1>1, <1>2

LEMMA SetCounts ==
  \A t, v : Set!Occurs(t, v) = Occurs(t, v)
<1>1. \A S : Set!Cardinality(S) = Cardinality(S)
  BY DEF Set!Cardinality, Cardinality
<1>2. \A t, v : Set!Occurs(t, v) = Set!Cardinality(Of(t, v)) /\ Occurs(t, v) = Cardinality(Of(t, v))
  BY DEF Set!Occurs, Occurs, Of
<1> QED BY <1>1, <1>2

(* The search tree is a collection: an addition adds its value, a removal    *)
(* takes one occurrence of its own, whichever nodes are filled from below,   *)
(* and no other value comes or goes (TreeSet.scala:54-120); for any numbers  *)
(* and trees of any size.                                                    *)
THEOREM SetIsCollection ==
  ASSUME Element \in SUBSET Int
  PROVE  Set!Spec => Set!ImplementsCollection
<1> DEFINE Held == [v \in Element |-> Set!Occurs(nodes, v)]
<1>0. Held = [v \in Element |-> Occurs(nodes, v)] /\ Held' = [v \in Element |-> Occurs(nodes', v)]
  BY SetCounts
<1>1. Set!Init => SetInv /\ Set!Abstract!CollectionInit
  <2> SUFFICES ASSUME Set!Init PROVE SetInv /\ Set!Abstract!CollectionInit
    OBVIOUS
  <2>1. SetInv
    BY SetInitially
  <2>2. nodes = NoNodes /\ answer = Nothing
    BY SetWays DEF Set!Init
  <2>3. \A v \in Element : Occurs(nodes, v) = 0
    BY <2>2, EmptyTree
  <2> QED BY <1>0, <2>1, <2>2, <2>3 DEF Set!Abstract!CollectionInit
<1>2. SetInv /\ [Set!Next]_(Set!vars) =>
        SetInv' /\ [Set!Abstract!CollectionNext]_<<Held, answer>>
  <2> SUFFICES ASSUME SetInv, [Set!Next]_(Set!vars)
               PROVE  SetInv' /\ [Set!Abstract!CollectionNext]_<<Held, answer>>
    OBVIOUS
  <2>1. ASSUME NEW v \in Element, Set!Add(v)
        PROVE  SetInv' /\ Set!Abstract!CollectionNext
    <3>1. SetInv'
      BY <2>1, SetAdds
    <3>2. PICK w \in Free(nodes) : nodes' = Added(nodes, w, v)
      BY <2>1, SetWays DEF Set!Add
    <3>3. w \notin DOMAIN nodes /\ IsFiniteSet(DOMAIN nodes)
      BY FreePlace DEF SetInv, Shape
    <3>4. \A u \in Element : Occurs(nodes, u) \in Nat
                             /\ Occurs(nodes', u) = Occurs(nodes, u) + IF u = v THEN 1 ELSE 0
      BY <3>2, <3>3, OneMoreNode
    <3>5. Held' = [Held EXCEPT ![v] = @ + 1]
      <4>1. \A u \in Element : Held'[u] = Held[u] + IF u = v THEN 1 ELSE 0
        BY <1>0, <3>4
      <4>2. Held \in [Element -> Nat] /\ Held' = [u \in Element |-> Held'[u]]
          BY <1>0, <3>4
        <4> HIDE DEF Held
        <4> QED BY <4>1, <4>2, OneUp
    <3>6. Set!Abstract!Put(v)
      BY <2>1, <3>5 DEF Set!Abstract!Put, Set!Add
    <3> QED BY <3>1, <3>6 DEF Set!Abstract!CollectionNext
  <2>2. ASSUME NEW v \in Element, Set!Remove(v)
        PROVE  SetInv' /\ Set!Abstract!CollectionNext
    <3>1. SetInv'
      BY <2>2, SetRemoves
    <3>2. Occurs(nodes, v) > 0
          /\ \A u : Occurs(nodes', u) = Occurs(nodes, u) - IF u = v THEN 1 ELSE 0
      BY <2>2, SetDrops
    <3>3. IsFiniteSet(DOMAIN nodes)
      BY DEF SetInv, Shape
    <3>4. \A u \in Element : Occurs(nodes, u) \in Nat
      <4>1. \A u \in Element : IsFiniteSet(Of(nodes, u)) /\ Cardinality(Of(nodes, u)) \in Nat
        BY <3>3, FS_Subset, FS_CardinalityType DEF Of
      <4> QED BY <4>1 DEF Of, Occurs
    <3>5. Held' = [Held EXCEPT ![v] = @ - 1]
      <4>1. \A u \in Element : Held'[u] = Held[u] - IF u = v THEN 1 ELSE 0
        BY <1>0, <3>2, <3>4
      <4>2. Held \in [Element -> Nat] /\ Held' = [u \in Element |-> Held'[u]]
          BY <1>0, <3>4
        <4> HIDE DEF Held
        <4> QED BY <4>1, <4>2, OneUp
    <3>6. Set!Abstract!Drop(v)
      BY <1>0, <2>2, <3>2, <3>5 DEF Set!Abstract!Drop, Set!Remove
    <3> QED BY <3>1, <3>6 DEF Set!Abstract!CollectionNext
  <2>3. ASSUME UNCHANGED Set!vars
        PROVE  SetInv' /\ UNCHANGED <<Held, answer>>
    <3>1. nodes' = nodes /\ answer' = answer
      BY <2>3 DEF Set!vars
    <3> QED BY <1>0, <3>1 DEF SetInv, Ordered
  <2> QED BY <2>1, <2>2, <2>3 DEF Set!Next
<1> QED BY <1>1, <1>2, PTL DEF Set!Spec, Set!ImplementsCollection, Set!Abstract!CollectionSpec

(* The pages, PageTree.scala.                                                *)

(* The order of the stream: what is left of a node comes before it, what is  *)
(* right of it after.  The end of a way lies between its two sides.          *)
Digit(w, i) == IF i <= Len(w) THEN 2 * w[i] ELSE 1
Parts(u, w, i) ==
  /\ i \in Nat \ {0} /\ Digit(u, i) < Digit(w, i)
  /\ \A j \in Nat \ {0} : j < i => Digit(u, j) = Digit(w, j)
Before(u, w) == \E i \in Nat \ {0} : Parts(u, w, i)

LEMMA DigitIs ==
  ASSUME NEW w \in Way, NEW i \in Nat \ {0}
  PROVE  /\ Digit(w, i) \in {0, 1, 2}
         /\ Digit(w, i) = 0 <=> i <= Len(w) /\ w[i] = 0
         /\ Digit(w, i) = 1 <=> i > Len(w)
         /\ Digit(w, i) = 2 <=> i <= Len(w) /\ w[i] = 1
<1>1. Len(w) \in Nat /\ (i <= Len(w) => i \in 1..Len(w) /\ w[i] \in {0, 1})
  BY WayFacts DEF Bit
<1> QED BY <1>1 DEF Digit

LEMMA BeforeIsOrder ==
  /\ \A u \in Way : ~Before(u, u)
  /\ \A u, w, x \in Way : Before(u, w) /\ Before(w, x) => Before(u, x)
  /\ \A u, w \in Way : u = w \/ Before(u, w) \/ Before(w, u)
<1>1. ASSUME NEW u \in Way, Before(u, u)
      PROVE  FALSE
  <2>1. PICK i \in Nat \ {0} : Digit(u, i) < Digit(u, i)
    BY <1>1 DEF Before, Parts
  <2>2. Digit(u, i) \in {0, 1, 2}
    BY DigitIs
  <2> QED BY <2>1, <2>2
<1>2. ASSUME NEW u \in Way, NEW w \in Way, NEW x \in Way, Before(u, w), Before(w, x)
      PROVE  Before(u, x)
  <2>1. PICK i \in Nat \ {0} : Parts(u, w, i)
    BY <1>2 DEF Before
  <2>2. PICK k \in Nat \ {0} : Parts(w, x, k)
    BY <1>2 DEF Before
  <2>3. \A j \in Nat \ {0} : Digit(u, j) \in {0, 1, 2} /\ Digit(w, j) \in {0, 1, 2}
                            /\ Digit(x, j) \in {0, 1, 2}
    BY DigitIs
  <2>4. CASE i <= k
    <3>1. Parts(u, x, i)
      BY <2>1, <2>2, <2>3, <2>4 DEF Parts
    <3> QED BY <3>1 DEF Before
  <2>5. CASE k < i
    <3>1. Parts(u, x, k)
      BY <2>1, <2>2, <2>3, <2>5 DEF Parts
    <3> QED BY <3>1 DEF Before
  <2> QED BY <2>4, <2>5
<1>3. ASSUME NEW u \in Way, NEW w \in Way, u # w
      PROVE  Before(u, w) \/ Before(w, u)
  <2> DEFINE M == {i \in Nat : i # 0 /\ Digit(u, i) # Digit(w, i)}
  <2>1. \A j \in Nat \ {0} : Digit(u, j) \in {0, 1, 2} /\ Digit(w, j) \in {0, 1, 2}
    BY DigitIs
  <2>2. M # {}
    <3> SUFFICES ASSUME \A i \in Nat \ {0} : Digit(u, i) = Digit(w, i)
                 PROVE  FALSE
      OBVIOUS
    <3>1. Len(u) \in Nat /\ Len(w) \in Nat
      BY WayFacts
    <3>2. Digit(u, Len(u) + 1) = 1 /\ Digit(w, Len(w) + 1) = 1
      BY <3>1 DEF Digit
    <3>3. Digit(w, Len(u) + 1) = 1 /\ Digit(u, Len(w) + 1) = 1
      BY <3>1, <3>2
    <3>4. Len(u) + 1 > Len(w) /\ Len(w) + 1 > Len(u)
      BY <3>1, <3>3, DigitIs
    <3>5. \A i \in 1..Len(u) : u[i] = w[i]
      <4> SUFFICES ASSUME NEW i \in 1..Len(u) PROVE u[i] = w[i]
        OBVIOUS
      <4>1. u[i] \in {0, 1} /\ w[i] \in {0, 1} /\ i \in Nat \ {0}
        BY <3>1, <3>4, WayFacts DEF Bit
      <4>2. Digit(u, i) = 2 * u[i] /\ Digit(w, i) = 2 * w[i] /\ Digit(u, i) = Digit(w, i)
        BY <3>1, <3>4, <4>1 DEF Digit
      <4> QED BY <4>1, <4>2
    <3> QED BY <1>3, <3>1, <3>4, <3>5, WayFacts
  <2>3. PICK i \in M : \A k \in M : i <= k
    BY <2>2, Least
  <2>4. i \in Nat \ {0} /\ Digit(u, i) # Digit(w, i)
        /\ \A j \in Nat \ {0} : j < i => Digit(u, j) = Digit(w, j)
    BY <2>3
  <2>5. Parts(u, w, i) \/ Parts(w, u, i)
    BY <2>1, <2>4 DEF Parts
  <2> QED BY <2>4, <2>5 DEF Before
<1> QED BY <1>1, <1>2, <1>3

(* What is on the sides of a way.                                            *)
LEMMA SidesAreInOrder ==
  ASSUME NEW u \in Way, NEW x \in Way
  PROVE  (Under(u, 0, x) => Before(x, u)) /\ (Under(u, 1, x) => Before(u, x))
<1>1. Len(u) \in Nat /\ Len(x) \in Nat /\ Len(u) + 1 \in Nat \ {0}
  BY WayFacts
<1>2. ASSUME NEW s \in Bit, Under(u, s, x)
      PROVE  /\ Digit(u, Len(u) + 1) = 1 /\ Digit(x, Len(u) + 1) = 2 * s
             /\ \A j \in Nat \ {0} : j < Len(u) + 1 => Digit(u, j) = Digit(x, j)
  BY <1>1, <1>2 DEF Under, Digit
<1>3. Under(u, 0, x) => Parts(x, u, Len(u) + 1)
  BY <1>1, <1>2 DEF Parts, Bit
<1>4. Under(u, 1, x) => Parts(u, x, Len(u) + 1)
  BY <1>1, <1>2 DEF Parts, Bit
<1> QED BY <1>1, <1>3, <1>4 DEF Before

(* What comes after a way is right of it, or it parts from it to the right   *)
(* where the way goes left.                                                  *)
LEMMA AfterIs ==
  ASSUME NEW u \in Way, NEW x \in Way, NEW i \in Nat \ {0}, Parts(u, x, i)
  PROVE  Under(u, 1, x) \/ (i \in 1..Len(u) /\ u[i] = 0)
<1>1. Len(u) \in Nat /\ Len(x) \in Nat
  BY WayFacts
<1>2. /\ Digit(u, i) < Digit(x, i)
      /\ \A j \in Nat \ {0} : j < i => Digit(u, j) = Digit(x, j)
  BY DEF Parts
<1>3. CASE i <= Len(u)
  <2>1. Digit(u, i) = 0
    BY <1>2, <1>3, DigitIs
  <2> QED BY <1>1, <1>3, <2>1, DigitIs
<1>4. CASE i > Len(u)
  <2>1. Digit(u, i) = 1 /\ Digit(x, i) = 2
    BY <1>2, <1>4, DigitIs
  <2>2. i <= Len(x) /\ x[i] = 1
    BY <2>1, DigitIs
  <2>3. i = Len(u) + 1
    <3> SUFFICES ASSUME Len(u) + 1 < i PROVE FALSE
      BY <1>1, <1>4
    <3>1. Digit(u, Len(u) + 1) = Digit(x, Len(u) + 1)
      BY <1>1, <1>2
    <3>2. Digit(u, Len(u) + 1) = 1
      BY <1>1, DigitIs
    <3>3. Len(u) + 1 > Len(x)
      BY <1>1, <3>1, <3>2, DigitIs
    <3> QED BY <1>1, <2>2, <3>3
  <2>4. ASSUME NEW j \in 1..Len(u)
        PROVE  x[j] = u[j]
    <3>1. Digit(u, j) = 2 * u[j] /\ Digit(x, j) = 2 * x[j] /\ Digit(u, j) = Digit(x, j)
      BY <1>1, <1>2, <2>2, <2>3 DEF Digit
    <3>2. u[j] \in {0, 1} /\ x[j] \in {0, 1}
      BY <1>1, <2>2, <2>3, WayFacts DEF Bit
    <3> QED BY <3>1, <3>2
  <2> QED BY <1>1, <2>2, <2>3, <2>4 DEF Under
<1> QED BY <1>1, <1>3, <1>4

LEMMA PageWays ==
  /\ \A t : Pages!Leaves(t) = Leaves(t) /\ Pages!Free(t) = Free(t)
  /\ \A t, w, v : Pages!Added(t, w, v) = Added(t, w, v)
  /\ \A t, w : Pages!Dropped(t, w) = Dropped(t, w)
  /\ \A t, w, s : Pages!End(t, w, s) = End(t, w, s)
  /\ \A t, v : Pages!Occurs(t, v) = Occurs(t, v)
  /\ Pages!Top = Top /\ Pages!NoNodes = NoNodes
<1>1. \A t : Pages!Leaves(t) = Leaves(t) /\ Pages!Free(t) = Free(t)
  BY DEF Pages!Leaves, Leaves, Pages!Free, Free, Pages!Children, Children, Pages!Top, Top
<1>2. \A t, w, v : Pages!Added(t, w, v) = Added(t, w, v)
  BY DEF Pages!Added, Added
<1>3. \A t, w : Pages!Dropped(t, w) = Dropped(t, w)
  BY DEF Pages!Dropped, Dropped
<1>4. \A t, w, s : Pages!End(t, w, s) = End(t, w, s)
  BY DEF Pages!End, End, Pages!Straight, Straight, Pages!Within, Within
<1>5. \A S : Pages!Cardinality(S) = Cardinality(S)
  BY DEF Pages!Cardinality, Cardinality
<1>6. \A t, v : Pages!Occurs(t, v) = Pages!Cardinality(Of(t, v)) /\ Occurs(t, v) = Cardinality(Of(t, v))
  BY DEF Pages!Occurs, Occurs, Of
<1>7. Pages!Top = Top /\ Pages!NoNodes = NoNodes
  BY DEF Pages!Top, Top, Pages!NoNodes, NoNodes
<1> QED BY <1>1, <1>2, <1>3, <1>4, <1>5, <1>6, <1>7

(* Leftmost is first.                                                        *)
LEMMA LeftIsFirst ==
  ASSUME Shape(DOMAIN nodes), NEW w \in DOMAIN nodes
  PROVE  /\ Pages!LeftChild(w) \in DOMAIN nodes /\ Within(w, Pages!LeftChild(w))
         /\ \A x \in DOMAIN nodes :
              Within(w, x) => x = Pages!LeftChild(w) \/ Before(Pages!LeftChild(w), x)
<1> DEFINE e == End(nodes, w, 0)
<1>1. Pages!LeftChild(w) = e
  BY PageWays DEF Pages!LeftChild
<1>2. 0 \in Bit /\ \A x \in DOMAIN nodes : x \in Way
  BY DEF Bit, Shape
<1>3. e \in Straight(nodes, w, 0)
  BY <1>2, EndIsThere
<1>4. e \in DOMAIN nodes /\ Within(w, e)
  BY <1>3 DEF Straight
<1>5. ASSUME NEW x \in Straight(nodes, w, 0)
      PROVE  x \in DOMAIN nodes /\ (x = e \/ (Under(x, 0, e) /\ Before(e, x)))
  <2>1. x \in DOMAIN nodes
    BY DEF Straight
  <2>2. x = e \/ Under(x, 0, e)
    BY <1>2, EndIsLast
  <2> HIDE DEF e
  <2> QED BY <1>2, <1>4, <2>1, <2>2, SidesAreInOrder
<1> HIDE DEF e
<1>6. ASSUME NEW x \in DOMAIN nodes, Within(w, x), x \notin Straight(nodes, w, 0)
      PROVE  Before(e, x)
  <2>1. PICK u \in Straight(nodes, w, 0) : Under(u, 1, x)
    BY <1>2, <1>6, StraightOrAside DEF Bit
  <2>2. u \in DOMAIN nodes /\ Before(u, x)
    BY <1>2, <2>1, SidesAreInOrder DEF Straight
  <2> QED BY <1>2, <1>4, <1>5, <2>2, BeforeIsOrder
<1> QED BY <1>1, <1>4, <1>5, <1>6

(* Where a way turns left there is a node that comes after it.               *)
LEMMA RightParent ==
  ASSUME NEW p \in Way, NEW n \in 1..Len(p), NEW q, q = SubSeq(p, 1, n - 1)
  PROVE  /\ q \in Way /\ Len(q) = n - 1 /\ Within(q, p)
         /\ \A i \in 1..(n - 1) : q[i] = p[i]
         /\ p[n] = 0 => Parts(p, q, n)
<1>1. n \in Nat \ {0} /\ Len(p) \in Nat /\ n <= Len(p) /\ p \in Seq(Bit)
  BY WayFacts DEF Way, Bit
<1>2. q \in Seq(Bit) /\ Len(q) = n - 1 /\ \A i \in 1..(n - 1) : q[i] = p[i]
  BY <1>1
<1>3. q \in Way
  BY <1>2 DEF Way, Bit
<1>4. Within(q, p)
  BY <1>1, <1>2 DEF Within
<1>5. ASSUME p[n] = 0
      PROVE  Parts(p, q, n)
  BY <1>1, <1>2, <1>5 DEF Parts, Digit
<1> QED BY <1>2, <1>3, <1>4, <1>5

(* What the stream goes on with is a node, and no other is between; where it *)
(* ends, none is left.                                                       *)
LEMMA NextIsNext ==
  ASSUME Shape(DOMAIN nodes), NEW p \in DOMAIN nodes
  PROVE  /\ \A q \in Pages!NextNode(p) :
              /\ q \in Way /\ Before(p, q)
              /\ \A x \in DOMAIN nodes : Before(p, x) => x = q \/ Before(q, x)
         /\ Pages!NextNode(p) = {} => \A x \in DOMAIN nodes : ~Before(p, x)
<1> DEFINE c == Append(p, 1)
           R == {m \in 1..Len(p) : p[m] = 0}
<1>1. /\ p \in Way /\ c \in Way /\ Len(p) \in Nat /\ 1 \in Bit
      /\ \A x \in DOMAIN nodes : x \in Way
  BY WayFacts DEF Bit, Shape
<1>2. \A x \in DOMAIN nodes : Before(p, x) => Within(c, x) \/ \E i \in R : Parts(p, x, i)
  <2> SUFFICES ASSUME NEW x \in DOMAIN nodes, Before(p, x)
               PROVE  Within(c, x) \/ \E i \in R : Parts(p, x, i)
    OBVIOUS
  <2>1. PICK i \in Nat \ {0} : Parts(p, x, i)
    BY DEF Before
  <2>2. Under(p, 1, x) \/ (i \in 1..Len(p) /\ p[i] = 0)
    BY <1>1, <2>1, AfterIs
  <2> QED BY <1>1, <2>1, <2>2, UnderIsWithinChild
<1>3. CASE c \in DOMAIN nodes
  <2> DEFINE q == Pages!LeftChild(c)
  <2>1. Pages!NextNode(p) = {q}
    BY <1>3, <1>1 DEF Pages!NextNode, Pages!Has
  <2>2. q \in DOMAIN nodes /\ Within(c, q)
        /\ \A x \in DOMAIN nodes : Within(c, x) => x = q \/ Before(q, x)
    BY <1>3, LeftIsFirst
  <2> HIDE DEF q
  <2>3. Under(p, 1, q)
    BY <1>1, <2>2, UnderIsWithinChild
  <2>4. q \in Way /\ Before(p, q)
    BY <1>1, <2>2, <2>3, SidesAreInOrder
  <2>5. ASSUME NEW x \in DOMAIN nodes, NEW i \in R, Parts(p, x, i)
        PROVE  Before(q, x)
    <3>1. i \in Nat \ {0} /\ i <= Len(p)
      BY <1>1
    <3>2. \A j \in Nat \ {0} : j <= Len(p) => Digit(q, j) = Digit(p, j)
      BY <1>1, <2>3 DEF Under, Digit
    <3>3. Parts(q, x, i)
      BY <1>1, <2>5, <3>1, <3>2 DEF Parts
    <3> QED BY <3>1, <3>3 DEF Before
  <2> QED BY <1>2, <2>1, <2>2, <2>4, <2>5
<1>4. CASE c \notin DOMAIN nodes
  <2>1. \A x \in DOMAIN nodes : Before(p, x) => \E i \in R : Parts(p, x, i)
    BY <1>1, <1>2, <1>4, AllAbove
  <2>2. Pages!NextNode(p) = {q \in Pages!RightParents(p) :
                               \A r \in Pages!RightParents(p) : Len(r) <= Len(q)}
    BY <1>4 DEF Pages!NextNode, Pages!Has
  <2>3. \A q : q \in Pages!RightParents(p) <=> \E n \in R : q = SubSeq(p, 1, n - 1)
    BY DEF Pages!RightParents
  <2>4. ASSUME NEW q \in Pages!NextNode(p)
        PROVE  /\ q \in Way /\ Before(p, q)
               /\ \A x \in DOMAIN nodes : Before(p, x) => x = q \/ Before(q, x)
    <3>1. PICK n \in R : q = SubSeq(p, 1, n - 1)
      BY <2>2, <2>3
    <3>2. /\ n \in 1..Len(p) /\ p[n] = 0 /\ q \in Way /\ Len(q) = n - 1 /\ Within(q, p)
          /\ (\A i \in 1..(n - 1) : q[i] = p[i]) /\ Parts(p, q, n)
      BY <1>1, <3>1, RightParent
    <3>3. Before(p, q)
      BY <1>1, <3>2 DEF Before
    <3>4. ASSUME NEW x \in DOMAIN nodes, Before(p, x)
          PROVE  x = q \/ Before(q, x)
      <4>1. PICK i \in R : Parts(p, x, i)
        BY <2>1, <3>4
      <4>2. i \in 1..Len(p) /\ p[i] = 0
        OBVIOUS
      <4>3. i <= n
        <5> DEFINE r == SubSeq(p, 1, i - 1)
        <5>1. Len(r) = i - 1
          BY <1>1, <4>2, RightParent
        <5>2. r \in Pages!RightParents(p)
          BY <2>3
        <5>3. Len(r) <= Len(q)
          BY <2>2, <5>2
        <5> QED BY <1>1, <3>2, <4>2, <5>1, <5>3
      <4>4. CASE i < n
        <5>1. \A j \in Nat \ {0} : j <= i => Digit(q, j) = Digit(p, j)
          BY <1>1, <3>2, <4>4 DEF Digit
        <5>2. Parts(q, x, i)
          BY <1>1, <4>1, <4>2, <5>1 DEF Parts
        <5> QED BY <1>1, <4>2, <5>2 DEF Before
      <4>5. CASE i = n
        <5>1. x \in Way /\ Len(x) \in Nat /\ Len(q) \in Nat /\ i \in Nat \ {0}
          BY <1>1, <3>2, <4>2, WayFacts
        <5>2. Digit(q, i) = 1
          BY <3>2, <4>5, <5>1 DEF Digit
        <5>3. Digit(x, i) \in {0, 1, 2} /\ Digit(p, i) = 0 /\ Digit(p, i) < Digit(x, i)
          BY <1>1, <4>1, <4>2, <5>1, DigitIs DEF Parts
        <5>4. \A j \in Nat \ {0} : j < i => Digit(q, j) = Digit(p, j) /\ Digit(p, j) = Digit(x, j)
          BY <1>1, <3>2, <4>1, <4>5, <5>1 DEF Digit, Parts
        <5>5. CASE Digit(x, i) = 2
          <6>1. Parts(q, x, i)
            BY <5>1, <5>2, <5>4, <5>5 DEF Parts
          <6> QED BY <5>1, <6>1 DEF Before
        <5>6. CASE Digit(x, i) = 1
          <6>1. \A j \in Nat \ {0} : (Digit(q, j) = 1 /\ Digit(x, j) = 1) \/ j < i
            BY <3>2, <4>5, <5>1, <5>6, DigitIs
          <6>2. \A j \in Nat \ {0} : Digit(q, j) = Digit(x, j)
            BY <5>4, <6>1
          <6>3. \A j \in Nat \ {0} : Digit(q, j) \in {0, 1, 2}
            BY <3>2, DigitIs
          <6>4. \A j \in Nat \ {0} : ~Parts(q, x, j) /\ ~Parts(x, q, j)
            BY <6>2, <6>3 DEF Parts
          <6> QED BY <3>2, <5>1, <6>4, BeforeIsOrder DEF Before
        <5> QED BY <5>3, <5>5, <5>6
      <4> QED BY <1>1, <3>2, <4>2, <4>3, <4>4, <4>5
    <3> QED BY <3>2, <3>3, <3>4
  <2>5. ASSUME Pages!NextNode(p) = {}
        PROVE  R = {}
    <3> SUFFICES ASSUME R # {} PROVE FALSE
      OBVIOUS
    <3> DEFINE M == {Len(p) - n : n \in R}
    <3>1. M \in SUBSET Nat /\ M # {}
      <4>1. \A n \in R : Len(p) - n \in Nat
        BY <1>1
      <4> QED BY <4>1
    <3>2. PICK m \in M : \A k \in M : m <= k
      BY <3>1, Least
    <3>3. PICK n \in R : m = Len(p) - n
      BY <3>2
    <3>4. \A k \in R : k <= n
      <4> SUFFICES ASSUME NEW k \in R PROVE k <= n
        OBVIOUS
      <4>1. Len(p) - k \in M
        OBVIOUS
      <4>2. m <= Len(p) - k
        BY <3>2, <4>1
      <4> QED BY <1>1, <3>3, <4>2
    <3> DEFINE q == SubSeq(p, 1, n - 1)
    <3>5. q \in Pages!RightParents(p) /\ Len(q) = n - 1
      BY <1>1, <2>3, RightParent
    <3> HIDE DEF q
    <3>6. ASSUME NEW r \in Pages!RightParents(p)
          PROVE  Len(r) <= Len(q)
      <4>1. PICK k \in R : r = SubSeq(p, 1, k - 1)
        BY <2>3
      <4>2. Len(r) = k - 1
        BY <1>1, <4>1, RightParent
      <4>3. k <= n /\ k \in Nat /\ n \in Nat
        BY <1>1, <3>4
      <4> QED BY <3>5, <4>2, <4>3
    <3>7. q \in Pages!NextNode(p)
      BY <2>2, <3>5, <3>6
    <3> QED BY <2>5, <3>7
  <2> QED BY <2>1, <2>4, <2>5
<1> QED BY <1>3, <1>4

(* The tree ids: what is computed along a way, bit by bit.                   *)
Counts(w, g) ==
  /\ g \in [0..Len(w) -> Nat \ {0}] /\ g[0] = 1
  /\ \A n \in 1..Len(w) : g[n] = 2 * g[n - 1] + w[n]

LEMMA CountsOnce ==
  ASSUME NEW u \in Way, NEW w \in Way, NEW f, NEW g, Counts(u, f), Counts(w, g),
         Len(u) <= Len(w), \A i \in 1..Len(u) : u[i] = w[i]
  PROVE  \A n \in 0..Len(u) : f[n] = g[n]
<1> DEFINE M == {n \in Nat : n <= Len(u) /\ f[n] # g[n]}
<1>1. Len(u) \in Nat /\ Len(w) \in Nat /\ \A i \in 1..Len(w) : w[i] \in {0, 1}
  BY WayFacts DEF Bit
<1>2. /\ f[0] = 1 /\ g[0] = 1
      /\ \A n \in 1..Len(u) : f[n] = 2 * f[n - 1] + u[n]
      /\ \A n \in 1..Len(w) : g[n] = 2 * g[n - 1] + w[n]
  BY DEF Counts
<1>3. CASE M = {}
  BY <1>1, <1>3
<1>4. CASE M # {}
  <2>1. PICK n \in M : \A k \in M : n <= k
    BY <1>4, Least
  <2>2. n \in 1..Len(u) /\ n \in 1..Len(w) /\ f[n] # g[n]
    BY <1>1, <1>2, <2>1
  <2>3. n - 1 \in Nat /\ n - 1 <= Len(u) /\ ~(n <= n - 1)
    BY <1>1, <2>2
  <2>4. f[n - 1] = g[n - 1]
    BY <2>1, <2>3
  <2>5. f[n] = 2 * f[n - 1] + u[n] /\ g[n] = 2 * g[n - 1] + w[n] /\ u[n] = w[n]
    BY <1>2, <2>2
  <2> QED BY <2>2, <2>4, <2>5
<1> QED BY <1>3, <1>4

LEMMA WayEnds ==
  ASSUME NEW w \in Way, w # Top
  PROVE  \E u \in Way, s \in Bit : w = Append(u, s) /\ Len(w) = Len(u) + 1
<1>1. Len(w) \in Nat /\ Len(w) # 0 /\ \A i \in 1..Len(w) : w[i] \in Bit
  BY WayFacts
<1>2. Len(w) - 1 \in 0..Len(w)
  BY <1>1
<1>3. PICK u \in Way : Len(u) = Len(w) - 1 /\ \A i \in 1..(Len(w) - 1) : u[i] = w[i]
  BY <1>2, Beginning
<1>4. PICK s \in Bit : s = w[Len(w)]
  BY <1>1
<1> DEFINE y == Append(u, s)
<1>5. /\ y \in Way /\ Len(y) = Len(u) + 1 /\ y[Len(u) + 1] = s
      /\ \A i \in 1..Len(u) : y[i] = u[i]
  BY WayFacts
<1> HIDE DEF y
<1>6. Len(y) = Len(w) /\ \A i \in 1..Len(w) : y[i] = w[i]
  BY <1>1, <1>3, <1>4, <1>5
<1>7. w = y
  BY <1>5, <1>6, WayFacts
<1> QED BY <1>1, <1>3, <1>7 DEF y

LEMMA CountsExist ==
  ASSUME NEW w \in Way
  PROVE  \E g : Counts(w, g)
<1> DEFINE M == {n \in Nat : \E x \in Way : Len(x) = n /\ \A g : ~Counts(x, g)}
<1>1. CASE M = {}
  BY <1>1, WayFacts
<1>2. CASE M # {}
  <2>1. PICK n \in M : \A k \in M : n <= k
    BY <1>2, Least
  <2>2. PICK x \in Way : Len(x) = n /\ \A g : ~Counts(x, g)
    BY <2>1
  <2>3. CASE x = Top
    <3> DEFINE g == [i \in 0..0 |-> 1]
    <3>1. Counts(x, g)
      BY <2>3, WayFacts DEF Counts
    <3> QED BY <2>2, <3>1
  <2>4. CASE x # Top
    <3>1. PICK u \in Way, s \in Bit : x = Append(u, s) /\ Len(x) = Len(u) + 1
      BY <2>4, WayEnds
    <3>2. Len(u) \in Nat /\ Len(u) < n
      BY <2>2, <3>1, WayFacts
    <3>3. Len(u) \notin M
      BY <2>1, <3>2
    <3>4. PICK f : Counts(u, f)
      BY <3>2, <3>3
    <3> DEFINE g == [i \in 0..Len(x) |-> IF i = Len(x) THEN 2 * f[Len(u)] + s ELSE f[i]]
    <3>5. /\ f \in [0..Len(u) -> Nat \ {0}] /\ f[0] = 1
          /\ \A i \in 1..Len(u) : f[i] = 2 * f[i - 1] + u[i]
      BY <3>4 DEF Counts
    <3>6. x[Len(x)] = s /\ \A i \in 1..Len(u) : x[i] = u[i]
      BY <3>1, WayFacts
    <3>7. f[Len(u)] \in Nat \ {0} /\ s \in {0, 1}
      BY <3>2, <3>5 DEF Bit
    <3>8. g \in [0..Len(x) -> Nat \ {0}]
      <4>1. ASSUME NEW i \in 0..Len(x)
            PROVE  (IF i = Len(x) THEN 2 * f[Len(u)] + s ELSE f[i]) \in Nat \ {0}
        <5>1. CASE i = Len(x)
          BY <3>7, <5>1
        <5>2. CASE i # Len(x)
          BY <3>1, <3>2, <3>5, <5>2
        <5> QED BY <5>1, <5>2
      <4> QED BY <4>1
    <3>9. g[0] = 1
      BY <3>1, <3>2, <3>5
    <3>10. ASSUME NEW i \in 1..Len(x)
           PROVE  g[i] = 2 * g[i - 1] + x[i]
      <4>1. i - 1 \in 0..Len(x) /\ i \in 0..Len(x) /\ i - 1 # Len(x)
        BY <3>1, <3>2
      <4>2. g[i - 1] = f[i - 1]
        BY <4>1
      <4>3. CASE i = Len(x)
        <5>1. g[i] = 2 * f[Len(u)] + s /\ i - 1 = Len(u)
          BY <3>1, <3>2, <4>1, <4>3
        <5> HIDE DEF g
        <5> QED BY <3>6, <4>2, <4>3, <5>1
      <4>4. CASE i # Len(x)
        <5>1. g[i] = f[i] /\ i \in 1..Len(u)
          BY <3>1, <3>2, <4>1, <4>4
        <5> HIDE DEF g
        <5> QED BY <3>5, <3>6, <4>2, <5>1
      <4> QED BY <4>3, <4>4
    <3> HIDE DEF g
    <3>11. Counts(x, g)
      BY <3>8, <3>9, <3>10 DEF Counts
    <3> QED BY <2>2, <3>11
  <2> QED BY <2>3, <2>4
<1> QED BY <1>1, <1>2

LEMMA TreeIdCounts ==
  ASSUME NEW w \in Way, NEW g, Counts(w, g)
  PROVE  Pages!TreeId(w) = g[Len(w)]
<1> DEFINE R(f) == f = [n \in 0..Len(w) |-> IF n = 0 THEN 1 ELSE 2 * f[n - 1] + w[n]]
           id == CHOOSE f : R(f)
<1>1. Len(w) \in Nat /\ \A i \in 1..Len(w) : w[i] \in {0, 1}
  BY WayFacts DEF Bit
<1>2. Pages!TreeId(w) = id[Len(w)]
  BY DEF Pages!TreeId
<1>3. g = [n \in 0..Len(w) |-> IF n = 0 THEN 1 ELSE 2 * g[n - 1] + w[n]]
  <2>1. \A n \in 0..Len(w) : g[n] = IF n = 0 THEN 1 ELSE 2 * g[n - 1] + w[n]
    BY <1>1 DEF Counts
  <2>2. g = [n \in 0..Len(w) |-> g[n]]
    BY DEF Counts
  <2> QED BY <2>1, <2>2
<1>4. R(g)
  BY <1>3
<1>5. R(id)
  <2> HIDE DEF R
  <2> QED BY <1>4
<1> HIDE DEF id
<1>6. \A n \in 0..Len(w) : id[n] = g[n]
  <2> DEFINE M == {n \in Nat : n <= Len(w) /\ id[n] # g[n]}
  <2>0. /\ \A n \in 0..Len(w) : id[n] = IF n = 0 THEN 1 ELSE 2 * id[n - 1] + w[n]
        /\ \A n \in 0..Len(w) : g[n] = IF n = 0 THEN 1 ELSE 2 * g[n - 1] + w[n]
    BY <1>4, <1>5
  <2>1. CASE M = {}
    BY <1>1, <2>1
  <2>2. CASE M # {}
    <3>1. PICK n \in M : \A k \in M : n <= k
      BY <2>2, Least
    <3>2. n \in 0..Len(w) /\ id[n] # g[n]
      BY <1>1, <3>1
    <3>3. n # 0
      BY <1>1, <2>0, <3>2
    <3>4. n - 1 \in Nat /\ n - 1 <= Len(w) /\ ~(n <= n - 1)
      BY <1>1, <3>2, <3>3
    <3>5. id[n - 1] = g[n - 1]
      BY <3>1, <3>4
    <3>6. id[n] = 2 * id[n - 1] + w[n] /\ g[n] = 2 * g[n - 1] + w[n]
      BY <2>0, <3>2, <3>3
    <3> QED BY <3>2, <3>5, <3>6
  <2> QED BY <2>1, <2>2
<1> QED BY <1>1, <1>2, <1>6

LEMMA TreeIds ==
  /\ \A w \in Way : Pages!TreeId(w) \in Nat \ {0}
  /\ Pages!TreeId(Top) = 1
  /\ \A w \in Way, s \in Bit : Pages!TreeId(Append(w, s)) = 2 * Pages!TreeId(w) + s
<1>1. ASSUME NEW w \in Way
      PROVE  Pages!TreeId(w) \in Nat \ {0}
  <2>1. PICK g : Counts(w, g)
    BY CountsExist
  <2>2. Len(w) \in Nat
    BY WayFacts
  <2> QED BY <2>1, <2>2, TreeIdCounts DEF Counts
<1>2. Pages!TreeId(Top) = 1
  <2>1. PICK g : Counts(Top, g)
    BY CountsExist, WayFacts
  <2> QED BY <2>1, TreeIdCounts, WayFacts DEF Counts
<1>3. ASSUME NEW w \in Way, NEW s \in Bit
      PROVE  Pages!TreeId(Append(w, s)) = 2 * Pages!TreeId(w) + s
  <2> DEFINE x == Append(w, s)
  <2>1. /\ x \in Way /\ Len(x) = Len(w) + 1 /\ x[Len(w) + 1] = s
        /\ \A i \in 1..Len(w) : x[i] = w[i]
        /\ Len(w) \in Nat
    BY WayFacts
  <2> HIDE DEF x
  <2>2. PICK f : Counts(w, f)
    BY CountsExist
  <2>3. PICK g : Counts(x, g)
    BY <2>1, CountsExist
  <2>4. f[Len(w)] = g[Len(w)]
    <3>1. Len(w) <= Len(x) /\ \A i \in 1..Len(w) : w[i] = x[i]
      BY <2>1
    <3>2. \A n \in 0..Len(w) : f[n] = g[n]
      BY <2>1, <2>2, <2>3, <3>1, CountsOnce
    <3> QED BY <2>1, <3>2
  <2>5. g[Len(x)] = 2 * g[Len(w)] + s
    BY <2>1, <2>3 DEF Counts
  <2>6. Pages!TreeId(w) = f[Len(w)] /\ Pages!TreeId(x) = g[Len(x)]
    BY <2>1, <2>2, <2>3, TreeIdCounts
  <2> QED BY <2>4, <2>5, <2>6 DEF x
<1> QED BY <1>1, <1>2, <1>3

(* Every number is the tree id of one way.                                   *)
LEMMA TreeIdOfOne ==
  /\ \A n \in Nat \ {0} : \E w \in Way : Pages!TreeId(w) = n
  /\ \A u, w \in Way : Pages!TreeId(u) = Pages!TreeId(w) => u = w
<1>1. \A w \in Way : w = Top \/ \E u \in Way, s \in {0, 1} :
        w = Append(u, s) /\ Pages!TreeId(w) = 2 * Pages!TreeId(u) + s
  <2> SUFFICES ASSUME NEW w \in Way, w # Top
               PROVE  \E u \in Way, s \in {0, 1} :
                        w = Append(u, s) /\ Pages!TreeId(w) = 2 * Pages!TreeId(u) + s
    OBVIOUS
  <2>1. PICK u \in Way, s \in Bit : w = Append(u, s)
    BY WayEnds
  <2>2. Pages!TreeId(Append(u, s)) = 2 * Pages!TreeId(u) + s
    BY TreeIds
  <2>3. s \in {0, 1}
    BY DEF Bit
  <2> QED BY <2>1, <2>2, <2>3
<1>2. \A n \in Nat \ {0} : \E w \in Way : Pages!TreeId(w) = n
  <2> DEFINE M == {n \in Nat : n # 0 /\ \A w \in Way : Pages!TreeId(w) # n}
  <2>1. CASE M = {}
    BY <2>1
  <2>2. CASE M # {}
    <3>1. PICK n \in M : \A k \in M : n <= k
      BY <2>2, Least
    <3>2. n \in Nat /\ n # 0 /\ \A w \in Way : Pages!TreeId(w) # n
      OBVIOUS
    <3>3. n # 1
      BY <3>2, TreeIds, WayFacts
    <3>4. PICK m \in Nat, s \in {0, 1} : n = 2 * m + s
      <4>1. n \div 2 \in Nat /\ n % 2 \in {0, 1} /\ n = 2 * (n \div 2) + (n % 2)
        BY <3>2
      <4> QED BY <4>1
    <3>5. m # 0 /\ m < n
      BY <3>2, <3>3, <3>4
    <3>6. m \notin M
      BY <3>1, <3>2, <3>5
    <3>7. PICK u \in Way : Pages!TreeId(u) = m
      BY <3>5, <3>6
    <3>8. Append(u, s) \in Way /\ Pages!TreeId(Append(u, s)) = n
      BY <3>4, <3>7, TreeIds, WayFacts DEF Bit
    <3> QED BY <3>2, <3>8
  <2> QED BY <2>1, <2>2
<1>3. \A u, w \in Way : Pages!TreeId(u) = Pages!TreeId(w) => u = w
  <2> DEFINE M == {n \in Nat : \E u, w \in Way :
                     Pages!TreeId(u) = n /\ Pages!TreeId(w) = n /\ u # w}
  <2>1. CASE M = {}
    BY <2>1, TreeIds
  <2>2. CASE M # {}
    <3>1. PICK n \in M : \A k \in M : n <= k
      BY <2>2, Least
    <3>2. PICK u \in Way, w \in Way : Pages!TreeId(u) = n /\ Pages!TreeId(w) = n /\ u # w
      BY <3>1
    <3>3. u # Top
      <4> SUFFICES ASSUME u = Top PROVE FALSE
        OBVIOUS
      <4>1. PICK y \in Way, s \in {0, 1} : Pages!TreeId(w) = 2 * Pages!TreeId(y) + s
        BY <1>1, <3>2
      <4>2. PICK m \in Nat \ {0} : m = Pages!TreeId(y)
        BY TreeIds
      <4>3. 1 = 2 * m + s
        BY <3>2, <4>1, <4>2, TreeIds
      <4> QED BY <4>3
    <3>4. w # Top
      <4> SUFFICES ASSUME w = Top PROVE FALSE
        OBVIOUS
      <4>1. PICK y \in Way, s \in {0, 1} : Pages!TreeId(u) = 2 * Pages!TreeId(y) + s
        BY <1>1, <3>2
      <4>2. PICK m \in Nat \ {0} : m = Pages!TreeId(y)
        BY TreeIds
      <4>3. 1 = 2 * m + s
        BY <3>2, <4>1, <4>2, TreeIds
      <4> QED BY <4>3
    <3>5. PICK x \in Way, s \in {0, 1} : u = Append(x, s) /\ n = 2 * Pages!TreeId(x) + s
      BY <1>1, <3>2, <3>3
    <3>6. PICK y \in Way, r \in {0, 1} : w = Append(y, r) /\ n = 2 * Pages!TreeId(y) + r
      BY <1>1, <3>2, <3>4
    <3>7. Pages!TreeId(x) \in Nat \ {0} /\ Pages!TreeId(y) \in Nat \ {0}
      BY TreeIds
    <3>8. s = r /\ Pages!TreeId(x) = Pages!TreeId(y) /\ Pages!TreeId(x) < n
      BY <3>5, <3>6, <3>7
    <3>9. Pages!TreeId(x) \notin M
      BY <3>1, <3>7, <3>8
    <3>10. x = y
      BY <3>7, <3>8, <3>9
    <3> QED BY <3>2, <3>5, <3>6, <3>8, <3>10
  <2> QED BY <2>1, <2>2
<1> QED BY <1>2, <1>3

(* The stream goes on where it meant to.                                     *)
LEMMA PathToIsBack ==
  ASSUME NEW w \in Way
  PROVE  Pages!PathTo[Pages!TreeId(w)] = w
<1> DEFINE Ids == Nat \ {0}
           R(f) == f = [id \in Ids |-> IF id = 1 THEN Top ELSE Append(f[id \div 2], id % 2)]
           g == [id \in Ids |-> CHOOSE x \in Way : Pages!TreeId(x) = id]
           path == CHOOSE f : R(f)
<1>1. Pages!PathTo = path
  BY PageWays DEF Pages!PathTo
<1>2. \A x \in Way : Pages!TreeId(x) \in Ids /\ g[Pages!TreeId(x)] = x
  BY TreeIds, TreeIdOfOne
<1>3. ASSUME NEW id \in Ids
      PROVE  g[id] = IF id = 1 THEN Top ELSE Append(g[id \div 2], id % 2)
  <2> HIDE DEF g
  <2>1. CASE id = 1
    BY <1>2, <2>1, TreeIds, WayFacts
  <2>2. CASE id # 1
    <3>1. /\ id \div 2 \in Ids /\ id % 2 \in {0, 1}
          /\ id = 2 * (id \div 2) + (id % 2)
      BY <2>2
    <3>2. PICK m \in Ids, s \in {0, 1} : m = id \div 2 /\ s = id % 2 /\ id = 2 * m + s
      BY <3>1
    <3>3. PICK u \in Way : Pages!TreeId(u) = m
      BY TreeIdOfOne
    <3>4. Append(u, s) \in Way /\ Pages!TreeId(Append(u, s)) = id
      BY <3>2, <3>3, TreeIds, WayFacts DEF Bit
    <3>5. g[m] = u /\ g[id] = Append(u, s)
      BY <1>2, <3>3, <3>4
    <3> QED BY <2>2, <3>2, <3>5
  <2> QED BY <2>1, <2>2
<1>4. R(g)
  <2>1. g = [id \in Ids |-> g[id]]
    OBVIOUS
  <2> HIDE DEF g
  <2>2. g = [id \in Ids |-> IF id = 1 THEN Top ELSE Append(g[id \div 2], id % 2)]
    BY <1>3, <2>1
  <2> QED BY <2>2
<1>5. R(path)
  <2> HIDE DEF R, g
  <2> QED BY <1>4
<1> HIDE DEF path, g
<1>6. /\ path[1] = Top
      /\ \A id \in Ids : id # 1 => path[id] = Append(path[id \div 2], id % 2)
  <2>1. \A id \in Ids : path[id] = IF id = 1 THEN Top ELSE Append(path[id \div 2], id % 2)
    BY <1>5
  <2>2. 1 \in Ids
    OBVIOUS
  <2>3. path[1] = Top
    BY <2>1, <2>2
  <2> HIDE DEF Ids
  <2> QED BY <2>1, <2>3
<1>7. \A x \in Way : path[Pages!TreeId(x)] = x
  <2> DEFINE M == {n \in Nat : \E x \in Way : Pages!TreeId(x) = n /\ path[n] # x}
  <2>1. CASE M = {}
    BY <2>1, TreeIds
  <2>2. CASE M # {}
    <3>1. PICK n \in M : \A k \in M : n <= k
      BY <2>2, Least
    <3>2. PICK x \in Way : Pages!TreeId(x) = n /\ path[n] # x
      BY <3>1
    <3>3. x # Top
      BY <1>6, <3>2, TreeIds
    <3>4. PICK u \in Way, s \in Bit : x = Append(u, s)
      BY <3>3, WayEnds
    <3>5. Pages!TreeId(u) \in Nat \ {0} /\ n = 2 * Pages!TreeId(u) + s /\ s \in {0, 1}
      BY <3>2, <3>4, TreeIds DEF Bit
    <3>6. n \in Ids /\ n # 1 /\ n \div 2 = Pages!TreeId(u) /\ n % 2 = s /\ Pages!TreeId(u) < n
      BY <3>5
    <3>7. Pages!TreeId(u) \notin M
      BY <3>1, <3>5, <3>6
    <3>8. path[Pages!TreeId(u)] = u
      BY <3>5, <3>7
    <3>9. path[n] = Append(u, s)
      BY <1>6, <3>6, <3>8
    <3> QED BY <3>2, <3>4, <3>9
  <2> QED BY <2>1, <2>2
<1> QED BY <1>1, <1>7

(* How far a stream came when it goes on at p: of the nodes, those before p  *)
(* whose pages it must give it gave, and it gave none at p or after it.      *)
Given == {given[i] : i \in DOMAIN given}
SoFar(p) ==
  \A x \in DOMAIN nodes :
    /\ nodes[x] \in steady /\ Before(x, p) => nodes[x] \in Given
    /\ nodes[x] \in Given => Before(x, p)

PagesOnce ==
  /\ added \in Nat /\ Shape(DOMAIN nodes)
  /\ \A x \in DOMAIN nodes : nodes[x] \in 1..added /\ nodes[x] \in PageNumber
  /\ \A x, y \in DOMAIN nodes : nodes[x] = nodes[y] => x = y

StreamOnce ==
  /\ \A v \in steady : \E x \in DOMAIN nodes : nodes[x] = v
  /\ given \in Seq(Nat) /\ \A i \in DOMAIN given : given[i] \in 1..added
  /\ \A i, j \in DOMAIN given : given[i] = given[j] => i = j

CursorIsRight ==
  /\ cursor \in Int
  /\ cursor = Pages!NoStream \/ cursor = 0 => given = << >>
  /\ cursor > 0 => Pages!PathTo[cursor] \in Way /\ SoFar(Pages!PathTo[cursor])
  /\ cursor = Pages!AtEnd => steady \subseteq Given

PageInv == PagesOnce /\ StreamOnce /\ CursorIsRight

LEMMA PagesInitially ==
  ASSUME Pages!Init PROVE PageInv
<1>1. /\ DOMAIN nodes = {} /\ added = 0 /\ cursor = -2 /\ given = << >> /\ steady = {}
  BY PageWays, EmptyTree DEF Pages!Init, Pages!NoStream
<1>2. Shape(DOMAIN nodes)
  BY <1>1, FS_EmptySet DEF Shape
<1>3. PagesOnce /\ StreamOnce
  BY <1>1, <1>2 DEF PagesOnce, StreamOnce
<1>4. CursorIsRight
  BY <1>1 DEF CursorIsRight, Pages!AtEnd
<1> QED BY <1>3, <1>4 DEF PageInv

LEMMA NoTop ==
  ASSUME Shape(DOMAIN nodes), ~Pages!Has(Pages!Top)
  PROVE  DOMAIN nodes = {}
<1> SUFFICES ASSUME NEW x \in DOMAIN nodes PROVE FALSE
  OBVIOUS
<1>1. x \in Way /\ Top \in Way /\ Within(Top, x)
  BY WayFacts DEF Shape, Within
<1> QED BY <1>1, AllAbove, PageWays DEF Pages!Has

(* A new page is one that neither the tree nor the stream knew.              *)
LEMMA PageAdds ==
  ASSUME PageInv, NEW v \in PageNumber, Pages!Add(v)
  PROVE  PageInv' /\ \E w \in Free(nodes) : nodes' = Added(nodes, w, v)
<1>1. PICK w \in Free(nodes) : nodes' = Added(nodes, w, v)
  BY PageWays DEF Pages!Add
<1>2. /\ v = added + 1 /\ added' = added + 1 /\ added \in Nat
      /\ UNCHANGED <<cursor, given, steady>>
  BY DEF Pages!Add, Pages!streamVars, PageInv, PagesOnce
<1>3. w \notin DOMAIN nodes /\ Shape(DOMAIN nodes \cup {w})
  BY FreePlace, ShapeGrows DEF PageInv, PagesOnce
<1>4. /\ DOMAIN nodes' = DOMAIN nodes \cup {w} /\ nodes'[w] = added + 1
      /\ \A x \in DOMAIN nodes : nodes'[x] = nodes[x]
  BY <1>1, <1>2, <1>3 DEF Added
<1>5. PagesOnce'
  <2>1. \A x \in DOMAIN nodes' : nodes'[x] \in 1..added' /\ nodes'[x] \in PageNumber
    BY <1>2, <1>4 DEF PageInv, PagesOnce
  <2>2. ASSUME NEW x \in DOMAIN nodes', NEW y \in DOMAIN nodes', nodes'[x] = nodes'[y]
        PROVE  x = y
    BY <1>2, <1>4, <2>2 DEF PageInv, PagesOnce
  <2> QED BY <1>2, <1>3, <1>4, <2>1, <2>2 DEF PagesOnce
<1>6. StreamOnce'
  <2>1. \A u \in steady' : \E x \in DOMAIN nodes' : nodes'[x] = u
    BY <1>2, <1>4 DEF PageInv, StreamOnce
  <2>2. \A i \in DOMAIN given' : given'[i] \in 1..added'
    BY <1>2 DEF PageInv, StreamOnce
  <2> QED BY <1>2, <2>1, <2>2 DEF PageInv, StreamOnce
<1>7. added + 1 \notin steady /\ added + 1 \notin Given
  BY <1>2 DEF PageInv, PagesOnce, StreamOnce, Given
<1>8. CursorIsRight'
  <2>1. Given' = Given
    BY <1>2 DEF Given
  <2>2. ASSUME NEW p, SoFar(p)
        PROVE  SoFar(p)'
    BY <1>2, <1>4, <1>7, <2>1, <2>2 DEF SoFar
  <2> QED BY <1>2, <2>1, <2>2 DEF PageInv, CursorIsRight
<1> QED BY <1>1, <1>5, <1>6, <1>8 DEF PageInv

LEMMA PageGoes ==
  ASSUME PageInv, Pages!Get
  PROVE  PageInv' /\ \E w \in Leaves(nodes) :
           nodes' = Dropped(nodes, w) /\ answer' = <<"drop", nodes[w]>>
<1>1. PICK w \in Leaves(nodes) :
        /\ nodes' = Dropped(nodes, w) /\ answer' = <<"drop", nodes[w]>>
        /\ steady' = steady \ {nodes[w]}
  BY PageWays DEF Pages!Get
<1>2. UNCHANGED <<added, cursor, given>>
  BY DEF Pages!Get
<1>3. w \in DOMAIN nodes
  BY DEF Leaves
<1>4. DOMAIN nodes' = DOMAIN nodes \ {w} /\ \A x \in DOMAIN nodes' : nodes'[x] = nodes[x]
  BY <1>1 DEF Dropped
<1>5. PagesOnce'
  <2>1. {w} \in SUBSET Leaves(nodes) /\ Shape(DOMAIN nodes)
    BY DEF PageInv, PagesOnce
  <2>2. Shape(DOMAIN nodes')
    BY <1>4, <2>1, ShapeShrinks
  <2> QED BY <1>2, <1>4, <2>2 DEF PageInv, PagesOnce
<1>6. StreamOnce'
  <2>1. ASSUME NEW u \in steady'
        PROVE  \E x \in DOMAIN nodes' : nodes'[x] = u
    <3>1. PICK x \in DOMAIN nodes : nodes[x] = u
      BY <1>1 DEF PageInv, StreamOnce
    <3>2. x # w
      BY <1>1, <3>1
    <3> QED BY <1>4, <3>1, <3>2
  <2> QED BY <1>2, <2>1 DEF PageInv, StreamOnce
<1>7. CursorIsRight'
  <2>1. Given' = Given
    BY <1>2 DEF Given
  <2>2. ASSUME NEW p, SoFar(p)
        PROVE  SoFar(p)'
    BY <1>1, <1>4, <2>1, <2>2 DEF SoFar
  <2> QED BY <1>1, <1>2, <2>1, <2>2 DEF PageInv, CursorIsRight
<1> QED BY <1>1, <1>5, <1>6, <1>7 DEF PageInv

(* A block of the stream, at a node where it came so far.                    *)
LEMMA BlockGoesOn ==
  ASSUME PageInv, NEW p \in DOMAIN nodes, SoFar(p), Pages!Block(p)
  PROVE  PageInv'
<1>1. /\ given' = Append(given, nodes[p])
      /\ cursor' = IF Pages!NextNode(p) = {} THEN Pages!AtEnd
                   ELSE Pages!TreeId(CHOOSE q \in Pages!NextNode(p) : TRUE)
      /\ UNCHANGED <<nodes, added, steady>>
  BY DEF Pages!Block
<1>2. /\ p \in Way /\ Shape(DOMAIN nodes) /\ added \in Nat /\ nodes[p] \in 1..added
      /\ \A x \in DOMAIN nodes : x \in Way
  BY DEF PageInv, PagesOnce, Shape
<1>3. given \in Seq(Nat) /\ given' \in Seq(Nat) /\ Len(given') = Len(given) + 1
      /\ given'[Len(given) + 1] = nodes[p] /\ \A i \in 1..Len(given) : given'[i] = given[i]
  BY <1>1, <1>2 DEF PageInv, StreamOnce
<1>4. Given' = Given \cup {nodes[p]}
  <2>1. DOMAIN given = 1..Len(given) /\ DOMAIN given' = 1..(Len(given) + 1) /\ Len(given) \in Nat
    BY <1>3
  <2>2. ASSUME NEW v
        PROVE  v \in Given' <=> v \in Given \/ v = nodes[p]
    <3>1. v \in Given' <=> \E i \in 1..(Len(given) + 1) : given'[i] = v
      BY <2>1 DEF Given
    <3>2. v \in Given <=> \E i \in 1..Len(given) : given[i] = v
      BY <2>1 DEF Given
    <3> QED BY <1>3, <2>1, <3>1, <3>2
  <2> QED BY <2>2
<1>5. nodes[p] \notin Given
  BY <1>2, BeforeIsOrder DEF SoFar
<1>6. PagesOnce'
  BY <1>1 DEF PageInv, PagesOnce
<1>7. StreamOnce'
  <2>1. \A i \in DOMAIN given : given[i] # nodes[p] /\ given[i] \in 1..added
    BY <1>5 DEF Given, PageInv, StreamOnce
  <2>2. DOMAIN given = 1..Len(given) /\ DOMAIN given' = 1..(Len(given) + 1) /\ Len(given) \in Nat
    BY <1>3
  <2>3. \A i \in DOMAIN given' : given'[i] \in 1..added
    BY <1>2, <1>3, <2>1, <2>2
  <2>4. ASSUME NEW i \in DOMAIN given', NEW j \in DOMAIN given', given'[i] = given'[j]
        PROVE  i = j
    <3>1. \A k, m \in DOMAIN given : given[k] = given[m] => k = m
      BY DEF PageInv, StreamOnce
    <3>2. \/ i \in DOMAIN given /\ given'[i] = given[i]
          \/ i = Len(given) + 1 /\ given'[i] = nodes[p]
      BY <1>3, <2>2
    <3>3. \/ j \in DOMAIN given /\ given'[j] = given[j]
          \/ j = Len(given) + 1 /\ given'[j] = nodes[p]
      BY <1>3, <2>2
    <3> QED BY <2>1, <2>4, <3>1, <3>2, <3>3
  <2> QED BY <1>1, <1>3, <2>3, <2>4 DEF PageInv, StreamOnce
<1>8. CursorIsRight'
  <2>1. CASE Pages!NextNode(p) = {}
    <3>1. \A x \in DOMAIN nodes : x = p \/ Before(x, p)
      BY <1>2, <2>1, NextIsNext, BeforeIsOrder
    <3>2. \A u \in steady : u \in Given'
      BY <1>4, <3>1 DEF SoFar, PageInv, StreamOnce
    <3>3. cursor' = -1 /\ steady' \subseteq Given'
      BY <1>1, <2>1, <3>2 DEF Pages!AtEnd
    <3> QED BY <3>3 DEF CursorIsRight, Pages!NoStream
  <2>2. CASE Pages!NextNode(p) # {}
    <3>1. PICK q \in Pages!NextNode(p) : cursor' = Pages!TreeId(q)
      BY <1>1, <2>2
    <3>2. /\ q \in Way /\ Before(p, q)
          /\ \A x \in DOMAIN nodes : Before(p, x) => x = q \/ Before(q, x)
      BY <1>2, NextIsNext
    <3>3. cursor' \in Nat \ {0} /\ Pages!PathTo[cursor'] = q
      BY <3>1, <3>2, TreeIds, PathToIsBack
    <3>4. ASSUME NEW x \in DOMAIN nodes, nodes[x] \in steady, Before(x, q)
          PROVE  nodes[x] \in Given'
      <4>1. ~Before(p, x)
        BY <1>2, <3>2, <3>4, BeforeIsOrder
      <4>2. x = p \/ Before(x, p)
        BY <1>2, <4>1, BeforeIsOrder
      <4> QED BY <1>4, <3>4, <4>2 DEF SoFar
    <3>5. ASSUME NEW x \in DOMAIN nodes, nodes[x] \in Given'
          PROVE  Before(x, q)
      <4>1. x = p \/ Before(x, p)
        BY <1>4, <3>5 DEF SoFar, PageInv, PagesOnce
      <4> QED BY <1>2, <3>2, <4>1, BeforeIsOrder
    <3>6. SoFar(q)'
      BY <1>1, <3>4, <3>5 DEF SoFar
    <3> QED BY <3>2, <3>3, <3>6 DEF CursorIsRight, Pages!NoStream, Pages!AtEnd
  <2> QED BY <2>1, <2>2
<1> QED BY <1>6, <1>7, <1>8 DEF PageInv

LEMMA StreamGoesOn ==
  ASSUME PageInv, Pages!NextBlock
  PROVE  PageInv'
<1>1. PICK p : /\ p = IF cursor = 0 THEN Pages!LeftChild(Top) ELSE Pages!PathTo[cursor]
               /\ p \in DOMAIN nodes /\ Pages!Block(p)
  BY PageWays DEF Pages!NextBlock, Pages!Has
<1>2. cursor \in Int /\ cursor >= 0 /\ Top \in DOMAIN nodes /\ Shape(DOMAIN nodes)
      /\ \A x \in DOMAIN nodes : x \in Way
  BY PageWays DEF Pages!NextBlock, Pages!Has, PageInv, CursorIsRight, PagesOnce, Shape
<1>3. SoFar(p)
  <2>1. CASE cursor = 0
    <3>1. \A x \in DOMAIN nodes : Within(Top, x)
      BY <1>2, WayFacts DEF Within
    <3>2. \A x \in DOMAIN nodes : x = p \/ Before(p, x)
      BY <1>1, <1>2, <2>1, <3>1, LeftIsFirst
    <3>3. \A x \in DOMAIN nodes : ~Before(x, p)
      BY <1>1, <1>2, <3>2, BeforeIsOrder
    <3>4. Given = {}
      BY <2>1 DEF PageInv, CursorIsRight, Given
    <3> QED BY <3>3, <3>4 DEF SoFar
  <2>2. CASE cursor # 0
    BY <1>1, <1>2, <2>2 DEF PageInv, CursorIsRight
  <2> QED BY <2>1, <2>2
<1> QED BY <1>1, <1>3, BlockGoesOn

LEMMA StreamTurns ==
  ASSUME PageInv, Pages!Begin \/ Pages!NoBlock \/ Pages!Fail
  PROVE  PageInv'
<1>1. CASE Pages!Begin
  <2>1. /\ cursor' = 0 /\ given' = << >> /\ steady' = {nodes[x] : x \in DOMAIN nodes}
        /\ UNCHANGED <<nodes, answer, added>>
    BY <1>1 DEF Pages!Begin
  <2>2. PagesOnce'
    BY <2>1 DEF PageInv, PagesOnce
  <2>3. StreamOnce'
    BY <2>1 DEF StreamOnce
  <2>4. CursorIsRight'
    BY <2>1 DEF CursorIsRight, Pages!AtEnd
  <2> QED BY <2>1, <2>2, <2>3, <2>4 DEF PageInv
<1>2. CASE Pages!NoBlock
  <2>1. cursor' = -1 /\ UNCHANGED <<nodes, answer, added, given, steady>>
    BY <1>2 DEF Pages!NoBlock, Pages!AtEnd
  <2>2. DOMAIN nodes = {}
    BY <1>2, NoTop DEF Pages!NoBlock, PageInv, PagesOnce
  <2>3. steady = {}
    BY <2>2 DEF PageInv, StreamOnce
  <2>4. PagesOnce' /\ StreamOnce'
    BY <2>1 DEF PageInv, PagesOnce, StreamOnce
  <2>5. CursorIsRight'
    BY <2>1, <2>3 DEF CursorIsRight, Pages!NoStream, Pages!AtEnd
  <2> QED BY <2>1, <2>4, <2>5 DEF PageInv
<1>3. CASE Pages!Fail
  <2>1. cursor' = -2 /\ given' = << >> /\ steady' = {} /\ UNCHANGED <<nodes, answer, added>>
    BY <1>3 DEF Pages!Fail, Pages!NoStream
  <2>2. PagesOnce' /\ StreamOnce'
    BY <2>1 DEF PageInv, PagesOnce, StreamOnce
  <2>3. CursorIsRight'
    BY <2>1 DEF CursorIsRight, Pages!AtEnd
  <2> QED BY <2>1, <2>2, <2>3 DEF PageInv
<1> QED BY <1>1, <1>2, <1>3

LEMMA PageSteps ==
  PageInv /\ [Pages!Next]_(Pages!vars) => PageInv'
<1>1. ASSUME PageInv, Pages!GetNone \/ UNCHANGED Pages!vars
      PROVE  PageInv'
  <2>1. UNCHANGED <<nodes, added, cursor, given, steady>>
    BY <1>1 DEF Pages!GetNone, Pages!vars, Pages!streamVars
  <2>2. PagesOnce' /\ StreamOnce' /\ CursorIsRight'
    BY <1>1, <2>1 DEF PageInv, PagesOnce, StreamOnce, CursorIsRight, SoFar, Given
  <2> QED BY <2>2 DEF PageInv
<1> QED BY <1>1, PageAdds, PageGoes, StreamGoesOn, StreamTurns DEF Pages!Next

(* A stream of pages that comes to its end gave every page that was there    *)
(* all the time, and none twice, whatever was added and taken between its    *)
(* blocks (PageTree.scala:58-69,132-187,232-256): what it keeps, the tree id *)
(* of the next node, is all it has to know.  For any number of pages, with   *)
(* ids that are not bounded (where the code's would be, the stream fails).   *)
THEOREM StreamGivesAll == Pages!Spec => []StreamIsComplete
<1>1. PageInv => StreamIsComplete
  BY DEF PageInv, StreamOnce, CursorIsRight, Given, StreamIsComplete, Pages!StreamIsComplete
<1> QED BY <1>1, PagesInitially, PageSteps, PTL DEF Pages!Spec

(* The pages are a collection: an addition adds its page, whichever free     *)
(* place its coins come to, taking a leaf takes one page that was there, and *)
(* who is told that there is none is told the truth (PageTree.scala:83-115,  *)
(* 189-201); for any number of pages, with streams that run meanwhile.       *)
THEOREM PagesAreCollection == Pages!Spec => Pages!ImplementsCollection
<1> DEFINE Held == [v \in PageNumber |-> Pages!Occurs(nodes, v)]
<1>0. Held = [v \in PageNumber |-> Occurs(nodes, v)] /\ Held' = [v \in PageNumber |-> Occurs(nodes', v)]
  BY PageWays
<1>1. Pages!Init => PageInv /\ Pages!Abstract!CollectionInit
  <2> SUFFICES ASSUME Pages!Init PROVE PageInv /\ Pages!Abstract!CollectionInit
    OBVIOUS
  <2>1. nodes = NoNodes /\ answer = Nothing
    BY PageWays DEF Pages!Init
  <2>2. \A v \in PageNumber : Occurs(nodes, v) = 0
    BY <2>1, EmptyTree
  <2> QED BY <1>0, <2>1, <2>2, PagesInitially DEF Pages!Abstract!CollectionInit
<1>2. PageInv /\ [Pages!Next]_(Pages!vars) =>
        PageInv' /\ [Pages!Abstract!CollectionNext]_<<Held, answer>>
  <2> SUFFICES ASSUME PageInv, [Pages!Next]_(Pages!vars)
               PROVE  [Pages!Abstract!CollectionNext]_<<Held, answer>>
    BY PageSteps
  <2>0. IsFiniteSet(DOMAIN nodes)
    BY DEF PageInv, PagesOnce, Shape
  <2>1. ASSUME NEW v \in PageNumber, Pages!Add(v)
        PROVE  Pages!Abstract!CollectionNext
    <3>1. PICK w \in Free(nodes) : nodes' = Added(nodes, w, v)
      BY <2>1, PageAdds
    <3>2. w \notin DOMAIN nodes
      BY FreePlace DEF PageInv, PagesOnce
    <3>3. \A u \in PageNumber : Occurs(nodes, u) \in Nat
                             /\ Occurs(nodes', u) = Occurs(nodes, u) + IF u = v THEN 1 ELSE 0
      BY <2>0, <3>1, <3>2, OneMoreNode
    <3>4. Held' = [Held EXCEPT ![v] = @ + 1]
      <4>1. \A u \in PageNumber : Held'[u] = Held[u] + IF u = v THEN 1 ELSE 0
        BY <1>0, <3>3
      <4>2. Held \in [PageNumber -> Nat] /\ Held' = [u \in PageNumber |-> Held'[u]]
        BY <1>0, <3>3
      <4> HIDE DEF Held
      <4> QED BY <4>1, <4>2, OneUp
    <3>5. Pages!Abstract!Put(v)
      BY <2>1, <3>4 DEF Pages!Abstract!Put, Pages!Add
    <3> QED BY <3>5 DEF Pages!Abstract!CollectionNext
  <2>2. ASSUME Pages!Get
        PROVE  Pages!Abstract!CollectionNext
    <3>1. PICK w \in Leaves(nodes) : nodes' = Dropped(nodes, w) /\ answer' = <<"drop", nodes[w]>>
      BY <2>2, PageGoes
    <3>2. w \in DOMAIN nodes /\ nodes[w] \in PageNumber
      BY DEF Leaves, PageInv, PagesOnce
    <3>3. PICK v \in PageNumber : v = nodes[w]
      BY <3>2
    <3>4. /\ Occurs(nodes, v) > 0
          /\ \A u \in PageNumber : Occurs(nodes, u) \in Nat
                                   /\ Occurs(nodes', u) = Occurs(nodes, u) - IF u = v THEN 1 ELSE 0
      BY <2>0, <3>1, <3>2, <3>3, OneLessNode
    <3>5. Held' = [Held EXCEPT ![v] = @ - 1]
      <4>1. \A u \in PageNumber : Held'[u] = Held[u] - IF u = v THEN 1 ELSE 0
        BY <1>0, <3>4
      <4>2. Held \in [PageNumber -> Nat] /\ Held' = [u \in PageNumber |-> Held'[u]]
        BY <1>0, <3>4
      <4> HIDE DEF Held
      <4> QED BY <4>1, <4>2, OneUp
    <3>6. Pages!Abstract!Drop(v)
      BY <1>0, <3>1, <3>3, <3>4, <3>5 DEF Pages!Abstract!Drop
    <3> QED BY <3>6 DEF Pages!Abstract!CollectionNext
  <2>3. ASSUME Pages!GetNone
        PROVE  Pages!Abstract!CollectionNext
    <3>1. DOMAIN nodes = {} /\ nodes' = nodes /\ answer' = <<"empty">>
      BY <2>3, NoTop DEF Pages!GetNone, PageInv, PagesOnce
    <3>2. \A u : Of(nodes, u) = {}
      BY <3>1 DEF Of
    <3>3. \A u : Occurs(nodes, u) = 0
      BY <3>2, FS_EmptySet DEF Occurs, Of
    <3>4. Pages!Abstract!Empty
      BY <1>0, <3>1, <3>3 DEF Pages!Abstract!Empty
    <3> QED BY <3>4 DEF Pages!Abstract!CollectionNext
  <2>4. ASSUME \/ Pages!Begin \/ Pages!NextBlock \/ Pages!NoBlock \/ Pages!Fail
               \/ UNCHANGED Pages!vars
        PROVE  UNCHANGED <<Held, answer>>
    <3>1. UNCHANGED <<nodes, answer>>
      BY <2>4 DEF Pages!Begin, Pages!NextBlock, Pages!Block, Pages!NoBlock, Pages!Fail, Pages!vars
    <3> QED BY <1>0, <3>1
  <2> QED BY <2>1, <2>2, <2>3, <2>4 DEF Pages!Next
<1> QED BY <1>1, <1>2, PTL DEF Pages!Spec, Pages!ImplementsCollection, Pages!Abstract!CollectionSpec
=============================================================================
