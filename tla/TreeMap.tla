------------------------------ MODULE TreeMap -------------------------------
(* The search tree of stm/collection/TreeMap.scala: as TreeSet, with a value *)
(* beside each key.  The value of a node is its entry, a pair of both.       *)
EXTENDS Trees, FiniteSetsExt

CONSTANTS
  Key,       \* numbers, in their order
  Content,   \* what a key may be mapped to
  Nothing, MaxSize

VARIABLES
  tree,
  last       \* the last operation, for the record

vars == <<tree, last>>

Init == tree = Nil /\ last = Nothing

KeyOf(t) == t.value[1]

(* Nodes are equal if their keys and child pointers are (l.222-229), so that *)
(* a write of the same key with the same children is left out               *)
(* (STMTxnCtx.scala:137): the stored node keeps its value.  The children are *)
(* written on their own.                                                     *)
WrittenByKey(old, new) ==   \* as if only the keys were compared
  IF ~IsNil(old) /\ ~IsNil(new) /\ KeyOf(old) = KeyOf(new) THEN old ELSE new
Written(old, new) ==
  IF /\ ~IsNil(old) /\ ~IsNil(new) /\ KeyOf(old) = KeyOf(new)
     /\ IsNil(old.left) = IsNil(new.left) /\ IsNil(old.right) = IsNil(new.right)
  THEN [new EXCEPT !.value = old.value] ELSE new

(* min goes right; max goes left once, and from there to the min.            *)
RECURSIVE LeastOf(_)
LeastOf(t) == IF IsNil(t.right) THEN t ELSE LeastOf(t.right)
GreatestOf(t) == IF IsNil(t.left) THEN t ELSE LeastOf(t.left)

RECURSIVE Contains(_, _)
Contains(t, k) ==
  /\ ~IsNil(t)
  /\ \/ KeyOf(t) = k
     \/ KeyOf(t) < k /\ Contains(t.left, k)
     \/ KeyOf(t) > k /\ Contains(t.right, k)

RECURSIVE With(_, _)
With(t, entry) ==
  IF IsNil(t) THEN Node(entry, Nil, Nil)
  ELSE IF KeyOf(t) < entry[1] THEN [t EXCEPT !.left = Written(@, With(@, entry))]
  ELSE [t EXCEPT !.right = Written(@, With(@, entry))]

(* The node as -= answers it; the caller writes it.                          *)
RECURSIVE Without(_, _)
Without(t, k) ==
  IF KeyOf(t) < k THEN [t EXCEPT !.left = Written(@, Without(@, k))]
  ELSE IF KeyOf(t) > k THEN [t EXCEPT !.right = Written(@, Without(@, k))]
  ELSE IF ~IsNil(t.left)
  THEN LET least == LeastOf(t.left)
       IN Node(least.value, Written(t.left, Without(t.left, KeyOf(least))), t.right)
  ELSE IF ~IsNil(t.right)
  THEN LET greatest == GreatestOf(t.right)
       IN Node(greatest.value, Nil, Written(t.right, Without(t.right, KeyOf(greatest))))
  ELSE Nil

(* -= throws when its search, or that for the entry it moves up, ends        *)
(* nowhere.                                                                  *)
Moves(t) == IF ~IsNil(t.left) THEN {<<t.left, KeyOf(LeastOf(t.left))>>}
            ELSE IF ~IsNil(t.right) THEN {<<t.right, KeyOf(GreatestOf(t.right))>>} ELSE {}
RECURSIVE CanRemove(_, _)
CanRemove(t, k) ==
  /\ ~IsNil(t)
  /\ \/ KeyOf(t) < k /\ CanRemove(t.left, k)
     \/ KeyOf(t) > k /\ CanRemove(t.right, k)
     \/ KeyOf(t) = k /\ \A m \in Moves(t) : CanRemove(m[1], m[2])

Add(k, c) ==
  /\ Size(tree) < MaxSize
  /\ tree' = Written(tree, With(tree, <<k, c>>))
  /\ last' = <<"put", k>>

Remove(k) ==
  /\ CanRemove(tree, k)
  /\ tree' = Written(tree, Without(tree, k))
  /\ last' = <<"drop", k>>

Next == \E k \in Key : Remove(k) \/ \E c \in Content : Add(k, c)
Spec == Init /\ [][Next]_vars

-----------------------------------------------------------------------------
KeyCount(k) == MapThenSumSet(LAMBDA c : Count(tree, <<k, c>>), Content)

(* A key is found whenever it is somewhere in the tree: "contains mustBe     *)
(* true" for what was added and not removed, whatever else came and went     *)
(* (StmCollectionSpecBase.scala:248).                                        *)
PresentIsFound == \A k \in Key : KeyCount(k) > 0 => Contains(tree, k)

(* An addition adds one entry of its key, a removal removes one of its key,  *)
(* and no other key comes or goes, though entries move about and some writes *)
(* are left out (l.137-200,222-229).                                         *)
Abstract == INSTANCE Collection WITH
  Value <- Key, items <- [k \in Key |-> KeyCount(k)]
ImplementsCollection == Abstract!CollectionSpec
=============================================================================
