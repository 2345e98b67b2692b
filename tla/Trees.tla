------------------------------- MODULE Trees --------------------------------
(* The binary trees of stm/collection as values.  A node lives behind a      *)
(* pointer of its own and is reached from its parent only, so the tree that  *)
(* hangs from the root pointer is a nested record.                           *)
EXTENDS Naturals

Nil == [leaf |-> TRUE]
IsNil(t) == t = Nil
Node(v, l, r) == [leaf |-> FALSE, value |-> v, left |-> l, right |-> r]

RECURSIVE Size(_), Count(_, _)
Size(t) == IF IsNil(t) THEN 0 ELSE 1 + Size(t.left) + Size(t.right)
Count(t, v) ==
  IF IsNil(t) THEN 0
  ELSE Count(t.left, v) + Count(t.right, v) + (IF t.value = v THEN 1 ELSE 0)
=============================================================================
