----------------------------- MODULE Collection -----------------------------
(* What the trees and the task queue of stm/collection and stm/task promise: *)
(* an addition adds one value, a removal removes one that is there, nothing  *)
(* else comes or goes, and who is told that nothing is there is told the     *)
(* truth.                                                                    *)
EXTENDS Naturals

CONSTANTS Value, Nothing

VARIABLES
  items,   \* [Value -> how often it is in the collection]
  last     \* the last operation, and its value

CollectionInit == items = [v \in Value |-> 0] /\ last = Nothing
Put(v) == items' = [items EXCEPT ![v] = @ + 1] /\ last' = <<"put", v>>
Drop(v) == items[v] > 0 /\ items' = [items EXCEPT ![v] = @ - 1] /\ last' = <<"drop", v>>
Empty == (\A v \in Value : items[v] = 0) /\ last' = <<"empty">> /\ UNCHANGED items

CollectionNext == Empty \/ \E v \in Value : Put(v) \/ Drop(v)
CollectionSpec == CollectionInit /\ [][CollectionNext]_<<items, last>>
=============================================================================
