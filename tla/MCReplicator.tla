---------------------------- MODULE MCReplicator ----------------------------
(* Replicator on small instances, in three scenes: "lost", two writers and a *)
(* reader with one call lost; "calm", two writers and two readers, one of    *)
(* them a writer, with nothing lost; "clean", a writer that others clean up  *)
(* while it is still at work, and a reader.                                  *)
EXTENDS Replicator

CONSTANTS a, b
VARIABLE scene

MCWrite == [t \in Time |-> IF t = 1 THEN a ELSE IF t = 2 THEN b ELSE Null]

Calm == INSTANCE Replicator WITH Reader <- {2, 3}, MaxFaults <- 0
Cleaning == INSTANCE Replicator
  WITH Reader <- {2}, Writer <- {1}, Orphan <- {1}, MaxFaults <- 0

MCNext ==
  /\ UNCHANGED scene
  /\ \/ scene = "lost" /\ Next
     \/ scene = "calm" /\ Calm!Next
     \/ scene = "clean" /\ Cleaning!Next

MCInit == Init /\ scene \in {"lost", "calm", "clean"}
MCSpec == MCInit /\ [][MCNext]_<<vars, scene>>
=============================================================================
