----------------------------- MODULE MCLifecycle -----------------------------
(* Lifecycle on small instances, in two scenes: "known", a pointer with a    *)
(* well-known id, whose actor expires, collects and cannot always be         *)
(* restored; and "made", a pointer its first transaction creates, on an      *)
(* actor that neither expires nor collects, so that there is only one.       *)
EXTENDS Lifecycle

CONSTANTS Maker, Second
VARIABLE scene

Made == INSTANCE Lifecycle WITH Creator <- Maker, Old <- {}, MayFail <- {}

(* An actor expires only while another object is left to take its place; the *)
(* first value of a created pointer is no other's.                           *)
MCNext ==
  /\ UNCHANGED scene
  /\ \/ scene = "known" /\ Next /\ closed' # Obj /\ \A o \in Obj : queuedValue'[o] # First
     \/ scene = "made" /\ Made!Next /\ closed' = {} /\ current' # Second

MCInit == Init /\ scene \in {"known", "made"}
MCSpec == MCInit /\ [][MCNext]_<<vars, scene>> /\ Fairness
=============================================================================
