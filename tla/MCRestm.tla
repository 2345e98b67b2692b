------------------------------- MODULE MCRestm -------------------------------
(* Restm on small instances.  Every value says who stored it, so that two    *)
(* versions are never confused: t for a write, 10 + t for a creation.        *)
EXTENDS RestmInvariant

CONSTANTS MaxDisturbances, Scenes
VARIABLES disturbances, scene

mcVars == <<vars, disturbances, scene>>

MCTime == {1, 2}
MCTime3 == {1, 2, 3}
MCValue == MCTime3 \cup {10 + t : t \in MCTime3}

(* Transactions write or delete pointers that exist; a created one can also  *)
(* be given its first value, and then another.                               *)
MCStores(t, p) == IF p \in Static THEN {t, Null} ELSE {t, 10 + t}
WriteOnly(t, p) == {t}

(* One run can look at several scenes, each with less than the constants     *)
(* would allow:                                                              *)
(*   "order"   every transaction, but no pointer is created;                 *)
(*   "create"  the first two transactions create pointers, undisturbed;      *)
(*   "lock"    the first two, no creation, and locks of what was not read    *)
(*             (which these two scenes leave out);                           *)
(*   "all"     everything.                                                   *)
Idle(t) ==
  /\ phase[t] = "active"
  /\ \A p \in Ptr : Seen(t, p) = NoValue /\ lockCall[t][p] = "none"

InScene ==
  /\ scene \in {"order", "lock"} => \A p \in Ptr \ Static : Fresh(p)
  /\ scene \in {"create", "lock"} => \A t \in Time \ MCTime : Idle(t)
  /\ scene = "create" => disturbances = 0
  /\ scene \in {"order", "create"} =>
       \A t \in Time, p \in Ptr : Seen(t, p) = NoValue => lockCall[t][p] = "none"

(* At most MaxDisturbances crashes, lost calls and probes in a behaviour.    *)
MCInit == Init /\ disturbances = 0 /\ scene \in Scenes
MCNext ==
  /\ UNCHANGED scene
  /\ \/ Work /\ UNCHANGED disturbances
     \/ /\ disturbances < MaxDisturbances
        /\ Disturbance
        /\ disturbances' = disturbances + 1
  /\ InScene'

MCSpec == MCInit /\ [][MCNext]_mcVars

(* Liveness: crashes and losses are bounded, probing never ends.             *)
LiveNext ==
  /\ UNCHANGED scene
  /\ \/ (Work \/ \E p \in Ptr : Probe(p)) /\ UNCHANGED disturbances
     \/ /\ disturbances < MaxDisturbances
        /\ Fault
        /\ disturbances' = disturbances + 1

LiveSpec == MCInit /\ [][LiveNext]_mcVars /\ Fairness
=============================================================================
