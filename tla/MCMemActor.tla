----------------------------- MODULE MCMemActor -----------------------------
(* What a transaction meets at one node, on small instances, in three        *)
(* scenes: "actor", one pointer actor under any calls, handler by handler;   *)
(* "threads", the same with its readers on other threads; "time", the        *)
(* drawing of timestamps, with seconds of a few nanoseconds.                 *)
(* MaxHistory bounds the records one pointer may collect: only callers that  *)
(* send a value after its commit can stamp records without end.              *)
EXTENDS MemActorThreads, TxnTime

CONSTANTS MaxHistory, Second
VARIABLE scene

MCReading == [epoch : 0..1, nanos : {-2, 0, 2}]
MCPriority == {-2, 0, 1}

MCInit ==
  /\ ThreadInit
  /\ Init
  /\ \/ scene \in {"actor", "threads"} /\ safeLast = Zero
     \/ scene = "time"

(* One value is enough to tell answers from none.                            *)
Bounded(p) ==
  /\ Len(history[p]) <= MaxHistory
  /\ scene = "threads" =>
       queuedValue[p] # Second /\ \A i \in DOMAIN history[p] : history[p][i].value # Second

MCNext ==
  /\ UNCHANGED scene
  /\ \/ /\ scene = "actor"
        /\ MemNext
        /\ \A p \in Ptr : Bounded(p)'
        /\ UNCHANGED <<doing, reading, seen, vars>>
     \/ /\ scene = "threads"
        /\ ThreadNext
        /\ \A p \in Ptr : Bounded(p)'
        /\ UNCHANGED vars
     \/ /\ scene = "time"
        /\ Next
        /\ UNCHANGED threadVars

MCSpec == MCInit /\ [][MCNext]_<<threadVars, vars, scene>>
=============================================================================
