----------------------------- MODULE SerialStore -----------------------------
(* What the transactional memory promises: transactions read and write as if *)
(* each ran alone, at the instant its timestamp names.  There are no locks,  *)
(* messages or copies here; a commit is one step, and is possible as long as *)
(* nobody later in the order has read what it would overwrite.               *)
EXTENDS RestmTypes

VARIABLES
  reads,      \* [Time -> [Ptr -> Result or NoValue]]
  effects,    \* [Time -> [Ptr -> Result or NoValue]], if it commits
  committed   \* the transactions that committed

storeVars == <<reads, effects, committed>>

(* The committed transactions before t that wrote p.                         *)
WritersBefore(p, t) == {w \in committed : w < t /\ effects[w][p] # NoValue}

(* v is what p holds just before t.                                          *)
ValueBefore(p, t, v) ==
  \/ WritersBefore(p, t) = {} /\ v = Null
  \/ \E w \in WritersBefore(p, t) :
       /\ \A u \in WritersBefore(p, t) : u <= w
       /\ v = effects[w][p]

StoreInit ==
  /\ reads = [t \in Time |-> [p \in Ptr |-> NoValue]]
  /\ effects = [t \in Time |-> [p \in Ptr |-> NoValue]]
  /\ committed = {}

ReadStore(t, p, v) ==
  /\ t \notin committed
  /\ reads[t][p] = NoValue
  /\ ValueBefore(p, t, v)
  /\ reads' = [reads EXCEPT ![t][p] = v]
  /\ UNCHANGED <<effects, committed>>

WriteStore(t, p, v) ==
  /\ t \notin committed
  /\ effects' = [effects EXCEPT ![t][p] = v]
  /\ UNCHANGED <<reads, committed>>

(* No later reader of p may have looked past t.                              *)
Undisturbed(t) ==
  \A r \in Time, p \in Ptr :
    /\ r > t
    /\ effects[t][p] # NoValue
    /\ reads[r][p] # NoValue
    => \E w \in WritersBefore(p, r) : w > t

CommitStore(t) ==
  /\ t \notin committed
  /\ Undisturbed(t)
  /\ committed' = committed \cup {t}
  /\ UNCHANGED <<reads, effects>>

StoreNext ==
  \E t \in Time :
    \/ \E p \in Ptr, v \in Result : ReadStore(t, p, v) \/ WriteStore(t, p, v)
    \/ CommitStore(t)

StoreSpec == StoreInit /\ [][StoreNext]_storeVars

(* Every read is what the serial order says, in the end as when it was made. *)
SerialReads ==
  \A t \in Time, p \in Ptr : reads[t][p] # NoValue => ValueBefore(p, t, reads[t][p])
=============================================================================
