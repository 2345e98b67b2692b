----------------------------- MODULE ActorQueue -----------------------------
(* The queue every actor runs on (storage/actors/ActorQueue.scala): callers  *)
(* add messages to a concurrent queue, and whichever thread of the pool wins *)
(* the guard drains it.  One action per atomic operation of a thread on the  *)
(* queue, the guard or the pool.                                             *)
EXTENDS Naturals, Sequences

CONSTANTS
  Msg,      \* messages, each the call of one withActor
  Thread,   \* threads of the pool
  NoMsg,    \* no message
  Closing   \* messages whose body may close the actor (RestmActors.scala:80)

ASSUME QueueAssumption ==
  /\ NoMsg \notin Msg
  /\ Closing \subseteq Msg

VARIABLES
  queue,    \* ConcurrentLinkedQueue
  guard,    \* AtomicBoolean
  closed,
  call,     \* [Msg -> CallStep], the caller's progress through withActor
  answer,   \* [Msg -> Answer], how its promise was completed
  futures,  \* drains handed to the pool that no thread has started
  pc,       \* [Thread -> DrainStep], its progress through queueBatch
  task      \* [Thread -> Msg or NoMsg], the message it runs

vars == <<queue, guard, closed, call, answer, futures, pc, task>>

CallStep == {"unsent", "checked", "added", "returned"}
Answer == {"none", "done", "failed", "refused"}
DrainStep == {"idle", "test", "take", "poll", "run", "release", "again", "ask"}

QueueTypeOK ==
  /\ queue \in Seq(Msg)
  /\ guard \in BOOLEAN
  /\ closed \in BOOLEAN
  /\ call \in [Msg -> CallStep]
  /\ answer \in [Msg -> Answer]
  /\ futures \in Nat
  /\ pc \in [Thread -> DrainStep]
  /\ task \in [Thread -> Msg \cup {NoMsg}]
  /\ \A t \in Thread : pc[t] = "run" <=> task[t] # NoMsg

Init ==
  /\ queue = << >>
  /\ guard = FALSE
  /\ closed = FALSE
  /\ call = [m \in Msg |-> "unsent"]
  /\ answer = [m \in Msg |-> "none"]
  /\ futures = 0
  /\ pc = [t \in Thread |-> "idle"]
  /\ task = [t \in Thread |-> NoMsg]

Goes(t, from, to) ==
  /\ pc[t] = from
  /\ pc' = [pc EXCEPT ![t] = to]

-----------------------------------------------------------------------------
(* withActor(m).  closed is a plain field: a caller may miss that it was set.*)

CheckOpen(m) ==
  /\ call[m] = "unsent"
  /\ call' = [call EXCEPT ![m] = "checked"]
  /\ UNCHANGED <<queue, guard, closed, answer, futures, pc, task>>

CheckClosed(m) ==
  /\ call[m] = "unsent"
  /\ closed
  /\ call' = [call EXCEPT ![m] = "returned"]
  /\ answer' = [answer EXCEPT ![m] = "refused"]
  /\ UNCHANGED <<queue, guard, closed, futures, pc, task>>

Add(m) ==
  /\ call[m] = "checked"
  /\ queue' = Append(queue, m)
  /\ call' = [call EXCEPT ![m] = "added"]
  /\ UNCHANGED <<guard, closed, answer, futures, pc, task>>

(* queueBatch: a drain is handed to the pool unless one is under way.        *)
QueueBatch == futures' = IF guard THEN futures ELSE futures + 1

Return(m) ==
  /\ call[m] = "added"
  /\ QueueBatch
  /\ call' = [call EXCEPT ![m] = "returned"]
  /\ UNCHANGED <<queue, guard, closed, answer, pc, task>>

-----------------------------------------------------------------------------
(* The drain, run by thread t of the pool.                                   *)

Start(t) ==
  /\ futures > 0
  /\ futures' = futures - 1
  /\ Goes(t, "idle", "test")
  /\ UNCHANGED <<queue, guard, closed, call, answer, task>>

Test(t) ==
  /\ Goes(t, "test", IF queue = << >> THEN "idle" ELSE "take")
  /\ UNCHANGED <<queue, guard, closed, call, answer, futures, task>>

(* guard.getAndSet(true); without it, as two threads that both read false.   *)
TakeRegardless(t) ==
  /\ guard' = TRUE
  /\ Goes(t, "take", "poll")
  /\ UNCHANGED <<queue, closed, call, answer, futures, task>>
Take(t) ==
  /\ guard' = TRUE
  /\ Goes(t, "take", IF guard THEN "idle" ELSE "poll")
  /\ UNCHANGED <<queue, closed, call, answer, futures, task>>

(* poll() until it returns null.                                             *)
PollOne(t) ==
  /\ queue # << >>
  /\ queue' = Tail(queue)
  /\ task' = [task EXCEPT ![t] = Head(queue)]
  /\ Goes(t, "poll", "run")
  /\ UNCHANGED <<guard, closed, call, answer, futures>>

PollNothing(t) ==
  /\ queue = << >>
  /\ Goes(t, "poll", "release")
  /\ UNCHANGED <<queue, guard, closed, call, answer, futures, task>>

(* The body succeeds or throws; a closed actor's is not run, but for the     *)
(* second test of closed.                                                    *)
AnyOutcome == {"done", "failed"}
Outcome == IF closed THEN {"refused"} ELSE {"done", "failed"}

Run(t) ==
  /\ Goes(t, "run", "poll")
  /\ \E a \in Outcome : answer' = [answer EXCEPT ![task[t]] = a]
  /\ closed' \in {closed, closed \/ task[t] \in Closing}
  /\ task' = [task EXCEPT ![t] = NoMsg]
  /\ UNCHANGED <<queue, guard, call, futures>>

(* guard.set(false), and another look; not without it.                       *)
ReleaseAndStop(t) ==
  /\ guard' = FALSE
  /\ Goes(t, "release", "idle")
  /\ UNCHANGED <<queue, closed, call, answer, futures, task>>
Release(t) ==
  /\ guard' = FALSE
  /\ Goes(t, "release", "again")
  /\ UNCHANGED <<queue, closed, call, answer, futures, task>>

TestAgain(t) ==
  /\ Goes(t, "again", IF queue = << >> THEN "idle" ELSE "ask")
  /\ UNCHANGED <<queue, guard, closed, call, answer, futures, task>>

AskAgain(t) ==
  /\ QueueBatch
  /\ Goes(t, "ask", "idle")
  /\ UNCHANGED <<queue, guard, closed, call, answer, task>>

-----------------------------------------------------------------------------
Caller(m) == CheckOpen(m) \/ CheckClosed(m) \/ Add(m) \/ Return(m)

Drain(t) ==
  \/ Start(t) \/ Test(t) \/ Take(t)
  \/ PollOne(t) \/ PollNothing(t) \/ Run(t)
  \/ Release(t) \/ TestAgain(t) \/ AskAgain(t)

Next == (\E m \in Msg : Caller(m)) \/ (\E t \in Thread : Drain(t))

Spec == Init /\ [][Next]_vars

(* A caller that has started a call finishes it; the pool's threads run.     *)
Fairness ==
  /\ \A m \in Msg : WF_vars(Add(m) \/ Return(m))
  /\ \A t \in Thread : WF_vars(Drain(t))

FairSpec == Spec /\ Fairness

-----------------------------------------------------------------------------
Draining(t) == pc[t] \in {"poll", "run", "release"}

(* Two handlers of one actor never run at once, so that each handler of      *)
(* MemActor and TxnActor is atomic for the others (ActorQueue.scala:77).     *)
OneAtATime ==
  \A t, u \in Thread : Draining(t) /\ Draining(u) => t = u

(* A message that waits is on somebody's way: a drain is under way or handed *)
(* to the pool, a thread is about to look at the queue, or the caller that   *)
(* added it is about to ask (ActorQueue.scala:76,77,87): whoever finds the   *)
(* guard taken relies on its holder to look again.                           *)
WillBeSeen ==
  queue # << >> =>
    \/ futures > 0
    \/ \E t \in Thread : pc[t] # "idle"
    \/ \E m \in Msg : call[m] = "added"

(* The actor handles its messages as a mailbox: in order, each answered.     *)
Running == {t \in Thread : pc[t] = "run"}
Mail == IF Running = {} THEN queue
                        ELSE <<task[CHOOSE t \in Running : TRUE]>> \o queue

Box == INSTANCE Mailbox WITH mail <- Mail

(* ActorQueue.scala:40-54,75-90 against what callers of withActor rely on.   *)
ImplementsMailbox == Box!MailSpec
=============================================================================
