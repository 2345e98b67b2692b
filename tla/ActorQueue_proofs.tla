-------------------------- MODULE ActorQueue_proofs --------------------------
(* The actor queue for any messages and any pool: handlers exclude each      *)
(* other, no message is left behind, and callers see a mailbox.              *)
EXTENDS ActorQueue, TLAPS

(* The guard is taken exactly while somebody drains.                         *)
GuardHeld == guard <=> \E t \in Thread : Draining(t)

(* A message not added yet is nowhere, and not answered.                     *)
UnsentUnknown ==
  \A m \in Msg : call[m] \in {"unsent", "checked"} =>
    /\ answer[m] = "none"
    /\ \A i \in DOMAIN queue : queue[i] # m
    /\ \A t \in Thread : task[t] # m

QueueInv ==
  /\ QueueTypeOK /\ OneAtATime /\ GuardHeld /\ WillBeSeen /\ UnsentUnknown

-----------------------------------------------------------------------------
(* Each part is kept.                                                        *)

(* Types; the pool never starts a drain nobody handed to it.                 *)
LEMMA QueueTypes == QueueTypeOK /\ Next => QueueTypeOK'
<1> SUFFICES ASSUME QueueTypeOK, Next PROVE QueueTypeOK'
  OBVIOUS
<1> USE QueueAssumption DEF QueueTypeOK, CallStep, Answer, DrainStep, Goes, QueueBatch
<1>1. ASSUME NEW m \in Msg, CheckOpen(m) \/ CheckClosed(m) PROVE QueueTypeOK'
  BY <1>1 DEF CheckOpen, CheckClosed
<1>2. ASSUME NEW m \in Msg, Add(m) PROVE QueueTypeOK'
  BY <1>2 DEF Add
<1>3. ASSUME NEW m \in Msg, Return(m) PROVE QueueTypeOK'
  BY <1>3 DEF Return
<1>4. ASSUME NEW t \in Thread, Start(t) PROVE QueueTypeOK'
  BY <1>4 DEF Start
<1>5. ASSUME NEW t \in Thread, Test(t) \/ TestAgain(t) PROVE QueueTypeOK'
  BY <1>5 DEF Test, TestAgain
<1>6. ASSUME NEW t \in Thread, Take(t) PROVE QueueTypeOK'
  BY <1>6 DEF Take
<1>7. ASSUME NEW t \in Thread, PollOne(t) PROVE QueueTypeOK'
  <2>1. Head(queue) \in Msg /\ Tail(queue) \in Seq(Msg)
    BY <1>7 DEF PollOne
  <2>2. QED
    BY <1>7, <2>1 DEF PollOne
<1>8. ASSUME NEW t \in Thread, Run(t) PROVE QueueTypeOK'
  BY <1>8 DEF Run, Outcome
<1>9. ASSUME NEW t \in Thread, PollNothing(t) \/ Release(t) PROVE QueueTypeOK'
  BY <1>9 DEF PollNothing, Release
<1>10. ASSUME NEW t \in Thread, AskAgain(t) PROVE QueueTypeOK'
  BY <1>10 DEF AskAgain
<1>11. QED
  BY <1>1, <1>2, <1>3, <1>4, <1>5, <1>6, <1>7, <1>8, <1>9, <1>10 DEF Next, Caller, Drain

(* One holder of the guard, who alone releases it.                           *)
LEMMA Exclusion ==
  ASSUME QueueTypeOK, OneAtATime, GuardHeld, Next
  PROVE  OneAtATime' /\ GuardHeld'
<1> USE DEF QueueTypeOK, DrainStep, Goes, OneAtATime, GuardHeld, Draining
<1>1. ASSUME NEW m \in Msg, Caller(m) PROVE OneAtATime' /\ GuardHeld'
  BY <1>1 DEF Caller, CheckOpen, CheckClosed, Add, Return
<1>2. ASSUME NEW t \in Thread, Start(t) \/ Test(t) \/ TestAgain(t) \/ AskAgain(t)
      PROVE  OneAtATime' /\ GuardHeld'
  BY <1>2 DEF Start, Test, TestAgain, AskAgain
<1>3. ASSUME NEW t \in Thread, Take(t) PROVE OneAtATime' /\ GuardHeld'
  BY <1>3 DEF Take
<1>4. ASSUME NEW t \in Thread, PollOne(t) \/ PollNothing(t) \/ Run(t)
      PROVE  OneAtATime' /\ GuardHeld'
  BY <1>4 DEF PollOne, PollNothing, Run
<1>5. ASSUME NEW t \in Thread, Release(t) PROVE OneAtATime' /\ GuardHeld'
  BY <1>5 DEF Release
<1>6. QED
  BY <1>1, <1>2, <1>3, <1>4, <1>5 DEF Next, Drain

(* Whoever looks away either found the queue empty or found the guard taken, *)
(* and then its holder has not looked for the last time.                     *)
LEMMA SeenStep ==
  ASSUME QueueTypeOK, GuardHeld, WillBeSeen, Next
  PROVE  WillBeSeen'
<1> USE DEF QueueTypeOK, CallStep, DrainStep, Goes, WillBeSeen, QueueBatch
<1>1. ASSUME NEW m \in Msg, Caller(m) PROVE WillBeSeen'
  <2>1. CASE CheckOpen(m) \/ CheckClosed(m) \/ Add(m)
    BY <2>1 DEF CheckOpen, CheckClosed, Add
  <2>2. CASE Return(m)
    BY <2>2 DEF Return, GuardHeld, Draining
  <2>3. QED
    BY <1>1, <2>1, <2>2 DEF Caller
<1>2. ASSUME NEW t \in Thread, Start(t) \/ Test(t) \/ TestAgain(t) PROVE WillBeSeen'
  BY <1>2 DEF Start, Test, TestAgain
<1>3. ASSUME NEW t \in Thread, Take(t) PROVE WillBeSeen'
  BY <1>3 DEF Take, GuardHeld, Draining
<1>4. ASSUME NEW t \in Thread, PollOne(t) \/ PollNothing(t) \/ Run(t) \/ Release(t)
      PROVE  WillBeSeen'
  BY <1>4 DEF PollOne, PollNothing, Run, Release
<1>5. ASSUME NEW t \in Thread, AskAgain(t) PROVE WillBeSeen'
  BY <1>5 DEF AskAgain, GuardHeld, Draining
<1>6. QED
  BY <1>1, <1>2, <1>3, <1>4, <1>5 DEF Next, Drain

(* Only its caller brings a message in, and only once.                       *)
LEMMA UnsentStep ==
  ASSUME QueueTypeOK, UnsentUnknown, Next
  PROVE  UnsentUnknown'
<1> USE QueueAssumption DEF QueueTypeOK, CallStep, DrainStep, Goes, UnsentUnknown
<1>1. ASSUME NEW m \in Msg, Caller(m) PROVE UnsentUnknown'
  BY <1>1 DEF Caller, CheckOpen, CheckClosed, Add, Return
<1>2. ASSUME NEW t \in Thread, PollOne(t) PROVE UnsentUnknown'
  <2>1. /\ Head(queue) = queue[1] /\ 1 \in DOMAIN queue
        /\ \A i \in DOMAIN Tail(queue) : /\ Tail(queue)[i] = queue[i + 1]
                                         /\ i + 1 \in DOMAIN queue
    BY <1>2 DEF PollOne
  <2>2. QED
    BY <1>2, <2>1 DEF PollOne
<1>3. ASSUME NEW t \in Thread, Run(t) PROVE UnsentUnknown'
  BY <1>3 DEF Run
<1>4. ASSUME NEW t \in Thread,
             \/ Start(t) \/ Test(t) \/ Take(t) \/ PollNothing(t)
             \/ Release(t) \/ TestAgain(t) \/ AskAgain(t)
      PROVE  UnsentUnknown'
  BY <1>4 DEF Start, Test, Take, PollNothing, Release, TestAgain, AskAgain
<1>5. QED
  BY <1>1, <1>2, <1>3, <1>4 DEF Next, Drain

(* Together they are inductive.                                              *)
LEMMA QueueInvariant == Spec => []QueueInv
<1>1. Init => QueueInv
  <2> SUFFICES ASSUME Init PROVE QueueInv
    OBVIOUS
  <2>1. QueueTypeOK
    <3>1. /\ queue = << >> /\ guard = FALSE /\ closed = FALSE /\ futures = 0
          /\ << >> \in Seq(Msg)
      BY DEF Init
    <3>2. /\ call \in [Msg -> CallStep]
          /\ answer \in [Msg -> Answer]
          /\ pc \in [Thread -> DrainStep]
          /\ task \in [Thread -> Msg \cup {NoMsg}]
      BY DEF Init, CallStep, Answer, DrainStep
    <3>3. \A t \in Thread : pc[t] = "run" <=> task[t] # NoMsg
      BY DEF Init
    <3>4. QED
      BY <3>1, <3>2, <3>3 DEF QueueTypeOK
  <2>2. OneAtATime /\ GuardHeld /\ WillBeSeen
    BY DEF Init, OneAtATime, GuardHeld, Draining, WillBeSeen
  <2>3. UnsentUnknown
    BY QueueAssumption DEF Init, UnsentUnknown
  <2>4. QED
    BY <2>1, <2>2, <2>3 DEF QueueInv
<1>2. QueueInv /\ [Next]_vars => QueueInv'
  <2> SUFFICES ASSUME QueueInv, [Next]_vars PROVE QueueInv'
    OBVIOUS
  <2>1. CASE Next
    BY <2>1, QueueTypes, Exclusion, SeenStep, UnsentStep DEF QueueInv
  <2>2. CASE UNCHANGED vars
    BY <2>2 DEF vars, QueueInv, QueueTypeOK, OneAtATime, GuardHeld, Draining, WillBeSeen,
       UnsentUnknown
  <2>3. QED
    BY <2>1, <2>2
<1>3. QED
  BY <1>1, <1>2, PTL DEF Spec

(* For any pool, two handlers of one actor never overlap                     *)
(* (ActorQueue.scala:77).                                                    *)
THEOREM HandlersExclude == Spec => []OneAtATime
  BY QueueInvariant, PTL DEF QueueInv

(* For any callers, a message added while a drain ends is not left behind    *)
(* (ActorQueue.scala:76,87).                                                 *)
THEOREM NoMessageForgotten == Spec => []WillBeSeen
  BY QueueInvariant, PTL DEF QueueInv

-----------------------------------------------------------------------------
(* The refinement.                                                           *)

(* The abstract mail, by whether a handler runs.                             *)
LEMMA MailWhen ==
  ASSUME OneAtATime
  PROVE  /\ \A t \in Thread : pc[t] = "run" => Mail = <<task[t]>> \o queue
         /\ (\A t \in Thread : pc[t] # "run") => Mail = queue
<1>1. ASSUME NEW t \in Thread, pc[t] = "run" PROVE Mail = <<task[t]>> \o queue
  <2>1. Running = {t}
    BY <1>1 DEF Running, OneAtATime, Draining
  <2>2. QED
    BY <2>1 DEF Mail
<1>2. ASSUME \A t \in Thread : pc[t] # "run" PROVE Mail = queue
  BY <1>2 DEF Mail, Running
<1>3. QED
  BY <1>1, <1>2

(* The same of the next state.                                               *)
LEMMA MailWhenNext ==
  ASSUME OneAtATime'
  PROVE  /\ \A t \in Thread : pc'[t] = "run" => Mail' = <<task'[t]>> \o queue'
         /\ (\A t \in Thread : pc'[t] # "run") => Mail' = queue'
<1>1. ASSUME NEW t \in Thread, pc'[t] = "run" PROVE Mail' = <<task'[t]>> \o queue'
  <2>1. Running' = {t}
    BY <1>1 DEF Running, OneAtATime, Draining
  <2>2. QED
    BY <2>1 DEF Mail
<1>2. ASSUME \A t \in Thread : pc'[t] # "run" PROVE Mail' = queue'
  BY <1>2 DEF Mail, Running
<1>3. QED
  BY <1>1, <1>2

(* Sequences with a first element put in front.                              *)
LEMMA Front ==
  ASSUME NEW s \in Seq(Msg), NEW x \in Msg, NEW y \in Msg
  PROVE  /\ Append(<<x>> \o s, y) = <<x>> \o Append(s, y)
         /\ Head(<<x>> \o s) = x
         /\ Tail(<<x>> \o s) = s
         /\ <<x>> \o s # << >>
         /\ \A i \in DOMAIN (<<x>> \o s) :
              (<<x>> \o s)[i] = x \/ \E j \in DOMAIN s : (<<x>> \o s)[i] = s[j]
<1>1. /\ <<x>> \o s \in Seq(Msg)
      /\ Len(<<x>> \o s) = Len(s) + 1
      /\ (<<x>> \o s)[1] = x
      /\ \A i \in 2..(Len(s) + 1) : (<<x>> \o s)[i] = s[i - 1]
  OBVIOUS
<1>2. QED
  BY <1>1

(* A new message goes to the end of the mail.                                *)
LEMMA AddSends ==
  ASSUME QueueInv, NEW m \in Msg, Add(m), OneAtATime'
  PROVE  Box!Send(m)
<1> USE DEF QueueInv, QueueTypeOK, CallStep, Answer, DrainStep
<1>1. pc' = pc /\ task' = task /\ queue' = Append(queue, m)
  BY DEF Add
<1>2. UNCHANGED <<answer, closed>>
  BY DEF Add
<1>3. /\ answer[m] = "none"
      /\ \A i \in DOMAIN queue : queue[i] # m
      /\ \A t \in Thread : task[t] # m
  BY DEF Add, UnsentUnknown
<1>4. CASE \E t \in Thread : pc[t] = "run"
  <2>1. PICK t \in Thread : pc[t] = "run"
    BY <1>4
  <2>2. task[t] \in Msg
    BY <2>1
  <2>3. Mail = <<task[t]>> \o queue /\ Mail' = <<task[t]>> \o Append(queue, m)
    BY <1>1, <2>1, MailWhen, MailWhenNext
  <2>4. Mail' = Append(Mail, m)
    BY <2>2, <2>3, Front
  <2>5. \A i \in DOMAIN Mail : Mail[i] # m
    <3>1. \A i \in DOMAIN Mail : Mail[i] = task[t] \/ \E j \in DOMAIN queue : Mail[i] = queue[j]
      BY <2>2, <2>3, Front
    <3>2. QED
      BY <1>3, <3>1
  <2>6. QED
    BY <1>2, <1>3, <2>4, <2>5 DEF Box!Send, Box!Unsent
<1>5. CASE \A t \in Thread : pc[t] # "run"
  <2>1. Mail = queue /\ Mail' = Append(queue, m)
    BY <1>1, <1>5, MailWhen, MailWhenNext
  <2>2. QED
    BY <1>2, <1>3, <2>1 DEF Box!Send, Box!Unsent
<1>6. QED
  BY <1>4, <1>5

(* A caller that saw the actor closed was refused.                           *)
LEMMA ClosedRefuses ==
  ASSUME QueueInv, NEW m \in Msg, CheckClosed(m)
  PROVE  Box!Refuse(m)
<1> USE DEF QueueInv, QueueTypeOK, CallStep, Answer, DrainStep
<1>1. /\ answer[m] = "none"
      /\ \A i \in DOMAIN queue : queue[i] # m
      /\ \A t \in Thread : task[t] # m
  BY DEF CheckClosed, UnsentUnknown
<1>2. \A i \in DOMAIN Mail : Mail[i] # m
  <2>1. CASE \E t \in Thread : pc[t] = "run"
    <3>1. PICK t \in Thread : pc[t] = "run"
      BY <2>1
    <3>2. task[t] \in Msg
      BY <3>1
    <3>3. Mail = <<task[t]>> \o queue
      BY <3>1, MailWhen
    <3>4. \A i \in DOMAIN Mail : Mail[i] = task[t] \/ \E j \in DOMAIN queue : Mail[i] = queue[j]
      BY <3>2, <3>3, Front
    <3>5. QED
      BY <1>1, <3>4
  <2>2. CASE \A t \in Thread : pc[t] # "run"
    BY <1>1, <2>2, MailWhen
  <2>3. QED
    BY <2>1, <2>2
<1>3. Mail' = Mail
  BY DEF CheckClosed, Mail, Running
<1>4. QED
  BY <1>1, <1>2, <1>3 DEF CheckClosed, Box!Refuse, Box!Unsent

(* Running a message answers the oldest one.                                 *)
LEMMA RunHandles ==
  ASSUME QueueInv, NEW t \in Thread, Run(t), OneAtATime'
  PROVE  Box!Handle
<1> USE DEF QueueInv, QueueTypeOK, DrainStep
<1>1. pc[t] = "run" /\ task[t] \in Msg
  BY DEF Run, Goes
<1>2. Mail = <<task[t]>> \o queue
  BY <1>1, MailWhen
<1>3. \A u \in Thread : pc'[u] # "run"
  BY <1>1 DEF Run, Goes, OneAtATime, Draining
<1>4. Mail' = queue
  BY <1>3, MailWhenNext DEF Run
<1>5. Head(Mail) = task[t] /\ Tail(Mail) = queue /\ Mail # << >>
  BY <1>1, <1>2, Front
<1>6. QED
  BY <1>4, <1>5 DEF Run, Outcome, Box!Handle

(* Taking a message off the queue is not seen: it is still unanswered.       *)
LEMMA PollUnseen ==
  ASSUME QueueInv, NEW t \in Thread, PollOne(t), OneAtATime'
  PROVE  UNCHANGED <<Mail, answer, closed>>
<1> USE DEF QueueInv, QueueTypeOK, DrainStep
<1>1. \A u \in Thread : pc[u] # "run"
  BY DEF PollOne, Goes, OneAtATime, Draining
<1>2. Mail = queue
  BY <1>1, MailWhen
<1>3. Mail' = <<Head(queue)>> \o Tail(queue)
  <2>1. pc'[t] = "run" /\ task'[t] = Head(queue) /\ queue' = Tail(queue)
    BY DEF PollOne, Goes
  <2>2. QED
    BY <2>1, MailWhenNext
<1>4. <<Head(queue)>> \o Tail(queue) = queue
  BY DEF PollOne
<1>5. QED
  BY <1>2, <1>3, <1>4 DEF PollOne

(* Nor is anything else a thread or a caller does.                           *)
LEMMA RestUnseen ==
  ASSUME QueueInv,
         \/ \E m \in Msg : CheckOpen(m) \/ Return(m)
         \/ \E t \in Thread : \/ Start(t) \/ Test(t) \/ Take(t) \/ PollNothing(t)
                              \/ Release(t) \/ TestAgain(t) \/ AskAgain(t)
  PROVE  UNCHANGED <<Mail, answer, closed>>
<1>1. UNCHANGED <<queue, task, answer, closed>>
  BY DEF CheckOpen, Return, Start, Test, Take, PollNothing, Release, TestAgain, AskAgain
<1>2. \A t \in Thread : pc'[t] = "run" <=> pc[t] = "run"
  BY DEF QueueInv, QueueTypeOK, Goes, CheckOpen, Return, Start, Test, Take, PollNothing,
     Release, TestAgain, AskAgain
<1>3. Running' = Running
  BY <1>2 DEF Running
<1>4. QED
  BY <1>1, <1>3 DEF Mail

(* For any messages, any pool and any interleaving, the queue is a mailbox:  *)
(* messages are handled in the order they were added, one at a time, and     *)
(* none is handled once the actor is closed (ActorQueue.scala:40-54,75-90).  *)
THEOREM QueueIsMailbox == Spec => Box!MailSafety
<1>1. Init => Box!MailInit
  BY DEF Init, Mail, Running, Box!MailInit
<1>2. QueueInv /\ QueueInv' /\ [Next]_vars => [Box!MailNext]_(Box!mailVars)
  <2> SUFFICES ASSUME QueueInv, QueueInv', [Next]_vars
               PROVE  [Box!MailNext]_(Box!mailVars)
    OBVIOUS
  <2>1. ASSUME NEW m \in Msg, Caller(m) PROVE [Box!MailNext]_(Box!mailVars)
    BY <2>1, AddSends, ClosedRefuses, RestUnseen
    DEF Caller, QueueInv, Box!MailNext, Box!mailVars
  <2>2. ASSUME NEW t \in Thread, Drain(t) PROVE [Box!MailNext]_(Box!mailVars)
    BY <2>2, RunHandles, PollUnseen, RestUnseen
    DEF Drain, QueueInv, Box!MailNext, Box!mailVars
  <2>3. CASE UNCHANGED vars
    BY <2>3 DEF vars, Mail, Running, Box!mailVars
  <2>4. QED
    BY <2>1, <2>2, <2>3 DEF Next
<1>3. QED
  BY <1>1, <1>2, QueueInvariant, PTL DEF Spec, Box!MailSafety
=============================================================================
