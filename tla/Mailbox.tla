------------------------------- MODULE Mailbox -------------------------------
(* What an actor promises those who send it messages: they are handled one   *)
(* at a time, in the order they were sent, each is answered, and after the   *)
(* actor was closed every answer is a refusal.                               *)
EXTENDS Sequences

CONSTANTS
  Msg,      \* messages, each sent once
  Closing   \* those whose handler may close the actor

VARIABLES
  mail,    \* messages sent and not answered, oldest first
  answer,  \* [Msg -> {"none", "done", "failed", "refused"}]
  closed

mailVars == <<mail, answer, closed>>

MailInit ==
  /\ mail = << >>
  /\ answer = [m \in Msg |-> "none"]
  /\ closed = FALSE

Unsent(m) == answer[m] = "none" /\ \A i \in DOMAIN mail : mail[i] # m

Send(m) ==
  /\ Unsent(m)
  /\ mail' = Append(mail, m)
  /\ UNCHANGED <<answer, closed>>

Refuse(m) ==
  /\ Unsent(m)
  /\ closed
  /\ answer' = [answer EXCEPT ![m] = "refused"]
  /\ UNCHANGED <<mail, closed>>

(* The handler's body succeeds or throws; on a closed actor it does not run. *)
Handle ==
  /\ mail # << >>
  /\ mail' = Tail(mail)
  /\ \E a \in IF closed THEN {"refused"} ELSE {"done", "failed"} :
       answer' = [answer EXCEPT ![Head(mail)] = a]
  /\ closed' \in {closed, closed \/ Head(mail) \in Closing}

MailNext ==
  \/ \E m \in Msg : Send(m) \/ Refuse(m)
  \/ Handle

(* Every message sent is answered, in the end.                               *)
MailSafety == MailInit /\ [][MailNext]_mailVars
MailSpec == MailSafety /\ WF_mailVars(Handle)
=============================================================================
