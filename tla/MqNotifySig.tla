---------------------------- MODULE MqNotifySig -----------------------------
(***************************************************************************)
(* pmsg/mq_notify_sig.c: the program asks to be sent SIGUSR1 when a message*)
(* arrives at an empty queue.  It waits in sigsuspend(), registers again   *)
(* (the kernel forgets the registration with each notification) and then   *)
(* drains the queue.  SIGUSR1 is blocked outside sigsuspend().  All        *)
(* messages have the same priority.                                        *)
(***************************************************************************)
EXTENDS Integers, Sequences

CONSTANTS MaxMsgs,      \* the messages others send
          QueueSize     \* mq_maxmsg

ASSUME NotifyAssumption == MaxMsgs \in Nat /\ QueueSize \in Nat \ {0}

VARIABLES pc,           \* the program's next statement
          queue,        \* the messages in the queue, numbered as sent
          sent,         \* the number of messages sent
          registered,   \* mq_notify() is in force
          pending,      \* SIGUSR1 is pending
          buffer,       \* the message being written
          out,          \* the messages written to standard output
          emptyAtStart  \* the queue was empty at the first mq_notify()

vars == <<pc, queue, sent, registered, pending, buffer, out, emptyAtStart>>

\* The queue may hold a message before the program starts.
Init ==
    /\ pc = "setup"
    /\ sent \in {0, 1}
    /\ queue = [k \in 1..sent |-> k]
    /\ registered = FALSE
    /\ pending = FALSE
    /\ buffer = 0
    /\ out = << >>
    /\ emptyAtStart = FALSE

-----------------------------------------------------------------------------
\* mq_send() by another process.  A message for an empty queue uses the
\* registration up and raises the signal.
mq_send ==
    /\ sent < MaxMsgs /\ Len(queue) < QueueSize
    /\ sent' = sent + 1
    /\ queue' = Append(queue, sent + 1)
    /\ LET notify == registered /\ queue = << >>
       IN /\ registered' = (registered /\ ~notify)
          /\ pending' = (pending \/ notify)
    /\ UNCHANGED <<pc, buffer, out, emptyAtStart>>

\* Everything up to and including the first mq_notify().
Setup ==
    /\ pc = "setup"
    /\ pc' = "suspend"
    /\ registered' = TRUE
    /\ emptyAtStart' = (queue = << >>)
    /\ UNCHANGED <<queue, sent, pending, buffer, out>>

\* errno is not compared with EINTR: the signal ends the program.
MutWake ==
    /\ pc = "suspend" /\ pending
    /\ pending' = FALSE
    /\ pc' = "failed"
    /\ UNCHANGED <<queue, sent, registered, buffer, out, emptyAtStart>>

\* sigsuspend() delivers the signal and returns.
Wake ==
    /\ pc = "suspend" /\ pending
    /\ pending' = FALSE
    /\ pc' = "notify"
    /\ UNCHANGED <<queue, sent, registered, buffer, out, emptyAtStart>>

Renotify ==
    /\ pc = "notify"
    /\ registered' = TRUE
    /\ pc' = "receive"
    /\ UNCHANGED <<queue, sent, pending, buffer, out, emptyAtStart>>

Receive ==
    /\ pc = "receive" /\ queue # << >>
    /\ buffer' = Head(queue)
    /\ queue' = Tail(queue)
    /\ pc' = "write"
    /\ UNCHANGED <<sent, registered, pending, out, emptyAtStart>>

Write ==
    /\ pc = "write"
    /\ out' = Append(out, buffer)
    /\ pc' = "receive"
    /\ UNCHANGED <<queue, sent, registered, pending, buffer, emptyAtStart>>

\* write() fails or is short: the program exits, its registration goes with it,
\* and the message it took from the queue is not printed by anybody.
WriteFails ==
    /\ pc = "write"
    /\ pc' = "exited"
    /\ registered' = FALSE
    /\ pending' = FALSE
    /\ UNCHANGED <<queue, sent, buffer, out, emptyAtStart>>

\* mq_receive() fails with EAGAIN: the queue is empty.
ReceiveNothing ==
    /\ pc = "receive" /\ queue = << >>
    /\ pc' = "suspend"
    /\ UNCHANGED <<queue, sent, registered, pending, buffer, out, emptyAtStart>>

Program == Setup \/ Wake \/ Renotify \/ Receive \/ Write \/ WriteFails \/ ReceiveNothing

Next == mq_send \/ Program

Spec == Init /\ [][Next]_vars

\* The program runs whenever it can; nobody has to send.
FairSpec == Spec /\ WF_vars(Program)

-----------------------------------------------------------------------------
TypeOK ==
    /\ pc \in {"setup", "suspend", "notify", "receive", "write", "exited"}
    /\ queue \in Seq(1..sent) /\ Len(queue) <= QueueSize
    /\ sent \in 0..(MaxMsgs + 1)
    /\ registered \in BOOLEAN
    /\ pending \in BOOLEAN
    /\ buffer \in 0..sent
    /\ out \in Seq(1..sent)
    /\ emptyAtStart \in BOOLEAN

\* The message in hand; a failed write() leaves it there.
Hand == IF pc \in {"write", "exited"} THEN <<buffer>> ELSE << >>

\* Every message is printed once and in order: what was printed, the message
\* in hand and the queue are together everything that was sent.
PrintedInOrder == out \o Hand \o queue = [k \in 1..sent |-> k]

\* The second mq_notify() never meets EBUSY, for which the program exits.
NeverBusy == pc = "notify" => ~registered

\* A message that arrives between the last mq_receive() and sigsuspend() is
\* not missed: with messages in the queue the signal is pending.  It is missed
\* exactly when the queue was not empty at the first mq_notify(), which is not
\* followed by an mq_receive(): then the program sleeps over its messages.
NoMissedMessage ==
    pc = "suspend" /\ queue # << >> => (pending <=> emptyAtStart)

\* Every message is printed, provided the queue was empty when the program
\* first registered, unless a write() fails.
EveryMessagePrinted ==
    \A m \in 1..MaxMsgs :
        (emptyAtStart /\ sent >= m) ~> (pc = "exited" \/ \E k \in 1..Len(out) : out[k] = m)
=============================================================================
