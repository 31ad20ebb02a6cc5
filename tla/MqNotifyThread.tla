--------------------------- MODULE MqNotifyThread ---------------------------
(***************************************************************************)
(* pmsg/mq_notify_thread.c: as mq_notify_sig.c, but each notification      *)
(* starts a thread, which registers again and then drains the queue.  From *)
(* its registration on, a thread may run beside the next one.              *)
(***************************************************************************)
EXTENDS Integers, Sequences, FiniteSets

CONSTANTS MaxMsgs,      \* the messages others send
          QueueSize     \* mq_maxmsg

\* Every notification takes a message, so there are at most MaxMsgs of them.
Threads == 1..MaxMsgs

VARIABLES mainpc,       \* "setup", "pause", or "exited" for the whole process
          queue,        \* the messages in the queue, numbered as sent
          sent,         \* the number of messages sent
          registered,   \* mq_notify() is in force
          notified,     \* the number of notifications
          tpc,          \* each thread's next statement
          buffer,       \* the message each thread is writing
          out,          \* the messages written to standard output
          emptyAtStart  \* the queue was empty at the first mq_notify()

vars == <<mainpc, queue, sent, registered, notified, tpc, buffer, out, emptyAtStart>>

\* The queue may hold a message before the program starts.
Init ==
    /\ mainpc = "setup"
    /\ sent \in {0, 1} \cap 0..MaxMsgs
    /\ queue = [k \in 1..sent |-> k]
    /\ registered = FALSE
    /\ notified = 0
    /\ tpc = [t \in Threads |-> "unborn"]
    /\ buffer = [t \in Threads |-> 0]
    /\ out = << >>
    /\ emptyAtStart = FALSE

-----------------------------------------------------------------------------
\* mq_send() by another process.  A message for an empty queue uses the
\* registration up and starts a thread.
mq_send ==
    /\ sent < MaxMsgs /\ Len(queue) < QueueSize
    /\ sent' = sent + 1
    /\ queue' = Append(queue, sent + 1)
    /\ IF registered /\ queue = << >>
       THEN /\ registered' = FALSE
            /\ notified' = notified + 1
            /\ tpc' = [tpc EXCEPT ![notified + 1] = "start"]
       ELSE UNCHANGED <<registered, notified, tpc>>
    /\ UNCHANGED <<mainpc, buffer, out, emptyAtStart>>

\* main(): mq_open() and notifySetup(), then pause().
Setup ==
    /\ mainpc = "setup"
    /\ mainpc' = "pause"
    /\ registered' = TRUE
    /\ emptyAtStart' = (queue = << >>)
    /\ UNCHANGED <<queue, sent, notified, tpc, buffer, out>>

\* mq_getattr(), malloc() and notifySetup().
ThreadSetup(t) ==
    /\ tpc[t] = "start"
    /\ tpc' = [tpc EXCEPT ![t] = "receive"]
    /\ registered' = TRUE
    /\ UNCHANGED <<mainpc, queue, sent, notified, buffer, out, emptyAtStart>>

ThreadReceive(t) ==
    /\ tpc[t] = "receive" /\ queue # << >>
    /\ tpc' = [tpc EXCEPT ![t] = "write"]
    /\ buffer' = [buffer EXCEPT ![t] = Head(queue)]
    /\ queue' = Tail(queue)
    /\ UNCHANGED <<mainpc, sent, registered, notified, out, emptyAtStart>>

MutWriteThenEnd(t) ==
    /\ tpc[t] = "write"
    /\ tpc' = [tpc EXCEPT ![t] = "ended"]
    /\ out' = Append(out, buffer[t])
    /\ UNCHANGED <<mainpc, queue, sent, registered, notified, buffer, emptyAtStart>>

ThreadWrite(t) ==
    /\ tpc[t] = "write"
    /\ tpc' = [tpc EXCEPT ![t] = "receive"]
    /\ out' = Append(out, buffer[t])
    /\ UNCHANGED <<mainpc, queue, sent, registered, notified, buffer, emptyAtStart>>

\* write() fails or is short: exit() ends the process with all its threads, and
\* the messages in their hands are not printed.
ThreadWriteFails(t) ==
    /\ tpc[t] = "write"
    /\ mainpc' = "exited"
    /\ registered' = FALSE
    /\ UNCHANGED <<queue, sent, notified, tpc, buffer, out, emptyAtStart>>

\* mq_receive() fails with EAGAIN: the thread frees its buffer and ends.
ThreadEnd(t) ==
    /\ tpc[t] = "receive" /\ queue = << >>
    /\ tpc' = [tpc EXCEPT ![t] = "ended"]
    /\ UNCHANGED <<mainpc, queue, sent, registered, notified, buffer, out, emptyAtStart>>

threadFunc(t) ==
    /\ mainpc = "pause"
    /\ \/ ThreadSetup(t) \/ ThreadReceive(t)
       \/ ThreadWrite(t) \/ ThreadWriteFails(t) \/ ThreadEnd(t)

-----------------------------------------------------------------------------
Next == mq_send \/ Setup \/ \E t \in Threads : threadFunc(t)

Spec == Init /\ [][Next]_vars

\* Every thread runs whenever it can; nobody has to send.
FairSpec == Spec /\ WF_vars(Setup) /\ \A t \in Threads : WF_vars(threadFunc(t))

-----------------------------------------------------------------------------
TypeOK ==
    /\ mainpc \in {"setup", "pause", "exited"}
    /\ sent \in 0..MaxMsgs
    /\ queue \in Seq(1..MaxMsgs) /\ Len(queue) <= QueueSize
    /\ registered \in BOOLEAN
    /\ notified \in 0..MaxMsgs
    /\ tpc \in [Threads -> {"unborn", "start", "receive", "write", "ended"}]
    /\ buffer \in [Threads -> 0..MaxMsgs]
    /\ out \in Seq(1..MaxMsgs)
    /\ emptyAtStart \in BOOLEAN

\* However many threads drain the queue at once, every message is in one
\* place: printed once, in the hands of one thread, or in the queue.
EachMessageOnce ==
    \A m \in 1..sent :
        Cardinality({k \in 1..Len(out) : out[k] = m})
          + Cardinality({t \in Threads : tpc[t] = "write" /\ buffer[t] = m})
          + Cardinality({k \in 1..Len(queue) : queue[k] = m}) = 1

\* notifySetup() in a thread never meets EBUSY, for which the program exits:
\* at most one thread has yet to register, and none is registered then.
NeverBusy ==
    \A t \in Threads : tpc[t] = "start" =>
        ~registered /\ \A u \in Threads \ {t} : tpc[u] # "start"

\* A message in the queue has a thread that will look for it.  It has none, ever,
\* exactly when the queue was not empty at main()'s mq_notify(), which is not
\* followed by an mq_receive().
NoMissedMessage ==
    mainpc = "pause" /\ queue # << >> =>
        (emptyAtStart <=> \E t \in Threads : tpc[t] \in {"start", "receive", "write"})

\* Every message is printed, provided the queue was empty when the program
\* first registered, unless a write() fails.
EveryMessagePrinted ==
    \A m \in 1..MaxMsgs :
        (emptyAtStart /\ sent >= m) ~> (mainpc = "exited" \/ \E k \in 1..Len(out) : out[k] = m)
=============================================================================
