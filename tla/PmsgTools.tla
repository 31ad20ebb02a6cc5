------------------------------ MODULE PmsgTools ------------------------------
(***************************************************************************)
(* pmsg/pmsg_create.c, pmsg_send.c, pmsg_receive.c, pmsg_getattr.c and     *)
(* pmsg_unlink.c: processes on the POSIX message queues of one name.  A    *)
(* process goes on with the queue it has opened when the name is removed   *)
(* and given to another one.                                               *)
(*                                                                         *)
(* The command lines are [flags, opts] for pmsg_create, where `opts' is    *)
(* the sequence of the options <<"m", n>> and <<"s", n>>, [len, priority,  *)
(* nonblock] for pmsg_send and [nonblock] for pmsg_receive.                *)
(***************************************************************************)
EXTENDS Integers, Sequences, FiniteSets, FiniteSetsExt, SequencesExt

CONSTANTS Creators, Senders, Receivers, Viewers, Unlinkers,   \* the processes
          Args,         \* the command lines to try, functions from the processes
          UINT_RANGE,   \* the number of values of an unsigned int
          None          \* no queue

Procs == Creators \cup Senders \cup Receivers \cup Viewers \cup Unlinkers
Queues == 1..Cardinality(Creators)
MQ_PRIO_MAX == 32768

VARIABLES pc,           \* each process's next statement
          arg,          \* the command line of each process
          name,         \* the queue the name stands for, or None
          attr,         \* <<[maxmsg, msgsize], ...>> of the queues created so far
          mqd,          \* the queue each process has open
          queue,        \* the messages in each queue, in the order of arrival
          size,         \* the size of the buffer of each pmsg_receive
          log,          \* history: the messages sent to each queue
          got           \* history: the messages that were printed

vars == <<pc, arg, name, attr, mqd, queue, size, log, got>>

Init ==
    /\ pc = [p \in Procs |-> "start"]
    /\ arg \in Args
    /\ name = None
    /\ attr = << >>
    /\ mqd = [p \in Procs |-> None]
    /\ queue = [q \in Queues |-> << >>]
    /\ size = [p \in Receivers |-> 0]
    /\ log = [q \in Queues |-> << >>]
    /\ got = {}

At(p, here, next) ==
    /\ pc[p] = here
    /\ pc' = [pc EXCEPT ![p] = next]
    /\ UNCHANGED arg

-----------------------------------------------------------------------------
\* The attributes pmsg_create passes: without -m and -s a null pointer, for
\* which the system has its own; -s stores its argument in mq_maxmsg as well.
Attributes(p) ==
    IF arg[p].opts = << >> THEN [maxmsg |-> 10, msgsize |-> 8192]
    ELSE [maxmsg |-> Last(arg[p].opts)[2], msgsize |-> 2048]

Create(p) ==
    /\ name = None /\ "O_CREAT" \in arg[p].flags /\ Attributes(p).maxmsg > 0
    /\ At(p, "start", "done")
    /\ attr' = Append(attr, Attributes(p))
    /\ name' = Len(attr')
    /\ UNCHANGED <<mqd, queue, size, log, got>>

CreateExisting(p) ==
    /\ name # None /\ ~({"O_CREAT", "O_EXCL"} \subseteq arg[p].flags)
    /\ At(p, "start", "done")
    /\ UNCHANGED <<name, attr, mqd, queue, size, log, got>>

\* EEXIST, ENOENT, EINVAL
CreateFails(p) ==
    /\ IF name # None THEN {"O_CREAT", "O_EXCL"} \subseteq arg[p].flags
       ELSE "O_CREAT" \notin arg[p].flags \/ Attributes(p).maxmsg < 1
    /\ At(p, "start", "failed")
    /\ UNCHANGED <<name, attr, mqd, queue, size, log, got>>

\* mq_open() of the other programs.
Open(p) ==
    /\ At(p, "start", IF name = None THEN "failed" ELSE "opened")
    /\ mqd' = [mqd EXCEPT ![p] = name]
    /\ UNCHANGED <<name, attr, queue, size, log, got>>

-----------------------------------------------------------------------------
\* An unsigned long stored in an unsigned int.
Priority(p) == arg[p].priority % UINT_RANGE

SendInvalid(p) == Priority(p) >= MQ_PRIO_MAX \/ arg[p].len > attr[mqd[p]].msgsize
Full(q) == Len(queue[q]) >= attr[q].maxmsg

\* mq_send() waits while the queue is full.
Send(p) ==
    LET m == [from |-> p, priority |-> Priority(p)] IN
    /\ At(p, "opened", "done")
    /\ ~SendInvalid(p) /\ ~Full(mqd[p])
    /\ queue' = [queue EXCEPT ![mqd[p]] = Append(@, m)]
    /\ log' = [log EXCEPT ![mqd[p]] = Append(@, m)]
    /\ UNCHANGED <<name, attr, mqd, size, got>>

SendFails(p) ==
    /\ At(p, "opened", "failed")
    /\ SendInvalid(p) \/ (Full(mqd[p]) /\ arg[p].nonblock)
    /\ UNCHANGED <<name, attr, mqd, queue, size, log, got>>

-----------------------------------------------------------------------------
\* The result of getopt() is not stored: with -n the uninitialised opt may hold
\* anything, and unless it holds 'n' the program prints its usage.
Usage(p) ==
    /\ arg[p].nonblock
    /\ At(p, "start", "failed")
    /\ UNCHANGED <<name, attr, mqd, queue, size, log, got>>

\* The attributes of the queue that has the name.
MutGetAttr(p) ==
    /\ name # None
    /\ At(p, "opened", "receive")
    /\ size' = [size EXCEPT ![p] = attr[name].msgsize]
    /\ UNCHANGED <<name, attr, mqd, queue, log, got>>

\* mq_getattr() and malloc()
GetAttr(p) ==
    /\ At(p, "opened", "receive")
    /\ size' = [size EXCEPT ![p] = attr[mqd[p]].msgsize]
    /\ UNCHANGED <<name, attr, mqd, queue, log, got>>

\* The oldest message of the highest priority.
Selected(q) ==
    Min({i \in DOMAIN queue[q] : \A j \in DOMAIN queue[q] :
            queue[q][j].priority <= queue[q][i].priority})

\* mq_receive() waits while the queue is empty.
Receive(p) ==
    LET q == mqd[p] IN
    /\ At(p, "receive", "done")
    /\ queue[q] # << >> /\ size[p] >= attr[q].msgsize
    /\ got' = got \cup {queue[q][Selected(q)]}
    /\ queue' = [queue EXCEPT ![q] = RemoveAt(@, Selected(q))]
    /\ UNCHANGED <<name, attr, mqd, size, log>>

\* EMSGSIZE, and EAGAIN with O_NONBLOCK
ReceiveFails(p) ==
    /\ At(p, "receive", "failed")
    /\ size[p] < attr[mqd[p]].msgsize \/ (queue[mqd[p]] = << >> /\ arg[p].nonblock)
    /\ UNCHANGED <<name, attr, mqd, queue, size, log, got>>

\* pmsg_getattr prints and closes.
View(p) ==
    /\ At(p, "opened", "done")
    /\ UNCHANGED <<name, attr, mqd, queue, size, log, got>>

Unlink(p) ==
    /\ At(p, "start", IF name = None THEN "failed" ELSE "done")
    /\ name' = None
    /\ UNCHANGED <<attr, mqd, queue, size, log, got>>

Proc(p) ==
    \/ p \in Creators /\ (Create(p) \/ CreateExisting(p) \/ CreateFails(p))
    \/ p \in Senders /\ (Open(p) \/ Send(p) \/ SendFails(p))
    \/ p \in Receivers /\ (Usage(p) \/ Open(p) \/ GetAttr(p) \/ Receive(p) \/ ReceiveFails(p))
    \/ p \in Viewers /\ (Open(p) \/ View(p))
    \/ p \in Unlinkers /\ Unlink(p)

-----------------------------------------------------------------------------
Next == \E p \in Procs : Proc(p)

Spec == Init /\ [][Next]_vars

\* The kernel schedules the processes; none takes more than a few steps.
FairSpec == Spec /\ WF_vars(Next)

\* pmsg_receive.c:55: the buffer is as large as the messages of the queue it is
\* used for, even if the name has been given to a queue of another size since.
BufferFits ==
    \A p \in Receivers : pc[p] = "receive" => size[p] >= attr[mqd[p]].msgsize

\* pmsg_send.c:43, pmsg_receive.c:55: a message overtakes another that was sent
\* before it to the same queue only by a higher priority.
PriorityOrder ==
    \A q \in Queues : \A i, j \in DOMAIN log[q] :
        i < j /\ log[q][i].priority >= log[q][j].priority /\ log[q][j] \in got =>
            log[q][i] \in got

\* In the end a sender waits only in front of a full queue and a receiver only
\* for an empty one.
NoWaitInVain ==
    <>[](\A p \in Procs : pc[p] \notin {"done", "failed"} =>
            \/ p \in Senders /\ pc[p] = "opened" /\ Full(mqd[p])
            \/ p \in Receivers /\ pc[p] = "receive" /\ queue[mqd[p]] = << >>)

\* pmsg_create.c:72: "-s <max_msg_size> - Set max msg size".  A queue that
\* pmsg_create has made exclusively is of the size it was asked for.
SizeAsAsked ==
    \A p \in Creators : \A k \in DOMAIN arg[p].opts :
        pc[p] = "done" /\ arg[p].opts[k][1] = "s" /\ arg[p].flags = {"O_CREAT", "O_EXCL"} =>
            \E q \in DOMAIN attr : attr[q].msgsize = arg[p].opts[k][2]
=============================================================================
