----------------------------- MODULE MCPosixIpc ------------------------------
(***************************************************************************)
(* mq_notify_sig, mq_notify_thread and the programs of pmsg/, psem/ and    *)
(* pshm/ on small instances.  `program' names what was started; the others *)
(* stand still.                                                            *)
(***************************************************************************)
EXTENDS MqNotifySig

CONSTANTS Creators, Posters, Waiters, Viewers, Unlinkers, None

\* One queue of the system's size, and one for a single message.  Either the
\* creators vary, or the second message: it is of the same priority after the
\* conversion, or too long for one of the queues, or its priority is too high.
Message(n, pri, b) == [len |-> n, priority |-> pri, nonblock |-> b]
PmsgLines(creates, sends, waits) ==
    [c1 : {[flags |-> {"O_CREAT"}, opts |-> << >>]}, c2 : creates,
     s1 : {Message(100, 1, FALSE)}, s2 : sends, r1 : waits]
Single == [flags |-> {"O_CREAT", "O_EXCL"}, opts |-> <<<<"m", 1>>>>]
PmsgArgs ==
    PmsgLines({Single, [flags |-> {}, opts |-> << >>], [flags |-> {"O_CREAT"}, opts |-> <<<<"s", 0>>>>],
               [flags |-> {"O_CREAT", "O_EXCL"}, opts |-> <<<<"m", 1>>, <<"s", 4>>>>]},
              {Message(100, 2, TRUE)}, [nonblock : {FALSE}])
    \cup PmsgLines({Single}, {Message(100, 65537, FALSE)}, [nonblock : BOOLEAN])
    \cup PmsgLines({Single}, {Message(4000, 2, FALSE), Message(1, 40000, FALSE)}, [nonblock : {FALSE}])

\* Creating with and without -x, and messages that are longer or shorter than
\* what is there.
PshmLines(creates, n) ==
    [c1 : {[flags |-> {"O_CREAT"}, size |-> 2]}, c2 : {[flags |-> creates, size |-> 1]},
     w1 : {[len |-> 2]}, w2 : {[len |-> n]}]
PshmArgs == PshmLines({"O_CREAT", "O_EXCL"}, 1) \cup PshmLines({}, 0)

VARIABLES program,
          mainpc, thQueue, thSent, thRegistered, notified, tpc, thBuffer, thOut,
          thEmptyAtStart,
          semPc, oflag, init, name, created, sem, value, start,
          pmPc, pmArg, pmName, attr, mqd, pmQueue, size, log, got,
          shPc, shArg, shName, shCreated, fd, mem, len, shOut, copied, alone, last, expected

Threaded == INSTANCE MqNotifyThread
    WITH MaxMsgs <- 4, QueueSize <- 2,
         queue <- thQueue, sent <- thSent, registered <- thRegistered,
         buffer <- thBuffer, out <- thOut, emptyAtStart <- thEmptyAtStart
Semaphores == INSTANCE Psem WITH Values <- {1}, pc <- semPc
Pmsg == INSTANCE PmsgTools
    WITH Creators <- {"c1", "c2"}, Senders <- {"s1", "s2"}, Receivers <- {"r1"},
         Viewers <- {"v1"}, Unlinkers <- {"u1"}, Args <- PmsgArgs, UINT_RANGE <- 65536,
         pc <- pmPc, arg <- pmArg, name <- pmName, queue <- pmQueue
Shm == INSTANCE Pshm
    WITH Creators <- {"c1", "c2"}, Writers <- {"w1", "w2"}, Readers <- {"r1"},
         Unlinkers <- {"u1"}, Args <- PshmArgs,
         pc <- shPc, arg <- shArg, name <- shName, created <- shCreated, out <- shOut

threadVars == <<mainpc, thQueue, thSent, thRegistered, notified, tpc, thBuffer, thOut,
                thEmptyAtStart>>
semVars == <<semPc, oflag, init, name, created, sem, value, start>>
pmsgVars == <<pmPc, pmArg, pmName, attr, mqd, pmQueue, size, log, got>>
shmVars == <<shPc, shArg, shName, shCreated, fd, mem, len, shOut, copied, alone, last,
             expected>>
mcVars == <<program, vars, threadVars, semVars, pmsgVars, shmVars>>

MCInit ==
    /\ program \in {"mq_notify_sig", "mq_notify_thread", "psem", "pmsg", "pshm"}
    /\ Init /\ Threaded!Init /\ Semaphores!Init /\ Pmsg!Init /\ Shm!Init
    /\ program # "mq_notify_sig" => sent = 0
    /\ program # "mq_notify_thread" => thSent = 0
    /\ program # "psem" => \A p \in Creators : oflag[p] = {}
    /\ program # "pmsg" => pmArg = CHOOSE a \in PmsgArgs : TRUE
    /\ program # "pshm" => shArg = CHOOSE a \in PshmArgs : TRUE

BySignal == program = "mq_notify_sig" /\ UNCHANGED <<program, threadVars, semVars, pmsgVars, shmVars>>
ByThread == program = "mq_notify_thread" /\ UNCHANGED <<program, vars, semVars, pmsgVars, shmVars>>
BySemaphore == program = "psem" /\ UNCHANGED <<program, vars, threadVars, pmsgVars, shmVars>>
ByQueue == program = "pmsg" /\ UNCHANGED <<program, vars, threadVars, semVars, shmVars>>
ByMemory == program = "pshm" /\ UNCHANGED <<program, vars, threadVars, semVars, pmsgVars>>

MCNext ==
    \/ BySignal /\ Next
    \/ ByThread /\ Threaded!Next
    \/ BySemaphore /\ Semaphores!Next
    \/ ByQueue /\ Pmsg!Next
    \/ ByMemory /\ Shm!Next

\* The fairness of each program, while it is the one that runs.
MCSpec ==
    /\ MCInit /\ [][MCNext]_mcVars
    /\ WF_mcVars(BySignal /\ Program)
    /\ WF_mcVars(ByThread /\ Threaded!Setup)
    /\ \A t \in Threaded!Threads : WF_mcVars(ByThread /\ Threaded!threadFunc(t))
    /\ \A p \in Semaphores!Procs : WF_mcVars(BySemaphore /\ Semaphores!Proc(p))
    /\ WF_mcVars(ByQueue /\ Pmsg!Next)

\* A message that arrives while the queue is being drained is noticed, and only
\* those of a queue that was not empty at the first mq_notify() are slept over: no
\* mq_notify() after the first meets a registration in force (mq_notify_sig.c:94,
\* mq_notify_thread.c:58), and the signal is pending when the program goes to
\* sleep (mq_notify_sig.c:89) or some thread still looks (mq_notify_thread.c:60).
NoMessageMissed ==
    /\ NeverBusy /\ Threaded!NeverBusy
    /\ NoMissedMessage /\ Threaded!NoMissedMessage

\* No message is lost or printed twice: mq_notify_sig.c prints them in order, and
\* of the threads that drain one queue together each has its own.  A message
\* overtakes another sent to the same queue before it only by a higher priority
\* (pmsg_send.c:43), and pmsg_receive.c:55 has a buffer that fits the messages of
\* the queue it opened, whatever has become of the name since.
EachPrintedOnce ==
    /\ PrintedInOrder /\ Threaded!EachMessageOnce
    /\ Pmsg!BufferFits /\ Pmsg!PriorityOrder

\* pshm_read.c:40: a reader that nobody disturbed prints the whole message of
\* the last writer, if that one was undisturbed too, and only a disturbed writer
\* is killed in memcpy() (pshm_write.c:42).
UndisturbedIsWhole == Shm!UndisturbedIsWhole

\* pmsg_create.c:72 says of -s "Set max msg size".
SizeAsAsked == Pmsg!SizeAsAsked

\* Every message is printed in the end, if the queue was empty at the first
\* mq_notify() and no write() fails; no post to a semaphore is wasted on one
\* that somebody waits for, and nobody waits in mq_send() in front of a queue
\* with room or in mq_receive() for one with messages.
NothingLeftBehind ==
    /\ program = "mq_notify_sig" => EveryMessagePrinted
    /\ program = "mq_notify_thread" => Threaded!EveryMessagePrinted
    /\ program = "psem" => Semaphores!NoPostWasted
    /\ program = "pmsg" => Pmsg!NoWaitInVain
=============================================================================
