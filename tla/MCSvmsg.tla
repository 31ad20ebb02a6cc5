------------------------------- MODULE MCSvmsg -------------------------------
(***************************************************************************)
(* The file server with its clients, svmsg_demo_server, and the tools for  *)
(* message queues and for semaphores, on small instances.  `program' names *)
(* what was started; the others stand still.                               *)
(***************************************************************************)
EXTENDS SvmsgFile

\* One queue is created with -c -f by "c1".  "c2" asks for the same queue with -x, for
\* a key given with -k or for a private queue, or gives two keys.
CreateArgs == [flags : {{"IPC_CREAT", "IPC_EXCL"}}, keys : {{"f"}}]
              \cup [flags : {{}}, keys : {{"k"}, {"p"}}]
SendArg(q, t, n, w) == [msqid |-> q, type |-> t, len |-> n, nowait |-> w]
ReceiveArg(t, max, e, w, x) ==
    [msqid |-> 1, type |-> t, max |-> max, noerror |-> e, nowait |-> w, except |-> x]

\* Either the creators and the senders meet, or what is sent and what is selected vary.
ToolLines(creates, sends, receives) ==
    [c1 : {[flags |-> {"IPC_CREAT"}, keys |-> {"f"}]}, c2 : creates,
     s1 : {SendArg(1, 2, 2, FALSE)}, s2 : sends, s3 : {SendArg(1, 2, 1, TRUE)},
     r1 : receives, r2 : {ReceiveArg(-2, 2, FALSE, TRUE, FALSE)}, d1 : {<<1, 2>>}]
ToolArgs ==
    ToolLines(CreateArgs, {SendArg(2, 1, 1, TRUE)}, {ReceiveArg(0, 1, FALSE, FALSE, FALSE)})
    \cup ToolLines({[flags |-> {}, keys |-> {"f", "p"}]},
                {SendArg(1, 1, 2, FALSE), SendArg(1, 0, 2, FALSE), SendArg(1, 1, 3, FALSE)},
                {ReceiveArg(1, 1, TRUE, FALSE, TRUE), ReceiveArg(0, 1, FALSE, FALSE, FALSE)})

\* Initial values and operations in and out of range, also after the conversion
\* to short; the set 0 has two semaphores.
SemArgs ==
    [c1 : {[init |-> v] : v \in {-1, 1, 32767}},
     o1 : {[semid |-> 1, op |-> n] : n \in {1, 65538, 40000}},
     o2 : {[semid |-> 1, op |-> -2]},
     o3 : {[semid |-> i, op |-> n] : i \in {0, 1}, n \in {0, -65537}},
     a1 : {[semid |-> 0, vals |-> <<3, 0>>], [semid |-> 1, vals |-> <<2>>],
           [semid |-> 1, vals |-> <<32768>>], [semid |-> 0, vals |-> <<1>>]},
     m1 : {[semid |-> 1]}]

VARIABLES program, pc, id, queue, lastId, owner,
          tlPc, tlArg, key, tlQueue, received, log,
          smPc, smArg, set, semid, known, row, base, applied

Demo == INSTANCE SvmsgDemoServer WITH Servers <- 1..3
Tools == INSTANCE SvmsgTools
    WITH Creators <- {"c1", "c2"}, Senders <- {"s1", "s2", "s3"}, Receivers <- {"r1", "r2"},
         Removers <- {"d1"}, Args <- ToolArgs, MaxText <- 2, Capacity <- 2,
         pc <- tlPc, arg <- tlArg, queue <- tlQueue
Sems == INSTANCE SvsemTools
    WITH Creators <- {"c1"}, Operators <- {"o1", "o2", "o3"}, Setters <- {"a1"},
         Monitors <- {"m1"}, Args <- SemArgs, pc <- smPc, arg <- smArg

demoVars == <<pc, id, queue, lastId, owner>>
toolVars == <<tlPc, tlArg, key, tlQueue, received, log>>
semVars == <<smPc, smArg, set, semid, known, row, base, applied>>
mcVars == <<program, vars, demoVars, toolVars, semVars>>

MCInit ==
    /\ program \in {"svmsg_file", "svmsg_demo_server", "svmsg_tools", "svsem_tools"}
    /\ Init /\ Demo!Init /\ Tools!Init /\ Sems!Init
    /\ program # "svmsg_file" => ~serverQueue /\ file = [c \in Clients |-> Missing]
    /\ program # "svmsg_demo_server" => queue = None
    /\ program # "svmsg_tools" => tlArg = CHOOSE a \in ToolArgs : TRUE
    /\ program # "svsem_tools" => smArg = CHOOSE a \in SemArgs : TRUE

FileServer == program = "svmsg_file" /\ UNCHANGED <<program, demoVars, toolVars, semVars>>
DemoServer == program = "svmsg_demo_server" /\ UNCHANGED <<program, vars, toolVars, semVars>>
MsgTools == program = "svmsg_tools" /\ UNCHANGED <<program, vars, demoVars, semVars>>
SemTools == program = "svsem_tools" /\ UNCHANGED <<program, vars, demoVars, toolVars>>

MCNext ==
    \/ FileServer /\ Next
    \/ DemoServer /\ Demo!Next
    \/ MsgTools /\ Tools!Next
    \/ SemTools /\ Sems!Next

\* The fairness of each program, while it is the one that runs.  A tool takes a few
\* steps and ends: that somebody goes on is enough for all of them.
MCSpec ==
    /\ MCInit /\ [][MCNext]_mcVars
    /\ WF_mcVars(FileServer /\ ServerNext)
    /\ \A c \in Clients :
         WF_mcVars(FileServer /\ ClientNext(c)) /\ WF_mcVars(FileServer /\ ChildNext(c))
    /\ \A s \in 1..3 : WF_mcVars(DemoServer /\ Demo!Server(s))
    /\ WF_mcVars(MsgTools /\ Tools!Next) /\ WF_mcVars(SemTools /\ Sems!Next)

\* svmsg_demo_server.c: of several servers that remove and create the queue of
\* one key at the same time, somebody's remains when all have ended.
QueueRemains == Demo!QueueRemains

\* svmsg_receive.c:61: a message is printed once, whole unless -e was given, and
\* never before one of its type that was sent earlier and is still there.
SelectedInOrder == Tools!SelectedInOrder

\* svsem_demo.c:32,49: a semaphore is worth what it was last set to and the
\* operations since; svsem_mon.c:49: a row contradicts itself only if the value
\* changed while it was read.
SemaphoreValuesTrue == Sems!UnitsBalance /\ Sems!RowTrueUnlessChanged

\* Every client of the file server is answered and every child reaped; the
\* demo servers do not remove each other's queues for ever; and of the tools,
\* none waits for what is there, or for a queue that was removed.
EveryoneServed ==
    /\ program = "svmsg_file" => EveryClientAnswered /\ EveryChildReaped
    /\ program = "svmsg_demo_server" => Demo!AllEnd
    /\ program = "svmsg_tools" => Tools!NoWaitInVain
    /\ program = "svsem_tools" => Sems!NoWaitInVain
=============================================================================
