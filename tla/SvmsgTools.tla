----------------------------- MODULE SvmsgTools -----------------------------
(***************************************************************************)
(* svipc/svmsg_create.c, svmsg_send.c, svmsg_receive.c and svmsg_rm.c:     *)
(* processes that create message queues, send to them, receive from them   *)
(* by type and remove them.  Each process makes one system call, svmsg_rm  *)
(* one for each argument; what a call finds is what the others left.       *)
(*                                                                         *)
(* The command lines are records: for svmsg_create [flags, keys], where    *)
(* `flags' stands for -c and -x and `keys' for the options among -f, -k    *)
(* and -p; for svmsg_send [msqid, type, len, nowait], where len counts the *)
(* final 0 of the text; for svmsg_receive [msqid, type, max, noerror,      *)
(* nowait, except]; for svmsg_rm the sequence of identifiers.              *)
(***************************************************************************)
EXTENDS Integers, Sequences, FiniteSets, FiniteSetsExt, SequencesExt

CONSTANTS Creators, Senders, Receivers, Removers,   \* the processes
          Args,         \* the command lines to try, functions from the processes
          MaxText,      \* MAX_MSG_TEXT_LENGTH
          Capacity,     \* messages a queue has room for
          None          \* no message, no queue

Procs == Creators \cup Senders \cup Receivers \cup Removers
Ids == 1..Cardinality(Creators)
Keys == {"IPC_PRIVATE", "ftok", "other"}

VARIABLES pc,           \* "start", "done" or "failed"
          arg,          \* the command line; svmsg_rm: what is left of it
          key,          \* the key of each identifier given out so far
          queue,        \* the messages of each queue, None once removed
          received,     \* [msg, len] that each receiver printed, or None
          log           \* history: the messages sent to each identifier

vars == <<pc, arg, key, queue, received, log>>

Init ==
    /\ pc = [p \in Procs |-> "start"]
    /\ arg \in Args
    /\ key = << >>
    /\ queue = [i \in Ids |-> None]
    /\ received = [r \in Receivers |-> None]
    /\ log = [i \in Ids |-> << >>]

End(p, how) == pc[p] = "start" /\ pc' = [pc EXCEPT ![p] = how]
Fail(p) == End(p, "failed") /\ UNCHANGED <<arg, key, queue, received, log>>

-----------------------------------------------------------------------------
\* The value of the variable `key' at msgget(): -k reads lKey and leaves key
\* uninitialised.
KeyValues(p) ==
    IF arg[p].keys = {"f"} THEN {"ftok"} ELSE IF arg[p].keys = {"p"} THEN {"IPC_PRIVATE"} ELSE Keys

Found(k) == {i \in DOMAIN key : k # "IPC_PRIVATE" /\ key[i] = k /\ queue[i] # None}

\* msgget(): a new queue, the one there is, EEXIST or ENOENT.
Create(p) ==
    \E k \in KeyValues(p) :
        /\ Cardinality(arg[p].keys) = 1
        /\ \/ /\ Found(k) = {} /\ (k = "IPC_PRIVATE" \/ "IPC_CREAT" \in arg[p].flags)
              /\ End(p, "done")
              /\ key' = Append(key, k)
              /\ queue' = [queue EXCEPT ![Len(key')] = << >>]
              /\ UNCHANGED <<arg, received, log>>
           \/ /\ Found(k) # {} /\ ~({"IPC_CREAT", "IPC_EXCL"} \subseteq arg[p].flags)
              /\ End(p, "done")
              /\ UNCHANGED <<arg, key, queue, received, log>>

CreateFails(p) ==
    /\ \/ Cardinality(arg[p].keys) # 1
       \/ \E k \in KeyValues(p) :
            \/ Found(k) = {} /\ k # "IPC_PRIVATE" /\ "IPC_CREAT" \notin arg[p].flags
            \/ Found(k) # {} /\ {"IPC_CREAT", "IPC_EXCL"} \subseteq arg[p].flags
    /\ Fail(p)

-----------------------------------------------------------------------------
\* The queue the process was told to use, None if there is no such queue.
Q(p) == queue[arg[p].msqid]

\* Wrong arguments are refused before a process waits.
SendInvalid(p) == arg[p].len > MaxText \/ Q(p) = None \/ arg[p].type < 1

\* msgsnd() waits while the queue is full.
Send(p) ==
    LET m == [from |-> p, type |-> arg[p].type, len |-> arg[p].len] IN
    /\ ~SendInvalid(p) /\ Len(Q(p)) < Capacity
    /\ End(p, "done")
    /\ queue' = [queue EXCEPT ![arg[p].msqid] = Append(@, m)]
    /\ log' = [log EXCEPT ![arg[p].msqid] = Append(@, m)]
    /\ UNCHANGED <<arg, key, received>>

SendFails(p) ==
    /\ SendInvalid(p) \/ (Q(p) # None /\ Len(Q(p)) >= Capacity /\ arg[p].nowait)
    /\ Fail(p)

-----------------------------------------------------------------------------
\* The places of the queue that -t and -x select from.
Matching(p) ==
    LET t == arg[p].type IN
    {i \in DOMAIN Q(p) :
        \/ t = 0
        \/ t > 0 /\ (Q(p)[i].type = t) = ~arg[p].except
        \/ t < 0 /\ Q(p)[i].type <= -t}

\* The first of them; for a negative -t, the first of the lowest type.
Selected(p) ==
    Min({i \in Matching(p) :
           arg[p].type < 0 => \A j \in Matching(p) : Q(p)[i].type <= Q(p)[j].type})

TooLong(p) == Q(p)[Selected(p)].len > arg[p].max
Taken(p) == [msg |-> Q(p)[Selected(p)], len |-> Min({Q(p)[Selected(p)].len, arg[p].max})]

MutReceiveAlwaysNoerror(p) ==
    /\ Q(p) # None /\ Matching(p) # {}
    /\ End(p, "done")
    /\ received' = [received EXCEPT ![p] = Taken(p)]
    /\ queue' = [queue EXCEPT ![arg[p].msqid] = RemoveAt(@, Selected(p))]
    /\ UNCHANGED <<arg, key, log>>

\* msgrcv() waits while nothing matches.  With -e it cuts off what does not
\* fit, without -e such a message stays in the queue.
Receive(p) ==
    /\ Q(p) # None /\ Matching(p) # {}
    /\ TooLong(p) => arg[p].noerror
    /\ End(p, "done")
    /\ received' = [received EXCEPT ![p] = Taken(p)]
    /\ queue' = [queue EXCEPT ![arg[p].msqid] = RemoveAt(@, Selected(p))]
    /\ UNCHANGED <<arg, key, log>>

ReceiveFails(p) ==
    /\ \/ Q(p) = None
       \/ Q(p) # None /\ Matching(p) = {} /\ arg[p].nowait
       \/ Q(p) # None /\ Matching(p) # {} /\ TooLong(p) /\ ~arg[p].noerror
    /\ Fail(p)

-----------------------------------------------------------------------------
\* One msgctl(IPC_RMID) of svmsg_rm, which stops at the first that fails.
Rmid(p) ==
    /\ arg[p] # << >> /\ queue[Head(arg[p])] # None
    /\ pc[p] = "start"
    /\ queue' = [queue EXCEPT ![Head(arg[p])] = None]
    /\ arg' = [arg EXCEPT ![p] = Tail(@)]
    /\ UNCHANGED <<pc, key, received, log>>

RmidEnds(p) ==
    \/ arg[p] # << >> /\ queue[Head(arg[p])] = None /\ Fail(p)
    \/ arg[p] = << >> /\ End(p, "done") /\ UNCHANGED <<arg, key, queue, received, log>>

Proc(p) ==
    \/ p \in Creators /\ (Create(p) \/ CreateFails(p))
    \/ p \in Senders /\ (Send(p) \/ SendFails(p))
    \/ p \in Receivers /\ (Receive(p) \/ ReceiveFails(p))
    \/ p \in Removers /\ (Rmid(p) \/ RmidEnds(p))

Next == \E p \in Procs : Proc(p)

Spec == Init /\ [][Next]_vars

\* The kernel schedules the processes; none takes more than a few steps.
FairSpec == Spec /\ WF_vars(Next)

-----------------------------------------------------------------------------
\* svmsg_receive.c:61: whatever the receivers select, a message is printed once,
\* whole unless -e was given, and never before one of its type that was sent
\* earlier and is still in the queue.
SelectedInOrder ==
    \A r \in Receivers : received[r] # None =>
        LET m == received[r].msg  i == arg[r].msqid IN
        /\ received[r].len = m.len \/ arg[r].noerror
        /\ \A s \in Receivers \ {r} : received[s] = None \/ received[s].msg # m
        /\ \A a, b \in DOMAIN log[i] :
             a < b /\ log[i][b] = m /\ log[i][a].type = m.type =>
                 queue[i] = None \/ ~Contains(queue[i], log[i][a])

\* In the end a process waits only where waiting is right: a receiver for a
\* message that is not there, a sender in front of a full queue.  Nobody waits
\* for a queue that was removed.
NoWaitInVain ==
    <>[](\A p \in Procs : pc[p] = "start" =>
            /\ p \in Senders \cup Receivers /\ Q(p) # None
            /\ p \in Senders => Len(Q(p)) >= Capacity
            /\ p \in Receivers => Matching(p) = {})
=============================================================================
