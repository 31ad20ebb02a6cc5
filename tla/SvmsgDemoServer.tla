-------------------------- MODULE SvmsgDemoServer ---------------------------
(***************************************************************************)
(* svipc/svmsg_demo_server.c: each server creates the message queue of a   *)
(* fixed key exclusively; when it exists, the server removes it and tries  *)
(* again.  Several servers may be started at the same time.                *)
(***************************************************************************)
EXTENDS Integers, FiniteSets

CONSTANTS Servers,      \* the server processes
          None          \* no queue, no server

VARIABLES pc,           \* each server's next statement
          id,           \* each server's local variable
          queue,        \* the identifier of the key's queue, or None
          lastId,       \* the last identifier the kernel gave out
          owner         \* history: the server that created the queue

vars == <<pc, id, queue, lastId, owner>>

\* An earlier server may have left a queue behind.
Init ==
    /\ pc = [s \in Servers |-> "create"]
    /\ id = [s \in Servers |-> 0]
    /\ queue \in {None, 0}
    /\ lastId = 0
    /\ owner = None

Goto(s, next) == pc' = [pc EXCEPT ![s] = next]

\* msgget(key, IPC_CREAT | IPC_EXCL | MQ_PERM), and "Created new id".
Create(s) ==
    /\ pc[s] = "create" /\ queue = None
    /\ lastId' = lastId + 1
    /\ queue' = lastId'
    /\ id' = [id EXCEPT ![s] = lastId']
    /\ owner' = s
    /\ Goto(s, "created")

\* The loop tries again without removing the queue.
MutRetry(s) == pc[s] = "create" /\ queue # None /\ UNCHANGED vars

CreateExists(s) ==
    /\ pc[s] = "create" /\ queue # None
    /\ Goto(s, "find")
    /\ UNCHANGED <<id, queue, lastId, owner>>

\* msgget(key, 0)
Find(s) ==
    /\ pc[s] = "find"
    /\ IF queue = None
         THEN Goto(s, "failed") /\ UNCHANGED id
         ELSE Goto(s, "remove") /\ id' = [id EXCEPT ![s] = queue]
    /\ UNCHANGED <<queue, lastId, owner>>

MutRemoveGivesUp(s) ==
    /\ pc[s] = "remove"
    /\ queue' = IF queue = id[s] THEN None ELSE queue
    /\ Goto(s, "failed")
    /\ UNCHANGED <<id, lastId, owner>>

\* msgctl(id, IPC_RMID): identifiers are not used again, so a queue that was
\* replaced in the meantime is not removed.
Remove(s) ==
    /\ pc[s] = "remove"
    /\ IF queue = id[s]
         THEN Goto(s, "create") /\ queue' = None
         ELSE Goto(s, "failed") /\ UNCHANGED queue
    /\ UNCHANGED <<id, lastId, owner>>

Server(s) == Create(s) \/ CreateExists(s) \/ Find(s) \/ Remove(s)

Next == \E s \in Servers : Server(s)

Spec == Init /\ [][Next]_vars

\* The kernel schedules every server.
FairSpec == Spec /\ \A s \in Servers : WF_vars(Server(s))

-----------------------------------------------------------------------------
Ended(s) == pc[s] \in {"created", "failed"}

TypeOK ==
    /\ pc \in [Servers -> {"create", "find", "remove", "created", "failed"}]
    /\ id \in [Servers -> 0..Cardinality(Servers)]
    /\ queue \in 0..lastId \cup {None}
    /\ lastId \in 0..Cardinality(Servers)
    /\ owner \in Servers \cup {None}

\* Somebody always is about to create the queue again: when every server has
\* ended, the queue is there and it is the one its creator printed.
QueueRemains ==
    (\A s \in Servers : Ended(s)) =>
        /\ queue # None
        /\ owner # None /\ pc[owner] = "created" /\ id[owner] = queue

\* The servers do not remove each other's queues for ever.
AllEnd == <>(\A s \in Servers : Ended(s))
=============================================================================
