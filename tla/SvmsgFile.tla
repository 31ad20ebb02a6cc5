----------------------------- MODULE SvmsgFile ------------------------------
(***************************************************************************)
(* svipc/svmsg_file_server.c and svipc/svmsg_file_client.c: a file server  *)
(* on System V message queues.  A client sends its request, with the id of *)
(* a private queue, to the server's queue.  The server forks a child per   *)
(* request; the child sends the file to the client's queue, block by block *)
(* and with an end message.  The server reaps its children in a SIGCHLD    *)
(* handler.                                                                *)
(***************************************************************************)
EXTENDS Integers, Sequences, FiniteSets

CONSTANTS Clients,
          Files,        \* what pathnames name: Missing or a number of blocks
          Missing,
          None,
          RequestCap,   \* requests the server's queue holds
          ResponseCap,  \* messages a client's queue holds
          Kills,        \* whether clients may be killed
          ForkFails     \* whether fork() may fail

ASSUME SvmsgAssumption ==
    /\ Missing \in Files /\ Files \ {Missing} \subseteq Nat
    /\ {RequestCap, ResponseCap} \subseteq Nat \ {0}
    /\ {Kills, ForkFails} \subseteq BOOLEAN

VARIABLES spc,          \* the server's next statement
          serverQueue,  \* the server's queue exists
          requests,     \* the requests in it, by client
          request,      \* the request being dispatched
          sigchld,      \* SIGCHLD is pending
          inHandler,    \* childCleanupHandler() is running
          child,        \* next statement of the child that serves a client
          sent,         \* the blocks each child has sent
          readError,    \* the clients whose child met a read() error
          cpc,          \* each client's next statement
          file,         \* the file each client asks for
          queues,       \* the clients whose queue exists
          responses,    \* the messages in each client's queue
          numMsgs,      \* the messages each client has received
          blocks,       \* the data messages among them
          outcome,      \* "received", "refused" or "failed", once known
          killed

server == <<spc, serverQueue, request, inHandler>>
children == <<child, sent, readError>>
client == <<cpc, file, numMsgs, blocks, outcome, killed>>
vars == <<server, requests, sigchld, children, client, queues, responses>>

Init ==
    /\ spc = "msgget"
    /\ serverQueue \in BOOLEAN          \* an earlier server may have left it
    /\ requests = << >> /\ request = None
    /\ sigchld = FALSE /\ inHandler = FALSE
    /\ child = [c \in Clients |-> "none"]
    /\ sent = [c \in Clients |-> 0]
    /\ readError = {}
    /\ cpc = [c \in Clients |-> "msgget"]
    /\ file \in [Clients -> Files]
    /\ queues = {}
    /\ responses = [c \in Clients |-> << >>]
    /\ numMsgs = [c \in Clients |-> 0]
    /\ blocks = [c \in Clients |-> 0]
    /\ outcome = [c \in Clients |-> None]
    /\ killed = {}

-----------------------------------------------------------------------------
(* svmsg_file_client.c *)

ClientAt(c, here, next) ==
    /\ c \notin killed
    /\ cpc[c] = here
    /\ cpc' = [cpc EXCEPT ![c] = next]
    /\ UNCHANGED <<server, sigchld, children, file, killed>>

\* Both queues: the server's must exist, the client's is created.
ClientMsgget(c) ==
    /\ ClientAt(c, "msgget", IF serverQueue THEN "send" ELSE "done")
    /\ queues' = IF serverQueue THEN queues \cup {c} ELSE queues
    /\ outcome' = IF serverQueue THEN outcome ELSE [outcome EXCEPT ![c] = "failed"]
    /\ UNCHANGED <<requests, responses, numMsgs, blocks>>

\* msgsnd() waits for room, and fails once the server has removed its queue.
ClientSend(c) ==
    /\ ClientAt(c, "send", IF serverQueue THEN "receive" ELSE "exit")
    /\ serverQueue => Len(requests) < RequestCap
    /\ requests' = IF serverQueue THEN Append(requests, c) ELSE requests
    /\ outcome' = IF serverQueue THEN outcome ELSE [outcome EXCEPT ![c] = "failed"]
    /\ UNCHANGED <<queues, responses, numMsgs, blocks>>

\* Only the first message is tested for RESPONSE_MSG_FAILURE.
ClientReceive(c) ==
    /\ responses[c] # << >>
    /\ LET m == Head(responses[c])
           refused == m = "FAILURE" /\ numMsgs[c] = 0
       IN /\ ClientAt(c, "receive", IF refused \/ m = "END" THEN "exit" ELSE "receive")
          /\ blocks' = [blocks EXCEPT ![c] = IF m = "DATA" THEN @ + 1 ELSE @]
          /\ outcome' = [outcome EXCEPT ![c] = CASE refused   -> "refused"
                                                 [] m = "END" -> "received"
                                                 [] OTHER     -> @]
    /\ numMsgs' = [numMsgs EXCEPT ![c] = @ + 1]
    /\ responses' = [responses EXCEPT ![c] = Tail(@)]
    /\ UNCHANGED <<requests, queues>>

\* exit() runs the atexit() handler.
removeClientMsq(c) ==
    /\ ClientAt(c, "exit", "done")
    /\ queues' = queues \ {c}
    /\ responses' = [responses EXCEPT ![c] = << >>]
    /\ UNCHANGED <<requests, numMsgs, blocks, outcome>>

\* A signal ends the client and its queue stays.
Kill(c) ==
    /\ Kills /\ c \notin killed /\ cpc[c] # "done"
    /\ killed' = killed \cup {c}
    /\ UNCHANGED <<server, requests, sigchld, children, cpc, file, numMsgs, blocks,
                   outcome, queues, responses>>

ClientNext(c) == ClientMsgget(c) \/ ClientSend(c) \/ ClientReceive(c) \/ removeClientMsq(c)

-----------------------------------------------------------------------------
(* svmsg_file_server.c: main() and childCleanupHandler() *)

ServerAt(here, next) ==
    /\ ~inHandler
    /\ spc = here
    /\ spc' = next
    /\ UNCHANGED <<inHandler, sent, readError, client, queues, responses>>

ServerMsgget ==
    /\ ServerAt("msgget", "receive")
    /\ serverQueue' = TRUE
    /\ UNCHANGED <<requests, request, sigchld, child>>

ServerReceive ==
    /\ requests # << >>
    /\ ServerAt("receive", "fork")
    /\ request' = Head(requests)
    /\ requests' = Tail(requests)
    /\ UNCHANGED <<serverQueue, sigchld, child>>

ServerFork ==
    /\ ServerAt("fork", "receive")
    /\ child' = [child EXCEPT ![request] = "open"]
    /\ UNCHANGED <<serverQueue, requests, request, sigchld>>

ServerForkFails ==
    /\ ForkFails
    /\ ServerAt("fork", "remove")
    /\ UNCHANGED <<serverQueue, requests, request, sigchld, child>>

\* IPC_RMID discards the requests that are still in the queue.
ServerRemove ==
    /\ ServerAt("remove", "done")
    /\ serverQueue' = FALSE
    /\ requests' = << >>
    /\ UNCHANGED <<request, sigchld, child>>

\* The handler interrupts main() anywhere; msgrcv() then fails with EINTR
\* and is called again.
HandlerStart ==
    /\ sigchld /\ ~inHandler /\ spc # "done"
    /\ sigchld' = FALSE /\ inHandler' = TRUE
    /\ UNCHANGED <<spc, serverQueue, requests, request, children, client, queues, responses>>

Zombies == {c \in Clients : child[c] = "zombie"}

MutReapOnce ==
    /\ inHandler
    /\ \E c \in Zombies : child' = [child EXCEPT ![c] = "reaped"]
    /\ inHandler' = FALSE
    /\ UNCHANGED <<spc, serverQueue, requests, request, sigchld, sent, readError, client,
                   queues, responses>>

\* waitpid(-1, NULL, WNOHANG) returns a child.
HandlerReap ==
    /\ inHandler
    /\ \E c \in Zombies : child' = [child EXCEPT ![c] = "reaped"]
    /\ UNCHANGED <<server, requests, sigchld, sent, readError, client, queues, responses>>

HandlerReturn ==
    /\ inHandler /\ Zombies = {}
    /\ inHandler' = FALSE
    /\ UNCHANGED <<spc, serverQueue, requests, request, sigchld, children, client, queues,
                   responses>>

ServerNext ==
    \/ ServerMsgget \/ ServerReceive \/ ServerFork \/ ServerRemove
    \/ HandlerStart \/ HandlerReap \/ HandlerReturn

-----------------------------------------------------------------------------
(* svmsg_file_server.c: serveRequest(), in the child *)

\* One SIGCHLD is pending however many children end.
ChildAt(c, here, next) ==
    /\ child[c] = here
    /\ child' = [child EXCEPT ![c] = next]
    /\ sigchld' = (sigchld \/ next = "zombie")
    /\ UNCHANGED <<server, requests, client, queues>>

\* msgsnd() to the client: waits for room, fails once the queue is removed.
CanSend(c) == c \in queues => Len(responses[c]) < ResponseCap

msgsnd(c, m) ==
    responses' = IF c \in queues THEN [responses EXCEPT ![c] = Append(@, m)] ELSE responses

ChildOpen(c) ==
    /\ file[c] # Missing
    /\ ChildAt(c, "open", "read")
    /\ UNCHANGED <<sent, readError, responses>>

ChildOpenFails(c) ==
    /\ file[c] = Missing
    /\ ChildAt(c, "open", "zombie")
    /\ CanSend(c) /\ msgsnd(c, "FAILURE")
    /\ UNCHANGED <<sent, readError>>

ChildRead(c) ==
    /\ file[c] # Missing
    /\ ChildAt(c, "read", IF sent[c] < file[c] THEN "send" ELSE "end")
    /\ UNCHANGED <<sent, readError, responses>>

\* read() fails: that is logged, and the end message is sent all the same.
ChildReadError(c) ==
    /\ ChildAt(c, "read", "end")
    /\ readError' = readError \cup {c}
    /\ UNCHANGED <<sent, responses>>

MutSendNoWait(c) ==
    /\ ChildAt(c, "send", "read")
    /\ IF CanSend(c) THEN msgsnd(c, "DATA") ELSE UNCHANGED responses
    /\ sent' = [sent EXCEPT ![c] = @ + 1]
    /\ UNCHANGED readError

ChildSend(c) ==
    /\ ChildAt(c, "send", IF c \in queues THEN "read" ELSE "end")
    /\ CanSend(c) /\ msgsnd(c, "DATA")
    /\ sent' = [sent EXCEPT ![c] = @ + 1]
    /\ UNCHANGED readError

ChildEnd(c) ==
    /\ ChildAt(c, "end", "zombie")
    /\ CanSend(c) /\ msgsnd(c, "END")
    /\ UNCHANGED <<sent, readError>>

ChildNext(c) ==
    \/ ChildOpen(c) \/ ChildOpenFails(c) \/ ChildRead(c) \/ ChildSend(c) \/ ChildEnd(c)

-----------------------------------------------------------------------------
Next ==
    \/ ServerNext \/ ServerForkFails
    \/ \E c \in Clients : ClientNext(c) \/ Kill(c) \/ ChildNext(c) \/ ChildReadError(c)

Spec == Init /\ [][Next]_vars

\* The kernel runs the server, its children and the clients.
Fairness ==
    /\ WF_vars(ServerNext)
    /\ \A c \in Clients : WF_vars(ClientNext(c)) /\ WF_vars(ChildNext(c))

FairSpec == Spec /\ Fairness

-----------------------------------------------------------------------------
TypeOK ==
    /\ spc \in {"msgget", "receive", "fork", "remove", "done"}
    /\ {serverQueue, sigchld, inHandler} \subseteq BOOLEAN
    /\ requests \in Seq(Clients) /\ Len(requests) <= RequestCap
    /\ request \in Clients \cup {None}
    /\ child \in [Clients -> {"none", "open", "read", "send", "end", "zombie", "reaped"}]
    /\ {sent, numMsgs, blocks} \subseteq [Clients -> Nat]
    /\ cpc \in [Clients -> {"msgget", "send", "receive", "exit", "done"}]
    /\ file \in [Clients -> Files]
    /\ {readError, queues, killed} \subseteq SUBSET Clients
    /\ \A c \in Clients : /\ responses[c] \in Seq({"FAILURE", "DATA", "END"})
                          /\ Len(responses[c]) <= ResponseCap
    /\ outcome \in [Clients -> {None, "received", "refused", "failed"}]

\* A client that reports success received every block of its file and one
\* end message, unless the child met a read error; a missing file is refused.
WholeFile ==
    \A c \in Clients :
        /\ outcome[c] = "refused" => file[c] = Missing
        /\ outcome[c] = "received" =>
             /\ file[c] # Missing
             /\ numMsgs[c] = blocks[c] + 1
             /\ c \notin readError => blocks[c] = file[c]

\* A child that ended is never forgotten, though several SIGCHLDs become one:
\* while there is a zombie the signal is pending or the handler is running.
ZombiesNoticed == Zombies # {} /\ spc # "done" => sigchld \/ inHandler

\* A client that is not killed gets its answer whatever happens to others,
\* unless a failing fork() ended the server before the client's turn.
EveryClientAnswered ==
    \A c \in Clients :
        cpc[c] = "receive" ~>
            \/ outcome[c] # None \/ c \in killed
            \/ child[c] = "none" /\ spc \in {"remove", "done"}

\* Every child that ends is reaped, as long as the server runs.
EveryChildReaped ==
    \A c \in Clients : child[c] = "zombie" ~> (child[c] = "reaped" \/ spc = "done")
=============================================================================
