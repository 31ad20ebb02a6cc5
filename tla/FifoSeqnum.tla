----------------------------- MODULE FifoSeqnum -----------------------------
(***************************************************************************)
(* pipes/fifo_seqnum_server.c and pipes/fifo_seqnum_client.c: clients send *)
(* requests through the server's FIFO, and the server answers each through *)
(* a FIFO the client made and removes again.  The server is iterative: it  *)
(* serves the request it has read to its end before it reads the next.     *)
(*                                                                         *)
(* open() of a FIFO waits for the other side to open it too.  A process    *)
(* that is inside such an open() already counts for the other side.        *)
(*                                                                         *)
(* Every client has a process id of its own; the server is not stopped.    *)
(***************************************************************************)
EXTENDS Integers, Sequences, FiniteSets

CONSTANTS Clients,      \* the client processes, named by their process ids
          SeqLens,      \* the values clients pass in Request.seqLen
          None,         \* no sequence number
          MaxFds,       \* client descriptors the server may have open at once
          Kills         \* whether clients may be killed

ASSUME FifoAssumption ==
    /\ SeqLens \subseteq Nat \ {0}
    /\ None \notin Int
    /\ MaxFds \in Nat \ {0}
    /\ Kills \in BOOLEAN

VARIABLES spc,          \* the server's next statement
          serverFifo,   \* SERVER_FIFO exists
          requests,     \* the contents of SERVER_FIFO
          request,      \* the process id in the request being served
          seqNum,       \* the server's counter
          leaked,       \* descriptors left open by the failed-write path
          cpc,          \* each client's next statement
          seqLen,       \* the length each client asks for
          fifo,         \* the clients whose FIFO exists
          inbox,        \* the response in each client's FIFO, or None
          printed,      \* what each client printed, or None
          killed,       \* the clients ended by a signal
          granted       \* history: the number written for each client, or None

server == <<spc, serverFifo, requests, request, seqNum, leaked>>
client == <<cpc, seqLen, fifo, printed, killed>>
vars == <<server, client, inbox, granted>>

Init ==
    /\ spc = "mkfifo"
    /\ serverFifo \in BOOLEAN      \* an earlier server leaves it behind
    /\ requests = << >>
    /\ request = None
    /\ seqNum = 0
    /\ leaked = 0
    /\ cpc = [c \in Clients |-> "mkfifo"]
    /\ seqLen \in [Clients -> SeqLens]
    /\ fifo = {}
    /\ inbox = [c \in Clients |-> None]
    /\ printed = [c \in Clients |-> None]
    /\ killed = {}
    /\ granted = [c \in Clients |-> None]

-----------------------------------------------------------------------------
(* fifo_seqnum_client.c *)

ClientAt(c, here, next) ==
    /\ c \notin killed
    /\ cpc[c] = here
    /\ cpc' = [cpc EXCEPT ![c] = next]
    /\ UNCHANGED <<spc, serverFifo, request, seqNum, leaked, seqLen, killed, granted>>

ClientMkfifo(c) ==
    /\ ClientAt(c, "mkfifo", "openServer")
    /\ fifo' = fifo \cup {c}
    /\ UNCHANGED <<requests, inbox, printed>>

\* SERVER_FIFO does not exist: exit() runs removeClientFifo().
ClientNoServer(c) ==
    /\ ~serverFifo
    /\ ClientAt(c, "openServer", "done")
    /\ fifo' = fifo \ {c}
    /\ UNCHANGED <<requests, inbox, printed>>

ClientOpenServer(c) ==
    /\ serverFifo
    /\ spc # "mkfifo"
    /\ ClientAt(c, "openServer", "write")
    /\ UNCHANGED <<requests, fifo, inbox, printed>>

\* The request is far below PIPE_BUF, so it is written in one piece.
ClientWrite(c) ==
    /\ ClientAt(c, "write", "read")
    /\ requests' = Append(requests, c)
    /\ UNCHANGED <<fifo, inbox, printed>>

\* open() of its own FIFO has met the server's and the response is there.
ClientRead(c) ==
    /\ inbox[c] # None
    /\ ClientAt(c, "read", "exit")
    /\ printed' = [printed EXCEPT ![c] = inbox[c]]
    /\ inbox' = [inbox EXCEPT ![c] = None]
    /\ UNCHANGED <<requests, fifo>>

removeClientFifo(c) ==
    /\ ClientAt(c, "exit", "done")
    /\ fifo' = fifo \ {c}
    /\ UNCHANGED <<requests, inbox, printed>>

\* A signal ends the client; atexit() handlers do not run and its FIFO stays.
Kill(c) ==
    /\ Kills
    /\ cpc[c] # "done"
    /\ c \notin killed
    /\ killed' = killed \cup {c}
    /\ UNCHANGED <<server, cpc, seqLen, fifo, inbox, printed, granted>>

ClientNext(c) ==
    \/ ClientMkfifo(c) \/ ClientNoServer(c) \/ ClientOpenServer(c)
    \/ ClientWrite(c) \/ ClientRead(c) \/ removeClientFifo(c)

-----------------------------------------------------------------------------
(* fifo_seqnum_server.c *)

ServerAt(here, next) ==
    /\ spc = here
    /\ spc' = next
    /\ UNCHANGED client

ServerMkfifo ==
    /\ ServerAt("mkfifo", "openRead")
    /\ serverFifo' = TRUE
    /\ UNCHANGED <<requests, request, seqNum, leaked, inbox, granted>>

\* open(O_RDONLY) returns once a client has opened SERVER_FIFO for writing.
\* The server's own O_WRONLY descriptor then keeps read() from meeting EOF.
ServerOpenFifo ==
    /\ \E c \in Clients : cpc[c] \in {"write", "read", "exit"}
    /\ ServerAt("openRead", "read")
    /\ UNCHANGED <<serverFifo, requests, request, seqNum, leaked, inbox, granted>>

MutReadSwallowsAll ==
    /\ requests # << >>
    /\ ServerAt("read", "open")
    /\ request' = Head(requests)
    /\ requests' = << >>
    /\ UNCHANGED <<serverFifo, seqNum, leaked, inbox, granted>>

ServerRead ==
    /\ requests # << >>
    /\ ServerAt("read", "open")
    /\ request' = Head(requests)
    /\ requests' = Tail(requests)
    /\ UNCHANGED <<serverFifo, seqNum, leaked, inbox, granted>>

\* A client at "read" is inside open(O_RDONLY) or past it.
HasReader(c) == c \notin killed /\ cpc[c] = "read"

\* open(O_WRONLY) waits until the client has opened its FIFO for reading.
ServerOpen ==
    /\ leaked < MaxFds
    /\ ServerAt("open", "respond")
    /\ HasReader(request)
    /\ UNCHANGED <<serverFifo, requests, request, seqNum, leaked, inbox, granted>>

\* No descriptor is left: the request is dropped and the loop continues.
ServerOpenFails ==
    /\ leaked = MaxFds
    /\ ServerAt("open", "read")
    /\ UNCHANGED <<serverFifo, requests, request, seqNum, leaked, inbox, granted>>

MutRespondNoAdvance ==
    /\ ServerAt("respond", "read")
    /\ HasReader(request)
    /\ inbox' = [inbox EXCEPT ![request] = seqNum]
    /\ granted' = [granted EXCEPT ![request] = seqNum]
    /\ UNCHANGED <<serverFifo, requests, request, seqNum, leaked>>

ServerRespond ==
    /\ ServerAt("respond", "advance")
    /\ HasReader(request)
    /\ inbox' = [inbox EXCEPT ![request] = seqNum]
    /\ granted' = [granted EXCEPT ![request] = seqNum]
    /\ UNCHANGED <<serverFifo, requests, request, seqNum, leaked>>

\* write() fails with EPIPE: the loop continues without close().
ServerRespondFails ==
    /\ ServerAt("respond", "read")
    /\ ~HasReader(request)
    /\ leaked' = leaked + 1
    /\ UNCHANGED <<serverFifo, requests, request, seqNum, inbox, granted>>

ServerAdvance ==
    /\ ServerAt("advance", "read")
    /\ seqNum' = seqNum + seqLen[request]
    /\ UNCHANGED <<serverFifo, requests, request, leaked, inbox, granted>>

ServerNext ==
    \/ ServerMkfifo \/ ServerOpenFifo \/ ServerRead
    \/ ServerOpen \/ ServerOpenFails
    \/ ServerRespond \/ ServerRespondFails \/ ServerAdvance

-----------------------------------------------------------------------------
Next ==
    \/ ServerNext
    \/ \E c \in Clients : ClientNext(c) \/ Kill(c)

Spec == Init /\ [][Next]_vars

\* The kernel schedules the server and every client.
Fairness ==
    /\ WF_vars(ServerNext)
    /\ \A c \in Clients : WF_vars(ClientNext(c))

FairSpec == Spec /\ Fairness

-----------------------------------------------------------------------------
TypeOK ==
    /\ spc \in {"mkfifo", "openRead", "read", "open", "respond", "advance"}
    /\ serverFifo \in BOOLEAN
    /\ requests \in Seq(Clients)
    /\ request \in Clients \cup {None}
    /\ seqNum \in Nat
    /\ leaked \in 0..MaxFds
    /\ cpc \in [Clients -> {"mkfifo", "openServer", "write", "read", "exit", "done"}]
    /\ seqLen \in [Clients -> SeqLens]
    /\ fifo \in SUBSET Clients
    /\ inbox \in [Clients -> Nat \cup {None}]
    /\ printed \in [Clients -> Nat \cup {None}]
    /\ killed \in SUBSET Clients
    /\ granted \in [Clients -> Nat \cup {None}]

(***************************************************************************)
(* The runs of numbers two clients print never overlap, whichever clients  *)
(* are killed while the server opens, writes to or advances past them.     *)
(***************************************************************************)
PrintedRunsDisjoint ==
    \A c, d \in Clients :
        c # d /\ printed[c] # None /\ printed[d] # None =>
            \/ printed[c] + seqLen[c] <= printed[d]
            \/ printed[d] + seqLen[d] <= printed[c]

Waiting(c) == c \notin killed /\ cpc[c] = "read" /\ granted[c] = None

Pending(c) ==
    \/ \E i \in 1..Len(requests) : requests[i] = c
    \/ request = c /\ spc \in {"open", "respond"}

\* The server forgets a live client's request only when its descriptors are
\* used up (fifo_seqnum_server.c:50, :60 continue without an answer).
DroppedOnlyOutOfFds ==
    \A c \in Clients : Waiting(c) /\ ~Pending(c) => leaked = MaxFds

\* Open(O_WRONLY) at fifo_seqnum_server.c:49 waits for a reader that is dead.
StuckInOpen == spc = "open" /\ request \in killed /\ leaked < MaxFds

\* A client that reached the server prints a number unless it is killed, the
\* server runs out of descriptors, or a killed client leaves the server in
\* open() for ever: no other interleaving starves a request.
EveryRequestAnswered ==
    \A c \in Clients :
        cpc[c] = "write" ~>
            \/ printed[c] # None
            \/ c \in killed
            \/ leaked = MaxFds
            \/ [](StuckInOpen)

-----------------------------------------------------------------------------
(* The strengthening that makes PrintedRunsDisjoint inductive. *)

\* The first number the server has not given away.
NextNum == IF spc = "advance" THEN seqNum + seqLen[request] ELSE seqNum

\* A client that asked and was not answered yet is in one place of the queue.
Unanswered(c) == cpc[c] = "read" /\ granted[c] = None

Allocation ==
    /\ spc \in {"open", "respond", "advance"} => request \in Clients
    /\ spc = "respond" => leaked < MaxFds
    /\ \A c \in Clients :
         /\ inbox[c] # None => inbox[c] = granted[c]
         /\ printed[c] # None => printed[c] = granted[c]
         /\ granted[c] # None => granted[c] + seqLen[c] <= NextNum
         /\ cpc[c] \in {"mkfifo", "openServer", "write"} => granted[c] = None
    /\ \A c, d \in Clients :
         c # d /\ granted[c] # None /\ granted[d] # None =>
             \/ granted[c] + seqLen[c] <= granted[d]
             \/ granted[d] + seqLen[d] <= granted[c]
    /\ \A i \in 1..Len(requests) : Unanswered(requests[i])
    /\ \A i, j \in 1..Len(requests) : requests[i] = requests[j] => i = j
    /\ spc \in {"open", "respond"} =>
         /\ Unanswered(request)
         /\ \A i \in 1..Len(requests) : requests[i] # request

IInv == TypeOK /\ Allocation

-----------------------------------------------------------------------------
Alloc == INSTANCE SeqAllocator
    WITH next <- NextNum,
         start <- granted,
         len <- seqLen

\* Server and clients implement the sequence number allocator.
ImplementsAllocator == Alloc!AllocSpec
=============================================================================
