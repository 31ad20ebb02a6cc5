------------------------------ MODULE IsSeqnum ------------------------------
(***************************************************************************)
(* sockets/is_seqnum_sv.c and sockets/is_seqnum_cl.c: a sequence number    *)
(* server over TCP.  The server takes one connection at a time from the    *)
(* backlog, reads a request, answers with its counter, advances the        *)
(* counter and closes the connection.                                      *)
(*                                                                         *)
(* A client that is lost was killed or had its connection reset.  read()   *)
(* on the server does not check for end of file: a client that is lost     *)
(* before it wrote leaves `request' uninitialised.                         *)
(***************************************************************************)
EXTENDS Integers, Sequences

CONSTANTS Clients,      \* the client processes
          SeqLens,      \* the values clients pass as seq_length
          Uninit,       \* what an uninitialised int may hold
          None,         \* no number
          BACKLOG,      \* connections that may wait for accept()
          Losses        \* whether clients may be lost

VARIABLES spc,          \* the server's next statement
          backlog,      \* connections waiting for accept()
          conn,         \* the client of connectedSocketFd
          request,      \* the server's local variable
          seqNum,       \* the server's counter
          cpc,          \* each client's next statement
          seqLen,       \* the length each client asks for
          toServer,     \* the request in each connection, or None
          toClient,     \* the response in each connection, or None
          closed,       \* connections the server has closed
          printed,      \* what each client printed, or None
          lost,         \* the clients that are lost
          epoch,        \* history: uninitialised requests used so far
          epochOf       \* history: the epoch of the answer to each client

server == <<spc, conn, request, seqNum, closed, toClient, epoch, epochOf>>
client == <<cpc, seqLen, toServer, printed>>
vars == <<server, client, backlog, lost>>

Init ==
    /\ spc = "setup"
    /\ backlog = << >>
    /\ conn = None
    /\ request = None
    /\ seqNum = 0
    /\ cpc = [c \in Clients |-> "connect"]
    /\ seqLen \in [Clients -> SeqLens]
    /\ toServer = [c \in Clients |-> None]
    /\ toClient = [c \in Clients |-> None]
    /\ closed = {}
    /\ printed = [c \in Clients |-> None]
    /\ lost = {}
    /\ epoch = 0
    /\ epochOf = [c \in Clients |-> 0]

-----------------------------------------------------------------------------
(* is_seqnum_cl.c *)

ClientAt(c, here, next) ==
    /\ c \notin lost /\ cpc[c] = here
    /\ cpc' = [cpc EXCEPT ![c] = next]
    /\ UNCHANGED <<server, seqLen, lost>>

\* No address accepts the connection: nobody listens yet.
ClientConnectFails(c) ==
    /\ spc = "setup"
    /\ ClientAt(c, "connect", "done")
    /\ UNCHANGED <<backlog, toServer, printed>>

ClientConnect(c) ==
    /\ spc # "setup" /\ Len(backlog) < BACKLOG
    /\ ClientAt(c, "connect", "write")
    /\ backlog' = Append(backlog, c)
    /\ UNCHANGED <<toServer, printed>>

ClientWrite(c) ==
    /\ ClientAt(c, "write", "read")
    /\ toServer' = [toServer EXCEPT ![c] = seqLen[c]]
    /\ UNCHANGED <<backlog, printed>>

\* read() also returns at end of file, and the client then prints an
\* uninitialised response.
ClientRead(c) ==
    /\ toClient[c] # None \/ c \in closed
    /\ ClientAt(c, "read", "done")
    /\ \E response \in IF toClient[c] # None THEN {toClient[c]} ELSE Uninit :
         printed' = [printed EXCEPT ![c] = response]
    /\ UNCHANGED <<backlog, toServer>>

Lose(c) ==
    /\ Losses /\ c \notin lost /\ cpc[c] # "done"
    /\ lost' = lost \cup {c}
    /\ UNCHANGED <<server, client, backlog>>

ClientNext(c) ==
    ClientConnectFails(c) \/ ClientConnect(c) \/ ClientWrite(c) \/ ClientRead(c)

-----------------------------------------------------------------------------
(* is_seqnum_sv.c *)

ServerAt(here, next) ==
    /\ spc = here
    /\ spc' = next
    /\ UNCHANGED <<client, lost>>

\* Everything up to and including listen().
ServerListen ==
    /\ ServerAt("setup", "accept")
    /\ UNCHANGED <<conn, request, seqNum, closed, toClient, epoch, epochOf, backlog>>

ServerAccept ==
    /\ backlog # << >>
    /\ ServerAt("accept", "read")
    /\ conn' = Head(backlog)
    /\ backlog' = Tail(backlog)
    /\ UNCHANGED <<request, seqNum, closed, toClient, epoch, epochOf>>

\* accept() fails for a connection that is gone already; the loop continues.
ServerAcceptFails ==
    /\ backlog # << >> /\ Head(backlog) \in lost
    /\ ServerAt("accept", "accept")
    /\ backlog' = Tail(backlog)
    /\ UNCHANGED <<conn, request, seqNum, closed, toClient, epoch, epochOf>>

ServerRead ==
    /\ ServerAt("read", "write")
    /\ toServer[conn] # None
    /\ request' = toServer[conn]
    /\ UNCHANGED <<conn, seqNum, closed, toClient, epoch, epochOf, backlog>>

\* read() returns 0, which the code takes for a request.
ServerReadEof ==
    /\ ServerAt("read", "write")
    /\ toServer[conn] = None /\ conn \in lost
    /\ request' \in Uninit
    /\ epoch' = epoch + 1
    /\ UNCHANGED <<conn, seqNum, closed, toClient, epochOf, backlog>>

\* read() fails: close() and on to the next connection.
ServerReadFails ==
    /\ ServerAt("read", "accept")
    /\ conn \in lost
    /\ closed' = closed \cup {conn}
    /\ UNCHANGED <<conn, request, seqNum, toClient, epoch, epochOf, backlog>>

ServerWrite ==
    /\ ServerAt("write", "advance")
    /\ toClient' = [toClient EXCEPT ![conn] = seqNum]
    /\ epochOf' = [epochOf EXCEPT ![conn] = epoch]
    /\ UNCHANGED <<conn, request, seqNum, closed, epoch, backlog>>

\* SIGPIPE is ignored and the failure only reported: the counter advances.
ServerWriteFails ==
    /\ ServerAt("write", "advance")
    /\ conn \in lost
    /\ UNCHANGED <<conn, request, seqNum, closed, toClient, epoch, epochOf, backlog>>

MutAdvanceByOne ==
    /\ ServerAt("advance", "accept")
    /\ seqNum' = seqNum + 1
    /\ closed' = closed \cup {conn}
    /\ UNCHANGED <<conn, request, toClient, epoch, epochOf, backlog>>

\* seqNum += request, and close().
ServerAdvance ==
    /\ ServerAt("advance", "accept")
    /\ seqNum' = seqNum + request
    /\ closed' = closed \cup {conn}
    /\ UNCHANGED <<conn, request, toClient, epoch, epochOf, backlog>>

ServerNext ==
    \/ ServerListen \/ ServerAccept \/ ServerAcceptFails
    \/ ServerRead \/ ServerReadEof \/ ServerReadFails
    \/ ServerWrite \/ ServerWriteFails \/ ServerAdvance

-----------------------------------------------------------------------------
Next ==
    \/ ServerNext
    \/ \E c \in Clients : ClientNext(c) \/ Lose(c)

Spec == Init /\ [][Next]_vars

\* The kernel schedules the server and every client.
FairSpec ==
    /\ Spec
    /\ WF_vars(ServerNext)
    /\ \A c \in Clients : WF_vars(ClientNext(c))

-----------------------------------------------------------------------------
(***************************************************************************)
(* The runs two clients print overlap only if the server took an           *)
(* uninitialised request between its answers to them: no other loss of a   *)
(* client, wherever it strikes, makes a number come twice.                 *)
(***************************************************************************)
RunsDisjointBetweenBadReads ==
    \A c, d \in Clients :
        c # d /\ printed[c] # None /\ printed[d] # None /\ epochOf[c] = epochOf[d] =>
            \/ printed[c] + seqLen[c] <= printed[d]
            \/ printed[d] + seqLen[d] <= printed[c]

\* A client that is connected and not lost gets its number, whichever other
\* clients are lost before, while or after the server handles them.
SurvivorsAnswered ==
    \A c \in Clients : cpc[c] = "write" ~> printed[c] # None \/ c \in lost

-----------------------------------------------------------------------------
\* The first number the server has not given away.
NextNum == IF spc = "advance" THEN seqNum + request ELSE seqNum

Alloc == INSTANCE SeqAllocator
    WITH next <- NextNum,
         start <- toClient,
         len <- seqLen

\* As long as no client is lost, server and clients do what the allocator of
\* fifo_seqnum does: each step hands the next run to one client, or none.
AllocatesUntilLoss ==
    Alloc!AllocInit /\ [][lost = {} => Alloc!AllocNext]_Alloc!allocVars
=============================================================================
