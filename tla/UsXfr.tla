------------------------------- MODULE UsXfr --------------------------------
(***************************************************************************)
(* sockets/us_xfr_sv.c and sockets/us_xfr_cl.c: clients copy their         *)
(* standard input to a UNIX domain stream socket, and an iterative server  *)
(* copies one connection after the other to its standard output.  The      *)
(* server listens before the first client connects.                        *)
(*                                                                         *)
(* Byte k of a client's input is the number k; 0 is a byte of the buffer   *)
(* that nothing was read into.  The client hands write() the whole buffer, *)
(* whatever read() returned.                                               *)
(***************************************************************************)
EXTENDS Integers, Sequences, SequencesExt

CONSTANTS Clients,      \* the client processes
          InputLens,    \* the possible lengths of a client's input
          BUFFER_SIZE,  \* bytes moved at once
          None          \* no connection

VARIABLES conn,         \* the connection the server copies, or None
          backlog,      \* the connections waiting for accept()
          sbuf,         \* the bytes the server has read and not written
          out,          \* the server's output: pairs of client and byte
          cpc,          \* each client's next statement
          input,        \* the length of each client's input
          nread,        \* bytes of it the client has read
          numBytes,     \* what the last read() returned
          buffer,       \* each client's buffer
          nwritten,     \* bytes the client has written to its socket
          stream        \* the bytes in each connection

server == <<conn, sbuf, out>>
client == <<cpc, input, nread, numBytes, buffer, nwritten>>
vars == <<server, client, backlog, stream>>

Init ==
    /\ conn = None
    /\ backlog = << >>
    /\ sbuf = << >>
    /\ out = << >>
    /\ cpc = [c \in Clients |-> "connect"]
    /\ input \in [Clients -> InputLens]
    /\ nread = [c \in Clients |-> 0]
    /\ numBytes = [c \in Clients |-> 0]
    /\ buffer = [c \in Clients |-> [j \in 1..BUFFER_SIZE |-> 0]]
    /\ nwritten = [c \in Clients |-> 0]
    /\ stream = [c \in Clients |-> << >>]

-----------------------------------------------------------------------------
(* us_xfr_cl.c *)

Connect(c) ==
    /\ cpc[c] = "connect"
    /\ cpc' = [cpc EXCEPT ![c] = "read"]
    /\ backlog' = Append(backlog, c)
    /\ UNCHANGED <<server, input, nread, numBytes, buffer, nwritten, stream>>

\* read() may return less than it was asked for.
Read(c) ==
    /\ cpc[c] = "read"
    /\ \E n \in 1..BUFFER_SIZE :
         /\ n <= input[c] - nread[c]
         /\ numBytes' = [numBytes EXCEPT ![c] = n]
         /\ nread' = [nread EXCEPT ![c] = @ + n]
         /\ buffer' = [buffer EXCEPT ![c] =
                         [j \in 1..BUFFER_SIZE |-> IF j <= n THEN nread[c] + j ELSE @[j]]]
    /\ cpc' = [cpc EXCEPT ![c] = "write"]
    /\ UNCHANGED <<server, backlog, input, nwritten, stream>>

\* write() takes BUFFER_SIZE bytes; fewer read than that is reported as a
\* failure, and the client exits.
Write(c) ==
    /\ cpc[c] = "write"
    /\ stream' = [stream EXCEPT ![c] = @ \o buffer[c]]
    /\ nwritten' = [nwritten EXCEPT ![c] = @ + BUFFER_SIZE]
    /\ cpc' = [cpc EXCEPT ![c] = IF numBytes[c] = BUFFER_SIZE THEN "read" ELSE "failed"]
    /\ UNCHANGED <<server, backlog, input, nread, numBytes, buffer>>

Close(c) ==
    /\ cpc[c] = "read" /\ nread[c] = input[c]
    /\ cpc' = [cpc EXCEPT ![c] = "done"]
    /\ UNCHANGED <<server, backlog, input, nread, numBytes, buffer, nwritten, stream>>

ClientNext(c) == Connect(c) \/ Read(c) \/ Write(c) \/ Close(c)

-----------------------------------------------------------------------------
(* us_xfr_sv.c *)

MutAcceptAnyTime ==
    /\ backlog # << >> /\ sbuf = << >>
    /\ conn' = Head(backlog)
    /\ backlog' = IF conn = None THEN Tail(backlog) ELSE Append(Tail(backlog), conn)
    /\ UNCHANGED <<sbuf, out, client, stream>>

Accept ==
    /\ conn = None /\ backlog # << >>
    /\ conn' = Head(backlog)
    /\ backlog' = Tail(backlog)
    /\ UNCHANGED <<sbuf, out, client, stream>>

ServerRead ==
    /\ conn # None /\ sbuf = << >>
    /\ \E n \in 1..BUFFER_SIZE :
         /\ n <= Len(stream[conn])
         /\ sbuf' = SubSeq(stream[conn], 1, n)
         /\ stream' = [stream EXCEPT ![conn] = SubSeq(@, n + 1, Len(@))]
    /\ UNCHANGED <<conn, out, client, backlog>>

ServerWrite ==
    /\ sbuf # << >>
    /\ out' = out \o [k \in 1..Len(sbuf) |-> <<conn, sbuf[k]>>]
    /\ sbuf' = << >>
    /\ UNCHANGED <<conn, client, backlog, stream>>

\* read() returns 0: the client has ended and everything was read.
ServerEof ==
    /\ conn # None /\ sbuf = << >>
    /\ cpc[conn] \in {"done", "failed"} /\ stream[conn] = << >>
    /\ conn' = None
    /\ UNCHANGED <<sbuf, out, client, backlog, stream>>

ServerNext == Accept \/ ServerRead \/ ServerWrite \/ ServerEof

-----------------------------------------------------------------------------
Next == ServerNext \/ \E c \in Clients : ClientNext(c)

Spec == Init /\ [][Next]_vars

\* The kernel schedules the server and every client.
FairSpec ==
    /\ Spec
    /\ WF_vars(ServerNext)
    /\ \A c \in Clients : WF_vars(ClientNext(c))

-----------------------------------------------------------------------------
Bytes == Nat

TypeOK ==
    /\ conn \in Clients \cup {None}
    /\ backlog \in Seq(Clients)
    /\ sbuf \in Seq(Bytes) /\ Len(sbuf) <= BUFFER_SIZE
    /\ out \in Seq(Clients \X Bytes)
    /\ cpc \in [Clients -> {"connect", "read", "write", "failed", "done"}]
    /\ input \in [Clients -> InputLens]
    /\ \A c \in Clients : nread[c] \in 0..input[c]
    /\ numBytes \in [Clients -> 0..BUFFER_SIZE]
    /\ buffer \in [Clients -> [1..BUFFER_SIZE -> Bytes]]
    /\ nwritten \in [Clients -> Nat]
    /\ stream \in [Clients -> Seq(Bytes)]

\* What the server has printed of client c's connection.
OutputOf(c) == SelectSeq(out, LAMBDA p : p[1] = c)

\* The output of one connection is never split by that of another.
OutputNotMixed ==
    \A a, b, d \in DOMAIN out :
        a < b /\ b < d /\ out[a][1] = out[d][1] => out[b][1] = out[a][1]

\* What comes out of a connection is the client's input from its beginning:
\* the surplus bytes come after all the client has read, and never as many
\* as a whole buffer.
InputComesFirst ==
    \A c \in Clients :
        LET o == OutputOf(c)
        IN /\ \A k \in DOMAIN o : k <= nread[c] => o[k][2] = k
           /\ Len(o) < nread[c] + BUFFER_SIZE

\* Everything a client wrote to its socket is printed in the end.
EverythingPrinted ==
    \A c \in Clients :
        cpc[c] \in {"done", "failed"} ~> Len(OutputOf(c)) = nwritten[c]

\* The message of us_xfr_cl.c:41, "Failed to write() %ld bytes": the client
\* gives up only when the socket did not take the bytes it had read.
FailsOnlyOnShortWrite ==
    \A c \in Clients : cpc[c] = "failed" => nwritten[c] < nread[c]
=============================================================================
