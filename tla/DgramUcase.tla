----------------------------- MODULE DgramUcase -----------------------------
(***************************************************************************)
(* sockets/ud_case_sv.c and ud_case_cl.c (UNIX domain datagrams, Unix =    *)
(* TRUE) and sockets/i6d_ucase_sv.c and i6d_ucase_cl.c (IPv6 UDP, Unix =   *)
(* FALSE): clients send their arguments one by one to a server that sends  *)
(* each back in upper case.  Neither client matches an answer with the     *)
(* message it sent: the next datagram to arrive is the answer.             *)
(*                                                                         *)
(* A datagram is [from, idx, len]: the client, the argument it carries and *)
(* the number of bytes of it.  UNIX domain datagrams arrive in order and   *)
(* sendto() reports a missing receiver; UDP loses, repeats and reorders.   *)
(***************************************************************************)
EXTENDS Integers, Sequences, SequencesExt

CONSTANTS Clients,      \* the client processes
          Lens,         \* the length of each argument
          BUFFER_SIZE,  \* bytes either side can receive
          Unix,         \* UNIX domain sockets, or UDP
          Kills,        \* whether clients may be killed
          MaxFaults     \* datagrams the network may lose or repeat

ASSUME DgramAssumption ==
    /\ Lens \in Seq(Nat)
    /\ BUFFER_SIZE \in Nat \ {0}
    /\ Unix \in BOOLEAN /\ Kills \in BOOLEAN
    /\ MaxFaults \in Nat

VARIABLES spc,          \* the server's next statement
          toServer,     \* datagrams on their way to the server
          buffer,       \* the datagram the server handles
          cpc,          \* each client's next statement
          i,            \* the argument each client is at
          toClient,     \* datagrams on their way to each client
          out,          \* the answers each client printed
          dead,         \* the clients that were killed
          lossy,        \* history: clients that a datagram was lost for
          repeated,     \* history: clients that a datagram was repeated for
          faults        \* the number of network faults

server == <<spc, buffer>>
client == <<cpc, i, out, dead>>
net == <<toServer, toClient>>
history == <<lossy, repeated, faults>>
vars == <<server, client, net, history>>

Datagram == [from : Clients, idx : DOMAIN Lens, len : Nat]

\* What recvfrom() keeps of a datagram.
Received(d) == [d EXCEPT !.len = IF d.len > BUFFER_SIZE THEN BUFFER_SIZE ELSE d.len]

\* Which datagram of a socket's queue recvfrom() may return.
Deliverable(q) == IF Unix THEN {k \in {1} : q # << >>} ELSE 1..Len(q)

Init ==
    /\ spc = "bind"
    /\ toServer = << >>
    /\ buffer = << >>
    /\ cpc = [c \in Clients |-> "send"]
    /\ i = [c \in Clients |-> 1]
    /\ toClient = [c \in Clients |-> << >>]
    /\ out = [c \in Clients |-> << >>]
    /\ dead = {}
    /\ lossy = {}
    /\ repeated = {}
    /\ faults = 0

-----------------------------------------------------------------------------
(* The clients *)

Bound == spc \in {"recv", "send"}

Message(c) == [from |-> c, idx |-> i[c], len |-> Lens[i[c]]]

MutSendTwice(c) ==
    /\ c \notin dead /\ cpc[c] = "send" /\ Bound
    /\ toServer' = toServer \o <<Message(c), Message(c)>>
    /\ cpc' = [cpc EXCEPT ![c] = "recv"]
    /\ UNCHANGED <<server, i, out, dead, toClient, history>>

ClientSend(c) ==
    /\ c \notin dead /\ cpc[c] = "send" /\ Bound
    /\ toServer' = Append(toServer, Message(c))
    /\ cpc' = [cpc EXCEPT ![c] = "recv"]
    /\ UNCHANGED <<server, i, out, dead, toClient, history>>

\* No server: sendto() fails and the client exits, or the datagram is lost.
ClientSendNowhere(c) ==
    /\ c \notin dead /\ cpc[c] = "send" /\ ~Bound
    /\ cpc' = [cpc EXCEPT ![c] = IF Unix THEN "done" ELSE "recv"]
    /\ lossy' = lossy \cup {c}
    /\ UNCHANGED <<server, i, out, dead, net, repeated, faults>>

ClientRecv(c) ==
    /\ c \notin dead /\ cpc[c] = "recv"
    /\ \E k \in Deliverable(toClient[c]) :
         /\ out' = [out EXCEPT ![c] = Append(@, Received(toClient[c][k]))]
         /\ toClient' = [toClient EXCEPT ![c] = RemoveAt(@, k)]
    /\ i' = [i EXCEPT ![c] = @ + 1]
    /\ cpc' = [cpc EXCEPT ![c] = IF i[c] = Len(Lens) THEN "done" ELSE "send"]
    /\ UNCHANGED <<server, dead, toServer, history>>

Kill(c) ==
    /\ Kills /\ c \notin dead /\ cpc[c] # "done"
    /\ dead' = dead \cup {c}
    /\ UNCHANGED <<server, cpc, i, out, net, history>>

ClientNext(c) == ClientSend(c) \/ ClientSendNowhere(c) \/ ClientRecv(c)

-----------------------------------------------------------------------------
(* The servers *)

ServerBind ==
    /\ spc = "bind"
    /\ spc' = "recv"
    /\ UNCHANGED <<buffer, client, net, history>>

ServerRecv ==
    /\ spc = "recv"
    /\ \E k \in Deliverable(toServer) :
         /\ buffer' = <<Received(toServer[k])>>
         /\ toServer' = RemoveAt(toServer, k)
    /\ spc' = "send"
    /\ UNCHANGED <<client, toClient, history>>

Gone(c) == c \in dead \/ cpc[c] = "done"

MutSendForgotten ==
    /\ spc = "send" /\ ~Gone(buffer[1].from)
    /\ spc' = "recv"
    /\ UNCHANGED <<buffer, client, net, history>>

\* toupper() on each byte, and sendto() the address recvfrom() gave.
ServerSend ==
    /\ spc = "send" /\ ~Gone(buffer[1].from)
    /\ toClient' = [toClient EXCEPT ![buffer[1].from] = Append(@, buffer[1])]
    /\ spc' = "recv"
    /\ UNCHANGED <<buffer, client, toServer, history>>

\* The client's socket is gone: a UNIX domain sendto() fails and the server
\* exits; UDP does not notice.
ServerSendNowhere ==
    /\ spc = "send" /\ Gone(buffer[1].from)
    /\ spc' = IF Unix THEN "exited" ELSE "recv"
    /\ UNCHANGED <<buffer, client, net, history>>

ServerNext == ServerBind \/ ServerRecv \/ ServerSend \/ ServerSendNowhere

-----------------------------------------------------------------------------
(* The network between UDP sockets *)

Fault == ~Unix /\ faults < MaxFaults /\ faults' = faults + 1

Lose ==
    /\ Fault
    /\ \/ \E k \in DOMAIN toServer :
            /\ toServer' = RemoveAt(toServer, k)
            /\ lossy' = lossy \cup {toServer[k].from}
            /\ UNCHANGED toClient
       \/ \E c \in Clients : \E k \in DOMAIN toClient[c] :
            /\ toClient' = [toClient EXCEPT ![c] = RemoveAt(@, k)]
            /\ lossy' = lossy \cup {c}
            /\ UNCHANGED toServer
    /\ UNCHANGED <<server, client, repeated>>

Repeat ==
    /\ Fault
    /\ \/ \E k \in DOMAIN toServer :
            /\ toServer' = Append(toServer, toServer[k])
            /\ repeated' = repeated \cup {toServer[k].from}
            /\ UNCHANGED toClient
       \/ \E c \in Clients : \E k \in DOMAIN toClient[c] :
            /\ toClient' = [toClient EXCEPT ![c] = Append(@, @[k])]
            /\ repeated' = repeated \cup {c}
            /\ UNCHANGED toServer
    /\ UNCHANGED <<server, client, lossy>>

-----------------------------------------------------------------------------
Next ==
    \/ ServerNext
    \/ \E c \in Clients : ClientNext(c) \/ Kill(c)
    \/ Lose \/ Repeat

Spec == Init /\ [][Next]_vars

\* The kernel schedules the server and every client; faults need not happen.
FairSpec ==
    /\ Spec
    /\ WF_vars(ServerNext)
    /\ \A c \in Clients : WF_vars(ClientNext(c))

-----------------------------------------------------------------------------
TypeOK ==
    /\ spc \in {"bind", "recv", "send", "exited"}
    /\ toServer \in Seq(Datagram)
    /\ buffer = << >> \/ buffer \in {<<d>> : d \in [from : Clients, idx : DOMAIN Lens, len : 0..BUFFER_SIZE]}
    /\ cpc \in [Clients -> {"send", "recv", "done"}]
    /\ i \in [Clients -> 1..(Len(Lens) + 1)]
    /\ toClient \in [Clients -> Seq(Datagram)]
    /\ out \in [Clients -> Seq(Datagram)]
    /\ dead \subseteq Clients /\ lossy \subseteq Clients /\ repeated \subseteq Clients
    /\ faults \in 0..MaxFaults

(***************************************************************************)
(* Unless the network repeated one of its own datagrams, what a client     *)
(* prints as answer k is the beginning of its own argument k, as much as   *)
(* BUFFER_SIZE bytes hold: losses, kills and faults of other clients never *)
(* put it out of step.                                                     *)
(***************************************************************************)
AnswersInStep ==
    \A c \in Clients \ repeated : \A k \in DOMAIN out[c] :
        out[c][k] = Received([from |-> c, idx |-> k, len |-> Lens[k]])

\* A client waits for ever only if one of its datagrams was lost or, with
\* UNIX domain sockets, a killed client took the server with it.
EveryWaitEnds ==
    \A c \in Clients :
        cpc[c] = "recv" ~>
            cpc[c] # "recv" \/ c \in dead \cup lossy \/ (Unix /\ dead # {})
=============================================================================
