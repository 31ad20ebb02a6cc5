------------------------------ MODULE MCSockets ------------------------------
(***************************************************************************)
(* The datagram servers ud_case and i6d_ucase and the stream servers       *)
(* us_xfr and is_seqnum with their clients, on small instances.  `program' *)
(* names the one that was started.  The two datagram programs are          *)
(* instances of one module and use the same variables; the others have     *)
(* their own.                                                              *)
(***************************************************************************)
EXTENDS DgramUcase

CONSTANTS None,
          IsClients     \* the clients of is_seqnum

\* A short, an empty and an oversized argument.
UnixLens == <<1, 0, 3>>
UdpLens == <<1, 3>>

\* An uninitialised request moves the counter back, leaves it or moves it forward.
IsUninit == {-1, 0, 2}

\* The clients are interchangeable: one of them asks for more numbers, or all but one.
IsLens ==
    {[c \in IsClients |-> IF c = one THEN n ELSE 3 - n] :
         one \in {CHOOSE c \in IsClients : TRUE}, n \in {1, 2}}

VARIABLES program,
          conn, backlog, sbuf, xfrOut, xfrCpc, input, nread, numBytes, xfrBuffer,
          nwritten, stream,
          isSpc, isBacklog, isConn, request, seqNum, isCpc, seqLen, isToServer, isToClient,
          closed, printed, lost, epoch, epochOf

Udp == INSTANCE DgramUcase
    WITH Lens <- UdpLens, Unix <- FALSE, MaxFaults <- 2

Xfr == INSTANCE UsXfr
    WITH InputLens <- {0, 3, 5}, BUFFER_SIZE <- 2,
         out <- xfrOut, cpc <- xfrCpc, buffer <- xfrBuffer

Is == INSTANCE IsSeqnum
    WITH Clients <- IsClients, SeqLens <- {1, 2}, Uninit <- IsUninit, BACKLOG <- 2,
         Losses <- TRUE, spc <- isSpc, backlog <- isBacklog, conn <- isConn, cpc <- isCpc,
         toServer <- isToServer, toClient <- isToClient

xfrVars == <<conn, backlog, sbuf, xfrOut, xfrCpc, input, nread, numBytes, xfrBuffer,
             nwritten, stream>>
isVars == <<isSpc, isBacklog, isConn, request, seqNum, isCpc, seqLen, isToServer, isToClient,
            closed, printed, lost, epoch, epochOf>>
mcVars == <<program, vars, xfrVars, isVars>>

MCInit ==
    /\ program \in {"ud_case", "i6d_ucase", "us_xfr", "is_seqnum"}
    /\ IF program = "i6d_ucase" THEN Udp!Init ELSE Init
    /\ Xfr!Init /\ Is!Init
    /\ program # "us_xfr" => input = [c \in Clients |-> 0]
    /\ seqLen \in IF program = "is_seqnum" THEN IsLens ELSE {[c \in IsClients |-> 1]}

UnixDgram == program = "ud_case" /\ UNCHANGED <<program, xfrVars, isVars>>
UdpDgram == program = "i6d_ucase" /\ UNCHANGED <<program, xfrVars, isVars>>
Stream == program = "us_xfr" /\ UNCHANGED <<program, vars, isVars>>
Numbers == program = "is_seqnum" /\ UNCHANGED <<program, vars, xfrVars>>

MCNext ==
    \/ UnixDgram /\ (ServerNext \/ \E c \in Clients : ClientNext(c) \/ Kill(c))
    \/ UdpDgram /\ Udp!Next
    \/ Stream /\ Xfr!Next
    \/ Numbers /\ Is!Next

\* The fairness of each program, while it is the one that runs.
MCSpec ==
    /\ MCInit /\ [][MCNext]_mcVars
    /\ WF_mcVars(UnixDgram /\ ServerNext)
    /\ \A c \in Clients : WF_mcVars(UnixDgram /\ ClientNext(c))
    /\ WF_mcVars(UdpDgram /\ Udp!ServerNext)
    /\ \A c \in Clients : WF_mcVars(UdpDgram /\ Udp!ClientNext(c))
    /\ WF_mcVars(Stream /\ Xfr!ServerNext)
    /\ \A c \in Clients : WF_mcVars(Stream /\ Xfr!ClientNext(c))
    /\ WF_mcVars(Numbers /\ Is!ServerNext)
    /\ \A c \in IsClients : WF_mcVars(Numbers /\ Is!ClientNext(c))

\* Unless the network repeated one of its datagrams, what a client prints as
\* answer k is the beginning of its own argument k (ud_case_cl.c:52,
\* i6d_ucase_cl.c:45), whatever is lost or killed.
DgramAnswersInStep ==
    /\ program = "ud_case" => AnswersInStep
    /\ program = "i6d_ucase" => Udp!AnswersInStep

\* us_xfr_sv.c prints the connections one after the other, each from its
\* client's first byte on.
StreamsPrintedWhole == Xfr!OutputNotMixed /\ Xfr!InputComesFirst

\* is_seqnum_sv.c: the runs two clients print overlap only if the server took an
\* uninitialised request between its answers to them: no other loss of a client,
\* wherever it strikes, makes a number come twice.
RunsDisjointBetweenBadReads == Is!RunsDisjointBetweenBadReads

\* No datagram client waits for ever without a loss or a kill, everything
\* written to a stream is printed, and a client of is_seqnum that is not lost
\* gets its number.
EverythingAnswered ==
    /\ program = "ud_case" => EveryWaitEnds
    /\ program = "i6d_ucase" => Udp!EveryWaitEnds
    /\ program = "us_xfr" => Xfr!EverythingPrinted
    /\ program = "is_seqnum" => Is!SurvivorsAnswered

\* is_seqnum_sv.c:121: as long as no client is lost, server and clients do what
\* the allocator of fifo_seqnum does: each step hands the next run to one client,
\* or none.
AllocatesUntilLoss == Is!AllocatesUntilLoss
=============================================================================
