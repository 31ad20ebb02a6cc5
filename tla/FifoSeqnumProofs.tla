-------------------------- MODULE FifoSeqnumProofs --------------------------
(***************************************************************************)
(* Proofs about fifo_seqnum_server.c and fifo_seqnum_client.c, for any set *)
(* of clients, any positive run lengths and any descriptor limit.          *)
(***************************************************************************)
EXTENDS FifoSeqnum, TLAPS

\* No number has been given, and no request made, when the programs start.
LEMMA InitInv == Init => IInv
<1> SUFFICES ASSUME Init PROVE IInv
    OBVIOUS
<1> USE FifoAssumption DEF Init
<1>1. serverFifo \in BOOLEAN
    BY Zenon
<1>2. TypeOK
    BY <1>1 DEF TypeOK
<1>3. Allocation
    BY DEF Allocation, NextNum
<1> QED
    BY <1>2, <1>3 DEF IInv

\* Every statement of the two programs keeps the state well typed.
LEMMA TypeStep == IInv /\ [Next]_vars => TypeOK'
<1> SUFFICES ASSUME IInv, [Next]_vars PROVE TypeOK'
    OBVIOUS
<1> USE FifoAssumption DEF IInv, TypeOK
<1>1. CASE UNCHANGED vars
    BY <1>1 DEF vars, server, client
<1>2. ASSUME NEW c \in Clients, ClientNext(c) PROVE TypeOK'
  <2>1. CASE ClientMkfifo(c)
    BY <2>1 DEF ClientMkfifo, ClientAt
  <2>2. CASE ClientNoServer(c)
    BY <2>2 DEF ClientNoServer, ClientAt
  <2>3. CASE ClientOpenServer(c)
    BY <2>3 DEF ClientOpenServer, ClientAt
  <2>4. CASE ClientWrite(c)
    BY <2>4 DEF ClientWrite, ClientAt
  <2>5. CASE ClientRead(c)
    BY <2>5 DEF ClientRead, ClientAt
  <2>6. CASE removeClientFifo(c)
    BY <2>6 DEF removeClientFifo, ClientAt
  <2> QED
    BY <1>2, <2>1, <2>2, <2>3, <2>4, <2>5, <2>6 DEF ClientNext
<1>3. ASSUME NEW c \in Clients, Kill(c) PROVE TypeOK'
    BY <1>3 DEF Kill, server
<1>4. CASE ServerNext
  <2> USE DEF ServerAt, client
  <2>1. CASE ServerMkfifo
    BY <2>1 DEF ServerMkfifo
  <2>2. CASE ServerOpenFifo
    BY <2>2 DEF ServerOpenFifo
  <2>3. CASE ServerRead
    BY <2>3 DEF ServerRead
  <2>4. CASE ServerOpen
    BY <2>4 DEF ServerOpen
  <2>5. CASE ServerOpenFails
    BY <2>5 DEF ServerOpenFails
  <2>6. CASE ServerRespond
    BY <2>6 DEF ServerRespond
  <2>7. CASE ServerRespondFails
    BY <2>7 DEF ServerRespondFails, Allocation
  <2>8. CASE ServerAdvance
    <3>1. request \in Clients /\ seqLen[request] \in Nat
        BY <2>8 DEF ServerAdvance, Allocation
    <3> QED
        BY <2>8, <3>1 DEF ServerAdvance
  <2> QED
    BY <1>4, <2>1, <2>2, <2>3, <2>4, <2>5, <2>6, <2>7, <2>8 DEF ServerNext
<1> QED
    BY <1>1, <1>2, <1>3, <1>4 DEF Next

\* A client's statements leave what the server handed out as it is; the
\* request it writes is its only one.
LEMMA ClientStep ==
    ASSUME IInv, NEW c \in Clients, ClientNext(c) PROVE Allocation'
<1> USE FifoAssumption DEF IInv, TypeOK, Allocation, NextNum, Unanswered
<1>1. CASE ClientMkfifo(c)
    BY <1>1 DEF ClientMkfifo, ClientAt
<1>2. CASE ClientNoServer(c)
    BY <1>2 DEF ClientNoServer, ClientAt
<1>3. CASE ClientOpenServer(c)
    BY <1>3 DEF ClientOpenServer, ClientAt
<1>4. CASE ClientWrite(c)
    BY <1>4 DEF ClientWrite, ClientAt
<1>5. CASE ClientRead(c)
    BY <1>5 DEF ClientRead, ClientAt
<1>6. CASE removeClientFifo(c)
    BY <1>6 DEF removeClientFifo, ClientAt
<1> QED
    BY <1>1, <1>2, <1>3, <1>4, <1>5, <1>6 DEF ClientNext

\* The server gives a client the first free number, once, and advances
\* past the client's run before it reads the next request.
LEMMA ServerStep ==
    ASSUME IInv, ServerNext PROVE Allocation'
<1> USE FifoAssumption DEF IInv, TypeOK, Allocation, NextNum, Unanswered, ServerAt, client
<1>1. CASE ServerMkfifo
    BY <1>1 DEF ServerMkfifo
<1>2. CASE ServerOpenFifo
    BY <1>2 DEF ServerOpenFifo
<1>3. CASE ServerRead
  <2>1. requests # << >> /\ request' = requests[1] /\ requests[1] \in Clients
    BY <1>3 DEF ServerRead
  <2>2. /\ Len(requests') = Len(requests) - 1
        /\ \A i \in 1..Len(requests') : requests'[i] = requests[i + 1]
    BY <1>3 DEF ServerRead
  <2>3. /\ \A i \in 1..Len(requests') : i + 1 \in 1..Len(requests) /\ i + 1 # 1
        /\ 1 \in 1..Len(requests)
    BY <2>1, <2>2
  <2>4. Unanswered(requests[1])
    BY <2>3
  <2>5. \A i \in 1..Len(requests') : requests'[i] # requests[1]
    BY <2>2, <2>3
  <2>6. \A i, j \in 1..Len(requests') : requests'[i] = requests'[j] => i = j
    BY <2>2, <2>3
  <2>7. \A i \in 1..Len(requests') : Unanswered(requests'[i])
    BY <2>2, <2>3
  <2> QED
    BY <1>3, <2>1, <2>4, <2>5, <2>6, <2>7 DEF ServerRead
<1>4. CASE ServerOpen
    BY <1>4 DEF ServerOpen
<1>5. CASE ServerOpenFails
    BY <1>5 DEF ServerOpenFails
<1>6. CASE ServerRespond
  <2>1. /\ spc = "respond" /\ spc' = "advance" /\ request \in Clients
        /\ cpc[request] = "read" /\ cpc' = cpc
        /\ seqNum' = seqNum /\ request' = request /\ requests' = requests
        /\ seqLen' = seqLen /\ printed' = printed
        /\ seqLen[request] \in Nat /\ seqNum \in Nat
    BY <1>6 DEF ServerRespond
  <2>2. /\ inbox'[request] = seqNum /\ granted'[request] = seqNum
        /\ \A d \in Clients \ {request} : inbox'[d] = inbox[d] /\ granted'[d] = granted[d]
    BY <1>6, <2>1 DEF ServerRespond
  <2>3. NextNum = seqNum /\ NextNum' = seqNum + seqLen[request]
    BY <2>1
  <2>4. granted[request] = None /\ \A i \in 1..Len(requests) : requests[i] # request
    BY <2>1
  <2>5. \A d \in Clients \ {request} :
           granted[d] # None => granted[d] + seqLen[d] <= seqNum
    BY <2>3
  <2>6. \A d \in Clients : granted'[d] # None => granted'[d] + seqLen[d] <= seqNum + seqLen[request]
    <3> SUFFICES ASSUME NEW d \in Clients, granted'[d] # None
                 PROVE  granted'[d] + seqLen[d] <= seqNum + seqLen[request]
        OBVIOUS
    <3>1. CASE d = request
        BY <2>1, <2>2, <3>1
    <3>2. CASE d # request
      <4> HIDE DEF Allocation
      <4>1. granted'[d] = granted[d] /\ granted[d] \in Nat /\ seqLen[d] \in Nat
        BY <2>2, <3>2
      <4>2. granted[d] + seqLen[d] <= seqNum
        BY <2>5, <3>2, <4>1
      <4> QED
        BY <2>1, <4>1, <4>2
    <3> QED
        BY <3>1, <3>2
  <2>7. \A i \in 1..Len(requests) : Unanswered(requests[i])'
    BY <2>1, <2>2, <2>4
  <2>8. \A d \in Clients :
           /\ inbox'[d] # None => inbox'[d] = granted'[d]
           /\ printed[d] # None => printed[d] = granted'[d]
           /\ cpc[d] \in {"mkfifo", "openServer", "write"} => granted'[d] = None
    BY <2>1, <2>2, <2>4
  <2>9. \A c, d \in Clients :
           c # d /\ granted'[c] # None /\ granted'[d] # None =>
               \/ granted'[c] + seqLen[c] <= granted'[d]
               \/ granted'[d] + seqLen[d] <= granted'[c]
    BY <2>1, <2>2, <2>5
  <2> QED
    BY <2>1, <2>3, <2>6, <2>7, <2>8, <2>9
<1>7. CASE ServerRespondFails
    BY <1>7 DEF ServerRespondFails
<1>8. CASE ServerAdvance
    BY <1>8 DEF ServerAdvance
<1> QED
    BY <1>1, <1>2, <1>3, <1>4, <1>5, <1>6, <1>7, <1>8 DEF ServerNext

\* IInv is an invariant of the server and its clients.
THEOREM Invariance == Spec => []IInv
<1>1. ASSUME IInv, [Next]_vars PROVE IInv'
  <2>1. TypeOK'
    BY <1>1, TypeStep
  <2>2. Allocation'
    <3>1. CASE UNCHANGED vars
        BY <1>1, <3>1 DEF IInv, Allocation, NextNum, Unanswered, vars, server, client
    <3>2. ASSUME NEW c \in Clients, Kill(c) PROVE Allocation'
        BY <1>1, <3>2 DEF IInv, Allocation, NextNum, Unanswered, Kill, server
    <3> QED
        BY <1>1, <3>1, <3>2, ClientStep, ServerStep DEF Next
  <2> QED
    BY <2>1, <2>2 DEF IInv
<1> QED
    BY <1>1, InitInv, PTL DEF Spec

\* Every variable of the two programs keeps its type.
THEOREM TypeCorrect == Spec => []TypeOK
<1>1. IInv => TypeOK
    BY DEF IInv
<1> QED
    BY <1>1, Invariance, PTL

\* Two clients never print overlapping runs of numbers, whoever is killed.
THEOREM DisjointRuns == Spec => []PrintedRunsDisjoint
<1>1. IInv => PrintedRunsDisjoint
    BY DEF IInv, Allocation, PrintedRunsDisjoint
<1> QED
    BY <1>1, Invariance, PTL

\* A live client's request is forgotten only by a server without descriptors.
THEOREM NotForgotten == Spec => []DroppedOnlyOutOfFds
<1> DEFINE D == DroppedOnlyOutOfFds
<1>1. Init => D
    BY DEF Init, DroppedOnlyOutOfFds, Waiting
<1>2. ASSUME IInv, D, [Next]_vars PROVE D'
  <2> SUFFICES ASSUME NEW w \in Clients, Waiting(w)', ~Pending(w)'
               PROVE  leaked' = MaxFds
    BY DEF DroppedOnlyOutOfFds
  <2> USE FifoAssumption, <1>2 DEF IInv, TypeOK, DroppedOnlyOutOfFds, Waiting, Pending
  <2>1. CASE UNCHANGED vars
    BY <2>1 DEF vars, server, client
  <2>2. ASSUME NEW c \in Clients, ClientNext(c) PROVE leaked' = MaxFds
    <3>1. CASE ClientWrite(c)
      <4>1. requests'[Len(requests) + 1] = c /\ Len(requests) + 1 \in 1..Len(requests')
        BY <3>1 DEF ClientWrite
      <4>2. \A i \in 1..Len(requests) : i \in 1..Len(requests') /\ requests'[i] = requests[i]
        BY <3>1 DEF ClientWrite
      <4> QED
        BY <3>1, <4>1, <4>2 DEF ClientWrite, ClientAt
    <3>2. CASE ~ClientWrite(c)
        BY <2>2, <3>2 DEF ClientNext, ClientMkfifo, ClientNoServer, ClientOpenServer,
                          ClientRead, removeClientFifo, ClientAt
    <3> QED
        BY <3>1, <3>2
  <2>3. ASSUME NEW c \in Clients, Kill(c) PROVE leaked' = MaxFds
    BY <2>3 DEF Kill, server
  <2>4. CASE ServerNext
    <3>1. CASE ServerRead
      <4>1. \A i \in 1..Len(requests) :
               \/ requests[i] = request'
               \/ i - 1 \in 1..Len(requests') /\ requests'[i - 1] = requests[i]
        BY <3>1 DEF ServerRead
      <4>2. Waiting(w) /\ leaked' = leaked
        BY <3>1 DEF ServerRead, ServerAt, client
      <4>3. request' # w /\ ~(\E i \in 1..Len(requests') : requests'[i] = w)
        BY <3>1 DEF ServerRead, ServerAt
      <4>4. ~(\E i \in 1..Len(requests) : requests[i] = w)
        BY <4>1, <4>3
      <4>5. ~Pending(w)
        BY <3>1, <4>4 DEF ServerRead, ServerAt
      <4> QED
        BY <4>2, <4>5
    <3>2. CASE ServerRespondFails
        BY <3>2 DEF ServerRespondFails, ServerAt, client, HasReader, Allocation, Unanswered
    <3>3. CASE ~ServerRead /\ ~ServerRespondFails
        BY <2>4, <3>3 DEF ServerNext, ServerMkfifo, ServerOpenFifo, ServerOpen,
                  ServerOpenFails, ServerRespond, ServerAdvance, ServerAt, client, Allocation
    <3> QED
        BY <3>1, <3>2, <3>3
  <2> QED
    BY <2>1, <2>2, <2>3, <2>4 DEF Next
<1> QED
    BY <1>1, <1>2, Invariance, PTL DEF Spec

\* Server and clients implement the allocator: only a successful write to a
\* client's FIFO gives numbers away, and the counter follows.
THEOREM RefinesAllocator == Spec => ImplementsAllocator
<1> USE DEF Alloc!AllocInit, Alloc!AllocNext, Alloc!Grant, Alloc!allocVars
<1>1. Init => Alloc!AllocInit
    BY DEF Init, NextNum
<1>2. ASSUME IInv, [Next]_vars PROVE [Alloc!AllocNext]_(Alloc!allocVars)
  <2> USE FifoAssumption DEF IInv, TypeOK
  <2>1. CASE UNCHANGED vars
    BY <2>1 DEF vars, server, client, NextNum
  <2>2. ASSUME NEW c \in Clients, ClientNext(c)
        PROVE  UNCHANGED Alloc!allocVars
    BY <2>2 DEF ClientNext, ClientMkfifo, ClientNoServer, ClientOpenServer,
                ClientWrite, ClientRead, removeClientFifo, ClientAt, NextNum
  <2>3. ASSUME NEW c \in Clients, Kill(c) PROVE UNCHANGED Alloc!allocVars
    BY <2>3 DEF Kill, server, NextNum
  <2>4. CASE ServerNext
    <3>1. CASE ServerRespond
      <4>1. request \in Clients /\ granted[request] = None
        BY <1>2, <3>1 DEF ServerRespond, ServerAt, Allocation, Unanswered
      <4>2. NextNum = seqNum /\ NextNum' = seqNum + seqLen[request]
        BY <3>1 DEF ServerRespond, ServerAt, client, NextNum
      <4>3. Alloc!Grant(request)
        BY <3>1, <4>1, <4>2 DEF ServerRespond, ServerAt, client
      <4> QED
        BY <4>1, <4>3
    <3>2. CASE ~ServerRespond
      <4> QED
        BY <1>2, <2>4, <3>2 DEF ServerNext, ServerMkfifo, ServerOpenFifo, ServerRead, ServerOpen,
              ServerOpenFails, ServerRespondFails, ServerAdvance, ServerAt, client, NextNum
    <3> QED
        BY <3>1, <3>2
  <2> QED
    BY <1>2, <2>1, <2>2, <2>3, <2>4 DEF Next
<1> QED
    BY <1>1, <1>2, Invariance, PTL DEF Spec, ImplementsAllocator, Alloc!AllocSpec

=============================================================================
