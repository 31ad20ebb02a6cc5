-------------------------- MODULE MqNotifySigProofs --------------------------
(***************************************************************************)
(* Proofs about mq_notify_sig.c, for every number of messages and every    *)
(* size of the queue: no notification is lost, and no message printed      *)
(* twice or out of order.                                                  *)
(***************************************************************************)
EXTENDS MqNotifySig, TLAPS

\* The registration and the signal it is exchanged for are never both there; one
\* of them is, but before the first mq_notify(), between sigsuspend() and the
\* next, and after exit().  A program that found messages when it first registered
\* never leaves its first sigsuspend().
Handshake ==
    /\ registered => ~pending
    /\ pc \in {"setup", "notify", "exited"} => ~registered /\ ~pending
    /\ pc \in {"suspend", "receive", "write"} => registered \/ pending
    /\ pc = "setup" => ~emptyAtStart
    /\ emptyAtStart /\ pc = "suspend" /\ registered => queue = << >>
    /\ ~emptyAtStart /\ pc # "setup" => pc = "suspend" /\ registered /\ queue # << >>

IInv == TypeOK /\ Handshake /\ PrintedInOrder

-----------------------------------------------------------------------------
(* Sequences *)

\* A sequence over a set is one over a larger set.
LEMMA Wider ==
    ASSUME NEW S, NEW T, S \subseteq T, NEW s \in Seq(S) PROVE s \in Seq(T)
OBVIOUS

\* What is left of a queue when its head is taken.
LEMMA TakeHead ==
    ASSUME NEW S, NEW q \in Seq(S), q # << >>
    PROVE  Head(q) \in S /\ Tail(q) \in Seq(S) /\ Len(Tail(q)) = Len(q) - 1
OBVIOUS

\* The element behind a is where it was put.
LEMMA InTheMiddle ==
    ASSUME NEW S, NEW a \in Seq(S), NEW e \in S, NEW q \in Seq(S), NEW n \in Nat,
           (a \o <<e>>) \o q = [k \in 1..n |-> k]
    PROVE  e \in 1..n
<1>1. Len((a \o <<e>>) \o q) = Len(a) + 1 + Len(q) /\ ((a \o <<e>>) \o q)[Len(a) + 1] = e
    OBVIOUS
<1>2. Len([k \in 1..n |-> k]) = n
    OBVIOUS
<1>3. Len(a) + 1 \in 1..n
    BY <1>1, <1>2
<1>4. [k \in 1..n |-> k][Len(a) + 1] = Len(a) + 1
    BY <1>3
<1> QED
    BY <1>1, <1>3, <1>4

\* Moving the head of a queue behind what was taken from it changes nothing.
LEMMA MoveHead ==
    ASSUME NEW S, NEW a \in Seq(S), NEW q \in Seq(S), q # << >>
    PROVE  (a \o <<Head(q)>>) \o Tail(q) = (a \o << >>) \o q
OBVIOUS

\* Adding behind the queue is adding behind everything.
LEMMA AppendLast ==
    ASSUME NEW S, NEW a \in Seq(S), NEW q \in Seq(S), NEW e \in S
    PROVE  a \o Append(q, e) = Append(a \o q, e)
OBVIOUS

\* The first n + 1 numbers are the first n and the next.
LEMMA Upto ==
    ASSUME NEW n \in Nat
    PROVE  Append([k \in 1..n |-> k], n + 1) = [k \in 1..(n + 1) |-> k]
OBVIOUS

-----------------------------------------------------------------------------
USE NotifyAssumption

\* The queue holds at most one message when the program starts.
LEMMA InitInv == Init => IInv
<1> SUFFICES ASSUME Init PROVE IInv
    OBVIOUS
<1>1. sent \in {0, 1} /\ queue = [k \in 1..sent |-> k]
    BY DEF Init
<1>2. queue \in Seq(1..sent) /\ Len(queue) = sent
    BY <1>1
<1>3. (<< >> \o << >>) \o queue = queue
    BY <1>2
<1> QED
  <2>1. TypeOK
    <3>1. out \in Seq(1..sent)
        BY DEF Init
    <3>2. Len(queue) <= QueueSize /\ sent \in 0..(MaxMsgs + 1) /\ buffer \in 0..sent
        BY <1>1, <1>2 DEF Init
    <3>3. pc = "setup" /\ registered \in BOOLEAN /\ pending \in BOOLEAN /\ emptyAtStart \in BOOLEAN
        BY DEF Init
    <3> QED
        BY <1>2, <3>1, <3>2, <3>3 DEF TypeOK
  <2>2. Handshake
    BY DEF Init, Handshake
  <2>3. PrintedInOrder
    BY <1>1, <1>3 DEF Init, PrintedInOrder, Hand
  <2> QED
    BY <2>1, <2>2, <2>3 DEF IInv

\* A message that arrives.
LEMMA SendStep == ASSUME IInv, mq_send PROVE IInv'
<1>1. sent \in Nat /\ sent' = sent + 1 /\ queue' = Append(queue, sent + 1)
    BY DEF IInv, TypeOK, mq_send
<1>2. /\ queue \in Seq(1..(sent + 1)) /\ out \in Seq(1..(sent + 1))
      /\ Hand \in Seq(0..(sent + 1)) /\ buffer \in 0..(sent + 1)
  <2>1. 1..sent \subseteq 1..(sent + 1)
    BY <1>1
  <2>2. queue \in Seq(1..(sent + 1)) /\ out \in Seq(1..(sent + 1))
    BY <2>1, Wider DEF IInv, TypeOK
  <2>3. buffer \in 0..(sent + 1)
    BY <1>1 DEF IInv, TypeOK
  <2>4. <<buffer>> \in Seq(0..(sent + 1)) /\ << >> \in Seq(0..(sent + 1))
    BY <2>3
  <2> QED
    BY <2>2, <2>3, <2>4 DEF Hand
<1>3. TypeOK'
    BY <1>1, <1>2 DEF IInv, TypeOK, mq_send
<1>4. Handshake'
  <2>1. queue' # << >> /\ pc' = pc /\ emptyAtStart' = emptyAtStart
    <3>1. Len(queue') = Len(queue) + 1 /\ Len(queue) \in Nat
      BY <1>1, <1>2
    <3>2. queue' # << >>
      BY <3>1
    <3> QED
      BY <3>2 DEF mq_send
  <2>2. CASE registered /\ queue = << >>
    <3>1. ~registered' /\ pending' /\ pc \notin {"setup", "notify", "exited"} /\ ~pending
      BY <2>2 DEF mq_send, IInv, Handshake
    <3>2. emptyAtStart
      BY <2>2, <3>1 DEF IInv, Handshake
    <3> QED
      BY <2>1, <3>1, <3>2 DEF Handshake
  <2>3. CASE ~(registered /\ queue = << >>)
    <3>1. registered' = registered /\ pending' = pending
      BY <2>3 DEF mq_send, IInv, TypeOK
    <3> QED
      BY <2>1, <2>3, <3>1 DEF IInv, Handshake
  <2> QED
    BY <2>2, <2>3
<1>5. PrintedInOrder'
  <2>1. out \o Hand \in Seq(0..(sent + 1)) /\ queue \in Seq(0..(sent + 1))
    BY <1>1, <1>2
  <2>2. (out \o Hand) \o Append(queue, sent + 1) = Append((out \o Hand) \o queue, sent + 1)
    BY <1>1, <2>1, AppendLast
  <2>3. (out \o Hand) \o queue = [k \in 1..sent |-> k]
    BY DEF IInv, PrintedInOrder
  <2> QED
    BY <1>1, <2>2, <2>3, Upto DEF PrintedInOrder, Hand, mq_send
<1> QED
    BY <1>3, <1>4, <1>5 DEF IInv

\* The steps of the program that touch no message.
LEMMA ControlStep ==
    ASSUME IInv, Setup \/ Wake \/ Renotify \/ WriteFails \/ ReceiveNothing PROVE IInv'
<1> USE DEF IInv, TypeOK, Handshake, PrintedInOrder, Hand
<1>1. CASE Setup
    BY <1>1 DEF Setup
<1>2. CASE Wake
    BY <1>2 DEF Wake
<1>3. CASE Renotify
    BY <1>3 DEF Renotify
<1>4. CASE ReceiveNothing
    BY <1>4 DEF ReceiveNothing
<1>5. CASE WriteFails
    BY <1>5 DEF WriteFails
<1> QED
    BY <1>1, <1>2, <1>3, <1>4, <1>5

\* mq_receive() takes the oldest message.
LEMMA ReceiveStep == ASSUME IInv, Receive PROVE IInv'
<1>1. queue \in Seq(1..sent) /\ queue # << >> /\ out \in Seq(1..sent)
    BY DEF IInv, TypeOK, Receive
<1>2. Head(queue) \in 1..sent /\ Tail(queue) \in Seq(1..sent) /\ Len(Tail(queue)) = Len(queue) - 1
    BY <1>1, TakeHead
<1>3. TypeOK'
    BY <1>1, <1>2 DEF IInv, TypeOK, Receive
<1>4. Handshake'
    BY DEF IInv, TypeOK, Handshake, Receive
<1>5. PrintedInOrder'
  <2>1. (out \o <<Head(queue)>>) \o Tail(queue) = (out \o << >>) \o queue
    BY <1>1, MoveHead
  <2>2. (out \o << >>) \o queue = [k \in 1..sent |-> k]
    BY DEF IInv, PrintedInOrder, Hand, Receive
  <2> QED
    BY <2>1, <2>2 DEF PrintedInOrder, Hand, Receive
<1> QED
    BY <1>3, <1>4, <1>5 DEF IInv

\* write() puts it behind those already printed.
LEMMA WriteStep == ASSUME IInv, Write PROVE IInv'
<1>1. out \in Seq(1..sent) /\ queue \in Seq(1..sent) /\ buffer \in 0..sent /\ sent \in Nat
    BY DEF IInv, TypeOK
<1>2. (out \o <<buffer>>) \o queue = [k \in 1..sent |-> k]
    BY DEF IInv, PrintedInOrder, Hand, Write
<1>3. buffer \in 1..sent
  <2>1. out \in Seq(0..sent) /\ queue \in Seq(0..sent)
    BY <1>1, Wider
  <2> QED
    BY <1>1, <1>2, <2>1, InTheMiddle
<1>4. TypeOK'
    BY <1>1, <1>3 DEF IInv, TypeOK, Write
<1>5. Handshake'
    BY DEF IInv, TypeOK, Handshake, Write
<1>6. Append(out, buffer) \o << >> = out \o <<buffer>>
    BY <1>1
<1>7. PrintedInOrder'
    BY <1>2, <1>6 DEF PrintedInOrder, Hand, Write
<1> QED
    BY <1>4, <1>5, <1>7 DEF IInv

\* The invariant that carries the proofs.
THEOREM Invariance == Spec => []IInv
<1>1. ASSUME IInv, [Next]_vars PROVE IInv'
  <2>1. CASE UNCHANGED vars
    BY <1>1, <2>1 DEF IInv, TypeOK, Handshake, PrintedInOrder, Hand, vars
  <2> QED
    BY <1>1, <2>1, SendStep, ControlStep, ReceiveStep, WriteStep DEF Next, Program
<1> QED
    BY <1>1, InitInv, PTL DEF Spec

\* mq_notify_sig.c:100: every message is printed once and in the order sent,
\* however the arrivals fall between the calls of the loop.
THEOREM PrintedOnce == Spec => []PrintedInOrder
    BY Invariance, PTL DEF IInv

\* mq_notify_sig.c:94: the registration is renewed only after the signal used it
\* up, so mq_notify() never fails with EBUSY.
THEOREM RenewalSucceeds == Spec => []NeverBusy
<1>1. IInv => NeverBusy
    BY DEF IInv, Handshake, NeverBusy
<1> QED
    BY <1>1, Invariance, PTL

\* mq_notify_sig.c:89: a message that arrives after the queue was drained and
\* before sigsuspend() leaves the signal pending; the program sleeps over messages
\* exactly when some were there at the mq_notify() of line 76.
THEOREM NoneMissed == Spec => []NoMissedMessage
<1>1. IInv => NoMissedMessage
    BY DEF IInv, Handshake, NoMissedMessage
<1> QED
    BY <1>1, Invariance, PTL
=============================================================================
