--------------------------- MODULE SigSendReceive ---------------------------
(***************************************************************************)
(* signals/src/sig_sender.c and sig_receiver.c: senders send one signal a  *)
(* number of times and perhaps another one after it; the receiver counts   *)
(* signals in handlers, blocks them for a while, prints the pending ones   *)
(* (printSigSet() of src/SignalFunctions.c), unblocks them and busy-waits  *)
(* for SIGINT.                                                             *)
(*                                                                         *)
(* signal() leaves a handler's own signal blocked while it runs; another   *)
(* signal may interrupt it.  A standard signal is pending at most once, a  *)
(* realtime signal as often as it was sent.                                *)
(***************************************************************************)
EXTENDS Integers, Sequences, FiniteSets

CONSTANTS Senders,      \* the sender processes
          Standard,     \* standard signals other than SIGINT
          Realtime,     \* realtime signals
          SIGINT,
          MaxNumSigs    \* the largest <num sigs>

Signals == Standard \cup Realtime \cup {SIGINT}

VARIABLES rpc,          \* the receiver's next statement
          blocked,      \* all signals are blocked
          pending,      \* how often each signal is pending
          stack,        \* the running handlers, innermost last
          sigCount,
          gotSigInt,
          shown,        \* the signals printed as pending
          todo,         \* the signals each sender has still to send
          failed,       \* senders whose kill() failed
          sent          \* history: how often each signal was sent

receiver == <<rpc, blocked, stack, sigCount, gotSigInt, shown>>
vars == <<receiver, pending, todo, failed, sent>>

\* <num sigs> times <sig1>, and <sig2> if there is one.
Args ==
    { [k \in 1..n |-> s] \o rest :
        n \in 0..MaxNumSigs, s \in Signals, rest \in {<<t>> : t \in Signals} \cup {<< >>} }

Init ==
    /\ rpc \in {"block", "spin"}
    /\ blocked = FALSE
    /\ pending = [s \in Signals |-> 0]
    /\ stack = << >>
    /\ sigCount = [s \in Signals |-> 0]
    /\ gotSigInt = FALSE
    /\ shown = {}
    /\ todo \in [Senders -> Args]
    /\ failed = {}
    /\ sent = [s \in Signals |-> 0]

-----------------------------------------------------------------------------
(* sig_sender.c *)

kill(p) ==
    /\ todo[p] # << >> /\ rpc # "done"
    /\ LET s == Head(todo[p])
       IN /\ pending' = [pending EXCEPT ![s] = IF s \in Realtime THEN @ + 1 ELSE 1]
          /\ sent' = [sent EXCEPT ![s] = @ + 1]
    /\ todo' = [todo EXCEPT ![p] = Tail(@)]
    /\ UNCHANGED <<receiver, failed>>

\* The receiver has exited.
KillFails(p) ==
    /\ todo[p] # << >> /\ rpc = "done"
    /\ todo' = [todo EXCEPT ![p] = << >>]
    /\ failed' = failed \cup {p}
    /\ UNCHANGED <<receiver, pending, sent>>

Sender(p) == kill(p) \/ KillFails(p)

-----------------------------------------------------------------------------
(* sig_receiver.c *)

Running(s) == \E k \in DOMAIN stack : stack[k].sig = s

Deliverable(s) == pending[s] > 0 /\ ~blocked /\ ~Running(s)

MutDeliverNested(s) ==
    /\ rpc # "done" /\ pending[s] > 0 /\ ~blocked
    /\ pending' = [pending EXCEPT ![s] = @ - 1]
    /\ stack' = Append(stack, [sig |-> s, loaded |-> -1])
    /\ UNCHANGED <<rpc, blocked, sigCount, gotSigInt, shown, todo, failed, sent>>

Deliver(s) ==
    /\ rpc # "done" /\ Deliverable(s)
    /\ pending' = [pending EXCEPT ![s] = @ - 1]
    /\ stack' = Append(stack, [sig |-> s, loaded |-> -1])
    /\ UNCHANGED <<rpc, blocked, sigCount, gotSigInt, shown, todo, failed, sent>>

Top == stack[Len(stack)]
Return == stack' = SubSeq(stack, 1, Len(stack) - 1)

HandleInt ==
    /\ stack # << >> /\ Top.sig = SIGINT
    /\ gotSigInt' = TRUE
    /\ Return
    /\ UNCHANGED <<rpc, blocked, sigCount, shown, pending, todo, failed, sent>>

\* ++sigCount[sig] loads the counter and stores it.
HandleLoad ==
    /\ stack # << >> /\ Top.sig # SIGINT /\ Top.loaded = -1
    /\ stack' = [stack EXCEPT ![Len(stack)].loaded = sigCount[Top.sig]]
    /\ UNCHANGED <<rpc, blocked, sigCount, gotSigInt, shown, pending, todo, failed, sent>>

HandleStore ==
    /\ stack # << >> /\ Top.sig # SIGINT /\ Top.loaded # -1
    /\ sigCount' = [sigCount EXCEPT ![Top.sig] = Top.loaded + 1]
    /\ Return
    /\ UNCHANGED <<rpc, blocked, gotSigInt, shown, pending, todo, failed, sent>>

sigHandler == HandleInt \/ HandleLoad \/ HandleStore

MainAt(here, next) ==
    /\ stack = << >> /\ rpc = here
    /\ rpc' = next
    /\ UNCHANGED <<stack, sigCount, gotSigInt, pending, todo, failed, sent>>

BlockSignals ==
    /\ MainAt("block", "sleep")
    /\ blocked' = TRUE
    /\ UNCHANGED shown

\* The signals that printSigSet() lists of what sigpending() returned.
printSigSet == {s \in Signals : pending[s] > 0}

\* sleep(), sigpending() and printSigSet().
ShowPending ==
    /\ MainAt("sleep", "unblock")
    /\ shown' = printSigSet
    /\ UNCHANGED blocked

Unblock ==
    /\ MainAt("unblock", "unblocked")
    /\ blocked' = FALSE
    /\ UNCHANGED shown

\* sigprocmask() returns after the signals it unblocked were delivered.
Unblocked ==
    /\ \A s \in Signals : ~Deliverable(s)
    /\ MainAt("unblocked", "spin")
    /\ UNCHANGED <<blocked, shown>>

\* The busy wait ends; the counts are printed and main() returns.
Finish ==
    /\ gotSigInt
    /\ MainAt("spin", "done")
    /\ UNCHANGED <<blocked, shown>>

main == BlockSignals \/ ShowPending \/ Unblock \/ Unblocked \/ Finish

Receiver == main \/ sigHandler \/ \E s \in Signals : Deliver(s)

-----------------------------------------------------------------------------
Next == Receiver \/ \E p \in Senders : Sender(p)

Spec == Init /\ [][Next]_vars

\* The receiver runs and its signals are delivered; senders may stop.
FairSpec == Spec /\ WF_vars(Receiver)

-----------------------------------------------------------------------------
TypeOK ==
    /\ rpc \in {"block", "sleep", "unblock", "unblocked", "spin", "done"}
    /\ blocked \in BOOLEAN
    /\ pending \in [Signals -> Nat]
    /\ stack \in Seq([sig : Signals, loaded : Nat \cup {-1}])
    /\ Len(stack) <= Cardinality(Signals)
    /\ sigCount \in [Signals -> Nat]
    /\ gotSigInt \in BOOLEAN
    /\ shown \subseteq Signals
    /\ todo \in [Senders -> Seq(Signals)]
    /\ failed \subseteq Senders
    /\ sent \in [Signals -> Nat]

InHandler(s) == IF Running(s) THEN 1 ELSE 0

\* No handler call is lost although handlers interrupt each other between
\* the load and the store: a realtime signal is counted as often as it was
\* sent, a standard signal at most that often.
EverySignalAccounted ==
    /\ \A s \in Realtime : sigCount[s] + InHandler(s) + pending[s] = sent[s]
    /\ \A s \in Standard : sigCount[s] + InHandler(s) + pending[s] <= sent[s]

\* A signal the receiver listed as pending is in the counts it prints, even
\* when SIGINT was pending with it.
ShownIsCounted ==
    rpc \in {"spin", "done"} => \A s \in shown \ {SIGINT} : sigCount[s] >= 1

\* SIGINT ends the receiver, also one that was sent while it was blocked.
IntEndsReceiver == (sent[SIGINT] > 0) ~> (rpc = "done")
=============================================================================
