------------------------------ MODULE MCSignals ------------------------------
(***************************************************************************)
(* catch_rtsigs, sig_sender with sig_receiver, nonreentrant and            *)
(* sigmask_longjmp on small instances.  `program' names the one that was   *)
(* started; the others stand still.                                        *)
(***************************************************************************)
EXTENDS CatchRtsigs

CONSTANT Senders

VARIABLES program,
          rpc, rxBlocked, rxPending, rxStack, sigCount, gotSigInt, shown, todo, failed,
          rxSent,
          nrPc, nrHandler, nrPending, nrSent, static, expectedHash, nrHandled, numMismatch,
          saves, ljPc, env, canJump, ljBlocked, ljPending, printed

SendReceive == INSTANCE SigSendReceive
    WITH Realtime <- {CHOOSE s \in Realtime : TRUE}, MaxNumSigs <- 2,
         blocked <- rxBlocked, pending <- rxPending, stack <- rxStack, sent <- rxSent

Crypt == INSTANCE Nonreentrant
    WITH MaxSignals <- 4, pc <- nrPc, handler <- nrHandler, pending <- nrPending,
         sent <- nrSent, handled <- nrHandled
Jump == INSTANCE SigmaskLongjmp
    WITH pc <- ljPc, blocked <- ljBlocked, pending <- ljPending

receiverVars == <<rpc, rxBlocked, rxPending, rxStack, sigCount, gotSigInt, shown, todo,
                  failed, rxSent>>
cryptVars == <<nrPc, nrHandler, nrPending, nrSent, static, expectedHash, nrHandled,
               numMismatch>>
jumpVars == <<saves, ljPc, env, canJump, ljBlocked, ljPending, printed>>
mcVars == <<program, vars, receiverVars, cryptVars, jumpVars>>

\* Two senders send five signals between them: a certain one at most two.
MCInit ==
    /\ program \in {"catch_rtsigs", "sig_receiver", "nonreentrant", "sigmask_longjmp"}
    /\ Init /\ SendReceive!Init /\ Crypt!Init /\ Jump!Init
    /\ program # "sig_receiver" => rpc = "spin" /\ todo = [p \in Senders |-> << >>]
    /\ program # "sigmask_longjmp" => saves
    /\ Len(todo[CHOOSE p \in Senders : TRUE]) <= 2

Catch == program = "catch_rtsigs" /\ UNCHANGED <<program, receiverVars, cryptVars, jumpVars>>
Receive == program = "sig_receiver" /\ UNCHANGED <<program, vars, cryptVars, jumpVars>>
Hash == program = "nonreentrant" /\ UNCHANGED <<program, vars, receiverVars, jumpVars>>
Longjmp == program = "sigmask_longjmp" /\ UNCHANGED <<program, vars, receiverVars, cryptVars>>

MCNext ==
    \/ Catch /\ Next
    \/ Receive /\ SendReceive!Next
    \/ Hash /\ Crypt!Next
    \/ Longjmp /\ Jump!Next

\* The fairness of each program, while it is the one that runs.
MCSpec ==
    /\ MCInit /\ [][MCNext]_mcVars
    /\ WF_mcVars(Catch /\ Program)
    /\ WF_mcVars(Receive /\ SendReceive!Receiver)
    /\ WF_mcVars(Longjmp /\ Jump!Main) /\ WF_mcVars(Longjmp /\ Jump!Signals)

\* sig_receiver.c: no signal is lost between sending, pending, handling and
\* counting, although handlers interrupt each other inside ++sigCount[sig], and a
\* signal listed as pending is in the counts even when SIGINT was pending too.
EverySignalAccounted == SendReceive!EverySignalAccounted /\ SendReceive!ShownIsCounted

\* A handler leaves what it interrupts as its program needs it: the mismatches of
\* nonreentrant.c:45 never outnumber the signals handled, no SIGINT makes
\* sigmask_longjmp.c:59 jump into a buffer not filled yet, and the mask printed
\* after a jump (line 45) tells the build.
InterruptedSafely == Crypt!MismatchesExplained /\ Jump!JumpsAreSafe

\* SIGINT ends catch_rtsigs and sig_receiver; only catch_rtsigs may miss one,
\* between its test of isDone and pause().  sigmask_longjmp handles every SIGINT if it
\* saves its mask, and none after the first jump if it does not.
IntEnds ==
    /\ program = "catch_rtsigs" => IntEndsUnlessLate
    /\ program = "sig_receiver" => SendReceive!IntEndsReceiver
    /\ program = "sigmask_longjmp" => Jump!HandledAgain
=============================================================================
