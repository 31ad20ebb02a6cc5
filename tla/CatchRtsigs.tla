---------------------------- MODULE CatchRtsigs -----------------------------
(***************************************************************************)
(* signals/src/catch_rtsigs.c: one handler for all signals counts them;    *)
(* SIGINT makes the main loop end.  The handler's sa_mask is empty, so a   *)
(* handler may be interrupted by the handler of another signal, and        *)
(* ++numSigsCaught is a load and a store.  Standard signals are pending at *)
(* most once, realtime signals queue.                                      *)
(*                                                                         *)
(* The handlers are installed; SIGTERM behaves as SIGINT and is left out,  *)
(* as are SIGTSTP and SIGQUIT, which keep their default action.            *)
(***************************************************************************)
EXTENDS Integers, Sequences

CONSTANTS Standard,     \* standard signals other than SIGINT
          Realtime,     \* realtime signals
          SIGINT,
          MaxSends,     \* signals others send
          Block         \* whether a block time was given (argc > 1)

ASSUME CatchAssumption ==
    /\ SIGINT \notin Standard \cup Realtime
    /\ MaxSends \in Nat
    /\ Block \in BOOLEAN

Signals == Standard \cup Realtime \cup {SIGINT}

VARIABLES mpc,          \* main()'s next statement
          blocked,      \* the process's signal mask
          pending,      \* how often each signal is pending
          sends,        \* the number of signals sent
          stack,        \* the running handlers, innermost last
          numSigsCaught,
          isDone,
          handled,      \* history: calls of the handler that were to be counted
          torn,         \* history: a handler ran inside another's ++numSigsCaught
          late          \* history: SIGINT came between the test and pause()

vars == <<mpc, blocked, pending, sends, stack, numSigsCaught, isDone, handled, torn, late>>

Frame == [sig : Signals, at : {"start", "store"}, tmp : Nat]

Init ==
    /\ mpc = IF Block THEN "block" ELSE "test"
    /\ blocked = {}
    /\ pending = [s \in Signals |-> 0]
    /\ sends = 0
    /\ stack = << >>
    /\ numSigsCaught = 0
    /\ isDone = FALSE
    /\ handled = 0
    /\ torn = FALSE
    /\ late = FALSE

-----------------------------------------------------------------------------
(* The kernel *)

Send(s) ==
    /\ sends < MaxSends
    /\ mpc # "done"
    /\ sends' = sends + 1
    /\ pending' = [pending EXCEPT ![s] = IF s \in Realtime THEN @ + 1 ELSE 1]
    /\ UNCHANGED <<mpc, blocked, stack, numSigsCaught, isDone, handled, torn, late>>

Running(s) == \E k \in DOMAIN stack : stack[k].sig = s

Deliverable(s) == pending[s] > 0 /\ s \notin blocked /\ ~Running(s)

\* A handler is not interrupted by its own signal.
Deliver(s) ==
    /\ mpc # "done" /\ Deliverable(s)
    /\ pending' = [pending EXCEPT ![s] = @ - 1]
    /\ stack' = Append(stack, [sig |-> s, at |-> "start", tmp |-> 0])
    /\ torn' = (torn \/ (s # SIGINT /\ \E k \in DOMAIN stack : stack[k].at = "store"))
    /\ late' = (late \/ (mpc = "toPause" /\ s = SIGINT))
    /\ UNCHANGED <<mpc, blocked, sends, numSigsCaught, isDone, handled>>

-----------------------------------------------------------------------------
(* sigHandler() *)

Top == stack[Len(stack)]

\* The return of the outermost handler also ends pause() and sleep().
Return ==
    /\ stack' = SubSeq(stack, 1, Len(stack) - 1)
    /\ mpc' = IF Len(stack) > 1 THEN mpc
              ELSE IF mpc = "pause" THEN "test"
              ELSE IF mpc = "sleep" THEN "restore" ELSE mpc

MutHandleIntCounts ==
    /\ stack # << >> /\ Top.sig = SIGINT
    /\ isDone' = TRUE
    /\ numSigsCaught' = numSigsCaught + 1
    /\ Return
    /\ UNCHANGED <<blocked, pending, sends, handled, torn, late>>

HandleInt ==
    /\ stack # << >> /\ Top.sig = SIGINT
    /\ isDone' = TRUE
    /\ Return
    /\ UNCHANGED <<blocked, pending, sends, numSigsCaught, handled, torn, late>>

\* printf(), sleep(), and the load of ++numSigsCaught.
HandleLoad ==
    /\ stack # << >> /\ Top.sig # SIGINT /\ Top.at = "start"
    /\ stack' = [stack EXCEPT ![Len(stack)].at = "store",
                              ![Len(stack)].tmp = numSigsCaught]
    /\ UNCHANGED <<mpc, blocked, pending, sends, numSigsCaught, isDone, handled, torn, late>>

HandleStore ==
    /\ stack # << >> /\ Top.sig # SIGINT /\ Top.at = "store"
    /\ numSigsCaught' = Top.tmp + 1
    /\ handled' = handled + 1
    /\ Return
    /\ UNCHANGED <<blocked, pending, sends, isDone, torn, late>>

sigHandler == HandleInt \/ HandleLoad \/ HandleStore

-----------------------------------------------------------------------------
(* main() runs while no handler does *)

MainAt(here, next) ==
    /\ stack = << >>
    /\ mpc = here
    /\ mpc' = next
    /\ UNCHANGED <<pending, sends, stack, numSigsCaught, isDone, handled, torn, late>>

BlockAll ==
    /\ MainAt("block", "sleep")
    /\ blocked' = Standard \cup Realtime

SleepDone ==
    /\ MainAt("sleep", "restore")
    /\ UNCHANGED blocked

Restore ==
    /\ MainAt("restore", "restored")
    /\ blocked' = {}

\* sigprocmask() returns after the signals it unblocked were delivered.
Restored ==
    /\ \A s \in Signals : ~Deliverable(s)
    /\ MainAt("restored", "test")
    /\ UNCHANGED blocked

MutTestAlways ==
    /\ MainAt("test", "toPause")
    /\ UNCHANGED blocked

Test ==
    /\ MainAt("test", IF isDone THEN "done" ELSE "toPause")
    /\ UNCHANGED blocked

Pause ==
    /\ MainAt("toPause", "pause")
    /\ UNCHANGED blocked

main == BlockAll \/ SleepDone \/ Restore \/ Restored \/ Test \/ Pause

-----------------------------------------------------------------------------
Program == main \/ sigHandler \/ \E s \in Signals : Deliver(s)

Next == Program \/ \E s \in Signals : Send(s)

Spec == Init /\ [][Next]_vars

\* The program runs and its signals are delivered; nobody has to send.
FairSpec == Spec /\ WF_vars(Program)

-----------------------------------------------------------------------------
TypeOK ==
    /\ mpc \in {"block", "sleep", "restore", "restored", "test", "toPause", "pause", "done"}
    /\ blocked \subseteq Signals
    /\ pending \in [Signals -> Nat]
    /\ sends \in 0..MaxSends
    /\ stack \in Seq(Frame)
    /\ \A j, k \in DOMAIN stack : stack[j].sig = stack[k].sig => j = k
    /\ numSigsCaught \in Nat
    /\ isDone \in BOOLEAN
    /\ handled \in Nat
    /\ torn \in BOOLEAN /\ late \in BOOLEAN

\* The counter never exceeds the number of calls, and it is exact unless a
\* handler ran between the load and the store of another.
CountExactUnlessTorn ==
    /\ numSigsCaught <= handled
    /\ ~torn => numSigsCaught = handled

\* SIGINT ends the program unless it comes between the test of isDone and
\* pause(); in particular a SIGINT during the blocked sleep is not forgotten.
IntEndsUnlessLate == isDone ~> (mpc = "done" \/ late)

\* The program's last line, catch_rtsigs.c:74, "Caught %lu signals": the
\* number is that of the signals the handler was called for.
ReportsAllCaught == mpc = "done" => numSigsCaught = handled
=============================================================================
