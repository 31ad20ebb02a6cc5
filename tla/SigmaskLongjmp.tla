--------------------------- MODULE SigmaskLongjmp ---------------------------
(***************************************************************************)
(* signals/src/sigmask_longjmp.c: leaving the handler of SIGINT with       *)
(* longjmp().  Built with USE_SIGSETJUMP the buffer holds the signal mask, *)
(* which the jump restores; without, the jump leaves SIGINT blocked.  (The *)
(* handler tests the name USE_SIGSETJMP and so always calls longjmp(), but *)
(* in glibc longjmp() too restores a mask that was saved.)  The handler is *)
(* one step: main() stands still meanwhile and SIGINT is blocked.          *)
(***************************************************************************)
EXTENDS Integers

VARIABLES saves,        \* built with USE_SIGSETJUMP
          pc,           \* main()'s next statement
          env,          \* the buffer has been filled
          canJump,
          blocked,      \* SIGINT is in the signal mask
          pending,      \* SIGINT is pending
          printed       \* what printSigMask() printed after a jump

vars == <<saves, pc, env, canJump, blocked, pending, printed>>

Init ==
    /\ saves \in BOOLEAN
    /\ pc = "sigaction"
    /\ env = FALSE /\ canJump = FALSE /\ blocked = FALSE /\ pending = FALSE
    /\ printed = {}

Sigaction ==
    /\ pc = "sigaction"
    /\ pc' = "setjmp"
    /\ UNCHANGED <<saves, env, canJump, blocked, pending, printed>>

Setjmp ==
    /\ pc = "setjmp"
    /\ pc' = "canJump"
    /\ env' = TRUE
    /\ UNCHANGED <<saves, canJump, blocked, pending, printed>>

SetCanJump ==
    /\ pc = "canJump"
    /\ pc' = "pause"
    /\ canJump' = TRUE
    /\ UNCHANGED <<saves, env, blocked, pending, printed>>

printSigMask ==
    /\ pc = "jumped"
    /\ pc' = "pause"
    /\ printed' = printed \cup {IF blocked THEN "SIGINT" ELSE "<empty signal set>"}
    /\ UNCHANGED <<saves, env, canJump, blocked, pending>>

Main == Sigaction \/ Setjmp \/ SetCanJump \/ printSigMask

Kill ==
    /\ pc # "killed" /\ ~pending
    /\ pending' = TRUE
    /\ UNCHANGED <<saves, pc, env, canJump, blocked, printed>>

\* The default action, before sigaction().
Killed ==
    /\ pending /\ pc = "sigaction"
    /\ pc' = "killed"
    /\ pending' = FALSE
    /\ UNCHANGED <<saves, env, canJump, blocked, printed>>

\* The handler jumps whatever canJump says.
MutHandler ==
    /\ pending /\ ~blocked /\ pc \notin {"sigaction", "killed"}
    /\ pending' = FALSE
    /\ pc' = IF env THEN "jumped" ELSE "crashed"
    /\ blocked' = ~saves
    /\ UNCHANGED <<saves, env, canJump, printed>>

\* A jump to a buffer that was never filled would crash.
handler ==
    /\ pending /\ ~blocked /\ pc \notin {"sigaction", "killed"}
    /\ pending' = FALSE
    /\ IF canJump THEN pc' = (IF env THEN "jumped" ELSE "crashed") /\ blocked' = ~saves
                  ELSE UNCHANGED <<pc, blocked>>
    /\ UNCHANGED <<saves, env, canJump, printed>>

Signals == Killed \/ handler

Next == Main \/ Kill \/ Signals

Spec == Init /\ [][Next]_vars /\ WF_vars(Main) /\ WF_vars(Signals)

\* sigmask_longjmp.c:59: a SIGINT never makes the program jump into a buffer not
\* filled yet; line 45: the mask printed after a jump tells the build, however
\* many signals came before.
JumpsAreSafe ==
    /\ pc # "crashed"
    /\ printed \subseteq {IF saves THEN "<empty signal set>" ELSE "SIGINT"}

\* sigmask_longjmp.c:38,41: with the saved mask every SIGINT is handled, however
\* many follow; without, the program ends up deaf to it once it has jumped.
HandledAgain ==
    /\ saves => [](pending => <>~pending)
    /\ ~saves => [](pc = "jumped" => []blocked)
=============================================================================
