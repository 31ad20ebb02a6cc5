--------------------------- MODULE ThreadCleanup ----------------------------
(***************************************************************************)
(* threads/thread_cleanup.c: a thread waits on a condition variable with   *)
(* two cleanup handlers pushed; main() either cancels it or changes `glob' *)
(* and signals it, and joins it.                                           *)
(*                                                                         *)
(* A cancelled thread ends at its next cancellation point:                 *)
(* pthread_cond_wait(), which takes the mutex again first, and printf(),   *)
(* which POSIX allows to be one.  The sleep(2) of main() orders nothing.   *)
(***************************************************************************)
EXTENDS Integers, Sequences

CONSTANT None           \* no owner, no handler

VARIABLES cancel,       \* main() was started without an argument
          mpc,          \* main()'s next statement
          tpc,          \* threadFunc()'s next statement
          mutex,        \* the owner: "main", "thread" or None
          glob,
          cancelled,    \* pthread_cancel() was called
          handlers,     \* the pushed cleanup handlers, innermost last
          running,      \* the handler being called, or None
          frees,        \* how often the block was freed
          misuse,       \* the mutex was unlocked by a thread not its owner
          status        \* the thread's exit status: "none", "null", "cancelled"

mainVars == <<cancel, mpc>>
vars == <<mainVars, tpc, mutex, glob, cancelled, handlers, running, frees, misuse, status>>

Init ==
    /\ cancel \in BOOLEAN
    /\ mpc = "create"
    /\ tpc = "unborn"
    /\ mutex = None
    /\ glob = 0
    /\ cancelled = FALSE
    /\ handlers = << >>
    /\ running = None
    /\ frees = 0
    /\ misuse = FALSE
    /\ status = "none"

-----------------------------------------------------------------------------
(* main() *)

MainAt(here, next) ==
    /\ mpc = here
    /\ mpc' = next
    /\ UNCHANGED <<cancel, handlers, running, frees, misuse, status>>

MainCreate ==
    /\ MainAt("create", "sleep")
    /\ tpc' = "malloc"
    /\ UNCHANGED <<mutex, glob, cancelled>>

MainSleep ==
    /\ MainAt("sleep", "announce")
    /\ UNCHANGED <<tpc, mutex, glob, cancelled>>

\* The test of argc and the printf() that follows it.
MainAnnounce ==
    /\ MainAt("announce", IF cancel THEN "cancel" ELSE "lock")
    /\ UNCHANGED <<tpc, mutex, glob, cancelled>>

MainCancel ==
    /\ MainAt("cancel", "join")
    /\ cancelled' = TRUE
    /\ UNCHANGED <<tpc, mutex, glob>>

MainLock ==
    /\ mutex = None
    /\ MainAt("lock", "set")
    /\ mutex' = "main"
    /\ UNCHANGED <<tpc, glob, cancelled>>

MainSet ==
    /\ MainAt("set", "unlock")
    /\ glob' = 1
    /\ UNCHANGED <<tpc, mutex, cancelled>>

MainUnlock ==
    /\ MainAt("unlock", "signal")
    /\ mutex' = None
    /\ UNCHANGED <<tpc, glob, cancelled>>

MainSignal ==
    /\ MainAt("signal", "join")
    /\ tpc' = IF tpc = "wait" THEN "woken" ELSE tpc
    /\ UNCHANGED <<mutex, glob, cancelled>>

MainJoin ==
    /\ tpc = "ended"
    /\ MainAt("join", "done")
    /\ UNCHANGED <<tpc, mutex, glob, cancelled>>

main ==
    \/ MainCreate \/ MainSleep \/ MainAnnounce \/ MainCancel
    \/ MainLock \/ MainSet \/ MainUnlock \/ MainSignal \/ MainJoin

-----------------------------------------------------------------------------
(* threadFunc() *)

ThreadAt(here, next) ==
    /\ tpc = here
    /\ tpc' = next
    /\ UNCHANGED <<mainVars, glob, cancelled, running>>

Malloc ==
    /\ ThreadAt("malloc", "push")
    /\ UNCHANGED <<mutex, handlers, frees, misuse, status>>

PushMemory ==
    /\ ThreadAt("push", "printf")
    /\ handlers' = Append(handlers, "memory")
    /\ UNCHANGED <<mutex, frees, misuse, status>>

PrintAllocated ==
    /\ ThreadAt("printf", "lock")
    /\ UNCHANGED <<mutex, handlers, frees, misuse, status>>

Lock ==
    /\ mutex = None
    /\ ThreadAt("lock", "pushMutex")
    /\ mutex' = "thread"
    /\ UNCHANGED <<handlers, frees, misuse, status>>

MutForgetMutexHandler ==
    /\ ThreadAt("pushMutex", "test")
    /\ UNCHANGED <<mutex, handlers, frees, misuse, status>>

PushMutex ==
    /\ ThreadAt("pushMutex", "test")
    /\ handlers' = Append(handlers, "mutex")
    /\ UNCHANGED <<mutex, frees, misuse, status>>

\* The loop's test.
Test ==
    /\ ThreadAt("test", IF glob = 0 THEN "callWait" ELSE "completed")
    /\ UNCHANGED <<mutex, handlers, frees, misuse, status>>

\* pthread_cond_wait() releases the mutex, or acts on a cancellation.
CondWait ==
    /\ \/ ~cancelled /\ ThreadAt("callWait", "wait") /\ mutex' = None
       \/ cancelled /\ ThreadAt("callWait", "unwind") /\ mutex' = mutex
    /\ UNCHANGED <<handlers, frees, misuse, status>>

SpuriousWakeup ==
    /\ ThreadAt("wait", "woken")
    /\ UNCHANGED <<mutex, handlers, frees, misuse, status>>

\* pthread_cond_wait() takes the mutex again; it acts on a cancellation.
Relock ==
    /\ mutex = None
    /\ \/ ThreadAt("woken", "test")
       \/ cancelled /\ (ThreadAt("wait", "unwind") \/ ThreadAt("woken", "unwind"))
    /\ mutex' = "thread"
    /\ UNCHANGED <<handlers, frees, misuse, status>>

PrintCompleted ==
    /\ ThreadAt("completed", "pop")
    /\ UNCHANGED <<mutex, handlers, frees, misuse, status>>

\* The printf() after the loop is never reached with a cancellation pending:
\* main() cancels only when it leaves glob alone.
CancelInPrintf ==
    /\ cancelled
    /\ ThreadAt("printf", "unwind")
    /\ UNCHANGED <<mutex, handlers, frees, misuse, status>>

\* pthread_cleanup_pop(1), or the unwinding of a cancelled thread, takes the
\* innermost handler and calls it.
PopHandler ==
    /\ tpc \in {"pop", "unwind"} /\ handlers # << >> /\ running = None
    /\ running' = handlers[Len(handlers)]
    /\ handlers' = SubSeq(handlers, 1, Len(handlers) - 1)
    /\ UNCHANGED <<mainVars, tpc, mutex, glob, cancelled, frees, misuse, status>>

memoryCleanupHandler ==
    /\ running = "memory"
    /\ running' = None
    /\ frees' = frees + 1
    /\ UNCHANGED <<mainVars, tpc, mutex, glob, cancelled, handlers, misuse, status>>

mutexCleanupHandler ==
    /\ running = "mutex"
    /\ running' = None
    /\ mutex' = None
    /\ misuse' = (misuse \/ mutex # "thread")
    /\ UNCHANGED <<mainVars, tpc, glob, cancelled, handlers, frees, status>>

End ==
    /\ tpc \in {"pop", "unwind"} /\ handlers = << >> /\ running = None
    /\ status' = IF tpc = "unwind" THEN "cancelled" ELSE "null"
    /\ tpc' = "ended"
    /\ UNCHANGED <<mainVars, mutex, glob, cancelled, handlers, running, frees, misuse>>

threadFunc ==
    \/ Malloc \/ PushMemory \/ PrintAllocated \/ Lock \/ PushMutex
    \/ Test \/ CondWait \/ Relock \/ PrintCompleted \/ CancelInPrintf
    \/ PopHandler \/ memoryCleanupHandler \/ mutexCleanupHandler \/ End

-----------------------------------------------------------------------------
Next == main \/ threadFunc \/ SpuriousWakeup

Spec == Init /\ [][Next]_vars

\* Both threads are scheduled, and the mutex is not withheld from a thread
\* that asks for it again and again; spurious wakeups need not happen.
FairSpec == Spec /\ WF_vars(main) /\ WF_vars(threadFunc) /\ SF_vars(MainLock)

-----------------------------------------------------------------------------
TypeOK ==
    /\ cancel \in BOOLEAN
    /\ mpc \in {"create", "sleep", "announce", "cancel", "lock", "set", "unlock",
                "signal", "join", "done"}
    /\ tpc \in {"unborn", "malloc", "push", "printf", "lock", "pushMutex", "test",
                "callWait", "wait", "woken", "completed", "pop", "unwind", "ended"}
    /\ mutex \in {"main", "thread", None}
    /\ glob \in 0..1
    /\ cancelled \in BOOLEAN
    /\ handlers \in {<< >>, <<"memory">>, <<"memory", "mutex">>}
    /\ running \in {"memory", "mutex", None}
    /\ frees \in Nat
    /\ misuse \in BOOLEAN
    /\ status \in {"none", "null", "cancelled"}

\* Wherever the cancellation strikes, the block is freed exactly once and the
\* mutex is released, by the thread that owns it, before the join succeeds.
CleanedUp ==
    /\ ~misuse
    /\ tpc = "ended" => frees = 1 /\ mutex # "thread"

\* What main() prints is what it asked for: the thread is cancelled when it
\* was to be cancelled and ends normally when it was signalled.
EndsAsAsked ==
    tpc = "ended" => status = (IF cancel THEN "cancelled" ELSE "null")

\* The join returns: no signal or cancellation is missed.
Joined == <>(mpc = "done")
=============================================================================
