------------------------------ MODULE MCThreads ------------------------------
(***************************************************************************)
(* The programs of threads/ on small instances.  They share nothing, so    *)
(* `program' names the one that was started and the others stand still.    *)
(***************************************************************************)
EXTENDS ThreadMultijoin

VARIABLES program,
          incMpc, n, numLoops, incGlob, incMutex, incTpc, loops, loc,
          clMpc, clTpc, clMutex, clGlob, cancel, cancelled, handlers, running,
          frees, misuse, status

\* Arguments that fit, that wrap in the sum, and that wrap in the conversion.
MCArgs == {0, 1, 2, 3, 4, 5, 7, 9, 20, 30}

Safe == INSTANCE ThreadIncr
    WITH Locked <- TRUE, Args <- MCArgs, IntMax <- 15, mpc <- incMpc,
         glob <- incGlob, mutex <- incMutex, tpc <- incTpc
Racy == INSTANCE ThreadIncr
    WITH Locked <- FALSE, Args <- MCArgs, IntMax <- 15, mpc <- incMpc,
         glob <- incGlob, mutex <- incMutex, tpc <- incTpc
Cleanup == INSTANCE ThreadCleanup
    WITH None <- "none", mpc <- clMpc, tpc <- clTpc, mutex <- clMutex, glob <- clGlob

ASSUME Safe!IncrAssumption /\ Racy!IncrAssumption

incVars == <<incMpc, n, numLoops, incGlob, incMutex, incTpc, loops, loc>>
clVars == <<clMpc, clTpc, clMutex, clGlob, cancel, cancelled, handlers, running,
            frees, misuse, status>>
mcVars == <<program, vars, incVars, clVars>>

MCInit ==
    /\ program \in {"thread_multijoin", "thread_incr_mutex", "thread_incr", "thread_cleanup"}
    /\ Init /\ Safe!Init /\ Cleanup!Init
    /\ program \in {"thread_multijoin", "thread_cleanup"} => numLoops = 0
    /\ program # "thread_cleanup" => ~cancel

Multijoin == program = "thread_multijoin" /\ UNCHANGED <<program, incVars, clVars>>
IncrMutex == program = "thread_incr_mutex" /\ UNCHANGED <<program, vars, clVars>>
Incr == program = "thread_incr" /\ UNCHANGED <<program, vars, clVars>>
Cancel == program = "thread_cleanup" /\ UNCHANGED <<program, vars, incVars>>

MCNext ==
    \/ Multijoin /\ Next
    \/ IncrMutex /\ Safe!Next
    \/ Incr /\ Racy!Next
    \/ Cancel /\ Cleanup!Next

\* The fairness of each program, while it is the one that runs.
MCSpec ==
    /\ MCInit /\ [][MCNext]_mcVars
    /\ WF_mcVars(Multijoin /\ MainNext)
    /\ \A t \in Threads : WF_mcVars(Multijoin /\ ThreadNext(t))
    /\ WF_mcVars(IncrMutex /\ (Safe!MainCreate \/ Safe!MainJoin))
    /\ \A t \in Safe!Threads : WF_mcVars(IncrMutex /\ Safe!ThreadNext(t))
    /\ WF_mcVars(Incr /\ (Racy!MainCreate \/ Racy!MainJoin))
    /\ \A t \in Racy!Threads : WF_mcVars(Incr /\ Racy!ThreadNext(t))
    /\ WF_mcVars(Cancel /\ Cleanup!main) /\ WF_mcVars(Cancel /\ Cleanup!threadFunc)
    /\ SF_mcVars(Cancel /\ Cleanup!MainLock)

\* With the mutex main() prints 2 * numLoops whenever that fits in an int
\* (thread_incr_mutex.c:36); without it, however loads and stores interleave, at
\* most 2 * numLoops and at least 2, or 1 for a single loop (thread_incr.c:33).
IncrementsCounted ==
    /\ program = "thread_incr_mutex" => Safe!NothingLost
    /\ program = "thread_incr" => Racy!LossBounded

\* thread_cleanup.c: wherever the cancellation strikes, the block is freed
\* once, the mutex is released by its owner, and main() is told the ending it
\* asked for.
CleanedUp == Cleanup!CleanedUp /\ Cleanup!EndsAsAsked

\* main() of each program joins its threads and ends: no signal is lost, no
\* mutex stays locked, no cancellation is missed.
EveryThreadJoined ==
    /\ program = "thread_multijoin" => AllReaped
    /\ program = "thread_incr_mutex" => Safe!Ends
    /\ program = "thread_incr" => Racy!Ends
    /\ program = "thread_cleanup" => Cleanup!Joined
=============================================================================
