--------------------------- MODULE ThreadMultijoin ---------------------------
(***************************************************************************)
(* threads/thread_multijoin.c: main() starts one thread per argument and   *)
(* joins them in the order they terminate.  A terminating thread marks its *)
(* entry of threads[] and counts itself under the mutex, and signals the   *)
(* condition variable after it has unlocked; main() joins while it holds   *)
(* the mutex, and frees threads[] once every thread is joined.             *)
(***************************************************************************)
EXTENDS Integers, FiniteSets

CONSTANTS numThreads,   \* argc - 1
          MaxSpurious   \* spurious wakeups of pthread_cond_wait()

ASSUME MultijoinAssumption == numThreads \in Nat \ {0} /\ MaxSpurious \in Nat

Threads == 1..numThreads
Main == 0               \* main()'s name as the owner of the mutex
None == -1

VARIABLES mpc,                  \* main()'s next statement
          i,                    \* the index of main()'s for loops, from 1
          numLiveThreads,
          numUnjoinedThreads,
          state,                \* threads[t].state
          freed,                \* free(threads) was called
          mutex,                \* the owner of the mutex
          waiting,              \* main() is on the condition's queue
          spurious,             \* spurious wakeups so far
          tpc                   \* each thread's next statement

vars == <<mpc, i, numLiveThreads, numUnjoinedThreads, state, freed, mutex,
          waiting, spurious, tpc>>

Init ==
    /\ mpc = "create"
    /\ i = 1
    /\ numLiveThreads = 0
    /\ numUnjoinedThreads = 0
    /\ state = [t \in Threads |-> "uninitialised"]
    /\ freed = FALSE
    /\ mutex = None
    /\ waiting = FALSE
    /\ spurious = 0
    /\ tpc = [t \in Threads |-> "unborn"]

-----------------------------------------------------------------------------
(* main() *)

MainCreate ==
    /\ mpc = "create" /\ i <= numThreads
    /\ state' = [state EXCEPT ![i] = "TS_ALIVE"]
    /\ tpc' = [tpc EXCEPT ![i] = "sleep"]
    /\ i' = i + 1
    /\ UNCHANGED <<mpc, numLiveThreads, numUnjoinedThreads, freed, mutex, waiting, spurious>>

\* getInt(), malloc() or pthread_create() fails: exit() ends every thread.
MainCreateFails ==
    /\ mpc = "create" /\ i <= numThreads
    /\ mpc' = "exit"
    /\ UNCHANGED <<i, numLiveThreads, numUnjoinedThreads, state, freed, mutex,
                   waiting, spurious, tpc>>

MainStartJoining ==
    /\ mpc = "create" /\ i > numThreads
    /\ mpc' = "test"
    /\ numLiveThreads' = numThreads
    /\ UNCHANGED <<i, numUnjoinedThreads, state, freed, mutex, waiting, spurious, tpc>>

MainLock ==
    /\ mpc = "test" /\ numLiveThreads > 0
    /\ mutex = None
    /\ mutex' = Main
    /\ mpc' = "check"
    /\ UNCHANGED <<i, numLiveThreads, numUnjoinedThreads, state, freed, waiting, spurious, tpc>>

\* pthread_cond_wait() unlocks and joins the queue in one step.
MainWait ==
    /\ mpc = "check" /\ numUnjoinedThreads = 0
    /\ mutex' = None
    /\ waiting' = TRUE
    /\ mpc' = "wait"
    /\ UNCHANGED <<i, numLiveThreads, numUnjoinedThreads, state, freed, spurious, tpc>>

SpuriousWakeup ==
    /\ waiting /\ spurious < MaxSpurious
    /\ waiting' = FALSE
    /\ spurious' = spurious + 1
    /\ UNCHANGED <<mpc, i, numLiveThreads, numUnjoinedThreads, state, freed, mutex, tpc>>

MainRelock ==
    /\ mpc = "wait" /\ ~waiting
    /\ mutex = None
    /\ mutex' = Main
    /\ mpc' = "check"
    /\ UNCHANGED <<i, numLiveThreads, numUnjoinedThreads, state, freed, waiting, spurious, tpc>>

MainStartScan ==
    /\ mpc = "check" /\ numUnjoinedThreads # 0
    /\ mpc' = "scan"
    /\ i' = 1
    /\ UNCHANGED <<numLiveThreads, numUnjoinedThreads, state, freed, mutex, waiting, spurious, tpc>>

MainSkip ==
    /\ mpc = "scan" /\ i <= numThreads
    /\ state[i] # "TS_TERMINATED"
    /\ i' = i + 1
    /\ UNCHANGED <<mpc, numLiveThreads, numUnjoinedThreads, state, freed, mutex,
                   waiting, spurious, tpc>>

\* pthread_join() returns once the thread has.
MainJoin ==
    /\ mpc = "scan" /\ i <= numThreads
    /\ state[i] = "TS_TERMINATED"
    /\ tpc[i] = "exited"
    /\ state' = [state EXCEPT ![i] = "TS_JOINED"]
    /\ numLiveThreads' = numLiveThreads - 1
    /\ numUnjoinedThreads' = numUnjoinedThreads - 1
    /\ i' = i + 1
    /\ UNCHANGED <<mpc, freed, mutex, waiting, spurious, tpc>>

MainUnlock ==
    /\ mpc = "scan" /\ i > numThreads
    /\ mutex' = None
    /\ mpc' = "test"
    /\ UNCHANGED <<i, numLiveThreads, numUnjoinedThreads, state, freed, waiting, spurious, tpc>>

MainFree ==
    /\ mpc = "test" /\ numLiveThreads <= 0
    /\ freed' = TRUE
    /\ mpc' = "done"
    /\ UNCHANGED <<i, numLiveThreads, numUnjoinedThreads, state, mutex, waiting, spurious, tpc>>

MainNext ==
    \/ MainCreate \/ MainStartJoining \/ MainLock \/ MainWait \/ MainRelock
    \/ MainStartScan \/ MainSkip \/ MainJoin \/ MainUnlock \/ MainFree

-----------------------------------------------------------------------------
(* func(), while the process has not exited *)

ThreadAt(t, here, next) ==
    /\ mpc \notin {"exit", "done"}
    /\ tpc[t] = here
    /\ tpc' = [tpc EXCEPT ![t] = next]
    /\ UNCHANGED <<mpc, i, numLiveThreads, freed, spurious>>

ThreadSleep(t) ==
    /\ ThreadAt(t, "sleep", "lock")
    /\ UNCHANGED <<numUnjoinedThreads, state, mutex, waiting>>

ThreadLock(t) ==
    /\ ThreadAt(t, "lock", "mark")
    /\ mutex = None
    /\ mutex' = t
    /\ UNCHANGED <<numUnjoinedThreads, state, waiting>>

ThreadMark(t) ==
    /\ ThreadAt(t, "mark", "count")
    /\ state' = [state EXCEPT ![t] = "TS_TERMINATED"]
    /\ UNCHANGED <<numUnjoinedThreads, mutex, waiting>>

MutCountSet(t) ==
    /\ ThreadAt(t, "count", "unlock")
    /\ numUnjoinedThreads' = 1
    /\ UNCHANGED <<state, mutex, waiting>>

ThreadCount(t) ==
    /\ ThreadAt(t, "count", "unlock")
    /\ numUnjoinedThreads' = numUnjoinedThreads + 1
    /\ UNCHANGED <<state, mutex, waiting>>

ThreadUnlock(t) ==
    /\ ThreadAt(t, "unlock", "signal")
    /\ mutex' = None
    /\ UNCHANGED <<numUnjoinedThreads, state, waiting>>

MutNoSignal(t) ==
    /\ ThreadAt(t, "signal", "return")
    /\ UNCHANGED <<numUnjoinedThreads, state, mutex, waiting>>

ThreadSignal(t) ==
    /\ ThreadAt(t, "signal", "return")
    /\ waiting' = FALSE
    /\ UNCHANGED <<numUnjoinedThreads, state, mutex>>

ThreadReturn(t) ==
    /\ ThreadAt(t, "return", "exited")
    /\ UNCHANGED <<numUnjoinedThreads, state, mutex, waiting>>

ThreadNext(t) ==
    \/ ThreadSleep(t) \/ ThreadLock(t) \/ ThreadMark(t) \/ ThreadCount(t)
    \/ ThreadUnlock(t) \/ ThreadSignal(t) \/ ThreadReturn(t)

-----------------------------------------------------------------------------
Next ==
    \/ MainNext \/ MainCreateFails \/ SpuriousWakeup
    \/ \E t \in Threads : ThreadNext(t)

Spec == Init /\ [][Next]_vars

\* Every runnable thread runs.
Fairness == WF_vars(MainNext) /\ \A t \in Threads : WF_vars(ThreadNext(t))

FairSpec == Spec /\ Fairness

-----------------------------------------------------------------------------
TypeOK ==
    /\ mpc \in {"create", "test", "check", "wait", "scan", "done", "exit"}
    /\ i \in 1..(numThreads + 1)
    /\ numLiveThreads \in 0..numThreads
    /\ numUnjoinedThreads \in 0..numThreads
    /\ state \in [Threads -> {"uninitialised", "TS_ALIVE", "TS_TERMINATED", "TS_JOINED"}]
    /\ freed \in BOOLEAN
    /\ mutex \in Threads \cup {Main, None}
    /\ waiting \in BOOLEAN
    /\ spurious \in 0..MaxSpurious
    /\ tpc \in [Threads -> {"unborn", "sleep", "lock", "mark", "count", "unlock",
                            "signal", "return", "exited"}]

InState(s) == {t \in Threads : state[t] = s}

\* Whoever takes the mutex finds the counter equal to the number of threads
\* marked TS_TERMINATED, so main()'s wait loop tests what its scan looks for.
CountMatchesStates ==
    mutex \in {None, Main} =>
        numUnjoinedThreads = Cardinality(InState("TS_TERMINATED"))

\* main() counts down exactly the threads it joined.
LiveMatchesJoined ==
    mpc \notin {"create", "exit"} =>
        numLiveThreads = numThreads - Cardinality(InState("TS_JOINED"))

\* free(threads) comes after every thread's last use of its entry.
FreedAfterLastUse == freed => \A t \in Threads : tpc[t] = "exited"

\* The signal is sent outside the mutex, and still none is lost: when main()
\* is asleep with a thread to join, that thread's signal is yet to come.
NoLostWakeup ==
    waiting /\ numUnjoinedThreads > 0 =>
        \E t \in Threads : tpc[t] \in {"unlock", "signal"}

\* pthread_join() with the mutex held waits only for a thread that does not
\* need the mutex any more.
JoinCannotDeadlock ==
    mpc = "scan" /\ i <= numThreads /\ state[i] = "TS_TERMINATED" =>
        tpc[i] \in {"signal", "return", "exited"}

\* main() joins every thread and ends, unless it could not start them all.
AllReaped ==
    <>(mpc = "exit" \/ (mpc = "done" /\ InState("TS_JOINED") = Threads))

-----------------------------------------------------------------------------
(* The strengthening that makes the invariants above inductive. *)

\* What a thread's place in func() says about its entry and the mutex.
Places ==
    /\ mutex = Main <=> mpc \in {"check", "scan"}
    /\ waiting => mpc = "wait"
    /\ mpc = "create" => InState("TS_JOINED") = {}
    /\ mpc \notin {"create", "exit"} => \A t \in Threads : tpc[t] # "unborn"
    /\ mpc = "create" => \A t \in Threads : tpc[t] = "unborn" <=> t >= i
    /\ freed => mpc = "done"
    /\ mpc = "done" => numLiveThreads = 0
    /\ \A t \in Threads :
         /\ mutex = t <=> tpc[t] \in {"mark", "count", "unlock"}
         /\ tpc[t] = "unborn" => state[t] = "uninitialised"
         /\ tpc[t] \in {"sleep", "lock", "mark"} => state[t] = "TS_ALIVE"
         /\ tpc[t] \in {"count", "unlock", "signal", "return"} => state[t] = "TS_TERMINATED"
         /\ tpc[t] = "exited" => state[t] \in {"TS_TERMINATED", "TS_JOINED"}

\* The threads that have counted themselves and are not joined.
Counted == {t \in Threads : state[t] = "TS_TERMINATED" /\ tpc[t] # "count"}

Counters ==
    /\ numUnjoinedThreads = Cardinality(Counted)
    /\ LiveMatchesJoined

IInv == TypeOK /\ Places /\ Counters /\ NoLostWakeup
=============================================================================
