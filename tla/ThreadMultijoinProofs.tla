------------------------ MODULE ThreadMultijoinProofs ------------------------
(***************************************************************************)
(* Proofs about thread_multijoin.c, for any number of threads and of       *)
(* spurious wakeups.                                                       *)
(***************************************************************************)
EXTENDS ThreadMultijoin, FiniteSetTheorems, TLAPS

USE MultijoinAssumption DEF Threads, Main, None

\* Every set of threads is finite and has at most numThreads members, and
\* all of them are in it when it has that many.
LEMMA ThreadSets ==
    ASSUME NEW S \in SUBSET Threads
    PROVE  /\ IsFiniteSet(S)
           /\ Cardinality(S) \in 0..numThreads
           /\ Cardinality(S) = numThreads => S = Threads
<1>1. IsFiniteSet(Threads) /\ Cardinality(Threads) = numThreads
    BY FS_Interval
<1>2. /\ IsFiniteSet(S) /\ Cardinality(S) <= numThreads
      /\ Cardinality(S) = numThreads => S = Threads
    BY <1>1, FS_Subset
<1>3. Cardinality(S) \in Nat
    BY <1>2, FS_CardinalityType
<1> QED
    BY <1>2, <1>3

\* Adding a thread to a set, or taking one out, changes its size by one.
LEMMA OneMore ==
    ASSUME NEW S \in SUBSET Threads, NEW T \in SUBSET Threads, NEW t \in Threads,
           t \notin S, T = S \cup {t}
    PROVE  Cardinality(T) = Cardinality(S) + 1
BY ThreadSets, FS_AddElement

\* Nothing is created, counted or joined when main() starts.
LEMMA InitInv == Init => IInv
<1> SUFFICES ASSUME Init PROVE IInv
    OBVIOUS
<1>1. TypeOK
  <2>1. freed \in BOOLEAN /\ waiting \in BOOLEAN
    BY DEF Init
  <2> QED
    BY <2>1 DEF Init, TypeOK
<1>2. Places
    BY DEF Init, Places, InState
<1>3. Counters
  <2>1. Counted = {}
    BY DEF Init, Counted
  <2> QED
    BY <2>1, FS_EmptySet DEF Init, Counters, LiveMatchesJoined
<1>4. NoLostWakeup
    BY DEF Init, NoLostWakeup
<1> QED
    BY <1>1, <1>2, <1>3, <1>4 DEF IInv

\* Joining only takes place under main()'s mutex, and each statement keeps
\* every thread's entry in step with its place in func().
LEMMA PlacesStep == IInv /\ [Next]_vars => Places'
<1> SUFFICES ASSUME IInv, [Next]_vars PROVE Places'
    OBVIOUS
<1> USE DEF IInv, TypeOK, Places, InState
<1>1. CASE UNCHANGED vars
    BY <1>1 DEF vars
<1>2. CASE MainCreate
    BY <1>2 DEF MainCreate
<1>3. CASE MainStartJoining
    BY <1>3 DEF MainStartJoining
<1>4. CASE MainLock
    BY <1>4 DEF MainLock
<1>5. CASE MainWait
    BY <1>5 DEF MainWait
<1>6. CASE MainRelock
    BY <1>6 DEF MainRelock
<1>7. CASE MainStartScan \/ MainSkip
    BY <1>7 DEF MainStartScan, MainSkip
<1>8. CASE MainJoin
    BY <1>8 DEF MainJoin
<1>9. CASE MainUnlock
    BY <1>9 DEF MainUnlock
<1>10. CASE MainFree
    BY <1>10 DEF MainFree
<1>11. CASE MainCreateFails \/ SpuriousWakeup
    BY <1>11 DEF MainCreateFails, SpuriousWakeup
<1>12. ASSUME NEW t \in Threads, ThreadNext(t) PROVE Places'
  <2>1. CASE ThreadSleep(t)
    BY <2>1 DEF ThreadSleep, ThreadAt
  <2>2. CASE ThreadLock(t)
    BY <2>2 DEF ThreadLock, ThreadAt
  <2>3. CASE ThreadMark(t)
    BY <2>3 DEF ThreadMark, ThreadAt
  <2>4. CASE ThreadCount(t)
    BY <2>4 DEF ThreadCount, ThreadAt
  <2>5. CASE ThreadUnlock(t)
    BY <2>5 DEF ThreadUnlock, ThreadAt
  <2>6. CASE ThreadSignal(t)
    BY <2>6 DEF ThreadSignal, ThreadAt
  <2>7. CASE ThreadReturn(t)
    BY <2>7 DEF ThreadReturn, ThreadAt
  <2> QED
    BY <1>12, <2>1, <2>2, <2>3, <2>4, <2>5, <2>6, <2>7 DEF ThreadNext
<1> QED
    BY <1>1, <1>2, <1>3, <1>4, <1>5, <1>6, <1>7, <1>8, <1>9, <1>10, <1>11, <1>12
    DEF Next, MainNext

\* The two counters follow the sets of counted and of joined threads.
LEMMA CountersStep == IInv /\ [Next]_vars => Counters'
<1> SUFFICES ASSUME IInv, [Next]_vars PROVE Counters'
    OBVIOUS
<1> DEFINE J == InState("TS_JOINED")
<1>0. /\ Counted \in SUBSET Threads /\ Counted' \in SUBSET Threads
      /\ J \in SUBSET Threads /\ J' \in SUBSET Threads
    BY DEF Counted, InState
<1> USE DEF IInv, TypeOK
<1>1. ASSUME Counted' = Counted, J' = J,
             UNCHANGED <<numUnjoinedThreads, numLiveThreads>>,
             mpc' \notin {"create", "exit"} => mpc \notin {"create", "exit"}
      PROVE  Counters'
    BY <1>1 DEF Counters, LiveMatchesJoined
<1>2. ASSUME state' = state, tpc' = tpc PROVE Counted' = Counted /\ J' = J
    BY <1>2 DEF Counted, InState
<1>3. CASE UNCHANGED vars
    BY <1>1, <1>2, <1>3 DEF vars
<1>4. CASE MainCreate
  <2>1. Counted' = Counted
    BY <1>4 DEF MainCreate, Counted, Places
  <2>2. J' = J
    BY <1>4 DEF MainCreate, InState, Places
  <2> QED
    BY <1>1, <1>4, <2>1, <2>2 DEF MainCreate
<1>5. CASE MainStartJoining
  <2>1. J' = {} /\ Counted' = Counted
    BY <1>2, <1>5 DEF MainStartJoining, Places
  <2> QED
    BY <1>5, <2>1, FS_EmptySet DEF MainStartJoining, Counters, LiveMatchesJoined
<1>6. CASE MainLock \/ MainWait \/ MainRelock \/ MainStartScan \/ MainSkip \/ MainUnlock
           \/ MainFree \/ MainCreateFails \/ SpuriousWakeup
    BY <1>1, <1>2, <1>6 DEF MainLock, MainWait, MainRelock, MainStartScan, MainSkip,
       MainUnlock, MainFree, MainCreateFails, SpuriousWakeup
<1>7. CASE MainJoin
  <2>1. i \in Threads /\ i \notin Counted' /\ Counted = Counted' \cup {i}
    BY <1>7 DEF MainJoin, Counted
  <2>2. i \notin J /\ J' = J \cup {i}
    BY <1>7 DEF MainJoin, InState
  <2>3. /\ Cardinality(Counted) = Cardinality(Counted') + 1
        /\ Cardinality(J') = Cardinality(J) + 1
    BY <1>0, <2>1, <2>2, OneMore
  <2>4. Cardinality(Counted') \in Nat /\ Cardinality(J) \in Nat
    BY <1>0, ThreadSets
  <2> QED
    BY <1>7, <2>3, <2>4 DEF MainJoin, Counters, LiveMatchesJoined
<1>8. ASSUME NEW t \in Threads, ThreadNext(t) PROVE Counters'
  <2>1. CASE ThreadCount(t)
    <3>1. t \notin Counted /\ Counted' = Counted \cup {t}
        BY <2>1 DEF ThreadCount, ThreadAt, Counted, Places
    <3>2. J' = J
        BY <2>1 DEF ThreadCount, InState
    <3> QED
        BY <1>0, <2>1, <3>1, <3>2, OneMore
        DEF ThreadCount, ThreadAt, Counters, LiveMatchesJoined
  <2>2. CASE ThreadMark(t)
    <3>1. Counted' = Counted
        BY <2>2 DEF ThreadMark, ThreadAt, Counted, Places
    <3>2. J' = J
        BY <2>2 DEF ThreadMark, ThreadAt, InState, Places
    <3> QED
        BY <1>1, <2>2, <3>1, <3>2 DEF ThreadMark, ThreadAt
  <2>3. CASE ThreadSleep(t) \/ ThreadLock(t) \/ ThreadUnlock(t) \/ ThreadSignal(t)
             \/ ThreadReturn(t)
    <3>1. Counted' = Counted /\ J' = J
        BY <2>3 DEF ThreadSleep, ThreadLock, ThreadUnlock, ThreadSignal, ThreadReturn,
           ThreadAt, Counted, InState
    <3> QED
        BY <1>1, <2>3, <3>1 DEF ThreadSleep, ThreadLock, ThreadUnlock, ThreadSignal,
           ThreadReturn, ThreadAt
  <2> QED
    BY <1>8, <2>1, <2>2, <2>3 DEF ThreadNext
<1> QED
    BY <1>3, <1>4, <1>5, <1>6, <1>7, <1>8 DEF Next, MainNext

\* A thread counts itself before it signals, and main() tests the counter
\* before it sleeps, both under the mutex.
LEMMA WakeupStep == IInv /\ [Next]_vars => NoLostWakeup'
<1> SUFFICES ASSUME IInv, [Next]_vars, waiting', numUnjoinedThreads' > 0
             PROVE  \E t \in Threads : tpc'[t] \in {"unlock", "signal"}
    BY DEF NoLostWakeup
<1> USE DEF IInv, TypeOK, Places, NoLostWakeup
<1>1. CASE UNCHANGED vars
    BY <1>1 DEF vars
<1>2. CASE MainNext \/ MainCreateFails \/ SpuriousWakeup
  <2>1. CASE MainWait
    BY <2>1 DEF MainWait
  <2>2. CASE SpuriousWakeup
    BY <2>2 DEF SpuriousWakeup
  <2>3. CASE MainRelock
    BY <2>3 DEF MainRelock
  <2>4. CASE ~(MainWait \/ SpuriousWakeup \/ MainRelock)
    <3>1. waiting /\ mpc # "wait"
        BY <1>2, <2>4 DEF MainNext, MainCreate, MainStartJoining, MainLock, MainStartScan,
           MainSkip, MainJoin, MainUnlock, MainFree, MainCreateFails
    <3> QED
        BY <3>1
  <2> QED
    BY <2>1, <2>2, <2>3, <2>4
<1>3. ASSUME NEW t \in Threads, ThreadNext(t)
      PROVE  \E w \in Threads : tpc'[w] \in {"unlock", "signal"}
  <2>1. CASE ThreadCount(t) \/ ThreadUnlock(t)
    BY <2>1 DEF ThreadCount, ThreadUnlock, ThreadAt
  <2>2. CASE ThreadSignal(t)
    BY <2>2 DEF ThreadSignal
  <2>3. CASE ThreadSleep(t) \/ ThreadLock(t) \/ ThreadMark(t) \/ ThreadReturn(t)
    <3>1. /\ waiting /\ numUnjoinedThreads > 0
          /\ tpc[t] \notin {"unlock", "signal"}
          /\ \A w \in Threads : w # t => tpc'[w] = tpc[w]
        BY <2>3 DEF ThreadSleep, ThreadLock, ThreadMark, ThreadReturn, ThreadAt
    <3> QED
        BY <3>1
  <2> QED
    BY <1>3, <2>1, <2>2, <2>3 DEF ThreadNext
<1> QED
    BY <1>1, <1>2, <1>3 DEF Next

\* Every statement keeps the state well typed; the counters stay in range
\* because they are sizes of sets of threads.
LEMMA TypeStep == IInv /\ Counters' /\ [Next]_vars => TypeOK'
<1> SUFFICES ASSUME IInv, Counters', [Next]_vars PROVE TypeOK'
    OBVIOUS
<1>1. numUnjoinedThreads' \in 0..numThreads
  <2>1. Counted' \in SUBSET Threads
    BY DEF Counted
  <2> QED
    BY <2>1, ThreadSets DEF Counters
<1>2. mpc' \notin {"create", "exit"} => numLiveThreads' \in 0..numThreads
  <2>1. InState("TS_JOINED")' \in SUBSET Threads
    BY DEF InState
  <2>2. Cardinality(InState("TS_JOINED")') \in 0..numThreads
    BY <2>1, ThreadSets
  <2> QED
    BY <2>2 DEF Counters, LiveMatchesJoined
<1> USE <1>1, <1>2 DEF IInv, TypeOK
<1>3. CASE UNCHANGED vars
    BY <1>3 DEF vars
<1>4. CASE MainNext
  <2>1. CASE MainCreate
    BY <2>1 DEF MainCreate
  <2>2. CASE MainStartJoining \/ MainLock \/ MainWait \/ MainRelock
    BY <2>2 DEF MainStartJoining, MainLock, MainWait, MainRelock
  <2>3. CASE MainStartScan \/ MainSkip \/ MainUnlock
    BY <2>3 DEF MainStartScan, MainSkip, MainUnlock
  <2>4. CASE MainJoin
    BY <2>4 DEF MainJoin
  <2>5. CASE MainFree
    <3>1. freed' \in BOOLEAN
        BY <2>5, Zenon DEF MainFree
    <3> QED
        BY <2>5, <3>1 DEF MainFree
  <2> QED
    BY <1>4, <2>1, <2>2, <2>3, <2>4, <2>5 DEF MainNext
<1>5. CASE MainCreateFails \/ SpuriousWakeup
  <2>1. CASE MainCreateFails
    BY <2>1 DEF MainCreateFails
  <2>2. CASE SpuriousWakeup
    <3>1. waiting' \in BOOLEAN
        BY <2>2, Zenon DEF SpuriousWakeup
    <3> QED
        BY <2>2, <3>1 DEF SpuriousWakeup
  <2> QED
    BY <1>5, <2>1, <2>2
<1>6. ASSUME NEW t \in Threads, ThreadNext(t) PROVE TypeOK'
  <2>1. CASE ThreadSleep(t) \/ ThreadLock(t) \/ ThreadUnlock(t) \/ ThreadReturn(t)
    BY <2>1 DEF ThreadSleep, ThreadLock, ThreadUnlock, ThreadReturn, ThreadAt
  <2>2. CASE ThreadMark(t)
    BY <2>2 DEF ThreadMark, ThreadAt
  <2>3. CASE ThreadCount(t)
    BY <2>3 DEF ThreadCount, ThreadAt
  <2>4. CASE ThreadSignal(t)
    BY <2>4 DEF ThreadSignal, ThreadAt
  <2> QED
    BY <1>6, <2>1, <2>2, <2>3, <2>4 DEF ThreadNext
<1> QED
    BY <1>3, <1>4, <1>5, <1>6 DEF Next

\* IInv is an invariant of main() and its threads.
THEOREM Invariance == Spec => []IInv
<1>1. IInv /\ [Next]_vars => IInv'
    BY PlacesStep, CountersStep, WakeupStep, TypeStep DEF IInv
<1> QED
    BY <1>1, InitInv, PTL DEF Spec

\* Every variable keeps its type; in particular the counters never leave
\* 0..numThreads.
THEOREM TypeCorrect == Spec => []TypeOK
<1>1. IInv => TypeOK
    BY DEF IInv
<1> QED
    BY <1>1, Invariance, PTL

\* Under a free mutex, and under main()'s, the counter is the number of
\* entries main()'s scan will join.
THEOREM CountCorrect == Spec => [](CountMatchesStates /\ LiveMatchesJoined)
<1>1. IInv => CountMatchesStates /\ LiveMatchesJoined
  <2> SUFFICES ASSUME IInv PROVE CountMatchesStates
    BY DEF IInv, Counters
  <2>1. ASSUME mutex \in {None, Main} PROVE Counted = InState("TS_TERMINATED")
    BY <2>1 DEF IInv, Places, Counted, InState
  <2> QED
    BY <2>1 DEF IInv, Counters, CountMatchesStates
<1> QED
    BY <1>1, Invariance, PTL

\* No signal is lost although it is sent after the mutex was released.
THEOREM WakeupNotLost == Spec => []NoLostWakeup
<1>1. IInv => NoLostWakeup
    BY DEF IInv
<1> QED
    BY <1>1, Invariance, PTL

\* pthread_join() under the mutex never waits for a thread that needs it.
THEOREM JoinSafe == Spec => []JoinCannotDeadlock
<1>1. IInv => JoinCannotDeadlock
    BY DEF IInv, TypeOK, Places, JoinCannotDeadlock
<1> QED
    BY <1>1, Invariance, PTL

\* threads[] is freed after the last thread has ended.
THEOREM FreeSafe == Spec => []FreedAfterLastUse
<1>1. IInv => FreedAfterLastUse
  <2> SUFFICES ASSUME IInv, freed PROVE \A t \in Threads : tpc[t] = "exited"
    BY DEF FreedAfterLastUse
  <2>1. mpc = "done" /\ numLiveThreads = 0
    BY DEF IInv, Places
  <2>2. InState("TS_JOINED") \in SUBSET Threads
    BY DEF InState
  <2>3. Cardinality(InState("TS_JOINED")) = numThreads
    BY <2>1, <2>2, ThreadSets DEF IInv, Counters, LiveMatchesJoined
  <2>4. \A t \in Threads : state[t] = "TS_JOINED"
    BY <2>2, <2>3, ThreadSets DEF InState
  <2> QED
    BY <2>1, <2>4 DEF IInv, TypeOK, Places
<1> QED
    BY <1>1, Invariance, PTL
=============================================================================
