----------------------------- MODULE ThreadIncr -----------------------------
(***************************************************************************)
(* threads/thread_incr_mutex.c (Locked) and threads/thread_incr.c (not     *)
(* Locked): two threads add one to glob, numLoops times each, through a    *)
(* local copy; main() joins both and prints glob.  glob is a volatile int, *)
(* so each access is one load or one store of the whole word.              *)
(***************************************************************************)
EXTENDS Integers, TLAPS

CONSTANTS Locked,       \* f() takes globMutex around each increment
          Args,         \* the unsigned long values of argv[1]
          IntMax        \* INT_MAX

IncrAssumption ==
    /\ Locked \in BOOLEAN
    /\ Args \subseteq Nat
    /\ IntMax \in Nat \ {0}

NUM_THREADS == 2
Threads == 1..NUM_THREADS
None == 0               \* no thread owns globMutex

\* The int values, and the int an unsigned long is converted to.
IntRange == -(IntMax + 1)..IntMax
ToInt(x) == ((x + IntMax + 1) % (2 * (IntMax + 1))) - (IntMax + 1)

\* ++loc, as two's complement machines compute it.
Increment(x) == IF x = IntMax THEN -(IntMax + 1) ELSE x + 1

VARIABLES mpc,          \* main()'s next statement
          n,            \* the index of main()'s for loops, from 1
          numLoops,
          glob,
          mutex,        \* the owner of globMutex
          tpc,          \* each thread's next statement in f()
          loops,        \* each thread's loop counter i
          loc           \* each thread's local copy

vars == <<mpc, n, numLoops, glob, mutex, tpc, loops, loc>>

Init ==
    /\ mpc = "create"
    /\ n = 1
    /\ \E arg \in Args : numLoops = ToInt(arg)
    /\ glob = 0
    /\ mutex = None
    /\ tpc = [t \in Threads |-> "unborn"]
    /\ loops = [t \in Threads |-> 0]
    /\ loc = [t \in Threads |-> 0]

-----------------------------------------------------------------------------
(* main() *)

MainCreate ==
    /\ mpc = "create"
    /\ tpc' = [tpc EXCEPT ![n] = "test"]
    /\ IF n < NUM_THREADS THEN n' = n + 1 /\ mpc' = mpc ELSE n' = 1 /\ mpc' = "join"
    /\ UNCHANGED <<numLoops, glob, mutex, loops, loc>>

\* pthread_create() fails: exit() ends the process.
MainCreateFails ==
    /\ mpc = "create"
    /\ mpc' = "exit"
    /\ UNCHANGED <<n, numLoops, glob, mutex, tpc, loops, loc>>

\* After the second join main() prints glob and returns.
MainJoin ==
    /\ mpc = "join" /\ tpc[n] = "done"
    /\ IF n < NUM_THREADS THEN n' = n + 1 /\ mpc' = mpc ELSE n' = n /\ mpc' = "printed"
    /\ UNCHANGED <<numLoops, glob, mutex, tpc, loops, loc>>

-----------------------------------------------------------------------------
(* f() *)

ThreadAt(t, here, next) ==
    /\ mpc \notin {"exit", "printed"}
    /\ tpc[t] = here
    /\ tpc' = [tpc EXCEPT ![t] = next]
    /\ UNCHANGED <<mpc, n, numLoops>>

ThreadEnd(t) ==
    /\ ThreadAt(t, "test", "done")
    /\ loops[t] >= numLoops
    /\ UNCHANGED <<glob, mutex, loops, loc>>

MutEnterNoLock(t) ==
    /\ ThreadAt(t, "test", "load")
    /\ loops[t] < numLoops
    /\ UNCHANGED <<glob, mutex, loops, loc>>

ThreadEnter(t) ==
    /\ ThreadAt(t, "test", "load")
    /\ loops[t] < numLoops
    /\ \/ Locked /\ mutex = None /\ mutex' = t
       \/ ~Locked /\ UNCHANGED mutex
    /\ UNCHANGED <<glob, loops, loc>>

ThreadLoad(t) ==
    /\ ThreadAt(t, "load", "store")
    /\ loc' = [loc EXCEPT ![t] = glob]
    /\ UNCHANGED <<glob, mutex, loops>>

ThreadStore(t) ==
    /\ ThreadAt(t, "store", "next")
    /\ loc' = [loc EXCEPT ![t] = Increment(loc[t])]
    /\ glob' = Increment(loc[t])
    /\ UNCHANGED <<mutex, loops>>

ThreadNextLoop(t) ==
    /\ ThreadAt(t, "next", "test")
    /\ loops' = [loops EXCEPT ![t] = @ + 1]
    /\ mutex' = None
    /\ UNCHANGED <<glob, loc>>

ThreadNext(t) ==
    \/ ThreadEnd(t) \/ ThreadEnter(t) \/ ThreadLoad(t) \/ ThreadStore(t)
    \/ ThreadNextLoop(t)

-----------------------------------------------------------------------------
Next ==
    \/ MainCreate \/ MainCreateFails \/ MainJoin
    \/ \E t \in Threads : ThreadNext(t)

Spec == Init /\ [][Next]_vars

\* Every runnable thread runs.
Fairness ==
    /\ WF_vars(MainCreate \/ MainJoin)
    /\ \A t \in Threads : WF_vars(ThreadNext(t))

FairSpec == Spec /\ Fairness

-----------------------------------------------------------------------------
TypeOK ==
    /\ mpc \in {"create", "join", "printed", "exit"}
    /\ n \in Threads
    /\ numLoops \in IntRange
    /\ glob \in IntRange
    /\ mutex \in Threads \cup {None}
    /\ tpc \in [Threads -> {"unborn", "test", "load", "store", "next", "done"}]
    /\ loops \in [Threads -> Nat]
    /\ loc \in [Threads -> IntRange]

\* With the mutex no increment is lost: main() prints 2 * numLoops whenever
\* that fits in an int.
NothingLost ==
    Locked /\ mpc = "printed" /\ numLoops >= 0 /\ 2 * numLoops <= IntMax =>
        glob = 2 * numLoops

\* Without it updates are lost, but never below two: the last store of one
\* thread follows a load that has seen a store of the other or its own.
LossBounded ==
    mpc = "printed" /\ numLoops >= 1 /\ 2 * numLoops <= IntMax =>
        /\ glob <= 2 * numLoops
        /\ glob >= IF numLoops = 1 THEN 1 ELSE 2

\* glob is printed once, when both threads have ended.
Ends == <>(mpc \in {"printed", "exit"})

-----------------------------------------------------------------------------
(* The strengthening that makes NothingLost inductive. *)

Stored(t) == IF tpc[t] = "next" THEN loops[t] + 1 ELSE loops[t]

Mutex ==
    /\ \A t \in Threads :
         /\ mutex = t <=> tpc[t] \in {"load", "store", "next"}
         /\ tpc[t] = "store" => loc[t] = glob
         /\ tpc[t] = "unborn" => loops[t] = 0
         /\ tpc[t] = "done" => loops[t] >= numLoops
         /\ tpc[t] \in {"load", "store", "next"} => loops[t] < numLoops
         /\ loops[t] = 0 \/ loops[t] <= numLoops
    /\ mpc = "create" => \A t \in n..NUM_THREADS : tpc[t] = "unborn"
    /\ mpc = "join" /\ n = 2 => tpc[1] = "done"
    /\ mpc = "printed" => \A t \in Threads : tpc[t] = "done"
    /\ numLoops >= 0 /\ 2 * numLoops <= IntMax => glob = Stored(1) + Stored(2)

IInv == TypeOK /\ (Locked => Mutex)

-----------------------------------------------------------------------------
(* Proofs, for every number of loops and every width of int. *)

\* The conversion to int lands in the int range.
LEMMA ToIntRange ==
    ASSUME IncrAssumption, NEW arg \in Args PROVE ToInt(arg) \in IntRange
<1> DEFINE m == 2 * (IntMax + 1)
           x == arg + IntMax + 1
<1>1. m \in Nat /\ m > 0 /\ x \in Int
    BY DEF IncrAssumption
<1>2. x % m \in 0..(m - 1)
  <2> HIDE DEF m, x
  <2> QED
    BY <1>1
<1> QED
    BY <1>1, <1>2 DEF IncrAssumption, ToInt, IntRange

USE DEF IncrAssumption, Threads, NUM_THREADS, None

\* No thread runs and nothing is added when main() starts.
LEMMA InitInv == ASSUME IncrAssumption PROVE Init => IInv
<1> SUFFICES ASSUME Init PROVE IInv
    OBVIOUS
<1>1. numLoops \in IntRange
    BY ToIntRange DEF Init
<1>2. TypeOK
    BY <1>1 DEF Init, TypeOK, IntRange
<1>3. Mutex
    BY <1>1 DEF Init, Mutex, Stored, IntRange
<1> QED
    BY <1>2, <1>3 DEF IInv

\* Every statement keeps the state well typed; ++loc wraps within int.
LEMMA TypeStep == ASSUME IncrAssumption PROVE TypeOK /\ [Next]_vars => TypeOK'
<1> SUFFICES ASSUME TypeOK, [Next]_vars PROVE TypeOK'
    OBVIOUS
<1> USE DEF TypeOK
<1>1. CASE UNCHANGED vars
    BY <1>1 DEF vars
<1>2. CASE MainCreate
    BY <1>2 DEF MainCreate
<1>3. CASE MainCreateFails \/ MainJoin
    BY <1>3 DEF MainCreateFails, MainJoin
<1>4. ASSUME NEW t \in Threads, ThreadNext(t) PROVE TypeOK'
  <2> USE DEF ThreadAt
  <2>1. CASE ThreadEnd(t)
    BY <2>1 DEF ThreadEnd
  <2>2. CASE ThreadEnter(t)
    BY <2>2 DEF ThreadEnter
  <2>3. CASE ThreadLoad(t)
    BY <2>3 DEF ThreadLoad
  <2>4. CASE ThreadStore(t)
    <3>1. Increment(loc[t]) \in IntRange
        BY DEF Increment, IntRange
    <3> QED
        BY <2>4, <3>1 DEF ThreadStore
  <2>5. CASE ThreadNextLoop(t)
    BY <2>5 DEF ThreadNextLoop
  <2> QED
    BY <1>4, <2>1, <2>2, <2>3, <2>4, <2>5 DEF ThreadNext
<1> QED
    BY <1>1, <1>2, <1>3, <1>4 DEF Next

\* With the mutex, the thread between its load and its store is alone: glob
\* is the sum of what the two threads have stored.
LEMMA MutexStep == ASSUME IncrAssumption PROVE TypeOK /\ Locked /\ Mutex /\ [Next]_vars => Mutex'
<1> SUFFICES ASSUME TypeOK, Locked, Mutex, [Next]_vars PROVE Mutex'
    OBVIOUS
<1> USE DEF TypeOK, IntRange, Mutex, Stored
<1>1. CASE UNCHANGED vars
    BY <1>1 DEF vars
<1>2. CASE MainCreate
    BY <1>2 DEF MainCreate
<1>3. CASE MainCreateFails \/ MainJoin
    BY <1>3 DEF MainCreateFails, MainJoin
<1>4. ASSUME NEW t \in Threads, ThreadNext(t) PROVE Mutex'
  <2> USE DEF ThreadAt
  <2>1. CASE ThreadEnd(t)
    BY <2>1 DEF ThreadEnd
  <2>2. CASE ThreadEnter(t)
    BY <2>2 DEF ThreadEnter
  <2>3. CASE ThreadLoad(t)
    BY <2>3 DEF ThreadLoad
  <2>4. CASE ThreadStore(t)
    BY <2>4 DEF ThreadStore, Increment
  <2>5. CASE ThreadNextLoop(t)
    BY <2>5 DEF ThreadNextLoop
  <2> QED
    BY <1>4, <2>1, <2>2, <2>3, <2>4, <2>5 DEF ThreadNext
<1> QED
    BY <1>1, <1>2, <1>3, <1>4 DEF Next

\* IInv is an invariant of both programs.
THEOREM Invariance == ASSUME IncrAssumption PROVE Spec => []IInv
<1>1. IInv /\ [Next]_vars => IInv'
    BY TypeStep, MutexStep DEF IInv
<1> QED
    BY <1>1, InitInv, PTL DEF Spec

\* Every variable keeps its type; glob never leaves the range of int.
THEOREM TypeCorrect == ASSUME IncrAssumption PROVE Spec => []TypeOK
<1>1. IInv => TypeOK
    BY DEF IInv
<1> QED
    BY <1>1, Invariance, PTL

\* With the mutex main() prints exactly 2 * numLoops, for every numLoops for
\* which that fits in an int.
THEOREM NoIncrementLost == ASSUME IncrAssumption PROVE Spec => []NothingLost
<1>1. IInv => NothingLost
    BY DEF IInv, TypeOK, IntRange, Mutex, Stored, NothingLost
<1> QED
    BY <1>1, Invariance, PTL
=============================================================================
