----------------------------- MODULE FreeAndSbrk -----------------------------
(***************************************************************************)
(* memalloc/src/free_and_sbrk.c: allocate numAllocs blocks and free some   *)
(* of them, with unsigned arithmetic that wraps around at ULONG_RANGE.     *)
(***************************************************************************)
EXTENDS Integers

CONSTANTS MAX_ALLOCS,   \* the size of memBlocks
          ULONG_RANGE   \* the number of values of an unsigned long

ULong == 0..(ULONG_RANGE - 1)

\* In the code 10^6 and 2^64.
FreeAssumption ==
    /\ MAX_ALLOCS \in Nat
    /\ ULONG_RANGE \in Nat \ {0}
    /\ 2 * MAX_ALLOCS <= ULONG_RANGE

VARIABLES pc,           \* the next statement
          numAllocs, freeStep, freeMin, freeMax,    \* the arguments
          i,            \* the index of the loop
          block         \* the state of each memBlocks[]

vars == <<pc, numAllocs, freeStep, freeMin, freeMax, i, block>>
args == <<numAllocs, freeStep, freeMin, freeMax>>

Init ==
    /\ numAllocs \in ULong /\ freeStep \in ULong /\ freeMin \in ULong /\ freeMax \in ULong
    /\ pc = "check"
    /\ i = 0
    /\ block = [k \in 0..(MAX_ALLOCS - 1) |-> "uninitialised"]

Check ==
    /\ pc = "check"
    /\ pc' = IF numAllocs > MAX_ALLOCS \/ freeMax > numAllocs THEN "failed" ELSE "malloc"
    /\ UNCHANGED <<args, i, block>>

Malloc ==
    /\ pc = "malloc" /\ i < numAllocs
    /\ block' = [block EXCEPT ![i] = "allocated"]
    /\ i' = i + 1
    /\ UNCHANGED <<args, pc>>

MallocFails ==
    /\ pc = "malloc" /\ i < numAllocs
    /\ pc' = "failed"
    /\ UNCHANGED <<args, i, block>>

MutMalloced ==
    /\ pc = "malloc" /\ i = numAllocs
    /\ pc' = "free"
    /\ i' = freeMin
    /\ UNCHANGED <<args, block>>

\* i = freeMin - 1
Malloced ==
    /\ pc = "malloc" /\ i = numAllocs
    /\ pc' = "free"
    /\ i' = (freeMin - 1) % ULONG_RANGE
    /\ UNCHANGED <<args, block>>

Free ==
    /\ pc = "free" /\ i < freeMax
    /\ block' = [block EXCEPT ![i] = IF @ = "allocated" THEN "freed" ELSE "corrupted"]
    /\ i' = (i + freeStep) % ULONG_RANGE
    /\ UNCHANGED <<args, pc>>

Freed ==
    /\ pc = "free" /\ i >= freeMax
    /\ pc' = "done"
    /\ UNCHANGED <<args, i, block>>

Next == Check \/ Malloc \/ MallocFails \/ Malloced \/ Free \/ Freed

Spec == Init /\ [][Next]_vars

\* The blocks that line 47 announces.
Announced == {k \in 0..(freeMax - 1) : \E m \in 0..freeMax : k = freeMin - 1 + m * freeStep}

\* free_and_sbrk.c:48: unless the step is 0, free() is called only for blocks that
\* are allocated, however the index wraps around; and if it does not, for exactly
\* the blocks announced.
FreesAllocatedBlocks ==
    freeStep # 0 =>
    /\ \A k \in DOMAIN block : block[k] # "corrupted"
    /\ pc = "done" /\ freeMin > 0 /\ freeStep <= ULONG_RANGE - freeMax =>
         {k \in DOMAIN block : block[k] = "freed"} = Announced
=============================================================================
