-------------------------- MODULE FreeAndSbrkProofs --------------------------
(***************************************************************************)
(* Proofs about free_and_sbrk.c, for every number of blocks and every      *)
(* width of unsigned long that holds twice as many.                        *)
(***************************************************************************)
EXTENDS FreeAndSbrk, TLAPS

Dom == 0..(MAX_ALLOCS - 1)

TypeOK ==
    /\ pc \in {"check", "malloc", "free", "done", "failed"}
    /\ numAllocs \in ULong /\ freeStep \in ULong /\ freeMin \in ULong /\ freeMax \in ULong
    /\ i \in ULong
    /\ block \in [Dom -> {"uninitialised", "allocated", "freed", "corrupted"}]

\* The index never wraps around: a step is less than what is left of the range.
Rising == freeStep <= ULONG_RANGE - freeMax

\* k is the first block or some steps after it.
OnPath(k) == \E m \in Nat : k = freeMin - 1 + m * freeStep

\* What holds while the blocks are allocated.
Allocating ==
    /\ pc \in {"malloc", "free", "done"} => numAllocs <= MAX_ALLOCS /\ freeMax <= numAllocs
    /\ pc = "check" => i = 0
    /\ pc = "malloc" => i <= numAllocs
    /\ pc = "done" => i >= freeMax
    /\ pc \in {"check", "malloc"} =>
         \A k \in Dom : block[k] = IF k < i THEN "allocated" ELSE "uninitialised"

\* What holds while they are freed.  Where the index wraps around, adding the step
\* is subtracting what it lacks from the range: the index falls.
Freeing ==
    pc \in {"free", "done"} /\ freeStep # 0 =>
        /\ Rising => \A k \in i..(freeMax - 1) : block[k] = "allocated"
        /\ ~Rising /\ i < freeMax => \A k \in 0..i : block[k] = "allocated"
        /\ Rising /\ freeMin > 0 =>
             /\ OnPath(i)
             /\ \A k \in Dom : block[k] = "freed" <=> k < i /\ k < freeMax /\ OnPath(k)

IInv ==
    /\ TypeOK /\ Allocating /\ Freeing
    /\ freeStep # 0 => \A k \in Dom : block[k] # "corrupted"

-----------------------------------------------------------------------------
(* Arithmetic *)

\* A remainder lies below the divisor.
LEMMA ModRange ==
    ASSUME NEW R \in Nat, R > 0, NEW x \in Int PROVE x % R \in 0..(R - 1)
OBVIOUS

\* The sum of two numbers of a range wraps around at most once.
LEMMA ModSum ==
    ASSUME NEW R \in Nat, R > 0, NEW x \in 0..(2 * R - 1)
    PROVE  x % R = IF x < R THEN x ELSE x - R
OBVIOUS

\* Multiplication by a natural number is monotonic.
LEMMA TimesMonotonic ==
    ASSUME NEW s \in Nat, NEW a \in Nat, NEW b \in Nat, a <= b
    PROVE  a * s <= b * s
<1>1. b * s = a * s + (b - a) * s /\ (b - a) * s >= 0
    OBVIOUS
<1> QED
    BY <1>1

\* A multiple of a positive number is no less than its factor.
LEMMA TimesAtLeast ==
    ASSUME NEW s \in Nat, s # 0, NEW m \in Nat PROVE m <= m * s
<1>1. m * s = m + m * (s - 1) /\ m * (s - 1) >= 0
    OBVIOUS
<1> QED
    BY <1>1

\* No multiple of s lies strictly between one and the next.
LEMMA NoneBetween ==
    ASSUME NEW s \in Nat, NEW a \in Nat, NEW b \in Nat, a * s < b * s, b * s < a * s + s
    PROVE  FALSE
<1>1. CASE b <= a
    BY <1>1, TimesMonotonic
<1>2. CASE a + 1 <= b
  <2>1. (a + 1) * s <= b * s
    BY <1>2, TimesMonotonic
  <2>2. (a + 1) * s = a * s + s
    OBVIOUS
  <2> QED
    BY <2>1, <2>2
<1> QED
    BY <1>1, <1>2

-----------------------------------------------------------------------------
USE DEF ULong, Dom, FreeAssumption

\* Nothing is allocated when main() starts.
LEMMA InitInv == ASSUME FreeAssumption PROVE Init => IInv
    BY DEF Init, IInv, TypeOK, Allocating, Freeing

\* The loop that allocates, and the tests before it.
LEMMA AllocatingStep ==
    ASSUME FreeAssumption, IInv, Check \/ Malloc \/ MallocFails PROVE IInv'
<1> USE DEF IInv, TypeOK, Allocating, Freeing, args
<1>1. CASE Check
    BY <1>1 DEF Check
<1>2. CASE Malloc
  <2>1. i \in Dom /\ i + 1 \in ULong
    BY <1>2 DEF Malloc
  <2> QED
    BY <1>2, <2>1 DEF Malloc
<1>3. CASE MallocFails
    BY <1>3 DEF MallocFails
<1> QED
    BY <1>1, <1>2, <1>3

\* The first index to free, freeMin - 1 or the largest of all.
LEMMA MallocedStep == ASSUME FreeAssumption, IInv, Malloced PROVE IInv'
<1>1. i' \in ULong /\ (freeMin > 0 => i' = freeMin - 1)
    BY ModRange, ModSum DEF IInv, TypeOK, Malloced, args
<1>2. \A k \in 0..(freeMax - 1) : k \in Dom /\ block'[k] = "allocated"
    BY DEF IInv, TypeOK, Allocating, Malloced, args
<1>3. \A k \in Dom : block'[k] \in {"allocated", "uninitialised"}
    BY DEF IInv, TypeOK, Allocating, Malloced, args
<1>4. TypeOK' /\ Allocating'
    BY <1>1 DEF IInv, TypeOK, Allocating, Malloced, args
<1>5. ASSUME freeMin > 0 PROVE OnPath(i)' /\ \A k \in Dom : k < i' => ~OnPath(k)'
  <2>1. i' = freeMin - 1 + 0 * freeStep
    BY <1>1, <1>5 DEF IInv, TypeOK
  <2>2. ASSUME NEW k \in Dom, k < i', NEW m \in Nat, k = freeMin - 1 + m * freeStep PROVE FALSE
    <3>1. m * freeStep >= 0
        BY DEF IInv, TypeOK
    <3> QED
        BY <1>1, <1>5, <2>2, <3>1 DEF IInv, TypeOK
  <2> QED
    BY <2>1, <2>2 DEF OnPath, Malloced, args
<1>6. Freeing'
    BY <1>1, <1>2, <1>3, <1>5 DEF IInv, TypeOK, Freeing, Rising, Malloced, args
<1> QED
    BY <1>3, <1>4, <1>6 DEF IInv, Malloced, args

\* One free(): the block is allocated, and the next index is beyond every block
\* freed so far in the direction the index moves.
LEMMA FreeStep == ASSUME FreeAssumption, IInv, Free, freeStep # 0 PROVE IInv'
<1> USE DEF args
<1>1. /\ i \in Dom /\ i < freeMax /\ block[i] = "allocated"
      /\ block' = [block EXCEPT ![i] = "freed"]
      /\ UNCHANGED <<pc, numAllocs, freeStep, freeMin, freeMax>> /\ pc = "free"
  <2>1. pc = "free" /\ i < freeMax /\ UNCHANGED <<pc, numAllocs, freeStep, freeMin, freeMax>>
    BY DEF Free
  <2>2. i \in Dom /\ i \in i..(freeMax - 1) /\ i \in 0..i
    BY <2>1 DEF IInv, TypeOK, Allocating
  <2>3. block[i] = "allocated"
    BY <2>1, <2>2 DEF IInv, Freeing
  <2> QED
    BY <2>1, <2>2, <2>3 DEF Free
<1>2. i' = IF i + freeStep < ULONG_RANGE THEN i + freeStep ELSE i + freeStep - ULONG_RANGE
    BY ModSum DEF IInv, TypeOK, Free
<1>3. TypeOK' /\ Allocating'
    BY <1>1, <1>2 DEF IInv, TypeOK, Allocating
<1>4. \A k \in Dom : block'[k] # "corrupted"
    BY <1>1 DEF IInv, TypeOK
<1>5. Rising => i' = i + freeStep /\ i' > i
    BY <1>1, <1>2 DEF IInv, TypeOK, Rising
<1>6. ~Rising /\ i' < freeMax => i' < i
    BY <1>1, <1>2 DEF IInv, TypeOK, Allocating, Rising
<1>7. Rising => \A k \in i'..(freeMax - 1) : block'[k] = "allocated"
    BY <1>1, <1>5 DEF IInv, TypeOK, Allocating, Freeing
<1>8. ~Rising /\ i' < freeMax => \A k \in 0..i' : block'[k] = "allocated"
    BY <1>1, <1>3, <1>6 DEF IInv, TypeOK, Allocating, Freeing
<1>9. ASSUME Rising, freeMin > 0
      PROVE  /\ OnPath(i')
             /\ \A k \in Dom : block'[k] = "freed" <=> k < i' /\ k < freeMax /\ OnPath(k)
  <2>1. PICK q \in Nat : i = freeMin - 1 + q * freeStep
    BY <1>1, <1>9 DEF IInv, Freeing, OnPath
  <2>2. i' = freeMin - 1 + (q + 1) * freeStep
    BY <1>5, <1>9, <2>1 DEF IInv, TypeOK
  <2>3. ASSUME NEW k \in Dom, i < k, k < i' PROVE ~OnPath(k)
    <3>1. SUFFICES ASSUME NEW m \in Nat, k = freeMin - 1 + m * freeStep PROVE FALSE
        BY DEF OnPath
    <3>2. m * freeStep \in Int /\ q * freeStep \in Int /\ freeStep \in Nat
        BY DEF IInv, TypeOK
    <3>3. q * freeStep < m * freeStep /\ m * freeStep < q * freeStep + freeStep
        BY <1>5, <1>9, <2>1, <2>3, <3>1, <3>2 DEF IInv, TypeOK
    <3> QED
        BY <3>2, <3>3, NoneBetween
  <2>4. OnPath(i) /\ OnPath(i')
    BY <2>1, <2>2 DEF OnPath
  <2>5. \A k \in Dom : block[k] = "freed" <=> k < i /\ k < freeMax /\ OnPath(k)
    BY <1>1, <1>9 DEF IInv, Freeing
  <2>6. ASSUME NEW k \in Dom PROVE block'[k] = "freed" <=> k < i' /\ k < freeMax /\ OnPath(k)
    <3>1. CASE k < i
        BY <1>1, <1>5, <1>9, <2>5, <3>1 DEF IInv, TypeOK
    <3>2. CASE k = i
        BY <1>1, <1>5, <1>9, <2>4, <3>2 DEF IInv, TypeOK
    <3>3. CASE i < k
        BY <1>1, <2>3, <2>5, <3>3 DEF IInv, TypeOK
    <3> QED
        BY <1>1, <3>1, <3>2, <3>3
  <2> QED
    BY <2>4, <2>6
<1>10. Freeing'
    BY <1>1, <1>7, <1>8, <1>9 DEF Freeing, Rising, OnPath
<1> QED
    BY <1>3, <1>4, <1>10 DEF IInv

\* With a step of 0 the same block is freed for ever; nothing is claimed of it.
LEMMA FreeZeroStep == ASSUME FreeAssumption, IInv, Free, freeStep = 0 PROVE IInv'
<1>1. i \in Dom /\ i' = i
    BY ModSum DEF IInv, TypeOK, Allocating, Free
<1> QED
    BY <1>1 DEF IInv, TypeOK, Allocating, Freeing, Free, args

\* The invariant that carries the proof: blocks are allocated from the bottom, and
\* the index that frees them moves in one direction only.
THEOREM Invariance == ASSUME FreeAssumption PROVE Spec => []IInv
<1>1. ASSUME IInv, [Next]_vars PROVE IInv'
  <2>1. CASE Freed
    BY <1>1, <2>1 DEF IInv, TypeOK, Allocating, Freeing, Rising, OnPath, Freed, args
  <2>2. CASE UNCHANGED vars
    BY <1>1, <2>2 DEF IInv, TypeOK, Allocating, Freeing, Rising, OnPath, vars
  <2> QED
    BY <1>1, <2>1, <2>2, AllocatingStep, MallocedStep, FreeStep, FreeZeroStep DEF Next
<1> QED
    BY <1>1, InitInv, PTL DEF Spec

\* free_and_sbrk.c:48: for every number of blocks and every width of unsigned long,
\* free() is called only for allocated blocks, and for exactly those announced
\* unless the index wraps around.
THEOREM FreeCorrect == ASSUME FreeAssumption PROVE Spec => []FreesAllocatedBlocks
<1>1. ASSUME IInv PROVE FreesAllocatedBlocks
  <2>1. DOMAIN block = Dom
    BY <1>1 DEF IInv, TypeOK
  <2>2. ASSUME pc = "done", freeMin > 0, Rising, freeStep # 0
        PROVE  {k \in Dom : block[k] = "freed"} = Announced
    <3>1. ASSUME NEW k \in 0..(freeMax - 1), OnPath(k)
          PROVE  \E m \in 0..freeMax : k = freeMin - 1 + m * freeStep
      <4>1. PICK m \in Nat : k = freeMin - 1 + m * freeStep
        BY <3>1 DEF OnPath
      <4>2. freeStep \in Nat /\ freeMin \in Nat /\ freeMax \in Nat /\ m * freeStep \in Int
        BY <1>1 DEF IInv, TypeOK
      <4>3. m <= m * freeStep
        BY <2>2, <4>2, TimesAtLeast
      <4>4. m <= k
        BY <2>2, <4>1, <4>2, <4>3
      <4> QED
        BY <4>1, <4>2, <4>4
    <3>2. \A k \in 0..(freeMax - 1) : k \in Dom /\ k < i
        BY <1>1, <2>2 DEF IInv, TypeOK, Allocating
    <3>3. \A k \in Dom : block[k] = "freed" <=> k < i /\ k < freeMax /\ OnPath(k)
        BY <1>1, <2>2 DEF IInv, Freeing
    <3>4. \A k \in 0..(freeMax - 1) :
             OnPath(k) <=> \E m \in 0..freeMax : k = freeMin - 1 + m * freeStep
        BY <3>1 DEF OnPath
    <3>5. \A k \in Dom : k < freeMax <=> k \in 0..(freeMax - 1)
        BY <1>1 DEF IInv, TypeOK
    <3> QED
        BY <3>2, <3>3, <3>4, <3>5 DEF Announced
  <2> QED
    BY <1>1, <2>1, <2>2 DEF FreesAllocatedBlocks, IInv, Rising
<1> QED
    BY <1>1, Invariance, PTL
=============================================================================
