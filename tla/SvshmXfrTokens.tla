--------------------------- MODULE SvshmXfrTokens ---------------------------
(***************************************************************************)
(* Proofs about SvshmXfr: the count of tokens, for every finite set of     *)
(* readers, with and without stale ones; and what the writer's last        *)
(* reserve waits for.                                                      *)
(***************************************************************************)
EXTENDS SvshmXfrProofs, FiniteSetTheorems

InSegment == {"test", "write", "release", "shmdt", "finalRelease"}

LEMMA HoldersFinite == IsFiniteSet(Holders) /\ Cardinality(Holders) \in Nat
  <1>1. Holders \in SUBSET Readers
    BY DEF Holders
  <1>2. IsFiniteSet(Holders)
    BY <1>1, XfrAssumption, FS_Subset
  <1> QED
    BY <1>2, FS_CardinalityType

\* The number of readers in the segment changes with the one reader that moves.
LEMMA HoldersMove ==
    ASSUME TypeOK, NEW r \in Readers, NEW here, NEW next, ReaderAt(r, here, next)
    PROVE  /\ (here \in InSegment <=> next \in InSegment) =>
                Cardinality(Holders)' = Cardinality(Holders)
           /\ here \notin InSegment /\ next \in InSegment =>
                Cardinality(Holders)' = Cardinality(Holders) + 1
           /\ here \in InSegment /\ next \notin InSegment =>
                Cardinality(Holders)' = Cardinality(Holders) - 1
  <1>1. /\ rpc[r] = here /\ rpc'[r] = next
        /\ \A q \in Readers : q # r => rpc'[q] = rpc[q]
    BY ReaderFrame
  <1>2. CASE here \in InSegment <=> next \in InSegment
    <2>1. Holders' = Holders
      BY <1>1, <1>2 DEF Holders, ReaderHolds, InSegment
    <2> QED
      BY <1>2, <2>1
  <1>3. CASE here \notin InSegment /\ next \in InSegment
    <2>1. Holders' = Holders \cup {r} /\ r \notin Holders
      BY <1>1, <1>3 DEF Holders, ReaderHolds, InSegment
    <2> QED
      BY <1>3, <2>1, HoldersFinite, FS_AddElement
  <1>4. CASE here \in InSegment /\ next \notin InSegment
    <2>1. Holders' = Holders \ {r} /\ r \in Holders
      BY <1>1, <1>4 DEF Holders, ReaderHolds, InSegment
    <2> QED
      BY <1>4, <2>1, HoldersFinite, FS_RemoveElement
  <1> QED
    BY <1>2, <1>3, <1>4

LEMMA WriterTokens == ASSUME TypeOK, TokenCount, WriterNext PROVE TokenCount'
  <1>1. rpc' = rpc /\ stale' = stale
    BY DEF WriterNext, WriterAt, WriterSemget, WriterInitWriteSem, WriterInitReadSem,
       WriterShmget, WriterShmat, WriterLoopInit, WriterReserve, WriterReadBlock,
       WriterReadEof, WriterReadError, WriterRelease, WriterCount, WriterFinalReserve,
       WriterShmdt, WriterShmRmid, WriterSemRmid
  <1>2. Holders' = Holders
    BY <1>1 DEF Holders, ReaderHolds
  <1>3. /\ Cardinality(Holders)' = Cardinality(Holders) /\ Cardinality(Holders) \in Nat
        /\ stale \in Nat /\ sem[0] \in Nat /\ sem[1] \in Nat
    BY <1>2, HoldersFinite DEF TypeOK, Sems, WRITE_SEM, READ_SEM
  <1> USE <1>1, <1>3 DEF TokenCount, TokensBounded, Tokens, WriterHolds, NotInitialised,
          WriterEnd, WRITE_SEM, READ_SEM
  <1>4. CASE WriterInitWriteSem \/ WriterInitReadSem
    BY <1>4 DEF WriterInitWriteSem, WriterInitReadSem, WriterAt, initSem, TypeOK, Sems
  <1>5. CASE WriterReserve \/ WriterFinalReserve
    BY <1>5 DEF WriterReserve, WriterFinalReserve, WriterAt, reserveSem, TypeOK, Sems
  <1>6. CASE WriterRelease
    BY <1>6 DEF WriterRelease, WriterAt, releaseSem, TypeOK, Sems
  <1>7. CASE WriterSemget
    BY <1>7 DEF WriterSemget, WriterAt
  <1>8. CASE /\ sem' = sem /\ wpc \notin NotInitialised /\ wpc' \notin NotInitialised
             /\ WriterHolds' = WriterHolds
    BY <1>8
  <1>9. CASE WriterShmget \/ WriterShmat \/ WriterLoopInit \/ WriterReadBlock \/ WriterReadEof
             \/ WriterReadError
    BY <1>9 DEF WriterShmget, WriterShmat, WriterLoopInit, WriterReadBlock, WriterReadEof,
       WriterReadError, WriterAt
  <1>10. CASE WriterCount \/ WriterShmdt \/ WriterShmRmid \/ WriterSemRmid
    BY <1>10 DEF WriterCount, WriterShmdt, WriterShmRmid, WriterSemRmid, WriterAt
  <1> QED
    BY <1>4, <1>5, <1>6, <1>7, <1>9, <1>10 DEF WriterNext

LEMMA ReaderTokens ==
    ASSUME TypeOK, TokenCount, NEW r \in Readers, ReaderNext(r) PROVE TokenCount'
  <1>0. /\ Cardinality(Holders) \in Nat /\ stale \in Nat /\ sem[0] \in Nat /\ sem[1] \in Nat
        /\ sem \in [{0, 1} -> Nat]
    BY HoldersFinite DEF TypeOK, Sems, WRITE_SEM, READ_SEM
  <1> USE <1>0 DEF TokenCount, TokensBounded, Tokens, WriterHolds, WRITE_SEM, READ_SEM
  <1>1. ASSUME NEW here, NEW next, ReaderAt(r, here, next), UNCHANGED <<sem, stale>>,
               here \in InSegment <=> next \in InSegment
        PROVE  TokenCount'
    <2>1. Cardinality(Holders)' = Cardinality(Holders) /\ wpc' = wpc
      BY <1>1, HoldersMove DEF ReaderAt
    <2> QED
      BY <1>1, <2>1
  <1>2. ASSUME NEW here, ReaderExits(r, here) PROVE TokenCount'
    BY <1>1, <1>2 DEF ReaderExits
  <1>3. ASSUME NEW here \in InSegment, NEW next, next \notin InSegment,
               ReaderAt(r, here, next), releaseSem(WRITE_SEM), UNCHANGED stale
        PROVE  TokenCount'
    <2>1. Cardinality(Holders)' = Cardinality(Holders) - 1 /\ wpc' = wpc
      BY <1>3, HoldersMove DEF ReaderAt
    <2>2. sem'[0] = sem[0] + 1 /\ sem'[1] = sem[1]
      BY <1>3 DEF releaseSem
    <2> QED
      BY <1>3, <2>1, <2>2 DEF NotInitialised
  <1>4. CASE /\ ReaderAt(r, "reserve", "test") /\ reserveSem(READ_SEM)
             /\ stale' = stale + (IF wpc \in NotInitialised THEN 1 ELSE 0)
    <2>1. Cardinality(Holders)' = Cardinality(Holders) + 1 /\ wpc' = wpc
      BY <1>4, HoldersMove DEF ReaderAt, InSegment
    <2>2. sem'[0] = sem[0] /\ sem'[1] = sem[1] - 1
      BY <1>4 DEF reserveSem
    <2> QED
      BY <1>4, <2>1, <2>2 DEF NotInitialised
  <1>5. CASE ReaderSemget(r) \/ ReaderShmget(r) \/ ReaderShmat(r)
    BY <1>5, <1>1, <1>2 DEF ReaderSemget, ReaderShmget, ReaderShmat, InSegment
  <1>6. CASE ReaderReserve(r)
    BY <1>6, <1>2, <1>4 DEF ReaderReserve
  <1>7. CASE ReaderTest(r) \/ ReaderWrite(r) \/ ReaderCount(r) \/ ReaderShmdt(r)
    BY <1>7, <1>1 DEF ReaderTest, ReaderWrite, ReaderCount, ReaderShmdt, InSegment
  <1>8. CASE ReaderRelease(r) \/ ReaderFinalRelease(r)
    BY <1>8, <1>2, <1>3 DEF ReaderRelease, ReaderFinalRelease, InSegment
  <1> QED
    BY <1>5, <1>6, <1>7, <1>8 DEF ReaderNext

LEMMA InitTokens == Init => TokenCount
  <1> SUFFICES ASSUME Init PROVE TokenCount
    OBVIOUS
  <1>1. Holders = {}
    BY DEF Init, Holders, ReaderHolds
  <1>2. Cardinality(Holders) = 0
    BY <1>1, FS_EmptySet
  <1> QED
    BY <1>2 DEF Init, TokenCount, TokensBounded, NotInitialised

LEMMA NextTokens == TypeOK /\ TokenCount /\ [Next]_vars => TokenCount'
  <1> SUFFICES ASSUME TypeOK, TokenCount, [Next]_vars PROVE TokenCount'
    OBVIOUS
  <1>1. CASE UNCHANGED <<wpc, rpc, ipc>>
    <2>1. Holders' = Holders /\ UNCHANGED <<wpc, sem, stale>>
      BY <1>1 DEF Holders, ReaderHolds, ipc
    <2> QED
      BY <2>1 DEF TokenCount, TokensBounded, Tokens, WriterHolds
  <1> QED
    BY <1>1, WriterTokens, ReaderTokens DEF Next, Exit, vars

\* Whatever an earlier run left and whoever crashes, available semaphores and
\* processes inside the segment are at most one more than the stale tokens taken.
THEOREM TokensNeverMade == Spec => []TokensBounded
  <1>1. TokenCount => TokensBounded
    BY DEF TokenCount
  <1> QED
    BY <1>1, InitTokens, NextTokens, TypeCorrect, PTL DEF Spec

-----------------------------------------------------------------------------
\* A step changes the program counter of one reader at most, and no reader
\* goes back before its semget(): a reader alone now was alone before.
LEMMA AloneBefore ==
    ASSUME TypeOK, [Next]_vars, NEW r \in Readers, OnlyReader(r)'
    PROVE  /\ OnlyReader(r)
           /\ \A q \in Readers \ {r} : rpc[q] = "semget" /\ rpc'[q] = "semget"
  <1> USE DEF OnlyReader, Started
  <1>1. CASE UNCHANGED rpc
    BY <1>1
  <1>2. ASSUME NEW p \in Readers, NEW here, NEW next, ReaderAt(p, here, next),
               here = "semget" \/ next # "semget"
        PROVE  OnlyReader(r)
    <2>1. /\ rpc[p] = here /\ rpc'[p] = next
          /\ \A q \in Readers : q # p => rpc'[q] = rpc[q]
      BY <1>2, ReaderFrame
    <2> QED
      BY <1>2, <2>1
  <1>3. ASSUME NEW p \in Readers, ReaderNext(p) PROVE OnlyReader(r)
    BY <1>3, <1>2 DEF ReaderNext, ReaderExits, ReaderSemget, ReaderShmget, ReaderShmat,
       ReaderReserve, ReaderTest, ReaderWrite, ReaderRelease, ReaderCount, ReaderShmdt,
       ReaderFinalRelease
  <1>4. WriterNext => UNCHANGED rpc
    BY DEF WriterNext, WriterAt, WriterSemget, WriterInitWriteSem, WriterInitReadSem,
       WriterShmget, WriterShmat, WriterLoopInit, WriterReserve, WriterReadBlock,
       WriterReadEof, WriterReadError, WriterRelease, WriterCount, WriterFinalReserve,
       WriterShmdt, WriterShmRmid, WriterSemRmid
  <1> QED
    BY <1>1, <1>3, <1>4 DEF Next, Exit, vars

\* The writer announces the end of the input while it holds the segment, and
\* goes on to its cleanup only through WRITE_SEM.
LEMMA WriterLastAccess == ASSUME TypeOK, Protocol, LastAccess, WriterNext PROVE LastAccess'
  <1> USE DEF LastAccess, OnlyReader, Started
  <1> SUFFICES ASSUME NEW r \in Readers
               PROVE  /\ rpc'[r] = "release" => ~eof'
                      /\ OnlyReader(r)' /\ eof' /\ (sem'[WRITE_SEM] = 1 \/ wpc' \in WriterEnd) =>
                           rpc'[r] = "done"
    OBVIOUS
  <1>1. rpc' = rpc
    BY DEF WriterNext, WriterAt, WriterSemget, WriterInitWriteSem, WriterInitReadSem,
       WriterShmget, WriterShmat, WriterLoopInit, WriterReserve, WriterReadBlock,
       WriterReadEof, WriterReadError, WriterRelease, WriterCount, WriterFinalReserve,
       WriterShmdt, WriterShmRmid, WriterSemRmid
  <1>2. CASE WriterReadEof
    <2>1. wpc = "read" /\ wpc' = "release" /\ UNCHANGED sem
      BY <1>2 DEF WriterReadEof, WriterAt
    <2>2. sem[WRITE_SEM] = 0 /\ ~ReaderHolds(r)
      BY <2>1 DEF Protocol, OneToken, Exclusive, WriterHolds, WriterInit, NotInitialised
    <2> QED
      BY <1>1, <2>1, <2>2 DEF ReaderHolds, WriterEnd
  <1>3. CASE WriterInitWriteSem \/ WriterInitReadSem
    <2>1. ~eof /\ eof' = eof
      BY <1>3 DEF Protocol, SlotState, WriterInitWriteSem, WriterInitReadSem, WriterAt,
         WriterInit, NotInitialised
    <2> QED
      BY <2>1
  <1>4. CASE WriterReserve \/ WriterRelease
    <2>1. /\ sem'[WRITE_SEM] = 1 => sem[WRITE_SEM] = 1
          /\ eof' = eof /\ wpc' \notin WriterEnd
      <3>1. CASE WriterReserve
        <4>1. sem[WRITE_SEM] \in {0, 1}
          BY <3>1 DEF WriterReserve, WriterAt, TypeOK, Sems, WRITE_SEM, READ_SEM,
             Protocol, OneToken, WriterInit, NotInitialised
        <4> QED
          BY <3>1, <4>1 DEF WriterReserve, WriterAt, WriterEnd, reserveSem, TypeOK, Sems,
             WRITE_SEM, READ_SEM
      <3>2. CASE WriterRelease
        BY <3>2 DEF WriterRelease, WriterAt, WriterEnd, releaseSem, TypeOK, Sems,
           WRITE_SEM, READ_SEM
      <3> QED
        BY <1>4, <3>1, <3>2
    <2> QED
      BY <1>1, <2>1
  <1>5. CASE WriterFinalReserve
    <2>1. eof' = eof /\ eof /\ sem[WRITE_SEM] = 1
      BY <1>5 DEF WriterFinalReserve, WriterAt, reserveSem, TypeOK, Protocol, SlotState, OneToken,
         WriterInit, NotInitialised, Sems, WRITE_SEM, READ_SEM
    <2> QED
      BY <1>1, <2>1
  <1>6. CASE UNCHANGED <<sem, eof>> /\ (wpc' \in WriterEnd => wpc \in WriterEnd)
    BY <1>1, <1>6
  <1> QED
    BY <1>2, <1>3, <1>4, <1>5, <1>6 DEF WriterNext, WriterAt, WriterSemget,
       WriterShmget, WriterShmat, WriterLoopInit, WriterReadBlock,
       WriterReadError, WriterCount, WriterShmdt, WriterShmRmid, WriterSemRmid, WriterEnd

\* A reader that gives WRITE_SEM back has either written a block of an input
\* that goes on, or is done.
LEMMA ReaderLastAccess ==
    ASSUME TypeOK, Protocol, LastAccess, NEW p \in Readers, ReaderNext(p) PROVE LastAccess'
  <1> USE DEF LastAccess
  <1>1. [Next]_vars
    BY DEF Next
  <1>2. SUFFICES ASSUME NEW r \in Readers
               PROVE  /\ rpc'[r] = "release" => ~eof'
                      /\ OnlyReader(r)' /\ eof' /\ (sem'[WRITE_SEM] = 1 \/ wpc' \in WriterEnd) =>
                           rpc'[r] = "done"
    OBVIOUS
  <1>3. PICK here, next : ReaderAt(p, here, next) /\ (here = "done" => next = "done")
    BY DEF ReaderNext, ReaderExits, ReaderSemget, ReaderShmget, ReaderShmat,
       ReaderReserve, ReaderTest, ReaderWrite, ReaderRelease, ReaderCount, ReaderShmdt,
       ReaderFinalRelease
  <1>4. /\ rpc[p] = here /\ rpc'[p] = next
        /\ \A q \in Readers : q # p => rpc'[q] = rpc[q]
        /\ wpc' = wpc /\ eof' = eof
    BY <1>3, ReaderFrame
  <1>5. OnlyReader(r)' => OnlyReader(r) /\ (r # p => rpc'[p] = "semget")
    BY <1>1, AloneBefore
  <1>6. CASE ReaderRelease(p) \/ ReaderFinalRelease(p)
    <2>1. semExists
      BY <1>6, ReleaserFindsSet DEF ReaderRelease, ReaderFinalRelease, ReaderExits, ReaderAt
    <2>2. \/ rpc[p] = "release" /\ rpc'[p] = "count"
          \/ rpc'[p] = "done"
      BY <1>6, <2>1 DEF ReaderRelease, ReaderFinalRelease, ReaderAt, TypeOK
    <2> QED
      BY <1>4, <1>5, <2>2
  <1>7. CASE ReaderWrite(p)
    <2>1. rpc[p] = "write" /\ ~eof
      BY <1>7 DEF ReaderWrite, ReaderAt, Protocol, SlotState
    <2> QED
      BY <1>4, <2>1
  <1>8. CASE (sem'[WRITE_SEM] = sem[WRITE_SEM]) /\ next # "release"
    BY <1>3, <1>4, <1>5, <1>8
  <1>9. CASE ReaderReserve(p)
    <2>1. sem'[WRITE_SEM] = sem[WRITE_SEM] /\ next # "release"
      BY <1>4, <1>9 DEF ReaderReserve, ReaderExits, ReaderAt, reserveSem, TypeOK, Sems,
         WRITE_SEM, READ_SEM
    <2> QED
      BY <2>1, <1>8
  <1>10. CASE ~ReaderWrite(p) /\ ~ReaderRelease(p) /\ ~ReaderFinalRelease(p) /\ ~ReaderReserve(p)
    <2>1. sem' = sem /\ rpc'[p] # "release"
      BY <1>10 DEF ReaderNext, ReaderAt, ReaderExits, ReaderSemget, ReaderShmget, ReaderShmat,
         ReaderTest, ReaderCount, ReaderShmdt, TypeOK
    <2> QED
      BY <2>1, <1>4, <1>8
  <1> QED
    BY <1>6, <1>7, <1>9, <1>10

\* The writer removes the segment and the semaphores only after a reader that
\* was alone in the transfer has had its last look and given WRITE_SEM back, as
\* long as it took no stale token.
THEOREM RemovalWaits == Spec => []RemovedAfterLastAccess
  <1> DEFINE Waits == stale = 0 => LastAccess
  <1>1. Init => Waits
    BY DEF Init, LastAccess
  <1>2. IInv /\ Waits /\ [Next]_vars => Waits'
    <2> SUFFICES ASSUME IInv, Waits, [Next]_vars, stale' = 0 PROVE LastAccess'
      OBVIOUS
    <2>1. TypeOK /\ Protocol /\ LastAccess
      BY StaleGrows DEF IInv
    <2>2. CASE UNCHANGED <<wpc, rpc, ipc, hist>>
      BY <2>1, <2>2 DEF LastAccess, OnlyReader, Started, ipc, hist
    <2> QED
      BY <2>1, <2>2, WriterLastAccess, ReaderLastAccess DEF Next, Exit, vars
  <1>3. IInv /\ Waits => RemovedAfterLastAccess
    BY DEF IInv, LastAccess, RemovedAfterLastAccess, Protocol, SlotState
  <1> QED
    BY <1>1, <1>2, <1>3, Invariance, PTL DEF Spec
=============================================================================
