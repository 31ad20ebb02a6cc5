--------------------------- MODULE SvshmXfrProofs ---------------------------
(***************************************************************************)
(* Proofs about SvshmXfr for every finite set of readers, block size and   *)
(* input length and whatever an earlier run left, with processes that may  *)
(* end at any statement.  They are about runs in which no reader took a    *)
(* stale token; see SvshmXfrTokens for what holds with stale tokens.       *)
(***************************************************************************)
EXTENDS SvshmXfr, TLAPS

LEMMA TypeInit == Init => TypeOK
  <1> SUFFICES ASSUME Init PROVE TypeOK
    OBVIOUS
  <1>1. sem \in [Sems -> Nat]
    BY XfrAssumption DEF Init, Sems
  <1>2. seg \in Shmseg
    BY XfrAssumption DEF Init, Shmseg
  <1>3. sent \in Seq(Shmseg) /\ out \in Seq(Shmseg)
    BY DEF Init
  <1>4. semExists \in BOOLEAN /\ shmExists \in BOOLEAN /\ eof \in BOOLEAN
    BY Zenon DEF Init
  <1>5. wpc \in WriterPc /\ rpc \in [Readers -> ReaderPc] /\ exited \in SUBSET Procs
    BY DEF Init, WriterPc, WriterInit, NotInitialised, ReaderPc, ReaderStart
  <1>6. stale \in Nat /\ wCount \in Count /\ rCount \in [Readers -> Count] /\ received \in [Readers -> Int]
    BY DEF Init, Count, Zero
  <1> QED
    BY <1>1, <1>2, <1>3, <1>4, <1>5, <1>6, Zenon DEF TypeOK

\* Storing a legal value in bufferSize leaves a struct shmseg.
LEMMA StoreType ==
    ASSUME NEW s \in Shmseg, NEW n \in -1..BUF_SIZE
    PROVE  [s EXCEPT !.bufferSize = n] \in Shmseg
  BY DEF Shmseg

LEMMA WriterType == TypeOK /\ WriterNext => TypeOK'
  <1> SUFFICES ASSUME TypeOK, WriterNext PROVE TypeOK'
    OBVIOUS
  <1> USE XfrAssumption DEF TypeOK, WriterAt, WriterPc, WriterInit, NotInitialised, WriterLoop,
          WriterEnd
  <1>1. CASE WriterSemget
    BY <1>1 DEF WriterSemget
  <1>2. CASE WriterInitWriteSem
    BY <1>2 DEF WriterInitWriteSem, initSem
  <1>3. CASE WriterInitReadSem
    BY <1>3 DEF WriterInitReadSem, initSem
  <1>4. CASE WriterShmget
    BY <1>4 DEF WriterShmget
  <1>5. CASE WriterShmat
    BY <1>5 DEF WriterShmat
  <1>6. CASE WriterLoopInit
    <2>1. BUF_SIZE \in -1..BUF_SIZE
      OBVIOUS
    <2>2. seg' \in Shmseg
      BY <1>6, <2>1, StoreType DEF WriterLoopInit
    <2> QED
      BY <1>6, <2>2 DEF WriterLoopInit
  <1>7. CASE WriterReserve
    BY <1>7 DEF WriterReserve, reserveSem, Sems, WRITE_SEM
  <1>8. CASE WriterReadBlock
    <2>1. seg' \in Shmseg /\ sent' = Append(sent, seg')
      BY <1>8 DEF WriterReadBlock, Shmseg
    <2> QED
      BY <1>8, <2>1 DEF WriterReadBlock
  <1>9. CASE WriterReadEof
    <2>1. 0 \in -1..BUF_SIZE
      OBVIOUS
    <2>2. seg' \in Shmseg
      BY <1>9, <2>1, StoreType DEF WriterReadEof
    <2> QED
      BY <1>9, <2>2 DEF WriterReadEof
  <1>10. CASE WriterReadError
    <2>1. -1 \in -1..BUF_SIZE
      OBVIOUS
    <2>2. seg' \in Shmseg
      BY <1>10, <2>1, StoreType DEF WriterReadError
    <2> QED
      BY <1>10, <2>2 DEF WriterReadError, Procs
  <1>11. CASE WriterRelease
    BY <1>11 DEF WriterRelease, releaseSem, Sems, READ_SEM
  <1>12. CASE WriterCount
    BY SMTT(30), <1>12 DEF WriterCount, Count, Shmseg
  <1>13. CASE WriterFinalReserve
    BY <1>13 DEF WriterFinalReserve, reserveSem, Sems, WRITE_SEM
  <1>14. CASE WriterShmdt
    BY <1>14 DEF WriterShmdt
  <1>15. CASE WriterShmRmid
    BY <1>15 DEF WriterShmRmid
  <1>16. CASE WriterSemRmid
    BY <1>16 DEF WriterSemRmid
  <1> QED
    BY <1>1, <1>2, <1>3, <1>4, <1>5, <1>6, <1>7, <1>8, <1>9, <1>10, <1>11, <1>12,
       <1>13, <1>14, <1>15, <1>16 DEF WriterNext

LEMMA ReaderType == ASSUME TypeOK, NEW r \in Readers, ReaderNext(r) PROVE TypeOK'
  <1> USE DEF TypeOK, ReaderAt, ReaderExits, ReaderPc, ReaderStart, Procs
  <1>1. CASE ReaderSemget(r)
    <2>1. CASE /\ ReaderAt(r, "semget", "shmget")
               /\ UNCHANGED <<exited, sem, stale, out, rCount, received>>
      BY <2>1
    <2>2. CASE ReaderExits(r, "semget")
      BY <2>2
    <2> QED
      BY Zenon, <1>1, <2>1, <2>2 DEF ReaderSemget
  <1>2. CASE ReaderShmget(r)
    <2>1. CASE /\ ReaderAt(r, "shmget", "shmat")
               /\ UNCHANGED <<exited, sem, stale, out, rCount, received>>
      BY <2>1
    <2>2. CASE ReaderExits(r, "shmget")
      BY <2>2
    <2> QED
      BY Zenon, <1>2, <2>1, <2>2 DEF ReaderShmget
  <1>3. CASE ReaderShmat(r)
    <2>1. CASE /\ ReaderAt(r, "shmat", "reserve")
               /\ UNCHANGED <<exited, sem, stale, out, rCount, received>>
      BY <2>1
    <2>2. CASE ReaderExits(r, "shmat")
      BY <2>2
    <2> QED
      BY Zenon, <1>3, <2>1, <2>2 DEF ReaderShmat
  <1>4. CASE ReaderReserve(r)
    <2>1. CASE /\ ReaderAt(r, "reserve", "test") /\ reserveSem(READ_SEM)
               /\ stale' = stale + (IF wpc \in NotInitialised THEN 1 ELSE 0)
               /\ UNCHANGED <<exited, out, rCount, received>>
      BY <2>1 DEF reserveSem, Sems, READ_SEM
    <2>2. CASE ReaderExits(r, "reserve")
      BY <2>2
    <2> QED
      BY <1>4, <2>1, <2>2 DEF ReaderReserve
  <1>5. CASE ReaderTest(r)
    BY <1>5 DEF ReaderTest
  <1>6. CASE ReaderWrite(r)
    <2>1. CASE seg.bufferSize > 0
      <3>1. out' \in Seq(Shmseg)
        <4>1. out' = Append(out, seg) /\ out \in Seq(Shmseg) /\ seg \in Shmseg
          BY <1>6, <2>1 DEF ReaderWrite
        <4> HIDE DEF TypeOK
        <4> QED
          BY <4>1
      <3>2. received' \in [Readers -> Int]
        BY <1>6, <2>1 DEF ReaderWrite, Shmseg
      <3> QED
        BY <1>6, <3>1, <3>2 DEF ReaderWrite
    <2>2. CASE ~(seg.bufferSize > 0)
      BY <1>6, <2>2 DEF ReaderWrite
    <2> QED
      BY <2>1, <2>2
  <1>7. CASE ReaderRelease(r)
    <2>1. CASE /\ ReaderAt(r, "release", "count") /\ releaseSem(WRITE_SEM)
               /\ UNCHANGED <<exited, stale, out, rCount, received>>
      BY <2>1 DEF releaseSem, Sems, WRITE_SEM
    <2>2. CASE ReaderExits(r, "release")
      BY <2>2
    <2> QED
      BY <1>7, <2>1, <2>2 DEF ReaderRelease
  <1>8. CASE ReaderCount(r)
    <2> DEFINE new == [xfrs |-> rCount[r].xfrs + 1, bytes |-> rCount[r].bytes + seg.bufferSize]
    <2>1. seg.bufferSize \in Int /\ rCount[r] \in Count
      BY DEF Shmseg
    <2>2. new \in Count
      BY <2>1 DEF Count
    <2>3. rCount' = [rCount EXCEPT ![r] = new]
      BY <1>8 DEF ReaderCount
    <2>4. rCount' \in [Readers -> Count]
      BY <2>2, <2>3
    <2> QED
      BY <1>8, <2>4 DEF ReaderCount
  <1>9. CASE ReaderShmdt(r)
    BY <1>9 DEF ReaderShmdt
  <1>10. CASE ReaderFinalRelease(r)
    <2>1. CASE /\ ReaderAt(r, "finalRelease", "done") /\ releaseSem(WRITE_SEM)
               /\ UNCHANGED <<exited, stale, out, rCount, received>>
      BY <2>1 DEF releaseSem, Sems, WRITE_SEM
    <2>2. CASE ReaderExits(r, "finalRelease")
      BY <2>2
    <2> QED
      BY <1>10, <2>1, <2>2 DEF ReaderFinalRelease
  <1> QED
    BY <1>1, <1>2, <1>3, <1>4, <1>5, <1>6, <1>7, <1>8, <1>9, <1>10 DEF ReaderNext

LEMMA NextType == TypeOK /\ [Next]_vars => TypeOK'
  <1>1. ASSUME TypeOK, NEW p \in Procs, Exit(p) PROVE TypeOK'
    BY <1>1 DEF TypeOK, Exit, ipc, hist, Procs
  <1>2. ASSUME TypeOK, UNCHANGED vars PROVE TypeOK'
    BY <1>2 DEF TypeOK, vars, ipc, hist
  <1> QED
    BY <1>1, <1>2, WriterType, ReaderType DEF Next

\* The values of the variables stay in their types whatever the processes do.
THEOREM TypeCorrect == Spec => []TypeOK
  <1> QED
    BY TypeInit, NextType, PTL DEF Spec

-----------------------------------------------------------------------------
\* stale only grows, and only where a reader reserves READ_SEM too early.
LEMMA StaleGrows ==
    ASSUME TypeOK, [Next]_vars
    PROVE  /\ stale' \in {stale, stale + 1}
           /\ stale' = 0 => stale = 0
  <1>1. CASE WriterNext
    BY <1>1 DEF TypeOK, WriterNext, WriterAt, WriterSemget, WriterInitWriteSem,
         WriterInitReadSem, WriterShmget, WriterShmat, WriterLoopInit, WriterReserve,
         WriterReadBlock, WriterReadEof, WriterReadError, WriterRelease, WriterCount,
         WriterFinalReserve, WriterShmdt, WriterShmRmid, WriterSemRmid
  <1>2. CASE \E r \in Readers : ReaderNext(r)
    BY <1>2 DEF TypeOK, ReaderNext, ReaderExits, ReaderSemget, ReaderShmget, ReaderShmat,
         ReaderReserve, ReaderTest, ReaderWrite, ReaderRelease, ReaderCount, ReaderShmdt,
         ReaderFinalRelease
  <1>3. CASE UNCHANGED ipc
    BY <1>3 DEF TypeOK, ipc
  <1> QED
    BY <1>1, <1>2, <1>3 DEF Next, Exit, vars

LEMMA WriterProtocol == ASSUME TypeOK, TypeOK', Protocol, WriterNext PROVE Protocol'
  <1> USE XfrAssumption DEF TypeOK, Sems, WRITE_SEM, READ_SEM, WriterAt,
          WriterInit, NotInitialised, WriterEnd, ReaderStart,
          WriterHolds, ReaderHolds, Drained, Loaded
  <1>0. /\ InitBeforeReserve /\ OneToken /\ Exclusive
        /\ SlotState /\ InOrder /\ XfrsCounted
    BY DEF Protocol
  <1>1. CASE WriterSemget
    BY <1>0, <1>1 DEF WriterSemget, Protocol, InitBeforeReserve, OneToken,
          Exclusive, SlotState, InOrder, XfrsCounted
  <1>2. CASE WriterInitWriteSem
    BY <1>0, <1>2 DEF WriterInitWriteSem, initSem, Protocol, InitBeforeReserve, OneToken,
          Exclusive, SlotState, InOrder, XfrsCounted
  <1>3. CASE WriterInitReadSem
    BY <1>0, <1>3 DEF WriterInitReadSem, initSem, Protocol, InitBeforeReserve, OneToken,
          Exclusive, SlotState, InOrder, XfrsCounted
  <1>4. CASE WriterShmget
    BY <1>0, <1>4 DEF WriterShmget, Protocol, InitBeforeReserve, OneToken,
          Exclusive, SlotState, InOrder, XfrsCounted
  <1>5. CASE WriterShmat
    BY <1>0, <1>5 DEF WriterShmat, Protocol, InitBeforeReserve, OneToken,
          Exclusive, SlotState, InOrder, XfrsCounted
  <1>6. CASE WriterLoopInit
    BY SMTT(20), <1>0, <1>6 DEF WriterLoopInit, Shmseg, Protocol, InitBeforeReserve, OneToken,
          Exclusive, SlotState, InOrder, XfrsCounted
  <1>7. CASE WriterReserve
    BY <1>0, <1>7 DEF WriterReserve, reserveSem, Protocol, InitBeforeReserve, OneToken,
          Exclusive, SlotState, InOrder, XfrsCounted
  <1>8. CASE WriterReadBlock
    <2>1. /\ sem[WRITE_SEM] = 0 /\ sem[READ_SEM] = 0
          /\ \A r \in Readers : ~ReaderHolds(r)
          /\ ~eof /\ Len(out) = Len(sent)
      BY <1>0, <1>8 DEF WriterReadBlock, OneToken, Exclusive, SlotState
    <2>2. /\ sent' = Append(sent, seg')
          /\ seg' \in Shmseg
          /\ seg'.bufferSize > 0
      BY <1>8 DEF WriterReadBlock
    <2>3. /\ Len(sent') = Len(sent) + 1
          /\ sent'[Len(sent')] = seg'
          /\ \A i \in 1..Len(sent) : sent'[i] = sent[i]
      BY <2>2
    <2>4. InitBeforeReserve' /\ OneToken' /\ Exclusive'
      BY <1>0, <1>8 DEF WriterReadBlock, InitBeforeReserve, OneToken, Exclusive
    <2>5. SlotState'
      BY <1>0, <1>8, <2>1, <2>2, <2>3 DEF WriterReadBlock, SlotState
    <2>6. InOrder'
      BY <1>0, <1>8, <2>1, <2>3 DEF WriterReadBlock, InOrder
    <2>7. XfrsCounted'
      BY <1>0, <1>8, <2>1, <2>3 DEF WriterReadBlock, XfrsCounted
    <2> QED
      BY Zenon, <2>4, <2>5, <2>6, <2>7 DEF Protocol
  <1>9. CASE WriterReadEof
    BY SMTT(20), <1>0, <1>9 DEF WriterReadEof, Protocol, InitBeforeReserve, OneToken,
          Exclusive, SlotState, InOrder, XfrsCounted
  <1>10. CASE WriterReadError
    <2>1. /\ wpc = "read" /\ wpc' = "read"
          /\ UNCHANGED <<rpc, ipc, hist, wCount>>
      BY <1>10 DEF WriterReadError, ipc, hist
    <2>2. /\ sem[WRITE_SEM] = 0 /\ sem[READ_SEM] = 0
          /\ \A r \in Readers : ~ReaderHolds(r)
      BY <1>0, <2>1 DEF OneToken, Exclusive
    <2> QED
      BY <1>0, <2>1, <2>2 DEF ipc, hist, Protocol, InitBeforeReserve, OneToken,
            Exclusive, SlotState, InOrder, XfrsCounted
  <1>11. CASE WriterRelease
    <2>1. /\ sem[WRITE_SEM] = 0 /\ sem[READ_SEM] = 0
          /\ \A r \in Readers : ~ReaderHolds(r)
          /\ Loaded
      BY <1>0, <1>11 DEF WriterRelease, OneToken, Exclusive, SlotState
    <2>2. sem'[WRITE_SEM] = 0 /\ sem'[READ_SEM] = 1
      BY <1>11, <2>1 DEF WriterRelease, releaseSem
    <2>3. InitBeforeReserve' /\ OneToken' /\ Exclusive'
      BY <1>0, <1>11, <2>1, <2>2 DEF WriterRelease, InitBeforeReserve, OneToken, Exclusive
    <2>4. SlotState'
      BY <1>0, <1>11, <2>1, <2>2 DEF WriterRelease, SlotState
    <2>5. InOrder' /\ XfrsCounted'
      BY SMTT(20), <1>0, <1>11 DEF WriterRelease, InOrder, XfrsCounted
    <2> QED
      BY Zenon, <2>3, <2>4, <2>5 DEF Protocol
  <1>12. CASE WriterCount
    BY SMTT(20), <1>0, <1>12 DEF WriterCount, Count, Protocol, InitBeforeReserve, OneToken,
          Exclusive, SlotState, InOrder, XfrsCounted
  <1>13. CASE WriterFinalReserve
    BY SMTT(20), <1>0, <1>13 DEF WriterFinalReserve, reserveSem, Protocol, InitBeforeReserve, OneToken,
          Exclusive, SlotState, InOrder, XfrsCounted
  <1>14. CASE WriterShmdt
    BY SMTT(20), <1>0, <1>14 DEF WriterShmdt, Protocol, InitBeforeReserve, OneToken,
          Exclusive, SlotState, InOrder, XfrsCounted
  <1>15. CASE WriterShmRmid
    BY SMTT(20), <1>0, <1>15 DEF WriterShmRmid, Protocol, InitBeforeReserve, OneToken,
          Exclusive, SlotState, InOrder, XfrsCounted
  <1>16. CASE WriterSemRmid
    BY <1>0, <1>16 DEF WriterSemRmid, Protocol, InitBeforeReserve, OneToken,
          Exclusive, SlotState, InOrder, XfrsCounted
  <1> QED
    BY <1>1, <1>2, <1>3, <1>4, <1>5, <1>6, <1>7, <1>8, <1>9, <1>10, <1>11, <1>12,
       <1>13, <1>14, <1>15, <1>16 DEF WriterNext

\* What every statement of a reader leaves alone.
LEMMA ReaderFrame ==
    ASSUME TypeOK, NEW r \in Readers, NEW here, NEW next, ReaderAt(r, here, next)
    PROVE  /\ rpc[r] = here
           /\ rpc'[r] = next
           /\ \A q \in Readers : q # r => rpc'[q] = rpc[q]
           /\ UNCHANGED <<wpc, semExists, shmExists, seg, sent, eof, wCount>>
  BY DEF TypeOK, ReaderAt

\* A reader that moves before its first reserve, or between two blocks, cannot
\* disturb the protocol.
LEMMA QuietMove ==
    ASSUME TypeOK, Protocol, NEW r \in Readers, NEW here, NEW next,
           ReaderAt(r, here, next), UNCHANGED <<sem, out>>,
           next \in ReaderStart \cup {"reserve"}
    PROVE  Protocol'
  <1>1. /\ rpc'[r] = next
        /\ \A q \in Readers : q # r => rpc'[q] = rpc[q]
        /\ UNCHANGED <<wpc, semExists, shmExists, seg, sent, eof, wCount>>
    BY ReaderFrame
  <1>2. next \notin {"test", "write", "release", "shmdt", "finalRelease"}
    BY DEF ReaderStart
  <1>3. InitBeforeReserve'
    BY <1>1 DEF Protocol, InitBeforeReserve
  <1>4. OneToken' /\ Exclusive'
    BY <1>1, <1>2 DEF Protocol, OneToken, Exclusive, WriterHolds, ReaderHolds
  <1>5. SlotState'
    BY <1>1, <1>2 DEF Protocol, SlotState, Drained, Loaded
  <1>6. InOrder' /\ XfrsCounted'
    BY <1>1 DEF Protocol, InOrder, XfrsCounted
  <1> QED
    BY Zenon, <1>3, <1>4, <1>5, <1>6 DEF Protocol

\* The process that holds the segment is alone with it, and no semaphore is available.
LEMMA HolderAlone ==
    ASSUME TypeOK, Protocol, NEW r \in Readers, ReaderHolds(r)
    PROVE  /\ wpc \notin WriterInit /\ ~WriterHolds
           /\ sem[WRITE_SEM] = 0 /\ sem[READ_SEM] = 0
           /\ \A q \in Readers : q # r => ~ReaderHolds(q)
  <1>1. wpc \notin WriterInit
    BY DEF Protocol, InitBeforeReserve, ReaderHolds, ReaderStart
  <1> QED
    BY <1>1 DEF Protocol, OneToken, Exclusive

\* The set is still there when a reader gives WRITE_SEM back.
LEMMA ReleaserFindsSet ==
    ASSUME TypeOK, Protocol, NEW r \in Readers, rpc[r] \in {"release", "finalRelease"}
    PROVE  semExists
  <1>1. wpc \notin WriterInit /\ ~WriterHolds
    BY HolderAlone DEF ReaderHolds
  <1> QED
    BY <1>1 DEF Protocol, InitBeforeReserve, WriterInit, NotInitialised, WriterHolds, WriterEnd

\* The token stays with reader r, or r hands it to the writer through WRITE_SEM.
LEMMA HolderMove ==
    ASSUME TypeOK, Protocol, NEW r \in Readers, NEW here, NEW next,
           ReaderAt(r, here, next), ReaderHolds(r),
           \/ next \in {"write", "release", "shmdt", "finalRelease"} /\ UNCHANGED sem
           \/ next \in {"count", "done"} /\ sem' = [sem EXCEPT ![WRITE_SEM] = @ + 1]
    PROVE  InitBeforeReserve' /\ OneToken' /\ Exclusive'
  <1>1. /\ rpc'[r] = next
        /\ \A q \in Readers : q # r => rpc'[q] = rpc[q]
        /\ UNCHANGED <<wpc, semExists, shmExists, seg, sent, eof, wCount>>
    BY ReaderFrame
  <1>2. /\ wpc \notin WriterInit /\ ~WriterHolds
        /\ sem[WRITE_SEM] = 0 /\ sem[READ_SEM] = 0
        /\ \A q \in Readers : q # r => ~ReaderHolds(q)
    BY HolderAlone
  <1>3. \A q \in Readers : q # r => ~ReaderHolds(q)'
    BY <1>1, <1>2 DEF ReaderHolds
  <1>4. ~WriterHolds'
    BY <1>1, <1>2 DEF WriterHolds
  <1>5. wpc \notin {"shmat", "init"}
    BY <1>2 DEF Protocol, OneToken
  <1>6. sem'[READ_SEM] = 0 /\ sem'[WRITE_SEM] \in {0, 1}
    BY <1>2 DEF TypeOK, Sems, WRITE_SEM, READ_SEM
  <1>7. ReaderHolds(r)' => sem'[WRITE_SEM] = 0
    BY <1>1, <1>2 DEF ReaderHolds
  <1>8. InitBeforeReserve'
    BY <1>1, <1>2, <1>5 DEF Protocol, InitBeforeReserve, WriterInit
  <1>9. OneToken'
    BY <1>1, <1>3, <1>4, <1>5, <1>6, <1>7 DEF OneToken
  <1>10. Exclusive'
    BY <1>3, <1>4 DEF Exclusive
  <1> QED
    BY <1>8, <1>9, <1>10

\* With the semaphores set, a reader reserves READ_SEM only for a loaded segment.
LEMMA ReserveProtocol ==
    ASSUME TypeOK, Protocol, NEW r \in Readers, ReaderReserve(r), stale' = stale
    PROVE  Protocol'
  <1>2. CASE ReaderExits(r, "reserve")
    BY <1>2, QuietMove DEF ReaderExits
  <1>3. CASE /\ ReaderAt(r, "reserve", "test") /\ reserveSem(READ_SEM)
             /\ wpc \notin NotInitialised /\ UNCHANGED out
    <2>0. wpc \notin WriterInit
      BY <1>3 DEF Protocol, InitBeforeReserve, WriterInit, reserveSem
    <2>1. /\ rpc'[r] = "test"
          /\ \A q \in Readers : q # r => rpc'[q] = rpc[q]
          /\ UNCHANGED <<wpc, semExists, shmExists, seg, sent, eof, wCount, out>>
      BY <1>3, ReaderFrame
    <2>2. /\ sem[READ_SEM] = 1 /\ sem[WRITE_SEM] = 0
          /\ sem'[READ_SEM] = 0 /\ sem'[WRITE_SEM] = 0
      BY <2>0, <1>3 DEF reserveSem, TypeOK, Sems, WRITE_SEM, READ_SEM, Protocol, OneToken
    <2>3. ~WriterHolds /\ \A q \in Readers : ~ReaderHolds(q)
      BY <2>0, <2>2 DEF Protocol, OneToken
    <2>4. ~WriterHolds' /\ \A q \in Readers : q # r => ~ReaderHolds(q)'
      BY <2>1, <2>3 DEF WriterHolds, ReaderHolds
    <2>5. wpc \notin {"shmat", "init"}
      BY <2>0, <2>2 DEF Protocol, OneToken
    <2>6. InitBeforeReserve'
      BY <2>0, <2>1, <2>2, <2>5 DEF Protocol, InitBeforeReserve, WriterInit
    <2>7. OneToken' /\ Exclusive'
      BY <2>1, <2>2, <2>4, <2>5 DEF OneToken, Exclusive
    <2>8. Loaded /\ Loaded'
      BY <2>0, <2>1, <2>2 DEF Protocol, SlotState, Loaded
    <2>9. SlotState'
      BY <2>0, <2>1, <2>2, <2>8 DEF Protocol, SlotState, Drained, Loaded
    <2>10. InOrder' /\ XfrsCounted'
      BY <2>1 DEF Protocol, InOrder, XfrsCounted
    <2> QED
      BY Zenon, <2>6, <2>7, <2>9, <2>10 DEF Protocol
  <1> QED
    BY <1>2, <1>3 DEF ReaderReserve, TypeOK

\* The reader finds a block, or 0 at the end of the input.
LEMMA TestProtocol ==
    ASSUME TypeOK, Protocol, NEW r \in Readers, ReaderTest(r)
    PROVE  Protocol'
  <1> DEFINE next == IF seg.bufferSize = 0 THEN "shmdt" ELSE "write"
  <1>1. ReaderAt(r, "test", next) /\ UNCHANGED <<sem, out>> /\ ReaderHolds(r)
    BY DEF ReaderTest, ReaderAt, ReaderHolds
  <1>2. InitBeforeReserve' /\ OneToken' /\ Exclusive'
    BY Zenon, <1>1, HolderMove
  <1>3. /\ rpc[r] = "test" /\ rpc'[r] = next
        /\ \A q \in Readers : q # r => rpc'[q] = rpc[q]
        /\ UNCHANGED <<wpc, seg, sent, eof, wCount>>
    BY <1>1, ReaderFrame
  <1>4. Loaded
    BY SMTT(20), <1>3 DEF Protocol, SlotState
  <1>5. SlotState'
    BY SMTT(20), <1>1, <1>3, <1>4 DEF Protocol, SlotState, Drained, Loaded
  <1>6. InOrder' /\ XfrsCounted'
    BY <1>1, <1>3 DEF Protocol, InOrder, XfrsCounted
  <1> QED
    BY Zenon, <1>2, <1>5, <1>6 DEF Protocol

\* The block in the segment is the one that is not out yet.
LEMMA WriteProtocol ==
    ASSUME TypeOK, Protocol, NEW r \in Readers, ReaderWrite(r)
    PROVE  Protocol'
  <1>1. ReaderAt(r, "write", "release") /\ UNCHANGED sem /\ ReaderHolds(r)
    BY DEF ReaderWrite, ReaderAt, ReaderHolds
  <1>2. InitBeforeReserve' /\ OneToken' /\ Exclusive'
    BY Zenon, <1>1, HolderMove
  <1>3. /\ rpc[r] = "write" /\ rpc'[r] = "release"
        /\ \A q \in Readers : q # r => rpc'[q] = rpc[q]
        /\ UNCHANGED <<wpc, seg, sent, eof, wCount>>
    BY <1>1, ReaderFrame
  <1>4. /\ ~eof
        /\ Len(sent) = Len(out) + 1
        /\ seg = sent[Len(sent)]
        /\ seg.bufferSize > 0
    BY <1>3 DEF Protocol, SlotState, Loaded
  <1>5. /\ Len(out') = Len(sent')
        /\ out'[Len(out) + 1] = seg
        /\ \A i \in 1..Len(out) : out'[i] = out[i]
    <2>1. out' = Append(out, seg) /\ sent' = sent
      BY <1>3, <1>4 DEF ReaderWrite
    <2>2. out \in Seq(Shmseg) /\ sent \in Seq(Shmseg) /\ seg \in Shmseg
      BY DEF TypeOK
    <2> QED
      BY <1>4, <2>1, <2>2
  <1>6. /\ ~WriterHolds /\ wpc \notin WriterInit
        /\ sem'[WRITE_SEM] = 0 /\ sem'[READ_SEM] = 0
        /\ \A q \in Readers : q # r => ~ReaderHolds(q)
    BY <1>1, HolderAlone
  <1>7. /\ wpc \notin WriterInit \cup {"shmat", "init", "read", "release"}
        /\ \A q \in Readers : q # r => rpc'[q] \notin {"test", "write", "release", "shmdt", "finalRelease"}
    BY <1>1, <1>3, <1>6 DEF Protocol, OneToken, WriterHolds, ReaderHolds
  <1>8. SlotState'
    <2>1. Drained'
      BY <1>5 DEF Drained
    <2>2. /\ wpc = "count" => (eof <=> seg.bufferSize = 0)
          /\ wpc \in {"final"} \cup WriterEnd => eof
      BY DEF Protocol, SlotState
    <2>3. \A q \in Readers :
             rpc'[q] \notin {"test", "write", "shmdt", "finalRelease"}
      BY <1>3, <1>7
    <2>4. wpc' = wpc /\ eof' = eof /\ seg' = seg /\ ~eof
      BY <1>3, <1>4
    <2> QED
      BY <1>6, <1>7, <2>1, <2>2, <2>3, <2>4 DEF SlotState
  <1>9. InOrder'
    <2>1. Len(out) \in Nat /\ Len(sent) \in Nat /\ Len(out') = Len(out) + 1
      <3>1. out \in Seq(Shmseg) /\ sent \in Seq(Shmseg)
        BY DEF TypeOK
      <3>2. Len(out) \in Nat /\ Len(sent) \in Nat
        BY <3>1
      <3>3. sent' = sent
        BY <1>3
      <3> QED
        BY <1>4, <1>5, <3>2, <3>3
    <2>2. ASSUME NEW i \in 1..Len(out') PROVE out'[i] = sent'[i]
      <3>1. CASE i = Len(out) + 1
        BY <3>1, <1>3, <1>4, <1>5
      <3>2. CASE i \in 1..Len(out)
        BY <3>2, <1>3, <1>5 DEF Protocol, InOrder
      <3>3. i \in 1..(Len(out) + 1)
        BY <2>1
      <3> QED
        BY <2>1, <3>1, <3>2, <3>3
    <2>3. Len(sent') \in {Len(out'), Len(out') + 1}
      BY <1>5
    <2> QED
      BY <2>2, <2>3 DEF InOrder
  <1>10. XfrsCounted'
    BY <1>3 DEF Protocol, XfrsCounted
  <1> QED
    BY Zenon, <1>2, <1>8, <1>9, <1>10 DEF Protocol

\* WRITE_SEM is given back when the segment is drained.
LEMMA ReleaseProtocol ==
    ASSUME TypeOK, Protocol, NEW r \in Readers, ReaderRelease(r) \/ ReaderFinalRelease(r)
    PROVE  Protocol'
  <1>0. semExists
    BY ReleaserFindsSet DEF ReaderRelease, ReaderFinalRelease, ReaderExits, ReaderAt
  <1>1. PICK here \in {"release", "finalRelease"}, next \in {"count", "done"} :
           ReaderAt(r, here, next)
    BY <1>0 DEF ReaderRelease, ReaderFinalRelease
  <1>2. /\ sem' = [sem EXCEPT ![WRITE_SEM] = @ + 1]
        /\ UNCHANGED out
        /\ ReaderHolds(r)
    BY <1>0 DEF ReaderRelease, ReaderFinalRelease, releaseSem, ReaderAt, ReaderHolds
  <1>3. InitBeforeReserve' /\ OneToken' /\ Exclusive'
    BY Zenon, <1>1, <1>2, HolderMove
  <1>4. /\ rpc[r] \in {"release", "finalRelease"} /\ rpc'[r] \in {"count", "done"}
        /\ \A q \in Readers : q # r => rpc'[q] = rpc[q]
        /\ UNCHANGED <<wpc, seg, sent, eof, wCount>>
    BY <1>1, ReaderFrame
  <1>5. sem[READ_SEM] = 0 /\ sem'[READ_SEM] = sem[READ_SEM]
    BY <1>2, HolderAlone DEF TypeOK, Sems, READ_SEM, WRITE_SEM
  <1>6. Drained
    BY SMTT(20), <1>4 DEF Protocol, SlotState
  <1>7. SlotState'
    BY SMTT(20), <1>2, <1>4, <1>5, <1>6 DEF Protocol, SlotState, Drained, Loaded
  <1>8. InOrder' /\ XfrsCounted'
    BY <1>2, <1>4 DEF Protocol, InOrder, XfrsCounted
  <1> QED
    BY Zenon, <1>3, <1>7, <1>8 DEF Protocol

\* The segment is detached while the reader still keeps the writer waiting.
LEMMA ShmdtProtocol ==
    ASSUME TypeOK, Protocol, NEW r \in Readers, ReaderShmdt(r)
    PROVE  Protocol'
  <1>1. ReaderAt(r, "shmdt", "finalRelease") /\ UNCHANGED <<sem, out>> /\ ReaderHolds(r)
    BY DEF ReaderShmdt, ReaderAt, ReaderHolds
  <1>2. InitBeforeReserve' /\ OneToken' /\ Exclusive'
    BY Zenon, <1>1, HolderMove
  <1>3. /\ rpc[r] = "shmdt" /\ rpc'[r] = "finalRelease"
        /\ \A q \in Readers : q # r => rpc'[q] = rpc[q]
        /\ UNCHANGED <<wpc, seg, sent, eof, wCount>>
    BY SMTT(20), <1>1, ReaderFrame
  <1>4. SlotState'
    BY SMTT(20), <1>1, <1>3 DEF Protocol, SlotState, Drained, Loaded
  <1>5. InOrder' /\ XfrsCounted'
    BY <1>1, <1>3 DEF Protocol, InOrder, XfrsCounted
  <1> QED
    BY Zenon, <1>2, <1>4, <1>5 DEF Protocol

LEMMA ReaderProtocol ==
    ASSUME TypeOK, TypeOK', Protocol, NEW r \in Readers, ReaderNext(r), stale' = stale
    PROVE  Protocol'
  <1>1. CASE ReaderSemget(r)
    BY <1>1, QuietMove DEF ReaderSemget, ReaderExits, ReaderStart
  <1>2. CASE ReaderShmget(r)
    BY <1>2, QuietMove DEF ReaderShmget, ReaderExits, ReaderStart
  <1>3. CASE ReaderShmat(r)
    BY <1>3, QuietMove DEF ReaderShmat, ReaderExits, ReaderStart
  <1>4. CASE ReaderReserve(r)
    BY <1>4, ReserveProtocol
  <1>5. CASE ReaderTest(r)
    BY <1>5, TestProtocol
  <1>6. CASE ReaderWrite(r)
    BY <1>6, WriteProtocol
  <1>7. CASE ReaderRelease(r) \/ ReaderFinalRelease(r)
    BY <1>7, ReleaseProtocol
  <1>8. CASE ReaderCount(r)
    BY SMTT(20), <1>8, QuietMove DEF ReaderCount
  <1>9. CASE ReaderShmdt(r)
    BY <1>9, ShmdtProtocol
  <1> QED
    BY <1>1, <1>2, <1>3, <1>4, <1>5, <1>6, <1>7, <1>8, <1>9 DEF ReaderNext

LEMMA InitProtocol == Init => Protocol
  BY DEF Init, Protocol, InitBeforeReserve, OneToken, Exclusive, WriterHolds,
         ReaderHolds, ReaderStart, SlotState, InOrder, XfrsCounted, WriterInit,
         NotInitialised, WriterEnd, Drained, Loaded, Zero

LEMMA NextProtocol ==
    ASSUME TypeOK, TypeOK', stale = 0 => Protocol, [Next]_vars
    PROVE  stale' = 0 => Protocol'
  <1> SUFFICES ASSUME stale' = 0 PROVE Protocol'
    OBVIOUS
  <1>0. stale = 0 /\ Protocol
    BY StaleGrows
  <1>1. CASE WriterNext
    BY <1>0, <1>1, WriterProtocol
  <1>2. CASE \E r \in Readers : ReaderNext(r)
    BY <1>0, <1>2, ReaderProtocol
  <1>3. CASE UNCHANGED <<wpc, rpc, ipc, seg, hist, wCount, rCount, received>>
    BY ZenonT(60), <1>0, <1>3 DEF ipc, hist, Protocol, InitBeforeReserve, OneToken, Exclusive,
         WriterHolds, ReaderHolds, SlotState, InOrder, XfrsCounted, Drained, Loaded
  <1> QED
    BY <1>1, <1>2, <1>3 DEF Next, Exit, vars

\* The inductive invariant: until a stale token is taken there is one token, and
\* its place says what the segment holds.
THEOREM Invariance == Spec => []IInv
  <1>1. Init => IInv
    BY TypeInit, InitProtocol DEF IInv
  <1>2. IInv /\ [Next]_vars => IInv'
    BY NextType, NextProtocol DEF IInv
  <1> QED
    BY <1>1, <1>2, PTL DEF Spec

\* reserveSem and releaseSem make the segment exclusive for any number of
\* readers, whichever processes end early, as long as no reader was let in by
\* the value an earlier run left in READ_SEM.
THEOREM SegmentExclusive == Spec => []MutualExclusion
  <1>1. IInv => MutualExclusion
    BY DEF IInv, Protocol, MutualExclusion
  <1> QED
    BY <1>1, Invariance, PTL

\* The readers' output is the writer's input, block for block and in order, as
\* long as no reader took a stale token.
THEOREM OutputIsInput == Spec => []ExactlyOnceInOrder
  <1>1. IInv => ExactlyOnceInOrder
    BY DEF IInv, Protocol, ExactlyOnceInOrder
  <1> QED
    BY <1>1, Invariance, PTL

\* A reader's releaseSem never finds the set removed by the writer's cleanup,
\* as long as no reader took a stale token.
THEOREM ReleaseSucceeds == Spec => []ReleaseFindsSemaphores
  <1>1. IInv => ReleaseFindsSemaphores
    BY ReleaserFindsSet DEF IInv, ReleaseFindsSemaphores
  <1> QED
    BY <1>1, Invariance, PTL

\* The writer leaves its loop only when every block is out, having counted them
\* all, as long as no reader took a stale token.
THEOREM CountsCorrect == Spec => []CountsAgree
  <1>1. IInv => CountsAgree
    BY DEF IInv, Protocol, SlotState, XfrsCounted, CountsAgree, Drained
  <1> QED
    BY <1>1, Invariance, PTL

-----------------------------------------------------------------------------
\* Only three statements touch what the channel shows.
LEMMA ChannelFrame ==
    ASSUME [Next]_vars, ~WriterReadBlock, ~WriterReadEof,
           \A r \in Readers : ~ReaderWrite(r)
    PROVE  UNCHANGED <<sent, out, eof>>
  <1>1. CASE WriterNext
    BY <1>1 DEF WriterNext, WriterAt, WriterSemget, WriterInitWriteSem, WriterInitReadSem,
         WriterShmget, WriterShmat, WriterLoopInit, WriterReserve, WriterReadError,
         WriterRelease, WriterCount, WriterFinalReserve, WriterShmdt, WriterShmRmid,
         WriterSemRmid
  <1>2. CASE \E r \in Readers : ReaderNext(r)
    BY <1>2 DEF ReaderNext, ReaderAt, ReaderExits, ReaderSemget, ReaderShmget, ReaderShmat,
         ReaderReserve, ReaderTest, ReaderRelease, ReaderCount, ReaderShmdt,
         ReaderFinalRelease
  <1>3. CASE UNCHANGED hist
    BY <1>3 DEF hist
  <1> QED
    BY <1>1, <1>2, <1>3 DEF Next, Exit, vars

LEMMA ChannelStep ==
    ASSUME IInv, [Next]_vars, stale' = 0
    PROVE  [Channel!ChanNext]_(Channel!chanVars)
  <1>0. Protocol
    BY StaleGrows DEF IInv
  <1>1. CASE WriterReadBlock
    <2>1. ~eof /\ Channel!Drained /\ UNCHANGED <<out, eof>>
      BY <1>0, <1>1 DEF WriterReadBlock, WriterAt, Protocol, SlotState, Drained, Channel!Drained
    <2>2. PICK n \in 1..BUF_SIZE : seg' = [bufferSize |-> n, buffer |-> Len(sent) + 1]
      BY <1>1 DEF WriterReadBlock
    <2>3. Len(sent) + 1 \in 1..MaxChunks
      BY <1>1, XfrAssumption DEF WriterReadBlock, IInv, TypeOK
    <2>4. seg' \in Block /\ sent' = Append(sent, seg')
      BY <1>1, <2>2, <2>3 DEF WriterReadBlock, Block
    <2> QED
      BY <2>1, <2>4 DEF Channel!ChanNext, Channel!Put
  <1>2. CASE WriterReadEof
    <2>1. Channel!Drained /\ eof' = TRUE /\ UNCHANGED <<sent, out>>
      BY <1>0, <1>2 DEF WriterReadEof, WriterAt, Protocol, SlotState, Drained, Channel!Drained
    <2> QED
      BY <2>1 DEF Channel!ChanNext, Channel!Close
  <1>3. ASSUME NEW r \in Readers, ReaderWrite(r) PROVE Channel!ChanNext
    <2>1. rpc[r] = "write" /\ UNCHANGED <<sent, eof>>
      BY <1>3 DEF ReaderWrite, ReaderAt
    <2>2. Len(out) + 1 = Len(sent) /\ seg = sent[Len(sent)] /\ seg.bufferSize > 0
      BY <1>0, <2>1 DEF Protocol, SlotState, Loaded
    <2>3. out' = Append(out, seg)
      BY <1>3, <2>2 DEF ReaderWrite
    <2> QED
      BY <2>1, <2>2, <2>3 DEF Channel!ChanNext, Channel!Get
  <1> QED
    BY <1>1, <1>2, <1>3, ChannelFrame DEF Channel!chanVars

\* Writer, readers and semaphores together implement the one-slot channel until
\* a reader takes a stale token.
THEOREM RefinesChannel == Spec => ImplementsChannel
  <1>1. Init => Channel!ChanInit
    BY DEF Init, Channel!ChanInit
  <1>2. IInv /\ [Next]_vars => [stale' = 0 => Channel!ChanNext]_(Channel!chanVars)
    BY ChannelStep
  <1> QED
    BY <1>1, <1>2, Invariance, PTL DEF Spec, ImplementsChannel
=============================================================================
