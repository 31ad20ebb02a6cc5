------------------------------ MODULE SvshmXfr ------------------------------
(***************************************************************************)
(* svshm/svshm_xfr_writer.c and svshm/svshm_xfr_reader.c: blocks of stdin  *)
(* cross one System V shared memory segment to the reader's stdout, and    *)
(* the two binary semaphores of svshm/binary_sems.c pass the segment back  *)
(* and forth.  One writer and any number of reader processes; a program    *)
(* counter names the statement its process executes next.                  *)
(*                                                                         *)
(* A process may end at any of its statements: a failed system call goes   *)
(* to exit(EXIT_FAILURE) and a signal kills it, and neither gives a        *)
(* semaphore back (bsUseSemUndo is false).                                 *)
(*                                                                         *)
(* The objects of an earlier run may still be there.  Nothing keeps a      *)
(* reader from starting beside them before the writer has set the          *)
(* semaphores: if READ_SEM was left available, the reader is let in by a   *)
(* stale token.  `stale' counts these, and the properties of the transfer  *)
(* are those of runs without one; TokensBounded says what holds with them. *)
(***************************************************************************)
EXTENDS Integers, Sequences, FiniteSets

CONSTANTS Writer,       \* the writer process
          Readers,      \* the reader processes that are ever started
          BUF_SIZE,     \* svshm_xfr.h: the largest block one read() returns
          MaxChunks,    \* bound on the number of blocks in the input
          MaxLeft,      \* bound on the semaphore values an earlier run left
          Faulty        \* whether processes may end early

ASSUME XfrAssumption ==
    /\ Writer \notin Readers
    /\ IsFiniteSet(Readers)
    /\ BUF_SIZE \in Nat \ {0}
    /\ MaxChunks \in Nat
    /\ MaxLeft \in Nat
    /\ Faulty \in BOOLEAN

VARIABLES wpc,          \* the writer's next statement
          rpc,          \* each reader's next statement
          exited,       \* the processes that ended early
          semExists,    \* SEM_KEY names a semaphore set
          sem,          \* its two values
          shmExists,    \* SHM_KEY names a segment
          seg,          \* struct shmseg
          stale,        \* history: how often READ_SEM was reserved before the
                        \* writer had set it
          sent,         \* history: the blocks read from stdin
          out,          \* history: the whole blocks written to stdout
          eof,          \* history: read() returned 0
          wCount,       \* the writer's xfrs and bytes
          rCount,       \* each reader's xfrs and bytes
          received      \* history: the bytes each reader wrote to stdout

ipc == <<semExists, sem, shmExists, stale>>
hist == <<sent, out, eof>>
vars == <<wpc, rpc, exited, ipc, seg, hist, wCount, rCount, received>>

WRITE_SEM == 0
READ_SEM == 1
Sems == {WRITE_SEM, READ_SEM}
Procs == Readers \cup {Writer}

Shmseg == [bufferSize : -1..BUF_SIZE, buffer : Nat]
Count == [xfrs : Nat, bytes : Int]
Zero == [xfrs |-> 0, bytes |-> 0]

NotInitialised == {"semget", "initWrite", "initRead"}
WriterInit == NotInitialised \cup {"shmget"}
WriterLoop == {"reserve", "read", "release", "count"}
WriterEnd == {"shmdt", "shmRmid", "semRmid", "done"}
WriterPc == WriterInit \cup {"shmat", "init"} \cup WriterLoop \cup {"final"} \cup WriterEnd

ReaderStart == {"semget", "shmget", "shmat"}
ReaderPc == ReaderStart \cup {"reserve", "test", "write", "release", "count"}
                        \cup {"shmdt", "finalRelease", "done"}

(***************************************************************************)
(* Either the keys are free, or an earlier run left the semaphores, and    *)
(* perhaps the segment, behind with whatever they held then.  The writer   *)
(* creates the segment last and removes it first.                          *)
(***************************************************************************)
Init ==
    /\ wpc = "semget"
    /\ rpc = [r \in Readers |-> "semget"]
    /\ exited = {}
    /\ semExists \in BOOLEAN
    /\ shmExists \in {FALSE, semExists}
    /\ sem \in [Sems -> IF semExists THEN 0..MaxLeft ELSE {0}]
    /\ seg \in [bufferSize : IF shmExists THEN {-1, 0, BUF_SIZE} ELSE {0}, buffer : {0}]
    /\ stale = 0
    /\ sent = << >>
    /\ out = << >>
    /\ eof = FALSE
    /\ wCount = Zero
    /\ rCount = [r \in Readers |-> Zero]
    /\ received = [r \in Readers |-> 0]

-----------------------------------------------------------------------------
(* binary_sems.c *)

initSem(n, val) == sem' = [sem EXCEPT ![n] = val]

\* semop(-1) blocks while the value is zero; EINTR is retried.
reserveSem(n) ==
    /\ semExists
    /\ sem[n] > 0
    /\ sem' = [sem EXCEPT ![n] = @ - 1]

releaseSem(n) ==
    /\ semExists
    /\ sem' = [sem EXCEPT ![n] = @ + 1]

-----------------------------------------------------------------------------
(* svshm_xfr_writer.c *)

WriterAt(here, next) ==
    /\ Writer \notin exited
    /\ wpc = here
    /\ wpc' = next
    /\ UNCHANGED <<rpc, stale, out, rCount, received>>

\* A new set has zero values; IPC_CREAT without IPC_EXCL takes an old one as it is.
WriterSemget ==
    /\ WriterAt("semget", "initWrite")
    /\ semExists' = TRUE
    /\ UNCHANGED <<exited, sem, shmExists, seg, sent, eof, wCount>>

WriterInitWriteSem ==
    /\ WriterAt("initWrite", "initRead")
    /\ initSem(WRITE_SEM, 1)
    /\ UNCHANGED <<exited, semExists, shmExists, seg, sent, eof, wCount>>

\* READ_SEM made available too.
MutInitReadAvailable ==
    /\ WriterAt("initRead", "shmget")
    /\ initSem(READ_SEM, 1)
    /\ UNCHANGED <<exited, semExists, shmExists, seg, sent, eof, wCount>>

WriterInitReadSem ==
    /\ WriterAt("initRead", "shmget")
    /\ initSem(READ_SEM, 0)
    /\ UNCHANGED <<exited, semExists, shmExists, seg, sent, eof, wCount>>

WriterShmget ==
    /\ WriterAt("shmget", "shmat")
    /\ shmExists' = TRUE
    /\ UNCHANGED <<exited, semExists, sem, seg, sent, eof, wCount>>

WriterShmat ==
    /\ WriterAt("shmat", "init")
    /\ UNCHANGED <<exited, semExists, sem, shmExists, seg, sent, eof, wCount>>

\* The for loop's first clause stores to the segment before any reserve.
WriterLoopInit ==
    /\ WriterAt("init", "reserve")
    /\ seg' = [seg EXCEPT !.bufferSize = BUF_SIZE]
    /\ UNCHANGED <<exited, semExists, sem, shmExists, sent, eof, wCount>>

MutReserveWriteNoWait ==
    /\ WriterAt("reserve", "read")
    /\ semExists
    /\ UNCHANGED <<exited, semExists, sem, shmExists, seg, sent, eof, wCount>>

WriterReserve ==
    /\ WriterAt("reserve", "read")
    /\ reserveSem(WRITE_SEM)
    /\ UNCHANGED <<exited, semExists, shmExists, seg, sent, eof, wCount>>

\* read() returned a block.
WriterReadBlock ==
    /\ WriterAt("read", "release")
    /\ Len(sent) < MaxChunks
    /\ \E n \in 1..BUF_SIZE : seg' = [bufferSize |-> n, buffer |-> Len(sent) + 1]
    /\ sent' = Append(sent, seg')
    /\ UNCHANGED <<exited, semExists, sem, shmExists, eof, wCount>>

\* read() returned 0.
WriterReadEof ==
    /\ WriterAt("read", "release")
    /\ seg' = [seg EXCEPT !.bufferSize = 0]
    /\ eof' = TRUE
    /\ UNCHANGED <<exited, semExists, sem, shmExists, sent, wCount>>

\* read() failed: -1 goes into the segment and the writer exits.
WriterReadError ==
    /\ Faulty
    /\ WriterAt("read", "read")
    /\ seg' = [seg EXCEPT !.bufferSize = -1]
    /\ exited' = exited \cup {Writer}
    /\ UNCHANGED <<semExists, sem, shmExists, sent, eof, wCount>>

WriterRelease ==
    /\ WriterAt("release", "count")
    /\ releaseSem(READ_SEM)
    /\ UNCHANGED <<exited, semExists, shmExists, seg, sent, eof, wCount>>

\* The for loop's last clause and its test; the reader may hold the segment.
WriterCount ==
    /\ WriterAt("count", IF seg.bufferSize # 0 THEN "reserve" ELSE "final")
    /\ wCount' = [xfrs |-> wCount.xfrs + 1, bytes |-> wCount.bytes + seg.bufferSize]
    /\ UNCHANGED <<exited, semExists, sem, shmExists, seg, sent, eof>>

MutFinalNoReserve ==
    /\ WriterAt("final", "shmdt")
    /\ UNCHANGED <<exited, semExists, sem, shmExists, seg, sent, eof, wCount>>

\* Wait until the reader has had its last look at the segment.
WriterFinalReserve ==
    /\ WriterAt("final", "shmdt")
    /\ reserveSem(WRITE_SEM)
    /\ UNCHANGED <<exited, semExists, shmExists, seg, sent, eof, wCount>>

WriterShmdt ==
    /\ WriterAt("shmdt", "shmRmid")
    /\ UNCHANGED <<exited, semExists, sem, shmExists, seg, sent, eof, wCount>>

WriterShmRmid ==
    /\ WriterAt("shmRmid", "semRmid")
    /\ shmExists' = FALSE
    /\ UNCHANGED <<exited, semExists, sem, seg, sent, eof, wCount>>

WriterSemRmid ==
    /\ WriterAt("semRmid", "done")
    /\ semExists' = FALSE
    /\ UNCHANGED <<exited, sem, shmExists, seg, sent, eof, wCount>>

WriterNext ==
    \/ WriterSemget \/ WriterInitWriteSem \/ WriterInitReadSem
    \/ WriterShmget \/ WriterShmat \/ WriterLoopInit
    \/ WriterReserve \/ WriterReadBlock \/ WriterReadEof \/ WriterReadError
    \/ WriterRelease \/ WriterCount
    \/ WriterFinalReserve \/ WriterShmdt \/ WriterShmRmid \/ WriterSemRmid

-----------------------------------------------------------------------------
(* svshm_xfr_reader.c *)

ReaderAt(r, here, next) ==
    /\ r \notin exited
    /\ rpc[r] = here
    /\ rpc' = [rpc EXCEPT ![r] = next]
    /\ UNCHANGED <<wpc, semExists, shmExists, seg, sent, eof, wCount>>

\* A call that names a removed or missing object fails and the reader exits.
ReaderExits(r, here) ==
    /\ ReaderAt(r, here, here)
    /\ exited' = exited \cup {r}
    /\ UNCHANGED <<sem, stale, out, rCount, received>>

\* No IPC_CREAT and no waiting: whatever has the key is taken as it is.
ReaderSemget(r) ==
    \/ /\ semExists
       /\ ReaderAt(r, "semget", "shmget")
       /\ UNCHANGED <<exited, sem, stale, out, rCount, received>>
    \/ ~semExists /\ ReaderExits(r, "semget")

ReaderShmget(r) ==
    \/ /\ shmExists
       /\ ReaderAt(r, "shmget", "shmat")
       /\ UNCHANGED <<exited, sem, stale, out, rCount, received>>
    \/ ~shmExists /\ ReaderExits(r, "shmget")

\* A segment marked by IPC_RMID cannot be attached any more.
ReaderShmat(r) ==
    \/ /\ shmExists
       /\ ReaderAt(r, "shmat", "reserve")
       /\ UNCHANGED <<exited, sem, stale, out, rCount, received>>
    \/ ~shmExists /\ ReaderExits(r, "shmat")

\* IPC_RMID wakes a blocked reader with EIDRM.
ReaderReserve(r) ==
    \/ /\ ReaderAt(r, "reserve", "test")
       /\ reserveSem(READ_SEM)
       /\ stale' = stale + (IF wpc \in NotInitialised THEN 1 ELSE 0)
       /\ UNCHANGED <<exited, out, rCount, received>>
    \/ ~semExists /\ ReaderExits(r, "reserve")

ReaderTest(r) ==
    /\ ReaderAt(r, "test", IF seg.bufferSize = 0 THEN "shmdt" ELSE "write")
    /\ UNCHANGED <<exited, sem, stale, out, rCount, received>>

MutReaderReleaseBeforeWrite(r) ==
    /\ ReaderAt(r, "write", "count")
    /\ sem' = [sem EXCEPT ![WRITE_SEM] = @ + 1]
    /\ UNCHANGED <<exited, stale, out, rCount, received>>

\* A bufferSize of -1 makes write() fail, and -1 is what its result is compared
\* with.
ReaderWrite(r) ==
    /\ ReaderAt(r, "write", "release")
    /\ IF seg.bufferSize > 0
       THEN /\ out' = Append(out, seg)
            /\ received' = [received EXCEPT ![r] = @ + seg.bufferSize]
       ELSE UNCHANGED <<out, received>>
    /\ UNCHANGED <<exited, sem, stale, rCount>>

ReaderRelease(r) ==
    \/ /\ ReaderAt(r, "release", "count")
       /\ releaseSem(WRITE_SEM)
       /\ UNCHANGED <<exited, stale, out, rCount, received>>
    \/ ~semExists /\ ReaderExits(r, "release")

\* The for loop's last clause reads bufferSize after WRITE_SEM was given back.
ReaderCount(r) ==
    /\ ReaderAt(r, "count", "reserve")
    /\ rCount' = [rCount EXCEPT ![r] = [xfrs |-> @.xfrs + 1,
                                        bytes |-> @.bytes + seg.bufferSize]]
    /\ UNCHANGED <<exited, sem, stale, out, received>>

ReaderShmdt(r) ==
    /\ ReaderAt(r, "shmdt", "finalRelease")
    /\ UNCHANGED <<exited, sem, stale, out, rCount, received>>

MutNoFinalRelease(r) ==
    /\ ReaderAt(r, "finalRelease", "done")
    /\ UNCHANGED <<exited, sem, stale, out, rCount, received>>

ReaderFinalRelease(r) ==
    \/ /\ ReaderAt(r, "finalRelease", "done")
       /\ releaseSem(WRITE_SEM)
       /\ UNCHANGED <<exited, stale, out, rCount, received>>
    \/ ~semExists /\ ReaderExits(r, "finalRelease")

ReaderNext(r) ==
    \/ ReaderSemget(r) \/ ReaderShmget(r) \/ ReaderShmat(r)
    \/ ReaderReserve(r) \/ ReaderTest(r) \/ ReaderWrite(r)
    \/ ReaderRelease(r) \/ ReaderCount(r)
    \/ ReaderShmdt(r) \/ ReaderFinalRelease(r)

-----------------------------------------------------------------------------
\* A signal or a failing system call ends process p where it is; the kernel
\* keeps the semaphore values and the segment.
Exit(p) ==
    /\ Faulty
    /\ p \notin exited
    /\ exited' = exited \cup {p}
    /\ UNCHANGED <<wpc, rpc, ipc, seg, hist, wCount, rCount, received>>

Next ==
    \/ WriterNext
    \/ \E r \in Readers : ReaderNext(r)
    \/ \E p \in Procs : Exit(p)

Spec == Init /\ [][Next]_vars

Started(r) == rpc[r] # "semget"

\* The writer and the readers somebody started are scheduled, and stdin ends.
Fairness ==
    /\ WF_vars(WriterNext)
    /\ \A r \in Readers : WF_vars(Started(r) /\ ReaderNext(r))

FairSpec == Spec /\ Fairness

-----------------------------------------------------------------------------
TypeOK ==
    /\ wpc \in WriterPc
    /\ rpc \in [Readers -> ReaderPc]
    /\ exited \in SUBSET Procs
    /\ semExists \in BOOLEAN
    /\ sem \in [Sems -> Nat]
    /\ shmExists \in BOOLEAN
    /\ seg \in Shmseg
    /\ stale \in Nat
    /\ sent \in Seq(Shmseg)
    /\ out \in Seq(Shmseg)
    /\ eof \in BOOLEAN
    /\ wCount \in Count
    /\ rCount \in [Readers -> Count]
    /\ received \in [Readers -> Int]

\* The processes between a reserve and the matching release, ended ones too.
WriterHolds == wpc \in {"read", "release"} \cup WriterEnd
ReaderHolds(r) == rpc[r] \in {"test", "write", "release", "shmdt", "finalRelease"}

(***************************************************************************)
(* Between reserve and release a process has the segment for itself: no    *)
(* two readers and no reader beside the writer, whoever crashes and        *)
(* whenever a reader is started, as long as no stale token lets one in.    *)
(***************************************************************************)
Exclusive ==
    /\ \A r \in Readers : ~(WriterHolds /\ ReaderHolds(r))
    /\ \A r, q \in Readers : ReaderHolds(r) /\ ReaderHolds(q) => r = q

MutualExclusion == stale = 0 => Exclusive

(***************************************************************************)
(* The output is the input: every block the readers wrote is the block the *)
(* writer read at that place, none is lost, repeated or overtaken, and at  *)
(* most one is in the segment, as long as no stale token let a reader in.  *)
(***************************************************************************)
InOrder ==
    /\ Len(sent) \in {Len(out), Len(out) + 1}
    /\ \A i \in 1..Len(out) : out[i] = sent[i]

ExactlyOnceInOrder == stale = 0 => InOrder

(***************************************************************************)
(* A release never meets a removed semaphore set unless there was a stale  *)
(* token: while a reader has the segment the writer has not gone on to its *)
(* cleanup, so the error branches at svshm_xfr_reader.c:53 and 64 are not  *)
(* taken for EIDRM.                                                        *)
(***************************************************************************)
ReleaseFindsSemaphores ==
    stale = 0 =>
        \A r \in Readers : rpc[r] \in {"release", "finalRelease"} => semExists

Holders == {r \in Readers : ReaderHolds(r)}
Tokens ==
    sem[WRITE_SEM] + sem[READ_SEM] + Cardinality(Holders) + (IF WriterHolds THEN 1 ELSE 0)

(***************************************************************************)
(* initSemAvailable and initSemInUse speak of binary semaphores.  Once     *)
(* svshm_xfr_writer.c:28 has set the second, the semaphores that are up    *)
(* and the processes inside the segment are together one, and one more for *)
(* every stale token a reader took before: no release, crash or late start *)
(* makes another.                                                          *)
(***************************************************************************)
TokensBounded == wpc \notin NotInitialised => Tokens <= 1 + stale

\* The end of the input is announced only when every block has been written out,
\* and the writer that finished its loop counted what it sent; without stale tokens.
CountsAgree ==
    stale = 0 /\ wpc \in {"final"} \cup WriterEnd =>
        /\ eof
        /\ Len(out) = Len(sent)
        /\ wCount.xfrs = Len(sent) + 1

OnlyReader(r) == \A q \in Readers \ {r} : ~Started(q)

(***************************************************************************)
(* svshm_xfr_writer.c:70: "Check that reader has completed final access to *)
(* shared memory".  When the writer goes on to remove the objects, a       *)
(* reader that was alone in the transfer has finished it, unless it was    *)
(* let in by a stale token.                                                *)
(***************************************************************************)
RemovedAfterLastAccess ==
    stale = 0 =>
        \A r \in Readers : OnlyReader(r) /\ wpc \in WriterEnd => rpc[r] = "done"

-----------------------------------------------------------------------------
(* The strengthening that makes the safety properties inductive. *)

\* Nobody gets past reserveSem before the writer has set both semaphores.
InitBeforeReserve ==
    /\ \A r \in Readers : rpc[r] \notin ReaderStart \cup {"reserve"} => wpc \notin WriterInit
    /\ wpc \in {"initRead", "shmget"} => sem[WRITE_SEM] = 1
    /\ wpc = "shmget" => sem[READ_SEM] = 0
    /\ wpc \notin {"semget", "done"} => semExists

\* One token: an available semaphore or a process between reserve and release.
OneToken ==
    wpc \notin WriterInit =>
        /\ sem[WRITE_SEM] + sem[READ_SEM] <= 1
        /\ WriterHolds => sem[WRITE_SEM] = 0 /\ sem[READ_SEM] = 0
        /\ \A r \in Readers : ReaderHolds(r) => sem[WRITE_SEM] = 0 /\ sem[READ_SEM] = 0
        /\ wpc \in {"shmat", "init"} => sem[WRITE_SEM] = 1

Drained == Len(out) = Len(sent)

\* What the holder of READ_SEM finds in the segment.
Loaded ==
    IF eof THEN seg.bufferSize = 0
           ELSE /\ Len(sent) = Len(out) + 1
                /\ seg = sent[Len(sent)]
                /\ seg.bufferSize > 0

\* The token's place says whether the segment holds a block to be written out.
SlotState ==
    /\ eof => Drained
    /\ wpc \in WriterInit \cup {"shmat", "init"} => sent = << >> /\ out = << >> /\ ~eof
    /\ wpc \in {"reserve", "read"} => ~eof
    /\ wpc = "read" => Drained
    /\ wpc = "release" => Loaded
    /\ wpc = "count" => (eof <=> seg.bufferSize = 0)
    /\ wpc \in {"final"} \cup WriterEnd => eof
    /\ wpc \notin WriterInit /\ sem[WRITE_SEM] = 1 => Drained
    /\ wpc \notin WriterInit /\ sem[READ_SEM] = 1 => Loaded
    /\ \A r \in Readers :
         /\ rpc[r] = "test" => Loaded
         /\ rpc[r] = "write" => Loaded /\ ~eof
         /\ rpc[r] = "release" => Drained
         /\ rpc[r] \in {"shmdt", "finalRelease"} => eof

\* The writer's xfrs runs behind by the iteration it is in.
XfrsCounted ==
    /\ wpc \in WriterInit \cup {"shmat", "init", "reserve", "read"} => wCount.xfrs = Len(sent)
    /\ wpc \in {"release", "count"} =>
         wCount.xfrs = IF eof THEN Len(sent) ELSE Len(sent) - 1
    /\ wpc \in {"final"} \cup WriterEnd => wCount.xfrs = Len(sent) + 1

\* After the end of the input WRITE_SEM is only given back by the reader's last
\* release, so the writer's last reserve waits for it.
LastAccess ==
    \A r \in Readers :
        /\ rpc[r] = "release" => ~eof
        /\ OnlyReader(r) /\ eof /\ (sem[WRITE_SEM] = 1 \/ wpc \in WriterEnd) =>
             rpc[r] = "done"

Protocol ==
    /\ InitBeforeReserve
    /\ OneToken
    /\ Exclusive
    /\ SlotState
    /\ InOrder
    /\ XfrsCounted

\* Before the semaphores are set only stale tokens let readers in; setting
\* WRITE_SEM brings the one token that is not stale.
TokenCount ==
    /\ wpc \in {"semget", "initWrite"} => Cardinality(Holders) <= stale
    /\ wpc = "initRead" => sem[WRITE_SEM] + Cardinality(Holders) <= 1 + stale
    /\ TokensBounded

IInv == TypeOK /\ (stale = 0 => Protocol)

-----------------------------------------------------------------------------
\* The reader's "Received %d bytes" is the number of bytes it wrote out; without
\* stale tokens.
ReceivedBytesRight ==
    stale = 0 => \A r \in Readers : rpc[r] = "done" => rCount[r].bytes = received[r]

\* A reader that attached before the writer's cleanup, is the only one, is not
\* killed and took no stale token gets the whole input: both programs run to
\* their end.
TransferCompletes ==
    \A r \in Readers :
        [](exited = {} /\ OnlyReader(r) /\ stale = 0) =>
            (rpc[r] = "reserve" ~> rpc[r] = "done" /\ wpc = "done")

Block == [bufferSize : 1..BUF_SIZE, buffer : 1..MaxChunks]

Channel == INSTANCE OneSlotChannel WITH Chunk <- Block

\* The programs implement the one-slot channel until a stale token is taken: each
\* step puts a block in, takes it out, closes the channel, or is none of these.
ImplementsChannel ==
    Channel!ChanInit /\ [][stale' = 0 => Channel!ChanNext]_(Channel!chanVars)
=============================================================================
