----------------------------- MODULE MCProcesses -----------------------------
(***************************************************************************)
(* The programs that fork, the pipes between processes, the programs that  *)
(* lock, write and copy files, and free_and_sbrk, on small instances.      *)
(* `program' names the one that was started; the others stand still.       *)
(***************************************************************************)
EXTENDS PipeSync

CONSTANT None

Cmd(op, n, mark) == [op |-> op, n |-> n, mark |-> mark]
SeekArgs ==
    [p1 : {<<Cmd("s", 3, 0), Cmd("w", 2, 1), Cmd("s", 0, 0), Cmd("r", 4, 0)>>,
           <<Cmd("w", 1, 1), Cmd("s", -1, 0), Cmd("w", 1, 1)>>, <<Cmd("error", 0, 0)>>},
     p2 : {<<Cmd("w", 2, 2), Cmd("R", 3, 0), Cmd("w", 1, 3)>>,
           <<Cmd("s", 2, 0), Cmd("w", 2, 2), Cmd("s", 9, 0), Cmd("r", 1, 0)>>}]

FlockArgs ==
    [{"p1", "p2", "p3"} -> [op : {"LOCK_SH", "LOCK_EX"}, nonblock : BOOLEAN, exists : {TRUE}]]
    \cup [{"p1", "p2", "p3"} -> [op : {"LOCK_EX"}, nonblock : {FALSE}, exists : BOOLEAN]]

\* Requests that wait, test and ask; a range before the start of the file.
Line(cmd, lock, start, length, whence) ==
    [cmd |-> cmd, lock |-> lock, start |-> start, length |-> length, whence |-> whence]
LockLines ==
    {Line("w", "w", 0, 1, "s"), Line("w", "w", -1, 0, "e"), Line("w", "r", 0, 1, "s"),
     Line("s", "r", 2, -2, "c"), Line("s", "u", 0, 0, "s"), Line("g", "w", -3, 1, "e")}

VARIABLES program,
          pc, fd, pipefd, lines, inPipe,
          spPpc, spCpc, arg, unwritten, pipe, readers, spWriters, out,
          mwPpc, mwForked, child, numDead,
          code, fkPc, data, page, fkOffset, temp, fkShown,
          flPc, flArg,
          fcLines, held, waits, blocker,
          args, state, offset, file, writes,
          cpPc, same, original, cpInput, output, position, buffer,
          umPc, umask, myfile, mydir, printed,
          fsPc, numAllocs, freeStep, freeMin, freeMax, fsI, block

LsWc == INSTANCE PipeLsWc WITH MaxLines <- 3, Capacity <- 2
Simple == INSTANCE SimplePipe
    WITH BUFFER_SIZE <- 2, MaxLen <- 6, Capacity <- 3, Faults <- TRUE,
         ppc <- spPpc, cpc <- spCpc, writers <- spWriters
Multi == INSTANCE MultiWait
    WITH NumChildren <- 4, Faults <- TRUE, ppc <- mwPpc, forked <- mwForked
Shared == INSTANCE ForkSharing
    WITH Faults <- TRUE, pc <- fkPc, offset <- fkOffset, shown <- fkShown
Locks == INSTANCE Flock WITH Procs <- {"p1", "p2", "p3"}, Args <- FlockArgs, pc <- flPc, arg <- flArg
Ranges == INSTANCE FcntlLocking
    WITH Procs <- 1..3, Commands <- LockLines, MaxLines <- 2, FileSize <- 2, MaxByte <- 2,
         lines <- fcLines
Seek == INSTANCE SeekIo WITH Procs <- {"p1", "p2"}, Args <- SeekArgs
Copier == INSTANCE CopyFile
    WITH BUFFER_SIZE <- 2, MaxLen <- 5, Faults <- TRUE, pc <- cpPc, input <- cpInput
Perms == INSTANCE FilePerms WITH pc <- umPc
Memory == INSTANCE FreeAndSbrk WITH MAX_ALLOCS <- 3, ULONG_RANGE <- 8, pc <- fsPc, i <- fsI

ASSUME Memory!FreeAssumption

lsWcVars == <<pc, fd, pipefd, lines, inPipe>>
simpleVars == <<spPpc, spCpc, arg, unwritten, pipe, readers, spWriters, out>>
multiVars == <<mwPpc, mwForked, child, numDead>>
forkVars == <<code, fkPc, data, page, fkOffset, temp, fkShown>>
flockVars == <<flPc, flArg>>
fcntlVars == <<fcLines, held, waits, blocker>>
seekVars == <<args, state, offset, file, writes>>
copyVars == <<cpPc, same, original, cpInput, output, position, buffer>>
permVars == <<umPc, umask, myfile, mydir, printed>>
memVars == <<fsPc, numAllocs, freeStep, freeMin, freeMax, fsI, block>>
mcVars == <<program, vars, lsWcVars, simpleVars, multiVars, forkVars, flockVars, fcntlVars,
            seekVars, copyVars, permVars, memVars>>

MCInit ==
    /\ program \in {"pipe_sync", "pipe_ls_wc", "simple_pipe", "multi_wait", "fork", "t_flock",
                    "i_fcntl_locking", "seek_io", "copy", "t_umask", "free_and_sbrk"}
    /\ IF program = "pipe_ls_wc" THEN TRUE ELSE lines = 0
    /\ IF program = "simple_pipe" THEN TRUE ELSE arg = << >>
    /\ IF program = "fork" THEN TRUE ELSE code = "t_fork"
    /\ IF program = "t_flock" THEN TRUE ELSE flArg = CHOOSE a \in FlockArgs : TRUE
    /\ IF program = "seek_io" THEN TRUE ELSE args = CHOOSE a \in SeekArgs : TRUE
    /\ IF program = "copy" THEN TRUE ELSE same = FALSE /\ original = << >>
    /\ IF program = "t_umask" THEN TRUE ELSE myfile = Perms!Missing /\ mydir = Perms!Missing
    /\ IF program = "free_and_sbrk" THEN TRUE ELSE numAllocs = 0 /\ freeStep = 0 /\ freeMin = 0 /\ freeMax = 0
    /\ Init /\ LsWc!Init /\ Simple!Init /\ Multi!Init /\ Shared!Init /\ Locks!Init
    /\ Ranges!Init /\ Seek!Init /\ Copier!Init /\ Perms!Init /\ Memory!Init
    /\ program # "pipe_ls_wc" => LsWc!Free("parent") = {3, 4}

Sync == program = "pipe_sync" /\ UNCHANGED
    <<program, lsWcVars, simpleVars, multiVars, forkVars, flockVars, fcntlVars,
      seekVars, copyVars, permVars, memVars>>
Pipeline == program = "pipe_ls_wc" /\ UNCHANGED
    <<program, vars, simpleVars, multiVars, forkVars, flockVars, fcntlVars,
      seekVars, copyVars, permVars, memVars>>
Copy == program = "simple_pipe" /\ UNCHANGED
    <<program, vars, lsWcVars, multiVars, forkVars, flockVars, fcntlVars,
      seekVars, copyVars, permVars, memVars>>
Waits == program = "multi_wait" /\ UNCHANGED
    <<program, vars, lsWcVars, simpleVars, forkVars, flockVars, fcntlVars,
      seekVars, copyVars, permVars, memVars>>
Forks == program = "fork" /\ UNCHANGED
    <<program, vars, lsWcVars, simpleVars, multiVars, flockVars, fcntlVars,
      seekVars, copyVars, permVars, memVars>>
Flocks == program = "t_flock" /\ UNCHANGED
    <<program, vars, lsWcVars, simpleVars, multiVars, forkVars, fcntlVars,
      seekVars, copyVars, permVars, memVars>>
Fcntls == program = "i_fcntl_locking" /\ UNCHANGED
    <<program, vars, lsWcVars, simpleVars, multiVars, forkVars, flockVars,
      seekVars, copyVars, permVars, memVars>>
Seeks == program = "seek_io" /\ UNCHANGED
    <<program, vars, lsWcVars, simpleVars, multiVars, forkVars, flockVars,
      fcntlVars, copyVars, permVars, memVars>>
Copies == program = "copy" /\ UNCHANGED
    <<program, vars, lsWcVars, simpleVars, multiVars, forkVars, flockVars,
      fcntlVars, seekVars, permVars, memVars>>
Umasks == program = "t_umask" /\ UNCHANGED
    <<program, vars, lsWcVars, simpleVars, multiVars, forkVars, flockVars,
      fcntlVars, seekVars, copyVars, memVars>>
Frees == program = "free_and_sbrk" /\ UNCHANGED
    <<program, vars, lsWcVars, simpleVars, multiVars, forkVars, flockVars,
      fcntlVars, seekVars, copyVars, permVars>>

MCNext ==
    \/ Sync /\ Next
    \/ Pipeline /\ LsWc!Next
    \/ Copy /\ Simple!Next
    \/ Waits /\ Multi!Next
    \/ Forks /\ Shared!Next
    \/ Flocks /\ Locks!Next
    \/ Fcntls /\ Ranges!Next
    \/ Seeks /\ Seek!Next
    \/ Copies /\ Copier!Next
    \/ Umasks /\ Perms!Next
    \/ Frees /\ Memory!Next

\* The fairness of each program, while it is the one that runs.
MCSpec ==
    /\ MCInit /\ [][MCNext]_mcVars
    /\ WF_mcVars(Sync /\ ParentNext)
    /\ \A c \in Children : WF_mcVars(Sync /\ ChildNext(c))
    /\ WF_mcVars(Pipeline /\ LsWc!ParentNext)
    /\ WF_mcVars(Pipeline /\ LsWc!LsNext) /\ WF_mcVars(Pipeline /\ LsWc!WcNext)
    /\ WF_mcVars(Copy /\ Simple!ParentNext) /\ WF_mcVars(Copy /\ Simple!ChildNext)
    /\ WF_mcVars(Waits /\ Multi!ParentNext)
    /\ \A c \in Multi!Children : WF_mcVars(Waits /\ Multi!ChildExit(c))
    /\ WF_mcVars(Flocks /\ Locks!Next)
    /\ \A p \in 1..3 : WF_mcVars(Fcntls /\ Ranges!Proc(p))

\* A parent speaks after its children: pipe_sync.c is ready, and multi_wait.c ends,
\* only when each of them has closed the pipe or has been reaped; fork_file_sharing.c:60
\* and anon_mmap.c:43 print what the child left of the file and of the shared page,
\* t_fork.c:29 the variable as it was before fork().
AfterAllChildren ==
    /\ ReadyAfterAllChildren /\ OneWaitPerChild
    /\ Multi!EveryChildReaped
    /\ Shared!SeesSharedOnly

\* pipe_ls_wc.c: whatever was closed at the start, ls and wc are executed with
\* the right end as standard output and input, and no other end of the pipe.
Wired == LsWc!Wired


\* free_and_sbrk.c:48: unless the step is 0, only allocated blocks are freed,
\* however the index wraps around, and exactly those announced if it does not.
FreesAllocatedBlocks == Memory!FreesAllocatedBlocks

\* Every process of the programs that wait for each other ends: nobody waits for an
\* end of file that a forgotten descriptor holds back, for a child that does not
\* end, or for a lock in a circle of others.
EveryProcessEnds ==
    /\ program = "pipe_sync" => ParentFinishes
    /\ program = "pipe_ls_wc" => LsWc!PipelineEnds
    /\ program = "simple_pipe" => Simple!BothEnd
    /\ program = "multi_wait" => Multi!ParentEnds
    /\ program = "t_flock" => Locks!AllEnd
    /\ program = "i_fcntl_locking" => Ranges!AllEnd
=============================================================================
