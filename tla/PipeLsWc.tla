------------------------------ MODULE PipeLsWc ------------------------------
(***************************************************************************)
(* pipes/pipe_ls_wc.c: the shell pipeline ls | wc -l.  The model keeps the *)
(* descriptor table of each process, since which numbers pipe() returns    *)
(* depends on which of the standard descriptors are open at the start.     *)
(***************************************************************************)
EXTENDS Integers, FiniteSets, FiniteSetsExt

CONSTANTS MaxLines,     \* the number of lines ls may write
          Capacity      \* lines the pipe holds

Procs == {"parent", "ls", "wc"}
STDIN_FILENO == 0
STDOUT_FILENO == 1
Fds == 0..4             \* three standard descriptors and the pipe's two
Files == {"closed", "tty", "read end", "write end"}

VARIABLES pc,           \* each process's next statement
          fd,           \* fd[p][d]: what descriptor d of process p refers to
          pipefd,       \* pipefd[1], the read end, and pipefd[2], the write end
          lines,        \* the lines ls has still to write
          inPipe        \* the lines in the pipe

vars == <<pc, fd, pipefd, lines, inPipe>>
data == <<lines, inPipe>>

NoFiles == [d \in Fds |-> "closed"]

\* Any of the standard descriptors may be closed when the program starts.
Init ==
    /\ pc = [p \in Procs |-> IF p = "parent" THEN "pipe" ELSE "unborn"]
    /\ \E open \in SUBSET {0, 1, 2} :
         fd = [p \in Procs |-> IF p = "parent"
                               THEN [d \in Fds |-> IF d \in open THEN "tty" ELSE "closed"]
                               ELSE NoFiles]
    /\ pipefd = <<0, 0>>
    /\ lines \in 0..MaxLines
    /\ inPipe = 0

-----------------------------------------------------------------------------
(* The descriptor calls.  pipe() takes the two lowest free numbers. *)

Free(p) == {d \in Fds : fd[p][d] = "closed"}
Holders(end) == {p \in Procs : \E d \in Fds : fd[p][d] = end}

At(p, here, next) == pc[p] = here /\ pc' = [pc EXCEPT ![p] = next]

close(p, d) == fd' = [fd EXCEPT ![p][d] = "closed"]

MutMoveAlways(p, end, d) ==
    fd' = [fd EXCEPT ![p] = [[@ EXCEPT ![d] = fd[p][pipefd[end]]]
                                EXCEPT ![pipefd[end]] = "closed"]]

\* if (pipefd[end] != d) { dup2(pipefd[end], d); close(pipefd[end]); }
Move(p, end, d) ==
    IF pipefd[end] = d THEN UNCHANGED fd
    ELSE fd' = [fd EXCEPT ![p] = [[@ EXCEPT ![d] = fd[p][pipefd[end]]]
                                     EXCEPT ![pipefd[end]] = "closed"]]

Exit(p, how) ==
    /\ pc' = [pc EXCEPT ![p] = how]
    /\ fd' = [fd EXCEPT ![p] = NoFiles]

-----------------------------------------------------------------------------
(* The parent *)

ParentPipe ==
    /\ At("parent", "pipe", "forkLs")
    /\ LET r == Min(Free("parent"))
           w == Min(Free("parent") \ {r})
       IN /\ pipefd' = <<r, w>>
          /\ fd' = [fd EXCEPT !["parent"] = [[@ EXCEPT ![r] = "read end"]
                                                EXCEPT ![w] = "write end"]]
    /\ UNCHANGED data

ParentFork(child, here, next) ==
    /\ pc["parent"] = here
    /\ pc' = [pc EXCEPT !["parent"] = next, ![child] = "closeOther"]
    /\ fd' = [fd EXCEPT ![child] = fd["parent"]]
    /\ UNCHANGED <<pipefd, data>>

ParentForkFails ==
    /\ pc["parent"] \in {"forkLs", "forkWc"}
    /\ Exit("parent", "failed")
    /\ UNCHANGED <<pipefd, data>>

ParentCloseRead ==
    /\ At("parent", "closeRead", "closeWrite")
    /\ close("parent", pipefd[1])
    /\ UNCHANGED <<pipefd, data>>

ParentCloseWrite ==
    /\ At("parent", "closeWrite", "wait")
    /\ close("parent", pipefd[2])
    /\ UNCHANGED <<pipefd, data>>

\* Two wait() calls, and the parent returns.
ParentWait ==
    /\ pc["parent"] = "wait"
    /\ \A c \in {"ls", "wc"} : pc[c] \in {"ended", "failed"}
    /\ Exit("parent", "ended")
    /\ UNCHANGED <<pipefd, data>>

ParentNext ==
    \/ ParentPipe \/ ParentFork("ls", "forkLs", "forkWc")
    \/ ParentFork("wc", "forkWc", "closeRead")
    \/ ParentCloseRead \/ ParentCloseWrite \/ ParentWait

-----------------------------------------------------------------------------
(* The children up to execlp(), which may fail *)

LsCloseRead ==
    /\ At("ls", "closeOther", "move")
    /\ close("ls", pipefd[1])
    /\ UNCHANGED <<pipefd, data>>

LsMove ==
    /\ At("ls", "move", "exec")
    /\ Move("ls", 2, STDOUT_FILENO)
    /\ UNCHANGED <<pipefd, data>>

WcCloseWrite ==
    /\ At("wc", "closeOther", "move")
    /\ close("wc", pipefd[2])
    /\ UNCHANGED <<pipefd, data>>

WcMove ==
    /\ At("wc", "move", "exec")
    /\ Move("wc", 1, STDIN_FILENO)
    /\ UNCHANGED <<pipefd, data>>

ExecFails(c) ==
    /\ pc[c] = "exec"
    /\ Exit(c, "failed")
    /\ UNCHANGED <<pipefd, data>>

-----------------------------------------------------------------------------
(* ls and wc -l, after execlp() *)

LsWrite ==
    /\ pc["ls"] = "exec" /\ lines > 0
    /\ fd["ls"][STDOUT_FILENO] = "write end"
    /\ Holders("read end") # {} /\ inPipe < Capacity
    /\ lines' = lines - 1
    /\ inPipe' = inPipe + 1
    /\ UNCHANGED <<pc, fd, pipefd>>

\* SIGPIPE: nobody can read the pipe any more.
LsBrokenPipe ==
    /\ pc["ls"] = "exec" /\ lines > 0
    /\ Holders("read end") = {}
    /\ Exit("ls", "failed")
    /\ UNCHANGED <<pipefd, data>>

LsEnd ==
    /\ pc["ls"] = "exec" /\ lines = 0
    /\ Exit("ls", "ended")
    /\ UNCHANGED <<pipefd, data>>

WcRead ==
    /\ pc["wc"] = "exec" /\ fd["wc"][STDIN_FILENO] = "read end"
    /\ inPipe > 0
    /\ inPipe' = inPipe - 1
    /\ UNCHANGED <<pc, fd, pipefd, lines>>

\* End of file: wc prints its count.
WcEnd ==
    /\ pc["wc"] = "exec" /\ fd["wc"][STDIN_FILENO] = "read end"
    /\ inPipe = 0 /\ Holders("write end") = {}
    /\ Exit("wc", "ended")
    /\ UNCHANGED <<pipefd, data>>

LsNext == LsCloseRead \/ LsMove \/ LsWrite \/ LsBrokenPipe \/ LsEnd
WcNext == WcCloseWrite \/ WcMove \/ WcRead \/ WcEnd

-----------------------------------------------------------------------------
Next ==
    \/ ParentNext \/ ParentForkFails \/ LsNext \/ WcNext
    \/ ExecFails("ls") \/ ExecFails("wc")

Spec == Init /\ [][Next]_vars

\* The kernel runs every process that can run.
Fairness == WF_vars(ParentNext) /\ WF_vars(LsNext) /\ WF_vars(WcNext)

FairSpec == Spec /\ Fairness

-----------------------------------------------------------------------------
TypeOK ==
    /\ pc \in [Procs -> {"unborn", "pipe", "forkLs", "forkWc", "closeRead", "closeWrite",
                         "wait", "closeOther", "move", "exec", "ended", "failed"}]
    /\ fd \in [Procs -> [Fds -> Files]]
    /\ pipefd \in Fds \X Fds
    /\ lines \in 0..MaxLines
    /\ inPipe \in 0..Capacity

Ends(p, end) == {d \in Fds : fd[p][d] = end}

\* Whatever was closed at the start, execlp() finds ls with the write end as
\* its standard output, wc with the read end as its standard input, and no
\* other descriptor of the pipe in either.
Wired ==
    /\ pc["ls"] = "exec" => Ends("ls", "write end") = {STDOUT_FILENO} /\ Ends("ls", "read end") = {}
    /\ pc["wc"] = "exec" => Ends("wc", "read end") = {STDIN_FILENO} /\ Ends("wc", "write end") = {}

\* All processes end, since nobody keeps an end of the pipe open.
PipelineEnds ==
    <>(pc["parent"] \in {"ended", "failed"}) /\ <>[](\A c \in {"ls", "wc"} :
        pc[c] \in {"unborn", "ended", "failed"})
=============================================================================
