----------------------------- MODULE FcntlLocking -----------------------------
(***************************************************************************)
(* filelock/i_fcntl_locking.c: processes that lock parts of one file with  *)
(* fcntl(), each as its input says, and exit at the end of the input.      *)
(* The table of locks, the queue of waiting processes and the test for a   *)
(* deadlock are the kernel's: a waiting process is recorded as blocked by  *)
(* one of those in its way, and a request that would close a circle of     *)
(* such records fails.                                                     *)
(***************************************************************************)
EXTENDS Integers, Relation

CONSTANTS Procs,        \* the processes
          Commands,     \* lines of input: [cmd, lock, start, length, whence];
                        \* cmd "?" stands for the lines that call nothing
          MaxLines,     \* the lines of input of each process
          FileSize, MaxByte,
          None

VARIABLES lines,        \* the lines each process has read, None once it exited
          held,         \* the lock each process has on each byte: "r", "w" or None
          waits,        \* the command each process waits for, or None
          blocker       \* who is in its way, or None

vars == <<lines, held, waits, blocker>>

Unlocked == [b \in 0..MaxByte |-> None]

Init ==
    /\ lines = [p \in Procs |-> 0]
    /\ held = [p \in Procs |-> Unlocked]
    /\ waits = [p \in Procs |-> None]
    /\ blocker = [p \in Procs |-> None]

\* l_whence, l_start and l_len: the file offset stays 0, no length means the
\* rest of the file, a negative length the bytes before l_start.
First(c) == (IF c.whence = "e" THEN FileSize ELSE 0) + c.start
Bytes(c) ==
    IF c.length > 0 THEN First(c)..(First(c) + c.length - 1)
    ELSE IF c.length = 0 THEN First(c)..MaxByte ELSE (First(c) + c.length)..(First(c) - 1)

\* EINVAL: before the beginning of the file, or a question about no lock.
Invalid(c) == \E b \in Bytes(c) : b < 0 \/ (c.cmd = "g" /\ c.lock = "u")

InTheWay(p, c) ==
    {q \in Procs \ {p} : \E b \in Bytes(c) :
        \/ c.lock = "w" /\ held[q][b] # None
        \/ c.lock = "r" /\ held[q][b] = "w"}

\* q waits for p, directly or not.
WaitsFor(q, p) ==
    TransitiveClosure([x, y \in Procs |-> blocker[x] = y], Procs)[q, p]

Read(p) ==
    /\ lines[p] # None /\ waits[p] = None /\ lines[p] < MaxLines
    /\ lines' = [lines EXCEPT ![p] = @ + 1]

\* "got lock" or "unlocked"
Grant(p, c) ==
    /\ InTheWay(p, c) = {}
    /\ held' = [held EXCEPT ![p] = [b \in 0..MaxByte |->
          IF b \notin Bytes(c) THEN @[b] ELSE IF c.lock = "u" THEN None ELSE c.lock]]
    /\ waits' = [waits EXCEPT ![p] = None]
    /\ blocker' = [blocker EXCEPT ![p] = None]

\* "failed (deadlock)"; the loop goes on.
Deadlock(p, c) ==
    /\ \E q \in InTheWay(p, c) : WaitsFor(q, p)
    /\ waits' = [waits EXCEPT ![p] = None]
    /\ blocker' = [blocker EXCEPT ![p] = None]
    /\ UNCHANGED held

Block(p, c) ==
    /\ \E q \in InTheWay(p, c) : ~WaitsFor(q, p) /\ blocker' = [blocker EXCEPT ![p] = q]
    /\ waits' = [waits EXCEPT ![p] = c]
    /\ UNCHANGED held

\* exit() gives all the locks of the process back.
Exit(p) ==
    /\ lines' = [lines EXCEPT ![p] = None]
    /\ held' = [held EXCEPT ![p] = Unlocked]
    /\ UNCHANGED <<waits, blocker>>

-----------------------------------------------------------------------------
\* Lines without effect: blank, "?", invalid; a question that is answered; and
\* F_SETLK with "failed (incompatible lock)".
Report(p, c) ==
    /\ Read(p)
    /\ c.cmd \in {"?", "g"} \/ (c.cmd = "s" /\ InTheWay(p, c) # {})
    /\ UNCHANGED <<held, waits, blocker>>

SetLock(p, c) == Read(p) /\ c.cmd \in {"s", "w"} /\ Grant(p, c)

SetLockWait(p, c) == Read(p) /\ c.cmd = "w" /\ (Deadlock(p, c) \/ Block(p, c))

Command(p, c) ==
    \/ ~Invalid(c) /\ (Report(p, c) \/ SetLock(p, c) \/ SetLockWait(p, c))
    \/ Invalid(c) /\ lines[p] # None /\ lines[p] < MaxLines /\ waits[p] = None /\ Exit(p)

\* The process in the way has let go: the kernel tries again.
Retry(p) ==
    /\ waits[p] # None /\ blocker[p] \notin InTheWay(p, waits[p])
    /\ Grant(p, waits[p]) \/ Deadlock(p, waits[p]) \/ Block(p, waits[p])
    /\ UNCHANGED lines

Eof(p) == lines[p] # None /\ waits[p] = None /\ Exit(p)

Proc(p) == Retry(p) \/ Eof(p) \/ \E c \in Commands : Command(p, c)

Next == \E p \in Procs : Proc(p)

Spec == Init /\ [][Next]_vars

\* The kernel schedules every process, and the input of each is finite.
FairSpec == Spec /\ \A p \in Procs : WF_vars(Proc(p))

-----------------------------------------------------------------------------
\* i_fcntl_locking.c:77: whatever circle of requests the processes attempt,
\* every fcntl() returns and every process reaches the end of its input.
AllEnd == <>(\A p \in Procs : lines[p] = None)
=============================================================================
