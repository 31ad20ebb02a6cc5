------------------------------ MODULE PipeSync ------------------------------
(***************************************************************************)
(* pipes/pipe_sync.c: the parent forks a child per argument and waits for  *)
(* end of file on a pipe whose write end every child holds.  Each child    *)
(* sleeps, closes the write end and exits; the parent is then ready, and   *)
(* reaps the children.                                                     *)
(***************************************************************************)
EXTENDS Integers, FiniteSets

CONSTANTS numChildren,  \* argc - 1
          Kills         \* whether a child may be killed

ASSUME SyncAssumption == numChildren \in Nat \ {0} /\ Kills \in BOOLEAN

Children == 1..numChildren
Parent == 0

VARIABLES ppc,          \* the parent's next statement
          i,            \* the index of its for loops
          cpc,          \* each child's next statement
          writers       \* the processes with the write end open

vars == <<ppc, i, cpc, writers>>

Init ==
    /\ ppc = "fork"
    /\ i = 1
    /\ cpc = [c \in Children |-> "unborn"]
    /\ writers = {Parent}

-----------------------------------------------------------------------------
\* fork(): the child has a copy of both descriptors and closes the read end.
ParentFork ==
    /\ ppc = "fork" /\ i <= numChildren
    /\ cpc' = [cpc EXCEPT ![i] = "sleep"]
    /\ writers' = writers \cup {i}
    /\ i' = i + 1
    /\ UNCHANGED ppc

\* fork() fails: the parent exits and the children it has go on alone.
ParentForkFails ==
    /\ ppc = "fork" /\ i <= numChildren
    /\ ppc' = "failed"
    /\ writers' = writers \ {Parent}
    /\ UNCHANGED <<i, cpc>>

ParentCloseWrite ==
    /\ ppc = "fork" /\ i > numChildren
    /\ ppc' = "read"
    /\ writers' = writers \ {Parent}
    /\ UNCHANGED <<i, cpc>>

\* read() meets end of file; close(), and "Parent ready to go".
ParentReady ==
    /\ ppc = "read" /\ writers = {}
    /\ ppc' = "wait"
    /\ i' = 1
    /\ UNCHANGED <<cpc, writers>>

ParentWait ==
    /\ ppc = "wait" /\ i <= numChildren
    /\ \E c \in Children : cpc[c] = "zombie" /\ cpc' = [cpc EXCEPT ![c] = "reaped"]
    /\ i' = i + 1
    /\ UNCHANGED <<ppc, writers>>

ParentReturn ==
    /\ ppc = "wait" /\ i > numChildren
    /\ ppc' = "done"
    /\ UNCHANGED <<i, cpc, writers>>

ParentNext ==
    \/ ParentFork \/ ParentCloseWrite \/ ParentReady \/ ParentWait \/ ParentReturn

-----------------------------------------------------------------------------
MutCloseBeforeSleep(c) ==
    /\ cpc[c] = "sleep" /\ c \in writers
    /\ writers' = writers \ {c}
    /\ UNCHANGED <<ppc, i, cpc>>

\* sleep() is over: the child closes the write end.
ChildClose(c) ==
    /\ cpc[c] = "sleep"
    /\ cpc' = [cpc EXCEPT ![c] = "exit"]
    /\ writers' = writers \ {c}
    /\ UNCHANGED <<ppc, i>>

ChildExit(c) ==
    /\ cpc[c] = "exit"
    /\ cpc' = [cpc EXCEPT ![c] = "zombie"]
    /\ UNCHANGED <<ppc, i, writers>>

\* getUint() refuses the argument, or a signal ends the child: the kernel
\* closes its descriptors.
ChildDies(c) ==
    /\ Kills
    /\ cpc[c] \in {"sleep", "exit"}
    /\ cpc' = [cpc EXCEPT ![c] = "zombie"]
    /\ writers' = writers \ {c}
    /\ UNCHANGED <<ppc, i>>

ChildNext(c) == ChildClose(c) \/ ChildExit(c)

-----------------------------------------------------------------------------
Next ==
    \/ ParentNext \/ ParentForkFails
    \/ \E c \in Children : ChildNext(c) \/ ChildDies(c)

Spec == Init /\ [][Next]_vars

\* Processes that can run do, and sleep() ends.
Fairness == WF_vars(ParentNext) /\ \A c \in Children : WF_vars(ChildNext(c))

FairSpec == Spec /\ Fairness

-----------------------------------------------------------------------------
TypeOK ==
    /\ ppc \in {"fork", "read", "wait", "done", "failed"}
    /\ i \in 1..(numChildren + 1)
    /\ cpc \in [Children -> {"unborn", "sleep", "exit", "zombie", "reaped"}]
    /\ writers \in SUBSET (Children \cup {Parent})

\* "Parent ready to go" is printed after the last child has passed its
\* sleep, however forks, closes and deaths of children interleave.
ReadyAfterAllChildren ==
    ppc \in {"wait", "done"} => \A c \in Children : cpc[c] \in {"exit", "zombie", "reaped"}

\* The parent calls wait() once per child that is left, so none fails with
\* ECHILD and no zombie is left when it returns.
OneWaitPerChild ==
    ppc \in {"wait", "done"} =>
        Cardinality({c \in Children : cpc[c] # "reaped"}) = numChildren + 1 - i

\* The parent gets its end of file and reaps every child.
ParentFinishes == <>(ppc \in {"done", "failed"})
=============================================================================
