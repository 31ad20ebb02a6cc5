----------------------------- MODULE MultiWait ------------------------------
(***************************************************************************)
(* procexec/multi_wait.c: the parent forks one child per argument; each    *)
(* sleeps and exits; the parent calls wait() until there is no child left  *)
(* and numbers the children it reaps.                                      *)
(***************************************************************************)
EXTENDS Integers, FiniteSets

CONSTANTS NumChildren,  \* argc - 1
          Faults        \* whether fork() and getCurrTimeStr() may fail

Children == 1..NumChildren

VARIABLES ppc,          \* the parent's next statement
          forked,       \* children forked
          child,        \* "unborn", "running", "zombie" or "reaped"
          numDead       \* the last number printed after wait()

vars == <<ppc, forked, child, numDead>>

Init ==
    /\ ppc = "fork"
    /\ forked = 0
    /\ child = [c \in Children |-> "unborn"]
    /\ numDead = 0

Fork ==
    /\ ppc = "fork" /\ forked < NumChildren
    /\ forked' = forked + 1
    /\ child' = [child EXCEPT ![forked'] = "running"]
    /\ UNCHANGED <<ppc, numDead>>

\* The parent exits; nobody waits for the children it has.
ForkFails ==
    /\ Faults
    /\ ppc = "fork" /\ forked < NumChildren
    /\ ppc' = "failed"
    /\ UNCHANGED <<forked, child, numDead>>

StartWaiting ==
    /\ ppc = "fork" /\ forked = NumChildren
    /\ ppc' = "wait"
    /\ UNCHANGED <<forked, child, numDead>>

\* wait() returns the child, whichever is first, and the parent prints it.
Wait ==
    /\ ppc = "wait"
    /\ \E c \in Children :
         /\ child[c] = "zombie"
         /\ child' = [child EXCEPT ![c] = "reaped"]
    /\ numDead' = numDead + 1
    /\ UNCHANGED <<ppc, forked>>

WaitTimeFails ==
    /\ Faults
    /\ ppc = "wait"
    /\ \E c \in Children :
         /\ child[c] = "zombie"
         /\ child' = [child EXCEPT ![c] = "reaped"]
    /\ ppc' = "failed"
    /\ UNCHANGED <<forked, numDead>>

\* wait() fails with ECHILD.
NoChildLeft ==
    /\ ppc = "wait" /\ \A c \in Children : child[c] \in {"unborn", "reaped"}
    /\ ppc' = "done"
    /\ UNCHANGED <<forked, child, numDead>>

\* After its sleep, or because the time or its argument cannot be converted.
ChildExit(c) ==
    /\ child[c] = "running"
    /\ child' = [child EXCEPT ![c] = "zombie"]
    /\ UNCHANGED <<ppc, forked, numDead>>

ParentNext == Fork \/ StartWaiting \/ Wait \/ NoChildLeft

Next == ParentNext \/ ForkFails \/ WaitTimeFails \/ \E c \in Children : ChildExit(c)

Spec == Init /\ [][Next]_vars

\* The kernel schedules every process, and no sleep is endless.
FairSpec == Spec /\ WF_vars(ParentNext) /\ \A c \in Children : WF_vars(ChildExit(c))

-----------------------------------------------------------------------------
TypeOK ==
    /\ ppc \in {"fork", "wait", "failed", "done"}
    /\ forked \in 0..NumChildren
    /\ child \in [Children -> {"unborn", "running", "zombie", "reaped"}]
    /\ numDead \in 0..NumChildren

\* A parent that ends without an error has reaped every child it was asked
\* for, each once and in whatever order they ended.
EveryChildReaped ==
    ppc = "done" => numDead = NumChildren /\ \A c \in Children : child[c] = "reaped"

\* The parent does not wait for ever.
ParentEnds == <>(ppc \in {"failed", "done"})
=============================================================================
