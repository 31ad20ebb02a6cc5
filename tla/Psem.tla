-------------------------------- MODULE Psem --------------------------------
(***************************************************************************)
(* psem/: processes that create (psem_create), post, wait for, read and    *)
(* unlink one named semaphore.  The name and the semaphore are two things: *)
(* sem_open() finds the semaphore the name stands for at that moment, and  *)
(* after sem_unlink() the processes that have it open go on with it while  *)
(* the name may be given to another one.                                   *)
(***************************************************************************)
EXTENDS Integers, FiniteSets

CONSTANTS Creators, Posters, Waiters, Viewers, Unlinkers,   \* the processes
          Values,       \* the initial values psem_create may be given
          None          \* no semaphore

Procs == Creators \cup Posters \cup Waiters \cup Viewers \cup Unlinkers

\* Each semaphore is the work of one psem_create.
Sems == 1..Cardinality(Creators)

VARIABLES pc,           \* "start", "opened", "done" or "failed"
          oflag,        \* the options -c and -x of each psem_create
          init,         \* the value each psem_create is given
          name,         \* the semaphore the name stands for, or None
          created,      \* the number of semaphores created
          sem,          \* the semaphore each process has open
          value,        \* the value of each semaphore
          start         \* history: the value each semaphore began with

vars == <<pc, oflag, init, name, created, sem, value, start>>

Init ==
    /\ pc = [p \in Procs |-> "start"]
    /\ oflag \in [Creators -> SUBSET {"O_CREAT", "O_EXCL"}]
    /\ init \in [Creators -> Values]
    /\ name = None
    /\ created = 0
    /\ sem = [p \in Procs |-> None]
    /\ value = [s \in Sems |-> 0]
    /\ start = [s \in Sems |-> 0]

At(p, here, next) ==
    /\ pc[p] = here
    /\ pc' = [pc EXCEPT ![p] = next]
    /\ UNCHANGED <<oflag, init>>

-----------------------------------------------------------------------------
\* psem_create.c makes a new semaphore.
CreateNew(p) ==
    /\ name = None /\ "O_CREAT" \in oflag[p]
    /\ At(p, "start", "done")
    /\ created' = created + 1
    /\ name' = created'
    /\ sem' = [sem EXCEPT ![p] = created']
    /\ value' = [value EXCEPT ![created'] = init[p]]
    /\ start' = [start EXCEPT ![created'] = init[p]]

\* psem_create.c opens the one there is, and its value stays.
CreateExisting(p) ==
    /\ name # None /\ ~({"O_CREAT", "O_EXCL"} \subseteq oflag[p])
    /\ At(p, "start", "done")
    /\ sem' = [sem EXCEPT ![p] = name]
    /\ UNCHANGED <<name, created, value, start>>

\* EEXIST with -c -x, ENOENT without -c.
CreateFails(p) ==
    /\ IF name = None THEN "O_CREAT" \notin oflag[p]
                      ELSE {"O_CREAT", "O_EXCL"} \subseteq oflag[p]
    /\ At(p, "start", "failed")
    /\ UNCHANGED <<name, created, sem, value, start>>

\* sem_open(semName, 0) of psem_post.c, psem_wait.c and psem_getvalue.c.
Open(p) ==
    /\ At(p, "start", IF name = None THEN "failed" ELSE "opened")
    /\ sem' = [sem EXCEPT ![p] = name]
    /\ UNCHANGED <<name, created, value, start>>

Post(p) ==
    /\ At(p, "opened", "done")
    /\ value' = [value EXCEPT ![sem[p]] = @ + 1]
    /\ UNCHANGED <<name, created, sem, start>>

\* sem_wait() blocks while the value is 0.
Wait(p) ==
    /\ At(p, "opened", "done")
    /\ value[sem[p]] > 0
    /\ value' = [value EXCEPT ![sem[p]] = @ - 1]
    /\ UNCHANGED <<name, created, sem, start>>

GetValue(p) ==
    /\ At(p, "opened", "done")
    /\ UNCHANGED <<name, created, sem, value, start>>

Unlink(p) ==
    /\ At(p, "start", IF name = None THEN "failed" ELSE "done")
    /\ name' = None
    /\ UNCHANGED <<created, sem, value, start>>

Proc(p) ==
    \/ p \in Creators /\ (CreateNew(p) \/ CreateExisting(p) \/ CreateFails(p))
    \/ p \in Posters /\ (Open(p) \/ Post(p))
    \/ p \in Waiters /\ (Open(p) \/ Wait(p))
    \/ p \in Viewers /\ (Open(p) \/ GetValue(p))
    \/ p \in Unlinkers /\ Unlink(p)

-----------------------------------------------------------------------------
Next == \E p \in Procs : Proc(p)

Spec == Init /\ [][Next]_vars

\* The kernel schedules every process.
FairSpec == Spec /\ \A p \in Procs : WF_vars(Proc(p))

-----------------------------------------------------------------------------
TypeOK ==
    /\ pc \in [Procs -> {"start", "opened", "done", "failed"}]
    /\ oflag \in [Creators -> SUBSET {"O_CREAT", "O_EXCL"}]
    /\ init \in [Creators -> Values]
    /\ name \in 1..created \cup {None}
    /\ created \in 0..Cardinality(Creators)
    /\ sem \in [Procs -> Sems \cup {None}]
    /\ {value, start} \subseteq [Sems -> Nat]

\* The processes among P that have finished with semaphore s.
Finished(P, s) == Cardinality({p \in P : sem[p] = s /\ pc[p] = "done"})

\* Whatever is unlinked and created in between, no post is wasted: in the end
\* a process waits for a semaphore only when as many others got through as it
\* had units at the start and posts since.
NoPostWasted ==
    <>[](\A w \in Waiters : pc[w] = "opened" =>
            Finished(Waiters, sem[w]) = start[sem[w]] + Finished(Posters, sem[w]))
=============================================================================
