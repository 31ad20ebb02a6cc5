------------------------------- MODULE Flock --------------------------------
(***************************************************************************)
(* filelock/t_flock.c: processes that lock one file with flock(), shared   *)
(* or exclusive, sleep and unlock it.  flock() itself is the kernel's.     *)
(***************************************************************************)
CONSTANTS Procs,        \* the processes
          Args          \* the command lines to try, functions from Procs to
                        \* [op, nonblock, exists]

VARIABLES pc,           \* each process's next statement
          arg           \* the command line of each process

vars == <<pc, arg>>

Init == pc = [p \in Procs |-> "open"] /\ arg \in Args

At(p, here, next) ==
    /\ pc[p] = here
    /\ pc' = [pc EXCEPT ![p] = next]
    /\ UNCHANGED arg

Holders == {p \in Procs : pc[p] = "granted"}

\* The lock asked for by the letter s or x.
Op(p) == arg[p].op

Free(p) == \A q \in Holders : Op(p) = "LOCK_SH" /\ Op(q) = "LOCK_SH"

Open(p) == At(p, "open", IF arg[p].exists THEN "flock" ELSE "failed")

\* flock() waits until no other process has an incompatible lock.
Lock(p) == At(p, "flock", "granted") /\ Free(p)

\* "already locked - bye!"
Bye(p) == At(p, "flock", "failed") /\ ~Free(p) /\ arg[p].nonblock

\* sleep(), LOCK_UN
Unlock(p) == At(p, "granted", "done")

Proc(p) == Open(p) \/ Lock(p) \/ Bye(p) \/ Unlock(p)

Next == \E p \in Procs : Proc(p)

Spec == Init /\ [][Next]_vars

FairSpec == Spec /\ \A p \in Procs : WF_vars(Proc(p))

\* Every process gets its lock and ends, or says good-bye.
AllEnd == <>(\A p \in Procs : pc[p] \in {"done", "failed"})
=============================================================================
