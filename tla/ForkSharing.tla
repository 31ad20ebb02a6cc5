---------------------------- MODULE ForkSharing ----------------------------
(***************************************************************************)
(* procexec/fork_file_sharing.c, procexec/t_fork.c and mmap/anon_mmap.c:   *)
(* what a parent sees of what its child did.  The open file is shared by   *)
(* the two, and so is the page mapped MAP_SHARED; the variables are not.   *)
(* t_fork's parent sleeps where the others call wait(), which puts the two *)
(* in no order.                                                            *)
(***************************************************************************)
EXTENDS Integers

CONSTANT Faults         \* whether calls may fail

Procs == {"parent", "child"}

VARIABLES code,         \* the program that runs
          pc,           \* each process's next statement
          data,         \* iData of each process
          page,         \* *addr
          offset,       \* the file offset
          temp,         \* the file made by mkstemp() exists
          shown         \* [data, page, offset] the parent printed

vars == <<code, pc, data, page, offset, temp, shown>>
shared == <<page, offset, temp>>

Init ==
    /\ code \in {"fork_file_sharing", "t_fork", "anon_mmap"}
    /\ pc = [p \in Procs |-> IF p = "parent" THEN "fork" ELSE "unborn"]
    /\ data = [p \in Procs |-> 111]
    /\ page = 1
    /\ offset = 0
    /\ temp = (code = "fork_file_sharing")
    /\ shown = << >>

Goto(p, next) == pc' = [pc EXCEPT ![p] = next]

\* The child gets copies of the variables.
Fork ==
    /\ pc["parent"] = "fork"
    /\ pc' = [parent |-> IF code = "t_fork" THEN "show" ELSE "wait", child |-> "work"]
    /\ data' = [data EXCEPT !["child"] = data["parent"]]
    /\ UNCHANGED <<code, shared, shown>>

\* t_fork goes on to print; fork_file_sharing leaves its file behind.
ForkFails ==
    /\ Faults /\ pc["parent"] = "fork"
    /\ Goto("parent", IF code = "t_fork" THEN "show" ELSE "failed")
    /\ UNCHANGED <<code, data, shared, shown>>

\* What the child does.  F_SETFD does not keep O_APPEND: the flags of the open
\* file stay as they are.
Effect ==
    /\ data' = [data EXCEPT !["child"] = IF code = "t_fork" THEN 3 * @ ELSE @]
    /\ page' = IF code = "anon_mmap" THEN page + 1 ELSE page
    /\ offset' = IF code = "fork_file_sharing" THEN 1000 ELSE offset

Work ==
    /\ pc["child"] = "work"
    /\ Goto("child", "exited")
    /\ Effect
    /\ UNCHANGED <<code, temp, shown>>

\* lseek() fails, or a call after the one that matters.
WorkFails ==
    /\ Faults /\ pc["child"] = "work" /\ code # "t_fork"
    /\ Goto("child", "failed")
    /\ Effect \/ (code = "fork_file_sharing" /\ UNCHANGED <<data, page, offset>>)
    /\ UNCHANGED <<code, temp, shown>>

Wait ==
    /\ pc["parent"] = "wait" /\ pc["child"] \in {"exited", "failed"}
    /\ Goto("parent", "show")
    /\ UNCHANGED <<code, data, shared, shown>>

\* The parent prints; fork_file_sharing removes its file.
Show ==
    /\ pc["parent"] = "show"
    /\ Goto("parent", "exited")
    /\ shown' = [data |-> data["parent"], page |-> page, offset |-> offset]
    /\ temp' = FALSE
    /\ UNCHANGED <<code, data, page, offset>>

\* lseek() or fcntl() fails; the file stays behind.
ShowFails ==
    /\ Faults /\ pc["parent"] = "show" /\ code = "fork_file_sharing"
    /\ Goto("parent", "failed")
    /\ UNCHANGED <<code, data, shared, shown>>

ParentNext == Fork \/ ForkFails \/ Wait \/ Show \/ ShowFails
ChildNext == Work \/ WorkFails

Next == ParentNext \/ ChildNext

Spec == Init /\ [][Next]_vars

\* fork_file_sharing.c:60, anon_mmap.c:43: what the parent prints of the file
\* and of the page is what the child left, in every interleaving; t_fork.c:29:
\* of the variables it is what they were before the fork.
SeesSharedOnly ==
    shown # << >> =>
        /\ shown.data = 111
        /\ pc["child"] = "exited" /\ code = "anon_mmap" => shown.page = 2
        /\ pc["child"] = "exited" /\ code = "fork_file_sharing" => shown.offset = 1000
=============================================================================
