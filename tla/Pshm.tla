-------------------------------- MODULE Pshm --------------------------------
(***************************************************************************)
(* pshm/pshm_create.c, pshm_write.c, pshm_read.c and pshm_unlink.c:        *)
(* processes that resize, fill and print the POSIX shared memory objects   *)
(* of one name without any lock.                                           *)
(*                                                                         *)
(* Sizes are in pages: within a page a copy is one step, and a page beyond *)
(* the end of an object cannot be used.  The page a writer copies holds    *)
(* the writer's name.  The command lines are [flags, size] for pshm_create *)
(* and [len] for pshm_write.                                               *)
(***************************************************************************)
EXTENDS Integers, Sequences, FiniteSets, SequencesExt

CONSTANTS Creators, Writers, Readers, Unlinkers,    \* the processes
          Args,         \* the command lines to try, functions from the processes
          None          \* no object, nobody

Procs == Creators \cup Writers \cup Readers \cup Unlinkers
Objects == 1..Cardinality(Creators)

VARIABLES pc,           \* each process's next statement
          arg,          \* the command line of each process
          name,         \* the object the name stands for, or None
          created,      \* the number of objects created
          fd,           \* the object each process has opened
          mem,          \* the pages of each object; None is a page of zeros
          len,          \* the st_size of each pshm_read
          out,          \* the pages each pshm_read has written
          copied,       \* the pages each pshm_write has copied
          alone,        \* history: nobody resized or filled the process's
                        \* object while the process ran
          last,         \* history: who filled each object last, alone
          expected      \* history: last[] when each pshm_read began

vars == <<pc, arg, name, created, fd, mem, len, out, copied, alone, last, expected>>
history == <<alone, last, expected>>

Init ==
    /\ pc = [p \in Procs |-> "start"]
    /\ arg \in Args
    /\ name = None
    /\ created = 0
    /\ fd = [p \in Procs |-> None]
    /\ mem = [o \in Objects |-> << >>]
    /\ len = [r \in Readers |-> 0]
    /\ out = [r \in Readers |-> << >>]
    /\ copied = [w \in Writers |-> 0]
    /\ alone = [p \in Procs |-> FALSE]
    /\ last = [o \in Objects |-> None]
    /\ expected = [r \in Readers |-> None]

At(p, here, next) ==
    /\ pc[p] = here
    /\ pc' = [pc EXCEPT ![p] = next]
    /\ UNCHANGED arg

Changes(p) == p \in Creators \cup Writers
Active(o) == {p \in Procs : fd[p] = o /\ pc[p] \notin {"done", "failed", "killed"}}

\* What a process that opens o does to the history.
Enter(p, o) ==
    /\ alone' = [q \in Procs |-> IF q = p THEN \A c \in Active(o) : ~Changes(c)
                                 ELSE alone[q] /\ ~(Changes(p) /\ q \in Active(o))]
    /\ expected' = [r \in Readers |-> IF r = p THEN last[o] ELSE expected[r]]

\* What is known of the contents of o after p resized or filled it.
Leave(p, o, how) ==
    /\ last' = [last EXCEPT ![o] = IF how = "done" /\ p \in Writers /\ alone[p] THEN p ELSE None]
    /\ UNCHANGED <<alone, expected>>

-----------------------------------------------------------------------------
\* shm_open() with O_CREAT makes an empty object.
OpenNew(p) ==
    /\ name = None /\ "O_CREAT" \in arg[p].flags
    /\ At(p, "start", "ftruncate")
    /\ created' = created + 1
    /\ name' = created'
    /\ fd' = [fd EXCEPT ![p] = created']
    /\ Enter(p, created')
    /\ UNCHANGED <<mem, len, out, copied, last>>

\* shm_open() of the object there is; the name may be gone by the next call.
OpenExisting(p) ==
    /\ name # None
    /\ p \in Creators => ~({"O_CREAT", "O_EXCL"} \subseteq arg[p].flags)
    /\ At(p, "start", IF p \in Readers THEN "fstat" ELSE "ftruncate")
    /\ fd' = [fd EXCEPT ![p] = name]
    /\ Enter(p, name)
    /\ UNCHANGED <<name, created, mem, len, out, copied, last>>

OpenFails(p) ==
    /\ IF name = None THEN p \in Creators => "O_CREAT" \notin arg[p].flags
       ELSE p \in Creators /\ {"O_CREAT", "O_EXCL"} \subseteq arg[p].flags
    /\ At(p, "start", "failed")
    /\ UNCHANGED <<name, created, fd, mem, len, out, copied, history>>

Resized(pages, n) == [i \in 1..n |-> IF i <= Len(pages) THEN pages[i] ELSE None]

\* ftruncate() to the size given to pshm_create
Create(p) ==
    /\ At(p, "ftruncate", "done")
    /\ mem' = [mem EXCEPT ![fd[p]] = Resized(@, arg[p].size)]
    /\ Leave(p, fd[p], "done")
    /\ UNCHANGED <<name, created, fd, len, out, copied>>

-----------------------------------------------------------------------------
MutNoResize(p) ==
    /\ At(p, "ftruncate", "memcpy")
    /\ mem' = [mem EXCEPT ![fd[p]] = IF Len(@) < arg[p].len THEN Resized(@, arg[p].len) ELSE @]
    /\ UNCHANGED <<name, created, fd, len, out, copied, history>>

\* ftruncate() to the length of the message, and mmap()
Resize(p) ==
    /\ arg[p].len > 0
    /\ At(p, "ftruncate", "memcpy")
    /\ mem' = [mem EXCEPT ![fd[p]] = Resized(@, arg[p].len)]
    /\ UNCHANGED <<name, created, fd, len, out, copied, history>>

\* mmap() of no bytes fails, after the object has lost its contents.
ResizeToNothing(p) ==
    /\ arg[p].len = 0
    /\ At(p, "ftruncate", "failed")
    /\ mem' = [mem EXCEPT ![fd[p]] = << >>]
    /\ Leave(p, fd[p], "failed")
    /\ UNCHANGED <<name, created, fd, len, out, copied>>

\* memcpy(), a page at a time; SIGBUS beyond the end of the object.
Memcpy(p) ==
    LET i == copied[p] + 1
        how == IF i > Len(mem[fd[p]]) THEN "killed" ELSE IF i = arg[p].len THEN "done" ELSE "memcpy" IN
    /\ At(p, "memcpy", how)
    /\ IF how = "killed" THEN UNCHANGED <<mem, copied>>
       ELSE mem' = [mem EXCEPT ![fd[p]][i] = p] /\ copied' = [copied EXCEPT ![p] = i]
    /\ IF how = "memcpy" THEN UNCHANGED history ELSE Leave(p, fd[p], how)
    /\ UNCHANGED <<name, created, fd, len, out>>

-----------------------------------------------------------------------------
\* fstat() and mmap(), which fails for an empty object
Fstat(p) ==
    /\ At(p, "fstat", IF mem[fd[p]] = << >> THEN "failed" ELSE "write")
    /\ len' = [len EXCEPT ![p] = Len(mem[fd[p]])]
    /\ UNCHANGED <<name, created, fd, mem, out, copied, history>>

\* write(), a page at a time; it stops short at a page that is no longer there.
Write(p) ==
    LET i == Len(out[p]) + 1
        gone == i > Len(mem[fd[p]]) IN
    /\ At(p, "write", IF gone THEN "failed" ELSE IF i = len[p] THEN "done" ELSE "write")
    /\ out' = [out EXCEPT ![p] = IF gone THEN @ ELSE Append(@, mem[fd[p]][i])]
    /\ UNCHANGED <<name, created, fd, mem, len, copied, history>>

Unlink(p) ==
    /\ At(p, "start", IF name = None THEN "failed" ELSE "done")
    /\ name' = None
    /\ UNCHANGED <<created, fd, mem, len, out, copied, history>>

Proc(p) ==
    \/ p \in Creators /\ (OpenNew(p) \/ OpenExisting(p) \/ OpenFails(p) \/ Create(p))
    \/ p \in Writers /\ (OpenExisting(p) \/ OpenFails(p) \/ Resize(p) \/ ResizeToNothing(p) \/ Memcpy(p))
    \/ p \in Readers /\ (OpenExisting(p) \/ OpenFails(p) \/ Fstat(p) \/ Write(p))
    \/ p \in Unlinkers /\ Unlink(p)

-----------------------------------------------------------------------------
Next == \E p \in Procs : Proc(p)

Spec == Init /\ [][Next]_vars

\* pshm_read.c:40, pshm_write.c:42: a reader during whose run nobody resized or
\* filled its object prints the whole message of the last writer, if that
\* writer was undisturbed too.  Only a disturbed writer is killed in memcpy().
UndisturbedIsWhole ==
    /\ \A r \in Readers : pc[r] = "done" /\ alone[r] /\ expected[r] # None =>
         out[r] = [i \in 1..arg[expected[r]].len |-> expected[r]]
    /\ \A w \in Writers : pc[w] = "killed" => ~alone[w]
=============================================================================
