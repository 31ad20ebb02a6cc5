----------------------------- MODULE SvsemTools -----------------------------
(***************************************************************************)
(* svsem/svsem_demo.c, svsem_setall.c and svsem_mon.c: processes that      *)
(* create a semaphore, operate on it, set all the values of a set and      *)
(* print its state.  Set 0 is a set of two semaphores that some other      *)
(* program left; svsem_demo creates the sets 1, 2, ... of one semaphore.   *)
(*                                                                         *)
(* The command lines are [init] for svsem_demo <init value>, [semid, op]   *)
(* for svsem_demo <semid> <op>, [semid, vals] for svsem_setall and         *)
(* [semid] for svsem_mon.                                                  *)
(***************************************************************************)
EXTENDS Integers, Sequences, FiniteSets, FiniteSetsExt, SequencesExt

CONSTANTS Creators, Operators, Setters, Monitors,   \* the processes
          Args,         \* the command lines to try, functions from the processes
          None          \* no set, nothing printed

Procs == Creators \cup Operators \cup Setters \cup Monitors
Ids == 0..Cardinality(Creators)
SEMVMX == 32767

VARIABLES pc,           \* each process's next statement
          arg,          \* the command line of each process
          set,          \* the values of each semaphore set, None before semget()
          semid,        \* the set each svsem_demo <init value> has created
          known,        \* the identifiers a user has seen
          row,          \* what svsem_mon has read of the first semaphore; `now', its
                        \* value at GETZCNT, is history
          base,         \* history: the value each first semaphore was last set to
          applied       \* history: the operations on it, SETALL forgets them

vars == <<pc, arg, set, semid, known, row, base, applied>>

Init ==
    /\ pc = [p \in Procs |-> "start"]
    /\ arg \in Args
    /\ set = [i \in Ids |-> IF i = 0 THEN <<1, 1>> ELSE None]
    /\ semid = [p \in Creators |-> None]
    /\ known = {0}
    /\ row = [p \in Monitors |-> None]
    /\ base = [i \in Ids |-> IF i = 0 THEN 1 ELSE 0]
    /\ applied = [i \in Ids |-> {}]

At(p, here, next) ==
    /\ pc[p] = here
    /\ pc' = [pc EXCEPT ![p] = next]
    /\ UNCHANGED arg

-----------------------------------------------------------------------------
(* svsem_demo <init value> *)

\* The identifier is printed before SETVAL.
MutSemget(p) ==
    /\ At(p, "start", "setval")
    /\ \E i \in Ids :
         /\ set[i] = None /\ \A j \in 0..(i - 1) : set[j] # None
         /\ set' = [set EXCEPT ![i] = <<0>>]
         /\ semid' = [semid EXCEPT ![p] = i]
         /\ known' = known \cup {i}
    /\ UNCHANGED <<row, base, applied>>

\* semget(IPC_PRIVATE): the kernel starts with 0.
Semget(p) ==
    /\ At(p, "start", "setval")
    /\ \E i \in Ids :
         /\ set[i] = None /\ \A j \in 0..(i - 1) : set[j] # None
         /\ set' = [set EXCEPT ![i] = <<0>>]
         /\ semid' = [semid EXCEPT ![p] = i]
    /\ UNCHANGED <<known, row, base, applied>>

\* A value out of range leaves the set behind, its identifier never printed.
SetvalFails(p) ==
    /\ arg[p].init \notin 0..SEMVMX
    /\ At(p, "setval", "failed")
    /\ UNCHANGED <<set, semid, known, row, base, applied>>

Setval(p) ==
    /\ arg[p].init \in 0..SEMVMX
    /\ At(p, "setval", "print")
    /\ set' = [set EXCEPT ![semid[p]] = <<arg[p].init>>]
    /\ base' = [base EXCEPT ![semid[p]] = arg[p].init]
    /\ UNCHANGED <<semid, known, row, applied>>

PrintId(p) ==
    /\ At(p, "print", "done")
    /\ known' = known \cup {semid[p]}
    /\ UNCHANGED <<set, semid, row, base, applied>>

-----------------------------------------------------------------------------
(* svsem_demo <semid> <op> *)

\* (short) getInt(argv[2])
Op(p) == ((arg[p].op + 2^15) % 2^16) - 2^15

\* "about to semop"
About(p) ==
    /\ arg[p].semid \in known
    /\ At(p, "start", "semop")
    /\ UNCHANGED <<set, semid, known, row, base, applied>>

Value(i) == set[i][1]

\* semop() waits for units, or for 0 if the operation is 0.
NeedsUnits(p) == Op(p) < 0 /\ Value(arg[p].semid) + Op(p) < 0
NeedsZero(p) == Op(p) = 0 /\ Value(arg[p].semid) # 0

Semop(p) ==
    LET i == arg[p].semid IN
    /\ At(p, "semop", "done")
    /\ ~NeedsUnits(p) /\ ~NeedsZero(p) /\ Value(i) + Op(p) <= SEMVMX
    /\ set' = [set EXCEPT ![i][1] = @ + Op(p)]
    /\ applied' = [applied EXCEPT ![i] = @ \cup {p}]
    /\ UNCHANGED <<semid, known, row, base>>

\* ERANGE is reported, and so is "semop completed".
SemopFails(p) ==
    /\ At(p, "semop", "done")
    /\ Value(arg[p].semid) + Op(p) > SEMVMX
    /\ UNCHANGED <<set, semid, known, row, base, applied>>

-----------------------------------------------------------------------------
(* svsem_setall and svsem_mon *)

\* The loop stores every value in arg.array[0]; the others stay 0.
NewValues(p) == [k \in DOMAIN set[arg[p].semid] |-> IF k = 1 THEN Last(arg[p].vals) % 2^16 ELSE 0]

Refused(p) == Len(arg[p].vals) # Len(set[arg[p].semid]) \/ NewValues(p)[1] > SEMVMX

SetAll(p) ==
    /\ arg[p].semid \in known /\ ~Refused(p)
    /\ At(p, "start", "done")
    /\ set' = [set EXCEPT ![arg[p].semid] = NewValues(p)]
    /\ base' = [base EXCEPT ![arg[p].semid] = NewValues(p)[1]]
    /\ applied' = [applied EXCEPT ![arg[p].semid] = {}]
    /\ UNCHANGED <<semid, known, row>>

SetAllFails(p) ==
    /\ arg[p].semid \in known /\ Refused(p)
    /\ At(p, "start", "failed")
    /\ UNCHANGED <<set, semid, known, row, base, applied>>

\* IPC_STAT and GETALL.
GetAll(p) ==
    /\ arg[p].semid \in known
    /\ At(p, "start", "counts")
    /\ row' = [row EXCEPT ![p] = [value |-> Value(arg[p].semid), now |-> None,
                                  ncnt |-> None, zcnt |-> None]]
    /\ UNCHANGED <<set, semid, known, base, applied>>

Waiting(p) == {q \in Operators : pc[q] = "semop" /\ arg[q].semid = arg[p].semid}

\* GETNCNT and GETZCNT, the arguments of one printf(), come in either order; the
\* value printed beside them is as old as GETALL.
GetNcnt(p) ==
    /\ pc[p] = "counts" /\ row[p].ncnt = None
    /\ At(p, "counts", IF row[p].zcnt = None THEN "counts" ELSE "done")
    /\ row' = [row EXCEPT ![p].ncnt = Cardinality({q \in Waiting(p) : NeedsUnits(q)})]
    /\ UNCHANGED <<set, semid, known, base, applied>>

GetZcnt(p) ==
    /\ pc[p] = "counts" /\ row[p].zcnt = None
    /\ At(p, "counts", IF row[p].ncnt = None THEN "counts" ELSE "done")
    /\ row' = [row EXCEPT ![p].zcnt = Cardinality({q \in Waiting(p) : NeedsZero(q)}),
                          ![p].now = Value(arg[p].semid)]
    /\ UNCHANGED <<set, semid, known, base, applied>>

Proc(p) ==
    \/ p \in Creators /\ (Semget(p) \/ Setval(p) \/ SetvalFails(p) \/ PrintId(p))
    \/ p \in Operators /\ (About(p) \/ Semop(p) \/ SemopFails(p))
    \/ p \in Setters /\ (SetAll(p) \/ SetAllFails(p))
    \/ p \in Monitors /\ (GetAll(p) \/ GetNcnt(p) \/ GetZcnt(p))

-----------------------------------------------------------------------------
Next == \E p \in Procs : Proc(p)

Spec == Init /\ [][Next]_vars

\* The kernel schedules the processes; none takes more than a few steps.
FairSpec == Spec /\ WF_vars(Next)

\* svsem_demo.c:49: each semaphore is worth what it was last set to and the
\* operations applied since.  Nothing that was applied is wiped out by the
\* SETVAL of line 32, which comes after the semget(): nobody knows the
\* identifier before line 38.
UnitsBalance ==
    \A i \in known : Value(i) = base[i] + MapThenSumSet(Op, applied[i])

\* svsem_mon.c:49: value and counts are read by different calls, yet a row shows
\* a process waiting for 0 beside the value 0 only if the value changed between
\* them.
RowTrueUnlessChanged ==
    \A m \in Monitors :
        pc[m] = "done" /\ row[m].now = row[m].value => row[m].value # 0 \/ row[m].zcnt = 0

\* In the end whoever waits in semop() waits for units, or for a zero, that
\* are not there.
NoWaitInVain ==
    <>[](\A p \in Operators : pc[p] = "semop" => NeedsUnits(p) \/ NeedsZero(p))
=============================================================================
