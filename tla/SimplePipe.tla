----------------------------- MODULE SimplePipe -----------------------------
(***************************************************************************)
(* pipes/simple_pipe.c: the parent writes its argument into a pipe, the    *)
(* child copies the pipe to standard output in pieces of BUFFER_SIZE until *)
(* end of file.  Bytes are numbered; one write() of more bytes than the    *)
(* pipe holds goes in as the child makes room.                             *)
(***************************************************************************)
EXTENDS Integers, Sequences, SequencesExt

CONSTANTS BUFFER_SIZE,
          MaxLen,       \* the longest argument
          Capacity,     \* bytes the pipe holds
          Faults        \* whether the child may fail or be killed

VARIABLES ppc, cpc,     \* the next statement of parent and child
          arg,          \* argv[1]
          unwritten,    \* what write() has still to put into the pipe
          pipe,         \* the bytes in the pipe
          readers,      \* the processes with fd[0] open
          writers,      \* the processes with fd[1] open
          out           \* what the child wrote to standard output

vars == <<ppc, cpc, arg, unwritten, pipe, readers, writers, out>>
ends == <<readers, writers>>

Init ==
    /\ ppc = "fork" /\ cpc = "unborn"
    /\ \E len \in 0..MaxLen : arg = [k \in 1..len |-> k]
    /\ unwritten = arg
    /\ pipe = << >>
    /\ readers = {"parent"} /\ writers = {"parent"}
    /\ out = << >>

First(k, s) == SubSeq(s, 1, k)
Rest(k, s) == SubSeq(s, k + 1, Len(s))
AtMost(k, s) == IF Len(s) < k THEN Len(s) ELSE k

-----------------------------------------------------------------------------
(* The parent *)

Fork ==
    /\ ppc = "fork"
    /\ ppc' = "closeRead" /\ cpc' = "closeWrite"
    /\ readers' = {"parent", "child"} /\ writers' = {"parent", "child"}
    /\ UNCHANGED <<arg, unwritten, pipe, out>>

ForkFails ==
    /\ ppc = "fork"
    /\ ppc' = "failed"
    /\ readers' = {} /\ writers' = {}
    /\ UNCHANGED <<cpc, arg, unwritten, pipe, out>>

ParentCloseRead ==
    /\ ppc = "closeRead"
    /\ ppc' = "write"
    /\ readers' = readers \ {"parent"}
    /\ UNCHANGED <<cpc, arg, unwritten, pipe, writers, out>>

\* write() puts in what fits.
ParentWrite ==
    /\ ppc = "write" /\ unwritten # << >> /\ readers # {}
    /\ LET k == AtMost(Capacity - Len(pipe), unwritten)
       IN /\ k > 0
          /\ pipe' = pipe \o First(k, unwritten)
          /\ unwritten' = Rest(k, unwritten)
    /\ UNCHANGED <<ppc, cpc, arg, ends, out>>

\* No reader is left: SIGPIPE ends the parent.
ParentSigpipe ==
    /\ ppc = "write" /\ unwritten # << >> /\ readers = {}
    /\ ppc' = "failed"
    /\ writers' = writers \ {"parent"}
    /\ UNCHANGED <<cpc, arg, unwritten, pipe, readers, out>>

MutKeepWriteEnd ==
    /\ ppc = "write" /\ unwritten = << >>
    /\ ppc' = "wait"
    /\ UNCHANGED <<cpc, arg, unwritten, pipe, ends, out>>

ParentCloseWrite ==
    /\ ppc = "write" /\ unwritten = << >>
    /\ ppc' = "wait"
    /\ writers' = writers \ {"parent"}
    /\ UNCHANGED <<cpc, arg, unwritten, pipe, readers, out>>

ParentWait ==
    /\ ppc = "wait" /\ cpc \in {"exited", "failed"}
    /\ ppc' = "done"
    /\ UNCHANGED <<cpc, arg, unwritten, pipe, ends, out>>

ParentNext ==
    \/ Fork \/ ParentCloseRead \/ ParentWrite \/ ParentSigpipe
    \/ ParentCloseWrite \/ ParentWait

-----------------------------------------------------------------------------
(* The child *)

ChildCloseWrite ==
    /\ cpc = "closeWrite"
    /\ cpc' = "copy"
    /\ writers' = writers \ {"child"}
    /\ UNCHANGED <<ppc, arg, unwritten, pipe, readers, out>>

\* read() of up to BUFFER_SIZE bytes, and write() of as many.
ChildCopy ==
    /\ cpc = "copy" /\ pipe # << >>
    /\ LET k == AtMost(BUFFER_SIZE, pipe)
       IN /\ out' = out \o First(k, pipe)
          /\ pipe' = Rest(k, pipe)
    /\ UNCHANGED <<ppc, cpc, arg, unwritten, ends>>

\* End of file: a newline (0), close() and _exit().
ChildEof ==
    /\ cpc = "copy" /\ pipe = << >> /\ writers = {}
    /\ cpc' = "exited"
    /\ out' = Append(out, 0)
    /\ readers' = readers \ {"child"}
    /\ UNCHANGED <<ppc, arg, unwritten, pipe, writers>>

\* write() to standard output fails, or a signal ends the child.
ChildFails ==
    /\ Faults
    /\ cpc \in {"closeWrite", "copy"}
    /\ cpc' = "failed"
    /\ readers' = readers \ {"child"} /\ writers' = writers \ {"child"}
    /\ UNCHANGED <<ppc, arg, unwritten, pipe, out>>

ChildNext == ChildCloseWrite \/ ChildCopy \/ ChildEof

-----------------------------------------------------------------------------
Next == ParentNext \/ ForkFails \/ ChildNext \/ ChildFails

Spec == Init /\ [][Next]_vars

\* The kernel runs both processes.
FairSpec == Spec /\ WF_vars(ParentNext) /\ WF_vars(ChildNext)

-----------------------------------------------------------------------------
Bytes == 0..MaxLen

TypeOK ==
    /\ ppc \in {"fork", "closeRead", "write", "wait", "done", "failed"}
    /\ cpc \in {"unborn", "closeWrite", "copy", "exited", "failed"}
    /\ {arg, unwritten, pipe, out} \subseteq Seq(Bytes)
    /\ Len(pipe) <= Capacity
    /\ ends \in (SUBSET {"parent", "child"}) \X (SUBSET {"parent", "child"})

\* What is on standard output is a prefix of the argument and, once the
\* child has exited normally, the whole of it and a newline.
OutputIsArgument ==
    /\ cpc # "exited" => IsPrefix(out, arg)
    /\ cpc = "exited" => out = Append(arg, 0)

\* Both processes end, also when the child fails under a parent that is
\* still writing.
BothEnd == <>(ppc \in {"done", "failed"} /\ cpc \in {"unborn", "exited", "failed"})
=============================================================================
