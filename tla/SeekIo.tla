------------------------------- MODULE SeekIo -------------------------------
(***************************************************************************)
(* fileio/src/seek_io.c: processes that read, write and seek in one file,  *)
(* each with its own offset, as their arguments tell them.                 *)
(***************************************************************************)
EXTENDS Integers, Sequences, FiniteSetsExt

CONSTANTS Procs,        \* the processes
          Args          \* set of command lines: Procs -> Seq(commands)

\* A command is [op, n, mark]: "r" and "R" read n bytes, "w" writes n bytes of
\* value mark, "s" seeks to n; "error" is one that is too short, has no number or
\* an unknown letter.

VARIABLES args,         \* the commands each process still has to obey
          state,        \* "run", "done" or "failed"
          offset,       \* each process's file offset
          file,         \* the bytes of the file
          writes        \* the writes done so far: [mark, at, n]

vars == <<args, state, offset, file, writes>>

Init ==
    /\ args \in Args
    /\ state = [p \in Procs |-> "run"]
    /\ offset = [p \in Procs |-> 0]
    /\ file = << >>
    /\ writes = << >>

Command(p) == args[p][1]
Obeys(p, ops) == state[p] = "run" /\ args[p] # << >> /\ Command(p).op \in ops
Advance(p) == args' = [args EXCEPT ![p] = Tail(@)]

\* read() and the display of what it returned, in text or in hexadecimal.
readDisplayBytes(p) ==
    /\ Obeys(p, {"r", "R"})
    /\ offset' = [offset EXCEPT ![p] = Max({@, Min({@ + Command(p).n, Len(file)})})]
    /\ Advance(p)
    /\ UNCHANGED <<state, file, writes>>

\* write() may take fewer bytes than it was given, and the rest is not tried
\* again.  A write after a seek past the end leaves a hole of zeros.
Write(p) ==
    /\ Obeys(p, {"w"})
    /\ \E end \in (offset[p] + 1)..(offset[p] + Command(p).n) :
       LET at == offset[p]
       IN  /\ file' = [k \in 1..Max({Len(file), end}) |->
                          IF k \in (at + 1)..end THEN Command(p).mark
                          ELSE IF k <= Len(file) THEN file[k] ELSE 0]
           /\ offset' = [offset EXCEPT ![p] = end]
           /\ writes' = Append(writes, [mark |-> Command(p).mark, at |-> at, n |-> end - at])
    /\ Advance(p)
    /\ UNCHANGED state

\* The new offset may lie past the end of the file, which stays as it is.
Seek(p) ==
    /\ Obeys(p, {"s"}) /\ Command(p).n >= 0
    /\ offset' = [offset EXCEPT ![p] = Command(p).n]
    /\ Advance(p)
    /\ UNCHANGED <<state, file, writes>>

Invalid(c) == c.op = "error" \/ (c.op = "s" /\ c.n < 0)

\* The program exits at a command it cannot read, or when malloc(), read() or
\* write() fails; the commands before it have had their effect.
Fails(p) ==
    /\ Obeys(p, {"r", "R", "w", "s", "error"})
    /\ Invalid(Command(p)) \/ Command(p).op \in {"r", "R", "w"}
    /\ state' = [state EXCEPT ![p] = "failed"]
    /\ UNCHANGED <<args, offset, file, writes>>

Close(p) ==
    /\ state[p] = "run" /\ args[p] = << >>
    /\ state' = [state EXCEPT ![p] = "done"]
    /\ UNCHANGED <<args, offset, file, writes>>

Next ==
    \E p \in Procs :
        readDisplayBytes(p) \/ Write(p) \/ Seek(p) \/ Fails(p) \/ Close(p)

Spec == Init /\ [][Next]_vars

\* seek_io.c:54,65: whichever way the processes' commands interleave, and whichever
\* of them fail or write less than they were asked, each byte is the one of the last
\* write over it, and 0 in a hole that no write filled.
FileIsItsWrites ==
    LET Over(k) == {j \in DOMAIN writes : k \in (writes[j].at + 1)..(writes[j].at + writes[j].n)}
    IN  /\ Len(file) = Max({0} \cup {w.at + w.n : w \in {writes[j] : j \in DOMAIN writes}})
        /\ \A k \in DOMAIN file :
             file[k] = IF Over(k) = {} THEN 0 ELSE writes[Max(Over(k))].mark
=============================================================================
