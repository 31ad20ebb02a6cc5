------------------------------ MODULE CopyFile ------------------------------
(***************************************************************************)
(* fileio/src/copy.c: copy a file in pieces of at most BUFFER_SIZE bytes.  *)
(* Both arguments may name one file, which opening the output empties.     *)
(***************************************************************************)
EXTENDS Integers, Sequences, SequencesExt

CONSTANTS BUFFER_SIZE,
          MaxLen,       \* bound on the length of the input
          Faults        \* whether calls may fail

VARIABLES pc,           \* the next statement
          same,         \* both arguments name the same file
          original,     \* what the input file held at the start
          input, output,    \* the files; output stands for both if same
          position,     \* the offset of inputFd
          buffer

vars == <<pc, same, original, input, output, position, buffer>>

Init ==
    /\ pc = "open"
    /\ same \in BOOLEAN
    /\ original \in {[k \in 1..n |-> k] : n \in 0..MaxLen}
    /\ input = original
    /\ output = IF same THEN original ELSE <<0>>
    /\ position = 0
    /\ buffer = << >>

Source == IF same THEN output ELSE input

\* open() with O_TRUNC
Open ==
    /\ pc = "open"
    /\ pc' = "read"
    /\ output' = << >>
    /\ UNCHANGED <<same, original, input, position, buffer>>

Fails ==
    /\ Faults /\ pc \in {"open", "read", "close"}
    /\ pc' = "failed"
    /\ UNCHANGED <<same, original, input, output, position, buffer>>

\* read() may return fewer bytes than were asked for.
Read ==
    /\ pc = "read" /\ position < Len(Source)
    /\ \E n \in 1..BUFFER_SIZE :
          /\ position + n <= Len(Source)
          /\ buffer' = SubSeq(Source, position + 1, position + n)
          /\ position' = position + n
    /\ pc' = "write"
    /\ UNCHANGED <<same, original, input, output>>

Eof ==
    /\ pc = "read" /\ position >= Len(Source)
    /\ pc' = "close"
    /\ UNCHANGED <<same, original, input, output, position, buffer>>


\* A write of fewer bytes, a full disk say, ends the copy.
Write ==
    /\ pc = "write"
    /\ \E n \in IF Faults THEN 0..Len(buffer) ELSE {Len(buffer)} :
          /\ output' = output \o SubSeq(buffer, 1, n)
          /\ pc' = IF n = Len(buffer) THEN "read" ELSE "failed"
    /\ UNCHANGED <<same, original, input, position, buffer>>

Close ==
    /\ pc = "close"
    /\ pc' = "done"
    /\ UNCHANGED <<same, original, input, output, position, buffer>>

Next == Open \/ Fails \/ Read \/ Eof \/ Write \/ Close

Spec == Init /\ [][Next]_vars

\* copy.c:38: however the reads are cut and wherever a write stops, the output is
\* a prefix of the input and, if copy ends well, all of it; of a file copied
\* onto itself nothing is left.
CopyIsWhole ==
    /\ output = <<0>> \/ IsPrefix(output, original)
    /\ pc = "done" => output = IF same THEN << >> ELSE original
=============================================================================
