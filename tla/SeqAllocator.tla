---------------------------- MODULE SeqAllocator ----------------------------
(***************************************************************************)
(* What a sequence number server promises: every client is given the start *)
(* of a run of numbers, runs are handed out from one counter that only     *)
(* moves forward, and no number is skipped or handed out twice.            *)
(***************************************************************************)
EXTENDS Integers

CONSTANTS Clients,      \* the client processes
          SeqLens,      \* the run lengths they ask for
          None          \* no number was given yet

VARIABLES next,         \* the first number not given away
          start,        \* the number each client was given
          len           \* the run length each client asked for

allocVars == <<next, start, len>>

AllocInit ==
    /\ next = 0
    /\ start = [c \in Clients |-> None]
    /\ len \in [Clients -> SeqLens]

Grant(c) ==
    /\ start[c] = None
    /\ start' = [start EXCEPT ![c] = next]
    /\ next' = next + len[c]
    /\ UNCHANGED len

AllocNext == \E c \in Clients : Grant(c)

AllocSpec == AllocInit /\ [][AllocNext]_allocVars
=============================================================================
