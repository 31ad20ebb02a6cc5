--------------------------- MODULE OneSlotChannel ---------------------------
(***************************************************************************)
(* What a pair of filters joined by one shared buffer promises: the chunks *)
(* put in come out once each and in order, at most one of them is in       *)
(* transit, and the channel is closed only when nothing is in transit.     *)
(***************************************************************************)
EXTENDS Integers, Sequences

CONSTANT Chunk      \* what one transfer carries

VARIABLES sent,     \* the chunks put in so far
          out,      \* the chunks taken out so far
          eof       \* the producer has announced the end of its input

chanVars == <<sent, out, eof>>

Drained == Len(out) = Len(sent)

ChanInit ==
    /\ sent = << >>
    /\ out = << >>
    /\ eof = FALSE

Put ==
    /\ ~eof
    /\ Drained
    /\ \E c \in Chunk : sent' = Append(sent, c)
    /\ UNCHANGED <<out, eof>>

Get ==
    /\ Len(out) + 1 = Len(sent)
    /\ out' = Append(out, sent[Len(sent)])
    /\ UNCHANGED <<sent, eof>>

Close ==
    /\ Drained
    /\ eof' = TRUE
    /\ UNCHANGED <<sent, out>>

ChanNext == Put \/ Get \/ Close

ChanSpec == ChanInit /\ [][ChanNext]_chanVars
=============================================================================
