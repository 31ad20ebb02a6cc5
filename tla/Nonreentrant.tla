---------------------------- MODULE Nonreentrant ----------------------------
(***************************************************************************)
(* signals/src/nonreentrant.c: main() hashes str1 with crypt() for ever    *)
(* and the handler of SIGINT hashes str2 with it.  crypt() keeps its work  *)
(* and its result in static memory: a call the handler interrupts returns  *)
(* anything; one that is left alone starts afresh and returns its hash.    *)
(***************************************************************************)
EXTENDS Integers

CONSTANT MaxSignals     \* bound on the SIGINTs sent

Results == {"hash1", "hash2", "garbage"}

VARIABLES pc,           \* main()'s next statement
          handler,      \* whether sigHandler() runs
          pending,      \* SIGINT is pending
          sent,         \* number of SIGINTs sent
          static,       \* crypt()'s static memory
          expectedHash, handled, numMismatch

vars == <<pc, handler, pending, sent, static, expectedHash, handled, numMismatch>>
counts == <<sent, handled, numMismatch>>

Init ==
    /\ pc = "setup"
    /\ handler = FALSE /\ pending = FALSE
    /\ sent = 0
    /\ static = "empty"
    /\ expectedHash = "none"
    /\ handled = 0 /\ numMismatch = 0

\* The hash is saved before the handler is installed.
Setup ==
    /\ pc = "setup" /\ ~handler
    /\ pc' = "crypt"
    /\ expectedHash' = "hash1"
    /\ UNCHANGED <<handler, pending, static, counts>>

CryptBegins ==
    /\ pc = "crypt" /\ ~handler
    /\ pc' = "crypting"
    /\ static' = "working"
    /\ UNCHANGED <<handler, pending, expectedHash, counts>>

CryptReturns ==
    /\ pc = "crypting" /\ ~handler
    /\ pc' = "strcmp"
    /\ static' \in IF static = "working" THEN {"hash1"} ELSE Results
    /\ UNCHANGED <<handler, pending, expectedHash, counts>>

Strcmp ==
    /\ pc = "strcmp" /\ ~handler
    /\ pc' = "crypt"
    /\ numMismatch' = IF static # expectedHash THEN numMismatch + 1 ELSE numMismatch
    /\ UNCHANGED <<handler, pending, sent, static, expectedHash, handled>>

\* A user types ^C; a second SIGINT is not queued.
Kill ==
    /\ sent < MaxSignals /\ pc # "killed"
    /\ sent' = sent + 1
    /\ pending' = TRUE
    /\ UNCHANGED <<pc, handler, static, expectedHash, handled, numMismatch>>

\* SIGINT stays blocked until sigHandler() returns.
Deliver ==
    /\ pending /\ ~handler
    /\ pending' = FALSE
    /\ IF pc = "setup" THEN pc' = "killed" /\ UNCHANGED handler
                       ELSE handler' = TRUE /\ UNCHANGED pc
    /\ UNCHANGED <<static, expectedHash, counts>>

sigHandler ==
    /\ handler
    /\ handler' = FALSE
    /\ static' = "hash2"
    /\ handled' = handled + 1
    /\ UNCHANGED <<pc, pending, sent, expectedHash, numMismatch>>

Main == Setup \/ CryptBegins \/ CryptReturns \/ Strcmp

Next == Main \/ Kill \/ Deliver \/ sigHandler

Spec == Init /\ [][Next]_vars

\* nonreentrant.c:45: each call of the handler spoils at most one of main()'s
\* calls, so the mismatches reported never outnumber the signals handled.
MismatchesExplained == numMismatch <= handled
=============================================================================
