------------------------------ MODULE FilePerms ------------------------------
(***************************************************************************)
(* src/FilePerms.c and files/src/t_umask.c: permissions as text, and the   *)
(* permissions a new file and a new directory get.  A mode is the set of   *)
(* its bits.  An earlier run may have left its file or its directory.      *)
(***************************************************************************)
EXTENDS Integers, Sequences

Classes == {"USR", "GRP", "OTH"}
Bits == {<<r, c>> : r \in {"R", "W", "X", "IS"}, c \in Classes}  \* "IS": S_ISUID, S_ISGID, S_ISVTX
All(c) == {<<r, c>> : r \in {"R", "W", "X"}}

\* The character for the right to execute and the special bit of a class.
ExecChar(perm, c) ==
    LET lower == IF c = "OTH" THEN "t" ELSE "s"
        upper == IF c = "OTH" THEN "T" ELSE "S"
    IN  IF <<"X", c>> \in perm THEN (IF <<"IS", c>> \in perm THEN lower ELSE "x")
                               ELSE (IF <<"IS", c>> \in perm THEN upper ELSE "-")

Triple(perm, c) ==
    << IF <<"R", c>> \in perm THEN "r" ELSE "-",
       IF <<"W", c>> \in perm THEN "w" ELSE "-",
       ExecChar(perm, c) >>

filePermStr(perm) == Triple(perm, "USR") \o Triple(perm, "GRP") \o Triple(perm, "OTH")

REQUESTED_FILE_PERMS == {<<r, c>> : r \in {"R", "W"}, c \in {"USR", "GRP"}}
REQUESTED_DIR_PERMS == UNION {All(c) : c \in Classes}
PROCESS_UMASK == {<<r, c>> : r \in {"W", "X"}, c \in {"GRP", "OTH"}}

VARIABLES pc,           \* the next statement
          umask,        \* the umask of the process
          myfile, mydir,    \* permissions, Missing if it does not exist
          printed       \* the strings printed

vars == <<pc, umask, myfile, mydir, printed>>

Missing == {<<"none", "none">>}

Init ==
    /\ pc = "open"
    /\ umask = PROCESS_UMASK
    /\ myfile \in {Missing, REQUESTED_FILE_PERMS \ PROCESS_UMASK}
    /\ mydir \in {Missing, REQUESTED_DIR_PERMS \ PROCESS_UMASK}
    /\ printed = << >>

\* O_EXCL refuses a file that exists.
Open ==
    /\ pc = "open"
    /\ IF myfile = Missing
       THEN myfile' = REQUESTED_FILE_PERMS \ umask /\ pc' = "mkdir"
       ELSE UNCHANGED myfile /\ pc' = "failed"
    /\ UNCHANGED <<umask, mydir, printed>>

\* If mkdir() fails, the file stays behind.
Mkdir ==
    /\ pc = "mkdir"
    /\ IF mydir = Missing
       THEN mydir' = REQUESTED_DIR_PERMS \ umask /\ pc' = "print"
       ELSE UNCHANGED mydir /\ pc' = "failed"
    /\ UNCHANGED <<umask, myfile, printed>>

\* The umask printed is the one that umask(0) returns; file and directory are removed.
Show ==
    /\ pc = "print"
    /\ pc' = "done"
    /\ printed' = << filePermStr(REQUESTED_FILE_PERMS), filePermStr(umask),
                     filePermStr(myfile),
                     filePermStr(REQUESTED_DIR_PERMS), filePermStr(umask),
                     filePermStr(mydir) >>
    /\ umask' = {}
    /\ myfile' = Missing /\ mydir' = Missing

Next == Open \/ Mkdir \/ Show

Spec == Init /\ [][Next]_vars

\* The mode a string stands for.
ModeOf(str) ==
    LET At(c) == CASE c = "USR" -> 0 [] c = "GRP" -> 3 [] c = "OTH" -> 6
    IN  {b \in Bits : \E c \in Classes :
            \/ b = <<"R", c>> /\ str[At(c) + 1] = "r"
            \/ b = <<"W", c>> /\ str[At(c) + 2] = "w"
            \/ b = <<"X", c>> /\ str[At(c) + 3] \in {"x", "s", "t"}
            \/ b = <<"IS", c>> /\ str[At(c) + 3] \in {"s", "S", "t", "T"}}

\* FilePerms.c:10: no two modes have one string; t_umask.c:48: the permissions
\* printed are those requested without those of the umask printed.
PermsAsPrinted ==
    printed # << >> =>
        /\ \A perm \in SUBSET Bits : ModeOf(filePermStr(perm)) = perm
        /\ \A k \in {1, 4} : ModeOf(printed[k + 2]) = ModeOf(printed[k]) \ ModeOf(printed[k + 1])
=============================================================================
