----------------------------- MODULE MCFileVerbs -----------------------------
(***************************************************************************)
(* FileVerbs for TLC: three requests, three pids, two users and four modes,*)
(* one of them setuid.                                                     *)
(***************************************************************************)
EXTENDS FileVerbs

CONSTANTS r1, r2, r3, orig

MCMode == {"0600", "0644", "4755", "0755"}
MCStrip == [m \in MCMode |-> IF m = "4755" THEN "0755" ELSE m]
MCOrigAttrs == {[mode |-> "4755", owner |-> "user"]}

\* The original file has one block, r1 one, r2 two, the reader none.
MCSize == [v \in Version |-> CASE v \in {orig, r1} -> 1 [] v = r2 -> 2
                               [] OTHER -> 0]

\* The unchecked calls of put_file may all fail, and the fchmod() of write_file
\* (the two verbs make the same calls after their write loops).
MCMayFail == [r \in Request |-> CASE r = r1 -> {"fchmod"}
                                 [] r = r2 -> {"fsync", "fchown", "fchmod"}
                                 [] OTHER -> {}]

\* Two writers and a reader: all on one connection, with and without a mode,
\* as root or as a user; or as root on three connections, two of the children
\* possibly with the same pid, one after the other.
Call(pids, verbs, users, modes) ==
    [pid : pids, verb : verbs, user : users, mode : modes]

MCWorkload ==
    {[r \in Request |-> CASE r = r1 -> a [] r = r2 -> b [] r = r3 -> c] :
        a \in Call({1}, {"write_file"}, {"root"}, {"4755", NoMode}),
        b \in Call({1}, {"put_file"}, User, {NoMode}),
        c \in Call({1}, Verb \cap Readers, {"root"}, {NoMode})}
    \cup
    {[r \in Request |-> CASE r = r1 -> a [] r = r2 -> b [] r = r3 -> c] :
        a \in Call({1}, {"write_file"}, {"root"}, {NoMode}),
        b \in Call({1, 2}, {"put_file"}, {"root"}, {NoMode}),
        c \in Call({3}, {"get_file", "stat"}, {"root"}, {NoMode})}
=============================================================================
