------------------------------ MODULE MCAccess ------------------------------
(***************************************************************************)
(* Access for TLC: two secrets, and files of every kind.                   *)
(***************************************************************************)
EXTENDS Access

CONSTANTS x, y

Files ==
    {Missing, Broken,
     [secret |-> None, open |-> TRUE], [secret |-> Empty, open |-> FALSE],
     [secret |-> x, open |-> FALSE], [secret |-> y, open |-> TRUE]}
=============================================================================
