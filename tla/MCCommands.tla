----------------------------- MODULE MCCommands -----------------------------
(***************************************************************************)
(* Commands for TLC: two connections, a run_command and any request.       *)
(***************************************************************************)
EXTENDS Commands

CONSTANTS c1, c2

Request(verb, good, limit, max, text) ==
    [verb |-> verb, good |-> good, limit |-> limit, max |-> max,
     text |-> text]

\* Commands that print nothing, with and without a deadline; searches with
\* more matches than "max", as many and fewer, and with a line that is none.
Timed == Request("run_command", TRUE, 1, Absent, <<>>)
MCOther ==
    {Request("run_command", TRUE, Absent, Absent, <<>>),
     Request("run_command", FALSE, Absent, Absent, <<>>),
     Request("search", TRUE, 0, 0, <<"match", "note", "match">>),
     Request("search", TRUE, 1, Absent, <<"match">>),
     Request("search", TRUE, Absent, 2, <<>>)}

MCWorkload == {[c \in Conn |-> IF c = c1 THEN Timed ELSE b] : b \in MCOther}
=============================================================================
