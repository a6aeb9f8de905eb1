----------------------------- MODULE MCPrivGuard -----------------------------
(***************************************************************************)
(* PrivGuard for TLC: two ordinary users and root, started as root or not. *)
(***************************************************************************)
EXTENDS PrivGuard

CONSTANTS root, ann, bob

AllUsers == {root, ann, bob}
Uids   == [u \in AllUsers |-> IF u = root THEN 0 ELSE IF u = ann THEN 1 ELSE 2]
Gids   == [u \in AllUsers |-> IF u = root THEN 0 ELSE 3]
Groups == [u \in AllUsers |-> IF u = bob THEN {3, 4} ELSE {Gids[u]}]

AsRoot == [euid |-> 0, egid |-> 0, groups |-> {0}]
AsAnn  == [euid |-> 1, egid |-> 3, groups |-> {3}]
RootOrNot == {AsRoot, AsAnn}
=============================================================================
