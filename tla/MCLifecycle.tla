----------------------------- MODULE MCLifecycle -----------------------------
(***************************************************************************)
(* Lifecycle for TLC: four pids, one or two users of the script.         *)
(***************************************************************************)
EXTENDS Lifecycle, TLC

CONSTANTS p1, p2, p3, p4, s1, s2

FourPids == {p1, p2, p3, p4}
OneScript == {s1}
TwoScripts == {s1, s2}

SymmetryTwo == Permutations(FourPids) \cup Permutations(TwoScripts)
=============================================================================
