------------------------------ MODULE MCServer ------------------------------
(***************************************************************************)
(* Server for TLC: two connections.                                        *)
(***************************************************************************)
EXTENDS Server

CONSTANTS c1, c2
=============================================================================
