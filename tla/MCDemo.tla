------------------------------- MODULE MCDemo -------------------------------
(* Small instances of Demo for TLC. *)
EXTENDS Demo, TLC

CONSTANTS c1, c2, d1
=============================================================================
