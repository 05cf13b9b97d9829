----------------------------- MODULE MCAccount -----------------------------
(* Small instances of Account for TLC. *)
EXTENDS Account, TLC

CONSTANTS b1, b2
=============================================================================
