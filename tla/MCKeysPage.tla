----------------------------- MODULE MCKeysPage -----------------------------
(* Small instances of KeysPage for TLC. *)
EXTENDS KeysPage, TLC

CONSTANTS t1, t2, o1, o2
=============================================================================
