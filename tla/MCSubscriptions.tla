--------------------------- MODULE MCSubscriptions ---------------------------
(* Small instances of Subscriptions for TLC. *)
EXTENDS Subscriptions, TLC

CONSTANTS o1, s1, s2

MCOwnerOf  == [s \in Sub |-> o1]
MCAnyOrder == EventType
=============================================================================
