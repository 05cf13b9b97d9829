------------------------------ MODULE MCOverage ------------------------------
(* Small instances of Overage for TLC. *)
EXTENDS Overage, TLC

CONSTANTS starter, growth

MCCap  == [t \in Tier |-> IF t = starter THEN 0 ELSE 1]
MCRate == [t \in Tier |-> IF t = starter THEN 3 ELSE 2]
=============================================================================
