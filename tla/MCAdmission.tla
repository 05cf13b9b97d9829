----------------------------- MODULE MCAdmission -----------------------------
(* Small instances of Admission for TLC. *)
EXTENDS Admission, TLC

CONSTANTS o1, t1, t2, l1, f1, demo, ip1, ip2, r1, r2, r3, r4

MCKeyOwner == [k \in Owned |-> o1]
MCSymmetry == Permutations(Request)
=============================================================================
