------------------------------- MODULE MCJobs -------------------------------
(* Small instances of Jobs for TLC. *)
EXTENDS Jobs, TLC

MCRequests ==
    {[tier |-> "sample", fmt |-> "json"], [tier |-> "key", fmt |-> "json"]}

MCRetentionRequests ==
    {[tier |-> "sample", fmt |-> "json"], [tier |-> "key", fmt |-> "csv"],
     [tier |-> "anonymous", fmt |-> "json"], [tier |-> "anonymous", fmt |-> "csv"]}

MCSymmetry == Permutations(Job) \cup Permutations(Stream)
=============================================================================
