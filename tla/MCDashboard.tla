---------------------------- MODULE MCDashboard ----------------------------
(* Batches that come to the warning, pass the cap, and make an overage of  *)
(* four digits; owners without a key, before a plan, on one and after it;  *)
(* sample statements overdrawn, of the best score and mixed.               *)
EXTENDS Dashboard

MCBatch == {1, 800, 1070}
Row(status, tier) == [status |-> status, tier |-> tier]
MCAccount ==
    {[keys |-> <<>>, sub |-> NoRow],
     [keys |-> <<"test">>, sub |-> NoRow],
     [keys |-> <<"live", "test">>, sub |-> Row("active", "starter")],
     [keys |-> <<"live", "test">>, sub |-> Row("inactive", "growth")]}

Statement(opening, salary, others) ==
    [opening |-> opening,
     rows |-> <<[salary |-> TRUE, credit |-> TRUE, naira |-> salary]>> \o others]
Rows(n, credit, naira) ==
    [i \in 1..n |-> [salary |-> FALSE, credit |-> credit, naira |-> naira]]
MCSample ==
    {Statement(15000, 120000, Rows(9, FALSE, 200000)),
     Statement(15000, 450000, Rows(9, TRUE, 60000)),
     Statement(99999, 450000, Rows(4, TRUE, 5001) \o Rows(4, FALSE, 77777))}
MCThreshold == {700}
=============================================================================
