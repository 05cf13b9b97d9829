----------------------------- MODULE Settlement -----------------------------
(***************************************************************************)
(* What billing promises of an owner's month: what it owes moves only      *)
(* while the month is open; once closed it is invoiced for what it came    *)
(* to, and for nothing else; it is settled when it owes nothing or has its *)
(* invoice; and a settled month is left alone.                             *)
(***************************************************************************)
EXTENDS Integers, Sequences

CONSTANTS Owner, Cycle

VARIABLES
    month,     \* the month that is open
    due,       \* what each month owes, as things stand
    invoices,  \* what each month was invoiced for
    settled    \* the (owner, month) pairs that are done with

settlementVars == <<month, due, invoices, settled>>

Init ==
    /\ month = 0
    /\ due = [o \in Owner |-> [c \in Cycle |-> 0]]
    /\ invoices = [o \in Owner |-> [c \in Cycle |-> <<>>]]
    /\ settled = {}

Accrue ==
    /\ UNCHANGED <<month, invoices, settled>>
    /\ due' \in [Owner -> [Cycle -> Nat]]
    /\ \A o \in Owner, c \in Cycle \ {month} : due'[o][c] = due[o][c]

Close ==
    /\ month' = month + 1
    /\ UNCHANGED <<due, invoices, settled>>

Invoice(o, c) ==
    /\ c < month /\ <<o, c>> \notin settled
    /\ due[o][c] > 0
    /\ invoices' = [invoices EXCEPT ![o][c] = Append(@, due[o][c])]
    /\ UNCHANGED <<month, due, settled>>

Settle(o, c) ==
    /\ c < month
    /\ due[o][c] = 0 \/ invoices[o][c] # <<>>
    /\ settled' = settled \cup {<<o, c>>}
    /\ UNCHANGED <<month, due, invoices>>

Next ==
    \/ Accrue \/ Close
    \/ \E o \in Owner, c \in Cycle : Invoice(o, c) \/ Settle(o, c)

Spec == Init /\ [][Next]_settlementVars
=============================================================================
