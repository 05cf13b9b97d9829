------------------------------- MODULE Overage -------------------------------
(***************************************************************************)
(* Overage billing: billing_cron.py, overage_ledger.py, usage.py and the   *)
(* manual charge of routes/billing.py, against Paystack.                   *)
(*                                                                         *)
(* A cycle is a UTC calendar month.  Each run of the cron freezes the tier *)
(* of every billable owner for the current cycle, then invoices the closed *)
(* one off its frozen tiers.  The run suspends only while Paystack answers *)
(* an invoice call; parses, webhooks, the end of the month, a lost answer  *)
(* and a crash of the process all happen around that call.                 *)
(***************************************************************************)
EXTENDS Integers, Sequences, FiniteSets

CONSTANTS
    Owner,
    Tier,       \* names of TIERS
    Cap,        \* [Tier -> Nat]: Tier.monthly_cap
    Rate,       \* [Tier -> Nat]: Tier.overage_kobo
    NoTier,     \* tier is NULL
    PlanTiers,  \* what a plan code may map to: tiers, NoTier if not configured
    MaxCycle,   \* bound: months
    MaxParses,  \* bound: counted live parses of an owner in a month
    MaxFaults,  \* bound: crashes and lost answers together
    MaxManual   \* bound: manual charges of an owner in a month

ASSUME OverageAssumption ==
    /\ Cap \in [Tier -> Nat] /\ Rate \in [Tier -> Nat \ {0}]
    /\ NoTier \notin Tier /\ PlanTiers \subseteq Tier \cup {NoTier}
    /\ MaxCycle \in Nat /\ MaxParses \in Nat
    /\ MaxFaults \in Nat /\ MaxManual \in Nat

Cycle == 0..MaxCycle
NoCall == [owner |-> NoTier, amount |-> 0, made |-> FALSE]

VARIABLES
    cycle,     \* the current month
    parses,    \* success rows of each owner's live keys, by month
    customer,  \* owners with a Paystack customer mapped
    tier,      \* subscriptions.tier of each owner
    snapshot,  \* cycle_tiers: the frozen tier of an owner in a month
    ledger,    \* overage_invoices: the settled (owner, month) pairs
    invoices,  \* at Paystack: the cron's invoices to each owner, by month
    manual,    \* at Paystack: how many more a manual charge made
    pc,        \* the cron: "idle", "billing", "calling" or "answered"
    since,     \* the month the run bills
    todo,      \* the owners of that month it has not come to
    call,      \* the invoice call it waits for
    shown,     \* the overage the dashboard last showed for a month
    faults     \* crashes and lost answers so far

envVars  == <<parses, customer, tier>>
bookVars == <<snapshot, ledger>>
cronVars == <<pc, since, todo, call>>
vars == <<cycle, envVars, bookVars, invoices, manual, cronVars, shown, faults>>

Init ==
    /\ cycle = 0
    /\ parses = [o \in Owner |-> [c \in Cycle |-> 0]]
    /\ customer = {}
    /\ tier = [o \in Owner |-> NoTier]
    /\ snapshot = [o \in Owner |-> [c \in Cycle |-> NoTier]]
    /\ ledger = {}
    /\ invoices = [o \in Owner |-> [c \in Cycle |-> <<>>]]
    /\ pc = "idle" /\ since = 0 /\ todo = {} /\ call = NoCall
    /\ shown = [o \in Owner |-> [c \in Cycle |-> 0]]
    /\ manual = [o \in Owner |-> [c \in Cycle |-> 0]]
    /\ faults = 0

-----------------------------------------------------------------------------
(* overage_for: the amount in kobo of n parses on tier t.                  *)
OverageFor(n, t) == IF n > Cap[t] THEN (n - Cap[t]) * Rate[t] ELSE 0

(* compute_overage: no tier, no cap and no overage.                        *)
LiveOverage(o) ==
    IF tier[o] = NoTier THEN 0 ELSE OverageFor(parses[o][cycle], tier[o])

(* owner_usage over [since, until): the parses of the closed month only.   *)
ClosedOverageLeaky(o) ==   \* Deviation: the window is left open.
    OverageFor(parses[o][since] + parses[o][since + 1], snapshot[o][since])

ClosedOverage(o) == OverageFor(parses[o][since], snapshot[o][since])

-----------------------------------------------------------------------------
(* A live key's parse succeeds: one more success row in the current month. *)
(* (Whether the owner's subscription is active just now is Subscriptions'  *)
(* matter; a tier, once set, stays when it lapses.)                        *)
Parse(o) ==
    /\ o \in customer
    /\ parses[o][cycle] < MaxParses
    /\ parses' = [parses EXCEPT ![o][cycle] = @ + 1]
    /\ UNCHANGED <<cycle, customer, tier, bookVars, invoices, cronVars, shown,
                   faults, manual>>

(* The webhooks set the customer and the tier of an owner; a plan change   *)
(* is another subscription.create.                                         *)
Subscribe(o, t) ==
    /\ tier[o] # t
    /\ customer' = customer \cup {o}
    /\ tier' = [tier EXCEPT ![o] = t]
    /\ UNCHANGED <<cycle, parses, bookVars, invoices, cronVars, shown, faults,
                   manual>>

(* The month ends.  The dashboard (/v1/usage) showed the live figure up to *)
(* the last moment.                                                        *)
NextCycle ==
    /\ cycle < MaxCycle
    /\ cycle' = cycle + 1
    /\ shown' = [o \in Owner |-> [shown[o] EXCEPT ![cycle] = LiveOverage(o)]]
    /\ UNCHANGED <<envVars, bookVars, invoices, cronVars, faults, manual>>

-----------------------------------------------------------------------------
(* billable_owners: a customer is mapped and a tier is set.                *)
Billable == {o \in customer : tier[o] # NoTier}

(* CycleTierStore.snapshot of the owners in S: INSERT OR IGNORE.           *)
Freeze(S) ==
    snapshot' = [o \in Owner |->
        IF o \in S /\ snapshot[o][cycle] = NoTier
        THEN [snapshot[o] EXCEPT ![cycle] = tier[o]]
        ELSE snapshot[o]]

(* A run starts: freeze the current month, list the closed one.  No await  *)
(* separates the two.                                                      *)
StartRun ==
    /\ pc = "idle"
    /\ cycle > 0
    /\ Freeze(Billable)
    /\ since' = cycle - 1
    /\ todo' = {o \in Owner : snapshot'[o][cycle - 1] # NoTier}
    /\ pc' = "billing"
    /\ UNCHANGED <<cycle, envVars, ledger, invoices, call, shown, faults, manual>>

(* In the first month nothing has closed; the run only freezes.            *)
FreezeFirst ==
    /\ pc = "idle"
    /\ cycle = 0
    /\ Freeze(Billable)
    /\ UNCHANGED <<cycle, envVars, ledger, invoices, cronVars, shown, faults,
                   manual>>

Settled(o) == <<o, since>> \in ledger

(* The loop comes to an owner.  Already settled: skip.                     *)
SkipSettled(o) ==
    /\ pc = "billing" /\ o \in todo
    /\ Settled(o)
    /\ todo' = todo \ {o}
    /\ UNCHANGED <<cycle, envVars, bookVars, invoices, pc, since, call, shown,
                   faults, manual>>

(* Nothing owed: the month is settled without an invoice.                  *)
SettleZeroUnrecorded(o) ==   \* Deviation: only invoices are recorded.
    /\ pc = "billing" /\ o \in todo
    /\ ~Settled(o)
    /\ ClosedOverage(o) = 0
    /\ todo' = todo \ {o}
    /\ UNCHANGED <<cycle, envVars, bookVars, invoices, pc, since, call, shown,
                   faults, manual>>

SettleZero(o) ==
    /\ pc = "billing" /\ o \in todo
    /\ ~Settled(o)
    /\ ClosedOverage(o) = 0
    /\ ledger' = ledger \cup {<<o, since>>}
    /\ todo' = todo \ {o}
    /\ UNCHANGED <<cycle, envVars, snapshot, invoices, pc, since, call, shown,
                   faults, manual>>

(* Overage owed: call Paystack and wait.  A customer once mapped stays     *)
(* mapped, so the code's "no Paystack customer" arm needs the owner erased *)
(* in between and is not reached here.                                     *)
CallAgain(o) ==   \* Deviation: the ledger is not consulted first.
    /\ pc = "billing" /\ o \in todo
    /\ ClosedOverage(o) > 0
    /\ o \in customer
    /\ pc' = "calling"
    /\ call' = [owner |-> o, amount |-> ClosedOverage(o), made |-> FALSE]
    /\ todo' = todo \ {o}
    /\ UNCHANGED <<cycle, envVars, bookVars, invoices, since, shown, faults,
                   manual>>

CallPaystack(o) ==
    /\ pc = "billing" /\ o \in todo
    /\ ~Settled(o)
    /\ ClosedOverage(o) > 0
    /\ o \in customer
    /\ pc' = "calling"
    /\ call' = [owner |-> o, amount |-> ClosedOverage(o), made |-> FALSE]
    /\ todo' = todo \ {o}
    /\ UNCHANGED <<cycle, envVars, bookVars, invoices, since, shown, faults,
                   manual>>

(* Paystack creates the invoice and answers ...                            *)
PaystackCreates ==
    /\ pc = "calling"
    /\ invoices' = [invoices EXCEPT ![call.owner][since] = Append(@, call.amount)]
    /\ call' = [call EXCEPT !.made = TRUE]
    /\ pc' = "answered"
    /\ UNCHANGED <<cycle, envVars, bookVars, since, todo, shown, faults, manual>>

(* ... or refuses with a status of 300 or more.                            *)
PaystackRefuses ==
    /\ pc = "calling"
    /\ pc' = "answered"
    /\ UNCHANGED <<cycle, envVars, bookVars, invoices, since, todo, call, shown,
                   faults, manual>>

(* The answer is read: an invoice settles the month, a PaystackError       *)
(* leaves it for the next tick.                                            *)
ReadAnswerSettling ==   \* Deviation: a refused invoice settles the month too.
    /\ pc = "answered"
    /\ ledger' = ledger \cup {<<call.owner, since>>}
    /\ pc' = "billing" /\ call' = NoCall
    /\ UNCHANGED <<cycle, envVars, snapshot, invoices, since, todo, shown,
                   faults, manual>>

ReadAnswer ==
    /\ pc = "answered"
    /\ ledger' = IF call.made THEN ledger \cup {<<call.owner, since>>} ELSE ledger
    /\ pc' = "billing" /\ call' = NoCall
    /\ UNCHANGED <<cycle, envVars, snapshot, invoices, since, todo, shown,
                   faults, manual>>

EndRun ==
    /\ pc = "billing" /\ todo = {}
    /\ pc' = "idle"
    /\ UNCHANGED <<cycle, envVars, bookVars, invoices, since, todo, call, shown,
                   faults, manual>>

(* The answer never comes: httpx raises its own error after 15 seconds,    *)
(* which the run does not catch; billing_scheduler does, and the run is    *)
(* over.  Paystack may or may not have created the invoice.  A crash of    *)
(* the process, at any point of the run, ends it the same way; between the *)
(* commits of the snapshots it leaves some of them unwritten.              *)
RunDies ==
    /\ faults < MaxFaults
    /\ pc # "idle"
    /\ faults' = faults + 1
    /\ pc' = "idle" /\ todo' = {} /\ call' = NoCall
    /\ \/ UNCHANGED invoices
       \/ /\ pc = "calling"
          /\ invoices' =
               [invoices EXCEPT ![call.owner][since] = Append(@, call.amount)]
    /\ UNCHANGED <<cycle, envVars, bookVars, since, shown, manual>>

CrashWhileFreezing ==
    /\ faults < MaxFaults
    /\ pc = "idle"
    /\ \E S \in SUBSET Billable : Freeze(S)
    /\ faults' = faults + 1
    /\ UNCHANGED <<cycle, envVars, ledger, invoices, cronVars, shown, manual>>

-----------------------------------------------------------------------------
(* admin_charge_overage: the current month's figure by the live tier,      *)
(* invoiced at once; nothing is written to the ledger.                     *)
ManualCharge(o) ==
    /\ manual[o][cycle] < MaxManual
    /\ LiveOverage(o) > 0
    /\ o \in customer
    /\ manual' = [manual EXCEPT ![o][cycle] = @ + 1]
    /\ UNCHANGED <<cycle, envVars, bookVars, invoices, cronVars, shown, faults>>

BillNext == \E o \in Owner : SkipSettled(o) \/ SettleZero(o) \/ CallPaystack(o)

Next ==
    \/ \E o \in Owner : Parse(o) \/ ManualCharge(o)
    \/ \E o \in Owner, t \in PlanTiers : Subscribe(o, t)
    \/ NextCycle
    \/ StartRun \/ FreezeFirst \/ BillNext \/ PaystackCreates
    \/ PaystackRefuses \/ ReadAnswer \/ EndRun
    \/ RunDies \/ CrashWhileFreezing

(* The scheduler ticks for ever, a run that is ready goes on, Paystack     *)
(* answers every call one way or the other, and is not down for good.      *)
Fairness ==
    /\ WF_vars(StartRun) /\ WF_vars(BillNext) /\ WF_vars(ReadAnswer)
    /\ WF_vars(EndRun)
    /\ WF_vars(PaystackCreates \/ PaystackRefuses)
    /\ SF_vars(PaystackCreates)

Spec == Init /\ [][Next]_vars /\ Fairness

-----------------------------------------------------------------------------
TypeOK ==
    /\ cycle \in Cycle
    /\ parses \in [Owner -> [Cycle -> 0..MaxParses]]
    /\ customer \in SUBSET Owner
    /\ tier \in [Owner -> Tier \cup {NoTier}]
    /\ snapshot \in [Owner -> [Cycle -> Tier \cup {NoTier}]]
    /\ ledger \in SUBSET (Owner \X Cycle)
    /\ invoices \in [Owner -> [Cycle -> Seq(Nat)]]
    /\ pc \in {"idle", "billing", "calling", "answered"}
    /\ since \in Cycle
    /\ todo \in SUBSET Owner
    /\ call \in [owner : Owner \cup {NoTier}, amount : Nat, made : BOOLEAN]
    /\ shown \in [Owner -> [Cycle -> Nat]]
    /\ faults \in 0..MaxFaults
    /\ manual \in [Owner -> [Cycle -> 0..MaxManual]]

Amounts(o, c) == {invoices[o][c][i] : i \in 1..Len(invoices[o][c])}

(* The overage an owner owes for a month by the tier frozen for it.        *)
Owed(o, c) ==
    IF snapshot[o][c] = NoTier THEN 0 ELSE OverageFor(parses[o][c], snapshot[o][c])

(* Whatever the cron sends Paystack is for a closed month, and is exactly  *)
(* what the frozen tier makes of that month's final count: no parse of the *)
(* next month leaks in, and a later tier change does not move it.          *)
InvoicesAreOwed ==
    \A o \in Owner, c \in Cycle : invoices[o][c] # <<>> =>
        c < cycle /\ Amounts(o, c) = {Owed(o, c)}

(* A settled month with overage was invoiced: a refusal or a lost answer   *)
(* never settles it for nothing.                                           *)
SettledIsInvoiced ==
    \A o \in Owner, c \in Cycle :
        <<o, c>> \in ledger /\ Owed(o, c) > 0 => Len(invoices[o][c]) > 0

(* The month an owner was once settled for is never invoiced again by the  *)
(* cron, however often it runs and restarts.                               *)
NoInvoiceAfterSettled ==
    [][\A o \in Owner, c \in Cycle :
          <<o, c>> \in ledger => invoices'[o][c] = invoices[o][c]]_vars

(* The books are kept as Settlement says, with what a month owes taken off *)
(* its frozen tier: through refusals, faults and repeated runs a closed    *)
(* month owes what it did when it closed, is invoiced for exactly that and *)
(* only before it is settled, and is not settled for nothing.              *)
Books == INSTANCE Settlement WITH
    month <- cycle, settled <- ledger,
    due <- [o \in Owner |-> [c \in Cycle |-> Owed(o, c)]]

KeepsSettlement == Books!Spec

(* The first tier observed in a month stays the tier of that month.        *)
SnapshotIsFrozen ==
    [][\A o \in Owner, c \in Cycle :
          snapshot[o][c] # NoTier => snapshot'[o][c] = snapshot[o][c]]_vars

(* overage_ledger.py:45-46: the daily scheduler can "fire repeatedly and   *)
(* survive restarts without double-billing".                               *)
NoDoubleBilling ==
    \A o \in Owner, c \in Cycle : Len(invoices[o][c]) + manual[o][c] <= 1

(* Every extra invoice of a month has a run that died of its own.          *)
DuplicatesNeedFaults ==
    \A o \in Owner, c \in Cycle : Len(invoices[o][c]) <= 1 + faults

(* audit.py:26-28: the dashboard and the cron "must never diverge, or a    *)
(* customer sees '0 overage' on the dashboard then receives an invoice".   *)
NoSurpriseInvoice ==
    \A o \in Owner, c \in Cycle :
        c < cycle /\ shown[o][c] = 0 => invoices[o][c] = <<>>

(* Once the months stop passing, every owner with a frozen tier in the     *)
(* month just closed is settled, through refusals, crashes and lost        *)
(* answers: the next tick retries.                                         *)
LastCycleSettles ==
    \A o \in Owner :
        (cycle = MaxCycle /\ MaxCycle > 0 /\ snapshot[o][MaxCycle - 1] # NoTier)
            ~> <<o, MaxCycle - 1>> \in ledger

(* billing_cron.py:97-98: "the idempotent ledger makes daily cadence and   *)
(* downtime self-healing".  Every month with a frozen tier is settled in   *)
(* the end.                                                                *)
EveryCycleSettles ==
    \A o \in Owner, c \in 0..(MaxCycle - 1) :
        (cycle > c /\ snapshot[o][c] # NoTier) ~> <<o, c>> \in ledger
=============================================================================
