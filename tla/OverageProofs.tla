---------------------------- MODULE OverageProofs ----------------------------
(***************************************************************************)
(* Theorems about Overage, for every value of its constants.               *)
(*                                                                         *)
(* What makes InvoicesAreOwed and SettledIsInvoiced inductive is what a    *)
(* run knows while it waits for Paystack: the month it bills is closed, so *)
(* its count and frozen tier stand still, the amount it asked for is what  *)
(* they make, and the month is not settled meanwhile.                      *)
(***************************************************************************)
EXTENDS Overage, SequenceTheorems, TLAPS

(* An amount is a natural number of kobo.                                  *)
LEMMA OverageForType ==
  ASSUME NEW n \in Nat, NEW t \in Tier
  PROVE  OverageFor(n, t) \in Nat
<1>1. Cap[t] \in Nat /\ Rate[t] \in Nat
  BY OverageAssumption
<1>2. CASE n > Cap[t]
  <2>1. n - Cap[t] \in Nat
    BY <1>1, <1>2
  <2>2. \A a, b \in Nat : a * b \in Nat
    OBVIOUS
  <2> QED
    BY <1>1, <1>2, <2>1, <2>2 DEF OverageFor
<1>3. CASE ~(n > Cap[t])
  BY <1>3 DEF OverageFor
<1> QED
  BY <1>2, <1>3

(* What the books say of a month.                                          *)
Booked(o, c) ==
    /\ snapshot[o][c] # NoTier => c <= cycle
    /\ <<o, c>> \in ledger => c < cycle /\ snapshot[o][c] # NoTier
    /\ invoices[o][c] # <<>> => c < cycle /\ snapshot[o][c] # NoTier
    /\ \A i \in 1..Len(invoices[o][c]) : invoices[o][c][i] = Owed(o, c)
    /\ <<o, c>> \in ledger /\ Owed(o, c) > 0 => invoices[o][c] # <<>>

(* What a run knows.                                                       *)
Running ==
    /\ pc # "idle" =>
         since < cycle /\ \A o \in todo : snapshot[o][since] # NoTier
    /\ pc \in {"calling", "answered"} =>
         /\ call.owner \in Owner /\ call.owner \notin todo
         /\ snapshot[call.owner][since] # NoTier
         /\ call.amount = Owed(call.owner, since) /\ call.amount > 0
         /\ ~Settled(call.owner)
    /\ pc = "answered" /\ call.made => invoices[call.owner][since] # <<>>
    /\ pc = "calling" => ~call.made

OverageInv ==
    /\ TypeOK
    /\ \A o \in Owner, c \in Cycle : Booked(o, c)
    /\ Running

-----------------------------------------------------------------------------
(* The month is a number.                                                  *)
LEMMA CycleType ==
  ASSUME TypeOK
  PROVE  cycle \in Cycle /\ cycle \in Nat /\ MaxCycle \in Nat /\ Cycle \subseteq Nat
<1>1. MaxCycle \in Nat
  BY OverageAssumption
<1>2. Cycle \subseteq Nat
  BY <1>1 DEF Cycle
<1>3. cycle \in Cycle
  BY DEF TypeOK
<1> QED
  BY <1>1, <1>2, <1>3

(* What a month owes is a natural number of kobo.                          *)
LEMMA OwedType ==
  ASSUME TypeOK, NEW o \in Owner, NEW c \in Cycle
  PROVE  Owed(o, c) \in Nat
<1>1. parses[o][c] \in Nat /\ snapshot[o][c] \in Tier \cup {NoTier}
  BY OverageAssumption DEF TypeOK
<1> QED
  BY <1>1, OverageForType DEF Owed

(* Freezing writes only the current month, and only where nothing is.      *)
LEMMA FreezeWrites ==
  ASSUME TypeOK, NEW S \in SUBSET Billable, Freeze(S)
  PROVE  /\ snapshot' \in [Owner -> [Cycle -> Tier \cup {NoTier}]]
         /\ \A o \in Owner, c \in Cycle :
              /\ snapshot[o][c] # NoTier => snapshot'[o][c] = snapshot[o][c]
              /\ c # cycle => snapshot'[o][c] = snapshot[o][c]
<1> SUFFICES ASSUME NEW o \in Owner
             PROVE  /\ snapshot'[o] \in [Cycle -> Tier \cup {NoTier}]
                    /\ \A c \in Cycle :
                         /\ snapshot[o][c] # NoTier => snapshot'[o][c] = snapshot[o][c]
                         /\ c # cycle => snapshot'[o][c] = snapshot[o][c]
  BY DEF Freeze
<1>1. /\ snapshot[o] \in [Cycle -> Tier \cup {NoTier}]
      /\ tier[o] \in Tier \cup {NoTier} /\ cycle \in Cycle
  BY DEF TypeOK
<1> QED
  BY <1>1 DEF Freeze

(* A step that leaves the counts of closed months, their frozen tiers, the *)
(* ledger and the invoices alone keeps the books.                          *)
LEMMA BooksUntouched ==
  ASSUME OverageInv, NEW o \in Owner, NEW c \in Cycle,
         cycle \in Int, cycle' \in Int, cycle <= cycle',
         c < cycle => parses'[o][c] = parses[o][c],
         snapshot[o][c] # NoTier => snapshot'[o][c] = snapshot[o][c],
         c # cycle => snapshot'[o][c] = snapshot[o][c],
         UNCHANGED <<ledger, invoices>>
  PROVE  Booked(o, c)'
<1>1. Booked(o, c) /\ c \in Int
  BY DEF OverageInv, Cycle
<1>2. c < cycle /\ snapshot[o][c] # NoTier => Owed(o, c)' = Owed(o, c)
  BY DEF Owed
<1> QED
  BY <1>1, <1>2, EmptySeq DEF Booked

-----------------------------------------------------------------------------
LEMMA InitInv == Init => OverageInv
<1> SUFFICES ASSUME Init PROVE OverageInv
  OBVIOUS
<1>1. TypeOK
  BY OverageAssumption DEF Init, TypeOK, Cycle, NoCall
<1>2. ASSUME NEW o \in Owner, NEW c \in Cycle PROVE Booked(o, c)
  BY EmptySeq DEF Init, Booked, Owed
<1>3. Running
  BY DEF Init, Running
<1> QED
  BY <1>1, <1>2, <1>3 DEF OverageInv

(* The steps of the world around the cron.                                 *)
LEMMA WorldStep ==
  ASSUME OverageInv,
         \/ \E o \in Owner : Parse(o) \/ ManualCharge(o)
         \/ \E o \in Owner, t \in PlanTiers : Subscribe(o, t)
         \/ NextCycle
  PROVE  OverageInv'
<1>a. TypeOK /\ Running
  BY DEF OverageInv
<1>0. /\ TypeOK /\ Running
      /\ cycle \in Cycle /\ cycle \in Nat /\ MaxCycle \in Nat /\ Cycle \subseteq Nat
  BY <1>a, CycleType
<1>1. UNCHANGED <<bookVars, invoices, cronVars>>
  BY DEF Parse, ManualCharge, Subscribe, NextCycle
<1>2. cycle' \in Cycle /\ cycle <= cycle'
  BY <1>0 DEF Parse, ManualCharge, Subscribe, NextCycle, Cycle
<1>3. \A o \in Owner, c \in Cycle : c < cycle => parses'[o][c] = parses[o][c]
  <2>1. ASSUME NEW o \in Owner, Parse(o), NEW p \in Owner, NEW c \in Cycle, c < cycle
        PROVE  parses'[p][c] = parses[p][c]
    <3>1. parses \in [Owner -> [Cycle -> 0..MaxParses]]
      BY <1>0 DEF TypeOK
    <3> QED
      BY <1>0, <2>1, <3>1 DEF Parse
  <2>2. CASE UNCHANGED parses
    BY <2>2
  <2> QED
    BY <2>1, <2>2 DEF ManualCharge, Subscribe, NextCycle, envVars
<1>4. TypeOK'
  <2>1. ASSUME NEW o \in Owner, Parse(o) PROVE TypeOK'
    <3>1. parses[o][cycle] + 1 \in 0..MaxParses
      <4>1. parses[o] \in [Cycle -> 0..MaxParses] /\ MaxParses \in Nat
        BY <1>0, OverageAssumption DEF TypeOK
      <4> QED
        BY <1>0, <2>1, <4>1 DEF Parse
    <3> QED
      BY <1>0, <2>1, <3>1 DEF Parse, TypeOK, bookVars, cronVars
  <2>2. ASSUME NEW o \in Owner, ManualCharge(o) PROVE TypeOK'
    <3>1. manual[o][cycle] + 1 \in 0..MaxManual
      <4>1. manual[o] \in [Cycle -> 0..MaxManual] /\ MaxManual \in Nat
        BY <1>0, OverageAssumption DEF TypeOK
      <4> QED
        BY <1>0, <2>2, <4>1 DEF ManualCharge
    <3> QED
      BY <1>0, <2>2, <3>1 DEF ManualCharge, TypeOK, envVars, bookVars, cronVars
  <2>3. ASSUME NEW o \in Owner, NEW t \in PlanTiers, Subscribe(o, t) PROVE TypeOK'
    BY <1>0, <2>3, OverageAssumption DEF Subscribe, TypeOK, bookVars, cronVars
  <2>4. CASE NextCycle
    <3>1. \A o \in Owner : LiveOverage(o) \in Nat
      <4>1. ASSUME NEW o \in Owner PROVE LiveOverage(o) \in Nat
        <5>1. parses[o][cycle] \in Nat /\ tier[o] \in Tier \cup {NoTier}
          BY <1>0, OverageAssumption DEF TypeOK
        <5> QED
          BY <5>1, OverageForType DEF LiveOverage
      <4> QED
        BY <4>1
    <3>2. shown' \in [Owner -> [Cycle -> Nat]]
      BY <1>0, <2>4, <3>1 DEF NextCycle, TypeOK
    <3> QED
      BY <1>0, <1>2, <2>4, <3>2 DEF NextCycle, TypeOK, envVars, bookVars, cronVars
  <2> QED
    BY <2>1, <2>2, <2>3, <2>4
<1>5. \A o \in Owner, c \in Cycle : Booked(o, c)'
  BY <1>0, <1>1, <1>2, <1>3, BooksUntouched DEF bookVars
<1>6. Running'
  <2>1. /\ pc' = pc /\ since' = since /\ todo' = todo /\ call' = call
        /\ snapshot' = snapshot /\ ledger' = ledger /\ invoices' = invoices
    BY <1>1 DEF bookVars, cronVars
  <2>2. since \in Cycle /\ since < cycle => since < cycle'
    BY <1>0, <1>2
  <2>3. pc \in {"calling", "answered"} =>
          Owed(call.owner, since)' = Owed(call.owner, since)
    BY <1>0, <1>3, <2>1 DEF Running, Owed, TypeOK
  <2> QED
    BY <1>0, <2>1, <2>2, <2>3 DEF Running, Settled, TypeOK
<1> QED
  BY <1>4, <1>5, <1>6 DEF OverageInv

(* Freezing, at the start of a run or cut short by a crash.                *)
LEMMA FreezeStep ==
  ASSUME OverageInv, StartRun \/ FreezeFirst \/ CrashWhileFreezing
  PROVE  OverageInv'
<1>a. TypeOK /\ Running
  BY DEF OverageInv
<1>0. /\ TypeOK /\ Running
      /\ cycle \in Cycle /\ cycle \in Nat /\ MaxCycle \in Nat /\ Cycle \subseteq Nat
  BY <1>a, CycleType
<1>1. PICK S \in SUBSET Billable : Freeze(S)
  BY DEF StartRun, FreezeFirst, CrashWhileFreezing
<1>2. /\ cycle' = cycle /\ UNCHANGED <<envVars, ledger, invoices, call, manual, shown>>
      /\ call' = call
  BY DEF StartRun, FreezeFirst, CrashWhileFreezing, cronVars
<1>3. /\ snapshot' \in [Owner -> [Cycle -> Tier \cup {NoTier}]]
      /\ \A o \in Owner, c \in Cycle :
           /\ snapshot[o][c] # NoTier => snapshot'[o][c] = snapshot[o][c]
           /\ c # cycle => snapshot'[o][c] = snapshot[o][c]
  BY <1>0, <1>1, FreezeWrites
<1>4. /\ pc' \in {"idle", "billing"} /\ since' \in Cycle /\ todo' \in SUBSET Owner
      /\ faults' \in 0..MaxFaults
      /\ pc' # "idle" =>
           since' < cycle' /\ \A o \in todo' : snapshot'[o][since'] # NoTier
  <2>0. /\ pc = "idle" /\ since \in Cycle /\ todo \in SUBSET Owner
        /\ faults \in 0..MaxFaults /\ MaxFaults \in Nat
    BY <1>0, OverageAssumption DEF StartRun, FreezeFirst, CrashWhileFreezing, TypeOK
  <2>1. CASE StartRun
    <3>1. cycle - 1 \in Cycle
      BY <1>0, <2>1 DEF StartRun, Cycle
    <3> QED
      BY <1>0, <2>0, <2>1, <3>1 DEF StartRun
  <2>2. CASE FreezeFirst
    BY <2>0, <2>2 DEF FreezeFirst, cronVars
  <2>3. CASE CrashWhileFreezing
    BY <2>0, <2>3 DEF CrashWhileFreezing, cronVars
  <2> QED
    BY <2>1, <2>2, <2>3
<1>5. TypeOK'
  BY <1>0, <1>2, <1>3, <1>4 DEF TypeOK, envVars
<1>6. \A o \in Owner, c \in Cycle : Booked(o, c)'
  BY <1>0, <1>2, <1>3, BooksUntouched DEF envVars
<1>7. Running'
  BY <1>4 DEF Running
<1> QED
  BY <1>5, <1>6, <1>7 DEF OverageInv

-----------------------------------------------------------------------------
(* The invoice Paystack creates is the one the run asked for: the books    *)
(* take it, whether or not the answer is ever read.                        *)
LEMMA InvoiceKeepsBooks ==
  ASSUME OverageInv, pc = "calling",
         invoices' = [invoices EXCEPT ![call.owner][since] = Append(@, call.amount)],
         UNCHANGED <<cycle, envVars, bookVars>>
  PROVE  /\ invoices' \in [Owner -> [Cycle -> Seq(Nat)]]
         /\ invoices'[call.owner][since] # <<>>
         /\ \A o \in Owner, c \in Cycle : Booked(o, c)'
<1>1. /\ TypeOK /\ since < cycle /\ call.owner \in Owner
      /\ snapshot[call.owner][since] # NoTier
      /\ call.amount = Owed(call.owner, since)
  BY DEF OverageInv, Running
<1>2. invoices \in [Owner -> [Cycle -> Seq(Nat)]] /\ since \in Cycle
  BY <1>1 DEF TypeOK
<1>3. call.amount \in Nat
  BY <1>1, <1>2, OwedType
<1> DEFINE old == invoices[call.owner][since]
           new == invoices'[call.owner][since]
<1>4. old \in Seq(Nat) /\ new = Append(old, call.amount)
  BY <1>1, <1>2
<1>5. /\ new \in Seq(Nat) /\ new # <<>> /\ Len(new) = Len(old) + 1
      /\ \A i \in 1..Len(old) : new[i] = old[i]
      /\ new[Len(new)] = call.amount
  <2> HIDE DEF old, new
  <2> QED
    BY <1>3, <1>4, AppendProperties, EmptySeq
<1>6. \A i \in 1..Len(new) : new[i] = Owed(call.owner, since)
  <2>1. \A i \in 1..Len(old) : old[i] = Owed(call.owner, since)
    BY <1>1, <1>2 DEF OverageInv, Booked
  <2>2. Len(old) \in Nat
    BY <1>4
  <2> HIDE DEF old, new
  <2> QED
    BY <1>1, <1>5, <2>1, <2>2
<1>7. /\ cycle' = cycle /\ snapshot' = snapshot /\ ledger' = ledger
      /\ \A o \in Owner, c \in Cycle : Owed(o, c)' = Owed(o, c)
  BY DEF envVars, bookVars, Owed
<1>8. ASSUME NEW o \in Owner, NEW c \in Cycle PROVE Booked(o, c)'
  <2>1. Booked(o, c)
    BY DEF OverageInv
  <2>2. CASE o = call.owner /\ c = since
    <3>1. invoices'[o][c] = new
      BY <2>2
    <3> HIDE DEF old, new
    <3> QED
      BY <1>1, <1>5, <1>6, <1>7, <2>1, <2>2, <3>1 DEF Booked
  <2>3. CASE ~(o = call.owner /\ c = since)
    <3>1. invoices'[o][c] = invoices[o][c]
      BY <1>1, <1>2, <2>3
    <3> QED
      BY <1>7, <2>1, <3>1 DEF Booked
  <2> QED
    BY <2>2, <2>3
<1>9. invoices' \in [Owner -> [Cycle -> Seq(Nat)]]
  BY <1>1, <1>2, <1>4, <1>5
<1> QED
  BY <1>5, <1>8, <1>9

(* Settling a closed month that owes nothing, or was invoiced, keeps the   *)
(* books.                                                                  *)
LEMMA SettlingKeepsBooks ==
  ASSUME OverageInv, NEW p \in Owner, since < cycle,
         snapshot[p][since] # NoTier,
         Owed(p, since) > 0 => invoices[p][since] # <<>>,
         ledger' = ledger \cup {<<p, since>>},
         UNCHANGED <<cycle, envVars, snapshot, invoices>>
  PROVE  /\ ledger' \in SUBSET (Owner \X Cycle)
         /\ \A o \in Owner, c \in Cycle : Booked(o, c)'
<1>1. ledger \in SUBSET (Owner \X Cycle) /\ since \in Cycle
  BY DEF OverageInv, TypeOK
<1>2. /\ cycle' = cycle /\ snapshot' = snapshot /\ invoices' = invoices
      /\ \A o \in Owner, c \in Cycle : Owed(o, c)' = Owed(o, c)
  BY DEF envVars, Owed
<1>3. ASSUME NEW o \in Owner, NEW c \in Cycle PROVE Booked(o, c)'
  <2>1. Booked(o, c)
    BY DEF OverageInv
  <2>2. <<o, c>> \in ledger' => <<o, c>> \in ledger \/ (o = p /\ c = since)
    OBVIOUS
  <2> QED
    BY <1>2, <2>1, <2>2 DEF Booked
<1> QED
  BY <1>1, <1>3

(* The steps of a run.                                                     *)
LEMMA RunStep ==
  ASSUME OverageInv,
         BillNext \/ PaystackCreates \/ PaystackRefuses \/ ReadAnswer
           \/ EndRun \/ RunDies
  PROVE  OverageInv'
<1>0. /\ TypeOK /\ Running
      /\ cycle \in Cycle /\ cycle \in Nat /\ Cycle \subseteq Nat
  <2>1. TypeOK /\ Running
    BY DEF OverageInv
  <2> QED
    BY <2>1, CycleType
<1>1. /\ pc \in {"idle", "billing", "calling", "answered"} /\ since \in Cycle
      /\ todo \in SUBSET Owner
      /\ call \in [owner : Owner \cup {NoTier}, amount : Nat, made : BOOLEAN]
  BY <1>0 DEF TypeOK
<1>2. /\ since' = since /\ pc # "idle" /\ since < cycle
      /\ \A o \in todo : snapshot[o][since] # NoTier
      /\ UNCHANGED <<cycle, envVars, snapshot, shown, manual>>
  <2>1. /\ since' = since /\ pc # "idle"
        /\ UNCHANGED <<cycle, envVars, snapshot, shown, manual>>
    BY DEF BillNext, SkipSettled, SettleZero, CallPaystack, PaystackCreates,
           PaystackRefuses, ReadAnswer, EndRun, RunDies, bookVars
  <2> QED
    BY <1>0, <2>1 DEF Running
<1>3. \A o \in Owner, c \in Cycle : Owed(o, c)' = Owed(o, c)
  BY <1>2 DEF envVars, Owed
<1>4. \A o \in todo : Owed(o, since) = ClosedOverage(o)
  BY <1>2 DEF Owed, ClosedOverage
<1> DEFINE Kept == /\ pc' \in {"idle", "billing", "calling", "answered"}
                   /\ todo' \in SUBSET todo
                   /\ call' \in [owner : Owner \cup {NoTier}, amount : Nat,
                                 made : BOOLEAN]
                   /\ faults' \in 0..MaxFaults
                   /\ ledger' \in SUBSET (Owner \X Cycle)
                   /\ invoices' \in [Owner -> [Cycle -> Seq(Nat)]]
                   /\ \A o \in Owner, c \in Cycle : Booked(o, c)'
                   /\ Running'
<1>5. SUFFICES Kept
  BY <1>0, <1>1, <1>2 DEF OverageInv, TypeOK, envVars
<1>6. UNCHANGED <<ledger, invoices>> => \A o \in Owner, c \in Cycle : Booked(o, c)'
  BY <1>0, <1>2, BooksUntouched DEF envVars
<1>7. /\ ledger \in SUBSET (Owner \X Cycle)
      /\ invoices \in [Owner -> [Cycle -> Seq(Nat)]]
      /\ faults \in 0..MaxFaults /\ MaxFaults \in Nat
  BY <1>0, OverageAssumption DEF TypeOK
<1>8. NoCall \in [owner : Owner \cup {NoTier}, amount : Nat, made : BOOLEAN]
  BY DEF NoCall
<1>a. ASSUME NEW o \in Owner, SkipSettled(o) PROVE Kept
  <2>1. Running'
    BY <1>2, <1>a DEF SkipSettled, Running
  <2> QED
    BY <1>1, <1>6, <1>7, <1>a, <2>1 DEF SkipSettled, bookVars
<1>b. ASSUME NEW o \in Owner, SettleZero(o) PROVE Kept
  <2>1. ledger' \in SUBSET (Owner \X Cycle) /\ \A p \in Owner, c \in Cycle : Booked(p, c)'
    <3>1. o \in todo /\ Owed(o, since) = 0
      BY <1>4, <1>b DEF SettleZero
    <3> QED
      BY <1>2, <1>b, <3>1, SettlingKeepsBooks DEF SettleZero
  <2>2. Running'
    BY <1>2, <1>b DEF SettleZero, Running
  <2> QED
    BY <1>1, <1>7, <1>b, <2>1, <2>2 DEF SettleZero
<1>c. ASSUME NEW o \in Owner, CallPaystack(o) PROVE Kept
  <2>1. /\ o \in todo /\ Owed(o, since) = ClosedOverage(o) /\ ClosedOverage(o) \in Nat
        /\ ClosedOverage(o) > 0 /\ ~Settled(o)
    BY <1>0, <1>1, <1>4, <1>c, OwedType DEF CallPaystack
  <2>2. /\ call' = [owner |-> o, amount |-> ClosedOverage(o), made |-> FALSE]
        /\ pc' = "calling" /\ todo' = todo \ {o} /\ UNCHANGED <<bookVars, invoices, faults>>
    BY <1>c DEF CallPaystack
  <2>3. /\ call'.owner = o /\ call'.amount = ClosedOverage(o) /\ call'.made = FALSE
        /\ call' \in [owner : Owner \cup {NoTier}, amount : Nat, made : BOOLEAN]
    BY <2>1, <2>2
  <2>4. Running'
    BY <1>1, <1>2, <1>3, <2>1, <2>2, <2>3 DEF Running, Settled, bookVars
  <2> QED
    BY <1>1, <1>6, <1>7, <2>2, <2>3, <2>4 DEF bookVars
<1>d. CASE PaystackCreates
  <2>1. /\ call' = [call EXCEPT !.made = TRUE] /\ pc = "calling" /\ pc' = "answered"
        /\ invoices' =
             [invoices EXCEPT ![call.owner][since] = Append(@, call.amount)]
        /\ UNCHANGED <<bookVars, todo, faults>>
    BY <1>d DEF PaystackCreates
  <2>2. /\ call'.owner = call.owner /\ call'.amount = call.amount
        /\ call' \in [owner : Owner \cup {NoTier}, amount : Nat, made : BOOLEAN]
    BY <1>1, <2>1
  <2>3. /\ invoices' \in [Owner -> [Cycle -> Seq(Nat)]]
        /\ invoices'[call.owner][since] # <<>>
        /\ \A o \in Owner, c \in Cycle : Booked(o, c)'
    BY <1>2, <2>1, InvoiceKeepsBooks
  <2>4. Running'
    BY <1>0, <1>1, <1>2, <1>3, <2>1, <2>2, <2>3 DEF Running, Settled, bookVars
  <2> QED
    BY <1>1, <1>7, <2>1, <2>2, <2>3, <2>4 DEF bookVars
<1>e. CASE PaystackRefuses
  <2>1. pc = "calling" /\ pc' = "answered"
        /\ UNCHANGED <<bookVars, invoices, todo, call, faults>>
    BY <1>e DEF PaystackRefuses
  <2>2. Running'
    BY <1>0, <1>1, <1>2, <1>3, <2>1 DEF Running, Settled, bookVars
  <2> QED
    BY <1>1, <1>6, <1>7, <2>1, <2>2 DEF bookVars
<1>f. CASE ReadAnswer
  <2>1. /\ pc = "answered" /\ pc' = "billing" /\ call' = NoCall
        /\ ledger' = IF call.made THEN ledger \cup {<<call.owner, since>>} ELSE ledger
        /\ UNCHANGED <<snapshot, invoices, todo, faults>>
    BY <1>f DEF ReadAnswer
  <2>2. Running'
    BY <1>2, <2>1 DEF Running
  <2>3. ledger' \in SUBSET (Owner \X Cycle) /\ \A o \in Owner, c \in Cycle : Booked(o, c)'
    <3>1. CASE call.made
      <4>1. /\ call.owner \in Owner /\ snapshot[call.owner][since] # NoTier
            /\ invoices[call.owner][since] # <<>>
        BY <1>0, <2>1, <3>1 DEF Running
      <4> QED
        BY <1>2, <2>1, <3>1, <4>1, SettlingKeepsBooks
    <3>2. CASE ~call.made
      BY <1>6, <1>7, <2>1, <3>2
    <3> QED
      BY <3>1, <3>2
  <2> QED
    BY <1>1, <1>7, <1>8, <2>1, <2>2, <2>3
<1>g. CASE EndRun
  <2>1. Running'
    BY <1>g DEF EndRun, Running
  <2> QED
    BY <1>1, <1>6, <1>7, <1>g, <2>1 DEF EndRun, bookVars
<1>h. CASE RunDies
  <2>1. /\ faults' \in 0..MaxFaults /\ pc' = "idle" /\ todo' = {} /\ call' = NoCall
        /\ UNCHANGED bookVars
    BY <1>7, <1>h DEF RunDies
  <2>2. Running'
    BY <2>1 DEF Running
  <2>3. /\ invoices' \in [Owner -> [Cycle -> Seq(Nat)]]
        /\ \A o \in Owner, c \in Cycle : Booked(o, c)'
    <3>1. CASE UNCHANGED invoices
      BY <1>6, <1>7, <2>1, <3>1 DEF bookVars
    <3>2. CASE /\ pc = "calling"
               /\ invoices' =
                    [invoices EXCEPT ![call.owner][since] = Append(@, call.amount)]
      BY <1>2, <2>1, <3>2, InvoiceKeepsBooks DEF bookVars
    <3> QED
      BY <1>h, <3>1, <3>2 DEF RunDies
  <2> QED
    BY <1>7, <1>8, <2>1, <2>2, <2>3 DEF bookVars
<1> QED
  BY <1>a, <1>b, <1>c, <1>d, <1>e, <1>f, <1>g, <1>h DEF BillNext

(* OverageInv holds of every reachable state.                              *)
LEMMA OverageInvariant == Spec => []OverageInv
<1>1. OverageInv /\ [Next]_vars => OverageInv'
  <2> SUFFICES ASSUME OverageInv, [Next]_vars PROVE OverageInv'
    OBVIOUS
  <2>1. CASE Next
    BY <2>1, WorldStep, FreezeStep, RunStep DEF Next
  <2>2. CASE UNCHANGED vars
    <3>1. TypeOK'
      BY <2>2 DEF OverageInv, TypeOK, vars, envVars, bookVars, cronVars
    <3>2. \A o \in Owner, c \in Cycle : Booked(o, c)'
      BY <2>2 DEF OverageInv, Booked, Owed, vars, envVars, bookVars
    <3>3. Running'
      BY <2>2 DEF OverageInv, Running, Owed, Settled, vars, envVars, bookVars, cronVars
    <3> QED
      BY <3>1, <3>2, <3>3 DEF OverageInv
  <2> QED
    BY <2>1, <2>2
<1> QED
  BY <1>1, InitInv, PTL DEF Spec

-----------------------------------------------------------------------------
(* Every reachable state of the billing has the declared types: in         *)
(* particular no overage shown or invoiced is ever negative.               *)
THEOREM OverageTypeCorrect == Spec => []TypeOK
<1>1. OverageInv => TypeOK
  BY DEF OverageInv
<1> QED
  BY <1>1, OverageInvariant, PTL

(* What the cron invoices is for a closed month, and is what the tier      *)
(* frozen for that month makes of its final count (run_overage_billing).   *)
THEOREM InvoicesAreAlwaysOwed == Spec => []InvoicesAreOwed
<1>1. OverageInv => InvoicesAreOwed
  <2> SUFFICES ASSUME OverageInv, NEW o \in Owner, NEW c \in Cycle,
                      invoices[o][c] # <<>>
               PROVE  c < cycle /\ Amounts(o, c) = {Owed(o, c)}
    BY DEF InvoicesAreOwed
  <2>1. Booked(o, c) /\ invoices[o][c] \in Seq(Nat)
    BY DEF OverageInv, TypeOK
  <2>2. Len(invoices[o][c]) \in Nat /\ Len(invoices[o][c]) > 0
    BY <2>1, EmptySeq
  <2>3. 1 \in 1..Len(invoices[o][c])
    BY <2>2
  <2> QED
    BY <2>1, <2>3 DEF Booked, Amounts
<1> QED
  BY <1>1, OverageInvariant, PTL

(* A month enters the ledger only after its invoice exists or when it owes *)
(* nothing: overage is never written off by a failed call.                 *)
THEOREM SettledIsAlwaysInvoiced == Spec => []SettledIsInvoiced
<1>1. OverageInv => SettledIsInvoiced
  <2> SUFFICES ASSUME OverageInv, NEW o \in Owner, NEW c \in Cycle,
                      <<o, c>> \in ledger, Owed(o, c) > 0
               PROVE  Len(invoices[o][c]) > 0
    BY DEF SettledIsInvoiced
  <2>1. Booked(o, c) /\ invoices[o][c] \in Seq(Nat)
    BY DEF OverageInv, TypeOK
  <2> QED
    BY <2>1, EmptySeq DEF Booked
<1> QED
  BY <1>1, OverageInvariant, PTL

(* No run of the cron, first or hundredth, before or after a crash, sends  *)
(* an invoice for a month that is in the ledger.                           *)
THEOREM SettledStaysQuiet == Spec => NoInvoiceAfterSettled
<1>1. OverageInv /\ [Next]_vars =>
        [\A o \in Owner, c \in Cycle :
            <<o, c>> \in ledger => invoices'[o][c] = invoices[o][c]]_vars
  <2> SUFFICES ASSUME OverageInv, [Next]_vars, NEW o \in Owner, NEW c \in Cycle,
                      <<o, c>> \in ledger
               PROVE  invoices'[o][c] = invoices[o][c]
    OBVIOUS
  <2>1. CASE UNCHANGED invoices
    BY <2>1
  <2>2. CASE /\ pc = "calling"
             /\ invoices' =
                  [invoices EXCEPT ![call.owner][since] = Append(@, call.amount)]
    <3>1. <<call.owner, since>> \notin ledger
      BY <2>2 DEF OverageInv, Running, Settled
    <3>2. /\ invoices \in [Owner -> [Cycle -> Seq(Nat)]]
          /\ call.owner \in Owner /\ since \in Cycle
      BY <2>2 DEF OverageInv, TypeOK, Running
    <3> QED
      BY <2>2, <3>1, <3>2
  <2> QED
    BY <2>1, <2>2 DEF Next, Parse, ManualCharge, Subscribe, NextCycle, StartRun,
       FreezeFirst, BillNext, SkipSettled, SettleZero, CallPaystack,
       PaystackCreates, PaystackRefuses, ReadAnswer, EndRun, RunDies,
       CrashWhileFreezing, vars
<1> QED
  BY <1>1, OverageInvariant, PTL DEF Spec, NoInvoiceAfterSettled

(* INSERT OR IGNORE: the first tier observed in a month stays, through     *)
(* plan changes, repeated runs and crashes.                                *)
THEOREM SnapshotsStayFrozen == Spec => SnapshotIsFrozen
<1>1. OverageInv /\ [Next]_vars =>
        [\A o \in Owner, c \in Cycle :
            snapshot[o][c] # NoTier => snapshot'[o][c] = snapshot[o][c]]_vars
  <2> SUFFICES ASSUME OverageInv, [Next]_vars, NEW o \in Owner, NEW c \in Cycle,
                      snapshot[o][c] # NoTier
               PROVE  snapshot'[o][c] = snapshot[o][c]
    OBVIOUS
  <2>1. CASE UNCHANGED snapshot
    BY <2>1
  <2>2. CASE \E S \in SUBSET Billable : Freeze(S)
    BY <2>2, FreezeWrites DEF OverageInv
  <2> QED
    BY <2>1, <2>2 DEF Next, Parse, ManualCharge, Subscribe, NextCycle, StartRun,
       FreezeFirst, BillNext, SkipSettled, SettleZero, CallPaystack,
       PaystackCreates, PaystackRefuses, ReadAnswer, EndRun, RunDies,
       CrashWhileFreezing, vars, bookVars
<1> QED
  BY <1>1, OverageInvariant, PTL DEF Spec, SnapshotIsFrozen

-----------------------------------------------------------------------------
(* The invoice that settles a month, or is about to; every other one cost  *)
(* a run.                                                                  *)
Settles(o, c) ==
    \/ <<o, c>> \in ledger
    \/ pc = "answered" /\ call.made /\ call.owner = o /\ since = c

ExtrasCostRuns ==
    \A o \in Owner, c \in Cycle :
        Len(invoices[o][c]) <= faults + (IF Settles(o, c) THEN 1 ELSE 0)

(* An invoice is created: for a month that nothing settles yet.            *)
LEMMA InvoiceCounted ==
  ASSUME OverageInv, ExtrasCostRuns, pc = "calling", NEW o \in Owner, NEW c \in Cycle,
         invoices' = [invoices EXCEPT ![call.owner][since] = Append(@, call.amount)]
  PROVE  /\ Len(invoices'[o][c]) \in Nat
         /\ call.owner = o /\ since = c => Len(invoices'[o][c]) <= faults + 1
         /\ ~(call.owner = o /\ since = c) => invoices'[o][c] = invoices[o][c]
<1>1. /\ call.owner \in Owner /\ since \in Cycle /\ invoices[o][c] \in Seq(Nat)
      /\ invoices \in [Owner -> [Cycle -> Seq(Nat)]] /\ call.amount \in Nat /\ faults \in Nat
  BY OverageAssumption DEF OverageInv, TypeOK, Running
<1>2. CASE call.owner = o /\ since = c
  <2>1. ~Settles(o, c)
    BY <1>2 DEF OverageInv, Running, Settled, Settles
  <2>2. Len(invoices[o][c]) <= faults
    BY <1>1, <2>1 DEF ExtrasCostRuns
  <2>3. invoices'[o][c] = Append(invoices[o][c], call.amount)
    BY <1>1, <1>2
  <2>4. Len(invoices'[o][c]) = Len(invoices[o][c]) + 1 /\ Len(invoices[o][c]) \in Nat
    <3> DEFINE old == invoices[o][c]  n == call.amount
    <3>1. old \in Seq(Nat) /\ n \in Nat
      BY <1>1
    <3> HIDE DEF old, n
    <3>2. Len(Append(old, n)) = Len(old) + 1 /\ Len(old) \in Nat
      BY <3>1, AppendProperties, LenProperties
    <3> QED
      BY <2>3, <3>2 DEF old, n
  <2> QED
    BY <1>1, <1>2, <2>2, <2>4
<1>3. CASE ~(call.owner = o /\ since = c)
  <2>1. invoices'[o][c] = invoices[o][c]
    BY <1>1, <1>3
  <2> QED
    BY <1>1, <1>3, <2>1, LenProperties
<1> QED
  BY <1>2, <1>3

(* Of a month's invoices the ledger accounts for one; each of the others   *)
(* was created for a run that died before it could write the ledger.       *)
THEOREM DuplicatesAreFaults == Spec => []DuplicatesNeedFaults
<1>1. Init => ExtrasCostRuns
  BY EmptySeq DEF Init, ExtrasCostRuns, Settles
<1>2. ASSUME OverageInv, ExtrasCostRuns, [Next]_vars
      PROVE  ExtrasCostRuns'
  <2> SUFFICES ASSUME NEW o \in Owner, NEW c \in Cycle
               PROVE  Len(invoices'[o][c]) <= faults' + (IF Settles(o, c)' THEN 1 ELSE 0)
    BY DEF ExtrasCostRuns
  <2>1. /\ Len(invoices[o][c]) \in Nat /\ faults \in Nat /\ since \in Cycle
        /\ Len(invoices[o][c]) <= faults + (IF Settles(o, c) THEN 1 ELSE 0)
    BY <1>2, OverageAssumption, LenProperties DEF OverageInv, TypeOK, ExtrasCostRuns
  <2>2. CASE PaystackCreates
    <3>1. /\ Len(invoices'[o][c]) \in Nat /\ faults' = faults
          /\ call.owner = o /\ since = c => Len(invoices'[o][c]) <= faults + 1
          /\ ~(call.owner = o /\ since = c) => invoices'[o][c] = invoices[o][c]
      BY <1>2, <2>2, InvoiceCounted DEF PaystackCreates
    <3>2. CASE call.owner = o /\ since = c
      <4>1. call \in [owner : Owner \cup {NoTier}, amount : Nat, made : BOOLEAN]
        BY <1>2 DEF OverageInv, TypeOK
      <4>2. Settles(o, c)'
        BY <2>2, <3>2, <4>1 DEF PaystackCreates, Settles
      <4> QED
        BY <3>1, <3>2, <4>2
    <3>3. CASE ~(call.owner = o /\ since = c)
      <4>1. Settles(o, c) => Settles(o, c)'
        BY <2>2 DEF PaystackCreates, Settles, bookVars
      <4> QED
        BY <2>1, <3>1, <3>3, <4>1
    <3> QED
      BY <3>2, <3>3
  <2>3. CASE RunDies
    <3>1. faults' = faults + 1
      BY <2>3 DEF RunDies
    <3>2. CASE invoices' = invoices
      BY <2>1, <3>1, <3>2
    <3>3. CASE /\ pc = "calling"
               /\ invoices' = [invoices EXCEPT ![call.owner][since] = Append(@, call.amount)]
      <4>1. /\ Len(invoices'[o][c]) \in Nat
            /\ call.owner = o /\ since = c => Len(invoices'[o][c]) <= faults + 1
            /\ ~(call.owner = o /\ since = c) => invoices'[o][c] = invoices[o][c]
        BY <1>2, <3>3, InvoiceCounted
      <4> QED
        BY <2>1, <3>1, <4>1
    <3> QED
      BY <2>3, <3>2, <3>3 DEF RunDies
  <2>4. CASE UNCHANGED <<invoices, faults>> /\ (Settles(o, c) => Settles(o, c)')
    BY <2>1, <2>4
  <2>5. CASE ReadAnswer
    BY <2>4, <2>5 DEF ReadAnswer, Settles
  <2>6. CASE UNCHANGED <<invoices, faults>> /\ ledger \subseteq ledger' /\ pc # "answered"
    BY <2>4, <2>6 DEF Settles
  <2>7. CASE UNCHANGED <<invoices, faults, ledger, cronVars>>
    BY <2>4, <2>7 DEF Settles, cronVars
  <2>8. CASE CrashWhileFreezing
    <3>1. faults' = faults + 1 /\ invoices' = invoices
      BY <2>8 DEF CrashWhileFreezing
    <3> QED
      BY <2>1, <3>1
  <2> QED
    BY <1>2, <2>2, <2>3, <2>5, <2>6, <2>7, <2>8
       DEF Next, Parse, ManualCharge, Subscribe, NextCycle, StartRun,
       FreezeFirst, BillNext, SkipSettled, SettleZero, CallPaystack,
       PaystackRefuses, EndRun, vars, bookVars, envVars, cronVars
<1>3. OverageInv /\ ExtrasCostRuns => DuplicatesNeedFaults
  <2> SUFFICES ASSUME OverageInv, ExtrasCostRuns, NEW o \in Owner, NEW c \in Cycle
               PROVE  Len(invoices[o][c]) <= 1 + faults
    BY DEF DuplicatesNeedFaults
  <2>1. Len(invoices[o][c]) \in Nat /\ faults \in Nat
    BY OverageAssumption, LenProperties DEF OverageInv, TypeOK
  <2> QED
    BY <2>1 DEF ExtrasCostRuns
<1> QED
  BY <1>1, <1>2, <1>3, OverageInvariant, PTL DEF Spec

-----------------------------------------------------------------------------
(* Every month of every owner has what it owes.                            *)
Due == [o \in Owner |-> [c \in Cycle |-> Owed(o, c)]]

LEMMA DueType == (TypeOK => Due \in [Owner -> [Cycle -> Nat]])'
<1>1. TypeOK => Due \in [Owner -> [Cycle -> Nat]]
  BY OwedType DEF Due
<1> QED
  BY <1>1, PTL

(* What a month owes stands unless its count or its frozen tier changes,   *)
(* which happens to the current month only.                                *)
LEMMA DueStands ==
  ASSUME UNCHANGED <<parses, snapshot>>
  PROVE  Due' = Due
BY DEF Due, Owed

LEMMA AccruesNow ==
  ASSUME TypeOK', UNCHANGED <<cycle, ledger, invoices>>,
         \A o \in Owner, c \in Cycle :
            c # cycle => parses'[o][c] = parses[o][c] /\ snapshot'[o][c] = snapshot[o][c]
  PROVE  Books!Accrue
<1>1. Due' \in [Owner -> [Cycle -> Nat]]
  BY DueType
<1>2. \A o \in Owner, c \in Cycle \ {cycle} : Due'[o][c] = Due[o][c]
  <2>1. \A o \in Owner, c \in Cycle \ {cycle} : Owed(o, c)' = Owed(o, c)
    BY DEF Owed
  <2> QED
    BY <2>1 DEF Due
<1> QED
  BY <1>1, <1>2 DEF Books!Accrue, Due

(* The run's invoice is one the month owes.                                *)
LEMMA InvoicesWhatIsDue ==
  ASSUME OverageInv, pc = "calling",
         invoices' = [invoices EXCEPT ![call.owner][since] = Append(@, call.amount)],
         UNCHANGED <<cycle, parses, snapshot, ledger>>
  PROVE  \E o \in Owner, c \in Cycle : Books!Invoice(o, c)
<1>1. /\ call.owner \in Owner /\ since \in Cycle /\ since < cycle
      /\ call.amount = Due[call.owner][since] /\ call.amount > 0
      /\ <<call.owner, since>> \notin ledger
  BY DEF OverageInv, TypeOK, Running, Settled, Due
<1>2. Books!Invoice(call.owner, since)
  BY <1>1, DueStands DEF Books!Invoice, Due
<1> QED
  BY <1>1, <1>2

(* A month is settled when it is closed, and free or invoiced.             *)
LEMMA SettlesWhatIsDone ==
  ASSUME OverageInv, since < cycle, NEW p \in Owner,
         Owed(p, since) = 0 \/ invoices[p][since] # <<>>,
         ledger' = ledger \cup {<<p, since>>},
         UNCHANGED <<cycle, parses, snapshot, invoices>>
  PROVE  \E o \in Owner, c \in Cycle : Books!Settle(o, c)
<1>1. since \in Cycle /\ Due[p][since] = Owed(p, since)
  BY DEF OverageInv, TypeOK, Due
<1>2. Books!Settle(p, since)
  BY <1>1, DueStands DEF Books!Settle, Due
<1> QED
  BY <1>1, <1>2

(* The cron, its ledger and whatever goes on around them keep the books    *)
(* of Settlement, for any owners, plans, months and faults: each step of   *)
(* theirs is one of Settlement or does not touch the books.                *)
THEOREM OverageKeepsTheBooks == Spec => KeepsSettlement
<1>1. Init => Books!Init
  <2> SUFFICES ASSUME Init PROVE Books!Init
    OBVIOUS
  <2>1. \A o \in Owner, c \in Cycle : Owed(o, c) = 0
    BY DEF Init, Owed
  <2> QED
    BY <2>1 DEF Init, Books!Init
<1>2. ASSUME OverageInv, OverageInv', [Next]_vars
      PROVE  [Books!Next]_(Books!settlementVars)
  <2>0. /\ TypeOK /\ TypeOK' /\ cycle \in Cycle
        /\ pc # "idle" => since \in Cycle /\ since < cycle
    BY <1>2 DEF OverageInv, TypeOK, Running
  <2>1. ASSUME UNCHANGED <<cycle, parses, snapshot, ledger, invoices>>
        PROVE  [Books!Next]_(Books!settlementVars)
    <3>1. Due' = Due
      BY <2>1, DueStands
    <3> QED
      BY <2>1, <3>1 DEF Due, Books!settlementVars
  <2>2. ASSUME NEW o \in Owner, Parse(o)
        PROVE  Books!Accrue
    <3>1. \A p \in Owner, c \in Cycle : c # cycle => parses'[p][c] = parses[p][c]
      BY <2>0, <2>2 DEF Parse, TypeOK
    <3> QED
      BY <2>0, <2>2, <3>1, AccruesNow DEF Parse, bookVars
  <2>3. ASSUME StartRun \/ FreezeFirst \/ CrashWhileFreezing
        PROVE  Books!Accrue
    <3>1. PICK S \in SUBSET Billable : Freeze(S)
      BY <2>3 DEF StartRun, FreezeFirst, CrashWhileFreezing
    <3>2. UNCHANGED <<cycle, parses, ledger, invoices>>
      BY <2>3 DEF StartRun, FreezeFirst, CrashWhileFreezing, envVars
    <3> QED
      BY <2>0, <3>1, <3>2, FreezeWrites, AccruesNow
  <2>4. CASE NextCycle
    <3>1. Due' = Due
      BY <2>4, DueStands DEF NextCycle, envVars, bookVars
    <3> QED
      BY <2>4, <3>1 DEF NextCycle, bookVars, Due, Books!Next, Books!Close
  <2>5. CASE PaystackCreates
    BY <1>2, <2>5, InvoicesWhatIsDue DEF PaystackCreates, envVars, bookVars, Books!Next
  <2>6. CASE RunDies
    <3>1. CASE UNCHANGED invoices
      BY <2>1, <2>6, <3>1 DEF RunDies, envVars, bookVars
    <3>2. CASE ~ UNCHANGED invoices
      BY <1>2, <2>6, <3>2, InvoicesWhatIsDue DEF RunDies, envVars, bookVars, Books!Next
    <3> QED
      BY <3>1, <3>2
  <2>7. ASSUME NEW o \in Owner, SettleZero(o)
        PROVE  \E p \in Owner, c \in Cycle : Books!Settle(p, c)
    <3>1. o \in todo /\ snapshot[o][since] # NoTier
      BY <1>2, <2>7 DEF SettleZero, OverageInv, Running
    <3>2. Owed(o, since) = 0
      BY <2>7, <3>1 DEF SettleZero, ClosedOverage, Owed
    <3> QED
      BY <1>2, <2>0, <2>7, <3>2, SettlesWhatIsDone DEF SettleZero, envVars
  <2>8. CASE ReadAnswer
    <3>1. CASE call.made
      <4>1. call.owner \in Owner /\ invoices[call.owner][since] # <<>>
        BY <1>2, <2>8, <3>1 DEF ReadAnswer, OverageInv, Running
      <4> QED
        BY <1>2, <2>0, <2>8, <3>1, <4>1, SettlesWhatIsDone DEF ReadAnswer, envVars, Books!Next
    <3>2. CASE ~call.made
      BY <2>1, <2>8, <3>2 DEF ReadAnswer, envVars
    <3> QED
      BY <3>1, <3>2
  <2>9. CASE \/ \E o \in Owner : ManualCharge(o) \/ SkipSettled(o) \/ CallPaystack(o)
             \/ \E o \in Owner, t \in PlanTiers : Subscribe(o, t)
             \/ PaystackRefuses \/ EndRun \/ UNCHANGED vars
    BY <2>1, <2>9 DEF ManualCharge, SkipSettled, CallPaystack, Subscribe, PaystackRefuses,
       EndRun, vars, envVars, bookVars
  <2> QED
    BY <1>2, <2>2, <2>3, <2>4, <2>5, <2>6, <2>7, <2>8, <2>9 DEF Next, BillNext, Books!Next
<1>3. Spec => [][Books!Next]_(Books!settlementVars)
  BY <1>2, OverageInvariant, PTL DEF Spec
<1> QED
  BY <1>1, <1>3, PTL DEF Spec, KeepsSettlement, Books!Spec

-----------------------------------------------------------------------------
(* "Fire repeatedly and survive restarts without double-billing"           *)
(* (overage_ledger.py:45-46) is true where no run is cut short and nobody  *)
(* charges by hand: these two are all that breaks it.                      *)
THEOREM BilledOnceWithoutFaults ==
  ASSUME MaxFaults = 0, MaxManual = 0
  PROVE  Spec => []NoDoubleBilling
<1>1. TypeOK /\ DuplicatesNeedFaults => NoDoubleBilling
  <2> SUFFICES ASSUME TypeOK, DuplicatesNeedFaults, NEW o \in Owner, NEW c \in Cycle
               PROVE  Len(invoices[o][c]) + manual[o][c] <= 1
    BY DEF NoDoubleBilling
  <2>1. faults = 0 /\ manual[o][c] = 0 /\ Len(invoices[o][c]) \in Nat
    BY LenProperties DEF TypeOK
  <2> QED
    BY <2>1 DEF DuplicatesNeedFaults
<1> QED
  BY <1>1, OverageTypeCorrect, DuplicatesAreFaults, PTL
=============================================================================
