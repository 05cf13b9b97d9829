------------------------------ MODULE Figures ------------------------------
(***************************************************************************)
(* The numbers a customer is shown: what a plan costs, what a cycle came   *)
(* to, the tones, bars and calendar the dashboard makes of it, and the     *)
(* sample statement of the page for lenders.  Pure operators; Dashboard    *)
(* applies them.  An amount is in kobo, a day its date in the month.       *)
(***************************************************************************)
EXTENDS Integers, FiniteSets, Sequences, FiniteSetsExt, SequencesExt

CONSTANT None   \* null: no plan, no peak, nothing read

(* An amount as it is written: its sign, its naira in groups of three      *)
(* digits, its kobo.                                                       *)
Money == [minus : BOOLEAN, naira : Seq(Nat), kobo : 0..99]

(* Math.round of a / b: halves go up.                                      *)
RoundDiv(a, b) == (2 * a + b) \div (2 * b)

(* Python's round: halves go to the even neighbour.                        *)
RoundEven(a, b) ==
    LET q == a \div b
        up == 2 * (a % b) > b \/ (2 * (a % b) = b /\ q % 2 = 1)
    IN  IF up THEN q + 1 ELSE q

(* A share of the whole, in ten-thousandths.                               *)
Whole == 10000
Rate == 0..Whole

(* What the days of a cycle, or its refusals by class, add up to.          *)
Sum(counts) == SumFunction(counts)
-----------------------------------------------------------------------------
(* What is sold: the site's price list and the worker's own table, which   *)
(* bills by it.                                                            *)
Tier == {"starter", "growth", "scale"}
Interval == {"monthly", "annual"}

ASSUME FiguresAssumption == None \notin Tier \cup Nat \cup Money

(* Deviation: the site still quotes a rate the worker no longer has.       *)
PaidTiersDrifted ==
    [starter |-> [monthly |-> 9500,   included |-> 1000,   overage |-> 12],
     growth  |-> [monthly |-> 35000,  included |-> 10000,  overage |-> 12],
     scale   |-> [monthly |-> 150000, included |-> 100000, overage |-> 8]]

PaidTiers ==
    [starter |-> [monthly |-> 9500,   included |-> 1000,   overage |-> 15],
     growth  |-> [monthly |-> 35000,  included |-> 10000,  overage |-> 12],
     scale   |-> [monthly |-> 150000, included |-> 100000, overage |-> 8]]

WorkerTiers ==
    [starter |-> [cap |-> 1000,   kobo |-> 1500],
     growth  |-> [cap |-> 10000,  kobo |-> 1200],
     scale   |-> [cap |-> 100000, kobo |-> 800]]

(* A price on the picker, in naira; annual prepay is fifteen percent off.  *)
Price(t, interval) ==
    IF interval = "annual"
    THEN (PaidTiers[t].monthly * 12 * (100 - 15)) \div 100
    ELSE PaidTiers[t].monthly

(* "-1,050.00".                                                            *)
Groups[n \in Nat] ==
    IF n < 1000 THEN <<n>> ELSE Append(Groups[n \div 1000], n % 1000)

DisplayMoney(kobo) ==
    LET abs == IF kobo < 0 THEN -kobo ELSE kobo
    IN  [minus |-> kobo < 0, naira |-> Groups[abs \div 100], kobo |-> abs % 100]

(* What a reader takes from it.                                            *)
ReadBack(shown) ==
    LET abs == 100 * FoldLeft(LAMBDA n, group : 1000 * n + group, 0, shown.naira) + shown.kobo
    IN  IF shown.minus THEN -abs ELSE abs
-----------------------------------------------------------------------------
(* lib/tone.ts: grey unless the number needs attention.                    *)
SuccessFloor == 9500

(* Deviation: the tile alerts by the parses it shows, free ones included.  *)
UsageToneByParses(parses, cap, overage) ==
    CASE cap = None -> "neutral"
      [] cap # None /\ parses > cap -> "alert"
      [] cap # None /\ parses <= cap /\ 10 * parses >= 8 * cap -> "warn"
      [] OTHER -> "neutral"

UsageTone(parses, cap, overage) ==
    CASE cap = None -> "neutral"
      [] cap # None /\ overage > 0 -> "alert"
      [] cap # None /\ overage = 0 /\ 10 * parses >= 8 * cap -> "warn"
      [] OTHER -> "neutral"

SuccessTone(rate, attempts) ==
    IF attempts > 0 /\ rate < SuccessFloor THEN "alert" ELSE "neutral"

KeysTone(activeKeys) == IF activeKeys = 0 THEN "warn" ELSE "neutral"
OverageTone(overage) == IF overage > 0 THEN "alert" ELSE "neutral"

UsagePercent(parses, cap) ==
    IF cap = None THEN None ELSE Min({100, RoundDiv(100 * parses, cap)})
-----------------------------------------------------------------------------
(* lib/usage-stats.ts: a cycle in four numbers.  The peak is the first of  *)
(* the busiest days, and there is none without a parse.                    *)
Busiest(counts) == Max({counts[i] : i \in DOMAIN counts} \cup {0})

Summary(daily) ==
    [total |-> Sum(daily),
     peak |-> IF Busiest(daily) = 0 THEN None
              ELSE Min({d \in DOMAIN daily : daily[d] = Busiest(daily)}),
     average |-> IF daily = <<>> THEN 0 ELSE RoundDiv(Sum(daily), Len(daily)),
     activeDays |-> Cardinality({d \in DOMAIN daily : daily[d] > 0})]

(* How dark a day is on the calendar: the quarters of the busiest day that *)
(* it exceeds, 0 for an empty day; and the days marked as busiest.         *)
Level(count, peak) == Cardinality({q \in 0..3 : 4 * count > q * peak})

Marked(daily) == {d \in DOMAIN daily : daily[d] > 0 /\ daily[d] = Busiest(daily)}

(* getUTCDay counts from Sunday, the calendar's columns from Monday.       *)
WeekdayIndex(utcDay) == (utcDay + 6) % 7

(* Deviation: the weeks are filled up by the days alone.                   *)
CellsUnpadded(days, firstDay) ==
    [i \in 1..(7 * ((days + 6) \div 7)) |->
        IF i - WeekdayIndex(firstDay) \in 1..days THEN i - WeekdayIndex(firstDay) ELSE None]

(* The grid, row by row: blanks, the days, blanks to the end of the week.  *)
Cells(days, firstDay) ==
    LET lead == WeekdayIndex(firstDay)
    IN  [i \in 1..(7 * ((lead + days + 6) \div 7)) |->
            IF i - lead \in 1..days THEN i - lead ELSE None]

(* A refusal's bar is its share of the most frequent one's, and never too  *)
(* short to be seen.                                                       *)
Bar(count, peak) == IF peak > 0 THEN Max({4, RoundDiv(100 * count, peak)}) ELSE 0
-----------------------------------------------------------------------------
(* The sample statement of the page for lenders, made in the browser: a    *)
(* salary first, then rows drawn from these templates, in whole naira.     *)
Salary == [salary |-> TRUE, credit |-> TRUE, min |-> 120000, max |-> 450000]

TEMPLATES ==
    {[salary |-> FALSE, credit |-> FALSE, min |-> range[1], max |-> range[2]] : range \in
        {<<1500, 45000>>, <<2000, 80000>>, <<500, 5000>>, <<3000, 25000>>, <<2000, 15000>>,
         <<50000, 200000>>}}
    \cup {[salary |-> FALSE, credit |-> TRUE, min |-> 5000, max |-> 60000]}

Drawable(s) ==
    /\ s.rows \in Seq([salary : BOOLEAN, credit : BOOLEAN, naira : Nat])
    /\ Len(s.rows) \in 8..10
    /\ s.opening \in Nat /\ 15000 <= s.opening /\ s.opening <= 120000
    /\ \A i \in DOMAIN s.rows :
         \E t \in IF i = 1 THEN {Salary} ELSE TEMPLATES :
             /\ s.rows[i].salary = t.salary /\ s.rows[i].credit = t.credit
             /\ s.rows[i].naira \in t.min..t.max

(* The parse response it is given as: a row's amount is its debit or its   *)
(* credit, the other is "0", and the balance runs through the rows.        *)
SampleStatement(s) ==
    LET debit(i)  == IF s.rows[i].credit THEN 0 ELSE 100 * s.rows[i].naira
        credit(i) == IF s.rows[i].credit THEN 100 * s.rows[i].naira ELSE 0
        upTo(f(_), n) == Sum([i \in 1..n |-> f(i)])
        balance(n) == 100 * s.opening + upTo(credit, n) - upTo(debit, n)
        all == Len(s.rows)
    IN  [transactions |-> [i \in 1..all |->
            [salary |-> s.rows[i].salary, debit |-> debit(i), credit |-> credit(i),
             balance |-> balance(i)]],
         opening |-> 100 * s.opening, closing |-> balance(all),
         totals |-> [credit |-> upTo(credit, all), debit |-> upTo(debit, all)]]

Clamp(value, lo, hi) == Min({hi, Max({lo, value})})

(* Deviation: a balance that grew counts for more.                         *)
ScoreBreakdownGenerous(data) ==
    LET salary == IF \E i \in DOMAIN data.transactions : data.transactions[i].salary
                  THEN 100 ELSE 0
        net    == Clamp(RoundDiv(data.closing - data.opening, Max({data.opening \div 100, 1})), 0, 200)
        spend  == Clamp(RoundDiv(data.totals.credit - data.totals.debit,
                                 Max({data.totals.credit \div 100, 1})), 0, 100)
    IN  [base |-> 500, salary |-> salary, net |-> net, spend |-> spend,
         total |-> Clamp(500 + salary + net + spend, 300, 850)]

(* computeSampleScoreBreakdown: two ratios in percent, each clamped; kobo  *)
(* by naira is percent, as the statement's amounts are whole naira.        *)
ScoreBreakdown(data) ==
    LET salary == IF \E i \in DOMAIN data.transactions : data.transactions[i].salary
                  THEN 100 ELSE 0
        net    == Clamp(RoundDiv(data.closing - data.opening, Max({data.opening \div 100, 1})), 0, 150)
        spend  == Clamp(RoundDiv(data.totals.credit - data.totals.debit,
                                 Max({data.totals.credit \div 100, 1})), 0, 100)
    IN  [base |-> 500, salary |-> salary, net |-> net, spend |-> spend,
         total |-> Clamp(500 + salary + net + spend, 300, 850)]
-----------------------------------------------------------------------------
(* A statement as a table, and as cards on a phone.  The zero of a row's   *)
(* two amounts is a dot in the table; a card has the one amount, signed.   *)
PREVIEW_ROWS == 10

Preview(data, expanded) ==
    IF expanded THEN data.transactions
    ELSE SubSeq(data.transactions, 1, Min({PREVIEW_ROWS, Len(data.transactions)}))

Amount(kobo) == IF kobo = 0 THEN None ELSE DisplayMoney(kobo)

MobileRow(t) ==
    [isCredit |-> t.credit # 0,
     amount |-> DisplayMoney(IF t.credit # 0 THEN t.credit ELSE t.debit),
     balance |-> DisplayMoney(t.balance)]

TransactionTable(data, expanded) ==
    LET shown == Preview(data, expanded)
    IN  [rows |-> [i \in DOMAIN shown |->
            [debit |-> Amount(shown[i].debit), credit |-> Amount(shown[i].credit),
             balance |-> DisplayMoney(shown[i].balance)]],
         cards |-> [i \in DOMAIN shown |-> MobileRow(shown[i])],
         hasMore |-> Len(data.transactions) > PREVIEW_ROWS,
         credit |-> DisplayMoney(data.totals.credit), debit |-> DisplayMoney(data.totals.debit)]
=============================================================================
