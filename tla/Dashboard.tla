----------------------------- MODULE Dashboard -----------------------------
(***************************************************************************)
(* The overview, usage and billing pages of the dashboard in the tabs of   *)
(* one signed-in owner, and the records of the worker they are drawn from. *)
(* A page asks the worker for what it needs, each read on its own: parses, *)
(* refusals, keys, plan and month may change between two of its reads, and *)
(* any read may fail.  What a page shows is a function of what its reads   *)
(* brought; null is "could not ask", which is not "none".  The page for    *)
(* lenders asks nobody: its statement is made up in the tab.               *)
(***************************************************************************)
EXTENDS Figures

CONSTANTS
    Tab,         \* tabs of the owner's browser
    Batch,       \* how many parses, or refusals, may come between two reads
    Class,       \* error classes a refusal is recorded under
    FirstDay,    \* UTC weekdays the first month may begin on
    Account,     \* what an owner may come with: his keys, and his plan's row
    Sample,      \* statements the page for lenders may make up
    Threshold,   \* approval thresholds its visitor may type
    MaxKeys,     \* bound: keys issued
    MaxSteps     \* bound: what the worker records, and the pages loaded

(* What crosses the wire.                                                  *)
KeyInfo == {"test", "live", "revoked"}
OwnerUsage ==
    [tier : Tier \cup {None}, parses : Nat, rate : Rate, cap : Nat \cup {None},
     overage : Nat, projected : Nat, daily : Seq(Nat), firstDay : 0..6, refused : [Class -> Nat]]
SubscriptionStatus == [status : {"none", "active", "inactive"}, tier : Tier \cup {None}]

ASSUME DashboardAssumption ==
    /\ Batch \subseteq Nat /\ MaxKeys \in Nat /\ MaxSteps \in Nat
    /\ FirstDay \subseteq 0..6
    /\ IsFiniteSet(Class) /\ None # "create"
    /\ \A a \in Account : a.keys \in Seq(KeyInfo) /\ a.sub \in SubscriptionStatus
    /\ \A s \in Sample : Drawable(s)
    /\ Threshold \subseteq Int

VARIABLES
    firstDay,  \* the worker: the weekday the month began on,
    daily,     \*   the owner's successful parses on each of its days,
    live,      \*   how many of them with a live key,
    refused,   \*   his refusals by class,
    keys,      \*   his keys, newest first: "test", "live" or "revoked",
    sub,       \*   his row among the subscriptions
    steps,     \* how much of the bound is used
    page,      \* what each tab shows, or is loading
    pending,   \* the reads its page still waits for
    got,       \* what they brought
    busy,      \* BillingClient: the plan whose checkout is being started
    error,     \*   and that one could not be
    interval,  \*   the interval the picker is on
    panel,     \* SampleStatementPanel: its statement and its threshold
    had,       \* what the owner had at every moment since the page began to load
    owed       \*   and the overages that stood at one of them

recordVars == <<firstDay, daily, live, refused, keys, sub, steps>>
localVars == <<busy, error, interval, panel>>
historyVars == <<had, owed>>
vars == <<recordVars, page, pending, got, localVars, historyVars>>

NoRow == [status |-> "none", tier |-> None]
Nothing == [usage |-> None, keys |-> None, status |-> None]
Refused == Sum(refused)
-----------------------------------------------------------------------------
(* The worker's answers.  The graph counts every parse; the overage counts *)
(* live ones only, by the tier of the row, whatever its status.            *)
OverageFor(parses, cap) == Max({0, parses - cap})

WorkerUsage ==
    LET ok   == Sum(daily)
        plan == sub.tier
        cap  == IF plan = None THEN None ELSE WorkerTiers[plan].cap
        over == IF plan = None THEN 0 ELSE OverageFor(live, cap)
    IN  [tier |-> plan, parses |-> ok,
         rate |-> IF ok + Refused = 0 THEN 0 ELSE RoundEven(Whole * ok, ok + Refused),
         cap |-> cap, overage |-> over,
         projected |-> IF plan = None THEN 0 ELSE over * WorkerTiers[plan].kobo,
         daily |-> daily, firstDay |-> firstDay, refused |-> refused]

Answer(r) ==
    CASE r = "usage"  -> WorkerUsage
      [] r = "keys"   -> keys
      [] r = "status" -> sub
-----------------------------------------------------------------------------
(* What the pages make of a usage report u and the keys ks.                *)
TotalRefused(u) == Sum(u.refused)
Attempts(u) == u.parses + TotalRefused(u)
ActiveKeys(ks) == Cardinality({i \in DOMAIN ks : ks[i] # "revoked"})
Onboarded(u, ks) == u.parses > 0 /\ \E i \in DOMAIN ks : ks[i] = "live"

Tones(u) ==
    [usage |-> UsageTone(u.parses, u.cap, u.overage),
     success |-> SuccessTone(u.rate, Attempts(u)),
     overage |-> OverageTone(u.overage)]

(* The overview: its tiles, what it says in words, and what it says the    *)
(* owner has none of.                                                      *)
Overview(u, ks) ==
    [tones |-> [usage |-> Tones(u).usage, success |-> Tones(u).success,
                keys |-> KeysTone(ActiveKeys(ks))],
     meter |-> UsagePercent(u.parses, u.cap),
     projected |-> IF u.overage > 0 THEN DisplayMoney(u.projected) ELSE None,
     words |-> {w \in {"close", "over", "below", "no active key"} :
        CASE w = "close" -> u.cap # None /\ Tones(u).usage = "warn"
          [] w = "over"  -> u.overage > 0
          [] w = "below" -> Tones(u).success = "alert"
          [] OTHER       -> ActiveKeys(ks) = 0},
     none |-> {x \in {"plan", "attempt", "active key"} :
        CASE x = "plan"    -> UsagePercent(u.parses, u.cap) = None
          [] x = "attempt" -> Attempts(u) = 0
          [] OTHER         -> ActiveKeys(ks) = 0}]

(* Below them: the cycle as a calendar and in numbers, the first steps of  *)
(* who has not gone live, and the three newest keys.                       *)
UsageCalendar(u) ==
    [cells |-> Cells(Len(u.daily), u.firstDay),
     shade |-> [d \in DOMAIN u.daily |->
        IF d \in Marked(u.daily) THEN "accent" ELSE Level(u.daily[d], Busiest(u.daily))]]

CycleCard(u) ==
    [calendar |-> UsageCalendar(u), stats |-> Summary(u.daily),
     none |-> IF Summary(u.daily).total = 0 THEN {"parse"} ELSE {}]

GetStarted(u, ks) ==
    IF Onboarded(u, ks) THEN None ELSE IF ks = <<>> THEN "create" ELSE "manage"

RecentKeys(ks) ==
    LET recent == SubSeq(ks, 1, Min({3, Len(ks)}))
    IN  [rows |-> recent, none |-> IF recent = <<>> THEN {"key"} ELSE {}]

(* The chart's table and bars are the days with the busiest marked, the    *)
(* refusals a bar each.                                                    *)
UsageChart(u) == [bars |-> u.daily, marked |-> Marked(u.daily)]

Refusals(u) ==
    [total |-> TotalRefused(u),
     bars |-> [c \in {k \in Class : u.refused[k] > 0} |->
                 Bar(u.refused[c], Max({u.refused[k] : k \in Class}))]]

UsagePage(u) ==
    [tones |-> Tones(u),
     meter |-> UsagePercent(u.parses, u.cap),
     projected |-> IF u.cap = None THEN None ELSE DisplayMoney(u.projected),
     chart |-> UsageChart(u), stats |-> Summary(u.daily), refusals |-> Refusals(u),
     words |-> {w \in {"close", "over", "below"} :
        CASE w = "close" -> u.cap # None /\ Tones(u).usage = "warn"
          [] w = "over"  -> u.cap # None
          [] OTHER       -> Tones(u).success = "alert"},
     none |-> {x \in {"plan", "attempt", "parse", "refusal"} :
        CASE x = "plan"    -> u.cap = None
          [] x = "attempt" -> Attempts(u) = 0
          [] x = "parse"   -> Summary(u.daily).total = 0
          [] OTHER         -> TotalRefused(u) = 0}]

(* Billing: the plan, or the picker with its prices.                       *)
CurrentPlan(s) == IF s.status = "active" THEN s.tier ELSE None

BillingPage(s) ==
    [plan |-> CurrentPlan(s),
     none |-> IF s.status = "active" THEN {} ELSE {"active plan"}]

Quote(t) ==
    [price |-> Price(t, "monthly"), included |-> PaidTiers[t].included,
     overage |-> PaidTiers[t].overage]
(* For lenders: the sample as a table, and what a lender's rule would make *)
(* of it.                                                                  *)
SampleScoreCard(data, threshold) ==
    [score |-> ScoreBreakdown(data),
     verdict |-> IF ScoreBreakdown(data).total >= threshold THEN "approved" ELSE "declined"]

SampleStatementPanel(p) ==
    LET data == SampleStatement(p.sample)
    IN  [table |-> TransactionTable(data, FALSE), card |-> SampleScoreCard(data, p.threshold)]
-----------------------------------------------------------------------------
(* The states of a page: it waits for its reads, or one of them brought    *)
(* null and it says it is unavailable, or it is drawn.                     *)
Needs(p) ==
    CASE p = "overview" -> {"usage", "keys"}
      [] p = "usage"    -> {"usage"}
      [] p = "billing"  -> {"status"}
      [] OTHER          -> {}

Unavailable(t) == \E r \in Needs(page[t]) : got[t][r] = None
Drawn(t, p) == page[t] = p /\ pending[t] = {} /\ ~Unavailable(t)

Init ==
    /\ firstDay \in FirstDay /\ daily = <<0>> /\ live = 0
    /\ refused = [c \in Class |-> 0]
    /\ \E a \in Account : keys = a.keys /\ sub = a.sub
    /\ steps = 0
    /\ page = [t \in Tab |-> "closed"]
    /\ pending = [t \in Tab |-> {}] /\ got = [t \in Tab |-> Nothing]
    /\ busy = [t \in Tab |-> None] /\ error = [t \in Tab |-> FALSE]
    /\ interval = [t \in Tab |-> "monthly"] /\ panel = [t \in Tab |-> None]
    /\ had = [t \in Tab |-> {}] /\ owed = [t \in Tab |-> {}]

(* What the owner has.  A row of an ended subscription is still a plan to  *)
(* the usage report.                                                       *)
Has ==
    {x \in {"plan", "active plan", "attempt", "parse", "refusal", "active key", "key"} :
        CASE x = "plan"        -> sub.tier # None
          [] x = "active plan" -> sub.status = "active"
          [] x = "attempt"     -> Sum(daily) + Refused > 0
          [] x = "parse"       -> Sum(daily) > 0
          [] x = "refusal"     -> Refused > 0
          [] x = "active key"  -> ActiveKeys(keys) > 0
          [] OTHER             -> keys # <<>>}

(* The parses with a live key beyond what the price list includes.         *)
Beyond == IF sub.tier = None THEN 0 ELSE Max({0, live - Quote(sub.tier).included})

(* Every step of the worker's takes from what a loading page's owner had,  *)
(* and adds to the overages it may name.                                   *)
Recorded ==
    /\ steps < MaxSteps /\ steps' = steps + 1
    /\ had' = [t \in Tab |-> IF pending[t] = {} THEN had[t] ELSE had[t] \cap Has']
    /\ owed' = [t \in Tab |-> IF pending[t] = {} THEN owed[t] ELSE owed[t] \cup {Beyond'}]
    /\ UNCHANGED <<page, pending, got, localVars>>
-----------------------------------------------------------------------------
(* The worker's records change: parses with a live key or a free one,      *)
(* refusals, keys, the month, and Paystack's events.                       *)
Parse ==
    /\ \E n \in Batch, kind \in {"live", "test"} :
         /\ \E i \in DOMAIN keys : keys[i] = kind
         /\ kind = "live" => sub.status = "active"
         /\ daily' = [daily EXCEPT ![Len(daily)] = @ + n]
         /\ live' = IF kind = "live" THEN live + n ELSE live
    /\ UNCHANGED <<firstDay, refused, keys, sub>> /\ Recorded

Refuse ==
    /\ \E i \in DOMAIN keys : keys[i] # "revoked"
    /\ \E n \in Batch, c \in Class : refused' = [refused EXCEPT ![c] = @ + n]
    /\ UNCHANGED <<firstDay, daily, live, keys, sub>> /\ Recorded

IssueKey ==
    /\ Len(keys) < MaxKeys
    /\ \E kind \in {"live", "test"} :
         /\ kind = "test" => \A i \in DOMAIN keys : keys[i] # "test"
         /\ keys' = <<kind>> \o keys
    /\ UNCHANGED <<firstDay, daily, live, refused, sub>> /\ Recorded

RevokeKey ==
    /\ \E i \in DOMAIN keys : keys[i] # "revoked" /\ keys' = [keys EXCEPT ![i] = "revoked"]
    /\ UNCHANGED <<firstDay, daily, live, refused, sub>> /\ Recorded

NextDay ==
    /\ \/ daily' = Append(daily, 0) /\ UNCHANGED <<firstDay, live, refused>>
       \/ /\ daily' = <<0>> /\ live' = 0 /\ refused' = [c \in Class |-> 0]
          /\ firstDay' = (firstDay + Len(daily)) % 7
    /\ UNCHANGED <<keys, sub>> /\ Recorded

SubscriptionEvent ==
    /\ \/ \E t \in Tier : sub' = [status |-> "active", tier |-> t]
       \/ sub.status = "active" /\ sub' = [sub EXCEPT !.status = "inactive"]
    /\ UNCHANGED <<firstDay, daily, live, refused, keys>> /\ Recorded
-----------------------------------------------------------------------------
(* A link or a reload: the page is asked of the server, which asks the     *)
(* worker.  A page that is left drops its state; the panel comes with a    *)
(* first statement.                                                        *)
Visit(t, p) ==
    /\ page' = [page EXCEPT ![t] = p]
    /\ pending' = [pending EXCEPT ![t] = Needs(p)]
    /\ got' = [got EXCEPT ![t] = Nothing]
    /\ busy' = [busy EXCEPT ![t] = None] /\ error' = [error EXCEPT ![t] = FALSE]
    /\ interval' = [interval EXCEPT ![t] = "monthly"]
    /\ \E first \in IF p = "lenders" THEN [sample : Sample, threshold : {650}] ELSE {None} :
         panel' = [panel EXCEPT ![t] = first]
    /\ had' = [had EXCEPT ![t] = Has] /\ owed' = [owed EXCEPT ![t] = {Beyond}]
    /\ steps < MaxSteps /\ steps' = steps + 1
    /\ UNCHANGED <<firstDay, daily, live, refused, keys, sub>>

Load(t, p) == pending[t] = {} /\ Visit(t, p)

(* Deviation: a read that failed is an empty answer.                       *)
ReadEmptyOnFailure(t, r) ==
    /\ r \in pending[t]
    /\ pending' = [pending EXCEPT ![t] = @ \ {r}]
    /\ \E answer \in {Answer(r), CASE r = "usage" -> [WorkerUsage EXCEPT !.parses = 0, !.rate = 0]
                                   [] r = "keys" -> <<>> [] OTHER -> NoRow} :
         got' = [got EXCEPT ![t][r] = answer]
    /\ UNCHANGED <<recordVars, page, localVars, historyVars>>

(* ownerFetch: what the worker answered, or null when there is no session, *)
(* the call failed or took four seconds, or its answer was an error.       *)
Read(t, r) ==
    /\ r \in pending[t]
    /\ pending' = [pending EXCEPT ![t] = @ \ {r}]
    /\ \E answer \in {Answer(r), None} : got' = [got EXCEPT ![t][r] = answer]
    /\ UNCHANGED <<recordVars, page, localVars, historyVars>>
-----------------------------------------------------------------------------
(* The picker.  Its options are a radio group; a plan's button starts a    *)
(* checkout, for which the page is left when Paystack has opened one.      *)
Picker(t) == Drawn(t, "billing") /\ BillingPage(got[t].status).plan = None

Choose(t) ==
    /\ Picker(t)
    /\ \E i \in Interval : interval' = [interval EXCEPT ![t] = i]
    /\ UNCHANGED <<recordVars, page, pending, got, busy, error, panel, historyVars>>

Subscribe(t) ==
    /\ Picker(t) /\ busy[t] = None
    /\ \E plan \in Tier : busy' = [busy EXCEPT ![t] = plan]
    /\ error' = [error EXCEPT ![t] = FALSE]
    /\ UNCHANGED <<recordVars, page, pending, got, interval, panel, historyVars>>

InitRefused(t) ==
    /\ Picker(t) /\ busy[t] # None
    /\ busy' = [busy EXCEPT ![t] = None] /\ error' = [error EXCEPT ![t] = TRUE]
    /\ UNCHANGED <<recordVars, page, pending, got, interval, panel, historyVars>>

InitAccepted(t) == Picker(t) /\ busy[t] # None /\ Visit(t, "checkout")

-----------------------------------------------------------------------------
(* The panel: another statement under the same threshold, and a threshold. *)
NewSample(t) ==
    /\ panel[t] # None
    /\ \E s \in Sample : panel' = [panel EXCEPT ![t].sample = s]
    /\ UNCHANGED <<recordVars, page, pending, got, busy, error, interval, historyVars>>

ThresholdChange(t) ==
    /\ panel[t] # None
    /\ \E n \in Threshold : panel' = [panel EXCEPT ![t].threshold = n]
    /\ UNCHANGED <<recordVars, page, pending, got, busy, error, interval, historyVars>>

Next ==
    \/ Parse \/ Refuse \/ IssueKey \/ RevokeKey \/ NextDay \/ SubscriptionEvent
    \/ \E t \in Tab :
         \/ \E p \in {"overview", "usage", "billing", "lenders"} : Load(t, p)
         \/ \E r \in {"usage", "keys", "status"} : Read(t, r)
         \/ Choose(t) \/ Subscribe(t) \/ InitRefused(t) \/ InitAccepted(t)
         \/ NewSample(t) \/ ThresholdChange(t)

Spec == Init /\ [][Next]_vars
-----------------------------------------------------------------------------
(* "null means could not ask, and it is not the same as none": no page     *)
(* tells an owner he has no plan, key, parse, attempt or refusal when he   *)
(* had one all the time the page was loading, whichever read failed.       *)
NeverToldNone ==
    \A t \in Tab :
        /\ Drawn(t, "overview") =>
             LET u == got[t].usage
                 ks == got[t].keys
             IN  (Overview(u, ks).none \cup CycleCard(u).none \cup RecentKeys(ks).none
                    \cup IF GetStarted(u, ks) = "create" THEN {"key"} ELSE {}) \cap had[t] = {}
        /\ Drawn(t, "usage") => UsagePage(got[t].usage).none \cap had[t] = {}
        /\ Drawn(t, "billing") => BillingPage(got[t].status).none \cap had[t] = {}

(* "Colour never carries the state alone: callers print the reason as      *)
(* text": a page that tints a tile says why in words, by a test of its     *)
(* own, on the figures the tint was computed from.                         *)
Reason == {<<"usage", "warn", "close">>, <<"usage", "alert", "over">>,
           <<"success", "alert", "below">>, <<"overage", "alert", "over">>,
           <<"keys", "warn", "no active key">>}

Explained(view) ==
    \A tile \in DOMAIN view.tones :
        view.tones[tile] # "neutral" => \E w \in view.words : <<tile, view.tones[tile], w>> \in Reason

TintsAreExplained ==
    \A t \in Tab :
        /\ Drawn(t, "overview") => Explained(Overview(got[t].usage, got[t].keys))
        /\ Drawn(t, "usage") => Explained(UsagePage(got[t].usage))

(* The overage the overview and the usage page name is the owner's: at     *)
(* some moment while the page was loading he had that many parses with a   *)
(* live key beyond what the price list includes, never more than the       *)
(* cycle the page draws has of any kind.  It is projected at the price     *)
(* list's rate, to the kobo and as its groups of digits read, is shown     *)
(* whenever there is one, and never beside a meter that is not full,       *)
(* though the meter counts every parse and the overage live ones only.     *)
AsQuoted(u, v) ==
    /\ u.tier = None => u.overage = 0 /\ v.projected = None
    /\ u.tier # None =>
         /\ u.cap = Quote(u.tier).included
         /\ v.projected # None =>
              ReadBack(v.projected) = 100 * u.overage * Quote(u.tier).overage
         /\ u.overage > 0 =>
              /\ v.projected # None /\ v.meter = 100
              /\ u.overage <= Summary(u.daily).total - Quote(u.tier).included

OverageAsQuoted ==
    \A t \in Tab :
        /\ Drawn(t, "overview") \/ Drawn(t, "usage") => got[t].usage.overage \in owed[t]
        /\ Drawn(t, "overview") =>
             AsQuoted(got[t].usage, Overview(got[t].usage, got[t].keys))
        /\ Drawn(t, "usage") => AsQuoted(got[t].usage, UsagePage(got[t].usage))

(* The sample statement adds up as it is read, on the table and on a       *)
(* phone: "generated to reconcile by construction", through the kobo, the  *)
(* strings, the dots and the signs, also when the account is overdrawn;    *)
(* all its rows are in the preview; and the parts of its score come to the *)
(* total, whichever of them was clamped.                                   *)
SampleAddsUp ==
    \A t \in Tab : panel[t] # None =>
        LET v      == SampleStatementPanel(panel[t])
            n      == Len(v.table.rows)
            read(cell) == IF cell = None THEN 0 ELSE ReadBack(cell)
            change(i)  == read(v.table.rows[i].credit) - read(v.table.rows[i].debit)
            balance(i) == IF i = 0 THEN 100 * panel[t].sample.opening
                          ELSE ReadBack(v.table.rows[i].balance)
            score  == v.card.score
        IN  /\ n = Len(panel[t].sample.rows) /\ ~v.table.hasMore
            /\ \A i \in 1..n :
                 /\ balance(i) = balance(i - 1) + change(i)
                 /\ LET card == v.table.cards[i]
                    IN  change(i) = (IF card.isCredit THEN 1 ELSE -1) * ReadBack(card.amount)
            /\ balance(n) = balance(0) + ReadBack(v.table.credit) - ReadBack(v.table.debit)
            /\ score.total = score.base + score.salary + score.net + score.spend

(* The calendar has every day of the cycle once and in order, each in the  *)
(* column of its weekday, in whole weeks; the month may begin on any day.  *)
DaysInTheirColumns ==
    \A t \in Tab : Drawn(t, "overview") =>
        LET u     == got[t].usage
            cells == UsageCalendar(u).cells
        IN  /\ {cells[i] : i \in DOMAIN cells} \ {None} = DOMAIN u.daily
            /\ \A i, j \in DOMAIN cells :
                 i < j /\ cells[i] # None /\ cells[j] # None => cells[i] < cells[j]
            /\ Len(cells) % 7 = 0
            /\ \A i \in DOMAIN cells : cells[i] # None =>
                 \* column 1 is Monday's, UTC day 1
                 i % 7 = (u.firstDay + cells[i] - 1) % 7
=============================================================================
