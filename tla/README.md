# bankstract-cloud in TLA+

bankstract-cloud turns Nigerian bank statements into data: an HTTP worker
(Python, FastAPI, one process, one SQLite file) in front of a parsing engine, a
web app for accounts and keys, a public demo page, and Paystack for the money.
These modules specify what happens to an upload, who may upload, who has paid,
what gets invoiced, and what the pages show of it. TLC checks them on small
instances; TLAPS proves the theorems listed below for every value of the constants.

Paths below are relative to `src/apps/worker/src/bankstract_cloud/` unless they
begin with `src/`.

## The system

| Part | State it keeps | Operations | Who it talks to |
|---|---|---|---|
| Job surface (`jobs.py`, `routes/parse.py`) | registry of jobs, each with state, result, event queue, time it ended | submit, run, stream (SSE), poll, download, sweep | slots, engine threads, audit log |
| Engine slots and sync routes (`routes/parse.py`, `redact.py`, `inspect.py`) | `asyncio.Semaphore` of `parse_max_concurrent` permits | acquire, release around an engine call | jobs |
| Admission (`routes/admission.py`) | none of its own | authenticate, Turnstile, the four gates, audit | keys, limiter, subscriptions, audit log |
| Rate limiter (`rate_limit.py`) | counts per bucket and fixed window | check | admission |
| Keys (`auth.py`, `routes/keys.py`) | key rows with tier, owner, revocation | issue, roll the test key, revoke, authenticate | admission, erasure |
| Audit log (`audit.py`) | one metadata row per finished request | record, count, purge after retention | admission, billing |
| Subscriptions (`subscriptions.py`, `routes/billing.py`) | one row per owner, seen webhooks, parked activations | webhook events | Paystack, admission, billing |
| Erasure (`routes/account.py`, `owner.py`) | where it is between its two Paystack calls | cancel, then purge | Paystack, every table |
| Overage cron and ledger (`billing_cron.py`, `overage_ledger.py`, `usage.py`) | frozen tiers, settled months | daily run, manual charge, dashboard report | Paystack, audit log, subscriptions |
| Web app routes (`src/apps/web`) | Better Auth's users, sessions and links | sign in, provision a test key, issue, roll and revoke keys, start a checkout, delete the account | worker, mail, Paystack |
| Dashboard (`src/apps/web`) | what each tab was last brought | read usage, keys and plan; show them | worker |
| Demo page (`src/packages/demo`) | a reducer, a `busy` ref, the Turnstile widget | upload, follow the stream, download CSV | worker |
| Marketing site (`src/packages/marketing`) | a sample statement made up in the tab | draw, score | |
| SDK, docs | none | HTTP calls | worker |

The worker's parts share one SQLite connection and one event loop. A handler is `async def`:
it runs alone between two of its awaits, so every await that can really wait is a
place where other handlers come in. Engine calls run in threads, and authentication
runs in the thread pool before the handler. Nothing in memory survives a restart;
everything in SQLite does, and each `commit()` stands for itself.

What is hard, and what makes each part correct:

* **Jobs and slots.** Engine threads hand progress to the loop by callbacks, readers
  come and go, the sweeper runs beside them, and engine calls fail. A stream must be
  in order and end truthfully, no permit may be lost, a job must settle, a result must
  live at least and at most so long, the demo tier must never get clean output.
* **Admission.** Counts are read at admission and written when a parse ends; keys,
  owners and months change in between. The caps must hold, failures must not burn the
  quota of a test key, and nobody may be cut off early.
* **Subscriptions and erasure.** Webhooks are repeated, reordered, and lost to crashes
  between two commits; a customer can hold several subscriptions over time. Whoever is
  served must have paid, whoever has paid must be served, and nobody who was erased may
  be charged again.
* **Browser.** A handler comes back from its `await` to a page that shows something
  else, to another user's session, or to no component at all; a route gives up on the
  worker and the worker does its part all the same. What is shown must belong to what
  it names, a key is shown once and must stay, deleting an account must leave nothing
  behind, and "could not ask" must not read as "none".
* **Billing.** A run waits for Paystack in the middle of its loop; calls are refused,
  answers get lost, the process dies, the month ends. What is invoiced must be what is
  owed, once.

## The modules

| Module | Models | Abstract specification |
|---|---|---|
| `Jobs` | job surface, slots, sync routes, sweeper | implements `JobContract` |
| `JobContract` | what a client is promised about a job id | |
| `Overage` | cron, ledger, frozen tiers, manual charge, dashboard | implements `Settlement` |
| `Settlement` | what billing promises of an owner's month | |
| `Subscriptions` | webhook, subscription rows, erasure against Paystack | |
| `Admission` | keys, gates, limiter, test cap, audit rows, retention, erasure against requests in flight | |
| `Demo` | demo page: reducer, handlers, widget, CSV | uses `JobContract` as its worker |
| `KeysPage` | keys page in the tabs of one browser, its routes, the key table | |
| `Account` | sign-in, sign-up hook, deletion of the account, calls carried out late | |
| `Figures` | pure functions: prices, tones, percentages, calendar cells, money, sample statement, score, table | |
| `Dashboard` | overview, usage, billing, lenders pages and their reads | extends `Figures` |
| `JobsProofs`, `OverageProofs`, `SubscriptionsProofs`, `AdmissionProofs`, `AccountProofs`, `KeysPageProofs`, `DemoProofs`, `DashboardProofs` | theorems | |
| `MCJobs`, `MCOverage`, `MCSubscriptions`, `MCAdmission`, `MCDemo`, `MCKeysPage`, `MCAccount`, `MCDashboard` | small instances for TLC | |

An operator marked `Deviation` is not part of a specification: it is the form a
plausible bug would give the definition after it, kept there to show that the
properties notice.

**Jobs.** An action is what happens between two suspension points of one coroutine,
or one step of an engine thread. `SubmitSample`/`SubmitJob` are `submit_job`;
`StartJob`, `ResumeJob`, `FinishJob`, `FailJob` and `EndJob` are `_run_job` with the
semaphore in its FIFO form (`Enter`, `Queue`, `Resume`, `Release`); `RelayReplay`,
`RelaySchedule` and `RunCallback` are `_progress_relay`, which sets `last_event` in the
engine thread and puts the event on the queue in the loop. `Connect`, `StreamStep` and
`Disconnect` are a client of the SSE generator, `Download` and `SnapshotBody` what the
other two channels answer, `Sweep` and `Tick` the sweeper. Bodies are kinds: sample,
clean, watermarked, none. What a stream sends of progress is `replayed`, the `last_event`
it begins with, and `drained`, the last it took from the queue. They overlap: the events
up to the replay may still be queued, so a late reader is sent n and then 1, 2, ... n.
`StreamInOrder` says what is left of order then: the queue reaches its readers whole and
in order, the replay is no older than anything scheduled or taken before it, and a reader
steps back or sees an event twice only where the queue follows the replay.

**JobContract** says of a job id: pending once accepted, then ready or failed for at
least the TTL, then gone; a pending job does settle. `Jobs!KeepsContract` is the
refinement, with the phase computed from registry, state and download.

**Overage.** A run is `StartRun` or `FreezeFirst`, then `SkipSettled`, `SettleZero` or
`CallPaystack` for one owner at a time; `PaystackCreates` and `PaystackRefuses` are the
other end of the call, `ReadAnswer` what the loop does with the answer, `RunDies` and
`CrashWhileFreezing` the faults. Months are numbers. `Parse`, `Subscribe` and
`NextCycle` go on around the run, `ManualCharge` is the admin route.

**Settlement** says of an owner's month: what it owes moves only while it is open; closed,
it is invoiced for exactly that until it is settled, which it is once it has an invoice or
owes nothing. `Overage!KeepsSettlement` takes what a month owes off its frozen tier.

**Subscriptions.** Paystack is the variable `paystack` with an `outbox` of webhooks it
repeats until they are answered. `Handle` is the webhook handler up to its answer,
`DeliverUnanswered` a lost answer, `Crash` the process dying between two of the
handler's commits. `Overtaken` says which event types later ones may overtake.
Erasure is `StartErase`, `ReadStatus`, `Cancelled`, `FinishErase` or `EraseFails`, one
per await. Tier and period end follow the subscription and are left out. Paystack's
side is modelled from what the code and its tests take it to do.

**Admission.** A request is authenticated, admitted (or sampled, or refused), started
and ended; each is an action. `AdmitByIP`, `AdmitLive` and `AdmitTest` are the gates of
`admit_upload`, `FreeRateOk` and `Counted` are `RateLimiter.check`, `Used` is the
count behind the test cap with its join to the key table, `KeptRows` the retention
purge. An upload route's answer to "over a cap" (canned sample, or 402) is one action,
`Sample`, since both write the same row. An erased owner gets no new keys: the web app
deletes the user along with the worker's rows; calls that race it are in `Account`.

**Demo.** `view` is the reducer's state, `busy` the ref, `pc[c]` the `await` at which the
`handleFile` of file `c` is suspended, `widget` the token Turnstile holds. `HandleFile` is
the handler up to its first `await`, entered by `Drop`, `Pick` or `SampleAnswers`;
`AwaitToken`, `Submit...` and `Stream...` are its continuations and `Fail` and `Succeed`
its end. `ClickCsv`, `CsvToken`, `CsvPost` and `CsvAnswer` are `handleCsv`. The worker is
an instance of `JobContract`: `Jobs` implements it, so what holds here holds with the
real job surface behind the page.

**KeysPage.** A request is a route call in one of three slots (create, roll, revoke): it
reads the session, calls the worker (which may fail before, in or after its two commits)
and answers a component that may be gone. `Refresh` is `router.refresh`, which keeps
client state when the component is still there. Tabs share the session cookie, which
`SignOutIn` changes under them.

**Account.** A browser has a cookie, a screen, and at most one sign-in, key request and
deletion under way. `Remove`, `WorkerErases`, `DeleteRows` and their failures are
`DELETE /api/account`; `late` holds the calls the route gave up on after its time limit,
which `CarriedOut` performs or drops. Better Auth is not in the repository: `SignIn`,
`LinkSent` and the like come from the tables and callbacks the repository gives it.

**Dashboard and Figures.** A page is a pure function of what its reads brought (`got`);
the reads of one page come one by one while the records change, and each may bring
`None`. `had` remembers what the owner had at every moment since the page began to load,
which is what the page may not deny, and `owed` the overages that stood at one of them,
reckoned by the price list of the site, which are those the page may name.

## The runs

Passing runs are exhaustive within their bounds.

| Run | Question | Bounds and why they do |
|---|---|---|
| `jobs_streams` | Can any interleaving break a stream, leak a slot or count a failed parse? | 2 jobs, 1 sync request, 2 readers on any jobs, 2 events, 2 slots, uploads for the sample and by key: more actors than slots, two of each kind that share something; two events are enough for a replay ahead of the queue. The clock stands still: a final event that is late for the sweep is left to the theorem `FinalEventsAreTrue` |
| `jobs_retention` | How long does a result live, does any channel serve the demo tier clean output, is `JobContract` implemented, does everything end? | 1 job of every tier and a sync request over 1 slot, 2 readers in turn, TTL 2, clock to 5: a sweep before, on and after each limit; hand-over of the slot either way |
| `overage_faults` | Is what is invoiced what is owed, through faults and a manual charge, and is the month settled? | 2 owners, a plan and none, 2 months, 1 parse a month, 1 fault, 1 manual charge: one owner is billed while the other waits |
| `overage_restart` | finding | 1 owner, 2 plans, 2 months, 1 fault |
| `subs_webhooks` | Do worker and Paystack agree but for webhooks on their way, and does erasing leave a known card to be charged? | 2 subscriptions in turn, late `charge.success`, 1 fault (a lost answer, a crash or a retried renewal), 2 erasures |
| `subs_orphan` | finding | 1 subscription, 1 erasure |
| `admission_caps` | Can a test key's cap be stretched or cut short, and is every row that billing counts kept? | 2 test keys, 2 requests in flight, 3 requests, cap 1, 3 months, the shortest retention the rule in `config.py` allows |
| `admission_demo` | Does each visitor of a surface get the window's budget, no more and no less? | demo, one surface and one live key, 3 requests from one address, budget 1, 3 windows (the cleanup deletes from the third on) |
| `demo_page` | Does the page show the right file's progress and result, one upload at a time, and does every spinner end? | 2 files or samples, 1 CSV download, 2 tokens, a worker that may forget a job at once (TTL 0, one tick) |
| `keys_page` | Who can revoke a key, does a key that is shown once stay, does the list catch up? | 1 tab with its three request slots, 2 owners who share the browser, 2 keys: a roll of the key just shown, a stale list of the other owner |
| `account` | Does a deletion leave anything behind, does asking again complete it, does a sign-in end? | 2 browsers, one patient, 1 account, 1 link, 1 late call: a second browser issues, signs in or deletes while the first deletes |
| `dashboard` | Does any combination of failed and stale reads make a page say something untrue? | 1 tab, 4 kinds of owner, batches that reach the warning, the cap and a four-digit overage, 4 steps of records and page loads, months beginning on two weekdays, three sample statements |

The two `admission` runs use the symmetry of requests and `jobs_streams` that of jobs
and readers; none of these checks liveness, and no element of a symmetric set is named
by the model. `dashboard` runs without the deadlock check: its bound `MaxSteps` ends it.

What passes is worth stating with its limits: `TestCapOvershoot` bounds the excess by
the requests an owner keeps in flight, since nothing in the code bounds those;
`ServedIsPaid` and `PaidIsServed` hold when webhooks of a customer keep their order
except that a `charge.success` may be late, one subscription at a time, with no crash
inside the handler and no failed renewal paid by a retry (`Untroubled`). Without each of
these provisos they do not hold, see below. `GoneIsErased` leaves out owners with a call
for a key under way while they were erased: such a call does bring data back.
`KeyStaysUntilDone` leaves out the refresh that cannot have the keys and the answer of
the other request, which both do take a key away. `CreatedIsListed` follows keys that were
shown: one that was issued while its answer was lost is listed only when the page is next
refreshed, which nothing then asks for. `OverageAsQuoted` lets a page name an overage the
owner had when it was read, though a parse or a plan change has moved it since.

### Fairness

* `Jobs`: weak fairness for each runner, engine call, sync handler and SSE generator.
  The event loop runs what is ready; an engine call returns or is killed by
  `isolate_timeout_seconds`. Clients and the clock owe nothing. The semaphore wakes in
  FIFO order, so no strong fairness is needed.
* `Overage`: the scheduler starts a run each day and the loop goes on (weak fairness).
  Paystack answers a call one way or the other (weak), and does not refuse for ever
  (strong fairness of creating): without the latter no retry can succeed.
* `Subscriptions`: Paystack repeats a webhook until it is answered, so some webhook is
  delivered as long as there is one (weak fairness of `DeliverSome`). Customers owe
  nothing. Lost answers, crashes and retried renewals are bounded together by `MaxFaults`.
* `Demo`: every promise of an upload settles (weak fairness per `await`): `getToken` has
  a timeout, `fetch` answers or rejects, the stream has a result event once the job has
  settled and an error once it is gone; the worker settles its jobs, as its contract
  says. Users owe nothing.
* `KeysPage`: only `router.refresh` is fair.
* `Account`: a patient person asks again after an error and reloads a page that is stuck;
  requests are answered (weak), and neither the worker nor the database fails every time
  (strong): no retry could converge without that.
* `Admission` and `Dashboard` state no liveness.

## The theorems

Checked by TLAPS for all values of the constants, from the named `ASSUME` of each module
and library facts on finite sets, sequences and well-founded orders. Every safety
invariant and every action property of a passing run is a theorem here.

`JobsProofs`

* `JobsTypeCorrect`, `SlotsAreConserved`, `EngineIsCapped`. The invariant `SlotInv`
  joins the types, the semaphore's books (free permits plus holders make
  `MaxConcurrent`; nobody waits while a permit is free; the FIFO holds each waiter
  once), and where a stream can be. The books alone are not inductive without the
  types of `pc`. `EngineCap` follows by counting: who runs the engine holds a permit.
* `JobsAreKept`, `ResultsAreCleared`. Both speak of settled jobs only. `LifeInv` adds
  that a job is stamped exactly when it settles, that its runner is past its end then,
  and that the next sweep is never more than a TTL away; a job that survived a sweep
  was at most a TTL old then, which gives the second TTL.

`OverageProofs`

* `OverageTypeCorrect`, `InvoicesAreAlwaysOwed`, `SettledIsAlwaysInvoiced`,
  `SettledStaysQuiet`, `SnapshotsStayFrozen`. What makes them inductive is what a run
  knows while it waits (`Running`): the month it bills is closed, so its count and
  its frozen tier stand still; the amount it asked for is what they make; the month is
  not settled meanwhile. `Booked` says the same of what is already in the books.

* `DuplicatesAreFaults`. Each month's invoices are at most one (`ExtrasCostRuns`) more
  than the runs that died after Paystack had made theirs, and those are among the faults.
  `BilledOnceWithoutFaults` is its converse to the run `overage_restart`: with no fault
  and no manual charge nothing is billed twice.
* `OverageKeepsTheBooks`: `Overage` implements `Settlement`. Freezing, a parse and a plan
  change only move what the open month owes; the steps of a run are justified by `Running`,
  and a run that dies may still have made its invoice. TLC agrees when `KeepsSettlement` is
  added to `MCOverage_faults.cfg`; it is left out of the run, which it makes half as long
  again.

* `MarkerComesLast`, `FinalEventsAreTrue`, `CountedAreServed`, `StreamsKeepOrder`. On top
  of `LifeInv`, `StreamInv` follows an event from the engine thread to the reader: what is
  in flight to the loop is newer than what is queued, both are in order, the marker is
  queued only by a runner past its engine call, and a reader takes only newer events than
  it has taken. What a final event said stands, since a settled job never changes its state.
  For `StreamsKeepOrder`, `OrderInv` adds that what was taken, what is queued and what is in
  flight are together 1, 2, ... up to the last event the engine scheduled (`Whole`), and
  that a stream which has not begun has sent nothing (`Fresh`).
* `DemoOutputIsMarked`: what a channel would answer now is never clean for an anonymous
  job, and what a closed stream was given was not either. The first half is about three
  functions of the state; the second needs that the request of a settled job stands, as
  the body was chosen when the final event was built.
* `JobsImplementContract`: every step of `Jobs` is a step of `JobContract` under the
  mapping of `KeepsContract`, or leaves it alone. The delicate step is the sweep: a job
  may only become gone when it is older than the TTL.

`SubscriptionsProofs`

* `SubscriptionsType`, `KnownSubscriptionsAreCancelled`. An erasure remembers its target;
  `Erasing` says what each of its two calls has established of it, and `HeardOf` that a
  row names only subscriptions Paystack has made, so that the cancelled one cannot start
  again.
* `ServedOwnersPay`, `PayingOwnersAreServed`, for any number of owners, subscriptions,
  faults and erasures. Both assume `InOrder`: one subscription of an owner at a time, and
  no webhook overtaken but by a late `charge.success` it leaves behind. That is what
  `subs_webhooks` is set to; without it the properties are false, as the table below
  shows. `InOrderInv` looks at an owner's webhooks that may still act on his row: while
  there is one, the last of them is a `subscription.create` exactly if he pays (`Told`);
  once there is none, his row, or the activation parked for it, is on exactly if he pays
  (`Settled`). A new owner needs his `charge.success` too, which makes the row
  (`RowComes`); that no webhook speaks of a state its subscription has not reached
  (`Past`) makes a late one harmless.

`AdmissionProofs`

* `AdmissionType`, `OneActiveTestKey`, `LimiterHolds` (the count of a bucket's current
  window is the number of requests it let through, and the cleanup deletes only older
  windows; so nobody is sent to the sample by what others did), `TwiceTheBudgetAtMost` (a stretch as long as a window lies in two
  windows: what holds in place of the rolling budget), `MeteringSurvivesSweeps` (retention against the length of months),
  `TestCapHoldsButForConcurrency` (rows of the month plus requests in flight stay within
  the bound, by counting over sets of requests), and `OneAtATimeKeepsTheCap`, its case of
  one request at a time, in which the cap is what the price list says.

`AccountProofs`

* `AccountType`, `GoneAccountsAreErased`. The auth rows go only after the worker answered
  that it erased; from then on data can come only from a call that was under way, which
  the history variable `raced` holds.

`KeysPageProofs`

* `KeysPageType`, `KeysAreRevokedByOwners`. A request that passed the owner check names a
  key that is the owner's for good, as keys never change hands.
* `RawKeyStays`: of all the clicks, routes, answers and refreshes only those the property
  names clear or replace a key that is shown, and none of them reaches another tab's.

`DemoProofs`

* `DemoType`, `OneUploadBehindTheSpinner`, `ResultsAreTheFilesOwn`, `UploadsHaveOwnToken`,
  `SpinnersLeaveWithTheirUpload`. The `busy` ref is up exactly while one upload is in
  flight; so an upload that comes back finds its own spinner or none, and a token that was
  sent with a finished upload is neither in the widget nor with another.

`DashboardProofs`

* `DashboardInvariant`: the worker's records are consistent (`RecordsOK`), the tabs of
  their types (`PagesOK`), every report on a page is by its plan's numbers (`SoundReports`),
  nothing a page was brought denies what the owner had all the while (`HonestPages`), and
  the overage it was brought stood at some moment of that (`OwedPages`). The last two are
  inductive because `had` only shrinks and `owed` only grows while a page loads, and a read
  answers from the records of one moment.
* `PagesNeverTellNone`, `TintsHaveReasons`, `OverageIsQuoted`, `CalendarIsInOrder`,
  `SampleReconciles` then follow from the invariant and lemmas about the figures: a
  success rate that is rounded to even is below the floor when its percentage is; a month's
  cells are its days behind their first weekday's offset, filled up to whole weeks; an
  overage is at most the parses beyond the cap, so its meter is full; the rows of a
  statement change its balance by what the columns add up to.
* `MoneyReadsBack`: the groups of three digits that `groupThousands` writes read back as
  the number they were made of, for every integer of kobo, negative ones included.
* These are about sums, folds and digits of any length, so they need induction. The
  library's induction theorems take an operator and cannot be used; `Least` (a
  non-empty set of numbers has a least one) and `SubsetInduction` (the same for the parts
  of a finite set) come from the well-founded orders of the library and `WFMin`, a minimal element of a
  set. From them come that `Groups` has its defining equation at every number, that a
  fold over a finite set is well defined, and that a sum may be taken in any order.

Not proved, only model-checked: the liveness properties `EverythingSettles`, `StreamEnds`,
`Converges`, `LastCycleSettles`, `UploadEnds`, `CreatedIsListed`, `DeletionConverges`,
`SignInEnds`, and the fairness of `KeepsContract`, whose safety part is
`JobsImplementContract`: fairness needs ENABLED, which the prover does not handle. What
fails without a proviso, in the table below, is shown by TLC's counterexamples.

## What the code does against its own words

Two runs show such a case:

* `overage_restart`: a crash or a lost answer between Paystack's invoice and the ledger
  row makes a second invoice; `overage_ledger.py` promises none.
* `subs_orphan`: an owner erased between a paid checkout and its webhooks goes on
  paying; `routes/account.py` says a live charge is never orphaned.

The following are stated as properties too, or come from a proviso of a passing run. TLC
finds each when the instance is changed as named here:

| Violated | Instance | What happens | Against |
|---|---|---|---|
| `NoDoubleBilling` | `overage_faults` with `MaxFaults = 0` | the manual charge writes no ledger row, so the cron bills the month again | `overage_ledger.py:44-46` |
| `NoSurpriseInvoice` | `overage_restart` with `MaxParses = 2`, `MaxFaults = 0` | dashboard off the live tier, invoice off the frozen one | `audit.py:26-28` |
| `EveryCycleSettles` | `overage_restart` with `MaxCycle = 2`, `MaxFaults = 0` | a run looks one month back; a month missed is never billed | `billing_cron.py:97-98` |
| `ServedIsPaid` | `subs_webhooks` with `Overtaken <- MCAnyOrder` | a create after its disable switches the owner on for good | `subscriptions.py:172-173` |
| `PaidIsServed` | `Untroubled` without `crashes = 0` | dedup row committed, effect not: the retry is a duplicate | `docs/rules/billing.md:7` |
| `PaidIsServed` | `Untroubled` without `retried[s] = 0` | a retry that pays never switches the owner on again | `docs/rules/billing.md:7` |
| `PaidIsServed` | `subs_webhooks` with `OneAtATime = FALSE` | the end of one subscription switches off the customer of another | `docs/rules/billing.md:7` |
| `TestCapHolds` | `admission_caps` | requests in flight are not counted yet | `PRICING.md:94` |
| `RollingBudget` | `admission_demo` with `Window = 2`, `MaxTime = 3` | the window is fixed, not rolling | `config.py:53` |
| `RevokedStopsParsing` | `admission_demo` | an upload queued before the revocation is parsed after it | `routes/keys.py:109` |
| `ErasedLeavesNothing` | `admission_demo` | a request in flight writes its audit row after the purge | `owner.py:10` |
| `TokenSingleUse` | `demo_page` | a CSV download may take the token an upload already has, or the other way round | `src/packages/demo/src/components/TurnstileGate.tsx:15` |

Met while modelling, and visible in the modules:

* A result may stay in memory for almost two TTLs, since the sweeper sleeps a whole one
  (`ClearedAfterTwoTtl` is what holds); `src/PRIVACY.md:67` promises five minutes.
* A new key is shown once ("This is the only time we show it",
  `src/apps/web/src/components/KeysClient.tsx:280`), but a refresh that cannot reach the
  worker replaces the dialog by a page that says "Nothing was lost"
  (`Unavailable.tsx:12`), and a create and a roll that overlap show only the later one.
* Keys issued while an account is being deleted can survive it, against "so a retry
  after a partial failure converges" read as "and nothing stays"
  (`src/apps/web/src/app/(app)/api/account/route.ts:14-19`).
* No handler of the keys page or of the delete card catches a `fetch` that rejects: the
  button stays busy until the page is reloaded (`stuck`).
* `src/packages/types/src/parse.ts:167` says the tier is null without an active paid tier;
  the worker keeps the tier of a subscription that has ended.
* The meter is labelled "Included parses used", but counts test parses too, which the
  overage does not. It can therefore be full with no overage.
* `src/apps/web/src/app/(app)/dashboard/error.tsx` says it catches a thrown worker failure
  of the pages' reads; those reads return null instead of throwing.

## Not modelled

* The engine, its isolation and the error envelopes: external, or formatting. What an
  engine call may do is a choice in `Jobs`.
* Signature checks, hashing, Turnstile's verdict: a request either passes or not.
* SQLite itself: a commit is atomic and durable.
* Read-only endpoints of the worker that no page of the dashboard draws: metrics, health,
  banks, version, the funnel numbers.
* The SDK (a stateless client over `fetch`), the docs, static pages, styles, CI.
* Ownerless test keys. A key call that the route gives up on and the worker carries out
  later is in `Account` (where it makes data) but not in `KeysPage` (where it could revoke
  a test key that a second roll has just shown).
* The widths of browser numbers: amounts stay far below 2^53.

## Plan

Done: the worker's four modules, the demo page, the keys page, the account, the
dashboard with its pure functions; a theorem for every safety property the runs check.

Left, in this order:

1. Late calls in `KeysPage`, with `RevokedByOwner` and its proof extended to them. At the
   present bounds they make more than three million states, so the module has to be split
   by slot first.
2. An abstract `Entitlement` (an owner is entitled while paid) that `Subscriptions`
   refines when webhooks keep their order.
3. `Demo` composed with `Jobs` itself on a small instance, to check that nothing the page
   relies on is missing from `JobContract`.
