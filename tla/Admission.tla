------------------------------ MODULE Admission ------------------------------
(***************************************************************************)
(* Keys, free caps and the metering rows: auth.py, routes/admission.py,    *)
(* rate_limit.py, audit.py, routes/keys.py and owner.py.                   *)
(*                                                                         *)
(* A request of any upload route is authenticated in the thread pool,      *)
(* admitted on the event loop (for the demo after a wait for Turnstile),   *)
(* and started on the engine when it gets a slot.  Each of these is a step *)
(* of its own, with revocations, erasures and other requests in between;   *)
(* admission itself is atomic up to the reading of the body.  What the     *)
(* engine and the slots do in detail is in Jobs.                           *)
(***************************************************************************)
EXTENDS Integers, FiniteSets, FiniteSetsExt

CONSTANTS
    Owner,
    TestKey, LiveKey, FirstPartyKey,  \* keys that may be issued, by tier
    DemoKey,      \* the demo key, if one is configured: its callers are anonymous
    Nobody,       \* no caller yet
    IP,           \* what client_ip or the first-party header says
    KeyOwner,     \* [TestKey \cup LiveKey -> Owner]
    Request,      \* requests, each used once
    Concurrent,   \* bound: requests of one owner in flight at a time
    FreeMax,      \* demo_rate_limit_max
    Window,       \* demo_rate_limit_window_seconds
    TestCap,      \* test_tier_monthly_cap
    Month,        \* length of a calendar month
    Retention,    \* audit_retention_days
    MaxTime       \* bound: the last tick of the clock

Key == TestKey \cup LiveKey \cup FirstPartyKey
Caller == Key \cup DemoKey
Owned == TestKey \cup LiveKey
Subscriber == {KeyOwner[k] : k \in LiveKey}
Time == 0..MaxTime
Never == -1

ASSUME AdmissionAssumption ==
    /\ TestKey \cap LiveKey = {} /\ FirstPartyKey \cap Owned = {}
    /\ DemoKey \cap Key = {} /\ Nobody \notin Caller
    /\ KeyOwner \in [Owned -> Owner]
    /\ IsFiniteSet(Request)
    /\ Concurrent \in Nat \ {0} /\ FreeMax \in Nat /\ TestCap \in Nat \ {0}
    /\ Window \in Nat \ {0} /\ Month \in Nat \ {0} /\ MaxTime \in Nat
    \* config.py:68-69: the current and the just-closed month are kept.
    /\ Retention \in Nat /\ Retention >= 2 * Month - 1

VARIABLES
    now,
    keys,        \* api_keys: "none", "active", "revoked" or "deleted"
    subscribed,  \* owners with an active subscription
    erased,      \* owners erased by purge_owner_data
    rate,        \* rate_limit: the count of a bucket in a window, 0 without a row
    rows,        \* audit_log
    phase,       \* where a request is
    by, ip,      \* its AuthContext's key id, and its address
    admitted,    \* when it passed admission
    ended        \* when its outcome was audited

asked == <<phase, by, ip, admitted, ended>>
vars  == <<now, keys, subscribed, erased, rate, rows, asked>>

(* The route's row of one request; its class only tells a free cap apart.  *)
Row == [request : Request, key : Caller, at : Time, success : BOOLEAN]

MonthOf(t)  == t \div Month
WindowOf(t) == t \div Window
Bucket      == (DemoKey \cup FirstPartyKey) \X IP
BucketOf(r) == <<by[r], ip[r]>>

Init ==
    /\ now = 0
    /\ keys = [k \in Key |-> "none"]
    /\ subscribed \in SUBSET Subscriber
    /\ erased = {}
    /\ rate = [b \in Bucket |-> [w \in 0..WindowOf(MaxTime) |-> 0]]
    /\ rows = {}
    /\ phase = [r \in Request |-> "new"]
    /\ by = [r \in Request |-> Nobody]
    /\ ip \in [Request -> IP]
    /\ admitted = [r \in Request |-> Never]
    /\ ended = [r \in Request |-> Never]

-----------------------------------------------------------------------------
(* Keys.                                                                   *)

Usable(k) == k \in Owned => KeyOwner[k] \notin erased

(* create_key, for a live or first-party key.                              *)
IssueKey(k) ==
    /\ k \in LiveKey \cup FirstPartyKey /\ Usable(k)
    /\ keys[k] = "none"
    /\ keys' = [keys EXCEPT ![k] = "active"]
    /\ UNCHANGED <<now, subscribed, erased, rate, rows, asked>>

TestKeysOf(o) == {k \in TestKey : KeyOwner[k] = o}

(* roll_test_key: the owner's active test keys go, k takes their place.    *)
Rolled(o, k) ==
    [j \in Key |-> CASE j = k -> "active"
                     [] j # k /\ j \in TestKeysOf(o) /\ keys[j] = "active" -> "revoked"
                     [] OTHER -> keys[j]]

RollTestKey(k) ==
    /\ k \in TestKey /\ Usable(k)
    /\ keys[k] = "none"
    /\ keys' = Rolled(KeyOwner[k], k)
    /\ UNCHANGED <<now, subscribed, erased, rate, rows, asked>>

RevokeKey(k) ==
    /\ keys[k] = "active"
    /\ keys' = [keys EXCEPT ![k] = "revoked"]
    /\ UNCHANGED <<now, subscribed, erased, rate, rows, asked>>

(* A webhook activates or deactivates an owner (see Subscriptions).        *)
ChangeSubscription(o) ==
    /\ o \in Subscriber \ erased
    /\ subscribed' = IF o \in subscribed THEN subscribed \ {o} ELSE subscribed \cup {o}
    /\ UNCHANGED <<now, keys, erased, rate, rows, asked>>

(* purge_owner_data: the audit rows of the owner's keys, then the keys.    *)
Erase(o) ==
    LET mine == {k \in Owned : KeyOwner[k] = o}
    IN  /\ o \notin erased
        /\ erased' = erased \cup {o}
        /\ rows' = {w \in rows : w.key \notin mine}
        /\ keys' = [k \in Key |-> IF k \in mine /\ keys[k] # "none" THEN "deleted"
                                  ELSE keys[k]]
        /\ subscribed' = subscribed \ {o}
        /\ UNCHANGED <<now, rate, asked>>

-----------------------------------------------------------------------------
(* Admission.                                                              *)

InFlight == {"authed", "admitted", "running"}

Sibling(k, j) == k \in Owned /\ j \in Owned /\ KeyOwner[k] = KeyOwner[j]

(* require_auth lets the request in with the key's id and tier; an unknown *)
(* or revoked key is a 401 and leaves nothing behind.                      *)
Authenticate(r, k) ==
    /\ phase[r] = "new"
    /\ k \in DemoKey \cup {j \in Key : keys[j] = "active"}
    /\ k \in Owned =>
         Cardinality({q \in Request : phase[q] \in InFlight /\ Sibling(k, by[q])}) < Concurrent
    /\ phase' = [phase EXCEPT ![r] = "authed"]
    /\ by' = [by EXCEPT ![r] = k]
    /\ UNCHANGED <<now, keys, subscribed, erased, rate, rows, ip, admitted, ended>>

(* Over the size limit by its header, or Turnstile says no: 413 or 401.    *)
TurnAway(r) ==
    /\ phase[r] = "authed"
    /\ phase' = [phase EXCEPT ![r] = "refused"]
    /\ UNCHANGED <<now, keys, subscribed, erased, rate, rows, by, ip, admitted, ended>>

(* RateLimiter.check: is there room, ...                                   *)
FreeRateOk(b) == rate[b][WindowOf(now)] < FreeMax

CountedShared(b) ==   \* Deviation: one count for an address, whatever the surface.
    [c \in Bucket |-> [w \in 0..WindowOf(MaxTime) |->
        IF w < WindowOf(now) - 1 THEN 0
        ELSE IF c[2] = b[2] /\ w = WindowOf(now) THEN rate[c][w] + 1
        ELSE rate[c][w]]]

(* ... and the count it leaves: one more, and rows of windows before the   *)
(* previous one are deleted, whatever their bucket.                        *)
Counted(b) ==
    [c \in Bucket |-> [w \in 0..WindowOf(MaxTime) |->
        IF w < WindowOf(now) - 1 THEN 0
        ELSE IF c = b /\ w = WindowOf(now) THEN rate[c][w] + 1
        ELSE rate[c][w]]]

UsedByKey(k) ==   \* Deviation: the count of one key, not of its owner.
    Cardinality({w \in rows : w.key = k /\ w.success /\ MonthOf(w.at) = MonthOf(now)})

(* count_success_for_owner_tier since the start of the month: revoked keys *)
(* count, deleted ones do not join.                                        *)
Used(k) ==
    Cardinality({w \in rows : /\ w.key \in TestKeysOf(KeyOwner[k])
                              /\ keys[w.key] # "deleted"
                              /\ w.success
                              /\ MonthOf(w.at) = MonthOf(now)})

Audited(r, success) ==
    rows' = rows \cup {[request |-> r, key |-> by[r], at |-> now, success |-> success]}

Admit(r) ==
    /\ phase' = [phase EXCEPT ![r] = "admitted"]
    /\ admitted' = [admitted EXCEPT ![r] = now]
    /\ UNCHANGED <<rows, ended>>

(* Over a free cap: the canned sample, or the 402 of redact and inspect,   *)
(* audited as no success.                                                  *)
Sample(r) ==
    /\ phase' = [phase EXCEPT ![r] = "sampled"]
    /\ Audited(r, FALSE)
    /\ ended' = [ended EXCEPT ![r] = now]
    /\ UNCHANGED admitted

(* admit_upload, anonymous and first-party callers.                        *)
AdmitByIP(r) ==
    /\ phase[r] = "authed" /\ by[r] \in DemoKey \cup FirstPartyKey
    /\ IF FreeRateOk(BucketOf(r))
       THEN rate' = Counted(BucketOf(r)) /\ Admit(r)
       ELSE UNCHANGED rate /\ Sample(r)
    /\ UNCHANGED <<now, keys, subscribed, erased, by, ip>>

(* ... live keys, with the unaudited 402 of an inactive subscription, ...  *)
AdmitLive(r) ==
    /\ phase[r] = "authed" /\ by[r] \in LiveKey
    /\ IF KeyOwner[by[r]] \in subscribed
       THEN Admit(r)
       ELSE phase' = [phase EXCEPT ![r] = "refused"] /\ UNCHANGED <<admitted, rows, ended>>
    /\ UNCHANGED <<now, keys, subscribed, erased, rate, by, ip>>

(* ... and test keys.                                                      *)
AdmitTest(r) ==
    /\ phase[r] = "authed" /\ by[r] \in TestKey
    /\ IF Used(by[r]) < TestCap THEN Admit(r) ELSE Sample(r)
    /\ UNCHANGED <<now, keys, subscribed, erased, rate, by, ip>>

(* The body turns out larger than its header said: 413, unaudited.         *)
TooLarge(r) ==
    /\ phase[r] = "admitted"
    /\ phase' = [phase EXCEPT ![r] = "refused"]
    /\ UNCHANGED <<now, keys, subscribed, erased, rate, rows, by, ip, admitted, ended>>

(* The request has its slot and the engine begins.                         *)
StartParse(r) ==
    /\ phase[r] = "admitted"
    /\ phase' = [phase EXCEPT ![r] = "running"]
    /\ UNCHANGED <<now, keys, subscribed, erased, rate, rows, by, ip, admitted, ended>>

EndParse(r, success) ==
    /\ phase[r] = "running"
    /\ phase' = [phase EXCEPT ![r] = IF success THEN "parsed" ELSE "failed"]
    /\ Audited(r, success)
    /\ ended' = [ended EXCEPT ![r] = now]
    /\ UNCHANGED <<now, keys, subscribed, erased, rate, by, ip, admitted>>

-----------------------------------------------------------------------------
Tick ==
    /\ now < MaxTime
    /\ now' = now + 1
    /\ UNCHANGED <<keys, subscribed, erased, rate, rows, asked>>

KeptForAMonth == {w \in rows : w.at >= now - Month}   \* Deviation: retention too short.

(* purge_older_than.                                                       *)
KeptRows == {w \in rows : w.at >= now - Retention}

(* _retention_sweeper.                                                     *)
SweepAudit ==
    /\ rows' = KeptRows
    /\ UNCHANGED <<now, keys, subscribed, erased, rate, asked>>

(* The process restarts: what was in flight is gone, the database is not.  *)
Restart ==
    /\ phase' = [r \in Request |-> IF phase[r] \in InFlight THEN "lost" ELSE phase[r]]
    /\ UNCHANGED <<now, keys, subscribed, erased, rate, rows, by, ip, admitted, ended>>

RequestStep(r) ==
    \/ \E k \in Caller : Authenticate(r, k)
    \/ TurnAway(r) \/ AdmitByIP(r) \/ AdmitLive(r) \/ AdmitTest(r)
    \/ TooLarge(r) \/ StartParse(r)
    \/ \E success \in BOOLEAN : EndParse(r, success)

Next ==
    \/ \E k \in Key : IssueKey(k) \/ RollTestKey(k) \/ RevokeKey(k)
    \/ \E o \in Owner : ChangeSubscription(o) \/ Erase(o)
    \/ \E r \in Request : RequestStep(r)
    \/ Tick \/ SweepAudit \/ Restart

Spec == Init /\ [][Next]_vars

-----------------------------------------------------------------------------
TypeOK ==
    /\ now \in Time
    /\ keys \in [Key -> {"none", "active", "revoked", "deleted"}]
    /\ subscribed \in SUBSET Owner /\ erased \in SUBSET Owner
    /\ rate \in [Bucket -> [0..WindowOf(MaxTime) -> 0..FreeMax]]
    /\ rows \in SUBSET Row
    /\ phase \in [Request -> {"new", "refused", "sampled", "parsed", "failed", "lost"}
                                 \cup InFlight]
    /\ by \in [Request -> Caller \cup {Nobody}] /\ ip \in [Request -> IP]
    /\ admitted \in [Request -> Time \cup {Never}]
    /\ ended \in [Request -> Time \cup {Never}]

(* Requests the limiter let through, whatever became of them.              *)
Spent(b) == {r \in Request : by[r] \in DemoKey \cup FirstPartyKey /\ BucketOf(r) = b /\ admitted[r] # Never}
SpentIn(b, w) == {r \in Spent(b) : WindowOf(admitted[r]) = w}

(* Requests of an owner's test keys that the engine parsed in a month.     *)
ParsedIn(o, m) ==
    {r \in Request : /\ by[r] \in TestKeysOf(o)
                     /\ phase[r] = "parsed"
                     /\ MonthOf(ended[r]) = m}

(* ... and those it did not, in a window: they got the sample.             *)
CannedIn(b, w) ==
    {r \in Request : /\ by[r] \in DemoKey \cup FirstPartyKey /\ BucketOf(r) = b
                     /\ phase[r] = "sampled" /\ WindowOf(ended[r]) = w}

(* RateLimiter.check: in no fixed window does one visitor of a surface get *)
(* more than demo_rate_limit_max uploads through, whatever the cleanup     *)
(* deletes; and only who has got all of them through gets the sample:      *)
(* neither another address nor another surface uses up his share ("two     *)
(* surfaces never share windows", state.py:111-112), nor does an earlier   *)
(* window.                                                                 *)
WindowBudget ==
    \A b \in Bucket : \A w \in 0..WindowOf(MaxTime) :
        /\ Cardinality(SpentIn(b, w)) <= FreeMax
        /\ CannedIn(b, w) # {} => Cardinality(SpentIn(b, w)) = FreeMax

(* config.py:53 promises more: "50 parses/month per IP ... 30-day rolling  *)
(* window".                                                                *)
RollingBudget ==
    \A b \in Bucket : \A t \in Time :
        Cardinality({r \in Spent(b) : admitted[r] \in t..(t + Window - 1)}) <= FreeMax

(* The test cap (_test_over_cap): rolling the key, a new month and the     *)
(* retention sweep do not reset the count; an owner who keeps Concurrent   *)
(* requests in flight gets at most Concurrent - 1 beyond the cap, as the   *)
(* count is read at admission and written when the parse has ended.        *)
TestCapOvershoot ==
    \A o \in Owner \ erased : \A m \in 0..MonthOf(MaxTime) :
        Cardinality(ParsedIn(o, m)) <= TestCap + Concurrent - 1

(* PRICING.md:94: "25 successful parses per owner per calendar month".     *)
TestCapHolds ==
    \A o \in Owner \ erased : \A m \in 0..MonthOf(MaxTime) :
        Cardinality(ParsedIn(o, m)) <= TestCap

(* Every success of this month and the last still has its row, which is    *)
(* what the invoice and the cap count (config.py:67-69).                   *)
MeteredRowsKept ==
    \A r \in Request :
        /\ phase[r] = "parsed" /\ by[r] \in Owned /\ KeyOwner[by[r]] \notin erased
        /\ MonthOf(ended[r]) >= MonthOf(now) - 1
        => [request |-> r, key |-> by[r], at |-> ended[r], success |-> TRUE] \in rows

(* routes/keys.py:55-56: never two active test keys of one owner.          *)
AtMostOneTestKey ==
    \A o \in Owner : Cardinality({k \in TestKeysOf(o) : keys[k] = "active"}) <= 1

(* routes/keys.py:108-109: "A revoked key stops parsing immediately."      *)
RevokedStopsParsing ==
    [][\A r \in Request : phase[r] # "running" /\ phase'[r] = "running" /\ by[r] \in Key =>
          keys[by[r]] # "revoked"]_vars

(* owner.py:10: "Delete every row tied to an owner": nothing of an erased  *)
(* owner is left in the audit log.                                         *)
ErasedLeavesNothing ==
    \A w \in rows : w.key \in Owned => KeyOwner[w.key] \notin erased
=============================================================================
