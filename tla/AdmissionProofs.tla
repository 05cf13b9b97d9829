--------------------------- MODULE AdmissionProofs ---------------------------
(***************************************************************************)
(* Theorems about Admission, for any number of owners, keys, addresses and *)
(* requests, and every limit, month and retention the settings allow.      *)
(*                                                                         *)
(* The limits hold because the counts they are checked against cannot fall *)
(* behind: the limiter's row of the current window is exactly what it let  *)
(* through (LimiterCounts), and a success of the month keeps its row       *)
(* (MeteredRowsKept), so what an owner has parsed and has in flight stays  *)
(* within the cap and his concurrency (TestInFlight).                      *)
(***************************************************************************)
EXTENDS Admission, FiniteSetTheorems, TLAPS

USE AdmissionAssumption

(* What is true of a request by the phase it is in.                        *)
RequestOK(r) ==
    /\ phase[r] = "new" => admitted[r] = Never
    /\ phase[r] # "new" => by[r] \in Caller
    /\ phase[r] = "authed" => admitted[r] = Never
    /\ phase[r] = "parsed" => ended[r] \in 0..now

(* Only the keys of erased owners are deleted.                             *)
DeletedByErasure ==
    \A k \in Key : keys[k] = "deleted" => k \in Owned /\ KeyOwner[k] \in erased

Basic == TypeOK /\ (\A r \in Request : RequestOK(r)) /\ DeletedByErasure

-----------------------------------------------------------------------------
(* Windows and months.                                                     *)
LEMMA DivType ==
  ASSUME NEW m \in Nat \ {0}, NEW a \in Nat
  PROVE  a \div m \in Nat /\ m * (a \div m) <= a /\ a < m * (a \div m) + m
OBVIOUS

LEMMA DivMonotonic ==
  ASSUME NEW m \in Nat \ {0}, NEW a \in Nat, NEW b \in Nat, a <= b
  PROVE  a \div m <= b \div m
<1> DEFINE p == a \div m
           q == b \div m
<1>1. p \in Nat /\ q \in Nat /\ m * p <= a /\ b < m * q + m
  BY DivType
<1>2. ASSUME p > q PROVE FALSE
  <2>1. p >= q + 1
    BY <1>1, <1>2
  <2> HIDE DEF p, q
  <2>2. m * p >= m * (q + 1)
    BY <1>1, <2>1
  <2>3. m * (q + 1) = m * q + m
    BY <1>1
  <2>4. m * p \in Int /\ m * q \in Int
    BY <1>1
  <2> QED
    BY <1>1, <2>2, <2>3, <2>4
<1> QED
  BY <1>1, <1>2

(* The month before b's began at most 2 * m - 1 ticks before b.            *)
LEMMA DivPrevious ==
  ASSUME NEW m \in Nat \ {0}, NEW a \in Nat, NEW b \in Nat, a \div m >= (b \div m) - 1
  PROVE  a >= b - (2 * m - 1)
<1> DEFINE p == a \div m
           q == b \div m
<1>1. p \in Nat /\ q \in Nat /\ m * p <= a /\ b < m * q + m /\ p + 1 >= q
  BY DivType
<1> HIDE DEF p, q
<1>2. m * (p + 1) >= m * q
  BY <1>1
<1>3. m * (p + 1) = m * p + m
  BY <1>1
<1>4. m * p \in Int /\ m * q \in Int
  BY <1>1
<1> QED
  BY <1>1, <1>2, <1>3, <1>4

LEMMA TimeType ==
  ASSUME TypeOK
  PROVE  /\ now \in Nat /\ now <= MaxTime /\ Time \subseteq Nat
         /\ WindowOf(now) \in 0..WindowOf(MaxTime) /\ WindowOf(MaxTime) \in Nat
         /\ MonthOf(now) \in 0..MonthOf(MaxTime) /\ MonthOf(MaxTime) \in Nat
<1>1. now \in Nat /\ now <= MaxTime /\ Time \subseteq Nat /\ MaxTime \in Nat
  BY DEF TypeOK, Time
<1>2. /\ now \div Window \in Nat /\ MaxTime \div Window \in Nat
      /\ now \div Month \in Nat /\ MaxTime \div Month \in Nat
  BY <1>1, DivType
<1>3. now \div Window <= MaxTime \div Window /\ now \div Month <= MaxTime \div Month
  BY <1>1, DivMonotonic
<1> QED
  BY <1>1, <1>2, <1>3 DEF WindowOf, MonthOf

-----------------------------------------------------------------------------
(* Types.                                                                  *)
LEMMA InitBasic ==
  ASSUME Init
  PROVE  Basic
<1> USE DEF Init
<1>1. subscribed \in SUBSET Owner
  BY DEF Subscriber, Owned
<1>2. now \in Time
  BY DEF Time
<1>3. TypeOK
  BY <1>1, <1>2 DEF TypeOK
<1> QED
  BY <1>3 DEF Basic, RequestOK, DeletedByErasure

(* A step of keys, owners and the sweeper.                                 *)
LEMMA KeysBasic ==
  ASSUME Basic,
         \/ \E k \in Key : IssueKey(k) \/ RollTestKey(k) \/ RevokeKey(k)
         \/ \E o \in Owner : ChangeSubscription(o) \/ Erase(o)
         \/ SweepAudit
  PROVE  Basic'
<1>1. TypeOK /\ DeletedByErasure
  BY DEF Basic
<1>2. UNCHANGED <<now, rate, asked>>
  BY DEF IssueKey, RollTestKey, RevokeKey, ChangeSubscription, Erase, SweepAudit
<1>3. keys' \in [Key -> {"none", "active", "revoked", "deleted"}]
  BY <1>1 DEF TypeOK, IssueKey, RollTestKey, RevokeKey, ChangeSubscription, Erase, SweepAudit,
              Rolled
<1>4. subscribed' \in SUBSET Owner /\ erased' \in SUBSET Owner
  BY <1>1 DEF TypeOK, IssueKey, RollTestKey, RevokeKey, ChangeSubscription, Erase, SweepAudit,
              Subscriber, Owned
<1>5. rows' \subseteq rows
  BY DEF IssueKey, RollTestKey, RevokeKey, ChangeSubscription, Erase, SweepAudit, KeptRows
<1>6. TypeOK'
  BY <1>1, <1>2, <1>3, <1>4, <1>5 DEF TypeOK, asked, Time, Row, Bucket, WindowOf
<1>7. \A r \in Request : RequestOK(r)'
  BY <1>2 DEF Basic, RequestOK, asked
<1>8. DeletedByErasure'
  <2> SUFFICES ASSUME NEW k \in Key, keys'[k] = "deleted"
               PROVE  k \in Owned /\ KeyOwner[k] \in erased'
    BY DEF DeletedByErasure
  <2>1. erased \subseteq erased'
    BY DEF IssueKey, RollTestKey, RevokeKey, ChangeSubscription, Erase, SweepAudit
  <2>2. keys[k] = "deleted" \/ \E o \in Owner : Erase(o)
    BY <1>1 DEF TypeOK, IssueKey, RollTestKey, RevokeKey, ChangeSubscription, SweepAudit, Rolled
  <2>3. ASSUME NEW o \in Owner, Erase(o)
        PROVE  keys[k] = "deleted" \/ (k \in Owned /\ KeyOwner[k] \in erased')
    BY <1>1, <2>3 DEF TypeOK, Erase
  <2> QED
    BY <1>1, <2>1, <2>2, <2>3 DEF DeletedByErasure
<1> QED
  BY <1>6, <1>7, <1>8 DEF Basic

(* The counts of the limiter stay within its maximum.                      *)
LEMMA CountedType ==
  ASSUME TypeOK, NEW b \in Bucket, FreeRateOk(b)
  PROVE  Counted(b) \in [Bucket -> [0..WindowOf(MaxTime) -> 0..FreeMax]]
<1>1. rate \in [Bucket -> [0..WindowOf(MaxTime) -> 0..FreeMax]]
  BY DEF TypeOK
<1>2. WindowOf(now) \in 0..WindowOf(MaxTime)
  BY TimeType
<1>3. rate[b][WindowOf(now)] \in 0..FreeMax /\ rate[b][WindowOf(now)] < FreeMax
  <2> DEFINE w == WindowOf(now)
             W == WindowOf(MaxTime)
  <2>1. rate \in [Bucket -> [0..W -> 0..FreeMax]] /\ w \in 0..W /\ rate[b][w] < FreeMax
    BY <1>1, <1>2 DEF FreeRateOk
  <2> HIDE DEF w, W
  <2>2. rate[b] \in [0..W -> 0..FreeMax]
    BY <2>1
  <2>3. rate[b][w] \in 0..FreeMax
    BY <2>1, <2>2
  <2> QED
    BY <2>1, <2>3 DEF w
<1>4. rate[b][WindowOf(now)] + 1 \in 0..FreeMax
  BY <1>3
<1>5. ASSUME NEW c \in Bucket, NEW w \in 0..WindowOf(MaxTime) PROVE rate[c][w] \in 0..FreeMax
  <2> DEFINE W == WindowOf(MaxTime)
  <2>1. rate \in [Bucket -> [0..W -> 0..FreeMax]] /\ w \in 0..W
    BY <1>1
  <2> HIDE DEF W
  <2>2. rate[c] \in [0..W -> 0..FreeMax]
    BY <2>1
  <2> QED
    BY <2>1, <2>2
<1>6. 0 \in 0..FreeMax
  OBVIOUS
<1>7. \A c \in Bucket, w \in 0..WindowOf(MaxTime) :
        (IF w < WindowOf(now) - 1 THEN 0
         ELSE IF c = b /\ w = WindowOf(now) THEN rate[c][w] + 1 ELSE rate[c][w]) \in 0..FreeMax
  BY <1>4, <1>5, <1>6
<1> QED
  BY <1>7 DEF Counted

(* A step of one request.                                                  *)
LEMMA RequestBasic ==
  ASSUME Basic, NEW r \in Request, RequestStep(r)
  PROVE  Basic'
<1> USE DEF InFlight
<1>1. TypeOK /\ (\A q \in Request : RequestOK(q)) /\ DeletedByErasure
  BY DEF Basic
<1>2. Caller = DemoKey \cup Key /\ TestKey \subseteq Caller /\ LiveKey \subseteq Caller
      /\ FirstPartyKey \subseteq Caller
  BY DEF Caller, Key
<1>3. UNCHANGED <<now, keys, subscribed, erased, ip>>
  BY DEF RequestStep, Authenticate, TurnAway, AdmitByIP, AdmitLive, AdmitTest, TooLarge,
         StartParse, EndParse
<1>4. rate' \in [Bucket -> [0..WindowOf(MaxTime) -> 0..FreeMax]]
  <2>1. CASE UNCHANGED rate
    BY <1>1, <2>1 DEF TypeOK
  <2>2. CASE AdmitByIP(r)
    <3>1. BucketOf(r) \in Bucket
      BY <1>1, <2>2 DEF AdmitByIP, BucketOf, Bucket, TypeOK
    <3> QED
      BY <1>1, <2>2, <3>1, <2>1, CountedType DEF AdmitByIP
  <2> QED
    BY <2>1, <2>2 DEF RequestStep, Authenticate, TurnAway, AdmitLive, AdmitTest, TooLarge,
                      StartParse, EndParse
<1>5. /\ \E p \in {"refused", "sampled", "parsed", "failed", "authed", "admitted", "running"} :
           phase' = [phase EXCEPT ![r] = p]
      /\ by' = by \/ \E k \in Caller : by' = [by EXCEPT ![r] = k]
      /\ admitted' = admitted \/ admitted' = [admitted EXCEPT ![r] = now]
      /\ ended' = ended \/ ended' = [ended EXCEPT ![r] = now]
  BY DEF RequestStep, Authenticate, TurnAway, AdmitByIP, AdmitLive, AdmitTest, TooLarge,
         StartParse, EndParse, Admit, Sample
<1>6. rows' = rows \/ \E success \in BOOLEAN : Audited(r, success) /\ by[r] \in Caller
  <2>1. phase[r] = "running" => by[r] \in Caller
    BY <1>1 DEF RequestOK
  <2> QED
    BY <1>2, <2>1 DEF RequestStep, Authenticate, TurnAway, AdmitByIP, AdmitLive, AdmitTest,
                      TooLarge, StartParse, EndParse, Admit, Sample
<1>7. rows' \in SUBSET Row
  BY <1>1, <1>6 DEF TypeOK, Audited, Row
<1>8. TypeOK'
  <2>1. Time' = Time /\ Bucket' = Bucket /\ Row' = Row
    BY DEF Time, Bucket, Row
  <2>2. phase' \in [Request -> {"new", "refused", "sampled", "parsed", "failed", "lost"}
                                 \cup InFlight]
    BY <1>1, <1>5 DEF TypeOK
  <2>3. /\ by' \in [Request -> Caller \cup {Nobody}]
        /\ admitted' \in [Request -> Time \cup {Never}]
        /\ ended' \in [Request -> Time \cup {Never}]
    BY <1>1, <1>5 DEF TypeOK
  <2> QED
    BY <1>1, <1>3, <1>4, <1>7, <2>1, <2>2, <2>3 DEF TypeOK, WindowOf
<1>9. \A q \in Request : RequestOK(q)'
  <2>1. \A q \in Request : q # r => RequestOK(q)'
    BY <1>1, <1>3, <1>5 DEF TypeOK, RequestOK
  <2>2. RequestOK(r)'
    <3>1. now \in 0..now /\ now \in Nat
      BY <1>1, TimeType
    <3>2. CASE phase'[r] = "authed"
      <4>1. \E k \in Caller : Authenticate(r, k)
        BY <1>1, <3>2 DEF TypeOK, RequestStep, TurnAway, AdmitByIP, AdmitLive, AdmitTest,
                          TooLarge, StartParse, EndParse, Admit, Sample
      <4> QED
        BY <1>1, <3>2, <4>1 DEF TypeOK, RequestOK, Authenticate
    <3>3. CASE phase'[r] = "parsed"
      <4>1. \E success \in BOOLEAN : EndParse(r, success)
        BY <1>1, <3>3 DEF TypeOK, RequestStep, Authenticate, TurnAway, AdmitByIP, AdmitLive,
                          AdmitTest, TooLarge, StartParse, Admit, Sample
      <4> QED
        BY <1>1, <3>1, <3>3, <4>1 DEF TypeOK, RequestOK, EndParse
    <3>4. CASE phase'[r] \notin {"new", "authed", "parsed"}
      <4>1. phase[r] # "new" /\ by' = by
        BY <1>1, <3>4 DEF TypeOK, RequestStep, Authenticate, TurnAway, AdmitByIP, AdmitLive,
                          AdmitTest, TooLarge, StartParse, EndParse
      <4> QED
        BY <1>1, <3>4, <4>1 DEF RequestOK
    <3>5. phase'[r] # "new"
      BY <1>1, <1>5 DEF TypeOK
    <3> QED
      BY <3>2, <3>3, <3>4, <3>5
  <2> QED
    BY <2>1, <2>2
<1> QED
  BY <1>1, <1>3, <1>8, <1>9 DEF Basic, DeletedByErasure

LEMMA ClockBasic ==
  ASSUME Basic, Tick \/ Restart \/ UNCHANGED vars
  PROVE  Basic'
<1>1. TypeOK /\ (\A r \in Request : RequestOK(r)) /\ DeletedByErasure
  BY DEF Basic
<1>2. UNCHANGED <<keys, subscribed, erased, rate, rows, by, ip, admitted, ended>>
  BY DEF Tick, Restart, vars, asked
<1>6. phase \in [Request -> {"new", "refused", "sampled", "parsed", "failed", "lost"}
                               \cup InFlight]
  BY <1>1 DEF TypeOK
<1>7. /\ \A r \in Request : phase'[r] = phase[r] \/ (phase'[r] = "lost" /\ phase[r] \in InFlight)
      /\ phase' \in [Request -> {"new", "refused", "sampled", "parsed", "failed", "lost"}
                                   \cup InFlight]
  <2>1. CASE Restart
    BY <1>6, <2>1 DEF Restart
  <2>2. CASE UNCHANGED phase
    BY <1>6, <2>2
  <2> QED
    BY <2>1, <2>2 DEF Tick, vars, asked
<1>3. now' \in Time /\ now <= now' /\ now \in Nat /\ now' \in Nat
  BY <1>1 DEF Tick, Restart, vars, Time, TypeOK
<1>4. TypeOK'
  BY <1>1, <1>2, <1>3, <1>7 DEF TypeOK, Time, Bucket, Row, WindowOf, InFlight
<1>5. \A r \in Request : RequestOK(r)'
  BY <1>1, <1>2, <1>3, <1>7 DEF RequestOK, InFlight
<1> QED
  BY <1>1, <1>2, <1>4, <1>5 DEF Basic, DeletedByErasure

LEMMA NextBasic ==
  ASSUME Basic, [Next]_vars
  PROVE  Basic'
BY KeysBasic, RequestBasic, ClockBasic DEF Next

LEMMA BasicInvariant == Spec => []Basic
BY InitBasic, NextBasic, PTL DEF Spec

(* Every state has its type; in particular no count of the limiter, for    *)
(* no bucket and no window, is above its maximum.                          *)
THEOREM AdmissionType == Spec => []TypeOK
<1>1. Basic => TypeOK
  BY DEF Basic
<1> QED
  BY <1>1, BasicInvariant, PTL

-----------------------------------------------------------------------------
(* Test keys.                                                              *)
OneTestKey ==
    \A j, k \in TestKey : keys[j] = "active" /\ keys[k] = "active" /\ KeyOwner[j] = KeyOwner[k]
                            => j = k

LEMMA OneTestKeyInvariant == Spec => []OneTestKey
<1>1. Init => OneTestKey
  BY DEF Init, OneTestKey, Key
<1>2. ASSUME Basic, OneTestKey, [Next]_vars
      PROVE  OneTestKey'
  <2> USE DEF OneTestKey
  <2>1. TypeOK /\ TestKey \subseteq Key
    BY <1>2 DEF Basic, Key
  <2>2. CASE UNCHANGED keys
    BY <1>2, <2>2
  <2>3. ASSUME NEW k \in Key, IssueKey(k) PROVE OneTestKey'
    BY <1>2, <2>1, <2>3 DEF IssueKey, Owned, TypeOK
  <2>4. ASSUME NEW k \in Key, RollTestKey(k) PROVE OneTestKey'
    <3>1. \A j \in TestKey : keys'[j] = "active" =>
            j = k \/ (keys[j] = "active" /\ KeyOwner[j] # KeyOwner[k])
      BY <2>1, <2>4 DEF RollTestKey, Rolled, TestKeysOf
    <3> QED
      BY <1>2, <3>1
  <2>5. ASSUME NEW k \in Key, RevokeKey(k) PROVE OneTestKey'
    BY <1>2, <2>1, <2>5 DEF RevokeKey, TypeOK
  <2>6. ASSUME NEW o \in Owner, Erase(o) PROVE OneTestKey'
    BY <1>2, <2>1, <2>6 DEF Erase
  <2>7. \/ UNCHANGED keys
        \/ \E k \in Key : IssueKey(k) \/ RollTestKey(k) \/ RevokeKey(k)
        \/ \E o \in Owner : Erase(o)
    BY <1>2 DEF Next, vars, ChangeSubscription, RequestStep, Authenticate, TurnAway, AdmitByIP,
                AdmitLive, AdmitTest, TooLarge, StartParse, EndParse, Tick, SweepAudit, Restart
  <2> QED
    BY <2>2, <2>3, <2>4, <2>5, <2>6, <2>7
<1> QED
  BY <1>1, <1>2, BasicInvariant, PTL DEF Spec

(* roll_test_key: an owner never has two active test keys, however rolls,  *)
(* revocations and erasures follow each other.                             *)
THEOREM OneActiveTestKey == Spec => []AtMostOneTestKey
<1>1. ASSUME OneTestKey
      PROVE  AtMostOneTestKey
  <2> SUFFICES ASSUME NEW o \in Owner
               PROVE  Cardinality({k \in TestKeysOf(o) : keys[k] = "active"}) <= 1
    BY DEF AtMostOneTestKey
  <2> DEFINE S == {k \in TestKeysOf(o) : keys[k] = "active"}
  <2>1. CASE S = {}
    BY <2>1, FS_EmptySet
  <2>2. CASE S # {}
    <3>1. PICK k \in S : TRUE
      BY <2>2
    <3>2. S = {k}
      BY <1>1, <3>1 DEF OneTestKey, TestKeysOf
    <3>3. Cardinality({k}) = 1
      BY FS_Singleton
    <3> QED
      BY <3>2, <3>3
  <2> QED
    BY <2>1, <2>2
<1> QED
  BY <1>1, OneTestKeyInvariant, PTL

-----------------------------------------------------------------------------
(* The limiter.                                                            *)
LimiterCounts ==
    \A b \in Bucket : \A w \in WindowOf(now)..WindowOf(MaxTime) :
        Cardinality(SpentIn(b, w)) = rate[b][w]

LimiterInv == LimiterCounts /\ WindowBudget

(* Most steps let nobody through.                                          *)
LEMMA SpentSame ==
  ASSUME Basic, [Next]_vars, \A r \in Request : ~AdmitByIP(r) \/ UNCHANGED admitted
  PROVE  \A b \in Bucket, w \in 0..WindowOf(MaxTime) : SpentIn(b, w)' = SpentIn(b, w)
<1> USE DEF SpentIn, Spent, BucketOf
<1>1. TypeOK /\ (\A r \in Request : RequestOK(r))
  BY DEF Basic
<1>2. CASE UNCHANGED <<by, ip, admitted>>
  BY <1>2
<1>3. ASSUME NEW r \in Request, NEW k \in Caller, Authenticate(r, k)
      PROVE  \A b \in Bucket, w \in 0..WindowOf(MaxTime) : SpentIn(b, w)' = SpentIn(b, w)
  <2>1. admitted[r] = Never /\ admitted' = admitted /\ ip' = ip
    BY <1>1, <1>3 DEF Authenticate, RequestOK
  <2>2. \A q \in Request : q # r => by'[q] = by[q]
    BY <1>1, <1>3 DEF Authenticate, TypeOK
  <2>3. \A b \in Bucket : Spent(b)' = Spent(b)
    BY <2>1, <2>2
  <2> QED
    BY <2>1, <2>3
<1>4. ASSUME NEW r \in Request, AdmitLive(r) \/ AdmitTest(r)
      PROVE  \A b \in Bucket, w \in 0..WindowOf(MaxTime) : SpentIn(b, w)' = SpentIn(b, w)
  <2>1. by[r] \notin DemoKey \cup FirstPartyKey /\ by' = by /\ ip' = ip
    BY <1>4 DEF AdmitLive, AdmitTest, Key, Owned
  <2>2. \A q \in Request : q # r => admitted'[q] = admitted[q]
    BY <1>1, <1>4 DEF AdmitLive, AdmitTest, Admit, Sample, TypeOK
  <2>3. \A b \in Bucket : Spent(b)' = Spent(b) /\ r \notin Spent(b)
    BY <2>1, <2>2
  <2>4. \A b \in Bucket : \A q \in Spent(b) : admitted'[q] = admitted[q]
    BY <2>2, <2>3
  <2> QED
    BY <2>3, <2>4
<1>5. \/ UNCHANGED <<by, ip, admitted>>
      \/ \E r \in Request : AdmitLive(r) \/ AdmitTest(r) \/ \E k \in Caller : Authenticate(r, k)
  BY DEF Next, vars, asked, IssueKey, RollTestKey, RevokeKey, ChangeSubscription, Erase,
         RequestStep, TurnAway, AdmitByIP, TooLarge, StartParse, EndParse, Tick, SweepAudit,
         Restart
<1> QED
  BY <1>2, <1>3, <1>4, <1>5

LEMMA SpentFinite ==
  ASSUME NEW b, NEW w
  PROVE  IsFiniteSet(SpentIn(b, w)) /\ Cardinality(SpentIn(b, w)) \in Nat
<1>1. SpentIn(b, w) \in SUBSET Request
  BY DEF SpentIn, Spent
<1> QED
  BY <1>1, FS_Subset, FS_CardinalityType

(* Whoever is given the sample is one the limiter has just refused.        *)
LEMMA CannedStep ==
  ASSUME Basic, [Next]_vars, NEW b \in Bucket, NEW w \in 0..WindowOf(MaxTime),
         NEW q \in CannedIn(b, w)'
  PROVE  \/ q \in CannedIn(b, w)
         \/ AdmitByIP(q) /\ ~FreeRateOk(b) /\ b = BucketOf(q) /\ w = WindowOf(now)
<1> DEFINE Goal == \/ q \in CannedIn(b, w)
                   \/ AdmitByIP(q) /\ ~FreeRateOk(b) /\ b = BucketOf(q) /\ w = WindowOf(now)
<1>1. /\ by \in [Request -> Caller \cup {Nobody}] /\ ip \in [Request -> IP]
      /\ ended \in [Request -> Time \cup {Never}] /\ DOMAIN phase = Request
  BY DEF Basic, TypeOK
<1>2. /\ q \in Request /\ by'[q] \in DemoKey \cup FirstPartyKey
      /\ <<by'[q], ip'[q]>> = b /\ phase'[q] = "sampled" /\ WindowOf(ended'[q]) = w
  BY DEF CannedIn, BucketOf, WindowOf
<1>3. ASSUME by'[q] = by[q], ip'[q] = ip[q], phase[q] = "sampled", ended'[q] = ended[q]
      PROVE  Goal
  BY <1>2, <1>3 DEF CannedIn, BucketOf
<1>4. CASE UNCHANGED asked
  BY <1>2, <1>3, <1>4 DEF asked
<1>5. ASSUME NEW r \in Request, RequestStep(r)
      PROVE  Goal
  <2>1. CASE q # r
    <3>1. /\ by'[q] = by[q] /\ ip'[q] = ip[q] /\ phase'[q] = phase[q]
          /\ ended'[q] = ended[q]
      BY <1>1, <1>2, <1>5, <2>1 DEF RequestStep, Authenticate, TurnAway, AdmitByIP, AdmitLive,
         AdmitTest, TooLarge, StartParse, EndParse, Admit, Sample
    <3> QED
      BY <1>2, <1>3, <3>1
  <2>2. CASE q = r
    <3>1. AdmitByIP(r) \/ AdmitTest(r)
      BY <1>1, <1>2, <1>5, <2>2 DEF RequestStep, Authenticate, TurnAway, AdmitLive, TooLarge,
         StartParse, EndParse, Admit
    <3>2. by' = by /\ ip' = ip
      BY <3>1 DEF AdmitByIP, AdmitTest
    <3>3. ~AdmitTest(r)
      BY <1>2, <2>2, <3>2 DEF AdmitTest, Key, Owned
    <3>4. b = BucketOf(r)
      BY <1>2, <2>2, <3>2 DEF BucketOf
    <3>5. AdmitByIP(r) /\ ~FreeRateOk(b) /\ Sample(r)
      <4>1. AdmitByIP(r)
        BY <3>1, <3>3
      <4>2. CASE FreeRateOk(BucketOf(r))
        <5>1. phase'[r] = "admitted"
          BY <1>1, <4>1, <4>2 DEF AdmitByIP, Admit
        <5> QED
          BY <1>2, <2>2, <5>1
      <4> QED
        BY <3>4, <4>1, <4>2 DEF AdmitByIP
    <3>6. ended'[r] = now
      BY <1>1, <3>5 DEF Sample
    <3> QED
      BY <1>2, <2>2, <3>4, <3>5, <3>6
  <2> QED
    BY <2>1, <2>2
<1>6. CASE Restart
  BY <1>1, <1>2, <1>3, <1>6 DEF Restart
<1>7. \/ UNCHANGED asked \/ Restart
      \/ \E r \in Request : RequestStep(r)
  BY DEF Next, vars, IssueKey, RollTestKey, RevokeKey, ChangeSubscription, Erase, Tick, SweepAudit
<1> QED
  BY <1>4, <1>5, <1>6, <1>7

(* Letting one through takes a count of the current window.                *)
LEMMA AdmitCounts ==
  ASSUME Basic, LimiterInv, NEW r \in Request, AdmitByIP(r), FreeRateOk(BucketOf(r))
  PROVE  LimiterInv'
<1>1. TypeOK /\ RequestOK(r)
  BY DEF Basic
<1>0. /\ BucketOf(r) \in Bucket /\ WindowOf(now) \in 0..WindowOf(MaxTime)
      /\ WindowOf(MaxTime) \in Nat
  BY <1>1, TimeType DEF AdmitByIP, BucketOf, Bucket, TypeOK
<1> PICK B \in Bucket, W \in 0..WindowOf(MaxTime) : B = BucketOf(r) /\ W = WindowOf(now)
  BY <1>0
<1>2. /\ B = BucketOf(r) /\ W = WindowOf(now) /\ WindowOf(MaxTime) \in Nat
      /\ B \in Bucket /\ W \in 0..WindowOf(MaxTime)
  BY <1>0
<1>3. /\ rate' = Counted(B) /\ admitted' = [admitted EXCEPT ![r] = now]
      /\ UNCHANGED <<now, by, ip>> /\ admitted[r] = Never
  BY <1>1, <1>2 DEF AdmitByIP, Admit, RequestOK
<1>4. \A b \in Bucket, w \in 0..WindowOf(MaxTime) :
        /\ r \notin SpentIn(b, w)
        /\ SpentIn(b, w)' = IF b = B /\ w = W THEN SpentIn(b, w) \cup {r} ELSE SpentIn(b, w)
  <2> SUFFICES ASSUME NEW b \in Bucket, NEW w \in 0..WindowOf(MaxTime)
               PROVE  /\ r \notin SpentIn(b, w)
                      /\ SpentIn(b, w)' = IF b = B /\ w = W THEN SpentIn(b, w) \cup {r}
                                          ELSE SpentIn(b, w)
    OBVIOUS
  <2>1. /\ r \notin SpentIn(b, w) /\ admitted'[r] = now /\ now # Never
        /\ \A q \in Request \ {r} : admitted'[q] = admitted[q]
    <3>1. now # Never
      BY <1>1, TimeType DEF Never
    <3> QED
      BY <1>1, <1>3, <3>1 DEF SpentIn, Spent, TypeOK
  <2>2. r \in SpentIn(b, w)' <=> b = B /\ w = W
    BY <1>2, <1>3, <2>1 DEF SpentIn, Spent, BucketOf, AdmitByIP, WindowOf
  <2>3. \A q \in Request \ {r} : q \in SpentIn(b, w)' <=> q \in SpentIn(b, w)
    BY <1>3, <2>1 DEF SpentIn, Spent, BucketOf, WindowOf
  <2>4. SpentIn(b, w)' \subseteq Request /\ SpentIn(b, w) \subseteq Request
    BY DEF SpentIn, Spent
  <2> QED
    BY <2>1, <2>2, <2>3, <2>4
<1>5. rate \in [Bucket -> [0..WindowOf(MaxTime) -> 0..FreeMax]]
  BY <1>1 DEF TypeOK
<1>6. \A b \in Bucket, w \in W..WindowOf(MaxTime) :
        rate'[b][w] = IF b = B /\ w = W THEN rate[b][w] + 1 ELSE rate[b][w]
  BY <1>2, <1>3 DEF Counted
<1>7. Cardinality(SpentIn(B, W)') = Cardinality(SpentIn(B, W)) + 1
  <2>1. IsFiniteSet(SpentIn(B, W)) /\ Cardinality(SpentIn(B, W)) \in Nat
    BY SpentFinite
  <2> QED
    BY <1>2, <1>4, <2>1, FS_AddElement
<1>8. \A b \in Bucket, w \in 0..WindowOf(MaxTime) :
        ~(b = B /\ w = W) => Cardinality(SpentIn(b, w)') = Cardinality(SpentIn(b, w))
  BY <1>4
<1>9. \A b \in Bucket, w \in W..WindowOf(MaxTime) : Cardinality(SpentIn(b, w)') = rate'[b][w]
  <2>1. \A b \in Bucket, w \in W..WindowOf(MaxTime) :
          w \in 0..WindowOf(MaxTime) /\ Cardinality(SpentIn(b, w)) = rate[b][w]
    BY <1>2 DEF LimiterInv, LimiterCounts
  <2> QED
    BY <1>2, <1>6, <1>7, <1>8, <2>1
<1>10. LimiterCounts'
  BY <1>2, <1>3, <1>9 DEF LimiterCounts, WindowOf
<1>11. rate[B][W] \in Nat /\ rate[B][W] < FreeMax /\ Cardinality(SpentIn(B, W)) = rate[B][W]
  <2>1. W \in W..WindowOf(MaxTime)
    BY <1>2
  <2>2. Cardinality(SpentIn(B, W)) = rate[B][W]
    BY <1>2, <2>1 DEF LimiterInv, LimiterCounts
  <2>3. rate[B][W] \in 0..FreeMax
    BY <1>2, <1>5
  <2>4. rate[B][W] < FreeMax
    BY <1>2 DEF FreeRateOk
  <2> QED
    BY <2>2, <2>3, <2>4
<1>12. Cardinality(SpentIn(B, W)') <= FreeMax
  BY <1>7, <1>11
<1>13. \A b \in Bucket, w \in 0..WindowOf(MaxTime) : CannedIn(b, w)' \subseteq CannedIn(b, w)
  <2>1. phase'[r] = "admitted" /\ UNCHANGED <<by, ip, ended>>
        /\ \A q \in Request \ {r} : phase'[q] = phase[q]
    BY <1>1 DEF AdmitByIP, Admit, TypeOK
  <2> QED
    BY <2>1 DEF CannedIn, BucketOf, WindowOf
<1>14. WindowBudget'
  <2>1. ASSUME NEW b \in Bucket, NEW w \in 0..WindowOf(MaxTime)
        PROVE  /\ Cardinality(SpentIn(b, w)') <= FreeMax
               /\ CannedIn(b, w)' # {} => Cardinality(SpentIn(b, w)') = FreeMax
    <3>1. /\ Cardinality(SpentIn(b, w)) <= FreeMax
          /\ CannedIn(b, w) # {} => Cardinality(SpentIn(b, w)) = FreeMax
      BY DEF LimiterInv, WindowBudget
    <3>2. CASE b = B /\ w = W
      <4>1. Cardinality(SpentIn(b, w)) # FreeMax
        BY <1>11, <3>2
      <4> QED
        BY <1>12, <1>13, <3>1, <3>2, <4>1
    <3>3. CASE ~(b = B /\ w = W)
      BY <1>8, <1>13, <3>1, <3>3
    <3> QED
      BY <3>2, <3>3
  <2> QED
    BY <1>2, <2>1 DEF WindowBudget
<1> QED
  BY <1>10, <1>14 DEF LimiterInv

LEMMA LimiterInvariant == Spec => []LimiterInv
<1>1. ASSUME Init
      PROVE  LimiterInv
  <2>1. \A b \in Bucket, w \in 0..WindowOf(MaxTime) :
          SpentIn(b, w) = {} /\ rate[b][w] = 0 /\ CannedIn(b, w) = {}
    BY <1>1 DEF Init, SpentIn, Spent, CannedIn
  <2>2. \A b \in Bucket, w \in 0..WindowOf(MaxTime) :
          Cardinality(SpentIn(b, w)) = 0 /\ rate[b][w] = 0
    BY <2>1, FS_EmptySet
  <2>3. \A w \in WindowOf(now)..WindowOf(MaxTime) : w \in 0..WindowOf(MaxTime)
    BY <1>1, InitBasic, TimeType DEF Basic
  <2>4. FreeMax \in Nat
    BY AdmissionAssumption
  <2> QED
    BY <2>1, <2>2, <2>3, <2>4 DEF LimiterInv, LimiterCounts, WindowBudget
<1>2. ASSUME Basic, LimiterInv, [Next]_vars
      PROVE  LimiterInv'
  <2>1. CASE \E r \in Request : AdmitByIP(r) /\ FreeRateOk(BucketOf(r))
    BY <1>2, <2>1, AdmitCounts
  <2>2. CASE ~ \E r \in Request : AdmitByIP(r) /\ FreeRateOk(BucketOf(r))
    <3>1. \A r \in Request : ~AdmitByIP(r) \/ UNCHANGED admitted
      BY <2>2 DEF AdmitByIP, Sample
    <3>2. \A b \in Bucket, w \in 0..WindowOf(MaxTime) : SpentIn(b, w)' = SpentIn(b, w)
      BY <1>2, <3>1, SpentSame
    <3>3. UNCHANGED rate
      BY <1>2, <2>2 DEF Next, vars, IssueKey, RollTestKey, RevokeKey, ChangeSubscription, Erase,
            RequestStep, Authenticate, TurnAway, AdmitByIP, AdmitLive, AdmitTest, TooLarge,
            StartParse, EndParse, Tick, SweepAudit, Restart
    <3>4. /\ now \in Nat /\ now' \in Nat /\ now <= now'
      <4>1. TypeOK
        BY <1>2 DEF Basic
      <4>2. now \in Nat
        BY <4>1, TimeType
      <4>3. now' = now \/ now' = now + 1
        BY <1>2 DEF Next, vars, IssueKey, RollTestKey, RevokeKey, ChangeSubscription, Erase,
            RequestStep, Authenticate, TurnAway, AdmitByIP, AdmitLive, AdmitTest, TooLarge,
            StartParse, EndParse, Tick, SweepAudit, Restart
      <4> QED
        BY <4>2, <4>3
    <3>5. WindowOf(now) <= WindowOf(now)' /\ WindowOf(now) \in Nat /\ WindowOf(now)' \in Nat
      BY <3>4, DivMonotonic, DivType DEF WindowOf
    <3>6. WindowOf(MaxTime)' = WindowOf(MaxTime) /\ WindowOf(MaxTime) \in Nat
      BY DivType DEF WindowOf
    <3>7. \A w \in WindowOf(now)'..WindowOf(MaxTime) :
            w \in WindowOf(now)..WindowOf(MaxTime) /\ w \in 0..WindowOf(MaxTime)
      BY <3>5, <3>6
    <3>8. LimiterCounts'
      <4>1. \A b \in Bucket, w \in WindowOf(now)'..WindowOf(MaxTime) :
              Cardinality(SpentIn(b, w)') = rate'[b][w]
        BY <1>2, <3>2, <3>3, <3>7 DEF LimiterInv, LimiterCounts
      <4> QED
        BY <3>6, <4>1 DEF LimiterCounts
    <3>9. ASSUME NEW b \in Bucket, NEW w \in 0..WindowOf(MaxTime),
                 NEW q \in CannedIn(b, w)', q \notin CannedIn(b, w)
          PROVE  Cardinality(SpentIn(b, w)) = FreeMax
      <4>1. /\ b = BucketOf(q) /\ w = WindowOf(now) /\ ~FreeRateOk(b)
        BY <1>2, <3>9, CannedStep
      <4>2. w \in WindowOf(now)..WindowOf(MaxTime)
        BY <3>5, <3>6, <4>1
      <4>3. Cardinality(SpentIn(b, w)) = rate[b][w]
        BY <1>2, <4>2 DEF LimiterInv, LimiterCounts
      <4>4. rate[b][w] \in 0..FreeMax
        <5>1. rate \in [Bucket -> [0..WindowOf(MaxTime) -> 0..FreeMax]]
          BY <1>2 DEF Basic, TypeOK
        <5>2. rate[b] \in [0..WindowOf(MaxTime) -> 0..FreeMax]
          BY <3>9, <5>1
        <5> QED
          BY <3>9, <5>2
      <4>5. ~(rate[b][w] < FreeMax) /\ FreeMax \in Nat
        BY <4>1, AdmissionAssumption DEF FreeRateOk
      <4> QED
        BY <4>3, <4>4, <4>5
    <3>10. \A b \in Bucket, w \in 0..WindowOf(MaxTime) :
             /\ Cardinality(SpentIn(b, w)) <= FreeMax
             /\ CannedIn(b, w) # {} => Cardinality(SpentIn(b, w)) = FreeMax
      BY <1>2 DEF LimiterInv, WindowBudget
    <3>11. \A b \in Bucket, w \in 0..WindowOf(MaxTime) :
             CannedIn(b, w)' # {} => Cardinality(SpentIn(b, w)) = FreeMax
      BY <3>9, <3>10
    <3>12. WindowBudget'
      BY <3>2, <3>6, <3>10, <3>11 DEF WindowBudget
    <3> QED
      BY <3>8, <3>12 DEF LimiterInv
  <2> QED
    BY <2>1, <2>2
<1> QED
  BY <1>1, <1>2, BasicInvariant, PTL DEF Spec

(* RateLimiter.check: no visitor of a surface gets more than               *)
(* demo_rate_limit_max uploads through in a window, and none is given the  *)
(* sample before he has had them all, whatever the interval between them,  *)
(* the restarts, the rows the cleanup deletes, and the other addresses and *)
(* surfaces that upload meanwhile.                                         *)
THEOREM LimiterHolds == Spec => []WindowBudget
<1>1. LimiterInv => WindowBudget
  BY DEF LimiterInv
<1> QED
  BY <1>1, LimiterInvariant, PTL

(* A stretch of time as long as a window lies in two windows.              *)
LEMMA StretchInTwoWindows ==
  ASSUME NEW t \in Nat, NEW x \in t..(t + Window - 1)
  PROVE  WindowOf(x) \in {WindowOf(t), WindowOf(t) + 1}
<1> DEFINE p == t \div Window
           q == x \div Window
<1>1. /\ Window \in Nat \ {0} /\ x \in Nat /\ t <= x /\ x < t + Window
      /\ p \in Nat /\ t < Window * p + Window
      /\ q \in Nat /\ Window * q <= x /\ p <= q
  BY AdmissionAssumption, DivType, DivMonotonic
<1> HIDE DEF p, q
<1>2. Window * q \in Nat /\ Window * p \in Nat
  BY <1>1
<1>3. Window * q < Window * p + Window + Window
  BY <1>1, <1>2
<1>4. ASSUME q >= p + 2
      PROVE  FALSE
  <2>1. Window * q >= Window * (p + 2)
    BY <1>1, <1>4
  <2>2. Window * (p + 2) = Window * p + Window + Window
    BY <1>1
  <2> QED
    BY <1>1, <1>2, <1>3, <2>1, <2>2
<1>5. q = p \/ q = p + 1
  BY <1>1, <1>4
<1> QED
  BY <1>5 DEF WindowOf, p, q

(* "30-day rolling window" (config.py:53): the windows are fixed, so the   *)
(* promise does not hold; what does, in any stretch of a window's length,  *)
(* is twice the budget.                                                    *)
RollingTwice ==
    \A b \in Bucket : \A t \in Time :
        Cardinality({r \in Spent(b) : admitted[r] \in t..(t + Window - 1)}) <= 2 * FreeMax

THEOREM TwiceTheBudgetAtMost == Spec => []RollingTwice
<1>1. TypeOK /\ WindowBudget => RollingTwice
  <2> SUFFICES ASSUME TypeOK, WindowBudget, NEW b \in Bucket, NEW t \in Time
               PROVE  Cardinality({r \in Spent(b) : admitted[r] \in t..(t + Window - 1)})
                        <= 2 * FreeMax
    BY DEF RollingTwice
  <2> DEFINE S == {r \in Spent(b) : admitted[r] \in t..(t + Window - 1)}
             A == SpentIn(b, WindowOf(t))
             B == SpentIn(b, WindowOf(t) + 1)
  <2>1. t \in Nat /\ t <= MaxTime /\ MaxTime \in Nat /\ FreeMax \in Nat
    BY AdmissionAssumption DEF Time
  <2>2. WindowOf(t) \in 0..WindowOf(MaxTime) /\ WindowOf(MaxTime) \in Nat
    BY <2>1, AdmissionAssumption, DivType, DivMonotonic DEF WindowOf
  <2>3. \A r \in Request : admitted[r] # Never => WindowOf(admitted[r]) \in 0..WindowOf(MaxTime)
    <3>1. \A r \in Request : admitted[r] # Never => admitted[r] \in 0..MaxTime
      BY DEF TypeOK, Time
    <3> QED
      BY <2>1, <3>1, AdmissionAssumption, DivType, DivMonotonic DEF WindowOf
  <2>4. S \subseteq A \cup B
    <3>1. \A r \in S : WindowOf(admitted[r]) \in {WindowOf(t), WindowOf(t) + 1}
      BY <2>1, StretchInTwoWindows
    <3> QED
      BY <3>1 DEF SpentIn
  <2>5. /\ IsFiniteSet(A) /\ Cardinality(A) \in Nat
        /\ IsFiniteSet(B) /\ Cardinality(B) \in Nat
    BY SpentFinite
  <2>6. Cardinality(A) <= FreeMax
    BY <2>2 DEF WindowBudget
  <2>7. Cardinality(B) <= FreeMax
    <3>1. CASE WindowOf(t) + 1 \in 0..WindowOf(MaxTime)
      BY <3>1 DEF WindowBudget
    <3>2. CASE WindowOf(t) + 1 \notin 0..WindowOf(MaxTime)
      <4>1. B = {}
        BY <2>3, <3>2 DEF SpentIn, Spent
      <4> QED
        BY <2>1, <4>1, FS_EmptySet
    <3> QED
      BY <3>1, <3>2
  <2> HIDE DEF S, A, B
  <2>8. /\ IsFiniteSet(A \cup B) /\ Cardinality(A \cup B) \in Nat
        /\ Cardinality(A \cup B) <= Cardinality(A) + Cardinality(B)
    <3>1. /\ IsFiniteSet(A \cup B) /\ IsFiniteSet(A \cap B)
          /\ Cardinality(A \cup B)
               = Cardinality(A) + Cardinality(B) - Cardinality(A \cap B)
      BY <2>5, FS_Union, FS_Intersection
    <3>2. Cardinality(A \cap B) \in Nat /\ Cardinality(A \cup B) \in Nat
      BY <3>1, FS_CardinalityType
    <3> QED
      BY <2>5, <3>1, <3>2
  <2>9. Cardinality(S) \in Nat /\ Cardinality(S) <= Cardinality(A \cup B)
    BY <2>4, <2>8, FS_Subset, FS_CardinalityType
  <2>10. Cardinality(S) <= 2 * FreeMax
    BY <2>1, <2>5, <2>6, <2>7, <2>8, <2>9
  <2> QED
    BY <2>10 DEF S
<1> QED
  BY <1>1, AdmissionType, LimiterHolds, PTL

-----------------------------------------------------------------------------
(* Metering.                                                               *)
RowOf(r) == [request |-> r, key |-> by[r], at |-> ended[r], success |-> TRUE]

MeteredInv == MeteredRowsKept /\ IsFiniteSet(rows)

(* What a step leaves of a request that has parsed, and how one comes to.  *)
LEMMA ParsedStep ==
  ASSUME Basic, [Next]_vars, NEW r \in Request, phase'[r] = "parsed"
  PROVE  \/ /\ phase[r] = "parsed" /\ by'[r] = by[r] /\ ended'[r] = ended[r]
         \/ EndParse(r, TRUE)
<1>1. TypeOK
  BY DEF Basic
<1>2. CASE UNCHANGED <<phase, by, ended>>
  BY <1>2
<1>3. CASE Restart
  BY <1>1, <1>3 DEF Restart, TypeOK
<1>4. ASSUME NEW q \in Request, RequestStep(q), q # r
      PROVE  phase[r] = "parsed" /\ by'[r] = by[r] /\ ended'[r] = ended[r]
  BY <1>1, <1>4 DEF RequestStep, Authenticate, TurnAway, AdmitByIP, AdmitLive, AdmitTest,
                    TooLarge, StartParse, EndParse, Admit, Sample, TypeOK
<1>5. CASE RequestStep(r)
  BY <1>1, <1>5 DEF RequestStep, Authenticate, TurnAway, AdmitByIP, AdmitLive, AdmitTest,
                    TooLarge, StartParse, EndParse, Admit, Sample, TypeOK
<1>6. \/ UNCHANGED <<phase, by, ended>>
      \/ Restart
      \/ \E q \in Request : RequestStep(q)
  BY DEF Next, vars, asked, IssueKey, RollTestKey, RevokeKey, ChangeSubscription, Erase, Tick,
         SweepAudit
<1> QED
  BY <1>2, <1>3, <1>4, <1>5, <1>6

LEMMA ClockStep ==
  ASSUME Basic, [Next]_vars
  PROVE  /\ now \in Nat /\ now' \in Nat /\ now <= now' /\ (~Tick => now' = now)
         /\ MonthOf(now) <= MonthOf(now)' /\ MonthOf(now) \in Nat /\ MonthOf(now)' \in Nat
         /\ erased \subseteq erased' /\ (erased' # erased => \E o \in Owner : Erase(o))
<1>1. now \in Nat
  BY TimeType DEF Basic
<1>2. (now' = now \/ now' = now + 1) /\ (~Tick => now' = now)
  BY DEF Next, vars, IssueKey, RollTestKey, RevokeKey, ChangeSubscription, Erase,
         RequestStep, Authenticate, TurnAway, AdmitByIP, AdmitLive, AdmitTest, TooLarge,
         StartParse, EndParse, Tick, SweepAudit, Restart
<1>3. erased \subseteq erased' /\ (erased' # erased => \E o \in Owner : Erase(o))
  BY DEF Next, vars, IssueKey, RollTestKey, RevokeKey, ChangeSubscription, Erase,
         RequestStep, Authenticate, TurnAway, AdmitByIP, AdmitLive, AdmitTest, TooLarge,
         StartParse, EndParse, Tick, SweepAudit, Restart
<1>4. now' \in Nat /\ now <= now'
  BY <1>1, <1>2
<1>5. MonthOf(now) <= MonthOf(now)' /\ MonthOf(now) \in Nat /\ MonthOf(now)' \in Nat
  BY <1>1, <1>4, DivMonotonic, DivType DEF MonthOf
<1> QED
  BY <1>1, <1>2, <1>3, <1>4, <1>5

(* What a step takes from the audit log.                                   *)
LEMMA RowsStep ==
  ASSUME Basic, [Next]_vars, NEW w \in rows
  PROVE  \/ w \in rows'
         \/ \E o \in Owner : Erase(o) /\ w.key \in Owned /\ KeyOwner[w.key] = o
         \/ SweepAudit /\ ~(w.at >= now - Retention)
<1>1. CASE rows \subseteq rows'
  BY <1>1
<1>2. CASE SweepAudit
  BY <1>2 DEF SweepAudit, KeptRows
<1>3. ASSUME NEW o \in Owner, Erase(o)
      PROVE  w \in rows' \/ (Erase(o) /\ w.key \in Owned /\ KeyOwner[w.key] = o)
  BY <1>3 DEF Erase
<1>4. rows \subseteq rows' \/ SweepAudit \/ \E o \in Owner : Erase(o)
  BY DEF Next, vars, IssueKey, RollTestKey, RevokeKey, ChangeSubscription,
         RequestStep, Authenticate, TurnAway, AdmitByIP, AdmitLive, AdmitTest, TooLarge,
         StartParse, EndParse, Tick, Restart, Admit, Sample, Audited
<1> QED
  BY <1>1, <1>2, <1>3, <1>4

LEMMA MeteredInvariant == Spec => []MeteredInv
<1>1. Init => MeteredInv
  BY FS_EmptySet DEF Init, MeteredInv, MeteredRowsKept
<1>2. ASSUME Basic, MeteredInv, [Next]_vars
      PROVE  MeteredRowsKept'
  <2> SUFFICES ASSUME NEW r \in Request, phase'[r] = "parsed", by'[r] \in Owned,
                      KeyOwner[by'[r]] \notin erased',
                      MonthOf(ended'[r]) >= MonthOf(now)' - 1
               PROVE  [request |-> r, key |-> by'[r], at |-> ended'[r], success |-> TRUE] \in rows'
    BY DEF MeteredRowsKept, MonthOf
  <2>1. CASE EndParse(r, TRUE)
    <3>1. TypeOK
      BY <1>2 DEF Basic
    <3> QED
      BY <2>1, <3>1 DEF EndParse, Audited, TypeOK
  <2>2. CASE phase[r] = "parsed" /\ by'[r] = by[r] /\ ended'[r] = ended[r]
    <3>1. /\ now \in Nat /\ MonthOf(now) \in Nat /\ MonthOf(now) <= MonthOf(now)'
          /\ MonthOf(now)' \in Nat /\ erased \subseteq erased'
      BY <1>2, ClockStep
    <3>2. ended[r] \in Nat
      BY <1>2, <2>2 DEF Basic, RequestOK
    <3>3. MonthOf(ended[r]) \in Nat
      BY <3>2, DivType DEF MonthOf
    <3>4. MonthOf(ended[r]) >= MonthOf(now) - 1
      BY <2>2, <3>1, <3>3
    <3>5. RowOf(r) \in rows
      BY <1>2, <2>2, <3>1, <3>4 DEF MeteredInv, MeteredRowsKept, RowOf
    <3>6. ended[r] >= now - (2 * Month - 1)
      BY <3>1, <3>2, <3>4, DivPrevious DEF MonthOf
    <3>7. RowOf(r).at >= now - Retention
      BY <3>1, <3>2, <3>6 DEF RowOf
    <3>8. ~ \E o \in Owner : Erase(o) /\ RowOf(r).key \in Owned /\ KeyOwner[RowOf(r).key] = o
      BY <2>2 DEF RowOf, Erase
    <3>9. RowOf(r) \in rows'
      BY <1>2, <3>5, <3>7, <3>8, RowsStep
    <3> QED
      BY <2>2, <3>9 DEF RowOf
  <2> QED
    BY <1>2, <2>1, <2>2, ParsedStep
<1>3. ASSUME Basic, MeteredInv, [Next]_vars
      PROVE  IsFiniteSet(rows')
  <2>1. rows' \subseteq rows \/ \E w : rows' = rows \cup {w}
    BY <1>3 DEF Next, vars, IssueKey, RollTestKey, RevokeKey, ChangeSubscription, Erase,
         RequestStep, Authenticate, TurnAway, AdmitByIP, AdmitLive, AdmitTest, TooLarge,
         StartParse, EndParse, Tick, SweepAudit, KeptRows, Restart, Admit, Sample, Audited
  <2>2. IsFiniteSet(rows)
    BY <1>3 DEF MeteredInv
  <2>3. CASE rows' \subseteq rows
    BY <2>2, <2>3, FS_Subset
  <2>4. ASSUME NEW w, rows' = rows \cup {w} PROVE IsFiniteSet(rows')
    BY <2>2, <2>4, FS_AddElement
  <2> QED
    BY <2>1, <2>3, <2>4
<1>4. ASSUME Basic, MeteredInv, [Next]_vars
      PROVE  MeteredInv'
  BY <1>2, <1>3, <1>4 DEF MeteredInv
<1> QED
  BY <1>1, <1>4, BasicInvariant, PTL DEF Spec

(* purge_older_than against the settings: a retention of at least two      *)
(* months less a day keeps the row of every success that this month's cap  *)
(* and last month's invoice count.                                         *)
THEOREM MeteringSurvivesSweeps == Spec => []MeteredRowsKept
<1>1. MeteredInv => MeteredRowsKept
  BY DEF MeteredInv
<1> QED
  BY <1>1, MeteredInvariant, PTL

-----------------------------------------------------------------------------
(* The test cap.                                                           *)
Of(o) == {r \in Request : by[r] \in Owned /\ KeyOwner[by[r]] = o}

InFlightOf(o) == {r \in Of(o) : phase[r] \in InFlight}

(* What counts against the cap of this month, or will.                     *)
TestInFlight(o) ==
    {r \in Request : /\ by[r] \in TestKeysOf(o)
                     /\ phase[r] \in {"admitted", "running"}}

TestLoad(o) == ParsedIn(o, MonthOf(now)) \cup TestInFlight(o)

Limit == TestCap + Concurrent - 1

Concurrency == \A o \in Owner : Cardinality(InFlightOf(o)) <= Concurrent

LoadKept == \A o \in Owner \ erased : Cardinality(TestLoad(o)) <= Limit

LEMMA RequestSets ==
  ASSUME NEW S \in SUBSET Request
  PROVE  /\ IsFiniteSet(S) /\ Cardinality(S) \in Nat
         /\ \A T \in SUBSET S : Cardinality(T) <= Cardinality(S)
BY FS_Subset, FS_CardinalityType

(* The concurrency of the owner is what Authenticate grants.               *)
LEMMA ConcurrencyInvariant == Spec => []Concurrency
<1>1. ASSUME Init
      PROVE  Concurrency
  <2>1. \A o \in Owner : InFlightOf(o) = {}
    BY <1>1 DEF Init, InFlightOf, Of, InFlight
  <2>2. Cardinality({}) = 0
    BY FS_EmptySet
  <2> QED
    BY <2>1, <2>2 DEF Concurrency
<1>2. ASSUME Basic, Concurrency, [Next]_vars
      PROVE  Concurrency'
  <2> SUFFICES ASSUME NEW o \in Owner
               PROVE  Cardinality(InFlightOf(o)') <= Concurrent
    BY DEF Concurrency
  <2>1. TypeOK /\ \A r \in Request : RequestOK(r)
    BY <1>2 DEF Basic
  <2>2. InFlightOf(o) \in SUBSET Request /\ InFlightOf(o)' \in SUBSET Request
    BY DEF InFlightOf, Of
  <2>3. CASE InFlightOf(o)' \subseteq InFlightOf(o)
    <3>1. /\ Cardinality(InFlightOf(o)') <= Cardinality(InFlightOf(o))
          /\ Cardinality(InFlightOf(o)') \in Nat /\ Cardinality(InFlightOf(o)) \in Nat
      BY <2>2, <2>3, RequestSets
    <3> QED
      BY <1>2, <3>1 DEF Concurrency
  <2>4. ASSUME NEW r \in Request, NEW k \in Caller, Authenticate(r, k)
        PROVE  Cardinality(InFlightOf(o)') <= Concurrent
    <3>1. \A q \in Request : q # r => phase'[q] = phase[q] /\ by'[q] = by[q]
      BY <2>1, <2>4 DEF Authenticate, TypeOK
    <3>2. CASE k \in Owned /\ KeyOwner[k] = o
      <4>1. InFlightOf(o) = {q \in Request : phase[q] \in InFlight /\ Sibling(k, by[q])}
        BY <3>2 DEF InFlightOf, Of, Sibling
      <4>2. Cardinality(InFlightOf(o)) < Concurrent
        BY <2>4, <3>2, <4>1 DEF Authenticate
      <4>3. InFlightOf(o)' \in SUBSET (InFlightOf(o) \cup {r})
        BY <3>1 DEF InFlightOf, Of
      <4>4. IsFiniteSet(InFlightOf(o)) /\ Cardinality(InFlightOf(o)) \in Nat
        BY <2>2, RequestSets
      <4>5. Cardinality(InFlightOf(o) \cup {r}) <= Concurrent
        <5>1. Cardinality(InFlightOf(o) \cup {r}) =
                IF r \in InFlightOf(o) THEN Cardinality(InFlightOf(o))
                ELSE Cardinality(InFlightOf(o)) + 1
          BY <4>4, FS_AddElement
        <5> QED
          BY <4>2, <4>4, <5>1
      <4>6. InFlightOf(o) \cup {r} \in SUBSET Request
        BY <2>2
      <4>7. /\ Cardinality(InFlightOf(o)') <= Cardinality(InFlightOf(o) \cup {r})
            /\ Cardinality(InFlightOf(o) \cup {r}) \in Nat /\ Cardinality(InFlightOf(o)') \in Nat
        BY <2>2, <4>3, <4>6, RequestSets
      <4> QED
        BY <4>5, <4>7
    <3>3. CASE ~(k \in Owned /\ KeyOwner[k] = o)
      <4>1. by'[r] = k
        BY <2>1, <2>4 DEF Authenticate, TypeOK
      <4>2. InFlightOf(o)' \subseteq InFlightOf(o)
        BY <3>1, <3>3, <4>1 DEF InFlightOf, Of
      <4> QED
        BY <2>3, <4>2
    <3> QED
      BY <3>2, <3>3
  <2>5. ASSUME NEW r \in Request, RequestStep(r), ~ \E k \in Caller : Authenticate(r, k)
        PROVE  InFlightOf(o)' \subseteq InFlightOf(o)
    <3>1. UNCHANGED by /\ \A q \in Request : phase'[q] \in InFlight => phase[q] \in InFlight
      BY <2>1, <2>5 DEF RequestStep, TurnAway, AdmitByIP, AdmitLive, AdmitTest,
                TooLarge, StartParse, EndParse, Admit, Sample, TypeOK, InFlight
    <3> QED
      BY <3>1 DEF InFlightOf, Of
  <2>6. CASE UNCHANGED asked \/ Restart
    <3>1. UNCHANGED by /\ \A q \in Request : phase'[q] \in InFlight => phase[q] \in InFlight
      BY <2>6 DEF asked, Restart, InFlight
    <3> QED
      BY <2>3, <3>1 DEF InFlightOf, Of
  <2>7. \/ UNCHANGED asked \/ Restart
        \/ \E r \in Request : RequestStep(r)
    BY <1>2 DEF Next, vars, asked, IssueKey, RollTestKey, RevokeKey, ChangeSubscription, Erase,
       Tick, SweepAudit
  <2> QED
    BY <2>3, <2>4, <2>5, <2>6, <2>7
<1> QED
  BY <1>1, <1>2, BasicInvariant, PTL DEF Spec

(* What has parsed is counted: each success of the month has a row of its  *)
(* own, and the key it joins with is not deleted.                          *)
LEMMA ParsedIsUsed ==
  ASSUME Basic, MeteredInv, NEW k \in TestKey, KeyOwner[k] \notin erased
  PROVE  Cardinality(ParsedIn(KeyOwner[k], MonthOf(now))) <= Used(k)
<1> DEFINE S == ParsedIn(KeyOwner[k], MonthOf(now))
           T == {w \in rows : /\ w.key \in TestKeysOf(KeyOwner[k])
                              /\ keys[w.key] # "deleted"
                              /\ w.success
                              /\ MonthOf(w.at) = MonthOf(now)}
           f == [r \in S |-> RowOf(r)]
<1>1. TestKey \subseteq Owned /\ TestKey \subseteq Key /\ MonthOf(now) \in Nat
  BY TimeType DEF Owned, Key, Basic
<1>2. ASSUME NEW r \in S
      PROVE  RowOf(r) \in T
  <2>1. /\ r \in Request /\ by[r] \in TestKey /\ KeyOwner[by[r]] = KeyOwner[k]
        /\ phase[r] = "parsed" /\ MonthOf(ended[r]) = MonthOf(now)
    BY <1>2 DEF ParsedIn, TestKeysOf
  <2>2. RowOf(r) \in rows
    BY <1>1, <2>1 DEF MeteredInv, MeteredRowsKept, RowOf
  <2>3. keys[by[r]] # "deleted"
    BY <1>1, <2>1 DEF Basic, DeletedByErasure
  <2> QED
    BY <2>1, <2>2, <2>3 DEF RowOf, TestKeysOf
<1>3. \A r, q \in S : RowOf(r) = RowOf(q) => r = q
  BY DEF RowOf
<1>4. f \in Injection(S, T)
  BY <1>2, <1>3 DEF Injection, IsInjective
<1>5. IsFiniteSet(T)
  BY FS_Subset DEF MeteredInv
<1>6. Cardinality(S) <= Cardinality(T)
  BY <1>4, <1>5, FS_Injection
<1> QED
  BY <1>6 DEF Used

(* Only an admission adds to the load of a month.                          *)
LEMMA LoadStep ==
  ASSUME Basic, [Next]_vars, NEW o \in Owner, MonthOf(now)' = MonthOf(now),
         \A r \in Request : AdmitTest(r) => by[r] \notin TestKeysOf(o) \/ phase'[r] # "admitted"
  PROVE  TestLoad(o)' \subseteq TestLoad(o)
<1> SUFFICES ASSUME NEW r \in Request, r \in TestLoad(o)'
             PROVE  r \in TestLoad(o)
  BY DEF TestLoad, ParsedIn, TestInFlight
<1> USE DEF TestLoad, ParsedIn, TestInFlight
<1>1. TypeOK /\ RequestOK(r)
  BY DEF Basic
<1>2. CASE phase'[r] = "parsed" /\ by'[r] \in TestKeysOf(o) /\ MonthOf(ended'[r]) = MonthOf(now)
  <2>1. CASE EndParse(r, TRUE)
    BY <1>2, <2>1 DEF EndParse
  <2>2. CASE phase[r] = "parsed" /\ by'[r] = by[r] /\ ended'[r] = ended[r]
    BY <1>2, <2>2
  <2> QED
    BY <1>2, <2>1, <2>2, ParsedStep
<1>3. CASE phase'[r] \in {"admitted", "running"} /\ by'[r] \in TestKeysOf(o)
  <2>1. CASE UNCHANGED <<phase, by>>
    BY <1>3, <2>1
  <2>2. CASE Restart
    BY <1>3, <2>2 DEF Restart, InFlight
  <2>3. ASSUME NEW q \in Request, RequestStep(q), q # r
        PROVE  phase'[r] = phase[r] /\ by'[r] = by[r]
    BY <1>1, <2>3 DEF RequestStep, Authenticate, TurnAway, AdmitByIP, AdmitLive, AdmitTest,
                      TooLarge, StartParse, EndParse, Admit, Sample, TypeOK
  <2>4. CASE RequestStep(r)
    <3>1. TestKeysOf(o) \cap (DemoKey \cup FirstPartyKey \cup LiveKey) = {}
      BY DEF TestKeysOf, Key, Owned
    <3>2. ~AdmitTest(r) /\ ~AdmitByIP(r) /\ ~AdmitLive(r)
      <4>1. AdmitTest(r) => by' = by /\ phase'[r] \in {"admitted", "sampled"}
        BY <1>1 DEF AdmitTest, Admit, Sample, TypeOK
      <4>2. AdmitByIP(r) \/ AdmitLive(r) =>
              by' = by /\ by[r] \in DemoKey \cup FirstPartyKey \cup LiveKey
        BY DEF AdmitByIP, AdmitLive
      <4> QED
        BY <1>3, <3>1, <4>1, <4>2
    <3>3. ~TurnAway(r) /\ ~TooLarge(r) /\ ~(\E k \in Caller : Authenticate(r, k))
          /\ ~(\E success \in BOOLEAN : EndParse(r, success))
      BY <1>1, <1>3 DEF TurnAway, TooLarge, Authenticate, EndParse, TypeOK
    <3>4. StartParse(r)
      BY <2>4, <3>2, <3>3 DEF RequestStep
    <3> QED
      BY <1>3, <3>4 DEF StartParse
  <2>5. \/ UNCHANGED <<phase, by>>
        \/ Restart
        \/ \E q \in Request : RequestStep(q)
    BY DEF Next, vars, asked, IssueKey, RollTestKey, RevokeKey, ChangeSubscription, Erase, Tick,
           SweepAudit
  <2> QED
    BY <1>3, <2>1, <2>2, <2>3, <2>4, <2>5
<1> QED
  BY <1>2, <1>3 DEF MonthOf

(* An admission: below the cap there was room for what its owner may have  *)
(* in flight.                                                              *)
LEMMA AdmitTestLoad ==
  ASSUME Basic, MeteredInv, Concurrency', NEW r \in Request, AdmitTest(r),
         phase'[r] = "admitted", KeyOwner[by[r]] \notin erased
  PROVE  Cardinality(TestLoad(KeyOwner[by[r]])') <= Limit
<1>1. TypeOK
  BY DEF Basic
<1>2. /\ by[r] \in TestKey /\ UNCHANGED <<now, keys, erased, by>> /\ Used(by[r]) < TestCap
  BY <1>1 DEF AdmitTest, Sample, TypeOK
<1>3. UNCHANGED <<ended, rows>> /\ phase' = [phase EXCEPT ![r] = "admitted"]
  BY <1>1, <1>2 DEF AdmitTest, Admit
<1> PICK o \in Owner : o = KeyOwner[by[r]]
  BY <1>2 DEF Owned
<1> DEFINE P == ParsedIn(o, MonthOf(now))
<1>4. P \in SUBSET Request /\ InFlightOf(o)' \in SUBSET Request /\ TestLoad(o)' \in SUBSET Request
  BY DEF ParsedIn, InFlightOf, Of, TestLoad, TestInFlight
<1>5. TestLoad(o)' \subseteq P \cup InFlightOf(o)'
  <2>1. TestInFlight(o)' \subseteq InFlightOf(o)'
    BY DEF TestInFlight, InFlightOf, Of, TestKeysOf, Owned, InFlight
  <2>2. ParsedIn(o, MonthOf(now))' \subseteq P
    BY <1>1, <1>2, <1>3 DEF ParsedIn, MonthOf, TypeOK
  <2> QED
    BY <2>1, <2>2 DEF TestLoad
<1>6. Cardinality(P) <= TestCap - 1
  <2>1. Cardinality(P) <= Used(by[r])
    BY <1>2, ParsedIsUsed
  <2>2. Used(by[r]) \in Nat
    <3>1. IsFiniteSet(rows)
      BY DEF MeteredInv
    <3>2. {w \in rows : /\ w.key \in TestKeysOf(KeyOwner[by[r]])
                        /\ keys[w.key] # "deleted"
                        /\ w.success
                        /\ MonthOf(w.at) = MonthOf(now)} \in SUBSET rows
      OBVIOUS
    <3> QED
      BY <3>1, <3>2, FS_Subset, FS_CardinalityType DEF Used
  <2>3. Cardinality(P) \in Nat
    BY <1>4, RequestSets
  <2> QED
    BY <1>2, <2>1, <2>2, <2>3
<1>7. Cardinality(InFlightOf(o)') <= Concurrent
  BY DEF Concurrency
<1>8. /\ Cardinality(P) \in Nat /\ Cardinality(InFlightOf(o)') \in Nat
      /\ IsFiniteSet(P) /\ IsFiniteSet(InFlightOf(o)')
  BY <1>4, RequestSets
<1>9. Cardinality(P \cup InFlightOf(o)') <= Cardinality(P) + Cardinality(InFlightOf(o)')
  <2>1. P \cap InFlightOf(o)' \in SUBSET Request
    BY <1>4
  <2>2. Cardinality(P \cap InFlightOf(o)') \in Nat
    BY <2>1, RequestSets
  <2>3. Cardinality(P \cup InFlightOf(o)') =
          Cardinality(P) + Cardinality(InFlightOf(o)') - Cardinality(P \cap InFlightOf(o)')
    BY <1>8, FS_Union
  <2> QED
    BY <1>8, <2>2, <2>3
<1>10. /\ Cardinality(TestLoad(o)') <= Cardinality(P \cup InFlightOf(o)')
       /\ Cardinality(TestLoad(o)') \in Nat /\ Cardinality(P \cup InFlightOf(o)') \in Nat
  <2>1. P \cup InFlightOf(o)' \in SUBSET Request
    BY <1>4
  <2> QED
    BY <1>4, <1>5, <2>1, RequestSets
<1>11. Cardinality(TestLoad(o)') <= Limit
  BY <1>6, <1>7, <1>8, <1>9, <1>10 DEF Limit
<1>12. KeyOwner[by[r]]' = KeyOwner[by[r]]
  BY <1>2
<1> QED
  BY <1>11, <1>12

LEMMA LoadInvariant == Spec => []LoadKept
<1>1. ASSUME Init
      PROVE  LoadKept
  <2>1. \A o \in Owner : TestLoad(o) = {}
    BY <1>1 DEF Init, TestLoad, ParsedIn, TestInFlight
  <2>2. Cardinality({}) = 0
    BY FS_EmptySet
  <2>3. 0 <= Limit
    BY DEF Limit
  <2> QED
    BY <2>1, <2>2, <2>3 DEF LoadKept
<1>2. ASSUME Basic, MeteredInv, Concurrency, Concurrency', LoadKept, [Next]_vars
      PROVE  LoadKept'
  <2> SUFFICES ASSUME NEW o \in Owner, o \notin erased'
               PROVE  Cardinality(TestLoad(o)') <= Limit
    BY DEF LoadKept, Limit
  <2>1. /\ now \in Nat /\ MonthOf(now) <= MonthOf(now)' /\ MonthOf(now) \in Nat
        /\ MonthOf(now)' \in Nat /\ (~Tick => now' = now) /\ o \notin erased
    BY <1>2, ClockStep
  <2>2. TestLoad(o) \in SUBSET Request /\ TestLoad(o)' \in SUBSET Request
    BY DEF TestLoad, ParsedIn, TestInFlight
  <2>3. CASE TestLoad(o)' \subseteq TestLoad(o)
    <3>1. Cardinality(TestLoad(o)') <= Cardinality(TestLoad(o)) /\ Cardinality(TestLoad(o)) <= Limit
      BY <1>2, <2>1, <2>2, <2>3, RequestSets DEF LoadKept
    <3>2. Cardinality(TestLoad(o)') \in Nat /\ Cardinality(TestLoad(o)) \in Nat /\ Limit \in Nat
      BY <2>2, RequestSets DEF Limit
    <3> QED
      BY <3>1, <3>2
  <2>4. CASE MonthOf(now)' # MonthOf(now)
    <3>1. Tick
      BY <2>1, <2>4 DEF MonthOf
    <3>2. TestLoad(o)' \subseteq InFlightOf(o)
      <4>1. ASSUME NEW r \in Request, phase[r] = "parsed", MonthOf(ended[r]) = MonthOf(now)'
            PROVE  FALSE
        <5>1. ended[r] \in 0..now
          BY <1>2, <4>1 DEF Basic, RequestOK
        <5>2. MonthOf(ended[r]) <= MonthOf(now) /\ MonthOf(ended[r]) \in Nat
          BY <2>1, <5>1, DivMonotonic, DivType DEF MonthOf
        <5> QED
          BY <2>1, <2>4, <4>1, <5>2
      <4>2. ParsedIn(o, MonthOf(now))' = {}
        BY <3>1, <4>1 DEF Tick, asked, ParsedIn, MonthOf
      <4>3. TestInFlight(o)' \subseteq InFlightOf(o)
        BY <3>1 DEF Tick, asked, TestInFlight, InFlightOf, Of, TestKeysOf, Owned, InFlight
      <4> QED
        BY <4>2, <4>3 DEF TestLoad
    <3>3. InFlightOf(o) \in SUBSET Request
      BY DEF InFlightOf, Of
    <3>4. /\ Cardinality(TestLoad(o)') <= Cardinality(InFlightOf(o))
          /\ Cardinality(TestLoad(o)') \in Nat /\ Cardinality(InFlightOf(o)) \in Nat
          /\ Cardinality(InFlightOf(o)) <= Concurrent
      BY <1>2, <2>2, <3>2, <3>3, RequestSets DEF Concurrency
    <3> QED
      BY <3>4 DEF Limit
  <2>5. ASSUME NEW r \in Request, AdmitTest(r), by[r] \in TestKeysOf(o), phase'[r] = "admitted"
        PROVE  Cardinality(TestLoad(o)') <= Limit
    <3>1. KeyOwner[by[r]] = o /\ KeyOwner[by[r]] \notin erased /\ by' = by
      BY <2>1, <2>5 DEF TestKeysOf, AdmitTest
    <3>2. Cardinality(TestLoad(KeyOwner[by[r]])') <= Limit
      BY <1>2, <2>5, <3>1, AdmitTestLoad
    <3>3. TestLoad(KeyOwner[by[r]])' = TestLoad(o)'
      BY <3>1
    <3> QED
      BY <3>2, <3>3
  <2>6. CASE MonthOf(now)' = MonthOf(now) /\ \A r \in Request :
               AdmitTest(r) => by[r] \notin TestKeysOf(o) \/ phase'[r] # "admitted"
    BY <1>2, <2>3, <2>6, LoadStep
  <2> QED
    BY <2>4, <2>5, <2>6
<1> QED
  BY <1>1, <1>2, BasicInvariant, MeteredInvariant, ConcurrencyInvariant, PTL DEF Spec

(* _test_over_cap: whatever is rolled, revoked, restarted, swept or runs   *)
(* over the end of a month, an owner with at most Concurrent requests in   *)
(* flight gets at most Concurrent - 1 test parses beyond the cap.          *)
THEOREM TestCapHoldsButForConcurrency == Spec => []TestCapOvershoot
<1> DEFINE Past == \A o \in Owner \ erased : \A m \in Nat : Cardinality(ParsedIn(o, m)) <= Limit
<1>1. ASSUME Init
      PROVE  Past
  <2>1. \A o \in Owner, m \in Nat : ParsedIn(o, m) = {}
    BY <1>1 DEF Init, ParsedIn
  <2>2. Cardinality({}) = 0
    BY FS_EmptySet
  <2>3. 0 <= Limit
    BY DEF Limit
  <2> QED
    BY <2>1, <2>2, <2>3
<1>2. ASSUME Basic, Basic', LoadKept', Past, [Next]_vars
      PROVE  Past'
  <2> SUFFICES ASSUME NEW o \in Owner, o \notin erased', NEW m \in Nat
               PROVE  Cardinality(ParsedIn(o, m)') <= Limit
    BY DEF Limit
  <2>1. o \notin erased /\ (~Tick => now' = now)
    BY <1>2, ClockStep
  <2>2. ParsedIn(o, m) \in SUBSET Request /\ ParsedIn(o, m)' \in SUBSET Request
    BY DEF ParsedIn
  <2>3. CASE ParsedIn(o, m)' \subseteq ParsedIn(o, m)
    <3>1. /\ Cardinality(ParsedIn(o, m)') <= Cardinality(ParsedIn(o, m))
          /\ Cardinality(ParsedIn(o, m)') \in Nat /\ Cardinality(ParsedIn(o, m)) \in Nat
          /\ Cardinality(ParsedIn(o, m)) <= Limit /\ Limit \in Nat
      BY <1>2, <2>1, <2>2, <2>3, RequestSets DEF Limit
    <3> QED
      BY <3>1
  <2>4. CASE m = MonthOf(now)'
    <3>1. ParsedIn(o, m)' \subseteq TestLoad(o)' /\ TestLoad(o)' \in SUBSET Request
      BY <2>4 DEF TestLoad, ParsedIn, TestInFlight
    <3>2. /\ Cardinality(ParsedIn(o, m)') <= Cardinality(TestLoad(o)')
          /\ Cardinality(ParsedIn(o, m)') \in Nat /\ Cardinality(TestLoad(o)') \in Nat
          /\ Cardinality(TestLoad(o)') <= Limit /\ Limit \in Nat
      BY <1>2, <2>2, <3>1, RequestSets DEF LoadKept, Limit
    <3> QED
      BY <3>2
  <2>5. CASE m # MonthOf(now)'
    <3>1. ASSUME NEW r \in Request, r \in ParsedIn(o, m)'
          PROVE  r \in ParsedIn(o, m)
      <4>1. phase'[r] = "parsed"
        BY <3>1 DEF ParsedIn
      <4>2. CASE EndParse(r, TRUE)
        <5>1. ended'[r] = now /\ now' = now
          BY <1>2, <4>2 DEF EndParse, Basic, TypeOK
        <5> QED
          BY <2>5, <3>1, <5>1 DEF ParsedIn, MonthOf
      <4>3. CASE phase[r] = "parsed" /\ by'[r] = by[r] /\ ended'[r] = ended[r]
        BY <3>1, <4>3 DEF ParsedIn, MonthOf
      <4> QED
        BY <1>2, <4>1, <4>2, <4>3, ParsedStep
    <3> QED
      BY <2>2, <2>3, <3>1
  <2> QED
    BY <2>4, <2>5
<1>3. Past => TestCapOvershoot
  <2>1. MonthOf(MaxTime) \in Nat
    BY DivType DEF MonthOf
  <2> QED
    BY <2>1 DEF TestCapOvershoot, Limit
<1> QED
  BY <1>1, <1>2, <1>3, BasicInvariant, LoadInvariant, PTL DEF Spec

(* "25 successful parses per owner per calendar month" (PRICING.md:94) is  *)
(* kept to an owner who sends one upload after the other.                  *)
THEOREM OneAtATimeKeepsTheCap ==
  ASSUME Concurrent = 1
  PROVE  Spec => []TestCapHolds
<1>1. TestCap + Concurrent - 1 = TestCap
  BY AdmissionAssumption
<1>2. TestCapOvershoot => TestCapHolds
  BY <1>1 DEF TestCapOvershoot, TestCapHolds
<1> QED
  BY <1>2, TestCapHoldsButForConcurrency, PTL
=============================================================================
