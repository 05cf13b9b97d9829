--------------------------- MODULE KeysPageProofs ---------------------------
(***************************************************************************)
(* Theorems about KeysPage, for any tabs, owners and number of keys.       *)
(*                                                                         *)
(* A key that stops working was revoked by its owner.  The worker does not *)
(* ask whose key it revokes, so the invariant carries what the route found *)
(* from its check to its call: a key never changes hands in between.       *)
(* And a raw key leaves the screen in the ways the page means it to.       *)
(***************************************************************************)
EXTENDS KeysPage, TLAPS

USE KeysAssumption

IssuedOnly == active \subseteq 1..issued

(* What a checked revocation is about is its owner's.                      *)
CheckedIsOwned ==
    \A t \in Tab : req[t]["revoke"].pc = "checked" =>
        /\ req[t]["revoke"].key \in 1..issued
        /\ keyOwner[req[t]["revoke"].key] = req[t]["revoke"].owner

KeysInv == TypeOK /\ IssuedOnly /\ CheckedIsOwned

(* Why a key may stop working.                                             *)
RevokedStep ==
    \A k \in active \ active' : \E t \in Tab :
        \/ /\ req[t]["revoke"].pc = "checked" /\ req[t]["revoke"].key = k
           /\ req[t]["revoke"].owner = keyOwner[k]
        \/ /\ tier[k] = "test"
           /\ req[t]["roll"].pc = "authed" /\ req[t]["roll"].owner = keyOwner[k]

(* Why a raw key may leave the screen of tab t.                            *)
Excused(t) ==
    \/ Done(t) \/ Load(t)
    \/ t \in stale /\ page'[t] # "keys"
    \/ \E s \in {"create", "roll"} : req[t][s].pc = "ok" /\ created'[t] = req[t][s].key

KeyStaysStep == \A t \in Tab : created[t] # None /\ created'[t] # created[t] => Excused(t)

-----------------------------------------------------------------------------
(* A page lists an owner's keys.                                           *)
LEMMA RenderType ==
  ASSUME KeysInv, NEW t \in Tab, RenderKeys(t) \/ RenderWithoutKeys(t)
  PROVE  /\ page' \in [Tab -> {"closed", "keys", "unavailable"}]
         /\ shown' \in [Tab -> [owner : Owner \cup {None}, all : SUBSET Key,
                                active : SUBSET Key]]
<1>1. \A o \in Owner \cup {None} :
        Listed(o) \in [owner : Owner \cup {None}, all : SUBSET Key, active : SUBSET Key]
  BY DEF Listed, Own, KeysInv, TypeOK, Key
<1>2. NoList \in [owner : Owner \cup {None}, all : SUBSET Key, active : SUBSET Key]
  BY DEF NoList
<1>3. \E x \in {"closed", "keys", "unavailable"}, o \in Owner \cup {None} :
        /\ page' = [page EXCEPT ![t] = x]
        /\ \/ shown' = [shown EXCEPT ![t] = Listed(o)]
           \/ shown' = [shown EXCEPT ![t] = NoList]
  BY DEF RenderKeys, RenderWithoutKeys, KeysInv, TypeOK
<1> QED
  BY <1>1, <1>2, <1>3 DEF KeysInv, TypeOK

(* A new key goes to the slot after the last one.                          *)
LEMMA IssueStep ==
  ASSUME KeysInv, NEW o \in Owner \cup {None}, NEW kind \in {"test", "live"},
         NEW S, Issue(o, kind, S)
  PROVE  /\ issued + 1 \in Key /\ issued \in Nat
         /\ issued' = issued + 1 /\ issued' \in 0..MaxKey
         /\ keyOwner' \in [Key -> Owner \cup {None}]
         /\ tier' \in [Key -> {"test", "live", "none"}]
         /\ active' \subseteq 1..issued' /\ active' \subseteq Key
         /\ \A k \in 1..issued : keyOwner'[k] = keyOwner[k]
         /\ active \ active' \subseteq S
<1>1. issued + 1 \in Key /\ issued \in Nat /\ issued' = issued + 1
  BY DEF Issue, Key, KeysInv, TypeOK
<1>2. \A k \in 1..issued : keyOwner'[k] = keyOwner[k]
  BY <1>1 DEF Issue, KeysInv, TypeOK
<1>3. active' \subseteq 1..issued' /\ issued' \in 0..MaxKey /\ active' \subseteq Key
  <2>1. issued + 1 \in 0..MaxKey
    BY <1>1 DEF Key
  <2>2. 1..issued \subseteq 1..(issued + 1) /\ issued + 1 \in 1..(issued + 1)
        /\ 1..(issued + 1) \subseteq Key
    BY <1>1, <2>1 DEF Key
  <2>3. active' = (active \ S) \cup {issued + 1} /\ active \subseteq 1..issued
    BY DEF Issue, KeysInv, IssuedOnly
  <2> QED
    BY <1>1, <2>1, <2>2, <2>3
<1>4. keyOwner' \in [Key -> Owner \cup {None}] /\ tier' \in [Key -> {"test", "live", "none"}]
  BY <1>1 DEF Issue, KeysInv, TypeOK
<1>5. active \ active' \subseteq S
  BY DEF Issue
<1> QED
  BY <1>1, <1>2, <1>3, <1>4, <1>5

(* A request that goes away or is not a checked revocation.                *)
LEMMA ReqSet ==
  ASSUME KeysInv, NEW t \in Tab, NEW s \in Slot, NEW r \in Request,
         req' = [req EXCEPT ![t][s] = r],
         s = "revoke" => r.pc # "checked",
         \A k \in 1..issued : keyOwner'[k] = keyOwner[k],
         issued' \in Nat, issued <= issued'
  PROVE  req' \in [Tab -> [Slot -> Request]] /\ CheckedIsOwned'
<1>1. req' \in [Tab -> [Slot -> Request]]
  BY DEF KeysInv, TypeOK
<1>2. ASSUME NEW u \in Tab, req'[u]["revoke"].pc = "checked"
      PROVE  req'[u]["revoke"] = req[u]["revoke"]
  BY <1>2 DEF KeysInv, TypeOK, Slot
<1>3. issued \in Nat
  BY DEF KeysInv, TypeOK
<1> QED
  BY <1>1, <1>2, <1>3 DEF KeysInv, CheckedIsOwned

LEMMA NoReqType == NoReq \in Request
  BY DEF NoReq, Request

-----------------------------------------------------------------------------
(* Nothing of the worker changes, and no request but possibly to go away.  *)
LEMMA UserStep ==
  ASSUME KeysInv, NEW t \in Tab, Click(t)
  PROVE  TypeOK' /\ IssuedOnly' /\ CheckedIsOwned' /\ UNCHANGED active
<1>0. UNCHANGED <<session, workerVars>>
  BY DEF Click, Load, LoadCreating, OpenCreate, CreateLiveKey, ClickRoll, RollTestKey,
         ClickRevoke, DoRevoke, Dismiss, Done
<1>1. CASE Load(t)
  <2>1. /\ page' \in [Tab -> {"closed", "keys", "unavailable"}]
        /\ shown' \in [Tab -> [owner : Owner \cup {None}, all : SUBSET Key,
                               active : SUBSET Key]]
    BY <1>1, RenderType DEF Load
  <2>2. req' \in [Tab -> [Slot -> Request]]
    BY <1>1, NoReqType DEF Load, KeysInv, TypeOK
  <2>3. \A u \in Tab : req'[u]["revoke"].pc = "checked" => req'[u] = req[u]
    <3>1. NoReq.pc # "checked" /\ "revoke" \in Slot
      BY DEF NoReq, Slot
    <3>2. req' = [req EXCEPT ![t] = [s \in Slot |-> NoReq]]
      BY <1>1 DEF Load
    <3> QED
      BY <3>1, <3>2 DEF KeysInv, TypeOK
  <2>4. /\ open' \in [Tab -> SUBSET {"create", "roll"}] /\ stale' \subseteq Tab
        /\ target' \in [Tab -> Key \cup {None}] /\ created' \in [Tab -> Key \cup {None}]
    BY <1>1 DEF Load, Unmount, KeysInv, TypeOK
  <2>5. CheckedIsOwned'
    BY <1>0, <2>3 DEF KeysInv, CheckedIsOwned, workerVars
  <2> QED
    BY <1>0, <2>1, <2>2, <2>4, <2>5 DEF KeysInv, TypeOK, IssuedOnly, workerVars
<1>2. CASE LoadCreating(t)
  <2>1. /\ page' \in [Tab -> {"closed", "keys", "unavailable"}]
        /\ shown' \in [Tab -> [owner : Owner \cup {None}, all : SUBSET Key,
                               active : SUBSET Key]]
    BY <1>2, RenderType DEF LoadCreating
  <2> QED
    BY <1>0, <1>2, <2>1
    DEF LoadCreating, KeysInv, TypeOK, IssuedOnly, CheckedIsOwned, workerVars
<1>3. CASE OpenCreate(t) \/ ClickRoll(t) \/ ClickRevoke(t) \/ Dismiss(t) \/ Done(t)
  <2>1. UNCHANGED <<session, workerVars, page, shown, req, stale>>
    BY <1>3 DEF OpenCreate, ClickRoll, ClickRevoke, Dismiss, Done
  <2>2. open' \in [Tab -> SUBSET {"create", "roll"}]
    BY <1>3 DEF OpenCreate, ClickRoll, ClickRevoke, Dismiss, Done, KeysInv, TypeOK
  <2>3. target' \in [Tab -> Key \cup {None}]
    <3>1. target \in [Tab -> Key \cup {None}]
      BY DEF KeysInv, TypeOK
    <3>2. CASE ClickRevoke(t)
      <4>1. \A k \in ShownLive(t) : k \in Key
        BY DEF ShownLive, KeysInv, TypeOK
      <4>2. PICK k \in ShownLive(t) : target' = [target EXCEPT ![t] = k]
        BY <3>2 DEF ClickRevoke
      <4> QED
        BY <3>1, <4>1, <4>2
    <3>3. CASE Dismiss(t)
      BY <3>1, <3>3 DEF Dismiss
    <3>4. CASE OpenCreate(t) \/ ClickRoll(t) \/ Done(t)
      BY <3>1, <3>4 DEF OpenCreate, ClickRoll, Done
    <3> QED
      BY <1>3, <3>2, <3>3, <3>4
  <2>4. created' \in [Tab -> Key \cup {None}]
    BY <1>3 DEF OpenCreate, ClickRoll, ClickRevoke, Dismiss, Done, KeysInv, TypeOK
  <2> QED
    BY <2>1, <2>2, <2>3, <2>4
    DEF KeysInv, TypeOK, IssuedOnly, CheckedIsOwned, workerVars
<1>4. CASE CreateLiveKey(t) \/ RollTestKey(t) \/ DoRevoke(t)
  <2>1. PICK s \in Slot, k \in Key \cup {None} : RequireOwner(t, s, k)
    BY <1>4 DEF CreateLiveKey, RollTestKey, DoRevoke, Slot, KeysInv, TypeOK
  <2>2. req' \in [Tab -> [Slot -> Request]] /\ CheckedIsOwned'
    <3>1. CASE session = None
      BY <1>0, <2>1, <3>1
      DEF RequireOwner, KeysInv, TypeOK, CheckedIsOwned, workerVars
    <3>2. CASE session # None
      <4> DEFINE r == [pc |-> "authed", owner |-> session, key |-> k, mounted |-> TRUE]
      <4>1. r \in Request /\ r.pc # "checked"
        BY DEF Request, KeysInv, TypeOK
      <4>2. req' = [req EXCEPT ![t][s] = r]
        BY <2>1, <3>2 DEF RequireOwner
      <4>3. issued' = issued /\ keyOwner' = keyOwner /\ issued \in Nat /\ issued <= issued'
        BY <1>0 DEF workerVars, KeysInv, TypeOK
      <4> QED
        BY <4>1, <4>2, <4>3, ReqSet
    <3> QED
      BY <3>1, <3>2
  <2>3. /\ open' \in [Tab -> SUBSET {"create", "roll"}]
        /\ UNCHANGED <<page, shown, target, created, stale>>
    BY <1>4 DEF CreateLiveKey, RollTestKey, DoRevoke, KeysInv, TypeOK
  <2> QED
    BY <1>0, <2>2, <2>3 DEF KeysInv, TypeOK, IssuedOnly, workerVars
<1> QED
  BY <1>1, <1>2, <1>3, <1>4 DEF Click

(* The page's continuations, and signing in.                               *)
LEMMA PageStep ==
  ASSUME KeysInv, SignOutIn \/ \E t \in Tab : Return(t)
  PROVE  TypeOK' /\ IssuedOnly' /\ CheckedIsOwned' /\ UNCHANGED active
<1>1. CASE SignOutIn
  BY <1>1 DEF SignOutIn, KeysInv, TypeOK, IssuedOnly, CheckedIsOwned, workerVars, tabVars
<1>2. ASSUME NEW t \in Tab, NEW s \in {"create", "roll"}, ShowKey(t, s)
      PROVE  TypeOK' /\ IssuedOnly' /\ CheckedIsOwned' /\ UNCHANGED active
  <2>1. UNCHANGED <<session, workerVars, page, shown, target>> /\ req[t][s] \in Request
    BY <1>2 DEF ShowKey, KeysInv, TypeOK, Slot
  <2>2. req' \in [Tab -> [Slot -> Request]] /\ CheckedIsOwned'
    <3>1. s \in Slot /\ NoReq.pc # "checked"
      BY DEF Slot, NoReq
    <3>3. issued' = issued /\ keyOwner' = keyOwner /\ issued \in Nat /\ issued <= issued'
      BY <2>1 DEF workerVars, KeysInv, TypeOK
    <3>2. req' = [req EXCEPT ![t][s] = NoReq]
      BY <1>2 DEF ShowKey, Free
    <3> QED
      BY <3>1, <3>2, <3>3, ReqSet, NoReqType
  <2>3. created' \in [Tab -> Key \cup {None}]
    BY <1>2, <2>1 DEF ShowKey, KeysInv, TypeOK, Request
  <2>4. open' \in [Tab -> SUBSET {"create", "roll"}] /\ stale' \subseteq Tab
    BY <1>2 DEF ShowKey, KeysInv, TypeOK
  <2> QED
    BY <2>1, <2>2, <2>3, <2>4 DEF KeysInv, TypeOK, IssuedOnly, workerVars
<1>3. ASSUME NEW t \in Tab, CloseRevoked(t)
      PROVE  TypeOK' /\ IssuedOnly' /\ CheckedIsOwned' /\ UNCHANGED active
  <2>1. UNCHANGED <<session, workerVars, page, shown, open, created>>
    BY <1>3 DEF CloseRevoked
  <2>2. req' \in [Tab -> [Slot -> Request]] /\ CheckedIsOwned'
    <3>1. "revoke" \in Slot /\ NoReq.pc # "checked"
      BY DEF Slot, NoReq
    <3>3. issued' = issued /\ keyOwner' = keyOwner /\ issued \in Nat /\ issued <= issued'
      BY <2>1 DEF workerVars, KeysInv, TypeOK
    <3>2. req' = [req EXCEPT ![t]["revoke"] = NoReq]
      BY <1>3 DEF CloseRevoked, Free
    <3> QED
      BY <3>1, <3>2, <3>3, ReqSet, NoReqType
  <2>3. target' \in [Tab -> Key \cup {None}] /\ stale' \subseteq Tab
    BY <1>3 DEF CloseRevoked, KeysInv, TypeOK
  <2> QED
    BY <2>1, <2>2, <2>3 DEF KeysInv, TypeOK, IssuedOnly, workerVars
<1>4. ASSUME NEW t \in Tab, Refresh(t)
      PROVE  TypeOK' /\ IssuedOnly' /\ CheckedIsOwned' /\ UNCHANGED active
  <2>1. /\ page' \in [Tab -> {"closed", "keys", "unavailable"}]
        /\ shown' \in [Tab -> [owner : Owner \cup {None}, all : SUBSET Key,
                               active : SUBSET Key]]
    BY <1>4, RenderType DEF Refresh
  <2>2. UNCHANGED <<session, workerVars>> /\ stale' \subseteq Tab
    BY <1>4 DEF Refresh, KeysInv, TypeOK
  <2>3. CASE UNCHANGED <<open, target, created, req>>
    BY <2>1, <2>2, <2>3 DEF KeysInv, TypeOK, IssuedOnly, CheckedIsOwned, workerVars
  <2>4. CASE /\ Unmount(t)
             /\ req' = [req EXCEPT ![t] = [s \in Slot |-> [@[s] EXCEPT !.mounted = FALSE]]]
    <3>1. \A s \in Slot : [req[t][s] EXCEPT !.mounted = FALSE] \in Request
      <4>1. \A r \in Request : [r EXCEPT !.mounted = FALSE] \in Request
        BY DEF Request
      <4> QED
        BY <4>1 DEF KeysInv, TypeOK
    <3>2. req' \in [Tab -> [Slot -> Request]]
      BY <2>4, <3>1 DEF KeysInv, TypeOK
    <3>3. \A u \in Tab : /\ req'[u]["revoke"].pc = req[u]["revoke"].pc
                         /\ req'[u]["revoke"].key = req[u]["revoke"].key
                         /\ req'[u]["revoke"].owner = req[u]["revoke"].owner
      BY <2>4 DEF KeysInv, TypeOK, Slot, Request
    <3>4. /\ open' \in [Tab -> SUBSET {"create", "roll"}]
          /\ target' \in [Tab -> Key \cup {None}] /\ created' \in [Tab -> Key \cup {None}]
      BY <2>4 DEF Unmount, KeysInv, TypeOK
    <3> QED
      BY <2>1, <2>2, <3>2, <3>3, <3>4
      DEF KeysInv, TypeOK, IssuedOnly, CheckedIsOwned, workerVars
  <2> QED
    BY <1>4, <2>3, <2>4 DEF Refresh
<1> QED
  BY <1>1, <1>2, <1>3, <1>4 DEF Return

(* The routes: the only steps that touch the worker's keys.                *)
LEMMA RouteStep ==
  ASSUME KeysInv, NEW t \in Tab, Route(t)
  PROVE  TypeOK' /\ IssuedOnly' /\ CheckedIsOwned' /\ RevokedStep
<1> DEFINE Goal == TypeOK' /\ IssuedOnly' /\ CheckedIsOwned' /\ RevokedStep
<1>0. /\ UNCHANGED <<session, tabVars, stale>> /\ issued \in Nat
      /\ \A s \in Slot : req[t][s] \in Request
      /\ {"create", "roll", "revoke"} \subseteq Slot
  BY DEF Route, WorkerDown, FetchRejects, PostKey, PostTestKey, RollCutShort, CheckOwner,
         DeleteKey, KeysInv, TypeOK, Slot
<1>n. NoReq.pc # "checked" /\ NoReq \in Request
  BY NoReqType DEF NoReq
(* Requests change, keys do not. *)
<1>u. ASSUME UNCHANGED workerVars,
             req' \in [Tab -> [Slot -> Request]] /\ CheckedIsOwned'
      PROVE  Goal
  BY <1>0, <1>u DEF KeysInv, TypeOK, IssuedOnly, RevokedStep, workerVars, tabVars
<1>r. ASSUME NEW s \in Slot, NEW r \in Request, s = "revoke" => r.pc # "checked",
             req' = [req EXCEPT ![t][s] = r], UNCHANGED <<issued, keyOwner>>
      PROVE  req' \in [Tab -> [Slot -> Request]] /\ CheckedIsOwned'
  <2>1. issued' \in Nat /\ issued <= issued' /\ \A k \in 1..issued : keyOwner'[k] = keyOwner[k]
    BY <1>0, <1>r
  <2> QED
    BY <1>r, <2>1, ReqSet
<1>1. ASSUME NEW s \in Slot, WorkerDown(t, s) \/ FetchRejects(t, s) PROVE Goal
  <2>1. [NoReq EXCEPT !.pc = "stuck"] \in Request /\ [NoReq EXCEPT !.pc = "stuck"].pc # "checked"
    BY DEF NoReq, Request
  <2>2. UNCHANGED workerVars
    BY <1>1 DEF WorkerDown, FetchRejects
  <2>3. PICK r \in Request : r.pc # "checked" /\ req' = [req EXCEPT ![t][s] = r]
    BY <1>1, <1>n, <2>1 DEF WorkerDown, FetchRejects, Free
  <2>4. req' \in [Tab -> [Slot -> Request]] /\ CheckedIsOwned'
    BY <1>r, <2>2, <2>3 DEF workerVars
  <2> QED
    BY <1>u, <2>2, <2>4
<1>2. ASSUME NEW s \in {"create", "roll"}, NEW kind \in {"test", "live"},
             NEW o \in Owner \cup {None}, NEW S,
             o = req[t][s].owner, Issue(o, kind, S), AnsweredKey(t, s)
      PROVE  /\ TypeOK' /\ IssuedOnly' /\ CheckedIsOwned'
             /\ active \ active' \subseteq S
  <2>1. /\ issued + 1 \in Key /\ issued \in Nat
        /\ issued' = issued + 1 /\ issued' \in 0..MaxKey
        /\ keyOwner' \in [Key -> Owner \cup {None}]
        /\ tier' \in [Key -> {"test", "live", "none"}]
        /\ active' \subseteq 1..issued' /\ active' \subseteq Key
        /\ \A k \in 1..issued : keyOwner'[k] = keyOwner[k]
        /\ active \ active' \subseteq S
    BY <1>2, IssueStep
  <2>2. PICK r \in Request : req' = [req EXCEPT ![t][s] = r]
    <3> DEFINE r1 == [req[t][s] EXCEPT !.pc = "ok", !.key = issued + 1]
    <3>1. r1 \in Request
      BY <1>0, <2>1 DEF Request, Slot
    <3>2. req' = [req EXCEPT ![t][s] = r1] \/ req' = [req EXCEPT ![t][s] = NoReq]
      BY <1>2 DEF AnsweredKey, Free, KeysInv, TypeOK, Slot
    <3> QED
      BY <1>n, <3>1, <3>2
  <2>3. s \in Slot /\ s # "revoke" /\ issued' \in Nat /\ issued <= issued'
    BY <2>1 DEF Slot
  <2>4. req' \in [Tab -> [Slot -> Request]] /\ CheckedIsOwned'
    BY <2>1, <2>2, <2>3, ReqSet
  <2> QED
    BY <1>0, <2>1, <2>4 DEF KeysInv, TypeOK, IssuedOnly, tabVars
<1>3. CASE PostKey(t)
  <2>1. req[t]["create"].owner \in Owner \cup {None}
    BY <1>0 DEF Request
  <2>2. active \ active' \subseteq {} /\ TypeOK' /\ IssuedOnly' /\ CheckedIsOwned'
    BY <1>2, <1>3, <2>1 DEF PostKey
  <2> QED
    BY <2>2 DEF RevokedStep
<1>4. CASE PostTestKey(t)
  <2>1. PICK o \in Owner \cup {None} : o = req[t]["roll"].owner
    BY <1>0 DEF Request
  <2>2. /\ active \ active' \subseteq ActiveTest(o)
        /\ TypeOK' /\ IssuedOnly' /\ CheckedIsOwned'
    BY <1>2, <1>4, <2>1 DEF PostTestKey
  <2>3. RevokedStep
    BY <1>4, <2>1, <2>2 DEF RevokedStep, PostTestKey, ActiveTest, Own
  <2> QED
    BY <2>2, <2>3
<1>5. CASE RollCutShort(t)
  <2>1. /\ req' = [req EXCEPT ![t]["roll"] = NoReq]
        /\ UNCHANGED <<issued, keyOwner, tier>> /\ active' \subseteq active
    BY <1>5 DEF RollCutShort, Free
  <2>2. req' \in [Tab -> [Slot -> Request]] /\ CheckedIsOwned'
    BY <1>0, <1>n, <1>r, <2>1
  <2>3. RevokedStep
    BY <1>5 DEF RevokedStep, RollCutShort, ActiveTest, Own
  <2> QED
    BY <1>0, <2>1, <2>2, <2>3 DEF KeysInv, TypeOK, IssuedOnly, tabVars
<1>6. CASE CheckOwner(t)
  <2> DEFINE q == req[t]["revoke"]
  <2>1. UNCHANGED workerVars /\ q \in Request
    BY <1>0, <1>6 DEF CheckOwner
  <2>2. CASE q.key \in Own(q.owner) /\ Step(t, "revoke", "checked")
    <3>1. req' = [req EXCEPT ![t]["revoke"] = [q EXCEPT !.pc = "checked"]]
      BY <2>2 DEF Step, KeysInv, TypeOK, Slot
    <3>2. [q EXCEPT !.pc = "checked"] \in Request
      BY <2>1 DEF Request
    <3>3. req' \in [Tab -> [Slot -> Request]]
      BY <3>1, <3>2 DEF KeysInv, TypeOK
    <3>4. ASSUME NEW u \in Tab, req'[u]["revoke"].pc = "checked"
          PROVE  /\ req'[u]["revoke"].key \in 1..issued
                 /\ keyOwner[req'[u]["revoke"].key] = req'[u]["revoke"].owner
      <4>1. CASE u = t
        <5>1. req'[u]["revoke"] = [q EXCEPT !.pc = "checked"]
          BY <1>0, <3>1, <4>1 DEF KeysInv, TypeOK
        <5>2. req'[u]["revoke"].key = q.key /\ req'[u]["revoke"].owner = q.owner
          BY <2>1, <5>1 DEF Request
        <5> QED
          BY <2>2, <5>2 DEF Own
      <4>2. CASE u # t
        BY <3>1, <3>4, <4>2 DEF KeysInv, TypeOK, CheckedIsOwned
      <4> QED
        BY <4>1, <4>2
    <3>5. CheckedIsOwned'
      BY <2>1, <3>4 DEF CheckedIsOwned, workerVars
    <3> QED
      BY <1>u, <2>1, <3>3, <3>5
  <2>3. CASE Free(t, "revoke")
    <3>1. req' \in [Tab -> [Slot -> Request]] /\ CheckedIsOwned'
      BY <1>0, <1>n, <1>r, <2>1, <2>3 DEF Free, workerVars
    <3> QED
      BY <1>u, <2>1, <3>1
  <2> QED
    BY <1>6, <2>2, <2>3 DEF CheckOwner
<1>7. CASE DeleteKey(t)
  <2> DEFINE q == req[t]["revoke"]
  <2>1. UNCHANGED <<issued, keyOwner, tier>> /\ active' = active \ {q.key} /\ q.pc = "checked"
    BY <1>7 DEF DeleteKey
  <2>2. [q EXCEPT !.pc = "ok"] \in Request /\ [q EXCEPT !.pc = "ok"].pc # "checked"
    BY <1>0 DEF Request
  <2>3. \/ req' = [req EXCEPT ![t]["revoke"] = [q EXCEPT !.pc = "ok"]]
        \/ req' = [req EXCEPT ![t]["revoke"] = NoReq]
    BY <1>7 DEF DeleteKey, Step, Free, KeysInv, TypeOK, Slot
  <2>4. req' \in [Tab -> [Slot -> Request]] /\ CheckedIsOwned'
    BY <1>0, <1>n, <1>r, <2>1, <2>2, <2>3
  <2>5. RevokedStep
    BY <2>1 DEF RevokedStep, KeysInv, CheckedIsOwned
  <2> QED
    BY <1>0, <2>1, <2>4, <2>5 DEF KeysInv, TypeOK, IssuedOnly, tabVars
<1> QED
  BY <1>1, <1>3, <1>4, <1>5, <1>6, <1>7 DEF Route

LEMMA KeysInvariant == Spec => [](KeysInv)
<1>1. Init => KeysInv
  <2> SUFFICES ASSUME Init PROVE KeysInv
    OBVIOUS
  <2>1. req \in [Tab -> [Slot -> Request]] /\ \A t \in Tab : req[t]["revoke"].pc = "idle"
    <3>1. NoReq \in Request /\ NoReq.pc = "idle" /\ "revoke" \in Slot
      BY NoReqType DEF NoReq, Slot
    <3> QED
      BY <3>1 DEF Init
  <2>2. shown \in [Tab -> [owner : Owner \cup {None}, all : SUBSET Key,
                          active : SUBSET Key]]
    BY DEF Init, NoList
  <2>3. active \subseteq 1..issued /\ issued \in 0..MaxKey /\ active \subseteq Key
    BY DEF Init
  <2>4. /\ session \in Owner \cup {None} /\ stale \subseteq Tab
        /\ keyOwner \in [Key -> Owner \cup {None}]
        /\ tier \in [Key -> {"test", "live", "none"}]
        /\ page \in [Tab -> {"closed", "keys", "unavailable"}]
        /\ open \in [Tab -> SUBSET {"create", "roll"}]
        /\ target \in [Tab -> Key \cup {None}] /\ created \in [Tab -> Key \cup {None}]
    BY DEF Init
  <2> QED
    BY <2>1, <2>2, <2>3, <2>4 DEF KeysInv, TypeOK, IssuedOnly, CheckedIsOwned
<1>2. KeysInv /\ [Next]_vars => KeysInv'
  <2>1. KeysInv /\ Next => KeysInv'
    BY UserStep, PageStep, RouteStep DEF Next, KeysInv
  <2>2. KeysInv /\ UNCHANGED vars => KeysInv'
    BY DEF KeysInv, TypeOK, IssuedOnly, CheckedIsOwned, vars, workerVars, tabVars
  <2> QED
    BY <2>1, <2>2
<1> QED
  BY <1>1, <1>2, PTL DEF Spec

(* Every variable of the page, its routes and the key table has its type.  *)
THEOREM KeysPageType == Spec => []TypeOK
<1>1. KeysInv => TypeOK
  BY DEF KeysInv
<1> QED
  BY <1>1, KeysInvariant, PTL

(* Whatever tabs, sessions and late answers do, a key stops working only   *)
(* by a revocation or a roll of its owner's.                               *)
THEOREM KeysAreRevokedByOwners == Spec => RevokedByOwner
<1>1. KeysInv /\ [Next]_vars => [RevokedStep]_vars
  <2>1. KeysInv /\ Next => RevokedStep
    <3>1. UNCHANGED active => RevokedStep
      BY DEF RevokedStep
    <3> QED
      BY <3>1, UserStep, PageStep, RouteStep DEF Next
  <2> QED
    BY <2>1
<1>2. Spec => [][RevokedStep]_vars
  BY <1>1, KeysInvariant, PTL DEF Spec
<1> QED
  BY <1>2 DEF RevokedByOwner, RevokedStep

-----------------------------------------------------------------------------
(* What the users' clicks, the routes and the continuations do to the key  *)
(* a tab shows.  No step of one tab reaches the dialog of another.         *)
LEMMA ScreenStep ==
  ASSUME TypeOK, NEW u \in Tab, Click(u) \/ Route(u) \/ Return(u)
  PROVE  KeyStaysStep
<1> SUFFICES ASSUME NEW t \in Tab, created[t] # None, created'[t] # created[t]
             PROVE  Excused(t)
  BY DEF KeyStaysStep
<1>0. created \in [Tab -> Key \cup {None}] /\ page \in [Tab -> {"closed", "keys", "unavailable"}]
  BY DEF TypeOK
<1>1. ~Route(u)
  BY DEF Route, WorkerDown, FetchRejects, PostKey, PostTestKey, RollCutShort, CheckOwner,
         DeleteKey, tabVars
<1>2. CASE Click(u)
  <2>1. Load(u) \/ Done(u)
    BY <1>2 DEF Click, LoadCreating, OpenCreate, CreateLiveKey, ClickRoll, RollTestKey,
                ClickRevoke, DoRevoke, Dismiss
  <2>2. created' = [created EXCEPT ![u] = None]
    BY <2>1 DEF Load, Unmount, Done
  <2>3. u = t
    BY <1>0, <2>2
  <2> QED
    BY <2>1, <2>3 DEF Excused
<1>3. CASE Return(u)
  <2>1. CASE Refresh(u)
    <3>1. u \in stale /\ RenderWithoutKeys(u) /\ Unmount(u)
      BY <2>1 DEF Refresh
    <3>2. u = t
      BY <1>0, <3>1 DEF Unmount
    <3>3. page'[u] # "keys"
      BY <1>0, <3>1 DEF RenderWithoutKeys
    <3> QED
      BY <3>1, <3>2, <3>3 DEF Excused
  <2>2. CASE \E s \in {"create", "roll"} : ShowKey(u, s)
    <3>1. PICK s \in {"create", "roll"} : ShowKey(u, s)
      BY <2>2
    <3>2. /\ req[u][s].pc = "ok"
          /\ created' = [created EXCEPT ![u] = IF req[u][s].mounted THEN req[u][s].key ELSE @]
      BY <3>1 DEF ShowKey
    <3>3. u = t
      BY <1>0, <3>2
    <3>4. created'[t] = req[t][s].key
      BY <1>0, <3>2, <3>3
    <3> QED
      BY <3>2, <3>3, <3>4 DEF Excused
  <2>3. ~CloseRevoked(u)
    BY DEF CloseRevoked
  <2> QED
    BY <1>3, <2>1, <2>2, <2>3 DEF Return
<1> QED
  BY <1>1, <1>2, <1>3

(* The raw key, which the worker will never tell again, stays on the       *)
(* screen until its user is done with it or reloads, unless the refresh    *)
(* cannot have the keys or the tab's other request shows its own.          *)
THEOREM RawKeyStays == Spec => KeyStaysUntilDone
<1>1. KeysInv /\ [Next]_vars => [KeyStaysStep]_vars
  <2>1. KeysInv /\ Next => KeyStaysStep
    <3>1. SignOutIn => KeyStaysStep
      BY DEF SignOutIn, tabVars, KeyStaysStep
    <3> QED
      BY <3>1, ScreenStep DEF Next, KeysInv
  <2> QED
    BY <2>1
<1>2. Spec => [][KeyStaysStep]_vars
  BY <1>1, KeysInvariant, PTL DEF Spec
<1> QED
  BY <1>2 DEF KeyStaysUntilDone, KeyStaysStep, Excused
=============================================================================
