------------------------------ MODULE KeysPage ------------------------------
(***************************************************************************)
(* The API keys page of the dashboard in several tabs of one browser, the  *)
(* routes behind it and the worker's key table.  The tabs share the        *)
(* session cookie: somebody may sign out in one tab and sign in as another *)
(* owner while a second tab still shows the first one's keys.  A request   *)
(* is a route call that reads the session, then calls the worker, then     *)
(* answers; each of the three may fail, and the worker may have done its   *)
(* part all the same.                                                      *)
(***************************************************************************)
EXTENDS Integers, FiniteSets

CONSTANTS
    Tab,     \* tabs that show the keys page
    Owner,   \* users who sign in on this browser
    MaxKey,  \* bound: keys ever issued
    None     \* no owner, no key

ASSUME KeysAssumption == MaxKey \in Nat /\ None \notin Owner \cup 1..MaxKey

Key == 1..MaxKey
Slot == {"create", "roll", "revoke"}

VARIABLES
    session,   \* the owner the session cookie stands for
    issued,    \* the worker: how many keys there are,
    keyOwner,  \*   whose each is,
    tier,      \*   "test" or "live",
    active,    \*   and which are not revoked
    page,      \* what each tab shows: the keys, or that they are unavailable
    shown,     \* initialKeys: whose list it shows, the keys on it, which were active
    open,      \* the dialogs open in a tab
    target,    \* confirmRevoke: the key the revoke dialog is about
    created,   \* the raw key a tab shows, once
    req,       \* the request of each slot of a tab
    stale      \* tabs that wait for router.refresh

workerVars == <<issued, keyOwner, tier, active>>
tabVars == <<page, shown, open, target, created>>
vars == <<session, workerVars, tabVars, req, stale>>

(* A request outlives the component that made it: mounted says whether its *)
(* handler still has a state to set.  A tab has one request of a slot at a *)
(* time, which bounds what an unmounted one can leave behind.              *)
NoReq == [pc |-> "idle", owner |-> None, key |-> None, mounted |-> FALSE]
Request == [pc : {"idle", "authed", "checked", "ok", "stuck"},
            owner : Owner \cup {None}, key : Key \cup {None}, mounted : BOOLEAN]
NoList == [owner |-> None, all |-> {}, active |-> {}]

Own(o) == {k \in 1..issued : keyOwner[k] = o}
ActiveTest(o) == {k \in Own(o) \cap active : tier[k] = "test"}

(* What the page makes of its list: one test key, and the rest.            *)
ShownTest(t) == {k \in shown[t].active : tier[k] = "test"}
ShownLive(t) == {k \in shown[t].all : tier[k] # "test"}

Busy(t, s) == req[t][s].pc # "idle"

(* Dialogs are modal: the page behind them takes no clicks.                *)
Modal(t) == open[t] # {} \/ target[t] # None \/ created[t] # None

Init ==
    /\ session \in Owner
    /\ issued = 0 /\ active = {}
    /\ keyOwner = [k \in Key |-> None] /\ tier = [k \in Key |-> "none"]
    /\ page = [t \in Tab |-> "closed"]
    /\ shown = [t \in Tab |-> NoList]
    /\ open = [t \in Tab |-> {}] /\ target = [t \in Tab |-> None]
    /\ created = [t \in Tab |-> None]
    /\ req = [t \in Tab |-> [s \in Slot |-> NoReq]]
    /\ stale = {}
-----------------------------------------------------------------------------
(* KeysPage on the server.  Without a session the layout redirects to the  *)
(* sign-in page; null, "could not ask", is shown as such.  Either takes    *)
(* the place of the client component with all its state.                   *)
Listed(o) == [owner |-> o, all |-> Own(o), active |-> Own(o) \cap active]

RenderKeys(t) ==
    /\ session # None
    /\ page' = [page EXCEPT ![t] = "keys"]
    /\ shown' = [shown EXCEPT ![t] = Listed(session)]

RenderWithoutKeys(t) ==
    /\ page' = [page EXCEPT ![t] = IF session = None THEN "closed" ELSE "unavailable"]
    /\ shown' = [shown EXCEPT ![t] = NoList]

Unmount(t) ==
    /\ open' = [open EXCEPT ![t] = {}] /\ target' = [target EXCEPT ![t] = None]
    /\ created' = [created EXCEPT ![t] = None]

(* A tab is opened, or reloaded when nothing of it is on its way; the      *)
(* overview links to it with the create dialog open.                       *)
Load(t) ==
    /\ \A s \in Slot : req[t][s].pc \in {"idle", "stuck"}
    /\ req' = [req EXCEPT ![t] = [s \in Slot |-> NoReq]]
    /\ stale' = stale \ {t}
    /\ Unmount(t)
    /\ RenderKeys(t) \/ RenderWithoutKeys(t)
    /\ UNCHANGED <<session, workerVars>>

LoadCreating(t) ==
    /\ page[t] = "closed" /\ \A s \in Slot : ~Busy(t, s)
    /\ RenderKeys(t)
    /\ open' = [open EXCEPT ![t] = {"create"}]
    /\ UNCHANGED <<session, workerVars, target, created, req, stale>>

(* Deviation: every render mounts a new client. *)
RefreshRemounts(t) ==
    /\ t \in stale
    /\ stale' = stale \ {t}
    /\ RenderKeys(t) \/ RenderWithoutKeys(t)
    /\ Unmount(t)
    /\ req' = [req EXCEPT ![t] = [s \in Slot |-> [@[s] EXCEPT !.mounted = FALSE]]]
    /\ UNCHANGED <<session, workerVars>>

(* router.refresh: the server renders the page anew.  The client keeps its *)
(* state when it is still there.                                           *)
Refresh(t) ==
    /\ t \in stale
    /\ stale' = stale \ {t}
    /\ \/ RenderKeys(t) /\ UNCHANGED <<open, target, created, req>>
       \/ /\ RenderWithoutKeys(t) /\ Unmount(t)
          /\ req' = [req EXCEPT ![t] = [s \in Slot |-> [@[s] EXCEPT !.mounted = FALSE]]]
    /\ UNCHANGED <<session, workerVars>>

SignOutIn ==
    /\ session' \in (Owner \cup {None}) \ {session}
    /\ UNCHANGED <<workerVars, tabVars, req, stale>>
-----------------------------------------------------------------------------
(* The buttons of the page and of its dialogs.  A request reads the        *)
(* session as it reaches its route; without one it is refused, which like  *)
(* every refusal only frees the slot (the messages are left out).          *)
RequireOwner(t, s, k) ==
    /\ ~Busy(t, s)
    /\ req' = IF session = None THEN req
              ELSE [req EXCEPT ![t][s] = [pc |-> "authed", owner |-> session, key |-> k,
                                          mounted |-> TRUE]]

OpenCreate(t) ==
    /\ page[t] = "keys" /\ ~Modal(t)
    /\ open' = [open EXCEPT ![t] = {"create"}]
    /\ UNCHANGED <<session, workerVars, page, shown, target, created, req, stale>>

CreateLiveKey(t) ==
    /\ "create" \in open[t] /\ created[t] = None
    /\ RequireOwner(t, "create", None)
    /\ UNCHANGED <<session, workerVars, page, shown, open, target, created, stale>>

(* Regenerate asks first; Generate, on a page that knows no test key, does *)
(* not.                                                                    *)
ClickRoll(t) ==
    /\ page[t] = "keys" /\ ~Modal(t) /\ ~Busy(t, "roll")
    /\ ShownTest(t) # {}
    /\ open' = [open EXCEPT ![t] = {"roll"}]
    /\ UNCHANGED <<session, workerVars, page, shown, target, created, req, stale>>

RollTestKey(t) ==
    /\ \/ page[t] = "keys" /\ ~Modal(t) /\ ShownTest(t) = {}
       \/ "roll" \in open[t] /\ created[t] = None
    /\ open' = [open EXCEPT ![t] = @ \ {"roll"}]
    /\ RequireOwner(t, "roll", None)
    /\ UNCHANGED <<session, workerVars, page, shown, target, created, stale>>

ClickRevoke(t) ==
    /\ page[t] = "keys" /\ ~Modal(t)
    /\ \E k \in ShownLive(t) \cap shown[t].active : target' = [target EXCEPT ![t] = k]
    /\ UNCHANGED <<session, workerVars, page, shown, open, created, req, stale>>

DoRevoke(t) ==
    /\ target[t] # None /\ created[t] = None
    /\ RequireOwner(t, "revoke", target[t])
    /\ UNCHANGED <<session, workerVars, page, shown, open, target, created, stale>>

Dismiss(t) ==
    /\ created[t] = None /\ Modal(t)
    /\ open' = [open EXCEPT ![t] = {}] /\ target' = [target EXCEPT ![t] = None]
    /\ UNCHANGED <<session, workerVars, page, shown, created, req, stale>>

Done(t) ==
    /\ created[t] # None
    /\ created' = [created EXCEPT ![t] = None]
    /\ UNCHANGED <<session, workerVars, page, shown, open, target, req, stale>>
-----------------------------------------------------------------------------
(* The routes go on to the worker, which may be down or too late for the   *)
(* answer; a key is issued or revoked all the same when it was reached.    *)
Step(t, s, pc) == req' = [req EXCEPT ![t][s].pc = pc]
Free(t, s) == req' = [req EXCEPT ![t][s] = NoReq]

Issue(o, kind, revoked) ==
    /\ issued < MaxKey
    /\ issued' = issued + 1
    /\ keyOwner' = [keyOwner EXCEPT ![issued + 1] = o]
    /\ tier' = [tier EXCEPT ![issued + 1] = kind]
    /\ active' = (active \ revoked) \cup {issued + 1}

AnsweredKey(t, s) ==
    \/ req' = [req EXCEPT ![t][s] = [@ EXCEPT !.pc = "ok", !.key = issued + 1]]
    \/ Free(t, s)

PostKey(t) ==
    /\ req[t]["create"].pc = "authed"
    /\ Issue(req[t]["create"].owner, "live", {})
    /\ AnsweredKey(t, "create")
    /\ UNCHANGED <<session, tabVars, stale>>

PostTestKey(t) ==
    /\ req[t]["roll"].pc = "authed"
    /\ LET o == req[t]["roll"].owner IN Issue(o, "test", ActiveTest(o))
    /\ AnsweredKey(t, "roll")
    /\ UNCHANGED <<session, tabVars, stale>>

(* Deviation: having a session is enough. *)
CheckOwnerSkipped(t) ==
    /\ req[t]["revoke"].pc = "authed"
    /\ Step(t, "revoke", "checked")
    /\ UNCHANGED <<session, workerVars, tabVars, stale>>

(* The roll commits the revocation before it issues, and may fail there.   *)
RollCutShort(t) ==
    /\ req[t]["roll"].pc = "authed"
    /\ active' = active \ ActiveTest(req[t]["roll"].owner)
    /\ Free(t, "roll")
    /\ UNCHANGED <<session, issued, keyOwner, tier, tabVars, stale>>

(* The worker revokes any key it is asked to; the route asks whose it is.  *)
CheckOwner(t) ==
    /\ req[t]["revoke"].pc = "authed"
    /\ \/ req[t]["revoke"].key \in Own(req[t]["revoke"].owner) /\ Step(t, "revoke", "checked")
       \/ req[t]["revoke"].key \notin Own(req[t]["revoke"].owner) /\ Free(t, "revoke")
    /\ UNCHANGED <<session, workerVars, tabVars, stale>>

(* A key another tab has revoked meanwhile is not found.                   *)
DeleteKey(t) ==
    /\ req[t]["revoke"].pc = "checked"
    /\ active' = active \ {req[t]["revoke"].key}
    /\ \/ req[t]["revoke"].key \in active /\ Step(t, "revoke", "ok")
       \/ Free(t, "revoke")
    /\ UNCHANGED <<session, issued, keyOwner, tier, tabVars, stale>>

WorkerDown(t, s) ==
    /\ req[t][s].pc \in {"authed", "checked"}
    /\ Free(t, s)
    /\ UNCHANGED <<session, workerVars, tabVars, stale>>

(* fetch rejects: no handler catches it, and the slot stays busy.          *)
FetchRejects(t, s) ==
    /\ req[t][s].pc \in {"authed", "ok"}
    /\ req' = [req EXCEPT ![t][s] = [NoReq EXCEPT !.pc = "stuck"]]
    /\ UNCHANGED <<session, workerVars, tabVars, stale>>
-----------------------------------------------------------------------------
(* Deviation: without router.refresh. *)
ShowKeyOnly(t, s) ==
    /\ req[t][s].pc = "ok"
    /\ Free(t, s)
    /\ created' = [created EXCEPT ![t] = IF req[t][s].mounted THEN req[t][s].key ELSE @]
    /\ open' = [open EXCEPT ![t] = IF req[t][s].mounted THEN @ \ ({s} \cap {"create"}) ELSE @]
    /\ UNCHANGED <<session, workerVars, page, shown, target, stale>>

(* The handlers come back to their tab.  One whose component is gone has   *)
(* no state to set, but still refreshes.                                   *)
ShowKey(t, s) ==
    /\ req[t][s].pc = "ok"
    /\ Free(t, s)
    /\ created' = [created EXCEPT ![t] = IF req[t][s].mounted THEN req[t][s].key ELSE @]
    /\ open' = [open EXCEPT ![t] = IF req[t][s].mounted THEN @ \ ({s} \cap {"create"}) ELSE @]
    /\ stale' = stale \cup {t}
    /\ UNCHANGED <<session, workerVars, page, shown, target>>

CloseRevoked(t) ==
    /\ req[t]["revoke"].pc = "ok"
    /\ Free(t, "revoke")
    /\ target' = [target EXCEPT ![t] = IF req[t]["revoke"].mounted THEN None ELSE @]
    /\ stale' = stale \cup {t}
    /\ UNCHANGED <<session, workerVars, page, shown, open, created>>

Click(t) ==
    \/ Load(t) \/ LoadCreating(t)
    \/ OpenCreate(t) \/ CreateLiveKey(t) \/ ClickRoll(t) \/ RollTestKey(t)
    \/ ClickRevoke(t) \/ DoRevoke(t) \/ Dismiss(t) \/ Done(t)

Route(t) ==
    \/ \E s \in Slot : WorkerDown(t, s) \/ FetchRejects(t, s)
    \/ PostKey(t) \/ PostTestKey(t) \/ RollCutShort(t) \/ CheckOwner(t) \/ DeleteKey(t)

Return(t) ==
    \/ \E s \in {"create", "roll"} : ShowKey(t, s)
    \/ CloseRevoked(t) \/ Refresh(t)

Next == SignOutIn \/ \E t \in Tab : Click(t) \/ Route(t) \/ Return(t)

(* The page's own continuations run; the user may do nothing.              *)
Spec == Init /\ [][Next]_vars /\ \A t \in Tab : WF_vars(Refresh(t))
-----------------------------------------------------------------------------
(* The type invariant.                                                     *)
TypeOK ==
    /\ session \in Owner \cup {None}
    /\ issued \in 0..MaxKey /\ active \subseteq Key
    /\ keyOwner \in [Key -> Owner \cup {None}] /\ tier \in [Key -> {"test", "live", "none"}]
    /\ page \in [Tab -> {"closed", "keys", "unavailable"}]
    /\ shown \in [Tab -> [owner : Owner \cup {None}, all : SUBSET Key, active : SUBSET Key]]
    /\ open \in [Tab -> SUBSET {"create", "roll"}]
    /\ target \in [Tab -> Key \cup {None}]
    /\ created \in [Tab -> Key \cup {None}]
    /\ req \in [Tab -> [Slot -> Request]]
    /\ stale \subseteq Tab

(* A key stops working only for its owner: by the revoke request of a tab  *)
(* whose user confirmed that very key, under the owner's own session when  *)
(* the route read it, or by a roll of the owner's.  Signing in as somebody *)
(* else in another tab must not let the first tab's page touch the keys it *)
(* still lists.                                                            *)
RevokedByOwner ==
    [][\A k \in active \ active' : \E t \in Tab :
         \/ /\ req[t]["revoke"].pc = "checked" /\ req[t]["revoke"].key = k
            /\ req[t]["revoke"].owner = keyOwner[k]
         \/ /\ tier[k] = "test"
            /\ req[t]["roll"].pc = "authed" /\ req[t]["roll"].owner = keyOwner[k]]_vars

(* A raw key is shown once, so it must stay on the screen until the user   *)
(* is done with it.  It leaves earlier in two ways only: the refresh that  *)
(* follows could not have the keys, and "unavailable" takes the dialog     *)
(* with it; or the answer of the tab's other request shows its own key.    *)
KeyStaysUntilDone ==
    [][\A t \in Tab : created[t] # None /\ created'[t] # created[t] =>
         \/ Done(t) \/ Load(t)
         \/ t \in stale /\ page'[t] # "keys"
         \/ \E s \in {"create", "roll"} : req[t][s].pc = "ok" /\ created'[t] = req[t][s].key]_vars

(* A key the page has shown turns up in its list, unless the list cannot   *)
(* be had or is somebody else's by then: the handlers refresh the page     *)
(* they have made stale.                                                   *)
CreatedIsListed ==
    \A t \in Tab, k \in Key :
        created[t] = k ~> \/ k \in shown[t].all \/ page[t] # "keys"
                         \/ shown[t].owner # keyOwner[k]
=============================================================================
