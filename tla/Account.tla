------------------------------- MODULE Account -------------------------------
(***************************************************************************)
(* One person's account in several browsers: signing in with a link or     *)
(* through a provider, the sign-up hook that provisions a test key, the    *)
(* calls that make worker data, and the deletion of the account, which     *)
(* erases the worker's data first and the sign-in records after it.  A     *)
(* route waits for the worker only so long; a call it has given up on may  *)
(* still be carried out.  How the worker cancels a subscription before it  *)
(* erases is the subject of Subscriptions.                                 *)
(***************************************************************************)
EXTENDS Integers, FiniteSets

CONSTANTS
    Browser,
    Patient,   \* browsers where the person waits, and asks again after an error
    MaxUser,   \* bound: accounts the person makes, one after the other
    MaxLinks,  \* bound: sign-in links in the mailbox
    MaxLate,   \* bound: calls given up that may still be carried out
    None

ASSUME AccountAssumption ==
    /\ MaxUser \in Nat /\ MaxLinks \in Nat /\ MaxLate \in Nat
    /\ Patient \subseteq Browser /\ None \notin 1..MaxUser

User == 1..MaxUser
Call == [op : {"issue", "erase"}, owner : User]

VARIABLES
    made,      \* accounts made so far
    user,      \* the row of user with the person's address, or None
    sessions,  \* rows of session: a browser and the user it is for
    links,     \* rows of verification: sign-in links not followed yet
    cookie,    \* the session cookie of each browser
    screen,    \* what each browser shows, see Screen
    signup,    \* the user whose creation a browser's sign-in waits for
    issuing,   \* the owner a browser's request for a key was let in for
    deleting,  \* where a browser's DELETE /api/account is, and for whom
    late,      \* calls to the worker nobody waits for any more
    data,      \* the worker: owners it has rows of,
    erased,    \*   whom it has ever erased,
    raced      \* owners with a call for a key under way after that (a history)

authVars == <<made, user, sessions, links, cookie>>
workerVars == <<late, data, erased, raced>>
requestVars == <<signup, issuing, deleting>>
vars == <<authVars, screen, requestVars, workerVars>>

(* The sign-in form and its status, the dashboard, and the delete card:    *)
(* its dialog open, Deleting..., its error, or Deleting... for ever.       *)
Form == {"form", "sending", "sent", "redirecting", "form error"}
Card == {"confirm", "deleting", "delete error", "stuck"}
Screen == Form \cup Card \cup {"dashboard"}

NotDeleting == [pc |-> "idle", owner |-> None]

(* getUser: the cookie's session row and its user row must both be there.  *)
SessionOf(b) ==
    IF cookie[b] # None /\ user = cookie[b] /\ <<b, cookie[b]>> \in sessions
    THEN cookie[b] ELSE None

Init ==
    /\ made = 0 /\ user = None /\ sessions = {} /\ links = 0
    /\ cookie = [b \in Browser |-> None]
    /\ screen = [b \in Browser |-> "form"]
    /\ signup = [b \in Browser |-> None] /\ issuing = [b \in Browser |-> None]
    /\ deleting = [b \in Browser |-> NotDeleting]
    /\ late = {} /\ data = {} /\ erased = {} /\ raced = {}

Shows(b, s) == screen' = [screen EXCEPT ![b] = s]
Goes(b, from, to) == screen[b] \in from /\ Shows(b, to)
-----------------------------------------------------------------------------
(* SignInForm.  An address that is not one is an error at once.            *)
BadEmail(b) ==
    /\ Goes(b, {"form"}, "form error")
    /\ UNCHANGED <<authVars, requestVars, workerVars>>

MagicLink(b) ==
    /\ Goes(b, {"form", "form error"}, "sending")
    /\ UNCHANGED <<authVars, requestVars, workerVars>>

(* The link is stored, and mailed; or it is not mailed, and the form says  *)
(* so.                                                                     *)
LinkSent(b) ==
    /\ links < MaxLinks
    /\ links' = links + 1
    /\ Goes(b, {"sending"}, "sent")
    /\ UNCHANGED <<made, user, sessions, cookie, requestVars, workerVars>>

LinkFails(b) ==
    /\ Goes(b, {"sending"}, "form error")
    /\ UNCHANGED <<authVars, requestVars, workerVars>>

UseAnother(b) ==
    /\ Goes(b, {"sent"}, "form")
    /\ UNCHANGED <<authVars, requestVars, workerVars>>

Social(b) ==
    /\ Goes(b, {"form", "form error"}, "redirecting")
    /\ UNCHANGED <<authVars, requestVars, workerVars>>

(* Deviation: an answer with an error is none. *)
SocialFailsThrown(b) ==
    /\ Goes(b, {}, "form error")
    /\ UNCHANGED <<authVars, requestVars, workerVars>>

(* An answer with an error, or none at all.                                *)
SocialFails(b) ==
    /\ Goes(b, {"redirecting"}, "form error")
    /\ UNCHANGED <<authVars, requestVars, workerVars>>

(* A session for the user there is, or for one that is made first: then    *)
(* the hook asks the worker for a test key.                                *)
SignIn(b, usedLinks) ==
    /\ signup[b] = None
    /\ links' = links - usedLinks
    /\ \/ /\ user # None
          /\ sessions' = sessions \cup {<<b, user>>}
          /\ cookie' = [cookie EXCEPT ![b] = user]
          /\ Shows(b, "dashboard")
          /\ UNCHANGED <<made, user, signup>>
       \/ /\ user = None /\ made < MaxUser
          /\ made' = made + 1 /\ user' = made + 1
          /\ signup' = [signup EXCEPT ![b] = made + 1]
          /\ UNCHANGED <<sessions, cookie, screen>>
    /\ UNCHANGED <<issuing, deleting, workerVars>>

SocialReturns(b) == screen[b] = "redirecting" /\ SignIn(b, 0)
FollowLink(b) == links > 0 /\ screen[b] \in Form \ {"redirecting"} /\ SignIn(b, 1)

LinkExpires ==
    /\ links > 0
    /\ links' = links - 1
    /\ UNCHANGED <<made, user, sessions, cookie, screen, requestVars, workerVars>>

SignOut(b) ==
    /\ screen[b] = "dashboard"
    /\ sessions' = sessions \ {<<b, cookie[b]>>}
    /\ cookie' = [cookie EXCEPT ![b] = None]
    /\ Shows(b, "form")
    /\ UNCHANGED <<made, user, links, requestVars, workerVars>>

(* The layout sends a browser without a session to the form, and the form  *)
(* one with a session to the dashboard.                                    *)
Reload(b) ==
    /\ screen[b] \notin {"redirecting"} /\ signup[b] = None
    /\ Shows(b, IF SessionOf(b) = None THEN "form" ELSE "dashboard")
    /\ UNCHANGED <<authVars, requestVars, workerVars>>
-----------------------------------------------------------------------------
(* Calls to the worker.  It carries a call out; or the call never gets     *)
(* there; or the route gives up first.                                     *)
Issues(o) ==
    /\ data' = data \cup {o}
    /\ UNCHANGED <<late, erased>>

UnderWay(o) ==
    \/ \E b \in Browser : issuing[b] = o \/ signup[b] = o
    \/ [op |-> "issue", owner |-> o] \in late

Erases(o) ==
    /\ data' = data \ {o}
    /\ erased' = erased \cup {o}
    /\ raced' = IF UnderWay(o) THEN raced \cup {o} ELSE raced

GivenUp(op, o) ==
    /\ Cardinality(late) < MaxLate
    /\ late' = late \cup {[op |-> op, owner |-> o]}
    /\ UNCHANGED <<data, erased, raced>>

IssueCall(o) ==
    \/ Issues(o) /\ UNCHANGED raced
    \/ GivenUp("issue", o)
    \/ UNCHANGED workerVars

(* Late, or never.                                                         *)
CarriedOut(c) ==
    /\ c \in late /\ late' = late \ {c}
    /\ \/ c.op = "issue" /\ data' = data \cup {c.owner} /\ UNCHANGED <<erased, raced>>
       \/ c.op = "erase" /\ Erases(c.owner)
       \/ UNCHANGED <<data, erased, raced>>
    /\ UNCHANGED <<authVars, screen, requestVars>>

(* The sign-up hook: whatever became of the test key, the sign-in goes on. *)
HookReturns(b) ==
    /\ signup[b] # None
    /\ signup' = [signup EXCEPT ![b] = None]
    /\ IssueCall(signup[b])
    /\ sessions' = sessions \cup {<<b, signup[b]>>}
    /\ cookie' = [cookie EXCEPT ![b] = signup[b]]
    /\ Shows(b, "dashboard")
    /\ UNCHANGED <<made, user, links, issuing, deleting>>

(* The key routes: a session, then the worker.                             *)
AskForKey(b) ==
    /\ screen[b] = "dashboard" /\ issuing[b] = None /\ SessionOf(b) # None
    /\ issuing' = [issuing EXCEPT ![b] = SessionOf(b)]
    /\ raced' = IF SessionOf(b) \in erased THEN raced \cup {SessionOf(b)} ELSE raced
    /\ UNCHANGED <<authVars, screen, signup, deleting, late, data, erased>>

KeyAnswered(b) ==
    /\ issuing[b] # None
    /\ issuing' = [issuing EXCEPT ![b] = None]
    /\ IssueCall(issuing[b])
    /\ UNCHANGED <<authVars, screen, signup, deleting>>
-----------------------------------------------------------------------------
(* DeleteAccountCard and its route.                                        *)
OpenDelete(b) ==
    /\ Goes(b, {"dashboard"}, "confirm")
    /\ UNCHANGED <<authVars, requestVars, workerVars>>

CancelDelete(b) ==
    /\ Goes(b, {"confirm", "delete error"}, "dashboard")
    /\ UNCHANGED <<authVars, requestVars, workerVars>>

Remove(b) ==
    /\ screen[b] \in {"confirm", "delete error"} /\ deleting[b] = NotDeleting
    /\ \/ /\ SessionOf(b) # None
          /\ deleting' = [deleting EXCEPT ![b] = [pc |-> "authed", owner |-> SessionOf(b)]]
          /\ Shows(b, "deleting")
       \/ /\ SessionOf(b) = None
          /\ Shows(b, "delete error")
          /\ UNCHANGED deleting
    /\ UNCHANGED <<authVars, signup, issuing, workerVars>>

DeleteFails(b) ==
    /\ deleting' = [deleting EXCEPT ![b] = NotDeleting]
    /\ screen' = [screen EXCEPT ![b] = IF @ = "deleting" THEN "delete error" ELSE @]

Erasing(b) == deleting[b].pc = "authed"

(* Deviation: owners without rows are not found. *)
WorkerErasesOnce(b) ==
    /\ Erasing(b) /\ deleting[b].owner \in data
    /\ Erases(deleting[b].owner)
    /\ deleting' = [deleting EXCEPT ![b].pc = "erased"]
    /\ UNCHANGED <<authVars, screen, signup, issuing, late>>

WorkerErases(b) ==
    /\ Erasing(b)
    /\ Erases(deleting[b].owner)
    /\ deleting' = [deleting EXCEPT ![b].pc = "erased"]
    /\ UNCHANGED <<authVars, screen, signup, issuing, late>>

(* Deviation: the answer's status is not looked at. *)
WorkerFailsIgnored(b) ==
    /\ Erasing(b)
    /\ deleting' = [deleting EXCEPT ![b].pc = "erased"]
    /\ UNCHANGED <<authVars, screen, signup, issuing, workerVars>>

(* It refuses, as when Paystack does not cancel; or is too late.           *)
WorkerFails(b) ==
    /\ Erasing(b)
    /\ DeleteFails(b)
    /\ \/ UNCHANGED workerVars
       \/ GivenUp("erase", deleting[b].owner)
       \/ Erases(deleting[b].owner) /\ UNCHANGED late
    /\ UNCHANGED <<authVars, signup, issuing>>

(* db.batch, all or nothing.  The card that hears of it signs out.         *)
DeleteRows(b) ==
    LET o == deleting[b].owner IN
    /\ deleting[b].pc = "erased"
    /\ sessions' = {s \in sessions : s[2] # o}
    /\ user' = IF user = o THEN None ELSE user
    /\ links' = 0
    /\ deleting' = [deleting EXCEPT ![b] = NotDeleting]
    /\ \/ /\ screen[b] = "deleting" /\ Shows(b, "form")
          /\ cookie' = [cookie EXCEPT ![b] = None]
       \/ screen[b] # "deleting" /\ UNCHANGED <<screen, cookie>>
    /\ UNCHANGED <<made, signup, issuing, workerVars>>

BatchFails(b) ==
    /\ deleting[b].pc = "erased"
    /\ DeleteFails(b)
    /\ UNCHANGED <<authVars, signup, issuing, workerVars>>

(* fetch rejects, which remove does not catch: the card stays busy, and    *)
(* the route goes on.                                                      *)
AnswerLost(b) ==
    /\ Goes(b, {"deleting"}, "stuck")
    /\ UNCHANGED <<authVars, requestVars, workerVars>>
-----------------------------------------------------------------------------
SignInStep(b) ==
    \/ BadEmail(b) \/ MagicLink(b) \/ LinkSent(b) \/ LinkFails(b) \/ UseAnother(b)
    \/ Social(b) \/ SocialFails(b) \/ SocialReturns(b) \/ FollowLink(b)
    \/ SignOut(b) \/ Reload(b)

DeleteStep(b) ==
    \/ OpenDelete(b) \/ CancelDelete(b) \/ Remove(b)
    \/ WorkerErases(b) \/ WorkerFails(b) \/ DeleteRows(b) \/ BatchFails(b)
    \/ AnswerLost(b)

Next ==
    \/ \E b \in Browser :
         SignInStep(b) \/ HookReturns(b) \/ AskForKey(b) \/ KeyAnswered(b) \/ DeleteStep(b)
    \/ LinkExpires
    \/ \E c \in Call : CarriedOut(c)

(* A request is answered one way or the other, and a provider redirects or *)
(* does not.  A patient person asks again after an error and reloads a     *)
(* page that is stuck; neither the worker nor the database fails them      *)
(* every time.                                                             *)
Fairness(b) ==
    /\ WF_vars(SocialFails(b)) /\ WF_vars(HookReturns(b))
    /\ WF_vars(Remove(b)) /\ WF_vars(screen[b] = "stuck" /\ Reload(b))
    /\ WF_vars(WorkerErases(b) \/ WorkerFails(b)) /\ SF_vars(WorkerErases(b))
    /\ WF_vars(DeleteRows(b) \/ BatchFails(b)) /\ SF_vars(DeleteRows(b))

Spec == Init /\ [][Next]_vars /\ \A b \in Patient : Fairness(b)
-----------------------------------------------------------------------------
(* The type invariant.                                                     *)
TypeOK ==
    /\ made \in 0..MaxUser /\ user \in (1..made) \cup {None}
    /\ sessions \subseteq Browser \X (1..made)
    /\ links \in 0..MaxLinks
    /\ cookie \in [Browser -> (1..made) \cup {None}]
    /\ screen \in [Browser -> Screen]
    /\ signup \in [Browser -> (1..made) \cup {None}]
    /\ issuing \in [Browser -> (1..made) \cup {None}]
    /\ deleting \in [Browser -> {NotDeleting} \cup [pc : {"authed", "erased"}, owner : 1..made]]
    /\ late \subseteq [op : {"issue", "erase"}, owner : 1..made]
    /\ IsFiniteSet(late) /\ Cardinality(late) <= MaxLate
    /\ data \subseteq 1..made /\ erased \subseteq 1..made /\ raced \subseteq 1..made

(* The worker keeps nothing of an account that is gone, whichever of the   *)
(* steps failed and however often it was tried again (account/route.ts:    *)
(* 14-19), unless a call for a key of its own was under way while it was   *)
(* erased, or was let in between that and the deletion of its rows.        *)
GoneIsErased == \A o \in 1..made : o # user /\ o \in data => o \in raced

(* A deletion that was asked for comes to its end by being asked for       *)
(* again, "a retry after a partial failure converges", unless the person   *)
(* gives up or signs out.                                                  *)
DeletionConverges ==
    \A b \in Patient, o \in User :
        deleting[b].owner = o ~> user # o \/ screen[b] = "dashboard" \/ cookie[b] # o

(* A sign-in ends: the page does not stay at "Redirecting...", and a new   *)
(* user has a session whatever the worker made of the test key, unless the *)
(* account is gone again by then.                                          *)
SignInEnds ==
    \A b \in Patient :
        /\ screen[b] = "redirecting" ~> screen[b] # "redirecting"
        /\ \A o \in User : signup[b] = o ~> SessionOf(b) = o \/ user # o
=============================================================================
