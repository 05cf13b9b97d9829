---------------------------- MODULE AccountProofs ----------------------------
(***************************************************************************)
(* Theorems about Account, for any number of browsers and accounts.        *)
(*                                                                         *)
(* GoneIsErased is inductive together with two facts about accounts that   *)
(* were erased: every account that is gone was, as its rows are deleted    *)
(* only after the worker has said so; and a call for a key under way for   *)
(* an erased one raced.                                                    *)
(***************************************************************************)
EXTENDS Account, FiniteSetTheorems, TLAPS

(* Who is gone was erased first, ...                                       *)
GoneWasErased == \A o \in 1..made : o # user => o \in erased

(* ... by the deletion that is about to delete his rows, ...               *)
DeletingErased ==
    \A b \in Browser : deleting[b].pc = "erased" => deleting[b].owner \in erased

(* ... and whatever may still make data of an erased account raced.        *)
ErasedOrRaced == \A o \in erased : UnderWay(o) \/ o \in data => o \in raced

AccountInv == TypeOK /\ GoneWasErased /\ DeletingErased /\ ErasedOrRaced

USE AccountAssumption

-----------------------------------------------------------------------------
LEMMA InitInv ==
  ASSUME Init
  PROVE  AccountInv
<1> USE DEF Init
<1>1. IsFiniteSet({}) /\ Cardinality({}) = 0
  BY FS_EmptySet
<1>2. TypeOK
  BY <1>1 DEF TypeOK, Screen, Form
<1> QED
  BY <1>2 DEF AccountInv, GoneWasErased, DeletingErased, ErasedOrRaced, NotDeleting

(* A step of sign-in records and screens only.                             *)
LEMMA AuthStep ==
  ASSUME AccountInv, UNCHANGED <<made, user, requestVars, workerVars>>,
         sessions' \subseteq Browser \X (1..made), links' \in 0..MaxLinks,
         cookie' \in [Browser -> (1..made) \cup {None}], screen' \in [Browser -> Screen]
  PROVE  AccountInv'
<1>1. TypeOK'
  BY DEF AccountInv, TypeOK, requestVars, workerVars
<1> QED
  BY <1>1 DEF AccountInv, GoneWasErased, DeletingErased, ErasedOrRaced, UnderWay,
              requestVars, workerVars

(* A step of the screens only.                                             *)
LEMMA ScreenStep ==
  ASSUME AccountInv, NEW b \in Browser, NEW s \in Screen, Shows(b, s),
         UNCHANGED <<authVars, requestVars, workerVars>>
  PROVE  AccountInv'
<1>1. /\ sessions' \subseteq Browser \X (1..made) /\ links' \in 0..MaxLinks
      /\ cookie' \in [Browser -> (1..made) \cup {None}] /\ screen' \in [Browser -> Screen]
  BY DEF AccountInv, TypeOK, Shows, authVars
<1> QED
  BY <1>1, AuthStep DEF authVars

(* Signing in: to the account there is, or to a new one.                   *)
LEMMA SignInInv ==
  ASSUME AccountInv, NEW b \in Browser, NEW n \in {0, 1}, n <= links, SignIn(b, n)
  PROVE  AccountInv'
<1>1. TypeOK /\ GoneWasErased /\ DeletingErased /\ ErasedOrRaced
  BY DEF AccountInv
<1>2. links' \in 0..MaxLinks
  BY <1>1 DEF TypeOK, SignIn
<1>3. CASE user # None
  <2>1. /\ sessions' = sessions \cup {<<b, user>>} /\ cookie' = [cookie EXCEPT ![b] = user]
        /\ Shows(b, "dashboard") /\ user \in 1..made
        /\ UNCHANGED <<made, user, requestVars, workerVars>>
    BY <1>1, <1>3 DEF SignIn, TypeOK, requestVars
  <2>2. /\ sessions' \subseteq Browser \X (1..made)
        /\ cookie' \in [Browser -> (1..made) \cup {None}] /\ screen' \in [Browser -> Screen]
    BY <1>1, <2>1 DEF TypeOK, Shows, Screen
  <2> QED
    BY <1>2, <2>1, <2>2, AuthStep
<1>4. CASE user = None
  <2>1. /\ made < MaxUser /\ made' = made + 1 /\ user' = made + 1
        /\ signup' = [signup EXCEPT ![b] = made + 1]
        /\ UNCHANGED <<sessions, cookie, screen, issuing, deleting, workerVars>>
    BY <1>1, <1>4 DEF SignIn
  <2>2. made \in Nat /\ made' \in 0..MaxUser /\ 1..made' = (1..made) \cup {made'}
    BY <1>1, <2>1 DEF TypeOK
  <2>3. TypeOK'
    BY <1>1, <1>2, <2>1, <2>2 DEF TypeOK, workerVars
  <2>4. made' \notin erased
    BY <1>1, <2>1, <2>2 DEF TypeOK
  <2>5. GoneWasErased' /\ DeletingErased'
    BY <1>1, <1>4, <2>1, <2>2 DEF TypeOK, GoneWasErased, DeletingErased, workerVars
  <2>6. ErasedOrRaced'
    <3>1. \A o \in erased : UnderWay(o)' => UnderWay(o)
      BY <1>1, <2>1, <2>4 DEF TypeOK, UnderWay, workerVars
    <3> QED
      BY <1>1, <2>1, <3>1 DEF ErasedOrRaced, workerVars
  <2> QED
    BY <2>3, <2>5, <2>6 DEF AccountInv
<1> QED
  BY <1>3, <1>4

(* Signing in, out and being sent to where one belongs.                    *)
LEMMA SignInStepInv ==
  ASSUME AccountInv, NEW b \in Browser, SignInStep(b)
  PROVE  AccountInv'
<1> USE DEF Goes, Screen, Form, Card
<1>1. TypeOK /\ links \in 0..MaxLinks
  BY DEF AccountInv, TypeOK
<1>2. CASE BadEmail(b) \/ MagicLink(b) \/ LinkFails(b) \/ UseAnother(b) \/ Social(b)
           \/ SocialFails(b)
  BY <1>2, ScreenStep
     DEF BadEmail, MagicLink, LinkFails, UseAnother, Social, SocialFails
<1>3. CASE LinkSent(b)
  <2>1. links' \in 0..MaxLinks
    BY <1>1, <1>3 DEF LinkSent
  <2>2. screen' \in [Browser -> Screen]
    BY <1>1, <1>3 DEF LinkSent, TypeOK, Shows
  <2>3. sessions' \subseteq Browser \X (1..made) /\ cookie' \in [Browser -> (1..made) \cup {None}]
    BY <1>1, <1>3 DEF LinkSent, TypeOK
  <2> QED
    BY <1>3, <2>1, <2>2, <2>3, AuthStep DEF LinkSent
<1>4. CASE SocialReturns(b)
  <2>1. 0 <= links /\ SignIn(b, 0)
    BY <1>1, <1>4 DEF SocialReturns
  <2>2. 0 \in {0, 1}
    OBVIOUS
  <2> QED
    BY <2>1, <2>2, SignInInv
<1>5. CASE FollowLink(b)
  <2>1. links > 0 /\ SignIn(b, 1)
    BY <1>5 DEF FollowLink
  <2>2. 1 <= links /\ 1 \in {0, 1}
    BY <1>1, <2>1
  <2> QED
    BY <2>1, <2>2, SignInInv
<1>6. CASE SignOut(b)
  <2>1. /\ sessions' \subseteq Browser \X (1..made) /\ links' \in 0..MaxLinks
        /\ cookie' \in [Browser -> (1..made) \cup {None}] /\ screen' \in [Browser -> Screen]
    BY <1>1, <1>6 DEF SignOut, TypeOK, Shows
  <2> QED
    BY <1>6, <2>1, AuthStep DEF SignOut
<1>7. CASE Reload(b)
  BY <1>7, ScreenStep DEF Reload
<1> QED
  BY <1>2, <1>3, <1>4, <1>5, <1>6, <1>7 DEF SignInStep

-----------------------------------------------------------------------------
(* What a step of the worker's must keep: nobody comes to be under way.    *)
LEMMA WorkerStep ==
  ASSUME AccountInv, UNCHANGED <<made, user, deleting>>,
         sessions' \subseteq Browser \X (1..made), links' = links,
         cookie' \in [Browser -> (1..made) \cup {None}], screen' \in [Browser -> Screen],
         signup' \in [Browser -> (1..made) \cup {None}],
         issuing' \in [Browser -> (1..made) \cup {None}],
         late' \subseteq [op : {"issue", "erase"}, owner : 1..made],
         IsFiniteSet(late'), Cardinality(late') <= MaxLate,
         data' \subseteq 1..made, raced \subseteq raced', raced' \subseteq 1..made,
         erased' = erased,
         \A o \in erased : UnderWay(o)' \/ o \in data' =>
            UnderWay(o) \/ o \in data \/ o \in raced'
  PROVE  AccountInv'
<1>1. TypeOK'
  BY DEF AccountInv, TypeOK
<1>2. ErasedOrRaced'
  BY DEF AccountInv, ErasedOrRaced
<1> QED
  BY <1>1, <1>2 DEF AccountInv, GoneWasErased, DeletingErased

(* A call given up joins the others.                                       *)
LEMMA GivenUpType ==
  ASSUME AccountInv, NEW op \in {"issue", "erase"}, NEW o \in 1..made, GivenUp(op, o)
  PROVE  /\ late' \subseteq [op : {"issue", "erase"}, owner : 1..made]
         /\ IsFiniteSet(late') /\ Cardinality(late') <= MaxLate
         /\ UNCHANGED <<data, erased, raced>>
<1> DEFINE c == [op |-> op, owner |-> o]
<1>1. /\ late' = late \cup {c} /\ Cardinality(late) < MaxLate
      /\ UNCHANGED <<data, erased, raced>>
  BY DEF GivenUp
<1>2. /\ IsFiniteSet(late) /\ late \subseteq [op : {"issue", "erase"}, owner : 1..made]
  BY DEF AccountInv, TypeOK
<1>3. Cardinality(late) \in Nat
  BY <1>2, FS_CardinalityType
<1>4. /\ IsFiniteSet(late') /\ Cardinality(late') = IF c \in late THEN Cardinality(late)
                                                    ELSE Cardinality(late) + 1
  BY <1>1, <1>2, FS_AddElement
<1>5. late' \subseteq [op : {"issue", "erase"}, owner : 1..made]
  BY <1>1, <1>2
<1>6. Cardinality(late') <= MaxLate
  BY <1>1, <1>3, <1>4
<1> QED
  BY <1>1, <1>4, <1>5, <1>6

(* A call for a key of someone for whom one was under way.                 *)
LEMMA IssueCallKeeps ==
  ASSUME AccountInv, NEW o \in 1..made, UnderWay(o), IssueCall(o)
  PROVE  /\ late' \subseteq [op : {"issue", "erase"}, owner : 1..made]
         /\ IsFiniteSet(late') /\ Cardinality(late') <= MaxLate
         /\ data' \subseteq data \cup {o} /\ UNCHANGED <<erased, raced>>
         /\ \A p \in erased : [op |-> "issue", owner |-> p] \in late' =>
              [op |-> "issue", owner |-> p] \in late \/ p = o
<1>1. /\ late \subseteq [op : {"issue", "erase"}, owner : 1..made]
      /\ IsFiniteSet(late) /\ Cardinality(late) <= MaxLate
  BY DEF AccountInv, TypeOK
<1>2. CASE GivenUp("issue", o)
  <2>1. late' = late \cup {[op |-> "issue", owner |-> o]}
    BY <1>2 DEF GivenUp
  <2> QED
    BY <1>2, <2>1, GivenUpType
<1>3. CASE Issues(o) /\ UNCHANGED raced
  BY <1>1, <1>3 DEF Issues
<1>4. CASE UNCHANGED workerVars
  BY <1>1, <1>4 DEF workerVars
<1> QED
  BY <1>2, <1>3, <1>4 DEF IssueCall

LEMMA IssueInv ==
  ASSUME AccountInv, NEW b \in Browser, HookReturns(b) \/ AskForKey(b) \/ KeyAnswered(b)
  PROVE  AccountInv'
<1>1. TypeOK /\ ErasedOrRaced
  BY DEF AccountInv
<1>2. CASE HookReturns(b)
  <2> DEFINE o == signup[b]
  <2>1. o \in 1..made /\ UnderWay(o)
    BY <1>1, <1>2 DEF HookReturns, TypeOK, UnderWay
  <2>2. IssueCall(o)
    BY <1>2 DEF HookReturns
  <2>3. /\ late' \subseteq [op : {"issue", "erase"}, owner : 1..made]
        /\ IsFiniteSet(late') /\ Cardinality(late') <= MaxLate
        /\ data' \subseteq data \cup {o} /\ UNCHANGED <<erased, raced>>
        /\ \A p \in erased : [op |-> "issue", owner |-> p] \in late' =>
             [op |-> "issue", owner |-> p] \in late \/ p = o
    BY <2>1, <2>2, IssueCallKeeps
  <2>4. /\ sessions' \subseteq Browser \X (1..made)
        /\ cookie' \in [Browser -> (1..made) \cup {None}]
        /\ signup' \in [Browser -> (1..made) \cup {None}]
    BY <1>1, <1>2, <2>1 DEF HookReturns, TypeOK
  <2>5. screen' \in [Browser -> Screen]
    BY <1>1, <1>2 DEF HookReturns, TypeOK, Shows, Screen
  <2>6. \A p \in erased : UnderWay(p)' \/ p \in data' => UnderWay(p) \/ p \in data
    BY <1>1, <1>2, <2>1, <2>3 DEF HookReturns, TypeOK, UnderWay
  <2>7. /\ UNCHANGED <<made, user, deleting, links, issuing>>
        /\ issuing' \in [Browser -> (1..made) \cup {None}]
        /\ data' \subseteq 1..made /\ raced' \subseteq 1..made
    BY <1>1, <1>2, <2>1, <2>3 DEF HookReturns, TypeOK
  <2> QED
    BY <2>3, <2>4, <2>5, <2>6, <2>7, WorkerStep
<1>3. CASE KeyAnswered(b)
  <2> DEFINE o == issuing[b]
  <2>1. o \in 1..made /\ UnderWay(o)
    BY <1>1, <1>3 DEF KeyAnswered, TypeOK, UnderWay
  <2>2. IssueCall(o)
    BY <1>3 DEF KeyAnswered
  <2>3. /\ late' \subseteq [op : {"issue", "erase"}, owner : 1..made]
        /\ IsFiniteSet(late') /\ Cardinality(late') <= MaxLate
        /\ data' \subseteq data \cup {o} /\ UNCHANGED <<erased, raced>>
        /\ \A p \in erased : [op |-> "issue", owner |-> p] \in late' =>
             [op |-> "issue", owner |-> p] \in late \/ p = o
    BY <2>1, <2>2, IssueCallKeeps
  <2>4. \A p \in erased : UnderWay(p)' \/ p \in data' => UnderWay(p) \/ p \in data
    BY <1>1, <1>3, <2>1, <2>3 DEF KeyAnswered, TypeOK, UnderWay
  <2>5. /\ UNCHANGED <<made, user, deleting, links, sessions, cookie, screen, signup>>
        /\ issuing' \in [Browser -> (1..made) \cup {None}]
        /\ data' \subseteq 1..made /\ raced' \subseteq 1..made
    BY <1>1, <1>3, <2>1, <2>3 DEF KeyAnswered, TypeOK, authVars
  <2>6. /\ sessions' \subseteq Browser \X (1..made)
        /\ cookie' \in [Browser -> (1..made) \cup {None}] /\ screen' \in [Browser -> Screen]
        /\ signup' \in [Browser -> (1..made) \cup {None}]
    BY <1>1, <2>5 DEF TypeOK
  <2> QED
    BY <2>3, <2>4, <2>5, <2>6, WorkerStep
<1>4. CASE AskForKey(b)
  <2> DEFINE o == SessionOf(b)
  <2>1. o \in 1..made
    BY <1>1, <1>4 DEF AskForKey, SessionOf, TypeOK
  <2>2. raced' = IF o \in erased THEN raced \cup {o} ELSE raced
    BY <1>4 DEF AskForKey
  <2>3. /\ UNCHANGED <<made, user, deleting, links, sessions, cookie, screen, signup, late,
                       data, erased>>
        /\ issuing' = [issuing EXCEPT ![b] = o]
    BY <1>4 DEF AskForKey, authVars
  <2>4. \A p \in erased : UnderWay(p)' => UnderWay(p) \/ p \in raced'
    BY <1>1, <2>1, <2>2, <2>3 DEF TypeOK, UnderWay
  <2>5. issuing' \in [Browser -> (1..made) \cup {None}]
    BY <1>1, <2>1, <2>3 DEF TypeOK
  <2>6. raced \subseteq raced' /\ raced' \subseteq 1..made
    BY <1>1, <2>1, <2>2 DEF TypeOK
  <2>7. /\ sessions' \subseteq Browser \X (1..made)
        /\ cookie' \in [Browser -> (1..made) \cup {None}] /\ screen' \in [Browser -> Screen]
        /\ signup' \in [Browser -> (1..made) \cup {None}]
        /\ late' \subseteq [op : {"issue", "erase"}, owner : 1..made]
        /\ IsFiniteSet(late') /\ Cardinality(late') <= MaxLate /\ data' \subseteq 1..made
    BY <1>1, <2>3 DEF TypeOK
  <2> QED
    BY <2>3, <2>4, <2>5, <2>6, <2>7, WorkerStep
<1> QED
  BY <1>2, <1>3, <1>4

-----------------------------------------------------------------------------
(* The worker erases an owner: what was under way for him races from now.  *)
LEMMA ErasesStep ==
  ASSUME AccountInv, NEW o \in 1..made, Erases(o),
         UNCHANGED <<authVars, signup, issuing>>, screen' \in [Browser -> Screen],
         late' \subseteq late, IsFiniteSet(late'), Cardinality(late') <= MaxLate,
         deleting' \in [Browser -> {NotDeleting} \cup [pc : {"authed", "erased"}, owner : 1..made]],
         \A b \in Browser : deleting'[b].pc = "erased" =>
            deleting'[b].owner = o \/ deleting'[b] = deleting[b]
  PROVE  AccountInv'
<1>1. TypeOK /\ GoneWasErased /\ DeletingErased /\ ErasedOrRaced
  BY DEF AccountInv
<1>2. TypeOK'
  BY <1>1 DEF TypeOK, Erases, authVars
<1>3. GoneWasErased' /\ DeletingErased'
  BY <1>1 DEF GoneWasErased, DeletingErased, Erases, authVars
<1>4. \A p : UnderWay(p)' => UnderWay(p)
  BY DEF UnderWay
<1>5. ErasedOrRaced'
  BY <1>1, <1>4 DEF ErasedOrRaced, Erases
<1> QED
  BY <1>2, <1>3, <1>5 DEF AccountInv

LEMMA CarriedOutInv ==
  ASSUME AccountInv, NEW c \in Call, CarriedOut(c)
  PROVE  AccountInv'
<1>1. TypeOK
  BY DEF AccountInv
<1>2. c \in late /\ c.owner \in 1..made /\ late' = late \ {c} /\ IsFiniteSet(late)
  BY <1>1 DEF CarriedOut, TypeOK
<1>3. IsFiniteSet(late') /\ Cardinality(late') <= Cardinality(late)
  BY <1>2, FS_Subset
<1>4. Cardinality(late') <= MaxLate
  BY <1>1, <1>2, <1>3, FS_CardinalityType DEF TypeOK
<1>5. UNCHANGED <<authVars, screen, requestVars>>
  BY DEF CarriedOut
<1>6. CASE c.op = "erase" /\ Erases(c.owner)
  <2>1. /\ screen' \in [Browser -> Screen]
        /\ deleting' \in [Browser -> {NotDeleting} \cup [pc : {"authed", "erased"}, owner : 1..made]]
    BY <1>1, <1>5 DEF TypeOK, requestVars
  <2> QED
    BY <1>2, <1>3, <1>4, <1>5, <1>6, <2>1, ErasesStep DEF requestVars
<1>7. CASE data' \subseteq data \cup {c.owner} /\ (c.op = "issue" \/ data' = data)
           /\ UNCHANGED <<erased, raced>>
  <2>1. c = [op |-> "issue", owner |-> c.owner] \/ data' = data
    BY <1>2, <1>7 DEF Call
  <2>2. \A o \in erased : UnderWay(o)' \/ o \in data' => UnderWay(o) \/ o \in data
    BY <1>2, <1>5, <1>7, <2>1 DEF UnderWay, requestVars
  <2>3. data' \subseteq 1..made /\ raced' \subseteq 1..made
    BY <1>1, <1>2, <1>7 DEF TypeOK
  <2>4. late' \subseteq [op : {"issue", "erase"}, owner : 1..made]
    BY <1>1, <1>2 DEF TypeOK
  <2>5. /\ sessions' \subseteq Browser \X (1..made)
        /\ cookie' \in [Browser -> (1..made) \cup {None}] /\ screen' \in [Browser -> Screen]
        /\ signup' \in [Browser -> (1..made) \cup {None}]
        /\ issuing' \in [Browser -> (1..made) \cup {None}]
    BY <1>1, <1>5 DEF TypeOK, authVars, requestVars
  <2>6. UNCHANGED <<made, user, deleting, links>>
    BY <1>5 DEF authVars, requestVars
  <2> QED
    BY <1>3, <1>4, <1>7, <2>2, <2>3, <2>4, <2>5, <2>6, WorkerStep
<1> QED
  BY <1>6, <1>7 DEF CarriedOut

(* A deletion comes to nothing, or begins: no rows are gone.               *)
LEMMA DeletingStep ==
  ASSUME AccountInv, UNCHANGED <<authVars, signup, issuing, workerVars>>,
         screen' \in [Browser -> Screen],
         deleting' \in [Browser -> {NotDeleting} \cup [pc : {"authed", "erased"}, owner : 1..made]],
         \A b \in Browser : deleting'[b].pc = "erased" => deleting'[b] = deleting[b]
  PROVE  AccountInv'
<1>1. TypeOK'
  BY DEF AccountInv, TypeOK, authVars, workerVars
<1> QED
  BY <1>1 DEF AccountInv, GoneWasErased, DeletingErased, ErasedOrRaced, UnderWay,
              authVars, workerVars

(* The worker refuses, gives up, or erases too late.                       *)
LEMMA WorkerFailsInv ==
  ASSUME AccountInv, NEW b \in Browser, WorkerFails(b)
  PROVE  AccountInv'
<1> DEFINE o == deleting[b].owner
<1>1. TypeOK
  BY DEF AccountInv
<1>2. o \in 1..made
  BY <1>1 DEF WorkerFails, Erasing, TypeOK, NotDeleting
<1>3. /\ screen' \in [Browser -> Screen]
      /\ deleting' = [deleting EXCEPT ![b] = NotDeleting]
  BY <1>1 DEF WorkerFails, DeleteFails, TypeOK, Screen, Card
<1>4. /\ deleting' \in [Browser -> {NotDeleting} \cup [pc : {"authed", "erased"}, owner : 1..made]]
      /\ \A d \in Browser : deleting'[d].pc = "erased" => deleting'[d] = deleting[d]
  BY <1>1, <1>3 DEF TypeOK, NotDeleting
<1>5. UNCHANGED <<authVars, signup, issuing>>
  BY DEF WorkerFails
<1>6. CASE UNCHANGED workerVars
  BY <1>3, <1>4, <1>5, <1>6, DeletingStep
<1>7. CASE GivenUp("erase", o)
  <2>1. /\ late' \subseteq [op : {"issue", "erase"}, owner : 1..made]
        /\ IsFiniteSet(late') /\ Cardinality(late') <= MaxLate
        /\ UNCHANGED <<data, erased, raced>>
    BY <1>2, <1>7, GivenUpType
  <2>2. \A p : UnderWay(p)' => UnderWay(p)
    BY <1>5, <1>7 DEF UnderWay, GivenUp
  <2>3. TypeOK'
    BY <1>1, <1>3, <1>4, <1>5, <2>1 DEF TypeOK, authVars
  <2> QED
    BY <1>4, <1>5, <2>1, <2>2, <2>3
       DEF AccountInv, GoneWasErased, DeletingErased, ErasedOrRaced, authVars
<1>8. CASE Erases(o) /\ UNCHANGED late
  <2>1. IsFiniteSet(late') /\ Cardinality(late') <= MaxLate /\ late' \subseteq late
    BY <1>1, <1>8 DEF TypeOK
  <2> QED
    BY <1>2, <1>3, <1>4, <1>5, <1>8, <2>1, ErasesStep
<1> QED
  BY <1>6, <1>7, <1>8 DEF WorkerFails

(* The rows go: of someone the worker has erased.                          *)
LEMMA DeleteRowsInv ==
  ASSUME AccountInv, NEW b \in Browser, DeleteRows(b)
  PROVE  AccountInv'
<1> DEFINE o == deleting[b].owner
<1>1. TypeOK /\ GoneWasErased /\ DeletingErased /\ ErasedOrRaced
  BY DEF AccountInv
<1>2. o \in 1..made /\ o \in erased
  BY <1>1 DEF DeleteRows, TypeOK, DeletingErased, NotDeleting
<1>3. /\ deleting' = [deleting EXCEPT ![b] = NotDeleting]
      /\ user' = IF user = o THEN None ELSE user
      /\ sessions' \subseteq sessions /\ links' = 0
      /\ UNCHANGED <<made, signup, issuing, workerVars>>
  BY DEF DeleteRows
<1>4. screen' \in [Browser -> Screen] /\ cookie' \in [Browser -> (1..made) \cup {None}]
  <2>1. screen \in [Browser -> Screen] /\ cookie \in [Browser -> (1..made) \cup {None}]
    BY <1>1 DEF TypeOK
  <2>2. CASE UNCHANGED <<screen, cookie>>
    BY <2>1, <2>2
  <2>3. CASE /\ screen' = [screen EXCEPT ![b] = "form"]
             /\ cookie' = [cookie EXCEPT ![b] = None]
    <3>1. "form" \in Screen /\ None \in (1..made) \cup {None}
      BY DEF Screen, Form
    <3> QED
      BY <2>1, <2>3, <3>1
  <2> QED
    BY <2>2, <2>3 DEF DeleteRows, Shows
<1>5. deleting' \in [Browser -> {NotDeleting} \cup [pc : {"authed", "erased"}, owner : 1..made]]
  BY <1>1, <1>3 DEF TypeOK
<1>6. TypeOK'
  BY <1>1, <1>3, <1>4, <1>5 DEF TypeOK, workerVars
<1>7. GoneWasErased' /\ DeletingErased' /\ ErasedOrRaced'
  BY <1>1, <1>2, <1>3
     DEF TypeOK, GoneWasErased, DeletingErased, ErasedOrRaced, UnderWay, NotDeleting, workerVars
<1> QED
  BY <1>6, <1>7 DEF AccountInv

LEMMA DeleteStepInv ==
  ASSUME AccountInv, NEW b \in Browser, DeleteStep(b)
  PROVE  AccountInv'
<1>1. TypeOK
  BY DEF AccountInv
<1>2. CASE OpenDelete(b) \/ CancelDelete(b) \/ AnswerLost(b)
  <2>1. "confirm" \in Screen /\ "dashboard" \in Screen /\ "stuck" \in Screen
    BY DEF Screen, Card
  <2> QED
    BY <1>2, <2>1, ScreenStep DEF OpenDelete, CancelDelete, AnswerLost, Goes
<1>3. CASE Remove(b)
  <2>1. SessionOf(b) # None => SessionOf(b) \in 1..made
    BY <1>1 DEF SessionOf, TypeOK
  <2>2. screen' \in [Browser -> Screen]
    BY <1>1, <1>3 DEF Remove, Shows, TypeOK, Screen, Card
  <2>3. /\ deleting' \in [Browser -> {NotDeleting} \cup [pc : {"authed", "erased"}, owner : 1..made]]
        /\ \A d \in Browser : deleting'[d].pc = "erased" => deleting'[d] = deleting[d]
    <3>1. CASE deleting' = deleting
      BY <1>1, <3>1 DEF TypeOK
    <3>2. CASE /\ SessionOf(b) # None
               /\ deleting' = [deleting EXCEPT ![b] = [pc |-> "authed", owner |-> SessionOf(b)]]
      BY <1>1, <2>1, <3>2 DEF TypeOK
    <3> QED
      BY <1>3, <3>1, <3>2 DEF Remove
  <2> QED
    BY <1>3, <2>2, <2>3, DeletingStep DEF Remove
<1>4. CASE WorkerErases(b)
  <2> DEFINE o == deleting[b].owner
  <2>1. o \in 1..made /\ Erases(o)
    BY <1>1, <1>4 DEF WorkerErases, Erasing, TypeOK, NotDeleting
  <2>2. /\ deleting' \in [Browser -> {NotDeleting} \cup [pc : {"authed", "erased"}, owner : 1..made]]
        /\ \A d \in Browser : deleting'[d].pc = "erased" =>
             deleting'[d].owner = o \/ deleting'[d] = deleting[d]
    BY <1>1, <1>4, <2>1 DEF WorkerErases, Erasing, TypeOK, NotDeleting
  <2>3. /\ screen' \in [Browser -> Screen] /\ late' \subseteq late
        /\ IsFiniteSet(late') /\ Cardinality(late') <= MaxLate
    BY <1>1, <1>4 DEF WorkerErases, TypeOK
  <2>4. UNCHANGED <<authVars, signup, issuing>>
    BY <1>4 DEF WorkerErases
  <2> QED
    BY <2>1, <2>2, <2>3, <2>4, ErasesStep
<1>5. CASE BatchFails(b)
  <2>1. /\ screen' \in [Browser -> Screen]
        /\ deleting' = [deleting EXCEPT ![b] = NotDeleting]
    BY <1>1, <1>5 DEF BatchFails, DeleteFails, TypeOK, Screen, Card
  <2>2. /\ deleting' \in [Browser -> {NotDeleting} \cup [pc : {"authed", "erased"}, owner : 1..made]]
        /\ \A d \in Browser : deleting'[d].pc = "erased" => deleting'[d] = deleting[d]
    BY <1>1, <2>1 DEF TypeOK, NotDeleting
  <2> QED
    BY <1>5, <2>1, <2>2, DeletingStep DEF BatchFails
<1> QED
  BY <1>2, <1>3, <1>4, <1>5, WorkerFailsInv, DeleteRowsInv DEF DeleteStep

-----------------------------------------------------------------------------
LEMMA AccountInvariant == Spec => []AccountInv
<1>1. ASSUME AccountInv, [Next]_vars
      PROVE  AccountInv'
  <2>1. CASE UNCHANGED vars
    <3>1. /\ sessions' \subseteq Browser \X (1..made) /\ links' \in 0..MaxLinks
          /\ cookie' \in [Browser -> (1..made) \cup {None}] /\ screen' \in [Browser -> Screen]
      BY <1>1, <2>1 DEF AccountInv, TypeOK, vars, authVars
    <3> QED
      BY <1>1, <2>1, <3>1, AuthStep DEF vars, authVars
  <2>2. CASE LinkExpires
    <3>1. /\ sessions' \subseteq Browser \X (1..made) /\ links' \in 0..MaxLinks
          /\ cookie' \in [Browser -> (1..made) \cup {None}] /\ screen' \in [Browser -> Screen]
      BY <1>1, <2>2 DEF AccountInv, TypeOK, LinkExpires
    <3> QED
      BY <1>1, <2>2, <3>1, AuthStep DEF LinkExpires
  <2> QED
    BY <1>1, <2>1, <2>2, SignInStepInv, IssueInv, DeleteStepInv, CarriedOutInv DEF Next
<1> QED
  BY <1>1, InitInv, PTL DEF Spec

(* Every state has its type: sessions, cookies and calls are for accounts  *)
(* that were made.                                                         *)
THEOREM AccountType == Spec => []TypeOK
<1>1. AccountInv => TypeOK
  BY DEF AccountInv
<1> QED
  BY <1>1, AccountInvariant, PTL

(* DELETE /api/account: the worker keeps nothing of an account that is     *)
(* gone, whatever failed and was tried again, unless a call for a key of   *)
(* its own raced the erasure.                                              *)
THEOREM GoneAccountsAreErased == Spec => []GoneIsErased
<1>1. AccountInv => GoneIsErased
  BY DEF AccountInv, TypeOK, GoneWasErased, ErasedOrRaced, GoneIsErased
<1> QED
  BY <1>1, AccountInvariant, PTL
=============================================================================
