---------------------------- MODULE Subscriptions ----------------------------
(***************************************************************************)
(* Subscription state: subscriptions.py, the webhook of routes/billing.py  *)
(* and the erasure of routes/account.py, against Paystack.                 *)
(*                                                                         *)
(* Paystack holds the subscriptions and tells the worker about them by     *)
(* webhooks, which it repeats until one is answered with 200.  The webhook *)
(* handler is one step of the event loop once the body is there, but its   *)
(* writes are separate commits.  Erasing an owner waits for Paystack       *)
(* twice.  An owner has one Paystack customer, and the tier is a function  *)
(* of the subscription, so neither is a variable of its own.               *)
(***************************************************************************)
EXTENDS Integers, Sequences, SequencesExt

CONSTANTS
    Owner,
    Sub,          \* the subscriptions that may be bought
    OwnerOf,      \* [Sub -> Owner]
    NoSub,        \* subscription_code is NULL
    Overtaken,    \* event types that later events of the customer may overtake
    OneAtATime,   \* TRUE: an owner buys again only when the last one is off
    MaxFaults,    \* bound: answers to webhooks that get lost, crashes between two
                  \*   commits of the handler, and failed renewals a retry pays
    MaxErasures   \* bound: erasure requests

EventType == {"charge", "create", "failed", "not_renew", "disable"}

ASSUME SubscriptionsAssumption ==
    /\ OwnerOf \in [Sub -> Owner]
    /\ NoSub \notin Sub
    /\ Overtaken \subseteq EventType
    /\ OneAtATime \in BOOLEAN
    /\ MaxFaults \in Nat /\ MaxErasures \in Nat

(* The dedup key: the event type and the id of its object.                 *)
Event == [type : EventType, sub : Sub, id : Nat]

VARIABLES
    paystack,  \* the state of each subscription at Paystack
    retried,   \* renewals of each that failed and were paid by a retry
    outbox,    \* webhooks Paystack has still to get a 200 for, oldest first
    seen,      \* webhook_events
    status,    \* subscriptions.status of each owner, "none" without a row
    code,      \* subscriptions.subscription_code
    pending,   \* pending_activations of the owner's customer
    erasing,   \* where a delete_owner is: "idle", "get", "post" or "posted"
    target,    \* the subscription code it read
    erased,    \* owners whose last erasure went through, nothing bought since
    faults, crashes, erasures  \* how often so far

paystackVars == <<paystack, retried>>
rowVars      == <<status, code, pending>>
eraseVars    == <<erasing, target, erased, erasures>>
vars == <<paystackVars, outbox, seen, rowVars, eraseVars, faults, crashes>>

Init ==
    /\ paystack = [s \in Sub |-> "none"]
    /\ retried = [s \in Sub |-> 0]
    /\ outbox = <<>>
    /\ seen = {}
    /\ status = [o \in Owner |-> "none"]
    /\ code = [o \in Owner |-> NoSub]
    /\ pending = [o \in Owner |-> NoSub]
    /\ erasing = [o \in Owner |-> "idle"]
    /\ target = [o \in Owner |-> NoSub]
    /\ erased = {}
    /\ faults = 0 /\ crashes = 0 /\ erasures = 0

-----------------------------------------------------------------------------
(* Paystack.                                                               *)

Chargeable == {"active", "attention"}  \* its card will be charged (again)
Off == {"none", "cancelled"}

SubsOf(o) == {s \in Sub : OwnerOf[s] = o}

Move(s, from, to) ==
    /\ paystack[s] \in from
    /\ paystack' = [paystack EXCEPT ![s] = to]

Emit(s, types) ==
    outbox' = outbox \o [i \in 1..Len(types) |->
                            [type |-> types[i], sub |-> s, id |-> retried'[s]]]

(* An owner pays at the checkout admin_subscribe prepared.  Neither it nor *)
(* Paystack asks whether there is a subscription already.                  *)
Buy(s) ==
    /\ OneAtATime => \A t \in SubsOf(OwnerOf[s]) : paystack[t] \in Off
    /\ Move(s, {"none"}, "active")
    /\ UNCHANGED retried
    /\ Emit(s, <<"charge", "create">>)
    /\ erased' = erased \ {OwnerOf[s]}
    /\ UNCHANGED <<seen, rowVars, erasing, target, erasures, faults, crashes>>

(* A renewal fails; Paystack keeps the subscription and retries the card.  *)
FailRenewal(s) ==
    /\ Move(s, {"active"}, "attention")
    /\ UNCHANGED retried
    /\ Emit(s, <<"failed">>)
    /\ UNCHANGED <<seen, rowVars, eraseVars, faults, crashes>>

RetryPays(s) ==
    /\ faults < MaxFaults /\ faults' = faults + 1
    /\ Move(s, {"attention"}, "active")
    /\ retried' = [retried EXCEPT ![s] = @ + 1]
    /\ Emit(s, <<"charge">>)
    /\ UNCHANGED <<seen, rowVars, eraseVars, crashes>>

(* The customer cancels: the subscription runs out, ...                    *)
StopRenewing(s) ==
    /\ Move(s, {"active"}, "ending")
    /\ UNCHANGED retried
    /\ Emit(s, <<"not_renew">>)
    /\ UNCHANGED <<seen, rowVars, eraseVars, faults, crashes>>

(* ... or it is off at once, as when Paystack gives a failed one up.       *)
SwitchOff(s) ==
    /\ Move(s, {"active", "attention", "ending"}, "cancelled")
    /\ UNCHANGED retried
    /\ Emit(s, <<"disable">>)
    /\ UNCHANGED <<seen, rowVars, eraseVars, faults, crashes>>

-----------------------------------------------------------------------------
(* apply_webhook_event, by store operation.                                *)

(* The upsert of map_customer: a row, inactive if it is new.               *)
Upserted(o) == IF status[o] = "none" THEN "inactive" ELSE status[o]

MapCustomerForgetful(o) ==   \* Deviation: parked activations are not applied.
    /\ status' = [status EXCEPT ![o] = Upserted(o)]
    /\ UNCHANGED <<code, pending>>

(* map_customer and _apply_pending.                                        *)
MapCustomer(o) ==
    IF pending[o] = NoSub
    THEN /\ status' = [status EXCEPT ![o] = Upserted(o)]
         /\ UNCHANGED <<code, pending>>
    ELSE /\ status' = [status EXCEPT ![o] = "active"]
         /\ code' = [code EXCEPT ![o] = pending[o]]
         /\ pending' = [pending EXCEPT ![o] = NoSub]

(* activate: the owner's row, or a parked activation while there is none.  *)
Activate(o, s) ==
    IF status[o] = "none"
    THEN /\ pending' = [pending EXCEPT ![o] = s]
         /\ UNCHANGED <<status, code>>
    ELSE /\ status' = [status EXCEPT ![o] = "active"]
         /\ code' = [code EXCEPT ![o] = s]
         /\ UNCHANGED pending

DeactivateKeepsPending(o) ==   \* Deviation: the parked activation stays.
    /\ status' = [status EXCEPT ![o] = IF @ = "none" THEN @ ELSE "inactive"]
    /\ UNCHANGED <<code, pending>>

(* deactivate_by_customer: the row, if any, and any parked activation.     *)
Deactivate(o) ==
    /\ status' = [status EXCEPT ![o] = IF @ = "none" THEN @ ELSE "inactive"]
    /\ pending' = [pending EXCEPT ![o] = NoSub]
    /\ UNCHANGED code

Apply(e) ==
    LET o == OwnerOf[e.sub]
    IN  CASE e.type = "charge" -> MapCustomer(o)
          [] e.type = "create" -> Activate(o, e.sub)
          [] OTHER             -> Deactivate(o)

-----------------------------------------------------------------------------
(* paystack_webhook.                                                       *)

(* Webhooks of a customer come in order, but for the types that may be     *)
(* overtaken.                                                              *)
Arrives(i) ==
    /\ i \in 1..Len(outbox)
    /\ \A k \in 1..(i - 1) :
         OwnerOf[outbox[k].sub] = OwnerOf[outbox[i].sub] => outbox[k].type \in Overtaken

FreshAlways(e) == e.sub \in Sub   \* Deviation: no dedup.

(* record_event: the delivery was not seen before.                         *)
Fresh(e) == e \notin seen

Handle(e) ==
    /\ seen' = seen \cup {e}
    /\ IF Fresh(e) THEN Apply(e) ELSE UNCHANGED rowVars

(* Handled, answered, and the answer arrives.                              *)
Deliver(i) ==
    /\ Arrives(i)
    /\ Handle(outbox[i])
    /\ outbox' = RemoveAt(outbox, i)
    /\ UNCHANGED <<paystackVars, eraseVars, faults, crashes>>

Later(i) == Append(RemoveAt(outbox, i), outbox[i])

(* Handled, but the answer is lost: Paystack sends it again later.         *)
DeliverUnanswered(i) ==
    /\ faults < MaxFaults /\ faults' = faults + 1
    /\ Arrives(i)
    /\ outbox[i] \notin seen
    /\ Handle(outbox[i])
    /\ outbox' = Later(i)
    /\ UNCHANGED <<paystackVars, eraseVars, crashes>>

(* The process dies after record_event's commit, before any other, or      *)
(* after the upsert of map_customer and before _apply_pending.             *)
Crash(i) ==
    /\ faults < MaxFaults /\ faults' = faults + 1
    /\ Arrives(i)
    /\ Fresh(outbox[i])
    /\ seen' = seen \cup {outbox[i]}
    /\ \/ UNCHANGED rowVars
       \/ LET o == OwnerOf[outbox[i].sub]
          IN  /\ outbox[i].type = "charge" /\ pending[o] # NoSub
              /\ status' = [status EXCEPT ![o] = Upserted(o)]
              /\ UNCHANGED <<code, pending>>
    /\ outbox' = Later(i)
    /\ crashes' = crashes + 1
    /\ erasing' = [o \in Owner |-> "idle"]
    /\ UNCHANGED <<paystackVars, target, erased, erasures>>

-----------------------------------------------------------------------------
(* delete_owner.                                                           *)

(* purge_owner_data: every row of the owner goes in one transaction; a     *)
(* parked activation is its customer's and stays.                          *)
Purge(o) ==
    /\ status' = [status EXCEPT ![o] = "none"]
    /\ code' = [code EXCEPT ![o] = NoSub]
    /\ erased' = erased \cup {o}
    /\ erasing' = [erasing EXCEPT ![o] = "idle"]
    /\ UNCHANGED pending

(* Up to the first await, or through when there is no code to cancel.      *)
StartErase(o) ==
    /\ erasures < MaxErasures
    /\ erasing[o] = "idle"
    /\ erasures' = erasures + 1
    /\ target' = [target EXCEPT ![o] = code[o]]
    /\ \/ /\ code[o] # NoSub
          /\ erasing' = [erasing EXCEPT ![o] = "get"]
          /\ erased' = erased \ {o}
          /\ UNCHANGED rowVars
       \/ /\ code[o] = NoSub /\ status[o] # "active"
          /\ Purge(o)
    /\ UNCHANGED <<paystackVars, outbox, seen, faults, crashes>>

(* disable_subscription: the status Paystack reports decides.  One that is *)
(* off already needs no cancelling, and the purge follows at once.         *)
ReadStatusBlind(o) ==   \* Deviation: "attention" is taken for off.
    /\ erasing[o] = "get"
    /\ IF paystack[target[o]] = "active"
       THEN /\ erasing' = [erasing EXCEPT ![o] = "post"]
            /\ UNCHANGED <<rowVars, erased>>
       ELSE Purge(o)
    /\ UNCHANGED <<paystackVars, outbox, seen, target, erasures, faults, crashes>>

ReadStatus(o) ==
    /\ erasing[o] = "get"
    /\ IF paystack[target[o]] \in Chargeable
       THEN /\ erasing' = [erasing EXCEPT ![o] = "post"]
            /\ UNCHANGED <<rowVars, erased>>
       ELSE Purge(o)
    /\ UNCHANGED <<paystackVars, outbox, seen, target, erasures, faults, crashes>>

(* Paystack cancels it ...                                                 *)
Cancelled(o) ==
    /\ erasing[o] = "post"
    /\ Move(target[o], {"active", "attention", "ending"}, "cancelled")
    /\ UNCHANGED retried
    /\ Emit(target[o], <<"disable">>)
    /\ erasing' = [erasing EXCEPT ![o] = "posted"]
    /\ UNCHANGED <<seen, rowVars, target, erased, erasures, faults, crashes>>

(* ... and the answer is read.                                             *)
FinishErase(o) ==
    /\ erasing[o] = "posted"
    /\ Purge(o)
    /\ UNCHANGED <<paystackVars, outbox, seen, target, erasures, faults, crashes>>

(* A call is refused, or its answer is lost: 502, and nothing is deleted.  *)
EraseFails(o) ==
    /\ erasing[o] # "idle"
    /\ erasing' = [erasing EXCEPT ![o] = "idle"]
    /\ UNCHANGED <<paystackVars, outbox, seen, rowVars, target, erased, erasures,
                   faults, crashes>>

-----------------------------------------------------------------------------
DeliverSome == \E i \in 1..Len(outbox) : Deliver(i)

EraseStep(o) ==
    StartErase(o) \/ ReadStatus(o) \/ Cancelled(o) \/ FinishErase(o) \/ EraseFails(o)

(* Nothing left to do within the bounds.                                   *)
Quiet ==
    /\ outbox = <<>>
    /\ \A s \in Sub : paystack[s] = "cancelled"
    /\ \A o \in Owner : erasing[o] = "idle"
    /\ UNCHANGED vars

Next ==
    \/ \E s \in Sub : \/ Buy(s) \/ FailRenewal(s) \/ RetryPays(s)
                      \/ StopRenewing(s) \/ SwitchOff(s)
    \/ DeliverSome
    \/ \E i \in 1..Len(outbox) : DeliverUnanswered(i) \/ Crash(i)
    \/ \E o \in Owner : EraseStep(o)
    \/ Quiet

(* Paystack repeats a webhook until it is answered; what its customers do  *)
(* and what it does about their cards is not to be relied on.              *)
Spec == Init /\ [][Next]_vars /\ WF_vars(DeliverSome)

-----------------------------------------------------------------------------
TypeOK ==
    /\ paystack \in [Sub -> {"none", "active", "attention", "ending", "cancelled"}]
    /\ retried \in [Sub -> Nat]
    /\ outbox \in Seq(Event)
    /\ seen \in SUBSET Event
    /\ status \in [Owner -> {"none", "inactive", "active"}]
    /\ code \in [Owner -> Sub \cup {NoSub}]
    /\ \A o \in Owner : status[o] = "none" => code[o] = NoSub
    /\ pending \in [Owner -> Sub \cup {NoSub}]
    /\ erasing \in [Owner -> {"idle", "get", "post", "posted"}]
    /\ target \in [Owner -> Sub \cup {NoSub}]
    /\ erased \in SUBSET Owner
    /\ faults \in 0..MaxFaults /\ crashes \in 0..faults
    /\ erasures \in 0..MaxErasures

(* Events of an owner still to be applied.                                 *)
Coming(o, types) ==
    \E i \in 1..Len(outbox) :
        /\ OwnerOf[outbox[i].sub] = o
        /\ outbox[i].type \in types
        /\ outbox[i] \notin seen

Paid(o) == \E s \in SubsOf(o) : paystack[s] = "active"

(* What the code does not stand, as the README says: a crash between two   *)
(* commits of the webhook, and a failed renewal paid by a retry.           *)
Untroubled == crashes = 0 /\ \A s \in Sub : retried[s] = 0

(* No free ride: an owner whose keys are served either has an active       *)
(* subscription at Paystack or the webhook that ends the service is still  *)
(* to come.  Duplicates and a charge.success that comes last, after the    *)
(* create and even the disable, do not break it (subscriptions.py:172-173, *)
(* "a disable must not be undone later").                                  *)
ServedIsPaid ==
    Untroubled => \A o \in Owner : status[o] = "active" =>
        Paid(o) \/ Coming(o, {"failed", "not_renew", "disable"})

(* No lockout: an owner with an active subscription is served, or a        *)
(* webhook that leads there is still to come (docs/rules/billing.md:7, "An *)
(* active subscription lets a live key parse").  Erased owners apart.      *)
PaidIsServed ==
    Untroubled => \A o \in Owner \ erased : Paid(o) =>
        status[o] = "active" \/ Coming(o, {"charge", "create"})

(* When Paystack's customers come to rest, the worker ends up with the     *)
(* state Paystack has.                                                     *)
Converges ==
    <>[](Untroubled => \A o \in Owner \ erased : status[o] = "active" <=> Paid(o))

(* An erased owner's card is not charged again for the subscription the    *)
(* worker knew when the erasure began, whatever failed on the way.         *)
KnownIsCancelled ==
    \A o \in erased : target[o] # NoSub => paystack[target[o]] \notin Chargeable

(* routes/account.py:157-158: Paystack is told first, "so a live charge is *)
(* never orphaned".                                                        *)
NoOrphanedCharge ==
    \A o \in erased : \A s \in SubsOf(o) : paystack[s] \notin Chargeable
=============================================================================
