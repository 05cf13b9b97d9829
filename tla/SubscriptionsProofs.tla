------------------------- MODULE SubscriptionsProofs -------------------------
(***************************************************************************)
(* Theorems about Subscriptions, for every set of owners and every bound.  *)
(*                                                                         *)
(* What makes KnownIsCancelled inductive is that the worker never holds a  *)
(* code of a subscription nobody has bought: not in a row, not parked, not *)
(* as the target of an erasure, and not in a webhook on its way.  So the   *)
(* subscription an erasure found off cannot come alive afterwards.         *)
(*                                                                         *)
(* What makes ServedIsPaid and PaidIsServed inductive is the order of the  *)
(* webhooks on their way to an owner: the last one that may not be         *)
(* overtaken tells what his subscription is at Paystack, and once none is  *)
(* left his row does.                                                      *)
(***************************************************************************)
EXTENDS Subscriptions, SequenceTheorems, TLAPS

(* Subscriptions somebody has bought, and the webhooks about them.         *)
Bought == {s \in Sub : paystack[s] # "none"}
Sent   == {e \in Event : e.sub \in Bought}

(* The worker has heard only of what was bought.                           *)
HeardOf ==
    /\ outbox \in Seq(Sent)
    /\ code \in [Owner -> Bought \cup {NoSub}]
    /\ pending \in [Owner -> Bought \cup {NoSub}]
    /\ target \in [Owner -> Bought \cup {NoSub}]

(* What an erasure knows while it waits for Paystack.                      *)
Erasing ==
    \A o \in Owner :
        /\ erasing[o] # "idle" => target[o] # NoSub
        /\ erasing[o] = "posted" => paystack[target[o]] = "cancelled"

SubscriptionsInv == TypeOK /\ HeardOf /\ Erasing /\ KnownIsCancelled

-----------------------------------------------------------------------------
(* Taking a webhook out of the outbox leaves webhooks.                     *)
LEMMA RemoveAtType ==
  ASSUME NEW S, NEW seq \in Seq(S), NEW i \in 1..Len(seq)
  PROVE  RemoveAt(seq, i) \in Seq(S)
<1>1. Len(seq) \in Nat /\ i \in Int
  BY LenProperties
<1>2. \A k \in 1..(i - 1) : seq[k] \in S
  BY <1>1, ElementOfSeq
<1>3. \A k \in (i + 1)..Len(seq) : seq[k] \in S
  BY <1>1, ElementOfSeq
<1>4. SubSeq(seq, 1, i - 1) \in Seq(S)
  BY <1>1, <1>2, SubSeqProperties
<1>5. SubSeq(seq, i + 1, Len(seq)) \in Seq(S)
  BY <1>1, <1>3, SubSeqProperties
<1> QED
  BY <1>4, <1>5, ConcatProperties DEF RemoveAt

(* Emit appends webhooks about the subscription, whatever was there.       *)
LEMMA EmitType ==
  ASSUME NEW S, outbox \in Seq(S), NEW s, NEW types \in Seq(EventType),
         \A t \in EventType : [type |-> t, sub |-> s, id |-> retried'[s]] \in S,
         Emit(s, types)
  PROVE  outbox' \in Seq(S)
<1> DEFINE news == [i \in 1..Len(types) |->
                      [type |-> types[i], sub |-> s, id |-> retried'[s]]]
<1>1. Len(types) \in Nat
  BY LenProperties
<1>2. \A i \in 1..Len(types) : types[i] \in EventType
  BY ElementOfSeq
<1>3. \A i \in 1..Len(types) :
        [type |-> types[i], sub |-> s, id |-> retried'[s]] \in S
  BY <1>2
<1>4. news \in [1..Len(types) -> S]
  BY <1>3
<1>5. news \in Seq(S)
  BY <1>1, <1>4, SeqDef
<1>6. outbox' = outbox \o news
  BY DEF Emit
<1> QED
  BY <1>5, <1>6, ConcatProperties

(* A step of a subscription at Paystack keeps what the worker heard of.    *)
LEMMA MoveKeeps ==
  ASSUME TypeOK, HeardOf, NEW s \in Sub, NEW from, NEW to \in
           {"active", "attention", "ending", "cancelled"}, Move(s, from, to)
  PROVE  /\ paystack' \in [Sub -> {"none", "active", "attention", "ending", "cancelled"}]
         /\ paystack'[s] = to /\ paystack[s] \in from
         /\ \A t \in Sub : t # s => paystack'[t] = paystack[t]
         /\ Bought' = Bought \cup {s}
<1>1. paystack' = [paystack EXCEPT ![s] = to] /\ paystack[s] \in from
  BY DEF Move
<1>2. paystack \in [Sub -> {"none", "active", "attention", "ending", "cancelled"}]
  BY DEF TypeOK
<1>3. paystack'[s] = to /\ \A t \in Sub : t # s => paystack'[t] = paystack[t]
  BY <1>1, <1>2
<1> QED
  BY <1>1, <1>2, <1>3 DEF Bought

(* A step at Paystack that brings nothing back to life, and its webhooks.  *)
LEMMA PaystackStep ==
  ASSUME SubscriptionsInv, NEW s \in Sub, NEW from,
         NEW to \in {"active", "attention", "ending", "cancelled"},
         NEW types \in Seq(EventType),
         Move(s, from, to), Emit(s, types),
         paystack[s] # "cancelled",
         to \in Chargeable => paystack[s] \in Chargeable \cup {"none"},
         retried' \in [Sub -> Nat], UNCHANGED <<seen, rowVars, target, erasures, crashes>>,
         faults' \in faults..MaxFaults, erased' \subseteq erased,
         erasing' \in [Owner -> {"idle", "get", "post", "posted"}],
         \A o \in Owner : \/ erasing'[o] = erasing[o]
                          \/ erasing[o] # "idle" /\ target[o] = s /\ to = "cancelled"
  PROVE  SubscriptionsInv'
<1> USE SubscriptionsAssumption
<1>1. TypeOK /\ HeardOf /\ Erasing /\ KnownIsCancelled
  BY DEF SubscriptionsInv
<1>2. /\ paystack' \in [Sub -> {"none", "active", "attention", "ending", "cancelled"}]
      /\ paystack'[s] = to
      /\ \A t \in Sub : t # s => paystack'[t] = paystack[t]
      /\ Bought' = Bought \cup {s}
  BY <1>1, MoveKeeps
<1>3. Sent \subseteq Sent'
  BY <1>2 DEF Sent, Event
<1>4. outbox' \in Seq(Sent')
  <2>1. outbox \in Seq(Sent')
    BY <1>1, <1>3, SeqMonotonic DEF HeardOf
  <2>2. \A t \in EventType : [type |-> t, sub |-> s, id |-> retried'[s]] \in Sent'
    BY <1>2 DEF Sent, Event
  <2> QED
    BY <2>1, <2>2, EmitType
<1>5. HeardOf'
  BY <1>1, <1>2, <1>4 DEF HeardOf, rowVars
<1>6. outbox' \in Seq(Event)
  <2>1. Event' = Event /\ Sent' \subseteq Event
    BY DEF Sent, Event
  <2> QED
    BY <1>4, <2>1, SeqMonotonic
<1>7. crashes' \in 0..faults' /\ faults' \in 0..MaxFaults
  BY <1>1 DEF TypeOK
<1>8. TypeOK'
  BY <1>1, <1>2, <1>6, <1>7 DEF TypeOK, rowVars, Event
<1>9. Erasing'
  BY <1>1, <1>2 DEF TypeOK, Erasing
<1>10. KnownIsCancelled'
  <2> SUFFICES ASSUME NEW o \in Owner, o \in erased', target[o] # NoSub
               PROVE  paystack'[target[o]] \notin Chargeable
    BY <1>1 DEF KnownIsCancelled, TypeOK
  <2>1. /\ target[o] \in Sub /\ paystack[target[o]] # "none"
        /\ paystack[target[o]] \notin Chargeable
    BY <1>1 DEF HeardOf, Bought, KnownIsCancelled
  <2> QED
    BY <1>2, <2>1
<1> QED
  BY <1>5, <1>8, <1>9, <1>10 DEF SubscriptionsInv

-----------------------------------------------------------------------------
(* A webhook writes a row of what was bought.                              *)
LEMMA HandleKeeps ==
  ASSUME TypeOK, HeardOf, NEW e \in Sent, Handle(e)
  PROVE  /\ status' \in [Owner -> {"none", "inactive", "active"}]
         /\ code' \in [Owner -> Bought \cup {NoSub}]
         /\ pending' \in [Owner -> Bought \cup {NoSub}]
         /\ \A o \in Owner : status'[o] = "none" => code'[o] = NoSub
         /\ seen' \in SUBSET Event
<1>0. /\ status \in [Owner -> {"none", "inactive", "active"}]
      /\ code \in [Owner -> Bought \cup {NoSub}] /\ pending \in [Owner -> Bought \cup {NoSub}]
      /\ \A o \in Owner : status[o] = "none" => code[o] = NoSub
  BY DEF TypeOK, HeardOf
<1>1. seen' \in SUBSET Event
  BY DEF Handle, Sent, TypeOK
<1>2. OwnerOf[e.sub] \in Owner /\ e.sub \in Bought
  BY SubscriptionsAssumption DEF Sent, Event, Bought
<1>3. CASE UNCHANGED rowVars
  BY <1>0, <1>1, <1>3 DEF rowVars
<1>4. CASE MapCustomer(OwnerOf[e.sub])
  <2>1. Upserted(OwnerOf[e.sub]) \in {"inactive", "active"}
    BY <1>0, <1>2 DEF Upserted
  <2>2. CASE pending[OwnerOf[e.sub]] = NoSub
    BY <1>0, <1>1, <1>2, <1>4, <2>1, <2>2 DEF MapCustomer
  <2>3. CASE pending[OwnerOf[e.sub]] # NoSub
    BY <1>0, <1>1, <1>2, <1>4, <2>3 DEF MapCustomer
  <2> QED
    BY <2>2, <2>3
<1>5. CASE Activate(OwnerOf[e.sub], e.sub)
  <2>1. CASE status[OwnerOf[e.sub]] = "none"
    BY <1>0, <1>1, <1>2, <1>5, <2>1 DEF Activate
  <2>2. CASE status[OwnerOf[e.sub]] # "none"
    BY <1>0, <1>1, <1>2, <1>5, <2>2 DEF Activate
  <2> QED
    BY <2>1, <2>2
<1>6. CASE Deactivate(OwnerOf[e.sub])
  BY <1>0, <1>1, <1>2, <1>6 DEF Deactivate
<1>7. Apply(e) => \/ MapCustomer(OwnerOf[e.sub])
                  \/ Activate(OwnerOf[e.sub], e.sub)
                  \/ Deactivate(OwnerOf[e.sub])
  BY DEF Apply
<1> QED
  BY <1>3, <1>4, <1>5, <1>6, <1>7 DEF Handle

(* A step of the webhook, whatever becomes of its answer.                  *)
LEMMA WebhookStep ==
  ASSUME SubscriptionsInv, UNCHANGED <<paystackVars, target, erased, erasures>>,
         outbox' \in Seq(Sent), seen' \in SUBSET Event,
         status' \in [Owner -> {"none", "inactive", "active"}],
         code' \in [Owner -> Bought \cup {NoSub}],
         pending' \in [Owner -> Bought \cup {NoSub}],
         \A o \in Owner : status'[o] = "none" => code'[o] = NoSub,
         faults' \in 0..MaxFaults, crashes' \in 0..faults',
         erasing' = erasing \/ erasing' = [o \in Owner |-> "idle"]
  PROVE  SubscriptionsInv'
<1> USE SubscriptionsAssumption
<1>1. TypeOK /\ HeardOf /\ Erasing /\ KnownIsCancelled
  BY DEF SubscriptionsInv
<1>2. Bought' = Bought /\ Sent' = Sent
  BY DEF Sent, Bought, paystackVars
<1>3. HeardOf'
  BY <1>1, <1>2 DEF HeardOf
<1>4. outbox' \in Seq(Event)
  <2>1. Sent \subseteq Event
    BY DEF Sent
  <2> QED
    BY <2>1, SeqMonotonic
<1>5. TypeOK'
  BY <1>1, <1>4 DEF TypeOK, paystackVars, Event, Bought
<1>6. Erasing' /\ KnownIsCancelled'
  BY <1>1 DEF Erasing, KnownIsCancelled, paystackVars
<1> QED
  BY <1>3, <1>5, <1>6 DEF SubscriptionsInv

(* Purging an owner whose known subscription is off.                       *)
LEMMA PurgeStep ==
  ASSUME SubscriptionsInv, NEW o \in Owner, Purge(o),
         UNCHANGED <<paystackVars, outbox, seen, faults, crashes>>,
         erasures' \in 0..MaxErasures,
         target' = target \/ target' = [target EXCEPT ![o] = NoSub],
         target'[o] # NoSub => paystack[target'[o]] \notin Chargeable
  PROVE  SubscriptionsInv'
<1> USE SubscriptionsAssumption
<1>1. TypeOK /\ HeardOf /\ Erasing /\ KnownIsCancelled
  BY DEF SubscriptionsInv
<1>2. Bought' = Bought /\ Sent' = Sent
  BY DEF Sent, Bought, paystackVars
<1>3. HeardOf'
  BY <1>1, <1>2 DEF HeardOf, Purge
<1>4. TypeOK'
  BY <1>1 DEF TypeOK, Purge, paystackVars, Event
<1>5. Erasing'
  BY <1>1 DEF Erasing, TypeOK, Purge, paystackVars
<1>6. KnownIsCancelled'
  BY <1>1 DEF KnownIsCancelled, TypeOK, Purge, paystackVars
<1> QED
  BY <1>3, <1>4, <1>5, <1>6 DEF SubscriptionsInv

-----------------------------------------------------------------------------
(* What Deliver, DeliverUnanswered and Crash have in common.               *)
LEMMA ArrivesSent ==
  ASSUME SubscriptionsInv, NEW i \in 1..Len(outbox)
  PROVE  /\ outbox[i] \in Sent
         /\ RemoveAt(outbox, i) \in Seq(Sent)
         /\ Later(i) \in Seq(Sent)
<1>1. outbox \in Seq(Sent)
  BY DEF SubscriptionsInv, HeardOf
<1>2. outbox[i] \in Sent
  BY <1>1, ElementOfSeq
<1>3. RemoveAt(outbox, i) \in Seq(Sent)
  BY <1>1, RemoveAtType
<1> QED
  BY <1>2, <1>3, AppendProperties DEF Later

LEMMA InitInv ==
  ASSUME Init
  PROVE  SubscriptionsInv
<1> USE SubscriptionsAssumption DEF Init
<1>1. TypeOK
  <2>1. outbox \in Seq(Event)
    BY EmptySeq
  <2> QED
    BY <2>1 DEF TypeOK
<1>2. HeardOf
  <2>1. outbox \in Seq(Sent)
    BY EmptySeq
  <2> QED
    BY <2>1 DEF HeardOf
<1>3. Erasing
  BY DEF Erasing
<1>4. KnownIsCancelled
  BY DEF KnownIsCancelled
<1> QED
  BY <1>1, <1>2, <1>3, <1>4 DEF SubscriptionsInv

(* Every step of Paystack keeps the invariant: a subscription that is off  *)
(* stays off.                                                              *)
LEMMA PaystackInv ==
  ASSUME SubscriptionsInv, NEW s \in Sub,
         Buy(s) \/ FailRenewal(s) \/ RetryPays(s) \/ StopRenewing(s) \/ SwitchOff(s)
  PROVE  SubscriptionsInv'
<1> USE SubscriptionsAssumption
<1>1. TypeOK
  BY DEF SubscriptionsInv
<1>2. /\ <<"charge", "create">> \in Seq(EventType) /\ <<"failed">> \in Seq(EventType)
      /\ <<"charge">> \in Seq(EventType) /\ <<"not_renew">> \in Seq(EventType)
      /\ <<"disable">> \in Seq(EventType)
  BY DEF EventType
<1>3. /\ faults \in 0..MaxFaults /\ MaxFaults \in Nat /\ retried \in [Sub -> Nat]
      /\ erasing \in [Owner -> {"idle", "get", "post", "posted"}]
  BY <1>1 DEF TypeOK
<1>4. CASE Buy(s)
  <2>1. /\ Move(s, {"none"}, "active") /\ Emit(s, <<"charge", "create">>)
        /\ paystack[s] = "none"
    BY <1>4 DEF Buy, Move
  <2>2. /\ retried' \in [Sub -> Nat] /\ faults' \in faults..MaxFaults
        /\ UNCHANGED <<seen, rowVars, target, erasures, crashes, erasing>>
        /\ erased' \subseteq erased
    BY <1>3, <1>4 DEF Buy
  <2> QED
    BY <1>2, <1>3, <2>1, <2>2, PaystackStep DEF Chargeable
<1>5. CASE FailRenewal(s)
  <2>1. /\ Move(s, {"active"}, "attention") /\ Emit(s, <<"failed">>)
        /\ paystack[s] = "active"
    BY <1>5 DEF FailRenewal, Move
  <2>2. /\ retried' \in [Sub -> Nat] /\ faults' \in faults..MaxFaults
        /\ UNCHANGED <<seen, rowVars, target, erasures, crashes, erasing>>
        /\ erased' \subseteq erased
    BY <1>3, <1>5 DEF FailRenewal, eraseVars
  <2> QED
    BY <1>2, <1>3, <2>1, <2>2, PaystackStep DEF Chargeable
<1>6. CASE RetryPays(s)
  <2>1. /\ Move(s, {"attention"}, "active") /\ Emit(s, <<"charge">>)
        /\ paystack[s] = "attention"
    BY <1>6 DEF RetryPays, Move
  <2>2. /\ retried' \in [Sub -> Nat] /\ faults' \in faults..MaxFaults
        /\ UNCHANGED <<seen, rowVars, target, erasures, crashes, erasing>>
        /\ erased' \subseteq erased
    BY <1>3, <1>6 DEF RetryPays, eraseVars
  <2> QED
    BY <1>2, <1>3, <2>1, <2>2, PaystackStep DEF Chargeable
<1>7. CASE StopRenewing(s)
  <2>1. /\ Move(s, {"active"}, "ending") /\ Emit(s, <<"not_renew">>)
        /\ paystack[s] = "active"
    BY <1>7 DEF StopRenewing, Move
  <2>2. /\ retried' \in [Sub -> Nat] /\ faults' \in faults..MaxFaults
        /\ UNCHANGED <<seen, rowVars, target, erasures, crashes, erasing>>
        /\ erased' \subseteq erased
    BY <1>3, <1>7 DEF StopRenewing, eraseVars
  <2> QED
    BY <1>2, <1>3, <2>1, <2>2, PaystackStep DEF Chargeable
<1>8. CASE SwitchOff(s)
  <2>1. /\ Move(s, {"active", "attention", "ending"}, "cancelled")
        /\ Emit(s, <<"disable">>) /\ paystack[s] # "cancelled"
    BY <1>8 DEF SwitchOff, Move
  <2>2. /\ retried' \in [Sub -> Nat] /\ faults' \in faults..MaxFaults
        /\ UNCHANGED <<seen, rowVars, target, erasures, crashes, erasing>>
        /\ erased' \subseteq erased
    BY <1>3, <1>8 DEF SwitchOff, eraseVars
  <2> QED
    BY <1>2, <1>3, <2>1, <2>2, PaystackStep DEF Chargeable
<1> QED
  BY <1>4, <1>5, <1>6, <1>7, <1>8

(* So does every delivery of a webhook, answered or not, whole or cut off. *)
LEMMA WebhookInv ==
  ASSUME SubscriptionsInv, NEW i \in 1..Len(outbox),
         Deliver(i) \/ DeliverUnanswered(i) \/ Crash(i)
  PROVE  SubscriptionsInv'
<1> USE SubscriptionsAssumption
<1>1. TypeOK /\ HeardOf
  BY DEF SubscriptionsInv
<1>2. /\ outbox[i] \in Sent /\ RemoveAt(outbox, i) \in Seq(Sent)
      /\ Later(i) \in Seq(Sent)
  BY ArrivesSent
<1>3. /\ faults \in 0..MaxFaults /\ crashes \in 0..faults
      /\ erasing \in [Owner -> {"idle", "get", "post", "posted"}]
  BY <1>1 DEF TypeOK
<1>4. CASE Deliver(i)
  <2>1. Handle(outbox[i])
    BY <1>4 DEF Deliver
  <2> QED
    BY <1>1, <1>2, <1>3, <1>4, <2>1, HandleKeeps, WebhookStep DEF Deliver, eraseVars
<1>5. CASE DeliverUnanswered(i)
  <2>1. Handle(outbox[i])
    BY <1>5 DEF DeliverUnanswered
  <2>2. faults' \in 0..MaxFaults /\ crashes' \in 0..faults'
    BY <1>3, <1>5 DEF DeliverUnanswered
  <2> QED
    BY <1>1, <1>2, <1>5, <2>1, <2>2, HandleKeeps, WebhookStep
       DEF DeliverUnanswered, eraseVars
<1>6. CASE Crash(i)
  <2>1. faults' \in 0..MaxFaults /\ crashes' \in 0..faults'
    BY <1>3, <1>6 DEF Crash
  <2>2. seen' \in SUBSET Event
    BY <1>1, <1>2, <1>6 DEF Crash, Sent, TypeOK
  <2>3. /\ status' \in [Owner -> {"none", "inactive", "active"}]
        /\ code' = code /\ pending' = pending
        /\ \A o \in Owner : status'[o] = "none" => code'[o] = NoSub
    BY <1>1, <1>6 DEF Crash, TypeOK, rowVars, Upserted
  <2> QED
    BY <1>1, <1>2, <1>6, <2>1, <2>2, <2>3, WebhookStep DEF Crash, HeardOf
<1> QED
  BY <1>4, <1>5, <1>6

(* And every step of an erasure: what it purges by, Paystack has off.      *)
LEMMA EraseInv ==
  ASSUME SubscriptionsInv, NEW o \in Owner, EraseStep(o)
  PROVE  SubscriptionsInv'
<1> USE SubscriptionsAssumption
<1>1. TypeOK /\ HeardOf /\ Erasing /\ KnownIsCancelled
  BY DEF SubscriptionsInv
<1>2. /\ erasures \in 0..MaxErasures /\ NoSub \notin Sub
      /\ erasing \in [Owner -> {"idle", "get", "post", "posted"}]
      /\ target \in [Owner -> Sub \cup {NoSub}] /\ code \in [Owner -> Sub \cup {NoSub}]
  BY <1>1 DEF TypeOK
<1>3. CASE StartErase(o)
  <2>1. erasures' \in 0..MaxErasures
    BY <1>2, <1>3 DEF StartErase
  <2>2. CASE code[o] = NoSub
    <3>1. Purge(o) /\ target' = [target EXCEPT ![o] = NoSub]
      BY <1>3, <2>2 DEF StartErase
    <3> QED
      BY <1>2, <1>3, <2>1, <3>1, PurgeStep DEF StartErase
  <2>3. CASE code[o] # NoSub
    <3>1. /\ target' = [target EXCEPT ![o] = code[o]]
          /\ erasing' = [erasing EXCEPT ![o] = "get"]
          /\ erased' = erased \ {o}
          /\ UNCHANGED <<paystackVars, outbox, seen, rowVars, faults, crashes>>
      BY <1>3, <2>3 DEF StartErase
    <3>2. TypeOK'
      BY <1>1, <1>2, <2>1, <3>1 DEF TypeOK, paystackVars, rowVars, Event
    <3>3. HeardOf'
      BY <1>1, <3>1 DEF HeardOf, Sent, Bought, Event, paystackVars, rowVars
    <3>4. Erasing'
      BY <1>1, <1>2, <2>3, <3>1 DEF Erasing, paystackVars
    <3>5. KnownIsCancelled'
      BY <1>1, <1>2, <3>1 DEF KnownIsCancelled, TypeOK, paystackVars
    <3> QED
      BY <3>2, <3>3, <3>4, <3>5 DEF SubscriptionsInv
  <2> QED
    BY <2>2, <2>3
<1>4. ASSUME UNCHANGED <<paystackVars, outbox, seen, rowVars, target, erased, erasures,
                         faults, crashes>>,
             NEW p \in {"idle", "post"}, erasing[o] # "idle",
             erasing' = [erasing EXCEPT ![o] = p]
      PROVE  SubscriptionsInv'
  <2>1. TypeOK'
    BY <1>1, <1>2, <1>4 DEF TypeOK, paystackVars, rowVars, Event
  <2>2. HeardOf'
    BY <1>1, <1>4 DEF HeardOf, Sent, Bought, Event, paystackVars, rowVars
  <2>3. Erasing' /\ KnownIsCancelled'
    BY <1>1, <1>2, <1>4 DEF Erasing, KnownIsCancelled, paystackVars
  <2> QED
    BY <2>1, <2>2, <2>3 DEF SubscriptionsInv
<1>5. CASE ReadStatus(o)
  <2>1. CASE paystack[target[o]] \in Chargeable
    BY <1>4, <1>5, <2>1 DEF ReadStatus
  <2>2. CASE paystack[target[o]] \notin Chargeable
    BY <1>2, <1>5, <2>2, PurgeStep DEF ReadStatus
  <2> QED
    BY <2>1, <2>2
<1>6. CASE Cancelled(o)
  <2>1. target[o] \in Sub
    BY <1>1, <1>2, <1>6 DEF Cancelled, Erasing
  <2>2. /\ Move(target[o], {"active", "attention", "ending"}, "cancelled")
        /\ Emit(target[o], <<"disable">>) /\ paystack[target[o]] # "cancelled"
    BY <1>6 DEF Cancelled, Move
  <2>3. <<"disable">> \in Seq(EventType)
    BY DEF EventType
  <2>4. faults' \in faults..MaxFaults /\ retried' \in [Sub -> Nat]
    BY <1>1, <1>6 DEF Cancelled, TypeOK
  <2>5. /\ erasing' \in [Owner -> {"idle", "get", "post", "posted"}]
        /\ \A q \in Owner : \/ erasing'[q] = erasing[q]
                            \/ erasing[q] # "idle" /\ target[q] = target[o]
    BY <1>2, <1>6 DEF Cancelled
  <2>6. UNCHANGED <<seen, rowVars, target, erasures, crashes>> /\ erased' \subseteq erased
    BY <1>6 DEF Cancelled
  <2> QED
    BY <2>1, <2>2, <2>3, <2>4, <2>5, <2>6, PaystackStep DEF Chargeable
<1>7. CASE FinishErase(o)
  <2>1. paystack[target[o]] \notin Chargeable
    BY <1>1, <1>7 DEF FinishErase, Erasing, Chargeable
  <2> QED
    BY <1>2, <1>7, <2>1, PurgeStep DEF FinishErase
<1>8. CASE EraseFails(o)
  BY <1>4, <1>8 DEF EraseFails
<1> QED
  BY <1>3, <1>5, <1>6, <1>7, <1>8 DEF EraseStep

-----------------------------------------------------------------------------
LEMMA SubscriptionsInvariant == Spec => []SubscriptionsInv
<1>1. ASSUME SubscriptionsInv, [Next]_vars
      PROVE  SubscriptionsInv'
  <2>1. CASE UNCHANGED vars
    BY <1>1, <2>1
       DEF SubscriptionsInv, TypeOK, HeardOf, Sent, Bought, Event, Erasing, KnownIsCancelled,
           vars, paystackVars, rowVars, eraseVars
  <2>2. CASE Next
    BY <1>1, <2>1, <2>2, PaystackInv, WebhookInv, EraseInv
       DEF Next, DeliverSome, Quiet
  <2> QED
    BY <1>1, <2>1, <2>2
<1> QED
  BY <1>1, InitInv, PTL DEF Spec

(* Every state has its type: a row without a status holds no code, and no  *)
(* more faults happened than the bound allows.                             *)
THEOREM SubscriptionsType == Spec => []TypeOK
<1>1. SubscriptionsInv => TypeOK
  BY DEF SubscriptionsInv
<1> QED
  BY <1>1, SubscriptionsInvariant, PTL

(* delete_owner: whatever is bought, delivered, lost or refused meanwhile, *)
(* the subscription the worker knew when an erasure began is off once the  *)
(* erasure went through, and stays off.                                    *)
THEOREM KnownSubscriptionsAreCancelled == Spec => []KnownIsCancelled
<1>1. SubscriptionsInv => KnownIsCancelled
  BY DEF SubscriptionsInv
<1> QED
  BY <1>1, SubscriptionsInvariant, PTL

-----------------------------------------------------------------------------
(***************************************************************************)
(* Who is served and who pays, when every webhook but charge.success comes *)
(* in order and nobody holds two subscriptions at a time.                  *)
(*                                                                         *)
(* The two theorems at the end say that the worker and Paystack agree, or  *)
(* that the webhook which makes them agree is on its way; what is          *)
(* inductive is which webhook that is.  Of the webhooks of an owner that   *)
(* change what is served, the last one still to be applied tells what      *)
(* Paystack has now; when there is none, the row (or the activation parked *)
(* for it) does.  For that, no webhook may be sent a second time as a new  *)
(* one, so each waits, or was seen, only after the step it tells of.       *)
(***************************************************************************)

(* A webhook of the owner still to be applied that changes what is served. *)
Live(i, o) ==
    /\ OwnerOf[outbox[i].sub] = o
    /\ outbox[i].type # "charge"
    /\ outbox[i] \notin seen

LastLive(i, o) ==
    /\ i \in 1..Len(outbox) /\ Live(i, o)
    /\ \A k \in 1..Len(outbox) : k > i => ~Live(k, o)

(* The states of a subscription once Paystack has sent such a webhook.     *)
Stages(type) ==
    CASE type \in {"charge", "create"} -> {"active", "attention", "ending", "cancelled"}
      [] type = "failed"    -> {"attention", "cancelled"}
      [] type = "not_renew" -> {"ending", "cancelled"}
      [] type = "disable"   -> {"cancelled"}

Past ==
    /\ \A i \in 1..Len(outbox) : paystack[outbox[i].sub] \in Stages(outbox[i].type)
    /\ \A e \in seen : paystack[e.sub] \in Stages(e.type)

Distinct == \A i, j \in 1..Len(outbox) : outbox[i] = outbox[j] => i = j

(* An owner has one subscription at a time.                                *)
OneOn ==
    \A s, t \in Sub :
        OwnerOf[s] = OwnerOf[t] /\ s # t => paystack[s] \in Off \/ paystack[t] \in Off

(* The owner is served, or will be once its customer is known.             *)
On(o) == status[o] = "active" \/ pending[o] # NoSub

Told(o) == \E i \in 1..Len(outbox) :
    LastLive(i, o) /\ (outbox[i].type = "create" <=> Paid(o))

Settled(o) ==
    /\ \A i \in 1..Len(outbox) : ~Live(i, o)
    /\ On(o) => Paid(o)
    /\ Paid(o) /\ (o \notin erased \/ code[o] # NoSub) => On(o)

(* The charge.success that will make the row of a new owner.               *)
RowComes(o) ==
    o \notin erased /\ status[o] = "none" =>
        \A s \in SubsOf(o) : paystack[s] = "active" =>
            \E i \in 1..Len(outbox) :
                outbox[i].sub = s /\ outbox[i].type = "charge" /\ outbox[i] \notin seen

InStep(o) ==
    /\ status[o] # "none" => pending[o] = NoSub
    /\ Told(o) \/ Settled(o)
    /\ RowComes(o)

Lined == Past /\ Distinct /\ \A o \in Owner : InStep(o)

InOrderInv == OneOn /\ (Untroubled => Lined)

(* What the theorems assume of Paystack and of the owners.                 *)
InOrder == OneAtATime /\ Overtaken \subseteq {"charge"}

-----------------------------------------------------------------------------
(* The elements of a concatenation, of a sequence that has a name.         *)
LEMMA ConcatElements ==
  ASSUME NEW S, NEW s1 \in Seq(S), NEW s2 \in Seq(S), NEW all, all = s1 \o s2
  PROVE  /\ Len(all) = Len(s1) + Len(s2)
         /\ \A i \in 1..(Len(s1) + Len(s2)) :
              all[i] = IF i <= Len(s1) THEN s1[i] ELSE s2[i - Len(s1)]
  BY ConcatProperties

(* What is where once a webhook is taken out of the outbox.                *)
LEMMA RemoveAtElements ==
  ASSUME NEW S, NEW seq \in Seq(S), NEW i \in 1..Len(seq)
  PROVE  /\ Len(RemoveAt(seq, i)) = Len(seq) - 1
         /\ \A k \in 1..(Len(seq) - 1) :
              RemoveAt(seq, i)[k] = seq[IF k < i THEN k ELSE k + 1]
<1> DEFINE front == SubSeq(seq, 1, i - 1)
           back  == SubSeq(seq, i + 1, Len(seq))
<1>1. Len(seq) \in Nat /\ i \in Int
  BY LenProperties
<1>2. /\ front \in Seq(S) /\ Len(front) = i - 1
      /\ \A k \in 1..(i - 1) : front[k] = seq[k]
  <2>1. \A k \in 1..(i - 1) : seq[k] \in S
    BY <1>1, ElementOfSeq
  <2> QED
    BY <1>1, <2>1, SubSeqProperties
<1>3. /\ back \in Seq(S) /\ Len(back) = Len(seq) - i
      /\ \A k \in 1..(Len(seq) - i) : back[k] = seq[i + k]
  <2>1. \A k \in (i + 1)..Len(seq) : seq[k] \in S
    BY <1>1, ElementOfSeq
  <2>2. /\ back \in Seq(S)
        /\ Len(back) = IF i + 1 <= Len(seq) THEN Len(seq) - (i + 1) + 1 ELSE 0
        /\ \A k \in 1..(Len(seq) - (i + 1) + 1) : back[k] = seq[(i + 1) + k - 1]
    BY <1>1, <2>1, SubSeqProperties
  <2>3. Len(back) = Len(seq) - i
    BY <1>1, <2>2
  <2>4. ASSUME NEW k \in 1..(Len(seq) - i)
        PROVE  back[k] = seq[i + k]
    <3>1. k \in 1..(Len(seq) - (i + 1) + 1) /\ (i + 1) + k - 1 = i + k
      BY <1>1
    <3> QED
      BY <2>2, <3>1
  <2> QED
    BY <2>2, <2>3, <2>4
<1> DEFINE rest == RemoveAt(seq, i)
<1>4. rest = front \o back
  BY DEF RemoveAt
<1> HIDE DEF front, back, rest
<1>5. /\ Len(rest) = Len(seq) - 1
      /\ \A k \in 1..(Len(seq) - 1) :
           rest[k] = IF k <= i - 1 THEN front[k] ELSE back[k - (i - 1)]
  <2>1. /\ Len(rest) = Len(front) + Len(back)
        /\ \A k \in 1..(Len(front) + Len(back)) :
             rest[k] = IF k <= Len(front) THEN front[k] ELSE back[k - Len(front)]
    <3>1. front \in Seq(S) /\ back \in Seq(S)
      BY <1>2, <1>3
    <3> QED
      BY <1>4, <3>1, ConcatElements
  <2>2. Len(front) + Len(back) = Len(seq) - 1 /\ Len(front) = i - 1
    BY <1>1, <1>2, <1>3
  <2> QED
    BY <2>1, <2>2
<1>6. ASSUME NEW k \in 1..(Len(seq) - 1)
      PROVE  rest[k] = seq[IF k < i THEN k ELSE k + 1]
  <2>1. CASE k < i
    BY <1>1, <1>2, <1>5, <2>1
  <2>2. CASE ~(k < i)
    <3>1. k - (i - 1) \in 1..(Len(seq) - i) /\ i + (k - (i - 1)) = k + 1
      BY <1>1, <2>2
    <3>2. ~(k <= i - 1)
      BY <1>1, <2>2
    <3>3. rest[k] = back[k - (i - 1)]
      BY <1>5, <3>2
    <3> QED
      BY <1>3, <2>2, <3>1, <3>3
  <2> QED
    BY <2>1, <2>2
<1> QED
  BY <1>5, <1>6 DEF rest

(* What Emit appends.                                                      *)
LEMMA EmitElements ==
  ASSUME outbox \in Seq(Event), NEW s \in Sub, retried'[s] \in Nat,
         NEW types \in Seq(EventType), Emit(s, types)
  PROVE  /\ Len(outbox') = Len(outbox) + Len(types)
         /\ \A k \in 1..Len(outbox) : outbox'[k] = outbox[k]
         /\ \A j \in 1..Len(types) :
              outbox'[Len(outbox) + j] =
                [type |-> types[j], sub |-> s, id |-> retried'[s]]
<1> DEFINE news == [i \in 1..Len(types) |->
                      [type |-> types[i], sub |-> s, id |-> retried'[s]]]
<1>1. Len(types) \in Nat /\ Len(outbox) \in Nat
  BY LenProperties
<1>2. \A i \in 1..Len(types) : types[i] \in EventType
  BY ElementOfSeq
<1>3. \A i \in 1..Len(types) :
        [type |-> types[i], sub |-> s, id |-> retried'[s]] \in Event
  BY <1>2 DEF Event
<1>4. news \in [1..Len(types) -> Event]
  BY <1>3
<1>5. news \in Seq(Event)
  BY <1>1, <1>4, SeqDef
<1>6. Len(news) = Len(types)
  BY <1>1, <1>4, <1>5, LenProperties
<1>7. \A j \in 1..Len(types) : news[j] = [type |-> types[j], sub |-> s, id |-> retried'[s]]
  OBVIOUS
<1>8. outbox' = outbox \o news
  BY DEF Emit
<1> HIDE DEF news
<1>9. /\ Len(outbox') = Len(outbox) + Len(types)
      /\ \A i \in 1..(Len(outbox) + Len(types)) :
           outbox'[i] = IF i <= Len(outbox) THEN outbox[i] ELSE news[i - Len(outbox)]
  <2>1. /\ Len(outbox') = Len(outbox) + Len(news)
        /\ \A i \in 1..(Len(outbox) + Len(news)) :
             outbox'[i] = IF i <= Len(outbox) THEN outbox[i] ELSE news[i - Len(outbox)]
    BY <1>5, <1>8, ConcatElements
  <2> QED
    BY <1>6, <2>1
<1>10. ASSUME NEW j \in 1..Len(types)
       PROVE  outbox'[Len(outbox) + j] = [type |-> types[j], sub |-> s, id |-> retried'[s]]
  <2>1. /\ Len(outbox) + j \in 1..(Len(outbox) + Len(types))
        /\ ~(Len(outbox) + j <= Len(outbox)) /\ (Len(outbox) + j) - Len(outbox) = j
    BY <1>1
  <2> QED
    BY <1>7, <1>9, <2>1
<1> QED
  BY <1>1, <1>9, <1>10
(* Paystack moves a subscription on, and the last webhook it sends about   *)
(* that tells the new state.  Nothing it sends was sent before.            *)
LEMMA PaystackLined ==
  ASSUME TypeOK, Lined, NEW s \in Sub, NEW from,
         NEW to \in {"active", "attention", "ending", "cancelled"},
         NEW types \in Seq(EventType), types # <<>>,
         Move(s, from, to), Emit(s, types), retried'[s] \in Nat,
         \A t \in Sub : OwnerOf[t] = OwnerOf[s] /\ t # s => paystack[t] \in Off,
         \A j \in 1..Len(types) :
           paystack[s] \notin Stages(types[j]) /\ to \in Stages(types[j]),
         \A j, k \in 1..Len(types) : types[j] = types[k] => j = k,
         \A t \in EventType : paystack[s] \in Stages(t) => to \in Stages(t),
         types[Len(types)] # "charge",
         types[Len(types)] = "create" <=> to = "active",
         to = "active" => \E j \in 1..Len(types) : types[j] = "charge",
         UNCHANGED <<seen, rowVars>>,
         \A q \in Owner : q # OwnerOf[s] => (q \in erased' <=> q \in erased)
  PROVE  Lined'
<1> USE SubscriptionsAssumption
<1> DEFINE m == Len(types)
           own == OwnerOf[s]
           new(j) == [type |-> types[j], sub |-> s, id |-> retried'[s]]
<1>0. PICK n \in Nat : n = Len(outbox)
  BY LenProperties DEF TypeOK
<1>1. /\ paystack \in [Sub -> {"none", "active", "attention", "ending", "cancelled"}]
      /\ outbox \in Seq(Event) /\ seen \in SUBSET Event
      /\ OwnerOf \in [Sub -> Owner] /\ own \in Owner
  BY LenProperties DEF TypeOK
<1>2. /\ paystack'[s] = to
      /\ \A t \in Sub : t # s => paystack'[t] = paystack[t]
  BY <1>1 DEF Move
<1>3. m \in Nat \ {0} /\ \A j \in 1..m : types[j] \in EventType
  BY EmptySeq, ElementOfSeq
<1>4. /\ Len(outbox') = n + m
      /\ \A k \in 1..n : outbox'[k] = outbox[k]
      /\ \A j \in 1..m : outbox'[n + j] = new(j)
  BY <1>0, <1>1, EmitElements
<1>5. \A k \in 1..n : outbox[k] \in Event
  BY <1>0, <1>1, ElementOfSeq
<1>6. /\ \A j \in 1..m : new(j) \notin seen
      /\ \A j \in 1..m, k \in 1..n : outbox[k] # new(j)
  <2>1. ASSUME NEW j \in 1..m
        PROVE  new(j) \notin seen /\ \A k \in 1..n : outbox[k] # new(j)
    <3>1. paystack[new(j).sub] \notin Stages(new(j).type)
      OBVIOUS
    <3> HIDE DEF new
    <3> QED
      BY <1>0, <3>1 DEF Lined, Past
  <2> QED
    BY <2>1
<1>7. \A j \in 1..m : new(j).type = types[j] /\ new(j).sub = s
  OBVIOUS
<1> HIDE DEF m, new
<1>8. ASSUME NEW k \in 1..(n + m)
      PROVE  k \in 1..n \/ (k - n \in 1..m /\ k = n + (k - n))
  BY <1>1, <1>3
<1>9. \A k \in 1..(n + m) : \/ k \in 1..n /\ outbox'[k] = outbox[k]
                            \/ \E j \in 1..m : k = n + j /\ outbox'[k] = new(j)
  BY <1>4, <1>8
<1>10. Past'
  <2>1. ASSUME NEW e \in Event, paystack[e.sub] \in Stages(e.type)
        PROVE  paystack'[e.sub] \in Stages(e.type)
    <3>1. e.sub \in Sub /\ e.type \in EventType
      BY DEF Event
    <3> QED
      BY <1>2, <2>1, <3>1
  <2>2. \A e \in seen' : paystack'[e.sub] \in Stages(e.type)
    BY <1>1, <2>1 DEF Lined, Past
  <2>3. ASSUME NEW k \in 1..(n + m)
        PROVE  paystack'[outbox'[k].sub] \in Stages(outbox'[k].type)
    <3>1. CASE k \in 1..n /\ outbox'[k] = outbox[k]
      BY <1>0, <1>5, <2>1, <3>1 DEF Lined, Past
    <3>2. CASE \E j \in 1..m : k = n + j /\ outbox'[k] = new(j)
      BY <1>2, <1>7, <3>2 DEF m
    <3> QED
      BY <1>9, <3>1, <3>2
  <2> QED
    BY <1>4, <2>2, <2>3 DEF Past, Stages
<1>11. Distinct'
  <2>1. \A j, k \in 1..m : new(j) = new(k) => j = k
    BY <1>7 DEF m
  <2> SUFFICES ASSUME NEW i \in 1..(n + m), NEW j \in 1..(n + m), outbox'[i] = outbox'[j]
               PROVE  i = j
    BY <1>4 DEF Distinct
  <2>2. \A h, k \in 1..n : outbox[h] = outbox[k] => h = k
    BY <1>0 DEF Lined, Distinct
  <2>3. CASE i \in 1..n /\ outbox'[i] = outbox[i]
    <3>1. ~ \E k \in 1..m : outbox'[j] = new(k)
      BY <1>6, <2>3
    <3>2. j \in 1..n /\ outbox'[j] = outbox[j]
      BY <1>9, <3>1
    <3> QED
      BY <2>2, <2>3, <3>2
  <2>4. CASE \E h \in 1..m : i = n + h /\ outbox'[i] = new(h)
    <3>1. PICK h \in 1..m : i = n + h /\ outbox'[i] = new(h)
      BY <2>4
    <3>2. ~(j \in 1..n /\ outbox'[j] = outbox[j])
      BY <1>6, <3>1
    <3>3. PICK k \in 1..m : j = n + k /\ outbox'[j] = new(k)
      BY <1>9, <3>2
    <3>4. h = k
      BY <2>1, <3>1, <3>3
    <3> QED
      BY <3>1, <3>3, <3>4
  <2> QED
    BY <1>9, <2>3, <2>4
<1>12. \A t \in Sub : OwnerOf[t] = own /\ t # s => paystack'[t] # "active"
  BY <1>2 DEF Off
<1>13. Paid(own)' <=> to = "active"
  BY <1>2, <1>12 DEF Paid, SubsOf
<1>14. Told(own)'
  <2>1. n + m \in 1..(n + m) /\ outbox'[n + m] = new(m) /\ m \in 1..m
    BY <1>1, <1>3, <1>4
  <2>2. LastLive(n + m, own)'
    <3>1. ~ \E k \in 1..(n + m) : k > n + m
      BY <1>1, <1>3
    <3>2. Live(n + m, own)'
      BY <1>6, <1>7, <2>1 DEF Live, m
    <3> QED
      BY <1>4, <2>1, <3>1, <3>2 DEF LastLive
  <2>3. outbox'[n + m].type = "create" <=> to = "active"
    BY <1>7, <2>1 DEF m
  <2> QED
    BY <1>4, <1>13, <2>1, <2>2, <2>3 DEF Told
<1>15. RowComes(own)'
  <2> SUFFICES ASSUME NEW t \in SubsOf(own), paystack'[t] = "active"
               PROVE  \E i \in 1..(n + m) : /\ outbox'[i].sub = t
                                            /\ outbox'[i].type = "charge"
                                            /\ outbox'[i] \notin seen
    BY <1>4 DEF RowComes, SubsOf
  <2>1. t = s /\ to = "active"
    BY <1>2, <1>12 DEF SubsOf
  <2>2. PICK j \in 1..m : types[j] = "charge"
    BY <2>1 DEF m
  <2>3. n + j \in 1..(n + m)
    BY <1>1, <1>3
  <2> QED
    BY <1>4, <1>6, <1>7, <2>1, <2>2, <2>3
<1>16. ASSUME NEW q \in Owner, q # own
       PROVE  InStep(q)'
  <2>1. Paid(q)' <=> Paid(q)
    BY <1>2, <1>16 DEF Paid, SubsOf
  <2>2. /\ \A k \in 1..n : Live(k, q)' <=> Live(k, q)
        /\ \A j \in 1..m : ~Live(n + j, q)'
    BY <1>4, <1>7, <1>16 DEF Live
  <2>3. \A k \in 1..(n + m) : Live(k, q)' => k \in 1..n /\ Live(k, q)
    BY <1>8, <2>2
  <2>4. InStep(q)
    BY DEF Lined
  <2>5. RowComes(q)'
    <3> SUFFICES ASSUME NEW t \in SubsOf(q), paystack'[t] = "active",
                        q \notin erased, status[q] = "none"
                 PROVE  \E i \in 1..(n + m) : /\ outbox'[i].sub = t
                                              /\ outbox'[i].type = "charge"
                                              /\ outbox'[i] \notin seen
      BY <1>4, <1>16 DEF RowComes, SubsOf, rowVars
    <3>1. paystack[t] = "active"
      BY <1>2, <1>16 DEF SubsOf
    <3>2. PICK i \in 1..n : /\ outbox[i].sub = t /\ outbox[i].type = "charge"
                            /\ outbox[i] \notin seen
      BY <1>0, <2>4, <3>1 DEF InStep, RowComes
    <3>3. i \in 1..(n + m) /\ outbox'[i] = outbox[i]
      BY <1>1, <1>3, <1>4
    <3> QED
      BY <3>2, <3>3
  <2>6. SUFFICES Told(q)' \/ Settled(q)'
    BY <2>4, <2>5 DEF InStep, rowVars
  <2>7. CASE Told(q)
    <3>1. PICK i \in 1..n : LastLive(i, q) /\ (outbox[i].type = "create" <=> Paid(q))
      BY <1>0, <2>7 DEF Told
    <3>2. i \in 1..(n + m) /\ outbox'[i] = outbox[i]
      BY <1>1, <1>3, <1>4
    <3>3. LastLive(i, q)'
      BY <1>0, <1>4, <2>2, <2>3, <3>1, <3>2 DEF LastLive
    <3>4. Told(q)'
      BY <1>4, <2>1, <3>1, <3>2, <3>3 DEF Told
    <3> QED
      BY <3>4
  <2>8. CASE Settled(q)
    BY <1>0, <1>4, <2>1, <2>3, <2>8, <1>16 DEF Settled, On, rowVars
  <2> QED
    BY <2>4, <2>7, <2>8 DEF InStep
<1>17. InStep(own)'
  BY <1>1, <1>14, <1>15 DEF Lined, InStep, rowVars
<1> QED
  BY <1>10, <1>11, <1>16, <1>17 DEF Lined

(* A webhook is handled once; those that wait behind it keep their places. *)
LEMMA WebhookLined ==
  ASSUME TypeOK, Lined, Overtaken \subseteq {"charge"}, NEW i \in 1..Len(outbox),
         Arrives(i), Handle(outbox[i]),
         outbox' = RemoveAt(outbox, i) \/ outbox' = Later(i),
         UNCHANGED <<paystack, erased>>
  PROVE  Lined'
<1> USE SubscriptionsAssumption
<1> DEFINE at(k) == IF k < i THEN k ELSE k + 1
<1>0. PICK n \in Nat : n = Len(outbox)
  BY LenProperties DEF TypeOK
<1>1. /\ outbox \in Seq(Event) /\ seen \in SUBSET Event /\ i \in 1..n
      /\ status \in [Owner -> {"none", "inactive", "active"}]
      /\ code \in [Owner -> Sub \cup {NoSub}] /\ pending \in [Owner -> Sub \cup {NoSub}]
      /\ OwnerOf \in [Sub -> Owner] /\ NoSub \notin Sub
  BY <1>0 DEF TypeOK
<1>2. PICK e \in Event : e = outbox[i]
  BY <1>1, ElementOfSeq
<1>3. /\ e.sub \in Sub /\ e.type \in EventType /\ OwnerOf[e.sub] \in Owner
      /\ seen' = seen \cup {e}
      /\ IF e \notin seen THEN Apply(e) ELSE UNCHANGED rowVars
  BY <1>1, <1>2 DEF Event, Handle, Fresh
<1>4. /\ Len(outbox') \in {n - 1, n}
      /\ \A k \in 1..(n - 1) : outbox'[k] = outbox[at(k)]
      /\ Len(outbox') = n => outbox'[n] = e
  <2>1. /\ RemoveAt(outbox, i) \in Seq(Event)
        /\ Len(RemoveAt(outbox, i)) = n - 1
        /\ \A k \in 1..(n - 1) : RemoveAt(outbox, i)[k] = outbox[at(k)]
    BY <1>0, <1>1, RemoveAtType, RemoveAtElements
  <2>2. CASE outbox' = RemoveAt(outbox, i)
    <3>1. Len(outbox') = n - 1
      BY <2>1, <2>2
    <3> QED
      BY <2>1, <2>2, <3>1
  <2>3. CASE outbox' = Later(i)
    <3> DEFINE rest == RemoveAt(outbox, i)
    <3>1. outbox' = Append(rest, e)
      BY <1>2, <2>3 DEF Later
    <3> HIDE DEF rest
    <3>2. /\ rest \in Seq(Event) /\ Len(rest) = n - 1
          /\ \A k \in 1..(n - 1) : rest[k] = outbox[at(k)]
      BY <2>1 DEF rest
    <3>3. /\ Len(outbox') = Len(rest) + 1
          /\ \A k \in 1..Len(rest) : outbox'[k] = rest[k]
          /\ outbox'[Len(rest) + 1] = e
      BY <3>1, <3>2, AppendProperties
    <3>4. Len(rest) + 1 = n
      BY <3>2
    <3> QED
      BY <3>2, <3>3, <3>4
  <2> QED
    BY <2>2, <2>3
<1>5. /\ \A k \in 1..(n - 1) : at(k) \in 1..n /\ at(k) # i
      /\ \A k, l \in 1..(n - 1) : k < l <=> at(k) < at(l)
      /\ \A j \in 1..n : j # i => \E k \in 1..(n - 1) : at(k) = j
  <2>1. ASSUME NEW j \in 1..n, j # i
        PROVE  \E k \in 1..(n - 1) : at(k) = j
    <3>1. CASE j < i
      BY <1>1, <3>1
    <3>2. CASE ~(j < i)
      <4>1. j - 1 \in 1..(n - 1) /\ at(j - 1) = j
        BY <1>1, <2>1, <3>2
      <4> QED
        BY <4>1
    <3> QED
      BY <3>1, <3>2
  <2>2. \A k \in 1..(n - 1) : at(k) \in 1..n /\ at(k) # i
    BY <1>1
  <2>3. \A k, l \in 1..(n - 1) : k < l <=> at(k) < at(l)
    BY <1>1
  <2> QED
    BY <2>1, <2>2, <2>3
<1> HIDE DEF at
<1>6. \A k \in 1..Len(outbox') :
        \/ k \in 1..(n - 1) /\ outbox'[k] = outbox[at(k)]
        \/ k = n /\ outbox'[k] = e
  BY <1>0, <1>4
<1>7. \A j \in 1..n : j # i => outbox[j] # e
  BY <1>0, <1>1, <1>2 DEF Lined, Distinct
<1>8. Past'
  <2>1. \A j \in 1..n : paystack[outbox[j].sub] \in Stages(outbox[j].type)
    BY <1>0 DEF Lined, Past
  <2>2. \A k \in 1..Len(outbox') : paystack[outbox'[k].sub] \in Stages(outbox'[k].type)
    BY <1>1, <1>2, <1>5, <1>6, <2>1
  <2>3. \A f \in seen' : paystack[f.sub] \in Stages(f.type)
    BY <1>1, <1>2, <1>3, <2>1 DEF Lined, Past
  <2> QED
    BY <2>2, <2>3 DEF Past, Stages
<1>9. Distinct'
  <2> SUFFICES ASSUME NEW k \in 1..Len(outbox'), NEW l \in 1..Len(outbox'),
                      outbox'[k] = outbox'[l]
               PROVE  k = l
    BY DEF Distinct
  <2>1. CASE k \in 1..(n - 1) /\ l \in 1..(n - 1)
    <3>1. outbox[at(k)] = outbox[at(l)] /\ at(k) \in 1..n /\ at(l) \in 1..n
      BY <1>4, <1>5, <2>1
    <3>2. at(k) = at(l)
      BY <1>0, <3>1 DEF Lined, Distinct
    <3> QED
      BY <1>5, <2>1, <3>2
  <2>2. CASE ~(k \in 1..(n - 1) /\ l \in 1..(n - 1))
    BY <1>5, <1>6, <1>7, <2>2
  <2> QED
    BY <2>1, <2>2
<1>10. ASSUME NEW q \in Owner
       PROVE  /\ \A k \in 1..(n - 1) : Live(k, q)' <=> Live(at(k), q)
              /\ \A k \in 1..Len(outbox') : Live(k, q)' => k \in 1..(n - 1)
  <2>1. \A k \in 1..(n - 1) : Live(k, q)' <=> Live(at(k), q)
    BY <1>3, <1>4, <1>5, <1>7 DEF Live
  <2>2. \A k \in 1..Len(outbox') : Live(k, q)' => outbox'[k] # e
    BY <1>3 DEF Live
  <2> QED
    BY <1>6, <2>1, <2>2
(* The last one of an owner stays the last, unless it is the one taken.    *)
<1>11. ASSUME NEW q \in Owner, NEW j \in 1..n, j # i, LastLive(j, q)
       PROVE  \E k \in 1..(n - 1) : LastLive(k, q)' /\ outbox'[k] = outbox[j]
  <2>1. PICK k \in 1..(n - 1) : at(k) = j
    BY <1>5, <1>11
  <2>2. k \in 1..Len(outbox') /\ outbox'[k] = outbox[j]
    BY <1>4, <2>1
  <2>3. Live(k, q)'
    BY <1>10, <1>11, <2>1 DEF LastLive
  <2>4. ASSUME NEW l \in 1..Len(outbox'), l > k, Live(l, q)'
        PROVE  FALSE
    <3>1. l \in 1..(n - 1) /\ Live(at(l), q)
      BY <1>10, <2>4
    <3>2. at(l) \in 1..n /\ at(l) > j
      BY <1>5, <2>1, <2>4, <3>1
    <3> QED
      BY <1>0, <1>11, <3>1, <3>2 DEF LastLive
  <2>5. LastLive(k, q)'
    BY <2>2, <2>3, <2>4 DEF LastLive
  <2> QED
    BY <2>2, <2>5
<1>12. ASSUME NEW q \in Owner, \A j \in 1..n : j # i => ~Live(j, q)
       PROVE  \A k \in 1..Len(outbox') : ~Live(k, q)'
  BY <1>5, <1>10, <1>12
<1>13. \A q \in Owner : (Paid(q)' <=> Paid(q)) /\ (q \in erased' <=> q \in erased)
  BY DEF Paid, SubsOf
(* A charge.success that waits goes on waiting, unless it is the one taken. *)
<1>14. ASSUME NEW q \in Owner, RowComes(q), status'[q] = status[q],
              e \in seen \/ e.type # "charge" \/ OwnerOf[e.sub] # q
       PROVE  RowComes(q)'
  <2> SUFFICES ASSUME q \notin erased, status[q] = "none",
                      NEW s \in SubsOf(q), paystack[s] = "active"
               PROVE  \E k \in 1..Len(outbox') : /\ outbox'[k].sub = s
                                                 /\ outbox'[k].type = "charge"
                                                 /\ outbox'[k] \notin seen'
    BY <1>13, <1>14 DEF RowComes, SubsOf
  <2>1. PICK j \in 1..n : /\ outbox[j].sub = s /\ outbox[j].type = "charge"
                          /\ outbox[j] \notin seen
    BY <1>0, <1>14 DEF RowComes
  <2>2. j # i
    BY <1>2, <1>14, <2>1 DEF SubsOf
  <2>3. PICK k \in 1..(n - 1) : at(k) = j
    BY <1>5, <2>2
  <2>4. k \in 1..Len(outbox') /\ outbox'[k] = outbox[j]
    BY <1>4, <2>3
  <2> QED
    BY <1>3, <1>7, <2>1, <2>2, <2>4
<1>15. ASSUME NEW q \in Owner
       PROVE  InStep(q)'
  <2>1. InStep(q)
    BY DEF Lined
  <2>2. CASE ~Live(i, q)
    <3>1. \/ /\ status'[q] = status[q] /\ code'[q] = code[q] /\ pending'[q] = pending[q]
             /\ e \in seen \/ OwnerOf[e.sub] # q
          \/ OwnerOf[e.sub] = q /\ MapCustomer(q)
      <4>1. CASE e \in seen
        BY <1>3, <4>1 DEF rowVars
      <4>2. CASE e \notin seen /\ OwnerOf[e.sub] = q
        <5>1. e.type = "charge"
          BY <1>2, <2>2, <4>2 DEF Live
        <5> QED
          BY <1>3, <4>2, <5>1 DEF Apply
      <4>3. CASE e \notin seen /\ OwnerOf[e.sub] # q
        BY <1>1, <1>3, <4>3 DEF Apply, MapCustomer, Activate, Deactivate
      <4> QED
        BY <4>1, <4>2, <4>3
    <3>2. Told(q) => Told(q)'
      <4> SUFFICES ASSUME NEW j \in 1..n, LastLive(j, q),
                          outbox[j].type = "create" <=> Paid(q)
                   PROVE  Told(q)'
        BY <1>0 DEF Told
      <4>1. j # i
        BY <2>2 DEF LastLive
      <4>2. PICK k \in 1..(n - 1) : LastLive(k, q)' /\ outbox'[k] = outbox[j]
        BY <1>11, <4>1
      <4> QED
        BY <1>4, <1>13, <4>2 DEF Told
    <3>3. Settled(q) => \A k \in 1..Len(outbox') : ~Live(k, q)'
      BY <1>0, <1>12 DEF Settled
    <3>4. CASE /\ status'[q] = status[q] /\ code'[q] = code[q] /\ pending'[q] = pending[q]
               /\ e \in seen \/ OwnerOf[e.sub] # q
      <4>1. Settled(q) => Settled(q)'
        BY <1>13, <3>3, <3>4 DEF Settled, On
      <4>2. RowComes(q)'
        BY <1>14, <2>1, <3>4 DEF InStep
      <4> QED
        BY <2>1, <3>2, <3>4, <4>1, <4>2 DEF InStep
    <3>5. CASE OwnerOf[e.sub] = q /\ MapCustomer(q)
      <4>1. /\ status'[q] # "none" /\ pending'[q] = NoSub
            /\ On(q)' <=> On(q)
            /\ code'[q] = code[q] \/ On(q)'
        BY <1>1, <2>1, <3>5 DEF MapCustomer, Upserted, On, InStep
      <4>2. Settled(q) => Settled(q)'
        BY <1>13, <3>3, <4>1 DEF Settled
      <4>3. RowComes(q)'
        BY <4>1 DEF RowComes
      <4> QED
        BY <2>1, <3>2, <4>1, <4>2, <4>3 DEF InStep
    <3> QED
      BY <3>1, <3>4, <3>5
  <2>3. CASE Live(i, q)
    <3>1. OwnerOf[e.sub] = q /\ e.type # "charge" /\ e \notin seen /\ Apply(e)
      BY <1>2, <1>3, <2>3 DEF Live
    <3>2. /\ e.type = "create" => Activate(q, e.sub)
          /\ e.type # "create" => Deactivate(q)
      BY <3>1 DEF Apply
    <3>3. /\ On(q)' <=> e.type = "create"
          /\ status'[q] = "none" <=> status[q] = "none"
          /\ status'[q] # "none" => pending'[q] = NoSub
      BY <1>1, <1>3, <2>1, <3>2 DEF Activate, Deactivate, On, InStep
    <3>4. RowComes(q)'
      BY <1>13, <1>14, <2>1, <3>1, <3>3 DEF InStep, RowComes
    <3>5. ASSUME NEW k \in 1..n, k < i
          PROVE  ~Live(k, q)
      <4>1. k \in 1..(i - 1)
        BY <1>1, <3>5
      <4>2. OwnerOf[outbox[k].sub] = q => outbox[k].type \in Overtaken
        BY <1>2, <3>1, <4>1 DEF Arrives
      <4> QED
        BY <4>2 DEF Live
    <3>6. PICK j \in 1..n : LastLive(j, q) /\ (outbox[j].type = "create" <=> Paid(q))
      BY <1>0, <1>1, <2>1, <2>3 DEF InStep, Told, Settled
    <3>7. CASE j = i
      <4>1. \A k \in 1..n : k # i => ~Live(k, q)
        BY <1>0, <1>1, <3>5, <3>6, <3>7 DEF LastLive
      <4>2. Settled(q)'
        BY <1>2, <1>12, <1>13, <3>3, <3>6, <3>7, <4>1 DEF Settled
      <4> QED
        BY <3>3, <3>4, <4>2 DEF InStep
    <3>8. CASE j # i
      <4>1. PICK k \in 1..(n - 1) : LastLive(k, q)' /\ outbox'[k] = outbox[j]
        BY <1>11, <3>6, <3>8
      <4>2. Told(q)'
        BY <1>4, <1>13, <3>6, <4>1 DEF Told
      <4> QED
        BY <3>3, <3>4, <4>2 DEF InStep
    <3> QED
      BY <3>7, <3>8
  <2> QED
    BY <2>2, <2>3
<1> QED
  BY <1>8, <1>9, <1>15 DEF Lined

-----------------------------------------------------------------------------
(* Being in step says nothing of the variables an erasure has to itself.   *)
LEMMA EraseLined ==
  ASSUME TypeOK, Lined, NEW o \in Owner, EraseStep(o), UNCHANGED <<paystack, outbox>>
  PROVE  Lined'
<1> USE SubscriptionsAssumption
<1>1. UNCHANGED seen
  BY DEF EraseStep, StartErase, ReadStatus, Cancelled, FinishErase, EraseFails
<1>2. Past' /\ Distinct'
  BY <1>1 DEF Lined, Past, Distinct, Stages
<1>3. \/ UNCHANGED <<status, code, pending, erased>>
      \/ Purge(o)
      \/ UNCHANGED <<status, code, pending>> /\ erased' = erased \ {o} /\ code[o] # NoSub
  BY DEF EraseStep, StartErase, ReadStatus, Cancelled, FinishErase, EraseFails, rowVars
<1>4. ASSUME NEW q \in Owner
      PROVE  /\ Told(q) => Told(q)'
             /\ Paid(q)' <=> Paid(q)
             /\ \A k \in 1..Len(outbox) : Live(k, q)' <=> Live(k, q)
  BY <1>1 DEF Told, LastLive, Live, Paid, SubsOf
<1>5. ASSUME NEW q \in Owner, status'[q] = status[q], code'[q] = code[q],
             pending'[q] = pending[q], q \in erased' <=> q \in erased
      PROVE  InStep(q)'
  BY <1>1, <1>4, <1>5 DEF Lined, InStep, Settled, On, RowComes, SubsOf
<1>6. ASSUME NEW q \in Owner
      PROVE  InStep(q)'
  <2>1. InStep(q)
    BY DEF Lined
  <2>2. CASE UNCHANGED <<status, code, pending, erased>>
    BY <1>5, <2>2
  <2>3. CASE Purge(o) /\ q # o
    BY <1>5, <2>3 DEF Purge, TypeOK
  <2>4. CASE Purge(o) /\ q = o
    <3>1. status'[q] = "none" /\ code'[q] = NoSub /\ pending'[q] = pending[q] /\ q \in erased'
      BY <2>4 DEF Purge, TypeOK
    <3>2. Settled(q) => Settled(q)'
      BY <1>4, <3>1 DEF Settled, On
    <3>3. RowComes(q)'
      BY <3>1 DEF RowComes
    <3> QED
      BY <1>4, <2>1, <3>1, <3>2, <3>3 DEF InStep
  <2>5. CASE UNCHANGED <<status, code, pending>> /\ erased' = erased \ {o} /\ code[o] # NoSub
    <3>1. CASE q # o
      BY <1>5, <2>5, <3>1
    <3>2. CASE q = o
      <4>1. status[q] # "none"
        BY <2>5, <3>2 DEF TypeOK
      <4>2. Settled(q) => Settled(q)'
        BY <1>4, <2>5, <3>2 DEF Settled, On
      <4>3. RowComes(q)'
        BY <2>5, <4>1 DEF RowComes
      <4> QED
        BY <1>4, <2>1, <2>5, <4>2, <4>3 DEF InStep
    <3> QED
      BY <3>1, <3>2
  <2> QED
    BY <1>3, <2>2, <2>3, <2>4, <2>5
<1> QED
  BY <1>2, <1>6 DEF Lined

(* Trouble stays: neither counter is ever turned back.                     *)
LEMMA TroubleStays ==
  ASSUME TypeOK, [Next]_vars, Untroubled'
  PROVE  /\ Untroubled
         /\ retried' = retried
         /\ \A s \in Sub : ~RetryPays(s)
         /\ \A i \in 1..Len(outbox) : ~Crash(i)
<1>1. retried \in [Sub -> Nat] /\ crashes \in Nat /\ faults \in Nat
  BY SubscriptionsAssumption DEF TypeOK
<1>2. ASSUME NEW s \in Sub
      PROVE  ~RetryPays(s)
  BY <1>1 DEF Untroubled, RetryPays
<1>3. ASSUME NEW i \in 1..Len(outbox)
      PROVE  ~Crash(i)
  BY <1>1 DEF Untroubled, Crash
<1>4. UNCHANGED <<retried, crashes>>
  BY <1>2, <1>3
     DEF Next, DeliverSome, EraseStep, Quiet, Buy, FailRenewal, StopRenewing, SwitchOff,
         Deliver, DeliverUnanswered, StartErase, ReadStatus, Cancelled, FinishErase,
         EraseFails, vars, paystackVars
<1> QED
  BY <1>2, <1>3, <1>4 DEF Untroubled

(* A webhook that ends the service, sent as its subscription stops.        *)
LEMMA EndLined ==
  ASSUME TypeOK, OneOn, Lined, NEW s \in Sub, NEW from,
         NEW to \in {"attention", "ending", "cancelled"},
         NEW type \in {"failed", "not_renew", "disable"},
         Move(s, from, to), Emit(s, <<type>>), retried'[s] \in Nat,
         paystack[s] \in {"active", "attention", "ending"} \ Stages(type),
         to \in Stages(type), paystack[s] = "active" \/ to = "cancelled",
         UNCHANGED <<seen, rowVars, erased>>
  PROVE  Lined'
<1>1. \A t \in Sub : OwnerOf[t] = OwnerOf[s] /\ t # s => paystack[t] \in Off
  BY DEF OneOn, Off
<1>2. /\ <<type>> \in Seq(EventType) /\ <<type>> # <<>>
      /\ Len(<<type>>) = 1 /\ <<type>>[1] = type
  BY DEF EventType
<1>3. \A t \in EventType : paystack[s] \in Stages(t) => to \in Stages(t)
  BY DEF EventType, Stages
<1> DEFINE types == <<type>>
<1> HIDE DEF types
<1>4. types \in Seq(EventType) /\ types # <<>> /\ Len(types) = 1 /\ types[1] = type
  BY <1>2 DEF types
<1>5. Emit(s, types)
  BY DEF types
<1>6. /\ \A j \in 1..Len(types) :
           paystack[s] \notin Stages(types[j]) /\ to \in Stages(types[j])
      /\ \A j, k \in 1..Len(types) : types[j] = types[k] => j = k
      /\ types[Len(types)] # "charge"
      /\ types[Len(types)] = "create" <=> to = "active"
      /\ to = "active" => \E j \in 1..Len(types) : types[j] = "charge"
  BY <1>4
<1> QED
  BY <1>1, <1>3, <1>4, <1>5, <1>6, PaystackLined

LEMMA BuyLined ==
  ASSUME TypeOK, Lined, InOrder, NEW s \in Sub, Buy(s)
  PROVE  Lined'
<1> DEFINE types == <<"charge", "create">>
<1>1. /\ types \in Seq(EventType) /\ types # <<>>
      /\ Len(types) = 2 /\ types[1] = "charge" /\ types[2] = "create"
  BY DEF EventType
<1>2. Emit(s, types) /\ Move(s, {"none"}, "active") /\ paystack[s] = "none"
  BY DEF Buy, Move
<1> HIDE DEF types
<1>3. \A t \in Sub : OwnerOf[t] = OwnerOf[s] /\ t # s => paystack[t] \in Off
  BY DEF Buy, InOrder, SubsOf
<1>4. retried'[s] \in Nat /\ UNCHANGED <<seen, rowVars>>
  BY DEF Buy, TypeOK
<1>5. \A q \in Owner : q # OwnerOf[s] => (q \in erased' <=> q \in erased)
  BY DEF Buy
<1>6. /\ \A t \in EventType : paystack[s] \notin Stages(t)
      /\ "active" \in Stages("charge") /\ "active" \in Stages("create")
  BY <1>2 DEF EventType, Stages
<1>7. /\ \A j \in 1..Len(types) :
           paystack[s] \notin Stages(types[j]) /\ "active" \in Stages(types[j])
      /\ \A j, k \in 1..Len(types) : types[j] = types[k] => j = k
      /\ types[Len(types)] # "charge" /\ types[Len(types)] = "create"
      /\ \E j \in 1..Len(types) : types[j] = "charge"
  <2>1. \A j \in 1..Len(types) : j = 1 \/ j = 2
    BY <1>1
  <2>2. "charge" \in EventType /\ "create" \in EventType
    BY DEF EventType
  <2>3. 1 \in 1..Len(types) /\ 2 \in 1..Len(types)
    BY <1>1
  <2> QED
    BY <1>1, <1>6, <2>1, <2>2, <2>3
<1> QED
  BY <1>1, <1>2, <1>3, <1>4, <1>5, <1>6, <1>7, PaystackLined

(* No step gives an owner a second subscription.                           *)
LEMMA OneOnStep ==
  ASSUME TypeOK, OneOn, InOrder, [Next]_vars
  PROVE  OneOn'
<1>1. paystack \in [Sub -> {"none", "active", "attention", "ending", "cancelled"}]
  BY DEF TypeOK
<1>2. CASE UNCHANGED paystack
  BY <1>2 DEF OneOn, Off
<1>3. ASSUME NEW s \in Sub, NEW from, NEW to, Move(s, from, to),
             from \cap {"none", "cancelled"} = {}
      PROVE  OneOn'
  BY <1>1, <1>3 DEF Move, OneOn, Off
<1>4. ASSUME NEW s \in Sub, Buy(s)
      PROVE  OneOn'
  <2>1. /\ paystack' = [paystack EXCEPT ![s] = "active"]
        /\ \A t \in Sub : OwnerOf[t] = OwnerOf[s] => paystack[t] \in Off
    BY <1>4 DEF Buy, Move, InOrder, SubsOf
  <2> QED
    BY <1>1, <2>1 DEF OneOn, Off
<1>5. ASSUME NEW s \in Sub, FailRenewal(s) \/ RetryPays(s) \/ StopRenewing(s) \/ SwitchOff(s)
      PROVE  OneOn'
  BY <1>3, <1>5 DEF FailRenewal, RetryPays, StopRenewing, SwitchOff
<1>6. ASSUME NEW o \in Owner, EraseStep(o)
      PROVE  UNCHANGED paystack \/ Cancelled(o)
  BY <1>6 DEF EraseStep, StartErase, ReadStatus, FinishErase, EraseFails, paystackVars
<1>7. ASSUME NEW o \in Owner, Cancelled(o)
      PROVE  OneOn'
  <2>1. /\ paystack[target[o]] \in {"active", "attention", "ending"}
        /\ paystack' = [paystack EXCEPT ![target[o]] = "cancelled"]
    BY <1>7 DEF Cancelled, Move
  <2> QED
    BY <1>1, <2>1 DEF OneOn, Off
<1>8. CASE UNCHANGED vars
  BY <1>2, <1>8 DEF vars, paystackVars
<1>9. ASSUME NEW i \in 1..Len(outbox), Deliver(i) \/ DeliverUnanswered(i) \/ Crash(i)
      PROVE  OneOn'
  BY <1>2, <1>9 DEF Deliver, DeliverUnanswered, Crash, paystackVars
<1> QED
  BY <1>2, <1>4, <1>5, <1>6, <1>7, <1>8, <1>9 DEF Next, DeliverSome, Quiet

LEMMA InOrderStep ==
  ASSUME SubscriptionsInv, InOrderInv, InOrder, [Next]_vars
  PROVE  InOrderInv'
<1> USE SubscriptionsAssumption
<1>1. TypeOK /\ OneOn /\ Erasing
  BY DEF SubscriptionsInv, InOrderInv
<1>2. OneOn'
  BY <1>1, OneOnStep
<1> SUFFICES ASSUME Untroubled'
             PROVE  Lined'
  BY <1>2 DEF InOrderInv
<1>3. /\ Untroubled /\ retried' = retried
      /\ \A s \in Sub : ~RetryPays(s)
      /\ \A i \in 1..Len(outbox) : ~Crash(i)
  BY <1>1, TroubleStays
<1>4. Lined /\ retried' \in [Sub -> Nat]
  BY <1>1, <1>3 DEF InOrderInv, TypeOK
<1>5. CASE UNCHANGED vars
  <2>1. UNCHANGED <<paystack, outbox, seen, status, code, pending, erased>>
    BY <1>5 DEF vars, paystackVars, rowVars, eraseVars
  <2>2. Past' /\ Distinct'
    BY <1>4, <2>1 DEF Lined, Past, Distinct, Stages
  <2>3. ASSUME NEW o \in Owner
        PROVE  InStep(o)'
    <3>1. InStep(o)
      BY <1>4 DEF Lined
    <3>2. \A k \in 1..Len(outbox) : Live(k, o)' <=> Live(k, o)
      BY <2>1 DEF Live
    <3>3. Paid(o)' <=> Paid(o)
      BY <2>1 DEF Paid, SubsOf
    <3>4. /\ Told(o) => Told(o)'
          /\ Settled(o) => Settled(o)'
      BY <2>1, <3>2, <3>3 DEF Told, LastLive, Settled, On
    <3>5. RowComes(o)'
      BY <2>1, <3>1 DEF InStep, RowComes, SubsOf
    <3> QED
      BY <2>1, <3>1, <3>4, <3>5 DEF InStep
  <2> QED
    BY <2>2, <2>3 DEF Lined
<1>6. ASSUME NEW s \in Sub, Buy(s)
      PROVE  Lined'
  BY <1>1, <1>4, <1>6, BuyLined
<1>7. ASSUME NEW s \in Sub, FailRenewal(s)
      PROVE  Lined'
  <2>1. /\ Move(s, {"active"}, "attention") /\ Emit(s, <<"failed">>)
        /\ paystack[s] = "active" /\ UNCHANGED <<seen, rowVars, erased>>
    BY <1>7 DEF FailRenewal, Move, eraseVars
  <2>2. paystack[s] \notin Stages("failed") /\ "attention" \in Stages("failed")
    BY <2>1 DEF Stages
  <2> QED
    BY <1>1, <1>4, <2>1, <2>2, EndLined
<1>8. ASSUME NEW s \in Sub, StopRenewing(s)
      PROVE  Lined'
  <2>1. /\ Move(s, {"active"}, "ending") /\ Emit(s, <<"not_renew">>)
        /\ paystack[s] = "active" /\ UNCHANGED <<seen, rowVars, erased>>
    BY <1>8 DEF StopRenewing, Move, eraseVars
  <2>2. paystack[s] \notin Stages("not_renew") /\ "ending" \in Stages("not_renew")
    BY <2>1 DEF Stages
  <2> QED
    BY <1>1, <1>4, <2>1, <2>2, EndLined
<1>9. ASSUME NEW s \in Sub, Move(s, {"active", "attention", "ending"}, "cancelled"),
             Emit(s, <<"disable">>), UNCHANGED <<seen, rowVars, erased>>
      PROVE  Lined'
  <2>1. paystack[s] \in {"active", "attention", "ending"}
    BY <1>9 DEF Move
  <2>2. paystack[s] \notin Stages("disable") /\ "cancelled" \in Stages("disable")
    BY <2>1 DEF Stages
  <2> QED
    BY <1>1, <1>4, <1>9, <2>1, <2>2, EndLined
<1>10. ASSUME NEW s \in Sub, SwitchOff(s)
       PROVE  Lined'
  BY <1>9, <1>10 DEF SwitchOff, eraseVars
<1>11. ASSUME NEW i \in 1..Len(outbox), Deliver(i) \/ DeliverUnanswered(i)
       PROVE  Lined'
  <2>1. /\ Arrives(i) /\ Handle(outbox[i])
        /\ outbox' = RemoveAt(outbox, i) \/ outbox' = Later(i)
        /\ UNCHANGED <<paystack, erased>>
    BY <1>11 DEF Deliver, DeliverUnanswered, paystackVars, eraseVars
  <2> QED
    BY <1>1, <1>4, <2>1, WebhookLined DEF InOrder
<1>12. ASSUME NEW o \in Owner, EraseStep(o)
       PROVE  Lined'
  <2>1. CASE Cancelled(o)
    <3>1. target[o] \in Sub
      BY <1>1, <2>1 DEF Cancelled, Erasing, TypeOK
    <3> QED
      BY <1>9, <2>1, <3>1 DEF Cancelled
  <2>2. CASE ~Cancelled(o)
    <3>1. UNCHANGED <<paystack, outbox>>
      BY <1>12, <2>2
         DEF EraseStep, StartErase, ReadStatus, FinishErase, EraseFails, paystackVars
    <3> QED
      BY <1>1, <1>4, <1>12, <3>1, EraseLined
  <2> QED
    BY <2>1, <2>2
<1>13. CASE Quiet
  BY <1>5, <1>13 DEF Quiet
<1> QED
  BY <1>3, <1>5, <1>6, <1>7, <1>8, <1>10, <1>11, <1>12, <1>13 DEF Next, DeliverSome

LEMMA InOrderInit ==
  ASSUME Init
  PROVE  InOrderInv
<1> USE SubscriptionsAssumption DEF Init
<1>1. Len(outbox) = 0 /\ 1..Len(outbox) = {}
  OBVIOUS
<1>2. OneOn
  BY DEF OneOn, Off
<1>3. Past /\ Distinct
  BY <1>1 DEF Past, Distinct
<1>4. ASSUME NEW o \in Owner
      PROVE  InStep(o)
  <2>1. ~Paid(o) /\ ~On(o)
    BY DEF Paid, On, SubsOf
  <2>2. RowComes(o)
    BY DEF RowComes, SubsOf
  <2> QED
    BY <1>1, <2>1, <2>2 DEF InStep, Settled
<1> QED
  BY <1>2, <1>3, <1>4 DEF InOrderInv, Lined

LEMMA InOrderInvariant ==
  ASSUME InOrder
  PROVE  Spec => []InOrderInv
<1>1. ASSUME SubscriptionsInv, InOrderInv, [Next]_vars
      PROVE  InOrderInv'
  BY <1>1, InOrderStep
<1> QED
  BY <1>1, InOrderInit, SubscriptionsInvariant, PTL DEF Spec

(* No free ride: webhooks may be repeated, and a charge.success may come   *)
(* last of all, but while they come in order otherwise, and an owner buys  *)
(* only when the last subscription is off, a served owner pays or the      *)
(* webhook that ends the service is on its way.                            *)
THEOREM ServedOwnersPay ==
  ASSUME InOrder
  PROVE  Spec => []ServedIsPaid
<1>1. ASSUME SubscriptionsInv, InOrderInv
      PROVE  ServedIsPaid
  <2> SUFFICES ASSUME Untroubled, NEW o \in Owner, status[o] = "active"
               PROVE  Paid(o) \/ Coming(o, {"failed", "not_renew", "disable"})
    BY DEF ServedIsPaid
  <2>1. InStep(o)
    BY <1>1 DEF InOrderInv, Lined
  <2>2. CASE Settled(o)
    BY <2>2 DEF Settled, On
  <2>3. CASE Told(o)
    <3>1. PICK i \in 1..Len(outbox) :
            LastLive(i, o) /\ (outbox[i].type = "create" <=> Paid(o))
      BY <2>3 DEF Told
    <3>2. outbox[i].type \in EventType
      <4>1. outbox \in Seq(Event)
        BY <1>1 DEF SubscriptionsInv, TypeOK
      <4>2. outbox[i] \in Event
        BY <4>1, ElementOfSeq
      <4> QED
        BY <4>2 DEF Event
    <3>3. CASE ~Paid(o)
      <4>1. /\ OwnerOf[outbox[i].sub] = o /\ outbox[i] \notin seen
            /\ outbox[i].type \in {"failed", "not_renew", "disable"}
        BY <3>1, <3>2, <3>3 DEF LastLive, Live, EventType
      <4> QED
        BY <4>1 DEF Coming
    <3> QED
      BY <3>3
  <2> QED
    BY <2>1, <2>2, <2>3 DEF InStep
<1> QED
  BY <1>1, SubscriptionsInvariant, InOrderInvariant, PTL

(* No lockout: under the same conditions an owner who pays is served, or   *)
(* the webhook that leads there is on its way (erased owners apart).       *)
THEOREM PayingOwnersAreServed ==
  ASSUME InOrder
  PROVE  Spec => []PaidIsServed
<1>1. ASSUME SubscriptionsInv, InOrderInv
      PROVE  PaidIsServed
  <2> SUFFICES ASSUME Untroubled, NEW o \in Owner, o \notin erased, Paid(o)
               PROVE  status[o] = "active" \/ Coming(o, {"charge", "create"})
    BY DEF PaidIsServed
  <2>1. InStep(o)
    BY <1>1 DEF InOrderInv, Lined
  <2>2. CASE status[o] = "none"
    <3>1. PICK s \in SubsOf(o) : paystack[s] = "active"
      BY DEF Paid
    <3>2. PICK i \in 1..Len(outbox) : /\ outbox[i].sub = s /\ outbox[i].type = "charge"
                                      /\ outbox[i] \notin seen
      BY <2>1, <2>2, <3>1 DEF InStep, RowComes
    <3> QED
      BY <3>1, <3>2 DEF Coming, SubsOf
  <2>3. CASE status[o] # "none" /\ Settled(o)
    BY <2>1, <2>3 DEF Settled, On, InStep
  <2>4. CASE Told(o)
    BY <2>4 DEF Told, LastLive, Live, Coming
  <2> QED
    BY <2>1, <2>2, <2>3, <2>4 DEF InStep
<1> QED
  BY <1>1, SubscriptionsInvariant, InOrderInvariant, PTL
=============================================================================
