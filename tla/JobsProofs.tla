----------------------------- MODULE JobsProofs -----------------------------
(***************************************************************************)
(* Theorems about Jobs, for every value of its constants.                  *)
(*                                                                         *)
(* The type invariant bounds the semaphore's value, which no action does   *)
(* on its own: a release adds one.  It is inductive only together with     *)
(* SlotsConserved, so the two are proved as one invariant.  Only four      *)
(* operations touch the semaphore, and each has a lemma; every other step  *)
(* leaves the slots alone.                                                 *)
(***************************************************************************)
EXTENDS Jobs, FiniteSetTheorems, SequenceTheorems, TLAPS

SemType ==
    /\ pc \in [Actor -> PcType]
    /\ permits \in 0..MaxConcurrent
    /\ waiters \in Seq(Actor)

Holding == {"granted", "engine", "parsed", "broken"}

(* An open connection serves a job.                                        *)
Served == \A s \in Stream : Open(s) => sjob[s] \in Job

SlotInv == TypeOK /\ Served /\ SlotsConserved

-----------------------------------------------------------------------------
(* The actors that hold a permit are finitely many.                        *)
LEMMA HoldersFinite == IsFiniteSet(Holders) /\ Cardinality(Holders) \in Nat
<1>1. IsFiniteSet(Actor)
  BY JobsAssumption, FS_Union DEF Actor
<1>2. Holders \in SUBSET Actor
  BY DEF Holders
<1> QED
  BY <1>1, <1>2, FS_Subset, FS_CardinalityType

(* A permit taken at once: one more holder, one permit less.               *)
LEMMA EnterSlots ==
  ASSUME SemType, SlotsConserved, NEW a \in Actor,
         pc[a] \in {"idle", "created"}, Enter(a)
  PROVE  SemType' /\ SlotsConserved'
<1>1. Holders' = Holders \cup {a} /\ a \notin Holders
  BY DEF SemType, Enter, Holders, PcType
<1>2. Cardinality(Holders') = Cardinality(Holders) + 1
  BY <1>1, HoldersFinite, FS_AddElement
<1>3. SemType'
  BY JobsAssumption DEF SemType, Enter, PcType
<1>4. (permits + Cardinality(Holders) = MaxConcurrent)'
  BY <1>2, HoldersFinite, JobsAssumption DEF SemType, SlotsConserved, Enter
<1>5. \A b \in Actor : pc'[b] = "waiting" <=> pc[b] = "waiting"
  BY DEF SemType, Enter
<1> QED
  BY <1>3, <1>4, <1>5 DEF SlotsConserved, Enter

(* An actor that must wait joins the end of the line, and no permit is     *)
(* free.                                                                   *)
LEMMA QueueSlots ==
  ASSUME SemType, SlotsConserved, NEW a \in Actor,
         pc[a] \in {"idle", "created"}, Queue(a)
  PROVE  SemType' /\ SlotsConserved'
<1> DEFINE n == Len(waiters)
<1>1. SemType'
  BY DEF SemType, Queue, PcType
<1>2. Holders' = Holders
  BY DEF SemType, Queue, Holders, PcType
<1>3. permits' = 0 /\ permits = 0
  BY DEF Queue, SlotsConserved
<1>4. /\ n \in Nat /\ Len(waiters') = n + 1
      /\ \A i \in 1..n : waiters'[i] = waiters[i]
      /\ waiters'[n + 1] = a
  BY AppendProperties, LenProperties DEF SemType, Queue
<1>5. \A i \in 1..n : waiters[i] # a
  BY DEF SlotsConserved
<1>6. \A i, k \in 1..Len(waiters') : waiters'[i] = waiters'[k] => i = k
  BY <1>4, <1>5 DEF SlotsConserved
<1>7. \A b \in Actor :
        pc'[b] = "waiting" <=> \E i \in 1..Len(waiters') : waiters'[i] = b
  <2> SUFFICES ASSUME NEW b \in Actor
               PROVE  pc'[b] = "waiting" <=>
                        \E i \in 1..Len(waiters') : waiters'[i] = b
    OBVIOUS
  <2>1. CASE b = a
    BY <1>4, <2>1 DEF Queue, SemType
  <2>2. CASE b # a
    <3>1. pc'[b] = pc[b]
      BY <2>2 DEF Queue, SemType
    <3>2. (\E i \in 1..Len(waiters') : waiters'[i] = b)
            <=> (\E i \in 1..n : waiters[i] = b)
      BY <1>4, <2>2
    <3> QED
      BY <3>1, <3>2 DEF SlotsConserved
  <2> QED
    BY <2>1, <2>2
<1> QED
  BY <1>1, <1>2, <1>3, <1>6, <1>7 DEF SlotsConserved

(* The holder of a permit goes on: nothing changes hands.                  *)
LEMMA HolderMovesSlots ==
  ASSUME SemType, SlotsConserved, NEW a \in Actor,
         NEW p \in Holding, pc[a] \in Holding,
         pc' = [pc EXCEPT ![a] = p], UNCHANGED <<permits, waiters>>
  PROVE  SemType' /\ SlotsConserved'
<1>1. SemType'
  BY DEF SemType, PcType, Holding
<1>2. Holders' = Holders
  BY DEF SemType, Holders, Holding
<1>3. \A b \in Actor : pc'[b] = "waiting" <=> pc[b] = "waiting"
  BY DEF SemType, Holding
<1> QED
  BY <1>1, <1>2, <1>3 DEF SlotsConserved

(* A release with nobody waiting frees the permit; with somebody waiting   *)
(* it passes the permit on, and the number of holders stays.               *)
LEMMA ReleaseSlots ==
  ASSUME SemType, SlotsConserved, NEW a \in Actor,
         pc[a] \in Holding, Release(a)
  PROVE  SemType' /\ SlotsConserved'
<1>1. a \in Holders
  BY DEF Holders, Holding
<1>2. CASE waiters = <<>>
  <2>1. /\ permits' = permits + 1 /\ waiters' = <<>>
        /\ pc' = [pc EXCEPT ![a] = "finished"]
    BY <1>2 DEF Release
  <2>2. Holders' = Holders \ {a}
    BY <2>1 DEF SemType, Holders
  <2>3. Cardinality(Holders') = Cardinality(Holders) - 1
    BY <1>1, <2>2, HoldersFinite, FS_RemoveElement
  <2>4. Cardinality(Holders') \in Nat
    BY <2>2, HoldersFinite, FS_RemoveElement, FS_CardinalityType
  <2>5. permits' \in 0..MaxConcurrent
          /\ permits' + Cardinality(Holders') = MaxConcurrent
    BY <2>1, <2>3, <2>4, HoldersFinite, JobsAssumption DEF SemType, SlotsConserved
  <2>6. SemType'
    BY <2>1, <2>5 DEF SemType, PcType
  <2>7. \A b \in Actor : pc'[b] = "waiting" <=> pc[b] = "waiting"
    BY <2>1 DEF SemType, Holding
  <2> QED
    BY <1>2, <2>1, <2>5, <2>6, <2>7 DEF SlotsConserved
<1>3. CASE waiters # <<>>
  <2> DEFINE h == Head(waiters)  n == Len(waiters)
  <2>1. /\ permits' = permits /\ waiters' = Tail(waiters)
        /\ pc' = [pc EXCEPT ![a] = "finished", ![h] = "granted"]
    BY <1>3 DEF Release
  <2>2. /\ h \in Actor /\ h = waiters[1] /\ n \in Nat \ {0}
        /\ Tail(waiters) \in Seq(Actor) /\ Len(Tail(waiters)) = n - 1
        /\ \A i \in 1..(n - 1) : Tail(waiters)[i] = waiters[i + 1]
    BY <1>3, HeadTailProperties, EmptySeq DEF SemType
  <2>3. pc[h] = "waiting"
    <3>1. \E i \in 1..n : waiters[i] = h
      BY <2>2
    <3> QED
      BY <2>2, <3>1 DEF SlotsConserved
  <2>4. a # h
    BY <2>3 DEF Holding
  <2>5. Holders' = (Holders \ {a}) \cup {h} /\ h \notin Holders \ {a}
    BY <2>1, <2>2, <2>3, <2>4 DEF SemType, Holders
  <2>6. Cardinality(Holders') = Cardinality(Holders)
    <3>1. /\ IsFiniteSet(Holders \ {a})
          /\ Cardinality(Holders \ {a}) = Cardinality(Holders) - 1
      BY <1>1, HoldersFinite, FS_RemoveElement
    <3>2. Cardinality((Holders \ {a}) \cup {h}) = Cardinality(Holders \ {a}) + 1
      BY <2>5, <3>1, FS_AddElement
    <3> QED
      BY <2>5, <3>1, <3>2, HoldersFinite
  <2>7. SemType'
    BY <2>1, <2>2 DEF SemType, PcType
  <2>8. \A i, k \in 1..Len(waiters') : waiters'[i] = waiters'[k] => i = k
    BY <2>1, <2>2 DEF SlotsConserved
  <2>9. \A b \in Actor :
          pc'[b] = "waiting" <=> \E i \in 1..Len(waiters') : waiters'[i] = b
    <3> SUFFICES ASSUME NEW b \in Actor
                 PROVE  pc'[b] = "waiting" <=>
                          \E i \in 1..Len(waiters') : waiters'[i] = b
      OBVIOUS
    <3>1. CASE b = h
      <4>1. \A i \in 1..(n - 1) : waiters[i + 1] # h
        BY <2>2 DEF SlotsConserved
      <4> QED
        BY <2>1, <2>2, <2>4, <3>1, <4>1 DEF SemType
    <3>2. CASE b # h
      <4>1. (\E i \in 1..Len(waiters') : waiters'[i] = b)
              <=> (\E i \in 1..n : waiters[i] = b)
        <5>1. ASSUME NEW i \in 1..n, waiters[i] = b
              PROVE  i - 1 \in 1..(n - 1) /\ Tail(waiters)[i - 1] = b
          BY <2>2, <3>2, <5>1
        <5> QED
          BY <2>1, <2>2, <5>1
      <4>2. pc'[b] = "waiting" <=> pc[b] = "waiting"
        BY <2>1, <3>2 DEF SemType, Holding
      <4> QED
        BY <4>1, <4>2 DEF SlotsConserved
    <3> QED
      BY <3>1, <3>2
  <2>10. permits' = 0
    BY <1>3, <2>1 DEF SlotsConserved
  <2> QED
    BY <2>1, <2>6, <2>7, <2>8, <2>9, <2>10 DEF SlotsConserved
<1> QED
  BY <1>2, <1>3

-----------------------------------------------------------------------------
(* Every step keeps the semaphore's books: it is one of the four           *)
(* operations, or it moves an actor that neither holds nor awaits a permit *)
(* to such a place.                                                        *)
LEMMA SlotStep ==
  ASSUME SlotInv, Next
  PROVE  SemType' /\ SlotsConserved'
<1>0. SemType
  BY DEF SlotInv, TypeOK, SemType
<1> USE DEF SlotInv
<1>1. ASSUME UNCHANGED semVars PROVE SemType' /\ SlotsConserved'
  BY <1>0, <1>1 DEF SemType, SlotsConserved, Holders, semVars
<1>2. ASSUME NEW j \in Job, NEW r \in Requests,
             SubmitSample(j, r) \/ SubmitJob(j, r)
      PROVE  SemType' /\ SlotsConserved'
  <2>1. /\ j \in Actor /\ pc[j] = "idle"
        /\ \E p \in {"created", "finished"} : pc' = [pc EXCEPT ![j] = p]
        /\ UNCHANGED <<permits, waiters>>
    BY <1>2 DEF SubmitSample, SubmitJob, Actor
  <2>2. SemType'
    BY <1>0, <2>1 DEF SemType, PcType
  <2>3. Holders' = Holders
    BY <1>0, <2>1 DEF SemType, Holders
  <2>4. \A b \in Actor : pc'[b] = "waiting" <=> pc[b] = "waiting"
    BY <1>0, <2>1 DEF SemType
  <2> QED
    BY <2>1, <2>2, <2>3, <2>4 DEF SlotsConserved
<1>3. ASSUME NEW j \in Job, JobStep(j) PROVE SemType' /\ SlotsConserved'
  <2>0. j \in Actor
    BY DEF Actor
  <2>1. CASE StartJob(j)
    BY <1>0, <2>0, <2>1, EnterSlots, QueueSlots DEF StartJob
  <2>2. CASE ResumeJob(j)
    BY <1>0, <2>0, <2>2, HolderMovesSlots DEF ResumeJob, Resume, Holding
  <2>3. CASE RelayReplay(j) \/ RelaySchedule(j) \/ RunCallback(j)
    BY <1>1, <2>3 DEF RelayReplay, RelaySchedule, RunCallback
  <2>4. CASE FinishJob(j) \/ FailJob(j)
    BY <1>0, <2>0, <2>4, ReleaseSlots DEF FinishJob, FailJob, EndJob, Holding
  <2> QED
    BY <1>3, <2>1, <2>2, <2>3, <2>4 DEF JobStep
<1>4. ASSUME NEW a \in Actor, EngineReturn(a) PROVE SemType' /\ SlotsConserved'
  BY <1>0, <1>4, HolderMovesSlots DEF EngineReturn, Holding
<1>5. ASSUME NEW a \in Sync, StartSync(a) \/ ResumeSync(a) \/ EndSync(a)
      PROVE  SemType' /\ SlotsConserved'
  <2>0. a \in Actor
    BY DEF Actor
  <2>1. CASE StartSync(a)
    BY <1>0, <2>0, <2>1, EnterSlots, QueueSlots DEF StartSync
  <2>2. CASE ResumeSync(a)
    BY <1>0, <2>0, <2>2, HolderMovesSlots DEF ResumeSync, Resume, Holding
  <2>3. CASE EndSync(a)
    BY <1>0, <2>0, <2>3, ReleaseSlots DEF EndSync, Holding
  <2> QED
    BY <1>5, <2>1, <2>2, <2>3
<1>6. ASSUME NEW s \in Stream, NEW j \in Job, Connect(s, j)
      PROVE  SemType' /\ SlotsConserved'
  BY <1>1, <1>6 DEF Connect
<1>7. ASSUME NEW s \in Stream, StreamStep(s) \/ Disconnect(s)
      PROVE  SemType' /\ SlotsConserved'
  BY <1>1, <1>7 DEF StreamStep, Disconnect
<1>8. CASE Sweep \/ Tick
  BY <1>1, <1>8 DEF Sweep, Tick
<1>9. CASE Quiet
  BY <1>1, <1>9 DEF Quiet, vars, semVars
<1> QED
  BY <1>2, <1>3, <1>4, <1>5, <1>6, <1>7, <1>8, <1>9 DEF Next

(* What an SSE generator takes from the queue is a progress event or the   *)
(* terminal marker, so what it has drained stays in range.                 *)
LEMMA ResultType ==
  ASSUME TypeOK, NEW j \in Job
  PROVE  SseResult(j) \in EventType
<1>1. jobState[j] \in Live \cup Done \cup {"absent"}
  BY DEF TypeOK
<1>2. SseResult(j).body \in {"none", "url", "sample", "watermarked", "clean"}
  BY DEF SseResult, Payload
<1> QED
  BY <1>1, <1>2 DEF SseResult, EventType

LEMMA TakeType ==
  ASSUME TypeOK, NEW s \in Stream, sjob[s] \in Job, Take(s)
  PROVE  /\ queue' \in [Job -> Seq(0..MaxProgress)]
         /\ spc' \in [Stream -> {"idle", "replay", "loop", "getting", "closed", "gone"}]
         /\ drained' \in [Stream -> 0..MaxProgress]
         /\ final' \in [Stream -> EventType]
<1> DEFINE q == queue[sjob[s]]
<1>1. q \in Seq(0..MaxProgress) /\ q # <<>>
  BY DEF TypeOK, Take
<1>2. Head(q) \in 0..MaxProgress /\ Tail(q) \in Seq(0..MaxProgress)
  BY <1>1, HeadTailProperties
<1>3. queue' = [queue EXCEPT ![sjob[s]] = Tail(q)]
  BY DEF Take
<1>4. SendResult(s) \/ SendProgress(s, Head(q))
  BY DEF Take
<1>5. SseResult(sjob[s]) \in EventType
  BY ResultType
<1>6. /\ queue \in [Job -> Seq(0..MaxProgress)] /\ drained \in [Stream -> 0..MaxProgress]
      /\ spc \in [Stream -> {"idle", "replay", "loop", "getting", "closed", "gone"}]
      /\ final \in [Stream -> EventType]
  BY DEF TypeOK
<1>7. queue' \in [Job -> Seq(0..MaxProgress)]
  BY <1>2, <1>3, <1>6
<1>8. CASE SendResult(s)
  BY <1>5, <1>6, <1>7, <1>8 DEF SendResult
<1>9. CASE SendProgress(s, Head(q))
  BY <1>2, <1>6, <1>7, <1>9 DEF SendProgress
<1> QED
  BY <1>4, <1>8, <1>9

LEMMA TypeStep ==
  ASSUME SlotInv, Next, SemType'
  PROVE  TypeOK' /\ Served'
<1> USE JobsAssumption
    DEF SlotInv, TypeOK, Served, SemType, Open, Live, Done, Never, Terminal,
        timeVars, jobVars, eventVars, semVars, streamVars
<1>1. ASSUME NEW j \in Job, NEW r \in Requests,
             SubmitSample(j, r) \/ SubmitJob(j, r)
      PROVE  TypeOK' /\ Served'
  <2>1. r \in RequestType
    OBVIOUS
  <2>2. CASE SubmitSample(j, r)
    BY <2>1, <2>2 DEF SubmitSample
  <2>3. CASE SubmitJob(j, r)
    BY <2>1, <2>3 DEF SubmitJob
  <2> QED
    BY <1>1, <2>2, <2>3
<1>2. ASSUME NEW j \in Job, JobStep(j) PROVE TypeOK' /\ Served'
  <2>1. CASE StartJob(j)
    <3>1. jobState' = [jobState EXCEPT ![j] = "running"] \/ jobState' = jobState
      BY <2>1 DEF StartJob
    <3>2. UNCHANGED <<timeVars, registry, request, result, terminalAt, eventVars,
                      queue, counted, streamVars>>
      BY <2>1 DEF StartJob
    <3>3. jobState' \in [Job -> Live \cup Done \cup {"absent"}]
      BY <3>1
    <3> QED
      BY <3>2, <3>3
  <2>2. CASE ResumeJob(j)
    BY <2>2 DEF ResumeJob
  <2>3. CASE RelayReplay(j)
    BY <2>3 DEF RelayReplay
  <2>4. CASE RelaySchedule(j)
    <3>1. lastEvent[j] \in 1..MaxProgress /\ scheduled[j] + 1 \in 0..MaxProgress
      BY <2>4 DEF RelaySchedule
    <3>2. Append(inflight[j], lastEvent[j]) \in Seq(1..MaxProgress)
      BY <3>1, AppendProperties
    <3>3. /\ inflight' \in [Job -> Seq(1..MaxProgress)]
          /\ scheduled' \in [Job -> 0..MaxProgress]
      BY <2>4, <3>1, <3>2 DEF RelaySchedule
    <3> QED
      BY <2>4, <3>3 DEF RelaySchedule
  <2>5. CASE RunCallback(j)
    <3>1. /\ Head(inflight[j]) \in 0..MaxProgress
          /\ Tail(inflight[j]) \in Seq(1..MaxProgress)
      BY <2>5, HeadTailProperties DEF RunCallback
    <3>2. Append(queue[j], Head(inflight[j])) \in Seq(0..MaxProgress)
      BY <3>1, AppendProperties
    <3>3. /\ inflight' \in [Job -> Seq(1..MaxProgress)]
          /\ queue' \in [Job -> Seq(0..MaxProgress)]
      BY <2>5, <3>1, <3>2 DEF RunCallback
    <3> QED
      BY <2>5, <3>3 DEF RunCallback
  <2>6. CASE FinishJob(j) \/ FailJob(j)
    <3>1. PICK st \in Done : EndJob(j, st)
      BY <2>6 DEF FinishJob, FailJob
    <3>2. /\ result' \in [Job -> BOOLEAN]
          /\ counted' \in SUBSET Actor
      BY <2>6 DEF FinishJob, FailJob, Actor
    <3>3. queue' \in [Job -> Seq(0..MaxProgress)]
      BY <3>1 DEF EndJob
    <3> QED
      BY <3>1, <3>2, <3>3 DEF EndJob
  <2> QED
    BY <1>2, <2>1, <2>2, <2>3, <2>4, <2>5, <2>6 DEF JobStep
<1>3. ASSUME NEW a \in Actor, EngineReturn(a) PROVE TypeOK' /\ Served'
  BY <1>3 DEF EngineReturn
<1>4. ASSUME NEW a \in Sync, StartSync(a) \/ ResumeSync(a) \/ EndSync(a)
      PROVE  TypeOK' /\ Served'
  <2>1. a \in Actor
    BY DEF Actor
  <2>2. counted' \in SUBSET Actor
    BY <1>4, <2>1 DEF StartSync, ResumeSync, EndSync
  <2>3. UNCHANGED <<timeVars, jobVars, eventVars, queue, streamVars>>
    BY <1>4 DEF StartSync, ResumeSync, EndSync
  <2> QED
    BY <2>2, <2>3
<1>5. ASSUME NEW s \in Stream, NEW j \in Job, Connect(s, j)
      PROVE  TypeOK' /\ Served'
  BY <1>5 DEF Connect
<1>6. ASSUME NEW s \in Stream, StreamStep(s) PROVE TypeOK' /\ Served'
  <2>1. sjob[s] \in Job
    BY <1>6 DEF StreamStep
  <2>2. CASE Take(s)
    <3>1. Take(s) => spc' = [spc EXCEPT ![s] = spc'[s]]
      BY DEF Take, SendResult, SendProgress
    <3>2. replayed' = replayed
      BY <1>6, <2>2 DEF StreamStep, Take
    <3>3. /\ queue' \in [Job -> Seq(0..MaxProgress)]
          /\ spc' \in [Stream -> {"idle", "replay", "loop", "getting", "closed", "gone"}]
          /\ drained' \in [Stream -> 0..MaxProgress]
          /\ final' \in [Stream -> EventType]
      BY <2>1, <2>2, TakeType
    <3>4. UNCHANGED <<timeVars, jobVars, eventVars, semVars, counted, sjob>>
      BY <1>6 DEF StreamStep
    <3>5. \A t \in Stream : t # s => spc'[t] = spc[t]
      BY <2>2, <3>1
    <3>6. Served'
      BY <2>1, <3>4, <3>5
    <3> QED
      BY <3>2, <3>3, <3>4, <3>6
  <2>3. CASE ~Take(s)
    <3>1. /\ queue' = queue /\ drained' = drained
          /\ \E p \in {"loop", "getting", "closed"} : spc' = [spc EXCEPT ![s] = p]
          /\ final' = final \/ final' = [final EXCEPT ![s] = SseResult(sjob[s])]
      BY <1>6, <2>3 DEF StreamStep, Advance, SendResult
    <3>2. SseResult(sjob[s]) \in EventType
      BY <2>1, ResultType
    <3>3. final' \in [Stream -> EventType]
      BY <3>1, <3>2
    <3>4. /\ spc' \in [Stream -> {"idle", "replay", "loop", "getting", "closed", "gone"}]
          /\ \A t \in Stream : Open(t)' => Open(t) \/ t = s
      BY <3>1
    <3>5. UNCHANGED <<timeVars, jobVars, eventVars, semVars, counted, sjob>>
      BY <1>6 DEF StreamStep
    <3>6. replayed' \in [Stream -> 0..MaxProgress]
      <4>1. lastEvent[sjob[s]] \in 0..MaxProgress
        BY <2>1
      <4>2. replayed' = replayed \/ replayed' = [replayed EXCEPT ![s] = lastEvent[sjob[s]]]
        BY <1>6 DEF StreamStep
      <4> QED
        BY <4>1, <4>2
    <3> QED
      BY <2>1, <3>1, <3>3, <3>4, <3>5, <3>6
  <2> QED
    BY <2>2, <2>3
<1>7. ASSUME NEW s \in Stream, Disconnect(s) PROVE TypeOK' /\ Served'
  BY <1>7 DEF Disconnect
<1>8. CASE Sweep
  BY <1>8 DEF Sweep
<1>9. CASE Tick
  BY <1>9 DEF Tick
<1>10. CASE Quiet
  BY <1>10 DEF Quiet, vars
<1> QED
  BY <1>1, <1>2, <1>3, <1>4, <1>5, <1>6, <1>7, <1>8, <1>9, <1>10 DEF Next

(* The initial state: every permit is free.                                *)
LEMMA InitSlots == Init => SlotInv
<1> SUFFICES ASSUME Init PROVE SlotInv
  OBVIOUS
<1>1. TypeOK
  BY JobsAssumption
  DEF Init, TypeOK, Actor, RequestType, NoRequest, PcType, Never, Live, Done,
      EventType, NoEvent
<1>2. Served
  BY DEF Init, Served, Open
<1>3. Holders = {}
  BY DEF Init, Holders
<1>4. SlotsConserved
  BY <1>3, FS_EmptySet, JobsAssumption DEF Init, SlotsConserved
<1> QED
  BY <1>1, <1>2, <1>4 DEF SlotInv

LEMMA SlotInvariant == Spec => []SlotInv
<1>1. SlotInv /\ [Next]_vars => SlotInv'
  <2>1. SlotInv /\ Next => SlotInv'
    BY SlotStep, TypeStep DEF SlotInv
  <2>2. SlotInv /\ UNCHANGED vars => SlotInv'
    BY DEF SlotInv, TypeOK, Served, Open, SlotsConserved, Holders, vars,
           timeVars, jobVars, eventVars, semVars, streamVars
  <2> QED
    BY <2>1, <2>2
<1> QED
  BY <1>1, InitSlots, PTL DEF Spec

(* Every variable of the job surface keeps its type; in particular the     *)
(* semaphore never holds more permits than it started with.                *)
THEOREM JobsTypeCorrect == Spec => []TypeOK
<1>1. SlotInv => TypeOK
  BY DEF SlotInv
<1> QED
  BY <1>1, SlotInvariant, PTL

(* Permits are conserved and never idle while somebody waits, for any      *)
(* number of jobs, synchronous requests and slots.                         *)
THEOREM SlotsAreConserved == Spec => []SlotsConserved
<1>1. SlotInv => SlotsConserved
  BY DEF SlotInv
<1> QED
  BY <1>1, SlotInvariant, PTL

(* The engine never runs in more threads than parse_max_concurrent.        *)
THEOREM EngineIsCapped == Spec => []EngineCap
<1>1. SlotInv => EngineCap
  <2> SUFFICES ASSUME SlotInv PROVE EngineCap
    OBVIOUS
  <2> DEFINE Running == {a \in Actor : pc[a] = "engine"}
  <2>1. Running \in SUBSET Holders
    BY DEF Holders
  <2>2. Cardinality(Running) <= Cardinality(Holders) /\ Cardinality(Running) \in Nat
    BY <2>1, HoldersFinite, FS_Subset, FS_CardinalityType
  <2>3. Cardinality(Holders) <= MaxConcurrent
    BY HoldersFinite, JobsAssumption DEF SlotInv, TypeOK, SlotsConserved
  <2> QED
    BY <2>2, <2>3, HoldersFinite, JobsAssumption DEF EngineCap
<1> QED
  BY <1>1, SlotInvariant, PTL

-----------------------------------------------------------------------------
(* The life of a job.  KeptForTtl and ClearedAfterTwoTtl speak of settled  *)
(* jobs only; what makes them inductive is that a job is stamped exactly   *)
(* when it settles (a live one can never be swept), that its runner is     *)
(* past its end then, and that no sweep is further than one TTL away.      *)
Unfinished == {"created", "waiting", "granted", "engine", "parsed", "broken"}

JobLife(j) ==
    /\ pc[j] \in {"idle"} \cup Unfinished \cup {"finished"}
    /\ pc[j] = "idle" =>
         /\ jobState[j] = "absent" /\ j \notin registry
         /\ terminalAt[j] = Never /\ ~result[j]
    /\ pc[j] \in Unfinished =>
         /\ jobState[j] \in Live /\ j \in registry
         /\ terminalAt[j] = Never /\ ~result[j]
    /\ pc[j] = "finished" =>
         /\ jobState[j] \in Done
         /\ terminalAt[j] \in 0..clock
         /\ j \notin registry => clock - terminalAt[j] > Ttl
         /\ j \in registry => sweepAt <= terminalAt[j] + 2 * Ttl
         /\ j \in registry /\ jobState[j] = "done" => result[j] \/ Sampled(j)
         /\ result[j] => j \in registry /\ jobState[j] = "done"

LifeInv ==
    /\ SlotInv
    /\ clock <= sweepAt /\ sweepAt <= clock + Ttl
    /\ \A j \in Job : JobLife(j)

(* A release ends its own actor and moves at most one other, from waiting  *)
(* to granted.                                                             *)
LEMMA ReleaseMoves ==
  ASSUME SlotInv, NEW a \in Actor, pc[a] \in Holding, Release(a)
  PROVE  /\ pc'[a] = "finished"
         /\ \A b \in Actor \ {a} :
              pc'[b] = pc[b] \/ (pc[b] = "waiting" /\ pc'[b] = "granted")
<1>1. CASE waiters = <<>>
  BY <1>1 DEF Release, SlotInv, TypeOK
<1>2. CASE waiters # <<>>
  <2> DEFINE h == Head(waiters)
  <2>1. pc' = [pc EXCEPT ![a] = "finished", ![h] = "granted"]
    BY <1>2 DEF Release
  <2>2. h \in Actor /\ h = waiters[1] /\ 1 \in 1..Len(waiters)
    BY <1>2, HeadTailProperties, EmptySeq DEF SlotInv, TypeOK
  <2>3. pc[h] = "waiting"
    <3>1. \E i \in 1..Len(waiters) : waiters[i] = h
      BY <2>2
    <3> QED
      BY <2>2, <3>1 DEF SlotInv, SlotsConserved
  <2>4. a # h
    BY <2>3 DEF Holding
  <2> QED
    BY <2>1, <2>2, <2>3, <2>4 DEF SlotInv, TypeOK
<1> QED
  BY <1>1, <1>2

(* A job whose own variables a step leaves alone keeps its life, provided  *)
(* at most its permit came through.                                        *)
LEMMA LifeUntouched ==
  ASSUME LifeInv, NEW j \in Job, JobLife(j),
         UNCHANGED <<clock, sweepAt>>,
         j \in registry' <=> j \in registry,
         request'[j] = request[j], jobState'[j] = jobState[j],
         result'[j] = result[j], terminalAt'[j] = terminalAt[j],
         pc'[j] = pc[j] \/ (pc[j] = "waiting" /\ pc'[j] = "granted")
  PROVE  JobLife(j)'
  BY DEF JobLife, Unfinished, Sampled, Live, Done

LEMMA LifeStep ==
  ASSUME LifeInv, Next, SlotInv'
  PROVE  LifeInv'
<1> DEFINE Clocked == clock <= sweepAt /\ sweepAt <= clock + Ttl
           Lives == \A j \in Job : JobLife(j)
<1>0. /\ Clocked /\ Lives /\ SlotInv /\ TypeOK
      /\ Job \subseteq Actor /\ Sync \subseteq Actor
  BY DEF LifeInv, SlotInv, Actor
<1>1. ASSUME UNCHANGED <<timeVars, jobVars, pc>> PROVE Clocked' /\ Lives'
  BY <1>0, <1>1, LifeUntouched DEF timeVars, jobVars
<1>2. ASSUME NEW j \in Job, NEW r \in Requests,
             SubmitSample(j, r) \/ SubmitJob(j, r)
      PROVE  Clocked' /\ Lives'
  <2>1. UNCHANGED timeVars
    BY <1>2 DEF SubmitSample, SubmitJob
  <2>2. JobLife(j)'
    <3>1. CASE SubmitSample(j, r)
      BY <1>0, <3>1, JobsAssumption
      DEF SubmitSample, JobLife, TypeOK, timeVars, Unfinished, Live, Done,
          Never, Sampled
    <3>2. CASE SubmitJob(j, r)
      BY <1>0, <3>2
      DEF SubmitJob, JobLife, TypeOK, timeVars, Unfinished, Live, Done
    <3> QED
      BY <1>2, <3>1, <3>2
  <2>3. ASSUME NEW i \in Job \ {j} PROVE JobLife(i)'
    BY <1>0, <1>2, <2>1, LifeUntouched
    DEF SubmitSample, SubmitJob, TypeOK, timeVars
  <2> QED
    BY <1>0, <2>1, <2>2, <2>3 DEF timeVars
<1>3. ASSUME NEW j \in Job, JobStep(j) PROVE Clocked' /\ Lives'
  <2>1. UNCHANGED timeVars
    BY <1>3 DEF JobStep, StartJob, ResumeJob, RelayReplay, RelaySchedule,
                RunCallback, FinishJob, FailJob, EndJob
  <2>2. CASE StartJob(j) \/ ResumeJob(j)
    <3>1. JobLife(j)'
      BY <1>0, <2>2
      DEF StartJob, ResumeJob, Enter, Queue, Resume, JobLife, TypeOK, timeVars,
          Unfinished, Live, Done
    <3>2. ASSUME NEW i \in Job \ {j} PROVE JobLife(i)'
      BY <1>0, <2>1, <2>2, LifeUntouched
      DEF StartJob, ResumeJob, Enter, Queue, Resume, TypeOK, timeVars
    <3> QED
      BY <1>0, <2>1, <3>1, <3>2 DEF timeVars
  <2>3. CASE RelayReplay(j) \/ RelaySchedule(j) \/ RunCallback(j)
    BY <1>1, <2>3
    DEF RelayReplay, RelaySchedule, RunCallback, semVars
  <2>4. CASE FinishJob(j) \/ FailJob(j)
    <3>1. PICK st \in Done : EndJob(j, st)
      BY <2>4 DEF FinishJob, FailJob, Done
    <3>2. /\ pc[j] \in Holding /\ j \in registry
          /\ \/ pc[j] = "parsed" /\ st = "done" /\ result'[j] = TRUE
             \/ pc[j] = "broken" /\ st = "failed" /\ result'[j] = FALSE
          /\ \A i \in Job \ {j} : result'[i] = result[i]
      <4>1. JobLife(j) /\ result \in [Job -> BOOLEAN] /\ DOMAIN jobState = Job
        BY <1>0 DEF TypeOK
      <4>2. jobState'[j] = st
        BY <3>1, <4>1 DEF EndJob
      <4>3. CASE FinishJob(j)
        <5>1. jobState'[j] = "done"
          BY <4>1, <4>3 DEF FinishJob, EndJob
        <5> QED
          BY <4>1, <4>2, <4>3, <5>1 DEF FinishJob, Holding, JobLife, Unfinished
      <4>4. CASE FailJob(j)
        <5>1. jobState'[j] = "failed"
          BY <4>1, <4>4 DEF FailJob, EndJob
        <5> QED
          BY <4>1, <4>2, <4>4, <5>1 DEF FailJob, Holding, JobLife, Unfinished
      <4> QED
        BY <2>4, <4>3, <4>4
    <3>3. /\ pc'[j] = "finished"
          /\ \A i \in Actor \ {j} :
               pc'[i] = pc[i] \/ (pc[i] = "waiting" /\ pc'[i] = "granted")
      BY <1>0, <3>1, <3>2, ReleaseMoves DEF EndJob
    <3>4. JobLife(j)'
      <4>1. /\ jobState'[j] = st /\ terminalAt'[j] = clock /\ registry' = registry
            /\ clock' = clock /\ sweepAt' = sweepAt
        BY <1>0, <2>1, <3>1 DEF EndJob, TypeOK, timeVars
      <4>2. clock \in Nat /\ Ttl \in Nat /\ sweepAt \in Nat /\ sweepAt <= clock + Ttl
        BY <1>0, JobsAssumption DEF TypeOK
      <4>3. clock \in 0..clock /\ sweepAt <= clock + 2 * Ttl
        BY <4>2
      <4> QED
        BY <3>2, <3>3, <4>1, <4>3 DEF JobLife, Unfinished, Done
    <3>5. ASSUME NEW i \in Job \ {j} PROVE JobLife(i)'
      BY <1>0, <2>1, <3>1, <3>2, <3>3, LifeUntouched
      DEF EndJob, TypeOK, timeVars
    <3> QED
      BY <1>0, <2>1, <3>4, <3>5 DEF timeVars
  <2> QED
    BY <1>3, <2>2, <2>3, <2>4 DEF JobStep
<1>4. ASSUME NEW a \in Actor, EngineReturn(a) PROVE Clocked' /\ Lives'
  <2>1. UNCHANGED <<timeVars, jobVars>>
    BY <1>4 DEF EngineReturn
  <2>2. \A j \in Job : JobLife(j)'
    BY <1>0, <1>4, <2>1
    DEF EngineReturn, JobLife, TypeOK, timeVars, jobVars, Unfinished, Sampled
  <2> QED
    BY <1>0, <2>1, <2>2 DEF timeVars
<1>5. ASSUME NEW a \in Sync, StartSync(a) \/ ResumeSync(a) \/ EndSync(a)
      PROVE  Clocked' /\ Lives'
  <2>1. UNCHANGED <<timeVars, jobVars>>
    BY <1>5 DEF StartSync, ResumeSync, EndSync
  <2>2. \A j \in Job : pc'[j] = pc[j] \/ (pc[j] = "waiting" /\ pc'[j] = "granted")
    <3>1. \A j \in Job : j # a
      BY JobsAssumption
    <3>2. CASE StartSync(a) \/ ResumeSync(a)
      BY <1>0, <3>1, <3>2 DEF StartSync, ResumeSync, Enter, Queue, Resume, TypeOK
    <3>3. CASE EndSync(a)
      BY <1>0, <3>1, <3>3, ReleaseMoves DEF EndSync, Holding
    <3> QED
      BY <1>5, <3>2, <3>3
  <2> QED
    BY <1>0, <2>1, <2>2, LifeUntouched DEF timeVars, jobVars
<1>6. ASSUME NEW s \in Stream, NEW j \in Job, Connect(s, j)
      PROVE  Clocked' /\ Lives'
  BY <1>1, <1>6 DEF Connect, semVars
<1>7. ASSUME NEW s \in Stream, StreamStep(s) \/ Disconnect(s)
      PROVE  Clocked' /\ Lives'
  BY <1>1, <1>7 DEF StreamStep, Disconnect, semVars
<1>8. CASE Sweep
  <2>1. clock = sweepAt /\ sweepAt' = clock + Ttl /\ clock' = clock
    BY <1>0, <1>8 DEF Sweep, TypeOK
  <2>2. ASSUME NEW j \in Job PROVE JobLife(j)'
    <3>1. /\ j \in registry' <=> j \in registry /\ j \notin Expired
          /\ result'[j] = (result[j] /\ j \notin Expired)
          /\ pc' = pc /\ jobState' = jobState /\ terminalAt' = terminalAt
          /\ request' = request
      BY <1>8 DEF Sweep, semVars
    <3>2. j \in Expired <=> /\ j \in registry /\ terminalAt[j] # Never
                            /\ clock - terminalAt[j] > Ttl
      BY DEF Expired
    <3>3. clock \in Nat /\ Ttl \in Nat /\ sweepAt \in Nat /\ JobLife(j)
      BY <1>0, JobsAssumption DEF TypeOK
    <3>4. CASE pc[j] = "finished"
      <4>1. terminalAt[j] \in Nat /\ terminalAt[j] # Never
        BY <3>3, <3>4 DEF JobLife, Never
      <4>2. j \in registry' => sweepAt' <= terminalAt[j] + 2 * Ttl
        BY <2>1, <3>1, <3>2, <3>3, <4>1
      <4>3. j \notin registry' => clock - terminalAt[j] > Ttl
        BY <3>1, <3>2, <3>3, <3>4, <4>1 DEF JobLife
      <4> QED
        BY <2>1, <3>1, <3>2, <3>3, <3>4, <4>2, <4>3
        DEF JobLife, Unfinished, Sampled
    <3>5. CASE pc[j] # "finished"
      BY <2>1, <3>1, <3>2, <3>3, <3>5 DEF JobLife, Unfinished
    <3> QED
      BY <3>4, <3>5
  <2> QED
    BY <1>0, <2>1, <2>2, JobsAssumption DEF TypeOK, LifeInv
<1>9. CASE Tick
  <2>1. /\ clock' = clock + 1 /\ clock < sweepAt
        /\ UNCHANGED <<sweepAt, jobVars, pc>>
    BY <1>9 DEF Tick, semVars
  <2>2. ASSUME NEW j \in Job PROVE JobLife(j)'
    BY <1>0, <2>1, JobsAssumption
    DEF JobLife, TypeOK, jobVars, Unfinished, Sampled, Live, Done
  <2> QED
    BY <1>0, <2>1, <2>2, JobsAssumption DEF TypeOK, LifeInv
<1>10. CASE Quiet
  BY <1>1, <1>10 DEF Quiet, vars, semVars, LifeInv
<1> QED
  BY <1>2, <1>3, <1>4, <1>5, <1>6, <1>7, <1>8, <1>9, <1>10 DEF Next, LifeInv

LEMMA LifeInvariant == Spec => []LifeInv
<1>1. Init => LifeInv
  <2> SUFFICES ASSUME Init PROVE LifeInv
    OBVIOUS
  <2>1. \A j \in Job : JobLife(j)
    BY DEF Init, JobLife, Actor, Unfinished
  <2> QED
    BY <2>1, InitSlots, JobsAssumption DEF Init, LifeInv
<1>2. LifeInv /\ SlotInv' /\ [Next]_vars => LifeInv'
  <2>1. LifeInv /\ SlotInv' /\ UNCHANGED vars => LifeInv'
    BY LifeUntouched
    DEF LifeInv, JobLife, Sampled, vars, timeVars, jobVars, semVars
  <2> QED
    BY <2>1, LifeStep
<1> QED
  BY <1>1, <1>2, SlotInvariant, PTL DEF Spec

(* However sweeps and runners interleave, a live job is never swept and a  *)
(* settled one can be asked for until it is older than the TTL.            *)
THEOREM JobsAreKept == Spec => []KeptForTtl
<1>1. LifeInv => KeptForTtl
  <2> SUFFICES ASSUME LifeInv, NEW j \in Job
               PROVE  /\ jobState[j] \in Live => j \in registry
                      /\ jobState[j] \in Done /\ clock - terminalAt[j] <= Ttl =>
                           /\ j \in registry
                           /\ jobState[j] = "done" => Download(j) # "404"
    BY DEF KeptForTtl
  <2>1. JobLife(j) /\ clock \in Int /\ Ttl \in Int
    BY JobsAssumption DEF LifeInv, SlotInv, TypeOK
  <2>2. jobState[j] \in Live => j \in registry
    BY <2>1 DEF JobLife, Unfinished, Live, Done
  <2>3. jobState[j] \in Done => pc[j] = "finished" /\ terminalAt[j] \in Int
    BY <2>1 DEF JobLife, Unfinished, Live, Done
  <2>4. jobState[j] = "done" /\ j \in registry => Download(j) # "404"
    BY <2>1, <2>3 DEF JobLife, Done, Download, Available, Payload
  <2> QED
    BY <2>1, <2>2, <2>3, <2>4 DEF JobLife
<1> QED
  BY <1>1, LifeInvariant, PTL

(* No result outlives two TTLs: a job is swept at the first sweep that     *)
(* finds it older than the TTL, and sweeps are one TTL apart.              *)
THEOREM ResultsAreCleared == Spec => []ClearedAfterTwoTtl
<1>1. LifeInv => ClearedAfterTwoTtl
  <2> SUFFICES ASSUME LifeInv, NEW j \in Job,
                      jobState[j] \in Done, j \in registry \/ result[j]
               PROVE  terminalAt[j] # Never /\ clock - terminalAt[j] <= 2 * Ttl
    BY DEF ClearedAfterTwoTtl
  <2>1. /\ JobLife(j) /\ clock \in Int /\ Ttl \in Int /\ sweepAt \in Int
        /\ clock <= sweepAt
    BY JobsAssumption DEF LifeInv, SlotInv, TypeOK
  <2>2. pc[j] = "finished" /\ terminalAt[j] \in 0..clock
    BY <2>1 DEF JobLife, Unfinished, Live, Done
  <2> QED
    BY <2>1, <2>2 DEF JobLife, Never
<1> QED
  BY <1>1, LifeInvariant, PTL
-----------------------------------------------------------------------------
(***************************************************************************)
(* The streams.                                                            *)
(*                                                                         *)
(* An event of a job goes from the engine thread through a loop callback   *)
(* to the queue, and from there to whichever reader takes it.  The         *)
(* invariant says that the three places hold the events in the order they  *)
(* were made (Flow), that whoever has read one finds only newer ones       *)
(* (Behind), and that the end of a job, once written, stands (Outcome).    *)
(***************************************************************************)

(* Of a job's events: those on the queue are older than those in flight,   *)
(* and none is newer than what the engine has handed over; the marker      *)
(* comes when the runner has finished, and then nothing is in flight.      *)
Flow(j) ==
    /\ scheduled[j] <= lastEvent[j] /\ lastEvent[j] <= scheduled[j] + 1
    /\ \A k \in 1..Len(inflight[j]) : inflight[j][k] <= scheduled[j]
    /\ \A i, k \in 1..Len(inflight[j]) : i < k => inflight[j][i] < inflight[j][k]
    /\ \A i \in 1..Len(queue[j]) : queue[j][i] <= scheduled[j]
    /\ \A i \in 1..Len(queue[j]), k \in 1..Len(inflight[j]) :
         queue[j][i] < inflight[j][k]
    /\ \A i, k \in 1..Len(queue[j]) :
         i < k /\ queue[j][k] # Terminal => queue[j][i] < queue[j][k]
    /\ \A i \in 1..Len(queue[j]) : queue[j][i] = Terminal =>
         i = Len(queue[j]) /\ pc[j] = "finished"
    /\ pc[j] \in {"idle", "finished"} => inflight[j] = <<>>

(* A reader that has taken n finds only newer events.                      *)
Behind(j, n) ==
    /\ n <= scheduled[j]
    /\ \A i \in 1..Len(queue[j]) : queue[j][i] # Terminal => n < queue[j][i]
    /\ \A k \in 1..Len(inflight[j]) : n < inflight[j][k]

Reading(s) ==
    /\ spc[s] = "idle" => drained[s] = 0
    /\ spc[s] # "idle" => sjob[s] \in Job /\ Behind(sjob[s], drained[s])

(* What a closed stream has said of its job.                               *)
Outcome(s) ==
    spc[s] = "closed" =>
        /\ final[s].state \in Done
        /\ final[s].state = jobState[sjob[s]]
        /\ final[s].state = "done" /\ final[s].body = "none" =>
              sjob[s] \notin registry

StreamInv ==
    /\ \A j \in Job : Flow(j)
    /\ \A s \in Stream : Reading(s) /\ Outcome(s)
    /\ CountedIsServed
-----------------------------------------------------------------------------
(* A settled job never changes its state, and is not registered again.     *)
LEMMA SettledStands ==
  ASSUME LifeInv, Next, NEW j \in Job, jobState[j] \in Done
  PROVE  /\ jobState'[j] = jobState[j] /\ pc'[j] = "finished"
         /\ j \notin registry => j \notin registry'
<1>0. pc[j] = "finished" /\ TypeOK /\ SlotInv /\ j \in Actor
  BY DEF LifeInv, JobLife, Unfinished, Live, Done, SlotInv, Actor
<1>1. ASSUME NEW i \in Job, NEW r \in Requests,
             SubmitSample(i, r) \/ SubmitJob(i, r)
      PROVE  /\ jobState'[j] = jobState[j] /\ pc'[j] = "finished"
             /\ j \notin registry => j \notin registry'
  BY <1>0, <1>1 DEF SubmitSample, SubmitJob, TypeOK
<1>2. ASSUME NEW i \in Job, JobStep(i)
      PROVE  /\ jobState'[j] = jobState[j] /\ pc'[j] = "finished"
             /\ j \notin registry => j \notin registry'
  <2>1. CASE StartJob(i) \/ ResumeJob(i)
    BY <1>0, <2>1 DEF StartJob, ResumeJob, Enter, Queue, Resume, TypeOK
  <2>2. CASE RelayReplay(i) \/ RelaySchedule(i) \/ RunCallback(i)
    BY <1>0, <2>2 DEF RelayReplay, RelaySchedule, RunCallback, jobVars, semVars
  <2>3. CASE FinishJob(i) \/ FailJob(i)
    <3>1. PICK st \in Done : EndJob(i, st)
      BY <2>3 DEF FinishJob, FailJob, Done
    <3>2. pc[i] \in Holding /\ i # j /\ i \in Actor
      BY <1>0, <2>3 DEF FinishJob, FailJob, Holding, Actor
    <3>3. pc'[j] = "finished"
      BY <1>0, <3>1, <3>2, ReleaseMoves DEF EndJob
    <3> QED
      BY <1>0, <3>1, <3>2, <3>3 DEF EndJob, TypeOK
  <2> QED
    BY <1>2, <2>1, <2>2, <2>3 DEF JobStep
<1>3. ASSUME NEW a \in Actor, EngineReturn(a)
      PROVE  /\ jobState'[j] = jobState[j] /\ pc'[j] = "finished"
             /\ j \notin registry => j \notin registry'
  BY <1>0, <1>3 DEF EngineReturn, jobVars, TypeOK
<1>4. ASSUME NEW a \in Sync, StartSync(a) \/ ResumeSync(a) \/ EndSync(a)
      PROVE  /\ jobState'[j] = jobState[j] /\ pc'[j] = "finished"
             /\ j \notin registry => j \notin registry'
  <2>1. a \in Actor /\ a # j /\ UNCHANGED jobVars
    BY <1>4, JobsAssumption DEF Actor, StartSync, ResumeSync, EndSync
  <2>2. CASE StartSync(a) \/ ResumeSync(a)
    BY <1>0, <2>1, <2>2 DEF StartSync, ResumeSync, Enter, Queue, Resume, jobVars, TypeOK
  <2>3. CASE EndSync(a)
    BY <1>0, <2>1, <2>3, ReleaseMoves DEF EndSync, Holding, jobVars
  <2> QED
    BY <1>4, <2>2, <2>3
<1>5. ASSUME NEW s \in Stream, NEW i \in Job, Connect(s, i)
      PROVE  /\ jobState'[j] = jobState[j] /\ pc'[j] = "finished"
             /\ j \notin registry => j \notin registry'
  BY <1>0, <1>5 DEF Connect, jobVars, semVars
<1>6. ASSUME NEW s \in Stream, StreamStep(s) \/ Disconnect(s)
      PROVE  /\ jobState'[j] = jobState[j] /\ pc'[j] = "finished"
             /\ j \notin registry => j \notin registry'
  BY <1>0, <1>6 DEF StreamStep, Disconnect, jobVars, semVars
<1>7. CASE Sweep
  BY <1>0, <1>7 DEF Sweep, semVars
<1>8. CASE Tick \/ Quiet
  BY <1>0, <1>8 DEF Tick, Quiet, vars, jobVars, semVars
<1> QED
  BY <1>1, <1>2, <1>3, <1>4, <1>5, <1>6, <1>7, <1>8 DEF Next
-----------------------------------------------------------------------------
(* Flow of a job whose events stay where they are.                         *)
LEMMA FlowKept ==
  ASSUME NEW j \in Job, Flow(j),
         lastEvent'[j] = lastEvent[j], scheduled'[j] = scheduled[j],
         inflight'[j] = inflight[j], queue'[j] = queue[j],
         \/ pc'[j] = pc[j]
         \/ pc[j] # "finished" /\ pc'[j] \notin {"idle", "finished"}
         \/ pc[j] = "idle" /\ pc'[j] = "finished"
  PROVE  Flow(j)'
  BY DEF Flow

(* The types the next lemmas need.                                         *)
LEMMA EventTypes ==
  ASSUME TypeOK, NEW j \in Job
  PROVE  /\ lastEvent[j] \in Nat /\ scheduled[j] \in Nat /\ MaxProgress \in Nat
         /\ inflight[j] \in Seq(1..MaxProgress) /\ Len(inflight[j]) \in Nat
         /\ \A k \in 1..Len(inflight[j]) : inflight[j][k] \in 1..MaxProgress
         /\ queue[j] \in Seq(0..MaxProgress) /\ Len(queue[j]) \in Nat
         /\ \A k \in 1..Len(queue[j]) : queue[j][k] \in 0..MaxProgress
<1>1. MaxProgress \in Nat
  BY JobsAssumption
<1>2. lastEvent[j] \in 0..MaxProgress /\ scheduled[j] \in 0..MaxProgress
  BY DEF TypeOK
<1>3. inflight[j] \in Seq(1..MaxProgress) /\ queue[j] \in Seq(0..MaxProgress)
  BY DEF TypeOK
<1>4. Len(inflight[j]) \in Nat /\ Len(queue[j]) \in Nat
  BY <1>3, LenProperties
<1>5. \A k \in 1..Len(inflight[j]) : inflight[j][k] \in 1..MaxProgress
  BY <1>3, ElementOfSeq
<1>6. \A k \in 1..Len(queue[j]) : queue[j][k] \in 0..MaxProgress
  BY <1>3, ElementOfSeq
<1> QED
  BY <1>1, <1>2, <1>3, <1>4, <1>5, <1>6
-----------------------------------------------------------------------------
(* The engine makes an event: last_event runs one ahead.                   *)
LEMMA ReplayFlow ==
  ASSUME TypeOK, NEW j \in Job, Flow(j), RelayReplay(j)
  PROVE  /\ Flow(j)'
         /\ \A n \in Nat : Behind(j, n) => Behind(j, n)'
<1>1. /\ lastEvent'[j] = lastEvent[j] + 1 /\ lastEvent[j] = scheduled[j]
      /\ UNCHANGED <<scheduled, inflight, queue, pc>>
  BY DEF RelayReplay, TypeOK, semVars
<1>2. scheduled'[j] <= lastEvent'[j] /\ lastEvent'[j] <= scheduled'[j] + 1
  <2>1. PICK n \in Nat : n = lastEvent[j]
    BY EventTypes
  <2>2. n <= n + 1 /\ n + 1 <= n + 1
    OBVIOUS
  <2> QED
    BY <1>1, <2>1, <2>2
<1>3. UNCHANGED <<scheduled[j], inflight[j], queue[j], pc[j]>>
  BY <1>1
<1>4. Flow(j)'
  BY <1>2, <1>3 DEF Flow
<1>5. \A n \in Nat : Behind(j, n) => Behind(j, n)'
  BY <1>3 DEF Behind
<1> QED
  BY <1>4, <1>5

(* It hands the event to the loop: newer than all there is.                *)
LEMMA ScheduleFlow ==
  ASSUME TypeOK, NEW j \in Job, Flow(j), RelaySchedule(j)
  PROVE  /\ Flow(j)'
         /\ \A n \in Nat : Behind(j, n) => Behind(j, n)'
<1> DEFINE f == inflight[j]  e == lastEvent[j]  m == Len(f)
<1>0. /\ scheduled[j] \in Int /\ \A i \in 1..m : f[i] \in Int
      /\ \A i \in 1..Len(queue[j]) : queue[j][i] \in Int
  BY EventTypes
<1>1. /\ scheduled'[j] = scheduled[j] + 1 /\ inflight'[j] = Append(f, e)
      /\ pc[j] = "engine" /\ UNCHANGED <<lastEvent, queue, pc>>
  BY DEF RelaySchedule, TypeOK, semVars
<1>2. e = scheduled[j] + 1
  BY EventTypes DEF Flow, RelaySchedule
<1>3. /\ Len(Append(f, e)) = m + 1 /\ m \in Nat
      /\ \A i \in 1..m : Append(f, e)[i] = f[i]
      /\ Append(f, e)[m + 1] = e
  <2>1. f \in Seq(1..MaxProgress) /\ e \in 1..MaxProgress
    BY <1>2, EventTypes DEF TypeOK
  <2> QED
    BY <2>1, AppendProperties, LenProperties
<1>4. \A i \in 1..(m + 1) : i \in 1..m \/ i = m + 1
  BY <1>3
<1>5. Flow(j)'
  <2>1. \A k \in 1..(m + 1) : inflight'[j][k] <= scheduled'[j]
    <3>1. \A k \in 1..m : f[k] <= scheduled[j]
      BY DEF Flow
    <3>2. \A k \in 1..m : Append(f, e)[k] <= scheduled[j] + 1
      BY <1>0, <1>3, <3>1
    <3>3. Append(f, e)[m + 1] <= scheduled[j] + 1
      BY <1>0, <1>2, <1>3
    <3> QED
      BY <1>1, <1>4, <3>2, <3>3
  <2>2. \A i, k \in 1..(m + 1) : i < k => inflight'[j][i] < inflight'[j][k]
    <3> DEFINE new == inflight'[j]
    <3>1. new[m + 1] = e /\ \A i \in 1..m : new[i] = f[i]
      BY <1>1, <1>3
    <3>2. \A i \in 1..m : f[i] <= scheduled[j]
      BY DEF Flow
    <3>3. \A i, k \in 1..m : i < k => f[i] < f[k]
      BY DEF Flow
    <3>4. scheduled[j] \in Int /\ \A i \in 1..m : f[i] \in Int
      BY <1>0
    <3>5. \A i \in 1..m : f[i] < e
      BY <1>2, <3>2, <3>4
    <3> HIDE DEF new, m, f, e
    <3>6. \A i, k \in 1..(m + 1) : i < k => i \in 1..m /\ (k \in 1..m \/ k = m + 1)
      BY <1>3, <1>4
    <3>7. \A i, k \in 1..(m + 1) : i < k => new[i] < new[k]
      BY <3>1, <3>3, <3>5, <3>6
    <3> QED
      BY <3>7 DEF new, m, f
  <2>3. ASSUME NEW i \in 1..Len(queue[j]), NEW k \in 1..(m + 1)
        PROVE  queue[j][i] < inflight'[j][k] /\ queue[j][i] <= scheduled[j] + 1
    <3>1. queue[j][i] <= scheduled[j] /\ queue[j][i] \in Int /\ scheduled[j] \in Int
      <4>1. queue[j][i] <= scheduled[j]
        BY DEF Flow
      <4> QED
        BY <1>0, <4>1
    <3>2. CASE k = m + 1
      BY <1>1, <1>2, <1>3, <3>1, <3>2
    <3>3. CASE k \in 1..m
      BY <1>1, <1>3, <3>1, <3>3 DEF Flow
    <3> QED
      BY <1>4, <3>1, <3>2, <3>3
  <2>4. \A i \in 1..Len(queue[j]) : queue'[j][i] <= scheduled'[j]
    BY <1>1, <2>3, <1>3
  <2>5. scheduled'[j] <= lastEvent'[j] /\ lastEvent'[j] <= scheduled'[j] + 1
    BY <1>1, <1>2, EventTypes
  <2>6. queue'[j] = queue[j] /\ pc'[j] = pc[j] /\ Len(inflight'[j]) = m + 1
    BY <1>1, <1>3
  <2> QED
    BY <1>1, <2>1, <2>2, <2>3, <2>4, <2>5, <2>6 DEF Flow
<1>6. \A n \in Nat : Behind(j, n) => Behind(j, n)'
  BY <1>1, <1>2, <1>3, <1>4, EventTypes DEF Behind
<1> QED
  BY <1>5, <1>6

(* The loop puts the oldest event in flight on the queue.                  *)
LEMMA CallbackFlow ==
  ASSUME TypeOK, NEW j \in Job, Flow(j), RunCallback(j)
  PROVE  /\ Flow(j)'
         /\ \A n \in Nat : Behind(j, n) => Behind(j, n)'
<1> DEFINE f == inflight[j]  q == queue[j]  m == Len(f)  l == Len(q)  e == Head(f)
<1>1. /\ f # <<>> /\ inflight'[j] = Tail(f) /\ queue'[j] = Append(q, e)
      /\ UNCHANGED <<lastEvent, scheduled, pc>>
  BY DEF RunCallback, TypeOK, semVars
<1>2. /\ e = f[1] /\ 1 \in 1..m /\ m \in Nat /\ e \in 1..MaxProgress
      /\ Len(Tail(f)) = m - 1 /\ \A i \in 1..(m - 1) : Tail(f)[i] = f[i + 1]
  BY <1>1, EventTypes, HeadTailProperties, EmptySeq
<1>3. /\ l \in Nat /\ Len(Append(q, e)) = l + 1
      /\ \A i \in 1..l : Append(q, e)[i] = q[i]
      /\ Append(q, e)[l + 1] = e
  <2>1. q \in Seq(0..MaxProgress) /\ e \in 0..MaxProgress
    BY <1>2, EventTypes
  <2> QED
    BY <2>1, AppendProperties, LenProperties
<1>4. \A i \in 1..(l + 1) : i \in 1..l \/ i = l + 1
  BY <1>3
<1>5. \A i \in 1..(m - 1) : i \in 1..m /\ i + 1 \in 1..m /\ 1 < i + 1
  BY <1>2
<1>6. e # Terminal /\ \A i \in 1..l : q[i] < e /\ q[i] # Terminal
  <2>1. \A i \in 1..l : q[i] < e
    BY <1>2 DEF Flow
  <2>2. pc[j] # "finished"
    BY <1>1 DEF Flow
  <2> QED
    BY <1>2, <2>1, <2>2 DEF Flow, Terminal
<1>7. Flow(j)'
  <2>1. \A k \in 1..(m - 1) : inflight'[j][k] <= scheduled'[j] /\ e < inflight'[j][k]
    BY <1>1, <1>2, <1>5 DEF Flow
  <2>2. \A i, k \in 1..(m - 1) : i < k => inflight'[j][i] < inflight'[j][k]
    BY <1>1, <1>2, <1>5 DEF Flow
  <2>3. \A i \in 1..(l + 1) : queue'[j][i] <= scheduled'[j] /\ queue'[j][i] # Terminal
    BY <1>1, <1>2, <1>3, <1>4, <1>6 DEF Flow
  <2>4. \A i \in 1..(l + 1), k \in 1..(m - 1) : queue'[j][i] < inflight'[j][k]
    BY <1>1, <1>2, <1>3, <1>4, <1>5, <2>1 DEF Flow
  <2>5. \A i, k \in 1..(l + 1) : i < k => queue'[j][i] < queue'[j][k]
    <3> SUFFICES ASSUME NEW i \in 1..(l + 1), NEW k \in 1..(l + 1), i < k
                 PROVE  queue'[j][i] < queue'[j][k]
      OBVIOUS
    <3>1. i \in 1..l
      BY <1>3
    <3>2. CASE k = l + 1
      BY <1>1, <1>3, <1>6, <3>1, <3>2
    <3>3. CASE k \in 1..l
      BY <1>1, <1>3, <1>6, <3>1, <3>3 DEF Flow
    <3> QED
      BY <1>4, <3>2, <3>3
  <2>6. pc[j] # "finished"
    BY <1>1 DEF Flow
  <2> QED
    BY <1>1, <1>2, <1>3, <2>1, <2>2, <2>3, <2>4, <2>5, <2>6 DEF Flow
<1>8. ASSUME NEW n \in Nat, Behind(j, n) PROVE Behind(j, n)'
  <2>1. n <= scheduled[j] /\ n < e
    BY <1>2, <1>8 DEF Behind
  <2>2. \A i \in 1..(l + 1) : queue'[j][i] # Terminal => n < queue'[j][i]
    BY <1>1, <1>3, <1>4, <1>8, <2>1 DEF Behind
  <2>3. \A k \in 1..(m - 1) : n < inflight'[j][k]
    BY <1>1, <1>2, <1>5, <1>8 DEF Behind
  <2> QED
    BY <1>1, <1>2, <1>3, <2>1, <2>2, <2>3 DEF Behind
<1> QED
  BY <1>7, <1>8

(* The runner ends: the marker, after everything else.                     *)
LEMMA EndFlow ==
  ASSUME TypeOK, NEW j \in Job, Flow(j), NEW st, EndJob(j, st),
         pc[j] # "finished", pc'[j] = "finished"
  PROVE  /\ Flow(j)'
         /\ \A n \in Nat : Behind(j, n) => Behind(j, n)'
<1> DEFINE q == queue[j]  l == Len(q)
<1>1. /\ inflight[j] = <<>> /\ queue'[j] = Append(q, Terminal)
      /\ UNCHANGED <<lastEvent, scheduled, inflight>>
  BY DEF EndJob, TypeOK, eventVars
<1>2. /\ l \in Nat /\ Len(Append(q, Terminal)) = l + 1
      /\ \A i \in 1..l : Append(q, Terminal)[i] = q[i]
      /\ Append(q, Terminal)[l + 1] = Terminal
  <2>1. q \in Seq(0..MaxProgress) /\ Terminal \in 0..MaxProgress
    BY EventTypes DEF Terminal
  <2> QED
    BY <2>1, AppendProperties, LenProperties
<1>3. \A i \in 1..(l + 1) : i \in 1..l \/ i = l + 1
  BY <1>2
<1>4. \A i \in 1..l : q[i] # Terminal
  BY DEF Flow
<1>5. Flow(j)'
  <2>1. \A i \in 1..(l + 1) : queue'[j][i] <= scheduled'[j]
    BY <1>1, <1>2, <1>3, EventTypes DEF Flow, Terminal
  <2>2. \A i, k \in 1..(l + 1) :
          i < k /\ queue'[j][k] # Terminal => queue'[j][i] < queue'[j][k]
    <3> SUFFICES ASSUME NEW i \in 1..(l + 1), NEW k \in 1..(l + 1), i < k,
                        queue'[j][k] # Terminal
                 PROVE  queue'[j][i] < queue'[j][k]
      OBVIOUS
    <3>1. k \in 1..l /\ i \in 1..l
      BY <1>1, <1>2, <1>3
    <3> QED
      BY <1>1, <1>2, <1>4, <3>1 DEF Flow
  <2>3. \A i \in 1..(l + 1) : queue'[j][i] = Terminal => i = l + 1
    BY <1>1, <1>2, <1>3, <1>4
  <2> QED
    BY <1>1, <1>2, <2>1, <2>2, <2>3 DEF Flow
<1>6. \A n \in Nat : Behind(j, n) => Behind(j, n)'
  BY <1>1, <1>2, <1>3 DEF Behind
<1> QED
  BY <1>5, <1>6

(* A reader takes the oldest event of the queue: whoever was behind still  *)
(* is, the reader himself behind the event he took, which is newer than    *)
(* all he had.                                                             *)
LEMMA TakeFlow ==
  ASSUME TypeOK, NEW s \in Stream, NEW j \in Job, sjob[s] = j, Flow(j), Take(s),
         UNCHANGED <<lastEvent, scheduled, inflight, pc>>
  PROVE  /\ Flow(j)'
         /\ \A n \in Nat : Behind(j, n) => Behind(j, n)'
         /\ Head(queue[j]) = Terminal => pc[j] = "finished"
         /\ Head(queue[j]) # Terminal =>
              /\ \A n \in Nat : n = Head(queue[j]) => Behind(j, n)'
              /\ \A n \in Nat : Behind(j, n) => n < Head(queue[j])
<1> DEFINE q == queue[j]  l == Len(q)  e == Head(q)
<1>1. q # <<>> /\ queue'[j] = Tail(q)
  BY DEF Take, TypeOK
<1>2. /\ e = q[1] /\ 1 \in 1..l /\ l \in Nat /\ e \in 0..MaxProgress
      /\ Len(Tail(q)) = l - 1 /\ \A i \in 1..(l - 1) : Tail(q)[i] = q[i + 1]
  BY <1>1, EventTypes, HeadTailProperties, EmptySeq
<1>3. \A i \in 1..(l - 1) : i + 1 \in 1..l /\ 1 < i + 1
  BY <1>2
<1>4. Flow(j)'
  <2>1. \A i \in 1..(l - 1) : queue'[j][i] = q[i + 1] /\ i + 1 \in 1..l
    BY <1>1, <1>2, <1>3
  <2>2. \A i \in 1..(l - 1) : queue'[j][i] = Terminal => i = l - 1 /\ pc[j] = "finished"
    BY <1>2, <2>1 DEF Flow
  <2>3. \A i, k \in 1..(l - 1) :
          i < k /\ queue'[j][k] # Terminal => queue'[j][i] < queue'[j][k]
    BY <1>2, <2>1 DEF Flow
  <2>4. Len(queue'[j]) = l - 1 /\ UNCHANGED <<lastEvent[j], scheduled[j], inflight[j], pc[j]>>
    BY <1>1, <1>2
  <2>5. \A i \in 1..(l - 1) : queue'[j][i] <= scheduled[j]
    BY <2>1 DEF Flow
  <2>6. \A i \in 1..(l - 1), k \in 1..Len(inflight[j]) : queue'[j][i] < inflight[j][k]
    BY <2>1 DEF Flow
  <2>7. /\ scheduled[j] <= lastEvent[j] /\ lastEvent[j] <= scheduled[j] + 1
        /\ \A k \in 1..Len(inflight[j]) : inflight[j][k] <= scheduled[j]
        /\ \A i, k \in 1..Len(inflight[j]) : i < k => inflight[j][i] < inflight[j][k]
        /\ pc[j] \in {"idle", "finished"} => inflight[j] = <<>>
    BY DEF Flow
  <2>8. \A i \in 1..Len(queue'[j]) :
          /\ queue'[j][i] <= scheduled'[j]
          /\ \A k \in 1..Len(inflight'[j]) : queue'[j][i] < inflight'[j][k]
          /\ queue'[j][i] = Terminal => i = Len(queue'[j]) /\ pc'[j] = "finished"
    BY <2>2, <2>4, <2>5, <2>6
  <2>9. \A i, k \in 1..Len(queue'[j]) :
          i < k /\ queue'[j][k] # Terminal => queue'[j][i] < queue'[j][k]
    BY <2>3, <2>4
  <2>10. /\ scheduled'[j] <= lastEvent'[j] /\ lastEvent'[j] <= scheduled'[j] + 1
         /\ \A k \in 1..Len(inflight'[j]) : inflight'[j][k] <= scheduled'[j]
         /\ \A i, k \in 1..Len(inflight'[j]) : i < k => inflight'[j][i] < inflight'[j][k]
         /\ pc'[j] \in {"idle", "finished"} => inflight'[j] = <<>>
    BY <2>4, <2>7
  <2> QED
    BY <2>8, <2>9, <2>10, Zenon DEF Flow
<1>5. ASSUME NEW n \in Nat, Behind(j, n) PROVE Behind(j, n)'
  <2>1. UNCHANGED <<scheduled[j], inflight[j]>>
    OBVIOUS
  <2>2. Len(queue'[j]) = l - 1
    BY <1>1, <1>2
  <2>3. ASSUME NEW i \in 1..(l - 1), queue'[j][i] # Terminal PROVE n < queue'[j][i]
    <3>1. queue'[j][i] = q[i + 1] /\ i + 1 \in 1..l
      BY <1>1, <1>2, <1>3
    <3> QED
      BY <1>5, <2>3, <3>1 DEF Behind
  <2> QED
    BY <1>5, <2>1, <2>2, <2>3 DEF Behind
<1>6. e = Terminal => pc[j] = "finished"
  BY <1>2 DEF Flow
<1>7. ASSUME e # Terminal
      PROVE  /\ \A n \in Nat : n = e => Behind(j, n)'
             /\ \A n \in Nat : Behind(j, n) => n < e
  <2>1. \A n \in Nat : Behind(j, n) => n < e
    BY <1>2, <1>7 DEF Behind
  <2>2. \A i \in 1..(l - 1) : queue'[j][i] # Terminal => e < queue'[j][i]
    <3>1. \A i \in 1..(l - 1) : queue'[j][i] = q[i + 1]
      BY <1>1, <1>2
    <3>2. \A k \in 1..l : 1 < k /\ q[k] # Terminal => q[1] < q[k]
      BY <1>2 DEF Flow
    <3> QED
      BY <1>2, <1>3, <3>1, <3>2
  <2>3. e <= scheduled[j] /\ \A k \in 1..Len(inflight[j]) : e < inflight[j][k]
    BY <1>2 DEF Flow
  <2> QED
    BY <1>1, <1>2, <2>1, <2>2, <2>3 DEF Behind
<1> QED
  BY <1>4, <1>5, <1>6, <1>7
-----------------------------------------------------------------------------
(* Whatever happens, every job's events keep their order, and a reader     *)
(* stays behind what he has not read.                                      *)
LEMMA ChannelStep ==
  ASSUME LifeInv, Next, NEW j \in Job, Flow(j)
  PROVE  Flow(j)' /\ \A n \in Nat : Behind(j, n) => Behind(j, n)'
<1> DEFINE Moved == \/ pc'[j] = pc[j]
                    \/ pc[j] # "finished" /\ pc'[j] \notin {"idle", "finished"}
                    \/ pc[j] = "idle" /\ pc'[j] = "finished"
           Goal == Flow(j)' /\ \A n \in Nat : Behind(j, n) => Behind(j, n)'
<1>0. /\ TypeOK /\ SlotInv /\ JobLife(j) /\ j \in Actor
      /\ Job \subseteq Actor /\ Sync \subseteq Actor
  BY DEF LifeInv, SlotInv, Actor
<1>k. ASSUME lastEvent'[j] = lastEvent[j], scheduled'[j] = scheduled[j],
             inflight'[j] = inflight[j], queue'[j] = queue[j], Moved
      PROVE  Goal
  <2>1. Flow(j)'
    BY <1>k, FlowKept
  <2>2. \A n \in Nat : Behind(j, n) => Behind(j, n)'
    BY <1>k DEF Behind
  <2> QED
    BY <2>1, <2>2
<1>1. ASSUME NEW i \in Job, NEW r \in Requests,
             SubmitSample(i, r) \/ SubmitJob(i, r)
      PROVE  Goal
  <2>1. Moved
    BY <1>0, <1>1 DEF SubmitSample, SubmitJob, TypeOK
  <2> QED
    BY <1>1, <1>k, <2>1 DEF SubmitSample, SubmitJob, eventVars
<1>2. ASSUME NEW i \in Job, JobStep(i) PROVE Goal
  <2>1. CASE StartJob(i) \/ ResumeJob(i)
    <3>1. Moved
      BY <1>0, <2>1 DEF StartJob, ResumeJob, Enter, Queue, Resume, TypeOK
    <3> QED
      BY <1>k, <2>1, <3>1 DEF StartJob, ResumeJob, eventVars
  <2>2. CASE i # j /\ (RelayReplay(i) \/ RelaySchedule(i) \/ RunCallback(i))
    BY <1>0, <1>k, <2>2
    DEF RelayReplay, RelaySchedule, RunCallback, TypeOK, semVars
  <2>3. CASE i = j /\ (RelayReplay(i) \/ RelaySchedule(i) \/ RunCallback(i))
    BY <1>0, <2>3, ReplayFlow, ScheduleFlow, CallbackFlow
  <2>4. CASE FinishJob(i) \/ FailJob(i)
    <3>1. PICK st \in Done : EndJob(i, st)
      BY <2>4 DEF FinishJob, FailJob, Done
    <3>2. pc[i] \in Holding /\ i \in Actor
      BY <1>0, <2>4 DEF FinishJob, FailJob, Holding
    <3>3. /\ pc'[i] = "finished"
          /\ \A b \in Actor \ {i} :
               pc'[b] = pc[b] \/ (pc[b] = "waiting" /\ pc'[b] = "granted")
      BY <1>0, <3>1, <3>2, ReleaseMoves DEF EndJob
    <3>4. CASE i = j
      BY <1>0, <3>1, <3>2, <3>3, <3>4, EndFlow DEF Holding
    <3>5. CASE i # j
      <4>1. Moved
        BY <1>0, <3>3, <3>5
      <4> QED
        BY <1>0, <1>k, <3>1, <3>5, <4>1 DEF EndJob, TypeOK, eventVars
    <3> QED
      BY <3>4, <3>5
  <2> QED
    BY <1>2, <2>1, <2>2, <2>3, <2>4 DEF JobStep
<1>3. ASSUME NEW a \in Actor, EngineReturn(a) PROVE Goal
  <2>1. Moved
    BY <1>0, <1>3 DEF EngineReturn, TypeOK
  <2> QED
    BY <1>3, <1>k, <2>1 DEF EngineReturn, eventVars
<1>4. ASSUME NEW a \in Sync, StartSync(a) \/ ResumeSync(a) \/ EndSync(a) PROVE Goal
  <2>1. Moved
    <3>1. a \in Actor /\ a # j
      BY <1>0, JobsAssumption
    <3>2. CASE StartSync(a) \/ ResumeSync(a)
      BY <1>0, <3>1, <3>2 DEF StartSync, ResumeSync, Enter, Queue, Resume, TypeOK
    <3>3. CASE EndSync(a)
      BY <1>0, <3>1, <3>3, ReleaseMoves DEF EndSync, Holding
    <3> QED
      BY <1>4, <3>2, <3>3
  <2> QED
    BY <1>4, <1>k, <2>1 DEF StartSync, ResumeSync, EndSync, eventVars
<1>5. ASSUME NEW s \in Stream, NEW i \in Job, Connect(s, i) PROVE Goal
  BY <1>5, <1>k DEF Connect, eventVars, semVars
<1>6. ASSUME NEW s \in Stream, StreamStep(s) PROVE Goal
  <2>1. UNCHANGED <<lastEvent, scheduled, inflight, pc>>
    BY <1>6 DEF StreamStep, eventVars, semVars
  <2>2. CASE Take(s) /\ sjob[s] = j
    BY <1>0, <2>1, <2>2, TakeFlow
  <2>3. CASE Take(s) /\ sjob[s] # j
    BY <1>0, <1>k, <2>1, <2>3 DEF Take, TypeOK
  <2>4. CASE ~Take(s)
    BY <1>6, <1>k, <2>1, <2>4 DEF StreamStep, Advance
  <2> QED
    BY <2>2, <2>3, <2>4
<1>7. ASSUME NEW s \in Stream, Disconnect(s) PROVE Goal
  BY <1>7, <1>k DEF Disconnect, eventVars, semVars
<1>8. CASE Sweep \/ Tick \/ Quiet
  BY <1>8, <1>k DEF Sweep, Tick, Quiet, vars, eventVars, semVars
<1> QED
  BY <1>1, <1>2, <1>3, <1>4, <1>5, <1>6, <1>7, <1>8 DEF Next
-----------------------------------------------------------------------------
(* The result event of a settled job tells how it ended, and has a body as *)
(* long as the job is kept.                                                *)
LEMMA ResultIsTrue ==
  ASSUME LifeInv, NEW s \in Stream, sjob[s] \in Job, jobState[sjob[s]] \in Done,
         SendResult(s), UNCHANGED <<jobVars, sjob>>
  PROVE  Outcome(s)'
<1> DEFINE j == sjob[s]
<1>1. JobLife(j) /\ pc[j] = "finished"
  BY DEF LifeInv, JobLife, Unfinished, Live, Done
<1>2. final'[s] = SseResult(j)
  BY DEF LifeInv, SlotInv, TypeOK, SendResult
<1>3. SseResult(j).state = jobState[j]
  BY DEF SseResult
<1>4. SseResult(j).body = "none" => ~Available(j)
  BY DEF SseResult, Payload
<1>5. jobState[j] = "done" /\ ~Available(j) => j \notin registry
  BY <1>1 DEF JobLife, Available
<1> QED
  BY <1>2, <1>3, <1>4, <1>5 DEF Outcome, jobVars

(* A reader's step: what it drains is newer than what it had, and its last *)
(* word is the job's.                                                      *)
LEMMA ReaderStep ==
  ASSUME LifeInv, Next, \A j \in Job : Flow(j),
         NEW s \in Stream, Reading(s), Outcome(s)
  PROVE  /\ Reading(s)' /\ Outcome(s)'
         /\ drained'[s] # drained[s] => drained[s] < drained'[s]
<1> DEFINE Goal == /\ Reading(s)' /\ Outcome(s)'
                   /\ drained'[s] # drained[s] => drained[s] < drained'[s]
           Here == spc'[s] = spc[s] /\ sjob'[s] = sjob[s]
                   /\ drained'[s] = drained[s] /\ final'[s] = final[s]
<1>0. /\ TypeOK /\ SlotInv /\ drained[s] \in Nat /\ \A j \in Job : JobLife(j)
      /\ \A j \in Job, n \in Nat : Behind(j, n) => Behind(j, n)'
  <2>1. TypeOK /\ drained[s] \in Nat
    BY DEF LifeInv, SlotInv, TypeOK
  <2> QED
    BY <2>1, ChannelStep DEF LifeInv
<1>1. PICK d \in Nat : d = drained[s]
  BY <1>0
<1>2. spc[s] # "idle" => sjob[s] \in Job /\ Behind(sjob[s], d)
  BY <1>1 DEF Reading
<1>h. ASSUME Here PROVE Goal
  <2>1. Reading(s)'
    <3>1. CASE spc[s] = "idle"
      BY <1>h, <3>1 DEF Reading
    <3>2. CASE spc[s] # "idle"
      <4>1. PICK j \in Job : j = sjob[s] /\ Behind(j, d)
        BY <1>2, <3>2
      <4>2. Behind(j, d)'
        BY <1>0, <4>1
      <4> QED
        BY <1>1, <1>h, <3>2, <4>1, <4>2 DEF Reading, Behind
    <3> QED
      BY <3>1, <3>2
  <2>2. Outcome(s)'
    <3> SUFFICES ASSUME spc[s] = "closed" PROVE Outcome(s)'
      BY <1>h DEF Outcome
    <3>1. PICK j \in Job : j = sjob[s]
      BY <1>2
    <3>2. /\ jobState[j] \in Done
          /\ jobState'[j] = jobState[j]
          /\ j \notin registry => j \notin registry'
      BY <3>1, SettledStands DEF Outcome
    <3> QED
      BY <1>h, <3>1, <3>2 DEF Outcome
  <2> QED
    BY <1>h, <2>1, <2>2
<1>3. ASSUME NEW t \in Stream, NEW i \in Job, Connect(t, i) PROVE Goal
  <2>1. CASE t # s
    <3>1. Here
      BY <1>0, <1>3, <2>1 DEF Connect, TypeOK
    <3> QED
      BY <1>h, <3>1
  <2>2. CASE t = s
    <3>1. /\ spc'[s] = "replay" /\ sjob'[s] = i /\ drained'[s] = 0 /\ drained[s] = 0
          /\ UNCHANGED <<scheduled, inflight, queue>>
      BY <1>0, <1>3, <2>2 DEF Connect, TypeOK, Reading, eventVars
    <3>2. Behind(i, 0)
      BY <1>0, EventTypes DEF Behind, Terminal
    <3> QED
      BY <3>1, <3>2 DEF Reading, Outcome, Behind
  <2> QED
    BY <2>1, <2>2
<1>4. ASSUME NEW t \in Stream, StreamStep(t) PROVE Goal
  <2>1. CASE t # s
    <3>1. Here
      BY <1>0, <1>4, <2>1
      DEF StreamStep, Advance, Take, SendResult, SendProgress, TypeOK
    <3> QED
      BY <1>h, <3>1
  <2>2. CASE t = s
    <3>1. PICK j \in Job : j = sjob[s] /\ Behind(j, d) /\ spc[s] # "idle"
      BY <1>2, <1>4, <2>2 DEF StreamStep
    <3>2. /\ UNCHANGED <<jobVars, sjob, lastEvent, scheduled, inflight, pc>>
          /\ Behind(j, d)' /\ Flow(j)
      BY <1>0, <1>4, <3>1 DEF StreamStep, eventVars, semVars
    <3>3. CASE SendResult(s) /\ jobState[j] \in Done
      <4>1. Outcome(s)'
        BY <3>1, <3>2, <3>3, ResultIsTrue
      <4>2. spc'[s] = "closed" /\ drained'[s] = d
        BY <1>0, <1>1, <3>3 DEF SendResult, TypeOK
      <4> QED
        BY <1>1, <3>1, <3>2, <4>1, <4>2 DEF Reading, Behind
    <3>4. CASE Take(s) /\ Head(queue[j]) # Terminal
      <4>1. SendProgress(s, Head(queue[j]))
        BY <3>1, <3>4 DEF Take
      <4>2. PICK e \in Nat : e = Head(queue[j])
        <5>1. queue[j] # <<>>
          BY <3>1, <3>4 DEF Take
        <5> QED
          BY <1>0, <5>1, EventTypes, HeadTailProperties
      <4>3. Behind(j, e)' /\ d < e
        BY <1>0, <3>1, <3>2, <3>4, <4>2, TakeFlow
      <4>4. drained'[s] = e /\ spc'[s] = "loop" /\ sjob'[s] = j
        BY <1>0, <3>1, <3>2, <4>1, <4>2 DEF SendProgress, TypeOK
      <4> QED
        BY <1>1, <4>3, <4>4 DEF Reading, Behind, Outcome
    <3>5. CASE Take(s) /\ Head(queue[j]) = Terminal
      <4>1. SendResult(s) /\ pc[j] = "finished"
        BY <1>0, <3>1, <3>2, <3>5, TakeFlow DEF Take
      <4>2. jobState[j] \in Done
        BY <1>0, <4>1 DEF JobLife
      <4> QED
        BY <3>3, <4>1, <4>2
    <3>6. CASE ~Take(s) /\ ~(SendResult(s) /\ jobState[j] \in Done)
      <4>1. drained' = drained /\ \E p \in {"loop", "getting"} : spc' = [spc EXCEPT ![s] = p]
        BY <1>4, <2>2, <3>1, <3>6 DEF StreamStep, Advance
      <4>2. drained'[s] = d /\ sjob'[s] = j /\ spc'[s] \in {"loop", "getting"}
        BY <1>0, <1>1, <3>1, <3>2, <4>1 DEF TypeOK
      <4> QED
        BY <1>1, <3>2, <4>2 DEF Reading, Behind, Outcome
    <3> QED
      BY <3>3, <3>4, <3>5, <3>6
  <2> QED
    BY <2>1, <2>2
<1>5. ASSUME NEW t \in Stream, Disconnect(t) PROVE Goal
  <2>1. CASE t # s
    BY <1>0, <1>5, <1>h, <2>1 DEF Disconnect, TypeOK
  <2>2. CASE t = s
    <3>1. /\ spc[s] # "idle" /\ spc'[s] = "gone" /\ UNCHANGED <<sjob, drained>>
      BY <1>0, <1>5, <2>2 DEF Disconnect, Open, TypeOK
    <3>2. PICK j \in Job : j = sjob[s] /\ Behind(j, d)
      BY <1>2, <3>1
    <3>3. Behind(j, d)'
      BY <1>0, <3>2
    <3> QED
      BY <1>1, <3>1, <3>2, <3>3 DEF Reading, Behind, Outcome
  <2> QED
    BY <2>1, <2>2
<1>6. ASSUME UNCHANGED streamVars PROVE Goal
  BY <1>6, <1>h DEF streamVars
<1>7. ASSUME NEW i \in Job, JobStep(i) PROVE Goal
  BY <1>6, <1>7 DEF JobStep, StartJob, ResumeJob, RelayReplay, RelaySchedule,
                    RunCallback, FinishJob, FailJob, EndJob
<1>8. ASSUME NEW i \in Job, NEW r \in Requests, SubmitSample(i, r) \/ SubmitJob(i, r)
      PROVE  Goal
  BY <1>6, <1>8 DEF SubmitSample, SubmitJob
<1>9. ASSUME NEW a \in Sync, StartSync(a) \/ ResumeSync(a) \/ EndSync(a) PROVE Goal
  BY <1>6, <1>9 DEF StartSync, ResumeSync, EndSync
<1>10. ASSUME NEW a \in Actor, EngineReturn(a) PROVE Goal
  BY <1>6, <1>10 DEF EngineReturn
<1>11. CASE Sweep \/ Tick \/ Quiet
  BY <1>6, <1>11 DEF Sweep, Tick, Quiet, vars
<1> QED
  BY <1>3, <1>4, <1>5, <1>7, <1>8, <1>9, <1>10, <1>11 DEF Next

(* A success row is written by a run that ends well, and stands for it.    *)
LEMMA CountStep ==
  ASSUME LifeInv, Next, CountedIsServed
  PROVE  CountedIsServed'
<1>0. \A j \in Job : jobState[j] = "done" => jobState'[j] = "done"
  BY SettledStands DEF Done
<1>1. \A j \in counted' \cap Job : j \in counted \/ jobState'[j] = "done"
  <2>1. ASSUME NEW i \in Job, FinishJob(i)
        PROVE  \A j \in counted' \cap Job : j \in counted \/ jobState'[j] = "done"
    BY <2>1 DEF FinishJob, EndJob, LifeInv, SlotInv, TypeOK
  <2>2. ASSUME NEW a \in Sync, EndSync(a)
        PROVE  \A j \in counted' \cap Job : j \in counted
    BY <2>2, JobsAssumption DEF EndSync
  <2>3. ASSUME ~\E i \in Job : FinishJob(i), ~\E a \in Sync : EndSync(a)
        PROVE  counted' = counted
    BY <2>3 DEF Next, SubmitSample, SubmitJob, JobStep, StartJob, ResumeJob,
                RelayReplay, RelaySchedule, RunCallback, FailJob, EngineReturn,
                StartSync, ResumeSync, Connect, StreamStep, Disconnect, Sweep,
                Tick, Quiet, vars
  <2> QED
    BY <2>1, <2>2, <2>3
<1> QED
  BY <1>0, <1>1 DEF CountedIsServed
-----------------------------------------------------------------------------
LEMMA StreamInvariant == Spec => [](LifeInv /\ StreamInv)
<1>1. Init => StreamInv
  <2> SUFFICES ASSUME Init PROVE StreamInv
    OBVIOUS
  <2>1. \A j \in Job : Flow(j)
    <3> SUFFICES ASSUME NEW j \in Job PROVE Flow(j)
      OBVIOUS
    <3>1. Len(queue[j]) = 0 /\ Len(inflight[j]) = 0 /\ inflight[j] = <<>>
      BY DEF Init
    <3> QED
      BY <3>1 DEF Init, Flow
  <2>2. \A s \in Stream : Reading(s) /\ Outcome(s)
    BY DEF Init, Reading, Outcome
  <2> QED
    BY <2>1, <2>2 DEF Init, StreamInv, CountedIsServed
<1>2. LifeInv /\ StreamInv /\ [Next]_vars => StreamInv'
  <2>1. LifeInv /\ StreamInv /\ Next => StreamInv'
    BY ChannelStep, ReaderStep, CountStep DEF StreamInv
  <2>2. ASSUME StreamInv, UNCHANGED vars
        PROVE  StreamInv'
    <3>1. UNCHANGED <<registry, jobState, lastEvent, scheduled, inflight, queue, pc,
                      counted, spc, sjob, drained, final>>
      BY <2>2 DEF vars, jobVars, eventVars, semVars, streamVars
    <3>2. \A j \in Job : Flow(j)'
      BY <2>2, <3>1 DEF StreamInv, Flow
    <3>3. \A s \in Stream : Reading(s)' /\ Outcome(s)'
      BY <2>2, <3>1 DEF StreamInv, Reading, Behind, Outcome
    <3>4. CountedIsServed'
      BY <2>2, <3>1 DEF StreamInv, CountedIsServed
    <3> QED
      BY <3>2, <3>3, <3>4 DEF StreamInv
  <2> QED
    BY <2>1, <2>2
<1> QED
  BY <1>1, <1>2, LifeInvariant, PTL DEF Spec

(* For any number of jobs, readers and events: the queue of a job is in    *)
(* the order the engine made its events, and the marker ends it.           *)
THEOREM MarkerComesLast == Spec => []TerminalLast
<1>1. LifeInv /\ StreamInv => TerminalLast
  <2> SUFFICES ASSUME LifeInv, StreamInv, NEW j \in Job
               PROVE  /\ \A i \in 1..Len(queue[j]) : queue[j][i] = Terminal =>
                            /\ i = Len(queue[j])
                            /\ jobState[j] \in Done
                            /\ inflight[j] = <<>>
                      /\ \A i, k \in 1..Len(queue[j]) :
                            i < k /\ queue[j][k] # Terminal => queue[j][i] < queue[j][k]
    BY DEF TerminalLast
  <2> QED
    BY DEF StreamInv, Flow, LifeInv, JobLife
<1> QED
  BY <1>1, StreamInvariant, PTL

(* The last event of a stream tells how its job ended, with its body as    *)
(* long as the job is kept, however readers, runner and sweeper interleave.*)
THEOREM FinalEventsAreTrue == Spec => []FinalEventTruthful
<1>1. StreamInv => FinalEventTruthful
  BY DEF StreamInv, Outcome, FinalEventTruthful
<1> QED
  BY <1>1, StreamInvariant, PTL

(* A failed job is never counted.                                          *)
THEOREM CountedAreServed == Spec => []CountedIsServed
<1>1. StreamInv => CountedIsServed
  BY DEF StreamInv
<1> QED
  BY <1>1, StreamInvariant, PTL

-----------------------------------------------------------------------------
(* Flow only says that the events are in order.  That none is missing:     *)
(* where d of a job's events have been taken, the queue goes on with       *)
(* d + 1, and what is in flight goes on where the queue ends, up to the    *)
(* last one the engine has handed over.                                    *)
Order(j, d) ==
    /\ \A i \in 1..Len(queue[j]) : queue[j][i] # Terminal => queue[j][i] = d + i
    /\ pc[j] # "finished" =>
         /\ \A k \in 1..Len(inflight[j]) : inflight[j][k] = d + Len(queue[j]) + k
         /\ scheduled[j] = d + Len(queue[j]) + Len(inflight[j])

(* The readers of j have taken its events up to d.                         *)
Taken(j, d) ==
    /\ \A t \in Readers(j) : drained[t] <= d
    /\ d = 0 \/ \E t \in Readers(j) : drained[t] = d

Whole(j) == \E d \in Nat : Order(j, d) /\ Taken(j, d)

(* A stream that has not begun has sent nothing.                           *)
Fresh(s) ==
    /\ spc[s] = "idle" => sjob[s] = NoJob
    /\ spc[s] \in {"idle", "replay"} => replayed[s] = 0 /\ drained[s] = 0

OrderInv ==
    /\ \A j \in Job : Whole(j)
    /\ \A s \in Stream : Fresh(s)

(* s takes progress of j off the queue.                                    *)
Takes(s, j) ==
    StreamStep(s) /\ sjob[s] = j /\ Take(s) /\ Head(queue[j]) # Terminal
-----------------------------------------------------------------------------
(* Order of a job whose events stay where they are.                        *)
LEMMA OrderKept ==
  ASSUME NEW j \in Job, NEW d \in Nat, Order(j, d),
         scheduled'[j] = scheduled[j],
         inflight'[j] = inflight[j], queue'[j] = queue[j],
         pc[j] = "finished" => pc'[j] = "finished"
  PROVE  Order(j, d)'
  BY DEF Order

LEMMA ScheduleOrder ==
  ASSUME TypeOK, NEW j \in Job, Flow(j), NEW d \in Nat, Order(j, d), RelaySchedule(j)
  PROVE  Order(j, d)'
<1> DEFINE f == inflight[j]  e == lastEvent[j]  m == Len(f)
<1>1. /\ scheduled'[j] = scheduled[j] + 1 /\ inflight'[j] = Append(f, e)
      /\ pc[j] = "engine" /\ UNCHANGED <<queue, pc>>
  BY DEF RelaySchedule, TypeOK, semVars
<1>2. /\ scheduled[j] \in Nat /\ lastEvent[j] \in Nat
      /\ f \in Seq(1..MaxProgress) /\ m \in Nat /\ Len(queue[j]) \in Nat
  BY EventTypes
<1>3. e = scheduled[j] + 1
  BY <1>2 DEF Flow, RelaySchedule
<1>4. e \in 1..MaxProgress
  BY <1>2, <1>3 DEF TypeOK
<1>5. /\ Len(Append(f, e)) = m + 1
      /\ \A i \in 1..m : Append(f, e)[i] = f[i]
      /\ Append(f, e)[m + 1] = e
  BY <1>2, <1>4, AppendProperties
<1>6. /\ scheduled[j] = d + Len(queue[j]) + m
      /\ \A k \in 1..m : f[k] = d + Len(queue[j]) + k
  BY <1>1 DEF Order
<1>7. \A k \in 1..(m + 1) : k \in 1..m \/ k = m + 1
  BY <1>2
<1>8. \A k \in 1..(m + 1) : inflight'[j][k] = d + Len(queue[j]) + k
  <2>1. \A k \in 1..m : inflight'[j][k] = d + Len(queue[j]) + k
    BY <1>1, <1>5, <1>6
  <2>2. inflight'[j][m + 1] = scheduled[j] + 1
    BY <1>1, <1>3, <1>5
  <2>3. scheduled[j] + 1 = d + Len(queue[j]) + (m + 1)
    <3>1. PICK a \in Nat, b \in Nat : a = Len(queue[j]) /\ b = m
      BY <1>2
    <3>2. scheduled[j] = d + a + b
      BY <1>6, <3>1
    <3>3. (d + a + b) + 1 = d + a + (b + 1)
      OBVIOUS
    <3> QED
      BY <3>1, <3>2, <3>3
  <2> QED
    BY <1>7, <2>1, <2>2, <2>3
<1>9. scheduled'[j] = d + Len(queue[j]) + (m + 1)
  <2>1. PICK a \in Nat, b \in Nat : a = Len(queue[j]) /\ b = m
    BY <1>2
  <2>2. scheduled[j] = d + a + b /\ scheduled'[j] = scheduled[j] + 1
    BY <1>1, <1>6, <2>1
  <2>3. (d + a + b) + 1 = d + a + (b + 1)
    OBVIOUS
  <2> QED
    BY <2>1, <2>2, <2>3
<1> QED
  BY <1>1, <1>5, <1>8, <1>9 DEF Order

LEMMA CallbackOrder ==
  ASSUME TypeOK, NEW j \in Job, Flow(j), NEW d \in Nat, Order(j, d), RunCallback(j)
  PROVE  Order(j, d)'
<1> DEFINE f == inflight[j]  q == queue[j]  m == Len(f)  l == Len(q)  e == Head(f)
<1>1. /\ f # <<>> /\ inflight'[j] = Tail(f) /\ queue'[j] = Append(q, e)
      /\ UNCHANGED <<scheduled, pc>>
  BY DEF RunCallback, TypeOK, semVars
<1>2. pc[j] # "finished"
  BY <1>1 DEF Flow
<1>3. /\ f \in Seq(1..MaxProgress) /\ q \in Seq(0..MaxProgress)
      /\ m \in Nat /\ l \in Nat
  BY EventTypes
<1>4. /\ e = f[1] /\ 1 \in 1..m /\ e \in 1..MaxProgress
      /\ Len(Tail(f)) = m - 1 /\ \A i \in 1..(m - 1) : Tail(f)[i] = f[i + 1]
  BY <1>1, EventTypes, HeadTailProperties, EmptySeq
<1>5. /\ Len(Append(q, e)) = l + 1
      /\ \A i \in 1..l : Append(q, e)[i] = q[i]
      /\ Append(q, e)[l + 1] = e
  BY <1>3, <1>4, AppendProperties
<1>6. /\ scheduled[j] = d + l + m
      /\ \A k \in 1..m : f[k] = d + l + k
      /\ \A i \in 1..l : q[i] # Terminal => q[i] = d + i
  BY <1>2 DEF Order
<1>7. \A i \in 1..(l + 1) : i \in 1..l \/ i = l + 1
  BY <1>3
<1>8. e = d + (l + 1)
  BY <1>3, <1>4, <1>6
<1>9. \A i \in 1..(l + 1) : queue'[j][i] # Terminal => queue'[j][i] = d + i
  BY <1>1, <1>5, <1>6, <1>7, <1>8
<1>10. \A k \in 1..(m - 1) : k + 1 \in 1..m
  BY <1>3
<1>11. \A k \in 1..(m - 1) : inflight'[j][k] = d + (l + 1) + k
  BY <1>1, <1>3, <1>4, <1>6, <1>10
<1>12. scheduled'[j] = d + (l + 1) + (m - 1)
  <2>1. scheduled[j] = d + l + m /\ scheduled'[j] = scheduled[j]
    BY <1>1, <1>6
  <2>2. PICK a \in Nat, b \in Nat : a = l /\ b = m
    BY <1>3
  <2>3. d + a + b = d + (a + 1) + (b - 1)
    OBVIOUS
  <2> QED
    BY <2>1, <2>2, <2>3
<1> QED
  BY <1>1, <1>4, <1>5, <1>9, <1>11, <1>12 DEF Order

LEMMA EndOrder ==
  ASSUME TypeOK, NEW j \in Job, NEW d \in Nat, Order(j, d), NEW st, EndJob(j, st),
         pc'[j] = "finished"
  PROVE  Order(j, d)'
<1> DEFINE q == queue[j]  l == Len(q)
<1>1. queue'[j] = Append(q, Terminal)
  BY DEF EndJob, TypeOK
<1>2. q \in Seq(0..MaxProgress) /\ l \in Nat /\ Terminal \in 0..MaxProgress
  BY EventTypes DEF Terminal
<1>3. /\ Len(Append(q, Terminal)) = l + 1
      /\ \A i \in 1..l : Append(q, Terminal)[i] = q[i]
      /\ Append(q, Terminal)[l + 1] = Terminal
  BY <1>2, AppendProperties
<1>4. \A i \in 1..(l + 1) : i \in 1..l \/ i = l + 1
  BY <1>2
<1>5. \A i \in 1..(l + 1) : queue'[j][i] # Terminal => queue'[j][i] = d + i
  BY <1>1, <1>3, <1>4 DEF Order
<1> QED
  BY <1>1, <1>3, <1>5 DEF Order

(* The event a reader takes is the one after those taken before.           *)
LEMMA TakeOrder ==
  ASSUME TypeOK, NEW s \in Stream, NEW j \in Job, sjob[s] = j, Flow(j), Take(s),
         NEW d \in Nat, Order(j, d), UNCHANGED <<scheduled, inflight, pc>>
  PROVE  /\ Head(queue[j]) = Terminal => Order(j, d)'
         /\ Head(queue[j]) # Terminal => Head(queue[j]) = d + 1 /\ Order(j, d + 1)'
<1> DEFINE q == queue[j]  l == Len(q)  e == Head(q)
<1>1. q # <<>> /\ queue'[j] = Tail(q)
  BY DEF Take, TypeOK
<1>2. q \in Seq(0..MaxProgress) /\ l \in Nat /\ Len(inflight[j]) \in Nat
  BY EventTypes
<1>3. /\ e = q[1] /\ 1 \in 1..l
      /\ Len(Tail(q)) = l - 1 /\ \A i \in 1..(l - 1) : Tail(q)[i] = q[i + 1]
  BY <1>1, <1>2, HeadTailProperties, EmptySeq
<1>4. CASE e = Terminal
  <2>1. 1 = l /\ pc[j] = "finished"
    BY <1>3, <1>4 DEF Flow
  <2>2. Len(queue'[j]) = 0
    <3>1. Len(queue'[j]) = l - 1
      BY <1>1, <1>3
    <3> HIDE DEF l
    <3> QED
      BY <2>1, <3>1
  <2> QED
    BY <1>4, <2>1, <2>2 DEF Order
<1>5. CASE e # Terminal
  <2>1. e = d + 1
    BY <1>3, <1>5 DEF Order
  <2>2. \A i \in 1..(l - 1) : i + 1 \in 1..l
    BY <1>2
  <2>3. \A i \in 1..(l - 1) : queue'[j][i] # Terminal => queue'[j][i] = (d + 1) + i
    BY <1>1, <1>3, <2>2 DEF Order
  <2>4. ASSUME pc[j] # "finished"
        PROVE  /\ \A k \in 1..Len(inflight[j]) : inflight[j][k] = (d + 1) + (l - 1) + k
               /\ scheduled[j] = (d + 1) + (l - 1) + Len(inflight[j])
    BY <1>2, <2>4 DEF Order
  <2>5. Order(j, d + 1)'
    <3>1. /\ Len(queue'[j]) = l - 1 /\ scheduled' = scheduled /\ pc' = pc
          /\ inflight' = inflight
      BY <1>1, <1>3
    <3> HIDE DEF l
    <3> QED
      BY <2>3, <2>4, <3>1 DEF Order
  <2> QED
    BY <1>5, <2>1, <2>5
<1> QED
  BY <1>4, <1>5

(* Unless a reader takes progress, what is there goes on from the same d.  *)
LEMMA OrderStep ==
  ASSUME LifeInv, Next, NEW j \in Job, Flow(j), NEW d \in Nat, Order(j, d),
         ~\E s \in Stream : Takes(s, j)
  PROVE  Order(j, d)'
<1> DEFINE Still == pc[j] = "finished" => pc'[j] = "finished"
<1>0. /\ TypeOK /\ SlotInv /\ JobLife(j) /\ j \in Actor
      /\ Job \subseteq Actor /\ Sync \subseteq Actor
  BY DEF LifeInv, SlotInv, Actor
<1>s. Still
  BY <1>0, SettledStands DEF JobLife
<1>k. ASSUME scheduled'[j] = scheduled[j], inflight'[j] = inflight[j],
             queue'[j] = queue[j]
      PROVE  Order(j, d)'
  BY <1>k, <1>s, OrderKept
<1>1. ASSUME NEW i \in Job, NEW r \in Requests,
             SubmitSample(i, r) \/ SubmitJob(i, r)
      PROVE  Order(j, d)'
  BY <1>1, <1>k DEF SubmitSample, SubmitJob, eventVars
<1>2. ASSUME NEW i \in Job, JobStep(i) PROVE Order(j, d)'
  <2>1. CASE StartJob(i) \/ ResumeJob(i) \/ RelayReplay(i)
    BY <1>k, <2>1 DEF StartJob, ResumeJob, RelayReplay, eventVars
  <2>2. CASE i # j /\ (RelaySchedule(i) \/ RunCallback(i))
    BY <1>0, <1>k, <2>2 DEF RelaySchedule, RunCallback, TypeOK
  <2>3. CASE i = j /\ (RelaySchedule(i) \/ RunCallback(i))
    BY <1>0, <2>3, ScheduleOrder, CallbackOrder
  <2>4. CASE FinishJob(i) \/ FailJob(i)
    <3>1. PICK st \in Done : EndJob(i, st)
      BY <2>4 DEF FinishJob, FailJob, Done
    <3>2. pc[i] \in Holding /\ i \in Actor
      BY <1>0, <2>4 DEF FinishJob, FailJob, Holding
    <3>3. pc'[i] = "finished"
      BY <1>0, <3>1, <3>2, ReleaseMoves DEF EndJob
    <3>4. CASE i = j
      BY <1>0, <3>1, <3>3, <3>4, EndOrder
    <3>5. CASE i # j
      BY <1>0, <1>k, <3>1, <3>5 DEF EndJob, TypeOK, eventVars
    <3> QED
      BY <3>4, <3>5
  <2> QED
    BY <1>2, <2>1, <2>2, <2>3, <2>4 DEF JobStep
<1>3. ASSUME NEW a \in Actor, EngineReturn(a) PROVE Order(j, d)'
  BY <1>3, <1>k DEF EngineReturn, eventVars
<1>4. ASSUME NEW a \in Sync, StartSync(a) \/ ResumeSync(a) \/ EndSync(a)
      PROVE  Order(j, d)'
  BY <1>4, <1>k DEF StartSync, ResumeSync, EndSync, eventVars
<1>5. ASSUME NEW s \in Stream, NEW i \in Job, Connect(s, i) PROVE Order(j, d)'
  BY <1>5, <1>k DEF Connect, eventVars
<1>6. ASSUME NEW s \in Stream, StreamStep(s) PROVE Order(j, d)'
  <2>1. UNCHANGED <<lastEvent, scheduled, inflight, pc>>
    BY <1>6 DEF StreamStep, eventVars, semVars
  <2>2. CASE Take(s) /\ sjob[s] = j
    BY <1>0, <1>6, <2>1, <2>2, TakeOrder DEF Takes
  <2>3. CASE Take(s) /\ sjob[s] # j
    BY <1>0, <1>k, <2>1, <2>3 DEF Take, TypeOK
  <2>4. CASE ~Take(s)
    BY <1>6, <1>k, <2>1, <2>4 DEF StreamStep, Advance
  <2> QED
    BY <2>2, <2>3, <2>4
<1>7. ASSUME NEW s \in Stream, Disconnect(s) PROVE Order(j, d)'
  BY <1>7, <1>k DEF Disconnect, eventVars
<1>8. CASE Sweep \/ Tick \/ Quiet
  BY <1>8, <1>k DEF Sweep, Tick, Quiet, vars, eventVars
<1> QED
  BY <1>1, <1>2, <1>3, <1>4, <1>5, <1>6, <1>7, <1>8 DEF Next
-----------------------------------------------------------------------------
(* What a stream has sent changes in one of four ways.                     *)
LEMMA StreamMoves ==
  ASSUME Next
  PROVE  \/ UNCHANGED streamVars
         \/ \E s \in Stream : \/ \E j \in Job : Connect(s, j)
                              \/ StreamStep(s)
                              \/ Disconnect(s)
<1>1. ASSUME NEW i \in Job, JobStep(i) PROVE UNCHANGED streamVars
  BY <1>1 DEF JobStep, StartJob, ResumeJob, RelayReplay, RelaySchedule,
              RunCallback, FinishJob, FailJob, EndJob
<1>2. ASSUME NEW i \in Job, NEW r \in Requests, SubmitSample(i, r) \/ SubmitJob(i, r)
      PROVE  UNCHANGED streamVars
  BY <1>2 DEF SubmitSample, SubmitJob
<1>3. ASSUME NEW a \in Sync, StartSync(a) \/ ResumeSync(a) \/ EndSync(a)
      PROVE  UNCHANGED streamVars
  BY <1>3 DEF StartSync, ResumeSync, EndSync
<1>4. ASSUME NEW a \in Actor, EngineReturn(a) PROVE UNCHANGED streamVars
  BY <1>4 DEF EngineReturn
<1>5. CASE Sweep \/ Tick \/ Quiet
  BY <1>5 DEF Sweep, Tick, Quiet, vars
<1> QED
  BY <1>1, <1>2, <1>3, <1>4, <1>5 DEF Next

(* A step of one stream leaves the others alone, and either sends the      *)
(* replay, or takes progress, or leaves both as they are.                  *)
LEMMA StreamStepMoves ==
  ASSUME TypeOK, NEW s \in Stream, StreamStep(s), sjob[s] \in Job
  PROVE  /\ sjob' = sjob /\ spc'[s] \in {"loop", "getting", "closed"}
         /\ \A t \in Stream \ {s} : /\ spc'[t] = spc[t] /\ drained'[t] = drained[t]
                                    /\ replayed'[t] = replayed[t]
         /\ \/ /\ spc[s] = "replay" /\ drained' = drained
               /\ replayed' = [replayed EXCEPT ![s] = lastEvent[sjob[s]]]
            \/ /\ Takes(s, sjob[s]) /\ replayed' = replayed
               /\ drained' = [drained EXCEPT ![s] = Head(queue[sjob[s]])]
            \/ /\ ~Takes(s, sjob[s])
               /\ drained' = drained /\ replayed' = replayed
<1>0. spc \in [Stream -> {"idle", "replay", "loop", "getting", "closed", "gone"}]
      /\ drained \in [Stream -> 0..MaxProgress] /\ replayed \in [Stream -> 0..MaxProgress]
  BY DEF TypeOK
<1>1. sjob' = sjob
  BY DEF StreamStep
<1>2. CASE spc[s] = "replay" /\ lastEvent[sjob[s]] # 0 /\ UNCHANGED <<queue, drained, final>>
           /\ replayed' = [replayed EXCEPT ![s] = lastEvent[sjob[s]]]
           /\ spc' = [spc EXCEPT ![s] = "loop"]
  BY <1>0, <1>1, <1>2
<1>3. CASE Take(s) /\ replayed' = replayed
  <2>1. CASE Head(queue[sjob[s]]) # Terminal
    <3>1. SendProgress(s, Head(queue[sjob[s]])) /\ Takes(s, sjob[s])
      BY <1>3, <2>1 DEF Take, Takes
    <3> QED
      BY <1>0, <1>1, <1>3, <3>1 DEF SendProgress
  <2>2. CASE Head(queue[sjob[s]]) = Terminal
    <3>1. SendResult(s) /\ ~Takes(s, sjob[s])
      BY <1>3, <2>2 DEF Take, Takes
    <3> QED
      BY <1>0, <1>1, <1>3, <3>1 DEF SendResult
  <2> QED
    BY <2>1, <2>2
<1>4. CASE ~Take(s) /\ Advance(s) /\ replayed' = replayed
  <2>1. ~Takes(s, sjob[s])
    BY <1>4 DEF Takes
  <2>2. /\ drained' = drained
        /\ \E p \in {"getting", "closed"} : spc' = [spc EXCEPT ![s] = p]
    BY <1>4 DEF Advance, SendResult
  <2> QED
    BY <1>0, <1>1, <1>4, <2>1, <2>2
<1> QED
  BY <1>2, <1>3, <1>4 DEF StreamStep

LEMMA FreshStep ==
  ASSUME LifeInv, Next, NEW s \in Stream, Fresh(s)
  PROVE  Fresh(s)'
<1>0. TypeOK /\ Served
  BY DEF LifeInv, SlotInv
<1>1. CASE UNCHANGED streamVars
  BY <1>1 DEF Fresh, streamVars
<1>2. ASSUME NEW t \in Stream, NEW j \in Job, Connect(t, j) PROVE Fresh(s)'
  BY <1>0, <1>2 DEF Connect, Fresh, TypeOK
<1>3. ASSUME NEW t \in Stream, StreamStep(t) PROVE Fresh(s)'
  <2>1. sjob[t] \in Job
    BY <1>0, <1>3 DEF StreamStep, Served, Open
  <2> QED
    BY <1>0, <1>3, <2>1, StreamStepMoves DEF Fresh
<1>4. ASSUME NEW t \in Stream, Disconnect(t) PROVE Fresh(s)'
  BY <1>0, <1>4 DEF Disconnect, Fresh, TypeOK
<1> QED
  BY <1>1, <1>2, <1>3, <1>4, StreamMoves

(* Who reads a job, and how far, when nobody takes progress of it: those   *)
(* who did, and perhaps one more, who has taken nothing.                   *)
LEMMA ReadersStay ==
  ASSUME LifeInv, Next, NEW j \in Job, NEW t \in Stream, Fresh(t),
         ~\E s \in Stream : Takes(s, j)
  PROVE  /\ sjob[t] = j => sjob'[t] = j /\ drained'[t] = drained[t]
         /\ sjob[t] # j /\ sjob'[t] = j => drained'[t] = 0
<1> DEFINE Goal == /\ sjob[t] = j => sjob'[t] = j /\ drained'[t] = drained[t]
                   /\ sjob[t] # j /\ sjob'[t] = j => drained'[t] = 0
<1>0. TypeOK /\ Served
  BY DEF LifeInv, SlotInv
<1>1. CASE UNCHANGED streamVars
  BY <1>1 DEF streamVars
<1>2. ASSUME NEW s \in Stream, NEW i \in Job, Connect(s, i) PROVE Goal
  <2>1. CASE s = t
    <3>1. sjob[t] = NoJob /\ drained'[t] = 0
      BY <1>2, <2>1 DEF Connect, Fresh
    <3> QED
      BY <3>1, JobsAssumption
  <2>2. CASE s # t
    BY <1>0, <1>2, <2>2 DEF Connect, TypeOK
  <2> QED
    BY <2>1, <2>2
<1>3. ASSUME NEW s \in Stream, StreamStep(s) PROVE Goal
  <2>1. sjob[s] \in Job
    BY <1>0, <1>3 DEF StreamStep, Served, Open
  <2>2. /\ sjob' = sjob
        /\ t # s => drained'[t] = drained[t]
        /\ drained' = drained \/ Takes(s, sjob[s])
    BY <1>0, <1>3, <2>1, StreamStepMoves
  <2> QED
    BY <2>2
<1>4. ASSUME NEW s \in Stream, Disconnect(s) PROVE Goal
  BY <1>4 DEF Disconnect
<1> QED
  BY <1>1, <1>2, <1>3, <1>4, StreamMoves

(* Every job's events stay whole: those taken, and then all the others.    *)
LEMMA WholeStep ==
  ASSUME LifeInv, Next, NEW j \in Job, Flow(j), Whole(j), \A s \in Stream : Fresh(s)
  PROVE  Whole(j)'
<1>0. /\ TypeOK /\ \A t \in Stream : drained[t] \in Nat
  <2>1. TypeOK
    BY DEF LifeInv, SlotInv
  <2>2. drained \in [Stream -> 0..MaxProgress] /\ MaxProgress \in Nat
    BY <2>1, JobsAssumption DEF TypeOK
  <2> QED
    BY <2>1, <2>2
<1>1. PICK d \in Nat : Order(j, d) /\ Taken(j, d)
  BY DEF Whole
<1>2. ASSUME NEW s \in Stream, Takes(s, j) PROVE Whole(j)'
  <2>1. /\ Take(s) /\ sjob[s] = j /\ Head(queue[j]) # Terminal /\ StreamStep(s)
        /\ UNCHANGED <<scheduled, inflight, pc>>
    BY <1>2 DEF Takes, StreamStep, eventVars, semVars
  <2>2. Head(queue[j]) = d + 1 /\ Order(j, d + 1)'
    BY <1>0, <1>1, <2>1, TakeOrder
  <2>3. /\ sjob' = sjob /\ drained' = [drained EXCEPT ![s] = d + 1]
    <3>1. SendProgress(s, d + 1)
      BY <2>1, <2>2 DEF Take
    <3> QED
      BY <2>1, <3>1 DEF StreamStep, SendProgress
  <2>4. drained'[s] = d + 1 /\ \A t \in Stream \ {s} : drained'[t] = drained[t]
    BY <1>0, <2>3 DEF TypeOK
  <2>5. \A t \in Stream : sjob[t] = j => drained[t] <= d
    BY <1>1 DEF Taken, Readers
  <2>6. \A t \in Stream : sjob'[t] = j => drained'[t] <= d + 1
    BY <1>0, <2>3, <2>4, <2>5
  <2>7. Taken(j, d + 1)'
    BY <2>1, <2>3, <2>4, <2>6 DEF Taken, Readers
  <2> QED
    BY <2>2, <2>7 DEF Whole
<1>3. ASSUME ~\E s \in Stream : Takes(s, j) PROVE Whole(j)'
  <2>1. Order(j, d)'
    BY <1>1, <1>3, OrderStep
  <2>2. \A t \in Stream : /\ sjob[t] = j => sjob'[t] = j /\ drained'[t] = drained[t]
                          /\ sjob[t] # j /\ sjob'[t] = j => drained'[t] = 0
    BY <1>3, ReadersStay
  <2>3. \A t \in Stream : sjob[t] = j => drained[t] <= d
    BY <1>1 DEF Taken, Readers
  <2>4. \A t \in Stream : sjob'[t] = j => drained'[t] <= d
    BY <2>2, <2>3
  <2>5. d = 0 \/ \E t \in Stream : sjob'[t] = j /\ drained'[t] = d
    BY <1>1, <2>2 DEF Taken, Readers
  <2>6. Taken(j, d)'
    BY <2>4, <2>5 DEF Taken, Readers
  <2> QED
    BY <2>1, <2>6 DEF Whole
<1> QED
  BY <1>2, <1>3

LEMMA OrderInvariant == Spec => [](LifeInv /\ StreamInv /\ OrderInv)
<1>1. Init => OrderInv
  <2> SUFFICES ASSUME Init PROVE OrderInv
    OBVIOUS
  <2>1. ASSUME NEW j \in Job PROVE Whole(j)
    <3>1. Len(queue[j]) = 0 /\ Len(inflight[j]) = 0 /\ scheduled[j] = 0
      BY DEF Init
    <3>2. Order(j, 0)
      BY <3>1 DEF Order
    <3>3. Taken(j, 0)
      BY DEF Init, Taken, Readers
    <3> QED
      BY <3>2, <3>3 DEF Whole
  <2>2. \A s \in Stream : Fresh(s)
    BY DEF Init, Fresh
  <2> QED
    BY <2>1, <2>2 DEF OrderInv
<1>2. LifeInv /\ StreamInv /\ OrderInv /\ [Next]_vars => OrderInv'
  <2>1. LifeInv /\ StreamInv /\ OrderInv /\ Next => OrderInv'
    BY WholeStep, FreshStep DEF StreamInv, OrderInv
  <2>2. ASSUME OrderInv, UNCHANGED vars PROVE OrderInv'
    <3>1. UNCHANGED <<scheduled, inflight, queue, pc, spc, sjob, replayed, drained>>
      BY <2>2 DEF vars, eventVars, semVars, streamVars
    <3>2. ASSUME NEW j \in Job PROVE Whole(j)'
      <4>1. PICK d \in Nat : Order(j, d) /\ Taken(j, d)
        BY <2>2 DEF OrderInv, Whole
      <4>2. Order(j, d)' /\ Taken(j, d)'
        BY <3>1, <4>1 DEF Order, Taken, Readers
      <4> QED
        BY <4>2 DEF Whole
    <3>3. \A s \in Stream : Fresh(s)'
      BY <2>2, <3>1 DEF OrderInv, Fresh
    <3> QED
      BY <3>2, <3>3 DEF OrderInv
  <2> QED
    BY <2>1, <2>2
<1> QED
  BY <1>1, <1>2, StreamInvariant, PTL DEF Spec

(* One step of a stream, as StreamInOrder has it.                          *)
LEMMA InOrderStep ==
  ASSUME LifeInv, StreamInv, OrderInv, Next, NEW s \in Stream
  PROVE  /\ drained'[s] # drained[s] => NextForReaders(s, drained'[s])
         /\ drained'[s] # drained[s] /\ drained'[s] <= Shown(s) =>
              drained[s] = 0 /\ replayed[s] # 0
         /\ replayed'[s] # replayed[s] =>
              /\ replayed[s] = 0 /\ drained'[s] = 0
              /\ scheduled[sjob[s]] <= replayed'[s]
              /\ \A t \in Readers(sjob[s]) : drained[t] <= replayed'[s]
<1> DEFINE j == sjob[s]
<1>0. /\ TypeOK /\ Served /\ Fresh(s) /\ drained[s] \in Nat /\ replayed[s] \in Nat
      /\ \A t \in Stream : drained[t] \in Nat
  BY DEF LifeInv, SlotInv, TypeOK, OrderInv
<1>k. SUFFICES ASSUME drained'[s] # drained[s] \/ replayed'[s] # replayed[s]
               PROVE  /\ drained'[s] # drained[s] => NextForReaders(s, drained'[s])
                      /\ drained'[s] # drained[s] /\ drained'[s] <= Shown(s) =>
                           drained[s] = 0 /\ replayed[s] # 0
                      /\ replayed'[s] # replayed[s] =>
                           /\ replayed[s] = 0 /\ drained'[s] = 0
                           /\ scheduled[sjob[s]] <= replayed'[s]
                           /\ \A t \in Readers(sjob[s]) : drained[t] <= replayed'[s]
  OBVIOUS
<1>1. StreamStep(s) /\ j \in Job
  <2>1. ~UNCHANGED streamVars
    BY <1>k DEF streamVars
  <2>2. \A t \in Stream : ~Disconnect(t) /\ \A i \in Job : ~Connect(t, i)
    BY <1>k DEF Disconnect, Connect
  <2>3. PICK t \in Stream : StreamStep(t)
    BY <2>1, <2>2, StreamMoves
  <2>4. sjob[t] \in Job
    BY <1>0, <2>3 DEF StreamStep, Served, Open
  <2>5. t = s
    BY <1>0, <1>k, <2>3, <2>4, StreamStepMoves
  <2> QED
    BY <2>3, <2>4, <2>5
<1>2. Flow(j) /\ Whole(j)
  BY <1>1 DEF StreamInv, OrderInv
<1>3. /\ lastEvent[j] \in Nat /\ scheduled[j] \in Nat
  BY <1>0, <1>1, EventTypes
<1>4. CASE /\ spc[s] = "replay" /\ drained' = drained
           /\ replayed' = [replayed EXCEPT ![s] = lastEvent[j]]
  <2>1. replayed[s] = 0 /\ drained'[s] = 0 /\ replayed'[s] = lastEvent[j]
    BY <1>0, <1>4 DEF Fresh, TypeOK
  <2>2. scheduled[j] <= lastEvent[j]
    BY <1>2 DEF Flow
  <2>3. ASSUME NEW t \in Readers(j) PROVE drained[t] <= scheduled[j]
    <3>1. t \in Stream /\ sjob[t] = j /\ Reading(t)
      BY DEF Readers, StreamInv
    <3>2. CASE spc[t] = "idle"
      BY <1>3, <3>1, <3>2 DEF Reading
    <3>3. CASE spc[t] # "idle"
      BY <3>1, <3>3 DEF Reading, Behind
    <3> QED
      BY <3>2, <3>3
  <2>4. \A t \in Readers(j) : drained[t] <= replayed'[s]
    <3>1. \A t \in Readers(j) : drained[t] \in Nat
      BY <1>0 DEF Readers
    <3> QED
      BY <1>3, <2>1, <2>2, <2>3, <3>1
  <2> QED
    BY <1>4, <2>1, <2>2, <2>4
<1>5. CASE /\ Takes(s, j) /\ replayed' = replayed
           /\ drained' = [drained EXCEPT ![s] = Head(queue[j])]
  <2>1. PICK d \in Nat : Order(j, d) /\ Taken(j, d)
    BY <1>2 DEF Whole
  <2>2. /\ Take(s) /\ Head(queue[j]) # Terminal /\ UNCHANGED <<scheduled, inflight, pc>>
    BY <1>5 DEF Takes, StreamStep, eventVars, semVars
  <2>3. Head(queue[j]) = d + 1
    BY <1>0, <1>1, <1>2, <2>1, <2>2, TakeOrder
  <2>4. drained'[s] = d + 1
    BY <1>0, <1>5, <2>3 DEF TypeOK
  <2>5. s \in Readers(j) /\ \A t \in Readers(j) : drained[t] <= d
    BY <2>1 DEF Taken, Readers
  <2>6. NextForReaders(s, d + 1)
    <3>1. \A t \in Readers(j) : drained[t] < d + 1
      <4>1. \A t \in Readers(j) : drained[t] \in Nat
        BY <1>0 DEF Readers
      <4> QED
        BY <2>5, <4>1
    <3>2. d + 1 = 1 \/ \E t \in Readers(j) : drained[t] = (d + 1) - 1
      BY <2>1 DEF Taken
    <3> QED
      BY <3>1, <3>2 DEF NextForReaders
  <2>7. ASSUME d + 1 <= Shown(s) PROVE drained[s] = 0 /\ replayed[s] # 0
    BY <1>0, <2>5, <2>7 DEF Shown
  <2> QED
    BY <1>5, <2>4, <2>6, <2>7
<1>6. CASE drained' = drained /\ replayed' = replayed
  BY <1>k, <1>6
<1> QED
  BY <1>0, <1>1, <1>4, <1>5, <1>6, StreamStepMoves

(* For any number of jobs, readers and events: a job's queue reaches its   *)
(* readers whole and in order, each event once; the replay of a stream is  *)
(* no older than anything scheduled or taken by then; and a client is      *)
(* taken back, or sent an event again, only where the queue follows the    *)
(* replay.                                                                 *)
THEOREM StreamsKeepOrder == Spec => StreamInOrder
<1>1. LifeInv /\ StreamInv /\ OrderInv /\ [Next]_vars =>
        [\A s \in Stream :
           /\ drained'[s] # drained[s] => NextForReaders(s, drained'[s])
           /\ drained'[s] # drained[s] /\ drained'[s] <= Shown(s) =>
                drained[s] = 0 /\ replayed[s] # 0
           /\ replayed'[s] # replayed[s] =>
                /\ replayed[s] = 0 /\ drained'[s] = 0
                /\ scheduled[sjob[s]] <= replayed'[s]
                /\ \A t \in Readers(sjob[s]) : drained[t] <= replayed'[s]]_vars
  BY InOrderStep
<1> QED
  BY <1>1, OrderInvariant, PTL DEF Spec, StreamInOrder
-----------------------------------------------------------------------------
(* What left the worker.  A stream keeps what it has sent, so it is not    *)
(* enough that an anonymous job is served watermarked now: the event was   *)
(* sent for the same job, and a settled job's request does not change.     *)
CleanSent(s) ==
    final[s].body = "clean" =>
        /\ spc[s] = "closed" /\ sjob[s] \in Job
        /\ jobState[sjob[s]] \in Done /\ ~Anonymous(sjob[s])

CleanInv == \A s \in Stream : CleanSent(s)

NothingCleanWasSent ==
    \A s \in Stream : spc[s] = "closed" /\ Anonymous(sjob[s]) => final[s].body # "clean"

(* The request of a settled job stands.                                    *)
LEMMA RequestStands ==
  ASSUME LifeInv, Next, NEW j \in Job, jobState[j] \in Done
  PROVE  request'[j] = request[j]
<1>0. pc[j] = "finished" /\ TypeOK
  BY DEF LifeInv, JobLife, Unfinished, Live, Done, SlotInv
<1>1. ASSUME NEW i \in Job, NEW r \in Requests, SubmitSample(i, r) \/ SubmitJob(i, r)
      PROVE  request'[j] = request[j]
  BY <1>0, <1>1 DEF SubmitSample, SubmitJob, TypeOK
<1>2. ASSUME NEW i \in Job, JobStep(i)
      PROVE  request' = request
  BY <1>2 DEF JobStep, StartJob, ResumeJob, RelayReplay, RelaySchedule, RunCallback,
              FinishJob, FailJob, EndJob, jobVars
<1>3. ASSUME NEW a \in Actor, EngineReturn(a)
      PROVE  request' = request
  BY <1>3 DEF EngineReturn, jobVars
<1>4. ASSUME NEW a \in Sync, StartSync(a) \/ ResumeSync(a) \/ EndSync(a)
      PROVE  request' = request
  BY <1>4 DEF StartSync, ResumeSync, EndSync, jobVars
<1>5. ASSUME NEW s \in Stream, StreamStep(s) \/ Disconnect(s) \/ \E i \in Job : Connect(s, i)
      PROVE  request' = request
  BY <1>5 DEF StreamStep, Disconnect, Connect, jobVars
<1>6. CASE Sweep \/ Tick \/ Quiet
  BY <1>6 DEF Sweep, Tick, Quiet, vars, jobVars
<1> QED
  BY <1>1, <1>2, <1>3, <1>4, <1>5, <1>6 DEF Next

(* A clean body is sent for a job that is done and not anonymous.          *)
LEMMA CleanResult ==
  ASSUME NEW j \in Job, SseResult(j).body = "clean"
  PROVE  jobState[j] \in Done /\ ~Anonymous(j)
<1>1. Available(j) /\ Payload(j) = "clean"
  BY DEF SseResult
<1>2. ~Anonymous(j)
  BY <1>1 DEF Payload
<1> QED
  BY <1>1, <1>2 DEF Available, Done

LEMMA CleanStep ==
  ASSUME LifeInv, Next, NEW s \in Stream, Reading(s), CleanSent(s)
  PROVE  CleanSent(s)'
<1>0. TypeOK
  BY DEF LifeInv, SlotInv
<1>1. ASSUME final'[s] = final[s],
             final[s].body = "clean" => spc'[s] = spc[s] /\ sjob'[s] = sjob[s]
      PROVE  CleanSent(s)'
  <2> SUFFICES ASSUME final[s].body = "clean"
               PROVE  CleanSent(s)'
    BY <1>1 DEF CleanSent
  <2>1. PICK j \in Job : j = sjob[s] /\ jobState[j] \in Done /\ ~Anonymous(j)
    BY DEF CleanSent
  <2>2. jobState'[j] = jobState[j] /\ request'[j] = request[j]
    BY <2>1, SettledStands, RequestStands
  <2> QED
    BY <1>1, <2>1, <2>2 DEF CleanSent, Anonymous
<1>2. ASSUME NEW t \in Stream, NEW i \in Job, Connect(t, i)
      PROVE  CleanSent(s)'
  BY <1>0, <1>1, <1>2 DEF Connect, CleanSent, TypeOK
<1>3. ASSUME NEW t \in Stream, StreamStep(t)
      PROVE  CleanSent(s)'
  <2>1. CASE t # s
    <3>1. final'[s] = final[s] /\ spc'[s] = spc[s] /\ sjob'[s] = sjob[s]
      BY <1>0, <1>3, <2>1
         DEF StreamStep, Advance, Take, SendResult, SendProgress, TypeOK
    <3> QED
      BY <1>1, <3>1
  <2>2. CASE t = s
    <3>1. /\ spc[s] \in {"replay", "loop", "getting"} /\ UNCHANGED <<jobVars, sjob>>
          /\ UNCHANGED final \/ SendResult(s)
      BY <1>3, <2>2 DEF StreamStep, Advance, Take, SendProgress
    <3>2. sjob[s] \in Job /\ final[s].body # "clean"
      BY <3>1 DEF Reading, CleanSent
    <3>3. CASE UNCHANGED final
      BY <1>1, <3>2, <3>3
    <3>4. CASE SendResult(s)
      <4>1. final'[s] = SseResult(sjob[s]) /\ spc'[s] = "closed"
        BY <1>0, <3>4 DEF SendResult, TypeOK
      <4> QED
        BY <3>1, <3>2, <4>1, CleanResult DEF CleanSent, Anonymous, jobVars
    <3> QED
      BY <3>1, <3>3, <3>4
  <2> QED
    BY <2>1, <2>2
<1>4. ASSUME NEW t \in Stream, Disconnect(t)
      PROVE  CleanSent(s)'
  BY <1>0, <1>1, <1>4 DEF Disconnect, CleanSent, Open, TypeOK
<1>5. ASSUME UNCHANGED streamVars
      PROVE  CleanSent(s)'
  BY <1>1, <1>5 DEF streamVars
<1>6. ASSUME NEW i \in Job, JobStep(i)
      PROVE  CleanSent(s)'
  BY <1>5, <1>6 DEF JobStep, StartJob, ResumeJob, RelayReplay, RelaySchedule,
                    RunCallback, FinishJob, FailJob, EndJob
<1>7. ASSUME NEW i \in Job, NEW r \in Requests, SubmitSample(i, r) \/ SubmitJob(i, r)
      PROVE  CleanSent(s)'
  BY <1>5, <1>7 DEF SubmitSample, SubmitJob
<1>8. ASSUME NEW a \in Sync, StartSync(a) \/ ResumeSync(a) \/ EndSync(a)
      PROVE  CleanSent(s)'
  BY <1>5, <1>8 DEF StartSync, ResumeSync, EndSync
<1>9. ASSUME NEW a \in Actor, EngineReturn(a)
      PROVE  CleanSent(s)'
  BY <1>5, <1>9 DEF EngineReturn
<1>10. CASE Sweep \/ Tick \/ Quiet
  BY <1>5, <1>10 DEF Sweep, Tick, Quiet, vars
<1> QED
  BY <1>2, <1>3, <1>4, <1>6, <1>7, <1>8, <1>9, <1>10 DEF Next

(* parse.py:284-287: on no channel that serves a job, and in no event that *)
(* a stream has ever ended on, is an anonymous caller's output clean.      *)
THEOREM DemoOutputIsMarked == Spec => [](NoCleanDemoOutput /\ NothingCleanWasSent)
<1>1. NoCleanDemoOutput
  <2> SUFFICES ASSUME NEW j \in Job, Anonymous(j)
               PROVE  "clean" \notin {SseResult(j).body, SnapshotBody(j), Download(j)}
    BY DEF NoCleanDemoOutput
  <2>1. SseResult(j).body # "clean"
    BY CleanResult
  <2>2. SnapshotBody(j) # "clean"
    BY DEF SnapshotBody
  <2>3. Payload(j) # "clean"
    BY DEF Payload
  <2>4. Download(j) # "clean"
    BY <2>3 DEF Download
  <2> QED
    BY <2>1, <2>2, <2>4
<1>2. Init => CleanInv
  BY DEF Init, CleanInv, CleanSent, NoEvent
<1>3. LifeInv /\ StreamInv /\ CleanInv /\ [Next]_vars => CleanInv'
  <2>1. LifeInv /\ StreamInv /\ CleanInv /\ Next => CleanInv'
    BY CleanStep DEF StreamInv, CleanInv
  <2>2. CleanInv /\ UNCHANGED vars => CleanInv'
    BY DEF CleanInv, CleanSent, Anonymous, vars, jobVars, streamVars
  <2> QED
    BY <2>1, <2>2
<1>4. CleanInv => NothingCleanWasSent
  BY DEF CleanInv, CleanSent, NothingCleanWasSent
<1> QED
  BY <1>1, <1>2, <1>3, <1>4, StreamInvariant, PTL DEF Spec
-----------------------------------------------------------------------------
(* The contract without its fairness: initial states and steps.            *)
ContractSafety == Contract!Init /\ [][Contract!Next]_(Contract!contractVars)

(* What a client sees follows the life of the job.                         *)
Seen(j) ==
    /\ pc[j] = "idle" => Phase(j) = "none"
    /\ pc[j] \in Unfinished => Phase(j) = "pending"
    /\ pc[j] = "finished" /\ j \notin registry => Phase(j) = "gone"
    /\ pc[j] = "finished" /\ j \in registry =>
         Phase(j) = IF jobState[j] = "done" THEN "ready" ELSE "failed"

LEMMA PhaseOfLife == LifeInv => \A j \in Job : Seen(j)
<1> SUFFICES ASSUME LifeInv, NEW j \in Job PROVE Seen(j)
  OBVIOUS
<1>1. JobLife(j)
  BY DEF LifeInv
<1>2. pc[j] = "idle" => Phase(j) = "none"
  BY <1>1 DEF JobLife, Phase
<1>3. pc[j] \in Unfinished => Phase(j) = "pending"
  BY <1>1 DEF JobLife, Phase, Unfinished, Live
<1>4. pc[j] = "finished" /\ j \notin registry => Phase(j) = "gone"
  BY <1>1 DEF JobLife, Phase, Unfinished, Live, Done
<1>5. ASSUME pc[j] = "finished", j \in registry
      PROVE  Phase(j) = IF jobState[j] = "done" THEN "ready" ELSE "failed"
  <2>1. /\ jobState[j] \in Done
        /\ jobState[j] = "done" => result[j] \/ Sampled(j)
        /\ result[j] => jobState[j] = "done"
    BY <1>1, <1>5 DEF JobLife
  <2>2. Download(j) # "404" <=> Available(j)
    BY <2>1 DEF Download, Payload, Available
  <2>3. jobState[j] = "done" <=> Available(j)
    BY <2>1 DEF Available
  <2> QED
    BY <1>5, <2>1, <2>2, <2>3 DEF Phase, Live, Done
<1> QED
  BY <1>2, <1>3, <1>4, <1>5 DEF Seen

LEMMA PhaseOfNextLife == LifeInv' => (\A j \in Job : Seen(j))'
  BY PhaseOfLife, PTL

(* What each step shows the client: only its own job changes, or several   *)
(* are forgotten, or time passes.                                          *)
LEMMA ContractStep ==
  ASSUME LifeInv, LifeInv', Next
  PROVE  Contract!Next \/ UNCHANGED Contract!contractVars
<1> DEFINE P == [j \in Job |-> Phase(j)]
           Goal == Contract!Next \/ UNCHANGED Contract!contractVars
<1>0. /\ TypeOK /\ SlotInv /\ \A j \in Job : JobLife(j)
      /\ Job \subseteq Actor /\ Sync \subseteq Actor
  BY DEF LifeInv, SlotInv, Actor
<1>p. \A j \in Job : Seen(j)
  BY PhaseOfLife
<1>q. \A j \in Job : Seen(j)'
  BY PhaseOfNextLife
<1>s. ASSUME NEW j \in Job, jobState'[j] = jobState[j],
             j \in registry' <=> j \in registry,
             \/ pc'[j] = pc[j]
             \/ pc[j] \in Unfinished /\ pc'[j] \in Unfinished
      PROVE  P'[j] = P[j]
  <2>1. Seen(j) /\ Seen(j)' /\ JobLife(j)
    BY <1>0, <1>p, <1>q
  <2> QED
    BY <1>s, <2>1 DEF Seen, JobLife
<1>t. ASSUME \A j \in Job : P'[j] = P[j], UNCHANGED <<clock, terminalAt>> PROVE Goal
  BY <1>t DEF Contract!contractVars
<1>1. ASSUME NEW j \in Job, NEW r \in Requests,
             SubmitSample(j, r) \/ SubmitJob(j, r)
      PROVE  Goal
  <2>1. \A i \in Job \ {j} : P'[i] = P[i]
    BY <1>0, <1>1, <1>s DEF SubmitSample, SubmitJob, TypeOK
  <2>2. P[j] = "none" /\ Seen(j)' /\ clock' = clock
    BY <1>1, <1>p, <1>q DEF Seen, SubmitSample, SubmitJob, timeVars
  <2>3. CASE SubmitSample(j, r)
    <3>1. pc'[j] = "finished" /\ j \in registry' /\ jobState'[j] = "done"
      BY <1>0, <2>3 DEF SubmitSample, TypeOK
    <3>2. P'[j] = "ready"
      BY <2>2, <3>1 DEF Seen
    <3>3. P' = [P EXCEPT ![j] = "ready"]
      BY <2>1, <3>2
    <3>4. Contract!Settle(j, "none", "ready")
      BY <2>2, <2>3, <3>3 DEF SubmitSample, Contract!Settle
    <3> QED
      BY <3>4 DEF Contract!Next
  <2>4. CASE SubmitJob(j, r)
    <3>1. pc'[j] \in Unfinished
      BY <1>0, <2>4 DEF SubmitJob, TypeOK, Unfinished
    <3>2. P'[j] = "pending"
      BY <2>2, <3>1 DEF Seen
    <3>3. P' = [P EXCEPT ![j] = "pending"]
      BY <2>1, <3>2
    <3>4. Contract!Accept(j)
      BY <2>2, <2>4, <3>3 DEF SubmitJob, Contract!Accept
    <3> QED
      BY <3>4 DEF Contract!Next
  <2> QED
    BY <1>1, <2>3, <2>4
<1>2. ASSUME NEW j \in Job, FinishJob(j) \/ FailJob(j) PROVE Goal
  <2>1. PICK st \in Done : EndJob(j, st)
    BY <1>2 DEF FinishJob, FailJob, Done
  <2>2. pc[j] \in Holding /\ pc[j] \in Unfinished
    BY <1>2 DEF FinishJob, FailJob, Holding, Unfinished
  <2>3. /\ pc'[j] = "finished"
        /\ \A i \in Actor \ {j} :
             pc'[i] = pc[i] \/ (pc[i] = "waiting" /\ pc'[i] = "granted")
    BY <1>0, <2>1, <2>2, ReleaseMoves DEF EndJob
  <2>4. \A i \in Job \ {j} : P'[i] = P[i]
    BY <1>0, <1>s, <2>1, <2>3 DEF EndJob, TypeOK, Unfinished
  <2>5. P[j] = "pending" /\ j \in registry
    BY <1>0, <1>p, <2>2 DEF Seen, JobLife
  <2>6. P'[j] \in {"ready", "failed"}
    BY <1>q, <2>1, <2>3, <2>5 DEF Seen, EndJob
  <2>7. P' = [P EXCEPT ![j] = P'[j]]
    BY <2>4
  <2>8. terminalAt' = [terminalAt EXCEPT ![j] = clock] /\ clock' = clock
    BY <2>1 DEF EndJob, timeVars
  <2>9. Contract!Resolve(j)
    BY <2>5, <2>6, <2>7, <2>8 DEF Contract!Resolve, Contract!Settle
  <2> QED
    BY <2>9 DEF Contract!Next
<1>3. ASSUME NEW j \in Job, JobStep(j), ~FinishJob(j), ~FailJob(j) PROVE Goal
  <2>1. UNCHANGED <<clock, terminalAt, registry>>
    BY <1>3 DEF JobStep, StartJob, ResumeJob, RelayReplay, RelaySchedule,
                RunCallback, timeVars, jobVars
  <2>2. CASE StartJob(j) \/ ResumeJob(j)
    <3>1. /\ \A i \in Job \ {j} : jobState'[i] = jobState[i] /\ pc'[i] = pc[i]
          /\ pc[j] \in Unfinished /\ pc'[j] \in Unfinished
      BY <1>0, <2>2
      DEF StartJob, ResumeJob, Enter, Queue, Resume, TypeOK, Unfinished
    <3>2. \A i \in Job \ {j} : P'[i] = P[i]
      BY <1>s, <2>1, <3>1
    <3>3. P[j] = "pending" /\ P'[j] = "pending"
      BY <1>p, <1>q, <3>1 DEF Seen
    <3> QED
      BY <1>t, <2>1, <3>2, <3>3
  <2>3. CASE RelayReplay(j) \/ RelaySchedule(j) \/ RunCallback(j)
    <3>1. UNCHANGED <<jobState, pc>>
      BY <2>3 DEF RelayReplay, RelaySchedule, RunCallback, jobVars, semVars
    <3> QED
      BY <1>s, <1>t, <2>1, <3>1
  <2> QED
    BY <1>3, <2>2, <2>3 DEF JobStep
<1>4. ASSUME NEW a \in Actor, EngineReturn(a) PROVE Goal
  BY <1>0, <1>4, <1>s, <1>t DEF EngineReturn, TypeOK, timeVars, jobVars, Unfinished
<1>5. ASSUME NEW a \in Sync, StartSync(a) \/ ResumeSync(a) \/ EndSync(a) PROVE Goal
  <2>1. UNCHANGED <<timeVars, jobVars>>
    BY <1>5 DEF StartSync, ResumeSync, EndSync
  <2>2. \A j \in Job : pc'[j] = pc[j] \/ (pc[j] = "waiting" /\ pc'[j] = "granted")
    <3>1. \A j \in Job : j # a
      BY JobsAssumption
    <3>2. CASE StartSync(a) \/ ResumeSync(a)
      BY <1>0, <3>1, <3>2 DEF StartSync, ResumeSync, Enter, Queue, Resume, TypeOK
    <3>3. CASE EndSync(a)
      BY <1>0, <3>1, <3>3, ReleaseMoves DEF EndSync, Holding
    <3> QED
      BY <1>5, <3>2, <3>3
  <2> QED
    BY <1>s, <1>t, <2>1, <2>2 DEF timeVars, jobVars, Unfinished
<1>6. ASSUME NEW s \in Stream, StreamStep(s) \/ Disconnect(s) \/ \E j \in Job : Connect(s, j)
      PROVE  Goal
  BY <1>6, <1>s, <1>t DEF StreamStep, Disconnect, Connect, timeVars, jobVars, semVars
<1>7. CASE Sweep
  <2>1. /\ UNCHANGED <<clock, terminalAt, jobState, pc>>
        /\ registry' = registry \ Expired
    BY <1>7 DEF Sweep, semVars
  <2>2. Contract!Stale = Expired
    <3> SUFFICES ASSUME NEW j \in Job PROVE j \in Contract!Stale <=> j \in Expired
      BY <1>0 DEF Contract!Stale, Expired, TypeOK
    <3>1. Seen(j) /\ JobLife(j) /\ Never = -1 /\ Unfinished = Unfinished
      BY <1>0, <1>p DEF Never
    <3>2. P[j] \in {"ready", "failed"} <=> pc[j] = "finished" /\ j \in registry
      BY <3>1 DEF Seen, JobLife
    <3>3. terminalAt[j] # Never /\ j \in registry <=> pc[j] = "finished" /\ j \in registry
      BY <1>0, <3>1 DEF JobLife, TypeOK, Unfinished
    <3> QED
      BY <3>2, <3>3 DEF Contract!Stale, Expired
  <2>3. ASSUME NEW j \in Job PROVE P'[j] = IF j \in Contract!Stale THEN "gone" ELSE P[j]
    <3>1. CASE j \in Expired
      <4>1. P[j] \in {"ready", "failed"} /\ j \in registry /\ j \notin registry'
        BY <2>1, <2>2, <3>1 DEF Contract!Stale, Expired
      <4>2. pc[j] = "finished"
        BY <1>0, <1>p, <4>1 DEF Seen, JobLife
      <4> QED
        BY <1>q, <2>1, <2>2, <3>1, <4>1, <4>2 DEF Seen
    <3>2. CASE j \notin Expired
      BY <1>s, <2>1, <2>2, <3>2
    <3> QED
      BY <3>1, <3>2
  <2>4. Contract!Forget
    BY <2>1, <2>3 DEF Contract!Forget
  <2> QED
    BY <2>4 DEF Contract!Next
<1>8. CASE Tick
  <2>1. clock' = clock + 1 /\ UNCHANGED <<terminalAt, jobState, registry, pc>>
    BY <1>8 DEF Tick, jobVars, semVars
  <2>2. \A j \in Job : P'[j] = P[j]
    BY <1>s, <2>1
  <2>3. Contract!Pass
    BY <2>1, <2>2 DEF Contract!Pass
  <2> QED
    BY <2>3 DEF Contract!Next
<1>9. CASE Quiet
  BY <1>9, <1>s, <1>t DEF Quiet, vars, timeVars, jobVars, semVars
<1> QED
  BY <1>1, <1>2, <1>3, <1>4, <1>5, <1>6, <1>7, <1>8, <1>9 DEF Next

(* The job surface implements its contract, for any number of jobs and any *)
(* TTL: a client that asks by id sees each job accepted, settled once, and *)
(* forgotten only when it is older than the TTL.                           *)
THEOREM JobsImplementContract == Spec => ContractSafety
<1>1. Init => Contract!Init
  <2> SUFFICES ASSUME Init PROVE Contract!Init
    OBVIOUS
  <2>1. \A j \in Job : Phase(j) = "none"
    BY DEF Init, Phase
  <2> QED
    BY <2>1 DEF Init, Contract!Init
<1>2. LifeInv /\ LifeInv' /\ [Next]_vars => [Contract!Next]_(Contract!contractVars)
  <2>1. LifeInv /\ LifeInv' /\ Next => [Contract!Next]_(Contract!contractVars)
    BY ContractStep
  <2>2. UNCHANGED vars => UNCHANGED Contract!contractVars
    BY DEF vars, timeVars, jobVars, Contract!contractVars, Phase, Download,
           Available, ResultKind, Payload, Sampled, Anonymous
  <2> QED
    BY <2>1, <2>2
<1> QED
  BY <1>1, <1>2, LifeInvariant, PTL DEF Spec, ContractSafety
=============================================================================
