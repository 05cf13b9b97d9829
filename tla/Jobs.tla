-------------------------------- MODULE Jobs --------------------------------
(***************************************************************************)
(* The async job surface of the worker: routes/parse.py and jobs.py.       *)
(*                                                                         *)
(* One event loop runs every handler, every job runner, every SSE          *)
(* generator and the sweeper; the engine runs in worker threads.  An       *)
(* action is what happens between two suspension points of one of them     *)
(* (an await that really waits, a yield of a generator), or one step of    *)
(* an engine thread.  Synchronous callers of the engine (sync parse,       *)
(* redact, inspect) share the semaphore with the jobs.                     *)
(***************************************************************************)
EXTENDS Integers, Sequences, FiniteSets

CONSTANTS
    Job,            \* the jobs that may be submitted
    NoJob,          \* the job of a connection not yet made
    Sync,           \* the synchronous engine requests that may be made
    Stream,         \* the SSE connections that may be opened
    Requests,       \* the requests a job may be for: [tier, fmt] records
    MaxConcurrent,  \* settings.parse_max_concurrent
    MaxProgress,    \* bound: progress events of one engine run
    Ttl,            \* settings.job_ttl_seconds
    MaxTime,        \* bound: the clock
    SingleConsumer  \* TRUE: clients keep to "One consumer per job"

Actor == Job \cup Sync

(* What a request asks for: the tier decides sample or watermark.          *)
RequestType == [tier : {"sample", "anonymous", "key"}, fmt : {"json", "csv"}]

ASSUME JobsAssumption ==
    /\ IsFiniteSet(Job) /\ IsFiniteSet(Sync)
    /\ Job \cap Sync = {}
    /\ NoJob \notin Job
    /\ Requests \subseteq RequestType
    /\ MaxConcurrent \in Nat \ {0}
    /\ MaxProgress \in Nat
    /\ Ttl \in Nat \ {0}
    /\ MaxTime \in Nat
    /\ SingleConsumer \in BOOLEAN

Never    == -1   \* terminal_at is None
Terminal == 0    \* the TERMINAL_STAGE marker; progress events are 1..MaxProgress
NoRequest == [tier |-> "none", fmt |-> "json"]
NoEvent   == [state |-> "none", body |-> "none"]

VARIABLES
    clock,       \* time.monotonic()
    sweepAt,     \* when the sweeper's sleep ends
    registry,    \* JobStore._jobs
    request,     \* the request of each job
    jobState,    \* Job.state
    result,      \* Job.result is set
    lastEvent,   \* Job.last_event, 0 for None
    scheduled,   \* progress events the engine thread has handed to the loop
    inflight,    \* the loop callbacks that will put them on the queue
    queue,       \* Job.queue
    terminalAt,  \* Job.terminal_at
    pc,          \* where a runner or a synchronous handler is
    permits,     \* the semaphore's value
    waiters,     \* the semaphore's FIFO of waiters
    counted,     \* actors with a success row in the audit log
    spc,         \* where an SSE generator is
    sjob,        \* the job it serves
    replayed,    \* the progress event it sent before any of the queue, 0 for none
    drained,     \* the last progress event it took from the queue and sent
    final        \* the result event it sent

timeVars   == <<clock, sweepAt>>
jobVars    == <<registry, request, jobState, result, terminalAt>>
eventVars  == <<lastEvent, scheduled, inflight>>
semVars    == <<pc, permits, waiters>>
streamVars == <<spc, sjob, replayed, drained, final>>
vars == <<timeVars, jobVars, eventVars, queue, semVars, counted, streamVars>>

Live == {"queued", "running"}
Done == {"done", "failed"}

Init ==
    /\ clock = 0
    /\ sweepAt = Ttl
    /\ registry = {}
    /\ request = [j \in Job |-> NoRequest]
    /\ jobState = [j \in Job |-> "absent"]
    /\ result = [j \in Job |-> FALSE]
    /\ lastEvent = [j \in Job |-> 0]
    /\ scheduled = [j \in Job |-> 0]
    /\ inflight = [j \in Job |-> <<>>]
    /\ queue = [j \in Job |-> <<>>]
    /\ terminalAt = [j \in Job |-> Never]
    /\ pc = [a \in Actor |-> "idle"]
    /\ permits = MaxConcurrent
    /\ waiters = <<>>
    /\ counted = {}
    /\ spc = [s \in Stream |-> "idle"]
    /\ sjob = [s \in Stream |-> NoJob]
    /\ replayed = [s \in Stream |-> 0]
    /\ drained = [s \in Stream |-> 0]
    /\ final = [s \in Stream |-> NoEvent]

-----------------------------------------------------------------------------
(* The semaphore (asyncio.Semaphore): FIFO, and a release hands the permit *)
(* to the first waiter, which resumes in a later step of the loop.         *)

Enter(a) ==
    /\ permits > 0 /\ waiters = <<>>
    /\ permits' = permits - 1
    /\ pc' = [pc EXCEPT ![a] = "engine"]
    /\ UNCHANGED waiters

Queue(a) ==
    /\ permits = 0 \/ waiters # <<>>
    /\ waiters' = Append(waiters, a)
    /\ pc' = [pc EXCEPT ![a] = "waiting"]
    /\ UNCHANGED permits

Resume(a) ==
    /\ pc[a] = "granted"
    /\ pc' = [pc EXCEPT ![a] = "engine"]
    /\ UNCHANGED <<permits, waiters>>

(* Deviation: the permit is handed over and also given back.              *)
ReleaseTwice(a) ==
    /\ permits' = permits + 1
    /\ waiters' = IF waiters = <<>> THEN waiters ELSE Tail(waiters)
    /\ pc' = [b \in Actor |->
                IF b = a THEN "finished"
                ELSE IF waiters # <<>> /\ b = Head(waiters) THEN "granted" ELSE pc[b]]

(* Deviation: the permit is given back, but nobody is woken.               *)
ReleaseSilently(a) ==
    /\ permits' = permits + 1
    /\ pc' = [pc EXCEPT ![a] = "finished"]
    /\ UNCHANGED waiters

Release(a) ==
    \/ /\ waiters = <<>>
       /\ permits' = permits + 1
       /\ pc' = [pc EXCEPT ![a] = "finished"]
       /\ UNCHANGED waiters
    \/ /\ waiters # <<>>
       /\ waiters' = Tail(waiters)
       /\ pc' = [pc EXCEPT ![a] = "finished", ![Head(waiters)] = "granted"]
       /\ UNCHANGED permits

-----------------------------------------------------------------------------
(* Deviation: the canned job is not stamped.                               *)
SubmitSampleUnstamped(j, r) ==
    /\ pc[j] = "idle" /\ r.tier = "sample"
    /\ registry' = registry \cup {j}
    /\ request' = [request EXCEPT ![j] = r]
    /\ jobState' = [jobState EXCEPT ![j] = "done"]
    /\ pc' = [pc EXCEPT ![j] = "finished"]
    /\ UNCHANGED <<timeVars, result, terminalAt, eventVars, queue, permits,
                   waiters, counted, streamVars>>

(* submit_job over a free cap: a canned job, created already done.         *)
SubmitSample(j, r) ==
    /\ pc[j] = "idle" /\ r.tier = "sample"
    /\ registry' = registry \cup {j}
    /\ request' = [request EXCEPT ![j] = r]
    /\ jobState' = [jobState EXCEPT ![j] = "done"]
    /\ terminalAt' = [terminalAt EXCEPT ![j] = clock]
    /\ pc' = [pc EXCEPT ![j] = "finished"]
    /\ UNCHANGED <<timeVars, result, eventVars, queue, permits, waiters,
                   counted, streamVars>>

(* submit_job of an admitted upload: the job is registered, its runner     *)
(* task created, and the 202 returned.                                     *)
SubmitJob(j, r) ==
    /\ pc[j] = "idle" /\ r.tier # "sample"
    /\ registry' = registry \cup {j}
    /\ request' = [request EXCEPT ![j] = r]
    /\ jobState' = [jobState EXCEPT ![j] = "queued"]
    /\ pc' = [pc EXCEPT ![j] = "created"]
    /\ UNCHANGED <<timeVars, result, terminalAt, eventVars, queue, permits,
                   waiters, counted, streamVars>>

(* _run_job up to the semaphore, and through it when a permit is free.     *)
StartJob(j) ==
    /\ pc[j] = "created"
    /\ \/ Enter(j) /\ jobState' = [jobState EXCEPT ![j] = "running"]
       \/ Queue(j) /\ UNCHANGED jobState
    /\ UNCHANGED <<timeVars, registry, request, result, terminalAt, eventVars,
                   queue, counted, streamVars>>

(* _run_job resumes with the permit a release handed to it.                *)
ResumeJob(j) ==
    /\ Resume(j)
    /\ jobState' = [jobState EXCEPT ![j] = "running"]
    /\ UNCHANGED <<timeVars, registry, request, result, terminalAt, eventVars,
                   queue, counted, streamVars>>

(* _progress_relay in the engine thread: last_event first, ...             *)
RelayReplay(j) ==
    /\ pc[j] = "engine"
    /\ lastEvent[j] = scheduled[j] /\ lastEvent[j] < MaxProgress
    /\ lastEvent' = [lastEvent EXCEPT ![j] = @ + 1]
    /\ UNCHANGED <<timeVars, jobVars, scheduled, inflight, queue, semVars,
                   counted, streamVars>>

(* ... then call_soon_threadsafe.                                          *)
RelaySchedule(j) ==
    /\ pc[j] = "engine"
    /\ scheduled[j] < lastEvent[j]
    /\ scheduled' = [scheduled EXCEPT ![j] = @ + 1]
    /\ inflight' = [inflight EXCEPT ![j] = Append(@, lastEvent[j])]
    /\ UNCHANGED <<timeVars, jobVars, lastEvent, queue, semVars, counted,
                   streamVars>>

(* Deviation: the newest event is put in front.                            *)
RunCallbackInFront(j) ==
    /\ inflight[j] # <<>>
    /\ inflight' = [inflight EXCEPT ![j] = Tail(@)]
    /\ queue' = [queue EXCEPT ![j] = <<Head(inflight[j])>> \o @]
    /\ UNCHANGED <<timeVars, jobVars, lastEvent, scheduled, semVars, counted,
                   streamVars>>

(* The loop runs the callback: put_nowait.                                 *)
RunCallback(j) ==
    /\ inflight[j] # <<>>
    /\ inflight' = [inflight EXCEPT ![j] = Tail(@)]
    /\ queue' = [queue EXCEPT ![j] = Append(@, Head(inflight[j]))]
    /\ UNCHANGED <<timeVars, jobVars, lastEvent, scheduled, semVars, counted,
                   streamVars>>

(* The engine call of a thread returns ("parsed") or raises ("broken");    *)
(* the engine's own timeout makes it do one or the other.                  *)
EngineReturn(a) ==
    /\ pc[a] = "engine"
    /\ a \in Job => scheduled[a] = lastEvent[a]
    /\ \E o \in {"parsed", "broken"} : pc' = [pc EXCEPT ![a] = o]
    /\ UNCHANGED <<timeVars, jobVars, eventVars, queue, permits, waiters,
                   counted, streamVars>>

(* Deviation: the end overtakes progress the loop has not put yet.         *)
EndJobOvertaking(j, s) ==
    /\ Release(j)
    /\ jobState' = [jobState EXCEPT ![j] = s]
    /\ terminalAt' = [terminalAt EXCEPT ![j] = clock]
    /\ queue' = [queue EXCEPT ![j] = Append(@, Terminal)]
    /\ UNCHANGED <<timeVars, registry, request, eventVars, streamVars>>

(* Deviation: the terminal marker is not put.                              *)
EndJobUnmarked(j, s) ==
    /\ inflight[j] = <<>>
    /\ Release(j)
    /\ jobState' = [jobState EXCEPT ![j] = s]
    /\ terminalAt' = [terminalAt EXCEPT ![j] = clock]
    /\ UNCHANGED <<timeVars, registry, request, eventVars, queue, streamVars>>

(* Either end of _run_job is one step of the loop: nothing in it suspends. *)
(* It was scheduled from the same thread after every relay, so those       *)
(* callbacks have run.                                                     *)
EndJob(j, s) ==
    /\ inflight[j] = <<>>
    /\ Release(j)
    /\ jobState' = [jobState EXCEPT ![j] = s]
    /\ terminalAt' = [terminalAt EXCEPT ![j] = clock]
    /\ queue' = [queue EXCEPT ![j] = Append(@, Terminal)]
    /\ UNCHANGED <<timeVars, registry, request, eventVars, streamVars>>

(* The else arm: the result is in place; the success row may fail to be    *)
(* written, which is logged and leaves the job done.                       *)
FinishJob(j) ==
    /\ pc[j] = "parsed"
    /\ EndJob(j, "done")
    /\ result' = [result EXCEPT ![j] = TRUE]
    /\ counted' \in {counted, counted \cup {j}}

(* Deviation: the exception leaves the job "running".                      *)
FailJobStuck(j) ==
    /\ pc[j] = "broken"
    /\ EndJob(j, "running")
    /\ UNCHANGED <<result, counted>>

(* Deviation: the slot is not given back when the engine raises.           *)
FailJobKeepsSlot(j) ==
    /\ pc[j] = "broken" /\ inflight[j] = <<>>
    /\ pc' = [pc EXCEPT ![j] = "finished"]
    /\ jobState' = [jobState EXCEPT ![j] = "failed"]
    /\ terminalAt' = [terminalAt EXCEPT ![j] = clock]
    /\ queue' = [queue EXCEPT ![j] = Append(@, Terminal)]
    /\ UNCHANGED <<timeVars, registry, request, result, eventVars, permits,
                   waiters, counted, streamVars>>

(* Deviation: every run that ends is audited as a success.                 *)
FailJobCounted(j) ==
    /\ pc[j] = "broken"
    /\ EndJob(j, "failed")
    /\ counted' = counted \cup {j}
    /\ UNCHANGED result

(* The except arms: _fail_job, and a failure row that does not count.      *)
FailJob(j) ==
    /\ pc[j] = "broken"
    /\ EndJob(j, "failed")
    /\ UNCHANGED <<result, counted>>

-----------------------------------------------------------------------------
(* The synchronous routes: an admitted upload waits for a permit, ...      *)
StartSync(a) ==
    /\ pc[a] = "idle"
    /\ Enter(a) \/ Queue(a)
    /\ UNCHANGED <<timeVars, jobVars, eventVars, queue, counted, streamVars>>

ResumeSync(a) ==
    /\ Resume(a)
    /\ UNCHANGED <<timeVars, jobVars, eventVars, queue, counted, streamVars>>

(* ... and answers: a success is audited before the response (an audit     *)
(* write that raises is a 500), an engine error through fail_response.     *)
EndSync(a) ==
    /\ pc[a] \in {"parsed", "broken"}
    /\ Release(a)
    /\ \/ counted' = counted
       \/ pc[a] = "parsed" /\ counted' = counted \cup {a}
    /\ UNCHANGED <<timeVars, jobVars, eventVars, queue, streamVars>>

-----------------------------------------------------------------------------
(* What the serving code hands out for a job.                              *)

Sampled(j)   == request[j].tier = "sample"
Anonymous(j) == request[j].tier = "anonymous"

(* job.result_kind keeps its default until the result is set.              *)
ResultKind(j) == IF jobState[j] = "done" THEN request[j].fmt ELSE "json"

Available(j) == jobState[j] = "done" /\ (result[j] \/ Sampled(j))

(* _json_payload and _csv_payload.                                         *)
Payload(j) ==
    CASE Sampled(j)   -> "sample"
      [] Anonymous(j) -> "watermarked"
      [] OTHER        -> "clean"

(* _sse_result: json rides the event, csv is fetched from the url.         *)
SseResult(j) ==
    [state |-> jobState[j],
     body  |-> IF ~Available(j) THEN "none"
               ELSE IF ResultKind(j) = "json" THEN Payload(j) ELSE "url"]

(* _snapshot: the inlined result of a poll.                                *)
SnapshotBody(j) ==
    IF /\ jobState[j] = "done" /\ result[j]
       /\ ResultKind(j) = "json" /\ ~Anonymous(j)
    THEN "clean" ELSE "none"

(* Deviation: GET /result serves every json result as it is.               *)
DownloadRaw(j) ==
    IF ~Available(j) THEN "404"
    ELSE IF ResultKind(j) = "json" /\ result[j] THEN "clean" ELSE Payload(j)

(* job_result: what GET /result answers.                                   *)
Download(j) ==
    IF ~Available(j) THEN "404"
    ELSE IF ResultKind(j) = "json" /\ result[j] /\ ~Anonymous(j) THEN "clean"
    ELSE Payload(j)

-----------------------------------------------------------------------------
(* The SSE generator, _event_stream.                                       *)

Open(s) == spc[s] \in {"replay", "loop", "getting"}

(* stream_job: get_or_404 without an owner.                                *)
Connect(s, j) ==
    /\ spc[s] = "idle"
    /\ j \in registry
    /\ SingleConsumer => \A t \in Stream : ~(Open(t) /\ sjob[t] = j)
    /\ spc' = [spc EXCEPT ![s] = "replay"]
    /\ sjob' = [sjob EXCEPT ![s] = j]
    /\ UNCHANGED <<timeVars, jobVars, eventVars, queue, semVars, counted,
                   replayed, drained, final>>

SendResult(s) ==
    /\ final' = [final EXCEPT ![s] = SseResult(sjob[s])]
    /\ spc' = [spc EXCEPT ![s] = "closed"]
    /\ UNCHANGED drained

SendProgress(s, n) ==
    /\ drained' = [drained EXCEPT ![s] = n]
    /\ spc' = [spc EXCEPT ![s] = "loop"]
    /\ UNCHANGED final

(* queue.get returns at once when the queue is not empty.                  *)
Take(s) ==
    /\ queue[sjob[s]] # <<>>
    /\ queue' = [queue EXCEPT ![sjob[s]] = Tail(@)]
    /\ LET e == Head(queue[sjob[s]])
       IN  IF e = Terminal THEN SendResult(s) ELSE SendProgress(s, e)

(* The head of the while loop, up to the next yield or a get that waits.   *)
Advance(s) ==
    \/ /\ jobState[sjob[s]] \in Done
       /\ SendResult(s)
       /\ UNCHANGED queue
    \/ /\ jobState[sjob[s]] \in Live
       /\ Take(s)
    \/ /\ jobState[sjob[s]] \in Live
       /\ queue[sjob[s]] = <<>>
       /\ spc' = [spc EXCEPT ![s] = "getting"]
       /\ UNCHANGED <<queue, drained, final>>

(* The first step sends last_event, if there is one; whatever of the queue *)
(* led up to it is still there, and is sent after it.                      *)
StreamStep(s) ==
    /\ \/ /\ spc[s] = "replay" /\ lastEvent[sjob[s]] # 0
          /\ replayed' = [replayed EXCEPT ![s] = lastEvent[sjob[s]]]
          /\ spc' = [spc EXCEPT ![s] = "loop"]
          /\ UNCHANGED <<queue, drained, final>>
       \/ /\ \/ spc[s] = "replay" /\ lastEvent[sjob[s]] = 0 /\ Advance(s)
             \/ spc[s] = "loop" /\ Advance(s)
             \/ spc[s] = "getting" /\ Take(s)
          /\ UNCHANGED replayed
    /\ UNCHANGED <<timeVars, jobVars, eventVars, semVars, counted, sjob>>

(* The client goes away and the server cancels the generator.              *)
Disconnect(s) ==
    /\ Open(s)
    /\ spc' = [spc EXCEPT ![s] = "gone"]
    /\ UNCHANGED <<timeVars, jobVars, eventVars, queue, semVars, counted,
                   sjob, replayed, drained, final>>

-----------------------------------------------------------------------------
(* JobStore.sweep, called by _job_sweeper when its sleep ends.             *)

(* Deviation: a job is evicted when it is exactly as old as the TTL.       *)
ExpiredAtTtl ==
    {j \in registry : terminalAt[j] # Never /\ clock - terminalAt[j] >= Ttl}

(* Deviation: a job that has not settled is evicted with the others.       *)
ExpiredUnsettled == {j \in registry : clock - terminalAt[j] > Ttl}

Expired == {j \in registry : terminalAt[j] # Never /\ clock - terminalAt[j] > Ttl}

Sweep ==
    /\ clock >= sweepAt
    /\ registry' = registry \ Expired
    /\ result' = [j \in Job |-> result[j] /\ j \notin Expired]
    /\ sweepAt' = clock + Ttl
    /\ UNCHANGED <<clock, request, jobState, terminalAt, eventVars, queue,
                   semVars, counted, streamVars>>

(* Time passes; a loop on time never lets a sweep fall behind.             *)
Tick ==
    /\ clock < MaxTime
    /\ clock < sweepAt
    /\ clock' = clock + 1
    /\ UNCHANGED <<sweepAt, jobVars, eventVars, queue, semVars, counted,
                   streamVars>>

(* Nothing left to do within the bounds.                                   *)
Quiet ==
    /\ \A a \in Actor : pc[a] = "finished"
    /\ \A s \in Stream : spc[s] \in {"closed", "gone"} \/ registry = {}
    /\ clock = MaxTime /\ clock < sweepAt
    /\ UNCHANGED vars

JobStep(j) ==
    \/ StartJob(j) \/ ResumeJob(j)
    \/ RelayReplay(j) \/ RelaySchedule(j) \/ RunCallback(j)
    \/ FinishJob(j) \/ FailJob(j)

Next ==
    \/ \E j \in Job, r \in Requests : SubmitSample(j, r) \/ SubmitJob(j, r)
    \/ \E j \in Job : JobStep(j)
    \/ \E a \in Actor : EngineReturn(a)
    \/ \E a \in Sync : StartSync(a) \/ ResumeSync(a) \/ EndSync(a)
    \/ \E s \in Stream, j \in Job : Connect(s, j)
    \/ \E s \in Stream : StreamStep(s) \/ Disconnect(s)
    \/ Sweep
    \/ Tick
    \/ Quiet

(* The loop runs what is ready, and the engine's timeout ends every run.   *)
(* Submitting, connecting and leaving are the clients' choice; a client    *)
(* that stays reads what it is sent.                                       *)
Fairness ==
    /\ \A j \in Job : WF_vars(JobStep(j))
    /\ \A a \in Actor : WF_vars(EngineReturn(a))
    /\ \A a \in Sync : WF_vars(ResumeSync(a)) /\ WF_vars(EndSync(a))
    /\ \A s \in Stream : WF_vars(StreamStep(s))

Spec == Init /\ [][Next]_vars /\ Fairness
-----------------------------------------------------------------------------
(* The type invariant.                                                     *)
PcType == {"idle", "created", "waiting", "granted", "engine", "parsed",
           "broken", "finished"}
EventType == [state : Live \cup Done \cup {"absent", "none"},
              body : {"none", "url", "sample", "watermarked", "clean"}]

TypeOK ==
    /\ clock \in 0..MaxTime
    /\ sweepAt \in Nat
    /\ registry \in SUBSET Job
    /\ request \in [Job -> RequestType \cup {NoRequest}]
    /\ jobState \in [Job -> Live \cup Done \cup {"absent"}]
    /\ result \in [Job -> BOOLEAN]
    /\ lastEvent \in [Job -> 0..MaxProgress]
    /\ scheduled \in [Job -> 0..MaxProgress]
    /\ inflight \in [Job -> Seq(1..MaxProgress)]
    /\ queue \in [Job -> Seq(0..MaxProgress)]
    /\ terminalAt \in [Job -> 0..MaxTime \cup {Never}]
    /\ pc \in [Actor -> PcType]
    /\ permits \in 0..MaxConcurrent
    /\ waiters \in Seq(Actor)
    /\ counted \in SUBSET Actor
    /\ spc \in [Stream -> {"idle", "replay", "loop", "getting", "closed", "gone"}]
    /\ sjob \in [Stream -> Job \cup {NoJob}]
    /\ replayed \in [Stream -> 0..MaxProgress]
    /\ drained \in [Stream -> 0..MaxProgress]
    /\ final \in [Stream -> EventType]

(* Actors that own a permit: running, resumed with one, or about to give   *)
(* it back.                                                                *)
Holders == {a \in Actor : pc[a] \in {"granted", "engine", "parsed", "broken"}}

(* The engine never runs in more threads than parse_max_concurrent, sync   *)
(* and async together (parse.py:101-103, docs/rules/worker.md:40).         *)
EngineCap == Cardinality({a \in Actor : pc[a] = "engine"}) <= MaxConcurrent

(* Every permit is free or held by one actor, nobody holds or awaits two,  *)
(* and no permit is free while somebody waits: whatever the engine does,   *)
(* an engine call that fails costs no slot.                                *)
SlotsConserved ==
    /\ permits + Cardinality(Holders) = MaxConcurrent
    /\ waiters # <<>> => permits = 0
    /\ \A a \in Actor :
         pc[a] = "waiting" <=> \E i \in 1..Len(waiters) : waiters[i] = a
    /\ \A i, k \in 1..Len(waiters) : waiters[i] = waiters[k] => i = k

(* A job's queue is progress in the order the engine made it, and the      *)
(* terminal marker is the last thing ever put on it: a reader that stops   *)
(* at the marker has missed nothing.                                       *)
TerminalLast ==
    \A j \in Job :
        /\ \A i \in 1..Len(queue[j]) : queue[j][i] = Terminal =>
              /\ i = Len(queue[j])
              /\ jobState[j] \in Done
              /\ inflight[j] = <<>>
        /\ \A i, k \in 1..Len(queue[j]) :
              i < k /\ queue[j][k] # Terminal => queue[j][i] < queue[j][k]

(* The result event tells how the job ended, and carries its body unless   *)
(* the job has been swept since: no stream ends on a job that is still     *)
(* queued or running, and a done job's stream ends empty-handed only when  *)
(* the client read so slowly that the TTL went by.                         *)
FinalEventTruthful ==
    \A s \in Stream : spc[s] = "closed" =>
        /\ final[s].state \in Done
        /\ final[s].state = jobState[sjob[s]]
        /\ final[s].state = "done" /\ final[s].body = "none" =>
              sjob[s] \notin registry

(* Anonymous output never leaves unwatermarked, on any of the channels     *)
(* that serve a job (parse.py:284-287).                                    *)
NoCleanDemoOutput ==
    \A j \in Job : Anonymous(j) =>
        "clean" \notin {SseResult(j).body, SnapshotBody(j), Download(j)}

(* A parse is counted only when its caller has the result: a failed job    *)
(* never counts ("if the engine cannot read it, you do not pay").          *)
CountedIsServed == \A j \in counted \cap Job : jobState[j] = "done"

(* A settled job can be asked for until it is older than the TTL, and a    *)
(* done one downloaded.                                                    *)
KeptForTtl ==
    \A j \in Job :
        /\ jobState[j] \in Live => j \in registry
        /\ jobState[j] \in Done /\ clock - terminalAt[j] <= Ttl =>
              /\ j \in registry
              /\ jobState[j] = "done" => Download(j) # "404"

(* No result outlives two TTLs in memory, however the job ended; one TTL   *)
(* (PRIVACY.md:67, "At most 5 minutes") it may.                            *)
ClearedAfterTwoTtl ==
    \A j \in Job : jobState[j] \in Done /\ (j \in registry \/ result[j]) =>
        terminalAt[j] # Never /\ clock - terminalAt[j] <= 2 * Ttl

(* What the readers of a job are sent.                                     *)
Readers(j) == {t \in Stream : sjob[t] = j}

(* The last progress a client has been sent.                               *)
Shown(s) == IF drained[s] = 0 THEN replayed[s] ELSE drained[s]

(* n comes next of what the readers of s's job, who share its queue, have  *)
(* taken from it.                                                          *)
NextForReaders(s, n) ==
    /\ \A t \in Readers(sjob[s]) : drained[t] < n
    /\ n = 1 \/ \E t \in Readers(sjob[s]) : drained[t] = n - 1

(* The queue reaches its readers whole and in order: each event goes to    *)
(* one of them, none is skipped, so a client that keeps to "One consumer   *)
(* per job" misses none before the end, also when it takes over from one   *)
(* that left.  The replay comes first on a stream, and is no older than    *)
(* anything scheduled by then or taken by anybody ("so a late subscriber   *)
(* sees current state").  But the events up to it may still be queued: a   *)
(* client is taken back, or sent an event again, where the queue follows   *)
(* the replay, and nowhere else.                                           *)
StreamInOrder ==
    [][\A s \in Stream :
        /\ drained'[s] # drained[s] => NextForReaders(s, drained'[s])
        /\ drained'[s] # drained[s] /\ drained'[s] <= Shown(s) =>
              drained[s] = 0 /\ replayed[s] # 0
        /\ replayed'[s] # replayed[s] =>
              /\ replayed[s] = 0 /\ drained'[s] = 0
              /\ scheduled[sjob[s]] <= replayed'[s]
              /\ \A t \in Readers(sjob[s]) : drained[t] <= replayed'[s]]_vars

(* Every accepted job settles ("never leave a job stuck 'running'"), and   *)
(* every synchronous request that was started is answered, whatever they   *)
(* share the semaphore with.                                               *)
EverythingSettles ==
    /\ \A j \in Job : (jobState[j] = "queued") ~> (jobState[j] \in Done)
    /\ \A a \in Sync : (pc[a] # "idle") ~> (pc[a] = "finished")

(* With one consumer per job, every stream ends with a result event unless *)
(* its client leaves: the marker is never missed, whether the reader was   *)
(* early, late, or replaced an earlier one.                                *)
StreamEnds == \A s \in Stream : Open(s) ~> ~Open(s)

(* What a client sees of a job when it asks for it by id.                  *)
Phase(j) ==
    IF j \notin registry
    THEN IF jobState[j] = "absent" THEN "none" ELSE "gone"
    ELSE CASE jobState[j] \in Live                        -> "pending"
           [] jobState[j] = "done" /\ Download(j) # "404" -> "ready"
           [] jobState[j] = "failed"                      -> "failed"
           [] OTHER                                       -> "lost"

Contract == INSTANCE JobContract
    WITH now <- clock, phase <- [j \in Job |-> Phase(j)], since <- terminalAt

(* The job surface keeps its contract.                                     *)
KeepsContract == Contract!Spec
=============================================================================
