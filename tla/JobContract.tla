----------------------------- MODULE JobContract -----------------------------
(***************************************************************************)
(* What the job surface promises a client that asks for a job by its id:   *)
(* an accepted upload is pending until it settles, settles once, as ready  *)
(* (a result can be fetched) or failed, stays so for at least the TTL, and *)
(* only then is forgotten.                                                 *)
(***************************************************************************)
EXTENDS Integers

CONSTANTS Job, Ttl, Never

VARIABLES
    now,    \* the clock
    phase,  \* what the client sees of each job
    since   \* when it settled

contractVars == <<now, phase, since>>

Init ==
    /\ now = 0
    /\ phase = [j \in Job |-> "none"]
    /\ since = [j \in Job |-> Never]

Accept(j) ==
    /\ phase[j] = "none"
    /\ phase' = [phase EXCEPT ![j] = "pending"]
    /\ UNCHANGED <<now, since>>

(* A sample is ready from the start; a real job settles later.             *)
Settle(j, from, to) ==
    /\ phase[j] = from
    /\ phase' = [phase EXCEPT ![j] = to]
    /\ since' = [since EXCEPT ![j] = now]
    /\ UNCHANGED now

Resolve(j) == Settle(j, "pending", "ready") \/ Settle(j, "pending", "failed")

Stale == {j \in Job : phase[j] \in {"ready", "failed"} /\ now - since[j] > Ttl}

Forget ==
    /\ phase' = [j \in Job |-> IF j \in Stale THEN "gone" ELSE phase[j]]
    /\ UNCHANGED <<now, since>>

Pass ==
    /\ now' = now + 1
    /\ UNCHANGED <<phase, since>>

Next ==
    \/ \E j \in Job : Accept(j) \/ Settle(j, "none", "ready") \/ Resolve(j)
    \/ Forget
    \/ Pass

Spec ==
    /\ Init /\ [][Next]_contractVars
    /\ \A j \in Job : WF_contractVars(Resolve(j))
=============================================================================
