--------------------------- MODULE BreakerClients ---------------------------
(***************************************************************************)
(* The circuit breaker with the requests that go through it, as            *)
(* BidPipeline::process and the batch callback drive it.  Between the call *)
(* of allow_request and the report of the outcome a request is encoded,    *)
(* queued and run in a batch by another thread; other requests are         *)
(* admitted and report in between, in any order.                           *)
(*                                                                         *)
(*   idle      not in the bidder (a slot is reused by the next request)    *)
(*   admitted  allow_request() said yes, not yet submitted                 *)
(*   queued    submitted to the batcher, waiting or running                *)
(*   ok, bad   the batch ran: the callback is about to report              *)
(*                                                                         *)
(* A request the breaker denies, or the batcher sheds, is answered without *)
(* a report.                                                               *)
(***************************************************************************)
EXTENDS CircuitBreaker, FiniteSets

CONSTANTS
    Requests,       \* slots for requests that are in the bidder together
    QueueMax        \* queue_max_ of the batcher

ASSUME ClientsAssumption == QueueMax \in Nat \ {0}

VARIABLES
    phase,          \* where each request is
    healthy,        \* does ModelSession::run succeed at present
    \* History variables, used by the properties only.
    sinceSuccess,   \* failures reported since the last success (<= FailureCap)
    quiet           \* ticks since the last reported failure (<= Cooldown)

vars == <<state, failures, elapsed, phase, healthy, sinceSuccess, quiet>>

Phase == {"idle", "admitted", "queued", "ok", "bad"}

\* The types of the breaker's fields (circuit_breaker.h:33-38) and of the
\* requests around it.
TypeOK ==
    /\ BreakerTypeOK
    /\ phase \in [Requests -> Phase]
    /\ healthy \in BOOLEAN
    /\ sinceSuccess \in 0 .. FailureCap
    /\ quiet \in 0 .. Cooldown

Init ==
    /\ BreakerInit
    /\ phase = [r \in Requests |-> "idle"]
    /\ healthy = TRUE
    /\ sinceSuccess = 0
    /\ quiet = Cooldown

Move(r, from, to) ==
    /\ phase[r] = from
    /\ phase' = [phase EXCEPT ![r] = to]

InPhase(p) == {r \in Requests : phase[r] = p}

\* process(): the breaker lets the request use the model.
Admit(r) ==
    /\ Move(r, "idle", "admitted")
    /\ AllowRequest
    /\ UNCHANGED <<healthy, sinceSuccess, quiet>>

\* process(): the breaker is open; the fallback bid is returned at once.
Deny(r) ==
    /\ phase[r] = "idle"
    /\ DenyRequest
    /\ UNCHANGED <<phase, healthy, sinceSuccess, quiet>>

\* submit() accepts the job.
Submit(r) ==
    /\ Move(r, "admitted", "queued")
    /\ UNCHANGED <<breakerVars, healthy, sinceSuccess, quiet>>

\* submit() finds the queue full; only then is an admitted request lost to
\* the breaker.  The queue holds some of the requests that are queued here
\* (the others are running), so at least QueueMax are.
Shed(r) ==
    /\ Cardinality(InPhase("queued")) >= QueueMax
    /\ Move(r, "admitted", "idle")
    /\ UNCHANGED <<breakerVars, healthy, sinceSuccess, quiet>>

\* A worker runs the batch the request is in.
RunModel(r) ==
    /\ Move(r, "queued", IF healthy THEN "ok" ELSE "bad")
    /\ UNCHANGED <<breakerVars, healthy, sinceSuccess, quiet>>

\* The callback with ok = true.
Succeed(r) ==
    /\ Move(r, "ok", "idle")
    /\ RecordSuccess
    /\ sinceSuccess' = 0
    /\ UNCHANGED <<healthy, quiet>>

\* The callback with ok = false.
Fail(r) ==
    /\ Move(r, "bad", "idle")
    /\ RecordFailure
    /\ sinceSuccess' = CountFailure(sinceSuccess)
    /\ quiet' = 0
    /\ UNCHANGED healthy

\* The model breaks or recovers (a hot reload, a failing runtime).
Flip ==
    /\ healthy' = ~healthy
    /\ UNCHANGED <<breakerVars, phase, sinceSuccess, quiet>>

Tick ==
    /\ BreakerTick
    /\ quiet' = Later(quiet)
    /\ UNCHANGED <<phase, healthy, sinceSuccess>>

Next ==
    \/ \E r \in Requests :
          \/ Admit(r) \/ Deny(r) \/ Submit(r) \/ Shed(r)
          \/ RunModel(r) \/ Succeed(r) \/ Fail(r)
    \/ Flip
    \/ Tick

\* The clock runs.  A thread that has a request in hand goes on with it.
\* Bid requests keep arriving: the auction engine calls GetBid on every
\* auction, without end.  Nothing is assumed of Flip: the model may stay
\* broken.
Fairness ==
    /\ WF_vars(Tick)
    /\ \A r \in Requests :
          /\ WF_vars(Admit(r) \/ Deny(r))
          /\ WF_vars(Submit(r) \/ Shed(r))
          /\ WF_vars(RunModel(r))
          /\ WF_vars(Succeed(r) \/ Fail(r))

Spec == Init /\ [][Next]_vars
FairSpec == Spec /\ Fairness

-----------------------------------------------------------------------------
(* Properties *)

\* The breaker is closed exactly while fewer than FailureThreshold failures
\* have been reported since the last success, however the reports of
\* overlapping requests are ordered: reports that arrive late, while it is
\* open or half-open, never leave record_failure and record_success
\* (circuit_breaker.cpp:23-42) with a count that disagrees with the state.
OpenIffFailing ==
    (state = "CLOSED") <=> (sinceSuccess < FailureThreshold)

\* While the model is failing (FailureThreshold failures and no success
\* since) no request is sent to it within the cooldown of the LAST failure
\* reported, by whichever request: allow_request (circuit_breaker.cpp:5-21)
\* measures from opened_at_, which every late failure must push forward.
NoAdmissionDuringCooldown ==
    [][\A r \in Requests :
         /\ phase[r] = "idle"
         /\ phase'[r] = "admitted"
         /\ sinceSuccess >= FailureThreshold
         => quiet >= Cooldown]_vars

\* Once the model is healthy for good the breaker closes and stays closed:
\* it is never stuck open or half-open, although an admitted request may be
\* shed without any report (bid_pipeline.cpp:78-84).
RecoversWhenHealthy == <>[]healthy => <>[](state = "CLOSED")

\* circuit_breaker.h:12 says "After a cooldown we let one request through
\* ("half-open")": a half-open breaker, whose one request is already on its
\* way, admits no other.
OneProbeWhenHalfOpen ==
    [][\A r \in Requests :
         phase[r] = "idle" /\ phase'[r] = "admitted"
            => state # "HALF_OPEN"]_vars
=============================================================================
