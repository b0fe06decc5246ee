--------------------------- MODULE CircuitBreaker ---------------------------
(***************************************************************************)
(* The circuit breaker of the C++ bidder (cpp-bidder/src/circuit_breaker)  *)
(* as a component: its three fields and its three operations.  Each        *)
(* operation runs under mu_, so it is one atomic step.  The clients that   *)
(* call it are in BreakerClients (alone) and BidPipeline (composed with    *)
(* the rest of the bidder).                                                *)
(*                                                                         *)
(* Time.  The code stores opened_at_ and only ever compares                *)
(* now - opened_at_ with cooldown_ms_.  The model keeps that difference,   *)
(* elapsed, in ticks, and stops counting at the cooldown, where the        *)
(* comparison can no longer change.  It makes the state space finite with  *)
(* no bound on the length of a behaviour.                                  *)
(*                                                                         *)
(* Counting.  consecutive_failures_ is only ever compared with             *)
(* failure_threshold_, and grows past it when requests admitted earlier    *)
(* fail while the breaker is open.  The model counts up to FailureCap,     *)
(* any bound that is not below the threshold.                              *)
(***************************************************************************)
EXTENDS Integers

CONSTANTS
    FailureThreshold,   \* failure_threshold_ (config breaker_failure_threshold)
    Cooldown,           \* cooldown_ms_, in ticks of the model's clock
    FailureCap          \* bound: failures are counted up to here

\* A threshold of 0 or less would open the breaker on the first failure, as
\* a threshold of 1 does; the default is 5.
ASSUME BreakerAssumption ==
    /\ FailureThreshold \in Nat \ {0}
    /\ Cooldown \in Nat
    /\ FailureCap \in Nat
    /\ FailureCap >= FailureThreshold

VARIABLES
    state,      \* state_
    failures,   \* consecutive_failures_, counted up to FailureCap
    elapsed     \* now - opened_at_, counted up to Cooldown

breakerVars == <<state, failures, elapsed>>

BreakerState == {"CLOSED", "OPEN", "HALF_OPEN"}

BreakerTypeOK ==
    /\ state \in BreakerState
    /\ failures \in 0 .. FailureCap
    /\ elapsed \in 0 .. Cooldown

\* opened_at_ has no meaning before the breaker first opens; the default
\* time_point is far in the past.
BreakerInit ==
    /\ state = "CLOSED"
    /\ failures = 0
    /\ elapsed = Cooldown

\* Saturating counters.
CountFailure(n) == IF n < FailureCap THEN n + 1 ELSE n
Later(t) == IF t < Cooldown THEN t + 1 ELSE t

CooledDown == elapsed >= Cooldown

\* allow_request() returns true.  It moves an open breaker whose cooldown is
\* over to half-open; closed and half-open breakers admit everyone.
AllowRequest ==
    /\ state = "OPEN" => CooledDown
    /\ state' = IF state = "OPEN" THEN "HALF_OPEN" ELSE state
    /\ UNCHANGED <<failures, elapsed>>

\* allow_request() returns false.
DenyRequest ==
    /\ state = "OPEN"
    /\ ~CooledDown
    /\ UNCHANGED breakerVars

\* Mutant: success closes the breaker but the failure count survives.
RecordSuccessKeepCount ==
    /\ state' = "CLOSED"
    /\ UNCHANGED <<failures, elapsed>>

\* Mutant: a success resets the count but does not close the breaker.
RecordSuccessNoClose ==
    /\ failures' = 0
    /\ UNCHANGED <<state, elapsed>>

\* record_success() closes the breaker whatever its state.
RecordSuccess ==
    /\ state' = "CLOSED"
    /\ failures' = 0
    /\ UNCHANGED elapsed

\* Mutant: a failed probe reopens the breaker without restarting the cooldown.
RecordFailureNoRestart ==
    \/ /\ state = "HALF_OPEN"
       /\ state' = "OPEN"
       /\ UNCHANGED <<failures, elapsed>>
    \/ /\ state # "HALF_OPEN"
       /\ failures' = CountFailure(failures)
       /\ IF failures' >= FailureThreshold
          THEN state' = "OPEN" /\ elapsed' = 0
          ELSE UNCHANGED <<state, elapsed>>

\* record_failure().  A failed probe reopens at once and is not counted; any
\* other failure is counted, and at the threshold (or past it: a request
\* admitted before the breaker opened) the cooldown restarts.
RecordFailure ==
    \/ /\ state = "HALF_OPEN"
       /\ state' = "OPEN"
       /\ elapsed' = 0
       /\ UNCHANGED failures
    \/ /\ state # "HALF_OPEN"
       /\ failures' = CountFailure(failures)
       /\ IF failures' >= FailureThreshold
          THEN state' = "OPEN" /\ elapsed' = 0
          ELSE UNCHANGED <<state, elapsed>>

\* The steady clock advances by one tick.
BreakerTick ==
    /\ elapsed' = Later(elapsed)
    /\ UNCHANGED <<state, failures>>
=============================================================================
