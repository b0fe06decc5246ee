----------------------------- MODULE BidPipeline -----------------------------
(***************************************************************************)
(* The bid pipeline of the C++ bidder (cpp-bidder/src/bid_pipeline): the   *)
(* dedup cache, the circuit breaker, the batcher and the hot-swapped model *)
(* composed by process() and by the callback it gives to the batcher.      *)
(*                                                                         *)
(* A call is one execution of process(); IdOf gives its request id, so two *)
(* calls with the same id are a request and its retry.  The calls run      *)
(* concurrently, on the completion queue threads up to submit() and on the *)
(* batch workers after it, and every access to a shared object is a step   *)
(* of its own:                                                             *)
(*                                                                         *)
(*   new -> missed -> admitted -> queued -> running -> scored -> stored    *)
(*    |       |          |                     |                    |      *)
(*    +-------+----------+---------------------+--------------------+      *)
(*                               done                                      *)
(*                                                                         *)
(* The batcher is BatchService, which MicroBatcher implements.  What       *)
(* optimize_bid computes depends on the request and on the model, so a     *)
(* decision is the version of the model that made it.                      *)
(***************************************************************************)
EXTENDS CircuitBreaker, DedupCache, BatchService

CONSTANTS
    IdOf,           \* call -> request id; the calls are the batcher's Jobs
    MaxVersion      \* bound: the model is reloaded up to this version

ASSUME PipelineAssumption ==
    /\ IdOf \in [Jobs -> Ids] /\ IsFiniteSet(Ids)
    /\ MaxVersion \in Nat \ {0}
    /\ 1 .. MaxVersion \subseteq Decisions

VARIABLES
    pc,             \* where each call is
    ver,            \* the model version whose session the call's batch uses
    replies,        \* call -> the done() calls it has made
    version,        \* model_version_, and the session behind it
    putLeft         \* history: ticks left of each call's own TTL, which
                    \* starts to run when its decision is put

callVars == <<pc, ver, replies>>
observed == <<version, putLeft>>
vars == <<breakerVars, cacheVars, serviceVars, callVars, observed>>

Version == 1 .. MaxVersion

\* A reply: what done() is given.  A cached or computed decision is a model
\* version, 0 is the fallback bid, -1 the empty decision, and the status is
\* ok, cache, fallback_open, fallback_error or resource_exhausted.
FallbackBid == 0
EmptyBid == -1

Init ==
    /\ BreakerInit /\ CacheInit /\ ServiceInit
    /\ pc = [c \in Jobs |-> "new"]
    /\ ver = [c \in Jobs |-> 0]
    /\ replies = [c \in Jobs |-> << >>]
    /\ version = 1
    /\ putLeft = [c \in Jobs |-> Ttl]

Goto(c, from, to) ==
    /\ pc[c] = from
    /\ pc' = [pc EXCEPT ![c] = to]

Done(c, status, decision) ==
    replies' = [replies EXCEPT
                  ![c] = Append(@, [status |-> status, decision |-> decision])]

-----------------------------------------------------------------------------
(* process(), on a completion queue thread *)

\* cache_.get hits.
ReuseDecision(c) ==
    /\ Goto(c, "new", "done")
    /\ GetHit(IdOf[c])
    /\ Done(c, "cache", map[IdOf[c]].decision)
    /\ UNCHANGED <<breakerVars, serviceVars, ver, observed>>

\* cache_.get misses.
LookupMiss(c) ==
    /\ Goto(c, "new", "missed")
    /\ GetMiss(IdOf[c])
    /\ UNCHANGED <<breakerVars, serviceVars, ver, replies, observed>>

\* allow_request() says no.
FallbackOpen(c) ==
    /\ Goto(c, "missed", "done")
    /\ DenyRequest
    /\ Done(c, "fallback_open", FallbackBid)
    /\ UNCHANGED <<cacheVars, serviceVars, ver, observed>>

\* allow_request() says yes, and the features are encoded.
Admit(c) ==
    /\ Goto(c, "missed", "admitted")
    /\ AllowRequest
    /\ UNCHANGED <<cacheVars, serviceVars, ver, replies, observed>>

\* Mutant: the refused request is reported, and the callback kept as well.
SubmitAcceptedAndReply(c) ==
    /\ Goto(c, "admitted", "queued")
    /\ Accept(c)
    /\ Done(c, "resource_exhausted", EmptyBid)
    /\ UNCHANGED <<breakerVars, cacheVars, ver, observed>>

SubmitAccepted(c) ==
    /\ Goto(c, "admitted", "queued")
    /\ Accept(c)
    /\ UNCHANGED <<breakerVars, cacheVars, ver, replies, observed>>

\* Mutant: a refused request gets no answer.
SubmitRefusedSilently(c) ==
    /\ Goto(c, "admitted", "done")
    /\ Refuse(c)
    /\ UNCHANGED <<breakerVars, cacheVars, ver, replies, observed>>

\* submit() returns false.  The breaker is not told.
SubmitRefused(c) ==
    /\ Goto(c, "admitted", "done")
    /\ Refuse(c)
    /\ Done(c, "resource_exhausted", EmptyBid)
    /\ UNCHANGED <<breakerVars, cacheVars, ver, observed>>

-----------------------------------------------------------------------------
(* The batch and the callback, on a batch worker *)

\* run() copies the pointer to the current session.
GrabSession(c) ==
    /\ Goto(c, "queued", "running")
    /\ ver' = [ver EXCEPT ![c] = version]
    /\ UNCHANGED <<breakerVars, cacheVars, serviceVars, replies, observed>>

\* Mutant: the fallback bid is remembered for retries.
FallbackErrorCached(c) ==
    /\ Goto(c, "running", "done")
    /\ Answer(c, "error")
    /\ RecordFailure
    /\ Put(IdOf[c], FallbackBid)
    /\ Done(c, "fallback_error", FallbackBid)
    /\ UNCHANGED <<ver, observed>>

\* The callback with ok = false: record_failure is its only shared step.
FallbackError(c) ==
    /\ Goto(c, "running", "done")
    /\ Answer(c, "error")
    /\ RecordFailure
    /\ Done(c, "fallback_error", FallbackBid)
    /\ UNCHANGED <<cacheVars, ver, observed>>

\* The callback with ok = true: record_success and optimize_bid, ...
Score(c) ==
    /\ Goto(c, "running", "scored")
    /\ Answer(c, "ok")
    /\ RecordSuccess
    /\ UNCHANGED <<cacheVars, ver, replies, observed>>

\* ... then cache_.put, ...
StoreDecision(c) ==
    /\ Goto(c, "scored", "stored")
    /\ Put(IdOf[c], ver[c])
    /\ UNCHANGED <<breakerVars, serviceVars, ver, replies, observed>>

\* Mutant: done() may run before cache_.put.
ReplyOkBeforePut(c) ==
    /\ \E from \in {"scored", "stored"} : Goto(c, from, "done")
    /\ Done(c, "ok", ver[c])
    /\ UNCHANGED <<breakerVars, cacheVars, serviceVars, ver, observed>>

\* ... then done().  The gauges and counters set on the way are left out.
ReplyOk(c) ==
    /\ Goto(c, "stored", "done")
    /\ Done(c, "ok", ver[c])
    /\ UNCHANGED <<breakerVars, cacheVars, serviceVars, ver, observed>>

-----------------------------------------------------------------------------

\* reload_model() by the watcher thread: a valid new model replaces the
\* session; a rejected one changes nothing.
Reload ==
    /\ version < MaxVersion
    /\ version' = version + 1
    /\ UNCHANGED <<breakerVars, cacheVars, serviceVars, callVars, putLeft>>

Tick ==
    /\ BreakerTick
    /\ CacheTick
    /\ putLeft' = [c \in Jobs |->
          IF job[c] = "ok" /\ pc[c] \in {"stored", "done"} /\ putLeft[c] > 0
          THEN putLeft[c] - 1 ELSE putLeft[c]]
    /\ UNCHANGED <<serviceVars, callVars, version>>

Process(c) ==
    \/ ReuseDecision(c) \/ LookupMiss(c)
    \/ FallbackOpen(c) \/ Admit(c)
    \/ SubmitAccepted(c) \/ SubmitRefused(c)

Work(c) ==
    \/ GrabSession(c) \/ FallbackError(c) \/ Score(c)
    \/ StoreDecision(c) \/ ReplyOk(c)

Next ==
    \/ \E c \in Jobs : Process(c) \/ Work(c)
    \/ Reload
    \/ Tick

\* Threads run; the batcher answers what it accepted (BatchService).  No one
\* is obliged to send a request, so the first step of a call is not fair.
Fairness ==
    \A c \in Jobs :
        /\ WF_vars(pc[c] # "new" /\ Process(c))
        /\ WF_vars(Work(c))

Spec == Init /\ [][Next]_vars
FairSpec == Spec /\ Fairness

-----------------------------------------------------------------------------
(* Properties *)

\* "done() fires exactly once" (bid_pipeline.h:36): on whichever of its five
\* ways out, a call that is over has made one reply and a call that is not
\* has made none; a job the batcher refused is never answered twice, by
\* process() and by the callback (bid_pipeline.cpp:81-84).
DoneExactlyOnce ==
    \A c \in Jobs : Len(replies[c]) = IF pc[c] = "done" THEN 1 ELSE 0

\* What the cache holds, and so what a "cache" reply repeats, is a decision
\* that a call for the same id computed with a model it really ran: never a
\* fallback bid, never the empty decision, never another request's bid
\* (bid_pipeline.cpp:61-84).
CacheHoldsModelBids ==
    /\ \A id \in Resident :
          \E c \in Jobs : /\ IdOf[c] = id
                          /\ job[c] = "ok"
                          /\ ver[c] = map[id].decision
    /\ \A c \in Jobs : \A i \in 1 .. Len(replies[c]) :
          replies[c][i].status = "cache" =>
              \E b \in Jobs \ {c} : /\ IdOf[b] = IdOf[c]
                                    /\ job[b] = "ok"
                                    /\ ver[b] = replies[c][i].decision

\* A retry that starts after the first attempt was answered "ok", and within
\* the TTL of its put, is a hit: done() never runs ahead of cache_.put
\* (bid_pipeline.cpp:73-78), and no other call for that id takes the entry
\* away.  Stated for a cache that holds every id, as eviction is legitimate.
RetryAfterAnswerHits ==
    [][\A b, c \in Jobs :
          /\ Cardinality(Ids) <= MaxSize
          /\ IdOf[b] = IdOf[c]
          /\ pc[b] = "done" /\ job[b] = "ok"
          /\ pc[c] = "new" /\ pc'[c] = "missed"
          => putLeft[b] = 0]_vars

\* Every request that enters process() is answered, whatever the breaker,
\* the batcher, the model and the other calls do.
EveryCallAnswered ==
    \A c \in Jobs : (pc[c] # "new") ~> (Len(replies[c]) = 1)

\* bid_pipeline.cpp:34 says "a retried request id within the TTL reuses the
\* same decision": once a call is answered with its model decision, every
\* model decision given to another call for that id, until the TTL of the
\* first one is over, is the same one.
RetryReusesDecision ==
    [][\A b, c \in Jobs :
          /\ IdOf[b] = IdOf[c]
          /\ pc[b] = "done" /\ job[b] = "ok" /\ putLeft[b] > 0
          /\ pc[c] # "done" /\ pc'[c] = "done"
          /\ replies'[c][1].status \in {"ok", "cache"}
          => replies'[c][1].decision = ver[b]]_vars
=============================================================================
