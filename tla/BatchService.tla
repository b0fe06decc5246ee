---------------------------- MODULE BatchService ----------------------------
(***************************************************************************)
(* What MicroBatcher promises its caller (micro_batcher.h:29-45): a job is *)
(* either refused at submit(), and then its callback never fires, or       *)
(* accepted, and then its callback fires exactly once, with a result or    *)
(* with an error.  Load is shed only when at least QueueMax jobs are       *)
(* outstanding or the service is closed, and closing it answers what was   *)
(* accepted.  Threads, queue, batches and wake-ups are below this level;   *)
(* MicroBatcher refines it and BidPipeline is built on it.                 *)
(***************************************************************************)
EXTENDS Integers, FiniteSets

CONSTANTS
    Jobs,           \* the jobs that are ever submitted
    QueueMax        \* queue_max_

ASSUME ServiceAssumption == QueueMax \in Nat \ {0}

VARIABLES
    job,            \* job: new, refused, pending, ok or error
    closed          \* stop() has been called

serviceVars == <<job, closed>>

Outstanding == {j \in Jobs : job[j] = "pending"}

ServiceInit ==
    /\ job = [j \in Jobs |-> "new"]
    /\ closed = FALSE

\* submit() returns true.
Accept(j) ==
    /\ ~closed
    /\ job[j] = "new"
    /\ job' = [job EXCEPT ![j] = "pending"]
    /\ UNCHANGED closed

\* submit() returns false.
Refuse(j) ==
    /\ closed \/ Cardinality(Outstanding) >= QueueMax
    /\ job[j] = "new"
    /\ job' = [job EXCEPT ![j] = "refused"]
    /\ UNCHANGED closed

\* The callback fires: ok = (o = "ok").
Answer(j, o) ==
    /\ job[j] = "pending"
    /\ job' = [job EXCEPT ![j] = o]
    /\ UNCHANGED closed

Close ==
    /\ closed' = TRUE
    /\ UNCHANGED job

ServiceNext ==
    \/ \E j \in Jobs : Accept(j) \/ Refuse(j)
    \/ \E j \in Jobs, o \in {"ok", "error"} : Answer(j, o)
    \/ Close

\* What may happen, and with it what must.
ServiceSafe == ServiceInit /\ [][ServiceNext]_serviceVars

ServiceSpec ==
    /\ ServiceSafe
    /\ \A j \in Jobs : WF_serviceVars(Answer(j, "ok") \/ Answer(j, "error"))
=============================================================================
