---------------------------- MODULE MicroBatcher ----------------------------
(***************************************************************************)
(* The micro batcher of the C++ bidder (cpp-bidder/src/micro_batcher): a   *)
(* bounded queue, a condition variable, worker threads that take up to     *)
(* BatchMax jobs at a time, and a stop() that lets them drain the queue.   *)
(*                                                                         *)
(* One step is one critical section of mu_, or one thing a thread does     *)
(* outside it: submit() and stop() both notify AFTER unlocking, so other   *)
(* threads run between the change and the notification.  A worker is       *)
(*   check    about to evaluate the wait predicate, with or without having *)
(*            slept                                                        *)
(*   asleep   in cv_.wait                                                  *)
(*   run      has a batch, outside the lock                                *)
(*   ok, error  calling the callbacks of its batch                         *)
(*   exited   worker_loop returned                                         *)
(***************************************************************************)
EXTENDS Integers, Sequences, FiniteSets, SequencesExt

CONSTANTS
    Jobs,           \* the jobs that are ever submitted
    Workers,        \* workers_
    BatchMax,       \* batch_max_
    QueueMax        \* queue_max_

\* The constructor starts at least one worker.  With batch_max_ <= 0 a worker
\* would take nothing and spin, with queue_max_ <= 0 every job is refused;
\* the configuration defaults are 32 and 4096.
ASSUME BatcherAssumption ==
    /\ Workers # {} /\ IsFiniteSet(Workers)
    /\ IsFiniteSet(Jobs)
    /\ BatchMax \in Nat \ {0}
    /\ QueueMax \in Nat \ {0}

VARIABLES
    queue,          \* queue_
    stopping,       \* stopping_
    wpc,            \* worker: check, asleep, run, ok, error or exited
    batch,          \* the batch each worker holds, first job next
    notifying,      \* jobs whose submit() has pushed but not yet notified
    spc,            \* stop(): no, flagged, joining, joined
    submitted,      \* job -> what its submit() returned, if called
    calls           \* job -> the callbacks it has received

vars == <<queue, stopping, wpc, batch, notifying, spc, submitted, calls>>

Init ==
    /\ queue = << >>
    /\ stopping = FALSE
    /\ wpc = [w \in Workers |-> "check"]
    /\ batch = [w \in Workers |-> << >>]
    /\ notifying = {}
    /\ spc = "no"
    /\ submitted = [j \in Jobs |-> "no"]
    /\ calls = [j \in Jobs |-> << >>]

-----------------------------------------------------------------------------
(* submit() *)

\* Mutant: the bound is tested with > instead of >=.
FullOffByOne == stopping \/ Len(queue) > QueueMax

Full == stopping \/ Len(queue) >= QueueMax

SubmitRefused(j) ==
    /\ submitted[j] = "no"
    /\ Full
    /\ submitted' = [submitted EXCEPT ![j] = "false"]
    /\ UNCHANGED <<queue, stopping, wpc, batch, notifying, spc, calls>>

\* push_back and unlock.
SubmitPush(j) ==
    /\ submitted[j] = "no"
    /\ ~Full
    /\ queue' = Append(queue, j)
    /\ submitted' = [submitted EXCEPT ![j] = "true"]
    /\ notifying' = notifying \cup {j}
    /\ UNCHANGED <<stopping, wpc, batch, spc, calls>>

\* Mutant: no one is woken.
WakeNobody == UNCHANGED wpc

\* notify_one wakes one sleeping worker, if there is one.
WakeOne ==
    IF \E w \in Workers : wpc[w] = "asleep"
    THEN \E w \in Workers :
            /\ wpc[w] = "asleep"
            /\ wpc' = [wpc EXCEPT ![w] = "check"]
    ELSE UNCHANGED wpc

SubmitNotify(j) ==
    /\ j \in notifying
    /\ notifying' = notifying \ {j}
    /\ WakeOne
    /\ UNCHANGED <<queue, stopping, batch, spc, submitted, calls>>

-----------------------------------------------------------------------------
(* worker_loop() and run_batch() *)

\* The wait predicate is false: release the lock and sleep, atomically.
Sleep(w) ==
    /\ wpc[w] = "check"
    /\ ~stopping
    /\ queue = << >>
    /\ wpc' = [wpc EXCEPT ![w] = "asleep"]
    /\ UNCHANGED <<queue, stopping, batch, notifying, spc, submitted, calls>>

\* cv_.wait may return with nobody having notified.
SpuriousWakeup(w) ==
    /\ wpc[w] = "asleep"
    /\ wpc' = [wpc EXCEPT ![w] = "check"]
    /\ UNCHANGED <<queue, stopping, batch, notifying, spc, submitted, calls>>

Min2(a, b) == IF a < b THEN a ELSE b

\* Mutant: the last job of a full batch also stays in the queue.
TakeKeepLast(w) ==
    LET n == Min2(Len(queue), BatchMax)
    IN  /\ wpc[w] = "check"
        /\ queue # << >>
        /\ batch' = [batch EXCEPT ![w] = SubSeq(queue, 1, n)]
        /\ queue' = SubSeq(queue, IF n = BatchMax THEN n ELSE n + 1, Len(queue))
        /\ wpc' = [wpc EXCEPT ![w] = "run"]
        /\ UNCHANGED <<stopping, notifying, spc, submitted, calls>>

Take(w) ==
    LET n == Min2(Len(queue), BatchMax)
    IN  /\ wpc[w] = "check"
        /\ queue # << >>
        /\ batch' = [batch EXCEPT ![w] = SubSeq(queue, 1, n)]
        /\ queue' = SubSeq(queue, n + 1, Len(queue))
        /\ wpc' = [wpc EXCEPT ![w] = "run"]
        /\ UNCHANGED <<stopping, notifying, spc, submitted, calls>>

\* Mutant: a stopping worker leaves the queue behind.
ExitAtOnce(w) ==
    /\ wpc[w] = "check"
    /\ stopping
    /\ wpc' = [wpc EXCEPT ![w] = "exited"]
    /\ UNCHANGED <<queue, stopping, batch, notifying, spc, submitted, calls>>

Exit(w) ==
    /\ wpc[w] = "check"
    /\ stopping
    /\ queue = << >>
    /\ wpc' = [wpc EXCEPT ![w] = "exited"]
    /\ UNCHANGED <<queue, stopping, batch, notifying, spc, submitted, calls>>

\* model_.run on the whole batch returns or throws.
RunModel(w, outcome) ==
    /\ wpc[w] = "run"
    /\ wpc' = [wpc EXCEPT ![w] = outcome]
    /\ UNCHANGED <<queue, stopping, batch, notifying, spc, submitted, calls>>

\* Mutant: after an error only the first job of the batch hears of it.
CallbackFirstOnly(w) ==
    /\ wpc[w] \in {"ok", "error"}
    /\ calls' = [calls EXCEPT ![Head(batch[w])] = Append(@, wpc[w])]
    /\ batch' = [batch EXCEPT ![w] = IF wpc[w] = "ok" THEN Tail(@) ELSE << >>]
    /\ wpc' = IF Len(batch[w]) = 1 \/ wpc[w] = "error"
              THEN [wpc EXCEPT ![w] = "check"] ELSE wpc
    /\ UNCHANGED <<queue, stopping, notifying, spc, submitted>>

\* The callback of the next job of the batch; after the last, loop.
Callback(w) ==
    /\ wpc[w] \in {"ok", "error"}
    /\ calls' = [calls EXCEPT ![Head(batch[w])] = Append(@, wpc[w])]
    /\ batch' = [batch EXCEPT ![w] = Tail(@)]
    /\ wpc' = IF Len(batch[w]) = 1 THEN [wpc EXCEPT ![w] = "check"] ELSE wpc
    /\ UNCHANGED <<queue, stopping, notifying, spc, submitted>>

-----------------------------------------------------------------------------
(* stop() *)

\* The first call of stop().  A later one, such as the destructor's, finds
\* stopping_ set and returns without a change (micro_batcher.cpp:26-28).
StopFlag ==
    /\ spc = "no"
    /\ stopping' = TRUE
    /\ spc' = "flagged"
    /\ UNCHANGED <<queue, wpc, batch, notifying, submitted, calls>>

\* Mutant: notify_one instead of notify_all.
StopNotifyOne ==
    /\ spc = "flagged"
    /\ spc' = "joining"
    /\ WakeOne
    /\ UNCHANGED <<queue, stopping, batch, notifying, submitted, calls>>

\* cv_.notify_all
StopNotify ==
    /\ spc = "flagged"
    /\ spc' = "joining"
    /\ wpc' = [w \in Workers |-> IF wpc[w] = "asleep" THEN "check" ELSE wpc[w]]
    /\ UNCHANGED <<queue, stopping, batch, notifying, submitted, calls>>

\* Every join() has returned.
StopJoined ==
    /\ spc = "joining"
    /\ \A w \in Workers : wpc[w] = "exited"
    /\ spc' = "joined"
    /\ UNCHANGED <<queue, stopping, wpc, batch, notifying, submitted, calls>>

-----------------------------------------------------------------------------

Submit(j) == SubmitRefused(j) \/ SubmitPush(j) \/ SubmitNotify(j)

Work(w) ==
    \/ Sleep(w) \/ Take(w) \/ Exit(w)
    \/ \E outcome \in {"ok", "error"} : RunModel(w, outcome)
    \/ Callback(w)

Stop == StopFlag \/ StopNotify \/ StopJoined

Next ==
    \/ \E j \in Jobs : Submit(j)
    \/ \E w \in Workers : Work(w) \/ SpuriousWakeup(w)
    \/ Stop

\* The operating system runs every thread that can run, model_.run returns,
\* and a thread that has pushed a job or set stopping_ goes on to notify.
\* No one is obliged to submit or to call stop(), and wake-ups without a
\* notification cannot be counted on.
Fairness ==
    /\ \A w \in Workers : WF_vars(Work(w))
    /\ \A j \in Jobs : WF_vars(SubmitNotify(j))
    /\ WF_vars(StopNotify) /\ WF_vars(StopJoined)

Spec == Init /\ [][Next]_vars
FairSpec == Spec /\ Fairness

-----------------------------------------------------------------------------
(* Properties *)

InHand(j) == \E w \in Workers : j \in ToSet(batch[w])

\* An accepted job is in exactly one place - the queue, one worker's batch, or
\* answered - and is answered at most once; a refused one is nowhere.  No
\* interleaving of submit(), the workers and stop() loses or repeats a
\* callback (micro_batcher.cpp:44-79, 96-121).
ExactlyOnePlace ==
    /\ \A i, k \in 1 .. Len(queue) : queue[i] = queue[k] => i = k
    /\ \A w \in Workers : \A i, k \in 1 .. Len(batch[w]) :
          batch[w][i] = batch[w][k] => i = k
    /\ \A v, w \in Workers : v # w => ToSet(batch[v]) \cap ToSet(batch[w]) = {}
    /\ \A j \in Jobs :
          /\ j \in ToSet(queue) => ~InHand(j) /\ calls[j] = << >>
          /\ InHand(j) => calls[j] = << >>
          /\ Len(calls[j]) <= 1
          /\ (submitted[j] = "true")
                <=> (j \in ToSet(queue) \/ InHand(j) \/ Len(calls[j]) = 1)

\* Memory held by accepted jobs is bounded: at most a full queue and one full
\* batch per worker (the load shedding of micro_batcher.cpp:46).
BacklogBounded ==
    /\ Len(queue) <= QueueMax
    /\ \A w \in Workers : Len(batch[w]) <= BatchMax

\* No lost wake-up: while jobs wait, a worker is awake and will look at the
\* queue, or a notification is still to come, although submit() notifies
\* after it unlocks (micro_batcher.cpp:50-51).
SomeoneWillLook ==
    queue # << >> =>
        \/ \E w \in Workers : wpc[w] \notin {"asleep", "exited"}
        \/ notifying # {}
        \/ spc = "flagged"

\* When stop() returns every accepted job has had its callback: the queue is
\* drained, not dropped (micro_batcher.cpp:60-62).
StopDrains ==
    spc = "joined" =>
        \A j \in Jobs : submitted[j] = "true" => Len(calls[j]) = 1

\* stop() returns: every worker wakes, drains and exits, so ~MicroBatcher
\* never hangs in join() (micro_batcher.cpp:31-36).
StopReturns == (spc = "flagged") ~> (spc = "joined")

\* What has become of a job, as BatchService sees it, given the callbacks it
\* has had and what its submit() returned.
ViewOf(heard, returned) ==
    CASE heard # << >>      -> Head(heard)
      [] returned = "no"    -> "new"
      [] returned = "false" -> "refused"
      [] OTHER              -> "pending"

JobView == [j \in Jobs |-> ViewOf(calls[j], submitted[j])]

Service == INSTANCE BatchService WITH job <- JobView, closed <- stopping

\* The batcher keeps the promise of BatchService, liveness included: an
\* accepted job is answered exactly once, sooner or later, and load is shed
\* only at QueueMax outstanding jobs or after stop() (micro_batcher.cpp:23-122).
ImplementsService == Service!ServiceSpec
=============================================================================
