---------------------------- MODULE LearningLoop ----------------------------
(***************************************************************************)
(* The learning loop: the engine logs outcomes (OutcomeLog), the retrainer *)
(* (retrainer/retrain.py) fine-tunes the warm-start model on the newest    *)
(* window and publishes it as an ONNX file, and a bidder's watcher         *)
(* (cpp-bidder main.cpp, model_session.cpp) swaps it in.  Each of the      *)
(* three may crash between any two steps and is restarted.                 *)
(*                                                                         *)
(* A model is the number of the training round that made it, 0 being the   *)
(* one the image ships; it is also the modified-time of its file, since    *)
(* os.replace keeps the time at which that export was written.             *)
(*                                                                         *)
(*   retrainer:  sleep -> train -> raw -> embed -> write -> publish        *)
(*                 ^                                           |           *)
(*                 +-------------------- report <--------------+           *)
(*   bidder:     down -> built -> watching -> noticed -> loaded            *)
(*                                   ^                      |              *)
(*                                   +----------------------+              *)
(***************************************************************************)
EXTENDS OutcomeLog

CONSTANTS
    MinRows,        \* --min_rows
    MaxRounds,      \* bound: rounds in one life of the retrainer
    MaxTrained,     \* bound: models trained
    MaxRestarts     \* bound: crashes and failures of retrainer and bidder,
                    \* status writes that fail included

ASSUME LoopAssumption ==
    /\ MinRows \in Nat \ {0}
    /\ MaxRounds \in Nat /\ MaxTrained \in Nat /\ MaxRestarts \in Nat

VARIABLES
    rpc,            \* where the retrainer is
    window,         \* the samples of the round it is in
    rounds,         \* state["round"]
    exports,        \* state["exports"]
    lossOf,         \* state["last_loss"], as the model that loss is of
    status,         \* the status file
    unwritten,      \* history: a status that could not be written has been
                    \* dropped since the last one that was
    trained,        \* history: what each model was trained on, and whether
                    \* its outputs are finite
    file,           \* the model file and the two temporary ones
    bpc,            \* where the bidder's main and watcher are
    session,        \* the model behind session_
    fresh,          \* the session reload() has built
    last,           \* the file time the watcher remembers
    version,        \* model_version_
    missed,         \* history: the models whose file time the watcher recorded
                    \* although it never held them
    restarts        \* history: crashes and failures so far

trainerVars == <<rpc, window, rounds, exports, lossOf, status, unwritten, trained>>
bidderVars == <<bpc, session, fresh, last, version, missed>>
vars == <<logVars, trainerVars, file, bidderVars, restarts>>

Absent == -1        \* no such file, no such session
Torn == -2          \* a file whose writing has begun and not ended
Shipped == 0        \* the model of the image

Model == 0 .. MaxTrained
Finite(m) == m = Shipped \/ trained[m].finite
Idle == "none"

Init ==
    /\ LogInit
    /\ rpc = "sleep" /\ window = << >>
    /\ rounds = 0 /\ exports = 0 /\ lossOf = Shipped
    /\ status = [state |-> Idle, exports |-> 0, lossOf |-> Shipped]
    /\ unwritten = FALSE
    /\ trained = << >>
    /\ file = [raw |-> Absent, embed |-> Absent, out |-> Shipped]
    /\ bpc = "down" /\ session = Absent /\ fresh = Absent
    /\ last = Absent /\ version = 0 /\ missed = {}
    /\ restarts = 0

-----------------------------------------------------------------------------
(* The engine: OutcomeLog's steps *)

LogStep(A) == A /\ UNCHANGED <<trainerVars, file, bidderVars, restarts>>

-----------------------------------------------------------------------------
(* The retrainer: train_round, in the loop of main *)

\* The status is replaced as a whole, or it cannot be written: write_status
\* then prints the error and the round goes on beside the old status.
WriteStatus(state, ex, loss) ==
    \/ /\ status' = [state |-> state, exports |-> ex, lossOf |-> loss]
       /\ unwritten' = FALSE
       /\ UNCHANGED restarts
    \/ /\ restarts < MaxRestarts /\ restarts' = restarts + 1
       /\ unwritten' = TRUE
       /\ UNCHANGED status

\* The round begins: the window is read and the status written.
BeginRound ==
    /\ rpc = "sleep"
    /\ rounds < MaxRounds
    /\ rounds' = rounds + 1
    /\ UNCHANGED <<exports, lossOf, trained, file, bidderVars, logVars>>

\* Too few rows: the round is skipped.
RoundWaits ==
    /\ BeginRound
    /\ Len(ReadWindow) < MinRows
    /\ WriteStatus("waiting", exports, lossOf)
    /\ UNCHANGED <<rpc, window>>

\* Mutant: the status is written at the end of the round only.
RoundStartsSilently ==
    /\ BeginRound
    /\ Len(ReadWindow) >= MinRows
    /\ Len(trained) < MaxTrained
    /\ window' = Samples(ReadWindow)
    /\ rpc' = "train"
    /\ UNCHANGED <<status, unwritten, restarts>>

RoundStarts ==
    /\ BeginRound
    /\ Len(ReadWindow) >= MinRows
    /\ Len(trained) < MaxTrained
    /\ WriteStatus("training", exports, lossOf)
    /\ window' = Samples(ReadWindow)
    /\ rpc' = "train"

\* Every round begins from the warm-start checkpoint, so what it learns
\* depends on its window only; the weights may come out infinite or NaN.
Train ==
    /\ rpc = "train"
    /\ rpc' = "raw"
    /\ \E ok \in BOOLEAN : trained' = Append(trained, [samples |-> window, finite |-> ok])
    /\ UNCHANGED <<window, rounds, exports, lossOf, status, unwritten, file,
                   bidderVars, logVars, restarts>>

\* export_onnx, file operation by file operation.
ExportStep(from, to, files) ==
    /\ rpc = from /\ rpc' = to
    /\ file' = files
    /\ UNCHANGED <<window, rounds, exports, lossOf, status, unwritten, trained,
                   bidderVars, logVars, restarts>>

ExportRaw == ExportStep("raw", "embed", [file EXCEPT !.raw = Len(trained)])

\* Mutant: the embedded model is saved to its final path.
BeginEmbedInPlace == ExportStep("embed", "write", [file EXCEPT !.out = Torn])

BeginEmbed == ExportStep("embed", "write", [file EXCEPT !.embed = Torn])

EndEmbed == ExportStep("write", "publish", [file EXCEPT !.embed = file.raw])

Publish ==
    ExportStep("publish", "report", [file EXCEPT !.out = file.embed, !.embed = Absent])

\* The raw file is removed and the export reported.
Report ==
    /\ rpc = "report" /\ rpc' = "sleep"
    /\ file' = [file EXCEPT !.raw = Absent]
    /\ exports' = exports + 1
    /\ lossOf' = Len(trained)
    /\ WriteStatus("exported", exports + 1, Len(trained))
    /\ window' = << >>
    /\ UNCHANGED <<rounds, trained, bidderVars, logVars>>

\* An exception anywhere in the round: main prints it and sleeps.  Whatever
\* is on disk stays there, the status "training" included.
RoundFails ==
    /\ rpc # "sleep" /\ rpc' = "sleep"
    /\ restarts < MaxRestarts /\ restarts' = restarts + 1
    /\ window' = << >>
    /\ UNCHANGED <<rounds, exports, lossOf, status, unwritten, trained, file,
                   bidderVars, logVars>>

\* The retrainer dies and is restarted: its totals begin again at 0.
RetrainerCrash ==
    /\ restarts < MaxRestarts /\ restarts' = restarts + 1
    /\ rpc' = "sleep" /\ window' = << >>
    /\ rounds' = 0 /\ exports' = 0 /\ lossOf' = Shipped
    /\ UNCHANGED <<status, unwritten, trained, file, bidderVars, logVars>>

-----------------------------------------------------------------------------
(* The bidder *)

BidderStep(from, to) ==
    /\ bpc = from /\ bpc' = to
    /\ UNCHANGED <<trainerVars, file, logVars>>

\* main builds the pipeline and with it the session; a file that cannot be
\* loaded ends the process.
BuildPipeline ==
    /\ BidderStep("down", "built")
    /\ file.out \in Model
    /\ session' = file.out
    /\ version' = 1
    /\ missed' = {}
    /\ UNCHANGED <<fresh, last, restarts>>

\* watch_model_loop begins by remembering the file's time.
StartWatcher ==
    /\ BidderStep("built", "watching")
    /\ last' = file.out
    /\ missed' = {file.out} \ {session}
    /\ UNCHANGED <<session, fresh, version, restarts>>

\* The time is the same as before: the watcher sleeps on.
SeeNoChange ==
    /\ BidderStep("watching", "watching")
    /\ file.out = last
    /\ UNCHANGED <<session, fresh, last, version, missed, restarts>>

SeeChange ==
    /\ BidderStep("watching", "noticed")
    /\ file.out # last
    /\ last' = file.out
    /\ UNCHANGED <<session, fresh, version, missed, restarts>>

\* Mutant: the watcher waits until the file is again the one it noticed.
BuildFreshNoticed ==
    \/ /\ BidderStep("noticed", "loaded")
       /\ file.out = last
       /\ fresh' = file.out
       /\ UNCHANGED <<session, last, version, missed, restarts>>
    \/ /\ BidderStep("noticed", "noticed")
       /\ file.out # last
       /\ UNCHANGED <<session, fresh, last, version, missed, restarts>>

\* reload builds a session of its own from whatever the file is now.
BuildFresh ==
    /\ BidderStep("noticed", "loaded")
    /\ file.out \in Model
    /\ fresh' = file.out
    /\ UNCHANGED <<session, last, version, missed, restarts>>

\* Building it throws, for want of memory say: reload_model returns false and
\* the watcher has already recorded the time.
ReloadFails ==
    /\ BidderStep("noticed", "watching")
    /\ restarts < MaxRestarts /\ restarts' = restarts + 1
    /\ missed' = missed \cup {last}
    /\ UNCHANGED <<session, fresh, last, version>>

\* The probe's output has a NaN or an Inf.
RejectFresh ==
    /\ BidderStep("loaded", "watching")
    /\ ~Finite(fresh)
    /\ fresh' = Absent
    /\ UNCHANGED <<session, last, version, missed, restarts>>

\* Mutant: the session is swapped and then probed.
SwapFreshUnprobed ==
    /\ BidderStep("loaded", "watching")
    /\ session' = fresh /\ fresh' = Absent
    /\ version' = version + 1
    /\ UNCHANGED <<last, missed, restarts>>

\* Mutant: the file's time is read again after the reload.
SwapFreshTimed ==
    /\ BidderStep("loaded", "watching")
    /\ Finite(fresh)
    /\ session' = fresh /\ fresh' = Absent
    /\ version' = version + 1
    /\ last' = file.out
    /\ UNCHANGED <<missed, restarts>>

SwapFresh ==
    /\ BidderStep("loaded", "watching")
    /\ Finite(fresh)
    /\ session' = fresh /\ fresh' = Absent
    /\ version' = version + 1
    /\ UNCHANGED <<last, missed, restarts>>

BidderCrash ==
    /\ bpc # "down" /\ bpc' = "down"
    /\ restarts < MaxRestarts /\ restarts' = restarts + 1
    /\ session' = Absent /\ fresh' = Absent
    /\ last' = Absent /\ version' = 0 /\ missed' = {}
    /\ UNCHANGED <<trainerVars, file, logVars>>

-----------------------------------------------------------------------------
Retrainer ==
    \/ RoundWaits \/ RoundStarts \/ Train
    \/ ExportRaw \/ BeginEmbed \/ EndEmbed \/ Publish \/ Report

Bidder ==
    \/ BuildPipeline \/ StartWatcher
    \/ SeeNoChange \/ SeeChange
    \/ BuildFresh \/ RejectFresh \/ SwapFresh

Next ==
    \/ LogStep(WriteLog) \/ LogStep(FlushLog) \/ LogStep(EngineCrash)
    \/ Retrainer \/ RoundFails \/ RetrainerCrash
    \/ Bidder \/ ReloadFails \/ BidderCrash

\* The watcher's loop and the container's restart policy keep the bidder
\* going; nothing is assumed of the engine or of the retrainer.
Spec == Init /\ [][Next]_vars /\ WF_vars(Bidder)

-----------------------------------------------------------------------------
\* Records were learnt in the order of the auctions, and none that can still
\* be read was left out in between.
Unbroken(samples) ==
    /\ \A i, j \in DOMAIN samples : i < j => samples[i].record < samples[j].record
    /\ \A r \in Range(ReadLines) :
         \/ r < samples[1].record \/ r > samples[Len(samples)].record
         \/ \E i \in DOMAIN samples : samples[i].record = r

\* Whatever crashes when, the model file and every session hold a whole model,
\* the shipped one or one that a round trained (retrain.py export_onnx: "written
\* atomically so the C++ watcher only ever sees a complete model").
PublishedIsWhole ==
    /\ file.out \in 0 .. Len(trained)
    /\ session \in {Absent} \cup 0 .. Len(trained)

\* Every model was trained on an unbroken stretch of min_rows to Window logged
\* outcomes, each labelled with a bin, whatever the engine's crashes did to the
\* log it was read from (retrain.py read_window, build_tensors, train_round).
TrainedOnStretch ==
    \A m \in DOMAIN trained :
       /\ Len(trained[m].samples) \in MinRows .. Window
       /\ Range(trained[m].samples) \subseteq Sample
       /\ Unbroken(trained[m].samples)

\* A status "exported" describes the model that is in place, across crashes of
\* the retrainer and rounds that fail half-way, as long as the statuses since
\* could be written; it never describes a model that is not in place yet
\* (retrain.py:271-293 write_status, 305, 330-334).
StatusDescribesModel ==
    status.state = "exported" =>
       /\ status.lossOf \in 0 .. file.out
       /\ status.lossOf = file.out \/ unwritten

\* A bidder that is up never goes over to a model whose probe failed, and
\* counts every model it goes over to (model_session.cpp reload,
\* bid_pipeline.cpp reload_model).
RunningBidderRefusesBadModels ==
    [][bpc # "down" /\ bpc' # "down" /\ session' # session
         => Finite(session') /\ version' = version + 1]_vars

\* A good model that appears after the watcher has looked is served, unless a
\* newer one replaces it, building it fails or the bidder goes down (main.cpp
\* watch_model_loop).
NewExportServed ==
    \A m \in 1 .. MaxTrained :
       (/\ bpc \in {"watching", "noticed", "loaded"}
        /\ file.out = m /\ last # m /\ Finite(m))
          ~> (session = m \/ file.out # m \/ m \in missed \/ bpc = "down")

\* "reloads it whenever its modified-time changes" (main.cpp:27): a watcher that
\* sees no change serves the model in place, however exports, reloads and
\* crashes interleave.  The exceptions are a model the probe refused, one
\* published between BuildPipeline and StartWatcher and one whose building
\* failed: main.cpp:33 and :39 record the time before the model is held.
UnchangedMeansServed ==
    bpc = "watching" /\ last = file.out =>
       session = file.out \/ ~Finite(file.out) \/ file.out \in missed

=============================================================================
