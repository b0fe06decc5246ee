------------------------------ MODULE Training ------------------------------
(***************************************************************************)
(* The three training loops of rtb-bid-model: train.py (main), and the     *)
(* sweeps experiments/mdn_sweep.py and experiments/bins_v2.py (train_one), *)
(* which differ in how they select and save.  One process trains epoch by  *)
(* epoch, evaluates the raw weights and, but for bins_v2, the moving       *)
(* average of them, and keeps the best as best.pt.                         *)
(*                                                                         *)
(* Weights are named by where they come from: <<"raw", e>> are the weights *)
(* after epoch e of training from <<"raw", e - 1>>, <<"ema", e>> their     *)
(* average, and anything trained on from an average is "mixed".  A         *)
(* validation loss is a number of steps of a grid on which Tol is the      *)
(* 1e-5 an improvement must exceed.                                        *)
(***************************************************************************)
EXTENDS Integers, Sequences, FiniteSets

CONSTANTS
    RowCounts,      \* the sizes of the training set to consider
    BatchSize,
    Epochs,
    Patience,       \* early_stopping_patience
    MaxLoss,        \* bound: losses are 0 .. MaxLoss
    Tol

ASSUME TrainingAssumption ==
    /\ RowCounts \subseteq Nat
    /\ BatchSize \in Nat \ {0} /\ Epochs \in Nat \ {0} /\ Patience \in Nat \ {0}
    /\ MaxLoss \in Nat /\ Tol \in Nat

NaN == -1
Infinity == MaxLoss + Tol + 1
Loss == 0 .. MaxLoss

\* IEEE comparison: false on NaN.
Below(a, b) == a # NaN /\ b # NaN /\ a < b
AtMost(a, b) == a # NaN /\ b # NaN /\ a <= b
Improves(new, old) == Below(new, old - Tol)

VARIABLES
    kind,           \* which of the loops runs: "train", "sweep" or "bins"
    rows,           \* the size of the training set
    sigma,          \* the sigma_floor of the model: "default" or "override"
    pc,             \* where the loop is
    step,           \* optimizer steps so far
    weights,        \* what the model holds
    backup,         \* the raw weights set aside while an average is in it
    poisoned,       \* whether weights, and so their average, have become NaN
    hist,           \* the losses of the epochs evaluated so far
    best,           \* train: best_val
    bad,            \* train: epochs without improvement
    kept,           \* sweep and bins: best value and state, raw and average
    ckpt            \* best.pt

vars == <<kind, rows, sigma, pc, step, weights, backup, poisoned, hist, best, bad, kept, ckpt>>
runVars == <<kind, rows, sigma>>

epoch == Len(hist)
NoFile == [whole |-> FALSE]
Nothing == [val |-> Infinity, state |-> << >>]

-----------------------------------------------------------------------------
(* dataset.py *)

\* iter_batches, as the first row of each batch.
Batches(n, size, dropLast) ==
    {cur \in 0 .. n - 1 : cur % size = 0 /\ (dropLast => cur + size <= n)}

\* Mutant: the remainder counts as a batch although it is dropped.
NumBatchesRoundedUp(n, size, dropLast) == (n + size - 1) \div size

NumBatches(n, size, dropLast) ==
    IF dropLast THEN n \div size ELSE (n + size - 1) \div size

TotalSteps == NumBatches(rows, BatchSize, TRUE) * Epochs

-----------------------------------------------------------------------------
(* What the loops have in common *)

\* The three programs set up a model: train.py from the configuration, in
\* which --sigma_floor may be overridden, the sweeps from a run's arguments.
TrainSetup == kind = "train" /\ sigma \in {"default", "override"}
SweepSetup == kind = "sweep" /\ sigma \in {"default", "override"}
BinsSetup == kind = "bins" /\ sigma = "default"

Init ==
    /\ TrainSetup \/ SweepSetup \/ BinsSetup
    /\ rows \in RowCounts
    /\ pc = "epoch" /\ step = 0
    /\ weights = <<"raw", 0>> /\ backup = weights /\ poisoned = FALSE
    /\ hist = << >> /\ best = Infinity /\ bad = 0
    /\ kept = [raw |-> Nothing, ema |-> Nothing]
    /\ ckpt = NoFile

\* The optimizer steps of one epoch, each followed by an update of the average.
Epoch(loop, steps) ==
    /\ kind = loop /\ pc = "epoch" /\ epoch < Epochs
    /\ step' = step + Cardinality(steps)
    /\ weights' = IF weights = <<"raw", epoch>> THEN <<"raw", epoch + 1>>
                  ELSE <<"mixed", epoch + 1>>
    /\ poisoned' \in IF poisoned \/ steps = {} THEN {poisoned} ELSE BOOLEAN
    /\ pc' = "evaluate"
    /\ UNCHANGED <<runVars, backup, hist, best, bad, kept, ckpt>>

\* What evaluate_loss may return for the weights in the model.
Losses == IF poisoned THEN {NaN} ELSE Loss

\* The raw weights are evaluated; the average is swapped in, evaluated, and
\* the raw weights restored.
Evaluate(loop, emaLosses) ==
    /\ kind = loop /\ pc = "evaluate" /\ pc' = "select"
    /\ \E raw \in Losses, ema \in emaLosses : hist' = Append(hist, [raw |-> raw, ema |-> ema])
    /\ backup' = weights
    /\ UNCHANGED <<runVars, step, weights, poisoned, best, bad, kept, ckpt>>

Last == hist[Len(hist)]
Averaged == <<"ema", epoch>>

Checkpoint(val, useEma, floor) ==
    [whole |-> TRUE, weights |-> weights, val |-> val, useEma |-> useEma, sigma |-> floor]

-----------------------------------------------------------------------------
(* train.py: save at once, stop early *)

TrainBatches == Batches(rows, BatchSize, TRUE)

TrainEpoch == TrainBatches # {} /\ Epoch("train", TrainBatches)

\* The mean training loss divides by the number of rows trained on.
TrainEpochEmpty ==
    /\ kind = "train" /\ pc = "epoch" /\ epoch < Epochs
    /\ TrainBatches = {}
    /\ pc' = "failed"
    /\ UNCHANGED <<runVars, step, weights, backup, poisoned, hist, best, bad, kept, ckpt>>

TrainEvaluate == Evaluate("train", Losses)

\* min(val_loss_raw, val_loss_ema) and use_ema
ValLoss == IF Below(Last.ema, Last.raw) THEN Last.ema ELSE Last.raw
UseEma == AtMost(Last.ema, Last.raw)

\* A new best: torch.save begins to overwrite best.pt.
Improve ==
    /\ kind = "train" /\ pc = "select" /\ Improves(ValLoss, best)
    /\ best' = ValLoss /\ bad' = 0
    /\ weights' = IF UseEma THEN Averaged ELSE weights
    /\ ckpt' = NoFile
    /\ pc' = "saving"
    /\ UNCHANGED <<runVars, backup, step, poisoned, hist, kept>>

\* Mutant: the weights for the next epoch are those just saved.
SavedNoRestore ==
    /\ kind = "train" /\ pc = "saving" /\ pc' = "epoch"
    /\ ckpt' = Checkpoint(best, UseEma, "default")
    /\ UNCHANGED <<runVars, step, weights, backup, poisoned, hist, best, bad, kept>>

\* The save ends and the raw weights are restored.  The sigma_floor saved is
\* the one of the configuration file.
Saved ==
    /\ kind = "train" /\ pc = "saving" /\ pc' = "epoch"
    /\ ckpt' = Checkpoint(best, UseEma, "default")
    /\ weights' = IF UseEma THEN backup ELSE weights
    /\ UNCHANGED <<runVars, backup, step, poisoned, hist, best, bad, kept>>

\* Mutant: one bad epoch more than the patience.
NoImproveLate ==
    /\ kind = "train" /\ pc = "select" /\ ~Improves(ValLoss, best)
    /\ bad' = bad + 1
    /\ pc' = IF bad + 1 > Patience THEN "done" ELSE "epoch"
    /\ UNCHANGED <<runVars, step, weights, backup, poisoned, hist, best, kept, ckpt>>

NoImprove ==
    /\ kind = "train" /\ pc = "select" /\ ~Improves(ValLoss, best)
    /\ bad' = bad + 1
    /\ pc' = IF bad + 1 >= Patience THEN "done" ELSE "epoch"
    /\ UNCHANGED <<runVars, step, weights, backup, poisoned, hist, best, kept, ckpt>>

Finish ==
    /\ kind = "train" /\ pc = "epoch" /\ epoch = Epochs
    /\ pc' = "done"
    /\ UNCHANGED <<runVars, step, weights, backup, poisoned, hist, best, bad, kept, ckpt>>

-----------------------------------------------------------------------------
(* mdn_sweep.py and bins_v2.py: remember the best states, save at the end *)

Better(which, val, state) ==
    IF Improves(val, kept[which].val) THEN [val |-> val, state |-> state] ELSE kept[which]

Remember(loop) ==
    /\ kind = loop /\ pc = "select" /\ pc' = "epoch"
    /\ UNCHANGED <<runVars, step, weights, backup, poisoned, hist, best, bad, ckpt>>

SaveAtEnd(loop, chosen, useEma) ==
    /\ kind = loop /\ pc = "epoch" /\ epoch = Epochs
    /\ weights' = IF chosen.state # << >> THEN chosen.state ELSE weights
    /\ ckpt' = [Checkpoint(chosen.val, useEma, sigma) EXCEPT !.weights = weights']
    /\ pc' = "done"
    /\ UNCHANGED <<runVars, backup, step, poisoned, hist, best, bad, kept>>

SweepEpoch == Epoch("sweep", Batches(rows, BatchSize, TRUE))
SweepEvaluate == Evaluate("sweep", Losses)
SweepRemember ==
    /\ Remember("sweep")
    /\ kept' = [raw |-> Better("raw", Last.raw, weights),
                ema |-> Better("ema", Last.ema, Averaged)]

\* The better of the two kept states is loaded, if there is one.
SweepSave ==
    IF kept.ema.val < kept.raw.val
    THEN SaveAtEnd("sweep", kept.ema, TRUE)
    ELSE SaveAtEnd("sweep", kept.raw, FALSE)

\* bins_v2 has a loop of its own (while cur < len(train_ds) - bs) and no average.
BinsBatches == {cur \in 0 .. rows - 1 : cur % BatchSize = 0 /\ cur < rows - BatchSize}
BinsEpoch == Epoch("bins", BinsBatches)
BinsEvaluate == Evaluate("bins", {NaN})
BinsRemember ==
    /\ Remember("bins")
    /\ kept' = [kept EXCEPT !.raw = Better("raw", Last.raw, weights)]
BinsSave == SaveAtEnd("bins", kept.raw, FALSE)

-----------------------------------------------------------------------------
Stopped == pc \in {"done", "failed"} /\ UNCHANGED vars

Next ==
    \/ TrainEpoch \/ TrainEpochEmpty \/ TrainEvaluate
    \/ Improve \/ Saved \/ NoImprove \/ Finish
    \/ SweepEpoch \/ SweepEvaluate \/ SweepRemember \/ SweepSave
    \/ BinsEpoch \/ BinsEvaluate \/ BinsRemember \/ BinsSave
    \/ Stopped

Spec == Init /\ [][Next]_vars

-----------------------------------------------------------------------------
Evaluated(w) == w[1] \in {"raw", "ema"} /\ w[2] \in 1 .. Len(hist)
LossOf(w) == hist[w[2]][w[1]]
AllLosses == {hist[e].raw : e \in DOMAIN hist} \cup {hist[e].ema : e \in DOMAIN hist}

\* A checkpoint holds the weights its val_loss was measured on, raw or average
\* as use_ema says, of a run that never trained on from an average; and no
\* weights evaluated so far were better by more than the tolerance (train.py
\* main, mdn_sweep.py and bins_v2.py train_one: swap, evaluate, restore,
\* select, swap, save, restore).
CheckpointIsBest ==
    ckpt.whole =>
      /\ Evaluated(ckpt.weights)
      /\ ckpt.useEma <=> ckpt.weights[1] = "ema"
      /\ IF ckpt.val = Infinity THEN AllLosses = {NaN} ELSE LossOf(ckpt.weights) = ckpt.val
      /\ pc \in {"epoch", "done"} => \A l \in AllLosses : ~Improves(l, ckpt.val)

\* train.py gives up after exactly Patience epochs in a row that were not worth
\* a checkpoint, and never goes on after that many.
PatienceIsExact ==
    kind = "train" =>
      LET saved == IF ckpt.whole THEN ckpt.weights[2] ELSE 0
      IN  /\ pc = "epoch" => epoch - saved < Patience
          /\ pc = "done" => epoch = Epochs \/ epoch - saved = Patience

\* The learning rate schedule is laid out for the steps the loops take: they
\* never overrun it, and a run that is not stopped early ends at its end.
\* bins_v2 stops one batch short whenever the batches divide the rows evenly
\* (dataset.py iter_batches and num_batches, train.py cosine_lr).
ScheduleFitsRun ==
    /\ step * Epochs <= TotalSteps * epoch \/ pc = "evaluate"
    /\ pc = "done" /\ epoch = Epochs =>
         step = TotalSteps - IF kind = "bins" /\ rows > 0 /\ rows % BatchSize = 0 THEN Epochs ELSE 0

\* train.py:305 saves "everything needed to reconstruct and evaluate the
\* model": what evaluate.py load_model builds from a checkpoint is the model
\* that was trained.  It is not when --sigma_floor was given.
Reconstructed(file) == [weights |-> file.weights, sigma |-> file.sigma]
CheckpointReconstructs ==
    ckpt.whole => Reconstructed(ckpt) = [weights |-> ckpt.weights, sigma |-> sigma]

=============================================================================
