--------------------------- MODULE TrainingProofs ---------------------------
(***************************************************************************)
(* Proofs about the training loops, for any number of rows, batch size,    *)
(* epochs, patience, losses and tolerance.                                 *)
(***************************************************************************)
EXTENDS Training, FiniteSetTheorems, TLAPS

Outcome == {NaN} \cup Loss

\* The part of the state that selection depends on has its type.
Typed ==
    /\ kind \in {"train", "sweep", "bins"}
    /\ pc \in {"epoch", "evaluate", "select", "saving", "done", "failed"}
    /\ hist \in Seq([raw : Outcome, ema : Outcome])
    /\ best \in Loss \cup {Infinity}
    /\ bad \in Nat

\* Where the weights in the model come from at each step of an epoch.
Origin ==
    /\ pc = "epoch" => weights = <<"raw", Len(hist)>>
    /\ pc = "evaluate" => weights = <<"raw", Len(hist) + 1>>
    /\ pc = "select" => Len(hist) > 0 /\ weights = <<"raw", Len(hist)>> /\ backup = weights
    /\ pc = "saving" =>
         /\ kind = "train" /\ Len(hist) > 0
         /\ backup = <<"raw", Len(hist)>>
         /\ weights = IF UseEma THEN <<"ema", Len(hist)>> ELSE <<"raw", Len(hist)>>

\* The epoch of the checkpoint, 0 when there is none.
SavedEpoch == IF ckpt.whole THEN ckpt.weights[2] ELSE 0

\* How the count of bad epochs relates to the epoch last saved.
Waiting ==
    kind = "train" =>
      /\ ckpt.whole \in BOOLEAN
      /\ SavedEpoch \in Nat
      /\ pc \in {"epoch", "evaluate"} => bad < Patience /\ Len(hist) = SavedEpoch + bad
      /\ pc = "select" => bad < Patience /\ Len(hist) = SavedEpoch + bad + 1
      /\ pc = "saving" => bad = 0
      /\ pc = "done" => Len(hist) = Epochs \/ Len(hist) = SavedEpoch + Patience

PatienceInv == Typed /\ Origin /\ Waiting

-----------------------------------------------------------------------------
\* Losses are naturals, infinity lies above them, and NaN is none of these.
LEMMA LossFacts ==
    /\ Loss \subseteq Nat /\ Infinity \in Nat /\ NaN = -1 /\ Infinity \notin Loss
    /\ Outcome \subseteq Int /\ NaN \in Outcome /\ NaN \notin Loss
    /\ Tol \in Nat /\ MaxLoss \in Nat /\ Patience \in Nat \ {0} /\ Epochs \in Nat \ {0}
    /\ Infinity = MaxLoss + Tol + 1
  BY TrainingAssumption DEF Loss, Infinity, NaN, Outcome

\* The loss that is selected is the smaller of two losses, and is NaN or a loss.
LEMMA ValLossType ==
    ASSUME Typed, Len(hist) > 0
    PROVE  Last \in [raw : Outcome, ema : Outcome] /\ ValLoss \in Outcome /\ UseEma \in BOOLEAN
  <1> DEFINE Pair == [raw : Outcome, ema : Outcome]
  <1>0. hist \in Seq(Pair) /\ Len(hist) \in Nat
    BY DEF Typed
  <1> HIDE DEF Pair
  <1>1. Last \in Pair
    BY <1>0 DEF Last
  <1> QED BY <1>1 DEF ValLoss, UseEma, AtMost, Pair

\* Only a number can improve on the best loss so far: NaN never does.
LEMMA ImprovementIsLoss ==
    ASSUME Typed, Len(hist) > 0, NEW old \in Loss \cup {Infinity}, Improves(ValLoss, old)
    PROVE  ValLoss \in Loss
  BY ValLossType DEF Improves, Below, Outcome

\* Before the first epoch nothing was saved and nothing is counted.
LEMMA PatienceInit == Init => PatienceInv
  <1> SUFFICES ASSUME Init PROVE PatienceInv
    OBVIOUS
  <1>1. Typed
    BY LossFacts DEF Init, Typed, TrainSetup, SweepSetup, BinsSetup
  <1>2. Origin
    BY DEF Init, Origin
  <1>3. Waiting
    BY LossFacts DEF Init, Waiting, SavedEpoch, NoFile
  <1> QED BY <1>1, <1>2, <1>3 DEF PatienceInv

\* One epoch of any of the loops.
LEMMA PatienceEpoch ==
    ASSUME PatienceInv, NEW loop, NEW steps, Epoch(loop, steps)
    PROVE  PatienceInv'
  <1> USE DEF Epoch, epoch, runVars, PatienceInv
  <1>1. Typed'
    BY DEF Typed
  <1>2. Origin'
    BY DEF Typed, Origin
  <1>3. Waiting'
    BY DEF Waiting, SavedEpoch
  <1> QED BY <1>1, <1>2, <1>3

\* Evaluating an epoch adds its losses and leaves the count of bad epochs.
LEMMA PatienceEvaluate ==
    ASSUME PatienceInv, NEW loop, NEW losses, losses \subseteq Outcome, Evaluate(loop, losses)
    PROVE  PatienceInv'
  <1> USE DEF Evaluate, runVars, PatienceInv
  <1>0. Losses \subseteq Outcome
    BY DEF Losses, Outcome
  <1>1. PICK raw \in Losses, ema \in losses : hist' = Append(hist, [raw |-> raw, ema |-> ema])
    OBVIOUS
  <1>2. /\ [raw |-> raw, ema |-> ema] \in [raw : Outcome, ema : Outcome]
        /\ hist' \in Seq([raw : Outcome, ema : Outcome])
        /\ Len(hist') = Len(hist) + 1 /\ Len(hist) \in Nat
    BY <1>0, <1>1 DEF Typed
  <1>3. Typed'
    BY <1>2 DEF Typed
  <1>4. Origin'
    BY <1>2 DEF Origin
  <1>5. Waiting'
    BY <1>2 DEF Waiting, SavedEpoch
  <1> QED BY <1>3, <1>4, <1>5

\* Every step of the three loops keeps the bad-epoch count tied to the last save.
LEMMA PatienceStep == PatienceInv /\ [Next]_vars => PatienceInv'
  <1> SUFFICES ASSUME PatienceInv, [Next]_vars PROVE PatienceInv'
    OBVIOUS
  <1>0. Losses \subseteq Outcome /\ {NaN} \subseteq Outcome
    BY DEF Losses, Outcome
  <1>l. Len(hist) \in Nat
    BY DEF PatienceInv, Typed
  <1>1. CASE TrainEpoch \/ SweepEpoch \/ BinsEpoch
    BY <1>1, PatienceEpoch DEF TrainEpoch, SweepEpoch, BinsEpoch
  <1>2. CASE TrainEvaluate \/ SweepEvaluate \/ BinsEvaluate
    BY <1>0, <1>2, PatienceEvaluate DEF TrainEvaluate, SweepEvaluate, BinsEvaluate
  <1>3. CASE TrainEpochEmpty
    BY <1>3 DEF TrainEpochEmpty, runVars, PatienceInv, Typed, Origin, Waiting, SavedEpoch
  <1>4. CASE Improve
    <2> USE <1>4 DEF Improve, runVars
    <2>1. ValLoss \in Loss
      BY ImprovementIsLoss DEF PatienceInv, Typed, Origin
    <2>2. Typed'
      BY <2>1 DEF PatienceInv, Typed
    <2>3. UseEma' = UseEma
      BY DEF UseEma, Last
    <2>4. Origin'
      <3>1. weights = <<"raw", Len(hist)>> /\ Len(hist) > 0 /\ backup = weights
        BY DEF PatienceInv, Origin
      <3> QED BY <2>3, <3>1 DEF Origin, Averaged, epoch
    <2>5. Waiting'
      BY <1>l DEF PatienceInv, Waiting, SavedEpoch, NoFile
    <2> QED BY <2>2, <2>4, <2>5 DEF PatienceInv
  <1>5. CASE Saved
    <2> USE <1>5 DEF Saved, runVars
    <2>1. Typed'
      BY DEF PatienceInv, Typed
    <2>2. Origin'
      BY DEF PatienceInv, Origin
    <2>3. ckpt'.whole = TRUE /\ ckpt'.weights = weights /\ weights[2] = Len(hist)
      BY DEF PatienceInv, Origin, Checkpoint
    <2>4. SavedEpoch' = Len(hist) /\ ckpt'.whole \in BOOLEAN
      BY <2>3 DEF SavedEpoch
    <2>5. Waiting'
      BY <1>l, <2>4, LossFacts DEF PatienceInv, Waiting
    <2> QED BY <2>1, <2>2, <2>5 DEF PatienceInv
  <1>6. CASE NoImprove
    <2> USE <1>6 DEF NoImprove, runVars
    <2>1. Typed'
      BY DEF PatienceInv, Typed
    <2>2. Origin'
      BY DEF PatienceInv, Origin
    <2>3. Waiting'
      BY <1>l, LossFacts, SMTT(60) DEF PatienceInv, Waiting, SavedEpoch, Typed
    <2> QED BY <2>1, <2>2, <2>3 DEF PatienceInv
  <1>7. CASE Finish
    BY <1>7 DEF Finish, epoch, runVars, PatienceInv, Typed, Origin, Waiting, SavedEpoch
  <1>8. CASE SweepRemember \/ BinsRemember
    BY <1>8 DEF SweepRemember, BinsRemember, Remember, runVars, PatienceInv, Typed, Origin, Waiting
  <1>9. CASE SweepSave \/ BinsSave
    BY <1>9 DEF SweepSave, BinsSave, SaveAtEnd, runVars, PatienceInv, Typed, Origin, Waiting
  <1>10. CASE Stopped \/ UNCHANGED vars
    BY <1>10 DEF Stopped, vars, PatienceInv, Typed, Origin, Waiting, SavedEpoch, UseEma, Last
  <1> QED BY <1>1, <1>2, <1>3, <1>4, <1>5, <1>6, <1>7, <1>8, <1>9, <1>10 DEF Next

\* train.py stops after exactly Patience epochs in a row without a checkpoint
\* worth saving, and never goes on after that many, for any losses, NaN
\* included, any number of epochs and any patience.
THEOREM PatienceHolds == Spec => []PatienceIsExact
  <1>1. PatienceInv => PatienceIsExact
    BY LossFacts, SMTT(60) DEF PatienceInv, Typed, Waiting, SavedEpoch, PatienceIsExact, epoch
  <1> QED BY <1>1, PatienceInit, PatienceStep, PTL DEF Spec

-----------------------------------------------------------------------------
(* The checkpoint *)

\* Raw and averaged weights diverge together; bins_v2 has no average.
Together ==
    \A e \in 1 .. Len(hist) :
      IF kind = "bins" THEN hist[e].ema = NaN ELSE hist[e].raw = NaN <=> hist[e].ema = NaN

\* The epochs on which selection has decided, and that none of them beats val.
Judged == IF pc = "select" THEN Len(hist) - 1 ELSE Len(hist)
NoneBetter(name, val) == \A e \in 1 .. Judged : ~Improves(hist[e][name], val)

\* A state remembered for the end is the best of its column over n epochs.
BestOver(k, name, n) ==
    /\ k.val \in Loss \cup {Infinity}
    /\ k.val = Infinity => k.state = << >>
    /\ k.val # Infinity =>
         \E e \in 1 .. Len(hist) : k.state = <<name, e>> /\ hist[e][name] = k.val
    /\ \A e \in 1 .. n : ~Improves(hist[e][name], k.val)
BestKept(k, name) == BestOver(k, name, Judged)

\* best.pt holds the best weights and their loss.
BestSaved ==
    ckpt.whole =>
      /\ best \in Loss /\ ckpt.val = best
      /\ \E name \in {"raw", "ema"}, e \in 1 .. Len(hist) :
           /\ ckpt.weights = <<name, e>> /\ hist[e][name] = best
           /\ ckpt.useEma <=> name = "ema"

SelectedTrain ==
    kind = "train" =>
      /\ NoneBetter("raw", best) /\ NoneBetter("ema", best)
      /\ pc = "saving" => ~ckpt.whole /\ best = ValLoss /\ best \in Loss
      /\ BestSaved

SelectedSweep ==
    kind # "train" =>
      /\ kept = [raw |-> kept.raw, ema |-> kept.ema]
      /\ BestKept(kept.raw, "raw") /\ BestKept(kept.ema, "ema")
      /\ pc # "done" => ~ckpt.whole
      /\ pc = "done" => CheckpointIsBest

SelectionInv == PatienceInv /\ Together /\ SelectedTrain /\ SelectedSweep

\* A loss that does not beat one value does not beat a lower one.
LEMMA ImprovesMonotone ==
    ASSUME NEW l \in Outcome, NEW old \in Loss \cup {Infinity}, NEW new \in Loss,
           ~Improves(l, old), Improves(new, old)
    PROVE  ~Improves(l, new)
  BY LossFacts DEF Improves, Below

\* What appending an epoch to the history of losses changes and keeps.
LEMMA HistFacts ==
    ASSUME Typed
    PROVE  /\ Len(hist) \in Nat
           /\ \A e \in 1 .. Len(hist) :
                hist[e] \in [raw : Outcome, ema : Outcome]
                /\ hist[e]["raw"] \in Outcome /\ hist[e]["ema"] \in Outcome
  <1> DEFINE Pair == [raw : Outcome, ema : Outcome]
  <1>0. hist \in Seq(Pair)
    BY DEF Typed
  <1> HIDE DEF Pair
  <1>1. Len(hist) \in Nat /\ \A e \in 1 .. Len(hist) : hist[e] \in Pair
    BY <1>0
  <1> QED BY <1>1 DEF Pair

\* The selection invariant holds before the first epoch.
LEMMA SelectionInit == Init => SelectionInv
  <1> SUFFICES ASSUME Init PROVE SelectionInv
    OBVIOUS
  <1>1. Len(hist) = 0 /\ Judged = 0 /\ ~ckpt.whole
    BY DEF Init, Judged, NoFile
  <1>2. Together
    BY <1>1 DEF Together
  <1>3. SelectedTrain
    BY <1>1 DEF SelectedTrain, NoneBetter, BestSaved, Init
  <1>4. BestKept(Nothing, "raw") /\ BestKept(Nothing, "ema")
    BY <1>1 DEF BestKept, BestOver, Nothing
  <1>5. SelectedSweep
    BY <1>1, <1>4 DEF SelectedSweep, Init
  <1> QED BY <1>2, <1>3, <1>5, PatienceInit DEF SelectionInv

\* A step that neither evaluates, nor selects, nor saves keeps it all.
LEMMA SelectionQuiet ==
    ASSUME SelectionInv, PatienceInv',
           UNCHANGED <<kind, hist, best, kept, ckpt>>,
           pc # "select", pc' # "select", pc # "saving", pc' # "saving",
           kind = "train" \/ (pc # "done" /\ pc' # "done")
    PROVE  SelectionInv'
  <1>1. Judged' = Judged /\ Together'
    BY DEF Judged, SelectionInv, Together
  <1>2. SelectedTrain'
    BY <1>1 DEF SelectionInv, SelectedTrain, NoneBetter, BestSaved
  <1>3. SelectedSweep'
    BY <1>1 DEF SelectionInv, SelectedSweep, BestKept, BestOver
  <1> QED BY <1>1, <1>2, <1>3 DEF SelectionInv

\* A new epoch's losses put the loop between evaluating and selecting.
LEMMA SelectionEvaluate ==
    ASSUME SelectionInv, PatienceInv', NEW loop, NEW losses, Evaluate(loop, losses),
           IF loop = "bins" THEN losses = {NaN} ELSE losses = Losses
    PROVE  SelectionInv'
  <1> USE DEF Evaluate, runVars
  <1> DEFINE Pair == [raw : Outcome, ema : Outcome]
  <1>1. PICK raw \in Losses, ema \in losses : hist' = Append(hist, [raw |-> raw, ema |-> ema])
    OBVIOUS
  <1>2. hist \in Seq(Pair) /\ Len(hist) \in Nat
    BY DEF SelectionInv, PatienceInv, Typed
  <1>3. /\ Len(hist') = Len(hist) + 1
        /\ \A e \in 1 .. Len(hist) : hist'[e] = hist[e]
        /\ hist'[Len(hist) + 1] = [raw |-> raw, ema |-> ema]
    <2> HIDE DEF Pair
    <2> QED BY <1>1, <1>2
  <1>4. Judged' = Len(hist) /\ Judged = Len(hist)
    BY <1>2, <1>3 DEF Judged
  <1>5. kind = "bins" => ema = NaN
    OBVIOUS
  <1>6. kind # "bins" => (raw = NaN <=> ema = NaN)
    BY LossFacts DEF Losses
  <1>7. Together'
    BY <1>2, <1>3, <1>5, <1>6 DEF SelectionInv, Together
  <1>8. ASSUME NEW name \in {"raw", "ema"}, NEW val, NoneBetter(name, val)
        PROVE  NoneBetter(name, val)'
    BY <1>3, <1>4, <1>8 DEF NoneBetter, Improves, Below
  <1>9. SelectedTrain'
    <2> SUFFICES ASSUME kind = "train" PROVE SelectedTrain'
      BY DEF SelectedTrain
    <2>1. NoneBetter("raw", best)' /\ NoneBetter("ema", best)'
      BY <1>8 DEF SelectionInv, SelectedTrain, NoneBetter
    <2>2. BestSaved'
      BY <1>2, <1>3 DEF SelectionInv, SelectedTrain, BestSaved
    <2> QED BY <2>1, <2>2 DEF SelectedTrain
  <1>10. SelectedSweep'
    <2> SUFFICES ASSUME kind # "train" PROVE SelectedSweep'
      BY DEF SelectedSweep
    <2>1. ASSUME NEW name \in {"raw", "ema"}, BestKept(kept[name], name)
          PROVE  BestKept(kept[name], name)'
      BY <1>2, <1>3, <1>4, <2>1 DEF BestKept, BestOver
    <2>2. BestKept(kept["raw"], "raw")' /\ BestKept(kept["ema"], "ema")'
      BY <2>1 DEF SelectionInv, SelectedSweep
    <2> QED BY <2>2 DEF SelectionInv, SelectedSweep
  <1> QED BY <1>7, <1>9, <1>10 DEF SelectionInv

\* What min and use_ema pick in train.py: when the loss picked is a number it
\* is the loss of the weights picked, and neither column has a lower one; when
\* it is NaN both columns are.
LEMMA PickedLoss ==
    ASSUME SelectionInv, kind = "train", Len(hist) > 0
    PROVE  /\ hist[Len(hist)].raw \in Outcome /\ hist[Len(hist)].ema \in Outcome
           /\ ValLoss # NaN =>
                /\ hist[Len(hist)].raw \in Loss /\ hist[Len(hist)].ema \in Loss
                /\ ValLoss <= hist[Len(hist)].raw /\ ValLoss <= hist[Len(hist)].ema
                /\ UseEma => hist[Len(hist)].ema = ValLoss
                /\ ~UseEma => hist[Len(hist)].raw = ValLoss
           /\ ValLoss = NaN => hist[Len(hist)].raw = NaN /\ hist[Len(hist)].ema = NaN
  <1> DEFINE r == hist[Len(hist)].raw
             a == hist[Len(hist)].ema
  <1>1. Len(hist) \in 1 .. Len(hist)
    BY HistFacts DEF SelectionInv, PatienceInv
  <1>2. r \in Outcome /\ a \in Outcome
    BY <1>1, HistFacts DEF SelectionInv, PatienceInv
  <1>3. r = NaN <=> a = NaN
    BY <1>1 DEF SelectionInv, Together
  <1>4. /\ ValLoss = IF a # NaN /\ r # NaN /\ a < r THEN a ELSE r
        /\ UseEma <=> (a # NaN /\ r # NaN /\ a <= r)
    BY DEF ValLoss, UseEma, Below, AtMost, Last
  <1>5. r \in Int /\ a \in Int /\ (r # NaN => r \in Loss) /\ (a # NaN => a \in Loss)
    BY <1>2, LossFacts DEF Outcome
  <1> HIDE DEF r, a
  <1>6. /\ ValLoss # NaN =>
             /\ r \in Loss /\ a \in Loss /\ ValLoss <= r /\ ValLoss <= a
             /\ UseEma => a = ValLoss
             /\ ~UseEma => r = ValLoss
        /\ ValLoss = NaN => r = NaN /\ a = NaN
    BY <1>3, <1>4, <1>5
  <1> QED BY <1>2, <1>6 DEF r, a

\* train.py finds a better loss and takes the weights it was measured on.
LEMMA SelectionImprove ==
    ASSUME SelectionInv, PatienceInv', Improve
    PROVE  SelectionInv'
  <1> USE DEF Improve, runVars
  <1>1. Len(hist) > 0 /\ Len(hist) \in Nat /\ best \in Loss \cup {Infinity} /\ Typed
    BY HistFacts DEF SelectionInv, PatienceInv, Origin, Typed
  <1>2. ValLoss \in Loss /\ ValLoss # NaN
    BY <1>1, ImprovementIsLoss, LossFacts
  <1>3. Judged = Len(hist) - 1 /\ Judged' = Len(hist)
    BY DEF Judged
  <1>4. Together'
    BY DEF SelectionInv, Together
  <1>5. ASSUME NEW name \in {"raw", "ema"}, NEW e \in 1 .. Len(hist)
        PROVE  ~Improves(hist[e][name], ValLoss)
    <2>1. CASE e = Len(hist)
      <3>1. hist[e]["raw"] \in Loss /\ ValLoss <= hist[e]["raw"]
        BY <1>1, <1>2, <2>1, PickedLoss
      <3>2. hist[e]["ema"] \in Loss /\ ValLoss <= hist[e]["ema"]
        BY <1>1, <1>2, <2>1, PickedLoss
      <3>3. hist[e][name] \in Loss /\ ValLoss <= hist[e][name]
        BY <3>1, <3>2
      <3>4. hist[e][name] \in Int /\ ValLoss \in Int /\ Tol \in Nat
        BY <1>2, <3>3, TrainingAssumption DEF Loss
      <3>5. ~(hist[e][name] < ValLoss - Tol)
        BY <3>3, <3>4
      <3> QED BY <3>5 DEF Improves, Below
    <2>2. CASE e # Len(hist)
      <3>1. e \in 1 .. Judged
        BY <1>1, <1>3, <2>2
      <3>2. ~Improves(hist[e][name], best)
        BY <3>1 DEF SelectionInv, SelectedTrain, NoneBetter
      <3>3. hist[e][name] \in Outcome
        BY <1>1, HistFacts
      <3> QED BY <1>1, <1>2, <3>2, <3>3, ImprovesMonotone
    <2> QED BY <2>1, <2>2
  <1>6. NoneBetter("raw", best)' /\ NoneBetter("ema", best)'
    BY <1>3, <1>5 DEF NoneBetter
  <1>7. ValLoss' = ValLoss /\ ~ckpt'.whole
    BY DEF ValLoss, Last, NoFile
  <1>8. SelectedTrain' /\ SelectedSweep'
    BY <1>2, <1>6, <1>7 DEF SelectedTrain, SelectedSweep, BestSaved
  <1> QED BY <1>4, <1>8 DEF SelectionInv

\* train.py writes the weights it took to the checkpoint.
LEMMA SelectionSaved ==
    ASSUME SelectionInv, PatienceInv', Saved
    PROVE  SelectionInv'
  <1> USE DEF Saved, runVars
  <1>1. Len(hist) > 0 /\ Len(hist) \in Nat /\ best = ValLoss /\ best \in Loss
    BY HistFacts DEF SelectionInv, PatienceInv, Origin, SelectedTrain
  <1>2. Judged' = Judged /\ Together'
    BY DEF Judged, SelectionInv, Together
  <1>3. /\ ckpt'.whole /\ ckpt'.val = best /\ (ckpt'.useEma <=> UseEma)
        /\ ckpt'.weights = IF UseEma THEN <<"ema", Len(hist)>> ELSE <<"raw", Len(hist)>>
    BY DEF SelectionInv, PatienceInv, Origin, Checkpoint
  <1>4. /\ UseEma => hist[Len(hist)]["ema"] = best
        /\ ~UseEma => hist[Len(hist)]["raw"] = best
    BY <1>1, PickedLoss, LossFacts
  <1>5. BestSaved'
    <2>0. Len(hist) \in 1 .. Len(hist) /\ hist' = hist /\ best' = best
      BY <1>1
    <2>1. CASE UseEma
      <3>1. /\ ckpt'.weights = <<"ema", Len(hist)>> /\ hist[Len(hist)]["ema"] = best
            /\ ckpt'.useEma <=> "ema" = "ema"
        BY <1>3, <1>4, <2>1
      <3> QED BY <1>1, <1>3, <2>0, <3>1 DEF BestSaved
    <2>2. CASE ~UseEma
      <3>1. /\ ckpt'.weights = <<"raw", Len(hist)>> /\ hist[Len(hist)]["raw"] = best
            /\ ckpt'.useEma <=> "raw" = "ema"
        BY <1>3, <1>4, <2>2
      <3> QED BY <1>1, <1>3, <2>0, <3>1 DEF BestSaved
    <2> QED BY <2>1, <2>2
  <1>6. SelectedTrain' /\ SelectedSweep'
    BY <1>2, <1>5 DEF SelectionInv, SelectedTrain, SelectedSweep, NoneBetter
  <1> QED BY <1>2, <1>6 DEF SelectionInv

\* train.py finds no better loss: what it kept still has no better rival.
LEMMA SelectionNoImprove ==
    ASSUME SelectionInv, PatienceInv', NoImprove
    PROVE  SelectionInv'
  <1> USE DEF NoImprove, runVars
  <1>1. Len(hist) > 0 /\ Len(hist) \in Nat /\ best \in Loss \cup {Infinity} /\ Typed
    BY HistFacts DEF SelectionInv, PatienceInv, Origin, Typed
  <1>2. Judged = Len(hist) - 1 /\ Judged' = Len(hist) /\ Together'
    BY DEF Judged, SelectionInv, Together
  <1>3. ASSUME NEW name \in {"raw", "ema"}
        PROVE  ~Improves(hist[Len(hist)][name], best)
    BY <1>1, PickedLoss, ValLossType, LossFacts DEF Improves, Below
  <1>4. NoneBetter("raw", best)' /\ NoneBetter("ema", best)'
    BY <1>1, <1>2, <1>3 DEF SelectionInv, SelectedTrain, NoneBetter
  <1>5. SelectedTrain' /\ SelectedSweep'
    BY <1>4 DEF SelectionInv, SelectedTrain, SelectedSweep, BestSaved
  <1> QED BY <1>2, <1>5 DEF SelectionInv

\* Better keeps the best of a column once the last epoch is taken in.
LEMMA BetterIsBest ==
    ASSUME SelectionInv, Len(hist) > 0, pc = "select", NEW name \in {"raw", "ema"},
           BestKept(kept[name], name)
    PROVE  BestOver(Better(name, hist[Len(hist)][name], <<name, Len(hist)>>), name, Len(hist))
  <1> DEFINE new == hist[Len(hist)][name]
             old == kept[name]
  <1>1. Len(hist) \in Nat /\ Len(hist) \in 1 .. Len(hist) /\ Judged = Len(hist) - 1
    BY HistFacts DEF SelectionInv, PatienceInv, Judged
  <1>2. \A e \in 1 .. Len(hist) : hist[e][name] \in Outcome
    BY HistFacts DEF SelectionInv, PatienceInv
  <1>3. BestOver(old, name, Len(hist) - 1)
    BY <1>1 DEF BestKept
  <1>4. CASE Improves(new, old.val)
    <2>1. new \in Loss /\ new # Infinity
      BY <1>1, <1>2, <1>4, LossFacts DEF Improves, Below, Outcome
    <2>2. ASSUME NEW e \in 1 .. Len(hist) PROVE ~Improves(hist[e][name], new)
      <3>1. CASE e = Len(hist)
        <4>1. new \in Int /\ Tol \in Nat
          BY <2>1, TrainingAssumption DEF Loss
        <4> QED BY <3>1, <4>1 DEF Improves, Below
      <3>2. CASE e # Len(hist)
        <4>1. ~Improves(hist[e][name], old.val) /\ old.val \in Loss \cup {Infinity}
          BY <1>1, <1>3, <3>2 DEF BestOver
        <4> QED BY <1>2, <1>4, <2>1, <4>1, ImprovesMonotone
      <3> QED BY <3>1, <3>2
    <2>3. Better(name, new, <<name, Len(hist)>>) = [val |-> new, state |-> <<name, Len(hist)>>]
      BY <1>4 DEF Better
    <2> QED BY <1>1, <2>1, <2>2, <2>3 DEF BestOver
  <1>5. CASE ~Improves(new, old.val)
    <2>1. Better(name, new, <<name, Len(hist)>>) = old
      BY <1>5 DEF Better
    <2>2. \A e \in 1 .. Len(hist) : ~Improves(hist[e][name], old.val)
      BY <1>1, <1>3, <1>5 DEF BestOver
    <2> QED BY <1>3, <2>1, <2>2 DEF BestOver
  <1> QED BY <1>4, <1>5

\* A sweep keeps the better of each column, raw and averaged, in memory.
LEMMA SelectionRemember ==
    ASSUME SelectionInv, PatienceInv', SweepRemember \/ BinsRemember
    PROVE  SelectionInv'
  <1> USE DEF Remember, runVars
  <1>1. /\ Len(hist) > 0 /\ Len(hist) \in Nat /\ weights = <<"raw", Len(hist)>>
        /\ pc = "select" /\ pc' = "epoch" /\ kind # "train"
        /\ UNCHANGED <<kind, hist, best, ckpt>>
    BY HistFacts DEF SelectionInv, PatienceInv, Origin, SweepRemember, BinsRemember
  <1>2. Judged' = Len(hist) /\ Together'
    BY <1>1 DEF Judged, SelectionInv, Together
  <1>3. /\ kept = [raw |-> kept["raw"], ema |-> kept["ema"]]
        /\ BestKept(kept["raw"], "raw") /\ BestKept(kept["ema"], "ema")
    BY <1>1 DEF SelectionInv, SelectedSweep
  <1> DEFINE raw == Better("raw", hist[Len(hist)]["raw"], <<"raw", Len(hist)>>)
             ema == Better("ema", hist[Len(hist)]["ema"], <<"ema", Len(hist)>>)
  <1>4. BestOver(raw, "raw", Len(hist)) /\ BestOver(ema, "ema", Len(hist))
    BY <1>1, <1>3, BetterIsBest
  <1>5. SweepRemember => kept' = [raw |-> raw, ema |-> ema]
    BY <1>1 DEF SweepRemember, Last, Averaged, epoch
  <1>6. BinsRemember => kept' = [raw |-> raw, ema |-> kept["ema"]]
    BY <1>1, <1>3 DEF BinsRemember, Last
  <1>7. BinsRemember => BestOver(kept["ema"], "ema", Len(hist))
    <2> SUFFICES ASSUME BinsRemember PROVE BestOver(kept["ema"], "ema", Len(hist))
      OBVIOUS
    <2>1. \A e \in 1 .. Len(hist) : hist[e]["ema"] = NaN
      BY DEF BinsRemember, SelectionInv, Together
    <2> QED BY <1>3, <2>1 DEF BestKept, BestOver, Improves, Below
  <1> HIDE DEF raw, ema
  <1>8. /\ kept' = [raw |-> kept'["raw"], ema |-> kept'["ema"]]
        /\ BestOver(kept'["raw"], "raw", Len(hist)) /\ BestOver(kept'["ema"], "ema", Len(hist))
    BY <1>4, <1>5, <1>6, <1>7
  <1>9. BestKept(kept["raw"], "raw")' /\ BestKept(kept["ema"], "ema")'
    BY <1>1, <1>2, <1>8 DEF BestKept, BestOver
  <1>10. SelectedTrain' /\ SelectedSweep'
    BY <1>1, <1>8, <1>9 DEF SelectionInv, SelectedTrain, SelectedSweep
  <1> QED BY <1>2, <1>10 DEF SelectionInv

\* What a sweep saves when it ends, given that its choice beats both columns.
LEMMA SavedAtEndIsBest ==
    ASSUME SelectionInv, pc = "epoch", Len(hist) > 0,
           NEW loop, NEW chosen, NEW name \in {"raw", "ema"}, NEW useEma \in BOOLEAN,
           useEma <=> name = "ema",
           BestOver(chosen, name, Len(hist)),
           chosen.val = Infinity => name = "raw",
           \A e \in 1 .. Len(hist) : /\ ~Improves(hist[e]["raw"], chosen.val)
                                    /\ ~Improves(hist[e]["ema"], chosen.val),
           SaveAtEnd(loop, chosen, useEma)
    PROVE  CheckpointIsBest'
  <1> USE DEF SaveAtEnd, runVars
  <1>1. /\ Len(hist) \in Nat /\ weights = <<"raw", Len(hist)>> /\ hist' = hist
        /\ \A e \in 1 .. Len(hist) : hist[e]["raw"] \in Outcome /\ hist[e]["ema"] \in Outcome
    BY HistFacts DEF SelectionInv, PatienceInv, Origin
  <1>2. /\ ckpt'.whole /\ ckpt'.val = chosen.val /\ (ckpt'.useEma <=> useEma)
        /\ ckpt'.weights = weights'
    BY DEF Checkpoint
  <1>3. DOMAIN hist' = 1 .. Len(hist)
    BY <1>1 DEF SelectionInv, PatienceInv, Typed
  <1>4. \A l \in AllLosses' : ~Improves(l, chosen.val)
    BY <1>1, <1>3 DEF AllLosses
  <1>5. CASE chosen.val = Infinity
    <2>1. weights' = <<"raw", Len(hist)>> /\ ~useEma
      BY <1>1, <1>5 DEF BestOver
    <2>2. \A l \in Outcome : ~Improves(l, Infinity) => l = NaN
      BY TrainingAssumption DEF Outcome, Improves, Below, Infinity, Loss, NaN
    <2>3. AllLosses' = {NaN}
      BY <1>1, <1>3, <1>4, <1>5, <2>2 DEF AllLosses
    <2>4. Evaluated(ckpt.weights)'
      BY <1>1, <1>2, <2>1 DEF Evaluated
    <2>5. ckpt'.useEma <=> ckpt'.weights[1] = "ema"
      BY <1>2, <2>1
    <2> QED BY <1>2, <1>4, <1>5, <2>3, <2>4, <2>5 DEF CheckpointIsBest
  <1>6. CASE chosen.val # Infinity
    <2>1. PICK e \in 1 .. Len(hist) : chosen.state = <<name, e>> /\ hist[e][name] = chosen.val
      BY <1>6 DEF BestOver
    <2>2. weights' = <<name, e>>
      BY <2>1
    <2>3. Evaluated(ckpt.weights)'
      BY <1>1, <1>2, <2>2 DEF Evaluated
    <2>4. ckpt'.useEma <=> ckpt'.weights[1] = "ema"
      BY <1>2, <2>2
    <2>5. LossOf(ckpt.weights)' = chosen.val
      BY <1>1, <1>2, <2>1, <2>2 DEF LossOf
    <2> QED BY <1>2, <1>4, <1>6, <2>3, <2>4, <2>5 DEF CheckpointIsBest
  <1> QED BY <1>5, <1>6

\* A sweep or bins_v2 ends.
LEMMA SelectionSave ==
    ASSUME SelectionInv, PatienceInv', SweepSave \/ BinsSave
    PROVE  SelectionInv'
  <1> USE DEF runVars
  <1>0. ASSUME NEW loop \in {"sweep", "bins"}, NEW chosen, NEW useEma, SaveAtEnd(loop, chosen, useEma)
        PROVE  /\ Len(hist) > 0 /\ pc = "epoch" /\ pc' = "done" /\ kind = loop
               /\ UNCHANGED <<kind, hist, best, kept>>
    BY <1>0, TrainingAssumption DEF SaveAtEnd, epoch
  <1>1. /\ Len(hist) > 0 /\ Len(hist) \in Nat /\ pc = "epoch" /\ pc' = "done" /\ kind # "train"
        /\ UNCHANGED <<kind, hist, best, kept>>
        /\ BinsSave => kind = "bins"
        /\ SweepSave => kind = "sweep"
    <2>1. Len(hist) \in Nat
      BY HistFacts DEF SelectionInv, PatienceInv
    <2>2. CASE SweepSave
      BY <1>0, <2>1, <2>2 DEF SweepSave, BinsSave, SaveAtEnd
    <2>3. CASE BinsSave
      BY <1>0, <2>1, <2>3 DEF SweepSave, BinsSave, SaveAtEnd
    <2> QED BY <2>2, <2>3
  <1>2. Judged = Len(hist) /\ Judged' = Len(hist) /\ Together'
    BY <1>1 DEF Judged, SelectionInv, Together
  <1>3. BestOver(kept["raw"], "raw", Len(hist)) /\ BestOver(kept["ema"], "ema", Len(hist))
    BY <1>1, <1>2 DEF SelectionInv, SelectedSweep, BestKept
  <1>4. kept["raw"].val \in Loss \cup {Infinity} /\ kept["ema"].val \in Loss \cup {Infinity}
    BY <1>3 DEF BestOver
  <1>5. \A e \in 1 .. Len(hist) : hist[e]["raw"] \in Outcome /\ hist[e]["ema"] \in Outcome
    BY HistFacts DEF SelectionInv, PatienceInv
  <1>6. ASSUME NEW l \in Outcome, NEW v \in Loss \cup {Infinity}, NEW w \in Loss \cup {Infinity},
               v <= w, ~Improves(l, w)
        PROVE  ~Improves(l, v)
    BY <1>6, TrainingAssumption DEF Improves, Below, Outcome, Loss, Infinity, NaN
  <1>7. CheckpointIsBest'
    <2>1. CASE SweepSave /\ kept["ema"].val < kept["raw"].val
      <3>1. SaveAtEnd("sweep", kept["ema"], TRUE)
        BY <2>1 DEF SweepSave
      <3>2. kept["ema"].val # Infinity /\ kept["ema"].val <= kept["raw"].val
        BY <1>4, <2>1, TrainingAssumption DEF Loss, Infinity
      <3>3. \A e \in 1 .. Len(hist) : /\ ~Improves(hist[e]["raw"], kept["ema"].val)
                                      /\ ~Improves(hist[e]["ema"], kept["ema"].val)
        BY <1>3, <1>4, <1>5, <1>6, <3>2 DEF BestOver
      <3> QED BY <1>1, <1>3, <3>1, <3>2, <3>3, SavedAtEndIsBest
    <2>2. CASE SweepSave /\ ~(kept["ema"].val < kept["raw"].val)
      <3>1. SaveAtEnd("sweep", kept["raw"], FALSE)
        BY <2>2 DEF SweepSave
      <3>2. kept["raw"].val <= kept["ema"].val
        BY <1>4, <2>2, TrainingAssumption DEF Loss, Infinity
      <3>3. \A e \in 1 .. Len(hist) : /\ ~Improves(hist[e]["raw"], kept["raw"].val)
                                      /\ ~Improves(hist[e]["ema"], kept["raw"].val)
        BY <1>3, <1>4, <1>5, <1>6, <3>2 DEF BestOver
      <3> QED BY <1>1, <1>3, <3>1, <3>3, SavedAtEndIsBest
    <2>3. CASE BinsSave
      <3>1. SaveAtEnd("bins", kept["raw"], FALSE)
        BY <2>3 DEF BinsSave
      <3>2. \A e \in 1 .. Len(hist) : hist[e]["ema"] = NaN
        BY <1>1, <2>3 DEF SelectionInv, Together
      <3>3. \A e \in 1 .. Len(hist) : /\ ~Improves(hist[e]["raw"], kept["raw"].val)
                                      /\ ~Improves(hist[e]["ema"], kept["raw"].val)
        BY <1>3, <3>2 DEF BestOver, Improves, Below
      <3> QED BY <1>1, <1>3, <3>1, <3>3, SavedAtEndIsBest
    <2> QED BY <2>1, <2>2, <2>3
  <1>8. SelectedSweep' /\ SelectedTrain'
    BY <1>1, <1>2, <1>7 DEF SelectionInv, SelectedSweep, SelectedTrain, BestKept, BestOver
  <1> QED BY <1>2, <1>8 DEF SelectionInv

\* Every step of the three loops keeps the selection invariant.
LEMMA SelectionStep == SelectionInv /\ [Next]_vars => SelectionInv'
  <1> SUFFICES ASSUME SelectionInv, [Next]_vars PROVE SelectionInv'
    OBVIOUS
  <1>0. PatienceInv'
    BY PatienceStep DEF SelectionInv
  <1>1. CASE TrainEpoch \/ SweepEpoch \/ BinsEpoch
    BY <1>0, <1>1, SelectionQuiet DEF TrainEpoch, SweepEpoch, BinsEpoch, Epoch, runVars
  <1>2. CASE TrainEvaluate \/ SweepEvaluate \/ BinsEvaluate
    BY <1>0, <1>2, SelectionEvaluate DEF TrainEvaluate, SweepEvaluate, BinsEvaluate
  <1>3. CASE TrainEpochEmpty \/ Finish
    BY <1>0, <1>3, SelectionQuiet DEF TrainEpochEmpty, Finish, runVars
  <1>4. CASE Improve
    BY <1>0, <1>4, SelectionImprove
  <1>5. CASE Saved
    BY <1>0, <1>5, SelectionSaved
  <1>6. CASE NoImprove
    BY <1>0, <1>6, SelectionNoImprove
  <1>7. CASE SweepRemember \/ BinsRemember
    BY <1>0, <1>7, SelectionRemember
  <1>8. CASE SweepSave \/ BinsSave
    BY <1>0, <1>8, SelectionSave
  <1>9. CASE Stopped \/ UNCHANGED vars
    <2>1. UNCHANGED <<kind, pc, hist, best, kept, ckpt>>
      BY <1>9 DEF Stopped, vars
    <2>2. Judged' = Judged /\ Together' /\ ValLoss' = ValLoss /\ (CheckpointIsBest => CheckpointIsBest')
      BY <2>1 DEF Judged, SelectionInv, Together, ValLoss, Last, CheckpointIsBest, Evaluated,
                  LossOf, AllLosses
    <2>3. SelectedTrain'
      BY <2>1, <2>2 DEF SelectionInv, SelectedTrain, NoneBetter, BestSaved
    <2>4. SelectedSweep'
      BY <2>1, <2>2 DEF SelectionInv, SelectedSweep, BestKept, BestOver
    <2> QED BY <1>0, <2>2, <2>3, <2>4 DEF SelectionInv
  <1> QED BY <1>1, <1>2, <1>3, <1>4, <1>5, <1>6, <1>7, <1>8, <1>9 DEF Next

\* In all three loops, whatever the losses, a checkpoint holds the weights its
\* val_loss was measured on, and no weights evaluated up to then were better by
\* more than the tolerance.
THEOREM CheckpointHolds == Spec => []CheckpointIsBest
  <1>1. SelectionInv => CheckpointIsBest
    <2> SUFFICES ASSUME SelectionInv PROVE CheckpointIsBest
      OBVIOUS
    <2>1. CASE kind # "train"
      BY <2>1 DEF SelectionInv, SelectedSweep, CheckpointIsBest
    <2>2. CASE kind = "train" /\ ckpt.whole
      <3>1. best \in Loss /\ ckpt.val = best /\ best # Infinity
        BY <2>2, LossFacts DEF SelectionInv, SelectedTrain, BestSaved
      <3>2. PICK name \in {"raw", "ema"}, e \in 1 .. Len(hist) :
              /\ ckpt.weights = <<name, e>> /\ hist[e][name] = best
              /\ ckpt.useEma <=> name = "ema"
        BY <2>2 DEF SelectionInv, SelectedTrain, BestSaved
      <3>3. DOMAIN hist = 1 .. Len(hist)
        BY DEF SelectionInv, PatienceInv, Typed
      <3>4. pc \in {"epoch", "done"} => \A l \in AllLosses : ~Improves(l, best)
        BY <2>2, <3>3 DEF SelectionInv, SelectedTrain, NoneBetter, Judged, AllLosses
      <3> QED BY <3>1, <3>2, <3>4 DEF CheckpointIsBest, Evaluated, LossOf
    <2>3. CASE ~ckpt.whole
      BY <2>3 DEF CheckpointIsBest
    <2> QED BY <2>1, <2>2, <2>3
  <1> QED BY <1>1, SelectionInit, SelectionStep, PTL DEF Spec

-----------------------------------------------------------------------------
(* The schedule *)

\* Quotient and remainder.
LEMMA DivMod ==
    ASSUME NEW n \in Nat, NEW b \in Nat \ {0}
    PROVE  \E q \in Nat, r \in 0 .. b - 1 : q = n \div b /\ r = n % b /\ n = b * q + r
  <1>1. n \div b \in Nat
    OBVIOUS
  <1>2. n % b \in 0 .. b - 1
    OBVIOUS
  <1>3. ASSUME NEW q \in Int, q = n \div b, NEW r \in Int, r = n % b
        PROVE  n = b * q + r
    BY <1>3, SMTT(60)
  <1>4. PICK q \in Nat, r \in 0 .. b - 1 : q = n \div b /\ r = n % b
    BY <1>1, <1>2
  <1>5. n = b * q + r
    BY <1>3, <1>4
  <1> QED BY <1>4, <1>5

\* The first m multiples of b are m places.
LEMMA Multiples ==
    ASSUME NEW m \in Nat, NEW b \in Nat \ {0}
    PROVE  Cardinality({k * b : k \in 0 .. m - 1}) = m
  <1> DEFINE S == {k * b : k \in 0 .. m - 1}
             f == [j \in 1 .. m |-> (j - 1) * b]
  <1>1. f \in [1 .. m -> S]
    <2>1. \A j \in 1 .. m : j - 1 \in 0 .. m - 1
      OBVIOUS
    <2> QED BY <2>1
  <1>2. ASSUME NEW i \in 1 .. m, NEW j \in 1 .. m, (i - 1) * b = (j - 1) * b
        PROVE  i = j
    BY <1>2
  <1>3. ASSUME NEW x \in S PROVE \E j \in 1 .. m : f[j] = x
    <2>1. PICK k \in 0 .. m - 1 : x = k * b
      OBVIOUS
    <2>2. k + 1 \in 1 .. m /\ (k + 1) - 1 = k
      OBVIOUS
    <2> QED BY <2>1, <2>2
  <1>4. f \in Bijection(1 .. m, S)
    <2>1. IsInjective(f)
      BY <1>2 DEF IsInjective
    <2> QED BY <1>1, <1>3, <2>1 DEF Bijection, Injection, Surjection
  <1> QED BY <1>4, FS_CountingElements DEF ExistsBijection

\* iter_batches yields as many batches as num_batches says.
LEMMA BatchCount ==
    ASSUME NEW n \in Nat, NEW b \in Nat \ {0}
    PROVE  Cardinality(Batches(n, b, TRUE)) = n \div b
  <1>1. PICK q \in Nat, r \in 0 .. b - 1 : q = n \div b /\ r = n % b /\ n = b * q + r
    BY DivMod
  <1>2. Batches(n, b, TRUE) = {k * b : k \in 0 .. q - 1}
    <2>1. ASSUME NEW cur \in 0 .. n - 1, cur % b = 0, cur + b <= n
          PROVE  \E k \in 0 .. q - 1 : cur = k * b
      <3>1. PICK k \in Nat : cur = b * k
        BY <2>1, DivMod
      <3>2. (k + 1) * b <= q * b + r
        BY <1>1, <2>1, <3>1
      <3>3. k + 1 <= q
        BY <3>2
      <3> QED BY <3>1, <3>3
    <2>2. ASSUME NEW k \in 0 .. q - 1
          PROVE  k * b \in 0 .. n - 1 /\ (k * b) % b = 0 /\ k * b + b <= n
      <3>1. (k * b) % b = 0
        OBVIOUS
      <3>2. (k + 1) * b <= q * b
        OBVIOUS
      <3>3. k * b \in Nat /\ k * b + b <= n
        BY <1>1, <3>2
      <3> QED BY <3>1, <3>3
    <2> QED BY <2>1, <2>2 DEF Batches
  <1> QED BY <1>1, <1>2, Multiples

\* bins_v2's own loop stops one batch earlier where the batches come out even.
LEMMA BinsCount ==
    ASSUME rows \in Nat
    PROVE  Cardinality(BinsBatches) = (rows \div BatchSize)
             - IF rows > 0 /\ rows % BatchSize = 0 THEN 1 ELSE 0
  <1> DEFINE b == BatchSize
  <1>0. b \in Nat \ {0}
    BY TrainingAssumption
  <1>1. PICK q \in Nat, r \in 0 .. b - 1 : q = rows \div b /\ r = rows % b /\ rows = b * q + r
    BY <1>0, DivMod
  <1> DEFINE m == q - IF rows > 0 /\ r = 0 THEN 1 ELSE 0
  <1>2. m \in Nat
    <2>1. CASE q = 0
      BY <1>0, <1>1, <2>1
    <2>2. CASE q # 0
      BY <2>2
    <2> QED BY <2>1, <2>2
  <1>3. BinsBatches = {k * b : k \in 0 .. m - 1}
    <2>1. ASSUME NEW cur \in 0 .. rows - 1, cur % b = 0, cur < rows - b
          PROVE  \E k \in 0 .. m - 1 : cur = k * b
      <3>1. PICK k \in Nat : cur = b * k
        <4>1. cur \in Nat
          OBVIOUS
        <4>2. PICK k \in Nat, z \in 0 .. b - 1 : z = cur % b /\ cur = b * k + z
          BY <1>0, <4>1, DivMod, ZenonT(60)
        <4>3. z = 0
          BY <2>1, <4>2
        <4>4. cur = b * k + 0 /\ b * k \in Nat
          BY <1>0, <4>2, <4>3
        <4> QED BY <4>4
      <3>2. (k + 1) * b < q * b + r
        BY <1>0, <1>1, <2>1, <3>1
      <3>3. k + 1 <= q /\ (r = 0 => k + 1 < q)
        BY <1>0, <3>2
      <3>4. k \in 0 .. m - 1
        BY <3>3
      <3> QED BY <3>1, <3>4, <1>0
    <2>2. ASSUME NEW k \in 0 .. m - 1
          PROVE  k * b \in 0 .. rows - 1 /\ (k * b) % b = 0 /\ k * b < rows - b
      <3>1. (k * b) % b = 0
        BY <1>0
      <3>2. k \in Nat /\ k + 1 <= q /\ (r = 0 => k + 2 <= q)
        <4>1. r = 0 => rows > 0
          <5>1. CASE q = 0
            BY <5>1, <1>2
          <5>2. CASE q # 0
            BY <5>2, <1>0, <1>1
          <5> QED BY <5>1, <5>2
        <4> QED BY <4>1
      <3>3. (k + 1) * b < q * b + r
        BY <1>0, <3>2
      <3>4. k * b \in Nat /\ k * b + b < rows
        BY <1>0, <1>1, <3>2, <3>3
      <3> QED BY <1>0, <3>1, <3>4
    <2> QED BY <2>1, <2>2 DEF BinsBatches
  <1> HIDE DEF b
  <1>4. Cardinality(BinsBatches) = m
    BY <1>0, <1>2, <1>3, Multiples
  <1> QED BY <1>1, <1>4 DEF b

\* The optimizer steps of an epoch.
PerEpoch == Cardinality(IF kind = "bins" THEN BinsBatches ELSE TrainBatches)

\* Every epoch takes the same number of steps.
Paced ==
    /\ rows \in Nat
    /\ step = PerEpoch * (IF pc = "evaluate" THEN Len(hist) + 1 ELSE Len(hist))

ScheduleInv == PatienceInv /\ Paced

\* Steps per epoch against num_batches.
LEMMA EpochCount ==
    ASSUME rows \in Nat
    PROVE  /\ rows \div BatchSize \in Nat /\ PerEpoch \in Nat
           /\ PerEpoch = (rows \div BatchSize)
                - IF kind = "bins" /\ rows > 0 /\ rows % BatchSize = 0 THEN 1 ELSE 0
  <1>1. rows \div BatchSize \in Nat
    BY TrainingAssumption
  <1>2. CASE kind = "bins"
    <2>1. PICK q \in Nat, r \in 0 .. BatchSize - 1 :
             q = rows \div BatchSize /\ r = rows % BatchSize /\ rows = BatchSize * q + r
      BY TrainingAssumption, DivMod
    <2>2. rows > 0 /\ r = 0 => q > 0
      BY <2>1, TrainingAssumption
    <2>3. PerEpoch = q - IF rows > 0 /\ r = 0 THEN 1 ELSE 0
      BY <1>2, <2>1, BinsCount DEF PerEpoch
    <2>4. PerEpoch \in Nat
      <3>1. CASE rows > 0 /\ r = 0
        BY <2>2, <2>3, <3>1
      <3>2. CASE ~(rows > 0 /\ r = 0)
        <4>1. PerEpoch = q - 0
          BY <2>3, <3>2
        <4> QED BY <4>1
      <3> QED BY <3>1, <3>2
    <2>5. PerEpoch = (rows \div BatchSize)
                - IF kind = "bins" /\ rows > 0 /\ rows % BatchSize = 0 THEN 1 ELSE 0
      BY ONLY <1>2, <2>1, <2>3
    <2> QED BY <1>1, <2>4, <2>5
  <1>3. CASE kind # "bins"
    <2>1. PerEpoch = rows \div BatchSize
      BY <1>3, BatchCount, TrainingAssumption DEF PerEpoch, TrainBatches
    <2> QED BY <1>1, <1>3, <2>1
  <1> QED BY <1>2, <1>3

\* No step has been taken before the first epoch.
LEMMA ScheduleInit == Init => ScheduleInv
  <1> SUFFICES ASSUME Init PROVE ScheduleInv
    OBVIOUS
  <1>1. rows \in Nat /\ step = 0 /\ pc = "epoch" /\ Len(hist) = 0
    BY TrainingAssumption DEF Init
  <1>2. PerEpoch \in Nat
    BY <1>1, EpochCount
  <1>3. PerEpoch * 0 = 0
    BY <1>2
  <1> QED BY <1>1, <1>3, PatienceInit DEF ScheduleInv, Paced

\* Every step of the loops keeps the pace.
LEMMA ScheduleStep == ScheduleInv /\ [Next]_vars => ScheduleInv'
  <1> SUFFICES ASSUME ScheduleInv, [Next]_vars PROVE ScheduleInv'
    OBVIOUS
  <1>0. PatienceInv' /\ Typed /\ Len(hist) \in Nat
    BY PatienceStep DEF ScheduleInv, PatienceInv, Typed
  <1>1. rows \in Nat /\ PerEpoch \in Nat
    BY EpochCount DEF ScheduleInv, Paced
  <1>2. kind' = kind /\ rows' = rows
    BY DEF Next, TrainEpoch, SweepEpoch, BinsEpoch, Epoch, TrainEpochEmpty, TrainEvaluate,
           SweepEvaluate, BinsEvaluate, Evaluate, Improve, Saved, NoImprove, Finish,
           SweepRemember, BinsRemember, Remember, SweepSave, BinsSave, SaveAtEnd, Stopped,
           runVars, vars
  <1>3. PerEpoch' = PerEpoch
    BY <1>2 DEF PerEpoch, BinsBatches, TrainBatches, Batches
  <1>4. CASE TrainEpoch \/ SweepEpoch \/ BinsEpoch
    <2>1. step' = step + PerEpoch
      BY <1>4 DEF TrainEpoch, SweepEpoch, BinsEpoch, Epoch, PerEpoch, TrainBatches
    <2>2. pc = "epoch" /\ pc' = "evaluate" /\ hist' = hist
      BY <1>4 DEF TrainEpoch, SweepEpoch, BinsEpoch, Epoch
    <2>3. PerEpoch * (Len(hist) + 1) = PerEpoch * Len(hist) + PerEpoch
      BY <1>0, <1>1
    <2> QED BY <1>0, <1>2, <1>3, <2>1, <2>2, <2>3 DEF ScheduleInv, Paced
  <1>5. CASE TrainEvaluate \/ SweepEvaluate \/ BinsEvaluate
    <2>1. PICK e : hist' = Append(hist, e)
      BY <1>5 DEF TrainEvaluate, SweepEvaluate, BinsEvaluate, Evaluate
    <2>2. pc = "evaluate" /\ pc' = "select" /\ step' = step
      BY <1>5 DEF TrainEvaluate, SweepEvaluate, BinsEvaluate, Evaluate
    <2>3. Len(hist') = Len(hist) + 1
      BY <1>0, <2>1 DEF Typed
    <2> QED BY <1>0, <1>2, <1>3, <2>2, <2>3 DEF ScheduleInv, Paced
  <1>6. ASSUME hist' = hist, step' = step, pc # "evaluate", pc' # "evaluate"
        PROVE  ScheduleInv'
    BY <1>0, <1>2, <1>3, <1>6 DEF ScheduleInv, Paced
  <1>7. CASE \/ TrainEpochEmpty \/ Improve \/ Saved \/ NoImprove \/ Finish
             \/ SweepRemember \/ SweepSave \/ BinsRemember \/ BinsSave \/ Stopped
    BY <1>6, <1>7 DEF TrainEpochEmpty, Improve, Saved, NoImprove, Finish, SweepRemember,
                      SweepSave, BinsRemember, BinsSave, Remember, SaveAtEnd, Stopped, vars
  <1>8. CASE UNCHANGED vars
    BY <1>0, <1>2, <1>3, <1>8 DEF vars, ScheduleInv, Paced
  <1> QED BY <1>4, <1>5, <1>7, <1>8 DEF Next

\* For any number of rows, batch size and epochs the loops never overrun the
\* learning rate schedule, and a run that is not stopped early ends at its end,
\* bins_v2 one batch per epoch short where the batches come out even
\* (dataset.py iter_batches and num_batches, bins_v2.py train_one).
THEOREM ScheduleHolds == Spec => []ScheduleFitsRun
  <1>1. ScheduleInv => ScheduleFitsRun
    <2> SUFFICES ASSUME ScheduleInv PROVE ScheduleFitsRun
      OBVIOUS
    <2>1. PICK q \in Nat, p \in Nat, h \in Nat :
             q = rows \div BatchSize /\ p = PerEpoch /\ h = Len(hist)
      BY EpochCount DEF ScheduleInv, Paced, PatienceInv, Typed
    <2>2. p = q - IF kind = "bins" /\ rows > 0 /\ rows % BatchSize = 0 THEN 1 ELSE 0
      BY <2>1, EpochCount DEF ScheduleInv, Paced
    <2>3. TotalSteps = q * Epochs /\ Epochs \in Nat
      BY <2>1, TrainingAssumption DEF TotalSteps, NumBatches
    <2>4. pc # "evaluate" => step = p * h
      BY <2>1 DEF ScheduleInv, Paced
    <2>5. p <= q
      BY <2>1, <2>2
    <2>6. (p * h) * Epochs <= (q * Epochs) * h
      <3>1. p * (h * Epochs) <= q * (h * Epochs)
        <4>1. \A n \in Nat : p * n <= q * n
          BY <2>1, <2>5
        <4> QED BY <2>1, <2>3, <4>1
      <3> QED BY <2>1, <2>3, <3>1
    <2>7. pc = "done" /\ h = Epochs =>
            step = TotalSteps - IF kind = "bins" /\ rows > 0 /\ rows % BatchSize = 0
                                THEN Epochs ELSE 0
      <3>1. (q - 1) * Epochs = q * Epochs - Epochs /\ q * Epochs \in Int
        BY <2>1, <2>3
      <3> QED BY <2>2, <2>3, <2>4, <3>1
    <2> QED BY <2>1, <2>3, <2>4, <2>6, <2>7 DEF ScheduleFitsRun, epoch
  <1> QED BY <1>1, ScheduleInit, ScheduleStep, PTL DEF Spec
=============================================================================
