----------------------------- MODULE LoopProofs -----------------------------
(***************************************************************************)
(* Theorems about LearningLoop, for any log, window, number of rounds and  *)
(* number of crashes and failures: first the export and the watcher, then  *)
(* the log, what is read of it and what a round learns from that.          *)
(***************************************************************************)
EXTENDS LearningLoop, SequenceTheorems, FiniteSetTheorems, WellFoundedInduction, TLAPS

\* Models are numbered in the order of their training.
Numbered ==
    /\ \E S : trained \in Seq(S)
    /\ file \in [raw : Int, embed : Int, out : Int]
    /\ file.out \in 0 .. Len(trained)
    /\ session \in {Absent} \cup 0 .. Len(trained)

\* What a round has put on disk, by where it is.  A round that got as far as
\* training will publish a model newer than any that was in place.
Export ==
    /\ rpc \in {"raw", "embed", "write", "publish"} => file.out < Len(trained)
    /\ rpc \in {"embed", "write", "publish"} => file.raw = Len(trained)
    /\ rpc = "publish" => file.embed = Len(trained)
    /\ rpc = "report" => file.out = Len(trained)

\* While a round runs the status says so, whatever it said before, unless it
\* could not be written.
Announced == rpc # "sleep" => status.state = "training" \/ unwritten

\* File times only grow, so what the watcher remembers, what it has built and
\* what is in place are in this order.
Chasing ==
    /\ bpc \in {"down", "built", "watching", "noticed", "loaded"}
    /\ bpc \in {"watching", "noticed", "loaded"} => last \in 0 .. file.out
    /\ bpc = "loaded" => fresh \in last .. file.out

LoopInv ==
    Numbered /\ Export /\ Announced /\ Chasing
      /\ StatusDescribesModel /\ UnchangedMeansServed

-----------------------------------------------------------------------------

\* Training appends a model and leaves the earlier ones as they were.
LEMMA OneMoreModel ==
    ASSUME NEW S, NEW s \in Seq(S), NEW e
    PROVE  /\ \E T : Append(s, e) \in Seq(T)
           /\ Len(s) \in Nat
           /\ Len(Append(s, e)) = Len(s) + 1
           /\ \A m \in 1 .. Len(s) : Append(s, e)[m] = s[m]
  <1>1. s \in Seq(S \cup {e}) /\ e \in S \cup {e} /\ Len(s) \in Nat
    BY LenProperties
  <1>2. /\ Append(s, e) \in Seq(S \cup {e})
        /\ Len(Append(s, e)) = Len(s) + 1
        /\ \A m \in 1 .. Len(s) : Append(s, e)[m] = s[m]
    BY <1>1, AppendProperties
  <1> QED BY <1>1, <1>2

\* The image ships model 0 and nothing runs yet.
LEMMA LoopStarts == Init => LoopInv
  <1> SUFFICES ASSUME Init PROVE LoopInv
    OBVIOUS
  <1> USE DEF Init, Shipped, Absent, Idle
  <1>1. Numbered
    <2>1. trained \in Seq({}) /\ Len(trained) = 0
      BY EmptySeq
    <2> QED BY <2>1 DEF Numbered
  <1>2. Export /\ Announced /\ Chasing /\ StatusDescribesModel /\ UnchangedMeansServed
    BY DEF Export, Announced, Chasing, StatusDescribesModel, UnchangedMeansServed
  <1> QED BY <1>1, <1>2 DEF LoopInv

\* The number of models is a number.
LEMMA CountIsNat == Numbered => Len(trained) \in Nat
  BY LenProperties DEF Numbered

\* The retrainer, up to the training.
LEMMA RoundKeeps ==
    ASSUME LoopInv, RoundWaits \/ RoundStarts \/ RoundFails \/ RetrainerCrash
    PROVE  LoopInv'
  <1> USE DEF LoopInv
  <1>1. UNCHANGED <<trained, file, bidderVars>>
    BY DEF RoundWaits, RoundStarts, BeginRound, RoundFails, RetrainerCrash
  <1>2. Numbered' /\ Chasing' /\ UnchangedMeansServed'
    BY <1>1 DEF bidderVars, Numbered, Chasing, UnchangedMeansServed, Finite
  <1>3. Export' /\ Announced'
    BY DEF RoundWaits, RoundStarts, BeginRound, RoundFails, RetrainerCrash, Export, Announced,
           WriteStatus
  <1>4. StatusDescribesModel'
    <2>1. \/ status'.state \in {"waiting", "training"}
          \/ UNCHANGED status /\ (unwritten' = TRUE \/ UNCHANGED unwritten)
      BY DEF RoundWaits, RoundStarts, RoundFails, RetrainerCrash, WriteStatus
    <2> QED BY <1>1, <2>1 DEF StatusDescribesModel
  <1> QED BY <1>2, <1>3, <1>4

\* Training: the new model is not in place yet.
LEMMA TrainKeeps ==
    ASSUME LoopInv, Train
    PROVE  LoopInv'
  <1> USE DEF LoopInv
  <1>1. /\ rpc = "train" /\ rpc' = "raw"
        /\ UNCHANGED <<status, unwritten, file, bpc, session, fresh, last, missed>>
    BY DEF Train, bidderVars
  <1>2. PICK e : trained' = Append(trained, e)
    BY DEF Train
  <1>3. PICK S : trained \in Seq(S)
    BY DEF Numbered
  <1>4. /\ \E T : trained' \in Seq(T)
        /\ Len(trained) \in Nat /\ Len(trained') = Len(trained) + 1
        /\ \A m \in 1 .. Len(trained) : trained'[m] = trained[m]
    BY <1>2, <1>3, OneMoreModel
  <1>5. Numbered'
    BY <1>1, <1>4 DEF Numbered, Absent
  <1>6. Export'
    BY <1>1, <1>4 DEF Export, Numbered
  <1>7. Announced' /\ Chasing' /\ StatusDescribesModel'
    BY <1>1 DEF Announced, Chasing, StatusDescribesModel
  <1>8. Finite(file.out)' = Finite(file.out)
    BY <1>1, <1>4 DEF Finite, Shipped, Numbered
  <1>9. UnchangedMeansServed'
    BY <1>1, <1>8 DEF UnchangedMeansServed
  <1> QED BY <1>5, <1>6, <1>7, <1>9

\* The file operations before the rename: the file in place is not touched.
LEMMA ExportKeeps ==
    ASSUME LoopInv, ExportRaw \/ BeginEmbed \/ EndEmbed
    PROVE  LoopInv'
  <1> USE DEF LoopInv
  <1>1. Len(trained) \in Nat
    BY CountIsNat
  <1>2. /\ UNCHANGED <<trained, status, unwritten, bpc, session, fresh, last, missed>>
        /\ rpc # "sleep"
    BY DEF ExportRaw, BeginEmbed, EndEmbed, ExportStep, bidderVars
  <1>3. file' \in [raw : Int, embed : Int, out : Int] /\ file'.out = file.out
    BY <1>1 DEF ExportRaw, BeginEmbed, EndEmbed, ExportStep, Torn, Numbered
  <1>4. Numbered'
    BY <1>2, <1>3 DEF Numbered
  <1>5. Export'
    <2> USE DEF Export, Numbered, ExportStep
    <2>1. CASE ExportRaw
      BY <1>2, <1>3, <2>1 DEF ExportRaw
    <2>2. CASE BeginEmbed
      BY <1>2, <1>3, <2>2 DEF BeginEmbed
    <2>3. CASE EndEmbed
      BY <1>2, <1>3, <2>3 DEF EndEmbed
    <2> QED BY <2>1, <2>2, <2>3
  <1>6. Announced' /\ StatusDescribesModel'
    BY <1>2, <1>3 DEF Announced, StatusDescribesModel
  <1>7. Chasing' /\ UnchangedMeansServed'
    BY <1>2, <1>3 DEF Chasing, UnchangedMeansServed, Finite
  <1> QED BY <1>4, <1>5, <1>6, <1>7

\* os.replace puts a model in place that the watcher has not seen.
LEMMA PublishKeeps ==
    ASSUME LoopInv, Publish
    PROVE  LoopInv'
  <1> USE DEF LoopInv
  <1>1. Len(trained) \in Nat
    BY CountIsNat
  <1>2. /\ UNCHANGED <<trained, status, unwritten, bpc, session, fresh, last, missed>>
        /\ rpc = "publish" /\ rpc' = "report"
    BY DEF Publish, ExportStep, bidderVars
  <1>3. /\ file' \in [raw : Int, embed : Int, out : Int] /\ file'.out = Len(trained)
        /\ file.out < file'.out
    <2>1. file' = [file EXCEPT !.out = file.embed, !.embed = Absent]
      BY DEF Publish, ExportStep
    <2>2. file.embed = Len(trained) /\ file.out < Len(trained)
      BY <1>2 DEF Export
    <2>3. file \in [raw : Int, embed : Int, out : Int]
      BY DEF Numbered
    <2>4. file' \in [raw : Int, embed : Int, out : Int]
      <3>1. file.embed \in Int /\ Absent \in Int
        BY <2>3 DEF Absent
      <3>2. file' = [[file EXCEPT !.out = file.embed] EXCEPT !.embed = Absent]
        BY <2>1, <2>3
      <3>3. [file EXCEPT !.out = file.embed] \in [raw : Int, embed : Int, out : Int]
        BY <2>3, <3>1
      <3> QED BY <3>1, <3>2, <3>3
    <2>5. file'.out = file.embed
      BY <2>1, <2>3
    <2> QED BY <2>2, <2>4, <2>5
  <1>4. Numbered' /\ Export'
    BY <1>1, <1>2, <1>3 DEF Numbered, Export
  <1>5. Announced' /\ StatusDescribesModel'
    <2>1. status.state = "exported" => unwritten
      BY <1>2 DEF Announced
    <2>2. file.out \in Int /\ file'.out \in Int
      BY <1>3 DEF Numbered
    <2>3. status.state = "exported" => status.lossOf \in 0 .. file'.out
      BY <1>3, <2>2 DEF StatusDescribesModel
    <2> QED BY <1>2, <2>1, <2>3 DEF Announced, StatusDescribesModel
  <1>6. Chasing' /\ UnchangedMeansServed'
    <2>1. bpc \in {"watching", "noticed", "loaded"} => last \in 0 .. file'.out /\ last # file'.out
      BY <1>1, <1>3 DEF Chasing, Numbered
    <2>2. bpc = "loaded" => fresh \in last .. file'.out
      BY <1>1, <1>3 DEF Chasing, Numbered
    <2> QED BY <1>2, <2>1, <2>2 DEF Chasing, UnchangedMeansServed
  <1> QED BY <1>4, <1>5, <1>6

\* The report is of the model that was just put in place.
LEMMA ReportKeeps ==
    ASSUME LoopInv, Report
    PROVE  LoopInv'
  <1> USE DEF LoopInv
  <1>1. /\ UNCHANGED <<trained, bpc, session, fresh, last, missed>>
        /\ rpc = "report" /\ rpc' = "sleep"
    BY DEF Report, bidderVars
  <1>2. file' \in [raw : Int, embed : Int, out : Int] /\ file'.out = file.out
    BY DEF Report, Absent, Numbered
  <1>3. Numbered' /\ Export' /\ Announced'
    BY <1>1, <1>2 DEF Numbered, Export, Announced
  <1>4. StatusDescribesModel'
    <2>1. file.out = Len(trained) /\ Len(trained) \in Nat
      BY <1>1, CountIsNat DEF Export
    <2>2. CASE status' = [state |-> "exported", exports |-> exports + 1, lossOf |-> Len(trained)]
      BY <1>2, <2>1, <2>2 DEF StatusDescribesModel
    <2>3. CASE unwritten' = TRUE /\ status' = status
      BY <1>2, <2>3 DEF StatusDescribesModel
    <2> QED BY <2>2, <2>3 DEF Report, WriteStatus
  <1>5. Chasing' /\ UnchangedMeansServed'
    BY <1>1, <1>2 DEF Chasing, UnchangedMeansServed, Finite
  <1> QED BY <1>3, <1>4, <1>5

\* The bidder's main and its watcher.
LEMMA BidderKeeps ==
    ASSUME LoopInv, Bidder \/ ReloadFails \/ BidderCrash
    PROVE  LoopInv'
  <1> USE DEF LoopInv
  <1>1. UNCHANGED <<rpc, status, unwritten, trained, file>>
    BY DEF Bidder, BuildPipeline, StartWatcher, SeeNoChange, SeeChange, BuildFresh, RejectFresh,
           SwapFresh, ReloadFails, BidderCrash, BidderStep, trainerVars
  <1>2. Export' /\ Announced' /\ StatusDescribesModel'
    BY <1>1 DEF Export, Announced, StatusDescribesModel
  <1>3. Len(trained) \in Nat /\ file.out \in 0 .. Len(trained)
    BY CountIsNat DEF Numbered
  <1>4. Finite(file.out)' = Finite(file.out)
    BY <1>1 DEF Finite
  <1> USE DEF BidderStep
  <1>5. session' \in {Absent} \cup 0 .. Len(trained) /\ Chasing' /\ UnchangedMeansServed'
    <2>1. CASE BuildPipeline
      BY <2>1, <1>1, <1>3 DEF BuildPipeline, Chasing, UnchangedMeansServed
    <2>2. CASE StartWatcher
      BY <2>2, <1>1, <1>3, <1>4 DEF StartWatcher, Chasing, UnchangedMeansServed, Numbered
    <2>3. CASE SeeNoChange
      BY <2>3, <1>1, <1>3, <1>4 DEF SeeNoChange, Chasing, UnchangedMeansServed, Numbered
    <2>4. CASE SeeChange
      BY <2>4, <1>1, <1>3 DEF SeeChange, Chasing, UnchangedMeansServed, Numbered
    <2>5. CASE BuildFresh
      BY <2>5, <1>1, <1>3 DEF BuildFresh, Chasing, UnchangedMeansServed, Numbered
    <2>6. CASE RejectFresh
      <3>1. last = file.out => ~Finite(file.out)
        BY <2>6, <1>3 DEF RejectFresh, Chasing
      <3> QED BY <2>6, <3>1, <1>1, <1>3, <1>4
              DEF RejectFresh, Chasing, UnchangedMeansServed, Numbered
    <2>7. CASE SwapFresh
      <3>1. fresh \in 0 .. Len(trained) /\ (last = file.out => fresh = file.out)
        BY <2>7, <1>3 DEF SwapFresh, Chasing
      <3> QED BY <2>7, <3>1, <1>1 DEF SwapFresh, Chasing, UnchangedMeansServed
    <2>8. CASE ReloadFails
      BY <2>8, <1>1, <1>3 DEF ReloadFails, Chasing, UnchangedMeansServed, Numbered
    <2>9. CASE BidderCrash
      BY <2>9, <1>1 DEF BidderCrash, Chasing, UnchangedMeansServed, Absent
    <2> QED BY <2>1, <2>2, <2>3, <2>4, <2>5, <2>6, <2>7, <2>8, <2>9 DEF Bidder
  <1>6. Numbered'
    BY <1>1, <1>5 DEF Numbered
  <1> QED BY <1>2, <1>5, <1>6

\* Every step keeps the invariant.
LEMMA LoopStep == LoopInv /\ [Next]_vars => LoopInv'
  <1> SUFFICES ASSUME LoopInv, [Next]_vars PROVE LoopInv'
    OBVIOUS
  <1>1. CASE Retrainer \/ RoundFails \/ RetrainerCrash
    BY <1>1, RoundKeeps, TrainKeeps, ExportKeeps, PublishKeeps, ReportKeeps DEF Retrainer
  <1>2. CASE Bidder \/ ReloadFails \/ BidderCrash
    BY <1>2, BidderKeeps
  <1>3. CASE LogStep(WriteLog) \/ LogStep(FlushLog) \/ LogStep(EngineCrash) \/ UNCHANGED vars
    <2>1. UNCHANGED <<trainerVars, file, bidderVars>>
      BY <1>3 DEF LogStep, vars
    <2> QED BY <2>1 DEF trainerVars, bidderVars, LoopInv, Numbered, Export, Announced, Chasing,
                        StatusDescribesModel, UnchangedMeansServed, Finite
  <1> QED BY <1>1, <1>2, <1>3 DEF Next

\* The invariant holds throughout.
LEMMA LoopInvariant == Spec => []LoopInv
  BY LoopStarts, LoopStep, PTL DEF Spec

-----------------------------------------------------------------------------
(* Theorems *)

\* However often retrainer, bidder and engine crash and rounds fail, the file
\* the watcher reads is a whole model, old or new (retrain.py export_onnx).
THEOREM ExportIsAtomic == Spec => []PublishedIsWhole
  <1>1. LoopInv => PublishedIsWhole
    BY DEF LoopInv, Numbered, PublishedIsWhole
  <1> QED BY <1>1, LoopInvariant, PTL

\* A status "exported" is never about a model that is not in place yet, and
\* about one that has been replaced only if a later status could not be
\* written (retrain.py write_status), whatever was interrupted.
THEOREM StatusIsTrue == Spec => []StatusDescribesModel
  <1>1. LoopInv => StatusDescribesModel
    BY DEF LoopInv
  <1> QED BY <1>1, LoopInvariant, PTL

\* A watcher that sees no change holds the model in place, but for the models
\* main.cpp records without holding them and those its probe refused.
THEOREM WatcherIsCurrent == Spec => []UnchangedMeansServed
  <1>1. LoopInv => UnchangedMeansServed
    BY DEF LoopInv
  <1> QED BY <1>1, LoopInvariant, PTL

\* A running bidder goes over to a model only after its probe, and counts it
\* (model_session.cpp reload), for any number of exports, failures and crashes.
THEOREM ProbeGuardsSwap == Spec => RunningBidderRefusesBadModels
  <1> DEFINE Guarded == bpc # "down" /\ bpc' # "down" /\ session' # session
                          => Finite(session') /\ version' = version + 1
  <1>1. [Next]_vars => [Guarded]_vars
    <2> SUFFICES ASSUME Next, bpc # "down", bpc' # "down", session' # session
                 PROVE  Finite(session') /\ version' = version + 1
      OBVIOUS
    <2>1. SwapFresh
      <3>1. ~Retrainer
        BY DEF Retrainer, RoundWaits, RoundStarts, BeginRound, Train, ExportRaw, BeginEmbed,
               EndEmbed, Publish, ExportStep, Report, bidderVars
      <3>2. ~LogStep(WriteLog) /\ ~LogStep(FlushLog) /\ ~LogStep(EngineCrash)
        BY DEF LogStep, bidderVars
      <3>3. ~RoundFails /\ ~RetrainerCrash /\ ~ReloadFails /\ ~BidderCrash
        BY DEF RoundFails, RetrainerCrash, ReloadFails, BidderCrash, bidderVars
      <3> QED BY <3>1, <3>2, <3>3 DEF Next, Bidder, BuildPipeline, StartWatcher, SeeNoChange,
                                      SeeChange, BuildFresh, RejectFresh, BidderStep
    <2> QED BY <2>1 DEF SwapFresh
  <1> QED BY <1>1, PTL DEF Spec, RunningBidderRefusesBadModels

-----------------------------------------------------------------------------
(* Counting *)

\* Every non-empty set of naturals has a least element.
LEMMA LeastNatural ==
    ASSUME NEW T, T \subseteq Nat, T # {}
    PROVE  \E m \in T : \A k \in T : m <= k
  <1> DEFINE R == OpToRel(<, Nat)
  <1>1. IsWellFoundedOn(R, Nat)
    BY NatLessThanWellFounded
  <1> HIDE DEF R
  <1>2. PICK m \in T : \A k \in T : ~(<<k, m>> \in R)
    BY <1>1, WFMin
  <1> USE DEF R
  <1>3. \A k \in T : ~(k < m)
    BY <1>2 DEF OpToRel
  <1> QED BY <1>3

\* Induction over the naturals.
LEMMA Induction ==
    ASSUME NEW T, 0 \in T, \A n \in Nat : n \in T => n + 1 \in T
    PROVE  \A n \in Nat : n \in T
  <1> DEFINE Bad == Nat \ T
  <1> SUFFICES ASSUME Bad # {} PROVE FALSE
    OBVIOUS
  <1>1. PICK n \in Bad : \A m \in Bad : n <= m
    BY LeastNatural
  <1>2. n - 1 \in Nat /\ n - 1 \notin Bad
    BY <1>1
  <1>3. (n - 1) + 1 \in T
    BY <1>2
  <1> QED BY <1>3

\* A set of places has a last one.
LEMMA LastPlace ==
    ASSUME NEW n \in Nat, NEW s \in SUBSET (0 .. n), s # {}
    PROVE  Max(s) \in s /\ \A i \in s : i <= Max(s)
  <1> DEFINE T == {n - i : i \in s}
  <1>1. T \subseteq Nat /\ T # {}
    <2>1. \A i \in s : n - i \in Nat
      OBVIOUS
    <2> QED BY <2>1
  <1>2. PICK k \in T : \A j \in T : k <= j
    BY <1>1, LeastNatural
  <1>3. PICK m \in s : k = n - m
    BY <1>2
  <1>4. \A i \in s : m >= i
    <2> SUFFICES ASSUME NEW i \in s PROVE m >= i
      OBVIOUS
    <2>1. n - m <= n - i
      BY <1>2, <1>3
    <2> QED BY <2>1
  <1>5. Max(s) \in s /\ \A i \in s : Max(s) >= i
    BY <1>4 DEF Max
  <1> QED BY <1>5

Below(S, e) == {d \in S : d < e}

\* How many places come before a place.
LEMMA BelowSize ==
    ASSUME NEW S \in SUBSET Nat, IsFiniteSet(S), NEW e \in S
    PROVE  /\ Cardinality(Below(S, e)) \in Nat /\ Cardinality(S) \in Nat
           /\ Cardinality(Below(S, e)) + 1 <= Cardinality(S)
           /\ \A d \in S : e < d => Cardinality(Below(S, e)) < Cardinality(Below(S, d))
  <1> DEFINE B == Below(S, e)
             A == B \cup {e}
  <1>1. IsFiniteSet(B) /\ B \in SUBSET S
    BY FS_Subset DEF Below
  <1>2. Cardinality(B) \in Nat /\ Cardinality(S) \in Nat
    BY <1>1, FS_CardinalityType
  <1>3. IsFiniteSet(A) /\ Cardinality(A) = Cardinality(B) + 1
    <2>1. e \notin B
      BY DEF Below
    <2> HIDE DEF B
    <2> QED BY <1>1, <2>1, FS_AddElement
  <1>4. Cardinality(A) <= Cardinality(S)
    <2>1. A \in SUBSET S
      BY <1>1
    <2> HIDE DEF A
    <2> QED BY <2>1, FS_Subset
  <1>5. ASSUME NEW d \in S, e < d PROVE Cardinality(B) < Cardinality(Below(S, d))
    <2>1. A \in SUBSET Below(S, d) /\ IsFiniteSet(Below(S, d))
      <3>1. IsFiniteSet(Below(S, d))
        BY FS_Subset DEF Below
      <3>2. \A x \in S : x < e => x < d
        BY <1>5
      <3>3. A \in SUBSET Below(S, d)
        BY <1>5, <3>2 DEF Below
      <3> QED BY <3>1, <3>3
    <2>2. Cardinality(Below(S, d)) \in Nat
      BY <2>1, FS_CardinalityType
    <2>3. Cardinality(A) <= Cardinality(Below(S, d))
      <3> HIDE DEF A
      <3> QED BY <2>1, FS_Subset
    <2> HIDE DEF A, B
    <2> QED BY <1>2, <1>3, <2>2, <2>3
  <1> HIDE DEF A
  <1> QED BY <1>2, <1>3, <1>4, <1>5

\* There is a place after any number of them that is not all.
LEMMA SomeNth ==
    ASSUME NEW S \in SUBSET Nat, IsFiniteSet(S)
    PROVE  \A n \in Nat : n < Cardinality(S) => \E e \in S : Cardinality(Below(S, e)) = n
  <1> DEFINE T == {n \in Nat : n < Cardinality(S) => \E e \in S : Cardinality(Below(S, e)) = n}
  <1>0. Cardinality(S) \in Nat
    BY FS_CardinalityType
  <1>1. 0 \in T
    <2> SUFFICES ASSUME 0 < Cardinality(S) PROVE \E e \in S : Cardinality(Below(S, e)) = 0
      OBVIOUS
    <2>1. S # {}
      BY FS_EmptySet
    <2>2. PICK e \in S : \A k \in S : e <= k
      BY <2>1, LeastNatural
    <2>3. Below(S, e) = {}
      <3>1. \A k \in S : ~(k < e)
        BY <2>2
      <3> QED BY <3>1 DEF Below
    <2> QED BY <2>3, FS_EmptySet
  <1>2. ASSUME NEW n \in Nat, n \in T PROVE n + 1 \in T
    <2> SUFFICES ASSUME n + 1 < Cardinality(S)
                 PROVE  \E e \in S : Cardinality(Below(S, e)) = n + 1
      OBVIOUS
    <2>0. n < Cardinality(S)
      BY <1>0
    <2>1. PICK e \in S : Cardinality(Below(S, e)) = n
      BY <1>2, <2>0
    <2> DEFINE B == Below(S, e)
               A == B \cup {e}
               Rest2 == S \ A
    <2>2. IsFiniteSet(B) /\ e \notin B /\ A \in SUBSET S
      <3>1. B \in SUBSET S /\ e \notin B
        BY DEF Below
      <3> HIDE DEF B
      <3> QED BY <3>1, FS_Subset
    <2>3. Cardinality(A) = n + 1
      <3> HIDE DEF B
      <3> QED BY <2>1, <2>2, FS_AddElement DEF B
    <2>4. Rest2 # {}
      <3> SUFFICES ASSUME Rest2 = {} PROVE FALSE
        OBVIOUS
      <3>1. A = S
        BY <2>2
      <3> HIDE DEF A
      <3> QED BY <1>0, <2>3, <3>1
    <2>5. PICK d \in Rest2 : \A k \in Rest2 : d <= k
      BY <2>4, LeastNatural
    <2>6. Below(S, d) = A
      <3>1. \A k \in S : k \in A <=> k <= e
        BY DEF Below
      <3>2. d \in S /\ ~(d <= e)
        BY <2>5, <3>1
      <3>3. \A k \in S : k < d <=> k <= e
        <4> SUFFICES ASSUME NEW k \in S PROVE k < d <=> k <= e
          OBVIOUS
        <4>1. k < d => k <= e
          BY <2>5, <3>1
        <4>2. k <= e => k < d
          BY <3>2
        <4> QED BY <4>1, <4>2
      <3>4. \A k : k \in Below(S, d) <=> k \in A
        BY <2>2, <3>1, <3>3 DEF Below
      <3> HIDE DEF A
      <3> QED BY <3>4
    <2> HIDE DEF A
    <2> QED BY <2>3, <2>5, <2>6
  <1> HIDE DEF T
  <1>3. \A n \in Nat : n \in T
    BY <1>1, <1>2, Induction
  <1> QED BY <1>3 DEF T

\* The places of a finite set, in order: each is there, once.
LEMMA NthIs ==
    ASSUME NEW S \in SUBSET Nat, IsFiniteSet(S)
    PROVE  /\ Cardinality(S) \in Nat
           /\ \A i \in 1 .. Cardinality(S) : Nth(S, i) \in S
           /\ \A i, j \in 1 .. Cardinality(S) : i < j => Nth(S, i) < Nth(S, j)
           /\ \A e \in S : \E i \in 1 .. Cardinality(S) : Nth(S, i) = e
  <1> DEFINE n == Cardinality(S)
             rank(e) == Cardinality(Below(S, e))
  <1>1. n \in Nat
    BY FS_CardinalityType
  <1>2. \A e \in S : rank(e) \in Nat /\ rank(e) + 1 <= n
    BY BelowSize
  <1>3. \A e, d \in S : e < d => rank(e) < rank(d)
    BY BelowSize
  <1>4. ASSUME NEW i \in 1 .. n PROVE Nth(S, i) \in S /\ rank(Nth(S, i)) = i - 1
    <2>1. i - 1 \in Nat /\ i - 1 < n
      BY <1>1
    <2>2. \E e \in S : rank(e) = i - 1
      BY <2>1, SomeNth
    <2>3. Nth(S, i) = CHOOSE e \in S : rank(e) = i - 1
      BY DEF Nth, Below
    <2> QED BY <2>2, <2>3
  <1> HIDE DEF rank, n
  <1>5. \A i, j \in 1 .. n : i < j => Nth(S, i) < Nth(S, j)
    <2> SUFFICES ASSUME NEW i \in 1 .. n, NEW j \in 1 .. n, i < j PROVE Nth(S, i) < Nth(S, j)
      OBVIOUS
    <2> DEFINE a == Nth(S, i)
               b == Nth(S, j)
    <2>1. a \in S /\ b \in S /\ rank(a) = i - 1 /\ rank(b) = j - 1 /\ a \in Nat /\ b \in Nat
      BY <1>4
    <2> HIDE DEF a, b
    <2>2. rank(a) < rank(b) /\ rank(a) \in Nat /\ rank(b) \in Nat
      BY <1>1, <1>2, <2>1
    <2>3. ~(b < a) /\ a # b
      BY <1>3, <2>1, <2>2
    <2>4. a < b
      BY <2>1, <2>3
    <2> QED BY <2>4 DEF a, b
  <1>6. ASSUME NEW e \in S PROVE \E i \in 1 .. n : Nth(S, i) = e
    <2> DEFINE i == rank(e) + 1
               d == Nth(S, i)
    <2>1. i \in 1 .. n /\ i - 1 = rank(e) /\ rank(e) \in Nat
      BY <1>1, <1>2
    <2>2. d \in S /\ rank(d) = rank(e)
      <3> HIDE DEF i
      <3> QED BY <1>4, <2>1
    <2> HIDE DEF d
    <2>3. ~(d < e) /\ ~(e < d) /\ d \in Nat /\ e \in Nat
      BY <1>3, <2>1, <2>2
    <2>4. d = e
      BY <2>3
    <2> HIDE DEF i
    <2> QED BY <2>1, <2>4 DEF d
  <1> QED BY <1>1, <1>4, <1>5, <1>6 DEF n

-----------------------------------------------------------------------------
(* The log: what the file will hold when the buffer is flushed *)

Piece == Record \X (Prefix .. Newline)
Log == disk \o buffer

Before(a, b) == a[1] < b[1] \/ (a[1] = b[1] /\ a[2] < b[2])

\* Pieces are in the order of their records, and of the pieces of a record.
InOrder(log) == \A i, j \in 1 .. Len(log) : i < j => Before(log[i], log[j])

\* What is cut off is always the end of a record.
Whole(log) ==
    \A i \in 1 .. Len(log) :
      log[i][2] # Prefix => i > 1 /\ log[i - 1] = <<log[i][1], log[i][2] - 1>>

\* The pieces after which a record was cut off.
Tears(log) ==
    {j \in 1 .. Len(log) : log[j][2] # Newline /\ (j = Len(log) \/ log[j + 1][2] = Prefix)}

Written(log, n, c) ==
    /\ log \in Seq(Piece)
    /\ \A i \in 1 .. Len(log) : log[i][1] <= n
    /\ InOrder(log) /\ Whole(log)
    /\ Cardinality(Tears(log)) <= c

LogInv ==
    /\ disk \in Seq(Piece) /\ buffer \in Seq(Piece)
    /\ logged \in Nat /\ crashes \in Nat
    /\ Written(Log, logged, crashes)

\* A piece is a record and the number of a part.
LEMMA PieceIs ==
    /\ Prefix = 1 /\ Rest = 2 /\ Newline = 3
    /\ Record \subseteq Nat
    /\ \A x \in Piece : x[1] \in Record /\ x[1] \in Nat /\ x[2] \in 1 .. 3 /\ x = <<x[1], x[2]>>
    /\ \A r \in Record : <<r, 1>> \in Piece /\ <<r, 2>> \in Piece /\ <<r, 3>> \in Piece
  <1>1. Record = 1 .. Len(PriceOf) /\ Len(PriceOf) \in Nat
    BY LogAssumption, LenProperties DEF Record
  <1>2. Record \subseteq Nat
    BY <1>1
  <1>3. Piece = Record \X (1 .. 3)
    BY DEF Piece, Prefix, Newline
  <1> HIDE DEF Record
  <1>4. \A x \in Piece : x[1] \in Record /\ x[2] \in 1 .. 3 /\ x = <<x[1], x[2]>>
    BY <1>3
  <1>5. \A r \in Record : <<r, 1>> \in Piece /\ <<r, 2>> \in Piece /\ <<r, 3>> \in Piece
    BY <1>3
  <1>6. Prefix = 1 /\ Rest = 2 /\ Newline = 3
    BY DEF Prefix, Rest, Newline
  <1>7. \A x \in Piece : x[1] \in Nat
    BY <1>2, <1>4
  <1> QED BY <1>2, <1>4, <1>5, <1>6, <1>7

\* Tears are places in the log.
LEMMA TearsFinite ==
    ASSUME NEW log \in Seq(Piece)
    PROVE  IsFiniteSet(Tears(log)) /\ Cardinality(Tears(log)) \in Nat /\ Len(log) \in Nat
  <1>1. Len(log) \in Nat
    BY LenProperties
  <1>2. IsFiniteSet(1 .. Len(log))
    BY <1>1, FS_Interval
  <1>3. Tears(log) \in SUBSET (1 .. Len(log))
    BY DEF Tears
  <1>4. IsFiniteSet(Tears(log))
    BY <1>2, <1>3, FS_Subset
  <1> QED BY <1>1, <1>4, FS_CardinalityType

\* The pieces of a record.
LEMMA PiecesIs ==
    ASSUME NEW r \in Record
    PROVE  /\ Pieces(r) \in Seq(Piece) /\ Len(Pieces(r)) = 3
           /\ Pieces(r)[1] = <<r, 1>> /\ Pieces(r)[2] = <<r, 2>> /\ Pieces(r)[3] = <<r, 3>>
  <1>1. Pieces(r) = [p \in 1 .. 3 |-> <<r, p>>]
    BY DEF Pieces, Prefix, Newline
  <1>2. \A p \in 1 .. 3 : <<r, p>> \in Piece
    BY DEF Piece, Prefix, Newline
  <1>3. Pieces(r) \in Seq(Piece)
    BY <1>1, <1>2, IsASeq
  <1>4. Len(Pieces(r)) = 3
    BY <1>1
  <1> QED BY <1>1, <1>3, <1>4

\* A record is added, after the end of the last one or where that was cut off.
LEMMA RecordAdded ==
    ASSUME NEW n \in Nat, NEW c \in Nat, NEW log, Written(log, n, c), n + 1 \in Record
    PROVE  Written(log \o Pieces(n + 1), n + 1, c)
  <1> DEFINE r == n + 1
             new == log \o Pieces(r)
             l == Len(log)
  <1>1. log \in Seq(Piece) /\ l \in Nat
    BY LenProperties DEF Written
  <1>2. /\ Pieces(r) \in Seq(Piece) /\ Len(Pieces(r)) = 3
        /\ Pieces(r)[1] = <<r, 1>> /\ Pieces(r)[2] = <<r, 2>> /\ Pieces(r)[3] = <<r, 3>>
    BY PiecesIs
  <1>3. /\ new \in Seq(Piece) /\ Len(new) = l + 3
        /\ \A i \in 1 .. l + 3 : new[i] = IF i <= l THEN log[i] ELSE Pieces(r)[i - l]
    <2> DEFINE t == Pieces(r)
    <2> HIDE DEF t, l
    <2>1. /\ log \o t \in Seq(Piece) /\ Len(log \o t) = Len(log) + Len(t)
          /\ \A i \in 1 .. Len(log) + Len(t) :
               (log \o t)[i] = IF i <= Len(log) THEN log[i] ELSE t[i - Len(log)]
      BY <1>1, <1>2, ConcatProperties DEF t
    <2> QED BY <1>2, <2>1 DEF l, t
  <1> HIDE DEF new
  <1>4. /\ \A i \in 1 .. l : new[i] = log[i]
        /\ new[l + 1] = <<r, 1>> /\ new[l + 2] = <<r, 2>> /\ new[l + 3] = <<r, 3>>
    <2>1. \A i \in 1 .. l : i \in 1 .. l + 3 /\ i <= l
      BY <1>1
    <2>2. /\ l + 1 \in 1 .. l + 3 /\ ~(l + 1 <= l) /\ (l + 1) - l = 1
          /\ l + 2 \in 1 .. l + 3 /\ ~(l + 2 <= l) /\ (l + 2) - l = 2
          /\ l + 3 \in 1 .. l + 3 /\ ~(l + 3 <= l) /\ (l + 3) - l = 3
      BY <1>1
    <2> QED BY <1>2, <1>3, <2>1, <2>2
  <1>5. \A i \in 1 .. l + 3 : i \in 1 .. l \/ i = l + 1 \/ i = l + 2 \/ i = l + 3
    BY <1>1
  <1>6. \A i \in 1 .. l : log[i] \in Piece /\ log[i][1] \in Nat /\ log[i][2] \in 1 .. 3
                          /\ log[i][1] <= n
    <2>1. \A i \in 1 .. l : log[i] \in Piece
      BY <1>1, ElementOfSeq
    <2> QED BY <2>1, PieceIs DEF Written
  <1> HIDE DEF l
  <1>7. \A i \in 1 .. Len(new) : new[i][1] <= n + 1
    <2>1. \A i \in 1 .. l : new[i][1] <= n + 1
      BY <1>4, <1>6
    <2>2. new[l + 1][1] = n + 1 /\ new[l + 2][1] = n + 1 /\ new[l + 3][1] = n + 1
      BY <1>4
    <2> QED BY <1>3, <1>5, <2>1, <2>2
  <1>8. InOrder(new)
    <2> SUFFICES ASSUME NEW i \in 1 .. l + 3, NEW j \in 1 .. l + 3, i < j
                 PROVE  Before(new[i], new[j])
      BY <1>3 DEF InOrder
    <2>1. CASE j \in 1 .. l
      <3>1. i \in 1 .. l
        BY <1>1, <2>1
      <3> QED BY <1>4, <2>1, <3>1 DEF Written, InOrder, l
    <2>2. CASE i \in 1 .. l /\ j \notin 1 .. l
      <3>1. new[j][1] = n + 1
        BY <1>4, <1>5, <2>2
      <3>2. new[i][1] <= n /\ new[i][1] \in Nat
        BY <1>4, <1>6, <2>2
      <3> QED BY <3>1, <3>2 DEF Before
    <2>3. CASE i \notin 1 .. l /\ j \notin 1 .. l
      <3>1. \/ i = l + 1 /\ j = l + 2
            \/ i = l + 1 /\ j = l + 3
            \/ i = l + 2 /\ j = l + 3
        BY <1>1, <1>5, <2>3
      <3> QED BY <1>4, <3>1 DEF Before
    <2> QED BY <2>1, <2>2, <2>3
  <1>9. Whole(new)
    <2> SUFFICES ASSUME NEW i \in 1 .. l + 3, new[i][2] # 1
                 PROVE  i > 1 /\ new[i - 1] = <<new[i][1], new[i][2] - 1>>
      BY <1>3 DEF Whole, Prefix
    <2>1. CASE i \in 1 .. l
      <3>1. log[i][2] # Prefix
        BY <1>4, <2>1 DEF Prefix
      <3>2. i > 1 /\ log[i - 1] = <<log[i][1], log[i][2] - 1>>
        BY <2>1, <3>1 DEF Written, Whole, l
      <3>3. i - 1 \in 1 .. l
        BY <1>1, <2>1, <3>2
      <3> QED BY <1>4, <2>1, <3>2, <3>3
    <2>2. CASE i = l + 1
      BY <1>4, <2>2
    <2>3. CASE i = l + 2
      <3>1. i > 1 /\ i - 1 = l + 1
        BY <1>1, <2>3
      <3> QED BY <1>4, <2>3, <3>1
    <2>4. CASE i = l + 3
      <3>1. i > 1 /\ i - 1 = l + 2
        BY <1>1, <2>4
      <3> QED BY <1>4, <2>4, <3>1
    <2> QED BY <1>5, <2>1, <2>2, <2>3, <2>4
  <1>10. Tears(new) \in SUBSET Tears(log)
    <2> SUFFICES ASSUME NEW j \in 1 .. l + 3, new[j][2] # 3,
                        j = l + 3 \/ new[j + 1][2] = 1
                 PROVE  j \in Tears(log)
      BY <1>3 DEF Tears, Prefix, Newline
    <2>1. j # l + 1 /\ j # l + 2 /\ j # l + 3
      <3>1. l + 1 # l + 3 /\ l + 2 # l + 3 /\ (l + 1) + 1 = l + 2 /\ (l + 2) + 1 = l + 3
        BY <1>1
      <3> QED BY <1>4, <3>1
    <2>2. j \in 1 .. l
      BY <1>5, <2>1
    <2>3. CASE j = l
      BY <1>4, <2>2, <2>3 DEF Tears, Newline, l
    <2>4. CASE j # l
      <3>1. j + 1 \in 1 .. l
        BY <1>1, <2>2, <2>4
      <3> QED BY <1>4, <2>1, <2>2, <3>1 DEF Tears, Newline, Prefix, l
    <2> QED BY <2>3, <2>4
  <1>11. Cardinality(Tears(new)) <= c
    <2>1. IsFiniteSet(Tears(log)) /\ Cardinality(Tears(log)) \in Nat /\ Cardinality(Tears(new)) \in Nat
      BY <1>1, <1>3, TearsFinite
    <2>2. Cardinality(Tears(new)) <= Cardinality(Tears(log)) /\ Cardinality(Tears(log)) <= c
      BY <1>10, <2>1, FS_Subset DEF Written
    <2> QED BY <2>1, <2>2
  <1> QED BY <1>3, <1>7, <1>8, <1>9, <1>11 DEF Written, new

\* A crash cuts the log off where the file ends, and tears one record at most.
LEMMA LogCut ==
    ASSUME NEW n \in Nat, NEW c \in Nat, NEW kept \in Seq(Piece), NEW lost \in Seq(Piece),
           Written(kept \o lost, n, c)
    PROVE  Written(kept, n, c + 1)
  <1> DEFINE log == kept \o lost
             l == Len(kept)
  <1>1. l \in Nat /\ Len(lost) \in Nat
    BY LenProperties
  <1>2. /\ log \in Seq(Piece) /\ Len(log) = l + Len(lost)
        /\ \A i \in 1 .. l + Len(lost) : log[i] = IF i <= l THEN kept[i] ELSE lost[i - l]
    BY ConcatProperties
  <1>0. Written(log, n, c)
    OBVIOUS
  <1> HIDE DEF log
  <1>3. \A i \in 1 .. l : i \in 1 .. Len(log) /\ log[i] = kept[i]
    BY <1>1, <1>2
  <1>4. (\A i \in 1 .. l : kept[i][1] <= n) /\ InOrder(kept)
    BY <1>0, <1>3 DEF Written, InOrder
  <1>5. Whole(kept)
    <2> SUFFICES ASSUME NEW i \in 1 .. l, kept[i][2] # Prefix
                 PROVE  i > 1 /\ kept[i - 1] = <<kept[i][1], kept[i][2] - 1>>
      BY DEF Whole
    <2>1. i > 1 /\ log[i - 1] = <<kept[i][1], kept[i][2] - 1>>
      BY <1>0, <1>3 DEF Written, Whole
    <2>2. i - 1 \in 1 .. l
      BY <1>1, <2>1
    <2> QED BY <1>3, <2>1, <2>2
  <1>6. Tears(kept) \in SUBSET (Tears(log) \cup {l})
    <2> SUFFICES ASSUME NEW j \in Tears(kept), j # l PROVE j \in Tears(log)
      OBVIOUS
    <2>1. j \in 1 .. l /\ kept[j][2] # Newline /\ kept[j + 1][2] = Prefix
      BY DEF Tears
    <2>2. j + 1 \in 1 .. l
      BY <1>1, <2>1
    <2> QED BY <1>3, <2>1, <2>2 DEF Tears
  <1>7. Cardinality(Tears(kept)) <= c + 1
    <2>1. /\ IsFiniteSet(Tears(log)) /\ Cardinality(Tears(log)) \in Nat
          /\ Cardinality(Tears(kept)) \in Nat
      BY <1>2, TearsFinite
    <2>2. /\ IsFiniteSet(Tears(log) \cup {l})
          /\ Cardinality(Tears(log) \cup {l}) <= Cardinality(Tears(log)) + 1
      <3> DEFINE T == Tears(log)
      <3>1. /\ IsFiniteSet(T \cup {l})
            /\ Cardinality(T \cup {l}) = IF l \in T THEN Cardinality(T) ELSE Cardinality(T) + 1
        BY <2>1, FS_AddElement
      <3> HIDE DEF T
      <3>2. Cardinality(T) \in Nat
        BY <2>1 DEF T
      <3> QED BY <3>1, <3>2 DEF T
    <2>3. Cardinality(Tears(kept)) <= Cardinality(Tears(log) \cup {l})
      BY <1>6, <2>2, FS_Subset
    <2>4. Cardinality(Tears(log) \cup {l}) \in Nat /\ Cardinality(Tears(log)) <= c
      BY <1>0, <2>2, FS_CardinalityType DEF Written
    <2> QED BY <2>1, <2>2, <2>3, <2>4
  <1> QED BY <1>4, <1>5, <1>7 DEF Written

\* Splitting a sequence changes nothing.
LEMMA Split ==
    ASSUME NEW S, NEW f \in Seq(S), NEW k \in 0 .. Len(f)
    PROVE  /\ SubSeq(f, 1, k) \in Seq(S) /\ SubSeq(f, k + 1, Len(f)) \in Seq(S)
           /\ SubSeq(f, 1, k) \o SubSeq(f, k + 1, Len(f)) = f
  <1> DEFINE n == Len(f)
             a == SubSeq(f, 1, k)
             b == SubSeq(f, k + 1, n)
  <1>1. n \in Nat /\ \A i \in 1 .. n : f[i] \in S
    BY LenProperties, ElementOfSeq
  <1>2. a \in Seq(S) /\ Len(a) = k /\ \A i \in 1 .. k : a[i] = f[i]
    <2>1. /\ a \in Seq(S) /\ Len(a) = IF 1 <= k THEN k - 1 + 1 ELSE 0
          /\ \A i \in 1 .. k - 1 + 1 : a[i] = f[1 + i - 1]
      <3>1. 1 \in Int /\ k \in Int /\ \A i \in 1 .. k : f[i] \in S
        BY <1>1
      <3> QED BY <3>1, SubSeqProperties
    <2> HIDE DEF a
    <2>2. k - 1 + 1 = k /\ \A i \in 1 .. k : 1 + i - 1 = i
      BY <1>1
    <2> QED BY <1>1, <2>1, <2>2
  <1>3. b \in Seq(S) /\ Len(b) = n - k /\ \A i \in 1 .. n - k : b[i] = f[k + i]
    <2>1. /\ b \in Seq(S) /\ Len(b) = IF k + 1 <= n THEN n - (k + 1) + 1 ELSE 0
          /\ \A i \in 1 .. n - (k + 1) + 1 : b[i] = f[(k + 1) + i - 1]
      <3>1. k + 1 \in Int /\ n \in Int /\ \A i \in k + 1 .. n : f[i] \in S
        BY <1>1
      <3> QED BY <3>1, SubSeqProperties
    <2> HIDE DEF b, n
    <2>2. n - (k + 1) + 1 = n - k /\ \A i \in 1 .. n - k : (k + 1) + i - 1 = k + i
      BY <1>1
    <2>3. k \in Nat /\ k <= n
      BY <1>1 DEF n
    <2>4. (IF k + 1 <= n THEN n - (k + 1) + 1 ELSE 0) = n - k
      BY <1>1, <2>3
    <2> QED BY <2>1, <2>2, <2>4
  <1> HIDE DEF a, b
  <1>4. /\ a \o b \in Seq(S) /\ Len(a \o b) = Len(a) + Len(b)
        /\ \A i \in 1 .. Len(a) + Len(b) : (a \o b)[i] = IF i <= Len(a) THEN a[i] ELSE b[i - Len(a)]
    BY <1>2, <1>3, ConcatProperties
  <1> DEFINE c == a \o b
  <1>5. Len(c) = n
    BY <1>1, <1>2, <1>3, <1>4
  <1>6. ASSUME NEW i \in 1 .. n PROVE c[i] = f[i]
    <2>1. c[i] = IF i <= k THEN a[i] ELSE b[i - k]
      <3>1. i \in 1 .. Len(a) + Len(b)
        BY <1>4, <1>5
      <3> QED BY <1>2, <1>4, <3>1
    <2> HIDE DEF c
    <2>2. CASE i <= k
      BY <1>2, <2>1, <2>2
    <2>3. CASE ~(i <= k)
      <3>1. i - k \in 1 .. n - k /\ k + (i - k) = i
        BY <1>1, <2>3
      <3> QED BY <1>3, <2>1, <2>3, <3>1
    <2> QED BY <2>2, <2>3
  <1>7. c \in Seq(S)
    BY <1>4
  <1> HIDE DEF c
  <1>8. c = f
    BY <1>5, <1>6, <1>7, SeqEqual
  <1> QED BY <1>2, <1>3, <1>8 DEF a, b, c

\* What spills and what stays are still the old log and the new record.
Spills(S, d, b, p, k) ==
    LET full == b \o p
        x == SubSeq(full, 1, k)
        y == SubSeq(full, k + 1, Len(full))
    IN  /\ x \in Seq(S) /\ y \in Seq(S) /\ d \o x \in Seq(S)
        /\ (d \o x) \o y = (d \o b) \o p

LEMMA Spilled ==
    ASSUME NEW S, NEW d \in Seq(S), NEW b \in Seq(S), NEW p \in Seq(S),
           NEW k \in 0 .. Len(b \o p)
    PROVE  Spills(S, d, b, p, k)
  <1> SUFFICES ASSUME NEW full, full = b \o p,
                      NEW x, x = SubSeq(full, 1, k), NEW y, y = SubSeq(full, k + 1, Len(full))
               PROVE  /\ x \in Seq(S) /\ y \in Seq(S) /\ d \o x \in Seq(S)
                      /\ (d \o x) \o y = (d \o b) \o p
    BY Zenon DEF Spills
  <1>1. full \in Seq(S)
    BY ConcatProperties
  <1>2. x \in Seq(S) /\ y \in Seq(S) /\ x \o y = full
    <2>1. k \in 0 .. Len(full)
      OBVIOUS
    <2> DEFINE u == SubSeq(full, 1, k)
               v == SubSeq(full, k + 1, Len(full))
    <2>2. u \in Seq(S) /\ v \in Seq(S) /\ u \o v = full
      BY ONLY <1>1, <2>1, Split
    <2> QED BY <2>2, Zenon
  <1>3. x \o y = b \o p
    BY <1>2
  <1>4. (d \o x) \o y = (d \o b) \o p
    <2>1. x \in Seq(S)
      BY <1>2
    <2>2. y \in Seq(S)
      BY <1>2
    <2>3. (d \o x) \o y = d \o (x \o y)
      BY ONLY ConcatAssociative, <2>1, <2>2, d \in Seq(S), SMTT(60)
    <2>4. (d \o b) \o p = d \o (b \o p)
      BY ONLY ConcatAssociative, d \in Seq(S), b \in Seq(S), p \in Seq(S)
    <2> QED BY ONLY <1>3, <2>3, <2>4
  <1>5. d \o x \in Seq(S)
    BY <1>2, ConcatProperties
  <1> QED BY <1>2, <1>4, <1>5

\* The engine starts with an empty log.
LEMMA LogStarts == LogInit => LogInv
  <1> SUFFICES ASSUME LogInit PROVE LogInv
    OBVIOUS
  <1>1. disk = << >> /\ buffer = << >> /\ logged = 0 /\ crashes = 0
    BY DEF LogInit
  <1>2. Log = << >> /\ << >> \in Seq(Piece) /\ Len(<< >>) = 0
    BY <1>1, EmptySeq, ConcatEmptySeq DEF Log
  <1>3. 1 .. Len(Log) = {} /\ Tears(Log) = {}
    BY <1>2 DEF Tears
  <1>4. Written(Log, 0, 0)
    BY <1>2, <1>3, FS_EmptySet DEF Written, InOrder, Whole
  <1> QED BY <1>1, <1>2, <1>4 DEF LogInv

\* The file only grows, at its end, and the log stays in order.
LEMMA LogKeeps ==
    ASSUME LogInv, WriteLog \/ FlushLog \/ EngineCrash \/ UNCHANGED logVars
    PROVE  LogInv' /\ \E more \in Seq(Piece) : disk' = disk \o more
  <1>0. /\ disk \in Seq(Piece) /\ buffer \in Seq(Piece) /\ logged \in Nat /\ crashes \in Nat
        /\ Written(Log, logged, crashes) /\ disk \o << >> = disk /\ << >> \in Seq(Piece)
    BY ConcatEmptySeq, EmptySeq DEF LogInv
  <1>1. CASE WriteLog
    <2> DEFINE r == logged + 1
               full == buffer \o Pieces(r)
    <2>1. PICK k \in 0 .. Len(full) :
            /\ disk' = disk \o SubSeq(full, 1, k)
            /\ buffer' = SubSeq(full, k + 1, Len(full))
      BY <1>1 DEF WriteLog
    <2>2. r \in Record
      <3>1. logged < Len(PriceOf) /\ Len(PriceOf) \in Nat /\ DOMAIN PriceOf = 1 .. Len(PriceOf)
        BY <1>1, LogAssumption, LenProperties DEF WriteLog
      <3> QED BY <1>0, <3>1 DEF Record
    <2>3. Pieces(r) \in Seq(Piece)
      BY <2>2, PiecesIs
    <2> DEFINE a == SubSeq(full, 1, k)
               b == SubSeq(full, k + 1, Len(full))
    <2>4. /\ a \in Seq(Piece) /\ b \in Seq(Piece) /\ disk \o a \in Seq(Piece)
          /\ (disk \o a) \o b = (disk \o buffer) \o Pieces(r)
      <3> DEFINE t == Pieces(r)
      <3>1. k \in 0 .. Len(buffer \o t) /\ t \in Seq(Piece)
        BY <2>1, <2>3
      <3> HIDE DEF t
      <3>2. Spills(Piece, disk, buffer, t, k)
        BY <1>0, <3>1, Spilled
      <3> QED BY <3>2, Zenon DEF Spills, t
    <2>5. disk' = disk \o a /\ buffer' = b
      BY <2>1
    <2> HIDE DEF a, b
    <2>6. Log' = Log \o Pieces(r)
      BY <2>4, <2>5 DEF Log
    <2>7. logged' = r /\ crashes' = crashes
      BY <1>1 DEF WriteLog
    <2>8. Written(Log', r, crashes)
      BY <1>0, <2>2, <2>6, RecordAdded
    <2>9. disk' \in Seq(Piece) /\ buffer' \in Seq(Piece)
      BY <2>4, <2>5
    <2>10. logged' \in Nat /\ crashes' \in Nat
      BY <1>0, <2>7
    <2>11. LogInv'
      BY <2>7, <2>8, <2>9, <2>10 DEF LogInv
    <2> QED BY <2>4, <2>5, <2>11
  <1>2. CASE FlushLog
    <2>1. disk' = disk \o buffer /\ buffer' = << >> /\ UNCHANGED <<logged, crashes>>
      BY <1>2 DEF FlushLog
    <2>2. disk' \in Seq(Piece)
      BY <1>0, <2>1, ConcatProperties
    <2>3. Log' = Log
      <3>1. disk' \o << >> = disk'
        BY <2>2, ConcatEmptySeq
      <3> QED BY <2>1, <3>1 DEF Log
    <2> QED BY <1>0, <2>1, <2>2, <2>3 DEF LogInv
  <1>3. CASE EngineCrash
    <2>1. crashes' = crashes + 1 /\ buffer' = << >> /\ UNCHANGED <<disk, logged>>
      BY <1>3 DEF EngineCrash
    <2>2. Log' = disk
      BY <1>0, <2>1 DEF Log
    <2>3. Written(disk, logged, crashes + 1)
      BY <1>0, LogCut DEF Log
    <2>4. crashes' \in Nat /\ buffer' \in Seq(Piece) /\ Written(Log', logged', crashes')
      BY <1>0, <2>1, <2>2, <2>3
    <2>5. LogInv'
      BY <1>0, <2>1, <2>4 DEF LogInv
    <2> QED BY <1>0, <2>1, <2>5
  <1>4. CASE UNCHANGED logVars
    <2>1. UNCHANGED <<disk, buffer, logged, crashes>>
      BY <1>4 DEF logVars
    <2>2. Log' = Log
      BY <2>1 DEF Log
    <2> QED BY <1>0, <2>1, <2>2 DEF LogInv
  <1> QED BY <1>1, <1>2, <1>3, <1>4

-----------------------------------------------------------------------------
(* What is read of the log *)

\* What is on disk is in order.
LEMMA DiskWritten ==
    ASSUME LogInv
    PROVE  /\ disk \in Seq(Piece) /\ Len(disk) \in Nat /\ DOMAIN disk = 1 .. Len(disk)
           /\ \A i \in 1 .. Len(disk) :
                disk[i] \in Piece /\ disk[i][1] \in Record /\ disk[i][1] \in Nat
                /\ disk[i][2] \in 1 .. 3 /\ disk[i] = <<disk[i][1], disk[i][2]>>
           /\ InOrder(disk) /\ Whole(disk)
  <1>1. Written(disk, logged, crashes + 1)
    BY LogCut DEF LogInv, Log
  <1>2. disk \in Seq(Piece) /\ Len(disk) \in Nat /\ DOMAIN disk = 1 .. Len(disk)
    BY LenProperties DEF LogInv
  <1>3. \A i \in 1 .. Len(disk) : disk[i] \in Piece
    BY <1>2, ElementOfSeq
  <1> QED BY <1>1, <1>2, <1>3, PieceIs DEF Written

\* Where the line that ends at e begins.
Start(e) ==
    LET before == {i \in Newlines : i < e}
    IN  IF before = {} THEN 0 ELSE Max(before)

LEMMA StartIs ==
    ASSUME LogInv, NEW e \in 1 .. Len(disk) + 1
    PROVE  /\ Start(e) \in 0 .. e - 1
           /\ Start(e) = 0 \/ Start(e) \in Newlines
           /\ \A i \in Newlines : i < e => i <= Start(e)
           /\ LineEndingAt(e) = SubSeq(disk, Start(e) + 1, e - 1)
  <1> DEFINE before == {i \in Newlines : i < e}
             n == Len(disk)
  <1>1. n \in Nat /\ Newlines \in SUBSET (1 .. n)
    BY DiskWritten DEF Newlines
  <1>2. LineEndingAt(e) = SubSeq(disk, Start(e) + 1, e - 1)
    BY DEF LineEndingAt, Start
  <1>3. CASE before = {}
    <2>1. Start(e) = 0
      BY <1>3 DEF Start
    <2> QED BY <1>1, <1>2, <1>3, <2>1
  <1>4. CASE before # {}
    <2>1. Start(e) = Max(before)
      BY <1>4 DEF Start
    <2>2. before \in SUBSET (0 .. n)
      <3>1. 1 .. n \in SUBSET (0 .. n)
        BY <1>1
      <3> QED BY <1>1, <3>1
    <2>3. Max(before) \in before /\ \A i \in before : i <= Max(before)
      <3> HIDE DEF before
      <3> QED BY <1>1, <1>4, <2>2, LastPlace
    <2>4. Start(e) \in Newlines /\ Start(e) < e /\ Start(e) \in 1 .. n
      BY <1>1, <2>1, <2>3
    <2> QED BY <1>1, <1>2, <2>1, <2>3, <2>4
  <1> QED BY <1>3, <1>4

\* A line that parses is the prefix and the rest of a record, at the start of
\* the file or after a newline.
OneRecord(e) ==
    /\ e \in 3 .. Len(disk) + 1
    /\ disk[e - 2] = <<disk[e - 2][1], Prefix>> /\ disk[e - 1] = <<disk[e - 2][1], Rest>>
    /\ e = 3 \/ disk[e - 3][2] = Newline

\* The line, piece by piece.
LEMMA LineIs ==
    ASSUME LogInv, NEW e \in 1 .. Len(disk) + 1
    PROVE  LET line == LineEndingAt(e)
           IN  /\ line \in Seq(Piece) /\ Len(line) = e - 1 - Start(e)
               /\ \A i \in 1 .. e - 1 - Start(e) : line[i] = disk[Start(e) + i]
  <1> DEFINE a == Start(e)
             line == SubSeq(disk, a + 1, e - 1)
  <1>1. a \in 0 .. e - 1 /\ LineEndingAt(e) = line
    BY StartIs
  <1>2. Len(disk) \in Nat /\ \A i \in 1 .. Len(disk) : disk[i] \in Piece
    BY DiskWritten
  <1> HIDE DEF a
  <1>3. a + 1 \in Int /\ e - 1 \in Int /\ \A i \in a + 1 .. e - 1 : disk[i] \in Piece
    BY <1>1, <1>2
  <1>4. /\ line \in Seq(Piece) /\ Len(line) = IF a + 1 <= e - 1 THEN (e - 1) - (a + 1) + 1 ELSE 0
        /\ \A i \in 1 .. (e - 1) - (a + 1) + 1 : line[i] = disk[(a + 1) + i - 1]
    BY <1>3, SubSeqProperties
  <1> HIDE DEF line
  <1>5. /\ (e - 1) - (a + 1) + 1 = e - 1 - a
        /\ \A i \in 1 .. e - 1 - a : (a + 1) + i - 1 = a + i
    BY <1>1, <1>2
  <1>6. Len(line) = e - 1 - a
    BY <1>1, <1>2, <1>4
  <1> QED BY <1>1, <1>4, <1>5, <1>6 DEF a

\* json.loads takes the prefix and the rest of one record.
LEMMA ParsesIs ==
    ASSUME NEW line \in Seq(Piece)
    PROVE  Parses(line) <=> /\ Len(line) = 2
                            /\ line[1] = <<line[1][1], 1>> /\ line[2] = <<line[1][1], 2>>
  <1> SUFFICES ASSUME Len(line) = 2
               PROVE  line = SubSeq(Pieces(line[1][1]), 1, 2)
                        <=> line[1] = <<line[1][1], 1>> /\ line[2] = <<line[1][1], 2>>
    BY DEF Parses, Prefix, Rest
  <1> DEFINE r == line[1][1]
             whole == SubSeq(Pieces(r), 1, 2)
  <1>1. line[1] \in Piece /\ r \in Record
    <2>1. 1 \in 1 .. Len(line)
      OBVIOUS
    <2>2. line[1] \in Piece
      BY <2>1, ElementOfSeq
    <2> QED BY <2>2, PieceIs
  <1> HIDE DEF r
  <1>2. Pieces(r)[1] = <<r, 1>> /\ Pieces(r)[2] = <<r, 2>> /\ <<r, 1>> \in Piece /\ <<r, 2>> \in Piece
    BY <1>1, PiecesIs, PieceIs
  <1>3. \A i \in 1 .. 2 : Pieces(r)[i] \in Piece
    <2>1. \A i \in 1 .. 2 : i = 1 \/ i = 2
      OBVIOUS
    <2> QED BY <1>2, <2>1
  <1>4. /\ whole \in Seq(Piece) /\ Len(whole) = IF 1 <= 2 THEN 2 - 1 + 1 ELSE 0
        /\ \A i \in 1 .. 2 - 1 + 1 : whole[i] = Pieces(r)[1 + i - 1]
    <2>1. 1 \in Int /\ 2 \in Int
      OBVIOUS
    <2> QED BY <1>3, <2>1, SubSeqProperties
  <1> HIDE DEF whole
  <1>5. Len(whole) = 2 /\ whole[1] = <<r, 1>> /\ whole[2] = <<r, 2>>
    BY <1>2, <1>4
  <1>6. ASSUME line[1] = <<r, 1>>, line[2] = <<r, 2>> PROVE line = whole
    <2>1. \A i \in 1 .. 2 : line[i] = whole[i]
      <3>1. \A i \in 1 .. 2 : i = 1 \/ i = 2
        OBVIOUS
      <3> QED BY <1>5, <1>6, <3>1
    <2> QED BY <1>4, <1>5, <2>1, SeqEqual
  <1> QED BY <1>5, <1>6 DEF whole, r

\* The lines that are read are those of one whole record.
LEMMA ParsedIs ==
    ASSUME LogInv, NEW e \in LineEnds
    PROVE  /\ e \in ParsedEnds <=> OneRecord(e)
           /\ e \in ParsedEnds => LineEndingAt(e)[1][1] = disk[e - 2][1]
  <1> DEFINE n == Len(disk)
             a == Start(e)
             line == LineEndingAt(e)
             l == e - 1 - a
  <1>1. /\ n \in Nat /\ DOMAIN disk = 1 .. n
        /\ \A i \in 1 .. n : disk[i][2] \in 1 .. 3 /\ disk[i] = <<disk[i][1], disk[i][2]>>
    BY DiskWritten
  <1>2. e \in 1 .. n + 1
    BY <1>1 DEF LineEnds, Newlines
  <1>3. /\ a \in 0 .. e - 1
        /\ a = 0 \/ a \in Newlines
        /\ \A i \in Newlines : i < e => i <= a
    BY <1>2, StartIs
  <1>4. /\ line \in Seq(Piece) /\ Len(line) = l
        /\ \A i \in 1 .. l : line[i] = disk[a + i]
    BY <1>2, LineIs
  <1>5. e \in ParsedEnds <=> Parses(line)
    BY DEF ParsedEnds
  <1> HIDE DEF line, a
  <1>6. \A i \in 1 .. n : i \in Newlines <=> disk[i][2] = 3
    BY <1>1 DEF Newlines, Newline
  <1>7. ASSUME Parses(line) PROVE OneRecord(e) /\ line[1][1] = disk[e - 2][1]
    <2>1. l = 2 /\ line[1] = <<line[1][1], 1>> /\ line[2] = <<line[1][1], 2>>
      BY <1>4, <1>7, ParsesIs
    <2>2. a = e - 3 /\ e >= 3
      BY <1>2, <1>3, <2>1
    <2>3. line[1] = disk[a + 1] /\ line[2] = disk[a + 2] /\ a + 1 = e - 2 /\ a + 2 = e - 1
      BY <1>2, <1>4, <2>1, <2>2
    <2>4. disk[e - 2] = <<disk[e - 2][1], 1>> /\ disk[e - 1] = <<disk[e - 2][1], 2>>
      BY <2>1, <2>3
    <2>5. e = 3 \/ disk[e - 3][2] = 3
      <3>1. CASE a = 0
        BY <1>2, <2>2, <3>1
      <3>2. CASE a # 0
        BY <1>1, <1>3, <1>6, <2>2, <3>2 DEF Newlines
      <3> QED BY <3>1, <3>2
    <2>6. e \in 3 .. n + 1
      BY <1>1, <1>2, <2>2
    <2> QED BY <2>3, <2>4, <2>5, <2>6 DEF OneRecord, Prefix, Rest, Newline
  <1>8. ASSUME OneRecord(e) PROVE Parses(line)
    <2>1. /\ e \in 3 .. n + 1
          /\ disk[e - 2] = <<disk[e - 2][1], 1>> /\ disk[e - 1] = <<disk[e - 2][1], 2>>
          /\ e = 3 \/ disk[e - 3][2] = 3
      BY <1>8 DEF OneRecord, Prefix, Rest, Newline
    <2>2. e - 2 \in 1 .. n /\ e - 1 \in 1 .. n
      BY <1>1, <2>1
    <2>3. e - 2 \notin Newlines /\ e - 1 \notin Newlines
      <3>1. disk[e - 2][2] = 1 /\ disk[e - 1][2] = 2
        BY <2>1
      <3> QED BY <1>6, <2>2, <3>1
    <2>4. a = e - 3
      <3>1. a # e - 2 /\ a # e - 1
        BY <1>2, <1>3, <2>1, <2>3
      <3>2. CASE e = 3
        BY <1>3, <3>1, <3>2
      <3>3. CASE e # 3
        <4>1. e - 3 \in 1 .. n
          BY <1>1, <2>1, <3>3
        <4>2. e - 3 \in Newlines /\ e - 3 < e
          BY <1>6, <2>1, <3>3, <4>1
        <4>3. e - 3 <= a
          BY <1>3, <4>2
        <4> QED BY <1>2, <1>3, <3>1, <4>3
      <3> QED BY <3>2, <3>3
    <2>5. l = 2 /\ a + 1 = e - 2 /\ a + 2 = e - 1
      BY <1>2, <2>4
    <2>6. line[1] = disk[e - 2] /\ line[2] = disk[e - 1]
      BY <1>4, <2>5
    <2>7. Len(line) = 2 /\ line[1] = <<line[1][1], 1>> /\ line[2] = <<line[1][1], 2>>
      BY <1>4, <2>1, <2>5, <2>6
    <2> QED BY <1>4, <2>7, ParsesIs
  <1> QED BY <1>5, <1>7, <1>8 DEF line

\* The records read are in the order of the file, which is theirs.
LEMMA ReadIs ==
    ASSUME LogInv
    PROVE  /\ ReadLines \in Seq(Record)
           /\ \A i, j \in 1 .. Len(ReadLines) : i < j => ReadLines[i] < ReadLines[j]
           /\ \A r : r \in Range(ReadLines) <=> \E e \in ParsedEnds : r = disk[e - 2][1]
  <1> DEFINE E == ParsedEnds
             n == Len(disk)
             c == Cardinality(E)
             rec(i) == LineEndingAt(Nth(E, i))[1][1]
  <1>1. /\ n \in Nat /\ \A i \in 1 .. n : disk[i][1] \in Record /\ disk[i][1] \in Nat
                                          /\ disk[i] = <<disk[i][1], disk[i][2]>>
        /\ InOrder(disk) /\ DOMAIN disk = 1 .. n
    BY DiskWritten
  <1>2. E \in SUBSET LineEnds /\ LineEnds \in SUBSET (1 .. n + 1)
    BY <1>1 DEF ParsedEnds, LineEnds, Newlines
  <1>3. \A e \in E : OneRecord(e) /\ LineEndingAt(e)[1][1] = disk[e - 2][1]
    BY <1>2, ParsedIs
  <1>4. \A e \in E : e - 2 \in 1 .. n /\ e \in Nat /\ disk[e - 2][2] = 1
    <2> SUFFICES ASSUME NEW e \in E PROVE e - 2 \in 1 .. n /\ e \in Nat /\ disk[e - 2][2] = 1
      OBVIOUS
    <2>1. e \in 3 .. n + 1 /\ disk[e - 2] = <<disk[e - 2][1], 1>>
      BY <1>3 DEF OneRecord, Prefix
    <2> QED BY <1>1, <2>1
  <1> HIDE DEF E
  <1>5. E \in SUBSET Nat /\ IsFiniteSet(E)
    <2>1. IsFiniteSet(1 .. n + 1)
      <3>1. n + 1 \in Int
        BY <1>1
      <3> QED BY <3>1, FS_Interval
    <2>2. E \in SUBSET (1 .. n + 1)
      BY <1>2
    <2> QED BY <1>4, <2>1, <2>2, FS_Subset
  <1>6. /\ c \in Nat
        /\ \A i \in 1 .. c : Nth(E, i) \in E
        /\ \A i, j \in 1 .. c : i < j => Nth(E, i) < Nth(E, j)
        /\ \A e \in E : \E i \in 1 .. c : Nth(E, i) = e
    BY <1>5, NthIs
  <1> HIDE DEF c
  <1>7. ReadLines = [i \in 1 .. c |-> rec(i)]
    BY DEF ReadLines, RecordsAt, E, c
  <1>8. \A i \in 1 .. c : rec(i) = disk[Nth(E, i) - 2][1] /\ rec(i) \in Record
    BY <1>1, <1>3, <1>4, <1>6
  <1> HIDE DEF rec
  <1>9. ReadLines \in Seq(Record) /\ Len(ReadLines) = c /\ DOMAIN ReadLines = 1 .. c
    <2>1. ReadLines \in Seq(Record)
      BY <1>6, <1>7, <1>8, IsASeq
    <2> QED BY <1>6, <1>7, <2>1, LenProperties
  <1>10. ASSUME NEW i \in 1 .. c, NEW j \in 1 .. c, i < j PROVE rec(i) < rec(j)
    <2> DEFINE a == Nth(E, i) - 2
               b == Nth(E, j) - 2
    <2>1. a \in 1 .. n /\ b \in 1 .. n /\ a < b /\ disk[a][2] = 1 /\ disk[b][2] = 1
      BY <1>4, <1>6, <1>10
    <2>2. rec(i) = disk[a][1] /\ rec(j) = disk[b][1]
      BY <1>8
    <2> HIDE DEF a, b
    <2>3. Before(disk[a], disk[b])
      BY <1>1, <2>1 DEF InOrder
    <2> QED BY <2>1, <2>2, <2>3 DEF Before
  <1>11. ASSUME NEW r PROVE r \in Range(ReadLines) <=> \E e \in E : r = disk[e - 2][1]
    <2>1. r \in Range(ReadLines) <=> \E i \in 1 .. c : r = rec(i)
      BY <1>7 DEF Range
    <2>2. (\E i \in 1 .. c : r = rec(i)) <=> \E e \in E : r = disk[e - 2][1]
      BY <1>6, <1>8
    <2> QED BY <2>1, <2>2
  <1> QED BY <1>7, <1>9, <1>10, <1>11 DEF E

\* A record that is on disk and not read comes after a tear.
LEMMA LostIsTorn ==
    ASSUME LogInv, NEW r \in OnDisk, r \notin Range(ReadLines)
    PROVE  \E j \in Tears(Log) : r = Log[j + 1][1]
  <1> DEFINE n == Len(disk)
  <1>1. /\ n \in Nat /\ DOMAIN disk = 1 .. n /\ Whole(disk)
        /\ \A i \in 1 .. n : disk[i][2] \in 1 .. 3 /\ disk[i] = <<disk[i][1], disk[i][2]>>
    BY DiskWritten
  <1>2. PICK e \in Newlines : r = disk[e][1]
    BY DEF OnDisk
  <1>3. e \in 1 .. n /\ disk[e][2] = 3 /\ e \in LineEnds
    BY <1>1, <1>2 DEF Newlines, LineEnds, Newline
  <1>4. e > 1 /\ disk[e - 1] = <<r, 2>>
    BY <1>1, <1>2, <1>3 DEF Whole, Prefix
  <1>5. e - 1 \in 1 .. n /\ disk[e - 1][2] = 2 /\ disk[e - 1][1] = r
    BY <1>1, <1>3, <1>4
  <1>6. e - 1 > 1 /\ disk[(e - 1) - 1] = <<r, 1>>
    BY <1>1, <1>5 DEF Whole, Prefix
  <1>7. e - 2 \in 1 .. n /\ disk[e - 2] = <<r, 1>> /\ disk[e - 2][1] = r /\ disk[e - 2][2] = 1
    <2>1. (e - 1) - 1 = e - 2 /\ e - 2 \in 1 .. n
      BY <1>1, <1>3, <1>6
    <2> QED BY <1>6, <2>1
  <1>8. ~OneRecord(e)
    <2>1. e \notin ParsedEnds
      BY <1>7, ReadIs
    <2> QED BY <1>3, <2>1, ParsedIs
  <1>9. e # 3 /\ disk[e - 3][2] # 3 /\ e - 3 \in 1 .. n
    <2>1. e \in 3 .. n + 1
      BY <1>1, <1>3, <1>7
    <2>2. e # 3 /\ disk[e - 3][2] # 3
      BY <1>4, <1>7, <1>8, <2>1 DEF OneRecord, Prefix, Rest, Newline
    <2> QED BY <1>1, <2>1, <2>2
  <1>10. /\ Len(Log) \in Nat /\ n <= Len(Log)
         /\ \A i \in 1 .. n : Log[i] = disk[i]
    <2>1. disk \in Seq(Piece) /\ buffer \in Seq(Piece) /\ Len(buffer) \in Nat
      BY LenProperties DEF LogInv
    <2>2. /\ Len(disk \o buffer) = n + Len(buffer)
          /\ \A i \in 1 .. n + Len(buffer) :
               (disk \o buffer)[i] = IF i <= n THEN disk[i] ELSE buffer[i - n]
      BY <2>1, ConcatProperties
    <2> HIDE DEF n
    <2> QED BY <1>1, <2>1, <2>2 DEF Log
  <1> HIDE DEF n
  <1>11. (e - 3) + 1 = e - 2 /\ e - 3 \in 1 .. Len(Log)
    <2>1. e \in Int
      BY <1>1, <1>3
    <2>2. e - 3 \in 1 .. n /\ n \in Nat /\ Len(Log) \in Nat /\ n <= Len(Log)
      BY <1>1, <1>9, <1>10
    <2> QED BY ONLY <2>1, <2>2
  <1>12. e - 3 \in Tears(Log)
    <2>1. Log[e - 3][2] # 3 /\ Log[(e - 3) + 1][2] = 1
      BY <1>7, <1>9, <1>10, <1>11
    <2> QED BY <1>11, <2>1 DEF Tears, Newline, Prefix
  <1>13. r = Log[(e - 3) + 1][1]
    BY <1>7, <1>10, <1>11
  <1> QED BY <1>12, <1>13

LEMMA LogReadBack == LogInv => CrashTearsOneLine
  <1> SUFFICES ASSUME LogInv PROVE CrashTearsOneLine
    OBVIOUS
  <1> DEFINE T == Tears(Log)
             f == [j \in T |-> Log[j + 1][1]]
             After == {f[j] : j \in T}
             Lost == OnDisk \ Range(ReadLines)
  <1>1. IsFiniteSet(T) /\ Cardinality(T) \in Nat /\ Cardinality(T) <= crashes /\ crashes \in Nat
    BY TearsFinite DEF LogInv, Written
  <1>2. Lost \in SUBSET After
    <2> SUFFICES ASSUME NEW r \in Lost PROVE r \in After
      OBVIOUS
    <2>1. PICK j \in T : r = Log[j + 1][1]
      BY LostIsTorn
    <2> HIDE DEF T
    <2> QED BY <2>1
  <1> HIDE DEF T, f, Lost
  <1>3. f \in Surjection(T, After)
    <2>1. f \in [T -> After]
      BY DEF f
    <2> QED BY <2>1 DEF Surjection
  <1> HIDE DEF After
  <1>4. IsFiniteSet(After) /\ Cardinality(After) <= Cardinality(T)
    BY <1>1, <1>3, FS_Surjection
  <1>5. IsFiniteSet(Lost) /\ Cardinality(Lost) <= Cardinality(After)
    BY <1>2, <1>4, FS_Subset
  <1>6. Cardinality(Lost) \in Nat /\ Cardinality(After) \in Nat
    BY <1>4, <1>5, FS_CardinalityType
  <1>7. Cardinality(Lost) <= crashes
    BY <1>1, <1>4, <1>5, <1>6
  <1>8. \A i, j \in DOMAIN ReadLines : i < j => ReadLines[i] < ReadLines[j]
    BY ReadIs, LenProperties
  <1> QED BY <1>7, <1>8 DEF CrashTearsOneLine, Lost

\* The log's steps are the engine's; all others leave it alone.
LEMMA LogSteps ==
    ASSUME LogInv, [Next]_vars
    PROVE  WriteLog \/ FlushLog \/ EngineCrash \/ UNCHANGED logVars
  <1>1. CASE LogStep(WriteLog) \/ LogStep(FlushLog) \/ LogStep(EngineCrash)
    BY <1>1 DEF LogStep
  <1>2. CASE Retrainer \/ RoundFails \/ RetrainerCrash
    BY <1>2 DEF Retrainer, RoundWaits, RoundStarts, BeginRound, Train, ExportRaw, BeginEmbed,
                EndEmbed, Publish, ExportStep, Report, RoundFails, RetrainerCrash
  <1>3. CASE Bidder \/ ReloadFails \/ BidderCrash
    BY <1>3 DEF Bidder, BuildPipeline, StartWatcher, SeeNoChange, SeeChange, BuildFresh,
                RejectFresh, SwapFresh, BidderStep, ReloadFails, BidderCrash
  <1>4. CASE UNCHANGED vars
    BY <1>4 DEF vars
  <1> QED BY <1>1, <1>2, <1>3, <1>4 DEF Next

\* The log is in order throughout.
LEMMA LogInvariant == Spec => []LogInv
  <1>1. Init => LogInv
    BY LogStarts DEF Init
  <1>2. LogInv /\ [Next]_vars => LogInv'
    BY LogSteps, LogKeeps
  <1> QED BY <1>1, <1>2, PTL DEF Spec

\* For any number of records and crashes, and wherever in a record the buffer
\* spills, all that reached the disk is read back in order, but for one record
\* a crash (engine.go writeLog, flushLog and New; retrain.py read_window).
THEOREM OneLineACrash == Spec => []CrashTearsOneLine
  BY LogReadBack, LogInvariant, PTL

-----------------------------------------------------------------------------
(* What a round learns *)

\* The records read from a file of these pieces.
ReadFrom(d) ==
    {r \in Record : \E e \in 3 .. Len(d) + 1 :
       /\ d[e - 2] = <<r, Prefix>> /\ d[e - 1] = <<r, Rest>>
       /\ e = 3 \/ d[e - 3][2] = Newline
       /\ e = Len(d) + 1 \/ d[e][2] = Newline}

\* An unbroken stretch of the file, all of it on disk: what the file grows by
\* is read as records after the stretch, or not at all.
Learnt(samples, d) ==
    /\ samples \in Seq(Sample)
    /\ Len(samples) \in MinRows .. Window
    /\ \A i, j \in 1 .. Len(samples) : i < j => samples[i].record < samples[j].record
    /\ \A r \in ReadFrom(d) :
         \/ r < samples[1].record \/ r > samples[Len(samples)].record
         \/ \E i \in 1 .. Len(samples) : samples[i].record = r
    /\ \A i \in 1 .. Len(samples) : \E j \in 1 .. Len(d) : d[j] = <<samples[i].record, Rest>>

StretchInv ==
    /\ rpc = "train" => Learnt(window, disk)
    /\ \A m \in 1 .. Len(trained) : Learnt(trained[m].samples, disk)

LEMMA ReadFromDisk == LogInv => Range(ReadLines) = ReadFrom(disk)
  <1> SUFFICES ASSUME LogInv PROVE Range(ReadLines) = ReadFrom(disk)
    OBVIOUS
  <1> DEFINE n == Len(disk)
  <1>1. /\ n \in Nat /\ DOMAIN disk = 1 .. n
        /\ \A i \in 1 .. n : disk[i][1] \in Record
    BY DiskWritten
  <1>2. \A e : e \in LineEnds <=> e = n + 1 \/ (e \in 1 .. n /\ disk[e][2] = Newline)
    BY <1>1 DEF LineEnds, Newlines
  <1>3. ASSUME NEW e PROVE e \in ParsedEnds <=> e \in LineEnds /\ OneRecord(e)
    BY ParsedIs DEF ParsedEnds
  <1>4. ASSUME NEW r, r \in Range(ReadLines) PROVE r \in ReadFrom(disk)
    <2>1. PICK e \in ParsedEnds : r = disk[e - 2][1]
      BY <1>4, ReadIs
    <2>2. /\ e \in 3 .. n + 1
          /\ disk[e - 2] = <<r, Prefix>> /\ disk[e - 1] = <<r, Rest>>
          /\ e = 3 \/ disk[e - 3][2] = Newline
      BY <1>3, <2>1 DEF OneRecord
    <2>3. e = n + 1 \/ disk[e][2] = Newline
      BY <1>2, <1>3
    <2>4. r \in Record
      BY <1>1, <2>1, <2>2
    <2> QED BY <2>2, <2>3, <2>4 DEF ReadFrom
  <1>5. ASSUME NEW r, r \in ReadFrom(disk) PROVE r \in Range(ReadLines)
    <2>1. PICK e \in 3 .. n + 1 :
            /\ disk[e - 2] = <<r, Prefix>> /\ disk[e - 1] = <<r, Rest>>
            /\ e = 3 \/ disk[e - 3][2] = Newline
            /\ e = n + 1 \/ disk[e][2] = Newline
      BY <1>5 DEF ReadFrom
    <2>2. disk[e - 2][1] = r
      BY <2>1
    <2>3. OneRecord(e)
      BY <2>1, <2>2 DEF OneRecord
    <2>4. e = n + 1 \/ e \in 1 .. n
      BY <1>1
    <2>5. e \in ParsedEnds
      BY <1>2, <1>3, <2>1, <2>3, <2>4
    <2> QED BY <2>2, <2>5, ReadIs
  <1> QED BY <1>4, <1>5

\* A file that has grown at its end.
Grown(d, more) ==
    /\ Len(d) \in Nat /\ Len(more) \in Nat /\ Len(d) <= Len(more)
    /\ \A i \in 1 .. Len(d) : more[i] = d[i]

\* What is read of it and was not read before comes after all that was there.
LEMMA ReadGrows ==
    ASSUME NEW d, NEW more, Grown(d, more), InOrder(more), NEW r \in ReadFrom(more),
           r \notin ReadFrom(d), NEW j \in 1 .. Len(d), NEW q, d[j] = <<q, Rest>>
    PROVE  q < r
  <1> DEFINE n == Len(d)
             l == Len(more)
  <1>1. n \in Nat /\ l \in Nat /\ n <= l /\ \A i \in 1 .. n : more[i] = d[i]
    BY DEF Grown
  <1>2. PICK e \in 3 .. l + 1 :
          /\ more[e - 2] = <<r, Prefix>> /\ more[e - 1] = <<r, Rest>>
          /\ e = 3 \/ more[e - 3][2] = Newline
          /\ e = l + 1 \/ more[e][2] = Newline
    BY DEF ReadFrom
  <1> HIDE DEF n, l
  <1>3. CASE e <= n + 1
    <2>1. e \in 3 .. n + 1 /\ e - 2 \in 1 .. n /\ e - 1 \in 1 .. n
      BY <1>1, <1>3
    <2>2. e = 3 \/ e - 3 \in 1 .. n
      BY <1>1, <2>1
    <2>3. e = n + 1 \/ (e \in 1 .. n /\ e # l + 1)
      BY <1>1, <2>1
    <2>4. d[e - 2] = <<r, Prefix>> /\ d[e - 1] = <<r, Rest>>
      BY <1>1, <1>2, <2>1
    <2>5. e = 3 \/ d[e - 3][2] = Newline
      BY <1>1, <1>2, <2>2
    <2>6. e = n + 1 \/ d[e][2] = Newline
      BY <1>1, <1>2, <2>3
    <2>7. r \in Record
      BY DEF ReadFrom
    <2>8. r \in ReadFrom(d)
      BY <2>1, <2>4, <2>5, <2>6, <2>7 DEF ReadFrom, n
    <2> QED BY <2>8
  <1>4. CASE ~(e <= n + 1)
    <2>1. j \in 1 .. n
      BY DEF n
    <2>2. j \in 1 .. l /\ e - 1 \in 1 .. l /\ j < e - 1
      BY <1>1, <1>4, <2>1
    <2>3. Before(more[j], more[e - 1])
      BY <2>2 DEF InOrder, l
    <2>4. more[j] = <<q, 2>> /\ more[e - 1] = <<r, 2>>
      BY <1>1, <1>2, <2>1 DEF Rest
    <2> QED BY <2>3, <2>4 DEF Before
  <1> QED BY <1>3, <1>4

LEMMA LearntKept ==
    ASSUME NEW d, NEW more, Grown(d, more), InOrder(more), NEW s, Learnt(s, d)
    PROVE  Learnt(s, more)
  <1> DEFINE n == Len(s)
  <1>1. n \in Nat /\ n \in 1 .. n
    <2>1. n \in MinRows .. Window
      BY DEF Learnt
    <2> QED BY <2>1, LogAssumption, LoopAssumption
  <1>2. PICK j \in 1 .. Len(d) : d[j] = <<s[n].record, Rest>>
    BY <1>1 DEF Learnt
  <1>3. s[n].record \in Nat
    <2>1. s[n] \in Sample
      BY <1>1, ElementOfSeq DEF Learnt
    <2>2. s[n].record \in Record
      BY <2>1 DEF Sample
    <2> QED BY <2>2, PieceIs
  <1>4. ASSUME NEW r \in ReadFrom(more)
        PROVE  \/ r < s[1].record \/ r > s[n].record
               \/ \E i \in 1 .. n : s[i].record = r
    <2>1. CASE r \in ReadFrom(d)
      BY <2>1 DEF Learnt
    <2>2. CASE r \notin ReadFrom(d)
      <3>1. s[n].record < r
        BY <1>2, <2>2, ReadGrows
      <3>2. r \in Nat
        BY PieceIs DEF ReadFrom
      <3> QED BY <1>3, <3>1, <3>2
    <2> QED BY <2>1, <2>2
  <1>5. ASSUME NEW i \in 1 .. n
        PROVE  \E k \in 1 .. Len(more) : more[k] = <<s[i].record, Rest>>
    <2>1. PICK k \in 1 .. Len(d) : d[k] = <<s[i].record, Rest>>
      BY DEF Learnt
    <2>2. k \in 1 .. Len(more) /\ more[k] = d[k]
      BY DEF Grown
    <2> QED BY <2>1, <2>2
  <1> QED BY <1>4, <1>5 DEF Learnt

\* A price is rounded to a whole number and clamped to the bins.
LEMMA LabelIsBin ==
    ASSUME NEW r \in Record
    PROVE  Label(r) \in 0 .. NumBins - 1
  <1> DEFINE p == PriceOf[r]
             price == Rounded(p)
  <1>1. p \in Int
    BY LogAssumption, ElementOfSeq, LenProperties DEF Record
  <1> HIDE DEF p
  <1>2. p \div 2 \in Int
    BY <1>1
  <1>3. price \in Int
    BY <1>2 DEF Rounded
  <1> HIDE DEF price
  <1>4. Label(r) = CASE price < 0           -> 0
                     [] price > NumBins - 1 -> NumBins - 1
                     [] OTHER               -> price
    BY DEF Label, price, p
  <1>5. NumBins \in Nat /\ NumBins # 0
    BY LogAssumption
  <1> QED BY <1>3, <1>4, <1>5

\* The window is the end of what was read: all of it, or its last rows.
LEMMA WindowIsEnd ==
    ASSUME LogInv
    PROVE  \E o \in Nat :
             /\ o <= Len(ReadLines)
             /\ ReadWindow \in Seq(Record) /\ Len(ReadWindow) = Len(ReadLines) - o
             /\ Len(ReadWindow) <= Window
             /\ \A i \in 1 .. Len(ReadLines) - o : ReadWindow[i] = ReadLines[o + i]
  <1> DEFINE rows == ReadLines
             n == Len(rows)
             w == Window
  <1>1. rows \in Seq(Record) /\ n \in Nat /\ \A i \in 1 .. n : rows[i] \in Record
    BY ReadIs, LenProperties, ElementOfSeq
  <1>2. w \in Nat
    BY LogAssumption
  <1>3. ReadWindow = IF n > w THEN SubSeq(rows, n - w + 1, n) ELSE rows
    BY DEF ReadWindow, LastRows
  <1> HIDE DEF n, rows, w
  <1>4. CASE n > w
    <2> DEFINE o == n - w
               last_rows == SubSeq(rows, o + 1, n)
    <2>1. o \in Nat /\ o <= n /\ n - o = w /\ o + 1 \in Int
          /\ \A i \in o + 1 .. n : rows[i] \in Record
      BY <1>1, <1>2, <1>4
    <2>2. /\ last_rows \in Seq(Record)
          /\ Len(last_rows) = IF o + 1 <= n THEN n - (o + 1) + 1 ELSE 0
          /\ \A i \in 1 .. n - (o + 1) + 1 : last_rows[i] = rows[(o + 1) + i - 1]
      <3> HIDE DEF o
      <3> QED BY <1>1, <2>1, SubSeqProperties
    <2>3. ReadWindow = last_rows
      BY <1>3, <1>4
    <2> HIDE DEF last_rows, o
    <2>4. n - (o + 1) + 1 = n - o /\ \A i \in 1 .. n - o : (o + 1) + i - 1 = o + i
      BY <1>1, <2>1
    <2>5. Len(last_rows) = n - o
      BY <1>1, <1>2, <2>1, <2>2, <2>4
    <2>6. \A i \in 1 .. n - o : last_rows[i] = rows[o + i]
      BY <2>2, <2>4
    <2>7. /\ o \in Nat /\ o <= n
          /\ ReadWindow \in Seq(Record) /\ Len(ReadWindow) = n - o /\ Len(ReadWindow) <= w
          /\ \A i \in 1 .. n - o : ReadWindow[i] = rows[o + i]
      BY <1>2, <2>1, <2>2, <2>3, <2>5, <2>6
    <2> QED BY <2>7 DEF n, rows, w
  <1>5. CASE ~(n > w)
    <2>1. ReadWindow = rows /\ n <= w /\ n - 0 = n /\ \A i \in 1 .. n : 0 + i = i
      BY <1>1, <1>2, <1>3, <1>5
    <2>2. /\ 0 \in Nat /\ 0 <= n
          /\ ReadWindow \in Seq(Record) /\ Len(ReadWindow) = n - 0 /\ Len(ReadWindow) <= w
          /\ \A i \in 1 .. n - 0 : ReadWindow[i] = rows[0 + i]
      BY <1>1, <2>1 DEF n
    <2> QED BY <2>2 DEF n, rows, w
  <1> QED BY <1>4, <1>5

LEMMA WindowIsLearnt ==
    ASSUME LogInv, Len(ReadWindow) >= MinRows
    PROVE  Learnt(Samples(ReadWindow), disk)
  <1> DEFINE rows == ReadLines
             n == Len(rows)
             win == ReadWindow
             l == Len(win)
             s == Samples(win)
  <1>1. /\ rows \in Seq(Record) /\ n \in Nat /\ DOMAIN rows = 1 .. n
        /\ \A i, j \in 1 .. n : i < j => rows[i] < rows[j]
    BY ReadIs, LenProperties
  <1>2. PICK o \in Nat :
          /\ o <= n /\ win \in Seq(Record) /\ l = n - o /\ l <= Window
          /\ \A i \in 1 .. n - o : win[i] = rows[o + i]
    BY WindowIsEnd
  <1>3. /\ \A r : r \in ReadFrom(disk) <=> \E k \in 1 .. n : r = rows[k]
        /\ \A k \in 1 .. n : rows[k] \in Record
    <2>1. Range(rows) = ReadFrom(disk)
      BY ReadFromDisk
    <2>2. \A r : r \in Range(rows) <=> \E k \in 1 .. n : r = rows[k]
      BY <1>1 DEF Range
    <2> QED BY <1>1, <2>1, <2>2, ElementOfSeq
  <1>4. MinRows \in Nat /\ MinRows >= 1 /\ Window \in Nat /\ l >= MinRows
    BY LogAssumption, LoopAssumption
  <1>5. l \in Nat /\ DOMAIN win = 1 .. l
    BY <1>2, LenProperties
  <1>6. s = [i \in 1 .. l |-> [record |-> win[i], label |-> Label(win[i])]]
    BY <1>5 DEF Samples
  <1> HIDE DEF rows, n, win, l, s
  <1>7. \A i \in 1 .. l : o + i \in 1 .. n /\ s[i].record = rows[o + i]
    BY <1>1, <1>2, <1>5, <1>6
  <1>8. s \in Seq(Sample) /\ Len(s) = l
    <2>1. \A i \in 1 .. l : [record |-> win[i], label |-> Label(win[i])] \in Sample
      <3> SUFFICES ASSUME NEW i \in 1 .. l
                   PROVE  [record |-> win[i], label |-> Label(win[i])] \in Sample
        OBVIOUS
      <3>1. win[i] \in Record
        BY <1>2, ElementOfSeq DEF l
      <3>2. Label(win[i]) \in 0 .. NumBins - 1
        BY <3>1, LabelIsBin
      <3> QED BY <3>1, <3>2 DEF Sample
    <2>2. s \in Seq(Sample)
      BY <1>5, <1>6, <2>1, IsASeq
    <2>3. DOMAIN s = 1 .. l
      BY <1>6
    <2> QED BY <1>5, <2>2, <2>3, LenProperties
  <1>9. Len(s) \in MinRows .. Window
    BY <1>2, <1>4, <1>5, <1>8
  <1>10. \A i, j \in 1 .. l : i < j => s[i].record < s[j].record
    <2> SUFFICES ASSUME NEW i \in 1 .. l, NEW j \in 1 .. l, i < j
                 PROVE  s[i].record < s[j].record
      OBVIOUS
    <2>1. o + i < o + j /\ o + i \in 1 .. n /\ o + j \in 1 .. n
      BY <1>2, <1>5, <1>7
    <2> QED BY <1>1, <1>7, <2>1
  <1>11. ASSUME NEW r \in ReadFrom(disk)
         PROVE  \/ r < s[1].record \/ r > s[l].record
                \/ \E i \in 1 .. l : s[i].record = r
    <2>1. PICK k \in 1 .. n : r = rows[k]
      BY <1>3
    <2>2. CASE k <= o
      <3>1. 1 \in 1 .. l /\ k < o + 1
        BY <1>4, <1>5, <2>2
      <3>2. o + 1 \in 1 .. n /\ s[1].record = rows[o + 1]
        BY <1>7, <3>1
      <3> QED BY <1>1, <2>1, <3>1, <3>2
    <2>3. CASE ~(k <= o)
      <3>1. k - o \in 1 .. l /\ o + (k - o) = k
        BY <1>1, <1>2, <2>3
      <3>2. s[k - o].record = r
        BY <1>7, <2>1, <3>1
      <3> QED BY <3>1, <3>2
    <2> QED BY <2>2, <2>3
  <1>12. ASSUME NEW i \in 1 .. l
         PROVE  \E j \in 1 .. Len(disk) : disk[j] = <<s[i].record, Rest>>
    <2> DEFINE r == s[i].record
    <2>1. r \in ReadFrom(disk)
      BY <1>3, <1>7
    <2> HIDE DEF r
    <2>2. PICK e \in 3 .. Len(disk) + 1 : disk[e - 1] = <<r, Rest>>
      BY <2>1 DEF ReadFrom
    <2>3. e - 1 \in 1 .. Len(disk)
      BY DiskWritten
    <2> QED BY <2>2, <2>3 DEF r
  <1>13. /\ \A i, j \in 1 .. Len(s) : i < j => s[i].record < s[j].record
         /\ \A r \in ReadFrom(disk) :
              \/ r < s[1].record \/ r > s[Len(s)].record
              \/ \E i \in 1 .. Len(s) : s[i].record = r
         /\ \A i \in 1 .. Len(s) : \E j \in 1 .. Len(disk) : disk[j] = <<s[i].record, Rest>>
    BY <1>8, <1>10, <1>11, <1>12
  <1>14. Learnt(s, disk)
    BY <1>8, <1>9, <1>13 DEF Learnt
  <1> QED BY <1>14 DEF s, win

\* The file grows at its end and the pieces stay in order.
LEMMA DiskGrows ==
    ASSUME LogInv, WriteLog \/ FlushLog \/ EngineCrash \/ UNCHANGED logVars
    PROVE  Grown(disk, disk') /\ InOrder(disk')
  <1>1. LogInv' /\ \E more \in Seq(Piece) : disk' = disk \o more
    BY LogKeeps
  <1>2. PICK more \in Seq(Piece) : disk' = disk \o more
    BY <1>1
  <1>3. disk \in Seq(Piece) /\ Len(disk) \in Nat /\ Len(more) \in Nat
    BY LenProperties DEF LogInv
  <1>4. /\ Len(disk \o more) = Len(disk) + Len(more)
        /\ \A i \in 1 .. Len(disk) + Len(more) :
             (disk \o more)[i] = IF i <= Len(disk) THEN disk[i] ELSE more[i - Len(disk)]
    BY <1>3, ConcatProperties
  <1>5. Grown(disk, disk')
    BY <1>2, <1>3, <1>4 DEF Grown
  <1>6. /\ disk' \in Seq(Piece) /\ buffer' \in Seq(Piece) /\ logged' \in Nat /\ crashes' \in Nat
        /\ Written(disk' \o buffer', logged', crashes')
    BY <1>1 DEF LogInv, Log
  <1>7. Written(disk', logged', crashes' + 1)
    BY <1>6, LogCut
  <1> QED BY <1>5, <1>7 DEF Written

\* The log's steps: what was learnt stays a stretch of it.
LEMMA LogKeepsStretch ==
    ASSUME LogInv, StretchInv, WriteLog \/ FlushLog \/ EngineCrash \/ UNCHANGED logVars,
           UNCHANGED <<rpc, window, trained>>
    PROVE  StretchInv'
  <1>1. Grown(disk, disk') /\ InOrder(disk')
    BY DiskGrows
  <1>2. rpc' = "train" => Learnt(window', disk')
    BY <1>1, LearntKept DEF StretchInv
  <1>3. ASSUME NEW m \in 1 .. Len(trained) PROVE Learnt(trained[m].samples, disk')
    BY <1>1, LearntKept DEF StretchInv
  <1> QED BY <1>2, <1>3 DEF StretchInv

\* Only a round that starts comes to "train".
LEMMA OthersKeepStretch ==
    ASSUME StretchInv, UNCHANGED <<disk, trained>>, rpc' # "train" \/ UNCHANGED <<rpc, window>>
    PROVE  StretchInv'
  BY DEF StretchInv

LEMMA TrainKeepsStretch ==
    ASSUME Numbered, StretchInv, Train
    PROVE  StretchInv'
  <1>1. rpc = "train" /\ rpc' = "raw" /\ disk' = disk /\ Learnt(window, disk)
    BY DEF Train, StretchInv, logVars
  <1>2. PICK ok \in BOOLEAN : trained' = Append(trained, [samples |-> window, finite |-> ok])
    BY DEF Train
  <1>3. PICK S : trained \in Seq(S)
    BY DEF Numbered
  <1> DEFINE e == [samples |-> window, finite |-> ok]
  <1>4. e.samples = window
    OBVIOUS
  <1>5. trained' = Append(trained, e)
    BY <1>2
  <1> HIDE DEF e
  <1>6. trained \in Seq(S \cup {e}) /\ e \in S \cup {e} /\ Len(trained) \in Nat
    BY <1>3, LenProperties
  <1>7. /\ Len(trained') = Len(trained) + 1
        /\ \A m \in 1 .. Len(trained) : trained'[m] = trained[m]
        /\ trained'[Len(trained) + 1] = e
    BY <1>5, <1>6, AppendProperties
  <1>8. \A m \in 1 .. Len(trained') : m \in 1 .. Len(trained) \/ m = Len(trained) + 1
    BY <1>6, <1>7
  <1>9. \A m \in 1 .. Len(trained') : Learnt(trained'[m].samples, disk')
    BY <1>1, <1>4, <1>7, <1>8 DEF StretchInv
  <1> QED BY <1>1, <1>9 DEF StretchInv

LEMMA StretchStep == LogInv /\ LoopInv /\ StretchInv /\ [Next]_vars => StretchInv'
  <1> SUFFICES ASSUME LogInv, LoopInv, StretchInv, [Next]_vars PROVE StretchInv'
    OBVIOUS
  <1>1. CASE LogStep(WriteLog) \/ LogStep(FlushLog) \/ LogStep(EngineCrash)
    BY <1>1, LogKeepsStretch DEF LogStep, trainerVars
  <1>2. CASE RoundStarts
    <2>1. Len(ReadWindow) >= MinRows /\ window' = Samples(ReadWindow) /\ UNCHANGED <<disk, trained>>
      BY <1>2 DEF RoundStarts, BeginRound, logVars
    <2>2. Learnt(window', disk')
      BY <2>1, WindowIsLearnt
    <2> QED BY <2>1, <2>2 DEF StretchInv
  <1>3. CASE Train
    BY <1>3, TrainKeepsStretch DEF LoopInv
  <1>4. CASE RoundWaits \/ ExportRaw \/ BeginEmbed \/ EndEmbed \/ Publish \/ Report
               \/ RoundFails \/ RetrainerCrash
    <2>1. UNCHANGED <<disk, trained>> /\ (rpc' # "train" \/ UNCHANGED <<rpc, window>>)
      BY <1>4 DEF RoundWaits, BeginRound, ExportRaw, BeginEmbed, EndEmbed, Publish, ExportStep,
                  Report, RoundFails, RetrainerCrash, logVars
    <2> QED BY <2>1, OthersKeepStretch
  <1>5. CASE Bidder \/ ReloadFails \/ BidderCrash
    <2>1. UNCHANGED <<disk, trained>> /\ UNCHANGED <<rpc, window>>
      BY <1>5 DEF Bidder, BuildPipeline, StartWatcher, SeeNoChange, SeeChange, BuildFresh,
                  RejectFresh, SwapFresh, BidderStep, ReloadFails, BidderCrash, trainerVars, logVars
    <2> QED BY <2>1, OthersKeepStretch
  <1>6. CASE UNCHANGED vars
    <2>1. UNCHANGED <<disk, trained>> /\ UNCHANGED <<rpc, window>>
      BY <1>6 DEF vars, trainerVars, logVars
    <2> QED BY <2>1, OthersKeepStretch
  <1> QED BY <1>1, <1>2, <1>3, <1>4, <1>5, <1>6 DEF Next, Retrainer

LEMMA StretchIsUnbroken == LogInv /\ LoopInv /\ StretchInv => TrainedOnStretch
  <1> SUFFICES ASSUME LogInv, LoopInv, StretchInv, NEW m \in DOMAIN trained
               PROVE  /\ Len(trained[m].samples) \in MinRows .. Window
                      /\ Range(trained[m].samples) \subseteq Sample
                      /\ Unbroken(trained[m].samples)
    BY DEF TrainedOnStretch
  <1> DEFINE s == trained[m].samples
  <1>1. m \in 1 .. Len(trained)
    BY LenProperties DEF LoopInv, Numbered
  <1>2. Learnt(s, disk)
    BY <1>1 DEF StretchInv
  <1> HIDE DEF s
  <1>3. s \in Seq(Sample) /\ DOMAIN s = 1 .. Len(s)
    BY <1>2, LenProperties DEF Learnt
  <1>4. Range(s) \subseteq Sample
    BY <1>3, ElementOfSeq DEF Range
  <1>5. Unbroken(s)
    BY <1>2, <1>3, ReadFromDisk DEF Unbroken, Learnt
  <1>6. Len(s) \in MinRows .. Window
    BY <1>2 DEF Learnt
  <1> QED BY <1>4, <1>5, <1>6 DEF s

\* Nothing is trained at the start.
LEMMA StretchStarts == Init => StretchInv
  <1> SUFFICES ASSUME Init PROVE StretchInv
    OBVIOUS
  <1>1. rpc = "sleep" /\ Len(trained) = 0
    BY EmptySeq DEF Init
  <1> QED BY <1>1 DEF StretchInv

\* For any log, window and number of crashes: however often the engine tears
\* its log while rounds read it, every model is trained on an unbroken stretch
\* of the outcomes, in their order, and later lines never show a gap in it
\* (retrain.py read_window, build_tensors and train_round).
THEOREM ModelsLearnStretches == Spec => []TrainedOnStretch
  BY LogInvariant, LoopInvariant, StretchStarts, StretchStep, StretchIsUnbroken, PTL DEF Spec
=============================================================================
