--------------------------- MODULE FeaturePipeline ---------------------------
(***************************************************************************)
(* The preprocessing run of rtb-bid-model (features.py main): pass A       *)
(* parses every log into an intermediate file, pass B fits encoders and    *)
(* scalers on the rows before the cut, pass C encodes every row and writes *)
(* train, val and test, and the artifacts come last.  The run may die      *)
(* between any two steps, or in the middle of writing a file, and is then  *)
(* started again over what it left behind.                                 *)
(***************************************************************************)
EXTENDS FeatureEncoding

CONSTANTS
    Lines,          \* the rows that may be in a log
    NumLogs,        \* the training logs of the configuration
    TestLog,        \* the test log
    MaxLines,       \* bound: lines of one log
    FracNum,        \* train_frac = FracNum / FracDen
    FracDen,
    MaxRuns         \* bound: runs of features.py

Malformed == [bad |-> TRUE]

ASSUME PipelineAssumption ==
    /\ Lines \subseteq Row /\ NumLogs \in Nat \ {0}
    /\ TestLog \in Seq(Row \cup {Malformed})
    /\ FracNum \in Nat /\ FracDen \in Nat \ {0} /\ FracNum < FracDen
    /\ MaxLines \in Nat /\ MaxRuns \in Nat

VARIABLES
    logs,           \* the training logs, in the order of the configuration
    pc,             \* the step the run is in
    at,             \* the log or intermediate file it is at
    run,            \* history: the number of this run
    inter,          \* the intermediate files of the training logs, and
    interTest,      \* the one of the test log; << >> when absent
    seen,           \* cat_counters and tag_counter, as what they have counted
    sums,           \* the running sums, by feature
    rowsSeen,       \* rows_seen of passes B and C
    art,            \* encoders, scalers and tag_vocab in memory
    chunks,         \* train_chunks and val_chunks
    out             \* the files in processed_dir

vars == <<logs, pc, at, run, inter, interTest, seen, sums, rowsSeen, art, chunks, out>>

Files == DOMAIN logs

\* parse_chunked and basic_features_inplace: lines with a wrong number of
\* columns are skipped.
Parse(log) ==
    LET rows == Without(log, {Malformed})
    IN  [i \in DOMAIN rows |-> BasicFeatures(rows[i])]

NoArtifacts == [fitted |-> FALSE]
NoSums == [name \in Range(Scaled) |-> <<0, 0>>]
NoneSeen == [name \in Range(CatFeatures) \cup {"user_tags"} |-> << >>]
Absent == [run |-> 0, data |-> << >>]
NoChunks == [train |-> << >>, val |-> << >>]

LogsUpTo(n) == UNION {[1 .. k -> Lines \cup {Malformed}] : k \in 0 .. n}

Init ==
    /\ logs \in [1 .. NumLogs -> LogsUpTo(MaxLines)]
    /\ pc = "parse" /\ run = 1
    /\ at = 1 /\ seen = NoneSeen /\ sums = NoSums /\ rowsSeen = 0
    /\ art = NoArtifacts /\ chunks = NoChunks
    /\ inter = [i \in Files |-> << >>] /\ interTest = << >>
    /\ out = [name \in {"train", "val", "test", "artifacts"} |-> Absent]

-----------------------------------------------------------------------------
\* Pass A, one log: pd.concat fails when no line of it parses.
ParseFile ==
    /\ pc = "parse"
    /\ IF Parse(logs[at]) = << >>
       THEN pc' = "failed" /\ UNCHANGED <<at, inter>>
       ELSE /\ inter' = [inter EXCEPT ![at] = Parse(logs[at])]
            /\ at' = IF at = Len(logs) THEN 1 ELSE at + 1
            /\ pc' = IF at = Len(logs) THEN "parseTest" ELSE "parse"
    /\ UNCHANGED <<logs, run, interTest, seen, sums, rowsSeen, art, chunks, out>>

ParseTest ==
    /\ pc = "parseTest"
    /\ IF Parse(TestLog) = << >>
       THEN pc' = "failed" /\ UNCHANGED interTest
       ELSE interTest' = Parse(TestLog) /\ pc' = "fit"
    /\ UNCHANGED <<logs, at, run, inter, seen, sums, rowsSeen, art, chunks, out>>

Total == SumFunction([i \in Files |-> Len(inter[i])])
Cut == (Total * FracNum) \div FracDen

Column(rows, name) == [i \in DOMAIN rows |-> rows[i][name]]
AddSums(s, rows) ==
    [name \in Range(Scaled) |->
       <<s[name][1] + SumFunction(Column(rows, name)),
         s[name][2] + SumFunction([i \in DOMAIN rows |-> rows[i][name] * rows[i][name]])>>]

\* What tag_counter counts: the tags of each row's column.
TagsOf(rows) == FlattenSeq([i \in DOMAIN rows |-> Tokens(rows[i].user_tags)])

\* Mutant: the whole file is counted.
TrainPartWholeFile(rows) == rows

\* The rows of this file that lie before the cut.
TrainPart(rows) ==
    SubSeq(rows, 1, IF rowsSeen + Len(rows) < Cut THEN Len(rows) ELSE Cut - rowsSeen)

\* Pass B, one file; the loop stops at the first file past the cut.
FitFile ==
    /\ pc = "fit"
    /\ IF rowsSeen >= Cut
       THEN pc' = "stats" /\ UNCHANGED <<at, seen, sums, rowsSeen>>
       ELSE LET sub == TrainPart(inter[at])
            IN  /\ seen' = [name \in DOMAIN seen |->
                              seen[name] \o
                                IF name = "user_tags" THEN TagsOf(sub) ELSE Column(sub, name)]
                /\ sums' = AddSums(sums, sub)
                /\ rowsSeen' = rowsSeen + Len(inter[at])
                /\ at' = at + 1
                /\ pc' = IF at = Len(logs) THEN "stats" ELSE "fit"
    /\ UNCHANGED <<logs, run, inter, interTest, art, chunks, out>>

\* The vocabularies, and the scalers as the sums and their divisor.
Fitted ==
    [fitted |-> TRUE,
     encoders |-> [f \in Range(CatFeatures) |-> FitEncoder(seen[f], MinCount[f])],
     tag_vocab |-> FitEncoder(seen["user_tags"], MinCount["user_tags"]),
     scalers |-> [name \in Range(Scaled) |-> <<sums[name], Cut>>]]

\* Mutant: pass C goes on with the rows_seen of pass B.
FitStatsKeepRowsSeen ==
    /\ pc = "stats" /\ Cut > 0
    /\ art' = Fitted
    /\ at' = 1 /\ pc' = "encode"
    /\ UNCHANGED <<logs, run, inter, interTest, seen, sums, rowsSeen, chunks, out>>

\* The means and deviations divide by the number of training rows.
FitStats ==
    /\ pc = "stats"
    /\ IF Cut = 0
       THEN pc' = "failed" /\ UNCHANGED <<at, rowsSeen, art>>
       ELSE /\ art' = Fitted
            /\ at' = 1 /\ rowsSeen' = 0
            /\ pc' = "encode"
    /\ UNCHANGED <<logs, run, inter, interTest, seen, sums, chunks, out>>

\* Pass C, one file: every row is encoded, and the file goes to train, to val
\* or to both.
EncodeFile ==
    /\ pc = "encode"
    /\ LET rows == [i \in DOMAIN inter[at] |-> EncodeRow(inter[at][i], art)]
           split == IF rowsSeen >= Cut THEN 0
                    ELSE IF rowsSeen + Len(rows) <= Cut THEN Len(rows) ELSE Cut - rowsSeen
       IN  chunks' = [train |-> chunks.train \o SubSeq(rows, 1, split),
                      val |-> chunks.val \o SubSeq(rows, split + 1, Len(rows))]
    /\ rowsSeen' = rowsSeen + Len(inter[at])
    /\ at' = at + 1
    /\ pc' = IF at = Len(logs) THEN "train" ELSE "encode"
    /\ UNCHANGED <<logs, run, inter, interTest, seen, sums, art, out>>

\* A file of processed_dir is written by one call, and is torn while it runs.
Save(step, name, data, next) ==
    /\ pc = step
    /\ out' = [out EXCEPT ![name] = [run |-> run, data |-> data]]
    /\ pc' = next
    /\ UNCHANGED <<logs, at, run, inter, interTest, seen, sums, rowsSeen, art, chunks>>

SaveTrain == Save("train", "train", chunks.train, "val")
SaveVal == Save("val", "val", chunks.val, "test")
SaveTest ==
    Save("test", "test", [i \in DOMAIN interTest |-> EncodeRow(interTest[i], art)], "artifacts")
SaveArtifacts == Save("artifacts", "artifacts", art, "cleanup")

Cleanup ==
    /\ pc = "cleanup"
    /\ inter' = [i \in Files |-> << >>] /\ interTest' = << >>
    /\ pc' = "done"
    /\ UNCHANGED <<logs, at, run, seen, sums, rowsSeen, art, chunks, out>>

\* The run dies, or ended with an error, and is started again.  A file it was
\* writing is torn, whichever file that was.
Rerun ==
    /\ pc # "done" /\ run < MaxRuns
    /\ pc' = "parse" /\ run' = run + 1
    /\ at' = 1 /\ seen' = NoneSeen /\ sums' = NoSums /\ rowsSeen' = 0
    /\ art' = NoArtifacts /\ chunks' = NoChunks
    /\ out' \in {out} \cup
         {[out EXCEPT ![name] = Absent] : name \in DOMAIN out \cap {pc}}
    /\ UNCHANGED <<logs, inter, interTest>>

Stopped == pc \in {"done", "failed"} /\ UNCHANGED vars

Next ==
    \/ ParseFile \/ ParseTest \/ FitFile \/ FitStats \/ EncodeFile
    \/ SaveTrain \/ SaveVal \/ SaveTest \/ SaveArtifacts \/ Cleanup
    \/ Rerun \/ Stopped

Spec == Init /\ [][Next]_vars

-----------------------------------------------------------------------------
\* Every row of the logs that parses, in order, and the part before the cut.
AllRows == FlattenSeq([i \in Files |-> Parse(logs[i])])
RefCut == (Len(AllRows) * FracNum) \div FracDen
TrainRows == SubSeq(AllRows, 1, RefCut)

Published == out["artifacts"].run = run
Art == out["artifacts"].data

\* Once the artifacts of a run are there its data is complete: train holds the
\* first part and val the rest of all rows, in order, encoded with exactly
\* these artifacts, none lost, repeated or moved across the cut, whatever an
\* earlier run left behind (features.py main, passes A and C).
ArtifactsComeLast ==
    Published =>
      /\ \A name \in DOMAIN out : out[name].run = run
      /\ Len(out["train"].data) = RefCut
      /\ out["train"].data \o out["val"].data
           = [i \in DOMAIN AllRows |-> EncodeRow(AllRows[i], Art)]

\* vocab ranks the values of seen that are frequent enough, without gaps, the
\* more frequent one first, and keeps 0 for everything else.
IsRanking(vocab, seq, min) ==
    LET values == DOMAIN vocab \ {Unknown}
    IN  /\ vocab[Unknown] = 0
        /\ values = {v \in Range(seq) \ {Unknown} : CountOf(seq, v) >= min}
        /\ {vocab[v] : v \in values} = 1 .. Cardinality(values)
        /\ \A v, w \in values : vocab[v] < vocab[w] => CountOf(seq, v) >= CountOf(seq, w)

\* Vocabularies and scalers are those of the training rows alone: an index is
\* the rank of a value frequent enough there, and no row at or after the cut
\* has any influence (features.py:242-243 "only count frequencies from the
\* training portion to avoid data leakage").
FittedOnTrainingRowsOnly ==
    art.fitted =>
      /\ \A f \in Range(CatFeatures) : IsRanking(art.encoders[f], Column(TrainRows, f), MinCount[f])
      /\ IsRanking(art.tag_vocab, TagsOf(TrainRows), MinCount["user_tags"])
      /\ art.scalers = [name \in Range(Scaled) |-> <<AddSums(NoSums, TrainRows)[name], RefCut>>]

\* For every row, known in training or not, the three encoders agree, and every
\* index is inside the table it is looked up in (dataset.py BidDataset,
\* feature_store.cpp encode, retrain.py encode_record, model.py
\* build_vocab_sizes).  The bidder gives the model the inputs training would
\* have, whether the tags come as the column (test/grpc_smoke.cpp:82), as its
\* pieces, the empty ones included (engine.go:405), or as its tags
\* (engine.go:122-126); except at an hour no day has, and except that "null"
\* and "NaN" are tags for training when others stand beside them, and never
\* for the bidder when each tag comes alone.  The retrainer does so for the
\* record of a request whose tags came one by one, as live auctions log them.
ServingMatchesTraining ==
    Published =>
      LET cfg == FeatureConfig(Art)
      IN \A row \in Lines \cup Range(Without(TestLog, {Malformed})) :
        LET inputs == Packed(EncodeRow(BasicFeatures(row), Art))
            tags == Tokens(row.tags)
            noNullTag == Range(tags) \cap NullWords = {}
        IN  /\ \A texts \in {<<row.tags>>} \cup
                    IF noNullTag THEN {OneByOne(row.tags), OneByOne(tags)} ELSE {} :
                 row.hour <= 23 => BidderEncode(FromProto(Request(row, texts)), cfg) = inputs
            /\ RetrainerEncode(Request(row, OneByOne(tags)), cfg) = inputs
            /\ \A k \in DOMAIN CatFeatures : inputs.cat[k] < VocabSize(Art, CatFeatures[k])
            /\ \A j \in 1 .. TagMaxLen : inputs.tags[j] < TagVocabSize(Art)

=============================================================================
