--------------------------- MODULE FeatureEncoding ---------------------------
(***************************************************************************)
(* How an impression becomes the model's inputs, three times over: in      *)
(* training (rtb-bid-model features.py and dataset.py), in the bidder      *)
(* (cpp-bidder feature_store.cpp) and in the retrainer (retrain.py         *)
(* encode_record), the last two from the feature_config.json that          *)
(* export_onnx.py writes.                                                  *)
(*                                                                         *)
(* One numeric and one string categorical feature stand for the nine.  A   *)
(* standardised value is the raw value paired with its scaler, a sine and  *)
(* cosine pair is the angle.  A text of tags is the sequence of the pieces *)
(* between its commas: the empty text is one empty piece.                  *)
(***************************************************************************)
EXTENDS Integers, Sequences, FiniteSets, SequencesExt

CONSTANTS
    MinCount,       \* clip_min_count of each feature, and the 200 of the tags
    TagMaxLen       \* the tag slots of a row, 10 in the code

\* A Python value is its type and its text.
Unknown == <<"str", "<UNK>">>
CatFeatures == <<"region", "domain">>
Scaled == <<"log_floor_price", "slot_area", "tag_count">>
EmptyTag == <<"str", "">>
\* The words that mean "no tags" when they are all of a text.
NullWords == {<<"str", "null">>, <<"str", "NaN">>}

ASSUME EncodingAssumption ==
    /\ MinCount \in [Range(CatFeatures) \cup {"user_tags"} -> Nat]
    /\ TagMaxLen \in Nat \ {0}

-----------------------------------------------------------------------------
(* basic_features_inplace: from the log's columns to features *)

DaysBefore == <<0, 31, 59, 90, 120, 151, 181, 212, 243, 273, 304, 334>>
IsLeap(y) == y % 4 = 0 /\ (y % 100 # 0 \/ y % 400 = 0)

\* The dates that pd.to_datetime accepts.
Dates == {d \in (Nat \ {0}) \X (1 .. 12) \X (1 .. 31) :
            /\ d[2] \in {4, 6, 9, 11} => d[3] <= 30
            /\ d[2] = 2 => d[3] <= IF IsLeap(d[1]) THEN 29 ELSE 28}

\* A row of the log, its columns typed; the hour is two digits of the timestamp.
Row == [region : {"int"} \X (STRING \ {"<UNK>"}), domain : {"str"} \X STRING,
        tags : Seq({"str"} \X STRING) \ {<< >>}, floor : Int, width : Int, height : Int,
        date : Dates, hour : 0 .. 99]

\* The weekday of pandas and of datetime, Monday being 0.
Weekday(d) ==
    LET y == d[1] - 1
        leapDay == IF d[2] > 2 /\ IsLeap(d[1]) THEN 1 ELSE 0
    IN  (365 * y + y \div 4 - y \div 100 + y \div 400
           + DaysBefore[d[2]] + leapDay + d[3] + 6) % 7

\* weekday_monday0 of the bidder.
Sakamoto(d) ==
    LET t == <<0, 3, 2, 5, 0, 3, 5, 1, 4, 6, 2, 4>>
        y == IF d[2] < 3 THEN d[1] - 1 ELSE d[1]
    IN  (y + y \div 4 - y \div 100 + y \div 400 + t[d[2]] + d[3] + 6) % 7

Clip0(x) == IF x < 0 THEN 0 ELSE x
Flag(b) == IF b THEN 1 ELSE 0

\* A loop that leaves the values of a set out.
Without(seq, skip) ==
    FoldLeft(LAMBDA kept, x : IF x \in skip THEN kept ELSE Append(kept, x), << >>, seq)

\* The tags in a text: none when it is empty, "null" or "NaN".
Tokens(tags) ==
    IF \E w \in NullWords : tags = <<w>> THEN << >> ELSE Without(tags, {EmptyTag})

BasicFeatures(row) ==
    [region |-> row.region, domain |-> row.domain, user_tags |-> row.tags,
     log_floor_price |-> Clip0(row.floor), has_floor_price |-> Flag(row.floor > 0),
     slot_area |-> row.width * row.height,
     tag_count |-> Len(Tokens(row.tags)),
     is_weekend |-> Flag(Weekday(row.date) >= 5),
     hour |-> row.hour % 24, weekday |-> Weekday(row.date)]

-----------------------------------------------------------------------------
(* fit_encoder and its application *)

CountOf(seen, v) == Cardinality({i \in DOMAIN seen : seen[i] = v})
FirstOf(seen, v) == CHOOSE i \in DOMAIN seen : seen[i] = v /\ \A j \in 1 .. i - 1 : seen[j] # v

\* Counter.most_common: by count, ties by first occurrence.
Before(seen, v, w) ==
    \/ CountOf(seen, v) > CountOf(seen, w)
    \/ CountOf(seen, v) = CountOf(seen, w) /\ FirstOf(seen, v) < FirstOf(seen, w)

FitEncoder(seen, min) ==
    LET kept == {v \in Range(seen) : CountOf(seen, v) >= min /\ v # Unknown}
    IN  [v \in kept \cup {Unknown} |->
           IF v = Unknown THEN 0
           ELSE 1 + Cardinality({w \in kept : Before(seen, w, v)})]

\* vocab.get(v, 0)
Lookup(vocab, v) == IF v \in DOMAIN vocab THEN vocab[v] ELSE 0

\* encode_user_tags_to_arr: known tags move up, the rest is padding.
EncodeTags(tags, vocab) ==
    LET known == Without(Tokens(tags), {t \in Range(Tokens(tags)) : Lookup(vocab, t) = 0})
    IN  [j \in 1 .. TagMaxLen |-> IF j <= Len(known) THEN Lookup(vocab, known[j]) ELSE 0]

\* Pass C's columns of one row.
Standardise(name, x, scalers) == [raw |-> x, scaler |-> scalers[name]]

EncodeRow(f, art) ==
    [idx |-> [k \in DOMAIN CatFeatures |-> Lookup(art.encoders[CatFeatures[k]], f[CatFeatures[k]])],
     scaled |-> [k \in DOMAIN Scaled |-> Standardise(Scaled[k], f[Scaled[k]], art.scalers)],
     flags |-> <<f.has_floor_price, f.is_weekend>>,
     angles |-> <<f.hour, f.weekday>>,
     tag_indices |-> EncodeTags(f.user_tags, art.tag_vocab)]

\* BidDataset packs the columns; build_vocab_sizes sizes the tables.
Packed(row) == [cat |-> row.idx, cont |-> <<row.scaled, row.flags, row.angles>>,
                tags |-> row.tag_indices]
VocabSize(art, feat) == Cardinality(DOMAIN art.encoders[feat]) + 1
TagVocabSize(art) == Cardinality(DOMAIN art.tag_vocab)

-----------------------------------------------------------------------------
(* Serving *)

\* str(v), and what json.dump makes of a key.
Key(v) == <<"str", v[2]>>
JsonVocab(vocab) ==
    [k \in {Key(v) : v \in DOMAIN vocab} |-> vocab[CHOOSE v \in DOMAIN vocab : Key(v) = k]]

FeatureConfig(art) ==
    [cat_order |-> CatFeatures,
     cat_vocabs |-> [feat \in DOMAIN art.encoders |-> JsonVocab(art.encoders[feat])],
     tag_vocab |-> JsonVocab(art.tag_vocab),
     means_stds |-> art.scalers,
     tag_max_len |-> TagMaxLen]

\* A request for the impression of a row.  Its user_tags are a list of texts:
\* one with the whole column, as a client of the bidder may send it, or one
\* for every piece, as the engine's generator and its replay send them.
Request(row, texts) == [row EXCEPT !.tags = texts]
OneByOne(tags) == [i \in DOMAIN tags |-> <<tags[i]>>]

\* from_proto: every text goes through split_tags.
FromProto(req) ==
    [req EXCEPT !.tags = FlattenSeq([i \in DOMAIN req.tags |-> Tokens(req.tags[i])])]

\* The bidder's keys, in the order in which encode lists them, are looked up in
\* the vocabularies, in the order of the configuration.
BidderCat(req, cfg) ==
    LET keys == <<Key(req.region), Key(req.domain)>>
    IN  [k \in DOMAIN keys |-> Lookup(cfg.cat_vocabs[cfg.cat_order[k]], keys[k])]

\* Mutant: an unknown tag takes a slot.
BidderTagsInPlace(req, cfg) ==
    [j \in 1 .. cfg.tag_max_len |->
       IF j <= Len(req.tags) THEN Lookup(cfg.tag_vocab, Key(req.tags[j])) ELSE 0]

BidderTags(req, cfg) ==
    LET known == Without(req.tags, {t \in Range(req.tags) :
                                      t = EmptyTag \/ Lookup(cfg.tag_vocab, Key(t)) = 0})
    IN  [j \in 1 .. cfg.tag_max_len |->
           IF j <= Len(known) THEN Lookup(cfg.tag_vocab, Key(known[j])) ELSE 0]

BidderScaled(req, cfg) ==
    <<Standardise("log_floor_price", Clip0(req.floor), cfg.means_stds),
      Standardise("slot_area", req.width * req.height, cfg.means_stds),
      Standardise("tag_count", Len(Without(req.tags, {EmptyTag})), cfg.means_stds)>>

\* FeatureStore::encode of the bidder, which has no hour after 23.
BidderEncode(req, cfg) ==
    [cat |-> BidderCat(req, cfg),
     cont |-> <<BidderScaled(req, cfg),
                <<Flag(req.floor > 0), Flag(Sakamoto(req.date) >= 5)>>,
                <<IF req.hour > 23 THEN 0 ELSE req.hour, Sakamoto(req.date)>> >>,
     tags |-> BidderTags(req, cfg)]

RetrainerCat(rec, cfg) ==
    [k \in DOMAIN cfg.cat_order |->
       Lookup(cfg.cat_vocabs[cfg.cat_order[k]], Key(rec[cfg.cat_order[k]]))]

\* The retrainer looks a text up as it is; one with a comma is no tag.
TagIn(text) == IF Len(text) = 1 THEN Key(text[1]) ELSE Unknown

RetrainerTags(rec, cfg) ==
    LET words == [i \in DOMAIN rec.tags |-> TagIn(rec.tags[i])]
        known == Without(words, {t \in Range(words) : Lookup(cfg.tag_vocab, t) = 0})
    IN  [j \in 1 .. cfg.tag_max_len |->
           IF j <= Len(known) THEN Lookup(cfg.tag_vocab, known[j]) ELSE 0]

\* It counts every text.
RetrainerScaled(rec, cfg) ==
    <<Standardise("log_floor_price", Clip0(rec.floor), cfg.means_stds),
      Standardise("slot_area", rec.width * rec.height, cfg.means_stds),
      Standardise("tag_count", Len(rec.tags), cfg.means_stds)>>

\* encode_record of the retrainer, of the record of a request.
RetrainerEncode(rec, cfg) ==
    [cat |-> RetrainerCat(rec, cfg),
     cont |-> <<RetrainerScaled(rec, cfg),
                <<Flag(rec.floor > 0), Flag(Weekday(rec.date) >= 5)>>,
                <<rec.hour % 24, Weekday(rec.date)>> >>,
     tags |-> RetrainerTags(rec, cfg)]

=============================================================================
