-------------------------- MODULE MCFeaturePipeline --------------------------
(* Instance of FeaturePipeline for TLC.  The rows share and differ in region, *)
(* domain and tags, one has more known tags than slots and an empty piece,    *)
(* one the text "null"; of the two that are never in a training log (a cold   *)
(* start) one has "null" among its tags and an hour no day has.  Dates lie in *)
(* leap years and before and after March.                                     *)
EXTENDS FeaturePipeline

S(text) == <<"str", text>>
N(text) == <<"int", text>>

RowA == [region |-> N("1"), domain |-> S("x"), tags |-> <<S("a"), S(""), S("b"), S("c")>>,
         floor |-> 0, width |-> 2, height |-> 3, date |-> <<2012, 2, 29>>, hour |-> 23]
RowB == [region |-> N("1"), domain |-> S("y"), tags |-> <<S("c"), S("a")>>,
         floor |-> 2, width |-> 1, height |-> 1, date |-> <<2013, 6, 8>>, hour |-> 0]
RowC == [region |-> N("2"), domain |-> S("x"), tags |-> <<S("null")>>,
         floor |-> -1, width |-> 0, height |-> 4, date |-> <<2000, 12, 31>>, hour |-> 12]

RowD == [region |-> N("2"), domain |-> S("z"), tags |-> <<S("d"), S("c")>>,
         floor |-> 5, width |-> 1, height |-> 0, date |-> <<2013, 1, 6>>, hour |-> 7]

RowE == [region |-> N("1"), domain |-> S("x"), tags |-> <<S("a"), S("null"), S("c")>>,
         floor |-> 1, width |-> 1, height |-> 2, date |-> <<2013, 10, 1>>, hour |-> 29]

MCLines == {RowA, RowB, RowC}
MCTestLog == <<Malformed, RowD, RowE>>
MCMinCount == [region |-> 0, domain |-> 2, user_tags |-> 2]

=============================================================================
