---------------------------- MODULE MCBidPipeline ----------------------------
(* Instances of BidPipeline for TLC. *)
EXTENDS BidPipeline

\* Three calls: a request, its retry, and a request of its own.
RetryAndOther == [c \in {1, 2, 3} |-> IF c = 3 THEN "b" ELSE "a"]
\* Decisions are model versions.
BothVersions == {1, 2}
=============================================================================
