--------------------------- MODULE MCLearningLoop ---------------------------
(* Instance of LearningLoop for TLC: records below, above and inside the bins. *)
EXTENDS LearningLoop

MCPriceOf == <<-1, 7, 3>>

=============================================================================
