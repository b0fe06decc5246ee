--------------------------- MODULE MCAuctionEngine ---------------------------
(* Instances of AuctionEngine for TLC. *)
EXTENDS AuctionEngine

\* The second company is the budget-paced one.
Budgets == [c \in 1 .. 2 |-> IF c = 1 THEN 4 ELSE 3]
=============================================================================
