---------------------------- MODULE MCExperiments ----------------------------
(* Instance of Experiments for TLC: three prices and a value between two of   *)
(* them, an impression worth nothing, two models, one of them calibrated, the *)
(* calibrated other one, and a mixture model that bids 1, 3 or 5.             *)
EXTENDS Experiments, TLC

MCRows == << [pay |-> 2, bid |-> 4], [pay |-> 4, bid |-> 0] >>
Dist(a, b, c) == (0 :> a) @@ (1 :> b) @@ (2 :> c)
MCTables == { << Dist(1, 2, 1), Dist(0, 1, 3) >>,
              << Dist(1, 0, 3), Dist(1, 2, 0) @@ (3 :> 1) >> }
MCMixtures == { << (1 :> 0) @@ (3 :> 2) @@ (5 :> 4), (1 :> 1) @@ (3 :> 1) @@ (5 :> 3) >> }
MCDirOf == [f \in {"a", "calA", "calB"} |-> IF f = "a" THEN "a" ELSE "calibrated"]
MCMemberLists == { <<"a", "calA">>, <<"calA", "calB">> }
MCDraws == { <<1, 3>>, <<3, 1>> }
MCFractions == { <<1, 2>>, <<1, 1>> }
MCMultipliers == { <<1, 1>>, <<3, 2>>, <<1, 2>> }

\* A dear auction before a cheap one.
MCRowsFalling == << [pay |-> 4, bid |-> 6], [pay |-> 2, bid |-> 4] >>
MCTablesFalling == { << Dist(0, 1, 3), Dist(1, 2, 1) >> }
=============================================================================
