------------------------------- MODULE BidMath -------------------------------
(***************************************************************************)
(* The bid that a predicted price distribution calls for, as the training  *)
(* project computes it when it scores a model (rtb-bid-model/src) and as   *)
(* the bidder computes it when it serves one (cpp-bidder), and what an     *)
(* auction makes of a bid.                                                 *)
(*                                                                         *)
(* Money is counted in half fen, so that values between two prices occur.  *)
(* A distribution gives every bin, a price in whole fen, its probability   *)
(* in shares of a unit.                                                    *)
(***************************************************************************)
EXTENDS Integers, Sequences, FiniteSetsExt, SequencesExt

CONSTANTS
    NumBins,        \* bins of the grid that bids are chosen from
    NumCands,       \* candidate bids for a mixture, 500 in the code,
    CandStep        \* and the distance between two of them

ASSUME BinsAssumption ==
    /\ NumBins \in Nat \ {0}
    /\ NumCands \in Nat \ {0} /\ CandStep \in Nat \ {0}

Bins == 0 .. NumBins - 1
Price(k) == 2 * k
Top == Price(NumBins - 1)

Larger(a, b) == IF a > b THEN a ELSE b

\* The share of the distribution at or below each bin, and at or below a bid.
Cdf(p) ==
    LET c[k \in DOMAIN p] == p[k] + (IF k = 0 THEN 0 ELSE c[k - 1])
    IN  c

BinOf(p, bid) == IF (bid \div 2) \in DOMAIN p THEN bid \div 2 ELSE Max(DOMAIN p)
CdfAt(p, bid) == Cdf(p)[BinOf(p, bid)]

\* The first of a set of candidates at which a score is highest: max and argmax
\* over a row in candidate order.
FirstMax(cands, score(_)) ==
    CHOOSE c \in cands :
        \A d \in cands : score(d) < score(c) \/ (score(d) = score(c) /\ c <= d)

\* The expected profit of a bid, "bidding more than V" set to zero.
MaskedProfit(p, V, bid) == IF bid > V THEN 0 ELSE (V - bid) * CdfAt(p, bid)

BestBid(cands, p, V) ==
    LET best == FirstMax(cands, LAMBDA c : MaskedProfit(p, V, c))
    IN  IF MaskedProfit(p, V, best) < 0 THEN 0 ELSE best

\* bid_optimizer.py, of bins: every bin is a candidate.
GridOptimizeBins(p, V) == BestBid({Price(k) : k \in DOMAIN p}, p, V)

\* Of a mixture: evenly spaced candidates from half a fen on.  The mixture is
\* the probability, win, that each of them wins.
MdnGrid == {1 + j * CandStep : j \in 0 .. NumCands - 1}
MdnProfit(win, V, bid) == IF bid > V THEN 0 ELSE (V - bid) * win[bid]

GridOptimizeMdn(win, V) ==
    LET best == FirstMax(MdnGrid, LAMBDA c : MdnProfit(win, V, c))
    IN  IF MdnProfit(win, V, best) < 0 THEN 0 ELSE best

\* The ensemble searches: the bins from ceil(V) on are set to zero instead.
CeilBin(V) == (V + 1) \div 2

\* Mutant: int() without ceil.
SlicedProfitFloor(p, V, k) ==
    IF k >= V \div 2 THEN 0 ELSE (V - Price(k)) * CdfAt(p, Price(k))

SlicedProfit(p, V, k) ==
    IF k >= CeilBin(V) THEN 0 ELSE (V - Price(k)) * CdfAt(p, Price(k))

SlicedBid(p, V) == Price(FirstMax(Bins, LAMBDA k : SlicedProfit(p, V, k)))

\* optimize_bid (bid_optimizer.cpp): one pass over the bins with a running sum,
\* then the company's multiplier, a pair <<num, den>>, and the clamp.
Scan(p, V) ==
    LET Step(acc, k) ==
            LET running == acc.running + p[k]
                profit == IF Price(k) > V THEN 0 ELSE (V - Price(k)) * running
            IN  IF acc.k = -1 \/ profit > acc.profit
                THEN [running |-> running, profit |-> profit, k |-> k]
                ELSE [acc EXCEPT !.running = running]
    IN  FoldLeft(Step, [running |-> 0, profit |-> 0, k |-> -1],
                 [i \in 1 .. Cardinality(DOMAIN p) |-> i - 1])

Clamp(p, bid) ==
    LET top == Price(Max(DOMAIN p))
    IN  IF bid < 0 THEN 0 ELSE IF bid > top THEN top ELSE bid

Times(bid, mult) == (bid * mult[1]) \div mult[2]

OptimizeBid(p, V, mult) ==
    LET best == Scan(p, V)
    IN  IF best.profit < 0 THEN 0 ELSE Clamp(p, Times(Price(best.k), mult))

\* backtest.py: the best bin times the multiplier, clipped to the bins.
BestBids(p, V) == Price(FirstMax(DOMAIN p, LAMBDA k : MaskedProfit(p, V, Price(k))))
StrategyBid(p, V, mult) == Clamp(p, Times(BestBids(p, V), mult))

\* What a bid would have earned, what the price known in advance would have,
\* and the difference.
Realized(bid, pay, V) == IF bid >= pay THEN V - bid ELSE 0
PerfectProfit(pay, V) == IF V > pay THEN V - pay ELSE 0
Regret(bid, pay, V) == PerfectProfit(pay, V) - Realized(bid, pay, V)

-----------------------------------------------------------------------------
\* Bins from 0 on, each with its share.
IsDistribution(p) ==
    /\ IsFiniteSet(DOMAIN p) /\ DOMAIN p # {}
    /\ DOMAIN p = 0 .. Cardinality(DOMAIN p) - 1
    /\ p \in [DOMAIN p -> Nat]

\* A chance for every candidate of the mixtures' grid, growing with the bid.
IsMixture(win) ==
    /\ win \in [MdnGrid -> Nat]
    /\ \A c, d \in MdnGrid : c <= d => win[c] <= win[d]

Mass(p) == Cdf(p)[Max(DOMAIN p)]

\* to_bins: a distribution over some number of bins, cut or padded to NumBins;
\* the shares are of its remaining mass.
ToBins(p) == [k \in Bins |-> IF k \in DOMAIN p THEN p[k] ELSE 0]

Product(f) == FoldFunction(LAMBDA a, b : a * b, 1, f)

\* The weighted average of several distributions, each taken as a share of its
\* own mass, in a unit common to all of them.
Average(dists, w) ==
    LET members == DOMAIN dists
        bins == [i \in members |-> ToBins(dists[i])]
        unit(i) == Larger(Mass(bins[i]), 1)
        others(i) == Product([j \in members \ {i} |-> unit(j)])
    IN  [k \in Bins |-> SumFunction([i \in members |-> w[i] * bins[i][k] * others(i)])]

-----------------------------------------------------------------------------
\* The auctions of a test set, played in order against a budget: a pair
\* <<num, den>> of the cost of all of them.
Exceeds(spent, budget, total) == spent * budget[2] > budget[1] * total

NoAccount == [spent |-> 0, wins |-> {}, profit |-> 0]

Win(acc, i, bid, V) ==
    [spent |-> acc.spent + bid, wins |-> acc.wins \cup {i}, profit |-> acc.profit + (V - bid)]

\* simulate: one auction.
Play(acc, i, bid, pay, V, budget, total) ==
    IF bid <= 0 \/ Exceeds(acc.spent + bid, budget, total) \/ bid < pay
    THEN acc ELSE Win(acc, i, bid, V)

Simulate(bids, pays, Vs, budget, total) ==
    FoldLeft(LAMBDA acc, i : Play(acc, i, bids[i], pays[i], Vs[i], budget, total),
             NoAccount, [i \in DOMAIN bids |-> i])

\* budget_naive: the same bid every time, stopping at the first auction that
\* it cannot afford.
SimulateNaive(bid, pays, V, budget, total) ==
    LET Step(acc, i) ==
            IF acc.over \/ Exceeds(acc.account.spent + bid, budget, total)
            THEN [acc EXCEPT !.over = TRUE]
            ELSE IF bid >= pays[i] THEN [acc EXCEPT !.account = Win(@, i, bid, V)]
            ELSE acc
    IN  FoldLeft(Step, [account |-> NoAccount, over |-> FALSE],
                 [i \in DOMAIN pays |-> i]).account
=============================================================================
