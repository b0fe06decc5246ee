---------------------------- MODULE AuctionEngine ----------------------------
(***************************************************************************)
(* The auction engine (go-engine/internal/engine): one goroutine runs      *)
(* auctions one after another.  Each auction resets budgets at the start   *)
(* of a day, paces companies that are ahead of their budget, asks the      *)
(* others for a bid at the same time with a deadline, settles a            *)
(* first-price auction against the synthetic market, tells the bidders the *)
(* outcome one by one, and only then folds it into the telemetry store     *)
(* (internal/stats), which /stats and /events read at any time.            *)
(*                                                                         *)
(* Money is in fen.  What bidders, market and pacing coin do is arbitrary: *)
(* any bid or none in time, any top competitor bid, and any choice of who  *)
(* among the companies ahead of pace sits out.                             *)
(***************************************************************************)
EXTENDS Integers, FiniteSets, FiniteSetsExt

CONSTANTS
    NumCompanies,   \* len(cfg.Companies)
    DailyBudget,    \* company -> BudgetFor(shared daily budget)
    DayAuctions,    \* auctions per simulated day; 0 = budgets never reset
    ImpressionValue,\* V
    MaxBid,         \* bound: bids are 0 .. MaxBid
    MaxMarket,      \* bound: the top competitor bid is 0 .. MaxMarket
    MaxAuctions     \* bound: auctions that are run

Companies == 1 .. NumCompanies      \* e.comps, in order

ASSUME EngineAssumption ==
    /\ NumCompanies \in Nat
    /\ DailyBudget \in [Companies -> Nat]
    /\ DayAuctions \in Nat
    /\ ImpressionValue \in Nat
    /\ MaxBid \in Nat /\ MaxMarket \in Nat /\ MaxAuctions \in Nat

VARIABLES
    \* Engine
    counter,        \* counter: auctions begun
    phase,          \* runAuction: idle, bidding, or settled and not recorded
    budget,         \* company.budget
    paced,          \* companies with company.paced
    asked,          \* companies whose GetBid is outstanding
    answered,       \* companies with results[i].ok
    bid,            \* results[i].bid
    winner,         \* winner, if companyWon; 0: the market, or no one
    price,          \* clearing
    pending,        \* companies that answered and are still to be notified
    \* stats.Store
    auctions, clearing,
    bids, noBid, won, lost, profit, spend, shown,   \* shown: compState.budget
    \* The bidders' own counters, fed by NotifyOutcome
    toldWon, toldLost, toldProfit, toldClearing,
    \* History: spend at the start of the day
    dayStart

outcomeVars == <<winner, price, pending>>
engineVars == <<counter, phase, budget, paced, asked, answered, bid, outcomeVars>>
storeVars == <<auctions, clearing, bids, noBid, won, lost, profit, spend, shown>>
toldVars == <<toldWon, toldLost, toldProfit, toldClearing>>
vars == <<engineVars, storeVars, toldVars, dayStart>>

Zero == [c \in Companies |-> 0]

\* The types of engine, store and bidders' counters; the told counters are
\* Prometheus counters (metrics.cpp:147-157), which may never go down.
TypeOK ==
    /\ counter \in 0 .. MaxAuctions
    /\ phase \in {"idle", "bidding", "settled"}
    /\ budget \in [Companies -> Int]
    /\ paced \in SUBSET Companies
    /\ asked \in SUBSET Companies
    /\ answered \in SUBSET Companies
    /\ bid \in [Companies -> 0 .. MaxBid]
    /\ winner \in Companies \cup {0} /\ price \in Nat
    /\ pending \in SUBSET Companies
    /\ auctions \in Nat /\ clearing \in Nat
    /\ bids \in [Companies -> Nat] /\ noBid \in [Companies -> Nat]
    /\ won \in [Companies -> Nat] /\ lost \in [Companies -> Nat]
    /\ profit \in [Companies -> Int] /\ spend \in [Companies -> Nat]
    /\ shown \in [Companies -> Int]
    /\ toldWon \in [Companies -> Nat] /\ toldLost \in [Companies -> Nat]
    /\ toldProfit \in [Companies -> Nat] /\ toldClearing \in [Companies -> Nat]
    /\ dayStart \in [Companies -> Nat]

\* New(): full budgets, which SetBudget also shows.
Init ==
    /\ counter = 0 /\ phase = "idle"
    /\ budget = DailyBudget /\ shown = DailyBudget
    /\ paced = {} /\ asked = {} /\ answered = {}
    /\ bid = Zero
    /\ auctions = 0 /\ clearing = 0
    /\ bids = Zero /\ noBid = Zero /\ won = Zero /\ lost = Zero
    /\ profit = Zero /\ spend = Zero
    /\ winner = 0 /\ price = 0 /\ pending = {}
    /\ toldWon = Zero /\ toldLost = Zero /\ toldProfit = Zero /\ toldClearing = Zero
    /\ dayStart = Zero

-----------------------------------------------------------------------------
(* runAuction, up to the concurrent GetBid calls *)

\* (e.counter - 1) % day, before the counter is incremented.
Pos == counter % DayAuctions
NewDay == DayAuctions > 0 /\ Pos = 0

\* Mutant: whoever has spent anything is paced, even on schedule.
AheadOfPaceAny(c) ==
    /\ DayAuctions > 0
    /\ DailyBudget[c] * Pos > 0
    /\ DailyBudget[c] - budget[c] > 0

\* spent > expectedSpent > 0, in integers.
AheadOfPace(c) ==
    /\ DayAuctions > 0
    /\ DailyBudget[c] * Pos > 0
    /\ (DailyBudget[c] - budget[c]) * DayAuctions > DailyBudget[c] * Pos

\* The budgets after the day's reset.
ResetBudget == IF NewDay THEN DailyBudget ELSE budget

\* makeRequest, the day's reset, pacing, and one GetBid per company that
\* takes part.  With DayAuctions = 0 no one is ever paced.
BeginAuction ==
    /\ phase = "idle"
    /\ counter < MaxAuctions
    /\ counter' = counter + 1
    /\ phase' = "bidding"
    /\ budget' = ResetBudget
    /\ dayStart' = IF NewDay THEN spend ELSE dayStart
    /\ \E sitOut \in SUBSET {c \in Companies : AheadOfPace(c)} :
          /\ paced' = sitOut
          /\ asked' = Companies \ sitOut
    /\ answered' = {}
    /\ bid' = Zero
    /\ UNCHANGED <<outcomeVars, storeVars, toldVars>>

\* GetBid returns before the deadline.
BidArrives(c) ==
    /\ c \in asked
    /\ asked' = asked \ {c}
    /\ answered' = answered \cup {c}
    /\ \E b \in 0 .. MaxBid : bid' = [bid EXCEPT ![c] = b]
    /\ UNCHANGED <<counter, phase, budget, paced, outcomeVars,
                   storeVars, toldVars, dayStart>>

\* GetBid fails, or its deadline passes first: a late answer is discarded.
BidMissed(c) ==
    /\ c \in asked
    /\ asked' = asked \ {c}
    /\ UNCHANGED <<counter, phase, budget, paced, answered, bid, outcomeVars,
                   storeVars, toldVars, dayStart>>

-----------------------------------------------------------------------------
(* runAuction, after wg.Wait() *)

\* Mutant: the budget is not looked at.
AffordableAny == {c \in answered : bid[c] > 0}

\* Who can win: answered in time, bid something, and has the money.
Affordable == {c \in answered : bid[c] > 0 /\ budget[c] >= bid[c]}

\* Mutant: the last affordable bid above zero is taken, not the highest.
LeadsLast(c) == c \in Affordable /\ \A d \in Affordable : d <= c

\* The highest affordable bid; the first company in order wins a tie.
Leads(c) ==
    /\ c \in Affordable
    /\ \A d \in Affordable : bid[d] < bid[c] \/ (bid[d] = bid[c] /\ c <= d)

\* winningBid.
WinningBid ==
    IF Affordable = {} THEN 0 ELSE bid[CHOOSE c \in Companies : Leads(c)]

Larger(a, b) == IF a > b THEN a ELSE b

\* Mutant: a bidder that failed is waited for.
AllBidsInAnswered == phase = "bidding" /\ answered = Companies \ paced

\* wg.Wait() has returned.
AllBidsIn == phase = "bidding" /\ asked = {}

\* Mutant: a bidder that failed is sent an outcome too.
ToNotifyAll == Companies \ paced

\* r.ok: who is told the outcome.
ToNotify == answered

\* The auction is decided against the market's top bid; its outcome is not
\* yet known to the bidders, nor recorded.
Decide(top) ==
    /\ AllBidsIn
    /\ phase' = "settled"
    /\ price' = Larger(WinningBid, top)
    /\ pending' = ToNotify
    /\ UNCHANGED <<counter, paced, asked, answered, bid,
                   storeVars, toldVars, dayStart>>

\* A company has the top bid: it wins and pays its own bid.
CompanyWins(c, top) ==
    /\ Decide(top)
    /\ Leads(c) /\ bid[c] >= top
    /\ winner' = c
    /\ budget' = [budget EXCEPT ![c] = @ - bid[c]]

\* The market outbids every company that can pay, or no one bids.
NoCompanyWins(top) ==
    /\ Decide(top)
    /\ ~\E c \in Companies : Leads(c) /\ bid[c] >= top
    /\ winner' = 0
    /\ UNCHANGED budget

Settle ==
    \E top \in 0 .. MaxMarket :
        \/ \E c \in Companies : CompanyWins(c, top)
        \/ NoCompanyWins(top)

\* Mutant: a loss is subtracted from the profit counter.
CountWinLoss(c) ==
    /\ winner = c
    /\ toldWon' = [toldWon EXCEPT ![c] = @ + 1]
    /\ toldProfit' = [toldProfit EXCEPT ![c] = @ + (ImpressionValue - bid[c])]
    /\ UNCHANGED toldLost

\* observe_outcome of a win: only a gain is added to the profit counter.
CountWin(c) ==
    /\ winner = c
    /\ toldWon' = [toldWon EXCEPT ![c] = @ + 1]
    /\ toldProfit' = [toldProfit EXCEPT ![c] = @ + Larger(ImpressionValue - bid[c], 0)]
    /\ UNCHANGED toldLost

\* observe_outcome of a loss.
CountLoss(c) ==
    /\ winner # c
    /\ toldLost' = [toldLost EXCEPT ![c] = @ + 1]
    /\ UNCHANGED <<toldWon, toldProfit>>

\* The loop over the results comes to the next company that answered.
NextNotice(c) ==
    /\ c \in pending /\ \A d \in pending : c <= d
    /\ pending' = pending \ {c}
    /\ UNCHANGED <<counter, phase, budget, paced, asked, answered, bid,
                   winner, price, storeVars, dayStart>>

\* NotifyOutcome reaches the bidder.
NoticeArrives(c) ==
    /\ NextNotice(c)
    /\ CountWin(c) \/ CountLoss(c)
    /\ toldClearing' = [toldClearing EXCEPT ![c] = price]

\* NotifyOutcome fails or takes longer than 50 ms: its error is dropped.
NoticeLost(c) ==
    /\ NextNotice(c)
    /\ UNCHANGED toldVars

\* Mutant: a company that sat out is counted as having lost.
LosersAndPaced == (answered \cup paced) \ {winner}

\* The companies that bid and did not win.
Losers == answered \ {winner}

\* Mutant: the budget is shown as it was before the winner paid.
ShownBeforePaying ==
    [c \in Companies |-> IF c = winner THEN budget[c] + bid[c] ELSE shown[c]]

\* The budget line of Record: only a winner's is refreshed.
ShownAfter ==
    [c \in Companies |-> IF c = winner THEN budget[c] ELSE shown[c]]

\* Everyone has been notified: Store.Record, in one critical section.
RecordAuction ==
    /\ phase = "settled" /\ pending = {}
    /\ phase' = "idle"
    /\ winner' = 0
    /\ auctions' = auctions + 1
    /\ clearing' = price
    /\ noBid' = [c \in Companies |->
          IF c \in paced \/ c \in answered THEN noBid[c] ELSE noBid[c] + 1]
    /\ bids' = [c \in Companies |-> IF c \in answered THEN bids[c] + 1 ELSE bids[c]]
    /\ won' = [c \in Companies |-> IF c = winner THEN won[c] + 1 ELSE won[c]]
    /\ lost' = [c \in Companies |->
          IF c \in Losers THEN lost[c] + 1 ELSE lost[c]]
    /\ profit' = [c \in Companies |->
          IF c = winner THEN profit[c] + (ImpressionValue - bid[c]) ELSE profit[c]]
    /\ spend' = [c \in Companies |-> IF c = winner THEN spend[c] + bid[c] ELSE spend[c]]
    /\ shown' = ShownAfter
    /\ UNCHANGED <<counter, budget, paced, asked, answered, bid, price, pending,
                   toldVars, dayStart>>

-----------------------------------------------------------------------------

Next ==
    \/ BeginAuction
    \/ \E c \in Companies : BidArrives(c) \/ BidMissed(c)
    \/ Settle
    \/ \E c \in Companies : NoticeArrives(c) \/ NoticeLost(c)
    \/ RecordAuction

\* GetBid and NotifyOutcome return by their deadlines at the latest, and the
\* goroutine goes on.
Fairness ==
    /\ \A c \in Companies : WF_vars(BidArrives(c) \/ BidMissed(c))
    /\ WF_vars(Settle)
    /\ \A c \in Companies : WF_vars(NoticeArrives(c) \/ NoticeLost(c))
    /\ WF_vars(RecordAuction)

Spec == Init /\ [][Next]_vars
FairSpec == Spec /\ Fairness

-----------------------------------------------------------------------------
(* Properties *)

\* What the auction being settled has taken from a company's budget and the
\* scoreboard does not show yet.
Owed(c) == IF winner = c THEN bid[c] ELSE 0

\* No company spends more than its daily budget in a day, and the engine's
\* budget is at all times the daily budget less what the scoreboard shows as
\* spent since the day began and the price of the one auction that is settled
\* and not yet recorded (engine.go:187-193, 246-249, 274-278, 326; stats.go:
\* 327-331).
WithinDailyBudget ==
    \A c \in Companies :
        /\ budget[c] >= 0
        /\ budget[c] + (spend[c] - dayStart[c]) + Owed(c) = DailyBudget[c]

\* One company's row of the scoreboard.
RowsAddUp ==
    \A c \in Companies :
        /\ bids[c] = won[c] + lost[c]
        /\ bids[c] + noBid[c] <= auctions
        /\ profit[c] = won[c] * ImpressionValue - spend[c]

\* The scoreboard adds up after any run: a bid is won or lost, the companies
\* together win no more auctions than were run, and profit is V per win less
\* the spend, negative when a strategy overpays (engine.go:286-294,
\* stats.go:288-335; go-engine/README.md:41 "wins x (V - bid)").
ScoreboardAddsUp ==
    /\ RowsAddUp
    /\ MapThenSumSet(LAMBDA c : won[c], Companies) <= auctions

\* A company sits out only when it has spent more than its even share of the
\* day, so never in the first auction of a day, and it is neither asked nor
\* charged for that auction (engine.go:180-203).
OnlyTheAheadSitOut ==
    phase # "idle" =>
        \A c \in paced :
            /\ c \notin asked \cup answered
            /\ (spend[c] - dayStart[c]) * DayAuctions
                  > DailyBudget[c] * ((counter - 1) % DayAuctions)

\* What /stats shows as a company's budget, whenever it is read: the budget
\* after the last win that was recorded.  It lags behind a day's reset until
\* the company wins again; from then on it is the engine's budget, except
\* while the notices of an auction the company has won are being sent, when
\* it is too high by exactly that price (engine.go:276, 314, 326; stats.go:331).
ShownIsAfterLastWin ==
    \A c \in Companies :
        /\ shown[c] \in 0 .. budget[c] + Owed(c)
        /\ spend[c] # dayStart[c] => shown[c] = budget[c] + Owed(c)

\* A bidder's own win and loss counters lag behind the scoreboard, since a
\* notice may be lost, and are ahead of it by at most the auction being
\* settled: no outcome is counted twice, and none that was not a bid
\* (engine.go:313-314, 345-355; metrics.cpp:147-158).
BiddersNeverAhead ==
    \A c \in Companies :
        /\ toldWon[c] <= won[c] + (IF winner = c THEN 1 ELSE 0)
        /\ toldLost[c] <= lost[c] +
              (IF phase = "settled" /\ c \in answered \ {winner} THEN 1 ELSE 0)

\* First price, from the bids to the scoreboard: the winner that is recorded
\* has a bid no in-time bid that could be paid exceeds, it is charged exactly
\* its own bid, no one else is charged, and the price logged for the retrainer
\* is at least every bid that could have been paid (engine.go:239-278, 326,
\* 341).
HighestAffordableBidWins ==
    [][auctions' # auctions =>
         \A c \in Companies :
            /\ won'[c] # won[c] =>
                 /\ spend'[c] = spend[c] + bid[c]
                 /\ clearing' = bid[c]
                 /\ bid[c] > 0
            /\ won'[c] = won[c] => spend'[c] = spend[c]
            /\ c \in answered /\ bid[c] <= budget[c] + (spend'[c] - spend[c])
                 => bid[c] <= clearing'
      ]_vars

\* An auction that has begun is settled and recorded: no bidder can hold it
\* up, by not bidding or by not taking the notice of the outcome.
AuctionFinishes == (phase = "bidding") ~> (phase = "idle")
=============================================================================
