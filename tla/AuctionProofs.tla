---------------------------- MODULE AuctionProofs ----------------------------
(***************************************************************************)
(* The money of AuctionEngine for any number of companies, any budgets,    *)
(* any length of the day and any bids.                                     *)
(***************************************************************************)
EXTENDS AuctionEngine, FiniteSetTheorems, WellFoundedInduction, TLAPS

\* A day's spend is never negative, so that the day's reset raises every
\* budget.
DaySpendNatural == \A c \in Companies : dayStart[c] <= spend[c]

\* What is known between the decision and its record: the winner's bid, which
\* is the price, and that no bid that could have been paid is above it.
Decided ==
    /\ phase # "bidding" => asked = {}
    /\ phase # "settled" => winner = 0 /\ pending = {}
    /\ pending \subseteq answered
    /\ winner # 0 => winner \in answered /\ bid[winner] > 0 /\ price = bid[winner]
    /\ phase = "settled" =>
          \A c \in answered : bid[c] <= budget[c] + Owed(c) => bid[c] <= price

IndInv ==
    /\ TypeOK
    /\ WithinDailyBudget
    /\ DaySpendNatural
    /\ ShownIsAfterLastWin
    /\ Decided

\* Money is counted in integers.
LEMMA Amounts ==
  ASSUME TypeOK, NEW c \in Companies
  PROVE  /\ budget[c] \in Int /\ shown[c] \in Int /\ bid[c] \in Nat
         /\ spend[c] \in Nat /\ dayStart[c] \in Nat /\ DailyBudget[c] \in Nat
         /\ Owed(c) \in Nat /\ won[c] \in Nat /\ lost[c] \in Nat
         /\ toldWon[c] \in Nat /\ toldLost[c] \in Nat
         /\ c # 0
  BY EngineAssumption DEF TypeOK, Owed, Companies

\* Full budgets and an empty scoreboard satisfy the invariant.
LEMMA InitInd == Init => IndInv
<1> SUFFICES ASSUME Init PROVE IndInv
  OBVIOUS
<1> USE EngineAssumption DEF Init, Zero
<1>1. TypeOK
  BY DEF TypeOK
<1>2. \A c \in Companies : Owed(c) = 0 /\ DailyBudget[c] \in Nat
  BY DEF Owed
<1> QED
  BY <1>1, <1>2
  DEF IndInv, WithinDailyBudget, DaySpendNatural, ShownIsAfterLastWin, Decided

\* A day's reset gives every company exactly its daily budget, and the spend
\* of the day starts from nothing.
LEMMA BeginInd == IndInv /\ BeginAuction => IndInv'
<1> SUFFICES ASSUME IndInv, BeginAuction PROVE IndInv'
  OBVIOUS
<1> USE EngineAssumption DEF IndInv
<1>1. TypeOK'
  BY DEF TypeOK, BeginAuction, ResetBudget, Zero, storeVars, toldVars, outcomeVars
<1>2. budget' = ResetBudget /\ dayStart' = IF NewDay THEN spend ELSE dayStart
  BY DEF BeginAuction
<1>3. spend' = spend /\ shown' = shown /\ winner = 0 /\ winner' = 0 /\ phase' = "bidding"
      /\ pending' = {}
  BY DEF BeginAuction, storeVars, outcomeVars, Decided
<1>4. ASSUME NEW c \in Companies
      PROVE  /\ Owed(c) = 0 /\ Owed(c)' = 0
             /\ budget[c] + (spend[c] - dayStart[c]) = DailyBudget[c] /\ budget[c] >= 0
             /\ dayStart[c] <= spend[c]
             /\ shown[c] \in 0 .. budget[c]
             /\ spend[c] # dayStart[c] => shown[c] = budget[c]
  <2>1. Owed(c) = 0 /\ Owed(c)' = 0
    BY <1>3, Amounts DEF Owed
  <2> QED
    BY <2>1, Amounts DEF WithinDailyBudget, DaySpendNatural, ShownIsAfterLastWin
<1>5. ASSUME NEW c \in Companies
      PROVE  /\ budget'[c] >= 0
             /\ budget'[c] + (spend'[c] - dayStart'[c]) + Owed(c)' = DailyBudget[c]
             /\ dayStart'[c] <= spend'[c]
             /\ shown'[c] \in 0 .. budget'[c] + Owed(c)'
             /\ spend'[c] # dayStart'[c] => shown'[c] = budget'[c] + Owed(c)'
  <2>1. CASE NewDay
    BY <1>2, <1>3, <1>4, <2>1, Amounts DEF ResetBudget
  <2>2. CASE ~NewDay
    BY <1>2, <1>3, <1>4, <2>2, Amounts DEF ResetBudget
  <2> QED BY <2>1, <2>2
<1>6. Decided'
  BY <1>3 DEF Decided
<1> QED
  BY <1>1, <1>5, <1>6 DEF WithinDailyBudget, DaySpendNatural, ShownIsAfterLastWin

\* Bids that arrive, or do not, move no money: nothing is decided yet.
LEMMA BidInd ==
  ASSUME NEW c \in Companies, IndInv, BidArrives(c) \/ BidMissed(c)
  PROVE  IndInv'
<1> USE EngineAssumption DEF IndInv
<1>1. TypeOK'
  BY DEF TypeOK, BidArrives, BidMissed, storeVars, toldVars, outcomeVars
<1>2. UNCHANGED <<phase, budget, dayStart, spend, shown, winner, pending>>
  BY DEF BidArrives, BidMissed, storeVars, outcomeVars
<1>3. phase = "bidding" /\ winner = 0 /\ pending = {}
  BY DEF Decided, BidArrives, BidMissed
<1>4. ASSUME NEW d \in Companies PROVE Owed(d) = 0 /\ Owed(d)' = 0
  BY <1>2, <1>3, Amounts DEF Owed
<1>5. WithinDailyBudget' /\ DaySpendNatural' /\ ShownIsAfterLastWin'
  BY <1>2, <1>4 DEF WithinDailyBudget, DaySpendNatural, ShownIsAfterLastWin
<1>6. Decided'
  BY <1>2, <1>3 DEF Decided
<1> QED BY <1>1, <1>5, <1>6

\* Every non-empty set of naturals has a least element.
LEMMA LeastNatural ==
  ASSUME NEW T, T \subseteq Nat, T # {}
  PROVE  \E m \in T : \A k \in T : m <= k
<1> DEFINE R == OpToRel(<, Nat)
<1>1. IsWellFoundedOn(R, Nat)
  BY NatLessThanWellFounded
<1> HIDE DEF R
<1>2. PICK m \in T : \A k \in T : ~(<<k, m>> \in R)
  BY <1>1, WFMin
<1> USE DEF R
<1>3. \A k \in T : ~(k < m)
  BY <1>2 DEF OpToRel
<1> QED BY <1>3

\* If anyone can pay, someone leads: the highest bid, and the first to make it.
LEMMA LeaderExists ==
  ASSUME TypeOK, Affordable # {}
  PROVE  \E c \in Companies : Leads(c)
<1> USE EngineAssumption
<1>0. Affordable \subseteq Companies /\ Companies \subseteq Nat
  <2>1. answered \subseteq Companies
    BY DEF TypeOK
  <2>2. Affordable \subseteq answered
    BY DEF Affordable
  <2>3. \A c \in Companies : c \in Nat
    BY DEF Companies
  <2> QED BY <2>1, <2>2, <2>3
<1>1. \A c \in Companies : bid[c] \in 0 .. MaxBid
  BY DEF TypeOK
<1> DEFINE Gaps == {MaxBid - bid[c] : c \in Affordable}
<1>2. Gaps \subseteq Nat /\ Gaps # {}
  <2>1. ASSUME NEW c \in Affordable PROVE MaxBid - bid[c] \in Nat
    BY <1>0, <1>1
  <2> QED BY <2>1
<1>3. PICK g \in Gaps : \A k \in Gaps : g <= k
  BY <1>2, LeastNatural
<1> DEFINE Tops == {c \in Affordable : MaxBid - bid[c] = g}
<1>4. Tops \subseteq Nat /\ Tops # {}
  BY <1>0
<1>5. PICK c \in Tops : \A d \in Tops : c <= d
  BY <1>4, LeastNatural
<1>6. ASSUME NEW d \in Affordable
      PROVE  bid[d] < bid[c] \/ (bid[d] = bid[c] /\ c <= d)
  <2>1. g <= MaxBid - bid[d]
    BY <1>3
  <2>2. bid[d] \in Int /\ bid[c] \in Int /\ MaxBid - bid[c] = g
    BY <1>0, <1>1
  <2>3. bid[d] = bid[c] => c <= d
    BY <1>5, <2>2
  <2> QED BY <2>1, <2>2, <2>3
<1> QED BY <1>0, <1>6 DEF Leads

\* A leading company's bid is the winning bid: no two companies lead.
LEMMA LeaderIsWinner ==
  ASSUME TypeOK, NEW c \in Companies, Leads(c)
  PROVE  WinningBid = bid[c]
<1>1. ASSUME NEW d \in Companies, Leads(d) PROVE bid[d] = bid[c]
  <2>1. c \in Affordable /\ d \in Affordable
    BY <1>1 DEF Leads
  <2>2. bid[c] \in Int /\ bid[d] \in Int
    BY EngineAssumption DEF TypeOK
  <2>3. bid[d] <= bid[c] /\ bid[c] <= bid[d]
    BY <1>1, <2>1, <2>2 DEF Leads
  <2> QED BY <2>2, <2>3
<1>2. Leads(CHOOSE d \in Companies : Leads(d))
      /\ (CHOOSE d \in Companies : Leads(d)) \in Companies
  OBVIOUS
<1>3. Affordable # {}
  BY DEF Leads
<1> QED BY <1>1, <1>2, <1>3 DEF WinningBid

\* The winning bid is nothing or one of the bids, and at least every bid
\* that could be paid.
LEMMA WinningBidTops ==
  ASSUME TypeOK
  PROVE  /\ WinningBid \in 0 .. MaxBid
         /\ \A c \in Affordable : bid[c] <= WinningBid
<1> USE EngineAssumption
<1>1. CASE Affordable = {}
  BY <1>1 DEF WinningBid
<1>2. CASE Affordable # {}
  <2>1. PICK w \in Companies : Leads(w)
    BY <1>2, LeaderExists
  <2>2. WinningBid = bid[w]
    BY <2>1, LeaderIsWinner
  <2>3. \A c \in Companies : bid[c] \in 0 .. MaxBid
    BY DEF TypeOK
  <2>4. \A c \in Affordable : c \in Companies
    BY DEF Affordable, TypeOK
  <2> QED BY <2>1, <2>2, <2>3, <2>4 DEF Leads
<1> QED BY <1>1, <1>2

\* The decision fits the types, whoever won.
LEMMA DecideTypes ==
  ASSUME NEW top \in 0 .. MaxMarket, TypeOK, Decide(top),
         budget' \in [Companies -> Int], winner' \in Companies \cup {0}
  PROVE  TypeOK'
<1>1. price' \in Nat
  BY EngineAssumption, WinningBidTops DEF Decide, Larger
<1>2. pending' \in SUBSET Companies /\ phase' = "settled"
  BY DEF Decide, ToNotify, TypeOK
<1>3. UNCHANGED <<counter, paced, asked, answered, bid, storeVars, toldVars, dayStart>>
  BY DEF Decide
<1> QED BY <1>1, <1>2, <1>3 DEF TypeOK, storeVars, toldVars

\* The price is at least every bid that could be paid.
LEMMA PriceTops ==
  ASSUME NEW top \in 0 .. MaxMarket, TypeOK, Decide(top),
         NEW c \in answered, bid[c] <= budget[c]
  PROVE  bid[c] <= price'
<1>1. c \in Companies /\ bid[c] \in Nat /\ budget[c] \in Int
  BY Amounts DEF TypeOK
<1>2. WinningBid \in Nat /\ \A d \in Affordable : bid[d] <= WinningBid
  BY EngineAssumption, WinningBidTops
<1>3. price' = IF WinningBid > top THEN WinningBid ELSE top
  BY DEF Decide, Larger
<1>4. CASE bid[c] = 0
  BY EngineAssumption, <1>1, <1>2, <1>3, <1>4
<1>5. CASE bid[c] # 0
  <2>1. c \in Affordable
    BY <1>1, <1>5 DEF Affordable
  <2> QED BY EngineAssumption, <1>1, <1>2, <1>3, <2>1
<1> QED BY <1>4, <1>5

\* A company that leads can pay, and owes what it bid.
LEMMA WinInd ==
  ASSUME NEW w \in Companies, NEW top \in 0 .. MaxMarket,
         IndInv, CompanyWins(w, top)
  PROVE  IndInv'
<1> USE EngineAssumption DEF IndInv
<1>1. /\ Decide(top) /\ Leads(w) /\ bid[w] >= top /\ winner' = w
      /\ budget' = [budget EXCEPT ![w] = @ - bid[w]]
  BY DEF CompanyWins
<1>2. w \in answered /\ budget[w] >= bid[w] /\ bid[w] > 0
  BY <1>1 DEF Leads, Affordable
<1>3. TypeOK'
  <2>1. budget' \in [Companies -> Int]
    BY <1>1, Amounts DEF TypeOK
  <2> QED BY <1>1, <2>1, DecideTypes
<1>4. /\ phase = "bidding" /\ winner = 0 /\ asked = {}
      /\ phase' = "settled" /\ pending' = answered
      /\ UNCHANGED <<asked, answered, bid, spend, shown, dayStart>>
  BY <1>1 DEF Decide, AllBidsIn, ToNotify, Decided, storeVars
<1>5. ASSUME NEW c \in Companies
      PROVE  /\ Owed(c) = 0 /\ budget'[c] + Owed(c)' = budget[c]
             /\ budget'[c] >= 0
  <2>1. Owed(c) = 0 /\ Owed(c)' = IF w = c THEN bid[c] ELSE 0
    BY <1>1, <1>4, Amounts DEF Owed
  <2>2. budget'[c] = IF w = c THEN budget[c] - bid[c] ELSE budget[c]
    BY <1>1 DEF TypeOK
  <2>3. budget[c] >= 0
    BY DEF WithinDailyBudget
  <2> QED BY <1>2, <2>1, <2>2, <2>3, Amounts
<1>6. ASSUME NEW c \in Companies
      PROVE  /\ budget'[c] \in Int /\ Owed(c)' \in Nat
             /\ budget'[c] + (spend'[c] - dayStart'[c]) + Owed(c)' = DailyBudget[c]
             /\ shown'[c] \in 0 .. budget'[c] + Owed(c)'
             /\ spend'[c] # dayStart'[c] => shown'[c] = budget'[c] + Owed(c)'
  <2>1. budget'[c] \in Int /\ Owed(c)' \in Nat
    BY <1>1, <1>4, Amounts DEF Owed, TypeOK
  <2>2. /\ budget[c] + (spend[c] - dayStart[c]) = DailyBudget[c]
        /\ shown[c] \in 0 .. budget[c]
        /\ spend[c] # dayStart[c] => shown[c] = budget[c]
    BY <1>5, Amounts DEF WithinDailyBudget, ShownIsAfterLastWin
  <2> QED BY <1>4, <1>5, <2>1, <2>2, Amounts
<1>7. WithinDailyBudget' /\ DaySpendNatural' /\ ShownIsAfterLastWin'
  BY <1>4, <1>5, <1>6 DEF WithinDailyBudget, DaySpendNatural, ShownIsAfterLastWin
<1>8. Decided'
  <2>1. price' = bid[w]
    <3>1. WinningBid = bid[w] /\ price' = Larger(WinningBid, top)
      BY <1>1, LeaderIsWinner DEF Decide
    <3> QED BY <1>1, <3>1, Amounts DEF Larger
  <2>2. ASSUME NEW c \in answered, bid[c] <= budget'[c] + Owed(c)' PROVE bid[c] <= price'
    <3>1. c \in Companies
      BY DEF TypeOK
    <3>2. bid[c] <= budget[c]
      BY <1>5, <2>2, <3>1
    <3> QED BY <1>1, <3>2, PriceTops
  <2> QED BY <1>1, <1>2, <1>4, <2>1, <2>2 DEF Decided
<1> QED BY <1>3, <1>7, <1>8

\* When the market wins, or no one, no money moves.
LEMMA NoWinInd ==
  ASSUME NEW top \in 0 .. MaxMarket, IndInv, NoCompanyWins(top)
  PROVE  IndInv'
<1> USE EngineAssumption DEF IndInv
<1>1. Decide(top) /\ budget' = budget /\ winner' = 0
  BY DEF NoCompanyWins
<1>2. TypeOK'
  <2>1. budget' \in [Companies -> Int]
    BY <1>1 DEF TypeOK
  <2> QED BY <1>1, <2>1, DecideTypes
<1>3. /\ winner = 0 /\ asked = {} /\ phase' = "settled" /\ pending' = answered
      /\ UNCHANGED <<asked, answered, bid, spend, shown, dayStart>>
  BY <1>1 DEF Decide, AllBidsIn, ToNotify, Decided, storeVars
<1>4. ASSUME NEW c \in Companies PROVE Owed(c) = 0 /\ Owed(c)' = 0
  BY <1>1, <1>3, Amounts DEF Owed
<1>5. WithinDailyBudget' /\ DaySpendNatural' /\ ShownIsAfterLastWin'
  BY <1>1, <1>3, <1>4 DEF WithinDailyBudget, DaySpendNatural, ShownIsAfterLastWin
<1>6. ASSUME NEW c \in answered, bid[c] <= budget'[c] + Owed(c)' PROVE bid[c] <= price'
  <2>1. c \in Companies
    BY DEF TypeOK
  <2>2. bid[c] <= budget[c]
    BY <1>1, <1>4, <1>6, <2>1, Amounts
  <2> QED BY <1>1, <2>2, PriceTops
<1>7. Decided'
  BY <1>1, <1>3, <1>6 DEF Decided
<1> QED BY <1>2, <1>5, <1>7

\* A notice changes the bidder's counters and nothing of the engine's.
LEMMA NoticeInd ==
  ASSUME NEW c \in Companies, IndInv, NoticeArrives(c) \/ NoticeLost(c)
  PROVE  IndInv'
<1> USE EngineAssumption DEF IndInv
<1>1. NextNotice(c)
  BY DEF NoticeArrives, NoticeLost
<1>2. /\ pending' = pending \ {c} /\ c \in pending
      /\ UNCHANGED <<counter, phase, budget, paced, asked, answered, bid,
                     winner, price, storeVars, dayStart>>
  BY <1>1 DEF NextNotice
<1>3. /\ toldWon' \in [Companies -> Nat] /\ toldLost' \in [Companies -> Nat]
      /\ toldProfit' \in [Companies -> Nat] /\ toldClearing' \in [Companies -> Nat]
  <2>1. CASE NoticeLost(c)
    BY <2>1 DEF NoticeLost, toldVars, TypeOK
  <2>2. CASE NoticeArrives(c)
    <3>1. Larger(ImpressionValue - bid[c], 0) \in Nat
      BY Amounts DEF Larger
    <3> QED
      BY <2>2, <3>1, Amounts DEF NoticeArrives, CountWin, CountLoss, TypeOK
  <2> QED BY <2>1, <2>2
<1>4. TypeOK'
  BY <1>2, <1>3 DEF TypeOK, storeVars
<1>5. \A d \in Companies : Owed(d)' = Owed(d)
  BY <1>2 DEF Owed
<1>6. WithinDailyBudget' /\ DaySpendNatural' /\ ShownIsAfterLastWin'
  BY <1>2, <1>5
  DEF WithinDailyBudget, DaySpendNatural, ShownIsAfterLastWin, storeVars
<1>7. Decided'
  <2>1. phase = "settled"
    BY <1>2 DEF Decided
  <2>2. ASSUME NEW d \in answered PROVE Owed(d)' = Owed(d)
    BY <1>5 DEF TypeOK
  <2> QED BY <1>2, <2>1, <2>2 DEF Decided
<1> QED BY <1>4, <1>6, <1>7

\* The record turns what the winner owes into spend.
LEMMA RecordInd ==
  ASSUME IndInv, RecordAuction
  PROVE  IndInv'
<1> USE EngineAssumption DEF IndInv
<1>1. TypeOK'
  <2>1. auctions' \in Nat /\ clearing' \in Nat /\ winner' = 0 /\ phase' = "idle"
    BY DEF TypeOK, RecordAuction
  <2>2. /\ bids' \in [Companies -> Nat] /\ noBid' \in [Companies -> Nat]
        /\ won' \in [Companies -> Nat] /\ lost' \in [Companies -> Nat]
    BY DEF TypeOK, RecordAuction
  <2>3. /\ spend' \in [Companies -> Nat] /\ profit' \in [Companies -> Int]
        /\ shown' \in [Companies -> Int]
    <3>1. /\ spend' = [c \in Companies |-> IF c = winner THEN spend[c] + bid[c] ELSE spend[c]]
          /\ profit' = [c \in Companies |->
                IF c = winner THEN profit[c] + (ImpressionValue - bid[c]) ELSE profit[c]]
          /\ shown' = [c \in Companies |-> IF c = winner THEN budget[c] ELSE shown[c]]
      BY DEF RecordAuction, ShownAfter
    <3>2. \A c \in Companies : profit[c] \in Int
      BY DEF TypeOK
    <3> QED BY <3>1, <3>2, Amounts
  <2>4. UNCHANGED <<counter, budget, paced, asked, answered, bid, price, pending,
                    toldVars, dayStart>>
    BY DEF RecordAuction
  <2> QED BY <2>1, <2>2, <2>3, <2>4 DEF TypeOK, toldVars
<1>2. /\ winner' = 0 /\ phase' = "idle" /\ pending = {} /\ phase = "settled"
      /\ UNCHANGED <<budget, asked, answered, bid, price, pending, dayStart>>
  BY DEF RecordAuction
<1>3. ASSUME NEW c \in Companies
      PROVE  /\ spend'[c] = spend[c] + Owed(c)
             /\ shown'[c] = IF c = winner THEN budget[c] ELSE shown[c]
             /\ Owed(c)' = 0
             /\ c = winner => Owed(c) > 0
             /\ c # winner => Owed(c) = 0
  <2>1. /\ spend'[c] = IF c = winner THEN spend[c] + bid[c] ELSE spend[c]
        /\ shown'[c] = IF c = winner THEN budget[c] ELSE shown[c]
    BY DEF RecordAuction, ShownAfter
  <2>2. Owed(c)' = 0
    BY <1>2, Amounts DEF Owed
  <2>3. c = winner => bid[c] > 0
    BY Amounts DEF Decided
  <2> QED BY <2>1, <2>2, <2>3, Amounts DEF Owed
<1>4. ASSUME NEW c \in Companies
      PROVE  /\ budget'[c] >= 0
             /\ budget'[c] + (spend'[c] - dayStart'[c]) + Owed(c)' = DailyBudget[c]
             /\ dayStart'[c] <= spend'[c]
             /\ shown'[c] \in 0 .. budget'[c] + Owed(c)'
             /\ spend'[c] # dayStart'[c] => shown'[c] = budget'[c] + Owed(c)'
  <2>1. /\ budget[c] >= 0 /\ budget[c] + (spend[c] - dayStart[c]) + Owed(c) = DailyBudget[c]
        /\ dayStart[c] <= spend[c]
        /\ shown[c] \in 0 .. budget[c] + Owed(c)
        /\ spend[c] # dayStart[c] => shown[c] = budget[c] + Owed(c)
    BY DEF WithinDailyBudget, DaySpendNatural, ShownIsAfterLastWin
  <2>2. CASE c = winner
    BY <1>2, <1>3, <2>1, <2>2, Amounts
  <2>3. CASE c # winner
    BY <1>2, <1>3, <2>1, <2>3, Amounts
  <2> QED BY <2>2, <2>3
<1>5. Decided'
  BY <1>2 DEF Decided
<1> QED
  BY <1>1, <1>4, <1>5 DEF WithinDailyBudget, DaySpendNatural, ShownIsAfterLastWin

\* Every step keeps the invariant.
LEMMA StepInd == IndInv /\ [Next]_vars => IndInv'
<1> SUFFICES ASSUME IndInv, [Next]_vars PROVE IndInv'
  OBVIOUS
<1>1. CASE BeginAuction
  BY <1>1, BeginInd
<1>2. ASSUME NEW c \in Companies, BidArrives(c) \/ BidMissed(c) PROVE IndInv'
  BY <1>2, BidInd
<1>3. ASSUME NEW top \in 0 .. MaxMarket, NEW c \in Companies, CompanyWins(c, top)
      PROVE IndInv'
  BY <1>3, WinInd
<1>4. ASSUME NEW top \in 0 .. MaxMarket, NoCompanyWins(top) PROVE IndInv'
  BY <1>4, NoWinInd
<1>5. ASSUME NEW c \in Companies, NoticeArrives(c) \/ NoticeLost(c) PROVE IndInv'
  BY <1>5, NoticeInd
<1>6. CASE RecordAuction
  BY <1>6, RecordInd
<1>7. CASE UNCHANGED vars
  <2>1. \A c \in Companies : Owed(c)' = Owed(c)
    BY <1>7 DEF vars, engineVars, outcomeVars, Owed
  <2>2. \A c \in answered : Owed(c)' = Owed(c)
    BY <2>1 DEF IndInv, TypeOK
  <2> QED
    BY <1>7, <2>1, <2>2 DEF vars, engineVars, outcomeVars, storeVars, toldVars,
        IndInv, TypeOK, WithinDailyBudget, DaySpendNatural, ShownIsAfterLastWin, Decided
<1> QED BY <1>1, <1>2, <1>3, <1>4, <1>5, <1>6, <1>7 DEF Next, Settle

\* Every reachable state satisfies the inductive invariant.
THEOREM Inductive == Spec => []IndInv
  BY InitInd, StepInd, PTL DEF Spec

\* The engine, the store and the bidders' counters keep their types.
THEOREM AuctionTypes == Spec => []TypeOK
<1>1. IndInv => TypeOK
  BY DEF IndInv
<1> QED BY <1>1, Inductive, PTL

\* For any companies, budgets, bids and day lengths no company ever spends
\* more than its daily budget in a day, and the engine's budgets and the
\* scoreboard's spend tell the same story up to the auction that is being
\* settled (engine.go:180-278, 326).
THEOREM NoOneOverspends == Spec => []WithinDailyBudget
<1>1. IndInv => WithinDailyBudget
  BY DEF IndInv
<1> QED BY <1>1, Inductive, PTL

\* The budget /stats shows is the one after the company's last recorded win:
\* once it has won that day, too high by exactly the price of the auction it
\* has just won while that is being notified, and right otherwise
\* (engine.go:276, 314, 326; stats.go:331).
THEOREM ShownLagsOneAuction == Spec => []ShownIsAfterLastWin
<1>1. IndInv => ShownIsAfterLastWin
  BY DEF IndInv
<1> QED BY <1>1, Inductive, PTL

\* The auction is first-price for any bids: the winner that is recorded has
\* the highest bid that can be paid and is charged exactly that, and the price
\* logged is at least every bid that could have been paid (engine.go:239-326).
THEOREM FirstPrice == Spec => HighestAffordableBidWins
<1> DEFINE Fair(c) ==
       /\ won'[c] # won[c] =>
            /\ spend'[c] = spend[c] + bid[c]
            /\ clearing' = bid[c]
            /\ bid[c] > 0
       /\ won'[c] = won[c] => spend'[c] = spend[c]
       /\ c \in answered /\ bid[c] <= budget[c] + (spend'[c] - spend[c])
            => bid[c] <= clearing'
<1>1. IndInv /\ [Next]_vars => [auctions' # auctions => \A c \in Companies : Fair(c)]_vars
  <2> SUFFICES ASSUME IndInv, Next, auctions' # auctions, NEW c \in Companies
               PROVE  Fair(c)
    OBVIOUS
  <2> USE EngineAssumption DEF IndInv
  <2>1. RecordAuction
    BY DEF Next, Settle, BeginAuction, BidArrives, BidMissed, CompanyWins,
        NoCompanyWins, Decide, NoticeArrives, NoticeLost, NextNotice, storeVars
  <2>2. /\ phase = "settled" /\ clearing' = price
        /\ won'[c] = IF c = winner THEN won[c] + 1 ELSE won[c]
        /\ spend'[c] = IF c = winner THEN spend[c] + bid[c] ELSE spend[c]
    BY <2>1 DEF RecordAuction
  <2>3. spend'[c] - spend[c] = Owed(c)
    BY <2>2, Amounts DEF Owed
  <2>4. c \in answered /\ bid[c] <= budget[c] + Owed(c) => bid[c] <= price
    BY <2>2 DEF Decided
  <2>5. c = winner => bid[c] > 0 /\ price = bid[c]
    BY Amounts DEF Decided
  <2>6. CASE c = winner
    BY <2>2, <2>3, <2>4, <2>5, <2>6, Amounts
  <2>7. CASE c # winner
    BY <2>2, <2>3, <2>4, <2>7, Amounts
  <2> QED BY <2>6, <2>7
<1> QED BY <1>1, Inductive, PTL DEF Spec, HighestAffordableBidWins

-----------------------------------------------------------------------------
(* Who sits out, and whether the scoreboard adds up *)

\* The companies' wins together.
SumOf(g, S) == MapThenSumSet(LAMBDA i : g[i], S)
WinsAddUp == SumOf(won, Companies) \in Int /\ SumOf(won, Companies) <= auctions

\* Half of OnlyTheAheadSitOut is about a whole auction, the other half about
\* the spend, which WithinDailyBudget ties to the budgets pacing looks at.
Books == IndInv /\ OnlyTheAheadSitOut /\ RowsAddUp /\ WinsAddUp

\* Whoever sits out is ahead of its share of the day by the scoreboard too.
LEMMA PacedAreAhead ==
  ASSUME IndInv, BeginAuction
  PROVE  OnlyTheAheadSitOut'
<1> USE EngineAssumption DEF IndInv
<1>1. PICK sitOut \in SUBSET {c \in Companies : AheadOfPace(c)} :
         paced' = sitOut /\ asked' = Companies \ sitOut
  BY DEF BeginAuction
<1>2. answered' = {} /\ counter' = counter + 1 /\ spend' = spend
  BY DEF BeginAuction, storeVars
<1>3. ASSUME NEW c \in paced'
      PROVE  /\ c \notin asked' \cup answered'
             /\ (spend'[c] - dayStart'[c]) * DayAuctions
                   > DailyBudget[c] * ((counter' - 1) % DayAuctions)
  <2>1. c \in Companies /\ AheadOfPace(c)
    BY <1>1, <1>3
  <2>2. DayAuctions > 0 /\ Pos # 0 /\ counter \in Nat /\ DailyBudget[c] \in Nat
    BY <2>1 DEF AheadOfPace, TypeOK
  <2>3. ~NewDay
    BY <2>2 DEF NewDay
  <2>4. dayStart' = dayStart
    BY <2>3 DEF BeginAuction
  <2>5. spend[c] \in Int /\ dayStart[c] \in Int /\ budget[c] \in Int
    BY <2>1 DEF TypeOK
  <2>6. spend[c] - dayStart[c] = DailyBudget[c] - budget[c]
    <3>1. Owed(c) = 0
      BY <2>1, Amounts DEF Owed, Decided, BeginAuction
    <3> QED BY <2>1, <2>2, <2>5, <3>1 DEF WithinDailyBudget
  <2>7. (counter' - 1) % DayAuctions = Pos
    <3>1. counter' - 1 = counter
      BY <1>2, <2>2
    <3> QED BY <3>1 DEF Pos
  <2>8. (DailyBudget[c] - budget[c]) * DayAuctions > DailyBudget[c] * Pos
    BY <2>1 DEF AheadOfPace
  <2>9. (spend'[c] - dayStart'[c]) * DayAuctions
          > DailyBudget[c] * ((counter' - 1) % DayAuctions)
    BY <1>2, <2>4, <2>6, <2>7, <2>8
  <2> QED BY <1>1, <1>2, <1>3, <2>9
<1> QED BY <1>3 DEF OnlyTheAheadSitOut

\* Recording an auction keeps every row right, since only a bidder wins.
LEMMA RecordAddsUp ==
  ASSUME TypeOK, RowsAddUp, Decided, RecordAuction
  PROVE  RowsAddUp'
<1> SUFFICES ASSUME NEW c \in Companies
             PROVE  /\ bids'[c] = won'[c] + lost'[c]
                    /\ bids'[c] + noBid'[c] <= auctions'
                    /\ profit'[c] = won'[c] * ImpressionValue - spend'[c]
  BY DEF RowsAddUp
<1>1. /\ auctions \in Nat /\ bids[c] \in Nat /\ noBid[c] \in Nat /\ won[c] \in Nat
      /\ lost[c] \in Nat /\ profit[c] \in Int /\ spend[c] \in Nat /\ bid[c] \in Nat
      /\ ImpressionValue \in Nat
  BY EngineAssumption DEF TypeOK
<1>2. /\ auctions' = auctions + 1
      /\ noBid'[c] = IF c \in paced \/ c \in answered THEN noBid[c] ELSE noBid[c] + 1
      /\ bids'[c] = IF c \in answered THEN bids[c] + 1 ELSE bids[c]
      /\ won'[c] = IF c = winner THEN won[c] + 1 ELSE won[c]
      /\ lost'[c] = IF c \in answered /\ c # winner THEN lost[c] + 1 ELSE lost[c]
      /\ profit'[c] = IF c = winner THEN profit[c] + (ImpressionValue - bid[c]) ELSE profit[c]
      /\ spend'[c] = IF c = winner THEN spend[c] + bid[c] ELSE spend[c]
  BY DEF RecordAuction, Losers
<1>3. bids[c] = won[c] + lost[c] /\ bids[c] + noBid[c] <= auctions
  BY DEF RowsAddUp
<1>4. bids'[c] = won'[c] + lost'[c] /\ bids'[c] + noBid'[c] <= auctions'
  <2>1. CASE c = winner
    <3>1. c \in answered
      BY <2>1, Amounts DEF Decided
    <3>2. /\ auctions' = auctions + 1 /\ noBid'[c] = noBid[c] /\ bids'[c] = bids[c] + 1
          /\ won'[c] = won[c] + 1 /\ lost'[c] = lost[c]
      BY <1>2, <2>1, <3>1
    <3> QED BY <1>1, <1>3, <3>2
  <2>2. CASE c # winner
    BY <1>1, <1>2, <1>3, <2>2
  <2> QED BY <2>1, <2>2
<1>5. profit'[c] = won'[c] * ImpressionValue - spend'[c]
  <2>1. (won[c] + 1) * ImpressionValue = won[c] * ImpressionValue + ImpressionValue
    BY <1>1
  <2>2. won[c] * ImpressionValue \in Int
    BY <1>1
  <2>3. profit[c] = won[c] * ImpressionValue - spend[c]
    BY DEF RowsAddUp
  <2> QED BY <1>1, <1>2, <2>1, <2>2, <2>3
<1> QED BY <1>4, <1>5

-----------------------------------------------------------------------------
(* The sum over the companies.  MapThenSumSet takes one element after the     *)
(* other from the set; what it computes is shown by induction on the number   *)
(* of elements, as the absence of a least counterexample.                     *)

First(s) == CHOOSE x \in s : TRUE
Added(f, g, s) == IF s = {} THEN 0 ELSE g[First(s)] + f[s \ {First(s)}]
SumsUp(f, g, S) == f = [s \in SUBSET S |-> Added(f, g, s)]

\* What is left when one element is taken is a smaller subset.
LEMMA OneTaken ==
  ASSUME NEW S, IsFiniteSet(S), NEW s \in SUBSET S, s # {}
  PROVE  /\ First(s) \in s
         /\ s \ {First(s)} \in SUBSET S
         /\ Cardinality(s) \in Nat /\ Cardinality(s \ {First(s)}) \in Nat
         /\ Cardinality(s \ {First(s)}) < Cardinality(s)
<1> DEFINE x == First(s)
<1>1. x \in s
  BY DEF First
<1> HIDE DEF x
<1>2. IsFiniteSet(s) /\ IsFiniteSet(s \ {x})
  BY FS_Subset
<1>3. Cardinality(s \ {x}) = Cardinality(s) - 1
  BY <1>1, <1>2, FS_RemoveElement
<1>4. /\ s \ {x} \in SUBSET S
      /\ Cardinality(s) \in Nat /\ Cardinality(s \ {x}) \in Nat
      /\ Cardinality(s \ {x}) < Cardinality(s)
  BY <1>2, <1>3, FS_CardinalityType
<1> QED BY <1>1, <1>4 DEF x

\* The recursion of MapThenSumSet has a solution on every finite set.
LEMMA SumExists ==
  ASSUME NEW S, IsFiniteSet(S), NEW g \in [S -> Int]
  PROVE  \E f : SumsUp(f, g, S)
<1> DEFINE Upto(n) == {s \in SUBSET S : Cardinality(s) <= n}
           Solved(n) == \E f \in [Upto(n) -> Int] : \A s \in Upto(n) : f[s] = Added(f, g, s)
           Bad == {n \in Nat : ~Solved(n)}
<1>1. \A s \in SUBSET S : Cardinality(s) \in Nat /\ (Cardinality(s) = 0 => s = {})
  BY FS_Subset, FS_CardinalityType, FS_EmptySet
<1>2. Solved(0)
  <2> DEFINE f == [s \in Upto(0) |-> 0]
  <2>1. \A s \in Upto(0) : s = {}
    BY <1>1
  <2>2. f \in [Upto(0) -> Int] /\ \A s \in Upto(0) : f[s] = Added(f, g, s)
    BY <2>1 DEF Added
  <2> QED BY <2>2
<1>3. ASSUME NEW n \in Nat, Solved(n) PROVE Solved(n + 1)
  <2>1. PICK f \in [Upto(n) -> Int] : \A s \in Upto(n) : f[s] = Added(f, g, s)
    BY <1>3
  <2> DEFINE h == [s \in Upto(n + 1) |-> Added(f, g, s)]
  <2>2. ASSUME NEW s \in Upto(n + 1), s # {}
        PROVE  s \ {First(s)} \in Upto(n) /\ First(s) \in S
    <3>1. /\ First(s) \in s
          /\ s \ {First(s)} \in SUBSET S
          /\ Cardinality(s) \in Nat /\ Cardinality(s \ {First(s)}) \in Nat
          /\ Cardinality(s \ {First(s)}) < Cardinality(s)
      BY <2>2, OneTaken
    <3> QED BY <3>1
  <2>3. \A s \in Upto(n) : s \in Upto(n + 1) /\ h[s] = f[s]
    <3>1. \A s \in Upto(n) : s \in Upto(n + 1)
      BY <1>1
    <3> QED BY <2>1, <3>1
  <2>4. h \in [Upto(n + 1) -> Int]
    <3>1. ASSUME NEW s \in Upto(n + 1) PROVE Added(f, g, s) \in Int
      <4>1. CASE s = {}
        BY <4>1 DEF Added
      <4>2. CASE s # {}
        <5>1. f[s \ {First(s)}] \in Int /\ g[First(s)] \in Int
          BY <2>2, <4>2
        <5> QED BY <4>2, <5>1 DEF Added
      <4> QED BY <4>1, <4>2
    <3> QED BY <3>1
  <2>5. ASSUME NEW s \in Upto(n + 1) PROVE h[s] = Added(h, g, s)
    <3>1. CASE s = {}
      BY <3>1 DEF Added
    <3>2. CASE s # {}
      <4>1. h[s \ {First(s)}] = f[s \ {First(s)}]
        BY <2>2, <2>3, <3>2
      <4> QED BY <3>2, <4>1 DEF Added
    <3> QED BY <3>1, <3>2
  <2> HIDE DEF h
  <2> QED BY <2>4, <2>5
<1> HIDE DEF Solved
<1>4. \A n \in Nat : Solved(n)
  <2> SUFFICES ASSUME Bad # {} PROVE FALSE
    OBVIOUS
  <2>1. PICK n \in Bad : \A m \in Bad : n <= m
    BY LeastNatural
  <2>2. n - 1 \in Nat /\ n - 1 \notin Bad
    BY <1>2, <2>1
  <2>3. Solved((n - 1) + 1)
    BY <1>3, <2>2
  <2> QED BY <2>3
<1>5. Upto(Cardinality(S)) = SUBSET S /\ Cardinality(S) \in Nat
  BY FS_Subset, FS_CardinalityType
<1>6. PICK f \in [SUBSET S -> Int] : \A s \in SUBSET S : f[s] = Added(f, g, s)
  BY <1>4, <1>5 DEF Solved
<1>7. f = [s \in SUBSET S |-> Added(f, g, s)]
  BY <1>6
<1> QED BY <1>7 DEF SumsUp

\* The sum is the value at the whole set of a solution of the recursion.
LEMMA SumUnfolds ==
  ASSUME NEW S, IsFiniteSet(S), NEW g \in [S -> Int]
  PROVE  \E f : SumsUp(f, g, S) /\ SumOf(g, S) = f[S]
<1> DEFINE F == CHOOSE f : SumsUp(f, g, S)
<1>1. SumsUp(F, g, S)
  BY SumExists
<1>2. SumOf(g, S) = F[S]
  BY DEF SumOf, MapThenSumSet, MapThenFoldSet, SumsUp, Added, First
<1> QED BY <1>1, <1>2

\* Raising one summand by d raises the sum by d.
LEMMA SumRaised ==
  ASSUME NEW S, IsFiniteSet(S), NEW g \in [S -> Int], NEW h \in [S -> Int],
         NEW c \in S, NEW d \in Int,
         \A i \in S : h[i] = IF i = c THEN g[i] + d ELSE g[i]
  PROVE  SumOf(g, S) \in Int /\ SumOf(h, S) = SumOf(g, S) + d
<1>1. PICK f : SumsUp(f, g, S) /\ SumOf(g, S) = f[S]
  BY SumUnfolds
<1>2. PICK k : SumsUp(k, h, S) /\ SumOf(h, S) = k[S]
  BY SumUnfolds
<1> DEFINE Fits(s) == f[s] \in Int /\ k[s] = f[s] + (IF c \in s THEN d ELSE 0)
           Bad == {n \in Nat : \E s \in SUBSET S : Cardinality(s) = n /\ ~Fits(s)}
<1>3. ASSUME NEW s \in SUBSET S, s = {} \/ Fits(s \ {First(s)}) PROVE Fits(s)
  <2>1. f[s] = Added(f, g, s) /\ k[s] = Added(k, h, s)
    BY <1>1, <1>2 DEF SumsUp
  <2>2. CASE s = {}
    BY <2>1, <2>2 DEF Added
  <2>3. CASE s # {}
    <3>1. First(s) \in S /\ First(s) \in s
      BY <2>3 DEF First
    <3>2. g[First(s)] \in Int /\ h[First(s)] = IF First(s) = c THEN g[First(s)] + d ELSE g[First(s)]
      BY <3>1
    <3>3. f[s] = g[First(s)] + f[s \ {First(s)}] /\ k[s] = h[First(s)] + k[s \ {First(s)}]
      BY <2>1, <2>3 DEF Added
    <3>4. CASE First(s) = c
      BY <1>3, <2>3, <3>1, <3>2, <3>3, <3>4
    <3>5. CASE First(s) # c
      <4>1. c \in s <=> c \in s \ {First(s)}
        BY <3>5
      <4> QED BY <1>3, <2>3, <3>2, <3>3, <3>5, <4>1
    <3> QED BY <3>4, <3>5
  <2> QED BY <2>2, <2>3
<1> HIDE DEF Fits
<1>4. \A s \in SUBSET S : Fits(s)
  <2>0. \A s \in SUBSET S : Cardinality(s) \in Nat
    BY FS_Subset, FS_CardinalityType
  <2> SUFFICES ASSUME Bad # {} PROVE FALSE
    BY <2>0
  <2>1. PICK n \in Bad : \A m \in Bad : n <= m
    BY LeastNatural
  <2>2. PICK s \in SUBSET S : Cardinality(s) = n /\ ~Fits(s)
    BY <2>1
  <2>3. s # {} /\ ~Fits(s \ {First(s)})
    BY <1>3, <2>2
  <2>4. /\ s \ {First(s)} \in SUBSET S
        /\ Cardinality(s \ {First(s)}) \in Nat /\ Cardinality(s \ {First(s)}) < n
    BY <2>2, <2>3, OneTaken
  <2>5. Cardinality(s \ {First(s)}) \in Bad
    BY <2>3, <2>4
  <2> QED BY <2>1, <2>4, <2>5
<1>5. Fits(S)
  BY <1>4
<1> QED BY <1>1, <1>2, <1>5 DEF Fits

\* Summands that are all 0 add up to 0.
LEMMA SumOfZeros ==
  ASSUME NEW S, IsFiniteSet(S), NEW g \in [S -> Int], \A i \in S : g[i] = 0
  PROVE  SumOf(g, S) = 0
<1>1. PICK f : SumsUp(f, g, S) /\ SumOf(g, S) = f[S]
  BY SumUnfolds
<1> DEFINE Bad == {n \in Nat : \E s \in SUBSET S : Cardinality(s) = n /\ f[s] # 0}
<1>2. ASSUME NEW s \in SUBSET S, s = {} \/ f[s \ {First(s)}] = 0 PROVE f[s] = 0
  BY <1>1, <1>2 DEF SumsUp, Added, First
<1>3. \A s \in SUBSET S : Cardinality(s) \in Nat
  BY FS_Subset, FS_CardinalityType
<1>4. Bad = {}
  <2> SUFFICES ASSUME Bad # {} PROVE FALSE
    OBVIOUS
  <2>1. PICK n \in Bad : \A m \in Bad : n <= m
    BY LeastNatural
  <2>2. PICK s \in SUBSET S : Cardinality(s) = n /\ f[s] # 0
    BY <2>1
  <2>3. s # {} /\ f[s \ {First(s)}] # 0
    BY <1>2, <2>2
  <2>4. /\ s \ {First(s)} \in SUBSET S
        /\ Cardinality(s \ {First(s)}) \in Nat /\ Cardinality(s \ {First(s)}) < n
    BY <2>2, <2>3, OneTaken
  <2>5. Cardinality(s \ {First(s)}) \in Bad
    BY <2>3, <2>4
  <2>6. n \in Nat
    BY <2>1
  <2> HIDE DEF Bad
  <2>7. n <= Cardinality(s \ {First(s)})
    BY <2>1, <2>5
  <2> QED BY <2>4, <2>6, <2>7
<1> QED BY <1>1, <1>3, <1>4

\* An auction has at most one winner.
LEMMA RecordCountsWin ==
  ASSUME TypeOK, WinsAddUp, RecordAuction
  PROVE  WinsAddUp'
<1>1. /\ won \in [Companies -> Int] /\ won' \in [Companies -> Int]
      /\ \A i \in Companies : won'[i] = IF i = winner THEN won[i] + 1 ELSE won[i]
      /\ auctions' = auctions + 1 /\ auctions \in Nat
  BY DEF TypeOK, RecordAuction
<1>2. CASE winner \notin Companies
  <2>1. won' = won
    BY <1>1, <1>2
  <2> QED BY <1>1, <2>1 DEF WinsAddUp
<1>3. CASE winner \in Companies
  <2>1. IsFiniteSet(Companies)
    BY EngineAssumption, FS_Interval DEF Companies
  <2>2. SumOf(won', Companies) = SumOf(won, Companies) + 1
    BY <1>1, <1>3, <2>1, SumRaised
  <2> QED BY <1>1, <2>2 DEF WinsAddUp
<1> QED BY <1>2, <1>3

\* Nobody has sat out, and the scoreboard is empty.
LEMMA BooksInit == Init => Books
<1> SUFFICES ASSUME Init PROVE Books
  OBVIOUS
<1>1. OnlyTheAheadSitOut
  BY DEF Init, OnlyTheAheadSitOut
<1>2. RowsAddUp
  <2>1. 0 * ImpressionValue - 0 = 0
    BY EngineAssumption
  <2> QED BY <2>1 DEF Init, RowsAddUp, Zero
<1>3. WinsAddUp
  <2>1. IsFiniteSet(Companies) /\ Zero \in [Companies -> Int] /\ \A c \in Companies : Zero[c] = 0
    BY EngineAssumption, FS_Interval DEF Companies, Zero
  <2>2. SumOf(Zero, Companies) = 0
    BY <2>1, SumOfZeros
  <2>3. won = Zero /\ auctions = 0
    BY DEF Init
  <2> QED BY <2>2, <2>3 DEF WinsAddUp
<1> QED BY <1>1, <1>2, <1>3, InitInd DEF Books

\* Every step keeps the books.
LEMMA BooksStep == Books /\ [Next]_vars => Books'
<1> SUFFICES ASSUME Books, [Next]_vars PROVE Books'
  OBVIOUS
<1>0. IndInv /\ IndInv' /\ TypeOK
  BY StepInd DEF Books, IndInv
<1>1. CASE BeginAuction
  <2>1. OnlyTheAheadSitOut'
    BY <1>0, <1>1, PacedAreAhead
  <2>2. RowsAddUp' /\ WinsAddUp'
    BY <1>1 DEF Books, RowsAddUp, WinsAddUp, BeginAuction, storeVars
  <2> QED BY <1>0, <2>1, <2>2 DEF Books
<1>2. ASSUME NEW c \in Companies, BidArrives(c) \/ BidMissed(c) PROVE Books'
  <2>1. /\ UNCHANGED <<phase, paced, counter, dayStart>>
        /\ UNCHANGED storeVars
        /\ asked' \cup answered' \subseteq asked \cup answered
    BY <1>2 DEF BidArrives, BidMissed
  <2>2. OnlyTheAheadSitOut'
    BY <2>1 DEF Books, OnlyTheAheadSitOut, storeVars
  <2>3. RowsAddUp' /\ WinsAddUp'
    BY <2>1 DEF Books, RowsAddUp, WinsAddUp, storeVars
  <2> QED BY <1>0, <2>2, <2>3 DEF Books
<1>3. ASSUME phase' # "idle" => phase # "idle",
             UNCHANGED <<paced, counter, dayStart, asked, answered>>,
             UNCHANGED storeVars
      PROVE  Books'
  <2>1. OnlyTheAheadSitOut'
    BY <1>3 DEF Books, OnlyTheAheadSitOut, storeVars
  <2>2. RowsAddUp' /\ WinsAddUp'
    BY <1>3 DEF Books, RowsAddUp, WinsAddUp, storeVars
  <2> QED BY <1>0, <2>1, <2>2 DEF Books
<1>4. ASSUME NEW top \in 0 .. MaxMarket,
             NoCompanyWins(top) \/ \E c \in Companies : CompanyWins(c, top)
      PROVE  Books'
  BY <1>3, <1>4 DEF NoCompanyWins, CompanyWins, Decide, AllBidsIn
<1>5. ASSUME NEW c \in Companies, NoticeArrives(c) \/ NoticeLost(c) PROVE Books'
  BY <1>3, <1>5 DEF NoticeArrives, NoticeLost, NextNotice
<1>6. CASE RecordAuction
  <2>1. OnlyTheAheadSitOut'
    BY <1>6 DEF RecordAuction, OnlyTheAheadSitOut
  <2>2. RowsAddUp' /\ WinsAddUp'
    BY <1>0, <1>6, RecordAddsUp, RecordCountsWin DEF Books, IndInv
  <2> QED BY <1>0, <2>1, <2>2 DEF Books
<1>7. CASE UNCHANGED vars
  BY <1>3, <1>7 DEF vars, engineVars
<1> QED BY <1>1, <1>2, <1>4, <1>5, <1>6, <1>7 DEF Next, Settle

\* The books are kept throughout.
LEMMA BooksKept == Spec => []Books
  BY BooksInit, BooksStep, PTL DEF Spec

\* Pacing holds back only companies that have spent more than their even
\* share of the day, and asks and charges them nothing (engine.go:180-203),
\* for any budgets and any length of the day.
THEOREM PacingIsFair == Spec => []OnlyTheAheadSitOut
<1>1. Books => OnlyTheAheadSitOut
  BY DEF Books
<1> QED BY <1>1, BooksKept, PTL

\* The scoreboard adds up after any number of auctions, for any number of
\* companies (engine.go:286-294, stats.go:288-335): every row by itself, and
\* the companies' wins together against the auctions run.
THEOREM ScoreboardBalances == Spec => []ScoreboardAddsUp
<1>1. Books => ScoreboardAddsUp
  BY DEF Books, WinsAddUp, SumOf, ScoreboardAddsUp
<1> QED BY <1>1, BooksKept, PTL

-----------------------------------------------------------------------------
(* What the bidders have been told *)

\* A bidder is ahead of the scoreboard only by an outcome it has been sent.
Told ==
    \A c \in Companies :
        /\ toldWon[c] <= won[c] + (IF winner = c /\ c \notin pending THEN 1 ELSE 0)
        /\ toldLost[c] <= lost[c] +
              (IF phase = "settled" /\ c \in answered \ {winner} /\ c \notin pending
               THEN 1 ELSE 0)

\* Each notice is sent once, so that its company leaves pending as it counts.
LEMMA NoticeTold ==
  ASSUME IndInv, Told, NEW d \in Companies, NoticeArrives(d) \/ NoticeLost(d)
  PROVE  Told'
<1> SUFFICES ASSUME NEW c \in Companies
             PROVE  /\ toldWon'[c] <= won'[c] + (IF winner' = c /\ c \notin pending' THEN 1 ELSE 0)
                    /\ toldLost'[c] <= lost'[c] +
                         (IF phase' = "settled" /\ c \in answered' \ {winner'} /\ c \notin pending'
                          THEN 1 ELSE 0)
  BY DEF Told
<1>1. /\ d \in pending /\ pending' = pending \ {d}
      /\ UNCHANGED <<phase, answered, winner, won, lost>>
  BY DEF NoticeArrives, NoticeLost, NextNotice, storeVars
<1>2. phase = "settled" /\ d \in answered
  BY <1>1 DEF IndInv, Decided
<1>3. /\ toldWon[c] <= won[c] + (IF winner = c /\ c \notin pending THEN 1 ELSE 0)
      /\ toldLost[c] <= lost[c] +
           (IF phase = "settled" /\ c \in answered \ {winner} /\ c \notin pending
            THEN 1 ELSE 0)
  BY DEF Told
<1>4. \/ UNCHANGED <<toldWon, toldLost>>
      \/ winner = d /\ toldWon' = [toldWon EXCEPT ![d] = @ + 1] /\ UNCHANGED toldLost
      \/ winner # d /\ toldLost' = [toldLost EXCEPT ![d] = @ + 1] /\ UNCHANGED toldWon
  BY DEF NoticeArrives, NoticeLost, CountWin, CountLoss, toldVars
<1>5. toldWon \in [Companies -> Nat] /\ toldLost \in [Companies -> Nat] /\ TypeOK
  BY DEF IndInv, TypeOK
<1>6. CASE c # d
  <2>1. UNCHANGED <<toldWon[c], toldLost[c]>>
    BY <1>4, <1>5, <1>6
  <2> QED BY <1>1, <1>3, <1>6, <2>1
<1>7. CASE c = d
  <2>1. toldWon[c] <= won[c] /\ toldLost[c] <= lost[c]
    BY <1>1, <1>3, <1>5, <1>7, Amounts
  <2>2. CASE UNCHANGED <<toldWon, toldLost>>
    BY <1>1, <1>5, <2>1, <2>2, Amounts
  <2>3. CASE winner = d /\ toldWon' = [toldWon EXCEPT ![d] = @ + 1] /\ UNCHANGED toldLost
    <3>1. toldWon'[c] = toldWon[c] + 1 /\ toldLost'[c] = toldLost[c]
      BY <1>5, <1>7, <2>3
    <3> QED BY <1>1, <1>5, <1>7, <2>1, <2>3, <3>1, Amounts
  <2>4. CASE winner # d /\ toldLost' = [toldLost EXCEPT ![d] = @ + 1] /\ UNCHANGED toldWon
    <3>1. toldLost'[c] = toldLost[c] + 1 /\ toldWon'[c] = toldWon[c]
      BY <1>5, <1>7, <2>4
    <3> QED BY <1>1, <1>2, <1>5, <1>7, <2>1, <2>4, <3>1, Amounts
  <2> QED BY <1>4, <2>2, <2>3, <2>4
<1> QED BY <1>6, <1>7

\* The record counts what may have been told.
LEMMA RecordTold ==
  ASSUME IndInv, Told, RecordAuction
  PROVE  Told'
<1>1. winner' = 0 /\ phase' = "idle" /\ UNCHANGED <<toldWon, toldLost>>
  BY DEF RecordAuction, toldVars
<1>2. ASSUME NEW c \in Companies
      PROVE  /\ c # 0 /\ won'[c] \in Nat /\ lost'[c] \in Nat
             /\ toldWon[c] <= won'[c] /\ toldLost[c] <= lost'[c]
  <2>1. /\ won'[c] = IF c = winner THEN won[c] + 1 ELSE won[c]
        /\ lost'[c] = IF c \in answered \ {winner} THEN lost[c] + 1 ELSE lost[c]
    BY DEF RecordAuction, Losers
  <2>2. /\ toldWon[c] <= won[c] + (IF winner = c /\ c \notin pending THEN 1 ELSE 0)
        /\ toldLost[c] <= lost[c] +
             (IF phase = "settled" /\ c \in answered \ {winner} /\ c \notin pending
              THEN 1 ELSE 0)
    BY DEF Told
  <2>3. /\ won[c] \in Nat /\ lost[c] \in Nat /\ toldWon[c] \in Nat /\ toldLost[c] \in Nat
        /\ c # 0
    BY Amounts DEF IndInv
  <2> QED BY <2>1, <2>2, <2>3
<1> QED BY <1>1, <1>2 DEF Told

\* Every step keeps the bidders' counters behind.
LEMMA StepTold == IndInv /\ Told /\ [Next]_vars => Told'
<1> SUFFICES ASSUME IndInv, Told, [Next]_vars PROVE Told'
  OBVIOUS
<1>1. CASE BeginAuction
  <2>1. /\ winner = 0 /\ phase = "idle" /\ winner' = 0 /\ phase' = "bidding"
        /\ UNCHANGED <<won, lost, toldWon, toldLost>>
    BY <1>1 DEF BeginAuction, IndInv, Decided, storeVars, toldVars, outcomeVars
  <2> QED BY <2>1, Amounts DEF Told, IndInv
<1>2. ASSUME NEW c \in Companies, BidArrives(c) \/ BidMissed(c) PROVE Told'
  <2>1. phase = "bidding" /\ winner = 0
    BY <1>2 DEF BidArrives, BidMissed, IndInv, Decided
  <2>2. UNCHANGED <<phase, winner, won, lost, toldWon, toldLost>>
    BY <1>2 DEF BidArrives, BidMissed, storeVars, toldVars, outcomeVars
  <2> QED BY <2>1, <2>2, Amounts DEF Told, IndInv
<1>3. ASSUME NEW top \in 0 .. MaxMarket,
             NoCompanyWins(top) \/ \E c \in Companies : CompanyWins(c, top)
      PROVE  Told'
  <2>1. /\ phase = "bidding" /\ winner = 0
        /\ pending' = answered /\ answered' = answered
        /\ winner' \in answered \cup {0}
        /\ UNCHANGED <<won, lost, toldWon, toldLost>>
    BY <1>3 DEF NoCompanyWins, CompanyWins, Leads, Affordable, Decide, AllBidsIn,
        ToNotify, IndInv, Decided, storeVars, toldVars
  <2> QED BY <2>1, Amounts DEF Told, IndInv
<1>4. ASSUME NEW c \in Companies, NoticeArrives(c) \/ NoticeLost(c) PROVE Told'
  BY <1>4, NoticeTold
<1>5. CASE RecordAuction
  BY <1>5, RecordTold
<1>6. CASE UNCHANGED vars
  BY <1>6 DEF vars, engineVars, outcomeVars, storeVars, toldVars, Told
<1> QED BY <1>1, <1>2, <1>3, <1>4, <1>5, <1>6 DEF Next, Settle

\* No bidder counts an outcome twice, or one of an auction it took no part in:
\* whichever notices are lost, its counters are ahead of the scoreboard by at
\* most the auction being settled (engine.go:313-326, metrics.cpp:147-158).
THEOREM CountersLag == Spec => []BiddersNeverAhead
<1>1. Init => Told
  BY DEF Init, Told, Zero
<1>2. IndInv /\ Told => BiddersNeverAhead
  <2> SUFFICES ASSUME IndInv, Told, NEW c \in Companies
               PROVE  /\ toldWon[c] <= won[c] + (IF winner = c THEN 1 ELSE 0)
                      /\ toldLost[c] <= lost[c] +
                           (IF phase = "settled" /\ c \in answered \ {winner} THEN 1 ELSE 0)
    BY DEF BiddersNeverAhead
  <2> QED BY Amounts DEF Told, IndInv
<1> QED BY <1>1, <1>2, StepTold, Inductive, PTL DEF Spec
=============================================================================
