----------------------------- MODULE Experiments -----------------------------
(***************************************************************************)
(* The scripts that score models and search for ensembles of them          *)
(* (rtb-bid-model/src: evaluate.py, backtest.py and experiments/), and the *)
(* files through which they pass results on.                               *)
(*                                                                         *)
(* A script that only reads its inputs, computes and writes one result is  *)
(* one action.  The ensemble searches run for hours and ens_search2 keeps  *)
(* a cache of its inputs across runs, so they are modelled step by step    *)
(* and may be killed between any two of them:                              *)
(*                                                                         *)
(*    idle -> load <-> build      load -> trial -> greedy -> idle          *)
(***************************************************************************)
EXTENDS BidMath

CONSTANTS
    Rows,           \* the test set: a sequence of [pay, bid]
    FixedV,         \* the value of an impression, 150 in the scripts
    Tables,         \* predictions: sequences of distributions, one per row
    Mixtures,       \* those of mixture models: sequences of chances to win
    Files,          \* prediction files
    Calibrated,     \* the files that calibrate_temp writes
    DirOf,          \* file -> the directory it is in
    MemberLists,    \* the --members of a search
    Draws,          \* weights that a Dirichlet draw or --weights may give
    Subset,         \* rows that ens_search3 searches on
    TopK,           \* --top_k_full
    Tolerance,      \* what a greedy move must improve by
    Fractions,      \* shares of the test set's cost, as <<num, den>>
    Multipliers,    \* the companies' strategies, as <<num, den>>
    MaxTrials,      \* random draws of a search
    MaxGreedy,      \* bound: greedy moves tried
    MaxWrites,      \* bound: prediction files written
    MaxSearches     \* bound: searches started

ASSUME ExperimentsAssumption ==
    /\ Rows \in Seq([pay : 0 .. Top, bid : Nat])
    /\ FixedV \in Nat
    /\ \A t \in Tables : /\ t \in [DOMAIN Rows -> Range(t)]
                         /\ \A i \in DOMAIN Rows : IsDistribution(t[i])
    /\ \A x \in Mixtures, i \in DOMAIN Rows : IsMixture(x[i])
    /\ Calibrated \subseteq Files /\ MemberLists \subseteq Seq(Files)
    /\ Subset \subseteq DOMAIN Rows
    /\ Draws \subseteq Seq(Nat)
    /\ Tolerance \in Nat
    /\ Fractions \subseteq Nat \X Nat /\ Multipliers \subseteq Nat \X (Nat \ {0})
    /\ MaxTrials \in Nat \ {0}      \* with none, best_w is None and greedy fails

VARIABLES
    preds,          \* file -> its predictions
    cache,          \* directory name -> the cached bins of a member
    search,         \* the search that is running
    report,         \* what the last script wrote, until it is read
    writes, searches

vars == <<preds, cache, search, report, writes, searches>>

None == << >>
Idle == [pc |-> "idle"]
NoReport == [kind |-> "none"]
Pays == [i \in DOMAIN Rows |-> Rows[i].pay]
FixedVs == [i \in DOMAIN Rows |-> FixedV]
BidVs == [i \in DOMAIN Rows |-> Rows[i].bid]
TotalCost == SumFunction(Pays)

Init ==
    /\ preds = [f \in Files |-> None]
    /\ cache = [d \in {DirOf[f] : f \in Files} |-> None]
    /\ search = Idle
    /\ report = NoReport
    /\ writes = 0 /\ searches = 0

-----------------------------------------------------------------------------
(* Scores *)

SumRegret(bids, Vs, rows) ==
    SumFunctionOnSet([i \in DOMAIN Rows |-> Regret(bids[i], Pays[i], Vs[i])], rows)

\* The bids of a bins model and of a mixture model.
GridBids(table, Vs) == [i \in DOMAIN Rows |-> GridOptimizeBins(table[i], Vs[i])]
MdnBids(mix, Vs) == [i \in DOMAIN Rows |-> GridOptimizeMdn(mix[i], Vs[i])]

GridScore(bids150, bidsV) ==
    [kind |-> "eval",
     r150 |-> SumRegret(bids150, FixedVs, DOMAIN Rows),
     rvbid |-> SumRegret(bidsV, BidVs, DOMAIN Rows)]

\* The scores of a prediction: of bins, or of a mixture whose bins they are.
Scores(table) ==
    {GridScore(GridBids(table, FixedVs), GridBids(table, BidVs))} \cup
    {GridScore(MdnBids(x, FixedVs), MdnBids(x, BidVs)) : x \in Mixtures}

\* One weight for each member.
Weights(ms) == {w \in Draws : Len(w) = Len(ms)}

\* The weighted average of the members' predictions, row by row.
Blend(tables, w) ==
    [i \in DOMAIN Rows |-> Average([m \in DOMAIN tables |-> tables[m][i]], w)]

-----------------------------------------------------------------------------
(* Scripts of one step *)

\* The report is read before the next script is run.
ReadReport ==
    /\ report # NoReport /\ report' = NoReport
    /\ UNCHANGED <<preds, cache, search, writes, searches>>

Script(r) ==
    /\ search = Idle /\ report = NoReport
    /\ report' = r
    /\ UNCHANGED <<cache, search, searches>>

Write(f, table) ==
    /\ writes < MaxWrites /\ writes' = writes + 1
    /\ preds' = [preds EXCEPT ![f] = table]

KeepPreds == UNCHANGED <<preds, writes>>

\* evaluate.py: whatever the checkpoint predicts is scored, and saved if asked.
Evaluate ==
    \E t \in Tables :
      /\ \E r \in Scores(t) : Script(r)
      /\ \/ KeepPreds
         \/ \E f \in Files \ Calibrated : Write(f, t)

\* eval_ckpts_batch.py: one checkpoint of its list.
EvaluateCheckpoint ==
    \E t \in Tables, f \in Files \ Calibrated :
      /\ \E r \in Scores(t) : Script(r)
      /\ KeepPreds \/ Write(f, t)

\* eval_preds.py: a prediction file scored again.  It needs the log
\* probabilities, which calibrate_temp leaves out.
EvaluatePreds ==
    \E f \in Files \ Calibrated :
      /\ preds[f] # None
      /\ \E r \in Scores(preds[f]) : Script(r)
      /\ KeepPreds

\* calibrate_temp.py: the predictions at the temperature found on the
\* validation set.
Calibrate ==
    \E t \in Tables, f \in Calibrated :
      Script([kind |-> "calibrated"]) /\ Write(f, t)

\* backtest.py: the companies' strategies on the fixed value.
BacktestRow(table, mult, i) ==
    LET bid == StrategyBid(table[i], FixedV, mult)
    IN  [profit |-> Larger(Realized(bid, Pays[i], FixedV), 0),
         regret |-> Regret(bid, Pays[i], FixedV),
         bid |-> bid]

Backtest ==
    \E t \in Tables :
      /\ Script([kind |-> "backtest",
                 rows |-> [m \in Multipliers |->
                             [i \in DOMAIN Rows |-> BacktestRow(t, m, i)]]])
      /\ KeepPreds

\* ensemble.py: given files, averaged with given weights.
EvaluateEnsemble ==
    \E ms \in MemberLists : \E w \in Weights(ms) :
      /\ \A i \in DOMAIN ms : preds[ms[i]] # None
      /\ LET t == Blend([i \in DOMAIN ms |-> preds[ms[i]]], w)
         IN  Script(GridScore(GridBids(t, FixedVs), GridBids(t, BidVs)))
      /\ KeepPreds

BudgetReport(bids, Vs, accounts) ==
    [kind |-> "budget", bids |-> bids, Vs |-> Vs, accounts |-> accounts]

BudgetOf(bids, Vs) ==
    BudgetReport(bids, Vs,
        [b \in Fractions |-> Simulate(bids, Pays, Vs, b, TotalCost)])

\* budget_eval.py
BudgetEval ==
    \E f \in Files, Vs \in {FixedVs, BidVs} :
      /\ preds[f] # None
      /\ Script(BudgetOf(GridBids([i \in DOMAIN Rows |-> ToBins(preds[f][i])], Vs), Vs))
      /\ KeepPreds

\* budget_ensemble.py
BudgetEnsemble ==
    \E ms \in MemberLists, Vs \in {FixedVs, BidVs} : \E w \in Weights(ms) :
      /\ \A i \in DOMAIN ms : preds[ms[i]] # None
      /\ Script(BudgetOf(GridBids(Blend([i \in DOMAIN ms |-> preds[ms[i]]], w), Vs), Vs))
      /\ KeepPreds

\* budget_naive.py: the mean price of the training set, or V if that is less.
BudgetNaive ==
    \E mean \in 1 .. Top :
      LET b == IF mean > FixedV THEN FixedV ELSE mean
      IN  /\ Script(BudgetReport([i \in DOMAIN Rows |-> b], FixedVs,
                      [f \in Fractions |-> SimulateNaive(b, Pays, FixedV, f, TotalCost)]))
          /\ KeepPreds

-----------------------------------------------------------------------------
(* The ensemble searches *)

Scripts == 1 .. 3       \* ens_search.py, ens_search2.py and ens_search3.py

StartSearch ==
    /\ search = Idle /\ report = NoReport
    /\ searches < MaxSearches /\ searches' = searches + 1
    /\ \E script \in Scripts, ms \in MemberLists, rebuild \in BOOLEAN :
         search' = [pc |-> "load", script |-> script, members |-> ms,
                    rebuild |-> rebuild, read |-> << >>, reused |-> {},
                    tried |-> {}, trials |-> 0, best |-> None, moves |-> 0]
    /\ UNCHANGED <<preds, cache, report, writes>>

Running(script, pc) == search.pc = pc /\ search.script = script
SearchStep(s) == search' = s /\ UNCHANGED <<preds, report, writes, searches>>

NextMember == search.members[Len(search.read) + 1]
Loading(script) ==
    /\ Running(script, "load")
    /\ Len(search.read) < Len(search.members)
    /\ preds[NextMember] # None
Read == [search EXCEPT !.read = Append(@, preds[NextMember])]

\* ens_search and ens_search3 hold their members in memory.
LoadMember == Loading(1) /\ SearchStep(Read) /\ UNCHANGED cache
LoadMember3 == Loading(3) /\ SearchStep(Read) /\ UNCHANGED cache

\* ens_search2 keeps them in a file named after the directory, which it uses
\* as it is when it is there.
CacheName == DirOf[NextMember]

\* Mutant: --rebuild_cache is not looked at.
MustBuildOnce == cache[CacheName] = None

MustBuild == cache[CacheName] = None \/ search.rebuild

ReuseCache ==
    /\ Loading(2) /\ ~MustBuild
    /\ SearchStep([Read EXCEPT !.reused = @ \cup {CacheName}])
    /\ UNCHANGED cache

\* The file is made with all its rows zero and filled chunk by chunk.
ZeroRow == [k \in Bins |-> 0]
Filled(table, n) ==
    [i \in DOMAIN Rows |-> IF i <= n THEN ToBins(table[i]) ELSE ZeroRow]

BeginCache ==
    /\ Loading(2) /\ MustBuild
    /\ \E n \in 0 .. Len(Rows) - 1 :
         cache' = [cache EXCEPT ![CacheName] = Filled(preds[NextMember], n)]
    /\ SearchStep([search EXCEPT !.pc = "build"])

EndCache ==
    /\ Running(2, "build")
    /\ cache' = [cache EXCEPT ![CacheName] = Filled(preds[NextMember], Len(Rows))]
    /\ SearchStep([Read EXCEPT !.pc = "load"])

\* What the scores are computed from.
Used ==
    IF search.script = 2
    THEN [i \in DOMAIN search.members |-> cache[DirOf[search.members[i]]]]
    ELSE search.read

\* regret_v150 of the three scripts, the third on its subset of the rows.
RegretOn(tables, w, rows) ==
    LET blend == Blend(tables, w)
    IN  SumRegret([i \in DOMAIN Rows |-> SlicedBid(blend[i], FixedV)], FixedVs, rows)

RegretGrid(w) == RegretOn(Used, w, DOMAIN Rows)
RegretStreaming(w) == RegretOn(Used, w, DOMAIN Rows)
RegretSubset(w) == RegretOn(Used, w, Subset)
Score(w) ==
    CASE search.script = 1 -> RegretGrid(w)
      [] search.script = 2 -> RegretStreaming(w)
      [] search.script = 3 -> RegretSubset(w)

RegretVbid(w) == SumRegret(GridBids(Blend(Used, w), BidVs), BidVs, DOMAIN Rows)

Loaded(script) == Running(script, "load") /\ Len(search.read) = Len(search.members)

\* A draw is scored and kept if it is the best so far.
Trial(script) ==
    /\ Loaded(script)
    /\ search.trials < MaxTrials
    /\ \E w \in Weights(search.members) :
         LET result == [w |-> w, r |-> Score(w)]
         IN  SearchStep([search EXCEPT
               !.tried = @ \cup {result},
               !.trials = @ + 1,
               !.best = IF @ = None \/ result.r < @.r THEN result ELSE @])
    /\ UNCHANGED cache

RandomSearch == Trial(1)
RandomSearch2 == Trial(2)
RandomSearch3 == Trial(3)

\* One weight of the best so far is moved, a mix of no member being left out.
Moved(w) ==
    {v \in {[w EXCEPT ![i] = Larger(@ + d, 0)] : i \in DOMAIN w, d \in {-1, 1}} :
       \E i \in DOMAIN v : v[i] > 0}

Greedy(script) ==
    /\ Loaded(script)
    /\ search.trials = MaxTrials
    /\ search.moves < MaxGreedy
    /\ \E w \in Moved(search.best.w) :
         LET result == [w |-> w, r |-> Score(w)]
         IN  SearchStep([search EXCEPT
               !.moves = @ + 1,
               !.best = IF result.r < @.r - Tolerance THEN result ELSE @])
    /\ UNCHANGED cache

GreedySearch == Greedy(1)
GreedySearch2 == Greedy(2)
GreedySearch3 == Greedy(3)

\* The result is saved and the script ends.
SaveSearch(script, best, against) ==
    /\ Loaded(script)
    /\ search.trials = MaxTrials
    /\ report' = [kind |-> "search", script |-> script, members |-> search.members,
                  best |-> best, rvbid |-> RegretVbid(best.w), against |-> against,
                  read |-> search.read, used |-> Used,
                  rebuild |-> search.rebuild, reused |-> search.reused]
    /\ search' = Idle
    /\ UNCHANGED <<preds, cache, writes, searches>>

SaveBest == SaveSearch(1, search.best, search.tried)
SaveBest2 == SaveSearch(2, search.best, search.tried)

\* ens_search3 scores the best few draws of the subset, and the winner, on all
\* rows.
TopDraws ==
    {top \in SUBSET search.tried :
       /\ Cardinality(top) = (IF TopK < Cardinality(search.tried)
                              THEN TopK ELSE Cardinality(search.tried))
       /\ \A a \in top, b \in search.tried \ top : a.r <= b.r}

OnAllRows(results) == {[w |-> c.w, r |-> RegretOn(Used, c.w, DOMAIN Rows)] : c \in results}

\* Mutant: the winner of the greedy moves is not among them.
CandidatesDrawn(top) == OnAllRows(top)

Candidates(top) == OnAllRows(top \cup {search.best})

SaveBest3 ==
    /\ Loaded(3) /\ search.trials = MaxTrials
    /\ \E top \in TopDraws : \E best \in Candidates(top) :
        /\ \A c \in Candidates(top) : best.r <= c.r
        /\ SaveSearch(3, best, OnAllRows({search.best}))

\* A search is killed; what it wrote stays.
KillSearch ==
    /\ search # Idle
    /\ search' = Idle
    /\ UNCHANGED <<preds, cache, report, writes, searches>>

-----------------------------------------------------------------------------
Next ==
    \/ Evaluate \/ EvaluateCheckpoint \/ EvaluatePreds \/ Calibrate
    \/ Backtest \/ EvaluateEnsemble
    \/ BudgetEval \/ BudgetEnsemble \/ BudgetNaive
    \/ ReadReport \/ StartSearch
    \/ LoadMember \/ LoadMember3 \/ ReuseCache \/ BeginCache \/ EndCache
    \/ RandomSearch \/ RandomSearch2 \/ RandomSearch3
    \/ GreedySearch \/ GreedySearch2 \/ GreedySearch3
    \/ SaveBest \/ SaveBest2 \/ SaveBest3
    \/ KillSearch

Spec == Init /\ [][Next]_vars

-----------------------------------------------------------------------------
(* Properties *)

\* The predictions that exist, and what the searches make of them.
Known == (Range(preds) \ {None}) \cup (IF report.kind = "search" THEN Range(report.used) ELSE {})

\* The bid chosen for a prediction earns, in expectation, at least what every
\* other bid would, is never above V, and is the same wherever it is computed:
\* bid_optimizer.py, bid_optimizer.cpp, the searches' slice at ceil(V) and the
\* backtest.  Its regret is between 0 and the profit that was there to be made.
\* The bid for a mixture is the best of its own grid, and above V only when the
\* whole grid is (bid_optimizer.py:36 "bidding more than V guarantees negative
\* profit").
BidsAreBest ==
    /\ \A t \in Known, i \in DOMAIN Rows : \A V \in {FixedV, Rows[i].bid} :
         LET p == t[i]
             b == GridOptimizeBins(p, V)
             Expected(c) == (V - c) * CdfAt(p, c)
         IN  /\ b <= V
             /\ \A c \in 0 .. V : Expected(c) <= Expected(b)
             /\ SlicedBid(ToBins(p), V) = GridOptimizeBins(ToBins(p), V)
             /\ OptimizeBid(p, V, <<1, 1>>) = b
             /\ \A m \in Multipliers : OptimizeBid(p, V, m) = StrategyBid(p, V, m)
             /\ Regret(b, Pays[i], V) \in 0 .. PerfectProfit(Pays[i], V)
    /\ \A x \in Mixtures, i \in DOMAIN Rows : \A V \in {FixedV, Rows[i].bid} :
         LET b == GridOptimizeMdn(x[i], V)
             Expected(c) == (V - c) * x[i][c]
         IN  /\ b \in MdnGrid
             /\ b <= V \/ \A c \in MdnGrid : c > V
             /\ b <= V => \A c \in MdnGrid : Expected(c) <= Expected(b)

\* Within an account: no more is spent than the budget, every auction that was
\* not won was lost or could not be paid for at that moment, and spend and
\* profit are those of the auctions won.
Balanced(bids, Vs, budget, account) ==
    LET SpentBefore(i) == SumFunctionOnSet(bids, {j \in account.wins : j < i})
        gain == [j \in DOMAIN bids |-> Vs[j] - bids[j]]
    IN  /\ ~Exceeds(account.spent, budget, TotalCost)
        /\ account.spent = SumFunctionOnSet(bids, account.wins)
        /\ account.profit = SumFunctionOnSet(gain, account.wins)
        /\ \A i \in DOMAIN bids \ account.wins :
             \/ bids[i] < Pays[i]
             \/ bids[i] = 0
             \/ Exceeds(SpentBefore(i) + bids[i], budget, TotalCost)

\* The accounts of the budget simulations balance.  This is the rule of
\* budget_eval.py:95, "skips an auction if it cannot afford the bid", not that
\* of lines 5 and 92, "stop bidding": a cheaper auction after one that did not
\* fit is played.  The naive bidder does stop (simulate, budget_naive.py).
AccountsAddUp ==
    report.kind = "budget" =>
      \A b \in Fractions : Balanced(report.bids, report.Vs, b, report.accounts[b])

\* What a search reports is the regret of the weights it reports, and no draw
\* it scored, nor for ens_search3 the winner on the subset, has a lower one on
\* the same rows.
SearchReportsBest ==
    report.kind = "search" =>
      /\ report.best.r = RegretOn(report.used, report.best.w, DOMAIN Rows)
      /\ \A c \in report.against : report.best.r <= c.r

\* A search scores the predictions in the files it was given, ens_search2 with
\* --rebuild_cache too.  The exceptions are ens_search2's: without that flag a
\* cache file that was there may be of older predictions or half-written by a
\* run that was killed, and two members in directories of one name share one
\* file.
SearchSeesItsMembers ==
    report.kind = "search" =>
      \A i \in DOMAIN report.members :
        LET dir == DirOf[report.members[i]]
        IN  \/ report.used[i] = Filled(report.read[i], Len(Rows))
            \/ report.script # 2 /\ report.used[i] = report.read[i]
            \/ report.script = 2 /\ ~report.rebuild /\ dir \in report.reused
            \/ \E j \in DOMAIN report.members \ {i} : DirOf[report.members[j]] = dir
=============================================================================
