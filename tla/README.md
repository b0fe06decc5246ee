# Ads bidding optimizer: TLA+ models and proofs

The repository is a real-time-bidding demonstrator. A Go engine runs ad auctions
and asks several C++ bidders for a price; a Python retrainer learns from the logged
outcomes and exports new models, which the bidders swap in while they serve; a
dashboard shows it all. This directory holds TLA+ models of the parts where
threads, deadlines, failures and money meet, TLC configurations that check them on
small instances, and TLAPS proofs of the most important results for every size.

The models fall into three groups: the bidder that answers a request, the auction
that spends money, and the learning loop from the logged outcome, over training and
scoring, to the model that a bidder swaps in.

How to run: `tlc -config <Run>.cfg <module>` (the table below gives the module),
and `tlapm <name>Proofs.tla` for `Bidder`, `Batcher`, `Pipeline`, `Auction`, `Loop`,
`Feature`, `Training` and `Experiment`.

## Inventory

| component | state | operations | interacts with | hard part |
|---|---|---|---|---|
| circuit breaker (`cpp-bidder/src/circuit_breaker.*`) | state, consecutive failures, time it opened | `allow_request`, `record_success`, `record_failure` | called by the pipeline from server threads and from batch workers | reports arrive late and out of order |
| dedup cache (`dedup_cache.*`) | map id -> decision and expiry, LRU list | `get`, `put` | pipeline, both kinds of threads | two structures that must agree, expiry, eviction |
| micro batcher (`micro_batcher.*`) | bounded queue, stop flag, condition variable, worker threads | `submit`, `worker_loop`, `run_batch`, `stop` | model session; callbacks into the pipeline | notifications outside the lock, draining, batch errors |
| bid pipeline (`bid_pipeline.*`) | the four above, ready flag, model version | `process`, its callback, `notify_outcome`, `reload_model` | async server above, everything below | a request's steps run on two threads with others in between |
| model session and watcher (`model_session.*`, `main.cpp`) | shared session pointer; last file time seen | `current`, `run`, `reload`; poll loop | retrainer's file, batcher | swap under running batches, failed and missed reloads |
| async server (`async_server.*`) | one object per call, completion queues | request, finish, delete; shutdown | gRPC, pipeline | lifetime of a call across threads, shutdown deadline |
| optimizer, fallback, feature store, config, metrics | pure functions, counters | `optimize_bid`, `bid_for`, `encode`, `observe_*` | pipeline | numeric edges; counters fed by lossy notices |
| auction engine (`go-engine/internal/engine`) | counter, budgets, pacing, outcome log | `runAuction`, `RunReplay`, scrape loops | bidders over gRPC with a deadline, store, log | deadline against late bid, day boundary, overspending |
| telemetry store (`internal/stats`) | counters, rings, histograms, events, scrapes | `Record`, `SetScrape`, `SetRetrainer`, `Snapshot` | engine, HTTP | counters on many branches, stale values |
| outcome log (engine and `retrain.py`) | file, write buffer | `writeLog`, `flushLog`, `read_window` | engine writes, retrainer reads | a crash tears a line, the next record is glued to it |
| retrainer (`retrainer/retrain.py`) | round, exports, status file, model file and its temporaries | `train_round` in a loop | reads the log, writes model and status | failing rounds, crashes between file operations, restarts |
| preprocessing (`rtb-bid-model/src/features.py`, `dataset.py`) | intermediate files, counters, data files, artifacts | three passes over the logs | feeds training, and through `export_onnx.py` bidder and retrainer | the cut between training and validation, reruns, three encoders that must agree |
| training loops (`train.py`, `mdn_sweep.py`, `bins_v2.py`) | weights and their average, best loss, patience, checkpoint | epoch, evaluate, select, save | dataset, evaluation | swapping weights in and out, NaN, early stopping, batch counts |
| scoring and experiments (`evaluate.py`, `backtest.py`, `bid_optimizer.py`, `experiments/`) | prediction files, cached bins, results | scripts run by hand in any order | share files | four versions of the best bid for bins and one for mixtures, budgets, stale caches, killed searches |
| dashboard, deployment | - | polling, presentation | HTTP | overlapping polls |

What makes each correct is stated with the properties below; what can go wrong, modelled
or not, is in the hazards of `PROJECT.json`, each at the line where it bites.

## Modules

| module | models | composed from |
|---|---|---|
| `CircuitBreaker` | the breaker's three fields and operations | - |
| `BreakerClients` | overlapping requests around the breaker, a model that fails and recovers, shed requests | `CircuitBreaker` |
| `DedupCache` | map, LRU list, `get`, `put`, expiry | - |
| `CacheClients` | any sequence of calls, with the history of what they should return | `DedupCache` |
| `BidderProofs` | theorems about `BreakerClients` and `CacheClients` | both |
| `BatchService` | abstract specification: what `submit` promises | - |
| `MicroBatcher` | queue, condition variable, workers, `stop`, at the grain of lock sections | refines `BatchService` |
| `BatcherProofs` | theorems about `MicroBatcher`, the refinement among them | `MicroBatcher` |
| `BidPipeline` | `process` and its callback: cache, breaker, batcher and model version together | `CircuitBreaker`, `DedupCache`, `BatchService` |
| `PipelineProofs` | theorems about `BidPipeline` | `BidPipeline` |
| `AuctionEngine` | `runAuction`, `Store.Record`, the bidders' outcome counters | - |
| `AuctionProofs` | theorems about `AuctionEngine` | `AuctionEngine` |
| `OutcomeLog` | the engine's buffered log, its crash, and `read_window` with the labels | - |
| `LearningLoop` | retrainer, export, bidder start-up, watcher and reload around the log | `OutcomeLog` |
| `LoopProofs` | theorems about `LearningLoop` | `LearningLoop` |
| `FeatureEncoding` | the encoders of `features.py`, of the bidder and of the retrainer | - |
| `FeaturePipeline` | `features.py` as a run over logs and files, killed and restarted | `FeatureEncoding` |
| `FeatureProofs` | theorems about `FeaturePipeline` | `FeaturePipeline` |
| `Training` | the three training loops | - |
| `TrainingProofs` | theorems about `Training` | `Training` |
| `BidMath` | best bid (four versions for bins, one for mixtures), regret, blending, budget simulation | - |
| `Experiments` | scoring, calibration, backtest, budget and ensemble search scripts over shared files | `BidMath` |
| `ExperimentProofs` | theorems about `Experiments` | `Experiments` |
| `MCCacheClients`, `MCBidPipeline`, `MCAuctionEngine`, `MCLearningLoop`, `MCFeaturePipeline`, `MCExperiments` | values for constants and symmetry | |

How state and actions correspond to the code, definition by definition, is the "map"
of `PROJECT.json`. The main abstractions:

* **Time.** Breaker and cache compare a time difference with a constant. The models
  keep the difference itself in ticks and stop counting where the comparison can no
  longer change, so behaviours are unbounded in length and the state space finite.
* **Locks.** The operations of breaker and cache hold their mutex throughout and are
  one step. In `MicroBatcher` a step is one lock section, and the notifications,
  which `submit` and `stop` send after unlocking, are steps of their own, as is each
  callback; a worker may wake spuriously.
* **The pipeline** is one step per access to a shared object, in the order of the
  code. Metrics are left out. The pipeline is destroyed, and the batcher closed, after
  the server has stopped, so `Close` is not a step of `BidPipeline`; closing with work
  in flight is checked in `MicroBatcher`.
* **A decision** is the version of the model that made it. `optimize_bid` is a
  function of request and model, so nothing else can make two decisions for one
  request differ.
* **The engine** is one goroutine; the concurrent part of an auction is the set of
  GetBid calls, each of which ends with a bid or without one. Every draw of the
  random numbers (market, pacing coin) is allowed. Money is integral; the code uses
  floating point, so rounding is not covered. After the bids are in, an auction takes
  the code's three stages: `Settle` decides it and lowers the winner's budget
  (`engine.go:276`), `NoticeArrives` and `NoticeLost` tell the bidders one after the
  other (`:314`), and `RecordAuction` is `Store.Record` (`:326`). A reader of `/stats` may
  come between any two of these steps, so scoreboard and engine differ in between. The
  counters that a bidder keeps from the notices are part of the state. A notice the engine
  gave up on is not counted later by the bidder, which over gRPC it may be.
* **The log** is a sequence of pieces: a record is a proper prefix of its JSON, the
  rest of it, and the newline, and the file may end after any piece. A crash drops
  what is in the buffer. That is all the reader can tell apart: a line is a whole
  record, or it does not parse.
* **A trained model** is the number of its round; what it was trained on and whether
  its outputs are finite is kept as history. Every round starts from the warm-start
  checkpoint, so the window is all that it depends on. The modified time of the model
  file is the number too, since `os.replace` keeps the time of the file it moves.
* **The export** is one step per file operation, and writing the embedded file two, so
  a crash finds it half-written. `write_status` replaces its file atomically and is
  one step with the change it reports. The write may also fail, which the code prints
  and forgets: the old status stays, and the history variable `unwritten` remembers it.
* **Features.** One numeric and one string category stand for nine, three scaled values
  are kept as they are in the code, a standardised value is the raw value with the sums
  it is scaled by, and a sine/cosine pair is its angle. A value carries its Python
  type, so that what `json.dump` and `std::to_string` do to keys is visible. A text of tags
  is the sequence of the pieces between its commas, and a request has a list of such texts:
  the column as it is, its pieces, or its tags one by one. Bidder and retrainer have an
  encoder each, as in the code.
* **Training.** Weights are named by origin (raw after epoch e, their average, or mixed:
  trained on from an average), losses are any numbers of a small grid or NaN, and once
  weights are NaN they stay so. Raw and averaged weights become NaN in the same epoch, since
  the average takes every step's weights in; a raw loss that overflows on its own is left out.
* **Money in `BidMath`** is counted in half fen, so that V can lie between two bins;
  probabilities are integral shares. A mixture is the chance to win of each bid on its
  own grid, any that grows with the bid, since a log-normal integral has no place in
  TLC; where a script integrates it into bins it enters as those. The grid is evenly spaced
  from half a fen on, with number and distance as constants (the code's 500 candidates are
  0.6 fen apart, which is no multiple of half a fen; nothing said of mixtures relates them
  to bins, so the unit does not matter there). Which bins belong to which mixture is left
  open. Sums take the place of means, which compare alike.
* **Scripts** that read, compute and write once are one action. Searches are stepwise.
* **Mutants.** Operators whose comment begins with "Mutant" are deliberately wrong
  variants of the definition they stand before. Substituting one must make TLC
  report the property it is listed with; they are used nowhere else.

## Runs

| run | module | checks |
|---|---|---|
| `Breaker` | `BreakerClients` | `OpenIffFailing`, `NoAdmissionDuringCooldown`, `RecoversWhenHealthy` |
| `Cache` | `MCCacheClients` | `MapAndListAgree`, `HitIsLastPut`, `RecentIsRetained` |
| `Batcher` | `MicroBatcher` | `ExactlyOnePlace`, `BacklogBounded`, `SomeoneWillLook`, `StopDrains`, `StopReturns`, `ImplementsService` |
| `Pipeline` | `MCBidPipeline` | `DoneExactlyOnce`, `CacheHoldsModelBids`, `RetryAfterAnswerHits`, `EveryCallAnswered` |
| `Auction` | `MCAuctionEngine` | `TypeOK`, `WithinDailyBudget`, `ScoreboardAddsUp`, `OnlyTheAheadSitOut`, `ShownIsAfterLastWin`, `BiddersNeverAhead`, `HighestAffordableBidWins`, `AuctionFinishes` |
| `Loop` | `MCLearningLoop` | `CrashTearsOneLine`, `PublishedIsWhole`, `TrainedOnStretch`, `StatusDescribesModel`, `UnchangedMeansServed`, `RunningBidderRefusesBadModels`, `NewExportServed` |
| `Features` | `MCFeaturePipeline` | `ArtifactsComeLast`, `FittedOnTrainingRowsOnly`, `ServingMatchesTraining` |
| `Trainer` | `Training` | `CheckpointIsBest`, `PatienceIsExact`, `ScheduleFitsRun` |
| `Experiments` | `MCExperiments` | `BidsAreBest`, `SearchReportsBest`, `SearchSeesItsMembers` |

What they show: however the reports of overlapping requests are ordered, the breaker
is closed exactly while fewer than the threshold of failures were reported since the
last success, its cooldown runs from the last failure, and it closes for good once
the model is healthy for good, although a shed probe never reports. The cache's map
and list agree, a hit is the last decision put, and a recent decision is lost only to
as many newer ones as the cache holds. The batcher answers each accepted job exactly
once, wakes someone for every job, drains and returns from `stop`, and implements
`BatchService`. Every bid request is answered exactly once whatever fails, and only
model decisions are cached. No company overspends, the scoreboard adds up, companies
sit out only when ahead of pace, the auction is first-price among the bids that can
be paid, and no bidder can hold an auction up. While an auction's notices are being sent,
`/stats` shows the winner's budget too high by exactly the price; at other times, once the
company has won that day, it shows the engine's budget. A bidder's counters fall behind
when notices are lost and are ahead of the scoreboard by that one auction at most.

In the learning loop an engine crash costs at most one of the records that reached the
disk; the model file always holds a whole model, trained on an unbroken stretch of the
log; a status "exported" describes it or, if a status since could not be written, an
earlier one; a watcher that sees no change serves it, unless
the probe refused it, building it failed or it was published while the bidder was
starting (the file time is recorded before the model is held, `main.cpp:33` and `:39`);
and every good export is served in the end or superseded. A running bidder never goes
over to a model with NaN; a restarting one may, as the constructor does not probe, and
the property says so by speaking of running bidders.

Preprocessing never lets a row after the cut touch vocabularies or scalers, loses and
repeats no row, and artifacts imply complete data, whatever a killed run left behind;
the three encoders agree on every row, unseen values included, with the exceptions listed
under the smaller divergences below. The training loops save
exactly the best weights they evaluated, never train on from an average, and stop when
they should; `bins_v2.py` alone takes a step fewer per epoch than its schedule expects
when the rows divide evenly. The best bid for bins is optimal and the same in all four
places, and the bid for a mixture is the best of its grid. Searches report the best of what they scored, on the
predictions they were given, but for the stale caches of `ens_search2.py` without
`--rebuild_cache`, and for two members in directories of the same name.

Three runs show the code disagreeing with a statement in the repository; the
quotations are in the findings of `PROJECT.json`:

| run | the code says otherwise |
|---|---|
| `BreakerOneProbe` | a half-open breaker admits every request until the probe reports, not "one request" |
| `PipelineRetry` | a retry that overtakes its first attempt misses the cache; after a reload it gets another decision, within the TTL |
| `TrainerSigmaFloor` | a checkpoint of a run with `--sigma_floor` holds the configuration's floor, so evaluation rebuilds another model |

Smaller divergences, visible in the models or in reading, without a run of their own: the
breaker gauge is written on the success path only, so it says closed while the breaker
is open; the bidder's "realized profit" counter leaves losses out (`metrics.cpp:150`);
the backtest counts a loss as zero; `eval_preds.py` cannot score a file of
`calibrate_temp.py`. `budget_eval.py` skips an auction whose bid does not fit the budget and
goes on, as its line 95 says; lines 5 and 92 have it "stop bidding", which only
`budget_naive.py` does. `AccountsAddUp` states the rule of the code; it is proved, and in no run.
A mixture's grid search bids half a fen, its
lowest candidate, where V is less than that (V is 0 for a row without a bidding price,
`features.py:77`), although `bid_optimizer.py:41` says "if no bid is profitable, don't bid at
all": bids above V score 0, so the best score is never below 0. The encoders differ on rows that the data set and the engine's generator
do not have: an hour above 23 is 0 to the bidder and wraps around in training and retrainer
(`feature_store.cpp:149`); "null" or "NaN" beside other tags is a tag in training, and in a
request that sends tags one by one the bidder drops it; and the retrainer neither splits the
texts of a record nor leaves empty ones out, so it agrees with training only on tags logged
one by one, as the engine's own requests are (`retrain.py:144`).

**Bounds.** Breaker: three requests, threshold 2, cooldown 3 ticks, queue 2: enough
for a late report while another request is the probe and a third is shed; failures
are counted to 4, past the threshold. Cache: four ids in a cache of three, two
decisions, TTL 3; ids and decisions are symmetric. Batcher: three jobs, two workers,
batch 2, queue 2: a full queue, a batch of two with an error, one worker asleep while
the other works. Pipeline: a request, its retry and another request, one reload,
a queue of one, threshold 1, TTL 2: every way out of `process` is taken and the two
calls for one id overlap in all ways. Auction: budgets 4 and 3, V = 2, bids to 3, so
that bids are above V and above what is left; three auctions in days of two cross a
day's reset. `MaxAuctions` is the only bound on the length of a behaviour there.
Loop: three records with prices below, above and half-way between bins, a window of two,
two rounds per life of the retrainer and two models, one crash of the engine and one of
retrainer or bidder (or a failed round, reload or status): an export can overtake a reload, and
a model can be published while the bidder starts, is probed and reloads. Features: two
logs (`NumLogs`) of up to three lines, malformed ones included, the cut inside a log, at its end or at
0, and a second run; tags with an empty piece, "null" alone and among others, and an hour
of 29. Trainer: training sets of 1, 4 and 5 rows in batches of 2 (none,
even, a remainder), four epochs, patience 2, losses on both sides of the tolerance.
Experiments: two rows, three bins, V between two of them, two predictions of which one
has a fourth bin, a mixture over three candidates, an impression worth nothing,
three files in two directories, three writes and two searches, so that a cache goes
stale, is left half-filled and is shared.
`CHECK_DEADLOCK FALSE` is used where the finite supply of jobs, calls or auctions
ends; the breaker and the cache never stop.

**Fairness.** Weak fairness only, of steps that the operating system or a deadline
guarantees: threads that can run do, `model_.run` returns, a thread that changed a shared
variable goes on to its notification, the clock ticks, GetBid and NotifyOutcome return by
their deadlines (`DeadlineMs`, and 50 ms), and the engine's goroutine goes on. For the
breaker's recovery requests must also keep arriving, as the engine's endless auctions see
to. In `LearningLoop` only the bidder is fair: its watcher is a loop with a bounded sleep
and its container is restarted when it exits; neither engine nor retrainer is obliged to
do anything, so `NewExportServed` holds however they behave. Preprocessing, training and
the scripts have safety properties only. Nothing obliges a client to send a request to the
batcher or the pipeline, anyone to call `stop`, the model to recover, or a spurious
wake-up to happen.

## Proofs

Every theorem holds for all values of the constants that its module's named assumption
admits. Beyond types and positive sizes these assumptions ask little: an absent cache
entry is not an entry, the ids that clients ask for are finitely many, and the model
versions are decisions the cache may hold; the members of a search are prediction files,
every prediction is a distribution (natural shares over bins counted from 0), a mixture's
chances grow with the bid, drawn weights are naturals, and a multiplier's denominator is not 0; the rows of a log have typed columns
(`Row`: categories that are numbers, so never the text `<UNK>`, or strings), as
`pd.to_numeric` leaves them, and dates that exist: one that does not is a Monday to
`features.py` (`errors='coerce'`, `fillna(0)`) and any weekday to the bidder.
An invariant is proved from an inductive one that implies it.

**Breaker** (`BidderProofs`): type correctness, `OpenIffFailing`,
`NoAdmissionDuringCooldown`, for any set of requests. Neither of the last two is
inductive: whether the next failure opens the breaker depends on the counter, and
whether the cooldown is over on the time since it opened. The invariant `Agreement`
adds how the counter relates to the failures reported since the last success and how
`elapsed` relates to the time since the last failure while the breaker is open.

**Cache** (`BidderProofs` too): `MapAndListAgree`, `HitIsLastPut`, `RecentIsRetained`, for
any ids, capacity and TTL. `CacheInv` says that the list holds every resident id once,
that an entry is its id's last put, that the ids nearer the front of the list are among
those used later (`Ordered`), and that an id no longer there was pushed out by `MaxSize`
newer ones or has expired (`PushedOut`). The list operators come with lemmas on what
moving to the front and evicting from the back leave in place, and a counting argument:
the ids in front of a victim already fill the cache.

**Batcher** (`BatcherProofs`): `ExactlyOnePlace`, `BacklogBounded`, `SomeoneWillLook`,
`StopDrains`, and that `MicroBatcher` implements the safety part of `BatchService`, for any
jobs, workers, batch and queue size. The invariant relates the program counters of
workers, submitters and `stop` to the queue and the batches in hand: a worker sleeps only
after it saw the queue empty with `stop` not called, or is owed a notification, and one
exits only with `stop` called and the queue empty. `JobView` maps a job's callbacks and the
result of its `submit` to its state in `BatchService`; a step of a worker or of `stop` maps
to an answer, to closing the service, or to nothing. Load is shed only with `QueueMax`
jobs outstanding since those in the queue are distinct and none is answered.

**Pipeline** (`PipelineProofs`): `DoneExactlyOnce`, `CacheHoldsModelBids` and the action
property `RetryAfterAnswerHits`, for any calls, ids and versions. `PipelineInv` ties where
a call is to its job in the batcher (`Phase`), every cache entry and every cached reply to
the call that computed it (`Provenance`, `Repeated`), and, for a cache with room for every id,
the time left of an answered call's put to that of the entry (`StillThere`), which every
later put for the id only extends.

**Auction** (`AuctionProofs`): type correctness, `WithinDailyBudget`,
`ShownIsAfterLastWin`, `BiddersNeverAhead`, `OnlyTheAheadSitOut`, `ScoreboardAddsUp` and the
action property `HighestAffordableBidWins`, for any number of companies, budgets, bids, market
and day length. Between decision and record they need `Decided`: the winner is one that
answered, its bid is the price, and no bid that could be paid was higher. That the
budget shown is never more than the engine's plus the price owed needs `DaySpendNatural`: no
day's spend is negative, so a day's reset never lowers a budget. `Told` relates the bidders'
counters to the notices still to be sent. First price rests on a
lemma that some company leads whenever one can pay: the highest bid, and among equals the
first in order. Pacing looks at budgets and the property at spend; `WithinDailyBudget`
connects them. That the companies together win no more auctions than were run is a
statement about `MapThenSumSet`: its recursion has a solution on every finite set, and
raising one summand raises the sum by as much, both by induction on the number of elements.

**Learning loop** (`LoopProofs`): `PublishedIsWhole`, `StatusDescribesModel`,
`UnchangedMeansServed` and the action property `RunningBidderRefusesBadModels`, for any log,
rounds, crashes and failures. `LoopInv` adds which temporaries hold the newest model
at each step of the export (`Export`), that the status says "training" during a round
unless that could not be written (`Announced`), and that what the watcher remembers, what it has built and what is in place
are in this order of age (`Chasing`).

**Training** (`TrainingProofs`): `PatienceIsExact`, `CheckpointIsBest`, `ScheduleFitsRun`,
for any rows, batch size, epochs, patience, losses and tolerance. None is
inductive. For the first, `PatienceInv` ties the count of bad epochs to the epoch last
saved. For the second, `SelectionInv` adds where the weights in hand come from at each
step of an epoch, that raw and averaged losses become NaN together, and that nothing
judged so far beats the value kept. The subtle case is Python's `min` on a NaN: the
lemma `PickedLoss` shows that the loss it picks is always that of the weights picked.
For the third, `Paced` says that every epoch takes the same number of steps, and the lemmas
`BatchCount` and `BinsCount` count the batches a loop takes from any number of rows.

**The log** (`LoopProofs` too): `CrashTearsOneLine` and `TrainedOnStretch`, for any
records, window and crashes, wherever in a record the buffer spills. `LogInv` speaks of what
the file will hold once the buffer is flushed: its pieces are in the order they were written,
a piece that is not the first of its record stands right after the one before it (`Whole`),
and the places where a record was cut off (`Tears`) are no more than the crashes. A line
parses exactly when it is the two JSON pieces of one record, at the start of the file or after
a newline (`ParsedIs`), so a record on disk that is not read stands after a tear
(`LostIsTorn`), one for each. That the lines are read in order, each once, is a lemma about
the i-th of a finite set of places (`NthIs`). `StretchInv` adds that what a round has read is
on disk, its last piece but the newline at least: whatever the file gains later is read as
records after it or not at all (`ReadGrows`), so a stretch stays unbroken.

**Experiments** (`ExperimentProofs`), for any test set, files, directories, members, draws
and kills:

* `SearchSeesItsMembers`. `CacheIsRead` says it of a search under way: the cache file of every
  member read so far is what that member's predictions were, unless it was found there or a
  later member's build went to the same file.
* `SearchReportsBest`. `BestSoFar` says that the best so far has the regret of its weights and
  that no draw scored has a lower one. Comparing scores needs that they are numbers: a
  weighted average of tables, a half-filled cache among them (`Cached`), is a table again
  (`AverageType`, `BlendType`) and its regret an integer.
* `AccountsAddUp`. After any number of auctions an account is that of the auctions played so
  far (`AccountOf`): a step of the fold either wins an auction, which moves its price and its
  gain into two sums, or leaves it for a reason that later steps do not change.
* `BidsAreBest`. Each implementation is shown to choose the first maximum of the same scores
  (`Best`): the grid by its definition, the C++ pass by an invariant over the bins it has seen
  (`ScanOf`), the slice at ceil(V) since the bids it cuts off earn nothing (`SliceIsMask`). A bid
  between two bins wins no more than the lower one (`BinIsEnough`), so the best bin is optimal
  among all bids. The mixtures' search is the first maximum over its own grid (`MdnIsBest`).

**Preprocessing** (`FeatureProofs`): `ArtifactsComeLast`, `FittedOnTrainingRowsOnly` and
`ServingMatchesTraining`, for any number of logs of any length, malformed lines anywhere, any
`train_frac` below 1 and any number of killed runs. `PipelineInv` says where a run is and what it has
parsed (`Placed`), that pass B has counted exactly the training rows among the files it has
been through (`Counted`), that the two chunks of pass C joined are the rows encoded so far, cut
at the same place (`Split`), and which files are of this run (`Saved`); what a killed run leaves is older.

* The code finds the cut file by file, with `rows_seen` and a sum of lengths, and the property
  speaks of one sequence of all rows. `FirstStep` and `SplitStep` carry the cut over one
  file, inside it, at its end or past it; `FlattenLength` shows that the sum is the length of the
  whole, and `SeenConcat`, `SumsConcat` that counting and summing may be done in pieces.
* `FitEncoderRanks`: the rank that `most_common` gives a value is strictly ordered, so the
  indices have no gaps, whatever the ties.
* `SameWeekday`: the bidder's month table gives the calendar's weekday for every date, leap
  years included. `JsonLookup`, `KeysApart`: turning keys into text in `json.dump` and
  `std::to_string` merges no two words of a vocabulary. `SplitIs`: splitting the texts of a
  request yields the tags of the column in each of the forms it may come in. `SameTags`:
  looking the tags up as text and dropping the unknown ones fills the same slots as training.

**Induction over data.** The library's induction rules have an operator as parameter, which
the provers at hand do not instantiate. Where a proof needs induction it uses instead that a
non-empty set of naturals has a least element (`LeastNatural`, from the well-foundedness
of `<`), applied to the sizes of counterexamples, and from it induction for a set of naturals
and for a set of subsets (`Induction`, `SubsetInduction`). The community modules define their
folds as functions chosen to satisfy a recursion over subsets; `FoldExists` shows that such a
function exists on every finite set, and the sums and simulations of `BidMath` are instances.
The filter of a sequence (`Without`, a fold) and `FlattenSeq` are treated alike: the recursion
has a solution (`WithoutIs`, `FlattenUnfolds`) and induction over sequences
(`SequenceInduction`) gives how they act on a concatenation.

Every invariant and every action property that a run checks is stated by a theorem. Only
model-checked is liveness (`RecoversWhenHealthy`, `StopReturns`, `EveryCallAnswered`,
`AuctionFinishes`, `NewExportServed` and the fairness part of `ImplementsService`), which is
outside what the prover supports.

## Plan

1. Done: breaker, cache, batcher, pipeline, auction; the log, retrainer, watcher and
   reload; feature encoding and preprocessing; training loops; scoring and searches.
2. Proofs. Done: all of the bidder's and the auction's safety, the log, the export and the
   watcher, preprocessing and serving, the training loops, the scripts and searches.

## Not modelled

* The asynchronous gRPC server, gRPC itself and ONNX Runtime: a call's life cycle is the
  library's; its contract with the pipeline, one answer per call, is `DoneExactlyOnce`
  and `EveryCallAnswered`.
* Networks, losses, gradients, the Newton optimiser, PIT, CRPS and coverage statistics,
  the integration of mixtures and quantiles into bins, the fit of a temperature or an
  isotonic curve: real arithmetic, which neither TLC nor these proofs have.
* LightGBM baselines, remapped bins, plots and tables: straight-line scripts around a
  library call or a figure.
* Replay, scrapes, loss curve, event feed and the dashboard: display data that nothing
  reads back.
* Configuration parsing and deployment files.
* `Entry.lru_it` of the cache: the list is a sequence of ids and erasing is by id, so an
  iterator left dangling would not show. A second `stop()` of the batcher, which returns at
  once.

Risks read in the code that no property covers, beyond those in the hazards: shutdown of
the server with a deadline while callbacks hold calls (`async_server.cpp:222`);
`batch_max <= 0`, which makes a worker spin (`micro_batcher.cpp:66`, the model assumes
at least 1); outcome notices are lost after 50 ms (`engine.go:348`); a replayed auction
is settled with the configured V (`engine.go:497`); the loss curve and scraped counters
restart with the process they come from (`stats.go:379`, `:423`); `torch.save` overwrites
the previous best in place (`train.py:325`); `n_random = 0` fails in the greedy phase;
`lgbm_baseline.py` reuses models of an earlier run; polls of the dashboard may overlap.
