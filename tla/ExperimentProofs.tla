-------------------------- MODULE ExperimentProofs --------------------------
(***************************************************************************)
(* What the ensemble searches of Experiments score and report, how the     *)
(* accounts of the budget simulations balance and which bids are chosen:   *)
(* for any test set, any prediction files, any members in any directories, *)
(* any draws and any number of searches that are killed.                   *)
(***************************************************************************)
EXTENDS Experiments, SequenceTheorems, FiniteSetTheorems, WellFoundedInduction, TLAPS

Dirs == {DirOf[f] : f \in Files}
Fields == {"pc", "script", "members", "rebuild", "read", "reused", "tried", "trials",
           "best", "moves"}

\* Files and cache are functions, and a search has read some of its members.
Typed ==
    /\ preds \in [Files -> Tables \cup {None}]
    /\ DOMAIN cache = Dirs
    /\ search # Idle =>
         /\ DOMAIN search = Fields
         /\ search.pc \in {"load", "build"} /\ search.script \in Scripts
         /\ search.members \in Seq(Files) /\ search.read \in Seq(Tables)
         /\ Len(search.read) <= Len(search.members)
         /\ search.pc = "build" =>
              /\ search.script = 2 /\ Len(search.read) < Len(search.members)
              /\ preds[search.members[Len(search.read) + 1]] # None

Shared(ms, i) == \E j \in DOMAIN ms \ {i} : DirOf[ms[j]] = DirOf[ms[i]]

\* The cache file of every member that ens_search2 has read is what the
\* prediction file was, unless it was found there or another member's build
\* went to the same file.
CacheIsRead ==
    search # Idle /\ search.script = 2 =>
      \A i \in 1 .. Len(search.read) :
        \/ cache[DirOf[search.members[i]]] = Filled(search.read[i], Len(Rows))
        \/ ~search.rebuild /\ DirOf[search.members[i]] \in search.reused
        \/ Shared(search.members, i)

SearchInv == Typed /\ CacheIsRead /\ SearchSeesItsMembers

-----------------------------------------------------------------------------
\* Nothing is predicted, cached or reported yet.
LEMMA SearchStarts == Init => SearchInv
  <1> SUFFICES ASSUME Init PROVE SearchInv
    OBVIOUS
  <1>1. Typed
    BY DEF Init, Typed, Dirs
  <1>2. CacheIsRead
    BY DEF Init, CacheIsRead
  <1>3. SearchSeesItsMembers
    <2>1. report.kind = "none"
      BY DEF Init, NoReport
    <2> QED BY <2>1 DEF SearchSeesItsMembers
  <1> QED BY <1>1, <1>2, <1>3 DEF SearchInv

\* A script of one step leaves caches alone and reports no search.
LEMMA ScriptKeeps ==
    ASSUME preds \in [Files -> Tables \cup {None}], NEW r, Script(r), r.kind # "search",
           KeepPreds \/ \E f \in Files, t \in Tables : Write(f, t)
    PROVE  /\ search' = Idle /\ cache' = cache /\ report'.kind # "search"
           /\ preds' \in [Files -> Tables \cup {None}]
  BY DEF Script, KeepPreds, Write

\* The scripts of one step are of that kind.
LEMMA OneStepScripts ==
    ASSUME preds \in [Files -> Tables \cup {None}],
           \/ Evaluate \/ EvaluateCheckpoint \/ EvaluatePreds \/ Calibrate \/ Backtest
           \/ EvaluateEnsemble \/ BudgetEval \/ BudgetEnsemble \/ BudgetNaive
    PROVE  /\ search' = Idle /\ cache' = cache /\ report'.kind # "search"
           /\ preds' \in [Files -> Tables \cup {None}]
  <1>1. PICK r : /\ Script(r) /\ r.kind # "search"
                 /\ KeepPreds \/ \E f \in Files, t \in Tables : Write(f, t)
    <2>1. Calibrated \subseteq Files
      BY ExperimentsAssumption
    <2>2. CASE Evaluate \/ EvaluateCheckpoint \/ EvaluatePreds \/ EvaluateEnsemble
      BY <2>2 DEF Evaluate, EvaluateCheckpoint, EvaluatePreds, EvaluateEnsemble,
                  Scores, GridScore
    <2>3. CASE Calibrate \/ Backtest
      BY <2>1, <2>3 DEF Calibrate, Backtest
    <2>4. CASE BudgetEval \/ BudgetEnsemble \/ BudgetNaive
      BY <2>4 DEF BudgetEval, BudgetEnsemble, BudgetNaive, BudgetOf, BudgetReport
    <2> QED BY <2>2, <2>3, <2>4
  <1> QED BY <1>1, ScriptKeeps

\* What is kept of a search while it reads: nothing is reported.
LEMMA StepKeepsReport ==
    ASSUME SearchInv, NEW s, SearchStep(s)
    PROVE  search' = s /\ preds' \in [Files -> Tables \cup {None}] /\ SearchSeesItsMembers'
  BY DEF SearchInv, Typed, SearchStep, SearchSeesItsMembers

\* The next member, and what has been read once it is.
LEMMA OneMoreRead ==
    ASSUME SearchInv, search # Idle, Len(search.read) < Len(search.members),
           preds[NextMember] # None
    PROVE  LET n == Len(search.read) + 1
           IN  /\ n \in Nat /\ n \in 1 .. Len(search.members) /\ n \in DOMAIN search.members
               /\ NextMember = search.members[n] /\ NextMember \in Files
               /\ Read.read \in Seq(Tables) /\ Len(Read.read) = n
               /\ Read.read[n] = preds[NextMember]
               /\ \A i \in 1 .. Len(search.read) : Read.read[i] = search.read[i]
               /\ DOMAIN Read = Fields
               /\ \A f \in Fields \ {"read"} : Read[f] = search[f]
  <1> DEFINE n == Len(search.read) + 1
  <1>1. /\ DOMAIN search = Fields
        /\ search.members \in Seq(Files) /\ search.read \in Seq(Tables)
        /\ preds \in [Files -> Tables \cup {None}]
    BY DEF SearchInv, Typed
  <1>2. n \in Nat /\ n \in 1 .. Len(search.members) /\ n \in DOMAIN search.members
    BY <1>1, LenProperties
  <1>3. NextMember = search.members[n] /\ NextMember \in Files
    BY <1>1, <1>2, ElementOfSeq DEF NextMember
  <1>4. preds[NextMember] \in Tables
    BY <1>1, <1>3
  <1>5. /\ Read.read = Append(search.read, preds[NextMember])
        /\ DOMAIN Read = Fields
        /\ \A f \in Fields \ {"read"} : Read[f] = search[f]
    BY <1>1 DEF Read, Fields
  <1>6. /\ Read.read \in Seq(Tables) /\ Len(Read.read) = n /\ Read.read[n] = preds[NextMember]
        /\ \A i \in 1 .. Len(search.read) : Read.read[i] = search.read[i]
    BY <1>1, <1>4, <1>5, AppendProperties
  <1> QED BY <1>2, <1>3, <1>5, <1>6

\* ens_search and ens_search3 read a member.
LEMMA LoadKeeps ==
    ASSUME SearchInv, NEW k \in {1, 3}, Loading(k), SearchStep(Read), UNCHANGED cache
    PROVE  SearchInv'
  <1>1. search # Idle /\ search.pc = "load" /\ search.script = k
    BY DEF Loading, Running, Idle
  <1>2. Len(search.read) < Len(search.members) /\ preds[NextMember] # None
    BY DEF Loading
  <1>3. search' = Read /\ preds' \in [Files -> Tables \cup {None}] /\ SearchSeesItsMembers'
    BY StepKeepsReport
  <1>4. /\ Len(search.read) + 1 \in 1 .. Len(search.members)
        /\ Read.read \in Seq(Tables) /\ Len(Read.read) = Len(search.read) + 1
        /\ DOMAIN Read = Fields
        /\ \A f \in Fields \ {"read"} : Read[f] = search[f]
    BY <1>1, <1>2, OneMoreRead
  <1>5. Read.pc = "load" /\ Read.script = k /\ Read.members = search.members
    BY <1>1, <1>4 DEF Fields
  <1>6. search.members \in Seq(Files) /\ search.script \in Scripts /\ DOMAIN cache = Dirs
    BY <1>1 DEF SearchInv, Typed
  <1>7. Typed'
    BY <1>1, <1>3, <1>4, <1>5, <1>6 DEF Typed
  <1>8. CacheIsRead'
    BY <1>3, <1>5 DEF CacheIsRead
  <1> QED BY <1>3, <1>7, <1>8 DEF SearchInv

\* ens_search2 takes a cache file as it is, which it never does with
\* --rebuild_cache.
LEMMA ReuseKeeps ==
    ASSUME SearchInv, ReuseCache
    PROVE  SearchInv'
  <1> DEFINE s == [Read EXCEPT !.reused = @ \cup {CacheName}]
             n == Len(search.read) + 1
  <1>1. /\ search # Idle /\ search.pc = "load" /\ search.script = 2 /\ ~search.rebuild
        /\ cache' = cache
    BY DEF ReuseCache, Loading, Running, Idle, MustBuild
  <1>2. Len(search.read) < Len(search.members) /\ preds[NextMember] # None
    BY DEF ReuseCache, Loading
  <1>3. search' = s /\ preds' \in [Files -> Tables \cup {None}] /\ SearchSeesItsMembers'
    BY StepKeepsReport DEF ReuseCache
  <1>4. /\ n \in Nat /\ n \in 1 .. Len(search.members)
        /\ NextMember = search.members[n]
        /\ Read.read \in Seq(Tables) /\ Len(Read.read) = n
        /\ \A i \in 1 .. Len(search.read) : Read.read[i] = search.read[i]
        /\ DOMAIN Read = Fields
        /\ \A f \in Fields \ {"read"} : Read[f] = search[f]
    BY <1>1, <1>2, OneMoreRead
  <1>5. /\ DOMAIN s = Fields
        /\ s.pc = "load" /\ s.script = 2 /\ s.members = search.members /\ ~s.rebuild
        /\ s.read = Read.read /\ s.reused = search.reused \cup {CacheName}
    BY <1>1, <1>4 DEF Fields
  <1>6. search.members \in Seq(Files) /\ search.script \in Scripts /\ DOMAIN cache = Dirs
        /\ Len(search.read) \in Nat
    BY <1>1, LenProperties DEF SearchInv, Typed
  <1> HIDE DEF s
  <1>7. Typed'
    BY <1>1, <1>3, <1>4, <1>5, <1>6 DEF Typed, Scripts
  <1>8. CacheIsRead'
    <2> SUFFICES ASSUME NEW i \in 1 .. n
                 PROVE  \/ cache[DirOf[search.members[i]]] = Filled(Read.read[i], Len(Rows))
                        \/ DirOf[search.members[i]] \in s.reused
                        \/ Shared(search.members, i)
      BY <1>1, <1>3, <1>4, <1>5 DEF CacheIsRead
    <2>1. CASE i = n
      BY <1>4, <1>5, <2>1 DEF CacheName
    <2>2. CASE i # n
      <3>1. i \in 1 .. Len(search.read)
        BY <1>6, <2>2
      <3> QED BY <1>1, <1>4, <1>5, <3>1 DEF SearchInv, CacheIsRead
    <2> QED BY <2>1, <2>2
  <1> QED BY <1>3, <1>7, <1>8 DEF SearchInv

\* Writing a cache file spoils what was read before only where two members
\* share the file.
LEMMA OthersKept ==
    ASSUME SearchInv, search # Idle, search.script = 2, NEW v,
           Len(search.read) < Len(search.members),
           cache' = [cache EXCEPT ![CacheName] = v]
    PROVE  \A i \in 1 .. Len(search.read) :
             \/ cache'[DirOf[search.members[i]]] = Filled(search.read[i], Len(Rows))
             \/ ~search.rebuild /\ DirOf[search.members[i]] \in search.reused
             \/ Shared(search.members, i)
  <1> SUFFICES ASSUME NEW i \in 1 .. Len(search.read)
               PROVE  \/ cache'[DirOf[search.members[i]]] = Filled(search.read[i], Len(Rows))
                      \/ ~search.rebuild /\ DirOf[search.members[i]] \in search.reused
                      \/ Shared(search.members, i)
    OBVIOUS
  <1> DEFINE n == Len(search.read) + 1
             dir == DirOf[search.members[i]]
  <1>1. /\ search.members \in Seq(Files) /\ search.read \in Seq(Tables)
        /\ DOMAIN cache = Dirs
    BY DEF SearchInv, Typed
  <1>2. /\ Len(search.read) \in Nat /\ Len(search.members) \in Nat
        /\ DOMAIN search.members = 1 .. Len(search.members)
    BY <1>1, LenProperties
  <1>3. n \in DOMAIN search.members \ {i} /\ i \in DOMAIN search.members
    BY <1>2
  <1>4. CASE dir = CacheName
    BY <1>3, <1>4 DEF Shared, CacheName, NextMember
  <1>5. CASE dir # CacheName
    <2>1. search.members[i] \in Files
      BY <1>1, <1>2, <1>3, ElementOfSeq
    <2>2. dir \in DOMAIN cache
      BY <1>1, <2>1 DEF Dirs
    <2>3. cache'[dir] = cache[dir]
      BY <1>5, <2>2
    <2> QED BY <2>3 DEF SearchInv, CacheIsRead
  <1> QED BY <1>4, <1>5

\* ens_search2 begins a cache file.
LEMMA BeginKeeps ==
    ASSUME SearchInv, BeginCache
    PROVE  SearchInv'
  <1> DEFINE s == [search EXCEPT !.pc = "build"]
  <1>1. search # Idle /\ search.pc = "load" /\ search.script = 2
        /\ Len(search.read) < Len(search.members) /\ preds[NextMember] # None /\ preds' = preds
    BY DEF BeginCache, Loading, Running, Idle, SearchStep
  <1>2. PICK v : cache' = [cache EXCEPT ![CacheName] = v]
    BY DEF BeginCache
  <1>3. search' = s /\ preds' \in [Files -> Tables \cup {None}] /\ SearchSeesItsMembers'
    BY StepKeepsReport DEF BeginCache
  <1>4. /\ DOMAIN search = Fields /\ DOMAIN cache = Dirs
        /\ search.members \in Seq(Files) /\ search.read \in Seq(Tables)
    BY <1>1 DEF SearchInv, Typed
  <1>5. /\ DOMAIN s = Fields /\ s.pc = "build" /\ s.script = 2
        /\ s.members = search.members /\ s.read = search.read
        /\ s.rebuild = search.rebuild /\ s.reused = search.reused
    BY <1>1, <1>4 DEF Fields
  <1> HIDE DEF s
  <1>6. DOMAIN cache' = Dirs
    BY <1>2, <1>4
  <1>7. Len(search.read) \in Nat /\ Len(search.members) \in Nat
    BY <1>4, LenProperties
  <1>8. Typed'
    BY <1>1, <1>3, <1>4, <1>5, <1>6, <1>7 DEF Typed, Scripts, NextMember
  <1>9. CacheIsRead'
    BY <1>1, <1>2, <1>3, <1>5, OthersKept DEF CacheIsRead
  <1> QED BY <1>3, <1>8, <1>9 DEF SearchInv

\* ens_search2 completes a cache file, with the predictions it then has read.
LEMMA EndKeeps ==
    ASSUME SearchInv, EndCache
    PROVE  SearchInv'
  <1> DEFINE s == [Read EXCEPT !.pc = "load"]
             n == Len(search.read) + 1
  <1>1. search # Idle /\ search.pc = "build" /\ search.script = 2
    BY DEF EndCache, Running, Idle
  <1>2. /\ Len(search.read) < Len(search.members) /\ preds[NextMember] # None
        /\ DOMAIN cache = Dirs /\ search.members \in Seq(Files) /\ search.read \in Seq(Tables)
    BY <1>1 DEF SearchInv, Typed, NextMember
  <1>3. cache' = [cache EXCEPT ![CacheName] = Filled(preds[NextMember], Len(Rows))]
    BY DEF EndCache
  <1>4. search' = s /\ preds' \in [Files -> Tables \cup {None}] /\ SearchSeesItsMembers'
    BY StepKeepsReport DEF EndCache
  <1>5. /\ n \in Nat /\ n \in 1 .. Len(search.members)
        /\ NextMember = search.members[n] /\ NextMember \in Files
        /\ Read.read \in Seq(Tables) /\ Len(Read.read) = n
        /\ Read.read[n] = preds[NextMember]
        /\ \A i \in 1 .. Len(search.read) : Read.read[i] = search.read[i]
        /\ DOMAIN Read = Fields
        /\ \A f \in Fields \ {"read"} : Read[f] = search[f]
    BY <1>1, <1>2, OneMoreRead
  <1>6. /\ DOMAIN s = Fields
        /\ s.pc = "load" /\ s.script = 2 /\ s.members = search.members
        /\ s.rebuild = search.rebuild /\ s.reused = search.reused
        /\ s.read = Read.read
    BY <1>1, <1>5 DEF Fields
  <1> HIDE DEF s
  <1>7. DOMAIN cache' = Dirs /\ Len(search.read) \in Nat
    BY <1>2, <1>3, LenProperties
  <1>8. Typed'
    BY <1>1, <1>2, <1>4, <1>5, <1>6, <1>7 DEF Typed, Scripts
  <1>9. CacheIsRead'
    <2> SUFFICES ASSUME NEW i \in 1 .. n
                 PROVE  \/ cache'[DirOf[search.members[i]]] = Filled(Read.read[i], Len(Rows))
                        \/ ~search.rebuild /\ DirOf[search.members[i]] \in search.reused
                        \/ Shared(search.members, i)
      BY <1>4, <1>5, <1>6 DEF CacheIsRead
    <2>1. CASE i = n
      <3>1. CacheName \in DOMAIN cache /\ CacheName = DirOf[search.members[n]]
        BY <1>2, <1>5 DEF CacheName, Dirs
      <3> QED BY <1>3, <1>5, <2>1, <3>1
    <2>2. CASE i # n
      <3>1. i \in 1 .. Len(search.read)
        BY <1>7, <2>2
      <3>2. \/ cache'[DirOf[search.members[i]]] = Filled(search.read[i], Len(Rows))
            \/ ~search.rebuild /\ DirOf[search.members[i]] \in search.reused
            \/ Shared(search.members, i)
        BY <1>1, <1>2, <1>3, <3>1, OthersKept
      <3> QED BY <1>5, <3>1, <3>2
    <2> QED BY <2>1, <2>2
  <1> QED BY <1>4, <1>8, <1>9 DEF SearchInv

\* Scoring changes what is best, and not what is scored.
LEMMA ScoreKeeps ==
    ASSUME SearchInv, NEW k \in Scripts, Trial(k) \/ Greedy(k)
    PROVE  SearchInv'
  <1>1. search # Idle /\ search.pc = "load" /\ cache' = cache
    <2>1. CASE Trial(k)
      <3>1. Loaded(k) /\ UNCHANGED cache
        BY <2>1, Zenon DEF Trial
      <3> QED BY <3>1 DEF Loaded, Running, Idle
    <2>2. CASE Greedy(k)
      <3>1. Loaded(k) /\ UNCHANGED cache
        BY <2>2, Zenon DEF Greedy
      <3> QED BY <3>1 DEF Loaded, Running, Idle
    <2> QED BY <2>1, <2>2
  <1>2. PICK s : /\ SearchStep(s) /\ DOMAIN s = DOMAIN search
                 /\ \A f \in DOMAIN search \ {"tried", "trials", "best", "moves"} : s[f] = search[f]
    BY DEF Trial, Greedy
  <1>3. search' = s /\ preds' \in [Files -> Tables \cup {None}] /\ SearchSeesItsMembers'
    BY <1>2, StepKeepsReport
  <1>4. DOMAIN search = Fields
    BY <1>1 DEF SearchInv, Typed
  <1>5. /\ s.pc = "load" /\ s.script = search.script
        /\ s.members = search.members /\ s.read = search.read
        /\ s.rebuild = search.rebuild /\ s.reused = search.reused
    BY <1>1, <1>2, <1>4 DEF Fields
  <1>6. Typed'
    BY <1>1, <1>2, <1>3, <1>4, <1>5 DEF SearchInv, Typed
  <1>7. CacheIsRead'
    BY <1>1, <1>3, <1>5 DEF SearchInv, CacheIsRead
  <1> QED BY <1>3, <1>6, <1>7 DEF SearchInv

\* The report says what was scored.
LEMMA SaveKeeps ==
    ASSUME SearchInv, NEW k \in Scripts, NEW best, NEW against, SaveSearch(k, best, against)
    PROVE  SearchInv'
  <1>1. /\ search # Idle /\ search.script = k /\ Len(search.read) = Len(search.members)
        /\ search' = Idle /\ preds' = preds /\ cache' = cache
    BY DEF SaveSearch, Loaded, Running, Idle
  <1>2. /\ report'.script = k /\ report'.members = search.members /\ report'.read = search.read
        /\ report'.used = Used
        /\ report'.rebuild = search.rebuild /\ report'.reused = search.reused
    BY DEF SaveSearch
  <1>3. search.members \in Seq(Files) /\ search.read \in Seq(Tables)
    BY <1>1 DEF SearchInv, Typed
  <1>4. DOMAIN search.members = 1 .. Len(search.read)
    BY <1>1, <1>3, LenProperties
  <1>5. Typed' /\ CacheIsRead'
    BY <1>1 DEF SearchInv, Typed, CacheIsRead
  <1>6. ASSUME NEW i \in DOMAIN search.members
        PROVE  \/ Used[i] = Filled(search.read[i], Len(Rows))
               \/ k # 2 /\ Used[i] = search.read[i]
               \/ k = 2 /\ ~search.rebuild /\ DirOf[search.members[i]] \in search.reused
               \/ Shared(search.members, i)
    <2>1. CASE k = 2
      <3>1. Used[i] = cache[DirOf[search.members[i]]]
        BY <1>1, <2>1 DEF Used
      <3> QED BY <1>1, <1>4, <2>1, <3>1 DEF SearchInv, CacheIsRead
    <2>2. CASE k # 2
      BY <1>1, <2>2 DEF Used
    <2> QED BY <2>1, <2>2
  <1>7. SearchSeesItsMembers'
    BY <1>2, <1>6 DEF SearchSeesItsMembers, Shared
  <1> QED BY <1>5, <1>7 DEF SearchInv

\* Every step keeps the invariant.
LEMMA SearchStepKeeps == SearchInv /\ [Next]_vars => SearchInv'
  <1> SUFFICES ASSUME SearchInv, [Next]_vars PROVE SearchInv'
    OBVIOUS
  <1>1. CASE \/ Evaluate \/ EvaluateCheckpoint \/ EvaluatePreds \/ Calibrate \/ Backtest
             \/ EvaluateEnsemble \/ BudgetEval \/ BudgetEnsemble \/ BudgetNaive
    <2>1. /\ search' = Idle /\ cache' = cache /\ report'.kind # "search"
          /\ preds' \in [Files -> Tables \cup {None}]
      BY <1>1, OneStepScripts DEF SearchInv, Typed
    <2> QED BY <2>1 DEF SearchInv, Typed, CacheIsRead, SearchSeesItsMembers
  <1>2. CASE ReadReport
    <2>1. report'.kind = "none" /\ UNCHANGED <<preds, cache, search>>
      BY <1>2 DEF ReadReport, NoReport
    <2> QED BY <2>1 DEF SearchInv, Typed, CacheIsRead, SearchSeesItsMembers
  <1>3. CASE StartSearch
    <2>1. PICK script \in Scripts, ms \in MemberLists, rebuild \in BOOLEAN :
             search' = [pc |-> "load", script |-> script, members |-> ms,
                        rebuild |-> rebuild, read |-> << >>, reused |-> {},
                        tried |-> {}, trials |-> 0, best |-> None, moves |-> 0]
      BY <1>3 DEF StartSearch
    <2>2. /\ DOMAIN search' = Fields /\ search'.pc = "load" /\ search'.script = script
          /\ search'.members = ms /\ search'.read = << >>
      BY <2>1 DEF Fields
    <2>3. ms \in Seq(Files) /\ << >> \in Seq(Tables) /\ Len(<< >>) = 0 /\ Len(ms) \in Nat
      BY ExperimentsAssumption, LenProperties
    <2>4. UNCHANGED <<preds, cache, report>>
      BY <1>3 DEF StartSearch
    <2>5. Typed'
      BY <2>2, <2>3, <2>4 DEF SearchInv, Typed
    <2>6. CacheIsRead' /\ SearchSeesItsMembers'
      BY <2>2, <2>3, <2>4 DEF SearchInv, CacheIsRead, SearchSeesItsMembers
    <2> QED BY <2>5, <2>6 DEF SearchInv
  <1>4. CASE LoadMember \/ LoadMember3
    BY <1>4, LoadKeeps DEF LoadMember, LoadMember3
  <1>5. CASE ReuseCache \/ BeginCache \/ EndCache
    BY <1>5, ReuseKeeps, BeginKeeps, EndKeeps
  <1>6. CASE \/ RandomSearch \/ RandomSearch2 \/ RandomSearch3
             \/ GreedySearch \/ GreedySearch2 \/ GreedySearch3
    <2>1. PICK k \in Scripts : Trial(k) \/ Greedy(k)
      BY <1>6 DEF RandomSearch, RandomSearch2, RandomSearch3, GreedySearch, GreedySearch2,
                  GreedySearch3, Scripts
    <2> QED BY <2>1, ScoreKeeps
  <1>7. CASE SaveBest \/ SaveBest2 \/ SaveBest3
    <2>1. PICK k \in Scripts : \E best, against : SaveSearch(k, best, against)
      BY <1>7 DEF SaveBest, SaveBest2, SaveBest3, Scripts
    <2> QED BY <2>1, SaveKeeps
  <1>8. CASE KillSearch
    BY <1>8 DEF KillSearch, SearchInv, Typed, CacheIsRead, SearchSeesItsMembers
  <1>9. CASE UNCHANGED vars
    BY <1>9 DEF vars, SearchInv, Typed, CacheIsRead, SearchSeesItsMembers
  <1> QED BY <1>1, <1>2, <1>3, <1>4, <1>5, <1>6, <1>7, <1>8, <1>9 DEF Next

\* Whatever was predicted, cached and killed before, what a search reports was
\* scored on the predictions its members' files held; where ens_search2 may
\* miss, without --rebuild_cache or with two members in one cache file, the
\* report shows it (ens_search2.py build_member_cache, main).
THEOREM SearchesAreHonest == Spec => []SearchSeesItsMembers
  <1>1. SearchInv => SearchSeesItsMembers
    BY DEF SearchInv
  <1> QED BY <1>1, SearchStarts, SearchStepKeeps, PTL DEF Spec

-----------------------------------------------------------------------------
(* Folds.  Every sum and every simulation of BidMath is a fold of the         *)
(* community modules, that is, a function chosen to satisfy a recursion over  *)
(* the subsets of a set.  The lemmas below show that such a function exists.  *)
(* Induction is stated for sets of naturals and of subsets.                   *)

\* Every non-empty set of naturals has a least element.
LEMMA LeastNatural ==
    ASSUME NEW T, T \subseteq Nat, T # {}
    PROVE  \E m \in T : \A k \in T : m <= k
  <1> DEFINE R == OpToRel(<, Nat)
  <1>1. IsWellFoundedOn(R, Nat)
    BY NatLessThanWellFounded
  <1> HIDE DEF R
  <1>2. PICK m \in T : \A k \in T : ~(<<k, m>> \in R)
    BY <1>1, WFMin
  <1> USE DEF R
  <1>3. \A k \in T : ~(k < m)
    BY <1>2 DEF OpToRel
  <1> QED BY <1>3

\* Induction over the naturals.
LEMMA Induction ==
    ASSUME NEW T, 0 \in T, \A n \in Nat : n \in T => n + 1 \in T
    PROVE  \A n \in Nat : n \in T
  <1> DEFINE Bad == Nat \ T
  <1> SUFFICES ASSUME Bad # {} PROVE FALSE
    OBVIOUS
  <1>1. PICK n \in Bad : \A m \in Bad : n <= m
    BY LeastNatural
  <1>2. n - 1 \in Nat /\ n - 1 \notin Bad
    BY <1>1
  <1>3. (n - 1) + 1 \in T
    BY <1>2
  <1> QED BY <1>3

Picks(take, S) == \A s \in SUBSET S : s # {} => take[s] \in s

\* What is left of a finite set when one element is taken.
LEMMA OneTaken ==
    ASSUME NEW S, IsFiniteSet(S), NEW s \in SUBSET S, NEW x \in s
    PROVE  /\ s \ {x} \in SUBSET S /\ IsFiniteSet(s)
           /\ Cardinality(s) \in Nat /\ Cardinality(s \ {x}) \in Nat
           /\ Cardinality(s \ {x}) = Cardinality(s) - 1
  <1>1. IsFiniteSet(s) /\ IsFiniteSet(s \ {x})
    BY FS_Subset
  <1>2. Cardinality(s \ {x}) = Cardinality(s) - 1
    BY <1>1, FS_RemoveElement
  <1> QED BY <1>1, <1>2, FS_CardinalityType

\* The size of a subset, and the empty one.
LEMMA SubsetSize ==
    ASSUME NEW S, IsFiniteSet(S), NEW s \in SUBSET S
    PROVE  IsFiniteSet(s) /\ Cardinality(s) \in Nat /\ (Cardinality(s) = 0 <=> s = {})
  BY FS_Subset, FS_CardinalityType, FS_EmptySet

\* Induction along the elements that are taken.
LEMMA SubsetInduction ==
    ASSUME NEW S, IsFiniteSet(S), NEW take, Picks(take, S), NEW T, {} \in T,
           \A s \in SUBSET S : s # {} /\ s \ {take[s]} \in T => s \in T
    PROVE  \A s \in SUBSET S : s \in T
  <1> DEFINE Done == {n \in Nat : \A s \in SUBSET S : Cardinality(s) = n => s \in T}
  <1>1. 0 \in Done
    <2>1. \A s \in SUBSET S : Cardinality(s) = 0 => s = {}
      BY SubsetSize
    <2> QED BY <2>1
  <1>2. ASSUME NEW n \in Nat, n \in Done PROVE n + 1 \in Done
    <2> SUFFICES ASSUME NEW s \in SUBSET S, Cardinality(s) = n + 1 PROVE s \in T
      OBVIOUS
    <2>1. s # {}
      BY SubsetSize
    <2>2. take[s] \in s
      BY <2>1 DEF Picks
    <2>3. s \ {take[s]} \in SUBSET S /\ Cardinality(s \ {take[s]}) = n
      BY <2>2, OneTaken
    <2> QED BY <1>2, <2>1, <2>3
  <1> HIDE DEF Done
  <1>3. \A n \in Nat : n \in Done
    BY <1>1, <1>2, Induction
  <1> USE DEF Done
  <1> QED BY <1>3, SubsetSize

Step(f, base, take, step, s) ==
    IF s = {} THEN base ELSE step[<<take[s], f[s \ {take[s]}]>>]
IsFold(f, S, D, base, take, step) ==
    f \in [SUBSET S -> D] /\ \A s \in SUBSET S : f[s] = Step(f, base, take, step, s)

\* A fold over a finite set exists, and its values are of the type that its
\* step keeps.
LEMMA FoldExists ==
    ASSUME NEW S, IsFiniteSet(S), NEW D, NEW base \in D, NEW take, Picks(take, S),
           NEW step \in [S \X D -> D]
    PROVE  \E f : IsFold(f, S, D, base, take, step)
  <1> DEFINE Upto(n) == {s \in SUBSET S : Cardinality(s) <= n}
             Solves(f, n) == f \in [Upto(n) -> D]
                             /\ \A s \in Upto(n) : f[s] = Step(f, base, take, step, s)
             Done == {n \in Nat : \E f : Solves(f, n)}
  <1>1. 0 \in Done
    <2> DEFINE f == [s \in Upto(0) |-> base]
    <2>1. \A s \in Upto(0) : s = {}
      BY SubsetSize
    <2>2. Solves(f, 0)
      BY <2>1 DEF Step
    <2> QED BY <2>2
  <1>2. ASSUME NEW n \in Nat, n \in Done PROVE n + 1 \in Done
    <2>1. PICK f : Solves(f, n)
      BY <1>2
    <2> DEFINE h == [s \in Upto(n + 1) |-> Step(f, base, take, step, s)]
    <2>2. ASSUME NEW s \in Upto(n + 1), s # {}
          PROVE  s \ {take[s]} \in Upto(n) /\ take[s] \in S
      <3>1. take[s] \in s
        BY <2>2 DEF Picks
      <3>2. /\ s \ {take[s]} \in SUBSET S /\ Cardinality(s) \in Nat
            /\ Cardinality(s \ {take[s]}) = Cardinality(s) - 1
        <4>1. s \in SUBSET S /\ IsFiniteSet(S)
          OBVIOUS
        <4> QED BY ONLY <3>1, <4>1, OneTaken
      <3> QED BY <3>1, <3>2
    <2>3. \A s \in Upto(n) : s \in Upto(n + 1)
      BY SubsetSize
    <2>4. \A s \in Upto(n) : h[s] = f[s]
      BY <2>1, <2>3
    <2>5. ASSUME NEW s \in Upto(n + 1)
          PROVE  h[s] \in D /\ h[s] = Step(h, base, take, step, s)
      <3>1. CASE s = {}
        BY <3>1 DEF Step
      <3>2. CASE s # {}
        <4>1. s \ {take[s]} \in Upto(n) /\ take[s] \in S
          BY <2>2, <3>2
        <4>2. f[s \ {take[s]}] \in D /\ h[s \ {take[s]}] = f[s \ {take[s]}]
          BY <2>1, <2>4, <4>1
        <4>3. h[s] = step[<<take[s], f[s \ {take[s]}]>>]
          BY <3>2 DEF Step
        <4>4. <<take[s], f[s \ {take[s]}]>> \in S \X D
          BY <4>1, <4>2
        <4> QED BY <3>2, <4>2, <4>3, <4>4 DEF Step
      <3> QED BY <3>1, <3>2
    <2>6. h = [s \in Upto(n + 1) |-> h[s]]
      OBVIOUS
    <2> HIDE DEF h
    <2>7. Solves(h, n + 1)
      BY <2>5, <2>6
    <2> HIDE DEF Solves
    <2> QED BY <2>7
  <1> HIDE DEF Done
  <1>3. \A n \in Nat : n \in Done
    BY <1>1, <1>2, Induction
  <1> USE DEF Done
  <1>4. Cardinality(S) \in Nat /\ \A s \in SUBSET S : Cardinality(s) <= Cardinality(S)
    BY FS_Subset, FS_CardinalityType
  <1>5. Upto(Cardinality(S)) = SUBSET S
    BY <1>4
  <1> QED BY <1>3, <1>4, <1>5 DEF IsFold

Some(s) == CHOOSE x \in s : TRUE
SumsUp(f, g, S) ==
    f = [s \in SUBSET S |-> IF s = {} THEN 0 ELSE g[Some(s)] + f[s \ {Some(s)}]]

\* A sum is the value, at the whole set, of a solution of its recursion, and
\* all values of that are integers.
LEMMA SumUnfolds ==
    ASSUME NEW S, IsFiniteSet(S), NEW g, \A x \in S : g[x] \in Int
    PROVE  \E f \in [SUBSET S -> Int] : SumsUp(f, g, S) /\ SumFunctionOnSet(g, S) = f[S]
  <1> DEFINE take == [s \in SUBSET S |-> Some(s)]
             step == [x \in S \X Int |-> g[x[1]] + x[2]]
             F == CHOOSE f : SumsUp(f, g, S)
  <1>1. Picks(take, S)
    BY DEF Picks, Some
  <1>2. step \in [S \X Int -> Int]
    OBVIOUS
  <1>3. PICK f \in [SUBSET S -> Int] : \A s \in SUBSET S : f[s] = Step(f, 0, take, step, s)
    <2> DEFINE D == Int
               zero == 0
    <2>1. zero \in D /\ step \in [S \X D -> D]
      BY <1>2
    <2> HIDE DEF take, step, D, zero
    <2>2. \E f : IsFold(f, S, D, zero, take, step)
      BY <1>1, <2>1, FoldExists
    <2> QED BY <2>2 DEF D, zero, IsFold
  <1>4. ASSUME NEW s \in SUBSET S
        PROVE  f[s] = IF s = {} THEN 0 ELSE g[Some(s)] + f[s \ {Some(s)}]
    <2>1. CASE s = {}
      BY <1>3, <2>1 DEF Step
    <2>2. CASE s # {}
      <3>1. take[s] = Some(s) /\ Some(s) \in S /\ f[s \ {Some(s)}] \in Int
        BY <1>1, <2>2 DEF Picks
      <3>2. f[s] = step[<<take[s], f[s \ {take[s]}]>>]
        BY <1>3, <2>2 DEF Step
      <3>3. <<Some(s), f[s \ {Some(s)}]>> \in S \X Int
        BY <3>1
      <3> QED BY <2>2, <3>1, <3>2, <3>3
    <2> QED BY <2>1, <2>2
  <1>5. SumsUp(f, g, S)
    BY <1>3, <1>4 DEF SumsUp
  <1>6. SumsUp(F, g, S)
    BY <1>5
  <1>7. SumFunctionOnSet(g, S) = F[S]
    BY DEF SumFunctionOnSet, FoldFunctionOnSet, MapThenFoldSet, SumsUp, Some
  <1> HIDE DEF F
  <1>8. \A s \in SUBSET S : F[s] \in Int
    <2> DEFINE T == {s \in SUBSET S : F[s] \in Int}
    <2>1. {} \in T
      BY <1>6 DEF SumsUp
    <2>2. ASSUME NEW s \in SUBSET S, s # {} /\ s \ {take[s]} \in T PROVE s \in T
      <3>1. take[s] = Some(s) /\ Some(s) \in S
        BY <1>1, <2>2 DEF Picks
      <3>2. F[s] = g[Some(s)] + F[s \ {Some(s)}]
        BY <1>6, <2>2 DEF SumsUp
      <3> QED BY <2>2, <3>1, <3>2
    <2> HIDE DEF T, take
    <2>3. \A s \in SUBSET S : s \in T
      BY <1>1, <2>1, <2>2, SubsetInduction
    <2> USE DEF T
    <2> QED BY <2>3
  <1>9. F \in [SUBSET S -> Int]
    BY <1>6, <1>8 DEF SumsUp
  <1> QED BY <1>6, <1>7, <1>9

\* Two solutions of the recursion agree where both are defined.
LEMMA SumsAgree ==
    ASSUME NEW S, IsFiniteSet(S), NEW R \in SUBSET S, NEW g,
           NEW f, SumsUp(f, g, S), NEW h, SumsUp(h, g, R)
    PROVE  f[R] = h[R]
  <1> DEFINE take == [s \in SUBSET R |-> Some(s)]
             T == {s \in SUBSET R : f[s] = h[s]}
  <1>1. Picks(take, R) /\ IsFiniteSet(R)
    BY FS_Subset DEF Picks, Some
  <1>2. {} \in T
    BY DEF SumsUp
  <1>3. ASSUME NEW s \in SUBSET R, s # {} /\ s \ {take[s]} \in T PROVE s \in T
    <2>1. f[s] = g[Some(s)] + f[s \ {Some(s)}] /\ h[s] = g[Some(s)] + h[s \ {Some(s)}]
      BY <1>3 DEF SumsUp
    <2> QED BY <1>3, <2>1
  <1> HIDE DEF T, take
  <1>4. R \in T
    BY <1>1, <1>2, <1>3, SubsetInduction
  <1> QED BY <1>4 DEF T

\* The sum of nothing is 0, and whichever summand is set apart, the sum is
\* that summand and the sum of the others.
LEMMA SumSplits ==
    ASSUME NEW S, IsFiniteSet(S), NEW g, \A x \in S : g[x] \in Int
    PROVE  /\ SumFunctionOnSet(g, S) \in Int
           /\ S = {} => SumFunctionOnSet(g, S) = 0
           /\ \A x \in S : SumFunctionOnSet(g, S) = g[x] + SumFunctionOnSet(g, S \ {x})
  <1>1. PICK f \in [SUBSET S -> Int] : SumsUp(f, g, S) /\ SumFunctionOnSet(g, S) = f[S]
    BY SumUnfolds
  <1>2. S = {} => f[S] = 0
    BY <1>1 DEF SumsUp
  <1> DEFINE Done == {n \in Nat : \A s \in SUBSET S : \A x \in s :
                                    Cardinality(s) = n => f[s] = g[x] + f[s \ {x}]}
  <1>3. 0 \in Done
    <2>1. \A s \in SUBSET S : Cardinality(s) = 0 => s = {}
      BY SubsetSize
    <2> QED BY <2>1
  <1>4. ASSUME NEW n \in Nat, n \in Done PROVE n + 1 \in Done
    <2> SUFFICES ASSUME NEW s \in SUBSET S, NEW x \in s, Cardinality(s) = n + 1
                 PROVE  f[s] = g[x] + f[s \ {x}]
      OBVIOUS
    <2> DEFINE y == Some(s)
    <2>1. y \in s /\ f[s] = g[y] + f[s \ {y}]
      BY <1>1 DEF SumsUp, Some
    <2> HIDE DEF y
    <2>2. CASE x = y
      BY <2>1, <2>2
    <2>3. CASE x # y
      <3>1. /\ s \ {y} \in SUBSET S /\ Cardinality(s \ {y}) = n
            /\ s \ {x} \in SUBSET S /\ Cardinality(s \ {x}) = n
        BY <2>1, OneTaken
      <3>2. x \in s \ {y} /\ y \in s \ {x}
        BY <2>1, <2>3
      <3> DEFINE r == s \ {x, y}
      <3>3. (s \ {y}) \ {x} = r /\ (s \ {x}) \ {y} = r /\ r \in SUBSET S
        OBVIOUS
      <3> HIDE DEF r
      <3>4. f[s \ {y}] = g[x] + f[r] /\ f[s \ {x}] = g[y] + f[r]
        <4>1. \A q \in SUBSET S : \A z \in q : Cardinality(q) = n => f[q] = g[z] + f[q \ {z}]
          BY <1>4
        <4> HIDE DEF Done
        <4>2. /\ f[s \ {y}] = g[x] + f[(s \ {y}) \ {x}]
              /\ f[s \ {x}] = g[y] + f[(s \ {x}) \ {y}]
          BY <3>1, <3>2, <4>1
        <4> QED BY <3>3, <4>2
      <3>5. g[x] \in Int /\ g[y] \in Int /\ f[r] \in Int
        BY <2>1, <3>3
      <3> QED BY <2>1, <3>4, <3>5
    <2> QED BY <2>2, <2>3
  <1> HIDE DEF Done
  <1>5. \A n \in Nat : n \in Done
    BY <1>3, <1>4, Induction
  <1>6. ASSUME NEW x \in S PROVE f[S] = g[x] + f[S \ {x}] /\ f[S \ {x}] = SumFunctionOnSet(g, S \ {x})
    <2>1. Cardinality(S) \in Nat
      BY FS_CardinalityType
    <2>2. f[S] = g[x] + f[S \ {x}]
      BY <1>5, <2>1 DEF Done
    <2>3. IsFiniteSet(S \ {x}) /\ S \ {x} \in SUBSET S
      BY FS_Subset
    <2>4. PICK h : SumsUp(h, g, S \ {x}) /\ SumFunctionOnSet(g, S \ {x}) = h[S \ {x}]
      BY <2>3, SumUnfolds
    <2> QED BY <1>1, <2>2, <2>3, <2>4, SumsAgree
  <1> QED BY <1>1, <1>2, <1>6

\* A sum of naturals is a natural.
LEMMA SumNatural ==
    ASSUME NEW S, IsFiniteSet(S), NEW g, \A x \in S : g[x] \in Nat
    PROVE  SumFunctionOnSet(g, S) \in Nat
  <1>1. PICK f : SumsUp(f, g, S) /\ SumFunctionOnSet(g, S) = f[S]
    <2>1. \A x \in S : g[x] \in Int
      OBVIOUS
    <2> QED BY <2>1, SumUnfolds
  <1> DEFINE take == [s \in SUBSET S |-> Some(s)]
             T == {s \in SUBSET S : f[s] \in Nat}
  <1>2. Picks(take, S)
    BY DEF Picks, Some
  <1>3. {} \in T
    BY <1>1 DEF SumsUp
  <1>4. ASSUME NEW s \in SUBSET S, s # {} /\ s \ {take[s]} \in T PROVE s \in T
    <2>1. take[s] = Some(s) /\ Some(s) \in S
      BY <1>2, <1>4 DEF Picks
    <2>2. f[s] = g[Some(s)] + f[s \ {Some(s)}]
      BY <1>1, <1>4 DEF SumsUp
    <2> QED BY <1>4, <2>1, <2>2
  <1> HIDE DEF T, take
  <1>5. S \in T
    BY <1>2, <1>3, <1>4, SubsetInduction
  <1> QED BY <1>1, <1>5 DEF T

Multiplies(f, g, S) ==
    f = [s \in SUBSET S |-> IF s = {} THEN 1 ELSE g[Some(s)] * f[s \ {Some(s)}]]

\* A product of naturals is a natural.
LEMMA ProductType ==
    ASSUME NEW S, IsFiniteSet(S), NEW g \in [S -> Nat]
    PROVE  Product(g) \in Nat
  <1> DEFINE take == [s \in SUBSET S |-> Some(s)]
             step == [x \in S \X Nat |-> g[x[1]] * x[2]]
             F == CHOOSE f : Multiplies(f, g, S)
  <1>1. Picks(take, S)
    BY DEF Picks, Some
  <1>2. step \in [S \X Nat -> Nat]
    <2>1. ASSUME NEW x \in S \X Nat PROVE g[x[1]] * x[2] \in Nat
      <3>1. g[x[1]] \in Nat /\ x[2] \in Nat
        OBVIOUS
      <3>2. \A a \in Nat, b \in Nat : a * b \in Nat
        OBVIOUS
      <3> QED BY <3>1, <3>2
    <2> QED BY <2>1
  <1>3. PICK f \in [SUBSET S -> Nat] : \A s \in SUBSET S : f[s] = Step(f, 1, take, step, s)
    <2> DEFINE D == Nat
               one == 1
    <2>1. one \in D /\ step \in [S \X D -> D]
      BY <1>2
    <2> HIDE DEF take, step, D, one
    <2>2. \E f : IsFold(f, S, D, one, take, step)
      BY <1>1, <2>1, FoldExists
    <2> QED BY <2>2 DEF D, one, IsFold
  <1>4. ASSUME NEW s \in SUBSET S
        PROVE  f[s] = IF s = {} THEN 1 ELSE g[Some(s)] * f[s \ {Some(s)}]
    <2>1. CASE s = {}
      BY <1>3, <2>1 DEF Step
    <2>2. CASE s # {}
      <3>1. take[s] = Some(s) /\ Some(s) \in S /\ f[s \ {Some(s)}] \in Nat
        BY <1>1, <2>2 DEF Picks
      <3>2. f[s] = step[<<take[s], f[s \ {take[s]}]>>]
        BY <1>3, <2>2 DEF Step
      <3>3. <<Some(s), f[s \ {Some(s)}]>> \in S \X Nat
        BY <3>1
      <3> QED BY <2>2, <3>1, <3>2, <3>3
    <2> QED BY <2>1, <2>2
  <1>5. Multiplies(f, g, S)
    BY <1>3, <1>4 DEF Multiplies
  <1>6. Multiplies(F, g, S)
    BY <1>5
  <1>7. Product(g) = F[S]
    BY DEF Product, FoldFunction, FoldFunctionOnSet, MapThenFoldSet, Multiplies, Some
  <1> HIDE DEF F
  <1> DEFINE T == {s \in SUBSET S : F[s] \in Nat}
  <1>8. {} \in T
    BY <1>6 DEF Multiplies
  <1>9. ASSUME NEW s \in SUBSET S, s # {} /\ s \ {take[s]} \in T PROVE s \in T
    <2>1. take[s] = Some(s) /\ Some(s) \in S
      BY <1>1, <1>9 DEF Picks
    <2>2. F[s] = g[Some(s)] * F[s \ {Some(s)}]
      BY <1>6, <1>9 DEF Multiplies
    <2>3. g[Some(s)] \in Nat /\ F[s \ {Some(s)}] \in Nat
      BY <1>9, <2>1
    <2>4. \A a \in Nat, b \in Nat : a * b \in Nat
      OBVIOUS
    <2> QED BY <2>2, <2>3, <2>4
  <1> HIDE DEF T, take
  <1>10. \A s \in SUBSET S : s \in T
    BY <1>1, <1>8, <1>9, SubsetInduction
  <1> QED BY <1>7, <1>10 DEF T

-----------------------------------------------------------------------------
(* Distributions and the bids that maximise a score *)

Best(C, score, c) ==
    c \in C /\ \A d \in C : score[d] < score[c] \/ (score[d] = score[c] /\ c <= d)

\* A score has a first maximum over any set of candidates, and only one.
LEMMA FirstBest ==
    ASSUME NEW m \in Nat, NEW C \in SUBSET (0 .. m), C # {},
           NEW score, \A c \in C : score[c] \in Int
    PROVE  \E c : Best(C, score, c)
  <1> DEFINE Done == {n \in Nat : \A B \in SUBSET C :
                        B # {} /\ (\A b \in B : b <= n) => \E c : Best(B, score, c)}
  <1>1. 0 \in Done
    <2> SUFFICES ASSUME NEW B \in SUBSET C, B # {}, \A b \in B : b <= 0
                 PROVE  \E c : Best(B, score, c)
      OBVIOUS
    <2>1. \A b \in B : b = 0
      OBVIOUS
    <2>2. Best(B, score, 0)
      BY <2>1 DEF Best
    <2> QED BY <2>2
  <1>2. ASSUME NEW n \in Nat, n \in Done PROVE n + 1 \in Done
    <2> SUFFICES ASSUME NEW B \in SUBSET C, B # {}, \A b \in B : b <= n + 1
                 PROVE  \E c : Best(B, score, c)
      OBVIOUS
    <2> DEFINE A == B \ {n + 1}
    <2>1. \A b \in A : b <= n
      OBVIOUS
    <2>2. CASE A = {}
      <3>1. B = {n + 1}
        BY <2>2
      <3>2. Best(B, score, n + 1)
        BY <3>1 DEF Best
      <3> QED BY <3>2
    <2>3. CASE A # {}
      <3>1. PICK c : Best(A, score, c)
        BY <1>2, <2>1, <2>3
      <3>2. c \in C /\ c \in B /\ c <= n /\ c \in Int /\ score[c] \in Int
        BY <2>1, <3>1 DEF Best
      <3>3. CASE n + 1 \notin B
        <4>1. B = A
          BY <3>3
        <4> QED BY <3>1, <4>1
      <3>4. CASE n + 1 \in B
        <4>1. score[n + 1] \in Int
          BY <3>4
        <4>2. ASSUME score[n + 1] > score[c] PROVE Best(B, score, n + 1)
          <5> SUFFICES ASSUME NEW d \in B
                       PROVE  score[d] < score[n + 1] \/ (score[d] = score[n + 1] /\ n + 1 <= d)
            BY <3>4 DEF Best
          <5>1. score[d] \in Int
            OBVIOUS
          <5>2. CASE d = n + 1
            BY <5>2
          <5>3. CASE d # n + 1
            BY <3>1, <3>2, <4>1, <4>2, <5>1, <5>3 DEF Best
          <5> QED BY <5>2, <5>3
        <4>3. ASSUME ~(score[n + 1] > score[c]) PROVE Best(B, score, c)
          <5> SUFFICES ASSUME NEW d \in B
                       PROVE  score[d] < score[c] \/ (score[d] = score[c] /\ c <= d)
            BY <3>2 DEF Best
          <5>2. CASE d = n + 1
            BY <3>2, <4>1, <4>3, <5>2
          <5>3. CASE d # n + 1
            BY <3>1, <5>3 DEF Best
          <5> QED BY <5>2, <5>3
        <4> QED BY <4>2, <4>3
      <3> QED BY <3>3, <3>4
    <2> QED BY <2>2, <2>3
  <1> HIDE DEF Done
  <1>3. \A n \in Nat : n \in Done
    BY <1>1, <1>2, Induction
  <1>4. \A B \in SUBSET C : B # {} /\ (\A b \in B : b <= m) => \E c : Best(B, score, c)
    BY <1>3 DEF Done
  <1>5. C \in SUBSET C /\ \A b \in C : b <= m
    OBVIOUS
  <1> QED BY <1>4, <1>5

\* No two candidates are the first maximum.
LEMMA OneBest ==
    ASSUME NEW m \in Nat, NEW C \in SUBSET (0 .. m),
           NEW score, \A c \in C : score[c] \in Int,
           NEW c, Best(C, score, c), NEW d, Best(C, score, d)
    PROVE  c = d
  BY DEF Best

\* The recursion of the cumulative shares has a solution.
LEMMA CdfUnfolds ==
    ASSUME NEW m \in Nat, NEW p \in [0 .. m -> Nat]
    PROVE  /\ Cdf(p) \in [0 .. m -> Nat]
           /\ \A k \in 0 .. m : Cdf(p)[k] = p[k] + (IF k = 0 THEN 0 ELSE Cdf(p)[k - 1])
  <1> DEFINE Val(c, k) == p[k] + (IF k = 0 THEN 0 ELSE c[k - 1])
             Solves(c, n) == c \in [0 .. n -> Nat] /\ \A k \in 0 .. n : c[k] = Val(c, k)
             Done == {n \in Nat : n <= m => \E c : Solves(c, n)}
             C == CHOOSE c : c = [k \in 0 .. m |-> Val(c, k)]
  <1>1. 0 \in Done
    <2> DEFINE c == [k \in 0 .. 0 |-> p[0]]
    <2>1. Solves(c, 0)
      OBVIOUS
    <2> HIDE DEF Solves
    <2> QED BY <2>1
  <1>2. ASSUME NEW n \in Nat, n \in Done PROVE n + 1 \in Done
    <2> SUFFICES ASSUME n + 1 <= m PROVE \E c : Solves(c, n + 1)
      OBVIOUS
    <2>1. PICK c : Solves(c, n)
      <3>1. n <= m
        OBVIOUS
      <3> HIDE DEF Solves
      <3> QED BY <1>2, <3>1
    <2> DEFINE h == [k \in 0 .. n + 1 |-> Val(c, k)]
    <2>2. \A k \in 0 .. n : h[k] = c[k] /\ c[k] \in Nat
      BY <2>1
    <2>3. ASSUME NEW k \in 0 .. n + 1 PROVE h[k] \in Nat /\ h[k] = Val(h, k)
      <3>1. p[k] \in Nat
        OBVIOUS
      <3>2. CASE k = 0
        BY <3>1, <3>2
      <3>3. CASE k # 0
        <4>1. k - 1 \in 0 .. n
          BY <3>3
        <4>2. h[k - 1] = c[k - 1] /\ c[k - 1] \in Nat /\ h[k] = p[k] + c[k - 1]
          BY <2>2, <3>3, <4>1
        <4> QED BY <3>1, <3>3, <4>2, SMTT(60)
      <3> QED BY <3>2, <3>3
    <2>4. h = [k \in 0 .. n + 1 |-> h[k]]
      OBVIOUS
    <2> HIDE DEF h
    <2>5. Solves(h, n + 1)
      BY <2>3, <2>4
    <2> HIDE DEF Solves
    <2> QED BY <2>5
  <1> HIDE DEF Done
  <1>3. \A n \in Nat : n \in Done
    BY <1>1, <1>2, Induction
  <1>4. PICK c : Solves(c, m)
    <2> HIDE DEF Solves
    <2> QED BY <1>3 DEF Done
  <1>5. c = [k \in 0 .. m |-> Val(c, k)]
    BY <1>4
  <1>6. C = [k \in 0 .. m |-> Val(C, k)]
    BY <1>5
  <1>7. Cdf(p) = C
    BY DEF Cdf
  <1> HIDE DEF C
  <1>8. \A k \in 0 .. m : C[k] = Val(C, k)
    BY <1>6
  <1> DEFINE Typed2 == {n \in Nat : n <= m => C[n] \in Nat}
  <1>9. 0 \in Typed2
    BY <1>8
  <1>10. ASSUME NEW n \in Nat, n \in Typed2 PROVE n + 1 \in Typed2
    <2> SUFFICES ASSUME n + 1 <= m PROVE C[n + 1] \in Nat
      OBVIOUS
    <2>1. C[n] \in Nat /\ n + 1 \in 0 .. m /\ (n + 1) - 1 = n /\ n + 1 # 0
      BY <1>10
    <2>2. C[n + 1] = p[n + 1] + C[n]
      BY <1>8, <2>1
    <2> QED BY <2>1, <2>2
  <1> HIDE DEF Typed2
  <1>11. \A n \in Nat : n \in Typed2
    BY <1>9, <1>10, Induction
  <1>12. \A k \in 0 .. m : C[k] \in Nat
    BY <1>11 DEF Typed2
  <1>13. C \in [0 .. m -> Nat]
    BY <1>6, <1>12
  <1> QED BY <1>7, <1>8, <1>13

\* The last bin, and the largest of an interval.
LEMMA BinsShape ==
    /\ NumBins - 1 \in Nat /\ Bins = 0 .. NumBins - 1 /\ Top = 2 * (NumBins - 1)
    /\ \A m \in Nat : Max(0 .. m) = m
  <1>1. NumBins - 1 \in Nat /\ Bins = 0 .. NumBins - 1 /\ Top = 2 * (NumBins - 1)
    BY BinsAssumption DEF Bins, Top, Price
  <1>2. ASSUME NEW m \in Nat PROVE Max(0 .. m) = m
    <2>1. m \in 0 .. m /\ \A y \in 0 .. m : m >= y
      OBVIOUS
    <2>2. \A x \in 0 .. m : (\A y \in 0 .. m : x >= y) => x = m
      OBVIOUS
    <2> QED BY <2>1, <2>2 DEF Max
  <1> QED BY <1>1, <1>2

\* The bin of a bid, and the share at or below it.
LEMMA CdfAtType ==
    ASSUME NEW m \in Nat, NEW p \in [0 .. m -> Nat], NEW b \in Nat
    PROVE  /\ BinOf(p, b) = IF b \div 2 <= m THEN b \div 2 ELSE m
           /\ BinOf(p, b) \in 0 .. m /\ CdfAt(p, b) \in Nat
  <1>1. DOMAIN p = 0 .. m
    OBVIOUS
  <1>2. BinOf(p, b) = IF b \div 2 <= m THEN b \div 2 ELSE m
    BY <1>1, BinsShape DEF BinOf
  <1>3. BinOf(p, b) \in 0 .. m
    BY <1>2
  <1> QED BY <1>2, <1>3, CdfUnfolds DEF CdfAt

\* A distribution has a last bin, and is one over NumBins bins once it is cut
\* or padded.
LEMMA DistributionShape ==
    ASSUME NEW p, IsDistribution(p)
    PROVE  /\ \E m \in Nat : DOMAIN p = 0 .. m /\ p \in [0 .. m -> Nat]
           /\ ToBins(p) \in [Bins -> Nat]
  <1> DEFINE m == Cardinality(DOMAIN p) - 1
  <1>1. /\ DOMAIN p = 0 .. m /\ p \in [DOMAIN p -> Nat]
        /\ IsFiniteSet(DOMAIN p) /\ DOMAIN p # {}
    BY DEF IsDistribution
  <1>2. m \in Nat
    BY <1>1, FS_CardinalityType, FS_EmptySet
  <1> HIDE DEF m
  <1>3. ToBins(p) \in [Bins -> Nat]
    BY <1>1 DEF ToBins
  <1> QED BY <1>1, <1>2, <1>3

IsTable(t) == \A i \in DOMAIN Rows : IsDistribution(t[i])

\* Rows are a finite sequence of prices on the grid and bids.
LEMMA RowTypes ==
    /\ IsFiniteSet(DOMAIN Rows) /\ Len(Rows) \in Nat /\ DOMAIN Rows = 1 .. Len(Rows)
    /\ \A i \in DOMAIN Rows : Pays[i] \in Nat /\ Pays[i] = Rows[i].pay /\ Rows[i].bid \in Nat
    /\ FixedV \in Nat /\ \A R \in SUBSET DOMAIN Rows : IsFiniteSet(R)
  <1>1. Rows \in Seq([pay : 0 .. Top, bid : Nat]) /\ FixedV \in Nat
    BY ExperimentsAssumption
  <1>2. Len(Rows) \in Nat /\ DOMAIN Rows = 1 .. Len(Rows)
    BY <1>1, LenProperties
  <1>3. IsFiniteSet(DOMAIN Rows) /\ \A R \in SUBSET DOMAIN Rows : IsFiniteSet(R)
    <2>1. 1 \in Int /\ Len(Rows) \in Int
      BY <1>2
    <2>2. IsFiniteSet(1 .. Len(Rows))
      BY <2>1, FS_Interval
    <2> QED BY <1>2, <2>2, FS_Subset
  <1>4. \A i \in DOMAIN Rows : Pays[i] \in Nat /\ Pays[i] = Rows[i].pay /\ Rows[i].bid \in Nat
    <2> SUFFICES ASSUME NEW i \in DOMAIN Rows
                 PROVE  Pays[i] \in Nat /\ Pays[i] = Rows[i].pay /\ Rows[i].bid \in Nat
      OBVIOUS
    <2>1. Rows[i] \in [pay : 0 .. Top, bid : Nat]
      BY <1>1, <1>2, ElementOfSeq
    <2>2. Top \in Nat
      BY BinsShape
    <2> QED BY <2>1, <2>2 DEF Pays
  <1> QED BY <1>1, <1>2, <1>3, <1>4

\* A weighted average is a distribution over NumBins bins.
LEMMA AverageType ==
    ASSUME NEW M, IsFiniteSet(M), NEW dists, DOMAIN dists = M,
           \A i \in M : ToBins(dists[i]) \in [Bins -> Nat],
           NEW w, \A i \in M : w[i] \in Nat
    PROVE  Average(dists, w) \in [Bins -> Nat]
  <1> DEFINE bins == [i \in M |-> ToBins(dists[i])]
             unit(i) == Larger(Mass(bins[i]), 1)
             others(i) == Product([j \in M \ {i} |-> unit(j)])
             term(k) == [i \in M |-> w[i] * bins[i][k] * others(i)]
  <1>1. \A i \in M : bins[i] \in [Bins -> Nat]
    OBVIOUS
  <1>2. ASSUME NEW i \in M PROVE unit(i) \in Nat
    <2>1. bins[i] \in [0 .. NumBins - 1 -> Nat] /\ NumBins - 1 \in Nat
      BY <1>1, BinsShape
    <2> HIDE DEF bins
    <2>2. DOMAIN bins[i] = 0 .. NumBins - 1 /\ Max(0 .. NumBins - 1) = NumBins - 1
      BY <2>1, BinsShape
    <2>3. Cdf(bins[i]) \in [0 .. NumBins - 1 -> Nat]
      BY <2>1, CdfUnfolds
    <2>4. Mass(bins[i]) \in Nat
      BY <2>1, <2>2, <2>3 DEF Mass
    <2> QED BY <2>4 DEF Larger
  <1> HIDE DEF unit
  <1>3. ASSUME NEW i \in M PROVE others(i) \in Nat
    <2>1. IsFiniteSet(M \ {i}) /\ [j \in M \ {i} |-> unit(j)] \in [M \ {i} -> Nat]
      BY <1>2, FS_Subset
    <2> QED BY <2>1, ProductType
  <1> HIDE DEF others
  <1>4. ASSUME NEW k \in Bins PROVE SumFunction(term(k)) \in Nat
    <2>1. ASSUME NEW i \in M PROVE w[i] * bins[i][k] * others(i) \in Nat
      <3>1. w[i] \in Nat /\ bins[i][k] \in Nat /\ others(i) \in Nat
        BY <1>1, <1>3
      <3> HIDE DEF bins
      <3>2. \A a \in Nat, b \in Nat, c \in Nat : a * b * c \in Nat
        OBVIOUS
      <3> QED BY <3>1, <3>2
    <2>2. DOMAIN term(k) = M /\ \A i \in M : term(k)[i] \in Nat
      BY <2>1
    <2> HIDE DEF term
    <2> QED BY <2>2, SumNatural DEF SumFunction
  <1>5. Average(dists, w) = [k \in Bins |-> SumFunction(term(k))]
    BY DEF Average, unit, others
  <1> HIDE DEF term
  <1> QED BY <1>4, <1>5

\* The bid of a search is a bin's price.
LEMMA SlicedBidType ==
    ASSUME NEW p \in [Bins -> Nat], NEW V \in Nat
    PROVE  \E k : /\ Best(Bins, [j \in Bins |-> SlicedProfit(p, V, j)], k)
                  /\ k \in Bins /\ SlicedBid(p, V) = Price(k) /\ SlicedBid(p, V) \in Nat
                  /\ \A j \in Bins : SlicedProfit(p, V, j) \in Int
  <1> DEFINE score == [j \in Bins |-> SlicedProfit(p, V, j)]
             k == CHOOSE c \in Bins : \A d \in Bins :
                    SlicedProfit(p, V, d) < SlicedProfit(p, V, c)
                    \/ (SlicedProfit(p, V, d) = SlicedProfit(p, V, c) /\ c <= d)
  <1>1. NumBins - 1 \in Nat /\ Bins = 0 .. NumBins - 1 /\ Bins # {}
    BY BinsShape
  <1>2. ASSUME NEW j \in Bins PROVE SlicedProfit(p, V, j) \in Int
    <2>1. j \in Nat /\ Price(j) \in Nat
      BY <1>1 DEF Price
    <2>2. CdfAt(p, Price(j)) \in Nat
      BY <1>1, <2>1, CdfAtType
    <2>3. \A a \in Int, b \in Int : a * b \in Int
      OBVIOUS
    <2>4. (V - Price(j)) * CdfAt(p, Price(j)) \in Int
      BY <2>1, <2>2, <2>3
    <2> QED BY <2>4 DEF SlicedProfit
  <1>3. \A j \in Bins : score[j] \in Int
    BY <1>2
  <1>4. PICK c : Best(Bins, score, c)
    <2> HIDE DEF score
    <2> QED BY <1>1, <1>3, FirstBest
  <1>5. c \in Bins /\ \A d \in Bins :
                        SlicedProfit(p, V, d) < SlicedProfit(p, V, c)
                        \/ (SlicedProfit(p, V, d) = SlicedProfit(p, V, c) /\ c <= d)
    BY <1>4 DEF Best
  <1>6. k \in Bins /\ \A d \in Bins :
                        SlicedProfit(p, V, d) < SlicedProfit(p, V, k)
                        \/ (SlicedProfit(p, V, d) = SlicedProfit(p, V, k) /\ k <= d)
    BY <1>5
  <1>7. SlicedBid(p, V) = Price(k)
    BY DEF SlicedBid, FirstMax
  <1> HIDE DEF k
  <1>8. Best(Bins, score, k)
    BY <1>6 DEF Best
  <1>9. Price(k) \in Nat
    BY <1>1, <1>6 DEF Price
  <1> QED BY <1>2, <1>6, <1>7, <1>8, <1>9

\* A mix of tables is a table over NumBins bins.
LEMMA BlendType ==
    ASSUME NEW n \in Nat, NEW tables, DOMAIN tables = 1 .. n, \A i \in 1 .. n : IsTable(tables[i]),
           NEW w, \A i \in 1 .. n : w[i] \in Nat,
           NEW i \in DOMAIN Rows
    PROVE  Blend(tables, w)[i] \in [Bins -> Nat]
  <1> DEFINE dists == [m \in DOMAIN tables |-> tables[m][i]]
  <1>1. IsFiniteSet(1 .. n)
    BY FS_Interval
  <1>2. DOMAIN dists = 1 .. n
    OBVIOUS
  <1>3. ASSUME NEW m \in 1 .. n PROVE ToBins(dists[m]) \in [Bins -> Nat]
    BY DistributionShape DEF IsTable
  <1>4. Blend(tables, w)[i] = Average(dists, w)
    BY DEF Blend
  <1> HIDE DEF dists
  <1> QED BY <1>1, <1>2, <1>3, <1>4, AverageType

\* The regret of a mix is an integer, on any of the rows.
LEMMA RegretType ==
    ASSUME NEW n \in Nat, NEW tables, DOMAIN tables = 1 .. n, \A i \in 1 .. n : IsTable(tables[i]),
           NEW w, \A i \in 1 .. n : w[i] \in Nat,
           NEW R \in SUBSET DOMAIN Rows
    PROVE  RegretOn(tables, w, R) \in Int
  <1> DEFINE blend == Blend(tables, w)
             bids == [i \in DOMAIN Rows |-> SlicedBid(blend[i], FixedV)]
             regret == [i \in DOMAIN Rows |-> Regret(bids[i], Pays[i], FixedVs[i])]
  <1>2. ASSUME NEW i \in DOMAIN Rows PROVE blend[i] \in [Bins -> Nat]
    BY BlendType
  <1> HIDE DEF blend
  <1>3. ASSUME NEW i \in DOMAIN Rows PROVE bids[i] \in Nat
    BY <1>2, SlicedBidType, RowTypes
  <1> HIDE DEF bids
  <1>4. ASSUME NEW i \in DOMAIN Rows PROVE regret[i] \in Int
    <2>1. Pays[i] \in Int /\ FixedVs[i] \in Int /\ bids[i] \in Int
      BY <1>3, RowTypes DEF FixedVs
    <2>2. regret[i] = Regret(bids[i], Pays[i], FixedVs[i])
      OBVIOUS
    <2> HIDE DEF regret
    <2> QED BY <2>1, <2>2 DEF Regret, PerfectProfit, Realized
  <1>5. RegretOn(tables, w, R) = SumFunctionOnSet(regret, R)
    BY DEF RegretOn, SumRegret, bids, blend
  <1>6. IsFiniteSet(R) /\ \A i \in R : regret[i] \in Int
    BY <1>4, RowTypes
  <1> HIDE DEF regret
  <1> QED BY <1>5, <1>6, SumSplits

-----------------------------------------------------------------------------
(* The searches' results *)

RowsOf == IF search.script = 3 THEN Subset ELSE DOMAIN Rows

\* A cache file that is there has a distribution for every row.
Cached == \A d \in Dirs : cache[d] = None \/ IsTable(cache[d])

\* Draws are scored once all members are read.  The best has the score of its
\* weights and no draw scored lower; every score is a number.
BestSoFar ==
    search # Idle =>
      /\ search.trials \in Nat
      /\ search.script = 2 => \A i \in 1 .. Len(search.read) : IsTable(cache[DirOf[search.members[i]]])
      /\ search.trials = 0 => search.best = None /\ search.tried = {}
      /\ search.trials > 0 =>
           /\ search.pc = "load" /\ Len(search.read) = Len(search.members)
           /\ search.best # None
           /\ search.best.w \in [1 .. Len(search.members) -> Nat]
           /\ search.best.r = RegretOn(Used, search.best.w, RowsOf)
           /\ \A c \in search.tried : c.r \in Int /\ search.best.r <= c.r

MixInv == Cached /\ BestSoFar /\ SearchReportsBest

\* Once all members are read every member has a table.
LEMMA UsedTables ==
    ASSUME SearchInv, MixInv, search # Idle, Len(search.read) = Len(search.members)
    PROVE  /\ Len(search.members) \in Nat /\ DOMAIN Used = 1 .. Len(search.members)
           /\ \A i \in DOMAIN Used : IsTable(Used[i])
  <1> DEFINE n == Len(search.members)
  <1>1. search.members \in Seq(Files) /\ search.read \in Seq(Tables)
    BY DEF SearchInv, Typed
  <1>2. n \in Nat /\ DOMAIN search.members = 1 .. n /\ DOMAIN search.read = 1 .. n
    BY <1>1, LenProperties
  <1>3. DOMAIN Used = 1 .. n /\ \A i \in 1 .. n : IsTable(Used[i])
    <2>1. CASE search.script = 2
      <3>1. Used = [i \in DOMAIN search.members |-> cache[DirOf[search.members[i]]]]
        BY <2>1 DEF Used
      <3>2. \A i \in 1 .. n : IsTable(cache[DirOf[search.members[i]]])
        BY <2>1 DEF MixInv, BestSoFar
      <3> QED BY <1>2, <3>1, <3>2
    <2>2. CASE search.script # 2
      <3>1. Used = search.read
        BY <2>2 DEF Used
      <3>2. \A i \in 1 .. n : search.read[i] \in Tables
        BY <1>1, <1>2, ElementOfSeq
      <3>3. \A t \in Tables : IsTable(t)
        BY ExperimentsAssumption DEF IsTable
      <3> QED BY <1>2, <3>1, <3>2, <3>3
    <2> QED BY <2>1, <2>2
  <1> QED BY <1>2, <1>3

\* Once all members are read a score is the regret of a mix of tables, and a
\* number.
LEMMA ScoreType ==
    ASSUME SearchInv, MixInv, search # Idle, Len(search.read) = Len(search.members),
           NEW w \in [1 .. Len(search.members) -> Nat]
    PROVE  /\ Len(search.members) \in Nat
           /\ Score(w) = RegretOn(Used, w, RowsOf)
           /\ Score(w) \in Int
  <1> DEFINE n == Len(search.members)
  <1>1. /\ search.members \in Seq(Files) /\ search.read \in Seq(Tables)
        /\ search.script \in Scripts
    BY DEF SearchInv, Typed
  <1>2. n \in Nat /\ DOMAIN search.members = 1 .. n /\ DOMAIN search.read = 1 .. n
    BY <1>1, LenProperties
  <1>3. DOMAIN Used = 1 .. n /\ \A i \in 1 .. n : IsTable(Used[i])
    BY UsedTables
  <1>4. Score(w) = RegretOn(Used, w, RowsOf)
    BY <1>1 DEF Score, RowsOf, RegretGrid, RegretStreaming, RegretSubset, Scripts
  <1>5. RowsOf \in SUBSET DOMAIN Rows
    BY ExperimentsAssumption DEF RowsOf
  <1>6. RegretOn(Used, w, RowsOf) \in Int
    BY <1>2, <1>3, <1>5, RegretType
  <1> QED BY <1>2, <1>4, <1>6

\* Before the first draw is scored nothing is said about the best.
LEMMA NotYetScored ==
    ASSUME Cached', SearchReportsBest', search' # Idle, search'.trials = 0,
           search'.best = None, search'.tried = {},
           search'.script = 2 =>
             \A i \in 1 .. Len(search'.read) : IsTable(cache'[DirOf[search'.members[i]]])
    PROVE  MixInv'
  BY DEF MixInv, BestSoFar

\* A result is a record, which None is not.
LEMMA ResultIsSome ==
    ASSUME NEW x, NEW y
    PROVE  [w |-> x, r |-> y] # None
  <1>1. DOMAIN [w |-> x, r |-> y] = {"w", "r"} /\ DOMAIN << >> = {}
    OBVIOUS
  <1> QED BY <1>1 DEF None

\* A draw is kept if it is the best so far.
LEMMA TrialKeepsBest ==
    ASSUME SearchInv, MixInv, NEW k \in Scripts, Trial(k)
    PROVE  MixInv'
  <1>1. search # Idle /\ search.pc = "load" /\ Len(search.read) = Len(search.members)
        /\ cache' = cache
    <2>1. Loaded(k) /\ UNCHANGED cache
      BY Zenon DEF Trial
    <2> QED BY <2>1 DEF Loaded, Running, Idle
  <1>2. PICK w \in Weights(search.members) :
          LET result == [w |-> w, r |-> Score(w)]
          IN  SearchStep([search EXCEPT
                !.tried = @ \cup {result},
                !.trials = @ + 1,
                !.best = IF @ = None \/ result.r < @.r THEN result ELSE @])
    BY Zenon DEF Trial
  <1> DEFINE result == [w |-> w, r |-> Score(w)]
             best == IF search.best = None \/ result.r < search.best.r THEN result ELSE search.best
  <1>3. DOMAIN search = Fields /\ search.members \in Seq(Files)
    BY <1>1 DEF SearchInv, Typed
  <1>4. w \in [1 .. Len(search.members) -> Nat]
    <2>1. w \in Seq(Nat) /\ Len(w) = Len(search.members)
      BY ExperimentsAssumption DEF Weights
    <2> QED BY <2>1, LenProperties
  <1>5. Score(w) = RegretOn(Used, w, RowsOf) /\ Score(w) \in Int
    BY <1>1, <1>4, ScoreType
  <1>6. result.w = w /\ result.r = Score(w) /\ result # None
    BY ResultIsSome
  <1> HIDE DEF result
  <1>7. /\ search'.tried = search.tried \cup {result}
        /\ search'.trials = search.trials + 1
        /\ search'.best = best
        /\ search'.pc = search.pc /\ search'.script = search.script
        /\ search'.read = search.read /\ search'.members = search.members
        /\ DOMAIN search' = Fields
    <2>1. search' = [search EXCEPT !.tried = search.tried \cup {result},
                                   !.trials = search.trials + 1, !.best = best]
      BY <1>2, Zenon DEF SearchStep, result
    <2> HIDE DEF best
    <2> QED BY <1>3, <2>1 DEF Fields
  <1>8. search' # Idle
    BY <1>7 DEF Idle, Fields
  <1>9. Used' = Used /\ RowsOf' = RowsOf
    BY <1>1, <1>7 DEF Used, RowsOf
  <1>10. Cached' /\ SearchReportsBest'
    <2>1. report' = report
      BY <1>2, Zenon DEF SearchStep
    <2> QED BY <1>1, <2>1 DEF MixInv, Cached, SearchReportsBest
  <1>11. /\ search.trials \in Nat
         /\ search.script = 2 =>
              \A i \in 1 .. Len(search.read) : IsTable(cache[DirOf[search.members[i]]])
         /\ search.trials = 0 => search.best = None /\ search.tried = {}
    BY <1>1 DEF MixInv, BestSoFar
  <1>12. /\ best # None /\ best.w \in [1 .. Len(search.members) -> Nat]
         /\ best.r = RegretOn(Used, best.w, RowsOf)
         /\ \A c \in search.tried \cup {result} : c.r \in Int /\ best.r <= c.r
    <2>1. CASE search.trials = 0
      <3>1. best = result /\ search.tried = {}
        BY <1>11, <2>1
      <3> QED BY <1>4, <1>5, <1>6, <3>1
    <2>2. CASE search.trials # 0
      <3>1. /\ search.best # None
            /\ search.best.w \in [1 .. Len(search.members) -> Nat]
            /\ search.best.r = RegretOn(Used, search.best.w, RowsOf)
            /\ \A c \in search.tried : c.r \in Int /\ search.best.r <= c.r
        BY <1>1, <1>11, <2>2 DEF MixInv, BestSoFar
      <3>2. search.best.r \in Int
        BY <1>1, <3>1, ScoreType
      <3>3. CASE result.r < search.best.r
        <4>1. best = result
          BY <3>3
        <4> QED BY <1>4, <1>5, <1>6, <3>1, <3>2, <3>3, <4>1
      <3>4. CASE ~(result.r < search.best.r)
        <4>1. best = search.best
          BY <3>1, <3>4
        <4> QED BY <1>5, <1>6, <3>1, <3>2, <3>4, <4>1
      <3> QED BY <3>3, <3>4
    <2> QED BY <2>1, <2>2
  <1> HIDE DEF best
  <1>13. BestSoFar'
    <2>1. search'.trials \in Nat /\ search'.trials > 0
      BY <1>7, <1>11
    <2> QED BY <1>1, <1>7, <1>8, <1>9, <1>11, <1>12, <2>1 DEF BestSoFar
  <1> QED BY <1>10, <1>13 DEF MixInv

\* A greedy move replaces the best only with a lower score.
LEMMA GreedyKeepsBest ==
    ASSUME SearchInv, MixInv, NEW k \in Scripts, Greedy(k)
    PROVE  MixInv'
  <1>1. /\ search # Idle /\ search.pc = "load" /\ Len(search.read) = Len(search.members)
        /\ search.trials = MaxTrials /\ cache' = cache
    <2>1. Loaded(k) /\ UNCHANGED cache /\ search.trials = MaxTrials
      BY Zenon DEF Greedy
    <2> QED BY <2>1 DEF Loaded, Running, Idle
  <1>2. PICK w \in Moved(search.best.w) :
          LET result == [w |-> w, r |-> Score(w)]
          IN  SearchStep([search EXCEPT
                !.moves = @ + 1,
                !.best = IF result.r < @.r - Tolerance THEN result ELSE @])
    BY Zenon DEF Greedy
  <1> DEFINE result == [w |-> w, r |-> Score(w)]
             best == IF result.r < search.best.r - Tolerance THEN result ELSE search.best
  <1>3. DOMAIN search = Fields /\ search.members \in Seq(Files)
    BY <1>1 DEF SearchInv, Typed
  <1>4. MaxTrials \in Nat /\ MaxTrials > 0 /\ Tolerance \in Nat
    BY ExperimentsAssumption
  <1>5. /\ search.best # None
        /\ search.best.w \in [1 .. Len(search.members) -> Nat]
        /\ search.best.r = RegretOn(Used, search.best.w, RowsOf)
        /\ \A c \in search.tried : c.r \in Int /\ search.best.r <= c.r
        /\ search.script = 2 =>
             \A i \in 1 .. Len(search.read) : IsTable(cache[DirOf[search.members[i]]])
    BY <1>1, <1>4 DEF MixInv, BestSoFar
  <1>6. w \in [1 .. Len(search.members) -> Nat]
    <2>1. PICK i \in DOMAIN search.best.w, d \in {-1, 1} :
            w = [search.best.w EXCEPT ![i] = Larger(search.best.w[i] + d, 0)]
      BY DEF Moved
    <2>2. Larger(search.best.w[i] + d, 0) \in Nat
      BY <1>5 DEF Larger
    <2> QED BY <1>5, <2>1, <2>2
  <1>7. Score(w) = RegretOn(Used, w, RowsOf) /\ Score(w) \in Int /\ search.best.r \in Int
    BY <1>1, <1>5, <1>6, ScoreType
  <1>8. result.w = w /\ result.r = Score(w) /\ result # None
    BY ResultIsSome
  <1> HIDE DEF result
  <1>9. /\ search'.best = best /\ search'.tried = search.tried
        /\ search'.trials = search.trials
        /\ search'.pc = search.pc /\ search'.script = search.script
        /\ search'.read = search.read /\ search'.members = search.members
        /\ DOMAIN search' = Fields
    <2>1. search' = [search EXCEPT !.moves = search.moves + 1, !.best = best]
      BY <1>2, Zenon DEF SearchStep, result
    <2> HIDE DEF best
    <2> QED BY <1>3, <2>1 DEF Fields
  <1>10. search' # Idle
    BY <1>9 DEF Idle, Fields
  <1>11. Used' = Used /\ RowsOf' = RowsOf
    BY <1>1, <1>9 DEF Used, RowsOf
  <1>12. Cached' /\ SearchReportsBest'
    <2>1. report' = report
      BY <1>2, Zenon DEF SearchStep
    <2> QED BY <1>1, <2>1 DEF MixInv, Cached, SearchReportsBest
  <1>13. /\ best # None /\ best.w \in [1 .. Len(search.members) -> Nat]
         /\ best.r = RegretOn(Used, best.w, RowsOf)
         /\ \A c \in search.tried : c.r \in Int /\ best.r <= c.r
    <2>1. CASE result.r < search.best.r - Tolerance
      <3>1. best = result /\ result.r < search.best.r
        BY <1>4, <1>7, <1>8, <2>1
      <3> QED BY <1>5, <1>6, <1>7, <1>8, <3>1
    <2>2. CASE ~(result.r < search.best.r - Tolerance)
      BY <1>5, <2>2
    <2> QED BY <2>1, <2>2
  <1> HIDE DEF best
  <1>14. BestSoFar'
    BY <1>1, <1>4, <1>5, <1>9, <1>10, <1>11, <1>13 DEF BestSoFar
  <1> QED BY <1>12, <1>14 DEF MixInv

\* While members are still to be read nothing is scored.
LEMMA LoadingUnscored ==
    ASSUME SearchInv, MixInv, search # Idle, Len(search.read) < Len(search.members)
    PROVE  search.trials = 0 /\ search.best = None /\ search.tried = {}
  <1>1. search.members \in Seq(Files) /\ search.read \in Seq(Tables)
    BY DEF SearchInv, Typed
  <1>2. Len(search.members) \in Nat /\ Len(search.read) \in Nat
    BY <1>1, LenProperties
  <1>3. search.trials = 0
    BY <1>2 DEF MixInv, BestSoFar
  <1> QED BY <1>3 DEF MixInv, BestSoFar

\* What is written to a cache file has a distribution for every row.
LEMMA FilledIsTable ==
    ASSUME NEW t \in Tables, NEW n
    PROVE  IsTable(Filled(t, n))
  <1> SUFFICES ASSUME NEW i \in DOMAIN Rows PROVE IsDistribution(Filled(t, n)[i])
    BY DEF IsTable
  <1>1. IsDistribution(t[i])
    BY ExperimentsAssumption
  <1>2. ToBins(t[i]) \in [Bins -> Nat] /\ ZeroRow \in [Bins -> Nat]
    BY <1>1, DistributionShape DEF ZeroRow
  <1>3. Filled(t, n)[i] \in [Bins -> Nat]
    BY <1>2 DEF Filled
  <1>4. /\ Bins = 0 .. NumBins - 1 /\ NumBins - 1 \in Nat
        /\ IsFiniteSet(0 .. NumBins - 1) /\ Cardinality(0 .. NumBins - 1) = NumBins
    <2>1. Bins = 0 .. NumBins - 1 /\ NumBins - 1 \in Nat
      BY BinsShape
    <2>2. 0 \in Int /\ NumBins - 1 \in Int /\ 0 <= NumBins - 1
      BY <2>1
    <2>3. IsFiniteSet(0 .. NumBins - 1) /\ Cardinality(0 .. NumBins - 1) = (NumBins - 1) - 0 + 1
      BY <2>2, FS_Interval
    <2> QED BY <2>1, <2>3, BinsAssumption
  <1> QED BY <1>3, <1>4 DEF IsDistribution

\* Reading, reusing or building keeps what is known of the cache.
LEMMA ReadKeepsBest ==
    ASSUME SearchInv, MixInv,
           LoadMember \/ LoadMember3 \/ ReuseCache \/ BeginCache \/ EndCache
    PROVE  MixInv'
  <1>1. /\ search # Idle /\ Len(search.read) < Len(search.members)
        /\ preds[NextMember] # None
    BY DEF LoadMember, LoadMember3, ReuseCache, BeginCache, EndCache, Loading, Running, Idle,
           SearchInv, Typed, NextMember
  <1>2. search.trials = 0 /\ search.best = None /\ search.tried = {}
    BY <1>1, LoadingUnscored
  <1>3. SearchReportsBest'
    <2>1. report' = report
      BY DEF LoadMember, LoadMember3, ReuseCache, BeginCache, EndCache, SearchStep
    <2> QED BY <2>1 DEF MixInv, SearchReportsBest
  <1> DEFINE n == Len(search.read) + 1
  <1>4. /\ n \in Nat /\ NextMember = search.members[n] /\ NextMember \in Files
        /\ Len(Read.read) = n /\ DOMAIN Read = Fields
        /\ \A f \in Fields \ {"read"} : Read[f] = search[f]
    BY <1>1, OneMoreRead
  <1>5. /\ DOMAIN search = Fields /\ search.read \in Seq(Tables) /\ Len(search.read) \in Nat
        /\ DOMAIN cache = Dirs /\ preds[NextMember] \in Tables
        /\ CacheName \in Dirs /\ CacheName = DirOf[search.members[n]]
    BY <1>1, <1>4, LenProperties DEF SearchInv, Typed, CacheName, Dirs
  <1>6. ASSUME NEW i \in 1 .. Len(search.read) PROVE DirOf[search.members[i]] \in Dirs
    <2>1. search.members \in Seq(Files) /\ Len(search.members) \in Nat
      BY <1>1, LenProperties DEF SearchInv, Typed
    <2>2. search.members[i] \in Files
      BY <1>1, <1>5, <2>1, ElementOfSeq
    <2> QED BY <2>2 DEF Dirs
  <1>7. search.script = 2 =>
          \A i \in 1 .. Len(search.read) : IsTable(cache[DirOf[search.members[i]]])
    BY <1>1 DEF MixInv, BestSoFar
  <1>8. CASE LoadMember \/ LoadMember3
    <2>1. search' = Read /\ cache' = cache /\ search.script # 2
      BY <1>8 DEF LoadMember, LoadMember3, SearchStep, Loading, Running
    <2>2. /\ search'.trials = 0 /\ search'.best = None /\ search'.tried = {}
          /\ search'.script # 2 /\ search' # Idle
      BY <1>2, <1>4, <2>1 DEF Fields, Idle
    <2>3. Cached'
      BY <2>1 DEF MixInv, Cached
    <2> QED BY <1>3, <2>2, <2>3, NotYetScored
  <1>9. CASE ReuseCache
    <2> DEFINE s == [Read EXCEPT !.reused = @ \cup {CacheName}]
    <2>1. search' = s /\ cache' = cache /\ search.script = 2 /\ cache[CacheName] # None
      BY <1>9 DEF ReuseCache, SearchStep, Loading, Running, MustBuild
    <2>2. /\ s.trials = 0 /\ s.best = None /\ s.tried = {} /\ DOMAIN s = Fields
          /\ s.read = Read.read /\ s.members = search.members
      BY <1>2, <1>4 DEF Fields
    <2> HIDE DEF s
    <2>3. search' # Idle
      BY <2>1, <2>2 DEF Idle, Fields
    <2>4. Cached' /\ IsTable(cache[CacheName])
      BY <1>5, <2>1 DEF MixInv, Cached
    <2>5. \A i \in 1 .. n : IsTable(cache[DirOf[search.members[i]]])
      BY <1>5, <1>7, <2>1, <2>4
    <2> QED BY <1>3, <1>4, <2>1, <2>2, <2>3, <2>4, <2>5, NotYetScored
  <1>10. CASE BeginCache \/ EndCache
    <2>1. PICK v : cache' = [cache EXCEPT ![CacheName] = v] /\ IsTable(v)
      BY <1>5, <1>10, FilledIsTable DEF BeginCache, EndCache
    <2>2. Cached' /\ cache'[CacheName] = v
      BY <1>5, <2>1 DEF MixInv, Cached
    <2>3. search.script = 2
      BY <1>10 DEF BeginCache, EndCache, Loading, Running
    <2>4. \A i \in 1 .. Len(search.read) : IsTable(cache'[DirOf[search.members[i]]])
      BY <1>5, <1>6, <1>7, <2>1, <2>3
    <2>5. CASE BeginCache
      <3> DEFINE s == [search EXCEPT !.pc = "build"]
      <3>1. search' = s
        BY <2>5 DEF BeginCache, SearchStep
      <3>2. /\ s.trials = 0 /\ s.best = None /\ s.tried = {} /\ DOMAIN s = Fields
            /\ s.read = search.read /\ s.members = search.members
        BY <1>2, <1>5 DEF Fields
      <3> HIDE DEF s
      <3>3. search' # Idle
        BY <3>1, <3>2 DEF Idle, Fields
      <3> QED BY <1>3, <2>2, <2>4, <3>1, <3>2, <3>3, NotYetScored
    <2>6. CASE EndCache
      <3> DEFINE s == [Read EXCEPT !.pc = "load"]
      <3>1. search' = s
        BY <2>6 DEF EndCache, SearchStep
      <3>2. /\ s.trials = 0 /\ s.best = None /\ s.tried = {} /\ DOMAIN s = Fields
            /\ s.read = Read.read /\ s.members = search.members
        BY <1>2, <1>4 DEF Fields
      <3> HIDE DEF s
      <3>3. search' # Idle
        BY <3>1, <3>2 DEF Idle, Fields
      <3>4. \A i \in 1 .. n : IsTable(cache'[DirOf[search.members[i]]])
        BY <1>5, <2>1, <2>2, <2>4
      <3> QED BY <1>3, <1>4, <2>2, <3>1, <3>2, <3>3, <3>4, NotYetScored
    <2> QED BY <1>10, <2>5, <2>6
  <1> QED BY <1>8, <1>9, <1>10

\* ens_search and ens_search2 report the best of what they scored.
LEMMA SaveReportsBest ==
    ASSUME SearchInv, MixInv, SaveBest \/ SaveBest2
    PROVE  SearchReportsBest'
  <1>1. PICK k \in {1, 2} : SaveSearch(k, search.best, search.tried)
    BY DEF SaveBest, SaveBest2
  <1>2. /\ search # Idle /\ search.script = k /\ search.trials = MaxTrials
    BY <1>1 DEF SaveSearch, Loaded, Running, Idle
  <1>3. /\ report'.best = search.best /\ report'.used = Used /\ report'.against = search.tried
    BY <1>1 DEF SaveSearch
  <1>4. MaxTrials \in Nat /\ MaxTrials > 0 /\ RowsOf = DOMAIN Rows
    BY <1>2, ExperimentsAssumption DEF RowsOf
  <1>5. /\ search.best.r = RegretOn(Used, search.best.w, DOMAIN Rows)
        /\ \A c \in search.tried : search.best.r <= c.r
    BY <1>2, <1>4 DEF MixInv, BestSoFar
  <1> QED BY <1>3, <1>5 DEF SearchReportsBest

\* ens_search3 reports the best, on all rows, of a few draws and the winner.
LEMMA SaveReportsBest3 ==
    ASSUME SaveBest3
    PROVE  SearchReportsBest'
  <1>0. PICK top \in TopDraws : \E best \in Candidates(top) :
          (\A c \in Candidates(top) : best.r <= c.r) /\ SaveSearch(3, best, OnAllRows({search.best}))
    BY DEF SaveBest3
  <1>1. PICK best \in Candidates(top) :
          (\A c \in Candidates(top) : best.r <= c.r) /\ SaveSearch(3, best, OnAllRows({search.best}))
    BY <1>0
  <1>2. /\ report'.best = best /\ report'.used = Used
        /\ report'.against = OnAllRows({search.best})
    BY <1>1 DEF SaveSearch
  <1>3. \A c \in OnAllRows({search.best}) : c \in Candidates(top)
    BY DEF OnAllRows, Candidates
  <1>4. best.r = RegretOn(Used, best.w, DOMAIN Rows)
    BY <1>1 DEF Candidates, OnAllRows
  <1> QED BY <1>1, <1>2, <1>3, <1>4 DEF SearchReportsBest

\* Every step keeps the best the best.
LEMMA MixStepKeeps == SearchInv /\ MixInv /\ [Next]_vars => MixInv'
  <1> SUFFICES ASSUME SearchInv, MixInv, [Next]_vars PROVE MixInv'
    OBVIOUS
  <1>1. CASE \/ Evaluate \/ EvaluateCheckpoint \/ EvaluatePreds \/ Calibrate \/ Backtest
             \/ EvaluateEnsemble \/ BudgetEval \/ BudgetEnsemble \/ BudgetNaive
    <2>1. search' = Idle /\ cache' = cache /\ report'.kind # "search"
      BY <1>1, OneStepScripts DEF SearchInv, Typed
    <2> QED BY <2>1 DEF MixInv, Cached, BestSoFar, SearchReportsBest
  <1>2. CASE ReadReport
    <2>1. report'.kind = "none" /\ UNCHANGED <<cache, search>>
      BY <1>2 DEF ReadReport, NoReport
    <2>2. Used' = Used /\ RowsOf' = RowsOf
      BY <2>1 DEF Used, RowsOf
    <2> QED BY <2>1, <2>2 DEF MixInv, Cached, BestSoFar, SearchReportsBest
  <1>3. CASE StartSearch
    <2>1. /\ search'.trials = 0 /\ search'.best = None /\ search'.tried = {}
          /\ search'.read = << >> /\ search'.pc = "load"
          /\ UNCHANGED <<cache, report>>
      BY <1>3 DEF StartSearch
    <2>2. search' # Idle /\ 1 .. Len(search'.read) = {}
      <3>1. DOMAIN search' = Fields
        BY <1>3 DEF StartSearch, Fields
      <3> QED BY <2>1, <3>1 DEF Idle, Fields
    <2>3. Cached' /\ SearchReportsBest'
      BY <2>1 DEF MixInv, Cached, SearchReportsBest
    <2> QED BY <2>1, <2>2, <2>3, NotYetScored
  <1>4. CASE LoadMember \/ LoadMember3 \/ ReuseCache \/ BeginCache \/ EndCache
    BY <1>4, ReadKeepsBest
  <1>5. CASE RandomSearch \/ RandomSearch2 \/ RandomSearch3
    BY <1>5, TrialKeepsBest DEF RandomSearch, RandomSearch2, RandomSearch3, Scripts
  <1>6. CASE GreedySearch \/ GreedySearch2 \/ GreedySearch3
    BY <1>6, GreedyKeepsBest DEF GreedySearch, GreedySearch2, GreedySearch3, Scripts
  <1>7. CASE SaveBest \/ SaveBest2 \/ SaveBest3
    <2>1. SearchReportsBest'
      BY <1>7, SaveReportsBest, SaveReportsBest3
    <2>2. search' = Idle /\ cache' = cache
      BY <1>7 DEF SaveBest, SaveBest2, SaveBest3, SaveSearch
    <2> QED BY <2>1, <2>2 DEF MixInv, Cached, BestSoFar
  <1>8. CASE KillSearch
    BY <1>8 DEF KillSearch, MixInv, Cached, BestSoFar, SearchReportsBest
  <1>9. CASE UNCHANGED vars
    <2>1. Used' = Used /\ RowsOf' = RowsOf /\ UNCHANGED <<cache, search, report>>
      BY <1>9 DEF vars, Used, RowsOf
    <2> QED BY <2>1 DEF MixInv, Cached, BestSoFar, SearchReportsBest
  <1> QED BY <1>1, <1>2, <1>3, <1>4, <1>5, <1>6, <1>7, <1>8, <1>9 DEF Next

\* Whatever the members predict and whatever is drawn, the regret a search
\* reports is that of the weights it reports, and none of the draws it scored
\* is lower; the greedy moves of ens_search, ens_search2 and ens_search3 never
\* lose the best draw, and ens_search3's winner on the subset is compared on
\* all rows (ens_search.py main, ens_search2.py main, ens_search3.py:182-205).
THEOREM SearchesReportTheirBest == Spec => []SearchReportsBest
  <1>1. Init => SearchInv /\ MixInv
    <2> SUFFICES ASSUME Init PROVE MixInv
      BY SearchStarts
    <2>1. search = Idle /\ report.kind = "none" /\ \A d \in Dirs : cache[d] = None
      BY DEF Init, NoReport, Dirs
    <2> QED BY <2>1 DEF MixInv, Cached, BestSoFar, SearchReportsBest
  <1>2. SearchInv /\ MixInv /\ [Next]_vars => (SearchInv /\ MixInv)'
    BY SearchStepKeeps, MixStepKeeps
  <1>3. SearchInv /\ MixInv => SearchReportsBest
    BY DEF MixInv
  <1> QED BY <1>1, <1>2, <1>3, PTL DEF Spec

-----------------------------------------------------------------------------
(* The accounts of the budget simulations *)

\* No masked profit is negative.
LEMMA MaskedProfitType ==
    ASSUME NEW m \in Nat, NEW p \in [0 .. m -> Nat], NEW V \in Nat, NEW b \in Nat
    PROVE  MaskedProfit(p, V, b) \in Nat
  <1>1. CASE b > V
    BY <1>1 DEF MaskedProfit
  <1>2. CASE ~(b > V)
    <2>0. CdfAt(p, b) \in Nat
      BY CdfAtType
    <2>1. V - b \in Nat /\ CdfAt(p, b) \in Nat
      BY <1>2, <2>0
    <2>2. \A x \in Nat, y \in Nat : x * y \in Nat
      OBVIOUS
    <2>3. (V - b) * CdfAt(p, b) \in Nat
      BY <2>1, <2>2
    <2> QED BY <1>2, <2>3 DEF MaskedProfit
  <1> QED BY <1>1, <1>2

\* BestBid is the first of the candidates with the highest profit: the "bid
\* nothing" of a negative profit does not occur.
LEMMA BestBidIs ==
    ASSUME NEW m \in Nat, NEW p \in [0 .. m -> Nat], NEW V \in Nat,
           NEW n \in Nat, NEW C \in SUBSET (0 .. n), C # {}
    PROVE  /\ BestBid(C, p, V) \in C
           /\ Best(C, [c \in C |-> MaskedProfit(p, V, c)], BestBid(C, p, V))
  <1> DEFINE score == [c \in C |-> MaskedProfit(p, V, c)]
             First(c) == \A d \in C : MaskedProfit(p, V, d) < MaskedProfit(p, V, c)
                                      \/ (MaskedProfit(p, V, d) = MaskedProfit(p, V, c) /\ c <= d)
             b == CHOOSE c \in C : First(c)
  <1>1. \A c \in C : MaskedProfit(p, V, c) \in Nat
    <2>1. \A c \in C : c \in Nat
      OBVIOUS
    <2> QED BY <2>1, MaskedProfitType
  <1>2. PICK c : Best(C, score, c)
    <2>1. \A c \in C : score[c] \in Int
      BY <1>1
    <2> HIDE DEF score
    <2> QED BY <2>1, FirstBest
  <1>3. c \in C /\ First(c)
    BY <1>2 DEF Best
  <1>4. b \in C /\ First(b)
    BY <1>3
  <1>5. BestBid(C, p, V) = IF MaskedProfit(p, V, b) < 0 THEN 0 ELSE b
    BY DEF BestBid, FirstMax
  <1> HIDE DEF b
  <1>6. BestBid(C, p, V) = b
    BY <1>1, <1>4, <1>5
  <1> QED BY <1>4, <1>6 DEF Best

\* The prices of the bins are candidates.
LEMMA GridPrices ==
    ASSUME NEW m \in Nat
    PROVE  {Price(k) : k \in 0 .. m} \in SUBSET (0 .. 2 * m) /\ {Price(k) : k \in 0 .. m} # {}
           /\ 2 * m \in Nat
  BY DEF Price

LEMMA GridBidIs ==
    ASSUME NEW m \in Nat, NEW p \in [0 .. m -> Nat], NEW V \in Nat
    PROVE  LET C == {Price(k) : k \in 0 .. m}
               b == GridOptimizeBins(p, V)
           IN  b \in C /\ b \in Nat /\ Best(C, [c \in C |-> MaskedProfit(p, V, c)], b)
  <1> DEFINE C == {Price(k) : k \in 0 .. m}
  <1>1. C \in SUBSET (0 .. 2 * m) /\ C # {} /\ 2 * m \in Nat
    BY GridPrices
  <1>2. GridOptimizeBins(p, V) = BestBid(C, p, V)
    BY DEF GridOptimizeBins
  <1> HIDE DEF C
  <1>3. /\ BestBid(C, p, V) \in C
        /\ Best(C, [c \in C |-> MaskedProfit(p, V, c)], BestBid(C, p, V))
    BY <1>1, BestBidIs
  <1>4. BestBid(C, p, V) \in Nat
    <2>1. \A c \in C : c \in Nat
      BY <1>1
    <2> QED BY <1>3, <2>1
  <1> QED BY <1>2, <1>3, <1>4 DEF C

Profits(p, V) == [k \in DOMAIN p |-> MaskedProfit(p, V, Price(k))]

\* The profit of every bin's price is a natural.
LEMMA ProfitsType ==
    ASSUME NEW m \in Nat, NEW p \in [0 .. m -> Nat], NEW V \in Nat
    PROVE  Profits(p, V) \in [0 .. m -> Nat]
           /\ \A k \in 0 .. m : Profits(p, V)[k] = MaskedProfit(p, V, Price(k))
  <1>1. \A k \in 0 .. m : Price(k) \in Nat
    BY DEF Price
  <1>2. \A k \in 0 .. m : MaskedProfit(p, V, Price(k)) \in Nat
    BY <1>1, MaskedProfitType
  <1> QED BY <1>2 DEF Profits

\* The bid is the price of the first bin of highest profit.
LEMMA GridBinIs ==
    ASSUME NEW m \in Nat, NEW p \in [0 .. m -> Nat], NEW V \in Nat
    PROVE  \E k \in 0 .. m : GridOptimizeBins(p, V) = Price(k) /\ Best(0 .. m, Profits(p, V), k)
  <1> DEFINE C == {Price(k) : k \in 0 .. m}
             b == GridOptimizeBins(p, V)
  <1>0. \A j \in 0 .. m : Profits(p, V)[j] = MaskedProfit(p, V, Price(j))
    BY ProfitsType
  <1>1. b \in C /\ Best(C, [c \in C |-> MaskedProfit(p, V, c)], b)
    BY GridBidIs
  <1> HIDE DEF b
  <1>2. PICK k \in 0 .. m : b = Price(k)
    BY <1>1
  <1>3. ASSUME NEW j \in 0 .. m
        PROVE  \/ Profits(p, V)[j] < Profits(p, V)[k]
               \/ Profits(p, V)[j] = Profits(p, V)[k] /\ k <= j
    <2>1. Price(j) \in C /\ Price(k) \in C
      OBVIOUS
    <2>2. \/ MaskedProfit(p, V, Price(j)) < MaskedProfit(p, V, Price(k))
          \/ MaskedProfit(p, V, Price(j)) = MaskedProfit(p, V, Price(k)) /\ Price(k) <= Price(j)
      BY <1>1, <1>2, <2>1 DEF Best
    <2>3. Price(k) <= Price(j) => k <= j
      BY DEF Price
    <2> QED BY <1>0, <2>2, <2>3
  <1> QED BY <1>2, <1>3 DEF Best, b

\* backtest.py's best bin is that bin.
LEMMA BestBidsIs ==
    ASSUME NEW m \in Nat, NEW p \in [0 .. m -> Nat], NEW V \in Nat
    PROVE  BestBids(p, V) = GridOptimizeBins(p, V)
  <1> DEFINE First(k) == \A j \in 0 .. m :
                \/ MaskedProfit(p, V, Price(j)) < MaskedProfit(p, V, Price(k))
                \/ MaskedProfit(p, V, Price(j)) = MaskedProfit(p, V, Price(k)) /\ k <= j
             best == CHOOSE k \in 0 .. m : First(k)
  <1>1. PICK k \in 0 .. m : GridOptimizeBins(p, V) = Price(k) /\ Best(0 .. m, Profits(p, V), k)
    BY GridBinIs
  <1>2. \A j \in 0 .. m : First(j) <=> Best(0 .. m, Profits(p, V), j)
    <2>1. \A j \in 0 .. m : Profits(p, V)[j] = MaskedProfit(p, V, Price(j))
      BY ProfitsType
    <2> QED BY <2>1 DEF Best
  <1>3. BestBids(p, V) = Price(best)
    BY DEF BestBids, FirstMax
  <1> HIDE DEF First
  <1>4. best \in 0 .. m /\ Best(0 .. m, Profits(p, V), best)
    BY <1>1, <1>2
  <1> HIDE DEF best
  <1>5. \A j \in 0 .. m : Profits(p, V)[j] \in Int
    BY ProfitsType
  <1>6. best = k
    BY <1>1, <1>4, <1>5, OneBest
  <1> QED BY <1>1, <1>3, <1>6

Accounts == [spent : Int, wins : SUBSET DOMAIN Rows, profit : Int]

Gain(bids, Vs) == [j \in DOMAIN bids |-> Vs[j] - bids[j]]

\* Why an auction was not won.
Refused(bids, budget, wins, i) ==
    \/ bids[i] < Pays[i]
    \/ bids[i] = 0
    \/ Exceeds(SumFunctionOnSet(bids, {j \in wins : j < i}) + bids[i], budget, TotalCost)

\* An account of the auctions of s, played in order.
AccountOf(s, bids, Vs, budget, a) ==
    /\ a \in Accounts /\ a.wins \subseteq s
    /\ ~Exceeds(a.spent, budget, TotalCost)
    /\ a.spent = SumFunctionOnSet(bids, a.wins)
    /\ a.profit = SumFunctionOnSet(Gain(bids, Vs), a.wins)
    /\ \A i \in s \ a.wins : Refused(bids, budget, a.wins, i)

\* Before the first auction.
LEMMA EmptyAccount ==
    ASSUME NEW bids, NEW Vs, NEW budget \in Nat \X Nat
    PROVE  AccountOf({}, bids, Vs, budget, NoAccount)
  <1>1. NoAccount \in Accounts /\ NoAccount.wins = {} /\ NoAccount.spent = 0 /\ NoAccount.profit = 0
    BY DEF NoAccount, Accounts
  <1>2. \A g : SumFunctionOnSet(g, {}) = 0
    BY SumSplits, FS_EmptySet
  <1>3. ~Exceeds(0, budget, TotalCost)
    <2>1. TotalCost \in Nat
      <3>1. DOMAIN Pays = DOMAIN Rows
        BY DEF Pays
      <3> QED BY <3>1, RowTypes, SumNatural DEF TotalCost, SumFunction
    <2>2. budget[1] \in Nat /\ budget[2] \in Nat
      OBVIOUS
    <2>3. \A x \in Nat, y \in Nat, z \in Nat : 0 * x = 0 /\ y * z \in Nat
      OBVIOUS
    <2>4. 0 * budget[2] = 0 /\ budget[1] * TotalCost \in Nat
      BY <2>1, <2>2, <2>3
    <2> QED BY <2>4 DEF Exceeds
  <1> QED BY <1>1, <1>2, <1>3 DEF AccountOf

\* An auction that is not won, for a reason, leaves the account as it is.
LEMMA NotWon ==
    ASSUME NEW s \in SUBSET DOMAIN Rows, NEW m \in s, \A i \in s : i <= m,
           NEW bids \in [DOMAIN Rows -> Nat], NEW Vs, NEW budget, NEW a,
           AccountOf(s \ {m}, bids, Vs, budget, a),
           \/ bids[m] < Pays[m] \/ bids[m] = 0
           \/ Exceeds(a.spent + bids[m], budget, TotalCost)
    PROVE  AccountOf(s, bids, Vs, budget, a)
  <1>1. a.wins \subseteq s \ {m}
    BY DEF AccountOf
  <1>2. {j \in a.wins : j < m} = a.wins
    <2>1. \A j \in s : j \in Int
      BY RowTypes
    <2> QED BY <1>1, <2>1
  <1>3. Refused(bids, budget, a.wins, m)
    BY <1>2 DEF Refused, AccountOf
  <1> QED BY <1>1, <1>3 DEF AccountOf

\* An auction that is won and can be paid for.
LEMMA Won ==
    ASSUME NEW s \in SUBSET DOMAIN Rows, NEW m \in s, \A i \in s : i <= m,
           NEW bids \in [DOMAIN Rows -> Nat], NEW Vs \in [DOMAIN Rows -> Nat], NEW budget, NEW a,
           AccountOf(s \ {m}, bids, Vs, budget, a),
           ~Exceeds(a.spent + bids[m], budget, TotalCost)
    PROVE  AccountOf(s, bids, Vs, budget, Win(a, m, bids[m], Vs[m]))
  <1> DEFINE b == Win(a, m, bids[m], Vs[m])
             gain == Gain(bids, Vs)
             wins == a.wins \cup {m}
  <1>1. /\ a \in Accounts /\ a.wins \subseteq s \ {m}
        /\ a.spent = SumFunctionOnSet(bids, a.wins) /\ a.profit = SumFunctionOnSet(gain, a.wins)
        /\ \A i \in (s \ {m}) \ a.wins : Refused(bids, budget, a.wins, i)
    BY DEF AccountOf
  <1>2. /\ b.spent = a.spent + bids[m] /\ b.wins = wins /\ b.profit = a.profit + (Vs[m] - bids[m])
        /\ b = [spent |-> b.spent, wins |-> b.wins, profit |-> b.profit]
    BY DEF Win
  <1> HIDE DEF b
  <1>3. bids[m] \in Int /\ Vs[m] \in Int /\ a.spent \in Int /\ a.profit \in Int
    BY <1>1 DEF Accounts
  <1>4. \A i \in DOMAIN Rows : gain[i] = Vs[i] - bids[i] /\ gain[i] \in Int /\ bids[i] \in Int
    BY DEF Gain
  <1> HIDE DEF gain
  <1>5. IsFiniteSet(wins) /\ wins \subseteq DOMAIN Rows /\ wins \ {m} = a.wins /\ m \in wins
    BY <1>1, RowTypes
  <1>6. SumFunctionOnSet(bids, wins) = bids[m] + SumFunctionOnSet(bids, a.wins)
    <2>1. \A x \in wins : bids[x] \in Int
      BY <1>4, <1>5
    <2> QED BY <1>5, <2>1, SumSplits
  <1>7. SumFunctionOnSet(gain, wins) = gain[m] + SumFunctionOnSet(gain, a.wins)
    <2>1. \A x \in wins : gain[x] \in Int
      BY <1>4, <1>5
    <2> QED BY <1>5, <2>1, SumSplits
  <1>8. b.spent = SumFunctionOnSet(bids, b.wins) /\ b.profit = SumFunctionOnSet(gain, b.wins)
    <2>1. gain[m] = Vs[m] - bids[m]
      BY <1>4
    <2> QED BY <1>1, <1>2, <1>3, <1>6, <1>7, <2>1
  <1>9. b \in Accounts
    BY <1>2, <1>3, <1>5 DEF Accounts
  <1>10. ASSUME NEW i \in s \ b.wins PROVE Refused(bids, budget, b.wins, i)
    <2>1. i \in (s \ {m}) \ a.wins /\ i \in Int /\ m \in Int /\ i <= m /\ i # m
      BY <1>2, RowTypes
    <2>2. {j \in b.wins : j < i} = {j \in a.wins : j < i}
      BY <1>2, <2>1
    <2> QED BY <1>1, <2>1, <2>2 DEF Refused
  <1> QED BY <1>1, <1>2, <1>8, <1>9, <1>10 DEF AccountOf, b, gain

\* A set of positions has a latest one.
LEMMA Latest ==
    ASSUME NEW n \in Nat, NEW s \in SUBSET (1 .. n), s # {}
    PROVE  Max(s) \in s /\ \A i \in s : i <= Max(s)
  <1> DEFINE score == [i \in s |-> i]
  <1>1. s \in SUBSET (0 .. n) /\ \A i \in s : i \in Int
    OBVIOUS
  <1>2. PICK m : Best(s, score, m)
    <2>1. \A i \in s : score[i] \in Int
      BY <1>1
    <2> HIDE DEF score
    <2> QED BY <1>1, <2>1, FirstBest
  <1>3. m \in s /\ \A y \in s : m >= y
    BY <1>1, <1>2 DEF Best
  <1>4. Max(s) \in s /\ \A y \in s : Max(s) >= y
    BY <1>3 DEF Max
  <1> QED BY <1>1, <1>4

\* The rows too.
LEMMA LatestRow ==
    ASSUME NEW s \in SUBSET DOMAIN Rows, s # {}
    PROVE  Max(s) \in s /\ \A i \in s : i <= Max(s)
  BY RowTypes, Latest

InOrder(bids) == [i \in DOMAIN bids |-> i]

\* The recursion of simulate's fold.
Plays(f, bids, Vs, budget) ==
    f = [s \in SUBSET DOMAIN InOrder(bids) |->
           IF s = {} THEN NoAccount
           ELSE LET i == InOrder(bids)[Max(s)]
                IN  Play(f[s \ {Max(s)}], i, bids[i], Pays[i], Vs[i], budget, TotalCost)]

\* simulate keeps an account of the auctions it has played.
LEMMA SimulateKeepsAccount ==
    ASSUME NEW bids \in [DOMAIN Rows -> Nat], NEW Vs \in [DOMAIN Rows -> Nat],
           NEW budget \in Nat \X Nat
    PROVE  AccountOf(DOMAIN Rows, bids, Vs, budget, Simulate(bids, Pays, Vs, budget, TotalCost))
  <1> DEFINE S == DOMAIN Rows
             take == [s \in SUBSET S |-> Max(s)]
             step == [x \in S \X Accounts |->
                        Play(x[2], x[1], bids[x[1]], Pays[x[1]], Vs[x[1]], budget, TotalCost)]
             F == CHOOSE f : Plays(f, bids, Vs, budget)
  <1>1. Picks(take, S) /\ IsFiniteSet(S) /\ \A s \in SUBSET S : take[s] = Max(s)
    BY LatestRow, RowTypes DEF Picks
  <1>2. \A i \in S, a \in Accounts :
          Play(a, i, bids[i], Pays[i], Vs[i], budget, TotalCost) \in Accounts
    BY DEF Play, Win, Accounts
  <1>3. step \in [S \X Accounts -> Accounts]
    BY <1>2
  <1>4. NoAccount \in Accounts
    BY DEF NoAccount, Accounts
  <1>5. DOMAIN InOrder(bids) = S /\ \A i \in S : InOrder(bids)[i] = i
    BY DEF InOrder
  <1>6. PICK f : IsFold(f, S, Accounts, NoAccount, take, step)
    <2> HIDE DEF S, take, step
    <2> QED BY <1>1, <1>3, <1>4, FoldExists
  <1>7. ASSUME NEW s \in SUBSET S
        PROVE  f[s] = IF s = {} THEN NoAccount
                      ELSE LET i == InOrder(bids)[Max(s)]
                           IN  Play(f[s \ {Max(s)}], i, bids[i], Pays[i], Vs[i], budget, TotalCost)
    <2>1. f \in [SUBSET S -> Accounts] /\ f[s] = Step(f, NoAccount, take, step, s)
      BY <1>6 DEF IsFold
    <2>2. CASE s = {}
      BY <2>1, <2>2 DEF Step
    <2>3. CASE s # {}
      <3> DEFINE i == Max(s)
                 a == f[s \ {i}]
      <3>1. i \in S /\ take[s] = i /\ InOrder(bids)[i] = i /\ a \in Accounts
        BY <1>1, <1>5, <2>1, <2>3 DEF Picks
      <3>2. f[s] = step[<<i, a>>]
        BY <2>1, <2>3, <3>1 DEF Step
      <3> HIDE DEF i, a
      <3>3. <<i, a>> \in S \X Accounts
        BY <3>1
      <3>4. step[<<i, a>>] = Play(a, i, bids[i], Pays[i], Vs[i], budget, TotalCost)
        BY <3>3
      <3> QED BY <2>3, <3>1, <3>2, <3>4 DEF i, a
    <2> QED BY <2>2, <2>3
  <1>8. Plays(f, bids, Vs, budget)
    <2>1. f \in [SUBSET S -> Accounts]
      BY <1>6 DEF IsFold
    <2> QED BY <1>5, <1>7, <2>1 DEF Plays
  <1>9. Plays(F, bids, Vs, budget)
    BY <1>8
  <1>10. Simulate(bids, Pays, Vs, budget, TotalCost) = F[S]
    <2>1. Simulate(bids, Pays, Vs, budget, TotalCost) = F[DOMAIN InOrder(bids)]
      BY DEF Simulate, FoldLeft, MapThenFoldSet, Plays, InOrder
    <2> QED BY <1>5, <2>1
  <1> HIDE DEF F
  <1> DEFINE T == {s \in SUBSET S : AccountOf(s, bids, Vs, budget, F[s])}
  <1>11. {} \in T
    <2>1. F[{}] = NoAccount
      BY <1>9 DEF Plays
    <2> QED BY <2>1, EmptyAccount
  <1>12. ASSUME NEW s \in SUBSET S, s # {} /\ s \ {take[s]} \in T PROVE s \in T
    <2> DEFINE m == Max(s)
               a == F[s \ {m}]
    <2>1. take[s] = m /\ m \in s /\ \A i \in s : i <= m
      BY <1>1, <1>12, LatestRow
    <2>2. InOrder(bids)[m] = m
      BY <1>5, <2>1
    <2>3. F[s] = Play(a, m, bids[m], Pays[m], Vs[m], budget, TotalCost)
      BY <1>5, <1>9, <1>12, <2>2, ZenonT(60) DEF Plays
    <2>4. AccountOf(s \ {m}, bids, Vs, budget, a)
      BY <1>12, <2>1
    <2> HIDE DEF m, a
    <2>5. bids[m] \in Nat /\ Pays[m] \in Nat
      BY <2>1, RowTypes
    <2>6. CASE bids[m] <= 0 \/ Exceeds(a.spent + bids[m], budget, TotalCost) \/ bids[m] < Pays[m]
      <3>1. F[s] = a
        BY <2>3, <2>6 DEF Play
      <3>2. \/ bids[m] < Pays[m] \/ bids[m] = 0
            \/ Exceeds(a.spent + bids[m], budget, TotalCost)
        BY <2>5, <2>6
      <3> QED BY <2>1, <2>4, <3>1, <3>2, NotWon
    <2>7. CASE ~(bids[m] <= 0 \/ Exceeds(a.spent + bids[m], budget, TotalCost) \/ bids[m] < Pays[m])
      <3>1. F[s] = Win(a, m, bids[m], Vs[m])
        BY <2>3, <2>7 DEF Play
      <3> QED BY <2>1, <2>4, <2>7, <3>1, Won
    <2> QED BY <2>6, <2>7
  <1> HIDE DEF T, take
  <1>13. S \in T
    BY <1>1, <1>11, <1>12, SubsetInduction
  <1> QED BY <1>10, <1>13 DEF T

NaiveStates == [account : Accounts, over : BOOLEAN]

\* One auction of budget_naive.
PlayNaive(acc, i, bid, budget) ==
    IF acc.over \/ Exceeds(acc.account.spent + bid, budget, TotalCost)
    THEN [acc EXCEPT !.over = TRUE]
    ELSE IF bid >= Pays[i] THEN [acc EXCEPT !.account = Win(@, i, bid, FixedV)]
    ELSE acc

\* The recursion of its fold.
PlaysNaive(f, bid, budget) ==
    f = [s \in SUBSET DOMAIN InOrder(Pays) |->
           IF s = {} THEN [account |-> NoAccount, over |-> FALSE]
           ELSE PlayNaive(f[s \ {Max(s)}], InOrder(Pays)[Max(s)], bid, budget)]

\* What one auction does, field by field.
LEMMA PlayNaiveDoes ==
    ASSUME NEW a \in NaiveStates, NEW i \in DOMAIN Rows, NEW bid \in Nat, NEW budget
    PROVE  LET broke == a.over \/ Exceeds(a.account.spent + bid, budget, TotalCost)
               b == PlayNaive(a, i, bid, budget)
           IN  /\ b \in NaiveStates
               /\ broke => b.account = a.account /\ b.over
               /\ ~broke /\ bid >= Pays[i] =>
                    b.account = Win(a.account, i, bid, FixedV) /\ b.over = a.over
               /\ ~broke /\ ~(bid >= Pays[i]) => b = a
  <1> DEFINE broke == a.over \/ Exceeds(a.account.spent + bid, budget, TotalCost)
             b == PlayNaive(a, i, bid, budget)
  <1>1. Win(a.account, i, bid, FixedV) \in Accounts
    BY RowTypes DEF NaiveStates, Accounts, Win
  <1>2. CASE broke
    <2>1. b = [a EXCEPT !.over = TRUE]
      BY <1>2 DEF PlayNaive
    <2> HIDE DEF b
    <2> QED BY <1>2, <2>1 DEF NaiveStates, b
  <1>3. CASE ~broke /\ bid >= Pays[i]
    <2>1. b = [a EXCEPT !.account = Win(a.account, i, bid, FixedV)]
      BY <1>3 DEF PlayNaive
    <2> HIDE DEF b
    <2> QED BY <1>1, <1>3, <2>1 DEF NaiveStates, b
  <1>4. CASE ~broke /\ ~(bid >= Pays[i])
    BY <1>4 DEF PlayNaive
  <1> QED BY <1>2, <1>3, <1>4

\* budget_naive keeps an account too, and stops when a bid cannot be paid.
LEMMA NaiveKeepsAccount ==
    ASSUME NEW bid \in Nat, NEW budget \in Nat \X Nat
    PROVE  AccountOf(DOMAIN Rows, [i \in DOMAIN Rows |-> bid], FixedVs, budget,
                     SimulateNaive(bid, Pays, FixedV, budget, TotalCost))
  <1> DEFINE S == DOMAIN Rows
             bids == [i \in DOMAIN Rows |-> bid]
             base == [account |-> NoAccount, over |-> FALSE]
             take == [s \in SUBSET S |-> Max(s)]
             step == [x \in S \X NaiveStates |-> PlayNaive(x[2], x[1], bid, budget)]
             F == CHOOSE f : PlaysNaive(f, bid, budget)
  <1>1. Picks(take, S) /\ IsFiniteSet(S) /\ \A s \in SUBSET S : take[s] = Max(s)
    BY LatestRow, RowTypes DEF Picks
  <1>2. \A i \in S, a \in NaiveStates : PlayNaive(a, i, bid, budget) \in NaiveStates
    BY PlayNaiveDoes
  <1>3. step \in [S \X NaiveStates -> NaiveStates]
    BY <1>2
  <1>4. base \in NaiveStates
    BY DEF NoAccount, Accounts, NaiveStates
  <1>5. DOMAIN InOrder(Pays) = S /\ \A i \in S : InOrder(Pays)[i] = i
    BY DEF InOrder, Pays
  <1>6. PICK f : IsFold(f, S, NaiveStates, base, take, step)
    <2> HIDE DEF S, take, step, base
    <2> QED BY <1>1, <1>3, <1>4, FoldExists
  <1>7. ASSUME NEW s \in SUBSET S
        PROVE  f[s] = IF s = {} THEN base
                      ELSE PlayNaive(f[s \ {Max(s)}], InOrder(Pays)[Max(s)], bid, budget)
    <2>1. f \in [SUBSET S -> NaiveStates] /\ f[s] = Step(f, base, take, step, s)
      BY <1>6 DEF IsFold
    <2> HIDE DEF base
    <2>2. CASE s = {}
      BY <2>1, <2>2 DEF Step
    <2>3. CASE s # {}
      <3> DEFINE i == Max(s)
                 a == f[s \ {i}]
      <3>1. i \in S /\ take[s] = i /\ InOrder(Pays)[i] = i /\ a \in NaiveStates
        BY <1>1, <1>5, <2>1, <2>3 DEF Picks
      <3>2. f[s] = step[<<i, a>>]
        BY <2>1, <2>3, <3>1 DEF Step
      <3> HIDE DEF i, a
      <3>3. <<i, a>> \in S \X NaiveStates
        BY <3>1
      <3>4. step[<<i, a>>] = PlayNaive(a, i, bid, budget)
        BY <3>3
      <3> QED BY <2>3, <3>1, <3>2, <3>4 DEF i, a
    <2> QED BY <2>2, <2>3
  <1>8. PlaysNaive(f, bid, budget)
    <2>1. f \in [SUBSET S -> NaiveStates]
      BY <1>6 DEF IsFold
    <2> QED BY <1>5, <1>7, <2>1 DEF PlaysNaive
  <1>9. PlaysNaive(F, bid, budget)
    BY <1>8
  <1>10. SimulateNaive(bid, Pays, FixedV, budget, TotalCost) = F[S].account
    <2>1. SimulateNaive(bid, Pays, FixedV, budget, TotalCost) = F[DOMAIN InOrder(Pays)].account
      BY DEF SimulateNaive, FoldLeft, MapThenFoldSet, PlaysNaive, PlayNaive, InOrder
    <2> QED BY <1>5, <2>1
  <1> HIDE DEF F
  <1>11. bids \in [DOMAIN Rows -> Nat] /\ FixedVs \in [DOMAIN Rows -> Nat]
         /\ \A i \in S : bids[i] = bid /\ FixedVs[i] = FixedV
    BY RowTypes DEF FixedVs
  <1> HIDE DEF bids
  <1> DEFINE T == {s \in SUBSET S :
                     /\ F[s] \in NaiveStates
                     /\ AccountOf(s, bids, FixedVs, budget, F[s].account)
                     /\ F[s].over => Exceeds(F[s].account.spent + bid, budget, TotalCost)}
  <1>12. {} \in T
    <2>1. F[{}] = base
      BY <1>9 DEF PlaysNaive
    <2> QED BY <1>4, <2>1, EmptyAccount
  <1>13. ASSUME NEW s \in SUBSET S, s # {} /\ s \ {take[s]} \in T PROVE s \in T
    <2> DEFINE m == Max(s)
               a == F[s \ {m}]
               broke == a.over \/ Exceeds(a.account.spent + bid, budget, TotalCost)
    <2>1. take[s] = m /\ m \in s /\ m \in S /\ \A i \in s : i <= m
      BY <1>1, <1>13, LatestRow
    <2>2. InOrder(Pays)[m] = m
      BY <1>5, <2>1
    <2>3. F[s] = PlayNaive(a, m, bid, budget)
      BY <1>5, <1>9, <1>13, <2>2, ZenonT(60) DEF PlaysNaive
    <2>4. /\ a \in NaiveStates /\ AccountOf(s \ {m}, bids, FixedVs, budget, a.account)
          /\ a.over => Exceeds(a.account.spent + bid, budget, TotalCost)
      BY <1>13, <2>1
    <2> HIDE DEF m, a
    <2>5. bids[m] = bid /\ FixedVs[m] = FixedV /\ Pays[m] \in Nat
      BY <1>11, <2>1, RowTypes
    <2>6. /\ F[s] \in NaiveStates
          /\ broke => F[s].account = a.account /\ F[s].over
          /\ ~broke /\ bid >= Pays[m] =>
               F[s].account = Win(a.account, m, bid, FixedV) /\ F[s].over = a.over
          /\ ~broke /\ ~(bid >= Pays[m]) => F[s] = a
      BY <2>1, <2>3, <2>4, PlayNaiveDoes
    <2>7. CASE broke
      <3>1. Exceeds(a.account.spent + bid, budget, TotalCost)
        BY <2>4, <2>7
      <3>2. AccountOf(s, bids, FixedVs, budget, a.account)
        BY <1>11, <2>1, <2>4, <2>5, <3>1, NotWon
      <3> QED BY <2>6, <2>7, <3>1, <3>2
    <2>8. CASE ~broke /\ bid >= Pays[m]
      <3>1. AccountOf(s, bids, FixedVs, budget, Win(a.account, m, bid, FixedV))
        BY <1>11, <2>1, <2>4, <2>5, <2>8, Won
      <3> QED BY <2>6, <2>8, <3>1
    <2>9. CASE ~broke /\ ~(bid >= Pays[m])
      <3>1. AccountOf(s, bids, FixedVs, budget, a.account)
        BY <1>11, <2>1, <2>4, <2>5, <2>9, NotWon
      <3> QED BY <2>4, <2>6, <2>9, <3>1
    <2> QED BY <2>7, <2>8, <2>9
  <1> HIDE DEF T, take
  <1>14. S \in T
    BY <1>1, <1>12, <1>13, SubsetInduction
  <1> QED BY <1>10, <1>14 DEF T, bids

\* A report of a budget simulation balances for any bids.
LEMMA BudgetBalances ==
    ASSUME NEW bids \in [DOMAIN Rows -> Nat], NEW Vs \in [DOMAIN Rows -> Nat],
           report' = BudgetOf(bids, Vs)
    PROVE  AccountsAddUp'
  <1>1. /\ report'.kind = "budget" /\ report'.bids = bids /\ report'.Vs = Vs
        /\ report'.accounts = [b \in Fractions |-> Simulate(bids, Pays, Vs, b, TotalCost)]
    BY DEF BudgetOf, BudgetReport
  <1>2. ASSUME NEW b \in Fractions PROVE Balanced(bids, Vs, b, report'.accounts[b])
    <2> DEFINE account == Simulate(bids, Pays, Vs, b, TotalCost)
    <2>1. b \in Nat \X Nat
      BY ExperimentsAssumption
    <2>2. AccountOf(DOMAIN Rows, bids, Vs, b, account)
      BY <2>1, SimulateKeepsAccount
    <2>3. report'.accounts[b] = account
      BY <1>1
    <2> HIDE DEF account
    <2> QED BY <2>2, <2>3 DEF Balanced, AccountOf, Refused, Gain
  <1> QED BY <1>1, <1>2 DEF AccountsAddUp

\* So does the naive bidder's.
LEMMA NaiveBalances ==
    ASSUME BudgetNaive
    PROVE  AccountsAddUp'
  <1>1. PICK mean \in 1 .. Top :
          LET b == IF mean > FixedV THEN FixedV ELSE mean
          IN  report' = BudgetReport([i \in DOMAIN Rows |-> b], FixedVs,
                          [f \in Fractions |-> SimulateNaive(b, Pays, FixedV, f, TotalCost)])
    BY DEF BudgetNaive, Script
  <1> DEFINE bid == IF mean > FixedV THEN FixedV ELSE mean
             bids == [i \in DOMAIN Rows |-> bid]
  <1>2. bid \in Nat
    BY RowTypes, BinsShape
  <1>3. /\ report'.kind = "budget" /\ report'.bids = bids /\ report'.Vs = FixedVs
        /\ report'.accounts = [f \in Fractions |-> SimulateNaive(bid, Pays, FixedV, f, TotalCost)]
    BY <1>1 DEF BudgetReport
  <1> HIDE DEF bid
  <1>4. ASSUME NEW b \in Fractions PROVE Balanced(bids, FixedVs, b, report'.accounts[b])
    <2> DEFINE account == SimulateNaive(bid, Pays, FixedV, b, TotalCost)
    <2>1. b \in Nat \X Nat
      BY ExperimentsAssumption
    <2>2. AccountOf(DOMAIN Rows, bids, FixedVs, b, account)
      BY <1>2, <2>1, NaiveKeepsAccount
    <2>3. report'.accounts[b] = account /\ DOMAIN bids = DOMAIN Rows
      BY <1>3
    <2> HIDE DEF account, bids
    <2> QED BY <2>2, <2>3 DEF Balanced, AccountOf, Refused, Gain
  <1> HIDE DEF bids
  <1> QED BY <1>3, <1>4 DEF AccountsAddUp

\* The bids of a table are numbers, for both values of an impression.
LEMMA GridBidsType ==
    ASSUME NEW t, \A i \in DOMAIN Rows : t[i] \in [Bins -> Nat], NEW Vs \in {FixedVs, BidVs}
    PROVE  GridBids(t, Vs) \in [DOMAIN Rows -> Nat] /\ Vs \in [DOMAIN Rows -> Nat]
  <1>1. Vs \in [DOMAIN Rows -> Nat]
    BY RowTypes DEF FixedVs, BidVs
  <1>2. ASSUME NEW i \in DOMAIN Rows PROVE GridOptimizeBins(t[i], Vs[i]) \in Nat
    <2>1. t[i] \in [0 .. NumBins - 1 -> Nat] /\ NumBins - 1 \in Nat /\ Vs[i] \in Nat
      BY <1>1, BinsShape
    <2> QED BY <2>1, GridBidIs
  <1> QED BY <1>1, <1>2 DEF GridBids

\* budget_eval and budget_ensemble.
LEMMA BudgetScriptsBalance ==
    ASSUME SearchInv, BudgetEval \/ BudgetEnsemble
    PROVE  AccountsAddUp'
  <1>1. \A f \in Files : preds[f] # None => preds[f] \in Tables /\ IsTable(preds[f])
    BY ExperimentsAssumption DEF SearchInv, Typed, IsTable
  <1>2. CASE BudgetEval
    <2>1. PICK f \in Files, Vs \in {FixedVs, BidVs} :
            /\ preds[f] # None
            /\ report' = BudgetOf(GridBids([i \in DOMAIN Rows |-> ToBins(preds[f][i])], Vs), Vs)
      BY <1>2 DEF BudgetEval, Script
    <2> DEFINE t == [i \in DOMAIN Rows |-> ToBins(preds[f][i])]
    <2>2. \A i \in DOMAIN Rows : t[i] \in [Bins -> Nat]
      BY <1>1, <2>1, DistributionShape DEF IsTable
    <2> HIDE DEF t
    <2>3. GridBids(t, Vs) \in [DOMAIN Rows -> Nat] /\ Vs \in [DOMAIN Rows -> Nat]
      BY <2>2, GridBidsType
    <2> QED BY <2>1, <2>3, BudgetBalances DEF t
  <1>3. CASE BudgetEnsemble
    <2>1. PICK ms \in MemberLists, Vs \in {FixedVs, BidVs} : \E w \in Weights(ms) :
            /\ \A i \in DOMAIN ms : preds[ms[i]] # None
            /\ report' = BudgetOf(GridBids(Blend([i \in DOMAIN ms |-> preds[ms[i]]], w), Vs), Vs)
      BY <1>3 DEF BudgetEnsemble, Script
    <2>2. PICK w \in Weights(ms) :
            /\ \A i \in DOMAIN ms : preds[ms[i]] # None
            /\ report' = BudgetOf(GridBids(Blend([i \in DOMAIN ms |-> preds[ms[i]]], w), Vs), Vs)
      BY <2>1
    <2> DEFINE tables == [i \in DOMAIN ms |-> preds[ms[i]]]
               n == Len(ms)
    <2>3. ms \in Seq(Files) /\ w \in Seq(Nat) /\ Len(w) = n
      BY ExperimentsAssumption DEF Weights
    <2>4. n \in Nat /\ DOMAIN ms = 1 .. n /\ \A i \in 1 .. n : w[i] \in Nat /\ ms[i] \in Files
      BY <2>3, LenProperties, ElementOfSeq
    <2>5. DOMAIN tables = 1 .. n /\ \A i \in 1 .. n : IsTable(tables[i])
      BY <1>1, <2>2, <2>4
    <2> HIDE DEF tables, n
    <2>6. \A i \in DOMAIN Rows : Blend(tables, w)[i] \in [Bins -> Nat]
      BY <2>4, <2>5, BlendType
    <2>7. GridBids(Blend(tables, w), Vs) \in [DOMAIN Rows -> Nat] /\ Vs \in [DOMAIN Rows -> Nat]
      BY <2>6, GridBidsType
    <2> QED BY <2>2, <2>7, BudgetBalances DEF tables
  <1> QED BY <1>2, <1>3

\* Every step keeps the books.
LEMMA AccountsStep == SearchInv /\ AccountsAddUp /\ [Next]_vars => AccountsAddUp'
  <1> SUFFICES ASSUME SearchInv, AccountsAddUp, [Next]_vars PROVE AccountsAddUp'
    OBVIOUS
  <1>1. CASE UNCHANGED report
    BY <1>1 DEF AccountsAddUp
  <1>2. CASE report'.kind # "budget"
    BY <1>2 DEF AccountsAddUp
  <1>3. CASE Evaluate \/ EvaluateCheckpoint \/ EvaluatePreds \/ EvaluateEnsemble
    <2>1. PICK a, b : report' = GridScore(a, b)
      <3>1. CASE Evaluate \/ EvaluateCheckpoint
        BY <3>1 DEF Evaluate, EvaluateCheckpoint, Script, Scores
      <3>2. CASE EvaluatePreds \/ EvaluateEnsemble
        BY <3>2 DEF EvaluatePreds, EvaluateEnsemble, Script, Scores
      <3> QED BY <1>3, <3>1, <3>2
    <2>2. report'.kind = "eval"
      BY <2>1 DEF GridScore
    <2> QED BY <1>2, <2>2
  <1>4. CASE Calibrate \/ Backtest \/ ReadReport
    <2>1. report'.kind \in {"calibrated", "backtest", "none"}
      BY <1>4 DEF Calibrate, Backtest, ReadReport, Script, NoReport
    <2> QED BY <1>2, <2>1
  <1>5. CASE BudgetEval \/ BudgetEnsemble \/ BudgetNaive
    BY <1>5, BudgetScriptsBalance, NaiveBalances
  <1>6. CASE \/ StartSearch \/ LoadMember \/ LoadMember3 \/ ReuseCache \/ BeginCache \/ EndCache
             \/ KillSearch \/ UNCHANGED vars
    <2>1. UNCHANGED report
      BY <1>6 DEF StartSearch, LoadMember, LoadMember3, ReuseCache, BeginCache, EndCache,
                  KillSearch, SearchStep, vars
    <2> QED BY <1>1, <2>1
  <1>7. CASE \/ RandomSearch \/ RandomSearch2 \/ RandomSearch3
             \/ GreedySearch \/ GreedySearch2 \/ GreedySearch3
    <2>1. PICK k \in Scripts : Trial(k) \/ Greedy(k)
      BY <1>7 DEF RandomSearch, RandomSearch2, RandomSearch3, GreedySearch, GreedySearch2,
                  GreedySearch3, Scripts
    <2>2. PICK s : SearchStep(s)
      BY <2>1, Zenon DEF Trial, Greedy
    <2>3. UNCHANGED report
      BY <2>2 DEF SearchStep
    <2> QED BY <1>1, <2>3
  <1>8. CASE SaveBest \/ SaveBest2 \/ SaveBest3
    <2>1. report'.kind = "search"
      BY <1>8 DEF SaveBest, SaveBest2, SaveBest3, SaveSearch
    <2> QED BY <1>2, <2>1
  <1> QED BY <1>3, <1>4, <1>5, <1>6, <1>7, <1>8 DEF Next

\* For any test set, predictions and budgets: no simulation
\* spends more than its budget, it loses an auction only for a reason that
\* held at that moment, its spend and profit are those of the auctions it won,
\* and the naive bidder's early stop forgoes nothing it could have paid
\* (budget_eval.py simulate, budget_naive.py main).
THEOREM AccountsBalance == Spec => []AccountsAddUp
  <1>1. Init => SearchInv /\ AccountsAddUp
    <2> SUFFICES ASSUME Init PROVE AccountsAddUp
      BY SearchStarts
    <2>1. report.kind = "none"
      BY DEF Init, NoReport
    <2> QED BY <2>1 DEF AccountsAddUp
  <1>2. SearchInv /\ AccountsAddUp /\ [Next]_vars => (SearchInv /\ AccountsAddUp)'
    BY SearchStepKeeps, AccountsStep
  <1>3. SearchInv /\ AccountsAddUp => AccountsAddUp
    OBVIOUS
  <1> QED BY <1>1, <1>2, <1>3, PTL DEF Spec

-----------------------------------------------------------------------------
(* The bid *)

\* More of the same share is no less.
LEMMA MoreProfit ==
    ASSUME NEW a \in Nat, NEW b \in Nat, NEW x \in Nat, a <= b
    PROVE  a * x <= b * x
  OBVIOUS

\* Bidding the price of its bin costs no more and wins no less.
LEMMA BinIsEnough ==
    ASSUME NEW m \in Nat, NEW p \in [0 .. m -> Nat], NEW V \in Nat, NEW c \in 0 .. V
    PROVE  LET k == BinOf(p, c)
           IN  /\ k \in 0 .. m /\ Price(k) <= c /\ Price(k) \in Nat
               /\ MaskedProfit(p, V, c) = (V - c) * CdfAt(p, c)
               /\ (V - c) * CdfAt(p, c) <= MaskedProfit(p, V, Price(k))
  <1> DEFINE k == BinOf(p, c)
             x == CdfAt(p, c)
  <1>1. c \in Nat
    OBVIOUS
  <1>2. k = (IF c \div 2 <= m THEN c \div 2 ELSE m) /\ k \in 0 .. m /\ x \in Nat
    BY <1>1, CdfAtType
  <1>3. c \div 2 \in Nat /\ 2 * (c \div 2) <= c
    OBVIOUS
  <1>4. Price(k) <= c /\ Price(k) \in Nat
    BY <1>2, <1>3 DEF Price
  <1>5. BinOf(p, Price(k)) = k
    <2>1. Price(k) \div 2 = k
      BY <1>2 DEF Price
    <2>2. BinOf(p, Price(k)) = IF Price(k) \div 2 <= m THEN Price(k) \div 2 ELSE m
      BY <1>4, CdfAtType
    <2> QED BY <1>2, <2>1, <2>2
  <1>6. CdfAt(p, Price(k)) = x
    BY <1>5 DEF CdfAt
  <1>7. MaskedProfit(p, V, Price(k)) = (V - Price(k)) * x /\ MaskedProfit(p, V, c) = (V - c) * x
    BY <1>4, <1>6 DEF MaskedProfit
  <1>8. V - c \in Nat /\ V - Price(k) \in Nat /\ V - c <= V - Price(k)
    BY <1>4
  <1> HIDE DEF x, k
  <1>9. (V - c) * x <= (V - Price(k)) * x
    BY <1>2, <1>8, MoreProfit
  <1> QED BY <1>2, <1>4, <1>7, <1>9 DEF x, k

\* The bid is at most V, and no other bid has a higher expected profit.
LEMMA BidIsBest ==
    ASSUME NEW m \in Nat, NEW p \in [0 .. m -> Nat], NEW V \in Nat
    PROVE  LET b == GridOptimizeBins(p, V)
           IN  /\ b \in 0 .. V
               /\ \A c \in 0 .. V : (V - c) * CdfAt(p, c) <= (V - b) * CdfAt(p, b)
  <1> DEFINE b == GridOptimizeBins(p, V)
  <1>1. PICK k \in 0 .. m : b = Price(k) /\ Best(0 .. m, Profits(p, V), k)
    BY GridBinIs
  <1>2. /\ Profits(p, V) \in [0 .. m -> Nat]
        /\ \A j \in 0 .. m : Profits(p, V)[j] = MaskedProfit(p, V, Price(j))
    BY ProfitsType
  <1> HIDE DEF b
  <1>3. b \in Nat /\ b <= V
    <2>1. b \in Nat /\ (b = 0 <=> k = 0)
      BY <1>1 DEF Price
    <2>2. CASE k = 0
      BY <2>1, <2>2
    <2>3. CASE k # 0
      <3>1. Profits(p, V)[0] < Profits(p, V)[k]
        BY <1>1, <2>3 DEF Best
      <3>2. Profits(p, V)[0] \in Nat /\ Profits(p, V)[k] = MaskedProfit(p, V, b)
        BY <1>1, <1>2
      <3>3. MaskedProfit(p, V, b) # 0
        BY <3>1, <3>2
      <3>4. ~(b > V)
        BY <3>3 DEF MaskedProfit
      <3> QED BY <2>1, <3>4
    <2> QED BY <2>2, <2>3
  <1>4. MaskedProfit(p, V, b) = (V - b) * CdfAt(p, b)
    BY <1>3 DEF MaskedProfit
  <1>5. ASSUME NEW c \in 0 .. V PROVE (V - c) * CdfAt(p, c) <= (V - b) * CdfAt(p, b)
    <2>1. PICK j \in 0 .. m : /\ MaskedProfit(p, V, c) = (V - c) * CdfAt(p, c)
                              /\ (V - c) * CdfAt(p, c) <= MaskedProfit(p, V, Price(j))
      BY BinIsEnough
    <2>2. MaskedProfit(p, V, c) \in Nat
      <3>1. c \in Nat
        OBVIOUS
      <3> QED BY <3>1, MaskedProfitType
    <2>3. Profits(p, V)[j] <= Profits(p, V)[k] /\ Profits(p, V)[j] \in Nat /\ Profits(p, V)[k] \in Nat
      BY <1>1, <1>2 DEF Best
    <2>4. Profits(p, V)[j] = MaskedProfit(p, V, Price(j)) /\ Profits(p, V)[k] = MaskedProfit(p, V, b)
      BY <1>1, <1>2
    <2>5. MaskedProfit(p, V, c) <= MaskedProfit(p, V, b)
      BY <2>1, <2>2, <2>3, <2>4
    <2> QED BY <1>4, <2>1, <2>5
  <1> QED BY <1>3, <1>5 DEF b

\* The share at or below a bin's price is that of the bin.
LEMMA BinShare ==
    ASSUME NEW m \in Nat, NEW p \in [0 .. m -> Nat], NEW k \in 0 .. m
    PROVE  BinOf(p, Price(k)) = k /\ CdfAt(p, Price(k)) = Cdf(p)[k] /\ Cdf(p)[k] \in Nat
  <1>1. Price(k) \in Nat /\ Price(k) \div 2 = k
    BY DEF Price
  <1>2. BinOf(p, Price(k)) = IF Price(k) \div 2 <= m THEN Price(k) \div 2 ELSE m
    BY <1>1, CdfAtType
  <1>3. BinOf(p, Price(k)) = k
    BY <1>1, <1>2
  <1>4. Cdf(p)[k] \in Nat
    BY CdfUnfolds
  <1> QED BY <1>3, <1>4 DEF CdfAt

\* Cutting the row at ceil(V) and masking the bids above V leave the same
\* profits: between the two lies at most the bid V, which earns nothing.
LEMMA SliceIsMask ==
    ASSUME NEW m \in Nat, NEW p \in [0 .. m -> Nat], NEW V \in Nat, NEW k \in 0 .. m
    PROVE  SlicedProfit(p, V, k) = MaskedProfit(p, V, Price(k))
  <1> DEFINE x == CdfAt(p, Price(k))
  <1>1. x \in Nat
    BY BinShare
  <1>2. Price(k) = 2 * k /\ CeilBin(V) = (V + 1) \div 2
    BY DEF Price, CeilBin
  <1>3. k >= CeilBin(V) <=> Price(k) >= V
    BY <1>2
  <1>4. Price(k) = V => (V - Price(k)) * x = 0
    <2>1. 0 * x = 0
      BY <1>1
    <2>2. Price(k) = V => V - Price(k) = 0
      BY <1>2
    <2> QED BY <2>1, <2>2
  <1>5. SlicedProfit(p, V, k) = IF k >= CeilBin(V) THEN 0 ELSE (V - Price(k)) * x
    BY DEF SlicedProfit
  <1>6. MaskedProfit(p, V, Price(k)) = IF Price(k) > V THEN 0 ELSE (V - Price(k)) * x
    BY DEF MaskedProfit
  <1>7. Price(k) \in Nat
    BY <1>2
  <1> HIDE DEF x
  <1>8. CASE Price(k) = V
    BY <1>3, <1>4, <1>5, <1>6, <1>7, <1>8
  <1>9. CASE Price(k) # V
    BY <1>3, <1>5, <1>6, <1>7, <1>9
  <1> QED BY <1>8, <1>9

\* The searches bid what the grid does.
LEMMA SlicedIsGrid ==
    ASSUME NEW p \in [Bins -> Nat], NEW V \in Nat
    PROVE  SlicedBid(p, V) = GridOptimizeBins(p, V)
  <1> DEFINE m == NumBins - 1
             score == [j \in Bins |-> SlicedProfit(p, V, j)]
  <1>1. m \in Nat /\ Bins = 0 .. m /\ p \in [0 .. m -> Nat]
    BY BinsShape
  <1>2. PICK k : /\ Best(Bins, score, k)
                 /\ k \in Bins /\ SlicedBid(p, V) = Price(k)
                 /\ \A j \in Bins : SlicedProfit(p, V, j) \in Int
    BY SlicedBidType
  <1> HIDE DEF m
  <1>3. PICK c \in 0 .. m : GridOptimizeBins(p, V) = Price(c) /\ Best(0 .. m, Profits(p, V), c)
    BY <1>1, GridBinIs
  <1>4. \A j \in 0 .. m : Profits(p, V)[j] = MaskedProfit(p, V, Price(j))
    BY <1>1, ProfitsType
  <1>5. \A j \in 0 .. m : SlicedProfit(p, V, j) = MaskedProfit(p, V, Price(j))
    BY <1>1, SliceIsMask
  <1>6. score = Profits(p, V)
    BY <1>1, <1>5 DEF Profits
  <1>7. \A j \in 0 .. m : Profits(p, V)[j] \in Int
    BY <1>1, ProfitsType
  <1> HIDE DEF score
  <1>8. k = c
    BY <1>1, <1>2, <1>3, <1>6, <1>7, OneBest
  <1> QED BY <1>2, <1>3, <1>8

\* What BidsAreBest says of one mixture.
MdnBest(win, V) ==
    LET b == GridOptimizeMdn(win, V)
        Expected(c) == (V - c) * win[c]
    IN  /\ b \in MdnGrid
        /\ b <= V \/ \A c \in MdnGrid : c > V
        /\ b <= V => \A c \in MdnGrid : Expected(c) <= Expected(b)

\* The mixtures' candidates are some of the numbers up to the last of them.
LEMMA MdnGridShape ==
    \E m \in Nat : MdnGrid \in SUBSET (0 .. m) /\ MdnGrid # {}
  <1> DEFINE m == 1 + NumCands * CandStep
  <1>1. NumCands \in Nat \ {0} /\ CandStep \in Nat \ {0}
    BY BinsAssumption
  <1>2. \A x \in Nat, y \in Nat : x * y \in Nat
    OBVIOUS
  <1>3. m \in Nat
    BY <1>1, <1>2
  <1>4. ASSUME NEW j \in 0 .. NumCands - 1 PROVE 1 + j * CandStep \in 0 .. m
    <2>1. j \in Nat /\ j <= NumCands
      BY <1>1
    <2>2. j * CandStep <= NumCands * CandStep
      BY <1>1, <2>1, MoreProfit
    <2>3. j * CandStep \in Nat /\ NumCands * CandStep \in Nat
      BY <1>1, <1>2, <2>1
    <2> DEFINE a == j * CandStep
               b == NumCands * CandStep
    <2> HIDE DEF a, b
    <2>4. 1 + a \in 0 .. 1 + b
      BY <2>2, <2>3 DEF a, b
    <2> QED BY <2>4 DEF a, b
  <1>5. 0 \in 0 .. NumCands - 1
    BY <1>1
  <1> HIDE DEF m
  <1>6. MdnGrid \in SUBSET (0 .. m)
    BY <1>4 DEF MdnGrid
  <1>7. MdnGrid # {}
    BY <1>5 DEF MdnGrid
  <1> QED BY <1>3, <1>6, <1>7

\* No candidate is scored below nothing.
LEMMA MdnProfitType ==
    ASSUME NEW V \in Nat, NEW c \in Nat, NEW win, win[c] \in Nat
    PROVE  /\ MdnProfit(win, V, c) \in Nat
           /\ c > V => MdnProfit(win, V, c) = 0 /\ (V - c) * win[c] <= 0
           /\ c <= V => MdnProfit(win, V, c) = (V - c) * win[c]
  <1>1. \A x \in Nat, y \in Nat : x * y \in Nat
    OBVIOUS
  <1>2. \A x \in Int, y \in Nat : x <= 0 => x * y <= 0
    OBVIOUS
  <1>3. CASE c > V
    <2>1. V - c \in Int /\ V - c <= 0
      BY <1>3
    <2>2. (V - c) * win[c] <= 0
      BY <1>2, <2>1
    <2> QED BY <1>3, <2>2 DEF MdnProfit
  <1>4. CASE c <= V
    <2>1. V - c \in Nat
      BY <1>4
    <2>2. (V - c) * win[c] \in Nat
      BY <1>1, <2>1
    <2> QED BY <1>4, <2>2 DEF MdnProfit
  <1> QED BY <1>3, <1>4

\* The mixtures' search finds the first best of its grid: a bid above V only
\* where there is no other.
LEMMA MdnIsBest ==
    ASSUME NEW win, IsMixture(win), NEW V \in Nat
    PROVE  MdnBest(win, V)
  <1> DEFINE C == MdnGrid
             score == [c \in C |-> MdnProfit(win, V, c)]
             First(c) == \A d \in C : MdnProfit(win, V, d) < MdnProfit(win, V, c)
                                      \/ (MdnProfit(win, V, d) = MdnProfit(win, V, c) /\ c <= d)
             b == CHOOSE c \in C : First(c)
  <1>1. PICK m \in Nat : C \in SUBSET (0 .. m) /\ C # {}
    BY MdnGridShape
  <1> HIDE DEF C
  <1>2. \A c \in C : c \in Nat /\ win[c] \in Nat
    <2>1. \A c \in C : win[c] \in Nat
      BY DEF IsMixture, C
    <2> QED BY <1>1, <2>1
  <1>3. \A c \in C : /\ MdnProfit(win, V, c) \in Nat
                     /\ c > V => MdnProfit(win, V, c) = 0 /\ (V - c) * win[c] <= 0
                     /\ c <= V => MdnProfit(win, V, c) = (V - c) * win[c]
    BY <1>2, MdnProfitType
  <1>4. PICK c : Best(C, score, c)
    <2>1. \A c \in C : score[c] \in Int
      BY <1>3
    <2> HIDE DEF score
    <2> QED BY <1>1, <2>1, FirstBest
  <1>5. c \in C /\ First(c)
    BY <1>4 DEF Best
  <1>6. b \in C /\ First(b)
    BY <1>5
  <1>7. GridOptimizeMdn(win, V) = IF MdnProfit(win, V, b) < 0 THEN 0 ELSE b
    BY DEF GridOptimizeMdn, FirstMax, C
  <1> HIDE DEF b
  <1>8. GridOptimizeMdn(win, V) = b
    BY <1>3, <1>6, <1>7
  <1>9. ASSUME NEW d \in C, d <= V PROVE b <= V
    <2>1. MdnProfit(win, V, d) < MdnProfit(win, V, b)
          \/ (MdnProfit(win, V, d) = MdnProfit(win, V, b) /\ b <= d)
      BY <1>6
    <2>2. b > V => MdnProfit(win, V, b) = 0
      BY <1>3, <1>6
    <2>3. MdnProfit(win, V, d) \in Nat /\ b \in Nat /\ d \in Nat
      BY <1>2, <1>3, <1>6
    <2> QED BY <1>9, <2>1, <2>2, <2>3
  <1>10. b <= V \/ \A d \in C : d > V
    BY <1>2, <1>9
  <1>11. ASSUME b <= V, NEW d \in C PROVE (V - d) * win[d] <= (V - b) * win[b]
    <2> DEFINE x == (V - d) * win[d]
               y == (V - b) * win[b]
    <2>1. y \in Nat /\ y = MdnProfit(win, V, b)
      BY <1>3, <1>6, <1>11
    <2>2. MdnProfit(win, V, d) \in Nat /\ MdnProfit(win, V, d) <= MdnProfit(win, V, b)
      BY <1>3, <1>6, <2>1
    <2>3. CASE d > V
      <3>1. x <= 0 /\ x \in Int
        <4>1. x <= 0
          BY <1>3, <2>3
        <4>2. \A e \in Int, f \in Nat : e * f \in Int
          OBVIOUS
        <4>3. V - d \in Int /\ win[d] \in Nat
          BY <1>2
        <4> QED BY <4>1, <4>2, <4>3
      <3> HIDE DEF x, y
      <3>2. x <= y
        BY <2>1, <3>1
      <3> QED BY <3>2 DEF x, y
    <2>4. CASE d <= V
      <3>1. x = MdnProfit(win, V, d)
        BY <1>3, <2>4
      <3> HIDE DEF x, y
      <3>2. x <= y
        BY <2>1, <2>2, <3>1
      <3> QED BY <3>2 DEF x, y
    <2> QED BY <1>2, <2>3, <2>4
  <1> QED BY <1>6, <1>8, <1>10, <1>11, Zenon DEF MdnBest, C

ScanStates == [running : Nat, profit : Int, k : Int]
NoScan == [running |-> 0, profit |-> 0, k |-> -1]
ScanOrder(p) == [i \in 1 .. Cardinality(DOMAIN p) |-> i - 1]

\* One bin of optimize_bid's pass.
ScanBin(acc, k, p, V) ==
    LET running == acc.running + p[k]
        profit == IF Price(k) > V THEN 0 ELSE (V - Price(k)) * running
    IN  IF acc.k = -1 \/ profit > acc.profit
        THEN [running |-> running, profit |-> profit, k |-> k]
        ELSE [acc EXCEPT !.running = running]

\* The recursion of the pass.
Scans(f, p, V) ==
    f = [s \in SUBSET DOMAIN ScanOrder(p) |->
           IF s = {} THEN NoScan
           ELSE ScanBin(f[s \ {Max(s)}], ScanOrder(p)[Max(s)], p, V)]

\* What one bin does, field by field.
Scanned(a, k, p, V, b) ==
    LET running == a.running + p[k]
        profit == IF Price(k) > V THEN 0 ELSE (V - Price(k)) * running
    IN  /\ b \in ScanStates /\ b.running = running
        /\ a.k = -1 \/ profit > a.profit => b.profit = profit /\ b.k = k
        /\ ~(a.k = -1 \/ profit > a.profit) => b.profit = a.profit /\ b.k = a.k

LEMMA ScanBinDoes ==
    ASSUME NEW m \in Nat, NEW p \in [0 .. m -> Nat], NEW V \in Nat,
           NEW a \in ScanStates, NEW k \in 0 .. m
    PROVE  Scanned(a, k, p, V, ScanBin(a, k, p, V))
  <1> DEFINE running == a.running + p[k]
             profit == IF Price(k) > V THEN 0 ELSE (V - Price(k)) * running
             b == ScanBin(a, k, p, V)
  <1>1. running \in Nat
    BY DEF ScanStates
  <1> HIDE DEF running
  <1>2. profit \in Int
    <2>1. V - Price(k) \in Int /\ running \in Int
      BY <1>1 DEF Price
    <2>2. \A x \in Int, y \in Int : x * y \in Int
      OBVIOUS
    <2>3. (V - Price(k)) * running \in Int
      BY <2>1, <2>2
    <2> QED BY <2>3
  <1>3. b = IF a.k = -1 \/ profit > a.profit
            THEN [running |-> running, profit |-> profit, k |-> k]
            ELSE [a EXCEPT !.running = running]
    BY DEF ScanBin, running
  <1> HIDE DEF b, profit
  <1>4. CASE a.k = -1 \/ profit > a.profit
    BY <1>1, <1>2, <1>3, <1>4 DEF ScanStates, Scanned, running, profit, b
  <1>5. CASE ~(a.k = -1 \/ profit > a.profit)
    BY <1>1, <1>3, <1>5 DEF ScanStates, Scanned, running, profit, b
  <1> QED BY <1>4, <1>5

\* The pass, as a function of the bins that it has seen.
LEMMA ScanUnfolds ==
    ASSUME NEW m \in Nat, NEW p \in [0 .. m -> Nat], NEW V \in Nat
    PROVE  \E f : /\ Scans(f, p, V) /\ Scan(p, V) = f[1 .. m + 1]
                  /\ DOMAIN ScanOrder(p) = 1 .. m + 1
                  /\ \A i \in 1 .. m + 1 : ScanOrder(p)[i] = i - 1
  <1> DEFINE S == 1 .. m + 1
             take == [s \in SUBSET S |-> Max(s)]
             step == [x \in S \X ScanStates |-> ScanBin(x[2], x[1] - 1, p, V)]
             F == CHOOSE f : Scans(f, p, V)
  <1>1. Picks(take, S) /\ \A s \in SUBSET S : take[s] = Max(s)
    <2>1. m + 1 \in Nat
      OBVIOUS
    <2>2. \A s \in SUBSET S : s # {} => Max(s) \in s
      BY <2>1, Latest
    <2> QED BY <2>2 DEF Picks
  <1>2. IsFiniteSet(S)
    BY FS_Interval
  <1>3. DOMAIN ScanOrder(p) = S /\ \A i \in S : ScanOrder(p)[i] = i - 1
    <2>1. DOMAIN p = 0 .. m
      OBVIOUS
    <2>2. Cardinality(0 .. m) = m + 1
      BY FS_Interval
    <2> QED BY <2>1, <2>2 DEF ScanOrder
  <1>4. \A i \in S, a \in ScanStates : ScanBin(a, i - 1, p, V) \in ScanStates
    <2> SUFFICES ASSUME NEW i \in S, NEW a \in ScanStates
                 PROVE  ScanBin(a, i - 1, p, V) \in ScanStates
      OBVIOUS
    <2>1. i - 1 \in 0 .. m
      OBVIOUS
    <2> QED BY <2>1, ScanBinDoes DEF Scanned
  <1>5. step \in [S \X ScanStates -> ScanStates]
    BY <1>4
  <1>6. NoScan \in ScanStates
    BY DEF NoScan, ScanStates
  <1>7. PICK f : IsFold(f, S, ScanStates, NoScan, take, step)
    <2> HIDE DEF S, take, step
    <2> QED BY <1>1, <1>2, <1>5, <1>6, FoldExists
  <1>8. ASSUME NEW s \in SUBSET S
        PROVE  f[s] = IF s = {} THEN NoScan
                      ELSE ScanBin(f[s \ {Max(s)}], ScanOrder(p)[Max(s)], p, V)
    <2>1. f \in [SUBSET S -> ScanStates] /\ f[s] = Step(f, NoScan, take, step, s)
      BY <1>7 DEF IsFold
    <2>2. CASE s = {}
      BY <2>1, <2>2 DEF Step
    <2>3. CASE s # {}
      <3> DEFINE i == Max(s)
                 a == f[s \ {i}]
      <3> HIDE DEF S
      <3>1. i \in S /\ take[s] = i /\ ScanOrder(p)[i] = i - 1 /\ a \in ScanStates
        BY <1>1, <1>3, <2>1, <2>3 DEF Picks
      <3>2. f[s] = step[<<i, a>>]
        BY <2>1, <2>3, <3>1 DEF Step
      <3> HIDE DEF i, a
      <3>3. <<i, a>> \in S \X ScanStates
        BY <3>1
      <3>4. step[<<i, a>>] = ScanBin(a, i - 1, p, V)
        BY <3>3
      <3> QED BY <2>3, <3>1, <3>2, <3>4 DEF i, a
    <2> QED BY <2>2, <2>3
  <1>9. Scans(f, p, V)
    <2>1. f \in [SUBSET S -> ScanStates]
      BY <1>7 DEF IsFold
    <2> HIDE DEF S
    <2> QED BY <1>3, <1>8, <2>1 DEF Scans
  <1>10. Scans(F, p, V)
    BY <1>9
  <1>11. Scan(p, V) = F[DOMAIN ScanOrder(p)]
    BY DEF Scan, FoldLeft, MapThenFoldSet, Scans, ScanBin, ScanOrder, NoScan
  <1> HIDE DEF F
  <1> QED BY <1>3, <1>10, <1>11

\* After n bins: the share so far, and the first best of them.
ScanOf(n, p, V, a) ==
    /\ a \in ScanStates
    /\ n = 0 => a.running = 0 /\ a.k = -1
    /\ n > 0 => /\ a.running = Cdf(p)[n - 1]
                /\ Best(0 .. n - 1, Profits(p, V), a.k)
                /\ a.profit = Profits(p, V)[a.k]

\* One more bin.
LEMMA ScanBinKeeps ==
    ASSUME NEW m \in Nat, NEW p \in [0 .. m -> Nat], NEW V \in Nat,
           NEW n \in 0 .. m, NEW a, ScanOf(n, p, V, a)
    PROVE  ScanOf(n + 1, p, V, ScanBin(a, n, p, V))
  <1> DEFINE P == Profits(p, V)
             running == a.running + p[n]
             profit == IF Price(n) > V THEN 0 ELSE (V - Price(n)) * running
             b == ScanBin(a, n, p, V)
  <1>1. a \in ScanStates
    BY DEF ScanOf
  <1>2. /\ b \in ScanStates /\ b.running = running
        /\ a.k = -1 \/ profit > a.profit => b.profit = profit /\ b.k = n
        /\ ~(a.k = -1 \/ profit > a.profit) => b.profit = a.profit /\ b.k = a.k
    <2>1. Scanned(a, n, p, V, b)
      BY <1>1, ScanBinDoes
    <2> HIDE DEF b
    <2> QED BY <2>1 DEF Scanned
  <1> HIDE DEF b
  <1>3. running = Cdf(p)[n]
    <2>1. Cdf(p)[n] = p[n] + (IF n = 0 THEN 0 ELSE Cdf(p)[n - 1]) /\ p[n] \in Nat
      BY CdfUnfolds
    <2>2. CASE n = 0
      BY <2>1, <2>2 DEF ScanOf
    <2>3. CASE n # 0
      <3>1. a.running = Cdf(p)[n - 1] /\ a.running \in Nat
        BY <1>1, <2>3 DEF ScanOf, ScanStates
      <3> QED BY <2>1, <2>3, <3>1
    <2> QED BY <2>2, <2>3
  <1> HIDE DEF running
  <1>4. /\ P \in [0 .. m -> Nat]
        /\ \A k \in 0 .. m : P[k] = MaskedProfit(p, V, Price(k))
    BY ProfitsType
  <1> HIDE DEF P
  <1>5. profit = P[n] /\ P[n] \in Nat
    <2>1. CdfAt(p, Price(n)) = running
      BY <1>3, BinShare
    <2> QED BY <1>4, <2>1 DEF MaskedProfit
  <1> HIDE DEF profit
  <1>6. CASE n = 0
    <2>1. b.profit = profit /\ b.k = 0
      BY <1>2, <1>6 DEF ScanOf
    <2>2. Best(0 .. 0, P, 0)
      BY DEF Best
    <2> QED BY <1>2, <1>3, <1>5, <1>6, <2>1, <2>2 DEF ScanOf, P, b
  <1>7. CASE n > 0
    <2>1. Best(0 .. n - 1, P, a.k) /\ a.profit = P[a.k]
      BY <1>7 DEF ScanOf, P
    <2>2. a.k \in 0 .. n - 1 /\ a.k # -1 /\ P[a.k] \in Nat
      BY <1>4, <2>1 DEF Best
    <2>3. \A d \in 0 .. n : P[d] \in Nat /\ (d \in 0 .. n - 1 \/ d = n)
      BY <1>4
    <2>4. CASE profit > a.profit
      <3>1. b.profit = profit /\ b.k = n
        BY <1>2, <2>4
      <3>2. ASSUME NEW d \in 0 .. n PROVE P[d] < P[n] \/ (P[d] = P[n] /\ n <= d)
        <4>1. P[n] > P[a.k]
          BY <1>5, <2>1, <2>4
        <4>2. CASE d = n
          BY <4>2
        <4>3. CASE d \in 0 .. n - 1
          <5>1. P[d] <= P[a.k] /\ P[d] \in Nat
            BY <2>1, <2>2, <2>3, <4>3, SMTT(60) DEF Best
          <5> QED BY <1>5, <2>2, <4>1, <5>1
        <4> QED BY <2>3, <4>2, <4>3
      <3>3. Best(0 .. n, P, n)
        BY <3>2 DEF Best
      <3> QED BY <1>2, <1>3, <1>5, <3>1, <3>3 DEF ScanOf, P, b
    <2>5. CASE ~(profit > a.profit)
      <3>1. b.profit = a.profit /\ b.k = a.k
        BY <1>2, <2>2, <2>5
      <3>2. ASSUME NEW d \in 0 .. n PROVE P[d] < P[a.k] \/ (P[d] = P[a.k] /\ a.k <= d)
        <4>1. P[n] <= P[a.k]
          BY <1>5, <2>1, <2>2, <2>5
        <4>2. CASE d = n
          BY <1>5, <2>2, <4>1, <4>2
        <4>3. CASE d \in 0 .. n - 1
          BY <2>1, <4>3 DEF Best
        <4> QED BY <2>3, <4>2, <4>3
      <3>3. Best(0 .. n, P, a.k)
        BY <2>2, <3>2 DEF Best
      <3> QED BY <1>2, <1>3, <2>1, <3>1, <3>3 DEF ScanOf, P, b
    <2> QED BY <2>4, <2>5
  <1> QED BY <1>6, <1>7

\* The pass ends at the first bin of highest profit.
LEMMA ScanIsBest ==
    ASSUME NEW m \in Nat, NEW p \in [0 .. m -> Nat], NEW V \in Nat
    PROVE  ScanOf(m + 1, p, V, Scan(p, V))
  <1>1. PICK f : /\ Scans(f, p, V) /\ Scan(p, V) = f[1 .. m + 1]
                 /\ DOMAIN ScanOrder(p) = 1 .. m + 1
                 /\ \A i \in 1 .. m + 1 : ScanOrder(p)[i] = i - 1
    BY ScanUnfolds
  <1> DEFINE T == {n \in Nat : n <= m + 1 => ScanOf(n, p, V, f[1 .. n])}
  <1>2. 0 \in T
    <2>1. 1 .. 0 = {} /\ {} \in SUBSET DOMAIN ScanOrder(p)
      OBVIOUS
    <2>2. f[{}] = NoScan
      BY <1>1, <2>1 DEF Scans
    <2>3. ScanOf(0, p, V, NoScan)
      BY DEF ScanOf, NoScan, ScanStates
    <2> QED BY <2>1, <2>2, <2>3
  <1>3. ASSUME NEW n \in Nat, n \in T PROVE n + 1 \in T
    <2> SUFFICES ASSUME n + 1 <= m + 1 PROVE ScanOf(n + 1, p, V, f[1 .. n + 1])
      OBVIOUS
    <2> DEFINE s == 1 .. n + 1
    <2>1. s \in SUBSET (1 .. m + 1) /\ s # {} /\ n \in 0 .. m /\ n + 1 \in 1 .. m + 1
      BY SMTT(60)
    <2>2. Max(s) = n + 1
      <3>1. Max(s) \in s /\ \A i \in s : i <= Max(s)
        <4>1. m + 1 \in Nat
          OBVIOUS
        <4> QED BY <2>1, <4>1, Latest
      <3> QED BY <3>1
    <2>3. s \ {n + 1} = 1 .. n
      OBVIOUS
    <2> HIDE DEF s
    <2>4. f[s] = ScanBin(f[s \ {Max(s)}], ScanOrder(p)[Max(s)], p, V)
      BY <1>1, <2>1 DEF Scans
    <2>5. ScanOrder(p)[n + 1] = n
      BY <1>1, <2>1
    <2>6. f[s] = ScanBin(f[1 .. n], n, p, V)
      BY <2>2, <2>3, <2>4, <2>5
    <2>7. ScanOf(n, p, V, f[1 .. n])
      BY <1>3, <2>1
    <2> QED BY <2>1, <2>6, <2>7, ScanBinKeeps DEF s
  <1> HIDE DEF T
  <1>4. m + 1 \in T
    BY <1>2, <1>3, Induction
  <1> QED BY <1>1, <1>4 DEF T

\* optimize_bid: the grid's bid times the multiplier, clamped.
LEMMA OptimizeBidIs ==
    ASSUME NEW m \in Nat, NEW p \in [0 .. m -> Nat], NEW V \in Nat, NEW mult
    PROVE  OptimizeBid(p, V, mult) = Clamp(p, Times(GridOptimizeBins(p, V), mult))
  <1> DEFINE a == Scan(p, V)
  <1>1. ScanOf(m + 1, p, V, a)
    BY ScanIsBest
  <1>2. OptimizeBid(p, V, mult) = IF a.profit < 0 THEN 0 ELSE Clamp(p, Times(Price(a.k), mult))
    BY DEF OptimizeBid
  <1> HIDE DEF a
  <1>3. Best(0 .. m, Profits(p, V), a.k) /\ a.profit = Profits(p, V)[a.k]
    <2>1. m + 1 > 0 /\ (m + 1) - 1 = m
      OBVIOUS
    <2> QED BY <1>1, <2>1 DEF ScanOf
  <1>4. PICK k \in 0 .. m : GridOptimizeBins(p, V) = Price(k) /\ Best(0 .. m, Profits(p, V), k)
    BY GridBinIs
  <1>5. Profits(p, V) \in [0 .. m -> Nat]
    BY ProfitsType
  <1>6. a.k = k
    <2>1. \A c \in 0 .. m : Profits(p, V)[c] \in Int
      BY <1>5
    <2> QED BY <1>3, <1>4, <2>1, OneBest
  <1>7. ~(a.profit < 0)
    BY <1>3, <1>5, <1>6
  <1> QED BY <1>2, <1>4, <1>6, <1>7

\* A multiplier of one changes nothing: the bid is on the grid.
LEMMA TimesOne ==
    ASSUME NEW m \in Nat, NEW p \in [0 .. m -> Nat], NEW k \in 0 .. m
    PROVE  Clamp(p, Times(Price(k), <<1, 1>>)) = Price(k)
  <1>1. Price(k) \in Nat /\ Price(k) <= Price(m) /\ Price(m) \in Nat
    BY DEF Price
  <1>2. Times(Price(k), <<1, 1>>) = Price(k)
    <2>1. Times(Price(k), <<1, 1>>) = (Price(k) * 1) \div 1
      BY DEF Times
    <2>2. \A x \in Nat : (x * 1) \div 1 = x
      OBVIOUS
    <2> QED BY <1>1, <2>1, <2>2
  <1>3. Max(DOMAIN p) = m
    <2>1. DOMAIN p = 0 .. m
      OBVIOUS
    <2> QED BY <2>1, BinsShape
  <1> QED BY <1>1, <1>2, <1>3 DEF Clamp

\* A bid of at most V regrets at most what was there to be made.
LEMMA RegretBounds ==
    ASSUME NEW V \in Nat, NEW b \in 0 .. V, NEW pay \in Nat
    PROVE  Regret(b, pay, V) \in 0 .. PerfectProfit(pay, V)
  BY DEF Regret, PerfectProfit, Realized

\* What BidsAreBest says of one distribution.
BidBest(p, V, pay) ==
    LET b == GridOptimizeBins(p, V)
        Expected(c) == (V - c) * CdfAt(p, c)
    IN  /\ b <= V
        /\ \A c \in 0 .. V : Expected(c) <= Expected(b)
        /\ SlicedBid(ToBins(p), V) = GridOptimizeBins(ToBins(p), V)
        /\ OptimizeBid(p, V, <<1, 1>>) = b
        /\ \A m \in Multipliers : OptimizeBid(p, V, m) = StrategyBid(p, V, m)
        /\ Regret(b, pay, V) \in 0 .. PerfectProfit(pay, V)

LEMMA BidIsBestEverywhere ==
    ASSUME NEW p, IsDistribution(p), NEW V \in Nat, NEW pay \in Nat
    PROVE  BidBest(p, V, pay)
  <1> DEFINE b == GridOptimizeBins(p, V)
             q == ToBins(p)
  <1>1. PICK m \in Nat : p \in [0 .. m -> Nat]
    BY DistributionShape
  <1>2. q \in [Bins -> Nat]
    BY DistributionShape
  <1> HIDE DEF q
  <1>3. b \in 0 .. V /\ \A c \in 0 .. V : (V - c) * CdfAt(p, c) <= (V - b) * CdfAt(p, b)
    BY <1>1, BidIsBest
  <1>4. SlicedBid(q, V) = GridOptimizeBins(q, V)
    BY <1>2, SlicedIsGrid
  <1>5. \A mult : OptimizeBid(p, V, mult) = Clamp(p, Times(b, mult))
    BY <1>1, OptimizeBidIs
  <1>6. BestBids(p, V) = b
    BY <1>1, BestBidsIs
  <1>7. PICK k \in 0 .. m : b = Price(k)
    BY <1>1, GridBinIs
  <1> HIDE DEF b
  <1>8. OptimizeBid(p, V, <<1, 1>>) = b
    BY <1>1, <1>5, <1>7, TimesOne
  <1>9. \A mult : OptimizeBid(p, V, mult) = StrategyBid(p, V, mult)
    BY <1>5, <1>6 DEF StrategyBid
  <1>10. Regret(b, pay, V) \in 0 .. PerfectProfit(pay, V)
    BY <1>3, RegretBounds
  <1>11. b <= V
    BY <1>3
  <1> QED BY <1>3, <1>4, <1>8, <1>9, <1>10, <1>11, Zenon DEF BidBest, b, q

\* A search that was reported used tables.
UsesTables == report.kind = "search" => \A i \in DOMAIN report.used : IsTable(report.used[i])

LEMMA UsesTablesStep == SearchInv /\ MixInv /\ UsesTables /\ [Next]_vars => UsesTables'
  <1> SUFFICES ASSUME SearchInv, MixInv, UsesTables, [Next]_vars PROVE UsesTables'
    OBVIOUS
  <1>1. CASE UNCHANGED report
    BY <1>1 DEF UsesTables
  <1>2. CASE \/ Evaluate \/ EvaluateCheckpoint \/ EvaluatePreds \/ Calibrate \/ Backtest
             \/ EvaluateEnsemble \/ BudgetEval \/ BudgetEnsemble \/ BudgetNaive
    <2>1. report'.kind # "search"
      BY <1>2, OneStepScripts DEF SearchInv, Typed
    <2> QED BY <2>1 DEF UsesTables
  <1>3. CASE ReadReport
    <2>1. report'.kind = "none"
      BY <1>3 DEF ReadReport, NoReport
    <2> QED BY <2>1 DEF UsesTables
  <1>4. CASE \/ StartSearch \/ LoadMember \/ LoadMember3 \/ ReuseCache \/ BeginCache \/ EndCache
             \/ KillSearch \/ UNCHANGED vars
    <2>1. UNCHANGED report
      BY <1>4 DEF StartSearch, LoadMember, LoadMember3, ReuseCache, BeginCache, EndCache,
                  KillSearch, SearchStep, vars
    <2> QED BY <1>1, <2>1
  <1>5. CASE \/ RandomSearch \/ RandomSearch2 \/ RandomSearch3
             \/ GreedySearch \/ GreedySearch2 \/ GreedySearch3
    <2>1. PICK k \in Scripts : Trial(k) \/ Greedy(k)
      BY <1>5 DEF RandomSearch, RandomSearch2, RandomSearch3, GreedySearch, GreedySearch2,
                  GreedySearch3, Scripts
    <2>2. PICK s : SearchStep(s)
      BY <2>1, Zenon DEF Trial, Greedy
    <2>3. UNCHANGED report
      BY <2>2 DEF SearchStep
    <2> QED BY <1>1, <2>3
  <1>6. CASE SaveBest \/ SaveBest2 \/ SaveBest3
    <2>1. PICK k \in Scripts : \E best, against : SaveSearch(k, best, against)
      BY <1>6 DEF SaveBest, SaveBest2, SaveBest3, Scripts
    <2>0. PICK best, against : SaveSearch(k, best, against)
      BY <2>1
    <2>2. search # Idle /\ Len(search.read) = Len(search.members) /\ report'.used = Used
      BY <2>0 DEF SaveSearch, Loaded, Running, Idle
    <2> QED BY <2>2, UsedTables DEF UsesTables
  <1> QED BY <1>2, <1>3, <1>4, <1>5, <1>6 DEF Next

\* For any grid, predictions and values: every prediction that a script wrote
\* and every table that a search used, a half-filled cache among them, gets a
\* bid of at most V that no other bid beats, the same one from bid_optimizer.py,
\* bid_optimizer.cpp, the searches' slice at ceil(V) and, with any multiplier,
\* backtest.py; and its regret is between 0 and the profit to be made.  Any
\* mixture, over evenly spaced candidates of any number and distance, gets the
\* best of them, and one above V only if all of them are.
THEOREM BidsAreTheBest == Spec => []BidsAreBest
  <1> DEFINE I == SearchInv /\ MixInv /\ UsesTables
  <1>1. Init => I
    <2> SUFFICES ASSUME Init PROVE MixInv /\ UsesTables
      BY SearchStarts
    <2>1. search = Idle /\ report.kind = "none" /\ \A d \in Dirs : cache[d] = None
      BY DEF Init, NoReport, Dirs
    <2> QED BY <2>1 DEF MixInv, Cached, BestSoFar, SearchReportsBest, UsesTables
  <1>2. I /\ [Next]_vars => I'
    BY SearchStepKeeps, MixStepKeeps, UsesTablesStep
  <1>3. I => BidsAreBest
    <2> SUFFICES ASSUME I PROVE BidsAreBest
      OBVIOUS
    <2>1. ASSUME NEW t \in Known, NEW i \in DOMAIN Rows, NEW V \in {FixedV, Rows[i].bid}
          PROVE  BidBest(t[i], V, Pays[i])
      <3>1. IsTable(t)
        <4>1. CASE t \in Range(preds) \ {None}
          <5>1. PICK f \in Files : t = preds[f]
            BY <4>1 DEF SearchInv, Typed, Range
          <5>2. preds[f] \in Tables
            BY <4>1, <5>1 DEF SearchInv, Typed
          <5> QED BY <5>1, <5>2, ExperimentsAssumption DEF IsTable
        <4>2. CASE report.kind = "search" /\ t \in Range(report.used)
          BY <4>2 DEF UsesTables, Range
        <4> QED BY <4>1, <4>2 DEF Known
      <3>2. V \in Nat /\ Pays[i] \in Nat
        BY RowTypes
      <3> QED BY <3>1, <3>2, BidIsBestEverywhere DEF IsTable
    <2>2. ASSUME NEW x \in Mixtures, NEW i \in DOMAIN Rows, NEW V \in {FixedV, Rows[i].bid}
          PROVE  MdnBest(x[i], V)
      <3>1. V \in Nat /\ IsMixture(x[i])
        BY RowTypes, ExperimentsAssumption
      <3> QED BY <3>1, MdnIsBest
    <2> QED BY <2>1, <2>2, Zenon DEF BidsAreBest, BidBest, MdnBest
  <1> HIDE DEF I
  <1> QED BY <1>1, <1>2, <1>3, PTL DEF Spec
=============================================================================
