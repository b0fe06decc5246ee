--------------------------- MODULE PipelineProofs ---------------------------
(***************************************************************************)
(* Theorems about BidPipeline, for any calls, request ids, cache, breaker  *)
(* and queue.                                                              *)
(***************************************************************************)
EXTENDS BidPipeline, SequenceTheorems, FiniteSetTheorems, TLAPS

Status == {"ok", "cache", "fallback_open", "fallback_error", "resource_exhausted"}
Reply == [status : Status, decision : Int \cup Decisions]
Place == {"new", "missed", "admitted", "queued", "running", "scored", "stored", "done"}
Entry == [decision : Decisions, left : 0 .. Ttl]

Typed ==
    /\ map \in [Ids -> Entry \cup {NoEntry}]
    /\ job \in [Jobs -> {"new", "refused", "pending", "ok", "error"}]
    /\ pc \in [Jobs -> Place]
    /\ ver \in [Jobs -> 0 .. MaxVersion]
    /\ replies \in [Jobs -> Seq(Reply)]
    /\ version \in Version
    /\ putLeft \in [Jobs -> 0 .. Ttl]

\* What the batcher knows of a call, by where the call is.
Phase ==
    \A c \in Jobs :
        /\ pc[c] \in {"new", "missed", "admitted"} => job[c] = "new"
        /\ pc[c] \in {"queued", "running"} => job[c] = "pending"
        /\ pc[c] \in {"scored", "stored"} => job[c] = "ok"
        /\ pc[c] = "running" \/ job[c] = "ok" => ver[c] \in Version

\* While the cache holds every id, a decision put is there for its TTL.
StillThere ==
    Cardinality(Ids) <= MaxSize =>
        \A c \in Jobs :
            job[c] = "ok" /\ pc[c] \in {"stored", "done"} /\ putLeft[c] > 0
            => map[IdOf[c]] # NoEntry /\ map[IdOf[c]].left >= putLeft[c]

\* Call b, for id, was answered by the model with d.
Computed(b, id, d) == IdOf[b] = id /\ job[b] = "ok" /\ ver[b] = d

\* The two halves of CacheHoldsModelBids.
Provenance ==
    \A id \in Ids : map[id] # NoEntry => \E b \in Jobs : Computed(b, id, map[id].decision)

RightReplies(c) ==
    \A i \in 1 .. Len(replies[c]) :
        replies[c][i].status = "cache" =>
            \E b \in Jobs \ {c} : Computed(b, IdOf[c], replies[c][i].decision)

Repeated == \A c \in Jobs : RightReplies(c)

PipelineInv == Typed /\ Phase /\ DoneExactlyOnce /\ Provenance /\ Repeated /\ StillThere

-----------------------------------------------------------------------------
(* What the steps of the components do *)

\* put() leaves the new entry, keeps or evicts the others, and evicts none
\* while there is room for every id.
LEMMA PutFacts ==
    ASSUME Typed, NEW id \in Ids, NEW d \in Decisions, Put(id, d)
    PROVE  /\ map' \in [Ids -> Entry \cup {NoEntry}]
           /\ map'[id] = NewEntry(d) /\ NewEntry(d) # NoEntry
           /\ \A i \in Ids \ {id} : map'[i] = map[i] \/ map'[i] = NoEntry
           /\ Cardinality(Ids) <= MaxSize => \A i \in Ids \ {id} : map'[i] = map[i]
  <1>1. NewEntry(d) \in Entry /\ NewEntry(d) # NoEntry
    <2>1. NewEntry(d) \in Entry
      BY CacheAssumption DEF NewEntry, Entry
    <2> QED BY <2>1, CacheAssumption DEF Entry
  <1>2. CASE map[id] # NoEntry
    <2>1. map' = [map EXCEPT ![id] = NewEntry(d)]
      BY <1>2 DEF Put, Refreshed
    <2> QED BY <1>1, <2>1 DEF Typed
  <1>3. CASE map[id] = NoEntry
    <2>1. \A i \in Ids : map'[i] = IF i = id THEN NewEntry(d)
                                   ELSE IF i \in Victims THEN NoEntry ELSE map[i]
      BY <1>3 DEF Put
    <2>2. map' \in [Ids -> Entry \cup {NoEntry}]
      BY <1>1, <1>3 DEF Put, Typed
    <2>3. ASSUME Cardinality(Ids) <= MaxSize PROVE Victims = {}
      <3>1. Resident \in SUBSET (Ids \ {id})
        BY <1>3 DEF Resident
      <3>2. IsFiniteSet(Ids \ {id}) /\ Cardinality(Ids \ {id}) = Cardinality(Ids) - 1
        BY PipelineAssumption, FS_RemoveElement
      <3>3. IsFiniteSet(Resident) /\ Cardinality(Resident) <= Cardinality(Ids \ {id})
        BY <3>1, <3>2, FS_Subset
      <3>4. Cardinality(Resident) \in Nat /\ Cardinality(Ids) \in Nat
        BY <3>3, PipelineAssumption, FS_CardinalityType
      <3>5. Cardinality(Resident) - MaxSize + 1 <= 0
        BY <2>3, <3>2, <3>3, <3>4, CacheAssumption
      <3>6. EvictCount = 0
        BY <3>5 DEF EvictCount
      <3> QED BY <3>6 DEF Victims
    <2> QED BY <1>1, <2>1, <2>2, <2>3
  <1> QED BY <1>2, <1>3

\* The clock keeps every entry and its decision, one tick older.
LEMMA AgeFacts ==
    ASSUME NEW e \in Entry \cup {NoEntry}
    PROVE  /\ Age(e) \in Entry \cup {NoEntry}
           /\ Age(e) = NoEntry <=> e = NoEntry
           /\ e # NoEntry => /\ Age(e).decision = e.decision
                             /\ Age(e).left = IF e.left = 0 THEN 0 ELSE e.left - 1
                             /\ e.left \in 0 .. Ttl
  <1>1. CASE e = NoEntry
    BY <1>1 DEF Age
  <1>2. CASE e # NoEntry
    <2>1. e \in Entry /\ e.left \in 0 .. Ttl
      BY <1>2 DEF Entry
    <2>2. CASE e.left = 0
      BY <1>2, <2>1, <2>2 DEF Age
    <2>3. CASE e.left # 0
      <3>1. Age(e) = [e EXCEPT !.left = @ - 1]
        BY <1>2, <2>3 DEF Age
      <3>2. /\ Age(e) \in Entry /\ Age(e).decision = e.decision
            /\ Age(e).left = e.left - 1
        BY <2>1, <2>3, <3>1, CacheAssumption DEF Entry
      <3> QED BY <1>2, <2>1, <2>3, <3>2, CacheAssumption DEF Entry
    <2> QED BY <2>2, <2>3
  <1> QED BY <1>1, <1>2

\* A call goes from one place to the next, and no other call moves.
LEMMA Moved ==
    ASSUME Typed, NEW c \in Jobs, NEW from, NEW to \in Place, Goto(c, from, to)
    PROVE  /\ pc' \in [Jobs -> Place] /\ pc[c] = from
           /\ \A x \in Jobs : pc'[x] = IF x = c THEN to ELSE pc[x]
  BY DEF Goto, Typed

\* The first done() of a call that is not over is its only one.
LEMMA RepliedOnce ==
    ASSUME Typed, DoneExactlyOnce, NEW c \in Jobs, pc[c] # "done",
           NEW s \in Status, NEW d \in Int \cup Decisions, Done(c, s, d)
    PROVE  /\ replies' \in [Jobs -> Seq(Reply)]
           /\ Len(replies'[c]) = 1
           /\ replies'[c][1] = [status |-> s, decision |-> d]
           /\ \A x \in Jobs \ {c} : replies'[x] = replies[x]
  <1> DEFINE r == [status |-> s, decision |-> d]
  <1>1. r \in Reply
    BY DEF Reply
  <1>2. replies[c] \in Seq(Reply) /\ Len(replies[c]) = 0
    BY DEF Typed, DoneExactlyOnce
  <1> HIDE DEF r
  <1>3. /\ Append(replies[c], r) \in Seq(Reply)
        /\ Len(Append(replies[c], r)) = 1
        /\ Append(replies[c], r)[1] = r
    BY <1>1, <1>2, AppendProperties
  <1>4. replies' = [replies EXCEPT ![c] = Append(replies[c], r)]
    BY DEF Done, r
  <1> QED BY <1>3, <1>4 DEF Typed, r

-----------------------------------------------------------------------------
(* What a step must leave for the invariant to survive it *)

\* What the model has answered is not taken back.
OkKept == \A b \in Jobs : job[b] = "ok" => job'[b] = "ok" /\ ver'[b] = ver[b]

\* Entries are dropped at most.
LEMMA ProvenanceKept ==
    ASSUME Provenance, OkKept,
           \A id \in Ids : map'[id] # NoEntry =>
               map[id] # NoEntry /\ map'[id].decision = map[id].decision
    PROVE  Provenance'
  BY DEF Provenance, OkKept, Computed

\* The replies already made stay right.
LEMMA RepeatedKept ==
    ASSUME Repeated, OkKept, NEW c \in Jobs, replies'[c] = replies[c]
    PROVE  RightReplies(c)'
  BY DEF Repeated, RightReplies, OkKept, Computed

\* The cache is left alone and nothing new is put.
LEMMA StillThereKept ==
    ASSUME StillThere, map' = map, putLeft' = putLeft,
           \A x \in Jobs : job'[x] = "ok" /\ pc'[x] \in {"stored", "done"}
                          => job[x] = "ok" /\ pc[x] \in {"stored", "done"}
    PROVE  StillThere'
  BY DEF StillThere

-----------------------------------------------------------------------------
(* One lemma for each kind of step *)

\* Every call starts as new, the cache empty.
LEMMA PipelineStarts == Init => PipelineInv
  <1> SUFFICES ASSUME Init PROVE PipelineInv
    OBVIOUS
  <1> USE DEF Init, CacheInit, ServiceInit
  <1>1. Typed
    BY EmptySeq, PipelineAssumption, CacheAssumption DEF Typed, Place, Version
  <1>2. \A c \in Jobs : replies[c] = << >> /\ Len(<< >>) = 0 /\ 1 .. 0 = {}
    OBVIOUS
  <1>3. DoneExactlyOnce /\ Repeated
    BY <1>2 DEF DoneExactlyOnce, Repeated, RightReplies
  <1>4. Phase /\ Provenance /\ StillThere
    BY PipelineAssumption DEF Phase, Provenance, StillThere
  <1> QED BY <1>1, <1>3, <1>4 DEF PipelineInv

\* A call that moves on without a reply and without the cache.
LEMMA QuietKeeps ==
    ASSUME PipelineInv, NEW c \in Jobs,
           Admit(c) \/ SubmitAccepted(c) \/ GrabSession(c) \/ Score(c)
    PROVE  PipelineInv'
  <1> USE DEF PipelineInv
  <1>1. PICK from \in Place \ {"stored", "done"}, to \in Place \ {"stored", "done"} :
            Goto(c, from, to)
    BY DEF Admit, SubmitAccepted, GrabSession, Score, Place
  <1>2. /\ pc' \in [Jobs -> Place] /\ pc[c] = from
        /\ \A x \in Jobs : pc'[x] = IF x = c THEN to ELSE pc[x]
    BY <1>1, Moved
  <1>3. map' = map /\ replies' = replies /\ putLeft' = putLeft /\ version' = version
    BY DEF Admit, SubmitAccepted, GrabSession, Score, cacheVars, observed
  <1>4. /\ job' \in [Jobs -> {"new", "refused", "pending", "ok", "error"}]
        /\ ver' \in [Jobs -> 0 .. MaxVersion]
        /\ \A x \in Jobs \ {c} : job'[x] = job[x] /\ ver'[x] = ver[x]
    <2>1. CASE Admit(c)
      BY <2>1 DEF Typed, Admit, serviceVars
    <2>2. CASE SubmitAccepted(c)
      BY <2>2 DEF Typed, SubmitAccepted, Accept
    <2>3. CASE GrabSession(c)
      <3>1. version \in 0 .. MaxVersion
        BY DEF Typed, Version
      <3> QED BY <2>3, <3>1 DEF Typed, GrabSession, serviceVars
    <2>4. CASE Score(c)
      BY <2>4 DEF Typed, Score, Answer
    <2> QED BY <2>1, <2>2, <2>3, <2>4
  <1>5. job[c] # "ok"
    BY DEF Phase, Admit, SubmitAccepted, GrabSession, Score, Goto
  <1>6. OkKept
    BY <1>4, <1>5 DEF OkKept
  <1>7. Typed'
    BY <1>2, <1>3, <1>4 DEF Typed
  <1>8. DoneExactlyOnce'
    BY <1>1, <1>2, <1>3 DEF DoneExactlyOnce
  <1>9. Provenance' /\ Repeated'
    BY <1>3, <1>6, ProvenanceKept, RepeatedKept DEF Repeated
  <1>10. StillThere'
    BY <1>1, <1>2, <1>3, <1>4, StillThereKept
  <1>11. Phase'
    <2>1. ASSUME NEW x \in Jobs \ {c}
          PROVE  pc'[x] = pc[x] /\ job'[x] = job[x] /\ ver'[x] = ver[x]
      BY <1>2, <1>4
    <2>2. CASE Admit(c)
      BY <2>1, <2>2, <1>2 DEF Phase, Admit, Goto, serviceVars, Typed
    <2>3. CASE SubmitAccepted(c)
      BY <2>1, <2>3, <1>2 DEF Phase, SubmitAccepted, Accept, Goto, Typed
    <2>4. CASE GrabSession(c)
      BY <2>1, <2>4, <1>2 DEF Phase, GrabSession, Goto, serviceVars, Typed
    <2>5. CASE Score(c)
      BY <2>1, <2>5, <1>2 DEF Phase, Score, Answer, Goto, Typed
    <2> QED BY <2>2, <2>3, <2>4, <2>5
  <1> QED BY <1>7, <1>8, <1>9, <1>10, <1>11

\* A call that is answered with what is not from the cache.
LEMMA AnswerKeeps ==
    ASSUME PipelineInv, NEW c \in Jobs,
           FallbackOpen(c) \/ SubmitRefused(c) \/ FallbackError(c) \/ ReplyOk(c)
    PROVE  PipelineInv'
  <1> USE DEF PipelineInv
  <1>1. PICK from \in {"missed", "admitted", "running", "stored"} : Goto(c, from, "done")
    BY DEF FallbackOpen, SubmitRefused, FallbackError, ReplyOk
  <1>2. /\ pc' \in [Jobs -> Place] /\ pc[c] = from
        /\ \A x \in Jobs : pc'[x] = IF x = c THEN "done" ELSE pc[x]
    BY <1>1, Moved DEF Place
  <1>3. map' = map /\ ver' = ver /\ putLeft' = putLeft /\ version' = version
    BY DEF FallbackOpen, SubmitRefused, FallbackError, ReplyOk, cacheVars, observed
  <1>4. /\ job' \in [Jobs -> {"new", "refused", "pending", "ok", "error"}]
        /\ \A x \in Jobs \ {c} : job'[x] = job[x]
        /\ job'[c] = "ok" <=> job[c] = "ok"
        /\ job[c] = "ok" => from = "stored"
    BY <1>1, <1>2 DEF Typed, Phase, FallbackOpen, SubmitRefused, FallbackError, ReplyOk,
                      Refuse, Answer, serviceVars
  <1>5. PICK s \in Status \ {"cache"}, d \in Int : Done(c, s, d)
    <2>1. FallbackBid \in Int /\ EmptyBid \in Int /\ ver[c] \in Int
      BY PipelineAssumption DEF FallbackBid, EmptyBid, Typed
    <2> QED BY <2>1 DEF Status, FallbackOpen, SubmitRefused, FallbackError, ReplyOk
  <1>6. /\ replies' \in [Jobs -> Seq(Reply)]
        /\ Len(replies'[c]) = 1
        /\ replies'[c][1] = [status |-> s, decision |-> d]
        /\ \A x \in Jobs \ {c} : replies'[x] = replies[x]
    BY <1>2, <1>5, RepliedOnce
  <1>7. OkKept
    BY <1>3, <1>4 DEF OkKept
  <1>8. Typed' /\ DoneExactlyOnce'
    BY <1>2, <1>3, <1>4, <1>6 DEF Typed, DoneExactlyOnce
  <1>9. Repeated'
    <2>1. \A x \in Jobs \ {c} : RightReplies(x)'
      BY <1>6, <1>7, RepeatedKept
    <2>2. RightReplies(c)'
      BY <1>5, <1>6 DEF RightReplies
    <2> QED BY <2>1, <2>2 DEF Repeated
  <1>10. Provenance' /\ StillThere'
    BY <1>2, <1>3, <1>4, <1>7, ProvenanceKept, StillThereKept
  <1>11. Phase'
    BY <1>2, <1>3, <1>4 DEF Phase
  <1> QED BY <1>8, <1>9, <1>10, <1>11

\* A call that is answered from the cache: by what another call computed.
LEMMA ReuseKeeps ==
    ASSUME PipelineInv, NEW c \in Jobs, ReuseDecision(c)
    PROVE  PipelineInv'
  <1> USE DEF PipelineInv
  <1> DEFINE d == map[IdOf[c]].decision
  <1>1. /\ pc' \in [Jobs -> Place] /\ pc[c] = "new"
        /\ \A x \in Jobs : pc'[x] = IF x = c THEN "done" ELSE pc[x]
    BY Moved DEF ReuseDecision, Place
  <1>2. map' = map /\ ver' = ver /\ putLeft' = putLeft /\ version' = version /\ job' = job
    BY DEF ReuseDecision, GetHit, observed, serviceVars
  <1>3. IdOf[c] \in Ids /\ map[IdOf[c]] # NoEntry
    BY PipelineAssumption DEF ReuseDecision, GetHit, Fresh
  <1>4. d \in Decisions
    BY <1>3 DEF Typed, Entry
  <1>5. Done(c, "cache", d) /\ "cache" \in Status
    BY DEF ReuseDecision, Status
  <1>6. PICK b \in Jobs : Computed(b, IdOf[c], d)
    BY <1>3 DEF Provenance
  <1>7. b # c
    BY <1>1, <1>6 DEF Phase, Computed
  <1> HIDE DEF d
  <1>8. /\ replies' \in [Jobs -> Seq(Reply)]
        /\ Len(replies'[c]) = 1
        /\ replies'[c][1] = [status |-> "cache", decision |-> d]
        /\ \A x \in Jobs \ {c} : replies'[x] = replies[x]
    BY <1>1, <1>4, <1>5, RepliedOnce
  <1>9. OkKept
    BY <1>2 DEF OkKept
  <1>10. Typed' /\ DoneExactlyOnce'
    BY <1>1, <1>2, <1>8 DEF Typed, DoneExactlyOnce
  <1>11. Repeated'
    <2>1. \A x \in Jobs \ {c} : RightReplies(x)'
      BY <1>8, <1>9, RepeatedKept
    <2>2. IdOf[b] = IdOf[c] /\ job'[b] = "ok" /\ ver'[b] = d
      BY <1>2, <1>6 DEF Computed
    <2>3. \A i \in 1 .. Len(replies'[c]) : replies'[c][i].decision = d
      BY <1>8
    <2>4. RightReplies(c)'
      BY <1>7, <2>2, <2>3 DEF RightReplies, Computed
    <2> QED BY <2>1, <2>4 DEF Repeated
  <1>12. Provenance' /\ StillThere'
    BY <1>1, <1>2, <1>9, ProvenanceKept, StillThereKept DEF Phase
  <1>13. Phase'
    BY <1>1, <1>2 DEF Phase
  <1> QED BY <1>10, <1>11, <1>12, <1>13

\* A lookup that misses drops an entry only when it is stale.
LEMMA MissKeeps ==
    ASSUME PipelineInv, NEW c \in Jobs, LookupMiss(c)
    PROVE  PipelineInv'
  <1> USE DEF PipelineInv
  <1>1. /\ pc' \in [Jobs -> Place] /\ pc[c] = "new"
        /\ \A x \in Jobs : pc'[x] = IF x = c THEN "missed" ELSE pc[x]
    BY Moved DEF LookupMiss, Place
  <1>2. /\ ver' = ver /\ putLeft' = putLeft /\ version' = version
        /\ job' = job /\ replies' = replies
    BY DEF LookupMiss, observed, serviceVars
  <1>3. /\ IdOf[c] \in Ids /\ ~Fresh(IdOf[c])
        /\ map' \in [Ids -> Entry \cup {NoEntry}]
        /\ \A i \in Ids : map'[i] = IF i = IdOf[c] THEN NoEntry ELSE map[i]
    BY PipelineAssumption DEF LookupMiss, GetMiss, Typed
  <1>4. OkKept
    BY <1>2 DEF OkKept
  <1>5. Typed' /\ DoneExactlyOnce' /\ Phase'
    BY <1>1, <1>2, <1>3 DEF Typed, DoneExactlyOnce, Phase
  <1>6. Provenance' /\ Repeated'
    BY <1>2, <1>3, <1>4, ProvenanceKept, RepeatedKept DEF Repeated
  <1>7. StillThere'
    <2> SUFFICES ASSUME Cardinality(Ids) <= MaxSize, NEW x \in Jobs, job'[x] = "ok",
                        pc'[x] \in {"stored", "done"}, putLeft'[x] > 0
                 PROVE  map'[IdOf[x]] # NoEntry /\ map'[IdOf[x]].left >= putLeft'[x]
      BY DEF StillThere
    <2>1. map[IdOf[x]] # NoEntry /\ map[IdOf[x]].left >= putLeft[x] /\ putLeft[x] > 0
      BY <1>1, <1>2 DEF StillThere
    <2>2. map[IdOf[x]].left \in Nat /\ putLeft[x] \in Nat
      BY <2>1, PipelineAssumption, CacheAssumption DEF Typed, Entry
    <2>3. IdOf[x] # IdOf[c]
      BY <1>3, <2>1, <2>2 DEF Fresh
    <2> QED BY <1>2, <1>3, <2>1, <2>3, PipelineAssumption
  <1> QED BY <1>5, <1>6, <1>7

\* cache_.put: the call's own decision is now the entry.
LEMMA StoreKeeps ==
    ASSUME PipelineInv, NEW c \in Jobs, StoreDecision(c)
    PROVE  PipelineInv'
  <1> USE DEF PipelineInv
  <1> DEFINE id == IdOf[c]
  <1>1. /\ pc' \in [Jobs -> Place] /\ pc[c] = "scored"
        /\ \A x \in Jobs : pc'[x] = IF x = c THEN "stored" ELSE pc[x]
    BY Moved DEF StoreDecision, Place
  <1>2. /\ ver' = ver /\ putLeft' = putLeft /\ version' = version
        /\ job' = job /\ replies' = replies
    BY DEF StoreDecision, observed, serviceVars
  <1>3. job[c] = "ok" /\ ver[c] \in Decisions /\ id \in Ids
    BY <1>1, PipelineAssumption DEF Phase, Version
  <1>4. /\ map' \in [Ids -> Entry \cup {NoEntry}]
        /\ map'[id] = NewEntry(ver[c]) /\ NewEntry(ver[c]) # NoEntry
        /\ \A i \in Ids \ {id} : map'[i] = map[i] \/ map'[i] = NoEntry
        /\ Cardinality(Ids) <= MaxSize => \A i \in Ids \ {id} : map'[i] = map[i]
    BY <1>3, PutFacts DEF StoreDecision
  <1>5. map'[id].decision = ver[c] /\ map'[id].left = Ttl /\ map'[id] # NoEntry
    BY <1>4 DEF NewEntry
  <1> HIDE DEF id
  <1>6. OkKept
    BY <1>2 DEF OkKept
  <1>7. Typed' /\ DoneExactlyOnce' /\ Phase'
    BY <1>1, <1>2, <1>3, <1>4 DEF Typed, DoneExactlyOnce, Phase
  <1>8. Repeated'
    BY <1>2, <1>6, RepeatedKept DEF Repeated
  <1>9. Provenance'
    <2>1. Computed(c, id, ver[c])'
      BY <1>2, <1>3 DEF Computed, id
    <2>2. ASSUME NEW i \in Ids \ {id}, map'[i] # NoEntry
          PROVE  \E b \in Jobs : Computed(b, i, map[i].decision)'
      <3>1. map'[i] = map[i]
        BY <1>4, <2>2
      <3> QED BY <1>2, <2>2, <3>1 DEF Provenance, Computed
    <2> QED BY <1>2, <1>5, <2>1, <2>2 DEF Provenance, Computed
  <1>10. StillThere'
    <2> SUFFICES ASSUME Cardinality(Ids) <= MaxSize, NEW x \in Jobs, job'[x] = "ok",
                        pc'[x] \in {"stored", "done"}, putLeft'[x] > 0
                 PROVE  map'[IdOf[x]] # NoEntry /\ map'[IdOf[x]].left >= putLeft'[x]
      BY DEF StillThere
    <2>1. CASE IdOf[x] = id
      <3>1. putLeft[x] <= Ttl
        BY CacheAssumption DEF Typed
      <3> QED BY <1>2, <1>5, <2>1, <3>1, CacheAssumption DEF Typed
    <2>2. CASE IdOf[x] # id
      <3>1. x # c /\ IdOf[x] \in Ids \ {id}
        BY <2>2, PipelineAssumption DEF id
      <3> QED BY <1>1, <1>2, <1>4, <3>1 DEF StillThere
    <2> QED BY <2>1, <2>2
  <1> QED BY <1>7, <1>8, <1>9, <1>10

\* The clock: an entry put ages no faster than the TTL of its call.
LEMMA ClockKeeps ==
    ASSUME PipelineInv, Tick
    PROVE  PipelineInv'
  <1> USE DEF PipelineInv
  <1>1. /\ ver' = ver /\ version' = version /\ pc' = pc
        /\ job' = job /\ replies' = replies
        /\ map' = [i \in Ids |-> Age(map[i])]
        /\ putLeft' = [x \in Jobs |->
              IF job[x] = "ok" /\ pc[x] \in {"stored", "done"} /\ putLeft[x] > 0
              THEN putLeft[x] - 1 ELSE putLeft[x]]
    BY DEF Tick, CacheTick, serviceVars, callVars
  <1>2. \A i \in Ids : map[i] \in Entry \cup {NoEntry} /\ map'[i] = Age(map[i])
    BY <1>1 DEF Typed
  <1>3. \A i \in Ids : map'[i] \in Entry \cup {NoEntry} /\ (map'[i] = NoEntry <=> map[i] = NoEntry)
    BY <1>2, AgeFacts
  <1>4. \A i \in Ids : map[i] # NoEntry =>
           /\ map'[i].decision = map[i].decision
           /\ map'[i].left = IF map[i].left = 0 THEN 0 ELSE map[i].left - 1
           /\ map[i].left \in 0 .. Ttl
    BY <1>2, AgeFacts
  <1>5. OkKept
    BY <1>1 DEF OkKept
  <1>6. Typed'
    <2>1. map' \in [Ids -> Entry \cup {NoEntry}]
      BY <1>1, <1>3
    <2>2. putLeft' \in [Jobs -> 0 .. Ttl]
      BY <1>1, CacheAssumption DEF Typed
    <2> QED BY <1>1, <2>1, <2>2 DEF Typed
  <1>7. DoneExactlyOnce' /\ Phase'
    BY <1>1 DEF DoneExactlyOnce, Phase
  <1>8. Provenance' /\ Repeated'
    BY <1>1, <1>3, <1>4, <1>5, ProvenanceKept, RepeatedKept DEF Repeated
  <1>9. StillThere'
    <2> SUFFICES ASSUME Cardinality(Ids) <= MaxSize, NEW x \in Jobs, job'[x] = "ok",
                        pc'[x] \in {"stored", "done"}, putLeft'[x] > 0
                 PROVE  map'[IdOf[x]] # NoEntry /\ map'[IdOf[x]].left >= putLeft'[x]
      BY DEF StillThere
    <2>1. putLeft[x] \in 0 .. Ttl /\ putLeft[x] > 0 /\ putLeft'[x] = putLeft[x] - 1
      BY <1>1, CacheAssumption DEF Typed
    <2>2. map[IdOf[x]] # NoEntry /\ map[IdOf[x]].left >= putLeft[x] /\ IdOf[x] \in Ids
      BY <1>1, <2>1, PipelineAssumption DEF StillThere
    <2> QED BY <1>3, <1>4, <2>1, <2>2, CacheAssumption
  <1> QED BY <1>6, <1>7, <1>8, <1>9

\* Every step keeps the invariant.
LEMMA PipelineStep == PipelineInv /\ [Next]_vars => PipelineInv'
  <1> SUFFICES ASSUME PipelineInv, [Next]_vars PROVE PipelineInv'
    OBVIOUS
  <1>1. ASSUME NEW c \in Jobs, Process(c) PROVE PipelineInv'
    BY <1>1, ReuseKeeps, MissKeeps, AnswerKeeps, QuietKeeps DEF Process
  <1>2. ASSUME NEW c \in Jobs, Work(c) PROVE PipelineInv'
    BY <1>2, QuietKeeps, AnswerKeeps, StoreKeeps DEF Work
  <1>3. CASE Tick
    BY <1>3, ClockKeeps
  <1>4. CASE Reload \/ UNCHANGED vars
    <2>1. UNCHANGED <<map, job, pc, ver, replies, putLeft>>
      BY <1>4 DEF Reload, vars, cacheVars, serviceVars, callVars, observed
    <2>2. version' \in Version
      BY <1>4, PipelineAssumption DEF PipelineInv, Typed, Version, Reload, vars, observed
    <2> QED BY <2>1, <2>2 DEF PipelineInv, Typed, Phase, DoneExactlyOnce, Provenance,
                              Repeated, RightReplies, StillThere, Computed
  <1> QED BY <1>1, <1>2, <1>3, <1>4 DEF Next

\* The invariant holds throughout.
LEMMA PipelineInvariant == Spec => []PipelineInv
  BY PipelineStarts, PipelineStep, PTL DEF Spec

-----------------------------------------------------------------------------
(* Theorems *)

\* done() fires exactly once for every call (bid_pipeline.h:36), whichever of
\* the five ways out it takes and however the calls, the workers, the reload
\* and the clock interleave.
THEOREM AnsweredOnce == Spec => []DoneExactlyOnce
  <1>1. PipelineInv => DoneExactlyOnce
    BY DEF PipelineInv
  <1> QED BY <1>1, PipelineInvariant, PTL

\* Whatever the cache holds or a "cache" reply repeats was computed by the
\* model, by another call for the same id (bid_pipeline.cpp:61-84).
THEOREM CacheIsModels == Spec => []CacheHoldsModelBids
  <1>1. PipelineInv => CacheHoldsModelBids
    <2> SUFFICES ASSUME PipelineInv PROVE CacheHoldsModelBids
      OBVIOUS
    <2>1. \A id \in Resident :
             \E c \in Jobs : IdOf[c] = id /\ job[c] = "ok" /\ ver[c] = map[id].decision
      BY DEF PipelineInv, Provenance, Computed, Resident
    <2> QED BY <2>1 DEF PipelineInv, Repeated, RightReplies, Computed, CacheHoldsModelBids
  <1> QED BY <1>1, PipelineInvariant, PTL

\* With room for every id, a retry that misses came after the TTL of every
\* answered attempt (bid_pipeline.cpp:34-38, 73-78).
THEOREM RetriesHit == Spec => RetryAfterAnswerHits
  <1> DEFINE Missed ==
        \A b, c \in Jobs :
            /\ Cardinality(Ids) <= MaxSize
            /\ IdOf[b] = IdOf[c]
            /\ pc[b] = "done" /\ job[b] = "ok"
            /\ pc[c] = "new" /\ pc'[c] = "missed"
            => putLeft[b] = 0
  <1>1. PipelineInv /\ [Next]_vars => [Missed]_vars
    <2> SUFFICES ASSUME PipelineInv, Next, NEW b \in Jobs, NEW c \in Jobs,
                        Cardinality(Ids) <= MaxSize, IdOf[b] = IdOf[c],
                        pc[b] = "done", job[b] = "ok", pc[c] = "new", pc'[c] = "missed"
                 PROVE  putLeft[b] = 0
      OBVIOUS
    <2>1. LookupMiss(c)
      <3>1. ASSUME NEW x \in Jobs, Process(x) \/ Work(x) PROVE x = c
        <4>1. PICK from, to : Goto(x, from, to)
          BY <3>1 DEF Process, Work, ReuseDecision, LookupMiss, FallbackOpen, Admit,
                      SubmitAccepted, SubmitRefused, GrabSession, FallbackError, Score,
                      StoreDecision, ReplyOk
        <4> QED BY <4>1 DEF Goto, PipelineInv, Typed
      <3>2. ~Reload /\ ~Tick
        BY DEF Reload, Tick, callVars
      <3>3. Process(c) \/ Work(c)
        BY <3>1, <3>2 DEF Next
      <3>4. ~Work(c)
        BY DEF Work, GrabSession, FallbackError, Score, StoreDecision, ReplyOk, Goto
      <3>5. ~ReuseDecision(c)
        BY DEF ReuseDecision, Goto, PipelineInv, Typed
      <3> QED BY <3>3, <3>4, <3>5
              DEF Process, FallbackOpen, Admit, SubmitAccepted, SubmitRefused, Goto
    <2>2. ~Fresh(IdOf[b])
      BY <2>1 DEF LookupMiss, GetMiss
    <2>3. putLeft[b] > 0 => map[IdOf[b]] # NoEntry /\ map[IdOf[b]].left >= putLeft[b]
      BY DEF PipelineInv, StillThere
    <2>4. putLeft[b] \in Nat /\ (map[IdOf[b]] # NoEntry => map[IdOf[b]].left \in Nat)
      BY PipelineAssumption, CacheAssumption DEF PipelineInv, Typed, Entry
    <2> QED BY <2>2, <2>3, <2>4 DEF Fresh
  <1> QED BY <1>1, PipelineInvariant, PTL DEF Spec, RetryAfterAnswerHits
=============================================================================
