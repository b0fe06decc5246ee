---------------------------- MODULE BatcherProofs ----------------------------
(***************************************************************************)
(* Theorems about MicroBatcher, for any jobs, workers, batch size and      *)
(* queue bound.                                                            *)
(***************************************************************************)
EXTENDS MicroBatcher, SequenceTheorems, FiniteSetTheorems, TLAPS

Distinct(s) == \A i, k \in 1 .. Len(s) : s[i] = s[k] => i = k

-----------------------------------------------------------------------------
(* The sequence operations of submit() and of the workers *)

\* The elements of a sequence, by position.
LEMMA Elements ==
    ASSUME NEW S, NEW s \in Seq(S)
    PROVE  /\ Len(s) \in Nat
           /\ ToSet(s) = {s[i] : i \in 1 .. Len(s)}
           /\ ToSet(s) \subseteq S
           /\ s = << >> <=> Len(s) = 0
           /\ s = << >> <=> ToSet(s) = {}
  <1>1. Len(s) \in Nat /\ DOMAIN s = 1 .. Len(s)
    BY LenProperties
  <1>2. s = << >> <=> Len(s) = 0
    BY EmptySeq
  <1>3. ToSet(s) = {s[i] : i \in 1 .. Len(s)}
    BY <1>1 DEF ToSet
  <1>4. ToSet(s) \subseteq S
    BY <1>3, ElementOfSeq
  <1>5. s = << >> <=> ToSet(s) = {}
    BY <1>1, <1>2, <1>3
  <1> QED BY <1>1, <1>2, <1>3, <1>4, <1>5

\* push_back of a job that is not in the queue.
LEMMA PushBack ==
    ASSUME NEW S, NEW s \in Seq(S), NEW e \in S, Distinct(s), e \notin ToSet(s)
    PROVE  /\ Append(s, e) \in Seq(S)
           /\ Distinct(Append(s, e))
           /\ ToSet(Append(s, e)) = ToSet(s) \cup {e}
           /\ Len(Append(s, e)) = Len(s) + 1
  <1> DEFINE t == Append(s, e)
  <1>1. /\ t \in Seq(S) /\ Len(t) = Len(s) + 1
        /\ \A i \in 1 .. Len(s) : t[i] = s[i]
        /\ t[Len(s) + 1] = e
    BY AppendProperties
  <1>2. /\ Len(s) \in Nat
        /\ ToSet(s) = {s[i] : i \in 1 .. Len(s)}
        /\ ToSet(t) = {t[i] : i \in 1 .. Len(t)}
    BY <1>1, Elements
  <1>3. \A i \in 1 .. Len(t) : i \in 1 .. Len(s) \/ i = Len(s) + 1
    BY <1>1, <1>2
  <1> HIDE DEF t
  <1>4. Distinct(t)
    BY <1>1, <1>2, <1>3 DEF Distinct
  <1>5. ToSet(t) = ToSet(s) \cup {e}
    <2>1. \A i \in 1 .. Len(s) : i \in 1 .. Len(t)
      BY <1>1, <1>2
    <2>2. Len(s) + 1 \in 1 .. Len(t)
      BY <1>1, <1>2
    <2> QED BY <1>1, <1>2, <1>3, <2>1, <2>2
  <1> QED BY <1>1, <1>4, <1>5 DEF t

\* The first n jobs leave the queue as a batch.
LEMMA TakeFront ==
    ASSUME NEW S, NEW s \in Seq(S), NEW n \in 0 .. Len(s), Distinct(s)
    PROVE  LET front == SubSeq(s, 1, n)
               back  == SubSeq(s, n + 1, Len(s))
           IN  /\ front \in Seq(S) /\ back \in Seq(S)
               /\ Len(front) = n /\ Len(back) = Len(s) - n
               /\ Distinct(front) /\ Distinct(back)
               /\ ToSet(front) \cup ToSet(back) = ToSet(s)
               /\ ToSet(front) \cap ToSet(back) = {}
  <1> DEFINE front == SubSeq(s, 1, n)
             back  == SubSeq(s, n + 1, Len(s))
  <1>1. Len(s) \in Nat /\ \A i \in 1 .. Len(s) : s[i] \in S
    BY LenProperties, ElementOfSeq
  <1>2. /\ front \in Seq(S) /\ Len(front) = n
        /\ \A i \in 1 .. n : front[i] = s[i]
    <2>1. \A i \in 1 .. n : s[i] \in S
      BY <1>1
    <2>2. /\ front \in Seq(S)
          /\ Len(front) = IF 1 <= n THEN n - 1 + 1 ELSE 0
          /\ \A i \in 1 .. n - 1 + 1 : front[i] = s[1 + i - 1]
      BY <2>1, <1>1, SubSeqProperties
    <2> HIDE DEF front
    <2> QED BY <2>2, <1>1
  <1>3. /\ back \in Seq(S) /\ Len(back) = Len(s) - n
        /\ \A i \in 1 .. Len(s) - n : back[i] = s[n + i]
    <2>1. \A i \in n + 1 .. Len(s) : s[i] \in S
      BY <1>1
    <2>2. /\ back \in Seq(S)
          /\ Len(back) = IF n + 1 <= Len(s) THEN Len(s) - (n + 1) + 1 ELSE 0
          /\ \A i \in 1 .. Len(s) - (n + 1) + 1 : back[i] = s[(n + 1) + i - 1]
      BY <2>1, <1>1, SubSeqProperties
    <2> HIDE DEF back
    <2>3. \A i \in 1 .. Len(s) - n : (n + 1) + i - 1 = n + i
      BY <1>1
    <2> QED BY <2>2, <2>3, <1>1
  <1> HIDE DEF front, back
  <1>4. /\ ToSet(s) = {s[i] : i \in 1 .. Len(s)}
        /\ ToSet(front) = {front[i] : i \in 1 .. Len(front)}
        /\ ToSet(back) = {back[i] : i \in 1 .. Len(back)}
    BY <1>2, <1>3, Elements
  <1>5. Distinct(front) /\ Distinct(back)
    <2>1. Distinct(front)
      BY <1>1, <1>2 DEF Distinct
    <2>2. ASSUME NEW i \in 1 .. Len(s) - n, NEW k \in 1 .. Len(s) - n, back[i] = back[k]
          PROVE  i = k
      <3>1. n + i \in 1 .. Len(s) /\ n + k \in 1 .. Len(s) /\ s[n + i] = s[n + k]
        BY <2>2, <1>1, <1>3
      <3>2. n + i = n + k
        BY <3>1 DEF Distinct
      <3> QED BY <3>2, <1>1
    <2>3. Distinct(back)
      BY <2>2, <1>3 DEF Distinct
    <2> QED BY <2>1, <2>3
  <1>6. ToSet(front) \cap ToSet(back) = {}
    <2> SUFFICES ASSUME NEW i \in 1 .. n, NEW k \in 1 .. Len(s) - n, front[i] = back[k]
                 PROVE  FALSE
      BY <1>2, <1>3, <1>4
    <2> QED BY <1>1, <1>2, <1>3 DEF Distinct
  <1>7. ToSet(front) \cup ToSet(back) = ToSet(s)
    <2>1. ASSUME NEW i \in 1 .. Len(s)
          PROVE  s[i] \in ToSet(front) \cup ToSet(back)
      <3>1. CASE i <= n
        BY <3>1, <1>1, <1>2, <1>4
      <3>2. CASE ~(i <= n)
        <4>1. i - n \in 1 .. Len(s) - n /\ n + (i - n) = i
          BY <3>2, <1>1
        <4> QED BY <4>1, <1>3, <1>4
      <3> QED BY <3>1, <3>2
    <2>2. \A i \in 1 .. n : i \in 1 .. Len(s)
      BY <1>1
    <2>3. \A i \in 1 .. Len(s) - n : n + i \in 1 .. Len(s)
      BY <1>1
    <2> QED BY <2>1, <2>2, <2>3, <1>2, <1>3, <1>4, ZenonT(60)
  <1> QED BY <1>2, <1>3, <1>5, <1>6, <1>7 DEF front, back

\* The next job of a batch is answered and leaves it.
LEMMA DropHead ==
    ASSUME NEW S, NEW s \in Seq(S), s # << >>, Distinct(s)
    PROVE  /\ Head(s) \in S /\ Head(s) \in ToSet(s)
           /\ Tail(s) \in Seq(S) /\ Len(Tail(s)) = Len(s) - 1
           /\ Distinct(Tail(s))
           /\ ToSet(Tail(s)) = ToSet(s) \ {Head(s)}
  <1> DEFINE t == Tail(s)
  <1>1. /\ Head(s) \in S /\ t \in Seq(S) /\ Len(t) = Len(s) - 1
        /\ \A i \in 1 .. Len(t) : t[i] = s[i + 1]
    BY HeadTailProperties
  <1>2. Head(s) = s[1]
    OBVIOUS
  <1> HIDE DEF t
  <1>3. /\ Len(s) \in Nat \ {0}
        /\ ToSet(s) = {s[i] : i \in 1 .. Len(s)}
        /\ ToSet(t) = {t[i] : i \in 1 .. Len(t)}
    BY <1>1, Elements
  <1>4. Distinct(t)
    BY <1>1, <1>3 DEF Distinct
  <1>5. 1 \in 1 .. Len(s)
    BY <1>3
  <1>6. ToSet(t) = ToSet(s) \ {Head(s)}
    <2>1. ASSUME NEW i \in 1 .. Len(t)
          PROVE  t[i] \in ToSet(s) \ {Head(s)}
      BY <1>1, <1>2, <1>3 DEF Distinct
    <2>2. ASSUME NEW i \in 1 .. Len(s), s[i] # Head(s)
          PROVE  s[i] \in ToSet(t)
      <3>1. i - 1 \in 1 .. Len(t) /\ (i - 1) + 1 = i
        BY <2>2, <1>1, <1>2, <1>3
      <3> QED BY <3>1, <1>1, <1>3
    <2> QED BY <2>1, <2>2, <1>3
  <1> QED BY <1>1, <1>2, <1>3, <1>4, <1>5, <1>6 DEF t

-----------------------------------------------------------------------------
(* The inductive invariant *)

Typed ==
    /\ queue \in Seq(Jobs)
    /\ stopping \in BOOLEAN
    /\ wpc \in [Workers -> {"check", "asleep", "run", "ok", "error", "exited"}]
    /\ batch \in [Workers -> Seq(Jobs)]
    /\ notifying \subseteq Jobs
    /\ spc \in {"no", "flagged", "joining", "joined"}
    /\ submitted \in [Jobs -> {"no", "true", "false"}]
    /\ calls \in [Jobs -> Seq({"ok", "error"})]

\* A worker holds jobs exactly while it runs or answers a batch.
Holding == \A w \in Workers :
    batch[w] # << >> <=> wpc[w] \in {"run", "ok", "error"}

\* A worker leaves only behind an empty queue that nothing enters any more.
Closing ==
    /\ stopping <=> spc # "no"
    /\ \A w \in Workers : wpc[w] = "exited" => stopping /\ queue = << >>
    /\ spc = "joined" => \A w \in Workers : wpc[w] = "exited"

BatcherInv ==
    /\ Typed /\ Holding /\ Closing
    /\ ExactlyOnePlace /\ BacklogBounded /\ SomeoneWillLook

\* ExactlyOnePlace in terms of sets.
Apart ==
    /\ Distinct(queue)
    /\ \A w \in Workers : Distinct(batch[w])
    /\ \A v, w \in Workers : v # w => ToSet(batch[v]) \cap ToSet(batch[w]) = {}
    /\ \A w \in Workers : ToSet(queue) \cap ToSet(batch[w]) = {}

Answered ==
    \A j \in Jobs :
        /\ j \in ToSet(queue) => calls[j] = << >>
        /\ InHand(j) => calls[j] = << >>
        /\ Len(calls[j]) <= 1
        /\ (submitted[j] = "true")
              <=> (j \in ToSet(queue) \/ InHand(j) \/ Len(calls[j]) = 1)

\* The places of a job, seen as sets.
LEMMA PlacesAsSets ==
    ASSUME Typed
    PROVE  ExactlyOnePlace <=> Apart /\ Answered
  <1>1. ToSet(queue) \subseteq Jobs
    BY Elements DEF Typed
  <1> QED BY <1>1 DEF ExactlyOnePlace, Apart, Answered, Distinct, InHand

\* The same in the next state.
LEMMA PlacesAsSetsNext ==
    ASSUME Typed'
    PROVE  ExactlyOnePlace' <=> Apart' /\ Answered'
  BY PlacesAsSets, PTL


\* Nothing was submitted and every worker is about to look.
LEMMA BatcherInit == Init => BatcherInv
  <1> SUFFICES ASSUME Init PROVE BatcherInv
    OBVIOUS
  <1> USE DEF Init
  <1>1. Typed
    BY EmptySeq DEF Typed
  <1>2. Holding /\ Closing
    BY DEF Holding, Closing
  <1>3. Len(<< >>) = 0
    BY EmptySeq
  <1>4. ToSet(<< >>) = {}
    BY EmptySeq, Elements
  <1>5. Apart
    BY <1>3, <1>4 DEF Apart, Distinct
  <1>6. Answered
    BY <1>3, <1>4 DEF Answered, InHand
  <1>7. BacklogBounded /\ SomeoneWillLook
    BY <1>3, BatcherAssumption DEF BacklogBounded, SomeoneWillLook
  <1> QED BY <1>1, <1>2, <1>5, <1>6, <1>7, PlacesAsSets DEF BatcherInv

\* A step that moves no job and answers none keeps every job where it is.
LEMMA PlacesQuiet ==
    ASSUME Typed, ExactlyOnePlace, UNCHANGED <<queue, batch, calls>>,
           \A j \in Jobs : submitted'[j] = "true" <=> submitted[j] = "true"
    PROVE  ExactlyOnePlace'
  BY DEF ExactlyOnePlace, InHand

\* submit() refuses a job.
LEMMA BatcherRefused ==
    ASSUME BatcherInv, NEW j \in Jobs, SubmitRefused(j)
    PROVE  BatcherInv'
  <1> USE DEF BatcherInv, SubmitRefused
  <1>1. Typed'
    BY DEF Typed
  <1>2. ExactlyOnePlace'
    BY PlacesQuiet DEF Typed
  <1>3. Holding' /\ Closing' /\ BacklogBounded' /\ SomeoneWillLook'
    BY DEF Holding, Closing, BacklogBounded, SomeoneWillLook
  <1> QED BY <1>1, <1>2, <1>3

\* submit() pushes a job: it leaves "no", so it was nowhere before.
LEMMA BatcherPush ==
    ASSUME BatcherInv, NEW j \in Jobs, SubmitPush(j)
    PROVE  BatcherInv'
  <1> USE DEF BatcherInv
  <1>0. /\ Typed /\ Apart /\ Answered
        /\ ToSet(queue) \subseteq Jobs
    BY PlacesAsSets, Elements DEF Typed
  <1>1. j \notin ToSet(queue) /\ ~InHand(j) /\ Len(calls[j]) # 1
    BY <1>0 DEF Answered, SubmitPush
  <1>2. /\ queue' \in Seq(Jobs) /\ Distinct(queue')
        /\ ToSet(queue') = ToSet(queue) \cup {j}
        /\ Len(queue') = Len(queue) + 1 /\ Len(queue) \in Nat
    BY <1>0, <1>1, PushBack, Elements DEF SubmitPush, Typed, Apart
  <1>3. Typed'
    BY <1>2 DEF SubmitPush, Typed
  <1>4. Apart'
    BY <1>0, <1>1, <1>2 DEF Apart, InHand, SubmitPush
  <1>5. Answered'
    <2>1. calls[j] = << >>
      <3>1. calls[j] \in Seq({"ok", "error"}) /\ Len(calls[j]) <= 1
        BY <1>0 DEF Typed, Answered
      <3>2. Len(calls[j]) \in Nat /\ (calls[j] = << >> <=> Len(calls[j]) = 0)
        BY <3>1, Elements
      <3>3. Len(calls[j]) \in Nat /\ Len(calls[j]) <= 1 /\ Len(calls[j]) # 1
        BY <3>1, <3>2, <1>1, Zenon
      <3>4. \A n \in Nat : n <= 1 /\ n # 1 => n = 0
        OBVIOUS
      <3>5. Len(calls[j]) = 0
        BY <3>3, <3>4, Zenon
      <3> QED BY <3>2, <3>5, Zenon
    <2>2. \A i \in Jobs : InHand(i)' <=> InHand(i)
      BY DEF InHand, SubmitPush
    <2> QED BY <1>0, <1>2, <2>1, <2>2 DEF Answered, SubmitPush, Typed
  <1>6. Holding' /\ Closing'
    BY DEF Holding, Closing, SubmitPush, Full, Typed
  <1>7. BacklogBounded' /\ SomeoneWillLook'
    BY <1>2, BatcherAssumption DEF BacklogBounded, SomeoneWillLook, SubmitPush, Full
  <1> QED BY <1>3, <1>4, <1>5, <1>6, <1>7, PlacesAsSetsNext

\* Steps that only move workers between looking, sleeping, running and
\* answering, or stop() between its own steps.
LEMMA PlacesOfQuietStep ==
    ASSUME BatcherInv, UNCHANGED <<queue, batch, calls, submitted>>
    PROVE  ExactlyOnePlace' /\ BacklogBounded'
  BY PlacesQuiet DEF BatcherInv, BacklogBounded

\* A notification: it may wake a worker, and there is one that is not asleep
\* if it wakes none.
LEMMA BatcherNotify ==
    ASSUME BatcherInv, NEW j \in Jobs, SubmitNotify(j)
    PROVE  BatcherInv'
  <1> USE DEF BatcherInv
  <1>1. Typed'
    BY DEF SubmitNotify, WakeOne, Typed
  <1>2. ExactlyOnePlace' /\ BacklogBounded'
    BY PlacesOfQuietStep DEF SubmitNotify
  <1>3. Holding' /\ Closing'
    BY DEF SubmitNotify, WakeOne, Typed, Holding, Closing
  <1>4. SomeoneWillLook'
    <2> SUFFICES ASSUME queue # << >>
                 PROVE  \E w \in Workers : wpc'[w] \notin {"asleep", "exited"}
      BY DEF SomeoneWillLook, SubmitNotify
    <2>1. CASE \E w \in Workers : wpc[w] = "asleep"
      BY <2>1 DEF SubmitNotify, WakeOne, Typed
    <2>2. CASE ~\E w \in Workers : wpc[w] = "asleep"
      BY <2>2, BatcherAssumption DEF SubmitNotify, WakeOne, Closing
    <2> QED BY <2>1, <2>2
  <1> QED BY <1>1, <1>2, <1>3, <1>4

\* Worker steps outside a batch's transfer.
LEMMA BatcherQuietWork ==
    ASSUME BatcherInv, NEW w \in Workers,
           \/ Sleep(w) \/ SpuriousWakeup(w) \/ Exit(w)
           \/ \E outcome \in {"ok", "error"} : RunModel(w, outcome)
    PROVE  BatcherInv'
  <1> USE DEF BatcherInv, Sleep, SpuriousWakeup, Exit, RunModel
  <1>1. Typed'
    BY DEF Typed
  <1>2. ExactlyOnePlace' /\ BacklogBounded'
    BY PlacesOfQuietStep
  <1>3. Holding'
    BY DEF Typed, Holding
  <1>4. Closing'
    BY DEF Typed, Closing
  <1>5. SomeoneWillLook'
    BY DEF Typed, SomeoneWillLook
  <1> QED BY <1>1, <1>2, <1>3, <1>4, <1>5

\* A worker takes a batch off the queue.
LEMMA BatcherTake ==
    ASSUME BatcherInv, NEW w \in Workers, Take(w)
    PROVE  BatcherInv'
  <1> USE DEF BatcherInv
  <1> DEFINE n == Min2(Len(queue), BatchMax)
  <1>0. Typed /\ Apart /\ Answered
    BY PlacesAsSets
  <1>1. /\ queue \in Seq(Jobs) /\ Len(queue) \in Nat \ {0}
        /\ ToSet(queue) \subseteq Jobs
    BY Elements DEF Typed, Take
  <1>2. n \in 1 .. Len(queue) /\ n <= BatchMax
    BY <1>1, BatcherAssumption DEF Min2
  <1> DEFINE front == SubSeq(queue, 1, n)
             back  == SubSeq(queue, n + 1, Len(queue))
  <1>3. /\ front \in Seq(Jobs) /\ back \in Seq(Jobs)
        /\ Len(front) = n /\ Len(back) = Len(queue) - n
        /\ Distinct(front) /\ Distinct(back)
        /\ ToSet(front) \cup ToSet(back) = ToSet(queue)
        /\ ToSet(front) \cap ToSet(back) = {}
    <2>1. n \in 0 .. Len(queue) /\ Distinct(queue)
      BY <1>0, <1>1, <1>2 DEF Apart
    <2> HIDE DEF n
    <2> QED BY <1>1, <2>1, TakeFront
  <1>4. /\ queue' = back
        /\ batch' = [batch EXCEPT ![w] = front]
        /\ wpc' = [wpc EXCEPT ![w] = "run"]
        /\ wpc[w] = "check" /\ queue # << >>
        /\ UNCHANGED <<stopping, notifying, spc, submitted, calls>>
    BY DEF Take
  <1> HIDE DEF n, front, back
  <1>5. Typed'
    BY <1>3, <1>4 DEF Typed
  <1>6. batch[w] = << >> /\ ToSet(batch[w]) = {}
    BY <1>4, EmptySeq, Elements DEF Typed, Holding
  <1>7. \A v \in Workers : batch'[v] = IF v = w THEN front ELSE batch[v]
    BY <1>4 DEF Typed
  <1>8. Apart'
    BY <1>0, <1>3, <1>4, <1>6, <1>7, ZenonT(60) DEF Apart
  <1>9. Answered'
    <2>1. \A j \in Jobs : InHand(j)' <=> InHand(j) \/ j \in ToSet(front)
      BY <1>6, <1>7 DEF InHand
    <2> QED BY <1>0, <1>3, <1>4, <2>1 DEF Answered
  <1>10. Holding'
    BY <1>2, <1>3, <1>4, <1>7, Elements DEF Holding, Typed
  <1>11. Closing'
    BY <1>4 DEF Closing, Typed
  <1>12. BacklogBounded'
    BY <1>1, <1>2, <1>3, <1>4, <1>7, BatcherAssumption DEF BacklogBounded
  <1>13. SomeoneWillLook'
    BY <1>4 DEF SomeoneWillLook, Typed
  <1> QED BY <1>5, <1>8, <1>9, <1>10, <1>11, <1>12, <1>13, PlacesAsSetsNext

\* A worker answers the next job of its batch.
LEMMA BatcherCallback ==
    ASSUME BatcherInv, NEW w \in Workers, Callback(w)
    PROVE  /\ BatcherInv'
           /\ Head(batch[w]) \in Jobs
           /\ calls[Head(batch[w])] = << >>
           /\ submitted[Head(batch[w])] = "true"
           /\ calls' = [calls EXCEPT ![Head(batch[w])] = <<wpc[w]>>]
           /\ wpc[w] \in {"ok", "error"}
  <1> USE DEF BatcherInv
  <1> DEFINE h == Head(batch[w])
             rest == Tail(batch[w])
  <1>0. Typed /\ Apart /\ Answered
    BY PlacesAsSets
  <1>1. batch[w] \in Seq(Jobs) /\ batch[w] # << >> /\ Distinct(batch[w])
    BY <1>0 DEF Callback, Holding, Typed, Apart
  <1>2. /\ h \in Jobs /\ h \in ToSet(batch[w])
        /\ rest \in Seq(Jobs) /\ Len(rest) = Len(batch[w]) - 1
        /\ Distinct(rest) /\ ToSet(rest) = ToSet(batch[w]) \ {h}
    BY <1>1, DropHead
  <1>3. /\ calls' = [calls EXCEPT ![h] = Append(@, wpc[w])]
        /\ batch' = [batch EXCEPT ![w] = rest]
        /\ wpc[w] \in {"ok", "error"}
        /\ wpc' = IF Len(batch[w]) = 1 THEN [wpc EXCEPT ![w] = "check"] ELSE wpc
        /\ UNCHANGED <<queue, stopping, notifying, spc, submitted>>
    BY DEF Callback
  <1> HIDE DEF h, rest
  <1>4. InHand(h) /\ calls[h] = << >> /\ submitted[h] = "true"
    BY <1>0, <1>2 DEF InHand, Answered
  <1>5. Append(calls[h], wpc[w]) = <<wpc[w]>>
    BY <1>4
  <1>6. \A j \in Jobs : calls'[j] = IF j = h THEN <<wpc[w]>> ELSE calls[j]
    BY <1>2, <1>3, <1>5 DEF Typed
  <1>7. <<wpc[w]>> \in Seq({"ok", "error"}) /\ Len(<<wpc[w]>>) = 1
    BY <1>3
  <1>8. Typed'
    BY <1>2, <1>3, <1>6, <1>7 DEF Typed
  <1>9. \A v \in Workers : batch'[v] = IF v = w THEN rest ELSE batch[v]
    BY <1>3 DEF Typed
  <1>10. Apart'
    BY <1>0, <1>2, <1>3, <1>9 DEF Apart
  <1>11. \A v \in Workers : h \notin ToSet(batch'[v])
    BY <1>0, <1>2, <1>9 DEF Apart
  <1>12. h \notin ToSet(queue)
    BY <1>0, <1>2 DEF Apart
  <1>13. Answered'
    <2>1. \A j \in Jobs : j # h => (InHand(j)' <=> InHand(j))
      BY <1>2, <1>9 DEF InHand
    <2>2. ASSUME NEW j \in Jobs, j # h
          PROVE  /\ j \in ToSet(queue') => calls'[j] = << >>
                 /\ InHand(j)' => calls'[j] = << >>
                 /\ Len(calls'[j]) <= 1
                 /\ (submitted'[j] = "true")
                       <=> (j \in ToSet(queue') \/ InHand(j)' \/ Len(calls'[j]) = 1)
      BY <1>0, <1>3, <1>6, <2>1, <2>2 DEF Answered
    <2>3. ASSUME NEW j \in Jobs, j = h
          PROVE  /\ j \notin ToSet(queue') /\ ~InHand(j)'
                 /\ Len(calls'[j]) = 1 /\ submitted'[j] = "true"
      BY <1>3, <1>4, <1>6, <1>7, <1>11, <1>12, <2>3 DEF InHand
    <2>4. 1 <= 1
      OBVIOUS
    <2> QED BY <2>2, <2>3, <2>4, Zenon DEF Answered
  <1>14. Len(batch[w]) \in Nat \ {0}
    BY <1>1, Elements
  <1>15. rest = << >> <=> Len(batch[w]) = 1
    <2>1. rest = << >> <=> Len(rest) = 0
      BY <1>2, Elements
    <2>2. \A n \in Nat : n - 1 = 0 <=> n = 1
      OBVIOUS
    <2>3. Len(rest) = 0 <=> Len(batch[w]) = 1
      BY <1>2, <1>14, <2>2, Zenon
    <2> QED BY <2>1, <2>3, Zenon
  <1>16. Holding'
    BY <1>3, <1>9, <1>15 DEF Holding, Typed
  <1>17. Closing'
    BY <1>3 DEF Closing, Typed
  <1>18. BacklogBounded'
    BY <1>2, <1>3, <1>9, <1>14, BatcherAssumption DEF BacklogBounded
  <1>19. SomeoneWillLook'
    BY <1>3 DEF SomeoneWillLook, Typed
  <1>20. calls' = [calls EXCEPT ![h] = <<wpc[w]>>]
    BY <1>3, <1>5
  <1>21. BatcherInv'
    BY <1>8, <1>10, <1>13, <1>16, <1>17, <1>18, <1>19, PlacesAsSetsNext
  <1> QED BY <1>2, <1>3, <1>4, <1>20, <1>21 DEF h

\* stop() raises its flag, notifies everyone and joins.
LEMMA BatcherStop ==
    ASSUME BatcherInv, Stop
    PROVE  BatcherInv'
  <1> USE DEF BatcherInv, Stop, StopFlag, StopNotify, StopJoined
  <1>1. Typed'
    BY DEF Typed
  <1>2. ExactlyOnePlace' /\ BacklogBounded'
    BY PlacesOfQuietStep
  <1>3. Holding' /\ Closing'
    BY DEF Typed, Holding, Closing
  <1>4. SomeoneWillLook'
    BY BatcherAssumption DEF Typed, Closing, SomeoneWillLook
  <1> QED BY <1>1, <1>2, <1>3, <1>4

\* Every step of submit(), of a worker and of stop() keeps the invariant.
LEMMA BatcherStep == BatcherInv /\ [Next]_vars => BatcherInv'
  <1> SUFFICES ASSUME BatcherInv, [Next]_vars PROVE BatcherInv'
    OBVIOUS
  <1>1. ASSUME NEW j \in Jobs, Submit(j) PROVE BatcherInv'
    BY <1>1, BatcherRefused, BatcherPush, BatcherNotify DEF Submit
  <1>2. ASSUME NEW w \in Workers, Work(w) \/ SpuriousWakeup(w) PROVE BatcherInv'
    BY <1>2, BatcherQuietWork, BatcherTake, BatcherCallback DEF Work
  <1>3. CASE Stop
    BY <1>3, BatcherStop
  <1>4. CASE UNCHANGED vars
    BY <1>4 DEF vars, BatcherInv, Typed, Holding, Closing, ExactlyOnePlace, InHand,
                BacklogBounded, SomeoneWillLook
  <1> QED BY <1>1, <1>2, <1>3, <1>4 DEF Next

\* The invariant holds throughout.
LEMMA BatcherInvariant == Spec => []BatcherInv
  BY BatcherInit, BatcherStep, PTL DEF Spec

-----------------------------------------------------------------------------
(* Theorems *)

\* No interleaving of submit(), the workers and stop() loses a job or answers
\* it twice (micro_batcher.cpp:44-79, 96-121), for any number of either.
THEOREM JobsNeverLost == Spec => []ExactlyOnePlace
  <1>1. BatcherInv => ExactlyOnePlace
    BY DEF BatcherInv
  <1> QED BY <1>1, BatcherInvariant, PTL

\* However submit() and the workers interleave, accepted jobs fill at most the
\* queue and one batch per worker (micro_batcher.cpp:46, 66).
THEOREM MemoryIsBounded == Spec => []BacklogBounded
  <1>1. BatcherInv => BacklogBounded
    BY DEF BatcherInv
  <1> QED BY <1>1, BatcherInvariant, PTL

\* Notifying after unlocking (micro_batcher.cpp:50-51) never leaves jobs behind
\* with every worker asleep and no notification to come.
THEOREM NoLostWakeUp == Spec => []SomeoneWillLook
  <1>1. BatcherInv => SomeoneWillLook
    BY DEF BatcherInv
  <1> QED BY <1>1, BatcherInvariant, PTL

\* When every join() has returned, every accepted job has been answered
\* (micro_batcher.cpp:25-42, 60-62).
THEOREM StopLeavesNothing == Spec => []StopDrains
  <1>1. BatcherInv => StopDrains
    <2> SUFFICES ASSUME BatcherInv, spc = "joined", NEW j \in Jobs, submitted[j] = "true"
                 PROVE  Len(calls[j]) = 1
      BY DEF StopDrains
    <2>1. \A w \in Workers : wpc[w] = "exited"
      BY DEF BatcherInv, Closing
    <2>2. queue = << >> /\ \A w \in Workers : batch[w] = << >>
      BY <2>1, BatcherAssumption DEF BatcherInv, Closing, Holding
    <2>3. ToSet(queue) = {} /\ \A w \in Workers : ToSet(batch[w]) = {}
      BY <2>2, EmptySeq, Elements
    <2> QED BY <2>3, PlacesAsSets DEF BatcherInv, Answered, InHand
  <1> QED BY <1>1, BatcherInvariant, PTL

-----------------------------------------------------------------------------
(* MicroBatcher implements BatchService, liveness left to TLC *)

\* How each kind of job looks to the caller.
LEMMA Views ==
    /\ ViewOf(<< >>, "no") = "new"
    /\ ViewOf(<< >>, "false") = "refused"
    /\ ViewOf(<< >>, "true") = "pending"
    /\ \A o \in {"ok", "error"} : ViewOf(<<o>>, "true") = o
  BY DEF ViewOf

\* The jobs in the queue are outstanding, so a full queue means that many.
LEMMA FullMeansOutstanding ==
    ASSUME BatcherInv, Len(queue) >= QueueMax
    PROVE  Cardinality(Service!Outstanding) >= QueueMax
  <1>1. Typed /\ Apart /\ Answered
    BY PlacesAsSets DEF BatcherInv
  <1>2. /\ queue \in Seq(Jobs) /\ Len(queue) \in Nat
        /\ ToSet(queue) = {queue[i] : i \in 1 .. Len(queue)}
        /\ ToSet(queue) \subseteq Jobs
        /\ queue \in [1 .. Len(queue) -> Jobs]
    BY <1>1, Elements, LenProperties DEF Typed
  <1>3. ToSet(queue) \subseteq Service!Outstanding
    <2> SUFFICES ASSUME NEW j \in ToSet(queue) PROVE JobView[j] = "pending"
      BY <1>2 DEF Service!Outstanding
    <2>1. j \in Jobs /\ calls[j] = << >> /\ submitted[j] = "true"
      BY <1>1, <1>2 DEF Answered
    <2> QED BY <2>1, Views DEF JobView
  <1>4. queue \in Bijection(1 .. Len(queue), ToSet(queue))
    <2>1. queue \in [1 .. Len(queue) -> ToSet(queue)]
      BY <1>2
    <2>2. IsInjective(queue)
      BY <1>1, <2>1 DEF Apart, Distinct, IsInjective
    <2>3. \A x \in ToSet(queue) : \E i \in 1 .. Len(queue) : queue[i] = x
      BY <1>2
    <2> QED BY <2>1, <2>2, <2>3 DEF Bijection, Injection, Surjection
  <1>5. Cardinality(ToSet(queue)) = Len(queue)
    <2>1. IsFiniteSet(1 .. Len(queue)) /\ Cardinality(1 .. Len(queue)) = Len(queue)
      BY <1>2, FS_Interval, SMTT(60)
    <2>2. ExistsBijection(1 .. Len(queue), ToSet(queue))
      BY <1>4 DEF ExistsBijection
    <2> QED BY <2>1, <2>2, FS_Bijection
  <1>6. /\ IsFiniteSet(Service!Outstanding)
        /\ Cardinality(ToSet(queue)) <= Cardinality(Service!Outstanding)
    <2>1. Service!Outstanding \in SUBSET Jobs
      BY DEF Service!Outstanding
    <2>2. IsFiniteSet(Service!Outstanding)
      BY <2>1, BatcherAssumption, FS_Subset
    <2>3. ToSet(queue) \in SUBSET Service!Outstanding
      BY <1>3
    <2> QED BY <2>2, <2>3, FS_Subset
  <1>7. Cardinality(Service!Outstanding) \in Nat
    BY <1>6, FS_CardinalityType
  <1>8. \A a, b, c \in Nat : a >= c /\ a <= b => b >= c
    OBVIOUS
  <1> QED BY <1>2, <1>5, <1>6, <1>7, <1>8, BatcherAssumption, Zenon

\* A job that was not accepted has had no callback.
LEMMA NotAcceptedNotAnswered ==
    ASSUME BatcherInv, NEW j \in Jobs, submitted[j] # "true"
    PROVE  calls[j] = << >>
  <1>1. /\ calls[j] \in Seq({"ok", "error"})
        /\ Len(calls[j]) <= 1 /\ Len(calls[j]) # 1
    BY PlacesAsSets DEF BatcherInv, Typed, Answered
  <1>2. Len(calls[j]) \in Nat /\ (calls[j] = << >> <=> Len(calls[j]) = 0)
    BY <1>1, Elements
  <1>3. \A n \in Nat : n <= 1 /\ n # 1 => n = 0
    OBVIOUS
  <1> QED BY <1>1, <1>2, <1>3, Zenon

\* Nothing the caller can see changes.
LEMMA SameView ==
    ASSUME UNCHANGED <<calls, submitted, stopping>>
    PROVE  UNCHANGED Service!serviceVars
  BY DEF Service!serviceVars, JobView

\* submit() that returns is Accept or Refuse.
LEMMA SubmitRefines ==
    ASSUME BatcherInv, NEW j \in Jobs, SubmitRefused(j) \/ SubmitPush(j)
    PROVE  Service!ServiceNext
  <1>1. /\ submitted[j] = "no" /\ submitted \in [Jobs -> {"no", "true", "false"}]
        /\ UNCHANGED <<calls, stopping>>
        /\ stopping \in BOOLEAN
    BY DEF SubmitRefused, SubmitPush, BatcherInv, Typed
  <1>2. calls[j] = << >>
    BY <1>1, NotAcceptedNotAnswered
  <1>3. JobView[j] = "new"
    BY <1>1, <1>2, Views DEF JobView
  <1>4. CASE SubmitPush(j)
    <2>1. submitted' = [submitted EXCEPT ![j] = "true"] /\ ~stopping
      BY <1>4 DEF SubmitPush, Full
    <2>2. JobView' = [JobView EXCEPT ![j] = "pending"]
      BY <1>1, <1>2, <2>1, Views DEF JobView
    <2>3. Service!Accept(j)
      BY <1>1, <1>3, <2>1, <2>2 DEF Service!Accept
    <2> QED BY <2>3 DEF Service!ServiceNext
  <1>5. CASE SubmitRefused(j)
    <2>1. submitted' = [submitted EXCEPT ![j] = "false"]
      BY <1>5 DEF SubmitRefused
    <2>2. stopping \/ Cardinality(Service!Outstanding) >= QueueMax
      BY <1>5, FullMeansOutstanding DEF SubmitRefused, Full
    <2>3. JobView' = [JobView EXCEPT ![j] = "refused"]
      BY <1>1, <1>2, <2>1, Views DEF JobView
    <2>4. Service!Refuse(j)
      <3>1. Cardinality(Service!Outstanding) = Service!Cardinality(Service!Outstanding)
        BY DEF Cardinality, Service!Cardinality
      <3> QED BY <1>1, <1>3, <2>2, <2>3, <3>1, Zenon DEF Service!Refuse
    <2> QED BY <2>4 DEF Service!ServiceNext
  <1> QED BY <1>4, <1>5

\* A callback is Answer.
LEMMA CallbackRefines ==
    ASSUME BatcherInv, NEW w \in Workers, Callback(w)
    PROVE  Service!ServiceNext
  <1> DEFINE h == Head(batch[w])
  <1>1. /\ h \in Jobs /\ calls[h] = << >> /\ submitted[h] = "true"
        /\ calls' = [calls EXCEPT ![h] = <<wpc[w]>>]
        /\ wpc[w] \in {"ok", "error"}
    BY BatcherCallback
  <1>2. UNCHANGED <<submitted, stopping>> /\ calls \in [Jobs -> Seq({"ok", "error"})]
    BY DEF Callback, BatcherInv, Typed
  <1> HIDE DEF h
  <1>3. JobView[h] = "pending"
    BY <1>1, Views DEF JobView
  <1>4. ViewOf(<<wpc[w]>>, "true") = wpc[w]
    BY <1>1, Views
  <1>5. JobView' = [JobView EXCEPT ![h] = wpc[w]]
    BY <1>1, <1>2, <1>4 DEF JobView
  <1>6. Service!Answer(h, wpc[w])
    BY <1>2, <1>3, <1>5 DEF Service!Answer
  <1> QED BY <1>1, <1>6 DEF Service!ServiceNext

\* Every step of the batcher is a step of the service or invisible to it.
LEMMA StepRefines ==
    BatcherInv /\ [Next]_vars => [Service!ServiceNext]_Service!serviceVars
  <1> SUFFICES ASSUME BatcherInv, [Next]_vars
               PROVE  Service!ServiceNext \/ UNCHANGED Service!serviceVars
    OBVIOUS
  <1>1. ASSUME NEW j \in Jobs, Submit(j)
        PROVE  Service!ServiceNext \/ UNCHANGED Service!serviceVars
    BY <1>1, SubmitRefines, SameView DEF Submit, SubmitNotify
  <1>2. ASSUME NEW w \in Workers, Work(w) \/ SpuriousWakeup(w)
        PROVE  Service!ServiceNext \/ UNCHANGED Service!serviceVars
    <2>1. CASE Callback(w)
      BY <2>1, CallbackRefines
    <2>2. CASE ~Callback(w)
      BY <1>2, <2>2, SameView DEF Work, SpuriousWakeup, Sleep, Take, Exit, RunModel
    <2> QED BY <2>1, <2>2
  <1>3. CASE Stop
    <2>1. CASE StopFlag
      <3>1. Service!Close
        BY <2>1 DEF StopFlag, Service!Close, JobView
      <3> QED BY <3>1 DEF Service!ServiceNext
    <2>2. CASE StopNotify \/ StopJoined
      BY <2>2, SameView DEF StopNotify, StopJoined
    <2> QED BY <1>3, <2>1, <2>2 DEF Stop
  <1>4. CASE UNCHANGED vars
    BY <1>4, SameView DEF vars
  <1> QED BY <1>1, <1>2, <1>3, <1>4 DEF Next

\* The batcher keeps every promise of BatchService about what may happen
\* (micro_batcher.h:29-45): a refused job is never answered, an accepted one at
\* most once, and load is shed only with QueueMax jobs outstanding or after
\* stop().  That every accepted job is answered is liveness and left to TLC.
THEOREM BatcherRefinesService == Spec => Service!ServiceSafe
  <1>1. Init => Service!ServiceInit
    BY Views DEF Init, Service!ServiceInit, JobView
  <1> QED BY <1>1, StepRefines, BatcherInvariant, PTL DEF Spec, Service!ServiceSafe
=============================================================================
