---------------------------- MODULE BidderProofs -----------------------------
(***************************************************************************)
(* The two objects that the bidder's threads share beside the batcher:     *)
(* theorems about BreakerClients, for any number of requests, any          *)
(* threshold and any cooldown, and about CacheClients, for any ids,        *)
(* decisions, size and TTL.                                                *)
(***************************************************************************)
EXTENDS BreakerClients, CacheClients, SequenceTheorems, FiniteSetTheorems, TLAPS

-----------------------------------------------------------------------------
(* The circuit breaker *)

\* The inductive invariant.  OpenIffFailing speaks of the history variable
\* sinceSuccess and the code decides on its own count, so the two must be
\* tied together; NoAdmissionDuringCooldown speaks of the last failure and
\* the code measures from opened_at_, so while the breaker is open the two
\* must be the same instant.
Agreement ==
    /\ (state = "CLOSED") <=> (failures < FailureThreshold)
    /\ (state = "CLOSED") <=> (sinceSuccess < FailureThreshold)
    /\ state = "CLOSED" => failures = sinceSuccess
    /\ state = "OPEN" => elapsed = quiet
    /\ state = "HALF_OPEN" => quiet = Cooldown

IndInv == TypeOK /\ Agreement

\* The invariant holds initially.
LEMMA InitInd == Init => IndInv
  BY BreakerAssumption
  DEF Init, BreakerInit, IndInv, TypeOK, BreakerTypeOK, Agreement, BreakerState, Phase

\* A saturating counter stays in its range.
LEMMA CountFailureRange ==
  ASSUME NEW n \in 0 .. FailureCap
  PROVE  /\ CountFailure(n) \in 0 .. FailureCap
         /\ n < FailureThreshold => CountFailure(n) = n + 1
         /\ n >= FailureThreshold => CountFailure(n) >= FailureThreshold
  BY BreakerAssumption DEF CountFailure

\* The clock of the cooldown stays in range and stops at its end.
LEMMA LaterRange ==
  ASSUME NEW t \in 0 .. Cooldown
  PROVE  /\ Later(t) \in 0 .. Cooldown
         /\ t = Cooldown => Later(t) = Cooldown
  BY BreakerAssumption DEF Later

\* Every step keeps it: one case per action.
LEMMA StepInd == IndInv /\ [Next]_vars => IndInv'
<1> SUFFICES ASSUME IndInv, [Next]_vars PROVE IndInv'
  OBVIOUS
<1> USE BreakerAssumption
        DEF IndInv, TypeOK, BreakerTypeOK, Agreement, BreakerState, Phase
<1>1. ASSUME NEW r \in Requests, Admit(r) PROVE IndInv'
  BY <1>1 DEF Admit, Move, AllowRequest, CooledDown
<1>2. ASSUME NEW r \in Requests, Deny(r) PROVE IndInv'
  BY <1>2 DEF Deny, DenyRequest, breakerVars
<1>3. ASSUME NEW r \in Requests, Submit(r) PROVE IndInv'
  BY <1>3 DEF Submit, Move, breakerVars
<1>4. ASSUME NEW r \in Requests, Shed(r) PROVE IndInv'
  BY <1>4 DEF Shed, Move, breakerVars
<1>5. ASSUME NEW r \in Requests, RunModel(r) PROVE IndInv'
  BY <1>5 DEF RunModel, Move, breakerVars
<1>6. ASSUME NEW r \in Requests, Succeed(r) PROVE IndInv'
  BY <1>6 DEF Succeed, Move, RecordSuccess
<1>7. ASSUME NEW r \in Requests, Fail(r) PROVE IndInv'
  <2>1. phase' \in [Requests -> Phase] /\ healthy' \in BOOLEAN
    BY <1>7 DEF Fail, Move
  <2>2. sinceSuccess' = CountFailure(sinceSuccess) /\ quiet' = 0
    BY <1>7 DEF Fail
  <2>3. CASE state = "HALF_OPEN"
    BY <1>7, <2>1, <2>2, <2>3, CountFailureRange DEF Fail, RecordFailure
  <2>4. CASE state # "HALF_OPEN"
    <3>1. failures' = CountFailure(failures)
      BY <1>7, <2>4 DEF Fail, RecordFailure
    <3>2. CASE failures' >= FailureThreshold
      BY <1>7, <2>1, <2>2, <2>4, <3>1, <3>2, CountFailureRange
      DEF Fail, RecordFailure
    <3>3. CASE ~(failures' >= FailureThreshold)
      BY <1>7, <2>1, <2>2, <2>4, <3>1, <3>3, CountFailureRange
      DEF Fail, RecordFailure
    <3> QED BY <3>2, <3>3
  <2> QED BY <2>3, <2>4
<1>8. CASE Flip
  BY <1>8 DEF Flip, breakerVars
<1>9. CASE Tick
  BY <1>9, LaterRange DEF Tick, BreakerTick
<1>10. CASE UNCHANGED vars
  BY <1>10 DEF vars
<1> QED
  BY <1>1, <1>2, <1>3, <1>4, <1>5, <1>6, <1>7, <1>8, <1>9, <1>10 DEF Next

\* Every reachable state satisfies the inductive invariant.
THEOREM Inductive == Spec => []IndInv
  BY InitInd, StepInd, PTL DEF Spec

\* The fields of the breaker and of its clients keep their types.
THEOREM BreakerTypes == Spec => []TypeOK
<1>1. IndInv => TypeOK
  BY DEF IndInv
<1> QED BY <1>1, Inductive, PTL

\* For any number of overlapping requests and any order of their reports, the
\* breaker is closed exactly while fewer than FailureThreshold failures have
\* been reported since the last success (circuit_breaker.cpp:23-42).
THEOREM BreakerOpensExactlyWhenFailing == Spec => []OpenIffFailing
<1>1. IndInv => OpenIffFailing
  BY DEF IndInv, Agreement, OpenIffFailing
<1> QED BY <1>1, Inductive, PTL

\* A failing model is left alone for a whole cooldown after the last failure
\* that any request reported (circuit_breaker.cpp:5-21).
THEOREM BreakerKeepsCooldown == Spec => NoAdmissionDuringCooldown
<1> DEFINE Quiet(r) ==
       /\ phase[r] = "idle"
       /\ phase'[r] = "admitted"
       /\ sinceSuccess >= FailureThreshold
       => quiet >= Cooldown
<1>1. IndInv /\ [Next]_vars => [\A r \in Requests : Quiet(r)]_vars
  <2> SUFFICES ASSUME IndInv, Next, NEW r \in Requests,
                      phase[r] = "idle", phase'[r] = "admitted",
                      sinceSuccess >= FailureThreshold
               PROVE  quiet >= Cooldown
    OBVIOUS
  <2> USE BreakerAssumption DEF IndInv, TypeOK, BreakerTypeOK, Agreement, Phase
  <2>1. state # "CLOSED"
    OBVIOUS
  <2>2. PICK q \in Requests : Admit(q)
    BY DEF Next, Deny, Submit, Shed, RunModel, Succeed, Fail, Flip, Tick, Move
  <2>3. state = "OPEN" => elapsed = Cooldown
    BY <2>2 DEF Admit, AllowRequest, CooledDown
  <2> QED BY <2>1, <2>3 DEF BreakerState
<1> QED BY <1>1, Inductive, PTL DEF Spec, NoAdmissionDuringCooldown

-----------------------------------------------------------------------------
(* The dedup cache *)

Distinct(s) == \A i, k \in 1 .. Len(s) : s[i] = s[k] => i = k

\* x was used after y: it stands before y in the list.
Precedes(s, x, y) == \E i, k \in 1 .. Len(s) : i < k /\ s[i] = x /\ s[k] = y

-----------------------------------------------------------------------------
(* The list operations of get() and put() *)

\* The elements of a sequence, by position.
LEMMA Elements ==
    ASSUME NEW S, NEW s \in Seq(S)
    PROVE  /\ Len(s) \in Nat
           /\ ToSet(s) = {s[i] : i \in 1 .. Len(s)}
           /\ \A i \in 1 .. Len(s) : s[i] \in S /\ s[i] \in ToSet(s)
           /\ ToSet(s) \subseteq S
  <1>1. Len(s) \in Nat /\ DOMAIN s = 1 .. Len(s)
    BY LenProperties
  <1>2. ToSet(s) = {s[i] : i \in 1 .. Len(s)}
    BY <1>1 DEF ToSet
  <1> QED BY <1>1, <1>2, ElementOfSeq

\* A part of a sequence, by position.
LEMMA Part ==
    ASSUME NEW S, NEW s \in Seq(S), NEW a \in 1 .. Len(s) + 1, NEW b \in a - 1 .. Len(s)
    PROVE  /\ SubSeq(s, a, b) \in Seq(S)
           /\ Len(SubSeq(s, a, b)) = b - a + 1
           /\ \A i \in 1 .. b - a + 1 : SubSeq(s, a, b)[i] = s[a + i - 1]
  <1>1. Len(s) \in Nat /\ \A i \in 1 .. Len(s) : s[i] \in S
    BY Elements
  <1>2. a \in Int /\ b \in Int /\ \A i \in a .. b : s[i] \in S
    BY <1>1
  <1>3. /\ SubSeq(s, a, b) \in Seq(S)
        /\ Len(SubSeq(s, a, b)) = IF a <= b THEN b - a + 1 ELSE 0
        /\ \A i \in 1 .. b - a + 1 : SubSeq(s, a, b)[i] = s[a + i - 1]
    BY <1>2, SubSeqProperties
  <1>4. (IF a <= b THEN b - a + 1 ELSE 0) = b - a + 1
    BY <1>1
  <1> QED BY <1>3, <1>4

\* The element at k is erased.
LEMMA EraseAt ==
    ASSUME NEW S, NEW s \in Seq(S), NEW k \in 1 .. Len(s)
    PROVE  LET t == RemoveAt(s, k)
           IN  /\ t \in Seq(S)
               /\ Len(t) = Len(s) - 1
               /\ \A i \in 1 .. Len(s) - 1 : t[i] = IF i < k THEN s[i] ELSE s[i + 1]
  <1> DEFINE l == SubSeq(s, 1, k - 1)
             r == SubSeq(s, k + 1, Len(s))
             t == RemoveAt(s, k)
  <1>0. Len(s) \in Nat
    BY Elements
  <1>1. /\ l \in Seq(S) /\ Len(l) = k - 1
        /\ \A i \in 1 .. k - 1 : l[i] = s[i]
    <2>1. 1 \in 1 .. Len(s) + 1 /\ k - 1 \in 1 - 1 .. Len(s)
      BY <1>0
    <2>2. /\ l \in Seq(S) /\ Len(l) = (k - 1) - 1 + 1
          /\ \A i \in 1 .. (k - 1) - 1 + 1 : l[i] = s[1 + i - 1]
      BY <2>1, Part
    <2> HIDE DEF l
    <2>3. (k - 1) - 1 + 1 = k - 1 /\ \A i \in 1 .. k - 1 : 1 + i - 1 = i
      BY <1>0
    <2> QED BY <2>2, <2>3
  <1>2. /\ r \in Seq(S) /\ Len(r) = Len(s) - k
        /\ \A i \in 1 .. Len(s) - k : r[i] = s[k + i]
    <2>1. k + 1 \in 1 .. Len(s) + 1 /\ Len(s) \in (k + 1) - 1 .. Len(s)
      BY <1>0
    <2>2. /\ r \in Seq(S) /\ Len(r) = Len(s) - (k + 1) + 1
          /\ \A i \in 1 .. Len(s) - (k + 1) + 1 : r[i] = s[(k + 1) + i - 1]
      BY <2>1, Part
    <2> HIDE DEF r
    <2>3. Len(s) - (k + 1) + 1 = Len(s) - k /\ \A i \in 1 .. Len(s) - k : (k + 1) + i - 1 = k + i
      BY <1>0
    <2> QED BY <2>2, <2>3
  <1>3. t = l \o r
    BY DEF RemoveAt
  <1> HIDE DEF l, r, t
  <1>4. /\ t \in Seq(S) /\ Len(t) = Len(l) + Len(r)
        /\ \A i \in 1 .. Len(l) + Len(r) : t[i] = IF i <= Len(l) THEN l[i] ELSE r[i - Len(l)]
    BY <1>1, <1>2, <1>3, ConcatProperties
  <1>5. Len(l) + Len(r) = Len(s) - 1
    BY <1>0, <1>1, <1>2
  <1>6. ASSUME NEW i \in 1 .. Len(s) - 1
        PROVE  t[i] = IF i < k THEN s[i] ELSE s[i + 1]
    <2>1. CASE i < k
      <3>1. i \in 1 .. k - 1 /\ i <= Len(l)
        BY <2>1, <1>0, <1>1
      <3> QED BY <2>1, <3>1, <1>1, <1>4, <1>5
    <2>2. CASE ~(i < k)
      <3>1. ~(i <= Len(l)) /\ i - Len(l) = i - (k - 1)
        BY <2>2, <1>0, <1>1
      <3>2. i - (k - 1) \in 1 .. Len(s) - k /\ k + (i - (k - 1)) = i + 1
        BY <2>2, <1>0
      <3> QED BY <2>2, <3>1, <3>2, <1>2, <1>4, <1>5
    <2> QED BY <2>1, <2>2
  <1> QED BY <1>4, <1>5, <1>6 DEF t

\* lru_.erase: exactly that id is gone and the rest keeps its order.
LEMMA Erase ==
    ASSUME NEW S, NEW s \in Seq(S), Distinct(s), NEW id
    PROVE  LET t == Without(s, id)
           IN  /\ t \in Seq(S) /\ Distinct(t)
               /\ ToSet(t) = ToSet(s) \ {id}
               /\ \A x, y : Precedes(t, x, y) => Precedes(s, x, y)
               /\ Len(t) <= Len(s)
               /\ id \in ToSet(s) => Len(t) = Len(s) - 1
  <1> DEFINE t == Without(s, id)
  <1>0. Len(s) \in Nat /\ ToSet(s) = {s[i] : i \in 1 .. Len(s)}
    BY Elements
  <1>1. CASE id \notin ToSet(s)
    <2>1. t = s
      BY <1>0, <1>1 DEF Without, RemoveFirst
    <2> QED BY <1>0, <1>1, <2>1
  <1>2. CASE id \in ToSet(s)
    <2>1. PICK k \in 1 .. Len(s) : s[k] = id
      BY <1>0, <1>2
    <2>2. {i \in 1 .. Len(s) : s[i] = id} = {k}
      BY <2>1 DEF Distinct
    <2>3. Min({k}) = k
      BY <1>0 DEF Min
    <2>4. t = RemoveAt(s, k)
      BY <2>1, <2>2, <2>3 DEF Without, RemoveFirst, SelectInSeq
    <2>5. /\ t \in Seq(S) /\ Len(t) = Len(s) - 1
          /\ \A i \in 1 .. Len(s) - 1 : t[i] = IF i < k THEN s[i] ELSE s[i + 1]
      BY <2>4, EraseAt
    <2> HIDE DEF t
    <2> DEFINE old(i) == IF i < k THEN i ELSE i + 1
    <2>6. ASSUME NEW i \in 1 .. Len(t)
          PROVE  old(i) \in 1 .. Len(s) /\ old(i) # k /\ t[i] = s[old(i)]
      BY <1>0, <2>5
    <2>7. ASSUME NEW i \in 1 .. Len(t), NEW j \in 1 .. Len(t)
          PROVE  (old(i) = old(j) => i = j) /\ (i < j => old(i) < old(j))
      BY <1>0, <2>5
    <2>8. ASSUME NEW j \in 1 .. Len(s), j # k
          PROVE  \E i \in 1 .. Len(t) : old(i) = j
      <3>1. CASE j < k
        BY <3>1, <1>0, <2>5
      <3>2. CASE j > k
        <4>1. j - 1 \in 1 .. Len(t) /\ old(j - 1) = j
          BY <3>2, <1>0, <2>5
        <4> QED BY <4>1
      <3> QED BY <2>8, <3>1, <3>2
    <2> HIDE DEF old
    <2>9. ToSet(t) = {t[i] : i \in 1 .. Len(t)}
      BY <2>5, Elements
    <2>10. Distinct(t)
      BY <2>6, <2>7 DEF Distinct
    <2>11. ToSet(t) = ToSet(s) \ {id}
      <3>1. ASSUME NEW i \in 1 .. Len(t) PROVE t[i] \in ToSet(s) \ {id}
        BY <1>0, <2>1, <2>6 DEF Distinct
      <3>2. ASSUME NEW j \in 1 .. Len(s), s[j] # id PROVE s[j] \in ToSet(t)
        <4>1. j # k
          BY <2>1, <3>2
        <4> QED BY <4>1, <2>6, <2>8, <2>9
      <3> QED BY <1>0, <2>9, <3>1, <3>2
    <2>12. \A x, y : Precedes(t, x, y) => Precedes(s, x, y)
      BY <2>6, <2>7 DEF Precedes
    <2>13. Len(t) <= Len(s)
      BY <1>0, <2>5
    <2> QED BY <2>5, <2>10, <2>11, <2>12, <2>13 DEF t
  <1> QED BY <1>1, <1>2

\* push_front of an id that is not in the list.
LEMMA PushFront ==
    ASSUME NEW S, NEW s \in Seq(S), Distinct(s), NEW id \in S, id \notin ToSet(s)
    PROVE  LET t == <<id>> \o s
           IN  /\ t \in Seq(S) /\ Distinct(t)
               /\ ToSet(t) = ToSet(s) \cup {id}
               /\ \A x, y : Precedes(t, x, y) =>
                     Precedes(s, x, y) \/ (x = id /\ y # id)
               /\ Len(t) = Len(s) + 1
  <1> DEFINE t == <<id>> \o s
  <1>0. Len(s) \in Nat /\ ToSet(s) = {s[i] : i \in 1 .. Len(s)}
    BY Elements
  <1>1. <<id>> \in Seq(S) /\ Len(<<id>>) = 1 /\ <<id>>[1] = id
    OBVIOUS
  <1>2. /\ t \in Seq(S) /\ Len(t) = 1 + Len(s)
        /\ \A i \in 1 .. 1 + Len(s) : t[i] = IF i <= 1 THEN <<id>>[i] ELSE s[i - 1]
    BY <1>1, ConcatProperties
  <1> HIDE DEF t
  <1>3. Len(t) = Len(s) + 1
    BY <1>0, <1>2
  <1>4. t[1] = id
    <2>1. 1 \in 1 .. 1 + Len(s)
      BY <1>0
    <2> QED BY <2>1, <1>1, <1>2
  <1>5. ASSUME NEW i \in 1 .. Len(t), i # 1
        PROVE  i - 1 \in 1 .. Len(s) /\ t[i] = s[i - 1] /\ t[i] \in ToSet(s)
    BY <1>0, <1>2, <1>5
  <1>6. ASSUME NEW i \in 1 .. Len(s)
        PROVE  i + 1 \in 1 .. Len(t) /\ t[i + 1] = s[i]
    <2>1. i + 1 \in 1 .. Len(t) /\ ~(i + 1 <= 1) /\ (i + 1) - 1 = i
      BY <1>0, <1>2
    <2> QED BY <2>1, <1>2
  <1>7. ToSet(t) = {t[i] : i \in 1 .. Len(t)} /\ 1 \in 1 .. Len(t)
    <2>1. ToSet(t) = {t[i] : i \in 1 .. Len(t)}
      BY <1>2, Elements
    <2>2. 1 \in 1 .. Len(t)
      BY <1>0, <1>2
    <2> QED BY <2>1, <2>2
  <1>8. Distinct(t)
    <2> SUFFICES ASSUME NEW i \in 1 .. Len(t), NEW j \in 1 .. Len(t), t[i] = t[j]
                 PROVE  i = j
      BY DEF Distinct
    <2>1. CASE i = 1 \/ j = 1
      BY <2>1, <1>4, <1>5
    <2>2. CASE i # 1 /\ j # 1
      <3>1. i - 1 = j - 1
        BY <2>2, <1>5 DEF Distinct
      <3> QED BY <3>1, <1>0, <1>2
    <2> QED BY <2>1, <2>2
  <1>9. ToSet(t) = ToSet(s) \cup {id}
    <2>1. ASSUME NEW i \in 1 .. Len(t) PROVE t[i] \in ToSet(s) \cup {id}
      BY <1>4, <1>5
    <2>2. ASSUME NEW i \in 1 .. Len(s) PROVE s[i] \in ToSet(t)
      BY <1>6, <1>7
    <2>3. id \in ToSet(t)
      BY <1>4, <1>7
    <2> QED BY <1>0, <1>7, <2>1, <2>2, <2>3
  <1>10. ASSUME NEW x, NEW y, Precedes(t, x, y)
         PROVE  Precedes(s, x, y) \/ (x = id /\ y # id)
    <2>1. PICK i \in 1 .. Len(t), j \in 1 .. Len(t) : i < j /\ t[i] = x /\ t[j] = y
      BY <1>10 DEF Precedes
    <2>2. j # 1
      BY <2>1, <1>2
    <2>3. CASE i = 1
      BY <2>1, <2>2, <2>3, <1>4, <1>5
    <2>4. CASE i # 1
      <3>1. i - 1 < j - 1
        BY <2>1, <1>0, <1>2
      <3> QED BY <2>1, <2>2, <2>4, <3>1, <1>5 DEF Precedes
    <2> QED BY <2>3, <2>4
  <1> QED BY <1>2, <1>3, <1>8, <1>9, <1>10 DEF t

\* The eviction loop pops m ids off the back: every id that stays was used
\* after every id that goes.
LEMMA PopBack ==
    ASSUME NEW S, NEW s \in Seq(S), Distinct(s), NEW m \in 0 .. Len(s)
    PROVE  LET t == SubSeq(s, 1, Len(s) - m)
               victims == {s[i] : i \in (Len(s) - m + 1) .. Len(s)}
           IN  /\ t \in Seq(S) /\ Distinct(t)
               /\ ToSet(t) = ToSet(s) \ victims
               /\ victims \subseteq ToSet(s)
               /\ \A x, y : Precedes(t, x, y) => Precedes(s, x, y)
               /\ \A x \in ToSet(t), y \in victims : Precedes(s, x, y)
               /\ Len(t) = Len(s) - m
  <1> DEFINE n == Len(s) - m
             t == SubSeq(s, 1, n)
             victims == {s[i] : i \in n + 1 .. Len(s)}
  <1>0. Len(s) \in Nat /\ ToSet(s) = {s[i] : i \in 1 .. Len(s)}
    BY Elements
  <1>1. n \in 0 .. Len(s)
    BY <1>0
  <1> HIDE DEF n
  <1>2. /\ t \in Seq(S) /\ Len(t) = n
        /\ \A i \in 1 .. n : t[i] = s[i]
    <2>1. 1 \in 1 .. Len(s) + 1 /\ n \in 1 - 1 .. Len(s)
      BY <1>0, <1>1
    <2>2. /\ t \in Seq(S) /\ Len(t) = n - 1 + 1
          /\ \A i \in 1 .. n - 1 + 1 : t[i] = s[1 + i - 1]
      BY <2>1, Part
    <2> HIDE DEF t
    <2>3. n - 1 + 1 = n /\ \A i \in 1 .. n : 1 + i - 1 = i
      BY <1>1
    <2> QED BY <2>2, <2>3
  <1> HIDE DEF t
  <1>3. ToSet(t) = {t[i] : i \in 1 .. n}
    BY <1>2, Elements
  <1>4. \A i \in 1 .. n : i \in 1 .. Len(s)
    BY <1>0, <1>1
  <1>5. \A i \in n + 1 .. Len(s) : i \in 1 .. Len(s) /\ \A k \in 1 .. n : k < i
    BY <1>0, <1>1
  <1>6. Distinct(t)
    BY <1>2, <1>4 DEF Distinct
  <1>7. ToSet(t) = ToSet(s) \ victims
    <2>1. \A i \in 1 .. Len(s) : i \in 1 .. n \/ i \in n + 1 .. Len(s)
      BY <1>0, <1>1
    <2>2. ASSUME NEW i \in 1 .. n, NEW k \in n + 1 .. Len(s) PROVE s[i] # s[k]
      <3>1. i # k
        BY <1>1, <1>5
      <3> QED BY <3>1, <1>4, <1>5 DEF Distinct
    <2> QED BY <1>0, <1>2, <1>3, <1>4, <1>5, <2>1, <2>2
  <1>8. victims \subseteq ToSet(s)
    BY <1>0, <1>5
  <1>9. \A x, y : Precedes(t, x, y) => Precedes(s, x, y)
    BY <1>2, <1>4 DEF Precedes
  <1>10. \A x \in ToSet(t), y \in victims : Precedes(s, x, y)
    BY <1>2, <1>3, <1>4, <1>5 DEF Precedes
  <1> QED BY <1>2, <1>6, <1>7, <1>8, <1>9, <1>10 DEF t, n

\* The last m places of a list of n, counted from the back.
LEMMA FromTheBack ==
    ASSUME NEW s, NEW n \in Nat, NEW m \in 0 .. n
    PROVE  {s[n - k] : k \in 0 .. m - 1} = {s[i] : i \in (n - m + 1) .. n}
  <1>1. \A k \in 0 .. m - 1 : n - k \in (n - m + 1) .. n
    OBVIOUS
  <1>2. \A i \in (n - m + 1) .. n : n - i \in 0 .. m - 1 /\ i = n - (n - i)
    OBVIOUS
  <1>3. ASSUME NEW i \in (n - m + 1) .. n
        PROVE  s[i] \in {s[n - k] : k \in 0 .. m - 1}
    <2>1. PICK k : k = n - i
      OBVIOUS
    <2>2. k \in 0 .. m - 1 /\ i = n - k
      BY <1>2, <2>1
    <2> QED BY <2>2, Zenon
  <1> QED BY <1>1, <1>3

-----------------------------------------------------------------------------
(* The inductive invariant *)

Entry == [decision : Decisions, left : 0 .. Ttl]

Typed ==
    /\ map \in [Ids -> Entry \cup {NoEntry}]
    /\ lru \in Seq(Ids)
    /\ lastPut \in [Ids -> Entry \cup {NoEntry}]
    /\ newer \in [Ids -> SUBSET Ids]

\* The list names each entry of the map once and is within its bound.
Listed ==
    /\ Distinct(lru)
    /\ ToSet(lru) = Resident
    /\ Len(lru) <= (IF MaxSize > 1 THEN MaxSize ELSE 1)

\* An entry is the last decision put, aged alike.
Recorded == \A id \in Resident : lastPut[id] = map[id]

\* The list is in order of last use.
Ordered ==
    /\ \A id \in Ids : IsFiniteSet(newer[id])
    /\ \A x, y : Precedes(lru, x, y) => x \in newer[y]

\* A live decision that is gone was pushed out by MaxSize others.
PushedOut ==
    \A id \in Ids :
        map[id] = NoEntry /\ lastPut[id] # NoEntry /\ lastPut[id].left > 0
        => Cardinality(newer[id]) >= MaxSize

CacheInv == Typed /\ Listed /\ Recorded /\ Ordered /\ PushedOut

\* There are as many entries as places in the list.
LEMMA ResidentCount ==
    ASSUME NEW S, NEW s \in Seq(S), Distinct(s)
    PROVE  IsFiniteSet(ToSet(s)) /\ Cardinality(ToSet(s)) = Len(s)
  <1>1. /\ Len(s) \in Nat /\ ToSet(s) = {s[i] : i \in 1 .. Len(s)}
        /\ s \in [1 .. Len(s) -> S]
    BY Elements, LenProperties
  <1>2. s \in Bijection(1 .. Len(s), ToSet(s))
    <2>1. s \in [1 .. Len(s) -> ToSet(s)]
      BY <1>1
    <2>2. IsInjective(s)
      BY <2>1 DEF Distinct, IsInjective
    <2>3. \A x \in ToSet(s) : \E i \in 1 .. Len(s) : s[i] = x
      BY <1>1
    <2> QED BY <2>1, <2>2, <2>3 DEF Bijection, Injection, Surjection
  <1>3. IsFiniteSet(1 .. Len(s)) /\ Cardinality(1 .. Len(s)) = Len(s)
    BY <1>1, FS_Interval
  <1>4. ExistsBijection(1 .. Len(s), ToSet(s))
    BY <1>2 DEF ExistsBijection
  <1> QED BY <1>3, <1>4, FS_Bijection

\* The cache starts empty.
LEMMA CacheStarts == CallsInit => CacheInv
  <1> SUFFICES ASSUME CallsInit PROVE CacheInv
    OBVIOUS
  <1> USE DEF CallsInit, CacheInit
  <1>1. Typed
    BY EmptySeq DEF Typed
  <1>2. Len(<< >>) = 0 /\ ToSet(<< >>) = {}
    <2>1. << >> \in Seq(Ids) /\ Len(<< >>) = 0
      BY EmptySeq
    <2>2. ToSet(<< >>) = {<< >>[i] : i \in 1 .. Len(<< >>)}
      BY <2>1, Elements, Zenon
    <2>3. 1 .. 0 = {}
      OBVIOUS
    <2> QED BY <2>1, <2>2, <2>3
  <1>3. Listed
    BY <1>2, CacheAssumption DEF Listed, Distinct, Resident
  <1>4. Recorded /\ PushedOut
    BY DEF Recorded, PushedOut, Resident
  <1>5. Ordered
    BY <1>2, FS_EmptySet DEF Ordered, Precedes
  <1> QED BY <1>1, <1>3, <1>4, <1>5 DEF CacheInv

\* What Use does to the history of uses.
LEMMA Used ==
    ASSUME Typed, Ordered, NEW id \in Ids, Use(id)
    PROVE  /\ newer' \in [Ids -> SUBSET Ids]
           /\ \A i \in Ids : IsFiniteSet(newer'[i])
           /\ \A i \in Ids : i # id => newer'[i] = newer[i] \cup {id}
           /\ \A i \in Ids : i # id => newer[i] \subseteq newer'[i]
  <1>1. \A i \in Ids : newer'[i] = IF i = id THEN {} ELSE newer[i] \cup {id}
    BY DEF Use
  <1>2. newer' \in [Ids -> SUBSET Ids]
    BY DEF Use, Typed
  <1>3. \A i \in Ids : IsFiniteSet(newer'[i])
    <2> TAKE i \in Ids
    <2>1. CASE i = id
      BY <1>1, <2>1, FS_EmptySet
    <2>2. CASE i # id
      <3>1. IsFiniteSet(newer[i])
        BY DEF Ordered
      <3>2. IsFiniteSet(newer[i] \cup {id})
        BY <3>1, FS_AddElement
      <3> QED BY <1>1, <2>2, <3>2
    <2> QED BY <2>1, <2>2
  <1> QED BY <1>1, <1>2, <1>3

\* More uses never make an id less recent.
LEMMA MoreUses ==
    ASSUME Typed, Ordered, NEW id \in Ids, Use(id), NEW i \in Ids, i # id,
           Cardinality(newer[i]) >= MaxSize
    PROVE  Cardinality(newer'[i]) >= MaxSize
  <1>1. /\ IsFiniteSet(newer[i]) /\ newer'[i] = newer[i] \cup {id}
    BY Used DEF Ordered
  <1>2. /\ Cardinality(newer[i]) \in Nat
        /\ \/ Cardinality(newer'[i]) = Cardinality(newer[i])
           \/ Cardinality(newer'[i]) = Cardinality(newer[i]) + 1
    BY <1>1, FS_AddElement, FS_CardinalityType
  <1> QED BY <1>2, CacheAssumption

\* An id that is in the list goes to its front.
LEMMA Touched ==
    ASSUME Typed, Listed, Ordered, NEW id \in Resident, Use(id), lru' = Touch(lru, id)
    PROVE  /\ lru' \in Seq(Ids) /\ Distinct(lru')
           /\ ToSet(lru') = Resident
           /\ Len(lru') = Len(lru)
           /\ Ordered'
  <1> DEFINE t == Without(lru, id)
  <1>0. id \in Ids /\ lru \in Seq(Ids) /\ Distinct(lru) /\ id \in ToSet(lru) /\ Len(lru) \in Nat
    BY Elements DEF Resident, Typed, Listed
  <1>1. /\ t \in Seq(Ids) /\ Distinct(t)
        /\ ToSet(t) = ToSet(lru) \ {id}
        /\ \A x, y : Precedes(t, x, y) => Precedes(lru, x, y)
        /\ Len(t) = Len(lru) - 1
    BY <1>0, Erase
  <1>2. lru' = <<id>> \o t
    BY DEF Touch
  <1> HIDE DEF t
  <1>3. /\ lru' \in Seq(Ids) /\ Distinct(lru')
        /\ ToSet(lru') = ToSet(t) \cup {id}
        /\ \A x, y : Precedes(lru', x, y) => Precedes(t, x, y) \/ (x = id /\ y # id)
        /\ Len(lru') = Len(t) + 1
    BY <1>0, <1>1, <1>2, PushFront
  <1>4. ToSet(lru') = Resident
    BY <1>0, <1>1, <1>3 DEF Listed
  <1>5. Len(lru') = Len(lru)
    BY <1>0, <1>1, <1>3
  <1>6. ASSUME NEW x, NEW y, Precedes(lru', x, y) PROVE x \in newer'[y]
    <2>1. y \in Resident /\ y \in Ids
      BY <1>3, <1>4, <1>6, Elements DEF Precedes, Resident
    <2>2. CASE x = id /\ y # id
      BY <2>1, <2>2, <1>0, Used
    <2>3. CASE Precedes(t, x, y)
      <3>1. x \in newer[y]
        BY <2>3, <1>1 DEF Ordered
      <3>2. y # id
        BY <2>3, <1>1, Elements DEF Precedes
      <3> QED BY <3>1, <3>2, <2>1, <1>0, Used
    <2> QED BY <1>3, <1>6, <2>2, <2>3
  <1>7. Ordered'
    BY <1>0, <1>6, Used DEF Ordered
  <1> QED BY <1>3, <1>4, <1>5, <1>7

\* get() hits.
LEMMA HitKeeps ==
    ASSUME CacheInv, NEW id \in Ids, GetHit(id), Use(id), UNCHANGED lastPut
    PROVE  CacheInv'
  <1> USE DEF CacheInv
  <1>1. id \in Resident /\ lru' = Touch(lru, id) /\ UNCHANGED map
    BY DEF GetHit, Fresh, Resident
  <1>2. /\ lru' \in Seq(Ids) /\ Distinct(lru') /\ ToSet(lru') = Resident
        /\ Len(lru') = Len(lru) /\ Ordered'
    BY <1>1, Touched
  <1>3. Resident' = Resident
    BY <1>1 DEF Resident
  <1>4. Typed'
    BY <1>1, <1>2, Used DEF Typed
  <1>5. Listed' /\ Recorded'
    BY <1>1, <1>2, <1>3 DEF Listed, Recorded
  <1>6. PushedOut'
    BY <1>1, MoreUses DEF PushedOut, Resident
  <1> QED BY <1>2, <1>4, <1>5, <1>6

\* get() misses, dropping an expired entry.
LEMMA MissKeeps ==
    ASSUME CacheInv, NEW id \in Ids, GetMiss(id), UNCHANGED <<lastPut, newer>>
    PROVE  CacheInv'
  <1> USE DEF CacheInv
  <1>1. /\ ~Fresh(id) /\ lru' = Without(lru, id)
        /\ map' = [map EXCEPT ![id] = NoEntry]
    BY DEF GetMiss
  <1>2. /\ lru' \in Seq(Ids) /\ Distinct(lru') /\ ToSet(lru') = ToSet(lru) \ {id}
        /\ \A x, y : Precedes(lru', x, y) => Precedes(lru, x, y)
        /\ Len(lru') <= Len(lru)
    BY <1>1, Erase DEF Typed, Listed
  <1>3. Len(lru) \in Nat /\ Len(lru') \in Nat
    BY <1>2, Elements DEF Typed
  <1>4. Typed'
    BY <1>1, <1>2 DEF Typed
  <1>5. \A i \in Ids : map'[i] = IF i = id THEN NoEntry ELSE map[i]
    BY <1>1 DEF Typed
  <1>6. Resident' = Resident \ {id}
    BY <1>5 DEF Resident
  <1>7. Listed'
    BY <1>2, <1>3, <1>6, CacheAssumption DEF Listed
  <1>8. Recorded'
    BY <1>5, <1>6 DEF Recorded, Resident
  <1>9. Ordered'
    BY <1>2 DEF Ordered
  <1>10. PushedOut'
    <2> SUFFICES ASSUME NEW i \in Ids, map'[i] = NoEntry,
                        lastPut[i] # NoEntry, lastPut[i].left > 0
                 PROVE  Cardinality(newer[i]) >= MaxSize
      BY DEF PushedOut
    <2>1. map[i] = NoEntry
      BY <1>1, <1>5 DEF Recorded, Resident, Fresh
    <2> QED BY <2>1 DEF PushedOut
  <1> QED BY <1>4, <1>7, <1>8, <1>9, <1>10

\* What is put is an entry of the map, and not the absence of one.
LEMMA EntryPut ==
    ASSUME NEW d \in Decisions
    PROVE  /\ NewEntry(d) \in Entry /\ NewEntry(d) # NoEntry
           /\ NewEntry(d) = [decision |-> d, left |-> Ttl]
  <1>1. NewEntry(d) \in Entry
    BY CacheAssumption DEF NewEntry, Entry
  <1> QED BY <1>1, CacheAssumption DEF NewEntry, Entry

\* put() for an id that has an entry.
LEMMA RefreshKeeps ==
    ASSUME CacheInv, NEW id \in Ids, NEW d \in Decisions, Store(id, d), map[id] # NoEntry
    PROVE  CacheInv'
  <1> USE DEF CacheInv
  <1>1. /\ map' = [map EXCEPT ![id] = NewEntry(d)]
        /\ lru' = Touch(lru, id) /\ Use(id)
        /\ lastPut' = [lastPut EXCEPT ![id] = NewEntry(d)]
    BY DEF Store, Put, Refreshed, NewEntry
  <1>2. id \in Resident /\ NewEntry(d) \in Entry /\ NewEntry(d) # NoEntry
    BY EntryPut DEF Resident
  <1>3. /\ lru' \in Seq(Ids) /\ Distinct(lru') /\ ToSet(lru') = Resident
        /\ Len(lru') = Len(lru) /\ Ordered'
    BY <1>1, <1>2, Touched
  <1>4. Typed'
    BY <1>1, <1>2, <1>3, Used DEF Typed
  <1>5. \A i \in Ids : /\ map'[i] = IF i = id THEN NewEntry(d) ELSE map[i]
                       /\ lastPut'[i] = IF i = id THEN NewEntry(d) ELSE lastPut[i]
    BY <1>1 DEF Typed
  <1>6. Resident' = Resident
    BY <1>2, <1>5 DEF Resident
  <1>7. Listed' /\ Recorded'
    BY <1>3, <1>5, <1>6 DEF Listed, Recorded, Resident
  <1>8. PushedOut'
    BY <1>1, <1>2, <1>5, MoreUses DEF PushedOut
  <1> QED BY <1>3, <1>4, <1>7, <1>8

\* How much the eviction loop pops.
LEMMA EvictFacts ==
    ASSUME CacheInv
    PROVE  /\ EvictCount \in 0 .. Len(lru) /\ Len(lru) \in Nat
           /\ Len(lru) - EvictCount + 1 <= (IF MaxSize > 1 THEN MaxSize ELSE 1)
           /\ EvictCount > 0 /\ MaxSize > 0 => Len(lru) - EvictCount = MaxSize - 1
  <1>1. Cardinality(Resident) = Len(lru) /\ Len(lru) \in Nat
    BY ResidentCount, Elements DEF CacheInv, Typed, Listed
  <1>2. Len(lru) <= (IF MaxSize > 1 THEN MaxSize ELSE 1)
    BY DEF CacheInv, Listed
  <1> DEFINE n == Len(lru)
             excess == n - MaxSize + 1
  <1>3. EvictCount = IF excess <= 0 THEN 0 ELSE IF excess > n THEN n ELSE excess
    BY <1>1 DEF EvictCount
  <1> HIDE DEF n
  <1>4. n \in Nat /\ n <= (IF MaxSize > 1 THEN MaxSize ELSE 1)
    BY <1>1, <1>2 DEF n
  <1>5. CASE excess <= 0
    BY <1>3, <1>4, <1>5, CacheAssumption DEF n
  <1>6. CASE ~(excess <= 0) /\ excess > n
    BY <1>3, <1>4, <1>6, CacheAssumption DEF n
  <1>7. CASE ~(excess <= 0) /\ ~(excess > n)
    BY <1>3, <1>4, <1>7, CacheAssumption DEF n
  <1> QED BY <1>5, <1>6, <1>7

\* put() for an id that has none: room is made at the back.
LEMMA InsertKeeps ==
    ASSUME CacheInv, NEW id \in Ids, NEW d \in Decisions, Store(id, d), map[id] = NoEntry
    PROVE  CacheInv'
  <1> USE DEF CacheInv
  <1>1. /\ map' = [i \in Ids |-> IF i = id THEN NewEntry(d)
                                 ELSE IF i \in Victims THEN NoEntry ELSE map[i]]
        /\ lru' = <<id>> \o Kept /\ Use(id)
        /\ lastPut' = [lastPut EXCEPT ![id] = NewEntry(d)]
    BY DEF Store, Put, NewEntry
  <1>2. NewEntry(d) \in Entry /\ NewEntry(d) # NoEntry
    BY EntryPut
  <1>3. /\ EvictCount \in 0 .. Len(lru) /\ Len(lru) \in Nat
        /\ Len(lru) - EvictCount + 1 <= (IF MaxSize > 1 THEN MaxSize ELSE 1)
        /\ EvictCount > 0 /\ MaxSize > 0 => Len(lru) - EvictCount = MaxSize - 1
    BY EvictFacts
  <1>4. /\ Kept \in Seq(Ids) /\ Distinct(Kept)
        /\ ToSet(Kept) = ToSet(lru) \ Victims
        /\ Victims \subseteq ToSet(lru)
        /\ \A x, y : Precedes(Kept, x, y) => Precedes(lru, x, y)
        /\ \A x \in ToSet(Kept), y \in Victims : Precedes(lru, x, y)
        /\ Len(Kept) = Len(lru) - EvictCount
    <2>1. Victims = {lru[i] : i \in (Len(lru) - EvictCount + 1) .. Len(lru)}
      BY <1>3, FromTheBack DEF Victims
    <2> DEFINE tail == {lru[i] : i \in (Len(lru) - EvictCount + 1) .. Len(lru)}
    <2>2. /\ Kept \in Seq(Ids) /\ Distinct(Kept)
          /\ ToSet(Kept) = ToSet(lru) \ tail
          /\ tail \subseteq ToSet(lru)
          /\ \A x, y : Precedes(Kept, x, y) => Precedes(lru, x, y)
          /\ \A x \in ToSet(Kept), y \in tail : Precedes(lru, x, y)
          /\ Len(Kept) = Len(lru) - EvictCount
      BY <1>3, PopBack DEF Kept, Typed, Listed
    <2> HIDE DEF tail
    <2>3. Victims = tail
      BY <2>1 DEF tail
    <2> QED BY <2>2, <2>3
  <1>5. id \notin Resident /\ id \notin ToSet(Kept) /\ id \notin Victims
    BY <1>4 DEF Listed, Resident
  <1>6. /\ lru' \in Seq(Ids) /\ Distinct(lru')
        /\ ToSet(lru') = ToSet(Kept) \cup {id}
        /\ \A x, y : Precedes(lru', x, y) => Precedes(Kept, x, y) \/ (x = id /\ y # id)
        /\ Len(lru') = Len(Kept) + 1
    BY <1>1, <1>4, <1>5, PushFront
  <1>7. \A i \in Ids : /\ map'[i] = IF i = id THEN NewEntry(d)
                                    ELSE IF i \in Victims THEN NoEntry ELSE map[i]
                       /\ lastPut'[i] = IF i = id THEN NewEntry(d) ELSE lastPut[i]
    BY <1>1, <1>5 DEF Typed
  <1>8. Typed'
    BY <1>1, <1>2, <1>6, <1>7, Used DEF Typed
  <1>9. Resident' = ToSet(Kept) \cup {id}
    BY <1>2, <1>4, <1>5, <1>7 DEF Resident, Listed
  <1>10. Listed'
    BY <1>3, <1>4, <1>6, <1>9, CacheAssumption DEF Listed
  <1>11. Recorded'
    BY <1>4, <1>5, <1>7, <1>9 DEF Recorded, Resident, Listed
  <1>12. Ordered'
    <2>1. ASSUME NEW x, NEW y, Precedes(lru', x, y) PROVE x \in newer'[y]
      <3>1. y \in Ids
        BY <1>6, <2>1, Elements DEF Precedes
      <3>2. CASE x = id /\ y # id
        BY <1>1, <3>1, <3>2, Used
      <3>3. CASE Precedes(Kept, x, y)
        <4>1. x \in newer[y]
          BY <3>3, <1>4 DEF Ordered
        <4>2. y # id
          BY <3>3, <1>4, <1>5, Elements DEF Precedes
        <4> QED BY <4>1, <4>2, <3>1, <1>1, Used
      <3> QED BY <1>6, <2>1, <3>2, <3>3
    <2> QED BY <1>1, <2>1, Used DEF Ordered
  <1>13. ASSUME NEW v \in Victims, v \in Ids PROVE Cardinality(newer'[v]) >= MaxSize
    <2>1. v # id /\ newer'[v] = newer[v] \cup {id} /\ IsFiniteSet(newer'[v])
      BY <1>1, <1>5, <1>13, Used
    <2>2. ToSet(Kept) \cup {id} \in SUBSET newer'[v]
      BY <1>4, <2>1 DEF Ordered
    <2>3. /\ IsFiniteSet(ToSet(Kept)) /\ Cardinality(ToSet(Kept)) = Len(Kept)
      BY <1>4, ResidentCount
    <2>4. Cardinality(ToSet(Kept) \cup {id}) = Len(Kept) + 1
      BY <1>5, <2>3, FS_AddElement
    <2>5. Cardinality(ToSet(Kept) \cup {id}) <= Cardinality(newer'[v])
      BY <2>1, <2>2, FS_Subset
    <2>6. Cardinality(newer'[v]) \in Nat
      BY <2>1, FS_CardinalityType
    <2>7. EvictCount > 0
      <3>1. PICK k \in 0 .. EvictCount - 1 : TRUE
        BY DEF Victims
      <3> QED BY <1>3, <3>1
    <2>8. Len(Kept) + 1 = MaxSize \/ MaxSize = 0
      BY <1>3, <1>4, <2>7, CacheAssumption
    <2> QED BY <2>4, <2>5, <2>6, <2>8, CacheAssumption
  <1>14. PushedOut'
    <2> SUFFICES ASSUME NEW i \in Ids, map'[i] = NoEntry,
                        lastPut'[i] # NoEntry, lastPut'[i].left > 0
                 PROVE  Cardinality(newer'[i]) >= MaxSize
      BY DEF PushedOut
    <2>1. i # id /\ lastPut'[i] = lastPut[i]
      BY <1>2, <1>7
    <2>2. CASE i \in Victims
      BY <2>2, <1>13
    <2>3. CASE i \notin Victims
      <3>1. map[i] = NoEntry
        BY <2>1, <2>3, <1>7
      <3> QED BY <3>1, <2>1, <1>1, MoreUses DEF PushedOut
    <2> QED BY <2>2, <2>3
  <1> QED BY <1>8, <1>10, <1>11, <1>12, <1>14

\* The clock ages the entries and the decisions put alike.
LEMMA TickKeeps ==
    ASSUME CacheInv, CallsTick
    PROVE  CacheInv'
  <1> USE DEF CacheInv
  <1>1. /\ map' = [id \in Ids |-> Age(map[id])] /\ UNCHANGED <<lru, newer>>
        /\ lastPut' = [id \in Ids |-> Age(lastPut[id])]
    BY DEF CallsTick, CacheTick
  <1>2. ASSUME NEW e \in Entry \cup {NoEntry}
        PROVE  /\ Age(e) \in Entry \cup {NoEntry}
               /\ Age(e) = NoEntry <=> e = NoEntry
               /\ Age(e) # NoEntry /\ Age(e).left > 0 => e # NoEntry /\ e.left > 0
    <2>1. CASE e = NoEntry
      BY <2>1 DEF Age
    <2>2. CASE e # NoEntry
      <3>1. e \in Entry /\ e.left \in 0 .. Ttl
        BY <2>2 DEF Entry
      <3>2. CASE e.left = 0
        BY <2>2, <3>1, <3>2 DEF Age
      <3>3. CASE e.left # 0
        <4>1. Age(e) = [e EXCEPT !.left = @ - 1]
          BY <2>2, <3>3 DEF Age
        <4>2. Age(e) \in Entry
          BY <3>1, <3>3, <4>1, CacheAssumption DEF Entry
        <4>3. e.left > 0
          BY <3>1, <3>3, CacheAssumption
        <4> QED BY <2>2, <4>2, <4>3, CacheAssumption DEF Entry
      <3> QED BY <3>2, <3>3
    <2> QED BY <2>1, <2>2
  <1>3. \A i \in Ids : /\ map'[i] = Age(map[i]) /\ lastPut'[i] = Age(lastPut[i])
                       /\ map[i] \in Entry \cup {NoEntry}
                       /\ lastPut[i] \in Entry \cup {NoEntry}
    BY <1>1 DEF Typed
  <1>4. Typed'
    BY <1>1, <1>2, <1>3 DEF Typed
  <1>5. Resident' = Resident
    BY <1>2, <1>3 DEF Resident
  <1>6. Listed' /\ Ordered'
    BY <1>1, <1>5 DEF Listed, Ordered
  <1>7. Recorded'
    BY <1>3, <1>5 DEF Recorded, Resident
  <1>8. PushedOut'
    BY <1>1, <1>2, <1>3 DEF PushedOut
  <1> QED BY <1>4, <1>6, <1>7, <1>8

\* Every call and every tick keeps the invariant.
LEMMA CacheStep == CacheInv /\ [CallsNext]_callVars => CacheInv'
  <1> SUFFICES ASSUME CacheInv, [CallsNext]_callVars PROVE CacheInv'
    OBVIOUS
  <1>1. ASSUME NEW id \in Ids, Get(id) PROVE CacheInv'
    BY <1>1, HitKeeps, MissKeeps DEF Get
  <1>2. ASSUME NEW id \in Ids, NEW d \in Decisions, Store(id, d) PROVE CacheInv'
    BY <1>2, RefreshKeeps, InsertKeeps
  <1>3. CASE CallsTick
    BY <1>3, TickKeeps
  <1>4. CASE UNCHANGED callVars
    BY <1>4 DEF callVars, CacheInv, Typed, Listed, Recorded, Ordered, PushedOut, Resident
  <1> QED BY <1>1, <1>2, <1>3, <1>4 DEF CallsNext

\* The invariant holds throughout.
LEMMA CacheInvariant == CacheSpec => []CacheInv
  BY CacheStarts, CacheStep, PTL DEF CacheSpec

-----------------------------------------------------------------------------
(* Theorems *)

\* After any calls the map and the list hold the same ids, each once, and no
\* more of them than MaxSize (dedup_cache.cpp:12-21, 31-53): no iterator
\* dangles and the cache cannot grow.
THEOREM CacheConsistent == CacheSpec => []MapAndListAgree
  <1>1. CacheInv => MapAndListAgree
    <2> SUFFICES ASSUME CacheInv PROVE MapAndListAgree
      OBVIOUS
    <2>1. Cardinality(Resident) = Len(lru) /\ ToSet(lru) = {lru[i] : i \in 1 .. Len(lru)}
      BY ResidentCount, Elements DEF CacheInv, Typed, Listed
    <2> QED BY <2>1 DEF CacheInv, Listed, MapAndListAgree
  <1> QED BY <1>1, CacheInvariant, PTL

\* A hit is the decision of the last put() for that id, younger than the TTL
\* (dedup_cache.cpp:11-22), for any ids, size and TTL.
THEOREM HitsAreRight == CacheSpec => []HitIsLastPut
  <1>1. CacheInv => HitIsLastPut
    BY DEF CacheInv, Recorded, HitIsLastPut, Resident, Fresh
  <1> QED BY <1>1, CacheInvariant, PTL

\* A live decision is lost only to MaxSize ids used after it: eviction takes
\* the least recently used (dedup_cache.cpp:41-46), for any size.
THEOREM RecentSurvives == CacheSpec => []RecentIsRetained
  <1>1. CacheInv => RecentIsRetained
    <2> SUFFICES ASSUME CacheInv, NEW id \in Ids, lastPut[id] # NoEntry,
                        lastPut[id].left > 0, Cardinality(newer[id]) < MaxSize
                 PROVE  Fresh(id)
      BY DEF RecentIsRetained
    <2>1. Cardinality(newer[id]) \in Nat
      BY FS_CardinalityType DEF CacheInv, Ordered
    <2>2. map[id] # NoEntry
      BY <2>1, CacheAssumption DEF CacheInv, PushedOut
    <2> QED BY <2>2 DEF CacheInv, Recorded, Resident, Fresh
  <1> QED BY <1>1, CacheInvariant, PTL
=============================================================================
