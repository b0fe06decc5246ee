---------------------------- MODULE FeatureProofs ----------------------------
(***************************************************************************)
(* What FeaturePipeline checks on two short logs, for any number of logs   *)
(* of any length, any cut and any number of runs that are killed.          *)
(***************************************************************************)
EXTENDS FeaturePipeline, SequenceTheorems, FiniteSetTheorems, WellFoundedInduction, TLAPS

-----------------------------------------------------------------------------
(* Induction and folds *)

\* Every non-empty set of naturals has a least element.
LEMMA LeastNatural ==
    ASSUME NEW T, T \subseteq Nat, T # {}
    PROVE  \E m \in T : \A k \in T : m <= k
  <1> DEFINE R == OpToRel(<, Nat)
  <1>1. IsWellFoundedOn(R, Nat)
    BY NatLessThanWellFounded
  <1> HIDE DEF R
  <1>2. PICK m \in T : \A k \in T : ~(<<k, m>> \in R)
    BY <1>1, WFMin
  <1> USE DEF R
  <1>3. \A k \in T : ~(k < m)
    BY <1>2 DEF OpToRel
  <1> QED BY <1>3

\* Induction over the naturals.
LEMMA Induction ==
    ASSUME NEW T, 0 \in T, \A n \in Nat : n \in T => n + 1 \in T
    PROVE  \A n \in Nat : n \in T
  <1> DEFINE Bad == Nat \ T
  <1> SUFFICES ASSUME Bad # {} PROVE FALSE
    OBVIOUS
  <1>1. PICK n \in Bad : \A m \in Bad : n <= m
    BY LeastNatural
  <1>2. n - 1 \in Nat /\ n - 1 \notin Bad
    BY <1>1
  <1>3. (n - 1) + 1 \in T
    BY <1>2
  <1> QED BY <1>3

Picks(take, S) == \A s \in SUBSET S : s # {} => take[s] \in s

\* What is left of a finite set when one element is taken.
LEMMA OneTaken ==
    ASSUME NEW S, IsFiniteSet(S), NEW s \in SUBSET S, NEW x \in s
    PROVE  /\ s \ {x} \in SUBSET S /\ IsFiniteSet(s)
           /\ Cardinality(s) \in Nat /\ Cardinality(s \ {x}) \in Nat
           /\ Cardinality(s \ {x}) = Cardinality(s) - 1
  <1>1. IsFiniteSet(s) /\ IsFiniteSet(s \ {x})
    BY FS_Subset
  <1>2. Cardinality(s \ {x}) = Cardinality(s) - 1
    BY <1>1, FS_RemoveElement
  <1> QED BY <1>1, <1>2, FS_CardinalityType

\* The size of a subset, and the empty one.
LEMMA SubsetSize ==
    ASSUME NEW S, IsFiniteSet(S), NEW s \in SUBSET S
    PROVE  IsFiniteSet(s) /\ Cardinality(s) \in Nat /\ (Cardinality(s) = 0 <=> s = {})
  BY FS_Subset, FS_CardinalityType, FS_EmptySet

\* Induction along the elements that are taken.
LEMMA SubsetInduction ==
    ASSUME NEW S, IsFiniteSet(S), NEW take, Picks(take, S), NEW T, {} \in T,
           \A s \in SUBSET S : s # {} /\ s \ {take[s]} \in T => s \in T
    PROVE  \A s \in SUBSET S : s \in T
  <1> DEFINE Done == {n \in Nat : \A s \in SUBSET S : Cardinality(s) = n => s \in T}
  <1>1. 0 \in Done
    <2>1. \A s \in SUBSET S : Cardinality(s) = 0 => s = {}
      BY SubsetSize
    <2> QED BY <2>1
  <1>2. ASSUME NEW n \in Nat, n \in Done PROVE n + 1 \in Done
    <2> SUFFICES ASSUME NEW s \in SUBSET S, Cardinality(s) = n + 1 PROVE s \in T
      OBVIOUS
    <2>1. s # {}
      BY SubsetSize
    <2>2. take[s] \in s
      BY <2>1 DEF Picks
    <2>3. s \ {take[s]} \in SUBSET S /\ Cardinality(s \ {take[s]}) = n
      BY <2>2, OneTaken
    <2> QED BY <1>2, <2>1, <2>3
  <1> HIDE DEF Done
  <1>3. \A n \in Nat : n \in Done
    BY <1>1, <1>2, Induction
  <1> USE DEF Done
  <1> QED BY <1>3, SubsetSize

Step(f, base, take, step, s) ==
    IF s = {} THEN base ELSE step[<<take[s], f[s \ {take[s]}]>>]
IsFold(f, S, D, base, take, step) ==
    f \in [SUBSET S -> D] /\ \A s \in SUBSET S : f[s] = Step(f, base, take, step, s)

\* A fold over a finite set exists, and its values are of the type that its
\* step keeps.
LEMMA FoldExists ==
    ASSUME NEW S, IsFiniteSet(S), NEW D, NEW base \in D, NEW take, Picks(take, S),
           NEW step \in [S \X D -> D]
    PROVE  \E f : IsFold(f, S, D, base, take, step)
  <1> DEFINE Upto(n) == {s \in SUBSET S : Cardinality(s) <= n}
             Solves(f, n) == f \in [Upto(n) -> D]
                             /\ \A s \in Upto(n) : f[s] = Step(f, base, take, step, s)
             Done == {n \in Nat : \E f : Solves(f, n)}
  <1>1. 0 \in Done
    <2> DEFINE f == [s \in Upto(0) |-> base]
    <2>1. \A s \in Upto(0) : s = {}
      BY SubsetSize
    <2>2. Solves(f, 0)
      BY <2>1 DEF Step
    <2> QED BY <2>2
  <1>2. ASSUME NEW n \in Nat, n \in Done PROVE n + 1 \in Done
    <2>1. PICK f : Solves(f, n)
      BY <1>2
    <2> DEFINE h == [s \in Upto(n + 1) |-> Step(f, base, take, step, s)]
    <2>2. ASSUME NEW s \in Upto(n + 1), s # {}
          PROVE  s \ {take[s]} \in Upto(n) /\ take[s] \in S
      <3>1. take[s] \in s
        BY <2>2 DEF Picks
      <3>2. /\ s \ {take[s]} \in SUBSET S /\ Cardinality(s) \in Nat
            /\ Cardinality(s \ {take[s]}) = Cardinality(s) - 1
        <4>1. s \in SUBSET S /\ IsFiniteSet(S)
          OBVIOUS
        <4> QED BY ONLY <3>1, <4>1, OneTaken
      <3> QED BY <3>1, <3>2
    <2>3. \A s \in Upto(n) : s \in Upto(n + 1)
      BY SubsetSize
    <2>4. \A s \in Upto(n) : h[s] = f[s]
      BY <2>1, <2>3
    <2>5. ASSUME NEW s \in Upto(n + 1)
          PROVE  h[s] \in D /\ h[s] = Step(h, base, take, step, s)
      <3>1. CASE s = {}
        BY <3>1 DEF Step
      <3>2. CASE s # {}
        <4>1. s \ {take[s]} \in Upto(n) /\ take[s] \in S
          BY <2>2, <3>2
        <4>2. f[s \ {take[s]}] \in D /\ h[s \ {take[s]}] = f[s \ {take[s]}]
          BY <2>1, <2>4, <4>1
        <4>3. h[s] = step[<<take[s], f[s \ {take[s]}]>>]
          BY <3>2 DEF Step
        <4>4. <<take[s], f[s \ {take[s]}]>> \in S \X D
          BY <4>1, <4>2
        <4> QED BY <3>2, <4>2, <4>3, <4>4 DEF Step
      <3> QED BY <3>1, <3>2
    <2>6. h = [s \in Upto(n + 1) |-> h[s]]
      OBVIOUS
    <2> HIDE DEF h
    <2>7. Solves(h, n + 1)
      BY <2>5, <2>6
    <2> HIDE DEF Solves
    <2> QED BY <2>7
  <1> HIDE DEF Done
  <1>3. \A n \in Nat : n \in Done
    BY <1>1, <1>2, Induction
  <1> USE DEF Done
  <1>4. Cardinality(S) \in Nat /\ \A s \in SUBSET S : Cardinality(s) <= Cardinality(S)
    BY FS_Subset, FS_CardinalityType
  <1>5. Upto(Cardinality(S)) = SUBSET S
    BY <1>4
  <1> QED BY <1>3, <1>4, <1>5 DEF IsFold

Some(s) == CHOOSE x \in s : TRUE
SumsUp(f, g, S) ==
    f = [s \in SUBSET S |-> IF s = {} THEN 0 ELSE g[Some(s)] + f[s \ {Some(s)}]]

\* A sum is the value, at the whole set, of a solution of its recursion, and
\* all values of that are integers.
LEMMA SumUnfolds ==
    ASSUME NEW S, IsFiniteSet(S), NEW g, \A x \in S : g[x] \in Int
    PROVE  \E f \in [SUBSET S -> Int] : SumsUp(f, g, S) /\ SumFunctionOnSet(g, S) = f[S]
  <1> DEFINE take == [s \in SUBSET S |-> Some(s)]
             step == [x \in S \X Int |-> g[x[1]] + x[2]]
             F == CHOOSE f : SumsUp(f, g, S)
  <1>1. Picks(take, S)
    BY DEF Picks, Some
  <1>2. step \in [S \X Int -> Int]
    OBVIOUS
  <1>3. PICK f \in [SUBSET S -> Int] : \A s \in SUBSET S : f[s] = Step(f, 0, take, step, s)
    <2> DEFINE D == Int
               zero == 0
    <2>1. zero \in D /\ step \in [S \X D -> D]
      BY <1>2
    <2> HIDE DEF take, step, D, zero
    <2>2. \E f : IsFold(f, S, D, zero, take, step)
      BY <1>1, <2>1, FoldExists
    <2> QED BY <2>2 DEF D, zero, IsFold
  <1>4. ASSUME NEW s \in SUBSET S
        PROVE  f[s] = IF s = {} THEN 0 ELSE g[Some(s)] + f[s \ {Some(s)}]
    <2>1. CASE s = {}
      BY <1>3, <2>1 DEF Step
    <2>2. CASE s # {}
      <3>1. take[s] = Some(s) /\ Some(s) \in S /\ f[s \ {Some(s)}] \in Int
        BY <1>1, <2>2 DEF Picks
      <3>2. f[s] = step[<<take[s], f[s \ {take[s]}]>>]
        BY <1>3, <2>2 DEF Step
      <3>3. <<Some(s), f[s \ {Some(s)}]>> \in S \X Int
        BY <3>1
      <3> QED BY <2>2, <3>1, <3>2, <3>3
    <2> QED BY <2>1, <2>2
  <1>5. SumsUp(f, g, S)
    BY <1>3, <1>4 DEF SumsUp
  <1>6. SumsUp(F, g, S)
    BY <1>5
  <1>7. SumFunctionOnSet(g, S) = F[S]
    BY DEF SumFunctionOnSet, FoldFunctionOnSet, MapThenFoldSet, SumsUp, Some
  <1> HIDE DEF F
  <1>8. \A s \in SUBSET S : F[s] \in Int
    <2> DEFINE T == {s \in SUBSET S : F[s] \in Int}
    <2>1. {} \in T
      BY <1>6 DEF SumsUp
    <2>2. ASSUME NEW s \in SUBSET S, s # {} /\ s \ {take[s]} \in T PROVE s \in T
      <3>1. take[s] = Some(s) /\ Some(s) \in S
        BY <1>1, <2>2 DEF Picks
      <3>2. F[s] = g[Some(s)] + F[s \ {Some(s)}]
        BY <1>6, <2>2 DEF SumsUp
      <3> QED BY <2>2, <3>1, <3>2
    <2> HIDE DEF T, take
    <2>3. \A s \in SUBSET S : s \in T
      BY <1>1, <2>1, <2>2, SubsetInduction
    <2> USE DEF T
    <2> QED BY <2>3
  <1>9. F \in [SUBSET S -> Int]
    BY <1>6, <1>8 DEF SumsUp
  <1> QED BY <1>6, <1>7, <1>9

\* Two solutions of the recursion agree where both are defined.
LEMMA SumsAgree ==
    ASSUME NEW S, IsFiniteSet(S), NEW R \in SUBSET S, NEW g,
           NEW f, SumsUp(f, g, S), NEW h, SumsUp(h, g, R)
    PROVE  f[R] = h[R]
  <1> DEFINE take == [s \in SUBSET R |-> Some(s)]
             T == {s \in SUBSET R : f[s] = h[s]}
  <1>1. Picks(take, R) /\ IsFiniteSet(R)
    BY FS_Subset DEF Picks, Some
  <1>2. {} \in T
    BY DEF SumsUp
  <1>3. ASSUME NEW s \in SUBSET R, s # {} /\ s \ {take[s]} \in T PROVE s \in T
    <2>1. f[s] = g[Some(s)] + f[s \ {Some(s)}] /\ h[s] = g[Some(s)] + h[s \ {Some(s)}]
      BY <1>3 DEF SumsUp
    <2> QED BY <1>3, <2>1
  <1> HIDE DEF T, take
  <1>4. R \in T
    BY <1>1, <1>2, <1>3, SubsetInduction
  <1> QED BY <1>4 DEF T

\* The sum of nothing is 0, and whichever summand is set apart, the sum is
\* that summand and the sum of the others.
LEMMA SumSplits ==
    ASSUME NEW S, IsFiniteSet(S), NEW g, \A x \in S : g[x] \in Int
    PROVE  /\ SumFunctionOnSet(g, S) \in Int
           /\ S = {} => SumFunctionOnSet(g, S) = 0
           /\ \A x \in S : SumFunctionOnSet(g, S) = g[x] + SumFunctionOnSet(g, S \ {x})
  <1>1. PICK f \in [SUBSET S -> Int] : SumsUp(f, g, S) /\ SumFunctionOnSet(g, S) = f[S]
    BY SumUnfolds
  <1>2. S = {} => f[S] = 0
    BY <1>1 DEF SumsUp
  <1> DEFINE Done == {n \in Nat : \A s \in SUBSET S : \A x \in s :
                                    Cardinality(s) = n => f[s] = g[x] + f[s \ {x}]}
  <1>3. 0 \in Done
    <2>1. \A s \in SUBSET S : Cardinality(s) = 0 => s = {}
      BY SubsetSize
    <2> QED BY <2>1
  <1>4. ASSUME NEW n \in Nat, n \in Done PROVE n + 1 \in Done
    <2> SUFFICES ASSUME NEW s \in SUBSET S, NEW x \in s, Cardinality(s) = n + 1
                 PROVE  f[s] = g[x] + f[s \ {x}]
      OBVIOUS
    <2> DEFINE y == Some(s)
    <2>1. y \in s /\ f[s] = g[y] + f[s \ {y}]
      BY <1>1 DEF SumsUp, Some
    <2> HIDE DEF y
    <2>2. CASE x = y
      BY <2>1, <2>2
    <2>3. CASE x # y
      <3>1. /\ s \ {y} \in SUBSET S /\ Cardinality(s \ {y}) = n
            /\ s \ {x} \in SUBSET S /\ Cardinality(s \ {x}) = n
        BY <2>1, OneTaken
      <3>2. x \in s \ {y} /\ y \in s \ {x}
        BY <2>1, <2>3
      <3> DEFINE r == s \ {x, y}
      <3>3. (s \ {y}) \ {x} = r /\ (s \ {x}) \ {y} = r /\ r \in SUBSET S
        OBVIOUS
      <3> HIDE DEF r
      <3>4. f[s \ {y}] = g[x] + f[r] /\ f[s \ {x}] = g[y] + f[r]
        <4>1. \A q \in SUBSET S : \A z \in q : Cardinality(q) = n => f[q] = g[z] + f[q \ {z}]
          BY <1>4
        <4> HIDE DEF Done
        <4>2. /\ f[s \ {y}] = g[x] + f[(s \ {y}) \ {x}]
              /\ f[s \ {x}] = g[y] + f[(s \ {x}) \ {y}]
          BY <3>1, <3>2, <4>1
        <4> QED BY <3>3, <4>2
      <3>5. g[x] \in Int /\ g[y] \in Int /\ f[r] \in Int
        BY <2>1, <3>3
      <3> QED BY <2>1, <3>4, <3>5
    <2> QED BY <2>2, <2>3
  <1> HIDE DEF Done
  <1>5. \A n \in Nat : n \in Done
    BY <1>3, <1>4, Induction
  <1>6. ASSUME NEW x \in S PROVE f[S] = g[x] + f[S \ {x}] /\ f[S \ {x}] = SumFunctionOnSet(g, S \ {x})
    <2>1. Cardinality(S) \in Nat
      BY FS_CardinalityType
    <2>2. f[S] = g[x] + f[S \ {x}]
      BY <1>5, <2>1 DEF Done
    <2>3. IsFiniteSet(S \ {x}) /\ S \ {x} \in SUBSET S
      BY FS_Subset
    <2>4. PICK h : SumsUp(h, g, S \ {x}) /\ SumFunctionOnSet(g, S \ {x}) = h[S \ {x}]
      BY <2>3, SumUnfolds
    <2> QED BY <1>1, <2>2, <2>3, <2>4, SumsAgree
  <1> QED BY <1>1, <1>2, <1>6

\* A sum of naturals is a natural.
LEMMA SumNatural ==
    ASSUME NEW S, IsFiniteSet(S), NEW g, \A x \in S : g[x] \in Nat
    PROVE  SumFunctionOnSet(g, S) \in Nat
  <1>1. PICK f : SumsUp(f, g, S) /\ SumFunctionOnSet(g, S) = f[S]
    <2>1. \A x \in S : g[x] \in Int
      OBVIOUS
    <2> QED BY <2>1, SumUnfolds
  <1> DEFINE take == [s \in SUBSET S |-> Some(s)]
             T == {s \in SUBSET S : f[s] \in Nat}
  <1>2. Picks(take, S)
    BY DEF Picks, Some
  <1>3. {} \in T
    BY <1>1 DEF SumsUp
  <1>4. ASSUME NEW s \in SUBSET S, s # {} /\ s \ {take[s]} \in T PROVE s \in T
    <2>1. take[s] = Some(s) /\ Some(s) \in S
      BY <1>2, <1>4 DEF Picks
    <2>2. f[s] = g[Some(s)] + f[s \ {Some(s)}]
      BY <1>1, <1>4 DEF SumsUp
    <2> QED BY <1>4, <2>1, <2>2
  <1> HIDE DEF T, take
  <1>5. S \in T
    BY <1>2, <1>3, <1>4, SubsetInduction
  <1> QED BY <1>1, <1>5 DEF T

-----------------------------------------------------------------------------
(* Filters *)

\* The latest of some positions.
LEMMA Latest ==
    ASSUME NEW n \in Nat, NEW s \in SUBSET (1 .. n), s # {}
    PROVE  Max(s) \in s /\ \A i \in s : i <= Max(s)
  <1> DEFINE T == {n - i : i \in s}
  <1>1. T \subseteq Nat /\ T # {}
    <2>1. \A i \in s : n - i \in Nat
      OBVIOUS
    <2>2. PICK i \in s : TRUE
      OBVIOUS
    <2>3. n - i \in T
      OBVIOUS
    <2> QED BY <2>1, <2>3
  <1>2. PICK k \in T : \A j \in T : k <= j
    BY <1>1, LeastNatural
  <1>3. PICK m \in s : k = n - m
    BY <1>2
  <1>4. \A i \in s : n - m <= n - i
    BY <1>2, <1>3
  <1>5. \A i \in s : m >= i
    BY <1>4
  <1>6. Max(s) \in s /\ \A y \in s : Max(s) >= y
    BY <1>5 DEF Max
  <1> QED BY <1>6

\* The latest of the first positions.
LEMMA LatestOfFirst ==
    ASSUME NEW n \in Nat, NEW i \in 1 .. n
    PROVE  1 .. i \in SUBSET (1 .. n) /\ 1 .. i # {} /\ Max(1 .. i) = i /\ (1 .. i) \ {i} = 1 .. i - 1
  <1>1. 1 .. i \in SUBSET (1 .. n) /\ i \in 1 .. i
    OBVIOUS
  <1>2. Max(1 .. i) \in 1 .. i /\ i <= Max(1 .. i)
    BY <1>1, Latest
  <1>3. (1 .. i) \ {i} = 1 .. i - 1
    OBVIOUS
  <1> QED BY <1>1, <1>2, <1>3

\* w[i] is what is kept of the first i values.
Filters(w, S, seq, skip) ==
    /\ w \in [0 .. Len(seq) -> Seq(S)]
    /\ w[0] = << >>
    /\ \A i \in 1 .. Len(seq) :
         w[i] = IF seq[i] \in skip THEN w[i - 1] ELSE Append(w[i - 1], seq[i])

\* The recursion of Without.
Skips(f, seq, skip) ==
    f = [s \in SUBSET DOMAIN seq |->
           IF s = {} THEN << >>
           ELSE IF seq[Max(s)] \in skip THEN f[s \ {Max(s)}]
                ELSE Append(f[s \ {Max(s)}], seq[Max(s)])]

LEMMA WithoutUnfolds ==
    ASSUME NEW S, NEW seq \in Seq(S), NEW skip
    PROVE  \E w : Filters(w, S, seq, skip) /\ Without(seq, skip) = w[Len(seq)]
  <1> DEFINE n == Len(seq)
             P == DOMAIN seq
             D == Seq(S)
             take == [s \in SUBSET P |-> Max(s)]
             step == [x \in P \X D |-> IF seq[x[1]] \in skip THEN x[2] ELSE Append(x[2], seq[x[1]])]
             F == CHOOSE f : Skips(f, seq, skip)
  <1>1. n \in Nat /\ P = 1 .. n /\ IsFiniteSet(P) /\ \A i \in P : seq[i] \in S
    BY LenProperties, ElementOfSeq, FS_Interval
  <1>2. Picks(take, P) /\ \A s \in SUBSET P : take[s] = Max(s)
    BY <1>1, Latest DEF Picks
  <1>3. step \in [P \X D -> D] /\ << >> \in D
    <2>1. \A i \in P, u \in D : Append(u, seq[i]) \in D
      BY <1>1, AppendProperties
    <2> QED BY <2>1, EmptySeq
  <1>4. PICK f : IsFold(f, P, D, << >>, take, step)
    <2> HIDE DEF P, D, take, step
    <2> QED BY <1>1, <1>2, <1>3, FoldExists
  <1>5. f \in [SUBSET P -> D] /\ \A s \in SUBSET P : f[s] = Step(f, << >>, take, step, s)
    BY <1>4 DEF IsFold
  <1>6. ASSUME NEW s \in SUBSET P
        PROVE  f[s] = IF s = {} THEN << >>
                      ELSE IF seq[Max(s)] \in skip THEN f[s \ {Max(s)}]
                           ELSE Append(f[s \ {Max(s)}], seq[Max(s)])
    <2>1. CASE s = {}
      BY <1>5, <2>1 DEF Step
    <2>2. CASE s # {}
      <3>1. take[s] = Max(s) /\ Max(s) \in P /\ f[s \ {Max(s)}] \in D
        BY <1>2, <1>5, <2>2 DEF Picks
      <3>2. f[s] = step[<<Max(s), f[s \ {Max(s)}]>>]
        BY <1>5, <2>2, <3>1 DEF Step
      <3>3. <<Max(s), f[s \ {Max(s)}]>> \in P \X D
        BY <3>1
      <3> HIDE DEF D, P
      <3> QED BY <2>2, <3>2, <3>3
    <2> QED BY <2>1, <2>2
  <1>7. Skips(f, seq, skip)
    BY <1>5, <1>6 DEF Skips
  <1>8. Skips(F, seq, skip)
    BY <1>7
  <1>9. Without(seq, skip) = F[P]
    BY DEF Without, FoldLeft, MapThenFoldSet, Skips
  <1> HIDE DEF F
  <1> DEFINE T == {s \in SUBSET P : F[s] \in D}
  <1>10. \A s \in SUBSET P : s \in T
    <2>1. {} \in T
      BY <1>3, <1>8 DEF Skips
    <2>2. ASSUME NEW s \in SUBSET P, s # {} /\ s \ {take[s]} \in T PROVE s \in T
      <3>1. take[s] = Max(s) /\ Max(s) \in P
        BY <1>2, <2>2 DEF Picks
      <3>2. F[s] = IF seq[Max(s)] \in skip THEN F[s \ {Max(s)}]
                   ELSE Append(F[s \ {Max(s)}], seq[Max(s)])
        BY <1>8, <2>2 DEF Skips
      <3>3. F[s \ {Max(s)}] \in D
        BY <2>2, <3>1
      <3>4. Append(F[s \ {Max(s)}], seq[Max(s)]) \in D
        BY <1>1, <3>1, <3>3, AppendProperties
      <3> QED BY <3>2, <3>3, <3>4
    <2> HIDE DEF T, take
    <2> QED BY <1>1, <1>2, <2>1, <2>2, SubsetInduction
  <1> DEFINE w == [i \in 0 .. n |-> F[1 .. i]]
  <1>11. \A i \in 0 .. n : 1 .. i \in SUBSET P
    BY <1>1
  <1>12. w \in [0 .. n -> Seq(S)]
    BY <1>10, <1>11
  <1>13. w[0] = << >>
    <2>1. 1 .. 0 = {} /\ 0 \in 0 .. n /\ {} \in SUBSET P
      BY <1>1
    <2>2. F[{}] = << >>
      BY <1>8, <2>1 DEF Skips
    <2> QED BY <2>1, <2>2
  <1>14. ASSUME NEW i \in 1 .. n
         PROVE  w[i] = IF seq[i] \in skip THEN w[i - 1] ELSE Append(w[i - 1], seq[i])
    <2>1. 1 .. i \in SUBSET P /\ 1 .. i # {} /\ Max(1 .. i) = i /\ (1 .. i) \ {i} = 1 .. i - 1
      BY <1>1, LatestOfFirst
    <2>2. i \in 0 .. n /\ i - 1 \in 0 .. n
      BY <1>1
    <2>3. F[1 .. i] = IF seq[i] \in skip THEN F[1 .. i - 1] ELSE Append(F[1 .. i - 1], seq[i])
      <3> DEFINE s == 1 .. i
      <3>1. s \in SUBSET P /\ s # {} /\ Max(s) = i /\ s \ {i} = 1 .. i - 1
        BY <2>1
      <3> HIDE DEF s
      <3>2. F[s] = IF seq[Max(s)] \in skip THEN F[s \ {Max(s)}]
                   ELSE Append(F[s \ {Max(s)}], seq[Max(s)])
        BY <1>8, <3>1 DEF Skips
      <3>3. F[s] = IF seq[i] \in skip THEN F[1 .. i - 1] ELSE Append(F[1 .. i - 1], seq[i])
        BY <3>1, <3>2
      <3> QED BY <3>3 DEF s
    <2> QED BY <2>2, <2>3
  <1>15. Without(seq, skip) = w[n]
    BY <1>1, <1>9
  <1> HIDE DEF w
  <1>16. Filters(w, S, seq, skip)
    BY <1>12, <1>13, <1>14 DEF Filters
  <1> QED BY <1>15, <1>16

\* The recursion has one solution, whatever else is in the set that is skipped.
LEMMA FiltersAgree ==
    ASSUME NEW S, NEW seq \in Seq(S), NEW skip, NEW skip2,
           \A i \in 1 .. Len(seq) : seq[i] \in skip <=> seq[i] \in skip2,
           NEW w, Filters(w, S, seq, skip), NEW v, Filters(v, S, seq, skip2)
    PROVE  \A i \in 0 .. Len(seq) : w[i] = v[i]
  <1> DEFINE T == {i \in Nat : i <= Len(seq) => w[i] = v[i]}
  <1>0. Len(seq) \in Nat
    BY LenProperties
  <1>1. 0 \in T
    BY DEF Filters
  <1>2. ASSUME NEW i \in Nat, i \in T PROVE i + 1 \in T
    <2> SUFFICES ASSUME i + 1 <= Len(seq) PROVE w[i + 1] = v[i + 1]
      OBVIOUS
    <2>1. i + 1 \in 1 .. Len(seq) /\ (i + 1) - 1 = i /\ w[i] = v[i]
      BY <1>0, <1>2
    <2>2. /\ w[i + 1] = IF seq[i + 1] \in skip THEN w[i] ELSE Append(w[i], seq[i + 1])
          /\ v[i + 1] = IF seq[i + 1] \in skip2 THEN v[i] ELSE Append(v[i], seq[i + 1])
      BY <2>1 DEF Filters
    <2> QED BY <2>1, <2>2
  <1> HIDE DEF T
  <1>3. \A i \in Nat : i \in T
    BY <1>1, <1>2, Induction
  <1> USE DEF T
  <1> QED BY <1>0, <1>3

LEMMA WithoutIs ==
    ASSUME NEW S, NEW seq \in Seq(S), NEW skip
    PROVE  /\ Without(seq, skip) \in Seq(S)
           /\ \A w : Filters(w, S, seq, skip) => Without(seq, skip) = w[Len(seq)]
  <1>1. PICK v : Filters(v, S, seq, skip) /\ Without(seq, skip) = v[Len(seq)]
    BY WithoutUnfolds
  <1>2. Len(seq) \in 0 .. Len(seq)
    BY LenProperties
  <1>3. Without(seq, skip) \in Seq(S)
    BY <1>1, <1>2 DEF Filters
  <1>4. ASSUME NEW w, Filters(w, S, seq, skip) PROVE Without(seq, skip) = w[Len(seq)]
    <2>1. \A i \in 1 .. Len(seq) : seq[i] \in skip <=> seq[i] \in skip
      OBVIOUS
    <2>2. \A i \in 0 .. Len(seq) : v[i] = w[i]
      BY <1>1, <1>4, <2>1, FiltersAgree
    <2> QED BY <1>1, <1>2, <2>2
  <1> QED BY <1>3, <1>4

\* What is kept does not depend on what is skipped beyond the sequence.
LEMMA WithoutAgrees ==
    ASSUME NEW S, NEW seq \in Seq(S), NEW skip, NEW skip2,
           \A x \in S : x \in skip <=> x \in skip2
    PROVE  Without(seq, skip) = Without(seq, skip2)
  <1>1. PICK v : Filters(v, S, seq, skip) /\ Without(seq, skip) = v[Len(seq)]
    BY WithoutUnfolds
  <1>2. PICK w : Filters(w, S, seq, skip2) /\ Without(seq, skip2) = w[Len(seq)]
    BY WithoutUnfolds
  <1>3. Len(seq) \in 0 .. Len(seq) /\ \A i \in 1 .. Len(seq) : seq[i] \in S
    BY LenProperties, ElementOfSeq
  <1>4. \A i \in 1 .. Len(seq) : seq[i] \in skip <=> seq[i] \in skip2
    BY <1>3
  <1>5. \A i \in 0 .. Len(seq) : v[i] = w[i]
    BY <1>1, <1>2, <1>4, FiltersAgree
  <1> QED BY <1>1, <1>2, <1>3, <1>5

LEMMA WithoutEmpty ==
    ASSUME NEW skip
    PROVE  Without(<< >>, skip) = << >>
  <1>1. << >> \in Seq({}) /\ Len(<< >>) = 0
    BY EmptySeq
  <1>2. PICK v : Filters(v, {}, << >>, skip) /\ Without(<< >>, skip) = v[Len(<< >>)]
    BY <1>1, WithoutUnfolds
  <1> QED BY <1>1, <1>2 DEF Filters

LEMMA WithoutAppend ==
    ASSUME NEW S, NEW seq \in Seq(S), NEW x \in S, NEW skip
    PROVE  Without(Append(seq, x), skip)
             = IF x \in skip THEN Without(seq, skip) ELSE Append(Without(seq, skip), x)
  <1> DEFINE n == Len(seq)
             longer == Append(seq, x)
  <1>1. /\ n \in Nat /\ longer \in Seq(S) /\ Len(longer) = n + 1
        /\ longer[n + 1] = x /\ \A i \in 1 .. n : longer[i] = seq[i]
    BY LenProperties, AppendProperties
  <1> HIDE DEF n, longer
  <1>2. PICK v : Filters(v, S, longer, skip) /\ Without(longer, skip) = v[n + 1]
    BY <1>1, WithoutUnfolds
  <1> DEFINE w == [i \in 0 .. n |-> v[i]]
  <1>3. Filters(w, S, seq, skip)
    <2>1. w \in [0 .. n -> Seq(S)]
      BY <1>1, <1>2 DEF Filters
    <2>2. w[0] = << >>
      BY <1>1, <1>2 DEF Filters
    <2>3. ASSUME NEW i \in 1 .. n
          PROVE  w[i] = IF seq[i] \in skip THEN w[i - 1] ELSE Append(w[i - 1], seq[i])
      <3>1. i \in 1 .. n + 1 /\ i \in 0 .. n /\ i - 1 \in 0 .. n /\ longer[i] = seq[i]
        BY <1>1
      <3>2. v[i] = IF longer[i] \in skip THEN v[i - 1] ELSE Append(v[i - 1], longer[i])
        BY <1>1, <1>2, <3>1 DEF Filters
      <3> QED BY <3>1, <3>2
    <2> HIDE DEF w
    <2> QED BY <2>1, <2>2, <2>3 DEF Filters, n
  <1>4. Without(seq, skip) = w[n]
    <2> HIDE DEF w
    <2> QED BY <1>3, WithoutIs DEF n
  <1>5. w[n] = v[n]
    BY <1>1
  <1>6. v[n + 1] = IF x \in skip THEN v[n] ELSE Append(v[n], x)
    <2>1. n + 1 \in 1 .. n + 1 /\ (n + 1) - 1 = n
      BY <1>1
    <2> QED BY <1>1, <1>2, <2>1 DEF Filters
  <1> HIDE DEF w
  <1> QED BY <1>2, <1>4, <1>5, <1>6 DEF longer

\* Induction over sequences.
LEMMA SequenceInduction ==
    ASSUME NEW S, NEW T, << >> \in T,
           \A s \in Seq(S), x \in S : s \in T => Append(s, x) \in T
    PROVE  \A s \in Seq(S) : s \in T
  <1> DEFINE Done == {n \in Nat : \A s \in Seq(S) : Len(s) = n => s \in T}
  <1>1. 0 \in Done
    <2>1. ASSUME NEW s \in Seq(S), Len(s) = 0 PROVE s \in T
      BY <2>1, EmptySeq
    <2> QED BY <2>1
  <1>2. ASSUME NEW n \in Nat, n \in Done PROVE n + 1 \in Done
    <2>1. ASSUME NEW s \in Seq(S), Len(s) = n + 1 PROVE s \in T
      <3>1. s # << >>
        BY <2>1, EmptySeq
      <3>2. PICK u \in Seq(S), x \in S : s = Append(u, x)
        BY <3>1, SequenceEmptyOrAppend
      <3>3. Len(s) = Len(u) + 1 /\ Len(u) \in Nat
        BY <3>2, AppendProperties, LenProperties
      <3>4. u \in T
        BY <1>2, <2>1, <3>3
      <3> QED BY <3>2, <3>4
    <2> QED BY <2>1
  <1> HIDE DEF Done
  <1>3. \A n \in Nat : n \in Done
    BY <1>1, <1>2, Induction
  <1> USE DEF Done
  <1> QED BY <1>3, LenProperties

\* Appending to the second of two sequences.
LEMMA ConcatAppend ==
    ASSUME NEW S, NEW s \in Seq(S), NEW t \in Seq(S), NEW x \in S
    PROVE  s \o Append(t, x) = Append(s \o t, x)
  <1>1. <<x>> \in Seq(S) /\ s \o t \in Seq(S)
    BY ConcatProperties
  <1>2. Append(t, x) = t \o <<x>> /\ Append(s \o t, x) = (s \o t) \o <<x>>
    BY <1>1, AppendIsConcat
  <1>3. (s \o t) \o <<x>> = s \o (t \o <<x>>)
    BY <1>1, ConcatAssociative
  <1> QED BY <1>2, <1>3

LEMMA WithoutConcat ==
    ASSUME NEW S, NEW s \in Seq(S), NEW t \in Seq(S), NEW skip
    PROVE  Without(s \o t, skip) = Without(s, skip) \o Without(t, skip)
  <1> DEFINE T == {u \in Seq(S) : Without(s \o u, skip) = Without(s, skip) \o Without(u, skip)}
  <1>0. \A u \in Seq(S) : Without(u, skip) \in Seq(S)
    BY WithoutIs
  <1>1. << >> \in T
    BY <1>0, WithoutEmpty, ConcatEmptySeq, EmptySeq
  <1>2. ASSUME NEW u \in Seq(S), NEW x \in S, u \in T PROVE Append(u, x) \in T
    <2>1. s \o Append(u, x) = Append(s \o u, x) /\ s \o u \in Seq(S) /\ Append(u, x) \in Seq(S)
      BY ConcatAppend, ConcatProperties, AppendProperties
    <2>2. Without(Append(s \o u, x), skip)
            = IF x \in skip THEN Without(s \o u, skip) ELSE Append(Without(s \o u, skip), x)
      BY <2>1, WithoutAppend, ZenonT(60)
    <2>3. Without(Append(u, x), skip)
            = IF x \in skip THEN Without(u, skip) ELSE Append(Without(u, skip), x)
      BY WithoutAppend
    <2>4. Without(s, skip) \o Append(Without(u, skip), x)
            = Append(Without(s, skip) \o Without(u, skip), x)
      BY <1>0, ConcatAppend
    <2> QED BY <1>2, <2>1, <2>2, <2>3, <2>4
  <1> HIDE DEF T
  <1>3. t \in T
    BY <1>1, <1>2, SequenceInduction
  <1> QED BY <1>3 DEF T

\* Two filters in a row are one.
LEMMA WithoutTwice ==
    ASSUME NEW S, NEW seq \in Seq(S), NEW A, NEW B
    PROVE  Without(Without(seq, A), B) = Without(seq, A \cup B)
  <1> DEFINE T == {u \in Seq(S) : Without(Without(u, A), B) = Without(u, A \cup B)}
  <1>0. \A u \in Seq(S) : Without(u, A) \in Seq(S)
    BY WithoutIs
  <1>1. << >> \in T
    BY WithoutEmpty, EmptySeq
  <1>2. ASSUME NEW u \in Seq(S), NEW x \in S, u \in T PROVE Append(u, x) \in T
    <2>1. Without(Append(u, x), A) = IF x \in A THEN Without(u, A) ELSE Append(Without(u, A), x)
      BY WithoutAppend
    <2>2. Without(Append(u, x), A \cup B)
            = IF x \in A \cup B THEN Without(u, A \cup B) ELSE Append(Without(u, A \cup B), x)
      BY WithoutAppend
    <2>3. Without(Append(Without(u, A), x), B)
            = IF x \in B THEN Without(Without(u, A), B) ELSE Append(Without(Without(u, A), B), x)
      BY <1>0, WithoutAppend
    <2>4. Append(u, x) \in Seq(S)
      BY AppendProperties
    <2> QED BY <1>2, <2>1, <2>2, <2>3, <2>4
  <1> HIDE DEF T
  <1>3. seq \in T
    BY <1>1, <1>2, SequenceInduction
  <1> QED BY <1>3 DEF T

\* What is kept is not skipped.
LEMMA WithoutKeeps ==
    ASSUME NEW S, NEW seq \in Seq(S), NEW skip
    PROVE  Without(seq, skip) \in Seq(S \ skip)
  <1> DEFINE T == {u \in Seq(S) : Without(u, skip) \in Seq(S \ skip)}
  <1>1. << >> \in T
    BY WithoutEmpty, EmptySeq
  <1>2. ASSUME NEW u \in Seq(S), NEW x \in S, u \in T PROVE Append(u, x) \in T
    <2>1. Without(Append(u, x), skip)
            = IF x \in skip THEN Without(u, skip) ELSE Append(Without(u, skip), x)
      BY WithoutAppend
    <2>2. CASE x \in skip
      BY <1>2, <2>1, <2>2, AppendProperties
    <2>3. CASE x \notin skip
      <3>1. x \in S \ skip /\ Without(u, skip) \in Seq(S \ skip)
        BY <1>2, <2>3
      <3>2. Append(Without(u, skip), x) \in Seq(S \ skip)
        BY <3>1, AppendProperties
      <3> QED BY <2>1, <2>3, <3>2, AppendProperties
    <2> QED BY <2>2, <2>3
  <1> HIDE DEF T
  <1>3. seq \in T
    BY <1>1, <1>2, SequenceInduction
  <1> QED BY <1>3 DEF T

\* Nothing else is dropped.
LEMMA WithoutHolds ==
    ASSUME NEW S, NEW seq \in Seq(S), NEW skip, NEW i \in 1 .. Len(seq), seq[i] \notin skip
    PROVE  seq[i] \in Range(Without(seq, skip))
  <1> DEFINE T == {u \in Seq(S) : \A k \in 1 .. Len(u) : u[k] \notin skip => u[k] \in Range(Without(u, skip))}
  <1>1. << >> \in T
    BY EmptySeq
  <1>2. ASSUME NEW u \in Seq(S), NEW x \in S, u \in T PROVE Append(u, x) \in T
    <2> DEFINE w == Without(u, skip)
               longer == Append(u, x)
               kept == Without(longer, skip)
    <2>1. /\ longer \in Seq(S) /\ Len(u) \in Nat /\ Len(longer) = Len(u) + 1
          /\ longer[Len(u) + 1] = x /\ \A k \in 1 .. Len(u) : longer[k] = u[k]
      BY LenProperties, AppendProperties
    <2>2. kept = IF x \in skip THEN w ELSE Append(w, x)
      BY WithoutAppend
    <2>3. w \in Seq(S)
      BY WithoutIs
    <2> HIDE DEF w, longer, kept
    <2>4. Range(w) \subseteq Range(kept) /\ (x \notin skip => x \in Range(kept))
      <3>1. /\ Append(w, x) \in Seq(S) /\ Len(w) \in Nat /\ Len(Append(w, x)) = Len(w) + 1
            /\ Append(w, x)[Len(w) + 1] = x /\ \A k \in 1 .. Len(w) : Append(w, x)[k] = w[k]
        BY <2>3, LenProperties, AppendProperties
      <3>2. DOMAIN Append(w, x) = 1 .. Len(w) + 1 /\ DOMAIN w = 1 .. Len(w)
        BY <2>3, <3>1, LenProperties
      <3>3. Range(w) \subseteq Range(Append(w, x)) /\ x \in Range(Append(w, x))
        BY <3>1, <3>2 DEF Range
      <3> QED BY <2>2, <3>3
    <2>5. ASSUME NEW k \in 1 .. Len(longer), longer[k] \notin skip PROVE longer[k] \in Range(kept)
      <3>1. CASE k = Len(u) + 1
        BY <2>1, <2>4, <2>5, <3>1
      <3>2. CASE k \in 1 .. Len(u)
        BY <1>2, <2>1, <2>4, <2>5, <3>2 DEF w
      <3> QED BY <2>1, <3>1, <3>2
    <2> QED BY <2>1, <2>5 DEF longer, kept
  <1> HIDE DEF T
  <1>3. seq \in T
    BY <1>1, <1>2, SequenceInduction
  <1> QED BY <1>3 DEF T

-----------------------------------------------------------------------------
(* Concatenation of many sequences, maps and sums *)

\* The recursion of FlattenSeq.
Flattens(f, ss) ==
    f = [i \in 1 .. Len(ss) |-> IF i = 1 THEN ss[i] ELSE f[i - 1] \o ss[i]]

LEMMA FlattensAgree ==
    ASSUME NEW ss, Len(ss) \in Nat, NEW f, Flattens(f, ss), NEW g, Flattens(g, ss)
    PROVE  \A i \in 1 .. Len(ss) : f[i] = g[i]
  <1> DEFINE T == {i \in Nat : i \in 1 .. Len(ss) => f[i] = g[i]}
  <1>1. 0 \in T
    OBVIOUS
  <1>2. ASSUME NEW i \in Nat, i \in T PROVE i + 1 \in T
    <2> SUFFICES ASSUME i + 1 \in 1 .. Len(ss) PROVE f[i + 1] = g[i + 1]
      OBVIOUS
    <2>1. /\ f[i + 1] = IF i + 1 = 1 THEN ss[i + 1] ELSE f[(i + 1) - 1] \o ss[i + 1]
          /\ g[i + 1] = IF i + 1 = 1 THEN ss[i + 1] ELSE g[(i + 1) - 1] \o ss[i + 1]
      BY DEF Flattens
    <2>2. (i + 1) - 1 = i
      OBVIOUS
    <2>3. CASE i = 0
      BY <2>1, <2>3
    <2>4. CASE i # 0
      <3>1. i \in 1 .. Len(ss) /\ i + 1 # 1
        BY <2>4
      <3>2. f[i] = g[i]
        BY <1>2, <3>1
      <3> QED BY <2>1, <2>2, <3>1, <3>2
    <2> QED BY <2>3, <2>4
  <1> HIDE DEF T
  <1>3. \A i \in Nat : i \in T
    BY <1>1, <1>2, Induction
  <1> USE DEF T
  <1> QED BY <1>3

\* A recursion on a longer sequence of sequences.
LEMMA FlattensLonger ==
    ASSUME NEW S, NEW ss \in Seq(Seq(S)), NEW x \in Seq(S),
           NEW f \in [1 .. Len(ss) -> Seq(S)], Flattens(f, ss)
    PROVE  \E g \in [1 .. Len(ss) + 1 -> Seq(S)] :
             /\ Flattens(g, Append(ss, x))
             /\ g[Len(ss) + 1] = IF ss = << >> THEN x ELSE f[Len(ss)] \o x
  <1> DEFINE n == Len(ss)
             last == IF n = 0 THEN x ELSE f[n] \o x
             g == [i \in 1 .. n + 1 |-> IF i = n + 1 THEN last ELSE f[i]]
             longer == Append(ss, x)
  <1>1. /\ n \in Nat /\ Len(longer) = n + 1 /\ longer[n + 1] = x
        /\ \A i \in 1 .. n : longer[i] = ss[i]
    BY LenProperties, AppendProperties
  <1>2. n = 0 <=> ss = << >>
    BY EmptySeq
  <1>3. last \in Seq(S)
    <2>1. CASE n = 0
      BY <2>1
    <2>2. CASE n # 0
      <3>1. f[n] \in Seq(S)
        <4>1. n \in 1 .. Len(ss)
          BY <1>1, <2>2
        <4> HIDE DEF n
        <4> QED BY <4>1
      <3>2. f[n] \o x \in Seq(S)
        BY <3>1, ConcatProperties
      <3> QED BY <2>2, <3>2
    <2> QED BY <2>1, <2>2
  <1> HIDE DEF last, longer
  <1>4. g \in [1 .. n + 1 -> Seq(S)]
    BY <1>1, <1>3
  <1>5. g[n + 1] = last /\ \A i \in 1 .. n : g[i] = f[i]
    BY <1>1
  <1>6. ASSUME NEW i \in 1 .. n + 1
        PROVE  g[i] = IF i = 1 THEN longer[i] ELSE g[i - 1] \o longer[i]
    <2>1. CASE i \in 1 .. n
      <3>1. f[i] = IF i = 1 THEN ss[i] ELSE f[i - 1] \o ss[i]
        BY <2>1 DEF Flattens
      <3>2. i # 1 => i - 1 \in 1 .. n
        BY <1>1, <2>1
      <3> HIDE DEF g
      <3> QED BY <1>1, <1>5, <2>1, <3>1, <3>2
    <2>2. CASE i = n + 1
      <3>1. n # 0 => n \in 1 .. n /\ i # 1 /\ i - 1 = n
        BY <1>1, <2>2
      <3>2. n = 0 => i = 1
        BY <2>2
      <3> HIDE DEF g
      <3> QED BY <1>1, <1>5, <2>2, <3>1, <3>2 DEF last
    <2> QED BY <1>1, <2>1, <2>2
  <1>7. Flattens(g, longer)
    <2>1. DOMAIN g = 1 .. n + 1 /\ g = [i \in 1 .. n + 1 |-> g[i]]
      OBVIOUS
    <2> HIDE DEF g
    <2>2. g = [i \in 1 .. n + 1 |-> IF i = 1 THEN longer[i] ELSE g[i - 1] \o longer[i]]
      BY <1>6, <2>1
    <2> QED BY <1>1, <2>2 DEF Flattens
  <1> HIDE DEF g
  <1> QED BY <1>2, <1>4, <1>5, <1>7 DEF last, longer

LEMMA FlattenUnfolds ==
    ASSUME NEW S, NEW ss \in Seq(Seq(S))
    PROVE  \E f \in [1 .. Len(ss) -> Seq(S)] :
             Flattens(f, ss) /\ FlattenSeq(ss) = IF ss = << >> THEN << >> ELSE f[Len(ss)]
  <1> DEFINE T == {u \in Seq(Seq(S)) : \E f \in [1 .. Len(u) -> Seq(S)] : Flattens(f, u)}
  <1>1. << >> \in T
    <2>1. << >> \in Seq(Seq(S)) /\ Len(<< >>) = 0 /\ << >> \in [1 .. 0 -> Seq(S)]
      BY EmptySeq
    <2>2. Flattens(<< >>, << >>)
      BY <2>1 DEF Flattens
    <2> QED BY <2>1, <2>2
  <1>2. ASSUME NEW u \in Seq(Seq(S)), NEW x \in Seq(S), u \in T PROVE Append(u, x) \in T
    <2>1. PICK f \in [1 .. Len(u) -> Seq(S)] : Flattens(f, u)
      BY <1>2
    <2>2. PICK g \in [1 .. Len(u) + 1 -> Seq(S)] : Flattens(g, Append(u, x))
      BY <2>1, FlattensLonger
    <2>3. Append(u, x) \in Seq(Seq(S)) /\ Len(Append(u, x)) = Len(u) + 1
      BY AppendProperties
    <2> QED BY <2>2, <2>3
  <1>3. ss \in T
    <2> HIDE DEF T
    <2> QED BY <1>1, <1>2, SequenceInduction
  <1>4. PICK f \in [1 .. Len(ss) -> Seq(S)] : Flattens(f, ss)
    BY <1>3
  <1> HIDE DEF T
  <1>5. CASE ss = << >>
    <2>1. FlattenSeq(ss) = << >>
      BY <1>5, EmptySeq DEF FlattenSeq
    <2> QED BY <1>4, <1>5, <2>1
  <1>6. CASE ss # << >>
    <2> DEFINE F == CHOOSE g : Flattens(g, ss)
    <2>1. Flattens(F, ss)
      BY <1>4
    <2>2. Len(ss) \in Nat \ {0} /\ Len(ss) \in 1 .. Len(ss)
      BY <1>6, EmptySeq
    <2>3. FlattenSeq(ss) = F[Len(ss)]
      BY <2>2 DEF FlattenSeq, Flattens
    <2> HIDE DEF F
    <2>4. F[Len(ss)] = f[Len(ss)]
      <3>1. Len(ss) \in Nat /\ Flattens(f, ss) /\ Flattens(F, ss)
        BY <1>4, <2>1, <2>2
      <3>2. \A i \in 1 .. Len(ss) : F[i] = f[i]
        BY ONLY <3>1, FlattensAgree
      <3> QED BY <2>2, <3>2
    <2> QED BY <1>4, <1>6, <2>3, <2>4
  <1> QED BY <1>5, <1>6

LEMMA FlattenType ==
    ASSUME NEW S, NEW ss \in Seq(Seq(S))
    PROVE  FlattenSeq(ss) \in Seq(S)
  <1>1. PICK f \in [1 .. Len(ss) -> Seq(S)] :
             Flattens(f, ss) /\ FlattenSeq(ss) = IF ss = << >> THEN << >> ELSE f[Len(ss)]
    BY FlattenUnfolds
  <1>2. CASE ss = << >>
    BY <1>1, <1>2, EmptySeq
  <1>3. CASE ss # << >>
    <2>1. Len(ss) \in 1 .. Len(ss)
      BY <1>3, EmptySeq
    <2> QED BY <1>1, <1>3, <2>1
  <1> QED BY <1>2, <1>3

LEMMA FlattenEmpty == FlattenSeq(<< >>) = << >>
  BY EmptySeq DEF FlattenSeq

LEMMA FlattenAppend ==
    ASSUME NEW S, NEW ss \in Seq(Seq(S)), NEW x \in Seq(S)
    PROVE  FlattenSeq(Append(ss, x)) = FlattenSeq(ss) \o x
  <1> DEFINE n == Len(ss)
             longer == Append(ss, x)
  <1>1. PICK f \in [1 .. n -> Seq(S)] :
             Flattens(f, ss) /\ FlattenSeq(ss) = IF ss = << >> THEN << >> ELSE f[n]
    BY FlattenUnfolds
  <1>2. PICK g \in [1 .. n + 1 -> Seq(S)] :
             /\ Flattens(g, longer)
             /\ g[n + 1] = IF ss = << >> THEN x ELSE f[n] \o x
    BY <1>1, FlattensLonger
  <1>3. n \in Nat /\ longer \in Seq(Seq(S)) /\ Len(longer) = n + 1 /\ longer # << >>
    BY LenProperties, AppendProperties
  <1> HIDE DEF n, longer
  <1>4. PICK h : Flattens(h, longer) /\ FlattenSeq(longer) = h[n + 1]
    BY <1>3, FlattenUnfolds
  <1>5. h[n + 1] = g[n + 1]
    <2>1. n + 1 \in 1 .. n + 1
      BY <1>3
    <2>2. Len(longer) \in Nat
      BY <1>3
    <2>3. \A i \in 1 .. Len(longer) : h[i] = g[i]
      BY <1>2, <1>4, <2>2, FlattensAgree, ZenonT(60)
    <2> QED BY <1>3, <2>1, <2>3
  <1>6. << >> \o x = x
    BY ConcatEmptySeq
  <1>7. FlattenSeq(longer) = FlattenSeq(ss) \o x
    BY <1>1, <1>2, <1>4, <1>5, <1>6
  <1> QED BY <1>7 DEF longer

LEMMA FlattenConcat ==
    ASSUME NEW S, NEW s \in Seq(Seq(S)), NEW t \in Seq(Seq(S))
    PROVE  FlattenSeq(s \o t) = FlattenSeq(s) \o FlattenSeq(t)
  <1> DEFINE D == Seq(S)
             T == {u \in Seq(D) : FlattenSeq(s \o u) = FlattenSeq(s) \o FlattenSeq(u)}
  <1>0. \A u \in Seq(D) : FlattenSeq(u) \in D
    BY FlattenType
  <1>1. << >> \in T
    BY <1>0, FlattenEmpty, ConcatEmptySeq, EmptySeq
  <1>2. ASSUME NEW u \in Seq(D), NEW x \in D, u \in T PROVE Append(u, x) \in T
    <2>1. s \o Append(u, x) = Append(s \o u, x) /\ s \o u \in Seq(D) /\ Append(u, x) \in Seq(D)
      BY ConcatAppend, ConcatProperties, AppendProperties
    <2>2. FlattenSeq(Append(s \o u, x)) = FlattenSeq(s \o u) \o x
      BY <2>1, FlattenAppend
    <2>3. FlattenSeq(Append(u, x)) = FlattenSeq(u) \o x
      BY FlattenAppend
    <2>4. (FlattenSeq(s) \o FlattenSeq(u)) \o x = FlattenSeq(s) \o (FlattenSeq(u) \o x)
      BY <1>0, ConcatAssociative, SMTT(60)
    <2> QED BY <1>2, <2>1, <2>2, <2>3, <2>4
  <1> HIDE DEF T
  <1>3. t \in T
    BY <1>1, <1>2, SequenceInduction
  <1> QED BY <1>3 DEF T

\* g applied to every element.
Mapped(g, s) == [i \in DOMAIN s |-> g[s[i]]]
Maps(g, S, D) == g \in [S -> D]

LEMMA MappedType ==
    ASSUME NEW S, NEW D, NEW g, Maps(g, S, D), NEW s \in Seq(S)
    PROVE  /\ Mapped(g, s) \in Seq(D) /\ Len(Mapped(g, s)) = Len(s)
           /\ \A i \in 1 .. Len(s) : Mapped(g, s)[i] = g[s[i]]
  <1> DEFINE n == Len(s)
  <1>1. n \in Nat /\ DOMAIN s = 1 .. n /\ \A i \in 1 .. n : s[i] \in S
    BY LenProperties, ElementOfSeq
  <1> HIDE DEF n
  <1>2. Mapped(g, s) = [i \in 1 .. n |-> g[s[i]]] /\ \A i \in 1 .. n : g[s[i]] \in D
    BY <1>1 DEF Mapped, Maps
  <1>3. Mapped(g, s) \in [1 .. n -> D]
    BY <1>2
  <1>4. Mapped(g, s) \in Seq(D) /\ Len(Mapped(g, s)) = n
    BY <1>1, <1>3
  <1> QED BY <1>2, <1>4 DEF n

LEMMA MappedConcat ==
    ASSUME NEW S, NEW D, NEW g, Maps(g, S, D), NEW s \in Seq(S), NEW t \in Seq(S)
    PROVE  Mapped(g, s \o t) = Mapped(g, s) \o Mapped(g, t)
  <1> DEFINE u == s \o t
             a == Mapped(g, s)
             b == Mapped(g, t)
             c == Mapped(g, u)
  <1>1. /\ u \in Seq(S) /\ Len(u) = Len(s) + Len(t) /\ Len(s) \in Nat /\ Len(t) \in Nat
        /\ \A i \in 1 .. Len(s) + Len(t) : u[i] = IF i <= Len(s) THEN s[i] ELSE t[i - Len(s)]
    BY ConcatProperties, LenProperties
  <1> HIDE DEF u
  <1>2. /\ a \in Seq(D) /\ Len(a) = Len(s) /\ \A i \in 1 .. Len(s) : a[i] = g[s[i]]
        /\ b \in Seq(D) /\ Len(b) = Len(t) /\ \A i \in 1 .. Len(t) : b[i] = g[t[i]]
        /\ c \in Seq(D) /\ Len(c) = Len(u) /\ \A i \in 1 .. Len(u) : c[i] = g[u[i]]
    <2>1. a \in Seq(D) /\ Len(a) = Len(s) /\ \A i \in 1 .. Len(s) : a[i] = g[s[i]]
      BY MappedType
    <2>2. b \in Seq(D) /\ Len(b) = Len(t) /\ \A i \in 1 .. Len(t) : b[i] = g[t[i]]
      BY MappedType
    <2>3. c \in Seq(D) /\ Len(c) = Len(u) /\ \A i \in 1 .. Len(u) : c[i] = g[u[i]]
      <3>1. u \in Seq(S)
        BY <1>1
      <3> QED BY <3>1, MappedType
    <2> QED BY <2>1, <2>2, <2>3
  <1> HIDE DEF a, b, c
  <1>3. /\ a \o b \in Seq(D) /\ Len(a \o b) = Len(s) + Len(t)
        /\ \A i \in 1 .. Len(s) + Len(t) : (a \o b)[i] = IF i <= Len(s) THEN a[i] ELSE b[i - Len(s)]
    <2>1. a \in Seq(D) /\ b \in Seq(D)
      BY <1>2
    <2>2. /\ a \o b \in Seq(D) /\ Len(a \o b) = Len(a) + Len(b)
          /\ \A i \in 1 .. Len(a) + Len(b) : (a \o b)[i] = IF i <= Len(a) THEN a[i] ELSE b[i - Len(a)]
      BY ONLY <2>1, ConcatProperties
    <2> QED BY <1>2, <2>2
  <1>4. ASSUME NEW i \in 1 .. Len(c) PROVE c[i] = (a \o b)[i]
    <2>1. i \in 1 .. Len(s) + Len(t)
      BY <1>1, <1>2
    <2>2. CASE i <= Len(s)
      <3>1. i \in 1 .. Len(s)
        BY <1>1, <2>1, <2>2
      <3> QED BY <1>1, <1>2, <1>3, <2>1, <2>2, <3>1, SMTT(60)
    <2>3. CASE ~(i <= Len(s))
      <3>1. i - Len(s) \in 1 .. Len(t)
        BY <1>1, <2>1, <2>3
      <3>2. c[i] = g[u[i]] /\ u[i] = t[i - Len(s)] /\ (a \o b)[i] = b[i - Len(s)]
        BY <1>1, <1>2, <1>3, <2>1, <2>3
      <3>3. b[i - Len(s)] = g[t[i - Len(s)]]
        BY <1>2, <3>1
      <3> QED BY <3>2, <3>3
    <2> QED BY <2>2, <2>3
  <1>5. c = a \o b
    BY <1>1, <1>2, <1>3, <1>4, SeqEqual
  <1> QED BY <1>5 DEF a, b, c, u

\* Sums of functions that agree.
LEMMA SumsSame ==
    ASSUME NEW S, IsFiniteSet(S), NEW g, NEW h, \A x \in S : g[x] \in Int /\ g[x] = h[x]
    PROVE  SumFunctionOnSet(g, S) = SumFunctionOnSet(h, S)
  <1> DEFINE take == [s \in SUBSET S |-> Some(s)]
             T == {s \in SUBSET S : SumFunctionOnSet(g, s) = SumFunctionOnSet(h, s)}
  <1>0. \A s \in SUBSET S : IsFiniteSet(s) /\ (\A x \in s : g[x] \in Int) /\ \A x \in s : h[x] \in Int
    BY FS_Subset
  <1>1. Picks(take, S)
    BY DEF Picks, Some
  <1>2. {} \in T
    BY <1>0, SumSplits
  <1>3. ASSUME NEW s \in SUBSET S, s # {} /\ s \ {take[s]} \in T PROVE s \in T
    <2>1. take[s] \in s
      BY <1>1, <1>3 DEF Picks
    <2> HIDE DEF take
    <2>2. /\ SumFunctionOnSet(g, s) = g[take[s]] + SumFunctionOnSet(g, s \ {take[s]})
          /\ SumFunctionOnSet(h, s) = h[take[s]] + SumFunctionOnSet(h, s \ {take[s]})
      BY <1>0, <2>1, SumSplits
    <2>3. SumFunctionOnSet(g, s \ {take[s]}) = SumFunctionOnSet(h, s \ {take[s]})
      BY <1>3
    <2> QED BY <2>1, <2>2, <2>3
  <1> HIDE DEF T, take
  <1>4. S \in T
    BY <1>1, <1>2, <1>3, SubsetInduction
  <1> QED BY <1>4 DEF T

LEMMA SumEmpty == SumFunction(<< >>) = 0
  <1>1. IsFiniteSet(DOMAIN << >>) /\ DOMAIN << >> = {}
    BY FS_EmptySet
  <1>2. \A x \in {} : << >>[x] \in Int
    OBVIOUS
  <1>3. SumFunctionOnSet(<< >>, {}) = 0
    BY <1>1, <1>2, SumSplits
  <1> QED BY <1>1, <1>3 DEF SumFunction

LEMMA SumAppend ==
    ASSUME NEW s \in Seq(Int), NEW x \in Int
    PROVE  /\ SumFunction(s) \in Int /\ SumFunction(Append(s, x)) = SumFunction(s) + x
  <1> DEFINE n == Len(s)
             longer == Append(s, x)
  <1>1. /\ n \in Nat /\ DOMAIN s = 1 .. n /\ DOMAIN longer = 1 .. n + 1
        /\ longer[n + 1] = x /\ \A i \in 1 .. n : longer[i] = s[i] /\ s[i] \in Int
    BY LenProperties, AppendProperties, ElementOfSeq
  <1> HIDE DEF n, longer
  <1>2. /\ IsFiniteSet(1 .. n) /\ IsFiniteSet(1 .. n + 1) /\ (1 .. n + 1) \ {n + 1} = 1 .. n
        /\ n + 1 \in 1 .. n + 1
    <2>1. 1 \in Int /\ n \in Int /\ n + 1 \in Int
      BY <1>1
    <2>2. IsFiniteSet(1 .. n) /\ IsFiniteSet(1 .. n + 1)
      BY <2>1, FS_Interval
    <2>3. (1 .. n + 1) \ {n + 1} = 1 .. n /\ n + 1 \in 1 .. n + 1
      BY <1>1
    <2> QED BY <2>2, <2>3
  <1>3. \A i \in 1 .. n + 1 : longer[i] \in Int
    BY <1>1
  <1>4. SumFunctionOnSet(longer, 1 .. n + 1) = x + SumFunctionOnSet(longer, 1 .. n)
    BY <1>1, <1>2, <1>3, SumSplits, SMTT(60)
  <1>5. \A i \in 1 .. n : longer[i] \in Int /\ longer[i] = s[i]
    BY <1>1
  <1>6. SumFunctionOnSet(longer, 1 .. n) = SumFunctionOnSet(s, 1 .. n)
    BY <1>2, <1>5, SumsSame
  <1>7. SumFunctionOnSet(s, 1 .. n) \in Int
    BY <1>1, <1>2, SumSplits
  <1>8. SumFunction(s) = SumFunctionOnSet(s, 1 .. n) /\ SumFunction(longer) = SumFunctionOnSet(longer, 1 .. n + 1)
    BY <1>1 DEF SumFunction
  <1> QED BY <1>4, <1>6, <1>7, <1>8 DEF longer

LEMMA SumConcat ==
    ASSUME NEW s \in Seq(Int), NEW t \in Seq(Int)
    PROVE  SumFunction(s \o t) = SumFunction(s) + SumFunction(t)
  <1> DEFINE T == {u \in Seq(Int) : SumFunction(s \o u) = SumFunction(s) + SumFunction(u)}
  <1>0. \A u \in Seq(Int) : SumFunction(u) \in Int
    <2>1. 0 \in Int
      OBVIOUS
    <2> QED BY <2>1, SumAppend
  <1>1. << >> \in T
    <2>1. SumFunction(s) + 0 = SumFunction(s)
      BY <1>0
    <2>2. s \o << >> = s /\ << >> \in Seq(Int)
      BY ConcatEmptySeq, EmptySeq
    <2> QED BY <2>1, <2>2, SumEmpty
  <1>2. ASSUME NEW u \in Seq(Int), NEW x \in Int, u \in T PROVE Append(u, x) \in T
    <2>1. s \o Append(u, x) = Append(s \o u, x) /\ s \o u \in Seq(Int) /\ Append(u, x) \in Seq(Int)
      BY ConcatAppend, ConcatProperties, AppendProperties
    <2>2. SumFunction(Append(s \o u, x)) = SumFunction(s \o u) + x
      BY <2>1, SumAppend
    <2>3. SumFunction(Append(u, x)) = SumFunction(u) + x
      BY SumAppend
    <2>4. SumFunction(s \o u) = SumFunction(s) + SumFunction(u)
      BY <1>2
    <2>5. SumFunction(s \o Append(u, x)) = SumFunction(s) + SumFunction(Append(u, x))
      <3>1. SumFunction(s) \in Int /\ SumFunction(u) \in Int
        BY <1>0
      <3> QED BY <2>1, <2>2, <2>3, <2>4, <3>1
    <2> QED BY <2>1, <2>5
  <1> HIDE DEF T
  <1>3. t \in T
    BY <1>1, <1>2, SequenceInduction
  <1> QED BY <1>3 DEF T

\* The rows of all files are as many as their files hold.
LEMMA FlattenLength ==
    ASSUME NEW S, NEW ss \in Seq(Seq(S))
    PROVE  Len(FlattenSeq(ss)) = SumFunction([i \in DOMAIN ss |-> Len(ss[i])])
  <1> DEFINE D == Seq(S)
             size == [x \in D |-> Len(x)]
             T == {u \in Seq(D) : Len(FlattenSeq(u)) = SumFunction(Mapped(size, u))}
  <1>0. Maps(size, D, Int) /\ \A u \in Seq(D) : Mapped(size, u) \in Seq(Int)
    <2>1. Maps(size, D, Int)
      BY LenProperties DEF Maps
    <2> HIDE DEF size
    <2> QED BY <2>1, MappedType
  <1>1. << >> \in T
    <2>1. Mapped(size, << >>) = << >>
      BY DEF Mapped
    <2> QED BY <2>1, FlattenEmpty, SumEmpty, EmptySeq
  <1>2. ASSUME NEW u \in Seq(D), NEW x \in D, u \in T PROVE Append(u, x) \in T
    <2> DEFINE one == <<x>>
    <2>1. one \in Seq(D) /\ Append(u, x) = u \o one /\ Append(u, x) \in Seq(D)
      BY AppendIsConcat, AppendProperties
    <2>2. Mapped(size, u \o one) = Mapped(size, u) \o Mapped(size, one)
      <3>1. Maps(size, D, Int) /\ u \in Seq(D) /\ one \in Seq(D)
        BY <1>0, <2>1
      <3> HIDE DEF size, one, D
      <3> QED BY ONLY <3>1, MappedConcat
    <2>3. Mapped(size, one) = <<Len(x)>> /\ Len(x) \in Int
      BY LenProperties DEF Mapped
    <2>4. Mapped(size, u) \o <<Len(x)>> = Append(Mapped(size, u), Len(x))
      BY <1>0, <2>3, AppendIsConcat
    <2>5. SumFunction(Append(Mapped(size, u), Len(x))) = SumFunction(Mapped(size, u)) + Len(x)
      BY <1>0, <2>3, SumAppend
    <2>6. FlattenSeq(Append(u, x)) = FlattenSeq(u) \o x /\ FlattenSeq(u) \in D
      BY FlattenAppend, FlattenType
    <2>7. Len(FlattenSeq(u) \o x) = Len(FlattenSeq(u)) + Len(x)
      BY <2>6, ConcatProperties
    <2>8. Len(FlattenSeq(u)) = SumFunction(Mapped(size, u))
      BY <1>2
    <2> HIDE DEF size, one
    <2> QED BY <2>1, <2>2, <2>3, <2>4, <2>5, <2>6, <2>7, <2>8
  <1>3. ss \in T
    <2> HIDE DEF T
    <2> QED BY <1>1, <1>2, SequenceInduction
  <1>4. Mapped(size, ss) = [i \in DOMAIN ss |-> Len(ss[i])]
    <2>1. \A i \in DOMAIN ss : ss[i] \in D
      BY LenProperties, ElementOfSeq
    <2> QED BY <2>1 DEF Mapped
  <1> HIDE DEF size
  <1> QED BY <1>3, <1>4

-----------------------------------------------------------------------------
(* The rows of the logs and the cut *)

\* A whole quotient of a proper fraction.
LEMMA Quotient ==
    ASSUME NEW a \in Nat, NEW d \in Nat \ {0}
    PROVE  a \div d \in Nat /\ d * (a \div d) <= a
  OBVIOUS

LEMMA CutBounds ==
    ASSUME NEW n \in Nat
    PROVE  (n * FracNum) \div FracDen \in Nat /\ (n * FracNum) \div FracDen <= n
  <1> DEFINE a == n * FracNum
             q == a \div FracDen
  <1>1. FracNum \in Nat /\ FracDen \in Nat \ {0} /\ FracNum < FracDen
    BY PipelineAssumption
  <1>2. a \in Nat
    BY <1>1
  <1>3. q \in Nat /\ FracDen * q <= a
    <2> HIDE DEF a
    <2> QED BY <1>1, <1>2, Quotient
  <1>4. a <= n * FracDen
    BY <1>1
  <1> HIDE DEF q, a
  <1>5. FracDen * q <= n * FracDen
    BY <1>1, <1>2, <1>3, <1>4
  <1>6. q <= n
    BY <1>1, <1>3, <1>5
  <1> QED BY <1>3, <1>6 DEF q, a

\* The features of the rows, by file and up to a file.
Features == {BasicFeatures(row) : row \in Lines}
IsLogs(ls) == ls \in [1 .. NumLogs -> LogsUpTo(MaxLines)]
Parsed(ls) == [i \in DOMAIN ls |-> Parse(ls[i])]
Everything(ls) == FlattenSeq(Parsed(ls))
RowsTo(ls, k) == FlattenSeq(SubSeq(Parsed(ls), 1, k))

LEMMA ParseType ==
    ASSUME NEW log \in LogsUpTo(MaxLines)
    PROVE  Parse(log) \in Seq(Features)
  <1> DEFINE rows == Without(log, {Malformed})
             g == [row \in Lines |-> BasicFeatures(row)]
  <1>1. log \in Seq(Lines \cup {Malformed})
    <2>1. PICK k \in 0 .. MaxLines : log \in [1 .. k -> Lines \cup {Malformed}]
      BY DEF LogsUpTo
    <2>2. k \in Nat
      BY PipelineAssumption
    <2> QED BY <2>1, <2>2
  <1>2. rows \in Seq((Lines \cup {Malformed}) \ {Malformed})
    BY <1>1, WithoutKeeps
  <1>3. rows \in Seq(Lines)
    <2>1. (Lines \cup {Malformed}) \ {Malformed} \subseteq Lines
      OBVIOUS
    <2> HIDE DEF rows
    <2> QED BY <1>2, <2>1, SeqMonotonic
  <1>4. Maps(g, Lines, Features)
    BY DEF Maps, Features
  <1>5. Parse(log) = Mapped(g, rows)
    <2>1. \A i \in DOMAIN rows : rows[i] \in Lines
      <3> HIDE DEF rows
      <3> QED BY <1>3, LenProperties, ElementOfSeq
    <2> QED BY <2>1 DEF Parse, Mapped
  <1> HIDE DEF rows, g
  <1> QED BY <1>3, <1>4, <1>5, MappedType

LEMMA ParsedType ==
    ASSUME NEW ls, IsLogs(ls)
    PROVE  /\ NumLogs \in Nat \ {0} /\ DOMAIN ls = 1 .. NumLogs /\ Len(ls) = NumLogs
           /\ \A i \in 1 .. NumLogs : Parsed(ls)[i] = Parse(ls[i]) /\ Parse(ls[i]) \in Seq(Features)
           /\ Parsed(ls) \in Seq(Seq(Features)) /\ Len(Parsed(ls)) = NumLogs
           /\ Everything(ls) \in Seq(Features)
  <1>1. NumLogs \in Nat \ {0}
    BY PipelineAssumption
  <1>2. DOMAIN ls = 1 .. NumLogs /\ Len(ls) = NumLogs /\ \A i \in 1 .. NumLogs : ls[i] \in LogsUpTo(MaxLines)
    BY <1>1 DEF IsLogs
  <1>3. \A i \in 1 .. NumLogs : Parse(ls[i]) \in Seq(Features)
    BY <1>2, ParseType
  <1>4. Parsed(ls) = [i \in 1 .. NumLogs |-> Parse(ls[i])]
    BY <1>2 DEF Parsed
  <1>5. Parsed(ls) \in [1 .. NumLogs -> Seq(Features)]
    BY <1>3, <1>4
  <1>6. Parsed(ls) \in Seq(Seq(Features)) /\ Len(Parsed(ls)) = NumLogs
    BY <1>1, <1>5
  <1>7. Everything(ls) \in Seq(Features)
    BY <1>6, FlattenType DEF Everything
  <1> QED BY <1>1, <1>2, <1>3, <1>4, <1>6, <1>7

LEMMA RowsSteps ==
    ASSUME NEW ls, IsLogs(ls)
    PROVE  /\ RowsTo(ls, 0) = << >> /\ RowsTo(ls, NumLogs) = Everything(ls)
           /\ \A k \in 0 .. NumLogs : RowsTo(ls, k) \in Seq(Features)
           /\ \A k \in 1 .. NumLogs : RowsTo(ls, k) = RowsTo(ls, k - 1) \o Parse(ls[k])
  <1> DEFINE D == Seq(Features)
             p == Parsed(ls)
  <1>1. /\ NumLogs \in Nat \ {0} /\ p \in Seq(D) /\ Len(p) = NumLogs
        /\ \A i \in 1 .. NumLogs : p[i] = Parse(ls[i]) /\ p[i] \in D
    BY ParsedType
  <1> HIDE DEF p
  <1>2. RowsTo(ls, 0) = << >>
    <2>1. SubSeq(p, 1, 0) = << >>
      BY SubSeqEmpty
    <2> QED BY <2>1, FlattenEmpty DEF RowsTo, p
  <1>3. RowsTo(ls, NumLogs) = Everything(ls)
    <2>1. SubSeq(p, 1, NumLogs) = p
      BY <1>1, SubSeqFull
    <2> QED BY <2>1 DEF RowsTo, Everything, p
  <1>4. ASSUME NEW k \in 0 .. NumLogs PROVE SubSeq(p, 1, k) \in Seq(D)
    <2>1. k \in Int /\ 1 \in Int /\ \A i \in 1 .. k : p[i] \in D
      BY <1>1
    <2> HIDE DEF D
    <2> QED BY <2>1, SubSeqProperties
  <1>5. \A k \in 0 .. NumLogs : RowsTo(ls, k) \in D
    BY <1>4, FlattenType DEF RowsTo, p
  <1>6. ASSUME NEW k \in 1 .. NumLogs PROVE RowsTo(ls, k) = RowsTo(ls, k - 1) \o Parse(ls[k])
    <2> DEFINE u == SubSeq(p, 1, k - 1)
    <2>1. k - 1 \in 0 .. NumLogs /\ 1 \in 1 .. Len(p) /\ k \in 1 .. Len(p)
      BY <1>1
    <2>2. u \in Seq(D) /\ p[k] \in D /\ p[k] = Parse(ls[k])
      BY <1>1, <1>4, <2>1
    <2>3. SubSeq(p, 1, k) = u \o <<p[k]>>
      BY <1>1, <2>1, SubSeqRecursiveSecond
    <2> HIDE DEF u
    <2>4. u \o <<p[k]>> = Append(u, p[k])
      BY <2>2, AppendIsConcat
    <2>5. FlattenSeq(Append(u, p[k])) = FlattenSeq(u) \o p[k]
      BY <2>2, FlattenAppend
    <2> QED BY <2>2, <2>3, <2>4, <2>5 DEF RowsTo, p, u
  <1> QED BY <1>2, <1>3, <1>5, <1>6

\* The rows up to a file are a prefix of all rows.
LEMMA RowsPrefix ==
    ASSUME NEW ls, IsLogs(ls), NEW k \in 0 .. NumLogs
    PROVE  \E rest \in Seq(Features) : Everything(ls) = RowsTo(ls, k) \o rest
  <1> DEFINE D == Seq(Features)
             p == Parsed(ls)
             a == SubSeq(p, 1, k)
             b == SubSeq(p, k + 1, NumLogs)
  <1>1. NumLogs \in Nat \ {0} /\ p \in Seq(D) /\ Len(p) = NumLogs /\ \A i \in 1 .. NumLogs : p[i] \in D
    <2>1. \A i \in 1 .. NumLogs : p[i] = Parse(ls[i]) /\ Parse(ls[i]) \in D
      BY ParsedType
    <2> QED BY <2>1, ParsedType
  <1> HIDE DEF p
  <1>2. a \in Seq(D) /\ b \in Seq(D)
    <2>1. 1 \in Int /\ k \in Int /\ k + 1 \in Int /\ NumLogs \in Int
      BY <1>1
    <2>2. (\A i \in 1 .. k : p[i] \in D) /\ \A i \in k + 1 .. NumLogs : p[i] \in D
      BY <1>1
    <2> HIDE DEF D
    <2> QED BY <2>1, <2>2, SubSeqProperties
  <1>3. a \o b = p
    <2>1. 1 \in 1 .. Len(p) + 1 /\ k \in 1 - 1 .. Len(p) /\ NumLogs \in k .. Len(p)
      BY <1>1
    <2>2. a \o b = SubSeq(p, 1, NumLogs)
      BY <1>1, <2>1, ConcatAdjacentSubSeq
    <2> QED BY <1>1, <2>2, SubSeqFull
  <1> HIDE DEF a, b
  <1>4. FlattenSeq(p) = FlattenSeq(a) \o FlattenSeq(b) /\ FlattenSeq(b) \in D
    BY <1>2, <1>3, FlattenConcat, FlattenType
  <1> QED BY <1>4 DEF Everything, RowsTo, p, a

\* What an intermediate directory holds after pass A.
LEMMA TotalIs ==
    ASSUME NEW ls, IsLogs(ls)
    PROVE  /\ SumFunction([i \in DOMAIN ls |-> Len(Parsed(ls)[i])]) = Len(Everything(ls))
           /\ Len(Everything(ls)) \in Nat
  <1>1. Parsed(ls) \in Seq(Seq(Features)) /\ Everything(ls) \in Seq(Features)
    BY ParsedType
  <1>2. DOMAIN Parsed(ls) = DOMAIN ls
    BY DEF Parsed
  <1>3. Len(Everything(ls)) = SumFunction([i \in DOMAIN Parsed(ls) |-> Len(Parsed(ls)[i])])
    BY <1>1, FlattenLength DEF Everything
  <1> QED BY <1>1, <1>2, <1>3, LenProperties

\* What the features of a row are.
\* The tags in a text.
LEMMA TokensType ==
    ASSUME NEW T, NEW tags \in Seq(T)
    PROVE  Tokens(tags) \in Seq(T)
  <1>1. Without(tags, {EmptyTag}) \in Seq(T)
    BY WithoutIs
  <1>2. << >> \in Seq(T)
    BY EmptySeq
  <1> QED BY <1>1, <1>2 DEF Tokens

LEMMA FeatureTypes ==
    ASSUME NEW f \in Features
    PROVE  /\ f.user_tags \in Seq({"str"} \X STRING)
           /\ f.log_floor_price \in Int /\ f.slot_area \in Int /\ f.tag_count \in Int
           /\ f.region \in {"int"} \X (STRING \ {"<UNK>"}) /\ f.domain \in {"str"} \X STRING
  <1>1. PICK row \in Lines : f = BasicFeatures(row)
    BY DEF Features
  <1>2. row \in Row
    BY PipelineAssumption
  <1>3. /\ row.tags \in Seq({"str"} \X STRING) /\ row.floor \in Int
        /\ row.width \in Int /\ row.height \in Int
        /\ row.region \in {"int"} \X (STRING \ {"<UNK>"}) /\ row.domain \in {"str"} \X STRING
    BY <1>2 DEF Row
  <1>4. Tokens(row.tags) \in Seq({"str"} \X STRING)
    BY <1>3, TokensType
  <1>5. Len(Tokens(row.tags)) \in Int
    BY <1>4, LenProperties
  <1>6. Clip0(row.floor) \in Int /\ row.width * row.height \in Int
    BY <1>3 DEF Clip0
  <1>7. /\ f.user_tags = row.tags /\ f.log_floor_price = Clip0(row.floor)
        /\ f.slot_area = row.width * row.height /\ f.tag_count = Len(Tokens(row.tags))
        /\ f.region = row.region /\ f.domain = row.domain
    BY <1>1 DEF BasicFeatures
  <1> QED BY <1>3, <1>5, <1>6, <1>7

\* A column, and the column of squares, as maps.
Field(name) == [f \in Features |-> f[name]]
Square(name) == [f \in Features |-> f[name] * f[name]]
Squares(rows, name) == [i \in DOMAIN rows |-> rows[i][name] * rows[i][name]]

LEMMA ColumnIsMap ==
    ASSUME NEW rows \in Seq(Features), NEW name
    PROVE  /\ Column(rows, name) = Mapped(Field(name), rows)
           /\ Squares(rows, name) = Mapped(Square(name), rows)
  <1>1. \A i \in DOMAIN rows : rows[i] \in Features
    BY LenProperties, ElementOfSeq
  <1> QED BY <1>1 DEF Column, Squares, Mapped, Field, Square

LEMMA ColumnConcat ==
    ASSUME NEW D, NEW name, \A f \in Features : f[name] \in D,
           NEW a \in Seq(Features), NEW b \in Seq(Features)
    PROVE  /\ Column(a, name) \in Seq(D)
           /\ Column(a \o b, name) = Column(a, name) \o Column(b, name)
  <1>1. Maps(Field(name), Features, D)
    BY DEF Maps, Field
  <1>2. a \o b \in Seq(Features)
    BY ConcatProperties
  <1>3. /\ Column(a, name) = Mapped(Field(name), a) /\ Column(b, name) = Mapped(Field(name), b)
        /\ Column(a \o b, name) = Mapped(Field(name), a \o b)
    BY <1>2, ColumnIsMap
  <1>4. Mapped(Field(name), a) \in Seq(D)
    BY <1>1, MappedType
  <1>5. Mapped(Field(name), a \o b) = Mapped(Field(name), a) \o Mapped(Field(name), b)
    BY <1>1, MappedConcat
  <1> QED BY <1>3, <1>4, <1>5

LEMMA SquaresConcat ==
    ASSUME NEW name, \A f \in Features : f[name] \in Int,
           NEW a \in Seq(Features), NEW b \in Seq(Features)
    PROVE  /\ Squares(a, name) \in Seq(Int)
           /\ Squares(a \o b, name) = Squares(a, name) \o Squares(b, name)
  <1>1. Maps(Square(name), Features, Int)
    <2>1. \A f \in Features : f[name] * f[name] \in Int
      OBVIOUS
    <2> QED BY <2>1 DEF Maps, Square
  <1>2. a \o b \in Seq(Features)
    BY ConcatProperties
  <1>3. /\ Squares(a, name) = Mapped(Square(name), a) /\ Squares(b, name) = Mapped(Square(name), b)
        /\ Squares(a \o b, name) = Mapped(Square(name), a \o b)
    BY <1>2, ColumnIsMap
  <1>4. Mapped(Square(name), a) \in Seq(Int)
    BY <1>1, MappedType
  <1>5. Mapped(Square(name), a \o b) = Mapped(Square(name), a) \o Mapped(Square(name), b)
    BY <1>1, MappedConcat
  <1> QED BY <1>3, <1>4, <1>5

\* Pass B over two parts is pass B over the whole.
LEMMA SumsConcat ==
    ASSUME NEW a \in Seq(Features), NEW b \in Seq(Features)
    PROVE  AddSums(NoSums, a \o b) = AddSums(AddSums(NoSums, a), b)
  <1>1. Range(Scaled) = {"log_floor_price", "slot_area", "tag_count"}
    BY DEF Range, Scaled
  <1>2. ASSUME NEW name \in Range(Scaled)
        PROVE  AddSums(NoSums, a \o b)[name] = AddSums(AddSums(NoSums, a), b)[name]
    <2>1. \A f \in Features : f[name] \in Int
      BY <1>1, FeatureTypes
    <2> DEFINE ca == SumFunction(Column(a, name))
               cb == SumFunction(Column(b, name))
               sa == SumFunction(Squares(a, name))
               sb == SumFunction(Squares(b, name))
    <2>2. Column(a, name) \in Seq(Int) /\ Column(b, name) \in Seq(Int)
      BY <2>1, ColumnConcat
    <2>3. Squares(a, name) \in Seq(Int) /\ Squares(b, name) \in Seq(Int)
      BY <2>1, SquaresConcat
    <2>4. ca \in Int /\ cb \in Int /\ sa \in Int /\ sb \in Int
      <3>1. 0 \in Int
        OBVIOUS
      <3> QED BY <2>2, <2>3, <3>1, SumAppend
    <2>5. SumFunction(Column(a \o b, name)) = ca + cb
      <3>1. Column(a \o b, name) = Column(a, name) \o Column(b, name)
        BY <2>1, ColumnConcat
      <3> QED BY <2>2, <3>1, SumConcat
    <2>6. SumFunction(Squares(a \o b, name)) = sa + sb
      <3>1. Squares(a \o b, name) = Squares(a, name) \o Squares(b, name)
        BY <2>1, SquaresConcat
      <3> QED BY <2>3, <3>1, SumConcat
    <2>7. NoSums[name] = <<0, 0>>
      BY DEF NoSums
    <2> HIDE DEF ca, cb, sa, sb
    <2>8. AddSums(NoSums, a \o b)[name] = <<0 + (ca + cb), 0 + (sa + sb)>>
      <3>1. AddSums(NoSums, a \o b)[name]
              = <<NoSums[name][1] + SumFunction(Column(a \o b, name)),
                  NoSums[name][2] + SumFunction(Squares(a \o b, name))>>
        BY DEF AddSums, Squares
      <3> QED BY <2>5, <2>6, <2>7, <3>1
    <2>9. AddSums(NoSums, a)[name] = <<0 + ca, 0 + sa>>
      BY <2>7 DEF AddSums, Squares, ca, sa
    <2>10. AddSums(AddSums(NoSums, a), b)[name] = <<(0 + ca) + cb, (0 + sa) + sb>>
      BY <2>9 DEF AddSums, Squares, cb, sb
    <2> QED BY <2>4, <2>8, <2>10
  <1>3. /\ AddSums(NoSums, a \o b) = [name \in Range(Scaled) |-> AddSums(NoSums, a \o b)[name]]
        /\ AddSums(AddSums(NoSums, a), b)
             = [name \in Range(Scaled) |-> AddSums(AddSums(NoSums, a), b)[name]]
    BY DEF AddSums
  <1> QED BY <1>2, <1>3

Counters == Range(CatFeatures) \cup {"user_tags"}
CountedIn(rows, name) == IF name = "user_tags" THEN TagsOf(rows) ELSE Column(rows, name)
SeenIn(rows) == [name \in Counters |-> CountedIn(rows, name)]

TokensIn == [f \in Features |-> Tokens(f.user_tags)]

LEMMA TagsConcat ==
    ASSUME NEW a \in Seq(Features), NEW b \in Seq(Features)
    PROVE  /\ TagsOf(a) \in Seq({"str"} \X STRING)
           /\ TagsOf(a \o b) = TagsOf(a) \o TagsOf(b)
  <1> DEFINE Tags == {"str"} \X STRING
             D == Seq(Tags)
             x == Mapped(TokensIn, a)
             y == Mapped(TokensIn, b)
  <1>1. Maps(TokensIn, Features, D)
    <2>1. \A f \in Features : Tokens(f.user_tags) \in D
      BY FeatureTypes, TokensType
    <2> QED BY <2>1 DEF Maps, TokensIn
  <1>2. ASSUME NEW c \in Seq(Features)
        PROVE  TagsOf(c) = FlattenSeq(Mapped(TokensIn, c))
    <2>1. \A i \in DOMAIN c : c[i] \in Features
      BY LenProperties, ElementOfSeq
    <2>2. [i \in DOMAIN c |-> Tokens(c[i].user_tags)] = Mapped(TokensIn, c)
      BY <2>1 DEF Mapped, TokensIn
    <2> QED BY <2>2 DEF TagsOf
  <1>3. a \o b \in Seq(Features)
    BY ConcatProperties
  <1> HIDE DEF D
  <1>4. x \in Seq(D) /\ y \in Seq(D) /\ Mapped(TokensIn, a \o b) = x \o y
    BY <1>1, MappedType, MappedConcat
  <1>5. x \in Seq(Seq(Tags)) /\ y \in Seq(Seq(Tags))
    BY <1>4 DEF D
  <1>6. TagsOf(a) = FlattenSeq(x) /\ TagsOf(b) = FlattenSeq(y) /\ TagsOf(a \o b) = FlattenSeq(x \o y)
    BY <1>2, <1>3, <1>4
  <1> HIDE DEF x, y, Tags
  <1>7. FlattenSeq(x) \in Seq(Tags) /\ FlattenSeq(x \o y) = FlattenSeq(x) \o FlattenSeq(y)
    BY <1>5, FlattenConcat, FlattenType
  <1> QED BY <1>6, <1>7 DEF Tags

LEMMA SeenConcat ==
    ASSUME NEW a \in Seq(Features), NEW b \in Seq(Features), NEW name \in Counters
    PROVE  CountedIn(a \o b, name) = CountedIn(a, name) \o CountedIn(b, name)
  <1>2. CASE name = "user_tags"
    BY <1>2, TagsConcat DEF CountedIn
  <1>3. CASE name # "user_tags"
    <2> DEFINE D == {f[name] : f \in Features}
    <2>1. \A f \in Features : f[name] \in D
      OBVIOUS
    <2> HIDE DEF D
    <2> QED BY <1>3, <2>1, ColumnConcat DEF CountedIn
  <1> QED BY <1>2, <1>3

\* The training rows among the first n.
CutOf(ls) == (Len(Everything(ls)) * FracNum) \div FracDen
First(ls, n) == SubSeq(Everything(ls), 1, IF n < CutOf(ls) THEN n ELSE CutOf(ls))

LEMMA CutType ==
    ASSUME NEW ls, IsLogs(ls)
    PROVE  CutOf(ls) \in Nat /\ CutOf(ls) <= Len(Everything(ls)) /\ Len(Everything(ls)) \in Nat
  BY TotalIs, CutBounds DEF CutOf

\* A first part of a concatenation that reaches into the second sequence.
LEMMA PrefixOfConcat ==
    ASSUME NEW S, NEW a \in Seq(S), NEW b \in Seq(S), NEW c \in Seq(S), NEW m \in 0 .. Len(b)
    PROVE  /\ SubSeq((a \o b) \o c, 1, Len(a) + m) = a \o SubSeq(b, 1, m)
           /\ SubSeq(b, 1, m) \in Seq(S) /\ Len(SubSeq(b, 1, m)) = m
  <1> DEFINE ab == a \o b
             all == ab \o c
             part == SubSeq(b, 1, m)
             left == SubSeq(all, 1, Len(a) + m)
             right == a \o part
  <1>1. /\ Len(a) \in Nat /\ Len(b) \in Nat /\ Len(c) \in Nat /\ m \in Nat
        /\ \A i \in 1 .. Len(b) : b[i] \in S
    BY LenProperties, ElementOfSeq
  <1>2. /\ ab \in Seq(S) /\ Len(ab) = Len(a) + Len(b)
        /\ \A i \in 1 .. Len(a) + Len(b) : ab[i] = IF i <= Len(a) THEN a[i] ELSE b[i - Len(a)]
    BY ConcatProperties
  <1> HIDE DEF ab
  <1>3. /\ all \in Seq(S) /\ Len(all) = Len(ab) + Len(c)
        /\ \A i \in 1 .. Len(ab) + Len(c) : all[i] = IF i <= Len(ab) THEN ab[i] ELSE c[i - Len(ab)]
    BY <1>2, ConcatProperties
  <1> HIDE DEF all
  <1>4. \A i \in 1 .. Len(all) : all[i] \in S
    BY <1>3, ElementOfSeq
  <1>5. /\ part \in Seq(S) /\ Len(part) = m /\ \A i \in 1 .. m : part[i] = b[i]
    <2>1. 1 \in Int /\ m \in Int /\ \A i \in 1 .. m : b[i] \in S
      BY <1>1
    <2>2. /\ part \in Seq(S) /\ Len(part) = IF 1 <= m THEN m - 1 + 1 ELSE 0
          /\ \A i \in 1 .. m - 1 + 1 : part[i] = b[1 + i - 1]
      BY <2>1, SubSeqProperties
    <2> HIDE DEF part
    <2> QED BY <1>1, <2>2
  <1> HIDE DEF part
  <1>6. /\ left \in Seq(S) /\ Len(left) = Len(a) + m /\ \A i \in 1 .. Len(a) + m : left[i] = all[i]
    <2> DEFINE n == Len(a) + m
    <2>1. 1 \in Int /\ n \in Nat /\ n <= Len(all)
      BY <1>1, <1>2, <1>3
    <2>2. \A i \in 1 .. n : all[i] \in S
      BY <1>4, <2>1, <1>1, <1>2, <1>3
    <2> HIDE DEF n
    <2>3. /\ SubSeq(all, 1, n) \in Seq(S) /\ Len(SubSeq(all, 1, n)) = IF 1 <= n THEN n - 1 + 1 ELSE 0
          /\ \A i \in 1 .. n - 1 + 1 : SubSeq(all, 1, n)[i] = all[1 + i - 1]
      BY <2>1, <2>2, SubSeqProperties
    <2>4. /\ SubSeq(all, 1, n) \in Seq(S) /\ Len(SubSeq(all, 1, n)) = n
          /\ \A i \in 1 .. n : SubSeq(all, 1, n)[i] = all[i]
      BY <2>1, <2>3
    <2> QED BY <2>4 DEF n
  <1>7. /\ right \in Seq(S) /\ Len(right) = Len(a) + m
        /\ \A i \in 1 .. Len(a) + m : right[i] = IF i <= Len(a) THEN a[i] ELSE part[i - Len(a)]
    <2>1. /\ right \in Seq(S) /\ Len(right) = Len(a) + Len(part)
          /\ \A i \in 1 .. Len(a) + Len(part) : right[i] = IF i <= Len(a) THEN a[i] ELSE part[i - Len(a)]
      BY <1>5, ConcatProperties
    <2> HIDE DEF right
    <2> QED BY <1>5, <2>1
  <1> HIDE DEF left, right
  <1>8. ASSUME NEW i \in 1 .. Len(left) PROVE left[i] = right[i]
    <2>1. i \in 1 .. Len(a) + m /\ i \in 1 .. Len(a) + Len(b) /\ i <= Len(ab) /\ i \in 1 .. Len(ab) + Len(c)
      BY <1>1, <1>2, <1>6
    <2>2. left[i] = IF i <= Len(a) THEN a[i] ELSE b[i - Len(a)]
      BY <1>2, <1>3, <1>6, <2>1
    <2>3. i > Len(a) => i - Len(a) \in 1 .. m
      BY <1>1, <2>1
    <2> QED BY <1>1, <1>5, <1>7, <2>1, <2>2, <2>3
  <1>9. left = right
    BY <1>6, <1>7, <1>8, SeqEqual
  <1> QED BY <1>5, <1>9 DEF left, right, all, ab, part

\* Pass B at a file before the cut.
LEMMA FirstStep ==
    ASSUME NEW ls, IsLogs(ls), NEW k \in 1 .. NumLogs, NEW n, n = Len(RowsTo(ls, k - 1)), n < CutOf(ls),
           NEW m, m = IF n + Len(Parse(ls[k])) < CutOf(ls) THEN Len(Parse(ls[k])) ELSE CutOf(ls) - n
    PROVE  /\ First(ls, n + Len(Parse(ls[k]))) = First(ls, n) \o SubSeq(Parse(ls[k]), 1, m)
           /\ First(ls, n) \in Seq(Features) /\ SubSeq(Parse(ls[k]), 1, m) \in Seq(Features)
           /\ Len(RowsTo(ls, k)) = n + Len(Parse(ls[k])) /\ n \in Nat /\ Len(Parse(ls[k])) \in Nat
  <1> DEFINE a == RowsTo(ls, k - 1)
             b == Parse(ls[k])
             cut == CutOf(ls)
  <1>1. NumLogs \in Nat \ {0} /\ b \in Seq(Features)
    BY ParsedType
  <1>2. k - 1 \in 0 .. NumLogs /\ k \in 0 .. NumLogs
    BY <1>1
  <1>3. a \in Seq(Features) /\ RowsTo(ls, k) = a \o b
    BY <1>2, RowsSteps
  <1>4. PICK rest \in Seq(Features) : Everything(ls) = RowsTo(ls, k) \o rest
    BY <1>2, RowsPrefix
  <1>5. cut \in Nat
    BY CutType
  <1> HIDE DEF a, b, cut
  <1>6. Len(a) \in Nat /\ Len(b) \in Nat /\ Len(a \o b) = Len(a) + Len(b) /\ n = Len(a)
    BY <1>1, <1>3, LenProperties, ConcatProperties DEF a
  <1>7. m \in 0 .. Len(b) /\ (IF n + Len(b) < cut THEN n + Len(b) ELSE cut) = n + m
    BY <1>5, <1>6 DEF b, cut
  <1>8. /\ SubSeq((a \o b) \o rest, 1, Len(a) + m) = a \o SubSeq(b, 1, m)
        /\ SubSeq(b, 1, m) \in Seq(Features)
    <2>1. a \in Seq(Features) /\ b \in Seq(Features) /\ rest \in Seq(Features) /\ m \in 0 .. Len(b)
      BY <1>1, <1>3, <1>7
    <2>2. /\ SubSeq((a \o b) \o rest, 1, Len(a) + m) = a \o SubSeq(b, 1, m)
          /\ SubSeq(b, 1, m) \in Seq(Features) /\ Len(SubSeq(b, 1, m)) = m
      BY ONLY <2>1, PrefixOfConcat, SMTT(60)
    <2> QED BY ONLY <2>2
  <1>9. SubSeq((a \o b) \o rest, 1, Len(a) + 0) = a
    <2>1. 0 \in 0 .. Len(b)
      BY <1>6
    <2>2. SubSeq((a \o b) \o rest, 1, Len(a) + 0) = a \o SubSeq(b, 1, 0)
      BY <1>1, <1>3, <2>1, PrefixOfConcat
    <2>3. SubSeq(b, 1, 0) = << >>
      BY SubSeqEmpty
    <2> QED BY <1>3, <2>2, <2>3, ConcatEmptySeq
  <1>10. First(ls, n) = a
    <2>1. First(ls, n) = SubSeq((a \o b) \o rest, 1, n)
      BY <1>3, <1>4 DEF First
    <2>2. n = Len(a) + 0
      BY <1>6
    <2> QED BY <1>9, <2>1, <2>2
  <1>11. First(ls, n + Len(b)) = a \o SubSeq(b, 1, m)
    <2>1. First(ls, n + Len(b)) = SubSeq((a \o b) \o rest, 1, n + m)
      BY <1>3, <1>4, <1>7 DEF First, cut
    <2> QED BY <1>6, <1>8, <2>1
  <1>12. Len(RowsTo(ls, k)) = n + Len(b)
    BY <1>3, <1>6
  <1> QED BY <1>3, <1>6, <1>8, <1>10, <1>11, <1>12 DEF b

\* Pass C: the rows so far, encoded, and cut into train and val.
Encodings(a) == {EncodeRow(f, a) : f \in Features}
Encoded(a, rows) == [i \in DOMAIN rows |-> EncodeRow(rows[i], a)]
IsSplit(ch, a, rows, cut) ==
    /\ ch.train \in Seq(Encodings(a)) /\ ch.val \in Seq(Encodings(a))
    /\ ch.train \o ch.val = Encoded(a, rows)
    /\ Len(ch.train) = IF Len(rows) < cut THEN Len(rows) ELSE cut

LEMMA EncodedConcat ==
    ASSUME NEW a, NEW s \in Seq(Features), NEW t \in Seq(Features)
    PROVE  /\ Encoded(a, s) \in Seq(Encodings(a)) /\ Len(Encoded(a, s)) = Len(s)
           /\ Encoded(a, s \o t) = Encoded(a, s) \o Encoded(a, t)
  <1> DEFINE g == [f \in Features |-> EncodeRow(f, a)]
  <1>1. \A u \in Seq(Features) : Encoded(a, u) = Mapped(g, u)
    <2> SUFFICES ASSUME NEW u \in Seq(Features) PROVE Encoded(a, u) = Mapped(g, u)
      OBVIOUS
    <2>1. \A i \in DOMAIN u : u[i] \in Features
      BY LenProperties, ElementOfSeq
    <2> QED BY <2>1 DEF Encoded, Mapped
  <1>2. Maps(g, Features, Encodings(a))
    BY DEF Maps, Encodings
  <1> HIDE DEF g
  <1>3. s \o t \in Seq(Features)
    BY ConcatProperties
  <1>4. Mapped(g, s) \in Seq(Encodings(a)) /\ Len(Mapped(g, s)) = Len(s)
    BY <1>2, MappedType
  <1>5. Mapped(g, s \o t) = Mapped(g, s) \o Mapped(g, t)
    BY <1>2, MappedConcat
  <1> QED BY <1>1, <1>3, <1>4, <1>5

Assoc(D) == \A p, q, z \in Seq(D) : (p \o q) \o z = p \o (q \o z)

LEMMA Associates ==
    ASSUME NEW D
    PROVE  Assoc(D)
  <1> SUFFICES ASSUME NEW p \in Seq(D), NEW q \in Seq(D), NEW z \in Seq(D)
               PROVE  (p \o q) \o z = p \o (q \o z)
    BY DEF Assoc
  <1> QED BY ConcatAssociative

\* One file more keeps the order of the rows and the cut: t and v hold e, and
\* k of the rows r go to t.
SplitAt(t, v, e, r, cut, k, D) ==
    /\ t \in Seq(D) /\ v \in Seq(D) /\ e \in Seq(D) /\ r \in Seq(D) /\ cut \in Nat
    /\ t \o v = e /\ Len(t) = IF Len(e) < cut THEN Len(e) ELSE cut
    /\ k = IF Len(e) >= cut THEN 0
           ELSE IF Len(e) + Len(r) <= cut THEN Len(r) ELSE cut - Len(e)
IsSplitAt(t, v, e, r, cut, k, D) ==
    /\ t \o SubSeq(r, 1, k) \in Seq(D) /\ v \o SubSeq(r, k + 1, Len(r)) \in Seq(D)
    /\ (t \o SubSeq(r, 1, k)) \o (v \o SubSeq(r, k + 1, Len(r))) = e \o r
    /\ Len(t \o SubSeq(r, 1, k)) = IF Len(e) + Len(r) < cut THEN Len(e) + Len(r) ELSE cut

LEMMA SplitStep ==
    ASSUME NEW D, NEW t, NEW v, NEW e, NEW r, NEW cut, NEW k, SplitAt(t, v, e, r, cut, k, D)
    PROVE  IsSplitAt(t, v, e, r, cut, k, D)
  <1>0. /\ t \in Seq(D) /\ v \in Seq(D) /\ e \in Seq(D) /\ r \in Seq(D) /\ cut \in Nat
        /\ t \o v = e /\ Len(t) = IF Len(e) < cut THEN Len(e) ELSE cut
        /\ k = IF Len(e) >= cut THEN 0
               ELSE IF Len(e) + Len(r) <= cut THEN Len(r) ELSE cut - Len(e)
    BY DEF SplitAt
  <1> USE <1>0
  <1> DEFINE x == SubSeq(r, 1, k)
             y == SubSeq(r, k + 1, Len(r))
  <1>1. /\ Len(t) \in Nat /\ Len(v) \in Nat /\ Len(e) \in Nat /\ Len(r) \in Nat
        /\ Len(e) = Len(t) + Len(v) /\ \A i \in 1 .. Len(r) : r[i] \in D
    BY LenProperties, ConcatProperties, ElementOfSeq
  <1>2. k \in 0 .. Len(r) /\ k \in Nat
    BY <1>1
  <1>3. x \in Seq(D) /\ Len(x) = k
    <2>1. 1 \in Int /\ k \in Int /\ \A i \in 1 .. k : r[i] \in D
      BY <1>1, <1>2
    <2>2. x \in Seq(D) /\ Len(x) = IF 1 <= k THEN k - 1 + 1 ELSE 0
      BY <2>1, SubSeqProperties
    <2> HIDE DEF x
    <2> QED BY <1>2, <2>2
  <1>4. y \in Seq(D)
    <2>1. k + 1 \in Int /\ Len(r) \in Int /\ \A i \in k + 1 .. Len(r) : r[i] \in D
      BY <1>1, <1>2
    <2> QED BY <2>1, SubSeqProperties
  <1>5. x \o y = r
    <2>1. 1 \in 1 .. Len(r) + 1 /\ k \in 1 - 1 .. Len(r) /\ Len(r) \in k .. Len(r)
      BY <1>1, <1>2
    <2>2. x \o y = SubSeq(r, 1, Len(r))
      BY <2>1, ConcatAdjacentSubSeq
    <2> QED BY <2>2, SubSeqFull
  <1> HIDE DEF x, y
  <1>6. t \o x \in Seq(D) /\ v \o y \in Seq(D) /\ Len(t \o x) = Len(t) + k /\ x \o y \in Seq(D)
    BY <1>3, <1>4, ConcatProperties
  <1>7. (t \o x) \o (v \o y) = e \o r
    <2>1. CASE Len(e) >= cut
      <3>1. k = 0
        BY <2>1
      <3>2. x = << >>
        BY <1>3, <3>1, EmptySeq
      <3>3. t \o << >> = t /\ << >> \o y = y
        BY <1>4, ConcatEmptySeq
      <3>4. (t \o v) \o y = t \o (v \o y)
        <4>1. Assoc(D)
          BY Associates
        <4>2. t \in Seq(D) /\ v \in Seq(D) /\ y \in Seq(D)
          BY <1>4
        <4> QED BY ONLY <4>1, <4>2 DEF Assoc
      <3> QED BY ONLY <1>0, <1>5, <3>2, <3>3, <3>4
    <2>2. CASE Len(e) < cut
      <3>1. Len(v) = 0
        BY <1>1, <2>2
      <3>2. v = << >>
        BY <3>1, EmptySeq
      <3>3. << >> \o y = y /\ t \o << >> = t
        BY <1>4, ConcatEmptySeq
      <3>4. (t \o x) \o y = t \o (x \o y)
        <4>1. Assoc(D)
          BY Associates
        <4>2. t \in Seq(D) /\ x \in Seq(D) /\ y \in Seq(D)
          BY <1>3, <1>4
        <4> QED BY ONLY <4>1, <4>2 DEF Assoc
      <3> QED BY ONLY <1>0, <1>5, <3>2, <3>3, <3>4
    <2>3. Len(e) >= cut \/ Len(e) < cut
      BY <1>1
    <2> QED BY <2>1, <2>2, <2>3
  <1>8. Len(t \o x) = IF Len(e) + Len(r) < cut THEN Len(e) + Len(r) ELSE cut
    <2>1. /\ Len(t) = IF Len(e) < cut THEN Len(e) ELSE cut
          /\ k = IF Len(e) >= cut THEN 0 ELSE IF Len(e) + Len(r) <= cut THEN Len(r) ELSE cut - Len(e)
      OBVIOUS
    <2>2. Len(t \o x) = Len(t) + k
      BY <1>6
    <2>3. Len(e) \in Nat /\ Len(r) \in Nat /\ cut \in Nat
      BY <1>1
    <2> DEFINE lt == Len(t)
               le == Len(e)
               lr == Len(r)
    <2>4. /\ lt = (IF le < cut THEN le ELSE cut) /\ le \in Nat /\ lr \in Nat /\ cut \in Nat
          /\ k = IF le >= cut THEN 0 ELSE IF le + lr <= cut THEN lr ELSE cut - le
      BY <2>1, <2>3
    <2> HIDE DEF lt, le, lr
    <2>5. lt + k = IF le + lr < cut THEN le + lr ELSE cut
      BY ONLY <2>4
    <2> QED BY <2>2, <2>5 DEF lt, le, lr
  <1> QED BY <1>6, <1>7, <1>8 DEF IsSplitAt, x, y

-----------------------------------------------------------------------------
(* The inductive invariant *)

OutFiles == {"train", "val", "test", "artifacts"}
AfterEncode == OutFiles \cup {"cleanup", "done"}
AfterFit == AfterEncode \cup {"encode"}
BeforeFit == {"parse", "parseTest", "fit", "stats", "failed"}
HasInter == (AfterFit \ {"done"}) \cup {"parseTest", "fit", "stats"}

\* What pass B makes of some rows.
FittedTo(ls) ==
    LET rows == SubSeq(Everything(ls), 1, CutOf(ls))
    IN  [fitted |-> TRUE,
         encoders |-> [f \in Range(CatFeatures) |-> FitEncoder(Column(rows, f), MinCount[f])],
         tag_vocab |-> FitEncoder(TagsOf(rows), MinCount["user_tags"]),
         scalers |-> [name \in Range(Scaled) |-> <<AddSums(NoSums, rows)[name], CutOf(ls)>>]]

Typed ==
    /\ IsLogs(logs) /\ run \in Nat \ {0}
    /\ pc \in BeforeFit \cup AfterFit
    /\ DOMAIN inter = 1 .. NumLogs
    /\ out = [name \in OutFiles |-> out[name]]
    /\ \A name \in OutFiles : out[name].run \in 0 .. run

\* Where the run is: what pass A has read, and how far passes B and C are.
Placed ==
    /\ pc = "parse" => /\ at \in 1 .. NumLogs
                       /\ \A i \in 1 .. at - 1 : inter[i] = Parse(logs[i])
    /\ pc \in HasInter => inter = Parsed(logs)
    /\ pc = "parseTest" => at = 1
    /\ pc \in {"parse", "parseTest"} => seen = NoneSeen /\ sums = NoSums /\ rowsSeen = 0
    /\ pc \in {"fit", "encode"} => at \in 1 .. NumLogs /\ rowsSeen = Len(RowsTo(logs, at - 1))

\* Pass B has counted the training rows among those it has seen, and all of
\* them when it ends.
Counted ==
    /\ pc \in {"fit", "stats"} => /\ seen = SeenIn(First(logs, rowsSeen))
                                  /\ sums = AddSums(NoSums, First(logs, rowsSeen))
    /\ pc = "stats" => rowsSeen \in Nat /\ rowsSeen >= CutOf(logs)
    /\ pc \in BeforeFit => art = NoArtifacts /\ chunks = NoChunks
    /\ pc \in AfterFit => art = FittedTo(logs)

\* Pass C has cut what it has encoded into train and val.
Split ==
    /\ pc = "encode" => IsSplit(chunks, art, RowsTo(logs, at - 1), CutOf(logs))
    /\ pc \in AfterEncode => IsSplit(chunks, art, Everything(logs), CutOf(logs))

\* The files of this run, in the order they are saved.
Saved ==
    /\ pc \in {"val", "test", "artifacts", "cleanup", "done"} =>
         out["train"] = [run |-> run, data |-> chunks.train]
    /\ pc \in {"test", "artifacts", "cleanup", "done"} =>
         out["val"] = [run |-> run, data |-> chunks.val]
    /\ pc \in {"artifacts", "cleanup", "done"} => out["test"].run = run
    /\ IF pc \in {"cleanup", "done"}
       THEN out["artifacts"] = [run |-> run, data |-> art]
       ELSE out["artifacts"].run < run

PipelineInv == Typed /\ Placed /\ Counted /\ Split /\ Saved

\* After pass A the code's cut is the cut of all rows.
LEMMA CutIs ==
    ASSUME IsLogs(logs), inter = Parsed(logs)
    PROVE  Cut = CutOf(logs)
  BY TotalIs DEF Cut, Total, Files, CutOf

LEMMA FirstEmpty ==
    ASSUME NEW ls, IsLogs(ls)
    PROVE  SeenIn(First(ls, 0)) = NoneSeen /\ AddSums(NoSums, First(ls, 0)) = NoSums
  <1>1. First(ls, 0) = << >>
    <2>1. CutOf(ls) \in Nat
      BY CutType
    <2>2. (IF 0 < CutOf(ls) THEN 0 ELSE CutOf(ls)) = 0
      BY <2>1
    <2> QED BY <2>2, SubSeqEmpty DEF First
  <1>2. \A name : Column(<< >>, name) = << >> /\ Squares(<< >>, name) = << >>
    BY DEF Column, Squares
  <1>3. TagsOf(<< >>) = << >>
    BY FlattenEmpty DEF TagsOf
  <1>4. SeenIn(<< >>) = NoneSeen
    BY <1>2, <1>3 DEF SeenIn, CountedIn, NoneSeen, Counters
  <1>5. ASSUME NEW name \in Range(Scaled) PROVE AddSums(NoSums, << >>)[name] = NoSums[name]
    <2>1. AddSums(NoSums, << >>)[name]
            = <<NoSums[name][1] + SumFunction(Column(<< >>, name)),
                NoSums[name][2] + SumFunction(Squares(<< >>, name))>>
      BY DEF AddSums, Squares
    <2>2. NoSums[name] = <<0, 0>>
      BY DEF NoSums
    <2> QED BY <1>2, <2>1, <2>2, SumEmpty
  <1>6. AddSums(NoSums, << >>) = NoSums
    <2>1. /\ AddSums(NoSums, << >>) = [name \in Range(Scaled) |-> AddSums(NoSums, << >>)[name]]
          /\ NoSums = [name \in Range(Scaled) |-> NoSums[name]]
      BY DEF AddSums, NoSums
    <2> QED BY <1>5, <2>1
  <1> QED BY <1>1, <1>4, <1>6

LEMMA InvInit == Init => PipelineInv
  <1> SUFFICES ASSUME Init PROVE PipelineInv
    OBVIOUS
  <1>1. IsLogs(logs) /\ NumLogs \in Nat \ {0}
    BY PipelineAssumption DEF Init, IsLogs
  <1>2. DOMAIN logs = 1 .. NumLogs
    BY <1>1, ParsedType
  <1>3. Typed
    BY <1>1, <1>2 DEF Init, Typed, Files, OutFiles, BeforeFit, Absent
  <1>4. Placed
    BY <1>1 DEF Init, Placed, HasInter, AfterFit, AfterEncode, OutFiles
  <1>5. Counted /\ Split
    BY DEF Init, Counted, Split, AfterFit, AfterEncode, OutFiles
  <1>6. Saved
    BY DEF Init, Saved, Absent
  <1> QED BY <1>3, <1>4, <1>5, <1>6 DEF PipelineInv

LEMMA ParseFileInv == PipelineInv /\ ParseFile => PipelineInv'
  <1> SUFFICES ASSUME PipelineInv, ParseFile PROVE PipelineInv'
    OBVIOUS
  <1> USE DEF PipelineInv
  <1>0. pc = "parse" /\ IsLogs(logs) /\ at \in 1 .. NumLogs /\ DOMAIN inter = 1 .. NumLogs
    BY DEF ParseFile, Typed, Placed
  <1>1. NumLogs \in Nat \ {0} /\ DOMAIN logs = 1 .. NumLogs /\ Len(logs) = NumLogs
    BY <1>0, ParsedType
  <1>2. UNCHANGED <<logs, run, interTest, seen, sums, rowsSeen, art, chunks, out>>
    BY DEF ParseFile
  <1>3. \/ pc' = "failed" /\ UNCHANGED <<at, inter>>
        \/ /\ inter' = [inter EXCEPT ![at] = Parse(logs[at])]
           /\ at' = IF at = NumLogs THEN 1 ELSE at + 1
           /\ pc' = IF at = NumLogs THEN "parseTest" ELSE "parse"
    BY <1>1 DEF ParseFile
  <1>4. pc' \in {"failed", "parseTest", "parse"} /\ DOMAIN inter' = 1 .. NumLogs
    BY <1>0, <1>3
  <1>5. Typed'
    BY <1>2, <1>4 DEF Typed, BeforeFit
  <1>6. Placed'
    <2>1. CASE pc' = "failed"
      BY <2>1 DEF Placed, HasInter, AfterFit, AfterEncode, OutFiles
    <2>2. CASE /\ inter' = [inter EXCEPT ![at] = Parse(logs[at])]
               /\ at' = IF at = NumLogs THEN 1 ELSE at + 1
               /\ pc' = IF at = NumLogs THEN "parseTest" ELSE "parse"
      <3>1. \A i \in 1 .. at : inter'[i] = Parse(logs'[i])
        BY <1>0, <1>1, <1>2, <2>2 DEF Placed
      <3>2. seen' = NoneSeen /\ sums' = NoSums /\ rowsSeen' = 0
        BY <1>0, <1>2 DEF Placed
      <3>3. CASE at = NumLogs
        <4>1. inter' = [i \in 1 .. NumLogs |-> inter'[i]]
          BY <1>0, <2>2
        <4>2. inter' = Parsed(logs')
          BY <1>1, <1>2, <3>1, <3>3, <4>1 DEF Parsed
        <4>3. pc' = "parseTest" /\ at' = 1
          BY <2>2, <3>3
        <4> QED BY <3>2, <4>2, <4>3 DEF Placed
      <3>4. CASE at # NumLogs
        <4>1. pc' = "parse" /\ at' = at + 1 /\ at' \in 1 .. NumLogs /\ at' - 1 = at
          BY <1>0, <1>1, <2>2, <3>4
        <4> QED BY <3>1, <3>2, <4>1 DEF Placed, HasInter, AfterFit, AfterEncode, OutFiles
      <3> QED BY <3>3, <3>4
    <2> QED BY <1>3, <2>1, <2>2
  <1>7. Counted'
    <2>1. art' = NoArtifacts /\ chunks' = NoChunks
      BY <1>0, <1>2 DEF Counted, BeforeFit
    <2> QED BY <1>4, <2>1 DEF Counted, AfterFit, AfterEncode, OutFiles
  <1>8. Split'
    BY <1>4 DEF Split, AfterEncode, OutFiles
  <1>9. Saved'
    BY <1>0, <1>2, <1>4 DEF Saved
  <1> QED BY <1>5, <1>6, <1>7, <1>8, <1>9

LEMMA ParseTestInv == PipelineInv /\ ParseTest => PipelineInv'
  <1> SUFFICES ASSUME PipelineInv, ParseTest PROVE PipelineInv'
    OBVIOUS
  <1> USE DEF PipelineInv
  <1>1. /\ pc = "parseTest" /\ pc' \in {"failed", "fit"}
        /\ UNCHANGED <<logs, at, run, inter, seen, sums, rowsSeen, art, chunks, out>>
    BY DEF ParseTest
  <1>2. IsLogs(logs) /\ NumLogs \in Nat \ {0}
    BY PipelineAssumption DEF Typed
  <1>3. at = 1 /\ seen = NoneSeen /\ sums = NoSums /\ rowsSeen = 0 /\ inter = Parsed(logs)
    BY <1>1 DEF Placed, HasInter
  <1>4. Typed'
    BY <1>1 DEF Typed, BeforeFit
  <1>5. Placed'
    <2>1. RowsTo(logs, 0) = << >>
      BY <1>2, RowsSteps
    <2>2. at - 1 = 0 /\ at \in 1 .. NumLogs /\ Len(RowsTo(logs, at - 1)) = 0
      BY <1>2, <1>3, <2>1, EmptySeq
    <2> QED BY <1>1, <1>3, <2>2 DEF Placed
  <1>6. Counted'
    <2>1. seen = SeenIn(First(logs, 0)) /\ sums = AddSums(NoSums, First(logs, 0))
      BY <1>2, <1>3, FirstEmpty
    <2> QED BY <1>1, <1>3, <2>1 DEF Counted, BeforeFit, AfterFit, AfterEncode, OutFiles
  <1>7. Split'
    BY <1>1 DEF Split, AfterEncode, OutFiles
  <1>8. Saved'
    BY <1>1 DEF Saved
  <1> QED BY <1>4, <1>5, <1>6, <1>7, <1>8

\* Pass B at one file.
LEMMA FitFileInv == PipelineInv /\ FitFile => PipelineInv'
  <1> SUFFICES ASSUME PipelineInv, FitFile PROVE PipelineInv'
    OBVIOUS
  <1> USE DEF PipelineInv
  <1>1. pc = "fit" /\ UNCHANGED <<logs, run, inter, interTest, art, chunks, out>>
    BY DEF FitFile
  <1>2. IsLogs(logs) /\ inter = Parsed(logs) /\ at \in 1 .. NumLogs /\ rowsSeen = Len(RowsTo(logs, at - 1))
    BY <1>1 DEF Typed, Placed, HasInter
  <1>3. /\ NumLogs \in Nat \ {0} /\ Len(logs) = NumLogs /\ inter[at] = Parse(logs[at])
        /\ Cut = CutOf(logs) /\ CutOf(logs) \in Nat
    BY <1>2, ParsedType, CutIs, CutType
  <1>4. rowsSeen \in Nat
    <2>1. at - 1 \in 0 .. NumLogs
      BY <1>2, <1>3
    <2> QED BY <1>2, <2>1, RowsSteps, LenProperties
  <1>5. seen = SeenIn(First(logs, rowsSeen)) /\ sums = AddSums(NoSums, First(logs, rowsSeen))
    BY <1>1 DEF Counted
  <1>6. art = NoArtifacts /\ chunks = NoChunks
    BY <1>1 DEF Counted, BeforeFit
  <1>7. pc' \in {"stats", "fit"}
    BY DEF FitFile
  <1>8. Typed' /\ Split' /\ Saved'
    <2>1. Typed'
      BY <1>1, <1>7 DEF Typed, BeforeFit
    <2>2. Split'
      BY <1>7 DEF Split, AfterEncode, OutFiles
    <2>3. Saved'
      BY <1>1, <1>7 DEF Saved
    <2> QED BY <2>1, <2>2, <2>3
  <1>9. CASE rowsSeen >= Cut
    <2>1. pc' = "stats" /\ UNCHANGED <<at, seen, sums, rowsSeen>>
      BY <1>9 DEF FitFile
    <2>2. Placed'
      BY <1>1, <1>2, <2>1 DEF Placed
    <2>3. Counted'
      BY <1>1, <1>3, <1>4, <1>5, <1>6, <1>9, <2>1 DEF Counted, AfterFit, AfterEncode, OutFiles
    <2> QED BY <1>8, <2>2, <2>3
  <1>10. CASE ~(rowsSeen >= Cut)
    <2> DEFINE b == Parse(logs[at])
               n == rowsSeen
               m == IF n + Len(b) < CutOf(logs) THEN Len(b) ELSE CutOf(logs) - n
               sub == SubSeq(b, 1, m)
    <2>1. TrainPart(inter[at]) = sub
      BY <1>3 DEF TrainPart
    <2>2. /\ seen' = [name \in DOMAIN seen |-> seen[name] \o CountedIn(sub, name)]
          /\ sums' = AddSums(sums, sub)
          /\ rowsSeen' = n + Len(b) /\ at' = at + 1
          /\ pc' = IF at = NumLogs THEN "stats" ELSE "fit"
      BY <1>3, <1>10, <2>1 DEF FitFile, CountedIn
    <2>3. n < CutOf(logs)
      BY <1>3, <1>4, <1>10
    <2>4. /\ First(logs, n + Len(b)) = First(logs, n) \o sub
          /\ First(logs, n) \in Seq(Features) /\ sub \in Seq(Features)
          /\ Len(RowsTo(logs, at)) = n + Len(b) /\ Len(b) \in Nat
      BY <1>2, <2>3, FirstStep
    <2> HIDE DEF b, m, sub, n
    <2>5. seen' = SeenIn(First(logs, n + Len(b)))
      <3>1. DOMAIN seen = Counters /\ \A name \in Counters : seen[name] = CountedIn(First(logs, n), name)
        BY <1>5 DEF SeenIn, n
      <3>2. \A name \in Counters : CountedIn(First(logs, n) \o sub, name)
                                     = CountedIn(First(logs, n), name) \o CountedIn(sub, name)
        BY <2>4, SeenConcat
      <3> QED BY <2>2, <2>4, <3>1, <3>2 DEF SeenIn
    <2>6. sums' = AddSums(NoSums, First(logs, n + Len(b)))
      BY <1>5, <2>2, <2>4, SumsConcat DEF n
    <2>7. at' - 1 = at /\ rowsSeen' = Len(RowsTo(logs, at)) /\ rowsSeen' \in Nat
      BY <1>2, <1>3, <1>4, <2>2, <2>4 DEF n
    <2>8. Placed'
      <3>1. CASE at = NumLogs
        BY <1>1, <1>2, <2>2, <3>1 DEF Placed
      <3>2. CASE at # NumLogs
        <4>1. at' \in 1 .. NumLogs /\ pc' = "fit"
          BY <1>2, <1>3, <2>2, <3>2
        <4>2. rowsSeen' = Len(RowsTo(logs', at' - 1))
          BY <1>1, <2>7
        <4> QED BY <1>1, <1>2, <4>1, <4>2 DEF Placed
      <3> QED BY <3>1, <3>2
    <2>9. Counted'
      <3>1. at = NumLogs => rowsSeen' >= CutOf(logs)
        <4>1. RowsTo(logs, NumLogs) = Everything(logs) /\ CutOf(logs) <= Len(Everything(logs))
          BY <1>2, RowsSteps, CutType
        <4> QED BY <1>3, <2>7, <4>1
      <3>2. seen' = SeenIn(First(logs', rowsSeen')) /\ sums' = AddSums(NoSums, First(logs', rowsSeen'))
        BY <1>1, <2>2, <2>5, <2>6
      <3>3. pc' = "stats" => rowsSeen' >= CutOf(logs')
        BY <1>1, <2>2, <3>1
      <3>4. art' = NoArtifacts /\ chunks' = NoChunks
        BY <1>1, <1>6
      <3> QED BY <1>7, <2>7, <3>2, <3>3, <3>4 DEF Counted, AfterFit, AfterEncode, OutFiles
    <2> QED BY <1>8, <2>8, <2>9
  <1> QED BY <1>9, <1>10

LEMMA FitStatsInv == PipelineInv /\ FitStats => PipelineInv'
  <1> SUFFICES ASSUME PipelineInv, FitStats PROVE PipelineInv'
    OBVIOUS
  <1> USE DEF PipelineInv
  <1>1. pc = "stats" /\ UNCHANGED <<logs, run, inter, interTest, seen, sums, chunks, out>>
    BY DEF FitStats
  <1>2. IsLogs(logs) /\ inter = Parsed(logs)
    BY <1>1 DEF Typed, Placed, HasInter
  <1>3. NumLogs \in Nat \ {0} /\ Cut = CutOf(logs) /\ CutOf(logs) \in Nat
    BY <1>2, PipelineAssumption, CutIs, CutType
  <1>4. art = NoArtifacts /\ chunks = NoChunks
    BY <1>1 DEF Counted, BeforeFit
  <1>5. pc' \in {"failed", "encode"}
    BY DEF FitStats
  <1>6. Typed'
    BY <1>1, <1>5 DEF Typed, BeforeFit, AfterFit
  <1>7. Saved'
    BY <1>1, <1>5 DEF Saved
  <1>8. CASE Cut = 0
    <2>1. pc' = "failed" /\ UNCHANGED <<at, rowsSeen, art>>
      BY <1>8 DEF FitStats
    <2> QED BY <1>1, <1>4, <1>6, <1>7, <2>1
         DEF Placed, Counted, Split, HasInter, AfterFit, AfterEncode, OutFiles
  <1>9. CASE Cut # 0
    <2>1. pc' = "encode" /\ art' = Fitted /\ at' = 1 /\ rowsSeen' = 0
      BY <1>9 DEF FitStats
    <2>2. Fitted = FittedTo(logs)
      <3> DEFINE rows == SubSeq(Everything(logs), 1, CutOf(logs))
      <3>1. rowsSeen \in Nat /\ rowsSeen >= CutOf(logs)
        BY <1>1 DEF Counted
      <3>2. (IF rowsSeen < CutOf(logs) THEN rowsSeen ELSE CutOf(logs)) = CutOf(logs)
        BY <1>3, <3>1
      <3>3. First(logs, rowsSeen) = rows
        BY <3>2 DEF First
      <3>4. seen = SeenIn(rows) /\ sums = AddSums(NoSums, rows)
        BY <1>1, <3>3 DEF Counted
      <3> HIDE DEF rows
      <3>5. seen["user_tags"] = TagsOf(rows)
        BY <3>4 DEF SeenIn, CountedIn, Counters
      <3>6. \A f \in Range(CatFeatures) : seen[f] = Column(rows, f)
        <4>1. "user_tags" \notin Range(CatFeatures)
          BY DEF Range, CatFeatures
        <4> QED BY <3>4, <4>1 DEF SeenIn, CountedIn, Counters
      <3>7. [f \in Range(CatFeatures) |-> FitEncoder(seen[f], MinCount[f])]
              = [f \in Range(CatFeatures) |-> FitEncoder(Column(rows, f), MinCount[f])]
        BY <3>6
      <3> QED BY <1>3, <3>4, <3>5, <3>7 DEF Fitted, FittedTo, rows
    <2>3. RowsTo(logs, 0) = << >> /\ at' - 1 = 0 /\ at' \in 1 .. NumLogs
      BY <1>2, <1>3, <2>1, RowsSteps
    <2>4. Placed'
      <3>1. rowsSeen' = Len(RowsTo(logs', at' - 1))
        BY <1>1, <2>1, <2>3, EmptySeq
      <3> QED BY <1>1, <1>2, <2>1, <2>3, <3>1 DEF Placed
    <2>5. Counted'
      BY <1>1, <2>1, <2>2 DEF Counted, BeforeFit
    <2>6. Split'
      <3>1. IsSplit(NoChunks, art', << >>, CutOf(logs))
        <4>1. Encoded(art', << >>) = << >>
          BY DEF Encoded
        <4>2. << >> \in Seq(Encodings(art')) /\ Len(<< >>) = 0 /\ << >> \o << >> = << >>
          BY EmptySeq, ConcatEmptySeq
        <4>3. Len(<< >>) = IF Len(<< >>) < CutOf(logs) THEN Len(<< >>) ELSE CutOf(logs)
          BY <1>3, <4>2
        <4> QED BY <4>1, <4>2, <4>3 DEF IsSplit, NoChunks
      <3>2. IsSplit(chunks', art', RowsTo(logs', at' - 1), CutOf(logs'))
        BY <1>1, <1>4, <2>3, <3>1
      <3> QED BY <2>1, <3>2 DEF Split, AfterEncode, OutFiles
    <2> QED BY <1>6, <1>7, <2>4, <2>5, <2>6
  <1> QED BY <1>8, <1>9

\* Pass C at one file.
LEMMA EncodeFileInv == PipelineInv /\ EncodeFile => PipelineInv'
  <1> SUFFICES ASSUME PipelineInv, EncodeFile PROVE PipelineInv'
    OBVIOUS
  <1> USE DEF PipelineInv
  <1>1. pc = "encode" /\ UNCHANGED <<logs, run, inter, interTest, seen, sums, art, out>>
    BY DEF EncodeFile
  <1>2. IsLogs(logs) /\ inter = Parsed(logs) /\ at \in 1 .. NumLogs /\ rowsSeen = Len(RowsTo(logs, at - 1))
    BY <1>1 DEF Typed, Placed, HasInter, AfterFit
  <1>3. /\ NumLogs \in Nat \ {0} /\ Len(logs) = NumLogs /\ inter[at] = Parse(logs[at])
        /\ Parse(logs[at]) \in Seq(Features) /\ Cut = CutOf(logs) /\ CutOf(logs) \in Nat
    BY <1>2, ParsedType, CutIs, CutType
  <1> DEFINE D == Encodings(art)
             a == RowsTo(logs, at - 1)
             b == Parse(logs[at])
             e == Encoded(art, a)
             r == Encoded(art, b)
             cut == CutOf(logs)
             k == IF Len(e) >= cut THEN 0 ELSE IF Len(e) + Len(r) <= cut THEN Len(r) ELSE cut - Len(e)
             t == chunks.train
             v == chunks.val
  <1>4. a \in Seq(Features) /\ b \in Seq(Features) /\ RowsTo(logs, at) = a \o b
    <2>1. at - 1 \in 0 .. NumLogs
      BY <1>2, <1>3
    <2> QED BY <1>2, <1>3, <2>1, RowsSteps
  <1>5. /\ e \in Seq(D) /\ r \in Seq(D) /\ Len(e) = Len(a) /\ Len(r) = Len(b)
        /\ Encoded(art, a \o b) = e \o r
    <2> HIDE DEF a, b
    <2> QED BY <1>4, EncodedConcat
  <1>6. t \in Seq(D) /\ v \in Seq(D) /\ t \o v = e /\ Len(t) = IF Len(e) < cut THEN Len(e) ELSE cut
    BY <1>1, <1>5 DEF Split, IsSplit
  <1>7. /\ chunks' = [train |-> t \o SubSeq(r, 1, k), val |-> v \o SubSeq(r, k + 1, Len(r))]
        /\ rowsSeen' = rowsSeen + Len(b) /\ at' = at + 1
        /\ pc' = IF at = NumLogs THEN "train" ELSE "encode"
    <2>1. r = [i \in DOMAIN inter[at] |-> EncodeRow(inter[at][i], art)]
      BY <1>3 DEF Encoded
    <2>2. rowsSeen = Len(e)
      BY <1>2, <1>5
    <2> QED BY <1>3, <2>1, <2>2 DEF EncodeFile
  <1> HIDE DEF D, e, r, t, v, a, b, k, cut
  <1>8. /\ t \o SubSeq(r, 1, k) \in Seq(D) /\ v \o SubSeq(r, k + 1, Len(r)) \in Seq(D)
        /\ (t \o SubSeq(r, 1, k)) \o (v \o SubSeq(r, k + 1, Len(r))) = e \o r
        /\ Len(t \o SubSeq(r, 1, k)) = IF Len(e) + Len(r) < cut THEN Len(e) + Len(r) ELSE cut
    <2>1. SplitAt(t, v, e, r, cut, k, D)
      BY <1>3, <1>5, <1>6 DEF SplitAt, cut, k
    <2>2. IsSplitAt(t, v, e, r, cut, k, D)
      BY ONLY <2>1, SplitStep
    <2> QED BY <2>2 DEF IsSplitAt
  <1>9. Len(a \o b) = Len(a) + Len(b)
    BY <1>4, ConcatProperties
  <1>10. IsSplit(chunks', art, a \o b, cut)
    <2>1. chunks'.train = t \o SubSeq(r, 1, k) /\ chunks'.val = v \o SubSeq(r, k + 1, Len(r))
      BY <1>7
    <2>2. Len(chunks'.train) = IF Len(a \o b) < cut THEN Len(a \o b) ELSE cut
      BY <1>5, <1>8, <1>9, <2>1
    <2> QED BY <1>5, <1>8, <2>1, <2>2 DEF IsSplit, D
  <1>11. at' - 1 = at /\ (at = NumLogs => a \o b = Everything(logs))
    <2>1. RowsTo(logs, NumLogs) = Everything(logs)
      BY <1>2, RowsSteps
    <2>2. at = NumLogs => a \o b = Everything(logs)
      BY ONLY <1>4, <2>1
    <2>3. at \in Nat /\ at' = at + 1
      BY <1>2, <1>3, <1>7
    <2> QED BY ONLY <2>2, <2>3
  <1>12. Typed'
    BY <1>1, <1>7 DEF Typed, AfterFit, AfterEncode, OutFiles
  <1>13. Placed'
    <2>1. CASE at = NumLogs
      BY <1>1, <1>2, <1>7, <2>1 DEF Placed
    <2>2. CASE at # NumLogs
      <3>1. at' \in 1 .. NumLogs /\ pc' = "encode"
        BY <1>2, <1>3, <1>7, <2>2
      <3>2. rowsSeen' = Len(RowsTo(logs', at' - 1))
        BY <1>1, <1>2, <1>4, <1>7, <1>9, <1>11 DEF a
      <3> QED BY <1>1, <1>2, <3>1, <3>2 DEF Placed
    <2> QED BY <2>1, <2>2
  <1>14. Counted'
    <2>1. art = FittedTo(logs)
      BY <1>1 DEF Counted, AfterFit
    <2> QED BY <1>1, <1>7, <2>1 DEF Counted, BeforeFit
  <1>15. Split'
    <2>1. IsSplit(chunks', art', RowsTo(logs', at' - 1), CutOf(logs'))
      BY <1>1, <1>4, <1>10, <1>11 DEF cut
    <2>2. at = NumLogs => IsSplit(chunks', art', Everything(logs'), CutOf(logs'))
      BY <1>1, <1>10, <1>11 DEF cut
    <2> QED BY <1>7, <2>1, <2>2 DEF Split, AfterEncode, OutFiles
  <1>16. Saved'
    BY <1>1, <1>7 DEF Saved
  <1> QED BY <1>12, <1>13, <1>14, <1>15, <1>16

\* A file is written, and nothing else moves.
LEMMA SaveTyped ==
    ASSUME PipelineInv, NEW step \in OutFiles, NEW data, NEW next \in AfterEncode \ {"done"},
           Save(step, step, data, next)
    PROVE  /\ pc = step /\ pc' = next /\ (Typed /\ Placed /\ Counted /\ Split)'
           /\ UNCHANGED <<logs, at, run, inter, interTest, seen, sums, rowsSeen, art, chunks>>
           /\ out'[step] = [run |-> run, data |-> data]
           /\ \A name \in OutFiles \ {step} : out'[name] = out[name]
  <1> USE DEF PipelineInv
  <1>1. /\ pc = step /\ pc' = next /\ out' = [out EXCEPT ![step] = [run |-> run, data |-> data]]
        /\ UNCHANGED <<logs, at, run, inter, interTest, seen, sums, rowsSeen, art, chunks>>
    BY DEF Save
  <1>2. DOMAIN out = OutFiles /\ out' = [name \in OutFiles |-> out'[name]]
    BY <1>1 DEF Typed
  <1>3. /\ out'[step] = [run |-> run, data |-> data]
        /\ \A name \in OutFiles \ {step} : out'[name] = out[name]
    BY <1>1, <1>2
  <1>4. Typed'
    <2>1. run \in Nat \ {0} /\ \A name \in OutFiles : out[name].run \in 0 .. run
      BY DEF Typed
    <2>2. out'[step].run = run
      BY <1>3
    <2>3. \A name \in OutFiles : out'[name].run \in 0 .. run
      BY <1>3, <2>1, <2>2
    <2> QED BY <1>1, <1>2, <2>3 DEF Typed, AfterFit
  <1>5. pc \in AfterEncode /\ pc \in HasInter /\ pc' \in AfterEncode /\ pc' \in HasInter
    BY <1>1 DEF HasInter, AfterFit, AfterEncode, OutFiles
  <1>6. pc' \notin BeforeFit /\ pc' # "encode"
    BY <1>1 DEF AfterEncode, OutFiles, BeforeFit
  <1>7. Placed'
    BY <1>1, <1>5, <1>6 DEF Placed, BeforeFit
  <1>8. Counted'
    BY <1>1, <1>5, <1>6 DEF Counted, BeforeFit, AfterFit
  <1>9. Split'
    BY <1>1, <1>5, <1>6 DEF Split
  <1> QED BY <1>1, <1>3, <1>4, <1>7, <1>8, <1>9

LEMMA SavesInv == PipelineInv /\ (SaveTrain \/ SaveVal \/ SaveTest \/ SaveArtifacts) => PipelineInv'
  <1> SUFFICES ASSUME PipelineInv, SaveTrain \/ SaveVal \/ SaveTest \/ SaveArtifacts PROVE PipelineInv'
    OBVIOUS
  <1> USE DEF PipelineInv
  <1>0. \A name \in OutFiles : name \in {"train", "val", "test", "artifacts"}
    BY DEF OutFiles
  <1>1. CASE SaveTrain
    <2>1. Save("train", "train", chunks.train, "val") /\ "train" \in OutFiles /\ "val" \in AfterEncode \ {"done"}
      BY <1>1 DEF SaveTrain, OutFiles, AfterEncode
    <2>2. /\ pc = "train" /\ pc' = "val" /\ (Typed /\ Placed /\ Counted /\ Split)'
          /\ UNCHANGED <<logs, at, run, inter, interTest, seen, sums, rowsSeen, art, chunks>>
          /\ out'["train"] = [run |-> run, data |-> chunks.train]
          /\ \A name \in OutFiles \ {"train"} : out'[name] = out[name]
      BY <2>1, SaveTyped
    <2>3. Saved'
      BY <2>2 DEF Saved, OutFiles
    <2> QED BY <2>2, <2>3
  <1>2. CASE SaveVal
    <2>1. Save("val", "val", chunks.val, "test") /\ "val" \in OutFiles /\ "test" \in AfterEncode \ {"done"}
      BY <1>2 DEF SaveVal, OutFiles, AfterEncode
    <2>2. /\ pc = "val" /\ pc' = "test" /\ (Typed /\ Placed /\ Counted /\ Split)'
          /\ UNCHANGED <<logs, at, run, inter, interTest, seen, sums, rowsSeen, art, chunks>>
          /\ out'["val"] = [run |-> run, data |-> chunks.val]
          /\ \A name \in OutFiles \ {"val"} : out'[name] = out[name]
      BY <2>1, SaveTyped
    <2>3. Saved'
      BY <2>2 DEF Saved, OutFiles
    <2> QED BY <2>2, <2>3
  <1>3. CASE SaveTest
    <2> DEFINE data == [i \in DOMAIN interTest |-> EncodeRow(interTest[i], art)]
    <2>1. Save("test", "test", data, "artifacts") /\ "test" \in OutFiles /\ "artifacts" \in AfterEncode \ {"done"}
      BY <1>3 DEF SaveTest, OutFiles, AfterEncode
    <2> HIDE DEF data
    <2>2. /\ pc = "test" /\ pc' = "artifacts" /\ (Typed /\ Placed /\ Counted /\ Split)'
          /\ UNCHANGED <<logs, at, run, inter, interTest, seen, sums, rowsSeen, art, chunks>>
          /\ out'["test"] = [run |-> run, data |-> data]
          /\ \A name \in OutFiles \ {"test"} : out'[name] = out[name]
      BY <2>1, SaveTyped
    <2>3. Saved'
      BY <2>2 DEF Saved, OutFiles
    <2> QED BY <2>2, <2>3
  <1>4. CASE SaveArtifacts
    <2>1. Save("artifacts", "artifacts", art, "cleanup") /\ "artifacts" \in OutFiles
          /\ "cleanup" \in AfterEncode \ {"done"}
      BY <1>4 DEF SaveArtifacts, OutFiles, AfterEncode
    <2>2. /\ pc = "artifacts" /\ pc' = "cleanup" /\ (Typed /\ Placed /\ Counted /\ Split)'
          /\ UNCHANGED <<logs, at, run, inter, interTest, seen, sums, rowsSeen, art, chunks>>
          /\ out'["artifacts"] = [run |-> run, data |-> art]
          /\ \A name \in OutFiles \ {"artifacts"} : out'[name] = out[name]
      BY <2>1, SaveTyped
    <2>3. Saved'
      BY <2>2 DEF Saved, OutFiles
    <2> QED BY <2>2, <2>3
  <1> QED BY <1>1, <1>2, <1>3, <1>4

LEMMA CleanupInv == PipelineInv /\ Cleanup => PipelineInv'
  <1> SUFFICES ASSUME PipelineInv, Cleanup PROVE PipelineInv'
    OBVIOUS
  <1> USE DEF PipelineInv
  <1>1. /\ pc = "cleanup" /\ pc' = "done" /\ inter' = [i \in Files |-> << >>]
        /\ UNCHANGED <<logs, at, run, seen, sums, rowsSeen, art, chunks, out>>
    BY DEF Cleanup
  <1>2. DOMAIN logs = 1 .. NumLogs
    BY ParsedType DEF Typed
  <1>3. Typed'
    BY <1>1, <1>2 DEF Typed, Files, AfterFit, AfterEncode
  <1>4. Placed'
    BY <1>1 DEF Placed, HasInter, AfterFit, AfterEncode
  <1>5. Counted'
    BY <1>1 DEF Counted, BeforeFit, AfterFit, AfterEncode
  <1>6. Split'
    BY <1>1 DEF Split, AfterEncode
  <1>7. Saved'
    BY <1>1 DEF Saved
  <1> QED BY <1>3, <1>4, <1>5, <1>6, <1>7

\* What a run that dies leaves behind is older than the next run.
LEMMA RerunInv == PipelineInv /\ Rerun => PipelineInv'
  <1> SUFFICES ASSUME PipelineInv, Rerun PROVE PipelineInv'
    OBVIOUS
  <1> USE DEF PipelineInv
  <1>1. /\ pc' = "parse" /\ run' = run + 1 /\ UNCHANGED <<logs, inter>>
        /\ at' = 1 /\ seen' = NoneSeen /\ sums' = NoSums /\ rowsSeen' = 0
        /\ art' = NoArtifacts /\ chunks' = NoChunks
        /\ out' \in {out} \cup {[out EXCEPT ![name] = Absent] : name \in DOMAIN out \cap {pc}}
    BY DEF Rerun
  <1>2. /\ IsLogs(logs) /\ run \in Nat \ {0} /\ NumLogs \in Nat \ {0}
        /\ out = [name \in OutFiles |-> out[name]]
        /\ \A name \in OutFiles : out[name].run \in 0 .. run
    BY PipelineAssumption DEF Typed
  <1>3. out' = [name \in OutFiles |-> out'[name]] /\ \A name \in OutFiles : out'[name].run \in 0 .. run
    <2>1. CASE out' = out
      BY <1>2, <2>1
    <2>2. CASE out' # out
      <3>1. PICK torn \in DOMAIN out : out' = [out EXCEPT ![torn] = Absent]
        BY <1>1, <2>2
      <3>2. DOMAIN out = OutFiles /\ DOMAIN out' = OutFiles
        BY <1>2, <3>1
      <3>3. out' = [name \in OutFiles |-> out'[name]]
        BY <1>2, <3>1
      <3>4. ASSUME NEW name \in OutFiles PROVE out'[name].run \in 0 .. run
        <4>1. CASE name = torn
          <5>1. out'[name] = Absent
            BY <3>1, <3>2, <4>1
          <5> QED BY <1>2, <5>1 DEF Absent
        <4>2. CASE name # torn
          <5>1. out'[name] = out[name]
            BY <3>1, <3>2, <4>2
          <5> QED BY <1>2, <5>1
        <4> QED BY <4>1, <4>2
      <3> QED BY <3>3, <3>4
    <2> QED BY <2>1, <2>2
  <1>4. Typed'
    <2>1. run' \in Nat \ {0} /\ \A name \in OutFiles : out'[name].run \in 0 .. run'
      BY <1>1, <1>2, <1>3
    <2> QED BY <1>1, <1>3, <2>1 DEF Typed, BeforeFit
  <1>5. Placed'
    BY <1>1, <1>2 DEF Placed, HasInter, AfterFit, AfterEncode, OutFiles
  <1>6. Counted'
    BY <1>1 DEF Counted, AfterFit, AfterEncode, OutFiles
  <1>7. Split'
    BY <1>1 DEF Split, AfterEncode, OutFiles
  <1>8. Saved'
    <2>1. out'["artifacts"].run < run'
      BY <1>1, <1>2, <1>3 DEF OutFiles
    <2> QED BY <1>1, <2>1 DEF Saved
  <1> QED BY <1>4, <1>5, <1>6, <1>7, <1>8

\* The invariant of the preprocessing run holds in every reachable state.
THEOREM PreprocessingInvariant == Spec => []PipelineInv
  <1>1. Init => PipelineInv
    BY InvInit
  <1>2. PipelineInv /\ [Next]_vars => PipelineInv'
    <2> SUFFICES ASSUME PipelineInv, [Next]_vars PROVE PipelineInv'
      OBVIOUS
    <2>1. CASE UNCHANGED vars
      BY <2>1 DEF vars, PipelineInv, Typed, Placed, Counted, Split, Saved
    <2>2. CASE Stopped
      BY <2>2 DEF Stopped, vars, PipelineInv, Typed, Placed, Counted, Split, Saved
    <2> QED BY <2>1, <2>2, ParseFileInv, ParseTestInv, FitFileInv, FitStatsInv, EncodeFileInv,
               SavesInv, CleanupInv, RerunInv DEF Next
  <1> QED BY <1>1, <1>2, PTL DEF Spec

\* Once the artifacts of a run are there its data is complete and encoded with
\* exactly these artifacts, whatever an earlier run left behind (features.py
\* main): for any logs, any split and any number of runs that die.
THEOREM ArtifactsArePublishedLast == Spec => []ArtifactsComeLast
  <1>1. PipelineInv => ArtifactsComeLast
    <2> SUFFICES ASSUME PipelineInv, Published
                 PROVE  /\ \A name \in DOMAIN out : out[name].run = run
                        /\ Len(out["train"].data) = RefCut
                        /\ out["train"].data \o out["val"].data
                             = [i \in DOMAIN AllRows |-> EncodeRow(AllRows[i], Art)]
      BY DEF ArtifactsComeLast
    <2> USE DEF PipelineInv
    <2>1. AllRows = Everything(logs) /\ RefCut = CutOf(logs)
      BY DEF AllRows, Everything, Parsed, Files, RefCut, CutOf
    <2>2. pc \in {"cleanup", "done"}
      <3>1. run \in Nat
        BY DEF Typed
      <3> QED BY <3>1 DEF Published, Saved
    <2>3. /\ out["train"] = [run |-> run, data |-> chunks.train]
          /\ out["val"] = [run |-> run, data |-> chunks.val]
          /\ out["test"].run = run /\ out["artifacts"] = [run |-> run, data |-> art]
      BY <2>2 DEF Saved
    <2>4. DOMAIN out = OutFiles
      BY DEF Typed
    <2>5. IsSplit(chunks, art, Everything(logs), CutOf(logs))
      BY <2>2 DEF Split, AfterEncode
    <2>6. IsLogs(logs)
      BY DEF Typed
    <2>7. Len(chunks.train) = CutOf(logs)
      BY <2>5, <2>6, CutType DEF IsSplit
    <2>8. \A name \in DOMAIN out : out[name].run = run
      BY <2>3, <2>4 DEF OutFiles
    <2>9. Len(out["train"].data) = RefCut
      BY <2>1, <2>3, <2>7
    <2>10. out["train"].data \o out["val"].data = [i \in DOMAIN AllRows |-> EncodeRow(AllRows[i], Art)]
      <3>1. out["train"].data = chunks.train /\ out["val"].data = chunks.val /\ Art = art
        BY <2>3 DEF Art
      <3>2. chunks.train \o chunks.val = Encoded(art, AllRows)
        BY <2>1, <2>5 DEF IsSplit
      <3> QED BY <3>1, <3>2 DEF Encoded
    <2> QED BY <2>8, <2>9, <2>10
  <1> QED BY <1>1, PreprocessingInvariant, PTL

-----------------------------------------------------------------------------
(* The vocabularies *)

\* Where a value occurs, how often and first.
LEMMA Occurrences ==
    ASSUME NEW S, NEW seq \in Seq(S), NEW v \in Range(seq)
    PROVE  /\ CountOf(seq, v) \in Nat
           /\ FirstOf(seq, v) \in 1 .. Len(seq) /\ seq[FirstOf(seq, v)] = v
  <1> DEFINE n == Len(seq)
             where == {i \in 1 .. n : seq[i] = v}
  <1>1. n \in Nat /\ DOMAIN seq = 1 .. n
    BY LenProperties
  <1> HIDE DEF n
  <1>2. IsFiniteSet(where) /\ Cardinality(where) \in Nat
    <2>1. IsFiniteSet(1 .. n)
      BY <1>1, FS_Interval
    <2> QED BY <2>1, SubsetSize
  <1>3. CountOf(seq, v) \in Nat
    BY <1>1, <1>2 DEF CountOf
  <1>4. where # {} /\ where \subseteq Nat
    <2>1. PICK i \in 1 .. n : seq[i] = v
      BY <1>1 DEF Range
    <2> QED BY <2>1
  <1>5. PICK i \in where : \A j \in where : i <= j
    BY <1>4, LeastNatural
  <1>6. i \in 1 .. n /\ seq[i] = v /\ \A j \in 1 .. i - 1 : seq[j] # v
    <2>1. ASSUME NEW j \in 1 .. i - 1, seq[j] = v PROVE FALSE
      <3>1. j \in where /\ j < i
        BY <1>1, <2>1
      <3> QED BY <1>5, <3>1
    <2> QED BY <2>1
  <1>7. FirstOf(seq, v) \in 1 .. n /\ seq[FirstOf(seq, v)] = v
    BY <1>1, <1>6 DEF FirstOf
  <1> QED BY <1>3, <1>7 DEF n

\* most_common orders the values of a column, and strictly.
LEMMA BeforeOrders ==
    ASSUME NEW S, NEW seq \in Seq(S)
    PROVE  /\ \A v \in Range(seq) : ~Before(seq, v, v)
           /\ \A u, v, w \in Range(seq) : Before(seq, u, v) /\ Before(seq, v, w) => Before(seq, u, w)
           /\ \A v, w \in Range(seq) : v # w => Before(seq, v, w) \/ Before(seq, w, v)
           /\ \A v, w \in Range(seq) : Before(seq, v, w) => CountOf(seq, v) >= CountOf(seq, w)
  <1>1. \A v \in Range(seq) : /\ CountOf(seq, v) \in Nat /\ FirstOf(seq, v) \in Nat
                              /\ seq[FirstOf(seq, v)] = v
    BY Occurrences
  <1>2. \A v \in Range(seq) : ~Before(seq, v, v)
    BY <1>1 DEF Before
  <1>3. \A u, v, w \in Range(seq) : Before(seq, u, v) /\ Before(seq, v, w) => Before(seq, u, w)
    BY <1>1 DEF Before
  <1>4. ASSUME NEW v \in Range(seq), NEW w \in Range(seq), v # w
        PROVE  Before(seq, v, w) \/ Before(seq, w, v)
    <2>1. FirstOf(seq, v) # FirstOf(seq, w)
      BY <1>1, <1>4
    <2> QED BY <1>1, <2>1 DEF Before
  <1>5. \A v, w \in Range(seq) : Before(seq, v, w) => CountOf(seq, v) >= CountOf(seq, w)
    BY <1>1 DEF Before
  <1> QED BY <1>2, <1>3, <1>4, <1>5

LEMMA RangeFinite ==
    ASSUME NEW S, NEW seq \in Seq(S)
    PROVE  IsFiniteSet(Range(seq))
  <1>1. Len(seq) \in Nat /\ DOMAIN seq = 1 .. Len(seq) /\ IsFiniteSet(1 .. Len(seq))
    BY LenProperties, FS_Interval
  <1>2. seq \in Surjection(1 .. Len(seq), Range(seq))
    <2>1. seq \in [1 .. Len(seq) -> Range(seq)]
      BY LenProperties DEF Range
    <2>2. \A v \in Range(seq) : \E i \in 1 .. Len(seq) : seq[i] = v
      BY <1>1 DEF Range
    <2> QED BY <2>1, <2>2 DEF Surjection
  <1> QED BY <1>1, <1>2, FS_Surjection

\* fit_encoder numbers the frequent values without gaps, the more frequent one
\* first.
LEMMA FitEncoderRanks ==
    ASSUME NEW S, NEW seq \in Seq(S), NEW min
    PROVE  IsRanking(FitEncoder(seq, min), seq, min)
  <1> DEFINE kept == {v \in Range(seq) : CountOf(seq, v) >= min /\ v # Unknown}
             vocab == FitEncoder(seq, min)
             below(v) == {w \in kept : Before(seq, w, v)}
             n == Cardinality(kept)
             rank == [v \in kept |-> vocab[v]]
  <1>1. IsFiniteSet(kept) /\ n \in Nat
    BY RangeFinite, SubsetSize
  <1>2. /\ DOMAIN vocab = kept \cup {Unknown} /\ vocab[Unknown] = 0
        /\ \A v \in kept : vocab[v] = 1 + Cardinality(below(v))
    BY DEF FitEncoder
  <1>3. DOMAIN vocab \ {Unknown} = kept /\ kept = {v \in Range(seq) \ {Unknown} : CountOf(seq, v) >= min}
    BY <1>2
  <1>4. kept \subseteq Range(seq)
    OBVIOUS
  <1> HIDE DEF kept, vocab
  <1>5. \A v \in kept : /\ below(v) \in SUBSET kept /\ IsFiniteSet(below(v))
                        /\ Cardinality(below(v)) \in Nat
    BY <1>1, SubsetSize
  <1>6. \A v \in kept : Cardinality(below(v)) < n
    <2> SUFFICES ASSUME NEW v \in kept PROVE Cardinality(below(v)) < n
      OBVIOUS
    <2>1. v \notin below(v)
      BY <1>4, BeforeOrders
    <2>2. Cardinality(below(v)) <= n /\ (n = Cardinality(below(v)) => kept = below(v))
      BY <1>1, <1>5, FS_Subset
    <2>3. Cardinality(below(v)) # n
      BY <2>1, <2>2
    <2>4. Cardinality(below(v)) \in Nat
      BY <1>5
    <2> HIDE DEF below, n
    <2> QED BY <1>1, <2>2, <2>3, <2>4
  <1>7. ASSUME NEW v \in kept, NEW w \in kept, Before(seq, v, w)
        PROVE  Cardinality(below(v)) < Cardinality(below(w))
    <2>1. below(v) \in SUBSET below(w)
      BY <1>4, <1>7, BeforeOrders
    <2>2. v \in below(w) /\ v \notin below(v)
      BY <1>4, <1>7, BeforeOrders
    <2>3. /\ Cardinality(below(v)) <= Cardinality(below(w))
          /\ Cardinality(below(w)) = Cardinality(below(v)) => below(w) = below(v)
      BY <1>5, <2>1, FS_Subset
    <2>4. Cardinality(below(w)) # Cardinality(below(v))
      BY <2>2, <2>3
    <2>5. Cardinality(below(v)) \in Nat /\ Cardinality(below(w)) \in Nat
      BY <1>5
    <2> HIDE DEF below
    <2> QED BY <2>3, <2>4, <2>5
  <1>8. \A v \in kept : vocab[v] \in 1 .. n
    <2> SUFFICES ASSUME NEW v \in kept PROVE vocab[v] \in 1 .. n
      OBVIOUS
    <2>1. /\ vocab[v] = 1 + Cardinality(below(v)) /\ Cardinality(below(v)) \in Nat
          /\ Cardinality(below(v)) < n
      BY <1>2, <1>5, <1>6
    <2> HIDE DEF below, n
    <2> QED BY <1>1, <2>1
  <1>9. \A v, w \in kept : Before(seq, v, w) => vocab[v] < vocab[w]
    <2> SUFFICES ASSUME NEW v \in kept, NEW w \in kept, Before(seq, v, w) PROVE vocab[v] < vocab[w]
      OBVIOUS
    <2>1. Cardinality(below(v)) < Cardinality(below(w))
      BY <1>7
    <2> HIDE DEF below
    <2> QED BY <1>2, <1>5, <2>1
  <1> HIDE DEF below, n
  <1>10. rank \in Injection(kept, 1 .. n)
    <2>1. rank \in [kept -> 1 .. n]
      BY <1>8
    <2>2. ASSUME NEW v \in kept, NEW w \in kept, rank[v] = rank[w] PROVE v = w
      <3>1. vocab[v] = vocab[w] /\ vocab[v] \in 1 .. n /\ vocab[w] \in 1 .. n
        BY <1>8, <2>2
      <3>2. ~Before(seq, v, w) /\ ~Before(seq, w, v)
        BY <1>9, <3>1, <1>1
      <3> QED BY <1>4, <3>2, BeforeOrders
    <2> HIDE DEF rank
    <2> QED BY <2>1, <2>2 DEF Injection, IsInjective
  <1>11. {vocab[v] : v \in kept} = 1 .. n
    <2>1. IsFiniteSet(1 .. n) /\ Cardinality(1 .. n) = n
      BY <1>1, FS_Interval
    <2>2. rank \in Surjection(kept, 1 .. n)
      BY <1>10, <2>1, FS_Injection DEF n
    <2>3. \A i \in 1 .. n : \E v \in kept : rank[v] = i
      BY <2>2 DEF Surjection
    <2> QED BY <1>8, <2>3
  <1>12. ASSUME NEW v \in kept, NEW w \in kept, vocab[v] < vocab[w]
         PROVE  CountOf(seq, v) >= CountOf(seq, w)
    <2>1. vocab[v] \in 1 .. n /\ vocab[w] \in 1 .. n
      BY <1>8
    <2>2. ~Before(seq, w, v)
      BY <1>1, <1>9, <1>12, <2>1
    <2>3. v # w
      BY <1>1, <1>12, <2>1
    <2>4. Before(seq, v, w)
      BY <1>4, <2>2, <2>3, BeforeOrders
    <2> QED BY <1>4, <2>4, BeforeOrders
  <1>13. IsRanking(vocab, seq, min)
    BY <1>2, <1>3, <1>11, <1>12 DEF IsRanking, n
  <1> QED BY <1>13 DEF vocab

LEMMA TrainRowsType ==
    ASSUME NEW ls, IsLogs(ls)
    PROVE  SubSeq(Everything(ls), 1, CutOf(ls)) \in Seq(Features)
  <1>1. CutOf(ls) \in Nat /\ CutOf(ls) <= Len(Everything(ls)) /\ Len(Everything(ls)) \in Nat
    BY CutType
  <1>2. \A i \in 1 .. Len(Everything(ls)) : Everything(ls)[i] \in Features
    BY ParsedType, ElementOfSeq
  <1>3. 1 \in Int /\ CutOf(ls) \in Int /\ \A i \in 1 .. CutOf(ls) : Everything(ls)[i] \in Features
    BY <1>1, <1>2
  <1> QED BY <1>3, SubSeqProperties

\* The columns that are counted.
LEMMA TrainColumns ==
    ASSUME NEW rows \in Seq(Features)
    PROVE  /\ Column(rows, "region") \in Seq({"int"} \X (STRING \ {"<UNK>"}))
           /\ Column(rows, "domain") \in Seq({"str"} \X STRING)
           /\ TagsOf(rows) \in Seq({"str"} \X STRING)
  <1> DEFINE A == {"int"} \X (STRING \ {"<UNK>"})
             B == {"str"} \X STRING
  <1>1. /\ \A f \in Features : f["region"] \in A
        /\ \A f \in Features : f["domain"] \in B
    BY FeatureTypes
  <1>2. TagsOf(rows) \in Seq(B)
    BY TagsConcat
  <1> HIDE DEF A, B
  <1>3. Column(rows, "region") \in Seq(A) /\ Column(rows, "domain") \in Seq(B)
    BY <1>1, ColumnConcat
  <1> QED BY <1>2, <1>3 DEF A, B

\* Vocabularies and scalers are those of the training rows alone, ranked
\* without gaps (features.py passes B and fit_encoder): for any logs.
THEOREM NoLeakage == Spec => []FittedOnTrainingRowsOnly
  <1>1. PipelineInv => FittedOnTrainingRowsOnly
    <2> SUFFICES ASSUME PipelineInv, art.fitted PROVE FittedOnTrainingRowsOnly
      BY DEF FittedOnTrainingRowsOnly
    <2> USE DEF PipelineInv
    <2> DEFINE rows == SubSeq(Everything(logs), 1, CutOf(logs))
               tags == TagsOf(rows)
    <2>1. IsLogs(logs)
      BY DEF Typed
    <2>2. TrainRows = rows /\ RefCut = CutOf(logs)
      BY DEF TrainRows, AllRows, Everything, Parsed, Files, RefCut, CutOf
    <2>3. rows \in Seq(Features)
      BY <2>1, TrainRowsType
    <2>4. art = FittedTo(logs)
      BY DEF Counted, Typed, NoArtifacts
    <2>5. /\ art.encoders = [f \in Range(CatFeatures) |-> FitEncoder(Column(rows, f), MinCount[f])]
          /\ art.tag_vocab = FitEncoder(tags, MinCount["user_tags"])
          /\ art.scalers = [name \in Range(Scaled) |-> <<AddSums(NoSums, rows)[name], CutOf(logs)>>]
      BY <2>4 DEF FittedTo
    <2>6. Range(CatFeatures) = {"region", "domain"}
      BY DEF Range, CatFeatures
    <2> HIDE DEF rows
    <2>7. ASSUME NEW f \in Range(CatFeatures)
          PROVE  IsRanking(art.encoders[f], Column(rows, f), MinCount[f])
      <3>1. art.encoders[f] = FitEncoder(Column(rows, f), MinCount[f])
        BY <2>5
      <3>2. IsRanking(FitEncoder(Column(rows, f), MinCount[f]), Column(rows, f), MinCount[f])
        BY <2>3, <2>6, TrainColumns, FitEncoderRanks
      <3> QED BY <3>1, <3>2
    <2>8. IsRanking(art.tag_vocab, tags, MinCount["user_tags"])
      <3>1. IsRanking(FitEncoder(tags, MinCount["user_tags"]), tags, MinCount["user_tags"])
        BY <2>3, TrainColumns, FitEncoderRanks
      <3> QED BY <2>5, <3>1
    <2> QED BY <2>2, <2>5, <2>7, <2>8 DEF FittedOnTrainingRowsOnly
  <1> QED BY <1>1, PreprocessingInvariant, PTL

-----------------------------------------------------------------------------
(* The calendar of the bidder *)

Months == <<0, 3, 2, 5, 0, 3, 5, 1, 4, 6, 2, 4>>
Weeks == <<0, 4, 8, 12, 17, 21, 25, 30, 34, 38, 43, 47>>
One(b) == IF b THEN 1 ELSE 0

\* The table of the bidder and the days before a month differ by whole weeks,
\* and by the day that the year is counted later from March on.
LEMMA MonthTables ==
    ASSUME NEW m \in 1 .. 12
    PROVE  /\ DaysBefore[m] = Months[m] + One(m > 2) + 7 * Weeks[m]
           /\ Months[m] \in Int /\ Weeks[m] \in Int
  <1>1. m \in {1, 2, 3, 4, 5, 6, 7, 8, 9, 10, 11, 12}
    OBVIOUS
  <1> QED BY <1>1 DEF DaysBefore, Months, Weeks, One

LEMMA WholeWeeks ==
    ASSUME NEW a \in Int, NEW k \in Int
    PROVE  (a + 7 * k) % 7 = a % 7
  OBVIOUS

\* What one year more adds to the leap days.
LEMMA LeapDays ==
    ASSUME NEW y \in Nat \ {0}
    PROVE  y \div 4 - y \div 100 + y \div 400
             = (y - 1) \div 4 - (y - 1) \div 100 + (y - 1) \div 400 + One(IsLeap(y))
  <1>1. y \div 4 = (y - 1) \div 4 + One(y % 4 = 0)
    BY DEF One
  <1>2. y \div 100 = (y - 1) \div 100 + One(y % 100 = 0)
    BY DEF One
  <1>3. y \div 400 = (y - 1) \div 400 + One(y % 400 = 0)
    BY DEF One
  <1>4. (y % 100 = 0 => y % 4 = 0) /\ (y % 400 = 0 => y % 100 = 0)
    OBVIOUS
  <1>5. One(IsLeap(y)) = One(y % 4 = 0) - One(y % 100 = 0) + One(y % 400 = 0)
    BY <1>4 DEF One, IsLeap
  <1>6. /\ (y - 1) \div 4 \in Int /\ (y - 1) \div 100 \in Int /\ (y - 1) \div 400 \in Int
        /\ One(y % 4 = 0) \in Int /\ One(y % 100 = 0) \in Int /\ One(y % 400 = 0) \in Int
    BY DEF One
  <1> QED BY <1>1, <1>2, <1>3, <1>5, <1>6

LEMMA SameWeekday ==
    ASSUME NEW d \in (Nat \ {0}) \X (1 .. 12) \X (1 .. 31)
    PROVE  Sakamoto(d) = Weekday(d)
  <1> DEFINE y == d[1]
             m == d[2]
             Y == y - 1
             L == Y \div 4 - Y \div 100 + Y \div 400
  <1>1. y \in Nat \ {0} /\ m \in 1 .. 12 /\ d[3] \in Int /\ Y \in Int
    OBVIOUS
  <1>2. L \in Int /\ Y \div 4 \in Int /\ Y \div 100 \in Int /\ Y \div 400 \in Int
    BY <1>1
  <1>3. /\ DaysBefore[m] = Months[m] + One(m > 2) + 7 * Weeks[m]
        /\ Months[m] \in Int /\ Weeks[m] \in Int
    BY <1>1, MonthTables
  <1>4. Weekday(d) = (365 * Y + Y \div 4 - Y \div 100 + Y \div 400 + DaysBefore[m]
                       + One(m > 2 /\ IsLeap(y)) + d[3] + 6) % 7
    BY DEF Weekday, One
  <1>5. CASE m > 2
    <2> DEFINE s == Y + 1 + L + One(IsLeap(y)) + Months[m] + d[3] + 6
    <2>1. Sakamoto(d) = (y + y \div 4 - y \div 100 + y \div 400 + Months[m] + d[3] + 6) % 7
      BY <1>1, <1>5 DEF Sakamoto, Months
    <2>2. y \div 4 - y \div 100 + y \div 400 = L + One(IsLeap(y))
      BY <1>1, LeapDays
    <2>3. One(IsLeap(y)) \in Int /\ One(m > 2) = 1 /\ One(m > 2 /\ IsLeap(y)) = One(IsLeap(y))
      BY <1>5 DEF One
    <2>4. y \div 4 \in Int /\ y \div 100 \in Int /\ y \div 400 \in Int /\ y = Y + 1
      BY <1>1
    <2> HIDE DEF y, m, Y
    <2>5. y + y \div 4 - y \div 100 + y \div 400 + Months[m] + d[3] + 6 = s
      BY <1>1, <1>2, <1>3, <2>2, <2>3, <2>4
    <2>6. 365 * Y + Y \div 4 - Y \div 100 + Y \div 400 + DaysBefore[m]
            + One(m > 2 /\ IsLeap(y)) + d[3] + 6 = s + 7 * (52 * Y + Weeks[m])
      BY <1>1, <1>2, <1>3, <2>3
    <2>7. s \in Int /\ 52 * Y + Weeks[m] \in Int
      BY <1>1, <1>2, <1>3, <2>3
    <2> HIDE DEF s
    <2>8. (s + 7 * (52 * Y + Weeks[m])) % 7 = s % 7
      BY <2>7, WholeWeeks
    <2> QED BY <1>4, <2>1, <2>5, <2>6, <2>8
  <1>6. CASE ~(m > 2)
    <2> DEFINE s == Y + L + Months[m] + d[3] + 6
    <2>1. Sakamoto(d) = (Y + Y \div 4 - Y \div 100 + Y \div 400 + Months[m] + d[3] + 6) % 7
      BY <1>1, <1>6 DEF Sakamoto, Months
    <2>2. One(m > 2) = 0 /\ One(m > 2 /\ IsLeap(y)) = 0
      BY <1>6 DEF One
    <2> HIDE DEF y, m, Y
    <2>3. Y + Y \div 4 - Y \div 100 + Y \div 400 + Months[m] + d[3] + 6 = s
      BY <1>1, <1>2, <1>3
    <2>4. 365 * Y + Y \div 4 - Y \div 100 + Y \div 400 + DaysBefore[m]
            + One(m > 2 /\ IsLeap(y)) + d[3] + 6 = s + 7 * (52 * Y + Weeks[m])
      BY <1>1, <1>2, <1>3, <2>2
    <2>5. s \in Int /\ 52 * Y + Weeks[m] \in Int
      BY <1>1, <1>2, <1>3
    <2> HIDE DEF s
    <2>6. (s + 7 * (52 * Y + Weeks[m])) % 7 = s % 7
      BY <2>5, WholeWeeks
    <2> QED BY <1>4, <2>1, <2>3, <2>4, <2>6
  <1> QED BY <1>5, <1>6

-----------------------------------------------------------------------------
(* Serving *)

\* json.dump keeps a vocabulary whose keys stay apart.
LEMMA JsonLookup ==
    ASSUME NEW vocab, NEW v,
           \A w \in DOMAIN vocab \cup {v} : \A u \in DOMAIN vocab : Key(w) = Key(u) => w = u
    PROVE  Lookup(JsonVocab(vocab), Key(v)) = Lookup(vocab, v)
  <1>1. DOMAIN JsonVocab(vocab) = {Key(w) : w \in DOMAIN vocab}
    BY DEF JsonVocab
  <1>2. CASE v \in DOMAIN vocab
    <2> DEFINE u == CHOOSE w \in DOMAIN vocab : Key(w) = Key(v)
    <2>1. u \in DOMAIN vocab /\ Key(u) = Key(v)
      BY <1>2
    <2>2. u = v
      BY <1>2, <2>1
    <2>3. Key(v) \in DOMAIN JsonVocab(vocab)
      BY <1>1, <1>2
    <2>4. JsonVocab(vocab)[Key(v)] = vocab[u]
      BY <1>1, <2>3 DEF JsonVocab
    <2> QED BY <1>2, <2>2, <2>3, <2>4 DEF Lookup
  <1>3. CASE v \notin DOMAIN vocab
    <2>1. Key(v) \notin DOMAIN JsonVocab(vocab)
      BY <1>1, <1>3
    <2> QED BY <1>3, <2>1 DEF Lookup
  <1> QED BY <1>2, <1>3

IntValues == {"int"} \X (STRING \ {"<UNK>"})
StrValues == {"str"} \X STRING

\* The values of a column have one type, and an integer is never <UNK>.
LEMMA KeysApart ==
    /\ \A v, w \in IntValues \cup {Unknown} : Key(v) = Key(w) => v = w
    /\ \A v \in StrValues \cup {Unknown} : Key(v) = v
  <1>1. ASSUME NEW v \in IntValues \cup {Unknown}, NEW w \in IntValues \cup {Unknown}, Key(v) = Key(w)
        PROVE  v = w
    <2>1. v[2] = w[2]
      BY <1>1 DEF Key
    <2>2. /\ v \in IntValues => v = <<"int", v[2]>> /\ v[2] # "<UNK>"
          /\ w \in IntValues => w = <<"int", w[2]>> /\ w[2] # "<UNK>"
          /\ Unknown[2] = "<UNK>"
      BY DEF IntValues, Unknown
    <2> QED BY <2>1, <2>2
  <1>2. \A v \in StrValues \cup {Unknown} : Key(v) = v
    BY DEF Key, StrValues, Unknown
  <1> QED BY <1>1, <1>2

\* An index is inside the table that has a row for every word.
LEMMA LookupBounds ==
    ASSUME NEW S, NEW seq \in Seq(S), NEW min, NEW v
    PROVE  /\ Lookup(FitEncoder(seq, min), v) \in Nat
           /\ Lookup(FitEncoder(seq, min), v) < Cardinality(DOMAIN FitEncoder(seq, min))
           /\ Cardinality(DOMAIN FitEncoder(seq, min)) \in Nat
           /\ DOMAIN FitEncoder(seq, min) \subseteq Range(seq) \cup {Unknown}
  <1> DEFINE vocab == FitEncoder(seq, min)
             values == DOMAIN vocab \ {Unknown}
             n == Cardinality(values)
  <1>1. IsRanking(vocab, seq, min)
    BY FitEncoderRanks
  <1>2. Unknown \in DOMAIN vocab
    BY DEF FitEncoder
  <1> HIDE DEF vocab
  <1>3. /\ vocab[Unknown] = 0 /\ values \subseteq Range(seq)
        /\ {vocab[w] : w \in values} = 1 .. n
    BY <1>1 DEF IsRanking
  <1>4. IsFiniteSet(values) /\ n \in Nat
    BY <1>3, RangeFinite, FS_Subset, FS_CardinalityType
  <1>5. Cardinality(DOMAIN vocab) = n + 1
    <2>1. DOMAIN vocab = values \cup {Unknown} /\ Unknown \notin values
      BY <1>2
    <2> HIDE DEF values
    <2> QED BY <1>4, <2>1, FS_AddElement DEF n
  <1>6. \A w \in values : vocab[w] \in 1 .. n
    BY <1>3
  <1> HIDE DEF n
  <1>7. Lookup(vocab, v) \in 0 .. n
    BY <1>3, <1>4, <1>6 DEF Lookup
  <1>8. DOMAIN vocab \subseteq Range(seq) \cup {Unknown}
    BY <1>3
  <1>9. Lookup(vocab, v) \in Nat /\ Lookup(vocab, v) < Cardinality(DOMAIN vocab) /\ Cardinality(DOMAIN vocab) \in Nat
    BY <1>4, <1>5, <1>7
  <1> QED BY <1>8, <1>9 DEF vocab

\* The tags in a text are not empty.
LEMMA TokensClean ==
    ASSUME NEW tags \in Seq(StrValues)
    PROVE  /\ Tokens(tags) \in Seq(StrValues \ {EmptyTag}) /\ Tokens(tags) \in Seq(StrValues)
           /\ Without(Tokens(tags), {EmptyTag}) = Tokens(tags)
  <1>1. CASE \E w \in NullWords : tags = <<w>>
    BY <1>1, WithoutEmpty, EmptySeq DEF Tokens
  <1>2. CASE ~ \E w \in NullWords : tags = <<w>>
    <2>1. Tokens(tags) = Without(tags, {EmptyTag})
      BY <1>2 DEF Tokens
    <2>2. Without(tags, {EmptyTag}) \in Seq(StrValues \ {EmptyTag})
      BY WithoutKeeps
    <2>3. Without(Without(tags, {EmptyTag}), {EmptyTag}) = Without(tags, {EmptyTag} \cup {EmptyTag})
      BY WithoutTwice
    <2>4. {EmptyTag} \cup {EmptyTag} = {EmptyTag}
      OBVIOUS
    <2> QED BY <2>1, <2>2, <2>3, <2>4, TokensType
  <1> QED BY <1>1, <1>2

\* What from_proto makes of a list of texts.
SplitAll(texts) == FlattenSeq([i \in DOMAIN texts |-> Tokens(texts[i])])

\* A column that comes as one text.
LEMMA SplitWhole ==
    ASSUME NEW tags \in Seq(StrValues)
    PROVE  SplitAll(<<tags>>) = Tokens(tags)
  <1> DEFINE q == Tokens(tags)
  <1>1. q \in Seq(StrValues)
    BY TokensType
  <1>2. [i \in DOMAIN <<tags>> |-> Tokens(<<tags>>[i])] = Append(<< >>, q)
    BY DEF q
  <1> HIDE DEF q
  <1>3. << >> \in Seq(Seq(StrValues))
    BY EmptySeq
  <1>4. FlattenSeq(Append(<< >>, q)) = FlattenSeq(<< >>) \o q
    BY <1>1, <1>3, FlattenAppend
  <1>5. << >> \o q = q
    BY <1>1, ConcatEmptySeq
  <1>6. FlattenSeq(Append(<< >>, q)) = q
    BY <1>4, <1>5, FlattenEmpty
  <1> QED BY <1>2, <1>6 DEF SplitAll, q

Ordinary == StrValues \ NullWords
TokensAlone == [t \in Ordinary |-> Tokens(<<t>>)]

\* Pieces that come one by one: the empty ones go.
LEMMA SplitPieces ==
    ASSUME NEW tags \in Seq(Ordinary)
    PROVE  SplitAll(OneByOne(tags)) = Without(tags, {EmptyTag})
  <1> DEFINE D == Seq(StrValues)
             T == {u \in Seq(Ordinary) : FlattenSeq(Mapped(TokensAlone, u)) = Without(u, {EmptyTag})}
  <1>1. \A t \in Ordinary : Tokens(<<t>>) = IF t = EmptyTag THEN << >> ELSE <<t>>
    <2> SUFFICES ASSUME NEW t \in Ordinary
                 PROVE  Tokens(<<t>>) = IF t = EmptyTag THEN << >> ELSE <<t>>
      OBVIOUS
    <2>1. ~ \E w \in NullWords : <<t>> = <<w>>
      <3>1. \A w \in NullWords : w # t
        BY DEF Ordinary
      <3>2. \A w : <<t>> = <<w>> => t = w
        OBVIOUS
      <3> QED BY <3>1, <3>2
    <2>2. Append(<< >>, t) = <<t>> /\ << >> \in Seq(Ordinary)
      BY EmptySeq
    <2>3. Without(Append(<< >>, t), {EmptyTag})
            = IF t \in {EmptyTag} THEN Without(<< >>, {EmptyTag}) ELSE Append(Without(<< >>, {EmptyTag}), t)
      <3>1. \A s \in Seq(Ordinary) :
              Without(Append(s, t), {EmptyTag})
                = IF t \in {EmptyTag} THEN Without(s, {EmptyTag}) ELSE Append(Without(s, {EmptyTag}), t)
        BY WithoutAppend
      <3> QED BY <2>2, <3>1, Zenon
    <2>4. Without(<< >>, {EmptyTag}) = << >>
      BY WithoutEmpty
    <2> QED BY <2>1, <2>2, <2>3, <2>4 DEF Tokens
  <1>2. Maps(TokensAlone, Ordinary, D)
    <2>1. \A t \in Ordinary : Tokens(<<t>>) \in D
      <3> SUFFICES ASSUME NEW t \in Ordinary PROVE Tokens(<<t>>) \in D
        OBVIOUS
      <3>1. t \in StrValues
        BY DEF Ordinary
      <3>2. <<t>> \in Seq(StrValues)
        BY <3>1
      <3> QED BY <3>2, TokensType
    <2> QED BY <2>1 DEF Maps, TokensAlone
  <1>3. << >> \in T
    <2>1. Mapped(TokensAlone, << >>) = << >>
      BY DEF Mapped
    <2> QED BY <2>1, FlattenEmpty, WithoutEmpty, EmptySeq
  <1>4. ASSUME NEW u \in Seq(Ordinary), NEW x \in Ordinary, u \in T PROVE Append(u, x) \in T
    <2> DEFINE a == Mapped(TokensAlone, u)
               y == Tokens(<<x>>)
               w == Without(u, {EmptyTag})
    <2>1. <<x>> \in Seq(Ordinary) /\ Append(u, x) = u \o <<x>> /\ Append(u, x) \in Seq(Ordinary)
      BY AppendIsConcat, AppendProperties
    <2>2. Mapped(TokensAlone, <<x>>) = <<y>>
      BY DEF Mapped, TokensAlone
    <2> HIDE DEF D
    <2>3. Mapped(TokensAlone, u \o <<x>>) = a \o Mapped(TokensAlone, <<x>>) /\ a \in Seq(D)
      <3> DEFINE v == <<x>>
      <3>1. v \in Seq(Ordinary)
        BY <2>1
      <3> HIDE DEF v
      <3>2. Mapped(TokensAlone, u \o v) = a \o Mapped(TokensAlone, v)
        BY <1>2, <3>1, MappedConcat
      <3>3. a \in Seq(D)
        BY <1>2, MappedType
      <3> QED BY <3>2, <3>3 DEF v
    <2>4. y \in D
      BY <1>2 DEF Maps, TokensAlone
    <2> HIDE DEF a, y
    <2>5. a \o <<y>> = Append(a, y)
      BY <2>3, <2>4, AppendIsConcat
    <2>6. FlattenSeq(Append(a, y)) = FlattenSeq(a) \o y
      <3>1. a \in Seq(Seq(StrValues)) /\ y \in Seq(StrValues)
        BY <2>3, <2>4 DEF D
      <3> QED BY <3>1, FlattenAppend
    <2>7. FlattenSeq(a) = w
      BY <1>4 DEF a
    <2>8. Without(Append(u, x), {EmptyTag}) = IF x \in {EmptyTag} THEN w ELSE Append(w, x)
      BY WithoutAppend
    <2>9. w \in Seq(Ordinary)
      BY WithoutIs
    <2> HIDE DEF w
    <2>10. w \o y = IF x = EmptyTag THEN w ELSE Append(w, x)
      <3>1. w \o << >> = w /\ w \o <<x>> = Append(w, x)
        BY <2>9, ConcatEmptySeq, AppendIsConcat
      <3> QED BY <1>1, <3>1 DEF y
    <2>11. FlattenSeq(Mapped(TokensAlone, Append(u, x))) = w \o y
      BY <2>1, <2>2, <2>3, <2>5, <2>6, <2>7
    <2> QED BY <2>1, <2>8, <2>10, <2>11
  <1> HIDE DEF T
  <1>5. tags \in T
    BY <1>3, <1>4, SequenceInduction
  <1>6. [i \in DOMAIN OneByOne(tags) |-> Tokens(OneByOne(tags)[i])] = Mapped(TokensAlone, tags)
    <2>1. \A i \in DOMAIN tags : tags[i] \in Ordinary
      BY LenProperties, ElementOfSeq
    <2> QED BY <2>1 DEF OneByOne, Mapped, TokensAlone
  <1> QED BY <1>5, <1>6 DEF T, SplitAll

\* The forms in which the tags of a row may come to the bidder.
Forms(tags) ==
    {<<tags>>} \cup
      IF Range(Tokens(tags)) \cap NullWords = {} THEN {OneByOne(tags), OneByOne(Tokens(tags))} ELSE {}

\* In all of them the bidder finds the tags that training found.
LEMMA SplitIs ==
    ASSUME NEW tags \in Seq(StrValues), NEW texts \in Forms(tags)
    PROVE  SplitAll(texts) = Tokens(tags)
  <1>1. CASE texts = <<tags>>
    BY <1>1, SplitWhole
  <1>2. CASE Range(Tokens(tags)) \cap NullWords = {} /\ texts = OneByOne(tags)
    <2>1. CASE \E w \in NullWords : tags = <<w>>
      <3>1. PICK w \in NullWords : tags = <<w>>
        BY <2>1
      <3>2. OneByOne(tags) = <<tags>>
        BY <3>1 DEF OneByOne
      <3> QED BY <1>1, <1>2, <3>2
    <2>2. CASE ~ \E w \in NullWords : tags = <<w>>
      <3>1. Tokens(tags) = Without(tags, {EmptyTag})
        BY <2>2 DEF Tokens
      <3>2. ASSUME NEW i \in 1 .. Len(tags) PROVE tags[i] \in Ordinary
        <4>1. tags[i] \in StrValues
          BY ElementOfSeq
        <4>2. CASE tags[i] = EmptyTag
          <5>1. EmptyTag \notin NullWords
            BY DEF EmptyTag, NullWords
          <5> QED BY <4>1, <4>2, <5>1 DEF Ordinary
        <4>3. CASE tags[i] # EmptyTag
          <5>1. tags[i] \in Range(Without(tags, {EmptyTag}))
            BY <4>3, WithoutHolds
          <5> QED BY <1>2, <3>1, <4>1, <5>1 DEF Ordinary
        <4> QED BY <4>2, <4>3
      <3>3. tags \in Seq(Ordinary)
        <4>1. Len(tags) \in Nat /\ DOMAIN tags = 1 .. Len(tags) /\ tags = [i \in 1 .. Len(tags) |-> tags[i]]
          BY LenProperties
        <4> HIDE DEF Ordinary
        <4> QED BY <3>2, <4>1
      <3> QED BY <1>2, <3>1, <3>3, SplitPieces
    <2> QED BY <2>1, <2>2
  <1>3. CASE Range(Tokens(tags)) \cap NullWords = {} /\ texts = OneByOne(Tokens(tags))
    <2> DEFINE q == Tokens(tags)
    <2>1. q \in Seq(StrValues) /\ Without(q, {EmptyTag}) = q /\ Range(q) \cap NullWords = {}
      BY <1>3, TokensClean
    <2> HIDE DEF q
    <2>2. Range(q) \subseteq StrValues /\ q \in Seq(Range(q))
      BY <2>1, RangeOfSeq, SeqOfRange
    <2>3. q \in Seq(Ordinary)
      <3>1. Range(q) \subseteq Ordinary
        BY <2>1, <2>2 DEF Ordinary
      <3>2. \A i \in 1 .. Len(q) : q[i] \in Range(q)
        BY <2>2, ElementOfSeq
      <3>3. Len(q) \in Nat /\ DOMAIN q = 1 .. Len(q) /\ q = [i \in 1 .. Len(q) |-> q[i]]
        BY <2>1, LenProperties
      <3> HIDE DEF Ordinary
      <3> QED BY <3>1, <3>2, <3>3
    <2>4. SplitAll(OneByOne(q)) = q
      BY <2>1, <2>3, SplitPieces
    <2> QED BY <1>3, <2>4 DEF q
  <1> QED BY <1>1, <1>2, <1>3 DEF Forms


\* The tags of a request and of a record are those of training.
LEMMA SameTags ==
    ASSUME NEW tags \in Seq(StrValues), NEW vocab, DOMAIN vocab \subseteq StrValues \cup {Unknown},
           NEW req, req.tags = Tokens(tags), NEW rec, rec.tags = OneByOne(Tokens(tags)),
           NEW cfg, cfg.tag_vocab = JsonVocab(vocab), cfg.tag_max_len = TagMaxLen
    PROVE  /\ BidderTags(req, cfg) = EncodeTags(tags, vocab)
           /\ RetrainerTags(rec, cfg) = EncodeTags(tags, vocab)
  <1> DEFINE q == Tokens(tags)
             served == {t \in Range(q) : t = EmptyTag \/ Lookup(cfg.tag_vocab, Key(t)) = 0}
             recorded == {t \in Range(q) : Lookup(cfg.tag_vocab, t) = 0}
             trained == {t \in Range(q) : Lookup(vocab, t) = 0}
             known == Without(q, trained)
  <1>1. \A t \in StrValues : Key(t) = t /\ Lookup(cfg.tag_vocab, Key(t)) = Lookup(vocab, t)
    <2> SUFFICES ASSUME NEW t \in StrValues
                 PROVE  Key(t) = t /\ Lookup(cfg.tag_vocab, Key(t)) = Lookup(vocab, t)
      OBVIOUS
    <2>1. \A w \in DOMAIN vocab \cup {t} : \A u \in DOMAIN vocab : Key(w) = Key(u) => w = u
      BY KeysApart
    <2> QED BY <2>1, JsonLookup, KeysApart
  <1>2. q \in Seq(StrValues) /\ q \in Seq(StrValues \ {EmptyTag})
    BY TokensClean
  <1> HIDE DEF q
  <1>3. Range(q) \subseteq StrValues /\ Range(q) \subseteq StrValues \ {EmptyTag} /\ q \in Seq(Range(q))
    BY <1>2, RangeOfSeq, SeqOfRange
  <1>4. served = trained /\ recorded = trained
    BY <1>1, <1>3
  <1>5. known \in Seq(StrValues)
    BY <1>2, WithoutIs
  <1>6. \A j \in 1 .. TagMaxLen : j <= Len(known) => known[j] \in StrValues
    <2> HIDE DEF known
    <2>1. TagMaxLen \in Nat /\ Len(known) \in Nat
      BY <1>5, EncodingAssumption, LenProperties
    <2>2. \A j \in 1 .. Len(known) : known[j] \in StrValues
      BY <1>5, ElementOfSeq
    <2> QED BY <2>1, <2>2
  <1>7. EncodeTags(tags, vocab)
          = [j \in 1 .. TagMaxLen |-> IF j <= Len(known) THEN Lookup(vocab, known[j]) ELSE 0]
    BY DEF EncodeTags, q
  <1>8. BidderTags(req, cfg) = EncodeTags(tags, vocab)
    <2>1. BidderTags(req, cfg)
            = [j \in 1 .. TagMaxLen |->
                 IF j <= Len(Without(q, served)) THEN Lookup(cfg.tag_vocab, Key(Without(q, served)[j])) ELSE 0]
      BY DEF BidderTags, q
    <2> HIDE DEF known, served, trained
    <2> QED BY <1>1, <1>4, <1>6, <1>7, <2>1 DEF known
  <1>9. RetrainerTags(rec, cfg) = EncodeTags(tags, vocab)
    <2> DEFINE words == [i \in DOMAIN rec.tags |-> TagIn(rec.tags[i])]
    <2>1. words = q
      <3>1. /\ DOMAIN q = 1 .. Len(q) /\ Len(q) \in Nat /\ q = [i \in 1 .. Len(q) |-> q[i]]
            /\ \A i \in 1 .. Len(q) : q[i] \in StrValues
        BY <1>2, LenProperties, ElementOfSeq
      <3>2. DOMAIN rec.tags = 1 .. Len(q) /\ \A i \in 1 .. Len(q) : rec.tags[i] = <<q[i]>>
        BY <3>1 DEF OneByOne, q
      <3>3. \A i \in 1 .. Len(q) : TagIn(<<q[i]>>) = q[i]
        BY <1>1, <3>1 DEF TagIn
      <3> QED BY <3>1, <3>2, <3>3
    <2>2. RetrainerTags(rec, cfg)
            = [j \in 1 .. TagMaxLen |->
                 IF j <= Len(Without(q, recorded)) THEN Lookup(cfg.tag_vocab, Without(q, recorded)[j]) ELSE 0]
      BY <2>1 DEF RetrainerTags
    <2> HIDE DEF known, recorded, trained
    <2> QED BY <1>1, <1>4, <1>6, <1>7, <2>2 DEF known
  <1> QED BY <1>8, <1>9

\* The artifacts are vocabularies of typed values.
LEMMA FittedVocabs ==
    ASSUME NEW ls, IsLogs(ls), NEW a, a = FittedTo(ls)
    PROVE  /\ DOMAIN a.encoders = {"region", "domain"}
           /\ DOMAIN a.encoders["region"] \subseteq IntValues \cup {Unknown}
           /\ DOMAIN a.encoders["domain"] \subseteq StrValues \cup {Unknown}
           /\ DOMAIN a.tag_vocab \subseteq StrValues \cup {Unknown}
           /\ \A v : /\ Lookup(a.encoders["region"], v) < VocabSize(a, "region")
                     /\ Lookup(a.encoders["domain"], v) < VocabSize(a, "domain")
                     /\ Lookup(a.tag_vocab, v) < TagVocabSize(a)
           /\ TagVocabSize(a) \in Nat \ {0}
  <1> DEFINE rows == SubSeq(Everything(ls), 1, CutOf(ls))
             c == Column(rows, "region")
             d == Column(rows, "domain")
             t == TagsOf(rows)
  <1>1. c \in Seq(IntValues) /\ d \in Seq(StrValues) /\ t \in Seq(StrValues)
    BY TrainRowsType, TrainColumns DEF IntValues, StrValues
  <1>2. Range(CatFeatures) = {"region", "domain"}
    BY DEF Range, CatFeatures
  <1>3. /\ a.encoders = [f \in Range(CatFeatures) |-> FitEncoder(Column(rows, f), MinCount[f])]
        /\ a.tag_vocab = FitEncoder(t, MinCount["user_tags"])
    BY DEF FittedTo
  <1>4. /\ DOMAIN a.encoders = {"region", "domain"}
        /\ a.encoders["region"] = FitEncoder(c, MinCount["region"])
        /\ a.encoders["domain"] = FitEncoder(d, MinCount["domain"])
    BY <1>2, <1>3
  <1> HIDE DEF rows, c, d, t
  <1>5. Range(c) \subseteq IntValues /\ Range(d) \subseteq StrValues /\ Range(t) \subseteq StrValues
    BY <1>1, RangeOfSeq
  <1>6. \A v : /\ Lookup(a.encoders["region"], v) \in Nat
               /\ Lookup(a.encoders["region"], v) < Cardinality(DOMAIN a.encoders["region"])
               /\ Cardinality(DOMAIN a.encoders["region"]) \in Nat
               /\ DOMAIN a.encoders["region"] \subseteq Range(c) \cup {Unknown}
    BY <1>1, <1>4, LookupBounds
  <1>7. \A v : /\ Lookup(a.encoders["domain"], v) \in Nat
               /\ Lookup(a.encoders["domain"], v) < Cardinality(DOMAIN a.encoders["domain"])
               /\ Cardinality(DOMAIN a.encoders["domain"]) \in Nat
               /\ DOMAIN a.encoders["domain"] \subseteq Range(d) \cup {Unknown}
    BY <1>1, <1>4, LookupBounds
  <1>8. \A v : /\ Lookup(a.tag_vocab, v) \in Nat
               /\ Lookup(a.tag_vocab, v) < Cardinality(DOMAIN a.tag_vocab)
               /\ Cardinality(DOMAIN a.tag_vocab) \in Nat
               /\ DOMAIN a.tag_vocab \subseteq Range(t) \cup {Unknown}
    BY <1>1, <1>3, LookupBounds
  <1>9. \A v : /\ Lookup(a.encoders["region"], v) < VocabSize(a, "region")
               /\ Lookup(a.encoders["domain"], v) < VocabSize(a, "domain")
               /\ Lookup(a.tag_vocab, v) < TagVocabSize(a)
    BY <1>6, <1>7, <1>8 DEF VocabSize, TagVocabSize
  <1>10. TagVocabSize(a) \in Nat \ {0}
    BY <1>8 DEF TagVocabSize
  <1> QED BY <1>4, <1>5, <1>6, <1>7, <1>8, <1>9, <1>10

ServesAs(row, a) ==
    LET cfg == FeatureConfig(a)
        inputs == Packed(EncodeRow(BasicFeatures(row), a))
    IN  /\ \A texts \in Forms(row.tags) :
             row.hour <= 23 => BidderEncode(FromProto(Request(row, texts)), cfg) = inputs
        /\ RetrainerEncode(Request(row, OneByOne(Tokens(row.tags))), cfg) = inputs
        /\ \A k \in DOMAIN CatFeatures : inputs.cat[k] < VocabSize(a, CatFeatures[k])
        /\ \A j \in 1 .. TagMaxLen : inputs.tags[j] < TagVocabSize(a)

\* The fields of a request, but for the tags, are those of the row.
SameFields(req, row) ==
    /\ req.region = row.region /\ req.domain = row.domain
    /\ req["region"] = row["region"] /\ req["domain"] = row["domain"]
    /\ req.floor = row.floor /\ req.width = row.width /\ req.height = row.height
    /\ req.date = row.date /\ req.hour = row.hour

LEMMA RequestIs ==
    ASSUME NEW row \in Row, NEW texts
    PROVE  /\ SameFields(Request(row, texts), row) /\ Request(row, texts).tags = texts
           /\ SameFields(FromProto(Request(row, texts)), row)
           /\ FromProto(Request(row, texts)).tags = SplitAll(texts)
  <1> DEFINE q == SplitAll(texts)
  <1>1. Request(row, texts).tags = texts /\ FromProto(Request(row, texts)) = [Request(row, texts) EXCEPT !.tags = q]
    BY DEF Request, FromProto, Row, SplitAll
  <1> HIDE DEF q
  <1>2. FromProto(Request(row, texts)).tags = q
    BY <1>1 DEF Request, Row
  <1>3. SameFields(Request(row, texts), row)
    BY DEF Request, Row, SameFields
  <1>4. SameFields(FromProto(Request(row, texts)), row)
    BY <1>1 DEF Request, Row, SameFields
  <1> QED BY <1>1, <1>2, <1>3, <1>4 DEF q

LEMMA EveryRowServed ==
    ASSUME NEW ls, IsLogs(ls), NEW a, a = FittedTo(ls), NEW row \in Row
    PROVE  ServesAs(row, a)
  <1> DEFINE f == BasicFeatures(row)
             q == Tokens(row.tags)
             rec == Request(row, OneByOne(q))
             cfg == FeatureConfig(a)
             inputs == Packed(EncodeRow(f, a))
             catrows == [k \in DOMAIN CatFeatures |-> Lookup(a.encoders[CatFeatures[k]], f[CatFeatures[k]])]
             scaled == [k \in DOMAIN Scaled |-> Standardise(Scaled[k], f[Scaled[k]], a.scalers)]
             tagrows == EncodeTags(row.tags, a.tag_vocab)
  <1>1. /\ row.region \in IntValues /\ row.domain \in StrValues /\ row.tags \in Seq(StrValues)
        /\ row.date \in (Nat \ {0}) \X (1 .. 12) \X (1 .. 31) /\ row.hour \in 0 .. 99
        /\ row.floor \in Int
    BY DEF Row, Dates, IntValues, StrValues
  <1>2. SameFields(rec, row) /\ rec.tags = OneByOne(q)
    BY RequestIs
  <1>3. /\ f.region = row.region /\ f.domain = row.domain /\ f.user_tags = row.tags
        /\ f.log_floor_price = Clip0(row.floor) /\ f.has_floor_price = Flag(row.floor > 0)
        /\ f.slot_area = row.width * row.height /\ f.tag_count = Len(q)
        /\ f.is_weekend = Flag(Weekday(row.date) >= 5)
        /\ f.hour = row.hour % 24 /\ f.weekday = Weekday(row.date)
    BY DEF BasicFeatures
  <1>4. /\ DOMAIN a.encoders = {"region", "domain"}
        /\ DOMAIN a.encoders["region"] \subseteq IntValues \cup {Unknown}
        /\ DOMAIN a.encoders["domain"] \subseteq StrValues \cup {Unknown}
        /\ DOMAIN a.tag_vocab \subseteq StrValues \cup {Unknown}
        /\ \A v : /\ Lookup(a.encoders["region"], v) < VocabSize(a, "region")
                  /\ Lookup(a.encoders["domain"], v) < VocabSize(a, "domain")
                  /\ Lookup(a.tag_vocab, v) < TagVocabSize(a)
        /\ TagVocabSize(a) \in Nat \ {0}
    BY FittedVocabs
  <1>5. /\ cfg.cat_order = CatFeatures /\ cfg.tag_vocab = JsonVocab(a.tag_vocab)
        /\ cfg.means_stds = a.scalers /\ cfg.tag_max_len = TagMaxLen
        /\ cfg.cat_vocabs = [feat \in DOMAIN a.encoders |-> JsonVocab(a.encoders[feat])]
    BY DEF FeatureConfig
  <1>6. Sakamoto(row.date) = Weekday(row.date)
    BY <1>1, SameWeekday
  <1>q. q \in Seq(StrValues) /\ Without(q, {EmptyTag}) = q /\ Len(q) \in Nat /\ Len(OneByOne(q)) = Len(q)
    <2>1. q \in Seq(StrValues) /\ Without(q, {EmptyTag}) = q
      BY <1>1, TokensClean
    <2> HIDE DEF q
    <2>2. Len(q) \in Nat /\ DOMAIN q = 1 .. Len(q)
      BY <2>1, LenProperties
    <2>3. Len(OneByOne(q)) = Len(q)
      BY <2>2 DEF OneByOne
    <2> QED BY <2>1, <2>2, <2>3
  <1> HIDE DEF f, q, rec, cfg
  <1>7. DOMAIN CatFeatures = 1 .. 2 /\ CatFeatures[1] = "region" /\ CatFeatures[2] = "domain"
    BY DEF CatFeatures
  <1>8. ASSUME NEW req, SameFields(req, row)
        PROVE  BidderCat(req, cfg) = catrows /\ RetrainerCat(req, cfg) = catrows
    <2>1. Lookup(cfg.cat_vocabs["region"], Key(req["region"])) = Lookup(a.encoders["region"], f["region"])
      <3>1. cfg.cat_vocabs["region"] = JsonVocab(a.encoders["region"])
        BY <1>4, <1>5
      <3>2. \A w \in DOMAIN a.encoders["region"] \cup {row.region} : \A u \in DOMAIN a.encoders["region"] :
              Key(w) = Key(u) => w = u
        BY <1>1, <1>4, KeysApart
      <3>3. Lookup(JsonVocab(a.encoders["region"]), Key(row.region)) = Lookup(a.encoders["region"], row.region)
        BY <3>2, JsonLookup
      <3> QED BY <1>3, <1>8, <3>1, <3>3 DEF SameFields
    <2>2. Lookup(cfg.cat_vocabs["domain"], Key(req["domain"])) = Lookup(a.encoders["domain"], f["domain"])
      <3>1. cfg.cat_vocabs["domain"] = JsonVocab(a.encoders["domain"])
        BY <1>4, <1>5
      <3>2. \A w \in DOMAIN a.encoders["domain"] \cup {row.domain} : \A u \in DOMAIN a.encoders["domain"] :
              Key(w) = Key(u) => w = u
        BY <1>1, <1>4, KeysApart
      <3>3. Lookup(JsonVocab(a.encoders["domain"]), Key(row.domain)) = Lookup(a.encoders["domain"], row.domain)
        BY <3>2, JsonLookup
      <3> QED BY <1>3, <1>8, <3>1, <3>3 DEF SameFields
    <2>3. \A k \in 1 .. 2 : k = 1 \/ k = 2
      OBVIOUS
    <2>4. RetrainerCat(req, cfg) = catrows
      <3>1. \A k \in DOMAIN CatFeatures :
              Lookup(cfg.cat_vocabs[CatFeatures[k]], Key(req[CatFeatures[k]])) = catrows[k]
        BY <1>7, <2>1, <2>2, <2>3
      <3> QED BY <1>5, <3>1 DEF RetrainerCat
    <2>5. BidderCat(req, cfg) = catrows
      <3> DEFINE keys == <<Key(req.region), Key(req.domain)>>
      <3>1. DOMAIN keys = 1 .. 2 /\ keys[1] = Key(req.region) /\ keys[2] = Key(req.domain)
        OBVIOUS
      <3>2. BidderCat(req, cfg) = [k \in DOMAIN keys |-> Lookup(cfg.cat_vocabs[CatFeatures[k]], keys[k])]
        BY <1>5 DEF BidderCat
      <3> HIDE DEF keys
      <3>3. /\ Lookup(cfg.cat_vocabs[CatFeatures[1]], keys[1]) = catrows[1]
            /\ Lookup(cfg.cat_vocabs[CatFeatures[2]], keys[2]) = catrows[2]
        <4>1. keys[1] = Key(req["region"]) /\ keys[2] = Key(req["domain"])
          BY <3>1
        <4> QED BY <1>7, <2>1, <2>2, <4>1
      <3>4. \A k \in 1 .. 2 : Lookup(cfg.cat_vocabs[CatFeatures[k]], keys[k]) = catrows[k]
        BY <2>3, <3>3
      <3> QED BY <1>7, <3>1, <3>2, <3>4
    <2> QED BY <2>4, <2>5
  <1>9. ASSUME NEW req, req.tags = q
        PROVE  BidderTags(req, cfg) = tagrows /\ RetrainerTags(rec, cfg) = tagrows
    <2> DEFINE tags == row.tags
               vocab == a.tag_vocab
    <2>1. /\ tags \in Seq(StrValues) /\ DOMAIN vocab \subseteq StrValues \cup {Unknown}
          /\ req.tags = Tokens(tags) /\ rec.tags = OneByOne(Tokens(tags))
          /\ cfg.tag_vocab = JsonVocab(vocab) /\ cfg.tag_max_len = TagMaxLen
      BY <1>1, <1>2, <1>4, <1>5, <1>9 DEF q
    <2>2. tagrows = EncodeTags(tags, vocab)
      OBVIOUS
    <2> HIDE DEF tags, vocab, tagrows
    <2>3. BidderTags(req, cfg) = EncodeTags(tags, vocab) /\ RetrainerTags(rec, cfg) = EncodeTags(tags, vocab)
      BY ONLY <2>1, SameTags
    <2> QED BY <2>2, <2>3
  <1>10. ASSUME NEW req, SameFields(req, row)
         PROVE  /\ req.tags = q => BidderScaled(req, cfg) = scaled
                /\ req.tags = OneByOne(q) => RetrainerScaled(req, cfg) = scaled
    <2>1. DOMAIN Scaled = 1 .. 3 /\ Scaled[1] = "log_floor_price" /\ Scaled[2] = "slot_area"
          /\ Scaled[3] = "tag_count"
      BY DEF Scaled
    <2> DEFINE x == Standardise("log_floor_price", Clip0(row.floor), a.scalers)
               y == Standardise("slot_area", row.width * row.height, a.scalers)
               z == Standardise("tag_count", Len(q), a.scalers)
    <2>2. scaled[1] = x /\ scaled[2] = y /\ scaled[3] = z /\ scaled = [k \in 1 .. 3 |-> scaled[k]]
      BY <1>3, <2>1
    <2>3. req.tags = q => BidderScaled(req, cfg) = <<x, y, z>>
      BY <1>5, <1>10, <1>q DEF BidderScaled, SameFields
    <2>4. req.tags = OneByOne(q) => RetrainerScaled(req, cfg) = <<x, y, z>>
      BY <1>5, <1>10, <1>q DEF RetrainerScaled, SameFields
    <2> HIDE DEF scaled, x, y, z
    <2>5. scaled = <<x, y, z>>
      BY <2>2
    <2> QED BY <2>3, <2>4, <2>5
  <1>11. inputs = [cat |-> catrows,
                   cont |-> <<scaled,
                              <<Flag(row.floor > 0), Flag(Weekday(row.date) >= 5)>>,
                              <<row.hour % 24, Weekday(row.date)>> >>,
                   tags |-> tagrows]
    BY <1>3 DEF Packed, EncodeRow
  <1> HIDE DEF inputs, scaled, catrows, tagrows
  <1>12. RetrainerEncode(rec, cfg) = inputs
    <2>1. RetrainerCat(rec, cfg) = catrows /\ RetrainerScaled(rec, cfg) = scaled
      BY <1>2, <1>8, <1>10
    <2>2. RetrainerTags(rec, cfg) = tagrows
      <3>1. [tags |-> q].tags = q
        OBVIOUS
      <3> QED BY <1>9, <3>1
    <2> QED BY <1>2, <1>11, <2>1, <2>2 DEF RetrainerEncode, SameFields
  <1>13. ASSUME NEW texts \in Forms(row.tags), row.hour <= 23
         PROVE  BidderEncode(FromProto(Request(row, texts)), cfg) = inputs
    <2> DEFINE req == FromProto(Request(row, texts))
    <2>1. SameFields(req, row) /\ req.tags = SplitAll(texts)
      BY RequestIs
    <2>2. SplitAll(texts) = q
      BY <1>1, <1>13, SplitIs DEF q
    <2> HIDE DEF req
    <2>3. BidderCat(req, cfg) = catrows /\ BidderScaled(req, cfg) = scaled /\ BidderTags(req, cfg) = tagrows
      BY <1>8, <1>9, <1>10, <2>1, <2>2
    <2>4. (IF req.hour > 23 THEN 0 ELSE req.hour) = row.hour % 24 /\ Sakamoto(req.date) = Weekday(row.date)
      <3>1. \A h \in 0 .. 99 : h <= 23 => h % 24 = h /\ (IF h > 23 THEN 0 ELSE h) = h
        OBVIOUS
      <3>2. row.hour \in 0 .. 99 /\ row.hour <= 23
        BY <1>1, <1>13
      <3>3. req.hour = row.hour /\ req.date = row.date
        BY <2>1 DEF SameFields
      <3>4. row.hour % 24 = row.hour /\ (IF row.hour > 23 THEN 0 ELSE row.hour) = row.hour
        BY ONLY <3>1, <3>2
      <3> QED BY <1>6, <3>3, <3>4
    <2>5. BidderEncode(req, cfg) = inputs
      BY <1>11, <2>1, <2>3, <2>4 DEF BidderEncode, SameFields
    <2> QED BY <2>5 DEF req
  <1>14. \A k \in DOMAIN CatFeatures : inputs.cat[k] < VocabSize(a, CatFeatures[k])
    <2>1. inputs.cat = [k \in DOMAIN CatFeatures |-> Lookup(a.encoders[CatFeatures[k]], f[CatFeatures[k]])]
      BY <1>11 DEF catrows
    <2>2. \A k \in 1 .. 2 : k = 1 \/ k = 2
      OBVIOUS
    <2> QED BY <1>4, <1>7, <2>1, <2>2
  <1>15. \A j \in 1 .. TagMaxLen : inputs.tags[j] < TagVocabSize(a)
    <2>1. inputs.tags = EncodeTags(row.tags, a.tag_vocab)
      BY <1>11 DEF tagrows
    <2>2. \A j \in 1 .. TagMaxLen : \/ inputs.tags[j] = 0
                                    \/ \E v : inputs.tags[j] = Lookup(a.tag_vocab, v)
      BY <2>1 DEF EncodeTags
    <2> QED BY <1>4, <2>2
  <1> QED BY <1>12, <1>13, <1>14, <1>15 DEF ServesAs, inputs, f, rec, cfg, q

\* For every row, known in training or not, the bidder gives the model the
\* inputs training would have, in whichever form its tags come, and the
\* retrainer does so for the record of a request whose tags came one by one;
\* every index is inside its table (async_server.cpp from_proto,
\* feature_store.cpp encode, retrain.py encode_record): for any logs and any
\* typed rows, with the exceptions the property states.
THEOREM ServedAsTrained == Spec => []ServingMatchesTraining
  <1>1. ASSUME NEW row \in Lines \cup Range(Without(TestLog, {Malformed})) PROVE row \in Row
    <2>1. CASE row \in Lines
      BY <2>1, PipelineAssumption
    <2>2. CASE row \in Range(Without(TestLog, {Malformed}))
      <3>1. TestLog \in Seq(Row \cup {Malformed})
        BY PipelineAssumption
      <3>2. Without(TestLog, {Malformed}) \in Seq((Row \cup {Malformed}) \ {Malformed})
        BY <3>1, WithoutKeeps
      <3>3. Range(Without(TestLog, {Malformed})) \subseteq (Row \cup {Malformed}) \ {Malformed}
        BY <3>2, RangeOfSeq
      <3> QED BY <2>2, <3>3
    <2> QED BY <2>1, <2>2
  <1>2. PipelineInv => ServingMatchesTraining
    <2> SUFFICES ASSUME PipelineInv, Published,
                        NEW row \in Lines \cup Range(Without(TestLog, {Malformed}))
                 PROVE  ServesAs(row, Art)
      BY DEF ServingMatchesTraining, ServesAs, Forms
    <2> USE DEF PipelineInv
    <2>1. pc \in {"cleanup", "done"}
      <3>1. run \in Nat
        BY DEF Typed
      <3> QED BY <3>1 DEF Published, Saved
    <2>2. Art = art /\ art = FittedTo(logs)
      BY <2>1 DEF Saved, Art, Counted, AfterFit, AfterEncode
    <2>3. IsLogs(logs) /\ row \in Row
      BY <1>1 DEF Typed
    <2> QED BY <2>2, <2>3, EveryRowServed
  <1> QED BY <1>2, PreprocessingInvariant, PTL
=============================================================================
