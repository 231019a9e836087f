---------------------------- MODULE InductionLemmas ----------------------------
(***************************************************************************)
(* Induction over the natural numbers in a form that takes no operator as a *)
(* parameter: what has the property is a set.  The other modules of proofs  *)
(* use it for the loops of the program, which are recursive functions of    *)
(* the number of passes made.                                               *)
(***************************************************************************)
EXTENDS Integers, Sequences, FiniteSetTheorems, TLAPS

\* A set of natural numbers that is not empty has a least element: of the initial
\* segments up to its elements one has no smaller one within it.
LEMMA LeastNumber ==
  ASSUME NEW T \in SUBSET Nat, T # {}
  PROVE  \E m \in T : \A n \in T : m <= n
<1>1. PICK k \in T : TRUE
  OBVIOUS
<1> DEFINE S == 0 .. k
           Segments == {0 .. n : n \in T \cap S}
<1>2. IsFiniteSet(S)
  BY FS_Interval
<1>3. IsWellFoundedOn(StrictSubsetOrdering(S), FiniteSubsetsOf(S))
  BY FS_StrictSubsetOrderingWellFounded
<1>4. Segments \subseteq FiniteSubsetsOf(S) /\ Segments # {}
  <2>1. \A n \in T \cap S : 0 .. n \in SUBSET S
    OBVIOUS
  <2>2. \A n \in T \cap S : IsFiniteSet(0 .. n)
    BY <2>1, <1>2, FS_Subset
  <2>3. 0 .. k \in Segments
    OBVIOUS
  <2> QED
    BY <2>1, <2>2, <2>3 DEF FiniteSubsetsOf
<1> HIDE DEF Segments
<1>5. PICK x \in Segments : \A y \in Segments : <<y, x>> \notin StrictSubsetOrdering(S)
  BY <1>3, <1>4, WFMin
<1>6. PICK m \in T \cap S : x = 0 .. m
  BY <1>5 DEF Segments
<1>7. ASSUME NEW n \in T, n < m
      PROVE  FALSE
  <2>1. 0 .. n \in Segments
    BY <1>6, <1>7 DEF Segments
  <2>2. 0 .. n \subseteq 0 .. m /\ 0 .. n # 0 .. m
    BY <1>6, <1>7, m \in 0 .. m, m \notin 0 .. n
  <2>3. 0 .. n \in SUBSET S /\ 0 .. m \in SUBSET S
    BY <2>1, <1>4, <1>6, <1>5 DEF FiniteSubsetsOf
  <2> QED
    BY <2>1, <2>2, <2>3, <1>5, <1>6 DEF StrictSubsetOrdering
<1> QED
  BY <1>6, <1>7

\* Induction up to n: what holds of 0, and of i + 1 whenever of i < n, holds up to n.
LEMMA InductionUpTo ==
  ASSUME NEW n \in Nat, NEW Holds,
         0 \in Holds,
         \A i \in 0 .. n - 1 : i \in Holds => i + 1 \in Holds
  PROVE  0 .. n \subseteq Holds
<1> SUFFICES ASSUME ~(0 .. n \subseteq Holds)
             PROVE  FALSE
  OBVIOUS
<1> DEFINE Fails == {i \in 0 .. n : i \notin Holds}
<1>1. Fails \in SUBSET Nat /\ Fails # {}
  OBVIOUS
<1>2. PICK m \in Fails : \A i \in Fails : m <= i
  BY <1>1, LeastNumber
<1>3. m \in 1 .. n
  BY <1>2
<1>4. m - 1 \in 0 .. n - 1 /\ m - 1 \in Holds
  BY <1>2, <1>3
<1> QED
  BY <1>2, <1>3, <1>4

\* g is base at 0, and at every i up to n what F[i] makes of the value before.
Follows(g, n, base, F) == g[0] = base /\ \A i \in 1 .. n : g[i] = F[i][g[i - 1]]

\* A recursion up to n by functions on D that begins in D has a solution.
LEMMA RecursionUpTo ==
  ASSUME NEW n \in Nat, NEW D, NEW base \in D, NEW F \in [1 .. n -> [D -> D]]
  PROVE  \E g \in [0 .. n -> D] : Follows(g, n, base, F)
<1> USE DEF Follows
<1> DEFINE Holds == {k \in 0 .. n : \E g \in [0 .. k -> D] : Follows(g, k, base, F)}
<1>1. 0 \in Holds
  <2> DEFINE g == [i \in 0 .. 0 |-> base]
  <2>1. g \in [0 .. 0 -> D] /\ Follows(g, 0, base, F)
    OBVIOUS
  <2> HIDE DEF g
  <2>2. \E f \in [0 .. 0 -> D] : Follows(f, 0, base, F)
    BY <2>1
  <2> QED
    BY <2>2
<1>2. ASSUME NEW k \in 0 .. n - 1, k \in Holds
      PROVE  k + 1 \in Holds
  <2>1. PICK g \in [0 .. k -> D] : Follows(g, k, base, F)
    BY <1>2
  <2> DEFINE next == F[k + 1][g[k]]
             h == [i \in 0 .. k + 1 |-> IF i = k + 1 THEN next ELSE g[i]]
  <2>2. next \in D
    <3>1. F[k + 1] \in [D -> D] /\ g[k] \in D
      OBVIOUS
    <3> QED
      BY <3>1
  <2>3. h \in [0 .. k + 1 -> D]
    BY <2>2
  <2>4. ASSUME NEW i \in 1 .. k + 1
        PROVE  h[i] = F[i][h[i - 1]]
    <3>1. CASE i = k + 1
      <4>1. h[i] = next /\ h[i - 1] = g[k]
        BY <3>1
      <4> QED
        BY <4>1, <3>1
    <3>2. CASE i \in 1 .. k
      <4>1. h[i] = g[i] /\ h[i - 1] = g[i - 1]
        BY <3>2
      <4>2. g[i] = F[i][g[i - 1]]
        BY <2>1, <3>2
      <4> QED
        BY <4>1, <4>2
    <3> QED
      BY <3>1, <3>2
  <2>5. h[0] = base
    BY <2>1
  <2> HIDE DEF h
  <2>6. Follows(h, k + 1, base, F)
    BY <2>4, <2>5
  <2>7. k + 1 \in 0 .. n
    OBVIOUS
  <2> QED
    BY <2>3, <2>6, <2>7
<1> HIDE DEF Holds
<1>3. \A i \in 0 .. n - 1 : i \in Holds => i + 1 \in Holds
  BY <1>2
<1>4. 0 .. n \subseteq Holds
  BY <1>1, <1>3, InductionUpTo
<1> QED
  BY <1>4 DEF Holds

\* What holds of the members of a first set, and of those of every next one when it
\* holds of those of the one before, holds of the members of the last.
LEMMA ClosedUpTo ==
  ASSUME NEW n \in Nat, NEW pass, NEW Good,
         pass[0] \subseteq Good,
         \A i \in 1 .. n : pass[i - 1] \subseteq Good => pass[i] \subseteq Good
  PROVE  pass[n] \subseteq Good
<1> DEFINE Holds == {i \in 0 .. n : pass[i] \subseteq Good}
<1>1. 0 \in Holds
  OBVIOUS
<1>2. ASSUME NEW i \in 0 .. n - 1, i \in Holds
      PROVE  i + 1 \in Holds
  <2>1. i + 1 \in 1 .. n /\ (i + 1) - 1 = i
    OBVIOUS
  <2>2. pass[(i + 1) - 1] \subseteq Good
    BY <2>1, <1>2
  <2>3. pass[i + 1] \subseteq Good
    BY <2>1, <2>2
  <2> QED
    BY <2>1, <2>3
<1> HIDE DEF Holds
<1>3. \A i \in 0 .. n - 1 : i \in Holds => i + 1 \in Holds
  BY <1>2
<1>4. 0 .. n \subseteq Holds
  BY <1>1, <1>3, InductionUpTo
<1> QED
  BY <1>4 DEF Holds

-----------------------------------------------------------------------------
(* Sums. *)

\* g[i] is the sum of the first i of the n numbers w.
Sums(g, w, n) == g[0] = 0 /\ \A i \in 1 .. n : g[i] = g[i - 1] + w[i]

\* There are sums, natural numbers for natural numbers.
LEMMA SumsExist ==
  ASSUME NEW n \in Nat, NEW w \in [1 .. n -> Nat]
  PROVE  \E g \in [0 .. n -> Nat] : Sums(g, w, n)
<1> DEFINE F == [i \in 1 .. n |-> [x \in Nat |-> x + w[i]]]
<1>1. F \in [1 .. n -> [Nat -> Nat]]
  OBVIOUS
<1>2. \A i \in 1 .. n : \A x \in Nat : F[i][x] = x + w[i]
  OBVIOUS
<1> HIDE DEF F
<1>3. PICK g \in [0 .. n -> Nat] : Follows(g, n, 0, F)
  BY <1>1, RecursionUpTo
<1>4. \A i \in 1 .. n : g[i - 1] \in Nat
  OBVIOUS
<1>5. Sums(g, w, n)
  BY <1>2, <1>3, <1>4 DEF Follows, Sums
<1> QED
  BY <1>5

\* The sum does not depend on what computes it.
LEMMA SumsAgree ==
  ASSUME NEW n \in Nat, NEW w, NEW g, NEW h, Sums(g, w, n), Sums(h, w, n)
  PROVE  g[n] = h[n]
<1> DEFINE Holds == {i \in 0 .. n : g[i] = h[i]}
<1>1. 0 \in Holds
  BY DEF Sums
<1>2. ASSUME NEW i \in 0 .. n - 1, i \in Holds
      PROVE  i + 1 \in Holds
  <2>1. i + 1 \in 1 .. n /\ (i + 1) - 1 = i
    OBVIOUS
  <2>2. g[i + 1] = g[i] + w[i + 1] /\ h[i + 1] = h[i] + w[i + 1]
    BY <2>1 DEF Sums
  <2> QED
    BY <1>2, <2>1, <2>2
<1>3. \A i \in 0 .. n - 1 : i \in Holds => i + 1 \in Holds
  BY <1>2
<1> HIDE DEF Holds
<1>4. 0 .. n \subseteq Holds
  BY <1>1, <1>3, InductionUpTo
<1> QED
  BY <1>4 DEF Holds

\* v is w without its first number.
Rest(v, w, n) ==
  v \in [1 .. n -> Nat] /\ w \in [1 .. n + 1 -> Nat] /\ \A i \in 1 .. n : v[i] = w[i + 1]

\* g sums w, and h its rest v.
RestSums(g, h, w, v, n) == Sums(g, w, n + 1) /\ Sums(h, v, n) /\ Rest(v, w, n)

\* After the first number they differ by it.
Differ(g, h, w, n) == g[n + 1] = w[1] + h[n]

\* The sum without the first number.
LEMMA SumsOfRest ==
  ASSUME NEW n \in Nat, NEW w, NEW v, NEW g, NEW h, RestSums(g, h, w, v, n)
  PROVE  Differ(g, h, w, n)
<1> USE DEF Rest, RestSums, Differ
<1> DEFINE Holds == {i \in 0 .. n : h[i] \in Nat /\ g[i + 1] = w[1] + h[i]}
<1>1. 0 \in Holds
  <2>1. g[1] = g[1 - 1] + w[1] /\ g[0] = 0 /\ h[0] = 0 /\ w[1] \in Nat
    BY DEF Sums
  <2> QED
    BY <2>1
<1>2. ASSUME NEW i \in 0 .. n - 1, i \in Holds
      PROVE  i + 1 \in Holds
  <2>1. /\ i + 1 \in 1 .. n /\ (i + 1) - 1 = i
        /\ i + 2 \in 1 .. n + 1 /\ (i + 2) - 1 = i + 1 /\ (i + 1) + 1 = i + 2
    OBVIOUS
  <2>2. h[i + 1] = h[i] + v[i + 1] /\ g[i + 2] = g[i + 1] + w[i + 2] /\ v[i + 1] = w[i + 2]
    BY <2>1 DEF Sums
  <2>3. v[i + 1] \in Nat /\ w[1] \in Nat
    BY <2>1
  <2>4. h[i] \in Nat /\ g[i + 1] = w[1] + h[i]
    BY <1>2
  <2>5. h[i + 1] \in Nat /\ g[i + 2] = w[1] + h[i + 1]
    <3>1. h[i + 1] = h[i] + v[i + 1] /\ g[i + 2] = (w[1] + h[i]) + v[i + 1]
      BY <2>2, <2>4
    <3> QED
      BY <3>1, <2>3, <2>4
  <2>7. g[(i + 1) + 1] = g[i + 2]
    BY <2>1
  <2>6. i + 1 \in 0 .. n
    BY <2>1
  <2> QED
    BY <2>5, <2>6, <2>7
<1>3. \A i \in 0 .. n - 1 : i \in Holds => i + 1 \in Holds
  BY <1>2
<1> HIDE DEF Holds
<1>4. 0 .. n \subseteq Holds
  BY <1>1, <1>3, InductionUpTo
<1> QED
  BY <1>4 DEF Holds

\* The weight of a sequence: of its members together.
Weight(w, s) ==
  LET sum[i \in 0 .. Len(s)] == IF i = 0 THEN 0 ELSE sum[i - 1] + w[s[i]]
  IN  sum[Len(s)]

Weights(w, s) == [i \in 1 .. Len(s) |-> w[s[i]]]

LEMMA WeightIsSum ==
  ASSUME NEW S, NEW w \in [S -> Nat], NEW s \in Seq(S)
  PROVE  \E g \in [0 .. Len(s) -> Nat] :
           Sums(g, Weights(w, s), Len(s)) /\ Weight(w, s) = g[Len(s)]
<1> DEFINE v == [i \in 1 .. Len(s) |-> w[s[i]]]
           Step(sum) == [i \in 0 .. Len(s) |-> IF i = 0 THEN 0 ELSE sum[i - 1] + w[s[i]]]
           chosen == CHOOSE sum : sum = Step(sum)
<1>1. v \in [1 .. Len(s) -> Nat] /\ Len(s) \in Nat
  OBVIOUS
<1>2. \A i \in 1 .. Len(s) : v[i] = w[s[i]]
  OBVIOUS
<1> HIDE DEF v
<1>3. PICK g \in [0 .. Len(s) -> Nat] : Sums(g, v, Len(s))
  BY <1>1, SumsExist
<1>4. ASSUME NEW i \in 0 .. Len(s)
      PROVE  g[i] = IF i = 0 THEN 0 ELSE g[i - 1] + w[s[i]]
  <2>1. CASE i = 0
    BY <2>1, <1>3 DEF Sums
  <2>2. CASE i \in 1 .. Len(s)
    BY <2>2, <1>2, <1>3 DEF Sums
  <2> QED
    BY <2>1, <2>2
<1>5. g = Step(g)
  BY <1>4
<1>6. chosen = Step(chosen)
  BY <1>5
<1>7. Weight(w, s) = chosen[Len(s)]
  BY DEF Weight
<1> HIDE DEF chosen
<1>8. \A i \in 0 .. Len(s) : Step(chosen)[i] = IF i = 0 THEN 0 ELSE chosen[i - 1] + w[s[i]]
  OBVIOUS
<1> HIDE DEF Step
<1>9. Sums(chosen, v, Len(s))
  <2>1. \A i \in 0 .. Len(s) : chosen[i] = IF i = 0 THEN 0 ELSE chosen[i - 1] + w[s[i]]
    BY <1>6, <1>8
  <2>2. chosen[0] = 0
    BY <1>1, <2>1
  <2>3. \A i \in 1 .. Len(s) : i \in 0 .. Len(s) /\ i # 0
    BY <1>1
  <2>4. \A i \in 1 .. Len(s) : chosen[i] = chosen[i - 1] + v[i]
    BY <2>1, <2>3, <1>2
  <2> QED
    BY <2>2, <2>4 DEF Sums
<1>10. chosen[Len(s)] = g[Len(s)]
  BY <1>1, <1>3, <1>9, SumsAgree
<1>11. v = Weights(w, s)
  BY DEF v, Weights
<1> QED
  BY <1>3, <1>7, <1>10, <1>11

\* A weight is a natural number.
LEMMA WeightType ==
  ASSUME NEW S, NEW w \in [S -> Nat], NEW s \in Seq(S)
  PROVE  Weight(w, s) \in Nat
<1>1. PICK g \in [0 .. Len(s) -> Nat] : Weight(w, s) = g[Len(s)]
  BY WeightIsSum
<1> QED
  BY <1>1

\* The empty sequence weighs nothing.
LEMMA WeightOfNone ==
  ASSUME NEW S, NEW w \in [S -> Nat]
  PROVE  Weight(w, <<>>) = 0
<1>1. <<>> \in Seq(S) /\ Len(<<>>) = 0
  OBVIOUS
<1>2. PICK g \in [0 .. Len(<<>>) -> Nat] :
        Sums(g, Weights(w, <<>>), Len(<<>>)) /\ Weight(w, <<>>) = g[Len(<<>>)]
  BY <1>1, WeightIsSum
<1> QED
  BY <1>1, <1>2 DEF Sums

\* A member that is appended adds its weight.
LEMMA WeightOfAppend ==
  ASSUME NEW S, NEW w \in [S -> Nat], NEW s \in Seq(S), NEW e \in S
  PROVE  Weight(w, Append(s, e)) = Weight(w, s) + w[e]
<1> DEFINE r == Append(s, e)
           n == Len(s)
           v == Weights(w, s)
           x == Weights(w, r)
<1>1. r \in Seq(S) /\ Len(r) = n + 1 /\ n \in Nat
  OBVIOUS
<1>2. PICK g \in [0 .. n -> Nat] : Sums(g, v, n) /\ Weight(w, s) = g[n]
  BY WeightIsSum
<1>3. PICK h \in [0 .. n + 1 -> Nat] : Sums(h, x, n + 1) /\ Weight(w, r) = h[n + 1]
  BY <1>1, WeightIsSum
<1>4. (\A i \in 1 .. n : v[i] = x[i]) /\ x[n + 1] = w[e]
  BY DEF Weights
<1> HIDE DEF v, x
<1>5. Sums(h, v, n)
  BY <1>1, <1>3, <1>4 DEF Sums
<1>6. g[n] = h[n]
  BY <1>1, <1>2, <1>5, SumsAgree
<1>7. h[n + 1] = h[n] + x[n + 1]
  <2>1. n + 1 \in 1 .. n + 1 /\ (n + 1) - 1 = n
    BY <1>1
  <2> QED
    BY <1>3, <2>1 DEF Sums
<1> QED
  BY <1>2, <1>3, <1>4, <1>6, <1>7

\* The first member and the others.
LEMMA WeightOfTail ==
  ASSUME NEW S, NEW w \in [S -> Nat], NEW s \in Seq(S), s # <<>>
  PROVE  Weight(w, s) = w[Head(s)] + Weight(w, Tail(s))
<1> DEFINE r == Tail(s)
           n == Len(r)
           v == Weights(w, r)
           x == Weights(w, s)
<1>1. r \in Seq(S) /\ Len(s) = n + 1 /\ n \in Nat
  OBVIOUS
<1>2. PICK g \in [0 .. n -> Nat] : Sums(g, v, n) /\ Weight(w, r) = g[n]
  BY <1>1, WeightIsSum
<1>3. PICK h \in [0 .. n + 1 -> Nat] : Sums(h, x, n + 1) /\ Weight(w, s) = h[n + 1]
  BY <1>1, WeightIsSum
<1>4. v \in [1 .. n -> Nat] /\ x \in [1 .. n + 1 -> Nat]
  BY <1>1 DEF Weights
<1>5. (\A i \in 1 .. n : v[i] = x[i + 1]) /\ x[1] = w[Head(s)]
  BY <1>1 DEF Weights
<1> HIDE DEF v, x, n
<1>6. h[n + 1] = x[1] + g[n]
  <2>1. Rest(v, x, n)
    BY <1>4, <1>5 DEF Rest
  <2>2. RestSums(h, g, x, v, n)
    BY <1>2, <1>3, <2>1 DEF RestSums
  <2>3. n \in Nat
    BY <1>1
  <2>4. Differ(h, g, x, n)
    BY <2>2, <2>3, SumsOfRest
  <2> QED
    BY <2>4 DEF Differ
<1> QED
  BY <1>2, <1>3, <1>5, <1>6

\* What has no weight by one measure has none by another that weighs nothing else.
LEMMA WeightlessToo ==
  ASSUME NEW S, NEW v \in [S -> Nat], NEW w \in [S -> Nat], NEW s \in Seq(S),
         \A e \in S : v[e] = 0 => w[e] = 0,
         Weight(v, s) = 0
  PROVE  Weight(w, s) = 0
<1> DEFINE n == Len(s)
           x == Weights(v, s)
           y == Weights(w, s)
<1>1. PICK g \in [0 .. n -> Nat] : Sums(g, x, n) /\ Weight(v, s) = g[n]
  BY WeightIsSum
<1>2. PICK h \in [0 .. n -> Nat] : Sums(h, y, n) /\ Weight(w, s) = h[n]
  BY WeightIsSum
<1>3. n \in Nat /\ \A i \in 1 .. n : x[i] \in Nat /\ y[i] \in Nat /\ (x[i] = 0 => y[i] = 0)
  BY DEF Weights
<1> HIDE DEF x, y, n
<1> DEFINE Holds == {i \in 0 .. n : g[i] = 0 => h[i] = 0}
<1>4. 0 \in Holds
  BY <1>2, <1>3 DEF Sums
<1>5. ASSUME NEW i \in 0 .. n - 1, i \in Holds
      PROVE  i + 1 \in Holds
  <2>1. i + 1 \in 1 .. n /\ (i + 1) - 1 = i
    BY <1>3
  <2>2. g[i + 1] = g[i] + x[i + 1] /\ h[i + 1] = h[i] + y[i + 1]
    BY <1>1, <1>2, <2>1 DEF Sums
  <2>3. g[i] \in Nat /\ h[i] \in Nat /\ x[i + 1] \in Nat /\ y[i + 1] \in Nat
    BY <1>3, <2>1
  <2>4. x[i + 1] = 0 => y[i + 1] = 0
    BY <1>3, <2>1
  <2>5. g[i] = 0 => h[i] = 0
    BY <1>5
  <2>6. g[i + 1] = 0 => g[i] = 0 /\ x[i + 1] = 0
    BY <2>2, <2>3
  <2>7. g[i + 1] = 0 => h[i + 1] = 0
    BY <2>2, <2>3, <2>4, <2>5, <2>6
  <2>8. i + 1 \in 0 .. n
    BY <1>3, <2>1
  <2> QED
    BY <2>7, <2>8
<1>6. \A i \in 0 .. n - 1 : i \in Holds => i + 1 \in Holds
  BY <1>5
<1> HIDE DEF Holds
<1>7. 0 .. n \subseteq Holds
  BY <1>3, <1>4, <1>6, InductionUpTo
<1> QED
  BY <1>1, <1>2, <1>3, <1>7 DEF Holds

\* Members without weight weigh nothing together.
LEMMA WeightOfNothing ==
  ASSUME NEW S, NEW w \in [S -> Nat], NEW s \in Seq(S), \A i \in 1 .. Len(s) : w[s[i]] = 0
  PROVE  Weight(w, s) = 0
<1> DEFINE n == Len(s)
           x == Weights(w, s)
           zero == [i \in 0 .. n |-> 0]
<1>1. PICK g \in [0 .. n -> Nat] : Sums(g, x, n) /\ Weight(w, s) = g[n]
  BY WeightIsSum
<1>2. n \in Nat /\ \A i \in 1 .. n : x[i] = 0
  BY DEF Weights
<1>3. zero[n] = 0
  BY <1>2
<1>4. Sums(zero, x, n)
  BY <1>2 DEF Sums
<1> HIDE DEF x, zero, n
<1> QED
  BY <1>1, <1>2, <1>3, <1>4, SumsAgree

=============================================================================
