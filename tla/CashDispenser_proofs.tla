--------------------------- MODULE CashDispenser_proofs --------------------------
(***************************************************************************)
(* Proofs about paying out the change: the types, that the manager knows     *)
(* what is in the units but for what left them without a report, that what   *)
(* comes out and is told is taken off the change, and that no more comes out. *)
(*                                                                         *)
(* The queue of signals is weighed by several measures (InductionLemmas):    *)
(* what the notes reported are worth, how many batches are reported, and for  *)
(* a unit how many notes its signals count off and whether one says it is      *)
(* empty.  A signal that is queued or handled changes each measure by what    *)
(* it weighs itself.                                                        *)
(***************************************************************************)
EXTENDS CashDispenser, InductionLemmas

Signal == [unit : Units, kind : {"dispensed", "rejected", "empty"}, items : Nat]

\* The measures.
Worths == [e \in Signal |-> Worth(e)]
Reports == [e \in Signal |-> IF e.kind = "dispensed" THEN 1 ELSE 0]
Notes == [u \in Units |-> [e \in Signal |-> IF e.unit = u /\ e.kind # "empty" THEN e.items ELSE 0]]
Empties == [u \in Units |-> [e \in Signal |-> IF e.unit = u /\ e.kind = "empty" THEN 1 ELSE 0]]

-----------------------------------------------------------------------------
(* Arithmetic. *)

LEMMA ProductType == \A x, y \in Nat : x * y \in Nat
OBVIOUS

LEMMA ProductOfDifference == \A x, y, z \in Nat : y <= x => x * z = y * z + (x - y) * z
OBVIOUS

LEMMA ProductGrows == \A x, y, z \in Nat : x <= y => x * z <= y * z
OBVIOUS

\* A quotient is the number of times the divisor fits.
LEMMA QuotientFits ==
  ASSUME NEW x \in Nat, NEW n \in Nat \ {0}
  PROVE  x \div n \in Nat /\ (x \div n) * n <= x
OBVIOUS

LEMMA LeastType ==
  ASSUME NEW x \in Nat, NEW y \in Nat
  PROVE  Least(x, y) \in Nat /\ Least(x, y) <= x /\ Least(x, y) <= y
BY DEF Least

-----------------------------------------------------------------------------
(* The measures. *)

LEMMA MeasureTypes ==
  /\ Worths \in [Signal -> Nat] /\ Reports \in [Signal -> Nat]
  /\ \A u \in Units : Notes[u] \in [Signal -> Nat] /\ Empties[u] \in [Signal -> Nat]
<1>1. \A e \in Signal : Worth(e) \in Nat
  BY NominalAssumption, ProductType DEF Worth, Signal
<1>2. Worths \in [Signal -> Nat]
  BY <1>1 DEF Worths
<1>3. Reports \in [Signal -> Nat]
  BY DEF Reports
<1>4. \A u \in Units : Notes[u] \in [Signal -> Nat]
  BY DEF Notes, Signal
<1>5. \A u \in Units : Empties[u] \in [Signal -> Nat]
  BY DEF Empties, Signal
<1> QED
  BY <1>2, <1>3, <1>4, <1>5

\* What is not reported yet, by the recursion of the module and as a weight.
WorthOf(s) ==
  LET worth[i \in 0 .. Len(s)] ==
        IF i = 0 THEN 0 ELSE worth[i - 1] + Worth(s[i])
  IN  worth[Len(s)]

LEMMA UnheardUnfolds == Unheard = WorthOf(events)
BY DEF Unheard, WorthOf

LEMMA WorthIsWeight ==
  ASSUME NEW s \in Seq(Signal)
  PROVE  WorthOf(s) = Weight(Worths, s)
<1> DEFINE Step(sum) == [i \in 0 .. Len(s) |-> IF i = 0 THEN 0 ELSE sum[i - 1] + Worth(s[i])]
           chosen == CHOOSE worth : worth = Step(worth)
<1>1. PICK g \in [0 .. Len(s) -> Nat] :
        Sums(g, Weights(Worths, s), Len(s)) /\ Weight(Worths, s) = g[Len(s)]
  BY MeasureTypes, WeightIsSum
<1>2. \A i \in 1 .. Len(s) : Weights(Worths, s)[i] = Worth(s[i])
  BY DEF Weights, Worths
<1>3. ASSUME NEW i \in 0 .. Len(s)
      PROVE  g[i] = IF i = 0 THEN 0 ELSE g[i - 1] + Worth(s[i])
  <2>1. CASE i = 0
    BY <2>1, <1>1 DEF Sums
  <2>2. CASE i \in 1 .. Len(s)
    BY <2>2, <1>1, <1>2 DEF Sums
  <2> QED
    BY <2>1, <2>2
<1>4. g = Step(g)
  BY <1>3
<1>5. chosen = Step(chosen)
  BY <1>4
<1>6. WorthOf(s) = chosen[Len(s)]
  BY DEF WorthOf
<1> HIDE DEF chosen
<1>7. \A i \in 0 .. Len(s) : Step(chosen)[i] = IF i = 0 THEN 0 ELSE chosen[i - 1] + Worth(s[i])
  OBVIOUS
<1> HIDE DEF Step
<1>8. Sums(chosen, Weights(Worths, s), Len(s))
  BY <1>2, <1>5, <1>7 DEF Sums
<1>9. chosen[Len(s)] = g[Len(s)]
  BY <1>1, <1>8, SumsAgree
<1> QED
  BY <1>1, <1>6, <1>9

-----------------------------------------------------------------------------
(* What can be paid out. *)

\* The types in the form the proofs use.
LEMMA TypeFacts ==
  TypeOK <=> /\ stock \in [Units -> Nat] /\ count \in [Units -> Nat] /\ gone \in [Units -> Nat]
             /\ known \in [Units -> BOOLEAN] /\ error \subseteq Units
             /\ job \in [Units -> Seq(Nat)] /\ events \in Seq(Signal)
             /\ amounts \in [toDispensing : Int, dispensed : Nat]
             /\ main \in {"idle", "decide", "again"}
             /\ waiting \in BOOLEAN /\ silent \in BOOLEAN /\ crossed \in BOOLEAN
             /\ available \in Nat /\ change \in Nat /\ paid \in Nat
             /\ untold \in Nat /\ stale \in Nat /\ overdrawn \in Nat
             /\ bounds \in [calls : 0 .. MaxCalls, faults : 0 .. MaxFaults]
BY DEF TypeOK, Signal

\* The notes of a nominal are finitely many.
LEMMA CountOfType ==
  ASSUME count \in [Units -> Nat], NEW n, NEW a
  PROVE  CountOf(n, a) \in Nat
<1> DEFINE U == {v \in Usable(a) : Nominal[v] = n}
           P == {{u} \X (1 .. count[u]) : u \in U}
<1>1. U \subseteq Units /\ IsFiniteSet(U)
  <2>1. U \subseteq Units
    BY DEF Usable
  <2> QED
    BY <2>1, UnitsAssumption, FS_Subset
<1>2. IsFiniteSet(P)
  <2> DEFINE f == [u \in U |-> {u} \X (1 .. count[u])]
  <2>1. f \in Surjection(U, P)
    BY DEF Surjection
  <2> QED
    BY <1>1, <2>1, FS_Surjection
<1>3. \A X \in P : IsFiniteSet(X)
  <2> SUFFICES ASSUME NEW u \in U
               PROVE  IsFiniteSet({u} \X (1 .. count[u]))
    OBVIOUS
  <2>1. IsFiniteSet({u})
    BY FS_Singleton
  <2>2. count[u] \in Nat
    BY <1>1
  <2>3. IsFiniteSet(1 .. count[u])
    BY <2>2, FS_Interval
  <2> QED
    BY <2>1, <2>3, FS_Product
<1>4. IsFiniteSet(UNION P)
  BY <1>2, <1>3, FS_UNION
<1> QED
  BY <1>4, FS_CardinalityType DEF CountOf

\* canDispense() never finds more than it is asked for.
LEMMA CanDispenseType ==
  ASSUME count \in [Units -> Nat], NEW a \in Int
  PROVE  CanDispense(a) \in Nat /\ (a > 0 => CanDispense(a) <= a)
<1> SUFFICES ASSUME a > 0
             PROVE  CanDispense(a) \in 0 .. a
  BY DEF CanDispense
<1> DEFINE more(sum, i) ==
             sum + (a - i + 1) * Least(CountOf(a - i + 1, a), (a - sum) \div (a - i + 1))
           Step(found) == [i \in 0 .. a |->
             IF i = 0 THEN 0
             ELSE LET sum == found[i - 1]
                      n   == a - i + 1
                  IN  sum + n * Least(CountOf(n, a), (a - sum) \div n)]
           chosen == CHOOSE found : found = Step(found)
           F == [i \in 1 .. a |-> [x \in 0 .. a |-> more(x, i)]]
<1>1. ASSUME NEW i \in 1 .. a, NEW x \in 0 .. a
      PROVE  more(x, i) \in 0 .. a
  <2> DEFINE n == a - i + 1
             q == (a - x) \div n
             c == Least(CountOf(n, a), q)
  <2>1. n \in Nat \ {0} /\ a - x \in Nat
    OBVIOUS
  <2>2. CountOf(n, a) \in Nat
    BY CountOfType
  <2> HIDE DEF n
  <2>3. q \in Nat /\ q * n <= a - x
    BY <2>1, QuotientFits
  <2> HIDE DEF q
  <2>4. c \in Nat /\ c <= q
    BY <2>2, <2>3, LeastType
  <2> HIDE DEF c
  <2>5. c * n \in Nat /\ c * n <= q * n /\ q * n \in Nat
    BY <2>1, <2>3, <2>4, ProductType, ProductGrows
  <2>6. n * c = c * n
    BY <2>1, <2>4
  <2>7. x + n * c \in 0 .. a
    BY <2>1, <2>3, <2>5, <2>6
  <2> QED
    BY <2>7 DEF n, q, c
<1> HIDE DEF more
<1>2. F \in [1 .. a -> [0 .. a -> 0 .. a]]
  BY <1>1
<1>3. \A i \in 1 .. a : \A x \in 0 .. a : F[i][x] = more(x, i)
  OBVIOUS
<1> HIDE DEF F
<1>4. PICK g \in [0 .. a -> 0 .. a] : Follows(g, a, 0, F)
  <2>1. a \in Nat /\ 0 \in 0 .. a
    OBVIOUS
  <2> QED
    BY <1>2, <2>1, RecursionUpTo
<1>5. ASSUME NEW i \in 0 .. a
      PROVE  g[i] = IF i = 0 THEN 0 ELSE more(g[i - 1], i)
  <2>1. CASE i = 0
    BY <2>1, <1>4 DEF Follows
  <2>2. CASE i # 0
    <3>1. i \in 1 .. a /\ i - 1 \in 0 .. a
      BY <2>2
    <3>2. g[i] = F[i][g[i - 1]]
      BY <3>1, <1>4 DEF Follows
    <3>3. g[i - 1] \in 0 .. a
      BY <3>1, <1>4
    <3>4. F[i][g[i - 1]] = more(g[i - 1], i)
      BY <3>1, <3>3, <1>3
    <3> QED
      BY <3>2, <3>4, <2>2
  <2> QED
    BY <2>1, <2>2
<1>6. \A h : Step(h) = [i \in 0 .. a |-> IF i = 0 THEN 0 ELSE more(h[i - 1], i)]
  BY DEF more
<1> HIDE DEF Step
<1>7. g = Step(g)
  BY <1>5, <1>6
<1>8. chosen = Step(chosen)
  BY <1>7
<1>9. CanDispense(a) = chosen[a]
  BY DEF CanDispense, Step
<1> HIDE DEF chosen
<1>10. \A i \in 0 .. a : chosen[i] = IF i = 0 THEN 0 ELSE more(chosen[i - 1], i)
  <2>1. chosen = [i \in 0 .. a |-> IF i = 0 THEN 0 ELSE more(chosen[i - 1], i)]
    BY <1>6, <1>8
  <2> QED
    BY <2>1
<1> DEFINE Holds == {i \in 0 .. a : chosen[i] \in 0 .. a}
<1>11. 0 \in Holds
  BY <1>10
<1>12. ASSUME NEW i \in 0 .. a - 1, i \in Holds
       PROVE  i + 1 \in Holds
  <2>1. i + 1 \in 1 .. a /\ (i + 1) - 1 = i
    OBVIOUS
  <2>2. chosen[i + 1] = more(chosen[i], i + 1)
    BY <1>10, <2>1
  <2>3. more(chosen[i], i + 1) \in 0 .. a
    BY <1>1, <1>12, <2>1
  <2>4. i + 1 \in 0 .. a
    OBVIOUS
  <2> QED
    BY <2>2, <2>3, <2>4
<1>13. \A i \in 0 .. a - 1 : i \in Holds => i + 1 \in Holds
  BY <1>12
<1> HIDE DEF Holds
<1>14. 0 .. a \subseteq Holds
  <2>1. a \in Nat
    OBVIOUS
  <2> QED
    BY <1>11, <1>13, <2>1, InductionUpTo
<1> QED
  BY <1>9, <1>14 DEF Holds

\* A batch is not worth more than it is asked for.
LEMMA BatchFits ==
  ASSUME count \in [Units -> Nat], NEW a \in Int, NEW u \in Largest(a)
  PROVE  /\ u \in Units /\ Batch(u, a) \in Nat /\ a > 0
         /\ Batch(u, a) * Nominal[u] <= a
<1>1. u \in Units /\ Nominal[u] <= a /\ Nominal[u] \in Nat \ {0}
  BY NominalAssumption DEF Largest, Usable
<1>2. a \in Nat /\ a > 0 /\ count[u] \in Nat
  BY <1>1
<1> DEFINE q == a \div Nominal[u]
<1>3. q \in Nat /\ q * Nominal[u] <= a
  BY <1>1, <1>2, QuotientFits
<1> HIDE DEF q
<1>4. Least(count[u], q) \in Nat /\ Least(count[u], q) <= q
  BY <1>2, <1>3, LeastType
<1>5. /\ Least(count[u], q) * Nominal[u] <= q * Nominal[u]
      /\ Least(count[u], q) * Nominal[u] \in Nat /\ q * Nominal[u] \in Nat
  BY <1>1, <1>3, <1>4, ProductGrows, ProductType
<1> QED
  BY <1>1, <1>2, <1>3, <1>4, <1>5 DEF Batch, q

-----------------------------------------------------------------------------
(* Signals are queued and handled. *)

\* What the report of a batch adds to the queue.
LEMMA ComeOutQueues ==
  ASSUME TypeOK, NEW u \in Units, NEW k \in Nat, NEW r \in Nat, NEW n \in Nat,
         NEW s \in Nat, ComeOut(u, k, r, n, s)
  PROVE  /\ events' \in Seq(Signal) /\ known' \in [Units -> BOOLEAN]
         /\ Weight(Worths, events') = Weight(Worths, events) + n * Nominal[u]
         /\ Weight(Reports, events') = Weight(Reports, events) + 1
         /\ \A v \in Units :
              Weight(Notes[v], events') = Weight(Notes[v], events) + (IF v = u THEN n + s ELSE 0)
         /\ \A v \in Units :
              \/ Weight(Empties[v], events') = Weight(Empties[v], events)
              \/ v = u /\ stock'[u] = 0
<1>1. events \in Seq(Signal) /\ known \in [Units -> BOOLEAN]
  BY TypeFacts
<1>2. PICK empty \in {FALSE, stock'[u] = 0} :
        /\ known' = [known EXCEPT ![u] = @ /\ ~empty]
        /\ events' = events \o (IF empty THEN <<Event(u, "empty", 0)>> ELSE <<>>)
                            \o (IF s > 0 THEN <<Event(u, "rejected", s)>> ELSE <<>>)
                            \o <<Event(u, "dispensed", n)>>
  BY DEF ComeOut
<1> DEFINE E == Event(u, "empty", 0)
           R == Event(u, "rejected", s)
           D == Event(u, "dispensed", n)
           first  == IF empty THEN Append(events, E) ELSE events
           second == IF s > 0 THEN Append(first, R) ELSE first
<1>3. E \in Signal /\ R \in Signal /\ D \in Signal
  BY DEF Event, Signal
<1>4. /\ E.unit = u /\ E.kind = "empty" /\ E.items = 0
      /\ R.unit = u /\ R.kind = "rejected" /\ R.items = s
      /\ D.unit = u /\ D.kind = "dispensed" /\ D.items = n
  BY DEF Event
<1> HIDE DEF E, R, D
<1>5. first \in Seq(Signal)
  BY <1>1, <1>3
<1>6. first = events \o (IF empty THEN <<E>> ELSE <<>>)
  BY <1>1, <1>3
<1> HIDE DEF first
<1>7. second \in Seq(Signal)
  BY <1>3, <1>5
<1>8. second = first \o (IF s > 0 THEN <<R>> ELSE <<>>)
  BY <1>3, <1>5
<1> HIDE DEF second
<1>9. events' = Append(second, D)
  <2>1. events' = second \o <<D>>
    BY <1>2, <1>6, <1>8 DEF E, R, D
  <2> QED
    BY <2>1, <1>3, <1>7
<1>10. events' \in Seq(Signal)
  BY <1>3, <1>7, <1>9
<1>11. ASSUME NEW w \in [Signal -> Nat]
       PROVE  Weight(w, events') = Weight(w, events) + (IF empty THEN w[E] ELSE 0)
                                   + (IF s > 0 THEN w[R] ELSE 0) + w[D]
  <2>1. Weight(w, events) \in Nat /\ w[E] \in Nat /\ w[R] \in Nat /\ w[D] \in Nat
    BY <1>1, <1>3, WeightType
  <2>2. Weight(w, first) = Weight(w, events) + (IF empty THEN w[E] ELSE 0)
    BY <1>1, <1>3, <2>1, WeightOfAppend DEF first
  <2>3. Weight(w, second) = Weight(w, first) + (IF s > 0 THEN w[R] ELSE 0)
    <3>1. Weight(w, first) \in Nat
      BY <1>5, WeightType
    <3>2. CASE s > 0
      <4>1. second = Append(first, R)
        BY <3>2 DEF second
      <4>2. Weight(w, Append(first, R)) = Weight(w, first) + w[R]
        BY <1>3, <1>5, WeightOfAppend
      <4> QED
        BY <3>2, <4>1, <4>2
    <3>3. CASE ~(s > 0)
      BY <3>1, <3>3 DEF second
    <3> QED
      BY <3>2, <3>3
  <2>4. Weight(w, events') = Weight(w, second) + w[D]
    BY <1>3, <1>7, <1>9, WeightOfAppend
  <2> QED
    BY <2>2, <2>3, <2>4
<1>12. Weight(Worths, events') = Weight(Worths, events) + n * Nominal[u]
  <2>1. Worths[E] = 0 /\ Worths[R] = 0 /\ Worths[D] = n * Nominal[u]
    BY <1>3, <1>4 DEF Worths, Worth
  <2>2. Weight(Worths, events) \in Nat /\ n * Nominal[u] \in Nat
    BY <1>1, MeasureTypes, WeightType, NominalAssumption, ProductType
  <2> QED
    BY <1>11, <2>1, <2>2, MeasureTypes
<1>13. Weight(Reports, events') = Weight(Reports, events) + 1
  <2>1. Reports[E] = 0 /\ Reports[R] = 0 /\ Reports[D] = 1
    BY <1>3, <1>4 DEF Reports
  <2>2. Weight(Reports, events) \in Nat
    BY <1>1, MeasureTypes, WeightType
  <2> QED
    BY <1>11, <2>1, <2>2, MeasureTypes
<1>14. ASSUME NEW v \in Units
       PROVE  /\ Weight(Notes[v], events') = Weight(Notes[v], events) + (IF v = u THEN n + s ELSE 0)
              /\ \/ Weight(Empties[v], events') = Weight(Empties[v], events)
                 \/ v = u /\ stock'[u] = 0
  <2>1. /\ Notes[v][E] = 0
        /\ Notes[v][R] = (IF v = u THEN s ELSE 0) /\ Notes[v][D] = (IF v = u THEN n ELSE 0)
    BY <1>3, <1>4 DEF Notes
  <2>2. /\ Empties[v][E] = (IF v = u THEN 1 ELSE 0) /\ Empties[v][R] = 0 /\ Empties[v][D] = 0
    BY <1>3, <1>4 DEF Empties
  <2>3. Weight(Notes[v], events) \in Nat /\ Weight(Empties[v], events) \in Nat
    BY <1>1, MeasureTypes, WeightType
  <2>4. Weight(Notes[v], events') = Weight(Notes[v], events) + (IF empty THEN Notes[v][E] ELSE 0)
                                    + (IF s > 0 THEN Notes[v][R] ELSE 0) + Notes[v][D]
    BY <1>11, MeasureTypes
  <2>5. Weight(Empties[v], events') = Weight(Empties[v], events)
                                      + (IF empty THEN Empties[v][E] ELSE 0)
                                      + (IF s > 0 THEN Empties[v][R] ELSE 0) + Empties[v][D]
    BY <1>11, MeasureTypes
  <2>6. empty => stock'[u] = 0
    BY <1>2
  <2>7. Weight(Notes[v], events') = Weight(Notes[v], events) + (IF v = u THEN n + s ELSE 0)
    BY <2>1, <2>3, <2>4
  <2>8. \/ Weight(Empties[v], events') = Weight(Empties[v], events)
        \/ v = u /\ stock'[u] = 0
    BY <2>2, <2>3, <2>5, <2>6
  <2> QED
    BY <2>7, <2>8
<1>15. known' \in [Units -> BOOLEAN]
  BY <1>1, <1>2
<1> QED
  BY <1>10, <1>12, <1>13, <1>14, <1>15

\* What the handling of a signal takes off the queue.
LEMMA HandlingTakesOff ==
  ASSUME TypeOK, events # <<>>, events' = Tail(events)
  PROVE  /\ Head(events) \in Signal /\ events' \in Seq(Signal)
         /\ \A w \in [Signal -> Nat] : /\ Weight(w, events) = w[Head(events)] + Weight(w, events')
                                       /\ Weight(w, events') \in Nat
<1>1. events \in Seq(Signal)
  BY TypeFacts
<1>2. events' \in Seq(Signal) /\ Head(events) \in Signal
  BY <1>1
<1> QED
  BY <1>1, <1>2, WeightOfTail, WeightType

-----------------------------------------------------------------------------
(* The types. *)

\* What leaves a unit, reported or not.
LEMMA LeaveTypes ==
  ASSUME TypeOK, NEW u \in Units, NEW k \in Nat, NEW r \in Nat, k + r <= stock[u],
         NextJob(u), Leave(u, k, r)
  PROVE  stock' \in [Units -> Nat] /\ paid' \in Nat /\ job' \in [Units -> Seq(Nat)]
<1>1. stock' \in [Units -> Nat]
  <2>1. stock \in [Units -> Nat] /\ stock' = [stock EXCEPT ![u] = @ - k - r]
    BY TypeFacts DEF Leave
  <2> QED
    BY <2>1
<1>2. paid' \in Nat
  <2>1. paid \in Nat /\ paid' = paid + k * Nominal[u]
    BY TypeFacts DEF Leave
  <2>2. k * Nominal[u] \in Nat
    BY NominalAssumption, ProductType
  <2> QED
    BY <2>1, <2>2
<1>3. job' \in [Units -> Seq(Nat)]
  <2>1. job \in [Units -> Seq(Nat)] /\ job[u] # <<>> /\ job' = [job EXCEPT ![u] = Tail(@)]
    BY TypeFacts DEF NextJob
  <2> QED
    BY <2>1
<1> QED
  BY <1>1, <1>2, <1>3

\* What is not reported is a number of notes, and worth something.
LEMMA GoneTypes ==
  ASSUME TypeOK, NEW u \in Units, NEW g \in Nat, NEW k \in Nat,
         gone' = [gone EXCEPT ![u] = @ + g], untold' = untold + k * Nominal[u]
  PROVE  gone' \in [Units -> Nat] /\ untold' \in Nat
<1>1. gone \in [Units -> Nat] /\ untold \in Nat
  BY TypeFacts
<1>2. k * Nominal[u] \in Nat
  BY NominalAssumption, ProductType
<1>3. untold' \in Nat
  BY <1>1, <1>2
<1>4. gone' \in [Units -> Nat]
  BY <1>1
<1> QED
  BY <1>3, <1>4

\* k and r notes leave the unit, which has them, and n and s of them are reported.
Leaves(u, k, r, n, s) ==
  /\ k \in Nat /\ r \in Nat /\ n \in Nat /\ s \in Nat
  /\ k + r <= stock[u] /\ n <= k /\ s <= r
  /\ NextJob(u) /\ ComeOut(u, k, r, n, s)

LEMMA ComeOutTypes ==
  ASSUME TypeOK, NEW u \in Units, NEW k, NEW r, NEW n, NEW s, Leaves(u, k, r, n, s),
         UNCHANGED <<error, managerVars, scenarioVars, change, stale, overdrawn, crossed>>,
         bounds' \in [calls : 0 .. MaxCalls, faults : 0 .. MaxFaults]
  PROVE  TypeOK'
<1>1. /\ k \in Nat /\ r \in Nat /\ n \in Nat /\ s \in Nat /\ k + r <= stock[u]
      /\ NextJob(u) /\ Leave(u, k, r)
  BY DEF Leaves, ComeOut
<1>2. stock' \in [Units -> Nat] /\ paid' \in Nat /\ job' \in [Units -> Seq(Nat)]
  BY <1>1, LeaveTypes
<1>3. gone' \in [Units -> Nat] /\ untold' \in Nat
  <2> DEFINE g == (k - n) + (r - s)
  <2>1. g \in Nat /\ k - n \in Nat
    BY DEF Leaves
  <2>2. gone[u] + (k - n) + (r - s) = gone[u] + g
    <3>1. gone[u] \in Nat /\ k \in Nat /\ r \in Nat /\ n \in Nat /\ s \in Nat
      BY TypeFacts DEF Leaves
    <3> QED
      BY <3>1
  <2>3. gone' = [gone EXCEPT ![u] = gone[u] + (k - n) + (r - s)]
        /\ untold' = untold + (k - n) * Nominal[u]
    BY DEF Leaves, ComeOut
  <2>4. gone' = [gone EXCEPT ![u] = @ + g]
    BY <2>2, <2>3
  <2> HIDE DEF g
  <2> QED
    BY <2>1, <2>3, <2>4, GoneTypes
<1>4. events' \in Seq(Signal) /\ known' \in [Units -> BOOLEAN] /\ UNCHANGED silent
  BY ComeOutQueues DEF Leaves, ComeOut
<1> QED
  BY <1>2, <1>3, <1>4 DEF TypeOK, Signal, managerVars, scenarioVars

\* Faults are counted within their bound.
LEMMA FaultBounds ==
  ASSUME TypeOK, Fault
  PROVE  bounds' \in [calls : 0 .. MaxCalls, faults : 0 .. MaxFaults]
<1>1. bounds \in [calls : 0 .. MaxCalls, faults : 0 .. MaxFaults]
  BY TypeFacts
<1> QED
  BY <1>1, BoundsAssumption DEF Fault

\* No more comes out than is in the unit.
LEMMA MostOutType ==
  ASSUME TypeOK, NEW u \in Units, NextJob(u)
  PROVE  /\ Head(job[u]) \in Nat /\ stock[u] \in Nat
         /\ MostOut(u) \in Nat /\ MostOut(u) <= stock[u]
<1>1. job[u] \in Seq(Nat) /\ job[u] # <<>> /\ stock[u] \in Nat
  BY TypeFacts DEF NextJob
<1> DEFINE asked == Head(job[u])
<1>2. asked \in Nat
  BY <1>1
<1> HIDE DEF asked
<1>3. CommandMaxIteration * asked \in Nat
  BY <1>2, BoundsAssumption, ProductType
<1>4. MostOut(u) = Least(CommandMaxIteration * asked, stock[u])
  BY DEF MostOut, asked
<1>5. MostOut(u) \in Nat /\ MostOut(u) <= stock[u]
  BY <1>1, <1>3, <1>4, LeastType
<1> QED
  BY <1>1, <1>2, <1>5 DEF asked

\* What comes out of a unit is in it; no more is reported than comes out, nor than
\* was asked for.
LEMMA PayOutComesOut ==
  ASSUME TypeOK, NEW u \in Units, PayOut(u) \/ PayOutAmiss(u)
  PROVE  \E k, r, n, s : Leaves(u, k, r, n, s) /\ n <= Head(job[u])
<1>1. NextJob(u)
  BY DEF PayOut, PayOutAmiss
<1>2. Head(job[u]) \in Nat /\ stock[u] \in Nat /\ MostOut(u) \in Nat /\ MostOut(u) <= stock[u]
  BY <1>1, MostOutType
<1>3. CASE PayOut(u)
  <2>1. PICK k : k = Least(Head(job[u]), stock[u])
    OBVIOUS
  <2>2. k \in Nat /\ k <= stock[u] /\ k <= Head(job[u])
    BY <1>2, <2>1, LeastType
  <2>3. ComeOut(u, k, 0, k, 0)
    BY <1>3, <2>1 DEF PayOut
  <2>4. Leaves(u, k, 0, k, 0)
    BY <1>1, <1>2, <2>2, <2>3 DEF Leaves
  <2> QED
    BY <2>2, <2>4
<1>4. CASE PayOutAmiss(u)
  <2>1. PICK k \in 0 .. MostOut(u) :
          \E r \in 0 .. stock[u] - k, n \in 0 .. Least(k, Head(job[u])) :
            \E s \in 0 .. r : ComeOut(u, k, r, n, s)
    BY <1>4 DEF PayOutAmiss
  <2>2. PICK r \in 0 .. stock[u] - k, n \in 0 .. Least(k, Head(job[u])) :
          \E s \in 0 .. r : ComeOut(u, k, r, n, s)
    BY <2>1
  <2>3. PICK s \in 0 .. r : ComeOut(u, k, r, n, s)
    BY <2>2
  <2>4. k \in Nat /\ r \in Nat /\ s \in Nat /\ k + r <= stock[u] /\ s <= r
    BY <1>2
  <2>5. Least(k, Head(job[u])) \in Nat /\ Least(k, Head(job[u])) <= k
        /\ Least(k, Head(job[u])) <= Head(job[u])
    BY <1>2, <2>4, LeastType
  <2>6. n \in Nat /\ n <= k /\ n <= Head(job[u])
    BY <1>2, <2>4, <2>5
  <2>7. Leaves(u, k, r, n, s)
    BY <1>1, <2>3, <2>4, <2>6 DEF Leaves
  <2> QED
    BY <2>6, <2>7
<1> QED
  BY <1>3, <1>4

LEMMA InitTypeOK == Init => TypeOK
<1> SUFFICES ASSUME Init
             PROVE  TypeOK
  OBVIOUS
<1>1. stock \in [Units -> Nat] /\ count \in [Units -> Nat] /\ known \in [Units -> BOOLEAN]
  BY NominalAssumption DEF Init
<1>5. gone \in [Units -> Nat]
  BY DEF Init
<1>2. events \in Seq(Signal) /\ job \in [Units -> Seq(Nat)]
  BY DEF Init
<1>3. bounds \in [calls : 0 .. MaxCalls, faults : 0 .. MaxFaults]
  BY BoundsAssumption DEF Init
<1>4. amounts \in [toDispensing : Int, dispensed : Nat]
  BY DEF Init, NoAmounts
<1> QED
  BY <1>1, <1>2, <1>3, <1>4, <1>5, BoundsAssumption, TypeFacts DEF Init

\* A report takes off the change what is in it.
LEMMA ReportTypes ==
  ASSUME TypeOK, NEW a \in Nat, Report(a)
  PROVE  change' \in Nat /\ overdrawn' \in Nat /\ waiting' \in BOOLEAN
<1>1. change \in Nat /\ overdrawn \in Nat
  BY TypeFacts
<1>2. change' \in Nat /\ overdrawn' \in Nat
  BY <1>1 DEF Report, Beyond
<1>3. waiting' \in BOOLEAN
  BY Zenon DEF Report
<1> QED
  BY <1>2, <1>3

\* dispense() keeps the types of what it writes.
LEMMA DispenseTypes ==
  ASSUME TypeOK, NEW a \in Int, SendBatch(a) \/ ReportNothing
  PROVE  /\ amounts' \in [toDispensing : Int, dispensed : Nat]
         /\ job' \in [Units -> Seq(Nat)] /\ change' \in Nat
         /\ overdrawn' \in Nat /\ untold' \in Nat
<1>1. /\ amounts \in [toDispensing : Int, dispensed : Nat] /\ count \in [Units -> Nat]
      /\ job \in [Units -> Seq(Nat)] /\ change \in Nat /\ overdrawn \in Nat /\ untold \in Nat
  BY TypeFacts
<1>2. CASE SendBatch(a)
  <2>1. PICK u \in Largest(a) : job' = [job EXCEPT ![u] = Append(@, Batch(u, a))]
    BY <1>2 DEF SendBatch
  <2>2. u \in Units /\ Batch(u, a) \in Nat
    BY <1>1, BatchFits
  <2>3. job' \in [Units -> Seq(Nat)]
    BY <1>1, <2>1, <2>2
  <2>4. amounts' \in [toDispensing : Int, dispensed : Nat]
    BY <1>1, <1>2 DEF SendBatch, NoAmounts
  <2> QED
    BY <1>1, <1>2, <2>3, <2>4 DEF SendBatch
<1>3. CASE ReportNothing
  <2>1. change' \in Nat /\ overdrawn' \in Nat
    BY <1>3, ReportTypes DEF ReportNothing
  <2>2. untold' \in Nat
    BY <1>1, <1>3 DEF ReportNothing
  <2> QED
    BY <1>1, <1>3, <2>1, <2>2 DEF ReportNothing, NoAmounts
<1> QED
  BY <1>2, <1>3

\* handleSignal() and onUnitEmpty() keep the types of the counts.
LEMMA CountTypes ==
  ASSUME TypeOK, NEW e \in Signal, OnDispensed(e) \/ OnRejected(e) \/ OnUnitEmpty(e)
  PROVE  /\ count' \in [Units -> Nat] /\ known' \in [Units -> BOOLEAN]
         /\ amounts' \in [toDispensing : Int, dispensed : Nat]
         /\ main' \in {main, "decide"}
<1>1. /\ count \in [Units -> Nat] /\ known \in [Units -> BOOLEAN]
      /\ amounts \in [toDispensing : Int, dispensed : Nat]
      /\ e.unit \in Units /\ e.items \in Nat /\ count[e.unit] \in Nat
  BY TypeFacts DEF Signal
<1>2. ASSUME CountOff(e)
      PROVE  count' \in [Units -> Nat] /\ known' \in [Units -> BOOLEAN]
  <2>1. count[e.unit] - Least(e.items, count[e.unit]) \in Nat
    BY <1>1 DEF Least
  <2> QED
    BY <1>1, <1>2, <2>1 DEF CountOff
<1>3. CASE OnDispensed(e)
  <2>1. e.items * Nominal[e.unit] \in Nat
    BY <1>1, NominalAssumption, ProductType
  <2> DEFINE worth == e.items * Nominal[e.unit]
  <2>2. amounts' = Added(worth) /\ CountOff(e) /\ main' = "decide"
    BY <1>3 DEF OnDispensed
  <2> HIDE DEF worth
  <2>3. Added(worth) \in [toDispensing : Int, dispensed : Nat]
    <3>1. worth \in Nat
      BY <2>1 DEF worth
    <3> QED
      BY <1>1, <3>1 DEF Added
  <2> QED
    BY <1>2, <2>2, <2>3
<1>4. CASE OnRejected(e)
  BY <1>1, <1>2, <1>4 DEF OnRejected
<1>5. CASE OnUnitEmpty(e)
  BY <1>1, <1>5 DEF OnUnitEmpty
<1> QED
  BY <1>3, <1>4, <1>5

LEMMA NextTypeOK == ASSUME TypeOK, [Next]_vars PROVE TypeOK'
<1> USE DEF managerVars, scenarioVars, deviceVars, outVars, ghostVars
<1>1. CASE HandleEvent
  <2>1. Head(events) \in Signal /\ events' \in Seq(Signal)
    BY <1>1, HandlingTakesOff DEF HandleEvent
  <2>2. OnDispensed(Head(events)) \/ OnRejected(Head(events)) \/ OnUnitEmpty(Head(events))
    BY <1>1 DEF HandleEvent
  <2>3. /\ count' \in [Units -> Nat] /\ known' \in [Units -> BOOLEAN]
        /\ amounts' \in [toDispensing : Int, dispensed : Nat] /\ main' \in {main, "decide"}
    BY <2>1, <2>2, CountTypes
  <2> QED
    BY <1>1, <2>1, <2>3 DEF HandleEvent, TypeOK, Signal
<1>2. CASE Decide
  <2>1. /\ amounts \in [toDispensing : Int, dispensed : Nat] /\ change \in Nat
        /\ overdrawn \in Nat /\ waiting \in BOOLEAN
    BY TypeFacts
  <2>2. /\ amounts' \in [toDispensing : Int, dispensed : Nat] /\ change' \in Nat
        /\ overdrawn' \in Nat /\ waiting' \in BOOLEAN
    <3>1. CASE UNCHANGED <<amounts, change, overdrawn, waiting>>
      BY <2>1, <3>1
    <3>2. CASE amounts' = NoAmounts /\ Report(amounts.dispensed)
      <4>1. amounts' \in [toDispensing : Int, dispensed : Nat]
        BY <3>2 DEF NoAmounts
      <4> QED
        BY <2>1, <3>2, <4>1, ReportTypes
    <3> QED
      BY <1>2, <3>1, <3>2 DEF Decide
  <2> QED
    BY <1>2, <2>2 DEF Decide, TypeOK
<1>3. CASE DispenseRest
  <2>1. amounts.toDispensing \in Int
    BY TypeFacts
  <2>2. /\ amounts' \in [toDispensing : Int, dispensed : Nat]
        /\ job' \in [Units -> Seq(Nat)] /\ change' \in Nat
        /\ overdrawn' \in Nat /\ untold' \in Nat
    BY <1>3, <2>1, DispenseTypes DEF DispenseRest
  <2>3. waiting' \in BOOLEAN
    BY <1>3, TypeFacts DEF DispenseRest, ReportNothing, Report
  <2> QED
    BY <1>3, <2>2, <2>3 DEF DispenseRest, TypeOK
<1>4. CASE AskCanDispense
  <2>1. available' \in Nat
    BY <1>4, CanDispenseType, TypeFacts DEF AskCanDispense
  <2> QED
    BY <1>4, <2>1 DEF AskCanDispense, TypeOK
<1>5. CASE AskDispense
  <2>1. /\ amounts' \in [toDispensing : Int, dispensed : Nat]
        /\ job' \in [Units -> Seq(Nat)] /\ change' \in Nat
        /\ overdrawn' \in Nat /\ untold' \in Nat
    BY <1>5, DispenseTypes, TypeFacts DEF AskDispense
  <2>2. waiting' \in BOOLEAN /\ crossed' \in BOOLEAN
    BY <1>5, TypeFacts DEF AskDispense, ReportNothing, Report
  <2>3. bounds' \in [calls : 0 .. MaxCalls, faults : 0 .. MaxFaults]
    <3>1. bounds \in [calls : 0 .. MaxCalls, faults : 0 .. MaxFaults] /\ MaxCalls \in Nat
      BY TypeFacts, BoundsAssumption
    <3>2. bounds.calls < MaxCalls /\ bounds' = [bounds EXCEPT !.calls = @ + 1]
      BY <1>5 DEF AskDispense
    <3>3. bounds.calls + 1 \in 0 .. MaxCalls
      BY <3>1, <3>2
    <3> QED
      BY <3>1, <3>2, <3>3
  <2>4. stale' \in Nat
    <3>1. stale \in Nat /\ change \in Nat /\ available \in Nat
      BY TypeFacts
    <3>2. stale' = stale + Beyond(available)
      BY <1>5 DEF AskDispense
    <3> QED
      BY <3>1, <3>2 DEF Beyond
  <2>5. available' = 0 /\ UNCHANGED <<stock, error, known, events, count, main, paid, gone, silent>>
    BY <1>5 DEF AskDispense
  <2>6. {waiting', silent', crossed'} \subseteq BOOLEAN
    BY <2>2, <2>5 DEF TypeOK
  <2>7. /\ {stock', count', gone'} \subseteq [Units -> Nat]
        /\ known' \in [Units -> BOOLEAN] /\ error' \subseteq Units
        /\ events' \in Seq([unit : Units, kind : {"dispensed", "rejected", "empty"}, items : Nat])
        /\ main' \in {"idle", "decide", "again"}
    BY <2>5 DEF TypeOK
  <2>8. {available', change', paid', untold', stale', overdrawn'} \subseteq Nat
    BY <2>1, <2>4, <2>5 DEF TypeOK
  <2> QED
    BY <2>1, <2>3, <2>6, <2>7, <2>8 DEF TypeOK
<1>6. CASE GiveUp
  BY <1>6 DEF GiveUp, TypeOK
<1>7. ASSUME NEW u \in Units, PayOut(u) \/ PayOutAmiss(u)
      PROVE  TypeOK'
  <2>1. PICK k, r, n, s : Leaves(u, k, r, n, s)
    BY <1>7, PayOutComesOut
  <2>2. bounds' \in [calls : 0 .. MaxCalls, faults : 0 .. MaxFaults]
    BY <1>7, FaultBounds, TypeFacts DEF PayOut, PayOutAmiss
  <2>3. UNCHANGED <<error, managerVars, scenarioVars, change, stale, overdrawn, crossed>>
    BY <1>7 DEF PayOut, PayOutAmiss
  <2> QED
    BY <2>1, <2>2, <2>3, ComeOutTypes
<1>8. ASSUME NEW u \in Units, KeepSilent(u)
      PROVE  TypeOK'
  <2>1. NextJob(u)
    BY <1>8 DEF KeepSilent
  <2>2. PICK k \in 0 .. MostOut(u) : /\ Leave(u, k, 0)
                                    /\ gone' = [gone EXCEPT ![u] = @ + k]
                                    /\ untold' = untold + k * Nominal[u]
    BY <1>8 DEF KeepSilent
  <2>3. k \in Nat /\ k + 0 <= stock[u]
    BY <2>1, MostOutType
  <2>4. stock' \in [Units -> Nat] /\ paid' \in Nat /\ job' \in [Units -> Seq(Nat)]
    BY <2>1, <2>2, <2>3, LeaveTypes
  <2>5. gone' \in [Units -> Nat] /\ untold' \in Nat
    BY <2>2, <2>3, GoneTypes
  <2>6. bounds' \in [calls : 0 .. MaxCalls, faults : 0 .. MaxFaults]
    BY <1>8, FaultBounds DEF KeepSilent
  <2>7. /\ silent' \in BOOLEAN
        /\ UNCHANGED <<error, known, events, managerVars, scenarioVars, change, stale, overdrawn,
                       crossed>>
    BY <1>8 DEF KeepSilent
  <2> QED
    BY <2>4, <2>5, <2>6, <2>7 DEF TypeOK
<1>9. ASSUME NEW u \in Units, Fail(u) \/ Recover(u)
      PROVE  TypeOK'
  <2>1. bounds' \in [calls : 0 .. MaxCalls, faults : 0 .. MaxFaults]
    BY <1>9, FaultBounds, TypeFacts DEF Fail, Recover
  <2>2. error' \subseteq Units
    BY <1>9, TypeFacts DEF Fail, Recover
  <2> QED
    BY <1>9, <2>1, <2>2 DEF Fail, Recover, TypeOK
<1>10. CASE UNCHANGED vars
  BY <1>10 DEF vars, TypeOK
<1> QED
  BY <1>1, <1>2, <1>3, <1>4, <1>5, <1>6, <1>7, <1>8, <1>9, <1>10
     DEF Next, Manager, Scenario, Driver

-----------------------------------------------------------------------------
(* The counts: what the manager takes for the content of a unit is what is in   *)
(* it, what left it without a report, and what is reported and not counted off;  *)
(* a unit reported empty may be counted off early, and is empty.               *)

Counted ==
  \A u \in Units :
    /\ count[u] = stock[u] + gone[u] + Weight(Notes[u], events) \/ (stock[u] = 0 /\ count[u] = 0)
    /\ Weight(Empties[u], events) > 0 => stock[u] = 0

LEMMA InitCounted == Init => Counted
<1> SUFFICES ASSUME Init, NEW u \in Units
             PROVE  /\ count[u] = stock[u] + gone[u] + Weight(Notes[u], events)
                    /\ ~(Weight(Empties[u], events) > 0)
  BY DEF Counted
<1>1. Weight(Notes[u], events) = 0 /\ Weight(Empties[u], events) = 0
  BY MeasureTypes, WeightOfNone DEF Init
<1>2. count[u] = stock[u] /\ stock[u] \in Nat /\ gone[u] = 0
  BY NominalAssumption DEF Init
<1> QED
  BY <1>1, <1>2

LEMMA HandleEventKeepsCounted ==
  ASSUME TypeOK, Counted, HandleEvent
  PROVE  Counted'
<1> DEFINE e == Head(events)
<1>1. /\ e \in Signal /\ events' \in Seq(Signal)
      /\ \A w \in [Signal -> Nat] : /\ Weight(w, events) = w[e] + Weight(w, events')
                                    /\ Weight(w, events') \in Nat
  BY HandlingTakesOff DEF HandleEvent
<1>2. OnDispensed(e) \/ OnRejected(e) \/ OnUnitEmpty(e)
  BY DEF HandleEvent
<1>3. UNCHANGED <<stock, gone>>
  BY DEF HandleEvent, ghostVars, outVars
<1> HIDE DEF e
<1>4. e.unit \in Units /\ e.items \in Nat /\ e.kind \in {"dispensed", "rejected", "empty"}
  BY <1>1 DEF Signal
<1>5. stock \in [Units -> Nat] /\ count \in [Units -> Nat] /\ gone \in [Units -> Nat]
  BY TypeFacts
<1> SUFFICES ASSUME NEW u \in Units
             PROVE  /\ count'[u] = stock'[u] + gone'[u] + Weight(Notes[u], events')
                       \/ (stock'[u] = 0 /\ count'[u] = 0)
                    /\ Weight(Empties[u], events') > 0 => stock'[u] = 0
  BY DEF Counted
<1>6. /\ Weight(Notes[u], events) = Notes[u][e] + Weight(Notes[u], events')
      /\ Weight(Notes[u], events') \in Nat
      /\ Weight(Empties[u], events) = Empties[u][e] + Weight(Empties[u], events')
      /\ Weight(Empties[u], events') \in Nat
  BY <1>1, MeasureTypes
<1>7. /\ Notes[u][e] = (IF e.unit = u /\ e.kind # "empty" THEN e.items ELSE 0)
      /\ Empties[u][e] = (IF e.unit = u /\ e.kind = "empty" THEN 1 ELSE 0)
  BY <1>1 DEF Notes, Empties
<1>8. /\ count[u] = stock[u] + gone[u] + Weight(Notes[u], events) \/ (stock[u] = 0 /\ count[u] = 0)
      /\ Weight(Empties[u], events) > 0 => stock[u] = 0
  BY DEF Counted
<1>9. Weight(Empties[u], events') > 0 => stock'[u] = 0
  BY <1>3, <1>6, <1>7, <1>8
<1>10. CASE e.unit # u
  <2>1. count'[u] = count[u]
    BY <1>2, <1>4, <1>5, <1>10 DEF OnDispensed, OnRejected, OnUnitEmpty, CountOff
  <2> QED
    BY <1>3, <1>6, <1>7, <1>8, <1>9, <1>10, <2>1
<1>11. CASE e.unit = u /\ e.kind = "empty"
  <2>1. count'[u] = 0
    BY <1>2, <1>4, <1>5, <1>11 DEF OnDispensed, OnRejected, OnUnitEmpty
  <2>2. stock[u] = 0
    BY <1>6, <1>7, <1>8, <1>11
  <2> QED
    BY <1>3, <1>9, <2>1, <2>2
<1>12. CASE e.unit = u /\ e.kind # "empty"
  <2>1. CountOff(e)
    BY <1>2, <1>12 DEF OnDispensed, OnRejected, OnUnitEmpty
  <2>2. count'[u] = count[u] - Least(e.items, count[u])
    BY <1>5, <1>12, <2>1 DEF CountOff
  <2>3. count[u] \in Nat /\ stock[u] \in Nat /\ gone[u] \in Nat
    BY <1>5
  <2> QED
    BY <1>3, <1>4, <1>6, <1>7, <1>8, <1>9, <1>12, <2>2, <2>3 DEF Least
<1> QED
  BY <1>10, <1>11, <1>12

\* Notes leave the unit, and are reported or not.
LEMMA LeaveKeepsCounted ==
  ASSUME TypeOK, Counted, NEW u \in Units, NEW k \in Nat, NEW r \in Nat, k + r <= stock[u],
         NEW n \in 0 .. k, NEW s \in 0 .. r,
         Leave(u, k, r), UNCHANGED count,
         gone' = [gone EXCEPT ![u] = @ + (k - n) + (r - s)],
         \A v \in Units :
           Weight(Notes[v], events') = Weight(Notes[v], events) + (IF v = u THEN n + s ELSE 0),
         \A v \in Units :
           Weight(Empties[v], events') = Weight(Empties[v], events) \/ (v = u /\ stock'[u] = 0)
  PROVE  Counted'
<1>1. /\ stock \in [Units -> Nat] /\ count \in [Units -> Nat] /\ gone \in [Units -> Nat]
      /\ events \in Seq(Signal)
  BY TypeFacts
<1>2. stock' = [stock EXCEPT ![u] = @ - k - r]
  BY DEF Leave
<1> SUFFICES ASSUME NEW v \in Units
             PROVE  /\ count'[v] = stock'[v] + gone'[v] + Weight(Notes[v], events')
                       \/ (stock'[v] = 0 /\ count'[v] = 0)
                    /\ Weight(Empties[v], events') > 0 => stock'[v] = 0
  BY DEF Counted
<1>3. /\ Weight(Notes[v], events') = Weight(Notes[v], events) + (IF v = u THEN n + s ELSE 0)
      /\ \/ Weight(Empties[v], events') = Weight(Empties[v], events)
         \/ v = u /\ stock'[u] = 0
  OBVIOUS
<1>4. Weight(Notes[v], events) \in Nat
  BY <1>1, MeasureTypes, WeightType
<1>5. /\ count[v] = stock[v] + gone[v] + Weight(Notes[v], events) \/ (stock[v] = 0 /\ count[v] = 0)
      /\ Weight(Empties[v], events) > 0 => stock[v] = 0
  BY DEF Counted
<1>6. stock'[v] = (IF v = u THEN stock[v] - k - r ELSE stock[v]) /\ stock[v] \in Nat
  BY <1>1, <1>2
<1>7. gone'[v] = (IF v = u THEN gone[v] + (k - n) + (r - s) ELSE gone[v]) /\ gone[v] \in Nat
  BY <1>1
<1>8. CASE v = u
  <2>1. /\ Weight(Notes[v], events') = Weight(Notes[v], events) + n + s
        /\ stock'[v] = stock[v] - k - r /\ gone'[v] = gone[v] + (k - n) + (r - s)
        /\ count'[v] = count[v]
    BY <1>3, <1>4, <1>6, <1>7, <1>8
  <2>2. n \in Nat /\ s \in Nat /\ n <= k /\ s <= r
    OBVIOUS
  <2>3. stock[v] = 0 => stock'[v] = 0
    BY <1>6, <1>8, <2>1
  <2>4. stock[v] + gone[v] + Weight(Notes[v], events)
          = stock'[v] + gone'[v] + Weight(Notes[v], events')
    BY <1>4, <1>6, <1>7, <2>1, <2>2
  <2> QED
    BY <1>3, <1>5, <2>1, <2>3, <2>4
<1>9. CASE v # u
  <2>1. /\ Weight(Notes[v], events') = Weight(Notes[v], events)
        /\ Weight(Empties[v], events') = Weight(Empties[v], events)
        /\ stock'[v] = stock[v] /\ gone'[v] = gone[v] /\ count'[v] = count[v]
    BY <1>3, <1>4, <1>6, <1>7, <1>9
  <2> QED
    BY <1>5, <2>1
<1> QED
  BY <1>8, <1>9

LEMMA NextCounted == ASSUME TypeOK, Counted, [Next]_vars PROVE Counted'
<1>1. ASSUME UNCHANGED <<stock, count, events, gone>>
      PROVE  Counted'
  BY <1>1 DEF Counted
<1>2. CASE HandleEvent
  BY <1>2, HandleEventKeepsCounted
<1>3. CASE Decide \/ DispenseRest \/ Scenario \/ UNCHANGED vars
  BY <1>1, <1>3 DEF Decide, DispenseRest, Scenario, AskCanDispense, AskDispense, GiveUp, vars,
                    deviceVars, managerVars, ghostVars, outVars
<1>4. ASSUME NEW u \in Units, PayOut(u) \/ PayOutAmiss(u)
      PROVE  Counted'
  <2>1. PICK k, r, n, s : Leaves(u, k, r, n, s)
    BY <1>4, PayOutComesOut
  <2>2. UNCHANGED count
    BY <1>4 DEF PayOut, PayOutAmiss, managerVars
  <2>3. /\ k \in Nat /\ r \in Nat /\ k + r <= stock[u] /\ n \in 0 .. k /\ s \in 0 .. r
        /\ n \in Nat /\ s \in Nat /\ ComeOut(u, k, r, n, s)
    BY <2>1 DEF Leaves
  <2>4. /\ Leave(u, k, r) /\ gone' = [gone EXCEPT ![u] = @ + (k - n) + (r - s)]
    BY <2>3 DEF ComeOut
  <2>5. /\ \A v \in Units :
             Weight(Notes[v], events') = Weight(Notes[v], events) + (IF v = u THEN n + s ELSE 0)
        /\ \A v \in Units :
             Weight(Empties[v], events') = Weight(Empties[v], events) \/ (v = u /\ stock'[u] = 0)
    BY <2>3, ComeOutQueues
  <2> QED
    BY <2>2, <2>3, <2>4, <2>5, LeaveKeepsCounted
<1>5. ASSUME NEW u \in Units, KeepSilent(u)
      PROVE  Counted'
  <2>1. NextJob(u) /\ UNCHANGED <<count, events>>
    BY <1>5 DEF KeepSilent, managerVars
  <2>2. PICK k \in 0 .. MostOut(u) : Leave(u, k, 0) /\ gone' = [gone EXCEPT ![u] = @ + k]
    BY <1>5 DEF KeepSilent
  <2>3. k \in Nat /\ 0 \in Nat /\ k + 0 <= stock[u] /\ 0 \in 0 .. k /\ 0 \in 0 .. 0
    BY <2>1, MostOutType
  <2>4. gone' = [gone EXCEPT ![u] = @ + (k - 0) + (0 - 0)]
    <3>1. gone[u] \in Nat
      BY TypeFacts
    <3>2. gone[u] + (k - 0) + (0 - 0) = gone[u] + k
      BY <2>3, <3>1
    <3> QED
      BY <2>2, <3>2
  <2>5. /\ \A v \in Units :
             Weight(Notes[v], events') = Weight(Notes[v], events) + (IF v = u THEN 0 + 0 ELSE 0)
        /\ \A v \in Units : Weight(Empties[v], events') = Weight(Empties[v], events)
    <3>1. \A v \in Units : Weight(Notes[v], events) \in Nat
      BY TypeFacts, MeasureTypes, WeightType
    <3> QED
      BY <2>1, <3>1
  <2> QED
    BY <2>1, <2>2, <2>3, <2>4, <2>5, LeaveKeepsCounted
<1>6. ASSUME NEW u \in Units, Fail(u) \/ Recover(u)
      PROVE  Counted'
  BY <1>1, <1>6 DEF Fail, Recover, managerVars, ghostVars, outVars
<1> QED
  BY <1>2, <1>3, <1>4, <1>5, <1>6 DEF Next, Manager, Driver

-----------------------------------------------------------------------------
(* The money: what comes out is booked whatever happens.  As long as no request  *)
(* meets the remains of another one, one batch at most is asked for, reported or *)
(* being decided about, and what it is worth, with what was paid out before it,  *)
(* is within the change and what a request may ask for beyond it.               *)

Booked == paid = (Change - change) + amounts.dispensed + Weight(Worths, events) + untold + overdrawn

OneAtATime ==
  /\ Weight(Reports, events) <= 1
  /\ \A u \in Units : Len(job[u]) <= 1
  /\ \A u, v \in Units : job[u] # <<>> /\ job[v] # <<>> => u = v
  /\ \A u \in Units : job[u] # <<>> => Weight(Reports, events) = 0 /\ main = "idle"
  /\ Weight(Reports, events) > 0 => main = "idle"
  /\ amounts = NoAmounts => /\ Weight(Reports, events) = 0 /\ main = "idle"
                            /\ \A u \in Units : job[u] = <<>>

WithinChange ==
  /\ overdrawn <= stale
  /\ amounts.toDispensing >= 0
  /\ amounts.toDispensing + amounts.dispensed + overdrawn <= change + stale
  /\ Weight(Worths, events) <= amounts.toDispensing
  /\ \A u \in Units : job[u] # <<>> => Head(job[u]) * Nominal[u] <= amounts.toDispensing

Money == OneAtATime /\ WithinChange
MoneyInv == ~crossed => Money

\* Without a report on its way nothing that came out is unheard of.
LEMMA NothingUnheard ==
  ASSUME NEW s \in Seq(Signal), Weight(Reports, s) = 0
  PROVE  Weight(Worths, s) = 0
<1>1. \A e \in Signal : Reports[e] = 0 => Worths[e] = 0
  BY DEF Reports, Worths, Worth
<1> QED
  BY <1>1, MeasureTypes, WeightlessToo

\* The amounts of the queue are numbers.
LEMMA MeasuresOfQueue ==
  ASSUME TypeOK
  PROVE  Weight(Worths, events) \in Nat /\ Weight(Reports, events) \in Nat
BY TypeFacts, MeasureTypes, WeightType

(* What comes out is booked. *)

LEMMA InitBooked == Init => Booked
<1> SUFFICES ASSUME Init
             PROVE  Booked
  OBVIOUS
<1>1. Weight(Worths, events) = 0
  BY MeasureTypes, WeightOfNone DEF Init
<1>2. amounts.dispensed = 0 /\ paid = 0 /\ change = Change /\ untold = 0 /\ overdrawn = 0
  BY DEF Init, NoAmounts
<1>3. Change \in Nat
  BY BoundsAssumption
<1> QED
  BY <1>1, <1>2, <1>3 DEF Booked

\* The numbers that are booked.
LEMMA BookTypes ==
  ASSUME TypeOK
  PROVE  /\ amounts.toDispensing \in Int /\ amounts.dispensed \in Nat
         /\ Weight(Worths, events) \in Nat
         /\ change \in Nat /\ paid \in Nat /\ untold \in Nat /\ stale \in Nat /\ overdrawn \in Nat
         /\ Change \in Nat
BY TypeFacts, MeasuresOfQueue, BoundsAssumption

\* A report books what it says, and what exceeds the change.
LEMMA ReportBooks ==
  ASSUME TypeOK, NEW a \in Nat, Report(a)
  PROVE  a + change' + overdrawn = change + overdrawn'
<1>1. change \in Nat /\ overdrawn \in Nat
  BY TypeFacts
<1> QED
  BY <1>1 DEF Report, Beyond

LEMMA HandleEventKeepsBooked ==
  ASSUME TypeOK, Booked, HandleEvent
  PROVE  Booked'
<1> DEFINE e == Head(events)
<1>1. /\ e \in Signal
      /\ Weight(Worths, events) = Worths[e] + Weight(Worths, events') /\ Weight(Worths, events') \in Nat
  BY HandlingTakesOff, MeasureTypes DEF HandleEvent
<1>2. OnDispensed(e) \/ OnRejected(e) \/ OnUnitEmpty(e)
  BY DEF HandleEvent
<1>3. UNCHANGED <<change, paid, untold, overdrawn>>
  BY DEF HandleEvent, ghostVars, outVars
<1> HIDE DEF e
<1>4. amounts'.dispensed = amounts.dispensed + Worths[e] /\ Worths[e] \in Nat
  <2>1. CASE e.kind # "dispensed"
    <3>1. Worths[e] = 0
      BY <1>1, <2>1 DEF Worths, Worth
    <3>2. UNCHANGED amounts
      BY <1>2, <2>1 DEF OnDispensed, OnRejected, OnUnitEmpty
    <3> QED
      BY <3>1, <3>2, BookTypes
  <2>2. CASE e.kind = "dispensed"
    <3> DEFINE worth == e.items * Nominal[e.unit]
    <3>1. Worths[e] = worth /\ worth \in Nat
      BY <1>1, <2>2, NominalAssumption, ProductType DEF Worths, Worth, Signal
    <3>2. amounts' = Added(worth)
      BY <1>2, <2>2 DEF OnDispensed, OnRejected, OnUnitEmpty
    <3> HIDE DEF worth
    <3> QED
      BY <3>1, <3>2 DEF Added
  <2> QED
    BY <2>1, <2>2
<1> DEFINE d == amounts.dispensed
           f == amounts'.dispensed
           w == Worths[e]
           v == Weight(Worths, events')
<1>5. paid = (Change - change) + d + (w + v) + untold + overdrawn
  BY <1>1 DEF Booked
<1>6. f = d + w /\ d \in Nat /\ w \in Nat /\ v \in Nat
  BY <1>1, <1>4, BookTypes
<1>7. Booked' <=> paid = (Change - change) + f + v + untold + overdrawn
  BY <1>3 DEF Booked
<1> HIDE DEF d, f, w, v
<1> QED
  BY <1>5, <1>6, <1>7, BookTypes

LEMMA DecideKeepsBooked ==
  ASSUME TypeOK, Booked, Decide
  PROVE  Booked'
<1>1. UNCHANGED <<events, paid, untold>>
  BY DEF Decide, outVars
<1>2. CASE UNCHANGED <<amounts, change, overdrawn>>
  BY <1>1, <1>2 DEF Booked
<1>3. CASE amounts' = NoAmounts /\ Report(amounts.dispensed)
  <2>1. amounts.dispensed + change' + overdrawn = change + overdrawn'
    BY <1>3, BookTypes, ReportBooks
  <2>2. amounts'.dispensed = 0
    BY <1>3 DEF NoAmounts
  <2>3. change' \in Nat /\ overdrawn' \in Nat
    BY <1>3, BookTypes, ReportTypes
  <2>4. Booked' <=> paid = (Change - change') + 0 + Weight(Worths, events) + untold + overdrawn'
    BY <1>1, <2>2 DEF Booked
  <2> QED
    BY <2>1, <2>3, <2>4, BookTypes DEF Booked
<1> QED
  BY <1>2, <1>3 DEF Decide

\* dispense() books nothing, and what it drops is never told.
LEMMA DispenseKeepsBooked ==
  ASSUME TypeOK, Booked, NEW a \in Int, SendBatch(a) \/ ReportNothing, UNCHANGED <<events, paid>>
  PROVE  Booked'
<1>1. CASE SendBatch(a)
  <2>1. UNCHANGED <<change, overdrawn, untold>>
    BY <1>1 DEF SendBatch
  <2>2. amounts'.dispensed = amounts.dispensed
    <3>1. amounts \in [toDispensing : Int, dispensed : Nat]
      BY TypeFacts
    <3> QED
      BY <1>1, <3>1 DEF SendBatch, NoAmounts
  <2> QED
    BY <2>1, <2>2 DEF Booked
<1>2. CASE ReportNothing
  <2>1. 0 + change' + overdrawn = change + overdrawn'
    BY <1>2, ReportBooks DEF ReportNothing
  <2>2. amounts'.dispensed = 0 /\ untold' = untold + amounts.dispensed
    BY <1>2 DEF ReportNothing, NoAmounts
  <2>3. change' \in Nat /\ overdrawn' \in Nat
    BY <1>2, ReportTypes DEF ReportNothing
  <2>4. Booked' <=> paid = (Change - change') + 0 + Weight(Worths, events) + untold' + overdrawn'
    BY <2>2 DEF Booked
  <2> QED
    BY <2>1, <2>2, <2>3, <2>4, BookTypes DEF Booked
<1> QED
  BY <1>1, <1>2

LEMMA ComeOutKeepsBooked ==
  ASSUME TypeOK, Booked, NEW u \in Units, NEW k, NEW r, NEW n, NEW s, Leaves(u, k, r, n, s),
         UNCHANGED <<change, amounts, overdrawn>>
  PROVE  Booked'
<1>1. k \in Nat /\ r \in Nat /\ n \in Nat /\ s \in Nat /\ n <= k /\ Nominal[u] \in Nat
  BY NominalAssumption DEF Leaves
<1>2. /\ paid' = paid + k * Nominal[u] /\ untold' = untold + (k - n) * Nominal[u]
      /\ Weight(Worths, events') = Weight(Worths, events) + n * Nominal[u]
  <2>1. ComeOut(u, k, r, n, s)
    BY DEF Leaves
  <2>2. paid' = paid + k * Nominal[u] /\ untold' = untold + (k - n) * Nominal[u]
    BY <2>1 DEF ComeOut, Leave
  <2>3. Weight(Worths, events') = Weight(Worths, events) + n * Nominal[u]
    BY <1>1, <2>1, ComeOutQueues
  <2> QED
    BY <2>2, <2>3
<1>3. k * Nominal[u] = n * Nominal[u] + (k - n) * Nominal[u]
  BY <1>1, ProductOfDifference
<1>4. k * Nominal[u] \in Nat /\ n * Nominal[u] \in Nat /\ (k - n) * Nominal[u] \in Nat
  BY <1>1, ProductType
<1> DEFINE x == k * Nominal[u]
           y == n * Nominal[u]
           z == (k - n) * Nominal[u]
<1>5. x = y + z /\ x \in Nat /\ y \in Nat /\ z \in Nat
  BY <1>3, <1>4
<1>6. /\ paid' = paid + x /\ untold' = untold + z
      /\ Weight(Worths, events') = Weight(Worths, events) + y
  BY <1>2
<1> HIDE DEF x, y, z
<1>7. Booked' <=> paid' = (Change - change) + amounts.dispensed + Weight(Worths, events') + untold'
                          + overdrawn
  BY DEF Booked
<1> QED
  BY <1>5, <1>6, <1>7, BookTypes DEF Booked

LEMMA KeepSilentKeepsBooked ==
  ASSUME TypeOK, Booked, NEW u \in Units, KeepSilent(u)
  PROVE  Booked'
<1>1. NextJob(u) /\ UNCHANGED <<change, amounts, events, overdrawn>>
  BY DEF KeepSilent, managerVars
<1>2. PICK k \in 0 .. MostOut(u) : Leave(u, k, 0) /\ untold' = untold + k * Nominal[u]
  BY DEF KeepSilent
<1> DEFINE x == k * Nominal[u]
<1>3. k \in Nat
  BY <1>1, MostOutType
<1>4. x \in Nat /\ paid' = paid + x /\ untold' = untold + x
  BY <1>2, <1>3, NominalAssumption, ProductType DEF Leave
<1> HIDE DEF x
<1> QED
  BY <1>1, <1>4, BookTypes DEF Booked

LEMMA NextBooked == ASSUME TypeOK, Booked, [Next]_vars PROVE Booked'
<1>1. CASE HandleEvent
  BY <1>1, HandleEventKeepsBooked
<1>2. CASE Decide
  BY <1>2, DecideKeepsBooked
<1>3. CASE DispenseRest
  <2>1. UNCHANGED <<events, paid>> /\ amounts.toDispensing \in Int
    BY <1>3, BookTypes DEF DispenseRest, outVars
  <2> QED
    BY <1>3, <2>1, DispenseKeepsBooked DEF DispenseRest
<1>4. CASE AskDispense
  <2>1. UNCHANGED <<events, paid>> /\ available \in Int
    BY <1>4, TypeFacts DEF AskDispense, outVars
  <2> QED
    BY <1>4, <2>1, DispenseKeepsBooked DEF AskDispense
<1>5. ASSUME UNCHANGED <<events, amounts, change, paid, untold, overdrawn>>
      PROVE  Booked'
  BY <1>5 DEF Booked
<1>6. CASE AskCanDispense \/ GiveUp \/ UNCHANGED vars
  BY <1>5, <1>6 DEF AskCanDispense, GiveUp, vars, deviceVars, managerVars, ghostVars, outVars
<1>7. ASSUME NEW u \in Units, PayOut(u) \/ PayOutAmiss(u)
      PROVE  Booked'
  <2>1. PICK k, r, n, s : Leaves(u, k, r, n, s)
    BY <1>7, PayOutComesOut
  <2>2. UNCHANGED <<change, amounts, overdrawn>>
    BY <1>7 DEF PayOut, PayOutAmiss, managerVars
  <2> QED
    BY <2>1, <2>2, ComeOutKeepsBooked
<1>8. ASSUME NEW u \in Units, KeepSilent(u)
      PROVE  Booked'
  BY <1>8, KeepSilentKeepsBooked
<1>9. ASSUME NEW u \in Units, Fail(u) \/ Recover(u)
      PROVE  Booked'
  BY <1>5, <1>9 DEF Fail, Recover, managerVars, ghostVars, outVars
<1> QED
  BY <1>1, <1>2, <1>3, <1>4, <1>6, <1>7, <1>8, <1>9 DEF Next, Manager, Scenario, Driver

-----------------------------------------------------------------------------
(* One batch at a time, within the change. *)

LEMMA InitMoney == Init => Money
<1> SUFFICES ASSUME Init
             PROVE  Money
  OBVIOUS
<1>1. Weight(Reports, events) = 0 /\ Weight(Worths, events) = 0
  BY MeasureTypes, WeightOfNone DEF Init
<1>2. amounts.toDispensing = 0 /\ amounts.dispensed = 0 /\ amounts = NoAmounts
  BY DEF Init, NoAmounts
<1>3. Change \in Nat
  BY BoundsAssumption
<1> QED
  BY <1>1, <1>2, <1>3 DEF Init, Money, OneAtATime, WithinChange

LEMMA HandleEventKeepsMoney ==
  ASSUME TypeOK, Money, HandleEvent
  PROVE  Money'
<1> DEFINE e == Head(events)
<1>1. /\ e \in Signal
      /\ \A w \in [Signal -> Nat] : /\ Weight(w, events) = w[e] + Weight(w, events')
                                    /\ Weight(w, events') \in Nat
  BY HandlingTakesOff DEF HandleEvent
<1>2. OnDispensed(e) \/ OnRejected(e) \/ OnUnitEmpty(e)
  BY DEF HandleEvent
<1>3. UNCHANGED <<job, change, stale, overdrawn>> /\ main = "idle"
  BY DEF HandleEvent, ghostVars
<1> HIDE DEF e
<1>4. /\ Weight(Worths, events) = Worths[e] + Weight(Worths, events')
      /\ Weight(Reports, events) = Reports[e] + Weight(Reports, events')
      /\ Weight(Worths, events') \in Nat /\ Weight(Reports, events') \in Nat
  BY <1>1, MeasureTypes
<1>5. /\ amounts \in [toDispensing : Int, dispensed : Nat] /\ change \in Nat
      /\ stale \in Nat /\ overdrawn \in Nat
  BY TypeFacts
<1> USE DEF Money, OneAtATime, WithinChange
<1>6. CASE e.kind # "dispensed"
  <2>1. Worths[e] = 0 /\ Reports[e] = 0
    BY <1>1, <1>6 DEF Worths, Worth, Reports
  <2>2. UNCHANGED <<amounts, main>>
    BY <1>2, <1>6 DEF OnDispensed, OnRejected, OnUnitEmpty
  <2>3. Weight(Worths, events') = Weight(Worths, events)
        /\ Weight(Reports, events') = Weight(Reports, events)
    BY <1>4, <2>1
  <2> QED
    BY <1>3, <2>2, <2>3
<1>7. CASE e.kind = "dispensed"
  <2> DEFINE worth == e.items * Nominal[e.unit]
  <2>1. Worths[e] = worth /\ Reports[e] = 1 /\ worth \in Nat
    BY <1>1, <1>7, NominalAssumption, ProductType DEF Worths, Worth, Reports, Signal
  <2>2. amounts' = Added(worth) /\ main' = "decide"
    BY <1>2, <1>7 DEF OnDispensed, OnRejected, OnUnitEmpty
  <2> HIDE DEF worth
  <2>3. /\ amounts'.toDispensing = amounts.toDispensing - worth
        /\ amounts'.dispensed = amounts.dispensed + worth
    BY <2>2 DEF Added
  <2>4. Weight(Reports, events') = 0
    BY <1>4, <2>1
  <2>5. \A u \in Units : job[u] = <<>>
    BY <1>4, <2>1
  <2>6. amounts' # NoAmounts
    <3>1. amounts # NoAmounts
      BY <1>4, <2>1
    <3>2. amounts.toDispensing # 0 \/ amounts.dispensed # 0
      BY <1>5, <3>1 DEF NoAmounts
    <3>3. amounts.toDispensing + amounts.dispensed > 0
      BY <1>5, <3>2
    <3>4. amounts'.toDispensing + amounts'.dispensed > 0
      BY <1>5, <2>1, <2>3, <3>3
    <3> QED
      BY <3>4 DEF NoAmounts
  <2>7. WithinChange'
    <3>1. worth <= amounts.toDispensing
      BY <1>4, <1>5, <2>1
    <3>2. amounts'.toDispensing >= 0
      BY <1>5, <2>1, <2>3, <3>1
    <3>3. amounts'.toDispensing + amounts'.dispensed + overdrawn' <= change' + stale'
      BY <1>3, <1>5, <2>1, <2>3
    <3>4. Weight(Worths, events') <= amounts'.toDispensing
      BY <1>4, <1>5, <2>1, <2>3
    <3>5. \A u \in Units : job'[u] = <<>>
      BY <1>3, <2>5
    <3> QED
      BY <1>3, <3>2, <3>3, <3>4, <3>5
  <2>8. OneAtATime'
    BY <1>3, <2>2, <2>4, <2>5, <2>6
  <2> QED
    BY <2>7, <2>8
<1> QED
  BY <1>6, <1>7

LEMMA DecideKeepsMoney ==
  ASSUME TypeOK, Money, Decide
  PROVE  Money'
<1>1. amounts \in [toDispensing : Int, dispensed : Nat]
  BY TypeFacts
<1>2. main = "decide" /\ UNCHANGED <<job, events, stale>> /\ main' \in {"idle", "again"}
  BY DEF Decide, deviceVars
<1> USE DEF Money, OneAtATime, WithinChange
<1>3. Weight(Reports, events) \in Nat
  BY MeasuresOfQueue
<1>4. (\A u \in Units : job[u] = <<>>) /\ Weight(Reports, events) = 0
  BY <1>2, <1>3
<1>5. CASE UNCHANGED <<amounts, change, overdrawn>>
  <2>1. amounts # NoAmounts
    BY <1>2
  <2> QED
    BY <1>2, <1>4, <1>5, <2>1
<1>6. CASE main' = "idle" /\ amounts' = NoAmounts /\ Report(amounts.dispensed)
  <2>1. /\ change' = (IF amounts.dispensed <= change THEN change - amounts.dispensed ELSE 0)
        /\ overdrawn' = overdrawn + (IF amounts.dispensed <= change THEN 0
                                    ELSE amounts.dispensed - change)
    BY <1>6 DEF Report, Beyond
  <2>2. amounts'.toDispensing = 0 /\ amounts'.dispensed = 0
    BY <1>6 DEF NoAmounts
  <2>3. Weight(Worths, events) = 0
    BY <1>4, NothingUnheard, TypeFacts
  <2>4. overdrawn' <= stale /\ 0 + 0 + overdrawn' <= change' + stale
    <3> DEFINE d == amounts.dispensed
               a == amounts.toDispensing
    <3>1. overdrawn <= stale /\ a >= 0 /\ a + d + overdrawn <= change + stale
      OBVIOUS
    <3>2. d \in Nat /\ a \in Int /\ change \in Nat /\ stale \in Nat /\ overdrawn \in Nat
      BY BookTypes
    <3>3. /\ change' = (IF d <= change THEN change - d ELSE 0)
          /\ overdrawn' = overdrawn + (IF d <= change THEN 0 ELSE d - change)
      BY <2>1
    <3> HIDE DEF d, a, Money, OneAtATime, WithinChange
    <3> QED
      BY <3>1, <3>2, <3>3
  <2>5. WithinChange'
    BY <1>2, <1>4, <2>2, <2>3, <2>4
  <2>6. OneAtATime'
    BY <1>2, <1>4, <1>6
  <2> QED
    BY <2>5, <2>6
<1> QED
  BY <1>5, <1>6 DEF Decide

\* What dispense() is asked for: a new amount within the change, but for what is
\* beyond it, or the rest of the one that is being paid out.
Within(a) ==
  \/ amounts = NoAmounts /\ stale' = stale + Beyond(a)
  \/ amounts # NoAmounts /\ a = amounts.toDispensing /\ stale' = stale

\* dispense() of an amount, with nothing else on its way.
LEMMA SendBatchKeepsMoney ==
  ASSUME TypeOK, Money, NEW a \in Int, SendBatch(a), UNCHANGED events, main' = "idle",
         \A u \in Units : job[u] = <<>>, Weight(Reports, events) = 0,
         Within(a)
  PROVE  Money'
<1>1. /\ amounts \in [toDispensing : Int, dispensed : Nat] /\ change \in Nat
      /\ stale \in Nat /\ overdrawn \in Nat
      /\ count \in [Units -> Nat] /\ job \in [Units -> Seq(Nat)]
  BY TypeFacts
<1>2. PICK u \in Largest(a) : job' = [job EXCEPT ![u] = Append(@, Batch(u, a))]
  BY DEF SendBatch
<1>3. u \in Units /\ Batch(u, a) \in Nat /\ a > 0 /\ Batch(u, a) * Nominal[u] <= a
  BY <1>1, BatchFits
<1> DEFINE batch == Batch(u, a)
<1>4. \A v \in Units : job'[v] = IF v = u THEN <<batch>> ELSE <<>>
  <2> HIDE DEF batch
  <2>1. job' = [job EXCEPT ![u] = Append(@, batch)]
    BY <1>2 DEF batch
  <2>2. job[u] = <<>> /\ Append(<<>>, batch) = <<batch>>
    BY <1>3
  <2>3. job'[u] = <<batch>>
    BY <1>1, <1>3, <2>1, <2>2
  <2>4. ASSUME NEW v \in Units, v # u
        PROVE  job'[v] = <<>>
    BY <1>1, <2>1, <2>4
  <2> QED
    BY <2>3, <2>4
<1>5. UNCHANGED <<change, overdrawn>>
  BY DEF SendBatch
<1>6. Weight(Worths, events) = 0
  BY NothingUnheard, TypeFacts
<1> USE DEF Money, OneAtATime, WithinChange
<1>7. /\ amounts'.toDispensing = a /\ amounts'.dispensed = amounts.dispensed
      /\ amounts' # NoAmounts /\ overdrawn <= stale'
      /\ a + amounts.dispensed + overdrawn <= change + stale'
  <2>1. CASE amounts = NoAmounts
    <3>1. amounts' = [toDispensing |-> a, dispensed |-> 0] /\ amounts.dispensed = 0
      BY <2>1 DEF SendBatch, NoAmounts
    <3>2. amounts'.toDispensing = a /\ amounts'.dispensed = 0
      BY <3>1
    <3>3. amounts' # NoAmounts
      BY <1>3, <3>2 DEF NoAmounts
    <3>4. stale' = stale + Beyond(a)
      BY <2>1 DEF Within
    <3>5. Beyond(a) \in Nat /\ a <= change + Beyond(a)
      BY <1>1, <1>3 DEF Beyond
    <3>6. overdrawn <= stale' /\ a + 0 + overdrawn <= change + stale'
      <4>1. PICK b \in Nat : b = Beyond(a)
        BY <3>5
      <4>2. stale' = stale + b /\ a <= change + b
        BY <3>4, <3>5, <4>1
      <4>3. overdrawn <= stale
        BY <1>1
      <4>4. /\ a \in Int /\ b \in Nat /\ change \in Nat /\ stale \in Nat /\ overdrawn \in Nat
        BY <1>1, <1>3, <4>1
      <4> QED
        BY <4>2, <4>3, <4>4
    <3> QED
      BY <3>1, <3>2, <3>3, <3>6
  <2>2. CASE amounts # NoAmounts
    BY <2>2 DEF SendBatch, Within
  <2> QED
    BY <2>1, <2>2
<1>8. WithinChange'
  <2>1. ASSUME NEW v \in Units, job'[v] # <<>>
        PROVE  Head(job'[v]) * Nominal[v] <= a
    <3>1. v = u /\ job'[v] = <<Batch(u, a)>>
      BY <1>4, <2>1
    <3>2. Head(job'[v]) = Batch(u, a)
      BY <3>1
    <3> QED
      BY <1>3, <3>1, <3>2
  <2> QED
    BY <1>3, <1>5, <1>6, <1>7, <2>1
<1>10. OneAtATime'
  <2>1. \A v, w \in Units : job'[v] # <<>> /\ job'[w] # <<>> => v = w
    BY <1>4
  <2>2. ASSUME NEW v \in Units
        PROVE  Len(job'[v]) <= 1
    <3> HIDE DEF batch
    <3>1. CASE job'[v] = <<batch>>
      BY <3>1
    <3>2. CASE job'[v] = <<>>
      BY <3>2
    <3> QED
      BY <1>4, <3>1, <3>2
  <2> QED
    BY <1>7, <2>1, <2>2
<1> QED
  BY <1>8, <1>10

\* dispense() that reports 0.
LEMMA ReportNothingKeepsMoney ==
  ASSUME TypeOK, Money, ReportNothing, UNCHANGED events, main' = "idle",
         \A u \in Units : job[u] = <<>>, Weight(Reports, events) = 0,
         stale' \in Nat, stale <= stale'
  PROVE  Money'
<1>1. /\ change \in Nat /\ stale \in Nat /\ overdrawn \in Nat /\ amounts' = NoAmounts
      /\ UNCHANGED job
  BY TypeFacts DEF ReportNothing
<1>2. UNCHANGED <<change, overdrawn>>
  BY <1>1 DEF ReportNothing, Report, Beyond
<1>3. Weight(Worths, events) = 0
  BY NothingUnheard, TypeFacts
<1>4. amounts'.toDispensing = 0 /\ amounts'.dispensed = 0
  BY <1>1 DEF NoAmounts
<1> USE DEF Money, OneAtATime, WithinChange
<1>5. \A u \in Units : job'[u] = <<>>
  BY <1>1
<1>6. OneAtATime'
  BY <1>1, <1>5
<1>7. overdrawn <= stale
  OBVIOUS
<1>8. overdrawn <= stale' /\ 0 + 0 + overdrawn <= change + stale'
  <2>1. PICK x, y, z, c : x = overdrawn /\ y = stale /\ z = stale' /\ c = change
    OBVIOUS
  <2>2. x \in Nat /\ y \in Nat /\ z \in Nat /\ c \in Nat /\ x <= y /\ y <= z
    BY <1>1, <1>7, <2>1
  <2> HIDE DEF Money, OneAtATime, WithinChange
  <2>3. x <= z /\ 0 + 0 + x <= c + z
    BY <2>2
  <2> QED
    BY <2>1, <2>3
<1>9. WithinChange'
  BY <1>2, <1>3, <1>4, <1>5, <1>8
<1> QED
  BY <1>6, <1>9

LEMMA DispenseRestKeepsMoney ==
  ASSUME TypeOK, Money, DispenseRest
  PROVE  Money'
<1>1. main = "again" /\ main' = "idle" /\ UNCHANGED <<events, stale>>
  BY DEF DispenseRest
<1>2. Weight(Reports, events) \in Nat
  BY MeasuresOfQueue
<1>3. (\A u \in Units : job[u] = <<>>) /\ Weight(Reports, events) = 0 /\ amounts # NoAmounts
  BY <1>1, <1>2 DEF Money, OneAtATime
<1>4. amounts.toDispensing \in Int /\ stale \in Nat
  BY TypeFacts
<1>5. CASE SendBatch(amounts.toDispensing)
  <2>1. Within(amounts.toDispensing)
    BY <1>1, <1>3 DEF Within
  <2> QED
    BY <1>1, <1>3, <1>4, <1>5, <2>1, SendBatchKeepsMoney
<1>6. CASE ReportNothing
  BY <1>1, <1>3, <1>4, <1>6, ReportNothingKeepsMoney
<1> QED
  BY <1>5, <1>6 DEF DispenseRest

LEMMA AskDispenseKeepsMoney ==
  ASSUME TypeOK, Money, AskDispense, ~crossed'
  PROVE  Money'
<1>1. main' = "idle" /\ UNCHANGED events /\ amounts = NoAmounts /\ stale' = stale + Beyond(available)
  BY DEF AskDispense
<1>2. available \in Nat /\ change \in Nat /\ stale \in Nat
  BY TypeFacts
<1>3. (\A u \in Units : job[u] = <<>>) /\ Weight(Reports, events) = 0
  BY <1>1 DEF Money, OneAtATime
<1>4. CASE SendBatch(available)
  <2>1. Within(available)
    BY <1>1 DEF Within
  <2> QED
    BY <1>1, <1>2, <1>3, <1>4, <2>1, SendBatchKeepsMoney
<1>5. CASE ReportNothing
  <2>1. stale' \in Nat /\ stale <= stale'
    BY <1>1, <1>2 DEF Beyond
  <2> QED
    BY <1>1, <1>3, <1>5, <2>1, ReportNothingKeepsMoney
<1> QED
  BY <1>4, <1>5 DEF AskDispense

\* The batch that comes out is the only one there is.
LEMMA JobDone ==
  ASSUME TypeOK, Money, NEW u \in Units, NextJob(u)
  PROVE  \A v \in Units : job'[v] = <<>>
<1>1. job \in [Units -> Seq(Nat)] /\ job[u] # <<>> /\ job' = [job EXCEPT ![u] = Tail(@)]
  BY TypeFacts DEF NextJob
<1>2. \A v \in Units : v # u => job[v] = <<>>
  BY <1>1 DEF Money, OneAtATime
<1>3. Tail(job[u]) = <<>>
  BY <1>1 DEF Money, OneAtATime
<1> QED
  BY <1>1, <1>2, <1>3

LEMMA PayOutKeepsMoney ==
  ASSUME TypeOK, Money, NEW u \in Units, PayOut(u) \/ PayOutAmiss(u)
  PROVE  Money'
<1>1. PICK k, r, n, s : Leaves(u, k, r, n, s) /\ n <= Head(job[u])
  BY PayOutComesOut
<1>2. UNCHANGED <<amounts, main, change, stale, overdrawn>>
  BY DEF PayOut, PayOutAmiss, managerVars
<1>3. /\ NextJob(u) /\ ComeOut(u, k, r, n, s)
      /\ k \in Nat /\ r \in Nat /\ n \in Nat /\ s \in Nat
  BY <1>1 DEF Leaves
<1> DEFINE worth == n * Nominal[u]
<1>4. /\ Weight(Worths, events') = Weight(Worths, events) + worth
      /\ Weight(Reports, events') = Weight(Reports, events) + 1
  BY <1>3, ComeOutQueues
<1>5. /\ job[u] # <<>> /\ Head(job[u]) \in Nat
      /\ amounts \in [toDispensing : Int, dispensed : Nat]
  BY <1>3, TypeFacts, MostOutType DEF NextJob
<1>6. worth \in Nat /\ worth <= Head(job[u]) * Nominal[u]
  BY <1>1, <1>3, <1>5, NominalAssumption, ProductType, ProductGrows
<1> HIDE DEF worth
<1>7. Head(job[u]) * Nominal[u] \in Nat
  BY <1>5, NominalAssumption, ProductType
<1>8. Weight(Worths, events) = 0
  BY <1>5, NothingUnheard, TypeFacts DEF Money, OneAtATime
<1>9. \A v \in Units : job'[v] = <<>>
  BY <1>3, JobDone
<1> USE DEF Money, OneAtATime, WithinChange
<1>10. worth <= amounts.toDispensing
  BY <1>5, <1>6, <1>7
<1>11. WithinChange'
  BY <1>2, <1>4, <1>6, <1>8, <1>9, <1>10
<1>12. OneAtATime'
  BY <1>2, <1>4, <1>5, <1>9
<1> QED
  BY <1>11, <1>12

\* A driver that keeps silent drops the only batch there is.
LEMMA KeepSilentKeepsMoney ==
  ASSUME TypeOK, Money, NEW u \in Units, KeepSilent(u)
  PROVE  Money'
<1>1. /\ NextJob(u) /\ job[u] # <<>>
      /\ UNCHANGED <<events, amounts, main, change, stale, overdrawn>>
  BY DEF KeepSilent, NextJob, managerVars
<1>2. \A v \in Units : job'[v] = <<>>
  BY <1>1, JobDone
<1> USE DEF Money, OneAtATime, WithinChange
<1>3. OneAtATime'
  BY <1>1, <1>2
<1>4. WithinChange'
  BY <1>1, <1>2
<1> QED
  BY <1>3, <1>4

LEMMA NextMoney == ASSUME TypeOK, MoneyInv, [Next]_vars PROVE MoneyInv'
<1> SUFFICES ASSUME ~crossed'
             PROVE  Money'
  BY DEF MoneyInv
<1>1. ~crossed
  BY DEF Next, vars, Manager, HandleEvent, Decide, DispenseRest, Scenario, AskCanDispense,
         AskDispense, GiveUp, Driver, PayOut, PayOutAmiss, KeepSilent, Fail, Recover, ghostVars
<1>2. Money
  BY <1>1 DEF MoneyInv
<1>3. CASE HandleEvent
  BY <1>2, <1>3, HandleEventKeepsMoney
<1>4. CASE Decide
  BY <1>2, <1>4, DecideKeepsMoney
<1>5. CASE DispenseRest
  BY <1>2, <1>5, DispenseRestKeepsMoney
<1>6. CASE AskDispense
  BY <1>2, <1>6, AskDispenseKeepsMoney
<1>7. ASSUME UNCHANGED <<job, events, amounts, main, change, stale, overdrawn>>
      PROVE  Money'
  BY <1>2, <1>7 DEF Money, OneAtATime, WithinChange
<1>8. CASE AskCanDispense \/ GiveUp \/ UNCHANGED vars
  BY <1>7, <1>8 DEF AskCanDispense, GiveUp, vars, deviceVars, managerVars, ghostVars
<1>9. ASSUME NEW u \in Units, PayOut(u) \/ PayOutAmiss(u)
      PROVE  Money'
  BY <1>2, <1>9, PayOutKeepsMoney
<1>10. ASSUME NEW u \in Units, KeepSilent(u)
       PROVE  Money'
  BY <1>2, <1>10, KeepSilentKeepsMoney
<1>11. ASSUME NEW u \in Units, Fail(u) \/ Recover(u)
       PROVE  Money'
  BY <1>7, <1>11 DEF Fail, Recover, managerVars, ghostVars
<1> QED
  BY <1>3, <1>4, <1>5, <1>6, <1>8, <1>9, <1>10, <1>11 DEF Next, Manager, Scenario, Driver

-----------------------------------------------------------------------------
(* The theorems. *)

IInv == TypeOK /\ Counted /\ Booked /\ MoneyInv

\* The inductive invariant of the dispensers, the manager and the change, for any
\* units, nominals and contents, any change, any number of calls and faults, and
\* whatever the drivers report of what came out.
THEOREM Invariant == Spec => []IInv
<1>1. Init => IInv
  BY InitTypeOK, InitCounted, InitBooked, InitMoney DEF IInv, MoneyInv
<1>2. IInv /\ [Next]_vars => IInv'
  BY NextTypeOK, NextCounted, NextBooked, NextMoney DEF IInv
<1> QED
  BY <1>1, <1>2, PTL DEF Spec

\* What the scenario, the manager and the drivers keep stays well-formed; no count
\* and no content of a unit falls below zero (handleSignal, performDispense).
THEOREM TypeCorrect == Spec => []TypeOK
<1>1. IInv => TypeOK
  BY DEF IInv
<1> QED
  BY <1>1, Invariant, PTL

\* With no signal of a unit on its way the count of the manager is what is in the
\* unit and what left it without a report, or both are zero (handleSignal,
\* onUnitEmpty).
THEOREM CountsBecomeTrue == Spec => []CountsAreTrue
<1>1. IInv => CountsAreTrue
  <2> SUFFICES ASSUME IInv, NEW u \in Units, \A i \in DOMAIN events : events[i].unit # u
               PROVE  count[u] = stock[u] + gone[u] \/ (count[u] = 0 /\ stock[u] = 0)
    BY DEF CountsAreTrue
  <2>1. events \in Seq(Signal) /\ stock \in [Units -> Nat] /\ gone \in [Units -> Nat]
    BY TypeFacts DEF IInv
  <2>2. ASSUME NEW i \in 1 .. Len(events)
        PROVE  Notes[u][events[i]] = 0
    BY <2>1 DEF Notes
  <2>3. Weight(Notes[u], events) = 0
    BY <2>1, <2>2, MeasureTypes, WeightOfNothing
  <2> QED
    BY <2>1, <2>3 DEF IInv, Counted
<1> QED
  BY <1>1, Invariant, PTL

\* Every note that came out is taken off the change, or booked, or reported, but for
\* what was never told to PaymentService and what exceeds the change, also when
\* requests cross (onDispensed, onAmountDispensed).
THEOREM PaidIsAccountedFor == Spec => []PaidIsTakenOff
<1>1. IInv => PaidIsTakenOff
  BY TypeFacts, UnheardUnfolds, WorthIsWeight DEF IInv, Booked, PaidIsTakenOff
<1> QED
  BY <1>1, Invariant, PTL

\* As long as no request meets the remains of another one, no more comes out than
\* the change, what was never told and what was asked for beyond the change
\* (dispense, canDispense).
THEOREM PaidWithinChange == Spec => []NotMoreThanChange
<1>1. IInv => NotMoreThanChange
  <2> SUFFICES ASSUME IInv, ~crossed
               PROVE  paid <= Change + untold + stale
    BY DEF NotMoreThanChange
  <2> DEFINE w == Weight(Worths, events)
             a == amounts.toDispensing
             d == amounts.dispensed
  <2>1. /\ a \in Int /\ d \in Nat /\ w \in Nat /\ change \in Nat /\ untold \in Nat /\ stale \in Nat
        /\ overdrawn \in Nat /\ paid \in Nat /\ Change \in Nat
    BY BookTypes DEF IInv
  <2>2. paid = (Change - change) + d + w + untold + overdrawn
    BY DEF IInv, Booked
  <2>3. w <= a /\ a + d + overdrawn <= change + stale
    BY DEF IInv, MoneyInv, Money, WithinChange
  <2> HIDE DEF w, a, d
  <2> QED
    BY <2>1, <2>2, <2>3
<1> QED
  BY <1>1, Invariant, PTL

\* canDispense() never finds more than it is asked for: what the scenario then asks
\* dispense() for is within the change it was given.
THEOREM FoundWithinAmount ==
  ASSUME TypeOK, NEW a \in Nat
  PROVE  CanDispense(a) <= a
<1>1. count \in [Units -> Nat] /\ a \in Int
  BY TypeFacts
<1>2. a = 0 => CanDispense(a) = 0
  BY DEF CanDispense
<1> QED
  BY <1>1, <1>2, CanDispenseType
=============================================================================
