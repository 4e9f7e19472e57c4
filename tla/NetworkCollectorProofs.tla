----------------------- MODULE NetworkCollectorProofs -----------------------
(***************************************************************************)
(* Proofs about the network collector: for any nodes, pods, series and     *)
(* length of an answer, a round deals with every node that it listed, and  *)
(* the gauge is only ever set to the whole egress of one pod.              *)
(*                                                                         *)
(* The second rests on what PodMetrics computes, a fold of Adds over the   *)
(* series in their order, against Egress, a sum in an order of CHOOSE's    *)
(* own.  Induction over the folded set is done as the search for a         *)
(* smallest counterexample: strict inclusion is well founded on the        *)
(* subsets of a finite set.  Operators cannot be quantified over, so that  *)
(* a fold is described by the function that computes it: its step is a     *)
(* function, its choices are a function.                                   *)
(***************************************************************************)
EXTENDS NetworkCollector, FiniteSetTheorems, TLAPS

-----------------------------------------------------------------------------
(* Folds over a finite set.                                                *)

\* A set of subsets of a finite set has a smallest one.
LEMMA SmallestSubset ==
  ASSUME NEW S, IsFiniteSet(S), NEW Bad \in SUBSET (SUBSET S), Bad # {}
  PROVE  \E T \in Bad : \A U \in Bad : U \subseteq T => U = T
<1>1. /\ IsWellFoundedOn(StrictSubsetOrdering(S), FiniteSubsetsOf(S))
      /\ FiniteSubsetsOf(S) = SUBSET S
  BY FS_StrictSubsetOrderingWellFounded, FS_FiniteSubsetsOfFinite
<1>2. PICK T \in Bad : \A U \in Bad : ~(<<U, T>> \in StrictSubsetOrdering(S))
  BY <1>1, WFMin
<1>3. \A U \in Bad : U \subseteq T => U = T
  BY <1>2 DEF StrictSubsetOrdering
<1> QED BY <1>3

\* c takes an element of every subset.
Chooses(c, S) == \A T \in SUBSET S : T # {} => c[T] \in T

\* f folds the subsets of T: with base for the empty one, and step for the
\* element that c takes out.
Solves(f, T, base, c, step) ==
  f = [U \in SUBSET T |-> IF U = {} THEN base ELSE step[c[U]][f[U \ {c[U]}]]]

\* Two folds agree where both are defined.
LEMMA FoldsAgree ==
  ASSUME NEW S, IsFiniteSet(S), NEW c, Chooses(c, S), NEW base, NEW step,
         NEW A \in SUBSET S, NEW B \in SUBSET S, NEW f, NEW g,
         Solves(f, A, base, c, step), Solves(g, B, base, c, step)
  PROVE  \A U \in SUBSET (A \cap B) : f[U] = g[U]
<1> DEFINE Bad == {U \in SUBSET (A \cap B) : f[U] # g[U]}
<1> SUFFICES ASSUME Bad # {} PROVE FALSE
  OBVIOUS
<1>1. PICK T \in Bad : \A U \in Bad : U \subseteq T => U = T
  <2>1. Bad \in SUBSET (SUBSET S)
    OBVIOUS
  <2> HIDE DEF Bad
  <2> QED BY <2>1, SmallestSubset
<1>2. T # {}
  BY DEF Solves
<1>3. c[T] \in T /\ T \ {c[T]} \in SUBSET (A \cap B)
  BY <1>2 DEF Chooses
<1>4. f[T \ {c[T]}] = g[T \ {c[T]}]
  BY <1>1, <1>3
<1>5. T \in SUBSET A /\ T \in SUBSET B
  OBVIOUS
<1>6. f[T] = step[c[T]][f[T \ {c[T]}]] /\ g[T] = step[c[T]][g[T \ {c[T]}]]
  BY <1>2, <1>5 DEF Solves
<1>7. f[T] = g[T]
  BY <1>4, <1>6
<1> QED BY <1>7

\* A fold has a value for every subset.
LEMMA FoldExists ==
  ASSUME NEW S, IsFiniteSet(S), NEW c, Chooses(c, S), NEW base, NEW step
  PROVE  \E f : Solves(f, S, base, c, step)
<1> DEFINE Sol(g, T) == Solves(g, T, base, c, step)
           Bad == {T \in SUBSET S : ~\E g : Sol(g, T)}
<1> SUFFICES ASSUME Bad # {} PROVE FALSE
  OBVIOUS
<1>1. PICK T \in Bad : \A U \in Bad : U \subseteq T => U = T
  <2>1. Bad \in SUBSET (SUBSET S)
    OBVIOUS
  <2> HIDE DEF Bad
  <2> QED BY <2>1, SmallestSubset
<1> DEFINE some(U) == CHOOSE g : Sol(g, U)
           whole == [U \in SUBSET T |->
                       IF U = {} THEN base
                       ELSE step[c[U]][some(U \ {c[U]})[U \ {c[U]}]]]
<1>2. ASSUME NEW U \in SUBSET T, U # T
      PROVE  Sol(some(U), U)
  BY <1>1, <1>2
<1> HIDE DEF some
<1>3. ASSUME NEW U \in SUBSET T, U # {}
      PROVE  U \ {c[U]} \in SUBSET T /\ U \ {c[U]} # T
  BY <1>3 DEF Chooses
<1>4. ASSUME NEW U \in SUBSET T, U # T
      PROVE  whole[U] = some(U)[U]
  <2>1. Sol(some(U), U)
    BY <1>2, <1>4
  <2>2. CASE U = {}
    BY <2>1, <2>2 DEF Solves
  <2>3. CASE U # {}
    <3> DEFINE W == U \ {c[U]}
    <3>1. Sol(some(W), W)
      BY <1>2, <1>3, <2>3
    <3>2. W \in SUBSET (U \cap W) /\ U \in SUBSET S /\ W \in SUBSET S
      OBVIOUS
    <3>3. some(U)[W] = some(W)[W]
      BY <2>1, <3>1, <3>2, FoldsAgree
    <3>4. some(U)[U] = step[c[U]][some(U)[W]]
      BY <2>1, <2>3 DEF Solves
    <3> QED BY <2>3, <3>3, <3>4
  <2> QED BY <2>2, <2>3
<1>5. Sol(whole, T)
  <2>1. ASSUME NEW U \in SUBSET T
        PROVE  whole[U] = IF U = {} THEN base ELSE step[c[U]][whole[U \ {c[U]}]]
    <3>1. CASE U = {}
      BY <3>1
    <3>2. CASE U # {}
      <4>1. whole[U \ {c[U]}] = some(U \ {c[U]})[U \ {c[U]}]
        BY <1>3, <1>4, <3>2
      <4> QED BY <3>2, <4>1
    <3> QED BY <3>1, <3>2
  <2>2. whole = [U \in SUBSET T |-> whole[U]]
    OBVIOUS
  <2> HIDE DEF whole
  <2> QED BY <2>1, <2>2 DEF Solves
<1>6. T \in SUBSET S /\ ~\E g : Sol(g, T)
  OBVIOUS
<1> HIDE DEF Sol
<1> QED BY <1>5, <1>6

\* What a fold keeps in a set.
LEMMA FoldType ==
  ASSUME NEW S, IsFiniteSet(S), NEW c, Chooses(c, S), NEW V, NEW base \in V, NEW step,
         \A x \in S, v \in V : step[x][v] \in V,
         NEW f, Solves(f, S, base, c, step)
  PROVE  f \in [SUBSET S -> V]
<1> DEFINE Bad == {T \in SUBSET S : f[T] \notin V}
<1>1. SUFFICES ASSUME Bad # {} PROVE FALSE
  BY DEF Solves
<1>2. PICK T \in Bad : \A U \in Bad : U \subseteq T => U = T
  <2>1. Bad \in SUBSET (SUBSET S)
    OBVIOUS
  <2> HIDE DEF Bad
  <2> QED BY <1>1, <2>1, SmallestSubset
<1>3. T # {}
  BY DEF Solves
<1>4. c[T] \in T /\ f[T \ {c[T]}] \in V
  BY <1>2, <1>3 DEF Chooses
<1>5. f[T] = step[c[T]][f[T \ {c[T]}]]
  BY <1>3 DEF Solves
<1> QED BY <1>4, <1>5

\* The step of a sum of weights.
Plus(w) == [x \in DOMAIN w |-> [n \in Nat |-> w[x] + n]]

\* f has the sum of the weights w of every subset of S.
IsSum(f, S, w) ==
  /\ f \in [SUBSET S -> Nat]
  /\ f[{}] = 0
  /\ \A T \in SUBSET S : \A x \in T : f[T] = w[x] + f[T \ {x}]

\* A sum is the same whichever element is taken out.
LEMMA SumWithout ==
  ASSUME NEW S, IsFiniteSet(S), NEW c, Chooses(c, S), NEW w \in [S -> Nat],
         NEW f, Solves(f, S, 0, c, Plus(w))
  PROVE  IsSum(f, S, w)
<1>1. f \in [SUBSET S -> Nat]
  <2>1. \A x \in S, v \in Nat : Plus(w)[x][v] \in Nat
    BY DEF Plus
  <2>2. 0 \in Nat
    OBVIOUS
  <2> DEFINE step == Plus(w)
  <2>3. Solves(f, S, 0, c, step) /\ \A x \in S, v \in Nat : step[x][v] \in Nat
    BY <2>1
  <2> HIDE DEF step
  <2> QED BY <2>2, <2>3, FoldType
<1>2. f[{}] = 0
  BY DEF Solves
<1>3. ASSUME NEW T \in SUBSET S, T # {}
      PROVE  c[T] \in T /\ f[T] = w[c[T]] + f[T \ {c[T]}]
  <2>1. c[T] \in T
    BY <1>3 DEF Chooses
  <2>2. f[T] = Plus(w)[c[T]][f[T \ {c[T]}]]
    BY <1>3 DEF Solves
  <2> QED BY <1>1, <2>1, <2>2 DEF Plus
<1> DEFINE Bad == {T \in SUBSET S : \E x \in T : f[T] # w[x] + f[T \ {x}]}
<1>4. ASSUME Bad # {} PROVE FALSE
  <2>1. PICK T \in Bad : \A U \in Bad : U \subseteq T => U = T
    <3>1. Bad \in SUBSET (SUBSET S)
      OBVIOUS
    <3> HIDE DEF Bad
    <3> QED BY <1>4, <3>1, SmallestSubset
  <2>2. PICK x \in T : f[T] # w[x] + f[T \ {x}]
    OBVIOUS
  <2> DEFINE y == c[T]
             Both == T \ {x, y}
  <2>3. y \in T /\ f[T] = w[y] + f[T \ {y}] /\ x # y
    BY <1>3, <2>2
  <2>4. f[T \ {y}] = w[x] + f[Both]
    <3>1. (T \ {y}) \ {x} = Both
      OBVIOUS
    <3>2. T \ {y} \notin Bad /\ x \in T \ {y} /\ T \ {y} \in SUBSET S
      BY <2>1, <2>3
    <3> QED BY <3>1, <3>2
  <2>5. f[T \ {x}] = w[y] + f[Both]
    <3>1. (T \ {x}) \ {y} = Both
      OBVIOUS
    <3>2. T \ {x} \notin Bad /\ y \in T \ {x} /\ T \ {x} \in SUBSET S
      BY <2>1, <2>3
    <3> QED BY <3>1, <3>2
  <2>6. f[Both] \in Nat /\ w[x] \in Nat /\ w[y] \in Nat
    BY <1>1, <2>3
  <2> HIDE DEF y, Both
  <2> QED BY <2>2, <2>3, <2>4, <2>5, <2>6
<1> QED BY <1>1, <1>2, <1>4 DEF IsSum

\* The greatest of some indices is one of them.
LEMMA MaxOfSome ==
  ASSUME NEW n \in Nat, NEW T \in SUBSET (1..n), T # {}
  PROVE  Max(T) \in T
<1> DEFINE D == {d \in Nat : n - d \in T}
<1>1. D \subseteq Nat /\ D # {}
  <2>1. PICK x \in T : TRUE
    OBVIOUS
  <2>2. n - x \in D
    BY <2>1
  <2> QED BY <2>2
<1>2. PICK d \in D : \A e \in D : ~(<<e, d>> \in OpToRel(<, Nat))
  <2> HIDE DEF D
  <2> QED BY <1>1, NatLessThanWellFounded, WFMin
<1>3. \A e \in D : ~(e < d)
  BY <1>2 DEF OpToRel
<1>4. ASSUME NEW x \in T PROVE n - d >= x
  <2>1. n - x \in D
    OBVIOUS
  <2> QED BY <1>3, <2>1
<1>5. n - d \in T /\ \A x \in T : n - d >= x
  BY <1>4
<1> QED BY <1>5 DEF Max

-----------------------------------------------------------------------------
(* The fold of Adds over a sequence of series.                             *)

\* The values of podMetrics.
Tables == UNION {[K -> Nat] : K \in SUBSET Keys}

\* What Val finds in a table.
LEMMA TableType ==
  ASSUME NEW m \in Tables
  PROVE  /\ DOMAIN m \subseteq Keys
         /\ \A k \in DOMAIN m : m[k] \in Nat
         /\ m = [k \in DOMAIN m |-> m[k]]
         /\ \A k : Val(m, k) \in Nat
BY DEF Tables, Val

\* One series changes the entry of its pod and no other.
LEMMA AddsVal ==
  ASSUME NEW m \in Tables, NEW s \in Series, NEW e \in Nat
  PROVE  /\ Adds(m, s, e) \in Tables
         /\ \A k \in Keys : Val(Adds(m, s, e), k) =
               IF ~Skipped(s) /\ KeyOf(s) = k THEN e + Val(m, k) ELSE Val(m, k)
<1>1. CASE Skipped(s)
  BY <1>1 DEF Adds
<1>2. CASE ~Skipped(s)
  <2> DEFINE j == KeyOf(s)
             new == Val(m, j) + e
             after == [k \in DOMAIN m \cup {j} |-> IF k = j THEN new ELSE m[k]]
  <2>1. j \in Keys
    BY <1>2, SeriesAssumption DEF Skipped, KeyOf, Keys
  <2>2. new \in Nat
    BY TableType
  <2>3. Adds(m, s, e) = after
    BY <1>2 DEF Adds, Val
  <2>4. after \in Tables
    <3>1. DOMAIN m \cup {j} \in SUBSET Keys
      BY <2>1, TableType
    <3>2. after \in [DOMAIN m \cup {j} -> Nat]
      BY <2>2, TableType
    <3> HIDE DEF after
    <3> QED BY <3>1, <3>2 DEF Tables
  <2>5. ASSUME NEW k \in Keys
        PROVE  Val(after, k) = IF j = k THEN e + Val(m, k) ELSE Val(m, k)
    BY <2>2, TableType DEF Val
  <2> HIDE DEF after, j
  <2> QED BY <1>2, <2>3, <2>4, <2>5 DEF j
<1> QED BY <1>1, <1>2

\* The series s is about the pod k.
Counts(s, k) == ~Skipped(s) /\ KeyOf(s) = k

\* f folds Adds over the series of seq, from the first to the last, with the
\* egress w of each.
AddsUp(f, seq, base, w) ==
  f = [U \in SUBSET DOMAIN seq |->
         IF U = {} THEN base ELSE Adds(f[U \ {Max(U)}], seq[Max(U)], w[Max(U)])]

\* There is such a fold.
LEMMA FoldOfAdds ==
  ASSUME NEW n \in Nat, NEW seq \in [1..n -> Series], NEW w \in [1..n -> Nat],
         NEW base \in Tables
  PROVE  \E f : AddsUp(f, seq, base, w)
<1> DEFINE c == [U \in SUBSET (1..n) |-> Max(U)]
           step == [i \in 1..n |-> [m \in Tables |-> Adds(m, seq[i], w[i])]]
<1>1. IsFiniteSet(1..n)
  BY FS_Interval
<1>2. Chooses(c, 1..n)
  BY MaxOfSome DEF Chooses
<1>3. \A i \in 1..n, m \in Tables : step[i][m] \in Tables
  BY AddsVal
<1>4. PICK f : Solves(f, 1..n, base, c, step)
  <2> HIDE DEF c, step
  <2> QED BY <1>1, <1>2, FoldExists
<1>5. f \in [SUBSET (1..n) -> Tables]
  <2> HIDE DEF c, step
  <2> QED BY <1>1, <1>2, <1>3, <1>4, FoldType
<1>6. ASSUME NEW U \in SUBSET (1..n), U # {}
      PROVE  step[c[U]][f[U \ {c[U]}]] = Adds(f[U \ {Max(U)}], seq[Max(U)], w[Max(U)])
  <2>1. Max(U) \in 1..n /\ c[U] = Max(U)
    BY <1>6, MaxOfSome
  <2>2. f[U \ {Max(U)}] \in Tables
    BY <1>5
  <2> QED BY <2>1, <2>2
<1>7. AddsUp(f, seq, base, w)
  <2> HIDE DEF c, step
  <2>1. f = [U \in SUBSET (1..n) |-> IF U = {} THEN base ELSE step[c[U]][f[U \ {c[U]}]]]
    BY <1>4 DEF Solves
  <2>2. DOMAIN seq = 1..n
    OBVIOUS
  <2>3. [U \in SUBSET (1..n) |-> IF U = {} THEN base ELSE step[c[U]][f[U \ {c[U]}]]]
          = [U \in SUBSET (1..n) |->
               IF U = {} THEN base ELSE Adds(f[U \ {Max(U)}], seq[Max(U)], w[Max(U)])]
    BY <1>6
  <2> QED BY <2>1, <2>2, <2>3 DEF AddsUp
<1> QED BY <1>7

\* Those of the series with the indices U that are about k.
About(seq, U, k) == {i \in U : Counts(seq[i], k)}

\* m has what base has, and the sums over the series with the indices U.
Totals(m, seq, U, base, sum) ==
  /\ m \in Tables
  /\ \A k \in Keys : Val(m, k) = Val(base, k) + sum[About(seq, U, k)]

\* The fold has the sums, whatever the order.
LEMMA FoldedTotals ==
  ASSUME NEW n \in Nat, NEW seq \in [1..n -> Series], NEW w \in [1..n -> Nat],
         NEW base \in Tables, NEW f, AddsUp(f, seq, base, w),
         NEW sum, IsSum(sum, 1..n, w),
         NEW U \in SUBSET (1..n)
  PROVE  Totals(f[U], seq, U, base, sum)
<1> DEFINE Indices == 1..n
           Good(T) == /\ f[T] \in Tables
                      /\ \A k \in Keys :
                           Val(f[T], k) = Val(base, k) + sum[{i \in T : Counts(seq[i], k)}]
           Bad == {T \in SUBSET Indices : ~Good(T)}
<1>1. SUFFICES ASSUME Bad # {} PROVE FALSE
  BY DEF Totals, About
<1>2. IsFiniteSet(Indices)
  BY FS_Interval
<1>3. PICK T \in Bad : \A V \in Bad : V \subseteq T => V = T
  <2>1. Bad \in SUBSET (SUBSET Indices)
    <3> HIDE DEF Good, Indices
    <3> QED OBVIOUS
  <2> HIDE DEF Bad, Indices
  <2> QED BY <1>1, <1>2, <2>1, SmallestSubset
<1>4. /\ sum \in [SUBSET Indices -> Nat]
      /\ sum[{}] = 0
      /\ \A V \in SUBSET Indices : \A x \in V : sum[V] = w[x] + sum[V \ {x}]
  BY DEF IsSum
<1>5. T # {}
  <2>1. SUFFICES ASSUME T = {} PROVE FALSE
    OBVIOUS
  <2>2. f[{}] = base
    BY DEF AddsUp
  <2>3. \A k \in Keys : /\ {i \in {} : Counts(seq[i], k)} = {}
                        /\ Val(base, k) + 0 = Val(base, k)
    BY TableType
  <2> QED BY <1>4, <2>1, <2>2, <2>3
<1> DEFINE x == Max(T)
           R == T \ {x}
<1>6. x \in T /\ x \in Indices
  BY <1>5, MaxOfSome
<1>7. R \in SUBSET Indices /\ Good(R)
  <2>1. R \in SUBSET Indices /\ R \subseteq T /\ R # T /\ T \in SUBSET Indices
    <3> HIDE DEF x, Good
    <3> QED BY <1>6
  <2>2. R \notin Bad
    <3> HIDE DEF R, Bad
    <3> QED BY <1>3, <2>1
  <2> HIDE DEF Good, R
  <2> QED BY <2>1, <2>2
<1>8. f[T] = Adds(f[R], seq[x], w[x])
  BY <1>5 DEF AddsUp
<1>9. /\ f[T] \in Tables
      /\ \A k \in Keys :
           Val(f[T], k) = IF Counts(seq[x], k) THEN w[x] + Val(f[R], k) ELSE Val(f[R], k)
  <2>1. seq[x] \in Series /\ w[x] \in Nat
    <3> HIDE DEF x
    <3> QED BY <1>6
  <2>2. f[R] \in Tables
    BY <1>7
  <2> DEFINE m == f[R]
  <2> HIDE DEF R, x, m, Good, Bad, Indices
  <2>3. m \in Tables /\ f[T] = Adds(m, seq[x], w[x])
    BY <1>8, <2>2 DEF m
  <2> QED BY <2>1, <2>3, AddsVal DEF Counts, m
<1>10. ASSUME NEW k \in Keys
       PROVE  Val(f[T], k) = Val(base, k) + sum[{i \in T : Counts(seq[i], k)}]
  <2> DEFINE inT == {i \in T : Counts(seq[i], k)}
             inR == {i \in R : Counts(seq[i], k)}
  <2>1. sum[inT] = IF Counts(seq[x], k) THEN w[x] + sum[inR] ELSE sum[inR]
    <3>1. CASE Counts(seq[x], k)
      <4>1. x \in inT /\ inT \in SUBSET Indices /\ inT \ {x} = inR
        BY <1>6, <3>1
      <4> HIDE DEF inT, inR
      <4> QED BY <1>4, <3>1, <4>1
    <3>2. CASE ~Counts(seq[x], k)
      <4>1. inT = inR
        BY <3>2
      <4> QED BY <3>2, <4>1
    <3> QED BY <3>1, <3>2
  <2>2. inR \in SUBSET Indices
    OBVIOUS
  <2>3. Val(f[R], k) = Val(base, k) + sum[inR]
    BY <1>7
  <2> HIDE DEF inT, inR
  <2>4. /\ sum[inR] \in Nat /\ w[x] \in Nat /\ Val(base, k) \in Nat
        /\ Val(f[T], k) = IF Counts(seq[x], k) THEN w[x] + Val(f[R], k) ELSE Val(f[R], k)
    <3> HIDE DEF x, R, Indices, Good, Bad
    <3>1. sum[inR] \in Nat
      BY <1>4, <2>2
    <3>2. w[x] \in Nat
      BY <1>6 DEF Indices
    <3> QED BY <1>9, <3>1, <3>2, TableType
  <2>5. Val(f[T], k) = Val(base, k) + sum[inT]
    <3> HIDE DEF x, R
    <3> QED BY <2>1, <2>3, <2>4
  <2> QED BY <2>5 DEF inT
<1> QED BY <1>3, <1>9, <1>10


\* The egress of each series.
Sent(seq) == [i \in DOMAIN seq |-> Ratio * seq[i].value]

\* It is a number.
LEMMA SentType ==
  ASSUME NEW n \in Nat, NEW seq \in [1..n -> Series]
  PROVE  Sent(seq) \in [1..n -> Nat]
<1>1. ASSUME NEW i \in 1..n
      PROVE  Ratio * seq[i].value \in Nat
  <2>1. seq[i].value \in Nat
    BY SeriesAssumption
  <2> QED BY <2>1 DEF Ratio
<1> QED BY <1>1 DEF Sent

\* The fold of PodMetrics over the transmitting series.
LEMMA FoldOfSent ==
  ASSUME NEW n \in Nat, NEW seq \in [1..n -> Series], NEW base \in Tables
  PROVE  \E f : /\ AddsUp(f, seq, base, Sent(seq))
               /\ FoldLeft(LAMBDA m, s : Adds(m, s, Ratio * s.value), base, seq) = f[1..n]
<1> DEFINE Is(f) == f = [U \in SUBSET (1..n) |->
                          IF U = {} THEN base
                          ELSE Adds(f[U \ {Max(U)}], seq[Max(U)], Ratio * seq[Max(U)].value)]
           it == CHOOSE f : Is(f)
<1>1. FoldLeft(LAMBDA m, s : Adds(m, s, Ratio * s.value), base, seq) = it[1..n]
  BY DEF FoldLeft, MapThenFoldSet
<1>2. ASSUME NEW f
      PROVE  AddsUp(f, seq, base, Sent(seq)) <=> Is(f)
  <2>1. ASSUME NEW U \in SUBSET (1..n), U # {}
        PROVE  Sent(seq)[Max(U)] = Ratio * seq[Max(U)].value
    <3>1. Max(U) \in 1..n
      BY <2>1, MaxOfSome
    <3> QED BY <3>1 DEF Sent
  <2>2. DOMAIN seq = 1..n
    OBVIOUS
  <2>3. ASSUME NEW U \in SUBSET (1..n)
        PROVE  (IF U = {} THEN base
                ELSE Adds(f[U \ {Max(U)}], seq[Max(U)], Ratio * seq[Max(U)].value))
               = (IF U = {} THEN base
                  ELSE Adds(f[U \ {Max(U)}], seq[Max(U)], Sent(seq)[Max(U)]))
    BY <2>1
  <2> QED BY <2>2, <2>3, Zenon DEF AddsUp
<1>3. \E f : AddsUp(f, seq, base, Sent(seq))
  BY SentType, FoldOfAdds
<1> HIDE DEF Is
<1>4. Is(it)
  BY <1>2, <1>3
<1> QED BY <1>1, <1>2, <1>4

\* The fold of PodMetrics over the receiving series, without egress.
LEMMA FoldOfReceived ==
  ASSUME NEW n \in Nat, NEW seq \in [1..n -> Series], NEW base \in Tables
  PROVE  \E f : /\ AddsUp(f, seq, base, [i \in 1..n |-> 0])
               /\ FoldLeft(LAMBDA m, s : Adds(m, s, 0), base, seq) = f[1..n]
<1> DEFINE w == [i \in 1..n |-> 0]
           Is(f) == f = [U \in SUBSET (1..n) |->
                          IF U = {} THEN base
                          ELSE Adds(f[U \ {Max(U)}], seq[Max(U)], 0)]
           it == CHOOSE f : Is(f)
<1>1. FoldLeft(LAMBDA m, s : Adds(m, s, 0), base, seq) = it[1..n]
  BY DEF FoldLeft, MapThenFoldSet
<1>2. ASSUME NEW f
      PROVE  AddsUp(f, seq, base, w) <=> Is(f)
  <2>1. ASSUME NEW U \in SUBSET (1..n), U # {}
        PROVE  w[Max(U)] = 0
    BY <2>1, MaxOfSome
  <2>2. DOMAIN seq = 1..n
    OBVIOUS
  <2> HIDE DEF w
  <2>3. ASSUME NEW U \in SUBSET (1..n)
        PROVE  (IF U = {} THEN base ELSE Adds(f[U \ {Max(U)}], seq[Max(U)], 0))
               = (IF U = {} THEN base ELSE Adds(f[U \ {Max(U)}], seq[Max(U)], w[Max(U)]))
    BY <2>1
  <2> QED BY <2>2, <2>3, Zenon DEF AddsUp
<1>3. \E f : AddsUp(f, seq, base, w)
  <2>1. w \in [1..n -> Nat]
    OBVIOUS
  <2> HIDE DEF w
  <2> QED BY <2>1, FoldOfAdds
<1> HIDE DEF Is
<1>4. Is(it)
  BY <1>2, <1>3
<1> QED BY <1>1, <1>2, <1>4

\* Every sum exists.
LEMMA SumExists ==
  ASSUME NEW n \in Nat, NEW w \in [1..n -> Nat]
  PROVE  \E sum : IsSum(sum, 1..n, w)
<1> DEFINE c == [U \in SUBSET (1..n) |-> Max(U)]
<1>1. Chooses(c, 1..n)
  BY MaxOfSome DEF Chooses
<1>2. IsFiniteSet(1..n)
  BY FS_Interval
<1> HIDE DEF c
<1>3. PICK f : Solves(f, 1..n, 0, c, Plus(w))
  BY <1>1, <1>2, FoldExists
<1>4. IsSum(f, 1..n, w)
  BY <1>1, <1>2, <1>3, SumWithout
<1> QED BY <1>4

-----------------------------------------------------------------------------
(* Egress.                                                                 *)

\* The order in which MapThenSumSet takes the elements.
Some(U) == CHOOSE x \in U : TRUE

\* f and g have the same value for T.
Agree(f, g, T) == f[T] = g[T]

\* f adds up the weights in that order.
SumsUp(f, T, w) ==
  f = [U \in SUBSET T |-> IF U = {} THEN 0 ELSE w[Some(U)] + f[U \ {Some(U)}]]

\* A sum in that order is the sum.
LEMMA SumsAgree ==
  ASSUME NEW S, IsFiniteSet(S), NEW w \in [S -> Nat], NEW sum, IsSum(sum, S, w),
         NEW T \in SUBSET S
  PROVE  /\ \E f : SumsUp(f, T, w)
         /\ \A f : SumsUp(f, T, w) => Agree(f, sum, T)
<1>1. ASSUME NEW U \in SUBSET T, U # {}
      PROVE  /\ Some(U) \in U
             /\ sum[U] = w[Some(U)] + sum[U \ {Some(U)}]
  <2>1. Some(U) \in U
    BY <1>1 DEF Some
  <2> QED BY <2>1 DEF IsSum
<1>2. SumsUp([U \in SUBSET T |-> sum[U]], T, w)
  <2> DEFINE g == [U \in SUBSET T |-> sum[U]]
  <2>1. ASSUME NEW U \in SUBSET T
        PROVE  g[U] = IF U = {} THEN 0 ELSE w[Some(U)] + g[U \ {Some(U)}]
    <3>1. CASE U = {}
      BY <3>1 DEF IsSum
    <3>2. CASE U # {}
      <4>1. g[U \ {Some(U)}] = sum[U \ {Some(U)}] /\ g[U] = sum[U]
        OBVIOUS
      <4> HIDE DEF g
      <4> QED BY <1>1, <3>2, <4>1
    <3> QED BY <3>1, <3>2
  <2>2. g = [U \in SUBSET T |-> g[U]]
    OBVIOUS
  <2> HIDE DEF g
  <2>3. SumsUp(g, T, w)
    BY <2>1, <2>2 DEF SumsUp
  <2> QED BY <2>3 DEF g
<1>3. ASSUME NEW f, SumsUp(f, T, w)
      PROVE  f[T] = sum[T]
  <2> DEFINE Bad == {U \in SUBSET T : f[U] # sum[U]}
  <2> SUFFICES ASSUME Bad # {} PROVE FALSE
    OBVIOUS
  <2>1. PICK U \in Bad : \A V \in Bad : V \subseteq U => V = U
    <3>1. IsFiniteSet(T)
      BY FS_Subset
    <3>2. Bad \in SUBSET (SUBSET T)
      OBVIOUS
    <3> HIDE DEF Bad
    <3> QED BY <3>1, <3>2, SmallestSubset
  <2>2. U # {}
    BY <1>3 DEF IsSum, SumsUp
  <2>3. f[U] = w[Some(U)] + f[U \ {Some(U)}]
    BY <1>3, <2>2 DEF SumsUp
  <2>4. f[U \ {Some(U)}] = sum[U \ {Some(U)}]
    BY <1>1, <2>1, <2>2
  <2>5. f[U] = sum[U]
    BY <1>1, <2>2, <2>3, <2>4
  <2> QED BY <2>5
<1> QED BY <1>2, <1>3 DEF Agree

\* Egress is the sum over the series about the pod.
LEMMA EgressIsSum ==
  ASSUME NEW b \in Body, NEW p \in Pods, NEW n \in Nat, b.tx \in [1..n -> Series],
         NEW sum, IsSum(sum, 1..n, Sent(b.tx))
  PROVE  Egress(b, p) = sum[About(b.tx, 1..n, <<Own, p>>)]
<1> DEFINE w == Sent(b.tx)
           of == About(b.tx, 1..n, <<Own, p>>)
           Is(f) == f = [U \in SUBSET of |->
                          IF U = {} THEN 0
                          ELSE Ratio * b.tx[CHOOSE x \in U : TRUE].value
                                 + f[U \ {CHOOSE x \in U : TRUE}]]
           it == CHOOSE f : Is(f)
<1>1. Egress(b, p) = it[of]
  <2>1. {i \in DOMAIN b.tx : /\ b.tx[i].pod = p /\ b.tx[i].namespace = Own
                             /\ ~b.tx[i].infra} = of
    BY NoneAssumption DEF About, Counts, Skipped, KeyOf
  <2> HIDE DEF of
  <2> QED BY <2>1 DEF Egress, MapThenSumSet, MapThenFoldSet
<1>2. ASSUME NEW f
      PROVE  Is(f) <=> SumsUp(f, of, w)
  <2>1. ASSUME NEW U \in SUBSET of, U # {}
        PROVE  w[Some(U)] = Ratio * b.tx[CHOOSE x \in U : TRUE].value
    <3>1. Some(U) \in 1..n
      BY <2>1 DEF Some, About
    <3> QED BY <3>1 DEF Some, Sent
  <2> HIDE DEF w, of
  <2>2. ASSUME NEW U \in SUBSET of
        PROVE  (IF U = {} THEN 0
                ELSE Ratio * b.tx[CHOOSE x \in U : TRUE].value
                       + f[U \ {CHOOSE x \in U : TRUE}])
               = (IF U = {} THEN 0 ELSE w[Some(U)] + f[U \ {Some(U)}])
    <3>1. Some(U) = CHOOSE x \in U : TRUE
      BY DEF Some
    <3> QED BY <2>1, <3>1, Zenon
  <2> QED BY <2>2, Zenon DEF SumsUp
<1>3. /\ \E f : SumsUp(f, of, w)
      /\ \A f : SumsUp(f, of, w) => Agree(f, sum, of)
  <2>1. IsFiniteSet(1..n)
    BY FS_Interval
  <2>2. of \in SUBSET (1..n)
    BY DEF About
  <2>3. w \in [1..n -> Nat]
    BY SentType
  <2>4. IsSum(sum, 1..n, w)
    OBVIOUS
  <2> HIDE DEF of, w
  <2> QED BY <2>1, <2>2, <2>3, <2>4, SumsAgree
<1> HIDE DEF Is
<1>4. Is(it)
  BY <1>2, <1>3
<1> HIDE DEF it, w, of
<1>5. it[of] = sum[of]
  BY <1>2, <1>3, <1>4 DEF Agree
<1> QED BY <1>1, <1>5 DEF of

\* A bounded sequence is a sequence.
LEMMA SequenceOfBody ==
  ASSUME NEW S, NEW n \in Nat, NEW q \in BoundedSeq(S, n)
  PROVE  \E m \in Nat : q \in [1..m -> S]
BY DEF BoundedSeq, SeqOf

\* What processing an answer leaves in podMetrics.
LEMMA ShowsEgress ==
  ASSUME NEW b \in Body
  PROVE  /\ PodMetrics(b) \in Tables
         /\ \A p \in Pods : <<Own, p>> \in DOMAIN PodMetrics(b) =>
              PodMetrics(b)[<<Own, p>>] = Egress(b, p)
<1> DEFINE received == FoldLeft(LAMBDA m, s : Adds(m, s, 0), <<>>, b.rx)
           shown == FoldLeft(LAMBDA m, s : Adds(m, s, Ratio * s.value), received, b.tx)
<1>1. PodMetrics(b) = shown
  BY DEF PodMetrics
<1>2. PICK n \in Nat : b.tx \in [1..n -> Series]
  BY SequenceOfBody, MaxSeriesAssumption DEF Body
<1>3. PICK r \in Nat : b.rx \in [1..r -> Series]
  BY SequenceOfBody, MaxSeriesAssumption DEF Body
<1>4. <<>> \in Tables /\ \A k : Val(<<>>, k) = 0
  <2>1. <<>> \in [{} -> Nat]
    OBVIOUS
  <2> QED BY <2>1 DEF Tables, Val
<1>5. received \in Tables /\ \A k \in Keys : Val(received, k) = 0
  <2> DEFINE w == [i \in 1..r |-> 0]
             base == <<>>
  <2>1. w \in [1..r -> Nat]
    OBVIOUS
  <2>2. PICK f : AddsUp(f, b.rx, base, w) /\ received = f[1..r]
    BY <1>3, <1>4, FoldOfReceived
  <2>3. PICK sum : IsSum(sum, 1..r, w)
    <3> HIDE DEF w
    <3> QED BY <2>1, SumExists
  <2>4. IsSum([U \in SUBSET (1..r) |-> 0], 1..r, w)
    BY DEF IsSum
  <2> DEFINE zero == [U \in SUBSET (1..r) |-> 0]
  <2>5. \A k : zero[About(b.rx, 1..r, k)] = 0
    BY DEF About
  <2>6. base \in Tables
    BY <1>4
  <2> HIDE DEF w, zero, base
  <2>7. IsSum(zero, 1..r, w)
    BY <2>4 DEF zero
  <2>8. 1..r \in SUBSET (1..r)
    OBVIOUS
  <2>9. Totals(f[1..r], b.rx, 1..r, base, zero)
    BY <1>3, <2>1, <2>2, <2>6, <2>7, <2>8, FoldedTotals
  <2> HIDE DEF received
  <2> QED BY <1>4, <2>2, <2>5, <2>9 DEF base, Totals
<1>6. /\ shown \in Tables
      /\ \A p \in Pods : Val(shown, <<Own, p>>) = Egress(b, p)
  <2>1. Sent(b.tx) \in [1..n -> Nat]
    BY <1>2, SentType
  <2>2. PICK f : AddsUp(f, b.tx, received, Sent(b.tx)) /\ shown = f[1..n]
    <3> HIDE DEF received
    <3> QED BY <1>2, <1>5, FoldOfSent
  <2>3. PICK sum : IsSum(sum, 1..n, Sent(b.tx))
    BY <2>1, SumExists
  <2> HIDE DEF received, shown
  <2>4. 1..n \in SUBSET (1..n)
    OBVIOUS
  <2>5. Totals(f[1..n], b.tx, 1..n, received, sum)
    BY <1>2, <1>5, <2>1, <2>2, <2>3, <2>4, FoldedTotals
  <2>6. ASSUME NEW p \in Pods
        PROVE  Val(shown, <<Own, p>>) = Egress(b, p)
    <3>1. <<Own, p>> \in Keys
      BY DEF Keys
    <3> DEFINE at == About(b.tx, 1..n, <<Own, p>>)
    <3>2. Egress(b, p) = sum[at]
      BY <1>2, <2>3, EgressIsSum
    <3>3. sum[at] \in Nat
      BY <2>3 DEF IsSum, About
    <3>4. Val(shown, <<Own, p>>) = Val(received, <<Own, p>>) + sum[at]
      BY <2>2, <2>5, <3>1 DEF Totals
    <3> HIDE DEF at
    <3> QED BY <1>5, <3>1, <3>2, <3>3, <3>4
  <2> QED BY <2>2, <2>5, <2>6 DEF Totals
<1> HIDE DEF shown
<1> QED BY <1>1, <1>6 DEF Val

-----------------------------------------------------------------------------
(* The loop.                                                               *)

\* Between two rounds nothing of the last one is left.
RoundKept == pc \in {"select", "list"} => tried = listed

IInv == TypeOK /\ RoundKept /\ PodTotals

LEMMA InitIInv == Init => IInv
<1> SUFFICES ASSUME Init PROVE IInv
  OBVIOUS
<1>1. DOMAIN metrics = {}
  BY DEF Init
<1> QED BY <1>1, Zenon DEF Init, IInv, TypeOK, RoundKept, PodTotals

\* The new numbers fit the new answer.
LEMMA GetAnswersFits ==
  ASSUME GetAnswers
  PROVE  /\ body' \in Body
         /\ \A k \in DOMAIN metrics' : k \in Keys /\ metrics'[k] \in Nat
         /\ PodTotals'
<1>1. PICK b \in Body : body' = b /\ metrics' = PodMetrics(b)
  BY DEF GetAnswers
<1>2. PodMetrics(b) \in Tables
  BY ShowsEgress
<1>3. \A k \in DOMAIN metrics' : k \in Keys /\ metrics'[k] \in Nat
  BY <1>1, <1>2, TableType
<1>4. ASSUME NEW k \in DOMAIN metrics', k[1] = Own
      PROVE  metrics'[k] = Egress(body', k[2])
  <2>1. PICK p \in Pods : k = <<Own, p>>
    BY <1>3, <1>4 DEF Keys
  <2> QED BY <1>1, <1>4, <2>1, ShowsEgress
<1> QED BY <1>1, <1>3, <1>4 DEF PodTotals

\* One entry less, and the others as they were.
LEMMA EmitKeeps ==
  ASSUME IInv, Emit
  PROVE  IInv'
<1>1. PICK k \in DOMAIN metrics :
        /\ gauge' = IF k[1] = Own THEN metrics[k] ELSE gauge
        /\ metrics' = Restrict(metrics, DOMAIN metrics \ {k})
  BY DEF Emit
<1>2. k \in Keys /\ metrics[k] \in Nat
  BY DEF IInv, TypeOK
<1>3. /\ DOMAIN metrics' \subseteq DOMAIN metrics
      /\ \A j \in DOMAIN metrics' : metrics'[j] = metrics[j]
  BY <1>1 DEF Restrict
<1>4. TypeOK'
  BY <1>1, <1>2, <1>3 DEF Emit, IInv, TypeOK
<1>5. RoundKept' /\ PodTotals'
  BY <1>3 DEF Emit, IInv, RoundKept, PodTotals
<1> QED BY <1>4, <1>5 DEF IInv

\* The variables of the answer that the loop over the nodes leaves alone.
LEMMA RoundKeeps ==
  ASSUME IInv, pc' \in {"select", "list", "nodes", "get", "ended"}, stopped' \in BOOLEAN,
         tried' \subseteq listed', listed' \subseteq Nodes, RoundKept',
         UNCHANGED <<body, metrics, gauge>>
  PROVE  IInv'
<1>1. TypeOK'
  BY DEF IInv, TypeOK
<1>2. PodTotals'
  BY DEF IInv, PodTotals
<1> QED BY <1>1, <1>2 DEF IInv

LEMMA NextIInv == IInv /\ [Next]_vars => IInv'
<1> SUFFICES ASSUME IInv, [Next]_vars
             PROVE  IInv'
  OBVIOUS
<1>1. CASE Stop \/ Tick \/ End \/ ListNodes
  <2> USE DEF IInv, TypeOK, RoundKept
  <2>1. CASE Stop
    BY <2>1 DEF Stop, PodTotals
  <2>2. CASE Tick \/ End
    BY <2>2, RoundKeeps DEF Tick, End
  <2>3. CASE ListNodes
    BY <2>3, RoundKeeps DEF ListNodes
  <2> QED BY <1>1, <2>1, <2>2, <2>3
<1>2. CASE AskNode \/ RoundEnds \/ GetFails
  BY <1>2, RoundKeeps
  DEF AskNode, RoundEnds, GetFails, Round, AfterNodeError, IInv, TypeOK, RoundKept
<1>3. CASE GetAnswers
  BY <1>3, GetAnswersFits DEF GetAnswers, IInv, TypeOK, RoundKept
<1>4. CASE Emit
  BY <1>4, EmitKeeps
<1>5. CASE EmitEnds
  BY <1>5 DEF EmitEnds, IInv, TypeOK, RoundKept, PodTotals
<1>6. CASE UNCHANGED vars
  BY <1>6 DEF vars, IInv, TypeOK, RoundKept, PodTotals
<1> QED BY <1>1, <1>2, <1>3, <1>4, <1>5, <1>6 DEF Next

LEMMA AlwaysIInv == Spec => []IInv
BY InitIInv, NextIInv, PTL DEF Spec

\* The variables have their types; podMetrics has only pods that an answer
\* names with their namespace, and their numbers.
THEOREM CollectorTypes == Spec => []TypeOK
<1>1. IInv => TypeOK
  BY DEF IInv
<1> QED BY <1>1, AlwaysIInv, PTL

\* A round that ends has dealt with every node it listed.
THEOREM EveryNodeTried == Spec => []AllTried
<1>1. IInv => AllTried
  BY DEF IInv, RoundKept, AllTried
<1> QED BY <1>1, AlwaysIInv, PTL

\* For answers of any length, what the folds over the series compute for a pod is
\* the sum over the series of that pod, and nothing is mixed into it until it is
\* shown.
THEOREM TotalsOfPods == Spec => []PodTotals
<1>1. IInv => PodTotals
  BY DEF IInv
<1> QED BY <1>1, AlwaysIInv, PTL
=============================================================================
