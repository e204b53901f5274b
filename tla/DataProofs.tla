------------------------------ MODULE DataProofs ------------------------------
(***************************************************************************)
(* Induction over numbers and over finite sets, as the absence of a least   *)
(* counterexample, and what it gives of loops, of sums and of sorting; and  *)
(* with it what TLAPS proves about the pure algorithms: SparseTransfer, for *)
(* any scores and lengths, and TraceLoader, for any traces.                 *)
(***************************************************************************)
EXTENDS SparseTransfer, TraceLoader, FiniteSetTheorems, SequenceTheorems,
        WellFoundedInduction, TLAPS

-------------------------------------------------------------------------------
(* Loops and sums                                                          *)

\* Induction over numbers, in the form of the least counterexample.
LEMMA LeastNat ==
    ASSUME NEW S \in SUBSET Nat, S # {}
    PROVE  \E m \in S : \A n \in S : m <= n
<1>1. \E m \in S : \A n \in S : ~(<<n, m>> \in OpToRel(<, Nat))
  BY NatLessThanWellFounded, WFMin
<1>2. \A m, n \in S : <<n, m>> \in OpToRel(<, Nat) <=> n < m
  BY DEF OpToRel
<1>3. PICK m \in S : \A n \in S : ~(<<n, m>> \in OpToRel(<, Nat))
  BY <1>1
<1>4. \A n \in S : ~(n < m)
  BY <1>2, <1>3
<1>5. \A n \in S : m <= n
  BY <1>4
<1>6. QED
  BY <1>5

\* What a loop of N turns computes: turn n makes G[n] of the state before it.
Turns(h, X, N, b, G) ==
    /\ h \in [0..N -> X] /\ h[0] = b
    /\ \A n \in 1..N : h[n] = G[n][h[n - 1]]

LEMMA TurnsExist ==
    ASSUME NEW X, NEW N \in Nat, NEW b \in X, NEW G \in [1..N -> [X -> X]]
    PROVE  \E h : Turns(h, X, N, b, G)
<1> DEFINE Upto(m) == \E h : Turns(h, X, m, b, G)
           Bad == {m \in 0..N : ~Upto(m)}
<1>1. Upto(0)
  <2> DEFINE h == [n \in 0..0 |-> b]
  <2>1. Turns(h, X, 0, b, G)
    BY DEF Turns
  <2>2. QED
    BY <2>1
<1>2. ASSUME NEW m \in 0..(N - 1), Upto(m)
      PROVE  Upto(m + 1)
  <2>1. PICK h : Turns(h, X, m, b, G)
    BY <1>2
  <2> DEFINE k == [n \in 0..(m + 1) |-> IF n = m + 1 THEN G[m + 1][h[m]] ELSE h[n]]
  <2>2. G[m + 1][h[m]] \in X /\ G[m + 1] \in [X -> X]
    <3>1. m + 1 \in 1..N /\ m \in 0..m
      OBVIOUS
    <3>2. h[m] \in X
      BY <2>1, <3>1 DEF Turns
    <3>3. QED
      BY <3>1, <3>2
  <2>3. k \in [0..(m + 1) -> X] /\ k[0] = b
    BY <2>1, <2>2 DEF Turns
  <2>4. ASSUME NEW n \in 1..(m + 1)
        PROVE  k[n] = G[n][k[n - 1]]
    <3>1. CASE n = m + 1
      BY <3>1
    <3>2. CASE n \in 1..m
      BY <2>1, <3>2 DEF Turns
    <3>3. QED
      BY <3>1, <3>2
  <2> HIDE DEF k
  <2>5. Turns(k, X, m + 1, b, G)
    BY <2>3, <2>4 DEF Turns
  <2>6. QED
    BY <2>5
<1> HIDE DEF Upto
<1>3. Bad = {}
  <2> SUFFICES ASSUME Bad # {} PROVE FALSE
    OBVIOUS
  <2>1. PICK m \in Bad : \A n \in Bad : m <= n
    <3>1. Bad \in SUBSET Nat
      OBVIOUS
    <3> HIDE DEF Bad
    <3>2. QED
      BY <3>1, LeastNat
  <2>2. m # 0 /\ m \in 0..N
    BY <1>1
  <2>3. m - 1 \in 0..(N - 1) /\ m - 1 \notin Bad
    BY <2>1, <2>2
  <2>4. Upto(m - 1)
    BY <2>3
  <2>5. Upto((m - 1) + 1)
    BY <1>2, <2>3, <2>4
  <2>6. QED
    BY <2>1, <2>2, <2>5
<1>4. QED
  BY <1>3 DEF Upto

\* A set's sum of weights, as MapThenSumSet computes it.
Pick(s) == CHOOSE x \in s : TRUE

IsSum(g, w, S) ==
    /\ g \in [SUBSET S -> Int]
    /\ \A s \in SUBSET S : g[s] = IF s = {} THEN 0 ELSE w[Pick(s)] + g[s \ {Pick(s)}]

LEMMA SumExists ==
    ASSUME NEW S, IsFiniteSet(S), NEW w \in [S -> Int]
    PROVE  \E g : IsSum(g, w, S)
<1> DEFINE N == Cardinality(S)
           X == [SUBSET S -> Int]
           b == [s \in SUBSET S |-> 0]
           F == [h \in X |-> [s \in SUBSET S |-> IF s = {} THEN 0 ELSE w[Pick(s)] + h[s \ {Pick(s)}]]]
           G == [n \in 1..N |-> F]
<1>1. N \in Nat /\ b \in X
  BY FS_CardinalityType
<1>2. \A s \in SUBSET S : s # {} => Pick(s) \in s /\ Pick(s) \in S /\ s \ {Pick(s)} \in SUBSET S
  BY DEF Pick
<1>3. F \in [X -> X]
  <2>1. ASSUME NEW h \in X, NEW s \in SUBSET S, s # {}
        PROVE  w[Pick(s)] + h[s \ {Pick(s)}] \in Int
    <3>1. w[Pick(s)] \in Int /\ h[s \ {Pick(s)}] \in Int
      BY <1>2, <2>1
    <3>2. QED
      BY <3>1
  <2>2. ASSUME NEW h \in X
        PROVE  [s \in SUBSET S |-> IF s = {} THEN 0 ELSE w[Pick(s)] + h[s \ {Pick(s)}]] \in X
    <3> DEFINE Value(s) == IF s = {} THEN 0 ELSE w[Pick(s)] + h[s \ {Pick(s)}]
    <3>1. ASSUME NEW s \in SUBSET S
          PROVE  Value(s) \in Int
      <4>1. CASE s = {}
        BY <4>1
      <4>2. CASE s # {}
        BY <2>1, <4>2
      <4>3. QED
        BY <4>1, <4>2
    <3> HIDE DEF Value
    <3>2. [s \in SUBSET S |-> Value(s)] \in [SUBSET S -> Int]
      BY <3>1
    <3>3. QED
      BY <3>2 DEF Value
  <2> HIDE DEF X
  <2>3. QED
    BY <2>2
<1>4. PICK h : Turns(h, X, N, b, G)
  <2> HIDE DEF X, b, F
  <2>1. QED
    BY <1>1, <1>3, TurnsExist
<1> DEFINE g == [s \in SUBSET S |-> h[Cardinality(s)][s]]
<1>5. ASSUME NEW s \in SUBSET S
      PROVE  /\ IsFiniteSet(s) /\ Cardinality(s) \in 0..N
             /\ h[Cardinality(s)] \in X
  <2>1. IsFiniteSet(s) /\ Cardinality(s) \in 0..N
    BY <1>1, FS_Subset, FS_CardinalityType
  <2>2. QED
    BY <1>4, <2>1 DEF Turns
<1>6. ASSUME NEW s \in SUBSET S
      PROVE  g[s] = IF s = {} THEN 0 ELSE w[Pick(s)] + g[s \ {Pick(s)}]
  <2>1. CASE s = {}
    <3>1. Cardinality(s) = 0
      BY <2>1, FS_EmptySet
    <3>2. QED
      BY <1>4, <2>1, <3>1 DEF Turns
  <2>2. CASE s # {}
    <3> DEFINE n == Cardinality(s)
               t == s \ {Pick(s)}
    <3>1. t \in SUBSET S /\ Pick(s) \in s
      BY <1>2, <2>2
    <3>2. n \in 1..N /\ Cardinality(t) = n - 1
      <4>1. IsFiniteSet(s) /\ n \in 0..N
        BY <1>5
      <4>2. n # 0
        BY <2>2, <4>1, FS_EmptySet
      <4>3. Cardinality(t) = n - 1
        BY <3>1, <4>1, FS_RemoveElement
      <4>4. QED
        BY <1>1, <4>1, <4>2, <4>3
    <3>3. h[n] = F[h[n - 1]]
      BY <1>4, <3>2 DEF Turns
    <3>4. h[n - 1] \in X
      BY <1>5, <3>1, <3>2
    <3>5. h[n][s] = w[Pick(s)] + h[n - 1][t]
      BY <2>2, <3>3, <3>4
    <3>6. QED
      BY <2>2, <3>1, <3>2, <3>5
  <2>3. QED
    BY <2>1, <2>2
<1>7. g \in [SUBSET S -> Int]
  BY <1>5
<1> HIDE DEF g
<1>8. QED
  BY <1>6, <1>7 DEF IsSum

\* Induction over the subsets of a finite set, by the number of their elements.
LEMMA NoSmallestSet ==
    ASSUME NEW S, IsFiniteSet(S), NEW B \in SUBSET SUBSET S,
           \A s \in B : \E t \in B : Cardinality(t) < Cardinality(s)
    PROVE  B = {}
<1> SUFFICES ASSUME B # {} PROVE FALSE
  OBVIOUS
<1> DEFINE Sizes == {Cardinality(s) : s \in B}
<1>1. \A s \in B : Cardinality(s) \in Nat
  BY FS_Subset, FS_CardinalityType
<1>2. Sizes \in SUBSET Nat /\ Sizes # {}
  BY <1>1
<1>3. PICK m \in Sizes : \A n \in Sizes : m <= n
  <2> HIDE DEF Sizes
  <2>1. QED
    BY <1>2, LeastNat
<1>4. PICK s \in B : m = Cardinality(s)
  OBVIOUS
<1>5. PICK t \in B : Cardinality(t) < Cardinality(s)
  OBVIOUS
<1>6. m <= Cardinality(t) /\ Cardinality(t) \in Nat /\ m \in Nat
  BY <1>1, <1>3
<1>7. QED
  BY <1>4, <1>5, <1>6

\* One weight that is larger by d makes the sum larger by d.
LEMMA SumChanges ==
    ASSUME NEW S, IsFiniteSet(S), NEW v \in [S -> Int], NEW w \in [S -> Int],
           NEW x \in S, \A y \in S : y # x => w[y] = v[y],
           NEW f, IsSum(f, v, S), NEW g, IsSum(g, w, S)
    PROVE  g[S] = f[S] + (w[x] - v[x])
<1> DEFINE d == w[x] - v[x]
           Off(s) == IF x \in s THEN d ELSE 0
           Bad == {s \in SUBSET S : g[s] # f[s] + Off(s)}
<1>1. \A s \in SUBSET S : IsFiniteSet(s) /\ Cardinality(s) \in Nat
  BY FS_Subset, FS_CardinalityType
<1>2. d \in Int
  OBVIOUS
<1>3. ASSUME NEW s \in Bad
      PROVE  \E t \in Bad : Cardinality(t) < Cardinality(s)
  <2>1. CASE s = {}
    <3>1. g[s] = 0 /\ f[s] = 0 /\ Off(s) = 0
      BY <2>1 DEF IsSum
    <3>2. QED
      BY <3>1
  <2>2. CASE s # {}
    <3> DEFINE p == Pick(s)
               t == s \ {p}
    <3>1. p \in s /\ t \in SUBSET S /\ s \in SUBSET S /\ p \in S
      BY <2>2 DEF Pick
    <3>2. g[s] = w[p] + g[t] /\ f[s] = v[p] + f[t]
      BY <2>2, <3>1 DEF IsSum
    <3>3. /\ g[t] \in Int /\ f[t] \in Int /\ v[p] \in Int /\ w[p] \in Int
          /\ p # x => w[p] = v[p]
      BY <3>1 DEF IsSum
    <3>4. Cardinality(t) < Cardinality(s)
      BY <1>1, <3>1, FS_RemoveElement
    <3>5. g[t] = f[t] + Off(t) => g[s] = f[s] + Off(s)
      <4>1. CASE p = x
        BY <3>1, <3>2, <3>3, <4>1
      <4>2. CASE p # x
        BY <1>2, <3>1, <3>2, <3>3, <4>2
      <4>3. QED
        BY <4>1, <4>2
    <3>6. QED
      BY <3>1, <3>4, <3>5
  <2>3. QED
    BY <2>1, <2>2
<1>4. Bad = {}
  <2>1. Bad \in SUBSET SUBSET S
    OBVIOUS
  <2> HIDE DEF Bad
  <2>2. QED
    BY <2>1, <1>3, NoSmallestSet
<1>5. S \in SUBSET S /\ Off(S) = d
  OBVIOUS
<1>6. QED
  BY <1>4, <1>5

\* The sum of weights that are all zero.
LEMMA SumOfNothing ==
    ASSUME NEW S, IsFiniteSet(S), NEW w \in [S -> Int], \A y \in S : w[y] = 0,
           NEW g, IsSum(g, w, S)
    PROVE  g[S] = 0
<1> DEFINE Bad == {s \in SUBSET S : g[s] # 0}
<1>1. \A s \in SUBSET S : IsFiniteSet(s) /\ Cardinality(s) \in Nat
  BY FS_Subset, FS_CardinalityType
<1>2. ASSUME NEW s \in Bad
      PROVE  \E t \in Bad : Cardinality(t) < Cardinality(s)
  <2>1. CASE s = {}
    BY <1>2, <2>1 DEF IsSum
  <2>2. CASE s # {}
    <3> DEFINE p == Pick(s)
               t == s \ {p}
    <3>1. p \in s /\ t \in SUBSET S /\ s \in SUBSET S /\ p \in S
      BY <2>2 DEF Pick
    <3>2. g[s] = w[p] + g[t] /\ g[t] \in Int /\ w[p] = 0
      BY <2>2, <3>1 DEF IsSum
    <3>3. Cardinality(t) < Cardinality(s)
      BY <1>1, <3>1, FS_RemoveElement
    <3>4. g[t] # 0
      BY <3>2
    <3>5. QED
      BY <3>1, <3>3, <3>4
  <2>3. QED
    BY <2>1, <2>2
<1>3. Bad = {}
  <2>1. Bad \in SUBSET SUBSET S
    OBVIOUS
  <2> HIDE DEF Bad
  <2>2. QED
    BY <2>1, <1>2, NoSmallestSet
<1>4. QED
  BY <1>3

\* The sum of the library is such a function's value.
LEMMA TotalIs ==
    ASSUME NEW S, IsFiniteSet(S), NEW w \in [S -> Int]
    PROVE  \E g : IsSum(g, w, S) /\ SumFunctionOnSet(w, S) = g[S]
<1> DEFINE Eqn(f) == [s \in SUBSET S |-> IF s = {} THEN 0 ELSE w[Pick(s)] + f[s \ {Pick(s)}]]
           iter == CHOOSE f : f = Eqn(f)
<1>1. PICK g : IsSum(g, w, S)
  BY SumExists
<1>2. g = Eqn(g)
  BY <1>1 DEF IsSum
<1>3. iter = Eqn(iter)
  <2> HIDE DEF Eqn
  <2>1. QED
    BY <1>2
<1>4. SumFunctionOnSet(w, S) = iter[S]
  BY DEF SumFunctionOnSet, FoldFunctionOnSet, MapThenFoldSet, Pick
<1> HIDE DEF iter
<1> DEFINE Bad == {s \in SUBSET S : iter[s] # g[s]}
<1>5. \A s \in SUBSET S : IsFiniteSet(s) /\ Cardinality(s) \in Nat
  BY FS_Subset, FS_CardinalityType
<1>6. ASSUME NEW s \in Bad
      PROVE  \E t \in Bad : Cardinality(t) < Cardinality(s)
  <2>1. iter[s] = IF s = {} THEN 0 ELSE w[Pick(s)] + iter[s \ {Pick(s)}]
    BY <1>3
  <2>2. CASE s = {}
    BY <1>1, <2>1, <2>2 DEF IsSum
  <2>3. CASE s # {}
    <3> DEFINE t == s \ {Pick(s)}
    <3>1. Pick(s) \in s /\ t \in SUBSET S /\ s \in SUBSET S
      BY <2>3 DEF Pick
    <3>2. g[s] = w[Pick(s)] + g[t]
      BY <1>1, <2>3, <3>1 DEF IsSum
    <3>3. Cardinality(t) < Cardinality(s)
      BY <1>5, <3>1, FS_RemoveElement
    <3>4. iter[t] # g[t]
      BY <2>1, <2>3, <3>2
    <3>5. QED
      BY <3>1, <3>3, <3>4
  <2>4. QED
    BY <2>2, <2>3
<1>7. Bad = {}
  <2>1. Bad \in SUBSET SUBSET S
    OBVIOUS
  <2> HIDE DEF Bad
  <2>2. QED
    BY <2>1, <1>6, NoSmallestSet
<1>8. iter[S] = g[S]
  BY <1>7
<1>9. QED
  BY <1>1, <1>4, <1>8

LEMMA TotalType ==
    ASSUME NEW S, IsFiniteSet(S), NEW w \in [S -> Int]
    PROVE  SumFunctionOnSet(w, S) \in Int
<1>1. PICK g : IsSum(g, w, S) /\ SumFunctionOnSet(w, S) = g[S]
  BY TotalIs
<1>2. g[S] \in Int
  BY <1>1 DEF IsSum
<1>3. QED
  BY <1>1, <1>2

LEMMA TotalChanges ==
    ASSUME NEW S, IsFiniteSet(S), NEW v \in [S -> Int], NEW w \in [S -> Int],
           NEW x \in S, \A y \in S : y # x => w[y] = v[y]
    PROVE  SumFunctionOnSet(w, S) = SumFunctionOnSet(v, S) + (w[x] - v[x])
<1>1. PICK f : IsSum(f, v, S) /\ SumFunctionOnSet(v, S) = f[S]
  BY TotalIs
<1>2. PICK g : IsSum(g, w, S) /\ SumFunctionOnSet(w, S) = g[S]
  BY TotalIs
<1>3. g[S] = f[S] + (w[x] - v[x])
  BY <1>1, <1>2, SumChanges
<1>4. QED
  BY <1>1, <1>2, <1>3

LEMMA TotalOfNothing ==
    ASSUME NEW S, IsFiniteSet(S), NEW w \in [S -> Int], \A y \in S : w[y] = 0
    PROVE  SumFunctionOnSet(w, S) = 0
<1>1. PICK g : IsSum(g, w, S) /\ SumFunctionOnSet(w, S) = g[S]
  BY TotalIs
<1>2. QED
  BY <1>1, SumOfNothing

\* What the turns of a loop establish one after the other.
LEMMA EachTurn ==
    ASSUME NEW N \in Nat, NEW T \in SUBSET (0..N), 0 \in T,
           \A n \in T : n < N => n + 1 \in T
    PROVE  T = 0..N
<1> DEFINE Bad == (0..N) \ T
<1>1. Bad = {}
  <2> SUFFICES ASSUME Bad # {} PROVE FALSE
    OBVIOUS
  <2>1. PICK m \in Bad : \A n \in Bad : m <= n
    <3>1. Bad \in SUBSET Nat
      OBVIOUS
    <3> HIDE DEF Bad
    <3>2. QED
      BY <3>1, LeastNat
  <2>2. m - 1 \in T /\ m - 1 < N
    BY <2>1
  <2>3. (m - 1) + 1 \in T
    BY <2>2
  <2>4. QED
    BY <2>1, <2>3
<1>2. QED
  BY <1>1

-------------------------------------------------------------------------------
(* Sorting                                                                 *)

\* R orders S strictly and totally.
Orders(R, S) ==
    /\ \A x \in S : <<x, x>> \notin R
    /\ \A x, y, z \in S : <<x, y>> \in R /\ <<y, z>> \in R => <<x, z>> \in R
    /\ \A x, y \in S : x = y \/ <<x, y>> \in R \/ <<y, x>> \in R

\* How many elements of S come before x.
Rank(x, S, R) == Cardinality({y \in S : <<y, x>> \in R})

LEMMA RankGrows ==
    ASSUME NEW S, IsFiniteSet(S), NEW R, Orders(R, S), NEW x \in S, NEW y \in S, <<x, y>> \in R
    PROVE  Rank(x, S, R) < Rank(y, S, R)
<1> DEFINE X == {z \in S : <<z, x>> \in R}
           Y == {z \in S : <<z, y>> \in R}
<1>1. IsFiniteSet(Y) /\ Cardinality(Y) \in Nat
  BY FS_Subset, FS_CardinalityType
<1>2. X \in SUBSET Y /\ x \in Y /\ x \notin X
  BY DEF Orders
<1> HIDE DEF X, Y
<1>3. /\ IsFiniteSet(X) /\ Cardinality(X) \in Nat /\ Cardinality(X) <= Cardinality(Y)
      /\ Cardinality(X) # Cardinality(Y)
  BY <1>1, <1>2, FS_Subset, FS_CardinalityType
<1>4. Cardinality(X) < Cardinality(Y)
  BY <1>1, <1>3
<1>5. QED
  BY <1>4 DEF X, Y, Rank

\* Each number below the size of S is the rank of one element.
Ranked(S, R) ==
    /\ \A x \in S : Rank(x, S, R) \in 0..(Cardinality(S) - 1)
    /\ \A x, y \in S : Rank(x, S, R) = Rank(y, S, R) => x = y
    /\ \A i \in 1..Cardinality(S) : \E x \in S : Rank(x, S, R) = i - 1

LEMMA RanksAreTaken ==
    ASSUME NEW S, IsFiniteSet(S), NEW R, Orders(R, S)
    PROVE  Ranked(S, R)
<1> DEFINE n == Cardinality(S)
           rank == [x \in S |-> Rank(x, S, R)]
<1>1. n \in Nat
  BY FS_CardinalityType
<1>2. ASSUME NEW x \in S
      PROVE  Rank(x, S, R) \in 0..(n - 1)
  <2> DEFINE X == {z \in S : <<z, x>> \in R}
  <2>1. X \in SUBSET S /\ x \notin X
    BY DEF Orders
  <2> HIDE DEF X
  <2>2. Cardinality(X) \in Nat /\ Cardinality(X) <= n /\ Cardinality(X) # n
    BY <2>1, FS_Subset, FS_CardinalityType
  <2>3. Cardinality(X) \in 0..(n - 1)
    BY <1>1, <2>2
  <2>4. QED
    BY <2>3 DEF X, Rank
<1>3. ASSUME NEW x \in S, NEW y \in S, Rank(x, S, R) = Rank(y, S, R)
      PROVE  x = y
  <2>1. ~(<<x, y>> \in R) /\ ~(<<y, x>> \in R)
    BY <1>2, <1>3, RankGrows
  <2>2. QED
    BY <2>1 DEF Orders
<1>4. rank \in Injection(S, 0..(n - 1))
  BY <1>2, <1>3 DEF Injection, IsInjective
<1>5. IsFiniteSet(0..(n - 1)) /\ Cardinality(0..(n - 1)) = n
  BY <1>1, FS_Interval
<1>6. rank \in Surjection(S, 0..(n - 1))
  BY <1>4, <1>5, FS_Injection
<1>7. ASSUME NEW i \in 1..n
      PROVE  \E x \in S : Rank(x, S, R) = i - 1
  <2>1. i - 1 \in 0..(n - 1)
    BY <1>1
  <2>2. QED
    BY <1>6, <2>1 DEF Surjection
<1>8. QED
  BY <1>2, <1>3, <1>7 DEF Ranked

\* q lists S in the order of R.
Sorts(q, S, R) ==
    /\ q \in [1..Cardinality(S) -> S]
    /\ \A i \in 1..Cardinality(S) : Rank(q[i], S, R) = i - 1

\* It has each element, in the order of R, and at the place its rank says.
InOrderOf(q, S, R) ==
    /\ \A x \in S : \E i \in 1..Cardinality(S) : q[i] = x
    /\ \A i, j \in 1..Cardinality(S) : i < j => <<q[i], q[j]>> \in R
    /\ \A i \in 1..Cardinality(S) : \A x \in S : Rank(x, S, R) = i - 1 => q[i] = x

LEMMA SortedIs ==
    ASSUME NEW S, IsFiniteSet(S), NEW R, Orders(R, S), NEW q, Sorts(q, S, R)
    PROVE  InOrderOf(q, S, R)
<1> DEFINE n == Cardinality(S)
<1>1. n \in Nat
  BY FS_CardinalityType
<1>2. \A i \in 1..n : q[i] \in S /\ Rank(q[i], S, R) = i - 1
  BY DEF Sorts
<1>r. Ranked(S, R)
  BY RanksAreTaken
<1>3. \A x \in S : Rank(x, S, R) \in 0..(n - 1)
  BY <1>r DEF Ranked
<1>4. \A x, y \in S : Rank(x, S, R) = Rank(y, S, R) => x = y
  BY <1>r DEF Ranked
<1> HIDE DEF n
<1>5. ASSUME NEW x \in S
      PROVE  \E i \in 1..n : q[i] = x
  <2> DEFINE i == Rank(x, S, R) + 1
  <2>1. i \in 1..n /\ i - 1 = Rank(x, S, R)
    BY <1>1, <1>3
  <2>2. q[i] = x
    BY <1>2, <1>4, <2>1
  <2>3. QED
    BY <2>1, <2>2
<1>6. ASSUME NEW i \in 1..n, NEW j \in 1..n, i < j
      PROVE  <<q[i], q[j]>> \in R
  <2>1. Rank(q[i], S, R) < Rank(q[j], S, R)
    BY <1>1, <1>2, <1>6
  <2>2. ~(<<q[j], q[i]>> \in R) /\ q[i] # q[j]
    <3>1. ASSUME <<q[j], q[i]>> \in R PROVE Rank(q[j], S, R) < Rank(q[i], S, R)
      BY <1>2, <3>1, RankGrows
    <3>2. Rank(q[i], S, R) \in Nat /\ Rank(q[j], S, R) \in Nat
      BY <1>1, <1>2
    <3>3. QED
      BY <2>1, <3>1, <3>2
  <2>3. QED
    BY <1>2, <2>2 DEF Orders
<1>7. QED
  BY <1>2, <1>4, <1>5, <1>6 DEF n, InOrderOf

\* The order of numbers.
Below(S) == {p \in S \X S : p[1] < p[2]}

\* The members of a set of numbers, before the i-th of which are i - 1 of them.
LEMMA PlacesAreSorted ==
    ASSUME NEW S \in SUBSET Int, IsFiniteSet(S), NEW q,
           q = [i \in 1..Cardinality(S) |->
                   CHOOSE x \in S : Cardinality({y \in S : y < x}) = i - 1]
    PROVE  Orders(Below(S), S) /\ Sorts(q, S, Below(S))
<1>1. Cardinality(S) \in Nat /\ IsFiniteSet(S) /\ Orders(Below(S), S)
  BY FS_CardinalityType DEF Orders, Below
<1>2. ASSUME NEW x \in S
      PROVE  {y \in S : y < x} = {y \in S : <<y, x>> \in Below(S)}
  BY DEF Below
<1>3. Ranked(S, Below(S))
  BY <1>1, RanksAreTaken
<1>4. ASSUME NEW i \in 1..Cardinality(S)
      PROVE  q[i] \in S /\ Rank(q[i], S, Below(S)) = i - 1
  <2>1. \E x \in S : Rank(x, S, Below(S)) = i - 1
    BY <1>3 DEF Ranked
  <2>2. \E x \in S : Cardinality({y \in S : y < x}) = i - 1
    BY <1>2, <2>1 DEF Rank
  <2>3. q[i] \in S /\ Cardinality({y \in S : y < q[i]}) = i - 1
    BY <2>2
  <2>4. QED
    BY <1>2, <2>3 DEF Rank
<1>5. QED
  BY <1>1, <1>4 DEF Sorts

LEMMA MinOfTwo ==
    ASSUME NEW a \in Int, NEW b \in Int
    PROVE  Min({a, b}) = IF a <= b THEN a ELSE b
<1> DEFINE m == IF a <= b THEN a ELSE b
<1>1. m \in {a, b} /\ \A y \in {a, b} : m <= y
  OBVIOUS
<1>2. ASSUME NEW x \in {a, b}, \A y \in {a, b} : x <= y
      PROVE  x = m
  BY <1>2
<1>3. Min({a, b}) \in {a, b} /\ \A y \in {a, b} : Min({a, b}) <= y
  BY <1>1 DEF Min
<1>4. QED
  BY <1>2, <1>3

LEMMA UpTo ==
    ASSUME NEW n \in Nat
    PROVE  IsFiniteSet(1..n) /\ Cardinality(1..n) = n
  BY FS_Interval

\* Of a set of numbers, the first n.
FirstOf(S, n) == {i \in S : Cardinality({j \in S : j < i}) < n}

\* p lists them as q lists all of them.
ListsFirst(p, q, S, n) ==
    /\ Cardinality(FirstOf(S, n)) = Min({n, Cardinality(S)})
    /\ \A i \in 1..Cardinality(FirstOf(S, n)) : p[i] = q[i]

LEMMA FirstOnesTaken ==
    ASSUME NEW S \in SUBSET Int, IsFiniteSet(S), NEW n \in Nat,
           NEW p, Sorts(p, FirstOf(S, n), Below(FirstOf(S, n))), NEW q, Sorts(q, S, Below(S))
    PROVE  ListsFirst(p, q, S, n)
<1> DEFINE T == FirstOf(S, n)
           c == Cardinality(S)
           m == IF n <= c THEN n ELSE c
           R == Below(S)
           rank == [x \in T |-> Rank(x, S, R)]
<1>1. c \in Nat /\ IsFiniteSet(S) /\ Orders(R, S)
  BY FS_CardinalityType DEF Orders, Below
<1>2. \A x \in S : {j \in S : j < x} = {j \in S : <<j, x>> \in R}
  BY DEF Below
<1> HIDE DEF R
<1>3. T = {x \in S : Rank(x, S, R) < n}
  BY <1>2 DEF Rank, FirstOf
<1>r. Ranked(S, R)
  BY <1>1, RanksAreTaken
<1>4. /\ \A x \in S : Rank(x, S, R) \in 0..(c - 1)
      /\ \A x, y \in S : Rank(x, S, R) = Rank(y, S, R) => x = y
      /\ \A i \in 1..c : \E x \in S : Rank(x, S, R) = i - 1
  BY <1>r DEF Ranked
<1>5. IsFiniteSet(T) /\ T \in SUBSET S
  BY <1>3, FS_Subset
<1>s. Sorts(p, T, Below(T))
  OBVIOUS
<1> HIDE DEF T
<1>6. Cardinality(T) = m
  <2>1. m \in Nat
    BY <1>1
  <2>2. IsFiniteSet(0..(m - 1)) /\ Cardinality(0..(m - 1)) = m
    <3> HIDE DEF m
    <3>1. QED
      BY ONLY <2>1, FS_Interval
  <2>3. ASSUME NEW x \in T PROVE rank[x] \in 0..(m - 1)
    BY <1>1, <1>3, <1>4
  <2>4. rank \in Injection(T, 0..(m - 1))
    BY <2>3, <1>4, <1>5 DEF Injection, IsInjective
  <2>5. ASSUME NEW k \in 0..(m - 1) PROVE \E x \in T : rank[x] = k
    <3>1. k + 1 \in 1..c /\ (k + 1) - 1 = k /\ k < n
      BY <1>1, <2>5
    <3>2. PICK x \in S : Rank(x, S, R) = (k + 1) - 1
      BY <1>4, <3>1
    <3>3. QED
      BY <1>3, <3>1, <3>2
  <2>6. rank \in Surjection(T, 0..(m - 1))
    BY <2>3, <2>5 DEF Surjection
  <2> HIDE DEF rank, m
  <2>7. Cardinality(T) = Cardinality(0..(m - 1))
    BY <2>2, <2>4, <2>6, FS_Injection
  <2>8. QED
    BY <2>2, <2>7
<1>7. ASSUME NEW x \in T
      PROVE  Rank(x, T, Below(T)) = Rank(x, S, R)
  <2>1. ASSUME NEW y \in S, <<y, x>> \in R PROVE y \in T
    <3>1. Rank(y, S, R) < Rank(x, S, R)
      BY <1>1, <1>5, <2>1, RankGrows
    <3>2. Rank(x, S, R) < n /\ Rank(x, S, R) \in Int /\ Rank(y, S, R) \in Int
      BY <1>1, <1>3, <1>4, <1>5
    <3>3. QED
      BY <1>3, <3>1, <3>2
  <2>2. \A y \in T : <<y, x>> \in Below(T) <=> <<y, x>> \in R
    BY <1>5 DEF Below, R
  <2>3. {y \in T : <<y, x>> \in Below(T)} = {y \in S : <<y, x>> \in R}
    BY <1>5, <2>1, <2>2
  <2>4. QED
    BY <2>3 DEF Rank
<1>8. ASSUME NEW i \in 1..Cardinality(T)
      PROVE  p[i] = q[i]
  <2>1. p[i] \in T /\ Rank(p[i], T, Below(T)) = i - 1
    BY <1>s DEF Sorts
  <2>2. p[i] \in S /\ Rank(p[i], S, R) = i - 1
    BY <1>5, <1>7, <2>1
  <2>3. i \in 1..c
    BY <1>1, <1>6
  <2>4. q[i] \in S /\ Rank(q[i], S, R) = i - 1
    BY <2>3 DEF Sorts, R
  <2>5. QED
    BY <1>4, <2>2, <2>4
<1>9. Min({n, c}) = m
  BY <1>1, MinOfTwo
<1>10. QED
  BY <1>6, <1>8, <1>9 DEF T, ListsFirst

-------------------------------------------------------------------------------
(* SparseTransfer                                                          *)

\* Whatever the scores, the length and the threshold: no hot token is left out for
\* a colder one, the recent tokens go, and the cap is kept.
THEOREM SelectionIsSound ==
    \A scores \in AttentionProbe : OmittedIsCold(scores) /\ RecentAreKept(scores)
<1> SUFFICES ASSUME NEW scores \in AttentionProbe,
                    NEW hot \in SelectHot(scores)
             PROVE  /\ \A t \in Tokens \ hot :
                          \/ scores[t] < HotScore
                          \/ \E top \in SUBSET hot :
                                /\ Cardinality(top) = MaxCount
                                /\ \A u \in top : scores[u] >= scores[t]
                    /\ Recent \subseteq hot
                    /\ Cardinality(hot \ Recent) <= MaxCount
  BY DEF OmittedIsCold, RecentAreKept
<1>1. \A t \in Tokens : scores[t] \in Int
  BY SparseAssumption DEF AttentionProbe
<1>2. IsFiniteSet(Tokens) /\ MaxCount \in Nat
  BY FS_Interval, SparseAssumption DEF Tokens, MaxCount
<1> DEFINE above == AboveThreshold(scores)
<1>3. above \in SUBSET Tokens /\ \A t \in Tokens \ above : scores[t] < HotScore
  BY <1>1, SparseAssumption DEF AboveThreshold
<1>4. hot \in SUBSET Tokens /\ Recent \subseteq hot
  BY <1>3 DEF SelectHot, TopTokens, Recent
<1>5. CASE Recent = Tokens
  <2>1. hot \ Recent = {}
    BY <1>4, <1>5
  <2>2. QED
    BY <1>2, <1>4, <1>5, <2>1, FS_EmptySet
<1>6. CASE Recent # Tokens
  <2>1. MaxCount # 0
    BY <1>6, SparseAssumption DEF MaxCount, Recent, Tokens
  <2>2. PICK s \in SUBSET Tokens :
            /\ hot = s \cup Recent
            /\ \/ Cardinality(s) = MaxCount /\ \A t \in s, u \in Tokens \ s : scores[t] >= scores[u]
               \/ s = above /\ ~(Cardinality(above) > MaxCount)
    BY <1>3, <2>1 DEF SelectHot, TopTokens
  <2>3. Cardinality(s) \in Nat /\ Cardinality(s) <= MaxCount
    <3>1. Cardinality(s) \in Nat
      BY <1>2, FS_Subset, FS_CardinalityType
    <3>2. QED
      BY <1>2, <2>2, <3>1
  <2>4. Cardinality(hot \ Recent) <= MaxCount
    <3>1. hot \ Recent \in SUBSET s /\ IsFiniteSet(s)
      BY <1>2, <2>2, FS_Subset
    <3>2. Cardinality(hot \ Recent) <= Cardinality(s) /\ Cardinality(hot \ Recent) \in Nat
      BY <3>1, FS_Subset, FS_CardinalityType
    <3>3. QED
      BY <1>2, <2>3, <3>2
  <2>5. ASSUME NEW t \in Tokens \ hot, ~(scores[t] < HotScore)
        PROVE  \E top \in SUBSET hot :
                   /\ Cardinality(top) = MaxCount
                   /\ \A u \in top : scores[u] >= scores[t]
    <3>1. t \in above /\ t \in Tokens \ s
      BY <1>3, <2>2, <2>5
    <3>2. QED
      BY <2>2, <3>1
  <2>6. QED
    BY <1>4, <2>4, <2>5
<1>7. QED
  BY <1>5, <1>6

\* The receiver gets each hot row at its own position, whatever was selected.
THEOREM HotRowsArrive ==
    ASSUME NEW k, NEW v, NEW fill, NEW scores \in AttentionProbe
    PROVE  RowsArrive(k, v, fill, scores)
<1> SUFFICES ASSUME NEW hot \in SelectHot(scores)
             PROVE  LET h == HotIndices(hot)
                        block == [k_sparse |-> [i \in DOMAIN h |-> k[h[i]]],
                                  v_sparse |-> [i \in DOMAIN h |-> v[h[i]]],
                                  hot_indices |-> h, context_len |-> SeqLen]
                        got == Reconstruct(block, fill)
                    IN  /\ \A t \in Range(h) : got[1][t] = k[t] /\ got[2][t] = v[t]
                        /\ \A t \in Tokens \ Range(h) : got[1][t] = fill /\ got[2][t] = fill
  BY DEF RowsArrive, Filter
<1> DEFINE h == HotIndices(hot)
<1>1. hot \in SUBSET Tokens /\ IsFiniteSet(hot) /\ Cardinality(hot) \in Nat
  <2>1. hot \in SUBSET Tokens
    BY DEF SelectHot, TopTokens, AboveThreshold, Recent
  <2>2. IsFiniteSet(Tokens)
    BY FS_Interval, SparseAssumption DEF Tokens
  <2>3. QED
    BY <2>1, <2>2, FS_Subset, FS_CardinalityType
<1>2. hot \in SUBSET Int
  BY <1>1 DEF Tokens
<1>3. Sorts(h, hot, Below(hot))
  BY <1>1, <1>2, PlacesAreSorted DEF HotIndices
<1>4. h \in [1..Cardinality(hot) -> hot]
  BY <1>3 DEF Sorts
<1> HIDE DEF h
<1>5. ASSUME NEW w, NEW rows, rows = [i \in DOMAIN h |-> w[h[i]]],
             NEW block, block.hot_indices = h, block.context_len = SeqLen, NEW t \in Tokens
      PROVE  Unpacked(rows, block, fill)[t] = IF t \in Range(h) THEN w[t] ELSE fill
  <2> DEFINE at == {i \in DOMAIN h : h[i] = t}
  <2>1. Unpacked(rows, block, fill)[t] = IF at = {} THEN fill ELSE rows[CHOOSE i \in at : TRUE]
    BY <1>5 DEF Unpacked, Tokens
  <2>2. at = {} <=> t \notin Range(h)
    BY DEF Range
  <2>3. ASSUME at # {}
        PROVE  rows[CHOOSE i \in at : TRUE] = w[t]
    <3>1. (CHOOSE i \in at : TRUE) \in at
      BY <2>3
    <3>2. QED
      BY <1>5, <3>1
  <2>4. QED
    BY <2>1, <2>2, <2>3
<1>6. Range(h) \subseteq Tokens
  BY <1>1, <1>4 DEF Range
<1> DEFINE block == [k_sparse |-> [i \in DOMAIN h |-> k[h[i]]],
                     v_sparse |-> [i \in DOMAIN h |-> v[h[i]]],
                     hot_indices |-> h, context_len |-> SeqLen]
<1>7. ASSUME NEW t \in Tokens
      PROVE  /\ Reconstruct(block, fill)[1][t] = IF t \in Range(h) THEN k[t] ELSE fill
             /\ Reconstruct(block, fill)[2][t] = IF t \in Range(h) THEN v[t] ELSE fill
  BY <1>5 DEF Reconstruct
<1>8. QED
  BY <1>6, <1>7 DEF h

-------------------------------------------------------------------------------
(* TraceLoader                                                             *)

\* Sorted() permutes the requests, into their order; requests that are in order
\* stay as they are.
LEMMA SortedPermutes ==
    ASSUME NEW n \in Nat, NEW reqs, DOMAIN reqs = 1..n,
           \A i \in 1..n : reqs[i].arrival \in Int
    PROVE  \E order \in [1..n -> 1..n] :
               /\ Sorted(reqs) = [i \in 1..n |-> reqs[order[i]]]
               /\ \A i, j \in 1..n : i < j => reqs[order[i]].arrival <= reqs[order[j]].arrival
               /\ (\A i, j \in 1..n : i < j => reqs[i].arrival <= reqs[j].arrival)
                      => \A i \in 1..n : order[i] = i
<1> DEFINE D == 1..n
           before(i, j) == \/ reqs[i].arrival < reqs[j].arrival
                           \/ reqs[i].arrival = reqs[j].arrival /\ i < j
           R == {p \in D \X D : before(p[1], p[2])}
           order == [i \in 1..Cardinality(D) |->
                        CHOOSE x \in D : Cardinality({y \in D : before(y, x)}) = i - 1]
<1>1. IsFiniteSet(D) /\ Cardinality(D) = n
  BY FS_Interval
<1>2. Sorted(reqs) = [i \in DOMAIN order |-> reqs[order[i]]]
  BY DEF Sorted, Arranged
<1>3. Orders(R, D)
  BY DEF Orders
<1>4. ASSUME NEW x \in D
      PROVE  {y \in D : before(y, x)} = {y \in D : <<y, x>> \in R}
  OBVIOUS
<1>5. ASSUME NEW x \in D, NEW y \in D, <<x, y>> \in R
      PROVE  reqs[x].arrival <= reqs[y].arrival
  BY <1>5
<1>6. ASSUME \A i, j \in 1..n : i < j => reqs[i].arrival <= reqs[j].arrival, NEW i \in 1..n
      PROVE  Rank(i, D, R) = i - 1
  <2>1. ASSUME NEW j \in D PROVE <<j, i>> \in R <=> j < i
    BY <1>6
  <2> HIDE DEF R
  <2>2. {j \in D : <<j, i>> \in R} = 1..(i - 1)
    BY <2>1
  <2>3. Cardinality(1..(i - 1)) = i - 1
    BY FS_Interval
  <2>4. QED
    BY <2>2, <2>3 DEF Rank
<1> HIDE DEF R, before
<1>7. ASSUME NEW i \in 1..n
      PROVE  order[i] \in D /\ Rank(order[i], D, R) = i - 1
  <2>1. \E x \in D : Rank(x, D, R) = i - 1
    <3>1. Ranked(D, R)
      BY <1>1, <1>3, RanksAreTaken
    <3>2. QED
      BY <1>1, <3>1 DEF Ranked
  <2>2. \E x \in D : Cardinality({y \in D : before(y, x)}) = i - 1
    BY <1>4, <2>1 DEF Rank
  <2>3. order[i] \in D /\ Cardinality({y \in D : before(y, order[i])}) = i - 1
    BY <1>1, <2>2
  <2>4. QED
    BY <1>4, <2>3 DEF Rank
<1>8. Sorts(order, D, R) /\ order \in [1..n -> 1..n]
  BY <1>1, <1>7 DEF Sorts
<1> HIDE DEF order
<1>9. \A i, j \in 1..n : i < j => reqs[order[i]].arrival <= reqs[order[j]].arrival
  <2>1. \A i, j \in 1..n : i < j => <<order[i], order[j]>> \in R
    <3>1. InOrderOf(order, D, R)
      BY <1>1, <1>3, <1>8, SortedIs
    <3>2. QED
      BY <1>1, <3>1 DEF InOrderOf
  <2>2. QED
    BY <1>5, <1>8, <2>1
<1>10. ASSUME \A i, j \in 1..n : i < j => reqs[i].arrival <= reqs[j].arrival
       PROVE  \A i \in 1..n : order[i] = i
  <2>1. \A i \in 1..n : \A x \in D : Rank(x, D, R) = i - 1 => order[i] = x
    <3>1. InOrderOf(order, D, R)
      BY <1>1, <1>3, <1>8, SortedIs
    <3>2. QED
      BY <1>1, <3>1 DEF InOrderOf
  <2>2. QED
    BY <1>6, <1>10, <2>1
<1>11. Sorted(reqs) = [i \in 1..n |-> reqs[order[i]]]
  BY <1>2, <1>8
<1>12. QED
  BY <1>8, <1>9, <1>10, <1>11

\* A request: at no time before the start, of at least one token each way.
Req == [arrival : Nat, input : Nat \ {0}, output : Nat \ {0}]

\* A row of a trace file, the rows that load() may take, and the request it makes of
\* one.
Row == [ts : Int, timed : BOOLEAN, tokens : BOOLEAN, input : Int, output : Int]

TimedRows(rows) == {i \in DOMAIN rows : rows[i].timed}

FirstTime(rows) == rows[Min(TimedRows(rows))].ts

GoodRows(rows, start) ==
    {i \in TimedRows(rows) : rows[i].ts - FirstTime(rows) >= start /\ rows[i].tokens}

Asked(rows, start, i) ==
    Request(rows[i].ts - FirstTime(rows) - start, rows[i].input, rows[i].output)

LEMMA GoodRowsAre ==
    ASSUME NEW rows \in Seq(Row), NEW start \in Int
    PROVE  /\ GoodRows(rows, start) \in SUBSET (1..Len(rows))
           /\ IsFiniteSet(GoodRows(rows, start))
           /\ Cardinality(GoodRows(rows, start)) \in 0..Len(rows)
           /\ \A i \in GoodRows(rows, start) :
                  /\ Asked(rows, start, i).arrival = rows[i].ts - FirstTime(rows) - start
                  /\ Asked(rows, start, i) \in Req
           /\ FirstTime(rows) \in Int \/ GoodRows(rows, start) = {}
<1> DEFINE T == TimedRows(rows)
           G == GoodRows(rows, start)
<1>1. Len(rows) \in Nat /\ DOMAIN rows = 1..Len(rows) /\ \A i \in 1..Len(rows) : rows[i] \in Row
  BY LenProperties, ElementOfSeq
<1>2. T \in SUBSET (1..Len(rows)) /\ G \in SUBSET T
  BY <1>1 DEF TimedRows, GoodRows
<1>3. IsFiniteSet(1..Len(rows)) /\ Cardinality(1..Len(rows)) = Len(rows)
  BY <1>1, UpTo
<1>4. IsFiniteSet(G) /\ Cardinality(G) \in 0..Len(rows)
  <2>1. G \in SUBSET (1..Len(rows))
    BY <1>2
  <2> HIDE DEF G
  <2>2. IsFiniteSet(G) /\ Cardinality(G) <= Len(rows)
    BY <1>3, <2>1, FS_Subset
  <2>3. Cardinality(G) \in Nat
    BY <2>2, FS_CardinalityType
  <2>4. QED
    BY <1>1, <2>2, <2>3
<1>5. ASSUME T # {}
      PROVE  FirstTime(rows) \in Int
  <2>1. T \in SUBSET Nat
    BY <1>1, <1>2
  <2> HIDE DEF T
  <2>2. \E m \in T : \A k \in T : m <= k
    BY <1>5, <2>1, LeastNat
  <2>3. Min(T) \in T
    BY <2>2 DEF Min
  <2>4. rows[Min(T)] \in Row
    BY <1>1, <1>2, <2>3
  <2>5. QED
    BY <2>4 DEF FirstTime, Row, T
<1>6. ASSUME NEW i \in G
      PROVE  /\ Asked(rows, start, i).arrival = rows[i].ts - FirstTime(rows) - start
             /\ Asked(rows, start, i) \in Req
  <2>1. FirstTime(rows) \in Int
    BY <1>2, <1>5
  <2>2. rows[i] \in Row
    BY <1>1, <1>2
  <2>3. /\ rows[i].ts \in Int /\ rows[i].input \in Int /\ rows[i].output \in Int
        /\ rows[i].ts - FirstTime(rows) >= start
    BY <2>2 DEF Row, GoodRows
  <2>4. /\ AtLeastOne(rows[i].input) \in Nat \ {0}
        /\ AtLeastOne(rows[i].output) \in Nat \ {0}
    BY <2>3 DEF AtLeastOne
  <2> DEFINE t == rows[i].ts - FirstTime(rows) - start
  <2>5. Asked(rows, start, i) = [arrival |-> t, input |-> AtLeastOne(rows[i].input),
                                 output |-> AtLeastOne(rows[i].output)]
    BY DEF Asked, Request
  <2>6. t \in Nat
    BY <2>1, <2>3
  <2> HIDE DEF t
  <2>7. Asked(rows, start, i) \in Req /\ Asked(rows, start, i).arrival = t
    BY <2>4, <2>5, <2>6 DEF Req
  <2>8. QED
    BY <2>7 DEF t
<1>7. QED
  BY <1>2, <1>4, <1>5, <1>6

LEMMA BurstgptTakes ==
    ASSUME NEW rows \in Seq(Row), NEW start \in Int
    PROVE  \E a : /\ Sorts(a, GoodRows(rows, start), Below(GoodRows(rows, start)))
                  /\ \A n \in Nat :
                         LoadBurstgpt(rows, n, start) =
                             [i \in 1..Min({n, Cardinality(GoodRows(rows, start))}) |->
                                 Asked(rows, start, a[i])]
<1> DEFINE G == GoodRows(rows, start)
           a == [i \in 1..Cardinality(G) |->
                    CHOOSE x \in G : Cardinality({y \in G : y < x}) = i - 1]
<1>1. G \in SUBSET Int /\ IsFiniteSet(G) /\ Len(rows) \in Nat
  BY GoodRowsAre, LenProperties
<1>2. Sorts(a, G, Below(G))
  <2> HIDE DEF G
  <2>1. QED
    BY <1>1, PlacesAreSorted
<1>3. ASSUME NEW n \in Nat
      PROVE  LoadBurstgpt(rows, n, start) =
                 [i \in 1..Min({n, Cardinality(G)}) |-> Asked(rows, start, a[i])]
  <2> DEFINE T == FirstOf(G, n)
             p == [i \in 1..Cardinality(T) |->
                      CHOOSE x \in T : Cardinality({y \in T : y < x}) = i - 1]
  <2>1. LoadBurstgpt(rows, n, start) = [i \in DOMAIN p |-> Asked(rows, start, p[i])]
    BY DEF LoadBurstgpt, Arranged, FirstOf, GoodRows, TimedRows, FirstTime, Asked
  <2>2. T \in SUBSET Int /\ IsFiniteSet(T)
    <3> HIDE DEF G
    <3>1. T \in SUBSET G
      BY DEF FirstOf
    <3>2. QED
      BY <1>1, <3>1, FS_Subset
  <2>3. Sorts(p, T, Below(T))
    <3> HIDE DEF T
    <3>1. QED
      BY <2>2, PlacesAreSorted
  <2>5. DOMAIN p = 1..Cardinality(T)
    OBVIOUS
  <2> HIDE DEF G, a, p
  <2>6. ListsFirst(p, a, G, n)
    BY <1>1, <1>2, <2>3, FirstOnesTaken
  <2>7. QED
    BY <2>1, <2>5, <2>6 DEF ListsFirst
<1>4. QED
  BY <1>2, <1>3

LEMMA PrefixIs ==
    ASSUME NEW n \in Nat, NEW s, NEW S, \A i \in 1..n : s[i] \in S
    PROVE  /\ SubSeq(s, 1, n) \in Seq(S) /\ Len(SubSeq(s, 1, n)) = n
           /\ \A i \in 1..n : SubSeq(s, 1, n)[i] = s[i]
<1>1. /\ SubSeq(s, 1, n) \in Seq(S)
      /\ Len(SubSeq(s, 1, n)) = IF 1 <= n THEN n - 1 + 1 ELSE 0
      /\ \A i \in 1..(n - 1 + 1) : SubSeq(s, 1, n)[i] = s[1 + i - 1]
  BY SubSeqProperties
<1>2. \A i \in 1..n : 1 + i - 1 = i
  OBVIOUS
<1>3. QED
  BY <1>1, <1>2

LEMMA LengthIs ==
    ASSUME NEW n \in Nat, NEW f, NEW S, f \in [1..n -> S]
    PROVE  f \in Seq(S) /\ Len(f) = n
  OBVIOUS

\* reqs are the first n of the requests that a lists, sorted by their arrival.
Loaded(reqs, n, rows, start, a) ==
    /\ Len(reqs) = Min({n, Cardinality(GoodRows(rows, start))})
    /\ Len(reqs) \in Nat
    /\ DOMAIN reqs = 1..Len(reqs)
    /\ reqs = [i \in 1..Len(reqs) |-> reqs[i]]
    /\ \A i \in 1..Len(reqs) : reqs[i] \in Req
    /\ \A i, j \in 1..Len(reqs) : i < j => reqs[i].arrival <= reqs[j].arrival
    /\ (\A i, j \in DOMAIN rows : i < j => rows[i].ts <= rows[j].ts)
           => \A i \in 1..Len(reqs) : reqs[i] = Asked(rows, start, a[i])

LEMMA LoadedIs ==
    ASSUME NEW rows \in Seq(Row), NEW start \in Int
    PROVE  \E a : \A n \in Nat : Loaded(Load("burstgpt", rows, <<>>, n, start), n, rows, start, a)
<1> DEFINE G == GoodRows(rows, start)
<1>a. PICK a : /\ Sorts(a, G, Below(G))
               /\ \A n \in Nat : LoadBurstgpt(rows, n, start) =
                      [i \in 1..Min({n, Cardinality(G)}) |-> Asked(rows, start, a[i])]
  BY BurstgptTakes
<1> SUFFICES ASSUME NEW n \in Nat
             PROVE  Loaded(Load("burstgpt", rows, <<>>, n, start), n, rows, start, a)
  OBVIOUS
<1> DEFINE reqs == Load("burstgpt", rows, <<>>, n, start)
<1> DEFINE m == Min({n, Cardinality(G)})
           raw == [i \in 1..m |-> Asked(rows, start, a[i])]
<1>1. Cardinality(G) \in Nat /\ IsFiniteSet(G) /\ G \in SUBSET Int
  <2>1. Cardinality(G) \in 0..Len(rows) /\ IsFiniteSet(G) /\ G \in SUBSET (1..Len(rows))
    BY GoodRowsAre
  <2>2. Len(rows) \in Nat
    BY LenProperties
  <2> HIDE DEF G
  <2>3. QED
    BY <2>1, <2>2
<1>2. m \in Nat /\ m <= Cardinality(G)
  <2> HIDE DEF G
  <2>1. m = IF n <= Cardinality(G) THEN n ELSE Cardinality(G)
    BY <1>1, MinOfTwo
  <2>2. QED
    BY <1>1, <2>1
<1>3. reqs = Sorted(raw)
  BY <1>a DEF Load
<1>4. ASSUME NEW i \in 1..m
      PROVE  /\ a[i] \in G
             /\ raw[i] = Asked(rows, start, a[i])
             /\ raw[i] \in Req
             /\ raw[i].arrival = rows[a[i]].ts - FirstTime(rows) - start
  <2>1. i \in 1..Cardinality(G)
    BY <1>1, <1>2
  <2>2. a[i] \in G
    BY <1>a, <2>1 DEF Sorts
  <2>3. QED
    BY <2>2, GoodRowsAre
<1>5. DOMAIN raw = 1..m /\ \A i \in 1..m : raw[i].arrival \in Int
  <2>1. ASSUME NEW i \in 1..m PROVE raw[i].arrival \in Int
    <3>1. raw[i] \in Req
      BY <1>4
    <3> HIDE DEF raw
    <3>2. QED
      BY <3>1 DEF Req
  <2>2. DOMAIN raw = 1..m
    OBVIOUS
  <2> HIDE DEF raw, m
  <2>3. QED
    BY <2>1, <2>2
<1> HIDE DEF raw, m, reqs
<1>6. PICK order \in [1..m -> 1..m] :
          /\ Sorted(raw) = [i \in 1..m |-> raw[order[i]]]
          /\ \A i, j \in 1..m : i < j => raw[order[i]].arrival <= raw[order[j]].arrival
          /\ (\A i, j \in 1..m : i < j => raw[i].arrival <= raw[j].arrival)
                 => \A i \in 1..m : order[i] = i
  BY <1>2, <1>5, SortedPermutes
<1>7. Len(reqs) = m /\ DOMAIN reqs = 1..m
  <2> DEFINE S == {raw[i] : i \in 1..m}
  <2>1. reqs \in [1..m -> S]
    BY <1>3, <1>6
  <2> HIDE DEF S
  <2>2. QED
    BY <1>2, <2>1, LengthIs
<1>8. \A i \in 1..m : reqs[i] = raw[order[i]] /\ order[i] \in 1..m
  BY <1>3, <1>6
<1>9. ASSUME \A i, j \in DOMAIN rows : i < j => rows[i].ts <= rows[j].ts
      PROVE  \A i \in 1..m : reqs[i] = Asked(rows, start, a[i])
  <2>1. ASSUME NEW i \in 1..m, NEW j \in 1..m, i < j
        PROVE  raw[i].arrival <= raw[j].arrival
    <3>1. InOrderOf(a, G, Below(G)) /\ i \in 1..Cardinality(G) /\ j \in 1..Cardinality(G)
      <4>1. Orders(Below(G), G)
        BY <1>1 DEF Orders, Below
      <4> HIDE DEF G
      <4>2. Sorts(a, G, Below(G))
        BY <1>a
      <4>3. QED
        BY <1>1, <1>2, <4>1, <4>2, SortedIs
    <3>2. a[i] < a[j]
      BY <2>1, <3>1 DEF InOrderOf, Below
    <3>3. a[i] \in DOMAIN rows /\ a[j] \in DOMAIN rows
      BY <1>4 DEF GoodRows, TimedRows
    <3>4. rows[a[i]].ts <= rows[a[j]].ts
      BY <1>9, <3>2, <3>3
    <3>5. rows[a[i]].ts \in Int /\ rows[a[j]].ts \in Int
      <4>1. rows[a[i]] \in Row /\ rows[a[j]] \in Row
        BY <3>3, LenProperties
      <4>2. QED
        BY <4>1 DEF Row
    <3>6. FirstTime(rows) \in Int
      BY <1>4, GoodRowsAre
    <3>7. QED
      BY <1>4, <3>4, <3>5, <3>6
  <2>2. \A i \in 1..m : order[i] = i
    BY <1>6, <2>1
  <2>3. QED
    BY <1>4, <1>8, <2>2
<1>10. QED
  <2>1. Len(reqs) \in Nat /\ DOMAIN reqs = 1..Len(reqs) /\ Len(reqs) = Min({n, Cardinality(G)})
    BY <1>2, <1>7 DEF m
  <2>2. reqs = [i \in 1..Len(reqs) |-> reqs[i]]
    BY <1>3, <1>6, <1>7
  <2>3. \A i \in 1..Len(reqs) : reqs[i] \in Req
    BY <1>4, <1>7, <1>8
  <2>4. ASSUME NEW i \in 1..m, NEW j \in 1..m, i < j
        PROVE  reqs[i].arrival <= reqs[j].arrival
    <3>1. reqs[i] = raw[order[i]] /\ reqs[j] = raw[order[j]]
      BY <1>8
    <3>2. raw[order[i]].arrival <= raw[order[j]].arrival
      BY <1>6, <2>4
    <3>3. QED
      BY <3>1, <3>2
  <2>5. Loaded(reqs, n, rows, start, a)
    BY <1>7, <1>9, <2>1, <2>2, <2>3, <2>4 DEF Loaded
  <2>6. QED
    BY <2>5 DEF reqs

\* Whatever rows a trace file has: what load() returns is in order, begins no
\* earlier than asked for, and has the earliest good rows, n of them or all.
THEOREM TracesLoadTheEarliest ==
    ASSUME NEW rows \in Seq(Row), NEW n \in Nat, NEW start \in Int
    PROVE  LoadsTheEarliest(rows, n, start)
<1> DEFINE G == GoodRows(rows, start)
           reqs == Load("burstgpt", rows, <<>>, n, start)
           all == Load("burstgpt", rows, <<>>, Len(rows), start)
<1>1. Len(rows) \in Nat /\ Cardinality(G) \in 0..Len(rows)
  BY LenProperties, GoodRowsAre
<1>2. PICK a : Loaded(reqs, n, rows, start, a) /\ Loaded(all, Len(rows), rows, start, a)
  BY <1>1, LoadedIs
<1> HIDE DEF reqs, all
<1>3. /\ Len(reqs) = Min({n, Cardinality(G)})
      /\ Len(reqs) \in Nat /\ DOMAIN reqs = 1..Len(reqs)
      /\ \A i \in 1..Len(reqs) : reqs[i] \in Req
      /\ \A i, j \in 1..Len(reqs) : i < j => reqs[i].arrival <= reqs[j].arrival
  BY <1>2 DEF Loaded
<1>4. Len(all) = Min({Len(rows), Cardinality(G)})
  BY <1>2 DEF Loaded
<1> HIDE DEF G
<1>5. Len(all) = Cardinality(G)
  BY <1>1, <1>4, MinOfTwo
<1>6. Len(reqs) = Min({n, Len(all)})
  BY <1>3, <1>5
<1>7. Len(reqs) <= Len(all) /\ Len(all) \in Nat
  <2>1. Min({n, Len(all)}) = IF n <= Len(all) THEN n ELSE Len(all)
    BY <1>1, <1>5, MinOfTwo
  <2>2. QED
    BY <1>1, <1>5, <1>6, <2>1
<1>8. \A i \in DOMAIN reqs : reqs[i].arrival >= 0 /\ reqs[i].input >= 1
  <2>1. ASSUME NEW i \in DOMAIN reqs PROVE reqs[i].arrival >= 0 /\ reqs[i].input >= 1
    <3>1. reqs[i] \in Req
      BY <1>3
    <3>2. QED
      BY <3>1 DEF Req
  <2>2. QED
    BY <2>1
<1>9. \A gap \in Range(InterArrivalTimes(reqs)) : gap >= 0
  <2>1. ASSUME NEW i \in 1..(Len(reqs) - 1)
        PROVE  reqs[i + 1].arrival - reqs[i].arrival >= 0
    <3>1. i \in 1..Len(reqs) /\ i + 1 \in 1..Len(reqs) /\ i < i + 1
      BY <1>3
    <3>2. reqs[i].arrival <= reqs[i + 1].arrival
      BY <1>3, <3>1
    <3>3. reqs[i].arrival \in Int /\ reqs[i + 1].arrival \in Int
      <4>1. reqs[i] \in Req /\ reqs[i + 1] \in Req
        BY <1>3, <3>1
      <4>2. QED
        BY <4>1 DEF Req
    <3>4. QED
      BY <3>2, <3>3
  <2>2. QED
    BY <2>1 DEF InterArrivalTimes, Range
<1>10. ASSUME \A i, j \in DOMAIN rows : i < j => rows[i].ts <= rows[j].ts
       PROVE  reqs = SubSeq(all, 1, Len(reqs))
  <2> DEFINE S == {Asked(rows, start, a[i]) : i \in 1..Len(all)}
             f == [i \in 1..Len(all) |-> Asked(rows, start, a[i])]
             g == [i \in 1..Len(reqs) |-> Asked(rows, start, a[i])]
  <2>1. reqs = [i \in 1..Len(reqs) |-> reqs[i]] /\ all = [i \in 1..Len(all) |-> all[i]]
    BY <1>2 DEF Loaded
  <2>2. /\ \A i \in 1..Len(reqs) : reqs[i] = Asked(rows, start, a[i])
        /\ \A i \in 1..Len(all) : all[i] = Asked(rows, start, a[i])
    BY <1>2, <1>10 DEF Loaded
  <2>3. reqs = g /\ all = f
    BY <2>1, <2>2
  <2>4. f \in [1..Len(all) -> S] /\ g \in [1..Len(reqs) -> S]
    BY <1>7
  <2>5. \A i \in 1..Len(reqs) : f[i] = g[i] /\ f[i] \in S
    BY <1>3, <1>7
  <2> HIDE DEF f, g, S
  <2>6. \A i \in 1..Len(reqs) : all[i] = reqs[i] /\ all[i] \in S
    BY <2>3, <2>5
  <2>7. reqs = SubSeq(all, 1, Len(reqs))
    <3> DEFINE m == Len(reqs)
               sub == SubSeq(all, 1, m)
    <3> HIDE DEF m
    <3>2. m \in Nat /\ \A i \in 1..m : all[i] \in S
      BY <1>3, <2>6 DEF m
    <3>3. sub \in Seq(S) /\ Len(sub) = m /\ \A i \in 1..m : sub[i] = all[i]
      BY ONLY <3>2, PrefixIs
    <3> HIDE DEF sub
    <3>4. sub \in [1..m -> S]
      BY <3>3, LenProperties
    <3>5. sub = [i \in 1..m |-> reqs[i]]
      BY <2>6, <3>3, <3>4 DEF m
    <3>6. reqs = sub
      BY <2>1, <3>5 DEF m
    <3>7. QED
      BY <3>6 DEF sub, m
  <2>8. QED
    BY <2>7
<1>11. QED
  BY <1>6, <1>8, <1>9, <1>10 DEF LoadsTheEarliest, reqs, all

-------------------------------------------------------------------------------
(* The peak                                                                *)

\* The times of f from a on, before b.
Within(f, a, b) == {i \in DOMAIN f : f[i] >= a /\ f[i] < b}

HowMany(f, a, b) == Cardinality(Within(f, a, b))

LEMMA SubsetUpTo ==
    ASSUME NEW n \in Nat, NEW W \in SUBSET (1..n)
    PROVE  IsFiniteSet(W) /\ Cardinality(W) \in 0..n
<1>1. IsFiniteSet(1..n) /\ Cardinality(1..n) = n
  BY UpTo
<1>2. IsFiniteSet(W) /\ Cardinality(W) <= Cardinality(1..n)
  BY <1>1, FS_Subset
<1>3. Cardinality(W) \in Nat
  BY <1>2, FS_CardinalityType
<1>4. QED
  BY <1>1, <1>2, <1>3

LEMMA HowManyAre ==
    ASSUME NEW n \in Nat, NEW f \in [1..n -> Nat], NEW a \in Int, NEW b \in Int
    PROVE  /\ Within(f, a, b) \in SUBSET (1..n) /\ IsFiniteSet(Within(f, a, b))
           /\ HowMany(f, a, b) \in 0..n
<1> DEFINE W == Within(f, a, b)
<1>1. W \in SUBSET (1..n)
  BY DEF Within
<1> HIDE DEF W
<1>2. IsFiniteSet(W) /\ Cardinality(W) \in 0..n
  BY <1>1, SubsetUpTo
<1>3. QED
  BY <1>1, <1>2 DEF W, HowMany

\* What lies in a window lies in any window that has its members, or in two of them.
LEMMA CoveredByTwo ==
    ASSUME NEW n \in Nat, NEW f \in [1..n -> Nat],
           NEW a \in Int, NEW b \in Int, NEW c \in Int, NEW d \in Int,
           NEW e \in Int, NEW g \in Int,
           Within(f, a, b) \subseteq Within(f, c, d) \cup Within(f, e, g)
    PROVE  HowMany(f, a, b) <= HowMany(f, c, d) + HowMany(f, e, g)
<1> DEFINE A == Within(f, a, b)
           C == Within(f, c, d)
           E == Within(f, e, g)
<1>1. IsFiniteSet(A) /\ IsFiniteSet(C) /\ IsFiniteSet(E) /\ A \subseteq C \cup E
  BY HowManyAre
<1> HIDE DEF A, C, E
<1>2. /\ Cardinality(A) \in Nat /\ Cardinality(C) \in Nat /\ Cardinality(E) \in Nat
      /\ Cardinality(C \cap E) \in Nat
  <2>1. IsFiniteSet(C \cap E)
    BY <1>1, FS_Intersection
  <2>2. QED
    BY <1>1, <2>1, FS_CardinalityType
<1>3. /\ IsFiniteSet(C \cup E)
      /\ Cardinality(C \cup E) = Cardinality(C) + Cardinality(E) - Cardinality(C \cap E)
  BY <1>1, FS_Union
<1>4. Cardinality(A) <= Cardinality(C \cup E)
  BY <1>1, <1>3, FS_Subset
<1>5. Cardinality(A) <= Cardinality(C) + Cardinality(E)
  BY <1>2, <1>3, <1>4
<1>6. QED
  BY <1>5 DEF A, C, E, HowMany

LEMMA CoveredByOne ==
    ASSUME NEW n \in Nat, NEW f \in [1..n -> Nat],
           NEW a \in Int, NEW b \in Int, NEW c \in Int, NEW d \in Int,
           Within(f, a, b) \subseteq Within(f, c, d)
    PROVE  HowMany(f, a, b) <= HowMany(f, c, d)
<1> DEFINE A == Within(f, a, b)
           C == Within(f, c, d)
<1>1. IsFiniteSet(C) /\ A \in SUBSET C
  BY HowManyAre
<1> HIDE DEF A, C
<1>2. Cardinality(A) <= Cardinality(C)
  BY <1>1, FS_Subset
<1>3. QED
  BY <1>2 DEF A, C, HowMany

LEMMA MaxIs ==
    ASSUME NEW n \in Nat, NEW S \in SUBSET (0..n), S # {}
    PROVE  Max(S) \in S /\ \A x \in S : x <= Max(S)
<1> DEFINE U == {k \in 0..n : \A x \in S : x <= k}
<1>1. n \in U /\ U \in SUBSET Nat
  OBVIOUS
<1> HIDE DEF U
<1>2. PICK m \in U : \A k \in U : m <= k
  BY <1>1, LeastNat
<1>3. m \in 0..n /\ \A x \in S : x <= m
  BY DEF U
<1>4. m \in S
  <2> SUFFICES ASSUME m \notin S PROVE FALSE
    OBVIOUS
  <2>1. PICK y \in S : TRUE
    OBVIOUS
  <2>2. \A x \in S : x <= m - 1
    BY <1>3
  <2>3. m - 1 \in 0..n
    BY <1>3, <2>1, <2>2
  <2>4. m - 1 \in U
    BY <2>2, <2>3 DEF U
  <2>5. QED
    BY <1>2, <1>3, <2>4
<1>5. \E x \in S : \A y \in S : x >= y
  BY <1>3, <1>4
<1>6. Max(S) \in S /\ \A y \in S : Max(S) >= y
  BY <1>5 DEF Max
<1>7. QED
  BY <1>6

\* The second a time lies in.
LEMMA SecondOf ==
    ASSUME NEW a \in Nat
    PROVE  /\ a \div Second \in Nat
           /\ (a \div Second) * Second <= a /\ a < (a \div Second) * Second + Second
  BY TraceAssumption

LEMMA NextSecond ==
    ASSUME NEW q \in Nat
    PROVE  /\ q * Second \in Nat
           /\ (q + 1) * Second = q * Second + Second
  BY TraceAssumption

LEMMA LaterSecond ==
    ASSUME NEW q \in Nat, NEW r \in Nat, r > q
    PROVE  r * Second >= q * Second + Second
  BY TraceAssumption

\* The best of the windows that begin with a request is the best of all.
LEMMA BestWindow ==
    ASSUME NEW n \in Nat \ {0}, NEW f \in [1..n -> Nat],
           \A i, j \in 1..n : i < j => f[i] <= f[j],
           NEW best, best = Max({HowMany(f, f[i], f[i] + Second) : i \in 1..n})
    PROVE  /\ best \in 0..n
           /\ \E i \in 1..n : best = HowMany(f, f[i], f[i] + Second)
           /\ \A t \in Nat : HowMany(f, t, t + Second) <= best
<1> DEFINE S == {HowMany(f, f[i], f[i] + Second) : i \in 1..n}
<1>1. Second \in Nat \ {0} /\ n \in Nat
  BY TraceAssumption
<1>2. \A i \in 1..n : HowMany(f, f[i], f[i] + Second) \in 0..n
  BY <1>1, HowManyAre
<1>3. S \in SUBSET (0..n) /\ S # {}
  BY <1>2
<1>4. best \in S /\ \A x \in S : x <= best
  <2> HIDE DEF S
  <2>1. Max(S) \in S /\ \A x \in S : x <= Max(S)
    BY <1>1, <1>3, MaxIs
  <2>2. QED
    BY <2>1 DEF S
<1>5. ASSUME NEW t \in Nat
      PROVE  HowMany(f, t, t + Second) <= best
  <2> DEFINE W == Within(f, t, t + Second)
  <2>1. W \in SUBSET (1..n)
    BY <1>1, HowManyAre
  <2>2. CASE W = {}
    <3>1. HowMany(f, t, t + Second) = 0
      BY <2>2, FS_EmptySet DEF HowMany
    <3>2. QED
      BY <1>3, <1>4, <3>1
  <2>3. CASE W # {}
    <3>1. W \in SUBSET Nat
      BY <2>1
    <3>2. PICK m \in W : \A i \in W : m <= i
      <4> HIDE DEF W
      <4>1. QED
        BY <2>3, <3>1, LeastNat
    <3>3. m \in 1..n /\ f[m] \in Nat /\ f[m] >= t /\ f[m] < t + Second
      BY <2>1 DEF Within
    <3>4. ASSUME NEW i \in W
          PROVE  i \in Within(f, f[m], f[m] + Second)
      <4>1. i \in 1..n /\ m <= i /\ f[i] < t + Second /\ f[i] \in Nat
        BY <2>1, <3>2 DEF Within
      <4>2. f[m] <= f[i]
        <5>1. CASE m = i
          BY <4>1, <5>1
        <5>2. CASE m < i
          BY <3>3, <4>1, <5>2
        <5>3. QED
          BY <3>3, <4>1, <5>1, <5>2
      <4>3. f[i] < f[m] + Second
        BY <1>1, <3>3, <4>1
      <4>4. QED
        BY <4>1, <4>2, <4>3 DEF Within
    <3>5. W \subseteq Within(f, f[m], f[m] + Second)
      BY <3>4
    <3>6. HowMany(f, t, t + Second) <= HowMany(f, f[m], f[m] + Second)
      <4>1. f[m] + Second \in Int /\ t + Second \in Int /\ t \in Int /\ f[m] \in Int
        BY <1>1, <3>3
      <4>2. QED
        BY <1>1, <3>5, <4>1, CoveredByOne
    <3>7. HowMany(f, f[m], f[m] + Second) <= best
      BY <1>4, <3>3
    <3>8. HowMany(f, t, t + Second) \in Int /\ HowMany(f, f[m], f[m] + Second) \in Int /\ best \in Int
      <4>1. t \in Int /\ t + Second \in Int
        BY <1>1
      <4>2. HowMany(f, t, t + Second) \in 0..n
        BY <1>1, <4>1, HowManyAre
      <4>3. QED
        BY <1>2, <1>3, <1>4, <3>3, <4>2
    <3>9. QED
      BY <3>6, <3>7, <3>8
  <2>4. QED
    BY <2>2, <2>3
<1>6. QED
  BY <1>3, <1>4, <1>5

\* The times of the requests.
Arrivals(reqs) == [i \in 1..Len(reqs) |-> reqs[i].arrival]

\* Whatever requests a trace has, in their order: the peak that statistics() finds
\* is no more than the best second has, and at least half of it.
THEOREM PeakIsHalfOfTheBest ==
    ASSUME NEW reqs \in Seq(Req), reqs # <<>>,
           \A i, j \in 1..Len(reqs) : i < j => reqs[i].arrival <= reqs[j].arrival
    PROVE  PeakIsHalfRight(reqs)
<1> DEFINE n == Len(reqs)
           f == Arrivals(reqs)
           D == Duration(reqs)
           best == Max({HowMany(f, f[i], f[i] + Second) : i \in 1..n})
           Window(t) == HowMany(f, t * Second, (t + 1) * Second)
<1>1. n \in Nat \ {0} /\ Second \in Nat \ {0} /\ DOMAIN reqs = 1..n
  BY LenProperties, EmptySeq, TraceAssumption
<1>2. ASSUME NEW i \in 1..n
      PROVE  f[i] = reqs[i].arrival /\ f[i] \in Nat
  <2>1. reqs[i] \in Req
    BY ElementOfSeq
  <2>2. QED
    BY <2>1 DEF Req, Arrivals
<1>3. f \in [1..n -> Nat]
  BY <1>2 DEF Arrivals
<1>4. ASSUME NEW i \in 1..n, NEW j \in 1..n, i < j
      PROVE  f[i] <= f[j]
  BY <1>2, <1>4
<1>5. \A a, b : Between(reqs, a, b) = HowMany(f, a, b)
  <2>1. ASSUME NEW a, NEW b
        PROVE  {i \in DOMAIN reqs : reqs[i].arrival >= a /\ reqs[i].arrival < b} = Within(f, a, b)
    BY <1>1, <1>2, <1>3 DEF Within
  <2>2. QED
    BY <2>1 DEF Between, HowMany
<1>6. D = IF n > 1 THEN f[n] - f[1] ELSE Second
  BY <1>1, <1>2 DEF Duration
<1>7. PeakRps(reqs) = IF D > 0 THEN Max({Window(t) : t \in 0..(D \div Second)}) ELSE n
  BY <1>5 DEF PeakRps
<1>8. ASSUME /\ PeakRps(reqs) <= best
             /\ f[1] = 0 => best <= 2 * PeakRps(reqs)
      PROVE  PeakIsHalfRight(reqs)
  <2>1. {Between(reqs, reqs[i].arrival, reqs[i].arrival + Second) : i \in DOMAIN reqs}
            = {HowMany(f, f[i], f[i] + Second) : i \in 1..n}
    BY <1>1, <1>2, <1>5
  <2>2. f[1] = reqs[1].arrival
    BY <1>1, <1>2
  <2> HIDE DEF f
  <2>3. QED
    BY <1>8, <2>1, <2>2 DEF PeakIsHalfRight
<1> HIDE DEF f, n, D, best
<1>9. /\ best \in 0..n
      /\ \E i \in 1..n : best = HowMany(f, f[i], f[i] + Second)
      /\ \A t \in Nat : HowMany(f, t, t + Second) <= best
  BY <1>1, <1>3, <1>4, BestWindow DEF best
<1>10. D \in Int /\ \A i \in 1..n : f[1] <= f[i] /\ f[i] <= f[n] /\ f[1] \in Nat /\ f[n] \in Nat
  BY <1>1, <1>2, <1>4, <1>6
<1>11. CASE D > 0
  <2> DEFINE last == D \div Second
             S == {Window(t) : t \in 0..last}
  <2>1. last \in Nat /\ last * Second <= D /\ D < last * Second + Second
    BY <1>10, <1>11, SecondOf
  <2>2. ASSUME NEW t \in Nat
        PROVE  /\ Window(t) \in 0..n
               /\ Window(t) <= best
    <3>1. t * Second \in Nat /\ (t + 1) * Second = t * Second + Second
      BY NextSecond
    <3>2. t * Second + Second \in Int
      BY <1>1, <3>1
    <3>3. HowMany(f, t * Second, t * Second + Second) \in 0..n
      BY <1>1, <1>3, <3>1, <3>2, HowManyAre
    <3>4. QED
      BY <1>9, <3>1, <3>3
  <2> HIDE DEF last, Window
  <2>3. S \in SUBSET (0..n) /\ S # {}
    <3>1. ASSUME NEW t \in 0..last PROVE Window(t) \in 0..n
      BY <2>1, <2>2
    <3>2. 0 \in 0..last
      BY <2>1
    <3> HIDE DEF Window
    <3>3. QED
      BY <3>1, <3>2
  <2>4. Max(S) \in S /\ \A x \in S : x <= Max(S)
    <3> HIDE DEF S
    <3>1. QED
      BY <1>1, <2>3, MaxIs
  <2>5. PeakRps(reqs) = Max(S)
    BY <1>7, <1>11 DEF last
  <2>6. PeakRps(reqs) <= best /\ PeakRps(reqs) \in 0..n
    BY <2>1, <2>2, <2>3, <2>4, <2>5
  <2>7. ASSUME f[1] = 0
        PROVE  best <= 2 * PeakRps(reqs)
    <3>1. \A i \in 1..n : f[i] \in Nat /\ f[i] <= D
      BY <1>1, <1>2, <1>6, <1>10, <2>7
    <3>2. PICK i \in 1..n : best = HowMany(f, f[i], f[i] + Second)
      BY <1>9
    <3> DEFINE q == f[i] \div Second
    <3>3. q \in Nat /\ q * Second <= f[i] /\ f[i] < q * Second + Second
      BY <3>1, SecondOf
    <3> HIDE DEF q
    <3>4. /\ q * Second \in Nat /\ last * Second \in Nat
          /\ (q + 1) * Second = q * Second + Second
          /\ (q + 1) * Second \in Nat
          /\ ((q + 1) + 1) * Second = (q + 1) * Second + Second
      BY <2>1, <3>3, NextSecond
    <3>5. q <= last
      <4> SUFFICES ASSUME q > last PROVE FALSE
        BY <2>1, <3>3
      <4> DEFINE u == q * Second
                 v == last * Second
      <4>1. u >= v + Second
        BY <2>1, <3>3, LaterSecond
      <4>2. u \in Nat /\ v \in Nat /\ u <= f[i] /\ D < v + Second
        BY <2>1, <3>3, <3>4
      <4> HIDE DEF u, v
      <4>3. QED
        BY <1>1, <1>10, <3>1, <4>1, <4>2
    <3>6. Window(q) <= Max(S)
      BY <2>1, <2>4, <3>3, <3>5
    <3>7. Window(q + 1) <= Max(S)
      <4>1. CASE q + 1 <= last
        BY <2>1, <2>4, <3>3, <4>1
      <4>2. CASE q = last
        <5>1. ASSUME NEW j \in 1..n PROVE ~(f[j] >= (q + 1) * Second)
          <6> DEFINE u == q * Second
                     v == (q + 1) * Second
          <6>1. v = u + Second /\ D < u + Second /\ u \in Nat
            BY <2>1, <3>4, <4>2
          <6> HIDE DEF u, v
          <6>2. ~(f[j] >= v)
            BY <1>1, <1>10, <3>1, <6>1
          <6>3. QED
            BY <6>2 DEF v
        <5>2. Within(f, (q + 1) * Second, ((q + 1) + 1) * Second) = {}
          BY <1>3, <5>1 DEF Within
        <5>3. Window(q + 1) = 0
          BY <5>2, FS_EmptySet DEF Window, HowMany
        <5>4. QED
          BY <2>3, <2>4, <5>3
      <4>3. QED
        BY <2>1, <3>3, <3>5, <4>1, <4>2
    <3>8. HowMany(f, f[i], f[i] + Second) <= Window(q) + Window(q + 1)
      <4> DEFINE u == q * Second
                 v == (q + 1) * Second
                 w == ((q + 1) + 1) * Second
      <4>1. /\ u \in Nat /\ v \in Nat /\ w \in Nat /\ v = u + Second /\ w = v + Second
            /\ f[i] >= u /\ f[i] < v /\ f[i] \in Int /\ f[i] + Second \in Int
        BY <1>1, <3>1, <3>3, <3>4
      <4>2. Window(q) = HowMany(f, u, v) /\ Window(q + 1) = HowMany(f, v, w)
        BY DEF Window
      <4> HIDE DEF u, v, w
      <4>3. ASSUME NEW j \in 1..n, f[j] >= f[i], f[j] < f[i] + Second
            PROVE  (f[j] >= u /\ f[j] < v) \/ (f[j] >= v /\ f[j] < w)
        BY <1>1, <3>1, <4>1, <4>3
      <4>4. Within(f, f[i], f[i] + Second) \subseteq Within(f, u, v) \cup Within(f, v, w)
        BY <1>3, <4>3 DEF Within
      <4>5. QED
        BY <1>1, <1>3, <4>1, <4>2, <4>4, CoveredByTwo
    <3>9. Window(q) \in Int /\ Window(q + 1) \in Int
      BY <2>2, <3>3
    <3>10. QED
      BY <1>9, <2>5, <2>6, <3>2, <3>6, <3>7, <3>8, <3>9
  <2>8. QED
    BY <1>8, <2>6, <2>7
<1>12. CASE ~(D > 0)
  <2>1. PeakRps(reqs) = n
    BY <1>7, <1>12
  <2>2. \A i \in 1..n : f[i] = f[1] /\ f[i] \in Nat
    BY <1>1, <1>2, <1>6, <1>10, <1>12
  <2>3. Within(f, f[1], f[1] + Second) = 1..n
    BY <1>1, <1>3, <2>2 DEF Within
  <2>4. HowMany(f, f[1], f[1] + Second) = n
    BY <1>1, <2>3, UpTo DEF HowMany
  <2>5. n <= best
    BY <1>1, <1>9, <2>2, <2>4
  <2>6. QED
    BY <1>1, <1>8, <1>9, <2>1, <2>5
<1>13. QED
  BY <1>10, <1>11, <1>12

\* That holds of the requests of any trace file from which load() gets some.
THEOREM LoadedPeakIsHalfRight ==
    ASSUME NEW rows \in Seq(Row), NEW n \in Nat, NEW start \in Int,
           Load("burstgpt", rows, <<>>, n, start) # <<>>
    PROVE  PeakIsHalfRight(Load("burstgpt", rows, <<>>, n, start))
<1> DEFINE reqs == Load("burstgpt", rows, <<>>, n, start)
<1>1. PICK a : Loaded(reqs, n, rows, start, a)
  BY LoadedIs
<1>2. reqs # <<>>
  OBVIOUS
<1> HIDE DEF reqs
<1>3. /\ Len(reqs) \in Nat /\ reqs = [i \in 1..Len(reqs) |-> reqs[i]]
      /\ \A i \in 1..Len(reqs) : reqs[i] \in Req
      /\ \A i, j \in 1..Len(reqs) : i < j => reqs[i].arrival <= reqs[j].arrival
  BY <1>1 DEF Loaded
<1>4. reqs \in Seq(Req)
  <2>1. reqs \in [1..Len(reqs) -> Req]
    BY <1>3
  <2>2. QED
    BY <1>3, <2>1, LengthIs
<1>5. PeakIsHalfRight(reqs)
  BY <1>2, <1>3, <1>4, PeakIsHalfOfTheBest
<1>6. QED
  BY <1>5 DEF reqs

===============================================================================
