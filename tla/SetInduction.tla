---------------------------- MODULE SetInduction ----------------------------
(***************************************************************************)
(* Induction over the naturals and over finite sets, in a form that speaks *)
(* of sets: the library's theorems, which speak of predicates, take an     *)
(* operator as a parameter.  What a recursive function computes for every  *)
(* argument follows from these.                                            *)
(***************************************************************************)
EXTENDS Integers, FiniteSets, FiniteSetTheorems, WellFoundedInduction, TLAPS

\* A non-empty set of naturals has a least element: among the intervals 0..n
\* that end in it there is one that contains no other.
LEMMA Least ==
  ASSUME NEW T \in SUBSET Nat, T # {}
  PROVE  \E m \in T : \A n \in T : m <= n
<1> DEFINE F == {0..n : n \in T}
           R == StrictSubsetOrdering(Nat)
<1>1. F \subseteq FiniteSubsetsOf(Nat)
  <2> SUFFICES ASSUME NEW n \in T PROVE 0..n \in SUBSET Nat /\ IsFiniteSet(0..n)
    BY DEF FiniteSubsetsOf
  <2>1. n \in Int /\ 0 \in Int OBVIOUS
  <2> QED BY <2>1, FS_Interval
<1>2. F # {} OBVIOUS
<1>3. IsWellFoundedOn(R, FiniteSubsetsOf(Nat)) BY FS_StrictSubsetOrderingWellFounded
<1>4. PICK I \in F : \A J \in F : ~ (<<J, I>> \in R)
  <2> HIDE DEF F, R
  <2> QED BY <1>1, <1>2, <1>3, WFMin, Zenon
<1>5. PICK m \in T : I = 0..m OBVIOUS
<1>6. ASSUME NEW n \in T, n < m PROVE FALSE
  <2>1. 0..n \in F OBVIOUS
  <2>2. 0..n \subseteq 0..m /\ 0..n # 0..m
    <3>1. m \in 0..m /\ ~ (m \in 0..n) BY <1>6
    <3> QED BY <1>6, <3>1
  <2>3. 0..n \in SUBSET Nat /\ 0..m \in SUBSET Nat OBVIOUS
  <2>4. <<0..n, 0..m>> \in R BY <2>2, <2>3 DEF StrictSubsetOrdering
  <2> QED BY <1>4, <1>5, <2>1, <2>4
<1> QED BY <1>6

\* Induction over the naturals.
LEMMA NatSetInduction ==
  ASSUME NEW T, 0 \in T, \A n \in Nat : n \in T => n + 1 \in T
  PROVE  Nat \subseteq T
<1> SUFFICES ASSUME Nat \ T # {} PROVE FALSE OBVIOUS
<1>1. PICK m \in Nat \ T : \A n \in Nat \ T : m <= n
  BY Least
<1>2. m # 0 OBVIOUS
<1>3. m - 1 \in Nat /\ ~ (m <= m - 1) /\ (m - 1) + 1 = m BY <1>2
<1>4. m - 1 \in T BY <1>1, <1>3
<1> QED BY <1>3, <1>4

-----------------------------------------------------------------------------
\* A function on 0..n that starts with b and goes on as step says.
Unrolled(S, b, step, n) ==
  {g \in [0..n -> S] : g[0] = b /\ \A i \in 0..(n - 1) : g[i + 1] = step[i][g[i]]}

LEMMA UnrolledUnique ==
  ASSUME NEW S, NEW b, NEW step, NEW n \in Nat, NEW m \in Nat, n <= m,
         NEW g \in Unrolled(S, b, step, n), NEW h \in Unrolled(S, b, step, m)
  PROVE  \A i \in 0..n : g[i] = h[i]
<1> DEFINE T == {i \in Nat : i <= n => g[i] = h[i]}
<1>1. 0 \in T BY DEF Unrolled
<1>2. ASSUME NEW i \in Nat, i \in T PROVE i + 1 \in T
  <2> SUFFICES ASSUME i + 1 <= n PROVE g[i + 1] = h[i + 1] OBVIOUS
  <2>1. i \in 0..(n - 1) /\ i \in 0..(m - 1) /\ g[i] = h[i] BY <1>2
  <2> QED BY <2>1 DEF Unrolled
<1> HIDE DEF T
<1>3. Nat \subseteq T BY <1>1, <1>2, NatSetInduction
<1> QED BY <1>3 DEF T

LEMMA UnrolledExists ==
  ASSUME NEW S, NEW b \in S, NEW step \in [Nat -> [S -> S]], NEW n \in Nat
  PROVE  Unrolled(S, b, step, n) # {}
<1> DEFINE T == {k \in Nat : Unrolled(S, b, step, k) # {}}
<1>1. 0 \in T
  <2>1. [i \in 0..0 |-> b] \in Unrolled(S, b, step, 0) BY DEF Unrolled
  <2> QED BY <2>1
<1>2. ASSUME NEW k \in Nat, k \in T PROVE k + 1 \in T
  <2>1. PICK g \in Unrolled(S, b, step, k) : TRUE BY <1>2
  <2> DEFINE h == [i \in 0..(k + 1) |-> IF i <= k THEN g[i] ELSE step[k][g[k]]]
  <2>2. g \in [0..k -> S] /\ k \in 0..k /\ g[0] = b BY <2>1 DEF Unrolled
  <2>3. step[k][g[k]] \in S BY <2>2
  <2>4. h \in [0..(k + 1) -> S]
    <3> SUFFICES ASSUME NEW i \in 0..(k + 1) PROVE h[i] \in S OBVIOUS
    <3>1. CASE i <= k
      <4>1. i \in 0..k BY <3>1
      <4> QED BY <2>2, <3>1, <4>1
    <3>2. CASE ~ i <= k BY <2>3, <3>2
    <3> QED BY <3>1, <3>2
  <2>5. h[0] = b BY <2>2
  <2>6. ASSUME NEW i \in 0..k PROVE h[i + 1] = step[i][h[i]]
    <3>1. h[i] = g[i] /\ i + 1 \in 0..(k + 1) OBVIOUS
    <3>2. CASE i = k BY <3>1, <3>2
    <3>3. CASE i # k
      <4>1. i \in 0..(k - 1) /\ i + 1 <= k BY <3>3
      <4>2. h[i + 1] = g[i + 1] BY <3>1, <4>1
      <4> QED BY <2>1, <3>1, <4>1, <4>2 DEF Unrolled
    <3> QED BY <3>2, <3>3
  <2> HIDE DEF h
  <2>7. h \in Unrolled(S, b, step, k + 1) BY <2>4, <2>5, <2>6 DEF Unrolled
  <2> QED BY <2>7
<1> HIDE DEF T
<1>3. Nat \subseteq T BY <1>1, <1>2, NatSetInduction
<1> QED BY <1>3 DEF T

\* A recursive definition over the naturals has a solution.
Iterates(f, b, step) == f[0] = b /\ \A n \in Nat : f[n + 1] = step[n][f[n]]

LEMMA NatRecursion ==
  ASSUME NEW S, NEW b \in S, NEW step \in [Nat -> [S -> S]]
  PROVE  \E f \in [Nat -> S] : Iterates(f, b, step)
<1> DEFINE G == [n \in Nat |-> CHOOSE g : g \in Unrolled(S, b, step, n)]
           f == [n \in Nat |-> G[n][n]]
<1>1. \A n \in Nat : G[n] \in Unrolled(S, b, step, n) BY UnrolledExists
<1> HIDE DEF G
<1>2. \A n \in Nat : G[n][n] \in S
  <2> TAKE n \in Nat
  <2>1. G[n] \in [0..n -> S] /\ n \in 0..n BY <1>1 DEF Unrolled
  <2> QED BY <2>1
<1>3. f \in [Nat -> S] BY <1>2
<1>4. f[0] = b BY <1>1 DEF Unrolled
<1>5. ASSUME NEW n \in Nat PROVE f[n + 1] = step[n][f[n]]
  <2>1. n + 1 \in Nat /\ n <= n + 1 /\ n \in 0..n /\ n \in 0..((n + 1) - 1) OBVIOUS
  <2>2. G[n + 1][n + 1] = step[n][G[n + 1][n]]
    BY <1>1, <2>1 DEF Unrolled
  <2>3. G[n + 1][n] = G[n][n] BY <1>1, <2>1, UnrolledUnique
  <2> QED BY <2>1, <2>2, <2>3
<1> HIDE DEF f
<1>6. Iterates(f, b, step) BY <1>4, <1>5 DEF Iterates
<1> QED BY <1>3, <1>6

-----------------------------------------------------------------------------
\* Induction over the subsets of a finite set.
LEMMA FiniteSetInduction ==
  ASSUME NEW S, IsFiniteSet(S), NEW F,
         \A T \in SUBSET S : (\A x \in T : T \ {x} \in F) => T \in F
  PROVE  SUBSET S \subseteq F
<1> SUFFICES ASSUME (SUBSET S) \ F # {} PROVE FALSE OBVIOUS
<1> DEFINE B == (SUBSET S) \ F
           R == StrictSubsetOrdering(S)
<1>1. B \subseteq FiniteSubsetsOf(S) BY FS_FiniteSubsetsOfFinite
<1>2. IsWellFoundedOn(R, FiniteSubsetsOf(S)) BY FS_StrictSubsetOrderingWellFounded
<1>3. PICK T \in B : \A U \in B : ~ (<<U, T>> \in R)
  <2> HIDE DEF B, R
  <2>1. B # {} BY DEF B
  <2> QED BY <1>1, <1>2, <2>1, WFMin, Zenon
<1>4. ASSUME NEW x \in T PROVE T \ {x} \in F
  <2>1. T \ {x} \in SUBSET S /\ T \ {x} # T BY <1>4
  <2>2. <<T \ {x}, T>> \in R BY <1>4, <2>1 DEF StrictSubsetOrdering
  <2> QED BY <1>3, <2>1, <2>2
<1> QED BY <1>3, <1>4

-----------------------------------------------------------------------------
\* The element at which the folds of the community modules begin.
First(s) == CHOOSE y \in s : TRUE

LEMMA FirstIn == \A s : s # {} => First(s) \in s
BY DEF First

\* What is left after going through each subset of S, from b on, as g says.
Folds(S, W, b, g) ==
  {iter \in [SUBSET S -> W] :
     \A s \in SUBSET S :
       iter[s] = IF s = {} THEN b ELSE g[First(s)][iter[s \ {First(s)}]]}

\* Going through a finite set, an element at a time in the order of the folds,
\* has an outcome for every subset: a set of n elements is gone through in n steps.
LEMMA FoldExists ==
  ASSUME NEW S, IsFiniteSet(S), NEW W, NEW b \in W, NEW g \in [S -> [W -> W]]
  PROVE  Folds(S, W, b, g) # {}
<1> DEFINE More(h) == [s \in SUBSET S |-> IF s = {} THEN b ELSE g[First(s)][h[s \ {First(s)}]]]
           Outcomes == [SUBSET S -> W]
           none == [s \in SUBSET S |-> b]
           step == [n \in Nat |-> [h \in Outcomes |-> More(h)]]
<1>1. \A s \in SUBSET S : s # {} => First(s) \in s BY FirstIn
<1>2. ASSUME NEW h \in Outcomes PROVE More(h) \in Outcomes
  <2> SUFFICES ASSUME NEW s \in SUBSET S, s # {}
               PROVE  g[First(s)][h[s \ {First(s)}]] \in W
    OBVIOUS
  <2>1. First(s) \in S /\ s \ {First(s)} \in SUBSET S BY <1>1
  <2>2. g[First(s)] \in [W -> W] /\ h[s \ {First(s)}] \in W BY <2>1
  <2> QED BY <2>2
<1>3. none \in Outcomes OBVIOUS
<1> HIDE DEF More, Outcomes, none
<1>4. step \in [Nat -> [Outcomes -> Outcomes]] BY <1>2
<1>5. PICK f \in [Nat -> Outcomes] : Iterates(f, none, step)
  <2> HIDE DEF step
  <2> QED BY <1>3, <1>4, NatRecursion
<1>6. ASSUME NEW n \in Nat PROVE f[n + 1] = More(f[n])
  <2>1. f[n] \in Outcomes /\ f[n + 1] = step[n][f[n]] BY <1>5 DEF Iterates
  <2> QED BY <2>1
<1> HIDE DEF step
<1> DEFINE iter == [s \in SUBSET S |-> f[Cardinality(s)][s]]
<1>7. ASSUME NEW s \in SUBSET S
      PROVE  /\ iter[s] = IF s = {} THEN b ELSE g[First(s)][iter[s \ {First(s)}]]
             /\ iter[s] \in W
  <2>1. IsFiniteSet(s) /\ Cardinality(s) \in Nat BY FS_Subset, FS_CardinalityType
  <2>2. iter[s] \in W
    <3>1. f[Cardinality(s)] \in [SUBSET S -> W] BY <2>1 DEF Outcomes
    <3> QED BY <3>1
  <2>3. CASE s = {}
    <3>1. f[0] = none BY <1>5 DEF Iterates
    <3> QED BY <2>2, <2>3, <3>1, FS_EmptySet DEF none
  <2>4. CASE s # {}
    <3> DEFINE rest == s \ {First(s)}
    <3>1. First(s) \in s /\ rest \in SUBSET S BY <1>1, <2>4
    <3>2. IsFiniteSet(rest) /\ Cardinality(rest) = Cardinality(s) - 1
      BY <2>1, <3>1, FS_RemoveElement
    <3>3. Cardinality(rest) \in Nat BY <3>2, FS_CardinalityType
    <3>4. Cardinality(s) = Cardinality(rest) + 1 BY <2>1, <3>2, <3>3
    <3>5. f[Cardinality(s)] = More(f[Cardinality(rest)]) BY <1>6, <3>3, <3>4
    <3>6. f[Cardinality(s)][s] = g[First(s)][f[Cardinality(rest)][rest]] BY <2>4, <3>5 DEF More
    <3> QED BY <2>2, <2>4, <3>1, <3>6
  <2> QED BY <2>3, <2>4
<1>8. iter \in [SUBSET S -> W] BY <1>7
<1> HIDE DEF iter
<1> QED BY <1>7, <1>8 DEF Folds

-----------------------------------------------------------------------------
\* Sums over a finite set, as the folds of the community modules write them.
Adds(iter, f, S) ==
  iter = [s \in SUBSET S |-> IF s = {} THEN 0
                             ELSE LET x == CHOOSE y \in s : TRUE IN f[x] + iter[s \ {x}]]

Total(f, S) == (CHOOSE iter : Adds(iter, f, S))[S]

LEMMA Summed ==
  ASSUME NEW S, IsFiniteSet(S), NEW f, \A x \in S : f[x] \in Nat
  PROVE  \E iter : Adds(iter, f, S)
<1> DEFINE g == [x \in S |-> [w \in Nat |-> f[x] + w]]
<1>1. g \in [S -> [Nat -> Nat]] OBVIOUS
<1> HIDE DEF g
<1>2. PICK iter : iter \in Folds(S, Nat, 0, g)
  <2>1. 0 \in Nat OBVIOUS
  <2>2. Folds(S, Nat, 0, g) # {} BY <1>1, <2>1, FoldExists
  <2> QED BY <2>2
<1>3. \A s \in SUBSET S : s # {} => First(s) \in S /\ s \ {First(s)} \in SUBSET S
  BY FirstIn
<1>4. ASSUME NEW s \in SUBSET S
      PROVE  iter[s] = IF s = {} THEN 0 ELSE f[First(s)] + iter[s \ {First(s)}]
  BY <1>2, <1>3 DEF Folds, g
<1>5. iter = [s \in SUBSET S |-> IF s = {} THEN 0 ELSE f[First(s)] + iter[s \ {First(s)}]]
  BY <1>2, <1>4 DEF Folds
<1> QED BY <1>5 DEF Adds, First

\* The sum over the classes of a set, of how many elements each class has.
LEMMA TotalOfClasses ==
  ASSUME NEW S, IsFiniteSet(S), NEW A, IsFiniteSet(A), NEW class \in [A -> S],
         NEW f \in [S -> Nat], \A x \in S : f[x] = Cardinality({a \in A : class[a] = x})
  PROVE  Total(f, S) = Cardinality(A)
<1> DEFINE iter == CHOOSE i : Adds(i, f, S)
           Of(T) == {a \in A : class[a] \in T}
           F == {T \in SUBSET S : iter[T] = Cardinality(Of(T))}
<1>1. Adds(iter, f, S) BY Summed
<1>2. \A s \in SUBSET S : s # {} => First(s) \in s BY FirstIn
<1> HIDE DEF iter
<1>3. \A s \in SUBSET S : iter[s] = IF s = {} THEN 0 ELSE f[First(s)] + iter[s \ {First(s)}]
  BY <1>1 DEF Adds, First
<1>4. ASSUME NEW T \in SUBSET S, \A x \in T : T \ {x} \in F PROVE T \in F
  <2>1. CASE T = {}
    <3>1. Of(T) = {} BY <2>1
    <3> QED BY <1>3, <2>1, <3>1, FS_EmptySet
  <2>2. CASE T # {}
    <3> DEFINE x == First(T)
               one == {a \in A : class[a] = x}
               others == Of(T \ {x})
    <3>1. x \in T BY <1>2, <2>2
    <3>2. iter[T] = Cardinality(one) + Cardinality(others) BY <1>3, <1>4, <2>2, <3>1
    <3>3. IsFiniteSet(one) /\ IsFiniteSet(others) BY FS_Subset
    <3>4. one \cup others = Of(T) /\ one \cap others = {} BY <3>1
    <3> HIDE DEF one, others, x, Of
    <3>5. Cardinality(Of(T)) = Cardinality(one) + Cardinality(others) - Cardinality({})
      BY <3>3, <3>4, FS_Union
    <3>6. Cardinality(one) \in Nat /\ Cardinality(others) \in Nat /\ Cardinality({}) = 0
      BY <3>3, FS_CardinalityType, FS_EmptySet
    <3>7. Cardinality(Of(T)) = Cardinality(one) + Cardinality(others) BY <3>5, <3>6
    <3> QED BY <3>2, <3>7
  <2> QED BY <2>1, <2>2
<1> HIDE DEF F
<1>5. SUBSET S \subseteq F BY <1>4, FiniteSetInduction
<1>6. iter[S] = Cardinality(Of(S)) BY <1>5 DEF F
<1>7. Of(S) = A OBVIOUS
<1> QED BY <1>6, <1>7 DEF Total, iter

\* What one needs to know of sums: nothing sums up to 0, and any element may be
\* added last.
Weighs(f, S) == \A x \in S : f[x] \in Nat

SumsUp(f, S) == \A T \in SUBSET S :
                  /\ Total(f, T) \in Nat
                  /\ T = {} => Total(f, T) = 0
                  /\ \A x \in T : Total(f, T) = f[x] + Total(f, T \ {x})

LEMMA TotalSteps ==
  ASSUME NEW S, IsFiniteSet(S), NEW f, Weighs(f, S)
  PROVE  SumsUp(f, S)
<1> DEFINE sum == CHOOSE i : Adds(i, f, S)
<1>1. Adds(sum, f, S) BY Summed DEF Weighs
<1>2. \A s \in SUBSET S : s # {} => First(s) \in s BY FirstIn
<1> HIDE DEF sum
<1>3. \A s \in SUBSET S : sum[s] = IF s = {} THEN 0 ELSE f[First(s)] + sum[s \ {First(s)}]
  BY <1>1 DEF Adds, First
<1>4. \A T \in SUBSET S : sum[T] \in Nat
  <2> DEFINE F == {T \in SUBSET S : sum[T] \in Nat}
  <2>1. ASSUME NEW T \in SUBSET S, \A x \in T : T \ {x} \in F PROVE T \in F
    <3>1. CASE T = {}
      <4>1. sum[T] = 0 BY <1>3, <3>1
      <4> QED BY <4>1
    <3>2. CASE T # {}
      <4>1. PICK y : y = First(T) OBVIOUS
      <4>2. y \in T /\ sum[T] = f[y] + sum[T \ {y}] BY <1>2, <1>3, <3>2, <4>1
      <4>3. sum[T \ {y}] \in Nat /\ f[y] \in Nat BY <2>1, <4>2 DEF Weighs
      <4>4. sum[T] \in Nat BY <4>2, <4>3
      <4> QED BY <4>4
    <3> QED BY <3>1, <3>2
  <2> HIDE DEF F
  <2>2. SUBSET S \subseteq F BY <2>1, FiniteSetInduction
  <2> QED BY <2>2 DEF F
<1>5. \A T \in SUBSET S : \A x \in T : sum[T] = f[x] + sum[T \ {x}]
  <2> DEFINE F == {T \in SUBSET S : \A x \in T : sum[T] = f[x] + sum[T \ {x}]}
  <2>1. ASSUME NEW T \in SUBSET S, \A x \in T : T \ {x} \in F PROVE T \in F
    <3> SUFFICES ASSUME NEW x \in T PROVE sum[T] = f[x] + sum[T \ {x}] OBVIOUS
    <3>1. PICK y : y = First(T) OBVIOUS
    <3>2. y \in T /\ sum[T] = f[y] + sum[T \ {y}] BY <1>2, <1>3, <3>1
    <3>3. CASE x = y BY <3>2, <3>3
    <3>4. CASE x # y
      <4>1. sum[T \ {y}] = f[x] + sum[(T \ {y}) \ {x}] BY <2>1, <3>2, <3>4
      <4>2. sum[T \ {x}] = f[y] + sum[(T \ {x}) \ {y}] BY <2>1, <3>2, <3>4
      <4>3. (T \ {y}) \ {x} = (T \ {x}) \ {y} OBVIOUS
      <4>4. (T \ {x}) \ {y} \in SUBSET S /\ f[x] \in Nat /\ f[y] \in Nat BY <3>2 DEF Weighs
      <4>5. PICK rest \in Nat : rest = sum[(T \ {x}) \ {y}] BY <1>4, <4>4
      <4>6. sum[T \ {y}] = f[x] + rest /\ sum[T \ {x}] = f[y] + rest
        BY <4>1, <4>2, <4>3, <4>5
      <4> QED BY <3>2, <4>4, <4>6
    <3> QED BY <3>3, <3>4
  <2> HIDE DEF F
  <2>2. SUBSET S \subseteq F BY <2>1, FiniteSetInduction
  <2> QED BY <2>2 DEF F
\* The sum over a subset, by itself, is the same.
<1>6. ASSUME NEW T \in SUBSET S PROVE Total(f, T) = sum[T]
  <2> DEFINE own == CHOOSE i : Adds(i, f, T)
             F == {U \in SUBSET T : own[U] = sum[U]}
  <2>1. IsFiniteSet(T) BY FS_Subset
  <2>2. Adds(own, f, T) BY <2>1, Summed DEF Weighs
  <2> HIDE DEF own
  <2>3. \A s \in SUBSET T : own[s] = IF s = {} THEN 0 ELSE f[First(s)] + own[s \ {First(s)}]
    BY <2>2 DEF Adds, First
  <2>4. ASSUME NEW U \in SUBSET T, \A x \in U : U \ {x} \in F PROVE U \in F
    <3>0. U \in SUBSET S OBVIOUS
    <3>1. CASE U = {} BY <1>3, <2>3, <3>0, <3>1
    <3>2. CASE U # {}
      <4>1. First(U) \in U BY <1>2, <3>0, <3>2
      <4>2. own[U \ {First(U)}] = sum[U \ {First(U)}] BY <2>4, <4>1
      <4> QED BY <1>3, <2>3, <3>0, <3>2, <4>2
    <3> QED BY <3>1, <3>2
  <2> HIDE DEF F
  <2>5. SUBSET T \subseteq F BY <2>1, <2>4, FiniteSetInduction
  <2>6. own[T] = sum[T] BY <2>5 DEF F
  <2> QED BY <2>6 DEF Total, own
<1> QED BY <1>3, <1>4, <1>5, <1>6 DEF SumsUp

LEMMA TotalSame ==
  ASSUME NEW S, IsFiniteSet(S), NEW f, Weighs(f, S), NEW g, \A x \in S : g[x] = f[x]
  PROVE  Total(f, S) = Total(g, S)
<1>a. SumsUp(f, S) /\ SumsUp(g, S)
  <2>1. Weighs(g, S) BY DEF Weighs
  <2> QED BY <2>1, TotalSteps
<1> DEFINE F == {T \in SUBSET S : Total(f, T) = Total(g, T)}
<1>1. ASSUME NEW T \in SUBSET S, \A x \in T : T \ {x} \in F PROVE T \in F
  <2>1. T = {} => Total(f, T) = 0 /\ Total(g, T) = 0 BY <1>a DEF SumsUp
  <2>2. \A x \in T : /\ Total(f, T) = f[x] + Total(f, T \ {x})
                      /\ Total(g, T) = g[x] + Total(g, T \ {x})
    BY <1>a DEF SumsUp
  <2> QED BY <1>1, <2>1, <2>2
<1> HIDE DEF F
<1>2. SUBSET S \subseteq F BY <1>1, FiniteSetInduction
<1> QED BY <1>2 DEF F

LEMMA TotalUnion ==
  ASSUME NEW S, IsFiniteSet(S), NEW f, Weighs(f, S),
         NEW U \in SUBSET S, NEW V \in SUBSET S, U \cap V = {}
  PROVE  Total(f, U \cup V) = Total(f, U) + Total(f, V)
<1>a. SumsUp(f, S) BY TotalSteps
<1> DEFINE F == {T \in SUBSET S : T \subseteq U =>
                                    Total(f, T \cup V) = Total(f, T) + Total(f, V)}
<1>1. ASSUME NEW T \in SUBSET S, \A x \in T : T \ {x} \in F PROVE T \in F
  <2> SUFFICES ASSUME T \subseteq U PROVE Total(f, T \cup V) = Total(f, T) + Total(f, V)
    OBVIOUS
  <2>1. Total(f, V) \in Nat BY <1>a DEF SumsUp
  <2>2. CASE T = {}
    <3>1. Total(f, T) = 0 /\ T \cup V = V BY <1>a, <2>2 DEF SumsUp
    <3> QED BY <2>1, <3>1
  <2>3. CASE T # {}
    <3>1. PICK x \in T : TRUE BY <2>3
    <3>2. (T \cup V) \ {x} = (T \ {x}) \cup V BY <3>1
    <3>3. T \cup V \in SUBSET S /\ x \in T \cup V /\ T \ {x} \in SUBSET S /\ f[x] \in Nat
      BY <3>1 DEF Weighs
    <3>4. /\ Total(f, T) = f[x] + Total(f, T \ {x}) /\ Total(f, T \ {x}) \in Nat
          /\ Total(f, T \cup V) = f[x] + Total(f, (T \cup V) \ {x})
      BY <1>a, <3>1, <3>3 DEF SumsUp
    <3>5. Total(f, (T \ {x}) \cup V) = Total(f, T \ {x}) + Total(f, V) BY <1>1, <3>1
    <3>6. PICK v \in Nat, rest \in Nat : v = Total(f, V) /\ rest = Total(f, T \ {x})
      BY <2>1, <3>4
    <3>7. Total(f, T \cup V) = f[x] + (rest + v) BY <3>2, <3>4, <3>5, <3>6
    <3>8. Total(f, T) + Total(f, V) = (f[x] + rest) + v BY <3>4, <3>6
    <3> QED BY <3>3, <3>6, <3>7, <3>8
  <2> QED BY <2>2, <2>3
<1> HIDE DEF F
<1>2. SUBSET S \subseteq F BY <1>1, FiniteSetInduction
<1> QED BY <1>2 DEF F

\* The sum over the classes of a set, of the sum over each class.
LEMMA TotalOfTotals ==
  ASSUME NEW S, IsFiniteSet(S), NEW A, IsFiniteSet(A), NEW class \in [A -> S],
         NEW w, Weighs(w, A),
         NEW f, \A x \in S : f[x] = Total(w, {a \in A : class[a] = x})
  PROVE  Total(f, S) = Total(w, A)
<1> DEFINE Of(T) == {a \in A : class[a] \in T}
           F == {T \in SUBSET S : Total(f, T) = Total(w, Of(T))}
<1>a. SumsUp(w, A) BY TotalSteps
<1>1. \A x \in S : f[x] \in Nat
  <2>1. \A x \in S : {a \in A : class[a] = x} \in SUBSET A OBVIOUS
  <2> QED BY <1>a, <2>1 DEF SumsUp
<1>b. SumsUp(f, S)
  <2>1. Weighs(f, S) BY <1>1 DEF Weighs
  <2> QED BY <2>1, TotalSteps
<1>2. ASSUME NEW T \in SUBSET S, \A x \in T : T \ {x} \in F PROVE T \in F
  <2>1. CASE T = {}
    <3>1. Of(T) = {} /\ {} \in SUBSET A BY <2>1
    <3>2. Total(f, T) = 0 BY <1>b, <2>1 DEF SumsUp
    <3>3. Total(w, Of(T)) = 0 BY <1>a, <3>1 DEF SumsUp
    <3> QED BY <3>2, <3>3
  <2>2. CASE T # {}
    <3>1. PICK x \in T : TRUE BY <2>2
    <3> DEFINE one == {a \in A : class[a] = x}
               others == Of(T \ {x})
    <3>2. Total(f, T) = f[x] + Total(f, T \ {x}) BY <1>b, <3>1 DEF SumsUp
    <3>3. f[x] = Total(w, one) /\ Total(f, T \ {x}) = Total(w, others) BY <1>2, <3>1
    <3>4. /\ one \cup others = Of(T) /\ one \cap others = {}
          /\ one \in SUBSET A /\ others \in SUBSET A
      BY <3>1
    <3> HIDE DEF one, others, Of, F
    <3>5. Total(w, Of(T)) = Total(w, one) + Total(w, others) BY <3>4, TotalUnion
    <3>6. Total(f, T) = Total(w, Of(T)) BY <3>2, <3>3, <3>5
    <3> QED BY <3>6 DEF F
  <2> QED BY <2>1, <2>2
<1> HIDE DEF F
<1>3. SUBSET S \subseteq F BY <1>2, FiniteSetInduction
<1>4. Of(S) = A OBVIOUS
<1> QED BY <1>3, <1>4 DEF F
=============================================================================
