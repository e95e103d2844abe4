-------------------------------- MODULE Sums --------------------------------
(***************************************************************************)
(* What the proofs about money need to know of Sum (Totals).  A fold takes *)
(* the elements in the order CHOOSE picks them; the lemmas say that the    *)
(* order does not matter and how a sum follows its summands.               *)
(*                                                                         *)
(* The induction theorems of the library take an operator as a parameter,  *)
(* so each induction over subsets is a proof by smallest counterexample:   *)
(* a non-empty family of finite sets has a member no other is part of.     *)
(* In the same way a set of numbers is seen to have a least one.           *)
(***************************************************************************)
EXTENDS Totals, FiniteSetTheorems, WellFoundedInduction, TLAPS

AnyOf(s) == CHOOSE x \in s : TRUE

\* The table of partial sums that the fold defines Sum by.
IsTable(g, f, S) ==
  g = [s \in SUBSET S |-> IF s = {} THEN 0 ELSE f[AnyOf(s)] + g[s \ {AnyOf(s)}]]

\* A non-empty family of subsets of a finite set has a smallest member.
LEMMA SmallestSubset ==
  ASSUME NEW S, IsFiniteSet(S), NEW B, B \subseteq SUBSET S, B # {}
  PROVE  \E U \in B : \A V \in SUBSET U : V # U => V \notin B
<1>1. SUBSET S = FiniteSubsetsOf(S)
  BY FS_FiniteSubsetsOfFinite
<1>2. IsWellFoundedOn(StrictSubsetOrdering(S), FiniteSubsetsOf(S))
  BY FS_StrictSubsetOrderingWellFounded
<1>3. PICK U \in B : \A V \in B : ~(<<V, U>> \in StrictSubsetOrdering(S))
  <2>1. B \subseteq FiniteSubsetsOf(S)
    BY <1>1
  <2> QED BY <1>2, <2>1, WFMin
<1>4. \A V \in SUBSET U : V # U => V \notin B
  BY <1>3 DEF StrictSubsetOrdering
<1> QED BY <1>4

\* Sum is read off the table, whatever table there is.
LEMMA SumIsTable ==
  ASSUME NEW f, NEW S, NEW h, IsTable(h, f, S)
  PROVE  \E g : IsTable(g, f, S) /\ Sum(f, S) = g[S]
<1>1. Sum(f, S) = (CHOOSE g : IsTable(g, f, S))[S]
  BY DEF Sum, MapThenSumSet, MapThenFoldSet, IsTable, AnyOf
<1> QED BY <1>1

\* A row of the table.
LEMMA TableRow ==
  ASSUME NEW f, NEW S, NEW g, IsTable(g, f, S)
  PROVE  \A T \in SUBSET S :
           g[T] = IF T = {} THEN 0 ELSE f[AnyOf(T)] + g[T \ {AnyOf(T)}]
BY DEF IsTable

\* Two tables agree on a finite set over which their functions agree.
LEMMA TablesAgree ==
  ASSUME NEW f, NEW e, NEW S, NEW R, NEW g, NEW h, IsTable(g, f, S), IsTable(h, e, R),
         NEW T, IsFiniteSet(T), T \subseteq S, T \subseteq R, \A x \in T : f[x] = e[x]
  PROVE  g[T] = h[T]
<1> DEFINE B == {U \in SUBSET T : g[U] # h[U]}
<1>1. SUFFICES ASSUME B # {} PROVE FALSE
  OBVIOUS
<1>2. PICK U \in B : \A V \in SUBSET U : V # U => V \notin B
  <2>1. B \subseteq SUBSET T
    OBVIOUS
  <2> HIDE DEF B
  <2> QED BY <1>1, <2>1, SmallestSubset
<1>3. /\ g[U] = IF U = {} THEN 0 ELSE f[AnyOf(U)] + g[U \ {AnyOf(U)}]
      /\ h[U] = IF U = {} THEN 0 ELSE e[AnyOf(U)] + h[U \ {AnyOf(U)}]
  <2>1. \A V \in SUBSET S : g[V] = IF V = {} THEN 0 ELSE f[AnyOf(V)] + g[V \ {AnyOf(V)}]
    BY DEF IsTable
  <2>2. \A V \in SUBSET R : h[V] = IF V = {} THEN 0 ELSE e[AnyOf(V)] + h[V \ {AnyOf(V)}]
    BY DEF IsTable
  <2>3. U \in SUBSET S /\ U \in SUBSET R
    OBVIOUS
  <2> QED BY <2>1, <2>2, <2>3
<1>4. AnyOf(U) \in U
  BY <1>2, <1>3 DEF AnyOf
<1>5. g[U \ {AnyOf(U)}] = h[U \ {AnyOf(U)}]
  BY <1>2, <1>4
<1>6. f[AnyOf(U)] = e[AnyOf(U)]
  BY <1>4
<1> QED BY <1>2, <1>3, <1>4, <1>5, <1>6

\* One step of the fold, where the tables of the set and of the rest exist.
LEMMA SumUnfold ==
  ASSUME NEW f, NEW S, IsFiniteSet(S), S # {}, NEW g, IsTable(g, f, S),
         NEW h, IsTable(h, f, S \ {AnyOf(S)})
  PROVE  Sum(f, S) = f[AnyOf(S)] + Sum(f, S \ {AnyOf(S)})
<1> DEFINE R == S \ {AnyOf(S)}
<1>1. PICK k : IsTable(k, f, S) /\ Sum(f, S) = k[S]
  BY SumIsTable
<1>2. PICK l : IsTable(l, f, R) /\ Sum(f, R) = l[R]
  BY SumIsTable
<1>3. k[S] = f[AnyOf(S)] + k[R]
  BY <1>1, TableRow
<1>4. IsFiniteSet(R)
  BY FS_Subset
<1>5. k[R] = l[R]
  BY <1>1, <1>2, <1>4, TablesAgree
<1> QED BY <1>1, <1>2, <1>3, <1>5

\* The fold of nothing has its table, too.
LEMMA EmptyTable ==
  ASSUME NEW f
  PROVE  \E g : IsTable(g, f, {})
<1> DEFINE g == [s \in SUBSET {} |-> 0]
<1>1. IsTable(g, f, {})
  BY DEF IsTable
<1> QED BY <1>1

\* The sum of nothing is zero.
LEMMA EmptySum ==
  ASSUME NEW f
  PROVE  Sum(f, {}) = 0
<1>1. PICK g : IsTable(g, f, {}) /\ Sum(f, {}) = g[{}]
  BY EmptyTable, SumIsTable
<1> QED BY <1>1, TableRow

\* Every finite set has its table of partial sums.
LEMMA TableExists ==
  ASSUME NEW f, NEW S, IsFiniteSet(S)
  PROVE  \E g : IsTable(g, f, S)
<1> DEFINE B == {U \in SUBSET S : ~\E g : IsTable(g, f, U)}
<1>1. SUFFICES ASSUME B # {} PROVE FALSE
  OBVIOUS
<1>2. PICK T \in B : \A V \in SUBSET T : V # T => V \notin B
  <2>1. B \subseteq SUBSET S
    OBVIOUS
  <2> HIDE DEF B
  <2> QED BY <1>1, <2>1, SmallestSubset
<1>3. \A V \in SUBSET T : V # T => \E g : IsTable(g, f, V)
  BY <1>2
<1> DEFINE H == [s \in SUBSET T |-> IF s = {} THEN 0
                                    ELSE f[AnyOf(s)] + Sum(f, s \ {AnyOf(s)})]
<1>4. ASSUME NEW s \in SUBSET T, s # {}
      PROVE  H[s \ {AnyOf(s)}] = Sum(f, s \ {AnyOf(s)})
  <2> DEFINE V == s \ {AnyOf(s)}
  <2>1. AnyOf(s) \in s
    BY <1>4 DEF AnyOf
  <2>2. V \in SUBSET T /\ V # T
    BY <2>1
  <2>3. CASE V = {}
    BY <2>2, <2>3, EmptySum
  <2>4. CASE V # {}
    <3>1. IsFiniteSet(V)
      BY FS_Subset
    <3>2. V \ {AnyOf(V)} \in SUBSET T /\ V \ {AnyOf(V)} # T
      BY <2>2
    <3>3. Sum(f, V) = f[AnyOf(V)] + Sum(f, V \ {AnyOf(V)})
      BY <1>3, <2>2, <2>4, <3>1, <3>2, SumUnfold
    <3> QED BY <2>2, <2>4, <3>3
  <2> QED BY <2>3, <2>4
<1>5. IsTable(H, f, T)
  <2>1. \A s \in SUBSET T :
          (IF s = {} THEN 0 ELSE f[AnyOf(s)] + Sum(f, s \ {AnyOf(s)}))
            = (IF s = {} THEN 0 ELSE f[AnyOf(s)] + H[s \ {AnyOf(s)}])
    BY <1>4
  <2>2. H = [s \in SUBSET T |-> IF s = {} THEN 0 ELSE f[AnyOf(s)] + H[s \ {AnyOf(s)}]]
    BY <2>1
  <2> HIDE DEF H
  <2> QED BY <2>2 DEF IsTable
<1> HIDE DEF H
<1> QED BY <1>2, <1>5

\* The sum of a set that is not empty: the first element's value and the rest.
LEMMA SumAny ==
  ASSUME NEW f, NEW S, IsFiniteSet(S), S # {}
  PROVE  AnyOf(S) \in S /\ Sum(f, S) = f[AnyOf(S)] + Sum(f, S \ {AnyOf(S)})
<1>1. AnyOf(S) \in S
  BY DEF AnyOf
<1>2. IsFiniteSet(S \ {AnyOf(S)})
  BY FS_Subset
<1> QED BY <1>1, <1>2, TableExists, SumUnfold

\* Functions that agree on a finite set have the same sum over it.
LEMMA SumSame ==
  ASSUME NEW f, NEW e, NEW S, IsFiniteSet(S), \A x \in S : f[x] = e[x]
  PROVE  Sum(f, S) = Sum(e, S)
<1>1. PICK g : IsTable(g, f, S) /\ Sum(f, S) = g[S]
  BY TableExists, SumIsTable
<1>2. PICK h : IsTable(h, e, S) /\ Sum(e, S) = h[S]
  BY TableExists, SumIsTable
<1> QED BY <1>1, <1>2, TablesAgree

\* A sum of integers is an integer.
LEMMA SumInt ==
  ASSUME NEW f, NEW S, IsFiniteSet(S), \A x \in S : f[x] \in Int
  PROVE  Sum(f, S) \in Int
<1> DEFINE B == {U \in SUBSET S : Sum(f, U) \notin Int}
<1>1. SUFFICES ASSUME B # {} PROVE FALSE
  OBVIOUS
<1>2. PICK U \in B : \A V \in SUBSET U : V # U => V \notin B
  <2>1. B \subseteq SUBSET S
    OBVIOUS
  <2> HIDE DEF B
  <2> QED BY <1>1, <2>1, SmallestSubset
<1>3. U # {} /\ IsFiniteSet(U)
  <2>1. U \subseteq S
    OBVIOUS
  <2>2. IsFiniteSet(U)
    BY <2>1, FS_Subset
  <2>3. {} \notin B
    BY EmptySum
  <2> QED BY <2>2, <2>3
<1>4. AnyOf(U) \in U /\ Sum(f, U) = f[AnyOf(U)] + Sum(f, U \ {AnyOf(U)})
  BY <1>3, SumAny
<1>5. Sum(f, U \ {AnyOf(U)}) \in Int
  BY <1>2, <1>4
<1> QED BY <1>2, <1>4, <1>5

\* Any element may be taken out first: the order of the fold does not matter.
LEMMA SumRemove ==
  ASSUME NEW f, NEW S, IsFiniteSet(S), \A x \in S : f[x] \in Int, NEW a \in S
  PROVE  Sum(f, S) = f[a] + Sum(f, S \ {a})
<1> DEFINE B == {U \in SUBSET S : \E x \in U : Sum(f, U) # f[x] + Sum(f, U \ {x})}
<1>1. SUFFICES ASSUME B # {} PROVE FALSE
  OBVIOUS
<1>2. PICK U \in B : \A V \in SUBSET U : V # U => V \notin B
  <2>1. B \subseteq SUBSET S
    OBVIOUS
  <2> HIDE DEF B
  <2> QED BY <1>1, <2>1, SmallestSubset
<1>3. PICK x \in U : Sum(f, U) # f[x] + Sum(f, U \ {x})
  BY <1>2
<1> DEFINE c == AnyOf(U)
           W == (U \ {c}) \ {x}
<1>4. IsFiniteSet(U) /\ IsFiniteSet(W)
  BY FS_Subset
<1>5. c \in U /\ Sum(f, U) = f[c] + Sum(f, U \ {c})
  BY <1>4, SumAny
<1> HIDE DEF c
<1>6. c # x
  BY <1>3, <1>5
<1>7. Sum(f, U \ {c}) = f[x] + Sum(f, W)
  <2>1. U \ {c} \notin B
    BY <1>2, <1>5
  <2> QED BY <2>1, <1>6
<1>8. Sum(f, U \ {x}) = f[c] + Sum(f, W)
  <2>1. U \ {x} \notin B
    BY <1>2, <1>3
  <2>2. (U \ {x}) \ {c} = W
    OBVIOUS
  <2> QED BY <2>1, <2>2, <1>5, <1>6
<1>9. f[c] \in Int /\ f[x] \in Int /\ Sum(f, W) \in Int
  BY <1>4, <1>5, SumInt
<1> QED BY <1>3, <1>5, <1>7, <1>8, <1>9

\* Changing the value of one element changes the sum by the difference.
LEMMA SumChange ==
  ASSUME NEW f, NEW e, NEW S, IsFiniteSet(S), NEW a \in S,
         \A x \in S : f[x] \in Int /\ e[x] \in Int,
         \A x \in S : x # a => f[x] = e[x]
  PROVE  Sum(e, S) = Sum(f, S) - f[a] + e[a]
<1>1. Sum(f, S) = f[a] + Sum(f, S \ {a}) /\ Sum(e, S) = e[a] + Sum(e, S \ {a})
  BY SumRemove
<1>2. IsFiniteSet(S \ {a})
  BY FS_Subset
<1>3. Sum(f, S \ {a}) = Sum(e, S \ {a}) /\ Sum(f, S \ {a}) \in Int
  BY <1>2, SumSame, SumInt
<1> QED BY <1>1, <1>3

\* Larger summands, larger sum.
LEMMA SumMonotone ==
  ASSUME NEW f, NEW e, NEW S, IsFiniteSet(S),
         \A x \in S : f[x] \in Int /\ e[x] \in Int /\ f[x] <= e[x]
  PROVE  Sum(f, S) <= Sum(e, S)
<1> DEFINE B == {U \in SUBSET S : ~(Sum(f, U) <= Sum(e, U))}
<1>1. SUFFICES ASSUME B # {} PROVE FALSE
  OBVIOUS
<1>2. PICK U \in B : \A V \in SUBSET U : V # U => V \notin B
  <2>1. B \subseteq SUBSET S
    OBVIOUS
  <2> HIDE DEF B
  <2> QED BY <1>1, <2>1, SmallestSubset
<1>3. U # {} /\ IsFiniteSet(U)
  <2>1. U \subseteq S
    OBVIOUS
  <2>2. IsFiniteSet(U)
    BY <2>1, FS_Subset
  <2>3. {} \notin B
    BY EmptySum
  <2> QED BY <2>2, <2>3
<1>4. /\ AnyOf(U) \in U
      /\ Sum(f, U) = f[AnyOf(U)] + Sum(f, U \ {AnyOf(U)})
      /\ Sum(e, U) = e[AnyOf(U)] + Sum(e, U \ {AnyOf(U)})
  BY <1>3, SumAny
<1>5. Sum(f, U \ {AnyOf(U)}) <= Sum(e, U \ {AnyOf(U)})
  BY <1>2, <1>4
<1>6. Sum(f, U \ {AnyOf(U)}) \in Int /\ Sum(e, U \ {AnyOf(U)}) \in Int
  <2>1. IsFiniteSet(U \ {AnyOf(U)})
    BY <1>3, FS_Subset
  <2> QED BY <2>1, SumInt
<1> QED BY <1>2, <1>4, <1>5, <1>6

\* Nothing but zeros sums to zero.
LEMMA SumZero ==
  ASSUME NEW f, NEW S, IsFiniteSet(S), \A x \in S : f[x] = 0
  PROVE  Sum(f, S) = 0
<1> DEFINE B == {U \in SUBSET S : Sum(f, U) # 0}
<1>1. SUFFICES ASSUME B # {} PROVE FALSE
  OBVIOUS
<1>2. PICK U \in B : \A V \in SUBSET U : V # U => V \notin B
  <2>1. B \subseteq SUBSET S
    OBVIOUS
  <2> HIDE DEF B
  <2> QED BY <1>1, <2>1, SmallestSubset
<1>3. U # {} /\ IsFiniteSet(U)
  <2>1. U \subseteq S
    OBVIOUS
  <2>2. IsFiniteSet(U)
    BY <2>1, FS_Subset
  <2>3. {} \notin B
    BY EmptySum
  <2> QED BY <2>2, <2>3
<1>4. AnyOf(U) \in U /\ Sum(f, U) = f[AnyOf(U)] + Sum(f, U \ {AnyOf(U)})
  BY <1>3, SumAny
<1>5. Sum(f, U \ {AnyOf(U)}) = 0
  BY <1>2, <1>4
<1> QED BY <1>2, <1>4, <1>5

-----------------------------------------------------------------------------
\* A set of numbers that is not empty has a least one: the intervals from zero to
\* its elements are finite sets, and strict inclusion of those is well founded.
LEMMA LeastNumber ==
  ASSUME NEW S \in SUBSET Nat, S # {}
  PROVE  \E m \in S : \A y \in S : m <= y
<1> DEFINE Below == {0..x : x \in S}
           R == StrictSubsetOrdering(Nat)
<1>1. Below \subseteq FiniteSubsetsOf(Nat) /\ Below # {}
  <2>1. \A x \in S : IsFiniteSet(0..x) /\ 0..x \in SUBSET Nat
    BY FS_Interval
  <2> QED BY <2>1 DEF FiniteSubsetsOf
<1>2. PICK T \in Below : \A U \in Below : ~(<<U, T>> \in R)
  <2> HIDE DEF Below, R
  <2>1. IsWellFoundedOn(R, FiniteSubsetsOf(Nat))
    BY FS_StrictSubsetOrderingWellFounded DEF R
  <2> QED BY <1>1, <2>1, WFMin
<1>3. PICK m \in S : T = 0..m
  BY <1>2
<1>4. \A y \in S : m <= y
  <2>1. ASSUME NEW y \in S, y < m PROVE FALSE
    <3>1. 0..y \in Below /\ 0..y \subseteq 0..m /\ m \in 0..m /\ m \notin 0..y
      BY <2>1
    <3>2. <<0..y, 0..m>> \in R
      BY <3>1, <2>1 DEF StrictSubsetOrdering
    <3> QED BY <3>1, <3>2, <1>2, <1>3
  <2> QED BY <2>1
<1> QED BY <1>4

\* A set of numbers up to N that is not empty has a greatest one: the least of N - x.
LEMMA GreatestNumber ==
  ASSUME NEW N \in Nat, NEW S \in SUBSET (0..N), S # {}
  PROVE  \E m \in S : \A y \in S : y <= m
<1> DEFINE Away == {N - x : x \in S}
<1>1. Away \subseteq Nat /\ Away # {}
  OBVIOUS
<1>2. PICK a \in Away : \A b \in Away : a <= b
  <2> HIDE DEF Away
  <2> QED BY <1>1, LeastNumber
<1>3. PICK m \in S : a = N - m
  BY <1>2
<1>4. ASSUME NEW y \in S PROVE y <= m
  <2>1. N - m <= N - y
    BY <1>2, <1>3
  <2> QED BY <2>1
<1> QED BY <1>4
=============================================================================
