------------------------------ MODULE FiniteSums ------------------------------
(***************************************************************************)
(* Sums over finite sets, as Functions!SumFunctionOnSet defines them: the  *)
(* recursive function behind it exists and is unique, and a sum changes by *)
(* what one of its terms changes by.  Each fact about all finite sets is   *)
(* proved by looking at a smallest set it would not hold of.               *)
(***************************************************************************)
EXTENDS Integers, FiniteSets, Functions, FiniteSetTheorems,
        WellFoundedInduction, TLAPS

Pick(s) == CHOOSE x \in s : TRUE

\* it gives the sum of every subset of T.
Sums(f, T, it) ==
  it = [s \in SUBSET T |-> IF s = {} THEN 0 ELSE f[Pick(s)] + it[s \ {Pick(s)}]]

SumOver(f, T) == (CHOOSE it : Sums(f, T, it))[T]

LEMMA SumOverIsLibrarys ==
  ASSUME NEW f, NEW T
  PROVE  SumFunctionOnSet(f, T) = SumOver(f, T)
BY DEF SumFunctionOnSet, FoldFunctionOnSet, MapThenFoldSet, SumOver, Sums, Pick

\* Of some finite sets, one has no proper subset among them.
LEMMA SmallestSet ==
  ASSUME NEW F, F # {}, \A T \in F : IsFiniteSet(T)
  PROVE  \E T \in F : \A U \in F : U \subseteq T => U = T
<1> DEFINE S == UNION F
<1>1. F \subseteq FiniteSubsetsOf(S)
  BY DEF FiniteSubsetsOf
<1>2. PICK T \in F : \A U \in F : ~(<<U, T>> \in StrictSubsetOrdering(S))
  BY <1>1, FS_StrictSubsetOrderingWellFounded, WFMin
<1> QED BY <1>1, <1>2 DEF StrictSubsetOrdering, FiniteSubsetsOf

LEMMA PickIsIn == ASSUME NEW s, s # {} PROVE Pick(s) \in s
BY DEF Pick

\* Two such functions agree wherever both are defined.
LEMMA SumsAgree ==
  ASSUME NEW f, NEW T, NEW U, NEW it, NEW jt, IsFiniteSet(T),
         Sums(f, T, it), Sums(f, U, jt),
         NEW s \in (SUBSET T) \cap (SUBSET U)
  PROVE  it[s] = jt[s]
<1> DEFINE F == {r \in (SUBSET T) \cap (SUBSET U) : it[r] # jt[r]}
<1> SUFFICES ASSUME F # {} PROVE FALSE
  OBVIOUS
<1>1. \A r \in F : IsFiniteSet(r)
  BY FS_Subset
<1>2. PICK r \in F : \A u \in F : u \subseteq r => u = r
  <2> HIDE DEF F
  <2> QED BY <1>1, SmallestSet
<1>3. r \in SUBSET T /\ r \in SUBSET U /\ it[r] # jt[r]
  OBVIOUS
<1>4. /\ it[r] = IF r = {} THEN 0 ELSE f[Pick(r)] + it[r \ {Pick(r)}]
      /\ jt[r] = IF r = {} THEN 0 ELSE f[Pick(r)] + jt[r \ {Pick(r)}]
  BY <1>3 DEF Sums
<1>5. r # {}
  BY <1>3, <1>4
<1>6. Pick(r) \in r
  BY <1>5, PickIsIn
<1>7. it[r \ {Pick(r)}] = jt[r \ {Pick(r)}]
  BY <1>2, <1>3, <1>6
<1> QED BY <1>3, <1>4, <1>5, <1>7

\* Every finite set has such a function.
LEMMA SumsExist ==
  ASSUME NEW f, NEW S, IsFiniteSet(S)
  PROVE  \E it : Sums(f, S, it)
<1> DEFINE F == {T \in SUBSET S : ~\E it : Sums(f, T, it)}
<1> SUFFICES ASSUME F # {} PROVE FALSE
  OBVIOUS
<1>1. \A T \in F : IsFiniteSet(T)
  BY FS_Subset
<1>2. PICK T \in F : \A U \in F : U \subseteq T => U = T
  <2> HIDE DEF F
  <2> QED BY <1>1, SmallestSet
<1>3. T \in SUBSET S /\ IsFiniteSet(T) /\ ~\E it : Sums(f, T, it)
  BY <1>1
<1>4. ASSUME NEW U \in SUBSET T, U # T
      PROVE  IsFiniteSet(U) /\ \E it : Sums(f, U, it)
  BY <1>2, <1>3, <1>4, FS_Subset
<1> DEFINE F1(U) == CHOOSE it : Sums(f, U, it)
           Val(s) == IF s = {} THEN 0 ELSE f[Pick(s)] + F1(s \ {Pick(s)})[s \ {Pick(s)}]
           new == [s \in SUBSET T |-> Val(s)]
<1>5. ASSUME NEW U \in SUBSET T, U # T PROVE IsFiniteSet(U) /\ Sums(f, U, F1(U))
  BY <1>4, <1>5
<1>6. ASSUME NEW U \in SUBSET T, U # T PROVE F1(U)[U] = Val(U)
  <2>1. F1(U)[U] = IF U = {} THEN 0 ELSE f[Pick(U)] + F1(U)[U \ {Pick(U)}]
    <3> HIDE DEF F1
    <3> QED BY <1>5, <1>6 DEF Sums
  <2>2. CASE U = {}
    BY <2>1, <2>2
  <2>3. CASE U # {}
    <3> DEFINE V == U \ {Pick(U)}
    <3>1. V \in SUBSET T /\ V # T /\ V \in SUBSET U
      BY <2>3, PickIsIn
    <3>2. F1(U)[V] = F1(V)[V]
      <4>1. Sums(f, U, F1(U)) /\ Sums(f, V, F1(V)) /\ IsFiniteSet(U)
        <5> HIDE DEF F1, V
        <5> QED BY <3>1, <1>5, <1>6
      <4>2. V \in (SUBSET U) \cap (SUBSET V)
        BY <3>1
      <4> HIDE DEF F1, V
      <4> QED BY <4>1, <4>2, SumsAgree
    <3> QED BY <2>1, <2>3, <3>2
  <2> QED BY <2>2, <2>3
<1>7. Sums(f, T, new)
  <2> SUFFICES ASSUME NEW s \in SUBSET T
               PROVE  Val(s) = IF s = {} THEN 0 ELSE f[Pick(s)] + new[s \ {Pick(s)}]
    <3>1. [s \in SUBSET T |-> Val(s)]
          = [s \in SUBSET T |-> IF s = {} THEN 0 ELSE f[Pick(s)] + new[s \ {Pick(s)}]]
      <4> HIDE DEF Val, new
      <4> QED OBVIOUS
    <3> QED BY <3>1 DEF Sums
  <2>1. CASE s = {}
    BY <2>1
  <2>2. CASE s # {}
    <3> DEFINE V == s \ {Pick(s)}
    <3>1. V \in SUBSET T /\ V # T
      BY <2>2, PickIsIn
    <3>2. new[V] = F1(V)[V]
      <4>1. new[V] = Val(V)
        BY <3>1
      <4>2. F1(V)[V] = Val(V)
        <5> HIDE DEF V, Val, F1
        <5> QED BY <3>1, <1>6
      <4> QED BY <4>1, <4>2
    <3> QED BY <2>2, <3>2
  <2> QED BY <2>1, <2>2
<1> QED BY <1>3, <1>7

-----------------------------------------------------------------------------
\* A sum takes its terms one by one.
LEMMA SumUnfolds ==
  ASSUME NEW f, NEW S, IsFiniteSet(S)
  PROVE  SumFunctionOnSet(f, S) =
           IF S = {} THEN 0
           ELSE f[Pick(S)] + SumFunctionOnSet(f, S \ {Pick(S)})
<1> DEFINE it == CHOOSE it : Sums(f, S, it)
           U == S \ {Pick(S)}
           jt == CHOOSE jt : Sums(f, U, jt)
<1>1. IsFiniteSet(U)
  BY FS_Subset
<1>2. Sums(f, S, it) /\ Sums(f, U, jt)
  <2>1. (\E x : Sums(f, S, x)) /\ (\E x : Sums(f, U, x))
    <3> HIDE DEF U
    <3> QED BY <1>1, SumsExist
  <2> QED BY <2>1
<1>3. SumFunctionOnSet(f, S) = it[S] /\ SumFunctionOnSet(f, U) = jt[U]
  BY SumOverIsLibrarys DEF SumOver
<1> HIDE DEF it, jt
<1>4. it[S] = IF S = {} THEN 0 ELSE f[Pick(S)] + it[U]
  BY <1>2 DEF Sums
<1>5. it[U] = jt[U]
  <2> HIDE DEF U
  <2>1. U \in SUBSET S
    BY DEF U
  <2> QED BY <1>1, <1>2, <2>1, SumsAgree
<1> QED BY <1>3, <1>4, <1>5

LEMMA SumIsInt ==
  ASSUME NEW f, NEW S, IsFiniteSet(S), \A x \in S : f[x] \in Int
  PROVE  SumFunctionOnSet(f, S) \in Int
<1> DEFINE F == {T \in SUBSET S : SumFunctionOnSet(f, T) \notin Int}
<1> SUFFICES ASSUME F # {} PROVE FALSE
  OBVIOUS
<1>1. \A T \in F : IsFiniteSet(T)
  BY FS_Subset
<1>2. PICK T \in F : \A U \in F : U \subseteq T => U = T
  <2> HIDE DEF F
  <2> QED BY <1>1, SmallestSet
<1>3. T \in SUBSET S /\ SumFunctionOnSet(f, T) \notin Int /\ IsFiniteSet(T)
  BY <1>1
<1>4. T # {}
  <2>1. T = {} => SumFunctionOnSet(f, T) = 0
    BY <1>3, SumUnfolds
  <2> QED BY <1>3, <2>1
<1>5. Pick(T) \in T
  BY <1>4, PickIsIn
<1>6. SumFunctionOnSet(f, T \ {Pick(T)}) \in Int
  BY <1>2, <1>3, <1>5
<1> QED BY <1>3, <1>4, <1>5, <1>6, SumUnfolds

\* Equal terms make equal sums.
LEMMA SumOfEquals ==
  ASSUME NEW f, NEW g, NEW S, IsFiniteSet(S), \A x \in S : f[x] = g[x]
  PROVE  SumFunctionOnSet(f, S) = SumFunctionOnSet(g, S)
<1> DEFINE F == {T \in SUBSET S : SumFunctionOnSet(f, T) # SumFunctionOnSet(g, T)}
<1> SUFFICES ASSUME F # {} PROVE FALSE
  OBVIOUS
<1>1. \A T \in F : IsFiniteSet(T)
  BY FS_Subset
<1>2. PICK T \in F : \A U \in F : U \subseteq T => U = T
  <2> HIDE DEF F
  <2> QED BY <1>1, SmallestSet
<1>3. /\ T \in SUBSET S /\ IsFiniteSet(T)
      /\ SumFunctionOnSet(f, T) # SumFunctionOnSet(g, T)
  BY <1>1
<1>4. T # {}
  BY <1>3, SumUnfolds
<1>5. Pick(T) \in T /\ f[Pick(T)] = g[Pick(T)]
  BY <1>3, <1>4, PickIsIn
<1>6. SumFunctionOnSet(f, T \ {Pick(T)}) = SumFunctionOnSet(g, T \ {Pick(T)})
  BY <1>2, <1>3, <1>5
<1> QED BY <1>3, <1>4, <1>5, <1>6, SumUnfolds

\* A sum changes by what one of its terms changes by.
LEMMA SumChange ==
  ASSUME NEW f, NEW g, NEW S, IsFiniteSet(S), NEW a \in S,
         \A x \in S : f[x] \in Int /\ g[x] \in Int,
         \A x \in S \ {a} : f[x] = g[x]
  PROVE  SumFunctionOnSet(g, S) = SumFunctionOnSet(f, S) + g[a] - f[a]
<1> DEFINE Differ(T) == SumFunctionOnSet(g, T) # SumFunctionOnSet(f, T) + g[a] - f[a]
           F == {T \in SUBSET S : a \in T /\ Differ(T)}
<1> SUFFICES ASSUME F # {} PROVE FALSE
  OBVIOUS
<1>1. \A T \in F : IsFiniteSet(T)
  BY FS_Subset
<1>2. PICK T \in F : \A U \in F : U \subseteq T => U = T
  <2> HIDE DEF F
  <2> QED BY <1>1, SmallestSet
<1>3. /\ T \in SUBSET S /\ IsFiniteSet(T) /\ a \in T
      /\ SumFunctionOnSet(g, T) # SumFunctionOnSet(f, T) + g[a] - f[a]
  BY <1>1
<1> DEFINE p == Pick(T)
           U == T \ {p}
<1>4. p \in T
  BY <1>3, PickIsIn
<1>5. /\ SumFunctionOnSet(g, T) = g[p] + SumFunctionOnSet(g, U)
      /\ SumFunctionOnSet(f, T) = f[p] + SumFunctionOnSet(f, U)
  BY <1>3, SumUnfolds
<1>6. U \in SUBSET S /\ IsFiniteSet(U) /\ U # T /\ U \subseteq T
  BY <1>3, <1>4, FS_Subset
<1>7. SumFunctionOnSet(f, U) \in Int /\ SumFunctionOnSet(g, U) \in Int
  <2> HIDE DEF U
  <2> QED BY <1>6, SumIsInt
<1> HIDE DEF p
<1>8. CASE p = a
  <2>1. \A x \in U : f[x] = g[x]
    BY <1>3, <1>8
  <2>2. SumFunctionOnSet(f, U) = SumFunctionOnSet(g, U)
    <3> HIDE DEF U
    <3> QED BY <2>1, <1>6, SumOfEquals
  <2> QED BY <1>3, <1>5, <1>7, <1>8, <2>2
<1>9. CASE p # a
  <2>1. ~Differ(U)
    <3>1. a \in U
      BY <1>3, <1>9
    <3> HIDE DEF U, Differ
    <3> QED BY <1>2, <1>6, <3>1
  <2>2. f[p] = g[p] /\ f[p] \in Int /\ f[a] \in Int /\ g[a] \in Int
    BY <1>3, <1>4, <1>9
  <2> QED BY <1>3, <1>5, <1>7, <2>1, <2>2
<1> QED BY <1>8, <1>9
\* Only the term of a is different.
LEMMA SumAfterChange ==
  ASSUME NEW S, IsFiniteSet(S), NEW f \in [S -> Int], NEW g \in [S -> Int],
         NEW a \in S, \A x \in S \ {a} : f[x] = g[x]
  PROVE  SumFunction(g) = SumFunction(f) + g[a] - f[a]
BY SumChange DEF SumFunction

LEMMA SumType ==
  ASSUME NEW S, IsFiniteSet(S), NEW f \in [S -> Int]
  PROVE  SumFunction(f) \in Int
BY SumIsInt DEF SumFunction

\* Giving a an amount (or taking one) adds it to the sum.
LEMMA SumAfterAdding ==
  ASSUME NEW S, IsFiniteSet(S), NEW f \in [S -> Int], NEW a \in S, NEW x \in Int
  PROVE  SumFunction([f EXCEPT ![a] = @ + x]) = SumFunction(f) + x
<1> DEFINE g == [f EXCEPT ![a] = @ + x]
<1>1. g \in [S -> Int] /\ g[a] = f[a] + x /\ \A y \in S \ {a} : f[y] = g[y]
  OBVIOUS
<1>2. SumFunction(f) \in Int /\ f[a] \in Int
  BY SumType
<1> HIDE DEF g
<1>3. SumFunction(g) = SumFunction(f) + g[a] - f[a]
  BY <1>1, SumAfterChange
<1>4. SumFunction(g) = SumFunction(f) + x
  BY <1>1, <1>2, <1>3
<1> QED BY <1>4 DEF g

LEMMA SumOfZeros ==
  ASSUME NEW S, IsFiniteSet(S)
  PROVE  SumFunction([x \in S |-> 0]) = 0
<1> DEFINE zero == [x \in S |-> 0]
           F == {T \in SUBSET S : SumFunctionOnSet(zero, T) # 0}
<1>1. F = {}
  <2> SUFFICES ASSUME F # {} PROVE FALSE
    OBVIOUS
  <2>1. \A T \in F : IsFiniteSet(T)
    BY FS_Subset
  <2>2. PICK T \in F : \A U \in F : U \subseteq T => U = T
    <3> HIDE DEF F
    <3> QED BY <2>1, SmallestSet
  <2>3. T \in SUBSET S /\ IsFiniteSet(T) /\ SumFunctionOnSet(zero, T) # 0
    BY <2>1
  <2>4. T # {}
    <3> HIDE DEF zero
    <3> QED BY <2>3, SumUnfolds
  <2>5. Pick(T) \in T /\ zero[Pick(T)] = 0
    BY <2>3, <2>4, PickIsIn
  <2>6. SumFunctionOnSet(zero, T \ {Pick(T)}) = 0
    <3> DEFINE U == T \ {Pick(T)}
    <3>1. U \in SUBSET S /\ U \subseteq T /\ U # T
      BY <2>3, <2>5
    <3>2. U \notin F
      <4> HIDE DEF F, U
      <4> QED BY <2>2, <3>1
    <3> HIDE DEF zero, U
    <3>3. SumFunctionOnSet(zero, U) = 0
      BY <3>1, <3>2
    <3> QED BY <3>3 DEF U
  <2> HIDE DEF zero, F
  <2> QED BY <2>3, <2>4, <2>5, <2>6, SumUnfolds
<1>2. SumFunctionOnSet(zero, S) = 0
  <2> HIDE DEF zero
  <2> QED BY <1>1
<1> QED BY <1>2 DEF SumFunction

\* Any term may be taken first.
LEMMA SumWithout ==
  ASSUME NEW f, NEW S, IsFiniteSet(S), \A x \in S : f[x] \in Int, NEW a \in S
  PROVE  SumFunctionOnSet(f, S) = f[a] + SumFunctionOnSet(f, S \ {a})
<1> DEFINE Whole(T, x) == SumFunctionOnSet(f, T) = f[x] + SumFunctionOnSet(f, T \ {x})
           F == {T \in SUBSET S : \E x \in T : ~Whole(T, x)}
<1> SUFFICES ASSUME F # {} PROVE FALSE
  OBVIOUS
<1>1. \A T \in F : IsFiniteSet(T)
  BY FS_Subset
<1>2. PICK T \in F : \A U \in F : U \subseteq T => U = T
  <2> HIDE DEF F
  <2> QED BY <1>1, SmallestSet
<1>3. PICK x \in T : ~Whole(T, x)
  OBVIOUS
<1> DEFINE p == Pick(T)
<1>4. /\ T \in SUBSET S /\ IsFiniteSet(T) /\ p \in T
      /\ SumFunctionOnSet(f, T) = f[p] + SumFunctionOnSet(f, T \ {p})
  BY <1>1, PickIsIn, SumUnfolds
<1> HIDE DEF p
<1>5. x # p
  BY <1>3, <1>4
<1>6. Whole(T \ {p}, x)
  <2>1. T \ {p} \notin F
    <3> HIDE DEF F
    <3> QED BY <1>2, <1>4
  <2> QED BY <1>4, <1>5, <2>1
<1>7. Whole(T \ {x}, p)
  <2>1. T \ {x} \notin F
    <3> HIDE DEF F
    <3> QED BY <1>2
  <2> QED BY <1>4, <1>5, <2>1
<1>8. (T \ {p}) \ {x} = (T \ {x}) \ {p}
  OBVIOUS
<1>9. SumFunctionOnSet(f, (T \ {p}) \ {x}) \in Int /\ f[x] \in Int /\ f[p] \in Int
  <2> DEFINE U == (T \ {p}) \ {x}
  <2>1. IsFiniteSet(U) /\ \A y \in U : f[y] \in Int
    BY <1>4, FS_Subset
  <2> HIDE DEF U
  <2>2. SumFunctionOnSet(f, U) \in Int
    BY <2>1, SumIsInt
  <2> QED BY <1>4, <2>2 DEF U
<1>10. SumFunctionOnSet(f, (T \ {p}) \ {x}) = SumFunctionOnSet(f, (T \ {x}) \ {p})
  BY <1>8
<1> DEFINE A == SumFunctionOnSet(f, T)
           B == SumFunctionOnSet(f, T \ {p})
           C == SumFunctionOnSet(f, T \ {x})
           D == SumFunctionOnSet(f, (T \ {p}) \ {x})
<1>11. A = f[p] + B /\ B = f[x] + D /\ C = f[p] + D /\ A # f[x] + C
  BY <1>3, <1>4, <1>6, <1>7, <1>10
<1>12. D \in Int /\ f[x] \in Int /\ f[p] \in Int
  BY <1>9
<1> HIDE DEF A, B, C, D
<1> QED BY <1>11, <1>12

\* A sum along the natural numbers.
LEMMA SumUpTo ==
  ASSUME NEW f, NEW n \in Nat, \A i \in 1..n : f[i] \in Int
  PROVE  /\ SumFunctionOnSet(f, 1..n) \in Int
         /\ n = 0 => SumFunctionOnSet(f, 1..n) = 0
         /\ n # 0 => SumFunctionOnSet(f, 1..n) = SumFunctionOnSet(f, 1..n - 1) + f[n]
<1>1. IsFiniteSet(1..n)
  BY FS_Interval
<1>2. SumFunctionOnSet(f, 1..n) \in Int
  BY <1>1, SumIsInt
<1>3. ASSUME n = 0 PROVE SumFunctionOnSet(f, 1..n) = 0
  BY <1>1, <1>3, SumUnfolds
<1>4. ASSUME n # 0 PROVE SumFunctionOnSet(f, 1..n) = SumFunctionOnSet(f, 1..n - 1) + f[n]
  <2>1. (1..n) \ {n} = 1..n - 1 /\ n \in 1..n /\ n - 1 \in Nat
    BY <1>4
  <2>2. SumFunctionOnSet(f, 1..n) = f[n] + SumFunctionOnSet(f, 1..n - 1)
    BY <1>1, <2>1, SumWithout
  <2>3. SumFunctionOnSet(f, 1..n - 1) \in Int /\ f[n] \in Int
    <3>1. IsFiniteSet(1..n - 1) /\ \A i \in 1..n - 1 : f[i] \in Int
      BY <2>1, FS_Interval
    <3> QED BY <2>1, <3>1, SumIsInt
  <2> QED BY <2>2, <2>3
<1> QED BY <1>2, <1>3, <1>4

=============================================================================
