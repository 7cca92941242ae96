--------------------------- MODULE SumTheorems ---------------------------
(***************************************************************************)
(* Induction and sums, as the provers can use them.  The library states    *)
(* induction with an operator parameter, which no backend instantiates;    *)
(* here it is stated with a set, so that a proof names the set of things   *)
(* the claim holds of.  From it follow the recursion that SumFunction of   *)
(* module Functions iterates, and how a sum changes when one term does.    *)
(***************************************************************************)
EXTENDS Integers, Functions, FiniteSetTheorems, TLAPS

-----------------------------------------------------------------------------
(* Induction *)

\* A set of naturals that is not empty has a least element.
LEMMA LeastNatural ==
    ASSUME NEW T, T \subseteq Nat, T # {}
    PROVE  \E x \in T : \A y \in T : x <= y
<1> DEFINE R == OpToRel(<, Nat)
<1>1. IsWellFoundedOn(R, Nat)
  BY NatLessThanWellFounded
<1>2. \A x, y \in Nat : x < y => <<x, y>> \in R
  BY DEF OpToRel
<1> HIDE DEF R
<1>3. PICK x \in T : \A y \in T : ~(<<y,x>> \in R)
  BY <1>1, WFMin
<1>4. \A y \in T : ~(y < x)
  BY <1>2, <1>3
<1>5. \A y \in T : x <= y
  BY <1>4
<1> QED  BY <1>5

\* A set with 0 that is closed under successor holds every natural number.
LEMMA SetInduction ==
    ASSUME NEW T, T \subseteq Nat, 0 \in T, \A n \in T : n + 1 \in T
    PROVE  T = Nat
<1> SUFFICES ASSUME Nat \ T # {}
             PROVE  FALSE
  OBVIOUS
<1>1. PICK n \in Nat \ T : \A m \in Nat \ T : n <= m
  BY LeastNatural
<1>2. n # 0 /\ n - 1 \in Nat
  BY <1>1
<1>3. n - 1 \in T
  BY <1>1, <1>2
<1> QED  BY <1>1, <1>2, <1>3

\* A set of subsets that holds each one whose smaller subsets it holds has them all.
LEMMA SubsetInduction ==
    ASSUME NEW D, IsFiniteSet(D), NEW T, T \subseteq SUBSET D,
           \A s \in SUBSET D : (\A x \in s : s \ {x} \in T) => s \in T
    PROVE  T = SUBSET D
<1> DEFINE N == {n \in Nat : \A s \in SUBSET D : Cardinality(s) = n => s \in T}
<1>0. \A s \in SUBSET D : /\ IsFiniteSet(s) /\ Cardinality(s) \in Nat
                          /\ \A x \in s : /\ s \ {x} \in SUBSET D
                                          /\ Cardinality(s \ {x}) = Cardinality(s) - 1
  BY FS_Subset, FS_CardinalityType, FS_RemoveElement
<1>1. 0 \in N
  <2>1. ASSUME NEW s \in SUBSET D, Cardinality(s) = 0
        PROVE  s \in T
    <3>1. s = {}
      BY <1>0, <2>1, FS_EmptySet
    <3> QED  BY <3>1
  <2> QED  BY <2>1
<1>2. ASSUME NEW n \in N
      PROVE  n + 1 \in N
  <2>1. ASSUME NEW s \in SUBSET D, Cardinality(s) = n + 1
        PROVE  s \in T
    <3>1. ASSUME NEW x \in s
          PROVE  s \ {x} \in T
      <4>1. Cardinality(s \ {x}) = n /\ s \ {x} \in SUBSET D
        BY <1>0, <2>1
      <4> QED  BY <4>1, <1>2
    <3> QED  BY <3>1
  <2> QED  BY <2>1
<1> HIDE DEF N
<1>3. N = Nat
  <2>1. N \subseteq Nat
    BY DEF N
  <2> QED  BY <1>1, <1>2, <2>1, SetInduction
<1>4. ASSUME NEW s \in SUBSET D
      PROVE  s \in T
  BY <1>0, <1>3 DEF N
<1> QED  BY <1>4

-----------------------------------------------------------------------------
(* The recursion behind SumFunction *)

Pick(s) == CHOOSE x \in s : TRUE

\* The sum over s, where g gives the sums over the smaller sets.
SumsStep(g, fun, s) == IF s = {} THEN 0 ELSE fun[Pick(s)] + g[s \ {Pick(s)}]

\* The sums of fun over the subsets of D.
Sums(fun, D) == CHOOSE g : g = [s \in SUBSET D |-> SumsStep(g, fun, s)]

LEMMA PickIn == ASSUME NEW s, s # {} PROVE Pick(s) \in s
  BY DEF Pick

\* What the community modules define a sum to be.
LEMMA SumOnSet ==
    ASSUME NEW fun, NEW D
    PROVE  SumFunctionOnSet(fun, D) = Sums(fun, D)[D]
BY DEF SumFunctionOnSet, FoldFunctionOnSet, MapThenFoldSet, Sums, SumsStep, Pick

LEMMA SumOfFunction ==
    ASSUME NEW fun
    PROVE  SumFunction(fun) = Sums(fun, DOMAIN fun)[DOMAIN fun]
BY SumOnSet DEF SumFunction

\* The recursion that defines the sum has a solution.
LEMMA SumsExist ==
    ASSUME NEW fun, NEW D, IsFiniteSet(D)
    PROVE  \A s \in SUBSET D : Sums(fun, D)[s] = SumsStep(Sums(fun, D), fun, s)
<1> DEFINE Upto(n) == {s \in SUBSET D : Cardinality(s) <= n}
           N == {n \in Nat : \E g : \A s \in Upto(n) : g[s] = SumsStep(g, fun, s)}
<1>0. \A s \in SUBSET D : /\ IsFiniteSet(s) /\ Cardinality(s) \in Nat
                          /\ s # {} => /\ s \ {Pick(s)} \in SUBSET D
                                       /\ Cardinality(s \ {Pick(s)}) = Cardinality(s) - 1
  BY FS_Subset, FS_CardinalityType, FS_RemoveElement, PickIn
<1>1. 0 \in N
  <2> DEFINE g == [s \in SUBSET D |-> 0]
  <2>1. ASSUME NEW s \in Upto(0)
        PROVE  g[s] = SumsStep(g, fun, s)
    <3>0. s \in SUBSET D /\ Cardinality(s) <= 0
      BY <2>1
    <3>1. IsFiniteSet(s) /\ Cardinality(s) = 0
      <4>1. Cardinality(s) \in Nat
        BY <1>0, <3>0
      <4>2. Cardinality(s) = 0
        BY <3>0, <4>1
      <4>3. IsFiniteSet(s)
        BY <1>0, <3>0
      <4> QED  BY <4>2, <4>3
    <3>2. s = {}
      BY <3>1, FS_EmptySet
    <3> QED  BY <3>2 DEF SumsStep
  <2> QED  BY <2>1
<1>2. ASSUME NEW n \in N
      PROVE  n + 1 \in N
  <2>1. PICK g : \A s \in Upto(n) : g[s] = SumsStep(g, fun, s)
    OBVIOUS
  <2> DEFINE h == [s \in SUBSET D |-> IF s \in Upto(n) THEN g[s] ELSE SumsStep(g, fun, s)]
  <2>2. ASSUME NEW s \in Upto(n + 1)
        PROVE  h[s] = SumsStep(h, fun, s)
    <3>1. h[s] = SumsStep(g, fun, s)
      BY <2>1
    <3>2. s # {} => s \ {Pick(s)} \in Upto(n)
      BY <1>0
    <3>3. s # {} => h[s \ {Pick(s)}] = g[s \ {Pick(s)}]
      BY <3>2
    <3> QED  BY <3>1, <3>3 DEF SumsStep
  <2> HIDE DEF h
  <2> QED  BY <2>2
<1>3. N = Nat
  <2>1. N \subseteq Nat
    OBVIOUS
  <2> HIDE DEF N
  <2> QED  BY <1>1, <1>2, <2>1, SetInduction
<1>4. Cardinality(D) \in Nat /\ Upto(Cardinality(D)) = SUBSET D
  BY FS_CardinalityType, FS_Subset, <1>0
<1>5. PICK g : \A s \in SUBSET D : g[s] = SumsStep(g, fun, s)
  <2>1. Cardinality(D) \in N
    BY <1>3, <1>4
  <2> QED  BY <1>4, <2>1
<1> DEFINE h == [s \in SUBSET D |-> g[s]]
<1>6. h = [s \in SUBSET D |-> SumsStep(h, fun, s)]
  <2>1. ASSUME NEW s \in SUBSET D
        PROVE  h[s] = SumsStep(h, fun, s)
    BY <1>0, <1>5 DEF SumsStep
  <2> QED  BY <2>1
<1>7. Sums(fun, D) = [s \in SUBSET D |-> SumsStep(Sums(fun, D), fun, s)]
  <2> HIDE DEF h
  <2> QED  BY <1>6 DEF Sums
<1> QED  BY <1>7

\* A sum of integers is an integer.
LEMMA SumsAreIntegers ==
    ASSUME NEW fun, NEW D, IsFiniteSet(D), \A x \in D : fun[x] \in Int
    PROVE  \A s \in SUBSET D : Sums(fun, D)[s] \in Int
<1> DEFINE g == Sums(fun, D)
           T == {s \in SUBSET D : g[s] \in Int}
<1>1. ASSUME NEW s \in SUBSET D, \A x \in s : s \ {x} \in T
      PROVE  s \in T
  <2>1. g[s] = SumsStep(g, fun, s)
    BY SumsExist
  <2> HIDE DEF g
  <2>2. CASE s = {}
    BY <2>1, <2>2 DEF SumsStep
  <2>3. CASE s # {}
    <3>1. Pick(s) \in s
      BY <2>3, PickIn
    <3>2. g[s \ {Pick(s)}] \in Int /\ fun[Pick(s)] \in Int
      BY <1>1, <3>1
    <3> QED  BY <2>1, <2>3, <3>2 DEF SumsStep
  <2> QED  BY <2>2, <2>3
<1>2. T = SUBSET D
  <2> HIDE DEF g
  <2>1. T \subseteq SUBSET D
    OBVIOUS
  <2> HIDE DEF T
  <2> QED  BY <1>1, <2>1, SubsetInduction
<1> QED  BY <1>2

\* The order of the terms does not matter: any one may be taken first.
LEMMA SumsTake ==
    ASSUME NEW fun, NEW D, IsFiniteSet(D), \A x \in D : fun[x] \in Int
    PROVE  \A s \in SUBSET D : \A a \in s :
              Sums(fun, D)[s] = fun[a] + Sums(fun, D)[s \ {a}]
<1> DEFINE g == Sums(fun, D)
           T == {s \in SUBSET D : \A a \in s : g[s] = fun[a] + g[s \ {a}]}
<1>0. \A s \in SUBSET D : g[s] \in Int
  BY SumsAreIntegers
<1>1. \A s \in SUBSET D : s # {} =>
         Pick(s) \in s /\ g[s] = fun[Pick(s)] + g[s \ {Pick(s)}]
  <2>1. \A s \in SUBSET D : g[s] = SumsStep(g, fun, s)
    BY SumsExist
  <2> HIDE DEF g
  <2> QED  BY <2>1, PickIn DEF SumsStep
<1> HIDE DEF g
<1>2. ASSUME NEW s \in SUBSET D, \A x \in s : s \ {x} \in T
      PROVE  s \in T
  <2> SUFFICES ASSUME NEW a \in s
               PROVE  g[s] = fun[a] + g[s \ {a}]
    OBVIOUS
  <2> DEFINE x == Pick(s)
  <2>1. x \in s /\ g[s] = fun[x] + g[s \ {x}]
    BY <1>1
  <2> HIDE DEF x
  <2>2. CASE x # a
    <3> DEFINE rest == s \ {a, x}
    <3>1. rest = (s \ {x}) \ {a} /\ rest = (s \ {a}) \ {x}
      OBVIOUS
    <3>2. g[s \ {x}] = fun[a] + g[rest]
      BY <1>2, <2>1, <2>2, <3>1
    <3>3. g[s \ {a}] = fun[x] + g[rest]
      BY <1>2, <2>1, <2>2, <3>1
    <3>4. fun[a] \in Int /\ fun[x] \in Int /\ g[rest] \in Int
      BY <1>0, <2>1
    <3> QED  BY <2>1, <3>2, <3>3, <3>4
  <2> QED  BY <2>1, <2>2
<1>3. T = SUBSET D
  <2>1. T \subseteq SUBSET D
    OBVIOUS
  <2> HIDE DEF T
  <2> QED  BY <1>2, <2>1, SubsetInduction
<1> QED  BY <1>3 DEF g

\* A sum depends on nothing but its terms.
LEMMA SumsAgree ==
    ASSUME NEW f, NEW g, NEW D, NEW E, IsFiniteSet(D), IsFiniteSet(E),
           NEW S, S \subseteq D, S \subseteq E, \A x \in S : f[x] = g[x]
    PROVE  Sums(f, D)[S] = Sums(g, E)[S]
<1> DEFINE F == Sums(f, D)
           G == Sums(g, E)
           T == {s \in SUBSET S : F[s] = G[s]}
<1>1. \A s \in SUBSET S : F[s] = SumsStep(F, f, s) /\ G[s] = SumsStep(G, g, s)
  BY SumsExist
<1> HIDE DEF F, G
<1>2. ASSUME NEW s \in SUBSET S, \A x \in s : s \ {x} \in T
      PROVE  s \in T
  <2>1. CASE s = {}
    BY <1>1, <2>1 DEF SumsStep
  <2>2. CASE s # {}
    <3>1. Pick(s) \in s
      BY <2>2, PickIn
    <3>2. F[s \ {Pick(s)}] = G[s \ {Pick(s)}] /\ f[Pick(s)] = g[Pick(s)]
      BY <1>2, <3>1
    <3> QED  BY <1>1, <2>2, <3>2 DEF SumsStep
  <2> QED  BY <2>1, <2>2
<1>3. T = SUBSET S
  <2>1. T \subseteq SUBSET S /\ IsFiniteSet(S)
    BY FS_Subset
  <2> HIDE DEF T
  <2> QED  BY <1>2, <2>1, SubsetInduction
<1> QED  BY <1>3 DEF F, G

-----------------------------------------------------------------------------
(* What proofs use of sums *)

LEMMA SumOfNone ==
    ASSUME NEW f, DOMAIN f = {}
    PROVE  SumFunction(f) = 0
BY SumOfFunction, SumsExist, FS_EmptySet DEF SumsStep

LEMMA SumIsInteger ==
    ASSUME NEW f, IsFiniteSet(DOMAIN f), \A x \in DOMAIN f : f[x] \in Int
    PROVE  SumFunction(f) \in Int
BY SumOfFunction, SumsAreIntegers

LEMMA SumOnSubset ==
    ASSUME NEW f, NEW S, IsFiniteSet(S)
    PROVE  SumFunctionOnSet(f, S) = SumFunction([x \in S |-> f[x]])
<1> DEFINE g == [x \in S |-> f[x]]
<1>1. Sums(f, S)[S] = Sums(g, S)[S]
  BY SumsAgree
<1> QED  BY <1>1, SumOnSet, SumOfFunction

\* One term and the sum of the others.
LEMMA SumWithout ==
    ASSUME NEW f, IsFiniteSet(DOMAIN f), \A x \in DOMAIN f : f[x] \in Int,
           NEW a \in DOMAIN f
    PROVE  SumFunction(f) = f[a] + SumFunction([x \in DOMAIN f \ {a} |-> f[x]])
<1> DEFINE D == DOMAIN f
           g == [x \in D \ {a} |-> f[x]]
<1>1. Sums(f, D)[D] = f[a] + Sums(f, D)[D \ {a}]
  BY SumsTake
<1>2. Sums(f, D)[D \ {a}] = Sums(g, D \ {a})[D \ {a}]
  BY SumsAgree, FS_RemoveElement
<1> QED  BY <1>1, <1>2, SumOfFunction

\* The sum over a longer index range.
LEMMA SumOfAppended ==
    ASSUME NEW n \in Nat, NEW f \in [1..(n + 1) -> Int]
    PROVE  SumFunction(f) = SumFunction([i \in 1..n |-> f[i]]) + f[n + 1]
<1>1. IsFiniteSet(1..(n + 1)) /\ DOMAIN f = 1..(n + 1) /\ n + 1 \in 1..(n + 1)
  BY FS_Interval
<1>2. (1..(n + 1)) \ {n + 1} = 1..n
  OBVIOUS
<1>3. SumFunction(f) = f[n + 1] + SumFunction([i \in DOMAIN f \ {n + 1} |-> f[i]])
  <2>1. \A i \in DOMAIN f : f[i] \in Int
    OBVIOUS
  <2> QED  BY <1>1, <2>1, SumWithout
<1>4. SumFunction([i \in 1..n |-> f[i]]) \in Int
  BY SumIsInteger, FS_Interval
<1>5. [i \in DOMAIN f \ {n + 1} |-> f[i]] = [i \in 1..n |-> f[i]]
  BY <1>1, <1>2
<1>6. f[n + 1] \in Int
  BY <1>1
<1> DEFINE rest == SumFunction([i \in 1..n |-> f[i]])
<1>7. SumFunction(f) = f[n + 1] + rest
  BY <1>3, <1>5
<1> HIDE DEF rest
<1> QED  BY <1>4, <1>6, <1>7 DEF rest

\* One more term, given the terms of both sums.
LEMMA TotalOfAppended ==
    ASSUME NEW list, NEW n \in Nat, DOMAIN list = 1..n, NEW f, NEW g,
           f = [i \in 1..(n + 1) |-> f[i]], g = [i \in 1..n |-> g[i]],
           \A i \in 1..(n + 1) : f[i] \in Int,
           \A i \in 1..n : g[i] = f[i]
    PROVE  /\ SumFunction(g) \in Int
           /\ SumFunction(f) = SumFunction(g) + f[n + 1]
<1>1. f \in [1..(n + 1) -> Int]
  OBVIOUS
<1>2. g = [i \in 1..n |-> f[i]]
  OBVIOUS
<1>3. SumFunction(f) = SumFunction(g) + f[n + 1]
  BY <1>1, <1>2, SumOfAppended
<1>4. DOMAIN g = 1..n
  BY <1>2
<1>5. SumFunction(g) \in Int
  <2>1. IsFiniteSet(DOMAIN g)
    BY <1>4, FS_Interval
  <2>2. \A i \in DOMAIN g : g[i] \in Int
    BY <1>4
  <2> QED  BY <2>1, <2>2, SumIsInteger
<1> QED  BY <1>3, <1>5

\* A sum of zeros is zero.
LEMMA SumOfZeros ==
    ASSUME NEW f, IsFiniteSet(DOMAIN f), \A x \in DOMAIN f : f[x] = 0
    PROVE  SumFunction(f) = 0
<1> DEFINE D == DOMAIN f
           g == Sums(f, D)
           T == {s \in SUBSET D : g[s] = 0}
<1>1. \A s \in SUBSET D : g[s] = SumsStep(g, f, s)
  BY SumsExist
<1> HIDE DEF g
<1>2. ASSUME NEW s \in SUBSET D, \A x \in s : s \ {x} \in T
      PROVE  s \in T
  <2>1. CASE s = {}
    BY <1>1, <2>1 DEF SumsStep
  <2>2. CASE s # {}
    <3>1. Pick(s) \in s
      BY <2>2, PickIn
    <3>2. g[s \ {Pick(s)}] = 0 /\ f[Pick(s)] = 0
      BY <1>2, <3>1
    <3> QED  BY <1>1, <2>2, <3>2 DEF SumsStep
  <2> QED  BY <2>1, <2>2
<1>3. T = SUBSET D
  <2>1. T \subseteq SUBSET D
    OBVIOUS
  <2> HIDE DEF T
  <2> QED  BY <1>2, <2>1, SubsetInduction
<1>4. g[D] = 0
  BY <1>3
<1> QED  BY <1>4, SumOfFunction DEF g

-----------------------------------------------------------------------------
\* Division with a remainder.
LEMMA Division ==
    ASSUME NEW a \in Nat, NEW b \in Nat \ {0}
    PROVE  a \div b \in Nat /\ a % b \in Nat /\ a = b * (a \div b) + (a % b)
OBVIOUS
=============================================================================
