------------------------------ MODULE SumTheorems ------------------------------
(***************************************************************************)
(* What sums of integers over finite sets and over logs come to, whatever  *)
(* the order in which the community modules add them up.  The library's    *)
(* induction theorems take an operator as a parameter, which no prover     *)
(* here can instantiate; every induction below goes by the least           *)
(* counterexample instead.                                                 *)
(***************************************************************************)
EXTENDS Integers, FiniteSetsExt, Functions, FiniteSetTheorems, WellFoundedInduction, TLAPS

(***************************************************************************)
(* Sums over finite sets                                                   *)
(*                                                                         *)
(* The community modules fold a function over a set by a recursive         *)
(* function on its subsets.  Cardinality is the measure of every induction *)
(* here, by way of the least counterexample.                               *)
(***************************************************************************)
Chosen(S) == CHOOSE x \in S : TRUE

\* One unfolding of the recursive function that sums f over the subsets of D.
Unfolded(f, g, D) ==
    [S \in D |-> IF S = {} THEN 0 ELSE f[Chosen(S)] + g[S \ {Chosen(S)}]]

Sums(f, D) == CHOOSE g : g = Unfolded(f, g, SUBSET D)

\* The fold of Functions is that function, at the whole set.
LEMMA SumIsSums ==
  ASSUME NEW f, NEW D
  PROVE  SumFunctionOnSet(f, D) = Sums(f, D)[D]
BY DEF SumFunctionOnSet, FoldFunctionOnSet, MapThenFoldSet, Sums, Unfolded, Chosen

\* The order of the naturals is well founded.
LEMMA LeastNat ==
  ASSUME NEW T \in SUBSET Nat, T # {}
  PROVE  \E x \in T : \A y \in T : x <= y
<1> DEFINE R == OpToRel(<, Nat)
<1>1. \E x \in T : \A y \in T : <<y, x>> \notin R
  <2>1. IsWellFoundedOn(R, Nat)
    BY NatLessThanWellFounded
  <2> HIDE DEF R
  <2> QED BY <2>1, WFMin
<1>2. PICK x \in T : \A y \in T : <<y, x>> \notin R
  BY <1>1
<1>3. \A y \in T : ~(y < x)
  BY <1>2 DEF OpToRel
<1> HIDE DEF R
<1> QED BY <1>2, <1>3

\* A set of subsets that is not empty has a smallest member.
LEMMA SmallestSubset ==
  ASSUME NEW D, IsFiniteSet(D), NEW B \in SUBSET SUBSET D, B # {}
  PROVE  \E S \in B : \A R \in B : Cardinality(S) <= Cardinality(R)
<1> DEFINE N == {Cardinality(S) : S \in B}
<1>1. N \in SUBSET Nat /\ N # {}
  BY FS_Subset, FS_CardinalityType
<1>2. PICK n \in N : \A m \in N : n <= m
  <2> HIDE DEF N
  <2> QED BY <1>1, LeastNat
<1> QED BY <1>2

\* The chosen member of a subset, and what is left without it.
LEMMA ChosenIsMember ==
  ASSUME NEW D, IsFiniteSet(D), NEW S \in SUBSET D, S # {}
  PROVE  /\ Chosen(S) \in S
         /\ S \ {Chosen(S)} \in SUBSET D
         /\ Cardinality(S) \in Nat
         /\ Cardinality(S \ {Chosen(S)}) = Cardinality(S) - 1
<1>1. Chosen(S) \in S
  BY DEF Chosen
<1>2. IsFiniteSet(S)
  BY FS_Subset
<1> QED BY <1>1, <1>2, FS_RemoveElement, FS_CardinalityType

\* The recursive function exists.
LEMMA SumsExist ==
  ASSUME NEW f, NEW D, IsFiniteSet(D)
  PROVE  Sums(f, D) = Unfolded(f, Sums(f, D), SUBSET D)
<1> DEFINE Small(n) == {S \in SUBSET D : Cardinality(S) <= n}
           Exists(n) == \E g : g = Unfolded(f, g, Small(n))
           T == {n \in Nat : ~Exists(n)}
<1>0. Exists(0)
  <2> DEFINE g == [S \in Small(0) |-> 0]
  <2>1. \A S \in Small(0) : S = {}
    <3> SUFFICES ASSUME NEW S \in Small(0) PROVE S = {}
      OBVIOUS
    <3>1. IsFiniteSet(S) /\ Cardinality(S) <= 0
      BY FS_Subset
    <3> QED BY <3>1, FS_CardinalityType, FS_EmptySet
  <2>2. g = Unfolded(f, g, Small(0))
    BY <2>1 DEF Unfolded
  <2> QED BY <2>2
<1>1. ASSUME NEW n \in Nat, Exists(n) PROVE Exists(n + 1)
  <2>1. PICK g : g = Unfolded(f, g, Small(n))
    BY <1>1
  <2> DEFINE h == Unfolded(f, g, Small(n + 1))
  <2>2. \A S \in Small(n + 1) : S # {} =>
            S \ {Chosen(S)} \in Small(n) /\ S \ {Chosen(S)} \in Small(n + 1)
    <3> SUFFICES ASSUME NEW S \in Small(n + 1), S # {}
                 PROVE  S \ {Chosen(S)} \in Small(n) /\ S \ {Chosen(S)} \in Small(n + 1)
      OBVIOUS
    <3> QED BY ChosenIsMember
  <2>3. \A S \in Small(n) : S \in Small(n + 1)
    <3> SUFFICES ASSUME NEW S \in Small(n) PROVE S \in Small(n + 1)
      OBVIOUS
    <3>1. Cardinality(S) \in Nat
      BY FS_Subset, FS_CardinalityType
    <3> QED BY <3>1
  <2> HIDE DEF Small
  <2>4. \A S \in Small(n) : h[S] = g[S]
    BY <2>1, <2>3 DEF Unfolded
  <2>5. h = Unfolded(f, h, Small(n + 1))
    BY <2>2, <2>4 DEF Unfolded
  <2> QED BY <2>5
<1>2. T = {}
  <2> SUFFICES ASSUME T # {} PROVE FALSE
    OBVIOUS
  <2>1. PICK n \in T : \A m \in T : n <= m
    <3>1. T \in SUBSET Nat OBVIOUS
    <3> HIDE DEF T
    <3> QED BY <3>1, LeastNat
  <2> HIDE DEF Exists
  <2>2. n # 0
    BY <1>0
  <2>3. n - 1 \in Nat /\ Exists(n - 1)
    BY <2>1, <2>2
  <2>4. Exists(n - 1 + 1)
    BY <1>1, <2>3
  <2>5. n - 1 + 1 = n
    OBVIOUS
  <2> QED BY <2>4, <2>5
<1>3. Cardinality(D) \in Nat
  BY FS_CardinalityType
<1>4. Small(Cardinality(D)) = SUBSET D
  BY FS_Subset
<1>5. Exists(Cardinality(D))
  <2> HIDE DEF Exists
  <2> QED BY <1>2, <1>3
<1>6. \E g : g = Unfolded(f, g, SUBSET D)
  BY <1>4, <1>5
<1> QED BY <1>6 DEF Sums

\* The sum of f over S, as a sum over one of the subsets of D.
LEMMA SumsUnfold ==
  ASSUME NEW f, NEW D, IsFiniteSet(D)
  PROVE  /\ Sums(f, D)[{}] = 0
         /\ \A S \in SUBSET D : S # {} =>
                Sums(f, D)[S] = f[Chosen(S)] + Sums(f, D)[S \ {Chosen(S)}]
<1> DEFINE g == Sums(f, D)
<1>1. g = Unfolded(f, g, SUBSET D)
  BY SumsExist
<1> HIDE DEF g
<1>2. \A S \in SUBSET D : g[S] = IF S = {} THEN 0 ELSE f[Chosen(S)] + g[S \ {Chosen(S)}]
  BY <1>1 DEF Unfolded
<1>3. {} \in SUBSET D
  OBVIOUS
<1>4. /\ g[{}] = 0
      /\ \A S \in SUBSET D : S # {} => g[S] = f[Chosen(S)] + g[S \ {Chosen(S)}]
  BY <1>2, <1>3
<1> QED BY <1>4 DEF g

\* A sum depends on the values of f at the members of the set, and on nothing else.
LEMMA SumsAgree ==
  ASSUME NEW f, NEW g, NEW D, NEW E, IsFiniteSet(D), IsFiniteSet(E),
         NEW A \in SUBSET (D \cap E), \A x \in A : f[x] = g[x]
  PROVE  Sums(f, D)[A] = Sums(g, E)[A]
<1> DEFINE B == {S \in SUBSET A : Sums(f, D)[S] # Sums(g, E)[S]}
<1> SUFFICES ASSUME B # {} PROVE FALSE
  OBVIOUS
<1>1. IsFiniteSet(A)
  BY FS_Subset
<1>2. PICK S \in B : \A R \in B : Cardinality(S) <= Cardinality(R)
  <2>1. B \in SUBSET SUBSET A OBVIOUS
  <2> HIDE DEF B
  <2> QED BY <1>1, <2>1, SmallestSubset
<1>3. S \in SUBSET A /\ S # {}
  BY SumsUnfold
<1> DEFINE R == S \ {Chosen(S)}
<1>4. Chosen(S) \in A /\ R \in SUBSET A /\ Cardinality(R) = Cardinality(S) - 1
      /\ Cardinality(S) \in Nat
  BY <1>1, <1>3, ChosenIsMember
<1>5. R \notin B
  <2> HIDE DEF B, R
  <2> QED BY <1>2, <1>4
<1>6. Sums(f, D)[R] = Sums(g, E)[R]
  BY <1>4, <1>5
<1>7. /\ Sums(f, D)[S] = f[Chosen(S)] + Sums(f, D)[R]
      /\ Sums(g, E)[S] = g[Chosen(S)] + Sums(g, E)[R]
  <2>1. S \in SUBSET D /\ S \in SUBSET E
    BY <1>3
  <2>2. \A T \in SUBSET D : T # {} =>
            Sums(f, D)[T] = f[Chosen(T)] + Sums(f, D)[T \ {Chosen(T)}]
    BY SumsUnfold
  <2>3. \A T \in SUBSET E : T # {} =>
            Sums(g, E)[T] = g[Chosen(T)] + Sums(g, E)[T \ {Chosen(T)}]
    BY SumsUnfold
  <2> QED BY <1>3, <2>1, <2>2, <2>3
<1> QED BY <1>2, <1>4, <1>6, <1>7

\* A sum of integers is an integer, a sum of naturals a natural.
LEMMA SumsType ==
  ASSUME NEW f, NEW D, IsFiniteSet(D), NEW V \in {Int, Nat}, \A x \in D : f[x] \in V
  PROVE  \A S \in SUBSET D : Sums(f, D)[S] \in V
<1> DEFINE B == {S \in SUBSET D : Sums(f, D)[S] \notin V}
<1> SUFFICES ASSUME B # {} PROVE FALSE
  OBVIOUS
<1>1. PICK S \in B : \A R \in B : Cardinality(S) <= Cardinality(R)
  <2>1. B \in SUBSET SUBSET D OBVIOUS
  <2> HIDE DEF B
  <2> QED BY <2>1, SmallestSubset
<1>2. S \in SUBSET D /\ S # {}
  <2>1. Sums(f, D)[{}] = 0
    BY SumsUnfold
  <2>2. 0 \in V
    OBVIOUS
  <2> QED BY <1>1, <2>1, <2>2
<1> DEFINE R == S \ {Chosen(S)}
<1>3. Chosen(S) \in D /\ R \in SUBSET D /\ Cardinality(R) = Cardinality(S) - 1
      /\ Cardinality(S) \in Nat
  BY <1>2, ChosenIsMember
<1>4. R \notin B
  <2> HIDE DEF B, R
  <2> QED BY <1>1, <1>3
<1>5. Sums(f, D)[R] \in V
  BY <1>3, <1>4
<1>6. Sums(f, D)[S] = f[Chosen(S)] + Sums(f, D)[R]
  BY <1>2, SumsUnfold
<1> QED BY <1>1, <1>3, <1>5, <1>6

\* Any member can be summed last.
LEMMA SumsSplit ==
  ASSUME NEW f, NEW D, IsFiniteSet(D), \A x \in D : f[x] \in Int
  PROVE  \A S \in SUBSET D : \A x \in S : Sums(f, D)[S] = f[x] + Sums(f, D)[S \ {x}]
<1> DEFINE Fails(S) == \E x \in S : Sums(f, D)[S] # f[x] + Sums(f, D)[S \ {x}]
           B == {S \in SUBSET D : Fails(S)}
<1> SUFFICES ASSUME B # {} PROVE FALSE
  OBVIOUS
<1>1. PICK S \in B : \A R \in B : Cardinality(S) <= Cardinality(R)
  <2>1. B \in SUBSET SUBSET D OBVIOUS
  <2> HIDE DEF B
  <2> QED BY <2>1, SmallestSubset
<1>2. PICK x \in S : Sums(f, D)[S] # f[x] + Sums(f, D)[S \ {x}]
  BY <1>1
<1>3. S \in SUBSET D /\ S # {}
  BY <1>2
<1> DEFINE c == Chosen(S)
<1>4. c \in S /\ S \ {c} \in SUBSET D /\ Cardinality(S \ {c}) = Cardinality(S) - 1
      /\ Cardinality(S) \in Nat
  BY <1>3, ChosenIsMember
<1>5. Cardinality(S \ {x}) = Cardinality(S) - 1
  BY <1>3, FS_Subset, FS_RemoveElement
<1>6. Sums(f, D)[S] = f[c] + Sums(f, D)[S \ {c}]
  <2>1. \A R \in SUBSET D : R # {} =>
            Sums(f, D)[R] = f[Chosen(R)] + Sums(f, D)[R \ {Chosen(R)}]
    BY SumsUnfold
  <2> QED BY <1>3, <2>1
<1>7. x # c
  BY <1>2, <1>6
<1>8. ~Fails(S \ {c}) /\ ~Fails(S \ {x})
  <2>1. \A R \in SUBSET D : Cardinality(R) = Cardinality(S) - 1 => R \notin B
    <3> HIDE DEF B
    <3> QED BY <1>1, <1>4
  <2> HIDE DEF Fails
  <2> QED BY <1>3, <1>4, <1>5, <2>1
<1> DEFINE rest == Sums(f, D)[(S \ {c}) \ {x}]
<1>9. /\ Sums(f, D)[S \ {c}] = f[x] + rest
      /\ Sums(f, D)[S \ {x}] = f[c] + rest
  <2>1. (S \ {x}) \ {c} = (S \ {c}) \ {x} OBVIOUS
  <2> QED BY <1>4, <1>7, <1>8, <2>1
<1>10. rest \in Int /\ f[c] \in Int /\ f[x] \in Int
  BY <1>3, <1>4, SumsType
<1> HIDE DEF rest, c
<1> QED BY <1>2, <1>6, <1>9, <1>10

(***************************************************************************)
(* Sums of functions on finite sets                                        *)
(***************************************************************************)

\* The sum of no values.
LEMMA SumOfNothing == ASSUME NEW f, DOMAIN f = {} PROVE SumFunction(f) = 0
BY SumIsSums, SumsUnfold, FS_EmptySet DEF SumFunction

\* The type of a sum.
LEMMA SumType ==
  ASSUME NEW D, IsFiniteSet(D), NEW V \in {Int, Nat}, NEW f \in [D -> V]
  PROVE  SumFunction(f) \in V
BY SumIsSums, SumsType DEF SumFunction

\* f has one value more than g, at x.
OneMore(f, g, x) ==
    /\ IsFiniteSet(DOMAIN f) /\ x \in DOMAIN f /\ f \in [DOMAIN f -> Int]
    /\ g \in [DOMAIN f \ {x} -> Int]
    /\ \A y \in DOMAIN f \ {x} : f[y] = g[y]

\* Then the sum of f is that of g and this value.
LEMMA SumOfOneMore ==
  ASSUME NEW f, NEW g, NEW x, OneMore(f, g, x)
  PROVE  SumFunction(f) = SumFunction(g) + f[x]
<1> DEFINE D == DOMAIN f
<1>1. /\ IsFiniteSet(D) /\ x \in D /\ f \in [D -> Int]
      /\ DOMAIN g = D \ {x} /\ g \in [D \ {x} -> Int] /\ \A y \in D \ {x} : f[y] = g[y]
  BY DEF OneMore
<1>2. IsFiniteSet(D \ {x})
  BY <1>1, FS_Subset
<1>3. SumFunction(f) = Sums(f, D)[D] /\ SumFunction(g) = Sums(g, D \ {x})[D \ {x}]
  BY <1>1, SumIsSums DEF SumFunction
<1> HIDE DEF D
<1>4. Sums(f, D)[D] = f[x] + Sums(f, D)[D \ {x}]
  BY <1>1, SumsSplit
<1>5. Sums(f, D)[D \ {x}] = Sums(g, D \ {x})[D \ {x}]
  BY <1>1, <1>2, SumsAgree
<1>6. f[x] \in Int /\ SumFunction(g) \in Int
  BY <1>1, <1>2, SumType
<1> QED BY <1>3, <1>4, <1>5, <1>6

\* The recursion of the sums over the subsets of D, with any member of a set in the place
\* of the chosen one.
Splits(f, D) ==
    \A S \in SUBSET D : \A x \in S : Sums(f, D)[S] = f[x] + Sums(f, D)[S \ {x}]

LEMMA SumsSplits ==
  ASSUME NEW f, NEW D, IsFiniteSet(D), \A x \in D : f[x] \in Int
  PROVE  Splits(f, D)
<1> SUFFICES ASSUME NEW S \in SUBSET D, NEW x \in S
             PROVE  Sums(f, D)[S] = f[x] + Sums(f, D)[S \ {x}]
  BY DEF Splits
<1> QED BY SumsSplit

\* One function on a larger set, as seen from a smaller one.
Agrees(f, g, D, E) == Sums(f, D)[E] = Sums(g, E)[E]

LEMMA SumsAgreeOn ==
  ASSUME NEW f, NEW g, NEW D, NEW E, IsFiniteSet(D), E \in SUBSET D, \A x \in E : f[x] = g[x]
  PROVE  Agrees(f, g, D, E)
<1>1. IsFiniteSet(E) /\ E \in SUBSET (D \cap E)
  BY FS_Subset
<1> QED BY <1>1, SumsAgree DEF Agrees

\* The sum of two functions is the sum of their sums.
LEMMA SumOfSums ==
  ASSUME NEW D, IsFiniteSet(D), NEW f \in [D -> Int], NEW g \in [D -> Int],
         NEW h \in [D -> Int], \A x \in D : h[x] = f[x] + g[x]
  PROVE  SumFunction(h) = SumFunction(f) + SumFunction(g)
<1> DEFINE Adds(S) == Sums(h, D)[S] = Sums(f, D)[S] + Sums(g, D)[S]
           B == {S \in SUBSET D : ~Adds(S)}
<1>1. B = {}
  <2> SUFFICES ASSUME B # {} PROVE FALSE
    OBVIOUS
  <2>1. PICK S \in B : \A R \in B : Cardinality(S) <= Cardinality(R)
    <3>1. B \in SUBSET SUBSET D OBVIOUS
    <3> HIDE DEF B
    <3> QED BY <3>1, SmallestSubset
  <2>2. S \in SUBSET D /\ S # {}
    <3>1. Sums(f, D)[{}] = 0 /\ Sums(g, D)[{}] = 0 /\ Sums(h, D)[{}] = 0
      BY SumsUnfold
    <3>2. Adds({})
      BY <3>1
    <3> HIDE DEF Adds
    <3> QED BY <2>1, <3>2
  <2> DEFINE c == Chosen(S)
             R == S \ {c}
  <2>3. c \in D /\ R \in SUBSET D /\ Cardinality(R) = Cardinality(S) - 1
        /\ Cardinality(S) \in Nat
    BY <2>2, ChosenIsMember
  <2>4. Adds(R)
    <3>1. R \notin B
      <4> HIDE DEF B, R
      <4> QED BY <2>1, <2>3
    <3> QED BY <2>3, <3>1
  <2>5. /\ Sums(f, D)[S] = f[c] + Sums(f, D)[R]
        /\ Sums(g, D)[S] = g[c] + Sums(g, D)[R]
        /\ Sums(h, D)[S] = h[c] + Sums(h, D)[R]
    <3>1. Splits(f, D) /\ Splits(g, D) /\ Splits(h, D)
      BY SumsSplits
    <3>2. c \in S
      BY <2>2 DEF Chosen
    <3> HIDE DEF c
    <3> QED BY <2>2, <3>1, <3>2 DEF Splits
  <2>6. /\ Sums(f, D)[R] \in Int /\ Sums(g, D)[R] \in Int /\ f[c] \in Int /\ g[c] \in Int
        /\ h[c] = f[c] + g[c]
    BY <2>3, SumsType
  <2> HIDE DEF c, R
  <2>7. Adds(S)
    BY <2>4, <2>5, <2>6
  <2> QED BY <2>1, <2>7
<1>2. Adds(D)
  <2> HIDE DEF Adds
  <2> QED BY <1>1
<1> QED BY <1>2, SumIsSums DEF SumFunction

\* A log that lists the values of a set once each, in any order, after what it held.
Lists(f, e, g, order, n, m) ==
    /\ IsFiniteSet(DOMAIN g) /\ m = Cardinality(DOMAIN g) /\ n \in Nat
    /\ g \in [DOMAIN g -> Int] /\ e \in [1 .. n -> Int] /\ f \in [1 .. (n + m) -> Int]
    /\ order \in [1 .. m -> DOMAIN g]
    /\ \A i, j \in 1 .. m : i # j => order[i] # order[j]
    /\ \A k \in 1 .. n : f[k] = e[k]
    /\ \A k \in 1 .. m : f[n + k] = g[order[k]]

LEMMA SumOfListed ==
  ASSUME NEW f, NEW e, NEW g, NEW order, NEW n, NEW m, Lists(f, e, g, order, n, m)
  PROVE  SumFunction(f) = SumFunction(e) + SumFunction(g)
<1> DEFINE D == DOMAIN g
<1>0. /\ IsFiniteSet(D) /\ m = Cardinality(D) /\ n \in Nat /\ m \in Nat
      /\ g \in [D -> Int] /\ e \in [1 .. n -> Int] /\ f \in [1 .. (n + m) -> Int]
      /\ order \in [1 .. m -> D]
      /\ \A i, j \in 1 .. m : i # j => order[i] # order[j]
      /\ \A k \in 1 .. n : f[k] = e[k]
      /\ \A k \in 1 .. m : f[n + k] = g[order[k]]
  BY FS_CardinalityType DEF Lists
<1>11. SumFunction(g) = Sums(g, D)[D]
  BY SumIsSums DEF SumFunction
<1> HIDE DEF D
<1> USE <1>0
<1> DEFINE E == 1 .. (n + m)
           First(k) == 1 .. (n + k)
           Listed(k) == {order[i] : i \in 1 .. k}
           Claim(k) == Sums(f, E)[First(k)] = Sums(f, E)[1 .. n] + Sums(g, D)[Listed(k)]
           T == {k \in 0 .. m : ~Claim(k)}
<1>1. IsFiniteSet(E) /\ IsFiniteSet(1 .. n)
  BY FS_Interval
<1>2. Listed(m) = D
  <2>1. order \in Injection(1 .. m, D)
    BY DEF Injection, IsInjective
  <2>2. Cardinality(1 .. m) = m
    BY FS_Interval
  <2>3. order \in Surjection(1 .. m, D)
    BY <2>1, <2>2, FS_Injection
  <2> QED BY <2>3 DEF Surjection
<1>3. \A k \in 0 .. m : First(k) \in SUBSET E /\ Listed(k) \in SUBSET D
  OBVIOUS
<1>9. /\ \A S \in SUBSET E : Sums(f, E)[S] \in Int
      /\ \A S \in SUBSET D : Sums(g, D)[S] \in Int
      /\ Sums(f, E)[1 .. n] \in Int
  <2>1. \A x \in E : f[x] \in Int
    OBVIOUS
  <2>2. 1 .. n \in SUBSET E
    OBVIOUS
  <2> HIDE DEF E
  <2>3. \A S \in SUBSET E : Sums(f, E)[S] \in Int
    BY <1>1, <2>1, SumsType
  <2>4. \A S \in SUBSET D : Sums(g, D)[S] \in Int
    BY SumsType
  <2> QED BY <2>2, <2>3, <2>4
<1>10. Splits(f, E) /\ Splits(g, D)
  <2> HIDE DEF E
  <2>1. \A x \in E : f[x] \in Int
    BY DEF E
  <2> QED BY <1>1, <2>1, SumsSplits
<1>4. T = {}
  <2> SUFFICES ASSUME T # {} PROVE FALSE
    OBVIOUS
  <2>1. PICK k \in T : \A i \in T : k <= i
    <3>1. T \in SUBSET Nat OBVIOUS
    <3> HIDE DEF T
    <3> QED BY <3>1, LeastNat
  <2>2. k # 0
    <3>1. Sums(f, E)[1 .. n] \in Int
      BY <1>9
    <3>2. Sums(g, D)[{}] = 0
      BY SumsUnfold
    <3>3. First(0) = 1 .. n /\ Listed(0) = {}
      OBVIOUS
    <3> DEFINE a == Sums(f, E)[1 .. n]
    <3>5. Sums(f, E)[First(0)] = a /\ Sums(g, D)[Listed(0)] = 0 /\ a \in Int
      <4> HIDE DEF First, Listed, E
      <4> QED BY <3>1, <3>2, <3>3
    <3>4. Claim(0)
      <4>1. a = a + 0
        <5> HIDE DEF a
        <5> QED BY <3>5
      <4> HIDE DEF First, Listed, E
      <4> QED BY <3>5, <4>1
    <3> QED BY <2>1, <3>4
  <2>3. k \in 1 .. m /\ k - 1 \in 0 .. m /\ n + k \in E
    BY <2>1, <2>2
  <2>4. Claim(k - 1)
    <3>1. k - 1 \notin T
      <4> HIDE DEF T
      <4> QED BY <2>1, <2>3
    <3> HIDE DEF Claim
    <3> QED BY <2>3, <3>1
  <2> DEFINE x == order[k]
  <2>5. First(k) \ {n + k} = First(k - 1) /\ n + k \in First(k)
    <3>1. k \in Nat /\ k >= 1
      BY <2>3
    <3>2. \A z \in Int : z \in First(k) \ {n + k} <=> z \in First(k - 1)
      BY <3>1
    <3>3. First(k) \subseteq Int /\ First(k - 1) \subseteq Int /\ n + k \in First(k)
      BY <3>1
    <3> HIDE DEF First
    <3> QED BY <3>2, <3>3
  <2>6. Listed(k) \ {x} = Listed(k - 1) /\ x \in Listed(k)
    BY <2>3
  <2>7. Sums(f, E)[First(k)] = f[n + k] + Sums(f, E)[First(k) \ {n + k}]
    <3>1. First(k) \in SUBSET E
      BY <1>3, <2>1
    <3> HIDE DEF First, E
    <3> QED BY <1>10, <2>5, <3>1 DEF Splits
  <2>8. Sums(g, D)[Listed(k)] = g[x] + Sums(g, D)[Listed(k) \ {x}]
    <3>1. Listed(k) \in SUBSET D
      BY <1>3, <2>1
    <3> HIDE DEF Listed, x
    <3> QED BY <1>10, <2>6, <3>1 DEF Splits
  <2>9. /\ f[n + k] = g[x] /\ g[x] \in Int
        /\ Sums(f, E)[1 .. n] \in Int /\ Sums(g, D)[Listed(k - 1)] \in Int
    <3>1. Listed(k - 1) \in SUBSET D
      BY <1>3, <2>3
    <3>3. Sums(g, D)[Listed(k - 1)] \in Int
      <4> HIDE DEF Listed
      <4> QED BY <1>9, <3>1
    <3> QED BY <1>9, <2>3, <3>3
  <2>10. Claim(k)
    <3> DEFINE a == Sums(f, E)[First(k)]
               b == Sums(f, E)[First(k - 1)]
               c == Sums(f, E)[1 .. n]
               d == Sums(g, D)[Listed(k)]
               h == Sums(g, D)[Listed(k - 1)]
               y == g[x]
    <3>1. a = y + b /\ b = c + h /\ d = y + h /\ y \in Int /\ c \in Int /\ h \in Int
      <4> HIDE DEF First, Listed, E, x
      <4> QED BY <2>4, <2>5, <2>6, <2>7, <2>8, <2>9
    <3> HIDE DEF a, b, c, d, h, y
    <3>2. a = c + d
      BY <3>1
    <3> QED BY <3>2 DEF a, c, d
  <2> HIDE DEF Claim
  <2> QED BY <2>1, <2>10
<1>5. Claim(m)
  <2> HIDE DEF Claim
  <2> QED BY <1>4
<1>6. SumFunction(f) = Sums(f, E)[E]
  BY SumIsSums DEF SumFunction
<1>8. SumFunction(e) = Sums(f, E)[1 .. n]
  <2>1. SumFunction(e) = Sums(e, 1 .. n)[1 .. n]
    BY SumIsSums DEF SumFunction
  <2>2. 1 .. n \in SUBSET (E \cap 1 .. n)
    OBVIOUS
  <2>3. Sums(f, E)[1 .. n] = Sums(e, 1 .. n)[1 .. n]
    <3> DEFINE F == 1 .. n
    <3>1. F \in SUBSET E /\ \A x \in F : f[x] = e[x]
      OBVIOUS
    <3> HIDE DEF E, F
    <3>2. Agrees(f, e, E, F)
      BY <1>1, <3>1, SumsAgreeOn
    <3> QED BY <3>2 DEF Agrees, F
  <2> QED BY <2>1, <2>3
<1> QED BY <1>2, <1>5, <1>6, <1>8, <1>11
================================================================================
