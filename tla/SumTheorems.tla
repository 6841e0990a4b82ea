----------------------------- MODULE SumTheorems -----------------------------
(***************************************************************************)
(* Sums over finite sets, as SumFunctionOnSet of the community modules      *)
(* computes them: that the recursion it is defined by has a solution, what  *)
(* one more element adds, and how sums of different functions compare.      *)
(* Every induction is a smallest counterexample.                            *)
(***************************************************************************)
EXTENDS Integers, Functions, FiniteSetTheorems, WellFoundedInduction, TLAPS

Sigma(f, S) == SumFunctionOnSet(f, S)

Pick(T) == CHOOSE x \in T : TRUE

SumBody(g, f, T) == IF T = {} THEN 0 ELSE f[Pick(T)] + g[T \ {Pick(T)}]

IsSum(g, f, S) == g = [T \in SUBSET S |-> SumBody(g, f, T)]

LEMMA PickIn == ASSUME NEW T, T # {} PROVE Pick(T) \in T
BY DEF Pick

(* A nonempty collection of finite sets has a smallest one. *)
LEMMA SmallestSet ==
  ASSUME NEW S, IsFiniteSet(S), NEW C, C \subseteq SUBSET S, C # {}
  PROVE  \E m \in C : \A t \in C : t \subseteq m => t = m
<1>1. C \subseteq FiniteSubsetsOf(S)
  BY FS_Subset DEF FiniteSubsetsOf
<1>2. PICK m \in C : \A t \in C : <<t, m>> \notin StrictSubsetOrdering(S)
  BY <1>1, FS_StrictSubsetOrderingWellFounded, WFMin
<1>3. ASSUME NEW t \in C, t \subseteq m, t # m
      PROVE  FALSE
  <2>1. <<t, m>> \in StrictSubsetOrdering(S)
    BY <1>3, <1>1 DEF StrictSubsetOrdering, FiniteSubsetsOf
  <2>2. QED  BY <1>2, <2>1
<1>4. QED  BY <1>2, <1>3

(* Two solutions of the recursion agree where both are defined. *)
LEMMA SumAgrees ==
  ASSUME NEW f, NEW S, IsFiniteSet(S), NEW T, NEW g, NEW h,
         IsSum(g, f, S), IsSum(h, f, T)
  PROVE  \A U \in SUBSET S : U \subseteq T => g[U] = h[U]
<1> DEFINE C == {U \in SUBSET S : U \subseteq T /\ g[U] # h[U]}
<1> SUFFICES ASSUME C # {} PROVE FALSE
  OBVIOUS
<1>0. C \subseteq SUBSET S
  OBVIOUS
<1>1. PICK m \in C : \A t \in C : t \subseteq m => t = m
  <2> HIDE DEF C
  <2>1. QED  BY <1>0, SmallestSet
<1>2. g[m] = SumBody(g, f, m) /\ h[m] = SumBody(h, f, m)
  BY <1>1 DEF IsSum
<1>3. m # {}
  BY <1>1, <1>2 DEF SumBody
<1> DEFINE u == m \ {Pick(m)}
<1>4. u \subseteq m /\ u # m /\ u \in SUBSET S /\ u \subseteq T
  BY <1>1, <1>3, PickIn
<1>5. g[u] = h[u]
  BY <1>1, <1>4
<1>6. QED  BY <1>1, <1>2, <1>3, <1>5 DEF SumBody

(* There is one on every finite set. *)
LEMMA SumExists ==
  ASSUME NEW f, NEW S, IsFiniteSet(S)
  PROVE  \E g : IsSum(g, f, S)
<1> DEFINE C == {T \in SUBSET S : ~\E g : IsSum(g, f, T)}
<1> SUFFICES ASSUME C # {} PROVE FALSE
  BY DEF C
<1>0. C \subseteq SUBSET S
  OBVIOUS
<1>1. PICK m \in C : \A t \in C : t \subseteq m => t = m
  <2> HIDE DEF C
  <2>1. QED  BY <1>0, SmallestSet
<1> DEFINE Own(U) == CHOOSE g : IsSum(g, f, U)
           h == [U \in SUBSET m |-> IF U = {} THEN 0
                   ELSE f[Pick(U)] + Own(U \ {Pick(U)})[U \ {Pick(U)}]]
<1>2. ASSUME NEW U, U \subseteq m, U # m
      PROVE  IsSum(Own(U), f, U)
  <2>1. \E g : IsSum(g, f, U)
    BY <1>1, <1>2
  <2>2. QED  BY <2>1
<1>3. ASSUME NEW U \in SUBSET m
      PROVE  h[U] = SumBody(h, f, U)
  <2>1. CASE U = {}
    BY <2>1 DEF SumBody
  <2>2. CASE U # {}
    <3> DEFINE W == U \ {Pick(U)}
    <3>1. Pick(U) \in U
      BY <2>2, PickIn
    <3>2. W \subseteq m /\ W # m /\ IsFiniteSet(W)
      BY <3>1, <1>1, FS_Subset
    <3>3. IsSum(Own(W), f, W)
      BY <3>2, <1>2
    <3>4. Own(W)[W] = SumBody(Own(W), f, W)
      <4> HIDE DEF Own, W
      <4>1. QED  BY <3>3 DEF IsSum
    <3>5. h[W] = Own(W)[W]
      <4>1. CASE W = {}
        BY <4>1, <3>4 DEF SumBody
      <4>2. CASE W # {}
        <5> DEFINE V == W \ {Pick(W)}
        <5>1. Pick(W) \in W
          BY <4>2, PickIn
        <5>2. V \subseteq W /\ V # m /\ V \subseteq m /\ IsFiniteSet(V)
          BY <5>1, <3>2, FS_Subset
        <5>3. IsSum(Own(V), f, V)
          BY <5>2, <1>2
        <5>4. Own(V)[V] = Own(W)[V]
          <6> HIDE DEF Own, V, W
          <6>1. QED  BY <5>3, <3>3, <5>2, <3>2, SumAgrees
        <5>5. h[W] = f[Pick(W)] + Own(V)[V]
          BY <3>2, <4>2
        <5>6. QED  BY <5>4, <5>5, <3>4, <4>2 DEF SumBody
      <4>3. QED  BY <4>1, <4>2
    <3>6. h[U] = f[Pick(U)] + Own(W)[W]
      BY <2>2
    <3>7. QED  BY <3>5, <3>6, <2>2 DEF SumBody
  <2>3. QED  BY <2>1, <2>2
<1>4. h = [U \in SUBSET m |-> h[U]]
  OBVIOUS
<1>5. IsSum(h, f, m)
  <2> HIDE DEF h
  <2>1. QED  BY <1>3, <1>4 DEF IsSum
<1>6. QED  BY <1>1, <1>5

(* So the sum is what a solution says. *)
LEMMA SigmaIs ==
  ASSUME NEW f, NEW S, IsFiniteSet(S)
  PROVE  \E g : IsSum(g, f, S) /\ Sigma(f, S) = g[S]
<1>1. Sigma(f, S) = (CHOOSE g : IsSum(g, f, S))[S]
  BY DEF Sigma, SumFunctionOnSet, FoldFunctionOnSet, MapThenFoldSet, IsSum, SumBody, Pick
<1>2. IsSum(CHOOSE g : IsSum(g, f, S), f, S)
  BY SumExists
<1>3. QED  BY <1>1, <1>2

(* What the community definition computes. *)
LEMMA SigmaRec ==
  ASSUME NEW f, NEW S, IsFiniteSet(S)
  PROVE  /\ S = {} => Sigma(f, S) = 0
         /\ S # {} => Sigma(f, S) = f[Pick(S)] + Sigma(f, S \ {Pick(S)})
<1>1. PICK g : IsSum(g, f, S) /\ Sigma(f, S) = g[S]
  BY SigmaIs
<1>2. g[S] = SumBody(g, f, S)
  BY <1>1 DEF IsSum
<1>3. ASSUME S # {}
      PROVE  g[S \ {Pick(S)}] = Sigma(f, S \ {Pick(S)})
  <2> DEFINE T == S \ {Pick(S)}
  <2>1. IsFiniteSet(T) /\ T \subseteq S
    BY FS_Subset
  <2>2. PICK h : IsSum(h, f, T) /\ Sigma(f, T) = h[T]
    BY <2>1, SigmaIs
  <2>3. g[T] = h[T]
    <3> HIDE DEF T
    <3>1. QED  BY <1>1, <2>1, <2>2, SumAgrees
  <2>4. QED  BY <2>2, <2>3
<1>4. QED  BY <1>1, <1>2, <1>3 DEF SumBody

-----------------------------------------------------------------------------
(* A sum of integers is one. *)
LEMMA SigmaInt ==
  ASSUME NEW f, NEW S, IsFiniteSet(S), \A x \in S : f[x] \in Int
  PROVE  Sigma(f, S) \in Int
<1> DEFINE C == {T \in SUBSET S : Sigma(f, T) \notin Int}
<1> SUFFICES ASSUME C # {} PROVE FALSE
  OBVIOUS
<1>0. C \subseteq SUBSET S
  OBVIOUS
<1>1. PICK m \in C : \A t \in C : t \subseteq m => t = m
  <2> HIDE DEF C
  <2>1. QED  BY <1>0, SmallestSet
<1>2. IsFiniteSet(m)
  BY <1>1, FS_Subset
<1>3. m # {}
  <2>1. ASSUME m = {} PROVE Sigma(f, m) = 0
    BY <2>1, <1>2, SigmaRec
  <2>2. QED  BY <2>1, <1>1
<1>4. Sigma(f, m) = f[Pick(m)] + Sigma(f, m \ {Pick(m)}) /\ Pick(m) \in m
  BY <1>2, <1>3, SigmaRec, PickIn
<1>5. Sigma(f, m \ {Pick(m)}) \in Int
  BY <1>1, <1>4
<1>6. QED  BY <1>1, <1>4, <1>5

(* Any element may be taken out first. *)
LEMMA SigmaTake ==
  ASSUME NEW f, NEW S, IsFiniteSet(S), \A y \in S : f[y] \in Int, NEW x \in S
  PROVE  Sigma(f, S) = f[x] + Sigma(f, S \ {x})
<1> DEFINE Wrong(T) == \E y \in T : Sigma(f, T) # f[y] + Sigma(f, T \ {y})
           C == {T \in SUBSET S : Wrong(T)}
<1> SUFFICES ASSUME C # {} PROVE FALSE
  OBVIOUS
<1>0. C \subseteq SUBSET S
  OBVIOUS
<1>1. PICK m \in C : \A t \in C : t \subseteq m => t = m
  <2> HIDE DEF C
  <2>1. QED  BY <1>0, SmallestSet
<1>2. PICK y \in m : Sigma(f, m) # f[y] + Sigma(f, m \ {y})
  BY <1>1
<1> DEFINE a == Pick(m)
<1>3. a \in m /\ IsFiniteSet(m) /\ Sigma(f, m) = f[a] + Sigma(f, m \ {a})
  BY <1>1, <1>2, PickIn, FS_Subset, SigmaRec
<1>4. a # y
  BY <1>2, <1>3
<1> DEFINE both == (m \ {a}) \ {y}
<1>5. both = (m \ {y}) \ {a} /\ y \in m \ {a} /\ a \in m \ {y}
  BY <1>2, <1>3, <1>4
<1>6. ~Wrong(m \ {a}) /\ ~Wrong(m \ {y})
  <2>1. m \ {a} \in SUBSET S /\ m \ {y} \in SUBSET S
    BY <1>1
  <2>2. m \ {a} # m /\ m \ {y} # m
    BY <1>2, <1>3
  <2>3. m \ {a} \notin C /\ m \ {y} \notin C
    <3> HIDE DEF C, a
    <3>1. QED  BY <1>1, <2>2
  <2> HIDE DEF Wrong, a
  <2>4. QED  BY <2>1, <2>3
<1>7. Sigma(f, m \ {a}) = f[y] + Sigma(f, both) /\ Sigma(f, m \ {y}) = f[a] + Sigma(f, both)
  BY <1>5, <1>6
<1>8. f[y] \in Int /\ f[a] \in Int /\ Sigma(f, both) \in Int
  <2>1. IsFiniteSet(both) /\ both \subseteq S
    BY <1>1, FS_Subset
  <2>2. QED  BY <1>1, <1>2, <1>3, <2>1, SigmaInt
<1>9. QED
  <2> HIDE DEF both, a
  <2>1. QED  BY <1>2, <1>3, <1>7, <1>8

(* Sums are compared term by term: what is k times the terms of one and at most n *)
(* times those of the other is so of the sums.                                    *)
LEMMA SigmaScale ==
  ASSUME NEW S, IsFiniteSet(S), NEW f, NEW g, NEW k \in Int, NEW n \in Int,
         \A x \in S : f[x] \in Int /\ g[x] \in Int /\ k * f[x] <= n * g[x]
  PROVE  k * Sigma(f, S) <= n * Sigma(g, S)
<1> DEFINE C == {T \in SUBSET S : ~(k * Sigma(f, T) <= n * Sigma(g, T))}
<1> SUFFICES ASSUME C # {} PROVE FALSE
  OBVIOUS
<1>0. C \subseteq SUBSET S
  OBVIOUS
<1>1. PICK m \in C : \A t \in C : t \subseteq m => t = m
  <2> HIDE DEF C
  <2>1. QED  BY <1>0, SmallestSet
<1>2. IsFiniteSet(m)
  BY <1>1, FS_Subset
<1>3. m # {}
  <2>1. ASSUME m = {} PROVE Sigma(f, m) = 0 /\ Sigma(g, m) = 0
    BY <2>1, <1>2, SigmaRec
  <2>2. QED  BY <2>1, <1>1
<1> DEFINE a == Pick(m)
           r == m \ {a}
<1>4. /\ a \in m /\ r \subseteq m /\ r # m /\ r \in SUBSET S /\ IsFiniteSet(r)
      /\ Sigma(f, m) = f[a] + Sigma(f, r) /\ Sigma(g, m) = g[a] + Sigma(g, r)
  BY <1>1, <1>2, <1>3, PickIn, FS_Subset, SigmaRec
<1>5. Sigma(f, r) \in Int /\ Sigma(g, r) \in Int
  BY <1>4, SigmaInt
<1>6. k * Sigma(f, r) <= n * Sigma(g, r)
  BY <1>1, <1>4
<1>7. f[a] \in Int /\ g[a] \in Int /\ k * f[a] <= n * g[a]
  BY <1>1, <1>4
<1> HIDE DEF a, r
<1>8. ASSUME NEW u \in Int, NEW v \in Int, NEW p \in Int, NEW q \in Int,
             k * u <= n * v, k * p <= n * q
      PROVE  k * (u + p) <= n * (v + q)
  BY <1>8
<1>9. QED
  <2>1. k * (f[a] + Sigma(f, r)) <= n * (g[a] + Sigma(g, r))
    BY <1>5, <1>6, <1>7, <1>8
  <2>2. QED  BY <2>1, <1>1, <1>4

(* Sums keep the order, *)
LEMMA SigmaLeq ==
  ASSUME NEW S, IsFiniteSet(S), NEW f, NEW g,
         \A x \in S : f[x] \in Int /\ g[x] \in Int /\ f[x] <= g[x]
  PROVE  Sigma(f, S) <= Sigma(g, S)
<1>1. 1 * Sigma(f, S) <= 1 * Sigma(g, S)
  <2>1. \A x \in S : f[x] \in Int /\ g[x] \in Int /\ 1 * f[x] <= 1 * g[x]
    OBVIOUS
  <2>2. QED  BY <2>1, SigmaScale
<1>2. QED  BY <1>1, SigmaInt

(* depend on nothing but the terms, *)
LEMMA SigmaSame ==
  ASSUME NEW S, IsFiniteSet(S), NEW f, NEW g,
         \A x \in S : f[x] \in Int /\ g[x] = f[x]
  PROVE  Sigma(f, S) = Sigma(g, S)
<1>1. Sigma(f, S) <= Sigma(g, S)
  BY SigmaLeq
<1>2. Sigma(g, S) <= Sigma(f, S)
  BY SigmaLeq
<1>3. QED  BY <1>1, <1>2, SigmaInt

(* and add up. *)
LEMMA SigmaPlus ==
  ASSUME NEW S, IsFiniteSet(S), NEW f, NEW g, NEW h,
         \A x \in S : f[x] \in Int /\ g[x] \in Int /\ h[x] = f[x] + g[x]
  PROVE  Sigma(h, S) = Sigma(f, S) + Sigma(g, S)
<1> DEFINE C == {T \in SUBSET S : Sigma(h, T) # Sigma(f, T) + Sigma(g, T)}
<1> SUFFICES ASSUME C # {} PROVE FALSE
  OBVIOUS
<1>0. C \subseteq SUBSET S
  OBVIOUS
<1>1. PICK m \in C : \A t \in C : t \subseteq m => t = m
  <2> HIDE DEF C
  <2>1. QED  BY <1>0, SmallestSet
<1>2. IsFiniteSet(m)
  BY <1>1, FS_Subset
<1>3. m # {}
  <2>1. ASSUME m = {} PROVE Sigma(f, m) = 0 /\ Sigma(g, m) = 0 /\ Sigma(h, m) = 0
    BY <2>1, <1>2, SigmaRec
  <2>2. QED  BY <2>1, <1>1
<1> DEFINE a == Pick(m)
           r == m \ {a}
<1>4. /\ a \in m /\ r \subseteq m /\ r # m /\ r \in SUBSET S /\ IsFiniteSet(r)
      /\ Sigma(f, m) = f[a] + Sigma(f, r) /\ Sigma(g, m) = g[a] + Sigma(g, r)
      /\ Sigma(h, m) = h[a] + Sigma(h, r)
  BY <1>1, <1>2, <1>3, PickIn, FS_Subset, SigmaRec
<1>5. Sigma(f, r) \in Int /\ Sigma(g, r) \in Int
  BY <1>4, SigmaInt
<1>6. Sigma(h, r) = Sigma(f, r) + Sigma(g, r)
  BY <1>1, <1>4
<1>7. f[a] \in Int /\ g[a] \in Int /\ h[a] = f[a] + g[a]
  BY <1>1, <1>4
<1> HIDE DEF a, r
<1>8. QED  BY <1>1, <1>4, <1>5, <1>6, <1>7

(* Terms that are at most the k-th part of an amount sum up to no more than the amount, *)
(* if there are at most k of them.                                                     *)
LEMMA SigmaShares ==
  ASSUME NEW S, IsFiniteSet(S), NEW f, NEW k \in Nat \ {0}, NEW a \in Nat,
         \A x \in S : f[x] \in Int /\ k * f[x] <= a, Cardinality(S) <= k
  PROVE  Sigma(f, S) <= a
<1> DEFINE C == {T \in SUBSET S : ~(k * Sigma(f, T) <= Cardinality(T) * a)}
<1>1. ASSUME C # {} PROVE FALSE
  <2>0. C \subseteq SUBSET S
    OBVIOUS
  <2>1. PICK m \in C : \A t \in C : t \subseteq m => t = m
    <3> HIDE DEF C
    <3>1. QED  BY <1>1, <2>0, SmallestSet
  <2>2. IsFiniteSet(m)
    BY <2>1, FS_Subset
  <2>3. m # {}
    <3>1. ASSUME m = {} PROVE Sigma(f, m) = 0 /\ Cardinality(m) = 0
      BY <3>1, <2>2, SigmaRec, FS_EmptySet
    <3>2. QED  BY <3>1, <2>1
  <2> DEFINE y == Pick(m)
             r == m \ {y}
  <2>4. /\ y \in m /\ r \subseteq m /\ r # m /\ r \in SUBSET S /\ IsFiniteSet(r)
        /\ Sigma(f, m) = f[y] + Sigma(f, r)
    BY <2>1, <2>2, <2>3, PickIn, FS_Subset, SigmaRec
  <2>5. Cardinality(r) = Cardinality(m) - 1 /\ Cardinality(m) \in Nat
    BY <2>2, <2>4, FS_RemoveElement, FS_CardinalityType
  <2>6. Sigma(f, r) \in Int
    BY <2>4, SigmaInt
  <2>7. k * Sigma(f, r) <= Cardinality(r) * a
    BY <2>1, <2>4
  <2>8. f[y] \in Int /\ k * f[y] <= a
    BY <2>1, <2>4
  <2> HIDE DEF y, r
  <2>9. ASSUME NEW s \in Int, NEW v \in Int, NEW n \in Int,
               k * s <= (n - 1) * a, k * v <= a
        PROVE  k * (v + s) <= n * a
    BY <2>9
  <2>10. k * Sigma(f, m) <= Cardinality(m) * a
    BY <2>4, <2>5, <2>6, <2>7, <2>8, <2>9
  <2>11. QED  BY <2>1, <2>10
<1>2. k * Sigma(f, S) <= Cardinality(S) * a
  BY <1>1
<1>3. Cardinality(S) \in Nat /\ Sigma(f, S) \in Int
  BY FS_CardinalityType, SigmaInt
<1>4. ASSUME NEW n \in Nat, n <= k PROVE n * a <= k * a
  BY <1>4
<1>5. ASSUME NEW s \in Int, k * s <= k * a PROVE s <= a
  BY <1>5
<1>6. k * Sigma(f, S) <= k * a
  BY <1>2, <1>3, <1>4
<1>7. QED  BY <1>3, <1>5, <1>6

(* A sum is split by a key: over the keys, the sums of the elements of each. *)
LEMMA SigmaSplit ==
  ASSUME NEW S, IsFiniteSet(S), NEW f, \A x \in S : f[x] \in Int,
         NEW K, IsFiniteSet(K), NEW key \in [S -> K]
  PROVE  Sigma([c \in K |-> Sigma(f, {x \in S : key[x] = c})], K) = Sigma(f, S)
<1> DEFINE Part(T, c) == {x \in T : key[x] = c}
           parts(T) == [c \in K |-> Sigma(f, Part(T, c))]
           C == {T \in SUBSET S : Sigma(parts(T), K) # Sigma(f, T)}
<1> SUFFICES ASSUME C # {} PROVE FALSE
  OBVIOUS
<1>0. C \subseteq SUBSET S
  OBVIOUS
<1>1. PICK m \in C : \A t \in C : t \subseteq m => t = m
  <2> HIDE DEF C
  <2>1. QED  BY <1>0, SmallestSet
<1>2. IsFiniteSet(m) /\ m \in SUBSET S
  BY <1>1, FS_Subset
<1>3. ASSUME NEW T \in SUBSET S, NEW c \in K
      PROVE  IsFiniteSet(Part(T, c)) /\ parts(T)[c] = Sigma(f, Part(T, c)) /\ parts(T)[c] \in Int
  <2>1. Part(T, c) \in SUBSET S
    OBVIOUS
  <2>2. IsFiniteSet(Part(T, c)) /\ \A x \in Part(T, c) : f[x] \in Int
    BY <2>1, FS_Subset
  <2>3. parts(T)[c] = Sigma(f, Part(T, c))
    OBVIOUS
  <2> HIDE DEF Part, parts
  <2>4. Sigma(f, Part(T, c)) \in Int
    BY <2>2, SigmaInt
  <2>5. QED  BY <2>2, <2>3, <2>4
<1>4. m # {}
  <2>1. ASSUME m = {} PROVE FALSE
    <3>1. \A c \in K : Part(m, c) = {}
      BY <2>1
    <3>2. \A c \in K : parts(m)[c] = 0
      <4>1. ASSUME NEW c \in K PROVE Sigma(f, Part(m, c)) = 0
        <5> HIDE DEF Part
        <5>1. QED  BY <3>1, FS_EmptySet, SigmaRec
      <4>2. QED  BY <4>1
    <3>3. 1 * Sigma(parts(m), K) <= 0 * Sigma(parts(m), K)
      <4> HIDE DEF parts
      <4>1. \A c \in K : parts(m)[c] \in Int /\ 1 * parts(m)[c] <= 0 * parts(m)[c]
        BY <3>2
      <4>2. QED  BY <4>1, SigmaScale
    <3>4. 0 * Sigma(parts(m), K) <= 1 * Sigma(parts(m), K)
      <4> HIDE DEF parts
      <4>1. \A c \in K : parts(m)[c] \in Int /\ 0 * parts(m)[c] <= 1 * parts(m)[c]
        BY <3>2
      <4>2. QED  BY <4>1, SigmaScale
    <3>5. Sigma(parts(m), K) \in Int
      <4> HIDE DEF parts
      <4>1. QED  BY <3>2, SigmaInt
    <3>6. Sigma(f, m) = 0
      BY <2>1, <1>2, SigmaRec
    <3>7. Sigma(parts(m), K) = 0
      <4> HIDE DEF parts
      <4>1. QED  BY <3>3, <3>4, <3>5
    <3>8. QED  BY <3>6, <3>7, <1>1
  <2>2. QED  BY <2>1
<1> DEFINE a == Pick(m)
           r == m \ {a}
           b == key[a]
<1>5. a \in m /\ r \in SUBSET S /\ r \subseteq m /\ r # m /\ IsFiniteSet(r) /\ b \in K
  BY <1>2, <1>4, PickIn, FS_Subset
<1>6. Sigma(f, m) = f[a] + Sigma(f, r)
  BY <1>2, <1>4, SigmaRec
<1>7. Sigma(parts(r), K) = Sigma(f, r)
  BY <1>1, <1>5
<1>8. parts(m)[b] = f[a] + parts(r)[b]
  <2>1. a \in Part(m, b) /\ Part(m, b) \ {a} = Part(r, b)
    BY <1>5
  <2>2. \A x \in Part(m, b) : f[x] \in Int
    BY <1>2
  <2>3. IsFiniteSet(Part(m, b)) /\ parts(m)[b] = Sigma(f, Part(m, b)) /\ parts(r)[b] = Sigma(f, Part(r, b))
    BY <1>2, <1>3, <1>5
  <2> HIDE DEF Part, parts, a, r, b
  <2>4. Sigma(f, Part(m, b)) = f[a] + Sigma(f, Part(m, b) \ {a})
    BY <2>1, <2>2, <2>3, SigmaTake
  <2>5. QED  BY <2>1, <2>3, <2>4
<1>9. \A c \in K \ {b} : parts(m)[c] = parts(r)[c]
  <2>1. ASSUME NEW c \in K \ {b} PROVE Part(m, c) = Part(r, c)
    BY <1>5
  <2>2. QED  BY <2>1
<1>10. \A c \in K : parts(m)[c] \in Int /\ parts(r)[c] \in Int
  BY <1>2, <1>3, <1>5
<1> HIDE DEF Part, parts, a, r, b
<1>11. Sigma(parts(m), K) = parts(m)[b] + Sigma(parts(m), K \ {b})
  BY <1>5, <1>10, SigmaTake
<1>12. Sigma(parts(r), K) = parts(r)[b] + Sigma(parts(r), K \ {b})
  BY <1>5, <1>10, SigmaTake
<1>13. IsFiniteSet(K \ {b})
  BY FS_Subset
<1>14. Sigma(parts(m), K \ {b}) = Sigma(parts(r), K \ {b})
  BY <1>9, <1>10, <1>13, SigmaSame
<1>15. /\ f[a] \in Int /\ Sigma(f, r) \in Int /\ Sigma(parts(r), K \ {b}) \in Int
       /\ parts(r)[b] \in Int
  BY <1>2, <1>5, <1>10, <1>13, SigmaInt
<1>16. Sigma(parts(m), K) = Sigma(f, m)
  BY <1>6, <1>7, <1>8, <1>11, <1>12, <1>14, <1>15
<1>17. QED  BY <1>1, <1>16
(* Elements whose terms are zero do not count. *)
LEMMA SigmaZeros ==
  ASSUME NEW S, IsFiniteSet(S), NEW f, \A x \in S : f[x] \in Int,
         NEW T, T \subseteq S, \A x \in S \ T : f[x] = 0
  PROVE  Sigma(f, S) = Sigma(f, T)
<1> DEFINE C == {U \in SUBSET S : T \subseteq U /\ Sigma(f, U) # Sigma(f, T)}
<1> SUFFICES ASSUME C # {} PROVE FALSE
  OBVIOUS
<1>0. C \subseteq SUBSET S
  OBVIOUS
<1>1. PICK m \in C : \A t \in C : t \subseteq m => t = m
  <2> HIDE DEF C
  <2>1. QED  BY <1>0, SmallestSet
<1>2. PICK x \in m : x \notin T
  <2>1. m # T /\ T \subseteq m
    BY <1>1
  <2>2. QED  BY <2>1
<1>3. IsFiniteSet(m) /\ IsFiniteSet(m \ {x}) /\ f[x] = 0 /\ \A y \in m : f[y] \in Int
  BY <1>1, <1>2, FS_Subset
<1>4. Sigma(f, m) = f[x] + Sigma(f, m \ {x}) /\ Sigma(f, m \ {x}) \in Int
  BY <1>2, <1>3, SigmaTake, SigmaInt
<1>5. Sigma(f, m \ {x}) = Sigma(f, T)
  BY <1>1, <1>2
<1>6. QED  BY <1>1, <1>3, <1>4, <1>5

LEMMA SigmaEmpty == ASSUME NEW f PROVE Sigma(f, {}) = 0
BY FS_EmptySet, SigmaRec

(* One more element adds its term. *)
LEMMA SigmaGrow ==
  ASSUME NEW S, IsFiniteSet(S), NEW f, NEW g, \A y \in S : f[y] \in Int /\ g[y] = f[y],
         NEW x, x \notin S, g[x] \in Int
  PROVE  Sigma(g, S \cup {x}) = g[x] + Sigma(f, S)
<1>1. IsFiniteSet(S \cup {x}) /\ (S \cup {x}) \ {x} = S
  BY FS_AddElement
<1>2. Sigma(g, S \cup {x}) = g[x] + Sigma(g, S)
  BY <1>1, SigmaTake
<1>3. QED  BY <1>2, SigmaSame

(* Natural terms have a natural sum. *)
LEMMA SigmaNat ==
  ASSUME NEW S, IsFiniteSet(S), NEW f, \A x \in S : f[x] \in Nat
  PROVE  Sigma(f, S) \in Nat
<1>1. 0 * Sigma(f, S) <= 1 * Sigma(f, S)
  <2>1. \A x \in S : f[x] \in Int /\ 0 * f[x] <= 1 * f[x]
    OBVIOUS
  <2>2. QED  BY <2>1, SigmaScale
<1>2. Sigma(f, S) \in Int
  BY SigmaInt
<1>3. QED  BY <1>1, <1>2

(* A finite set has an element of the greatest weight. *)
LEMMA GreatestExists ==
  ASSUME NEW S, IsFiniteSet(S), S # {}, NEW w, \A x \in S : w[x] \in Int
  PROVE  \E x \in S : \A y \in S : w[y] <= w[x]
<1> DEFINE Has(T) == \E x \in T : \A y \in T : w[y] <= w[x]
           C == {T \in SUBSET S : T # {} /\ ~Has(T)}
<1> SUFFICES ASSUME C # {} PROVE FALSE
  OBVIOUS
<1>0. C \subseteq SUBSET S
  OBVIOUS
<1>1. PICK m \in C : \A t \in C : t \subseteq m => t = m
  <2> HIDE DEF C
  <2>1. QED  BY <1>0, SmallestSet
<1>2. PICK a \in m : TRUE
  BY <1>1
<1>3. CASE m \ {a} = {}
  <2>1. \A y \in m : y = a /\ w[y] <= w[a]
    BY <1>1, <1>2, <1>3
  <2>2. QED  BY <2>1, <1>1, <1>2
<1>4. CASE m \ {a} # {}
  <2>1. Has(m \ {a})
    <3>1. m \ {a} \in SUBSET S /\ m \ {a} # m /\ m \ {a} \subseteq m
      BY <1>1, <1>2
    <3>2. m \ {a} \notin C
      <4> HIDE DEF C
      <4>1. QED  BY <1>1, <3>1
    <3>3. QED  BY <3>1, <3>2, <1>4
  <2>2. PICK b \in m \ {a} : \A y \in m \ {a} : w[y] <= w[b]
    BY <2>1
  <2>3. w[a] \in Int /\ w[b] \in Int /\ \A y \in m : w[y] \in Int
    BY <1>1, <1>2, <2>2
  <2>4. CASE w[a] <= w[b]
    BY <1>1, <2>2, <2>4
  <2>5. CASE w[b] <= w[a]
    <3>1. \A y \in m : w[y] <= w[a]
      BY <2>2, <2>3, <2>5
    <3>2. QED  BY <1>1, <1>2, <3>1
  <2>6. QED  BY <2>3, <2>4, <2>5
<1>5. QED  BY <1>3, <1>4

(* A single term is its sum. *)
LEMMA SigmaOne ==
  ASSUME NEW f, NEW x, f[x] \in Int
  PROVE  Sigma(f, {x}) = f[x]
<1>1. IsFiniteSet({x}) /\ x \in {x} /\ {x} \ {x} = {}
  BY FS_Singleton
<1>2. Sigma(f, {x}) = f[x] + Sigma(f, {x} \ {x})
  BY <1>1, SigmaTake
<1>3. QED  BY <1>1, <1>2, SigmaEmpty

(* A sum is that of a part and that of the rest. *)
LEMMA SigmaRest ==
  ASSUME NEW S, IsFiniteSet(S), NEW f, \A x \in S : f[x] \in Int,
         NEW T, T \subseteq S
  PROVE  Sigma(f, S) = Sigma(f, T) + Sigma(f, S \ T)
<1> DEFINE g == [x \in S |-> IF x \in T THEN f[x] ELSE 0]
           h == [x \in S |-> IF x \in T THEN 0 ELSE f[x]]
<1>1. /\ \A x \in S : g[x] \in Int /\ h[x] \in Int /\ f[x] = g[x] + h[x]
      /\ \A x \in T : g[x] = f[x]
      /\ \A x \in S \ T : g[x] = 0 /\ h[x] = f[x]
      /\ \A x \in S \ (S \ T) : h[x] = 0
  OBVIOUS
<1>2. IsFiniteSet(T) /\ IsFiniteSet(S \ T) /\ S \ T \subseteq S
  BY FS_Subset
<1> HIDE DEF g, h
<1>3. Sigma(f, S) = Sigma(g, S) + Sigma(h, S)
  BY <1>1, SigmaPlus
<1>4. Sigma(g, S) = Sigma(g, T)
  BY <1>1, SigmaZeros
<1>5. Sigma(h, S) = Sigma(h, S \ T)
  BY <1>1, <1>2, SigmaZeros
<1>6. Sigma(g, T) = Sigma(f, T)
  BY <1>1, <1>2, SigmaSame
<1>7. Sigma(h, S \ T) = Sigma(f, S \ T)
  BY <1>1, <1>2, SigmaSame
<1>8. QED  BY <1>3, <1>4, <1>5, <1>6, <1>7

(* Multiples of a number add up to one. *)
LEMMA SigmaMultiple ==
  ASSUME NEW S, IsFiniteSet(S), NEW f, NEW m \in Int,
         \A x \in S : \E k \in Int : f[x] = k * m
  PROVE  \E k \in Int : Sigma(f, S) = k * m
<1> DEFINE g == [x \in S |-> CHOOSE k \in Int : f[x] = k * m]
<1>1. \A x \in S : g[x] \in Int /\ f[x] = g[x] * m
  OBVIOUS
<1> HIDE DEF g
<1>2. \A x \in S : f[x] \in Int /\ f[x] = m * g[x]
  BY <1>1
<1>3. Sigma(f, S) \in Int /\ Sigma(g, S) \in Int
  BY <1>1, <1>2, SigmaInt
<1>4. 1 * Sigma(f, S) <= m * Sigma(g, S)
  BY <1>1, <1>2, SigmaScale
<1>5. m * Sigma(g, S) <= 1 * Sigma(f, S)
  BY <1>1, <1>2, SigmaScale
<1>6. m * Sigma(g, S) \in Int /\ m * Sigma(g, S) = Sigma(g, S) * m
  BY <1>3
<1>7. Sigma(f, S) = Sigma(g, S) * m
  BY <1>3, <1>4, <1>5, <1>6
<1>8. QED  BY <1>3, <1>7

(* A sum is the same over elements renamed one to one. *)
LEMMA SigmaRenamed ==
  ASSUME NEW S, IsFiniteSet(S), NEW f, \A x \in S : f[x] \in Int,
         NEW T, NEW g, NEW h \in [S -> T],
         \A x \in S : g[h[x]] = f[x],
         \A x, y \in S : h[x] = h[y] => x = y,
         \A t \in T : \E x \in S : h[x] = t
  PROVE  Sigma(g, T) = Sigma(f, S) /\ IsFiniteSet(T)
<1>1. IsFiniteSet(T)
  <2>1. h \in Surjection(S, T)
    BY DEF Surjection
  <2>2. QED  BY <2>1, FS_Surjection
<1> DEFINE part == [t \in T |-> Sigma(f, {x \in S : h[x] = t})]
<1>2. Sigma(part, T) = Sigma(f, S)
  BY <1>1, SigmaSplit
<1>3. ASSUME NEW t \in T
      PROVE  part[t] \in Int /\ g[t] = part[t]
  <2>1. PICK x \in S : h[x] = t
    OBVIOUS
  <2>2. {y \in S : h[y] = t} = {x}
    BY <2>1
  <2>3. Sigma(f, {x}) = f[x]
    BY SigmaOne
  <2>4. part[t] = f[x]
    BY <2>2, <2>3
  <2>5. QED  BY <2>1, <2>4
<1> HIDE DEF part
<1>4. Sigma(part, T) = Sigma(g, T)
  BY <1>1, <1>3, SigmaSame
<1>5. QED  BY <1>1, <1>2, <1>4
=============================================================================
