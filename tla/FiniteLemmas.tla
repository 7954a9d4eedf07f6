---------------------------- MODULE FiniteLemmas ----------------------------
(***************************************************************************)
(* What the proofs need to know of finite sets: induction over their       *)
(* subsets, listings in order (the requests of NodePool), sums (the totals *)
(* of Rewards, the weights of ConfirmationRates) and whole division.       *)
(*                                                                         *)
(* An induction is stated over a set of the cases that are already good,   *)
(* so that it can be cited without an operator for a parameter.            *)
(***************************************************************************)
EXTENDS Integers, Functions, FiniteSetTheorems, WellFoundedInduction, TLAPS

\* A set of numbers that is not empty has a least one.
LEMMA LeastOf ==
    ASSUME NEW T, T \subseteq Nat, T # {}
    PROVE  \E x \in T : \A y \in T : x <= y
<1> DEFINE R == OpToRel(<, Nat)
<1>1. IsWellFoundedOn(R, Nat)
  BY NatLessThanWellFounded
<1>2. \A x, y \in Nat : x < y => <<x, y>> \in R
  BY DEF OpToRel
<1> HIDE DEF R
<1>3. PICK x \in T : \A y \in T : ~ (<<y, x>> \in R)
  BY <1>1, WFMin
<1>4. \A y \in T : x <= y
  <2> SUFFICES ASSUME NEW y \in T PROVE x <= y
    OBVIOUS
  <2>1. x \in Nat /\ y \in Nat
    OBVIOUS
  <2>2. ~ (y < x)
    BY <1>2, <1>3, <2>1
  <2> QED BY <2>1, <2>2
<1> QED BY <1>4

\* Induction: what holds of 0, and of n + 1 when it holds of n, holds of all.
LEMMA NatInduct ==
    ASSUME NEW Good, 0 \in Good,
           \A n \in Nat : n \in Good => n + 1 \in Good
    PROVE  \A n \in Nat : n \in Good
<1> SUFFICES ASSUME {n \in Nat : n \notin Good} # {} PROVE FALSE
  OBVIOUS
<1> DEFINE Bad == {n \in Nat : n \notin Good}
<1>1. PICK n \in Bad : \A y \in Bad : n <= y
  BY LeastOf
<1>2. n - 1 \in Nat /\ n - 1 \notin Bad
  BY <1>1
<1> QED BY <1>1, <1>2

\* Induction over the subsets of a finite set, by their size.
LEMMA SubsetInduct ==
    ASSUME NEW T, IsFiniteSet(T), NEW Good,
           \A s \in SUBSET T :
              (\A t \in SUBSET s : t # s => t \in Good) => s \in Good
    PROVE  \A s \in SUBSET T : s \in Good
<1> SUFFICES ASSUME {s \in SUBSET T : s \notin Good} # {} PROVE FALSE
  OBVIOUS
<1> DEFINE Bad == {s \in SUBSET T : s \notin Good}
           Sizes == {Cardinality(s) : s \in Bad}
<1>1. \A s \in SUBSET T : IsFiniteSet(s) /\ Cardinality(s) \in Nat
  BY FS_Subset, FS_CardinalityType
<1>2. Sizes \subseteq Nat /\ Sizes # {}
  BY <1>1
<1>3. PICK n \in Sizes : \A m \in Sizes : n <= m
  BY <1>2, LeastOf
<1>4. PICK s \in Bad : Cardinality(s) = n
  OBVIOUS
<1>5. ASSUME NEW t \in SUBSET s, t # s PROVE t \in Good
  <2>1. Cardinality(t) <= Cardinality(s) /\ Cardinality(t) # Cardinality(s)
    BY <1>1, <1>4, <1>5, FS_Subset
  <2>2. Cardinality(t) \in Nat /\ Cardinality(s) \in Nat
    BY <1>1, <1>4, <1>5
  <2>3. Cardinality(t) \notin Sizes
    BY <1>3, <1>4, <2>1, <2>2
  <2> QED BY <1>4, <2>3
<1> QED BY <1>4, <1>5

\* The values of a function at finitely many places are finitely many.
LEMMA ImageIsFinite ==
    ASSUME NEW S, IsFiniteSet(S), NEW f
    PROVE  IsFiniteSet({f[x] : x \in S})
<1> DEFINE T == {f[x] : x \in S}
           g == [x \in S |-> f[x]]
<1>1. g \in [S -> T] /\ \A t \in T : \E x \in S : g[x] = t
  OBVIOUS
<1>2. g \in Surjection(S, T)
  BY <1>1 DEF Surjection
<1> HIDE DEF g, T
<1>3. IsFiniteSet(T)
  BY <1>2, FS_Surjection
<1> QED BY <1>3 DEF T

\* Whatever strict total order there is of 1..N, one listing follows it: each
\* stands behind as many as come before it.
LEMMA OrderedListing ==
    ASSUME NEW N \in Nat, NEW R,
           \A a \in 1..N : <<a, a>> \notin R,
           \A a, b, c \in 1..N : <<a, b>> \in R /\ <<b, c>> \in R => <<a, c>> \in R,
           \A a, b \in 1..N : a = b \/ <<a, b>> \in R \/ <<b, a>> \in R
    PROVE  \E s \in [1..N -> 1..N] :
              /\ \A n \in 1..N : \E i \in 1..N : s[i] = n
              /\ \A i, j \in 1..N : i < j => <<s[i], s[j]>> \in R
<1> DEFINE S == 1..N
           Below(n) == {m \in S : <<m, n>> \in R}
           rank == [n \in S |-> Cardinality(Below(n)) + 1]
<1>1. IsFiniteSet(S) /\ Cardinality(S) = N
  BY FS_Interval
<1>2. \A t \in SUBSET S : /\ IsFiniteSet(t) /\ Cardinality(t) \in Nat
                          /\ Cardinality(t) <= N
                          /\ Cardinality(t) = N => t = S
  <2> TAKE t \in SUBSET S
  <2>1. IsFiniteSet(t) /\ Cardinality(t) <= Cardinality(S)
        /\ (Cardinality(t) = Cardinality(S) => t = S)
    <3> HIDE DEF S
    <3> QED BY <1>1, FS_Subset
  <2>2. Cardinality(t) \in Nat
    BY <2>1, FS_CardinalityType
  <2> QED BY <1>1, <2>1, <2>2
<1>3. ASSUME NEW n \in S PROVE rank[n] \in S
  <2>1. Below(n) \in SUBSET S /\ Below(n) # S
    OBVIOUS
  <2>2. Cardinality(Below(n)) \in Nat /\ Cardinality(Below(n)) <= N
        /\ Cardinality(Below(n)) # N
    BY <1>2, <2>1
  <2> QED BY <2>2
<1>4. ASSUME NEW a \in S, NEW b \in S, <<a, b>> \in R PROVE rank[a] < rank[b]
  <2>1. Below(a) \subseteq Below(b) /\ a \in Below(b) /\ a \notin Below(a)
    BY <1>4
  <2>2. IsFiniteSet(Below(b))
    BY <1>2
  <2>3. Cardinality(Below(a)) <= Cardinality(Below(b))
        /\ Cardinality(Below(a)) # Cardinality(Below(b))
    <3> HIDE DEF Below
    <3> QED BY <2>1, <2>2, FS_Subset
  <2>4. Cardinality(Below(a)) \in Nat /\ Cardinality(Below(b)) \in Nat
    BY <1>2
  <2> QED BY <2>3, <2>4
<1> HIDE DEF rank, Below
<1>5. rank \in [S -> S]
  BY <1>3 DEF rank
<1>6. \A a, b \in S : rank[a] = rank[b] => a = b
  <2> SUFFICES ASSUME NEW a \in S, NEW b \in S, rank[a] = rank[b], a # b PROVE FALSE
    OBVIOUS
  <2>1. rank[a] < rank[b] \/ rank[b] < rank[a]
    BY <1>4
  <2>2. rank[a] \in Nat /\ rank[b] \in Nat
    BY <1>3
  <2> QED BY <2>1, <2>2
<1>7. rank \in Injection(S, S)
  BY <1>5, <1>6 DEF Injection, IsInjective
<1>8. rank \in Surjection(S, S)
  BY <1>1, <1>7, FS_Injection
<1>9. \A i \in S : \E n \in S : rank[n] = i
  BY <1>8 DEF Surjection
<1> DEFINE s == [i \in S |-> CHOOSE n \in S : rank[n] = i]
<1>10. \A i \in S : s[i] \in S /\ rank[s[i]] = i
  BY <1>9
<1>11. \A n \in S : s[rank[n]] = n /\ rank[n] \in S
  BY <1>3, <1>6, <1>10
<1> HIDE DEF s
<1>12. ASSUME NEW i \in S, NEW j \in S, i < j PROVE <<s[i], s[j]>> \in R
  <2>1. ~ (s[i] = s[j])
    BY <1>10, <1>12
  <2>2. ~ (<<s[j], s[i]>> \in R)
    <3> SUFFICES ASSUME <<s[j], s[i]>> \in R PROVE FALSE
      OBVIOUS
    <3>1. j < i
      BY <1>4, <1>10
    <3> QED BY <1>12, <3>1
  <2> QED BY <1>10, <2>1, <2>2
<1>13. s \in [S -> S]
  BY <1>10 DEF s
<1> QED BY <1>11, <1>12, <1>13

-----------------------------------------------------------------------------
(***************************************************************************)
(* The fold of Folds.tla is a recursive function over the subsets of a set *)
(* that CHOOSE takes; that there is such a function has to be shown.       *)
(***************************************************************************)

Picked(s) == CHOOSE x \in s : TRUE

Unfolds(h, f, T) ==
    h = [s \in SUBSET T |->
            IF s = {} THEN 0 ELSE f[Picked(s)] + h[s \ {Picked(s)}]]

LEMMA SumIsChosen ==
    ASSUME NEW f, NEW T
    PROVE  SumFunctionOnSet(f, T) = (CHOOSE h : Unfolds(h, f, T))[T]
BY DEF SumFunctionOnSet, FoldFunctionOnSet, MapThenFoldSet, Unfolds, Picked

LEMMA PickedIsIn ==
    ASSUME NEW s, s # {}
    PROVE  Picked(s) \in s
BY DEF Picked

LEMMA UnfoldsAt ==
    ASSUME NEW h, NEW f, NEW T, Unfolds(h, f, T), NEW s \in SUBSET T
    PROVE  /\ s = {} => h[s] = 0
           /\ s # {} => h[s] = f[Picked(s)] + h[s \ {Picked(s)}]
<1> DEFINE G == [r \in SUBSET T |->
            IF r = {} THEN 0 ELSE f[Picked(r)] + h[r \ {Picked(r)}]]
<1>1. h = G
  BY DEF Unfolds
<1>2. G[s] = IF s = {} THEN 0 ELSE f[Picked(s)] + h[s \ {Picked(s)}]
  OBVIOUS
<1> HIDE DEF G
<1>3. h[s] = G[s]
  BY <1>1
<1> QED BY <1>2, <1>3

\* Two such functions agree where both are defined.
LEMMA UnfoldsOnce ==
    ASSUME NEW f, NEW A, NEW B, IsFiniteSet(A), B \subseteq A,
           NEW g, Unfolds(g, f, A), NEW h, Unfolds(h, f, B)
    PROVE  \A s \in SUBSET B : g[s] = h[s]
<1> DEFINE Good == {s \in SUBSET B : g[s] = h[s]}
<1>1. IsFiniteSet(B)
  BY FS_Subset
<1>2. ASSUME NEW s \in SUBSET B, \A t \in SUBSET s : t # s => t \in Good
      PROVE  s \in Good
  <2>1. s \in SUBSET A
    OBVIOUS
  <2>2. CASE s = {}
    BY <2>1, <2>2, UnfoldsAt
  <2>3. CASE s # {}
    <3>1. s \ {Picked(s)} \in Good
      BY <1>2, <2>3, PickedIsIn
    <3>2. g[s] = f[Picked(s)] + g[s \ {Picked(s)}]
      BY <2>1, <2>3, UnfoldsAt
    <3>3. h[s] = f[Picked(s)] + h[s \ {Picked(s)}]
      BY <2>3, UnfoldsAt
    <3> QED BY <3>1, <3>2, <3>3
  <2> QED BY <2>2, <2>3
<1> HIDE DEF Good
<1>3. \A s \in SUBSET B : s \in Good
  BY <1>1, <1>2, SubsetInduct
<1> QED BY <1>3 DEF Good

LEMMA UnfoldsExists ==
    ASSUME NEW f, NEW T, IsFiniteSet(T)
    PROVE  \E h : Unfolds(h, f, T)
<1> DEFINE Good == {s \in SUBSET T : \E h : Unfolds(h, f, s)}
           At(s) == (CHOOSE h : Unfolds(h, f, s))[s]
<1>1. ASSUME NEW s \in SUBSET T, \A t \in SUBSET s : t # s => t \in Good
      PROVE  s \in Good
  <2> DEFINE Fun == [t \in SUBSET s |-> IF t = {} THEN 0
                       ELSE f[Picked(t)] + At(t \ {Picked(t)})]
             G == [t \in SUBSET s |-> IF t = {} THEN 0
                       ELSE f[Picked(t)] + Fun[t \ {Picked(t)}]]
  <2>1. ASSUME NEW t \in SUBSET s, t # s PROVE Fun[t] = At(t)
    <3> DEFINE g == CHOOSE h : Unfolds(h, f, t)
    <3>1. Unfolds(g, f, t)
      BY <1>1, <2>1
    <3>2. At(t) = g[t]
      OBVIOUS
    <3> HIDE DEF g
    <3>3. CASE t = {}
      <4>1. g[t] = 0
        BY <3>1, <3>3, UnfoldsAt
      <4> QED BY <3>2, <3>3, <4>1
    <3>4. CASE t # {}
      <4> DEFINE u == t \ {Picked(t)}
                 k == CHOOSE h : Unfolds(h, f, u)
      <4>1. g[t] = f[Picked(t)] + g[u]
        BY <3>1, <3>4, UnfoldsAt
      <4>2. u \in SUBSET s /\ u # s
        BY <2>1, <3>4, PickedIsIn
      <4>3. Unfolds(k, f, u)
        BY <1>1, <4>2
      <4>4. IsFiniteSet(t)
        BY FS_Subset
      <4>5. g[u] = k[u]
        <5> HIDE DEF k, u
        <5>1. u \subseteq t
          BY DEF u
        <5> QED BY <3>1, <4>3, <4>4, <5>1, UnfoldsOnce
      <4>6. Fun[t] = f[Picked(t)] + k[u]
        BY <3>4
      <4> QED BY <3>2, <4>1, <4>5, <4>6
    <3> QED BY <3>3, <3>4
  <2>2. ASSUME NEW t \in SUBSET s PROVE Fun[t] = G[t]
    <3>1. CASE t = {}
      BY <3>1
    <3>2. CASE t # {}
      <4>1. t \ {Picked(t)} \in SUBSET s /\ t \ {Picked(t)} # s
        BY <3>2, PickedIsIn
      <4>2. Fun[t \ {Picked(t)}] = At(t \ {Picked(t)})
        BY <2>1, <4>1
      <4>3. Fun[t] = f[Picked(t)] + At(t \ {Picked(t)})
        BY <3>2
      <4>4. G[t] = f[Picked(t)] + Fun[t \ {Picked(t)}]
        BY <3>2
      <4> QED BY <4>2, <4>3, <4>4
    <3> QED BY <3>1, <3>2
  <2>3. Fun = G
    <3> HIDE DEF At
    <3>1. DOMAIN Fun = SUBSET s /\ DOMAIN G = SUBSET s
      OBVIOUS
    <3>2. Fun = [t \in SUBSET s |-> Fun[t]] /\ G = [t \in SUBSET s |-> G[t]]
      OBVIOUS
    <3> HIDE DEF Fun, G
    <3> QED BY <2>2, <3>1, <3>2
  <2>4. Unfolds(Fun, f, s)
    BY <2>3 DEF Unfolds
  <2> QED BY <2>4
<1> HIDE DEF Good
<1>2. \A s \in SUBSET T : s \in Good
  BY <1>1, SubsetInduct
<1> QED BY <1>2 DEF Good

\* What a sum over a finite set is: nothing, or one element and the others.
LEMMA SumUnfolds ==
    ASSUME NEW f, NEW T, IsFiniteSet(T)
    PROVE  /\ T = {} => SumFunctionOnSet(f, T) = 0
           /\ T # {} => SumFunctionOnSet(f, T)
                          = f[Picked(T)] + SumFunctionOnSet(f, T \ {Picked(T)})
<1> DEFINE g == CHOOSE h : Unfolds(h, f, T)
           u == T \ {Picked(T)}
           k == CHOOSE h : Unfolds(h, f, u)
<1>1. Unfolds(g, f, T)
  BY UnfoldsExists
<1>2. Unfolds(k, f, u)
  BY UnfoldsExists, FS_Subset
<1>3. SumFunctionOnSet(f, T) = g[T] /\ SumFunctionOnSet(f, u) = k[u]
  BY SumIsChosen
<1> HIDE DEF g, k
<1>4. g[u] = k[u]
  <2>1. u \subseteq T /\ u \in SUBSET u
    OBVIOUS
  <2> HIDE DEF u
  <2> QED BY <1>1, <1>2, <2>1, UnfoldsOnce
<1> QED BY <1>1, <1>3, <1>4, UnfoldsAt

-----------------------------------------------------------------------------
(***************************************************************************)
(* Sums of natural numbers                                                 *)
(***************************************************************************)

\* A sum of natural numbers is one.
LEMMA SumType ==
    ASSUME NEW T, IsFiniteSet(T), NEW f, \A x \in T : f[x] \in Nat
    PROVE  SumFunctionOnSet(f, T) \in Nat
<1> DEFINE Good == {s \in SUBSET T : SumFunctionOnSet(f, s) \in Nat}
<1>1. ASSUME NEW s \in SUBSET T, \A t \in SUBSET s : t # s => t \in Good
      PROVE  s \in Good
  <2>1. IsFiniteSet(s)
    BY FS_Subset
  <2>2. CASE s = {}
    <3>1. SumFunctionOnSet(f, s) = 0
      BY <2>1, <2>2, SumUnfolds
    <3> QED BY <3>1
  <2>3. CASE s # {}
    <3>1. Picked(s) \in s /\ f[Picked(s)] \in Nat
      BY <2>3, PickedIsIn
    <3>2. SumFunctionOnSet(f, s \ {Picked(s)}) \in Nat
      BY <1>1, <3>1
    <3> QED BY <2>1, <2>3, <3>1, <3>2, SumUnfolds
  <2> QED BY <2>2, <2>3
<1> HIDE DEF Good
<1>2. \A s \in SUBSET T : s \in Good
  BY <1>1, SubsetInduct
<1> QED BY <1>2 DEF Good

\* Any element may be taken out of a sum.
LEMMA SumTake ==
    ASSUME NEW T, IsFiniteSet(T), NEW f, \A x \in T : f[x] \in Nat, NEW y \in T
    PROVE  SumFunctionOnSet(f, T) = f[y] + SumFunctionOnSet(f, T \ {y})
<1> DEFINE Sum(s) == SumFunctionOnSet(f, s)
           Good == {s \in SUBSET T : \A x \in s : Sum(s) = f[x] + Sum(s \ {x})}
<1>0. \A s \in SUBSET T : IsFiniteSet(s)
  BY FS_Subset
<1>1. \A s \in SUBSET T : Sum(s) \in Nat
  BY <1>0, SumType
<1>2. \A s \in SUBSET T : s # {} => Sum(s) = f[Picked(s)] + Sum(s \ {Picked(s)})
  BY <1>0, SumUnfolds
<1> HIDE DEF Sum
<1>3. ASSUME NEW s \in SUBSET T, \A t \in SUBSET s : t # s => t \in Good
      PROVE  s \in Good
  <2> SUFFICES ASSUME NEW x \in s PROVE Sum(s) = f[x] + Sum(s \ {x})
    OBVIOUS
  <2> DEFINE p == Picked(s)
  <2>1. p \in s /\ Sum(s) = f[p] + Sum(s \ {p})
    BY <1>2, PickedIsIn
  <2> HIDE DEF p
  <2>2. CASE x = p
    BY <2>1, <2>2
  <2>3. CASE x # p
    <3>1. x \in s \ {p} /\ p \in s \ {x}
      BY <2>1, <2>3
    <3>2. s \ {p} \in Good /\ s \ {x} \in Good
      BY <1>3, <2>1
    <3>3. Sum(s \ {p}) = f[x] + Sum((s \ {p}) \ {x})
      BY <3>1, <3>2
    <3>4. Sum(s \ {x}) = f[p] + Sum((s \ {x}) \ {p})
      BY <3>1, <3>2
    <3>5. (s \ {p}) \ {x} = (s \ {x}) \ {p}
      OBVIOUS
    <3>6. Sum((s \ {x}) \ {p}) \in Nat
      BY <1>1
    <3>7. f[x] \in Nat /\ f[p] \in Nat
      BY <2>1
    <3> QED BY <2>1, <3>3, <3>4, <3>5, <3>6, <3>7
  <2> QED BY <2>2, <2>3
<1> HIDE DEF Good
<1>4. T \in Good
  BY <1>3, SubsetInduct
<1> QED BY <1>4 DEF Good, Sum

\* A sum does not fall when its terms rise or more are added.
LEMMA SumRises ==
    ASSUME NEW T, IsFiniteSet(T), NEW A \in SUBSET T,
           NEW f, \A x \in T : f[x] \in Nat, NEW g, \A x \in T : g[x] \in Nat,
           \A x \in A : f[x] <= g[x]
    PROVE  SumFunctionOnSet(f, A) <= SumFunctionOnSet(g, T)
<1> DEFINE F(s) == SumFunctionOnSet(f, s)
           G(s) == SumFunctionOnSet(g, s)
           Good == {s \in SUBSET T : F(s \cap A) <= G(s)}
<1>0. \A s \in SUBSET T : IsFiniteSet(s)
  BY FS_Subset
<1>1. \A s \in SUBSET T : F(s) \in Nat /\ G(s) \in Nat
  BY <1>0, SumType
<1>2. \A s \in SUBSET T : \A x \in s :
          /\ F(s) = f[x] + F(s \ {x})
          /\ G(s) = g[x] + G(s \ {x})
  BY <1>0, SumTake
<1>3. F({}) = 0 /\ G({}) = 0
  BY <1>0, SumUnfolds
<1> HIDE DEF F, G
<1>4. ASSUME NEW s \in SUBSET T, \A t \in SUBSET s : t # s => t \in Good
      PROVE  s \in Good
  <2>1. CASE s = {}
    <3>1. s \cap A = {}
      BY <2>1
    <3> QED BY <1>3, <2>1, <3>1
  <2>2. CASE s # {}
    <3>1. PICK x \in s : TRUE
      BY <2>2
    <3>2. s \ {x} \in Good
      BY <1>4
    <3>3. G(s) = g[x] + G(s \ {x}) /\ F((s \ {x}) \cap A) <= G(s \ {x})
      BY <1>2, <3>2
    <3>4. /\ F((s \ {x}) \cap A) \in Nat /\ G(s \ {x}) \in Nat
          /\ f[x] \in Nat /\ g[x] \in Nat
      BY <1>1
    <3>5. CASE x \in A
      <4>1. x \in s \cap A /\ s \cap A \in SUBSET T
        BY <3>5
      <4>2. F(s \cap A) = f[x] + F((s \cap A) \ {x})
        BY <1>2, <4>1
      <4>3. (s \cap A) \ {x} = (s \ {x}) \cap A
        OBVIOUS
      <4>4. f[x] <= g[x]
        BY <3>5
      <4>5. F(s \cap A) = f[x] + F((s \ {x}) \cap A)
        BY <4>2, <4>3
      <4>6. \A a, b, c, d \in Nat : a <= c /\ b <= d => a + b <= c + d
        OBVIOUS
      <4>7. F(s \cap A) <= G(s)
        BY <3>3, <3>4, <4>4, <4>5, <4>6
      <4> QED BY <4>7
    <3>6. CASE x \notin A
      <4>1. s \cap A = (s \ {x}) \cap A
        BY <3>6
      <4>2. F(s \cap A) <= G(s)
        BY <3>3, <3>4, <4>1
      <4> QED BY <4>2
    <3> QED BY <3>5, <3>6
  <2> QED BY <2>1, <2>2
<1> HIDE DEF Good
<1>5. T \in Good
  BY <1>4, SubsetInduct
<1>6. T \cap A = A
  OBVIOUS
<1> QED BY <1>5, <1>6 DEF Good, F, G

\* A sum depends on nothing but its terms.
LEMMA SumSame ==
    ASSUME NEW T, IsFiniteSet(T),
           NEW f, \A x \in T : f[x] \in Nat, NEW g, \A x \in T : g[x] = f[x]
    PROVE  SumFunctionOnSet(g, T) = SumFunctionOnSet(f, T)
<1>1. SumFunctionOnSet(f, T) <= SumFunctionOnSet(g, T)
  BY SumRises
<1>2. SumFunctionOnSet(g, T) <= SumFunctionOnSet(f, T)
  BY SumRises
<1>3. SumFunctionOnSet(f, T) \in Nat /\ SumFunctionOnSet(g, T) \in Nat
  BY SumType
<1> QED BY <1>1, <1>2, <1>3

\* Terms that are zero may be left out.
LEMMA SumZeros ==
    ASSUME NEW T, IsFiniteSet(T), NEW B \in SUBSET T,
           NEW f, \A x \in T : f[x] \in Nat, \A x \in T \ B : f[x] = 0
    PROVE  SumFunctionOnSet(f, T) = SumFunctionOnSet(f, B)
<1> DEFINE F(s) == SumFunctionOnSet(f, s)
           Good == {s \in SUBSET T : F(s) = F(s \cap B)}
<1>0. \A s \in SUBSET T : IsFiniteSet(s)
  BY FS_Subset
<1>1. \A s \in SUBSET T : F(s) \in Nat
  BY <1>0, SumType
<1>2. \A s \in SUBSET T : \A x \in s : F(s) = f[x] + F(s \ {x})
  BY <1>0, SumTake
<1> HIDE DEF F
<1>3. ASSUME NEW s \in SUBSET T, \A t \in SUBSET s : t # s => t \in Good
      PROVE  s \in Good
  <2>1. CASE s = {}
    <3>1. s \cap B = s
      BY <2>1
    <3> QED BY <3>1
  <2>2. CASE s # {}
    <3>1. PICK x \in s : TRUE
      BY <2>2
    <3>2. s \ {x} \in Good
      BY <1>3
    <3>3. F(s) = f[x] + F((s \ {x}) \cap B)
      BY <1>2, <3>2
    <3>4. CASE x \in B
      <4>1. x \in s \cap B /\ s \cap B \in SUBSET T /\ (s \cap B) \ {x} = (s \ {x}) \cap B
        BY <3>4
      <4>2. F(s \cap B) = f[x] + F((s \cap B) \ {x})
        BY <1>2, <4>1
      <4> QED BY <3>3, <4>1, <4>2
    <3>5. CASE x \notin B
      <4>1. s \cap B = (s \ {x}) \cap B /\ f[x] = 0
        BY <3>5
      <4>2. F((s \ {x}) \cap B) \in Nat
        BY <1>1
      <4>3. F(s) = F((s \ {x}) \cap B)
        BY <3>3, <4>1, <4>2
      <4>4. F(s \cap B) = F((s \ {x}) \cap B)
        BY <4>1
      <4> QED BY <4>3, <4>4
    <3> QED BY <3>4, <3>5
  <2> QED BY <2>1, <2>2
<1> HIDE DEF Good
<1>4. T \in Good
  BY <1>3, SubsetInduct
<1>5. T \cap B = B
  OBVIOUS
<1> QED BY <1>4, <1>5 DEF Good, F

\* What holds of the terms up to a factor holds of their sums.
LEMMA SumScales ==
    ASSUME NEW T, IsFiniteSet(T),
           NEW f, \A x \in T : f[x] \in Nat, NEW g, \A x \in T : g[x] \in Nat,
           NEW a \in Nat, NEW b \in Nat, \A x \in T : a * f[x] <= b * g[x]
    PROVE  a * SumFunctionOnSet(f, T) <= b * SumFunctionOnSet(g, T)
<1> DEFINE F(s) == SumFunctionOnSet(f, s)
           G(s) == SumFunctionOnSet(g, s)
           Good == {s \in SUBSET T : a * F(s) <= b * G(s)}
<1>0. \A s \in SUBSET T : IsFiniteSet(s)
  BY FS_Subset
<1>1. \A s \in SUBSET T : F(s) \in Nat /\ G(s) \in Nat
  BY <1>0, SumType
<1>2. \A s \in SUBSET T : \A x \in s :
          F(s) = f[x] + F(s \ {x}) /\ G(s) = g[x] + G(s \ {x})
  BY <1>0, SumTake
<1>3. F({}) = 0 /\ G({}) = 0
  BY <1>0, SumUnfolds
<1> HIDE DEF F, G
<1>4. \A u, v, x, y \in Nat :
         a * u <= b * v /\ a * x <= b * y => a * (u + x) <= b * (v + y)
  <2> TAKE u, v, x, y \in Nat
  <2>1. a * (u + x) = a * u + a * x /\ b * (v + y) = b * v + b * y
    BY SMTT(30)
  <2>2. a * u \in Nat /\ a * x \in Nat /\ b * v \in Nat /\ b * y \in Nat
    OBVIOUS
  <2> QED BY <2>1, <2>2
<1>5. ASSUME NEW s \in SUBSET T, \A t \in SUBSET s : t # s => t \in Good
      PROVE  s \in Good
  <2>1. CASE s = {}
    <3>1. a * F(s) = 0 /\ b * G(s) = 0
      BY <1>3, <2>1
    <3> QED BY <3>1
  <2>2. CASE s # {}
    <3>1. PICK x \in s : TRUE
      BY <2>2
    <3>2. s \ {x} \in Good
      BY <1>5
    <3>3. a * F(s \ {x}) <= b * G(s \ {x}) /\ a * f[x] <= b * g[x]
      BY <3>2
    <3>4. F(s \ {x}) \in Nat /\ G(s \ {x}) \in Nat /\ f[x] \in Nat /\ g[x] \in Nat
      BY <1>1
    <3>5. F(s) = f[x] + F(s \ {x}) /\ G(s) = g[x] + G(s \ {x})
      BY <1>2
    <3>6. a * F(s) <= b * G(s)
      BY <1>4, <3>3, <3>4, <3>5
    <3> QED BY <3>6
  <2> QED BY <2>1, <2>2
<1> HIDE DEF Good
<1>6. T \in Good
  BY <1>5, SubsetInduct
<1> QED BY <1>6 DEF Good, F, G

-----------------------------------------------------------------------------
(***************************************************************************)
(* Whole division                                                          *)
(***************************************************************************)

LEMMA Division ==
    ASSUME NEW a \in Nat, NEW b \in Nat \ {0}
    PROVE  /\ a \div b \in Nat
           /\ a % b \in Nat
           /\ \A l \in Nat : a < b * l => a \div b < l
<1>1. a \div b \in Nat
  BY SMTT(30)
<1>2. a % b \in Nat
  OBVIOUS
<1>3. \A l \in Nat : a < b * l => a \div b < l
  BY SMTT(30)
<1> QED BY <1>1, <1>2, <1>3

\* The quotient is the largest number that fits.
LEMMA QuotientFits ==
    ASSUME NEW a \in Nat, NEW b \in Nat \ {0}, NEW q \in Nat
    PROVE  q <= a \div b <=> b * q <= a
<1>1. a \div b \in Nat
  BY Division
<1>2. b * (a \div b) <= a /\ a < b * ((a \div b) + 1)
  BY SMTT(30)
<1>3. \A x, y \in Nat : x <= y => b * x <= b * y
  BY SMTT(30)
<1>4. q <= a \div b => b * q <= a
  <2>1. b * q \in Nat /\ b * (a \div b) \in Nat
    BY <1>1
  <2> QED BY <1>1, <1>2, <1>3, <2>1
<1>5. ASSUME ~ (q <= a \div b) PROVE ~ (b * q <= a)
  <2>1. (a \div b) + 1 <= q /\ (a \div b) + 1 \in Nat
    BY <1>1, <1>5
  <2>2. b * ((a \div b) + 1) <= b * q
    BY <1>3, <2>1
  <2>3. b * q \in Nat /\ b * ((a \div b) + 1) \in Nat
    BY <2>1
  <2> QED BY <1>2, <2>2, <2>3
<1> QED BY <1>4, <1>5

LEMMA QuotientRises ==
    ASSUME NEW a \in Nat, NEW c \in Nat, NEW b \in Nat \ {0}, a <= c
    PROVE  a \div b <= c \div b
<1>1. a \div b \in Nat
  BY Division
<1>2. b * (a \div b) <= a
  BY <1>1, QuotientFits
<1>3. b * (a \div b) \in Nat
  BY <1>1
<1>4. b * (a \div b) <= c
  BY <1>2, <1>3
<1> QED BY <1>1, <1>4, QuotientFits

\* What is divided by more comes out smaller.
LEMMA QuotientFalls ==
    ASSUME NEW a \in Nat, NEW b \in Nat \ {0}, NEW c \in Nat \ {0}, b <= c
    PROVE  a \div c <= a \div b
<1>1. a \div c \in Nat
  BY Division
<1>2. c * (a \div c) <= a
  BY <1>1, QuotientFits
<1>3. \A q \in Nat : b * q <= c * q
  BY SMTT(30)
<1>4. c * (a \div c) \in Nat /\ b * (a \div c) \in Nat
  BY <1>1
<1>5. b * (a \div c) <= a
  BY <1>1, <1>2, <1>3, <1>4
<1> QED BY <1>1, <1>5, QuotientFits

=============================================================================
