-------------------------------- MODULE Sums --------------------------------
(***************************************************************************)
(* Sums over finite sets: what SumFunction and SumFunctionOnSet of the     *)
(* library compute, for every finite set and every function.               *)
(*                                                                         *)
(* The library defines a sum by a recursive function on the subsets of the *)
(* set.  Induction is by the least counterexample: a set of naturals that  *)
(* is not empty has a least element.                                       *)
(***************************************************************************)
EXTENDS Integers, FiniteSets, Functions, FiniteSetTheorems, WellFoundedInduction, TLAPS

\* Every set of naturals that is not empty has a least element.
LEMMA NatMin ==
  ASSUME NEW T, T \subseteq Nat, T # {}
  PROVE  \E n \in T : \A m \in T : n <= m
<1> DEFINE R == {ss \in Nat \X Nat : ss[1] < ss[2]}
<1>1. IsWellFoundedOn(R, Nat)
  BY NatLessThanWellFounded, Zenon DEF OpToRel
<1> HIDE DEF R
<1>2. PICK n \in T : \A m \in T : ~(<<m, n>> \in R)
  BY <1>1, WFMin
<1>3. ASSUME NEW m \in T PROVE n <= m
  <2>1. m \in Nat /\ n \in Nat /\ ~(<<m, n>> \in R)
    BY <1>2
  <2>2. ~(m < n)
    BY <2>1 DEF R
  <2> QED
    BY <2>1, <2>2
<1> QED
  BY <1>3

\* The element that the recursion takes from a set, and the recursion.
Pick(s) == CHOOSE x \in s : TRUE

IsIter(g, f, S) == g = [s \in SUBSET S |-> IF s = {} THEN 0 ELSE f[Pick(s)] + g[s \ {Pick(s)}]]

Iter(f, S) == CHOOSE g : IsIter(g, f, S)

(* The element Pick takes is one of the set. *)
LEMMA PickIn == ASSUME NEW s, s # {} PROVE Pick(s) \in s
BY DEF Pick

\* A sum is the last value of the recursion.
LEMMA SumIter ==
  ASSUME NEW f, NEW S
  PROVE  SumFunctionOnSet(f, S) = Iter(f, S)[S]
BY DEF SumFunctionOnSet, FoldFunctionOnSet, MapThenFoldSet, Iter, IsIter, Pick

\* The subsets of a finite set, by size.
LEMMA Sizes ==
  ASSUME NEW S, IsFiniteSet(S), NEW s \in SUBSET S
  PROVE  /\ IsFiniteSet(s) /\ Cardinality(s) \in Nat /\ Cardinality(s) <= Cardinality(S)
         /\ Cardinality(s) = 0 <=> s = {}
         /\ \A x \in s : IsFiniteSet(s \ {x}) /\ Cardinality(s \ {x}) = Cardinality(s) - 1
BY FS_Subset, FS_CardinalityType, FS_EmptySet, FS_RemoveElement

\* The recursion can be carried out up to any size.
UpTo(S, n) == {s \in SUBSET S : Cardinality(s) <= n}

IsPart(g, f, S, n) ==
  g = [s \in UpTo(S, n) |-> IF s = {} THEN 0 ELSE f[Pick(s)] + g[s \ {Pick(s)}]]

(* A partial sum over the subsets of at most n elements extends to those of
   n + 1. *)
LEMMA PartGrows ==
  ASSUME NEW f, NEW S, IsFiniteSet(S), NEW n \in Nat, NEW g, IsPart(g, f, S, n)
  PROVE  \E h : IsPart(h, f, S, n + 1)
<1> DEFINE h == [s \in UpTo(S, n + 1) |-> IF s \in UpTo(S, n) THEN g[s] ELSE f[Pick(s)] + g[s \ {Pick(s)}]]
           k == [s \in UpTo(S, n + 1) |-> IF s = {} THEN 0 ELSE f[Pick(s)] + h[s \ {Pick(s)}]]
<1>1. ASSUME NEW s \in UpTo(S, n + 1)
      PROVE  h[s] = k[s]
  <2>1. s \in SUBSET S /\ Cardinality(s) \in Nat /\ Cardinality(s) <= n + 1
    BY Sizes DEF UpTo
  <2>2. CASE s = {}
    <3>1. s \in UpTo(S, n)
      BY <2>1, <2>2, Sizes DEF UpTo
    <3>2. g[s] = 0
      BY <2>2, <3>1 DEF IsPart
    <3> QED
      BY <2>2, <3>1, <3>2
  <2>3. CASE s # {}
    <3>1. Pick(s) \in s
      BY <2>3, PickIn
    <3> DEFINE t == s \ {Pick(s)}
    <3>2. t \in SUBSET S /\ Cardinality(t) = Cardinality(s) - 1
      BY <2>1, <3>1, Sizes
    <3>3. t \in UpTo(S, n) /\ t \in UpTo(S, n + 1)
      BY <2>1, <3>2 DEF UpTo
    <3>4. h[t] = g[t]
      BY <3>3
    <3>5. s \in UpTo(S, n) => g[s] = f[Pick(s)] + g[t]
      BY <2>3 DEF IsPart
    <3> HIDE DEF t
    <3>6. h[s] = f[Pick(s)] + g[t]
      BY <3>5 DEF t
    <3>7. k[s] = f[Pick(s)] + h[t]
      BY <2>3 DEF t
    <3> QED
      BY <3>4, <3>6, <3>7
  <2> QED
    BY <2>2, <2>3
<1>2. h = k
  BY <1>1
<1>3. IsPart(h, f, S, n + 1)
  BY <1>2 DEF IsPart
<1> QED
  BY <1>3

(* There is a partial sum for every n: n = 0 has one, and the least n
   without one contradicts PartGrows. *)
LEMMA PartExists ==
  ASSUME NEW f, NEW S, IsFiniteSet(S), NEW n \in Nat
  PROVE  \E g : IsPart(g, f, S, n)
<1> DEFINE T == {k \in Nat : ~\E g : IsPart(g, f, S, k)}
<1>1. SUFFICES T = {}
  OBVIOUS
<1>2. SUFFICES ASSUME T # {} PROVE FALSE
  OBVIOUS
<1>3. PICK k \in T : \A m \in T : k <= m
  BY <1>2, NatMin
<1>4. k # 0
  <2> DEFINE z == [s \in UpTo(S, 0) |-> 0]
             y == [s \in UpTo(S, 0) |-> IF s = {} THEN 0 ELSE f[Pick(s)] + z[s \ {Pick(s)}]]
  <2>1. ASSUME NEW s \in UpTo(S, 0) PROVE s = {}
    BY Sizes DEF UpTo
  <2>2. z = y
    BY <2>1
  <2>3. IsPart(z, f, S, 0)
    BY <2>2 DEF IsPart
  <2> QED
    BY <2>3
<1>5. k - 1 \in Nat /\ k - 1 \notin T /\ (k - 1) + 1 = k
  BY <1>3, <1>4
<1>6. PICK g : IsPart(g, f, S, k - 1)
  BY <1>5
<1>7. \E h : IsPart(h, f, S, k)
  BY <1>5, <1>6, PartGrows
<1> QED
  BY <1>7

(* The sum as a function on all the subsets of a finite set exists. *)
LEMMA IterExists ==
  ASSUME NEW f, NEW S, IsFiniteSet(S)
  PROVE  IsIter(Iter(f, S), f, S)
<1>1. Cardinality(S) \in Nat
  BY FS_CardinalityType
<1>2. PICK g : IsPart(g, f, S, Cardinality(S))
  BY <1>1, PartExists
<1>3. UpTo(S, Cardinality(S)) = SUBSET S
  BY Sizes DEF UpTo
<1>4. IsIter(g, f, S)
  BY <1>2, <1>3 DEF IsPart, IsIter
<1> QED
  BY <1>4 DEF Iter

\* The recursion computes the same value for a set wherever the set is taken from, and
\* whatever the function is outside of it.
LEMMA IterAgrees ==
  ASSUME NEW f, NEW S, IsFiniteSet(S), NEW g, IsIter(g, f, S),
         NEW e, NEW U, NEW h, IsIter(h, e, U),
         NEW t0 \in SUBSET S, t0 \in SUBSET U, \A x \in t0 : f[x] = e[x]
  PROVE  g[t0] = h[t0]
<1> DEFINE T == {n \in Nat : \E t \in SUBSET t0 : Cardinality(t) = n /\ g[t] # h[t]}
<1>1. SUFFICES ASSUME T # {} PROVE FALSE
  <2>1. Cardinality(t0) \in Nat
    BY Sizes
  <2> QED
    BY <2>1
<1>2. PICK n \in T : \A m \in T : n <= m
  BY <1>1, NatMin
<1>3. PICK t \in SUBSET t0 : Cardinality(t) = n /\ g[t] # h[t]
  BY <1>2
<1>4. t \in SUBSET S /\ t \in SUBSET U
  BY <1>3
<1>5. CASE t = {}
  <2>1. g[t] = 0 /\ h[t] = 0
    BY <1>4, <1>5 DEF IsIter
  <2> QED
    BY <1>3, <2>1
<1>6. CASE t # {}
  <2> DEFINE u == t \ {Pick(t)}
  <2>1. Pick(t) \in t
    BY <1>6, PickIn
  <2>2. g[t] = f[Pick(t)] + g[u] /\ h[t] = e[Pick(t)] + h[u]
    BY <1>4, <1>6 DEF IsIter
  <2>3. u \in SUBSET t0 /\ Cardinality(u) \in Nat /\ Cardinality(u) = n - 1
    BY <1>3, <1>4, <2>1, Sizes
  <2>4. g[u] # h[u]
    BY <1>3, <2>1, <2>2
  <2>5. n - 1 \in T
    BY <2>3, <2>4
  <2> QED
    BY <1>2, <2>5
<1> QED
  BY <1>5, <1>6

\* What is needed of the recursion: the value of the empty set, and of any other one.
LEMMA SumOfSubset ==
  ASSUME NEW f, NEW S, IsFiniteSet(S), NEW s \in SUBSET S
  PROVE  SumFunctionOnSet(f, s) = Iter(f, S)[s]
<1>1. IsFiniteSet(s)
  BY Sizes
<1>2. IsIter(Iter(f, S), f, S) /\ IsIter(Iter(f, s), f, s)
  BY <1>1, IterExists
<1>3. Iter(f, s)[s] = Iter(f, S)[s]
  BY <1>1, <1>2, IterAgrees
<1> QED
  BY <1>3, SumIter

\* The sum depends on the values in the set only.
THEOREM SumSame ==
  ASSUME NEW S, IsFiniteSet(S), NEW f, NEW e, \A x \in S : f[x] = e[x]
  PROVE  SumFunctionOnSet(f, S) = SumFunctionOnSet(e, S)
<1>1. IsIter(Iter(f, S), f, S) /\ IsIter(Iter(e, S), e, S)
  BY IterExists
<1>2. Iter(f, S)[S] = Iter(e, S)[S]
  BY <1>1, IterAgrees
<1> QED
  BY <1>2, SumIter

(* The sum over no element is 0. *)
LEMMA SumEmpty == ASSUME NEW f PROVE SumFunctionOnSet(f, {}) = 0
<1>1. IsIter(Iter(f, {}), f, {})
  BY IterExists, FS_EmptySet
<1> QED
  BY <1>1, SumIter DEF IsIter

(* The sum is what Pick takes plus the sum over the rest. *)
LEMMA SumPick ==
  ASSUME NEW f, NEW S, IsFiniteSet(S), S # {}
  PROVE  SumFunctionOnSet(f, S) = f[Pick(S)] + SumFunctionOnSet(f, S \ {Pick(S)})
<1>1. IsIter(Iter(f, S), f, S)
  BY IterExists
<1>2. Iter(f, S)[S] = f[Pick(S)] + Iter(f, S)[S \ {Pick(S)}]
  BY <1>1 DEF IsIter
<1>3. SumFunctionOnSet(f, S) = Iter(f, S)[S]
  BY SumIter
<1>4. SumFunctionOnSet(f, S \ {Pick(S)}) = Iter(f, S)[S \ {Pick(S)}]
  BY SumOfSubset
<1> QED
  BY <1>2, <1>3, <1>4

\* A sum of integers is an integer.
THEOREM SumInt ==
  ASSUME NEW S, IsFiniteSet(S), NEW f, \A x \in S : f[x] \in Int
  PROVE  SumFunctionOnSet(f, S) \in Int
<1> DEFINE T == {n \in Nat : \E s \in SUBSET S : Cardinality(s) = n /\ SumFunctionOnSet(f, s) \notin Int}
<1>1. SUFFICES ASSUME T # {} PROVE FALSE
  <2>1. Cardinality(S) \in Nat
    BY Sizes
  <2> QED
    BY <2>1
<1>2. PICK n \in T : \A m \in T : n <= m
  BY <1>1, NatMin
<1>3. PICK s \in SUBSET S : Cardinality(s) = n /\ SumFunctionOnSet(f, s) \notin Int
  BY <1>2
<1>4. s # {}
  BY <1>3, SumEmpty
<1> DEFINE u == s \ {Pick(s)}
<1>5. Pick(s) \in s /\ IsFiniteSet(s)
  BY <1>4, PickIn, Sizes
<1>6. u \in SUBSET S /\ Cardinality(u) \in Nat /\ Cardinality(u) = n - 1
  BY <1>3, <1>5, Sizes
<1>7. SumFunctionOnSet(f, u) \in Int
  BY <1>2, <1>6
<1>8. SumFunctionOnSet(f, s) = f[Pick(s)] + SumFunctionOnSet(f, u)
  BY <1>4, <1>5, SumPick
<1>9. f[Pick(s)] \in Int
  BY <1>5
<1> QED
  BY <1>3, <1>7, <1>8, <1>9

\* Any element can be taken out of a sum.
THEOREM SumRemove ==
  ASSUME NEW S, IsFiniteSet(S), NEW f, \A x \in S : f[x] \in Int, NEW a \in S
  PROVE  SumFunctionOnSet(f, S) = f[a] + SumFunctionOnSet(f, S \ {a})
<1> DEFINE Sum(s) == SumFunctionOnSet(f, s)
           T == {n \in Nat : \E s \in SUBSET S : \E b \in s : Cardinality(s) = n /\ Sum(s) # f[b] + Sum(s \ {b})}
<1>1. SUFFICES ASSUME T # {} PROVE FALSE
  <2>1. Cardinality(S) \in Nat
    BY Sizes
  <2> QED
    BY <2>1
<1>2. PICK n \in T : \A m \in T : n <= m
  BY <1>1, NatMin
<1>3. PICK s \in SUBSET S : \E b \in s : Cardinality(s) = n /\ Sum(s) # f[b] + Sum(s \ {b})
  BY <1>2
<1>4. PICK b \in s : Cardinality(s) = n /\ Sum(s) # f[b] + Sum(s \ {b})
  BY <1>3
<1> DEFINE p == Pick(s)
<1>5. p \in s /\ IsFiniteSet(s) /\ n \in Nat
  BY <1>2, PickIn, Sizes
<1>6. Sum(s) = f[p] + Sum(s \ {p})
  BY <1>5, SumPick
<1>7. p # b
  BY <1>4, <1>6
<1> HIDE DEF p
<1>8. /\ s \ {p} \in SUBSET S /\ Cardinality(s \ {p}) = n - 1 /\ b \in s \ {p}
      /\ s \ {b} \in SUBSET S /\ Cardinality(s \ {b}) = n - 1 /\ p \in s \ {b}
  BY <1>4, <1>5, <1>7, Sizes
<1>9. n - 1 \in Nat /\ n - 1 \notin T
  <2>1. IsFiniteSet(s \ {p}) /\ Cardinality(s \ {p}) \in Nat
    BY <1>5, <1>8, Sizes
  <2> QED
    BY <1>2, <1>8, <2>1
<1>10. Sum(s \ {p}) = f[b] + Sum((s \ {p}) \ {b})
  BY <1>8, <1>9
<1>11. Sum(s \ {b}) = f[p] + Sum((s \ {b}) \ {p})
  BY <1>8, <1>9
<1>12. (s \ {p}) \ {b} = (s \ {b}) \ {p}
  OBVIOUS
<1>13. f[p] \in Int /\ f[b] \in Int /\ Sum((s \ {b}) \ {p}) \in Int
  <2>1. IsFiniteSet((s \ {b}) \ {p})
    BY <1>5, FS_RemoveElement
  <2>2. \A x \in (s \ {b}) \ {p} : f[x] \in Int
    OBVIOUS
  <2>3. Sum((s \ {b}) \ {p}) \in Int
    BY <2>1, <2>2, SumInt
  <2> QED
    BY <1>5, <2>3
<1> HIDE DEF Sum
<1>14. Sum(s) = f[b] + Sum(s \ {b})
  <2>1. PICK r \in Int : r = Sum((s \ {b}) \ {p})
    BY <1>13
  <2>2. Sum((s \ {p}) \ {b}) = r
    BY <1>12, <2>1
  <2>3. Sum(s) = f[p] + (f[b] + r)
    BY <1>6, <1>10, <2>2
  <2>4. Sum(s \ {b}) = f[p] + r
    BY <1>11, <2>1
  <2>5. f[p] + (f[b] + r) = f[b] + (f[p] + r)
    BY <1>13
  <2> QED
    BY <2>3, <2>4, <2>5
<1> QED
  BY <1>4, <1>14

\* A sum of naturals is a natural.
THEOREM SumNat ==
  ASSUME NEW S, IsFiniteSet(S), NEW f, \A x \in S : f[x] \in Nat
  PROVE  SumFunctionOnSet(f, S) \in Nat
<1> DEFINE T == {n \in Nat : \E s \in SUBSET S : Cardinality(s) = n /\ SumFunctionOnSet(f, s) \notin Nat}
<1>1. SUFFICES ASSUME T # {} PROVE FALSE
  <2>1. Cardinality(S) \in Nat
    BY Sizes
  <2> QED
    BY <2>1
<1>2. PICK n \in T : \A m \in T : n <= m
  BY <1>1, NatMin
<1>3. PICK s \in SUBSET S : Cardinality(s) = n /\ SumFunctionOnSet(f, s) \notin Nat
  BY <1>2
<1>4. s # {}
  BY <1>3, SumEmpty
<1> DEFINE u == s \ {Pick(s)}
<1>5. Pick(s) \in s /\ IsFiniteSet(s)
  BY <1>4, PickIn, Sizes
<1>6. u \in SUBSET S /\ Cardinality(u) \in Nat /\ Cardinality(u) = n - 1
  BY <1>3, <1>5, Sizes
<1>7. SumFunctionOnSet(f, u) \in Nat
  BY <1>2, <1>6
<1>8. SumFunctionOnSet(f, s) = f[Pick(s)] + SumFunctionOnSet(f, u)
  BY <1>4, <1>5, SumPick
<1>9. f[Pick(s)] \in Nat
  BY <1>5
<1> QED
  BY <1>3, <1>7, <1>8, <1>9

\* The sum of a function whose values are added up pointwise.
THEOREM SumPlus ==
  ASSUME NEW S, IsFiniteSet(S), NEW f, NEW e, NEW h,
         \A x \in S : f[x] \in Int /\ e[x] \in Int /\ h[x] = f[x] + e[x]
  PROVE  SumFunctionOnSet(h, S) = SumFunctionOnSet(f, S) + SumFunctionOnSet(e, S)
<1> DEFINE F(s) == SumFunctionOnSet(f, s)
           E(s) == SumFunctionOnSet(e, s)
           H(s) == SumFunctionOnSet(h, s)
           T == {n \in Nat : \E s \in SUBSET S : Cardinality(s) = n /\ H(s) # F(s) + E(s)}
<1>1. SUFFICES ASSUME T # {} PROVE FALSE
  <2>1. Cardinality(S) \in Nat
    BY Sizes
  <2> QED
    BY <2>1
<1>2. PICK n \in T : \A m \in T : n <= m
  BY <1>1, NatMin
<1>3. PICK s \in SUBSET S : Cardinality(s) = n /\ H(s) # F(s) + E(s)
  BY <1>2
<1>4. s # {}
  <2>1. H({}) = 0 /\ F({}) = 0 /\ E({}) = 0
    BY SumEmpty
  <2> HIDE DEF F, E, H
  <2> QED
    BY <1>3, <2>1
<1> DEFINE p == Pick(s)
           u == s \ {p}
<1>5. p \in s /\ IsFiniteSet(s)
  BY <1>4, PickIn, Sizes
<1>6. F(s) = f[p] + F(u) /\ E(s) = e[p] + E(u) /\ H(s) = h[p] + H(u)
  BY <1>4, <1>5, SumPick
<1>7. u \in SUBSET S /\ Cardinality(u) \in Nat /\ Cardinality(u) = n - 1 /\ IsFiniteSet(u)
  BY <1>3, <1>5, Sizes
<1>8. H(u) = F(u) + E(u)
  BY <1>2, <1>7
<1>9. f[p] \in Int /\ e[p] \in Int /\ h[p] = f[p] + e[p]
  BY <1>5
<1>10. F(u) \in Int /\ E(u) \in Int
  BY <1>7, SumInt
<1> HIDE DEF F, E, H, p, u
<1>11. PICK x \in Int : x = F(u)
  BY <1>10
<1>12. PICK y \in Int : y = E(u)
  BY <1>10
<1>13. (f[p] + e[p]) + (x + y) = (f[p] + x) + (e[p] + y)
  BY <1>9
<1> QED
  BY <1>3, <1>6, <1>8, <1>9, <1>11, <1>12, <1>13

\* A function that is nowhere larger has no larger sum.
THEOREM SumMonotone ==
  ASSUME NEW S, IsFiniteSet(S), NEW f, NEW e,
         \A x \in S : f[x] \in Int /\ e[x] \in Int /\ f[x] <= e[x]
  PROVE  SumFunctionOnSet(f, S) <= SumFunctionOnSet(e, S)
<1> DEFINE d == [x \in S |-> e[x] - f[x]]
<1>1. \A x \in S : d[x] \in Nat /\ f[x] \in Int /\ d[x] \in Int /\ e[x] = f[x] + d[x]
  OBVIOUS
<1> HIDE DEF d
<1>2. SumFunctionOnSet(e, S) = SumFunctionOnSet(f, S) + SumFunctionOnSet(d, S)
  BY <1>1, SumPlus
<1>3. SumFunctionOnSet(d, S) \in Nat
  BY <1>1, SumNat
<1>4. SumFunctionOnSet(f, S) \in Int
  BY SumInt
<1> QED
  BY <1>2, <1>3, <1>4

\* Zeros add nothing: the sum over a part is the sum of what is zero outside of it.
THEOREM SumOfPart ==
  ASSUME NEW S, IsFiniteSet(S), NEW P \in SUBSET S, NEW f, \A x \in P : f[x] \in Int,
         NEW e, \A x \in P : e[x] = f[x], \A x \in S \ P : e[x] = 0
  PROVE  SumFunctionOnSet(e, S) = SumFunctionOnSet(f, P)
<1> DEFINE E(s) == SumFunctionOnSet(e, s)
           T == {n \in Nat : \E s \in SUBSET S : P \subseteq s /\ Cardinality(s) = n /\ E(s) # E(P)}
<1>1. \A x \in S : e[x] \in Int
  OBVIOUS
<1>2. SUFFICES ASSUME T # {} PROVE FALSE
  <2>1. Cardinality(S) \in Nat /\ IsFiniteSet(P)
    BY Sizes
  <2>2. E(P) = SumFunctionOnSet(f, P)
    BY <2>1, SumSame
  <2> QED
    BY <2>1, <2>2
<1>3. PICK n \in T : \A m \in T : n <= m
  BY <1>2, NatMin
<1>4. PICK s \in SUBSET S : P \subseteq s /\ Cardinality(s) = n /\ E(s) # E(P)
  BY <1>3
<1>5. PICK a \in s : a \notin P
  BY <1>4
<1>6. IsFiniteSet(s)
  BY Sizes
<1>7. E(s) = e[a] + E(s \ {a})
  BY <1>1, <1>6, SumRemove
<1>8. e[a] = 0
  BY <1>5
<1>9. s \ {a} \in SUBSET S /\ P \subseteq s \ {a} /\ Cardinality(s \ {a}) \in Nat
      /\ Cardinality(s \ {a}) = n - 1 /\ IsFiniteSet(s \ {a})
  BY <1>4, <1>5, Sizes
<1>10. E(s \ {a}) \in Int
  BY <1>1, <1>9, SumInt
<1>11. E(s \ {a}) = E(P)
  BY <1>3, <1>9
<1> HIDE DEF E
<1> QED
  BY <1>4, <1>7, <1>8, <1>10, <1>11

\* One value of a function changes: the sum changes by the difference.
THEOREM SumUpdate ==
  ASSUME NEW S, IsFiniteSet(S), NEW f \in [S -> Int], NEW a \in S, NEW n \in Int
  PROVE  /\ SumFunction(f) \in Int
         /\ SumFunction([f EXCEPT ![a] = n]) = SumFunction(f) + (n - f[a])
<1> DEFINE e == [f EXCEPT ![a] = n]
           R == S \ {a}
<1>1. SumFunction(f) = SumFunctionOnSet(f, S) /\ SumFunction(e) = SumFunctionOnSet(e, S)
  BY DEF SumFunction
<1>2. SumFunctionOnSet(f, S) = f[a] + SumFunctionOnSet(f, R)
  BY SumRemove
<1>3. \A x \in S : e[x] \in Int
  OBVIOUS
<1>4. e[a] = n /\ \A x \in R : e[x] = f[x]
  OBVIOUS
<1> HIDE DEF e
<1>5. SumFunctionOnSet(e, S) = n + SumFunctionOnSet(e, R)
  BY <1>3, <1>4, SumRemove
<1>6. IsFiniteSet(R)
  BY FS_RemoveElement
<1>7. SumFunctionOnSet(e, R) = SumFunctionOnSet(f, R)
  BY <1>4, <1>6, SumSame
<1>8. SumFunctionOnSet(f, R) \in Int /\ f[a] \in Int
  BY <1>6, SumInt
<1>9. SumFunction(f) \in Int /\ SumFunction(e) = SumFunction(f) + (n - f[a])
  BY <1>1, <1>2, <1>5, <1>7, <1>8
<1> QED
  BY <1>9 DEF e
=============================================================================
