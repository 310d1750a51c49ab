---------------------------- MODULE FoldTheorems ----------------------------
(***************************************************************************)
(* Sums over finite sets and loops over lists, for the invariants that add   *)
(* up a ledger, a list of invoices or a campaign's pledges.                   *)
(*                                                                         *)
(* The sums of the community modules are folds, recursive functions on the   *)
(* subsets of a set, of which nothing is known until the recursion is shown  *)
(* to have a solution.  The lemmas of the library that state induction take  *)
(* an operator as their parameter; what is used here instead is that a set   *)
(* of finite sets that is not empty has a least element by inclusion, which  *)
(* is one by first-order logic.  The loops over a list are recursive         *)
(* functions on its positions, and are treated alike: a set of numbers that  *)
(* is not empty has a least one.                                             *)
(***************************************************************************)
EXTENDS Lists, Functions, FiniteSetTheorems, WellFoundedInduction, TLAPS

-----------------------------------------------------------------------------
(* The recursion behind a sum. *)

Some(s) == CHOOSE x \in s : TRUE

IterBody(g, f, s) == IF s = {} THEN 0 ELSE f[Some(s)] + g[s \ {Some(s)}]

IsIter(g, f, S) == g = [s \in SUBSET S |-> IterBody(g, f, s)]

Iter(f, S) == CHOOSE g : IsIter(g, f, S)

\* A sum is the value of that recursion at the whole set.
LEMMA SumIsIter ==
    ASSUME NEW f, NEW S
    PROVE  SumFunctionOnSet(f, S) = Iter(f, S)[S]
BY DEF SumFunctionOnSet, FoldFunctionOnSet, MapThenFoldSet, Iter, IsIter, IterBody, Some

\* Some member of a collection of subsets of a finite set includes no other.
LEMMA LeastSet ==
    ASSUME NEW S, IsFiniteSet(S), NEW B \in SUBSET SUBSET S, B # {}
    PROVE  \E T \in B : \A U \in B : ~(U \subseteq T /\ U # T)
<1>1. /\ IsWellFoundedOn(StrictSubsetOrdering(S), SUBSET S)
  BY FS_StrictSubsetOrderingWellFounded, FS_FiniteSubsetsOfFinite
<1>2. PICK T \in B : \A U \in B : <<U, T>> \notin StrictSubsetOrdering(S)
  BY <1>1, WFMin, Zenon
<1>3. QED
  BY <1>2 DEF StrictSubsetOrdering

\* What is taken out of a set is in it, and leaves a smaller set.
LEMMA SomeIn ==
    ASSUME NEW s, s # {}
    PROVE  /\ Some(s) \in s
           /\ s \ {Some(s)} \subseteq s
           /\ s \ {Some(s)} # s
BY DEF Some

\* Two solutions of the recursion agree wherever both are defined.
LEMMA IterUnique ==
    ASSUME NEW f, NEW S, IsFiniteSet(S), NEW T \in SUBSET S,
           NEW g, IsIter(g, f, S), NEW h, IsIter(h, f, T),
           NEW V \in SUBSET T
    PROVE  g[V] = h[V]
<1> DEFINE B == {U \in SUBSET T : g[U] # h[U]}
<1>1. SUFFICES ASSUME B # {} PROVE FALSE
  OBVIOUS
<1>2. PICK U \in B : \A W \in B : ~(W \subseteq U /\ W # U)
  <2>1. IsFiniteSet(T)
    BY FS_Subset
  <2>2. B \in SUBSET SUBSET T
    OBVIOUS
  <2> HIDE DEF B
  <2>3. QED
    BY <1>1, <2>1, <2>2, LeastSet
<1>3. /\ U \in SUBSET T
      /\ U \in SUBSET S
      /\ g[U] # h[U]
      /\ \A W \in SUBSET T : W \subseteq U /\ W # U => g[W] = h[W]
  BY <1>2
<1>4. g[U] = IterBody(g, f, U) /\ h[U] = IterBody(h, f, U)
  <2>1. g[U] = IterBody(g, f, U)
    <3>1. g = [s \in SUBSET S |-> IterBody(g, f, s)]
      BY DEF IsIter
    <3>2. QED
      BY <3>1, <1>3, Zenon
  <2>2. h[U] = IterBody(h, f, U)
    <3>1. h = [s \in SUBSET T |-> IterBody(h, f, s)]
      BY DEF IsIter
    <3>2. QED
      BY <3>1, <1>3, Zenon
  <2>3. QED
    BY <2>1, <2>2
<1>5. CASE U = {}
  BY <1>3, <1>4, <1>5 DEF IterBody
<1>6. CASE U # {}
  <2>1. g[U \ {Some(U)}] = h[U \ {Some(U)}]
    BY <1>3, <1>6, SomeIn
  <2>2. QED
    BY <1>3, <1>4, <1>6, <2>1 DEF IterBody
<1>7. QED
  BY <1>5, <1>6

\* The recursion has a solution on every finite set.
LEMMA IterExists ==
    ASSUME NEW f, NEW S, IsFiniteSet(S)
    PROVE  IsIter(Iter(f, S), f, S)
<1> DEFINE B == {U \in SUBSET S : ~ IsIter(Iter(f, U), f, U)}
<1>1. SUFFICES ASSUME B # {} PROVE FALSE
  OBVIOUS
<1>2. PICK U \in B : \A W \in B : ~(W \subseteq U /\ W # U)
  <2>2. B \in SUBSET SUBSET S
    OBVIOUS
  <2> HIDE DEF B
  <2>3. QED
    BY <1>1, <2>2, LeastSet
<1>3. /\ U \in SUBSET S
      /\ ~ IsIter(Iter(f, U), f, U)
      /\ \A W \in SUBSET U : W # U => IsIter(Iter(f, W), f, W)
  BY <1>2
<1> DEFINE rest(s) == s \ {Some(s)}
           val(s) == IF s = {} THEN 0 ELSE f[Some(s)] + Iter(f, rest(s))[rest(s)]
           g == [s \in SUBSET U |-> val(s)]
<1>4. ASSUME NEW s \in SUBSET U PROVE val(s) = IterBody(g, f, s)
  <2>1. CASE s = {}
    BY <2>1 DEF IterBody
  <2>2. CASE s # {}
    <3> DEFINE r == rest(s)
    <3>1. r \in SUBSET U /\ r # U /\ r \subseteq s
      BY <2>2, SomeIn
    <3>2. g[r] = val(r)
      BY <3>1
    <3>3. Iter(f, r)[r] = val(r)
      <4>1. IsIter(Iter(f, r), f, r)
        BY <3>1, <1>3
      <4>2. Iter(f, r)[r] = IterBody(Iter(f, r), f, r)
        BY <4>1, Zenon DEF IsIter
      <4>3. CASE r = {}
        BY <4>2, <4>3 DEF IterBody
      <4>4. CASE r # {}
        <5> DEFINE q == rest(r)
        <5>1. q \in SUBSET r /\ q # U /\ q \in SUBSET U
          BY <4>4, <3>1, SomeIn
        <5>2. IsIter(Iter(f, q), f, q)
          BY <5>1, <1>3
        <5>3. IsFiniteSet(r)
          BY <3>1, <1>3, FS_Subset
        <5>4. Iter(f, r)[q] = Iter(f, q)[q]
          <6> DEFINE gr == Iter(f, r)  gq == Iter(f, q)
          <6>1. IsIter(gr, f, r) /\ IsIter(gq, f, q)
            BY <4>1, <5>2
          <6>2. q \in SUBSET q
            OBVIOUS
          <6> HIDE DEF gr, gq, q, r
          <6>3. gr[q] = gq[q]
            BY <6>1, <6>2, <5>1, <5>3, IterUnique
          <6>4. QED
            BY <6>3 DEF gr, gq
        <5>5. QED
          BY <4>2, <4>4, <5>4 DEF IterBody
      <4>5. QED
        BY <4>3, <4>4
    <3>4. QED
      BY <2>2, <3>2, <3>3 DEF IterBody
  <2>3. QED
    BY <2>1, <2>2
<1>5. IsIter(g, f, U)
  <2> HIDE DEF val
  <2>1. g = [s \in SUBSET U |-> IterBody(g, f, s)]
    BY <1>4, Zenon
  <2> HIDE DEF g
  <2>2. QED
    BY <2>1, Zenon DEF IsIter
<1>6. IsIter(Iter(f, U), f, U)
  <2> HIDE DEF g
  <2>1. QED
    BY <1>5, Zenon DEF Iter
<1>7. QED
  BY <1>3, <1>6

\* The sum over a finite set, by the element that is taken out first.
LEMMA SumStep ==
    ASSUME NEW f, NEW S, IsFiniteSet(S)
    PROVE  SumFunctionOnSet(f, S) =
              IF S = {} THEN 0
              ELSE f[Some(S)] + SumFunctionOnSet(f, S \ {Some(S)})
<1>1. IsIter(Iter(f, S), f, S)
  BY IterExists
<1>2. Iter(f, S)[S] = IterBody(Iter(f, S), f, S)
  BY <1>1, Zenon DEF IsIter
<1>3. CASE S = {}
  BY <1>2, <1>3, SumIsIter DEF IterBody
<1>4. CASE S # {}
  <2> DEFINE r == S \ {Some(S)}  g == Iter(f, S)  h == Iter(f, r)
  <2>1. r \in SUBSET S /\ r \in SUBSET r
    OBVIOUS
  <2>2. IsFiniteSet(r)
    BY FS_RemoveElement
  <2>3. IsIter(g, f, S) /\ IsIter(h, f, r)
    BY <1>1, <2>2, IterExists
  <2>4. h[r] = SumFunctionOnSet(f, r)
    BY SumIsIter
  <2>5. g[r] = h[r]
    <3> HIDE DEF r, g, h
    <3>1. QED
      BY <2>1, <2>3, IterUnique
  <2>6. QED
    BY <1>2, <1>4, <2>4, <2>5, SumIsIter DEF IterBody
<1>5. QED
  BY <1>3, <1>4

\* The sum over nothing.
LEMMA SumEmpty ==
    ASSUME NEW f
    PROVE  SumFunctionOnSet(f, {}) = 0
BY SumStep, FS_EmptySet

\* A sum of integers is an integer.
LEMMA SumInt ==
    ASSUME NEW f, NEW S, IsFiniteSet(S), \A x \in S : f[x] \in Int
    PROVE  SumFunctionOnSet(f, S) \in Int
<1> DEFINE B == {U \in SUBSET S : SumFunctionOnSet(f, U) \notin Int}
<1>1. SUFFICES ASSUME B # {} PROVE FALSE
  OBVIOUS
<1>2. PICK U \in B : \A W \in B : ~(W \subseteq U /\ W # U)
  <2>1. B \in SUBSET SUBSET S
    OBVIOUS
  <2> HIDE DEF B
  <2>2. QED
    BY <1>1, <2>1, LeastSet
<1>3. IsFiniteSet(U)
  BY FS_Subset
<1>4. CASE U = {}
  BY <1>4, SumEmpty
<1>5. CASE U # {}
  <2>1. SumFunctionOnSet(f, U \ {Some(U)}) \in Int
    BY <1>2, <1>5, SomeIn
  <2>2. f[Some(U)] \in Int
    BY <1>5, SomeIn
  <2>3. QED
    BY <1>3, <1>5, <2>1, <2>2, SumStep
<1>6. QED
  BY <1>4, <1>5

\* A sum depends on nothing but the values that are summed.
LEMMA SumSame ==
    ASSUME NEW f, NEW g, NEW S, IsFiniteSet(S), \A x \in S : f[x] = g[x]
    PROVE  SumFunctionOnSet(f, S) = SumFunctionOnSet(g, S)
<1> DEFINE B == {U \in SUBSET S : SumFunctionOnSet(f, U) # SumFunctionOnSet(g, U)}
<1>1. SUFFICES ASSUME B # {} PROVE FALSE
  OBVIOUS
<1>2. PICK U \in B : \A W \in B : ~(W \subseteq U /\ W # U)
  <2>1. B \in SUBSET SUBSET S
    OBVIOUS
  <2> HIDE DEF B
  <2>2. QED
    BY <1>1, <2>1, LeastSet
<1>3. IsFiniteSet(U)
  BY FS_Subset
<1>4. CASE U = {}
  BY <1>4, SumEmpty
<1>5. CASE U # {}
  <2>1. SumFunctionOnSet(f, U \ {Some(U)}) = SumFunctionOnSet(g, U \ {Some(U)})
    BY <1>2, <1>5, SomeIn
  <2>2. f[Some(U)] = g[Some(U)]
    BY <1>5, SomeIn
  <2>3. QED
    BY <1>3, <1>5, <2>1, <2>2, SumStep
<1>6. QED
  BY <1>4, <1>5

\* Any element may be taken out first.
LEMMA SumRemove ==
    ASSUME NEW f, NEW S, IsFiniteSet(S), \A x \in S : f[x] \in Int, NEW y \in S
    PROVE  SumFunctionOnSet(f, S) = f[y] + SumFunctionOnSet(f, S \ {y})
<1> DEFINE Sum(U) == SumFunctionOnSet(f, U)
           B == {U \in SUBSET S : \E x \in U : Sum(U) # f[x] + Sum(U \ {x})}
<1>0. \A U \in SUBSET S : IsFiniteSet(U) /\ Sum(U) \in Int
  BY SumInt, FS_Subset
<1>1. SUFFICES ASSUME B # {} PROVE FALSE
  OBVIOUS
<1>2. PICK U \in B : \A W \in B : ~(W \subseteq U /\ W # U)
  <2>1. B \in SUBSET SUBSET S
    OBVIOUS
  <2> HIDE DEF B
  <2>2. QED
    BY <1>1, <2>1, LeastSet
<1>3. PICK x \in U : Sum(U) # f[x] + Sum(U \ {x})
  OBVIOUS
<1> DEFINE c == Some(U)
<1>4. c \in U /\ U # {}
  BY SomeIn
<1>5. Sum(U) = f[c] + Sum(U \ {c})
  BY <1>0, <1>4, SumStep
<1>6. c # x
  BY <1>3, <1>5
<1> HIDE DEF Sum, c
<1>7. Sum(U \ {c}) = f[x] + Sum((U \ {c}) \ {x})
  <2>1. U \ {c} \notin B
    BY <1>2, <1>4
  <2>2. QED
    BY <2>1, <1>6
<1>8. Sum(U \ {x}) = f[c] + Sum((U \ {x}) \ {c})
  <2>1. U \ {x} \notin B
    BY <1>2
  <2>2. QED
    BY <2>1, <1>4, <1>6
<1>9. (U \ {x}) \ {c} = (U \ {c}) \ {x}
  OBVIOUS
<1>10. QED
  <2> DEFINE p == Sum((U \ {c}) \ {x})  a == f[x]  b == f[c]
             m == Sum(U \ {c})  n == Sum(U \ {x})  k == Sum(U)
  <2>1. p \in Int /\ a \in Int /\ b \in Int
    BY <1>0, <1>4
  <2>2. k # a + n /\ k = b + m /\ m = a + p /\ n = b + p
    BY <1>3, <1>5, <1>7, <1>8, <1>9
  <2> HIDE DEF p, a, b, m, n, k
  <2>3. QED
    BY <2>1, <2>2

\* One more element adds its value.
LEMMA SumAdd ==
    ASSUME NEW f, NEW S, IsFiniteSet(S), \A x \in S : f[x] \in Int, NEW y, y \notin S, f[y] \in Int
    PROVE  SumFunctionOnSet(f, S \cup {y}) = f[y] + SumFunctionOnSet(f, S)
<1>1. IsFiniteSet(S \cup {y})
  BY FS_AddElement
<1>2. (S \cup {y}) \ {y} = S
  OBVIOUS
<1>3. QED
  BY <1>1, <1>2, SumRemove

\* Another value for one element changes the sum by the difference.
LEMMA SumChange ==
    ASSUME NEW f, NEW g, NEW S, IsFiniteSet(S), NEW y \in S,
           \A x \in S : f[x] \in Int /\ g[x] \in Int,
           \A x \in S \ {y} : g[x] = f[x]
    PROVE  SumFunctionOnSet(g, S) = SumFunctionOnSet(f, S) + (g[y] - f[y])
<1>1. IsFiniteSet(S \ {y})
  BY FS_RemoveElement
<1>2. SumFunctionOnSet(g, S \ {y}) = SumFunctionOnSet(f, S \ {y})
  BY <1>1, SumSame
<1>3. SumFunctionOnSet(f, S \ {y}) \in Int
  BY <1>1, SumInt
<1>4. SumFunctionOnSet(f, S) = f[y] + SumFunctionOnSet(f, S \ {y})
  BY SumRemove
<1>5. SumFunctionOnSet(g, S) = g[y] + SumFunctionOnSet(g, S \ {y})
  BY SumRemove
<1>6. QED
  BY <1>2, <1>3, <1>4, <1>5

\* A sum of zeros.
LEMMA SumZero ==
    ASSUME NEW f, NEW S, IsFiniteSet(S), \A x \in S : f[x] = 0
    PROVE  SumFunctionOnSet(f, S) = 0
<1> DEFINE B == {U \in SUBSET S : SumFunctionOnSet(f, U) # 0}
<1>1. SUFFICES ASSUME B # {} PROVE FALSE
  OBVIOUS
<1>2. PICK U \in B : \A W \in B : ~(W \subseteq U /\ W # U)
  <2>1. B \in SUBSET SUBSET S
    OBVIOUS
  <2> HIDE DEF B
  <2>2. QED
    BY <1>1, <2>1, LeastSet
<1>3. IsFiniteSet(U)
  BY FS_Subset
<1>4. CASE U = {}
  BY <1>4, SumEmpty
<1>5. CASE U # {}
  <2>1. f[Some(U)] = 0 /\ SumFunctionOnSet(f, U \ {Some(U)}) = 0
    BY <1>2, <1>5, SomeIn
  <2>2. QED
    BY <1>2, <1>3, <1>5, <2>1, SumStep
<1>6. QED
  BY <1>4, <1>5

\* A sum grows with the values that are summed.
LEMMA SumLeq ==
    ASSUME NEW f, NEW g, NEW S, IsFiniteSet(S),
           \A x \in S : f[x] \in Int /\ g[x] \in Int /\ f[x] <= g[x]
    PROVE  SumFunctionOnSet(f, S) <= SumFunctionOnSet(g, S)
<1> DEFINE B == {U \in SUBSET S : ~(SumFunctionOnSet(f, U) <= SumFunctionOnSet(g, U))}
<1>0. \A U \in SUBSET S : /\ IsFiniteSet(U)
                          /\ SumFunctionOnSet(f, U) \in Int
                          /\ SumFunctionOnSet(g, U) \in Int
  BY SumInt, FS_Subset
<1>1. SUFFICES ASSUME B # {} PROVE FALSE
  OBVIOUS
<1>2. PICK U \in B : \A W \in B : ~(W \subseteq U /\ W # U)
  <2>1. B \in SUBSET SUBSET S
    OBVIOUS
  <2> HIDE DEF B
  <2>2. QED
    BY <1>1, <2>1, LeastSet
<1>4. CASE U = {}
  BY <1>4, SumEmpty
<1>5. CASE U # {}
  <2> DEFINE r == U \ {Some(U)}
  <2>1. Some(U) \in U /\ r \in SUBSET S
    BY <1>5, SomeIn
  <2>2. SumFunctionOnSet(f, r) <= SumFunctionOnSet(g, r)
    BY <1>2, <1>5, SomeIn
  <2>3. SumFunctionOnSet(f, U) = f[Some(U)] + SumFunctionOnSet(f, r)
    BY <1>0, <1>5, SumStep
  <2>4. SumFunctionOnSet(g, U) = g[Some(U)] + SumFunctionOnSet(g, r)
    BY <1>0, <1>5, SumStep
  <2>5. QED
    BY <1>0, <2>1, <2>2, <2>3, <2>4
<1>6. QED
  BY <1>4, <1>5

\* Values of 0 may be left out of a sum.
LEMMA SumRestrict ==
    ASSUME NEW f, NEW S, IsFiniteSet(S), \A x \in S : f[x] \in Int,
           NEW T \in SUBSET S, \A x \in S \ T : f[x] = 0
    PROVE  SumFunctionOnSet(f, S) = SumFunctionOnSet(f, T)
<1> DEFINE B == {U \in SUBSET S : /\ T \subseteq U
                                  /\ SumFunctionOnSet(f, U) = SumFunctionOnSet(f, S)}
<1>0. \A U \in SUBSET S : IsFiniteSet(U) /\ SumFunctionOnSet(f, U) \in Int
  BY SumInt, FS_Subset
<1>1. PICK U \in B : \A W \in B : ~(W \subseteq U /\ W # U)
  <2>1. B \in SUBSET SUBSET S /\ B # {}
    OBVIOUS
  <2> HIDE DEF B
  <2>2. QED
    BY <2>1, LeastSet
<1>2. CASE U = T
  BY <1>2
<1>3. CASE U # T
  <2>1. PICK y \in U : y \notin T
    BY <1>3
  <2>2. SumFunctionOnSet(f, U) = f[y] + SumFunctionOnSet(f, U \ {y})
    BY <1>0, SumRemove
  <2>3. f[y] = 0 /\ U \ {y} \in SUBSET S /\ T \subseteq U \ {y}
    BY <2>1
  <2>4. SumFunctionOnSet(f, U \ {y}) = SumFunctionOnSet(f, U)
    BY <1>0, <2>2, <2>3
  <2>5. U \ {y} \in B
    BY <2>3, <2>4
  <2>6. QED
    BY <1>1, <2>5
<1>4. QED
  BY <1>2, <1>3

\* The sum of a function is the sum over its domain.
LEMMA SumOverDomain ==
    ASSUME NEW f, NEW S, NEW g, g = [x \in S |-> f[x]], IsFiniteSet(S)
    PROVE  SumFunction(g) = SumFunctionOnSet(f, S)
BY SumSame DEF SumFunction

\* The value of f at x, 0 where f is not defined.
At(f, x) == IF x \in DOMAIN f THEN f[x] ELSE 0

\* Two functions that differ in one place, where either may be undefined: what a step
\* that adds, rewrites or drops one entry does to the total.
LEMMA SumAtOne ==
    ASSUME NEW f, IsFiniteSet(DOMAIN f), \A x \in DOMAIN f : f[x] \in Int,
           NEW g, IsFiniteSet(DOMAIN g), \A x \in DOMAIN g : g[x] \in Int,
           NEW y, (DOMAIN f) \ {y} = (DOMAIN g) \ {y},
           \A x \in (DOMAIN f) \ {y} : f[x] = g[x]
    PROVE  /\ SumFunction(f) \in Int
           /\ SumFunction(g) \in Int
           /\ SumFunction(g) = SumFunction(f) + (At(g, y) - At(f, y))
<1> DEFINE R == (DOMAIN f) \ {y}
<1>1. IsFiniteSet(R)
  BY FS_RemoveElement
<1>2. SumFunctionOnSet(f, R) = SumFunctionOnSet(g, R) /\ SumFunctionOnSet(f, R) \in Int
  BY <1>1, SumSame, SumInt
<1>3. SumFunction(f) = At(f, y) + SumFunctionOnSet(f, R) /\ At(f, y) \in Int
  <2>1. CASE y \in DOMAIN f
    BY <2>1, SumRemove DEF At, SumFunction
  <2>2. CASE y \notin DOMAIN f
    <3>1. R = DOMAIN f
      BY <2>2
    <3>2. QED
      BY <3>1, <2>2, <1>2 DEF At, SumFunction
  <2>3. QED
    BY <2>1, <2>2
<1>4. SumFunction(g) = At(g, y) + SumFunctionOnSet(g, R) /\ At(g, y) \in Int
  <2>1. CASE y \in DOMAIN g
    BY <2>1, SumRemove DEF At, SumFunction
  <2>2. CASE y \notin DOMAIN g
    <3>1. R = DOMAIN g
      BY <2>2
    <3>2. QED
      BY <3>1, <2>2, <1>2 DEF At, SumFunction
  <2>3. QED
    BY <2>1, <2>2
<1> HIDE DEF R
<1>5. QED
  BY <1>2, <1>3, <1>4

-----------------------------------------------------------------------------
(* Loops over a list. *)

\* A set of numbers that is not empty has a least one.
LEMMA LeastNat ==
    ASSUME NEW B \in SUBSET Nat, B # {}
    PROVE  \E n \in B : \A m \in B : n <= m
<1>1. PICK n \in B : \A m \in B : <<m, n>> \notin OpToRel(<, Nat)
  BY NatLessThanWellFounded, WFMin, Zenon
<1>2. \A m \in B : ~(m < n)
  BY <1>1 DEF OpToRel
<1> QED BY <1>2

\* So what holds of the start of a loop and is kept by each round holds at the end.
LEMMA Rounds ==
    ASSUME NEW n \in Nat, NEW D \in SUBSET Nat, 0 \in D,
           \A k \in 1 .. n : k - 1 \in D => k \in D
    PROVE  \A k \in 0 .. n : k \in D
<1> DEFINE B == {k \in 0 .. n : k \notin D}
<1>1. SUFFICES ASSUME B # {} PROVE FALSE
  OBVIOUS
<1>2. B \in SUBSET Nat
  OBVIOUS
<1>3. PICK k \in B : \A m \in B : k <= m
  <2> HIDE DEF B
  <2> QED BY <1>1, <1>2, LeastNat
<1>4. k \in 1 .. n /\ k - 1 \in 0 .. n /\ k - 1 \notin B
  BY <1>3
<1> QED BY <1>4

\* A loop over the states W: n rounds from base, step[<<w, k>>] the state after round k.
IsLoop(W, base, n, step) == base \in W /\ n \in Nat /\ step \in [W \X (1 .. n) -> W]

IsRun(g, W, base, n, step) ==
    /\ g \in [0 .. n -> W]
    /\ g[0] = base
    /\ \A k \in 1 .. n : g[k] = step[<<g[k - 1], k>>]

\* A loop of n rounds has a run.
LEMMA RunExists ==
    ASSUME NEW W, NEW base, NEW n, NEW step, IsLoop(W, base, n, step)
    PROVE  \E g : IsRun(g, W, base, n, step)
<1>0. base \in W /\ n \in Nat /\ step \in [W \X (1 .. n) -> W]
  BY DEF IsLoop
<1> DEFINE Ran(g, m) == /\ g \in [0 .. m -> W]
                        /\ g[0] = base
                        /\ \A k \in 1 .. m : g[k] = step[<<g[k - 1], k>>]
           D == {m \in 0 .. n : \E g : Ran(g, m)}
<1>1. 0 \in D
  <2> DEFINE h == [k \in 0 .. 0 |-> base]
  <2>1. h \in [0 .. 0 -> W] /\ h[0] = base
    BY <1>0
  <2>2. 1 .. 0 = {}
    OBVIOUS
  <2> HIDE DEF h
  <2>3. Ran(h, 0)
    BY <1>0, <2>1, <2>2
  <2> QED BY <1>0, <2>3
<1>2. ASSUME NEW m \in 1 .. n, m - 1 \in D
      PROVE  m \in D
  <2>1. PICK g : Ran(g, m - 1)
    BY <1>2
  <2> DEFINE next == step[<<g[m - 1], m>>]
             h == [k \in 0 .. m |-> IF k = m THEN next ELSE g[k]]
  <2>2. m - 1 \in 0 .. (m - 1) /\ next \in W
    BY <1>0, <2>1
  <2>3. h \in [0 .. m -> W]
    BY <1>0, <2>1, <2>2
  <2>4. h[0] = base
    BY <2>1
  <2>5. ASSUME NEW k \in 1 .. m
        PROVE  h[k] = step[<<h[k - 1], k>>]
    <3>1. CASE k = m
      <4>1. h[k] = next /\ h[k - 1] = g[m - 1]
        BY <1>0, <2>1, <3>1
      <4> QED BY <3>1, <4>1
    <3>2. CASE k # m
      <4>1. k \in 1 .. (m - 1) /\ k - 1 \in 0 .. (m - 1)
        BY <1>0, <3>2
      <4>2. h[k] = g[k] /\ h[k - 1] = g[k - 1]
        BY <1>0, <4>1
      <4> QED BY <1>0, <2>1, <4>1, <4>2
    <3> QED BY <3>1, <3>2
  <2> HIDE DEF h
  <2> QED BY <1>0, <2>3, <2>4, <2>5
<1>3. D \in SUBSET Nat
  BY <1>0
<1> HIDE DEF D
<1>4. n \in 0 .. n /\ \A k \in 0 .. n : k \in D
  BY <1>0, <1>1, <1>2, <1>3, Rounds
<1> QED BY <1>4 DEF D, IsRun

\* What a list that is pushed one more entry has in it.
LEMMA Pushed ==
    ASSUME NEW X, NEW list \in Seq(X), NEW x \in X
    PROVE  /\ Append(list, x) \in Seq(X)
           /\ Range(Append(list, x)) = Range(list) \cup {x}
           /\ IsInjective(list) /\ x \notin Range(list) => IsInjective(Append(list, x))
<1> DEFINE more == Append(list, x)
           n == Len(list)
<1>1. /\ n \in Nat /\ DOMAIN list = 1 .. n
      /\ more \in Seq(X) /\ DOMAIN more = 1 .. n + 1
      /\ \A j \in 1 .. n : more[j] = list[j]
      /\ more[n + 1] = x
  OBVIOUS
<1> HIDE DEF more, n
<1>2. Range(more) = Range(list) \cup {x}
  <2>1. ASSUME NEW y \in Range(more)
        PROVE  y \in Range(list) \cup {x}
    <3>1. PICK j \in 1 .. n + 1 : y = more[j]
      BY <1>1, <2>1 DEF Range
    <3>2. CASE j = n + 1
      BY <1>1, <3>1, <3>2
    <3>3. CASE j \in 1 .. n
      BY <1>1, <3>1, <3>3 DEF Range
    <3> QED BY <1>1, <3>1, <3>2, <3>3
  <2>2. ASSUME NEW y \in Range(list)
        PROVE  y \in Range(more)
    <3>1. PICK j \in 1 .. n : y = list[j]
      BY <1>1, <2>2 DEF Range
    <3>2. j \in DOMAIN more /\ more[j] = y
      BY <1>1, <3>1
    <3> QED BY <3>2 DEF Range
  <2>3. x \in Range(more)
    <3>1. n + 1 \in DOMAIN more
      BY <1>1
    <3> QED BY <1>1, <3>1 DEF Range
  <2> QED BY <2>1, <2>2, <2>3
<1>3. ASSUME IsInjective(list), x \notin Range(list)
      PROVE  IsInjective(more)
  <2>1. \A j \in 1 .. n : more[j] # x
    BY <1>1, <1>3 DEF Range
  <2>2. \A j \in 1 .. n, k \in 1 .. n : more[j] = more[k] => j = k
    BY <1>1, <1>3 DEF IsInjective
  <2>3. \A j \in 1 .. n + 1 : j \in 1 .. n \/ j = n + 1
    BY <1>1
  <2>4. \A j \in DOMAIN more, k \in DOMAIN more : more[j] = more[k] => j = k
    BY <1>1, <2>1, <2>2, <2>3
  <2> QED BY <2>4 DEF IsInjective
<1> QED BY <1>1, <1>2, <1>3 DEF more

\* A list keeps, each once, those of its entries that are in S.
LEMMA SiftedFacts ==
    ASSUME NEW X, NEW list \in Seq(X), NEW S
    PROVE  /\ Sifted(list, S) \in Seq(X)
           /\ Range(Sifted(list, S)) = Range(list) \cap S
           /\ IsInjective(list) => IsInjective(Sifted(list, S))
<1> DEFINE n == Len(list)
           body(g) == [k \in 0 .. n |->
                         IF k = 0 THEN << >>
                         ELSE IF list[k] \in S THEN Append(g[k - 1], list[k])
                         ELSE g[k - 1]]
           kept == CHOOSE g : g = body(g)
<1>1. Sifted(list, S) = kept[n]
  BY DEF Sifted
<1>2. n \in Nat /\ DOMAIN list = 1 .. n /\ \A k \in 1 .. n : list[k] \in X
  OBVIOUS
<1>3. kept = body(kept)
  <2> DEFINE W == Seq(X)
             step == [wk \in W \X (1 .. n) |->
                        IF list[wk[2]] \in S THEN Append(wk[1], list[wk[2]]) ELSE wk[1]]
  <2>1. \A w \in W, k \in 1 .. n : Append(w, list[k]) \in W
    BY <1>2
  <2>2. IsLoop(W, << >>, n, step)
    BY <1>2, <2>1 DEF IsLoop
  <2>3. \A w \in W, k \in 1 .. n :
            step[<<w, k>>] = IF list[k] \in S THEN Append(w, list[k]) ELSE w
    OBVIOUS
  <2> HIDE DEF W, step, n
  <2>4. PICK g : IsRun(g, W, << >>, n, step)
    BY <2>2, RunExists
  <2> USE DEF IsRun
  <2>5. ASSUME NEW k \in 0 .. n
        PROVE  g[k] = IF k = 0 THEN << >>
                      ELSE IF list[k] \in S THEN Append(g[k - 1], list[k])
                      ELSE g[k - 1]
    <3>1. CASE k = 0
      BY <2>4, <3>1
    <3>2. CASE k # 0
      <4>1. k \in 1 .. n /\ k - 1 \in 0 .. n
        BY <1>2, <3>2
      <4> QED BY <2>3, <2>4, <3>2, <4>1
    <3> QED BY <3>1, <3>2
  <2>6. g = body(g)
    BY <2>4, <2>5
  <2> HIDE DEF body
  <2> QED BY <2>6
<1> HIDE DEF kept, n
<1>3a. PICK g : g = kept /\ g = body(kept)
  BY <1>3
<1>4. kept[0] = << >>
  BY <1>2, <1>3a
<1>5. ASSUME NEW k \in 1 .. n
      PROVE  kept[k] = IF list[k] \in S THEN Append(kept[k - 1], list[k]) ELSE kept[k - 1]
  <2>1. k \in 0 .. n /\ k # 0
    BY <1>2
  <2> QED BY <1>3a, <2>1, Zenon
<1> HIDE DEF body
<1> DEFINE Done(k) == {list[j] : j \in 1 .. k}
           D == {k \in 0 .. n : /\ kept[k] \in Seq(X)
                                /\ Range(kept[k]) = Done(k) \cap S
                                /\ IsInjective(list) => IsInjective(kept[k])}
<1>6. 0 \in D
  <2>1. Done(0) = {} /\ Range(<< >>) = {} /\ IsInjective(<< >>) /\ << >> \in Seq(X)
    BY DEF Range, IsInjective
  <2> HIDE DEF Done
  <2>2. 0 \in 0 .. n /\ Range(kept[0]) = {} /\ IsInjective(kept[0]) /\ kept[0] \in Seq(X)
    BY <1>2, <1>4, <2>1
  <2> QED BY <2>1, <2>2
<1>7. ASSUME NEW k \in 1 .. n, k - 1 \in D
      PROVE  k \in D
  <2>1. Done(k) = Done(k - 1) \cup {list[k]}
    <3>1. 1 .. k = (1 .. (k - 1)) \cup {k}
      BY <1>2
    <3> QED BY <3>1
  <2>2. IsInjective(list) => list[k] \notin Done(k - 1)
    <3>1. \A j \in 1 .. (k - 1) : j \in 1 .. n /\ j # k
      BY <1>2
    <3> QED BY <1>2, <3>1 DEF IsInjective
  <2> DEFINE before == kept[k - 1]
             x == list[k]
  <2>3. before \in Seq(X) /\ Range(before) = Done(k - 1) \cap S
        /\ (IsInjective(list) => IsInjective(before))
    BY <1>7
  <2> HIDE DEF before, Done
  <2>4. CASE x \in S
    <3>1. kept[k] = Append(before, x)
      BY <1>5, <2>4 DEF before
    <3>2. /\ Append(before, x) \in Seq(X)
          /\ Range(Append(before, x)) = Range(before) \cup {x}
          /\ IsInjective(before) /\ x \notin Range(before) => IsInjective(Append(before, x))
      BY <1>2, <2>3, Pushed
    <3>3. Range(kept[k]) = Done(k) \cap S
      BY <2>1, <2>3, <2>4, <3>1, <3>2
    <3>4. IsInjective(list) => IsInjective(kept[k])
      BY <2>2, <2>3, <3>1, <3>2
    <3>5. k \in 0 .. n /\ kept[k] \in Seq(X)
      BY <1>2, <3>1, <3>2
    <3> QED BY <3>3, <3>4, <3>5
  <2>5. CASE x \notin S
    <3>1. kept[k] = before
      BY <1>5, <2>5 DEF before
    <3>3. Range(kept[k]) = Done(k) \cap S
      BY <2>1, <2>3, <2>5, <3>1
    <3>5. k \in 0 .. n
      BY <1>2
    <3> QED BY <2>3, <3>1, <3>3, <3>5
  <2> QED BY <2>4, <2>5
<1>8. D \in SUBSET Nat
  BY <1>2
<1>9. Done(n) = Range(list)
  BY <1>2 DEF Range
<1>10. n \in 0 .. n
  BY <1>2
<1> HIDE DEF D
<1>11. n \in D
  BY <1>2, <1>6, <1>7, <1>8, <1>10, Rounds
<1> QED BY <1>1, <1>9, <1>11 DEF D
=============================================================================
