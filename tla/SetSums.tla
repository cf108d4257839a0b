------------------------------ MODULE SetSums ------------------------------
(***************************************************************************)
(* Facts about SumFunctionOnSet, the sum of a function's values over a     *)
(* finite set of its arguments.  The sum is a fold that takes the elements *)
(* in an order CHOOSE fixes; that the order does not matter, and that the  *)
(* recursive function behind the fold exists at all, is proved here, by    *)
(* induction in the form that every non-empty set of naturals, or of       *)
(* subsets of a finite set, has a minimal member.                          *)
(***************************************************************************)
EXTENDS Functions, FiniteSetTheorems, TLAPS

\* Every family of subsets of a finite set has a minimal member.
LEMMA MinimalSubset ==
  ASSUME NEW S, IsFiniteSet(S), NEW T, T \subseteq SUBSET S, T # {}
  PROVE  \E x \in T : \A y \in T : y \subseteq x => y = x
  <1>1. IsWellFoundedOn(StrictSubsetOrdering(S), SUBSET S)
    BY FS_StrictSubsetOrderingWellFounded, FS_FiniteSubsetsOfFinite
  <1>2. PICK x \in T : \A y \in T : ~(<<y, x>> \in StrictSubsetOrdering(S))
    BY <1>1, WFMin
  <1> QED
    BY <1>2 DEF StrictSubsetOrdering

\* Every set of naturals has a least member.
LEMMA LeastNatural ==
  ASSUME NEW T \in SUBSET Nat, T # {}
  PROVE  \E n \in T : \A m \in T : n <= m
  <1>1. PICK t \in T : TRUE
    OBVIOUS
  <1> DEFINE all == 0 .. t
             family == {0 .. n : n \in {m \in T : m <= t}}
  <1>2. family \subseteq SUBSET all /\ family # {}
    BY <1>1
  <1>3. IsFiniteSet(all)
    BY FS_Interval
  <1>4. PICK x \in family : \A y \in family : y \subseteq x => y = x
    <2> HIDE DEF family, all
    <2> QED
      BY <1>2, <1>3, MinimalSubset
  <1>5. PICK n \in T : n <= t /\ x = 0 .. n
    OBVIOUS
  <1>6. ASSUME NEW m \in T, m < n PROVE FALSE
    <2>1. 0 .. m \in family /\ 0 .. m \subseteq 0 .. n
      BY <1>5, <1>6
    <2>2. 0 .. m = 0 .. n
      BY <1>4, <1>5, <2>1
    <2> QED
      BY <1>6, <2>2
  <1> QED
    BY <1>6

\* Induction over the naturals, for a set of naturals.
LEMMA NaturalsByInduction ==
  ASSUME NEW P, 0 \in P, \A n \in Nat : n \in P => n + 1 \in P
  PROVE  Nat \subseteq P
  <1> SUFFICES ASSUME Nat \ P # {} PROVE FALSE
    OBVIOUS
  <1>1. PICK n \in Nat \ P : \A m \in Nat \ P : n <= m
    BY LeastNatural
  <1>2. n # 0 /\ n - 1 \in Nat
    BY <1>1
  <1>3. n - 1 \in P
    BY <1>1, <1>2
  <1> QED
    BY <1>1, <1>2, <1>3

-----------------------------------------------------------------------------
\* The element the fold takes first.
Pick(s) == CHOOSE x \in s : TRUE

\* The equation of the recursive function behind the sum, on a family of sets.
IsIter(g, f, D) ==
  g = [s \in D |-> IF s = {} THEN 0 ELSE f[Pick(s)] + g[s \ {Pick(s)}]]

UpTo(S, n) == {s \in SUBSET S : Cardinality(s) <= n}

\* The sum is what such a function says of the whole set.
LEMMA SumUnfolds ==
  ASSUME NEW f, NEW S
  PROVE  SumFunctionOnSet(f, S) = (CHOOSE g : IsIter(g, f, SUBSET S))[S]
  BY DEF SumFunctionOnSet, FoldFunctionOnSet, MapThenFoldSet, IsIter, Pick

\* The fold takes an element of the set.
LEMMA PickMember ==
  ASSUME NEW S, S # {}
  PROVE  Pick(S) \in S
  BY DEF Pick

\* Taking one out of a set leaves a set with one element less.
LEMMA PickUpTo ==
  ASSUME NEW S, IsFiniteSet(S), NEW n \in Nat, NEW s \in UpTo(S, n + 1), s # {}
  PROVE  s \ {Pick(s)} \in UpTo(S, n)
  <1>1. s \in SUBSET S /\ Cardinality(s) <= n + 1 /\ IsFiniteSet(s)
    BY FS_Subset DEF UpTo
  <1>2. Pick(s) \in s
    BY PickMember
  <1>3. Cardinality(s \ {Pick(s)}) = Cardinality(s) - 1 /\ Cardinality(s) \in Nat
    BY <1>1, <1>2, FS_RemoveElement, FS_CardinalityType
  <1> QED
    BY <1>1, <1>3 DEF UpTo

\* It exists, one cardinality after the other.
LEMMA IterExists ==
  ASSUME NEW f, NEW S, IsFiniteSet(S)
  PROVE  \E g : IsIter(g, f, SUBSET S)
  <1> DEFINE P == {n \in Nat : \E g : IsIter(g, f, UpTo(S, n))}
  <1>1. 0 \in P
    <2>1. UpTo(S, 0) = {{}}
      <3>1. ASSUME NEW s \in SUBSET S PROVE Cardinality(s) <= 0 <=> s = {}
        BY <3>1, FS_Subset, FS_EmptySet, FS_CardinalityType
      <3> QED
        BY <3>1 DEF UpTo
    <2>2. IsIter([s \in {{}} |-> 0], f, {{}})
      BY DEF IsIter
    <2> QED
      BY <2>1, <2>2
  <1>2. ASSUME NEW n \in Nat, n \in P PROVE n + 1 \in P
    <2>1. PICK g : IsIter(g, f, UpTo(S, n))
      BY <1>2
    <2> DEFINE h == [s \in UpTo(S, n + 1) |->
                       IF s = {} THEN 0 ELSE f[Pick(s)] + g[s \ {Pick(s)}]]
    <2>2. ASSUME NEW s \in UpTo(S, n) PROVE s \in UpTo(S, n + 1) /\ h[s] = g[s]
      <3>1. s \in UpTo(S, n + 1)
        <4>1. IsFiniteSet(s) /\ Cardinality(s) \in Nat /\ Cardinality(s) <= n
          BY FS_Subset, FS_CardinalityType DEF UpTo
        <4> QED
          BY <4>1 DEF UpTo
      <3>2. g[s] = IF s = {} THEN 0 ELSE f[Pick(s)] + g[s \ {Pick(s)}]
        BY <2>1 DEF IsIter
      <3> QED
        BY <3>1, <3>2
    <2>3. ASSUME NEW s \in UpTo(S, n + 1), s # {}
          PROVE  g[s \ {Pick(s)}] = h[s \ {Pick(s)}]
      BY <2>2, <2>3, PickUpTo
    <2>4. IsIter(h, f, UpTo(S, n + 1))
      BY <2>3 DEF IsIter
    <2> QED
      BY <2>4
  <1>3. Cardinality(S) \in P
    <2> HIDE DEF P
    <2> QED
      BY <1>1, <1>2, NaturalsByInduction, FS_CardinalityType
  <1>4. UpTo(S, Cardinality(S)) = SUBSET S
    BY FS_Subset DEF UpTo
  <1> QED
    BY <1>3, <1>4

\* The function the sum is read from.
Iter(f, S) == CHOOSE g : IsIter(g, f, SUBSET S)

\* It satisfies its equation on every subset.
LEMMA IterEquation ==
  ASSUME NEW f, NEW S, IsFiniteSet(S), NEW s \in SUBSET S
  PROVE  Iter(f, S)[s] = IF s = {} THEN 0
                         ELSE f[Pick(s)] + Iter(f, S)[s \ {Pick(s)}]
  <1>1. IsIter(Iter(f, S), f, SUBSET S)
    BY IterExists DEF Iter
  <1> QED
    BY <1>1 DEF IsIter

\* Two of them agree wherever both are defined.
LEMMA IterAgree ==
  ASSUME NEW f, NEW S, IsFiniteSet(S), NEW R \in SUBSET S
  PROVE  Iter(f, S)[R] = Iter(f, R)[R]
  <1> DEFINE B == {s \in SUBSET R : Iter(f, S)[s] # Iter(f, R)[s]}
  <1>1. IsFiniteSet(R)
    BY FS_Subset
  <1>2. SUFFICES ASSUME B # {} PROVE FALSE
    OBVIOUS
  <1>3. PICK s \in B : \A y \in B : y \subseteq s => y = s
    <2>1. B \subseteq SUBSET R
      OBVIOUS
    <2> HIDE DEF B
    <2> QED
      BY <1>1, <1>2, <2>1, MinimalSubset
  <1>4. s \in SUBSET S /\ s \in SUBSET R
    OBVIOUS
  <1>5. CASE s = {}
    BY <1>1, <1>3, <1>4, <1>5, IterEquation
  <1>6. CASE s # {}
    <2>1. Pick(s) \in s
      BY <1>6, PickMember
    <2>2. s \ {Pick(s)} \notin B
      BY <1>3, <2>1
    <2>3. Iter(f, S)[s \ {Pick(s)}] = Iter(f, R)[s \ {Pick(s)}]
      BY <1>4, <2>2
    <2>4. Iter(f, S)[s] = f[Pick(s)] + Iter(f, S)[s \ {Pick(s)}]
      BY <1>4, <1>6, IterEquation
    <2>5. Iter(f, R)[s] = f[Pick(s)] + Iter(f, R)[s \ {Pick(s)}]
      BY <1>1, <1>4, <1>6, IterEquation
    <2> QED
      BY <2>3, <2>4, <2>5
  <1> QED
    BY <1>5, <1>6

\* The sum of a set is the value at its first element and the sum of the rest.
LEMMA SumOfPick ==
  ASSUME NEW f, NEW S, IsFiniteSet(S)
  PROVE  /\ SumFunctionOnSet(f, {}) = 0
         /\ S # {} => SumFunctionOnSet(f, S)
                        = f[Pick(S)] + SumFunctionOnSet(f, S \ {Pick(S)})
  <1>1. \A R : SumFunctionOnSet(f, R) = Iter(f, R)[R]
    BY SumUnfolds DEF Iter
  <1>2. SumFunctionOnSet(f, {}) = 0
    BY <1>1, FS_EmptySet, IterEquation
  <1>3. ASSUME S # {}
        PROVE  Iter(f, S)[S] = f[Pick(S)] + Iter(f, S)[S \ {Pick(S)}]
    BY <1>3, IterEquation
  <1>4. Iter(f, S)[S \ {Pick(S)}] = Iter(f, S \ {Pick(S)})[S \ {Pick(S)}]
    BY IterAgree
  <1> QED
    BY <1>1, <1>2, <1>3, <1>4
-----------------------------------------------------------------------------
\* The sum of naturals is one.
LEMMA SumNatural ==
  ASSUME NEW f, NEW S, IsFiniteSet(S), \A x \in S : f[x] \in Nat
  PROVE  SumFunctionOnSet(f, S) \in Nat
  <1> DEFINE B == {s \in SUBSET S : SumFunctionOnSet(f, s) \notin Nat}
  <1> SUFFICES ASSUME B # {} PROVE FALSE
    OBVIOUS
  <1>1. PICK s \in B : \A y \in B : y \subseteq s => y = s
    <2>1. B \subseteq SUBSET S
      OBVIOUS
    <2> HIDE DEF B
    <2> QED
      BY <2>1, MinimalSubset
  <1>2. s \subseteq S /\ IsFiniteSet(s)
    BY FS_Subset
  <1>3. s # {}
    <2>1. SumFunctionOnSet(f, {}) = 0 /\ SumFunctionOnSet(f, s) \notin Nat
      BY <1>2, SumOfPick
    <2> QED
      BY <2>1
  <1>4. Pick(s) \in s
    BY <1>3, PickMember
  <1>5. s \ {Pick(s)} \notin B
    BY <1>1, <1>4
  <1>6. SumFunctionOnSet(f, s \ {Pick(s)}) \in Nat /\ f[Pick(s)] \in Nat
    BY <1>2, <1>4, <1>5
  <1>7. SumFunctionOnSet(f, s) = f[Pick(s)] + SumFunctionOnSet(f, s \ {Pick(s)})
    BY <1>2, <1>3, SumOfPick
  <1> QED
    BY <1>6, <1>7

\* Any element may be taken out of the sum: the order is immaterial.
THEOREM SumRemove ==
  ASSUME NEW f, NEW S, IsFiniteSet(S), \A y \in S : f[y] \in Nat, NEW x \in S
  PROVE  SumFunctionOnSet(f, S) = f[x] + SumFunctionOnSet(f, S \ {x})
  <1> DEFINE Sum(s) == SumFunctionOnSet(f, s)
             B == {s \in SUBSET S : \E y \in s : Sum(s) # f[y] + Sum(s \ {y})}
  <1> SUFFICES ASSUME B # {} PROVE FALSE
    OBVIOUS
  <1>1. PICK s \in B : \A r \in B : r \subseteq s => r = s
    <2>1. B \subseteq SUBSET S
      OBVIOUS
    <2> HIDE DEF B
    <2> QED
      BY <2>1, MinimalSubset
  <1>2. PICK y \in s : Sum(s) # f[y] + Sum(s \ {y})
    BY <1>1
  <1> DEFINE p == Pick(s)
  <1>3. s \subseteq S /\ p \in s
    BY PickMember
  <1>4. \A r \in SUBSET s : IsFiniteSet(r) /\ Sum(r) \in Nat
    BY <1>3, FS_Subset, SumNatural
  <1>5. Sum(s) = f[p] + Sum(s \ {p})
    BY <1>3, <1>4, SumOfPick
  <1>6. p # y
    BY <1>2, <1>5
  <1>7. s \ {p} \notin B /\ s \ {y} \notin B
    BY <1>1, <1>2, <1>3
  <1>8. Sum(s \ {p}) = f[y] + Sum((s \ {p}) \ {y})
    BY <1>2, <1>3, <1>6, <1>7
  <1>9. (s \ {p}) \ {y} = (s \ {y}) \ {p}
    OBVIOUS
  <1>10. Sum(s \ {y}) = f[p] + Sum((s \ {p}) \ {y})
    BY <1>2, <1>3, <1>6, <1>7, <1>9
  <1>11. f[p] \in Nat /\ f[y] \in Nat /\ Sum((s \ {p}) \ {y}) \in Nat
    BY <1>2, <1>3, <1>4
  <1> HIDE DEF Sum, p, B
  <1> QED
    BY <1>2, <1>5, <1>8, <1>10, <1>11

\* Adding an element adds its value.
LEMMA SumAdd ==
  ASSUME NEW f, NEW S, IsFiniteSet(S), NEW x, x \notin S,
         \A y \in S \cup {x} : f[y] \in Nat
  PROVE  SumFunctionOnSet(f, S \cup {x}) = f[x] + SumFunctionOnSet(f, S)
  <1>1. IsFiniteSet(S \cup {x}) /\ (S \cup {x}) \ {x} = S
    BY FS_AddElement
  <1> QED
    BY <1>1, SumRemove

\* Only the values on the set count.
LEMMA SumEqual ==
  ASSUME NEW f, NEW g, NEW S, IsFiniteSet(S), \A x \in S : f[x] = g[x]
  PROVE  SumFunctionOnSet(f, S) = SumFunctionOnSet(g, S)
  <1> DEFINE B == {s \in SUBSET S : SumFunctionOnSet(f, s) # SumFunctionOnSet(g, s)}
  <1> SUFFICES ASSUME B # {} PROVE FALSE
    OBVIOUS
  <1>1. PICK s \in B : \A y \in B : y \subseteq s => y = s
    <2>1. B \subseteq SUBSET S
      OBVIOUS
    <2> HIDE DEF B
    <2> QED
      BY <2>1, MinimalSubset
  <1>2. s \subseteq S /\ IsFiniteSet(s)
    BY FS_Subset
  <1>3. s # {}
    BY <1>2, SumOfPick
  <1>4. Pick(s) \in s
    BY <1>3, PickMember
  <1>5. s \ {Pick(s)} \notin B
    BY <1>1, <1>4
  <1>6. /\ SumFunctionOnSet(f, s \ {Pick(s)}) = SumFunctionOnSet(g, s \ {Pick(s)})
        /\ f[Pick(s)] = g[Pick(s)]
    BY <1>2, <1>4, <1>5
  <1>7. /\ SumFunctionOnSet(f, s) = f[Pick(s)] + SumFunctionOnSet(f, s \ {Pick(s)})
        /\ SumFunctionOnSet(g, s) = g[Pick(s)] + SumFunctionOnSet(g, s \ {Pick(s)})
    BY <1>2, <1>3, SumOfPick
  <1> QED
    BY <1>6, <1>7

\* A subset has no larger sum.
LEMMA SumSubset ==
  ASSUME NEW f, NEW S, IsFiniteSet(S), \A x \in S : f[x] \in Nat, NEW R \in SUBSET S
  PROVE  SumFunctionOnSet(f, R) <= SumFunctionOnSet(f, S)
  <1> DEFINE Sum(s) == SumFunctionOnSet(f, s)
             B == {s \in SUBSET S : R \subseteq s /\ ~(Sum(R) <= Sum(s))}
  <1> SUFFICES ASSUME B # {} PROVE FALSE
    OBVIOUS
  <1>1. PICK s \in B : \A y \in B : y \subseteq s => y = s
    <2>1. B \subseteq SUBSET S
      OBVIOUS
    <2> HIDE DEF B
    <2> QED
      BY <2>1, MinimalSubset
  <1>2. s \subseteq S /\ R \subseteq s /\ ~(Sum(R) <= Sum(s))
    BY <1>1
  <1>3. \A r \in SUBSET S : IsFiniteSet(r) /\ Sum(r) \in Nat
    BY FS_Subset, SumNatural
  <1>4. PICK x \in s : x \notin R
    BY <1>2, <1>3
  <1>5. Sum(R) <= Sum(s \ {x})
    BY <1>1, <1>2, <1>4
  <1>6. Sum(s) = f[x] + Sum(s \ {x})
    BY <1>2, <1>3, <1>4, SumRemove
  <1>7. f[x] \in Nat /\ Sum(s \ {x}) \in Nat /\ Sum(R) \in Nat
    BY <1>2, <1>3, <1>4
  <1> HIDE DEF Sum
  <1> QED
    BY <1>2, <1>5, <1>6, <1>7

\* A sum over places that an injection assigns is no larger than the sum over all.
LEMMA SumInjected ==
  ASSUME NEW f, NEW g, NEW S, NEW R, IsFiniteSet(R), NEW h \in Injection(S, R),
         \A y \in R : f[y] \in Nat, \A x \in S : g[x] = f[h[x]]
  PROVE  /\ IsFiniteSet(S)
         /\ SumFunctionOnSet(g, S) <= SumFunctionOnSet(f, R)
  <1> DEFINE Image(s) == {h[x] : x \in s}
             B == {s \in SUBSET S :
                     SumFunctionOnSet(g, s) # SumFunctionOnSet(f, Image(s))}
  <1>1. IsFiniteSet(S)
    BY FS_Injection
  <1>2. h \in [S -> R] /\ \A x, y \in S : h[x] = h[y] => x = y
    BY DEF Injection, IsInjective
  <1>3. ASSUME B # {} PROVE FALSE
    <2>1. PICK s \in B : \A y \in B : y \subseteq s => y = s
      <3>1. B \subseteq SUBSET S
        OBVIOUS
      <3> HIDE DEF B
      <3> QED
        BY <1>1, <1>3, <3>1, MinimalSubset
    <2>2. s \subseteq S /\ IsFiniteSet(s)
      BY <1>1, FS_Subset
    <2>3. s # {}
      <3>1. ASSUME s = {} PROVE FALSE
        <4>1. Image(s) = {}
          BY <3>1
        <4>2. SumFunctionOnSet(g, s) = 0 /\ SumFunctionOnSet(f, Image(s)) = 0
          BY <3>1, <4>1, FS_EmptySet, SumOfPick
        <4> QED
          BY <4>2
      <3> QED
        BY <3>1
    <2>4. PICK x \in s : TRUE
      BY <2>3
    <2> DEFINE r == s \ {x}
    <2>5. SumFunctionOnSet(g, r) = SumFunctionOnSet(f, Image(r))
      BY <2>1, <2>2, <2>4
    <2>6. Image(s) \subseteq R /\ h[x] \in Image(s) /\ Image(s) \ {h[x]} = Image(r)
      BY <1>2, <2>2, <2>4
    <2>7. IsFiniteSet(Image(s))
      BY <2>6, FS_Subset
    <2>8. SumFunctionOnSet(g, s) = g[x] + SumFunctionOnSet(g, r)
      BY <1>2, <2>2, <2>4, SumRemove
    <2>9. SumFunctionOnSet(f, Image(s)) = f[h[x]] + SumFunctionOnSet(f, Image(r))
      <3> HIDE DEF Image
      <3> QED
        BY <2>6, <2>7, SumRemove
    <2>10. SumFunctionOnSet(g, s) # SumFunctionOnSet(f, Image(s))
      BY <2>1
    <2>11. g[x] = f[h[x]]
      BY <2>2, <2>4
    <2> HIDE DEF Image, r
    <2> QED
      BY <2>5, <2>8, <2>9, <2>10, <2>11
  <1>4. SumFunctionOnSet(g, S) = SumFunctionOnSet(f, Image(S))
    BY <1>3
  <1>5. Image(S) \subseteq R
    BY <1>2
  <1>6. SumFunctionOnSet(f, Image(S)) <= SumFunctionOnSet(f, R)
    <2> HIDE DEF Image
    <2> QED
      BY <1>5, SumSubset
  <1> QED
    BY <1>1, <1>4, <1>6

\* Changing the value at one element changes the sum by the difference.
LEMMA SumUpdate ==
  ASSUME NEW f, NEW g, NEW S, IsFiniteSet(S), NEW x \in S,
         \A y \in S : f[y] \in Nat /\ g[y] \in Nat,
         \A y \in S \ {x} : g[y] = f[y]
  PROVE  SumFunctionOnSet(g, S) = SumFunctionOnSet(f, S) - f[x] + g[x]
  <1>1. /\ SumFunctionOnSet(f, S) = f[x] + SumFunctionOnSet(f, S \ {x})
        /\ SumFunctionOnSet(g, S) = g[x] + SumFunctionOnSet(g, S \ {x})
    BY SumRemove
  <1>2. IsFiniteSet(S \ {x})
    BY FS_RemoveElement
  <1>3. SumFunctionOnSet(g, S \ {x}) = SumFunctionOnSet(f, S \ {x})
    BY <1>2, SumEqual
  <1>4. SumFunctionOnSet(f, S \ {x}) \in Nat /\ f[x] \in Nat /\ g[x] \in Nat
    BY <1>2, SumNatural
  <1> QED
    BY <1>1, <1>3, <1>4

\* Smaller values have no larger sum.
LEMMA SumMonotonic ==
  ASSUME NEW f, NEW g, NEW S, IsFiniteSet(S),
         \A y \in S : f[y] \in Nat /\ g[y] \in Nat /\ f[y] <= g[y]
  PROVE  SumFunctionOnSet(f, S) <= SumFunctionOnSet(g, S)
  <1> DEFINE B == {s \in SUBSET S :
                     ~(SumFunctionOnSet(f, s) <= SumFunctionOnSet(g, s))}
  <1> SUFFICES ASSUME B # {} PROVE FALSE
    OBVIOUS
  <1>1. PICK s \in B : \A y \in B : y \subseteq s => y = s
    <2>1. B \subseteq SUBSET S
      OBVIOUS
    <2> HIDE DEF B
    <2> QED
      BY <2>1, MinimalSubset
  <1>2. s \subseteq S /\ IsFiniteSet(s)
    BY FS_Subset
  <1>3. s # {}
    <2>1. /\ SumFunctionOnSet(f, {}) = 0
          /\ SumFunctionOnSet(g, {}) = 0
          /\ ~(SumFunctionOnSet(f, s) <= SumFunctionOnSet(g, s))
      BY <1>2, SumOfPick
    <2> QED
      BY <2>1
  <1>4. PICK x \in s : TRUE
    BY <1>3
  <1>5. SumFunctionOnSet(f, s \ {x}) <= SumFunctionOnSet(g, s \ {x})
    BY <1>1, <1>2, <1>4
  <1>6. /\ SumFunctionOnSet(f, s) = f[x] + SumFunctionOnSet(f, s \ {x})
        /\ SumFunctionOnSet(g, s) = g[x] + SumFunctionOnSet(g, s \ {x})
    BY <1>2, <1>4, SumRemove
  <1>7. IsFiniteSet(s \ {x})
    BY <1>2, FS_RemoveElement
  <1>8. /\ SumFunctionOnSet(f, s \ {x}) \in Nat /\ SumFunctionOnSet(g, s \ {x}) \in Nat
        /\ f[x] \in Nat /\ g[x] \in Nat /\ f[x] <= g[x]
    BY <1>2, <1>4, <1>7, SumNatural
  <1>9. ~(SumFunctionOnSet(f, s) <= SumFunctionOnSet(g, s))
    BY <1>1
  <1> QED
    BY <1>5, <1>6, <1>8, <1>9

\* Nothing adds up to nothing.
LEMMA SumZero ==
  ASSUME NEW f, NEW S, IsFiniteSet(S), \A x \in S : f[x] = 0
  PROVE  SumFunctionOnSet(f, S) = 0
  <1> DEFINE B == {s \in SUBSET S : SumFunctionOnSet(f, s) # 0}
  <1> SUFFICES ASSUME B # {} PROVE FALSE
    OBVIOUS
  <1>1. PICK s \in B : \A y \in B : y \subseteq s => y = s
    <2>1. B \subseteq SUBSET S
      OBVIOUS
    <2> HIDE DEF B
    <2> QED
      BY <2>1, MinimalSubset
  <1>2. s \subseteq S /\ IsFiniteSet(s)
    BY FS_Subset
  <1>3. s # {}
    BY <1>2, SumOfPick
  <1>4. Pick(s) \in s
    BY <1>3, PickMember
  <1>5. SumFunctionOnSet(f, s \ {Pick(s)}) = 0 /\ f[Pick(s)] = 0
    BY <1>1, <1>2, <1>4
  <1> QED
    BY <1>2, <1>3, <1>5, SumOfPick
=============================================================================
