----------------------------- MODULE SumTheorems -----------------------------
(***************************************************************************)
(* The laws of a sum over a finite set that the balances of the ledger     *)
(* rest on.  MapThenSumSet takes the elements of a set in the order that   *)
(* CHOOSE gives them; that the order does not matter, and that the         *)
(* recursion defines a function at all, is shown with a least              *)
(* counterexample.  Weights are functions, so that no lemma takes an       *)
(* operator.                                                               *)
(***************************************************************************)
EXTENDS Integers, FiniteSets, FiniteSetsExt, FiniteSetTheorems, WellFoundedInduction, TLAPS

\* The element with which the recursion goes on.
First(s) == CHOOSE x \in s : TRUE

\* f is the sum of the weights w over each member of Sets.
Adds(f, w, Sets) ==
    f = [s \in Sets |-> IF s = {} THEN 0 ELSE w[First(s)] + f[s \ {First(s)}]]

Sums(f, w, D) == Adds(f, w, SUBSET D)

\* The sum of the weights over S.
WeightOf(w, S) == MapThenSumSet(LAMBDA x : w[x], S)

\* A set of numbers has a least one.
LEMMA LeastNumber ==
    ASSUME NEW T \in SUBSET Nat, T # {}
    PROVE  \E n \in T : \A m \in T : n <= m
<1>1. IsWellFoundedOn(OpToRel(<, Nat), Nat)
      BY NatLessThanWellFounded
<1>2. PICK n \in T : \A m \in T : <<m, n>> \notin OpToRel(<, Nat)
      BY <1>1, WFMin, Zenon
<1>3. \A m \in T : ~(m < n)
      BY <1>2 DEF OpToRel
<1> QED BY <1>3

\* A nonempty set has its first element.
LEMMA FirstIn == ASSUME NEW s, s # {} PROVE First(s) \in s
BY DEF First

\* Adding is defined on the sets of up to n members, for every n.
LEMMA AddsBySize ==
    ASSUME NEW D, IsFiniteSet(D), NEW w \in [D -> Int], NEW n \in Nat
    PROVE  \E f : Adds(f, w, {s \in SUBSET D : Cardinality(s) <= n})
<1> DEFINE Upto(k) == {s \in SUBSET D : Cardinality(s) <= k}
           Bad == {k \in Nat : ~\E f : Adds(f, w, Upto(k))}
<1>1. SUFFICES ASSUME Bad # {} PROVE FALSE
      OBVIOUS
<1>2. PICK k \in Bad : \A j \in Bad : k <= j
      BY <1>1, LeastNumber
<1>3. \A s \in SUBSET D : /\ IsFiniteSet(s) /\ Cardinality(s) \in Nat
                          /\ Cardinality(s) = 0 <=> s = {}
      BY FS_Subset, FS_CardinalityType, FS_EmptySet
<1>4. k # 0
  <2>1. Upto(0) = {{}}
        BY <1>3, FS_EmptySet
  <2>2. Adds([s \in {{}} |-> 0], w, {{}})
        BY DEF Adds
  <2> QED BY <2>1, <2>2
<1>5. k - 1 \in Nat /\ k - 1 \notin Bad
  <2>1. k \in Nat
        OBVIOUS
  <2> HIDE DEF Bad
  <2> QED BY <1>2, <1>4, <2>1
<1>6. PICK f : Adds(f, w, Upto(k - 1))
      BY <1>5
<1> DEFINE g == [s \in Upto(k) |-> IF s = {} THEN 0 ELSE w[First(s)] + f[s \ {First(s)}]]
<1>7. ASSUME NEW s \in Upto(k), s # {}
      PROVE  s \ {First(s)} \in Upto(k - 1) /\ s \ {First(s)} \in Upto(k)
      BY <1>3, <1>7, FirstIn, FS_RemoveElement
<1>8. ASSUME NEW s \in Upto(k - 1) PROVE s \in Upto(k) /\ g[s] = f[s]
  <2>1. s \in Upto(k)
        BY <1>3, <1>5
  <2>2. f[s] = IF s = {} THEN 0 ELSE w[First(s)] + f[s \ {First(s)}]
        BY <1>6 DEF Adds
  <2> QED BY <2>1, <2>2
<1>9. \A s \in Upto(k) : g[s] = IF s = {} THEN 0 ELSE w[First(s)] + g[s \ {First(s)}]
      BY <1>7, <1>8
<1>10. Adds(g, w, Upto(k))
      BY <1>9 DEF Adds
<1> QED BY <1>2, <1>10

\* ... hence on all subsets of a finite set.
LEMMA SumExists ==
    ASSUME NEW D, IsFiniteSet(D), NEW w \in [D -> Int]
    PROVE  \E f : Sums(f, w, D)
<1>1. Cardinality(D) \in Nat
      BY FS_CardinalityType
<1>2. PICK f : Adds(f, w, {s \in SUBSET D : Cardinality(s) <= Cardinality(D)})
      BY <1>1, AddsBySize
<1>3. {s \in SUBSET D : Cardinality(s) <= Cardinality(D)} = SUBSET D
      BY FS_Subset
<1> QED BY <1>2, <1>3 DEF Sums

\* A property of the subsets of a finite set that fails fails first at some subset.
LEMMA LeastSubset ==
    ASSUME NEW D, IsFiniteSet(D), NEW T, T \subseteq SUBSET D, T # {}
    PROVE  \E s \in T : \A x \in s : s \ {x} \notin T
<1>1. T \subseteq FiniteSubsetsOf(D)
      BY FS_Subset DEF FiniteSubsetsOf
<1>2. IsWellFoundedOn(StrictSubsetOrdering(D), FiniteSubsetsOf(D))
      BY FS_StrictSubsetOrderingWellFounded
<1>3. PICK s \in T : \A u \in T : <<u, s>> \notin StrictSubsetOrdering(D)
      BY <1>1, <1>2, WFMin, Zenon
<1>4. ASSUME NEW x \in s, s \ {x} \in T PROVE FALSE
  <2>1. s \ {x} \subseteq s /\ s \ {x} # s /\ s \in SUBSET D /\ s \ {x} \in SUBSET D
        OBVIOUS
  <2> QED BY <1>3, <1>4, <2>1 DEF StrictSubsetOrdering
<1> QED BY <1>4

\* The sums over a set depend on the weights of its members only.
LEMMA AddsUnique ==
    ASSUME NEW D, IsFiniteSet(D), NEW S \in SUBSET D,
           NEW w, NEW v, \A x \in S : v[x] = w[x],
           NEW f, Sums(f, w, D), NEW g, Sums(g, v, S), NEW u \in SUBSET S
    PROVE  g[u] = f[u]
<1> DEFINE Bad == {s \in SUBSET S : g[s] # f[s]}
<1>1. SUFFICES ASSUME Bad # {} PROVE FALSE
      OBVIOUS
<1>2. IsFiniteSet(S) /\ Bad \subseteq SUBSET S
      BY FS_Subset
<1>3. PICK s \in Bad : \A x \in s : s \ {x} \notin Bad
      BY <1>1, <1>2, LeastSubset
<1>4. /\ g[s] = IF s = {} THEN 0 ELSE v[First(s)] + g[s \ {First(s)}]
      /\ f[s] = IF s = {} THEN 0 ELSE w[First(s)] + f[s \ {First(s)}]
      BY DEF Adds, Sums
<1>5. s # {} => First(s) \in s /\ g[s \ {First(s)}] = f[s \ {First(s)}]
      BY <1>3, FirstIn
<1> QED BY <1>4, <1>5

\* MapThenSumSet adds.
LEMMA WeightIsSum ==
    ASSUME NEW D, IsFiniteSet(D), NEW S \in SUBSET D, NEW w \in [D -> Int],
           NEW f, Sums(f, w, D)
    PROVE  WeightOf(w, S) = f[S]
<1> DEFINE g == CHOOSE iter : iter = [s \in SUBSET S |->
                    IF s = {} THEN 0
                    ELSE w[CHOOSE x \in s : TRUE] + iter[s \ {CHOOSE x \in s : TRUE}]]
<1>1. WeightOf(w, S) = g[S]
      BY DEF WeightOf, MapThenSumSet, MapThenFoldSet
<1>2. IsFiniteSet(S) /\ [x \in S |-> w[x]] \in [S -> Int]
      BY FS_Subset
<1>3. PICK h : Adds(h, [x \in S |-> w[x]], SUBSET S)
      BY <1>2, SumExists DEF Sums
<1>4. Adds(h, w, SUBSET S)
      BY <1>3, FirstIn DEF Adds
<1>5. h = [s \in SUBSET S |->
             IF s = {} THEN 0
             ELSE w[CHOOSE x \in s : TRUE] + h[s \ {CHOOSE x \in s : TRUE}]]
      BY <1>4 DEF Adds, First
<1>6. g = [s \in SUBSET S |->
             IF s = {} THEN 0
             ELSE w[CHOOSE x \in s : TRUE] + g[s \ {CHOOSE x \in s : TRUE}]]
      BY <1>5
<1>7. Adds(g, w, SUBSET S)
      BY <1>6 DEF Adds, First
<1>8. PICK k, v : Sums(k, v, S) /\ v = w /\ WeightOf(w, S) = k[S]
      BY <1>1, <1>7 DEF Sums
<1>9. \A x \in S : v[x] = w[x]
      BY <1>8
<1>10. k[S] = f[S]
      BY <1>8, <1>9, AddsUnique
<1> QED BY <1>8, <1>10

----------------------------------------------------------------------------
(* The laws *)

\* Sums of integers are integers ...
LEMMA SumsInt ==
    ASSUME NEW D, IsFiniteSet(D), NEW w \in [D -> Int], NEW f, Sums(f, w, D)
    PROVE  \A s \in SUBSET D : f[s] \in Int
<1> DEFINE Bad == {s \in SUBSET D : f[s] \notin Int}
<1>1. SUFFICES ASSUME Bad # {} PROVE FALSE
      OBVIOUS
<1>2. PICK s \in Bad : \A x \in s : s \ {x} \notin Bad
  <2> Bad \subseteq SUBSET D
      OBVIOUS
  <2> HIDE DEF Bad
  <2> QED BY <1>1, LeastSubset
<1>3. f[s] = IF s = {} THEN 0 ELSE w[First(s)] + f[s \ {First(s)}]
      BY DEF Sums, Adds
<1>4. s # {} => First(s) \in s /\ f[s \ {First(s)}] \in Int
      BY <1>2, FirstIn
<1> QED BY <1>3, <1>4

\* ... and any element may be taken out first.
AnyOrder(f, w, D) == \A s \in SUBSET D : \A x \in s : f[s] = w[x] + f[s \ {x}]

\* The order of CHOOSE makes no difference.
LEMMA SumsTake ==
    ASSUME NEW D, IsFiniteSet(D), NEW w \in [D -> Int], NEW f, Sums(f, w, D)
    PROVE  AnyOrder(f, w, D)
<1> DEFINE Good(s) == \A x \in s : f[s] = w[x] + f[s \ {x}]
           Bad == {s \in SUBSET D : ~Good(s)}
<1>1. SUFFICES ASSUME Bad # {} PROVE FALSE
      BY DEF AnyOrder
<1>2. PICK s \in Bad : \A x \in s : s \ {x} \notin Bad
  <2> Bad \subseteq SUBSET D
      OBVIOUS
  <2> HIDE DEF Bad
  <2> QED BY <1>1, LeastSubset
<1>3. s # {} /\ f[s] = IF s = {} THEN 0 ELSE w[First(s)] + f[s \ {First(s)}]
      BY DEF Sums, Adds
<1>4. PICK c \in s : f[s] = w[c] + f[s \ {c}]
      BY <1>3, FirstIn
<1>5. \A x \in s : s \ {x} \in SUBSET D /\ Good(s \ {x})
      BY <1>2
<1>6. ASSUME NEW x \in s, x # c PROVE f[s] = w[x] + f[s \ {x}]
  <2>1. PICK y \in SUBSET D : y = (s \ {c}) \ {x} /\ y = (s \ {x}) \ {c}
        OBVIOUS
  <2>2. f[s \ {c}] = w[x] + f[y] /\ f[s \ {x}] = w[c] + f[y]
        BY <1>5, <1>6, <2>1
  <2>3. w[x] \in Int /\ w[c] \in Int /\ f[y] \in Int
        BY SumsInt
  <2> QED BY <1>4, <2>2, <2>3
<1> QED BY <1>4, <1>6

\* The same of the sum that MapThenSumSet computes.
LEMMA SumLaws ==
    ASSUME NEW D, IsFiniteSet(D), NEW w \in [D -> Int]
    PROVE  /\ WeightOf(w, {}) = 0
           /\ \A S \in SUBSET D : WeightOf(w, S) \in Int
           /\ \A S \in SUBSET D : \A x \in S : WeightOf(w, S) = w[x] + WeightOf(w, S \ {x})
<1>1. PICK f : Sums(f, w, D)
      BY SumExists
<1>2. \A S \in SUBSET D : WeightOf(w, S) = f[S]
      BY <1>1, WeightIsSum
<1>3. f[{}] = 0
      BY <1>1 DEF Sums, Adds
<1>4. \A S \in SUBSET D : f[S] \in Int
      BY <1>1, SumsInt
<1>5. \A S \in SUBSET D : \A x \in S : f[S] = w[x] + f[S \ {x}]
  <2>1. AnyOrder(f, w, D)
        BY <1>1, SumsTake
  <2> QED BY <2>1 DEF AnyOrder
<1>6. \A S \in SUBSET D : \A x : S \ {x} \in SUBSET D
      OBVIOUS
<1> QED BY <1>2, <1>3, <1>4, <1>5, <1>6

\* Adding an element adds its weight.
LEMMA SumAdd ==
    ASSUME NEW D, IsFiniteSet(D), NEW w \in [D -> Int], NEW S \in SUBSET D, NEW x \in D \ S
    PROVE  WeightOf(w, S \union {x}) = WeightOf(w, S) + w[x]
<1>1. S \union {x} \in SUBSET D /\ (S \union {x}) \ {x} = S
      OBVIOUS
<1>2. WeightOf(w, S \union {x}) = w[x] + WeightOf(w, S)
      BY <1>1, SumLaws
<1>3. WeightOf(w, S) \in Int /\ w[x] \in Int
      BY SumLaws
<1> QED BY <1>2, <1>3

\* The sum depends on the weights of its members only.
LEMMA SumAgree ==
    ASSUME NEW D, IsFiniteSet(D), NEW w \in [D -> Int], NEW v \in [D -> Int],
           NEW S \in SUBSET D, \A x \in S : v[x] = w[x]
    PROVE  WeightOf(v, S) = WeightOf(w, S)
<1>1. PICK f, g : Sums(f, w, D) /\ Sums(g, v, D)
      BY SumExists
<1>2. WeightOf(w, S) = f[S] /\ WeightOf(v, S) = g[S]
      BY <1>1, WeightIsSum
<1>3. IsFiniteSet(S) /\ [x \in S |-> v[x]] \in [S -> Int]
      BY FS_Subset
<1>4. PICK h, u : Sums(h, u, S) /\ u = [x \in S |-> v[x]]
      BY <1>3, SumExists
<1>5. Sums(h, u, S) /\ (\A x \in S : u[x] = w[x]) /\ (\A x \in S : u[x] = v[x])
      BY <1>4
<1>6. h[S] = f[S]
      BY <1>1, <1>5, AddsUnique
<1>7. h[S] = g[S]
      BY <1>1, <1>5, AddsUnique
<1> QED BY <1>2, <1>6, <1>7

\* When one weight changes, so does the sum.
LEMMA SumChange ==
    ASSUME NEW D, IsFiniteSet(D), NEW w \in [D -> Int], NEW v \in [D -> Int],
           NEW S \in SUBSET D, NEW x \in S, \A y \in S \ {x} : v[y] = w[y]
    PROVE  WeightOf(v, S) = WeightOf(w, S) + (v[x] - w[x])
<1>1. WeightOf(v, S) = v[x] + WeightOf(v, S \ {x}) /\ WeightOf(w, S) = w[x] + WeightOf(w, S \ {x})
      BY SumLaws
<1>2. S \ {x} \in SUBSET D
      OBVIOUS
<1>3. WeightOf(v, S \ {x}) = WeightOf(w, S \ {x})
      BY <1>2, SumAgree
<1>4. v[x] \in Int /\ w[x] \in Int /\ WeightOf(w, S \ {x}) \in Int
      BY <1>2, SumLaws
<1> QED BY <1>1, <1>3, <1>4

\* Zeros add up to zero.
LEMMA SumZero ==
    ASSUME NEW D, IsFiniteSet(D), NEW w \in [D -> Int], NEW S \in SUBSET D,
           \A x \in S : w[x] = 0
    PROVE  WeightOf(w, S) = 0
<1> DEFINE Bad == {s \in SUBSET S : WeightOf(w, s) # 0}
<1>1. SUFFICES ASSUME Bad # {} PROVE FALSE
      OBVIOUS
<1>2. PICK s \in Bad : \A x \in s : s \ {x} \notin Bad
  <2> Bad \subseteq SUBSET S /\ IsFiniteSet(S)
      BY FS_Subset
  <2> HIDE DEF Bad
  <2> QED BY <1>1, LeastSubset
<1>3. PICK x : x \in s
      BY SumLaws
<1>4. WeightOf(w, s \ {x}) = 0
      BY <1>2, <1>3
<1>5. s \in SUBSET D /\ w[x] = 0
      BY <1>3
<1>6. WeightOf(w, s) = w[x] + WeightOf(w, s \ {x})
      BY <1>3, <1>5, SumLaws
<1> QED BY <1>4, <1>5, <1>6

\* Smaller weights add up to a smaller sum.
LEMMA SumMonotone ==
    ASSUME NEW D, IsFiniteSet(D), NEW w \in [D -> Int], NEW v \in [D -> Int],
           NEW S \in SUBSET D, \A x \in S : w[x] <= v[x]
    PROVE  /\ WeightOf(w, S) \in Int /\ WeightOf(v, S) \in Int
           /\ WeightOf(w, S) <= WeightOf(v, S)
<1> DEFINE Bad == {s \in SUBSET S : ~(WeightOf(w, s) <= WeightOf(v, s))}
<1>0. WeightOf(w, S) \in Int /\ WeightOf(v, S) \in Int
      BY SumLaws
<1>1. SUFFICES ASSUME Bad # {} PROVE FALSE
      BY <1>0
<1>2. PICK s \in Bad : \A x \in s : s \ {x} \notin Bad
  <2> Bad \subseteq SUBSET S /\ IsFiniteSet(S)
      BY FS_Subset
  <2> HIDE DEF Bad
  <2> QED BY <1>1, LeastSubset
<1>3. PICK x : x \in s
      BY SumLaws
<1>4. WeightOf(w, s \ {x}) <= WeightOf(v, s \ {x})
      BY <1>2, <1>3
<1>5. s \in SUBSET D /\ s \ {x} \in SUBSET D /\ w[x] <= v[x]
      BY <1>3
<1>6. /\ WeightOf(w, s) = w[x] + WeightOf(w, s \ {x})
      /\ WeightOf(v, s) = v[x] + WeightOf(v, s \ {x})
      BY <1>3, <1>5, SumLaws
<1>7. /\ WeightOf(w, s \ {x}) \in Int /\ WeightOf(v, s \ {x}) \in Int
      /\ w[x] \in Int /\ v[x] \in Int
      BY <1>3, <1>5, SumLaws
<1>8. WeightOf(w, s) <= WeightOf(v, s)
      BY <1>4, <1>5, <1>6, <1>7
<1> QED BY <1>8
=============================================================================
