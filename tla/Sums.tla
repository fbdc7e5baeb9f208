--------------------------------- MODULE Sums ---------------------------------
(***************************************************************************)
(* What SumFunctionOnSet of the community modules does, for any function   *)
(* and any finite set: the amounts of the lines of a voucher, of the rows  *)
(* of a page and of the previews kept are such sums.  It is defined by a   *)
(* choice of one element after the other; these lemmas say that the order  *)
(* makes no difference, that it adds up by parts, by groups and through an *)
(* image, and what it is bounded by.                                       *)
(***************************************************************************)
EXTENDS FiniteSetTheorems, TLAPS

\* g is the sum of f over every subset of S, one element after the other.
SumsOf(f, S, g) ==
    g = [s \in SUBSET S |-> IF s = {} THEN 0
                            ELSE f[CHOOSE x \in s : TRUE] + g[s \ {CHOOSE x \in s : TRUE}]]

\* The sum over a set is the value there of the function that sums its subsets.
LEMMA SumChosen ==
    ASSUME NEW f, NEW S
    PROVE  SumFunctionOnSet(f, S) = (CHOOSE g : SumsOf(f, S, g))[S]
  BY DEF SumFunctionOnSet, FoldFunctionOnSet, MapThenFoldSet, SumsOf

\* A family of subsets that has every set whose proper subsets it has, has them all.
LEMMA SubsetInduction ==
    ASSUME NEW S, IsFiniteSet(S), NEW Q,
           \A s \in SUBSET S : (\A t \in SUBSET s : t # s => t \in Q) => s \in Q
    PROVE  S \in Q
  <1> SUFFICES ASSUME S \notin Q PROVE FALSE
    OBVIOUS
  <1> DEFINE B == {s \in SUBSET S : s \notin Q}
  <1>1. B # {} /\ B \subseteq FiniteSubsetsOf(S)
    BY FS_FiniteSubsetsOfFinite
  <1>2. IsWellFoundedOn(StrictSubsetOrdering(S), FiniteSubsetsOf(S))
    BY FS_StrictSubsetOrderingWellFounded
  <1> HIDE DEF B
  <1>3. PICK s \in B : \A t \in B : ~ (<<t, s>> \in StrictSubsetOrdering(S))
    BY <1>1, <1>2, WFMin
  <1>4. ASSUME NEW t \in SUBSET s, t # s PROVE t \in Q
    <2>1. t \in SUBSET S /\ s \in SUBSET S
      BY <1>3, <1>4 DEF B
    <2>2. <<t, s>> \in StrictSubsetOrdering(S)
      BY <1>4, <2>1 DEF StrictSubsetOrdering
    <2> QED BY <1>3, <2>1, <2>2 DEF B
  <1> QED BY <1>3, <1>4 DEF B

\* A set of natural numbers has a least one.
LEMMA LeastNatural ==
    ASSUME NEW T, T \subseteq Nat, T # {}
    PROVE  \E n \in T : \A m \in T : n <= m
  <1> DEFINE R == {ss \in Nat \X Nat : ss[1] < ss[2]}
  <1>1. IsWellFoundedOn(R, Nat)
    BY NatLessThanWellFounded DEF OpToRel
  <1>2. \A n, m \in Nat : m < n => <<m, n>> \in R
    OBVIOUS
  <1> HIDE DEF R
  <1>3. PICK n \in T : \A m \in T : ~ (<<m, n>> \in R)
    BY <1>1, WFMin
  <1>4. ASSUME NEW m \in T PROVE n <= m
    <2>1. n \in Nat /\ m \in Nat
      OBVIOUS
    <2>2. ~(m < n)
      BY <1>2, <1>3, <2>1
    <2> QED BY <2>1, <2>2
  <1> QED BY <1>4

\* Over a finite set there is a function that sums the subsets.
LEMMA SumsOfExist ==
    ASSUME NEW f, NEW S, IsFiniteSet(S)
    PROVE  \E g : SumsOf(f, S, g)
  <1> DEFINE Step(g) == [s \in SUBSET S |->
                            IF s = {} THEN 0
                            ELSE f[CHOOSE x \in s : TRUE] + g[s \ {CHOOSE x \in s : TRUE}]]
             Upto(g, n) == \A s \in SUBSET S : Cardinality(s) <= n => g[s] = Step(g)[s]
             Bad == {n \in Nat : ~ \E g : g = [s \in SUBSET S |-> g[s]] /\ Upto(g, n)}
  <1>1. \A s \in SUBSET S : IsFiniteSet(s) /\ Cardinality(s) \in Nat /\ Cardinality(s) <= Cardinality(S)
    BY FS_Subset, FS_CardinalityType
  <1>2. \A s \in SUBSET S : s # {} =>
           /\ (CHOOSE x \in s : TRUE) \in s
           /\ s \ {CHOOSE x \in s : TRUE} \in SUBSET S
           /\ Cardinality(s \ {CHOOSE x \in s : TRUE}) = Cardinality(s) - 1
           /\ Cardinality(s) # 0
    BY <1>1, FS_RemoveElement, FS_EmptySet
  <1>3. Bad = {}
    <2> SUFFICES ASSUME Bad # {} PROVE FALSE
      OBVIOUS
    <2>a. Bad # {} OBVIOUS
    <2>1. PICK n \in Bad : \A m \in Bad : n <= m
      <3>1. Bad \subseteq Nat /\ Bad # {} BY <2>a
      <3> HIDE DEF Bad
      <3> QED BY <3>1, LeastNatural
    <2>2. CASE n = 0
      <3> DEFINE z == [s \in SUBSET S |-> 0]
      <3>1. Upto(z, 0)
        <4> TAKE s \in SUBSET S
        <4> HAVE Cardinality(s) <= 0
        <4>1. s = {} BY <1>1, FS_EmptySet
        <4> QED BY <4>1
      <3>2. z = [s \in SUBSET S |-> z[s]] OBVIOUS
      <3> HIDE DEF z, Upto
      <3> QED BY <3>1, <3>2, <2>1, <2>2
    <2>3. CASE n # 0
      <3>1. n - 1 \in Nat /\ n \in Nat /\ n - 1 \notin Bad
        <4>1. n \in Nat
          OBVIOUS
        <4> HIDE DEF Bad
        <4>2. n - 1 \in Nat /\ ~ (n <= n - 1)
          BY <4>1, <2>3
        <4> QED BY <4>1, <4>2, <2>1
      <3>2. PICK g : g = [s \in SUBSET S |-> g[s]] /\ Upto(g, n - 1)
        BY <3>1
      <3> DEFINE h == Step(g)
      <3>3. h = [s \in SUBSET S |-> h[s]]
        OBVIOUS
      <3>4. Upto(h, n)
        <4> TAKE s \in SUBSET S
        <4> HAVE Cardinality(s) <= n
        <4>1. CASE s = {}
          BY <4>1
        <4>2. CASE s # {}
          <5> DEFINE t == s \ {CHOOSE x \in s : TRUE}
          <5>1. t \in SUBSET S /\ Cardinality(t) <= n - 1
            BY <1>1, <1>2, <4>2, <3>1
          <5>2. g[t] = h[t]
            BY <3>2, <5>1
          <5>3. h[s] = f[CHOOSE x \in s : TRUE] + g[t]
            BY <4>2
          <5>4. Step(h)[s] = f[CHOOSE x \in s : TRUE] + h[t]
            BY <4>2
          <5> QED BY <5>2, <5>3, <5>4
        <4> QED BY <4>1, <4>2
      <3> HIDE DEF h, Upto
      <3> QED BY <3>1, <3>3, <3>4, <2>1
    <2> QED BY <2>2, <2>3
  <1>4. Cardinality(S) \in Nat BY <1>1
  <1>5. PICK g : g = [s \in SUBSET S |-> g[s]] /\ Upto(g, Cardinality(S))
    BY <1>3, <1>4
  <1>6. g = Step(g)
    <2>1. \A s \in SUBSET S : g[s] = Step(g)[s]
      BY <1>1, <1>5
    <2> QED BY <1>5, <2>1
  <1> QED BY <1>6 DEF SumsOf

\* What a function that sums the subsets is at a subset.
LEMMA SumsOfAt ==
    ASSUME NEW f, NEW S, NEW g, SumsOf(f, S, g)
    PROVE  /\ g[{}] = 0
           /\ \A s \in SUBSET S : s # {} =>
                 g[s] = f[CHOOSE x \in s : TRUE] + g[s \ {CHOOSE x \in s : TRUE}]
  <1> DEFINE step(s) == IF s = {} THEN 0
                        ELSE f[CHOOSE x \in s : TRUE] + g[s \ {CHOOSE x \in s : TRUE}]
  <1>1. g = [s \in SUBSET S |-> step(s)]
    BY DEF SumsOf
  <1>2. \A s \in SUBSET S : g[s] = step(s)
    <2> HIDE DEF step
    <2> TAKE s \in SUBSET S
    <2>1. [t \in SUBSET S |-> step(t)][s] = step(s)
      OBVIOUS
    <2> QED BY <1>1, <2>1
  <1>3. g[{}] = 0
    <2>1. step({}) = 0
      OBVIOUS
    <2>2. {} \in SUBSET S
      OBVIOUS
    <2> HIDE DEF step
    <2> QED BY <1>2, <2>1, <2>2
  <1>4. ASSUME NEW s \in SUBSET S, s # {}
        PROVE  g[s] = f[CHOOSE x \in s : TRUE] + g[s \ {CHOOSE x \in s : TRUE}]
    <2>1. step(s) = f[CHOOSE x \in s : TRUE] + g[s \ {CHOOSE x \in s : TRUE}]
      BY <1>4
    <2> QED BY <1>2, <2>1
  <1> QED BY <1>3, <1>4

\* Two such functions agree, the larger set of the two makes no difference.
LEMMA SumsAgree ==
    ASSUME NEW f, NEW S, NEW S2, IsFiniteSet(S), S \subseteq S2,
           NEW g, SumsOf(f, S, g), NEW g2, SumsOf(f, S2, g2)
    PROVE  g[S] = g2[S]
  <1> DEFINE Q == {s \in SUBSET S : g[s] = g2[s]}
  <1>1. ASSUME NEW s \in SUBSET S, \A t \in SUBSET s : t # s => t \in Q
        PROVE  s \in Q
    <2>1. CASE s = {}
      BY <2>1, SumsOfAt
    <2>2. CASE s # {}
      <3> DEFINE x == CHOOSE x \in s : TRUE
      <3>1. x \in s
        BY <2>2
      <3>2. g[s] = f[x] + g[s \ {x}] /\ g2[s] = f[x] + g2[s \ {x}]
        <4>1. s \in SUBSET S2
          OBVIOUS
        <4> QED BY <2>2, <4>1, SumsOfAt
      <3> HIDE DEF x
      <3>3. g[s \ {x}] = g2[s \ {x}]
        BY <1>1, <3>1
      <3> QED BY <3>2, <3>3
    <2> QED BY <2>1, <2>2
  <1> HIDE DEF Q
  <1>2. S \in Q
    BY <1>1, SubsetInduction
  <1> QED BY <1>2 DEF Q

\* The sum over no element is zero.
LEMMA SumEmpty ==
    ASSUME NEW f
    PROVE  SumFunctionOnSet(f, {}) = 0
  <1>1. IsFiniteSet({})
    BY FS_EmptySet
  <1>2. SumsOf(f, {}, CHOOSE g : SumsOf(f, {}, g))
    BY <1>1, SumsOfExist
  <1> QED BY <1>2, SumsOfAt, SumChosen

\* A sum is the value at the chosen element and the sum over the others.
LEMMA SumOneByOne ==
    ASSUME NEW f, NEW S, IsFiniteSet(S), S # {}
    PROVE  SumFunctionOnSet(f, S) =
              f[CHOOSE x \in S : TRUE] + SumFunctionOnSet(f, S \ {CHOOSE x \in S : TRUE})
  <1> DEFINE T == S \ {CHOOSE x \in S : TRUE}
             g == CHOOSE k : SumsOf(f, S, k)
             h == CHOOSE k : SumsOf(f, T, k)
  <1>1. IsFiniteSet(T) /\ T \subseteq S
    BY FS_Subset
  <1>2. SumsOf(f, S, g) /\ SumsOf(f, T, h)
    BY <1>1, SumsOfExist
  <1>3. g[S] = f[CHOOSE x \in S : TRUE] + g[T]
    BY <1>2, SumsOfAt
  <1>4. SumFunctionOnSet(f, S) = g[S] /\ SumFunctionOnSet(f, T) = h[T]
    BY SumChosen
  <1>5. h[T] = g[T]
    <2> HIDE DEF g, h, T
    <2> QED BY <1>1, <1>2, SumsAgree
  <1> QED BY <1>3, <1>4, <1>5

\* A sum of integers is an integer.
LEMMA SumInt ==
    ASSUME NEW f, NEW S, IsFiniteSet(S), \A x \in S : f[x] \in Int
    PROVE  SumFunctionOnSet(f, S) \in Int
  <1> DEFINE Q == {s \in SUBSET S : SumFunctionOnSet(f, s) \in Int}
  <1>1. ASSUME NEW s \in SUBSET S, \A t \in SUBSET s : t # s => t \in Q
        PROVE  s \in Q
    <2>1. CASE s = {}
      BY <2>1, SumEmpty
    <2>2. CASE s # {}
      <3> DEFINE x == CHOOSE x \in s : TRUE
      <3>1. x \in s /\ IsFiniteSet(s)
        BY <2>2, FS_Subset
      <3>2. SumFunctionOnSet(f, s) = f[x] + SumFunctionOnSet(f, s \ {x})
        BY <2>2, <3>1, SumOneByOne
      <3> HIDE DEF x
      <3>3. SumFunctionOnSet(f, s \ {x}) \in Int
        BY <1>1, <3>1
      <3> QED BY <3>1, <3>2, <3>3
    <2> QED BY <2>1, <2>2
  <1> HIDE DEF Q
  <1>2. S \in Q
    BY <1>1, SubsetInduction
  <1> QED BY <1>2 DEF Q

\* A sum is the value at any element and the sum over the others.
LEMMA SumStep ==
    ASSUME NEW f, NEW S, IsFiniteSet(S), \A x \in S : f[x] \in Int, NEW y \in S
    PROVE  SumFunctionOnSet(f, S) = f[y] + SumFunctionOnSet(f, S \ {y})
  <1> DEFINE Sum(s) == SumFunctionOnSet(f, s)
             Q == {s \in SUBSET S : \A z \in s : Sum(s) = f[z] + Sum(s \ {z})}
  <1>0. \A s \in SUBSET S : Sum(s) \in Int /\ IsFiniteSet(s)
    BY SumInt, FS_Subset
  <1>1. ASSUME NEW s \in SUBSET S, \A t \in SUBSET s : t # s => t \in Q
        PROVE  s \in Q
    <2> SUFFICES ASSUME NEW z \in s PROVE Sum(s) = f[z] + Sum(s \ {z})
      OBVIOUS
    <2> DEFINE x == CHOOSE x \in s : TRUE
    <2>1. x \in s /\ Sum(s) = f[x] + Sum(s \ {x})
      BY <1>0, SumOneByOne
    <2> HIDE DEF x, Sum
    <2>2. CASE x = z
      BY <2>1, <2>2
    <2>3. CASE x # z
      <3>1. Sum(s \ {x}) = f[z] + Sum((s \ {x}) \ {z})
        BY <1>1, <2>1, <2>3
      <3>2. Sum(s \ {z}) = f[x] + Sum((s \ {z}) \ {x})
        BY <1>1, <2>1, <2>3
      <3>3. (s \ {z}) \ {x} = (s \ {x}) \ {z}
        OBVIOUS
      <3>4. Sum((s \ {x}) \ {z}) \in Int /\ f[x] \in Int /\ f[z] \in Int
        BY <1>0, <2>1
      <3>5. \A a, b, c \in Int : a + (b + c) = b + (a + c)
        OBVIOUS
      <3>6. Sum(s) = f[x] + (f[z] + Sum((s \ {x}) \ {z}))
        BY <2>1, <3>1
      <3>7. f[z] + Sum(s \ {z}) = f[z] + (f[x] + Sum((s \ {x}) \ {z}))
        BY <3>2, <3>3
      <3> QED BY <3>4, <3>5, <3>6, <3>7
    <2> QED BY <2>2, <2>3
  <1> HIDE DEF Q
  <1>2. S \in Q
    BY <1>1, SubsetInduction
  <1> QED BY <1>2 DEF Q

\* The sum over one element is its value.
LEMMA SumSingle ==
    ASSUME NEW f, NEW x, f[x] \in Int
    PROVE  SumFunctionOnSet(f, {x}) = f[x]
  <1>1. IsFiniteSet({x}) /\ \A y \in {x} : f[y] \in Int
    BY FS_Singleton
  <1>2. SumFunctionOnSet(f, {x}) = f[x] + SumFunctionOnSet(f, {x} \ {x})
    BY <1>1, SumStep
  <1>3. {x} \ {x} = {}
    OBVIOUS
  <1> QED BY <1>2, <1>3, SumEmpty

\* Functions that agree on a set have the same sum over it.
LEMMA SumEqual ==
    ASSUME NEW f, NEW g, NEW S, IsFiniteSet(S), \A x \in S : f[x] = g[x]
    PROVE  SumFunctionOnSet(f, S) = SumFunctionOnSet(g, S)
  <1> DEFINE Q == {s \in SUBSET S : SumFunctionOnSet(f, s) = SumFunctionOnSet(g, s)}
  <1>1. ASSUME NEW s \in SUBSET S, \A t \in SUBSET s : t # s => t \in Q
        PROVE  s \in Q
    <2>1. CASE s = {}
      BY <2>1, SumEmpty
    <2>2. CASE s # {}
      <3> DEFINE x == CHOOSE x \in s : TRUE
      <3>1. x \in s /\ IsFiniteSet(s)
        BY <2>2, FS_Subset
      <3>2. /\ SumFunctionOnSet(f, s) = f[x] + SumFunctionOnSet(f, s \ {x})
            /\ SumFunctionOnSet(g, s) = g[x] + SumFunctionOnSet(g, s \ {x})
        BY <2>2, <3>1, SumOneByOne
      <3> HIDE DEF x
      <3>3. SumFunctionOnSet(f, s \ {x}) = SumFunctionOnSet(g, s \ {x})
        BY <1>1, <3>1
      <3> QED BY <3>1, <3>2, <3>3
    <2> QED BY <2>1, <2>2
  <1> HIDE DEF Q
  <1>2. S \in Q
    BY <1>1, SubsetInduction
  <1> QED BY <1>2 DEF Q

\* A sum of zeros is zero.
LEMMA SumZero ==
    ASSUME NEW f, NEW S, IsFiniteSet(S), \A x \in S : f[x] = 0
    PROVE  SumFunctionOnSet(f, S) = 0
  <1> DEFINE Q == {s \in SUBSET S : SumFunctionOnSet(f, s) = 0}
  <1>1. ASSUME NEW s \in SUBSET S, \A t \in SUBSET s : t # s => t \in Q
        PROVE  s \in Q
    <2>1. CASE s = {}
      BY <2>1, SumEmpty
    <2>2. CASE s # {}
      <3> DEFINE x == CHOOSE x \in s : TRUE
      <3>1. x \in s /\ IsFiniteSet(s)
        BY <2>2, FS_Subset
      <3>2. SumFunctionOnSet(f, s) = f[x] + SumFunctionOnSet(f, s \ {x})
        BY <2>2, <3>1, SumOneByOne
      <3> HIDE DEF x
      <3>3. SumFunctionOnSet(f, s \ {x}) = 0
        BY <1>1, <3>1
      <3> QED BY <3>1, <3>2, <3>3
    <2> QED BY <2>1, <2>2
  <1> HIDE DEF Q
  <1>2. S \in Q
    BY <1>1, SubsetInduction
  <1> QED BY <1>2 DEF Q

\* A sum of natural numbers is a natural number.
LEMMA SumNat ==
    ASSUME NEW f, NEW S, IsFiniteSet(S), \A x \in S : f[x] \in Nat
    PROVE  SumFunctionOnSet(f, S) \in Nat
  <1> DEFINE Q == {s \in SUBSET S : SumFunctionOnSet(f, s) \in Nat}
  <1>1. ASSUME NEW s \in SUBSET S, \A t \in SUBSET s : t # s => t \in Q
        PROVE  s \in Q
    <2>1. CASE s = {}
      BY <2>1, SumEmpty
    <2>2. CASE s # {}
      <3> DEFINE x == CHOOSE x \in s : TRUE
      <3>1. x \in s /\ IsFiniteSet(s)
        BY <2>2, FS_Subset
      <3>2. SumFunctionOnSet(f, s) = f[x] + SumFunctionOnSet(f, s \ {x})
        BY <2>2, <3>1, SumOneByOne
      <3> HIDE DEF x
      <3>3. SumFunctionOnSet(f, s \ {x}) \in Nat
        BY <1>1, <3>1
      <3> QED BY <3>1, <3>2, <3>3
    <2> QED BY <2>1, <2>2
  <1> HIDE DEF Q
  <1>2. S \in Q
    BY <1>1, SubsetInduction
  <1> QED BY <1>2 DEF Q

\* The sum of the sums is the sum of the sum.
LEMMA SumAdd ==
    ASSUME NEW f, NEW g, NEW h, NEW S, IsFiniteSet(S),
           \A x \in S : f[x] \in Int /\ g[x] \in Int /\ h[x] = f[x] + g[x]
    PROVE  SumFunctionOnSet(h, S) = SumFunctionOnSet(f, S) + SumFunctionOnSet(g, S)
  <1> DEFINE Q == {s \in SUBSET S :
                     SumFunctionOnSet(h, s) = SumFunctionOnSet(f, s) + SumFunctionOnSet(g, s)}
  <1>1. ASSUME NEW s \in SUBSET S, \A t \in SUBSET s : t # s => t \in Q
        PROVE  s \in Q
    <2>1. CASE s = {}
      BY <2>1, SumEmpty
    <2>2. CASE s # {}
      <3> DEFINE x == CHOOSE x \in s : TRUE
      <3>1. x \in s /\ IsFiniteSet(s) /\ IsFiniteSet(s \ {x})
        BY <2>2, FS_Subset
      <3>2. /\ SumFunctionOnSet(f, s) = f[x] + SumFunctionOnSet(f, s \ {x})
            /\ SumFunctionOnSet(g, s) = g[x] + SumFunctionOnSet(g, s \ {x})
            /\ SumFunctionOnSet(h, s) = h[x] + SumFunctionOnSet(h, s \ {x})
        BY <2>2, <3>1, SumOneByOne
      <3> HIDE DEF x
      <3>3. SumFunctionOnSet(h, s \ {x})
               = SumFunctionOnSet(f, s \ {x}) + SumFunctionOnSet(g, s \ {x})
        BY <1>1, <3>1
      <3>4. SumFunctionOnSet(f, s \ {x}) \in Int /\ SumFunctionOnSet(g, s \ {x}) \in Int
        BY <3>1, SumInt
      <3>5. f[x] \in Int /\ g[x] \in Int /\ h[x] = f[x] + g[x]
        BY <3>1
      <3> QED BY <3>2, <3>3, <3>4, <3>5
    <2> QED BY <2>1, <2>2
  <1> HIDE DEF Q
  <1>2. S \in Q
    BY <1>1, SubsetInduction
  <1> QED BY <1>2 DEF Q

\* The sum over a set is the sum over a part and the sum over the rest.
LEMMA SumSplit ==
    ASSUME NEW f, NEW S, NEW T, IsFiniteSet(S), T \subseteq S, \A x \in S : f[x] \in Int
    PROVE  SumFunctionOnSet(f, S) = SumFunctionOnSet(f, T) + SumFunctionOnSet(f, S \ T)
  <1> DEFINE Q == {s \in SUBSET T :
                     SumFunctionOnSet(f, s \union (S \ T))
                       = SumFunctionOnSet(f, s) + SumFunctionOnSet(f, S \ T)}
  <1>0. /\ IsFiniteSet(T) /\ IsFiniteSet(S \ T) /\ SumFunctionOnSet(f, S \ T) \in Int
        /\ \A s \in SUBSET T : IsFiniteSet(s) /\ IsFiniteSet(s \union (S \ T))
                              /\ SumFunctionOnSet(f, s) \in Int
    BY SumInt, FS_Subset
  <1>1. ASSUME NEW s \in SUBSET T, \A t \in SUBSET s : t # s => t \in Q
        PROVE  s \in Q
    <2>1. CASE s = {}
      BY <2>1, <1>0, SumEmpty
    <2>2. CASE s # {}
      <3> PICK x \in s : TRUE
        BY <2>2
      <3>1. SumFunctionOnSet(f, s) = f[x] + SumFunctionOnSet(f, s \ {x})
        BY <1>0, SumStep
      <3>2. SumFunctionOnSet(f, s \union (S \ T))
               = f[x] + SumFunctionOnSet(f, (s \union (S \ T)) \ {x})
        <4> DEFINE W == s \union (S \ T)
        <4>1. x \in W /\ W \subseteq S
          OBVIOUS
        <4>2. IsFiniteSet(W)
          BY <1>0
        <4> HIDE DEF W, Q
        <4>3. \A y \in W : f[y] \in Int
          BY <4>1
        <4>4. SumFunctionOnSet(f, W) = f[x] + SumFunctionOnSet(f, W \ {x})
          BY <4>1, <4>2, <4>3, SumStep
        <4> QED BY <4>4 DEF W
      <3>3. (s \union (S \ T)) \ {x} = (s \ {x}) \union (S \ T)
        OBVIOUS
      <3>4. SumFunctionOnSet(f, (s \ {x}) \union (S \ T))
               = SumFunctionOnSet(f, s \ {x}) + SumFunctionOnSet(f, S \ T)
        BY <1>1
      <3>5. SumFunctionOnSet(f, s \ {x}) \in Int /\ f[x] \in Int
        BY <1>0
      <3>6. \A a, b, c \in Int : a + (b + c) = (a + b) + c
        OBVIOUS
      <3>7. SumFunctionOnSet(f, s \union (S \ T))
               = f[x] + (SumFunctionOnSet(f, s \ {x}) + SumFunctionOnSet(f, S \ T))
        BY <3>2, <3>3, <3>4
      <3>8. SumFunctionOnSet(f, s \ {x}) \in Int /\ f[x] \in Int /\ SumFunctionOnSet(f, S \ T) \in Int
        BY <1>0
      <3> QED BY <3>1, <3>6, <3>7, <3>8
    <2> QED BY <2>1, <2>2
  <1> HIDE DEF Q
  <1>2. T \in Q
    BY <1>0, <1>1, SubsetInduction
  <1>3. T \union (S \ T) = S
    OBVIOUS
  <1> QED BY <1>2, <1>3 DEF Q

\* A part of natural numbers does not sum to more than all of them.
LEMMA SumPart ==
    ASSUME NEW f, NEW S, NEW T, IsFiniteSet(S), T \subseteq S, \A x \in S : f[x] \in Nat
    PROVE  SumFunctionOnSet(f, T) <= SumFunctionOnSet(f, S)
  <1>1. SumFunctionOnSet(f, S) = SumFunctionOnSet(f, T) + SumFunctionOnSet(f, S \ T)
    BY SumSplit
  <1>2. SumFunctionOnSet(f, T) \in Nat /\ SumFunctionOnSet(f, S \ T) \in Nat
    BY SumNat, FS_Subset
  <1> QED BY <1>1, <1>2

\* The sum over an image of a set is the sum of the composition over the set.
LEMMA SumImage ==
    ASSUME NEW f, NEW h, NEW S, IsFiniteSet(S),
           \A x, y \in S : h[x] = h[y] => x = y, \A x \in S : f[h[x]] \in Int
    PROVE  SumFunctionOnSet(f, {h[x] : x \in S}) = SumFunctionOnSet([x \in S |-> f[h[x]]], S)
  <1> DEFINE k == [x \in S |-> f[h[x]]]
             I(s) == {h[x] : x \in s}
             Q == {s \in SUBSET S : SumFunctionOnSet(f, I(s)) = SumFunctionOnSet(k, s)}
  <1>1. ASSUME NEW s \in SUBSET S, \A t \in SUBSET s : t # s => t \in Q
        PROVE  s \in Q
    <2>1. CASE s = {}
      <3>1. I(s) = {}
        BY <2>1
      <3> QED BY <2>1, <3>1, SumEmpty
    <2>2. CASE s # {}
      <3> PICK x \in s : TRUE
        BY <2>2
      <3>1. IsFiniteSet(s) /\ \A y \in s : k[y] = f[h[y]] /\ k[y] \in Int
        BY FS_Subset
      <3>2. IsFiniteSet(I(s)) /\ h[x] \in I(s) /\ \A y \in I(s) : f[y] \in Int
        <4>1. [y \in s |-> h[y]] \in Surjection(s, I(s))
          BY DEF Surjection
        <4>2. IsFiniteSet(I(s))
          BY <3>1, <4>1, FS_Surjection
        <4> QED BY <4>2
      <3>3. I(s) \ {h[x]} = I(s \ {x})
        OBVIOUS
      <3>4. I(s \ {x}) = I(s) \ {h[x]} /\ s \ {x} \in Q
        BY <1>1, <3>3
      <3>5. SumFunctionOnSet(k, s) = k[x] + SumFunctionOnSet(k, s \ {x})
        <4> HIDE DEF k
        <4> QED BY <3>1, SumStep
      <3>6. SumFunctionOnSet(f, I(s)) = f[h[x]] + SumFunctionOnSet(f, I(s) \ {h[x]})
        <4> HIDE DEF I
        <4> QED BY <3>2, SumStep
      <3>7. SumFunctionOnSet(f, I(s \ {x})) = SumFunctionOnSet(k, s \ {x})
        BY <3>4
      <3>8. k[x] = f[h[x]]
        BY <3>1
      <3> HIDE DEF k, I
      <3> QED BY <3>4, <3>5, <3>6, <3>7, <3>8
    <2> QED BY <2>1, <2>2
  <1> HIDE DEF Q
  <1>2. S \in Q
    BY <1>1, SubsetInduction
  <1> QED BY <1>2 DEF Q

\* A sum is the sum of the sums of its groups.
LEMMA SumGroups ==
    ASSUME NEW f, NEW p, NEW S, NEW P, IsFiniteSet(S), IsFiniteSet(P),
           \A x \in S : f[x] \in Int /\ p[x] \in P
    PROVE  SumFunctionOnSet(f, S)
              = SumFunctionOnSet([y \in P |-> SumFunctionOnSet(f, {x \in S : p[x] = y})], P)
  <1> DEFINE G(y) == {x \in S : p[x] = y}
             U(s) == {x \in S : p[x] \in s}
             k == [y \in P |-> SumFunctionOnSet(f, G(y))]
             Q == {s \in SUBSET P : SumFunctionOnSet(f, U(s)) = SumFunctionOnSet(k, s)}
  <1>0. \A y \in P : k[y] = SumFunctionOnSet(f, G(y)) /\ k[y] \in Int
    <2> TAKE y \in P
    <2>1. IsFiniteSet(G(y)) /\ \A x \in G(y) : f[x] \in Int
      BY FS_Subset
    <2>2. SumFunctionOnSet(f, G(y)) \in Int
      <3> HIDE DEF G
      <3> QED BY <2>1, SumInt
    <2> QED BY <2>2
  <1>1. ASSUME NEW s \in SUBSET P, \A t \in SUBSET s : t # s => t \in Q
        PROVE  s \in Q
    <2>1. CASE s = {}
      <3>1. U(s) = {}
        BY <2>1
      <3> QED BY <2>1, <3>1, SumEmpty
    <2>2. CASE s # {}
      <3> PICK y \in s : TRUE
        BY <2>2
      <3>1. /\ IsFiniteSet(U(s)) /\ G(y) \subseteq U(s) /\ U(s) \ G(y) = U(s \ {y})
            /\ \A x \in U(s) : f[x] \in Int
        <4>1. IsFiniteSet(U(s))
          <5>1. U(s) \subseteq S OBVIOUS
          <5> HIDE DEF U
          <5> QED BY <5>1, FS_Subset
        <4> QED BY <4>1
      <3>2. IsFiniteSet(s) /\ \A z \in s : k[z] \in Int
        <4> HIDE DEF k, Q
        <4> QED BY <1>0, FS_Subset
      <3>3. k[y] = SumFunctionOnSet(f, G(y))
        BY <1>0
      <3>4. SumFunctionOnSet(f, U(s \ {y})) = SumFunctionOnSet(k, s \ {y})
        BY <1>1
      <3> HIDE DEF U, G, k
      <3>5. SumFunctionOnSet(f, U(s)) = SumFunctionOnSet(f, G(y)) + SumFunctionOnSet(f, U(s \ {y}))
        <4> HIDE DEF Q
        <4>1. SumFunctionOnSet(f, U(s))
                 = SumFunctionOnSet(f, G(y)) + SumFunctionOnSet(f, U(s) \ G(y))
          BY <3>1, SumSplit
        <4> QED BY <3>1, <4>1
      <3>6. SumFunctionOnSet(k, s) = k[y] + SumFunctionOnSet(k, s \ {y})
        BY <3>2, SumStep
      <3> QED BY <3>3, <3>4, <3>5, <3>6
    <2> QED BY <2>1, <2>2
  <1>3. U(P) = S
    OBVIOUS
  <1> HIDE DEF Q
  <1>2. P \in Q
    BY <1>1, SubsetInduction
  <1> QED BY <1>2, <1>3 DEF Q

\* A finite set of integers has a greatest one.
LEMMA GreatestExists ==
    ASSUME NEW S, IsFiniteSet(S), S # {}, S \subseteq Int
    PROVE  \E x \in S : \A y \in S : y <= x
  <1> DEFINE Q == {s \in SUBSET S : s # {} => \E x \in s : \A y \in s : y <= x}
  <1>1. ASSUME NEW s \in SUBSET S, \A t \in SUBSET s : t # s => t \in Q
        PROVE  s \in Q
    <2> SUFFICES ASSUME s # {} PROVE \E x \in s : \A y \in s : y <= x
      OBVIOUS
    <2> PICK z \in s : TRUE
      OBVIOUS
    <2>1. CASE s = {z}
      BY <2>1
    <2>2. CASE s # {z}
      <3>1. s \ {z} \in Q /\ s \ {z} # {}
        BY <1>1, <2>2
      <3>2. PICK x \in s \ {z} : \A y \in s \ {z} : y <= x
        BY <3>1
      <3>3. z \in Int /\ x \in Int /\ x \in s /\ \A y \in s : y \in Int
        OBVIOUS
      <3>4. CASE z <= x
        <4>1. \A y \in s : y <= x
          BY <3>2, <3>4
        <4> QED BY <3>3, <4>1
      <3>5. CASE ~ (z <= x)
        <4>1. ASSUME NEW y \in s PROVE y <= z
          <5>1. CASE y = z
            BY <3>3, <5>1
          <5>2. CASE y # z
            <6>1. y <= x
              BY <3>2, <5>2
            <6> QED BY <3>3, <3>5, <6>1
          <5> QED BY <5>1, <5>2
        <4> QED BY <4>1
      <3> QED BY <3>4, <3>5
    <2> QED BY <2>1, <2>2
  <1> HIDE DEF Q
  <1>2. S \in Q
    BY <1>1, SubsetInduction
  <1> QED BY <1>2 DEF Q
===============================================================================
