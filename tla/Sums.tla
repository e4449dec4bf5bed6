-------------------------------- MODULE Sums --------------------------------
(***************************************************************************)
(* Lemmas about quotients, least and greatest elements and sums over       *)
(* finite sets.  The community modules define sums by recursion over       *)
(* finite sets; that such a sum exists and may be taken in any order is    *)
(* proved by the least counterexample, from the well-foundedness of the    *)
(* natural numbers.                                                        *)
(***************************************************************************)
EXTENDS Integers, FiniteSetsExt, FiniteSetTheorems, WellFoundedInduction, TLAPS

-----------------------------------------------------------------------------
\* Quotients

\* A quotient and what it leaves.
LEMMA Quotient ==
  ASSUME NEW d \in Nat \ {0}, NEW x \in Int
  PROVE  x \div d \in Int /\ (x \div d) * d <= x /\ x < (x \div d) * d + d
BY SMT

\* Quotients are ordered as what they are of.
LEMMA QuotientGrows ==
  ASSUME NEW d \in Nat \ {0}, NEW p \in Int, NEW q \in Int, p * d < q * d + d
  PROVE  p <= q
BY SMT

\* Products with one factor are ordered as the other.
LEMMA ProductGrows ==
  ASSUME NEW a \in Int, NEW b \in Int, NEW c \in Nat, a <= b
  PROVE  a * c <= b * c
BY SMT

-----------------------------------------------------------------------------
\* Induction and sums

\* A set of whole numbers that is not empty has a least element.
LEMMA MinOfNat ==
  ASSUME NEW S, S \subseteq Nat, S # {}
  PROVE  Min(S) \in S /\ \A y \in S : Min(S) <= y
<1>1. PICK less : /\ less = {pair \in Nat \X Nat : pair[1] < pair[2]}
                  /\ IsWellFoundedOn(less, Nat)
  <2> DEFINE less == OpToRel(<, Nat)
  <2>1. less = {pair \in Nat \X Nat : pair[1] < pair[2]}
    BY DEF OpToRel
  <2>2. IsWellFoundedOn(less, Nat)
    BY NatLessThanWellFounded
  <2> QED
    BY <2>1, <2>2
<1>2. PICK x \in S : \A y \in S : ~(<<y, x>> \in less)
  BY <1>1, WFMin
<1>3. ASSUME NEW y \in S PROVE x <= y
  <2>1. x \in Nat /\ y \in Nat /\ <<y, x>> \notin less
    BY <1>2
  <2>2. ~(y < x)
    BY <1>1, <2>1
  <2> QED
    BY <2>1, <2>2
<1> QED
  BY <1>3 DEF Min

\* What holds of zero and passes to the next number holds of all.
LEMMA Induction ==
  ASSUME NEW T, T \subseteq Nat, 0 \in T, \A n \in T : n + 1 \in T
  PROVE  T = Nat
<1>1. SUFFICES ASSUME Nat \ T # {} PROVE FALSE
  OBVIOUS
<1>2. PICK m : m \in Nat \ T /\ \A y \in Nat \ T : m <= y
  BY <1>1, MinOfNat
<1>3. m - 1 \in Nat /\ m - 1 \notin Nat \ T
  BY <1>2
<1> QED
  BY <1>2, <1>3

Choice(s) == CHOOSE x \in s : TRUE

\* A step of the sum of f over the subsets of S, as the library takes it.
SumStep(f, S, g) ==
  [s \in SUBSET S |->
     IF s = {} THEN 0 ELSE f[Choice(s)] + g[s \ {Choice(s)}]]

\* A part is no larger than the whole.
LEMMA SizeOfPart ==
  ASSUME NEW S, IsFiniteSet(S), NEW s, s \subseteq S
  PROVE  Cardinality(s) \in Nat /\ Cardinality(s) <= Cardinality(S)
BY FS_Subset, FS_CardinalityType

\* A part of size zero is empty.
LEMMA EmptyPart ==
  ASSUME NEW S, IsFiniteSet(S), NEW s, s \subseteq S
  PROVE  Cardinality(s) = 0 <=> s = {}
BY FS_Subset, FS_EmptySet

\* What is chosen and what is left of a part.
LEMMA RestOfPart ==
  ASSUME NEW S, IsFiniteSet(S), NEW s, s \subseteq S, s # {}
  PROVE  /\ Choice(s) \in S /\ s \ {Choice(s)} \subseteq S
         /\ Cardinality(s \ {Choice(s)}) = Cardinality(s) - 1
<1>1. IsFiniteSet(s)
  BY FS_Subset
<1>2. Choice(s) \in s
  BY DEF Choice
<1> QED
  BY <1>1, <1>2, FS_RemoveElement

\* The sum exists, set after larger set.
LEMMA SumExists ==
  ASSUME NEW S, IsFiniteSet(S), NEW f, \A x \in S : f[x] \in Nat
  PROVE  \E g : g = SumStep(f, S, g) /\ g \in [SUBSET S -> Nat]
<1> DEFINE Value(g, s) ==
             IF s = {} THEN 0 ELSE f[Choice(s)] + g[s \ {Choice(s)}]
           Good(n, g) ==
             \A s \in SUBSET S : Cardinality(s) <= n => g[s] = Value(g, s)
           T == {n \in Nat : \E g \in [SUBSET S -> Nat] : Good(n, g)}
<1>1. ASSUME NEW g \in [SUBSET S -> Nat], NEW s \in SUBSET S
      PROVE  Value(g, s) \in Nat
  <2>1. CASE s = {}
    BY <2>1
  <2>2. CASE s # {}
    <3>1. f[Choice(s)] \in Nat /\ g[s \ {Choice(s)}] \in Nat
      BY <2>2, RestOfPart
    <3> QED
      BY <2>2, <3>1
  <2> QED
    BY <2>1, <2>2
<1>2. 0 \in T
  <2> DEFINE g == [s \in SUBSET S |-> 0]
  <2>1. ASSUME NEW s \in SUBSET S, Cardinality(s) <= 0
        PROVE  g[s] = Value(g, s)
    <3>1. Cardinality(s) = 0
      BY <2>1, SizeOfPart
    <3>2. s = {}
      BY <3>1, EmptyPart
    <3> QED
      BY <3>2
  <2> QED
    BY <2>1
<1>3. ASSUME NEW n \in T PROVE n + 1 \in T
  <2>1. PICK g \in [SUBSET S -> Nat] : Good(n, g)
    BY <1>3
  <2>2. n \in Nat
    BY <1>3
  <2> DEFINE h == [s \in SUBSET S |->
                     IF Cardinality(s) <= n THEN g[s] ELSE Value(g, s)]
  <2>3. h \in [SUBSET S -> Nat]
    <3> HIDE DEF Value
    <3> QED
      BY <1>1
  <2>4. ASSUME NEW s \in SUBSET S, Cardinality(s) <= n + 1
        PROVE  h[s] = Value(h, s)
    <3>1. h[s] = Value(g, s)
      <4> HIDE DEF Value
      <4> QED
        BY <2>1
    <3>2. CASE s = {}
      BY <3>1, <3>2
    <3>3. CASE s # {}
      <4>1. s \ {Choice(s)} \in SUBSET S /\ Cardinality(s \ {Choice(s)}) <= n
        BY <2>2, <2>4, <3>3, RestOfPart, SizeOfPart
      <4>2. h[s \ {Choice(s)}] = g[s \ {Choice(s)}]
        <5> HIDE DEF Value
        <5> QED
          BY <4>1
      <4> QED
        BY <3>1, <3>3, <4>2
    <3> QED
      BY <3>2, <3>3
  <2> HIDE DEF h, Value
  <2> QED
    BY <2>2, <2>3, <2>4
<1>4. Cardinality(S) \in T
  <2>1. T \subseteq Nat
    OBVIOUS
  <2> HIDE DEF T
  <2> QED
    BY <1>2, <1>3, <2>1, Induction, FS_CardinalityType
<1> HIDE DEF Value
<1>5. PICK g \in [SUBSET S -> Nat] : Good(Cardinality(S), g)
  BY <1>4
<1>6. \A s \in SUBSET S : g[s] = Value(g, s)
  BY <1>5, SizeOfPart
<1>7. g = [s \in SUBSET S |-> Value(g, s)]
  BY <1>6
<1> QED
  BY <1>7 DEF SumStep, Value

\* Whatever satisfies the equation of the sum is a whole number.
LEMMA SumIsNat ==
  ASSUME NEW S, IsFiniteSet(S), NEW f, \A x \in S : f[x] \in Nat,
         NEW g, g = SumStep(f, S, g)
  PROVE  g[S] \in Nat
<1> DEFINE T == {n \in Nat :
                   \A s \in SUBSET S : Cardinality(s) = n => g[s] \in Nat}
<1> DEFINE Value(s) == IF s = {} THEN 0 ELSE f[Choice(s)] + g[s \ {Choice(s)}]
<1>1. ASSUME NEW s \in SUBSET S PROVE g[s] = Value(s)
  <2> HIDE DEF Value
  <2>1. g = [t \in SUBSET S |-> Value(t)]
    BY DEF SumStep, Value
  <2> QED
    BY <2>1
<1>2. 0 \in T
  <2>1. ASSUME NEW s \in SUBSET S, Cardinality(s) = 0 PROVE g[s] \in Nat
    <3>1. s = {}
      BY <2>1, EmptyPart
    <3>2. g[s] = Value(s)
      BY <1>1
    <3> QED
      BY <3>1, <3>2
  <2> QED
    BY <2>1
<1>3. ASSUME NEW n \in T PROVE n + 1 \in T
  <2>1. n \in Nat /\ \A s \in SUBSET S : Cardinality(s) = n => g[s] \in Nat
    BY <1>3
  <2>2. ASSUME NEW s \in SUBSET S, Cardinality(s) = n + 1 PROVE g[s] \in Nat
    <3>1. s # {}
      <4>1. Cardinality(s) # 0
        BY <2>1, <2>2
      <4> QED
        BY <4>1, EmptyPart
    <3>2. /\ Choice(s) \in S /\ s \ {Choice(s)} \in SUBSET S
          /\ Cardinality(s \ {Choice(s)}) = n
      BY <2>1, <2>2, <3>1, RestOfPart
    <3>3. f[Choice(s)] \in Nat /\ g[s \ {Choice(s)}] \in Nat
      BY <2>1, <3>2
    <3>4. g[s] = Value(s)
      BY <1>1
    <3> QED
      BY <3>1, <3>3, <3>4
  <2> QED
    BY <2>1, <2>2
<1>4. Cardinality(S) \in T
  <2>1. T \subseteq Nat
    OBVIOUS
  <2> HIDE DEF T
  <2> QED
    BY <1>2, <1>3, <2>1, Induction, FS_CardinalityType
<1> QED
  BY <1>4

\* The sum of f over S, as the library computes it.
SumOver(f, S) == (CHOOSE g : g = SumStep(f, S, g))[S]

\* A sum of whole numbers is one.
LEMMA SumOfNats ==
  ASSUME NEW S, IsFiniteSet(S), NEW f, \A x \in S : f[x] \in Nat
  PROVE  SumOver(f, S) \in Nat
<1> DEFINE g == CHOOSE g : g = SumStep(f, S, g)
<1>1. g = SumStep(f, S, g)
  BY SumExists
<1> HIDE DEF g
<1>2. g[S] \in Nat
  BY <1>1, SumIsNat
<1> QED
  BY <1>2 DEF SumOver, g

\* The sum over a single element is its value.
LEMMA SumOfOne ==
  ASSUME NEW k, NEW f \in [{k} -> Nat]
  PROVE  SumOver(f, {k}) = f[k]
<1> DEFINE g == CHOOSE g : g = SumStep(f, {k}, g)
<1>1. g = SumStep(f, {k}, g)
  BY SumExists, FS_Singleton
<1> HIDE DEF g
<1>2. Choice({k}) = k
  BY DEF Choice
<1>3. g[{}] = 0 /\ g[{k}] = f[k] + g[{}]
  BY <1>1, <1>2 DEF SumStep
<1> QED
  BY <1>3 DEF SumOver, g

\* What holds of the empty part, and of a larger one for each element added,
\* holds of every part.
LEMMA PartInduction ==
  ASSUME NEW S, IsFiniteSet(S), NEW P, {} \in P,
         \A s \in SUBSET S : \A x \in S \ s : s \in P => s \cup {x} \in P
  PROVE  \A s \in SUBSET S : s \in P
<1> DEFINE T == {n \in Nat : \A s \in SUBSET S : Cardinality(s) = n => s \in P}
<1>1. 0 \in T
  BY EmptyPart
<1>2. ASSUME NEW n \in T PROVE n + 1 \in T
  <2>1. n \in Nat /\ \A s \in SUBSET S : Cardinality(s) = n => s \in P
    BY <1>2
  <2>2. ASSUME NEW s \in SUBSET S, Cardinality(s) = n + 1 PROVE s \in P
    <3>1. s # {}
      <4>1. Cardinality(s) # 0
        BY <2>1, <2>2
      <4> QED
        BY <4>1, EmptyPart
    <3>2. PICK c : c = Choice(s)
      OBVIOUS
    <3>3. c \in s /\ s \ {c} \in SUBSET S /\ Cardinality(s \ {c}) = n
      <4>1. c \in s
        BY <3>1, <3>2 DEF Choice
      <4>2. Cardinality(s \ {c}) = Cardinality(s) - 1
        BY <3>1, <3>2, RestOfPart
      <4> QED
        BY <2>1, <2>2, <4>1, <4>2
    <3>4. s \ {c} \in P /\ c \in S \ (s \ {c}) /\ (s \ {c}) \cup {c} = s
      BY <2>1, <3>3
    <3> QED
      BY <3>3, <3>4
  <2> QED
    BY <2>1, <2>2
<1>3. T = Nat
  <2>1. T \subseteq Nat
    OBVIOUS
  <2> HIDE DEF T
  <2> QED
    BY <1>1, <1>2, <2>1, Induction
<1> QED
  <2>1. ASSUME NEW s \in SUBSET S PROVE s \in P
    <3>1. Cardinality(s) \in T
      BY <1>3, SizeOfPart
    <3> QED
      BY <3>1
  <2> QED
    BY <2>1

\* A finite set of whole numbers that is not empty has a greatest element.
LEMMA MaxOfNat ==
  ASSUME NEW S, IsFiniteSet(S), S \subseteq Nat, S # {}
  PROVE  Max(S) \in S /\ \A y \in S : y <= Max(S)
<1> DEFINE P == {s \in SUBSET S : s # {} => \E m \in s : \A y \in s : y <= m}
<1>1. {} \in P
  OBVIOUS
<1>2. ASSUME NEW s \in SUBSET S, NEW x \in S \ s, s \in P PROVE s \cup {x} \in P
  <2>1. CASE s = {}
    <3>1. \A y \in s \cup {x} : y <= x
      BY <2>1
    <3> QED
      BY <3>1
  <2>2. CASE s # {}
    <3>1. PICK m \in s : \A y \in s : y <= m
      BY <1>2, <2>2
    <3>2. m \in Nat /\ x \in Nat /\ s \subseteq Nat
      OBVIOUS
    <3>3. CASE m <= x
      <4>1. \A y \in s \cup {x} : y <= x
        BY <3>1, <3>2, <3>3
      <4> QED
        BY <4>1
    <3>4. CASE x < m
      <4>1. \A y \in s \cup {x} : y <= m
        BY <3>1, <3>2, <3>4
      <4> QED
        BY <4>1
    <3> QED
      BY <3>2, <3>3, <3>4
  <2> QED
    BY <2>1, <2>2
<1>3. \A s \in SUBSET S : s \in P
  <2> HIDE DEF P
  <2> QED
    BY <1>1, <1>2, PartInduction
<1>4. PICK m \in S : \A y \in S : y <= m
  <2>1. S \in P
    BY <1>3
  <2> QED
    BY <2>1
<1>5. m \in S /\ \A y \in S : m >= y
  BY <1>4
<1>6. Max(S) \in S /\ \A y \in S : Max(S) >= y
  BY <1>5 DEF Max
<1> QED
  BY <1>6

\* Two sums agree on the sets where both are taken over the same values.
LEMMA SameSums ==
  ASSUME NEW S, NEW T, NEW U, IsFiniteSet(U), U \subseteq S, U \subseteq T,
         NEW f, NEW e, \A x \in U : f[x] = e[x],
         NEW g, g = SumStep(f, S, g), NEW h, h = SumStep(e, T, h)
  PROVE  g[U] = h[U]
<1> DEFINE N == {n \in Nat : \A s \in SUBSET U : Cardinality(s) = n => g[s] = h[s]}
           Left(s)  == IF s = {} THEN 0 ELSE f[Choice(s)] + g[s \ {Choice(s)}]
           Right(s) == IF s = {} THEN 0 ELSE e[Choice(s)] + h[s \ {Choice(s)}]
<1>1. ASSUME NEW s \in SUBSET U PROVE g[s] = Left(s) /\ h[s] = Right(s)
  <2>1. g = [t \in SUBSET S |-> Left(t)] /\ h = [t \in SUBSET T |-> Right(t)]
    BY DEF SumStep
  <2> HIDE DEF Left, Right
  <2> QED
    BY <2>1
<1>2. 0 \in N
  <2>1. ASSUME NEW s \in SUBSET U, Cardinality(s) = 0 PROVE g[s] = h[s]
    <3>1. s = {}
      BY <2>1, EmptyPart
    <3> QED
      BY <1>1, <3>1
  <2> QED
    BY <2>1
<1>3. ASSUME NEW n \in N PROVE n + 1 \in N
  <2>1. n \in Nat /\ \A s \in SUBSET U : Cardinality(s) = n => g[s] = h[s]
    BY <1>3
  <2>2. ASSUME NEW s \in SUBSET U, Cardinality(s) = n + 1 PROVE g[s] = h[s]
    <3>1. s # {}
      <4>1. Cardinality(s) # 0
        BY <2>1, <2>2
      <4> QED
        BY <4>1, EmptyPart
    <3>2. /\ Choice(s) \in U /\ s \ {Choice(s)} \in SUBSET U
          /\ Cardinality(s \ {Choice(s)}) = n
      BY <2>1, <2>2, <3>1, RestOfPart
    <3>3. f[Choice(s)] = e[Choice(s)] /\ g[s \ {Choice(s)}] = h[s \ {Choice(s)}]
      BY <2>1, <3>2
    <3> QED
      BY <1>1, <3>1, <3>3
  <2> QED
    BY <2>1, <2>2
<1>4. Cardinality(U) \in N
  <2>1. N \subseteq Nat
    OBVIOUS
  <2> HIDE DEF N
  <2> QED
    BY <1>2, <1>3, <2>1, Induction, FS_CardinalityType
<1> QED
  BY <1>4

\* Nothing adds up to zero.
LEMMA SumOfNone ==
  ASSUME NEW f
  PROVE  SumOver(f, {}) = 0
<1> DEFINE none == {}
           g == CHOOSE g : g = SumStep(f, none, g)
<1>1. g = SumStep(f, none, g)
  <2>1. IsFiniteSet(none) /\ \A x \in none : f[x] \in Nat
    BY FS_EmptySet
  <2> HIDE DEF none
  <2> QED
    BY <2>1, SumExists
<1> HIDE DEF g
<1>2. g[none] = 0
  BY <1>1 DEF SumStep
<1> QED
  BY <1>2 DEF SumOver, g

\* A sum depends on nothing but its values.
LEMMA SumOfSame ==
  ASSUME NEW S, IsFiniteSet(S), NEW f, NEW e, \A x \in S : f[x] \in Nat /\ f[x] = e[x]
  PROVE  SumOver(f, S) = SumOver(e, S)
<1> DEFINE g == CHOOSE g : g = SumStep(f, S, g)
           h == CHOOSE h : h = SumStep(e, S, h)
<1>1. g = SumStep(f, S, g)
  BY SumExists
<1>2. h = SumStep(e, S, h)
  BY SumExists
<1> HIDE DEF g, h
<1>3. g[S] = h[S]
  BY <1>1, <1>2, SameSums
<1> QED
  BY <1>3 DEF SumOver, g, h

\* The sum of a set is the value of the element that the library chooses and
\* the sum of the rest.
LEMMA SumOfChosen ==
  ASSUME NEW S, IsFiniteSet(S), S # {}, NEW f, \A x \in S : f[x] \in Nat
  PROVE  SumOver(f, S) = f[Choice(S)] + SumOver(f, S \ {Choice(S)})
<1> DEFINE R == S \ {Choice(S)}
           g == CHOOSE g : g = SumStep(f, S, g)
           h == CHOOSE h : h = SumStep(f, R, h)
<1>1. g = SumStep(f, S, g)
  BY SumExists
<1>2. R \subseteq S /\ IsFiniteSet(R)
  BY FS_Subset
<1>3. h = SumStep(f, R, h)
  <2> HIDE DEF R
  <2> QED
    BY <1>2, SumExists
<1>4. g[S] = f[Choice(S)] + g[R]
  <2> HIDE DEF g
  <2>1. S \in SUBSET S
    OBVIOUS
  <2> QED
    BY <1>1, <2>1 DEF SumStep
<1> HIDE DEF g, h, R
<1>5. g[R] = h[R]
  BY <1>1, <1>2, <1>3, SameSums
<1> QED
  BY <1>4, <1>5 DEF SumOver, g, h, R

\* A sum of whole numbers may be taken in any order.
LEMMA SumSplits ==
  ASSUME NEW S, IsFiniteSet(S), NEW f, \A x \in S : f[x] \in Nat, NEW x \in S
  PROVE  SumOver(f, S) = f[x] + SumOver(f, S \ {x})
<1> DEFINE Splits(s) == \A y \in s : SumOver(f, s) = f[y] + SumOver(f, s \ {y})
           N == {n \in Nat : \A s \in SUBSET S : Cardinality(s) = n => Splits(s)}
<1>1. ASSUME NEW s \in SUBSET S
      PROVE  IsFiniteSet(s) /\ SumOver(f, s) \in Nat /\ (\A y \in s : f[y] \in Nat)
  BY FS_Subset, SumOfNats
<1>2. 0 \in N
  BY EmptyPart
<1>3. ASSUME NEW n \in N PROVE n + 1 \in N
  <2>1. n \in Nat /\ \A s \in SUBSET S : Cardinality(s) = n => Splits(s)
    BY <1>3
  <2>2. ASSUME NEW s \in SUBSET S, Cardinality(s) = n + 1, NEW y \in s
        PROVE  SumOver(f, s) = f[y] + SumOver(f, s \ {y})
    <3>1. PICK c : c = Choice(s)
      OBVIOUS
    <3>2. c \in s /\ SumOver(f, s) = f[c] + SumOver(f, s \ {c})
      <4>1. IsFiniteSet(s) /\ s # {} /\ \A z \in s : f[z] \in Nat
        BY <1>1
      <4> QED
        BY <3>1, <4>1, SumOfChosen DEF Choice
    <3>3. ASSUME NEW z \in s PROVE s \ {z} \in SUBSET S /\ Cardinality(s \ {z}) = n
      <4>1. IsFiniteSet(s) /\ Cardinality(s \ {z}) = Cardinality(s) - 1
        BY <1>1, FS_RemoveElement
      <4> QED
        BY <2>1, <2>2, <4>1
    <3>4. CASE c = y
      BY <3>2, <3>4
    <3>5. CASE c # y
      <4>1. SumOver(f, s \ {c}) = f[y] + SumOver(f, (s \ {c}) \ {y})
        <5>1. y \in s \ {c}
          BY <3>5
        <5> QED
          BY <2>1, <3>2, <3>3, <5>1
      <4>2. SumOver(f, s \ {y}) = f[c] + SumOver(f, (s \ {y}) \ {c})
        <5>1. c \in s \ {y}
          BY <3>2, <3>5
        <5> QED
          BY <2>1, <3>3, <5>1
      <4>3. (s \ {c}) \ {y} = (s \ {y}) \ {c} /\ (s \ {c}) \ {y} \in SUBSET S
        OBVIOUS
      <4>4. f[c] \in Nat /\ f[y] \in Nat /\ SumOver(f, (s \ {c}) \ {y}) \in Nat
        BY <1>1, <3>2, <4>3
      <4>5. PICK u, v, w, a, b : /\ u = SumOver(f, s \ {c}) /\ v = SumOver(f, s \ {y})
                                /\ w = SumOver(f, (s \ {c}) \ {y}) /\ a = f[c] /\ b = f[y]
        OBVIOUS
      <4>6. SumOver(f, s) = a + u /\ u = b + w /\ v = a + w /\ a \in Nat /\ b \in Nat /\ w \in Nat
        BY <3>2, <4>1, <4>2, <4>3, <4>4, <4>5
      <4>7. SumOver(f, s) = b + v
        BY <4>6
      <4> QED
        BY <4>5, <4>7
    <3> QED
      BY <3>4, <3>5
  <2> QED
    BY <2>1, <2>2
<1>4. Cardinality(S) \in N
  <2>1. N \subseteq Nat
    OBVIOUS
  <2> HIDE DEF N
  <2> QED
    BY <1>2, <1>3, <2>1, Induction, FS_CardinalityType
<1> QED
  BY <1>4

\* A sum with one more element
LEMMA SumGrows ==
  ASSUME NEW S, IsFiniteSet(S), NEW f, \A y \in S : f[y] \in Nat,
         NEW s \in SUBSET S, NEW x \in S \ s
  PROVE  SumOver(f, s \cup {x}) = f[x] + SumOver(f, s)
<1>1. (s \cup {x}) \ {x} = s /\ s \cup {x} \subseteq S /\ x \in s \cup {x}
  OBVIOUS
<1>2. IsFiniteSet(s \cup {x})
  BY <1>1, FS_Subset
<1> QED
  BY <1>1, <1>2, SumSplits

\* Zeros add up to zero,
LEMMA SumOfZeros ==
  ASSUME NEW S, IsFiniteSet(S), NEW f, \A x \in S : f[x] = 0
  PROVE  SumOver(f, S) = 0
<1> DEFINE P == {s \in SUBSET S : SumOver(f, s) = 0}
<1>1. {} \in P
  BY SumOfNone
<1>2. ASSUME NEW s \in SUBSET S, NEW x \in S \ s, s \in P PROVE s \cup {x} \in P
  <2>1. SumOver(f, s \cup {x}) = f[x] + SumOver(f, s)
    BY SumGrows
  <2> QED
    BY <1>2, <2>1
<1> HIDE DEF P
<1>3. S \in P
  BY <1>1, <1>2, PartInduction
<1> QED
  BY <1>3 DEF P

\* and ones to how many there are.
LEMMA SumOfOnes ==
  ASSUME NEW S, IsFiniteSet(S), NEW f, \A x \in S : f[x] = 1
  PROVE  SumOver(f, S) = Cardinality(S)
<1> DEFINE P == {s \in SUBSET S : SumOver(f, s) = Cardinality(s)}
<1>1. {} \in P
  BY SumOfNone, FS_EmptySet
<1>2. ASSUME NEW s \in SUBSET S, NEW x \in S \ s, s \in P PROVE s \cup {x} \in P
  <2>1. SumOver(f, s \cup {x}) = f[x] + SumOver(f, s)
    BY SumGrows
  <2>2. Cardinality(s \cup {x}) = Cardinality(s) + 1 /\ Cardinality(s) \in Nat
    BY FS_Subset, FS_AddElement, FS_CardinalityType
  <2> QED
    BY <1>2, <2>1, <2>2
<1> HIDE DEF P
<1>3. S \in P
  BY <1>1, <1>2, PartInduction
<1> QED
  BY <1>3 DEF P

\* The sums of the parts that a key makes add up to the sum of the whole.
LEMMA SumByKey ==
  ASSUME NEW S, IsFiniteSet(S), NEW B, IsFiniteSet(B), NEW f, \A x \in S : f[x] \in Nat,
         NEW k, \A x \in S : k[x] \in B
  PROVE  SumOver([b \in B |-> SumOver(f, {x \in S : k[x] = b})], B) = SumOver(f, S)
<1> DEFINE Part(s, b) == {x \in s : k[x] = b}
           Sums(s)    == [b \in B |-> SumOver(f, Part(s, b))]
           P          == {s \in SUBSET S : SumOver(Sums(s), B) = SumOver(f, s)}
<1>1. {} \in P
  <2>1. ASSUME NEW b \in B PROVE Sums({})[b] = 0
    <3>1. Part({}, b) = {}
      OBVIOUS
    <3> QED
      BY <3>1, SumOfNone
  <2>2. SumOver(Sums({}), B) = 0
    <3>1. PICK z : z = Sums({})
      OBVIOUS
    <3>2. \A b \in B : z[b] = 0
      <4> HIDE DEF Sums
      <4> QED
        BY <2>1, <3>1
    <3> HIDE DEF Sums
    <3> QED
      BY <3>1, <3>2, SumOfZeros
  <2> QED
    BY <2>2, SumOfNone
<1>2. ASSUME NEW s \in SUBSET S, NEW b \in B PROVE Sums(s)[b] \in Nat
  <2>1. Part(s, b) \in SUBSET S
    OBVIOUS
  <2>2. SumOver(f, Part(s, b)) \in Nat
    <3> HIDE DEF Part
    <3> QED
      BY <2>1, FS_Subset, SumOfNats
  <2> QED
    BY <2>2
<1>3. ASSUME NEW s \in SUBSET S, NEW x \in S \ s, s \in P PROVE s \cup {x} \in P
  <2>1. PICK t : t = s \cup {x}
    OBVIOUS
  <2>2. t \in SUBSET S /\ SumOver(f, t) = f[x] + SumOver(f, s) /\ k[x] \in B /\ f[x] \in Nat
    BY <2>1, SumGrows
  <2>3. Sums(t)[k[x]] = f[x] + Sums(s)[k[x]]
    <3>1. Part(t, k[x]) = Part(s, k[x]) \cup {x} /\ Part(s, k[x]) \in SUBSET S
          /\ x \in S \ Part(s, k[x])
      BY <2>1
    <3>2. SumOver(f, Part(t, k[x])) = f[x] + SumOver(f, Part(s, k[x]))
      <4> HIDE DEF Part
      <4> QED
        BY <3>1, SumGrows
    <3> HIDE DEF Part
    <3> QED
      BY <2>2, <3>2
  <2>4. ASSUME NEW b \in B \ {k[x]} PROVE Sums(t)[b] = Sums(s)[b]
    <3>1. Part(t, b) = Part(s, b)
      BY <2>1
    <3> HIDE DEF Part
    <3> QED
      BY <3>1
  <2>5. PICK old, new : old = Sums(s) /\ new = Sums(t)
    OBVIOUS
  <2>6. \A b \in B : old[b] \in Nat /\ new[b] \in Nat
    <3> HIDE DEF Sums
    <3> QED
      BY <1>2, <2>2, <2>5
  <2>7. /\ SumOver(old, B) = old[k[x]] + SumOver(old, B \ {k[x]})
        /\ SumOver(new, B) = new[k[x]] + SumOver(new, B \ {k[x]})
    BY <2>2, <2>6, SumSplits
  <2>8. SumOver(new, B \ {k[x]}) = SumOver(old, B \ {k[x]}) /\ SumOver(old, B \ {k[x]}) \in Nat
    <3>1. IsFiniteSet(B \ {k[x]})
      BY FS_Subset
    <3>2. \A b \in B \ {k[x]} : new[b] = old[b]
      <4> HIDE DEF Sums
      <4> QED
        BY <2>4, <2>5
    <3> QED
      BY <2>6, <3>1, <3>2, SumOfSame, SumOfNats
  <2>9. new[k[x]] = f[x] + old[k[x]] /\ old[k[x]] \in Nat
    <3> HIDE DEF Sums
    <3> QED
      BY <2>2, <2>3, <2>5, <2>6
  <2>10. SumOver(old, B) = SumOver(f, s)
    BY <1>3, <2>5
  <2>11. SumOver(new, B) = SumOver(f, t)
    BY <2>2, <2>7, <2>8, <2>9, <2>10
  <2> QED
    BY <2>1, <2>2, <2>5, <2>11
<1>4. S \in P
  <2> HIDE DEF P
  <2> QED
    BY <1>1, <1>3, PartInduction
<1> QED
  BY <1>4

\* Sums over sets that do not meet add up.
LEMMA SumOfUnion ==
  ASSUME NEW A, NEW B, IsFiniteSet(A), IsFiniteSet(B), A \cap B = {},
         NEW f, \A x \in A \cup B : f[x] \in Nat
  PROVE  SumOver(f, A \cup B) = SumOver(f, A) + SumOver(f, B)
<1> DEFINE P == {s \in SUBSET B : SumOver(f, A \cup s) = SumOver(f, A) + SumOver(f, s)}
<1>0. SumOver(f, A) \in Nat /\ IsFiniteSet(A \cup B)
  BY SumOfNats, FS_Union
<1>1. {} \in P
  <2>1. A \cup {} = A
    OBVIOUS
  <2>2. SumOver(f, {}) = 0
    BY SumOfNone
  <2>3. {} \in SUBSET B
    OBVIOUS
  <2> QED
    BY <1>0, <2>1, <2>2, <2>3
<1>2. ASSUME NEW s \in SUBSET B, NEW x \in B \ s, s \in P PROVE s \cup {x} \in P
  <2>1. SumOver(f, s \cup {x}) = f[x] + SumOver(f, s)
    BY SumGrows
  <2>2. A \cup s \in SUBSET (A \cup B) /\ x \in (A \cup B) \ (A \cup s)
    OBVIOUS
  <2>3. SumOver(f, (A \cup s) \cup {x}) = f[x] + SumOver(f, A \cup s)
    BY <1>0, <2>2, SumGrows
  <2>4. A \cup (s \cup {x}) = (A \cup s) \cup {x} /\ s \cup {x} \in SUBSET B
    OBVIOUS
  <2>5. f[x] \in Nat /\ SumOver(f, s) \in Nat
    <3>1. IsFiniteSet(s) /\ \A y \in s : f[y] \in Nat
      BY FS_Subset
    <3> QED
      BY <3>1, SumOfNats
  <2>6. SumOver(f, A \cup s) = SumOver(f, A) + SumOver(f, s)
    BY <1>2
  <2> HIDE DEF P
  <2>7. SumOver(f, A \cup (s \cup {x})) = SumOver(f, A) + SumOver(f, s \cup {x})
    BY <1>0, <2>1, <2>3, <2>4, <2>5, <2>6
  <2> QED
    BY <2>4, <2>7 DEF P
<1>3. \A s \in SUBSET B : s \in P
  <2> HIDE DEF P
  <2> QED
    BY <1>1, <1>2, PartInduction
<1> QED
  BY <1>3

\* A sum over a part is no larger.
LEMMA SumOfPart ==
  ASSUME NEW S, IsFiniteSet(S), NEW f, \A x \in S : f[x] \in Nat, NEW A \in SUBSET S
  PROVE  SumOver(f, A) <= SumOver(f, S)
<1>1. IsFiniteSet(A) /\ IsFiniteSet(S \ A) /\ A \cup (S \ A) = S /\ A \cap (S \ A) = {}
  BY FS_Subset
<1>2. SumOver(f, A) \in Nat /\ SumOver(f, S \ A) \in Nat
  BY <1>1, SumOfNats
<1>3. SumOver(f, A \cup (S \ A)) = SumOver(f, A) + SumOver(f, S \ A)
  BY <1>1, SumOfUnion
<1>4. SumOver(f, S) = SumOver(f, A) + SumOver(f, S \ A)
  BY <1>1, <1>3
<1> QED
  BY <1>2, <1>4

\* Sums over sets that differ in one element differ by its value at most.
LEMMA SumNear ==
  ASSUME NEW S, IsFiniteSet(S), NEW f, NEW m \in Nat, \A y \in S : f[y] \in Nat /\ f[y] <= m,
         NEW A \in SUBSET S, NEW B \in SUBSET S, NEW x, A \ {x} = B \ {x}
  PROVE  /\ SumOver(f, A) \in Nat /\ SumOver(f, B) \in Nat
         /\ SumOver(f, A) <= SumOver(f, B) + m /\ SumOver(f, B) <= SumOver(f, A) + m
<1> DEFINE R == A \ {x}
<1>1. ASSUME NEW C \in SUBSET S, C \ {x} = R
      PROVE  /\ SumOver(f, R) \in Nat /\ SumOver(f, C) \in Nat
             /\ SumOver(f, R) <= SumOver(f, C) /\ SumOver(f, C) <= SumOver(f, R) + m
  <2>1. IsFiniteSet(C) /\ IsFiniteSet(R) /\ \A y \in C : f[y] \in Nat
    BY FS_Subset
  <2>2. SumOver(f, C) \in Nat /\ SumOver(f, R) \in Nat
    BY <2>1, SumOfNats
  <2>3. CASE x \notin C
    BY <1>1, <2>2, <2>3
  <2>4. CASE x \in C
    <3>1. SumOver(f, C) = f[x] + SumOver(f, C \ {x})
      BY <2>1, <2>4, SumSplits
    <3>2. f[x] \in Nat /\ f[x] <= m
      BY <2>4
    <3> QED
      BY <1>1, <2>2, <3>1, <3>2
  <2> QED
    BY <2>3, <2>4
<1>2. B \ {x} = R
  OBVIOUS
<1> HIDE DEF R
<1>3. A \ {x} = R
  BY DEF R
<1>4. SumOver(f, R) <= SumOver(f, A) /\ SumOver(f, A) <= SumOver(f, R) + m
      /\ SumOver(f, R) \in Nat /\ SumOver(f, A) \in Nat
  BY <1>1, <1>3
<1>5. SumOver(f, R) <= SumOver(f, B) /\ SumOver(f, B) <= SumOver(f, R) + m
      /\ SumOver(f, B) \in Nat
  BY <1>1, <1>2
<1> QED
  BY <1>4, <1>5

\* So do sums of functions that differ in one place.
LEMMA SumChanges ==
  ASSUME NEW S, IsFiniteSet(S), NEW f, NEW e, NEW m \in Nat,
         \A y \in S : f[y] \in Nat /\ f[y] <= m /\ e[y] \in Nat /\ e[y] <= m,
         NEW x \in S, \A y \in S \ {x} : f[y] = e[y]
  PROVE  SumOver(e, S) \in Nat /\ SumOver(f, S) \in Nat
         /\ SumOver(e, S) <= SumOver(f, S) + m /\ SumOver(f, S) <= SumOver(e, S) + m
<1>1. IsFiniteSet(S \ {x})
  BY FS_Subset
<1>2. SumOver(f, S) = f[x] + SumOver(f, S \ {x}) /\ SumOver(e, S) = e[x] + SumOver(e, S \ {x})
  BY SumSplits
<1>3. SumOver(f, S \ {x}) = SumOver(e, S \ {x}) /\ SumOver(f, S \ {x}) \in Nat
  BY <1>1, SumOfSame, SumOfNats
<1>4. f[x] \in Nat /\ e[x] \in Nat /\ f[x] <= m /\ e[x] <= m
  OBVIOUS
<1> QED
  BY <1>2, <1>3, <1>4

\* The sizes of sets that differ in one element differ by one at most.
LEMMA SizeNear ==
  ASSUME NEW S, IsFiniteSet(S), NEW A \in SUBSET S, NEW B \in SUBSET S, NEW x, A \ {x} = B \ {x}
  PROVE  /\ Cardinality(A) \in Nat /\ Cardinality(B) \in Nat
         /\ Cardinality(A) <= Cardinality(B) + 1 /\ Cardinality(B) <= Cardinality(A) + 1
<1> DEFINE R == A \ {x}
<1>1. ASSUME NEW C \in SUBSET S, C \ {x} = R
      PROVE  /\ Cardinality(R) \in Nat /\ Cardinality(C) \in Nat
             /\ Cardinality(R) <= Cardinality(C) /\ Cardinality(C) <= Cardinality(R) + 1
  <2>1. IsFiniteSet(C) /\ IsFiniteSet(R)
    BY FS_Subset
  <2>2. Cardinality(C) \in Nat /\ Cardinality(R) \in Nat
    BY <2>1, FS_CardinalityType
  <2>3. CASE x \notin C
    <3>1. C = R
      BY <1>1, <2>3
    <3> HIDE DEF R
    <3> QED
      BY <2>2, <3>1
  <2>4. CASE x \in C
    <3>1. Cardinality(C \ {x}) = Cardinality(C) - 1
      BY <2>1, <2>4, FS_RemoveElement
    <3>2. C \ {x} = R
      BY <1>1
    <3> HIDE DEF R
    <3> QED
      BY <2>2, <3>1, <3>2
  <2> QED
    BY <2>3, <2>4
<1>2. B \ {x} = R
  OBVIOUS
<1> HIDE DEF R
<1>3. A \ {x} = R
  BY DEF R
<1>4. Cardinality(R) <= Cardinality(A) /\ Cardinality(A) <= Cardinality(R) + 1
      /\ Cardinality(R) \in Nat /\ Cardinality(A) \in Nat
  BY <1>1, <1>3
<1>5. Cardinality(R) <= Cardinality(B) /\ Cardinality(B) <= Cardinality(R) + 1
      /\ Cardinality(B) \in Nat
  BY <1>1, <1>2
<1> QED
  BY <1>4, <1>5

=============================================================================
