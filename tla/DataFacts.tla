------------------------------ MODULE DataFacts ------------------------------
(***************************************************************************)
(* Facts about numbers, finite sets and sequences that the proofs of       *)
(* several components need.  Induction over the naturals is stated for a   *)
(* SET of them: the induction theorems of the library take an operator,    *)
(* which the provers cannot instantiate, but its theorem on minimal        *)
(* elements takes a set, and the order of the naturals is well founded.    *)
(***************************************************************************)
EXTENDS Integers, SequencesExt, SequenceTheorems, FiniteSetTheorems,
        WellFoundedInduction, TLAPS

-----------------------------------------------------------------------------
(* Induction *)

\* A non-empty set of natural numbers has a least element.
LEMMA LeastNatural ==
  ASSUME NEW T, T \subseteq Nat, T # {}
  PROVE  \E x \in T : \A y \in T : x <= y
<1> DEFINE R == {ss \in Nat \X Nat : ss[1] < ss[2]}
<1>1. IsWellFoundedOn(R, Nat)
  BY NatLessThanWellFounded DEF OpToRel
<1>2. \A x, y \in Nat : y < x => <<y, x>> \in R
  OBVIOUS
<1> HIDE DEF R
<1>3. PICK x \in T : \A y \in T : ~ (<<y, x>> \in R)
  BY <1>1, WFMin
<1>4. ASSUME NEW y \in T
      PROVE  x <= y
  <2>1. x \in Nat /\ y \in Nat
    OBVIOUS
  <2>2. ~ (y < x)
    BY <1>2, <1>3, <2>1
  <2>3. QED
    BY <2>1, <2>2
<1>5. QED
  BY <1>4

\* Induction: a set of naturals that has 0 and every successor of its elements has
\* all of them.
LEMMA SetInduction ==
  ASSUME NEW T, 0 \in T, \A n \in Nat : n \in T => n + 1 \in T
  PROVE  \A n \in Nat : n \in T
<1>1. SUFFICES ASSUME Nat \ T # {}
               PROVE  FALSE
  OBVIOUS
<1>2. PICK x \in Nat \ T : \A y \in Nat \ T : x <= y
  BY <1>1, LeastNatural
<1>3. x - 1 \in Nat /\ x - 1 \in T
  BY <1>2
<1>4. QED
  BY <1>3

\* A non-empty set of numbers up to n has a greatest element, which Max finds.
LEMMA MaxUpTo ==
  ASSUME NEW n \in Nat, NEW S, S \subseteq 0..n, S # {}
  PROVE  Max(S) \in S /\ \A x \in S : x <= Max(S)
<1> DEFINE T == {n - x : x \in S}
<1>1. T \subseteq Nat /\ T # {}
  <2>1. \A x \in S : n - x \in Nat
    OBVIOUS
  <2>2. QED
    BY <2>1
<1>2. PICK t \in T : \A y \in T : t <= y
  BY <1>1, LeastNatural
<1>3. PICK x \in S : t = n - x
  BY <1>2
<1>4. \A y \in S : x >= y
  BY <1>2, <1>3
<1>5. \E m \in S : \A y \in S : m >= y
  BY <1>4
<1>6. Max(S) \in S /\ \A y \in S : Max(S) >= y
  BY <1>5 DEF Max
<1>7. S \subseteq Int
  OBVIOUS
<1>8. QED
  BY <1>6, <1>7

\* Min finds the least element of a non-empty set of naturals.
LEMMA MinOfNats ==
  ASSUME NEW S, S \subseteq Nat, S # {}
  PROVE  Min(S) \in S /\ \A x \in S : Min(S) <= x
<1>1. \E x \in S : \A y \in S : x <= y
  BY LeastNatural
<1>2. QED
  BY <1>1 DEF Min

\* The smaller of two numbers.
LEMMA MinOfTwo ==
  ASSUME NEW a \in Int, NEW b \in Int
  PROVE  Min({a, b}) = IF a <= b THEN a ELSE b
<1> DEFINE Smallest(x) == \A y \in {a, b} : x <= y
           m == IF a <= b THEN a ELSE b
<1>1. Min({a, b}) = CHOOSE x \in {a, b} : Smallest(x)
  BY DEF Min
<1>2. m \in {a, b} /\ Smallest(m)
  OBVIOUS
<1>3. \A x \in {a, b} : Smallest(x) => x = m
  OBVIOUS
<1>4. QED
  BY <1>1, <1>2, <1>3

\* The larger of two numbers.
LEMMA MaxOfTwo ==
  ASSUME NEW a \in Int, NEW b \in Int
  PROVE  Max({a, b}) = IF a >= b THEN a ELSE b
<1> DEFINE Largest(x) == \A y \in {a, b} : x >= y
           m == IF a >= b THEN a ELSE b
<1>1. Max({a, b}) = CHOOSE x \in {a, b} : Largest(x)
  BY DEF Max
<1>2. m \in {a, b} /\ Largest(m)
  OBVIOUS
<1>3. \A x \in {a, b} : Largest(x) => x = m
  OBVIOUS
<1>4. QED
  BY <1>1, <1>2, <1>3

-----------------------------------------------------------------------------
(* Loops *)

\* The values f[k] after each pass of a loop over 1..n that starts with a and whose
\* k-th pass takes x to step[k][x].
Passes(f, n, T, a, step) ==
  /\ f \in [0..n -> T] /\ f[0] = a
  /\ \A k \in 1..n : f[k] = step[k][f[k - 1]]

\* A loop that stays within a set has them.
LEMMA Iteration ==
  ASSUME NEW n \in Nat, NEW T, NEW a \in T, NEW step,
         \A k \in 1..n : \A x \in T : step[k][x] \in T
  PROVE  \E f : Passes(f, n, T, a, step)
<1> DEFINE Upto(m) == \E f \in [0..m -> T] :
                        f[0] = a /\ \A k \in 1..m : f[k] = step[k][f[k - 1]]
           I == {m \in Nat : m <= n => Upto(m)}
<1>1. 0 \in I
  <2> DEFINE f == [k \in 0..0 |-> a]
  <2>1. f \in [0..0 -> T] /\ f[0] = a
    OBVIOUS
  <2> HIDE DEF f
  <2>2. \A k \in 1..0 : f[k] = step[k][f[k - 1]]
    OBVIOUS
  <2>3. Upto(0)
    BY <2>1, <2>2
  <2>4. QED
    BY <2>3
<1>2. ASSUME NEW m \in Nat, m \in I
      PROVE  m + 1 \in I
  <2>1. SUFFICES ASSUME m + 1 <= n
                 PROVE  Upto(m + 1)
    OBVIOUS
  <2>2. PICK f \in [0..m -> T] : f[0] = a /\ \A k \in 1..m : f[k] = step[k][f[k - 1]]
    BY <1>2, <2>1
  <2> DEFINE next == step[m + 1][f[m]]
             g == [k \in 0..m + 1 |-> IF k = m + 1 THEN next ELSE f[k]]
  <2>3. next \in T
    BY <2>1
  <2> HIDE DEF next
  <2>4. g \in [0..m + 1 -> T]
    BY <2>3
  <2>5. g[0] = a
    BY <2>2
  <2>6. \A k \in 1..m : g[k] = f[k] /\ g[k - 1] = f[k - 1]
    OBVIOUS
  <2>7. g[m + 1] = next /\ g[m] = f[m]
    OBVIOUS
  <2> HIDE DEF g
  <2>8. \A k \in 1..m + 1 : g[k] = step[k][g[k - 1]]
    BY <2>2, <2>6, <2>7 DEF next
  <2>9. QED
    BY <2>4, <2>5, <2>8
<1>3. Upto(n)
  <2> HIDE DEF Upto
  <2>1. \A m \in Nat : m \in I
    BY <1>1, <1>2, SetInduction
  <2>2. QED
    BY <2>1
<1>4. QED
  BY <1>3 DEF Passes

-----------------------------------------------------------------------------
(* Places *)

Preceding(S, R, x) == {y \in S : <<y, x>> \in R}

\* In a finite set under a strict total order, each element has a place, and each
\* place from 1 to the size of the set has an element.
LEMMA Places ==
  ASSUME NEW S, IsFiniteSet(S), NEW R,
         \A x \in S : <<x, x>> \notin R,
         \A x, y, z \in S : <<x, y>> \in R /\ <<y, z>> \in R => <<x, z>> \in R,
         \A x, y \in S : x # y => <<x, y>> \in R \/ <<y, x>> \in R,
         NEW place, \A x \in S : place[x] = 1 + Cardinality(Preceding(S, R, x))
  PROVE  /\ Cardinality(S) \in Nat
         /\ \A x \in S : place[x] \in 1..Cardinality(S)
         /\ \A x, y \in S : <<x, y>> \in R => place[x] < place[y]
         /\ \A x, y \in S : place[x] = place[y] => x = y
         /\ \A i \in 1..Cardinality(S) : \E x \in S : place[x] = i
<1> DEFINE Before(x) == Preceding(S, R, x)
           n == Cardinality(S)
<1> USE DEF Preceding
<1>1. n \in Nat
  BY FS_CardinalityType
<1>2. \A x \in S : IsFiniteSet(Before(x)) /\ Cardinality(Before(x)) \in Nat
  BY FS_Subset, FS_CardinalityType
<1>3. ASSUME NEW x \in S
      PROVE  place[x] \in 1..n
  <2>1. Before(x) \subseteq S \ {x}
    OBVIOUS
  <2>2. IsFiniteSet(S \ {x}) /\ Cardinality(S \ {x}) = n - 1
    BY FS_RemoveElement
  <2> HIDE DEF Before, n
  <2>3. Cardinality(Before(x)) <= n - 1
    <3>1. Cardinality(Before(x)) <= Cardinality(S \ {x})
      BY <2>1, <2>2, FS_Subset
    <3>2. QED
      BY <2>2, <3>1
  <2>4. Cardinality(Before(x)) \in Nat
    BY <1>2
  <2>5. place[x] = 1 + Cardinality(Before(x))
    BY DEF Before
  <2>6. QED
    BY <1>1, <2>3, <2>4, <2>5
<1>4. ASSUME NEW x \in S, NEW y \in S, <<x, y>> \in R
      PROVE  place[x] < place[y]
  <2>1. Before(x) \subseteq Before(y) /\ x \in Before(y) /\ x \notin Before(x)
    BY <1>4
  <2>2. IsFiniteSet(Before(y))
    BY <1>2
  <2>3. /\ Cardinality(Before(x)) <= Cardinality(Before(y))
        /\ Cardinality(Before(x)) # Cardinality(Before(y))
    BY <2>1, <2>2, FS_Subset
  <2>4. Cardinality(Before(x)) \in Nat /\ Cardinality(Before(y)) \in Nat
    BY <1>2
  <2>5. place[x] = 1 + Cardinality(Before(x)) /\ place[y] = 1 + Cardinality(Before(y))
    OBVIOUS
  <2> HIDE DEF Before
  <2>6. QED
    BY <2>3, <2>4, <2>5
<1>5. ASSUME NEW x \in S, NEW y \in S, place[x] = place[y]
      PROVE  x = y
  <2>1. place[x] \in Int /\ place[y] \in Int
    BY <1>1, <1>3
  <2>2. ~ (place[x] < place[y]) /\ ~ (place[y] < place[x])
    BY <1>5, <2>1
  <2>3. QED
    BY <1>4, <2>2
<1>6. \A i \in 1..n : \E x \in S : place[x] = i
  <2> DEFINE f == [x \in S |-> place[x]]
  <2> HIDE DEF n
  <2>1. f \in Injection(S, 1..n)
    BY <1>3, <1>5 DEF Injection, IsInjective
  <2>2. IsFiniteSet(1..n) /\ Cardinality(1..n) = n
    BY <1>1, FS_Interval
  <2>3. f \in Surjection(S, 1..n)
    BY <2>1, <2>2, FS_Injection DEF n
  <2>4. QED
    BY <2>3 DEF Surjection
<1>7. QED
  BY <1>1, <1>3, <1>4, <1>5, <1>6

\* In a finite set of integers, the elements are told apart by how many are below
\* them, and each number below the size of the set is that of one of them.
LEMMA IntegerPlaces ==
  ASSUME NEW S, IsFiniteSet(S), S \subseteq Int
  PROVE  /\ Cardinality(S) \in Nat
         /\ \A x \in S : Cardinality({j \in S : j < x}) \in 0..Cardinality(S) - 1
         /\ \A x, y \in S :
              Cardinality({j \in S : j < x}) = Cardinality({j \in S : j < y}) => x = y
         /\ \A i \in 1..Cardinality(S) :
              \E x \in S : Cardinality({j \in S : j < x}) = i - 1
<1> DEFINE R == {pair \in S \X S : pair[1] < pair[2]}
           place == [x \in S |-> 1 + Cardinality(Preceding(S, R, x))]
<1>1. \A x, y \in S : <<x, y>> \in R <=> x < y
  OBVIOUS
<1>2. \A x \in S : Preceding(S, R, x) = {j \in S : j < x}
  BY <1>1 DEF Preceding
<1> HIDE DEF R
<1>3. \A x \in S : place[x] = 1 + Cardinality(Preceding(S, R, x))
  OBVIOUS
<1> HIDE DEF place
<1>4. \A x \in S : <<x, x>> \notin R
  BY <1>1
<1>5. \A x, y, z \in S : <<x, y>> \in R /\ <<y, z>> \in R => <<x, z>> \in R
  BY <1>1
<1>6. \A x, y \in S : x # y => <<x, y>> \in R \/ <<y, x>> \in R
  BY <1>1
<1>7. IsFiniteSet(S)
  OBVIOUS
<1>8. /\ Cardinality(S) \in Nat
      /\ \A x \in S : place[x] \in 1..Cardinality(S)
      /\ \A x, y \in S : place[x] = place[y] => x = y
      /\ \A i \in 1..Cardinality(S) : \E x \in S : place[x] = i
  BY ONLY <1>3, <1>4, <1>5, <1>6, IsFiniteSet(S), Places
<1> DEFINE count(x) == Cardinality({j \in S : j < x})
<1>9. \A x \in S : count(x) \in Nat /\ place[x] = 1 + count(x)
  <2>1. \A x \in S : count(x) \in Nat
    BY FS_Subset, FS_CardinalityType
  <2>2. \A x \in S : place[x] = 1 + count(x)
    BY <1>2, <1>3
  <2>3. QED
    BY <2>1, <2>2
<1> HIDE DEF count
<1>10. /\ \A x \in S : count(x) \in 0..Cardinality(S) - 1
       /\ \A x, y \in S : count(x) = count(y) => x = y
       /\ \A i \in 1..Cardinality(S) : \E x \in S : count(x) = i - 1
  <2>1. \A i \in 1..Cardinality(S) : \E x \in S : count(x) = i - 1
    <3> TAKE i \in 1..Cardinality(S)
    <3>1. PICK x \in S : place[x] = i
      BY <1>8
    <3>2. count(x) = i - 1
      BY <1>9, <3>1
    <3>3. QED
      BY <3>2
  <2>2. QED
    BY <1>8, <1>9, <2>1
<1>11. QED
  BY <1>8, <1>10 DEF count

-----------------------------------------------------------------------------
(* Sequences *)

\* The empty sequence is one over any set.
LEMMA EmptyListed == \A S : <<>> \in Seq(S)
OBVIOUS

\* The first n elements of a sequence, or all of them.
LEMMA PrefixFacts ==
  ASSUME NEW S, NEW s \in Seq(S), NEW n \in Nat
  PROVE  LET p == SubSeq(s, 1, Min({n, Len(s)}))
         IN /\ p \in Seq(S)
            /\ Len(p) = IF n <= Len(s) THEN n ELSE Len(s)
            /\ \A i \in 1..Len(p) : p[i] = s[i]
<1> DEFINE m == Min({n, Len(s)})
           p == SubSeq(s, 1, m)
<1>1. Len(s) \in Nat /\ \A i \in 1..Len(s) : s[i] \in S
  OBVIOUS
<1>2. m = (IF n <= Len(s) THEN n ELSE Len(s)) /\ m \in 0..Len(s)
  BY <1>1, MinOfTwo
<1> HIDE DEF m
<1>3. \A i \in 1..m : s[i] \in S
  BY <1>1, <1>2
<1>4. /\ p \in Seq(S)
      /\ Len(p) = IF 1 <= m THEN m - 1 + 1 ELSE 0
      /\ \A i \in 1..m - 1 + 1 : p[i] = s[1 + i - 1]
  BY <1>2, <1>3, SubSeqProperties
<1>5. m - 1 + 1 = m /\ (1 <= m \/ m = 0) /\ \A i \in 1..m : 1 + i - 1 = i
  BY <1>2
<1> HIDE DEF p
<1>6. Len(p) = m /\ \A i \in 1..m : p[i] = s[i]
  BY <1>4, <1>5
<1>7. QED
  BY <1>2, <1>4, <1>6 DEF p, m

\* An ordering of a finite set is a sequence of its elements, each once.
LEMMA OrderingFacts ==
  ASSUME NEW S, IsFiniteSet(S), NEW s \in SetToSeqs(S)
  PROVE  /\ s \in Seq(S) /\ Len(s) = Cardinality(S)
         /\ \A i, j \in 1..Len(s) : s[i] = s[j] => i = j
<1>1. Cardinality(S) \in Nat
  BY FS_CardinalityType
<1> DEFINE n == Cardinality(S)
<1>2. s \in [1..n -> S] /\ \A i, j \in 1..n : i # j => s[i] # s[j]
  BY DEF SetToSeqs
<1> HIDE DEF n
<1>3. n \in Nat
  BY <1>1 DEF n
<1>4. s \in Seq(S) /\ Len(s) = n
  BY <1>2, <1>3
<1>5. QED
  BY <1>2, <1>4 DEF n

\* A sequence has finitely many elements.
LEMMA FiniteElements ==
  ASSUME NEW S, NEW s \in Seq(S)
  PROVE  IsFiniteSet(ToSet(s))
<1>1. IsFiniteSet(DOMAIN s)
  BY LenProperties, FS_Interval
<1>2. s \in Surjection(DOMAIN s, ToSet(s))
  BY LenProperties DEF Surjection, ToSet
<1>3. QED
  BY <1>1, <1>2, FS_Surjection
=============================================================================
