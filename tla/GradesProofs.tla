---------------------------- MODULE GradesProofs ----------------------------
(* Lemmas about calculate_gpa for lists of any length.  The sum is a fold,  *)
(* defined by recursion; what is proved of it is proved by looking at a     *)
(* smallest set of grades of which it would be false.                       *)
EXTENDS Grades, FiniteSetTheorems, WellFoundedInduction, TLAPS

----------------------------------------------------------------------------
(* A set of numbers has a least one                                         *)

LEMMA LeastNumber ==
  ASSUME NEW T, T \subseteq Nat, T # {}
  PROVE  \E x \in T : \A y \in T : x <= y
<1> DEFINE R == {p \in Nat \X Nat : p[1] < p[2]}
<1>1. IsWellFoundedOn(R, Nat)
  BY NatLessThanWellFounded DEF OpToRel
<1>2. \E x \in T : \A y \in T : <<y, x>> \notin R
  <2> HIDE DEF R
  <2> QED
    BY <1>1, WFMin
<1>3. PICK x \in T : \A y \in T : <<y, x>> \notin R
  BY <1>2
<1>4. ASSUME NEW y \in T PROVE x <= y
  <2>1. <<y, x>> \in Nat \X Nat /\ <<y, x>>[1] = y /\ <<y, x>>[2] = x
    OBVIOUS
  <2>2. ~(y < x)
    BY <1>3, <2>1
  <2> QED
    BY <2>2
<1> QED
  BY <1>4

\* Of the subsets of a finite set that have a property, take a smallest.
LEMMA SmallestSubset ==
  ASSUME NEW S, IsFiniteSet(S), NEW B, B \subseteq SUBSET S, B # {}
  PROVE  \E s \in B : \A t \in B : Cardinality(s) <= Cardinality(t)
<1> DEFINE T == {Cardinality(s) : s \in B}
<1>1. \A s \in SUBSET S : IsFiniteSet(s) /\ Cardinality(s) \in Nat
  BY FS_Subset, FS_CardinalityType
<1>2. T \subseteq Nat /\ T # {}
  BY <1>1
<1> HIDE DEF T
<1>3. PICK x \in T : \A y \in T : x <= y
  BY <1>2, LeastNumber
<1> QED
  BY <1>3 DEF T

----------------------------------------------------------------------------
(* The sum of the grade points                                              *)

LEMMA PointsMonotone ==
  /\ \A g : Points(g) \in 0..40
  /\ \A g, h \in Int : g <= h => Points(g) <= Points(h)
BY DEF Points

Picked(s) == CHOOSE x \in s : TRUE

Plus(it, grade, s) == IF s = {} THEN 0 ELSE Points(grade[Picked(s)]) + it[s \ {Picked(s)}]

Adds(it, grade, S) == it = [s \in SUBSET S |-> Plus(it, grade, s)]

\* What is left of a set is smaller by one.
LEMMA Rest ==
  ASSUME NEW S, IsFiniteSet(S), NEW s \in SUBSET S, s # {}
  PROVE  /\ Picked(s) \in s /\ Picked(s) \in S
         /\ s \ {Picked(s)} \in SUBSET S
         /\ Cardinality(s \ {Picked(s)}) = Cardinality(s) - 1
         /\ Cardinality(s) \in Nat \ {0}
<1>1. Picked(s) \in s
  BY DEF Picked
<1>2. IsFiniteSet(s)
  BY FS_Subset
<1> QED
  BY <1>1, <1>2, FS_RemoveElement, FS_EmptySet, FS_CardinalityType

\* The recursion has a solution.
LEMMA SumExists ==
  ASSUME NEW S, IsFiniteSet(S), NEW grade
  PROVE  \E it : Adds(it, grade, S)
<1> DEFINE D(n) == {s \in SUBSET S : Cardinality(s) <= n}
           Fits(n, it) == it = [s \in D(n) |-> Plus(it, grade, s)]
           Bad == {n \in Nat : ~\E it : Fits(n, it)}
<1>0. \A s \in SUBSET S : Cardinality(s) \in Nat /\ (Cardinality(s) = 0 <=> s = {})
  BY FS_Subset, FS_CardinalityType, FS_EmptySet
<1>1. Bad = {}
  <2> SUFFICES ASSUME Bad # {} PROVE FALSE
    OBVIOUS
  <2>1. PICK n \in Bad : \A m \in Bad : n <= m
    <3>1. Bad \subseteq Nat
      OBVIOUS
    <3> HIDE DEF Bad
    <3> QED
      BY <3>1, LeastNumber
  <2>2. CASE n = 0
    <3> DEFINE it == [s \in D(0) |-> 0]
    <3>1. \A s \in D(0) : s = {}
      BY <1>0
    <3>2. Fits(0, it)
      BY <3>1 DEF Plus
    <3> QED
      BY <2>1, <2>2, <3>2
  <2>3. CASE n # 0
    <3>1. n - 1 \in Nat /\ n - 1 \notin Bad
      <4>1. n \in Nat
        OBVIOUS
      <4> HIDE DEF Bad
      <4> QED
        BY <2>1, <2>3, <4>1
    <3>2. PICK old : Fits(n - 1, old)
      BY <3>1
    <3> DEFINE it == [s \in D(n) |-> Plus(old, grade, s)]
    <3>3. ASSUME NEW s \in D(n - 1) PROVE it[s] = old[s]
      BY <1>0, <3>1, <3>2
    <3>4. ASSUME NEW s \in D(n), s # {} PROVE s \ {Picked(s)} \in D(n - 1)
      BY <3>1, <3>4, Rest
    <3>5. ASSUME NEW s \in D(n) PROVE Plus(old, grade, s) = Plus(it, grade, s)
      <4> HIDE DEF D, it
      <4> QED
        BY <3>3, <3>4 DEF Plus
    <3>6. Fits(n, it)
      <4> HIDE DEF D
      <4> QED
        BY <3>5
    <3> QED
      BY <3>6, <2>1
  <2> QED
    BY <2>2, <2>3
<1>2. Cardinality(S) \in Nat /\ D(Cardinality(S)) = SUBSET S
  BY <1>0, FS_Subset
<1>3. PICK it : Fits(Cardinality(S), it)
  BY <1>1, <1>2
<1> QED
  BY <1>2, <1>3 DEF Adds

Total(grade, S) == CHOOSE it : Adds(it, grade, S)

LEMMA TotalAdds ==
  ASSUME NEW S, IsFiniteSet(S), NEW grade
  PROVE  LET it == Total(grade, S) IN
           \A s \in SUBSET S : it[s] = Plus(it, grade, s)
<1> DEFINE it == Total(grade, S)
<1>1. Adds(it, grade, S)
  BY SumExists DEF Total
<1> HIDE DEF it
<1>2. \A s \in SUBSET S : it[s] = Plus(it, grade, s)
  BY <1>1 DEF Adds
<1> QED
  BY <1>2 DEF it

LEMMA TotalTyped ==
  ASSUME NEW S, IsFiniteSet(S), NEW grade
  PROVE  \A s \in SUBSET S : Total(grade, S)[s] \in 0..(40 * Cardinality(s))
<1> DEFINE it == Total(grade, S)
           Bad == {s \in SUBSET S : it[s] \notin 0..(40 * Cardinality(s))}
<1>1. \A s \in SUBSET S : it[s] = Plus(it, grade, s)
  BY TotalAdds
<1> HIDE DEF it
<1>2. SUFFICES ASSUME Bad # {} PROVE FALSE
  BY DEF it
<1>3. PICK s \in Bad : \A t \in Bad : Cardinality(s) <= Cardinality(t)
  <2>1. Bad \subseteq SUBSET S
    OBVIOUS
  <2> HIDE DEF Bad
  <2> QED
    BY <1>2, <2>1, SmallestSubset
<1>4. s # {}
  <2>1. {} \in SUBSET S /\ Cardinality({}) = 0
    BY FS_EmptySet
  <2>2. it[{}] \in 0..(40 * Cardinality({}))
    BY <1>1, <2>1 DEF Plus
  <2> QED
    BY <1>3, <2>2
<1> DEFINE rest == s \ {Picked(s)}
<1>5. /\ rest \in SUBSET S
      /\ Cardinality(rest) = Cardinality(s) - 1
      /\ Cardinality(s) \in Nat \ {0}
  BY <1>4, Rest
<1>6. it[rest] \in 0..(40 * Cardinality(rest))
  BY <1>3, <1>5
<1>7. it[s] = Points(grade[Picked(s)]) + it[rest]
  BY <1>1, <1>4 DEF Plus
<1>8. Points(grade[Picked(s)]) \in 0..40
  BY PointsMonotone
<1> HIDE DEF rest
<1>9. it[s] \in 0..(40 * Cardinality(s))
  BY <1>5, <1>6, <1>7, <1>8
<1> QED
  BY <1>3, <1>9

LEMMA TotalMonotone ==
  ASSUME NEW S, IsFiniteSet(S), NEW f, NEW g,
         \A e \in S : f[e] \in Int /\ g[e] \in Int /\ f[e] <= g[e]
  PROVE  \A s \in SUBSET S : Total(f, S)[s] <= Total(g, S)[s]
<1> DEFINE low  == Total(f, S)
           high == Total(g, S)
           Bad  == {s \in SUBSET S : ~(low[s] <= high[s])}
<1>1. \A s \in SUBSET S : /\ low[s] = Plus(low, f, s) /\ high[s] = Plus(high, g, s)
                         /\ low[s] \in Nat /\ high[s] \in Nat
  <2>1. \A s \in SUBSET S : Cardinality(s) \in Nat
    BY FS_Subset, FS_CardinalityType
  <2>2. \A s \in SUBSET S : low[s] \in Nat /\ high[s] \in Nat
    BY <2>1, TotalTyped
  <2> QED
    BY <2>2, TotalAdds
<1> HIDE DEF low, high
<1>2. SUFFICES ASSUME Bad # {} PROVE FALSE
  BY DEF low, high
<1>3. PICK s \in Bad : \A t \in Bad : Cardinality(s) <= Cardinality(t)
  <2>1. Bad \subseteq SUBSET S
    OBVIOUS
  <2> HIDE DEF Bad
  <2> QED
    BY <1>2, <2>1, SmallestSubset
<1>4. s # {}
  BY <1>1, <1>3 DEF Plus
<1> DEFINE rest == s \ {Picked(s)}
<1>5. /\ Picked(s) \in S
      /\ rest \in SUBSET S
      /\ Cardinality(rest) = Cardinality(s) - 1
      /\ Cardinality(s) \in Nat \ {0}
  BY <1>4, Rest
<1>6. low[rest] <= high[rest]
  BY <1>3, <1>5
<1>7. Points(f[Picked(s)]) <= Points(g[Picked(s)])
  BY <1>5, PointsMonotone
<1>8. /\ low[s] = Points(f[Picked(s)]) + low[rest]
      /\ high[s] = Points(g[Picked(s)]) + high[rest]
  BY <1>1, <1>4 DEF Plus
<1>9. low[rest] \in Nat /\ high[rest] \in Nat
  BY <1>1, <1>5
<1>10. Points(f[Picked(s)]) \in Nat /\ Points(g[Picked(s)]) \in Nat
  BY PointsMonotone
<1> HIDE DEF rest
<1>11. low[s] <= high[s]
  BY <1>6, <1>7, <1>8, <1>9, <1>10
<1> QED
  BY <1>3, <1>11

----------------------------------------------------------------------------
(* The rounded mean                                                         *)

Near(sum, n) == (20 * sum + n) \div (2 * n)

LEMMA NearIs ==
  ASSUME NEW sum \in Nat, NEW n \in Nat \ {0}
  PROVE  /\ Near(sum, n) \in Nat
         /\ 2 * (n * Near(sum, n)) <= 20 * sum + n
         /\ 20 * sum + n < 2 * (n * Near(sum, n)) + 2 * n
<1> DEFINE d == 2 * n
           x == 20 * sum + n
<1>1. d \in Nat \ {0} /\ x \in Nat
  OBVIOUS
<1>2. \A a \in Nat, b \in Nat \ {0} :
        /\ a \div b \in Nat
        /\ b * (a \div b) <= a
        /\ a < b * (a \div b) + b
  BY SMT
<1>3. /\ x \div d \in Nat /\ d * (x \div d) <= x /\ x < d * (x \div d) + d
  BY <1>1, <1>2
<1>4. \A q \in Nat : d * q = 2 * (n * q)
  OBVIOUS
<1> QED
  BY <1>3, <1>4 DEF Near

\* The nearest hundredth is one of the two; the one below it is another
\* exactly when the mean lies half way between them.
LEMMA RoundedIs ==
  ASSUME NEW sum \in Nat, NEW n \in Nat \ {0}
  PROVE  LET near == Near(sum, n) IN
         /\ near \in Rounded(sum, n)
         /\ \A h \in Rounded(sum, n) :
              \/ h = near
              \/ h = near - 1 /\ 20 * sum + n = 2 * (n * near)
<1> DEFINE near == Near(sum, n)
<1>1. /\ near \in Nat
      /\ 2 * (n * near) <= 20 * sum + n
      /\ 20 * sum + n < 2 * (n * near) + 2 * n
  BY NearIs
<1>2. Rounded(sum, n) = {h \in {near - 1, near} : 2 * (10 * sum - h * n) <= n}
  BY DEF Rounded, Near
<1> HIDE DEF near
<1>3. PICK p \in Nat : p = n * near
  BY <1>1
<1>4. near * n = p /\ (near - 1) * n = p - n
  BY <1>1, <1>3
<1>5. near \in Rounded(sum, n)
  <2>1. 2 * (10 * sum - p) <= n
    BY <1>1, <1>3
  <2> QED
    BY <1>2, <1>4, <2>1
<1>6. ASSUME near - 1 \in Rounded(sum, n) PROVE 20 * sum + n = 2 * (n * near)
  <2>1. 2 * (10 * sum - (p - n)) <= n
    BY <1>2, <1>4, <1>6
  <2> QED
    BY <1>1, <1>3, <2>1
<1>7. \A h \in Rounded(sum, n) : h = near \/ h = near - 1
  BY <1>2
<1> QED
  BY <1>5, <1>6, <1>7 DEF near

LEMMA NearMonotone ==
  ASSUME NEW a \in Nat, NEW b \in Nat, NEW n \in Nat \ {0}, a <= b
  PROVE  Near(a, n) <= Near(b, n)
<1> DEFINE x == Near(a, n)
           y == Near(b, n)
<1>1. /\ x \in Nat /\ y \in Nat
      /\ 2 * (n * x) <= 20 * a + n
      /\ 20 * b + n < 2 * (n * y) + 2 * n
  BY NearIs
<1> HIDE DEF x, y
<1>2. n * x < n * y + n
  <2>1. PICK p \in Nat, q \in Nat : p = n * x /\ q = n * y
    BY <1>1
  <2> QED
    BY <1>1, <2>1
<1>3. ASSUME y < x PROVE FALSE
  <2>1. n * (y + 1) <= n * x
    BY <1>1, <1>3
  <2>2. n * (y + 1) = n * y + n
    BY <1>1
  <2> QED
    BY <1>1, <1>2, <2>1, <2>2
<1> QED
  BY <1>1, <1>3 DEF x, y

LEMMA RoundedMonotone ==
  ASSUME NEW a \in Nat, NEW b \in Nat, NEW n \in Nat \ {0}, a <= b
  PROVE  /\ \A h \in Rounded(a, n) : \E k \in Rounded(b, n) : h <= k
         /\ \A k \in Rounded(b, n) : \E h \in Rounded(a, n) : h <= k
<1> DEFINE x == Near(a, n)
           y == Near(b, n)
<1>1. /\ x \in Nat /\ y \in Nat /\ x <= y
      /\ x \in Rounded(a, n) /\ y \in Rounded(b, n)
  BY NearIs, RoundedIs, NearMonotone
<1>2. \A h \in Rounded(a, n) : h = x \/ h = x - 1
  BY RoundedIs
<1>3. \A k \in Rounded(b, n) : k = y \/ (k = y - 1 /\ 20 * b + n = 2 * (n * y))
  BY RoundedIs
<1>4. 2 * (n * x) <= 20 * a + n
  BY NearIs
<1> HIDE DEF x, y
<1>5. \A h \in Rounded(a, n) : h <= y
  BY <1>1, <1>2
<1>6. ASSUME NEW k \in Rounded(b, n) PROVE \E h \in Rounded(a, n) : h <= k
  <2>1. CASE x <= k
    BY <1>1, <2>1
  <2>2. CASE ~(x <= k)
    <3>1. k = y - 1 /\ x = y /\ 20 * b + n = 2 * (n * y)
      BY <1>1, <1>3, <2>2
    <3>2. a = b
      <4>1. n * x \in Nat /\ n * x = n * y
        BY <1>1, <3>1
      <4> QED
        BY <1>4, <3>1, <4>1
    <3> QED
      BY <1>1, <1>3, <3>1, <3>2
  <2> QED
    BY <2>1, <2>2
<1> QED
  BY <1>1, <1>5, <1>6

----------------------------------------------------------------------------
(* The average                                                              *)

LEMMA GpaIs ==
  ASSUME NEW grade
  PROVE  Gpa(grade) = IF DOMAIN grade = {} THEN {0}
                      ELSE Rounded(Total(grade, DOMAIN grade)[DOMAIN grade],
                                   Cardinality(DOMAIN grade))
BY DEF Gpa, MapThenSumSet, MapThenFoldSet, Total, Adds, Plus, Picked

\* The average is always a number of the scale, 0.00 to 4.00, and there is one.
THEOREM GpaOnScale ==
  ASSUME NEW grade, IsFiniteSet(DOMAIN grade)
  PROVE  Gpa(grade) # {} /\ Gpa(grade) \subseteq 0..400
<1> DEFINE S == DOMAIN grade
           a == Total(grade, S)[S]
           n == Cardinality(S)
<1>1. CASE S = {}
  <2>1. Gpa(grade) = {0}
    BY <1>1, GpaIs
  <2> QED
    BY <2>1
<1>2. CASE S # {}
  <2>1. n \in Nat \ {0}
    BY <1>2, FS_CardinalityType, FS_EmptySet
  <2>2. Gpa(grade) = Rounded(a, n)
    BY <1>2, GpaIs
  <2>3. a \in 0..(40 * n)
    BY TotalTyped
  <2> DEFINE x == Near(a, n)
  <2> HIDE DEF S, a, n
  <2>4. a \in Nat /\ 20 * a <= 800 * n
    BY <2>1, <2>3
  <2>5. /\ x \in Nat /\ x \in Rounded(a, n)
        /\ 2 * (n * x) <= 20 * a + n
        /\ 20 * a + n < 2 * (n * x) + 2 * n
    BY <2>1, <2>4, NearIs, RoundedIs
  <2>6. \A h \in Rounded(a, n) : h = x \/ (h = x - 1 /\ 20 * a + n = 2 * (n * x))
    BY <2>1, <2>4, RoundedIs
  <2> HIDE DEF x
  <2>7. x <= 400
    <3>1. SUFFICES ASSUME x >= 401 PROVE FALSE
      BY <2>5
    <3>2. n * 401 <= n * x
      BY <2>1, <2>5, <3>1
    <3>3. n * 401 = 401 * n /\ n * x \in Nat
      BY <2>1, <2>5
    <3> QED
      BY <2>1, <2>4, <2>5, <3>2, <3>3
  <2>8. x = 0 => 20 * a + n # 2 * (n * x)
    BY <2>1, <2>4
  <2>9. \A h \in Rounded(a, n) : h \in 0..400
    BY <2>5, <2>6, <2>7, <2>8
  <2> QED
    BY <2>2, <2>5, <2>9
<1> QED
  BY <1>1, <1>2

\* calculate_gpa: with grades that are nowhere lower, the average is not
\* lower, whatever the list and its length; the half way cases included, in
\* which the floats may round either way.
THEOREM GpaMonotone ==
  ASSUME NEW S, IsFiniteSet(S), NEW f \in [S -> Int], NEW g \in [S -> Int],
         \A e \in S : f[e] <= g[e]
  PROVE  /\ \A h \in Gpa(f) : \E k \in Gpa(g) : h <= k
         /\ \A k \in Gpa(g) : \E h \in Gpa(f) : h <= k
<1>1. DOMAIN f = S /\ DOMAIN g = S
  OBVIOUS
<1>2. CASE S = {}
  <2>1. Gpa(f) = {0} /\ Gpa(g) = {0}
    BY <1>1, <1>2, GpaIs
  <2> QED
    BY <2>1
<1>3. CASE S # {}
  <2> DEFINE a == Total(f, S)[S]
             b == Total(g, S)[S]
             n == Cardinality(S)
  <2>1. n \in Nat \ {0}
    BY <1>3, FS_CardinalityType, FS_EmptySet
  <2>2. Gpa(f) = Rounded(a, n) /\ Gpa(g) = Rounded(b, n)
    BY <1>1, <1>3, GpaIs
  <2>3. a \in Nat /\ b \in Nat
    <3>1. a \in 0..(40 * n) /\ b \in 0..(40 * n)
      BY TotalTyped
    <3> QED
      BY <2>1, <3>1
  <2>4. a <= b
    BY TotalMonotone
  <2> HIDE DEF a, b, n
  <2> QED
    BY <2>1, <2>2, <2>3, <2>4, RoundedMonotone
<1> QED
  BY <1>2, <1>3

=============================================================================
