------------------------------- MODULE Grades -------------------------------
(* calculate_gpa of app/services/reports.py.  Grade points are in tenths    *)
(* and the average in hundredths, so that all numbers are integers.         *)
EXTENDS Integers, FiniteSets, FiniteSetsExt

\* Mutant: two steps of the scale are swapped.
PointsSwapped(g) ==
  IF      g >= 90 THEN 40
  ELSE IF g >= 85 THEN 33
  ELSE IF g >= 80 THEN 37
  ELSE IF g >= 60 THEN 20 ELSE 0

\* The first threshold that the grade reaches decides.
Points(g) ==
  IF      g >= 90 THEN 40
  ELSE IF g >= 85 THEN 37
  ELSE IF g >= 80 THEN 33
  ELSE IF g >= 75 THEN 30
  ELSE IF g >= 70 THEN 27
  ELSE IF g >= 65 THEN 23
  ELSE IF g >= 60 THEN 20
  ELSE 0

\* What round(sum / n, 2) may be: the hundredth nearest to the mean.  The sum
\* is one of floats, so that of two equally near hundredths it may be either.
Rounded(sum, n) ==
  LET near == (20 * sum + n) \div (2 * n)
  IN {h \in {near - 1, near} : 2 * (10 * sum - h * n) <= n}

\* The average of a list of grades, given as a function; no grades average 0.
Gpa(grade) ==
  IF DOMAIN grade = {} THEN {0}
  ELSE Rounded(MapThenSumSet(LAMBDA e : Points(grade[e]), DOMAIN grade),
               Cardinality(DOMAIN grade))

=============================================================================
