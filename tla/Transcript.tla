----------------------------- MODULE Transcript -----------------------------
(* The figures of a transcript (generate_student_transcript), read off the  *)
(* enrollments of Catalogue by one query.                                   *)
EXTENDS Catalogue, Grades

EnrollmentsOf(s) == {e \in Ids("enrollment") : rows.enrollment[e].student = s}

\* The grades that count: an enrollment without one is listed but not averaged.
Graded(s) ==
  [e \in {x \in EnrollmentsOf(s) : rows.enrollment[x].grade # Null} |->
     rows.enrollment[e].grade]

\* The average on a transcript moves with the grades and with nothing else:
\* raising a grade never lowers it, lowering one never raises it, and an
\* enrollment without a grade, or a withdrawal, leaves it as it was.
GpaFollowsGrades ==
  [][rows'.enrollment # rows.enrollment => \A s \in Ids("student") :
       LET before == Graded(s)
           after == Graded(s)'
           Under(f, g) == \A e \in DOMAIN f : f[e] <= g[e]
       IN DOMAIN before = DOMAIN after =>
            /\ Under(before, after) =>
                 \A h \in Gpa(before) : \E k \in Gpa(after) : h <= k
            /\ Under(after, before) =>
                 \A h \in Gpa(before) : \E k \in Gpa(after) : k <= h]_vars

=============================================================================
