-------------------------- MODULE TranscriptProofs --------------------------
(* The averages of transcripts follow the grades, for tables of any size.   *)
EXTENDS Transcript, CatalogueProofs, GradesProofs

GradesTyped ==
  \A s : /\ IsFiniteSet(DOMAIN Graded(s))
         /\ Graded(s) \in [DOMAIN Graded(s) -> Int]

LEMMA GradesAreTyped == Consistent => GradesTyped
<1> SUFFICES ASSUME Consistent, NEW s
    PROVE  /\ IsFiniteSet(DOMAIN Graded(s))
           /\ Graded(s) \in [DOMAIN Graded(s) -> Int]
  BY DEF GradesTyped
<1>1. /\ Ids("enrollment") \subseteq 1..serial["enrollment"]
      /\ serial["enrollment"] \in Nat
      /\ \A e \in Ids("enrollment") : IsRow("enrollment", rows["enrollment"][e])
  BY TablesAre DEF Consistent, TypeOK
<1>2. IsFiniteSet(Ids("enrollment"))
  <2>1. IsFiniteSet(1..serial["enrollment"])
    BY <1>1, FS_Interval
  <2> QED
    BY <1>1, <2>1, FS_Subset
<1>3. DOMAIN Graded(s) \subseteq Ids("enrollment")
  BY DEF Graded, EnrollmentsOf
<1>4. ASSUME NEW e \in DOMAIN Graded(s)
      PROVE  Graded(s)[e] \in Int
  <2>1. Graded(s)[e] = rows["enrollment"][e].grade /\ rows["enrollment"][e].grade # Null
    BY <1>4 DEF Graded, EnrollmentsOf
  <2>2. "grade" \in ColumnsOf("enrollment") /\ Domain("enrollment", "grade") = Nat \cup {Null}
    BY DEF ColumnsOf, Domain
  <2>3. rows["enrollment"][e].grade \in Nat \cup {Null}
    BY <1>1, <1>3, <1>4, <2>2 DEF IsRow
  <2> QED
    BY <2>1, <2>3
<1>5. Graded(s) \in [DOMAIN Graded(s) -> Int]
  BY <1>4 DEF Graded
<1> QED
  BY <1>2, <1>3, <1>5, FS_Subset

\* Raising a grade of a student never lowers the average on the transcript,
\* lowering one never raises it, and what is not a grade leaves it alone: for
\* any requests, any tables that are consistent and any number of grades.
THEOREM AveragesFollowGrades == Spec /\ Consistent => GpaFollowsGrades
<1> DEFINE Under(f, g) == \A e \in DOMAIN f : f[e] <= g[e]
           Follows(f, g) ==
             DOMAIN f = DOMAIN g =>
               /\ Under(f, g) => \A h \in Gpa(f) : \E k \in Gpa(g) : h <= k
               /\ Under(g, f) => \A h \in Gpa(f) : \E k \in Gpa(g) : k <= h
<1>1. ASSUME NEW f, NEW g, IsFiniteSet(DOMAIN f), f \in [DOMAIN f -> Int],
             g \in [DOMAIN g -> Int]
      PROVE  Follows(f, g)
  <2> SUFFICES ASSUME DOMAIN f = DOMAIN g
               PROVE  /\ Under(f, g) => \A h \in Gpa(f) : \E k \in Gpa(g) : h <= k
                      /\ Under(g, f) => \A h \in Gpa(f) : \E k \in Gpa(g) : k <= h
    OBVIOUS
  <2>1. ASSUME Under(f, g) PROVE \A h \in Gpa(f) : \E k \in Gpa(g) : h <= k
    BY <1>1, <2>1, GpaMonotone
  <2>2. ASSUME Under(g, f) PROVE \A h \in Gpa(f) : \E k \in Gpa(g) : k <= h
    BY <1>1, <2>2, GpaMonotone
  <2> QED
    BY <2>1, <2>2
<1>2. Consistent' => GradesTyped'
  BY GradesAreTyped, PTL
<1>3. ASSUME Consistent, Consistent', NEW s PROVE Follows(Graded(s), Graded(s)')
  <2>1. GradesTyped /\ GradesTyped'
    BY <1>2, <1>3, GradesAreTyped
  <2> HIDE DEF Follows
  <2> QED
    BY <1>1, <2>1 DEF GradesTyped
<1>4. Consistent /\ Consistent' =>
        [rows'.enrollment # rows.enrollment => \A s \in Ids("student") :
           LET before == Graded(s)
               after == Graded(s)'
               Below(f, g) == \A e \in DOMAIN f : f[e] <= g[e]
           IN DOMAIN before = DOMAIN after =>
                /\ Below(before, after) =>
                     \A h \in Gpa(before) : \E k \in Gpa(after) : h <= k
                /\ Below(after, before) =>
                     \A h \in Gpa(before) : \E k \in Gpa(after) : k <= h]_vars
  BY <1>3
<1> QED
  BY <1>4, TablesStayConsistent, PTL DEF GpaFollowsGrades

=============================================================================
