-------------------------- MODULE MCStudentRecord --------------------------
(* Symmetry for the runs of StudentRecord.                                  *)
EXTENDS StudentRecord, TLC

\* No action or invariant names a particular request, user, student or value.
RecordSymmetry ==
  Permutations(Requests) \cup Permutations(Users) \cup
  Permutations(Students) \cup Permutations(Values)

=============================================================================
