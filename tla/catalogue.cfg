\* Two concurrent requests and up to two committed changes of a small catalogue.
SPECIFICATION Spec
CONSTANTS
  Requests = {r1, r2}
  k1 = k1
  k2 = k2
  k3 = k3
  Keys = {k1, k2, k3}
  Times = {1, 2, 3, 4}
  Null = Null
  Initial <- MCInitial
  New <- MCNew
  Changes <- MCChanges
  MaxWrites = 2
SYMMETRY RequestsAlike
INVARIANTS
  TypeOK
  NoDanglingReference
  EnrolledOnce
  SchedulesRunForward
  SchemaAtHead
PROPERTY
  OnlyAskedColumnsChange
  FlagsTurnTogether
  GpaFollowsGrades
