\* One delete is enough to take a course's department away.
SPECIFICATION Spec
CONSTANTS
  Requests = {r1}
  k1 = k1
  k2 = k2
  k3 = k3
  Keys = {k1, k2, k3}
  Times = {1, 2, 3, 4}
  Null = Null
  Initial <- MCInitial
  New <- MCNew
  Changes <- MCChanges
  MaxWrites = 1
PROPERTY
  CoursesKeepDepartment
