\* An admin and a newcomer.
CONSTANTS
  Users = {a1, u1}
  Admins = {a1}
  e1 = e1
  E1 = E1
  Emails = {e1, E1, e2}
  Lower <- MCLower
  Requests = {r1, r2}
  MaxChanges = 3
  MaxTokens = 2
  None = None
SPECIFICATION Spec
SYMMETRY AccountSymmetry
INVARIANTS
  TypeOK
  EmailsDistinct
PROPERTIES
  CheckedRemovalsLeaveAnAdmin
  TokensDieUnlessOvertaken
  RevokedStayRevoked
  ImplementsService
\* When every id, change and token is used up, or the one account left has its
\* e-mail in capitals so that nobody can log in, no request comes any more.
CHECK_DEADLOCK FALSE
