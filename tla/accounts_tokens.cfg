\* Do tokens die when one account is changed by two requests at once?
CONSTANTS
  Users = {a1}
  Admins = {a1}
  e1 = e1
  E1 = E1
  Emails = {e1}
  Lower <- MCLower
  Requests = {r1, r2, r3}
  MaxChanges = 2
  MaxTokens = 3
  None = None
SPECIFICATION Spec
SYMMETRY AccountSymmetry
INVARIANTS
  TokensDieWithCredentials
\* When every id, change and token is used up no request comes any more.
CHECK_DEADLOCK FALSE
