\* One reader and one update, Redis up, no request aborted.
CONSTANTS
  Students = {s1}
  Users = {}
  Values = {a, b}
  Requests = {r1, r2}
  Kinds = {"read", "update"}
  MaxWrites = 1
  MaxFaults = 0
  None = None
SPECIFICATION Spec
INVARIANTS
  NotRepopulated
