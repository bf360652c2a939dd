\* One student, three concurrent requests, a stale cache.
CONSTANTS
  Students = {s1}
  Users = {}
  Values = {a, b}
  Requests = {r1, r2, r3}
  Kinds = {"read", "update", "delete"}
  MaxWrites = 2
  MaxFaults = 1
  None = None
SPECIFICATION FairSpec
INVARIANTS
  TypeOK
PROPERTIES
  NoBlindOverwrite
  CacheConverges
