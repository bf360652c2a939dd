\* Two students and two users linked, unlinked and edited concurrently.
CONSTANTS
  Students = {s1, s2}
  Users = {u1, u2}
  Values = {a, b}
  Requests = {r1, r2}
  Kinds = {"read", "update", "delete", "link", "delete_user"}
  MaxWrites = 3
  MaxFaults = 1
  None = None
SPECIFICATION Spec
SYMMETRY RecordSymmetry
INVARIANTS
  VersionIdentifiesRow
  LinksAreSound
PROPERTIES
  LinkedStaysLinked
  UpdatesDropOldEntries
  ImplementsService
