SPECIFICATION ListsSpec
CONSTANTS
  c1 = c1
  c2 = c2
  a1 = a1
  p1 = p1
  y1 = y1
  u1 = u1
  u2 = u2
  Categories = {c1, c2}
  Authors = {a1}
  Publishers = {p1}
  Years = {y1}
  Users = {u1, u2}
  Reader = u1
  Active = Active
  Ttl = 2
  StoredReferences <- SomeReferences
  StoredBooks <- SomeBooks
  StoredTokens <- SomeTokens
  StoredPlain = 3
  BookMarks <- SomeMarks
  BookQueries <- SomeQueries
  Limits = {1, 2}
  MaxDocuments = 5
  MaxChanges = 4
  MaxTime = 2
  None = None
INVARIANTS
  ListsTypeOK
  WalkMissesOnlyLeavers
  WalkRepeatsOnlyForJoiners
  TotalFollowsList
CHECK_DEADLOCK FALSE
