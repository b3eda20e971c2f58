SPECIFICATION FairCatalogueSpec
CONSTANTS
  c1 = c1
  c2 = c2
  a1 = a1
  a2 = a2
  a3 = a3
  p1 = p1
  p2 = p2
  s1 = s1
  s2 = s2
  CategoryIds = {c1, c2}
  AuthorIds = {a1, a2, a3}
  PublisherIds = {p1, p2}
  MaxBooks = 2
  Slugs = {s1, s2}
  Ratings = {1, 5}
  Keys <- MCKeys
  Limit = 2
  Editors = {e1, e2}
  Readers = {g1}
  Stored <- OneOfEach
  StoredBooks <- OneBook
  NewSlugs = {s2}
  References <- MCReferences
  MaxEdits = 3
  Unknown = Unknown
  None = None
INVARIANTS
  CatalogueTypeOK
  AuthorSlugsUnique
  BooksComplete
  FavouritesOrdered
PROPERTY
  RowsCatchUp
CHECK_DEADLOCK FALSE
