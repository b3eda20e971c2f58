SPECIFICATION CatalogueSpec
CONSTANTS
  c1 = c1
  c2 = c2
  a1 = a1
  a2 = a2
  a3 = a3
  p1 = p1
  p2 = p2
  s1 = s1
  s2 = s2
  CategoryIds = {c1, c2}
  AuthorIds = {a1}
  PublisherIds = {p1}
  MaxBooks = 1
  Slugs = {s1, s2}
  Ratings = {5}
  Keys = {}
  Limit = 1
  Editors = {e1}
  Readers = {}
  Stored <- TwoCategories
  StoredBooks <- NoBooks
  NewSlugs = {s1, s2}
  References = {}
  MaxEdits = 2
  Unknown = Unknown
  None = None
INVARIANT
  CategoriesFormTree
CHECK_DEADLOCK FALSE
