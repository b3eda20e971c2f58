----------------------------- MODULE Catalogue -----------------------------
(***************************************************************************)
(* The product service's catalogue: categories, authors and publishers     *)
(* (product/src/category, author, publisher) and the books that refer to   *)
(* them (product/src/book/book.service.ts), edited by admins whose         *)
(* requests interleave at every await, and the rows of books that          *)
(* getRowBooks caches in Redis.  Documents are never deleted.  Of their    *)
(* texts (titles, names, prices ...) only the slug matters to the code;    *)
(* the others are a version, one higher after each update.                 *)
(***************************************************************************)
EXTENDS Integers, Sequences, FiniteSets

CONSTANTS
  CategoryIds, AuthorIds, PublisherIds,
  MaxBooks,          \* book ids are 1 .. MaxBooks; a later book has a larger one
  Slugs,
  Ratings,           \* ratings that votes give a book
  Keys,              \* the rows that are asked for
  Limit,             \* DEFAULT_LIMIT, 15
  Editors,           \* requests of admins in flight
  Readers,           \* requests for rows in flight
  Stored,            \* the slugs of the documents an earlier run of the service left
  StoredBooks,       \* and the books
  NewSlugs,          \* slugs that requests name
  References,        \* sets of categories, authors and a publisher that requests name
  MaxEdits,          \* bound on requests of admins and votes
  Unknown,           \* an id that no document has
  None               \* no value

DocumentIds == CategoryIds \cup AuthorIds \cup PublisherIds

Kinds == {"category", "author", "publisher"}

IdsOf(kind) ==
  [category |-> CategoryIds, author |-> AuthorIds, publisher |-> PublisherIds][kind]

ASSUME DocumentIdsAssumption ==
  /\ \A k1, k2 \in Kinds : k1 # k2 => IdsOf(k1) \cap IdsOf(k2) = {}
  /\ Unknown \notin DocumentIds \cup {None}
  /\ None \notin DocumentIds \cup Slugs

(* The categories, authors and publisher of a book in one set. *)
Book == [documents : SUBSET DocumentIds, version : Nat,
         rating : Ratings \cup {0}, votesCount : Nat]

ASSUME RequestsAssumption == NewSlugs \subseteq Slugs /\ References \subseteq SUBSET DocumentIds
ASSUME StoredAssumption ==
  /\ Stored \in [DocumentIds -> Slugs \cup {None}]
  /\ \A k \in Kinds : \A d1, d2 \in IdsOf(k) :
       Stored[d1] = Stored[d2] /\ Stored[d1] # None => d1 = d2
ASSUME StoredBooksAssumption ==
  /\ StoredBooks \in Seq(Book) /\ Len(StoredBooks) <= MaxBooks
  /\ \A b \in DOMAIN StoredBooks :
       \A d \in StoredBooks[b].documents : Stored[d] # None
ASSUME NumbersAssumption ==
  MaxBooks \in Nat /\ MaxEdits \in Nat /\ Ratings \subseteq Nat /\ Limit \in Nat \ {0}

VARIABLES
  slugs,             \* [DocumentIds -> Slugs \cup {None}], the three collections
  versions,          \* [DocumentIds -> Nat], of the texts
  parents,           \* [CategoryIds -> ... \cup {None}], of the categories
  books,             \* the sequence of books, by id
  rows,              \* [Keys -> ... \cup {None}], the rows in Redis
  editors,           \* [Editors -> Editor]
  readers,           \* [Readers -> Reader]
  edits              \* requests of admins and votes so far, at most MaxEdits

catalogueVars == <<slugs, versions, parents, books, rows, editors, readers, edits>>

BookIds == 1 .. MaxBooks

Sorts == {"NEWESTS", "BEST_SELLERS", "FAVORITES"}

RowKey == [sort : Sorts,
           category : CategoryIds \cup {None},
           author : AuthorIds \cup {None},
           publisher : PublisherIds \cup {None}]

ASSUME KeysAssumption == Keys \subseteq RowKey

(* What a row shows: a book with the documents that it refers to in their versions. *)
Entry == [id : BookIds, documents : SUBSET (DocumentIds \X Nat), version : Nat,
          rating : Ratings \cup {0}, votesCount : Nat]

(* The id is that of the document or book being updated, None for a new one. *)
Editor == [pc : Kinds \cup {"idle", "parent", "slug", "inserting", "updating", "storing"},
           kind : Kinds,
           id : DocumentIds \cup BookIds \cup {None},
           slug : Slugs \cup {None},
           parent : CategoryIds \cup {Unknown, None},
           documents : SUBSET DocumentIds]

Reader == [pc : {"idle", "category", "author", "publisher", "votes", "books", "caching"},
           key : RowKey,
           categories : SUBSET CategoryIds,
           maxVotesCount : Nat,
           row : Seq(Entry)]

CatalogueTypeOK ==
  /\ slugs \in [DocumentIds -> Slugs \cup {None}]
  /\ versions \in [DocumentIds -> Nat]
  /\ parents \in [CategoryIds -> CategoryIds \cup {Unknown, None}]
  /\ books \in Seq(Book)
  /\ rows \in [Keys -> Seq(Entry) \cup {None}]
  /\ editors \in [Editors -> Editor]
  /\ readers \in [Readers -> Reader]
  /\ edits \in 0 .. MaxEdits

NoEdit == [pc |-> "idle", kind |-> "category", id |-> None, slug |-> None,
           parent |-> None, documents |-> {}]

NoRead == [pc |-> "idle",
           key |-> [sort |-> "NEWESTS", category |-> None, author |-> None, publisher |-> None],
           categories |-> {}, maxVotesCount |-> 0, row |-> << >>]

CatalogueInit ==
  /\ slugs = Stored
  /\ versions = [d \in DocumentIds |-> 0]
  /\ parents = [c \in CategoryIds |-> None]
  /\ books = StoredBooks
  /\ rows = [key \in Keys |-> None]
  /\ editors = [e \in Editors |-> NoEdit]
  /\ readers = [g \in Readers |-> NoRead]
  /\ edits = 0

Exists(d) == d \in DocumentIds /\ slugs[d] # None

Existing(kind) == {d \in IdsOf(kind) : Exists(d)}

Children(c) == {d \in CategoryIds : Exists(d) /\ parents[d] = c}

Begin(e, edit) ==
  /\ editors[e].pc = "idle"
  /\ edits < MaxEdits
  /\ editors' = [editors EXCEPT ![e] = edit]
  /\ edits' = edits + 1
  /\ UNCHANGED <<slugs, versions, parents, books, rows, readers>>

Continue(e, pc) ==
  /\ editors' = [editors EXCEPT ![e] = IF pc = "idle" THEN NoEdit ELSE [@ EXCEPT !.pc = pc]]
  /\ UNCHANGED <<slugs, versions, parents, books, rows, readers, edits>>
-----------------------------------------------------------------------------
(* Creating a document begins with the parent, if the request names one, or the slug. *)
BeginCreate(e, kind, slug, parent) ==
  Begin(e, [NoEdit EXCEPT !.pc = IF parent = None THEN "slug" ELSE "parent",
                          !.kind = kind, !.slug = slug, !.parent = parent])

BeginCreateCategory(e, slug) ==
  \E parent \in Existing("category") \cup {Unknown, None} :
    BeginCreate(e, "category", slug, parent)

BeginCreateAuthor(e, slug) == BeginCreate(e, "author", slug, None)

BeginCreatePublisher(e, slug) == BeginCreate(e, "publisher", slug, None)

(* Updating one begins with the count that finds it, and for a category with a parent *)
(* other than itself, if the request names one.                                       *)
BeginUpdate(e, kind, d, parent) ==
  Begin(e, [NoEdit EXCEPT !.pc = IF parent = None THEN "updating" ELSE "parent",
                          !.kind = kind, !.id = d, !.parent = parent])

BeginUpdateCategory(e, c) ==
  \E parent \in (Existing("category") \cup {Unknown, None}) \ {c} :
    BeginUpdate(e, "category", c, parent)

BeginUpdateAuthor(e, a) == BeginUpdate(e, "author", a, None)

BeginUpdatePublisher(e, p) == BeginUpdate(e, "publisher", p, None)

(* countDocuments({ parent }): a parent that has a child is refused. *)
CheckParent(e) ==
  /\ editors[e].pc = "parent"
  /\ Continue(e, IF Children(editors[e].parent) # {} THEN "idle"
                 ELSE IF editors[e].id = None THEN "slug" ELSE "updating")

(* countDocuments({ slug }): a slug of the same collection is refused. *)
CheckSlug(e) ==
  /\ editors[e].pc = "slug"
  /\ Continue(e, IF \E d \in IdsOf(editors[e].kind) : slugs[d] = editors[e].slug
                 THEN "idle" ELSE "inserting")

(* model.create of a new document. *)
Insert(e, kind) ==
  /\ editors[e].pc = "inserting" /\ editors[e].kind = kind
  /\ \E d \in IdsOf(kind) :
       /\ ~ Exists(d)
       /\ slugs' = [slugs EXCEPT ![d] = editors[e].slug]
       /\ parents' = IF kind = "category" THEN [parents EXCEPT ![d] = editors[e].parent]
                     ELSE parents
  /\ editors' = [editors EXCEPT ![e] = NoEdit]
  /\ UNCHANGED <<versions, books, rows, readers, edits>>

InsertCategory(e) == Insert(e, "category")

InsertPublisher(e) == Insert(e, "publisher")

(* Faulty InsertAuthor: no unique index on the authors' slugs. *)
InsertUnindexed(e) == Insert(e, "author")

(* Of the three collections only the authors have a unique index on the slug. *)
InsertAuthor(e) ==
  \/ /\ \A a \in AuthorIds : slugs[a] # editors[e].slug
     /\ Insert(e, "author")
  \/ /\ editors[e].pc = "inserting" /\ editors[e].kind = "author"
     /\ \E a \in AuthorIds : slugs[a] = editors[e].slug
     /\ Continue(e, "idle")

(* The updateOne of a document's texts; its slug never changes. *)
UpdateTexts(e, kind) ==
  /\ editors[e].pc = "updating" /\ editors[e].kind = kind
  /\ versions' = [versions EXCEPT ![editors[e].id] = @ + 1]
  /\ editors' = [editors EXCEPT ![e] = NoEdit]
  /\ UNCHANGED <<slugs, books, rows, readers, edits>>

(* $set drops a parent that is undefined. *)
UpdateCategory(e) ==
  /\ UpdateTexts(e, "category")
  /\ parents' = IF editors[e].parent = None THEN parents
                ELSE [parents EXCEPT ![editors[e].id] = editors[e].parent]

UpdateAuthor(e) == UpdateTexts(e, "author") /\ UNCHANGED parents

UpdatePublisher(e) == UpdateTexts(e, "publisher") /\ UNCHANGED parents
-----------------------------------------------------------------------------
(* createBook, or updateBook of a book that exists, with categories, authors and a *)
(* publisher; an id that was not handed out yet stands for one nobody knows.       *)
BeginStoreBook(e, id) ==
  \E documents \in References :
    Begin(e, [NoEdit EXCEPT !.pc = "category", !.id = id, !.documents = documents])

BeginCreateBook(e) == BeginStoreBook(e, None)

BeginUpdateBook(e, b) == b \in DOMAIN books /\ BeginStoreBook(e, b)

(* The counts of categories, authors and publishers, one after the other. *)
Found(e) == \A d \in editors[e].documents \cap IdsOf(editors[e].pc) : Exists(d)

NextCheck == [category |-> "author", author |-> "publisher", publisher |-> "storing"]

(* Faulty CheckReferences: the publisher is not looked for. *)
CheckReferencesButPublisher(e) ==
  /\ editors[e].pc \in Kinds
  /\ Continue(e, IF Found(e) \/ editors[e].pc = "publisher"
                 THEN NextCheck[editors[e].pc] ELSE "idle")

CheckReferences(e) ==
  /\ editors[e].pc \in Kinds
  /\ Continue(e, IF Found(e) THEN NextCheck[editors[e].pc] ELSE "idle")

(* The $set of updateBook names every text and reference, and nothing else. *)
Revised(book, documents) ==
  [book EXCEPT !.documents = documents, !.version = book.version + 1]

(* Faulty StoreBook: an update replaces the whole document. *)
StoreWholeBook(e) ==
  LET documents == editors[e].documents
      id == editors[e].id
  IN  /\ editors[e].pc = "storing"
      /\ \/ /\ id = None
            /\ Len(books) < MaxBooks
            /\ books' = Append(books, [documents |-> documents, version |-> 0,
                                        rating |-> 0, votesCount |-> 0])
         \/ /\ id # None
            /\ books' = [books EXCEPT ![id] = [documents |-> documents, version |-> @.version + 1]]
      /\ editors' = [editors EXCEPT ![e] = NoEdit]
      /\ UNCHANGED <<slugs, versions, parents, rows, readers, edits>>

(* bookModel.create, or the updateOne, which leaves rating and votes alone. *)
StoreBook(e) ==
  LET documents == editors[e].documents
      id == editors[e].id
  IN  /\ editors[e].pc = "storing"
      /\ \/ /\ id = None
            /\ Len(books) < MaxBooks
            /\ books' = Append(books, [documents |-> documents, version |-> 0,
                                        rating |-> 0, votesCount |-> 0])
         \/ /\ id # None
            /\ books' = [books EXCEPT ![id] = Revised(books[id], documents)]
      /\ editors' = [editors EXCEPT ![e] = NoEdit]
      /\ UNCHANGED <<slugs, versions, parents, rows, readers, edits>>

(* An await rejects, or the process dies: nothing was written yet, or all of it. *)
EditThrows(e) == editors[e].pc # "idle" /\ Continue(e, "idle")

Voted(book, rating, new) ==
  [book EXCEPT !.rating = rating, !.votesCount = book.votesCount + new]

(* setVote changes a book's rating, and its number of votes when the vote is new. *)
CountVote(b) ==
  /\ b \in DOMAIN books
  /\ edits < MaxEdits
  /\ \E rating \in Ratings, new \in {0, 1} :
       /\ books[b].votesCount + new > 0
       /\ books' = [books EXCEPT ![b] = Voted(books[b], rating, new)]
  /\ edits' = edits + 1
  /\ UNCHANGED <<slugs, versions, parents, rows, editors, readers>>
-----------------------------------------------------------------------------
(* The category and its children; an empty answer is a 400. *)
Subtree(c) == Children(c) \cup {d \in {c} : Exists(d)}

Matches(b, key, categories) ==
  /\ key.category # None => books[b].documents \cap categories # {}
  /\ \A d \in {key.author, key.publisher} \ {None} : d \in books[b].documents

(* Faulty Popularity: sorted in ascending order. *)
PopularityAscending(entry, maxVotesCount) ==
  0 - (5 * entry.votesCount + 2 * maxVotesCount * entry.rating)

(* $divide votesCount by the most votes, plus twice rating / 5; times 5 * that most. *)
Popularity(entry, maxVotesCount) == 5 * entry.votesCount + 2 * maxVotesCount * entry.rating

(* The best sellers are sorted by a field that the projection has dropped. *)
Precedes(sort, maxVotesCount, x, y) ==
  LET px == Popularity(x, maxVotesCount)
      py == Popularity(y, maxVotesCount)
  IN  IF sort = "FAVORITES" /\ px # py THEN px > py ELSE x.id > y.id

(* The projection of a book, and the lookups of what it refers to. *)
Shown(b) ==
  [id |-> b, documents |-> {<<d, versions[d]>> : d \in {x \in books[b].documents : Exists(x)}},
   version |-> books[b].version, rating |-> books[b].rating, votesCount |-> books[b].votesCount]

Sorted(entries, sort, maxVotesCount) ==
  CHOOSE row \in [1 .. Cardinality(entries) -> entries] :
    \A i, j \in DOMAIN row : i < j => Precedes(sort, maxVotesCount, row[i], row[j])

(* findBooksResult: filtered, sorted and limited. *)
FoundRow(key, categories, maxVotesCount) ==
  LET found == {Shown(b) : b \in {c \in DOMAIN books : Matches(c, key, categories)}}
      sorted == Sorted(found, key.sort, maxVotesCount)
  IN  SubSeq(sorted, 1, IF Len(sorted) < Limit THEN Len(sorted) ELSE Limit)

MostVotes ==
  LET counts == {books[b].votesCount : b \in DOMAIN books} \cup {0}
      most == CHOOSE n \in counts : \A m \in counts : m <= n
  IN  IF most = 0 THEN 1 ELSE most

(* getRowBooks: a row in Redis is returned as it is; without one the work begins. *)
GetRow(g, key) ==
  /\ readers[g].pc = "idle"
  /\ rows[key] = None
  /\ readers' = [readers EXCEPT ![g] = [NoRead EXCEPT !.pc = "category", !.key = key]]
  /\ UNCHANGED <<slugs, versions, parents, books, rows, editors, edits>>

FindCategories(g) ==
  LET c == readers[g].key.category
      found == IF c = None THEN {} ELSE Subtree(c)
  IN  /\ readers[g].pc = "category"
      /\ readers' = [readers EXCEPT
                       ![g] = IF c # None /\ found = {} THEN NoRead
                              ELSE [@ EXCEPT !.pc = "author", !.categories = found]]
      /\ UNCHANGED <<slugs, versions, parents, books, rows, editors, edits>>

(* The author and the publisher of the filter must exist, if there are any. *)
FindFilter(g) ==
  LET kind == readers[g].pc
      d == IF kind = "author" THEN readers[g].key.author ELSE readers[g].key.publisher
  IN  /\ kind \in {"author", "publisher"}
      /\ readers' = [readers EXCEPT
                       ![g] = IF d # None /\ ~ Exists(d) THEN NoRead
                              ELSE [@ EXCEPT !.pc = IF kind = "author" THEN "publisher"
                                                    ELSE "votes"]]
      /\ UNCHANGED <<slugs, versions, parents, books, rows, editors, edits>>

(* The favourites need the most votes of any book, read before the books. *)
FindMostVotes(g) ==
  /\ readers[g].pc = "votes"
  /\ readers' = [readers EXCEPT
                   ![g].pc = "books",
                   ![g].maxVotesCount = IF readers[g].key.sort = "FAVORITES" THEN MostVotes ELSE 0]
  /\ UNCHANGED <<slugs, versions, parents, books, rows, editors, edits>>

(* The aggregation; an empty row is not cached. *)
FindBooks(g) ==
  LET row == FoundRow(readers[g].key, readers[g].categories, readers[g].maxVotesCount)
  IN  /\ readers[g].pc = "books"
      /\ readers' = [readers EXCEPT
                       ![g] = IF row = << >> THEN NoRead
                              ELSE [@ EXCEPT !.pc = "caching", !.row = row]]
      /\ UNCHANGED <<slugs, versions, parents, books, rows, editors, edits>>

(* Faulty CacheRow: the key of the row names the sort only. *)
CacheRowBySort(g) ==
  /\ readers[g].pc = "caching"
  /\ rows' = [key \in Keys |-> IF key.sort = readers[g].key.sort
                               THEN readers[g].row ELSE rows[key]]
  /\ readers' = [readers EXCEPT ![g] = NoRead]
  /\ UNCHANGED <<slugs, versions, parents, books, editors, edits>>

(* SETEX under the key made of all parts of the request. *)
CacheRow(g) ==
  /\ readers[g].pc = "caching"
  /\ rows' = [rows EXCEPT ![readers[g].key] = readers[g].row]
  /\ readers' = [readers EXCEPT ![g] = NoRead]
  /\ UNCHANGED <<slugs, versions, parents, books, editors, edits>>

ReadThrows(g) ==
  /\ readers[g].pc # "idle"
  /\ readers' = [readers EXCEPT ![g] = NoRead]
  /\ UNCHANGED <<slugs, versions, parents, books, rows, editors, edits>>

(* The 120 s of the row are over. *)
ExpireRow(key) ==
  /\ rows[key] # None
  /\ rows' = [rows EXCEPT ![key] = None]
  /\ UNCHANGED <<slugs, versions, parents, books, editors, readers, edits>>
-----------------------------------------------------------------------------
BeginEdit(e) ==
  \/ \E slug \in NewSlugs :
       BeginCreateCategory(e, slug) \/ BeginCreateAuthor(e, slug) \/ BeginCreatePublisher(e, slug)
  \/ \E c \in Existing("category") : BeginUpdateCategory(e, c)
  \/ \E a \in Existing("author") : BeginUpdateAuthor(e, a)
  \/ \E p \in Existing("publisher") : BeginUpdatePublisher(e, p)
  \/ BeginCreateBook(e) \/ \E b \in BookIds : BeginUpdateBook(e, b)

EditStep(e) ==
  \/ CheckParent(e) \/ CheckSlug(e)
  \/ InsertCategory(e) \/ InsertAuthor(e) \/ InsertPublisher(e)
  \/ UpdateCategory(e) \/ UpdateAuthor(e) \/ UpdatePublisher(e)
  \/ CheckReferences(e) \/ StoreBook(e)

ReadStep(g) ==
  FindCategories(g) \/ FindFilter(g) \/ FindMostVotes(g) \/ FindBooks(g) \/ CacheRow(g)

CatalogueNext ==
  \/ \E e \in Editors : BeginEdit(e) \/ EditStep(e) \/ EditThrows(e)
  \/ \E b \in BookIds : CountVote(b)
  \/ \E g \in Readers : (\E key \in Keys : GetRow(g, key)) \/ ReadStep(g) \/ ReadThrows(g)
  \/ \E key \in Keys : ExpireRow(key)

CatalogueSpec == CatalogueInit /\ [][CatalogueNext]_catalogueVars

(* Redis forgets a row when its time is over; nobody need ever ask for one. *)
FairCatalogueSpec == CatalogueSpec /\ \A key \in Keys : WF_catalogueVars(ExpireRow(key))
-----------------------------------------------------------------------------
(* No two authors have one slug: createAuthor counts first and inserts later, so *)
(* only the unique index stops two requests that raced through the count.        *)
AuthorSlugsUnique ==
  \A a1, a2 \in AuthorIds : Exists(a1) /\ slugs[a1] = slugs[a2] => a1 = a2

(* Every category, author and publisher of a book exists, so that getBook and the *)
(* rows can populate it: the checks of createBook and updateBook are three awaits  *)
(* before the write.                                                               *)
BooksComplete ==
  \A b \in DOMAIN books : \A d \in books[b].documents : Exists(d)

(* In a row of favourites no book stands behind one with fewer votes and a lower *)
(* rating, although the most votes are read before the books, and votes are       *)
(* counted in between.                                                            *)
FavouritesOrdered ==
  \A key \in Keys :
    key.sort = "FAVORITES" /\ rows[key] # None =>
      \A i, j \in DOMAIN rows[key] :
        i < j => ~ /\ rows[key][i].votesCount < rows[key][j].votesCount
                   /\ rows[key][i].rating < rows[key][j].rating

CurrentRow(key) ==
  FoundRow(key, IF key.category = None THEN {} ELSE Subtree(key.category),
           IF key.sort = "FAVORITES" THEN MostVotes ELSE 0)

(* When the catalogue is no longer edited, every row that is served will be what the *)
(* catalogue says, however late the handlers that computed an older one store it.    *)
RowsCatchUp == <>[](\A key \in Keys : rows[key] # None => rows[key] = CurrentRow(key))

(* The categories form a tree, as README.md:18 says: no category is among its own *)
(* ancestors.                                                                     *)
CategoriesFormTree ==
  \A cycle \in SUBSET CategoryIds \ {{}} : \E c \in cycle : parents[c] \notin cycle
-----------------------------------------------------------------------------
(* The invariant that makes AuthorSlugsUnique and BooksComplete inductive: what an *)
(* editor has looked for exists, and goes on to exist.                             *)
HasFound(e, kind) == \A d \in editors[e].documents \cap IdsOf(kind) : Exists(d)

ReferencesChecked ==
  \A e \in Editors :
    /\ editors[e].pc \in {"author", "publisher", "storing"} => HasFound(e, "category")
    /\ editors[e].pc \in {"publisher", "storing"} => HasFound(e, "author")
    /\ editors[e].pc = "storing" => HasFound(e, "publisher")

CatalogueInv ==
  /\ slugs \in [DocumentIds -> Slugs \cup {None}]
  /\ books \in Seq(Book)
  /\ editors \in [Editors -> Editor]
  /\ AuthorSlugsUnique
  /\ ReferencesChecked
  /\ BooksComplete
=============================================================================
