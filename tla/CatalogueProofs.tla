-------------------------- MODULE CatalogueProofs --------------------------
(***************************************************************************)
(* Proofs about the catalogue, for any number of editors, readers and      *)
(* documents: authors keep different slugs, books refer to documents that  *)
(* exist, and cached rows of favourites are in order.                      *)
(***************************************************************************)
EXTENDS Catalogue, FiniteSetTheorems, SequenceTheorems, TLAPS

LEMMA InitEstablishes == CatalogueInit => CatalogueInv
PROOF
<1> SUFFICES ASSUME CatalogueInit PROVE CatalogueInv
  OBVIOUS
<1>1. slugs \in [DocumentIds -> Slugs \cup {None}]
  BY StoredAssumption DEF CatalogueInit
<1>2. books \in Seq(Book) /\ BooksComplete
  <2>1. \A b \in DOMAIN StoredBooks : StoredBooks[b] \in Book
    BY StoredBooksAssumption
  <2>2. \A b \in DOMAIN StoredBooks : StoredBooks[b].documents \subseteq DocumentIds
    BY <2>1 DEF Book
  <2> QED
    BY <2>2, StoredBooksAssumption DEF CatalogueInit, BooksComplete, Exists
<1>3. editors \in [Editors -> Editor]
  BY DEF CatalogueInit, NoEdit, Editor, Kinds
<1>4. AuthorSlugsUnique
  BY StoredAssumption DEF CatalogueInit, AuthorSlugsUnique, Exists, Kinds, IdsOf, DocumentIds
<1>5. ReferencesChecked
  BY DEF CatalogueInit, ReferencesChecked, NoEdit
<1> QED
  BY <1>1, <1>2, <1>3, <1>4, <1>5 DEF CatalogueInv

(* A step that leaves the collections alone keeps what was true of them. *)
LEMMA CollectionsStay ==
  ASSUME CatalogueInv, UNCHANGED <<slugs, books>>
  PROVE  /\ slugs' \in [DocumentIds -> Slugs \cup {None}]
         /\ books' \in Seq(Book)
         /\ AuthorSlugsUnique'
         /\ BooksComplete'
BY DEF CatalogueInv, AuthorSlugsUnique, BooksComplete, Exists

(* An editor that begins holds references to ids of documents. *)
LEMMA BeginPreserves ==
  ASSUME CatalogueInv, NEW e \in Editors, NEW edit \in Editor, Begin(e, edit),
         edit.pc \notin {"author", "publisher", "storing"}
  PROVE  CatalogueInv'
PROOF
<1>1. UNCHANGED <<slugs, books>>
  BY DEF Begin
<1>2. editors' = [editors EXCEPT ![e] = edit] /\ editors' \in [Editors -> Editor]
  BY DEF Begin, CatalogueInv
<1>3. ReferencesChecked'
  BY <1>1, <1>2 DEF CatalogueInv, ReferencesChecked, HasFound, Exists
<1> QED
  BY <1>1, <1>2, <1>3, CollectionsStay DEF CatalogueInv

(* So does one that only ends or goes on to a step before the references. *)
LEMMA ContinuePreserves ==
  ASSUME CatalogueInv, NEW e \in Editors,
         NEW pc \in {"idle", "slug", "inserting", "updating"}, Continue(e, pc)
  PROVE  CatalogueInv'
PROOF
<1>1. UNCHANGED <<slugs, books>>
  BY DEF Continue
<1>2. NoEdit \in Editor
  BY DEF NoEdit, Editor, Kinds
<1>3. editors' \in [Editors -> Editor]
  BY <1>2 DEF Continue, CatalogueInv, Editor, Kinds
<1>4. \A f \in Editors : editors'[f] = editors[f] \/ editors'[f].pc = pc
  BY DEF Continue, CatalogueInv, NoEdit, Editor
<1>5. ReferencesChecked'
  <2> SUFFICES ASSUME NEW f \in Editors, editors'[f].pc \in {"author", "publisher", "storing"}
               PROVE  editors'[f] = editors[f]
    BY <1>1 DEF ReferencesChecked, HasFound, Exists, CatalogueInv
  <2> QED
    BY <1>4
<1> QED
  BY <1>1, <1>3, <1>5, CollectionsStay DEF CatalogueInv

LEMMA CheckReferencesPreserves ==
  ASSUME CatalogueInv, NEW e \in Editors, CheckReferences(e)
  PROVE  CatalogueInv'
PROOF
<1> DEFINE pc == editors[e].pc
<1>1. UNCHANGED <<slugs, books>>
  BY DEF CheckReferences, Continue
<1>2. CASE ~ Found(e)
  <2>1. Continue(e, "idle")
    BY <1>2 DEF CheckReferences
  <2> QED
    BY <2>1, ContinuePreserves
<1>3. CASE Found(e)
  <2>1. \/ pc = "category" /\ Continue(e, "author")
        \/ pc = "author" /\ Continue(e, "publisher")
        \/ pc = "publisher" /\ Continue(e, "storing")
    BY <1>3 DEF CheckReferences, Kinds, NextCheck
  <2>2. PICK next \in {"author", "publisher", "storing"} :
          editors' = [editors EXCEPT ![e] = [@ EXCEPT !.pc = next]]
    BY <2>1 DEF Continue
  <2>3. editors' \in [Editors -> Editor]
    <3>1. [editors[e] EXCEPT !.pc = next] \in Editor
      BY DEF CatalogueInv, Editor, Kinds
    <3> QED
      BY <2>2, <3>1 DEF CatalogueInv
  <2>4. HasFound(e, pc)
    BY <1>3 DEF Found, HasFound
  <2>5. ReferencesChecked'
    <3> SUFFICES ASSUME NEW f \in Editors
                 PROVE  /\ editors'[f].pc \in {"author", "publisher", "storing"}
                            => HasFound(f, "category")'
                        /\ editors'[f].pc \in {"publisher", "storing"} => HasFound(f, "author")'
                        /\ editors'[f].pc = "storing" => HasFound(f, "publisher")'
      BY DEF ReferencesChecked
    <3>1. editors'[f].documents = editors[f].documents
      BY <2>2 DEF CatalogueInv, Editor
    <3>2. \A kind \in Kinds : HasFound(f, kind) => HasFound(f, kind)'
      BY <1>1, <3>1 DEF HasFound, Exists
    <3>3. CASE f = e
      <4>1. \/ pc = "category" /\ editors'[f].pc = "author"
            \/ pc = "author" /\ editors'[f].pc = "publisher"
            \/ pc = "publisher" /\ editors'[f].pc = "storing"
        BY <2>1, <3>3 DEF Continue, CatalogueInv, Editor
      <4> QED
        BY <2>4, <3>2, <3>3, <4>1 DEF CatalogueInv, ReferencesChecked, Kinds
    <3>4. CASE f # e
      <4>1. editors'[f] = editors[f]
        BY <2>2, <3>4 DEF CatalogueInv
      <4> QED
        BY <3>2, <4>1 DEF CatalogueInv, ReferencesChecked, Kinds
    <3> QED
      BY <3>3, <3>4
  <2> QED
    BY <1>1, <2>3, <2>5, CollectionsStay DEF CatalogueInv
<1> QED
  BY <1>2, <1>3

(* Documents stay when one is inserted, so what refers to them stays complete. *)
LEMMA InsertPreserves ==
  ASSUME CatalogueInv, NEW e \in Editors, NEW kind \in Kinds, Insert(e, kind),
         kind = "author" => \A a \in AuthorIds : slugs[a] # editors[e].slug
  PROVE  CatalogueInv'
PROOF
<1>1. books' = books /\ editors' = [editors EXCEPT ![e] = NoEdit]
  BY DEF Insert
<1>2. editors' \in [Editors -> Editor]
  BY <1>1 DEF CatalogueInv, NoEdit, Editor, Kinds
<1>3. PICK d \in IdsOf(kind) : ~ Exists(d) /\ slugs' = [slugs EXCEPT ![d] = editors[e].slug]
  BY DEF Insert
<1>4. d \in DocumentIds /\ editors[e].slug \in Slugs \cup {None}
  BY DEF CatalogueInv, Editor, Kinds, IdsOf, DocumentIds
<1>5. slugs' \in [DocumentIds -> Slugs \cup {None}]
  BY <1>3, <1>4 DEF CatalogueInv
<1>6. \A x \in DocumentIds : Exists(x) => Exists(x)' /\ slugs'[x] = slugs[x]
  BY <1>3, <1>4 DEF CatalogueInv, Exists
<1>7. AuthorSlugsUnique'
  <2>1. CASE kind = "author"
    BY <1>3, <1>4, <2>1 DEF CatalogueInv, AuthorSlugsUnique, Exists, DocumentIds
  <2>2. CASE kind # "author"
    <3>1. d \notin AuthorIds
      BY <1>3, <2>2, DocumentIdsAssumption DEF Kinds, IdsOf
    <3> QED
      BY <1>3, <3>1 DEF CatalogueInv, AuthorSlugsUnique, Exists, DocumentIds
  <2> QED
    BY <2>1, <2>2
<1>8. BooksComplete'
  <2>1. \A b \in DOMAIN books : books[b] \in Book
    BY DEF CatalogueInv
  <2>2. \A b \in DOMAIN books : books[b].documents \subseteq DocumentIds
    BY <2>1 DEF Book
  <2> QED
    BY <1>1, <1>6, <2>2 DEF CatalogueInv, BooksComplete
<1>9. ReferencesChecked'
  <2>1. \A f \in Editors : editors[f].documents \subseteq DocumentIds
    BY DEF CatalogueInv, Editor
  <2>2. \A f \in Editors, k \in Kinds : HasFound(f, k) /\ f # e => HasFound(f, k)'
    BY <1>1, <1>6, <2>1 DEF HasFound, CatalogueInv
  <2>3. \A f \in Editors : f # e => editors'[f].pc = editors[f].pc
    BY <1>1 DEF CatalogueInv
  <2>4. editors'[e].pc = "idle"
    BY <1>1 DEF CatalogueInv, NoEdit
  <2> QED
    BY <2>2, <2>3, <2>4 DEF CatalogueInv, ReferencesChecked, Kinds
<1> QED
  BY <1>1, <1>2, <1>5, <1>7, <1>8, <1>9 DEF CatalogueInv

LEMMA UpdateTextsPreserves ==
  ASSUME CatalogueInv, NEW e \in Editors, NEW kind, UpdateTexts(e, kind)
  PROVE  CatalogueInv'
PROOF
<1>1. UNCHANGED <<slugs, books>> /\ editors' = [editors EXCEPT ![e] = NoEdit]
  BY DEF UpdateTexts
<1>2. editors' \in [Editors -> Editor]
  BY <1>1 DEF CatalogueInv, NoEdit, Editor, Kinds
<1>3. ReferencesChecked'
  BY <1>1 DEF CatalogueInv, ReferencesChecked, HasFound, Exists, NoEdit
<1> QED
  BY <1>1, <1>2, <1>3, CollectionsStay DEF CatalogueInv

LEMMA RevisedBook ==
  ASSUME NEW book \in Book, NEW documents \in SUBSET DocumentIds
  PROVE  Revised(book, documents) \in Book /\ Revised(book, documents).documents = documents
PROOF
<1> DEFINE revised == [book EXCEPT !.documents = documents]
<1>1. revised \in Book /\ revised.documents = documents
  BY DEF Book
<1>2. book.version + 1 \in Nat
  BY DEF Book
<1>3. Revised(book, documents) = [revised EXCEPT !.version = book.version + 1]
  BY DEF Revised
<1> HIDE DEF revised
<1> QED
  BY <1>1, <1>2, <1>3 DEF Book

LEMMA VotedBook ==
  ASSUME NEW book \in Book, NEW rating \in Ratings, NEW new \in {0, 1}
  PROVE  Voted(book, rating, new) \in Book /\ Voted(book, rating, new).documents = book.documents
PROOF
<1> DEFINE rated == [book EXCEPT !.rating = rating]
<1>1. rated \in Book /\ rated.documents = book.documents
  BY DEF Book
<1>2. book.votesCount + new \in Nat
  BY DEF Book
<1>3. Voted(book, rating, new) = [rated EXCEPT !.votesCount = book.votesCount + new]
  BY DEF Voted
<1> HIDE DEF rated
<1> QED
  BY <1>1, <1>2, <1>3 DEF Book

(* Updating one book keeps the type of the sequence. *)
LEMMA BooksKeepType ==
  ASSUME CatalogueInv, NEW b, NEW book, books' = [books EXCEPT ![b] = book],
         \A c \in DOMAIN books : books'[c] \in Book
  PROVE  books' \in Seq(Book)
PROOF
<1>1. books \in Seq(Book) /\ DOMAIN books = 1 .. Len(books) /\ Len(books) \in Nat
  BY DEF CatalogueInv
<1>2. books' \in [1 .. Len(books) -> Book]
  BY <1>1
<1> QED
  BY <1>1, <1>2

(* A book is stored only after all of its references were found. *)
LEMMA StoreBookPreserves ==
  ASSUME CatalogueInv, NEW e \in Editors, StoreBook(e)
  PROVE  CatalogueInv'
PROOF
<1> DEFINE documents == editors[e].documents
<1>1. slugs' = slugs /\ editors' = [editors EXCEPT ![e] = NoEdit]
  BY DEF StoreBook
<1>2. editors' \in [Editors -> Editor]
  BY <1>1 DEF CatalogueInv, NoEdit, Editor, Kinds
<1>3. ReferencesChecked'
  BY <1>1 DEF CatalogueInv, ReferencesChecked, HasFound, Exists, NoEdit
<1>4. documents \subseteq DocumentIds
  BY DEF CatalogueInv, Editor
<1>5. \A d \in documents : Exists(d)
  <2>1. \A kind \in Kinds : HasFound(e, kind)
    BY DEF CatalogueInv, ReferencesChecked, StoreBook, Kinds
  <2>2. \A d \in documents : \E kind \in Kinds : d \in IdsOf(kind)
    BY <1>4 DEF DocumentIds, IdsOf, Kinds
  <2> QED
    BY <2>1, <2>2 DEF HasFound
<1>6. CASE editors[e].id = None
  <2>1. books' = Append(books, [documents |-> documents, version |-> 0,
                               rating |-> 0, votesCount |-> 0])
    BY <1>6 DEF StoreBook
  <2>2. [documents |-> documents, version |-> 0, rating |-> 0, votesCount |-> 0] \in Book
    BY <1>4 DEF Book
  <2>3. books' \in Seq(Book)
    BY <2>1, <2>2 DEF CatalogueInv
  <2>4. \A b \in DOMAIN books' : \/ b \in DOMAIN books /\ books'[b] = books[b]
                                \/ books'[b].documents = documents
    BY <2>1, <2>2 DEF CatalogueInv
  <2>5. BooksComplete'
    BY <1>1, <1>5, <2>4 DEF CatalogueInv, BooksComplete, Exists
  <2>6. AuthorSlugsUnique' /\ slugs' \in [DocumentIds -> Slugs \cup {None}]
    BY <1>1 DEF CatalogueInv, AuthorSlugsUnique, Exists
  <2> QED
    BY <1>2, <1>3, <2>3, <2>5, <2>6 DEF CatalogueInv
<1>7. CASE editors[e].id # None
  <2> DEFINE id == editors[e].id
             book == Revised(books[id], documents)
  <2>1. books' = [books EXCEPT ![id] = book]
    BY <1>7 DEF StoreBook
  <2>2. DOMAIN books' = DOMAIN books
    BY <2>1 DEF CatalogueInv
  <2>3. \A b \in DOMAIN books :
           \/ books'[b] = books[b]
           \/ books'[b].documents = documents /\ books'[b] \in Book
    <3> SUFFICES ASSUME NEW b \in DOMAIN books, b = id
                 PROVE  book.documents = documents /\ book \in Book
      BY <2>1 DEF CatalogueInv
    <3>1. books[b] \in Book
      BY DEF CatalogueInv
    <3> QED
      BY <1>4, <3>1, RevisedBook
  <2>4. \A b \in DOMAIN books : books'[b] \in Book
    BY <2>3 DEF CatalogueInv
  <2>5. books' \in Seq(Book)
    BY <2>1, <2>4, BooksKeepType
  <2>6. BooksComplete'
    BY <1>1, <1>5, <2>2, <2>3 DEF CatalogueInv, BooksComplete, Exists
  <2>7. AuthorSlugsUnique' /\ slugs' \in [DocumentIds -> Slugs \cup {None}]
    BY <1>1 DEF CatalogueInv, AuthorSlugsUnique, Exists
  <2> QED
    BY <1>2, <1>3, <2>5, <2>6, <2>7 DEF CatalogueInv
<1> QED
  BY <1>6, <1>7

LEMMA CountVotePreserves ==
  ASSUME CatalogueInv, NEW b \in BookIds, CountVote(b)
  PROVE  CatalogueInv'
PROOF
<1>1. UNCHANGED <<slugs, editors>> /\ b \in DOMAIN books
  BY DEF CountVote
<1>2. PICK rating \in Ratings, new \in {0, 1} :
        books' = [books EXCEPT ![b] = Voted(books[b], rating, new)]
  BY DEF CountVote
<1> DEFINE book == Voted(books[b], rating, new)
<1>3. books' = [books EXCEPT ![b] = book] /\ DOMAIN books' = DOMAIN books
  BY <1>2 DEF CatalogueInv
<1>4. book.documents = books[b].documents /\ book \in Book
  <2>1. books[b] \in Book
    BY <1>1 DEF CatalogueInv
  <2> QED
    BY <2>1, VotedBook
<1>5. \A c \in DOMAIN books : books'[c].documents = books[c].documents /\ books'[c] \in Book
  BY <1>3, <1>4 DEF CatalogueInv
<1>6. books' \in Seq(Book)
  BY <1>3, <1>5, BooksKeepType
<1>7. BooksComplete'
  BY <1>1, <1>3, <1>5 DEF CatalogueInv, BooksComplete, Exists
<1>8. AuthorSlugsUnique' /\ ReferencesChecked'
  BY <1>1 DEF CatalogueInv, AuthorSlugsUnique, ReferencesChecked, HasFound, Exists
<1> QED
  BY <1>1, <1>6, <1>7, <1>8 DEF CatalogueInv

(* The readers and Redis touch nothing that the invariant speaks of. *)
LEMMA ReadsPreserve ==
  ASSUME CatalogueInv, UNCHANGED <<slugs, books, editors>>
  PROVE  CatalogueInv'
PROOF
<1>1. ReferencesChecked'
  BY DEF CatalogueInv, ReferencesChecked, HasFound, Exists
<1> QED
  BY <1>1, CollectionsStay DEF CatalogueInv

(* Every request of an admin begins with what the type of editors allows. *)
LEMMA BeginEditPreserves ==
  ASSUME CatalogueInv, NEW e \in Editors, BeginEdit(e)
  PROVE  CatalogueInv'
PROOF
<1>1. \A kind \in Kinds : Existing(kind) \subseteq IdsOf(kind)
  BY DEF Existing
<1>2. ASSUME NEW kind \in Kinds, NEW slug \in Slugs,
             NEW parent \in CategoryIds \cup {Unknown, None},
             BeginCreate(e, kind, slug, parent)
      PROVE  CatalogueInv'
  <2> DEFINE edit == [NoEdit EXCEPT !.pc = IF parent = None THEN "slug" ELSE "parent",
                                    !.kind = kind, !.slug = slug, !.parent = parent]
  <2>1. edit \in Editor /\ edit.pc \in {"slug", "parent"}
    BY DEF NoEdit, Editor, Kinds
  <2> QED
    BY <1>2, <2>1, BeginPreserves DEF BeginCreate
<1>3. ASSUME NEW kind \in Kinds, NEW d \in DocumentIds,
             NEW parent \in CategoryIds \cup {Unknown, None},
             BeginUpdate(e, kind, d, parent)
      PROVE  CatalogueInv'
  <2> DEFINE edit == [NoEdit EXCEPT !.pc = IF parent = None THEN "updating" ELSE "parent",
                                    !.kind = kind, !.id = d, !.parent = parent]
  <2>1. edit \in Editor /\ edit.pc \in {"updating", "parent"}
    BY DEF NoEdit, Editor, Kinds
  <2> QED
    BY <1>3, <2>1, BeginPreserves DEF BeginUpdate
<1>4. ASSUME NEW id \in BookIds \cup {None}, BeginStoreBook(e, id)
      PROVE  CatalogueInv'
  <2>1. PICK documents \in References :
          Begin(e, [NoEdit EXCEPT !.pc = "category", !.id = id, !.documents = documents])
    BY <1>4 DEF BeginStoreBook
  <2> DEFINE edit == [NoEdit EXCEPT !.pc = "category", !.id = id, !.documents = documents]
  <2>2. edit \in Editor /\ edit.pc = "category"
    BY RequestsAssumption DEF NoEdit, Editor, Kinds
  <2> QED
    BY <2>1, <2>2, BeginPreserves
<1>5. ASSUME NEW slug \in NewSlugs,
             \/ BeginCreateCategory(e, slug)
             \/ BeginCreateAuthor(e, slug)
             \/ BeginCreatePublisher(e, slug)
      PROVE  CatalogueInv'
  BY <1>1, <1>2, <1>5, RequestsAssumption
     DEF BeginCreateCategory, BeginCreateAuthor, BeginCreatePublisher, Kinds, IdsOf
<1>6. ASSUME NEW c \in Existing("category"), BeginUpdateCategory(e, c)
      PROVE  CatalogueInv'
  BY <1>1, <1>3, <1>6 DEF BeginUpdateCategory, Kinds, IdsOf, DocumentIds
<1>7. ASSUME NEW a \in Existing("author"), BeginUpdateAuthor(e, a)
      PROVE  CatalogueInv'
  BY <1>1, <1>3, <1>7 DEF BeginUpdateAuthor, Kinds, IdsOf, DocumentIds
<1>8. ASSUME NEW p \in Existing("publisher"), BeginUpdatePublisher(e, p)
      PROVE  CatalogueInv'
  BY <1>1, <1>3, <1>8 DEF BeginUpdatePublisher, Kinds, IdsOf, DocumentIds
<1> QED
  BY <1>4, <1>5, <1>6, <1>7, <1>8 DEF BeginEdit, BeginCreateBook, BeginUpdateBook

(* The authors' insertion meets the unique index; the other two need none for the invariant. *)
LEMMA InsertionsPreserve ==
  ASSUME CatalogueInv, NEW e \in Editors,
         InsertCategory(e) \/ InsertAuthor(e) \/ InsertPublisher(e)
  PROVE  CatalogueInv'
BY InsertPreserves, ContinuePreserves
   DEF InsertCategory, InsertAuthor, InsertPublisher, Kinds

LEMMA UpdatesPreserve ==
  ASSUME CatalogueInv, NEW e \in Editors,
         UpdateCategory(e) \/ UpdateAuthor(e) \/ UpdatePublisher(e)
  PROVE  CatalogueInv'
BY UpdateTextsPreserves DEF UpdateCategory, UpdateAuthor, UpdatePublisher

LEMMA NextPreserves ==
  ASSUME CatalogueInv, [CatalogueNext]_catalogueVars
  PROVE  CatalogueInv'
PROOF
<1>1. ASSUME NEW e \in Editors, CheckParent(e) \/ CheckSlug(e) \/ EditThrows(e)
      PROVE  CatalogueInv'
  <2>1. PICK pc \in {"idle", "slug", "inserting", "updating"} : Continue(e, pc)
    BY <1>1 DEF CheckParent, CheckSlug, EditThrows
  <2> QED
    BY <2>1, ContinuePreserves
<1>2. ASSUME NEW e \in Editors, EditStep(e)
      PROVE  CatalogueInv'
  BY <1>1, <1>2, InsertionsPreserve, UpdatesPreserve,
     CheckReferencesPreserves, StoreBookPreserves DEF EditStep
<1>3. ASSUME NEW g \in Readers,
             (\E key \in Keys : GetRow(g, key)) \/ ReadStep(g) \/ ReadThrows(g)
      PROVE  CatalogueInv'
  <2>1. UNCHANGED <<slugs, books, editors>>
    BY <1>3 DEF GetRow, ReadStep, FindCategories, FindFilter, FindMostVotes, FindBooks,
                CacheRow, ReadThrows
  <2> QED
    BY <2>1, ReadsPreserve
<1>4. ASSUME NEW key \in Keys, ExpireRow(key)
      PROVE  CatalogueInv'
  BY <1>4, ReadsPreserve DEF ExpireRow
<1>5. CASE UNCHANGED catalogueVars
  BY <1>5, ReadsPreserve DEF catalogueVars
<1> QED
  BY <1>1, <1>2, <1>3, <1>4, <1>5, BeginEditPreserves, CountVotePreserves DEF CatalogueNext

(* In every run the collections, the books and the requests in flight keep to what *)
(* category.service.ts, author.service.ts, publisher.service.ts and                *)
(* book.service.ts rely on: CatalogueInv.                                          *)
THEOREM CatalogueInvariant == CatalogueSpec => []CatalogueInv
PROOF
<1> QED
  BY InitEstablishes, NextPreserves, PTL DEF CatalogueSpec

(* No two authors ever have one slug, however many createAuthor calls race between *)
(* their count and their insert (author.service.ts, author.schema.ts).             *)
THEOREM AuthorSlugsTheorem == CatalogueSpec => []AuthorSlugsUnique
PROOF
<1>1. CatalogueInv => AuthorSlugsUnique
  BY DEF CatalogueInv
<1> QED
  BY <1>1, CatalogueInvariant, PTL

(* Every category, author and publisher that a book names exists, however the edits *)
(* interleave with createBook and updateBook (book.service.ts).                     *)
THEOREM BooksCompleteTheorem == CatalogueSpec => []BooksComplete
PROOF
<1>1. CatalogueInv => BooksComplete
  BY DEF CatalogueInv
<1> QED
  BY <1>1, CatalogueInvariant, PTL
-----------------------------------------------------------------------------
(* The popularity of a book is a number, and no lower when its votes and rating are not. *)
LEMMA PopularityGrows ==
  ASSUME NEW maxVotesCount \in Nat, NEW x \in Entry, NEW y \in Entry
  PROVE  /\ Popularity(x, maxVotesCount) \in Nat
         /\ x.votesCount < y.votesCount /\ x.rating < y.rating =>
              Popularity(x, maxVotesCount) < Popularity(y, maxVotesCount)
PROOF
<1>1. /\ x.votesCount \in Nat /\ y.votesCount \in Nat
      /\ x.rating \in Nat /\ y.rating \in Nat
  <2>1. Ratings \cup {0} \subseteq Nat
    BY NumbersAssumption
  <2>2. x.votesCount \in Nat /\ y.votesCount \in Nat
    BY DEF Entry
  <2>3. x.rating \in Ratings \cup {0} /\ y.rating \in Ratings \cup {0}
    BY DEF Entry
  <2> QED
    BY <2>1, <2>2, <2>3
<1> DEFINE weight == 2 * maxVotesCount
<1>2. weight \in Nat
  OBVIOUS
<1> HIDE DEF weight
<1>3. \A r \in Nat : weight * r \in Nat
  BY <1>2
<1>4. \A r1, r2 \in Nat : r1 < r2 => weight * r1 <= weight * r2
  BY <1>2
<1>5. /\ Popularity(x, maxVotesCount) = 5 * x.votesCount + weight * x.rating
      /\ Popularity(y, maxVotesCount) = 5 * y.votesCount + weight * y.rating
  BY DEF Popularity, weight
<1>6. weight * x.rating \in Nat /\ weight * y.rating \in Nat
  BY <1>1, <1>3
<1>7. Popularity(x, maxVotesCount) \in Nat
  BY <1>1, <1>5, <1>6
<1>8. ASSUME x.votesCount < y.votesCount, x.rating < y.rating
      PROVE  Popularity(x, maxVotesCount) < Popularity(y, maxVotesCount)
  <2>1. weight * x.rating <= weight * y.rating
    BY <1>1, <1>4, <1>8
  <2> QED
    BY <1>1, <1>5, <1>6, <1>8, <2>1
<1> QED
  BY <1>7, <1>8

(* The sort orders different books strictly. *)
LEMMA PrecedesOrders ==
  ASSUME NEW sort, NEW maxVotesCount \in Nat,
         NEW x \in Entry, NEW y \in Entry, NEW z \in Entry
  PROVE  /\ ~ Precedes(sort, maxVotesCount, x, x)
         /\ Precedes(sort, maxVotesCount, x, y) /\ Precedes(sort, maxVotesCount, y, z) =>
              Precedes(sort, maxVotesCount, x, z)
         /\ x.id # y.id =>
              Precedes(sort, maxVotesCount, x, y) \/ Precedes(sort, maxVotesCount, y, x)
PROOF
<1>1. x.id \in Int /\ y.id \in Int /\ z.id \in Int
  BY NumbersAssumption DEF Entry, BookIds
<1> DEFINE px == Popularity(x, maxVotesCount)
           py == Popularity(y, maxVotesCount)
           pz == Popularity(z, maxVotesCount)
<1>2. px \in Nat /\ py \in Nat /\ pz \in Nat
  BY PopularityGrows
<1> QED
  BY <1>1, <1>2 DEF Precedes

(* The row that the sort asks for exists: every book stands at its rank, one more than the *)
(* number of books that precede it.                                                        *)
LEMMA SortedRow ==
  ASSUME NEW entries \in SUBSET Entry, IsFiniteSet(entries),
         \A x, y \in entries : x.id = y.id => x = y,
         NEW sort, NEW maxVotesCount \in Nat
  PROVE  LET n == Cardinality(entries)
             row == Sorted(entries, sort, maxVotesCount)
         IN  /\ n \in Nat
             /\ row \in [1 .. n -> entries]
             /\ \A i, j \in 1 .. n : i < j => Precedes(sort, maxVotesCount, row[i], row[j])
PROOF
<1> DEFINE n == Cardinality(entries)
           Before(x) == {y \in entries : Precedes(sort, maxVotesCount, y, x)}
           rank == [x \in entries |-> Cardinality(Before(x)) + 1]
           IsSorted(row) ==
             \A i, j \in DOMAIN row : i < j => Precedes(sort, maxVotesCount, row[i], row[j])
<1>1. n \in Nat
  BY FS_CardinalityType
<1>2. \A x \in entries : Cardinality(Before(x)) \in Nat /\ Cardinality(Before(x)) < n
  <2> SUFFICES ASSUME NEW x \in entries
               PROVE  Cardinality(Before(x)) \in Nat /\ Cardinality(Before(x)) < n
    OBVIOUS
  <2>1. Before(x) \in SUBSET entries /\ x \notin Before(x)
    BY PrecedesOrders
  <2> HIDE DEF Before
  <2>2. IsFiniteSet(Before(x)) /\ Cardinality(Before(x)) <= n /\ Cardinality(Before(x)) # n
    BY <2>1, FS_Subset
  <2> QED
    BY <1>1, <2>2, FS_CardinalityType
<1>3. \A x, y \in entries : Precedes(sort, maxVotesCount, x, y) => rank[x] < rank[y]
  <2> HIDE DEF Before
  <2>7. \A x \in entries : rank[x] = Cardinality(Before(x)) + 1
    OBVIOUS
  <2> SUFFICES ASSUME NEW x \in entries, NEW y \in entries,
                      Precedes(sort, maxVotesCount, x, y)
               PROVE  Cardinality(Before(x)) < Cardinality(Before(y))
    BY <1>2, <2>7
  <2>1. Before(x) \in SUBSET Before(y) /\ x \in Before(y) /\ x \notin Before(x)
    BY PrecedesOrders DEF Before
  <2>2. Before(y) \in SUBSET entries
    BY DEF Before
  <2>3. Cardinality(Before(x)) \in Nat /\ Cardinality(Before(y)) \in Nat
    BY <1>2
  <2>4. IsFiniteSet(Before(y))
    BY <2>2, FS_Subset
  <2>5. Cardinality(Before(x)) <= Cardinality(Before(y))
          /\ Cardinality(Before(x)) # Cardinality(Before(y))
    BY <2>1, <2>4, FS_Subset
  <2> QED
    BY <2>3, <2>5
<1>4. rank \in [entries -> 1 .. n]
  <2>1. \A x \in entries : Cardinality(Before(x)) + 1 \in 1 .. n
    BY <1>1, <1>2
  <2> HIDE DEF Before
  <2> QED
    BY <2>1
<1> HIDE DEF Before, rank
<1>5. \A x, y \in entries : rank[x] = rank[y] => x = y
  <2> SUFFICES ASSUME NEW x \in entries, NEW y \in entries, x # y
               PROVE  rank[x] < rank[y] \/ rank[y] < rank[x]
    BY <1>4
  <2>1. Precedes(sort, maxVotesCount, x, y) \/ Precedes(sort, maxVotesCount, y, x)
    BY PrecedesOrders
  <2> QED
    BY <1>3, <2>1
<1>6. \A i \in 1 .. n : \E x \in entries : rank[x] = i
  <2>1. rank \in Injection(entries, 1 .. n)
    BY <1>4, <1>5 DEF Injection, IsInjective
  <2>2. IsFiniteSet(1 .. n) /\ Cardinality(1 .. n) = n
    BY <1>1, FS_Interval
  <2>3. rank \in Surjection(entries, 1 .. n)
    BY <2>1, <2>2, FS_Injection
  <2> QED
    BY <2>3 DEF Surjection
<1> DEFINE row == [i \in 1 .. n |-> CHOOSE x \in entries : rank[x] = i]
<1>7. row \in [1 .. n -> entries] /\ \A i \in 1 .. n : rank[row[i]] = i
  BY <1>6
<1>8. IsSorted(row)
  <2> SUFFICES ASSUME NEW i \in 1 .. n, NEW j \in 1 .. n, i < j
               PROVE  Precedes(sort, maxVotesCount, row[i], row[j])
    BY <1>7
  <2> HIDE DEF row
  <2>1. row[i] \in entries /\ row[j] \in entries /\ rank[row[i]] = i /\ rank[row[j]] = j
    BY <1>7
  <2>2. row[i].id # row[j].id
    BY <2>1
  <2>3. \/ Precedes(sort, maxVotesCount, row[i], row[j])
        \/ Precedes(sort, maxVotesCount, row[j], row[i])
    BY <2>1, <2>2, PrecedesOrders
  <2>4. ~ Precedes(sort, maxVotesCount, row[j], row[i])
    BY <1>3, <2>1
  <2> QED
    BY <2>3, <2>4
<1> HIDE DEF row
<1>9. \E r \in [1 .. n -> entries] : IsSorted(r)
  BY <1>7, <1>8
<1>10. Sorted(entries, sort, maxVotesCount) = CHOOSE r \in [1 .. n -> entries] : IsSorted(r)
  BY DEF Sorted
<1> HIDE DEF IsSorted
<1>11. /\ Sorted(entries, sort, maxVotesCount) \in [1 .. n -> entries]
       /\ IsSorted(Sorted(entries, sort, maxVotesCount))
  BY <1>9, <1>10
<1> QED
  BY <1>1, <1>11 DEF IsSorted

(* Of finitely many numbers one is the largest. *)
LEMMA LargestExists ==
  ASSUME NEW numbers \in SUBSET Nat, IsFiniteSet(numbers), numbers # {}
  PROVE  \E n \in numbers : \A m \in numbers : m <= n
PROOF
<1> DEFINE Larger(n) == {larger \in numbers : n < larger}
           sets == {Larger(n) : n \in numbers}
<1>1. sets \subseteq FiniteSubsetsOf(numbers) /\ sets # {}
  <2>1. \A n \in numbers : Larger(n) \in SUBSET numbers /\ IsFiniteSet(Larger(n))
    BY FS_Subset
  <2> QED
    BY <2>1 DEF FiniteSubsetsOf
<1>2. PICK least \in sets : \A set \in sets : <<set, least>> \notin StrictSubsetOrdering(numbers)
  <2> HIDE DEF sets
  <2> QED
    BY <1>1, FS_StrictSubsetOrderingWellFounded, WFMin
<1>3. PICK n \in numbers : least = Larger(n)
  OBVIOUS
<1>4. ASSUME NEW m \in numbers, n < m
      PROVE  FALSE
  <2>1. Larger(m) \in SUBSET numbers /\ Larger(n) \in SUBSET numbers
    OBVIOUS
  <2>2. Larger(m) \subseteq Larger(n) /\ m \in Larger(n) /\ m \notin Larger(m)
    <3>1. n \in Int /\ m \in Int /\ \A k \in numbers : k \in Int
      OBVIOUS
    <3>2. m \in Larger(n)
      BY <1>4
    <3>3. m \notin Larger(m)
      BY <3>1
    <3>4. \A k \in numbers : m < k => n < k
      BY <1>4, <3>1
    <3>5. Larger(m) \subseteq Larger(n)
      BY <3>4
    <3> QED
      BY <3>2, <3>3, <3>5
  <2>3. <<Larger(m), Larger(n)>> \in StrictSubsetOrdering(numbers)
    <3> HIDE DEF Larger
    <3> QED
      BY <2>1, <2>2 DEF StrictSubsetOrdering
  <2> QED
    BY <1>2, <1>3, <2>3
<1> QED
  BY <1>4

(* What the favourites are weighed with is a number. *)
LEMMA MostVotesNumber ==
  ASSUME books \in Seq(Book)
  PROVE  MostVotes \in Nat
PROOF
<1> DEFINE counts == {books[b].votesCount : b \in DOMAIN books} \cup {0}
           Most(n) == \A m \in counts : m <= n
<1>1. DOMAIN books = 1 .. Len(books) /\ Len(books) \in Nat
  OBVIOUS
<1>2. \A b \in DOMAIN books : books[b].votesCount \in Nat
  <2>1. \A b \in DOMAIN books : books[b] \in Book
    OBVIOUS
  <2> QED
    BY <2>1 DEF Book
<1>3. counts \in SUBSET Nat /\ counts # {}
  BY <1>2
<1>4. IsFiniteSet(counts)
  <2> DEFINE count == [b \in DOMAIN books |-> books[b].votesCount]
             image == {books[b].votesCount : b \in DOMAIN books}
  <2>1. count \in Surjection(DOMAIN books, image)
    BY DEF Surjection
  <2>2. IsFiniteSet(DOMAIN books)
    BY <1>1, FS_Interval
  <2> HIDE DEF count
  <2>3. IsFiniteSet(image)
    BY <2>1, <2>2, FS_Surjection
  <2> HIDE DEF image
  <2>4. IsFiniteSet(image \cup {0})
    BY <2>3, FS_AddElement
  <2> QED
    BY <2>4 DEF image
<1>5. MostVotes = LET most == CHOOSE n \in counts : Most(n) IN IF most = 0 THEN 1 ELSE most
  BY DEF MostVotes
<1>6. \E n \in counts : Most(n)
  <2> HIDE DEF counts
  <2> QED
    BY <1>3, <1>4, LargestExists
<1>7. (CHOOSE n \in counts : Most(n)) \in Nat
  <2> HIDE DEF counts, Most
  <2> QED
    BY <1>3, <1>6
<1> QED
  BY <1>5, <1>7

(* No book of the row stands behind one with fewer votes and a lower rating. *)
InOrder(row) ==
  \A i, j \in DOMAIN row :
    i < j => ~ (row[i].votesCount < row[j].votesCount /\ row[i].rating < row[j].rating)

(* What findBooksResult answers is a row, and one of favourites is in order. *)
LEMMA FoundRowInOrder ==
  ASSUME books \in Seq(Book), Len(books) <= MaxBooks, versions \in [DocumentIds -> Nat],
         NEW key, NEW categories, NEW maxVotesCount \in Nat
  PROVE  LET row == FoundRow(key, categories, maxVotesCount)
         IN  row \in Seq(Entry) /\ (key.sort = "FAVORITES" => InOrder(row))
PROOF
<1> DEFINE matching == {b \in DOMAIN books : Matches(b, key, categories)}
           found == {Shown(b) : b \in matching}
           n == Cardinality(found)
           sorted == Sorted(found, key.sort, maxVotesCount)
           last == IF Len(sorted) < Limit THEN Len(sorted) ELSE Limit
           row == FoundRow(key, categories, maxVotesCount)
<1>1. DOMAIN books = 1 .. Len(books) /\ Len(books) \in Nat /\ MaxBooks \in Nat
  BY NumbersAssumption
<1>2. \A b \in DOMAIN books : Shown(b) \in Entry /\ Shown(b).id = b
  <2> SUFFICES ASSUME NEW b \in DOMAIN books
               PROVE  Shown(b) \in Entry /\ Shown(b).id = b
    OBVIOUS
  <2>1. books[b] \in Book
    OBVIOUS
  <2>2. /\ books[b].documents \subseteq DocumentIds /\ books[b].version \in Nat
        /\ books[b].rating \in Ratings \cup {0} /\ books[b].votesCount \in Nat
    BY <2>1 DEF Book
  <2>3. {<<d, versions[d]>> : d \in {x \in books[b].documents : Exists(x)}}
          \in SUBSET (DocumentIds \X Nat)
    BY <2>2
  <2>4. b \in BookIds
    BY <1>1 DEF BookIds
  <2> QED
    BY <2>2, <2>3, <2>4 DEF Shown, Entry
<1>3. IsFiniteSet(found)
  <2>1. IsFiniteSet(matching)
    <3>1. IsFiniteSet(DOMAIN books)
      BY <1>1, FS_Interval
    <3>2. matching \in SUBSET DOMAIN books
      OBVIOUS
    <3> QED
      BY <3>1, <3>2, FS_Subset
  <2> HIDE DEF matching
  <2> DEFINE show == [b \in matching |-> Shown(b)]
  <2>2. show \in Surjection(matching, found)
    BY DEF Surjection
  <2> HIDE DEF show, found
  <2> QED
    BY <2>1, <2>2, FS_Surjection
<1>4. found \in SUBSET Entry /\ \A x, y \in found : x.id = y.id => x = y
  BY <1>2
<1> HIDE DEF found
<1>5. /\ n \in Nat /\ sorted \in [1 .. n -> found]
      /\ \A i, j \in 1 .. n : i < j => Precedes(key.sort, maxVotesCount, sorted[i], sorted[j])
  BY <1>3, <1>4, SortedRow
<1>6. row = SubSeq(sorted, 1, last)
  BY DEF FoundRow, found
<1> HIDE DEF n, sorted, row
<1>7. Len(sorted) = n
  BY <1>5
<1>8. last \in Nat /\ last <= n
  BY <1>5, <1>7, NumbersAssumption
<1> HIDE DEF last
<1>9. \A i \in 1 .. last : sorted[i] \in Entry
  BY <1>4, <1>5, <1>8
<1>10. /\ row \in Seq(Entry)
       /\ Len(row) = last
       /\ \A i \in 1 .. last : row[i] = sorted[i]
  <2>1. last \in Int /\ 1 \in Int
    BY <1>8
  <2>2. /\ row \in Seq(Entry)
        /\ Len(row) = IF 1 <= last THEN last - 1 + 1 ELSE 0
        /\ \A i \in 1 .. last - 1 + 1 : row[i] = sorted[1 + i - 1]
    BY <1>6, <1>9, <2>1, SubSeqProperties
  <2>3. last - 1 + 1 = last /\ \A i \in 1 .. last : 1 + i - 1 = i
    BY <1>8
  <2> QED
    BY <1>8, <2>2, <2>3
<1>11. ASSUME key.sort = "FAVORITES", NEW i \in DOMAIN row, NEW j \in DOMAIN row, i < j,
              row[i].votesCount < row[j].votesCount, row[i].rating < row[j].rating
       PROVE  FALSE
  <2>1. i \in 1 .. last /\ j \in 1 .. last
    BY <1>8, <1>10, <1>11
  <2>2. row[i] \in Entry /\ row[j] \in Entry
    BY <1>9, <1>10, <2>1
  <2>3. Precedes("FAVORITES", maxVotesCount, row[i], row[j])
    <3>1. i \in 1 .. n /\ j \in 1 .. n
      BY <1>5, <1>8, <2>1
    <3> QED
      BY <1>5, <1>10, <1>11, <2>1, <3>1
  <2>4. /\ Popularity(row[i], maxVotesCount) \in Nat
        /\ Popularity(row[j], maxVotesCount) \in Nat
        /\ Popularity(row[i], maxVotesCount) < Popularity(row[j], maxVotesCount)
    BY <1>11, <2>2, PopularityGrows
  <2> QED
    BY <2>3, <2>4 DEF Precedes
<1> QED
  BY <1>10, <1>11 DEF InOrder, row

-----------------------------------------------------------------------------
(* What remains of CatalogueTypeOK once CatalogueInv is known, and the order of the rows, *)
(* in Redis and on their way to it.                                                       *)
RowInv ==
  /\ versions \in [DocumentIds -> Nat]
  /\ parents \in [CategoryIds -> CategoryIds \cup {Unknown, None}]
  /\ Len(books) <= MaxBooks
  /\ rows \in [Keys -> Seq(Entry) \cup {None}]
  /\ readers \in [Readers -> Reader]
  /\ edits \in 0 .. MaxEdits
  /\ \A g \in Readers :
       readers[g].pc = "caching" /\ readers[g].key.sort = "FAVORITES" => InOrder(readers[g].row)
  /\ FavouritesOrdered

LEMMA NoReadType == NoRead \in Reader /\ NoRead.pc = "idle"
BY DEF NoRead, Reader, RowKey, Sorts

LEMMA InitRows == CatalogueInit => RowInv
PROOF
<1> SUFFICES ASSUME CatalogueInit PROVE RowInv
  OBVIOUS
<1>1. Len(books) <= MaxBooks /\ edits \in 0 .. MaxEdits
  BY StoredBooksAssumption, NumbersAssumption DEF CatalogueInit
<1>2. readers \in [Readers -> Reader] /\ \A g \in Readers : readers[g].pc = "idle"
  BY NoReadType DEF CatalogueInit
<1>3. FavouritesOrdered
  BY DEF CatalogueInit, FavouritesOrdered
<1> QED
  BY <1>1, <1>2, <1>3 DEF CatalogueInit, RowInv

(* The edits leave the rows and their readers alone. *)
LEMMA EditsOfRows ==
  ASSUME CatalogueInv, RowInv, NEW e \in Editors, BeginEdit(e) \/ EditStep(e) \/ EditThrows(e)
  PROVE  /\ versions' \in [DocumentIds -> Nat]
         /\ parents' \in [CategoryIds -> CategoryIds \cup {Unknown, None}]
         /\ Len(books') <= MaxBooks
         /\ edits' \in 0 .. MaxEdits
         /\ UNCHANGED <<rows, readers>>
PROOF
<1> USE DEF RowInv
<1>1. /\ MaxEdits \in Nat /\ MaxBooks \in Nat
      /\ Len(books) \in Nat /\ DOMAIN books = 1 .. Len(books)
  BY NumbersAssumption DEF CatalogueInv
<1>2. editors[e].parent \in CategoryIds \cup {Unknown, None}
  BY DEF CatalogueInv, Editor
<1>3. ASSUME NEW edit, Begin(e, edit)
      PROVE  edits' \in 0 .. MaxEdits /\ UNCHANGED <<versions, parents, books, rows, readers>>
  BY <1>1, <1>3 DEF Begin
<1>4. CASE BeginEdit(e)
  <2>1. \E edit : Begin(e, edit)
    BY <1>4 DEF BeginEdit, BeginCreateCategory, BeginCreateAuthor, BeginCreatePublisher,
                BeginCreate, BeginUpdateCategory, BeginUpdateAuthor, BeginUpdatePublisher,
                BeginUpdate, BeginCreateBook, BeginUpdateBook, BeginStoreBook
  <2> QED
    BY <1>3, <2>1
<1>5. ASSUME NEW pc, Continue(e, pc)
      PROVE  UNCHANGED <<versions, parents, books, rows, readers, edits>>
  BY <1>5 DEF Continue
<1>6. ASSUME NEW kind \in Kinds, Insert(e, kind)
      PROVE  /\ parents' \in [CategoryIds -> CategoryIds \cup {Unknown, None}]
             /\ UNCHANGED <<versions, books, rows, readers, edits>>
  <2>1. UNCHANGED <<versions, books, rows, readers, edits>>
    BY <1>6 DEF Insert
  <2>2. PICK d : parents' = parents \/ parents' = [parents EXCEPT ![d] = editors[e].parent]
    BY <1>6 DEF Insert
  <2>3. parents' \in [CategoryIds -> CategoryIds \cup {Unknown, None}]
    BY <1>2, <2>2
  <2> QED
    BY <2>1, <2>3
<1>7. ASSUME NEW kind, UpdateTexts(e, kind)
      PROVE  /\ versions' \in [DocumentIds -> Nat]
             /\ UNCHANGED <<books, rows, readers, edits>>
  <2>1. \A d \in DocumentIds : versions[d] \in Nat /\ versions[d] + 1 \in Nat
    OBVIOUS
  <2>2. versions' = [versions EXCEPT ![editors[e].id] = versions[editors[e].id] + 1]
    BY <1>7 DEF UpdateTexts
  <2>3. versions' \in [DocumentIds -> Nat]
    BY <2>1, <2>2
  <2> QED
    BY <1>7, <2>3 DEF UpdateTexts
<1>8. CASE CheckParent(e) \/ CheckSlug(e) \/ CheckReferences(e) \/ EditThrows(e)
  <2>1. \E pc : Continue(e, pc)
    BY <1>8 DEF CheckParent, CheckSlug, CheckReferences, EditThrows
  <2> QED
    BY <1>5, <2>1
<1>9. CASE InsertCategory(e) \/ InsertAuthor(e) \/ InsertPublisher(e)
  BY <1>5, <1>6, <1>9 DEF InsertCategory, InsertAuthor, InsertPublisher, Kinds
<1>10. CASE UpdateCategory(e) \/ UpdateAuthor(e) \/ UpdatePublisher(e)
  BY <1>2, <1>7, <1>10 DEF UpdateCategory, UpdateAuthor, UpdatePublisher
<1>11. CASE StoreBook(e)
  <2>1. UNCHANGED <<versions, parents, rows, readers, edits>>
    BY <1>11 DEF StoreBook
  <2>2. CASE editors[e].id = None
    <3>1. /\ Len(books) < MaxBooks
          /\ \E book : books' = Append(books, book)
      BY <1>11, <2>2 DEF StoreBook
    <3>2. Len(books') = Len(books) + 1
      BY <3>1 DEF CatalogueInv
    <3> QED
      BY <1>1, <2>1, <3>1, <3>2
  <2>3. CASE editors[e].id # None
    <3>1. \E book : books' = [books EXCEPT ![editors[e].id] = book]
      BY <1>11, <2>3 DEF StoreBook
    <3>2. Len(books') = Len(books)
      BY <3>1 DEF CatalogueInv
    <3> QED
      BY <2>1, <3>2
  <2> QED
    BY <2>2, <2>3
<1> QED
  BY <1>4, <1>8, <1>9, <1>10, <1>11 DEF EditStep

LEMMA CountVoteKeepsRows ==
  ASSUME CatalogueInv, RowInv, NEW b \in BookIds, CountVote(b)
  PROVE  /\ Len(books') <= MaxBooks
         /\ edits' \in 0 .. MaxEdits
         /\ UNCHANGED <<versions, parents, rows, readers>>
PROOF
<1>1. \E book : books' = [books EXCEPT ![b] = book]
  BY DEF CountVote
<1>2. Len(books') = Len(books)
  BY <1>1 DEF CatalogueInv
<1> QED
  BY <1>2, NumbersAssumption DEF CountVote, RowInv

(* A request for a row changes its reader, or it stores the row of its reader. *)
LEMMA ReaderMoves ==
  ASSUME CatalogueInv, RowInv, NEW g \in Readers, NEW reader \in Reader,
         readers' = [readers EXCEPT ![g] = reader],
         reader.pc = "caching" /\ reader.key.sort = "FAVORITES" => InOrder(reader.row),
         UNCHANGED <<versions, parents, books, rows, edits>>
  PROVE  RowInv'
PROOF
<1>1. readers' \in [Readers -> Reader]
  BY DEF RowInv
<1>2. \A h \in Readers : readers'[h].pc = "caching" /\ readers'[h].key.sort = "FAVORITES" =>
                           InOrder(readers'[h].row)
  BY DEF RowInv
<1>3. FavouritesOrdered'
  BY DEF RowInv, FavouritesOrdered
<1> QED
  BY <1>1, <1>2, <1>3 DEF RowInv, InOrder

LEMMA ReadStepKeepsRows ==
  ASSUME CatalogueInv, RowInv, NEW g \in Readers,
         FindCategories(g) \/ FindFilter(g) \/ FindMostVotes(g) \/ FindBooks(g) \/ ReadThrows(g)
  PROVE  RowInv'
PROOF
<1>1. readers[g] \in Reader
  BY DEF RowInv
<1> DEFINE c == readers[g].key.category
<1>2. CASE ReadThrows(g)
  BY <1>2, NoReadType, ReaderMoves DEF ReadThrows
<1>3. CASE FindCategories(g)
  <2> DEFINE found == IF c = None THEN {} ELSE Subtree(c)
             reader == [readers[g] EXCEPT !.pc = "author", !.categories = found]
  <2>1. found \in SUBSET CategoryIds
    <3>1. c \in CategoryIds \cup {None}
      BY <1>1 DEF Reader, RowKey
    <3> QED
      BY <3>1 DEF Subtree, Children
  <2> HIDE DEF found
  <2>2. reader \in Reader /\ reader.pc = "author"
    BY <1>1, <2>1 DEF Reader
  <2>3. \/ readers' = [readers EXCEPT ![g] = NoRead]
        \/ readers' = [readers EXCEPT ![g] = reader]
    BY <1>3 DEF FindCategories, found
  <2>4. UNCHANGED <<versions, parents, books, rows, edits>>
    BY <1>3 DEF FindCategories
  <2> HIDE DEF reader
  <2> QED
    BY <2>2, <2>3, <2>4, NoReadType, ReaderMoves
<1>4. CASE FindFilter(g)
  <2> DEFINE reader(pc) == [readers[g] EXCEPT !.pc = pc]
  <2>1. \A pc \in {"publisher", "votes"} : reader(pc) \in Reader /\ reader(pc).pc = pc
    BY <1>1 DEF Reader
  <2>2. \/ readers' = [readers EXCEPT ![g] = NoRead]
        \/ \E pc \in {"publisher", "votes"} : readers' = [readers EXCEPT ![g] = reader(pc)]
    BY <1>4 DEF FindFilter
  <2>3. UNCHANGED <<versions, parents, books, rows, edits>>
    BY <1>4 DEF FindFilter
  <2> HIDE DEF reader
  <2> QED
    BY <2>1, <2>2, <2>3, NoReadType, ReaderMoves
<1>5. CASE FindMostVotes(g)
  <2> DEFINE most == IF readers[g].key.sort = "FAVORITES" THEN MostVotes ELSE 0
             reader == [readers[g] EXCEPT !.pc = "books", !.maxVotesCount = most]
  <2>1. most \in Nat
    BY MostVotesNumber DEF CatalogueInv
  <2>2. readers' = [readers EXCEPT ![g] = reader]
    BY <1>5 DEF FindMostVotes, RowInv
  <2> HIDE DEF most
  <2>3. reader \in Reader /\ reader.pc = "books"
    BY <1>1, <2>1 DEF Reader
  <2>4. UNCHANGED <<versions, parents, books, rows, edits>>
    BY <1>5 DEF FindMostVotes
  <2> HIDE DEF reader
  <2> QED
    BY <2>2, <2>3, <2>4, ReaderMoves
<1>6. CASE FindBooks(g)
  <2> DEFINE row == FoundRow(readers[g].key, readers[g].categories, readers[g].maxVotesCount)
             reader == [readers[g] EXCEPT !.pc = "caching", !.row = row]
  <2>1. row \in Seq(Entry) /\ (readers[g].key.sort = "FAVORITES" => InOrder(row))
    <3>1. readers[g].maxVotesCount \in Nat
      BY <1>1 DEF Reader
    <3> QED
      BY <3>1, FoundRowInOrder DEF CatalogueInv, RowInv
  <2>2. \/ readers' = [readers EXCEPT ![g] = NoRead]
        \/ readers' = [readers EXCEPT ![g] = reader]
    BY <1>6 DEF FindBooks
  <2> HIDE DEF row
  <2>3. reader \in Reader /\ reader.row = row /\ reader.key = readers[g].key
    BY <1>1, <2>1 DEF Reader
  <2>4. UNCHANGED <<versions, parents, books, rows, edits>>
    BY <1>6 DEF FindBooks
  <2> HIDE DEF reader
  <2> QED
    BY <2>1, <2>2, <2>3, <2>4, NoReadType, ReaderMoves
<1> QED
  BY <1>2, <1>3, <1>4, <1>5, <1>6

LEMMA GetRowKeepsRows ==
  ASSUME CatalogueInv, RowInv, NEW g \in Readers, NEW key \in Keys, GetRow(g, key)
  PROVE  RowInv'
PROOF
<1> DEFINE reader == [NoRead EXCEPT !.pc = "category", !.key = key]
<1>1. reader \in Reader /\ reader.pc = "category"
  BY NoReadType, KeysAssumption DEF Reader
<1>2. readers' = [readers EXCEPT ![g] = reader]
  BY DEF GetRow
<1>3. UNCHANGED <<versions, parents, books, rows, edits>>
  BY DEF GetRow
<1> HIDE DEF reader
<1> QED
  BY <1>1, <1>2, <1>3, ReaderMoves

(* A row is stored in the order in which it was found, under the key that it was found for. *)
LEMMA CacheRowKeepsRows ==
  ASSUME CatalogueInv, RowInv, NEW g \in Readers, CacheRow(g)
  PROVE  RowInv'
PROOF
<1>1. readers[g] \in Reader /\ readers[g].row \in Seq(Entry)
  BY DEF RowInv, Reader
<1>2. rows' = [rows EXCEPT ![readers[g].key] = readers[g].row]
        /\ readers' = [readers EXCEPT ![g] = NoRead]
        /\ UNCHANGED <<versions, parents, books, edits>>
  BY DEF CacheRow
<1>3. rows' \in [Keys -> Seq(Entry) \cup {None}]
  BY <1>1, <1>2 DEF RowInv
<1>4. readers' \in [Readers -> Reader]
        /\ \A h \in Readers : readers'[h] = readers[h] \/ readers'[h].pc = "idle"
  BY <1>2, NoReadType DEF RowInv
<1>5. FavouritesOrdered'
  <2> SUFFICES ASSUME NEW key \in Keys, key.sort = "FAVORITES", rows'[key] # None
               PROVE  InOrder(rows'[key])
    BY DEF FavouritesOrdered, InOrder
  <2>1. CASE key = readers[g].key
    BY <1>2, <2>1 DEF RowInv, CacheRow
  <2>2. CASE key # readers[g].key
    <3>1. rows'[key] = rows[key]
      BY <1>2, <2>2 DEF RowInv
    <3> QED
      BY <3>1 DEF RowInv, FavouritesOrdered, InOrder
  <2> QED
    BY <2>1, <2>2
<1>6. \A h \in Readers : readers'[h].pc = "caching" /\ readers'[h].key.sort = "FAVORITES" =>
                           InOrder(readers'[h].row)
  BY <1>4 DEF RowInv
<1> QED
  BY <1>2, <1>3, <1>4, <1>5, <1>6 DEF RowInv, InOrder

LEMMA ExpireRowKeepsRows ==
  ASSUME RowInv, NEW key \in Keys, ExpireRow(key)
  PROVE  RowInv'
PROOF
<1>1. rows' = [rows EXCEPT ![key] = None] /\ UNCHANGED <<versions, parents, books, readers, edits>>
  BY DEF ExpireRow
<1>2. rows' \in [Keys -> Seq(Entry) \cup {None}]
  BY <1>1 DEF RowInv
<1>3. \A k \in Keys : rows'[k] # None => rows'[k] = rows[k]
  BY <1>1 DEF RowInv
<1>4. FavouritesOrdered'
  BY <1>3 DEF RowInv, FavouritesOrdered
<1> QED
  BY <1>1, <1>2, <1>4 DEF RowInv, InOrder

LEMMA NextKeepsRows ==
  ASSUME CatalogueInv, RowInv, [CatalogueNext]_catalogueVars
  PROVE  RowInv'
PROOF
<1>1. ASSUME /\ versions' \in [DocumentIds -> Nat]
             /\ parents' \in [CategoryIds -> CategoryIds \cup {Unknown, None}]
             /\ Len(books') <= MaxBooks
             /\ edits' \in 0 .. MaxEdits
             /\ UNCHANGED <<rows, readers>>
      PROVE  RowInv'
  BY <1>1 DEF RowInv, FavouritesOrdered, InOrder
<1>2. ASSUME NEW e \in Editors, BeginEdit(e) \/ EditStep(e) \/ EditThrows(e)
      PROVE  RowInv'
  BY <1>1, <1>2, EditsOfRows
<1>3. ASSUME NEW b \in BookIds, CountVote(b)
      PROVE  RowInv'
  BY <1>1, <1>3, CountVoteKeepsRows DEF RowInv
<1>4. ASSUME NEW g \in Readers,
             (\E key \in Keys : GetRow(g, key)) \/ ReadStep(g) \/ ReadThrows(g)
      PROVE  RowInv'
  BY <1>4, GetRowKeepsRows, ReadStepKeepsRows, CacheRowKeepsRows DEF ReadStep
<1>5. CASE UNCHANGED catalogueVars
  BY <1>1, <1>5 DEF catalogueVars, RowInv
<1> QED
  BY <1>2, <1>3, <1>4, <1>5, ExpireRowKeepsRows DEF CatalogueNext

(* In every run the rows that getRowBooks caches are rows of findBooksResult, and those *)
(* of favourites, on their way to Redis and in it, are in order: RowInv.                *)
THEOREM RowInvariant == CatalogueSpec => []RowInv
PROOF
<1> QED
  BY CatalogueInvariant, InitRows, NextKeepsRows, PTL DEF CatalogueSpec

(* Every variable of the catalogue keeps its type, whatever the handlers of            *)
(* category.service.ts, author.service.ts, publisher.service.ts and book.service.ts do. *)
THEOREM CatalogueTypes == CatalogueSpec => []CatalogueTypeOK
PROOF
<1>1. CatalogueInv /\ RowInv => CatalogueTypeOK
  BY DEF CatalogueInv, RowInv, CatalogueTypeOK
<1> QED
  BY <1>1, CatalogueInvariant, RowInvariant, PTL

(* In no cached row of favourites does a book stand behind one with fewer votes and a *)
(* lower rating, however stale the most votes that findBooksResult weighed them with.  *)
THEOREM FavouritesOrderedTheorem == CatalogueSpec => []FavouritesOrdered
PROOF
<1>1. RowInv => FavouritesOrdered
  BY DEF RowInv
<1> QED
  BY <1>1, RowInvariant, PTL
=============================================================================
