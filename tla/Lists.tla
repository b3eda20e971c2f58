------------------------------- MODULE Lists -------------------------------
(***************************************************************************)
(* The paged lists of the user and product services: users, login history, *)
(* active logins, categories, authors, publishers and books.  A handler    *)
(* checks the documents that its filter names one after the other, then    *)
(* sends two queries, one for the page and one for the total, and waits    *)
(* for both.  A client walks a list page by page while other requests      *)
(* insert and change documents between any two of these queries.           *)
(*                                                                         *)
(* A document is the set of marks that filters look for: the user of a     *)
(* token, that it is active and when it expires; the categories, authors,  *)
(* publisher and year of a book.  A later document has a larger _id, here  *)
(* its index.  Lists are sorted by _id, the newest first; so are books by  *)
(* BEST_SELLERS, since nothing writes salesCount.  FAVORITES, whose order  *)
(* votes change, is in Catalogue.                                          *)
(***************************************************************************)
EXTENDS Integers, Sequences, FiniteSets, SequencesExt

CONSTANTS
  Categories, Authors, Publishers, Years,
  Users,             \* the users that have tokens
  Reader,            \* the one of them who asks for their logins
  Active,            \* the mark of a token that isActive
  Ttl,               \* life of a refresh token
  StoredReferences,  \* categories, authors and publishers there are at the start
  StoredBooks, StoredTokens,  \* the documents at the start, by _id
  StoredPlain,       \* and how many users, categories, authors and publishers
  BookMarks,         \* the sets of marks that books are given
  BookQueries,       \* the filters that clients ask for
  Limits,            \* page lengths that clients ask for
  MaxDocuments, MaxChanges, MaxTime,
  None

References == Categories \cup Authors \cup Publishers

Marks == References \cup Years \cup Users \cup {Active} \cup 0 .. MaxTime + Ttl

Ids == 1 .. MaxDocuments

Query == [category : Categories \cup {None}, author : Authors \cup {None},
          publisher : Publishers \cup {None}, year : Years \cup {None}]

ASSUME ListsAssumption ==
  /\ MaxDocuments \in Nat /\ MaxChanges \in Nat /\ MaxTime \in Nat /\ Ttl \in Nat
  /\ Limits \subseteq Nat \ {0}
  /\ Reader \in Users
  /\ BookQueries \subseteq Query
  /\ BookMarks \subseteq SUBSET Marks
  /\ None \notin Marks \cup 0 .. MaxDocuments /\ None \notin Seq(Ids)

ASSUME StoredAssumption ==
  /\ StoredReferences \subseteq References
  /\ StoredBooks \in Seq(SUBSET Marks) /\ Len(StoredBooks) <= MaxDocuments
  /\ StoredTokens \in Seq(SUBSET Marks) /\ Len(StoredTokens) <= MaxDocuments
  /\ StoredPlain \in 0 .. MaxDocuments

VARIABLES
  list,       \* which of the lists is walked
  documents,  \* its collection, by _id
  existing,   \* categories, authors and publishers that there are
  parents,    \* [Categories -> Categories \cup {None}]
  now,
  changes,    \* changes of other requests so far, at most MaxChanges
  query,      \* what the client asks for: its filter
  limit,      \* and how long a page
  request,    \* the request for the next page
  walk        \* what the client has got, and how the list changed meanwhile

listsVars == <<list, documents, existing, parents, now, changes,
               query, limit, request, walk>>

PlainLists == {"users", "categories", "authors", "publishers"}

TokenLists == {"history", "logins"}

(* todo are the documents still to be checked; found and total the answers of the  *)
(* two queries, drift the changes between them.                                    *)
Request == [pc : {"asking", "handling", "done", "refused", "failed"},
            filter : SUBSET SUBSET Marks,
            todo : Seq(References),
            found : Seq(Ids) \cup {None},
            total : 0 .. MaxDocuments \cup {None},
            drift : Nat]

(* seen are the documents on the pages so far; listed those that the last page's   *)
(* query matched, stayed those that every page's did; left and joined count those  *)
(* that stopped and began to match between pages.                                  *)
Walk == [seen : Seq(Ids), listed : SUBSET Ids, stayed : SUBSET Ids, left : Nat, joined : Nat]

ListsTypeOK ==
  /\ list \in PlainLists \cup TokenLists \cup {"books"}
  /\ documents \in Seq(SUBSET Marks) /\ Len(documents) <= MaxDocuments
  /\ existing \subseteq References
  /\ parents \in [Categories -> Categories \cup {None}]
  /\ now \in 0 .. MaxTime
  /\ changes \in 0 .. MaxChanges
  /\ query \in Query
  /\ limit \in Limits
  /\ request \in Request
  /\ request.found # None => Len(request.found) <= limit
  /\ walk \in Walk

NoRequest == [pc |-> "asking", filter |-> {}, todo |-> << >>,
              found |-> None, total |-> None, drift |-> 0]

NoQuery == [category |-> None, author |-> None, publisher |-> None, year |-> None]

ListsInit ==
  /\ list \in PlainLists \cup TokenLists \cup {"books"}
  /\ documents = CASE list \in PlainLists -> [i \in 1 .. StoredPlain |-> {}]
                   [] list \in TokenLists -> StoredTokens
                   [] list = "books"      -> StoredBooks
  /\ existing = StoredReferences
  /\ parents = [c \in Categories |-> None]
  /\ now = 0
  /\ changes = 0
  /\ query \in IF list = "books" THEN BookQueries ELSE {NoQuery}
  /\ limit \in Limits
  /\ request = NoRequest
  /\ walk = [seen |-> << >>, listed |-> {}, stayed |-> {}, left |-> 0, joined |-> 0]
-----------------------------------------------------------------------------
(* The handlers, up to their queries.  fixed is the part of the filter that the    *)
(* code writes down at once, references the documents that it looks up first.      *)
Ask(name, fixed, references) ==
  /\ list = name
  /\ request.pc = "asking"
  /\ request' = [request EXCEPT !.pc = "handling", !.filter = fixed, !.todo = references]
  /\ UNCHANGED <<list, documents, existing, parents, now, changes, query, limit, walk>>

GetUsersList == Ask("users", {}, << >>)

GetCategoriesList == Ask("categories", {}, << >>)

GetAuthorsList == Ask("authors", {}, << >>)

GetPublishersList == Ask("publishers", {}, << >>)

GetLoginHistory == Ask("history", {{Reader}}, << >>)

GetActiveLogins ==
  Ask("logins", {{Reader}, {Active}, now + 1 .. MaxTime + Ttl}, << >>)

Named(reference) == IF reference = None THEN << >> ELSE <<reference>>

GetBooksList ==
  Ask("books", {{y} : y \in {query.year} \ {None}},
      Named(query.category) \o Named(query.author) \o Named(query.publisher))

(* The marks that a document named by the query stands for: a category stands for  *)
(* itself, if there is one, and its children; an author or publisher for itself.   *)
Stands(r) == {r2 \in existing : r2 = r \/ (r2 \in Categories /\ parents[r2] = r)}

CheckReference ==
  /\ request.pc = "handling" /\ request.todo # << >>
  /\ Stands(Head(request.todo)) # {}
  /\ request' = [request EXCEPT !.filter = @ \cup {Stands(Head(request.todo))},
                                !.todo = Tail(@)]
  /\ UNCHANGED <<list, documents, existing, parents, now, changes, query, limit, walk>>

(* Not found category, author or publisher: 400. *)
RefuseRequest ==
  /\ request.pc = "handling" /\ request.todo # << >>
  /\ Stands(Head(request.todo)) = {}
  /\ request' = [NoRequest EXCEPT !.pc = "refused"]
  /\ UNCHANGED <<list, documents, existing, parents, now, changes, query, limit, walk>>

(* A query of the handler fails: 500. *)
FailRequest ==
  /\ request.pc = "handling"
  /\ request' = [NoRequest EXCEPT !.pc = "failed"]
  /\ UNCHANGED <<list, documents, existing, parents, now, changes, query, limit, walk>>
-----------------------------------------------------------------------------
(* The two queries, which Promise.all lets run in either order. *)
Matching == {d \in DOMAIN documents : \A marks \in request.filter : documents[d] \cap marks # {}}

Newer(ids, d) == {d2 \in ids : d2 > d}

NewestFirst(ids) ==
  [i \in 1 .. Cardinality(ids) |-> CHOOSE d \in ids : Cardinality(Newer(ids, d)) = i - 1]

(* Faulty Page: offsets counted from one. *)
PageOffByOne(ids) ==
  SubSeq(NewestFirst(ids), Len(walk.seen) + 2, Min({Len(walk.seen) + limit + 1, Cardinality(ids)}))

(* Faulty Page: the last document of a page opens the next one. *)
PageOverlapping(ids) ==
  LET skipped == Max({Len(walk.seen) - 1, 0})
  IN SubSeq(NewestFirst(ids), skipped + 1, Min({skipped + limit, Cardinality(ids)}))

(* Faulty Page: the limit is dropped. *)
PageWithoutLimit(ids) == SubSeq(NewestFirst(ids), Len(walk.seen) + 1, Cardinality(ids))

(* sort, skip and limit: the client asks for an offset of what it has got. *)
Page(ids) ==
  SubSeq(NewestFirst(ids), Len(walk.seen) + 1, Min({Len(walk.seen) + limit, Cardinality(ids)}))

Reading == request.pc = "handling" /\ request.todo = << >>

Find ==
  /\ Reading /\ request.found = None
  /\ request' = [request EXCEPT !.found = Page(Matching)]
  /\ walk' = [walk EXCEPT
       !.listed = Matching,
       !.stayed = IF walk.seen = << >> THEN Matching ELSE @ \cap Matching,
       !.left   = IF walk.seen = << >> THEN 0 ELSE @ + Cardinality(walk.listed \ Matching),
       !.joined = IF walk.seen = << >> THEN 0 ELSE @ + Cardinality(Matching \ walk.listed)]
  /\ UNCHANGED <<list, documents, existing, parents, now, changes, query, limit>>

(* Faulty CountTotal: countDocuments({}), as the lists without a filter have it. *)
CountAll ==
  /\ Reading /\ request.total = None
  /\ request' = [request EXCEPT !.total = Len(documents)]
  /\ UNCHANGED <<list, documents, existing, parents, now, changes, query, limit, walk>>

CountTotal ==
  /\ Reading /\ request.total = None
  /\ request' = [request EXCEPT !.total = Cardinality(Matching)]
  /\ UNCHANGED <<list, documents, existing, parents, now, changes, query, limit, walk>>

(* The answer.  The client asks for the next page until one is not full. *)
Answer ==
  /\ Reading /\ request.found # None /\ request.total # None
  /\ walk' = [walk EXCEPT !.seen = @ \o request.found]
  /\ request' = [NoRequest EXCEPT
                   !.pc = IF Len(request.found) < limit THEN "done" ELSE "asking"]
  /\ UNCHANGED <<list, documents, existing, parents, now, changes, query, limit>>
-----------------------------------------------------------------------------
(* What other requests write meanwhile; their handlers are in Roles, Login, Otp    *)
(* and Catalogue.                                                                  *)
Change ==
  /\ changes < MaxChanges
  /\ changes' = changes + 1
  /\ request' = [request EXCEPT !.drift =
                   IF (request.found = None) = (request.total = None) THEN @ ELSE @ + 1]
  /\ UNCHANGED <<list, query, limit, walk>>

Insert(marks) ==
  /\ Change
  /\ Len(documents) < MaxDocuments
  /\ documents' = Append(documents, marks)
  /\ UNCHANGED <<existing, parents, now>>

InsertPlain == list \in PlainLists /\ Insert({})

InsertToken(u) == list \in TokenLists /\ Insert({u, Active, now + Ttl})

DeactivateToken(d) ==
  /\ Change
  /\ list \in TokenLists
  /\ Active \in documents[d]
  /\ documents' = [documents EXCEPT ![d] = @ \ {Active}]
  /\ UNCHANGED <<existing, parents, now>>

Tick ==
  /\ Change
  /\ list \in TokenLists
  /\ now < MaxTime
  /\ now' = now + 1
  /\ UNCHANGED <<documents, existing, parents>>

InsertBook(marks) ==
  list = "books" /\ marks \cap References \subseteq existing /\ Insert(marks)

UpdateBook(d, marks) ==
  /\ Change
  /\ list = "books"
  /\ marks \cap References \subseteq existing
  /\ documents' = [documents EXCEPT ![d] = marks]
  /\ UNCHANGED <<existing, parents, now>>

InsertReference(r) ==
  /\ Change
  /\ list = "books"
  /\ r \notin existing
  /\ existing' = existing \cup {r}
  /\ UNCHANGED <<documents, parents, now>>

(* createCategory with a parent or updateCategory with another one. *)
PutCategory(c, parent) ==
  /\ Change
  /\ list = "books"
  /\ parent # c
  /\ existing' = existing \cup {c}
  /\ parents' = [parents EXCEPT ![c] = parent]
  /\ UNCHANGED <<documents, now>>
-----------------------------------------------------------------------------
ListsNext ==
  \/ GetUsersList \/ GetCategoriesList \/ GetAuthorsList \/ GetPublishersList
  \/ GetLoginHistory \/ GetActiveLogins \/ GetBooksList
  \/ CheckReference \/ RefuseRequest \/ FailRequest
  \/ Find \/ CountTotal \/ Answer
  \/ InsertPlain \/ Tick
  \/ \E u \in Users : InsertToken(u)
  \/ \E d \in DOMAIN documents : DeactivateToken(d)
  \/ \E marks \in BookMarks :
       InsertBook(marks) \/ \E d \in DOMAIN documents : UpdateBook(d, marks)
  \/ \E r \in References : InsertReference(r)
  \/ \E c, parent \in Categories : PutCategory(c, parent)

ListsSpec == ListsInit /\ [][ListsNext]_listsVars
-----------------------------------------------------------------------------
SeenIds == ToSet(walk.seen)

(* A walk to the last page misses no more documents that matched all along than    *)
(* documents left the list meanwhile (each pulls the others one place forward,     *)
(* over the offset): without leavers, new documents and moved categories           *)
(* notwithstanding, nothing is skipped between two pages.                          *)
WalkMissesOnlyLeavers ==
  request.pc = "done" => Cardinality(walk.stayed \ SeenIds) <= walk.left

(* The walk goes from the newest document to the oldest, over all its pages.  It    *)
(* shows a document twice, or goes back to one that is not older, only because       *)
(* another joined the list between two pages (each pushes the others one place back, *)
(* behind the offset).                                                               *)
WalkRepeatsOnlyForJoiners ==
  /\ Len(walk.seen) - Cardinality(SeenIds) <= walk.joined
  /\ Cardinality({i \in 2 .. Len(walk.seen) : walk.seen[i] >= walk.seen[i - 1]}) <= walk.joined

(* The total that comes with a page counts the list the page was cut from, up to   *)
(* one for each change between the two queries, which have no common snapshot.     *)
TotalFollowsList ==
  request.found # None /\ request.total # None =>
    /\ request.total - Cardinality(walk.listed) <= request.drift
    /\ Cardinality(walk.listed) - request.total <= request.drift
=============================================================================
