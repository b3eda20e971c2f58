----------------------------- MODULE ListsProofs -----------------------------
(***************************************************************************)
(* Proofs about the paged lists, for any documents, filters, page lengths  *)
(* and changes: what a walk over the pages may miss and show twice, and    *)
(* how far a total may be from its page.  Everything about the walk comes  *)
(* down to one fact about the first n places of a sorted list: no more     *)
(* documents come forward over a place than leave before it.               *)
(***************************************************************************)
EXTENDS Lists, FiniteSetTheorems, SequenceTheorems, TLAPS

(* The first n documents of a list. *)
Top(ids, n) == {d \in ids : Cardinality(Newer(ids, d)) < n}

LEMMA FiniteIds ==
  ASSUME NEW ids \in SUBSET Ids
  PROVE  /\ IsFiniteSet(ids)
         /\ Cardinality(ids) \in Nat
         /\ \A d \in ids : d \in Nat
PROOF
<1>1. IsFiniteSet(Ids) /\ \A d \in Ids : d \in Nat
  BY ListsAssumption, FS_Interval DEF Ids
<1>2. IsFiniteSet(ids)
  BY <1>1, FS_Subset
<1> QED
  BY <1>1, <1>2, FS_CardinalityType

(* A newer document has fewer newer ones. *)
LEMMA NewerCounts ==
  ASSUME NEW ids \in SUBSET Ids, NEW d \in ids
  PROVE  /\ Cardinality(Newer(ids, d)) \in Nat
         /\ Cardinality(Newer(ids, d)) < Cardinality(ids)
         /\ \A x \in ids : x > d => Cardinality(Newer(ids, x)) < Cardinality(Newer(ids, d))
PROOF
<1>1. \A x \in ids : /\ Newer(ids, x) \in SUBSET ids
                     /\ IsFiniteSet(Newer(ids, x)) /\ Cardinality(Newer(ids, x)) \in Nat
  BY FiniteIds DEF Newer
<1>2. d \notin Newer(ids, d)
  BY FiniteIds DEF Newer
<1>3. Cardinality(Newer(ids, d)) <= Cardinality(ids) /\ Cardinality(Newer(ids, d)) # Cardinality(ids)
  BY <1>1, <1>2, FS_Subset, FiniteIds
<1>4. ASSUME NEW x \in ids, x > d
      PROVE  Cardinality(Newer(ids, x)) < Cardinality(Newer(ids, d))
  <2>1. x \in Newer(ids, d) /\ x \notin Newer(ids, x) /\ Newer(ids, x) \in SUBSET Newer(ids, d)
    BY <1>4, FiniteIds DEF Newer
  <2>2. /\ Cardinality(Newer(ids, x)) <= Cardinality(Newer(ids, d))
        /\ Cardinality(Newer(ids, x)) # Cardinality(Newer(ids, d))
    BY <1>1, <2>1, FS_Subset
  <2> QED
    BY <1>1, <2>2
<1> QED
  BY <1>1, <1>3, <1>4, FiniteIds

(* NewestFirst puts every document where the number of newer ones says. *)
LEMMA NewestFirstRow ==
  ASSUME NEW ids \in SUBSET Ids
  PROVE  LET n == Cardinality(ids)
             row == NewestFirst(ids)
         IN  /\ row \in [1 .. n -> ids]
             /\ \A i \in 1 .. n : Cardinality(Newer(ids, row[i])) = i - 1
             /\ \A i, j \in 1 .. n : i < j => row[i] > row[j]
             /\ \A d \in ids : \E i \in 1 .. n : row[i] = d
PROOF
<1> DEFINE n == Cardinality(ids)
           row == NewestFirst(ids)
           place == [d \in ids |-> Cardinality(Newer(ids, d)) + 1]
<1>1. n \in Nat /\ IsFiniteSet(ids)
  BY FiniteIds
<1>2. place \in [ids -> 1 .. n]
  BY <1>1, NewerCounts
<1>3. \A d, x \in ids : x > d => place[x] < place[d]
  BY NewerCounts
<1>4. \A d \in ids : place[d] = Cardinality(Newer(ids, d)) + 1
  OBVIOUS
<1> HIDE DEF place
<1>5. \A d, x \in ids : place[x] = place[d] => x = d
  <2> SUFFICES ASSUME NEW d \in ids, NEW x \in ids, x # d
               PROVE  place[x] < place[d] \/ place[d] < place[x]
    BY <1>2
  <2>1. x > d \/ d > x
    BY FiniteIds
  <2> QED
    BY <1>3, <2>1
<1>6. \A i \in 1 .. n : \E d \in ids : place[d] = i
  <2>1. place \in Injection(ids, 1 .. n)
    BY <1>2, <1>5 DEF Injection, IsInjective
  <2>2. IsFiniteSet(1 .. n) /\ Cardinality(1 .. n) = n
    BY <1>1, FS_Interval
  <2>3. place \in Surjection(ids, 1 .. n)
    BY <2>1, <2>2, FS_Injection
  <2> QED
    BY <2>3 DEF Surjection
<1>7. \A i \in 1 .. n : \E d \in ids : Cardinality(Newer(ids, d)) = i - 1
  BY <1>4, <1>6, NewerCounts
<1>8. /\ row \in [1 .. n -> ids]
      /\ \A i \in 1 .. n : Cardinality(Newer(ids, row[i])) = i - 1
  BY <1>7 DEF NewestFirst
<1> HIDE DEF row
<1>9. \A i \in 1 .. n : row[i] \in ids /\ place[row[i]] = i
  BY <1>4, <1>8
<1>10. \A i, j \in 1 .. n : i < j => row[i] > row[j]
  <2> SUFFICES ASSUME NEW i \in 1 .. n, NEW j \in 1 .. n, i < j
               PROVE  row[i] > row[j]
    OBVIOUS
  <2>1. row[i] \in ids /\ row[j] \in ids /\ place[row[i]] = i /\ place[row[j]] = j
    BY <1>9
  <2>2. row[i] \in Nat /\ row[j] \in Nat
    BY <2>1, FiniteIds
  <2>3. ~ row[j] > row[i] /\ row[i] # row[j]
    BY <1>3, <2>1
  <2> QED
    BY <2>2, <2>3
<1>11. \A d \in ids : \E i \in 1 .. n : row[i] = d
  <2> SUFFICES ASSUME NEW d \in ids PROVE \E i \in 1 .. n : row[i] = d
    OBVIOUS
  <2>1. place[d] \in 1 .. n /\ row[place[d]] = d
    BY <1>2, <1>5, <1>9
  <2> QED
    BY <2>1
<1> QED
  BY <1>8, <1>10, <1>11 DEF row

(* The first n documents of a list are n, or all. *)
LEMMA TopCounts ==
  ASSUME NEW ids \in SUBSET Ids, NEW n \in Nat
  PROVE  /\ Top(ids, n) \in SUBSET ids
         /\ Cardinality(Top(ids, n)) \in Nat
         /\ Cardinality(Top(ids, n)) <= n
         /\ Top(ids, n) # ids => Cardinality(Top(ids, n)) = n
         /\ Cardinality(ids) <= n => Top(ids, n) = ids
PROOF
<1> DEFINE row == NewestFirst(ids)
           last == IF Cardinality(ids) < n THEN Cardinality(ids) ELSE n
           top == Top(ids, n)
           first == [i \in 1 .. last |-> row[i]]
<1>1. Cardinality(ids) \in Nat
  BY FiniteIds
<1>2. /\ row \in [1 .. Cardinality(ids) -> ids]
      /\ \A i \in 1 .. Cardinality(ids) : Cardinality(Newer(ids, row[i])) = i - 1
      /\ \A i, j \in 1 .. Cardinality(ids) : i < j => row[i] > row[j]
      /\ \A d \in ids : \E i \in 1 .. Cardinality(ids) : row[i] = d
  BY NewestFirstRow
<1> HIDE DEF row
<1>3. last \in Nat /\ last <= n /\ last <= Cardinality(ids)
      /\ (last = n \/ last = Cardinality(ids))
  BY <1>1
<1>4. top \in SUBSET ids
  BY DEF Top
<1>5. \A i \in 1 .. Cardinality(ids) : row[i] \in top <=> i <= n
  BY <1>1, <1>2 DEF Top
<1> HIDE DEF top
<1>6. \A i \in 1 .. Cardinality(ids) : row[i] \in top <=> i <= last
  BY <1>1, <1>5 
<1> HIDE DEF last
<1>7. first \in Bijection(1 .. last, top)
  <2>1. first \in [1 .. last -> top]
    BY <1>1, <1>3, <1>6
  <2>2. \A i, j \in 1 .. last : first[i] = first[j] => i = j
    <3> SUFFICES ASSUME NEW i \in 1 .. last, NEW j \in 1 .. last, i < j
                 PROVE  row[i] # row[j]
      BY <1>3
    <3>1. i \in 1 .. Cardinality(ids) /\ j \in 1 .. Cardinality(ids)
      BY <1>1, <1>3
    <3>2. row[i] > row[j] /\ row[i] \in ids /\ row[j] \in ids
      BY <1>2, <3>1
    <3>3. row[i] \in Nat /\ row[j] \in Nat
      BY <3>2, FiniteIds
    <3> QED
      BY <3>2, <3>3
  <2>3. \A d \in top : \E i \in 1 .. last : first[i] = d
    BY <1>2, <1>4, <1>6
  <2> HIDE DEF first
  <2> QED
    BY <2>1, <2>2, <2>3 DEF Bijection, Injection, Surjection, IsInjective
<1>8. Cardinality(top) = last
  <2>1. IsFiniteSet(1 .. last) /\ Cardinality(1 .. last) = last
    BY <1>3, FS_Interval
  <2>2. ExistsBijection(1 .. last, top)
    BY <1>7 DEF ExistsBijection
  <2> QED
    BY <2>1, <2>2, FS_Bijection
<1>9. top # ids => last = n
  <2> SUFFICES ASSUME last # n PROVE top = ids
    OBVIOUS
  <2>1. last = Cardinality(ids)
    BY <1>3
  <2>2. \A i \in 1 .. Cardinality(ids) : row[i] \in top
    BY <1>1, <1>6, <2>1
  <2> QED
    BY <1>2, <1>4, <2>2
<1>10. Cardinality(ids) <= n => top = ids
  <2> SUFFICES ASSUME Cardinality(ids) <= n PROVE ids \subseteq top
    BY <1>4
  <2>1. \A i \in 1 .. Cardinality(ids) : row[i] \in top
    BY <1>1, <1>5
  <2> QED
    BY <1>2, <2>1
<1> QED
  BY <1>3, <1>4, <1>8, <1>9, <1>10 DEF top

(* Of the documents behind the first n, no more come among them than leave from there. *)
LEMMA FewComeForward ==
  ASSUME NEW old \in SUBSET Ids, NEW new \in SUBSET Ids, NEW n \in Nat
  PROVE  Cardinality(Top(new, n) \cap (old \ Top(old, n)))
           <= Cardinality((old \ new) \cap Top(old, n))
PROOF
<1> DEFINE top == Top(old, n)
           newTop == Top(new, n)
           forward == newTop \cap (old \ top)
           leaving == (old \ new) \cap top
<1>1. /\ top \in SUBSET Ids /\ newTop \in SUBSET Ids
      /\ top \in SUBSET old /\ newTop \in SUBSET new
      /\ Cardinality(newTop) \in Nat /\ Cardinality(newTop) <= n
      /\ top # old => Cardinality(top) = n
  BY TopCounts
<1>2. IsFiniteSet(forward) /\ IsFiniteSet(leaving)
        /\ Cardinality(forward) \in Nat /\ Cardinality(leaving) \in Nat
  BY <1>1, FiniteIds
<1>3. CASE forward = {}
  BY <1>2, <1>3, FS_EmptySet
<1>4. ASSUME NEW x \in forward
      PROVE  Cardinality(forward) <= Cardinality(leaving)
  <2>1. x \in old /\ x \notin top /\ x \in newTop /\ x \in new
    BY <1>1
  <2>2. \A d \in top : d > x
    <3> SUFFICES ASSUME NEW d \in top, ~ d > x PROVE FALSE
      OBVIOUS
    <3>1. d \in old /\ d # x /\ x \in Nat /\ d \in Nat
      BY <1>1, <2>1, FiniteIds
    <3>2. x > d
      BY <3>1, <1>4
    <3>3. /\ Cardinality(Newer(old, x)) \in Nat /\ Cardinality(Newer(old, d)) \in Nat
          /\ Cardinality(Newer(old, x)) < Cardinality(Newer(old, d))
      BY <2>1, <3>1, <3>2, NewerCounts
    <3>4. Cardinality(Newer(old, d)) < n
      BY DEF Top
    <3> QED
      BY <2>1, <3>3, <3>4 DEF Top
  <2>3. \A d \in new : d > x => d \in newTop
    <3> SUFFICES ASSUME NEW d \in new, d > x PROVE d \in newTop
      OBVIOUS
    <3>1. /\ Cardinality(Newer(new, x)) \in Nat /\ Cardinality(Newer(new, d)) \in Nat
          /\ Cardinality(Newer(new, d)) < Cardinality(Newer(new, x))
      BY <2>1, NewerCounts
    <3>2. Cardinality(Newer(new, x)) < n
      BY <2>1 DEF Top
    <3> QED
      BY <3>1, <3>2 DEF Top
  <2> HIDE DEF top, newTop
  <2>4. top \subseteq leaving \cup (newTop \ forward)
    BY <1>1, <2>2, <2>3
  <2>5. /\ newTop \ forward \in SUBSET Ids
        /\ Cardinality(newTop \ forward) = Cardinality(newTop) - Cardinality(forward)
    <3>1. newTop \cap forward = forward
      OBVIOUS
    <3> QED
      BY <1>1, <3>1, FiniteIds, FS_Difference
  <2>6. Cardinality(top) = n /\ Cardinality(top) \in Nat
    BY <1>1, <2>1
  <2>7. /\ Cardinality(leaving \cup (newTop \ forward)) <= 
             Cardinality(leaving) + Cardinality(newTop \ forward)
        /\ IsFiniteSet(leaving \cup (newTop \ forward))
    <3>1. IsFiniteSet(newTop \ forward)
      BY <2>5, FiniteIds
    <3>2. leaving \cap (newTop \ forward) \in SUBSET Ids
      BY <2>5
    <3>3. Cardinality(leaving \cap (newTop \ forward)) \in Nat
      BY <3>2, FiniteIds
    <3>4. Cardinality(newTop \ forward) \in Nat
      BY <2>5, FiniteIds
    <3> HIDE DEF forward, leaving
    <3>5. /\ IsFiniteSet(leaving \cup (newTop \ forward))
          /\ Cardinality(leaving \cup (newTop \ forward)) =
               Cardinality(leaving) + Cardinality(newTop \ forward)
                 - Cardinality(leaving \cap (newTop \ forward))
      BY <1>2, <3>1, FS_Union
    <3> QED
      BY <1>2, <3>3, <3>4, <3>5
  <2>8. Cardinality(top) <= Cardinality(leaving \cup (newTop \ forward))
    <3> HIDE DEF forward, leaving
    <3> QED
      BY <2>4, <2>7, FS_Subset
  <2>9. Cardinality(leaving \cup (newTop \ forward)) \in Nat
    BY <2>7, FS_CardinalityType
  <2> HIDE DEF forward, leaving
  <2> QED
    BY <1>1, <1>2, <2>5, <2>6, <2>7, <2>8, <2>9
<1> QED
  BY <1>3, <1>4

(* Counting sets of documents. *)
LEMMA CountsAdd ==
  ASSUME NEW a \in SUBSET Ids, NEW b \in SUBSET Ids
  PROVE  /\ Cardinality(a \cup b) <= Cardinality(a) + Cardinality(b)
         /\ a \cap b = {} => Cardinality(a \cup b) = Cardinality(a) + Cardinality(b)
         /\ a \subseteq b => Cardinality(a) <= Cardinality(b)
PROOF
<1>1. /\ IsFiniteSet(a) /\ IsFiniteSet(b)
      /\ Cardinality(a) \in Nat /\ Cardinality(b) \in Nat
      /\ Cardinality(a \cap b) \in Nat
  BY FiniteIds
<1>2. Cardinality(a \cup b) = Cardinality(a) + Cardinality(b) - Cardinality(a \cap b)
  BY <1>1, FS_Union
<1>3. a \cap b = {} => Cardinality(a \cap b) = 0
  BY FS_EmptySet
<1>4. a \subseteq b => Cardinality(a) <= Cardinality(b)
  BY <1>1, FS_Subset
<1> QED
  BY <1>1, <1>2, <1>3, <1>4

(* The documents behind the first n are those that were, but for as many as join the list. *)
LEMMA FewAreAdded ==
  ASSUME NEW old \in SUBSET Ids, NEW new \in SUBSET Ids, NEW n \in Nat
  PROVE  Cardinality((new \ Top(new, n)) \ (old \ Top(old, n))) <= Cardinality(new \ old)
PROOF
<1> DEFINE back == Top(old, n) \cap (new \ Top(new, n))
           joinedTop == (new \ old) \cap Top(new, n)
           joinedRest == (new \ old) \ Top(new, n)
           added == (new \ Top(new, n)) \ (old \ Top(old, n))
<1>1. /\ back \in SUBSET Ids /\ joinedTop \in SUBSET Ids /\ joinedRest \in SUBSET Ids
      /\ added \in SUBSET Ids
  OBVIOUS
<1>2. /\ Cardinality(back) \in Nat /\ Cardinality(joinedTop) \in Nat
      /\ Cardinality(joinedRest) \in Nat /\ Cardinality(added) \in Nat
  BY <1>1, FiniteIds
<1>3. Cardinality(back) <= Cardinality(joinedTop)
  BY FewComeForward
<1>4. added \subseteq back \cup joinedRest
  OBVIOUS
<1>5. new \ old = joinedTop \cup joinedRest /\ joinedTop \cap joinedRest = {}
  OBVIOUS
<1> HIDE DEF back, joinedTop, joinedRest, added
<1>6. Cardinality(new \ old) = Cardinality(joinedTop) + Cardinality(joinedRest)
  BY <1>1, <1>5, CountsAdd
<1>7. /\ back \cup joinedRest \in SUBSET Ids
      /\ Cardinality(back \cup joinedRest) <= Cardinality(back) + Cardinality(joinedRest)
  BY <1>1, CountsAdd
<1>8. Cardinality(added) <= Cardinality(back \cup joinedRest)
  BY <1>1, <1>4, <1>7, CountsAdd
<1>9. Cardinality(back \cup joinedRest) \in Nat
  BY <1>7, FiniteIds
<1>10. Cardinality(added) <= Cardinality(new \ old)
  BY <1>2, <1>3, <1>6, <1>7, <1>8, <1>9
<1> QED
  BY <1>10 DEF added

(* Where a page ends. *)
LEMMA MinOfTwo ==
  ASSUME NEW a \in Int, NEW b \in Int
  PROVE  Min({a, b}) = IF a < b THEN a ELSE b
PROOF
<1> DEFINE min == IF a < b THEN a ELSE b
<1>1. min \in {a, b} /\ \A y \in {a, b} : min <= y
  OBVIOUS
<1>2. \A x \in {a, b} : (\A y \in {a, b} : x <= y) => x = min
  OBVIOUS
<1> QED
  BY <1>1, <1>2 DEF Min

(* A page shows the documents of its places, the newest first. *)
LEMMA PageShows ==
  ASSUME NEW ids \in SUBSET Ids, walk.seen \in Seq(Ids), limit \in Nat \ {0}
  PROVE  LET skip == Len(walk.seen)
             page == Page(ids)
         IN  /\ page \in Seq(ids)
             /\ Len(page) <= limit
             /\ \A i, j \in 1 .. Len(page) : i < j => page[i] > page[j]
             /\ ToSet(page) = Top(ids, skip + limit) \ Top(ids, skip)
             /\ Top(ids, skip + Len(page)) = Top(ids, skip + limit)
             /\ Len(page) < limit => Top(ids, skip + Len(page)) = ids
PROOF
<1> DEFINE skip == Len(walk.seen)
           n == Cardinality(ids)
           row == NewestFirst(ids)
           last == Min({skip + limit, n})
           page == Page(ids)
<1>1. n \in Nat /\ skip \in Nat /\ limit \in Nat /\ limit > 0
  BY FiniteIds
<1>2. /\ row \in [1 .. n -> ids]
      /\ \A i \in 1 .. n : Cardinality(Newer(ids, row[i])) = i - 1
      /\ \A i, j \in 1 .. n : i < j => row[i] > row[j]
      /\ \A d \in ids : \E i \in 1 .. n : row[i] = d
  BY NewestFirstRow
<1>3. page = SubSeq(row, skip + 1, last)
  BY DEF Page
<1>4. last = IF skip + limit < n THEN skip + limit ELSE n
  BY <1>1, MinOfTwo
<1> HIDE DEF skip, n, row, last, page
<1>5. last \in Nat /\ last <= n /\ last <= skip + limit
  BY <1>1, <1>4
<1>6. /\ page \in Seq(ids)
      /\ Len(page) = IF skip + 1 <= last THEN last - skip ELSE 0
      /\ \A i \in 1 .. Len(page) : skip + i \in 1 .. last /\ page[i] = row[skip + i]
  <2>1. skip + 1 \in Int /\ last \in Int /\ \A i \in skip + 1 .. last : row[i] \in ids
    BY <1>1, <1>2, <1>5
  <2>2. /\ page \in Seq(ids)
        /\ Len(page) = IF skip + 1 <= last THEN last - (skip + 1) + 1 ELSE 0
        /\ \A i \in 1 .. last - (skip + 1) + 1 : page[i] = row[skip + 1 + i - 1]
    BY <1>3, <2>1, SubSeqProperties
  <2>3. Len(page) = IF skip + 1 <= last THEN last - skip ELSE 0
    BY <1>1, <1>5, <2>2
  <2>4. ASSUME NEW i \in 1 .. Len(page)
        PROVE  skip + i \in 1 .. last /\ page[i] = row[skip + i]
    <3>1. i \in 1 .. last - (skip + 1) + 1 /\ skip + 1 + i - 1 = skip + i /\ skip + i \in 1 .. last
      BY <1>1, <1>5, <2>3
    <3> QED
      BY <2>2, <3>1
  <2> QED
    BY <2>2, <2>3, <2>4
<1>7. Len(page) \in Nat /\ Len(page) <= limit
  BY <1>1, <1>5, <1>6
<1>8. \A i, j \in 1 .. Len(page) : i < j => page[i] > page[j]
  <2> SUFFICES ASSUME NEW i \in 1 .. Len(page), NEW j \in 1 .. Len(page), i < j
               PROVE  page[i] > page[j]
    OBVIOUS
  <2>1. skip + i \in 1 .. n /\ skip + j \in 1 .. n /\ skip + i < skip + j
    BY <1>1, <1>5, <1>6
  <2> QED
    BY <1>2, <1>6, <2>1
<1>9. \A i \in 1 .. n, m \in Nat : row[i] \in Top(ids, m) <=> i <= m
  <2> SUFFICES ASSUME NEW i \in 1 .. n, NEW m \in Nat
               PROVE  row[i] \in Top(ids, m) <=> i <= m
    OBVIOUS
  <2>1. row[i] \in ids /\ Cardinality(Newer(ids, row[i])) = i - 1
    BY <1>2
  <2> QED
    BY <1>1, <2>1 DEF Top
<1>10. ToSet(page) = Top(ids, skip + limit) \ Top(ids, skip)
  <2>1. ASSUME NEW d \in ToSet(page)
        PROVE  d \in Top(ids, skip + limit) \ Top(ids, skip)
    <3>1. PICK i \in 1 .. Len(page) : d = page[i]
      BY <1>6 DEF ToSet
    <3>2. d = row[skip + i] /\ skip + i \in 1 .. n
      BY <1>1, <1>5, <1>6, <3>1
    <3>3. skip + limit \in Nat /\ skip + i <= skip + limit /\ ~ (skip + i <= skip)
      BY <1>1, <1>5, <1>6, <1>7
    <3> QED
      BY <1>1, <1>9, <3>2, <3>3
  <2>2. ASSUME NEW d \in Top(ids, skip + limit), d \notin Top(ids, skip)
        PROVE  d \in ToSet(page)
    <3>1. PICK i \in 1 .. n : d = row[i]
      BY <1>2 DEF Top
    <3>2. i <= skip + limit /\ ~ (i <= skip)
      BY <1>1, <1>9, <2>2, <3>1
    <3>3. i - skip \in 1 .. Len(page) /\ skip + (i - skip) = i
      BY <1>1, <1>4, <1>6, <3>2
    <3>4. page[i - skip] = d
      BY <1>6, <3>1, <3>3
    <3> QED
      BY <1>6, <3>3, <3>4 DEF ToSet
  <2> QED
    BY <2>1, <2>2
<1>11. \A m \in Nat : n <= m => Top(ids, m) = ids
  BY TopCounts DEF n
<1>12. /\ Top(ids, skip + Len(page)) = Top(ids, skip + limit)
       /\ Len(page) < limit => Top(ids, skip + Len(page)) = ids
  <2>1. CASE Len(page) = limit
    BY <1>7, <2>1
  <2>2. CASE Len(page) # limit
    <3>1. n <= skip + Len(page) /\ n <= skip + limit
      BY <1>1, <1>4, <1>6, <2>2
    <3> QED
      BY <1>1, <1>7, <1>11, <3>1
  <2> QED
    BY <2>1, <2>2
<1> QED
  BY <1>6, <1>7, <1>8, <1>10, <1>12 DEF skip, page

-----------------------------------------------------------------------------
(* Types. *)

(* The documents that a filter matches, by _id. *)
LEMMA MatchingIds ==
  ASSUME ListsTypeOK
  PROVE  /\ Matching \in SUBSET Ids
         /\ Cardinality(Matching) \in 0 .. MaxDocuments
PROOF
<1>1. DOMAIN documents = 1 .. Len(documents) /\ Len(documents) \in Nat
        /\ Len(documents) <= MaxDocuments
  BY DEF ListsTypeOK
<1>2. Matching \in SUBSET Ids
  BY <1>1, ListsAssumption DEF Matching, Ids
<1>3. IsFiniteSet(Ids) /\ Cardinality(Ids) = MaxDocuments
  BY ListsAssumption, FS_Interval DEF Ids
<1>4. Cardinality(Matching) <= MaxDocuments /\ Cardinality(Matching) \in Nat
  BY <1>2, <1>3, FS_Subset, FiniteIds
<1> QED
  BY <1>2, <1>4, ListsAssumption

LEMMA NoRequestType ==
  ASSUME NEW pc \in {"asking", "handling", "done", "refused", "failed"}
  PROVE  /\ [NoRequest EXCEPT !.pc = pc] \in Request
         /\ [NoRequest EXCEPT !.pc = pc].pc = pc
         /\ [NoRequest EXCEPT !.pc = pc].found = None
         /\ [NoRequest EXCEPT !.pc = pc].total = None
         /\ [NoRequest EXCEPT !.pc = pc].todo = << >>
BY EmptySeq DEF NoRequest, Request

LEMMA ListsInitTypes == ListsInit => ListsTypeOK
PROOF
<1> SUFFICES ASSUME ListsInit PROVE ListsTypeOK
  OBVIOUS
<1>1. documents \in Seq(SUBSET Marks) /\ Len(documents) <= MaxDocuments
  <2>1. [i \in 1 .. StoredPlain |-> {}] \in Seq(SUBSET Marks)
          /\ Len([i \in 1 .. StoredPlain |-> {}]) <= MaxDocuments
    BY StoredAssumption, ListsAssumption
  <2>2. CASE list \in PlainLists
    BY <2>1, <2>2 DEF ListsInit, PlainLists, TokenLists
  <2>3. CASE list \in TokenLists
    BY <2>3, StoredAssumption DEF ListsInit, PlainLists, TokenLists
  <2>4. CASE list = "books"
    BY <2>4, StoredAssumption DEF ListsInit, PlainLists, TokenLists
  <2> QED
    BY <2>2, <2>3, <2>4 DEF ListsInit
<1>2. query \in Query
  BY ListsAssumption DEF ListsInit, NoQuery, Query
<1>3. request \in Request /\ request.found = None
  BY DEF ListsInit, NoRequest, Request
<1>4. walk \in Walk
  BY DEF ListsInit, Walk
<1> QED
  BY <1>1, <1>2, <1>3, <1>4, StoredAssumption, ListsAssumption DEF ListsInit, ListsTypeOK

(* The parts of the types that a step leaves alone. *)
LEMMA RequestChanges ==
  ASSUME ListsTypeOK, request' \in Request,
         request'.found # None => Len(request'.found) <= limit,
         walk' \in Walk,
         UNCHANGED <<list, documents, existing, parents, now, changes, query, limit>>
  PROVE  ListsTypeOK'
BY DEF ListsTypeOK

(* A request begins with a filter of marks and references to look up. *)
LEMMA AskTypes ==
  ASSUME ListsTypeOK, NEW name, NEW fixed \in SUBSET SUBSET Marks,
         NEW references \in Seq(References), Ask(name, fixed, references)
  PROVE  ListsTypeOK'
PROOF
<1>1. request' \in Request /\ request'.found = request.found
  BY DEF Ask, ListsTypeOK, Request
<1> QED
  BY <1>1, RequestChanges DEF Ask, ListsTypeOK

AskAny ==
  \/ GetUsersList \/ GetCategoriesList \/ GetAuthorsList \/ GetPublishersList
  \/ GetLoginHistory \/ GetActiveLogins \/ GetBooksList

LEMMA AnyAskTypes ==
  ASSUME ListsTypeOK, AskAny
  PROVE  /\ ListsTypeOK'
         /\ \E name, fixed, references : Ask(name, fixed, references)
PROOF
<1>1. << >> \in Seq(References) /\ {} \in SUBSET SUBSET Marks
  BY EmptySeq
<1>2. ASSUME NEW name, Ask(name, {}, << >>)
      PROVE  ListsTypeOK'
  BY <1>1, <1>2, AskTypes
<1>3. CASE GetLoginHistory
  <2>1. {{Reader}} \in SUBSET SUBSET Marks
    BY ListsAssumption DEF Marks
  <2> QED
    BY <1>1, <1>3, <2>1, AskTypes DEF GetLoginHistory
<1>4. CASE GetActiveLogins
  <2>1. now + 1 .. MaxTime + Ttl \subseteq Marks
    BY ListsAssumption DEF ListsTypeOK, Marks
  <2>2. {{Reader}, {Active}, now + 1 .. MaxTime + Ttl} \in SUBSET SUBSET Marks
    BY <2>1, ListsAssumption DEF Marks
  <2> QED
    BY <1>1, <1>4, <2>2, AskTypes DEF GetActiveLogins
<1>5. CASE GetBooksList
  <2>1. /\ query.category \in Categories \cup {None} /\ query.author \in Authors \cup {None}
        /\ query.publisher \in Publishers \cup {None} /\ query.year \in Years \cup {None}
    BY DEF ListsTypeOK, Query
  <2>2. {{y} : y \in {query.year} \ {None}} \in SUBSET SUBSET Marks
    BY <2>1 DEF Marks
  <2>3. /\ Named(query.category) \in Seq(References)
        /\ Named(query.author) \in Seq(References)
        /\ Named(query.publisher) \in Seq(References)
    <3>1. \A r \in References \cup {None} : Named(r) \in Seq(References)
      BY EmptySeq DEF Named
    <3> QED
      BY <2>1, <3>1 DEF References
  <2>4. Named(query.category) \o Named(query.author) \o Named(query.publisher) \in Seq(References)
    BY <2>3
  <2> QED
    BY <1>5, <2>2, <2>4, AskTypes DEF GetBooksList
<1>6. \E name, fixed, references : Ask(name, fixed, references)
  BY DEF AskAny, GetUsersList, GetCategoriesList, GetAuthorsList, GetPublishersList,
         GetLoginHistory, GetActiveLogins, GetBooksList
<1> QED
  BY <1>2, <1>3, <1>4, <1>5, <1>6
     DEF AskAny, GetUsersList, GetCategoriesList, GetAuthorsList, GetPublishersList

LEMMA HandlerTypes ==
  ASSUME ListsTypeOK, CheckReference \/ RefuseRequest \/ FailRequest \/ CountTotal
  PROVE  ListsTypeOK'
PROOF
<1>1. request \in Request /\ walk \in Walk
  BY DEF ListsTypeOK
<1>2. CASE CheckReference
  <2>1. request.todo \in Seq(References) /\ request.todo # << >>
    BY <1>1, <1>2 DEF CheckReference, Request
  <2>2. Tail(request.todo) \in Seq(References)
    BY <2>1
  <2>3. Stands(Head(request.todo)) \in SUBSET Marks
    BY DEF Stands, ListsTypeOK, References, Marks
  <2>4. request' \in Request /\ request'.found = request.found
    BY <1>1, <1>2, <2>2, <2>3 DEF CheckReference, Request
  <2> QED
    BY <1>1, <1>2, <2>4, RequestChanges DEF CheckReference, ListsTypeOK
<1>3. CASE RefuseRequest
  BY <1>1, <1>3, NoRequestType, RequestChanges DEF RefuseRequest
<1>4. CASE FailRequest
  BY <1>1, <1>4, NoRequestType, RequestChanges DEF FailRequest
<1>5. CASE CountTotal
  <2>1. request' \in Request /\ request'.found = request.found
    BY <1>1, <1>5, MatchingIds DEF CountTotal, Request
  <2> QED
    BY <1>1, <1>5, <2>1, RequestChanges DEF CountTotal, ListsTypeOK
<1> QED
  BY <1>2, <1>3, <1>4, <1>5

LEMMA FindTypes ==
  ASSUME ListsTypeOK, Find
  PROVE  ListsTypeOK'
PROOF
<1>1. request \in Request /\ walk \in Walk
  BY DEF ListsTypeOK
<1>2. /\ walk.seen \in Seq(Ids) /\ walk.listed \in SUBSET Ids /\ walk.stayed \in SUBSET Ids
      /\ walk.left \in Nat /\ walk.joined \in Nat
  BY <1>1 DEF Walk
<1>3. limit \in Nat \ {0} /\ Matching \in SUBSET Ids
  BY ListsAssumption, MatchingIds DEF ListsTypeOK
<1>4. Page(Matching) \in Seq(Ids) /\ Len(Page(Matching)) <= limit
  <2>1. Page(Matching) \in Seq(Matching) /\ Len(Page(Matching)) <= limit
    BY <1>2, <1>3, PageShows
  <2> QED
    BY <1>3, <2>1
<1>5. request' \in Request /\ request'.found = Page(Matching)
  BY <1>1, <1>4 DEF Find, Request
<1>6. walk' \in Walk
  <2>1. walk.listed \ Matching \in SUBSET Ids /\ Matching \ walk.listed \in SUBSET Ids
    BY <1>2, <1>3
  <2>2. /\ walk.left + Cardinality(walk.listed \ Matching) \in Nat
        /\ walk.joined + Cardinality(Matching \ walk.listed) \in Nat
    BY <1>2, <2>1, FiniteIds
  <2>3. \E stayed \in SUBSET Ids, left \in Nat, joined \in Nat :
          walk' = [walk EXCEPT !.listed = Matching, !.stayed = stayed, !.left = left, !.joined = joined]
    BY <1>2, <1>3, <2>2 DEF Find
  <2> QED
    BY <1>1, <1>3, <2>3 DEF Walk
<1> QED
  BY <1>4, <1>5, <1>6, RequestChanges DEF Find

LEMMA AnswerTypes ==
  ASSUME ListsTypeOK, Answer
  PROVE  ListsTypeOK'
PROOF
<1>1. request.found \in Seq(Ids) /\ walk \in Walk /\ walk.seen \in Seq(Ids)
  BY DEF ListsTypeOK, Answer, Request, Walk
<1>2. walk.seen \o request.found \in Seq(Ids)
  BY <1>1
<1>3. walk' \in Walk
  BY <1>1, <1>2 DEF Answer, Walk
<1>4. request' \in Request /\ request'.found = None
  BY NoRequestType DEF Answer
<1> QED
  BY <1>3, <1>4, RequestChanges DEF Answer

(* A change leaves the request but for its drift, and the walk alone. *)
LEMMA ChangeTypes ==
  ASSUME ListsTypeOK, Change
  PROVE  /\ request' \in Request
         /\ request'.pc = request.pc /\ request'.filter = request.filter
         /\ request'.todo = request.todo
         /\ request'.found = request.found /\ request'.total = request.total
         /\ request'.drift = IF (request.found = None) = (request.total = None)
                             THEN request.drift ELSE request.drift + 1
         /\ changes' \in 0 .. MaxChanges
         /\ UNCHANGED <<list, query, limit, walk>>
PROOF
<1>1. request \in Request /\ request.drift \in Nat
  BY DEF ListsTypeOK, Request
<1>2. changes' \in 0 .. MaxChanges
  BY ListsAssumption DEF Change, ListsTypeOK
<1> QED
  BY <1>1, <1>2 DEF Change, Request

LEMMA DocumentsChange ==
  ASSUME ListsTypeOK, Change,
         documents' \in Seq(SUBSET Marks), Len(documents') <= MaxDocuments,
         existing' \subseteq References, parents' \in [Categories -> Categories \cup {None}],
         now' \in 0 .. MaxTime
  PROVE  ListsTypeOK'
BY ChangeTypes DEF ListsTypeOK

(* Whatever is inserted or changed, one document at most begins or ceases to match. *)
OneDocumentChanges ==
  \/ documents' = documents
  \/ \E marks \in SUBSET Marks : Len(documents) < MaxDocuments /\ documents' = Append(documents, marks)
  \/ \E d \in DOMAIN documents, marks \in SUBSET Marks : documents' = [documents EXCEPT ![d] = marks]

LEMMA OneDocumentTypes ==
  ASSUME ListsTypeOK, OneDocumentChanges
  PROVE  documents' \in Seq(SUBSET Marks) /\ Len(documents') <= MaxDocuments
PROOF
<1>1. documents \in Seq(SUBSET Marks) /\ Len(documents) \in Nat /\ Len(documents) <= MaxDocuments
        /\ MaxDocuments \in Nat
  BY ListsAssumption DEF ListsTypeOK
<1>2. ASSUME NEW marks \in SUBSET Marks, Len(documents) < MaxDocuments,
             documents' = Append(documents, marks)
      PROVE  documents' \in Seq(SUBSET Marks) /\ Len(documents') <= MaxDocuments
  BY <1>1, <1>2
<1>3. ASSUME NEW d \in DOMAIN documents, NEW marks \in SUBSET Marks,
             documents' = [documents EXCEPT ![d] = marks]
      PROVE  documents' \in Seq(SUBSET Marks) /\ Len(documents') <= MaxDocuments
  BY <1>1, <1>3
<1> QED
  BY <1>1, <1>2, <1>3 DEF OneDocumentChanges

AnyChange ==
  \/ InsertPlain \/ Tick
  \/ \E u \in Users : InsertToken(u)
  \/ \E d \in DOMAIN documents : DeactivateToken(d)
  \/ \E marks \in BookMarks :
       InsertBook(marks) \/ \E d \in DOMAIN documents : UpdateBook(d, marks)
  \/ \E r \in References : InsertReference(r)
  \/ \E c, parent \in Categories : PutCategory(c, parent)

LEMMA AnyChangeTypes ==
  ASSUME ListsTypeOK, AnyChange
  PROVE  ListsTypeOK' /\ Change /\ OneDocumentChanges
PROOF
<1> USE DEF ListsTypeOK
<1>1. ASSUME NEW marks \in SUBSET Marks, Insert(marks)
      PROVE  ListsTypeOK' /\ Change /\ OneDocumentChanges
  <2>1. Change /\ OneDocumentChanges
    BY <1>1 DEF Insert, OneDocumentChanges
  <2> QED
    BY <1>1, <2>1, OneDocumentTypes, DocumentsChange DEF Insert
<1>2. CASE InsertPlain
  BY <1>1, <1>2 DEF InsertPlain
<1>3. CASE Tick
  <2>1. Change /\ OneDocumentChanges /\ now' \in 0 .. MaxTime
    BY <1>3, ListsAssumption DEF Tick, OneDocumentChanges
  <2> QED
    BY <1>3, <2>1, DocumentsChange DEF Tick
<1>4. ASSUME NEW u \in Users, InsertToken(u)
      PROVE  ListsTypeOK' /\ Change /\ OneDocumentChanges
  <2>1. now + Ttl \in 0 .. MaxTime + Ttl
    BY ListsAssumption
  <2>2. {u, Active, now + Ttl} \in SUBSET Marks
    BY <2>1 DEF Marks
  <2> QED
    BY <1>1, <1>4, <2>2 DEF InsertToken
<1>5. ASSUME NEW d \in DOMAIN documents, DeactivateToken(d)
      PROVE  ListsTypeOK' /\ Change /\ OneDocumentChanges
  <2>1. documents[d] \ {Active} \in SUBSET Marks
    OBVIOUS
  <2>2. Change /\ OneDocumentChanges
    BY <1>5, <2>1 DEF DeactivateToken, OneDocumentChanges
  <2> QED
    BY <1>5, <2>2, OneDocumentTypes, DocumentsChange DEF DeactivateToken
<1>6. ASSUME NEW marks \in BookMarks, InsertBook(marks)
      PROVE  ListsTypeOK' /\ Change /\ OneDocumentChanges
  BY <1>1, <1>6, ListsAssumption DEF InsertBook
<1>7. ASSUME NEW marks \in BookMarks, NEW d \in DOMAIN documents, UpdateBook(d, marks)
      PROVE  ListsTypeOK' /\ Change /\ OneDocumentChanges
  <2>1. Change /\ OneDocumentChanges
    BY <1>7, ListsAssumption DEF UpdateBook, OneDocumentChanges
  <2> QED
    BY <1>7, <2>1, OneDocumentTypes, DocumentsChange DEF UpdateBook
<1>8. ASSUME NEW r \in References, InsertReference(r)
      PROVE  ListsTypeOK' /\ Change /\ OneDocumentChanges
  BY <1>8, DocumentsChange DEF InsertReference, OneDocumentChanges
<1>9. ASSUME NEW c \in Categories, NEW parent \in Categories, PutCategory(c, parent)
      PROVE  ListsTypeOK' /\ Change /\ OneDocumentChanges
  <2>1. existing' \subseteq References /\ parents' \in [Categories -> Categories \cup {None}]
    BY <1>9 DEF PutCategory, References
  <2> QED
    BY <1>9, <2>1, DocumentsChange DEF PutCategory, OneDocumentChanges
<1> QED
  BY <1>2, <1>3, <1>4, <1>5, <1>6, <1>7, <1>8, <1>9 DEF AnyChange

LEMMA ListsNextTypes == ListsTypeOK /\ [ListsNext]_listsVars => ListsTypeOK'
PROOF
<1> SUFFICES ASSUME ListsTypeOK, [ListsNext]_listsVars PROVE ListsTypeOK'
  OBVIOUS
<1>1. CASE UNCHANGED listsVars
  BY <1>1 DEF listsVars, ListsTypeOK
<1>2. CASE ListsNext
  <2>1. \/ AskAny \/ AnyChange \/ Find \/ Answer
        \/ CheckReference \/ RefuseRequest \/ FailRequest \/ CountTotal
    BY <1>2 DEF ListsNext, AskAny, AnyChange
  <2> QED
    BY <2>1, AnyAskTypes, AnyChangeTypes, FindTypes, AnswerTypes, HandlerTypes
<1> QED
  BY <1>1, <1>2

(* A page is never longer than its limit, a total never larger than the collection, a      *)
(* filter holds nothing but marks, whatever findAndCountUsers, getBooksList and the others *)
(* are asked for, and however other requests change documents meanwhile.                   *)
THEOREM ListsTypes == ListsSpec => []ListsTypeOK
PROOF
<1> QED
  BY ListsInitTypes, ListsNextTypes, PTL DEF ListsSpec

-----------------------------------------------------------------------------
(* The total. *)

(* The list as the first of the two queries found it, or the total that it counted, and    *)
(* the list as it is differ by no more than the changes since that query.                  *)
Near(a, b, drift) == a - b <= drift /\ b - a <= drift

DriftInv ==
  /\ request.pc # "handling" => request.found = None /\ request.total = None
  /\ request.todo # << >> => request.found = None /\ request.total = None
  /\ request.found # None /\ request.total = None =>
       Near(Cardinality(walk.listed), Cardinality(Matching), request.drift)
  /\ request.found = None /\ request.total # None =>
       Near(request.total, Cardinality(Matching), request.drift)
  /\ TotalFollowsList

LEMMA OneChangeCounts ==
  ASSUME NEW a \in SUBSET Ids, NEW b \in SUBSET Ids, NEW d, a \ {d} = b \ {d}
  PROVE  Near(Cardinality(a), Cardinality(b), 1)
PROOF
<1>1. /\ IsFiniteSet(a) /\ Cardinality(a) \in Nat
      /\ IsFiniteSet(b) /\ Cardinality(b) \in Nat
  BY FiniteIds
<1>2. /\ Cardinality(a \ {d}) = IF d \in a THEN Cardinality(a) - 1 ELSE Cardinality(a)
      /\ Cardinality(b \ {d}) = IF d \in b THEN Cardinality(b) - 1 ELSE Cardinality(b)
  BY <1>1, FS_RemoveElement
<1> QED
  BY <1>1, <1>2 DEF Near

(* Another request changes whether one document matches. *)
LEMMA ChangeMovesMatching ==
  ASSUME ListsTypeOK, ListsTypeOK', request'.filter = request.filter, OneDocumentChanges
  PROVE  Near(Cardinality(Matching), Cardinality(Matching'), 1)
PROOF
<1>1. documents \in Seq(SUBSET Marks) /\ DOMAIN documents = 1 .. Len(documents)
        /\ Len(documents) \in Nat
  BY DEF ListsTypeOK
<1>2. Matching \in SUBSET Ids /\ Matching' \in SUBSET Ids
  <2>1. Matching' \in SUBSET Ids
    BY MatchingIds, ListsAssumption DEF Matching, Ids, ListsTypeOK
  <2> QED
    BY <2>1, MatchingIds
<1>3. \E d : /\ DOMAIN documents \ {d} = DOMAIN documents' \ {d}
             /\ \A x \in DOMAIN documents \ {d} : documents'[x] = documents[x]
  <2>1. CASE documents' = documents
    BY <2>1
  <2>2. ASSUME NEW marks \in SUBSET Marks, documents' = Append(documents, marks)
        PROVE  /\ DOMAIN documents \ {Len(documents) + 1} = DOMAIN documents' \ {Len(documents) + 1}
               /\ \A x \in DOMAIN documents : documents'[x] = documents[x]
    <3>1. /\ DOMAIN documents' = 1 .. Len(documents) + 1
          /\ \A x \in DOMAIN documents : documents'[x] = documents[x]
      BY <1>1, <2>2
    <3> QED
      BY <1>1, <3>1
  <2>3. ASSUME NEW d \in DOMAIN documents, NEW marks \in SUBSET Marks,
               documents' = [documents EXCEPT ![d] = marks]
        PROVE  /\ DOMAIN documents = DOMAIN documents'
               /\ \A x \in DOMAIN documents \ {d} : documents'[x] = documents[x]
    BY <1>1, <2>3
  <2> QED
    BY <2>1, <2>2, <2>3 DEF OneDocumentChanges
<1>4. PICK d : /\ DOMAIN documents \ {d} = DOMAIN documents' \ {d}
               /\ \A x \in DOMAIN documents \ {d} : documents'[x] = documents[x]
  BY <1>3
<1>5. Matching \ {d} = Matching' \ {d}
  BY <1>4 DEF Matching
<1> QED
  BY <1>2, <1>5, OneChangeCounts

LEMMA DriftOfChange ==
  ASSUME ListsTypeOK, ListsTypeOK', DriftInv, Change, OneDocumentChanges
  PROVE  DriftInv'
PROOF
<1>1. /\ request'.pc = request.pc /\ request'.todo = request.todo
      /\ request'.filter = request.filter
      /\ request'.found = request.found /\ request'.total = request.total
      /\ request'.drift = IF (request.found = None) = (request.total = None)
                          THEN request.drift ELSE request.drift + 1
      /\ walk' = walk
  BY ChangeTypes
<1>2. /\ Cardinality(Matching) \in Int /\ Cardinality(Matching') \in Int
      /\ Near(Cardinality(Matching), Cardinality(Matching'), 1)
  <2>1. Cardinality(Matching') \in Int
    BY MatchingIds, FiniteIds, ListsAssumption DEF Matching, Ids, ListsTypeOK
  <2> QED
    BY <1>1, <2>1, MatchingIds, ChangeMovesMatching, ListsAssumption
<1>3. /\ request.drift \in Nat
      /\ request.total # None => request.total \in Nat
      /\ Cardinality(walk.listed) \in Nat
  <2>1. request \in Request /\ walk \in Walk
    BY DEF ListsTypeOK
  <2> QED
    BY <2>1, FiniteIds, ListsAssumption DEF Request, Walk
<1>4. CASE (request.found = None) = (request.total = None)
  BY <1>1, <1>4 DEF DriftInv, TotalFollowsList
<1>5. CASE request.found # None /\ request.total = None
  <2>1. Near(Cardinality(walk.listed), Cardinality(Matching'), request.drift + 1)
    BY <1>2, <1>3, <1>5 DEF DriftInv, Near
  <2> QED
    BY <1>1, <1>5, <2>1 DEF DriftInv, TotalFollowsList
<1>6. CASE request.found = None /\ request.total # None
  <2>1. Near(request.total, Cardinality(Matching'), request.drift + 1)
    BY <1>2, <1>3, <1>6 DEF DriftInv, Near
  <2> QED
    BY <1>1, <1>6, <2>1 DEF DriftInv, TotalFollowsList
<1> QED
  BY <1>4, <1>5, <1>6

LEMMA DriftOfQueries ==
  ASSUME ListsTypeOK, DriftInv, Find \/ CountTotal
  PROVE  DriftInv'
PROOF
<1>1. /\ request \in Request /\ walk \in Walk /\ request.drift \in Nat
      /\ request.total # None => request.total \in Nat
      /\ Cardinality(walk.listed) \in Nat /\ Cardinality(Matching) \in Nat
  <2>1. request \in Request /\ walk \in Walk
    BY DEF ListsTypeOK
  <2> QED
    BY <2>1, FiniteIds, MatchingIds, ListsAssumption DEF Request, Walk
<1>2. \A n \in Nat : Near(n, n, request.drift)
  BY <1>1 DEF Near
<1>3. CASE Find
  <2>1. /\ request.pc = "handling" /\ request.todo = << >> /\ request.found = None
        /\ request'.pc = "handling" /\ request'.todo = << >>
        /\ request'.filter = request.filter /\ request'.total = request.total
        /\ request'.drift = request.drift
        /\ walk'.listed = Matching /\ documents' = documents
    BY <1>1, <1>3 DEF Find, Reading, Request, Walk
  <2>2. Matching' = Matching
    BY <2>1 DEF Matching
  <2>3. CASE request.total = None
    BY <1>1, <1>2, <2>1, <2>2, <2>3 DEF DriftInv, TotalFollowsList
  <2>4. CASE request.total # None
    BY <1>1, <2>1, <2>2, <2>4 DEF DriftInv, TotalFollowsList, Near
  <2> QED
    BY <2>3, <2>4
<1>4. CASE CountTotal
  <2>1. /\ request.pc = "handling" /\ request.todo = << >> /\ request.total = None
        /\ request'.pc = "handling" /\ request'.todo = << >>
        /\ request'.filter = request.filter /\ request'.found = request.found
        /\ request'.total = Cardinality(Matching) /\ request'.drift = request.drift
        /\ walk' = walk /\ documents' = documents
    BY <1>1, <1>4 DEF CountTotal, Reading, Request
  <2>2. Matching' = Matching
    BY <2>1 DEF Matching
  <2>3. CASE request.found = None
    BY <1>1, <1>2, <2>1, <2>2, <2>3 DEF DriftInv, TotalFollowsList
  <2>4. CASE request.found # None
    BY <1>1, <2>1, <2>2, <2>4 DEF DriftInv, TotalFollowsList, Near
  <2> QED
    BY <2>3, <2>4
<1> QED
  BY <1>3, <1>4

(* A request without answers of its queries owes nothing. *)
LEMMA DriftWithoutAnswers ==
  ASSUME request'.found = None, request'.total = None
  PROVE  DriftInv'
BY DEF DriftInv, TotalFollowsList

LEMMA NextKeepsDrift == ListsTypeOK /\ DriftInv /\ [ListsNext]_listsVars => DriftInv'
PROOF
<1> SUFFICES ASSUME ListsTypeOK, DriftInv, [ListsNext]_listsVars PROVE DriftInv'
  OBVIOUS
<1>1. request \in Request
  BY DEF ListsTypeOK
<1>2. CASE UNCHANGED listsVars
  BY <1>2 DEF listsVars, DriftInv, TotalFollowsList, Matching
<1>3. CASE AskAny
  <2>1. request.found = None /\ request.total = None
          /\ request'.found = request.found /\ request'.total = request.total
    BY <1>1, <1>3, AnyAskTypes DEF Ask, DriftInv, Request
  <2> QED
    BY <2>1, DriftWithoutAnswers
<1>4. CASE AnyChange
  BY <1>4, AnyChangeTypes, DriftOfChange
<1>5. CASE CheckReference
  <2>1. request.found = None /\ request.total = None
          /\ request'.found = request.found /\ request'.total = request.total
    BY <1>1, <1>5 DEF CheckReference, DriftInv, Request
  <2> QED
    BY <2>1, DriftWithoutAnswers
<1>6. CASE RefuseRequest \/ FailRequest \/ Answer
  BY <1>6, NoRequestType, DriftWithoutAnswers DEF RefuseRequest, FailRequest, Answer
<1> QED
  BY <1>2, <1>3, <1>4, <1>5, <1>6, DriftOfQueries DEF ListsNext, AskAny, AnyChange

LEMMA InitDrift == ListsInit => DriftInv
BY DEF ListsInit, DriftInv, NoRequest, TotalFollowsList

(* The total that Promise.all brings with a page counts the list that the page was cut     *)
(* from, up to one for each change between the two queries: the two never drift further,   *)
(* in whichever order the queries run.                                                     *)
THEOREM TotalFollowsListTheorem == ListsSpec => []TotalFollowsList
PROOF
<1>1. DriftInv => TotalFollowsList
  BY DEF DriftInv
<1> QED
  BY <1>1, ListsTypes, InitDrift, NextKeepsDrift, PTL DEF ListsSpec

-----------------------------------------------------------------------------
(* The walk. *)

(* What a page misses, or shows again, of documents that the walk has passed. *)
LEMMA PageMisses ==
  ASSUME NEW seen \in SUBSET Ids, NEW shown \in SUBSET Ids, NEW stayed \in SUBSET Ids,
         NEW old \in SUBSET Ids, NEW new \in SUBSET Ids, NEW n \in Nat, NEW m \in Nat,
         NEW left \in Nat,
         stayed \subseteq old, shown = Top(new, m) \ Top(new, n),
         Cardinality((stayed \cap Top(old, n)) \ seen) <= left
  PROVE  Cardinality((stayed \cap new \cap Top(new, m)) \ (seen \cup shown))
           <= left + Cardinality(old \ new)
PROOF
<1> DEFINE missed == (stayed \cap new \cap Top(new, m)) \ (seen \cup shown)
           before == (stayed \cap Top(old, n)) \ seen
           forward == Top(new, n) \cap (old \ Top(old, n))
           leaving == (old \ new) \cap Top(old, n)
<1>1. /\ missed \in SUBSET Ids /\ before \in SUBSET Ids /\ forward \in SUBSET Ids
      /\ leaving \in SUBSET Ids /\ old \ new \in SUBSET Ids
  BY DEF Top
<1>2. Cardinality(forward) <= Cardinality(leaving)
  BY FewComeForward
<1>3. missed \subseteq before \cup forward /\ leaving \subseteq old \ new
  OBVIOUS
<1>4. Cardinality(before) <= left
  OBVIOUS
<1> HIDE DEF missed, before, forward, leaving
<1>5. /\ Cardinality(missed) \in Nat /\ Cardinality(before) \in Nat
      /\ Cardinality(forward) \in Nat /\ Cardinality(leaving) \in Nat
      /\ Cardinality(old \ new) \in Nat /\ Cardinality(before \cup forward) \in Nat
  BY <1>1, FiniteIds
<1>6. /\ Cardinality(leaving) <= Cardinality(old \ new)
      /\ Cardinality(missed) <= Cardinality(before \cup forward)
      /\ Cardinality(before \cup forward) <= Cardinality(before) + Cardinality(forward)
  BY <1>1, <1>3, CountsAdd
<1>7. Cardinality(missed) <= left + Cardinality(old \ new)
  BY <1>2, <1>4, <1>5, <1>6
<1> QED
  BY <1>7 DEF missed

(* What is shown twice or is on a place to come was on one before, or joined since. *)
LEMMA PageRepeats ==
  ASSUME NEW seen \in SUBSET Ids, NEW shown \in SUBSET Ids,
         NEW old \in SUBSET Ids, NEW new \in SUBSET Ids, NEW n \in Nat, NEW m \in Nat, n <= m,
         shown = Top(new, m) \ Top(new, n)
  PROVE  Cardinality(shown) + Cardinality(seen)
             + Cardinality((seen \cup shown) \cap (new \ Top(new, m)))
           <= Cardinality(seen \cup shown) + Cardinality(seen \cap (old \ Top(old, n)))
                + Cardinality(new \ old)
PROOF
<1> DEFINE again == seen \cap shown
           still == (seen \cup shown) \cap (new \ Top(new, m))
           behind == seen \cap (new \ Top(new, n))
           before == seen \cap (old \ Top(old, n))
           added == (new \ Top(new, n)) \ (old \ Top(old, n))
<1>1. /\ again \in SUBSET Ids /\ still \in SUBSET Ids /\ behind \in SUBSET Ids
      /\ before \in SUBSET Ids /\ added \in SUBSET Ids /\ new \ old \in SUBSET Ids
      /\ seen \cup shown \in SUBSET Ids
  OBVIOUS
<1>2. Cardinality(added) <= Cardinality(new \ old)
  BY FewAreAdded
<1>3. Top(new, n) \subseteq Top(new, m)
  BY NewerCounts DEF Top
<1>4. again \cap still = {} /\ again \cup still \subseteq behind
  BY <1>3 DEF Top
<1>5. behind \subseteq before \cup added
  OBVIOUS
<1>6. Cardinality(seen \cup shown) = Cardinality(seen) + Cardinality(shown) - Cardinality(again)
  BY FiniteIds, FS_Union
<1> HIDE DEF again, still, behind, before, added
<1>7. /\ Cardinality(again) \in Nat /\ Cardinality(still) \in Nat /\ Cardinality(behind) \in Nat
      /\ Cardinality(before) \in Nat /\ Cardinality(added) \in Nat
      /\ Cardinality(new \ old) \in Nat /\ Cardinality(seen \cup shown) \in Nat
      /\ Cardinality(seen) \in Nat /\ Cardinality(shown) \in Nat
  BY <1>1, FiniteIds
<1>8. /\ again \cup still \in SUBSET Ids /\ before \cup added \in SUBSET Ids
      /\ Cardinality(again \cup still) \in Nat /\ Cardinality(before \cup added) \in Nat
  BY <1>1, FiniteIds
<1>9. /\ Cardinality(again \cup still) = Cardinality(again) + Cardinality(still)
      /\ Cardinality(again \cup still) <= Cardinality(behind)
      /\ Cardinality(behind) <= Cardinality(before \cup added)
      /\ Cardinality(before \cup added) <= Cardinality(before) + Cardinality(added)
  BY <1>1, <1>4, <1>5, <1>8, CountsAdd
<1>10. Cardinality(shown) + Cardinality(seen) + Cardinality(still)
         <= Cardinality(seen \cup shown) + Cardinality(before) + Cardinality(new \ old)
  BY <1>2, <1>6, <1>7, <1>8, <1>9
<1> QED
  BY <1>10 DEF still, before

(* Sequences of documents. *)
LEMMA SetOfSequence ==
  ASSUME NEW s \in Seq(Ids), NEW t \in Seq(Ids)
  PROVE  /\ ToSet(s) \in SUBSET Ids /\ ToSet(t) \in SUBSET Ids
         /\ s \o t \in Seq(Ids) /\ Len(s \o t) = Len(s) + Len(t)
         /\ ToSet(s \o t) = ToSet(s) \cup ToSet(t)
         /\ \A i \in 1 .. Len(s) : (s \o t)[i] = s[i]
         /\ \A i \in 1 .. Len(t) : (s \o t)[Len(s) + i] = t[i]
PROOF
<1>1. ToSet(s) \in SUBSET Ids /\ ToSet(t) \in SUBSET Ids
  BY DEF ToSet
<1>2. /\ s \o t \in Seq(Ids) /\ Len(s \o t) = Len(s) + Len(t)
      /\ Len(s) \in Nat /\ Len(t) \in Nat
      /\ DOMAIN s = 1 .. Len(s) /\ DOMAIN t = 1 .. Len(t)
      /\ DOMAIN (s \o t) = 1 .. Len(s) + Len(t)
      /\ \A i \in 1 .. Len(s) : (s \o t)[i] = s[i]
      /\ \A i \in 1 .. Len(t) : (s \o t)[Len(s) + i] = t[i]
  <2>1. Len(s) \in Nat /\ Len(t) \in Nat
    OBVIOUS
  <2>2. \A i \in 1 .. Len(t) : Len(s) + i \in 1 .. Len(s) + Len(t)
    BY <2>1
  <2> QED
    BY <2>1, <2>2
<1>3. \A i \in 1 .. Len(s) + Len(t) : i \in 1 .. Len(s) \/ i - Len(s) \in 1 .. Len(t)
  BY <1>2
<1>4. \A i \in 1 .. Len(s) + Len(t) : \/ i \in 1 .. Len(s) /\ (s \o t)[i] = s[i]
                                      \/ i - Len(s) \in 1 .. Len(t) /\ (s \o t)[i] = t[i - Len(s)]
  <2> SUFFICES ASSUME NEW i \in 1 .. Len(s) + Len(t), i \notin 1 .. Len(s)
               PROVE  i - Len(s) \in 1 .. Len(t) /\ (s \o t)[i] = t[i - Len(s)]
    BY <1>2
  <2>1. i - Len(s) \in 1 .. Len(t) /\ Len(s) + (i - Len(s)) = i
    BY <1>2, <1>3
  <2> QED
    BY <1>2, <2>1
<1>5. ToSet(s \o t) \subseteq ToSet(s) \cup ToSet(t)
  BY <1>2, <1>4 DEF ToSet
<1>6. \A i \in 1 .. Len(t) : Len(s) + i \in 1 .. Len(s) + Len(t)
  BY <1>2
<1>7. \A i \in 1 .. Len(s) : i \in 1 .. Len(s) + Len(t)
  BY <1>2
<1>8. ToSet(s) \subseteq ToSet(s \o t)
  BY <1>2, <1>7 DEF ToSet
<1>9. ToSet(t) \subseteq ToSet(s \o t)
  <2> SUFFICES ASSUME NEW i \in 1 .. Len(t) PROVE t[i] \in ToSet(s \o t)
    BY <1>2 DEF ToSet
  <2>1. Len(s) + i \in DOMAIN (s \o t) /\ (s \o t)[Len(s) + i] = t[i]
    BY <1>2, <1>6
  <2> QED
    BY <2>1 DEF ToSet
<1> QED
  BY <1>1, <1>2, <1>5, <1>8, <1>9

(* A page that goes from newer to older documents shows none twice. *)
Descending(page) == \A i, j \in 1 .. Len(page) : i < j => page[i] > page[j]

LEMMA DescendingCount ==
  ASSUME NEW page \in Seq(Ids), Descending(page)
  PROVE  Cardinality(ToSet(page)) = Len(page)
PROOF
<1>1. Len(page) \in Nat /\ DOMAIN page = 1 .. Len(page) /\ page \in [1 .. Len(page) -> Ids]
  OBVIOUS
<1>2. \A i \in 1 .. Len(page) : page[i] \in Nat
  BY <1>1, FiniteIds
<1>3. \A i, j \in 1 .. Len(page) : page[i] = page[j] => i = j
  <2> SUFFICES ASSUME NEW i \in 1 .. Len(page), NEW j \in 1 .. Len(page), i < j
               PROVE  page[i] # page[j]
    BY <1>1
  <2>1. page[i] > page[j]
    BY DEF Descending
  <2> QED
    BY <1>2, <2>1
<1>4. page \in Bijection(1 .. Len(page), ToSet(page))
  BY <1>1, <1>3 DEF ToSet, Bijection, Injection, Surjection, IsInjective
<1>5. IsFiniteSet(1 .. Len(page)) /\ Cardinality(1 .. Len(page)) = Len(page)
  BY <1>1, FS_Interval
<1>6. ExistsBijection(1 .. Len(page), ToSet(page))
  BY <1>4 DEF ExistsBijection
<1> QED
  BY <1>5, <1>6, FS_Bijection

(* The places where a walk goes back to a document that is not older. *)
Rises(seen) == {i \in 2 .. Len(seen) : seen[i] >= seen[i - 1]}

LEMMA RisesOfPages ==
  ASSUME NEW s \in Seq(Ids), NEW page \in Seq(Ids), Descending(page)
  PROVE  /\ IsFiniteSet(Rises(s)) /\ Cardinality(Rises(s)) \in Nat
         /\ Cardinality(Rises(s \o page)) \in Nat
         /\ Cardinality(Rises(s \o page)) <= Cardinality(Rises(s)) + 1
         /\ s = << >> => Cardinality(Rises(s \o page)) = 0
         /\ page = << >> \/ page[1] < s[Len(s)] =>
              Cardinality(Rises(s \o page)) <= Cardinality(Rises(s))
PROOF
<1> DEFINE n == Len(s)
<1>1. /\ n \in Nat /\ Len(page) \in Nat /\ Len(s \o page) = n + Len(page)
      /\ \A i \in 1 .. n : (s \o page)[i] = s[i]
      /\ \A i \in 1 .. Len(page) : (s \o page)[n + i] = page[i]
  <2>1. n \in Nat /\ Len(page) \in Nat
    OBVIOUS
  <2> QED
    BY <2>1, SetOfSequence
<1>2. \A i \in 1 .. n : s[i] \in Nat
  <2>1. \A i \in 1 .. n : s[i] \in Ids
    OBVIOUS
  <2> QED
    BY <2>1, FiniteIds
<1>3. \A i \in 1 .. Len(page) : page[i] \in Nat
  <2>1. \A i \in 1 .. Len(page) : page[i] \in Ids
    OBVIOUS
  <2> QED
    BY <2>1, FiniteIds
<1>4. IsFiniteSet(Rises(s)) /\ Cardinality(Rises(s)) \in Nat
  <2>1. IsFiniteSet(2 .. n)
    BY <1>1, FS_Interval
  <2>2. Rises(s) \in SUBSET (2 .. n)
    BY DEF Rises
  <2> QED
    BY <2>1, <2>2, FS_Subset, FS_CardinalityType
<1>5. Rises(s \o page) \subseteq Rises(s) \cup {n + 1}
  <2> SUFFICES ASSUME NEW i \in 2 .. n + Len(page), (s \o page)[i] >= (s \o page)[i - 1], i # n + 1
               PROVE  i \in Rises(s)
    BY <1>1 DEF Rises
  <2>1. CASE i <= n
    <3>1. i \in 1 .. n /\ i - 1 \in 1 .. n /\ i \in 2 .. n
      BY <1>1, <2>1
    <3>2. (s \o page)[i] = s[i] /\ (s \o page)[i - 1] = s[i - 1]
      BY <1>1, <3>1
    <3> QED
      BY <3>1, <3>2 DEF Rises
  <2>2. CASE i > n + 1
    <3> DEFINE j == i - n
    <3>1. j \in 1 .. Len(page) /\ j - 1 \in 1 .. Len(page) /\ j - 1 < j
          /\ n + j = i /\ n + (j - 1) = i - 1
      BY <1>1, <2>2
    <3> HIDE DEF j
    <3>2. (s \o page)[i] = page[j] /\ (s \o page)[i - 1] = page[j - 1]
      BY <1>1, <3>1
    <3>3. page[j - 1] > page[j]
      BY <3>1 DEF Descending
    <3>4. page[j] \in Nat /\ page[j - 1] \in Nat
      BY <1>3, <3>1
    <3> QED
      BY <3>2, <3>3, <3>4
  <2> QED
    BY <1>1, <2>1, <2>2
<1>6. /\ IsFiniteSet(Rises(s) \cup {n + 1})
      /\ Cardinality(Rises(s) \cup {n + 1}) <= Cardinality(Rises(s)) + 1
      /\ Cardinality(Rises(s) \cup {n + 1}) \in Nat
  <2>1. /\ IsFiniteSet(Rises(s) \cup {n + 1})
        /\ \/ Cardinality(Rises(s) \cup {n + 1}) = Cardinality(Rises(s))
           \/ Cardinality(Rises(s) \cup {n + 1}) = Cardinality(Rises(s)) + 1
    BY <1>4, FS_AddElement
  <2> QED
    BY <1>4, <2>1
<1>7. /\ IsFiniteSet(Rises(s \o page)) /\ Cardinality(Rises(s \o page)) \in Nat
      /\ Cardinality(Rises(s \o page)) <= Cardinality(Rises(s)) + 1
  <2>1. /\ IsFiniteSet(Rises(s \o page))
        /\ Cardinality(Rises(s \o page)) <= Cardinality(Rises(s) \cup {n + 1})
    BY <1>5, <1>6, FS_Subset
  <2>2. Cardinality(Rises(s \o page)) \in Nat
    BY <2>1, FS_CardinalityType
  <2> QED
    BY <1>4, <1>6, <2>1, <2>2
<1>8. ASSUME s = << >>
      PROVE  Cardinality(Rises(s \o page)) = 0
  <2>1. n = 0
    BY <1>8
  <2>2. Rises(s) = {}
    BY <2>1 DEF Rises
  <2>3. n + 1 \notin Rises(s \o page)
    BY <2>1 DEF Rises
  <2>4. Rises(s \o page) = {}
    BY <1>5, <2>2, <2>3
  <2> QED
    BY <2>4, FS_EmptySet
<1>9. ASSUME page = << >> \/ page[1] < s[Len(s)]
      PROVE  Cardinality(Rises(s \o page)) <= Cardinality(Rises(s))
  <2>1. n + 1 \notin Rises(s \o page)
    <3> SUFFICES ASSUME n + 1 \in Rises(s \o page) PROVE FALSE
      OBVIOUS
    <3>1. /\ n + 1 \in 2 .. n + Len(page)
          /\ (s \o page)[n + 1] >= (s \o page)[n]
      BY <1>1 DEF Rises
    <3>2. n \in 1 .. n /\ 1 \in 1 .. Len(page)
      BY <1>1, <3>1
    <3>3. (s \o page)[n] = s[n] /\ (s \o page)[n + 1] = page[1]
      BY <1>1, <3>2
    <3>4. page # << >> /\ s[n] \in Nat /\ page[1] \in Nat
      BY <1>2, <1>3, <3>2
    <3> QED
      BY <1>9, <3>1, <3>3, <3>4
  <2>2. Rises(s \o page) \subseteq Rises(s)
    BY <1>5, <2>1
  <2> QED
    BY <1>4, <2>2, FS_Subset
<1> QED
  BY <1>4, <1>7, <1>8, <1>9

(* What the client has got once the page that was found is answered. *)
Got == IF request.found = None THEN walk.seen ELSE walk.seen \o request.found

Passed == Top(walk.listed, Len(Got))

(* Of the documents that stayed, those on the places passed so far were shown, but for at  *)
(* most one for each that left; those shown that are on a place yet to come, and those     *)
(* shown again, are at most one for each that joined; a page that is not full passes the   *)
(* end; and the last one shown is on a place passed.                                       *)
GotInv ==
  /\ Cardinality((walk.stayed \cap Passed) \ ToSet(Got)) <= walk.left
  /\ Len(Got) + Cardinality(ToSet(Got) \cap (walk.listed \ Passed))
       <= Cardinality(ToSet(Got)) + walk.joined
  /\ Cardinality(Rises(Got)) <= walk.joined
  /\ request.found # None /\ Len(request.found) < limit => Passed = walk.listed
  /\ request.pc # "done" /\ Got # << >> /\ request.found # << >> => Got[Len(Got)] \in Passed

(* The two promises, while the walk goes on and after.  A walk that failed shows no more. *)
WalkInv ==
  /\ walk.stayed \subseteq walk.listed
  /\ request.pc # "failed" => GotInv
  /\ WalkMissesOnlyLeavers
  /\ WalkRepeatsOnlyForJoiners

LEMMA EmptyWalk ==
  /\ ToSet(<< >>) = {} /\ Rises(<< >>) = {} /\ Len(<< >>) = 0
  /\ Cardinality({}) = 0
  /\ \A ids \in SUBSET Ids : Top(ids, 0) = {}
PROOF
<1>1. ToSet(<< >>) = {} /\ Rises(<< >>) = {} /\ Len(<< >>) = 0
  BY DEF ToSet, Rises
<1>2. \A ids \in SUBSET Ids : Top(ids, 0) = {}
  BY NewerCounts DEF Top
<1> QED
  BY <1>1, <1>2, FS_EmptySet

LEMMA RepeatsInWalk ==
  /\ WalkRepeatsOnlyForJoiners <=>
       /\ Len(walk.seen) - Cardinality(ToSet(walk.seen)) <= walk.joined
       /\ Cardinality(Rises(walk.seen)) <= walk.joined
  /\ WalkRepeatsOnlyForJoiners' <=>
       /\ Len(walk'.seen) - Cardinality(ToSet(walk'.seen)) <= walk'.joined
       /\ Cardinality(Rises(walk'.seen)) <= walk'.joined
BY DEF WalkRepeatsOnlyForJoiners, SeenIds, Rises

(* A walk that has shown nothing yet. *)
LEMMA NothingSeen ==
  /\ Len(<< >>) - Cardinality(ToSet(<< >>)) <= 0
  /\ Cardinality(Rises(<< >>)) <= 0
PROOF
<1>1. Cardinality(ToSet(<< >>)) = 0 /\ Cardinality(Rises(<< >>)) = 0 /\ Len(<< >>) = 0
  BY EmptyWalk
<1>2. 0 - 0 <= 0 /\ 0 <= 0
  OBVIOUS
<1> QED
  BY <1>1, <1>2

LEMMA InitWalk == ListsInit => WalkInv
PROOF
<1> SUFFICES ASSUME ListsInit PROVE WalkInv
  OBVIOUS
<1>1. /\ walk.seen = << >> /\ walk.listed = {} /\ walk.stayed = {}
      /\ walk.left = 0 /\ walk.joined = 0
      /\ request.found = None /\ request.pc = "asking"
  BY DEF ListsInit, NoRequest
<1>2. Got = << >>
  BY <1>1 DEF Got
<1>3. GotInv
  <2>1. /\ (walk.stayed \cap Passed) \ ToSet(Got) = {}
        /\ ToSet(Got) \cap (walk.listed \ Passed) = {}
    BY <1>1
  <2>2. /\ Cardinality((walk.stayed \cap Passed) \ ToSet(Got)) = 0
        /\ Cardinality(ToSet(Got) \cap (walk.listed \ Passed)) = 0
        /\ Cardinality(ToSet(Got)) = 0 /\ Cardinality(Rises(Got)) = 0 /\ Len(Got) = 0
    BY <1>2, <2>1, EmptyWalk
  <2>3. 0 <= 0 /\ 0 + 0 <= 0 + 0
    OBVIOUS
  <2> QED
    BY <1>1, <1>2, <2>2, <2>3 DEF GotInv
<1>4. WalkRepeatsOnlyForJoiners
  BY <1>1, NothingSeen, RepeatsInWalk
<1>5. WalkMissesOnlyLeavers
  BY <1>1 DEF WalkMissesOnlyLeavers
<1> QED
  BY <1>1, <1>3, <1>4, <1>5 DEF WalkInv

(* Steps that find no page and answer none. *)
LEMMA WalkStays ==
  ASSUME WalkInv, UNCHANGED <<walk, limit>>, request'.found = request.found,
         \/ request'.pc = request.pc
         \/ request.pc \in {"asking", "handling"} /\ request'.pc \in {"handling", "refused"}
  PROVE  WalkInv'
PROOF
<1>1. Got' = Got /\ Passed' = Passed
  BY DEF Got, Passed
<1>2. WalkRepeatsOnlyForJoiners'
  BY DEF WalkInv, WalkRepeatsOnlyForJoiners, SeenIds
<1>3. WalkMissesOnlyLeavers'
  BY DEF WalkInv, WalkMissesOnlyLeavers, SeenIds
<1>4. request'.pc # "failed" => GotInv'
  BY <1>1 DEF WalkInv, GotInv
<1> QED
  BY <1>2, <1>3, <1>4 DEF WalkInv

LEMMA WalkFails ==
  ASSUME WalkInv, UNCHANGED walk, request'.pc = "failed"
  PROVE  WalkInv'
BY DEF WalkInv, WalkRepeatsOnlyForJoiners, WalkMissesOnlyLeavers, SeenIds

(* A page is found: it is cut from the list as it is now, the places passed before from    *)
(* the list that the page before was cut from.                                             *)
LEMMA FindWalk ==
  ASSUME ListsTypeOK, WalkInv, Find
  PROVE  WalkInv'
PROOF
<1> DEFINE seen == walk.seen
           old == walk.listed
           new == Matching
           page == Page(Matching)
           m == Len(walk.seen) + limit
           shown == ToSet(page)
<1>1. /\ seen \in Seq(Ids) /\ Len(seen) \in Nat /\ old \in SUBSET Ids /\ walk.stayed \in SUBSET Ids
      /\ walk.left \in Nat /\ walk.joined \in Nat
      /\ limit \in Nat \ {0} /\ new \in SUBSET Ids /\ m \in Nat /\ Len(seen) <= m
  <2>1. walk \in Walk /\ limit \in Nat \ {0}
    BY ListsAssumption DEF ListsTypeOK
  <2>2. walk.seen \in Seq(Ids) /\ Len(walk.seen) \in Nat
    BY <2>1 DEF Walk
  <2> QED
    BY <2>1, <2>2, MatchingIds DEF Walk
<1>2. /\ page \in Seq(new) /\ Len(page) <= limit
      /\ Descending(page)
      /\ shown = Top(new, m) \ Top(new, Len(seen))
      /\ Top(new, Len(seen) + Len(page)) = Top(new, m)
      /\ Len(page) < limit => Top(new, Len(seen) + Len(page)) = new
  BY <1>1, PageShows DEF Descending
<1>3. page \in Seq(Ids) /\ Len(page) \in Nat /\ page # None
  <2>1. page \in Seq(Ids) /\ Len(page) \in Nat
    BY <1>1, <1>2
  <2> QED
    BY <2>1, ListsAssumption
<1>4. /\ request.pc = "handling" /\ request.found = None
      /\ request'.pc = "handling" /\ request'.found = page
      /\ limit' = limit
      /\ walk'.seen = seen /\ walk'.listed = new
      /\ walk'.stayed = (IF seen = << >> THEN new ELSE walk.stayed \cap new)
      /\ walk'.left = (IF seen = << >> THEN 0 ELSE walk.left + Cardinality(old \ new))
      /\ walk'.joined = (IF seen = << >> THEN 0 ELSE walk.joined + Cardinality(new \ old))
  BY DEF Find, Reading, ListsTypeOK, Request, Walk
<1>5. Got = seen /\ Got' = seen \o page
  BY <1>3, <1>4 DEF Got
<1> HIDE DEF seen, old, new, page, m, shown
<1>6. /\ seen \o page \in Seq(Ids) /\ Len(seen \o page) = Len(seen) + Len(page)
      /\ ToSet(seen \o page) = ToSet(seen) \cup shown
      /\ ToSet(seen) \in SUBSET Ids /\ shown \in SUBSET Ids
      /\ \A i \in 1 .. Len(page) : (seen \o page)[Len(seen) + i] = page[i]
  BY <1>1, <1>3, SetOfSequence DEF shown
<1>7. Passed' = Top(new, m)
  BY <1>2, <1>4, <1>5, <1>6 DEF Passed
<1>8. Cardinality(shown) = Len(page)
  BY <1>2, <1>3, DescendingCount DEF shown
<1>9. \A i \in 1 .. Len(page) : page[i] \in Top(new, m) \ Top(new, Len(seen))
  BY <1>2, <1>3 DEF shown, ToSet
<1>10. request'.found # None /\ Len(request'.found) < limit' => Passed' = walk'.listed
  BY <1>2, <1>4, <1>7
<1>11. Got' # << >> /\ request'.found # << >> => Got'[Len(Got')] \in Passed'
  <2> SUFFICES ASSUME page # << >>
               PROVE  (seen \o page)[Len(seen \o page)] \in Top(new, m)
    BY <1>4, <1>5, <1>7
  <2>1. Len(page) \in 1 .. Len(page)
    BY <1>3
  <2> QED
    BY <1>6, <1>9, <2>1
<1>12. walk'.stayed \subseteq walk'.listed
  BY <1>4
<1>13. WalkMissesOnlyLeavers'
  BY <1>4 DEF WalkMissesOnlyLeavers
<1>14. /\ Cardinality(shown) \in Nat /\ Cardinality(ToSet(seen)) \in Nat
       /\ Cardinality(ToSet(seen) \cup shown) \in Nat
       /\ Cardinality(new \ old) \in Nat /\ Cardinality(old \ new) \in Nat
       /\ Cardinality((ToSet(seen) \cup shown) \cap (new \ Top(new, m))) \in Nat
       /\ Cardinality(ToSet(seen) \cap (old \ Top(old, Len(seen)))) \in Nat
  <2>1. /\ ToSet(seen) \cup shown \in SUBSET Ids /\ new \ old \in SUBSET Ids
        /\ old \ new \in SUBSET Ids
        /\ (ToSet(seen) \cup shown) \cap (new \ Top(new, m)) \in SUBSET Ids
        /\ ToSet(seen) \cap (old \ Top(old, Len(seen))) \in SUBSET Ids
    BY <1>1, <1>6
  <2> QED
    BY <1>6, <2>1, FiniteIds
<1>15. WalkRepeatsOnlyForJoiners'
  <2>1. CASE seen = << >>
    <3>1. walk'.seen = << >> /\ walk'.joined = 0
      BY <1>4, <2>1
    <3> QED
      BY <3>1, NothingSeen, RepeatsInWalk
  <2>2. CASE seen # << >>
    <3>1. /\ Len(seen) - Cardinality(ToSet(seen)) <= walk.joined
          /\ Cardinality(Rises(seen)) <= walk.joined
      BY RepeatsInWalk DEF WalkInv, seen
    <3>2. Cardinality(Rises(seen)) \in Nat
      BY <1>1, <1>2, <1>3, RisesOfPages
    <3>3. /\ Len(seen) - Cardinality(ToSet(seen)) <= walk'.joined
          /\ Cardinality(Rises(seen)) <= walk'.joined
      BY <1>1, <1>4, <1>14, <2>2, <3>1, <3>2
    <3> QED
      BY <1>4, <3>3, RepeatsInWalk
  <2> QED
    BY <2>1, <2>2
<1>16. CASE seen = << >>
  <2>1. /\ Len(seen) = 0 /\ ToSet(seen) = {} /\ Top(new, Len(seen)) = {}
    BY <1>1, <1>16, EmptyWalk
  <2>2. /\ walk'.stayed = new /\ walk'.left = 0 /\ walk'.joined = 0
        /\ ToSet(Got') = shown /\ Len(Got') = Len(page)
        /\ shown = Top(new, m)
    BY <1>1, <1>2, <1>3, <1>4, <1>5, <1>6, <1>16, <2>1
  <2>3. 0 <= 0 /\ Len(page) + 0 <= Len(page) + 0
    BY <1>3
  <2>4. Cardinality((walk'.stayed \cap Passed') \ ToSet(Got')) <= walk'.left
    <3>1. (walk'.stayed \cap Passed') \ ToSet(Got') = {}
      BY <1>7, <2>2
    <3> QED
      BY <2>2, <3>1, <2>3, EmptyWalk
  <2>5. Len(Got') + Cardinality(ToSet(Got') \cap (walk'.listed \ Passed'))
          <= Cardinality(ToSet(Got')) + walk'.joined
    <3>1. ToSet(Got') \cap (walk'.listed \ Passed') = {}
      BY <1>7, <2>2
    <3> QED
      BY <1>8, <2>2, <3>1, <2>3, EmptyWalk
  <2>6. Cardinality(Rises(Got')) <= walk'.joined
    <3>1. Cardinality(Rises(seen \o page)) = 0
      BY <1>1, <1>2, <1>3, <1>16, RisesOfPages
    <3> QED
      BY <1>5, <2>2, <2>3, <3>1
  <2>7. GotInv'
    BY <1>10, <1>11, <2>4, <2>5, <2>6 DEF GotInv
  <2> QED
    BY <1>12, <1>13, <1>15, <2>7 DEF WalkInv
<1>17. CASE seen # << >>
  <2>1. /\ Cardinality((walk.stayed \cap Top(old, Len(seen))) \ ToSet(seen)) <= walk.left
        /\ Len(seen) + Cardinality(ToSet(seen) \cap (old \ Top(old, Len(seen))))
             <= Cardinality(ToSet(seen)) + walk.joined
        /\ Cardinality(Rises(seen)) <= walk.joined
        /\ seen[Len(seen)] \in Top(old, Len(seen))
    <3>1. GotInv /\ request.found # << >> /\ Passed = Top(old, Len(seen))
      <4>1. << >> \in Seq(Ids)
        BY EmptySeq
      <4>2. request.found # << >>
        BY <1>4, <4>1, ListsAssumption
      <4>3. GotInv
        BY <1>4 DEF WalkInv
      <4>4. Passed = Top(old, Len(seen))
        BY <1>5 DEF Passed, old
      <4> QED
        BY <4>2, <4>3, <4>4
    <3> QED
      BY <1>4, <1>5, <1>17, <3>1 DEF GotInv, old
  <2>2. /\ walk'.stayed = walk.stayed \cap new
        /\ walk'.left = walk.left + Cardinality(old \ new)
        /\ walk'.joined = walk.joined + Cardinality(new \ old)
    BY <1>4, <1>17
  <2>3. Cardinality((walk'.stayed \cap Passed') \ ToSet(Got')) <= walk'.left
    <3>1. walk.stayed \subseteq old
      BY DEF WalkInv, old
    <3>2. Cardinality((walk.stayed \cap new \cap Top(new, m)) \ (ToSet(seen) \cup shown))
            <= walk.left + Cardinality(old \ new)
      BY <1>1, <1>2, <1>6, <2>1, <3>1, PageMisses
    <3> QED
      BY <1>5, <1>6, <1>7, <2>2, <3>2
  <2>4. Len(Got') + Cardinality(ToSet(Got') \cap (walk'.listed \ Passed'))
          <= Cardinality(ToSet(Got')) + walk'.joined
    <3>1. Cardinality(shown) + Cardinality(ToSet(seen))
              + Cardinality((ToSet(seen) \cup shown) \cap (new \ Top(new, m)))
            <= Cardinality(ToSet(seen) \cup shown)
                 + Cardinality(ToSet(seen) \cap (old \ Top(old, Len(seen))))
                 + Cardinality(new \ old)
      BY <1>1, <1>2, <1>6, PageRepeats
    <3>2. Len(seen) + Len(page)
              + Cardinality((ToSet(seen) \cup shown) \cap (new \ Top(new, m)))
            <= Cardinality(ToSet(seen) \cup shown) + (walk.joined + Cardinality(new \ old))
      <4> DEFINE a == Cardinality(shown)
                 b == Cardinality(ToSet(seen))
                 c == Cardinality((ToSet(seen) \cup shown) \cap (new \ Top(new, m)))
                 d == Cardinality(ToSet(seen) \cup shown)
                 e == Cardinality(ToSet(seen) \cap (old \ Top(old, Len(seen))))
                 f == Cardinality(new \ old)
                 j == walk.joined
                 l == Len(seen)
      <4>1. /\ a \in Nat /\ b \in Nat /\ c \in Nat /\ d \in Nat /\ e \in Nat /\ f \in Nat
            /\ j \in Nat /\ l \in Nat
        BY <1>1, <1>14
      <4>2. a + b + c <= d + e + f /\ l + e <= b + j /\ Len(page) = a
        BY <1>8, <2>1, <3>1
      <4> HIDE DEF a, b, c, d, e, f, j, l
      <4>3. l + Len(page) + c <= d + (j + f)
        BY <4>1, <4>2
      <4> QED
        BY <4>3 DEF c, d, f, j, l
    <3> QED
      BY <1>4, <1>5, <1>6, <1>7, <2>2, <3>2
  <2>5. Cardinality(Rises(Got')) <= walk'.joined
    <3>1. /\ Cardinality(Rises(seen)) \in Nat /\ Cardinality(Rises(seen \o page)) \in Nat
          /\ Cardinality(Rises(seen \o page)) <= Cardinality(Rises(seen)) + 1
          /\ page = << >> \/ page[1] < seen[Len(seen)] =>
               Cardinality(Rises(seen \o page)) <= Cardinality(Rises(seen))
      BY <1>1, <1>2, <1>3, RisesOfPages
    <3> DEFINE q == Cardinality(Rises(seen \o page))
               r == Cardinality(Rises(seen))
               j == walk.joined
               f == Cardinality(new \ old)
    <3>2. q \in Nat /\ r \in Nat /\ j \in Nat /\ f \in Nat /\ r <= j
      BY <1>1, <1>14, <2>1, <3>1
    <3> HIDE DEF q, r, j, f
    <3>3. CASE Cardinality(new \ old) = 0 /\ page # << >>
      <4>1. Cardinality((new \ Top(new, Len(seen))) \ (old \ Top(old, Len(seen)))) = 0
        <5>1. (new \ Top(new, Len(seen))) \ (old \ Top(old, Len(seen))) \in SUBSET Ids
          BY <1>1
        <5> QED
          <6> DEFINE added == (new \ Top(new, Len(seen))) \ (old \ Top(old, Len(seen)))
          <6>1. Cardinality(added) \in Nat
            BY <5>1, FiniteIds
          <6>2. Cardinality(added) <= 0
            BY <1>1, <3>3, FewAreAdded
          <6> HIDE DEF added
          <6>3. Cardinality(added) = 0
            BY <6>1, <6>2
          <6> QED
            BY <6>3 DEF added
      <4>2. (new \ Top(new, Len(seen))) \ (old \ Top(old, Len(seen))) = {}
        <5>1. IsFiniteSet((new \ Top(new, Len(seen))) \ (old \ Top(old, Len(seen))))
          BY <1>1, FiniteIds
        <5> QED
          BY <4>1, <5>1, FS_EmptySet
      <4>3. page[1] \in old /\ page[1] \notin Top(old, Len(seen))
        <5>1. 1 \in 1 .. Len(page)
          BY <1>3, <3>3
        <5>2. page[1] \in new \ Top(new, Len(seen))
          BY <1>9, <5>1 DEF Top
        <5> QED
          BY <4>2, <5>2
      <4>4. page[1] < seen[Len(seen)]
        <5> DEFINE last == seen[Len(seen)]
        <5>1. last \in old /\ Cardinality(Newer(old, last)) < Len(seen)
          BY <2>1 DEF Top
        <5>2. last \in Nat /\ page[1] \in Nat
          BY <1>1, <4>3, <5>1, FiniteIds
        <5>3. ~ Cardinality(Newer(old, page[1])) < Len(seen)
          BY <4>3 DEF Top
        <5>4. /\ Cardinality(Newer(old, page[1])) \in Nat /\ Cardinality(Newer(old, last)) \in Nat
              /\ page[1] > last => Cardinality(Newer(old, page[1])) < Cardinality(Newer(old, last))
          BY <1>1, <4>3, <5>1, NewerCounts
        <5> QED
          BY <1>1, <4>3, <2>1, <5>1, <5>2, <5>3, <5>4
      <4> QED
        <5>1. Cardinality(Rises(seen \o page)) <= Cardinality(Rises(seen))
          BY <3>1, <4>4
        <5>2. Cardinality(Rises(seen \o page)) <= walk.joined + Cardinality(new \ old)
          BY <3>2, <5>1 DEF q, r, j, f
        <5> QED
          BY <1>5, <2>2, <5>2
    <3>4. CASE page = << >>
      <4>1. Cardinality(Rises(seen \o page)) <= Cardinality(Rises(seen))
        BY <3>1, <3>4
      <4>2. Cardinality(Rises(seen \o page)) <= walk.joined + Cardinality(new \ old)
        BY <3>2, <4>1 DEF q, r, j, f
      <4> QED
        BY <1>5, <2>2, <4>2
    <3>5. CASE Cardinality(new \ old) # 0
      <4>1. Cardinality(Rises(seen \o page)) <= walk.joined + Cardinality(new \ old)
        <5>1. r + 1 <= j + f
          BY <3>5, <3>2 DEF f
        <5> QED
          BY <3>1, <3>2, <5>1 DEF q, r, j, f
      <4> QED
        BY <1>5, <2>2, <4>1
    <3> QED
      BY <3>3, <3>4, <3>5
  <2>6. GotInv'
    BY <1>10, <1>11, <2>3, <2>4, <2>5 DEF GotInv
  <2> QED
    BY <1>12, <1>13, <1>15, <2>6 DEF WalkInv
<1> QED
  BY <1>16, <1>17

(* A page is answered: what was found has been got. *)
LEMMA AnswerWalk ==
  ASSUME ListsTypeOK, WalkInv, Answer
  PROVE  WalkInv'
PROOF
<1>1. /\ request.pc = "handling" /\ request.found # None
      /\ request.found \in Seq(Ids) /\ walk.seen \in Seq(Ids)
      /\ limit \in Nat \ {0}
      /\ walk.stayed \in SUBSET Ids /\ walk.listed \in SUBSET Ids /\ walk.joined \in Nat
  BY ListsAssumption DEF Answer, Reading, ListsTypeOK, Request, Walk
<1>2. /\ walk'.seen = walk.seen \o request.found
      /\ walk'.listed = walk.listed /\ walk'.stayed = walk.stayed
      /\ walk'.left = walk.left /\ walk'.joined = walk.joined
      /\ limit' = limit
  BY DEF Answer, ListsTypeOK, Walk
<1>3. /\ request'.found = None
      /\ request'.pc = IF Len(request.found) < limit THEN "done" ELSE "asking"
  BY NoRequestType DEF Answer
<1>4. Got' = Got /\ Got = walk.seen \o request.found /\ walk'.seen = Got
  BY <1>1, <1>2, <1>3 DEF Got
<1>5. Passed' = Passed
  BY <1>2, <1>4 DEF Passed
<1>6. GotInv
  BY <1>1 DEF WalkInv
<1>7. GotInv'
  <2>1. request'.pc # "done" => request.found # << >>
    BY <1>1, <1>3
  <2>2. request'.pc # "done" /\ Got' # << >> => Got'[Len(Got')] \in Passed'
    BY <1>1, <1>4, <1>5, <1>6, <2>1 DEF GotInv
  <2> QED
    BY <1>2, <1>3, <1>4, <1>5, <1>6, <2>2 DEF GotInv
<1>8. WalkMissesOnlyLeavers'
  <2> SUFFICES ASSUME Len(request.found) < limit
               PROVE  Cardinality(walk.stayed \ ToSet(Got)) <= walk.left
    BY <1>2, <1>3, <1>4 DEF WalkMissesOnlyLeavers, SeenIds
  <2>1. Passed = walk.listed
    BY <1>1, <1>6 DEF GotInv
  <2>2. walk.stayed \cap Passed = walk.stayed
    BY <2>1 DEF WalkInv
  <2> QED
    BY <1>6, <2>2 DEF GotInv
<1>9. WalkRepeatsOnlyForJoiners'
  <2>1. /\ Got \in Seq(Ids) /\ ToSet(Got) \in SUBSET Ids
    BY <1>1, <1>4, SetOfSequence
  <2>2. /\ Len(Got) \in Nat /\ Cardinality(ToSet(Got)) \in Nat
        /\ Cardinality(ToSet(Got) \cap (walk.listed \ Passed)) \in Nat
    <3>1. ToSet(Got) \cap (walk.listed \ Passed) \in SUBSET Ids
      BY <2>1
    <3> QED
      BY <2>1, <3>1, FiniteIds
  <2>3. Len(Got) - Cardinality(ToSet(Got)) <= walk.joined
    BY <1>1, <1>6, <2>2 DEF GotInv
  <2> QED
    BY <1>2, <1>4, <1>6, <2>3, RepeatsInWalk DEF GotInv
<1> QED
  BY <1>2, <1>7, <1>8, <1>9 DEF WalkInv

LEMMA NextKeepsWalk == ListsTypeOK /\ DriftInv /\ WalkInv /\ [ListsNext]_listsVars => WalkInv'
PROOF
<1> SUFFICES ASSUME ListsTypeOK, DriftInv, WalkInv, [ListsNext]_listsVars PROVE WalkInv'
  OBVIOUS
<1>1. request \in Request
  BY DEF ListsTypeOK
<1>2. CASE UNCHANGED listsVars
  BY <1>2, WalkStays DEF listsVars
<1>3. CASE AskAny
  <2>1. /\ request.pc = "asking" /\ request'.pc = "handling"
        /\ request'.found = request.found /\ UNCHANGED <<walk, limit>>
    BY <1>1, <1>3, AnyAskTypes DEF Ask, Request
  <2> QED
    BY <2>1, WalkStays
<1>4. CASE AnyChange
  <2>1. request'.pc = request.pc /\ request'.found = request.found /\ UNCHANGED <<walk, limit>>
    BY <1>4, AnyChangeTypes, ChangeTypes
  <2> QED
    BY <2>1, WalkStays
<1>5. CASE CheckReference \/ CountTotal
  <2>1. request'.pc = request.pc /\ request'.found = request.found /\ UNCHANGED <<walk, limit>>
    BY <1>1, <1>5 DEF CheckReference, CountTotal, Request
  <2> QED
    BY <2>1, WalkStays
<1>6. CASE RefuseRequest
  <2>1. /\ request.pc = "handling" /\ request'.pc = "refused"
        /\ request'.found = request.found /\ UNCHANGED <<walk, limit>>
    BY <1>6, NoRequestType DEF RefuseRequest, DriftInv
  <2> QED
    BY <2>1, WalkStays
<1>7. CASE FailRequest
  BY <1>7, NoRequestType, WalkFails DEF FailRequest
<1> QED
  BY <1>2, <1>3, <1>4, <1>5, <1>6, <1>7, FindWalk, AnswerWalk DEF ListsNext, AskAny, AnyChange

(* However documents are inserted and changed between the queries of a walk, what it has   *)
(* shown is what is on the places it passed, but for those that left and joined the list.  *)
THEOREM WalkInvariant == ListsSpec => []WalkInv
PROOF
<1> QED
  BY ListsTypes, InitDrift, NextKeepsDrift, InitWalk, NextKeepsWalk, PTL DEF ListsSpec

(* A walk over the pages that skip and limit cut from a sorted list misses no more of the  *)
(* documents that matched all along than documents ceased to match meanwhile.              *)
THEOREM MissesTheorem == ListsSpec => []WalkMissesOnlyLeavers
PROOF
<1>1. WalkInv => WalkMissesOnlyLeavers
  BY DEF WalkInv
<1> QED
  BY <1>1, WalkInvariant, PTL

(* It shows no more documents twice, and goes back no more often to one that is not older, *)
(* than documents began to match between two of its pages.                                 *)
THEOREM RepeatsTheorem == ListsSpec => []WalkRepeatsOnlyForJoiners
PROOF
<1>1. WalkInv => WalkRepeatsOnlyForJoiners
  BY DEF WalkInv
<1> QED
  BY <1>1, WalkInvariant, PTL
=============================================================================
