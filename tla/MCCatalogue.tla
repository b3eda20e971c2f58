---------------------------- MODULE MCCatalogue ----------------------------
(* Instances of the catalogue for TLC. *)
EXTENDS Catalogue, TLC

CONSTANTS c1, c2, a1, a2, a3, p1, p2, s1, s2

(* A category, an author and a publisher with the slug s1. *)
OneOfEach == [d \in DocumentIds |-> IF d \in {c1, a1, p1} THEN s1 ELSE None]

TwoCategories == [d \in DocumentIds |-> CASE d \in {c1, a1, p1} -> s1 [] d = c2 -> s2 [] OTHER -> None]

(* A book of these three with one vote. *)
OneBook == <<[documents |-> {c1, a1, p1}, version |-> 0, rating |-> 5, votesCount |-> 1]>>

NoBooks == << >>

AnyBook == [sort |-> "FAVORITES", category |-> None, author |-> None, publisher |-> None]

OfCategory == [sort |-> "FAVORITES", category |-> c1, author |-> a1, publisher |-> None]

(* The second one refers to two documents that have yet to be created. *)
MCReferences == {{c1, a1, p1}, {c2, a1, p2}}

MCKeys == {AnyBook, OfCategory}
=============================================================================
