------------------------------ MODULE MCLists ------------------------------
(* A small library for TLC: two categories, of which c2 may become a child of c1, *)
(* one author, publisher and year.                                                *)
EXTENDS Lists

CONSTANTS c1, c2, a1, p1, y1, u1, u2

SomeReferences == {c1, c2, a1}

SomeBooks == <<{c1, a1}, {c2, a1, y1}, {c1}>>

SomeTokens == <<{u1, Active, 1}, {u2, Active, 1}, {u1, Active, 2}>>

SomeMarks == {{c1, a1, y1}, {c2, p1}}

SomeQueries == {NoQuery,
                [NoQuery EXCEPT !.category = c1],
                [NoQuery EXCEPT !.author = a1, !.year = y1],
                [NoQuery EXCEPT !.category = c1, !.publisher = p1]}
=============================================================================
