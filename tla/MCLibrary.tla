------------------------------ MODULE MCLibrary ------------------------------
(***************************************************************************)
(* Library for TLC: two manga of two sources.  The first has two chapters  *)
(* of two scanlators, then a third, and then loses the second; the second  *)
(* manga's source is not installed any more.                               *)
(***************************************************************************)
EXTENDS Library

CONSTANTS m1, m2, c1, c2, c3, h1, h2, s1, s2

MCSourceOf(m) == IF m = m1 THEN 1 ELSE 2
Chapter(id, number, scanlator) == [id |-> id, number |-> number, scanlator |-> scanlator]
MCReleases ==
  LET first == Chapter(c1, 1, s2)   second == Chapter(c2, 2, s1)   third == Chapter(c3, 3, NULL)
  IN  [m \in Mangas |-> IF m = m1 THEN << <<second, first>>, <<third, second, first>>, <<third, first>> >>
                        ELSE << <<Chapter(c1, NULL, NULL)>> >>]

\* The first manga is in the library with its first list cached; the second was found.
Found == upsert_cached_manga_information(EmptyDatabase, [m \in Mangas |-> 0])
Subscribed == InsertChapters(add_manga_to_library(Found, m1), m1, MCReleases[m1][1])
MCInitial == {Subscribed, set_last_check_update_manga(Subscribed, m1, 0)}
MCCopies == {Subscribed}

\* What the run explores: requests of the reader, refreshes and checks between them,
\* and what disturbs them.
Nothing == [k \in Kinds |-> 0]
MCBudgets ==
  {[Nothing EXCEPT !.reading = 3],
   [Nothing EXCEPT !.reading = 1, !.refreshing = 1, !.publishing = 1],
   [Nothing EXCEPT !.reading = 1, !.checking = 1, !.publishing = 1],
   [Nothing EXCEPT !.refreshing = 2, !.publishing = 2],
   [Nothing EXCEPT !.refreshing = 1, !.checking = 1, !.publishing = 2],
   [Nothing EXCEPT !.library = 1, !.checking = 1, !.publishing = 1],
   [Nothing EXCEPT !.library = 1, !.replacing = 1],
   [Nothing EXCEPT !.refreshing = 1, !.replacing = 1, !.publishing = 2],
   [Nothing EXCEPT !.refreshing = 1, !.restarting = 1, !.publishing = 1]}
MCStartup == {[Nothing EXCEPT !.restarting = 1]}
=============================================================================
