------------------------------- MODULE Lines --------------------------------
(***************************************************************************)
(* Sequences that lose elements: everybody has at most one place in the    *)
(* line of a mutex, and in the files of a folder in the order of their     *)
(* modification; elements are picked by their places.                      *)
(***************************************************************************)
EXTENDS Naturals, SequencesExt, FiniteSets

\* Whoever leaves from anywhere, or is not there at all.
Without(s, x) == IF x \in ToSet(s) THEN RemoveAt(s, CHOOSE i \in DOMAIN s : s[i] = x) ELSE s

\* The elements at some places, in their order.
Place(places, n) == CHOOSE i \in places : Cardinality({j \in places : j <= i}) = n
Pick(s, places) == [n \in 1..Cardinality(places) |-> s[Place(places, n)]]
=============================================================================
