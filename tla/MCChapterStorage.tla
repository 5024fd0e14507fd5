-------------------------- MODULE MCChapterStorage --------------------------
(***************************************************************************)
(* Instances of ChapterStorage for TLC.  Two tasks and two or three        *)
(* chapters let downloads of the same chapter, evictions of the same       *)
(* victim and a delete meet; with a limit of one chapter every download    *)
(* evicts.  The word is small enough to wrap and large enough that only a  *)
(* subtraction below zero reaches its upper half.                          *)
(***************************************************************************)
EXTENDS ChapterStorage, TLC

CONSTANTS c1, c2, c3, t1, t2

Symmetry == Permutations(Tasks) \cup Permutations(Chapters)
=============================================================================
