--------------------------- MODULE MCJobRegistry ---------------------------
(***************************************************************************)
(* Instances of JobRegistry for TLC.  With one permit and two chapter jobs *)
(* there is a queue; with one batch and one refresh both loops run; with   *)
(* two handlers a poll and a cancel, or two polls, overlap.                *)
(***************************************************************************)
EXTENDS JobRegistry, TLC

CONSTANTS c1, c2, b1, r1, h1, h2

ChapterAndBatch == {c1, b1}
ChaptersAndRefresh == {c1, c2, r1}
Chapters == {c1, c2}

HandlerSymmetry == Permutations(Handlers)
ChapterHandlerSymmetry == Permutations(Handlers) \cup Permutations(ChapterJobs)
=============================================================================
