---------------------------- MODULE MCSharedLocks ----------------------------
(***************************************************************************)
(* SharedLocks for TLC: every handler, three requests at a time.           *)
(***************************************************************************)
EXTENDS SharedLocks, TLC

CONSTANTS r1, r2, r3

AllHandlers == DOMAIN Script
Symmetry == Permutations(Requests)
=============================================================================
