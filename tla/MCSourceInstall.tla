--------------------------- MODULE MCSourceInstall ---------------------------
(***************************************************************************)
(* SourceInstall for TLC: three versions of one MangaYomi source, two in   *)
(* Dart and one in JavaScript, so that replacements keep the implementation*)
(* or switch it, with a sidecar that both have.                            *)
(***************************************************************************)
EXTENDS SourceInstall

CONSTANTS dart, js, json, v1, v2, v3

MCPackageOf == [v \in Versions |-> IF v = v3 THEN js ELSE dart]
=============================================================================
