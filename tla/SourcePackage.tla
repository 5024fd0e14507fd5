---------------------------- MODULE SourcePackage ----------------------------
(***************************************************************************)
(* What installing and removing one content source promises: the installed *)
(* package changes from one version to another, or to none, in one step,   *)
(* and what the backend has loaded is that version or nothing.             *)
(* SourceInstall implements it with a staging folder, renames and a        *)
(* rollback.                                                               *)
(***************************************************************************)
CONSTANTS Versions,  \* the versions of the package
          None       \* no package

VARIABLES package,   \* the version installed in the sources folder
          loaded     \* the version the running backend has registered

vars == <<package, loaded>>

Init == package = None /\ loaded = None

Install(v) == package' = v /\ loaded' = v

Uninstall == package' = None /\ loaded' = None

\* A changed setting makes the backend load the package again.
Reload ==
  /\ loaded' \in {package, None}
  /\ UNCHANGED package

Next == (\E v \in Versions : Install(v)) \/ Uninstall \/ Reload

Spec == Init /\ [][Next]_vars
=============================================================================
