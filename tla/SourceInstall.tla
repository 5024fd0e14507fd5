---------------------------- MODULE SourceInstall ----------------------------
(***************************************************************************)
(* Installing, replacing, reloading and removing one content source        *)
(* (shared/src/source_manager.rs: SourceInstallTransaction and the         *)
(* operations of SourceManager that use the sources folder).               *)
(*                                                                         *)
(* The handlers hold the source manager's mutex and do not await, so there *)
(* is one operation at a time; what comes between its file operations is a *)
(* failure of one of them, or the end of the process.  A MangaYomi         *)
(* package is the general case: its versions may be a Dart or a JavaScript *)
(* file, each with a sidecar.  The loops over artifacts take them in any   *)
(* order, which the names decide in the code.                              *)
(***************************************************************************)
EXTENDS Naturals, FiniteSets

CONSTANTS Packages,  \* the artifacts that may hold the code of the source
          Sidecars,  \* the artifacts every version has beside it
          Versions,
          PackageOf, \* the code artifact of each version
          None,
          Faults     \* what may go wrong

FaultKinds == {"stage", "backup", "publish", "verify", "unpublish", "restore",
               "remove", "load", "crash"}

ASSUME InstallConstants ==
  /\ PackageOf \in [Versions -> Packages]
  /\ Packages \cap Sidecars = {}
  /\ None \notin Versions
  /\ Faults \subseteq FaultKinds

VARIABLES
  folder,      \* the version of each artifact in the sources folder, or None
  staged,      \* the same for the staging directory
  backup,      \* the same for its rollback directory
  registered,  \* the version in sources_by_id
  pc,          \* where the running operation is
  version,     \* the version being installed
  todo,        \* the artifacts the current loop has not visited
  backedUp,    \* backed_up
  installed,   \* installed
  failed,      \* whether this rollback has met a failure
  retrying,    \* whether this is the second rollback, in drop
  prior,       \* the folder as the operation found it
  reply        \* the answer to the last request

vars == <<folder, staged, backup, registered, pc, version, todo, backedUp,
          installed, failed, retrying, prior, reply>>

Artifacts == Packages \cup Sidecars
Contents == [Artifacts -> Versions \cup {None}]
Steps == {"idle", "backup", "publish", "verify", "unpublish", "restore", "remove"}

Nothing == [a \in Artifacts |-> None]
In(f) == {a \in Artifacts : f[a] # None}

FilesOf(v) == [a \in Artifacts |-> IF a = PackageOf[v] \/ a \in Sidecars THEN v ELSE None]

\* load_source_package: code with its sidecars loads, whatever versions they
\* have; of two code files the later one is rejected as a duplicate.
Loadable(f) == {f[p] : p \in {q \in Packages : f[q] # None /\ Sidecars \subseteq In(f)}}

Init ==
  /\ folder = Nothing /\ staged = Nothing /\ backup = Nothing
  /\ registered = None
  /\ pc = "idle" /\ version = None /\ todo = {}
  /\ backedUp = {} /\ installed = {}
  /\ failed = FALSE /\ retrying = FALSE
  /\ prior = Nothing
  /\ reply = "none"

\* The staging directory is deleted with all it still holds.
CloseTransaction ==
  /\ pc' = "idle" /\ version' = None /\ todo' = {}
  /\ staged' = Nothing /\ backup' = Nothing
  /\ backedUp' = {} /\ installed' = {}
  /\ failed' = FALSE /\ retrying' = FALSE
  /\ prior' = Nothing

StartRollback ==
  /\ pc' = "unpublish" /\ todo' = installed /\ failed' = FALSE

-----------------------------------------------------------------------------
(* install_*_source: stage, publish_inner, verify, commit                   *)

\* Fault: only the artifacts of the new version are targets.
TargetsOfNew(v) == In(FilesOf(v))

\* Fault: a previous path that is not there becomes a target.
TargetsAndMissing(v) == Artifacts \cup {None}

\* install_transaction: both implementations, so that none stays behind.
Targets(v) == Artifacts

\* The new version is written to the staging directory and loaded from there.
Stage(v) ==
  /\ pc = "idle"
  /\ pc' = "backup" /\ version' = v /\ todo' = Targets(v)
  /\ staged' = FilesOf(v)
  /\ prior' = folder
  /\ reply' = "none"
  /\ UNCHANGED <<folder, backup, registered, backedUp, installed, failed, retrying>>

StageFails ==
  /\ pc = "idle" /\ "stage" \in Faults
  /\ reply' = "failed"
  /\ UNCHANGED <<folder, staged, backup, registered, pc, version, todo, backedUp,
                 installed, failed, retrying, prior>>

\* Fault: the prior artifact is deleted instead of moved.
BackUpDeletes(a) ==
  /\ pc = "backup" /\ a \in todo /\ folder[a] # None
  /\ folder' = [folder EXCEPT ![a] = None]
  /\ backedUp' = backedUp \cup {a}
  /\ todo' = todo \ {a}
  /\ UNCHANGED <<staged, backup, registered, pc, version, installed, failed,
                 retrying, prior, reply>>

BackUp(a) ==
  /\ pc = "backup" /\ a \in todo /\ folder[a] # None
  /\ backup' = [backup EXCEPT ![a] = folder[a]]
  /\ folder' = [folder EXCEPT ![a] = None]
  /\ backedUp' = backedUp \cup {a}
  /\ todo' = todo \ {a}
  /\ UNCHANGED <<staged, registered, pc, version, installed, failed, retrying,
                 prior, reply>>

BackedUp ==
  /\ pc = "backup" /\ todo \cap In(folder) = {}
  /\ pc' = "publish" /\ todo' = In(staged)
  /\ UNCHANGED <<folder, staged, backup, registered, version, backedUp, installed,
                 failed, retrying, prior, reply>>

Publish(a) ==
  /\ pc = "publish" /\ a \in todo
  /\ folder' = [folder EXCEPT ![a] = staged[a]]
  /\ staged' = [staged EXCEPT ![a] = None]
  /\ installed' = installed \cup {a}
  /\ todo' = todo \ {a}
  /\ UNCHANGED <<backup, registered, pc, version, backedUp, failed, retrying, prior,
                 reply>>

Published ==
  /\ pc = "publish" /\ todo = {}
  /\ pc' = "verify"
  /\ UNCHANGED <<folder, staged, backup, registered, version, todo, backedUp,
                 installed, failed, retrying, prior, reply>>

\* A rename fails, or the published package does not load: roll back.
BackUpFails ==
  /\ pc = "backup" /\ "backup" \in Faults /\ todo \cap In(folder) # {}
  /\ StartRollback
  /\ UNCHANGED <<folder, staged, backup, registered, version, backedUp, installed,
                 retrying, prior, reply>>

PublishFails ==
  /\ pc = "publish" /\ "publish" \in Faults /\ todo # {}
  /\ StartRollback
  /\ UNCHANGED <<folder, staged, backup, registered, version, backedUp, installed,
                 retrying, prior, reply>>

VerifyFails ==
  /\ pc = "verify" /\ "verify" \in Faults
  /\ StartRollback
  /\ UNCHANGED <<folder, staged, backup, registered, version, backedUp, installed,
                 retrying, prior, reply>>

Commit ==
  /\ pc = "verify"
  /\ registered' = version
  /\ reply' = "installed"
  /\ CloseTransaction
  /\ UNCHANGED folder

-----------------------------------------------------------------------------
(* rollback: first in publish or rollback_error, and again by drop when the *)
(* first one met a failure                                                  *)

Unpublish(a) ==
  /\ pc = "unpublish" /\ a \in todo
  /\ folder' = [folder EXCEPT ![a] = None]
  /\ installed' = installed \ {a}
  /\ todo' = todo \ {a}
  /\ UNCHANGED <<staged, backup, registered, pc, version, backedUp, failed, retrying,
                 prior, reply>>

UnpublishFails(a) ==
  /\ pc = "unpublish" /\ "unpublish" \in Faults /\ a \in todo
  /\ failed' = TRUE
  /\ todo' = todo \ {a}
  /\ UNCHANGED <<folder, staged, backup, registered, pc, version, backedUp, installed,
                 retrying, prior, reply>>

Unpublished ==
  /\ pc = "unpublish" /\ todo = {}
  /\ pc' = "restore" /\ todo' = backedUp
  /\ UNCHANGED <<folder, staged, backup, registered, version, backedUp, installed,
                 failed, retrying, prior, reply>>

\* The rename replaces what is there.
RestoreOne(a) ==
  /\ pc = "restore" /\ a \in todo
  /\ folder' = [folder EXCEPT ![a] = backup[a]]
  /\ backup' = [backup EXCEPT ![a] = None]
  /\ backedUp' = backedUp \ {a}
  /\ todo' = todo \ {a}
  /\ UNCHANGED <<staged, registered, pc, version, installed, failed, retrying, prior,
                 reply>>

RestoreFails(a) ==
  /\ pc = "restore" /\ "restore" \in Faults /\ a \in todo
  /\ failed' = TRUE
  /\ todo' = todo \ {a}
  /\ UNCHANGED <<folder, staged, backup, registered, pc, version, backedUp, installed,
                 retrying, prior, reply>>

RollBackAgain ==
  /\ pc = "restore" /\ todo = {} /\ failed /\ ~retrying
  /\ StartRollback
  /\ retrying' = TRUE
  /\ UNCHANGED <<folder, staged, backup, registered, version, backedUp, installed,
                 prior, reply>>

RolledBack ==
  /\ pc = "restore" /\ todo = {} /\ (failed => retrying)
  /\ CloseTransaction
  /\ reply' = "failed"
  /\ UNCHANGED <<folder, registered>>

-----------------------------------------------------------------------------
(* uninstall_any_source                                                     *)

Uninstall ==
  /\ pc = "idle"
  /\ pc' = "remove" /\ todo' = Artifacts
  /\ prior' = folder
  /\ reply' = "none"
  /\ UNCHANGED <<folder, staged, backup, registered, version, backedUp, installed,
                 failed, retrying>>

Remove(a) ==
  /\ pc = "remove" /\ a \in todo
  /\ folder' = [folder EXCEPT ![a] = None]
  /\ todo' = todo \ {a}
  /\ UNCHANGED <<staged, backup, registered, pc, version, backedUp, installed, failed,
                 retrying, prior, reply>>

\* Fault: the failure is passed over.
RemoveFailsOn ==
  /\ pc = "remove" /\ "remove" \in Faults
  /\ \E a \in todo \cap In(folder) : todo' = todo \ {a}
  /\ UNCHANGED <<folder, staged, backup, registered, pc, version, backedUp, installed,
                 failed, retrying, prior, reply>>

\* The source stays registered, so that the removal can be tried again.
RemoveFails ==
  /\ pc = "remove" /\ "remove" \in Faults /\ todo \cap In(folder) # {}
  /\ CloseTransaction
  /\ reply' = "failed"
  /\ UNCHANGED <<folder, registered>>

Removed ==
  /\ pc = "remove" /\ todo = {}
  /\ registered' = None
  /\ reply' = "uninstalled"
  /\ CloseTransaction
  /\ UNCHANGED folder

-----------------------------------------------------------------------------
(* update_settings and load_all_sources                                     *)

\* The source is dropped first, so a package that does not load is gone from
\* memory until the next start.
ReloadSource ==
  /\ pc = "idle" /\ registered # None
  /\ \/ /\ registered' \in Loadable(folder) /\ reply' = "none"
     \/ /\ "load" \in Faults \/ Loadable(folder) = {}
        /\ registered' = None /\ reply' = "failed"
  /\ UNCHANGED <<folder, staged, backup, pc, version, todo, backedUp, installed,
                 failed, retrying, prior>>

\* A restart loads what the folder holds; a staging directory that the old
\* process left is never looked at again.
Restart ==
  /\ pc = "idle" \/ "crash" \in Faults
  /\ \/ registered' \in Loadable(folder)
     \/ /\ "load" \in Faults \/ Loadable(folder) = {}
        /\ registered' = None
  /\ reply' = "none"
  /\ CloseTransaction
  /\ UNCHANGED folder

Next ==
  \/ \E v \in Versions : Stage(v)
  \/ StageFails \/ BackedUp \/ Published \/ BackUpFails \/ PublishFails
  \/ VerifyFails \/ Commit \/ Unpublished \/ RollBackAgain \/ RolledBack
  \/ \E a \in Artifacts :
       \/ BackUp(a) \/ Publish(a) \/ Unpublish(a) \/ UnpublishFails(a)
       \/ RestoreOne(a) \/ RestoreFails(a) \/ Remove(a)
  \/ Uninstall \/ RemoveFails \/ Removed \/ ReloadSource \/ Restart

Spec == Init /\ [][Next]_vars

-----------------------------------------------------------------------------
(* Properties.                                                              *)

Installing == pc \in {"backup", "publish", "verify", "unpublish", "restore"}

TypeOK ==
  /\ folder \in Contents /\ staged \in Contents /\ backup \in Contents
  /\ prior \in Contents
  /\ registered \in Versions \cup {None} /\ version \in Versions \cup {None}
  /\ pc \in Steps
  /\ todo \subseteq Artifacts /\ backedUp \subseteq Artifacts
  /\ installed \subseteq Artifacts
  /\ failed \in BOOLEAN /\ retrying \in BOOLEAN
  /\ reply \in {"none", "failed", "installed", "uninstalled"}

\* "Keeps the currently installed package recoverable while a staged
\* replacement is validated and published" (source_manager.rs:90-91): each
\* artifact of the prior package is in its place or in the rollback directory
\* from the first rename until the transaction is over.
PriorRecoverable ==
  Installing =>
    \A a \in In(prior) : prior[a] \in {folder[a], backup[a]}

\* What a request is told is so: an installed version has all its artifacts
\* in the folder and no other implementation beside it, and it is the one
\* that is registered; a removed source has left nothing.
ReportsTrue ==
  /\ reply = "installed" => registered \in Versions /\ folder = FilesOf(registered)
  /\ reply = "uninstalled" => registered = None /\ folder = Nothing

\* "Keep the prior package until the replacement loads"
\* (SOURCE-MANAGEMENT-SPEC.md:154): whenever an installation begins on a
\* complete package, what the folder holds when it is over is complete.
Complete(f) == f = Nothing \/ \E v \in Versions : f = FilesOf(v)
PackageKept ==
  [][Installing /\ pc' = "idle" /\ Complete(prior) /\ In(prior) # {} =>
       Complete(folder') /\ In(folder') # {}]_vars

-----------------------------------------------------------------------------
(* The refinement: during an operation the package is the prior one.        *)

PackageIn(f) ==
  IF f = Nothing THEN None
  ELSE IF Complete(f) THEN CHOOSE v \in Versions : f = FilesOf(v)
  ELSE "broken"

AbsPackage == PackageIn(IF pc = "idle" THEN folder ELSE prior)

Contract == INSTANCE SourcePackage WITH package <- AbsPackage, loaded <- registered

\* An installation and a removal happen in one step, or not at all, when no
\* rollback fails and the process does not end in the middle.
ImplementsSourcePackage == Contract!Spec
=============================================================================
