------------------------ MODULE SourceInstallProofs ------------------------
(***************************************************************************)
(* Proofs about SourceInstall, for every set of versions and artifacts and *)
(* every set of faults the theorem does not exclude.  IInv says, step of   *)
(* the transaction by step, where each artifact of the prior and of the    *)
(* new package is.                                                         *)
(***************************************************************************)
EXTENDS SourceInstall, TLAPS

-----------------------------------------------------------------------------
(* The inductive invariant, part by part.                                   *)

RemovalsWork == "unpublish" \notin Faults

\* Outside a transaction there is no backup to restore.
IdleClean ==
  pc \in {"idle", "remove"} => backup = Nothing /\ backedUp = {} /\ installed = {}

\* The rollback directory holds prior artifacts, the ones backed_up lists.
Backups ==
  \A a \in Artifacts :
    /\ a \in backedUp <=> backup[a] # None
    /\ a \in backedUp => backup[a] = prior[a]

\* Until the last prior artifact is moved nothing is published.
BackingUp ==
  pc = "backup" =>
    /\ installed = {} /\ staged = FilesOf(version)
    /\ \A a \in Artifacts :
         /\ a \in todo => folder[a] = prior[a] /\ a \notin backedUp
         /\ a \notin todo => folder[a] = None /\ (prior[a] # None => a \in backedUp)

\* What is not yet published is staged, and the rest is in the folder.
Publishing ==
  pc = "publish" =>
    \A a \in Artifacts :
      /\ a \in todo => staged[a] = FilesOf(version)[a]
      /\ a \notin todo => folder[a] = FilesOf(version)[a]

Verifying == pc = "verify" => folder = FilesOf(version)

\* The whole prior package is in the rollback directory.
AllBackedUp ==
  pc \in {"publish", "verify"} =>
    \A a \in Artifacts : prior[a] # None => a \in backedUp

VersionKnown == pc \in {"backup", "publish", "verify"} => version \in Versions

\* A rollback removes what was published and restores what was backed up.
RollingBack ==
  /\ pc = "unpublish" => todo \subseteq installed /\ (RemovalsWork => todo = installed)
  /\ pc = "restore" => todo \subseteq backedUp /\ (RemovalsWork => installed = {})

\* A prior artifact that is not backed up is in its place, and no rollback
\* will remove it.
Recoverable ==
  Installing /\ RemovalsWork =>
    \A a \in Artifacts : prior[a] # None /\ a \notin backedUp =>
      folder[a] = prior[a] /\ a \notin installed

Removing == pc = "remove" => \A a \in Artifacts : a \notin todo => folder[a] = None

RepliesAtRest == reply \in {"installed", "uninstalled"} => pc = "idle"

Transaction == IdleClean /\ Backups /\ BackingUp /\ Publishing /\ Verifying
               /\ AllBackedUp /\ VersionKnown /\ RollingBack /\ Recoverable
Requests == Removing /\ RepliesAtRest /\ ReportsTrue

IInv == TypeOK /\ Transaction /\ Requests

LEMMA FilesType == ASSUME NEW v \in Versions PROVE FilesOf(v) \in Contents
  BY DEF FilesOf, Contents

LEMMA NothingType == Nothing \in Contents
  BY DEF Nothing, Contents

LEMMA LoadableType == ASSUME NEW f \in Contents PROVE Loadable(f) \subseteq Versions
  BY DEF Loadable, Contents, Artifacts

THEOREM InitIInv == Init => IInv
  BY NothingType DEF Init, IInv, TypeOK, Transaction, Requests, IdleClean, Backups,
     BackingUp, Publishing, Verifying, AllBackedUp, VersionKnown, RollingBack,
     Recoverable, Removing, RepliesAtRest, ReportsTrue, Installing, Nothing, Steps

LEMMA StageKeeps ==
  ASSUME IInv, NEW v \in Versions, Stage(v)
  PROVE  IInv'
<1>. USE DEF Stage, Targets
<1>1. TypeOK'
  BY FilesType, NothingType, LoadableType DEF IInv, TypeOK, Steps, Contents, In
<1>2. Transaction'
  BY FilesType, NothingType DEF IInv, TypeOK, Steps, Contents, In, Nothing, FilesOf, Transaction,
     IdleClean, Backups, BackingUp, Publishing, Verifying, AllBackedUp,
     VersionKnown, RollingBack, Recoverable, Installing, RemovalsWork
<1>3. Requests'
  BY DEF IInv, TypeOK, Steps, Contents, In, Nothing, Requests, Removing, RepliesAtRest, ReportsTrue,
     Transaction, Verifying, VersionKnown, BackingUp, Publishing
<1>. QED
  BY <1>1, <1>2, <1>3 DEF IInv

LEMMA StageFailsKeeps ==
  ASSUME IInv, StageFails
  PROVE  IInv'
<1>. USE DEF StageFails
<1>1. TypeOK'
  BY FilesType, NothingType, LoadableType DEF IInv, TypeOK, Steps, Contents, In
<1>2. Transaction'
  BY FilesType, NothingType DEF IInv, TypeOK, Steps, Contents, In, Nothing, FilesOf, Transaction,
     IdleClean, Backups, BackingUp, Publishing, Verifying, AllBackedUp,
     VersionKnown, RollingBack, Recoverable, Installing, RemovalsWork
<1>3. Requests'
  BY DEF IInv, TypeOK, Steps, Contents, In, Nothing, Requests, Removing, RepliesAtRest, ReportsTrue,
     Transaction, Verifying, VersionKnown, BackingUp, Publishing
<1>. QED
  BY <1>1, <1>2, <1>3 DEF IInv

LEMMA BackedUpKeeps ==
  ASSUME IInv, BackedUp
  PROVE  IInv'
<1>. USE DEF BackedUp
<1>1. TypeOK'
  BY FilesType, NothingType, LoadableType DEF IInv, TypeOK, Steps, Contents, In
<1>2. Transaction'
  BY FilesType, NothingType DEF IInv, TypeOK, Steps, Contents, In, Nothing, FilesOf, Transaction,
     IdleClean, Backups, BackingUp, Publishing, Verifying, AllBackedUp,
     VersionKnown, RollingBack, Recoverable, Installing, RemovalsWork
<1>3. Requests'
  BY DEF IInv, TypeOK, Steps, Contents, In, Nothing, Requests, Removing, RepliesAtRest, ReportsTrue,
     Transaction, Verifying, VersionKnown, BackingUp, Publishing
<1>. QED
  BY <1>1, <1>2, <1>3 DEF IInv

LEMMA PublishedKeeps ==
  ASSUME IInv, Published
  PROVE  IInv'
<1>. USE DEF Published
<1>1. TypeOK'
  BY FilesType, NothingType, LoadableType DEF IInv, TypeOK, Steps, Contents, In
<1>2. Transaction'
  BY FilesType, NothingType DEF IInv, TypeOK, Steps, Contents, In, Nothing, FilesOf, Transaction,
     IdleClean, Backups, BackingUp, Publishing, Verifying, AllBackedUp,
     VersionKnown, RollingBack, Recoverable, Installing, RemovalsWork
<1>3. Requests'
  BY DEF IInv, TypeOK, Steps, Contents, In, Nothing, Requests, Removing, RepliesAtRest, ReportsTrue,
     Transaction, Verifying, VersionKnown, BackingUp, Publishing
<1>. QED
  BY <1>1, <1>2, <1>3 DEF IInv

LEMMA BackUpFailsKeeps ==
  ASSUME IInv, BackUpFails
  PROVE  IInv'
<1>. USE DEF BackUpFails, StartRollback
<1>1. TypeOK'
  BY FilesType, NothingType, LoadableType DEF IInv, TypeOK, Steps, Contents, In
<1>2. Transaction'
  BY FilesType, NothingType DEF IInv, TypeOK, Steps, Contents, In, Nothing, FilesOf, Transaction,
     IdleClean, Backups, BackingUp, Publishing, Verifying, AllBackedUp,
     VersionKnown, RollingBack, Recoverable, Installing, RemovalsWork
<1>3. Requests'
  BY DEF IInv, TypeOK, Steps, Contents, In, Nothing, Requests, Removing, RepliesAtRest, ReportsTrue,
     Transaction, Verifying, VersionKnown, BackingUp, Publishing
<1>. QED
  BY <1>1, <1>2, <1>3 DEF IInv

LEMMA PublishFailsKeeps ==
  ASSUME IInv, PublishFails
  PROVE  IInv'
<1>. USE DEF PublishFails, StartRollback
<1>1. TypeOK'
  BY FilesType, NothingType, LoadableType DEF IInv, TypeOK, Steps, Contents, In
<1>2. Transaction'
  BY FilesType, NothingType DEF IInv, TypeOK, Steps, Contents, In, Nothing, FilesOf, Transaction,
     IdleClean, Backups, BackingUp, Publishing, Verifying, AllBackedUp,
     VersionKnown, RollingBack, Recoverable, Installing, RemovalsWork
<1>3. Requests'
  BY DEF IInv, TypeOK, Steps, Contents, In, Nothing, Requests, Removing, RepliesAtRest, ReportsTrue,
     Transaction, Verifying, VersionKnown, BackingUp, Publishing
<1>. QED
  BY <1>1, <1>2, <1>3 DEF IInv

LEMMA VerifyFailsKeeps ==
  ASSUME IInv, VerifyFails
  PROVE  IInv'
<1>. USE DEF VerifyFails, StartRollback
<1>1. TypeOK'
  BY FilesType, NothingType, LoadableType DEF IInv, TypeOK, Steps, Contents, In
<1>2. Transaction'
  BY FilesType, NothingType DEF IInv, TypeOK, Steps, Contents, In, Nothing, FilesOf, Transaction,
     IdleClean, Backups, BackingUp, Publishing, Verifying, AllBackedUp,
     VersionKnown, RollingBack, Recoverable, Installing, RemovalsWork
<1>3. Requests'
  BY DEF IInv, TypeOK, Steps, Contents, In, Nothing, Requests, Removing, RepliesAtRest, ReportsTrue,
     Transaction, Verifying, VersionKnown, BackingUp, Publishing
<1>. QED
  BY <1>1, <1>2, <1>3 DEF IInv

LEMMA CommitKeeps ==
  ASSUME IInv, Commit
  PROVE  IInv'
<1>. USE DEF Commit, CloseTransaction
<1>1. TypeOK'
  BY FilesType, NothingType, LoadableType DEF IInv, TypeOK, Steps, Contents, In
<1>2. Transaction'
  BY FilesType, NothingType DEF IInv, TypeOK, Steps, Contents, In, Nothing, FilesOf, Transaction,
     IdleClean, Backups, BackingUp, Publishing, Verifying, AllBackedUp,
     VersionKnown, RollingBack, Recoverable, Installing, RemovalsWork
<1>3. Requests'
  BY DEF IInv, TypeOK, Steps, Contents, In, Nothing, Requests, Removing, RepliesAtRest, ReportsTrue,
     Transaction, Verifying, VersionKnown, BackingUp, Publishing
<1>. QED
  BY <1>1, <1>2, <1>3 DEF IInv

LEMMA UnpublishedKeeps ==
  ASSUME IInv, Unpublished
  PROVE  IInv'
<1>. USE DEF Unpublished
<1>1. TypeOK'
  BY FilesType, NothingType, LoadableType DEF IInv, TypeOK, Steps, Contents, In
<1>2. Transaction'
  BY FilesType, NothingType DEF IInv, TypeOK, Steps, Contents, In, Nothing, FilesOf, Transaction,
     IdleClean, Backups, BackingUp, Publishing, Verifying, AllBackedUp,
     VersionKnown, RollingBack, Recoverable, Installing, RemovalsWork
<1>3. Requests'
  BY DEF IInv, TypeOK, Steps, Contents, In, Nothing, Requests, Removing, RepliesAtRest, ReportsTrue,
     Transaction, Verifying, VersionKnown, BackingUp, Publishing
<1>. QED
  BY <1>1, <1>2, <1>3 DEF IInv

LEMMA RollBackAgainKeeps ==
  ASSUME IInv, RollBackAgain
  PROVE  IInv'
<1>. USE DEF RollBackAgain, StartRollback
<1>1. TypeOK'
  BY FilesType, NothingType, LoadableType DEF IInv, TypeOK, Steps, Contents, In
<1>2. Transaction'
  BY FilesType, NothingType DEF IInv, TypeOK, Steps, Contents, In, Nothing, FilesOf, Transaction,
     IdleClean, Backups, BackingUp, Publishing, Verifying, AllBackedUp,
     VersionKnown, RollingBack, Recoverable, Installing, RemovalsWork
<1>3. Requests'
  BY DEF IInv, TypeOK, Steps, Contents, In, Nothing, Requests, Removing, RepliesAtRest, ReportsTrue,
     Transaction, Verifying, VersionKnown, BackingUp, Publishing
<1>. QED
  BY <1>1, <1>2, <1>3 DEF IInv

LEMMA RolledBackKeeps ==
  ASSUME IInv, RolledBack
  PROVE  IInv'
<1>. USE DEF RolledBack, CloseTransaction
<1>1. TypeOK'
  BY FilesType, NothingType, LoadableType DEF IInv, TypeOK, Steps, Contents, In
<1>2. Transaction'
  BY FilesType, NothingType DEF IInv, TypeOK, Steps, Contents, In, Nothing, FilesOf, Transaction,
     IdleClean, Backups, BackingUp, Publishing, Verifying, AllBackedUp,
     VersionKnown, RollingBack, Recoverable, Installing, RemovalsWork
<1>3. Requests'
  BY DEF IInv, TypeOK, Steps, Contents, In, Nothing, Requests, Removing, RepliesAtRest, ReportsTrue,
     Transaction, Verifying, VersionKnown, BackingUp, Publishing
<1>. QED
  BY <1>1, <1>2, <1>3 DEF IInv

LEMMA UninstallKeeps ==
  ASSUME IInv, Uninstall
  PROVE  IInv'
<1>. USE DEF Uninstall
<1>1. TypeOK'
  BY FilesType, NothingType, LoadableType DEF IInv, TypeOK, Steps, Contents, In
<1>2. Transaction'
  BY FilesType, NothingType DEF IInv, TypeOK, Steps, Contents, In, Nothing, FilesOf, Transaction,
     IdleClean, Backups, BackingUp, Publishing, Verifying, AllBackedUp,
     VersionKnown, RollingBack, Recoverable, Installing, RemovalsWork
<1>3. Requests'
  BY DEF IInv, TypeOK, Steps, Contents, In, Nothing, Requests, Removing, RepliesAtRest, ReportsTrue,
     Transaction, Verifying, VersionKnown, BackingUp, Publishing
<1>. QED
  BY <1>1, <1>2, <1>3 DEF IInv

LEMMA RemoveFailsKeeps ==
  ASSUME IInv, RemoveFails
  PROVE  IInv'
<1>. USE DEF RemoveFails, CloseTransaction
<1>1. TypeOK'
  BY FilesType, NothingType, LoadableType DEF IInv, TypeOK, Steps, Contents, In
<1>2. Transaction'
  BY FilesType, NothingType DEF IInv, TypeOK, Steps, Contents, In, Nothing, FilesOf, Transaction,
     IdleClean, Backups, BackingUp, Publishing, Verifying, AllBackedUp,
     VersionKnown, RollingBack, Recoverable, Installing, RemovalsWork
<1>3. Requests'
  BY DEF IInv, TypeOK, Steps, Contents, In, Nothing, Requests, Removing, RepliesAtRest, ReportsTrue,
     Transaction, Verifying, VersionKnown, BackingUp, Publishing
<1>. QED
  BY <1>1, <1>2, <1>3 DEF IInv

LEMMA RemovedKeeps ==
  ASSUME IInv, Removed
  PROVE  IInv'
<1>. USE DEF Removed, CloseTransaction
<1>1. TypeOK'
  BY FilesType, NothingType, LoadableType DEF IInv, TypeOK, Steps, Contents, In
<1>2. Transaction'
  BY FilesType, NothingType DEF IInv, TypeOK, Steps, Contents, In, Nothing, FilesOf, Transaction,
     IdleClean, Backups, BackingUp, Publishing, Verifying, AllBackedUp,
     VersionKnown, RollingBack, Recoverable, Installing, RemovalsWork
<1>3. Requests'
  BY DEF IInv, TypeOK, Steps, Contents, In, Nothing, Requests, Removing, RepliesAtRest, ReportsTrue,
     Transaction, Verifying, VersionKnown, BackingUp, Publishing
<1>. QED
  BY <1>1, <1>2, <1>3 DEF IInv

LEMMA ReloadSourceKeeps ==
  ASSUME IInv, ReloadSource
  PROVE  IInv'
<1>. USE DEF ReloadSource
<1>1. TypeOK'
  BY FilesType, NothingType, LoadableType DEF IInv, TypeOK, Steps, Contents, In
<1>2. Transaction'
  BY FilesType, NothingType DEF IInv, TypeOK, Steps, Contents, In, Nothing, FilesOf, Transaction,
     IdleClean, Backups, BackingUp, Publishing, Verifying, AllBackedUp,
     VersionKnown, RollingBack, Recoverable, Installing, RemovalsWork
<1>3. Requests'
  BY DEF IInv, TypeOK, Steps, Contents, In, Nothing, Requests, Removing, RepliesAtRest, ReportsTrue,
     Transaction, Verifying, VersionKnown, BackingUp, Publishing
<1>. QED
  BY <1>1, <1>2, <1>3 DEF IInv

LEMMA RestartKeeps ==
  ASSUME IInv, Restart
  PROVE  IInv'
<1>. USE DEF Restart, CloseTransaction
<1>1. TypeOK'
  BY FilesType, NothingType, LoadableType DEF IInv, TypeOK, Steps, Contents, In
<1>2. Transaction'
  BY FilesType, NothingType DEF IInv, TypeOK, Steps, Contents, In, Nothing, FilesOf, Transaction,
     IdleClean, Backups, BackingUp, Publishing, Verifying, AllBackedUp,
     VersionKnown, RollingBack, Recoverable, Installing, RemovalsWork
<1>3. Requests'
  BY DEF IInv, TypeOK, Steps, Contents, In, Nothing, Requests, Removing, RepliesAtRest, ReportsTrue,
     Transaction, Verifying, VersionKnown, BackingUp, Publishing
<1>. QED
  BY <1>1, <1>2, <1>3 DEF IInv

LEMMA BackUpKeeps ==
  ASSUME IInv, NEW a \in Artifacts, BackUp(a)
  PROVE  IInv'
<1>. USE DEF BackUp
<1>1. TypeOK'
  BY FilesType, NothingType, LoadableType DEF IInv, TypeOK, Steps, Contents, In
<1>2. Transaction'
  BY FilesType, NothingType DEF IInv, TypeOK, Steps, Contents, In, Nothing, FilesOf, Transaction,
     IdleClean, Backups, BackingUp, Publishing, Verifying, AllBackedUp,
     VersionKnown, RollingBack, Recoverable, Installing, RemovalsWork
<1>3. Requests'
  BY DEF IInv, TypeOK, Steps, Contents, In, Nothing, Requests, Removing, RepliesAtRest, ReportsTrue,
     Transaction, Verifying, VersionKnown, BackingUp, Publishing
<1>. QED
  BY <1>1, <1>2, <1>3 DEF IInv

LEMMA PublishKeeps ==
  ASSUME IInv, NEW a \in Artifacts, Publish(a)
  PROVE  IInv'
<1>. USE DEF Publish
<1>1. TypeOK'
  BY FilesType, NothingType, LoadableType DEF IInv, TypeOK, Steps, Contents, In
<1>2. Transaction'
  BY FilesType, NothingType DEF IInv, TypeOK, Steps, Contents, In, Nothing, FilesOf, Transaction,
     IdleClean, Backups, BackingUp, Publishing, Verifying, AllBackedUp,
     VersionKnown, RollingBack, Recoverable, Installing, RemovalsWork
<1>3. Requests'
  BY DEF IInv, TypeOK, Steps, Contents, In, Nothing, Requests, Removing, RepliesAtRest, ReportsTrue,
     Transaction, Verifying, VersionKnown, BackingUp, Publishing
<1>. QED
  BY <1>1, <1>2, <1>3 DEF IInv

LEMMA UnpublishKeeps ==
  ASSUME IInv, NEW a \in Artifacts, Unpublish(a)
  PROVE  IInv'
<1>. USE DEF Unpublish
<1>1. TypeOK'
  BY FilesType, NothingType, LoadableType DEF IInv, TypeOK, Steps, Contents, In
<1>2. Transaction'
  BY FilesType, NothingType DEF IInv, TypeOK, Steps, Contents, In, Nothing, FilesOf, Transaction,
     IdleClean, Backups, BackingUp, Publishing, Verifying, AllBackedUp,
     VersionKnown, RollingBack, Recoverable, Installing, RemovalsWork
<1>3. Requests'
  BY DEF IInv, TypeOK, Steps, Contents, In, Nothing, Requests, Removing, RepliesAtRest, ReportsTrue,
     Transaction, Verifying, VersionKnown, BackingUp, Publishing
<1>. QED
  BY <1>1, <1>2, <1>3 DEF IInv

LEMMA UnpublishFailsKeeps ==
  ASSUME IInv, NEW a \in Artifacts, UnpublishFails(a)
  PROVE  IInv'
<1>. USE DEF UnpublishFails
<1>1. TypeOK'
  BY FilesType, NothingType, LoadableType DEF IInv, TypeOK, Steps, Contents, In
<1>2. Transaction'
  BY FilesType, NothingType DEF IInv, TypeOK, Steps, Contents, In, Nothing, FilesOf, Transaction,
     IdleClean, Backups, BackingUp, Publishing, Verifying, AllBackedUp,
     VersionKnown, RollingBack, Recoverable, Installing, RemovalsWork
<1>3. Requests'
  BY DEF IInv, TypeOK, Steps, Contents, In, Nothing, Requests, Removing, RepliesAtRest, ReportsTrue,
     Transaction, Verifying, VersionKnown, BackingUp, Publishing
<1>. QED
  BY <1>1, <1>2, <1>3 DEF IInv

LEMMA RestoreOneKeeps ==
  ASSUME IInv, NEW a \in Artifacts, RestoreOne(a)
  PROVE  IInv'
<1>. USE DEF RestoreOne
<1>1. TypeOK'
  BY FilesType, NothingType, LoadableType DEF IInv, TypeOK, Steps, Contents, In
<1>2. Transaction'
  BY FilesType, NothingType DEF IInv, TypeOK, Steps, Contents, In, Nothing, FilesOf, Transaction,
     IdleClean, Backups, BackingUp, Publishing, Verifying, AllBackedUp,
     VersionKnown, RollingBack, Recoverable, Installing, RemovalsWork
<1>3. Requests'
  BY DEF IInv, TypeOK, Steps, Contents, In, Nothing, Requests, Removing, RepliesAtRest, ReportsTrue,
     Transaction, Verifying, VersionKnown, BackingUp, Publishing
<1>. QED
  BY <1>1, <1>2, <1>3 DEF IInv

LEMMA RestoreFailsKeeps ==
  ASSUME IInv, NEW a \in Artifacts, RestoreFails(a)
  PROVE  IInv'
<1>. USE DEF RestoreFails
<1>1. TypeOK'
  BY FilesType, NothingType, LoadableType DEF IInv, TypeOK, Steps, Contents, In
<1>2. Transaction'
  BY FilesType, NothingType DEF IInv, TypeOK, Steps, Contents, In, Nothing, FilesOf, Transaction,
     IdleClean, Backups, BackingUp, Publishing, Verifying, AllBackedUp,
     VersionKnown, RollingBack, Recoverable, Installing, RemovalsWork
<1>3. Requests'
  BY DEF IInv, TypeOK, Steps, Contents, In, Nothing, Requests, Removing, RepliesAtRest, ReportsTrue,
     Transaction, Verifying, VersionKnown, BackingUp, Publishing
<1>. QED
  BY <1>1, <1>2, <1>3 DEF IInv

LEMMA RemoveKeeps ==
  ASSUME IInv, NEW a \in Artifacts, Remove(a)
  PROVE  IInv'
<1>. USE DEF Remove
<1>1. TypeOK'
  BY FilesType, NothingType, LoadableType DEF IInv, TypeOK, Steps, Contents, In
<1>2. Transaction'
  BY FilesType, NothingType DEF IInv, TypeOK, Steps, Contents, In, Nothing, FilesOf, Transaction,
     IdleClean, Backups, BackingUp, Publishing, Verifying, AllBackedUp,
     VersionKnown, RollingBack, Recoverable, Installing, RemovalsWork
<1>3. Requests'
  BY DEF IInv, TypeOK, Steps, Contents, In, Nothing, Requests, Removing, RepliesAtRest, ReportsTrue,
     Transaction, Verifying, VersionKnown, BackingUp, Publishing
<1>. QED
  BY <1>1, <1>2, <1>3 DEF IInv

LEMMA NextKeepsIInv ==
  ASSUME IInv, [Next]_vars
  PROVE  IInv'
<1>1. CASE UNCHANGED vars
  BY <1>1 DEF vars, IInv, TypeOK, Transaction, Requests, IdleClean, Backups,
     BackingUp, Publishing, Verifying, AllBackedUp, VersionKnown, RollingBack,
     Recoverable, Removing, RepliesAtRest, ReportsTrue, Installing
<1>2. CASE \E v \in Versions : Stage(v)
  BY <1>2, StageKeeps
<1>3. CASE StageFails
  BY <1>3, StageFailsKeeps
<1>4. CASE BackedUp
  BY <1>4, BackedUpKeeps
<1>5. CASE Published
  BY <1>5, PublishedKeeps
<1>6. CASE BackUpFails
  BY <1>6, BackUpFailsKeeps
<1>7. CASE PublishFails
  BY <1>7, PublishFailsKeeps
<1>8. CASE VerifyFails
  BY <1>8, VerifyFailsKeeps
<1>9. CASE Commit
  BY <1>9, CommitKeeps
<1>10. CASE Unpublished
  BY <1>10, UnpublishedKeeps
<1>11. CASE RollBackAgain
  BY <1>11, RollBackAgainKeeps
<1>12. CASE RolledBack
  BY <1>12, RolledBackKeeps
<1>13. CASE Uninstall
  BY <1>13, UninstallKeeps
<1>14. CASE RemoveFails
  BY <1>14, RemoveFailsKeeps
<1>15. CASE Removed
  BY <1>15, RemovedKeeps
<1>16. CASE ReloadSource
  BY <1>16, ReloadSourceKeeps
<1>17. CASE Restart
  BY <1>17, RestartKeeps
<1>18. CASE \E a \in Artifacts : BackUp(a)
  BY <1>18, BackUpKeeps
<1>19. CASE \E a \in Artifacts : Publish(a)
  BY <1>19, PublishKeeps
<1>20. CASE \E a \in Artifacts : Unpublish(a)
  BY <1>20, UnpublishKeeps
<1>21. CASE \E a \in Artifacts : UnpublishFails(a)
  BY <1>21, UnpublishFailsKeeps
<1>22. CASE \E a \in Artifacts : RestoreOne(a)
  BY <1>22, RestoreOneKeeps
<1>23. CASE \E a \in Artifacts : RestoreFails(a)
  BY <1>23, RestoreFailsKeeps
<1>24. CASE \E a \in Artifacts : Remove(a)
  BY <1>24, RemoveKeeps
<1>. QED
  BY <1>1, <1>2, <1>3, <1>4, <1>5, <1>6, <1>7, <1>8, <1>9, <1>10, <1>11,
     <1>12, <1>13, <1>14, <1>15, <1>16, <1>17, <1>18, <1>19, <1>20,
     <1>21, <1>22, <1>23, <1>24 DEF Next

THEOREM Invariance == Spec => []IInv
  BY InitIInv, NextKeepsIInv, PTL DEF Spec

\* Every variable of the installation keeps its type.
THEOREM TypeCorrect == Spec => []TypeOK
<1>. IInv => TypeOK
  BY DEF IInv
<1>. QED
  BY Invariance, PTL

\* What a request is told about an installation or a removal is true of the
\* folder and of the registration, whatever fails and wherever it crashes.
THEOREM RepliesTrue == Spec => []ReportsTrue
<1>. IInv => ReportsTrue
  BY DEF IInv, Requests
<1>. QED
  BY Invariance, PTL

\* Unless a rollback fails to remove a published artifact, each prior artifact
\* is in its place or in the rollback directory during the transaction.
THEOREM PriorStays ==
  ASSUME RemovalsWork
  PROVE  Spec => []PriorRecoverable
<1>. IInv => PriorRecoverable
  BY DEF IInv, TypeOK, Contents, Transaction, Recoverable, Backups, PriorRecoverable, In
<1>. QED
  BY Invariance, PTL

-----------------------------------------------------------------------------
(* The refinement of SourcePackage, when no rollback or removal fails and   *)
(* the process does not end in the middle of an operation.                  *)

FaultsOutside == Faults \cap {"unpublish", "restore", "remove", "crash"} = {}

\* Operations begin and end on a complete package.
WholeBetween == IF pc = "idle" THEN Complete(folder) ELSE Complete(prior)

\* An artifact that is neither published nor backed up is the prior one.
Covered ==
  Installing =>
    \A a \in Artifacts : a \in installed \/ a \in backedUp \/ folder[a] = prior[a]

RestoresAll ==
  /\ pc \in {"unpublish", "restore"} => ~failed
  /\ pc = "restore" => todo = backedUp

LoadedIsInstalled == registered \in {AbsPackage, None}

RInv == WholeBetween /\ Covered /\ RestoresAll /\ LoadedIsInstalled

LEMMA EmptyHasNone == PackageIn(Nothing) = None
  BY DEF PackageIn

LEMMA FilesHaveVersion == ASSUME NEW v \in Versions PROVE PackageIn(FilesOf(v)) = v
<1>1. \A w \in Versions : FilesOf(w)[PackageOf[w]] = w /\ PackageOf[w] \in Artifacts
  BY InstallConstants DEF FilesOf, Artifacts
<1>2. FilesOf(v) # Nothing
  BY <1>1, InstallConstants DEF Nothing
<1>3. ASSUME NEW w \in Versions, FilesOf(v) = FilesOf(w) PROVE w = v
  <2>1. FilesOf(w)[PackageOf[v]] = v /\ PackageOf[v] \in Artifacts
    BY <1>1, <1>3
  <2>2. FilesOf(w)[PackageOf[v]] \in {w, None}
    BY <2>1 DEF FilesOf
  <2>. QED
    BY <2>1, <2>2, InstallConstants
<1>. QED
  BY <1>2, <1>3 DEF PackageIn, Complete

LEMMA LoadsInstalled ==
  ASSUME NEW f \in Contents, Complete(f)
  PROVE  Loadable(f) \subseteq {PackageIn(f)}
<1>1. CASE f = Nothing
  BY <1>1 DEF Loadable, Nothing, Artifacts
<1>2. CASE \E v \in Versions : f = FilesOf(v)
  <2>1. PICK v \in Versions : f = FilesOf(v)
    BY <1>2
  <2>2. \A q \in Packages : f[q] # None => f[q] = v
    BY <2>1, InstallConstants DEF FilesOf, Artifacts
  <2>. QED
    BY <2>1, <2>2, FilesHaveVersion DEF Loadable
<1>. QED
  BY <1>1, <1>2 DEF Complete

LEMMA InitRefines == Init => RInv /\ Contract!Init
  BY EmptyHasNone DEF Init, RInv, WholeBetween, Covered, RestoresAll, LoadedIsInstalled,
     AbsPackage, Complete, Installing, Contract!Init

LEMMA BackedUpRefines ==
  ASSUME IInv, RInv, FaultsOutside, BackedUp
  PROVE  RInv' /\ [Contract!Next]_(Contract!vars)
  BY DEF BackedUp, IInv, TypeOK, Contents, In, Transaction, IdleClean,
     Backups, BackingUp, RollingBack, Recoverable, RemovalsWork, FaultsOutside, RInv, WholeBetween, Covered, RestoresAll,
     LoadedIsInstalled, AbsPackage, Installing,
     Contract!vars

LEMMA PublishedRefines ==
  ASSUME IInv, RInv, FaultsOutside, Published
  PROVE  RInv' /\ [Contract!Next]_(Contract!vars)
  BY DEF Published, IInv, TypeOK, Contents, In, Transaction, IdleClean,
     Backups, BackingUp, RollingBack, Recoverable, RemovalsWork, FaultsOutside, RInv, WholeBetween, Covered, RestoresAll,
     LoadedIsInstalled, AbsPackage, Installing,
     Contract!vars

LEMMA BackUpFailsRefines ==
  ASSUME IInv, RInv, FaultsOutside, BackUpFails
  PROVE  RInv' /\ [Contract!Next]_(Contract!vars)
  BY DEF BackUpFails, StartRollback, IInv, TypeOK, Contents, In, Transaction, IdleClean,
     Backups, BackingUp, RollingBack, Recoverable, RemovalsWork, FaultsOutside, RInv, WholeBetween, Covered, RestoresAll,
     LoadedIsInstalled, AbsPackage, Installing,
     Contract!vars

LEMMA PublishFailsRefines ==
  ASSUME IInv, RInv, FaultsOutside, PublishFails
  PROVE  RInv' /\ [Contract!Next]_(Contract!vars)
  BY DEF PublishFails, StartRollback, IInv, TypeOK, Contents, In, Transaction, IdleClean,
     Backups, BackingUp, RollingBack, Recoverable, RemovalsWork, FaultsOutside, RInv, WholeBetween, Covered, RestoresAll,
     LoadedIsInstalled, AbsPackage, Installing,
     Contract!vars

LEMMA VerifyFailsRefines ==
  ASSUME IInv, RInv, FaultsOutside, VerifyFails
  PROVE  RInv' /\ [Contract!Next]_(Contract!vars)
  BY DEF VerifyFails, StartRollback, IInv, TypeOK, Contents, In, Transaction, IdleClean,
     Backups, BackingUp, RollingBack, Recoverable, RemovalsWork, FaultsOutside, RInv, WholeBetween, Covered, RestoresAll,
     LoadedIsInstalled, AbsPackage, Installing,
     Contract!vars

LEMMA UnpublishedRefines ==
  ASSUME IInv, RInv, FaultsOutside, Unpublished
  PROVE  RInv' /\ [Contract!Next]_(Contract!vars)
  BY DEF Unpublished, IInv, TypeOK, Contents, In, Transaction, IdleClean,
     Backups, BackingUp, RollingBack, Recoverable, RemovalsWork, FaultsOutside, RInv, WholeBetween, Covered, RestoresAll,
     LoadedIsInstalled, AbsPackage, Installing,
     Contract!vars

LEMMA RollBackAgainRefines ==
  ASSUME IInv, RInv, FaultsOutside, RollBackAgain
  PROVE  RInv' /\ [Contract!Next]_(Contract!vars)
  BY DEF RollBackAgain, StartRollback, IInv, TypeOK, Contents, In, Transaction, IdleClean,
     Backups, BackingUp, RollingBack, Recoverable, RemovalsWork, FaultsOutside, RInv, WholeBetween, Covered, RestoresAll,
     LoadedIsInstalled, AbsPackage, Installing,
     Contract!vars

LEMMA BackUpRefines ==
  ASSUME IInv, RInv, FaultsOutside, NEW a \in Artifacts, BackUp(a)
  PROVE  RInv' /\ [Contract!Next]_(Contract!vars)
  BY DEF BackUp, IInv, TypeOK, Contents, In, Transaction, IdleClean,
     Backups, BackingUp, RollingBack, Recoverable, RemovalsWork, FaultsOutside, RInv, WholeBetween, Covered, RestoresAll,
     LoadedIsInstalled, AbsPackage, Installing,
     Contract!vars

LEMMA PublishRefines ==
  ASSUME IInv, RInv, FaultsOutside, NEW a \in Artifacts, Publish(a)
  PROVE  RInv' /\ [Contract!Next]_(Contract!vars)
  BY DEF Publish, IInv, TypeOK, Contents, In, Transaction, IdleClean,
     Backups, BackingUp, RollingBack, Recoverable, RemovalsWork, FaultsOutside, RInv, WholeBetween, Covered, RestoresAll,
     LoadedIsInstalled, AbsPackage, Installing,
     Contract!vars

LEMMA UnpublishRefines ==
  ASSUME IInv, RInv, FaultsOutside, NEW a \in Artifacts, Unpublish(a)
  PROVE  RInv' /\ [Contract!Next]_(Contract!vars)
  BY DEF Unpublish, IInv, TypeOK, Contents, In, Transaction, IdleClean,
     Backups, BackingUp, RollingBack, Recoverable, RemovalsWork, FaultsOutside, RInv, WholeBetween, Covered, RestoresAll,
     LoadedIsInstalled, AbsPackage, Installing,
     Contract!vars

LEMMA RestoreOneRefines ==
  ASSUME IInv, RInv, FaultsOutside, NEW a \in Artifacts, RestoreOne(a)
  PROVE  RInv' /\ [Contract!Next]_(Contract!vars)
  BY DEF RestoreOne, IInv, TypeOK, Contents, In, Transaction, IdleClean,
     Backups, BackingUp, RollingBack, Recoverable, RemovalsWork, FaultsOutside, RInv, WholeBetween, Covered, RestoresAll,
     LoadedIsInstalled, AbsPackage, Installing,
     Contract!vars

LEMMA RemoveRefines ==
  ASSUME IInv, RInv, FaultsOutside, NEW a \in Artifacts, Remove(a)
  PROVE  RInv' /\ [Contract!Next]_(Contract!vars)
  BY DEF Remove, IInv, TypeOK, Contents, In, Transaction, IdleClean,
     Backups, BackingUp, RollingBack, Recoverable, RemovalsWork, FaultsOutside, RInv, WholeBetween, Covered, RestoresAll,
     LoadedIsInstalled, AbsPackage, Installing,
     Contract!vars

LEMMA StageRefines ==
  ASSUME IInv, RInv, FaultsOutside, NEW v \in Versions, Stage(v)
  PROVE  RInv' /\ [Contract!Next]_(Contract!vars)
  BY DEF Stage, IInv, TypeOK, Contents, In, Transaction, IdleClean,
     Backups, BackingUp, RollingBack, Recoverable, RemovalsWork, FaultsOutside, RInv, WholeBetween, Covered, RestoresAll,
     LoadedIsInstalled, AbsPackage, Installing,
     Contract!vars

LEMMA UninstallRefines ==
  ASSUME IInv, RInv, FaultsOutside, Uninstall
  PROVE  RInv' /\ [Contract!Next]_(Contract!vars)
  BY DEF Uninstall, IInv, TypeOK, Contents, In, Transaction, IdleClean,
     Backups, BackingUp, RollingBack, Recoverable, RemovalsWork, FaultsOutside, RInv, WholeBetween, Covered, RestoresAll,
     LoadedIsInstalled, AbsPackage, Installing,
     Contract!vars

LEMMA StageFailsRefines ==
  ASSUME IInv, RInv, FaultsOutside, StageFails
  PROVE  RInv' /\ [Contract!Next]_(Contract!vars)
  BY DEF StageFails, IInv, TypeOK, Contents, In, Transaction, IdleClean,
     Backups, BackingUp, RollingBack, Recoverable, RemovalsWork, FaultsOutside, RInv, WholeBetween, Covered, RestoresAll,
     LoadedIsInstalled, AbsPackage, Installing,
     Contract!vars

LEMMA CommitRefines ==
  ASSUME IInv, RInv, FaultsOutside, Commit
  PROVE  RInv' /\ [Contract!Next]_(Contract!vars)
<1>1. version \in Versions /\ folder' = FilesOf(version) /\ pc' = "idle" /\ registered' = version
  BY DEF Commit, CloseTransaction, IInv, Transaction, Verifying, VersionKnown
<1>2. AbsPackage' = version
  BY <1>1, FilesHaveVersion DEF AbsPackage
<1>3. RInv'
  BY <1>1, <1>2 DEF RInv, WholeBetween, Covered, RestoresAll, LoadedIsInstalled, Installing,
     Complete
<1>. QED
  BY <1>1, <1>2, <1>3 DEF Contract!Next, Contract!Install

LEMMA RolledBackRefines ==
  ASSUME IInv, RInv, FaultsOutside, RolledBack
  PROVE  RInv' /\ [Contract!Next]_(Contract!vars)
<1>1. installed = {} /\ backedUp = {} /\ pc = "restore" /\ pc' = "idle"
  BY DEF RolledBack, CloseTransaction, IInv, Transaction, RollingBack, RemovalsWork, FaultsOutside,
     RInv, RestoresAll
<1>2. folder' = prior /\ registered' = registered
  BY <1>1 DEF RolledBack, IInv, TypeOK, Contents, RInv, Covered, Installing
<1>3. AbsPackage' = AbsPackage
  BY <1>1, <1>2 DEF AbsPackage
<1>. QED
  BY <1>1, <1>2, <1>3 DEF RInv, WholeBetween, Covered, RestoresAll, LoadedIsInstalled, Installing,
     Contract!vars

LEMMA RemovedRefines ==
  ASSUME IInv, RInv, FaultsOutside, Removed
  PROVE  RInv' /\ [Contract!Next]_(Contract!vars)
<1>1. folder' = Nothing /\ registered' = None /\ pc' = "idle"
  BY DEF Removed, CloseTransaction, IInv, TypeOK, Contents, Requests, Removing, Nothing
<1>2. AbsPackage' = None
  BY <1>1, EmptyHasNone DEF AbsPackage
<1>3. RInv'
  BY <1>1, <1>2 DEF RInv, WholeBetween, Covered, RestoresAll, LoadedIsInstalled, Installing,
     Complete
<1>. QED
  BY <1>1, <1>2, <1>3 DEF Contract!Next, Contract!Uninstall

LEMMA ReloadRefines ==
  ASSUME IInv, RInv, FaultsOutside, ReloadSource \/ Restart
  PROVE  RInv' /\ [Contract!Next]_(Contract!vars)
<1>1. pc = "idle" /\ pc' = "idle" /\ folder' = folder
  BY DEF ReloadSource, Restart, CloseTransaction, FaultsOutside
<1>2. AbsPackage' = AbsPackage
  BY <1>1 DEF AbsPackage
<1>3. registered' \in {AbsPackage, None}
  BY <1>1, LoadsInstalled DEF ReloadSource, Restart, IInv, TypeOK, RInv, WholeBetween, AbsPackage
<1>4. RInv'
  BY <1>1, <1>2, <1>3 DEF RInv, WholeBetween, Covered, RestoresAll, LoadedIsInstalled, Installing
<1>. QED
  BY <1>2, <1>3, <1>4 DEF Contract!Next, Contract!Reload

LEMMA NextRefines ==
  ASSUME IInv, RInv, FaultsOutside, [Next]_vars
  PROVE  RInv' /\ [Contract!Next]_(Contract!vars)
<1>1. CASE UNCHANGED vars
  BY <1>1 DEF vars, RInv, WholeBetween, Covered, RestoresAll, LoadedIsInstalled, AbsPackage,
     Installing, Contract!vars
<1>2. CASE \E v \in Versions : Stage(v)
  BY <1>2, StageRefines
<1>3. CASE ReloadSource \/ Restart
  BY <1>3, ReloadRefines
<1>4. CASE RemoveFails \/ \E a \in Artifacts : UnpublishFails(a) \/ RestoreFails(a)
  BY <1>4 DEF RemoveFails, UnpublishFails, RestoreFails, FaultsOutside
<1>5. CASE BackedUp
  BY <1>5, BackedUpRefines
<1>6. CASE Published
  BY <1>6, PublishedRefines
<1>7. CASE BackUpFails
  BY <1>7, BackUpFailsRefines
<1>8. CASE PublishFails
  BY <1>8, PublishFailsRefines
<1>9. CASE VerifyFails
  BY <1>9, VerifyFailsRefines
<1>10. CASE Unpublished
  BY <1>10, UnpublishedRefines
<1>11. CASE RollBackAgain
  BY <1>11, RollBackAgainRefines
<1>12. CASE Uninstall
  BY <1>12, UninstallRefines
<1>13. CASE StageFails
  BY <1>13, StageFailsRefines
<1>14. CASE Commit
  BY <1>14, CommitRefines
<1>15. CASE RolledBack
  BY <1>15, RolledBackRefines
<1>16. CASE Removed
  BY <1>16, RemovedRefines
<1>17. CASE \E a \in Artifacts : BackUp(a)
  BY <1>17, BackUpRefines
<1>18. CASE \E a \in Artifacts : Publish(a)
  BY <1>18, PublishRefines
<1>19. CASE \E a \in Artifacts : Unpublish(a)
  BY <1>19, UnpublishRefines
<1>20. CASE \E a \in Artifacts : RestoreOne(a)
  BY <1>20, RestoreOneRefines
<1>21. CASE \E a \in Artifacts : Remove(a)
  BY <1>21, RemoveRefines
<1>. QED
  BY <1>1, <1>2, <1>3, <1>4, <1>5, <1>6, <1>7, <1>8, <1>9, <1>10, <1>11,
     <1>12, <1>13, <1>14, <1>15, <1>16, <1>17, <1>18, <1>19, <1>20,
     <1>21 DEF Next

\* Seen from outside, a replacement or a removal happens in one step or not
\* at all: the transaction implements the contract.
THEOREM Refinement ==
  ASSUME FaultsOutside
  PROVE  Spec => ImplementsSourcePackage
<1>1. IInv /\ RInv /\ [Next]_vars => RInv' /\ [Contract!Next]_(Contract!vars)
  BY NextRefines
<1>2. Init => RInv /\ Contract!Init
  BY InitRefines
<1>. QED
  BY <1>1, <1>2, Invariance, PTL DEF Spec, ImplementsSourcePackage, Contract!Spec
=============================================================================
