---------------------------- MODULE DatabaseSync ----------------------------
(***************************************************************************)
(* One database on several devices and a WebDAV server                     *)
(* (shared/src/usecases/sync_database.rs, Database::hot_replace).          *)
(* A database is the set of the reader's edits in it.  SQLite commits to   *)
(* a log beside the file; the synchronisation reads the file alone.  The   *)
(* server keeps three files, which are read and written one by one.        *)
(***************************************************************************)
EXTENDS Naturals, FiniteSets

CONSTANTS Devices, Edits,
          None,                \* a file that is not there, or not read yet
          Uploaded,            \* what other devices may have uploaded before
          MaxSyncs, MaxTime    \* bounds: requests, and the time of the CDN

Contents == SUBSET (Edits \cup UNION Uploaded)
Databases == Contents \cup {None}

ASSUME NoneIsNoDatabase == \A c \in Contents : c # None

VARIABLES file,     \* the database file of a device
          wal,      \* edits committed to the log and not yet to the file
          backup,   \* database.db.backup
          pool,     \* what the shared pool is connected to: "file" or "memory"
          server,   \* database.db, database.timez and database.sha256
          sync,     \* the request in progress on a device: it holds the settings
          now, syncs,
          upset,    \* history: the server's files may be of two uploads
          late,     \* history: the last upload sent another file than it had hashed
          reached,  \* history: the edits that have been on the server
          had       \* history: what a device held since its last replacement

vars == <<file, wal, backup, pool, server, sync, now, syncs, upset, late, reached, had>>
sent == <<late, reached>>

Idle == [pc |-> "idle", migrate |-> FALSE, replace |-> FALSE, sha |-> None, time |-> 0, got |-> None]
At(d, pc) == sync[d].pc = pc
Content(f) == IF f = None THEN {} ELSE f
Goto(d, pc) == sync' = [sync EXCEPT ![d].pc = pc]
Answer(d) == sync' = [sync EXCEPT ![d] = Idle]
Locally == UNCHANGED <<server, now, syncs, upset, sent>>
Remotely == UNCHANGED <<file, wal, backup, pool, now, syncs, had>>

\* The hash of a database stands for its content.
sha256_file(d) == file[d]

Init ==
  /\ file = [d \in Devices |-> {}] /\ wal = [d \in Devices |-> {}]
  /\ backup = [d \in Devices |-> None] /\ pool = [d \in Devices |-> "file"]
  /\ server \in {[data |-> None, timez |-> None, sha |-> None]}
                 \cup {[data |-> u, timez |-> 0, sha |-> u] : u \in Uploaded}
  /\ sync = [d \in Devices |-> Idle]
  /\ now = 0 /\ syncs = 0 /\ upset = FALSE /\ late = FALSE
  /\ reached = Content(server.data) /\ had = [d \in Devices |-> {}]

-----------------------------------------------------------------------------
(* The reader and SQLite                                                   *)

Edit(d, e) ==
  /\ pool[d] = "file" /\ \A x \in Devices : e \notin had[x]
  /\ wal' = [wal EXCEPT ![d] = @ \cup {e}]
  /\ had' = [had EXCEPT ![d] = @ \cup {e}]
  /\ UNCHANGED <<file, backup, pool, sync>> /\ Locally

Checkpoint(d) ==
  /\ wal[d] # {} /\ file[d] # None
  /\ file' = [file EXCEPT ![d] = @ \cup wal[d]]
  /\ wal' = [wal EXCEPT ![d] = {}]
  /\ UNCHANGED <<backup, pool, sync, had>> /\ Locally

\* get_current_time: every device asks the same CDN.
Tick == now < MaxTime /\ now' = now + 1
        /\ UNCHANGED <<file, wal, backup, pool, server, sync, syncs, upset, sent, had>>

-----------------------------------------------------------------------------
(* sync_database, up to its choice                                         *)

Request(d, migrate, replace) ==
  /\ At(d, "idle") /\ syncs < MaxSyncs
  /\ sync' = [sync EXCEPT ![d] = [Idle EXCEPT !.pc = "ensure", !.migrate = migrate, !.replace = replace]]
  /\ syncs' = syncs + 1
  /\ UNCHANGED <<file, wal, backup, pool, server, now, upset, sent, had>>

ensure_webdav_dir(d) == At(d, "ensure") /\ Goto(d, "hash") /\ Remotely /\ UNCHANGED <<server, upset, sent>>

Hash(d) ==
  /\ At(d, "hash")
  /\ IF sha256_file(d) = None THEN Answer(d)
     ELSE sync' = [sync EXCEPT ![d].pc = "compare", ![d].sha = sha256_file(d)]
  /\ Remotely /\ UNCHANGED <<server, upset, sent>>

CompareSha(d) ==
  /\ At(d, "compare")
  /\ IF server.sha = sync[d].sha THEN Answer(d) ELSE Goto(d, "choose")
  /\ Remotely /\ UNCHANGED <<server, upset, sent>>

\* The time the server's database was written is compared with the time it is now.
Choice(s, remote, time) ==
  IF remote = None \/ s.replace THEN "upload"
  ELSE IF s.migrate THEN "fetch"
  ELSE IF remote > time THEN "idle"          \* UpdateRequired
  ELSE "upload"

Choose(d) ==
  /\ At(d, "choose")
  /\ LET next == Choice(sync[d], server.timez, now)
     IN  IF next = "idle" THEN Answer(d)
         ELSE sync' = [sync EXCEPT ![d].pc = next, ![d].time = now]
  /\ Remotely /\ UNCHANGED <<server, upset, sent>>

-----------------------------------------------------------------------------
(* The upload: three writes                                                *)

Uploading(d) == sync[d].pc \in {"time", "sha"}

\* The file is read again, and may be another than was hashed.
PutData(d) ==
  /\ At(d, "upload")
  /\ IF file[d] = None THEN Answer(d) /\ UNCHANGED <<server, upset, sent>>
     ELSE /\ server' = [server EXCEPT !.data = file[d]]
          /\ upset' = \E x \in Devices : Uploading(x)
          /\ late' = (file[d] # sync[d].sha)
          /\ reached' = reached \cup file[d]
          /\ Goto(d, "time")
  /\ Remotely

PutTime(d) ==
  /\ At(d, "time")
  /\ server' = [server EXCEPT !.timez = sync[d].time]
  /\ Goto(d, "sha") /\ Remotely /\ UNCHANGED <<upset, sent>>

FaultSkipsSha(d) ==     \* fault: the hash of an accepted replacement is not written
  /\ At(d, "sha") /\ Answer(d)
  /\ server' = IF sync[d].replace THEN server ELSE [server EXCEPT !.sha = sync[d].sha]
  /\ Remotely /\ UNCHANGED <<upset, sent>>
PutSha(d) ==
  /\ At(d, "sha") /\ Answer(d)
  /\ server' = [server EXCEPT !.sha = sync[d].sha]
  /\ Remotely /\ UNCHANGED <<upset, sent>>

\* A call that fails, or a write that finds the file locked five times, ends the
\* request, and so does a client that goes away.
dav_fails(d) ==
  /\ sync[d].pc \in {"ensure", "compare", "choose", "fetch", "upload", "time", "sha"}
  /\ Answer(d)
  /\ upset' = (upset \/ Uploading(d))
  /\ Remotely /\ UNCHANGED <<server, sent>>

-----------------------------------------------------------------------------
(* The download, and hot_replace                                           *)

Fetch(d) ==
  /\ At(d, "fetch")
  /\ IF server.data = None THEN Answer(d)
     ELSE sync' = [sync EXCEPT ![d].pc = "take", ![d].got = server.data]
  /\ Remotely /\ UNCHANGED <<server, upset, sent>>

\* The old pool is closed, which moves its log into the file.
TakePool(d) ==
  /\ At(d, "take") /\ Goto(d, "rename")
  /\ pool' = [pool EXCEPT ![d] = "memory"]
  /\ file' = [file EXCEPT ![d] = IF @ = None THEN None ELSE @ \cup wal[d]]
  /\ wal' = [wal EXCEPT ![d] = {}]
  /\ UNCHANGED <<backup, had>> /\ Locally

\* A backup that an interrupted replacement has left is overwritten.
RenameToBackup(d) ==
  /\ At(d, "rename") /\ Goto(d, "write")
  /\ IF file[d] = None THEN UNCHANGED <<file, backup, had>>
     ELSE /\ had' = [had EXCEPT ![d] = IF backup[d] # None THEN file[d] ELSE @]
          /\ backup' = [backup EXCEPT ![d] = file[d]]
          /\ file' = [file EXCEPT ![d] = None]
  /\ UNCHANGED <<wal, pool>> /\ Locally

WriteFile(d) ==
  /\ At(d, "write") /\ Goto(d, "connect")
  /\ file' = [file EXCEPT ![d] = sync[d].got]
  /\ UNCHANGED <<wal, backup, pool, had>> /\ Locally

FaultRestoresNothing(d) ==   \* fault: the backup is removed and not renamed
  /\ backup' = [backup EXCEPT ![d] = None]
  /\ UNCHANGED file
RestoreBackup(d) ==
  /\ file' = [file EXCEPT ![d] = IF backup[d] = None THEN sync[d].got ELSE backup[d]]
  /\ backup' = [backup EXCEPT ![d] = None]

\* The write, the new pool or the migrations fail; the shared pool stays in memory.
ReplaceFails(d) ==
  /\ sync[d].pc \in {"write", "connect"}
  /\ RestoreBackup(d) /\ Answer(d)
  /\ UNCHANGED <<wal, pool, had>> /\ Locally

InstallPool(d) ==
  /\ At(d, "connect") /\ Goto(d, "cleanup")
  /\ pool' = [pool EXCEPT ![d] = "file"]
  /\ had' = [had EXCEPT ![d] = sync[d].got]
  /\ UNCHANGED <<file, wal, backup>> /\ Locally

RemoveBackup(d) ==
  /\ At(d, "cleanup") /\ Answer(d)
  /\ backup' = [backup EXCEPT ![d] = None]
  /\ UNCHANGED <<file, wal, pool, had>> /\ Locally

\* The client goes away while the files are being exchanged: nothing is put back.
Dropped(d) ==
  /\ sync[d].pc \in {"rename", "write", "connect", "cleanup"} /\ Answer(d)
  /\ UNCHANGED <<file, wal, backup, pool, had>> /\ Locally

\* A start creates a database where there is none, and does not look for a backup.
Restart(d) ==
  /\ pool' = [pool EXCEPT ![d] = "file"]
  /\ file' = [file EXCEPT ![d] = Content(@)]
  /\ upset' = (upset \/ Uploading(d))
  /\ Answer(d)
  /\ UNCHANGED <<wal, backup, server, now, syncs, sent, had>>

-----------------------------------------------------------------------------
hot_replace(d) == TakePool(d) \/ RenameToBackup(d) \/ WriteFile(d) \/ ReplaceFails(d)
                  \/ InstallPool(d) \/ RemoveBackup(d) \/ Dropped(d)

sync_database(d) ==
  \/ ensure_webdav_dir(d) \/ Hash(d) \/ CompareSha(d) \/ Choose(d)
  \/ PutData(d) \/ PutTime(d) \/ PutSha(d) \/ dav_fails(d) \/ Fetch(d) \/ hot_replace(d)

Next ==
  \/ Tick
  \/ \E d \in Devices :
       \/ \E e \in Edits : Edit(d, e)
       \/ \E migrate, replace \in BOOLEAN : Request(d, migrate, replace)
       \/ Checkpoint(d) \/ sync_database(d) \/ Restart(d)

Spec == Init /\ [][Next]_vars

-----------------------------------------------------------------------------
TypeOK ==
  /\ \A d \in Devices : {file[d], backup[d], sync[d].sha, sync[d].got} \subseteq Databases
  /\ \A d \in Devices : {wal[d], had[d]} \subseteq Databases /\ pool[d] \in {"file", "memory"}
  /\ {server.data, server.sha} \subseteq Databases

\* A device that finds its own hash on the server is told that it is up to date, and one
\* that finds a time may fetch the database.  Whatever uploads overlap, fail or are dropped,
\* all that was hashed has been on the server, and neither a time nor a hash is there
\* without a database.  After an upload that was alone with its three writes, whatever had
\* torn the files before, the database has all that its hash stands for, and no more if
\* the file did not change between the hash and the upload.
ServerConsistent ==
  /\ Content(server.sha) \subseteq reached
  /\ server.timez # None \/ server.sha # None => server.data # None
  /\ ~upset /\ ~(\E d \in Devices : Uploading(d)) =>
       /\ Content(server.sha) \subseteq Content(server.data)
       /\ ~late => server.sha = server.data

\* Failures, dropped requests and restarts in the middle of a replacement leave what the
\* device held in its file, its log or its backup, until a replacement succeeds or a
\* second one overwrites the backup; and a replacement is only what the user accepted who
\* did not ask for the server's database to be replaced (Database::hot_replace).
Exchanging(d) == sync[d].pc \in {"fetch", "take", "rename", "write", "connect", "cleanup"}
Accepted(d) == sync[d].migrate /\ ~sync[d].replace
ProgressFindable ==
  \A d \in Devices :
    /\ had[d] \subseteq Content(file[d]) \cup wal[d] \cup Content(backup[d])
    /\ Exchanging(d) => Accepted(d)

\* A device gives up what it held in two steps only, both of a replacement that its user
\* accepted: where the new pool is installed, and where a backup is overwritten.
HeldUntilAccepted ==
  \A d \in Devices :
    had[d] \subseteq had'[d] \/ (Accepted(d) /\ (At(d, "connect") \/ (At(d, "rename") /\ backup[d] # None)))
=============================================================================
