------------------------- MODULE PersistenceProofs -------------------------
(***************************************************************************)
(* Proofs about what a device keeps beside its downloads, for any bounds:  *)
(*                                                                         *)
(* DatabaseSync, for any devices, edits and contents of the server.  Held  *)
(* says, step of a replacement by step, where what a device held is;       *)
(* Beside says what has reached the server whatever happens, and OneUpload  *)
(* that an upload which is alone has put there what it is about to put the *)
(* hash of, or a database that has since grown.                            *)
(*                                                                         *)
(* SettingsStore, for any number of forms, requests and troubles.  Each    *)
(* file that can be read, and not only the one a start takes, holds        *)
(* settings that are acceptable and no older than what was reported saved: *)
(* a damaged file may be followed by the other.                            *)
(*                                                                         *)
(* SourceCatalog, for any lists, indexes that are finite, and requests.    *)
(* Caches hold what was fetched and checked last, requests hold such       *)
(* caches; of the candidates the best are selected, because versions       *)
(* without a suffix are in order, and the preview of a removal is right,   *)
(* because lists of one identity have one cache.                           *)
(***************************************************************************)
EXTENDS DatabaseSync, SettingsStore, SourceServices, OrderLemmas, TLAPS

-----------------------------------------------------------------------------
(* The inductive invariant, part by part.                                  *)

Steps == {"idle", "ensure", "hash", "compare", "choose", "fetch", "upload", "time", "sha",
          "take", "rename", "write", "connect", "cleanup"}
Requests == [pc : Steps, migrate : BOOLEAN, replace : BOOLEAN, sha : Databases,
             time : Nat, got : Databases]

Typed ==
  /\ file \in [Devices -> Databases] /\ wal \in [Devices -> Contents]
  /\ backup \in [Devices -> Databases] /\ had \in [Devices -> Contents]
  /\ pool \in [Devices -> {"file", "memory"}]
  /\ server \in [data : Databases, timez : Nat \cup {None}, sha : Databases]
  /\ sync \in [Devices -> Requests]
  /\ now \in Nat /\ upset \in BOOLEAN /\ late \in BOOLEAN /\ reached \in Contents

\* A request that has hashed the file finds it until it moves it aside.
FileThere(d) ==
  sync[d].pc \in {"compare", "choose", "fetch", "upload", "time", "sha", "take", "rename"} =>
    file[d] # None

\* The shared pool is out of the way while files are moved, and has left no log.
PoolClosed(d) ==
  /\ pool[d] = "memory" => wal[d] = {}
  /\ sync[d].pc \in {"rename", "write", "connect"} => pool[d] = "memory"

Moved(d) ==
  /\ At(d, "write") => file[d] = None
  /\ At(d, "connect") => file[d] = sync[d].got
  /\ sync[d].pc \in {"take", "rename", "write", "connect"} => sync[d].got # None

\* Before the new pool is installed the backup is all there is, and after that it is not
\* needed any more.
Held(d) ==
  /\ had[d] \subseteq Content(file[d]) \cup wal[d] \cup Content(backup[d])
  /\ sync[d].pc \in {"write", "connect"} => had[d] \subseteq Content(backup[d])
  /\ At(d, "cleanup") => had[d] \subseteq Content(file[d]) \cup wal[d]

\* From the hash to the upload the file only grows.
Hashed(d) ==
  sync[d].pc \in {"compare", "choose", "upload"} =>
    sync[d].sha # None /\ sync[d].sha \subseteq file[d]

Device(d) ==
  FileThere(d) /\ PoolClosed(d) /\ Moved(d) /\ Held(d) /\ Hashed(d) /\ (Exchanging(d) => Accepted(d))

\* A time and a hash follow a database, and what was hashed has reached the server before.
Beside ==
  /\ Content(server.sha) \subseteq reached
  /\ server.timez # None \/ server.sha # None => server.data # None
  /\ \A d \in Devices : Uploading(d) =>
       server.data # None /\ sync[d].sha # None /\ sync[d].sha \subseteq reached

OneUpload ==
  ~upset =>
    \A d \in Devices : Uploading(d) =>
      /\ sync[d].sha \subseteq Content(server.data) /\ (~late => server.data = sync[d].sha)
      /\ \A x \in Devices : Uploading(x) => x = d

\* What is true once an upload is over.
Settled ==
  ~upset /\ ~(\E d \in Devices : Uploading(d)) =>
    Content(server.sha) \subseteq Content(server.data) /\ (~late => server.sha = server.data)

Server == Beside /\ OneUpload /\ Settled

SyncInv == Typed /\ (\A d \in Devices : Device(d)) /\ Server

-----------------------------------------------------------------------------
(* What a request does to sync, and a step to the devices it is not of.     *)

LEMMA ContentType == \A f \in Databases : Content(f) \in Contents
  BY DEF Databases, Contents, Content

LEMMA IdleType == Idle \in Requests
  BY DEF Idle, Requests, Steps, Databases

Others(d) == \A x \in Devices \ {d} : sync'[x] = sync[x]

LEMMA GotoFacts ==
  ASSUME Typed, NEW d \in Devices, NEW pc \in Steps, Goto(d, pc)
  PROVE  /\ sync' \in [Devices -> Requests] /\ Others(d) /\ sync'[d].pc = pc
         /\ sync'[d].sha = sync[d].sha /\ sync'[d].got = sync[d].got
         /\ sync'[d].migrate = sync[d].migrate /\ sync'[d].replace = sync[d].replace
  BY DEF Typed, sent, Requests, Goto, Others

LEMMA AnswerFacts ==
  ASSUME Typed, NEW d \in Devices, Answer(d)
  PROVE  sync' \in [Devices -> Requests] /\ Others(d) /\ sync'[d].pc = "idle"
  BY IdleType DEF Typed, sent, Answer, Others, Idle

\* Steps that leave files alone.
LEMMA RemoteKeepsDevices ==
  ASSUME Typed, \A x \in Devices : Device(x), NEW d \in Devices, Others(d),
         UNCHANGED <<file, wal, backup, pool, had>>,
         sync'[d].pc \notin {"rename", "write", "connect", "cleanup"},
         sync'[d].pc = "take" => sync'[d].got # None,
         FileThere(d)', Hashed(d)', (Exchanging(d) => Accepted(d))'
  PROVE  \A x \in Devices : Device(x)'
  BY DEF Others, Device, FileThere, PoolClosed, Moved, Held, Hashed, Exchanging, Accepted, At

\* Steps of a device that leave the server alone and are not of an upload.
LEMMA LocalKeepsServer ==
  ASSUME Server, NEW d \in Devices, Others(d),
         UNCHANGED <<server, upset, sent>>, ~Uploading(d), ~Uploading(d)'
  PROVE  Server'
  BY DEF Others, Server, Beside, OneUpload, Settled, Uploading, sent

LEMMA InitSyncInv == Init => SyncInv
<1>. SUFFICES ASSUME Init PROVE SyncInv
  OBVIOUS
<1>1. {} \in Contents /\ Uploaded \subseteq Contents
  BY DEF Contents
<1>. Content(server.data) \in Contents /\ server.sha = server.data
  BY <1>1 DEF Init, Content
<1>2. Typed
  <2>1. server \in [data : Databases, timez : Nat \cup {None}, sha : Databases]
    BY <1>1 DEF Init, Databases
  <2>. QED
    BY <1>1, <2>1, IdleType DEF Init, Typed, sent, Databases
<1>3. ASSUME NEW d \in Devices PROVE Device(d)
  BY DEF Init, Device, FileThere, PoolClosed, Moved, Held, Hashed, Exchanging, Accepted, At, Idle
<1>4. Server
  <2>1. server.timez # None \/ server.sha # None => server.data # None
    BY <1>1, NoneIsNoDatabase DEF Init
  <2>2. \A d \in Devices : ~Uploading(d)
    BY DEF Init, Uploading, Idle
  <2>. QED
    BY <2>1, <2>2 DEF Init, Server, Beside, OneUpload, Settled
<1>. QED
  BY <1>2, <1>3, <1>4 DEF SyncInv

-----------------------------------------------------------------------------
(* The reader, SQLite and the clock.                                        *)

LEMMA EditKeeps ==
  ASSUME SyncInv, NEW d \in Devices, NEW e \in Edits, Edit(d, e)
  PROVE  SyncInv'
<1>1. Typed'
  BY DEF SyncInv, Typed, sent, Edit, Locally, Contents
<1>2. ASSUME NEW x \in Devices PROVE Device(x)'
  BY DEF SyncInv, Typed, sent, Edit, Locally, Device, FileThere, PoolClosed, Moved, Held, Hashed, Exchanging, Accepted, At
<1>3. Server'
  BY DEF SyncInv, Edit, Locally, Server, Beside, OneUpload, Settled, Uploading, sent
<1>. QED
  BY <1>1, <1>2, <1>3 DEF SyncInv

LEMMA CheckpointKeeps ==
  ASSUME SyncInv, NEW d \in Devices, Checkpoint(d)
  PROVE  SyncInv'
<1>1. file[d] \cup wal[d] \in Contents
  BY DEF SyncInv, Typed, sent, Checkpoint, Databases, Contents
<1>2. Typed'
  BY <1>1 DEF SyncInv, Typed, sent, Checkpoint, Locally, Databases, Contents
<1>3. ASSUME NEW x \in Devices PROVE Device(x)'
  <2>1. file'[d] # None
    BY <1>1, NoneIsNoDatabase DEF SyncInv, Typed, sent, Checkpoint
  <2>. QED
    BY <2>1 DEF SyncInv, Typed, sent, Checkpoint, Locally, Device, FileThere, PoolClosed, Moved, Held, Hashed, Exchanging, Accepted, At, Content
<1>4. Server'
  BY DEF SyncInv, Checkpoint, Locally, Server, Beside, OneUpload, Settled, Uploading, sent
<1>. QED
  BY <1>2, <1>3, <1>4 DEF SyncInv

LEMMA StutterKeeps ==
  ASSUME SyncInv, UNCHANGED <<file, wal, backup, pool, server, sync, upset, sent, had>>, now' \in Nat
  PROVE  SyncInv'
  BY DEF SyncInv, Typed, sent, Device, FileThere, PoolClosed, Moved, Held, Hashed, Exchanging, Accepted, At,
     Server, Beside, OneUpload, Settled, Uploading, sent

-----------------------------------------------------------------------------
(* A request, up to its choice, and the download: only sync changes.        *)

LEMMA AskKeeps ==
  ASSUME SyncInv, NEW d \in Devices, Others(d), sync' \in [Devices -> Requests],
         UNCHANGED <<file, wal, backup, pool, server, now, upset, sent, had>>,
         ~Uploading(d), sync'[d].pc \notin {"time", "sha", "rename", "write", "connect", "cleanup"},
         sync'[d].pc = "take" => sync'[d].got # None,
         FileThere(d)', Hashed(d)', (Exchanging(d) => Accepted(d))'
  PROVE  SyncInv'
<1>1. Typed'
  BY DEF SyncInv, Typed, sent
<1>2. \A x \in Devices : Device(x)'
  BY RemoteKeepsDevices DEF SyncInv
<1>3. Server'
  BY LocalKeepsServer DEF SyncInv, Uploading
<1>. QED
  BY <1>1, <1>2, <1>3 DEF SyncInv

LEMMA AnswerKeeps ==
  ASSUME SyncInv, NEW d \in Devices, Answer(d), ~Uploading(d),
         UNCHANGED <<file, wal, backup, pool, server, now, upset, sent, had>>
  PROVE  SyncInv'
<1>. Others(d) /\ sync' \in [Devices -> Requests] /\ sync'[d].pc = "idle"
  BY AnswerFacts DEF SyncInv
<1>. QED
  BY AskKeeps DEF FileThere, Hashed, Exchanging

LEMMA RequestKeeps ==
  ASSUME SyncInv, NEW d \in Devices, NEW migrate \in BOOLEAN, NEW replace \in BOOLEAN,
         Request(d, migrate, replace)
  PROVE  SyncInv'
<1>1. sync' \in [Devices -> Requests] /\ Others(d) /\ sync'[d].pc = "ensure"
  BY IdleType DEF SyncInv, Typed, sent, Request, Requests, Steps, Others, Idle
<1>2. ~Uploading(d) /\ FileThere(d)' /\ Hashed(d)' /\ ~Exchanging(d)'
  BY <1>1 DEF Request, Uploading, At, FileThere, Hashed, Exchanging
<1>. QED
  BY <1>1, <1>2, AskKeeps DEF Request

LEMMA SyncEnsureKeeps ==
  ASSUME SyncInv, NEW d \in Devices, ensure_webdav_dir(d)
  PROVE  SyncInv'
<1>1. sync' \in [Devices -> Requests] /\ Others(d) /\ sync'[d].pc = "hash"
  BY GotoFacts DEF SyncInv, ensure_webdav_dir, Steps
<1>2. ~Uploading(d) /\ FileThere(d)' /\ Hashed(d)' /\ ~Exchanging(d)'
  BY <1>1 DEF ensure_webdav_dir, Uploading, At, FileThere, Hashed, Exchanging
<1>. QED
  BY <1>1, <1>2, AskKeeps DEF ensure_webdav_dir, Remotely

LEMMA HashKeeps ==
  ASSUME SyncInv, NEW d \in Devices, Hash(d)
  PROVE  SyncInv'
<1>1. ~Uploading(d) /\ UNCHANGED <<file, wal, backup, pool, server, now, upset, sent, had>>
  BY DEF Hash, Remotely, Uploading, At
<1>2. CASE file[d] = None
  BY <1>1, <1>2, AnswerKeeps DEF Hash, sha256_file
<1>3. CASE file[d] # None
  <2>1. sync' = [sync EXCEPT ![d].pc = "compare", ![d].sha = file[d]]
    BY <1>3 DEF Hash, sha256_file
  <2>2. sync \in [Devices -> Requests] /\ file[d] \in Databases
    BY DEF SyncInv, Typed, sent
  <2>. DEFINE r == [sync[d] EXCEPT !.pc = "compare", !.sha = file[d]]
  <2>. r \in Requests /\ r.pc = "compare" /\ r.sha = file[d]
    BY <2>2 DEF Requests, Steps
  <2>3. /\ sync' \in [Devices -> Requests] /\ Others(d)
        /\ sync'[d].pc = "compare" /\ sync'[d].sha = file[d]
    <3>1. sync' = [sync EXCEPT ![d] = r]
      BY <2>1
    <3>. HIDE DEF r
    <3>. QED  BY <2>2, <3>1 DEF Others
  <2>4. FileThere(d)' /\ Hashed(d)' /\ ~Exchanging(d)'
    BY <1>1, <1>3, <2>3 DEF FileThere, Hashed, Exchanging
  <2>. QED
    BY <1>1, <2>3, <2>4, AskKeeps
<1>. QED
  BY <1>2, <1>3

LEMMA CompareShaKeeps ==
  ASSUME SyncInv, NEW d \in Devices, CompareSha(d)
  PROVE  SyncInv'
<1>1. ~Uploading(d) /\ UNCHANGED <<file, wal, backup, pool, server, now, upset, sent, had>>
  BY DEF CompareSha, Remotely, Uploading, At
<1>2. CASE Answer(d)
  BY <1>1, <1>2, AnswerKeeps
<1>3. CASE Goto(d, "choose")
  <2>1. /\ sync' \in [Devices -> Requests] /\ Others(d)
        /\ sync'[d].pc = "choose" /\ sync'[d].sha = sync[d].sha
    BY <1>3, GotoFacts DEF SyncInv, Steps
  <2>2. FileThere(d)' /\ Hashed(d)' /\ ~Exchanging(d)'
    BY <1>1, <2>1 DEF SyncInv, Device, FileThere, Hashed, Exchanging, CompareSha, At
  <2>. QED
    BY <1>1, <2>1, <2>2, AskKeeps
<1>. QED
  BY <1>2, <1>3 DEF CompareSha

LEMMA ChooseKeeps ==
  ASSUME SyncInv, NEW d \in Devices, Choose(d)
  PROVE  SyncInv'
<1>1. ~Uploading(d) /\ UNCHANGED <<file, wal, backup, pool, server, now, upset, sent, had>>
  BY DEF Choose, Remotely, Uploading, At
<1>. DEFINE next == Choice(sync[d], server.timez, now)
<1>2. next \in {"idle", "fetch", "upload"} /\ (next = "fetch" => Accepted(d))
  BY DEF Choice, Accepted
<1>3. CASE next = "idle"
  BY <1>1, <1>3, AnswerKeeps DEF Choose
<1>4. CASE next # "idle"
  <2>. HIDE DEF next
  <2>1. sync' = [sync EXCEPT ![d].pc = next, ![d].time = now]
    BY <1>4 DEF Choose, next
  <2>2. sync \in [Devices -> Requests] /\ now \in Nat /\ next \in Steps
    BY <1>2 DEF SyncInv, Typed, sent, Steps
  <2>3. /\ sync' \in [Devices -> Requests] /\ Others(d) /\ sync'[d].pc \in {"fetch", "upload"}
        /\ sync'[d].pc = next /\ sync'[d].sha = sync[d].sha
        /\ sync'[d].migrate = sync[d].migrate /\ sync'[d].replace = sync[d].replace
    BY <2>1, <2>2, <1>2, <1>4 DEF Requests, Others
  <2>4. FileThere(d)' /\ Hashed(d)' /\ (Exchanging(d) => Accepted(d))'
    BY <1>1, <1>2, <2>3 DEF SyncInv, Device, FileThere, Hashed, Exchanging, Accepted, Choose, At
  <2>. QED
    BY <1>1, <2>3, <2>4, AskKeeps
<1>. QED
  BY <1>3, <1>4

LEMMA FetchKeeps ==
  ASSUME SyncInv, NEW d \in Devices, Fetch(d)
  PROVE  SyncInv'
<1>1. ~Uploading(d) /\ UNCHANGED <<file, wal, backup, pool, server, now, upset, sent, had>>
  BY DEF Fetch, Remotely, Uploading, At
<1>2. CASE server.data = None
  BY <1>1, <1>2, AnswerKeeps DEF Fetch
<1>3. CASE server.data # None
  <2>1. sync' = [sync EXCEPT ![d].pc = "take", ![d].got = server.data]
    BY <1>3 DEF Fetch
  <2>2. sync \in [Devices -> Requests] /\ server.data \in Databases
    BY DEF SyncInv, Typed, sent
  <2>3. /\ sync' \in [Devices -> Requests] /\ Others(d)
        /\ sync'[d].pc = "take" /\ sync'[d].got # None
        /\ sync'[d].migrate = sync[d].migrate /\ sync'[d].replace = sync[d].replace
    <3>. DEFINE r == [sync[d] EXCEPT !.pc = "take", !.got = server.data]
    <3>1. /\ r \in Requests /\ r.pc = "take" /\ r.got = server.data
          /\ r.migrate = sync[d].migrate /\ r.replace = sync[d].replace
      BY <2>2 DEF Requests, Steps
    <3>2. sync' = [sync EXCEPT ![d] = r]
      BY <2>1
    <3>. HIDE DEF r
    <3>. QED  BY <1>3, <2>2, <3>1, <3>2 DEF Others
  <2>4. FileThere(d)' /\ Hashed(d)' /\ (Exchanging(d) => Accepted(d))'
    BY <1>1, <2>3 DEF SyncInv, Device, FileThere, Hashed, Exchanging, Accepted, Fetch, At
  <2>. QED
    BY <1>1, <2>3, <2>4, AskKeeps
<1>. QED
  BY <1>2, <1>3

-----------------------------------------------------------------------------
(* The upload.                                                              *)

LEMMA PutDataKeeps ==
  ASSUME SyncInv, NEW d \in Devices, PutData(d)
  PROVE  SyncInv'
<1>1. ~Uploading(d) /\ UNCHANGED <<file, wal, backup, pool, now, had>>
  BY DEF PutData, Remotely, Uploading, At
<1>2. CASE file[d] = None
  BY <1>1, <1>2, AnswerKeeps DEF PutData
<1>3. CASE file[d] # None
  <2>1. /\ sync' \in [Devices -> Requests] /\ Others(d) /\ sync'[d].pc = "time"
        /\ sync'[d].sha = sync[d].sha /\ FileThere(d)' /\ Hashed(d)' /\ ~Exchanging(d)'
    BY <1>1, <1>3, GotoFacts DEF SyncInv, PutData, Steps, FileThere, Hashed, Exchanging
  <2>2. /\ server' = [server EXCEPT !.data = file[d]]
        /\ upset' = \E x \in Devices : Uploading(x)
        /\ late' = (file[d] # sync[d].sha) /\ reached' = reached \cup file[d]
    BY <1>3 DEF PutData
  <2>. /\ file[d] \in Contents /\ sync[d].sha # None /\ sync[d].sha \subseteq file[d]
    BY <1>3 DEF SyncInv, Typed, Databases, Device, Hashed, PutData, At
  <2>3. Typed'
    <3>1. reached' \in Contents /\ file[d] \in Databases
      BY <2>2 DEF SyncInv, Typed, Contents, Databases
    <3>. QED  BY <1>1, <2>1, <2>2, <3>1 DEF SyncInv, Typed
  <2>4. \A x \in Devices : Device(x)'
    BY <1>1, <2>1, RemoteKeepsDevices DEF SyncInv
  <2>5. OneUpload'
    <3>. SUFFICES ASSUME ~upset' PROVE OneUpload'
      BY DEF OneUpload
    <3>1. \A x \in Devices : Uploading(x)' => x = d
      BY <2>1, <2>2 DEF Uploading, Others
    <3>2. server'.data = file[d] /\ Content(server'.data) = file[d]
      BY <1>3, <2>2 DEF SyncInv, Typed, Content
    <3>. QED  BY <2>1, <2>2, <3>1, <3>2 DEF OneUpload
  <2>6. Beside' /\ Settled'
    BY <1>3, <2>1, <2>2 DEF SyncInv, Typed, Server, Beside, Settled, Uploading, Others
  <2>. QED
    BY <2>3, <2>4, <2>5, <2>6 DEF SyncInv, Server
<1>. QED
  BY <1>2, <1>3

LEMMA PutTimeKeeps ==
  ASSUME SyncInv, NEW d \in Devices, PutTime(d)
  PROVE  SyncInv'
<1>1. UNCHANGED <<file, wal, backup, pool, now, had, upset, sent>> /\ Uploading(d)
  BY DEF PutTime, Remotely, Uploading, At
<1>2. /\ sync' \in [Devices -> Requests] /\ Others(d) /\ sync'[d].pc = "sha"
      /\ sync'[d].sha = sync[d].sha
  BY GotoFacts DEF SyncInv, PutTime, Steps
<1>3. server' = [server EXCEPT !.timez = sync[d].time] /\ sync[d].time \in Nat
  BY DEF PutTime, SyncInv, Typed, sent, Requests
<1>4. Typed'
  BY <1>1, <1>2, <1>3 DEF SyncInv, Typed, sent
<1>5. FileThere(d)' /\ Hashed(d)' /\ ~Exchanging(d)'
  BY <1>1, <1>2 DEF SyncInv, Device, FileThere, Hashed, Exchanging, Uploading
<1>6. \A x \in Devices : Device(x)'
  BY <1>1, <1>2, <1>5, RemoteKeepsDevices DEF SyncInv
<1>7. OneUpload'
  BY <1>1, <1>2, <1>3 DEF SyncInv, Typed, sent, Server, OneUpload, Uploading, Others
<1>8. Beside' /\ Settled'
  BY <1>1, <1>2, <1>3 DEF SyncInv, Typed, sent, Server, Beside, Settled, Uploading, Others
<1>. QED
  BY <1>4, <1>6, <1>7, <1>8 DEF SyncInv, Server

\* The last write of an upload that nothing disturbed: no other one is under way.
LEMMA PutShaKeeps ==
  ASSUME SyncInv, NEW d \in Devices, PutSha(d)
  PROVE  SyncInv'
<1>1. UNCHANGED <<file, wal, backup, pool, now, had, upset, sent>> /\ Uploading(d)
  BY DEF PutSha, Remotely, Uploading, At
<1>2. sync' \in [Devices -> Requests] /\ Others(d) /\ sync'[d].pc = "idle"
  BY AnswerFacts DEF SyncInv, PutSha
<1>3. server' = [server EXCEPT !.sha = sync[d].sha] /\ sync[d].sha \in Databases
  BY DEF PutSha, SyncInv, Typed, sent, Requests
<1>4. Typed'
  BY <1>1, <1>2, <1>3 DEF SyncInv, Typed, sent
<1>5. \A x \in Devices : Device(x)'
  BY <1>1, <1>2, RemoteKeepsDevices DEF SyncInv, FileThere, Hashed, Exchanging
<1>6. OneUpload'
  BY <1>1, <1>2, <1>3 DEF SyncInv, Typed, sent, Server, OneUpload, Uploading, Others
<1>7. Beside' /\ Settled'
  BY <1>1, <1>2, <1>3 DEF SyncInv, Typed, sent, Server, Beside, OneUpload, Settled, Uploading, Others, Content
<1>. QED
  BY <1>4, <1>5, <1>6, <1>7 DEF SyncInv, Server

\* Whatever ends a request in the middle of its upload is noted.
LEMMA InterruptedKeepsServer ==
  ASSUME SyncInv, NEW d \in Devices, Others(d), sync'[d].pc = "idle",
         UNCHANGED <<server, sent>>, upset' = (upset \/ Uploading(d))
  PROVE  Server'
  BY DEF SyncInv, Server, Beside, OneUpload, Settled, Uploading, sent, Others

LEMMA DavFailsKeeps ==
  ASSUME SyncInv, NEW d \in Devices, dav_fails(d)
  PROVE  SyncInv'
<1>1. sync' \in [Devices -> Requests] /\ Others(d) /\ sync'[d].pc = "idle"
  BY AnswerFacts DEF SyncInv, dav_fails
<1>2. /\ UNCHANGED <<file, wal, backup, pool, now, had, server, sent>>
      /\ upset' = (upset \/ Uploading(d)) /\ upset' \in BOOLEAN
  BY DEF dav_fails, Remotely, SyncInv, Typed, sent
<1>3. Typed'
  BY <1>1, <1>2 DEF SyncInv, Typed, sent
<1>4. \A x \in Devices : Device(x)'
  BY <1>1, <1>2, RemoteKeepsDevices DEF SyncInv, FileThere, Hashed, Exchanging
<1>. QED
  BY <1>1, <1>2, <1>3, <1>4, InterruptedKeepsServer DEF SyncInv

-----------------------------------------------------------------------------
(* hot_replace.                                                             *)

LEMMA TakePoolKeeps ==
  ASSUME SyncInv, NEW d \in Devices, TakePool(d)
  PROVE  SyncInv'
<1>1. /\ sync' \in [Devices -> Requests] /\ Others(d) /\ sync'[d].pc = "rename"
      /\ sync'[d].got = sync[d].got /\ ~Uploading(d) /\ ~Uploading(d)'
      /\ sync'[d].migrate = sync[d].migrate /\ sync'[d].replace = sync[d].replace /\ Exchanging(d)
  BY GotoFacts DEF SyncInv, TakePool, Steps, Uploading, Exchanging, At
<1>2. file[d] # None /\ file[d] \cup wal[d] \in Contents /\ sync[d].got # None
  BY DEF SyncInv, Typed, sent, Device, FileThere, Moved, TakePool, At, Databases, Contents
<1>3. /\ file' = [file EXCEPT ![d] = file[d] \cup wal[d]] /\ wal' = [wal EXCEPT ![d] = {}]
      /\ pool' = [pool EXCEPT ![d] = "memory"] /\ UNCHANGED <<backup, had, server, now, upset, sent>>
  BY <1>2 DEF TakePool, Locally
<1>4. Typed'
  BY <1>1, <1>2, <1>3 DEF SyncInv, Typed, sent, Databases, Contents
<1>5. Device(d)'
  <2>1. file'[d] # None
    BY <1>2, <1>3, NoneIsNoDatabase DEF SyncInv, Typed, sent
  <2>. QED
    BY <1>1, <1>2, <1>3, <2>1 DEF SyncInv, Typed, sent, Device, FileThere, PoolClosed, Moved, Held, Hashed, Exchanging, Accepted, At, Content
<1>6. ASSUME NEW x \in Devices \ {d} PROVE Device(x)'
  BY <1>1, <1>3 DEF SyncInv, Typed, sent, Others, Device, FileThere, PoolClosed, Moved, Held, Hashed, Exchanging, Accepted, At
<1>. QED
  BY <1>1, <1>3, <1>4, <1>5, <1>6, LocalKeepsServer DEF SyncInv

LEMMA RenameToBackupKeeps ==
  ASSUME SyncInv, NEW d \in Devices, RenameToBackup(d)
  PROVE  SyncInv'
<1>1. /\ sync' \in [Devices -> Requests] /\ Others(d) /\ sync'[d].pc = "write"
      /\ sync'[d].got = sync[d].got /\ ~Uploading(d) /\ ~Uploading(d)'
      /\ sync'[d].migrate = sync[d].migrate /\ sync'[d].replace = sync[d].replace /\ Exchanging(d)
  BY GotoFacts DEF SyncInv, RenameToBackup, Steps, Uploading, Exchanging, At
<1>2. file[d] # None /\ sync[d].got # None /\ pool[d] = "memory" /\ wal[d] = {}
  BY DEF SyncInv, Device, FileThere, PoolClosed, Moved, RenameToBackup, At
<1>3. /\ file' = [file EXCEPT ![d] = None] /\ backup' = [backup EXCEPT ![d] = file[d]]
      /\ had' = [had EXCEPT ![d] = IF backup[d] # None THEN file[d] ELSE had[d]]
      /\ UNCHANGED <<wal, pool, server, now, upset, sent>>
  BY <1>2 DEF RenameToBackup, Locally
<1>4. Typed'
  BY <1>1, <1>2, <1>3 DEF SyncInv, Typed, sent, Databases
<1>5. Device(d)'
  BY <1>1, <1>2, <1>3 DEF SyncInv, Typed, sent, Device, FileThere, PoolClosed, Moved, Held, Hashed, Exchanging, Accepted, At, Content
<1>6. ASSUME NEW x \in Devices \ {d} PROVE Device(x)'
  BY <1>1, <1>3 DEF SyncInv, Typed, sent, Others, Device, FileThere, PoolClosed, Moved, Held, Hashed, Exchanging, Accepted, At
<1>. QED
  BY <1>1, <1>3, <1>4, <1>5, <1>6, LocalKeepsServer DEF SyncInv

LEMMA WriteFileKeeps ==
  ASSUME SyncInv, NEW d \in Devices, WriteFile(d)
  PROVE  SyncInv'
<1>1. /\ sync' \in [Devices -> Requests] /\ Others(d) /\ sync'[d].pc = "connect"
      /\ sync'[d].got = sync[d].got /\ ~Uploading(d) /\ ~Uploading(d)'
      /\ sync'[d].migrate = sync[d].migrate /\ sync'[d].replace = sync[d].replace /\ Exchanging(d)
  BY GotoFacts DEF SyncInv, WriteFile, Steps, Uploading, Exchanging, At
<1>2. file' = [file EXCEPT ![d] = sync[d].got] /\ UNCHANGED <<wal, backup, pool, had, server, now, upset, sent>>
  BY DEF WriteFile, Locally
<1>3. Typed'
  BY <1>1, <1>2 DEF SyncInv, Typed, sent, Requests
<1>4. Device(d)'
  BY <1>1, <1>2 DEF SyncInv, Typed, sent, WriteFile, Device, FileThere, PoolClosed, Moved, Held, Hashed, Exchanging, Accepted, At
<1>5. ASSUME NEW x \in Devices \ {d} PROVE Device(x)'
  BY <1>1, <1>2 DEF SyncInv, Typed, sent, Others, Device, FileThere, PoolClosed, Moved, Held, Hashed, Exchanging, Accepted, At
<1>. QED
  BY <1>1, <1>2, <1>3, <1>4, <1>5, LocalKeepsServer DEF SyncInv

\* The backup is renamed to where it was.
LEMMA ReplaceFailsKeeps ==
  ASSUME SyncInv, NEW d \in Devices, ReplaceFails(d)
  PROVE  SyncInv'
<1>1. /\ sync' \in [Devices -> Requests] /\ Others(d) /\ sync'[d].pc = "idle"
      /\ ~Uploading(d) /\ ~Uploading(d)'
  BY AnswerFacts DEF SyncInv, ReplaceFails, Uploading
<1>2. /\ file' = [file EXCEPT ![d] = IF backup[d] = None THEN sync[d].got ELSE backup[d]]
      /\ backup' = [backup EXCEPT ![d] = None]
      /\ UNCHANGED <<wal, pool, had, server, now, upset, sent>>
  BY DEF ReplaceFails, RestoreBackup, Locally
<1>3. Typed'
  BY <1>1, <1>2 DEF SyncInv, Typed, sent, Requests, Databases
<1>4. Device(d)'
  BY <1>1, <1>2 DEF SyncInv, Typed, sent, ReplaceFails, Device, FileThere, PoolClosed, Moved, Held, Hashed, Exchanging, Accepted, At, Content
<1>5. ASSUME NEW x \in Devices \ {d} PROVE Device(x)'
  BY <1>1, <1>2 DEF SyncInv, Typed, sent, Others, Device, FileThere, PoolClosed, Moved, Held, Hashed, Exchanging, Accepted, At
<1>. QED
  BY <1>1, <1>2, <1>3, <1>4, <1>5, LocalKeepsServer DEF SyncInv

LEMMA InstallPoolKeeps ==
  ASSUME SyncInv, NEW d \in Devices, InstallPool(d)
  PROVE  SyncInv'
<1>1. /\ sync' \in [Devices -> Requests] /\ Others(d) /\ sync'[d].pc = "cleanup"
      /\ ~Uploading(d) /\ ~Uploading(d)'
      /\ sync'[d].migrate = sync[d].migrate /\ sync'[d].replace = sync[d].replace /\ Exchanging(d)
  BY GotoFacts DEF SyncInv, InstallPool, Steps, Uploading, Exchanging, At
<1>2. /\ pool' = [pool EXCEPT ![d] = "file"] /\ had' = [had EXCEPT ![d] = sync[d].got]
      /\ UNCHANGED <<file, wal, backup, server, now, upset, sent>>
  BY DEF InstallPool, Locally
<1>3. file[d] = sync[d].got /\ sync[d].got # None /\ sync[d].got \in Databases
  BY DEF SyncInv, Typed, sent, Device, Moved, InstallPool, At, Requests
<1>4. Typed'
  BY <1>1, <1>2, <1>3 DEF SyncInv, Typed, sent, Databases
<1>5. Device(d)'
  BY <1>1, <1>2, <1>3 DEF SyncInv, Typed, sent, Device, FileThere, PoolClosed, Moved, Held, Hashed, Exchanging, Accepted, At, Content
<1>6. ASSUME NEW x \in Devices \ {d} PROVE Device(x)'
  BY <1>1, <1>2 DEF SyncInv, Typed, sent, Others, Device, FileThere, PoolClosed, Moved, Held, Hashed, Exchanging, Accepted, At
<1>. QED
  BY <1>1, <1>2, <1>4, <1>5, <1>6, LocalKeepsServer DEF SyncInv

LEMMA RemoveBackupKeeps ==
  ASSUME SyncInv, NEW d \in Devices, RemoveBackup(d)
  PROVE  SyncInv'
<1>1. /\ sync' \in [Devices -> Requests] /\ Others(d) /\ sync'[d].pc = "idle"
      /\ ~Uploading(d) /\ ~Uploading(d)'
  BY AnswerFacts DEF SyncInv, RemoveBackup, Uploading, At
<1>2. backup' = [backup EXCEPT ![d] = None] /\ UNCHANGED <<file, wal, pool, had, server, now, upset, sent>>
  BY DEF RemoveBackup, Locally
<1>3. Typed'
  BY <1>1, <1>2 DEF SyncInv, Typed, sent, Databases
<1>4. Device(d)'
  BY <1>1, <1>2 DEF SyncInv, Typed, sent, RemoveBackup, Device, FileThere, PoolClosed, Moved, Held, Hashed, Exchanging, Accepted, At
<1>5. ASSUME NEW x \in Devices \ {d} PROVE Device(x)'
  BY <1>1, <1>2 DEF SyncInv, Typed, sent, Others, Device, FileThere, PoolClosed, Moved, Held, Hashed, Exchanging, Accepted, At
<1>. QED
  BY <1>1, <1>2, <1>3, <1>4, <1>5, LocalKeepsServer DEF SyncInv

LEMMA SyncDroppedKeeps ==
  ASSUME SyncInv, NEW d \in Devices, Dropped(d)
  PROVE  SyncInv'
<1>1. ~Uploading(d) /\ UNCHANGED <<file, wal, backup, pool, server, now, upset, sent, had>>
  BY DEF Dropped, Locally, Uploading
<1>. QED
  BY <1>1, AnswerKeeps DEF Dropped

LEMMA RestartKeeps ==
  ASSUME SyncInv, NEW d \in Devices, Restart(d)
  PROVE  SyncInv'
<1>1. sync' \in [Devices -> Requests] /\ Others(d) /\ sync'[d].pc = "idle"
  BY AnswerFacts DEF SyncInv, Restart
<1>2. /\ pool' = [pool EXCEPT ![d] = "file"] /\ file' = [file EXCEPT ![d] = Content(file[d])]
      /\ UNCHANGED <<wal, backup, server, now, had, sent>>
      /\ upset' = (upset \/ Uploading(d)) /\ upset' \in BOOLEAN
  BY DEF Restart, SyncInv, Typed, sent
<1>3. Content(file[d]) \in Contents
  BY ContentType DEF SyncInv, Typed, sent
<1>4. Typed'
  BY <1>1, <1>2, <1>3 DEF SyncInv, Typed, sent, Databases
<1>5. Device(d)'
  <2>1. Content(file'[d]) = Content(file[d])
    BY <1>2, <1>3, NoneIsNoDatabase DEF SyncInv, Typed, sent, Content
  <2>. QED
    BY <1>1, <1>2, <2>1 DEF SyncInv, Typed, sent, Device, FileThere, PoolClosed, Moved, Held, Hashed, Exchanging, Accepted, At
<1>6. ASSUME NEW x \in Devices \ {d} PROVE Device(x)'
  BY <1>1, <1>2 DEF SyncInv, Typed, sent, Others, Device, FileThere, PoolClosed, Moved, Held, Hashed, Exchanging, Accepted, At
<1>. QED
  BY <1>1, <1>2, <1>4, <1>5, <1>6, InterruptedKeepsServer DEF SyncInv

-----------------------------------------------------------------------------
(* Every step, and the theorems.                                            *)

LEMMA NextKeeps == SyncInv /\ [Next]_vars => SyncInv'
<1>. SUFFICES ASSUME SyncInv, [Next]_vars PROVE SyncInv'
  OBVIOUS
<1>1. CASE UNCHANGED vars
  BY <1>1, StutterKeeps DEF vars, SyncInv, Typed, sent
<1>2. CASE Tick
  BY <1>2, StutterKeeps DEF Tick, SyncInv, Typed, sent
<1>3. ASSUME NEW d \in Devices, NEW e \in Edits, Edit(d, e) PROVE SyncInv'
  BY <1>3, EditKeeps
<1>4. ASSUME NEW d \in Devices, Checkpoint(d) \/ Restart(d) PROVE SyncInv'
  BY <1>4, CheckpointKeeps, RestartKeeps
<1>5. ASSUME NEW d \in Devices, NEW migrate \in BOOLEAN, NEW replace \in BOOLEAN,
             Request(d, migrate, replace)
      PROVE  SyncInv'
  BY <1>5, RequestKeeps
<1>6. ASSUME NEW d \in Devices, sync_database(d) PROVE SyncInv'
  <2>1. CASE ensure_webdav_dir(d) \/ Hash(d) \/ CompareSha(d) \/ Choose(d) \/ Fetch(d)
    BY <2>1, SyncEnsureKeeps, HashKeeps, CompareShaKeeps, ChooseKeeps, FetchKeeps
  <2>2. CASE PutData(d) \/ PutTime(d) \/ PutSha(d) \/ dav_fails(d)
    BY <2>2, PutDataKeeps, PutTimeKeeps, PutShaKeeps, DavFailsKeeps
  <2>3. CASE hot_replace(d)
    BY <2>3, TakePoolKeeps, RenameToBackupKeeps, WriteFileKeeps, ReplaceFailsKeeps,
       InstallPoolKeeps, RemoveBackupKeeps, SyncDroppedKeeps DEF hot_replace
  <2>. QED
    BY <1>6, <2>1, <2>2, <2>3 DEF sync_database
<1>. QED
  BY <1>1, <1>2, <1>3, <1>4, <1>5, <1>6 DEF Next

THEOREM SyncInvariance == Spec => []SyncInv
  BY InitSyncInv, NextKeeps, PTL DEF Spec

LEMMA TypedTypeOK == Typed => TypeOK
  BY DEF Typed, TypeOK, Requests, Databases

\* Files, logs, backups, hashes and the server's database hold sets of edits, or nothing.
THEOREM SyncTypeCorrect == Spec => []TypeOK
<1>1. SyncInv => TypeOK
  BY TypedTypeOK DEF SyncInv
<1>. QED
  BY <1>1, SyncInvariance, PTL

\* Whatever uploads overlap, are interrupted or change, the server has no time and no hash
\* without a database, and no hash of edits that have never been there; after an upload
\* that was alone, its database has what the hash stands for, and just that if the file
\* had not grown since it was hashed.
THEOREM ServerIsConsistent == Spec => []ServerConsistent
<1>1. SyncInv => ServerConsistent
  BY DEF SyncInv, Server, Beside, Settled, ServerConsistent
<1>. QED
  BY <1>1, SyncInvariance, PTL

\* What each step does to what a device held.
LEMMA StepHolds ==
  ASSUME SyncInv, [Next]_vars
  PROVE  [HeldUntilAccepted]_vars
<1>. SUFFICES ASSUME NEW d \in Devices, ~(had[d] \subseteq had'[d])
              PROVE  Accepted(d) /\ (At(d, "connect") \/ (At(d, "rename") /\ backup[d] # None))
  BY DEF HeldUntilAccepted
<1>1. had \in [Devices -> Contents]
  BY DEF SyncInv, Typed
<1>2. \E x \in Devices : (\E e \in Edits : Edit(x, e)) \/ RenameToBackup(x) \/ InstallPool(x)
  BY DEF Next, vars, Tick, Request, Checkpoint, Restart, sync_database, hot_replace, ensure_webdav_dir, Hash,
     CompareSha, Choose, PutData, PutTime, PutSha, dav_fails, Fetch, TakePool, WriteFile, ReplaceFails,
     RemoveBackup, Dropped, Remotely
<1>3. (\E x \in Devices, e \in Edits : Edit(x, e)) => had[d] \subseteq had'[d]
  BY <1>1 DEF Edit
<1>4. RenameToBackup(d) \/ InstallPool(d)
  BY <1>1, <1>2, <1>3 DEF RenameToBackup, InstallPool
<1>5. Exchanging(d)
  BY <1>4 DEF RenameToBackup, InstallPool, Exchanging, At
<1>6. Accepted(d)
  BY <1>5 DEF SyncInv, Device
<1>7. RenameToBackup(d) => backup[d] # None
  BY <1>1 DEF RenameToBackup
<1>. QED
  BY <1>4, <1>6, <1>7 DEF RenameToBackup, InstallPool

\* What a device held is in its file, its log or its backup through failures, clients that
\* go away and restarts, until a replacement that its user accepted installs the server's
\* database or overwrites the backup that an interrupted one has left: no other step lets
\* go of any of it.
THEOREM ProgressIsFindable == Spec => []ProgressFindable /\ [][HeldUntilAccepted]_vars
<1>1. SyncInv => ProgressFindable
  BY DEF SyncInv, Device, Held, ProgressFindable
<1>2. SyncInv /\ [Next]_vars => [HeldUntilAccepted]_vars
  BY StepHolds
<1>. QED
  BY <1>1, <1>2, SyncInvariance, PTL DEF Spec

-----------------------------------------------------------------------------
(* The inductive invariant, part by part.                                  *)

FileNames == {"primary", "backup"}
Written == 0..2
Fields == {"limit", "path", "ram", "token", "refresh", "chat"}

\* A request asks another server for tokens or a pairing once.
AskingFor == IF holder # NULL /\ holder.at = "refresh" THEN 1 ELSE 0
Counted == spent.issues + AskingFor <= spent.requests + 1

FilesAcceptable == \A n \in FileNames : Valid(stored[n]) => stored[n] \in acceptable

FilesNotOlder ==
  \A n \in FileNames : Valid(stored[n]) => \A f \in Issued : stored[n][f] >= kept[f]

\* Nothing has a number that no other server has issued.
Issuable == {s \in Settings : \A f \in Issued : s[f] <= spent.issues}
OnlyIssued ==
  /\ \A n \in FileNames : Valid(stored[n]) => stored[n] \in Issuable
  /\ Running => held \in Issuable
  /\ \A f \in Forms : forms[f] # NULL => forms[f] \in Issuable
  /\ \A a \in answers : a.value <= spent.issues
  /\ \A f \in Issued : kept[f] <= spent.issues

IInv == SettingsTypeOK /\ Counted /\ FilesAcceptable /\ FilesNotOlder
        /\ MemoryStored /\ NothingOlder /\ StorageFollows

-----------------------------------------------------------------------------
(* The operators of the model.                                              *)

LEMMA DefaultType == Default \in Settings /\ Known \in Settings
<1>1. 0 \in Numbers /\ 1 \in Numbers
  BY BoundsAssumption DEF Numbers
<1>2. Default \in Settings
  BY <1>1 DEF Default, Settings
<1>3. Known \in Settings
  BY <1>1, <1>2 DEF Known, Settings
<1>. QED
  BY <1>2, <1>3

LEMMA SettingsValid == \A x \in Settings : Valid(x)
  BY NothingAssumption DEF Valid

LEMMA RecoveredFacts ==
  ASSUME SettingsTypeOK
  PROVE  /\ Recovered(stored) \in Settings
         /\ Valid(stored.primary) => Recovered(stored) = stored.primary
         /\ ~Valid(stored.primary) /\ Valid(stored.backup) => Recovered(stored) = stored.backup
         /\ ~Valid(stored.primary) /\ ~Valid(stored.backup) => Recovered(stored) = Default
<1>1. CASE Valid(stored.primary)
  BY <1>1 DEF SettingsTypeOK, Recovered, Valid
<1>2. CASE ~Valid(stored.primary) /\ Valid(stored.backup)
  BY <1>2 DEF SettingsTypeOK, Recovered, Valid
<1>3. CASE ~Valid(stored.primary) /\ ~Valid(stored.backup)
  BY <1>3, DefaultType DEF Recovered
<1>. QED
  BY <1>1, <1>2, <1>3

LEMMA StorageOfType == \A s \in Settings, mounted \in BOOLEAN : StorageOf(s, mounted) \in Storages
  BY DEF Settings, Storages, StorageOf, DefaultFolder

\* Tokens and pairings of one kind, whichever of two are taken.
LEMMA LowerFacts ==
  ASSUME NEW s \in Settings, NEW low \in [Issued -> Numbers]
  PROVE  /\ Older(s, low) \in [Issued -> Numbers] /\ Newer(s, low) \in [Issued -> Numbers]
         /\ \A f \in Issued : Older(s, low)[f] <= low[f] /\ Older(s, low)[f] <= s[f]
         /\ (\A f \in Issued : low[f] <= s[f]) => \A f \in Issued : Newer(s, low)[f] = s[f]
  BY BoundsAssumption DEF Older, Newer, Issued, Settings, Numbers

\* Whatever part of the files is written: what is written is acceptable, and nothing that
\* can be read is older than what counts as reported saved.
LEMMA SavingFacts ==
  ASSUME SettingsTypeOK, FilesAcceptable, FilesNotOlder,
         NEW s \in Settings, NEW low \in [Issued -> Numbers],
         NEW saved \in Written, NEW up \in BOOLEAN,
         \A f \in Issued : low[f] <= kept[f] /\ (saved > 0 => low[f] <= s[f]),
         Saving(s, low, saved, up)
  PROVE  /\ stored' \in [primary : Settings \union {NULL, DAMAGED}, backup : Settings \union {NULL, DAMAGED}]
         /\ acceptable' \subseteq Settings /\ kept' \in [Issued -> Numbers]
         /\ FilesAcceptable' /\ FilesNotOlder'
         /\ stored'.primary = IF saved = 2 THEN s ELSE stored.primary
         /\ saved = 2 => \A f \in Issued : kept'[f] <= s[f]
         /\ saved < 2 => kept' = low
<1>1. /\ stored' = [primary |-> IF saved = 2 THEN s ELSE stored.primary,
                    backup |-> IF saved >= 1 THEN s ELSE stored.backup]
      /\ stored' \in [primary : Settings \union {NULL, DAMAGED}, backup : Settings \union {NULL, DAMAGED}]
  BY DEF Saving, save_to_file, SettingsTypeOK
<1>2. /\ acceptable' \subseteq Settings
      /\ saved > 0 => s \in acceptable'
      /\ saved < 2 => acceptable \subseteq acceptable'
  BY DEF Saving, SettingsTypeOK, Written
<1>3. /\ kept' \in [Issued -> Numbers]
      /\ saved < 2 => kept' = low
      /\ saved = 2 => \A f \in Issued : kept'[f] <= s[f]
  <2>1. kept' = IF saved = 2 /\ up THEN Newer(s, low) ELSE low
    BY DEF Saving
  <2>2. saved = 2 => \A f \in Issued : low[f] <= s[f] /\ s[f] \in Numbers
    BY DEF Settings, Issued
  <2>3. \A x \in Numbers : x <= x
    BY BoundsAssumption DEF Numbers
  <2>. QED
    BY <2>1, <2>2, <2>3, LowerFacts
<1>4. FilesAcceptable'
  BY <1>1, <1>2 DEF FilesAcceptable, FileNames, Written
<1>5. FilesNotOlder'
  <2>1. CASE saved = 2
    BY <1>1, <1>3, <2>1 DEF FilesNotOlder, FileNames
  <2>2. CASE saved < 2
    <3>1. kept' = low
      BY <1>3, <2>2
    <3>2. ASSUME NEW n \in FileNames, Valid(stored'[n]) PROVE \A f \in Issued : stored'[n][f] >= low[f]
      <4>1. CASE n = "backup" /\ saved = 1
        BY <1>1, <4>1
      <4>2. CASE stored'[n] = stored[n]
        BY <3>2, <4>2, BoundsAssumption DEF FilesNotOlder, SettingsTypeOK, Settings, Numbers, Issued, Valid, FileNames
      <4>. QED
        BY <1>1, <2>2, <4>1, <4>2 DEF FileNames, Written
    <3>. QED
      BY <3>1, <3>2 DEF FilesNotOlder
  <2>. QED
    BY <2>1, <2>2 DEF Written
<1>. QED
  BY <1>1, <1>2, <1>3, <1>4, <1>5

LEMMA TakesFacts ==
  ASSUME SettingsTypeOK, Counted, NEW kinds, Takes(kinds), AskingFor' \in {0, 1},
         (IF "issues" \in kinds THEN 1 ELSE 0) + AskingFor' <= AskingFor + (IF "requests" \in kinds THEN 1 ELSE 0)
  PROVE  /\ spent' \in [requests : 0..MaxRequests, issues : Numbers, troubles : 0..MaxTroubles]
         /\ Counted'
<1>1. /\ spent'.requests = IF "requests" \in kinds THEN spent.requests + 1 ELSE spent.requests
      /\ spent'.issues = IF "issues" \in kinds THEN spent.issues + 1 ELSE spent.issues
      /\ spent'.troubles = IF "troubles" \in kinds THEN spent.troubles + 1 ELSE spent.troubles
      /\ spent' \in [requests : Nat, issues : Nat, troubles : Nat]
  BY BoundsAssumption DEF SettingsTypeOK, Takes, Numbers
<1>2. spent'.requests <= MaxRequests /\ spent'.troubles <= MaxTroubles
  BY <1>1, BoundsAssumption DEF SettingsTypeOK, Takes, Numbers
<1>3. Counted'
  BY <1>1, BoundsAssumption DEF SettingsTypeOK, Counted, AskingFor, Numbers
<1>4. spent'.issues <= MaxRequests + 1
  BY <1>1, <1>2, <1>3, BoundsAssumption DEF Counted
<1>. QED
  BY <1>1, <1>2, <1>3, <1>4, BoundsAssumption DEF Numbers

LEMMA DownFacts ==
  ASSUME Down
  PROVE  /\ held' = NULL /\ storage' = NULL /\ holder' = NULL /\ AskingFor' = 0
         /\ answers' = {} /\ unsaved' = {} /\ drift' = {}
         /\ MemoryStored' /\ NothingOlder' /\ StorageFollows'
  BY DEF Down, AskingFor, MemoryStored, NothingOlder, StorageFollows, Running

THEOREM InitIInv == SettingsInit => IInv
<1>. SUFFICES ASSUME SettingsInit PROVE IInv
  OBVIOUS
<1>1. SettingsTypeOK
  BY DefaultType, BoundsAssumption DEF SettingsInit, SettingsTypeOK, NoneIssued, Numbers
<1>2. Counted
  BY DEF SettingsInit, Counted, AskingFor
<1>3. FilesAcceptable /\ FilesNotOlder
  <2>1. CASE stored = [primary |-> NULL, backup |-> NULL]
    BY <2>1 DEF FilesAcceptable, FilesNotOlder, FileNames, Valid
  <2>2. CASE stored = [primary |-> Known, backup |-> Known] /\ acceptable = {Known}
    <3>1. \A f \in Issued : Known[f] >= 0
      <4>1. Known.token = 0 /\ Known.refresh = 1 /\ Known.chat = 0
        BY DEF Known, Default
      <4>. QED
        BY <4>1 DEF Issued
    <3>2. \A n \in FileNames : stored[n] = Known
      BY <2>2 DEF FileNames
    <3>3. kept = [f \in Issued |-> 0]
      BY DEF SettingsInit, NoneIssued
    <3>. QED
      BY <2>2, <3>1, <3>2, <3>3 DEF FilesAcceptable, FilesNotOlder
  <2>. QED
    BY <2>1, <2>2 DEF SettingsInit
<1>4. MemoryStored /\ NothingOlder /\ StorageFollows
  BY DEF SettingsInit, MemoryStored, NothingOlder, StorageFollows, Running
<1>. QED
  BY <1>1, <1>2, <1>3, <1>4 DEF IInv

-----------------------------------------------------------------------------
(* Start and end of the server.                                             *)

FilesTyped ==
  /\ stored \in [primary : Settings \union {NULL, DAMAGED}, backup : Settings \union {NULL, DAMAGED}]
  /\ acceptable \subseteq Settings /\ kept \in [Issued -> Numbers]

FilesSound == FilesTyped /\ FilesAcceptable /\ FilesNotOlder

MemoryTyped ==
  /\ held \in Settings \union {NULL} /\ storage \in Storages \union {NULL}
  /\ (storage = NULL) = (held = NULL)
  /\ holder \in [op : {"check", "sync", "oauth"}, at : {"refresh", "call"}] \union {NULL}
  /\ answers \subseteq [what : {"token", "chat"}, value : Numbers]
  /\ unsaved \subseteq Issued /\ drift \subseteq {"limit", "path", "ram"}

MemorySound == MemoryTyped /\ MemoryStored /\ NothingOlder /\ StorageFollows

SpentSound ==
  /\ spent \in [requests : 0..MaxRequests, issues : Numbers, troubles : 0..MaxTroubles]
  /\ Counted

FormsTyped == forms \in [Forms -> Settings \union {NULL}]

LEMMA Parts == IInv <=> FilesSound /\ MemorySound /\ SpentSound /\ FormsTyped
  BY DEF IInv, SettingsTypeOK, FilesSound, FilesTyped, MemorySound, MemoryTyped, SpentSound, FormsTyped

LEMMA PartsNext == IInv' <=> FilesSound' /\ MemorySound' /\ SpentSound' /\ FormsTyped'
  BY DEF IInv, SettingsTypeOK, FilesSound, FilesTyped, MemorySound, MemoryTyped, SpentSound, FormsTyped

LEMMA FilesStay ==
  ASSUME FilesSound, UNCHANGED <<stored, acceptable, kept>>
  PROVE  FilesSound'
  BY DEF FilesSound, FilesTyped, FilesAcceptable, FilesNotOlder

LEMMA MemoryStays ==
  ASSUME MemorySound, UNCHANGED <<stored, held, storage, holder, answers, kept, unsaved, drift>>
  PROVE  MemorySound' /\ AskingFor' = AskingFor
  BY DEF MemorySound, MemoryTyped, MemoryStored, NothingOlder, StorageFollows, Running, AskingFor

LEMMA MemoryEmpties ==
  ASSUME Down
  PROVE  MemorySound' /\ AskingFor' = 0
<1>1. MemoryTyped'
  BY DownFacts DEF MemoryTyped
<1>. QED
  BY <1>1, DownFacts DEF MemorySound

LEMMA AskingIsBit == AskingFor \in {0, 1} /\ AskingFor' \in {0, 1}
  BY DEF AskingFor

LEMMA SpentStep ==
  ASSUME IInv, NEW kinds, Takes(kinds), "issues" \notin kinds,
         AskingFor' <= AskingFor + (IF "requests" \in kinds THEN 1 ELSE 0)
  PROVE  SpentSound'
<1>1. AskingFor' \in {0, 1}
  BY AskingIsBit
<1>2. (IF "issues" \in kinds THEN 1 ELSE 0) = 0
  OBVIOUS
<1>3. \A x \in {0, 1} : 0 + x = x
  OBVIOUS
<1>4. 0 + AskingFor' = AskingFor'
  BY <1>1, <1>3, Zenon
<1>. QED
  BY <1>1, <1>2, <1>4, TakesFacts DEF IInv, SpentSound

\* A start writes what it recovered, and nothing that was reported saved is older in it.
LEMMA LoadFacts ==
  ASSUME IInv, NEW moved \in Written, NEW saved \in Written, NEW up \in BOOLEAN,
         load_settings_or_recover(moved, saved, up)
  PROVE  /\ FilesSound'
         /\ saved = 2 => stored'.primary = Recovered(stored)
         /\ \A f \in Issued : Recovered(stored)[f] >= kept'[f]
<1>. DEFINE s == Recovered(stored)
<1>1. /\ s \in Settings /\ SettingsTypeOK
      /\ Valid(stored.primary) => s = stored.primary
      /\ ~Valid(stored.primary) /\ Valid(stored.backup) => s = stored.backup
      /\ ~Valid(stored.primary) /\ ~Valid(stored.backup) => s = Default
  BY RecoveredFacts DEF IInv
<1>. HIDE DEF s
<1>2. FilesSound
  BY Parts
<1>3. CASE Valid(stored.primary)
  <2>1. UNCHANGED <<stored, acceptable, kept>>
    BY <1>3 DEF load_settings_or_recover
  <2>2. \A f \in Issued : s[f] >= kept[f]
    BY <1>1, <1>3 DEF IInv, FilesNotOlder, FileNames
  <2>. QED
    BY <1>1, <1>2, <1>3, <2>1, <2>2, FilesStay DEF s
<1>4. CASE ~Valid(stored.primary)
  <2>1. /\ stored' = save_to_file(Preserved(stored, moved), s, saved)
        /\ acceptable' = IF saved = 2 /\ up THEN {s} ELSE acceptable \union {s}
        /\ kept' = IF Valid(stored.backup) THEN kept ELSE NoneIssued
    BY <1>4 DEF load_settings_or_recover, s
  <2>2. /\ stored'.primary = IF saved = 2 THEN s ELSE Preserved(stored, moved).primary
        /\ stored'.backup = IF saved >= 1 THEN s ELSE Preserved(stored, moved).backup
        /\ stored' \in [primary : Settings \union {NULL, DAMAGED}, backup : Settings \union {NULL, DAMAGED}]
    BY <1>1, <2>1 DEF save_to_file, Preserved, preserve_invalid_settings_file, SettingsTypeOK
  <2>3. /\ ~Valid(Preserved(stored, moved).primary)
        /\ Valid(Preserved(stored, moved).backup) =>
              Valid(stored.backup) /\ Preserved(stored, moved).backup = stored.backup
    BY <1>4 DEF Preserved, preserve_invalid_settings_file, Valid
  <2>4. \A n \in FileNames : Valid(stored'[n]) => stored'[n] = s
    BY <1>1, <1>4, <2>2, <2>3 DEF FileNames
  <2>5. s \in acceptable' /\ acceptable' \subseteq Settings
    BY <1>1, <2>1 DEF SettingsTypeOK
  <2>6. kept' \in [Issued -> Numbers] /\ \A f \in Issued : s[f] >= kept'[f]
    <3>1. CASE Valid(stored.backup)
      BY <1>1, <1>4, <2>1, <3>1 DEF IInv, SettingsTypeOK, FilesNotOlder, FileNames
    <3>2. CASE ~Valid(stored.backup)
      BY <1>1, <1>4, <2>1, <3>2, BoundsAssumption DEF NoneIssued, Default, Numbers, Issued
    <3>. QED
      BY <3>1, <3>2
  <2>7. FilesSound'
    BY <2>2, <2>4, <2>5, <2>6 DEF FilesSound, FilesTyped, FilesAcceptable, FilesNotOlder
  <2>. QED
    BY <2>2, <2>6, <2>7 DEF s
<1>. QED
  BY <1>3, <1>4

LEMMA StartKeeps ==
  ASSUME IInv, NEW moved \in Written, NEW saved \in Written, NEW up \in BOOLEAN,
         NEW mounted \in BOOLEAN, build_state(moved, saved, up, mounted)
  PROVE  IInv'
<1>. DEFINE s == Recovered(stored)
            kinds == {"requests"} \union Failing(saved, up) \union Troubled(~mounted)
<1>1. FilesSound' /\ (saved = 2 => stored'.primary = s) /\ \A f \in Issued : s[f] >= kept'[f]
  BY LoadFacts DEF build_state
<1>2. s \in Settings
  BY RecoveredFacts DEF IInv
<1>3. FormsTyped'
  BY Parts DEF build_state, FormsTyped
<1>4. Takes(kinds) /\ "requests" \in kinds /\ "issues" \notin kinds
  BY DEF build_state, Failing, Troubled
<1>. HIDE DEF s, kinds
<1>5. CASE saved = 2 /\ up
  <2>1. /\ held' = s /\ storage' = StorageOf(s, mounted)
        /\ drift' = IF s.ram /\ ~mounted THEN {"ram"} ELSE {}
        /\ UNCHANGED <<holder, answers, unsaved>>
    BY <1>5 DEF build_state, Up, s
  <2>2. MemoryTyped'
    BY <1>2, <2>1, StorageOfType, NothingAssumption, Parts DEF MemorySound, MemoryTyped
  <2>3. MemoryStored'
    BY <1>1, <1>2, <1>5, <2>1, NothingAssumption DEF MemoryStored
  <2>4. NothingOlder'
    BY <1>1, <2>1 DEF NothingOlder
  <2>5. StorageFollows'
    BY <1>2, <2>1 DEF StorageFollows, StorageOf, Settings
  <2>6. AskingFor' = AskingFor
    BY <2>1 DEF AskingFor
  <2>. QED
    BY <1>1, <1>3, <1>4, <2>2, <2>3, <2>4, <2>5, <2>6, SpentStep, AskingIsBit, PartsNext DEF MemorySound
<1>6. CASE ~(saved = 2 /\ up)
  <2>1. Down
    BY <1>6 DEF build_state
  <2>. QED
    BY <1>1, <1>3, <1>4, <2>1, MemoryEmpties, SpentStep, AskingIsBit, PartsNext
<1>. QED
  BY <1>5, <1>6

LEMMA EndKeeps ==
  ASSUME IInv, End
  PROVE  IInv'
<1>1. FilesSound' /\ FormsTyped'
  BY Parts, FilesStay DEF End, FormsTyped
<1>2. MemorySound' /\ SpentSound'
  BY MemoryEmpties, SpentStep, AskingIsBit DEF End
<1>. QED
  BY <1>1, <1>2, PartsNext

\* The other file still has settings that were reported saved or tried since.
LEMMA DamageKeeps ==
  ASSUME IInv, NEW n \in FileNames, Damage(n)
  PROVE  IInv'
<1>1. /\ stored' = [stored EXCEPT ![n] = DAMAGED] /\ Takes({"troubles"})
      /\ UNCHANGED <<held, storage, forms, holder, answers, acceptable, kept, unsaved, drift>>
  BY DEF Damage
<1>2. /\ stored' \in [primary : Settings \union {NULL, DAMAGED}, backup : Settings \union {NULL, DAMAGED}]
      /\ \A x \in FileNames : Valid(stored'[x]) => stored'[x] = stored[x]
      /\ stored'.primary = stored.primary \/ stored'.primary = DAMAGED
  BY <1>1, Parts DEF FilesSound, FilesTyped, FileNames, Valid
<1>3. FilesSound'
  BY <1>1, <1>2, Parts DEF FilesSound, FilesTyped, FilesAcceptable, FilesNotOlder, Valid
<1>4. MemorySound'
  BY <1>1, <1>2, NothingAssumption, Parts DEF MemorySound, MemoryTyped, MemoryStored, NothingOlder, StorageFollows, Running
<1>5. AskingFor' = AskingFor
  BY <1>1 DEF AskingFor
<1>6. SpentSound'
  BY <1>1, <1>5, SpentStep, AskingIsBit
<1>. QED
  BY <1>1, <1>3, <1>4, <1>6, Parts, PartsNext DEF FormsTyped

-----------------------------------------------------------------------------
(* Forms.                                                                   *)

LEMMA GetKeeps ==
  ASSUME IInv, NEW f \in Forms, get_settings(f)
  PROVE  IInv'
<1>1. FilesSound' /\ MemorySound' /\ AskingFor' = AskingFor
  BY Parts, FilesStay, MemoryStays DEF get_settings
<1>2. FormsTyped'
  BY Parts DEF get_settings, FormsTyped, MemorySound, MemoryTyped
<1>3. SpentSound'
  BY <1>1, Parts DEF get_settings, SpentSound, Counted
<1>. QED
  BY <1>1, <1>2, <1>3, PartsNext

\* Settings are saved, and then only take the place of those in memory.
LEMMA KeepsMemory ==
  ASSUME IInv, NEW s \in Settings, NEW saved \in Written, Running, Running',
         MemoryTyped', FilesSound', held' = IF saved = 2 THEN s ELSE held,
         stored'.primary = IF saved = 2 THEN s ELSE stored.primary,
         saved = 2 => \A f \in Issued : kept'[f] <= s[f],
         saved < 2 => \A f \in Issued : kept'[f] <= kept[f],
         saved < 2 => unsaved' = unsaved
  PROVE  MemoryStored' /\ NothingOlder'
<1>1. CASE saved = 2
  <2>1. MemoryStored'
    BY <1>1, NothingAssumption DEF MemoryStored
  <2>2. NothingOlder'
    BY <1>1, BoundsAssumption DEF NothingOlder, Settings, Issued, Numbers, FilesSound, FilesTyped
  <2>. QED
    BY <2>1, <2>2
<1>2. CASE saved < 2
  <2>1. held' = held /\ stored'.primary = stored.primary /\ unsaved' = unsaved
    BY <1>2
  <2>2. MemoryStored'
    BY <2>1 DEF IInv, MemoryStored
  <2>3. held \in Settings /\ kept \in [Issued -> Numbers] /\ kept' \in [Issued -> Numbers]
    BY Parts DEF Running, MemorySound, MemoryTyped, FilesSound, FilesTyped
  <2>4. \A f \in Issued : held[f] >= kept[f] /\ held[f] \in Numbers
    BY <2>3 DEF IInv, NothingOlder, Settings, Issued
  <2>5. \A x, y, z \in Numbers : x <= y /\ z >= y => z >= x
    BY BoundsAssumption DEF Numbers
  <2>6. \A f \in Issued : held[f] >= kept'[f]
    BY <1>2, <2>3, <2>4, <2>5
  <2>. QED
    BY <2>1, <2>2, <2>6 DEF NothingOlder
<1>. QED
  BY <1>1, <1>2 DEF Written

LEMMA EditedType ==
  ASSUME NEW form \in Settings, NEW edit \in FormEdits, NEW s \in Settings
  PROVE  Edited(form, edit) \in Settings /\ apply_updates(Edited(form, edit), s) \in Settings
         /\ apply_updates(Edited(form, edit), s).ram = s.ram
<1>1. 0 \in Numbers
  BY BoundsAssumption DEF Numbers
<1>2. Edited(form, edit) \in Settings
  <2>1. CASE edit = "limit"
    <3>1. 3 - form.limit \in {1, 2}
      BY DEF Settings
    <3>. QED
      BY <2>1, <3>1 DEF Edited, Settings
  <2>2. CASE edit = "path"
    BY <2>2 DEF Edited, Settings
  <2>3. CASE edit = "sign_out"
    BY <2>3, <1>1 DEF Edited, Settings
  <2>4. CASE edit = "other"
    BY <2>4 DEF Edited
  <2>. QED
    BY <2>1, <2>2, <2>3, <2>4 DEF FormEdits
<1>. QED
  BY <1>2 DEF apply_updates, Settings

LEMMA UpdateKeeps ==
  ASSUME IInv, NEW f \in Forms, NEW edit \in FormEdits, NEW saved \in Written,
         NEW up \in BOOLEAN, NEW created \in BOOLEAN,
         update_settings(f, edit, saved, up, created)
  PROVE  IInv'
<1>. DEFINE form == Edited(forms[f], edit)
            s == apply_updates(form, held)
            low == IF saved = 0 THEN kept ELSE Older(s, kept)
            kinds == {"requests"} \union Failing(saved, up) \union Troubled(~created)
<1>1. /\ held \in Settings /\ forms[f] \in Settings /\ storage \in Storages
      /\ kept \in [Issued -> Numbers] /\ unsaved \subseteq Issued /\ SettingsTypeOK
      /\ Running
  BY Parts DEF update_settings, Free, Running, MemorySound, MemoryTyped, FormsTyped,
     FilesSound, FilesTyped, IInv
<1>2. form \in Settings /\ s \in Settings /\ s.ram = held.ram
  BY <1>1, EditedType
<1>3. /\ Takes(kinds) /\ "requests" \in kinds /\ "issues" \notin kinds
      /\ forms' = [forms EXCEPT ![f] = form] /\ Saving(s, low, saved, up)
  BY DEF update_settings, Failing, Troubled
<1>4. /\ ~up => Down
      /\ up /\ saved < 2 => UNCHANGED <<held, storage, holder, answers, unsaved, drift>>
      /\ up /\ saved = 2 =>
           /\ held' = s /\ unsaved' = {}
           /\ storage' = set_downloads_folder_path(s, created)
           /\ drift' = (drift \ Told(s, created)) \union Untold(s, created)
           /\ UNCHANGED <<holder, answers>>
  <2>1. CASE ~up
    BY <2>1 DEF update_settings
  <2>2. CASE up /\ saved < 2
    BY <2>2 DEF update_settings
  <2>3. CASE up /\ saved = 2
    BY <2>3 DEF update_settings
  <2>. QED
    BY <2>1, <2>2, <2>3 DEF Written
<1>. HIDE DEF form, s, kinds
<1>5. FormsTyped'
  BY <1>2, <1>3, Parts DEF FormsTyped
<1>6. /\ low \in [Issued -> Numbers]
      /\ \A i \in Issued : low[i] <= kept[i] /\ (saved > 0 => low[i] <= s[i])
  <2>1. \A x \in Numbers : x <= x
    BY BoundsAssumption DEF Numbers
  <2>. QED
    BY <1>1, <1>2, <2>1, LowerFacts
<1>. HIDE DEF low
<1>7. /\ FilesSound' /\ stored'.primary = (IF saved = 2 THEN s ELSE stored.primary)
      /\ saved = 2 => \A i \in Issued : kept'[i] <= s[i]
      /\ saved < 2 => kept' = low
  <2>1. FilesAcceptable /\ FilesNotOlder
    BY DEF IInv
  <2>. QED
    BY <1>1, <1>2, <1>3, <1>6, <2>1, SavingFacts DEF FilesSound, FilesTyped
<1>8. MemorySound' /\ AskingFor' <= AskingFor + 1
  <2>1. CASE ~up
    BY <1>4, <2>1, MemoryEmpties, AskingIsBit
  <2>2. CASE up /\ saved < 2
    <3>1. MemoryTyped' /\ StorageFollows' /\ Running'
      BY <1>1, <1>4, <2>2, Parts DEF MemorySound, MemoryTyped, StorageFollows, Running
    <3>2. MemoryStored' /\ NothingOlder'
      BY <1>1, <1>2, <1>4, <1>6, <1>7, <2>2, <3>1, KeepsMemory
    <3>3. AskingFor' = AskingFor
      BY <1>4, <2>2 DEF AskingFor
    <3>. QED
      BY <3>1, <3>2, <3>3, AskingIsBit DEF MemorySound
  <2>3. CASE up /\ saved = 2
    <3>1. /\ held' = s /\ unsaved' = {} /\ UNCHANGED <<holder, answers>>
          /\ storage' = IF s.path # NULL /\ created THEN [storage EXCEPT !.path = s.path] ELSE storage
          /\ drift' = (drift \ Told(s, created)) \union Untold(s, created)
      BY <1>4, <2>3 DEF set_downloads_folder_path
    <3>2. storage' \in Storages
      BY <1>1, <1>2, <3>1 DEF Storages, Settings
    <3>3. MemoryTyped' /\ Running'
      BY <1>1, <1>2, <3>1, <3>2, NothingAssumption, Parts
      DEF MemorySound, MemoryTyped, Running, Told, Untold
    <3>4. MemoryStored' /\ NothingOlder'
      BY <1>1, <1>2, <1>7, <2>3, <3>1, <3>3, KeepsMemory
    <3>5. StorageFollows'
      <4>1. ASSUME "limit" \notin drift' PROVE storage'.limit = s.limit
        BY <1>1, <1>2, <3>1, <4>1 DEF IInv, StorageFollows, StorageOf, Storages, Told, Untold
      <4>2. ASSUME "path" \notin drift' PROVE storage'.path = StorageOf(s, TRUE).path
        BY <1>1, <1>2, <3>1, <4>2 DEF IInv, StorageFollows, StorageOf, Storages, Told, Untold
      <4>3. ASSUME "ram" \notin drift' PROVE storage'.ram = (s.ram /\ TRUE)
        BY <1>1, <1>2, <3>1, <4>3 DEF IInv, StorageFollows, StorageOf, Storages, Told, Untold
      <4>4. ASSUME NEW x \in {"limit", "path", "ram"} \ drift'
            PROVE  storage'[x] = StorageOf(s, TRUE)[x]
        BY <1>2, <3>2, <4>1, <4>2, <4>3 DEF StorageOf, Storages, Settings
      <4>. QED
        BY <3>1, <4>4 DEF StorageFollows
    <3>6. AskingFor' = AskingFor
      BY <3>1 DEF AskingFor
    <3>. QED
      BY <3>3, <3>4, <3>5, <3>6, AskingIsBit DEF MemorySound
  <2>. QED
    BY <2>1, <2>2, <2>3 DEF Written
<1>9. SpentSound'
  BY <1>3, <1>8, SpentStep
<1>. QED
  BY <1>5, <1>7, <1>8, <1>9, PartsNext

\* The storage has changed its mode already when the settings are saved.
LEMMA MountKeeps ==
  ASSUME IInv, NEW enabled \in BOOLEAN, NEW mounted \in BOOLEAN, NEW saved \in Written,
         NEW up \in BOOLEAN, mount_tmpfs(enabled, mounted, saved, up)
  PROVE  IInv'
<1>. DEFINE s == [held EXCEPT !.ram = enabled]
            kinds == {"requests"} \union Troubled(~mounted \/ saved < 2 \/ ~up)
<1>1. /\ held \in Settings /\ storage \in Storages /\ kept \in [Issued -> Numbers]
      /\ SettingsTypeOK /\ Running /\ FilesAcceptable /\ FilesNotOlder /\ FilesSound
  BY Parts DEF mount_tmpfs, Free, Running, MemorySound, MemoryTyped, FilesSound, FilesTyped, IInv
<1>2. s \in Settings /\ s.ram = enabled /\ \A f \in Fields \ {"ram"} : s[f] = held[f]
  BY <1>1 DEF Settings, Fields
<1>3. /\ Takes(kinds) /\ "requests" \in kinds /\ "issues" \notin kinds /\ FormsTyped'
      /\ mounted => Saving(s, kept, saved, up)
      /\ ~mounted => enabled /\ up /\ saved = 0 /\ UNCHANGED <<stored, acceptable, kept>>
  BY Parts DEF mount_tmpfs, Troubled, FormsTyped
<1>4. ~up => Down
  BY DEF mount_tmpfs
<1>5. up => /\ storage' = [storage EXCEPT !.ram = enabled /\ mounted]
            /\ UNCHANGED <<holder, answers>>
  BY <1>1 DEF mount_tmpfs, enable_ram, disable_ram
<1>6. up /\ saved = 2 => held' = s /\ unsaved' = {} /\ drift' = drift \ {"ram"}
  BY DEF mount_tmpfs
<1>7. up /\ saved # 2 => held' = held /\ unsaved' = unsaved /\ drift' = drift \union {"ram"}
  BY DEF mount_tmpfs
<1>. HIDE DEF s, kinds
<1>8. \A f \in Issued : kept[f] <= kept[f] /\ kept[f] <= s[f]
  <2>1. \A f \in Issued : s[f] = held[f] /\ held[f] >= kept[f] /\ s[f] \in Numbers /\ kept[f] \in Numbers
    BY <1>1, <1>2 DEF IInv, NothingOlder, Issued, Fields, Settings
  <2>2. \A x, y \in Numbers : x <= x /\ (y >= x => x <= y)
    BY BoundsAssumption DEF Numbers
  <2>. QED
    BY <2>1, <2>2
<1>9. /\ FilesSound' /\ stored'.primary = (IF saved = 2 THEN s ELSE stored.primary)
      /\ saved = 2 => \A f \in Issued : kept'[f] <= s[f]
      /\ saved < 2 => kept' = kept
  <2>1. CASE mounted
    BY <1>1, <1>2, <1>3, <1>8, <2>1, SavingFacts DEF FilesSound, FilesTyped
  <2>2. CASE ~mounted
    BY <1>1, <1>3, <2>2, FilesStay
  <2>. QED
    BY <2>1, <2>2
<1>10. MemorySound' /\ AskingFor' <= AskingFor + 1
  <2>1. CASE ~up
    BY <1>4, <2>1, MemoryEmpties, AskingIsBit
  <2>2. CASE up
    <3>1. storage' \in Storages /\ held' = IF saved = 2 THEN s ELSE held
      BY <1>1, <1>5, <1>6, <1>7, <2>2 DEF Storages
    <3>2. MemoryTyped' /\ Running'
      BY <1>1, <1>2, <1>5, <1>6, <1>7, <2>2, <3>1, NothingAssumption, Parts DEF MemorySound, MemoryTyped, Running
    <3>3. MemoryStored' /\ NothingOlder'
      BY <1>1, <1>2, <1>7, <1>8, <1>9, <2>2, <3>1, <3>2, KeepsMemory
    <3>4. StorageFollows'
      <4>1. ASSUME NEW f \in {"limit", "path", "ram"} \ drift' PROVE storage'[f] = StorageOf(held', TRUE)[f]
        <5>1. CASE f = "ram"
          <6>1. saved = 2 /\ mounted
            BY <1>3, <1>6, <1>7, <2>2, <4>1, <5>1
          <6>. QED
            BY <1>1, <1>2, <1>5, <2>2, <3>1, <5>1, <6>1 DEF StorageOf, Storages
        <5>2. CASE f \in {"limit", "path"}
          <6>1. f \notin drift /\ storage'[f] = storage[f]
            BY <1>1, <1>5, <1>6, <1>7, <2>2, <5>2 DEF Storages
          <6>2. held'.limit = held.limit /\ held'.path = held.path
            BY <1>2, <3>1 DEF Fields
          <6>. QED
            BY <1>1, <5>2, <6>1, <6>2 DEF IInv, StorageFollows, StorageOf
        <5>. QED
          BY <5>1, <5>2
      <4>. QED
        BY <4>1 DEF StorageFollows
    <3>5. AskingFor' = AskingFor
      BY <1>5, <2>2 DEF AskingFor
    <3>. QED
      BY <3>2, <3>3, <3>4, <3>5, AskingIsBit DEF MemorySound
  <2>. QED
    BY <2>1, <2>2
<1>11. SpentSound'
  BY <1>3, <1>10, SpentStep
<1>. QED
  BY <1>3, <1>9, <1>10, <1>11, PartsNext

-----------------------------------------------------------------------------
(* Handlers that change the settings in place.                              *)

LEMMA AnsweredKeeps ==
  ASSUME IInv, NEW what \in {"token", "chat"}, Answered(what)
  PROVE  IInv'
<1>1. FilesSound' /\ FormsTyped'
  BY Parts, FilesStay DEF Answered, FormsTyped
<1>2. SpentSound' /\ AskingFor' = AskingFor /\ NextIssue \in Numbers
  <2>1. AskingFor' = AskingFor
    BY DEF Answered, AskingFor
  <2>2. 1 + AskingFor' <= AskingFor + 1
    BY <2>1, AskingIsBit
  <2>3. SpentSound'
    BY <2>2, AskingIsBit, TakesFacts DEF Answered, IInv, SpentSound
  <2>4. spent'.issues = NextIssue /\ spent'.issues \in Numbers
    BY <2>3 DEF Answered, Takes, NextIssue, SpentSound, IInv, SettingsTypeOK
  <2>. QED
    BY <2>1, <2>3, <2>4
<1>3. answers' \subseteq [what : {"token", "chat"}, value : Numbers]
  BY <1>2, Parts DEF Answered, MemorySound, MemoryTyped
<1>4. MemorySound'
  BY <1>3, Parts DEF Answered, MemorySound, MemoryTyped, MemoryStored, NothingOlder, StorageFollows, Running
<1>. QED
  BY <1>1, <1>2, <1>4, PartsNext

LEMMA GivenUpKeeps ==
  ASSUME IInv, NEW a \in answers, GivenUp(a)
  PROVE  IInv'
<1>1. FilesSound' /\ FormsTyped' /\ SpentSound'
  BY Parts, FilesStay DEF GivenUp, FormsTyped, SpentSound, Counted, AskingFor
<1>2. MemorySound'
  BY Parts DEF GivenUp, MemorySound, MemoryTyped, MemoryStored, NothingOlder, StorageFollows, Running
<1>. QED
  BY <1>1, <1>2, PartsNext

\* A token in place: the files have the old one, and the new one counts as reported saved
\* no further than it is newer.
LEMMA InPlaceFacts ==
  ASSUME IInv, NEW s \in Settings, Running, held' = s, NEW changed \in SUBSET Issued,
         \A f \in Fields \ changed : s[f] = held[f],
         unsaved' = unsaved \union changed, drift' = drift,
         storage' = storage, stored'.primary = stored.primary,
         kept' \in [Issued -> Numbers], \A f \in Issued : kept'[f] <= s[f]
  PROVE  MemoryStored' /\ NothingOlder' /\ StorageFollows'
<1>1. held \in Settings /\ DOMAIN held = Fields /\ DOMAIN s = Fields
  BY Parts DEF Running, MemorySound, MemoryTyped, Settings, Fields
<1>2. MemoryStored'
  BY <1>1 DEF IInv, MemoryStored, Running
<1>3. NothingOlder'
  BY BoundsAssumption DEF NothingOlder, Settings, Issued, Numbers
<1>4. StorageFollows'
  <2>1. s.limit = held.limit /\ s.path = held.path /\ s.ram = held.ram
    BY DEF Fields, Issued
  <2>. QED
    BY <2>1 DEF IInv, StorageFollows, StorageOf, Running
<1>. QED
  BY <1>2, <1>3, <1>4

LEMMA OAuthKeeps ==
  ASSUME IInv, NEW a \in answers, NEW refresh \in BOOLEAN, poll_oauth_status(a, refresh)
  PROVE  IInv'
<1>. DEFINE s == [held EXCEPT !.token = a.value, !.refresh = IF refresh THEN a.value ELSE @]
            new == [op |-> "oauth", at |-> "call"]
<1>1. /\ held \in Settings /\ a.value \in Numbers /\ kept \in [Issued -> Numbers] /\ Running
      /\ answers' \subseteq answers /\ holder = NULL
  BY Parts DEF poll_oauth_status, Free, Running, MemorySound, MemoryTyped, FilesSound, FilesTyped
<1>2. s \in Settings /\ \A f \in Fields \ {"token", "refresh"} : s[f] = held[f]
  BY <1>1 DEF Settings, Fields
<1>3. /\ held' = s /\ unsaved' = unsaved \union {"token", "refresh"} /\ kept' = Older(s, kept)
      /\ holder' = new /\ UNCHANGED <<stored, storage, forms, spent, acceptable, drift>>
  BY DEF poll_oauth_status
<1>. HIDE DEF s
<1>4. kept' \in [Issued -> Numbers] /\ \A f \in Issued : kept'[f] <= kept[f] /\ kept'[f] <= s[f]
  BY <1>1, <1>2, <1>3, LowerFacts
<1>5. FilesSound'
  <2>1. FilesTyped' /\ FilesAcceptable'
    BY <1>3, <1>4, Parts DEF FilesSound, FilesTyped, FilesAcceptable
  <2>2. FilesNotOlder'
    <3>1. ASSUME NEW n \in FileNames, Valid(stored[n]), NEW f \in Issued
          PROVE  stored[n][f] >= kept'[f]
      <4>1. stored[n] \in Settings
        BY <3>1, Parts DEF FilesSound, FilesTyped, FileNames, Valid
      <4>2. stored[n][f] \in Numbers /\ stored[n][f] >= kept[f] /\ kept[f] \in Numbers
        BY <1>1, <3>1, <4>1, Parts DEF FilesSound, FilesNotOlder, Settings, Issued
      <4>. QED
        BY <1>4, <4>2, BoundsAssumption DEF Numbers
    <3>. QED
      BY <1>3, <3>1 DEF FilesNotOlder
  <2>. QED
    BY <2>1, <2>2 DEF FilesSound
<1>6. MemoryStored' /\ NothingOlder' /\ StorageFollows'
  <2>1. {"token", "refresh"} \in SUBSET Issued
    BY DEF Issued
  <2>. QED
    BY <1>1, <1>2, <1>3, <1>4, <2>1, InPlaceFacts
<1>7. MemoryTyped'
  BY <1>1, <1>2, <1>3, NothingAssumption, Parts DEF MemorySound, MemoryTyped, Issued
<1>8. SpentSound' /\ FormsTyped'
  <2>1. AskingFor = 0 /\ AskingFor' = 0
    BY <1>1, <1>3 DEF AskingFor
  <2>. QED
    BY <1>3, <2>1, Parts DEF SpentSound, Counted, FormsTyped
<1>. QED
  BY <1>5, <1>6, <1>7, <1>8, PartsNext DEF MemorySound

LEMMA TrackKeeps ==
  ASSUME IInv, NEW op \in {"check", "sync"}, Track(op)
  PROVE  IInv'
<1>1. FilesSound' /\ FormsTyped'
  BY Parts, FilesStay DEF Track, FormsTyped
<1>2. MemorySound'
  BY Parts DEF Track, MemorySound, MemoryTyped, MemoryStored, NothingOlder, StorageFollows, Running
<1>3. AskingFor' <= AskingFor + 1
  BY AskingIsBit DEF Track
<1>4. SpentSound'
  BY <1>3, SpentStep DEF Track
<1>. QED
  BY <1>1, <1>2, <1>4, PartsNext

\* New tokens have a higher number than any that was issued.
LEMMA EnsureKeeps ==
  ASSUME IInv, OnlyIssued, NEW refresh \in BOOLEAN, ensure_access_token(refresh)
  PROVE  IInv'
<1>. DEFINE s == [held EXCEPT !.token = NextIssue, !.refresh = IF refresh THEN NextIssue ELSE @]
<1>1. /\ held \in Settings /\ kept \in [Issued -> Numbers] /\ Running
      /\ holder \in [op : {"check", "sync", "oauth"}, at : {"refresh", "call"}]
      /\ holder.at = "refresh"
  BY Parts DEF ensure_access_token, Running, MemorySound, MemoryTyped, FilesSound, FilesTyped
<1>2. /\ held' = s /\ unsaved' = unsaved \union {"token", "refresh"}
      /\ holder' = [holder EXCEPT !.at = "call"]
      /\ UNCHANGED <<stored, storage, forms, answers, acceptable, kept, drift>>
  BY DEF ensure_access_token
<1>3. FilesSound' /\ FormsTyped'
  BY <1>2, Parts, FilesStay DEF FormsTyped
<1>4. SpentSound' /\ NextIssue \in Numbers /\ NextIssue = spent.issues + 1
  <2>1. AskingFor = 1 /\ AskingFor' = 0
    BY <1>1, <1>2 DEF ensure_access_token, AskingFor
  <2>2. SpentSound'
    BY <2>1, AskingIsBit, TakesFacts DEF ensure_access_token, IInv, SpentSound
  <2>3. spent'.issues = NextIssue
    BY DEF ensure_access_token, Takes, NextIssue, IInv, SettingsTypeOK
  <2>. QED
    BY <2>2, <2>3 DEF SpentSound, NextIssue
<1>5. s \in Settings /\ \A f \in Fields \ {"token", "refresh"} : s[f] = held[f]
  BY <1>1, <1>4 DEF Settings, Fields
<1>6. \A f \in Issued : kept'[f] <= s[f]
  <2>1. ASSUME NEW f \in Issued PROVE kept[f] <= s[f]
    <3>1. /\ kept[f] \in Numbers /\ held[f] \in Numbers /\ kept[f] <= held[f] /\ kept[f] <= spent.issues
          /\ spent.issues \in Numbers
      BY <1>1, BoundsAssumption DEF IInv, SettingsTypeOK, NothingOlder, OnlyIssued, Settings, Issued, Numbers
    <3>2. s[f] = NextIssue \/ s[f] = held[f]
      BY <1>1, <1>5 DEF Issued, Fields, Settings
    <3>3. kept[f] <= NextIssue
      BY <3>1, <1>4, BoundsAssumption DEF Numbers
    <3>. QED
      BY <3>1, <3>2, <3>3
  <2>. QED
    BY <1>2, <2>1
<1>. HIDE DEF s
<1>7. MemoryStored' /\ NothingOlder' /\ StorageFollows'
  <2>1. {"token", "refresh"} \in SUBSET Issued
    BY DEF Issued
  <2>. QED
    BY <1>1, <1>2, <1>5, <1>6, <2>1, InPlaceFacts
<1>8. MemoryTyped'
  <2>1. holder' \in [op : {"check", "sync", "oauth"}, at : {"refresh", "call"}]
    BY <1>1, <1>2
  <2>. QED
    BY <1>1, <1>2, <1>5, <2>1, NothingAssumption, Parts DEF MemorySound, MemoryTyped, Issued
<1>. QED
  BY <1>3, <1>4, <1>7, <1>8, PartsNext DEF MemorySound

LEMMA ReleaseKeeps ==
  ASSUME IInv, NEW ok \in BOOLEAN, NEW saved \in Written, NEW up \in BOOLEAN,
         Release(ok, saved, up)
  PROVE  IInv'
<1>. DEFINE saves == ok \/ holder.op # "check"
            kinds == IF saves THEN Failing(saved, up) ELSE {"troubles"}
<1>1. /\ held \in Settings /\ storage \in Storages /\ kept \in [Issued -> Numbers]
      /\ SettingsTypeOK /\ Running /\ FilesAcceptable /\ FilesNotOlder /\ FilesSound
  BY Parts DEF Release, Running, MemorySound, MemoryTyped, FilesSound, FilesTyped, IInv
<1>2. /\ saves => Saving(held, kept, saved, up)
      /\ saves /\ up => unsaved' = IF saved = 2 THEN {} ELSE unsaved
      /\ ~saves => saved = 0 /\ up /\ UNCHANGED <<stored, acceptable, kept, unsaved>>
      /\ up => holder' = NULL /\ UNCHANGED <<held, storage, answers, drift>>
      /\ ~up => Down
  BY DEF Release
<1>3. Takes(kinds) /\ "issues" \notin kinds /\ "requests" \notin kinds
  BY DEF Release, Failing, Troubled
<1>4. FormsTyped'
  BY Parts DEF Release, FormsTyped
<1>. HIDE DEF saves, kinds
<1>5. \A f \in Issued : kept[f] <= kept[f] /\ kept[f] <= held[f]
  <2>1. \A f \in Issued : held[f] >= kept[f] /\ held[f] \in Numbers /\ kept[f] \in Numbers
    BY <1>1 DEF IInv, NothingOlder, Issued, Settings
  <2>2. \A x, y \in Numbers : x <= x /\ (y >= x => x <= y)
    BY BoundsAssumption DEF Numbers
  <2>. QED
    BY <2>1, <2>2
<1>6. /\ FilesSound' /\ stored'.primary = (IF saved = 2 THEN held ELSE stored.primary)
      /\ saved = 2 => \A f \in Issued : kept'[f] <= held[f]
      /\ saved < 2 => kept' = kept
  <2>1. CASE saves
    BY <1>1, <1>2, <1>5, <2>1, SavingFacts DEF FilesSound, FilesTyped
  <2>2. CASE ~saves
    BY <1>1, <1>2, <2>2, FilesStay
  <2>. QED
    BY <2>1, <2>2
<1>7. MemorySound' /\ AskingFor' = 0
  <2>1. CASE ~up
    BY <1>2, <2>1, MemoryEmpties
  <2>2. CASE up
    <3>1. unsaved' = unsaved \/ (unsaved' = {} /\ saved = 2)
      BY <1>2, <2>2
    <3>2. MemoryTyped' /\ Running' /\ StorageFollows'
      BY <1>1, <1>2, <2>2, <3>1, Parts DEF MemorySound, MemoryTyped, Running, StorageFollows
    <3>3. MemoryStored' /\ NothingOlder'
      BY <1>1, <1>2, <1>5, <1>6, <2>2, <3>1, <3>2, KeepsMemory
    <3>. QED
      BY <1>2, <2>2, <3>2, <3>3 DEF MemorySound, AskingFor
  <2>. QED
    BY <2>1, <2>2
<1>8. AskingFor' <= AskingFor
  BY <1>7, AskingIsBit
<1>9. SpentSound'
  <2>1. AskingFor + 0 = AskingFor
    BY AskingIsBit
  <2>2. AskingFor' <= AskingFor + (IF "requests" \in kinds THEN 1 ELSE 0)
    BY <1>3, <1>8, <2>1
  <2>. QED
    BY <1>3, <2>2, SpentStep
<1>. QED
  BY <1>4, <1>6, <1>7, <1>9, PartsNext

LEMMA DroppedKeeps ==
  ASSUME IInv, HandlerDropped
  PROVE  IInv'
<1>1. FilesSound' /\ FormsTyped'
  BY Parts, FilesStay DEF HandlerDropped, FormsTyped
<1>2. MemorySound' /\ AskingFor' = 0
  BY Parts DEF HandlerDropped, MemorySound, MemoryTyped, MemoryStored, NothingOlder,
     StorageFollows, Running, AskingFor
<1>3. AskingFor' <= AskingFor
  BY <1>2, AskingIsBit
<1>4. SpentSound'
  <2>1. AskingFor + 0 = AskingFor
    BY AskingIsBit
  <2>2. AskingFor' <= AskingFor + (IF "requests" \in {"troubles"} THEN 1 ELSE 0)
    BY <1>3, <2>1
  <2>. QED
    BY <2>2, SpentStep DEF HandlerDropped
<1>. QED
  BY <1>1, <1>2, <1>4, PartsNext

LEMMA SaveInPlaceFacts ==
  ASSUME IInv, NEW s \in Settings, NEW saved \in Written, NEW up \in BOOLEAN, Running,
         \A f \in Fields \ {"chat"} : s[f] = held[f],
         SaveInPlace(s, Older(s, kept), "chat", saved, up)
  PROVE  /\ FilesSound'
         /\ ~up => Down
         /\ up => /\ held' = s /\ unsaved' \subseteq Issued /\ UNCHANGED <<storage, holder, drift>>
                  /\ MemoryStored' /\ NothingOlder' /\ StorageFollows'
<1>1. /\ SettingsTypeOK /\ FilesAcceptable /\ FilesNotOlder /\ kept \in [Issued -> Numbers]
      /\ unsaved \subseteq Issued /\ held \in Settings
  BY Parts DEF IInv, FilesSound, FilesTyped, MemorySound, MemoryTyped, Running
<1>2. /\ Older(s, kept) \in [Issued -> Numbers]
      /\ \A f \in Issued : Older(s, kept)[f] <= kept[f] /\ Older(s, kept)[f] <= s[f]
  BY <1>1, LowerFacts
<1>3. /\ FilesSound' /\ stored'.primary = (IF saved = 2 THEN s ELSE stored.primary)
      /\ saved = 2 => \A f \in Issued : kept'[f] <= s[f]
      /\ saved < 2 => kept' = Older(s, kept)
  BY <1>1, <1>2, SavingFacts DEF SaveInPlace, FilesSound, FilesTyped
<1>4. CASE up
  <2>1. /\ held' = s /\ unsaved' = (IF saved = 2 THEN {} ELSE unsaved \union {"chat"})
        /\ UNCHANGED <<storage, holder, drift>>
    BY <1>4 DEF SaveInPlace
  <2>2. \A f \in Issued : kept'[f] <= s[f]
    BY <1>2, <1>3 DEF Written
  <2>3. kept' \in [Issued -> Numbers] /\ {"chat"} \in SUBSET Issued
    BY <1>3 DEF FilesSound, FilesTyped, Issued
  <2>4. NothingOlder'
    BY <2>1, <2>2, <2>3, BoundsAssumption DEF NothingOlder, Settings, Issued, Numbers
  <2>5. StorageFollows'
    <3>1. s.limit = held.limit /\ s.path = held.path /\ s.ram = held.ram
      BY DEF Fields
    <3>. QED
      BY <2>1, <3>1 DEF IInv, StorageFollows, StorageOf
  <2>6. MemoryStored'
    <3>1. CASE saved = 2
      BY <1>3, <2>1, <3>1, NothingAssumption DEF MemoryStored
    <3>2. CASE saved # 2
      BY <1>3, <2>1, <2>2, <2>3, <3>2, InPlaceFacts DEF Written
    <3>. QED
      BY <3>1, <3>2
  <2>7. unsaved' \subseteq Issued
    BY <1>1, <2>1, <2>3
  <2>. QED
    BY <1>3, <1>4, <2>1, <2>4, <2>5, <2>6, <2>7
<1>5. CASE ~up
  BY <1>3, <1>5 DEF SaveInPlace
<1>. QED
  BY <1>4, <1>5

\* A pairing that is saved, or is not, and in place all the same.
LEMMA ChatKeeps ==
  ASSUME IInv, NEW value \in Numbers, NEW saved \in Written, NEW up \in BOOLEAN, Running,
         SaveInPlace([held EXCEPT !.chat = value], Older([held EXCEPT !.chat = value], kept), "chat", saved, up),
         up => answers' \subseteq answers, forms' = forms,
         NEW kinds, Takes(kinds), "issues" \notin kinds
  PROVE  IInv'
<1>. DEFINE s == [held EXCEPT !.chat = value]
<1>1. held \in Settings
  BY Parts DEF Running, MemorySound, MemoryTyped
<1>2. s \in Settings /\ \A f \in Fields \ {"chat"} : s[f] = held[f]
  BY <1>1 DEF Settings, Fields
<1>3. SaveInPlace(s, Older(s, kept), "chat", saved, up)
  OBVIOUS
<1>. HIDE DEF s
<1>4. /\ FilesSound'
      /\ ~up => Down
      /\ up => /\ held' = s /\ unsaved' \subseteq Issued /\ UNCHANGED <<storage, holder, drift>>
               /\ MemoryStored' /\ NothingOlder' /\ StorageFollows'
  BY <1>2, <1>3, SaveInPlaceFacts
<1>5. MemorySound' /\ AskingFor' <= AskingFor
  <2>1. CASE ~up
    BY <1>4, <2>1, MemoryEmpties, AskingIsBit
  <2>2. CASE up
    <3>1. MemoryTyped'
      BY <1>1, <1>2, <1>4, <2>2, NothingAssumption, Parts DEF MemorySound, MemoryTyped
    <3>2. AskingFor' = AskingFor
      BY <1>4, <2>2 DEF AskingFor
    <3>. QED
      BY <1>4, <2>2, <3>1, <3>2, AskingIsBit DEF MemorySound
  <2>. QED
    BY <2>1, <2>2
<1>6. SpentSound'
  <2>1. AskingFor + 0 = AskingFor /\ (AskingFor' <= AskingFor => AskingFor' <= AskingFor + 1)
    BY AskingIsBit
  <2>2. AskingFor' <= AskingFor + (IF "requests" \in kinds THEN 1 ELSE 0)
    BY <1>5, <2>1
  <2>. QED
    BY <2>2, SpentStep
<1>7. FormsTyped'
  BY Parts DEF FormsTyped
<1>. QED
  BY <1>4, <1>5, <1>6, <1>7, PartsNext

LEMMA PairingKeeps ==
  ASSUME IInv, NEW a \in answers, NEW saved \in Written, NEW up \in BOOLEAN,
         poll_pairing(a, saved, up)
  PROVE  IInv'
<1>1. a.value \in Numbers
  BY Parts DEF MemorySound, MemoryTyped
<1>2. "issues" \notin Failing(saved, up)
  BY DEF Failing, Troubled
<1>. QED
  BY <1>1, <1>2, ChatKeeps DEF poll_pairing, Free

LEMMA UnpairKeeps ==
  ASSUME IInv, NEW saved \in Written, NEW up \in BOOLEAN, unpair(saved, up)
  PROVE  IInv'
<1>1. 0 \in Numbers
  BY BoundsAssumption DEF Numbers
<1>2. "issues" \notin ({"requests"} \union Failing(saved, up))
  BY DEF Failing, Troubled
<1>. QED
  BY <1>1, <1>2, ChatKeeps DEF unpair, Free

-----------------------------------------------------------------------------
(* Numbers come from other servers alone.                                   *)

LEMMA IssuableGrows ==
  ASSUME IInv, IInv', (\E kinds : Takes(kinds)) \/ spent' = spent
  PROVE  /\ Issuable \subseteq Issuable'
         /\ \A x \in Numbers : x <= spent.issues => x <= spent'.issues
<1>1. spent.issues \in Nat /\ spent'.issues \in Nat /\ spent.issues <= spent'.issues
  BY BoundsAssumption DEF IInv, SettingsTypeOK, Takes, Numbers
<1>2. \A x \in Numbers : x <= spent.issues => x <= spent'.issues
  BY <1>1, BoundsAssumption DEF Numbers
<1>. QED
  BY <1>2 DEF Issuable, Settings, Issued

\* Settings with other numbers that were issued.
LEMMA StaysIssuable ==
  ASSUME NEW s \in Issuable, NEW t \in Settings,
         \A f \in Issued : t[f] = s[f] \/ t[f] <= spent.issues
  PROVE  t \in Issuable
  BY DEF Issuable

LEMMA NoneIsIssued ==
  ASSUME IInv
  PROVE  0 <= spent.issues /\ Default \in Issuable
<1>1. 0 <= spent.issues
  BY BoundsAssumption DEF IInv, SettingsTypeOK, Numbers
<1>. QED
  BY <1>1, DefaultType DEF Issuable, Default, Issued

LEMMA EditedIssuable ==
  ASSUME IInv, NEW form \in Issuable, NEW edit \in FormEdits, NEW s \in Issuable
  PROVE  Edited(form, edit) \in Issuable /\ apply_updates(Edited(form, edit), s) \in Issuable
<1>. DEFINE e == Edited(form, edit)
            u == apply_updates(e, s)
<1>1. form \in Settings /\ s \in Settings
  BY DEF Issuable
<1>2. e \in Settings /\ u \in Settings
  BY <1>1, EditedType
<1>3. \A f \in Issued : e[f] = form[f] \/ e[f] = 0
  BY <1>1 DEF Edited, FormEdits, Settings, Issued
<1>. HIDE DEF e
<1>4. \A f \in Issued : u[f] = e[f]
  BY <1>2 DEF apply_updates, Settings, Issued
<1>. HIDE DEF u
<1>5. e \in Issuable
  BY <1>2, <1>3, NoneIsIssued, StaysIssuable
<1>6. u \in Issuable
  BY <1>2, <1>4, <1>5, StaysIssuable
<1>. QED
  BY <1>5, <1>6 DEF e, u

LEMMA SavingIssued ==
  ASSUME IInv, OnlyIssued, NEW s \in Issuable, NEW low \in [Issued -> Numbers],
         \A f \in Issued : low[f] <= spent.issues,
         NEW saved \in Written, NEW up \in BOOLEAN, Saving(s, low, saved, up)
  PROVE  /\ \A n \in FileNames : Valid(stored'[n]) => stored'[n] \in Issuable
         /\ \A f \in Issued : kept'[f] <= spent.issues
<1>1. \A n \in FileNames : stored'[n] \in {s, stored[n]}
  BY DEF Saving, save_to_file, FileNames, IInv, SettingsTypeOK
<1>2. \A f \in Issued : Newer(s, low)[f] \in {s[f], low[f]}
  BY DEF Newer
<1>. QED
  BY <1>1, <1>2 DEF Saving, OnlyIssued, Issuable

LEMMA OlderIssued ==
  ASSUME IInv, OnlyIssued, NEW s \in Settings
  PROVE  /\ Older(s, kept) \in [Issued -> Numbers] /\ kept \in [Issued -> Numbers]
         /\ \A f \in Issued : Older(s, kept)[f] <= spent.issues /\ kept[f] <= spent.issues
<1>1. kept \in [Issued -> Numbers] /\ spent.issues \in Numbers
  BY DEF IInv, SettingsTypeOK
<1>2. \A x, y, z \in Numbers : x <= y /\ y <= z => x <= z
  BY BoundsAssumption DEF Numbers
<1>. QED
  BY <1>1, <1>2, LowerFacts DEF OnlyIssued

\* What a step puts anywhere was somewhere before, or has numbers that were issued before.
LEMMA IssuedStep ==
  ASSUME IInv, IInv', (\E kinds : Takes(kinds)) \/ spent' = spent,
         \A n \in FileNames : Valid(stored'[n]) => stored'[n] \in Issuable,
         Running' => held' \in Issuable,
         \A f \in Forms : forms'[f] # NULL => forms'[f] \in Issuable,
         \A a \in answers' : a.value <= spent.issues,
         \A f \in Issued : kept'[f] <= spent.issues
  PROVE  OnlyIssued'
<1>1. \A a \in answers' : a.value <= spent'.issues
  BY IssuableGrows DEF IInv, SettingsTypeOK
<1>2. \A f \in Issued : kept'[f] <= spent'.issues
  BY IssuableGrows DEF IInv, SettingsTypeOK
<1>. QED
  BY <1>1, <1>2, IssuableGrows DEF OnlyIssued

\* Steps that only drop what is in memory, or fetch a copy of it.
LEMMA QuietIssued ==
  ASSUME IInv, IInv', OnlyIssued, (\E kinds : Takes(kinds)) \/ spent' = spent,
         \A n \in FileNames : stored'[n] \in {stored[n], NULL, DAMAGED}, kept' = kept,
         held' \in {held, NULL}, answers' \subseteq answers,
         \A f \in Forms : forms'[f] = forms[f] \/ (Running /\ forms'[f] = held)
  PROVE  OnlyIssued'
  BY IssuedStep DEF OnlyIssued, Running, Valid

LEMMA StartIssued ==
  ASSUME IInv, IInv', OnlyIssued, NEW moved \in Written, NEW saved \in Written,
         NEW up \in BOOLEAN, NEW mounted \in BOOLEAN, build_state(moved, saved, up, mounted)
  PROVE  OnlyIssued'
<1>. DEFINE s == Recovered(stored)
<1>1. s \in Issuable
  BY RecoveredFacts, NoneIsIssued DEF IInv, OnlyIssued, FileNames
<1>2. \A n \in FileNames : Valid(stored'[n]) => stored'[n] = stored[n] \/ stored'[n] = s
  BY DEF build_state, load_settings_or_recover, save_to_file, Preserved, preserve_invalid_settings_file,
     FileNames, Valid
<1>3. \A f \in Issued : kept'[f] <= spent.issues
  BY NoneIsIssued DEF build_state, load_settings_or_recover, NoneIssued, OnlyIssued
<1>4. held' \in {s, NULL} /\ answers' \subseteq answers /\ forms' = forms /\ \E kinds : Takes(kinds)
  BY DEF build_state, Up, Down
<1>. HIDE DEF s
<1>. QED
  BY <1>1, <1>2, <1>3, <1>4, IssuedStep DEF OnlyIssued, Running

LEMMA UpdateIssued ==
  ASSUME IInv, IInv', OnlyIssued, NEW f \in Forms, NEW edit \in FormEdits,
         NEW saved \in Written, NEW up \in BOOLEAN, NEW created \in BOOLEAN,
         update_settings(f, edit, saved, up, created)
  PROVE  OnlyIssued'
<1>. DEFINE form == Edited(forms[f], edit)
            s == apply_updates(form, held)
            low == IF saved = 0 THEN kept ELSE Older(s, kept)
<1>1. forms[f] \in Issuable /\ held \in Issuable
  BY DEF update_settings, Free, Running, OnlyIssued
<1>2. form \in Issuable /\ s \in Issuable
  BY <1>1, EditedIssuable
<1>3. /\ (\E kinds : Takes(kinds)) /\ Saving(s, low, saved, up) /\ forms' = [forms EXCEPT ![f] = form]
      /\ held' \in {held, NULL, s} /\ answers' \subseteq answers
  BY DEF update_settings, Down
<1>. HIDE DEF s, form
<1>4. low \in [Issued -> Numbers] /\ \A i \in Issued : low[i] <= spent.issues
  BY <1>2, OlderIssued DEF Issuable
<1>. HIDE DEF low
<1>5. /\ \A n \in FileNames : Valid(stored'[n]) => stored'[n] \in Issuable
      /\ \A i \in Issued : kept'[i] <= spent.issues
  BY <1>2, <1>3, <1>4, SavingIssued
<1>6. \A x \in Forms : forms'[x] # NULL => forms'[x] \in Issuable
  BY <1>2, <1>3 DEF IInv, SettingsTypeOK, OnlyIssued
<1>. QED
  BY <1>1, <1>2, <1>3, <1>5, <1>6, IssuedStep DEF OnlyIssued, Running

LEMMA MountIssued ==
  ASSUME IInv, IInv', OnlyIssued, NEW enabled \in BOOLEAN, NEW mounted \in BOOLEAN,
         NEW saved \in Written, NEW up \in BOOLEAN, mount_tmpfs(enabled, mounted, saved, up)
  PROVE  OnlyIssued'
<1>. DEFINE s == [held EXCEPT !.ram = enabled]
<1>1. held \in Issuable
  BY DEF mount_tmpfs, Free, Running, OnlyIssued
<1>2. s \in Settings /\ \A f \in Issued : s[f] = held[f]
  BY <1>1 DEF Issuable, Settings, Issued
<1>3. /\ (\E kinds : Takes(kinds)) /\ forms' = forms
      /\ Saving(s, kept, saved, up) \/ UNCHANGED <<stored, acceptable, kept>>
      /\ held' \in {held, NULL, s} /\ answers' \subseteq answers
  BY DEF mount_tmpfs, Down
<1>. HIDE DEF s
<1>4. s \in Issuable
  BY <1>1, <1>2, StaysIssuable
<1>5. kept \in [Issued -> Numbers] /\ \A i \in Issued : kept[i] <= spent.issues
  BY DEF IInv, SettingsTypeOK, OnlyIssued
<1>6. /\ \A n \in FileNames : Valid(stored'[n]) => stored'[n] \in Issuable
      /\ \A i \in Issued : kept'[i] <= spent.issues
  <2>1. CASE Saving(s, kept, saved, up)
    BY <1>4, <1>5, <2>1, SavingIssued
  <2>2. CASE UNCHANGED <<stored, acceptable, kept>>
    BY <2>2 DEF OnlyIssued
  <2>. QED
    BY <1>3, <2>1, <2>2
<1>. QED
  BY <1>1, <1>3, <1>4, <1>6, IssuedStep DEF OnlyIssued, Running

LEMMA NextIssued ==
  ASSUME IInv, IInv', spent'.issues = NextIssue
  PROVE  /\ Issuable \subseteq Issuable' /\ NextIssue <= spent'.issues /\ NextIssue \in Numbers
         /\ \A x \in Numbers : x <= spent.issues => x <= spent'.issues
<1>1. spent.issues \in Nat /\ spent'.issues = spent.issues + 1 /\ spent'.issues \in Numbers
  BY BoundsAssumption DEF IInv, SettingsTypeOK, NextIssue, Numbers
<1>2. \A x \in Numbers : x <= spent.issues => x <= spent'.issues
  BY <1>1, BoundsAssumption DEF Numbers
<1>. QED
  BY <1>1, <1>2 DEF Issuable, Settings, Issued, NextIssue

LEMMA AnsweredIssued ==
  ASSUME IInv, IInv', OnlyIssued, NEW what \in {"token", "chat"}, Answered(what)
  PROVE  OnlyIssued'
<1>1. spent'.issues = NextIssue
  BY DEF Answered, Takes, NextIssue, IInv, SettingsTypeOK
<1>2. \A a \in answers' : a.value <= spent'.issues
  BY <1>1, NextIssued DEF Answered, OnlyIssued, IInv, SettingsTypeOK
<1>3. \A f \in Issued : kept'[f] <= spent'.issues
  BY <1>1, NextIssued DEF Answered, OnlyIssued, IInv, SettingsTypeOK
<1>. QED
  BY <1>1, <1>2, <1>3, NextIssued DEF Answered, OnlyIssued, Running

LEMMA EnsureIssued ==
  ASSUME IInv, IInv', OnlyIssued, NEW refresh \in BOOLEAN, ensure_access_token(refresh)
  PROVE  OnlyIssued'
<1>1. spent'.issues = NextIssue
  BY DEF ensure_access_token, Takes, NextIssue, IInv, SettingsTypeOK
<1>2. \A a \in answers' : a.value <= spent'.issues
  BY <1>1, NextIssued DEF ensure_access_token, OnlyIssued, IInv, SettingsTypeOK
<1>3. \A f \in Issued : kept'[f] <= spent'.issues
  BY <1>1, NextIssued DEF ensure_access_token, OnlyIssued, IInv, SettingsTypeOK
<1>4. held \in Issuable' /\ held \in Settings
  BY <1>1, NextIssued DEF ensure_access_token, OnlyIssued, Issuable
<1>5. held' \in Issuable'
  <2>1. held' \in Settings /\ \A f \in Issued : held'[f] = held[f] \/ held'[f] = NextIssue
    BY <1>1, <1>4, NextIssued DEF ensure_access_token, Settings, Issued
  <2>. QED
    BY <1>1, <1>4, <2>1, NextIssued DEF Issuable
<1>. QED
  BY <1>1, <1>2, <1>3, <1>5, NextIssued DEF ensure_access_token, OnlyIssued

LEMMA OAuthIssued ==
  ASSUME IInv, IInv', OnlyIssued, NEW a \in answers, NEW refresh \in BOOLEAN, poll_oauth_status(a, refresh)
  PROVE  OnlyIssued'
<1>1. held \in Issuable /\ a.value \in Numbers /\ a.value <= spent.issues
  BY DEF poll_oauth_status, Free, Running, OnlyIssued, IInv, SettingsTypeOK
<1>2. held' \in Settings /\ \A f \in Issued : held'[f] = held[f] \/ held'[f] <= spent.issues
  BY <1>1 DEF poll_oauth_status, Issuable, Settings, Issued
<1>3. held' \in Issuable
  BY <1>1, <1>2, StaysIssuable
<1>4. \A f \in Issued : kept'[f] <= spent.issues
  BY <1>2, OlderIssued DEF poll_oauth_status
<1>. QED
  BY <1>3, <1>4, IssuedStep DEF poll_oauth_status, OnlyIssued

LEMMA ReleaseIssued ==
  ASSUME IInv, IInv', OnlyIssued, NEW ok \in BOOLEAN, NEW saved \in Written, NEW up \in BOOLEAN,
         Release(ok, saved, up)
  PROVE  OnlyIssued'
<1>1. /\ held \in Issuable /\ forms' = forms /\ held' \in {held, NULL} /\ answers' \subseteq answers
      /\ Saving(held, kept, saved, up) \/ UNCHANGED <<stored, acceptable, kept>>
      /\ \E kinds : Takes(kinds)
  BY DEF Release, Down, OnlyIssued
<1>2. kept \in [Issued -> Numbers] /\ \A i \in Issued : kept[i] <= spent.issues
  BY DEF IInv, SettingsTypeOK, OnlyIssued
<1>3. /\ \A n \in FileNames : Valid(stored'[n]) => stored'[n] \in Issuable
      /\ \A i \in Issued : kept'[i] <= spent.issues
  <2>1. CASE Saving(held, kept, saved, up)
    BY <1>1, <1>2, <2>1, SavingIssued
  <2>2. CASE UNCHANGED <<stored, acceptable, kept>>
    BY <2>2 DEF OnlyIssued
  <2>. QED
    BY <1>1, <2>1, <2>2
<1>. QED
  BY <1>1, <1>3, IssuedStep DEF OnlyIssued, Running

LEMMA ChatIssued ==
  ASSUME IInv, IInv', OnlyIssued, NEW value \in Numbers, value <= spent.issues, NEW saved \in Written,
         NEW up \in BOOLEAN, Running, forms' = forms, \E kinds : Takes(kinds),
         SaveInPlace([held EXCEPT !.chat = value], Older([held EXCEPT !.chat = value], kept), "chat", saved, up),
         up => answers' \subseteq answers
  PROVE  OnlyIssued'
<1>. DEFINE s == [held EXCEPT !.chat = value]
<1>1. held \in Issuable
  BY DEF OnlyIssued
<1>2. s \in Settings /\ \A f \in Issued : s[f] = held[f] \/ s[f] <= spent.issues
  BY <1>1 DEF Issuable, Settings, Issued
<1>3. /\ Saving(s, Older(s, kept), saved, up) /\ held' \in {s, NULL} /\ answers' \subseteq answers
  BY DEF SaveInPlace, Down
<1>. HIDE DEF s
<1>4. s \in Issuable
  BY <1>1, <1>2, StaysIssuable
<1>5. /\ \A n \in FileNames : Valid(stored'[n]) => stored'[n] \in Issuable
      /\ \A i \in Issued : kept'[i] <= spent.issues
  BY <1>2, <1>3, <1>4, OlderIssued, SavingIssued
<1>. QED
  BY <1>3, <1>4, <1>5, IssuedStep DEF OnlyIssued, Running

-----------------------------------------------------------------------------
(* Every step, and the theorems.                                            *)

Inv == IInv /\ OnlyIssued

LEMMA InitInv == SettingsInit => Inv
<1>. SUFFICES ASSUME SettingsInit PROVE Inv
  OBVIOUS
<1>1. IInv
  BY InitIInv
<1>2. Known.token = 0 /\ Known.refresh = 1 /\ Known.chat = 0 /\ spent.issues = 1 /\ Known \in Settings
  BY DefaultType DEF Known, Default, SettingsInit
<1>3. Known \in Issuable
  BY <1>2 DEF Issuable, Issued
<1>4. OnlyIssued
  BY <1>3, <1>2 DEF SettingsInit, OnlyIssued, Running, Valid, FileNames, NoneIssued
<1>. QED
  BY <1>1, <1>4 DEF Inv

LEMMA NextInv == Inv /\ [SettingsNext]_settingsVars => Inv'
<1>. SUFFICES ASSUME IInv, OnlyIssued, [SettingsNext]_settingsVars PROVE Inv'
  BY DEF Inv
<1>. USE DEF Inv
<1>1. CASE UNCHANGED settingsVars
  <2>1. IInv'
    BY <1>1, Parts, PartsNext, FilesStay, MemoryStays DEF settingsVars, SpentSound, Counted, FormsTyped
  <2>. QED
    BY <1>1, <2>1, QuietIssued DEF settingsVars
<1>2. CASE Start
  BY <1>2, StartKeeps, StartIssued DEF Start, Written
<1>3. CASE End
  BY <1>3, EndKeeps, QuietIssued DEF End, Down
<1>4. CASE Tracking
  <2>1. ASSUME NEW op \in {"check", "sync"}, Track(op) PROVE Inv'
    BY <2>1, TrackKeeps, QuietIssued DEF Track
  <2>2. ASSUME NEW refresh \in BOOLEAN, ensure_access_token(refresh) PROVE Inv'
    BY <2>2, EnsureKeeps, EnsureIssued
  <2>3. ASSUME NEW ok \in BOOLEAN, NEW up \in BOOLEAN, NEW saved \in Written, Release(ok, saved, up)
        PROVE  Inv'
    BY <2>3, ReleaseKeeps, ReleaseIssued
  <2>4. CASE HandlerDropped
    BY <2>4, DroppedKeeps, QuietIssued DEF HandlerDropped
  <2>. QED
    BY <1>4, <2>1, <2>2, <2>3, <2>4 DEF Tracking, Written
<1>5. CASE Poll
  <2>1. ASSUME NEW what \in {"token", "chat"}, Answered(what) PROVE Inv'
    BY <2>1, AnsweredKeeps, AnsweredIssued
  <2>2. ASSUME NEW a \in answers, GivenUp(a) PROVE Inv'
    BY <2>2, GivenUpKeeps, QuietIssued DEF GivenUp
  <2>3. ASSUME NEW a \in answers, NEW refresh \in BOOLEAN, poll_oauth_status(a, refresh) PROVE Inv'
    BY <2>3, OAuthKeeps, OAuthIssued
  <2>4. ASSUME NEW a \in answers, NEW saved \in Written, NEW up \in BOOLEAN, poll_pairing(a, saved, up)
        PROVE  Inv'
    <3>1. a.value \in Numbers /\ a.value <= spent.issues
      BY DEF IInv, SettingsTypeOK, OnlyIssued
    <3>. QED
      BY <2>4, <3>1, PairingKeeps, ChatIssued DEF poll_pairing, Free
  <2>. QED
    BY <1>5, <2>1, <2>2, <2>3, <2>4 DEF Poll, Written
<1>6. CASE Save
  <2>1. ASSUME NEW saved \in Written, NEW up \in BOOLEAN, unpair(saved, up) PROVE Inv'
    <3>1. 0 \in Numbers
      BY BoundsAssumption DEF Numbers
    <3>. QED
      BY <2>1, <3>1, NoneIsIssued, UnpairKeeps, ChatIssued DEF unpair, Free
  <2>2. ASSUME NEW saved \in Written, NEW up \in BOOLEAN, NEW enabled \in BOOLEAN,
               NEW mounted \in BOOLEAN, mount_tmpfs(enabled, mounted, saved, up)
        PROVE  Inv'
    BY <2>2, MountKeeps, MountIssued
  <2>. QED
    BY <1>6, <2>1, <2>2 DEF Save, Written
<1>7. ASSUME NEW n \in FileNames, Damage(n) PROVE Inv'
  <2>1. \A x \in FileNames : stored'[x] \in {stored[x], NULL, DAMAGED}
    BY <1>7 DEF Damage, FileNames, IInv, SettingsTypeOK
  <2>. QED
    BY <1>7, <2>1, DamageKeeps, QuietIssued DEF Damage
<1>8. ASSUME NEW f \in Forms, Form(f) PROVE Inv'
  <2>1. CASE get_settings(f)
    <3>1. \A x \in Forms : forms'[x] = forms[x] \/ (Running /\ forms'[x] = held)
      BY <2>1 DEF get_settings, Free, IInv, SettingsTypeOK
    <3>. QED
      BY <2>1, <3>1, GetKeeps, QuietIssued DEF get_settings
  <2>2. ASSUME NEW edit \in FormEdits, NEW saved \in Written, NEW up \in BOOLEAN,
               NEW created \in BOOLEAN, update_settings(f, edit, saved, up, created)
        PROVE  Inv'
    BY <2>2, UpdateKeeps, UpdateIssued
  <2>. QED
    BY <1>8, <2>1, <2>2 DEF Form, Written
<1>. QED
  BY <1>1, <1>2, <1>3, <1>4, <1>5, <1>6, <1>7, <1>8 DEF SettingsNext, FileNames

THEOREM SettingsInvariance == SettingsSpec => []Inv
  BY InitInv, NextInv, PTL DEF SettingsSpec

\* Settings, storage, forms and files keep their types, and no number is out of its bound.
THEOREM SettingsTypeCorrect == SettingsSpec => []SettingsTypeOK
<1>1. Inv => SettingsTypeOK
  BY DEF Inv, IInv
<1>. QED
  BY <1>1, SettingsInvariance, PTL

\* A start finds settings that were last reported saved or tried since, memory has what a
\* restart finds, nothing reported saved gives way to something older, and the running
\* storage follows the settings, but for the named exceptions.
THEOREM SettingsAreKept == SettingsSpec => []SettingsKept
<1>1. Inv => SettingsKept
  <2>1. Inv => RecoveryHonest
    <3>. SUFFICES ASSUME Inv, Valid(stored.primary) \/ Valid(stored.backup)
                  PROVE  Recovered(stored) \in acceptable
      BY DEF RecoveryHonest
    <3>. QED
      BY RecoveredFacts DEF Inv, IInv, FilesAcceptable, FileNames
  <2>. QED
    BY <2>1 DEF Inv, IInv, SettingsKept
<1>. QED
  BY <1>1, SettingsInvariance, PTL

-----------------------------------------------------------------------------
(* SourceCatalog: caches keep the last good candidates, the best of them   *)
(* are selected, and the preview of a removal is right.                    *)

Id(list) == Catalogs!source_list_id(list)
AreLists(ls) ==
  /\ ls \in Seq({ls[i] : i \in DOMAIN ls})
  /\ \A i \in DOMAIN ls : ls[i] = [type |-> ls[i].type, url |-> ls[i].url, enabled |-> ls[i].enabled]
Cache(c) ==
  /\ c = [id |-> c.id, type |-> c.type, provider |-> c.provider, url |-> c.url, order |-> c.order,
          error |-> c.error, candidates |-> c.candidates]
  /\ \E n \in Nat : DOMAIN c.candidates = 1..n
CachesTrue == \A id \in DOMAIN catalog : Cache(catalog[id]) /\ catalog[id].id = id

\* The lists of the settings and of the requests are among those whose last good candidates
\* are remembered; what a request has read is a cache of the list that it refreshes.
Remembered(ls) == \A i \in DOMAIN ls : Id(ls[i]) \in DOMAIN lastGood
ListsTrue == AreLists(lists) /\ Remembered(lists)
Refreshing(r) ==
  /\ AreLists(r.lists) /\ Remembered(r.lists) /\ r.at \in DOMAIN r.lists
  /\ \A c \in r.previous : Cache(c) /\ c.id = Id(r.lists[r.at])
TasksTrue ==
  /\ tasks = [t \in Subscribers |-> tasks[t]]
  /\ \A t \in Subscribers : tasks[t].op \in {"refresh", "refresh_one"} => Refreshing(tasks[t])
CatalogInv == ListsTrue /\ CachesTrue /\ TasksTrue /\ Catalogs!LastGoodKept

\* The operators of the library that the instance sees are those the lemmas are about.
LEMMA CatalogLibrary ==
  /\ \A S : Catalogs!Cardinality(S) = Cardinality(S)
  /\ \A s : Catalogs!ToSet(s) = ToSet(s) /\ Catalogs!FlattenSeq(s) = FlattenSeq(s)
  /\ \A s : Catalogs!Reverse(s) = Reverse(s)
  /\ \A s, I : Catalogs!Pick(s, I) = Pick(s, I)
<1>1. \A S : Catalogs!Cardinality(S) = Cardinality(S)
  BY DEF Catalogs!Cardinality, Cardinality
<1>2. \A s : Catalogs!ToSet(s) = ToSet(s)
  BY DEF Catalogs!ToSet, ToSet
<1>3. \A s, I : Catalogs!Pick(s, I) = Pick(s, I)
  BY DEF Catalogs!Pick, Pick, Catalogs!Place, Place, Catalogs!Cardinality, Cardinality
<1>4. \A s : Catalogs!FlattenSeq(s) = FlattenSeq(s)
  BY Zenon DEF Catalogs!FlattenSeq, FlattenSeq
<1>5. \A s : Catalogs!Reverse(s) = Reverse(s)
  BY DEF Catalogs!Reverse, Reverse
<1>. QED
  BY <1>1, <1>2, <1>3, <1>4, <1>5

-----------------------------------------------------------------------------
(* Versions.                                                               *)

LEMMA LexicalIs ==
  ASSUME NEW s \in Seq(Nat), NEW t \in Seq(Nat)
  PROVE  Catalogs!Lexical(s, t) <=>
           \E n \in 0..Len(s) : /\ n < Len(t) /\ \A k \in 1..n : s[k] = t[k]
                                /\ n = Len(s) \/ s[n + 1] < t[n + 1]
<1>. SUFFICES ASSUME NEW n \in 0..Len(s), n < Len(t)
              PROVE  SubSeq(s, 1, n) = SubSeq(t, 1, n) <=> \A k \in 1..n : s[k] = t[k]
  BY DEF Catalogs!Lexical
<1>1. /\ Len(s) \in Nat /\ Len(t) \in Nat /\ n \in Nat /\ n <= Len(s) /\ n <= Len(t)
      /\ \A k \in 1..n : s[k] \in Nat /\ t[k] \in Nat
  BY LenProperties, ElementOfSeq
<1>2. /\ SubSeq(s, 1, n) = [k \in 1..n |-> s[k]]
      /\ SubSeq(t, 1, n) = [k \in 1..n |-> t[k]]
  BY <1>1
<1>. QED
  BY <1>2

LEMMA LexicalOrder ==
  ASSUME NEW s \in Seq(Nat), NEW t \in Seq(Nat), NEW u \in Seq(Nat)
  PROVE  /\ ~Catalogs!Lexical(s, s)
         /\ Catalogs!Lexical(s, t) /\ Catalogs!Lexical(t, u) => Catalogs!Lexical(s, u)
<1>1. /\ Len(s) \in Nat /\ Len(t) \in Nat /\ Len(u) \in Nat
      /\ \A k \in 1..Len(s) : s[k] \in Nat
      /\ \A k \in 1..Len(t) : t[k] \in Nat
      /\ \A k \in 1..Len(u) : u[k] \in Nat
  BY LenProperties, ElementOfSeq
<1>2. ~Catalogs!Lexical(s, s)
  <2>1. ASSUME NEW n \in 0..Len(s), n < Len(s), n = Len(s) \/ s[n + 1] < s[n + 1] PROVE FALSE
    <3>1. n + 1 \in 1..Len(s)
      BY <1>1, <2>1
    <3>. QED  BY <1>1, <2>1, <3>1
  <2>. QED  BY <2>1, LexicalIs
<1>3. ASSUME Catalogs!Lexical(s, t), Catalogs!Lexical(t, u) PROVE Catalogs!Lexical(s, u)
  <2>1. PICK m \in 0..Len(s) : /\ m < Len(t) /\ \A k \in 1..m : s[k] = t[k]
                               /\ m = Len(s) \/ s[m + 1] < t[m + 1]
    BY <1>3, LexicalIs
  <2>2. PICK n \in 0..Len(t) : /\ n < Len(u) /\ \A k \in 1..n : t[k] = u[k]
                               /\ n = Len(t) \/ t[n + 1] < u[n + 1]
    BY <1>3, LexicalIs
  <2>. SUFFICES \E k \in 0..Len(s) : /\ k < Len(u) /\ \A j \in 1..k : s[j] = u[j]
                                     /\ k = Len(s) \/ s[k + 1] < u[k + 1]
    BY LexicalIs
  <2>numbers. Len(s) \in Nat /\ Len(t) \in Nat /\ Len(u) \in Nat /\ m \in 0..Len(s) /\ n \in 0..Len(t)
    BY <1>1
  <2>sizes. m < Len(t) /\ n < Len(u)
    BY <2>1, <2>2
  <2>3. CASE m < n
    <3>1. m < Len(u) /\ m + 1 \in 1..n /\ \A j \in 1..m : j \in 1..n
      BY <2>numbers, <2>sizes, <2>3
    <3>2. (\A j \in 1..m : s[j] = u[j]) /\ (m = Len(s) \/ s[m + 1] < u[m + 1])
      BY <2>1, <2>2, <3>1
    <3>. QED  BY <3>1, <3>2
  <2>4. CASE n < m
    <3>1. n \in 0..Len(s) /\ n # Len(t) /\ n + 1 \in 1..m /\ \A j \in 1..n : j \in 1..m
      BY <2>numbers, <2>sizes, <2>4
    <3>2. (\A j \in 1..n : s[j] = u[j]) /\ s[n + 1] < u[n + 1]
      BY <2>1, <2>2, <3>1
    <3>. QED  BY <2>2, <3>1, <3>2
  <2>5. CASE m = n
    <3>1. m # Len(t) /\ m + 1 \in 1..Len(t) /\ m + 1 \in 1..Len(u)
      BY <2>numbers, <2>sizes, <2>5
    <3>2. m = Len(s) \/ (s[m + 1] < t[m + 1] /\ m + 1 \in 1..Len(s))
      BY <1>1, <2>1
    <3>3. m = Len(s) \/ s[m + 1] < u[m + 1]
      <4>. SUFFICES ASSUME m # Len(s) PROVE s[m + 1] < u[m + 1]
        OBVIOUS
      <4>. DEFINE x == s[m + 1]  y == t[m + 1]  z == u[m + 1]
      <4>1. x < y /\ y < z
        BY <2>2, <2>5, <3>1, <3>2
      <4>2. x \in Nat /\ y \in Nat /\ z \in Nat
        BY <1>1, <3>1, <3>2
      <4>3. x < z
        <5>. HIDE DEF x, y, z
        <5>. QED  BY <4>1, <4>2
      <4>. QED  BY <4>3
    <3>. QED  BY <2>1, <2>2, <2>5, <3>3
  <2>. QED  BY <1>1, <2>1, <2>2, <2>3, <2>4, <2>5
<1>. QED
  BY <1>2, <1>3

\* Without suffixes, versions are compared by their parts.
LEMMA PlainOrder ==
  ASSUME NEW type, NEW v, NEW w, ~v.dash, ~w.dash,
         v.parts \in Seq(Nat), w.parts \in Seq(Nat)
  PROVE  Catalogs!compare_versions(type, v, w) <=> Catalogs!Lexical(v.parts, w.parts)
<1>1. ASSUME Catalogs!Semver(v) PROVE SubSeq(v.parts, 1, 3) = v.parts
  <2>1. Len(v.parts) = 3
    BY <1>1 DEF Catalogs!Semver
  <2>. QED  BY <2>1, SubSeqProperties
<1>2. ASSUME Catalogs!Semver(w) PROVE SubSeq(w.parts, 1, 3) = w.parts
  <2>1. Len(w.parts) = 3
    BY <1>2 DEF Catalogs!Semver
  <2>. QED  BY <2>1, SubSeqProperties
<1>. QED
  BY <1>1, <1>2 DEF Catalogs!compare_versions, Catalogs!compare_dotted_versions

\* So is what candidates are preferred to others, then.
Beats(d, c) == Catalogs!compare_candidate_preference(c, d)
LEMMA PreferenceOrder ==
  ASSUME NEW b, NEW c, NEW d, Catalogs!Plain(b), Catalogs!Plain(c), Catalogs!Plain(d),
         b.order \in Nat, c.order \in Nat, d.order \in Nat
  PROVE  ~Beats(b, b) /\ (Beats(c, b) /\ Beats(d, c) => Beats(d, b))
<1>1. \A x \in {b, c, d}, y \in {b, c, d} :
        Beats(y, x) <=> \/ Catalogs!Lexical(x.version.parts, y.version.parts)
                        \/ x.version = y.version /\ y.order < x.order
  BY PlainOrder DEF Beats, Catalogs!compare_candidate_preference, Catalogs!Plain
<1>. DEFINE p(x) == x.version.parts
<1>2. p(b) \in Seq(Nat) /\ p(c) \in Seq(Nat) /\ p(d) \in Seq(Nat)
  BY DEF Catalogs!Plain
<1>3. ~Catalogs!Lexical(p(b), p(b))
  BY <1>2, LexicalOrder
<1>4. Catalogs!Lexical(p(b), p(c)) /\ Catalogs!Lexical(p(c), p(d)) => Catalogs!Lexical(p(b), p(d))
  BY <1>2, LexicalOrder
<1>. QED
  BY <1>1, <1>3, <1>4

-----------------------------------------------------------------------------
(* Candidates, as they are put in one sequence and marked.                 *)

Candidate(c) ==
  c = [list |-> c.list, type |-> c.type, url |-> c.url, order |-> c.order, error |-> c.error,
       source |-> c.source, version |-> c.version, raw |-> c.raw, from |-> c.from,
       selected |-> c.selected]
SourceOf(c) == <<c.source, c.type>>
Rivals(cs, k) == {j \in DOMAIN cs : SourceOf(cs[j]) = SourceOf(cs[k])}

\* The marks go to one of the candidates for each source, which no other one beats.
LEMMA Marking ==
  ASSUME NEW S, NEW cs \in Seq(S), \A k \in DOMAIN cs : Candidate(cs[k]) /\ cs[k].order \in Nat,
         NEW ms, ms = Catalogs!mark_selected_candidates(cs)
  PROVE  /\ ms = [k \in DOMAIN cs |-> [cs[k] EXCEPT !.selected = ms[k].selected]]
         /\ \A k \in DOMAIN cs : \E j \in Rivals(cs, k) :
              /\ \A m \in Rivals(cs, k) : ms[m].selected <=> m = j
              /\ (\A m \in Rivals(cs, k) : Catalogs!Plain(cs[m])) =>
                   \A m \in Rivals(cs, k) : ~Beats(cs[m], cs[j])
<1>. DEFINE n == Len(cs)
            Key(i) == <<cs[i].source, cs[i].type>>
            Keys == {Key(i) : i \in DOMAIN cs}
            V == [Keys -> 0..n]
            a == [k \in Keys |-> 0]
            Take(s, i) == IF s[Key(i)] = 0 \/ Catalogs!compare_candidate_preference(cs[s[Key(i)]], cs[i])
                          THEN [s EXCEPT ![Key(i)] = i] ELSE s
            step == [i \in 1..n |-> [s \in V |-> Take(s, i)]]
            Is(g) == g = [i \in 0..n |-> IF i = 0 THEN [k \in {Key(j) : j \in DOMAIN cs} |-> 0]
                            ELSE LET best == g[i - 1][Key(i)]
                                 IN  IF best = 0 \/ Catalogs!compare_candidate_preference(cs[best], cs[i])
                                     THEN [g[i - 1] EXCEPT ![Key(i)] = i] ELSE g[i - 1]]
            selected == CHOOSE g : Is(g)
<1>1. n \in Nat /\ DOMAIN cs = 1..n
  BY LenProperties
<1>2. a \in V
  BY <1>1
<1>3. ASSUME NEW i \in 1..n, NEW s \in V PROVE Take(s, i) \in V
  <2>1. Key(i) \in Keys /\ i \in 0..n
    BY <1>1
  <2>2. [s EXCEPT ![Key(i)] = i] \in V
    <3>. HIDE DEF Keys, Key, n
    <3>. QED  BY <2>1
  <2>. HIDE DEF V, Key
  <2>. QED  BY <2>2
<1>4. step \in [1..n -> [V -> V]]
  <2>. HIDE DEF V, Take
  <2>. QED  BY <1>3
<1>5. PICK g : Runs(g, n, V, a, step)
  <2>. HIDE DEF n, V, a, step
  <2>. QED  BY <1>1, <1>2, <1>4, Recursion
<1>6. g \in [0..n -> V] /\ g[0] = a /\ \A i \in 1..n : g[i] = Take(g[i - 1], i)
  <2>1. g \in [0..n -> V] /\ g[0] = a /\ \A i \in 1..n : g[i] = step[i][g[i - 1]]
    <3>. HIDE DEF n, V, a, step
    <3>. QED  BY <1>5 DEF Runs
  <2>2. ASSUME NEW i \in 1..n PROVE step[i][g[i - 1]] = Take(g[i - 1], i)
    <3>1. g[i - 1] \in V
      <4>1. i - 1 \in 0..n
        BY <1>1
      <4>. HIDE DEF V, n
      <4>. QED  BY <2>1, <4>1
    <3>. HIDE DEF V, Take
    <3>. QED  BY <3>1
  <2>. HIDE DEF n, V, a, step, Take
  <2>. QED  BY <2>1, <2>2
<1>7. Is(selected)
  <2>1. \E h : Is(h)
    <3>1. g = [i \in 0..n |-> g[i]]
      <4>. HIDE DEF V
      <4>. QED  BY <1>6
    <3>2. \A i \in 0..n : g[i] = IF i = 0 THEN a ELSE Take(g[i - 1], i)
      <4>. HIDE DEF V, Take, a
      <4>. QED  BY <1>1, <1>6
    <3>3. g = [i \in 0..n |-> IF i = 0 THEN a ELSE Take(g[i - 1], i)]
      <4>. HIDE DEF n, a, Take
      <4>. QED  BY <3>1, <3>2
    <3>4. Is(g)
      <4>. HIDE DEF n, Key
      <4>. QED  BY <3>3
    <3>. HIDE DEF Is
    <3>. QED  BY <3>4
  <2>. HIDE DEF Is
  <2>. QED  BY <2>1
<1>8. ms = [i \in DOMAIN cs |-> [cs[i] EXCEPT !.selected = selected[n][Key(i)] = i]]
  BY Zenon DEF Catalogs!mark_selected_candidates
<1>9. selected[0] = a /\ \A i \in 1..n : selected[i] = Take(selected[i - 1], i)
  <2>1. \A i \in 0..n : selected[i] = IF i = 0 THEN a ELSE Take(selected[i - 1], i)
    <3>. HIDE DEF n, Key, selected
    <3>. QED  BY <1>7
  <2>. HIDE DEF n, a, Take, selected
  <2>. QED  BY <1>1, <2>1
<1>. HIDE DEF selected
<1>. DEFINE Plains(k) == \A m \in Rivals(cs, k) : Catalogs!Plain(cs[m])
            Right(s, i, k) ==
              LET b == s[Key(k)]
              IN  /\ b = 0 => \A m \in 1..i : Key(m) # Key(k)
                  /\ b # 0 => /\ b \in 1..i /\ Key(b) = Key(k)
                              /\ Plains(k) => \A m \in 1..i : Key(m) = Key(k) => ~Beats(cs[m], cs[b])
            T == {i \in 0..n : selected[i] \in V /\ \A k \in DOMAIN cs : Right(selected[i], i, k)}
<1>10. 0 \in T
  <2>1. \A k \in DOMAIN cs : a[Key(k)] = 0
    OBVIOUS
  <2>. QED  BY <1>1, <1>2, <1>9, <2>1
<1>11. ASSUME NEW i \in 1..n, i - 1 \in T PROVE i \in T
  <2>. DEFINE s == selected[i - 1]
              t == selected[i]
  <2>1. s \in V /\ \A k \in DOMAIN cs : Right(s, i - 1, k)
    BY <1>11
  <2>2. t = Take(s, i)
    BY <1>9
  <2>3. t \in V
    <3>. HIDE DEF V, Take, s, t
    <3>. QED  BY <1>3, <2>1, <2>2
  <2>. HIDE DEF s, t
  <2>4. ASSUME NEW k \in DOMAIN cs PROVE Right(t, i, k)
    <3>. DEFINE b == s[Key(k)]
    <3>1. i \in DOMAIN cs /\ i - 1 \in Nat /\ Key(i) \in Keys /\ Key(k) \in Keys
          /\ \A m \in 1..i : m = i \/ m \in 1..(i - 1)
      BY <1>1
    <3>2. /\ b = 0 => \A m \in 1..(i - 1) : Key(m) # Key(k)
          /\ b # 0 => /\ b \in 1..(i - 1) /\ Key(b) = Key(k)
                      /\ Plains(k) => \A m \in 1..(i - 1) : Key(m) = Key(k) => ~Beats(cs[m], cs[b])
      BY <2>1
    <3>3. CASE Key(k) # Key(i)
      <4>1. t[Key(k)] = b
        <5>. HIDE DEF Key, Keys
        <5>. QED  BY <2>1, <2>2, <3>1, <3>3
      <4>2. b # 0 => b \in 1..i
        BY <3>1, <3>2
      <4>. HIDE DEF Key, Plains, b
      <4>. QED  BY <3>1, <3>2, <3>3, <4>1, <4>2
    <3>4. CASE Key(k) = Key(i) /\ (b = 0 \/ Beats(cs[i], cs[b]))
      <4>1. t[Key(k)] = i
        <5>1. t = [s EXCEPT ![Key(i)] = i]
          <6>. HIDE DEF Key
          <6>. QED  BY <2>2, <3>4 DEF Beats
        <5>. HIDE DEF Key, Keys
        <5>. QED  BY <2>1, <3>1, <3>4, <5>1
      <4>2. ASSUME Plains(k), NEW m \in 1..i, Key(m) = Key(k) PROVE ~Beats(cs[m], cs[i])
        <5>1. i \in Rivals(cs, k) /\ m \in Rivals(cs, k)
          BY <1>1, <3>1, <3>4, <4>2 DEF Rivals, SourceOf
        <5>2. /\ Catalogs!Plain(cs[i]) /\ cs[i].order \in Nat
              /\ Catalogs!Plain(cs[m]) /\ cs[m].order \in Nat
          BY <4>2, <5>1 DEF Rivals
        <5>3. CASE m = i
          BY <5>2, <5>3, PreferenceOrder
        <5>4. CASE m # i
          <6>1. m \in 1..(i - 1) /\ b # 0 /\ b \in DOMAIN cs /\ Key(b) = Key(k) /\ ~Beats(cs[m], cs[b])
            <7>1. m \in 1..(i - 1)
              BY <3>1, <5>4
            <7>2. b # 0
              BY <3>2, <4>2, <7>1
            <7>3. b \in 1..(i - 1) /\ Key(b) = Key(k) /\ ~Beats(cs[m], cs[b])
              <8>. HIDE DEF Key, Plains, Beats, b
              <8>. QED  BY <3>2, <4>2, <7>1, <7>2
            <7>4. b \in DOMAIN cs
              <8>. HIDE DEF b
              <8>. QED  BY <1>1, <3>1, <7>3
            <7>. QED  BY <7>1, <7>2, <7>3, <7>4
          <6>2. Catalogs!Plain(cs[b]) /\ cs[b].order \in Nat
            BY <4>2, <6>1 DEF Rivals, SourceOf
          <6>. QED  BY <3>4, <5>2, <6>1, <6>2, PreferenceOrder
        <5>. QED  BY <5>3, <5>4
      <4>3. i # 0 /\ i \in 1..i
        BY <1>1
      <4>. HIDE DEF Key, Plains, b
      <4>. QED  BY <3>4, <4>1, <4>2, <4>3
    <3>5. CASE Key(k) = Key(i) /\ ~(b = 0 \/ Beats(cs[i], cs[b]))
      <4>1. t[Key(k)] = b
        <5>. HIDE DEF Key
        <5>. QED  BY <2>2, <3>5 DEF Beats
      <4>2. b \in 1..i
        BY <3>1, <3>2, <3>5
      <4>. HIDE DEF Key, Plains, b
      <4>. QED  BY <3>1, <3>2, <3>5, <4>1, <4>2
    <3>. QED  BY <3>3, <3>4, <3>5
  <2>5. i \in 0..n
    OBVIOUS
  <2>. HIDE DEF V, Right
  <2>. QED  BY <2>3, <2>4, <2>5 DEF t
<1>12. n \in T
  <2>1. n \in 0..n
    BY <1>1
  <2>. HIDE DEF T, n
  <2>. QED  BY <1>1, <1>10, <1>11, <2>1, Climbing
<1>13. ASSUME NEW k \in DOMAIN cs PROVE "selected" \in DOMAIN cs[k]
  <2>. DEFINE c == cs[k]
  <2>1. c = [list |-> c.list, type |-> c.type, url |-> c.url, order |-> c.order, error |-> c.error,
             source |-> c.source, version |-> c.version, raw |-> c.raw, from |-> c.from,
             selected |-> c.selected]
    BY DEF Candidate
  <2>. HIDE DEF c
  <2>2. "selected" \in DOMAIN c
    BY <2>1
  <2>. QED  BY <2>2 DEF c
<1>14. ASSUME NEW k \in DOMAIN cs
       PROVE  \E j \in Rivals(cs, k) :
                /\ \A m \in Rivals(cs, k) : ms[m].selected <=> m = j
                /\ Plains(k) => \A m \in Rivals(cs, k) : ~Beats(cs[m], cs[j])
  <2>. DEFINE j == selected[n][Key(k)]
  <2>1. Right(selected[n], n, k)
    BY <1>12
  <2>2. j \in DOMAIN cs /\ Key(j) = Key(k)
    <3>1. k \in 1..n
      BY <1>1
    <3>2. j # 0
      BY <2>1, <3>1
    <3>. QED  BY <1>1, <2>1, <3>2
  <2>3. j \in Rivals(cs, k)
    BY <2>2 DEF Rivals, SourceOf
  <2>4. ASSUME NEW m \in Rivals(cs, k) PROVE ms[m].selected <=> m = j
    <3>1. m \in DOMAIN cs /\ Key(m) = Key(k)
      BY DEF Rivals, SourceOf
    <3>. DEFINE mark == selected[n][Key(m)] = m
    <3>2. ms[m] = [cs[m] EXCEPT !.selected = mark]
      BY <1>8, <3>1
    <3>3. mark = (j = m)
      BY <3>1
    <3>4. ms[m].selected = mark
      <4>1. "selected" \in DOMAIN cs[m]
        BY <1>13, <3>1
      <4>. HIDE DEF mark
      <4>. QED  BY <3>2, <4>1
    <3>. QED  BY <3>3, <3>4
  <2>5. ASSUME Plains(k), NEW m \in Rivals(cs, k) PROVE ~Beats(cs[m], cs[j])
    <3>1. m \in 1..n /\ Key(m) = Key(k) /\ j # 0
      BY <1>1, <2>2 DEF Rivals, SourceOf
    <3>. QED  BY <2>1, <2>5, <3>1
  <2>. HIDE DEF j, Plains
  <2>. QED  BY <2>3, <2>4, <2>5
<1>15. ms = [k \in DOMAIN cs |-> [cs[k] EXCEPT !.selected = ms[k].selected]]
  <2>1. ASSUME NEW k \in DOMAIN cs PROVE ms[k] = [cs[k] EXCEPT !.selected = ms[k].selected]
    <3>. DEFINE mark == selected[n][Key(k)] = k
    <3>1. ms[k] = [cs[k] EXCEPT !.selected = mark]
      BY <1>8
    <3>2. "selected" \in DOMAIN cs[k]
      BY <1>13
    <3>. HIDE DEF mark
    <3>. QED  BY <3>1, <3>2
  <2>2. ms = [k \in DOMAIN cs |-> ms[k]]
    BY <1>8
  <2>. QED  BY <2>1, <2>2
<1>. QED
  BY <1>14, <1>15

-----------------------------------------------------------------------------
(* What is loaded for some lists: the candidates of their caches.          *)

Has(list, all) ==
  /\ all \/ list.enabled
  /\ Id(list) \in DOMAIN catalog /\ Catalogs!cache_matches_source_list(catalog[Id(list)], list)
\* The j-th candidate of a cache, for the list at i.
Made(cache, j, i) ==
  [list |-> cache.id, type |-> cache.type, url |-> cache.url, order |-> i, error |-> cache.error,
   source |-> cache.candidates[j].id, version |-> cache.candidates[j].version,
   raw |-> cache.candidates[j], from |-> cache.provider.site, selected |-> FALSE]
Stands(c, cache, j, i) ==
  /\ c.list = cache.id /\ c.type = cache.type /\ c.order = i
  /\ c.source = cache.candidates[j].id /\ c.version = cache.candidates[j].version

LEMMA UsableIs ==
  ASSUME NEW list, NEW all
  PROVE  Catalogs!Usable(list, all) = IF Has(list, all) THEN {catalog[Id(list)]} ELSE {}
BY DEF Catalogs!Usable, Catalogs!Matching, Catalogs!MatchingOf, Has, Id

\* The candidates are those of the caches, and one for each source is marked.
Loaded(ls, all, cs) ==
  /\ \A k \in DOMAIN cs : \E i \in DOMAIN ls : \E j \in DOMAIN catalog[Id(ls[i])].candidates :
       Has(ls[i], all) /\ Stands(cs[k], catalog[Id(ls[i])], j, i)
  /\ \A i \in DOMAIN ls : \A j \in DOMAIN catalog[Id(ls[i])].candidates :
       Has(ls[i], all) => \E k \in DOMAIN cs : Stands(cs[k], catalog[Id(ls[i])], j, i)
Marked(cs) ==
  \A k \in DOMAIN cs : \E j \in Rivals(cs, k) :
    /\ \A m \in Rivals(cs, k) : cs[m].selected <=> m = j
    /\ (\A m \in Rivals(cs, k) : Catalogs!Plain(cs[m])) => \A m \in Rivals(cs, k) : ~Beats(cs[m], cs[j])

LEMMA Loading ==
  ASSUME CachesTrue, NEW ls, AreLists(ls), NEW all \in BOOLEAN,
         NEW cs, cs = Catalogs!load_configured(ls, all)
  PROVE  Loaded(ls, all, cs) /\ Marked(cs)
<1>. DEFINE Of(i) == catalog[Id(ls[i])]
            S == UNION {{Made(Of(i), j, i) : j \in DOMAIN Of(i).candidates} : i \in {x \in DOMAIN ls : Has(ls[x], all)}}
            caches == [i \in DOMAIN ls |-> {[cache EXCEPT !.order = i] : cache \in Catalogs!Usable(ls[i], all)}]
            seqs == [i \in DOMAIN ls |-> IF caches[i] = {} THEN <<>>
                                         ELSE Catalogs!Candidates(CHOOSE cache \in caches[i] : TRUE)]
            es == FlattenSeq(seqs)
<1>1. /\ DOMAIN ls = 1..Len(ls) /\ Len(ls) \in Nat
  BY LenProperties DEF AreLists
<1>2. cs = Catalogs!mark_selected_candidates(es)
  <2>1. cs = Catalogs!mark_selected_candidates(Catalogs!FlattenSeq(seqs))
    BY DEF Catalogs!load_configured, Catalogs!candidates_from_caches
  <2>2. Catalogs!FlattenSeq(seqs) = es
    <3>. HIDE DEF seqs
    <3>. QED  BY CatalogLibrary
  <2>. QED  BY <2>1, <2>2
<1>3. ASSUME NEW i \in DOMAIN ls
      PROVE  seqs[i] = IF Has(ls[i], all) THEN [j \in DOMAIN Of(i).candidates |-> Made(Of(i), j, i)] ELSE <<>>
  <2>1. caches[i] = {[cache EXCEPT !.order = i] : cache \in Catalogs!Usable(ls[i], all)}
    OBVIOUS
  <2>2. seqs[i] = IF caches[i] = {} THEN <<>> ELSE Catalogs!Candidates(CHOOSE cache \in caches[i] : TRUE)
    OBVIOUS
  <2>. HIDE DEF caches, seqs
  <2>3. CASE ~Has(ls[i], all)
    <3>1. Catalogs!Usable(ls[i], all) = {}
      BY <2>3, UsableIs
    <3>. QED  BY <2>1, <2>2, <2>3, <3>1
  <2>4. CASE Has(ls[i], all)
    <3>. DEFINE c == Of(i)
                d == [c EXCEPT !.order = i]
    <3>1. caches[i] = {d}
      <4>1. Catalogs!Usable(ls[i], all) = {c}
        BY <2>4, UsableIs
      <4>. HIDE DEF c
      <4>. QED  BY <2>1, <4>1
    <3>2. seqs[i] = Catalogs!Candidates(d)
      <4>. HIDE DEF d
      <4>. QED  BY <2>2, <3>1
    <3>3. c = [id |-> c.id, type |-> c.type, provider |-> c.provider, url |-> c.url, order |-> c.order,
               error |-> c.error, candidates |-> c.candidates]
      BY <2>4 DEF CachesTrue, Cache, Has
    <3>4. /\ d.id = c.id /\ d.type = c.type /\ d.provider = c.provider /\ d.url = c.url /\ d.order = i
          /\ d.error = c.error /\ d.candidates = c.candidates
      <4>. HIDE DEF c
      <4>. QED  BY <3>3
    <3>5. Catalogs!Candidates(d) = [j \in DOMAIN c.candidates |-> Made(c, j, i)]
      <4>. HIDE DEF c, d
      <4>. QED  BY <3>4 DEF Catalogs!Candidates, Made
    <3>. QED  BY <2>4, <3>2, <3>5
  <2>. QED  BY <2>3, <2>4
<1>4. ASSUME NEW i \in DOMAIN ls PROVE seqs[i] \in Seq(S)
  <2>1. CASE ~Has(ls[i], all)
    <3>1. seqs[i] = <<>>
      BY <1>3, <2>1
    <3>. HIDE DEF seqs, S
    <3>. QED  BY <3>1, EmptySeq
  <2>2. CASE Has(ls[i], all)
    <3>1. PICK n \in Nat : DOMAIN Of(i).candidates = 1..n
      BY <2>2 DEF Has, CachesTrue, Cache
    <3>. DEFINE f == [j \in 1..n |-> Made(Of(i), j, i)]
    <3>2. f \in [1..n -> S]
      <4>1. \A j \in 1..n : Made(Of(i), j, i) \in S
        <5>. HIDE DEF Of
        <5>. QED  BY <2>2, <3>1
      <4>. HIDE DEF S, Of
      <4>. QED  BY <4>1
    <3>3. f \in Seq(S)
      <4>. HIDE DEF f, S
      <4>. QED  BY <3>2, FunctionIsSeq
    <3>4. seqs[i] = f
      <4>. HIDE DEF seqs, Of
      <4>. QED  BY <1>3, <2>2, <3>1
    <3>. QED  BY <3>3, <3>4
  <2>. QED  BY <2>1, <2>2
<1>5. seqs \in Seq(Seq(S))
  <2>. DEFINE W == Seq(S)
              n == Len(ls)
  <2>1. seqs \in [1..n -> W]
    <3>1. seqs = [i \in 1..n |-> seqs[i]]
      BY <1>1
    <3>. HIDE DEF seqs, S, W
    <3>2. \A i \in 1..n : seqs[i] \in W
      BY <1>1, <1>4 DEF W
    <3>. HIDE DEF n
    <3>. QED  BY <3>1, <3>2
  <2>2. n \in Nat
    BY <1>1
  <2>3. seqs \in Seq(W)
    <3>. HIDE DEF seqs, W, n
    <3>. QED  BY <2>1, <2>2, FunctionIsSeq
  <2>. QED  BY <2>3
<1>6. /\ es \in Seq(S)
      /\ \A x : (\E k \in DOMAIN es : es[k] = x) <=> \E i \in DOMAIN seqs : \E j \in DOMAIN seqs[i] : seqs[i][j] = x
  <2>. HIDE DEF seqs, S
  <2>. QED  BY <1>5, Flattening
<1>7. DOMAIN seqs = DOMAIN ls
  OBVIOUS
<1>. HIDE DEF seqs, caches, es
<1>8. ASSUME NEW k \in DOMAIN es
      PROVE  \E i \in DOMAIN ls : \E j \in DOMAIN Of(i).candidates :
               Has(ls[i], all) /\ es[k] = Made(Of(i), j, i)
  <2>1. es[k] \in S
    <3>. HIDE DEF S
    <3>. QED  BY <1>6, ElementOfSeq, LenProperties
  <2>. QED  BY <2>1
<1>9. ASSUME NEW i \in DOMAIN ls, NEW j \in DOMAIN Of(i).candidates, Has(ls[i], all)
      PROVE  \E k \in DOMAIN es : es[k] = Made(Of(i), j, i)
  <2>1. j \in DOMAIN seqs[i] /\ seqs[i][j] = Made(Of(i), j, i)
    <3>1. seqs[i] = [x \in DOMAIN Of(i).candidates |-> Made(Of(i), x, i)]
      BY <1>3, <1>9
    <3>. HIDE DEF Of
    <3>. QED  BY <3>1
  <2>. HIDE DEF Of, S
  <2>. QED  BY <1>6, <1>7, <2>1
<1>10. \A k \in DOMAIN es : Candidate(es[k]) /\ es[k].order \in Nat
  <2>. TAKE k \in DOMAIN es
  <2>1. PICK i \in DOMAIN ls : \E j \in DOMAIN Of(i).candidates : es[k] = Made(Of(i), j, i)
    BY <1>8
  <2>2. i \in Nat
    BY <1>1
  <2>. HIDE DEF Of
  <2>. QED  BY <2>1, <2>2 DEF Made, Candidate
<1>11. /\ cs = [k \in DOMAIN es |-> [es[k] EXCEPT !.selected = cs[k].selected]]
       /\ \A k \in DOMAIN es : \E j \in Rivals(es, k) :
            /\ \A m \in Rivals(es, k) : cs[m].selected <=> m = j
            /\ (\A m \in Rivals(es, k) : Catalogs!Plain(es[m])) =>
                 \A m \in Rivals(es, k) : ~Beats(es[m], es[j])
  <2>. HIDE DEF S
  <2>. QED  BY <1>2, <1>6, <1>10, Marking
<1>12. DOMAIN cs = DOMAIN es
  BY <1>11
<1>13. ASSUME NEW k \in DOMAIN es
       PROVE  /\ cs[k].list = es[k].list /\ cs[k].type = es[k].type /\ cs[k].order = es[k].order
              /\ cs[k].source = es[k].source /\ cs[k].version = es[k].version
  <2>. DEFINE e == es[k]
              c == cs[k]
  <2>1. c = [e EXCEPT !.selected = c.selected]
    BY <1>11
  <2>2. e = [list |-> e.list, type |-> e.type, url |-> e.url, order |-> e.order, error |-> e.error,
             source |-> e.source, version |-> e.version, raw |-> e.raw, from |-> e.from,
             selected |-> e.selected]
    BY <1>10 DEF Candidate
  <2>. HIDE DEF e, c
  <2>3. /\ c.list = e.list /\ c.type = e.type /\ c.order = e.order
        /\ c.source = e.source /\ c.version = e.version
    BY <2>1, <2>2
  <2>. QED  BY <2>3 DEF c, e
<1>14. /\ \A k \in DOMAIN es : Catalogs!Plain(es[k]) <=> Catalogs!Plain(cs[k])
       /\ \A k, m \in DOMAIN es : Beats(es[k], es[m]) <=> Beats(cs[k], cs[m])
  BY <1>13 DEF Catalogs!Plain, Beats, Catalogs!compare_candidate_preference
<1>15. \A k \in DOMAIN es : Rivals(es, k) = Rivals(cs, k) /\ Rivals(es, k) \subseteq DOMAIN es
  BY <1>12, <1>13 DEF Rivals, SourceOf
<1>16. ASSUME NEW k \in DOMAIN cs
       PROVE  \E i \in DOMAIN ls : \E j \in DOMAIN Of(i).candidates : Has(ls[i], all) /\ Stands(cs[k], Of(i), j, i)
  <2>1. PICK i \in DOMAIN ls : \E j \in DOMAIN Of(i).candidates : Has(ls[i], all) /\ es[k] = Made(Of(i), j, i)
    BY <1>8, <1>12
  <2>2. PICK j \in DOMAIN Of(i).candidates : Has(ls[i], all) /\ es[k] = Made(Of(i), j, i)
    BY <2>1
  <2>3. Stands(cs[k], Of(i), j, i)
    <3>. HIDE DEF Of
    <3>. QED  BY <1>12, <1>13, <2>2 DEF Made, Stands
  <2>. QED  BY <2>2, <2>3
<1>17. ASSUME NEW i \in DOMAIN ls, NEW j \in DOMAIN Of(i).candidates, Has(ls[i], all)
       PROVE  \E k \in DOMAIN cs : Stands(cs[k], Of(i), j, i)
  <2>1. PICK k \in DOMAIN es : es[k] = Made(Of(i), j, i)
    BY <1>9, <1>17
  <2>2. Stands(cs[k], Of(i), j, i)
    <3>. HIDE DEF Of
    <3>. QED  BY <1>13, <2>1 DEF Made, Stands
  <2>. QED  BY <1>12, <2>1, <2>2
<1>18. ASSUME NEW k \in DOMAIN cs
       PROVE  \E j \in Rivals(cs, k) :
                /\ \A m \in Rivals(cs, k) : cs[m].selected <=> m = j
                /\ (\A m \in Rivals(cs, k) : Catalogs!Plain(cs[m])) =>
                     \A m \in Rivals(cs, k) : ~Beats(cs[m], cs[j])
  <2>1. k \in DOMAIN es /\ Rivals(es, k) = Rivals(cs, k) /\ Rivals(es, k) \subseteq DOMAIN es
    BY <1>12, <1>15
  <2>2. PICK j \in Rivals(es, k) :
          /\ \A m \in Rivals(es, k) : cs[m].selected <=> m = j
          /\ (\A m \in Rivals(es, k) : Catalogs!Plain(es[m])) =>
               \A m \in Rivals(es, k) : ~Beats(es[m], es[j])
    BY <1>11, <2>1
  <2>. QED  BY <1>14, <2>1, <2>2
<1>. QED
  BY <1>16, <1>17, <1>18 DEF Loaded, Marked

-----------------------------------------------------------------------------
(* The selection and the preview.                                          *)

LEMMA LeastIs ==
  ASSUME NEW n \in Nat, NEW S \in SUBSET (1..n), S # {}
  PROVE  Catalogs!Least(S) \in S /\ \A x \in S : Catalogs!Least(S) <= x
<1>1. IsFiniteSet(1..n)
  BY FS_Interval
<1>2. IsFiniteSet(S)
  BY <1>1, FS_Subset, Zenon
<1>. S \in SUBSET Int
  OBVIOUS
<1>3. \E x \in S : \A y \in S : x <= y
  BY <1>2, MinOfSet
<1>. QED
  BY <1>3 DEF Catalogs!Least

\* Lists of one identity have one cache.
LEMMA OneIdentity ==
  ASSUME NEW l, NEW m, Id(l) = Id(m), NEW all, NEW every, Has(l, all), every \/ m.enabled
  PROVE  Has(m, every)
BY DEF Has, Id, Catalogs!source_list_id, Catalogs!source_type_key, Catalogs!cache_matches_source_list

LEMMA PreferenceKept ==
  ASSUME ListsTrue, CachesTrue
  PROVE  Catalogs!PreferenceHolds
<1>. DEFINE cs == Catalogs!load(lists)
            Of(i) == catalog[Id(lists[i])]
<1>1. cs = Catalogs!load_configured(lists, FALSE) /\ AreLists(lists)
  BY DEF Catalogs!load, ListsTrue
<1>2. /\ \A k \in DOMAIN cs : \E i \in DOMAIN lists : \E j \in DOMAIN Of(i).candidates :
            Has(lists[i], FALSE) /\ Stands(cs[k], Of(i), j, i)
      /\ \A i \in DOMAIN lists : \A j \in DOMAIN Of(i).candidates :
            Has(lists[i], FALSE) => \E k \in DOMAIN cs : Stands(cs[k], Of(i), j, i)
      /\ \A k \in DOMAIN cs : \E j \in Rivals(cs, k) :
            /\ \A m \in Rivals(cs, k) : cs[m].selected <=> m = j
            /\ (\A m \in Rivals(cs, k) : Catalogs!Plain(cs[m])) =>
                 \A m \in Rivals(cs, k) : ~Beats(cs[m], cs[j])
  <2>1. Loaded(lists, FALSE, cs) /\ Marked(cs)
    <3>. HIDE DEF cs
    <3>. QED  BY <1>1, Loading
  <2>. HIDE DEF cs
  <2>. QED  BY <2>1 DEF Loaded, Marked
<1>3. Len(lists) \in Nat /\ DOMAIN lists = 1..Len(lists)
  BY LenProperties DEF ListsTrue, AreLists
<1>. HIDE DEF cs
<1>4. ASSUME NEW k \in DOMAIN cs
      PROVE  {j \in DOMAIN cs : cs[j].source = cs[k].source /\ cs[j].type = cs[k].type} = Rivals(cs, k)
  BY DEF Rivals, SourceOf
<1>. DEFINE EnabledAt(c) == {x \in DOMAIN lists : lists[x].enabled /\ Id(lists[x]) = c.list}
<1>5. ASSUME NEW c, NEW cache, NEW j, NEW i \in DOMAIN lists, Has(lists[i], FALSE),
             cache = Of(i), Stands(c, cache, j, i)
      PROVE  /\ Catalogs!Position(c) \in EnabledAt(c) /\ Catalogs!Position(c) <= i
             /\ c.list = Id(lists[i])
  <2>1. i \in EnabledAt(c) /\ c.list = Id(lists[i])
    BY <1>5 DEF Has, Stands, CachesTrue
  <2>2. Catalogs!Position(c) = Catalogs!Least(EnabledAt(c))
    BY DEF Catalogs!Position, Id
  <2>3. EnabledAt(c) \in SUBSET (1..Len(lists))
    BY <1>3
  <2>. HIDE DEF EnabledAt
  <2>. QED  BY <1>3, <2>1, <2>2, <2>3, LeastIs
<1>6. ASSUME NEW k \in DOMAIN cs, cs[k].selected, \A m \in Rivals(cs, k) : Catalogs!Plain(cs[m]),
             NEW m \in Rivals(cs, k)
      PROVE  /\ ~Catalogs!Lexical(cs[k].version.parts, cs[m].version.parts)
             /\ cs[m].version = cs[k].version => Catalogs!Position(cs[k]) <= Catalogs!Position(cs[m])
  <2>1. k \in Rivals(cs, k) /\ m \in DOMAIN cs
    BY DEF Rivals
  <2>2. \A x \in Rivals(cs, k) : ~Beats(cs[x], cs[k])
    BY <1>2, <1>6, <2>1
  <2>3. \A x \in Rivals(cs, k) :
          /\ ~Catalogs!compare_versions(cs[k].type, cs[k].version, cs[x].version)
          /\ cs[x].version = cs[k].version => ~(cs[x].order < cs[k].order)
    BY <2>2 DEF Beats, Catalogs!compare_candidate_preference
  <2>4. ~Catalogs!Lexical(cs[k].version.parts, cs[m].version.parts)
    <3>1. Catalogs!Plain(cs[k]) /\ Catalogs!Plain(cs[m])
      BY <1>6, <2>1
    <3>. QED  BY <2>3, <3>1, PlainOrder DEF Catalogs!Plain
  <2>5. ASSUME cs[m].version = cs[k].version
        PROVE  Catalogs!Position(cs[k]) <= Catalogs!Position(cs[m])
    <3>1. PICK a \in DOMAIN lists : \E j \in DOMAIN Of(a).candidates :
                 Has(lists[a], FALSE) /\ Stands(cs[m], Of(a), j, a)
      BY <1>2, <2>1
    <3>2. PICK j \in DOMAIN Of(a).candidates : Has(lists[a], FALSE) /\ Stands(cs[m], Of(a), j, a)
      BY <3>1
    <3>3. PICK b \in DOMAIN lists : \E i \in DOMAIN Of(b).candidates :
                 Has(lists[b], FALSE) /\ Stands(cs[k], Of(b), i, b)
      BY <1>2
    <3>4. PICK i \in DOMAIN Of(b).candidates : Has(lists[b], FALSE) /\ Stands(cs[k], Of(b), i, b)
      BY <3>3
    <3>. DEFINE p == Catalogs!Position(cs[m])
    <3>5. p \in DOMAIN lists /\ lists[p].enabled /\ Id(lists[p]) = Id(lists[a])
      BY <1>5, <3>2
    <3>6. Catalogs!Position(cs[k]) \in DOMAIN lists /\ Catalogs!Position(cs[k]) <= b
      BY <1>5, <3>4
    <3>. HIDE DEF p
    <3>7. Has(lists[p], FALSE)
      BY <3>2, <3>5, OneIdentity
    <3>8. Of(p) = Of(a)
      BY <3>5
    <3>9. PICK x \in DOMAIN cs : Stands(cs[x], Of(p), j, p)
      BY <1>2, <3>5, <3>7, <3>8
    <3>10. x \in Rivals(cs, k) /\ cs[x].version = cs[k].version /\ cs[x].order = p
      <4>1. cs[x].source = cs[m].source /\ cs[x].type = cs[m].type /\ cs[x].version = cs[m].version
        BY <3>2, <3>8, <3>9 DEF Stands
      <4>. QED  BY <2>5, <3>9, <4>1 DEF Rivals, SourceOf, Stands
    <3>11. ~(p < b)
      BY <2>3, <3>4, <3>10 DEF Stands
    <3>. QED  BY <1>3, <3>5, <3>6, <3>11 DEF p
  <2>. QED  BY <2>4, <2>5
<1>7. \A k \in DOMAIN cs : \E j \in Rivals(cs, k) : \A m \in Rivals(cs, k) : cs[m].selected <=> m = j
  BY <1>2
<1>. QED
  BY <1>4, <1>6, <1>7 DEF Catalogs!PreferenceHolds, cs

\* What a list gives, by its identity.
Offers(id, source, kind) ==
  \E j \in DOMAIN catalog[id].candidates :
    catalog[id].candidates[j].id = source /\ Catalogs!source_type_matches(kind, catalog[id].type)
Gives(ls, all, source, kind) ==
  \E i \in DOMAIN ls : Has(ls[i], all) /\ Offers(Id(ls[i]), source, kind)

Selected(cs) == {c \in Catalogs!ToSet(cs) : c.selected}

LEMMA SetOf ==
  ASSUME NEW s, NEW x
  PROVE  x \in Catalogs!ToSet(s) <=> \E k \in DOMAIN s : s[k] = x
BY DEF Catalogs!ToSet

\* Candidates that are loaded, and those of them that are selected, contain what lists give.
LEMMA GivenIs ==
  ASSUME CachesTrue, NEW ls, AreLists(ls), NEW all \in BOOLEAN,
         NEW cs, cs = Catalogs!load_configured(ls, all), NEW source, NEW kind
  PROVE  Gives(ls, all, source, kind) <=> Catalogs!catalog_contains_source(source, kind, Selected(cs))
<1>. DEFINE Of(i) == catalog[Id(ls[i])]
            sel == Selected(cs)
<1>1. /\ \A k \in DOMAIN cs : \E i \in DOMAIN ls : \E j \in DOMAIN Of(i).candidates :
            Has(ls[i], all) /\ Stands(cs[k], Of(i), j, i)
      /\ \A i \in DOMAIN ls : \A j \in DOMAIN Of(i).candidates :
            Has(ls[i], all) => \E k \in DOMAIN cs : Stands(cs[k], Of(i), j, i)
      /\ \A k \in DOMAIN cs : \E j \in Rivals(cs, k) :
            \A m \in Rivals(cs, k) : cs[m].selected <=> m = j
  <2>1. Loaded(ls, all, cs) /\ Marked(cs)
    BY Loading
  <2>. QED  BY <2>1 DEF Loaded, Marked
<1>2. ASSUME Gives(ls, all, source, kind) PROVE Catalogs!catalog_contains_source(source, kind, sel)
  <2>1. PICK i \in DOMAIN ls : Has(ls[i], all) /\ Offers(Id(ls[i]), source, kind)
    BY <1>2 DEF Gives
  <2>2. PICK j \in DOMAIN Of(i).candidates :
          Of(i).candidates[j].id = source /\ Catalogs!source_type_matches(kind, Of(i).type)
    BY <2>1 DEF Offers
  <2>3. PICK k \in DOMAIN cs : Stands(cs[k], Of(i), j, i)
    BY <1>1, <2>1, <2>2
  <2>4. PICK m \in Rivals(cs, k) : cs[m].selected
    BY <1>1
  <2>5. m \in DOMAIN cs /\ cs[m].source = source /\ Catalogs!source_type_matches(kind, cs[m].type)
    BY <2>2, <2>3 DEF Rivals, SourceOf, Stands
  <2>6. cs[m] \in sel
    BY <2>4, <2>5, SetOf DEF Selected
  <2>. HIDE DEF sel
  <2>. QED  BY <2>5, <2>6 DEF Catalogs!catalog_contains_source, Catalogs!Supplies
<1>3. ASSUME Catalogs!catalog_contains_source(source, kind, sel) PROVE Gives(ls, all, source, kind)
  <2>1. PICK c \in sel : c.source = source /\ Catalogs!source_type_matches(kind, c.type)
    BY <1>3 DEF Catalogs!catalog_contains_source, Catalogs!Supplies
  <2>2. PICK k \in DOMAIN cs : cs[k] = c
    BY SetOf DEF Selected
  <2>3. PICK i \in DOMAIN ls : \E j \in DOMAIN Of(i).candidates :
          Has(ls[i], all) /\ Stands(cs[k], Of(i), j, i)
    BY <1>1
  <2>. QED  BY <2>1, <2>2, <2>3 DEF Gives, Offers, Stands
<1>. QED
  BY <1>2, <1>3

LEMMA CoveredIs ==
  ASSUME CachesTrue, NEW ls, AreLists(ls), NEW source
  PROVE  source \in Catalogs!Covered(ls) <=>
           \/ \E p \in DOMAIN provided : p[2] = source /\ Gives(ls, FALSE, source, p[1])
           \/ source \in Library \ Catalogs!InstalledIds /\ Gives(ls, FALSE, source, Nothing)
<1>. DEFINE cs == Catalogs!load(ls)
            sel == Selected(cs)
            status(id, kind) == Catalogs!build_source_status(id, kind, cs)
<1>1. cs = Catalogs!load_configured(ls, FALSE)
  BY DEF Catalogs!load
<1>2. ASSUME NEW id, NEW kind
      PROVE  /\ status(id, kind).source = id
             /\ status(id, kind).catalog = "available" <=> Gives(ls, FALSE, id, kind)
  <2>1. Gives(ls, FALSE, id, kind) <=> Catalogs!catalog_contains_source(id, kind, sel)
    <3>. HIDE DEF cs
    <3>. QED  BY <1>1, GivenIs
  <2>. DEFINE c == Catalogs!choose_candidate(id, kind, sel)
  <2>2. ASSUME c # Nothing
        PROVE  Catalogs!catalog_contains_source(id, kind, sel)
    <3>1. {x \in sel : Catalogs!Supplies(x, id, kind)} # {}
      <4>. HIDE DEF sel
      <4>. QED  BY <2>2 DEF Catalogs!choose_candidate
    <3>. HIDE DEF sel
    <3>. QED  BY <3>1 DEF Catalogs!catalog_contains_source
  <2>3. /\ status(id, kind).source = id
        /\ status(id, kind).catalog =
             IF c # Nothing \/ Catalogs!catalog_contains_source(id, kind, sel) THEN "available"
             ELSE IF cs # <<>> THEN "unavailable" ELSE "unknown"
    <3>. HIDE DEF cs
    <3>. QED  BY DEF Catalogs!build_source_status, Selected
  <2>. HIDE DEF status, c, sel, cs
  <2>4. status(id, kind).catalog = "available" <=>
          c # Nothing \/ Catalogs!catalog_contains_source(id, kind, sel)
    BY <2>3
  <2>. QED  BY <2>1, <2>2, <2>3, <2>4
<1>3. Catalogs!list_source_statuses(ls) =
        {status(p[2], p[1]) : p \in DOMAIN provided} \cup
        {status(id, Nothing) : id \in Library \ Catalogs!InstalledIds}
  <2>. HIDE DEF cs
  <2>. QED  BY DEF Catalogs!list_source_statuses, Catalogs!build_source_statuses, cs
<1>4. source \in Catalogs!Covered(ls) <=>
        \E s \in Catalogs!list_source_statuses(ls) : s.catalog = "available" /\ s.source = source
  BY DEF Catalogs!Covered
<1>. HIDE DEF status, cs, sel
<1>5. (\E s \in Catalogs!list_source_statuses(ls) : s.catalog = "available" /\ s.source = source) <=>
        \/ \E p \in DOMAIN provided : status(p[2], p[1]).catalog = "available" /\ status(p[2], p[1]).source = source
        \/ \E id \in Library \ Catalogs!InstalledIds :
             status(id, Nothing).catalog = "available" /\ status(id, Nothing).source = source
  BY <1>3
<1>6. (\E p \in DOMAIN provided : status(p[2], p[1]).catalog = "available" /\ status(p[2], p[1]).source = source)
      <=> \E p \in DOMAIN provided : p[2] = source /\ Gives(ls, FALSE, source, p[1])
  <2>1. \A p \in DOMAIN provided :
          /\ status(p[2], p[1]).source = p[2]
          /\ status(p[2], p[1]).catalog = "available" <=> Gives(ls, FALSE, p[2], p[1])
    BY <1>2
  <2>. QED  BY <2>1
<1>7. (\E id \in Library \ Catalogs!InstalledIds :
         status(id, Nothing).catalog = "available" /\ status(id, Nothing).source = source)
      <=> source \in Library \ Catalogs!InstalledIds /\ Gives(ls, FALSE, source, Nothing)
  BY <1>2
<1>. QED
  BY <1>4, <1>5, <1>6, <1>7

\* What the enabled lists with some identities give.
From(ids, source, kind) ==
  \E i \in DOMAIN lists :
    Has(lists[i], FALSE) /\ Id(lists[i]) \in ids /\ Offers(Id(lists[i]), source, kind)
Among(cs, ids) == {c \in Catalogs!ToSet(cs) : c.list \in ids}

LEMMA FromIs ==
  ASSUME CachesTrue, AreLists(lists), NEW ids \in SUBSET Catalogs!ActiveLists(lists),
         NEW cs, cs = Catalogs!load_all(lists), NEW source, NEW kind
  PROVE  Catalogs!catalog_contains_source(source, kind, Among(cs, ids)) <=> From(ids, source, kind)
<1>. DEFINE Of(i) == catalog[Id(lists[i])]
<1>1. /\ \A k \in DOMAIN cs : \E i \in DOMAIN lists : \E j \in DOMAIN Of(i).candidates :
            Has(lists[i], TRUE) /\ Stands(cs[k], Of(i), j, i)
      /\ \A i \in DOMAIN lists : \A j \in DOMAIN Of(i).candidates :
            Has(lists[i], TRUE) => \E k \in DOMAIN cs : Stands(cs[k], Of(i), j, i)
  <2>1. cs = Catalogs!load_configured(lists, TRUE)
    BY DEF Catalogs!load_all
  <2>2. Loaded(lists, TRUE, cs)
    BY <2>1, Loading
  <2>. QED  BY <2>2 DEF Loaded
<1>2. ASSUME NEW i \in DOMAIN lists, Has(lists[i], TRUE) PROVE Of(i).id = Id(lists[i])
  BY <1>2 DEF CachesTrue, Has
<1>3. ASSUME From(ids, source, kind)
      PROVE  Catalogs!catalog_contains_source(source, kind, Among(cs, ids))
  <2>1. PICK i \in DOMAIN lists :
          Has(lists[i], FALSE) /\ Id(lists[i]) \in ids /\ Offers(Id(lists[i]), source, kind)
    BY <1>3 DEF From
  <2>2. Has(lists[i], TRUE)
    BY <2>1, OneIdentity
  <2>3. PICK j \in DOMAIN Of(i).candidates :
          Of(i).candidates[j].id = source /\ Catalogs!source_type_matches(kind, Of(i).type)
    BY <2>1 DEF Offers
  <2>4. PICK k \in DOMAIN cs : Stands(cs[k], Of(i), j, i)
    BY <1>1, <2>2, <2>3
  <2>5. /\ cs[k].source = source /\ Catalogs!source_type_matches(kind, cs[k].type)
        /\ cs[k].list \in ids
    BY <1>2, <2>1, <2>2, <2>3, <2>4 DEF Stands
  <2>6. cs[k] \in Among(cs, ids)
    BY <2>5, SetOf DEF Among
  <2>. QED  BY <2>5, <2>6 DEF Catalogs!catalog_contains_source, Catalogs!Supplies
<1>4. ASSUME Catalogs!catalog_contains_source(source, kind, Among(cs, ids))
      PROVE  From(ids, source, kind)
  <2>1. PICK c \in Among(cs, ids) : c.source = source /\ Catalogs!source_type_matches(kind, c.type)
    BY <1>4 DEF Catalogs!catalog_contains_source, Catalogs!Supplies
  <2>2. PICK k \in DOMAIN cs : cs[k] = c
    BY SetOf DEF Among
  <2>3. PICK i \in DOMAIN lists : \E j \in DOMAIN Of(i).candidates :
          Has(lists[i], TRUE) /\ Stands(cs[k], Of(i), j, i)
    BY <1>1
  <2>4. Offers(Id(lists[i]), source, kind) /\ Id(lists[i]) \in ids
    BY <1>2, <2>1, <2>2, <2>3 DEF Offers, Stands, Among
  <2>5. PICK m \in DOMAIN lists : lists[m].enabled /\ Id(lists[m]) = Id(lists[i])
    BY <2>4 DEF Catalogs!ActiveLists, Id
  <2>6. Has(lists[m], FALSE)
    BY <2>3, <2>5, OneIdentity
  <2>. QED  BY <2>4, <2>5, <2>6 DEF From
<1>. QED
  BY <1>3, <1>4

LEMMA DroppingIs ==
  ASSUME AreLists(lists), NEW id, NEW source, NEW kind
  PROVE  /\ AreLists(Catalogs!Dropping(id))
         /\ Gives(Catalogs!Dropping(id), FALSE, source, kind)
              <=> From(Catalogs!ActiveLists(lists) \ {id}, source, kind)
         /\ Gives(lists, FALSE, source, kind)
              <=> \/ From(Catalogs!ActiveLists(lists) \cap {id}, source, kind)
                  \/ From(Catalogs!ActiveLists(lists) \ {id}, source, kind)
<1>. DEFINE D == Catalogs!Dropping(id)
            n == Len(lists)
            set == {D[i] : i \in DOMAIN D}
<1>1. n \in Nat /\ DOMAIN lists = 1..n
  BY LenProperties DEF AreLists
<1>2. DOMAIN D = DOMAIN lists
  BY DEF Catalogs!Dropping
<1>3. ASSUME NEW i \in DOMAIN lists
      PROVE  D[i] = [type |-> lists[i].type, url |-> lists[i].url,
                     enabled |-> (lists[i].enabled /\ Id(lists[i]) # id)]
  <2>. DEFINE l == lists[i]
              on == l.enabled /\ Id(l) # id
  <2>1. D[i] = [l EXCEPT !.enabled = on]
    BY DEF Catalogs!Dropping, Id
  <2>2. l = [type |-> l.type, url |-> l.url, enabled |-> l.enabled]
    BY DEF AreLists
  <2>3. D[i] = [type |-> l.type, url |-> l.url, enabled |-> on]
    <3>. HIDE DEF l, on
    <3>. QED  BY <2>1, <2>2
  <2>. QED  BY <2>3
<1>4. AreLists(D)
  <2>1. D \in [1..n -> set]
    <3>1. D = [i \in DOMAIN D |-> D[i]]
      BY DEF Catalogs!Dropping
    <3>. HIDE DEF D
    <3>. QED  BY <1>1, <1>2, <3>1
  <2>2. D \in Seq(set)
    <3>. HIDE DEF D, n, set
    <3>. QED  BY <1>1, <2>1, FunctionIsSeq
  <2>3. \A i \in DOMAIN D : D[i] = [type |-> D[i].type, url |-> D[i].url, enabled |-> D[i].enabled]
    <3>. HIDE DEF D
    <3>. QED  BY <1>2, <1>3
  <2>. HIDE DEF D
  <2>. QED  BY <2>2, <2>3 DEF AreLists
<1>5. ASSUME NEW i \in DOMAIN lists
      PROVE  /\ Id(D[i]) = Id(lists[i])
             /\ Has(D[i], FALSE) <=> Has(lists[i], FALSE) /\ Id(lists[i]) # id
  <2>. DEFINE on == lists[i].enabled /\ Id(lists[i]) # id
  <2>1. D[i].type = lists[i].type /\ D[i].url = lists[i].url /\ D[i].enabled = on
    <3>1. D[i] = [type |-> lists[i].type, url |-> lists[i].url, enabled |-> on]
      BY <1>3
    <3>. HIDE DEF D, on
    <3>. QED  BY <3>1
  <2>. HIDE DEF D
  <2>2. Id(D[i]) = Id(lists[i])
    BY <2>1 DEF Id, Catalogs!source_list_id, Catalogs!source_type_key, Catalogs!normalized_source_list_url
  <2>3. \A c : Catalogs!cache_matches_source_list(c, D[i]) <=> Catalogs!cache_matches_source_list(c, lists[i])
    BY <2>1, <2>2 DEF Id, Catalogs!cache_matches_source_list, Catalogs!normalized_source_list_url
  <2>. QED  BY <2>1, <2>2, <2>3 DEF Has
<1>6. \A i \in DOMAIN lists : Has(lists[i], FALSE) => Id(lists[i]) \in Catalogs!ActiveLists(lists)
  BY DEF Has, Catalogs!ActiveLists, Id
<1>7. Gives(D, FALSE, source, kind) <=> From(Catalogs!ActiveLists(lists) \ {id}, source, kind)
  <2>. HIDE DEF D
  <2>. QED  BY <1>2, <1>5, <1>6 DEF Gives, From
<1>8. Gives(lists, FALSE, source, kind)
              <=> \/ From(Catalogs!ActiveLists(lists) \cap {id}, source, kind)
                  \/ From(Catalogs!ActiveLists(lists) \ {id}, source, kind)
  BY <1>6 DEF Gives, From
<1>. QED
  BY <1>4, <1>7, <1>8

LEMMA PreviewKept ==
  ASSUME ListsTrue, CachesTrue
  PROVE  Catalogs!PreviewComplete
<1>. SUFFICES ASSUME \A p, q \in DOMAIN provided : p[2] = q[2] => p = q,
                     NEW id, NEW source
              PROVE  source \in Catalogs!get_source_catalog_change_preview(lists, id).affected
                       <=> source \in Catalogs!Covered(lists) \ Catalogs!Covered(Catalogs!Dropping(id))
  <2>1. ASSUME NEW i, \A id, source :
                 source \in Catalogs!get_source_catalog_change_preview(lists, id).affected
                   <=> source \in Catalogs!Covered(lists) \ Catalogs!Covered(Catalogs!Dropping(id))
        PROVE  Catalogs!get_source_catalog_change_preview(lists, Id(lists[i])).affected
                 = Catalogs!Covered(lists) \ Catalogs!Covered(Catalogs!Dropping(Id(lists[i])))
    BY <2>1
  <2>. QED  BY <2>1 DEF Catalogs!PreviewComplete, Id
<1>. DEFINE all == Catalogs!load_all(lists)
            cs == Catalogs!ToSet(all)
            active == Catalogs!ActiveLists(lists)
            target == {c \in cs : id \in active /\ c.list = id}
            left == Catalogs!Remaining(id, active, cs)
            Loses(s, kind) == /\ Catalogs!catalog_contains_source(s, kind, target)
                              /\ ~Catalogs!catalog_contains_source(s, kind, left)
            Drops(s, kind) == Gives(lists, FALSE, s, kind) /\ ~Gives(Catalogs!Dropping(id), FALSE, s, kind)
            choice(s) == CHOOSE k \in Catalogs!KindsOf(s) : TRUE
<1>1. AreLists(lists) /\ AreLists(Catalogs!Dropping(id))
  BY DroppingIs DEF ListsTrue
<1>2. Catalogs!get_source_catalog_change_preview(lists, id).affected
        = {s \in Catalogs!InstalledIds : Loses(s, choice(s))}
          \cup {s \in Library \ Catalogs!InstalledIds : Loses(s, Nothing)}
  BY DEF Catalogs!get_source_catalog_change_preview, Catalogs!build_catalog_change_preview
<1>3. target = Among(all, active \cap {id}) /\ left = Among(all, active \ {id})
  <2>. HIDE DEF all, active
  <2>. QED  BY DEF Among, Catalogs!Remaining
<1>4. ASSUME NEW s, NEW kind PROVE Loses(s, kind) <=> Drops(s, kind)
  <2>1. active \cap {id} \in SUBSET active /\ active \ {id} \in SUBSET active
    OBVIOUS
  <2>2. Catalogs!catalog_contains_source(s, kind, target) <=> From(active \cap {id}, s, kind)
    <3>. HIDE DEF target, left, active, all
    <3>. QED  BY <1>1, <1>3, <2>1, FromIs DEF active, all
  <2>3. Catalogs!catalog_contains_source(s, kind, left) <=> From(active \ {id}, s, kind)
    <3>. HIDE DEF target, left, active, all
    <3>. QED  BY <1>1, <1>3, <2>1, FromIs DEF active, all
  <2>4. /\ Gives(Catalogs!Dropping(id), FALSE, s, kind) <=> From(active \ {id}, s, kind)
        /\ Gives(lists, FALSE, s, kind)
              <=> From(active \cap {id}, s, kind) \/ From(active \ {id}, s, kind)
    BY <1>1, DroppingIs
  <2>. HIDE DEF target, left, active
  <2>. QED  BY <2>2, <2>3, <2>4
<1>. HIDE DEF target, left, active, all, cs, Loses, choice
<1>5. CASE source \notin Catalogs!InstalledIds
  <2>1. \A p \in DOMAIN provided : p[2] # source
    BY <1>5 DEF Catalogs!InstalledIds
  <2>2. /\ source \in Catalogs!Covered(lists) <=> source \in Library /\ Gives(lists, FALSE, source, Nothing)
        /\ source \in Catalogs!Covered(Catalogs!Dropping(id))
             <=> source \in Library /\ Gives(Catalogs!Dropping(id), FALSE, source, Nothing)
    BY <1>1, <1>5, <2>1, CoveredIs
  <2>3. source \in Catalogs!get_source_catalog_change_preview(lists, id).affected
          <=> source \in Library /\ Loses(source, Nothing)
    BY <1>2, <1>5
  <2>. QED  BY <1>4, <2>2, <2>3
<1>6. CASE source \in Catalogs!InstalledIds
  <2>1. PICK p \in DOMAIN provided : p[2] = source
    BY <1>6 DEF Catalogs!InstalledIds
  <2>2. \A q \in DOMAIN provided : q[2] = source => q = p
    BY <2>1
  <2>3. Catalogs!KindsOf(source) = {p[1]}
    BY <2>1, <2>2 DEF Catalogs!KindsOf
  <2>4. choice(source) = p[1]
    BY <2>3 DEF choice
  <2>5. /\ source \in Catalogs!Covered(lists) <=> Gives(lists, FALSE, source, p[1])
        /\ source \in Catalogs!Covered(Catalogs!Dropping(id))
             <=> Gives(Catalogs!Dropping(id), FALSE, source, p[1])
    <3>1. source \notin Library \ Catalogs!InstalledIds
      BY <1>6
    <3>2. ASSUME NEW ls, AreLists(ls)
          PROVE  source \in Catalogs!Covered(ls) <=> Gives(ls, FALSE, source, p[1])
      <4>1. source \in Catalogs!Covered(ls) <=>
              \E q \in DOMAIN provided : q[2] = source /\ Gives(ls, FALSE, source, q[1])
        BY <3>1, <3>2, CoveredIs
      <4>. QED  BY <2>1, <2>2, <4>1
    <3>. QED  BY <1>1, <3>2
  <2>6. source \in Catalogs!get_source_catalog_change_preview(lists, id).affected
          <=> Loses(source, p[1])
    <3>1. source \in Catalogs!get_source_catalog_change_preview(lists, id).affected
            <=> Loses(source, choice(source))
      BY <1>2, <1>6
    <3>. QED  BY <2>4, <3>1
  <2>. QED  BY <1>4, <2>5, <2>6
<1>. QED
  BY <1>5, <1>6

-----------------------------------------------------------------------------
(* What is fetched, and what becomes of it.                                *)

CachesOf(caches) == \A id \in DOMAIN caches : Cache(caches[id]) /\ caches[id].id = id

\* An index that is fetched is one that a site publishes.
LEMMA Fetching ==
  ASSUME NEW url, NEW index \in Catalogs!fetch_source_list(url) \ {Nothing}
  PROVE  IsFiniteSet(DOMAIN index.entries)
<1>1. PICK u : index \in Catalogs!fetch_index(u)
  BY DEF Catalogs!fetch_source_list
<1>2. PICK body \in Catalogs!Served(u) : index = Catalogs!parse_index_bytes(body)
  BY <1>1 DEF Catalogs!fetch_index
<1>3. PICK at \in DOMAIN Bodies : published[u.site] \in DOMAIN Bodies[at] /\ body = Bodies[at][published[u.site]]
  BY <1>2 DEF Catalogs!Served
<1>. QED
  BY <1>2, <1>3, IndexesAreFinite

\* Some elements at places among finitely many.
LEMMA PickedSome ==
  ASSUME NEW s, NEW I, NEW J, I \subseteq J, IsFiniteSet(J)
  PROVE  \E n \in Nat : DOMAIN Catalogs!Pick(s, I) = 1..n
<1>1. IsFiniteSet(I)
  BY FS_Subset, Zenon
<1>2. Cardinality(I) \in Nat
  BY <1>1, FS_CardinalityType
<1>3. DOMAIN Catalogs!Pick(s, I) = 1..Cardinality(I)
  BY CatalogLibrary DEF Pick
<1>. QED
  BY <1>2, <1>3

LEMMA Building ==
  ASSUME NEW list, NEW order, NEW url, NEW index, IsFiniteSet(DOMAIN index.entries),
         NEW cache, cache = Catalogs!build_cache(list, order, url, index), cache # Nothing
  PROVE  Cache(cache) /\ cache.id = Id(list)
<1>. DEFINE entries == Catalogs!normalize_entry_ids(index.entries)
            parsed == Catalogs!Parsed(entries)
            named == IF list.type = "keiyoushi" THEN Catalogs!expand_keiyoushi_ids(parsed) ELSE parsed
            I == {i \in DOMAIN named : Catalogs!candidate_is_compatible(list.type, named[i])}
            found == Catalogs!Pick(named, I)
            provider == Catalogs!normalized_source_list_url(list)
            id == Id(list)
            type == list.type
<1>1. PICK n \in Nat : DOMAIN parsed = 1..n
  <2>1. DOMAIN entries = DOMAIN index.entries
    BY DEF Catalogs!normalize_entry_ids
  <2>2. \E n \in Nat : DOMAIN Catalogs!Pick(entries, {i \in DOMAIN entries : entries[i].id # Nothing}) = 1..n
    <3>. DEFINE K == {i \in DOMAIN entries : entries[i].id # Nothing}
    <3>1. K \subseteq DOMAIN index.entries
      BY <2>1
    <3>. HIDE DEF K, entries
    <3>2. \E n \in Nat : DOMAIN Catalogs!Pick(entries, K) = 1..n
      BY <3>1, PickedSome
    <3>. QED  BY <3>2 DEF K
  <2>. HIDE DEF entries
  <2>. QED  BY <2>2 DEF Catalogs!Parsed
<1>2. DOMAIN named = 1..n
  <2>1. DOMAIN Catalogs!expand_keiyoushi_ids(parsed) = DOMAIN parsed
    BY DEF Catalogs!expand_keiyoushi_ids
  <2>. HIDE DEF parsed
  <2>. QED  BY <1>1, <2>1
<1>. HIDE DEF named, parsed, entries
<1>3. \E m \in Nat : DOMAIN found = 1..m
  <2>1. IsFiniteSet(DOMAIN named)
    BY <1>1, <1>2, FS_Interval
  <2>2. I \subseteq DOMAIN named
    OBVIOUS
  <2>. HIDE DEF I
  <2>. QED  BY <2>1, <2>2, PickedSome
<1>4. cache = [id |-> id, type |-> type, provider |-> provider, url |-> url, order |-> order,
               error |-> FALSE, candidates |-> found]
  <2>1. Catalogs!build_cache(list, order, url, index) =
          IF found = <<>> THEN Nothing
          ELSE [id |-> id, type |-> type, provider |-> provider, url |-> url, order |-> order,
                error |-> FALSE, candidates |-> found]
    BY DEF Catalogs!build_cache, named, parsed, entries, Id
  <2>. HIDE DEF found, id, type, provider
  <2>. QED  BY <2>1
<1>. HIDE DEF found, id, type, provider
<1>5. /\ cache.id = id /\ cache.type = type /\ cache.provider = provider /\ cache.url = url
      /\ cache.order = order /\ cache.error = FALSE /\ cache.candidates = found
  BY <1>4
<1>. QED
  BY <1>3, <1>4, <1>5 DEF Cache, id

LEMMA Keeping ==
  ASSUME NEW previous, Cache(previous), NEW order, NEW cache,
         cache = Catalogs!KeptCache(previous, order)
  PROVE  Cache(cache) /\ cache.id = previous.id /\ cache.candidates = previous.candidates
<1>1. previous = [id |-> previous.id, type |-> previous.type, provider |-> previous.provider,
                  url |-> previous.url, order |-> previous.order, error |-> previous.error,
                  candidates |-> previous.candidates]
  BY DEF Cache
<1>2. cache = [[previous EXCEPT !.order = order] EXCEPT !.error = TRUE]
  BY DEF Catalogs!KeptCache
<1>3. cache = [id |-> previous.id, type |-> previous.type, provider |-> previous.provider,
               url |-> previous.url, order |-> order, error |-> TRUE, candidates |-> previous.candidates]
  BY <1>1, <1>2
<1>. QED
  BY <1>3 DEF Cache

\* A cache that is saved takes the place of its list's.
LEMMA SavingCache ==
  ASSUME CachesTrue, NEW cache, Cache(cache), Catalogs!save_cache(cache)
  PROVE  /\ CachesOf(catalog')
         /\ DOMAIN catalog' = DOMAIN catalog \cup {cache.id}
         /\ catalog'[cache.id] = cache
         /\ \A id \in DOMAIN catalog : id # cache.id => catalog'[id] = catalog[id]
<1>1. catalog' = [k \in DOMAIN catalog \cup {cache.id} |-> IF k = cache.id THEN cache ELSE catalog[k]]
  BY DEF Catalogs!save_cache, Catalogs!Added
<1>2. /\ DOMAIN catalog' = DOMAIN catalog \cup {cache.id}
      /\ \A k \in DOMAIN catalog \cup {cache.id} : catalog'[k] = IF k = cache.id THEN cache ELSE catalog[k]
  BY <1>1
<1>3. \A id \in DOMAIN catalog : Cache(catalog[id]) /\ catalog[id].id = id
  BY DEF CachesTrue
<1>4. CachesOf(catalog')
  BY <1>2, <1>3 DEF CachesOf
<1>. QED
  BY <1>2, <1>4

-----------------------------------------------------------------------------
(* The invariant.                                                          *)

LEMMA Relisted ==
  ASSUME AreLists(lists), NEW D, DOMAIN D = DOMAIN lists, D = [i \in DOMAIN D |-> D[i]],
         \A i \in DOMAIN D : D[i] = [type |-> D[i].type, url |-> D[i].url, enabled |-> D[i].enabled]
  PROVE  AreLists(D)
<1>. DEFINE n == Len(lists)
            set == {D[i] : i \in DOMAIN D}
<1>1. n \in Nat /\ DOMAIN lists = 1..n
  BY LenProperties DEF AreLists
<1>2. D \in [1..n -> set]
  BY <1>1
<1>3. D \in Seq(set)
  <2>. HIDE DEF n, set
  <2>. QED  BY <1>1, <1>2, FunctionIsSeq
<1>. QED
  BY <1>3 DEF AreLists

\* A request turns to a list, and reads what is cached of it.
LEMMA Taking ==
  ASSUME TasksTrue, NEW t \in Subscribers, NEW op, NEW ls, AreLists(ls), Remembered(ls),
         NEW i \in DOMAIN ls, NEW caches, CachesOf(caches),
         Catalogs!TakeList(t, op, ls, i, caches), DOMAIN lastGood' = DOMAIN lastGood
  PROVE  TasksTrue'
<1>1. PICK url : \E r \in Catalogs!resolve_source_list(ls[i]) :
        /\ url = r[1]
        /\ tasks' = [tasks EXCEPT ![t] = [Catalogs!Idle EXCEPT !.op = op, !.lists = ls, !.at = i, !.url = r[1],
                                            !.previous = Catalogs!MatchingOf(caches, ls[i])]]
  BY DEF Catalogs!TakeList
<1>. DEFINE before == Catalogs!MatchingOf(caches, ls[i])
            r == [Catalogs!Idle EXCEPT !.op = op, !.lists = ls, !.at = i, !.url = url, !.previous = before]
<1>2. tasks' = [tasks EXCEPT ![t] = r]
  BY <1>1
<1>3. \A c \in before : Cache(c) /\ c.id = Id(ls[i])
  BY DEF Catalogs!MatchingOf, CachesOf, Id
<1>4. /\ r.op = op /\ r.lists = ls /\ r.at = i /\ r.previous = before
  <2>. HIDE DEF before
  <2>. QED  BY DEF Catalogs!Idle
<1>. HIDE DEF r, before
<1>5. Refreshing(r)
  BY <1>3, <1>4 DEF Refreshing
<1>6. tasks' = [x \in Subscribers |-> IF x = t THEN r ELSE tasks[x]]
  BY <1>2 DEF TasksTrue
<1>7. \A x \in Subscribers : tasks'[x] = IF x = t THEN r ELSE tasks[x]
  BY <1>6
<1>8. \A x \in Subscribers : tasks'[x].op \in {"refresh", "refresh_one"} => Refreshing(tasks'[x])
  BY <1>5, <1>7 DEF TasksTrue
<1>9. tasks' = [x \in Subscribers |-> tasks'[x]]
  BY <1>6
<1>. QED
  BY <1>8, <1>9 DEF TasksTrue, Refreshing, Remembered

LEMMA Resting ==
  ASSUME TasksTrue, NEW t \in Subscribers, NEW r, r.op \notin {"refresh", "refresh_one"},
         tasks' = [tasks EXCEPT ![t] = r], DOMAIN lastGood' = DOMAIN lastGood
  PROVE  TasksTrue'
<1>1. tasks' = [x \in Subscribers |-> IF x = t THEN r ELSE tasks[x]]
  BY DEF TasksTrue
<1>2. tasks' = [x \in Subscribers |-> tasks'[x]] /\ \A x \in Subscribers : tasks'[x] = IF x = t THEN r ELSE tasks[x]
  BY <1>1
<1>3. \A x \in Subscribers : tasks'[x].op \in {"refresh", "refresh_one"} => Refreshing(tasks'[x])
  BY <1>2 DEF TasksTrue
<1>. QED
  BY <1>2, <1>3 DEF TasksTrue, Refreshing, Remembered

\* The first of the enabled lists after one is a list.
LEMMA NextEnabled ==
  ASSUME NEW ls, AreLists(ls), NEW i, Catalogs!EnabledAfter(ls, i) # {}
  PROVE  Catalogs!Least(Catalogs!EnabledAfter(ls, i)) \in DOMAIN ls
<1>. DEFINE S == Catalogs!EnabledAfter(ls, i)
            n == Len(ls)
<1>1. n \in Nat /\ DOMAIN ls = 1..n
  BY LenProperties DEF AreLists
<1>2. S \in SUBSET (1..n)
  BY <1>1 DEF Catalogs!EnabledAfter
<1>3. Catalogs!Least(S) \in S
  <2>. HIDE DEF S, n
  <2>1. S # {}
    BY DEF S
  <2>. QED  BY <1>1, <1>2, <2>1, LeastIs
<1>. QED
  BY <1>1, <1>2, <1>3

LEMMA Going ==
  ASSUME TasksTrue, NEW t \in Subscribers, tasks[t].op \in {"refresh", "refresh_one"},
         CachesOf(catalog'), DOMAIN lastGood' = DOMAIN lastGood, Catalogs!Goes(t)
  PROVE  TasksTrue'
<1>. DEFINE ls == tasks[t].lists
            rest == Catalogs!EnabledAfter(ls, tasks[t].at)
<1>1. AreLists(ls) /\ Remembered(ls)
  BY DEF TasksTrue, Refreshing
<1>2. CASE rest # {} /\ Catalogs!TakeList(t, "refresh", ls, Catalogs!Least(rest), catalog')
  <2>1. Catalogs!Least(rest) \in DOMAIN ls
    BY <1>1, <1>2, NextEnabled
  <2>. HIDE DEF ls, rest
  <2>. QED  BY <1>1, <1>2, <2>1, Taking
<1>3. CASE tasks' = [tasks EXCEPT ![t] = Catalogs!Idle]
  <2>1. Catalogs!Idle.op \notin {"refresh", "refresh_one"}
    BY DEF Catalogs!Idle
  <2>. QED  BY <1>3, <2>1, Resting
<1>. QED
  BY <1>2, <1>3 DEF Catalogs!Goes

LEMMA FetchedKeeps ==
  ASSUME CatalogInv, NEW t \in Subscribers, Catalogs!Fetched(t)
  PROVE  CatalogInv'
<1>1. /\ ListsTrue /\ CachesTrue /\ TasksTrue /\ Catalogs!LastGoodKept
      /\ lists' = lists /\ tasks[t].op \in {"refresh", "refresh_one"} /\ Catalogs!Goes(t)
  BY DEF CatalogInv, Catalogs!Fetched
<1>. DEFINE list == tasks[t].lists[tasks[t].at]
<1>2. PICK index \in Catalogs!fetch_source_list(tasks[t].url) \ {Nothing} :
        LET cache == Catalogs!build_cache(list, tasks[t].at, tasks[t].url, index)
        IN  /\ cache # Nothing /\ Catalogs!save_cache(cache)
            /\ lastGood' = [lastGood EXCEPT ![cache.id] = cache.candidates]
            /\ overtaken' = overtaken \ {cache.id}
  BY DEF Catalogs!Fetched
<1>. DEFINE cache == Catalogs!build_cache(list, tasks[t].at, tasks[t].url, index)
            id == cache.id
<1>3. Cache(cache) /\ id = Id(list)
  <2>. HIDE DEF list
  <2>. QED  BY <1>2, Fetching, Building
<1>4. id \in DOMAIN lastGood
  <2>1. Remembered(tasks[t].lists) /\ tasks[t].at \in DOMAIN tasks[t].lists
    BY <1>1 DEF TasksTrue, Refreshing
  <2>. QED  BY <1>3, <2>1 DEF Remembered
<1>5. /\ Catalogs!save_cache(cache) /\ overtaken' = overtaken \ {id}
      /\ lastGood' = [lastGood EXCEPT ![id] = cache.candidates]
  BY <1>2
<1>. HIDE DEF cache, list
<1>6. /\ CachesOf(catalog') /\ DOMAIN catalog' = DOMAIN catalog \cup {id} /\ catalog'[id] = cache
      /\ \A k \in DOMAIN catalog : k # id => catalog'[k] = catalog[k]
  BY <1>1, <1>3, <1>5, SavingCache
<1>. HIDE DEF id
<1>7. /\ DOMAIN lastGood' = DOMAIN lastGood /\ lastGood'[id] = cache.candidates
      /\ \A k \in DOMAIN lastGood : k # id => lastGood'[k] = lastGood[k]
  BY <1>4, <1>5
<1>8. TasksTrue'
  BY <1>1, <1>6, <1>7, Going
<1>9. ListsTrue'
  BY <1>1, <1>7 DEF ListsTrue, Remembered
<1>10. CachesTrue'
  BY <1>6 DEF CachesTrue, CachesOf
<1>11. Catalogs!LastGoodKept'
  <2>. SUFFICES ASSUME NEW k \in DOMAIN lastGood' \ overtaken', lastGood'[k] # Nothing
                PROVE  k \in DOMAIN catalog' /\ catalog'[k].candidates = lastGood'[k]
    BY DEF Catalogs!LastGoodKept
  <2>1. CASE k = id
    BY <1>6, <1>7, <2>1
  <2>2. CASE k # id
    <3>1. k \in DOMAIN lastGood \ overtaken /\ lastGood[k] # Nothing
      BY <1>5, <1>7, <2>2
    <3>2. k \in DOMAIN catalog /\ catalog[k].candidates = lastGood[k]
      BY <1>1, <3>1 DEF Catalogs!LastGoodKept
    <3>. QED  BY <1>6, <1>7, <2>2, <3>1, <3>2
  <2>. QED  BY <2>1, <2>2
<1>. QED
  BY <1>8, <1>9, <1>10, <1>11 DEF CatalogInv

LEMMA FailedKeeps ==
  ASSUME CatalogInv, NEW t \in Subscribers, Catalogs!Failed(t)
  PROVE  CatalogInv'
<1>1. /\ ListsTrue /\ CachesTrue /\ TasksTrue /\ Catalogs!LastGoodKept
      /\ lists' = lists /\ lastGood' = lastGood
      /\ tasks[t].op \in {"refresh", "refresh_one"} /\ Catalogs!Goes(t)
  BY DEF CatalogInv, Catalogs!Failed
<1>2. ListsTrue'
  BY <1>1 DEF ListsTrue, Remembered
<1>3. ASSUME CachesOf(catalog') PROVE CachesTrue' /\ TasksTrue'
  <2>1. CachesTrue'
    BY <1>3 DEF CachesTrue, CachesOf
  <2>2. TasksTrue'
    BY <1>1, <1>3, Going
  <2>. QED  BY <2>1, <2>2
<1>4. CASE UNCHANGED <<catalog, overtaken>>
  <2>1. CachesOf(catalog')
    BY <1>1, <1>4 DEF CachesTrue, CachesOf
  <2>2. Catalogs!LastGoodKept'
    BY <1>1, <1>4 DEF Catalogs!LastGoodKept
  <2>. QED  BY <1>2, <1>3, <2>1, <2>2 DEF CatalogInv
<1>5. ASSUME NEW previous \in tasks[t].previous,
             Catalogs!save_cache(Catalogs!KeptCache(previous, tasks[t].at)),
             overtaken' = IF previous.candidates = lastGood[previous.id] THEN overtaken
                          ELSE overtaken \cup {previous.id}
      PROVE  CatalogInv'
  <2>. DEFINE cache == Catalogs!KeptCache(previous, tasks[t].at)
              id == cache.id
  <2>1. Cache(previous)
    BY <1>1 DEF TasksTrue, Refreshing
  <2>2. Cache(cache) /\ id = previous.id /\ cache.candidates = previous.candidates
    BY <2>1, Keeping
  <2>3. Catalogs!save_cache(cache)
    BY <1>5
  <2>. HIDE DEF cache
  <2>4. /\ CachesOf(catalog') /\ DOMAIN catalog' = DOMAIN catalog \cup {id} /\ catalog'[id] = cache
        /\ \A k \in DOMAIN catalog : k # id => catalog'[k] = catalog[k]
    BY <1>1, <2>2, <2>3, SavingCache
  <2>. HIDE DEF id
  <2>5. Catalogs!LastGoodKept'
    <3>. SUFFICES ASSUME NEW k \in DOMAIN lastGood \ overtaken', lastGood[k] # Nothing
                  PROVE  k \in DOMAIN catalog' /\ catalog'[k].candidates = lastGood[k]
      BY <1>1 DEF Catalogs!LastGoodKept
    <3>1. k \in DOMAIN catalog /\ catalog[k].candidates = lastGood[k]
      BY <1>1, <1>5 DEF Catalogs!LastGoodKept
    <3>2. CASE k = id
      <4>1. previous.candidates = lastGood[k]
        BY <1>5, <2>2, <3>2
      <4>. QED  BY <2>2, <2>4, <3>2, <4>1
    <3>3. CASE k # id
      BY <2>4, <3>1, <3>3
    <3>. QED  BY <3>2, <3>3
  <2>. QED  BY <1>2, <1>3, <2>4, <2>5 DEF CatalogInv
<1>. QED
  BY <1>4, <1>5 DEF Catalogs!Failed

\* Requests that begin with a refresh.
LEMMA RefreshKeeps ==
  ASSUME CatalogInv, NEW t \in Subscribers, Catalogs!refresh(t) \/ Catalogs!refresh_one(t)
  PROVE  CatalogInv'
<1>1. /\ ListsTrue /\ CachesTrue /\ TasksTrue /\ Catalogs!LastGoodKept
      /\ lists' = lists /\ lastGood' = lastGood /\ catalog' = catalog /\ overtaken' = overtaken
  BY DEF CatalogInv, Catalogs!refresh, Catalogs!refresh_one
<1>2. AreLists(lists) /\ Remembered(lists) /\ CachesOf(catalog)
  BY <1>1 DEF ListsTrue, CachesTrue, CachesOf
<1>3. PICK op, i : i \in DOMAIN lists /\ Catalogs!TakeList(t, op, lists, i, catalog)
  <2>1. CASE Catalogs!refresh(t)
    <3>1. Catalogs!EnabledAfter(lists, 0) # {}
          /\ Catalogs!TakeList(t, "refresh", lists, Catalogs!Least(Catalogs!EnabledAfter(lists, 0)), catalog)
      BY <2>1 DEF Catalogs!refresh
    <3>. QED  BY <1>2, <3>1, NextEnabled
  <2>2. CASE Catalogs!refresh_one(t)
    BY <2>2 DEF Catalogs!refresh_one
  <2>. QED  BY <2>1, <2>2
<1>4. TasksTrue'
  BY <1>1, <1>2, <1>3, Taking
<1>. QED
  BY <1>1, <1>4 DEF CatalogInv, ListsTrue, Remembered, CachesTrue, Catalogs!LastGoodKept

\* Installations, which leave lists and caches alone.
LEMMA InstallingKeeps ==
  ASSUME CatalogInv, NEW t \in Subscribers, Catalogs!install_source(t) \/ Catalogs!InstallEnds(t)
  PROVE  CatalogInv'
<1>1. /\ ListsTrue /\ CachesTrue /\ TasksTrue /\ Catalogs!LastGoodKept
      /\ lists' = lists /\ lastGood' = lastGood /\ catalog' = catalog /\ overtaken' = overtaken
  BY DEF CatalogInv, Catalogs!install_source, Catalogs!InstallEnds
<1>2. PICK c : \/ tasks' = [tasks EXCEPT ![t] = Catalogs!Idle]
               \/ tasks' = [tasks EXCEPT ![t] = [Catalogs!Idle EXCEPT !.op = "install", !.want = c]]
  BY DEF Catalogs!install_source, Catalogs!InstallEnds
<1>3. /\ Catalogs!Idle.op \notin {"refresh", "refresh_one"}
      /\ [Catalogs!Idle EXCEPT !.op = "install", !.want = c].op \notin {"refresh", "refresh_one"}
  BY DEF Catalogs!Idle
<1>4. TasksTrue'
  BY <1>1, <1>2, <1>3, Resting
<1>. QED
  BY <1>1, <1>4 DEF CatalogInv, ListsTrue, Remembered, CachesTrue, Catalogs!LastGoodKept

\* A list that is enabled or not, and lists in another order, are the same lists.
LEMMA SettingsKeep ==
  ASSUME CatalogInv, Catalogs!update_settings
  PROVE  CatalogInv'
<1>1. /\ ListsTrue /\ CachesTrue /\ TasksTrue /\ Catalogs!LastGoodKept
      /\ tasks' = tasks /\ lastGood' = lastGood /\ catalog' = catalog /\ overtaken' = overtaken
  BY DEF CatalogInv, Catalogs!update_settings
<1>. DEFINE n == Len(lists)
<1>2. /\ n \in Nat /\ DOMAIN lists = 1..n
      /\ \A i \in DOMAIN lists : /\ Id(lists[i]) \in DOMAIN lastGood
                                 /\ lists[i] = [type |-> lists[i].type, url |-> lists[i].url, enabled |-> lists[i].enabled]
  BY <1>1, LenProperties DEF ListsTrue, AreLists, Remembered
<1>3. ASSUME lists' \in Catalogs!Toggled PROVE ListsTrue'
  <2>1. PICK i \in DOMAIN lists : lists' = [lists EXCEPT ![i].enabled = ~@]
    BY <1>3 DEF Catalogs!Toggled
  <2>. DEFINE off == ~lists[i].enabled
              l == [type |-> lists[i].type, url |-> lists[i].url, enabled |-> off]
  <2>2. lists' = [lists EXCEPT ![i] = l]
    <3>1. lists' = [lists EXCEPT ![i] = [lists[i] EXCEPT !.enabled = off]]
      BY <2>1
    <3>2. [lists[i] EXCEPT !.enabled = off] = l
      <4>. HIDE DEF off
      <4>. QED  BY <1>2
    <3>. QED  BY <3>1, <3>2
  <2>3. l.type = lists[i].type /\ l.url = lists[i].url /\ l = [type |-> l.type, url |-> l.url, enabled |-> l.enabled]
    <3>. HIDE DEF off
    <3>. QED  OBVIOUS
  <2>. HIDE DEF l
  <2>4. DOMAIN lists' = DOMAIN lists /\ lists' = [j \in DOMAIN lists' |-> lists'[j]]
        /\ \A j \in DOMAIN lists : lists'[j] = IF j = i THEN l ELSE lists[j]
    <3>1. lists = [j \in DOMAIN lists |-> lists[j]]
      BY <1>1 DEF ListsTrue, AreLists
    <3>. QED  BY <2>2, <3>1
  <2>5. \A j \in DOMAIN lists' : lists'[j] = [type |-> lists'[j].type, url |-> lists'[j].url, enabled |-> lists'[j].enabled]
    BY <1>2, <2>3, <2>4
  <2>6. AreLists(lists')
    BY <1>1, <2>4, <2>5, Relisted DEF ListsTrue
  <2>7. \A j \in DOMAIN lists' : Id(lists'[j]) \in DOMAIN lastGood
    <3>1. Id(l) = Id(lists[i])
      BY <2>3 DEF Id, Catalogs!source_list_id, Catalogs!source_type_key, Catalogs!normalized_source_list_url
    <3>. QED  BY <1>2, <2>4, <3>1
  <2>. QED  BY <1>1, <2>6, <2>7 DEF ListsTrue, Remembered
<1>4. ASSUME lists' = Catalogs!Reverse(lists) PROVE ListsTrue'
  <2>1. lists' = [i \in 1..n |-> lists[(n - i) + 1]]
    BY <1>4, CatalogLibrary DEF Reverse
  <2>2. DOMAIN lists' = DOMAIN lists /\ lists' = [j \in DOMAIN lists' |-> lists'[j]]
    BY <1>2, <2>1
  <2>3. ASSUME NEW j \in DOMAIN lists' PROVE \E i \in DOMAIN lists : lists'[j] = lists[i]
    BY <1>2, <2>1
  <2>4. \A j \in DOMAIN lists' : /\ Id(lists'[j]) \in DOMAIN lastGood
                                 /\ lists'[j] = [type |-> lists'[j].type, url |-> lists'[j].url, enabled |-> lists'[j].enabled]
    BY <1>2, <2>3
  <2>5. AreLists(lists')
    BY <1>1, <2>2, <2>4, Relisted DEF ListsTrue
  <2>. QED  BY <1>1, <2>4, <2>5 DEF ListsTrue, Remembered
<1>5. ListsTrue'
  BY <1>3, <1>4 DEF Catalogs!update_settings
<1>. QED
  BY <1>1, <1>5 DEF CatalogInv, TasksTrue, Refreshing, Remembered, CachesTrue, Catalogs!LastGoodKept

\* Everything else leaves what the invariant is about as it was.
LEMMA CatalogRests ==
  ASSUME CatalogInv, UNCHANGED <<lists, catalog, tasks, lastGood, overtaken>>
  PROVE  CatalogInv'
BY DEF CatalogInv, ListsTrue, TasksTrue, Refreshing, Remembered, CachesTrue, Catalogs!LastGoodKept

LEMMA CatalogInit ==
  ASSUME Catalogs!Init
  PROVE  CatalogInv
<1>1. /\ lists \in Subscriptions /\ catalog = <<>> /\ tasks = [t \in Subscribers |-> Catalogs!Idle]
      /\ lastGood = [id \in {Id(lists[i]) : i \in DOMAIN lists} |-> Nothing]
  BY DEF Catalogs!Init, Id
<1>2. ListsTrue
  BY <1>1, ListsAreLists DEF ListsTrue, AreLists, Remembered
<1>3. CachesTrue
  BY <1>1 DEF CachesTrue
<1>4. TasksTrue
  BY <1>1 DEF TasksTrue, Catalogs!Idle
<1>5. Catalogs!LastGoodKept
  BY <1>1 DEF Catalogs!LastGoodKept
<1>. QED
  BY <1>2, <1>3, <1>4, <1>5 DEF CatalogInv

\* The invariant of the catalogs: caches are what lists were, and requests hold such caches
\* (source_catalog.rs).
THEOREM CatalogsInvariance == Catalogs!Spec => []CatalogInv
<1>1. Catalogs!Init => CatalogInv
  BY CatalogInit
<1>2. CatalogInv /\ [Catalogs!Next]_Catalogs!vars => CatalogInv'
  <2>. SUFFICES ASSUME CatalogInv, [Catalogs!Next]_Catalogs!vars PROVE CatalogInv'
    OBVIOUS
  <2>1. ASSUME NEW t \in Subscribers, Catalogs!refresh(t) \/ Catalogs!refresh_one(t) PROVE CatalogInv'
    BY <2>1, RefreshKeeps
  <2>2. ASSUME NEW t \in Subscribers, Catalogs!Fetched(t) PROVE CatalogInv'
    BY <2>2, FetchedKeeps
  <2>3. ASSUME NEW t \in Subscribers, Catalogs!Failed(t) PROVE CatalogInv'
    BY <2>3, FailedKeeps
  <2>4. ASSUME NEW t \in Subscribers, Catalogs!install_source(t) \/ Catalogs!InstallEnds(t) PROVE CatalogInv'
    BY <2>4, InstallingKeeps
  <2>5. CASE Catalogs!update_settings
    BY <2>5, SettingsKeep
  <2>6. CASE Catalogs!Lapse \/ (\E site \in DOMAIN published : Catalogs!Publish(site)) \/ UNCHANGED Catalogs!vars
    <3>1. UNCHANGED <<lists, catalog, tasks, lastGood, overtaken>>
      BY <2>6 DEF Catalogs!Lapse, Catalogs!Publish, Catalogs!vars
    <3>. QED  BY <3>1, CatalogRests
  <2>. QED
    BY <2>1, <2>2, <2>3, <2>4, <2>5, <2>6 DEF Catalogs!Next
<1>. QED
  BY <1>1, <1>2, PTL DEF Catalogs!Spec

\* Lists keep the last good candidates, the best are selected in the order of the settings,
\* and the preview of a removal names what would be lost (source_catalog.rs, routes.rs).
THEOREM CatalogsAreHonest == Catalogs!Spec => []CatalogsHonest
<1>1. CatalogInv => CatalogsHonest
  BY PreferenceKept, PreviewKept DEF CatalogInv, CatalogsHonest
<1>. QED
  BY <1>1, CatalogsInvariance, PTL
=============================================================================
