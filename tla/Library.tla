------------------------------- MODULE Library -------------------------------
(***************************************************************************)
(* The library and what keeps it up to date: the readers' requests, each   *)
(* one statement; the refreshes of a manga's chapters, the update check a  *)
(* request runs and the one the cron task runs, each several statements    *)
(* with awaits between them and no transaction; and the replacement of the *)
(* database file under all of them (server/src/manga/routes.rs,            *)
(* shared/src/usecases, shared/src/database.rs).                           *)
(* A unit of time is MIN_UPDATE_INTERVAL; times are kept as the time left. *)
(***************************************************************************)
EXTENDS LibraryTables

CONSTANTS Mangas, Chapters, Scanlators,
          Releases,           \* the lists a source publishes of a manga, in order
          Handlers,           \* refresh requests at a time
          Installed,          \* the sources that are installed
          SkipSources,        \* source_skip_cron
          Day,                \* 24 hours, in units
          CronEnabled, DeleteAfterRead, DeleteOnRemove,   \* settings
          Copies,             \* databases of other devices
          InitialDatabases,
          Budgets             \* bounds: how often each kind of event happens

Keys == Mangas \X Chapters
Checkers == {"manual", "cron"}
Tasks == Handlers \cup Checkers
Statuses == {"Ongoing", "Completed"}
KnownStatuses == Statuses \cup {"Unknown"}     \* "Unknown" before the first refresh
Kinds == {"reading", "library", "refreshing", "checking", "restarting", "replacing", "publishing"}
ListedChapters == [id : Chapters, number : {NULL} \cup Int, scanlator : {NULL} \cup Scanlators]

\* The rows of a table that has the rowid for its key are no two the same.
RowTable(t, rows) ==
  /\ DOMAIN t \subseteq Nat /\ IsFiniteSet(DOMAIN t)
  /\ ToSet(t) \subseteq rows /\ IsInjective(t)

Database(d) ==
  /\ DOMAIN d = DOMAIN EmptyDatabase
  /\ DOMAIN d.info \subseteq Mangas /\ \A m \in DOMAIN d.info : d.info[m] \in Int
  /\ DOMAIN d.check \subseteq Mangas /\ \A m \in DOMAIN d.check : d.check[m] \in Nat
  /\ DOMAIN d.details \subseteq Mangas
  /\ \A m \in DOMAIN d.details : d.details[m].status \in KnownStatuses
  /\ DOMAIN d.chapters \subseteq Keys /\ DOMAIN d.chapter_state \subseteq Keys
  /\ \A k \in DOMAIN d.chapter_state :
       d.chapter_state[k] \in [read : BOOLEAN, last_read : {NULL} \cup Int]
  /\ d.notifications \in Seq(Keys)
  /\ RowTable(d.library, Mangas)
  /\ RowTable(d.playlist_mangas, (DOMAIN d.playlists) \X Mangas)

ASSUME FiniteAssumption == IsFiniteSet(Mangas) /\ IsFiniteSet(Chapters)
ASSUME SourcesAssumption ==                    \* a number stands for the name of a source
  Installed \subseteq Int /\ \A m \in Mangas : SourceOf(m) \in Int
ASSUME ReleasesAssumption ==
  \A m \in Mangas : Releases[m] \in Seq(Seq(ListedChapters)) /\ Releases[m] # <<>>
ASSUME HandlersAssumption == Handlers \cap Checkers = {}
ASSUME TimesAssumption == Day \in Nat /\ Budgets \subseteq [Kinds -> Nat]
ASSUME DatabasesAssumption == \A d \in InitialDatabases \cup Copies : Database(d)

VARIABLES db,        \* the tables of the database file
          pool,      \* what the shared pool is connected to
          files,     \* the chapters with a downloaded file
          release,   \* the list a source publishes now
          task,      \* the refreshes and checks in progress
          cron,      \* the cron task
          sync,      \* hot_replace in progress
          left,      \* what is left of the bounds
          answer,    \* history: the chapters of the last refresh nothing disturbed
          told,      \* history: notifications ever made of a chapter, up to 2
          crossed    \* history: two checks of one manga overlapped, an outdated answer
                     \* removed a chapter, a source lists one again that it had dropped,
                     \* or the tables were replaced

vars == <<db, pool, files, release, task, cron, sync, left, answer, told, crossed>>

IdleTask == [pc |-> "idle", queue |-> <<>>, manga |-> NULL, status |-> "Unknown",
             old |-> {}, list |-> <<>>, ids |-> {}, alone |-> TRUE]
CronOff == [pc |-> "off", running |-> FALSE, wait |-> 0, cool |-> 0, sources |-> {}]

Init ==
  /\ db \in InitialDatabases
  /\ pool = "file"
  /\ files = {}
  /\ release = [m \in Mangas |-> 1]
  /\ task = [t \in Tasks |-> IdleTask]
  /\ cron = CronOff
  /\ sync = "idle"
  /\ left \in Budgets
  /\ answer = [m \in Mangas |-> find_cached_chapter_ids(db, m)]
  /\ told = [k \in Keys |-> 0]
  /\ crossed = FALSE

Spends(kind) == left[kind] > 0 /\ left' = [left EXCEPT ![kind] = @ - 1]

\* A statement fails while the pool is the empty one in memory: it has no tables.
Reachable == pool = "file"

ListOf(m, r) == Releases[m][r]
ListNow(m) == ListOf(m, release[m])

-----------------------------------------------------------------------------
(* Requests of the reader: one statement each                              *)

\* The time of a request, of the reader's: requests that are left are later.
Now == 10 - left.reading

Request(kind, d) ==
  /\ Spends(kind)
  /\ Reachable
  /\ db' = d
  /\ UNCHANGED <<pool, release, task, sync, answer, told, crossed>>

Quietly == UNCHANGED <<files, cron>>

\* search_mangas writes what it found through to the database.
CacheSearchResult(m) ==
  Request("library", upsert_cached_manga_information(db, [x \in {m} |-> 1])) /\ Quietly

\* The second run of the cron task finds CRON_RUNNING set and returns.
CompareExchange(c, sources) ==
  IF c.running THEN c
  ELSE [pc |-> "poll", running |-> TRUE, wait |-> 0, cool |-> 0, sources |-> sources]

AddMangaToLibrary(m) ==
  /\ Request("library", add_manga_to_library(db, m))
  /\ cron' = IF CronEnabled THEN CompareExchange(cron, Installed) ELSE cron
  /\ UNCHANGED files

RemoveMangaFromLibrary(m) ==
  /\ Request("library", remove_manga_from_library(db, m))
  /\ files' = IF DeleteOnRemove THEN files \ find_cached_chapter_ids(db, m) ELSE files
  /\ UNCHANGED cron

MarkChapterAsRead(k, value) ==
  /\ Request("reading", mark_chapter_as_read(db, k, value, Now))
  /\ files' = IF value /\ DeleteAfterRead THEN files \ {k} ELSE files
  /\ UNCHANGED cron

\* The key of a chapter in a list: its number, or its place without one.
RangeKey(d, listed, i) ==
  LET number == d.chapters[listed[i]].number IN IF number # NULL THEN number ELSE i - 1

\* Of the chapters with one key the map keeps the last; an empty range selects all.
parse_chapter_ranges(d, listed, range) ==
  LET Latest(i) == \A j \in DOMAIN listed :
                     RangeKey(d, listed, j) = RangeKey(d, listed, i) => j <= i
  IN  IF range = <<>> THEN ToSet(listed)
      ELSE {listed[i] : i \in {j \in DOMAIN listed :
              Latest(j) /\ RangeKey(d, listed, j) \in range[1]..range[2]}}

\* No chapter selected, no row: set_chapters_read_state only counts then.
MarkChaptersAsRead(m, range, value) ==
  \E listed \in find_cached_chapter_informations(db, m) :
  LET selected == parse_chapter_ranges(db, listed, range)
  IN  /\ Request("reading", set_chapters_read_state(db, selected, value))
      /\ files' = IF value /\ DeleteAfterRead THEN files \ selected ELSE files
      /\ UNCHANGED cron

UpdateLastRead(k) == Request("reading", update_last_read_chapter(db, k, Now)) /\ Quietly
SetPreferredScanlator(m, s) == Request("reading", upsert_manga_state(db, m, s)) /\ Quietly
SetViewer(m, v) == v \in (0..4) \cup {NULL} /\ Request("reading", upsert_manga_viewer(db, m, v)) /\ Quietly

CreatePlaylist(n) == Request("reading", create_playlist(db, n)) /\ Quietly
DeletePlaylist(p) == Request("reading", delete_playlist(db, p)) /\ Quietly
RenamePlaylist(p, n) == Request("reading", rename_playlist(db, p, n)) /\ Quietly
\* The foreign key refuses a playlist that is gone.
AddMangaToPlaylist(p, m) ==
  p \in DOMAIN db.playlists /\ Request("reading", add_manga_to_playlist(db, p, m)) /\ Quietly
RemoveMangaFromPlaylist(p, m) == Request("reading", remove_manga_from_playlist(db, p, m)) /\ Quietly

DeleteNotification(i) ==
  i \in DOMAIN db.notifications /\ Request("reading", delete_notification(db, i)) /\ Quietly
ClearNotifications == Request("reading", clear_notifications(db)) /\ Quietly

\* A download job stores a file of a cached chapter (ChapterStorage models it).
StoreFile(k) ==
  /\ k \in DOMAIN db.chapters
  /\ files' = files \cup {k}
  /\ Request("reading", db)
  /\ UNCHANGED cron

\* The files the clean-up offers: those of chapters without a row, or of read ones.
find_orphan_or_read_files(invalid) ==
  IF invalid THEN files \ DOMAIN db.chapters ELSE {k \in files : IsRead(db, k)}

\* The reader deletes one of them (delete_file).
CleanUp(invalid) ==
  \E k \in find_orphan_or_read_files(invalid) :
    files' = files \ {k} /\ Request("reading", db) /\ UNCHANGED cron

UserStep ==
  \/ \E m \in Mangas :
       \/ CacheSearchResult(m) \/ AddMangaToLibrary(m) \/ RemoveMangaFromLibrary(m)
       \/ \E value \in BOOLEAN, range \in {<<>>, <<1, 1>>} : MarkChaptersAsRead(m, range, value)
       \/ \E s \in Scanlators \cup {NULL} : SetPreferredScanlator(m, s)
       \/ \E v \in {1, 5, NULL} : SetViewer(m, v)
       \/ \E p \in DOMAIN db.playlists : AddMangaToPlaylist(p, m) \/ RemoveMangaFromPlaylist(p, m)
  \/ \E k \in Keys :
       \/ \E value \in BOOLEAN : MarkChapterAsRead(k, value)
       \/ UpdateLastRead(k) \/ StoreFile(k)
  \/ CreatePlaylist("a")
  \/ \E p \in DOMAIN db.playlists : DeletePlaylist(p) \/ RenamePlaylist(p, "b")
  \/ \E i \in DOMAIN db.notifications : DeleteNotification(i)
  \/ ClearNotifications
  \/ \E invalid \in BOOLEAN : CleanUp(invalid)

-----------------------------------------------------------------------------
(* Refreshes.  A request refreshes one manga; a check refreshes the ones   *)
(* of its queue, and both write the chapters in the same three statements. *)

Step(t, record) == task' = [task EXCEPT ![t] = record]
Around == UNCHANGED <<pool, files, release, cron, sync>>
Elsewhere == Around /\ UNCHANGED left
Untold == UNCHANGED <<told, crossed>>

\* A request is over; a check goes to its next manga.
Done(t) == IF t \in Handlers THEN IdleTask
           ELSE [IdleTask EXCEPT !.pc = "next", !.queue = task[t].queue]

Fails(t) == Step(t, Done(t)) /\ UNCHANGED <<db, answer, told, crossed>> /\ Elsewhere

StartRefresh(t, m) ==
  /\ t \in Handlers /\ task[t].pc = "idle" /\ SourceOf(m) \in Installed
  /\ Spends("refreshing")
  /\ Step(t, [IdleTask EXCEPT !.pc = "fetch", !.manga = m])
  /\ UNCHANGED <<db, answer>> /\ Untold /\ Around

\* The source answers with its list of now, or the call fails or times out.
Fetch(t) ==
  /\ task[t].pc = "fetch"
  /\ \/ /\ Step(t, [task[t] EXCEPT !.pc = "ids", !.list = ListNow(task[t].manga)])
        /\ UNCHANGED <<db, answer>> /\ Untold /\ Elsewhere
     \/ Fails(t)

ReadIds(t) ==
  /\ task[t].pc = "ids"
  /\ IF Reachable
     THEN /\ Step(t, [task[t] EXCEPT !.pc = "delete", !.alone = TRUE,
                                     !.ids = find_cached_chapter_ids(db, task[t].manga)])
          /\ UNCHANGED <<db, answer>> /\ Untold /\ Elsewhere
     ELSE Fails(t)

\* History: the others that refresh this manga are no longer alone.
Disturbed(t, record) ==
  task' = [u \in Tasks |-> IF u = t THEN record
                           ELSE IF task[u].manga = task[t].manga THEN [task[u] EXCEPT !.alone = FALSE]
                           ELSE task[u]]

FaultRemovesAll(t) == task[t].ids        \* fault: delete everything, then insert
Removed(t) == task[t].ids \ ListedKeys(task[t].manga, task[t].list)

DeleteRemoved(t) ==
  LET removed == Removed(t)
  IN  /\ task[t].pc = "delete"
      /\ IF Reachable
         THEN /\ db' = DeleteChapters(db, removed)
              /\ Disturbed(t, [task[t] EXCEPT !.pc = "insert"])
              /\ answer' = [answer EXCEPT ![task[t].manga] = IF removed = {} THEN @ ELSE NULL]
              /\ crossed' = (crossed \/ removed \cap ListedKeys(task[t].manga, ListNow(task[t].manga)) # {})
              /\ UNCHANGED told /\ Elsewhere
         ELSE Fails(t)

InsertFetched(t) ==
  LET m == task[t].manga
  IN  /\ task[t].pc = "insert"
      /\ IF Reachable
         THEN /\ db' = InsertChapters(db, m, task[t].list)
              /\ Disturbed(t, IF t \in Handlers THEN IdleTask ELSE [task[t] EXCEPT !.pc = "schedule"])
              /\ answer' = [answer EXCEPT ![m] = IF task[t].alone THEN ListedKeys(m, task[t].list) ELSE NULL]
              /\ Untold /\ Elsewhere
         ELSE Fails(t)

\* The client goes away and the request is dropped where it waits.
DropRequest(t) == t \in Handlers /\ task[t].pc # "idle" /\ Fails(t)

-----------------------------------------------------------------------------
(* check_mangas_update and check_manga_update                              *)

\* The request keeps the chapter storage and the source manager: one at a time.
StartManualCheck ==
  /\ task["manual"].pc = "idle" /\ Reachable
  /\ Spends("checking")
  /\ \E q \in get_manga_library_and_status(db) :
       Step("manual", [IdleTask EXCEPT !.pc = "next", !.queue = q])
  /\ UNCHANGED <<db, answer>> /\ Untold /\ Around

FaultSeesNoSource(t) == IF t = "cron" THEN {} ELSE Installed   \* fault: copied too early
SourcesSeenBy(t) == IF t = "cron" THEN cron.sources ELSE Installed

\* The head of the queue: completed, of a source that is missing, or to be refreshed.
NextManga(t) ==
  LET m == Head(task[t].queue)[1]
      status == Head(task[t].queue)[2]
      rest == [IdleTask EXCEPT !.pc = "next", !.queue = Tail(task[t].queue)]
  IN  /\ task[t].pc = "next" /\ task[t].queue # <<>>
      /\ db' = IF status = "Completed" /\ Reachable THEN delete_last_check_update_manga(db, m) ELSE db
      /\ Step(t, IF status = "Completed" \/ SourceOf(m) \notin SourcesSeenBy(t) THEN rest
                 ELSE [rest EXCEPT !.pc = "details", !.manga = m])
      /\ UNCHANGED answer /\ Untold /\ Elsewhere

EndManualCheck ==
  /\ task["manual"].pc = "next" /\ task["manual"].queue = <<>>
  /\ Step("manual", IdleTask)
  /\ UNCHANGED <<db, answer>> /\ Untold /\ Elsewhere

\* The poster may fail after the details are stored.
RefreshDetails(t) ==
  /\ task[t].pc = "details"
  /\ \/ Fails(t)
     \/ \E status \in Statuses, poster \in BOOLEAN :
          /\ Reachable
          /\ db' = upsert_cached_manga_details(db, task[t].manga, [status |-> status, viewer |-> 0])
          /\ Step(t, IF poster THEN [task[t] EXCEPT !.status = status,
                               !.pc = IF status = "Completed" THEN "completed" ELSE "old"]
                     ELSE Done(t))
          /\ UNCHANGED answer /\ Untold /\ Elsewhere

ForgetCompleted(t) ==
  /\ task[t].pc = "completed"
  /\ IF Reachable
     THEN /\ db' = delete_last_check_update_manga(db, task[t].manga)
          /\ Step(t, [task[t] EXCEPT !.pc = "old"])
          /\ UNCHANGED answer /\ Untold /\ Elsewhere
     ELSE Fails(t)

\* What was cached before the refresh; two checks may both be past this step.
ReadOld(t) ==
  /\ task[t].pc = "old"
  /\ IF Reachable
     THEN /\ Step(t, [task[t] EXCEPT !.pc = "fetch", !.old = find_cached_chapter_ids(db, task[t].manga)])
          /\ crossed' = (crossed \/ \E u \in Checkers \ {t} : task[u].manga = task[t].manga)
          /\ UNCHANGED <<db, answer, told>> /\ Elsewhere
     ELSE Fails(t)

compute_new_chapters(old, m, list) == ListedKeys(m, list) \ old

FaultAddedAll(t) == ListedKeys(task[t].manga, task[t].list)   \* fault: compares with nothing
Added(t) == IF task[t].old = {} THEN {}
            ELSE compute_new_chapters(task[t].old, task[t].manga, task[t].list)

\* The forecast, or a day; in the past only when it starts from an older check.
NextCheck(t) == IF Added(t) = {} THEN {1, Day} ELSE {0, 1, Day}

Schedule(t) ==
  /\ task[t].pc = "schedule"
  /\ IF Reachable
     THEN /\ \/ /\ task[t].status # "Completed"
                /\ \E next \in NextCheck(t) : db' = set_last_check_update_manga(db, task[t].manga, next)
             \/ task[t].status = "Completed" /\ db' = db
          /\ Step(t, [task[t] EXCEPT !.pc = "notify"])
          /\ UNCHANGED answer /\ Untold /\ Elsewhere
     ELSE Fails(t)

\* An error here is dropped.
Notify(t) ==
  /\ task[t].pc = "notify"
  /\ IF Reachable
     THEN /\ db' = insert_notification(db, Added(t))
          /\ told' = [k \in Keys |-> IF k \in Added(t) THEN Min({told[k] + 1, 2}) ELSE told[k]]
     ELSE UNCHANGED <<db, told>>
  /\ Step(t, Done(t))
  /\ UNCHANGED <<answer, crossed>> /\ Elsewhere

-----------------------------------------------------------------------------
(* run_manga_cron                                                          *)

CronStep(c) ==
  /\ cron' = c
  /\ UNCHANGED <<db, pool, files, release, sync, left, answer, told, crossed>>

FaultCronKeepsFlag == CronStep([CronOff EXCEPT !.running = TRUE]) /\ UNCHANGED task  \* fault: no store
CronStops == CronStep(CronOff) /\ UNCHANGED task

\* The time to the next manga, and no sooner than a unit after the last run.
Sleep(next) == [cron EXCEPT !.pc = "sleep", !.wait = Max({next, cron.cool})]

CronPoll ==
  LET next == get_next_ts_arima_min(db, SkipSources)
  IN  /\ cron.pc = "poll"
      /\ IF ~Reachable THEN CronStops
         ELSE IF next # NULL THEN CronStep(Sleep(next)) /\ UNCHANGED task
         ELSE /\ CronStep([cron EXCEPT !.pc = "sweep"])
              /\ \E q \in get_manga_library_and_status(db) :
                   Step("cron", [IdleTask EXCEPT !.pc = "next", !.queue = q])

\* Nothing is scheduled: three hours, and from the top.
FaultBreaks == CronOff                   \* fault: break instead of continue
Doze == [cron EXCEPT !.pc = "doze", !.wait = 1]

CronRepoll ==
  LET next == get_next_ts_arima_min(db, SkipSources)
  IN  /\ cron.pc = "sweep" /\ task["cron"].pc = "next" /\ task["cron"].queue = <<>>
      /\ IF ~Reachable THEN CronStep(CronOff)
         ELSE IF next # NULL THEN CronStep(Sleep(next))
         ELSE CronStep(Doze)
      /\ Step("cron", IdleTask)

CronDozes == cron.pc = "doze" /\ cron.wait = 0 /\ CronStep([cron EXCEPT !.pc = "poll"]) /\ UNCHANGED task

CronDue ==
  /\ cron.pc = "sleep" /\ cron.wait = 0
  /\ IF ~Reachable THEN CronStops
     ELSE \E s \in SetToSeqs({d \in get_due_mangas(db) : SourceOf(d[1]) \notin SkipSources}) :
            /\ CronStep([cron EXCEPT !.pc = "batch", !.cool = 1])
            /\ Step("cron", [IdleTask EXCEPT !.pc = "next", !.queue = s])

CronBatchEnds ==
  /\ cron.pc = "batch" /\ task["cron"].pc = "next" /\ task["cron"].queue = <<>>
  /\ CronStep([cron EXCEPT !.pc = "poll"])
  /\ Step("cron", IdleTask)

-----------------------------------------------------------------------------
(* What happens around it                                                  *)

\* The chapters of a list that an earlier one had and the list before it had not.
Returning(m, r) ==
  {k \in ListedKeys(m, ListOf(m, r)) \ ListedKeys(m, ListOf(m, r - 1)) :
     \E q \in 1..(r - 1) : k \in ListedKeys(m, ListOf(m, q))}

Publish(m) ==
  /\ release[m] < Len(Releases[m]) /\ Spends("publishing")
  /\ release' = [release EXCEPT ![m] = @ + 1]
  /\ crossed' = (crossed \/ Returning(m, release[m] + 1) # {})
  /\ UNCHANGED <<db, pool, files, task, cron, sync, answer, told>>

\* A unit of time; a check takes less than one.
Tick ==
  /\ \A t \in Checkers : task[t].pc = "idle"
  /\ cron.pc \in {"off", "sleep", "doze"} /\ ~(cron.pc # "off" /\ cron.wait = 0)
  /\ LET Less(n) == IF n = 0 THEN 0 ELSE n - 1
     IN  /\ db' = [db EXCEPT !.check = [m \in DOMAIN @ |-> Less(@[m])]]
         /\ cron' = [cron EXCEPT !.wait = Less(@), !.cool = Less(@)]
  /\ UNCHANGED <<pool, files, release, task, sync, left, answer, told, crossed>>

\* hot_replace puts the pool in memory in place and lets go of the lock ...
TakePool ==
  /\ sync = "idle" /\ sync' = "replacing"
  /\ Spends("replacing")
  /\ pool' = "memory"
  /\ UNCHANGED <<db, files, release, task, cron, answer, told, crossed>>

\* ... until the new file is open; a failure leaves the file and the pool in memory.
InstallPool ==
  /\ sync = "replacing" /\ sync' = "idle"
  /\ \/ pool' = "file" /\ db' \in Copies
     \/ UNCHANGED <<pool, db>>
  /\ answer' = IF db' = db THEN answer ELSE [m \in Mangas |-> NULL]
  /\ task' = IF db' = db THEN task ELSE [t \in Tasks |-> [task[t] EXCEPT !.alone = FALSE]]
  /\ crossed' = (crossed \/ db' # db)
  /\ UNCHANGED <<files, release, cron, left, told>>

Restart ==
  /\ Spends("restarting")
  /\ pool' = "file" /\ sync' = "idle"
  /\ task' = [t \in Tasks |-> IdleTask]
  \* app.rs copies the source manager for the cron task before it loads the sources.
  /\ cron' = IF CronEnabled THEN CompareExchange(CronOff, {}) ELSE CronOff
  /\ UNCHANGED <<db, files, release, answer, told, crossed>>

TaskStep(t) ==
  \/ Fetch(t) \/ ReadIds(t) \/ DeleteRemoved(t) \/ InsertFetched(t)
  \/ NextManga(t) \/ RefreshDetails(t) \/ ForgetCompleted(t) \/ ReadOld(t)
  \/ Schedule(t) \/ Notify(t)

CronProceeds == CronPoll \/ CronRepoll \/ CronDozes \/ CronDue \/ CronBatchEnds

Next ==
  \/ UserStep
  \/ \E t \in Handlers, m \in Mangas : StartRefresh(t, m)
  \/ \E t \in Tasks : TaskStep(t) \/ DropRequest(t)
  \/ StartManualCheck \/ EndManualCheck
  \/ CronProceeds
  \/ \E m \in Mangas : Publish(m)
  \/ Tick \/ TakePool \/ InstallPool \/ Restart

Spec == Init /\ [][Next]_vars

Fairness ==
  /\ WF_vars(Tick) /\ WF_vars(CronProceeds)
  /\ \A t \in Tasks : WF_vars(TaskStep(t))
  /\ WF_vars(EndManualCheck)
FairSpec == Spec /\ Fairness

-----------------------------------------------------------------------------
\* Where a refresh or a check is busy with a manga.
AtManga == {"details", "completed", "old", "fetch", "ids", "delete", "insert", "schedule", "notify"}

TypeOK ==
  /\ Database(db)
  /\ pool \in {"file", "memory"} /\ sync \in {"idle", "replacing"}
  /\ files \subseteq Keys
  /\ release \in [Mangas -> Nat]
  /\ task \in [Tasks -> [pc : {"idle", "next"} \cup AtManga, queue : Seq(Mangas \X KnownStatuses),
                         manga : {NULL} \cup Mangas, status : KnownStatuses, old : SUBSET Keys,
                         list : Seq(ListedChapters), ids : SUBSET Keys, alone : BOOLEAN]]
  /\ \A t \in Tasks : task[t].pc \in AtManga => task[t].manga \in Mangas
  /\ cron \in [pc : {"off", "poll", "sweep", "doze", "sleep", "batch"}, running : BOOLEAN,
               wait : Nat, cool : Nat, sources : SUBSET Int]
  /\ cron.running = (cron.pc # "off")
  /\ left \in [Kinds -> Nat]
  /\ answer \in [Mangas -> {NULL} \cup SUBSET Keys]
  /\ told \in [Keys -> 0..2] /\ crossed \in BOOLEAN

\* A listing shows what the table and the counting of a marking say.
Agrees(s, table) ==
  /\ {s[i].manga : i \in DOMAIN s} = ToSet(table) \cap DOMAIN db.info
  /\ \A i, j \in DOMAIN s : s[i].manga = s[j].manga => i = j
  /\ \A i \in DOMAIN s :
       LET count == count_unread_chapters(db, s[i].manga)
       IN  (s[i].unread = 0 \/ s[i].unread = count) /\ count \in {NULL, s[i].unread}

AllAgree(listings, table) == listings # {} /\ \A s \in listings : Agrees(s, table)

\* The number of unread chapters is written as SQL twenty times for the listings and
\* once for the answer to a marking: every listing shows each manga of its table that
\* has cached information exactly once, with the number the marking would answer.
ListingsAgree ==
  \A mode \in SortingModes :
    /\ AllAgree(get_manga_library_with_read_count(db, mode), db.library)
    /\ \A p \in DOMAIN db.playlists :
         AllAgree(get_manga_library_in_playlist_with_read_count(db, p, mode), PlaylistTable(db, p))

\* Between the statement that deletes and the one that inserts, and whatever other
\* refreshes do meanwhile, a cached chapter that the source has always listed keeps
\* its row: nothing shows it as missing or offers its file to the clean-up.
KnownChaptersStay ==
  [][sync = sync' =>
       \A k \in DOMAIN db.chapters :
         (\A r \in DOMAIN Releases[k[1]] : k \in ListedKeys(k[1], ListOf(k[1], r)))
         => k \in DOMAIN db'.chapters]_vars

\* After a refresh that no other disturbed, the cached chapters are exactly those of its
\* answer, not a mixture with what was cached before.
CacheIsOneAnswer ==
  \A m \in Mangas : answer[m] # NULL => find_cached_chapter_ids(db, m) = answer[m]

\* A new chapter is announced once, however the two checks, the refreshes, failures and
\* restarts follow each other, unless two checks of the manga overlap, an outdated answer
\* has removed it in between, or the source itself drops a chapter and lists it again.
AnnouncedOnce == ~crossed => \A k \in Keys : told[k] <= 1

\* Only a database that is being replaced stops the cron task: failed calls, missing
\* sources and completed manga do not, nor does a library with nothing to check.
CronOutlivesErrors ==
  [][cron.pc # "off" /\ cron'.pc = "off" => pool = "memory" \/ left'.restarting # left.restarting]_vars

Due(m) == m \in DOMAIN db.check /\ db.check[m] = 0 /\ SourceOf(m) \in Installed \ SkipSources
Attempted(m) == task["cron"].manga = m \/ cron.pc = "off" \/ ~Due(m)

\* A cron task that knows the installed sources comes to every manga that is due.
DueGetsChecked == \A m \in Mangas : (Due(m) /\ cron.sources = Installed) ~> Attempted(m)

\* Settings.lua: the setting `enabled_cron_check_mangas_update' enables the check, also
\* in a process that starts with it.
CronChecksDue == \A m \in Mangas : (Due(m) /\ cron.running) ~> Attempted(m)
=============================================================================
