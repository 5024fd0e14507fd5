--------------------------- MODULE LibraryProofs ---------------------------
(***************************************************************************)
(* Proofs about Library, for any manga, sources, lists and databases.      *)
(***************************************************************************)
EXTENDS Library, OrderLemmas

-----------------------------------------------------------------------------
(* Tables.                                                                  *)

LEMMA KeysFinite == IsFiniteSet(Keys)
BY FiniteAssumption, FS_Product DEF Keys

LEMMA RowAppended ==
  ASSUME NEW rows, NEW t, RowTable(t, rows), NEW x \in rows
  PROVE  RowTable(Appended(t, x), rows)
<1> DEFINE n == MaxOr(DOMAIN t, 0) + 1
<1>1. DOMAIN t \subseteq Nat /\ IsFiniteSet(DOMAIN t) /\ ToSet(t) \subseteq rows /\ IsInjective(t)
  BY DEF RowTable
<1>2. n \in Nat /\ \A i \in DOMAIN t : i # n
  <2>1. CASE DOMAIN t = {}  BY <2>1 DEF MaxOr
  <2>2. CASE DOMAIN t # {}
    <3>1. DOMAIN t \in SUBSET Int  BY <1>1
    <3>2. Max(DOMAIN t) \in DOMAIN t /\ \A y \in DOMAIN t : Max(DOMAIN t) >= y
      BY <1>1, <2>2, <3>1, MaxOfSet
    <3>3. n = Max(DOMAIN t) + 1  BY <2>2 DEF MaxOr
    <3> HIDE DEF n
    <3> QED  BY <1>1, <3>2, <3>3
  <2> QED  BY <2>1, <2>2
<1>3. CASE x \in ToSet(t)  BY <1>3 DEF Appended
<1>4. CASE x \notin ToSet(t)
  <2> DEFINE u == Upsert(t, n, x)
  <2>1. Appended(t, x) = u  BY <1>4 DEF Appended
  <2> HIDE DEF n
  <2>2. DOMAIN u = (DOMAIN t) \cup {n} /\ u[n] = x /\ \A i \in DOMAIN t : u[i] = t[i]
    BY <1>2 DEF Upsert
  <2>3. IsFiniteSet(DOMAIN u)  BY <1>1, <2>2, FS_AddElement
  <2>4. IsInjective(u)  BY <1>1, <1>4, <2>2 DEF IsInjective, ToSet
  <2>5. ToSet(u) \subseteq rows  BY <1>1, <2>2 DEF ToSet
  <2>6. DOMAIN u \subseteq Nat  BY <1>1, <1>2, <2>2
  <2> QED  BY <2>1, <2>3, <2>4, <2>5, <2>6 DEF RowTable
<1> QED  BY <1>3, <1>4

LEMMA RowDeleted ==
  ASSUME NEW rows, NEW t, RowTable(t, rows), NEW K
  PROVE  RowTable(Delete(t, K), rows)
<1>1. DOMAIN Delete(t, K) = (DOMAIN t) \ K /\ \A i \in (DOMAIN t) \ K : Delete(t, K)[i] = t[i]
  BY DEF Delete
<1>2. IsFiniteSet(DOMAIN Delete(t, K))  BY <1>1, FS_Subset DEF RowTable
<1>3. IsInjective(Delete(t, K))  BY <1>1 DEF IsInjective, RowTable
<1>4. ToSet(Delete(t, K)) \subseteq rows  BY <1>1 DEF ToSet, RowTable
<1> QED  BY <1>1, <1>2, <1>3, <1>4 DEF RowTable

LEMMA TablesAre ==
  DOMAIN EmptyDatabase = {"info", "chapters", "library", "chapter_state", "manga_state", "details",
                          "check", "notifications", "playlists", "playlist_mangas",
                          "next_playlist", "tracking"}
BY DEF EmptyDatabase

LEMMA CachedIds ==
  ASSUME NEW d, Database(d), NEW m
  PROVE  find_cached_chapter_ids(d, m) \in SUBSET Keys /\ IsFiniteSet(find_cached_chapter_ids(d, m))
<1>1. find_cached_chapter_ids(d, m) \in SUBSET Keys  BY DEF find_cached_chapter_ids, Database
<1> QED  BY <1>1, KeysFinite, FS_Subset

-----------------------------------------------------------------------------
(* The statements of one table.  All but three leave the chapters alone.    *)

Calmly(d, e) == Database(e) /\ e.chapters = d.chapters

LEMMA InfoCalm ==
  ASSUME NEW d, Database(d), NEW m \in Mangas
  PROVE  Calmly(d, upsert_cached_manga_information(d, [x \in {m} |-> 1]))
<1> DEFINE e == upsert_cached_manga_information(d, [x \in {m} |-> 1])
           t == [x \in (DOMAIN d.info) \cup {m} |-> IF x \in {m} THEN 1 ELSE d.info[x]]
<1>1. e = [d EXCEPT !.info = t]
  BY DEF upsert_cached_manga_information
<1>2. DOMAIN t \subseteq Mangas /\ \A x \in DOMAIN t : t[x] \in Int  BY DEF Database
<1> HIDE DEF e, t
<1>3. Database([d EXCEPT !.info = t])  BY <1>2, TablesAre DEF Database
<1>4. [d EXCEPT !.info = t].chapters = d.chapters  BY TablesAre DEF Database
<1> QED  BY <1>1, <1>3, <1>4 DEF Calmly, e

LEMMA LibraryCalm ==
  ASSUME NEW d, Database(d), NEW m \in Mangas
  PROVE  Calmly(d, add_manga_to_library(d, m)) /\ Calmly(d, remove_manga_from_library(d, m))
<1>1. RowTable(Appended(d.library, m), Mangas)  BY RowAppended DEF Database
<1>2. RowTable(DeleteRows(d.library, m), Mangas)  BY RowDeleted DEF Database, DeleteRows
<1>3. Calmly(d, add_manga_to_library(d, m))
  BY <1>1, TablesAre DEF Database, Calmly, add_manga_to_library
<1>4. Calmly(d, remove_manga_from_library(d, m))
  BY <1>2, TablesAre DEF Database, Calmly, remove_manga_from_library
<1> QED  BY <1>3, <1>4

StateRows == [read : BOOLEAN, last_read : {NULL} \cup Int]

LEMMA StatesCalm ==
  ASSUME NEW d, Database(d), NEW t, DOMAIN t \subseteq Keys, \A k \in DOMAIN t : t[k] \in StateRows
  PROVE  Calmly(d, [d EXCEPT !.chapter_state = t])
BY TablesAre DEF Database, Calmly, StateRows

LEMMA ReadingCalm ==
  ASSUME NEW d, Database(d), NEW k \in Keys, NEW value \in BOOLEAN, NEW now \in Int
  PROVE  /\ Calmly(d, mark_chapter_as_read(d, k, value, now))
         /\ Calmly(d, update_last_read_chapter(d, k, now))
<1> DEFINE Row(r, l) == [read |-> r, last_read |-> l]
           Table(row) == Upsert(d.chapter_state, k, row)
<1>1. \A row \in StateRows : DOMAIN Table(row) \subseteq Keys
                              /\ \A x \in DOMAIN Table(row) : Table(row)[x] \in StateRows
  BY DEF Upsert, Database, StateRows
<1>2. Row(value, IF value THEN now ELSE NULL) \in StateRows  BY DEF StateRows
<1>3. Row(IsRead(d, k), now) \in StateRows
  <2>1. IsRead(d, k) \in BOOLEAN  BY DEF IsRead, Database
  <2> QED  BY <2>1 DEF StateRows
<1> HIDE DEF Row
<1>4. Calmly(d, [d EXCEPT !.chapter_state = Table(Row(value, IF value THEN now ELSE NULL))])
  <2> HIDE DEF Table
  <2> QED  BY <1>1, <1>2, StatesCalm
<1>5. Calmly(d, [d EXCEPT !.chapter_state = Table(Row(IsRead(d, k), now))])
  <2> HIDE DEF Table
  <2> QED  BY <1>1, <1>3, StatesCalm
<1>6. mark_chapter_as_read(d, k, value, now)
        = [d EXCEPT !.chapter_state = Table(Row(value, IF value THEN now ELSE NULL))]
  BY DEF mark_chapter_as_read, Row
<1>7. update_last_read_chapter(d, k, now) = [d EXCEPT !.chapter_state = Table(Row(IsRead(d, k), now))]
  BY DEF update_last_read_chapter, Row
<1> QED  BY <1>4, <1>5, <1>6, <1>7

LEMMA MarkingCalm ==
  ASSUME NEW d, Database(d), NEW keys \in SUBSET Keys, NEW value \in BOOLEAN
  PROVE  Calmly(d, set_chapters_read_state(d, keys, value))
<1> DEFINE t == [k \in (DOMAIN d.chapter_state) \cup keys |->
                   IF k \notin keys THEN d.chapter_state[k]
                   ELSE [read |-> value, last_read |-> IF value THEN LastRead(d, k) ELSE NULL]]
<1>1. \A k \in Keys : LastRead(d, k) \in {NULL} \cup Int  BY DEF LastRead, Value, Database
<1>2. DOMAIN t \subseteq Keys  BY DEF Database
<1>3. ASSUME NEW k \in DOMAIN t PROVE t[k] \in StateRows
  <2>1. CASE k \in keys
    <3>1. t[k] = [read |-> value, last_read |-> IF value THEN LastRead(d, k) ELSE NULL]  BY <2>1
    <3> QED  BY <1>1, <2>1, <3>1 DEF StateRows
  <2>2. CASE k \notin keys  BY <2>2 DEF Database, StateRows
  <2> QED  BY <2>1, <2>2
<1>4. set_chapters_read_state(d, keys, value) = [d EXCEPT !.chapter_state = t]
  BY DEF set_chapters_read_state
<1> HIDE DEF t
<1> QED  BY <1>2, <1>3, <1>4, StatesCalm

LEMMA MangaStateCalm ==
  ASSUME NEW d, Database(d), NEW m, NEW v
  PROVE  Calmly(d, upsert_manga_state(d, m, v)) /\ Calmly(d, upsert_manga_viewer(d, m, v))
<1>1. \A t : Calmly(d, [d EXCEPT !.manga_state = t])  BY TablesAre DEF Database, Calmly
<1> QED  BY <1>1 DEF upsert_manga_state, upsert_manga_viewer

LEMMA PlaylistCalm ==
  ASSUME NEW d, Database(d), NEW p \in DOMAIN d.playlists, NEW n
  PROVE  Calmly(d, delete_playlist(d, p)) /\ Calmly(d, rename_playlist(d, p, n))
<1> DEFINE kept == Delete(d.playlists, {p})
           rows == Delete(d.playlist_mangas, {i \in DOMAIN d.playlist_mangas : d.playlist_mangas[i][1] = p})
           renamed == [q \in DOMAIN d.playlists |-> IF q = p THEN n ELSE d.playlists[q]]
<1>1. RowTable(d.playlist_mangas, (DOMAIN d.playlists) \X Mangas)  BY DEF Database
<1>2. RowTable(rows, (DOMAIN kept) \X Mangas)
  <2>1. RowTable(rows, (DOMAIN d.playlists) \X Mangas)  BY <1>1, RowDeleted
  <2>2. \A i \in DOMAIN rows : rows[i] \in (DOMAIN d.playlists) \X Mangas /\ rows[i][1] # p
    BY <1>1 DEF RowTable, ToSet, Delete
  <2>3. DOMAIN kept = (DOMAIN d.playlists) \ {p}  BY DEF Delete
  <2> HIDE DEF kept, rows
  <2>4. \A i \in DOMAIN rows : rows[i] \in (DOMAIN kept) \X Mangas  BY <2>2, <2>3
  <2>5. ToSet(rows) \subseteq (DOMAIN kept) \X Mangas  BY <2>4 DEF ToSet
  <2> QED  BY <2>1, <2>5 DEF RowTable
<1>3. RowTable(d.playlist_mangas, (DOMAIN renamed) \X Mangas)  BY <1>1
<1>4. delete_playlist(d, p) = [d EXCEPT !.playlists = kept, !.playlist_mangas = rows]
  BY TablesAre DEF delete_playlist, Database
<1>5. rename_playlist(d, p, n) = [d EXCEPT !.playlists = renamed]  BY DEF rename_playlist
<1> HIDE DEF kept, rows, renamed
<1>6. Calmly(d, [d EXCEPT !.playlists = kept, !.playlist_mangas = rows])
  BY <1>2, TablesAre DEF Calmly, Database
<1>7. Calmly(d, [d EXCEPT !.playlists = renamed])  BY <1>3, TablesAre DEF Calmly, Database
<1> QED  BY <1>4, <1>5, <1>6, <1>7

LEMMA NewPlaylistCalm ==
  ASSUME NEW d, Database(d), NEW n
  PROVE  Calmly(d, create_playlist(d, n))
<1> DEFINE t == Upsert(d.playlists, d.next_playlist, n)
           next == d.next_playlist + 1
<1>1. RowTable(d.playlist_mangas, (DOMAIN t) \X Mangas)
  <2>1. (DOMAIN d.playlists) \X Mangas \subseteq (DOMAIN t) \X Mangas  BY DEF Upsert
  <2> QED  BY <2>1 DEF Database, RowTable
<1>2. create_playlist(d, n) = [d EXCEPT !.playlists = t, !.next_playlist = next]
  BY TablesAre DEF create_playlist, Database
<1> HIDE DEF t, next
<1>3. Calmly(d, [d EXCEPT !.playlists = t, !.next_playlist = next])
  BY <1>1, TablesAre DEF Calmly, Database
<1> QED  BY <1>2, <1>3

LEMMA PlaylistRowsCalm ==
  ASSUME NEW d, Database(d), NEW p \in DOMAIN d.playlists, NEW m \in Mangas
  PROVE  Calmly(d, add_manga_to_playlist(d, p, m)) /\ Calmly(d, remove_manga_from_playlist(d, p, m))
<1> DEFINE rows == (DOMAIN d.playlists) \X Mangas
<1>1. RowTable(d.playlist_mangas, rows) /\ <<p, m>> \in rows  BY DEF Database
<1> HIDE DEF rows
<1>2. RowTable(Appended(d.playlist_mangas, <<p, m>>), rows)  BY <1>1, RowAppended
<1>3. RowTable(DeleteRows(d.playlist_mangas, <<p, m>>), rows)  BY <1>1, RowDeleted DEF DeleteRows
<1>4. \A t : RowTable(t, rows) => Calmly(d, [d EXCEPT !.playlist_mangas = t])
  BY TablesAre DEF Calmly, Database, rows
<1> QED  BY <1>2, <1>3, <1>4 DEF add_manga_to_playlist, remove_manga_from_playlist

LEMMA NotificationsCalm ==
  ASSUME NEW d, Database(d), NEW i \in DOMAIN d.notifications
  PROVE  Calmly(d, delete_notification(d, i))
<1>1. d.notifications \in Seq(Keys)  BY DEF Database
<1>2. RemoveAt(d.notifications, i) \in Seq(Keys)
  <2> DEFINE s == d.notifications
  <2>1. i \in 1..Len(s) /\ Len(s) \in Nat  BY <1>1, LenProperties
  <2>2. \A j \in 1..Len(s) : s[j] \in Keys  BY <1>1, ElementOfSeq
  <2> HIDE DEF s
  <2>3. SubSeq(s, 1, i - 1) \in Seq(Keys)  BY <2>1, <2>2, SubSeqProperties
  <2>4. SubSeq(s, i + 1, Len(s)) \in Seq(Keys)  BY <2>1, <2>2, SubSeqProperties
  <2>5. RemoveAt(s, i) \in Seq(Keys)  BY <2>3, <2>4, ConcatProperties DEF RemoveAt
  <2> QED  BY <2>5 DEF s
<1>3. \A t \in Seq(Keys) : Calmly(d, [d EXCEPT !.notifications = t])
  BY TablesAre DEF Calmly, Database
<1> QED  BY <1>2, <1>3 DEF delete_notification

LEMMA NotifyingCalm ==
  ASSUME NEW d, Database(d), NEW keys \in SUBSET Keys
  PROVE  Calmly(d, insert_notification(d, keys)) /\ Calmly(d, clear_notifications(d))
<1>1. \A t \in Seq(Keys) : Calmly(d, [d EXCEPT !.notifications = t])
  BY TablesAre DEF Calmly, Database
<1>2. d.notifications \in Seq(Keys)  BY DEF Database
<1>3. SetToSeq(keys) \in Seq(Keys)
  <2>1. IsFiniteSet(keys)  BY KeysFinite, FS_Subset
  <2>2. Cardinality(keys) \in Nat /\ ExistsBijection(1..Cardinality(keys), keys)
    BY <2>1, FS_CardinalityType
  <2>3. \E f \in [1..Cardinality(keys) -> keys] : IsInjective(f)
    BY <2>2 DEF ExistsBijection, Bijection, Injection, IsInjective
  <2>4. SetToSeq(keys) \in [1..Cardinality(keys) -> keys]  BY <2>3 DEF SetToSeq
  <2>5. SetToSeq(keys) \in Seq(keys)  BY <2>2, <2>4, FunctionIsSeq
  <2> QED  BY <2>5, SeqMonotonic
<1>4. d.notifications \o SetToSeq(keys) \in Seq(Keys)  BY <1>2, <1>3, ConcatProperties
<1>5. <<>> \in Seq(Keys)  OBVIOUS
<1> QED  BY <1>1, <1>4, <1>5 DEF insert_notification, clear_notifications

LEMMA ChecksCalm ==
  ASSUME NEW d, Database(d), NEW m \in Mangas, NEW next \in Nat
  PROVE  /\ Calmly(d, set_last_check_update_manga(d, m, next))
         /\ Calmly(d, delete_last_check_update_manga(d, m))
<1>1. \A t : DOMAIN t \subseteq Mangas /\ (\A x \in DOMAIN t : t[x] \in Nat)
             => Calmly(d, [d EXCEPT !.check = t])
  BY TablesAre DEF Calmly, Database
<1>2. DOMAIN d.check \subseteq Mangas /\ \A x \in DOMAIN d.check : d.check[x] \in Nat  BY DEF Database
<1> DEFINE u == Upsert(d.check, m, next)
           v == Delete(d.check, {m})
<1>3. DOMAIN u \subseteq Mangas /\ (\A x \in DOMAIN u : u[x] \in Nat)  BY <1>2 DEF Upsert
<1>4. DOMAIN v \subseteq Mangas /\ (\A x \in DOMAIN v : v[x] \in Nat)  BY <1>2 DEF Delete
<1> HIDE DEF u, v
<1>5. Calmly(d, [d EXCEPT !.check = u]) /\ Calmly(d, [d EXCEPT !.check = v])  BY <1>1, <1>3, <1>4
<1> QED  BY <1>5 DEF set_last_check_update_manga, delete_last_check_update_manga, u, v

Less(n) == IF n = 0 THEN 0 ELSE n - 1

LEMMA TimePassesCalm ==
  ASSUME NEW d, Database(d)
  PROVE  Calmly(d, [d EXCEPT !.check = [m \in DOMAIN d.check |-> Less(d.check[m])]])
<1>1. \A t : DOMAIN t \subseteq Mangas /\ (\A x \in DOMAIN t : t[x] \in Nat)
             => Calmly(d, [d EXCEPT !.check = t])
  BY TablesAre DEF Calmly, Database
<1>2. DOMAIN d.check \subseteq Mangas /\ \A x \in DOMAIN d.check : d.check[x] \in Nat  BY DEF Database
<1> DEFINE u == [m \in DOMAIN d.check |-> Less(d.check[m])]
<1>3. DOMAIN u \subseteq Mangas /\ (\A x \in DOMAIN u : u[x] \in Nat)  BY <1>2 DEF Less
<1>4. SUFFICES Calmly(d, [d EXCEPT !.check = u])  OBVIOUS
<1> HIDE DEF u
<1> QED  BY <1>1, <1>3

LEMMA DetailsCalm ==
  ASSUME NEW d, Database(d), NEW m \in Mangas, NEW status \in KnownStatuses
  PROVE  Calmly(d, upsert_cached_manga_details(d, m, [status |-> status, viewer |-> 0]))
<1>1. \A t : DOMAIN t \subseteq Mangas /\ (\A x \in DOMAIN t : t[x].status \in KnownStatuses)
             => Calmly(d, [d EXCEPT !.details = t])
  BY TablesAre DEF Calmly, Database
<1>2. DOMAIN d.details \subseteq Mangas /\ \A x \in DOMAIN d.details : d.details[x].status \in KnownStatuses
  BY DEF Database
<1> DEFINE u == Upsert(d.details, m, [status |-> status, viewer |-> 0])
<1>3. DOMAIN u \subseteq Mangas /\ (\A x \in DOMAIN u : u[x].status \in KnownStatuses)
  BY <1>2 DEF Upsert
<1> HIDE DEF u
<1>4. Calmly(d, [d EXCEPT !.details = u])  BY <1>1, <1>3
<1> QED  BY <1>4 DEF upsert_cached_manga_details, u

\* The three statements of a refresh.
LEMMA Deleting ==
  ASSUME NEW d, Database(d), NEW keys
  PROVE  /\ Database(DeleteChapters(d, keys))
         /\ DOMAIN DeleteChapters(d, keys).chapters = (DOMAIN d.chapters) \ keys
<1> DEFINE t == Delete(d.chapters, keys)
<1>1. DOMAIN t = (DOMAIN d.chapters) \ keys  BY DEF Delete
<1>2. DeleteChapters(d, keys) = [d EXCEPT !.chapters = t]  BY DEF DeleteChapters
<1> HIDE DEF t
<1> QED  BY <1>1, <1>2, TablesAre DEF Database

Lists == Seq(ListedChapters)

LEMMA ListedTypes ==
  ASSUME NEW m \in Mangas, NEW list \in Lists
  PROVE  /\ ListedKeys(m, list) \in SUBSET Keys
         /\ \A k \in ListedKeys(m, list) : k[1] = m
<1>1. \A i \in DOMAIN list : list[i].id \in Chapters
  <2> TAKE i \in DOMAIN list
  <2>1. list[i] \in ListedChapters  BY LenProperties, ElementOfSeq DEF Lists
  <2> QED  BY <2>1 DEF ListedChapters
<1> QED  BY <1>1 DEF ListedKeys, Keys

LEMMA Inserting ==
  ASSUME NEW d, Database(d), NEW m \in Mangas, NEW list \in Lists
  PROVE  /\ Database(InsertChapters(d, m, list))
         /\ DOMAIN InsertChapters(d, m, list).chapters = (DOMAIN d.chapters) \cup ListedKeys(m, list)
<1> DEFINE at(k) == CHOOSE i \in DOMAIN list :
                      <<m, list[i].id>> = k /\ \A j \in DOMAIN list : list[j].id = list[i].id => j <= i
           t == [k \in (DOMAIN d.chapters) \cup ListedKeys(m, list) |->
                   IF k \notin ListedKeys(m, list) THEN d.chapters[k]
                   ELSE [number |-> list[at(k)].number, scanlator |-> list[at(k)].scanlator,
                         manga_order |-> at(k) - 1]]
<1>1. InsertChapters(d, m, list) = [d EXCEPT !.chapters = t]  BY DEF InsertChapters
<1>2. DOMAIN t = (DOMAIN d.chapters) \cup ListedKeys(m, list)  OBVIOUS
<1> HIDE DEF t
<1>3. DOMAIN t \subseteq Keys  BY <1>2, ListedTypes DEF Database
<1> QED  BY <1>1, <1>2, <1>3, TablesAre DEF Database

-----------------------------------------------------------------------------
(* Requests of the reader.                                                  *)

TaskRecords ==
  [pc : {"idle", "next"} \cup AtManga, queue : Seq(Mangas \X KnownStatuses),
   manga : {NULL} \cup Mangas, status : KnownStatuses, old : SUBSET Keys,
   list : Seq(ListedChapters), ids : SUBSET Keys, alone : BOOLEAN]

TasksTyped ==
  task \in [Tasks -> TaskRecords] /\ \A t \in Tasks : task[t].pc \in AtManga => task[t].manga \in Mangas

CronRecords == [pc : {"off", "poll", "sweep", "doze", "sleep", "batch"}, running : BOOLEAN,
                wait : Nat, cool : Nat, sources : SUBSET Int]
CronTyped == cron \in CronRecords /\ cron.running = (cron.pc # "off")

HistoryTyped == told \in [Keys -> 0..2] /\ crossed \in BOOLEAN

TypeParts ==
  /\ Database(db) /\ TasksTyped /\ CronTyped /\ HistoryTyped
  /\ pool \in {"file", "memory"} /\ sync \in {"idle", "replacing"} /\ files \subseteq Keys
  /\ release \in [Mangas -> Nat] /\ left \in [Kinds -> Nat]
  /\ answer \in [Mangas -> {NULL} \cup SUBSET Keys]

LEMMA TypeIsParts == TypeOK <=> TypeParts
BY DEF TypeOK, TypeParts, TasksTyped, CronTyped, HistoryTyped, TaskRecords, CronRecords

\* What a request of the reader may do.
UserEffect ==
  /\ Calmly(db, db') /\ left' \in [Kinds -> Nat] /\ files' \subseteq Keys /\ CronTyped'
  /\ (cron.pc # "off" => cron'.pc # "off")
  /\ UNCHANGED <<pool, release, task, sync, answer, told, crossed>>

LEMMA Spending ==
  ASSUME left \in [Kinds -> Nat], NEW kind \in Kinds, Spends(kind)
  PROVE  left' \in [Kinds -> Nat] /\ left'[kind] # left[kind]
BY DEF Spends

LEMMA RequestEffect ==
  ASSUME TypeParts, NEW kind \in Kinds, NEW d, Calmly(db, d), Request(kind, d)
  PROVE  /\ Calmly(db, db') /\ left' \in [Kinds -> Nat]
         /\ UNCHANGED <<pool, release, task, sync, answer, told, crossed>>
BY Spending DEF TypeParts, Request

LEMMA QuietEffect ==
  ASSUME TypeParts, NEW kind \in Kinds, NEW d, Calmly(db, d), Request(kind, d), Quietly
  PROVE  UserEffect
<1>1. files' \subseteq Keys /\ CronTyped' /\ (cron.pc # "off" => cron'.pc # "off")
  BY DEF Quietly, TypeParts, CronTyped
<1> QED  BY <1>1, RequestEffect DEF UserEffect

LEMMA FilesEffect ==
  ASSUME TypeParts, NEW kind \in Kinds, NEW d, Calmly(db, d), Request(kind, d),
         UNCHANGED cron, files' \subseteq Keys
  PROVE  UserEffect
<1>1. CronTyped' /\ (cron.pc # "off" => cron'.pc # "off")  BY DEF TypeParts, CronTyped
<1> QED  BY <1>1, RequestEffect DEF UserEffect

\* The second run of the cron task changes nothing.
LEMMA CronStarts ==
  ASSUME NEW c \in CronRecords, c.running = (c.pc # "off"), NEW sources \in SUBSET Int
  PROVE  /\ CompareExchange(c, sources) \in CronRecords
         /\ CompareExchange(c, sources).running = (CompareExchange(c, sources).pc # "off")
         /\ CompareExchange(c, sources).pc # "off"
<1>1. CASE c.running
  <2>1. CompareExchange(c, sources) = c  BY <1>1 DEF CompareExchange
  <2> QED  BY <1>1, <2>1
<1>2. CASE ~c.running  BY <1>2 DEF CompareExchange, CronRecords
<1> QED  BY <1>1, <1>2 DEF CronRecords

LEMMA KindsAre == Kinds = {"reading", "library", "refreshing", "checking", "restarting", "replacing", "publishing"}
BY DEF Kinds

LEMMA NowIsNumber == TypeParts => Now \in Int
BY KindsAre DEF TypeParts, Now

LEMMA LibraryEffect ==
  ASSUME TypeParts, NEW m \in Mangas,
         CacheSearchResult(m) \/ AddMangaToLibrary(m) \/ RemoveMangaFromLibrary(m)
  PROVE  UserEffect
<1>1. Database(db) /\ files \subseteq Keys /\ "library" \in Kinds  BY DEF TypeParts, Kinds
<1>2. CASE CacheSearchResult(m)
  BY <1>1, <1>2, InfoCalm, QuietEffect DEF CacheSearchResult
<1>3. CASE AddMangaToLibrary(m)
  <2>1. Request("library", add_manga_to_library(db, m)) /\ UNCHANGED files
        /\ cron' = IF CronEnabled THEN CompareExchange(cron, Installed) ELSE cron
    BY <1>3 DEF AddMangaToLibrary
  <2>2. CronTyped' /\ (cron.pc # "off" => cron'.pc # "off")
    BY <2>1, CronStarts, SourcesAssumption DEF TypeParts, CronTyped
  <2>3. Calmly(db, add_manga_to_library(db, m))  BY <1>1, LibraryCalm
  <2> QED  BY <1>1, <2>1, <2>2, <2>3, RequestEffect DEF UserEffect
<1>4. CASE RemoveMangaFromLibrary(m)
  <2>1. Request("library", remove_manga_from_library(db, m)) /\ UNCHANGED cron
        /\ files' \subseteq Keys
    BY <1>1, <1>4 DEF RemoveMangaFromLibrary
  <2>2. Calmly(db, remove_manga_from_library(db, m))  BY <1>1, LibraryCalm
  <2> QED  BY <1>1, <2>1, <2>2, FilesEffect
<1> QED  BY <1>2, <1>3, <1>4

LEMMA Selected ==
  ASSUME NEW d, Database(d), NEW m, NEW listed \in find_cached_chapter_informations(d, m), NEW range
  PROVE  parse_chapter_ranges(d, listed, range) \in SUBSET Keys
<1>1. listed \in SetToSeqs(find_cached_chapter_ids(d, m))  BY DEF find_cached_chapter_informations
<1>2. listed \in Seq(find_cached_chapter_ids(d, m))  BY <1>1, CachedIds, Listing
<1>3. \A i \in DOMAIN listed : listed[i] \in Keys
  <2> TAKE i \in DOMAIN listed
  <2>1. i \in 1..Len(listed)  BY <1>2, LenProperties
  <2>2. listed[i] \in find_cached_chapter_ids(d, m)  BY <1>2, <2>1, ElementOfSeq
  <2> QED  BY <2>2, CachedIds
<1>4. ToSet(listed) \subseteq Keys  BY <1>3 DEF ToSet
<1> QED  BY <1>3, <1>4 DEF parse_chapter_ranges

LEMMA MarkingEffect ==
  ASSUME TypeParts, NEW m \in Mangas, NEW range, NEW value \in BOOLEAN,
         MarkChaptersAsRead(m, range, value)
  PROVE  UserEffect
<1>1. Database(db) /\ files \subseteq Keys /\ "reading" \in Kinds  BY DEF TypeParts, Kinds
<1>2. PICK listed \in find_cached_chapter_informations(db, m) :
        /\ Request("reading", set_chapters_read_state(db, parse_chapter_ranges(db, listed, range), value))
        /\ files' = IF value /\ DeleteAfterRead
                    THEN files \ parse_chapter_ranges(db, listed, range) ELSE files
        /\ UNCHANGED cron
  BY DEF MarkChaptersAsRead
<1>3. parse_chapter_ranges(db, listed, range) \in SUBSET Keys  BY <1>1, Selected
<1>4. Calmly(db, set_chapters_read_state(db, parse_chapter_ranges(db, listed, range), value))
  BY <1>1, <1>3, MarkingCalm
<1>5. files' \subseteq Keys  BY <1>1, <1>2
<1> QED  BY <1>1, <1>2, <1>4, <1>5, FilesEffect

LEMMA ReaderEffect ==
  ASSUME TypeParts, NEW k \in Keys,
         (\E value \in BOOLEAN : MarkChapterAsRead(k, value)) \/ UpdateLastRead(k) \/ StoreFile(k)
  PROVE  UserEffect
<1>1. Database(db) /\ files \subseteq Keys /\ "reading" \in Kinds /\ Now \in Int
  BY NowIsNumber DEF TypeParts, Kinds
<1>2. ASSUME NEW value \in BOOLEAN, MarkChapterAsRead(k, value) PROVE UserEffect
  <2>1. Request("reading", mark_chapter_as_read(db, k, value, Now)) /\ UNCHANGED cron /\ files' \subseteq Keys
    BY <1>1, <1>2 DEF MarkChapterAsRead
  <2>2. Calmly(db, mark_chapter_as_read(db, k, value, Now))  BY <1>1, ReadingCalm
  <2> QED  BY <1>1, <2>1, <2>2, FilesEffect
<1>3. CASE UpdateLastRead(k)
  <2>1. Calmly(db, update_last_read_chapter(db, k, Now))  BY <1>1, ReadingCalm
  <2> QED  BY <1>1, <1>3, <2>1, QuietEffect DEF UpdateLastRead
<1>4. CASE StoreFile(k)
  <2>1. Calmly(db, db)  BY <1>1 DEF Calmly
  <2>2. Request("reading", db) /\ UNCHANGED cron /\ files' \subseteq Keys  BY <1>1, <1>4 DEF StoreFile
  <2> QED  BY <1>1, <2>1, <2>2, FilesEffect
<1> QED  BY <1>2, <1>3, <1>4

LEMMA StepOfUser ==
  ASSUME TypeParts, UserStep
  PROVE  UserEffect
<1>1. Database(db) /\ files \subseteq Keys /\ "reading" \in Kinds  BY DEF TypeParts, Kinds
<1>2. ASSUME NEW m \in Mangas, NEW s, SetPreferredScanlator(m, s) PROVE UserEffect
  BY <1>1, <1>2, MangaStateCalm, QuietEffect DEF SetPreferredScanlator
<1>3. ASSUME NEW m \in Mangas, NEW v, SetViewer(m, v) PROVE UserEffect
  BY <1>1, <1>3, MangaStateCalm, QuietEffect DEF SetViewer
<1>4. ASSUME NEW m \in Mangas, NEW p \in DOMAIN db.playlists,
             AddMangaToPlaylist(p, m) \/ RemoveMangaFromPlaylist(p, m)
      PROVE  UserEffect
  BY <1>1, <1>4, PlaylistRowsCalm, QuietEffect DEF AddMangaToPlaylist, RemoveMangaFromPlaylist
<1>5. CASE CreatePlaylist("a")
  BY <1>1, <1>5, NewPlaylistCalm, QuietEffect DEF CreatePlaylist
<1>6. ASSUME NEW p \in DOMAIN db.playlists, DeletePlaylist(p) \/ RenamePlaylist(p, "b")
      PROVE  UserEffect
  BY <1>1, <1>6, PlaylistCalm, QuietEffect DEF DeletePlaylist, RenamePlaylist
<1>7. ASSUME NEW i \in DOMAIN db.notifications, DeleteNotification(i) PROVE UserEffect
  BY <1>1, <1>7, NotificationsCalm, QuietEffect DEF DeleteNotification
<1>8. CASE ClearNotifications
  <2>1. Calmly(db, clear_notifications(db))
    <3>1. {} \in SUBSET Keys  OBVIOUS
    <3> QED  BY <1>1, <3>1, NotifyingCalm
  <2> QED  BY <1>1, <1>8, <2>1, QuietEffect DEF ClearNotifications
<1>9. ASSUME NEW invalid \in BOOLEAN, CleanUp(invalid) PROVE UserEffect
  <2>1. Calmly(db, db)  BY <1>1 DEF Calmly
  <2>2. Request("reading", db) /\ UNCHANGED cron /\ files' \subseteq Keys  BY <1>1, <1>9 DEF CleanUp
  <2> QED  BY <1>1, <2>1, <2>2, FilesEffect
<1> QED
  BY <1>2, <1>3, <1>4, <1>5, <1>6, <1>7, <1>8, <1>9, LibraryEffect, MarkingEffect, ReaderEffect
  DEF UserStep

-----------------------------------------------------------------------------
(* The inductive invariant, part by part.                                  *)

Released == \A m \in Mangas : release[m] \in 1..Len(Releases[m])

\* Where a task has the source's answer: one of the lists published so far.
WithList == {"ids", "delete", "insert", "schedule", "notify"}
ListHeld(t) ==
  task[t].pc \in WithList =>
    \E r \in 1..release[task[t].manga] : task[t].list = ListOf(task[t].manga, r)

IdsOwn(t) == task[t].pc = "delete" => \A k \in task[t].ids : k[1] = task[t].manga

\* A refresh that nothing has disturbed knows what is cached.
CacheKnown(t) ==
  task[t].alone =>
    /\ task[t].pc = "delete" => find_cached_chapter_ids(db, task[t].manga) = task[t].ids
    /\ task[t].pc = "insert" =>
         find_cached_chapter_ids(db, task[t].manga) \subseteq ListedKeys(task[t].manga, task[t].list)

RefreshInv == Released /\ \A t \in Tasks : ListHeld(t) /\ IdsOwn(t) /\ CacheKnown(t)

\* A chapter that was announced was listed, and is cached or not listed any more.
NowListed(k) == k \in ListedKeys(k[1], ListNow(k[1]))
Kept(k) == k \in DOMAIN db.chapters \/ ~NowListed(k)
EverListed(k) == \E r \in 1..release[k[1]] : k \in ListedKeys(k[1], ListOf(k[1], r))
ToldKept == \A k \in Keys : told[k] >= 1 => EverListed(k) /\ Kept(k)

\* A check that has read what was cached does not announce what is announced already.
PastOld(t) == t \in Checkers /\ task[t].pc \in {"fetch"} \cup WithList
Remembers(t) ==
  t \in Checkers =>
    /\ task[t].pc = "fetch" =>
         \A k \in Keys : k[1] = task[t].manga /\ told[k] >= 1 => k \in task[t].old \/ ~NowListed(k)
    /\ task[t].pc \in WithList =>
         \A k \in ListedKeys(task[t].manga, task[t].list) : told[k] >= 1 => k \in task[t].old
    /\ task[t].pc \in {"schedule", "notify"} =>
         \A k \in ListedKeys(task[t].manga, task[t].list) : Kept(k)

ChecksApart ==
  \A t, u \in Tasks : PastOld(t) /\ PastOld(u) /\ t # u => task[t].manga # task[u].manga

AnnounceInv == ~crossed => AnnouncedOnce /\ ToldKept /\ ChecksApart /\ \A t \in Tasks : Remembers(t)

IInv == TypeParts /\ RefreshInv /\ CacheIsOneAnswer /\ AnnounceInv

-----------------------------------------------------------------------------
(* The steps, by what they do to tasks and chapters.                        *)

\* One task goes on, the chapters and their history stay.
Shift(t, n) ==
  /\ task' = [task EXCEPT ![t] = n]
  /\ n \in TaskRecords /\ (n.pc \in AtManga => n.manga \in Mangas)
  /\ db'.chapters = db.chapters /\ UNCHANGED <<release, answer>>

\* Where nothing is claimed of a task.
Free == {"idle", "next", "details", "completed", "old"}
Harmless(t, n) == n.pc \in Free \/ (t \in Handlers /\ n.pc = "fetch")

Elapse == db'.chapters = db.chapters /\ UNCHANGED <<task, release, answer, told, crossed>>
HarmlessShift == UNCHANGED <<told, crossed>> /\ \E t \in Tasks, n \in TaskRecords : Shift(t, n) /\ Harmless(t, n)

Queues == Seq(Mangas \X KnownStatuses)

LEMMA IdleTyped ==
  /\ IdleTask \in TaskRecords
  /\ \A q \in Queues : /\ [IdleTask EXCEPT !.pc = "next", !.queue = q] \in TaskRecords
                       /\ [IdleTask EXCEPT !.pc = "next", !.queue = q].pc = "next"
<1>1. <<>> \in Queues /\ <<>> \in Seq(ListedChapters) /\ {} \in SUBSET Keys  BY DEF Queues
<1>2. IdleTask \in TaskRecords
  BY <1>1 DEF IdleTask, TaskRecords, Queues, KnownStatuses
<1> QED  BY <1>1, <1>2 DEF IdleTask, TaskRecords, Queues

LEMMA DoneTyped ==
  ASSUME TasksTyped, NEW t \in Tasks
  PROVE  Done(t) \in TaskRecords /\ Done(t).pc \in {"idle", "next"}
<1>1. task[t].queue \in Queues  BY DEF TasksTyped, TaskRecords, Queues
<1> QED  BY <1>1, IdleTyped DEF Done, IdleTask

LEMMA ShiftTyped ==
  ASSUME TasksTyped, NEW t \in Tasks, NEW n \in TaskRecords, n.pc \in AtManga => n.manga \in Mangas,
         task' = [task EXCEPT ![t] = n]
  PROVE  TasksTyped'
BY DEF TasksTyped

LEMMA FreeIsNotAt == \A pc : pc \in {"idle", "next"} => pc \notin AtManga /\ pc \in Free
BY DEF AtManga, Free

LEMMA Failing ==
  ASSUME TypeParts, NEW t \in Tasks, Fails(t)
  PROVE  TypeParts' /\ HarmlessShift
<1>1. Done(t) \in TaskRecords /\ Done(t).pc \in {"idle", "next"}  BY DoneTyped DEF TypeParts
<1>2. task' = [task EXCEPT ![t] = Done(t)] /\ UNCHANGED <<db, pool, files, release, cron, sync, left, answer, told, crossed>>
  BY DEF Fails, Step, Elsewhere, Around
<1>3. TasksTyped'  BY <1>1, <1>2, ShiftTyped, FreeIsNotAt DEF TypeParts
<1>4. TypeParts'  BY <1>2, <1>3 DEF TypeParts, CronTyped, HistoryTyped
<1>5. Shift(t, Done(t)) /\ Harmless(t, Done(t))  BY <1>1, <1>2, FreeIsNotAt DEF Shift, Harmless
<1> QED  BY <1>1, <1>2, <1>4, <1>5 DEF HarmlessShift

\* A step of a task that changes at most the database, and that calmly.
LEMMA Moving ==
  ASSUME TypeParts, NEW t \in Tasks, NEW n \in TaskRecords, n.pc \in AtManga => n.manga \in Mangas,
         Step(t, n), Calmly(db, db'), UNCHANGED answer, Elsewhere
  PROVE  Shift(t, n) /\ (HistoryTyped' => TypeParts')
<1>1. task' = [task EXCEPT ![t] = n] /\ UNCHANGED <<pool, files, release, cron, sync, left, answer>>
  BY DEF Step, Elsewhere, Around
<1>2. TasksTyped'  BY <1>1, ShiftTyped DEF TypeParts
<1>3. Database(db') /\ db'.chapters = db.chapters  BY DEF Calmly
<1>4. HistoryTyped' => TypeParts'  BY <1>1, <1>2, <1>3 DEF TypeParts, CronTyped
<1>5. Shift(t, n)  BY <1>1, <1>3 DEF Shift
<1> QED  BY <1>4, <1>5

LEMMA MovingHarmlessly ==
  ASSUME TypeParts, NEW t \in Tasks, NEW n \in TaskRecords, n.pc \in AtManga => n.manga \in Mangas,
         Step(t, n), Calmly(db, db'), UNCHANGED answer, Elsewhere, Harmless(t, n), Untold
  PROVE  TypeParts' /\ HarmlessShift
<1>1. UNCHANGED <<told, crossed>>  BY DEF Untold
<1>2. HistoryTyped'  BY <1>1 DEF TypeParts, HistoryTyped
<1> QED  BY <1>1, <1>2, Moving DEF HarmlessShift

LEMMA StayingCalm == TypeParts => Calmly(db, db)
BY DEF TypeParts, Calmly

-----------------------------------------------------------------------------
(* Checks and refreshes, up to the statements that write.                   *)

\* Rows that a query returns in any order, as the queue of a check.
LEMMA RowsQueue ==
  ASSUME NEW rows \in SUBSET (Mangas \X KnownStatuses), NEW q \in SetToSeqs(rows)
  PROVE  q \in Queues
<1>1. IsFiniteSet(KnownStatuses)
  <2>1. IsFiniteSet({"Ongoing"})  BY FS_Singleton
  <2>2. IsFiniteSet({"Ongoing"} \cup {"Completed"})  BY <2>1, FS_AddElement
  <2>3. IsFiniteSet(({"Ongoing"} \cup {"Completed"}) \cup {"Unknown"})  BY <2>2, FS_AddElement
  <2>4. KnownStatuses = ({"Ongoing"} \cup {"Completed"}) \cup {"Unknown"}  BY DEF KnownStatuses, Statuses
  <2> QED  BY <2>3, <2>4
<1>2. IsFiniteSet(rows)  BY <1>1, FiniteAssumption, FS_Product, FS_Subset
<1>3. q \in Seq(rows)  BY <1>2, Listing
<1> QED  BY <1>3, SeqMonotonic DEF Queues

LEMMA ListingRows ==
  ASSUME NEW d, Database(d), NEW q \in get_manga_library_and_status(d)
  PROVE  q \in Queues
<1> DEFINE rows == {<<m, Status(d, m)>> : m \in ToSet(d.library)}
<1>1. \A m \in ToSet(d.library) : m \in Mangas /\ Status(d, m) \in KnownStatuses
  BY DEF Database, RowTable, Status, KnownStatuses
<1>2. rows \in SUBSET (Mangas \X KnownStatuses)  BY <1>1
<1>3. q \in SetToSeqs(rows)  BY DEF get_manga_library_and_status
<1> HIDE DEF rows
<1> QED  BY <1>2, <1>3, RowsQueue

LEMMA StartOfRefresh ==
  ASSUME TypeParts, NEW t \in Handlers, NEW m \in Mangas, StartRefresh(t, m)
  PROVE  TypeParts' /\ HarmlessShift
<1> DEFINE n == [IdleTask EXCEPT !.pc = "fetch", !.manga = m]
<1>1. n \in TaskRecords /\ n.pc = "fetch" /\ n.manga = m
  BY IdleTyped DEF TaskRecords, AtManga
<1>2. task' = [task EXCEPT ![t] = n] /\ t \in Tasks
      /\ UNCHANGED <<db, pool, files, release, cron, sync, answer, told, crossed>>
  BY DEF StartRefresh, Step, Around, Untold, Tasks
<1>3. left' \in [Kinds -> Nat]  BY Spending DEF StartRefresh, TypeParts, Kinds
<1> HIDE DEF n
<1>4. TasksTyped'  BY <1>1, <1>2, ShiftTyped DEF TypeParts
<1>5. TypeParts'  BY <1>2, <1>3, <1>4 DEF TypeParts, CronTyped, HistoryTyped
<1>6. Shift(t, n) /\ Harmless(t, n)  BY <1>1, <1>2 DEF Shift, Harmless
<1> QED  BY <1>1, <1>2, <1>5, <1>6 DEF HarmlessShift

LEMMA StartOfManualCheck ==
  ASSUME TypeParts, StartManualCheck
  PROVE  TypeParts' /\ HarmlessShift
<1>1. PICK q \in get_manga_library_and_status(db) :
        Step("manual", [IdleTask EXCEPT !.pc = "next", !.queue = q])
  BY DEF StartManualCheck
<1> DEFINE n == [IdleTask EXCEPT !.pc = "next", !.queue = q]
<1>2. q \in Queues  BY ListingRows DEF TypeParts
<1>3. n \in TaskRecords /\ n.pc = "next"  BY <1>2, IdleTyped
<1>4. "manual" \in Tasks  BY DEF Tasks, Checkers
<1> HIDE DEF n
<1>5. task' = [task EXCEPT !["manual"] = n]
      /\ UNCHANGED <<db, pool, files, release, cron, sync, answer, told, crossed>>
  BY <1>1 DEF StartManualCheck, Step, Around, Untold, n
<1>6. left' \in [Kinds -> Nat]  BY Spending DEF StartManualCheck, TypeParts, Kinds
<1>7. n.pc \notin AtManga /\ n.pc \in Free  BY <1>3, FreeIsNotAt
<1>8. TasksTyped'  BY <1>3, <1>4, <1>5, <1>7, ShiftTyped DEF TypeParts
<1>9. TypeParts'  BY <1>5, <1>6, <1>8 DEF TypeParts, CronTyped, HistoryTyped
<1>10. Shift("manual", n) /\ Harmless("manual", n)  BY <1>3, <1>5, <1>7 DEF Shift, Harmless
<1> QED  BY <1>3, <1>4, <1>5, <1>9, <1>10 DEF HarmlessShift

LEMMA EndOfManualCheck ==
  ASSUME TypeParts, EndManualCheck
  PROVE  TypeParts' /\ HarmlessShift
<1>1. Step("manual", IdleTask) /\ UNCHANGED <<db, answer>> /\ Untold /\ Elsewhere
  BY DEF EndManualCheck
<1>2. "manual" \in Tasks  BY DEF Tasks, Checkers
<1>3. IdleTask \in TaskRecords /\ IdleTask.pc = "idle"  BY IdleTyped DEF IdleTask
<1>4. IdleTask.pc \notin AtManga /\ IdleTask.pc \in Free  BY <1>3, FreeIsNotAt
<1>5. Calmly(db, db')  BY <1>1, StayingCalm
<1>6. Harmless("manual", IdleTask)  BY <1>4 DEF Harmless
<1> QED  BY <1>1, <1>2, <1>3, <1>4, <1>5, <1>6, MovingHarmlessly

LEMMA NextOfQueue ==
  ASSUME TypeParts, NEW t \in Tasks, NextManga(t)
  PROVE  TypeParts' /\ HarmlessShift
<1> DEFINE m == Head(task[t].queue)[1]
           status == Head(task[t].queue)[2]
           rest == [IdleTask EXCEPT !.pc = "next", !.queue = Tail(task[t].queue)]
           n == IF status = "Completed" \/ SourceOf(m) \notin SourcesSeenBy(t) THEN rest
                ELSE [rest EXCEPT !.pc = "details", !.manga = m]
<1>1. task[t].queue \in Queues /\ task[t].queue # <<>>
  BY DEF TypeParts, TasksTyped, TaskRecords, Queues, NextManga
<1>2. m \in Mangas /\ Tail(task[t].queue) \in Queues
  <2>1. Head(task[t].queue) \in Mangas \X KnownStatuses /\ Tail(task[t].queue) \in Queues
    BY <1>1, HeadTailProperties DEF Queues
  <2> QED  BY <2>1
<1>3. rest \in TaskRecords /\ rest.pc = "next"  BY <1>2, IdleTyped
<1>4. /\ db' = IF status = "Completed" /\ Reachable THEN delete_last_check_update_manga(db, m) ELSE db
      /\ Step(t, n) /\ UNCHANGED answer /\ Untold /\ Elsewhere
  BY DEF NextManga
<1> HIDE DEF rest
<1>5. n \in TaskRecords /\ n.pc \in {"next", "details"} /\ (n.pc = "details" => n.manga = m)
  BY <1>2, <1>3 DEF TaskRecords, AtManga
<1> HIDE DEF n, m, status
<1>6. (n.pc \in AtManga => n.manga \in Mangas) /\ Harmless(t, n)
  BY <1>2, <1>5, FreeIsNotAt DEF Harmless, Free
<1>7. Calmly(db, db')
  <2>1. Database(db) /\ 0 \in Nat  BY DEF TypeParts
  <2>2. Calmly(db, delete_last_check_update_manga(db, m))  BY <1>2, <2>1, ChecksCalm
  <2> QED  BY <1>4, <2>2, StayingCalm
<1> QED  BY <1>4, <1>5, <1>6, <1>7, MovingHarmlessly

LEMMA TaskTyped ==
  ASSUME TypeParts, NEW t \in Tasks
  PROVE  /\ task[t] \in TaskRecords
         /\ task[t].pc \in AtManga => task[t].manga \in Mangas
         /\ task[t].list \in Lists /\ task[t].status \in KnownStatuses
         /\ task[t].ids \in SUBSET Keys /\ task[t].old \in SUBSET Keys /\ task[t].alone \in BOOLEAN
BY DEF TypeParts, TasksTyped, TaskRecords, Lists

LEMMA DetailsRefreshed ==
  ASSUME TypeParts, NEW t \in Tasks, RefreshDetails(t)
  PROVE  TypeParts' /\ HarmlessShift
<1>1. CASE Fails(t)  BY <1>1, Failing
<1>2. ASSUME NEW status \in Statuses, NEW poster \in BOOLEAN,
             /\ db' = upsert_cached_manga_details(db, task[t].manga, [status |-> status, viewer |-> 0])
             /\ Step(t, IF poster THEN [task[t] EXCEPT !.status = status,
                                  !.pc = IF status = "Completed" THEN "completed" ELSE "old"]
                        ELSE Done(t))
             /\ UNCHANGED answer /\ Untold /\ Elsewhere
      PROVE  TypeParts' /\ HarmlessShift
  <2> DEFINE busy == [task[t] EXCEPT !.status = status,
                                     !.pc = IF status = "Completed" THEN "completed" ELSE "old"]
             n == IF poster THEN busy ELSE Done(t)
  <2>1. task[t].pc = "details" /\ task[t].manga \in Mangas
    BY TaskTyped DEF RefreshDetails, AtManga
  <2>2. busy \in TaskRecords /\ busy.pc \in {"completed", "old"} /\ busy.manga = task[t].manga
    BY TaskTyped DEF TaskRecords, AtManga, KnownStatuses
  <2>3. Done(t) \in TaskRecords /\ Done(t).pc \in {"idle", "next"}  BY DoneTyped DEF TypeParts
  <2> HIDE DEF busy
  <2>4. n \in TaskRecords /\ n.pc \in Free /\ (n.pc \in AtManga => n.manga \in Mangas)
    BY <2>1, <2>2, <2>3, FreeIsNotAt DEF Free
  <2>5. Step(t, n)  BY <1>2 DEF busy
  <2>6. Calmly(db, db')
    <3>1. Database(db) /\ status \in KnownStatuses  BY DEF TypeParts, KnownStatuses
    <3> QED  BY <1>2, <2>1, <3>1, DetailsCalm
  <2> HIDE DEF n
  <2>7. Harmless(t, n)  BY <2>4 DEF Harmless
  <2> QED  BY <1>2, <2>4, <2>5, <2>6, <2>7, MovingHarmlessly
<1> QED  BY <1>1, <1>2 DEF RefreshDetails

LEMMA CompletedForgotten ==
  ASSUME TypeParts, NEW t \in Tasks, ForgetCompleted(t)
  PROVE  TypeParts' /\ HarmlessShift
<1>1. CASE ~Reachable  BY <1>1, Failing DEF ForgetCompleted
<1>2. CASE Reachable
  <2> DEFINE n == [task[t] EXCEPT !.pc = "old"]
  <2>1. task[t].manga \in Mangas  BY TaskTyped DEF ForgetCompleted, AtManga
  <2>2. n \in TaskRecords /\ n.pc = "old" /\ n.manga = task[t].manga
    BY TaskTyped DEF TaskRecords, AtManga
  <2>3. /\ db' = delete_last_check_update_manga(db, task[t].manga)
        /\ Step(t, n) /\ UNCHANGED answer /\ Untold /\ Elsewhere
    BY <1>2 DEF ForgetCompleted
  <2>4. Calmly(db, db')
    <3>1. Database(db) /\ 0 \in Nat  BY DEF TypeParts
    <3> QED  BY <2>1, <2>3, <3>1, ChecksCalm
  <2> HIDE DEF n
  <2>5. Harmless(t, n)  BY <2>2 DEF Harmless, Free
  <2> QED  BY <2>1, <2>2, <2>3, <2>4, <2>5, MovingHarmlessly
<1> QED  BY <1>1, <1>2

-----------------------------------------------------------------------------
(* What keeps the invariant while the chapters stay.                        *)

LEMMA ElapseKeeps ==
  ASSUME TypeParts, RefreshInv, CacheIsOneAnswer, AnnounceInv, Elapse
  PROVE  RefreshInv' /\ CacheIsOneAnswer' /\ AnnounceInv'
<1>1. db'.chapters = db.chapters /\ UNCHANGED <<task, release, answer, told, crossed>>  BY DEF Elapse
<1>2. \A m : find_cached_chapter_ids(db, m)' = find_cached_chapter_ids(db, m)
  BY <1>1 DEF find_cached_chapter_ids
<1>3. RefreshInv'  BY <1>1, <1>2 DEF RefreshInv, Released, ListHeld, IdsOwn, CacheKnown
<1>4. CacheIsOneAnswer'  BY <1>1, <1>2 DEF CacheIsOneAnswer
<1>5. \A k : (NowListed(k)' <=> NowListed(k)) /\ (Kept(k)' <=> Kept(k)) /\ (EverListed(k)' <=> EverListed(k))
  BY <1>1 DEF NowListed, Kept, EverListed, ListNow
<1>6. AnnouncedOnce' <=> AnnouncedOnce  BY <1>1 DEF AnnouncedOnce
<1>7. ToldKept' <=> ToldKept  BY <1>1, <1>5 DEF ToldKept
<1>8. \A t \in Tasks : PastOld(t)' <=> PastOld(t)  BY <1>1 DEF PastOld
<1>9. ChecksApart' <=> ChecksApart  BY <1>1, <1>8 DEF ChecksApart
<1>10. \A t \in Tasks : Remembers(t)' <=> Remembers(t)  BY <1>1, <1>5 DEF Remembers
<1>11. AnnounceInv'  BY <1>1, <1>6, <1>7, <1>9, <1>10 DEF AnnounceInv
<1> QED  BY <1>3, <1>4, <1>11

LEMMA ShiftKeepsRefresh ==
  ASSUME TypeParts, RefreshInv, CacheIsOneAnswer, NEW t \in Tasks, NEW n \in TaskRecords, Shift(t, n),
         ListHeld(t)', IdsOwn(t)', CacheKnown(t)'
  PROVE  RefreshInv' /\ CacheIsOneAnswer'
<1>1. db'.chapters = db.chapters /\ UNCHANGED <<release, answer>>  BY DEF Shift
<1>2. \A m : find_cached_chapter_ids(db, m)' = find_cached_chapter_ids(db, m)
  BY <1>1 DEF find_cached_chapter_ids
<1>3. CacheIsOneAnswer'  BY <1>1, <1>2 DEF CacheIsOneAnswer
<1>4. ASSUME NEW u \in Tasks, u # t PROVE (ListHeld(u) /\ IdsOwn(u) /\ CacheKnown(u))'
  <2>1. task'[u] = task[u]  BY <1>4 DEF Shift, TypeParts, TasksTyped
  <2>2. ListHeld(u) /\ IdsOwn(u) /\ CacheKnown(u)  BY DEF RefreshInv
  <2> QED  BY <1>1, <1>2, <2>1, <2>2 DEF ListHeld, IdsOwn, CacheKnown
<1>5. Released'  BY <1>1 DEF RefreshInv, Released
<1> QED  BY <1>3, <1>4, <1>5 DEF RefreshInv

LEMMA ShiftKeepsAnnounce ==
  ASSUME TypeParts, AnnounceInv, NEW t \in Tasks, NEW n \in TaskRecords, Shift(t, n),
         UNCHANGED told, crossed => crossed',
         ~crossed' => /\ Remembers(t)'
                      /\ PastOld(t)' => \A u \in Tasks \ {t} : PastOld(u) => task[u].manga # n.manga
  PROVE  AnnounceInv'
<1>1. SUFFICES ASSUME ~crossed' PROVE (AnnouncedOnce /\ ToldKept /\ ChecksApart /\ \A u \in Tasks : Remembers(u))'
  BY DEF AnnounceInv
<1>2. ~crossed /\ AnnouncedOnce /\ ToldKept /\ ChecksApart /\ \A u \in Tasks : Remembers(u)
  BY <1>1 DEF AnnounceInv, TypeParts, HistoryTyped
<1>3. db'.chapters = db.chapters /\ UNCHANGED <<release, answer, told>>  BY DEF Shift
<1>4. \A k : (NowListed(k)' <=> NowListed(k)) /\ (Kept(k)' <=> Kept(k)) /\ (EverListed(k)' <=> EverListed(k))
  BY <1>3 DEF NowListed, Kept, EverListed, ListNow
<1>5. AnnouncedOnce'  BY <1>2, <1>3 DEF AnnouncedOnce
<1>6. ToldKept'  BY <1>2, <1>3, <1>4 DEF ToldKept
<1>7. \A u \in Tasks : task'[u] = IF u = t THEN n ELSE task[u]  BY DEF Shift, TypeParts, TasksTyped
<1>8. \A u \in Tasks \ {t} : PastOld(u)' <=> PastOld(u)  BY <1>7 DEF PastOld
<1>9. ChecksApart'
  <2> SUFFICES ASSUME NEW u \in Tasks, NEW v \in Tasks, PastOld(u)', PastOld(v)', u # v
               PROVE  task'[u].manga # task'[v].manga
    BY DEF ChecksApart
  <2>1. CASE u = t  BY <1>1, <1>7, <1>8, <2>1
  <2>2. CASE v = t  BY <1>1, <1>7, <1>8, <2>2
  <2>3. CASE u # t /\ v # t  BY <1>2, <1>7, <1>8, <2>3 DEF ChecksApart
  <2> QED  BY <2>1, <2>2, <2>3
<1>10. ASSUME NEW u \in Tasks \ {t} PROVE Remembers(u)'
  <2>1. task'[u] = task[u] /\ Remembers(u)  BY <1>2, <1>7
  <2> QED  BY <1>3, <1>4, <2>1 DEF Remembers
<1> QED  BY <1>1, <1>5, <1>6, <1>9, <1>10

LEMMA HarmlessKeeps ==
  ASSUME TypeParts, RefreshInv, CacheIsOneAnswer, AnnounceInv, HarmlessShift
  PROVE  RefreshInv' /\ CacheIsOneAnswer' /\ AnnounceInv'
<1>1. PICK t \in Tasks, n \in TaskRecords : Shift(t, n) /\ Harmless(t, n)  BY DEF HarmlessShift
<1>2. task'[t] = n /\ UNCHANGED <<told, crossed>>
  BY <1>1 DEF Shift, TypeParts, TasksTyped, HarmlessShift
<1>3. n.pc \in Free \cup {"fetch"} /\ (n.pc = "fetch" => t \notin Checkers)
  BY <1>1, HandlersAssumption DEF Harmless, Free
<1>4. ListHeld(t)' /\ IdsOwn(t)' /\ CacheKnown(t)'
  BY <1>2, <1>3 DEF ListHeld, IdsOwn, CacheKnown, Free, WithList
<1>5. Remembers(t)' /\ ~PastOld(t)'  BY <1>2, <1>3 DEF Remembers, PastOld, Free, WithList
<1> QED  BY <1>1, <1>2, <1>4, <1>5, ShiftKeepsRefresh, ShiftKeepsAnnounce

-----------------------------------------------------------------------------
(* A refresh.                                                               *)

LEMMA ListTyped ==
  ASSUME Released, NEW m \in Mangas
  PROVE  ListNow(m) \in Lists
<1>1. release[m] \in 1..Len(Releases[m])  BY DEF Released
<1>2. Releases[m][release[m]] \in Seq(ListedChapters)  BY <1>1, ReleasesAssumption, ElementOfSeq
<1> QED  BY <1>2 DEF ListNow, ListOf, Lists

LEMMA FetchKeeps ==
  ASSUME IInv, NEW t \in Tasks, Fetch(t)
  PROVE  IInv'
<1>1. TypeParts /\ RefreshInv /\ CacheIsOneAnswer /\ AnnounceInv  BY DEF IInv
<1>2. CASE Fails(t)  BY <1>1, <1>2, Failing, HarmlessKeeps DEF IInv
<1>3. CASE ~Fails(t)
  <2> DEFINE m == task[t].manga
             n == [task[t] EXCEPT !.pc = "ids", !.list = ListNow(m)]
  <2>1. /\ task[t].pc = "fetch" /\ Step(t, n)
        /\ UNCHANGED <<db, answer>> /\ Untold /\ Elsewhere
    BY <1>3 DEF Fetch
  <2>2. m \in Mangas  BY <1>1, <2>1, TaskTyped DEF AtManga
  <2>3. ListNow(m) \in Lists  BY <1>1, <2>2, ListTyped DEF RefreshInv
  <2>4. n \in TaskRecords /\ n.pc = "ids" /\ n.list = ListNow(m) /\ n.manga = m /\ n.old = task[t].old
    BY <1>1, <2>3, TaskTyped DEF TaskRecords, AtManga, Lists
  <2> HIDE DEF n
  <2>5. Shift(t, n) /\ TypeParts'
    <3>1. Calmly(db, db') /\ HistoryTyped'
      BY <1>1, <2>1, StayingCalm DEF Untold, TypeParts, HistoryTyped
    <3> QED  BY <1>1, <2>1, <2>2, <2>4, <3>1, Moving
  <2>6. task'[t] = n /\ UNCHANGED <<db, release, told, crossed>>
    BY <1>1, <2>1 DEF Step, Untold, Elsewhere, Around, TypeParts, TasksTyped
  <2>7. ListHeld(t)' /\ IdsOwn(t)' /\ CacheKnown(t)'
    <3>1. release[m] \in 1..release[m]
      BY <1>1, <2>2, ReleasesAssumption, LenProperties DEF RefreshInv, Released
    <3> QED  BY <2>4, <2>6, <3>1 DEF ListHeld, IdsOwn, CacheKnown, ListNow
  <2>8. ASSUME ~crossed'
        PROVE  /\ Remembers(t)'
               /\ PastOld(t)' => \A u \in Tasks \ {t} : PastOld(u) => task[u].manga # n.manga
    <3>1. Remembers(t) /\ ChecksApart  BY <1>1, <2>6, <2>8 DEF AnnounceInv
    <3>2. t \in Checkers => \A k \in ListedKeys(m, ListNow(m)) : told[k] >= 1 => k \in task[t].old
      <4> SUFFICES ASSUME t \in Checkers, NEW k \in ListedKeys(m, ListNow(m)), told[k] >= 1
                   PROVE  k \in task[t].old
        OBVIOUS
      <4>1. k \in Keys /\ k[1] = m  BY <2>2, <2>3, ListedTypes
      <4>2. NowListed(k)  BY <4>1 DEF NowListed
      <4> QED  BY <2>1, <3>1, <4>1, <4>2 DEF Remembers
    <3>3. Remembers(t)'  BY <2>4, <2>6, <3>2 DEF Remembers
    <3>4. PastOld(t)' => PastOld(t)  BY <2>1 DEF PastOld
    <3> QED  BY <2>4, <3>1, <3>3, <3>4 DEF ChecksApart
  <2> QED  BY <1>1, <2>4, <2>5, <2>6, <2>7, <2>8, ShiftKeepsRefresh, ShiftKeepsAnnounce DEF IInv
<1> QED  BY <1>2, <1>3

LEMMA ReadIdsKeeps ==
  ASSUME IInv, NEW t \in Tasks, ReadIds(t)
  PROVE  IInv'
<1>1. TypeParts /\ RefreshInv /\ CacheIsOneAnswer /\ AnnounceInv  BY DEF IInv
<1>2. CASE ~Reachable  BY <1>1, <1>2, Failing, HarmlessKeeps DEF IInv, ReadIds
<1>3. CASE Reachable
  <2> DEFINE m == task[t].manga
             cached == find_cached_chapter_ids(db, m)
             n == [task[t] EXCEPT !.pc = "delete", !.alone = TRUE, !.ids = cached]
  <2>1. /\ task[t].pc = "ids" /\ Step(t, n)
        /\ UNCHANGED <<db, answer>> /\ Untold /\ Elsewhere
    BY <1>3 DEF ReadIds
  <2>2. m \in Mangas  BY <1>1, <2>1, TaskTyped DEF AtManga
  <2>3. cached \in SUBSET Keys /\ \A k \in cached : k[1] = m
    BY <1>1, CachedIds DEF TypeParts, find_cached_chapter_ids
  <2>4. /\ n \in TaskRecords /\ n.pc = "delete" /\ n.ids = cached /\ n.manga = m
        /\ n.old = task[t].old /\ n.list = task[t].list
    <3> HIDE DEF cached
    <3> QED  BY <1>1, <2>3, TaskTyped DEF TaskRecords, AtManga
  <2> HIDE DEF n
  <2>5. Shift(t, n) /\ TypeParts'
    <3>1. Calmly(db, db') /\ HistoryTyped'
      BY <1>1, <2>1, StayingCalm DEF Untold, TypeParts, HistoryTyped
    <3> QED  BY <1>1, <2>1, <2>2, <2>4, <3>1, Moving
  <2>6. task'[t] = n /\ UNCHANGED <<db, release, told, crossed>>
    BY <1>1, <2>1 DEF Step, Untold, Elsewhere, Around, TypeParts, TasksTyped
  <2>7. ListHeld(t)' /\ IdsOwn(t)' /\ CacheKnown(t)'
    <3>1. ListHeld(t)  BY <1>1 DEF RefreshInv
    <3>2. ListHeld(t)'  BY <2>1, <2>4, <2>6, <3>1 DEF ListHeld, WithList
    <3>3. IdsOwn(t)'  BY <2>3, <2>4, <2>6 DEF IdsOwn
    <3>4. CacheKnown(t)'  BY <2>4, <2>6 DEF CacheKnown
    <3> QED  BY <3>2, <3>3, <3>4
  <2>8. ASSUME ~crossed'
        PROVE  /\ Remembers(t)'
               /\ PastOld(t)' => \A u \in Tasks \ {t} : PastOld(u) => task[u].manga # n.manga
    <3>1. Remembers(t) /\ ChecksApart  BY <1>1, <2>6, <2>8 DEF AnnounceInv
    <3>2. Remembers(t)'  BY <2>1, <2>4, <2>6, <3>1 DEF Remembers, WithList
    <3>3. PastOld(t)' => PastOld(t)  BY <2>1 DEF PastOld, WithList
    <3> QED  BY <2>4, <3>1, <3>2, <3>3 DEF ChecksApart
  <2> QED  BY <1>1, <2>4, <2>5, <2>6, <2>7, <2>8, ShiftKeepsRefresh, ShiftKeepsAnnounce DEF IInv
<1> QED  BY <1>2, <1>3

LEMMA ReadOldKeeps ==
  ASSUME IInv, NEW t \in Tasks, ReadOld(t)
  PROVE  IInv'
<1>1. TypeParts /\ RefreshInv /\ CacheIsOneAnswer /\ AnnounceInv  BY DEF IInv
<1>2. CASE ~Reachable  BY <1>1, <1>2, Failing, HarmlessKeeps DEF IInv, ReadOld
<1>3. CASE Reachable
  <2> DEFINE m == task[t].manga
             cached == find_cached_chapter_ids(db, m)
             n == [task[t] EXCEPT !.pc = "fetch", !.old = cached]
             other == \E u \in Checkers \ {t} : task[u].manga = m
  <2>1. /\ task[t].pc = "old" /\ Step(t, n) /\ crossed' = (crossed \/ other)
        /\ UNCHANGED <<db, answer, told>> /\ Elsewhere
    BY <1>3 DEF ReadOld
  <2>2. m \in Mangas  BY <1>1, <2>1, TaskTyped DEF AtManga
  <2>3. cached \in SUBSET Keys  BY <1>1, CachedIds DEF TypeParts
  <2>4. n \in TaskRecords /\ n.pc = "fetch" /\ n.old = cached /\ n.manga = m
    <3> HIDE DEF cached
    <3> QED  BY <1>1, <2>3, TaskTyped DEF TaskRecords, AtManga
  <2> HIDE DEF n
  <2>5. Shift(t, n) /\ TypeParts'
    <3>1. Calmly(db, db') /\ HistoryTyped'
      BY <1>1, <2>1, StayingCalm DEF TypeParts, HistoryTyped
    <3> QED  BY <1>1, <2>1, <2>2, <2>4, <3>1, Moving
  <2>6. task'[t] = n /\ UNCHANGED <<db, release, told>>
    BY <1>1, <2>1 DEF Step, Elsewhere, Around, TypeParts, TasksTyped
  <2>7. ListHeld(t)' /\ IdsOwn(t)' /\ CacheKnown(t)'
    BY <2>4, <2>6 DEF ListHeld, IdsOwn, CacheKnown, WithList
  <2>8. ASSUME ~crossed'
        PROVE  /\ Remembers(t)'
               /\ PastOld(t)' => \A u \in Tasks \ {t} : PastOld(u) => task[u].manga # n.manga
    <3>1. ToldKept /\ ~other  BY <1>1, <2>1, <2>8 DEF AnnounceInv
    <3>2. \A k \in Keys : k[1] = m /\ told[k] >= 1 => k \in cached \/ ~NowListed(k)
      BY <3>1 DEF ToldKept, Kept, find_cached_chapter_ids
    <3>3. \A k : NowListed(k)' <=> NowListed(k)  BY <2>6 DEF NowListed, ListNow
    <3>4. Remembers(t)'  BY <2>4, <2>6, <3>2, <3>3 DEF Remembers, WithList
    <3>5. \A u \in Tasks \ {t} : PastOld(u) => task[u].manga # n.manga  BY <2>4, <3>1 DEF PastOld
    <3> QED  BY <3>4, <3>5
  <2>9. crossed => crossed'  BY <2>1
  <2> QED  BY <1>1, <2>4, <2>5, <2>6, <2>7, <2>8, <2>9, ShiftKeepsRefresh, ShiftKeepsAnnounce DEF IInv
<1> QED  BY <1>2, <1>3

LEMMA ScheduleKeeps ==
  ASSUME IInv, NEW t \in Tasks, Schedule(t)
  PROVE  IInv'
<1>1. TypeParts /\ RefreshInv /\ CacheIsOneAnswer /\ AnnounceInv  BY DEF IInv
<1>2. CASE ~Reachable  BY <1>1, <1>2, Failing, HarmlessKeeps DEF IInv, Schedule
<1>3. CASE Reachable
  <2> DEFINE m == task[t].manga
             n == [task[t] EXCEPT !.pc = "notify"]
  <2>1. /\ task[t].pc = "schedule" /\ Step(t, n)
        /\ UNCHANGED answer /\ Untold /\ Elsewhere
        /\ \/ \E next \in NextCheck(t) : db' = set_last_check_update_manga(db, m, next)
           \/ db' = db
    BY <1>3 DEF Schedule
  <2>2. m \in Mangas  BY <1>1, <2>1, TaskTyped DEF AtManga
  <2>3. Calmly(db, db')
    <3>1. CASE db' = db  BY <1>1, <3>1, StayingCalm
    <3>2. ASSUME NEW next \in NextCheck(t), db' = set_last_check_update_manga(db, m, next)
          PROVE  Calmly(db, db')
      <4>1. next \in Nat  BY TimesAssumption DEF NextCheck
      <4>2. Database(db)  BY <1>1 DEF TypeParts
      <4> QED  BY <2>2, <3>2, <4>1, <4>2, ChecksCalm
    <3> QED  BY <2>1, <3>1, <3>2
  <2>4. n \in TaskRecords /\ n.pc = "notify" /\ n.manga = m /\ n.old = task[t].old /\ n.list = task[t].list
    BY <1>1, TaskTyped DEF TaskRecords, AtManga
  <2> HIDE DEF n
  <2>5. Shift(t, n) /\ TypeParts'
    <3>1. HistoryTyped'  BY <1>1, <2>1 DEF Untold, TypeParts, HistoryTyped
    <3> QED  BY <1>1, <2>1, <2>2, <2>3, <2>4, <3>1, Moving
  <2>6. task'[t] = n /\ UNCHANGED <<release, told, crossed>> /\ db'.chapters = db.chapters
    BY <1>1, <2>1, <2>3 DEF Step, Untold, Elsewhere, Around, TypeParts, TasksTyped, Calmly
  <2>7. ListHeld(t)' /\ IdsOwn(t)' /\ CacheKnown(t)'
    <3>1. ListHeld(t)  BY <1>1 DEF RefreshInv
    <3> QED  BY <2>1, <2>4, <2>6, <3>1 DEF ListHeld, IdsOwn, CacheKnown, WithList
  <2>8. ASSUME ~crossed'
        PROVE  /\ Remembers(t)'
               /\ PastOld(t)' => \A u \in Tasks \ {t} : PastOld(u) => task[u].manga # n.manga
    <3>1. Remembers(t) /\ ChecksApart  BY <1>1, <2>6, <2>8 DEF AnnounceInv
    <3>2. \A k : Kept(k)' <=> Kept(k)  BY <2>6 DEF Kept, NowListed, ListNow
    <3>3. Remembers(t)'  BY <2>1, <2>4, <2>6, <3>1, <3>2 DEF Remembers, WithList
    <3>4. PastOld(t)' => PastOld(t)  BY <2>1 DEF PastOld, WithList
    <3> QED  BY <2>4, <3>1, <3>3, <3>4 DEF ChecksApart
  <2> QED  BY <1>1, <2>4, <2>5, <2>6, <2>7, <2>8, ShiftKeepsRefresh, ShiftKeepsAnnounce DEF IInv
<1> QED  BY <1>2, <1>3

LEMMA AddedTyped ==
  ASSUME TypeParts, NEW t \in Tasks, task[t].manga \in Mangas
  PROVE  /\ Added(t) \in SUBSET Keys
         /\ \A k \in Added(t) : k \in ListedKeys(task[t].manga, task[t].list) /\ k \notin task[t].old
                                /\ k[1] = task[t].manga
<1>1. ListedKeys(task[t].manga, task[t].list) \in SUBSET Keys
      /\ \A k \in ListedKeys(task[t].manga, task[t].list) : k[1] = task[t].manga
  BY TaskTyped, ListedTypes
<1> QED  BY <1>1 DEF Added, compute_new_chapters

\* A check announces what it found new: it knew of everything that was announced.
LEMMA NotifyKeeps ==
  ASSUME IInv, NEW t \in Tasks \cap Checkers, Notify(t)
  PROVE  IInv'
<1>1. TypeParts /\ RefreshInv /\ CacheIsOneAnswer /\ AnnounceInv  BY DEF IInv
<1> DEFINE m == task[t].manga
           n == Done(t)
<1>2. task[t].pc = "notify" /\ Step(t, n) /\ UNCHANGED <<answer, crossed>> /\ Elsewhere  BY DEF Notify
<1>3. m \in Mangas  BY <1>1, <1>2, TaskTyped DEF AtManga
<1>4. n \in TaskRecords /\ n.pc \in {"idle", "next"} /\ n.pc \notin AtManga /\ n.pc \in Free
  BY <1>1, DoneTyped, FreeIsNotAt DEF TypeParts
<1>5. Added(t) \in SUBSET Keys
      /\ \A k \in Added(t) : k \in ListedKeys(m, task[t].list) /\ k \notin task[t].old /\ k[1] = m
  BY <1>1, <1>3, AddedTyped
<1> HIDE DEF n
<1>6. CASE ~Reachable
  <2>1. UNCHANGED <<db, told>>  BY <1>6 DEF Notify
  <2>2. Calmly(db, db') /\ Untold  BY <1>1, <1>2, <2>1, StayingCalm DEF Untold
  <2>3. Harmless(t, n)  BY <1>4 DEF Harmless
  <2>4. TypeParts' /\ HarmlessShift  BY <1>1, <1>2, <1>4, <2>2, <2>3, MovingHarmlessly
  <2> QED  BY <1>1, <2>4, HarmlessKeeps DEF IInv
<1>7. CASE Reachable
  <2>1. /\ db' = insert_notification(db, Added(t))
        /\ told' = [k \in Keys |-> IF k \in Added(t) THEN Min({told[k] + 1, 2}) ELSE told[k]]
    BY <1>7 DEF Notify
  <2>2. \A k \in Keys : told[k] \in 0..2  BY <1>1 DEF TypeParts, HistoryTyped
  <2>3. \A k \in Keys : Min({told[k] + 1, 2}) = IF told[k] + 1 <= 2 THEN told[k] + 1 ELSE 2
    BY <2>2, MinOfPair
  <2>4. \A k \in Keys : told'[k] = IF k \in Added(t) THEN (IF told[k] + 1 <= 2 THEN told[k] + 1 ELSE 2)
                                   ELSE told[k]
    BY <2>1, <2>3
  <2>5. told' \in [Keys -> 0..2]
    <3>1. \A k \in Keys : told'[k] \in 0..2  BY <2>2, <2>4
    <3>2. told' = [k \in Keys |-> told'[k]]  BY <2>1
    <3> QED  BY <3>1, <3>2
  <2>6. HistoryTyped'  BY <1>1, <1>2, <2>5 DEF TypeParts, HistoryTyped
  <2>7. Calmly(db, db')  BY <1>1, <1>5, <2>1, NotifyingCalm DEF TypeParts
  <2>8. Shift(t, n) /\ TypeParts'  BY <1>1, <1>2, <1>4, <2>6, <2>7, Moving
  <2>9. task' = [task EXCEPT ![t] = n] /\ UNCHANGED release /\ db'.chapters = db.chapters
    BY <1>2, <2>7 DEF Step, Elsewhere, Around, Calmly
  <2>10. \A u \in Tasks : task'[u] = IF u = t THEN n ELSE task[u]
    BY <1>1, <2>9 DEF TypeParts, TasksTyped
  <2>11. ListHeld(t)' /\ IdsOwn(t)' /\ CacheKnown(t)'
    BY <1>4, <2>10 DEF ListHeld, IdsOwn, CacheKnown, WithList
  <2>12. RefreshInv' /\ CacheIsOneAnswer'  BY <1>1, <1>4, <2>8, <2>11, ShiftKeepsRefresh
  <2>13. AnnounceInv'
    <3>1. SUFFICES ASSUME ~crossed'
                   PROVE  (AnnouncedOnce /\ ToldKept /\ ChecksApart /\ \A u \in Tasks : Remembers(u))'
      BY DEF AnnounceInv
    <3>2. AnnouncedOnce /\ ToldKept /\ ChecksApart /\ \A u \in Tasks : Remembers(u)
      BY <1>1, <1>2, <3>1 DEF AnnounceInv
    <3>3. \A k \in Keys : told[k] <= 1  BY <1>2, <3>1, <3>2 DEF AnnouncedOnce
    <3>4. \A k \in Added(t) : told[k] = 0 /\ Kept(k) /\ k[1] = m
      <4>1. \A k \in Added(t) : ~(told[k] >= 1) /\ Kept(k)
        BY <1>2, <1>5, <3>2 DEF Remembers, WithList
      <4> QED  BY <1>5, <2>2, <4>1
    <3>5. \A k : (NowListed(k)' <=> NowListed(k)) /\ (Kept(k)' <=> Kept(k))
                 /\ (EverListed(k)' <=> EverListed(k))
      BY <2>9 DEF NowListed, Kept, EverListed, ListNow
    <3>6. \A k \in Keys : told'[k] = IF k \in Added(t) THEN 1 ELSE told[k]  BY <2>4, <3>4
    <3>7. AnnouncedOnce'  BY <3>3, <3>6 DEF AnnouncedOnce
    <3>8. ToldKept'
      <4>1. ListHeld(t)  BY <1>1 DEF RefreshInv
      <4>2. \A k \in Added(t) : EverListed(k)  BY <1>2, <1>5, <4>1 DEF ListHeld, EverListed, WithList
      <4> QED  BY <3>2, <3>4, <3>5, <3>6, <4>2 DEF ToldKept
    <3>9. \A u \in Tasks : PastOld(u)' => PastOld(u) /\ u # t
      BY <1>4, <2>10 DEF PastOld, WithList
    <3>10. ChecksApart'  BY <2>10, <3>2, <3>9 DEF ChecksApart
    <3>11. ASSUME NEW u \in Tasks PROVE Remembers(u)'
      <4>1. CASE ~PastOld(u)'  BY <4>1 DEF PastOld, Remembers, WithList
      <4>2. CASE PastOld(u)'
        <5>1. u # t /\ PastOld(u) /\ task'[u] = task[u]  BY <2>10, <3>9, <4>2
        <5>2. PastOld(t)  BY <1>2 DEF PastOld, WithList
        <5>3. task[u].manga # m /\ Remembers(u)  BY <3>2, <5>1, <5>2 DEF ChecksApart
        <5>4. \A k \in Keys : k[1] = task[u].manga => told'[k] = told[k]  BY <3>4, <3>6, <5>3
        <5>5. task[u].manga \in Mangas /\ task[u].list \in Lists
          BY <1>1, <5>1, TaskTyped DEF PastOld, WithList, AtManga
        <5>6. \A k \in ListedKeys(task[u].manga, task[u].list) : k \in Keys /\ told'[k] = told[k]
          BY <5>4, <5>5, ListedTypes
        <5> QED  BY <3>5, <5>1, <5>3, <5>4, <5>6 DEF Remembers
      <4> QED  BY <4>1, <4>2
    <3> QED  BY <3>1, <3>7, <3>8, <3>10, <3>11
  <2> QED  BY <2>8, <2>12, <2>13 DEF IInv
<1> QED  BY <1>6, <1>7

\* The others that refresh the manga are no longer alone; their state is typed all the same.
LEMMA Disturbing ==
  ASSUME TypeParts, NEW t \in Tasks, NEW n \in TaskRecords, n.pc \in AtManga => n.manga \in Mangas,
         Disturbed(t, n)
  PROVE  /\ TasksTyped'
         /\ task'[t] = n
         /\ \A u \in Tasks \ {t} : /\ task'[u].pc = task[u].pc /\ task'[u].manga = task[u].manga
                                   /\ task'[u].list = task[u].list /\ task'[u].ids = task[u].ids
                                   /\ task'[u].old = task[u].old
                                   /\ task'[u].alone => task[u].alone /\ task[u].manga # task[t].manga
<1>1. task' = [u \in Tasks |-> IF u = t THEN n
                               ELSE IF task[u].manga = task[t].manga THEN [task[u] EXCEPT !.alone = FALSE]
                               ELSE task[u]]
  BY DEF Disturbed
<1>2. ASSUME NEW u \in Tasks \ {t}
      PROVE  /\ task'[u] \in TaskRecords
             /\ task'[u].pc = task[u].pc /\ task'[u].manga = task[u].manga
             /\ task'[u].list = task[u].list /\ task'[u].ids = task[u].ids
             /\ task'[u].old = task[u].old
             /\ task'[u].alone => task[u].alone /\ task[u].manga # task[t].manga
  <2>1. task[u] \in TaskRecords  BY TaskTyped
  <2>2. CASE task[u].manga = task[t].manga
    <3>1. task'[u] = [task[u] EXCEPT !.alone = FALSE]  BY <1>1, <2>2
    <3> QED  BY <2>1, <3>1 DEF TaskRecords
  <2>3. CASE task[u].manga # task[t].manga
    <3>1. task'[u] = task[u]  BY <1>1, <2>3
    <3> QED  BY <2>1, <2>3, <3>1
  <2> QED  BY <2>2, <2>3
<1>3. task'[t] = n  BY <1>1
<1>4. \A u \in Tasks : task'[u] \in TaskRecords /\ (task'[u].pc \in AtManga => task'[u].manga \in Mangas)
  BY <1>2, <1>3, TaskTyped
<1>5. TasksTyped'  BY <1>1, <1>4 DEF TasksTyped
<1> QED  BY <1>2, <1>3, <1>5

\* The statement that deletes takes only chapters of the manga that its answer lacks.
LEMMA RemovedOwn ==
  ASSUME IInv, NEW t \in Tasks, task[t].pc = "delete"
  PROVE  \A k \in Removed(t) : k \in Keys /\ k[1] = task[t].manga
                               /\ \E r \in 1..release[task[t].manga] :
                                    k \notin ListedKeys(task[t].manga, ListOf(task[t].manga, r))
<1>1. IdsOwn(t) /\ ListHeld(t) /\ task[t].ids \in SUBSET Keys  BY TaskTyped DEF IInv, RefreshInv
<1> QED  BY <1>1 DEF Removed, IdsOwn, ListHeld, WithList

LEMMA DeleteKeeps ==
  ASSUME IInv, NEW t \in Tasks, DeleteRemoved(t)
  PROVE  IInv'
<1>1. TypeParts /\ RefreshInv /\ CacheIsOneAnswer /\ AnnounceInv  BY DEF IInv
<1>2. CASE ~Reachable  BY <1>1, <1>2, Failing, HarmlessKeeps DEF IInv, DeleteRemoved
<1>3. CASE Reachable
  <2> DEFINE m == task[t].manga
             n == [task[t] EXCEPT !.pc = "insert"]
             removed == Removed(t)
  <2>1. /\ task[t].pc = "delete" /\ Disturbed(t, n) /\ db' = DeleteChapters(db, removed)
        /\ answer' = [answer EXCEPT ![m] = IF removed = {} THEN @ ELSE NULL]
        /\ crossed' = (crossed \/ removed \cap ListedKeys(m, ListNow(m)) # {})
        /\ UNCHANGED told /\ Elsewhere
    BY <1>3 DEF DeleteRemoved
  <2>2. m \in Mangas  BY <1>1, <2>1, TaskTyped DEF AtManga
  <2>3. /\ n \in TaskRecords /\ n.pc = "insert" /\ n.manga = m /\ n.list = task[t].list
        /\ n.old = task[t].old /\ n.ids = task[t].ids /\ n.alone = task[t].alone
    BY <1>1, TaskTyped DEF TaskRecords, AtManga
  <2>4. \A k \in removed : k \in Keys /\ k[1] = m
                           /\ \E r \in 1..release[m] : k \notin ListedKeys(m, ListOf(m, r))
    BY <2>1, RemovedOwn
  <2>5. Database(db') /\ DOMAIN db'.chapters = (DOMAIN db.chapters) \ removed
    BY <1>1, <2>1, Deleting DEF TypeParts
  <2>6. ListHeld(t) /\ CacheKnown(t) /\ IdsOwn(t)  BY <1>1 DEF RefreshInv
  <2>7. removed = task[t].ids \ ListedKeys(m, task[t].list)  BY DEF Removed
  <2> HIDE DEF n, removed
  <2>8. /\ TasksTyped' /\ task'[t] = n
        /\ \A u \in Tasks \ {t} : /\ task'[u].pc = task[u].pc /\ task'[u].manga = task[u].manga
                                  /\ task'[u].list = task[u].list /\ task'[u].ids = task[u].ids
                                  /\ task'[u].old = task[u].old
                                  /\ task'[u].alone => task[u].alone /\ task[u].manga # m
    BY <1>1, <2>1, <2>2, <2>3, Disturbing
  <2>9. UNCHANGED <<pool, files, release, cron, sync, left, told>>  BY <2>1 DEF Elsewhere, Around
  <2>10. TypeParts'
    <3>1. answer' \in [Mangas -> {NULL} \cup SUBSET Keys]  BY <1>1, <2>1 DEF TypeParts
    <3> QED  BY <1>1, <2>1, <2>5, <2>8, <2>9, <3>1 DEF TypeParts, HistoryTyped, CronTyped
  <2>11. \A x : find_cached_chapter_ids(db', x) = find_cached_chapter_ids(db, x) \ removed
    BY <2>5 DEF find_cached_chapter_ids
  <2>12. \A x : x # m => find_cached_chapter_ids(db', x) = find_cached_chapter_ids(db, x)
    BY <2>4, <2>11 DEF find_cached_chapter_ids
  <2>13. RefreshInv'
    <3>1. Released'  BY <1>1, <2>9 DEF RefreshInv, Released
    <3>2. ListHeld(t)' /\ IdsOwn(t)'  BY <2>1, <2>3, <2>6, <2>8, <2>9 DEF ListHeld, IdsOwn, WithList
    <3>3. CacheKnown(t)'
      <4> SUFFICES ASSUME task[t].alone
                   PROVE  find_cached_chapter_ids(db', m) \subseteq ListedKeys(m, task[t].list)
        BY <2>3, <2>8 DEF CacheKnown
      <4>1. find_cached_chapter_ids(db, m) = task[t].ids  BY <2>1, <2>6 DEF CacheKnown
      <4> QED  BY <2>7, <2>11, <4>1
    <3>4. ASSUME NEW u \in Tasks \ {t} PROVE (ListHeld(u) /\ IdsOwn(u) /\ CacheKnown(u))'
      <4>1. ListHeld(u) /\ IdsOwn(u) /\ CacheKnown(u)  BY <1>1 DEF RefreshInv
      <4>2. ListHeld(u)' /\ IdsOwn(u)'  BY <2>8, <2>9, <4>1 DEF ListHeld, IdsOwn
      <4>3. CacheKnown(u)'  BY <2>8, <2>12, <4>1 DEF CacheKnown
      <4> QED  BY <4>2, <4>3
    <3> QED  BY <3>1, <3>2, <3>3, <3>4 DEF RefreshInv
  <2>14. CacheIsOneAnswer'
    <3> SUFFICES ASSUME NEW x \in Mangas, answer'[x] # NULL
                 PROVE  find_cached_chapter_ids(db', x) = answer'[x]
      BY DEF CacheIsOneAnswer
    <3>1. DOMAIN answer = Mangas  BY <1>1 DEF TypeParts
    <3>2. CASE x # m
      <4>1. answer'[x] = answer[x]  BY <2>1, <3>2
      <4> QED  BY <1>1, <2>12, <3>2, <4>1 DEF CacheIsOneAnswer
    <3>3. CASE x = m
      <4>1. removed = {} /\ answer'[m] = answer[m]  BY <2>1, <2>2, <3>1, <3>3
      <4> QED  BY <1>1, <2>11, <3>3, <4>1 DEF CacheIsOneAnswer
    <3> QED  BY <3>2, <3>3
  <2>15. AnnounceInv'
    <3>1. SUFFICES ASSUME ~crossed'
                   PROVE  (AnnouncedOnce /\ ToldKept /\ ChecksApart /\ \A u \in Tasks : Remembers(u))'
      BY DEF AnnounceInv
    <3>2. AnnouncedOnce /\ ToldKept /\ ChecksApart /\ \A u \in Tasks : Remembers(u)
      BY <1>1, <2>1, <3>1 DEF AnnounceInv, TypeParts, HistoryTyped
    <3>3. \A k : (NowListed(k)' <=> NowListed(k)) /\ (EverListed(k)' <=> EverListed(k))
      BY <2>9 DEF NowListed, EverListed, ListNow
    <3>4. \A k : Kept(k) => Kept(k)'
      <4> SUFFICES ASSUME NEW k, Kept(k), k \in DOMAIN db.chapters, k \in removed PROVE ~NowListed(k)'
        BY <2>5, <3>3 DEF Kept
      <4>1. k[1] = m /\ k \notin ListedKeys(m, ListNow(m))  BY <2>1, <2>4, <3>1
      <4> QED  BY <3>3, <4>1 DEF NowListed
    <3>5. AnnouncedOnce' /\ ToldKept'
      BY <2>1, <2>9, <3>1, <3>2, <3>3, <3>4 DEF AnnouncedOnce, ToldKept
    <3>6. \A u \in Tasks : task'[u].manga = task[u].manga /\ task'[u].list = task[u].list
                           /\ task'[u].old = task[u].old
                           /\ (task'[u].pc = task[u].pc \/ (task[u].pc = "delete" /\ task'[u].pc = "insert"))
      BY <2>1, <2>3, <2>8
    <3>7. \A u \in Tasks : PastOld(u)' <=> PastOld(u)  BY <3>6 DEF PastOld, WithList
    <3>8. ChecksApart'  BY <3>2, <3>6, <3>7 DEF ChecksApart
    <3>9. ASSUME NEW u \in Tasks PROVE Remembers(u)'
      <4>1. Remembers(u)  BY <3>2
      <4> QED  BY <2>9, <3>3, <3>4, <3>6, <4>1 DEF Remembers, WithList
    <3> QED  BY <3>1, <3>5, <3>8, <3>9
  <2> QED  BY <2>10, <2>13, <2>14, <2>15 DEF IInv
<1> QED  BY <1>2, <1>3

LEMMA InsertKeeps ==
  ASSUME IInv, NEW t \in Tasks, InsertFetched(t)
  PROVE  IInv'
<1>1. TypeParts /\ RefreshInv /\ CacheIsOneAnswer /\ AnnounceInv  BY DEF IInv
<1>2. CASE ~Reachable  BY <1>1, <1>2, Failing, HarmlessKeeps DEF IInv, InsertFetched
<1>3. CASE Reachable
  <2> DEFINE m == task[t].manga
             fetched == ListedKeys(m, task[t].list)
             scheduling == [task[t] EXCEPT !.pc = "schedule"]
             n == IF t \in Handlers THEN IdleTask ELSE scheduling
  <2>1. /\ task[t].pc = "insert" /\ Disturbed(t, n) /\ db' = InsertChapters(db, m, task[t].list)
        /\ answer' = [answer EXCEPT ![m] = IF task[t].alone THEN fetched ELSE NULL]
        /\ Untold /\ Elsewhere
    BY <1>3 DEF InsertFetched
  <2>2. m \in Mangas /\ task[t].list \in Lists  BY <1>1, <2>1, TaskTyped DEF AtManga
  <2>3. /\ scheduling \in TaskRecords /\ scheduling.pc = "schedule" /\ scheduling.manga = m
        /\ scheduling.list = task[t].list /\ scheduling.old = task[t].old
    BY <1>1, TaskTyped DEF TaskRecords, AtManga
  <2>4. IdleTask \in TaskRecords /\ IdleTask.pc = "idle"  BY IdleTyped DEF IdleTask
  <2> HIDE DEF scheduling
  <2>5. /\ n \in TaskRecords /\ n.pc \in {"idle", "schedule"}
        /\ (n.pc \in AtManga => n.manga \in Mangas)
        /\ (t \in Handlers => n.pc = "idle")
        /\ (n.pc = "schedule" => n.manga = m /\ n.list = task[t].list /\ n.old = task[t].old)
    BY <2>2, <2>3, <2>4 DEF AtManga
  <2> HIDE DEF n
  <2>6. Database(db') /\ DOMAIN db'.chapters = (DOMAIN db.chapters) \cup fetched
    BY <1>1, <2>1, <2>2, Inserting DEF TypeParts
  <2>7. fetched \in SUBSET Keys /\ \A k \in fetched : k[1] = m  BY <2>2, ListedTypes
  <2>8. ListHeld(t) /\ CacheKnown(t)  BY <1>1 DEF RefreshInv
  <2>9. /\ TasksTyped' /\ task'[t] = n
        /\ \A u \in Tasks \ {t} : /\ task'[u].pc = task[u].pc /\ task'[u].manga = task[u].manga
                                  /\ task'[u].list = task[u].list /\ task'[u].ids = task[u].ids
                                  /\ task'[u].old = task[u].old
                                  /\ task'[u].alone => task[u].alone /\ task[u].manga # m
    BY <1>1, <2>1, <2>5, Disturbing
  <2>10. UNCHANGED <<pool, files, release, cron, sync, left, told, crossed>>
    BY <2>1 DEF Elsewhere, Around, Untold
  <2> HIDE DEF fetched
  <2>11. TypeParts'
    <3>1. answer' \in [Mangas -> {NULL} \cup SUBSET Keys]  BY <1>1, <2>1, <2>7 DEF TypeParts
    <3> QED  BY <1>1, <2>6, <2>9, <2>10, <3>1 DEF TypeParts, HistoryTyped, CronTyped
  <2>12. find_cached_chapter_ids(db', m) = find_cached_chapter_ids(db, m) \cup fetched
    BY <2>6, <2>7 DEF find_cached_chapter_ids
  <2>13. \A x : x # m => find_cached_chapter_ids(db', x) = find_cached_chapter_ids(db, x)
    BY <2>6, <2>7 DEF find_cached_chapter_ids
  <2>14. RefreshInv'
    <3>1. Released'  BY <1>1, <2>10 DEF RefreshInv, Released
    <3>2. ListHeld(t)' /\ IdsOwn(t)' /\ CacheKnown(t)'
      BY <2>1, <2>5, <2>8, <2>9, <2>10 DEF ListHeld, IdsOwn, CacheKnown, WithList
    <3>3. ASSUME NEW u \in Tasks \ {t} PROVE (ListHeld(u) /\ IdsOwn(u) /\ CacheKnown(u))'
      <4>1. ListHeld(u) /\ IdsOwn(u) /\ CacheKnown(u)  BY <1>1 DEF RefreshInv
      <4>2. ListHeld(u)' /\ IdsOwn(u)'  BY <2>9, <2>10, <4>1 DEF ListHeld, IdsOwn
      <4>3. CacheKnown(u)'  BY <2>9, <2>13, <4>1 DEF CacheKnown
      <4> QED  BY <4>2, <4>3
    <3> QED  BY <3>1, <3>2, <3>3 DEF RefreshInv
  <2>15. CacheIsOneAnswer'
    <3> SUFFICES ASSUME NEW x \in Mangas, answer'[x] # NULL
                 PROVE  find_cached_chapter_ids(db', x) = answer'[x]
      BY DEF CacheIsOneAnswer
    <3>1. DOMAIN answer = Mangas  BY <1>1 DEF TypeParts
    <3>2. CASE x # m
      <4>1. answer'[x] = answer[x]  BY <2>1, <3>2
      <4> QED  BY <1>1, <2>13, <3>2, <4>1 DEF CacheIsOneAnswer
    <3>3. CASE x = m
      <4>1. task[t].alone /\ answer'[m] = fetched  BY <2>1, <2>2, <3>1, <3>3
      <4>2. find_cached_chapter_ids(db, m) \subseteq fetched  BY <2>1, <2>8, <4>1 DEF CacheKnown, fetched
      <4> QED  BY <2>12, <3>3, <4>1, <4>2
    <3> QED  BY <3>2, <3>3
  <2>16. AnnounceInv'
    <3>1. SUFFICES ASSUME ~crossed'
                   PROVE  (AnnouncedOnce /\ ToldKept /\ ChecksApart /\ \A u \in Tasks : Remembers(u))'
      BY DEF AnnounceInv
    <3>2. AnnouncedOnce /\ ToldKept /\ ChecksApart /\ \A u \in Tasks : Remembers(u)
      BY <1>1, <2>10, <3>1 DEF AnnounceInv
    <3>3. \A k : (NowListed(k)' <=> NowListed(k)) /\ (EverListed(k)' <=> EverListed(k))
      BY <2>10 DEF NowListed, EverListed, ListNow
    <3>4. \A k : Kept(k) => Kept(k)'  BY <2>6, <3>3 DEF Kept
    <3>5. AnnouncedOnce' /\ ToldKept'
      BY <2>10, <3>1, <3>2, <3>3, <3>4 DEF AnnouncedOnce, ToldKept
    <3>6. \A u \in Tasks : PastOld(u)' => PastOld(u) /\ task'[u].manga = task[u].manga
      BY <2>1, <2>5, <2>9 DEF PastOld, WithList
    <3>7. ChecksApart'  BY <3>2, <3>6 DEF ChecksApart
    <3>8. ASSUME NEW u \in Tasks \ {t} PROVE Remembers(u)'
      <4>1. Remembers(u)  BY <3>2
      <4> QED  BY <2>9, <2>10, <3>3, <3>4, <4>1 DEF Remembers
    <3>9. Remembers(t)'
      <4>1. CASE n.pc = "idle"  BY <2>9, <4>1 DEF Remembers, WithList
      <4>2. CASE n.pc = "schedule"
        <5>1. \A k \in fetched : Kept(k)'  BY <2>6 DEF Kept
        <5>2. Remembers(t)  BY <3>2
        <5> QED  BY <2>1, <2>5, <2>9, <2>10, <4>2, <5>1, <5>2 DEF Remembers, WithList, fetched
      <4> QED  BY <2>5, <4>1, <4>2
    <3> QED  BY <3>1, <3>5, <3>7, <3>8, <3>9
  <2> QED  BY <2>11, <2>14, <2>15, <2>16 DEF IInv
<1> QED  BY <1>2, <1>3

-----------------------------------------------------------------------------
(* What happens around the tasks.                                           *)

\* A list that brings no chapter back lists nothing that was announced and is gone.
LEMMA PublishKeeps ==
  ASSUME IInv, NEW m \in Mangas, Publish(m)
  PROVE  IInv'
<1>1. TypeParts /\ RefreshInv /\ CacheIsOneAnswer /\ AnnounceInv  BY DEF IInv
<1>2. /\ release[m] < Len(Releases[m]) /\ release' = [release EXCEPT ![m] = @ + 1]
      /\ crossed' = (crossed \/ Returning(m, release[m] + 1) # {})
      /\ UNCHANGED <<db, pool, files, task, cron, sync, answer, told>>
  BY DEF Publish
<1>3. left' \in [Kinds -> Nat]  BY <1>1, Spending DEF Publish, TypeParts, Kinds
<1>4. \A x \in Mangas : release[x] \in Nat /\ release[x] \in 1..Len(Releases[x]) /\ Len(Releases[x]) \in Nat
  BY <1>1, ReleasesAssumption, LenProperties DEF TypeParts, RefreshInv, Released
<1>5. \A x \in Mangas : release'[x] = IF x = m THEN release[x] + 1 ELSE release[x]
  BY <1>1, <1>2 DEF TypeParts
<1>6. \A x \in Mangas : release'[x] \in Nat /\ release'[x] \in 1..Len(Releases[x])
                        /\ 1..release[x] \subseteq 1..release'[x]
  BY <1>2, <1>4, <1>5
<1>7. TypeParts'
  <2>1. release' \in [Mangas -> Nat]  BY <1>1, <1>2, <1>6 DEF TypeParts
  <2>2. crossed' \in BOOLEAN  BY <1>1, <1>2 DEF TypeParts, HistoryTyped
  <2> QED  BY <1>1, <1>2, <1>3, <2>1, <2>2 DEF TypeParts, TasksTyped, HistoryTyped, CronTyped
<1>8. RefreshInv'
  <2>1. Released'  BY <1>6 DEF Released
  <2>2. ASSUME NEW t \in Tasks PROVE (ListHeld(t) /\ IdsOwn(t) /\ CacheKnown(t))'
    <3>1. ListHeld(t) /\ IdsOwn(t) /\ CacheKnown(t)  BY <1>1 DEF RefreshInv
    <3>2. task[t].pc \in WithList => task[t].manga \in Mangas
      BY <1>1, TaskTyped DEF WithList, AtManga
    <3>3. ListHeld(t)'  BY <1>2, <1>6, <3>1, <3>2 DEF ListHeld
    <3> QED  BY <1>2, <3>1, <3>3 DEF IdsOwn, CacheKnown
  <2> QED  BY <2>1, <2>2 DEF RefreshInv
<1>9. CacheIsOneAnswer'  BY <1>1, <1>2 DEF CacheIsOneAnswer
<1>10. AnnounceInv'
  <2>1. SUFFICES ASSUME ~crossed'
                 PROVE  (AnnouncedOnce /\ ToldKept /\ ChecksApart /\ \A u \in Tasks : Remembers(u))'
    BY DEF AnnounceInv
  <2>2. AnnouncedOnce /\ ToldKept /\ ChecksApart /\ \A u \in Tasks : Remembers(u)
    BY <1>1, <1>2, <2>1 DEF AnnounceInv, TypeParts, HistoryTyped
  <2>3. Returning(m, release[m] + 1) = {}  BY <1>1, <1>2, <2>1 DEF TypeParts, HistoryTyped
  <2>4. \A k \in Keys : EverListed(k) => EverListed(k)'
    <3>1. \A k \in Keys : k[1] \in Mangas  BY DEF Keys
    <3> QED  BY <1>6, <3>1 DEF EverListed
  <2>5. ASSUME NEW k \in Keys, EverListed(k), ~NowListed(k) PROVE ~NowListed(k)'
    <3>1. k[1] \in Mangas  BY DEF Keys
    <3>2. CASE k[1] # m
      <4>1. release'[k[1]] = release[k[1]]  BY <1>5, <3>1, <3>2
      <4> QED  BY <2>5, <4>1 DEF NowListed, ListNow
    <3>3. CASE k[1] = m
      <4> DEFINE r == release[m] + 1
      <4>1. release[m] \in Nat /\ r - 1 = release[m] /\ release'[m] = r  BY <1>4, <1>5
      <4>2. PICK q \in 1..(r - 1) : k \in ListedKeys(m, ListOf(m, q))  BY <2>5, <3>3, <4>1 DEF EverListed
      <4>3. k \notin ListedKeys(m, ListOf(m, r - 1))  BY <2>5, <3>3, <4>1 DEF NowListed, ListNow
      <4>4. k \notin ListedKeys(m, ListOf(m, r))  BY <2>3, <4>2, <4>3 DEF Returning
      <4> QED  BY <3>3, <4>1, <4>4 DEF NowListed, ListNow
    <3> QED  BY <3>2, <3>3
  <2>6. \A k \in Keys : EverListed(k) /\ Kept(k) => Kept(k)'  BY <1>2, <2>5 DEF Kept
  <2>7. AnnouncedOnce' /\ ToldKept'
    BY <1>2, <2>1, <2>2, <2>4, <2>6 DEF AnnouncedOnce, ToldKept
  <2>8. \A u \in Tasks : PastOld(u)' <=> PastOld(u)  BY <1>2 DEF PastOld
  <2>9. ChecksApart'  BY <1>2, <2>2, <2>8 DEF ChecksApart
  <2>10. ASSUME NEW u \in Tasks PROVE Remembers(u)'
    <3>1. Remembers(u) /\ ListHeld(u)  BY <1>1, <2>2 DEF RefreshInv
    <3>2. \A k \in Keys : told[k] >= 1 /\ ~NowListed(k) => ~NowListed(k)'  BY <2>2, <2>5 DEF ToldKept
    <3>3. ASSUME task[u].pc \in WithList, NEW k \in ListedKeys(task[u].manga, task[u].list), Kept(k)
          PROVE  Kept(k)'
      <4>1. task[u].manga \in Mangas /\ task[u].list \in Lists
        BY <1>1, <3>3, TaskTyped DEF WithList, AtManga
      <4>2. k \in Keys /\ k[1] = task[u].manga  BY <4>1, ListedTypes
      <4>3. EverListed(k)  BY <3>1, <3>3, <4>2 DEF ListHeld, EverListed
      <4> QED  BY <2>6, <3>3, <4>2, <4>3
    <3> QED  BY <1>2, <3>1, <3>2, <3>3 DEF Remembers, WithList
  <2> QED  BY <2>1, <2>7, <2>9, <2>10
<1> QED  BY <1>7, <1>8, <1>9, <1>10 DEF IInv

LEMMA InstallKeeps ==
  ASSUME IInv, InstallPool
  PROVE  IInv'
<1>1. TypeParts /\ RefreshInv /\ CacheIsOneAnswer /\ AnnounceInv  BY DEF IInv
<1>2. /\ sync' = "idle" /\ ((pool' = "file" /\ db' \in Copies) \/ UNCHANGED <<pool, db>>)
      /\ answer' = IF db' = db THEN answer ELSE [x \in Mangas |-> NULL]
      /\ task' = IF db' = db THEN task ELSE [t \in Tasks |-> [task[t] EXCEPT !.alone = FALSE]]
      /\ crossed' = (crossed \/ db' # db)
      /\ UNCHANGED <<files, release, cron, left, told>>
  BY DEF InstallPool
<1>3. Database(db')  BY <1>1, <1>2, DatabasesAssumption DEF TypeParts
<1>4. CASE db' = db
  <2>1. Elapse  BY <1>1, <1>2, <1>4 DEF Elapse, TypeParts, HistoryTyped
  <2>2. TypeParts'
    BY <1>1, <1>2, <1>3, <1>4 DEF TypeParts, TasksTyped, HistoryTyped, CronTyped
  <2> QED  BY <1>1, <2>1, <2>2, ElapseKeeps DEF IInv
<1>5. CASE db' # db
  <2>1. crossed' = TRUE /\ answer' = [x \in Mangas |-> NULL]
        /\ task' = [t \in Tasks |-> [task[t] EXCEPT !.alone = FALSE]]
    BY <1>2, <1>5
  <2>2. ASSUME NEW t \in Tasks
        PROVE  /\ task'[t] \in TaskRecords /\ task'[t].alone = FALSE
               /\ task'[t].pc = task[t].pc /\ task'[t].manga = task[t].manga
               /\ task'[t].list = task[t].list /\ task'[t].ids = task[t].ids
    BY <1>1, <2>1, TaskTyped DEF TaskRecords
  <2>3. TasksTyped'  BY <1>1, <2>1, <2>2, TaskTyped DEF TasksTyped
  <2>4. TypeParts'
    <3>1. answer' \in [Mangas -> {NULL} \cup SUBSET Keys]  BY <2>1
    <3> QED  BY <1>1, <1>2, <1>3, <2>1, <2>3, <3>1 DEF TypeParts, HistoryTyped, CronTyped
  <2>5. \A t \in Tasks : (ListHeld(t) /\ IdsOwn(t) /\ CacheKnown(t))'
    BY <1>1, <1>2, <2>2 DEF RefreshInv, ListHeld, IdsOwn, CacheKnown
  <2>6. RefreshInv'  BY <1>1, <1>2, <2>5 DEF RefreshInv, Released
  <2>7. CacheIsOneAnswer'  BY <2>1 DEF CacheIsOneAnswer
  <2>8. AnnounceInv'  BY <2>1 DEF AnnounceInv
  <2> QED  BY <2>4, <2>6, <2>7, <2>8 DEF IInv
<1> QED  BY <1>4, <1>5

LEMMA CronOffTyped == CronOff \in CronRecords /\ CronOff.running = (CronOff.pc # "off")
BY DEF CronOff, CronRecords

LEMMA RestartKeeps ==
  ASSUME IInv, Restart
  PROVE  IInv'
<1>1. TypeParts /\ RefreshInv /\ CacheIsOneAnswer /\ AnnounceInv  BY DEF IInv
<1>2. /\ pool' = "file" /\ sync' = "idle" /\ task' = [t \in Tasks |-> IdleTask]
      /\ cron' = IF CronEnabled THEN CompareExchange(CronOff, {}) ELSE CronOff
      /\ UNCHANGED <<db, files, release, answer, told, crossed>>
  BY DEF Restart
<1>3. left' \in [Kinds -> Nat]  BY <1>1, Spending DEF Restart, TypeParts, Kinds
<1>4. IdleTask \in TaskRecords /\ IdleTask.pc = "idle"  BY IdleTyped DEF IdleTask
<1>5. TasksTyped'  BY <1>2, <1>4, FreeIsNotAt DEF TasksTyped
<1>6. CronTyped'  BY <1>2, CronOffTyped, CronStarts DEF CronTyped
<1>7. TypeParts'  BY <1>1, <1>2, <1>3, <1>5, <1>6 DEF TypeParts, HistoryTyped
<1>8. \A t \in Tasks : task'[t].pc = "idle"  BY <1>2, <1>4
<1>9. RefreshInv'
  BY <1>1, <1>2, <1>8 DEF RefreshInv, Released, ListHeld, IdsOwn, CacheKnown, WithList
<1>10. CacheIsOneAnswer'  BY <1>1, <1>2 DEF CacheIsOneAnswer
<1>11. AnnounceInv'
  <2>1. \A k : (NowListed(k)' <=> NowListed(k)) /\ (Kept(k)' <=> Kept(k)) /\ (EverListed(k)' <=> EverListed(k))
    BY <1>2 DEF NowListed, Kept, EverListed, ListNow
  <2>2. \A t \in Tasks : Remembers(t)' /\ ~PastOld(t)'  BY <1>8 DEF Remembers, PastOld, WithList
  <2> QED  BY <1>1, <1>2, <2>1, <2>2 DEF AnnounceInv, AnnouncedOnce, ToldKept, ChecksApart
<1> QED  BY <1>7, <1>9, <1>10, <1>11 DEF IInv

-----------------------------------------------------------------------------
(* The cron task.                                                           *)

\* What a step of the cron task does: it stops only where the pool is out of reach.
CronEffect == TypeParts' /\ (Elapse \/ HarmlessShift) /\ (cron'.pc = "off" => ~Reachable)

LEMMA CronMoves ==
  ASSUME TypeParts, NEW c \in CronRecords, c.running = (c.pc # "off"), c.pc = "off" => ~Reachable,
         CronStep(c),
         UNCHANGED task \/ \E n \in TaskRecords : n.pc \in {"idle", "next"} /\ Step("cron", n)
  PROVE  CronEffect
<1>1. cron' = c /\ UNCHANGED <<db, pool, files, release, sync, left, answer, told, crossed>>
  BY DEF CronStep
<1>2. CronTyped'  BY <1>1 DEF CronTyped
<1>3. CASE UNCHANGED task
  <2>1. TypeParts'  BY <1>1, <1>2, <1>3 DEF TypeParts, TasksTyped, HistoryTyped
  <2>2. Elapse  BY <1>1, <1>3 DEF Elapse
  <2> QED  BY <1>1, <2>1, <2>2 DEF CronEffect
<1>4. ASSUME NEW n \in TaskRecords, n.pc \in {"idle", "next"}, Step("cron", n) PROVE CronEffect
  <2>1. "cron" \in Tasks  BY DEF Tasks, Checkers
  <2>2. task' = [task EXCEPT !["cron"] = n]  BY <1>4 DEF Step
  <2>3. n.pc \notin AtManga /\ n.pc \in Free  BY <1>4, FreeIsNotAt
  <2>4. TasksTyped'  BY <1>4, <2>1, <2>2, <2>3, ShiftTyped DEF TypeParts
  <2>5. TypeParts'  BY <1>1, <1>2, <2>4 DEF TypeParts, HistoryTyped
  <2>6. Shift("cron", n) /\ Harmless("cron", n)  BY <1>1, <2>2, <2>3 DEF Shift, Harmless
  <2>7. HarmlessShift  BY <1>1, <1>4, <2>1, <2>6 DEF HarmlessShift
  <2> QED  BY <1>1, <2>5, <2>7 DEF CronEffect
<1> QED  BY <1>3, <1>4

LEMMA DueRows ==
  ASSUME NEW d, Database(d), NEW sources,
         NEW q \in SetToSeqs({r \in get_due_mangas(d) : SourceOf(r[1]) \notin sources})
  PROVE  q \in Queues
<1> DEFINE rows == {r \in get_due_mangas(d) : SourceOf(r[1]) \notin sources}
<1>1. \A m \in DOMAIN d.check : m \in Mangas /\ Status(d, m) \in KnownStatuses
  BY DEF Database, Status, KnownStatuses
<1>2. rows \in SUBSET (Mangas \X KnownStatuses)  BY <1>1 DEF get_due_mangas
<1> HIDE DEF rows
<1> QED  BY <1>2, RowsQueue DEF rows

\* The time to the next manga is a time.
LEMMA NextTimes ==
  ASSUME NEW d, Database(d), NEW sources, get_next_ts_arima_min(d, sources) # NULL
  PROVE  get_next_ts_arima_min(d, sources) \in Nat
<1> DEFINE rows == {m \in DOMAIN d.check : SourceOf(m) \notin sources}
           times == {d.check[m] : m \in rows}
<1>1. rows \subseteq Mangas /\ \A m \in rows : d.check[m] \in Nat  BY DEF Database
<1>2. IsFiniteSet(rows)  BY <1>1, FiniteAssumption, FS_Subset
<1>3. rows # {} /\ get_next_ts_arima_min(d, sources) = Min(times)  BY DEF get_next_ts_arima_min
<1>4. times \in SUBSET Nat /\ times # {}  BY <1>1, <1>3
<1>5. IsFiniteSet(times)
  <2> DEFINE f == [m \in rows |-> d.check[m]]
  <2>1. f \in Surjection(rows, times)  BY DEF Surjection
  <2> HIDE DEF rows, times, f
  <2> QED  BY <1>2, <2>1, FS_Surjection
<1> HIDE DEF times
<1>6. Min(times) \in times
  <2>1. times \in SUBSET Int  BY <1>4
  <2> QED  BY <1>4, <1>5, <2>1, MinOfSet
<1> QED  BY <1>3, <1>4, <1>6

LEMMA SleepTyped ==
  ASSUME TypeParts, cron.pc # "off", NEW next \in Nat
  PROVE  Sleep(next) \in CronRecords /\ Sleep(next).pc = "sleep" /\ Sleep(next).running = TRUE
<1> DEFINE w == Max({next, cron.cool})
<1>1. cron \in CronRecords /\ cron.running = TRUE /\ cron.cool \in Nat
  BY DEF TypeParts, CronTyped, CronRecords
<1>2. w \in Nat  BY <1>1, MaxOfPair
<1>3. Sleep(next) = [cron EXCEPT !.pc = "sleep", !.wait = w]  BY DEF Sleep
<1> HIDE DEF w
<1> QED  BY <1>1, <1>2, <1>3 DEF CronRecords

\* A record of the cron task that runs and changes its state only.
LEMMA RunningTyped ==
  ASSUME TypeParts, cron.pc # "off"
  PROVE  /\ \A pc \in {"poll", "sweep", "batch"} :
              /\ [cron EXCEPT !.pc = pc] \in CronRecords /\ [cron EXCEPT !.pc = pc].pc = pc
              /\ [cron EXCEPT !.pc = pc].running = TRUE
         /\ [cron EXCEPT !.pc = "batch", !.cool = 1] \in CronRecords
         /\ [cron EXCEPT !.pc = "batch", !.cool = 1].pc = "batch"
         /\ [cron EXCEPT !.pc = "batch", !.cool = 1].running = TRUE
         /\ Doze \in CronRecords /\ Doze.pc = "doze" /\ Doze.running = TRUE
<1>1. cron \in CronRecords /\ cron.running = TRUE  BY DEF TypeParts, CronTyped
<1> QED  BY <1>1 DEF CronRecords, Doze

LEMMA StepOfCron ==
  ASSUME TypeParts, CronProceeds
  PROVE  CronEffect
<1>1. CronOff \in CronRecords /\ CronOff.running = (CronOff.pc # "off")  BY CronOffTyped
<1>2. IdleTask \in TaskRecords /\ IdleTask.pc = "idle"  BY IdleTyped DEF IdleTask
<1>3. Database(db)  BY DEF TypeParts
<1>4. CASE CronPoll
  <2> DEFINE next == get_next_ts_arima_min(db, SkipSources)
  <2>1. cron.pc = "poll"  BY <1>4 DEF CronPoll
  <2>2. CASE ~Reachable
    <3>1. CronStep(CronOff) /\ UNCHANGED task  BY <1>4, <2>2 DEF CronPoll, CronStops
    <3> QED  BY <1>1, <2>2, <3>1, CronMoves
  <2>3. CASE Reachable /\ next # NULL
    <3>1. CronStep(Sleep(next)) /\ UNCHANGED task  BY <1>4, <2>3 DEF CronPoll
    <3>2. next \in Nat  BY <1>3, <2>3, NextTimes
    <3> HIDE DEF next
    <3>3. Sleep(next) \in CronRecords /\ Sleep(next).pc = "sleep" /\ Sleep(next).running = TRUE
      BY <2>1, <3>2, SleepTyped
    <3> QED  BY <3>1, <3>3, CronMoves
  <2>4. CASE Reachable /\ next = NULL
    <3>1. PICK q \in get_manga_library_and_status(db) :
            Step("cron", [IdleTask EXCEPT !.pc = "next", !.queue = q])
      BY <1>4, <2>4 DEF CronPoll
    <3>2. CronStep([cron EXCEPT !.pc = "sweep"])  BY <1>4, <2>4 DEF CronPoll
    <3>3. [IdleTask EXCEPT !.pc = "next", !.queue = q] \in TaskRecords
          /\ [IdleTask EXCEPT !.pc = "next", !.queue = q].pc = "next"
      BY <1>3, ListingRows, IdleTyped
    <3> DEFINE n == [IdleTask EXCEPT !.pc = "next", !.queue = q]
               c == [cron EXCEPT !.pc = "sweep"]
    <3>4. c \in CronRecords /\ c.pc = "sweep" /\ c.running = TRUE  BY <2>1, RunningTyped
    <3> HIDE DEF c
    <3>5. CronStep(c)  BY <3>2 DEF c
    <3> QED  BY <3>1, <3>3, <3>4, <3>5, CronMoves
  <2> QED  BY <2>2, <2>3, <2>4
<1>5. CASE CronRepoll
  <2> DEFINE next == get_next_ts_arima_min(db, SkipSources)
  <2>1. cron.pc = "sweep" /\ Step("cron", IdleTask)  BY <1>5 DEF CronRepoll
  <2>2. CASE ~Reachable
    <3>1. CronStep(CronOff)  BY <1>5, <2>2 DEF CronRepoll
    <3> QED  BY <1>1, <1>2, <2>1, <2>2, <3>1, CronMoves
  <2>3. CASE Reachable /\ next # NULL
    <3>1. CronStep(Sleep(next))  BY <1>5, <2>3 DEF CronRepoll
    <3>2. next \in Nat  BY <1>3, <2>3, NextTimes
    <3> HIDE DEF next
    <3>3. Sleep(next) \in CronRecords /\ Sleep(next).pc = "sleep" /\ Sleep(next).running = TRUE
      BY <2>1, <3>2, SleepTyped
    <3> QED  BY <1>2, <2>1, <3>1, <3>3, CronMoves
  <2>4. CASE Reachable /\ next = NULL
    <3>1. CronStep(Doze)  BY <1>5, <2>4 DEF CronRepoll
    <3>2. Doze \in CronRecords /\ Doze.pc = "doze" /\ Doze.running = TRUE  BY <2>1, RunningTyped
    <3> QED  BY <1>2, <2>1, <3>1, <3>2, CronMoves
  <2> QED  BY <2>2, <2>3, <2>4
<1>6. CASE CronDozes
  <2> DEFINE c == [cron EXCEPT !.pc = "poll"]
  <2>1. cron.pc = "doze" /\ CronStep(c) /\ UNCHANGED task  BY <1>6 DEF CronDozes
  <2>2. c \in CronRecords /\ c.pc = "poll" /\ c.running = TRUE  BY <2>1, RunningTyped
  <2> HIDE DEF c
  <2> QED  BY <2>1, <2>2, CronMoves
<1>7. CASE CronDue
  <2>1. cron.pc = "sleep"  BY <1>7 DEF CronDue
  <2>2. CASE ~Reachable
    <3>1. CronStep(CronOff) /\ UNCHANGED task  BY <1>7, <2>2 DEF CronDue, CronStops
    <3> QED  BY <1>1, <2>2, <3>1, CronMoves
  <2>3. CASE Reachable
    <3> DEFINE c == [cron EXCEPT !.pc = "batch", !.cool = 1]
    <3>1. PICK s \in SetToSeqs({d \in get_due_mangas(db) : SourceOf(d[1]) \notin SkipSources}) :
            CronStep(c) /\ Step("cron", [IdleTask EXCEPT !.pc = "next", !.queue = s])
      BY <1>7, <2>3 DEF CronDue
    <3>2. s \in Queues  BY <1>3, DueRows
    <3> DEFINE n == [IdleTask EXCEPT !.pc = "next", !.queue = s]
    <3>3. n \in TaskRecords /\ n.pc = "next"  BY <3>2, IdleTyped
    <3>4. c \in CronRecords /\ c.pc = "batch" /\ c.running = TRUE  BY <2>1, RunningTyped
    <3>5. CronStep(c) /\ Step("cron", n)  BY <3>1
    <3> HIDE DEF c, n
    <3> QED  BY <3>3, <3>4, <3>5, CronMoves
  <2> QED  BY <2>2, <2>3
<1>8. CASE CronBatchEnds
  <2> DEFINE c == [cron EXCEPT !.pc = "poll"]
  <2>1. cron.pc = "batch" /\ CronStep(c) /\ Step("cron", IdleTask)  BY <1>8 DEF CronBatchEnds
  <2>2. c \in CronRecords /\ c.pc = "poll" /\ c.running = TRUE  BY <2>1, RunningTyped
  <2> HIDE DEF c
  <2> QED  BY <1>2, <2>1, <2>2, CronMoves
<1> QED  BY <1>4, <1>5, <1>6, <1>7, <1>8 DEF CronProceeds

\* A unit of time moves the times that are left and nothing else.
LEMMA StepOfTime ==
  ASSUME TypeParts, Tick
  PROVE  TypeParts' /\ Elapse /\ cron'.pc = cron.pc
<1>1. /\ db' = [db EXCEPT !.check = [m \in DOMAIN db.check |-> Less(db.check[m])]]
      /\ cron' = [cron EXCEPT !.wait = Less(cron.wait), !.cool = Less(cron.cool)]
      /\ UNCHANGED <<pool, files, release, task, sync, left, answer, told, crossed>>
  BY DEF Tick, Less
<1>2. Calmly(db, db')  BY <1>1, TimePassesCalm DEF TypeParts
<1>3. cron \in CronRecords /\ cron.running = (cron.pc # "off")  BY DEF TypeParts, CronTyped
<1>4. Less(cron.wait) \in Nat /\ Less(cron.cool) \in Nat  BY <1>3 DEF Less, CronRecords
<1>5. cron' \in CronRecords /\ cron'.pc = cron.pc /\ cron'.running = cron.running
  <2> DEFINE w == Less(cron.wait)
             c == Less(cron.cool)
  <2>1. w \in Nat /\ c \in Nat /\ cron' = [cron EXCEPT !.wait = w, !.cool = c]  BY <1>1, <1>4
  <2> HIDE DEF w, c
  <2> QED  BY <1>3, <2>1 DEF CronRecords
<1>6. CronTyped'  BY <1>3, <1>5 DEF CronTyped
<1>7. TypeParts'  BY <1>1, <1>2, <1>6 DEF Calmly, TypeParts, TasksTyped, HistoryTyped
<1>8. Elapse  BY <1>1, <1>2 DEF Elapse, Calmly
<1> QED  BY <1>5, <1>7, <1>8

-----------------------------------------------------------------------------
(* A request of a handler refreshes and does nothing else: it is never      *)
(* where a check schedules or announces.                                    *)

HandlerStates == {"idle", "fetch", "ids", "delete", "insert"}
HandlersOnly == \A t \in Handlers : task[t].pc \in HandlerStates

\* A step of one task may take its handler from state to state, and no other's.
LEMMA OneHandlerMoves ==
  ASSUME TypeParts, HandlersOnly, NEW t \in Tasks, NEW n, n.pc \in HandlerStates \/ t \notin Handlers,
         Step(t, n) \/ Disturbed(t, n)
  PROVE  HandlersOnly'
<1>1. \A u \in Tasks : task[u] \in TaskRecords  BY TaskTyped
<1>2. ASSUME NEW u \in Handlers PROVE task'[u].pc \in HandlerStates
  <2>1. u \in Tasks /\ DOMAIN task = Tasks  BY DEF Tasks, TypeParts, TasksTyped
  <2>2. CASE u = t
    <3>1. task'[t] = n  BY <2>1 DEF Step, Disturbed
    <3> QED  BY <2>2, <3>1
  <2>3. CASE u # t
    <3>1. task'[u] = task[u] \/ task'[u] = [task[u] EXCEPT !.alone = FALSE]
      BY <2>1, <2>3 DEF Step, Disturbed
    <3>2. task'[u].pc = task[u].pc  BY <1>1, <2>1, <3>1 DEF TaskRecords
    <3> QED  BY <3>2 DEF HandlersOnly
  <2> QED  BY <2>2, <2>3
<1> QED  BY <1>2 DEF HandlersOnly

LEMMA TaskKeepsHandlers ==
  ASSUME TypeParts, HandlersOnly, NEW t \in Tasks, TaskStep(t) \/ Fails(t)
  PROVE  HandlersOnly'
<1>1. task[t] \in TaskRecords  BY TaskTyped
<1>2. t \in Handlers => task[t].pc \in HandlerStates /\ Done(t).pc = "idle"
  BY DEF HandlersOnly, Done, IdleTask
<1>3. CASE Fails(t)
  <2>1. Done(t).pc \in HandlerStates \/ t \notin Handlers  BY <1>2 DEF HandlerStates
  <2> QED  BY <1>3, <2>1, OneHandlerMoves DEF Fails
<1>4. CASE ~Fails(t) /\ TaskStep(t)
  <2>1. CASE t \notin Handlers
    <3>1. PICK n : Step(t, n) \/ Disturbed(t, n)
      BY <1>4 DEF TaskStep, Fetch, ReadIds, DeleteRemoved, InsertFetched, NextManga, RefreshDetails,
                  ForgetCompleted, ReadOld, Schedule, Notify
    <3> QED  BY <2>1, <3>1, OneHandlerMoves
  <2>2. CASE t \in Handlers
    <3>1. task[t].pc \notin {"next", "details", "completed", "old", "schedule", "notify"}
      BY <1>2, <2>2 DEF HandlerStates
    <3>2. Fetch(t) \/ ReadIds(t) \/ DeleteRemoved(t) \/ InsertFetched(t)
      BY <1>4, <3>1 DEF TaskStep, NextManga, RefreshDetails, ForgetCompleted, ReadOld, Schedule, Notify
    <3>3. CASE Fetch(t)
      <4> DEFINE n == [task[t] EXCEPT !.pc = "ids", !.list = ListNow(task[t].manga)]
      <4>1. n.pc = "ids"  BY <1>1 DEF TaskRecords
      <4>2. Step(t, n)  BY <1>4, <3>3 DEF Fetch
      <4> HIDE DEF n
      <4> QED  BY <4>1, <4>2, OneHandlerMoves DEF HandlerStates
    <3>4. CASE ReadIds(t)
      <4> DEFINE n == [task[t] EXCEPT !.pc = "delete", !.alone = TRUE,
                                      !.ids = find_cached_chapter_ids(db, task[t].manga)]
      <4>1. n.pc = "delete"  BY <1>1 DEF TaskRecords
      <4>2. Step(t, n)  BY <1>4, <3>4 DEF ReadIds
      <4> HIDE DEF n
      <4> QED  BY <4>1, <4>2, OneHandlerMoves DEF HandlerStates
    <3>5. CASE DeleteRemoved(t)
      <4> DEFINE n == [task[t] EXCEPT !.pc = "insert"]
      <4>1. n.pc = "insert"  BY <1>1 DEF TaskRecords
      <4>2. Disturbed(t, n)  BY <1>4, <3>5 DEF DeleteRemoved
      <4> HIDE DEF n
      <4> QED  BY <4>1, <4>2, OneHandlerMoves DEF HandlerStates
    <3>6. CASE InsertFetched(t)
      <4>1. IdleTask.pc = "idle"  BY DEF IdleTask
      <4>2. Disturbed(t, IdleTask)  BY <1>4, <2>2, <3>6 DEF InsertFetched
      <4> QED  BY <4>1, <4>2, OneHandlerMoves DEF HandlerStates
    <3> QED  BY <3>2, <3>3, <3>4, <3>5, <3>6
  <2> QED  BY <2>1, <2>2
<1> QED  BY <1>3, <1>4

LEMMA HandlersKeep ==
  ASSUME TypeParts, HandlersOnly, [Next]_vars
  PROVE  HandlersOnly'
<1>1. "manual" \in Tasks \ Handlers /\ "cron" \in Tasks \ Handlers
  BY HandlersAssumption DEF Tasks, Checkers
<1>2. CASE UNCHANGED task  BY <1>2 DEF HandlersOnly
<1>3. CASE UserStep  BY <1>2, <1>3, StepOfUser DEF UserEffect
<1>4. ASSUME NEW t \in Handlers, NEW m \in Mangas, StartRefresh(t, m) PROVE HandlersOnly'
  <2> DEFINE n == [IdleTask EXCEPT !.pc = "fetch", !.manga = m]
  <2>1. n.pc = "fetch"  BY DEF IdleTask
  <2>2. Step(t, n) /\ t \in Tasks  BY <1>4 DEF StartRefresh, Tasks
  <2> HIDE DEF n
  <2> QED  BY <2>1, <2>2, OneHandlerMoves DEF HandlerStates
<1>5. ASSUME NEW t \in Tasks, TaskStep(t) \/ DropRequest(t) PROVE HandlersOnly'
  BY <1>5, TaskKeepsHandlers DEF DropRequest
<1>6. CASE StartManualCheck \/ EndManualCheck
  <2>1. PICK n : Step("manual", n)  BY <1>6 DEF StartManualCheck, EndManualCheck
  <2> QED  BY <1>1, <2>1, OneHandlerMoves
<1>7. CASE CronProceeds
  <2>1. UNCHANGED task \/ \E n : Step("cron", n)
    BY <1>7 DEF CronProceeds, CronPoll, CronRepoll, CronDozes, CronDue, CronBatchEnds, CronStops
  <2>2. CASE \E n : Step("cron", n)
    <3>1. PICK n : Step("cron", n)  BY <2>2
    <3> QED  BY <1>1, <3>1, OneHandlerMoves
  <2> QED  BY <1>2, <2>1, <2>2
<1>8. CASE (\E m \in Mangas : Publish(m)) \/ Tick \/ TakePool
  <2>1. UNCHANGED task  BY <1>8 DEF Publish, Tick, TakePool
  <2> QED  BY <1>2, <2>1
<1>9. CASE InstallPool
  <2>1. CASE UNCHANGED task  BY <1>2, <2>1
  <2>2. CASE task' = [t \in Tasks |-> [task[t] EXCEPT !.alone = FALSE]]
    <3>1. \A t \in Tasks : task'[t].pc = task[t].pc  BY <2>2, TaskTyped DEF TaskRecords
    <3> QED  BY <3>1 DEF HandlersOnly, Tasks
  <2> QED  BY <1>9, <2>1, <2>2 DEF InstallPool
<1>10. CASE Restart
  <2>1. \A t \in Handlers : task'[t].pc = "idle"  BY <1>10 DEF Restart, IdleTask, Tasks
  <2> QED  BY <2>1 DEF HandlersOnly, HandlerStates
<1>11. CASE UNCHANGED vars  BY <1>2, <1>11 DEF vars
<1> QED  BY <1>3, <1>4, <1>5, <1>6, <1>7, <1>8, <1>9, <1>10, <1>11 DEF Next

-----------------------------------------------------------------------------
(* Every step.                                                              *)

LEMMA UserKeeps ==
  ASSUME IInv, UserStep
  PROVE  IInv'
<1>1. TypeParts /\ RefreshInv /\ CacheIsOneAnswer /\ AnnounceInv  BY DEF IInv
<1>2. UserEffect  BY <1>1, StepOfUser
<1>3. Elapse  BY <1>2 DEF UserEffect, Elapse, Calmly
<1>4. TypeParts'  BY <1>1, <1>2 DEF UserEffect, Calmly, TypeParts, TasksTyped, HistoryTyped
<1> QED  BY <1>1, <1>3, <1>4, ElapseKeeps DEF IInv

LEMMA TakePoolKeeps ==
  ASSUME IInv, TakePool
  PROVE  IInv'
<1>1. TypeParts /\ RefreshInv /\ CacheIsOneAnswer /\ AnnounceInv  BY DEF IInv
<1>2. /\ sync' = "replacing" /\ pool' = "memory"
      /\ UNCHANGED <<db, files, release, task, cron, answer, told, crossed>>
  BY DEF TakePool
<1>3. left' \in [Kinds -> Nat]  BY <1>1, Spending DEF TakePool, TypeParts, Kinds
<1>4. TypeParts'  BY <1>1, <1>2, <1>3 DEF TypeParts, TasksTyped, CronTyped, HistoryTyped
<1>5. Elapse  BY <1>2 DEF Elapse
<1> QED  BY <1>1, <1>4, <1>5, ElapseKeeps DEF IInv

LEMMA TaskKeeps ==
  ASSUME IInv, HandlersOnly, NEW t \in Tasks, TaskStep(t) \/ DropRequest(t)
  PROVE  IInv'
<1>1. TypeParts /\ RefreshInv /\ CacheIsOneAnswer /\ AnnounceInv  BY DEF IInv
<1>2. CASE NextManga(t) \/ RefreshDetails(t) \/ ForgetCompleted(t) \/ DropRequest(t)
  <2>1. TypeParts' /\ HarmlessShift
    BY <1>1, <1>2, NextOfQueue, DetailsRefreshed, CompletedForgotten, Failing DEF DropRequest
  <2> QED  BY <1>1, <2>1, HarmlessKeeps DEF IInv
<1>3. CASE Notify(t)
  <2>1. t \in Checkers
    <3>1. task[t].pc \notin HandlerStates  BY <1>3 DEF Notify, HandlerStates
    <3> QED  BY <3>1 DEF HandlersOnly, Tasks
  <2> QED  BY <1>3, <2>1, NotifyKeeps
<1> QED
  BY <1>2, <1>3, FetchKeeps, ReadIdsKeeps, DeleteKeeps, InsertKeeps, ReadOldKeeps, ScheduleKeeps
     DEF TaskStep

LEMMA NextKeeps ==
  ASSUME IInv, HandlersOnly, [Next]_vars
  PROVE  IInv'
<1>1. TypeParts /\ RefreshInv /\ CacheIsOneAnswer /\ AnnounceInv  BY DEF IInv
<1>2. CASE (\E t \in Handlers, m \in Mangas : StartRefresh(t, m)) \/ StartManualCheck \/ EndManualCheck
  <2>1. TypeParts' /\ HarmlessShift
    BY <1>1, <1>2, StartOfRefresh, StartOfManualCheck, EndOfManualCheck
  <2> QED  BY <1>1, <2>1, HarmlessKeeps DEF IInv
<1>3. CASE CronProceeds \/ Tick
  <2>1. TypeParts' /\ (Elapse \/ HarmlessShift)  BY <1>1, <1>3, StepOfCron, StepOfTime DEF CronEffect
  <2> QED  BY <1>1, <2>1, HarmlessKeeps, ElapseKeeps DEF IInv
<1>4. CASE UNCHANGED vars
  <2>1. Elapse  BY <1>4 DEF Elapse, vars
  <2>2. TypeParts'  BY <1>1, <1>4 DEF vars, TypeParts, TasksTyped, CronTyped, HistoryTyped
  <2> QED  BY <1>1, <2>1, <2>2, ElapseKeeps DEF IInv
<1> QED
  BY <1>2, <1>3, <1>4, UserKeeps, TaskKeeps, PublishKeeps, TakePoolKeeps, InstallKeeps, RestartKeeps
     DEF Next

LEMMA InitIInv == Init => IInv /\ HandlersOnly
<1> SUFFICES ASSUME Init PROVE IInv /\ HandlersOnly  OBVIOUS
<1>1. /\ db \in InitialDatabases /\ pool = "file" /\ files = {} /\ release = [m \in Mangas |-> 1]
      /\ task = [t \in Tasks |-> IdleTask] /\ cron = CronOff /\ sync = "idle" /\ left \in Budgets
      /\ answer = [m \in Mangas |-> find_cached_chapter_ids(db, m)]
      /\ told = [k \in Keys |-> 0] /\ crossed = FALSE
  BY DEF Init
<1>2. IdleTask \in TaskRecords /\ IdleTask.pc = "idle"  BY IdleTyped DEF IdleTask
<1>3. Database(db)  BY <1>1, DatabasesAssumption
<1>4. TypeParts
  <2>1. TasksTyped  BY <1>1, <1>2, FreeIsNotAt DEF TasksTyped
  <2>2. CronTyped  BY <1>1, CronOffTyped DEF CronTyped
  <2>3. answer \in [Mangas -> {NULL} \cup SUBSET Keys]  BY <1>1, <1>3, CachedIds
  <2>4. HistoryTyped
    <3>1. told \in [Keys -> 0..2]  BY <1>1
    <3>2. crossed \in BOOLEAN  BY <1>1
    <3> QED  BY <3>1, <3>2 DEF HistoryTyped
  <2> QED  BY <1>1, <1>3, <2>1, <2>2, <2>3, <2>4, TimesAssumption DEF TypeParts
<1>5. \A t \in Tasks : task[t].pc = "idle"  BY <1>1, <1>2
<1>6. RefreshInv
  <2>1. \A m \in Mangas : Len(Releases[m]) \in Nat /\ Len(Releases[m]) # 0
    BY ReleasesAssumption, LenProperties, EmptySeq
  <2>2. Released  BY <1>1, <2>1 DEF Released
  <2> QED  BY <1>5, <2>2 DEF RefreshInv, ListHeld, IdsOwn, CacheKnown, WithList
<1>7. CacheIsOneAnswer  BY <1>1 DEF CacheIsOneAnswer
<1>8. AnnounceInv
  <2>1. \A t \in Tasks : Remembers(t) /\ ~PastOld(t)  BY <1>5 DEF Remembers, PastOld, WithList
  <2>2. AnnouncedOnce /\ ToldKept  BY <1>1 DEF AnnouncedOnce, ToldKept
  <2> QED  BY <2>1, <2>2 DEF AnnounceInv, ChecksApart
<1>9. HandlersOnly  BY <1>5 DEF HandlersOnly, HandlerStates, Tasks
<1> QED  BY <1>4, <1>6, <1>7, <1>8, <1>9 DEF IInv

LEMMA Invariance == Spec => [](IInv /\ HandlersOnly)
<1>1. IInv /\ HandlersOnly /\ [Next]_vars => (IInv /\ HandlersOnly)'
  <2>1. IInv => TypeParts  BY DEF IInv
  <2> QED  BY <2>1, NextKeeps, HandlersKeep
<1> QED  BY <1>1, InitIInv, PTL DEF Spec

-----------------------------------------------------------------------------
\* The state of the tables and the tasks stays well formed: every manga of the library
\* once, rows of playlists that exist, times and queues that the checks can use.
THEOREM TypeCorrect == Spec => []TypeOK
<1>1. IInv => TypeOK  BY TypeIsParts DEF IInv
<1> QED  BY <1>1, Invariance, PTL

\* After a refresh nothing disturbed, the cached chapters of a manga are those of its
\* answer (refresh_manga_chapters, upsert_cached_chapter_informations).
THEOREM RefreshLeavesItsAnswer == Spec => []CacheIsOneAnswer
<1>1. IInv => CacheIsOneAnswer  BY DEF IInv
<1> QED  BY <1>1, Invariance, PTL

\* No new chapter is announced a second time while checks of a manga do not overlap, no
\* outdated answer removes a chapter and no source lists one again that it had dropped.
THEOREM NewChaptersToldOnce == Spec => []AnnouncedOnce
<1>1. IInv => AnnouncedOnce  BY DEF IInv, AnnounceInv, AnnouncedOnce
<1> QED  BY <1>1, Invariance, PTL

-----------------------------------------------------------------------------
(* What no step does.                                                       *)

\* Only the two statements of a refresh and a new file change the chapters.
LEMMA ChaptersChange ==
  ASSUME IInv, [Next]_vars
  PROVE  \/ db'.chapters = db.chapters
         \/ \E t \in Tasks : DeleteRemoved(t) \/ InsertFetched(t)
         \/ InstallPool
<1>1. TypeParts  BY DEF IInv
<1>2. CASE UserStep  BY <1>1, <1>2, StepOfUser DEF UserEffect, Calmly
<1>3. CASE CronProceeds \/ Tick
  BY <1>1, <1>3, StepOfCron, StepOfTime DEF CronEffect, Elapse, HarmlessShift, Shift
<1>4. ASSUME NEW t \in Tasks, NextManga(t) \/ RefreshDetails(t) \/ ForgetCompleted(t) \/ DropRequest(t)
      PROVE  db'.chapters = db.chapters
  BY <1>1, <1>4, NextOfQueue, DetailsRefreshed, CompletedForgotten DEF DropRequest, Fails, HarmlessShift, Shift
<1>5. ASSUME NEW t \in Tasks, Fetch(t) \/ ReadIds(t) \/ ReadOld(t) PROVE UNCHANGED db
  BY <1>5 DEF Fetch, ReadIds, ReadOld, Fails
<1>6. ASSUME NEW t \in Tasks, Schedule(t) PROVE db'.chapters = db.chapters
  <2>1. task[t].manga \in Mangas /\ Database(db)
    BY <1>1, <1>6, TaskTyped DEF Schedule, AtManga, TypeParts
  <2>2. UNCHANGED db \/ \E next \in NextCheck(t) : db' = set_last_check_update_manga(db, task[t].manga, next)
    BY <1>6 DEF Schedule, Fails
  <2>3. \A next \in NextCheck(t) : next \in Nat  BY TimesAssumption DEF NextCheck
  <2> QED  BY <2>1, <2>2, <2>3, ChecksCalm DEF Calmly
<1>7. ASSUME NEW t \in Tasks, Notify(t) PROVE db'.chapters = db.chapters
  <2>1. task[t].manga \in Mangas /\ Database(db)
    BY <1>1, <1>7, TaskTyped DEF Notify, AtManga, TypeParts
  <2>2. Added(t) \in SUBSET Keys  BY <1>1, <2>1, AddedTyped
  <2>3. UNCHANGED db \/ db' = insert_notification(db, Added(t))  BY <1>7 DEF Notify
  <2> QED  BY <2>1, <2>2, <2>3, NotifyingCalm DEF Calmly
<1>8. CASE (\E t \in Handlers, m \in Mangas : StartRefresh(t, m)) \/ StartManualCheck \/ EndManualCheck
           \/ (\E m \in Mangas : Publish(m)) \/ TakePool \/ Restart \/ UNCHANGED vars
  BY <1>8 DEF StartRefresh, StartManualCheck, EndManualCheck, Publish, TakePool, Restart, vars
<1> QED  BY <1>2, <1>3, <1>4, <1>5, <1>6, <1>7, <1>8 DEF Next, TaskStep

\* What a refresh deletes is missing from one of the lists its source has published.
LEMMA ListedStays ==
  ASSUME IInv, NEW t \in Tasks, DeleteRemoved(t) \/ InsertFetched(t), NEW k \in DOMAIN db.chapters,
         \A r \in DOMAIN Releases[k[1]] : k \in ListedKeys(k[1], ListOf(k[1], r))
  PROVE  k \in DOMAIN db'.chapters
<1>1. TypeParts /\ RefreshInv  BY DEF IInv
<1>2. Database(db) /\ task[t].manga \in Mangas /\ task[t].list \in Lists
  BY <1>1, TaskTyped DEF DeleteRemoved, InsertFetched, AtManga, TypeParts
<1>3. CASE UNCHANGED db  BY <1>3
<1>4. CASE db' = InsertChapters(db, task[t].manga, task[t].list)
  BY <1>2, <1>4, Inserting
<1>5. CASE DeleteRemoved(t) /\ db' = DeleteChapters(db, Removed(t))
  <2>1. task[t].pc = "delete" /\ Released  BY <1>1, <1>5 DEF DeleteRemoved, RefreshInv
  <2> DEFINE R == Releases[task[t].manga]
  <2>2. 1..release[task[t].manga] \subseteq DOMAIN R
    <3>1. R \in Seq(Seq(ListedChapters)) /\ release[task[t].manga] \in 1..Len(R)
      BY <1>2, <2>1, ReleasesAssumption DEF Released
    <3>2. DOMAIN R = 1..Len(R) /\ Len(R) \in Nat  BY <3>1, LenProperties
    <3> QED  BY <3>1, <3>2
  <2>3. k \notin Removed(t)  BY <2>1, <2>2, RemovedOwn
  <2> QED  BY <1>2, <1>5, <2>3, Deleting
<1> QED  BY <1>3, <1>4, <1>5 DEF DeleteRemoved, InsertFetched, Fails

\* A cached chapter that the source has always listed keeps its row through every
\* refresh, check and request, however they interleave (the statement that deletes runs
\* before the one that inserts, without a transaction).
THEOREM ListedChaptersStay == Spec => KnownChaptersStay
<1> DEFINE Stays == sync = sync' =>
             \A k \in DOMAIN db.chapters :
               (\A r \in DOMAIN Releases[k[1]] : k \in ListedKeys(k[1], ListOf(k[1], r)))
               => k \in DOMAIN db'.chapters
<1>1. IInv /\ HandlersOnly /\ [Next]_vars => [Stays]_vars
  <2>1. InstallPool => sync # sync'  BY DEF InstallPool
  <2> QED  BY <2>1, ChaptersChange, ListedStays
<1> QED  BY <1>1, Invariance, PTL DEF Spec, KnownChaptersStay

\* The cron task ends at a replaced database and at a restart, at nothing else.
THEOREM CronGoesOn == Spec => CronOutlivesErrors
<1> DEFINE Outlives == cron.pc # "off" /\ cron'.pc = "off"
                         => pool = "memory" \/ left'.restarting # left.restarting
<1>1. IInv /\ HandlersOnly /\ [Next]_vars => [Outlives]_vars
  <2> SUFFICES ASSUME IInv, [Next]_vars PROVE Outlives  OBVIOUS
  <2>1. TypeParts  BY DEF IInv
  <2>2. CASE UNCHANGED cron  BY <2>2
  <2>3. CASE UserStep  BY <2>1, <2>3, StepOfUser DEF UserEffect
  <2>4. CASE CronProceeds  BY <2>1, <2>4, StepOfCron DEF CronEffect, Reachable, TypeParts
  <2>5. CASE Tick  BY <2>1, <2>5, StepOfTime
  <2>6. CASE Restart
    <3>1. left'["restarting"] # left["restarting"]
      BY <2>1, <2>6, Spending DEF Restart, TypeParts, Kinds
    <3> QED  BY <3>1
  <2>7. ASSUME NEW t \in Tasks, TaskStep(t) \/ DropRequest(t) PROVE UNCHANGED cron
    BY <2>7 DEF TaskStep, Fetch, ReadIds, DeleteRemoved, InsertFetched, NextManga, RefreshDetails,
                ForgetCompleted, ReadOld, Schedule, Notify, DropRequest, Fails, Elsewhere, Around
  <2>8. CASE (\E t \in Handlers, m \in Mangas : StartRefresh(t, m)) \/ StartManualCheck \/ EndManualCheck
             \/ (\E m \in Mangas : Publish(m)) \/ TakePool \/ InstallPool \/ UNCHANGED vars
    BY <2>8 DEF StartRefresh, StartManualCheck, EndManualCheck, Publish, TakePool, InstallPool, vars,
                Elsewhere, Around
  <2> QED  BY <2>2, <2>3, <2>4, <2>5, <2>6, <2>7, <2>8 DEF Next
<1> QED  BY <1>1, Invariance, PTL DEF Spec, CronOutlivesErrors

-----------------------------------------------------------------------------
(* The listings.                                                            *)

\* The columns a listing is sorted by.
Comparable(r) ==
  /\ r.rowid \in Int /\ r.title \in Int /\ r.source \in Int /\ r.unread \in Int
  /\ r.last_read \in {NULL} \cup Int

\* Each sorting mode compares any two rows and is transitive, NULL times included.
LEMMA ModesOrder ==
  ASSUME NEW mode \in SortingModes, NEW a, NEW b, NEW c, Comparable(a), Comparable(b), Comparable(c)
  PROVE  /\ LibraryOrder(mode, a, b) \/ LibraryOrder(mode, b, a)
         /\ LibraryOrder(mode, a, b) /\ LibraryOrder(mode, b, c) => LibraryOrder(mode, a, c)
<1> DEFINE desc == mode[2]
<1>1. mode[1] \in SortKeys /\ desc \in BOOLEAN  BY DEF SortingModes
<1>2. CASE mode[1] = "Rowid"
  BY <1>1, <1>2 DEF LibraryOrder, LibraryByRowid, LibraryByTitle, LibraryByUnread, LibraryByLastRead,
                    LibraryBySource, Ordered, NullsLast, Comparable
<1>3. CASE mode[1] = "Title"
  BY <1>1, <1>3 DEF LibraryOrder, LibraryByRowid, LibraryByTitle, LibraryByUnread, LibraryByLastRead,
                    LibraryBySource, Ordered, NullsLast, Comparable
<1>4. CASE mode[1] = "Unread"
  BY <1>1, <1>4 DEF LibraryOrder, LibraryByRowid, LibraryByTitle, LibraryByUnread, LibraryByLastRead,
                    LibraryBySource, Ordered, NullsLast, Comparable
<1>5. CASE mode[1] = "LastRead"
  BY <1>1, <1>5 DEF LibraryOrder, LibraryByRowid, LibraryByTitle, LibraryByUnread, LibraryByLastRead,
                    LibraryBySource, Ordered, NullsLast, Comparable
<1>6. CASE mode[1] = "Source"
  BY <1>1, <1>6 DEF LibraryOrder, LibraryByRowid, LibraryByTitle, LibraryByUnread, LibraryByLastRead,
                    LibraryBySource, Ordered, NullsLast, Comparable
<1> QED  BY <1>1, <1>2, <1>3, <1>4, <1>5, <1>6 DEF SortKeys

\* The playlist's queries sort as the library's do.
LEMMA OneOrder ==
  ASSUME NEW mode \in SortingModes, NEW a, NEW b
  PROVE  PlaylistOrder(mode, a, b) <=> LibraryOrder(mode, a, b)
<1>1. mode[1] \in SortKeys  BY DEF SortingModes
<1> QED
  BY <1>1 DEF PlaylistOrder, LibraryOrder, SortKeys,
       LibraryByRowid, LibraryByTitle, LibraryByUnread, LibraryByLastRead, LibraryBySource,
       PlaylistByRowid, PlaylistByTitle, PlaylistByUnread, PlaylistByLastRead, PlaylistBySource

LEMMA ShownFinite ==
  ASSUME NEW d, Database(d), NEW m
  PROVE  /\ ShownChapters(d, m) \in SUBSET Keys /\ IsFiniteSet(ShownChapters(d, m))
         /\ \A n : Cardinality(After(d, ShownChapters(d, m), n)) \in Nat
<1>1. ShownChapters(d, m) \in SUBSET Keys /\ IsFiniteSet(ShownChapters(d, m))
  BY CachedIds, FS_Subset DEF ShownChapters
<1>2. ASSUME NEW n PROVE Cardinality(After(d, ShownChapters(d, m), n)) \in Nat
  <2>1. After(d, ShownChapters(d, m), n) \subseteq ShownChapters(d, m)  BY DEF After
  <2> QED  BY <1>1, <2>1, FS_Subset, FS_CardinalityType
<1> QED  BY <1>1, <1>2

\* The number in a listing is that of a marking, or 0 where a marking has none.
LEMMA OneCount ==
  ASSUME NEW d, Database(d), NEW m, NEW i
  PROVE  LET row == ListedRow(d, m, i)
             count == count_unread_chapters(d, m)
         IN  (row.unread = 0 \/ row.unread = count) /\ count \in {NULL, row.unread}
<1> DEFINE shown == ShownChapters(d, m)
           last_read == MaxOr(Numbers(d, {k \in shown : IsRead(d, k)}), -1)
<1>1. ListedRow(d, m, i).unread = Cardinality(After(d, shown, last_read))
  BY DEF ListedRow, ListedUnread
<1>2. count_unread_chapters(d, m) = IF shown = {} THEN NULL ELSE Cardinality(After(d, shown, last_read))
  BY DEF count_unread_chapters
<1> HIDE DEF last_read
<1>3. CASE shown = {}
  <2>1. After(d, shown, last_read) = {}  BY <1>3 DEF After
  <2>2. ListedRow(d, m, i).unread = 0  BY <1>1, <2>1, FS_EmptySet
  <2> QED  BY <1>2, <1>3, <2>2
<1>4. CASE shown # {}  BY <1>1, <1>2, <1>4
<1> QED  BY <1>3, <1>4

LEMMA RowsComparable ==
  ASSUME NEW d, Database(d), NEW m \in DOMAIN d.info, NEW i \in Nat
  PROVE  Comparable(ListedRow(d, m, i)) /\ ListedRow(d, m, i).manga = m /\ ListedRow(d, m, i).rowid = i
<1> DEFINE shown == ShownChapters(d, m)
           number == MaxOr(Numbers(d, {k \in shown : IsRead(d, k)}), -1)
           times == {LastRead(d, k) : k \in shown} \ {NULL}
           time == MaxOr(times, NULL)
           own == Value(d.manga_state, m, "viewer")
           viewer == IF own # NULL THEN own
                     ELSE IF m \in DOMAIN d.details THEN d.details[m].viewer ELSE 0
<1>1. ListedRow(d, m, i)
        = [manga |-> m, rowid |-> i, title |-> d.info[m], source |-> SourceOf(m),
           unread |-> Cardinality(After(d, shown, number)),
           last_read |-> time, viewer |-> viewer, state_viewer |-> own # NULL]
  BY DEF ListedRow, ListedUnread
<1>2. d.info[m] \in Int /\ SourceOf(m) \in Int  BY SourcesAssumption DEF Database
<1>3. Cardinality(After(d, shown, number)) \in Nat
  <2> HIDE DEF number
  <2> QED  BY ShownFinite
<1>4. time \in {NULL} \cup Int
  <2>1. times \in SUBSET Int
    <3>1. \A k \in Keys : LastRead(d, k) \in {NULL} \cup Int  BY DEF LastRead, Value, Database
    <3> QED  BY <3>1, ShownFinite
  <2>2. IsFiniteSet(times)
    <3> DEFINE all == {LastRead(d, k) : k \in shown}
               f == [k \in shown |-> LastRead(d, k)]
    <3>1. f \in Surjection(shown, all)  BY DEF Surjection
    <3>2. IsFiniteSet(shown)  BY ShownFinite
    <3>3. times \subseteq all  OBVIOUS
    <3> HIDE DEF shown, all, f, times
    <3>4. IsFiniteSet(all)  BY <3>1, <3>2, FS_Surjection
    <3> QED  BY <3>3, <3>4, FS_Subset
  <2> HIDE DEF times
  <2>3. CASE times = {}  BY <2>3 DEF MaxOr
  <2>4. CASE times # {}
    <3>1. Max(times) \in Int  BY <2>1, <2>2, <2>4, MaxOfSet
    <3> QED  BY <2>4, <3>1 DEF MaxOr
  <2> QED  BY <2>3, <2>4
<1> HIDE DEF shown, number, time, own, viewer
<1> QED  BY <1>1, <1>2, <1>3, <1>4 DEF Comparable

\* The rows of a listing: one for each manga of the table with cached information.
LEMMA RowsOfTable ==
  ASSUME NEW d, Database(d), NEW table, RowTable(table, Mangas)
  PROVE  /\ IsFiniteSet(ListedRows(d, table))
         /\ \A r \in ListedRows(d, table) : Comparable(r)
         /\ \A r \in ListedRows(d, table) :
              \E i \in DOMAIN table : r = ListedRow(d, table[i], i) /\ r.manga = table[i]
         /\ {r.manga : r \in ListedRows(d, table)} = ToSet(table) \cap DOMAIN d.info
         /\ \A r, q \in ListedRows(d, table) : r.manga = q.manga => r = q
<1> DEFINE places == {j \in DOMAIN table : table[j] \in DOMAIN d.info}
           row(i) == ListedRow(d, table[i], i)
<1>1. DOMAIN table \subseteq Nat /\ IsFiniteSet(DOMAIN table) /\ ToSet(table) \subseteq Mangas /\ IsInjective(table)
  BY DEF RowTable
<1>2. ListedRows(d, table) = {row(i) : i \in places}  BY DEF ListedRows
<1>3. \A i \in places : Comparable(row(i)) /\ row(i).manga = table[i] /\ row(i).rowid = i
  BY <1>1, RowsComparable
<1> HIDE DEF row
<1>4. IsFiniteSet({row(i) : i \in places})
  <2> DEFINE f == [i \in places |-> row(i)]
             rows == {row(i) : i \in places}
  <2>1. f \in Surjection(places, rows)  BY DEF Surjection
  <2>2. IsFiniteSet(places)  BY <1>1, FS_Subset
  <2> HIDE DEF f, places, rows
  <2>3. IsFiniteSet(rows)  BY <2>1, <2>2, FS_Surjection
  <2> QED  BY <2>3 DEF rows
<1>5. {r.manga : r \in {row(i) : i \in places}} = ToSet(table) \cap DOMAIN d.info
  <2>1. {r.manga : r \in {row(i) : i \in places}} = {table[i] : i \in places}  BY <1>3
  <2>2. ToSet(table) = {table[i] : i \in DOMAIN table}  BY DEF ToSet
  <2> QED  BY <2>1, <2>2
<1>6. \A i, j \in places : row(i).manga = row(j).manga => i = j  BY <1>1, <1>3 DEF IsInjective
<1> QED  BY <1>2, <1>3, <1>4, <1>5, <1>6 DEF row

\* Whatever order a mode leaves open, a listing says the same of every manga.
LEMMA ListingsSay ==
  ASSUME Database(db), NEW table, RowTable(table, Mangas), NEW mode \in SortingModes
  PROVE  AllAgree({s \in SetToSeqs(ListedRows(db, table)) :
                     \A i \in 1..(Len(s) - 1) : LibraryOrder(mode, s[i], s[i + 1])}, table)
<1> DEFINE rows == ListedRows(db, table)
           R == {p \in rows \X rows : LibraryOrder(mode, p[1], p[2])}
<1>1. /\ IsFiniteSet(rows) /\ \A r \in rows : Comparable(r)
      /\ \A r \in rows : \E i \in DOMAIN table : r = ListedRow(db, table[i], i) /\ r.manga = table[i]
      /\ {r.manga : r \in rows} = ToSet(table) \cap DOMAIN db.info
      /\ \A r, q \in rows : r.manga = q.manga => r = q
  BY RowsOfTable
<1> HIDE DEF rows
<1>2. \E s \in SetToSeqs(rows) : \A i \in 1..(Len(s) - 1) : LibraryOrder(mode, s[i], s[i + 1])
  <2>1. \A a, b \in rows : <<a, b>> \in R <=> LibraryOrder(mode, a, b)  OBVIOUS
  <2>2. \A a, b \in rows : <<a, b>> \in R \/ <<b, a>> \in R
    <3> HIDE DEF R
    <3> QED  BY <1>1, <2>1, ModesOrder
  <2>3. \A a, b, c \in rows : <<a, b>> \in R /\ <<b, c>> \in R => <<a, c>> \in R
    <3> HIDE DEF R
    <3> QED  BY <1>1, <2>1, ModesOrder
  <2>4. \A p \in R : LibraryOrder(mode, p[1], p[2])  OBVIOUS
  <2> HIDE DEF R
  <2>5. PICK s \in SetToSeqs(rows) : \A i \in 1..(Len(s) - 1) : <<s[i], s[i + 1]>> \in R
    BY <1>1, <2>2, <2>3, Sorting
  <2> QED  BY <2>4, <2>5
<1>3. ASSUME NEW s \in SetToSeqs(rows) PROVE Agrees(s, table)
  <2>1. /\ \A i \in DOMAIN s : s[i] \in rows
        /\ \A i, j \in DOMAIN s : s[i] = s[j] => i = j
        /\ \A x \in rows : \E i \in DOMAIN s : s[i] = x
    BY <1>1, Listing, ElementOfSeq
  <2>2. {s[i].manga : i \in DOMAIN s} = {r.manga : r \in rows}  BY <2>1
  <2>3. \A i, j \in DOMAIN s : s[i].manga = s[j].manga => i = j  BY <1>1, <2>1
  <2>4. ASSUME NEW i \in DOMAIN s
        PROVE  /\ s[i].unread = 0 \/ s[i].unread = count_unread_chapters(db, s[i].manga)
               /\ count_unread_chapters(db, s[i].manga) \in {NULL, s[i].unread}
    <3>1. PICK j \in DOMAIN table : s[i] = ListedRow(db, table[j], j) /\ s[i].manga = table[j]
      BY <1>1, <2>1
    <3> QED  BY <3>1, OneCount
  <2> QED  BY <1>1, <2>2, <2>3, <2>4 DEF Agrees
<1> QED  BY <1>2, <1>3 DEF rows, AllAgree

LEMMA PlaylistRows ==
  ASSUME NEW d, Database(d), NEW p
  PROVE  RowTable(PlaylistTable(d, p), Mangas)
<1> DEFINE t == d.playlist_mangas
           u == PlaylistTable(d, p)
<1>1. DOMAIN t \subseteq Nat /\ IsFiniteSet(DOMAIN t) /\ IsInjective(t)
      /\ \A i \in DOMAIN t : t[i] \in (DOMAIN d.playlists) \X Mangas
  BY DEF Database, RowTable, ToSet
<1>2. DOMAIN u = {j \in DOMAIN t : t[j][1] = p} /\ \A i \in DOMAIN u : u[i] = t[i][2]
  BY DEF PlaylistTable
<1> HIDE DEF t, u
<1>3. IsFiniteSet(DOMAIN u) /\ DOMAIN u \subseteq Nat  BY <1>1, <1>2, FS_Subset
<1>4. \A i \in DOMAIN u : t[i] = <<p, u[i]>> /\ u[i] \in Mangas  BY <1>1, <1>2
<1>5. IsInjective(u)  BY <1>1, <1>2, <1>4 DEF IsInjective
<1>6. ToSet(u) \subseteq Mangas  BY <1>4 DEF ToSet
<1> QED  BY <1>3, <1>5, <1>6 DEF RowTable, u

\* Every listing of the library or of a playlist, in each of the ten sorting modes, shows
\* each manga of its table that has cached information once, with the number of unread
\* chapters that the marking of a chapter answers.
THEOREM ListingsAreOne == Spec => []ListingsAgree
<1>1. IInv => ListingsAgree
  <2> SUFFICES ASSUME IInv, NEW mode \in SortingModes
               PROVE  /\ AllAgree(get_manga_library_with_read_count(db, mode), db.library)
                      /\ \A p \in DOMAIN db.playlists :
                           AllAgree(get_manga_library_in_playlist_with_read_count(db, p, mode),
                                    PlaylistTable(db, p))
    BY DEF ListingsAgree
  <2>1. Database(db) /\ RowTable(db.library, Mangas)  BY DEF IInv, TypeParts, Database
  <2>2. AllAgree(get_manga_library_with_read_count(db, mode), db.library)
    BY <2>1, ListingsSay DEF get_manga_library_with_read_count
  <2>3. ASSUME NEW p \in DOMAIN db.playlists
        PROVE  AllAgree(get_manga_library_in_playlist_with_read_count(db, p, mode), PlaylistTable(db, p))
    <3> DEFINE table == PlaylistTable(db, p)
    <3>1. RowTable(table, Mangas)  BY <2>1, PlaylistRows
    <3>2. get_manga_library_in_playlist_with_read_count(db, p, mode)
            = {s \in SetToSeqs(ListedRows(db, table)) :
                 \A i \in 1..(Len(s) - 1) : LibraryOrder(mode, s[i], s[i + 1])}
      BY OneOrder DEF get_manga_library_in_playlist_with_read_count
    <3> HIDE DEF table
    <3> QED  BY <2>1, <3>1, <3>2, ListingsSay DEF table
  <2> QED  BY <2>2, <2>3
<1> QED  BY <1>1, Invariance, PTL
=============================================================================
