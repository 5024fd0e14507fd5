---------------------------- MODULE LibraryTables ----------------------------
(***************************************************************************)
(* The statements of shared/src/database.rs as operators: a query is a     *)
(* value computed from the tables, a statement that writes is the tables   *)
(* it leaves.  A table is a function whose domain is the primary key of    *)
(* its rows; that of manga_library and playlist_mangas, whose rowid order  *)
(* is shown, is the rowid.  A chapter is named by the pair of its manga    *)
(* and its id.  Titles, authors and covers stand in one value, `title'.    *)
(***************************************************************************)
EXTENDS Integers, FiniteSets, Sequences, SequencesExt, FiniteSetsExt

CONSTANTS NULL,                  \* an absent value of a nullable column
          SourceOf(_)            \* the source a manga belongs to

EmptyTable == [k \in {} |-> NULL]

\* INSERT ... ON CONFLICT DO UPDATE of every column.
Upsert(t, k, row) == [x \in DOMAIN t \cup {k} |-> IF x = k THEN row ELSE t[x]]
Delete(t, keys) == [x \in DOMAIN t \ keys |-> t[x]]
Value(t, k, col) == IF k \in DOMAIN t THEN t[k][col] ELSE NULL
MaxOr(S, default) == IF S = {} THEN default ELSE Max(S)

\* INSERT ... ON CONFLICT DO NOTHING: a new row comes after the last one.
Appended(t, x) == IF x \in ToSet(t) THEN t ELSE Upsert(t, MaxOr(DOMAIN t, 0) + 1, x)
DeleteRows(t, x) == Delete(t, {i \in DOMAIN t : t[i] = x})

\* The tables of a new file after every migration.
EmptyDatabase ==
  [info |-> EmptyTable, chapters |-> EmptyTable, library |-> EmptyTable,
   chapter_state |-> EmptyTable, manga_state |-> EmptyTable,
   details |-> EmptyTable, check |-> EmptyTable,
   notifications |-> <<>>, playlists |-> EmptyTable, playlist_mangas |-> EmptyTable,
   next_playlist |-> 1, tracking |-> EmptyTable]

-----------------------------------------------------------------------------
(* manga_library                                                           *)

get_manga_library(d) == ToSet(d.library)

count_library_mangas_for_sources(d, sources) ==
  Cardinality({m \in ToSet(d.library) : SourceOf(m) \in sources})

count_library_mangas_by_source(d) ==
  [s \in {SourceOf(m) : m \in ToSet(d.library)} |->
     Cardinality({m \in ToSet(d.library) : SourceOf(m) = s})]

\* Any `limit' of them: the order is that of the ids.
get_library_manga_ids_for_source(d, s, limit) ==
  LET ids == {m \in ToSet(d.library) : SourceOf(m) = s}
  IN  {S \in SUBSET ids : Cardinality(S) = Min({limit, Cardinality(ids)})}

Status(d, m) == IF m \in DOMAIN d.details THEN d.details[m].status ELSE "Unknown"

\* The query names no order.
get_manga_library_and_status(d) == SetToSeqs({<<m, Status(d, m)>> : m \in ToSet(d.library)})

add_manga_to_library(d, m) == [d EXCEPT !.library = Appended(@, m)]

\* The row of the library only: what the other tables know of the manga stays.
remove_manga_from_library(d, m) ==
  [d EXCEPT !.library = DeleteRows(@, m)]

-----------------------------------------------------------------------------
(* manga_informations, manga_details, manga_state                          *)

upsert_cached_manga_information(d, found) ==
  [d EXCEPT !.info = [m \in DOMAIN @ \cup DOMAIN found |->
                        IF m \in DOMAIN found THEN found[m] ELSE @[m]]]

find_cached_manga_information(d, m) == IF m \in DOMAIN d.info THEN d.info[m] ELSE NULL

upsert_cached_manga_details(d, m, row) == [d EXCEPT !.details = Upsert(@, m, row)]

\* The details, with the last time and the share of the chapters read.
find_cached_manga_details(d, m) ==
  LET states == {k \in DOMAIN d.chapter_state : k[1] = m}
  IN  IF m \notin DOMAIN d.details THEN NULL
      ELSE [details   |-> d.details[m],
            last_read |-> MaxOr({d.chapter_state[k].last_read : k \in states} \ {NULL}, 0),
            read      |-> Cardinality({k \in states : d.chapter_state[k].read}),
            of        |-> Cardinality(states)]

find_manga_state(d, m) ==
  IF m \in DOMAIN d.manga_state THEN [preferred_scanlator |-> d.manga_state[m].preferred_scanlator]
  ELSE NULL

\* Each of the two writers of manga_state leaves the other's column alone.
upsert_manga_state(d, m, scanlator) ==
  [d EXCEPT !.manga_state =
     Upsert(@, m, [preferred_scanlator |-> scanlator, viewer |-> Value(@, m, "viewer")])]

upsert_manga_viewer(d, m, viewer) ==
  [d EXCEPT !.manga_state =
     Upsert(@, m, [preferred_scanlator |-> Value(@, m, "preferred_scanlator"), viewer |-> viewer])]

-----------------------------------------------------------------------------
(* chapter_informations                                                    *)

find_cached_chapter_ids(d, m) == {k \in DOMAIN d.chapters : k[1] = m}

find_cached_chapter_information(d, k) == IF k \in DOMAIN d.chapters THEN d.chapters[k] ELSE NULL

\* The lists that ORDER BY manga_order allows: two refreshes may have left rows with
\* one order.
find_cached_chapter_informations(d, m) ==
  {s \in SetToSeqs(find_cached_chapter_ids(d, m)) :
     \A i \in 1..(Len(s) - 1) : d.chapters[s[i]].manga_order <= d.chapters[s[i + 1]].manga_order}

FaultDeletesNothing(d, keys) == d        \* fault: what the source dropped stays
DeleteChapters(d, keys) == [d EXCEPT !.chapters = Delete(@, keys)]

\* `list' is the source's answer: pairs of a chapter id and its row.
ListedKeys(m, list) == {<<m, list[i].id>> : i \in DOMAIN list}

InsertChapters(d, m, list) ==
  LET at(k) == CHOOSE i \in DOMAIN list :
                 <<m, list[i].id>> = k /\ \A j \in DOMAIN list : list[j].id = list[i].id => j <= i
  IN  [d EXCEPT !.chapters =
         [k \in DOMAIN @ \cup ListedKeys(m, list) |->
            IF k \notin ListedKeys(m, list) THEN @[k]
            ELSE [number |-> list[at(k)].number, scanlator |-> list[at(k)].scanlator,
                  manga_order |-> at(k) - 1]]]

-----------------------------------------------------------------------------
(* chapter_state                                                           *)

IsRead(d, k) == k \in DOMAIN d.chapter_state /\ d.chapter_state[k].read
LastRead(d, k) == Value(d.chapter_state, k, "last_read")

find_chapter_state(d, k) == IF k \in DOMAIN d.chapter_state THEN d.chapter_state[k] ELSE NULL

find_chapter_states_for_manga(d, m) ==
  [k \in {x \in DOMAIN d.chapter_state : x[1] = m} |-> d.chapter_state[k]]

upsert_chapter_state(d, k, row) == [d EXCEPT !.chapter_state = Upsert(@, k, row)]

mark_chapter_as_read(d, k, value, now) ==
  [d EXCEPT !.chapter_state =
     Upsert(@, k, [read |-> value, last_read |-> IF value THEN now ELSE NULL])]

update_last_read_chapter(d, k, now) ==
  [d EXCEPT !.chapter_state = Upsert(@, k, [read |-> IsRead(d, k), last_read |-> now])]

\* A row that is marked read keeps its time, and a new row has none.
set_chapters_read_state(d, keys, value) ==
  [d EXCEPT !.chapter_state =
     [k \in DOMAIN @ \cup keys |->
        IF k \notin keys THEN @[k]
        ELSE [read |-> value, last_read |-> IF value THEN LastRead(d, k) ELSE NULL]]]

-----------------------------------------------------------------------------
(* Counting chapters.  A row with a scanlator other than the preferred one *)
(* is not shown; a comparison with a NULL number is not true.              *)

Shown(d, k) ==
  LET preferred == Value(d.manga_state, k[1], "preferred_scanlator")
  IN  preferred = NULL \/ d.chapters[k].scanlator \in {preferred, NULL}

ShownChapters(d, m) == {k \in find_cached_chapter_ids(d, m) : Shown(d, k)}

Numbers(d, keys) == {d.chapters[k].number : k \in keys} \ {NULL}

After(d, keys, number) ==
  {k \in keys : d.chapters[k].number # NULL /\ d.chapters[k].number > number}

get_cached_chapter_counts(d) ==
  [m \in {k[1] : k \in {x \in DOMAIN d.chapters : Shown(d, x)}} |->
     [total |-> Cardinality(ShownChapters(d, m)),
      read  |-> Cardinality({k \in ShownChapters(d, m) : IsRead(d, k)})]]

\* NULL when no chapter is shown.
count_unread_chapters(d, m) ==
  LET filtered == ShownChapters(d, m)
      last_read == MaxOr(Numbers(d, {k \in filtered : IsRead(d, k)}), -1)
  IN  IF filtered = {} THEN NULL ELSE Cardinality(After(d, filtered, last_read))

\* The counts of a search result: every scanlator's chapters.
fetch_unread_chapter_counts_minimal(d, ids) ==
  [m \in ids |->
     LET cached == find_cached_chapter_ids(d, m)
         last_read == MaxOr(Numbers(d, {k \in cached : IsRead(d, k)}), -1)
     IN  [count      |-> Cardinality(After(d, cached, last_read)),
          last_time  |-> MaxOr({LastRead(d, k) : k \in cached} \ {NULL}, NULL),
          in_library |-> m \in ToSet(d.library)]]

get_local_tracking_progress(d, m) ==
  LET touched == {k \in ShownChapters(d, m) : IsRead(d, k) \/ LastRead(d, k) # NULL}
      progress == IF ShownChapters(d, m) = {} THEN NULL
                  ELSE MaxOr(Numbers(d, touched), Cardinality(touched))
  IN  [chapter_progress |-> progress,
       status |-> IF progress # NULL /\ progress > 0 THEN "Current"
                  ELSE IF ShownChapters(d, m) # {} THEN "Planning" ELSE NULL]

-----------------------------------------------------------------------------
(* The listings of the library and of a playlist.  Each of the ten sorting *)
(* modes has the query written out; they differ in their last clause.      *)

\* Fault: one of the queries counts every scanlator's chapters.
FaultCountsAll(d, shown, number) == After(d, UNION {find_cached_chapter_ids(d, k[1]) : k \in shown}, number)
ListedUnread(d, shown, number) == After(d, shown, number)

\* The columns of the query of one manga at position `rowid' of its table.
ListedRow(d, m, rowid) ==
  LET shown == ShownChapters(d, m)
      last_read == MaxOr(Numbers(d, {k \in shown : IsRead(d, k)}), -1)
      own == Value(d.manga_state, m, "viewer")
  IN  [manga |-> m, rowid |-> rowid, title |-> d.info[m], source |-> SourceOf(m),
       unread |-> Cardinality(ListedUnread(d, shown, last_read)),
       last_read |-> MaxOr({LastRead(d, k) : k \in shown} \ {NULL}, NULL),
       viewer |-> IF own # NULL THEN own
                  ELSE IF m \in DOMAIN d.details THEN d.details[m].viewer ELSE 0,
       state_viewer |-> own # NULL]

\* JOIN manga_informations: a manga without cached information has no row.
ListedRows(d, table) ==
  {ListedRow(d, table[i], i) : i \in {j \in DOMAIN table : table[j] \in DOMAIN d.info}}

Ordered(desc, x, y) == IF desc THEN x >= y ELSE x <= y
NullsLast(desc, x, y) == y = NULL \/ (x # NULL /\ Ordered(desc, x, y))

LibraryByRowid(desc, a, b) == Ordered(desc, a.rowid, b.rowid)
LibraryByTitle(desc, a, b) == Ordered(desc, a.title, b.title)
LibraryByUnread(desc, a, b) == Ordered(desc, a.unread, b.unread)
LibraryByLastRead(desc, a, b) == NullsLast(desc, a.last_read, b.last_read)
LibraryBySource(desc, a, b) ==
  IF a.source = b.source THEN Ordered(desc, a.title, b.title)
  ELSE Ordered(desc, a.source, b.source)

\* The playlist's queries, over the rows of playlist_mangas.
PlaylistByRowid(desc, a, b) == Ordered(desc, a.rowid, b.rowid)
PlaylistByTitle(desc, a, b) == Ordered(desc, a.title, b.title)
PlaylistByUnread(desc, a, b) == Ordered(desc, a.unread, b.unread)   \* ORDER BY 7
PlaylistByLastRead(desc, a, b) == NullsLast(desc, a.last_read, b.last_read)
PlaylistBySource(desc, a, b) ==
  IF a.source = b.source THEN Ordered(desc, a.title, b.title)
  ELSE Ordered(desc, a.source, b.source)

SortKeys == {"Rowid", "Title", "Unread", "LastRead", "Source"}
SortingModes == SortKeys \X BOOLEAN

LibraryOrder(mode, a, b) ==
  CASE mode[1] = "Rowid"    -> LibraryByRowid(mode[2], a, b)
    [] mode[1] = "Title"    -> LibraryByTitle(mode[2], a, b)
    [] mode[1] = "Unread"   -> LibraryByUnread(mode[2], a, b)
    [] mode[1] = "LastRead" -> LibraryByLastRead(mode[2], a, b)
    [] mode[1] = "Source"   -> LibraryBySource(mode[2], a, b)

PlaylistOrder(mode, a, b) ==
  CASE mode[1] = "Rowid"    -> PlaylistByRowid(mode[2], a, b)
    [] mode[1] = "Title"    -> PlaylistByTitle(mode[2], a, b)
    [] mode[1] = "Unread"   -> PlaylistByUnread(mode[2], a, b)
    [] mode[1] = "LastRead" -> PlaylistByLastRead(mode[2], a, b)
    [] mode[1] = "Source"   -> PlaylistBySource(mode[2], a, b)

\* The listings a mode allows: it leaves the order of equal rows open.
get_manga_library_with_read_count(d, mode) ==
  {s \in SetToSeqs(ListedRows(d, d.library)) :
     \A i \in 1..(Len(s) - 1) : LibraryOrder(mode, s[i], s[i + 1])}

PlaylistTable(d, p) ==
  [i \in {j \in DOMAIN d.playlist_mangas : d.playlist_mangas[j][1] = p} |->
     d.playlist_mangas[i][2]]

get_manga_library_in_playlist_with_read_count(d, p, mode) ==
  {s \in SetToSeqs(ListedRows(d, PlaylistTable(d, p))) :
     \A i \in 1..(Len(s) - 1) : PlaylistOrder(mode, s[i], s[i + 1])}

-----------------------------------------------------------------------------
(* last_check_update: the time a manga is to be checked next, as the time  *)
(* left (0 when it is due)                                                 *)

set_last_check_update_manga(d, m, next) == [d EXCEPT !.check = Upsert(@, m, next)]
delete_last_check_update_manga(d, m) == [d EXCEPT !.check = Delete(@, {m})]

\* The least time left outside the skipped sources, NULL when there is none.
get_next_ts_arima_min(d, skip_sources) ==
  LET rows == {m \in DOMAIN d.check : SourceOf(m) \notin skip_sources}
  IN  IF rows = {} THEN NULL ELSE Min({d.check[m] : m \in rows})

\* Every row that is due, of the library or not.
get_due_mangas(d) == {<<m, Status(d, m)>> : m \in {x \in DOMAIN d.check : d.check[x] = 0}}

-----------------------------------------------------------------------------
(* notifications, oldest first; a position stands for the row's id         *)

insert_notification(d, keys) == [d EXCEPT !.notifications = @ \o SetToSeq(keys)]
get_count_notifications(d) == Len(d.notifications)
get_notifications(d) ==
  {[chapter |-> d.notifications[i], title |-> find_cached_manga_information(d, d.notifications[i][1]),
    row |-> find_cached_chapter_information(d, d.notifications[i])] : i \in DOMAIN d.notifications}
delete_notification(d, i) == [d EXCEPT !.notifications = RemoveAt(@, i)]
clear_notifications(d) == [d EXCEPT !.notifications = <<>>]

-----------------------------------------------------------------------------
(* playlists; deleting one deletes its rows of playlist_mangas             *)

get_playlists(d) == DOMAIN d.playlists
create_playlist(d, name) == [d EXCEPT !.playlists = Upsert(@, d.next_playlist, name),
                                      !.next_playlist = @ + 1]
delete_playlist(d, p) ==
  [d EXCEPT !.playlists = Delete(@, {p}),
            !.playlist_mangas = Delete(@, {i \in DOMAIN @ : @[i][1] = p})]
rename_playlist(d, p, name) ==
  [d EXCEPT !.playlists = [q \in DOMAIN @ |-> IF q = p THEN name ELSE @[q]]]
add_manga_to_playlist(d, p, m) == [d EXCEPT !.playlist_mangas = Appended(@, <<p, m>>)]
remove_manga_from_playlist(d, p, m) ==
  [d EXCEPT !.playlist_mangas = DeleteRows(@, <<p, m>>)]

-----------------------------------------------------------------------------
(* manga_tracking                                                          *)

list_tracking_bindings(d, m) == [k \in {x \in DOMAIN d.tracking : x[1] = m} |-> d.tracking[k]]

\* A binding that is linked again keeps what the old one had synced.
upsert_tracking_binding(d, m, service, candidate) ==
  [d EXCEPT !.tracking =
     Upsert(@, <<m, service>>,
            [remote |-> candidate] @@
            (IF <<m, service>> \in DOMAIN @ THEN @[<<m, service>>]
             ELSE [remote |-> candidate, progress |-> NULL, synced_at |-> NULL,
                   started_at |-> NULL, completed_at |-> NULL]))]

delete_tracking_binding(d, m, service) == [d EXCEPT !.tracking = Delete(@, {<<m, service>>})]

set_tracking_sync_state(d, m, service, progress, synced_at, started_at, completed_at) ==
  IF <<m, service>> \notin DOMAIN d.tracking THEN d
  ELSE [d EXCEPT !.tracking[<<m, service>>] =
          [remote |-> @.remote, progress |-> progress, synced_at |-> synced_at,
           started_at |-> started_at, completed_at |-> completed_at]]

set_tracking_dates(d, m, service, started_at, completed_at) ==
  IF <<m, service>> \notin DOMAIN d.tracking THEN d
  ELSE [d EXCEPT !.tracking[<<m, service>>].started_at = started_at,
                 !.tracking[<<m, service>>].completed_at = completed_at]
=============================================================================
