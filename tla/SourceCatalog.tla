--------------------------- MODULE SourceCatalog ---------------------------
(***************************************************************************)
(* The catalogs of the source lists: how an index is fetched and checked   *)
(* (shared/src/usecases/fetch_source_list.rs, resolve_source_list.rs), the *)
(* cache of the last good one on disk (shared/src/source_catalog.rs), and  *)
(* the requests that read it (server/src/source/routes.rs), installation   *)
(* from a cached entry among them (shared/src/usecases/install_source.rs). *)
(* A request takes a copy of the settings' lists when it begins.  What an  *)
(* index says is a sequence of entries, or a message of fields; the        *)
(* servers that publish it are outside.                                    *)
(***************************************************************************)
EXTENDS Naturals, Sequences, SequencesExt, FiniteSets, Lines

CONSTANTS NULL, Tasks,
          Settings,     \* the source lists that the settings may begin with
          Bodies,       \* what a server publishes under an address, one after the other
          Branches,     \* external: the versions of the branches of a repository
          Library,      \* the sources of the manga in the library
          MaxEvents     \* bound: requests that change something, and changes of the settings

VARIABLES lists,       \* settings.source_lists
          published,   \* which body each site publishes
          resolved,    \* RESOLVED_LISTS
          catalog,     \* the cache files, by the identity of their list
          packages,    \* the installed packages, by kind and source id, with their provenance
          tasks,       \* the requests in progress
          events,      \* how many have begun
          lastGood,    \* history: the candidates that were saved last, fetched and checked
          overtaken    \* history: lists whose newer cache a failed refresh has overwritten

vars == <<lists, published, resolved, catalog, packages, tasks, events, lastGood, overtaken>>

Least(s) == CHOOSE i \in s : \A j \in s : i <= j
Added(f, key, value) == [k \in DOMAIN f \cup {key} |-> IF k = key THEN value ELSE f[k]]

-----------------------------------------------------------------------------
(* fetch_source_list.rs: an index in Keiyoushi's format is a message       *)

\* A fixed-width field that is cut off passes for the end of the message.
Readable(f) == f.field # 0 /\ f.wire \in {0, 1, 2, 5} /\ (f.cut => f.wire \in {1, 5})
Sound(message) == \A i \in DOMAIN message : Readable(message[i])
Bytes(message, n) ==
  LET found == Pick(message, {i \in DOMAIN message : message[i].field = n /\ message[i].wire = 2})
  IN  [i \in DOMAIN found |-> found[i].value]
LastOf(s) == IF s = <<>> THEN NULL ELSE Last(s)

\* One entry for each language; none if the package cannot be installed.
decode_extension(ext) ==
  LET name == LastOf(Bytes(ext, 1))
      pkg == LastOf(Bytes(ext, 2))
      apk == LastOf(FlattenSeq([i \in DOMAIN Bytes(ext, 3) |-> Bytes(Bytes(ext, 3)[i], 1)]))
      langs == FlattenSeq([i \in DOMAIN Bytes(ext, 8) |-> Bytes(Bytes(ext, 8)[i], 3)])
  IN  IF NULL \in {name, pkg, apk} THEN <<>>
      ELSE [i \in 1..(IF langs = <<>> THEN 1 ELSE Len(langs)) |->
              [id |-> NULL, numeric |-> FALSE, pkg |-> <<pkg>>, name |-> name,
               version |-> LastOf(Bytes(ext, 6)), package |-> TRUE, anime |-> FALSE, lang |-> IF langs = <<>> THEN "all" ELSE langs[i]]]

Nested(message) == ToSet(Bytes(message, 3)) \cup ToSet(Bytes(message, 8))
decode_repo_index(message) ==
  LET extensions == FlattenSeq([i \in DOMAIN Bytes(message, 101) |-> Bytes(Bytes(message, 101)[i], 1)])
      sound == /\ Sound(message) /\ Bytes(message, 102) = <<>>
               /\ \A list \in ToSet(Bytes(message, 101)) : Sound(list)
               /\ \A ext \in ToSet(extensions) : Sound(ext) /\ \A m \in Nested(ext) : Sound(m)
  IN  IF sound THEN FlattenSeq([i \in DOMAIN extensions |-> decode_extension(extensions[i])]) ELSE NULL

gunzip(body) == [body EXCEPT !.zipped = FALSE]
parse_index_bytes(body) ==
  LET data == gunzip(body)
  IN  CASE data.form \in {"array", "object"} -> data
        [] data.form = "message" ->
             LET entries == decode_repo_index(data.entries)
             IN  IF entries = NULL THEN NULL ELSE [data EXCEPT !.form = "array", !.entries = entries]
        [] OTHER -> NULL

Served(url) ==
  {Bodies[at][published[url.site]] :
     at \in {<<url.site, url.file>>} \cap
           {b \in DOMAIN Bodies : url.site \in DOMAIN published /\ published[url.site] \in DOMAIN Bodies[b]}}
fetch_index(url) == {NULL} \cup {parse_index_bytes(body) : body \in Served(url)}
sibling_json_url(url) == IF url.file = <<"index.pb">> THEN {[url EXCEPT !.file = <<"index.min.json">>]} ELSE {}

\* An empty index beside it is no index.
fetch_source_list(url) ==
  fetch_index(url) \cup
  {v \in UNION {fetch_index(u) : u \in sibling_json_url(url)} :
     v # NULL /\ ~(v.form = "array" /\ v.entries = <<>>)}

expand_keiyoushi_ids(entries) ==
  [i \in DOMAIN entries |->
     IF \E j \in DOMAIN entries : j # i /\ entries[j].id = entries[i].id
     THEN [entries[i] EXCEPT !.id = @ \o <<entries[i].lang>>] ELSE entries[i]]

-----------------------------------------------------------------------------
(* resolve_source_list.rs                                                  *)

source_list_key(list) == list.url.site
github_repo_segments(url) == url.site \in DOMAIN Branches
select_latest_branch(branches) == CHOOSE b \in branches : \A c \in branches : c <= b
\* The branches are asked for at two addresses; the fallback is the first of them all.
latest_lnreader_branch(site) ==
  LET now == Branches[site][published[site]]
  IN  {select_latest_branch(Branches[site][1])} \cup
      (IF now = {} THEN {} ELSE {select_latest_branch(now)})
raw_source_list_url(url, branch) == [url EXCEPT !.file = <<branch, "plugins.min.json">>]
ResolveKey(list) == <<list.type, list.url>>
\* Each answer with what is remembered afterwards.
resolve_source_list(list) ==
  CASE list.type = "keiyoushi" ->
         {<<IF list.url.file = <<"page">> THEN [list.url EXCEPT !.file = <<"index.pb">>] ELSE list.url, resolved>>}
    [] list.type = "lnreader" /\ github_repo_segments(list.url) ->
         IF ResolveKey(list) \in DOMAIN resolved THEN {<<resolved[ResolveKey(list)], resolved>>}
         ELSE {<<url, Added(resolved, ResolveKey(list), url)>> :
                 url \in {raw_source_list_url(list.url, b) : b \in latest_lnreader_branch(list.url.site)}}
    [] OTHER -> {<<list.url, resolved>>}

-----------------------------------------------------------------------------
(* source_catalog.rs: an index becomes a cache                             *)

normalized_source_list_url(list) == [list.url EXCEPT !.fragment = FALSE]
source_type_key(type) == type
source_list_id(list) == <<source_type_key(list.type), normalized_source_list_url(list)>>

\* An id that is a number comes before the package, and the package before any other.
normalize_entry_ids(entries) ==
  [i \in DOMAIN entries |->
     IF entries[i].numeric \/ entries[i].pkg = NULL THEN entries[i]
     ELSE [entries[i] EXCEPT !.id = entries[i].pkg]]
Parsed(entries) == Pick(entries, {i \in DOMAIN entries : entries[i].id # NULL})
candidate_is_compatible(type, e) ==
  e.name # NULL /\ e.version # NULL /\ e.package /\ (type = "mangayomi" => ~e.anime)

build_cache(list, order, url, index) ==
  LET parsed == Parsed(normalize_entry_ids(index.entries))
      named == IF list.type = "keiyoushi" THEN expand_keiyoushi_ids(parsed) ELSE parsed
      found == Pick(named, {i \in DOMAIN named : candidate_is_compatible(list.type, named[i])})
  IN  IF found = <<>> THEN NULL
      ELSE [id |-> source_list_id(list), type |-> list.type,
            provider |-> normalized_source_list_url(list), url |-> url, order |-> order,
            error |-> FALSE, candidates |-> found]

\* The file of a list, unless it is another's.  One that cannot be read counts as none.
cache_matches_source_list(cache, list) ==
  cache.id = source_list_id(list) /\ cache.type = list.type
  /\ cache.provider = normalized_source_list_url(list)
MatchingOf(caches, list) ==
  {cache \in {caches[id] : id \in {source_list_id(list)} \cap DOMAIN caches} :
     cache_matches_source_list(cache, list)}
Matching(list) == MatchingOf(catalog, list)
save_cache(cache) == catalog' = Added(catalog, cache.id, cache)

-----------------------------------------------------------------------------
(* source_catalog.rs: the candidates of the caches                         *)

Lexical(s, t) ==
  \E n \in 0..Len(s) :
    /\ n < Len(t) /\ SubSeq(s, 1, n) = SubSeq(t, 1, n)
    /\ n = Len(s) \/ s[n + 1] < t[n + 1]
\* Three numbers, and a fourth behind a dash where it is a version before the release.
Semver(v) == Len(v.parts) = (IF v.dash THEN 4 ELSE 3)
compare_dotted_versions(v, w) == Lexical(v.parts, w.parts)
compare_versions(type, v, w) ==      \* v is older than w
  IF Semver(v) /\ Semver(w)
  THEN LET p == SubSeq(v.parts, 1, 3)   q == SubSeq(w.parts, 1, 3)
       IN  Lexical(p, q) \/ (p = q /\ v.dash /\ (~w.dash \/ v.parts[4] < w.parts[4]))
  ELSE compare_dotted_versions(v, w) \/ (v.parts = w.parts /\ v.dash /\ ~w.dash)
is_newer_source_version(type, available, installed) == compare_versions(type, installed, available)

\* The other is preferred: a newer version, or an earlier list.
compare_candidate_preference(c, d) ==
  compare_versions(c.type, c.version, d.version) \/ (c.version = d.version /\ d.order < c.order)

\* The best for each source in each format, of the first n.
mark_selected_candidates(cs) ==
  LET Key(i) == <<cs[i].source, cs[i].type>>
      selected[n \in 0..Len(cs)] ==
        IF n = 0 THEN [k \in {Key(i) : i \in DOMAIN cs} |-> 0]
        ELSE LET before == selected[n - 1]
                 best == before[Key(n)]
             IN  IF best = 0 \/ compare_candidate_preference(cs[best], cs[n])
                 THEN [before EXCEPT ![Key(n)] = n] ELSE before
      all == selected[Len(cs)]
  IN  [i \in DOMAIN cs |-> [cs[i] EXCEPT !.selected = all[Key(i)] = i]]

Candidates(cache) ==
  [j \in DOMAIN cache.candidates |->
     [list |-> cache.id, type |-> cache.type, url |-> cache.url, order |-> cache.order,
      error |-> cache.error, source |-> cache.candidates[j].id,
      version |-> cache.candidates[j].version, raw |-> cache.candidates[j],
      from |-> cache.provider.site, selected |-> FALSE]]
\* Of each list its cache, or none.  The order by name that they are given then decides only
\* which of several matches find takes.
candidates_from_caches(caches) ==
  mark_selected_candidates(FlattenSeq(
    [i \in DOMAIN caches |-> IF caches[i] = {} THEN <<>>
                             ELSE Candidates(CHOOSE cache \in caches[i] : TRUE)]))

Usable(list, all) == IF all \/ list.enabled THEN Matching(list) ELSE {}
FaultOldOrder(ls, all) ==      \* fault: the place that the list had when it was fetched
  candidates_from_caches([i \in DOMAIN ls |-> Usable(ls[i], all)])
load_configured(ls, all) ==
  candidates_from_caches([i \in DOMAIN ls |->
    {[cache EXCEPT !.order = i] : cache \in Usable(ls[i], all)}])
load(ls) == load_configured(ls, FALSE)
load_all(ls) == load_configured(ls, TRUE)

summary_from_cache(cache, enabled) ==
  [list |-> cache.id, cached |-> TRUE, enabled |-> enabled, order |-> cache.order,
   count |-> Len(cache.candidates), error |-> cache.error]
summaries(ls) ==
  [i \in DOMAIN ls |->
     IF Matching(ls[i]) # {}
     THEN summary_from_cache([CHOOSE cache \in Matching(ls[i]) : TRUE EXCEPT !.order = i], ls[i].enabled)
     ELSE [list |-> source_list_id(ls[i]), cached |-> FALSE, enabled |-> ls[i].enabled, order |-> i,
           count |-> 0, error |-> FALSE]]

\* The first of those that match: any of them, for the order by name is left out.
find(ls, id, source, version) ==
  {c \in ToSet(load(ls)) :
     /\ \E i \in DOMAIN ls : ls[i].enabled /\ source_list_id(ls[i]) = id
     /\ c.list = id /\ c.source = source /\ c.version = version}
provenance(c) == [from |-> c.from, list |-> c.list, url |-> c.url, version |-> c.version]

-----------------------------------------------------------------------------
(* server/src/source/routes.rs                                             *)

source_type_matches(kind, type) == kind = NULL \/ kind = type
KindsOf(id) == {p[1] : p \in {q \in DOMAIN packages : q[2] = id}}
InstalledIds == {p[2] : p \in DOMAIN packages}
Supplies(c, id, kind) == c.source = id /\ source_type_matches(kind, c.type)

choose_candidate(id, kind, cs) ==
  LET found == {c \in cs : Supplies(c, id, kind)}
  IN  IF found = {} \/ (kind = NULL /\ Cardinality(found) > 1) THEN NULL ELSE CHOOSE c \in found : TRUE
catalog_contains_source(id, kind, cs) == \E c \in cs : Supplies(c, id, kind)

\* Of a package, or with no kind of a source that the library has and no package brings.
build_source_status(id, kind, all) ==
  LET cs == {c \in ToSet(all) : c.selected}
      c == choose_candidate(id, kind, cs)
  IN  [source |-> id, presence |-> IF kind = NULL THEN "missing" ELSE "installed",
       catalog |-> IF c # NULL \/ catalog_contains_source(id, kind, cs) THEN "available"
                   ELSE IF all # <<>> THEN "unavailable" ELSE "unknown",
       freshness |-> IF kind = NULL \/ c = NULL THEN "unknown"
                     ELSE IF is_newer_source_version(c.type, c.version, packages[<<kind, id>>].version)
                     THEN "update_available" ELSE "current"]
build_source_statuses(all) ==
  {build_source_status(p[2], p[1], all) : p \in DOMAIN packages} \cup
  {build_source_status(id, NULL, all) : id \in Library \ InstalledIds}
source_problem_rank(status) ==
  IF status.presence = "missing" THEN 0
  ELSE IF status.freshness = "update_available" THEN 3
  ELSE IF status.catalog = "unavailable" THEN 4 ELSE 5
list_source_statuses(ls) == build_source_statuses(load(ls))

ActiveLists(ls) == {source_list_id(ls[i]) : i \in {j \in DOMAIN ls : ls[j].enabled}}
Remaining(id, active, cs) == {c \in cs : c.list # id /\ c.list \in active}
\* Of two packages with one source id the kind of the later counts.
build_catalog_change_preview(id, active, cs) ==
  LET target == {c \in cs : id \in active /\ c.list = id}
      Loses(source, kind) ==
        catalog_contains_source(source, kind, target)
        /\ ~catalog_contains_source(source, kind, Remaining(id, active, cs))
  IN  [known |-> id \notin active \/ target # {},
       affected |-> {source \in InstalledIds : Loses(source, CHOOSE k \in KindsOf(source) : TRUE)}
                    \cup {source \in Library \ InstalledIds : Loses(source, NULL)}]
get_source_catalog_change_preview(ls, id) ==
  build_catalog_change_preview(id, ActiveLists(ls), ToSet(load_all(ls)))

-----------------------------------------------------------------------------
Idle == [op |-> "idle", lists |-> <<>>, at |-> 0, previous |-> {}, url |-> NULL, want |-> NULL]

Init ==
  /\ lists \in Settings
  /\ published = [site \in {lists[i].url.site : i \in DOMAIN lists} |-> 1]
  /\ resolved = <<>> /\ catalog = <<>> /\ packages = <<>> /\ events = 0
  /\ tasks = [t \in Tasks |-> Idle]
  /\ lastGood = [id \in {source_list_id(lists[i]) : i \in DOMAIN lists} |-> NULL]
  /\ overtaken = {}

\* The previous cache is read before the address is resolved and fetched.
TakeList(t, op, ls, i, caches) ==
  \E r \in resolve_source_list(ls[i]) :
    /\ tasks' = [tasks EXCEPT ![t] = [Idle EXCEPT !.op = op, !.lists = ls, !.at = i, !.url = r[1],
                                                  !.previous = MatchingOf(caches, ls[i])]]
    /\ resolved' = r[2]

EnabledAfter(ls, i) == {j \in DOMAIN ls : j > i /\ ls[j].enabled}
OneMore == events < MaxEvents /\ events' = events + 1

refresh(t) ==
  /\ OneMore /\ tasks[t].op = "idle" /\ EnabledAfter(lists, 0) # {}
  /\ TakeList(t, "refresh", lists, Least(EnabledAfter(lists, 0)), catalog)
  /\ UNCHANGED <<lists, published, catalog, packages, lastGood, overtaken>>

refresh_one(t) ==
  /\ OneMore /\ tasks[t].op = "idle"
  /\ \E i \in DOMAIN lists : TakeList(t, "refresh_one", lists, i, catalog)
  /\ UNCHANGED <<lists, published, catalog, packages, lastGood, overtaken>>

Goes(t) ==
  LET r == tasks[t]
      rest == EnabledAfter(r.lists, r.at)
  IN  IF r.op = "refresh" /\ rest # {} THEN TakeList(t, "refresh", r.lists, Least(rest), catalog')
      ELSE tasks' = [tasks EXCEPT ![t] = Idle] /\ UNCHANGED resolved

Fetched(t) ==
  /\ tasks[t].op \in {"refresh", "refresh_one"}
  /\ \E index \in fetch_source_list(tasks[t].url) \ {NULL} :
       LET cache == build_cache(tasks[t].lists[tasks[t].at], tasks[t].at, tasks[t].url, index)
       IN  /\ cache # NULL /\ save_cache(cache)
           /\ lastGood' = [lastGood EXCEPT ![cache.id] = cache.candidates]
           /\ overtaken' = overtaken \ {cache.id}
  /\ Goes(t)
  /\ UNCHANGED <<lists, published, packages, events>>

KeptCache(previous, order) == [previous EXCEPT !.order = order, !.error = TRUE]

\* No index, none that will do, or no room for it: what was read before is saved again.
\* With nothing to keep, and where that cannot be written, the files stay as they are.
Failed(t) ==
  /\ tasks[t].op \in {"refresh", "refresh_one"}
  /\ \/ UNCHANGED <<catalog, overtaken>>
     \/ \E previous \in tasks[t].previous :
          /\ save_cache(KeptCache(previous, tasks[t].at))
          /\ overtaken' = IF previous.candidates = lastGood[previous.id] THEN overtaken
                          ELSE overtaken \cup {previous.id}
  /\ Goes(t)
  /\ UNCHANGED <<lists, published, packages, events, lastGood>>

install_source(t) ==
  /\ OneMore /\ tasks[t].op = "idle"
  /\ \E i \in DOMAIN load(lists) :
       LET asked == load(lists)[i]
       IN  \E c \in find(lists, asked.list, asked.source, asked.version) :
             tasks' = [tasks EXCEPT ![t] = [Idle EXCEPT !.op = "install", !.want = c]]
  /\ UNCHANGED <<lists, published, resolved, catalog, packages, lastGood, overtaken>>

\* External: the languages that the package is found to have.
Bundled(c) ==
  {[c EXCEPT !.source = <<c.raw.pkg[1], lang>>] : lang \in {c.raw.lang, "all"}}
InstallOutcomes(c) ==
  IF c.type # "keiyoushi" \/ c.source = c.raw.pkg THEN {{c}}
  ELSE {{}} \cup (SUBSET Bundled(c) \ {{}})

\* Nothing is registered where the languages are still to be chosen, or on a failure.
InstallEnds(t) ==
  /\ tasks[t].op = "install"
  /\ tasks' = [tasks EXCEPT ![t] = Idle]
  /\ \E cs \in {{}} \cup InstallOutcomes(tasks[t].want) :
       LET new == {<<c.type, c.source>> : c \in cs}
       IN  packages' = [p \in DOMAIN packages \cup new |->
                          IF p \in new THEN provenance(tasks[t].want) ELSE packages[p]]
  /\ UNCHANGED <<lists, published, resolved, catalog, events, lastGood, overtaken>>

Toggled == {[lists EXCEPT ![i].enabled = ~@] : i \in DOMAIN lists}
update_settings ==
  /\ OneMore
  /\ lists' \in Toggled \cup {Reverse(lists)}
  /\ UNCHANGED <<published, resolved, catalog, packages, tasks, lastGood, overtaken>>

\* External: a site publishes its next index.
Publish(site) ==
  /\ \A at \in DOMAIN Bodies : at[1] = site => published[site] < Len(Bodies[at])
  /\ published' = [published EXCEPT ![site] = @ + 1]
  /\ UNCHANGED <<lists, resolved, catalog, packages, tasks, events, lastGood, overtaken>>

\* The resolved address is older than RESOLVE_CACHE_TTL.
Lapse ==
  /\ resolved # <<>> /\ resolved' = <<>>
  /\ UNCHANGED <<lists, published, catalog, packages, tasks, events, lastGood, overtaken>>

Next ==
  \/ \E t \in Tasks :
       refresh(t) \/ refresh_one(t) \/ Fetched(t) \/ Failed(t) \/ install_source(t) \/ InstallEnds(t)
  \/ update_settings \/ Lapse
  \/ \E site \in DOMAIN published : Publish(site)

Spec == Init /\ [][Next]_vars

-----------------------------------------------------------------------------
(* What the catalogs promise                                               *)

TypeOK ==
  /\ \A id \in DOMAIN catalog : catalog[id].id = id
  /\ \A s \in list_source_statuses(lists) : source_problem_rank(s) \in 0..5
  /\ \A i \in DOMAIN lists : ~summaries(lists)[i].cached => summaries(lists)[i].count = 0

\* A list that was fetched and checked once keeps what it had: a refresh that fails leaves
\* the candidates of the last one that did not, unless that one came between its reading of
\* the cache and its writing (refresh, refresh_one: "A failed list keeps its previous valid
\* candidates").
LastGoodKept ==
  \A id \in DOMAIN lastGood \ overtaken :
    lastGood[id] # NULL => id \in DOMAIN catalog /\ catalog[id].candidates = lastGood[id]

\* Of the candidates for a source in one format exactly one is selected.  No other has a
\* newer version; and none of the same version is from a list that the settings now have
\* before it, whatever the order was when the caches were written (load_configured,
\* mark_selected_candidates).  Versions with a suffix are left out, because with them
\* compare_versions is no order.
Position(c) == Least({i \in DOMAIN lists : lists[i].enabled /\ source_list_id(lists[i]) = c.list})
Plain(c) == c.version.parts \in Seq(Nat) /\ ~c.version.dash
PreferenceHolds ==
  LET cs == load(lists)
  IN  \A i \in DOMAIN cs :
        LET rivals == {j \in DOMAIN cs : cs[j].source = cs[i].source /\ cs[j].type = cs[i].type}
        IN  /\ \E j \in rivals : \A k \in rivals : cs[k].selected <=> k = j
            /\ cs[i].selected /\ (\A j \in rivals : Plain(cs[j])) =>
                 \A j \in rivals :
                   /\ ~Lexical(cs[i].version.parts, cs[j].version.parts)
                   /\ cs[j].version = cs[i].version => Position(cs[i]) <= Position(cs[j])

\* The preview of a list's removal names exactly the sources whose status would turn from
\* available: it is computed from the caches of all lists, the status from those of the
\* enabled ones (build_catalog_change_preview, build_source_statuses).
Covered(ls) == {s.source : s \in {t \in list_source_statuses(ls) : t.catalog = "available"}}
Dropping(id) ==
  [i \in DOMAIN lists |-> [lists[i] EXCEPT !.enabled = @ /\ source_list_id(lists[i]) # id]]
PreviewComplete ==
  (\A p, q \in DOMAIN packages : p[2] = q[2] => p = q) =>
    \A i \in DOMAIN lists :
      LET id == source_list_id(lists[i])
      IN  get_source_catalog_change_preview(lists, id).affected = Covered(lists) \ Covered(Dropping(id))
=============================================================================
