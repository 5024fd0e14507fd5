-------------------------- MODULE SourceInstances --------------------------
(***************************************************************************)
(* What an instance of an installed source knows of its package: the       *)
(* metadata it found by probing the code, the probe cache and the ".source"*)
(* file beside the package, and the stored settings it was loaded with     *)
(* (shared/src/source/mod.rs, source_settings.rs, lnreader/mod.rs and      *)
(* manifest.rs, mangayomi/mod.rs, keiyoushi/mod.rs, and the settings of    *)
(* source_manager.rs).  A call works with the instance that was registered *)
(* when it began; the manager replaces instances meanwhile.  A package has *)
(* versions; the version on disk stands for its length and time.           *)
(***************************************************************************)
EXTENDS Naturals, Sequences, SequencesExt, FiniteSets, Functions

CONSTANTS NULL, Calls,
          Collections,  \* the sequences of packages that may be installed
          Code,         \* external: what each version of a package declares
          StoredSettings, \* the settings that a user may store for a source
          MaxChanges    \* bound: changes of files and settings, and restarts

VARIABLES packages,    \* the installed packages, in the order of their paths
          files,       \* their files: version, ".source" file, probe cache
          disk,        \* settings.json: the stored settings of the sources
          app,         \* State.settings
          manager,     \* SourceManager::settings
          registered,  \* SourceManager::sources_by_id
          instances,   \* the instances that are registered or in use
          calls,       \* the calls in progress
          changes,     \* how many changes there have been
          astray,      \* history: how the files beside a package went wrong
          apart,       \* history: sources whose settings changed in memory or in part only
          stuck        \* history: sources that a reload did not get to

vars == <<packages, files, disk, app, manager, registered, instances, calls, changes,
          astray, apart, stuck>>

Ids == UNION {packages[p].ids : p \in DOMAIN packages}
PackageOf(id) == CHOOSE p \in DOMAIN packages : id \in packages[p].ids
Kind(id) == packages[PackageOf(id)].kind
Unset == <<>>    \* no settings
Only(key, value) == [k \in {key} |-> value]
Over(f, g) == [k \in DOMAIN f \cup DOMAIN g |-> IF k \in DOMAIN f THEN f[k] ELSE g[k]]

-----------------------------------------------------------------------------
(* Setting definitions.  A package declares preferences with a key, a form,*)
(* values to choose from, and a value of its own (of a list, which one).   *)
(* Groups, which only nest, are left flat; a value is a number.            *)

Definition(kind, pref, default) ==
  <<[kind |-> kind, key |-> pref.key, values |-> pref.values, default |-> default]>>
OrZero(value) == IF value = NULL THEN 0 ELSE value
Nth(values, n) == IF n + 1 \in DOMAIN values THEN values[n + 1] ELSE NULL
Keyless(pref) == pref.key \in {NULL, ""}

\* The default is the selected value or its place among the options.
picker_default(pref) ==
  IF pref.value = NULL \/ \E i \in DOMAIN pref.values : pref.values[i] = pref.value
  THEN pref.value ELSE Nth(pref.values, pref.value)
lnreader_definition(pref) ==
  CASE pref.form = "text"   -> Definition("text", pref, pref.value)
    [] pref.form = "list"   -> Definition("select", pref, picker_default(pref))
    [] pref.form = "switch" -> Definition("switch", pref, OrZero(pref.value))
    [] pref.form = "multi"  -> Definition("multi", pref, OrZero(pref.value))
    [] OTHER -> <<NULL>>
lnreader_setting_definitions(prefs) ==
  LET all == FlattenSeq([i \in DOMAIN prefs |-> lnreader_definition(prefs[i])])
  IN  IF NULL \in ToSet(all) THEN NULL ELSE all

mangayomi_definition(pref) ==
  LET chosen == Nth(pref.values, OrZero(pref.value))
  IN  IF Keyless(pref) THEN <<>>
      ELSE CASE pref.form = "switch" -> Definition("switch", pref, OrZero(pref.value))
             [] pref.form = "flat" /\ pref.value # NULL -> Definition("text", pref, pref.value)
             [] pref.form = "list" /\ pref.values # <<>> ->
                  Definition("select", pref, IF chosen = NULL THEN Head(pref.values) ELSE chosen)
             [] pref.form = "multi" /\ pref.values # <<>> -> Definition("multi", pref, OrZero(pref.value))
             [] pref.form = "text" -> Definition("text", pref, pref.value)
             [] OTHER -> <<>>
\* An extension that does not answer is taken to declare nothing.
mangayomi_setting_definitions(meta) ==
  IF meta.empty THEN <<>>
  ELSE FlattenSeq([i \in DOMAIN Code[meta.of].prefs |-> mangayomi_definition(Code[meta.of].prefs[i])])

setting_definition_from_dexvm(pref) ==
  IF Keyless(pref) THEN <<>>
  ELSE CASE pref.form = "list"  -> Definition("select", pref, pref.value)
         [] pref.form = "multi" -> Definition("multi", pref, OrZero(pref.value))
         [] pref.form = "text"  -> Definition("text", pref, pref.value)
         [] OTHER -> Definition("switch", pref, OrZero(pref.value))

default_values_for_definition(d) ==
  IF d.kind = "select"
  THEN Only(d.key, IF d.default # NULL THEN d.default ELSE OrZero(Nth(d.values, 0)))
  ELSE IF d.kind \in {"multi", "switch"} \/ d.default # NULL THEN Only(d.key, d.default) ELSE Unset
Defaults(definitions) ==
  FoldLeft(LAMBDA found, d : Over(default_values_for_definition(d), found), Unset, definitions)

aidoku_definition(pref) ==
  CASE pref.form = "list" -> Definition("select", pref, pref.value)
    [] pref.form \in {"multi", "switch"} -> Definition(pref.form, pref, OrZero(pref.value))
    [] pref.form = "text" -> Definition("text", pref, pref.value)
    [] OTHER -> <<>>
\* The sites of a manifest are a setting, before all that the package declares.
aidoku_setting_definitions(v) ==
  (IF Code[v].urls = <<>> THEN <<>>
   ELSE <<[kind |-> "select", key |-> "url", values |-> Code[v].urls, default |-> Head(Code[v].urls)]>>)
  \o FlattenSeq([i \in DOMAIN Code[v].prefs |-> aidoku_definition(Code[v].prefs[i])])

\* Props without an id, a name, a site and a version are none.
parse_props(meta) == Code[meta.of].complete
\* The definitions of a source that has been probed.
DefinitionsOf(kind, meta) ==
  CASE kind = "aidoku" -> aidoku_setting_definitions(meta.of)
    [] kind = "lnreader" -> lnreader_setting_definitions(Code[meta.of].prefs)
    [] kind = "mangayomi" -> mangayomi_setting_definitions(meta)
    [] kind = "keiyoushi" ->
         FlattenSeq([i \in DOMAIN Code[meta.of].prefs |->
                       setting_definition_from_dexvm(Code[meta.of].prefs[i])])

-----------------------------------------------------------------------------
(* The settings of an instance.                                            *)

settings_all(i) == Over(i.stored, i.defaults)
get(i, key) == settings_all(i)[key]
set(i, key, value) == [i EXCEPT !.stored = Over(Only(key, value), @)]
seed_defaults(i, definitions) == [i EXCEPT !.stored = Over(@, Defaults(definitions))]
StoredIn(settings, id) == IF settings[id] = NULL THEN Unset ELSE settings[id]

\* What the engine is given of them: a plugin only what it declares a value for, an APK
\* everything but lists.
storage_seed(i, prefs, defaults) ==
  LET declared == {prefs[n].key : n \in {n \in DOMAIN prefs : prefs[n].value # NULL}}
      all == Over(i.stored, defaults)
  IN  Restrict(all, declared \cap DOMAIN all)
setting_value_to_pref(i, definitions) ==
  LET lists == {d.key : d \in {d \in ToSet(definitions) : d.kind = "multi"}}
  IN  Restrict(settings_all(i), DOMAIN settings_all(i) \ lists)

-----------------------------------------------------------------------------
(* Probing and loading.                                                    *)

Told(v, empty) == [of |-> v, empty |-> empty]
Failure == Told(NULL, TRUE)
FaultAnyPrint(file) == IF file.cache = NULL THEN NULL ELSE file.cache.meta
read_probe_cache(file) ==
  IF file.cache # NULL /\ file.cache.print = file.version THEN file.cache.meta ELSE NULL
write_probe_cache(file, print, meta) == [file EXCEPT !.cache = [print |-> print, meta |-> meta]]

\* Evaluating a plugin may fail; what Keiyoushi reports of an APK is complete or nothing;
\* of MangaYomi whatever cannot be asked gets its default.
lnreader_run_probe(v) == {Told(v, FALSE), Failure}
mangayomi_run_probe(v) == {Told(v, FALSE), Told(v, TRUE)}
probe_apk(v) == Told(v, FALSE)

\* The instance with what was told of its code.
build_probed(i, meta) ==
  IF parse_props(meta) /\ DefinitionsOf("lnreader", meta) # NULL
  THEN [i EXCEPT !.meta = meta, !.defaults = Defaults(DefinitionsOf("lnreader", meta)),
                 !.engine = [code |-> i.code, next |-> FALSE,
                             seed |-> storage_seed(i, Code[meta.of].prefs,
                                                   Defaults(DefinitionsOf("lnreader", meta)))]]
  ELSE [i EXCEPT !.meta = Failure]
Probed(kind, i, meta) ==
  CASE meta = Failure -> [i EXCEPT !.meta = Failure]
    [] meta # Failure /\ kind = "lnreader" -> build_probed(i, meta)
    [] meta # Failure /\ kind = "mangayomi" ->
         [seed_defaults(i, mangayomi_setting_definitions(meta)) EXCEPT !.meta = meta]

Loading(file, settings, id) ==
  [code |-> file.version, next |-> file.sidecar.next, stored |-> StoredIn(settings, id),
   defaults |-> Unset, meta |-> NULL, engine |-> NULL]
\* A site that cannot be chosen is stored if there is none.
from_aix_file(file, settings, id) ==
  LET i == [Loading(file, settings, id) EXCEPT
              !.meta = Told(file.version, FALSE),
              !.defaults = Defaults(aidoku_setting_definitions(file.version))]
  IN  IF Code[file.version].urls = <<>> /\ "url" \notin DOMAIN settings_all(i)
         /\ Code[file.version].url # NULL
      THEN set(i, "url", Code[file.version].url) ELSE i
from_lnreader_file(file, settings, id) ==
  LET i == Loading(file, settings, id)
      probed == IF read_probe_cache(file) = NULL THEN i ELSE build_probed(i, read_probe_cache(file))
  IN  IF probed.meta = Failure THEN i ELSE probed
from_mangayomi_file(file, settings, id) ==
  LET i == Loading(file, settings, id)
  IN  IF read_probe_cache(file) = NULL THEN i ELSE Probed("mangayomi", i, read_probe_cache(file))
ApkProbe(file) == IF read_probe_cache(file) = NULL THEN probe_apk(file.version) ELSE read_probe_cache(file)
from_keiyoushi_apk(file, settings, id) ==
  [Loading(file, settings, id) EXCEPT
     !.meta = ApkProbe(file),
     !.defaults = Defaults(DefinitionsOf("keiyoushi", ApkProbe(file)))]
load_source_package(kind, file, settings, id) ==
  CASE kind = "aidoku" -> from_aix_file(file, settings, id)
    [] kind = "lnreader" -> from_lnreader_file(file, settings, id)
    [] kind = "mangayomi" -> from_mangayomi_file(file, settings, id)
    [] kind = "keiyoushi" -> from_keiyoushi_apk(file, settings, id)
\* A load writes the probe of an APK, and removes a plugin's that cannot be read.
AfterLoad(kind, file) ==
  CASE kind = "keiyoushi" /\ read_probe_cache(file) = NULL ->
         write_probe_cache(file, file.version, probe_apk(file.version))
    [] kind = "lnreader" /\ read_probe_cache(file) # NULL
       /\ from_lnreader_file(file, <<NULL>>, 1).meta = NULL -> [file EXCEPT !.cache = NULL]
    [] OTHER -> file

-----------------------------------------------------------------------------
(* The manager: it loads packages again, and those in "lost" fail.         *)

NewName(id) == <<id, CHOOSE n \in 0..(Cardinality(Calls) + 1) : <<id, n>> \notin DOMAIN instances>>
InUse(r, cs) == (Range(r) \ {NULL}) \cup ({cs[c].of : c \in Calls} \ {NULL})
Reload(fs, ps, settings, lost, cs) ==
  LET made == UNION {packages[p].ids : p \in ps \ lost}
      gone == UNION {packages[p].ids : p \in ps}
      now == [id \in Ids |-> CASE id \in made -> NewName(id)
                               [] id \in gone \ made -> NULL
                               [] OTHER -> registered[id]]
      new == [i \in {now[id] : id \in made} |->
                load_source_package(Kind(i[1]), fs[PackageOf(i[1])], settings, i[1])]
  IN  /\ registered' = now
      /\ instances' = Restrict(Over(new, instances), InUse(now, cs))
      /\ files' = [p \in DOMAIN fs |-> IF p \in ps \ lost THEN AfterLoad(packages[p].kind, fs[p]) ELSE fs[p]]

FaultOldKeys(settings) == {id \in Ids : manager[id] # NULL /\ manager[id] # settings[id]}
changed_source_ids(settings) == {id \in Ids : manager[id] # settings[id]}
\* Only the name of a file with one source says which it is.
source_file_for_id(id) ==
  IF registered[id] # NULL \/ (Kind(id) # "aidoku" /\ packages[PackageOf(id)].ids = {id})
  THEN {PackageOf(id)} ELSE {}
AtMostOne(ps) == {lost \in SUBSET ps : Cardinality(lost) <= 1}

IdsOf(ps) == UNION {packages[p].ids : p \in ps}

\* The first reload that fails ends the loop; the settings are the new ones already.
update_settings(settings, lost) ==
  LET affected == UNION {source_file_for_id(id) : id \in changed_source_ids(settings)}
      reached == {p \in affected : \A q \in lost : p <= q}
  IN  /\ lost \subseteq affected
      /\ manager' = settings
      /\ stuck' = (stuck \cup IdsOf(affected)) \ IdsOf(reached)
      /\ Reload(files, reached, settings, lost, calls)

Change == changes < MaxChanges /\ changes' = changes + 1
Idle == [at |-> "idle", of |-> NULL, note |-> NULL]

\* The user stores settings: on disk first, in the memory of the server last.
set_source_stored_settings(id, stored) ==
  LET updated == [app EXCEPT ![id] = stored]
  IN  /\ Change
      /\ disk' = updated
      /\ \E lost \in AtMostOne(DOMAIN packages) :
           /\ update_settings(updated, lost)
           /\ app' = IF lost = {} THEN updated ELSE app
           /\ apart' = IF lost = {} THEN {} ELSE apart \cup {id}
      /\ UNCHANGED <<packages, calls, astray>>

load_all_sources(settings, lost, cs) == Reload(files, DOMAIN packages, settings, lost, cs)

Restart ==
  /\ Change
  /\ app' = disk /\ manager' = disk
  /\ calls' = [c \in Calls |-> Idle]
  /\ \E lost \in AtMostOne(DOMAIN packages) : load_all_sources(disk, lost, calls')
  /\ apart' = {} /\ stuck' = {}
  /\ UNCHANGED <<packages, disk, astray>>

\* A new version is installed: the package, its ".source" file, and the probe of it.
Install(p) ==
  LET v == files[p].version + 1
      kind == packages[p].kind
      bare == [version |-> v, sidecar |-> [from |-> v, next |-> NULL], cache |-> NULL]
      told == CASE kind = "lnreader" -> lnreader_run_probe(v) \ {Failure}
                [] kind = "mangayomi" -> mangayomi_run_probe(v)
                [] OTHER -> {NULL}
  IN  /\ Change
      /\ v \in DOMAIN Code
      /\ \E meta \in told :
           LET file == IF meta = NULL THEN bare ELSE write_probe_cache(bare, v, meta)
           IN  /\ kind = "lnreader" => from_lnreader_file(file, <<NULL>>, 1).meta # NULL
               /\ Reload([files EXCEPT ![p] = file], {p}, manager, {}, calls)
      /\ astray' = [astray EXCEPT ![p] = {}]
      /\ stuck' = stuck \ packages[p].ids
      /\ UNCHANGED <<packages, disk, app, manager, calls, apart>>

\* External: the package is replaced by other means, and nothing beside it.
Overwrite(p) ==
  /\ Change
  /\ files[p].version + 1 \in DOMAIN Code
  /\ files' = [files EXCEPT ![p].version = @ + 1]
  /\ astray' = [astray EXCEPT ![p] = @ \cup {"overwritten"}]
  /\ UNCHANGED <<packages, disk, app, manager, registered, instances, calls, apart, stuck>>

-----------------------------------------------------------------------------
(* A call.                                                                 *)

Own(c) == calls[c].of
File(c) == files[PackageOf(Own(c)[1])]
KindOf(c) == Kind(Own(c)[1])
\* One call at a time works inside an instance.
Free(c) == \A d \in Calls \ {c} : calls[d].of = Own(c) => calls[d].at = "taken"
Goes(c, at, note) == [calls EXCEPT ![c] = [@ EXCEPT !.at = at, !.note = note]]
Ends(c) == [calls EXCEPT ![c] = Idle]
\* The call goes on with its instance in a new state.
With(i, c, cs) ==
  /\ calls' = cs
  /\ instances' = Restrict([instances EXCEPT ![Own(c)] = i], InUse(registered, cs))

Take(c, id) ==
  /\ calls[c].at = "idle" /\ registered[id] # NULL
  /\ calls' = [calls EXCEPT ![c] = [Idle EXCEPT !.at = "taken", !.of = registered[id]]]
  /\ UNCHANGED <<packages, files, disk, app, manager, registered, instances, changes, astray, apart, stuck>>

\* What was found once is the answer, a failure too; else what the cache says of the
\* file, or else the code is to be evaluated.
ensure_probed(c) ==
  LET i == instances[Own(c)]
      cached == read_probe_cache(File(c))
  IN  /\ calls[c].at = "taken" /\ Free(c) /\ KindOf(c) \in {"lnreader", "mangayomi"}
      /\ CASE i.meta # NULL -> With(i, c, Ends(c))
           [] i.meta = NULL /\ cached # NULL -> With(Probed(KindOf(c), i, cached), c, Ends(c))
           [] OTHER -> With(i, c, Goes(c, "evaluating", File(c).version))
      /\ UNCHANGED <<packages, files, disk, app, manager, registered, changes, astray, apart, stuck>>

run_probe(c) ==
  LET i == instances[Own(c)]
      p == PackageOf(Own(c)[1])
      print == calls[c].note
  IN  /\ calls[c].at = "evaluating"
      /\ \E meta \in IF KindOf(c) = "lnreader" THEN lnreader_run_probe(i.code) ELSE mangayomi_run_probe(i.code) :
           /\ files' = IF meta = Failure THEN files
                       ELSE [files EXCEPT ![p] = write_probe_cache(@, print, meta)]
           /\ astray' = IF meta = Failure \/ i.code = print THEN astray
                        ELSE [astray EXCEPT ![p] = @ \cup {"late probe"}]
           /\ With(Probed(KindOf(c), i, meta), c, Ends(c))
      /\ UNCHANGED <<packages, disk, app, manager, registered, changes, apart, stuck>>

is_aidoku_sdk_next(v) == Code[v].min
\* The mode that the package was booted in before, or that its manifest asks for; the
\* opposite one if it does not fit the module.
Modes(i, v) ==
  LET first == IF i.next = NULL THEN is_aidoku_sdk_next(i.code) ELSE i.next
  IN  IF first \in Code[v].modes THEN {first} ELSE Code[v].modes
\* The engine is made of the package on disk; what is beside it is read to be written.
boot(c) ==
  LET i == instances[Own(c)]
      v == File(c).version
  IN  /\ calls[c].at = "taken" /\ Free(c) /\ KindOf(c) = "aidoku" /\ i.engine = NULL
      /\ \/ calls' = Ends(c)
         \/ \E next \in Modes(i, v) :
              calls' = Goes(c, IF i.next = next THEN "starting" ELSE "persisting",
                            [engine |-> [code |-> v, next |-> next, seed |-> settings_all(i)],
                             sidecar |-> File(c).sidecar])
      /\ instances' = Restrict(instances, InUse(registered, calls'))
      /\ UNCHANGED <<packages, files, disk, app, manager, registered, changes, astray, apart, stuck>>

FaultFresh(sidecar, next) == [from |-> NULL, next |-> next]
Booted(sidecar, next) == [sidecar EXCEPT !.next = next]
ensure_booted(c) ==
  LET p == PackageOf(Own(c)[1])
      note == calls[c].note
  IN  /\ calls[c].at = "persisting"
      /\ files' = [files EXCEPT ![p].sidecar = Booted(note.sidecar, note.engine.next)]
      /\ astray' = IF note.sidecar = File(c).sidecar THEN astray
                   ELSE [astray EXCEPT ![p] = @ \cup {"late boot"}]
      /\ calls' = Goes(c, "starting", note)
      /\ UNCHANGED <<packages, disk, app, manager, registered, instances, changes, apart, stuck>>

\* The instance forgets an engine that does not start.
start(c) ==
  LET i == instances[Own(c)]
      engine == calls[c].note.engine
  IN  /\ calls[c].at = "starting"
      /\ \/ With([i EXCEPT !.engine = engine], c, Goes(c, "running", NULL))
         \/ engine.next /\ With(i, c, Ends(c))
      /\ UNCHANGED <<packages, files, disk, app, manager, registered, changes, astray, apart, stuck>>

\* The worker of an APK boots the file that is there.
boot_engine(c) ==
  LET i == instances[Own(c)]
  IN  /\ calls[c].at = "taken" /\ Free(c) /\ (KindOf(c) = "keiyoushi" \/ i.engine # NULL)
      /\ KindOf(c) \in {"aidoku", "keiyoushi"}
      /\ With(IF i.engine # NULL THEN i
              ELSE [i EXCEPT !.engine = [code |-> File(c).version, next |-> FALSE,
                                  seed |-> setting_value_to_pref(i, DefinitionsOf("keiyoushi", i.meta))]],
              c, Goes(c, "running", NULL))
      /\ UNCHANGED <<packages, files, disk, app, manager, registered, changes, astray, apart, stuck>>

\* The source stores a setting of its own: what it holds now is to be all its settings.
save(c) ==
  LET i == set(instances[Own(c)], "k", 2)
  IN  /\ calls[c].at = "running" /\ (KindOf(c) = "keiyoushi" \/ instances[Own(c)].engine.next)
      /\ Change
      /\ With(i, c, Goes(c, "saving", i.stored))
      /\ UNCHANGED <<packages, files, disk, app, manager, registered, astray, apart, stuck>>

\* Every package is loaded again, if the folder can be read.
update_source_setting(c) ==
  LET id == Own(c)[1]
      settings == [manager EXCEPT ![id] = calls[c].note]
  IN  /\ calls[c].at = "saving"
      /\ manager' = settings
      /\ calls' = Goes(c, "running", NULL)
      /\ \/ /\ \E lost \in AtMostOne(DOMAIN packages) : load_all_sources(settings, lost, calls')
            /\ stuck' = {}
         \/ UNCHANGED <<registered, instances, files>> /\ stuck' = stuck \cup {id}
      /\ apart' = apart \cup {id}
      /\ UNCHANGED <<packages, disk, app, changes, astray>>

Finish(c) ==
  /\ calls[c].at = "running"
  /\ With(instances[Own(c)], c, Ends(c))
  /\ UNCHANGED <<packages, files, disk, app, manager, registered, changes, astray, apart, stuck>>

-----------------------------------------------------------------------------
Init ==
  /\ packages \in Collections
  /\ files = [p \in DOMAIN packages |->
                [version |-> 1, sidecar |-> [from |-> 1, next |-> NULL],
                 cache |-> IF packages[p].kind = "keiyoushi" THEN [print |-> 1, meta |-> probe_apk(1)] ELSE NULL]]
  /\ disk = [id \in Ids |-> NULL] /\ app = disk /\ manager = disk
  /\ registered = [id \in Ids |-> <<id, 0>>]
  /\ instances = [i \in {<<id, 0>> : id \in Ids} |->
                    load_source_package(Kind(i[1]), files[PackageOf(i[1])], disk, i[1])]
  /\ calls = [c \in Calls |-> Idle]
  /\ changes = 0
  /\ astray = [p \in DOMAIN packages |-> {}]
  /\ apart = {} /\ stuck = {}

Serve(c) ==
  \/ \E id \in Ids : Take(c, id)
  \/ ensure_probed(c) \/ run_probe(c) \/ boot(c) \/ ensure_booted(c) \/ start(c)
  \/ boot_engine(c) \/ save(c) \/ update_source_setting(c) \/ Finish(c)
Next ==
  \/ \E id \in Ids, stored \in StoredSettings : set_source_stored_settings(id, stored)
  \/ Restart
  \/ \E p \in DOMAIN packages : Install(p) \/ Overwrite(p)
  \/ \E c \in Calls : Serve(c)

Spec == Init /\ [][Next]_vars

-----------------------------------------------------------------------------
(* Properties.                                                             *)

TypeOK ==
  /\ DOMAIN registered = Ids /\ DOMAIN instances = InUse(registered, calls)
  /\ \A p \in DOMAIN packages :
       /\ files[p].version \in DOMAIN Code /\ files[p].sidecar.next \in {NULL, TRUE, FALSE}
       /\ astray[p] \subseteq {"overwritten", "late probe", "late boot"}
  /\ \A id \in Ids : registered[id] \in {NULL} \cup {<<id, n>> : n \in 0..(Cardinality(Calls) + 1)}
  /\ \A c \in Calls : calls[c].at \in {"idle", "taken", "evaluating", "persisting", "starting",
                                       "running", "saving"}
  /\ changes \in 0..MaxChanges /\ apart \cup stuck \subseteq Ids

\* While a source is being probed it describes itself as one that was not.
probed(name) ==
  LET meta == instances[name].meta
  IN  IF meta = Failure \/ (\E c \in Calls : calls[c].of = name /\ calls[c].at = "evaluating")
      THEN NULL ELSE meta
placeholder_manifest(name) ==
  IF Kind(name[1]) = "mangayomi" THEN Told(instances[name].code, TRUE) ELSE NULL
manifest(name) == IF probed(name) = NULL THEN placeholder_manifest(name) ELSE probed(name)

Registered == {id \in Ids : registered[id] # NULL}
Current(id) == instances[registered[id]]
Untouched(id) == Current(id).code = files[PackageOf(id)].version

\* A registered source describes itself with the metadata of the very code that it runs,
\* whatever was cached for other versions of the package, and its engine runs that code.
\* Excepted is a package changed under a loaded source by other means than an
\* installation, whose probe then is filed under the new version until it is installed again.
MetadataTrue ==
  \A id \in Registered :
    /\ manifest(registered[id]) # NULL =>
         \/ manifest(registered[id]).of = Current(id).code
         \/ "late probe" \in astray[PackageOf(id)] \/ ~Untouched(id)
    /\ Current(id).engine # NULL => Current(id).engine.code = Current(id).code \/ ~Untouched(id)

\* The settings that the user has stored are those a registered source works with,
\* unless it has stored one itself since, or a package failed to load again.
SettingsReach ==
  \A id \in Registered :
    /\ manager[id] = app[id] \/ id \in apart
    /\ \/ id \in stuck
       \/ \E c \in Calls : calls[c].of = registered[id] /\ calls[c].at = "saving"
       \/ \A k \in DOMAIN StoredIn(manager, id) :
            /\ get(Current(id), k) = manager[id][k]
            /\ Current(id).engine # NULL /\ k \in DOMAIN Current(id).engine.seed =>
                 Current(id).engine.seed[k] = manager[id][k]

\* What is written beside a package when it is booted keeps where it was installed from
\* and which version that was, unless another installation came in between.
ProvenanceKept ==
  \A p \in DOMAIN packages :
    files[p].sidecar.from = files[p].version \/ astray[p] \cap {"overwritten", "late boot"} # {}
=============================================================================
