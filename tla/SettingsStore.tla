--------------------------- MODULE SettingsStore ---------------------------
(***************************************************************************)
(* The settings: settings.json with its backup and their recovery (shared/ *)
(* src/settings/implementation.rs, server/src/settings_recovery.rs), the   *)
(* one copy in memory behind a mutex, the handlers that change it, some of *)
(* them in place and across calls to other servers, and the chapter storage*)
(* that was made from the settings at the start (server/src/settings/      *)
(* routes.rs, cookie/routes.rs, manga/routes.rs, app.rs).  Forms of the    *)
(* interface hold a copy of all settings until they are sent.              *)
(*                                                                         *)
(* Of the settings, the model keeps what the running storage is made from, *)
(* the tokens of one tracking service, and the pairing for cookies.  Tokens*)
(* and pairings are numbered as other servers issue them, 0 is none.       *)
(***************************************************************************)
EXTENDS Naturals

CONSTANTS NULL, DAMAGED,
          Forms,        \* the forms that can be open at one time
          MaxRequests,  \* bound: requests, and starts of the server
          MaxTroubles   \* bound: failures, ends of the process, damaged files

VARIABLES stored,      \* settings.json and its backup
          held,        \* State.settings, NULL when the server is not running
          storage,     \* State.chapter_storage
          forms,       \* the copies that open forms hold
          holder,      \* the handler that holds the settings across an await
          answers,     \* answers of other servers that wait for the settings
          spent,       \* how many requests, issues and troubles there have been
          acceptable,  \* history: the settings last reported saved, and those tried since
          kept,        \* history: the newest tokens and pairing reported saved
          unsaved,     \* history: what was changed in place and then not saved
          drift        \* history: what the running storage was not told

settingsVars == <<stored, held, storage, forms, holder, answers, spent, acceptable, kept, unsaved, drift>>

Issued == {"token", "refresh", "chat"}
Numbers == 0..(MaxRequests + 1)
Settings == [limit : {1, 2}, path : {NULL, 1}, ram : BOOLEAN,
             token : Numbers, refresh : Numbers, chat : Numbers]
Default == [limit |-> 1, path |-> NULL, ram |-> FALSE, token |-> 0, refresh |-> 0, chat |-> 0]
\* A user has pasted a refresh token, and keeps chapters in memory.
Known == [Default EXCEPT !.refresh = 1, !.ram = TRUE]
NoneIssued == [f \in Issued |-> 0]
DefaultFolder == 0
Storages == [limit : {1, 2}, path : {DefaultFolder, 1}, ram : BOOLEAN]

ASSUME BoundsAssumption == MaxRequests \in Nat /\ MaxTroubles \in Nat
ASSUME NothingAssumption == NULL # DAMAGED /\ \A x \in Settings \union Storages : x \notin {NULL, DAMAGED}

-----------------------------------------------------------------------------
(* Files.                                                                  *)

Valid(file) == file \notin {NULL, DAMAGED}
\* The backup is written first; each file is replaced as a whole, or not.
save_to_file(files, s, written) ==
  [primary |-> IF written = 2 THEN s ELSE files.primary,
   backup |-> IF written >= 1 THEN s ELSE files.backup]
\* A damaged file is moved aside.
preserve_invalid_settings_file(file) == IF file = DAMAGED THEN NULL ELSE file
Preserved(files, moved) ==
  [primary |-> IF moved >= 1 THEN preserve_invalid_settings_file(files.primary) ELSE files.primary,
   backup |-> IF moved = 2 THEN preserve_invalid_settings_file(files.backup) ELSE files.backup]
Recovered(files) ==
  IF Valid(files.primary) THEN files.primary
  ELSE IF Valid(files.backup) THEN files.backup ELSE Default

\* What a step takes of the bounds; tokens and pairings are numbered by the issues.
Takes(kinds) ==
  /\ "requests" \in kinds => spent.requests < MaxRequests
  /\ "troubles" \in kinds => spent.troubles < MaxTroubles
  /\ spent' = [k \in DOMAIN spent |-> IF k \in kinds THEN spent[k] + 1 ELSE spent[k]]
NextIssue == spent.issues + 1

\* A save ends after some of the files, in an error or with the end of the process.
Troubled(bad) == IF bad THEN {"troubles"} ELSE {}
Failing(written, up) == Troubled(written < 2 \/ ~up)
Newer(s, low) == [f \in Issued |-> IF s[f] > low[f] THEN s[f] ELSE low[f]]
Older(s, low) == [f \in Issued |-> IF s[f] < low[f] THEN s[f] ELSE low[f]]
Saving(s, low, written, up) ==
  /\ stored' = save_to_file(stored, s, written)
  /\ acceptable' = CASE written = 2 /\ up -> {s}
                     [] written = 0 -> acceptable
                     [] OTHER -> acceptable \union {s}
  /\ kept' = IF written = 2 /\ up THEN Newer(s, low) ELSE low

Down ==
  /\ held' = NULL /\ storage' = NULL /\ holder' = NULL
  /\ answers' = {} /\ unsaved' = {} /\ drift' = {}
Running == held # NULL
Free == Running /\ holder = NULL

-----------------------------------------------------------------------------
(* Start and end of the server.                                            *)

SettingsInit ==
  /\ \/ stored = [primary |-> NULL, backup |-> NULL] /\ acceptable = {Default}
     \/ stored = [primary |-> Known, backup |-> Known] /\ acceptable = {Known}
  /\ held = NULL /\ storage = NULL /\ holder = NULL
  /\ forms = [f \in Forms |-> NULL]
  /\ answers = {}
  /\ spent = [requests |-> 0, issues |-> 1, troubles |-> 0]
  /\ kept = NoneIssued /\ unsaved = {} /\ drift = {}

\* The running chapter storage of these settings, if the memory file system is mounted.
StorageOf(s, mounted) ==
  [limit |-> s.limit, ram |-> s.ram /\ mounted,
   path |-> IF s.path = NULL THEN DefaultFolder ELSE s.path]
Up(s, mounted) ==
  /\ held' = s
  /\ storage' = StorageOf(s, mounted)
  /\ drift' = IF s.ram /\ ~mounted THEN {"ram"} ELSE {}
  /\ UNCHANGED <<holder, answers, unsaved>>

\* Files are moved aside before the first is written.  Whatever fails ends the start.
load_settings_or_recover(moved, written, up) ==
  LET s == Recovered(stored)
      invalid == IF Valid(stored.backup) THEN 1 ELSE 2
  IN  IF Valid(stored.primary)
      THEN moved = 0 /\ written = 2 /\ UNCHANGED <<stored, acceptable, kept>>
      ELSE /\ moved <= invalid /\ (written > 0 => moved = invalid)
           /\ stored' = save_to_file(Preserved(stored, moved), s, written)
           /\ acceptable' = IF written = 2 /\ up THEN {s} ELSE acceptable \union {s}
           /\ kept' = IF Valid(stored.backup) THEN kept ELSE NoneIssued

build_state(moved, written, up, mounted) ==
  /\ held = NULL
  /\ ~mounted => Recovered(stored).ram
  /\ Takes({"requests"} \union Failing(written, up) \union Troubled(~mounted))
  /\ load_settings_or_recover(moved, written, up)
  /\ IF written = 2 /\ up THEN Up(Recovered(stored), mounted) ELSE Down
  /\ UNCHANGED forms

\* The process may end at any time, and a file may become unreadable.
End ==
  /\ Running
  /\ Takes({"troubles"})
  /\ Down
  /\ UNCHANGED <<stored, forms, acceptable, kept>>
Damage(file) ==
  /\ Valid(stored[file])
  /\ Takes({"troubles"})
  /\ stored' = [stored EXCEPT ![file] = DAMAGED]
  /\ UNCHANGED <<held, storage, forms, holder, answers, acceptable, kept, unsaved, drift>>

-----------------------------------------------------------------------------
(* Forms.                                                                  *)

get_settings(f) ==
  /\ Free
  /\ forms' = [forms EXCEPT ![f] = held]
  /\ forms' # forms
  /\ UNCHANGED <<stored, held, storage, holder, answers, spent, acceptable, kept, unsaved, drift>>

FormEdits == {"limit", "path", "sign_out", "other"}
Edited(form, edit) ==
  CASE edit = "limit" -> [form EXCEPT !.limit = 3 - @]
    [] edit = "path"  -> [form EXCEPT !.path = IF @ = NULL THEN 1 ELSE NULL]
    [] edit = "sign_out" -> [form EXCEPT !.token = 0, !.refresh = 0]
    [] edit = "other" -> form
FaultWholeForm(form, s) == form
\* A form has the mode of the storage, but does not set it.
apply_updates(form, s) == [form EXCEPT !.ram = s.ram]

\* The storage is told a folder, but neither the default one nor the limit.
set_downloads_folder_path(s, created) ==
  IF s.path # NULL /\ created THEN [storage EXCEPT !.path = s.path] ELSE storage
Untold(s, created) ==
  (IF s.limit # held.limit THEN {"limit"} ELSE {})
  \union (IF (s.path # NULL /\ ~created) \/ (s.path = NULL /\ held.path # NULL) THEN {"path"} ELSE {})
Told(s, created) == IF s.path # NULL /\ created THEN {"path"} ELSE {}

\* A form that is older than a token or a pairing takes it away again.
update_settings(f, edit, written, up, created) ==
  LET form == Edited(forms[f], edit)
      s == apply_updates(form, held)
  IN  /\ Free /\ forms[f] # NULL
      /\ ~created => s.path # NULL /\ written = 2
      /\ Takes({"requests"} \union Failing(written, up) \union Troubled(~created))
      /\ forms' = [forms EXCEPT ![f] = form]
      /\ Saving(s, IF written = 0 THEN kept ELSE Older(s, kept), written, up)
      /\ IF ~up THEN Down
         ELSE IF written < 2 THEN UNCHANGED <<held, storage, holder, answers, unsaved, drift>>
         ELSE /\ held' = s /\ unsaved' = {}
              /\ storage' = set_downloads_folder_path(s, created)
              /\ drift' = (drift \ Told(s, created)) \union Untold(s, created)
              /\ UNCHANGED <<holder, answers>>

\* The mode changes in the storage first.
enable_ram(mounted) == [storage EXCEPT !.ram = mounted]
disable_ram == [storage EXCEPT !.ram = FALSE]
mount_tmpfs(enabled, mounted, written, up) ==
  LET s == [held EXCEPT !.ram = enabled]
  IN  /\ Free
      /\ ~mounted => enabled /\ up
      /\ Takes({"requests"} \union Troubled(~mounted \/ written < 2 \/ ~up))
      /\ IF mounted THEN Saving(s, kept, written, up)
         ELSE written = 0 /\ UNCHANGED <<stored, acceptable, kept>>
      /\ IF ~up THEN Down
         ELSE /\ storage' = IF enabled THEN enable_ram(mounted) ELSE disable_ram
              /\ IF written = 2
                 THEN held' = s /\ unsaved' = {} /\ drift' = drift \ {"ram"}
                 ELSE UNCHANGED <<held, unsaved>> /\ drift' = drift \union {"ram"}
              /\ UNCHANGED <<holder, answers>>
      /\ UNCHANGED forms

-----------------------------------------------------------------------------
(* Handlers that change the settings in place.                             *)

\* Other servers answer while the settings are free: with tokens, or a pairing.
Answered(what) ==
  /\ Running
  /\ Takes({"requests", "issues"})
  /\ answers' = answers \union {[what |-> what, value |-> NextIssue]}
  /\ UNCHANGED <<stored, held, storage, forms, holder, acceptable, kept, unsaved, drift>>
GivenUp(a) ==
  /\ answers' = answers \ {a}
  /\ UNCHANGED <<stored, held, storage, forms, holder, spent, acceptable, kept, unsaved, drift>>

\* The tokens are in place before the user's name is asked for; a token to refresh with
\* may be missing among them.
poll_oauth_status(a, refresh) ==
  /\ Free /\ a.what = "token"
  /\ answers' = answers \ {a}
  /\ held' = [held EXCEPT !.token = a.value, !.refresh = IF refresh THEN a.value ELSE @]
  /\ unsaved' = unsaved \union {"token", "refresh"}
  /\ kept' = Older(held', kept)
  /\ holder' = [op |-> "oauth", at |-> "call"]
  /\ UNCHANGED <<stored, storage, forms, spent, acceptable, drift>>

\* A check of the credentials and a search end with the first error, synchronisation of
\* progress reports errors among its results.
Track(op) ==
  /\ Free
  /\ Takes({"requests"})
  /\ holder' = [op |-> op, at |-> IF held.token = 0 /\ held.refresh # 0 THEN "refresh" ELSE "call"]
  /\ UNCHANGED <<stored, held, storage, forms, answers, acceptable, kept, unsaved, drift>>
ensure_access_token(refresh) ==
  /\ Running /\ holder # NULL /\ holder.at = "refresh"
  /\ Takes({"issues"})
  /\ held' = [held EXCEPT !.token = NextIssue, !.refresh = IF refresh THEN NextIssue ELSE @]
  /\ unsaved' = unsaved \union {"token", "refresh"}
  /\ holder' = [holder EXCEPT !.at = "call"]
  /\ UNCHANGED <<stored, storage, forms, answers, acceptable, kept, drift>>

\* The last answer has come, or an error; then the settings are saved, or not.
Release(ok, written, up) ==
  /\ Running /\ holder # NULL
  /\ holder.at = "refresh" => ~ok
  /\ IF ok \/ holder.op # "check"
     THEN /\ Saving(held, kept, written, up)
          /\ IF up THEN unsaved' = (IF written = 2 THEN {} ELSE unsaved) ELSE TRUE
     ELSE /\ written = 0 /\ up
          /\ UNCHANGED <<stored, acceptable, kept, unsaved>>
  /\ Takes(IF ok \/ holder.op # "check" THEN Failing(written, up) ELSE {"troubles"})
  /\ IF up THEN holder' = NULL /\ UNCHANGED <<held, storage, answers, drift>> ELSE Down
  /\ UNCHANGED forms

\* The client has gone, and the handler ends where it waits.
HandlerDropped ==
  /\ Running /\ holder # NULL
  /\ Takes({"troubles"})
  /\ holder' = NULL
  /\ UNCHANGED <<stored, held, storage, forms, answers, acceptable, kept, unsaved, drift>>

SaveInPlace(s, low, field, written, up) ==
  /\ Saving(s, low, written, up)
  /\ IF up
     THEN /\ held' = s
          /\ unsaved' = IF written = 2 THEN {} ELSE unsaved \union {field}
          /\ UNCHANGED <<storage, holder, drift>>
     ELSE Down
poll_pairing(a, written, up) ==
  LET s == [held EXCEPT !.chat = a.value]
  IN  /\ Free /\ a.what = "chat"
      /\ Takes(Failing(written, up))
      /\ SaveInPlace(s, Older(s, kept), "chat", written, up)
      /\ up => answers' = answers \ {a}
      /\ UNCHANGED forms
unpair(written, up) ==
  LET s == [held EXCEPT !.chat = 0]
  IN  /\ Free
      /\ Takes({"requests"} \union Failing(written, up))
      /\ SaveInPlace(s, Older(s, kept), "chat", written, up)
      /\ up => UNCHANGED answers
      /\ UNCHANGED forms

Start ==
  \E moved, written \in 0..2, up, mounted \in BOOLEAN : build_state(moved, written, up, mounted)
Form(f) ==
  \/ get_settings(f)
  \/ \E edit \in FormEdits, written \in 0..2, up, created \in BOOLEAN :
       update_settings(f, edit, written, up, created)
Tracking ==
  \/ \E op \in {"check", "sync"} : Track(op)
  \/ \E refresh \in BOOLEAN : ensure_access_token(refresh)
  \/ \E ok, up \in BOOLEAN, written \in 0..2 : Release(ok, written, up)
  \/ HandlerDropped
Poll ==
  \/ \E what \in {"token", "chat"} : Answered(what)
  \/ \E a \in answers :
       \/ GivenUp(a)
       \/ \E refresh \in BOOLEAN : poll_oauth_status(a, refresh)
       \/ \E written \in 0..2, up \in BOOLEAN : poll_pairing(a, written, up)
Save ==
  \E written \in 0..2, up \in BOOLEAN :
    \/ unpair(written, up)
    \/ \E enabled, mounted \in BOOLEAN : mount_tmpfs(enabled, mounted, written, up)
SettingsNext ==
  \/ Start \/ End \/ Tracking \/ Poll \/ Save
  \/ \E file \in {"primary", "backup"} : Damage(file)
  \/ \E f \in Forms : Form(f)
SettingsSpec == SettingsInit /\ [][SettingsNext]_settingsVars

-----------------------------------------------------------------------------
(* Properties.                                                             *)

SettingsTypeOK ==
  /\ stored \in [primary : Settings \union {NULL, DAMAGED}, backup : Settings \union {NULL, DAMAGED}]
  /\ held \in Settings \union {NULL}
  /\ storage \in Storages \union {NULL}
  /\ (storage = NULL) = (held = NULL)
  /\ forms \in [Forms -> Settings \union {NULL}]
  /\ holder \in [op : {"check", "sync", "oauth"}, at : {"refresh", "call"}] \union {NULL}
  /\ answers \subseteq [what : {"token", "chat"}, value : Numbers]
  /\ spent \in [requests : 0..MaxRequests, issues : Numbers, troubles : 0..MaxTroubles]
  /\ acceptable \subseteq Settings
  /\ kept \in [Issued -> Numbers]
  /\ unsaved \subseteq Issued /\ drift \subseteq {"limit", "path", "ram"}

\* A start finds the settings that were last reported saved, or some that were tried since,
\* unless neither file can be read (save_to_file, load_settings_or_recover).
RecoveryHonest ==
  Valid(stored.primary) \/ Valid(stored.backup) => Recovered(stored) \in acceptable

\* What is in memory is what a restart finds, but for what a handler changed in place and
\* then did not save: a failed, abandoned or unfinished one (settings/routes.rs,
\* tracking/mod.rs).
MemoryStored ==
  Running =>
    \/ stored.primary = DAMAGED
    \/ /\ stored.primary # NULL
       /\ \A f \in DOMAIN held : f \in unsaved \/ held[f] = stored.primary[f]

\* No token and no pairing that was reported saved gives way to an older one, but by a form
\* that was opened earlier, an unpairing, a late answer, or when both files are lost.
NothingOlder == Running => \A f \in Issued : held[f] >= kept[f]

\* The running chapter storage follows the settings, but for a new limit, a folder that is
\* reset or cannot be made, and a failed change of the mode (update_settings, mount_tmpfs).
StorageFollows ==
  Running => \A f \in {"limit", "path", "ram"} \ drift : storage[f] = StorageOf(held, TRUE)[f]

\* What was reported saved is found again, memory and files agree, tokens stay, and the
\* running storage follows, but for the exceptions named above.
SettingsKept == RecoveryHonest /\ MemoryStored /\ NothingOlder /\ StorageFollows
=============================================================================
