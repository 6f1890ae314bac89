------------------------------- MODULE Config -------------------------------
(***************************************************************************)
(* config.rs, settings.rs and the part of main.rs that uses them: how the  *)
(* command line, the environment, a file and the stored settings become    *)
(* the configuration of a start.  A value that may be missing is a set of  *)
(* at most one element.                                                    *)
(***************************************************************************)
EXTENDS Integers, FiniteSets, SequencesExt

OrElse(x, y) == IF x # {} THEN x ELSE y

-----------------------------------------------------------------------------
(* The layers of AppConfig: functions on the fields *)

(* `files` has what is parsed at each path: a file that is absent or malformed
   gives nothing *)
TryLoadToml(files, path) == files[path]

SearchPaths == <<"./config.toml", "/etc/cortex-stt/config.toml">>

(* A file that is named is the only one looked at; the environment's name is
   looked for before that of the arguments *)
LoadFileConfig(envPath, argPath, files) ==
  LET explicit == OrElse(envPath, argPath)
      found    == {i \in DOMAIN SearchPaths : TryLoadToml(files, SearchPaths[i]) # {}}
  IN IF explicit # {} THEN UNION {TryLoadToml(files, p) : p \in explicit}
     ELSE UNION {TryLoadToml(files, SearchPaths[i]) : i \in {j \in found : \A k \in found : j <= k}}

(* The file's values become variables of the environment *)
ApplyAsEnvDefaults(fileConfig, env) ==
  [k \in DOMAIN env |-> OrElse(env[k], UNION {fc[k] : fc \in fileConfig})]

(* clap: an argument, the environment, the compiled default *)
Parse(args, env, defaults) == [k \in DOMAIN env |-> OrElse(args[k], OrElse(env[k], defaults[k]))]

Load(args, env, defaults, envPath, argPath, files) ==
  Parse(args, ApplyAsEnvDefaults(LoadFileConfig(envPath, argPath, files), env), defaults)

(* `index` is the directories that have an index.html *)
StaticDir(configured, index) ==
  IF configured # {} THEN configured \cap index
  ELSE IF "./web/dist" \in index THEN {"./web/dist"} ELSE {"/app/web/dist"} \cap index

-----------------------------------------------------------------------------
(* Settings *)
SettingsOf(Keys, Models) ==
  [preload : {{}} \cup {{k} : k \in Keys}, legacyModel : {{}} \cup {{m} : m \in Models},
   legacyPreload : BOOLEAN, poolSize : 1 .. 2, idle : {{}, {0}, {1}}]
DefaultSettings == [preload |-> {}, legacyModel |-> {}, legacyPreload |-> FALSE, poolSize |-> 1,
                    idle |-> {}]

(* Null and zero both mean that models stay loaded *)
EngineIdleTimeout(secs) == secs \ {0}

(* The fields a saved change is logged with: the old ones are not serialised *)
ChangesTo(old, new) == {f \in DOMAIN old \ {"legacyModel", "legacyPreload"} : old[f] # new[f]}

(* resolve: `config` has the pool size, the timeout and the pre-load of the layers *)
Resolve(config, stored) ==
  [poolSize |-> UNION {{s.poolSize} : s \in stored} \cup IF stored = {} THEN config.poolSize ELSE {},
   idle |-> IF stored = {} THEN EngineIdleTimeout(config.idle)
            ELSE UNION {EngineIdleTimeout(s.idle) : s \in stored},
   preload |-> OrElse(UNION {s.preload : s \in stored}, config.preload)]

(* The variant an older release served: the earliest installed, the first of those
   that are equally early *)
Served(installed, model) ==
  LET mine == {i \in DOMAIN installed : installed[i].model = model}
      earlier(i, j) == \/ installed[i].at < installed[j].at
                       \/ installed[i].at = installed[j].at /\ i <= j
  IN {installed[i].key : i \in {j \in mine : \A k \in mine : earlier(j, k)}}

MigrateLegacyPreload(s, installed) ==
  LET wanted == s.preload = {} /\ s.legacyPreload
  IN [rewrite |-> s.legacyModel # {} \/ s.legacyPreload,
      settings |-> [s EXCEPT !.legacyModel = {}, !.legacyPreload = FALSE,
        !.preload = IF wanted THEN UNION {Served(installed, m) : m \in s.legacyModel} ELSE s.preload]]

(* The stored row, [parses, stored]: none is a fresh install, a bad one an error *)
LoadStoredSettings(row) == IF row.parses THEN row.stored ELSE {}
LoadSettings(row) == IF row.parses THEN OrElse(row.stored, {DefaultSettings}) ELSE {}

(* A start: what is pre-loaded, and the row it leaves.  A row that cannot be read
   is left alone, and one that cannot be `saved` is tried again at the next. *)
StartUp(config, row, installed, saved) ==
  LET stored    == LoadStoredSettings(row)
      effective == Resolve(config, stored)
      migrated  == {MigrateLegacyPreload(s, installed) : s \in stored}
      changed   == {m \in migrated : m.rewrite}
  IN [preload |-> OrElse(effective.preload, UNION {m.settings.preload : m \in changed}),
      row |-> IF changed = {} \/ ~saved THEN row
              ELSE [parses |-> TRUE, stored |-> {m.settings : m \in changed}]]

-----------------------------------------------------------------------------
(* config.rs:79-81: "CLI > ENV > config.toml > defaults", whichever file is read. *)
LayersInOrder(args, env, defaults, envPath, argPath, files) ==
  LET file   == LoadFileConfig(envPath, argPath, files)
      value  == Load(args, env, defaults, envPath, argPath, files)
      layers == <<[k \in DOMAIN env |-> args[k]], env,
                  [k \in DOMAIN env |-> UNION {fc[k] : fc \in file}], defaults>>
  IN /\ Cardinality(file) <= 1
     /\ \A k \in DOMAIN env, i \in 1 .. 4 :
          layers[i][k] # {} => value[k] = layers[i][k] \/ \E j \in 1 .. i - 1 : layers[j][k] = value[k]

(* main.rs:128-146: the migration is done once, even if its first result could not be
   saved; and the variant it finds is the one that every later start pre-loads, unless
   the command line had named another for the first. *)
MigrationSettles(config, row, installed) ==
  LET first(saved) == StartUp(config, row, installed, saved)
      second == StartUp(config, first(TRUE).row, installed, TRUE)
  IN /\ first(FALSE).row = row
     /\ second.row = first(TRUE).row
     /\ second.preload # first(TRUE).preload => config.preload # {} /\ first(TRUE).row # row

(* config.rs:289-298: a stored choice to keep models loaded is never undone by the
   command line, nor a stored row that cannot be read replaced. *)
StoredChoicesHold(config, row, installed) ==
  LET stored == LoadStoredSettings(row)
  IN /\ \A s \in stored : s.idle \subseteq {0} => Resolve(config, stored).idle = {}
     /\ ~row.parses => StartUp(config, row, installed, TRUE).row = row
=============================================================================
