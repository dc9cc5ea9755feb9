----------------------------- MODULE ConfigLayers ----------------------------
(***************************************************************************)
(* The daemon's configuration: read from layered files at startup, reread  *)
(* on SIGHUP (event loop thread) and on ReloadConfig (IPC workers), given  *)
(* to the clean engine and to the daemon under two separate locks, and     *)
(* validated again, within narrower limits, by each job.                   *)
(*                                                                         *)
(* A configuration is [interval, soc]: the maintenance interval in seconds *)
(* and the temperature limit in degrees (NaN is a TOML float).             *)
(***************************************************************************)
EXTENDS Naturals

CONSTANTS
  Contents,    \* the configurations a file can hold
  Default,     \* DaemonConfig::default()
  Reloaders,   \* threads that reload
  NaN, Missing, Torn, Nothing,
  MaxGeneration,   \* ConfigGeneration::MAX
  MaxEdits         \* bound on what the owner does to the files

VARIABLES
  files,        \* per path: a configuration, Torn or Missing
  draft,        \* config.tmp beside the mandatory file
  saving,       \* "no", "created", "written": cleaner init-config
  edits, edited,   \* how often, and which files, the owner wrote
  active_config_path,
  config,       \* DaemonContext::config
  engine,       \* CleanEngine: [config, generation]
  reload,       \* per reloader: Nothing, or [at, config] between its locks
  ran,          \* history: the [generation, config] jobs ran with
  reloadsOverlapped    \* history: two reloads were in progress at once

fileVars == <<files, draft, saving, edits, edited>>
heldVars == <<active_config_path, config, engine, reload, ran, reloadsOverlapped>>
confVars == <<fileVars, heldVars>>

Layers == {"given", "mandatory", "local"}

\* NaN is neither below nor above any limit.
validate(c) == c.interval >= 30 /\ (c.soc = NaN \/ (c.soc >= 20 /\ c.soc <= 95))

\* The defaults pass their own validation, and what stands for an absent or
\* unreadable value is no value.
ASSUME ConfigAssumption ==
  /\ validate(Default)
  /\ Missing # Torn
  /\ {Missing, Torn} \cap (Contents \cup {Default}) = {}
  /\ Nothing \notin Contents \cup {Default} /\ Nothing \notin Layers
  /\ Nothing \notin [at : {"engine", "daemon"}, config : Contents \cup {Default}]
  /\ MaxGeneration \in Nat \ {0}

load_from_file_strict(p) ==
  IF files[p] \in {Missing, Torn} THEN Nothing
  ELSE IF validate(files[p]) THEN files[p] ELSE Nothing

Found(p) == [config |-> load_from_file_strict(p), path |-> p]

load_or_default_with_path(p) ==
  IF p # Nothing /\ load_from_file_strict("given") # Nothing THEN Found("given")
  ELSE IF load_from_file_strict("mandatory") # Nothing THEN Found("mandatory")
  ELSE IF load_from_file_strict("local") # Nothing THEN Found("local")
  ELSE [config |-> Default, path |-> Nothing]

reload_from_path(p) ==
  IF p # Nothing THEN load_from_file_strict(p)
  ELSE IF files["mandatory"] # Missing THEN load_from_file_strict("mandatory")
  ELSE load_or_default_with_path(Nothing).config

\* The daemon is started with or without --config.
ConfInit ==
  /\ files \in [Layers -> Contents \cup {Missing, Torn}]
  /\ draft = Missing /\ saving = "no"
  /\ edits = 0 /\ edited = {p \in Layers : files[p] = Torn}
  /\ \E p \in {"given", Nothing} :
       LET found == load_or_default_with_path(p)
       IN /\ config = found.config
          /\ active_config_path = found.path
          /\ engine = [config |-> found.config, generation |-> 1]
  /\ reload = [r \in Reloaders |-> Nothing]
  /\ ran = {} /\ reloadsOverlapped = FALSE

-----------------------------------------------------------------------------
\* reload_config

ReloadBegins(r) ==
  /\ reload[r] = Nothing
  /\ LET c == reload_from_path(active_config_path)
     IN /\ c # Nothing
        /\ reload' = [reload EXCEPT ![r] = [at |-> "engine", config |-> c]]
  /\ reloadsOverlapped' = (reloadsOverlapped \/ \E q \in Reloaders : reload[q] # Nothing)
  /\ UNCHANGED <<fileVars, active_config_path, config, engine, ran>>

\* The file cannot be used: the current configuration is kept.
ReloadFails(r) ==
  /\ reload[r] = Nothing
  /\ reload_from_path(active_config_path) = Nothing
  /\ UNCHANGED confVars

\* Mutation: the generation is left alone.
UpdateSameGeneration(c) == engine' = [engine EXCEPT !.config = c]

update_config(c) ==
  engine' = [config |-> c,
             generation |-> IF engine.generation = MaxGeneration THEN MaxGeneration
                            ELSE engine.generation + 1]

ReloadEngine(r) ==
  /\ reload[r] # Nothing /\ reload[r].at = "engine"
  /\ update_config(reload[r].config)
  /\ reload' = [reload EXCEPT ![r].at = "daemon"]
  /\ UNCHANGED <<fileVars, active_config_path, config, ran, reloadsOverlapped>>

ReloadDaemon(r) ==
  /\ reload[r] # Nothing /\ reload[r].at = "daemon"
  /\ config' = reload[r].config
  /\ reload' = [reload EXCEPT ![r] = Nothing]
  /\ UNCHANGED <<fileVars, active_config_path, engine, ran, reloadsOverlapped>>

\* The interval and the temperature again, within the limits of the pipeline.
from_raw(c) ==
  /\ c.interval >= 60 /\ c.interval <= 604800
  /\ c.soc # NaN /\ c.soc \in 20 .. 90

\* A job that starts under the engine lock; it fails when from_raw rejects.
JobRuns ==
  /\ from_raw(engine.config)
  /\ ran' = ran \cup {engine}
  /\ UNCHANGED <<fileVars, active_config_path, config, engine, reload, reloadsOverlapped>>

-----------------------------------------------------------------------------
\* save_to_file on the mandatory path, in a process that may be killed anywhere.

SaveCreates ==
  /\ saving = "no" /\ validate(Default) /\ edits < MaxEdits
  /\ edits' = edits + 1
  /\ draft' = Torn /\ saving' = "created"
  /\ UNCHANGED <<files, edited, heldVars>>

SaveWrites ==
  /\ saving = "created"
  /\ draft' = Default /\ saving' = "written"
  /\ UNCHANGED <<files, edits, edited, heldVars>>

SaveRenames ==
  /\ saving = "written"
  /\ files' = [files EXCEPT !["mandatory"] = draft]
  /\ draft' = Missing /\ saving' = "no"
  /\ UNCHANGED <<edits, edited, heldVars>>

SaveDies ==
  /\ saving # "no"
  /\ saving' = "no"
  /\ UNCHANGED <<files, draft, edits, edited, heldVars>>

\* The owner's editor.
OwnerWrites(p) ==
  /\ edits < MaxEdits /\ edits' = edits + 1
  /\ \E c \in Contents \cup {Missing, Torn} : files' = [files EXCEPT ![p] = c]
  /\ edited' = edited \cup {p}
  /\ UNCHANGED <<draft, saving, heldVars>>

-----------------------------------------------------------------------------

ConfNext ==
  \/ \E r \in Reloaders :
       ReloadBegins(r) \/ ReloadFails(r) \/ ReloadEngine(r) \/ ReloadDaemon(r)
  \/ JobRuns
  \/ SaveCreates \/ SaveWrites \/ SaveRenames \/ SaveDies
  \/ \E p \in Layers : OwnerWrites(p)

ConfSpec == ConfInit /\ [][ConfNext]_confVars

-----------------------------------------------------------------------------

ConfTypeOK ==
  /\ active_config_path \in Layers \cup {Nothing}
  /\ engine.generation \in 1 .. MaxGeneration
  /\ saving \in {"no", "created", "written"}
  /\ {config, engine.config} \subseteq Contents \cup {Default}

\* Whatever happens to the files, both copies of the configuration are valid,
\* and they agree again when no reload is in progress, unless two reloads
\* overlapped.  The generation a job records identifies the configuration it ran
\* with (below the last generation), and that configuration satisfies validate
\* and from_raw.  A save that is killed never leaves a torn file behind.
ConfigSound ==
  /\ validate(config) /\ validate(engine.config)
  /\ ~reloadsOverlapped /\ (\A r \in Reloaders : reload[r] = Nothing) => config = engine.config
  /\ \A a, b \in ran :
       a.generation = b.generation /\ a.generation < MaxGeneration => a = b
  /\ \A a \in ran : validate(a.config) /\ a.config.soc # NaN
  /\ \A p \in Layers : files[p] = Torn => p \in edited
=============================================================================
