----------------------------- MODULE AppConfig -----------------------------
(***************************************************************************)
(* The configuration and its JSON file (internal/config) under config.set  *)
(* requests (internal/api/handler.go).  The handler merges the update into *)
(* a copy of the configuration and decodes the result into the live one,   *)
(* field after field, without the lock; Save holds the lock for reading    *)
(* only, so two may run at once.  A configuration is a function from its   *)
(* top-level fields to values.                                             *)
(***************************************************************************)
EXTENDS FileWrites

CONSTANTS
  ConfigClients,  \* connections, each of which sends one request at a time
  Fields, Values,
  VersionField,   \* the field "version" ...
  OldVersions,    \* ... and its values below CurrentVersion
  Defaults,       \* DefaultConfig
  NoFile

ASSUME ConfigAssumption ==
  /\ Defaults \in [Fields -> Values]
  /\ VersionField \in Fields /\ OldVersions \subseteq Values
  /\ Defaults[VersionField] \notin OldVersions

VARIABLES
  config,        \* the AppConfig in memory
  configFile,    \* the file: a configuration, none, or what no reader understands
  configPhase, configDraft, configUnsure,   \* see SavedFile
  merged,        \* the merged copy of each client's request
  undecoded,     \* the fields of it not yet in config
  illTyped,      \* the request has a value of a wrong type
  configUp       \* the program runs

configVars == <<config, configFile, configPhase, configDraft, configUnsure,
                merged, undecoded, illTyped, configUp>>

Configs == [Fields -> Values]

\* One of the phases of SavedFile, or decoding the merged copy.
ConfigTypeOK ==
  /\ config \in Configs
  /\ configFile \in Configs \cup Unreadable \cup {NoFile}
  /\ configPhase \in [ConfigClients -> {"idle", "decode", "save", "encoded", "emptied"}]
  /\ configDraft \in [ConfigClients -> Configs \cup {Empty}]
  /\ merged \in [ConfigClients -> Configs]
  /\ undecoded \in [ConfigClients -> SUBSET Fields]
  /\ illTyped \in [ConfigClients -> BOOLEAN]
  /\ configUnsure \in BOOLEAN /\ configUp \in BOOLEAN

File == INSTANCE SavedFile WITH Writers <- ConfigClients, memory <- config,
          file <- configFile, phase <- configPhase, draft <- configDraft,
          unsure <- configUnsure

AtRest(x) == [c \in ConfigClients |-> x]

ConfigInit ==
  /\ config = Defaults /\ configFile = NoFile /\ configUp = FALSE
  /\ configUnsure = FALSE /\ configPhase = AtRest("idle") /\ configDraft = AtRest(Empty)
  /\ merged = AtRest(Defaults) /\ undecoded = AtRest({}) /\ illTyped = AtRest(FALSE)

\* What the -port flag and the environment may make of what was loaded: they
\* change memory, never the file, and not the version.
Overridden(doc) ==
  {doc} \cup {[doc EXCEPT ![f] = v] : f \in Fields \ {VersionField}, v \in Values}

\* MigrateIfNeeded lets a file of the current version pass.  On an older one it
\* uses the logger that Load did not give it, and the program ends.
Current(doc) == doc \in Configs /\ doc[VersionField] \notin OldVersions

\* Load, then the overrides.  Without a file the defaults are saved first.
Load ==
  /\ ~configUp /\ configUp' = TRUE
  /\ \/ configFile = NoFile /\ configFile' = Defaults
     \/ Current(configFile) /\ UNCHANGED configFile
  /\ config' \in Overridden(configFile')
  /\ configUnsure' = (config' # configFile')
  /\ UNCHANGED <<configPhase, configDraft, merged, undecoded, illTyped>>

\* There is no file and the save of the defaults fails: Load returns the error
\* and the program exits.  (It also does, and changes nothing, on a file that
\* cannot be parsed or is not Current.)
LoadFails ==
  /\ ~configUp /\ configFile = NoFile
  /\ configFile' \in Unreadable
  /\ UNCHANGED <<config, configPhase, configDraft, configUnsure, merged, undecoded,
                 illTyped, configUp>>

\* Somebody removes a file the program will not start with.
RemoveFile ==
  /\ ~configUp /\ configFile # NoFile /\ configFile' = NoFile
  /\ UNCHANGED <<config, configPhase, configDraft, configUnsure, merged, undecoded,
                 illTyped, configUp>>

\* handleConfigSet reads the live configuration and merges one new value in.
Merge(c) ==
  /\ configUp /\ configPhase[c] = "idle"
  /\ \E f \in Fields, v \in Values :
       merged' = [merged EXCEPT ![c] = [config EXCEPT ![f] = v]]
  /\ \E bad \in SUBSET Fields :
       /\ undecoded' = [undecoded EXCEPT ![c] = Fields \ bad]
       /\ illTyped' = [illTyped EXCEPT ![c] = (bad # {})]
  /\ configPhase' = [configPhase EXCEPT ![c] = "decode"]
  /\ UNCHANGED <<config, configFile, configDraft, configUnsure, configUp>>

\* json.Unmarshal sets one field, the unchanged ones too.
Decode(c) ==
  /\ configPhase[c] = "decode"
  /\ \E f \in undecoded[c] :
       /\ config' = [config EXCEPT ![f] = merged[c][f]]
       /\ undecoded' = [undecoded EXCEPT ![c] = @ \ {f}]
  /\ UNCHANGED <<configFile, configPhase, configDraft, configUnsure, merged, illTyped,
                 configUp>>

\* A value of a wrong type is skipped; the handler then answers an error, and
\* does not save what the other values changed.
Decoded(c) ==
  /\ configPhase[c] = "decode" /\ undecoded[c] = {}
  /\ configPhase' = [configPhase EXCEPT ![c] = IF illTyped[c] THEN "idle" ELSE "save"]
  /\ merged' = [merged EXCEPT ![c] = Defaults]
  /\ illTyped' = [illTyped EXCEPT ![c] = FALSE]
  /\ configUnsure' = (configUnsure \/ illTyped[c])
  /\ UNCHANGED <<config, configFile, configDraft, undecoded, configUp>>

\* Mutant: a request that finds another saving leaves the saving to it.
SaveConfig_Skips(c) ==
  /\ \/ File!SaveStep(c)
     \/ /\ configPhase[c] = "save" /\ \E d \in ConfigClients : File!Saving(d)
        /\ configPhase' = [configPhase EXCEPT ![c] = "idle"]
        /\ UNCHANGED <<config, configFile, configDraft, configUnsure>>
  /\ UNCHANGED <<merged, undecoded, illTyped, configUp>>

\* AppConfig.Save.
SaveConfig(c) ==
  /\ File!SaveStep(c)
  /\ UNCHANGED <<merged, undecoded, illTyped, configUp>>

\* The program ends, with or without a crash, in whatever the requests are at.
ConfigCrash ==
  /\ configUp /\ configUp' = FALSE
  /\ configPhase' = AtRest("idle") /\ configDraft' = AtRest(Empty)
  /\ merged' = AtRest(Defaults) /\ undecoded' = AtRest({}) /\ illTyped' = AtRest(FALSE)
  /\ configFile' \in {configFile} \cup
       (IF \E c \in ConfigClients : configPhase[c] = "emptied" THEN Unreadable ELSE {})
  /\ UNCHANGED <<config, configUnsure>>

ConfigNext ==
  \/ Load \/ LoadFails \/ RemoveFile \/ ConfigCrash
  \/ \E c \in ConfigClients : Merge(c) \/ Decode(c) \/ Decoded(c) \/ SaveConfig(c)

-----------------------------------------------------------------------------
\* However the requests interleave, it takes two saves at once, a failed save or
\* a refused update to leave the file and the running configuration different.
ConfigBacked == configUp => File!Backed
=============================================================================
