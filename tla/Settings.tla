------------------------------ MODULE Settings ------------------------------
(***************************************************************************)
(* One setting of the session: hadouken.json says it, .session_state may   *)
(* say otherwise, and libtorrent has it live.  application.cpp and core.js *)
(* bring it into the session, webui.setSettings changes it, and unload     *)
(* saves first the session, then the configuration.                        *)
(*                                                                         *)
(* Each step of ConfigFile is one here, with what it means for the setting.*)
(***************************************************************************)
EXTENDS ConfigFile

VARIABLES
  style,  \* how the setting is loaded, see Loaded
  means,  \* what each version made so far says of it
  live,   \* what libtorrent has; "default" while no process runs
  state,  \* .session_state: a value, "absent", or a file "torn"
  saving, \* how far unload is with it
  asked,  \* history: what was last asked for, while it has to be in effect
  kept    \* history: asked, as of the last save that came to its end

settingVars  == <<style, means, live, state, saving, asked, kept>>
settingsVars == <<vars, settingVars>>

Styles == {"or", "defined", "service"}
\* "zero" is what JavaScript takes for false: 0, or false itself.
Values == {"undefined", "zero", "default", "other"}

\* What a configuration says.  {} says nothing.
Says(content) == IF content \in Versions THEN means[content] ELSE "undefined"

-----------------------------------------------------------------------------
(* The start *)

\* Mutant: what the configuration does not say is handed on.
LoadedRaw(says) == says

\* Most settings: config || session's.  anonymousMode and the like: config unless it
\* is undefined, as for the limits of application::start.  dht, lsd, natpmp and upnp
\* are services, started when the configuration says so.
Loaded(says) ==
  CASE style = "or"      -> IF says \in {"undefined", "zero"} THEN "default" ELSE says
    [] style = "defined" -> IF says = "undefined" THEN "default" ELSE says
    [] style = "service" -> IF says \in {"undefined", "zero"} THEN "zero" ELSE "other"

\* loadState comes after setSettings: what the state has wins over the configuration.
\* It never has a service, nor what is libtorrent's default.  An empty file makes load
\* throw, here already; a file that was cut short may say anything that it has said.
WithState(value) ==
  CASE style = "service" \/ state = "absent" -> {value}
    [] style # "service" /\ state = "torn"   -> {value, "zero", "other"}
    [] style # "service" /\ state \in Values  -> {state}

LoadSettings ==
  /\ LoadConfig
  /\ live' \in WithState(Loaded(Says(config')))
  /\ UNCHANGED <<style, means, state, saving, asked, kept>>

-----------------------------------------------------------------------------
(* Changes *)

\* Mutant: the session is told, the configuration is not.
SetLiveOnly ==
  /\ UNCHANGED <<vars, style, means, state, saving, kept>>
  /\ phase = "run" /\ saving = "no"
  /\ live' \in Values \ {"undefined"} /\ asked' = live'
  /\ style = "service" => live' # "default"

\* webui.setSettings: config.set, and the same to the session.
SetSetting ==
  /\ SetConfig /\ saving = "no"
  /\ live' \in Values \ {"undefined"}
  /\ style = "service" => live' # "default"
  /\ means' = [means EXCEPT ![config'] = live']
  /\ asked' = live'
  /\ UNCHANGED <<style, state, saving, kept>>

\* The user writes the setting into the file.  It will be in effect if nothing
\* overrides it: no state that has it, no || that takes 0 and false for nothing.
EditSetting ==
  /\ Edit
  /\ \E v \in made' \ made, value \in Values :
       /\ style = "service" => value # "default"
       /\ means' = [means EXCEPT ![v] = value]
       /\ IF phase = "down"
            THEN asked' = IF (style # "service" /\ state # "absent") \/ value = "undefined"
                             \/ (style = "or" /\ value = "zero") THEN "nothing" ELSE value
            ELSE asked' = IF phase = "run" THEN asked ELSE "nothing"
  /\ kept' = IF phase = "down" THEN asked' ELSE "nothing"
  /\ UNCHANGED <<style, live, state, saving>>

-----------------------------------------------------------------------------
(* The stop *)

\* core.js' saveState cuts .session_state to nothing ...
OpenSession ==
  /\ phase = "run" /\ saving = "no" /\ saving' = "opened"
  /\ state' = "torn"
  /\ UNCHANGED <<vars, style, means, live, asked, kept>>

\* ... and writes the settings that are not libtorrent's default.
SessionSays == IF style = "service" \/ live = "default" THEN "absent" ELSE live

WriteSession ==
  /\ saving = "opened" /\ saving' = "written"
  /\ state' = SessionSays
  /\ UNCHANGED <<vars, style, means, live, asked, kept>>

\* write_impl does not notice that the file could not be opened, or not be written:
\* what is there stays, and unload goes on.
Stands ==
  \/ style = "service" \/ state = SessionSays
  \/ state = "absent" /\ ~(style = "or" /\ live = "zero")

SessionUnwritten ==
  /\ phase = "run" /\ saving \in {"no", "opened"} /\ saving' = "written"
  /\ asked' = IF Stands THEN asked ELSE "nothing"
  /\ UNCHANGED <<vars, style, means, live, state, kept>>

\* saveConfig.
BackUpSettings    == saving = "written" /\ BackUp /\ UNCHANGED settingVars
OpenConfigFile    == OpenConfig /\ UNCHANGED settingVars
WriteSettings ==
  /\ WriteConfig
  /\ live' = "default" /\ saving' = "no" /\ kept' = asked
  /\ UNCHANGED <<style, means, state, asked>>

\* A process that is cut short leaves what the last save left, as long as it has not
\* begun a save of its own.
EndSettings ==
  /\ End
  /\ live' = "default" /\ saving' = "no"
  /\ kept' = IF saving = "no" THEN kept ELSE "nothing"
  /\ asked' = kept'
  /\ UNCHANGED <<style, means, state>>

BreakFile    == Break /\ asked' = "nothing" /\ kept' = "nothing"
                      /\ UNCHANGED <<style, means, live, state, saving>>
StartProcess == Start /\ UNCHANGED settingVars

-----------------------------------------------------------------------------
SettingsInit ==
  /\ Init
  /\ style \in Styles /\ means = [v \in Versions |-> "undefined"]
  /\ live = "default" /\ state = "absent" /\ saving = "no"
  /\ asked = "nothing" /\ kept = "nothing"

SettingsNext ==
  \/ EditSetting \/ BreakFile \/ StartProcess \/ LoadSettings \/ SetSetting
  \/ OpenSession \/ WriteSession \/ SessionUnwritten
  \/ BackUpSettings \/ OpenConfigFile \/ WriteSettings \/ EndSettings

SettingsSpec == SettingsInit /\ [][SettingsNext]_settingsVars

-----------------------------------------------------------------------------
(* Properties *)

SettingTypes ==
  /\ style \in Styles /\ means \in [Versions -> Values]
  /\ live \in Values \ {"undefined"} /\ state \in Values \cup {"absent", "torn"}
  /\ saving \in {"no", "opened", "written"}
  /\ saving # "no" => phase \in {"run", "renamed", "writing"}
  /\ {asked, kept} \subseteq Values \cup {"nothing"}

\* Every variable has its type, those of ConfigFile too, and only a process that runs
\* is saving.
SettingsTypeOK == TypeOK /\ SettingTypes

\* A setting changed over RPC stays in effect through any number of restarts, and one
\* that the user wrote takes effect, by way of two files that are saved one after the
\* other and overrule each other: config || session's (core.js:287-306) loses 0 and
\* false, and .session_state (312) brings them back.  Only a write of .session_state
\* that failed without a word, and left there something else (see Stands), undoes it.
SettingSurvives == phase = "run" /\ asked # "nothing" => live = asked
=============================================================================
