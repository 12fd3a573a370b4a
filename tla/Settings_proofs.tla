-------------------------- MODULE Settings_proofs ---------------------------
(***************************************************************************)
(* Settings is ConfigFile with more to say, and what was asked of a        *)
(* setting survives, for every set of versions.                            *)
(***************************************************************************)
EXTENDS Settings, ConfigFile_proofs

-----------------------------------------------------------------------------
(* Each step is one of ConfigFile *)

LEMMA StepIsConfig == [SettingsNext]_settingsVars => [Next]_vars
<1> SUFFICES ASSUME [SettingsNext]_settingsVars PROVE [Next]_vars
  OBVIOUS
<1>1. CASE EditSetting \/ BreakFile \/ StartProcess \/ LoadSettings
  BY <1>1 DEF EditSetting, BreakFile, StartProcess, LoadSettings, Next
<1>2. CASE SetSetting \/ OpenSession \/ WriteSession \/ SessionUnwritten
  BY <1>2 DEF SetSetting, OpenSession, WriteSession, SessionUnwritten, Next
<1>3. CASE BackUpSettings \/ OpenConfigFile \/ WriteSettings \/ EndSettings
  BY <1>3 DEF BackUpSettings, OpenConfigFile, WriteSettings, EndSettings, Next
<1>4. CASE UNCHANGED settingsVars
  BY <1>4 DEF settingsVars
<1> QED
  BY <1>1, <1>2, <1>3, <1>4 DEF SettingsNext

\* The settings restrict ConfigFile and add to it nothing that it forbids: every step
\* of core.js' load, webui.setSettings and unload is one of the life of hadouken.json,
\* so that whatever holds of that holds here.
THEOREM SettingsRefine == SettingsSpec => Spec
BY StepIsConfig, PTL DEF SettingsSpec, SettingsInit, Spec

-----------------------------------------------------------------------------
(* The invariant *)

\* A configuration gives the value by itself, unless that is what || loses.
Carries(content, value) ==
  Loaded(Says(content)) = value \/ (style = "or" /\ value = "zero")

\* What a process started now would make of the setting, and when that is certain.
FileConfig == IF file = "none" THEN "blank" ELSE file
Yields(value) ==
  WithState(Loaded(Says(FileConfig))) = {value} /\ Carries(FileConfig, value)

\* No file and no process has a version that nobody made yet.
MadeInv == config \in made \cup {"blank"} /\ file \in made \cup {"none", "torn", "blank"}

\* unload saves the session before the configuration, and the state that it saves
\* never names libtorrent's default.
SavingInv ==
  /\ phase \in {"down", "start"} => saving = "no" /\ kept = asked
  /\ phase \in {"renamed", "writing"} => saving = "written"
  /\ state \notin {"default", "undefined"}
  /\ "undefined" \notin {asked, kept}
  /\ style = "service" => "default" \notin {asked, kept}

\* Between two processes the two files together give what was asked.
DownInv ==
  /\ phase \in {"down", "start"} /\ asked # "nothing" => Yields(asked)
  /\ phase = "run" /\ saving = "no" /\ kept # "nothing" => Yields(kept)

\* A process has it, and its configuration gives it, but for what || loses.
RunInv ==
  phase \in {"run", "renamed", "writing"} /\ asked # "nothing" =>
    live = asked /\ Carries(config, asked)

\* What has been saved of the session carries that, and contradicts nothing.
SavedInv == saving = "written" /\ asked # "nothing" => Stands

SettingsInv ==
  /\ ConfigInv /\ SettingTypes
  /\ MadeInv /\ SavingInv /\ DownInv /\ RunInv /\ SavedInv

-----------------------------------------------------------------------------
(* Every step keeps it *)

\* Nothing is asked, and nothing is on disk.
LEMMA InitSettings == SettingsInit => SettingsInv
BY InitConfig, VersionsAssumption
   DEF SettingsInit, Init, SettingsInv, SettingTypes, MadeInv, SavingInv, DownInv, RunInv,
       SavedInv, Styles, Values

\* What a configuration says is one of the values, and so is what is made of it.
LEMMA LoadedType ==
  ASSUME SettingTypes, NEW content
  PROVE  Says(content) \in Values /\ Loaded(Says(content)) \in Values \ {"undefined"}
BY DEF SettingTypes, Says, Loaded, Values, Styles

\* The outcomes of a load are values; without doubt there is one only.
LEMMA WithStateType ==
  ASSUME SettingTypes, SavingInv, NEW v \in Values \ {"undefined"}
  PROVE  WithState(v) \subseteq Values \ {"undefined"}
BY DEF SettingTypes, SavingInv, WithState, Values, Styles

\* The types, and what is known of the files, are kept by each step.
LEMMA StepTypes == SettingsInv /\ [SettingsNext]_settingsVars => SettingTypes' /\ MadeInv' /\ SavingInv'
<1> SUFFICES ASSUME SettingsInv, [SettingsNext]_settingsVars PROVE SettingTypes' /\ MadeInv' /\ SavingInv'
  OBVIOUS
<1> USE VersionsAssumption
    DEF SettingsInv, SettingTypes, ConfigInv, TypeOK, MadeInv, SavingInv, Values, Styles, Whole,
        Content
<1>1. CASE EditSetting
  BY <1>1 DEF EditSetting, Edit
<1>2. CASE BreakFile
  BY <1>2 DEF BreakFile, Break
<1>3. CASE StartProcess
  BY <1>3 DEF StartProcess, Start, settingVars
<1>4. CASE LoadSettings
  BY <1>4, LoadedType, WithStateType DEF LoadSettings, LoadConfig
<1>5. CASE SetSetting
  BY <1>5 DEF SetSetting, SetConfig
<1>6. CASE OpenSession
  BY <1>6 DEF OpenSession, vars
<1>7. CASE WriteSession
  BY <1>7 DEF WriteSession, SessionSays, vars
<1>8. CASE BackUpSettings
  BY <1>8 DEF BackUpSettings, BackUp, settingVars
<1>9. CASE OpenConfigFile
  BY <1>9 DEF OpenConfigFile, OpenConfig, settingVars
<1>10. CASE WriteSettings
  BY <1>10 DEF WriteSettings, WriteConfig
<1>11. CASE EndSettings
  BY <1>11 DEF EndSettings, End
<1>12. CASE SessionUnwritten
  BY <1>12 DEF SessionUnwritten, Stands, SessionSays, vars
<1>13. CASE UNCHANGED settingsVars
  BY <1>13 DEF settingsVars, vars, settingVars
<1> QED
  BY <1>1, <1>2, <1>3, <1>4, <1>5, <1>6, <1>7, <1>8, <1>9, <1>10, <1>11, <1>12, <1>13
     DEF SettingsNext

\* What the two files give between two processes: the last save, or what the user wrote.
LEMMA StepDown == SettingsInv /\ [SettingsNext]_settingsVars => DownInv'
<1> SUFFICES ASSUME SettingsInv, [SettingsNext]_settingsVars PROVE DownInv'
  OBVIOUS
<1> USE VersionsAssumption
    DEF SettingsInv, SettingTypes, ConfigInv, TypeOK, MadeInv, SavingInv, Values, Styles, Whole,
        Content,
        DownInv, RunInv, SavedInv, Stands, SessionSays, Yields, Carries, FileConfig, WithState,
        Loaded, Says
<1>1. CASE EditSetting
  BY <1>1 DEF EditSetting, Edit
<1>2. CASE BreakFile
  BY <1>2 DEF BreakFile, Break
<1>3. CASE StartProcess
  BY <1>3 DEF StartProcess, Start, settingVars
<1>4. CASE LoadSettings
  BY <1>4 DEF LoadSettings, LoadConfig
<1>5. CASE SetSetting
  BY <1>5 DEF SetSetting, SetConfig
<1>6. CASE OpenSession
  BY <1>6 DEF OpenSession, vars
<1>7. CASE WriteSession
  BY <1>7 DEF WriteSession, SessionSays, vars
<1>8. CASE BackUpSettings
  BY <1>8 DEF BackUpSettings, BackUp, settingVars
<1>9. CASE OpenConfigFile
  BY <1>9 DEF OpenConfigFile, OpenConfig, settingVars
<1>10. CASE WriteSettings
  BY <1>10 DEF WriteSettings, WriteConfig
<1>11. CASE EndSettings
  BY <1>11 DEF EndSettings, End
<1>12. CASE SessionUnwritten
  BY <1>12 DEF SessionUnwritten, Stands, SessionSays, vars
<1>13. CASE UNCHANGED settingsVars
  BY <1>13 DEF settingsVars, vars, settingVars
<1> QED
  BY <1>1, <1>2, <1>3, <1>4, <1>5, <1>6, <1>7, <1>8, <1>9, <1>10, <1>11, <1>12, <1>13
     DEF SettingsNext

\* What a process has, from the files at first, then from RPC.
LEMMA StepRun == SettingsInv /\ [SettingsNext]_settingsVars => RunInv'
<1> SUFFICES ASSUME SettingsInv, [SettingsNext]_settingsVars PROVE RunInv'
  OBVIOUS
<1> USE VersionsAssumption
    DEF SettingsInv, SettingTypes, ConfigInv, TypeOK, MadeInv, SavingInv, Values, Styles, Whole,
        Content,
        DownInv, RunInv, Yields, Carries, FileConfig, WithState, Loaded, Says
<1>1. CASE EditSetting
  BY <1>1 DEF EditSetting, Edit
<1>2. CASE BreakFile
  BY <1>2 DEF BreakFile, Break
<1>3. CASE StartProcess
  BY <1>3 DEF StartProcess, Start, settingVars
<1>4. CASE LoadSettings
  BY <1>4 DEF LoadSettings, LoadConfig
<1>5. CASE SetSetting
  BY <1>5 DEF SetSetting, SetConfig
<1>6. CASE OpenSession
  BY <1>6 DEF OpenSession, vars
<1>7. CASE WriteSession
  BY <1>7 DEF WriteSession, SessionSays, vars
<1>8. CASE BackUpSettings
  BY <1>8 DEF BackUpSettings, BackUp, settingVars
<1>9. CASE OpenConfigFile
  BY <1>9 DEF OpenConfigFile, OpenConfig, settingVars
<1>10. CASE WriteSettings
  BY <1>10 DEF WriteSettings, WriteConfig
<1>11. CASE EndSettings
  BY <1>11 DEF EndSettings, End
<1>12. CASE SessionUnwritten
  BY <1>12 DEF SessionUnwritten, Stands, SessionSays, vars
<1>13. CASE UNCHANGED settingsVars
  BY <1>13 DEF settingsVars, vars, settingVars
<1> QED
  BY <1>1, <1>2, <1>3, <1>4, <1>5, <1>6, <1>7, <1>8, <1>9, <1>10, <1>11, <1>12, <1>13
     DEF SettingsNext

\* What the session's state holds once it is written.
LEMMA StepSaved == SettingsInv /\ [SettingsNext]_settingsVars => SavedInv'
<1> SUFFICES ASSUME SettingsInv, [SettingsNext]_settingsVars PROVE SavedInv'
  OBVIOUS
<1> USE VersionsAssumption
    DEF SettingsInv, SettingTypes, ConfigInv, TypeOK, MadeInv, SavingInv, Values, Styles, Whole,
        Content,
        RunInv, SavedInv, Stands, SessionSays
<1>1. CASE EditSetting
  BY <1>1 DEF EditSetting, Edit
<1>2. CASE BreakFile
  BY <1>2 DEF BreakFile, Break
<1>3. CASE StartProcess
  BY <1>3 DEF StartProcess, Start, settingVars
<1>4. CASE LoadSettings
  BY <1>4 DEF LoadSettings, LoadConfig
<1>5. CASE SetSetting
  BY <1>5 DEF SetSetting, SetConfig
<1>6. CASE OpenSession
  BY <1>6 DEF OpenSession, vars
<1>7. CASE WriteSession
  BY <1>7 DEF WriteSession, SessionSays, vars
<1>8. CASE BackUpSettings
  BY <1>8 DEF BackUpSettings, BackUp, settingVars
<1>9. CASE OpenConfigFile
  BY <1>9 DEF OpenConfigFile, OpenConfig, settingVars
<1>10. CASE WriteSettings
  BY <1>10 DEF WriteSettings, WriteConfig
<1>11. CASE EndSettings
  BY <1>11 DEF EndSettings, End
<1>12. CASE SessionUnwritten
  BY <1>12 DEF SessionUnwritten, Stands, SessionSays, vars
<1>13. CASE UNCHANGED settingsVars
  BY <1>13 DEF settingsVars, vars, settingVars
<1> QED
  BY <1>1, <1>2, <1>3, <1>4, <1>5, <1>6, <1>7, <1>8, <1>9, <1>10, <1>11, <1>12, <1>13
     DEF SettingsNext

-----------------------------------------------------------------------------
(* The theorems *)

\* The invariant of the two files and the session together, whichever writes of either
\* are cut short or fail without a word.
THEOREM SettingsSafety == SettingsSpec => []SettingsInv
<1>1. SettingsInv /\ [SettingsNext]_settingsVars => ConfigInv'
  BY StepIsConfig, StepConfig DEF SettingsInv
<1>2. SettingsInv /\ [SettingsNext]_settingsVars => SettingsInv'
  BY <1>1, StepTypes, StepDown, StepRun, StepSaved DEF SettingsInv
<1> QED
  BY InitSettings, <1>2, PTL DEF SettingsSpec

\* Every variable keeps its type, and only a running process saves.
THEOREM SettingsTypes == SettingsSpec => []SettingsTypeOK
<1>1. SettingsInv => SettingsTypeOK
  BY DEF SettingsInv, ConfigInv, SettingsTypeOK
<1> QED
  BY SettingsSafety, <1>1, PTL

\* What was last asked of a setting, over RPC or by the user in a file that nothing
\* overrides, is what libtorrent has, through every sequence of restarts, kills,
\* edits and saves cut short anywhere; as long as .session_state does not contradict
\* it, which a silently failed write of that file alone can leave behind.
THEOREM SettingsSurvive == SettingsSpec => []SettingSurvives
<1>1. SettingsInv => SettingSurvives
  BY DEF SettingsInv, RunInv, SettingSurvives
<1> QED
  BY SettingsSafety, <1>1, PTL
=============================================================================
