----------------------------- MODULE ConfigFile -----------------------------
(***************************************************************************)
(* hadouken.json over the life of many processes: main refuses a file that *)
(* does not parse, config.js reads it a second time, RPC changes the copy  *)
(* in memory, and saveConfig, the last act of unload, moves the file to    *)
(* hadouken.json.old and writes the copy.  A process may be killed between *)
(* any two of these steps, and a write may fail without a word.            *)
(***************************************************************************)
CONSTANT Versions  \* the configurations that the user and RPC make, each once

ASSUME VersionsAssumption == Versions \cap {"none", "torn", "blank"} = {}

VARIABLES
  phase,   \* of the process; "renamed" and "writing" are inside saveConfig
  config,  \* the config of config.js
  file,    \* hadouken.json
  old,     \* hadouken.json.old
  made,    \* history: the versions made so far
  wanted,  \* history: the version last put into hadouken.json by the rules
  blank    \* history: a process started without a file though one was wanted

vars == <<phase, config, file, old, made, wanted, blank>>

Whole   == {"blank"} \cup Versions  \* what parses; "blank": {}, config.js' default
Content == {"none", "torn"} \cup Whole

Init ==
  /\ phase = "down" /\ config = "blank"
  /\ file = "none" /\ old = "none"
  /\ made = {} /\ wanted = "none" /\ blank = FALSE

-----------------------------------------------------------------------------
(* The user's editor *)

\* The user writes a new configuration.  While the daemon runs that is for nothing:
\* saveConfig will overwrite it, as the manual warns, and nothing is wanted then.
Edit ==
  /\ phase \in {"down", "start", "run"}
  /\ \E v \in Versions \ made :
       /\ made' = made \cup {v} /\ file' = v
       /\ wanted' = IF phase = "down" THEN v ELSE "none"
  /\ UNCHANGED <<phase, config, old, blank>>

\* The user, who has stopped the daemon first, writes something that does not parse.
Break ==
  /\ phase = "down"
  /\ file' = "torn" /\ wanted' = "none"
  /\ UNCHANGED <<phase, config, old, made, blank>>

-----------------------------------------------------------------------------
(* The start *)

\* Mutant: a file that does not parse counts as a missing one.
StartAnyway ==
  /\ phase = "down"
  /\ phase' = "start"
  /\ UNCHANGED <<config, file, old, made, wanted, blank>>

\* main goes on when the file parses or is missing; otherwise it ends at once,
\* for a ticker that never started makes application::stop throw.
Start ==
  /\ phase = "down" /\ file # "torn"
  /\ phase' = "start"
  /\ UNCHANGED <<config, file, old, made, wanted, blank>>

\* config.js reads the file again.  Without a file its config stays {}.
LoadConfig ==
  /\ phase = "start"
  /\ phase' = "run"
  /\ config' = IF file = "none" THEN "blank" ELSE file
  /\ blank' = (blank \/ (file = "none" /\ wanted # "none"))
  /\ UNCHANGED <<file, old, made, wanted>>

\* config.set, by RPC (webui.setSettings).
SetConfig ==
  /\ phase = "run"
  /\ \E v \in Versions \ made : made' = made \cup {v} /\ config' = v
  /\ UNCHANGED <<phase, file, old, wanted, blank>>

-----------------------------------------------------------------------------
(* The stop: saveConfig *)

\* Mutants: the file is copied over in place; an old backup is kept.
OverwriteConfig ==
  /\ phase = "run"
  /\ phase' = "renamed"
  /\ UNCHANGED <<config, file, old, made, wanted, blank>>

KeepOldBackup ==
  /\ phase = "run"
  /\ phase' = "renamed"
  /\ old' = IF old = "none" THEN file ELSE old
  /\ file' = "none"
  /\ UNCHANGED <<config, made, wanted, blank>>

\* fs.rename replaces what hadouken.json.old was, if there is a file to move.
BackUp ==
  /\ phase = "run"
  /\ phase' = "renamed"
  /\ IF file = "none" THEN UNCHANGED <<file, old>> ELSE file' = "none" /\ old' = file
  /\ UNCHANGED <<config, made, wanted, blank>>

\* write_impl opens the file, which makes it or cuts it to nothing ...
OpenConfig ==
  /\ phase = "renamed"
  /\ phase' = "writing"
  /\ file' = "torn"
  /\ UNCHANGED <<config, old, made, wanted, blank>>

\* ... and writes it.
WriteConfig ==
  /\ phase = "writing"
  /\ phase' = "down"
  /\ file' = config
  /\ wanted' = IF config = "blank" THEN wanted ELSE config
  /\ UNCHANGED <<config, old, made, blank>>

\* Whatever cuts it short leaves the files as they are: a kill, a crash, unload
\* throwing before saveConfig, no engine to unload, or an ofstream that could not be
\* opened or written, which write_impl does not notice.
End ==
  /\ phase # "down"
  /\ phase' = "down"
  /\ UNCHANGED <<config, file, old, made, wanted, blank>>

-----------------------------------------------------------------------------
Next ==
  \/ Edit \/ Break \/ Start \/ LoadConfig \/ SetConfig
  \/ BackUp \/ OpenConfig \/ WriteConfig \/ End

Spec == Init /\ [][Next]_vars

-----------------------------------------------------------------------------
(* Properties *)

\* Every variable has its type; only a process that is writing leaves a torn file
\* behind it while it runs.
TypeOK ==
  /\ phase \in {"down", "start", "run", "renamed", "writing"} /\ blank \in BOOLEAN
  /\ config \in Whole /\ file \in Content /\ old \in Content
  /\ made \subseteq Versions /\ wanted \in {"none"} \cup Versions
  /\ phase \in {"start", "run", "renamed"} => file # "torn"

\* A configuration that does not parse is never moved over the backup: main's
\* refusal to start from one is what protects hadouken.json.old.
BackupParses == old # "torn"

\* Whatever cuts a save short, hadouken.json or its backup is a configuration that
\* parses once there has been one.
OneParses == wanted # "none" => file \in Whole \/ old \in Whole

\* The last complete configuration is in hadouken.json or in its backup, through any
\* number of restarts and failed saves, as long as no process has started in
\* between from a missing file.
LastIsKept == wanted # "none" /\ ~blank => wanted \in {file, old}

\* What the comment on saveConfig claims ("Safeguarding against failures"): a
\* failure never costs the last complete configuration.  The code does not do this:
\* after a save cut short between the rename and the write the next processes start
\* from {}, and the second of them to stop moves {} over the backup.
SafeguardsConfig == wanted # "none" => wanted \in {file, old}
=============================================================================
