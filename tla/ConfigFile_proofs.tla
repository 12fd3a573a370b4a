------------------------- MODULE ConfigFile_proofs -------------------------
(***************************************************************************)
(* The safety properties of ConfigFile hold for every set of versions.     *)
(***************************************************************************)
EXTENDS ConfigFile, TLAPS

\* While saveConfig is between the rename and the write there is no hadouken.json.
RenamedInv == phase = "renamed" => file = "none"

\* Where the last complete version is, as long as no process started from nothing:
\* in the file, or in the backup with a file that is missing or torn.  A running
\* process has it in the file and, from it, a config that is not {}.
LastInv ==
  wanted # "none" /\ ~blank =>
    /\ file = wanted \/ (file \in {"none", "torn"} /\ old = wanted)
    /\ phase = "run" => file = wanted
    /\ phase \in {"run", "renamed", "writing"} => config # "blank"

ConfigInv == TypeOK /\ RenamedInv /\ BackupParses /\ OneParses /\ LastInv

\* No file, no version, nothing wanted.
LEMMA InitConfig == Init => ConfigInv
BY VersionsAssumption
   DEF Init, ConfigInv, TypeOK, RenamedInv, BackupParses, OneParses, LastInv, Whole, Content

\* The invariant holds after each step of the user, of a process or of its end.
LEMMA StepConfig == ConfigInv /\ [Next]_vars => ConfigInv'
<1> SUFFICES ASSUME ConfigInv, [Next]_vars PROVE ConfigInv'
  OBVIOUS
<1> USE VersionsAssumption
    DEF ConfigInv, TypeOK, RenamedInv, BackupParses, OneParses, LastInv, Whole, Content
<1>1. CASE Edit
  BY <1>1 DEF Edit
<1>2. CASE Break
  BY <1>2 DEF Break
<1>3. CASE Start
  BY <1>3 DEF Start
<1>4. CASE LoadConfig
  BY <1>4 DEF LoadConfig
<1>5. CASE SetConfig
  BY <1>5 DEF SetConfig
<1>6. CASE BackUp
  BY <1>6 DEF BackUp
<1>7. CASE OpenConfig
  BY <1>7 DEF OpenConfig
<1>8. CASE WriteConfig
  BY <1>8 DEF WriteConfig
<1>9. CASE End
  BY <1>9 DEF End
<1>10. CASE UNCHANGED vars
  BY <1>10 DEF vars
<1> QED
  BY <1>1, <1>2, <1>3, <1>4, <1>5, <1>6, <1>7, <1>8, <1>9, <1>10 DEF Next

\* The invariant of the whole module.
THEOREM ConfigSafety == Spec => []ConfigInv
BY InitConfig, StepConfig, PTL DEF Spec

\* Every variable of ConfigFile keeps its type in every reachable state.
THEOREM ConfigTypes == Spec => []TypeOK
<1>1. ConfigInv => TypeOK
  BY DEF ConfigInv
<1> QED
  BY ConfigSafety, <1>1, PTL

\* hadouken.json.old is never overwritten with what does not parse.
THEOREM BackupAlwaysParses == Spec => []BackupParses
<1>1. ConfigInv => BackupParses
  BY DEF ConfigInv
<1> QED
  BY ConfigSafety, <1>1, PTL

\* No crash and no failed write leaves both files unusable.
THEOREM OneAlwaysParses == Spec => []OneParses
<1>1. ConfigInv => OneParses
  BY DEF ConfigInv
<1> QED
  BY ConfigSafety, <1>1, PTL

\* Short of a start from a missing file, the last configuration survives every
\* sequence of saves, failed saves and restarts.
THEOREM LastConfigKept == Spec => []LastIsKept
<1>1. ConfigInv => LastIsKept
  BY DEF ConfigInv, LastInv, LastIsKept
<1> QED
  BY ConfigSafety, <1>1, PTL
=============================================================================
