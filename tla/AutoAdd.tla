------------------------------ MODULE AutoAdd -------------------------------
(***************************************************************************)
(* The plugin autoadd.js: a callback of the tick that looks through the    *)
(* configured folders every few ticks, gives the torrent files it finds to *)
(* the session and deletes them.                                           *)
(*                                                                         *)
(* Each look at a folder and at a file is a step, and so is the deletion:  *)
(* other programs write into the folders meanwhile, and the process may    *)
(* end.  A pattern that a file does not match takes the file out of Files. *)
(***************************************************************************)
EXTENDS Intake

CONSTANTS Folders,   \* the configured folders, in their order
          FolderOf,  \* the folder of each file
          Keep,      \* the folders whose files are kept
          Interval   \* ticks from one look to the next

ASSUME FoldersAssumption ==
  /\ Folders \in Seq(STRING)
  /\ FolderOf \in [Files -> {Folders[i] : i \in 1..Len(Folders)}]
ASSUME IntervalAssumption == Interval \in Nat \ {0}

VARIABLES
  there,    \* the folders that exist
  file,     \* what is in each file
  tick,     \* currentTick, as far as its remainder by interval goes
  next,     \* index of the folder to look at next; 0: no look is going on
  left,     \* files of the folder that getFiles listed, not yet looked at
  taken,    \* the file just added, to be deleted
  deleted   \* history: files that the plugin has deleted

folderVars == <<there, file>>
scanVars   == <<tick, next, left, taken>>
autoAddVars == <<folderVars, scanVars, deleted>>

FolderSet == {Folders[i] : i \in 1..Len(Folders)}
Contents  == {"none", "empty", "partial", "good"}

AutoAddInit ==
  /\ there \in SUBSET FolderSet /\ file = [f \in Files |-> "none"]
  /\ tick = 0 /\ next = 0 /\ left = {} /\ taken = "none" /\ deleted = {}

-----------------------------------------------------------------------------
(* Other programs *)

\* A file is created, written or removed.  "partial" is anything that is no torrent,
\* a copy not yet complete among it.
ChangeFile(f, content) ==
  /\ Change
  /\ FolderOf[f] \in there /\ file[f] # content
  /\ file' = [file EXCEPT ![f] = content]
  /\ UNCHANGED <<phase, at, stage, dropped, refused, there, scanVars, deleted>>

\* A folder comes or goes, with what is in it: a disk that is mounted.
ChangeFolder(d) ==
  /\ Change
  /\ there' = IF d \in there THEN there \ {d} ELSE there \cup {d}
  /\ UNCHANGED <<phase, at, stage, dropped, refused, file, scanVars, deleted>>

-----------------------------------------------------------------------------
(* The callback.  next, left and taken are its place; Intake's at says that it is  *)
(* the one that runs.                                                              *)

\* What readBuffer finds.
Read(f) == IF FolderOf[f] \in there THEN file[f] ELSE "none"

IdleScan == next' = 0 /\ left' = {} /\ taken' = "none"

\* The callback returns: the tick goes on with the one after it.
Return(n) == at' = (IF at = n THEN 0 ELSE at + 1) /\ tick' = (tick + 1) % Interval /\ IdleScan

\* Mutant: the place in the folders outlives the exception.
ThrowInPlace == at' = 0 /\ UNCHANGED scanVars

\* An exception leaves timer.js' and events.js' loops with it.
Throw == at' = 0 /\ UNCHANGED tick /\ IdleScan

\* currentTick % interval: it is not yet time.  n callbacks are registered.
NotDue(n) ==
  /\ next = 0 /\ tick # 0
  /\ Return(n)
  /\ UNCHANGED <<phase, stage, dropped, refused, changes, folderVars, deleted>>

\* Mutant: the loop over the folders begins with the second.
StartScanLate ==
  /\ next = 0 /\ tick = 0
  /\ next' = 2
  /\ UNCHANGED <<phase, at, stage, dropped, refused, changes, folderVars, tick, left, taken,
                 deleted>>

StartScan ==
  /\ next = 0 /\ tick = 0
  /\ next' = 1
  /\ UNCHANGED <<phase, at, stage, dropped, refused, changes, folderVars, tick, left, taken,
                 deleted>>

Looking == next # 0 /\ left = {} /\ taken = "none"

OpenFolder ==
  /\ Looking /\ next <= Len(Folders) /\ Folders[next] \in there
  /\ left' = {f \in Files : FolderOf[f] = Folders[next] /\ file[f] # "none"}
  /\ next' = next + 1
  /\ UNCHANGED <<phase, at, stage, dropped, refused, changes, folderVars, tick, taken, deleted>>

\* Mutant: a folder that is missing is waited for.
EndScanWaiting(n) ==
  /\ Looking /\ next > Len(Folders)
  /\ Return(n)
  /\ UNCHANGED <<phase, stage, dropped, refused, changes, folderVars, deleted>>

\* checkFolders returns after the last folder and at the first that is missing.
EndScan(n) ==
  /\ Looking /\ (next <= Len(Folders) => Folders[next] \notin there)
  /\ Return(n)
  /\ UNCHANGED <<phase, stage, dropped, refused, changes, folderVars, deleted>>

\* Nothing could be read: that is logged.
SkipFile(f) ==
  /\ f \in left /\ taken = "none" /\ Read(f) \in {"none", "empty"}
  /\ left' = left \ {f}
  /\ UNCHANGED <<phase, at, stage, dropped, refused, changes, folderVars, tick, next, taken,
                 deleted>>

\* bt.TorrentInfo throws on what is no torrent.
BadFile(f) ==
  /\ f \in left /\ taken = "none" /\ Read(f) = "partial"
  /\ Throw
  /\ UNCHANGED <<phase, stage, dropped, refused, changes, folderVars, deleted>>

\* Mutant: what is no torrent is deleted without being added.
TakeUnparsed(f) ==
  /\ f \in left /\ taken = "none" /\ Read(f) \in {"good", "partial"}
  /\ AddTorrents(IF Read(f) = "good" THEN {f} ELSE {})
  /\ left' = left \ {f} /\ taken' = f
  /\ UNCHANGED <<phase, at, changes, folderVars, tick, next, deleted>>

\* session.addTorrent, then the file is deleted unless the folder keeps its files.
TakeFile(f) ==
  /\ f \in left /\ taken = "none" /\ Read(f) = "good"
  /\ AddTorrents({f})
  /\ left' = left \ {f}
  /\ taken' = IF FolderOf[f] \in Keep THEN "none" ELSE f
  /\ UNCHANGED <<phase, at, changes, folderVars, tick, next, deleted>>

DeleteFile ==
  /\ taken # "none" /\ taken' = "none"
  /\ IF Read(taken) = "none"
       THEN UNCHANGED <<file, deleted>>
       ELSE file' = [file EXCEPT ![taken] = "none"] /\ deleted' = deleted \cup {taken}
  /\ UNCHANGED <<phase, at, stage, dropped, refused, changes, there, tick, next, left>>

AutoAddCallback(n) ==
  \/ NotDue(n) \/ StartScan \/ OpenFolder \/ EndScan(n) \/ DeleteFile
  \/ \E f \in Files : SkipFile(f) \/ BadFile(f) \/ TakeFile(f)

OtherPrograms ==
  \/ \E f \in Files, c \in Contents : ChangeFile(f, c)
  \/ \E d \in FolderSet : ChangeFolder(d)

AutoAddTypeOK ==
  /\ there \subseteq FolderSet /\ file \in [Files -> Contents]
  /\ tick \in 0..(Interval - 1) /\ next \in 0..(Len(Folders) + 1)
  /\ left \subseteq Files /\ taken \in Files \cup {"none"} /\ deleted \subseteq Files
=============================================================================
