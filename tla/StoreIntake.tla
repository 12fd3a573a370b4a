----------------------------- MODULE StoreIntake -----------------------------
(***************************************************************************)
(* TorrentStore as the scripts use it: torrents come as files or by URL,   *)
(* and nobody removes one.  What the scripts can tell of it is Intake, the *)
(* way of a torrent into the session and onto the disk that Engine is      *)
(* composed with: the store, with its commands, alerts, file operations    *)
(* and torn files, implements it.                                          *)
(***************************************************************************)
EXTENDS TorrentStore

CONSTANT Files  \* of the hashes, those of torrents that come as a file

VARIABLES
  dropped,  \* history: torrents on their way when a process ended
  refused   \* history: torrents whose last add libtorrent refused

useVars == <<vars, dropped, refused>>

FileHashes == Files \cap Hashes
LinkHashes == Hashes \ Files

\* What autoadd.js and rss.js hand to session.addTorrent.
InfoOf(h) == IF h \in Files THEN "full" ELSE "magnet"

\* session.addTorrent(h) waits for the network thread.
Queued(h) == \E i \in 1..Len(netCmd) : netCmd[i].hash = h

\* Where h is on the way: the file decides, then the session, then the commands.
StageOf(h) ==
  IF disk[h]["torrent"] = "whole" THEN "saved"
  ELSE IF session[h] = "full" THEN "told"
  ELSE IF session[h] = "magnet" THEN "held"
  ELSE IF Queued(h) THEN "queued" ELSE "none"

\* A script's add, the steps that forget nothing, and the end of the process.
ScriptAdds(h) ==
  AddTorrent(h, InfoOf(h)) /\ dropped' = dropped \ {h} /\ refused' = refused \ {h}

Works ==
  /\ \/ \E h \in Hashes :
          \/ \E o \in Options : SetOptions(h, o)
          \/ NetMetadata(h) \/ Touch(h) \/ SaveAnswer(h)
     \/ NetAdd \/ HandleAdded \/ HandleMetadata \/ HandleAdd \/ DoOp
     \/ Stop \/ AskSaves \/ Restart
  /\ UNCHANGED <<dropped, refused>>

\* No other add of the torrent waits.
Refuses ==
  /\ NetRefuse
  /\ refused' = refused \cup {h \in Hashes : StageOf(h) = "queued" /\ ~Queued(h)'}
  /\ UNCHANGED dropped

Ends ==
  /\ Exit \/ Crash
  /\ dropped' = dropped \cup {h \in Hashes : StageOf(h) \in {"queued", "held", "told"}}
  /\ UNCHANGED refused

UseInit == Init /\ dropped = {} /\ refused = {}
UseNext == (\E h \in Hashes : ScriptAdds(h)) \/ Works \/ Refuses \/ Ends
UseSpec == UseInit /\ [][UseNext]_useVars

-----------------------------------------------------------------------------
Phases == [down |-> "down", run |-> "run", stopping |-> "stop", saving |-> "write"]

Way ==
  INSTANCE Intake WITH Items   <- LinkHashes,
                       Files   <- FileHashes,
                       phase   <- Phases[phase],
                       stage   <- [h \in Hashes |-> StageOf(h)],
                       at      <- 0,
                       changes <- 0,
                       MaxChanges <- 0

\* Without removals the store is what Engine takes it for: a torrent given to the
\* session goes one way, whatever alerts, saves, crashes and torn files do, and
\* once its file is whole no later process loses it.
ImplementsIntake == Way!IntakeSpec
=============================================================================
