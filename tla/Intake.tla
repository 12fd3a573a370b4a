------------------------------- MODULE Intake -------------------------------
(***************************************************************************)
(* The way of a torrent that a script has found, a file in a folder or an  *)
(* item of a feed, into the session and onto the disk, over the life of    *)
(* many processes.  AutoAdd and RssFeeds stand at its beginning.           *)
(*                                                                         *)
(* TorrentStore has this way in detail, with the removals and the torn     *)
(* files; here it is what the scripts that find torrents can tell of it.   *)
(***************************************************************************)
EXTENDS Integers, Sequences, FiniteSets

CONSTANTS Files,      \* torrents that come as a file
          Items,      \* torrents that come as an item of a feed
          MaxChanges  \* bound: what users, feeds, signals and crashes do

ASSUME TorrentsAssumption == IsFiniteSet(Files) /\ IsFiniteSet(Items) /\ Files \cap Items = {}
ASSUME ChangesAssumption  == MaxChanges \in Nat /\ "none" \notin Files

VARIABLES
  phase,    \* of the process; "stop": run() is over; "write": in rss.unload
  at,       \* the callback of the tick that runs; 0: none does
  stage,    \* where each torrent is
  dropped,  \* history: those on their way when a process ended
  refused,  \* history: those whose last add libtorrent refused
  changes   \* counts the changes

Torrents == Files \cup Items
Stages   == {"none", "queued", "held", "told", "saved"}
OnTheWay == {"queued", "held", "told"}

IntakeInit ==
  /\ phase = "down" /\ at = 0
  /\ stage = [t \in Torrents |-> "none"] /\ dropped = {} /\ refused = {}
  /\ changes = 0

\* One more of the things that nothing in the program forces.
Change == changes < MaxChanges /\ changes' = changes + 1

\* session.addTorrent: the call waits for the network thread.  For a torrent that is
\* there already it changes nothing.
AddTorrents(new) ==
  /\ stage' = [t \in Torrents |-> IF t \in new /\ stage[t] = "none" THEN "queued" ELSE stage[t]]
  /\ dropped' = dropped \ new /\ refused' = refused \ new

Move(t, from, to) ==
  /\ stage[t] = from /\ stage' = [stage EXCEPT ![t] = to]
  /\ UNCHANGED <<phase, at, dropped, refused, changes>>

\* The network thread adds a torrent.  One from a file has its info, and
\* torrent_added_alert waits for core.js; one from a URL has to be fetched.
NetAdd(t) == phase # "down" /\ Move(t, "queued", IF t \in Files THEN "told" ELSE "held")

\* libtorrent refuses it, and torrent_add_alert comes with an error, which core.js logs.
NetRefuse(t) ==
  /\ phase # "down" /\ stage[t] = "queued"
  /\ stage' = [stage EXCEPT ![t] = "none"] /\ refused' = refused \cup {t}
  /\ UNCHANGED <<phase, at, dropped, changes>>

\* The info of a torrent that was added by its URL has come: metadata_received_alert.
NetInfo(t) == phase # "down" /\ Move(t, "held", "told")

\* core.js writes the .torrent file, which the next process will load.  The handler
\* waits for the mutex while a tick runs, and is not run once io_->run() is over.
HandleTold(t) == phase = "run" /\ at = 0 /\ Move(t, "told", "saved")

\* The session is gone, and with it what was on its way.
Forget ==
  /\ stage' = [t \in Torrents |-> IF stage[t] = "saved" THEN "saved" ELSE "none"]
  /\ dropped' = dropped \cup {t \in Torrents : stage[t] \in OnTheWay}
  /\ phase' = "down" /\ at' = 0
  /\ UNCHANGED refused

IntakeStep == \E t \in Torrents : NetAdd(t) \/ NetRefuse(t) \/ NetInfo(t) \/ HandleTold(t)

-----------------------------------------------------------------------------
(* The way by itself: all that the scripts and the process may do to it *)

\* A script gives torrents to the session.
Give == phase # "down" /\ UNCHANGED <<phase, at>> /\ \E new \in SUBSET Torrents : AddTorrents(new)

\* A process starts, and its stop goes on; ticks come and go.
Lifecycle ==
  /\ <<phase, phase'>> \in {<<"down", "run">>, <<"run", "stop">>, <<"stop", "write">>}
       \/ UNCHANGED phase
  /\ UNCHANGED <<stage, dropped, refused>>

\* Its end, orderly or not.
Perish == phase # "down" /\ Forget

IntakeNext == IntakeStep \/ Give \/ Lifecycle \/ Perish

IntakeStart ==
  /\ phase = "down" /\ at = 0 /\ stage = [t \in Torrents |-> "none"]
  /\ dropped = {} /\ refused = {}

IntakeSpec == IntakeStart /\ [][IntakeNext]_<<phase, at, stage, dropped, refused>>

-----------------------------------------------------------------------------
IntakeTypeOK ==
  /\ phase \in {"down", "run", "stop", "write"} /\ at \in Nat
  /\ stage \in [Torrents -> Stages] /\ dropped \subseteq Torrents
  /\ refused \subseteq Torrents
  /\ changes \in 0..MaxChanges
=============================================================================
