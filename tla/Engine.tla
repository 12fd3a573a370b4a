------------------------------- MODULE Engine -------------------------------
(***************************************************************************)
(* The engine of scripts over the life of many processes: core.js' load,   *)
(* which brings up the feeds, the plugins and the timer in this order; the *)
(* tick, whose callbacks run one after the other until one throws; the     *)
(* handlers of alerts between ticks; and unload.                           *)
(*                                                                         *)
(* AutoAdd and RssFeeds share the process and the session here.  Ticks     *)
(* and handlers exclude each other, as ScriptHost shows; unload finds the  *)
(* ticker joined.                                                          *)
(***************************************************************************)
EXTENDS AutoAdd, RssFeeds

VARIABLE callbacks  \* what timer.js runs on a tick: a sequence of names

vars == <<phase, at, stage, dropped, refused, changes, autoAddVars, rssVars, callbacks>>

Init == IntakeInit /\ AutoAddInit /\ RssInit /\ callbacks = <<>>

\* rss.load, the plugins, then timer.tick(postTorrentUpdates).  plugins.js catches what a
\* plugin's load throws: autoadd is not there if that failed, or if it is disabled.
RegisterCallbacks(ok) ==
  callbacks' \in IF ok /\ saved.kind # "torn"
                   THEN {<<"autoadd", "updates">>, <<"updates">>} ELSE {<<>>}

\* core.js' load.  It may throw before rss.load, on a torn .torrent, .metadata or
\* .session_state file.
Load(ok) ==
  /\ phase = "down" /\ phase' = "run"
  /\ LoadFeeds(ok)
  /\ RegisterCallbacks(ok)
  /\ tick' = 0
  /\ UNCHANGED <<at, stage, dropped, refused, folderVars, next, left, taken, deleted, outsideVars,
                 rssAlerts, saved, askedVars>>

LoadAll  == Load(TRUE) /\ UNCHANGED changes
LoadFails == Change /\ Load(FALSE)

-----------------------------------------------------------------------------
(* The tick *)

\* The ticker goes on until unload has joined it, which is after io_->run() is over.
StartTick ==
  /\ phase \in {"run", "stop"} /\ at = 0 /\ callbacks # <<>>
  /\ at' = 1
  /\ UNCHANGED <<phase, stage, dropped, refused, changes, autoAddVars, rssVars, callbacks>>

Running(name) == at # 0 /\ callbacks[at] = name

RunAutoAdd ==
  /\ Running("autoadd")
  /\ AutoAddCallback(Len(callbacks))
  /\ UNCHANGED <<rssVars, callbacks>>

\* session.postTorrentUpdates(), whose answer the seed goals are checked on.
PostUpdates ==
  /\ Running("updates")
  /\ at' = IF at = Len(callbacks) THEN 0 ELSE at + 1
  /\ UNCHANGED <<phase, stage, dropped, refused, changes, autoAddVars, rssVars, callbacks>>

TickStep == StartTick \/ RunAutoAdd \/ PostUpdates
-----------------------------------------------------------------------------
(* The handlers of alerts, and what goes on outside *)

Handle ==
  \/ (\E t \in Torrents : HandleTold(t)) /\ UNCHANGED <<autoAddVars, rssVars, callbacks>>
  \/ (DropRss \/ HandleRss) /\ UNCHANGED <<autoAddVars, callbacks>>

\* libtorrent's thread runs the commands that wait; peers and trackers send what they do.
RunAdd(t) == (NetAdd(t) \/ NetRefuse(t)) /\ UNCHANGED <<autoAddVars, rssVars, callbacks>>

Network ==
  \/ \E t \in Torrents : RunAdd(t)
  \/ (\E t \in Torrents : NetInfo(t)) /\ UNCHANGED <<autoAddVars, rssVars, callbacks>>

Others ==
  \/ OtherPrograms /\ UNCHANGED <<rssVars, callbacks>>
  \/ Outside /\ UNCHANGED <<autoAddVars, callbacks>>

-----------------------------------------------------------------------------
(* The end of a process *)

\* A signal: io_->run() returns, and the alerts that wait are not handled any more.
Stop ==
  /\ Change /\ phase = "run" /\ phase' = "stop"
  /\ UNCHANGED <<at, stage, dropped, refused, autoAddVars, rssVars, callbacks>>

\* unload has joined the ticker; rss.unload comes first in core.js' unload.
BeginSave ==
  /\ phase = "stop" /\ at = 0 /\ phase' = "write"
  /\ OpenState
  /\ UNCHANGED <<at, stage, dropped, refused, changes, autoAddVars, callbacks>>

EndProcess ==
  /\ Forget /\ ForgetFeeds /\ IdleScan
  /\ callbacks' = <<>>
  /\ UNCHANGED <<folderVars, tick, deleted>>

Exit == phase = "write" /\ WriteState /\ EndProcess /\ UNCHANGED changes

\* The process is killed, or the write of the state fails.
Crash == Change /\ phase # "down" /\ LoseHistories /\ EndProcess

-----------------------------------------------------------------------------
Next ==
  \/ LoadAll \/ LoadFails \/ TickStep \/ Handle \/ Network \/ Others
  \/ Stop \/ BeginSave \/ Exit \/ Crash

Spec == Init /\ [][Next]_vars

\* The ticker calls the tick every second and a tick ends; libtorrent's thread comes to
\* each add that is queued, whether it accepts it or not; the loop of alerts gets the mutex
\* again and again between ticks.  Nothing makes a fetch by URL succeed, and nobody has to
\* start a process.
Fairness ==
  /\ WF_vars(TickStep) /\ \A t \in Torrents : WF_vars(RunAdd(t))
  /\ \A f \in Files : SF_vars(HandleTold(f) /\ UNCHANGED <<autoAddVars, rssVars, callbacks>>)

FairSpec == Spec /\ Fairness

-----------------------------------------------------------------------------
(* Properties *)

TypeOK ==
  /\ IntakeTypeOK /\ AutoAddTypeOK /\ RssTypeOK
  /\ callbacks \in {<<>>, <<"updates">>, <<"autoadd", "updates">>}
  /\ at \in 0..Len(callbacks)
  /\ next # 0 => Running("autoadd")
  /\ phase = "down" => callbacks = <<>> /\ feeds = <<>>

\* What the scripts no longer look for, the files that autoadd.js has deleted (46) and the
\* items in a history, of this process or of .rss_state (rss.js:117, 168), is lost in two
\* ways only: libtorrent refused its last add, which is no more than logged (core.js:63),
\* or it was on its way when a process ended.  Otherwise it is in the session or on the
\* disk: no exception, no other program's write and no order of the two loses one.
NothingLost ==
  \A t \in Torrents :
    (t \in deleted \/ \E i \in 1..Len(histories) : t \in histories[i]
                    \/ \E u \in Urls : t \in saved.history[u])
      => stage[t] # "none" \/ t \in dropped \/ t \in refused

\* An item is not downloaded a second time, by this process or a later one, except
\* where the history that had it is gone: a process ended before it wrote it or while it
\* did, load failed, the feed was not configured for a while, or it was there twice.
NeverTwice == twice = {}

Registered(name) == \E i \in 1..Len(callbacks) : callbacks[i] = name

\* No file makes autoadd.js, where it is loaded, throw.
Readable == Registered("autoadd") => \A f \in Files : Read(f) # "partial"

\* A tick comes to postTorrentUpdates again and again, and with it every check of the
\* seed goals, once the process stays up, its load has come to the end and no folder
\* holds a file that makes autoadd.js throw.
UpdatesFlow ==
  <>[](phase = "run" /\ Registered("updates") /\ Readable) => []<>Running("updates")

\* The folder of f is looked at, to its end.
Reached(f) ==
  LET n == CHOOSE i \in 1..Len(Folders) : Folders[i] = FolderOf[f]
      upTo == {Folders[i] : i \in 1..n}
  IN /\ upTo \subseteq there
     /\ \A g \in Files : FolderOf[g] \in upTo => file[g] # "partial"

\* A torrent file that stays in a folder is loaded by the next process too, once the
\* process stays up with autoadd.js loaded and neither a missing folder nor an unreadable
\* file hides it, unless libtorrent refuses it each time: it does not matter what it was
\* before, or how often a copy was interrupted or an add refused.
FilesArrive ==
  \A f \in Files :
    <>[](phase = "run" /\ Registered("autoadd") /\ Reached(f))
      => \/ []<>(stage[f] = "saved" \/ (stage[f] = "none" /\ file[f] # "good"))
         \/ []<><<NetRefuse(f)>>_vars
=============================================================================
