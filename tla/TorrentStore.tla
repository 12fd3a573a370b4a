---------------------------- MODULE TorrentStore ----------------------------
(***************************************************************************)
(* What core.js keeps of the torrents: the files <hash>.torrent, .resume   *)
(* and .metadata in the state path, written and deleted by the handlers of *)
(* libtorrent's alerts and by saveTorrents, read by loadTorrents at the    *)
(* next start, and the options of each torrent in the metadata map.        *)
(*                                                                         *)
(* The session runs adds and removals later, in its own thread, and tells  *)
(* of them in alerts that wait in the io_service.  A JavaScript call is    *)
(* one step, but for its file operations: a crash may fall between any     *)
(* two, and a write cut short leaves a torn file.  Left out are torrents   *)
(* added by the URL of a .torrent, whose hash changes later, and I/O       *)
(* errors other than a crash.                                              *)
(***************************************************************************)
EXTENDS Naturals, Sequences, SequencesExt

CONSTANTS Hashes,      \* info hashes
          Options,     \* seed options that a user may set
          MaxCommands  \* bound: commands that RPC gives

ASSUME HashesAssumption == IsFiniteSet(Hashes)
ASSUME NamesAssumption == Options \cap {"none", "torn", "whole", "default"} = {}
ASSUME BoundAssumption == MaxCommands \in Nat

VARIABLES
  phase,     \* of the process; "stopping": io_->run() is over, not yet in unload
  session,   \* what libtorrent holds: with its info, a bare magnet link, nothing
  dirty,     \* torrents for which need_save_resume_data holds
  netCmd,    \* adds and removals the session has yet to run
  ioQueue,   \* alerts waiting for their handlers
  options,   \* the "options" of each torrent in the metadata map
  ops,       \* file operations the running handler has still to make
  disk,      \* the files
  todo,      \* torrents whose resume data saveTorrents waits for
  loadOk,    \* all that was on disk at the last start came into the session, or will
  commands,  \* counts the commands
  removed,   \* history: torrents whose files were once deleted, not added since
  wanted,    \* history: the options the user last gave a torrent he still has
  readded    \* history: torrents added again about or after that time

memory  == <<session, dirty, netCmd, ioQueue, options, ops, todo>>
history == <<removed, wanted, readded>>
vars == <<phase, memory, disk, loadOk, commands, history>>

Kinds   == {"torrent", "resume", "metadata"}
Given   == Options \cup {"default"}
Content == {"none", "torn", "whole"} \cup Given  \* Given: of .metadata

Nothing(x) == [h \in Hashes |-> x]

Init ==
  /\ phase = "down"
  /\ session = Nothing("absent") /\ dirty = {} /\ options = Nothing("none")
  /\ netCmd = <<>> /\ ioQueue = <<>> /\ ops = <<>> /\ todo = {}
  /\ disk = Nothing([k \in Kinds |-> "none"])
  /\ loadOk = TRUE /\ commands = 0
  /\ removed = {} /\ wanted = Nothing("none") /\ readded = {}

\* Something about h is still on its way.
Pending(h) ==
  \/ \E i \in 1..Len(netCmd) : netCmd[i].hash = h
  \/ \E i \in 1..Len(ioQueue) : ioQueue[i].hash = h

-----------------------------------------------------------------------------
(* Commands of a user: RPC methods, which the HTTP thread runs *)

Command ==
  /\ phase \in {"run", "stopping"} /\ ops = <<>>
  /\ commands < MaxCommands /\ commands' = commands + 1
  /\ UNCHANGED <<phase, session, dirty, ioQueue, ops, todo, disk, loadOk>>

\* webui.addTorrent, with a file or a magnet link.  The metadata it passes on has
\* a label and tags but no options.
AddTorrent(h, info) ==
  /\ Command
  /\ netCmd' = Append(netCmd, [op |-> "add", hash |-> h, info |-> info,
                               options |-> "none", resumed |-> FALSE])
  /\ removed' = removed \ {h}
  /\ IF session[h] = "absent"
       THEN wanted' = [wanted EXCEPT ![h] = "none"] /\ readded' = readded \ {h}
       ELSE readded' = readded \cup {h} /\ UNCHANGED wanted
  /\ UNCHANGED options

\* findTorrent is answered by the session's thread once it has run the commands
\* before it.
Found(h) == netCmd = <<>> /\ session[h] # "absent"

\* webui.perform, "remove" or "removedata".
RemoveTorrent(h) ==
  /\ Command /\ Found(h)
  /\ netCmd' = <<[op |-> "remove", hash |-> h]>>
  /\ wanted' = [wanted EXCEPT ![h] = "none"]
  /\ UNCHANGED <<options, removed, readded>>

\* webui.setProperties, seed_ratio or seed_time.  It throws on a torrent that has
\* no options yet.  The metadata map is JavaScript's: the session is not told.
SetOptions(h, o) ==
  /\ Command /\ Found(h) /\ options[h] # "none"
  /\ options' = [options EXCEPT ![h] = o]
  /\ wanted' = [wanted EXCEPT ![h] = o]
  /\ readded' = IF Pending(h) THEN readded \cup {h} ELSE readded \ {h}
  /\ UNCHANGED <<netCmd, removed>>

-----------------------------------------------------------------------------
(* libtorrent's network thread *)

\* An alert goes to the io_service.  Once that has stopped nobody handles it.
Post(alerts) == ioQueue' = IF phase = "run" THEN ioQueue \o alerts ELSE ioQueue

NetCall(op) == netCmd # <<>> /\ Head(netCmd).op = op /\ netCmd' = Tail(netCmd)
NetFrame == UNCHANGED <<phase, options, ops, todo, disk, loadOk, commands, history>>

Alert(kind, h) == [kind |-> kind, hash |-> h]

\* async_add_torrent.  A torrent the session has already is no error: its handle
\* is reported again.  One that comes with resume data needs none saved.
NetAdd ==
  /\ NetCall("add")
  /\ LET c == Head(netCmd)
         h == c.hash
         answer == [kind |-> "add", hash |-> h, options |-> c.options]
     IN IF session[h] = "absent"
          THEN /\ session' = [session EXCEPT ![h] = c.info]
               /\ dirty' \in {dirty} \cup (IF c.resumed THEN {} ELSE {dirty \cup {h}})
               /\ Post(<<Alert("added", h), answer>>)
          ELSE /\ Post(<<answer>>)
               /\ UNCHANGED <<session, dirty>>
  /\ NetFrame

\* libtorrent refuses the torrent.  "torrent.add" logs the error, and that is all: the
\* file from which the start has brought it stays.
NetRefuse ==
  /\ NetCall("add")
  /\ LET h == Head(netCmd).hash
     IN loadOk' = (loadOk /\ (session[h] = "absent" => disk[h]["torrent"] = "none"))
  /\ UNCHANGED <<phase, session, dirty, ioQueue, options, ops, todo, disk, commands, history>>

NetRemove ==
  /\ NetCall("remove")
  /\ LET h == Head(netCmd).hash
     IN /\ session' = [session EXCEPT ![h] = "absent"]
        /\ dirty' = dirty \ {h}
        /\ Post(<<Alert("removed", h)>>)
  /\ NetFrame

\* Peers have sent the info of a magnet link.
NetMetadata(h) ==
  /\ phase # "down" /\ session[h] = "magnet"
  /\ session' = [session EXCEPT ![h] = "full"]
  /\ Post(<<Alert("metadata", h)>>)
  /\ UNCHANGED <<dirty, netCmd>>
  /\ NetFrame

\* Transfers make the resume data of a torrent stale.
Touch(h) ==
  /\ phase # "down" /\ session[h] = "full" /\ h \notin dirty
  /\ dirty' = dirty \cup {h}
  /\ UNCHANGED <<session, netCmd, ioQueue>>
  /\ NetFrame

-----------------------------------------------------------------------------
(* The handlers of core.js, run one at a time by the io_service *)

\* write_impl: the open cuts the file to nothing, then it is written.
Write(h, kind, content) ==
  <<[hash |-> h, kind |-> kind, to |-> "torn"],
    [hash |-> h, kind |-> kind, to |-> content]>>
Delete(h, kind) ==
  IF disk[h][kind] = "none" THEN <<>> ELSE <<[hash |-> h, kind |-> kind, to |-> "none"]>>

Handle(kind) ==
  /\ phase = "run" /\ ops = <<>>
  /\ ioQueue # <<>> /\ Head(ioQueue).kind = kind /\ ioQueue' = Tail(ioQueue)
  /\ UNCHANGED <<phase, session, dirty, netCmd, todo, disk, loadOk, commands, history>>

\* The torrent of the handler's handle was removed after the alert was posted: the
\* handle is invalid as soon as libtorrent lets the object go.
Dead(h) == \E i \in 2..Len(ioQueue) : ioQueue[i] = Alert("removed", h)

\* Mutant: the file is written whether it exists or not.
SaveAlways(h) ==
  \/ ops' = Write(h, "torrent", "whole") /\ (session[h] = "full" \/ Dead(h))
  \/ ops' = <<>> /\ (session[h] # "full" \/ Dead(h))

\* saveTorrent: nothing without the info, nothing when there is a file.
SaveTorrent(h) ==
  IF disk[h]["torrent"] # "none" THEN ops' = <<>>
  ELSE \/ ops' = Write(h, "torrent", "whole") /\ (session[h] = "full" \/ Dead(h))
       \/ ops' = <<>> /\ (session[h] # "full" \/ Dead(h))

HandleAdded ==
  /\ Handle("added")
  /\ SaveTorrent(Head(ioQueue).hash)
  /\ UNCHANGED options

\* Mutant: the info that came late is not saved.
IgnoreMetadata == Handle("metadata") /\ UNCHANGED <<ops, options>>

HandleMetadata ==
  /\ Handle("metadata")
  /\ SaveTorrent(Head(ioQueue).hash)
  /\ UNCHANGED options

\* Mutant: only what was given is assigned.
AssignGiven ==
  /\ Handle("add")
  /\ LET a == Head(ioQueue)
     IN options' = IF a.options = "none" THEN options
                   ELSE [options EXCEPT ![a.hash] = a.options]
  /\ UNCHANGED ops

\* "torrent.add": the options that came with the torrent, or the default ones.  The
\* info hash of an invalid handle is 0: that is for nothing.
HandleAdd ==
  /\ Handle("add")
  /\ LET a == Head(ioQueue)
         given == IF a.options = "none" THEN "default" ELSE a.options
     IN \/ options' = [options EXCEPT ![a.hash] = given]
        \/ Dead(a.hash) /\ UNCHANGED options
  /\ UNCHANGED ops

\* Mutants: the .torrent goes last; the files stay.
DeleteTorrentLast ==
  /\ Handle("removed")
  /\ LET h == Head(ioQueue).hash
     IN ops' = Delete(h, "resume") \o Delete(h, "metadata") \o Delete(h, "torrent")
  /\ UNCHANGED options

KeepTorrentFile ==
  /\ Handle("removed")
  /\ LET h == Head(ioQueue).hash
     IN ops' = Delete(h, "resume") \o Delete(h, "metadata")
  /\ UNCHANGED options

\* The metadata map keeps what it has.
HandleRemoved ==
  /\ Handle("removed")
  /\ LET h == Head(ioQueue).hash
     IN ops' = Delete(h, "torrent") \o Delete(h, "resume") \o Delete(h, "metadata")
  /\ UNCHANGED options

\* The running handler makes its next file operation.
DoOp ==
  /\ ops # <<>> /\ ops' = Tail(ops)
  /\ LET o == Head(ops)
     IN /\ disk' = [disk EXCEPT ![o.hash][o.kind] = o.to]
        /\ removed' = IF o.to = "none" /\ session[o.hash] = "absent" /\ ~Pending(o.hash)
                        THEN removed \cup {o.hash} ELSE removed
  /\ UNCHANGED <<phase, session, dirty, netCmd, ioQueue, options, todo, loadOk, commands,
                 wanted, readded>>

-----------------------------------------------------------------------------
(* Stop, crash and start *)

\* io_->run() returns: the alerts still in the io_service are lost.
Stop ==
  /\ phase = "run" /\ ops = <<>>
  /\ phase' = "stopping" /\ ioQueue' = <<>>
  /\ UNCHANGED <<session, dirty, netCmd, options, ops, todo, disk, loadOk, commands, history>>

Full == {h \in Hashes : session[h] = "full"}

\* saveTorrents, down to its loop.  getTorrents waits like findTorrent.
AskSaves ==
  /\ phase = "stopping" /\ ops = <<>> /\ netCmd = <<>>
  /\ phase' = "saving" /\ todo' = Full \cap dirty
  /\ UNCHANGED <<session, dirty, netCmd, ioQueue, options, ops, disk, loadOk, commands, history>>

\* The loop reads the answer for h, resume data or a failure.
SaveAnswer(h) ==
  /\ phase = "saving" /\ ops = <<>> /\ h \in todo
  /\ todo' = todo \ {h}
  /\ \/ /\ ops' = (IF options[h] = "none" THEN <<>> ELSE Write(h, "metadata", options[h]))
                    \o Write(h, "resume", "whole")
        /\ UNCHANGED wanted
     \/ /\ wanted' = [wanted EXCEPT ![h] = "none"]
        /\ UNCHANGED ops
  /\ UNCHANGED <<phase, session, dirty, netCmd, ioQueue, options, disk, loadOk, commands,
                 removed, readded>>

\* The process and what it has in memory are gone.
Vanish ==
  /\ phase' = "down"
  /\ session' = Nothing("absent") /\ dirty' = {} /\ options' = Nothing("none")
  /\ netCmd' = <<>> /\ ioQueue' = <<>> /\ ops' = <<>> /\ todo' = {}
  /\ UNCHANGED <<disk, loadOk, commands, removed, readded>>

Exit  == phase = "saving" /\ todo = {} /\ ops = <<>> /\ Vanish /\ UNCHANGED wanted
Crash == phase # "down" /\ Vanish /\ wanted' = Nothing("none")

OnDisk == {h \in Hashes : disk[h]["torrent"] # "none"}

\* Mutant: a torn .metadata is let through.
UnreadableTorrents == {h \in OnDisk : disk[h]["torrent"] = "torn"}

Unreadable == {h \in OnDisk : "torn" \in {disk[h]["torrent"], disk[h]["metadata"]}}

\* A .resume that is cut short.  If nothing was written yet, readBuffer returns undefined
\* and the setter of resumeData throws; libtorrent ignores one that ends in the middle.
CutResumes == {h \in OnDisk : disk[h]["resume"] = "torn"}

\* loadTorrents, over the .torrent files in the order of the directory.  TorrentInfo
\* and JSON.parse throw on a torn file, set_resume_data on an empty one, which ends the
\* load: the files that come after it are not added.
Restart ==
  /\ phase = "down" /\ phase' = "run"
  /\ \E empty \in SUBSET CutResumes :
       LET good == OnDisk \ (Unreadable \cup empty)
           Add(h) == [op |-> "add", hash |-> h, info |-> "full",
                      options |-> disk[h]["metadata"],
                      resumed |-> disk[h]["resume"] = "whole"]
       IN /\ loadOk' = (good = OnDisk)
          /\ \E added \in IF loadOk' THEN {good} ELSE SUBSET good :
               \E order \in SetToSeqs(added) :
                 netCmd' = [i \in 1..Len(order) |-> Add(order[i])]
  /\ UNCHANGED <<session, dirty, ioQueue, options, ops, todo, disk, commands, history>>

-----------------------------------------------------------------------------
Next ==
  \/ \E h \in Hashes :
       \/ \E info \in {"full", "magnet"} : AddTorrent(h, info)
       \/ \E o \in Options : SetOptions(h, o)
       \/ RemoveTorrent(h) \/ NetMetadata(h) \/ Touch(h) \/ SaveAnswer(h)
  \/ NetAdd \/ NetRefuse \/ NetRemove
  \/ HandleAdded \/ HandleMetadata \/ HandleAdd \/ HandleRemoved \/ DoOp
  \/ Stop \/ AskSaves \/ Exit \/ Crash \/ Restart

Spec == Init /\ [][Next]_vars

-----------------------------------------------------------------------------
(* Properties *)

AddCommand == [op : {"add"}, hash : Hashes, info : {"full", "magnet"},
               options : Given \cup {"none"}, resumed : BOOLEAN]
AnyCommand == AddCommand \cup [op : {"remove"}, hash : Hashes]
AnyAlert   == [kind : {"added", "removed", "metadata"}, hash : Hashes]
                \cup [kind : {"add"}, hash : Hashes, options : Given \cup {"none"}]
FileOp     == [hash : Hashes, kind : Kinds, to : Content]

\* Every variable has its type; in particular no torn metadata is ever loaded as a
\* torrent's options.
TypeOK ==
  /\ phase \in {"down", "run", "stopping", "saving"}
  /\ session \in [Hashes -> {"absent", "magnet", "full"}]
  /\ dirty \subseteq Hashes /\ todo \subseteq Hashes
  /\ netCmd \in Seq(AnyCommand) /\ ioQueue \in Seq(AnyAlert)
  /\ options \in [Hashes -> Given \cup {"none"}]
  /\ ops \in Seq(FileOp)
  /\ disk \in [Hashes -> [Kinds -> Content]]
  /\ loadOk \in BOOLEAN /\ commands \in 0..MaxCommands
  /\ removed \subseteq Hashes /\ readded \subseteq Hashes
  /\ wanted \in [Hashes -> Options \cup {"none"}]

\* The daemon runs and is done with everything that concerns h.
Settled(h) == phase = "run" /\ ops = <<>> /\ ~Pending(h)

\* A torrent whose info is known has its .torrent file, however adds, removals, late
\* info and restarts follow one another: the next start will find it.
Persisted == \A h \in Hashes : Settled(h) /\ session[h] = "full" => h \in OnDisk

\* A torrent that is not in the session has no .torrent file that would bring it
\* back, unless a torn or empty file cut the load short, or libtorrent refused
\* what was loaded.
NoGhosts ==
  \A h \in Hashes : Settled(h) /\ loadOk /\ session[h] # "full" => h \notin OnDisk

\* Every torrent ends up with seed options, which the seed goals and
\* webui.setProperties rely on.
OptionsAssigned ==
  \A h \in Hashes : Settled(h) /\ session[h] # "absent" => options[h] # "none"

\* Once the first file of a removed torrent is deleted the removal is final: a crash
\* between the deletions does not bring it back.
RemovalIsFinal ==
  \A h \in removed : session[h] = "absent" /\ h \notin OnDisk

\* A .torrent that is cut short, which no running handler is about to write or rewrite.
Broken(h) ==
  /\ disk[h]["torrent"] = "torn"
  /\ \A i \in 1..Len(ops) : ops[i].hash = h /\ ops[i].kind = "torrent" => ops[i].to = "none"

\* A .torrent file that exists is never opened for writing again.  A crash can only tear
\* one that is new; and one that it has torn stays so until it is deleted, through any
\* number of starts and adds of the same torrent (core.js:14).
NeverRewritten ==
  [][\A h \in Hashes :
       /\ disk[h]["torrent"] = "whole" => disk'[h]["torrent"] # "torn"
       /\ Broken(h) => Broken(h)' \/ disk'[h]["torrent"] = "none"]_vars

\* What the manual says ("Each torrent remembers its own options"), for options set by
\* the user, across an orderly stop without a failure.  The code does not: it
\* writes .metadata only where the session has resume data to save.
OptionsSurviveRestart ==
  \A h \in Hashes \ readded :
    Settled(h) /\ session[h] = "full" /\ wanted[h] # "none" => options[h] = wanted[h]

\* The same when the user adds a torrent he already has.  The code does not: the
\* add alert of the duplicate assigns the default options.
OptionsSurviveReadd ==
  \A h \in readded :
    Settled(h) /\ session[h] = "full" /\ wanted[h] # "none" => options[h] = wanted[h]
=============================================================================
