------------------------------ MODULE SeedGoals ------------------------------
(***************************************************************************)
(* Seed goals and pausing: core.js's handlers of torrent.stateUpdate and   *)
(* torrent.checked, and the RPC methods that start, pause, recheck and     *)
(* remove torrents, against libtorrent, which pauses and resumes the       *)
(* torrents it manages.                                                    *)
(*                                                                         *)
(* The handlers see copies of the torrents' status, taken when libtorrent  *)
(* posted the alert; what they and the RPC methods ask for is run later by *)
(* libtorrent's thread, command by command.  A goal is met or not: ratio,  *)
(* seeding time and the options they are compared with do not change       *)
(* otherwise.  Every torrent has its metadata.                             *)
(***************************************************************************)
EXTENDS Naturals, Sequences, SequencesExt

CONSTANTS Torrents,     \* the torrents of the session
          Actions,      \* what seedAction may be in their options
          MaxCommands,  \* bound: commands that RPC gives
          MaxAlerts     \* bound: alerts waiting when a tick asks for updates

ASSUME TorrentsAssumption == IsFiniteSet(Torrents)
ASSUME ActionsAssumption == Actions \subseteq {"pause", "remove", "other"}
ASSUME BoundsAssumption == MaxCommands \in Nat /\ MaxAlerts \in Nat

VARIABLES
  state,       \* of each torrent in libtorrent
  paused,      \* the torrents that are paused
  managed,     \* the torrents that libtorrent may pause and resume by itself
  met,         \* the torrents that have reached their goal
  fresh,       \* the torrents whose status changed since the last update
  netCmd,      \* commands the network thread has yet to run
  ioQueue,     \* alerts waiting for their handlers
  loop,        \* status copies the running handler has not looked at yet
  action,      \* options.seedAction of each torrent
  flagged,     \* the torrents with _pauseAfterRecheck
  commands,    \* counts the user's commands
  goalPaused,  \* history: paused for the goal, and not started by the user since
  rechecked    \* history: paused by the user when rechecked, not started since

libtorrent == <<state, paused, managed, met, fresh>>
history    == <<goalPaused, rechecked>>
vars == <<libtorrent, netCmd, ioQueue, loop, action, flagged, commands, history>>

\* A torrent comes paused and managed, and has its files checked first.
Init ==
  /\ state = [t \in Torrents |-> "checking"]
  /\ paused = Torrents /\ managed = Torrents
  /\ met = {} /\ fresh = Torrents
  /\ netCmd = <<>> /\ ioQueue = <<>> /\ loop = <<>>
  /\ action \in [Torrents -> Actions]
  /\ flagged = {} /\ commands = 0
  /\ goalPaused = {} /\ rechecked = {}

-----------------------------------------------------------------------------
(* libtorrent's network thread *)

Ask(op, t) == [op |-> op, torrent |-> t]
Update     == [op |-> "update"]

\* The status copy in a state_update_alert.
Status(t) == [torrent |-> t, isFinished |-> state[t] = "finished",
              isPaused |-> t \in paused, met |-> t \in met]

NetFrame == UNCHANGED <<met, loop, action, flagged, commands, history>>

Take(op) == netCmd # <<>> /\ Head(netCmd).op = op /\ netCmd' = Tail(netCmd) /\ NetFrame

\* post_torrent_updates: the torrents that changed, in any order.
NetUpdate ==
  /\ Take("update")
  /\ fresh' = {}
  /\ \E order \in SetToSeqs(fresh) :
       ioQueue' = Append(ioQueue, [kind |-> "update",
                                   status |-> [i \in 1..Len(order) |-> Status(order[i])]])
  /\ UNCHANGED <<state, paused, managed>>

\* Whom a command is for; nobody, when the torrent is gone.
Target == {t \in Torrents : t = Head(netCmd).torrent /\ state[t] # "gone"}

Call(op) == Take(op) /\ fresh' = fresh \cup Target /\ UNCHANGED ioQueue

NetPause    == Call("pause")    /\ paused' = paused \cup Target  /\ UNCHANGED <<state, managed>>
NetResume   == Call("resume")   /\ paused' = paused \ Target     /\ UNCHANGED <<state, managed>>
NetManage   == Call("manage")   /\ managed' = managed \cup Target /\ UNCHANGED <<state, paused>>
NetUnmanage == Call("unmanage") /\ managed' = managed \ Target   /\ UNCHANGED <<state, paused>>

Become(s) == state' = [t \in Torrents |-> IF t \in Target THEN s ELSE state[t]]

NetRecheck ==
  /\ Call("recheck")
  /\ Become("checking")
  /\ UNCHANGED <<paused, managed>>

NetRemove ==
  /\ Take("remove") /\ fresh' = fresh \ Target
  /\ Become("gone")
  /\ UNCHANGED <<paused, managed, ioQueue>>

Stir(t) ==
  /\ fresh' = fresh \cup {t}
  /\ UNCHANGED <<netCmd, loop, action, flagged, commands, history>>

\* libtorrent starts and stops the torrents it manages, to keep to its limits.
AutoManage(t) ==
  /\ t \in managed /\ state[t] # "gone" /\ Stir(t)
  /\ paused' = IF t \in paused THEN paused \ {t} ELSE paused \cup {t}
  /\ UNCHANGED <<state, managed, met, ioQueue>>

\* The files have been checked.  A torrent that is paused and not managed waits.
CheckDone(t) ==
  /\ state[t] = "checking" /\ (t \in managed \/ t \notin paused) /\ Stir(t)
  /\ \E s \in {"downloading", "finished"} : state' = [state EXCEPT ![t] = s]
  /\ ioQueue' = Append(ioQueue, [kind |-> "checked", torrent |-> t])
  /\ UNCHANGED <<paused, managed, met>>

Download(t) ==
  /\ state[t] = "downloading" /\ t \notin paused /\ Stir(t)
  /\ \E s \in {"downloading", "finished"} : state' = [state EXCEPT ![t] = s]
  /\ UNCHANGED <<paused, managed, met, ioQueue>>

Seed(t) ==
  /\ state[t] = "finished" /\ t \notin paused /\ Stir(t)
  /\ met' \in {met, met \cup {t}}
  /\ UNCHANGED <<state, paused, managed, ioQueue>>

-----------------------------------------------------------------------------
(* RPC methods, which the HTTP thread runs *)

\* findTorrent, and reading a status, wait until the commands before are done.
Perform(t, ops) ==
  /\ loop = <<>> /\ netCmd = <<>> /\ state[t] # "gone"
  /\ commands < MaxCommands /\ commands' = commands + 1
  /\ netCmd' = [i \in DOMAIN ops |-> Ask(ops[i], t)]
  /\ UNCHANGED <<libtorrent, ioQueue, loop, action>>

\* The user wants t to run, or leaves it to libtorrent.
Released(t) == goalPaused' = goalPaused \ {t} /\ rechecked' = rechecked \ {t}

\* webui.perform: start, forcestart, pause and remove.
Start(t) == Perform(t, <<"resume">>) /\ Released(t) /\ UNCHANGED flagged
ForceStart(t) == Perform(t, <<"unmanage", "resume">>) /\ Released(t) /\ UNCHANGED flagged
Pause(t) == Perform(t, <<"pause">>) /\ UNCHANGED <<flagged, history>>
RemoveTorrent(t) == Perform(t, <<"remove">>) /\ Released(t) /\ UNCHANGED flagged

\* webui.setProperties, auto_managed.
SetManaged(t, on) ==
  IF on THEN Perform(t, <<"manage">>) /\ Released(t) /\ UNCHANGED flagged
        ELSE Perform(t, <<"unmanage">>) /\ UNCHANGED <<flagged, history>>

\* Mutant: a torrent that is paused is resumed for its recheck, and that is all.
RecheckNoFlag(t) ==
  /\ Perform(t, <<"resume", "recheck">>)
  /\ goalPaused' = goalPaused \ {t} /\ rechecked' = rechecked \cup {t}
  /\ UNCHANGED flagged

\* webui.perform, recheck: a torrent that is paused and not managed has to be resumed,
\* and is to be paused again afterwards.
Recheck(t) ==
  IF t \in paused \ managed
    THEN /\ Perform(t, <<"resume", "recheck">>)
         /\ flagged' = flagged \cup {t}
         /\ goalPaused' = goalPaused \ {t} /\ rechecked' = rechecked \cup {t}
    ELSE Perform(t, <<"recheck">>) /\ UNCHANGED <<flagged, history>>

-----------------------------------------------------------------------------
(* The handlers of core.js, run one at a time by the io_service *)

\* timer.tick's callback, once a second.
Tick ==
  /\ loop = <<>> /\ Len(ioQueue) < MaxAlerts
  /\ ~ \E i \in DOMAIN netCmd : netCmd[i] = Update
  /\ netCmd' = Append(netCmd, Update)
  /\ UNCHANGED <<libtorrent, ioQueue, loop, action, flagged, commands, history>>

Handle(kind) ==
  /\ loop = <<>>
  /\ ioQueue # <<>> /\ Head(ioQueue).kind = kind /\ ioQueue' = Tail(ioQueue)
  /\ UNCHANGED <<libtorrent, action, commands, history>>

\* Mutant: the flag is taken and the torrent keeps running.
CheckedNoPause ==
  /\ Handle("checked")
  /\ flagged' = flagged \ {Head(ioQueue).torrent}
  /\ UNCHANGED <<netCmd, loop>>

\* torrent.checked.  An invalid handle has no metadata.
HandleChecked ==
  /\ Handle("checked")
  /\ LET t == Head(ioQueue).torrent
     IN IF t \in flagged /\ state[t] # "gone"
          THEN netCmd' = Append(netCmd, Ask("pause", t)) /\ flagged' = flagged \ {t}
          ELSE UNCHANGED <<netCmd, flagged>>
  /\ UNCHANGED loop

\* Mutant: the alert is taken for the list it carries.
UpdateAlertAsList ==
  /\ Handle("update")
  /\ loop' = <<Head(ioQueue)>>
  /\ UNCHANGED <<netCmd, flagged>>

\* torrent.stateUpdate, down to its loop.
HandleUpdate ==
  /\ Handle("update")
  /\ loop' = Head(ioQueue).status
  /\ UNCHANGED <<netCmd, flagged>>

Look == loop # <<>> /\ UNCHANGED <<libtorrent, ioQueue, action, flagged, commands, rechecked>>

\* Mutant: paused first.
GoalCommandsSwapped(t) == <<Ask("pause", t), Ask("unmanage", t)>>

\* autoManaged = false, then pause().
GoalCommands(t) == <<Ask("unmanage", t), Ask("pause", t)>>

\* The torrent has been removed since: its handle is invalid, has no metadata, and pausing
\* it does nothing or throws.
LookDead ==
  /\ Look /\ state[Head(loop).torrent] = "gone"
  /\ loop' \in {Tail(loop), <<>>}
  /\ UNCHANGED <<netCmd, goalPaused>>

LookLive == Look /\ state[Head(loop).torrent] # "gone"

\* Mutant: goals only of torrents that libtorrent manages.
ReachedManaged(s) == s.isFinished /\ ~s.isPaused /\ s.met /\ s.torrent \in managed

\* The goal test, on the copy.
Reached(s) == s.isFinished /\ ~s.isPaused /\ s.met

\* The loop returns at the first torrent that is not finished or is paused.
LookReturn ==
  /\ LookLive /\ (~Head(loop).isFinished \/ Head(loop).isPaused)
  /\ loop' = <<>>
  /\ UNCHANGED <<netCmd, goalPaused>>

\* A torrent that has reached its goal is paused.
LookPause ==
  /\ LookLive /\ Reached(Head(loop))
  /\ LET t == Head(loop).torrent
     IN /\ action[t] = "pause"
        /\ netCmd' = netCmd \o GoalCommands(t)
        /\ goalPaused' = goalPaused \cup {t}
  /\ loop' = Tail(loop)

\* session.removeTorrent(torrent), without its second argument, throws a TypeError,
\* which ends the handler.
LookRemove ==
  /\ LookLive /\ Reached(Head(loop)) /\ action[Head(loop).torrent] = "remove"
  /\ loop' = <<>>
  /\ UNCHANGED <<netCmd, goalPaused>>

\* It has not reached its goal, or the action is none that the code knows.
LookOn ==
  /\ LookLive /\ Head(loop).isFinished /\ ~Head(loop).isPaused
  /\ ~Reached(Head(loop)) \/ action[Head(loop).torrent] = "other"
  /\ loop' = Tail(loop)
  /\ UNCHANGED <<netCmd, goalPaused>>

-----------------------------------------------------------------------------
NetRun ==
  \/ NetUpdate \/ NetPause \/ NetResume \/ NetManage \/ NetUnmanage
  \/ NetRecheck \/ NetRemove

Heap ==
  \/ HandleChecked \/ HandleUpdate
  \/ LookDead \/ LookReturn \/ LookPause \/ LookRemove \/ LookOn

User(t) ==
  \/ Start(t) \/ ForceStart(t) \/ Pause(t) \/ RemoveTorrent(t) \/ Recheck(t)
  \/ \E on \in BOOLEAN : SetManaged(t, on)

Next ==
  \/ NetRun \/ Heap \/ Tick
  \/ \E t \in Torrents :
       User(t) \/ AutoManage(t) \/ CheckDone(t) \/ Download(t) \/ Seed(t)

Spec == Init /\ [][Next]_vars

\* libtorrent's thread runs its commands and comes to the end of every check; the io_service
\* runs its handlers, and the timer ticks.
FairSpec ==
  /\ Spec /\ WF_vars(NetRun) /\ WF_vars(Heap) /\ WF_vars(Tick)
  /\ \A t \in Torrents : WF_vars(CheckDone(t))

-----------------------------------------------------------------------------
(* Properties *)

Ops == {"pause", "resume", "manage", "unmanage", "recheck", "remove"}
StatusCopy == [torrent : Torrents, isFinished : BOOLEAN, isPaused : BOOLEAN, met : BOOLEAN]
AnyCommand == {Update} \cup [op : Ops, torrent : Torrents]
AnyAlert   == [kind : {"update"}, status : Seq(StatusCopy)]
                \cup [kind : {"checked"}, torrent : Torrents]

\* Every variable has its type.
TypeOK ==
  /\ state \in [Torrents -> {"checking", "downloading", "finished", "gone"}]
  /\ paused \subseteq Torrents /\ managed \subseteq Torrents
  /\ met \subseteq Torrents /\ fresh \subseteq Torrents
  /\ netCmd \in Seq(AnyCommand) /\ ioQueue \in Seq(AnyAlert)
  /\ loop \in Seq(StatusCopy)
  /\ action \in [Torrents -> Actions]
  /\ flagged \subseteq Torrents /\ commands \in 0..MaxCommands
  /\ goalPaused \subseteq Torrents /\ rechecked \subseteq Torrents

Live(t)  == state[t] # "gone"
Asked(t) == \E i \in 1..Len(netCmd) : netCmd[i].op # "update" /\ netCmd[i].torrent = t

\* A torrent that was paused for its goal stays paused until the user starts it or hands
\* it back to libtorrent, whatever libtorrent does of itself between the two commands.
GoalPauseStays ==
  \A t \in goalPaused : Live(t) /\ ~Asked(t) => t \in paused \ managed

CheckedWaits(t) ==
  \E i \in 1..Len(ioQueue) : ioQueue[i].kind = "checked" /\ ioQueue[i].torrent = t

\* A torrent that was paused before its recheck is paused again, or still to be: earlier
\* alerts and further rechecks do not use up the flag for good.  And a flag goes with the
\* check that it was set for: none is left to pause a torrent after a later one.
RecheckKeepsPause ==
  /\ \A t \in rechecked :
       Live(t) /\ ~Asked(t) /\ ~CheckedWaits(t) =>
         t \in paused \/ (t \in flagged /\ state[t] = "checking")
  /\ \A t \in flagged : Live(t) /\ ~Asked(t) /\ ~CheckedWaits(t) => state[t] = "checking"

\* It is paused again in the end, unless the user starts it in the meantime.
RecheckRestores ==
  \A t \in Torrents :
    t \in rechecked \ paused ~> t \in paused \/ t \notin rechecked \/ ~Live(t)

Due(t, a) == state[t] = "finished" /\ t \notin paused /\ t \in met /\ action[t] = a

\* "Each torrent in Hadouken can be paused ... when it reaches the user-specified seed
\* goals": a torrent that seeds beyond its goal is paused.  True of one torrent; of
\* several the code looks at none behind one that is paused or not finished.
GoalPauses == \A t \in Torrents : Due(t, "pause") ~> ~Due(t, "pause")

\* "... or removed": the same for the action remove.  The code never removes it.
GoalRemoves == \A t \in Torrents : Due(t, "remove") ~> ~Due(t, "remove")
=============================================================================
