------------------------ MODULE TorrentStore_proofs ------------------------
(***************************************************************************)
(* For every set of info hashes and options and every number of commands:  *)
(* types, that a complete .torrent file is never opened again, that a      *)
(* removal whose deletions have begun is final, that the .torrent files    *)
(* follow the session, and that every torrent gets options.  Without       *)
(* removals the store implements the way of a torrent (StoreIntake).       *)
(***************************************************************************)
EXTENDS StoreIntake, SequenceLemmas, FiniteSetTheorems, TLAPS

\* What is in a metadata file, and will be put into one, is options or torn.
MetadataInv ==
  /\ \A h \in Hashes : disk[h]["metadata"] # "whole"
  /\ \A i \in 1..Len(ops) : ops[i].kind = "metadata" => ops[i].to # "whole"

\* Only the first operation of a handler tears a .torrent, and only a new one.
FreshInv ==
  \A i \in 1..Len(ops) :
    ops[i].kind = "torrent" /\ ops[i].to = "torn" =>
      i = 1 /\ disk[ops[i].hash]["torrent"] = "none"

DeleteTorrent(h) == [hash |-> h, kind |-> "torrent", to |-> "none"]

\* A handler that deletes does nothing else, and the .torrent goes first.
DeleteInv ==
  \A i \in 1..Len(ops) : ops[i].to = "none" =>
    /\ disk[ops[i].hash]["torrent"] = "none" \/ ops[1] = DeleteTorrent(ops[i].hash)
    /\ \A j \in 1..Len(ops) : ops[j].to = "none"

\* Nothing is left that could bring back a removed torrent.
RemovedInv ==
  \A h \in removed :
    /\ session[h] = "absent" /\ disk[h]["torrent"] = "none"
    /\ ~Pending(h)
    /\ \A i \in 1..Len(ops) : ops[i].hash = h /\ ops[i].kind = "torrent" => ops[i].to = "none"

StoreInv == TypeOK /\ MetadataInv /\ FreshInv /\ DeleteInv /\ RemovedInv

-----------------------------------------------------------------------------
(* The operations of handlers, the alerts of the network thread *)

\* Write: the two operations of writing a file.
LEMMA WriteShape ==
  ASSUME NEW h \in Hashes, NEW kind \in Kinds, NEW content \in Content
  PROVE  /\ Write(h, kind, content) \in Seq(FileOp)
         /\ Len(Write(h, kind, content)) = 2
         /\ Write(h, kind, content)[1] = [hash |-> h, kind |-> kind, to |-> "torn"]
         /\ Write(h, kind, content)[2] = [hash |-> h, kind |-> kind, to |-> content]
<1>1. [hash |-> h, kind |-> kind, to |-> "torn"] \in FileOp
  BY DEF FileOp, Content
<1>2. [hash |-> h, kind |-> kind, to |-> content] \in FileOp
  BY DEF FileOp
<1> QED
  BY <1>1, <1>2 DEF Write

\* Delete: one deletion, if there is a file.
LEMMA DeleteShape ==
  ASSUME NEW h \in Hashes, NEW kind \in Kinds
  PROVE  /\ Delete(h, kind) \in Seq(FileOp)
         /\ disk[h][kind] = "none" => Delete(h, kind) = <<>>
         /\ disk[h][kind] # "none" =>
              Delete(h, kind) = <<[hash |-> h, kind |-> kind, to |-> "none"]>>
         /\ \A i \in 1..Len(Delete(h, kind)) :
              Delete(h, kind)[i] = [hash |-> h, kind |-> kind, to |-> "none"]
<1> DEFINE op == [hash |-> h, kind |-> kind, to |-> "none"]
<1>1. op \in FileOp
  BY DEF FileOp, Content
<1>2. CASE disk[h][kind] = "none"
  <2>1. Delete(h, kind) = <<>>
    BY <1>2 DEF Delete
  <2>2. Delete(h, kind) \in Seq(FileOp) /\ Len(Delete(h, kind)) = 0
    BY <2>1, EmptySeq
  <2>3. 1..Len(Delete(h, kind)) = {}
    BY <2>2
  <2> QED
    BY <1>2, <2>1, <2>2, <2>3
<1>3. CASE disk[h][kind] # "none"
  <2>1. Delete(h, kind) = <<op>>
    BY <1>3 DEF Delete
  <2> HIDE DEF op
  <2>2. <<op>> \in Seq(FileOp) /\ Len(<<op>>) = 1 /\ <<op>>[1] = op
    BY <1>1
  <2>3. \A i \in 1..Len(<<op>>) : <<op>>[i] = op
    BY <2>2
  <2> QED
    BY <1>3, <2>1, <2>2, <2>3 DEF op
<1> QED
  BY <1>2, <1>3

\* Post appends to the queue of the io_service or drops.
LEMMA PostShape ==
  ASSUME TypeOK, NEW alerts \in Seq(AnyAlert), Post(alerts)
  PROVE  /\ ioQueue' \in Seq(AnyAlert)
         /\ \A i \in 1..Len(ioQueue') :
              \/ \E j \in 1..Len(ioQueue) : ioQueue'[i] = ioQueue[j]
              \/ \E j \in 1..Len(alerts) : ioQueue'[i] = alerts[j]
<1>0. ioQueue \in Seq(AnyAlert)
  BY DEF TypeOK
<1>1. CASE phase = "run"
  <2>1. ioQueue' = ioQueue \o alerts
    BY <1>1 DEF Post
  <2>2. ioQueue \o alerts \in Seq(AnyAlert)
    BY <1>0, ConcatProperties
  <2>3. \A i \in 1..Len(ioQueue \o alerts) :
          \/ \E j \in 1..Len(ioQueue) : (ioQueue \o alerts)[i] = ioQueue[j]
          \/ \E j \in 1..Len(alerts) : (ioQueue \o alerts)[i] = alerts[j]
    BY ONLY <1>0, ConcatElement, alerts \in Seq(AnyAlert)
  <2> QED
    BY <2>1, <2>2, <2>3
<1>2. CASE phase # "run"
  BY <1>0, <1>2 DEF Post
<1> QED
  BY <1>1, <1>2

\* SaveTorrent: nothing, or the writing of a file that does not exist.
LEMMA SaveShape ==
  ASSUME NEW h \in Hashes, SaveTorrent(h)
  PROVE  \/ ops' = <<>>
         \/ ops' = Write(h, "torrent", "whole") /\ disk[h]["torrent"] = "none"
BY DEF SaveTorrent

-----------------------------------------------------------------------------
(* The steps *)

\* What a handler leaves alone, and whose alert it has taken.
LEMMA HandleFacts ==
  ASSUME TypeOK, NEW kind, Handle(kind)
  PROVE  /\ Head(ioQueue) \in AnyAlert /\ Head(ioQueue).kind = kind
         /\ Head(ioQueue).hash \in Hashes /\ Pending(Head(ioQueue).hash)
         /\ ops = <<>> /\ phase = "run"
         /\ ioQueue' \in Seq(AnyAlert)
         /\ \A i \in 1..Len(ioQueue') : \E j \in 1..Len(ioQueue) : ioQueue'[i] = ioQueue[j]
<1>1. ioQueue \in Seq(AnyAlert) /\ ioQueue # <<>> /\ ioQueue' = Tail(ioQueue)
  BY DEF TypeOK, Handle
<1>2. 1 \in 1..Len(ioQueue) /\ Head(ioQueue) = ioQueue[1] /\ Head(ioQueue) \in AnyAlert
  BY <1>1, HeadElement
<1>3. Head(ioQueue).hash \in Hashes
  BY <1>2 DEF AnyAlert
<1>4. Pending(Head(ioQueue).hash)
  BY <1>2 DEF Pending
<1>5. ioQueue' \in Seq(AnyAlert)
  BY <1>1, HeadTailProperties
<1>6. \A i \in 1..Len(ioQueue') : \E j \in 1..Len(ioQueue) : ioQueue'[i] = ioQueue[j]
  BY <1>1, TailElement
<1> QED
  BY <1>2, <1>3, <1>4, <1>5, <1>6 DEF Handle

\* The operations a step gives a handler that had none keep the invariant when
\* they are typed, deletions in the right order or writes of what is not there.
LEMMA NewOps ==
  ASSUME StoreInv, NEW h \in Hashes, h \notin removed,
         disk' = disk, removed' = removed, session' = session,
         \A g \in removed : ~Pending(g)',
         ops' \in Seq(FileOp),
         \A i \in 1..Len(ops') : ops'[i].hash = h,
         \A i \in 1..Len(ops') : ops'[i].kind = "metadata" => ops'[i].to # "whole",
         \A i \in 1..Len(ops') : ops'[i].kind = "torrent" /\ ops'[i].to = "torn" =>
            i = 1 /\ disk[h]["torrent"] = "none",
         \/ \A i \in 1..Len(ops') : ops'[i].to # "none"
         \/ /\ \A i \in 1..Len(ops') : ops'[i].to = "none"
            /\ disk[h]["torrent"] = "none" \/ ops'[1] = DeleteTorrent(h)
  PROVE  MetadataInv' /\ FreshInv' /\ DeleteInv' /\ RemovedInv'
<1>1. MetadataInv'
  BY DEF StoreInv, MetadataInv
<1>2. FreshInv'
  BY DEF FreshInv
<1>3. DeleteInv'
  BY DEF DeleteInv, DeleteTorrent
<1>4. RemovedInv'
  BY DEF StoreInv, RemovedInv
<1> QED
  BY <1>1, <1>2, <1>3, <1>4

\* The actions that leave operations and files alone, and add nothing to removed,
\* keep the invariant when they are typed and bring no removed torrent back.
LEMMA SameOps ==
  ASSUME StoreInv, TypeOK', ops' = ops \/ ops' = <<>>, disk' = disk, removed' \subseteq removed,
         \A g \in removed' : session'[g] = "absent" /\ ~Pending(g)'
  PROVE  StoreInv'
<1>1. CASE ops' = ops
  BY <1>1 DEF StoreInv, MetadataInv, FreshInv, DeleteInv, RemovedInv
<1>2. CASE ops' = <<>>
  <2>1. 1..Len(ops') = {}
    <3>1. Len(ops') = 0
      BY <1>2, EmptySeq
    <3> QED
      BY <3>1
  <2>2. MetadataInv'
    BY <2>1 DEF StoreInv, MetadataInv
  <2>3. FreshInv' /\ DeleteInv'
    BY <2>1 DEF FreshInv, DeleteInv
  <2>4. RemovedInv'
    BY <2>1 DEF StoreInv, RemovedInv
  <2> QED
    BY <2>2, <2>3, <2>4 DEF StoreInv
<1> QED
  BY <1>1, <1>2

\* The commands of a user.
LEMMA CommandStep ==
  ASSUME StoreInv, NEW h \in Hashes,
         \/ \E info \in {"full", "magnet"} : AddTorrent(h, info)
         \/ RemoveTorrent(h)
         \/ \E o \in Options : SetOptions(h, o)
  PROVE  StoreInv'
<1> USE BoundAssumption DEF Command
<1>1. TypeOK
  BY DEF StoreInv
<1>2. ASSUME NEW info \in {"full", "magnet"}, AddTorrent(h, info) PROVE StoreInv'
  <2> DEFINE c == [op |-> "add", hash |-> h, info |-> info, options |-> "none",
                   resumed |-> FALSE]
  <2>1. c \in AnyCommand /\ c.hash = h
    BY DEF AnyCommand, AddCommand
  <2>2. netCmd' = Append(netCmd, c) /\ removed' = removed \ {h}
    BY <1>2 DEF AddTorrent
  <2> HIDE DEF c
  <2>3. netCmd \in Seq(AnyCommand)
    BY <1>1 DEF TypeOK
  <2>4. /\ netCmd' \in Seq(AnyCommand)
        /\ Len(netCmd') = Len(netCmd) + 1 /\ Len(netCmd) \in Nat
        /\ \A i \in 1..Len(netCmd) : netCmd'[i] = netCmd[i]
        /\ netCmd'[Len(netCmd) + 1] = c
    BY <2>1, <2>2, <2>3, AppendProperties, LenProperties
  <2>5. wanted' \in [Hashes -> Options \cup {"none"}] /\ readded' \subseteq Hashes
    BY <1>1, <1>2 DEF AddTorrent, TypeOK
  <2>6. TypeOK'
    BY <1>1, <1>2, <2>2, <2>4, <2>5 DEF AddTorrent, TypeOK
  <2>7. \A i \in 1..Len(netCmd') : netCmd'[i] = c \/ \E j \in 1..Len(netCmd) : netCmd'[i] = netCmd[j]
    BY <2>4
  <2>8. \A g \in removed' : session'[g] = "absent" /\ ~Pending(g)'
    BY <1>2, <2>1, <2>2, <2>7 DEF AddTorrent, StoreInv, RemovedInv, Pending
  <2> QED
    BY <1>2, <2>2, <2>6, <2>8, SameOps DEF AddTorrent
<1>3. CASE RemoveTorrent(h)
  <2> DEFINE c == [op |-> "remove", hash |-> h]
  <2>1. c \in AnyCommand /\ c.hash = h
    BY DEF AnyCommand
  <2>2. netCmd' = <<c>>
    BY <1>3 DEF RemoveTorrent
  <2> HIDE DEF c
  <2>3. netCmd' \in Seq(AnyCommand) /\ \A i \in 1..Len(netCmd') : netCmd'[i] = c
    BY <2>1, <2>2
  <2>4. TypeOK'
    BY <1>1, <1>3, <2>3 DEF RemoveTorrent, TypeOK
  <2>5. h \notin removed
    BY <1>3 DEF RemoveTorrent, Found, StoreInv, RemovedInv
  <2>6. \A g \in removed' : session'[g] = "absent" /\ ~Pending(g)'
    BY <1>3, <2>1, <2>3, <2>5 DEF RemoveTorrent, StoreInv, RemovedInv, Pending
  <2> QED
    BY <1>3, <2>4, <2>6, SameOps DEF RemoveTorrent
<1>4. ASSUME NEW o \in Options, SetOptions(h, o) PROVE StoreInv'
  <2>1. options' \in [Hashes -> Given \cup {"none"}]
    BY <1>1, <1>4 DEF SetOptions, TypeOK, Given
  <2>2. wanted' \in [Hashes -> Options \cup {"none"}] /\ readded' \subseteq Hashes
    BY <1>1, <1>4 DEF SetOptions, TypeOK
  <2>3. TypeOK'
    BY <1>1, <1>4, <2>1, <2>2 DEF SetOptions, TypeOK
  <2>4. \A g \in removed' : session'[g] = "absent" /\ ~Pending(g)'
    BY <1>4 DEF SetOptions, StoreInv, RemovedInv, Pending
  <2> QED
    BY <1>4, <2>3, <2>4, SameOps DEF SetOptions
<1> QED
  BY <1>2, <1>3, <1>4

\* The network thread takes a command.
LEMMA NetCallFacts ==
  ASSUME TypeOK, NEW op, NetCall(op)
  PROVE  /\ Head(netCmd) \in AnyCommand /\ Head(netCmd).op = op
         /\ Head(netCmd).hash \in Hashes /\ Pending(Head(netCmd).hash)
         /\ netCmd' \in Seq(AnyCommand)
         /\ \A i \in 1..Len(netCmd') : \E j \in 1..Len(netCmd) : netCmd'[i] = netCmd[j]
<1>1. netCmd \in Seq(AnyCommand) /\ netCmd # <<>> /\ netCmd' = Tail(netCmd)
  BY DEF TypeOK, NetCall
<1>2. 1 \in 1..Len(netCmd) /\ Head(netCmd) = netCmd[1] /\ Head(netCmd) \in AnyCommand
  BY <1>1, HeadElement
<1>3. Head(netCmd).hash \in Hashes
  BY <1>2 DEF AnyCommand, AddCommand
<1>4. Pending(Head(netCmd).hash)
  BY <1>2 DEF Pending
<1>5. netCmd' \in Seq(AnyCommand)
  BY <1>1, HeadTailProperties
<1>6. \A i \in 1..Len(netCmd') : \E j \in 1..Len(netCmd) : netCmd'[i] = netCmd[j]
  BY <1>1, TailElement
<1> QED
  BY <1>2, <1>3, <1>4, <1>5, <1>6 DEF NetCall

\* What the network thread does about h, of which it posts alerts, concerns no
\* removed torrent.
LEMMA NetTyped ==
  ASSUME StoreInv, NEW h \in Hashes, h \notin removed, NetFrame,
         session' \in [Hashes -> {"absent", "magnet", "full"}],
         \A g \in Hashes \ {h} : session'[g] = session[g],
         dirty' \subseteq Hashes,
         netCmd' \in Seq(AnyCommand),
         \A i \in 1..Len(netCmd') : \E j \in 1..Len(netCmd) : netCmd'[i] = netCmd[j],
         ioQueue' \in Seq(AnyAlert),
         \A i \in 1..Len(ioQueue') :
            ioQueue'[i].hash = h \/ \E j \in 1..Len(ioQueue) : ioQueue'[i] = ioQueue[j]
  PROVE  StoreInv'
<1>1. TypeOK /\ RemovedInv
  BY DEF StoreInv
<1>2. TypeOK'
  BY <1>1 DEF NetFrame, history, TypeOK
<1>3. removed' = removed /\ ops' = ops /\ disk' = disk
  BY DEF NetFrame, history
<1>4. removed \subseteq Hashes
  BY <1>1 DEF TypeOK
<1>5. ASSUME NEW g \in removed' PROVE session'[g] = "absent" /\ ~Pending(g)'
  <2>1. g \in removed /\ g \in Hashes /\ g # h
    BY <1>3, <1>4
  <2>2. session'[g] = "absent"
    BY <1>1, <2>1 DEF RemovedInv
  <2>3. ~Pending(g)
    BY <1>1, <2>1 DEF RemovedInv
  <2>4. ~ \E i \in 1..Len(netCmd') : netCmd'[i].hash = g
    BY <2>3 DEF Pending
  <2>5. ~ \E i \in 1..Len(ioQueue') : ioQueue'[i].hash = g
    BY <2>1, <2>3 DEF Pending
  <2> QED
    BY <2>2, <2>4, <2>5 DEF Pending
<1> QED
  BY <1>2, <1>3, <1>5, SameOps

\* The steps of the network thread.
LEMMA NetStepInv ==
  ASSUME StoreInv,
         NetAdd \/ NetRefuse \/ NetRemove \/ \E h \in Hashes : NetMetadata(h) \/ Touch(h)
  PROVE  StoreInv'
<1>0. TypeOK /\ RemovedInv
  BY DEF StoreInv
<1> DEFINE Free(h) == h \notin removed
           ShapedBy(h) ==
             /\ ioQueue' \in Seq(AnyAlert)
             /\ \A i \in 1..Len(ioQueue') :
                  ioQueue'[i].hash = h \/ \E j \in 1..Len(ioQueue) : ioQueue'[i] = ioQueue[j]
<1>1. CASE NetAdd
  <2> DEFINE c == Head(netCmd)
             h == c.hash
             answer == [kind |-> "add", hash |-> h, options |-> c.options]
  <2>1. /\ c \in AnyCommand /\ c.op = "add" /\ h \in Hashes /\ Pending(h)
        /\ netCmd' \in Seq(AnyCommand)
        /\ \A i \in 1..Len(netCmd') : \E j \in 1..Len(netCmd) : netCmd'[i] = netCmd[j]
    BY <1>0, <1>1, NetCallFacts DEF NetAdd
  <2>2. c \in AddCommand
    BY <2>1 DEF AnyCommand
  <2>3. answer \in AnyAlert /\ Alert("added", h) \in AnyAlert
    BY <2>1, <2>2 DEF AnyAlert, Alert, AddCommand
  <2>4. answer.hash = h /\ Alert("added", h).hash = h
    BY DEF Alert
  <2>5. Free(h)
    BY <1>0, <2>1 DEF RemovedInv
  <2>6. /\ session' \in [Hashes -> {"absent", "magnet", "full"}] /\ dirty' \subseteq Hashes
        /\ \A g \in Hashes \ {h} : session'[g] = session[g]
    <3>1. CASE session[h] = "absent"
      <4>1. session' = [session EXCEPT ![h] = c.info] /\ c.info \in {"full", "magnet"}
        BY <1>1, <2>2, <3>1 DEF NetAdd, AddCommand
      <4>2. dirty' = dirty \/ dirty' = dirty \cup {h}
        BY <1>1, <3>1 DEF NetAdd
      <4> QED
        BY <1>0, <2>1, <4>1, <4>2 DEF TypeOK
    <3>2. CASE session[h] # "absent"
      BY <1>0, <1>1, <3>2 DEF NetAdd, TypeOK
    <3> QED
      BY <3>1, <3>2
  <2>7. ShapedBy(h)
    <3> HIDE DEF answer
    <3>1. ASSUME NEW alerts \in Seq(AnyAlert), Post(alerts),
                 \A j \in 1..Len(alerts) : alerts[j].hash = h
          PROVE  ShapedBy(h)
      <4>1. /\ ioQueue' \in Seq(AnyAlert)
            /\ \A i \in 1..Len(ioQueue') :
                 \/ \E j \in 1..Len(ioQueue) : ioQueue'[i] = ioQueue[j]
                 \/ \E j \in 1..Len(alerts) : ioQueue'[i] = alerts[j]
        BY <1>0, <3>1, PostShape
      <4> QED
        BY <3>1, <4>1
    <3>2. CASE session[h] = "absent"
      <4>1. Post(<<Alert("added", h), answer>>)
        BY <1>1, <3>2 DEF NetAdd, answer
      <4>2. /\ <<Alert("added", h), answer>> \in Seq(AnyAlert)
            /\ \A j \in 1..Len(<<Alert("added", h), answer>>) :
                 <<Alert("added", h), answer>>[j].hash = h
        BY <2>3, <2>4
      <4> QED
        BY <3>1, <4>1, <4>2
    <3>3. CASE session[h] # "absent"
      <4>1. Post(<<answer>>)
        BY <1>1, <3>3 DEF NetAdd, answer
      <4>2. /\ <<answer>> \in Seq(AnyAlert)
            /\ \A j \in 1..Len(<<answer>>) : <<answer>>[j].hash = h
        BY <2>3, <2>4
      <4> QED
        BY <3>1, <4>1, <4>2
    <3> QED
      BY <3>2, <3>3
  <2>8. NetFrame
    BY <1>1 DEF NetAdd
  <2> QED
    BY <2>1, <2>5, <2>6, <2>7, <2>8, NetTyped
<1>2. ASSUME NEW h \in Hashes, NEW kind \in {"added", "removed", "metadata"},
             Post(<<Alert(kind, h)>>)
      PROVE  ShapedBy(h)
  <2>1. Alert(kind, h) \in AnyAlert /\ Alert(kind, h).hash = h
    BY DEF AnyAlert, Alert
  <2>2. /\ <<Alert(kind, h)>> \in Seq(AnyAlert)
        /\ \A j \in 1..Len(<<Alert(kind, h)>>) : <<Alert(kind, h)>>[j].hash = h
    BY <2>1
  <2>3. /\ ioQueue' \in Seq(AnyAlert)
        /\ \A i \in 1..Len(ioQueue') :
             \/ \E j \in 1..Len(ioQueue) : ioQueue'[i] = ioQueue[j]
             \/ \E j \in 1..Len(<<Alert(kind, h)>>) : ioQueue'[i] = <<Alert(kind, h)>>[j]
    BY <1>0, <1>2, <2>2, PostShape
  <2> QED
    BY <2>2, <2>3
<1>3. CASE NetRemove
  <2> DEFINE h == Head(netCmd).hash
  <2>1. /\ h \in Hashes /\ Pending(h)
        /\ netCmd' \in Seq(AnyCommand)
        /\ \A i \in 1..Len(netCmd') : \E j \in 1..Len(netCmd) : netCmd'[i] = netCmd[j]
    BY <1>0, <1>3, NetCallFacts DEF NetRemove
  <2>2. session' = [session EXCEPT ![h] = "absent"] /\ dirty' = dirty \ {h} /\ NetFrame
    BY <1>3 DEF NetRemove
  <2>3. ShapedBy(h)
    BY <1>2, <1>3, <2>1 DEF NetRemove
  <2>4. Free(h)
    BY <1>0, <2>1 DEF RemovedInv
  <2>5. /\ session' \in [Hashes -> {"absent", "magnet", "full"}] /\ dirty' \subseteq Hashes
        /\ \A g \in Hashes \ {h} : session'[g] = session[g]
    BY <1>0, <2>1, <2>2 DEF TypeOK
  <2> QED
    BY <2>1, <2>2, <2>3, <2>4, <2>5, NetTyped
<1>4. ASSUME NEW h \in Hashes, NetMetadata(h) PROVE StoreInv'
  <2>1. ShapedBy(h)
    BY <1>2, <1>4 DEF NetMetadata
  <2>2. Free(h)
    BY <1>0, <1>4 DEF NetMetadata, RemovedInv
  <2>3. /\ session' \in [Hashes -> {"absent", "magnet", "full"}] /\ dirty' \subseteq Hashes
        /\ \A g \in Hashes \ {h} : session'[g] = session[g]
    BY <1>0, <1>4 DEF NetMetadata, TypeOK
  <2>4. /\ netCmd' \in Seq(AnyCommand)
        /\ \A i \in 1..Len(netCmd') : \E j \in 1..Len(netCmd) : netCmd'[i] = netCmd[j]
    BY <1>0, <1>4 DEF NetMetadata, TypeOK
  <2>5. NetFrame
    BY <1>4 DEF NetMetadata
  <2> QED
    BY <2>1, <2>2, <2>3, <2>4, <2>5, NetTyped
<1>5. ASSUME NEW h \in Hashes, Touch(h) PROVE StoreInv'
  <2>1. TypeOK'
    BY <1>0, <1>5 DEF Touch, NetFrame, history, TypeOK
  <2>2. \A g \in removed' : session'[g] = "absent" /\ ~Pending(g)'
    BY <1>0, <1>5 DEF Touch, NetFrame, history, RemovedInv, Pending
  <2> QED
    BY <1>5, <2>1, <2>2, SameOps DEF Touch, NetFrame, history
<1>6. CASE NetRefuse
  <2>1. /\ netCmd' \in Seq(AnyCommand)
        /\ \A i \in 1..Len(netCmd') : \E j \in 1..Len(netCmd) : netCmd'[i] = netCmd[j]
    BY <1>0, <1>6, NetCallFacts DEF NetRefuse
  <2>2. /\ UNCHANGED <<phase, session, dirty, ioQueue, options, ops, todo, disk, commands>>
        /\ removed' = removed /\ wanted' = wanted /\ readded' = readded
        /\ loadOk' \in BOOLEAN
    BY <1>0, <1>6 DEF NetRefuse, history, TypeOK
  <2>3. TypeOK'
    BY <1>0, <2>1, <2>2 DEF TypeOK
  <2>4. \A g \in removed' : session'[g] = "absent" /\ ~Pending(g)'
    BY <1>0, <2>1, <2>2 DEF RemovedInv, Pending
  <2> QED
    BY <2>2, <2>3, <2>4, SameOps
<1> QED
  BY <1>1, <1>3, <1>4, <1>5, <1>6

\* A handler's alert was of no removed torrent, and taking it makes none pending.
LEMMA HandleFree ==
  ASSUME StoreInv, NEW kind, Handle(kind)
  PROVE  Head(ioQueue).hash \notin removed /\ \A g \in removed : ~Pending(g)'
<1>1. TypeOK /\ RemovedInv
  BY DEF StoreInv
<1>2. /\ Pending(Head(ioQueue).hash)
      /\ \A i \in 1..Len(ioQueue') : \E j \in 1..Len(ioQueue) : ioQueue'[i] = ioQueue[j]
  BY <1>1, HandleFacts
<1>3. netCmd' = netCmd
  BY DEF Handle
<1>4. Head(ioQueue).hash \notin removed
  BY <1>1, <1>2 DEF RemovedInv
<1>5. ASSUME NEW g \in removed PROVE ~Pending(g)'
  <2>1. ~Pending(g)
    BY <1>1 DEF RemovedInv
  <2>2. ~ \E i \in 1..Len(netCmd') : netCmd'[i].hash = g
    BY <1>3, <2>1 DEF Pending
  <2>3. ~ \E i \in 1..Len(ioQueue') : ioQueue'[i].hash = g
    BY <1>2, <2>1 DEF Pending
  <2> QED
    BY <2>2, <2>3 DEF Pending
<1> QED
  BY <1>4, <1>5

\* The handlers of torrent.added and torrent.metadataReceived.
LEMMA SaveStep ==
  ASSUME StoreInv, HandleAdded \/ HandleMetadata
  PROVE  StoreInv'
<1>0. TypeOK
  BY DEF StoreInv
<1> DEFINE h == Head(ioQueue).hash
<1>1. PICK kind \in {"added", "metadata"} : Handle(kind)
  BY DEF HandleAdded, HandleMetadata
<1>2. SaveTorrent(h) /\ options' = options
  BY DEF HandleAdded, HandleMetadata
<1>3. h \in Hashes /\ ioQueue' \in Seq(AnyAlert)
  BY <1>0, <1>1, HandleFacts
<1>4. h \notin removed /\ \A g \in removed : ~Pending(g)'
  BY <1>1, HandleFree
<1>5. /\ UNCHANGED <<phase, session, dirty, netCmd, todo, disk, loadOk, commands>>
      /\ removed' = removed /\ wanted' = wanted /\ readded' = readded
  BY <1>1 DEF Handle, history
<1>6. CASE ops' = <<>>
  <2>1. TypeOK'
    BY <1>0, <1>2, <1>3, <1>5, <1>6, EmptySeq DEF TypeOK
  <2>2. \A g \in removed' : session'[g] = "absent" /\ ~Pending(g)'
    BY <1>4, <1>5 DEF StoreInv, RemovedInv
  <2> QED
    BY <1>5, <1>6, <2>1, <2>2, SameOps
<1>7. CASE ops' = Write(h, "torrent", "whole") /\ disk[h]["torrent"] = "none"
  <2>1. /\ ops' \in Seq(FileOp) /\ Len(ops') = 2
        /\ ops'[1] = [hash |-> h, kind |-> "torrent", to |-> "torn"]
        /\ ops'[2] = [hash |-> h, kind |-> "torrent", to |-> "whole"]
    <3>1. "torrent" \in Kinds /\ "whole" \in Content
      BY DEF Kinds, Content
    <3> QED
      BY <1>3, <1>7, <3>1, WriteShape
  <2>2. TypeOK'
    BY <1>0, <1>2, <1>3, <1>5, <2>1 DEF TypeOK
  <2>3. \A i \in 1..Len(ops') : i = 1 \/ i = 2
    BY <2>1
  <2>4. /\ \A i \in 1..Len(ops') : ops'[i].hash = h /\ ops'[i].kind = "torrent"
        /\ \A i \in 1..Len(ops') : ops'[i].to # "none"
        /\ \A i \in 1..Len(ops') : ops'[i].to = "torn" => i = 1
    BY <2>1, <2>3
  <2>5. MetadataInv' /\ FreshInv' /\ DeleteInv' /\ RemovedInv'
    BY <1>3, <1>4, <1>5, <1>7, <2>1, <2>4, NewOps
  <2> QED
    BY <2>2, <2>5 DEF StoreInv
<1> QED
  BY <1>2, <1>3, <1>6, <1>7, SaveShape

\* The handler of torrent.add.
LEMMA AssignStep ==
  ASSUME StoreInv, HandleAdd
  PROVE  StoreInv'
<1>0. TypeOK
  BY DEF StoreInv
<1> DEFINE a == Head(ioQueue)
           given == IF a.options = "none" THEN "default" ELSE a.options
<1>1. Handle("add")
  BY DEF HandleAdd
<1>2. a \in AnyAlert /\ a.kind = "add" /\ a.hash \in Hashes /\ ioQueue' \in Seq(AnyAlert)
  BY <1>0, <1>1, HandleFacts
<1>3. a \in [kind : {"add"}, hash : Hashes, options : Given \cup {"none"}]
  BY <1>2 DEF AnyAlert
<1>4. given \in Given
  BY <1>3 DEF Given
<1>5. options' = [options EXCEPT ![a.hash] = given] \/ options' = options
  BY DEF HandleAdd
<1>6. options' \in [Hashes -> Given \cup {"none"}]
  BY <1>0, <1>2, <1>4, <1>5 DEF TypeOK
<1>7. ops' = ops /\ UNCHANGED <<phase, session, dirty, netCmd, todo, disk, loadOk, commands>>
      /\ removed' = removed /\ wanted' = wanted /\ readded' = readded
  BY <1>1 DEF HandleAdd, Handle, history
<1>8. TypeOK'
  BY <1>0, <1>2, <1>6, <1>7 DEF TypeOK
<1>9. \A g \in removed' : session'[g] = "absent" /\ ~Pending(g)'
  BY <1>1, <1>7, HandleFree DEF StoreInv, RemovedInv
<1> QED
  BY <1>7, <1>8, <1>9, SameOps

\* File operations that all delete files of h.
Deletions(h, s) == s \in Seq(FileOp) /\ \A i \in 1..Len(s) : s[i].hash = h /\ s[i].to = "none"

\* Delete deletes.
LEMMA DeleteElements ==
  ASSUME NEW h \in Hashes, NEW kind \in Kinds
  PROVE  Deletions(h, Delete(h, kind))
<1>1. /\ Delete(h, kind) \in Seq(FileOp)
      /\ \A i \in 1..Len(Delete(h, kind)) :
           Delete(h, kind)[i] = [hash |-> h, kind |-> kind, to |-> "none"]
  BY DeleteShape
<1>2. ASSUME NEW x, x = [hash |-> h, kind |-> kind, to |-> "none"]
      PROVE  x.hash = h /\ x.to = "none"
  BY <1>2
<1>3. \A i \in 1..Len(Delete(h, kind)) : Delete(h, kind)[i].hash = h /\ Delete(h, kind)[i].to = "none"
  BY <1>1, <1>2
<1> QED
  BY <1>1, <1>3 DEF Deletions

\* Deletions one after the other are deletions.
LEMMA DeletionsConcat ==
  ASSUME NEW h, NEW s, NEW t, Deletions(h, s), Deletions(h, t)
  PROVE  Deletions(h, s \o t)
<1>1. s \in Seq(FileOp) /\ t \in Seq(FileOp)
  BY DEF Deletions
<1>2. s \o t \in Seq(FileOp)
  BY <1>1, ConcatProperties
<1>3. ASSUME NEW i \in 1..Len(s \o t) PROVE (s \o t)[i].hash = h /\ (s \o t)[i].to = "none"
  <2>1. \/ \E j \in 1..Len(s) : (s \o t)[i] = s[j]
        \/ \E j \in 1..Len(t) : (s \o t)[i] = t[j]
    BY <1>1, ConcatElement
  <2> QED
    BY <2>1 DEF Deletions
<1> QED
  BY <1>2, <1>3 DEF Deletions

\* The operations of the handler of torrent.removed are deletions of h's files, the
\* .torrent first when there is one.
LEMMA DeletionsShape ==
  ASSUME NEW h \in Hashes,
         ops' = Delete(h, "torrent") \o Delete(h, "resume") \o Delete(h, "metadata")
  PROVE  /\ Deletions(h, ops')
         /\ disk[h]["torrent"] = "none" \/ (Len(ops') >= 1 /\ ops'[1] = DeleteTorrent(h))
<1> DEFINE t == Delete(h, "torrent")
           r == Delete(h, "resume")
           m == Delete(h, "metadata")
<1>1. "torrent" \in Kinds /\ "resume" \in Kinds /\ "metadata" \in Kinds
  BY DEF Kinds
<1>2. Deletions(h, t) /\ Deletions(h, r) /\ Deletions(h, m)
  BY <1>1, DeleteElements
<1>3. disk[h]["torrent"] # "none" => t = <<DeleteTorrent(h)>>
  BY <1>1, DeleteShape DEF DeleteTorrent
<1>4. ops' = (t \o r) \o m
  OBVIOUS
<1> HIDE DEF t, r, m
<1>5. Deletions(h, ops')
  BY <1>2, <1>4, DeletionsConcat
<1>6. ASSUME disk[h]["torrent"] # "none" PROVE Len(ops') >= 1 /\ ops'[1] = DeleteTorrent(h)
  <2>1. Len(t) = 1 /\ t[1] = DeleteTorrent(h)
    BY <1>3, <1>6
  <2>2. t \in Seq(FileOp) /\ r \in Seq(FileOp) /\ m \in Seq(FileOp)
    BY <1>2 DEF Deletions
  <2>3. Len(t) >= 1
    BY <2>1
  <2>4. t \o r \in Seq(FileOp) /\ Len(t \o r) >= 1 /\ (t \o r)[1] = t[1]
    BY ONLY <2>2, <2>3, ConcatHead
  <2>5. Len((t \o r) \o m) >= 1 /\ ((t \o r) \o m)[1] = (t \o r)[1]
    BY <2>2, <2>4, ConcatHead
  <2> QED
    BY <1>4, <2>1, <2>4, <2>5
<1> QED
  BY <1>5, <1>6

\* The handler of torrent.removed.
LEMMA RemoveStep ==
  ASSUME StoreInv, HandleRemoved
  PROVE  StoreInv'
<1>0. TypeOK
  BY DEF StoreInv
<1> DEFINE h == Head(ioQueue).hash
<1>1. Handle("removed") /\ options' = options
  BY DEF HandleRemoved
<1>2. ops' = Delete(h, "torrent") \o Delete(h, "resume") \o Delete(h, "metadata")
  BY DEF HandleRemoved
<1>3. h \in Hashes /\ ioQueue' \in Seq(AnyAlert)
  BY <1>0, <1>1, HandleFacts
<1>4. h \notin removed /\ \A g \in removed : ~Pending(g)'
  BY <1>1, HandleFree
<1>5. /\ UNCHANGED <<phase, session, dirty, netCmd, todo, disk, loadOk, commands>>
      /\ removed' = removed /\ wanted' = wanted /\ readded' = readded
  BY <1>1 DEF Handle, history
<1> HIDE DEF h
<1>6. /\ ops' \in Seq(FileOp)
      /\ \A i \in 1..Len(ops') : ops'[i].hash = h /\ ops'[i].to = "none"
      /\ disk[h]["torrent"] = "none" \/ ops'[1] = DeleteTorrent(h)
  BY <1>2, <1>3, DeletionsShape DEF Deletions
<1>7. TypeOK'
  BY <1>0, <1>1, <1>3, <1>5, <1>6 DEF TypeOK
<1>8. MetadataInv' /\ FreshInv' /\ DeleteInv' /\ RemovedInv'
  BY <1>3, <1>4, <1>5, <1>6, NewOps
<1> QED
  BY <1>7, <1>8 DEF StoreInv

\* What a file operation does to the files, and what is left to do.
LEMMA DoOpFacts ==
  ASSUME TypeOK, DoOp
  PROVE  /\ 1 \in 1..Len(ops) /\ ops[1] \in FileOp
         /\ ops' \in Seq(FileOp)
         /\ \A i \in 1..Len(ops') :
              i + 1 \in 1..Len(ops) /\ i + 1 # 1 /\ ops'[i] = ops[i + 1] /\ ops'[i] \in FileOp
         /\ disk' \in [Hashes -> [Kinds -> Content]]
         /\ \A h \in Hashes, k \in Kinds :
              disk'[h][k] = IF h = ops[1].hash /\ k = ops[1].kind THEN ops[1].to ELSE disk[h][k]
<1>1. ops \in Seq(FileOp) /\ ops # <<>> /\ ops' = Tail(ops)
  BY DEF TypeOK, DoOp
<1>2. 1 \in 1..Len(ops) /\ Head(ops) = ops[1] /\ ops[1] \in FileOp
  BY <1>1, HeadElement
<1>3. ops' \in Seq(FileOp)
  BY <1>1, HeadTailProperties
<1>4. ASSUME NEW i \in 1..Len(ops')
      PROVE  i + 1 \in 1..Len(ops) /\ i + 1 # 1 /\ ops'[i] = ops[i + 1] /\ ops'[i] \in FileOp
  <2>1. i + 1 \in 1..Len(ops) /\ i + 1 # 1 /\ ops'[i] = ops[i + 1]
    BY <1>1, TailElement
  <2>2. ops'[i] \in FileOp
    BY <1>3, ElementOfSeq
  <2> QED
    BY <2>1, <2>2
<1>5. disk' = [disk EXCEPT ![ops[1].hash][ops[1].kind] = ops[1].to]
  BY <1>2 DEF DoOp
<1>6. disk \in [Hashes -> [Kinds -> Content]]
  BY DEF TypeOK
<1>7. ops[1].hash \in Hashes /\ ops[1].kind \in Kinds /\ ops[1].to \in Content
  BY <1>2 DEF FileOp
<1>8. disk' \in [Hashes -> [Kinds -> Content]]
  BY <1>5, <1>6, <1>7
<1>9. \A h \in Hashes, k \in Kinds :
        disk'[h][k] = IF h = ops[1].hash /\ k = ops[1].kind THEN ops[1].to ELSE disk[h][k]
  BY <1>5, <1>6, <1>7
<1> QED
  BY <1>2, <1>3, <1>4, <1>8, <1>9

\* A file operation.
LEMMA DoOpStep ==
  ASSUME StoreInv, DoOp
  PROVE  StoreInv'
<1> DEFINE o == ops[1]
<1>0. TypeOK /\ MetadataInv /\ FreshInv /\ DeleteInv /\ RemovedInv
  BY DEF StoreInv
<1>1. /\ 1 \in 1..Len(ops) /\ o \in FileOp
      /\ ops' \in Seq(FileOp)
      /\ \A i \in 1..Len(ops') :
           i + 1 \in 1..Len(ops) /\ i + 1 # 1 /\ ops'[i] = ops[i + 1] /\ ops'[i] \in FileOp
      /\ disk' \in [Hashes -> [Kinds -> Content]]
      /\ \A h \in Hashes, k \in Kinds :
           disk'[h][k] = IF h = o.hash /\ k = o.kind THEN o.to ELSE disk[h][k]
  BY <1>0, DoOpFacts
<1>2. /\ UNCHANGED <<phase, session, dirty, netCmd, ioQueue, options, todo, loadOk, commands,
                     wanted, readded>>
      /\ \/ removed' = removed
         \/ /\ o.to = "none" /\ session[o.hash] = "absent" /\ ~Pending(o.hash)
            /\ removed' = removed \cup {o.hash}
  <2>1. Head(ops) = o
    BY <1>0, HeadElement DEF TypeOK, DoOp
  <2> QED
    BY <2>1 DEF DoOp
<1> HIDE DEF o
<1>3. o.hash \in Hashes /\ o.kind \in Kinds /\ o.to \in Content
  BY <1>1 DEF FileOp
<1>4. \A i \in 1..Len(ops') : ops'[i].hash \in Hashes
  BY <1>1 DEF FileOp
<1>5. "torrent" \in Kinds /\ "metadata" \in Kinds
  BY DEF Kinds
<1>6. o.to = "none" =>
        /\ disk'[o.hash]["torrent"] = "none"
        /\ \A i \in 1..Len(ops) : ops[i].to = "none"
  <2>1. SUFFICES ASSUME o.to = "none"
                 PROVE  /\ disk'[o.hash]["torrent"] = "none"
                        /\ \A i \in 1..Len(ops) : ops[i].to = "none"
    OBVIOUS
  <2>2. /\ disk[o.hash]["torrent"] = "none" \/ o = DeleteTorrent(o.hash)
        /\ \A i \in 1..Len(ops) : ops[i].to = "none"
    BY <1>0, <1>1, <2>1 DEF DeleteInv, o
  <2>3. o = DeleteTorrent(o.hash) => o.kind = "torrent"
    BY DEF DeleteTorrent
  <2> QED
    BY <1>1, <1>3, <1>5, <2>1, <2>2, <2>3
<1>7. TypeOK'
  <2>1. removed' \subseteq Hashes
    BY <1>0, <1>2, <1>3 DEF TypeOK
  <2> QED
    BY <1>0, <1>1, <1>2, <2>1 DEF TypeOK
<1>8. MetadataInv'
  <2>1. o.kind = "metadata" => o.to # "whole"
    BY <1>0, <1>1 DEF MetadataInv, o
  <2>2. \A h \in Hashes : disk'[h]["metadata"] # "whole"
    BY <1>0, <1>1, <1>5, <2>1 DEF MetadataInv
  <2>3. \A i \in 1..Len(ops') : ops'[i].kind = "metadata" => ops'[i].to # "whole"
    BY <1>0, <1>1 DEF MetadataInv
  <2> QED
    BY <2>2, <2>3 DEF MetadataInv
<1>9. FreshInv'
  <2>1. SUFFICES ASSUME NEW i \in 1..Len(ops'), ops'[i].kind = "torrent", ops'[i].to = "torn"
                 PROVE  FALSE
    BY DEF FreshInv
  <2>2. i + 1 \in 1..Len(ops) /\ i + 1 # 1 /\ ops'[i] = ops[i + 1]
    BY <1>1
  <2>3. \A k \in 1..Len(ops) : ops[k].kind = "torrent" /\ ops[k].to = "torn" => k = 1
    BY <1>0 DEF FreshInv
  <2> QED
    BY ONLY <2>1, <2>2, <2>3
<1>10. DeleteInv'
  <2>1. SUFFICES ASSUME NEW i \in 1..Len(ops'), ops'[i].to = "none"
                 PROVE  /\ disk'[ops'[i].hash]["torrent"] = "none"
                        /\ \A j \in 1..Len(ops') : ops'[j].to = "none"
    BY DEF DeleteInv
  <2>2. i + 1 \in 1..Len(ops) /\ ops'[i] = ops[i + 1] /\ ops[i + 1].to = "none"
    BY <1>1, <2>1
  <2>3. /\ disk[ops'[i].hash]["torrent"] = "none" \/ o = DeleteTorrent(ops'[i].hash)
        /\ \A j \in 1..Len(ops) : ops[j].to = "none"
    BY <1>0, <2>2 DEF DeleteInv, o
  <2>4. o.to = "none"
    BY <1>1, <2>3 DEF o
  <2>5. o = DeleteTorrent(ops'[i].hash) => o.hash = ops'[i].hash /\ o.kind = "torrent"
    BY DEF DeleteTorrent
  <2>6. disk'[ops'[i].hash]["torrent"] = "none"
    BY <1>1, <1>4, <1>5, <2>3, <2>4, <2>5
  <2>7. \A j \in 1..Len(ops') : ops'[j].to = "none"
    BY <1>1, <2>3
  <2> QED
    BY <2>6, <2>7
<1>11. ASSUME NEW g \in removed, g \in Hashes
       PROVE  /\ disk'[g]["torrent"] = "none"
              /\ \A i \in 1..Len(ops') :
                   ops'[i].hash = g /\ ops'[i].kind = "torrent" => ops'[i].to = "none"
  <2>1. o.hash = g /\ o.kind = "torrent" => o.to = "none"
    BY <1>0, <1>1 DEF RemovedInv, o
  <2>2. disk[g]["torrent"] = "none"
    BY <1>0 DEF RemovedInv
  <2>3. disk'[g]["torrent"] = "none"
    BY <1>1, <1>5, <1>11, <2>1, <2>2
  <2>4. \A i \in 1..Len(ops') :
          ops'[i].hash = g /\ ops'[i].kind = "torrent" => ops'[i].to = "none"
    BY <1>0, <1>1 DEF RemovedInv
  <2> QED
    BY <2>3, <2>4
<1>12. RemovedInv'
  <2>1. SUFFICES ASSUME NEW g \in removed'
                 PROVE  /\ session[g] = "absent" /\ disk'[g]["torrent"] = "none"
                        /\ ~Pending(g)
                        /\ \A i \in 1..Len(ops') :
                             ops'[i].hash = g /\ ops'[i].kind = "torrent" => ops'[i].to = "none"
    BY <1>2 DEF RemovedInv, Pending
  <2>2. CASE g \in removed
    <3>1. g \in Hashes
      BY <1>0, <2>2 DEF TypeOK
    <3>2. session[g] = "absent" /\ ~Pending(g)
      BY <1>0, <2>2 DEF RemovedInv
    <3> QED
      BY <1>11, <2>2, <3>1, <3>2
  <2>3. CASE g \notin removed
    <3>1. g = o.hash /\ o.to = "none" /\ session[g] = "absent" /\ ~Pending(g)
      BY <1>2, <2>3
    <3>2. disk'[g]["torrent"] = "none" /\ \A i \in 1..Len(ops) : ops[i].to = "none"
      BY <1>6, <3>1
    <3>3. \A i \in 1..Len(ops') : ops'[i].to = "none"
      BY <1>1, <3>2
    <3> QED
      BY <3>1, <3>2, <3>3
  <2> QED
    BY <2>2, <2>3
<1> QED
  BY <1>7, <1>8, <1>9, <1>10, <1>12 DEF StoreInv

\* The end of io_->run() and the request for resume data.
LEMMA StopStep ==
  ASSUME StoreInv, Stop \/ AskSaves
  PROVE  StoreInv'
<1>1. TypeOK /\ RemovedInv
  BY DEF StoreInv
<1>2. ops' = ops /\ disk' = disk /\ removed' = removed /\ session' = session /\ netCmd' = netCmd
  BY DEF Stop, AskSaves, history
<1>3. ioQueue' = ioQueue \/ ioQueue' = <<>>
  BY DEF Stop, AskSaves
<1>4. TypeOK'
  <2>1. ioQueue' \in Seq(AnyAlert)
    BY <1>1, <1>3, EmptySeq DEF TypeOK
  <2>2. todo' \subseteq Hashes
    BY <1>1 DEF Stop, AskSaves, Full, TypeOK
  <2> QED
    BY <1>1, <2>1, <2>2 DEF Stop, AskSaves, history, TypeOK
<1>5. \A g \in removed' : session'[g] = "absent" /\ ~Pending(g)'
  <2>1. ioQueue' = <<>> => 1..Len(ioQueue') = {}
    <3>1. ioQueue' = <<>> => Len(ioQueue') = 0
      BY EmptySeq
    <3> QED
      BY <3>1
  <2> QED
    BY <1>1, <1>2, <1>3, <2>1 DEF RemovedInv, Pending
<1> QED
  BY <1>2, <1>4, <1>5, SameOps

\* What saveTorrents has to write for h: .metadata and .resume, never .torrent.
Saves(s) == s \in Seq(FileOp) /\ \A i \in 1..Len(s) :
  s[i].kind # "torrent" /\ s[i].to # "none" /\ (s[i].kind = "metadata" => s[i].to # "whole")

\* Writing a .metadata with options, or a .resume.
LEMMA SavesWrite ==
  ASSUME NEW h \in Hashes, NEW kind \in Kinds \ {"torrent"}, NEW content \in Content \ {"none"},
         kind = "metadata" => content # "whole"
  PROVE  Saves(Write(h, kind, content))
<1>1. /\ Write(h, kind, content) \in Seq(FileOp)
      /\ Len(Write(h, kind, content)) = 2
      /\ Write(h, kind, content)[1] = [hash |-> h, kind |-> kind, to |-> "torn"]
      /\ Write(h, kind, content)[2] = [hash |-> h, kind |-> kind, to |-> content]
  BY WriteShape
<1>2. \A i \in 1..Len(Write(h, kind, content)) : i = 1 \/ i = 2
  BY <1>1
<1> QED
  BY <1>1, <1>2 DEF Saves

\* One after the other.
LEMMA SavesConcat ==
  ASSUME NEW s, NEW t, Saves(s), Saves(t)
  PROVE  Saves(s \o t)
<1>1. s \in Seq(FileOp) /\ t \in Seq(FileOp)
  BY DEF Saves
<1>2. s \o t \in Seq(FileOp)
  BY <1>1, ConcatProperties
<1>3. ASSUME NEW i \in 1..Len(s \o t)
      PROVE  /\ (s \o t)[i].kind # "torrent" /\ (s \o t)[i].to # "none"
             /\ (s \o t)[i].kind = "metadata" => (s \o t)[i].to # "whole"
  <2>1. \/ \E j \in 1..Len(s) : (s \o t)[i] = s[j]
        \/ \E j \in 1..Len(t) : (s \o t)[i] = t[j]
    BY <1>1, ConcatElement
  <2> QED
    BY <2>1 DEF Saves
<1> QED
  BY <1>2, <1>3 DEF Saves

\* What the answer for h is written with: nothing, or the metadata and the resume data.
LEMMA AnswerSaves ==
  ASSUME TypeOK, NEW h \in Hashes, SaveAnswer(h), ops' # ops
  PROVE  Saves(ops')
<1> DEFINE meta == IF options[h] = "none" THEN <<>> ELSE Write(h, "metadata", options[h])
           resume == Write(h, "resume", "whole")
<1>1. Saves(resume)
  <2>1. "resume" \in Kinds \ {"torrent"} /\ "whole" \in Content \ {"none"}
    BY DEF Kinds, Content
  <2> QED
    BY <2>1, SavesWrite
<1>2. Saves(meta)
  <2>1. CASE options[h] = "none"
    <3>1. meta = <<>>
      BY <2>1
    <3>2. meta \in Seq(FileOp) /\ Len(meta) = 0
      BY <3>1, EmptySeq
    <3>3. 1..Len(meta) = {}
      BY <3>2
    <3> QED
      BY <3>2, <3>3 DEF Saves
  <2>2. CASE options[h] # "none"
    <3>1. options[h] \in Given
      BY <2>2 DEF TypeOK
    <3>2. options[h] \in Content \ {"none"} /\ options[h] # "whole"
      BY <2>2, <3>1, NamesAssumption DEF Content, Given
    <3>3. "metadata" \in Kinds \ {"torrent"}
      BY DEF Kinds
    <3> QED
      BY <2>2, <3>2, <3>3, SavesWrite
  <2> QED
    BY <2>1, <2>2
<1>3. ops' = meta \o resume
  BY DEF SaveAnswer
<1> HIDE DEF meta, resume
<1> QED
  BY <1>1, <1>2, <1>3, SavesConcat

\* An answer to saveTorrents.
LEMMA SaveAnswerStep ==
  ASSUME StoreInv, NEW h \in Hashes, SaveAnswer(h)
  PROVE  StoreInv'
<1>1. TypeOK /\ MetadataInv /\ RemovedInv
  BY DEF StoreInv
<1>2. UNCHANGED <<phase, session, dirty, netCmd, ioQueue, options, disk, loadOk, commands,
                  removed, readded>>
  BY DEF SaveAnswer
<1>3. todo' \subseteq Hashes /\ wanted' \in [Hashes -> Options \cup {"none"}]
  BY <1>1 DEF SaveAnswer, TypeOK
<1>4. \A g \in removed' : session'[g] = "absent" /\ ~Pending(g)'
  BY <1>1, <1>2 DEF RemovedInv, Pending
<1>5. CASE ops' = ops
  <2>1. TypeOK'
    BY <1>1, <1>2, <1>3, <1>5 DEF TypeOK
  <2> QED
    BY <1>2, <1>4, <1>5, <2>1, SameOps
<1>6. CASE ops' # ops
  <2>4. Saves(ops')
    BY <1>1, <1>6, AnswerSaves
  <2>5. TypeOK'
    BY <1>1, <1>2, <1>3, <2>4 DEF TypeOK, Saves
  <2>6. MetadataInv'
    BY <1>1, <1>2, <2>4 DEF MetadataInv, Saves
  <2>7. FreshInv' /\ DeleteInv'
    BY <2>4 DEF FreshInv, DeleteInv, Saves
  <2>8. RemovedInv'
    BY <1>1, <1>2, <1>4, <2>4 DEF RemovedInv, Saves
  <2> QED
    BY <2>5, <2>6, <2>7, <2>8 DEF StoreInv
<1> QED
  BY <1>5, <1>6

\* The end of the process, in order or not.
LEMMA VanishStep ==
  ASSUME StoreInv, Exit \/ Crash
  PROVE  StoreInv'
<1>1. TypeOK /\ RemovedInv
  BY DEF StoreInv
<1>2. Vanish
  BY DEF Exit, Crash
<1>3. /\ netCmd' = <<>> /\ ioQueue' = <<>> /\ ops' = <<>>
      /\ disk' = disk /\ removed' = removed
      /\ session' = [h \in Hashes |-> "absent"] /\ options' = [h \in Hashes |-> "none"]
  BY <1>2 DEF Vanish, Nothing
<1>4. wanted' \in [Hashes -> Options \cup {"none"}]
  BY <1>1 DEF Exit, Crash, Nothing, TypeOK
<1>5. TypeOK'
  BY <1>1, <1>2, <1>3, <1>4, EmptySeq DEF Vanish, TypeOK
<1>6. \A g \in removed' : session'[g] = "absent" /\ ~Pending(g)'
  <2>1. Len(netCmd') = 0 /\ Len(ioQueue') = 0
    BY <1>3, EmptySeq
  <2>2. 1..Len(netCmd') = {} /\ 1..Len(ioQueue') = {}
    BY <2>1
  <2>3. \A g : ~Pending(g)'
    BY <2>2 DEF Pending
  <2>4. removed' \subseteq Hashes
    BY <1>1, <1>3 DEF TypeOK
  <2> QED
    BY <1>3, <2>3, <2>4
<1> QED
  BY <1>3, <1>5, <1>6, SameOps

\* The commands of a start are adds of torrents that have a .torrent.
LEMMA RestartCommands ==
  ASSUME StoreInv, Restart
  PROVE  /\ netCmd' \in Seq(AnyCommand)
         /\ \A i \in 1..Len(netCmd') :
              netCmd'[i].op = "add" /\ netCmd'[i].hash \in OnDisk \ Unreadable
<1>0. PICK empty \in SUBSET CutResumes :
        LET good == OnDisk \ (Unreadable \cup empty)
            Add(h) == [op |-> "add", hash |-> h, info |-> "full",
                       options |-> disk[h]["metadata"],
                       resumed |-> disk[h]["resume"] = "whole"]
        IN \E added \in IF loadOk' THEN {good} ELSE SUBSET good :
             \E order \in SetToSeqs(added) :
               netCmd' = [i \in 1..Len(order) |-> Add(order[i])]
  BY DEF Restart
<1> DEFINE good == OnDisk \ (Unreadable \cup empty)
           Add(h) == [op |-> "add", hash |-> h, info |-> "full",
                      options |-> disk[h]["metadata"],
                      resumed |-> disk[h]["resume"] = "whole"]
<1>1. PICK added \in (IF loadOk' THEN {good} ELSE SUBSET good) :
        \E order \in SetToSeqs(added) : netCmd' = [i \in 1..Len(order) |-> Add(order[i])]
  BY <1>0
<1>2. PICK order \in SetToSeqs(added) : netCmd' = [i \in 1..Len(order) |-> Add(order[i])]
  BY <1>1
<1>3. added \subseteq good
  BY <1>1
<1>4. IsFiniteSet(added) /\ Cardinality(added) \in Nat
  <2>1. added \subseteq Hashes
    BY <1>3 DEF OnDisk
  <2> QED
    BY <2>1, HashesAssumption, FS_Subset, FS_CardinalityType
<1>5. order \in [1..Cardinality(added) -> added]
  BY <1>2 DEF SetToSeqs
<1>6. Len(order) = Cardinality(added)
  BY <1>4, <1>5, FunctionSeq
<1>7. ASSUME NEW h \in good
      PROVE  Add(h) \in AnyCommand /\ Add(h).op = "add" /\ Add(h).hash = h
  <2>1. h \in Hashes /\ disk[h]["metadata"] # "torn"
    BY <1>7 DEF OnDisk, Unreadable
  <2>2. disk[h]["metadata"] # "whole" /\ disk[h]["metadata"] \in Content
    <3>1. "metadata" \in Kinds
      BY DEF Kinds
    <3> QED
      BY <2>1, <3>1 DEF StoreInv, MetadataInv, TypeOK
  <2>3. disk[h]["metadata"] \in Given \cup {"none"}
    BY <2>1, <2>2 DEF Content
  <2>4. Add(h) \in AddCommand
    BY <2>1, <2>3 DEF AddCommand
  <2> QED
    BY <2>4 DEF AnyCommand
<1> HIDE DEF Add, good
<1>8. \A i \in 1..Len(order) : order[i] \in good
  BY <1>3, <1>5, <1>6
<1>9. netCmd' \in [1..Cardinality(added) -> AnyCommand]
  BY <1>2, <1>6, <1>7, <1>8
<1>10. netCmd' \in Seq(AnyCommand) /\ Len(netCmd') = Cardinality(added)
  BY <1>4, <1>9, FunctionSeq
<1>11. \A i \in 1..Len(netCmd') : \E h \in good : netCmd'[i] = Add(h)
  BY <1>2, <1>6, <1>8, <1>10
<1> QED
  BY <1>7, <1>10, <1>11 DEF good

\* A start.
LEMMA RestartStep ==
  ASSUME StoreInv, Restart
  PROVE  StoreInv'
<1>1. TypeOK /\ RemovedInv
  BY DEF StoreInv
<1>2. /\ netCmd' \in Seq(AnyCommand)
      /\ \A i \in 1..Len(netCmd') : netCmd'[i].hash \in OnDisk
  BY RestartCommands
<1>3. /\ phase' = "run" /\ loadOk' \in BOOLEAN
      /\ UNCHANGED <<session, dirty, ioQueue, options, ops, todo, disk, commands>>
      /\ removed' = removed /\ wanted' = wanted /\ readded' = readded
  BY DEF Restart, history
<1>4. TypeOK'
  BY <1>1, <1>2, <1>3 DEF TypeOK
<1>5. ASSUME NEW g \in removed' PROVE session'[g] = "absent" /\ ~Pending(g)'
  <2>1. g \in removed /\ session[g] = "absent" /\ g \notin OnDisk /\ ~Pending(g)
    BY <1>1, <1>3, <1>5 DEF RemovedInv, OnDisk
  <2>2. ~ \E i \in 1..Len(netCmd') : netCmd'[i].hash = g
    BY <1>2, <2>1
  <2>3. ~ \E i \in 1..Len(ioQueue') : ioQueue'[i].hash = g
    BY <1>3, <2>1 DEF Pending
  <2> QED
    BY <1>3, <2>1, <2>2, <2>3 DEF Pending
<1> QED
  BY <1>3, <1>4, <1>5, SameOps

-----------------------------------------------------------------------------
(* The theorems *)

\* Before the first start everything is empty.
LEMMA InitStore == Init => StoreInv
<1> SUFFICES ASSUME Init PROVE StoreInv
  OBVIOUS
<1>1. /\ session = [h \in Hashes |-> "absent"] /\ options = [h \in Hashes |-> "none"]
      /\ wanted = [h \in Hashes |-> "none"]
      /\ disk = [h \in Hashes |-> [k \in Kinds |-> "none"]]
  BY DEF Init, Nothing
<1>2. Len(ops) = 0
  BY EmptySeq DEF Init
<1>3. 1..Len(ops) = {}
  BY <1>2
<1>4. TypeOK
  BY <1>1, EmptySeq, BoundAssumption DEF Init, TypeOK, Content
<1>5. MetadataInv
  <2>1. "metadata" \in Kinds
    BY DEF Kinds
  <2> QED
    BY <1>1, <1>3, <2>1 DEF MetadataInv
<1>6. FreshInv /\ DeleteInv
  BY <1>3 DEF FreshInv, DeleteInv
<1>7. RemovedInv
  BY DEF Init, RemovedInv
<1> QED
  BY <1>4, <1>5, <1>6, <1>7 DEF StoreInv

\* No step breaks the invariant.
LEMMA StepStore == StoreInv /\ [Next]_vars => StoreInv'
<1> SUFFICES ASSUME StoreInv, [Next]_vars PROVE StoreInv'
  OBVIOUS
<1>1. ASSUME NEW h \in Hashes,
             \/ \E info \in {"full", "magnet"} : AddTorrent(h, info)
             \/ \E o \in Options : SetOptions(h, o)
             \/ RemoveTorrent(h)
      PROVE  StoreInv'
  BY <1>1, CommandStep
<1>2. ASSUME NEW h \in Hashes, NetMetadata(h) \/ Touch(h) PROVE StoreInv'
  BY <1>2, NetStepInv
<1>3. ASSUME NEW h \in Hashes, SaveAnswer(h) PROVE StoreInv'
  BY <1>3, SaveAnswerStep
<1>4. CASE NetAdd \/ NetRefuse \/ NetRemove
  BY <1>4, NetStepInv
<1>5. CASE HandleAdded \/ HandleMetadata
  BY <1>5, SaveStep
<1>6. CASE HandleAdd
  BY <1>6, AssignStep
<1>7. CASE HandleRemoved
  BY <1>7, RemoveStep
<1>8. CASE DoOp
  BY <1>8, DoOpStep
<1>9. CASE Stop \/ AskSaves
  BY <1>9, StopStep
<1>10. CASE Exit \/ Crash
  BY <1>10, VanishStep
<1>11. CASE Restart
  BY <1>11, RestartStep
<1>12. CASE UNCHANGED vars
  <2>1. TypeOK'
    BY <1>12 DEF vars, memory, history, StoreInv, TypeOK
  <2>2. \A g \in removed' : session'[g] = "absent" /\ ~Pending(g)'
    BY <1>12 DEF vars, memory, history, StoreInv, RemovedInv, Pending
  <2> QED
    BY <1>12, <2>1, <2>2, SameOps DEF vars, memory, history
<1> QED
  BY <1>1, <1>2, <1>3, <1>4, <1>5, <1>6, <1>7, <1>8, <1>9, <1>10, <1>11, <1>12 DEF Next

\* The invariant holds of the files and the queues of core.js in every reachable state.
THEOREM StoreSafety == Spec => []StoreInv
<1> QED
  BY InitStore, StepStore, PTL DEF Spec

\* What core.js keeps has its type: loadTorrents never takes torn metadata, or that of
\* another file, for a torrent's options.
THEOREM StoreTypes == Spec => []TypeOK
<1>1. StoreInv => TypeOK
  BY DEF StoreInv
<1> QED
  BY StoreSafety, <1>1, PTL

\* Once torrent.removed's handler has deleted a first file, no crash or restart brings
\* the torrent back.
THEOREM RemovalsFinal == Spec => []RemovalIsFinal
<1>1. StoreInv => RemovalIsFinal
  BY DEF StoreInv, RemovedInv, RemovalIsFinal, OnDisk
<1> QED
  BY StoreSafety, <1>1, PTL

\* A handler that is about to write a .torrent found none, or wrote it already.
LEMMA WritesNew ==
  ASSUME StoreInv, Next, ~DoOp, NEW i \in 1..Len(ops'),
         ops'[i].kind = "torrent", ops'[i].to # "none"
  PROVE  ops' = ops \/ disk[ops'[i].hash]["torrent"] = "none"
<1>0. TypeOK
  BY DEF StoreInv
<1>1. ops' # <<>>
  BY EmptySeq
<1>2. CASE HandleAdded \/ HandleMetadata
  <2>1. /\ Head(ioQueue).hash \in Hashes /\ SaveTorrent(Head(ioQueue).hash)
    BY <1>0, <1>2, HandleFacts DEF HandleAdded, HandleMetadata
  <2>2. PICK h \in Hashes : SaveTorrent(h)
    BY <2>1
  <2>3. ops' = Write(h, "torrent", "whole") /\ disk[h]["torrent"] = "none"
    BY <1>1, <2>2, SaveShape
  <2>4. "torrent" \in Kinds /\ "whole" \in Content
    BY DEF Kinds, Content
  <2>5. /\ Len(ops') = 2 /\ ops'[1].hash = h /\ ops'[2].hash = h
    <3> DEFINE w == Write(h, "torrent", "whole")
    <3>1. /\ Len(w) = 2
          /\ w[1] = [hash |-> h, kind |-> "torrent", to |-> "torn"]
          /\ w[2] = [hash |-> h, kind |-> "torrent", to |-> "whole"]
      BY <2>4, WriteShape
    <3>2. Len(w) = 2 /\ w[1].hash = h /\ w[2].hash = h
      BY <3>1
    <3> QED
      BY <2>3, <3>2
  <2>6. i = 1 \/ i = 2
    BY <2>5
  <2> QED
    BY <2>3, <2>5, <2>6
<1>3. CASE HandleRemoved
  <2>1. Head(ioQueue).hash \in Hashes
    BY <1>0, <1>3, HandleFacts DEF HandleRemoved
  <2>2. Deletions(Head(ioQueue).hash, ops')
    BY <1>3, <2>1, DeletionsShape DEF HandleRemoved
  <2> QED
    BY <2>2 DEF Deletions
<1>4. ASSUME NEW h \in Hashes, SaveAnswer(h) PROVE ops' = ops
  BY <1>0, <1>4, AnswerSaves DEF Saves
<1>5. CASE ~(HandleAdded \/ HandleMetadata \/ HandleRemoved \/ \E h \in Hashes : SaveAnswer(h))
  BY <1>1, <1>5 DEF Next, Command, AddTorrent, SetOptions, RemoveTorrent, NetFrame, NetMetadata,
                    Touch, NetAdd, NetRefuse, NetRemove, Handle, HandleAdd, Stop, AskSaves,
                    Vanish, Exit, Crash, Restart
<1> QED
  BY <1>2, <1>3, <1>4, <1>5

\* saveTorrent never opens a .torrent file again that exists: a complete one is safe, and
\* a torn one stays until it is deleted.
THEOREM CompleteNeverRewritten == Spec => NeverRewritten
<1> DEFINE Kept ==
      \A h \in Hashes :
        /\ disk[h]["torrent"] = "whole" => disk'[h]["torrent"] # "torn"
        /\ Broken(h) => Broken(h)' \/ disk'[h]["torrent"] = "none"
<1>1. StoreInv /\ [Next]_vars => [Kept]_vars
  <2> SUFFICES ASSUME StoreInv, Next, NEW h \in Hashes
               PROVE  /\ disk[h]["torrent"] = "whole" => disk'[h]["torrent"] # "torn"
                      /\ Broken(h) => Broken(h)' \/ disk'[h]["torrent"] = "none"
    OBVIOUS
  <2>1. CASE DoOp
    <3>1. /\ 1 \in 1..Len(ops)
          /\ \A i \in 1..Len(ops') : i + 1 \in 1..Len(ops) /\ ops'[i] = ops[i + 1]
          /\ \A k \in Kinds :
               disk'[h][k] = IF h = ops[1].hash /\ k = ops[1].kind THEN ops[1].to ELSE disk[h][k]
      BY <2>1, DoOpFacts DEF StoreInv
    <3>2. ops[1].kind = "torrent" /\ ops[1].to = "torn" => disk[ops[1].hash]["torrent"] = "none"
      BY <3>1 DEF StoreInv, FreshInv
    <3>3. "torrent" \in Kinds
      BY DEF Kinds
    <3>4. disk[h]["torrent"] = "whole" => disk'[h]["torrent"] # "torn"
      BY <3>1, <3>2, <3>3
    <3>5. Broken(h) => Broken(h)' \/ disk'[h]["torrent"] = "none"
      BY <3>1, <3>3 DEF Broken
    <3> QED
      BY <3>4, <3>5
  <2>2. CASE ~DoOp
    <3>1. disk' = disk
      BY <2>2 DEF Next, Command, AddTorrent, SetOptions, RemoveTorrent, NetFrame, NetMetadata,
                  Touch, SaveAnswer, NetAdd, NetRefuse, NetRemove, Handle, HandleAdded,
                  HandleMetadata, HandleAdd, HandleRemoved, Stop, AskSaves, Vanish, Exit, Crash, Restart
    <3>2. Broken(h) => Broken(h)'
      BY <2>2, <3>1, WritesNew DEF Broken
    <3> QED
      BY <3>1, <3>2
  <2> QED
    BY <2>1, <2>2
<1> QED
  BY StoreSafety, <1>1, PTL DEF Spec, NeverRewritten

-----------------------------------------------------------------------------
(* The queue of alerts *)

\* The queue q holds the alert that h was removed.
Gone(q, h) == \E i \in 1..Len(q) : q[i] = Alert("removed", h)

\* The queue holds an alert of h that is of one of the kinds, and whose handle is valid: no
\* removal of h comes after it.
Waits(q, kinds, h) ==
  \E i \in 1..Len(q) :
    /\ q[i].kind \in kinds /\ q[i].hash = h
    /\ \A j \in 1..Len(q) : j > i => q[j] # Alert("removed", h)

\* The removals that are left when the head of a queue is taken.
LEMMA GoneTail ==
  ASSUME NEW q \in Seq(AnyAlert), q # <<>>, NEW h
  PROVE  /\ Gone(Tail(q), h) => Gone(q, h)
         /\ Gone(q, h) /\ Head(q) # Alert("removed", h) => Gone(Tail(q), h)
<1>1. /\ Len(q) \in Nat /\ Len(q) # 0 /\ Len(Tail(q)) = Len(q) - 1 /\ Head(q) = q[1]
      /\ \A i \in 1..Len(Tail(q)) : Tail(q)[i] = q[i + 1]
  BY HeadTailProperties, LenProperties, EmptySeq
<1>2. ASSUME Gone(Tail(q), h) PROVE Gone(q, h)
  <2>1. PICK i \in 1..Len(Tail(q)) : Tail(q)[i] = Alert("removed", h)
    BY <1>2 DEF Gone
  <2>2. i + 1 \in 1..Len(q) /\ q[i + 1] = Alert("removed", h)
    BY <1>1, <2>1
  <2> QED
    BY <2>2 DEF Gone
<1>3. ASSUME Gone(q, h), Head(q) # Alert("removed", h) PROVE Gone(Tail(q), h)
  <2>1. PICK i \in 1..Len(q) : q[i] = Alert("removed", h)
    BY <1>3 DEF Gone
  <2>2. i # 1
    BY <1>1, <1>3, <2>1
  <2>3. i - 1 \in 1..Len(Tail(q)) /\ Tail(q)[i - 1] = Alert("removed", h)
    BY <1>1, <2>1, <2>2
  <2> QED
    BY <2>3 DEF Gone
<1> QED
  BY <1>2, <1>3

\* An alert that waits still waits when the head is taken, or was the head.
LEMMA WaitsTail ==
  ASSUME NEW q \in Seq(AnyAlert), q # <<>>, NEW kinds, NEW h, Waits(q, kinds, h)
  PROVE  \/ Waits(Tail(q), kinds, h)
         \/ Head(q).kind \in kinds /\ Head(q).hash = h /\ ~Gone(Tail(q), h)
<1>1. /\ Len(q) \in Nat /\ Len(q) # 0 /\ Len(Tail(q)) = Len(q) - 1 /\ Head(q) = q[1]
      /\ \A i \in 1..Len(Tail(q)) : Tail(q)[i] = q[i + 1]
  BY HeadTailProperties, LenProperties, EmptySeq
<1>2. PICK i \in 1..Len(q) :
        /\ q[i].kind \in kinds /\ q[i].hash = h
        /\ \A j \in 1..Len(q) : j > i => q[j] # Alert("removed", h)
  BY DEF Waits
<1>3. \A j \in 1..Len(Tail(q)) : j + 1 > i => Tail(q)[j] # Alert("removed", h)
  <2>1. SUFFICES ASSUME NEW j \in 1..Len(Tail(q)), j + 1 > i
                 PROVE  Tail(q)[j] # Alert("removed", h)
    OBVIOUS
  <2>2. j + 1 \in 1..Len(q) /\ Tail(q)[j] = q[j + 1]
    BY <1>1
  <2> QED
    BY <1>2, <2>1, <2>2
<1>4. CASE i = 1
  BY <1>1, <1>2, <1>3, <1>4 DEF Gone
<1>5. CASE i # 1
  <2>1. i - 1 \in 1..Len(Tail(q)) /\ Tail(q)[i - 1] = q[i]
    BY <1>1, <1>5
  <2>2. \A j \in 1..Len(Tail(q)) : j > i - 1 => Tail(q)[j] # Alert("removed", h)
    BY <1>1, <1>3
  <2> QED
    BY <1>2, <2>1, <2>2 DEF Waits
<1> QED
  BY <1>4, <1>5

\* What waits in a queue that others join.
LEMMA JoinedQueue ==
  ASSUME NEW q \in Seq(AnyAlert), NEW t \in Seq(AnyAlert), NEW h
  PROVE  /\ Gone(q \o t, h) <=> Gone(q, h) \/ Gone(t, h)
         /\ \A kinds : Waits(t, kinds, h) => Waits(q \o t, kinds, h)
         /\ \A kinds : Waits(q, kinds, h) /\ ~Gone(t, h) => Waits(q \o t, kinds, h)
<1> DEFINE n == Len(q)
           m == Len(t)
           s == q \o t
<1>1. /\ n \in Nat /\ m \in Nat /\ Len(s) = n + m
      /\ \A i \in 1..n : i \in 1..Len(s) /\ s[i] = q[i]
      /\ \A i \in 1..m : i + n \in 1..Len(s) /\ s[i + n] = t[i]
      /\ \A i \in 1..Len(s) : i > n => i - n \in 1..m /\ s[i] = t[i - n]
  <2>1. n \in Nat /\ m \in Nat /\ Len(s) = n + m
    BY LenProperties, ConcatProperties
  <2>2. \A i \in 1..(n + m) : s[i] = IF i <= n THEN q[i] ELSE t[i - n]
    BY ConcatProperties
  <2> HIDE DEF n, m, s
  <2> QED
    BY <2>1, <2>2
<1> HIDE DEF n, m, s
<1>2. Gone(s, h) => Gone(q, h) \/ Gone(t, h)
  <2>1. SUFFICES ASSUME NEW i \in 1..Len(s), s[i] = Alert("removed", h)
                 PROVE  Gone(q, h) \/ Gone(t, h)
    BY DEF Gone
  <2>2. CASE i > n
    BY <1>1, <2>1, <2>2 DEF Gone, m
  <2>3. CASE ~(i > n)
    <3>1. i \in 1..n
      BY <1>1, <2>3
    <3> QED
      BY <1>1, <2>1, <3>1 DEF Gone, n
  <2> QED
    BY <2>2, <2>3
<1>3. Gone(q, h) \/ Gone(t, h) => Gone(s, h)
  BY <1>1 DEF Gone, n, m
<1>4. ASSUME NEW kinds, Waits(t, kinds, h) PROVE Waits(s, kinds, h)
  <2>1. PICK i \in 1..m :
          /\ t[i].kind \in kinds /\ t[i].hash = h
          /\ \A j \in 1..m : j > i => t[j] # Alert("removed", h)
    BY <1>4 DEF Waits, m
  <2>2. i + n \in 1..Len(s) /\ s[i + n].kind \in kinds /\ s[i + n].hash = h
    BY <1>1, <2>1
  <2>3. ASSUME NEW j \in 1..Len(s), j > i + n PROVE s[j] # Alert("removed", h)
    <3>1. j > n /\ j - n > i
      BY <1>1, <2>3
    <3>2. j - n \in 1..m /\ s[j] = t[j - n]
      BY <1>1, <3>1
    <3> QED
      BY <2>1, <3>1, <3>2
  <2> QED
    BY <2>2, <2>3 DEF Waits
<1>5. ASSUME NEW kinds, Waits(q, kinds, h), ~Gone(t, h) PROVE Waits(s, kinds, h)
  <2>1. PICK i \in 1..n :
          /\ q[i].kind \in kinds /\ q[i].hash = h
          /\ \A j \in 1..n : j > i => q[j] # Alert("removed", h)
    BY <1>5 DEF Waits, n
  <2>2. i \in 1..Len(s) /\ s[i].kind \in kinds /\ s[i].hash = h
    BY <1>1, <2>1
  <2>3. ASSUME NEW j \in 1..Len(s), j > i PROVE s[j] # Alert("removed", h)
    <3>1. CASE j > n
      BY <1>1, <1>5, <3>1 DEF Gone, m
    <3>2. CASE ~(j > n)
      <4>1. j \in 1..n
        BY <1>1, <3>2
      <4> QED
        BY <1>1, <2>1, <2>3, <4>1
    <3> QED
      BY <3>1, <3>2
  <2> QED
    BY <2>2, <2>3 DEF Waits
<1> QED
  BY <1>2, <1>3, <1>4, <1>5 DEF s

-----------------------------------------------------------------------------
(* The files and the session *)

\* The running handler is about to write h's .torrent, or to delete it.
Writes(h)  == \E i \in 1..Len(ops) : ops[i].hash = h /\ ops[i].kind = "torrent" /\ ops[i].to # "none"
Deletes(h) == \E i \in 1..Len(ops) : ops[i] = DeleteTorrent(h)

\* The session will have h with its info once it comes to the first command about h.
Comes(h) ==
  /\ session[h] = "absent"
  /\ \E i \in 1..Len(netCmd) :
       /\ netCmd[i].op = "add" /\ netCmd[i].hash = h /\ netCmd[i].info = "full"
       /\ \A j \in 1..Len(netCmd) : j < i => netCmd[j].hash # h

\* A process that is down has nothing in memory.
DownInv ==
  phase = "down" =>
    (\A h \in Hashes : session[h] = "absent") /\ netCmd = <<>> /\ ioQueue = <<>> /\ ops = <<>>

\* h has its file, or will: an alert that has it saved waits, or a handler writes it.
SavedInv(h) ==
  phase = "run" /\ session[h] = "full" =>
    \/ Waits(ioQueue, {"added", "metadata"}, h)
    \/ ~Gone(ioQueue, h) /\ (Writes(h) \/ (h \in OnDisk /\ ~Deletes(h)))

\* h has options, or the alert that assigns them waits.
AssignedInv(h) ==
  phase = "run" /\ session[h] # "absent" => options[h] # "none" \/ Waits(ioQueue, {"add"}, h)

\* The file of a torrent that is not there is on its way out, or the torrent on its way in.
GhostInv(h) ==
  phase = "run" /\ loadOk /\ (h \in OnDisk \/ Writes(h)) =>
    session[h] = "full" \/ Gone(ioQueue, h) \/ Deletes(h) \/ (Comes(h) /\ ~Writes(h))

TorrentInv(h) == SavedInv(h) /\ AssignedInv(h) /\ GhostInv(h)
FilesInv == StoreInv /\ DownInv /\ \A h \in Hashes : TorrentInv(h)

\* A step that touches none of what is said of h.
LEMMA SameTorrent ==
  ASSUME NEW h \in Hashes, TorrentInv(h),
         UNCHANGED <<phase, session, ioQueue, ops, disk, loadOk>>,
         options'[h] = options[h] \/ options'[h] # "none",
         Comes(h) => Comes(h)'
  PROVE  TorrentInv(h)'
<1>1. /\ Writes(h)' <=> Writes(h)
      /\ Deletes(h)' <=> Deletes(h)
      /\ (h \in OnDisk)' <=> h \in OnDisk
  BY DEF Writes, Deletes, OnDisk
<1>2. \A kinds : Waits(ioQueue, kinds, h)' <=> Waits(ioQueue, kinds, h)
  BY DEF Waits
<1>3. Gone(ioQueue, h)' <=> Gone(ioQueue, h)
  BY DEF Gone
<1>4. SavedInv(h)'
  BY <1>1, <1>2, <1>3 DEF TorrentInv, SavedInv
<1>5. AssignedInv(h)'
  BY <1>2 DEF TorrentInv, AssignedInv
<1>6. GhostInv(h)'
  BY <1>1, <1>3 DEF TorrentInv, GhostInv
<1> QED
  BY <1>4, <1>5, <1>6 DEF TorrentInv

\* Outside of a run nothing is said.
LEMMA NotRunning ==
  ASSUME phase' # "run"
  PROVE  \A h \in Hashes : TorrentInv(h)'
BY DEF TorrentInv, SavedInv, AssignedInv, GhostInv

\* The commands of a user.
LEMMA CommandFiles ==
  ASSUME FilesInv, NEW g \in Hashes,
         \/ \E info \in {"full", "magnet"} : AddTorrent(g, info)
         \/ RemoveTorrent(g)
         \/ \E o \in Options : SetOptions(g, o)
         \/ Touch(g)
  PROVE  DownInv' /\ \A h \in Hashes : TorrentInv(h)'
<1>0. TypeOK
  BY DEF FilesInv, StoreInv
<1>1. UNCHANGED <<phase, session, ioQueue, ops, disk, loadOk>> /\ phase # "down"
  BY DEF AddTorrent, RemoveTorrent, SetOptions, Touch, Command, NetFrame
<1>2. DownInv'
  BY <1>1 DEF DownInv
<1>3. ASSUME NEW h \in Hashes PROVE options'[h] = options[h] \/ options'[h] # "none"
  <2>1. CASE options' = options
    BY <2>1
  <2>2. CASE options' # options
    <3>1. PICK o \in Options : SetOptions(g, o)
      BY <2>2 DEF AddTorrent, RemoveTorrent, Touch, NetFrame
    <3>2. options' = [options EXCEPT ![g] = o] /\ o # "none"
      BY <3>1, NamesAssumption DEF SetOptions
    <3> QED
      BY <1>0, <1>3, <3>2 DEF TypeOK
  <2> QED
    BY <2>1, <2>2
<1>4. ASSUME NEW h \in Hashes, Comes(h) PROVE Comes(h)'
  <2>1. PICK i \in 1..Len(netCmd) :
          /\ netCmd[i].op = "add" /\ netCmd[i].hash = h /\ netCmd[i].info = "full"
          /\ \A j \in 1..Len(netCmd) : j < i => netCmd[j].hash # h
    BY <1>4 DEF Comes
  <2>2. netCmd \in Seq(AnyCommand) /\ Len(netCmd) \in Nat
    BY <1>0, LenProperties DEF TypeOK
  <2>3. netCmd # <<>>
    <3>1. netCmd = <<>> => Len(netCmd) = 0
      BY EmptySeq
    <3> QED
      BY <2>1, <3>1
  <2>4. CASE netCmd' = netCmd
    BY <1>1, <1>4, <2>4 DEF Comes
  <2>5. CASE netCmd' # netCmd
    <3>1. PICK info \in {"full", "magnet"} : AddTorrent(g, info)
      BY <2>3, <2>5 DEF RemoveTorrent, Found, SetOptions, Touch
    <3> DEFINE c == [op |-> "add", hash |-> g, info |-> info, options |-> "none",
                     resumed |-> FALSE]
    <3>2. netCmd' = Append(netCmd, c) /\ c \in AnyCommand
      BY <3>1 DEF AddTorrent, AnyCommand, AddCommand
    <3> HIDE DEF c
    <3>3. Len(netCmd') = Len(netCmd) + 1 /\ \A j \in 1..Len(netCmd) : netCmd'[j] = netCmd[j]
      BY <2>2, <3>2, AppendProperties
    <3>4. i \in 1..Len(netCmd') /\ \A j \in 1..Len(netCmd') : j < i => j \in 1..Len(netCmd)
      BY <2>1, <2>2, <3>3
    <3>5. session'[h] = "absent"
      BY <1>1, <1>4 DEF Comes
    <3>6. netCmd'[i].op = "add" /\ netCmd'[i].hash = h /\ netCmd'[i].info = "full"
      BY <2>1, <3>3
    <3>7. \A j \in 1..Len(netCmd') : j < i => netCmd'[j].hash # h
      BY <2>1, <3>3, <3>4
    <3> QED
      BY <3>4, <3>5, <3>6, <3>7 DEF Comes
  <2> QED
    BY <2>4, <2>5
<1> QED
  BY <1>1, <1>2, <1>3, <1>4, SameTorrent DEF FilesInv

\* The network thread posts alerts among which is no removal of h, whose state it leaves.
LEMMA PostedOthers ==
  ASSUME TypeOK, NEW h \in Hashes, TorrentInv(h), phase = "run",
         NEW alerts \in Seq(AnyAlert), Post(alerts), ~Gone(alerts, h),
         UNCHANGED <<phase, options, ops, disk, loadOk>>,
         session'[h] = session[h],
         Comes(h) => Comes(h)'
  PROVE  TorrentInv(h)'
<1>1. ioQueue \in Seq(AnyAlert) /\ ioQueue' = ioQueue \o alerts
  BY DEF TypeOK, Post
<1>2. Gone(ioQueue', h) <=> Gone(ioQueue, h)
  BY <1>1, JoinedQueue
<1>3. \A kinds : Waits(ioQueue, kinds, h) => Waits(ioQueue', kinds, h)
  BY <1>1, JoinedQueue
<1>4. /\ Writes(h)' <=> Writes(h)
      /\ Deletes(h)' <=> Deletes(h)
      /\ (h \in OnDisk)' <=> h \in OnDisk
  BY DEF Writes, Deletes, OnDisk
<1>5. SavedInv(h)'
  BY <1>2, <1>3, <1>4 DEF TorrentInv, SavedInv
<1>6. AssignedInv(h)'
  BY <1>3 DEF TorrentInv, AssignedInv
<1>7. GhostInv(h)'
  BY <1>2, <1>4 DEF TorrentInv, GhostInv
<1> QED
  BY <1>5, <1>6, <1>7 DEF TorrentInv

\* An add that waits behind the command of another torrent still comes.
LEMMA ComesLater ==
  ASSUME TypeOK, NEW h \in Hashes, Comes(h), session'[h] = "absent",
         netCmd # <<>>, netCmd' = Tail(netCmd)
  PROVE  \/ Comes(h)'
         \/ Head(netCmd).op = "add" /\ Head(netCmd).hash = h /\ Head(netCmd).info = "full"
<1>1. PICK i \in 1..Len(netCmd) :
        /\ netCmd[i].op = "add" /\ netCmd[i].hash = h /\ netCmd[i].info = "full"
        /\ \A j \in 1..Len(netCmd) : j < i => netCmd[j].hash # h
  BY DEF Comes
<1>2. /\ Len(netCmd) \in Nat /\ Len(netCmd) # 0 /\ Len(netCmd') = Len(netCmd) - 1
      /\ Head(netCmd) = netCmd[1]
      /\ \A j \in 1..Len(netCmd') : netCmd'[j] = netCmd[j + 1]
  BY HeadTailProperties, LenProperties, EmptySeq DEF TypeOK
<1>3. CASE i = 1
  BY <1>1, <1>2, <1>3
<1>4. CASE i # 1
  <2>1. i - 1 \in 1..Len(netCmd') /\ netCmd'[i - 1] = netCmd[i]
    BY <1>2, <1>4
  <2>2. ASSUME NEW j \in 1..Len(netCmd'), j < i - 1 PROVE netCmd'[j].hash # h
    <3>1. j + 1 \in 1..Len(netCmd) /\ j + 1 < i
      BY <1>2, <2>2
    <3> QED
      BY <1>1, <1>2, <3>1
  <2> QED
    BY <1>1, <2>1, <2>2 DEF Comes
<1> QED
  BY <1>3, <1>4

\* What comes at once is what the first command about h brings.
LEMMA ComesFirst ==
  ASSUME TypeOK, NEW h \in Hashes, Comes(h), netCmd # <<>>, Head(netCmd).hash = h
  PROVE  Head(netCmd).op = "add" /\ Head(netCmd).info = "full"
<1>1. PICK i \in 1..Len(netCmd) :
        /\ netCmd[i].op = "add" /\ netCmd[i].hash = h /\ netCmd[i].info = "full"
        /\ \A j \in 1..Len(netCmd) : j < i => netCmd[j].hash # h
  BY DEF Comes
<1>2. 1 \in 1..Len(netCmd) /\ Head(netCmd) = netCmd[1]
  BY HeadElement DEF TypeOK
<1>3. ~(1 < i)
  BY <1>1, <1>2
<1> QED
  BY <1>1, <1>2, <1>3

\* What is in a queue of one alert.
LEMMA OneAlert ==
  ASSUME NEW a \in AnyAlert, NEW h
  PROVE  /\ <<a>> \in Seq(AnyAlert)
         /\ a # Alert("removed", h) => ~Gone(<<a>>, h)
         /\ a = Alert("removed", h) => Gone(<<a>>, h)
         /\ \A kinds : a.kind \in kinds /\ a.hash = h => Waits(<<a>>, kinds, h)
<1>1. /\ <<a>> \in Seq(AnyAlert) /\ 1 \in 1..Len(<<a>>)
      /\ \A i \in 1..Len(<<a>>) : i = 1 /\ <<a>>[i] = a
  OBVIOUS
<1> QED
  BY <1>1 DEF Gone, Waits

\* What is in a queue of two, neither of them a removal of h.
LEMMA TwoAlerts ==
  ASSUME NEW a \in AnyAlert, NEW b \in AnyAlert, NEW h,
         a # Alert("removed", h), b # Alert("removed", h)
  PROVE  /\ <<a, b>> \in Seq(AnyAlert)
         /\ ~Gone(<<a, b>>, h)
         /\ \A kinds : (a.kind \in kinds /\ a.hash = h) \/ (b.kind \in kinds /\ b.hash = h)
                         => Waits(<<a, b>>, kinds, h)
<1>1. /\ <<a, b>> \in Seq(AnyAlert) /\ 1 \in 1..Len(<<a, b>>) /\ 2 \in 1..Len(<<a, b>>)
      /\ <<a, b>>[1] = a /\ <<a, b>>[2] = b
      /\ \A i \in 1..Len(<<a, b>>) : <<a, b>>[i] = a \/ <<a, b>>[i] = b
  OBVIOUS
<1> QED
  BY <1>1 DEF Gone, Waits

\* An add.
LEMMA NetAddFiles ==
  ASSUME FilesInv, NetAdd
  PROVE  DownInv' /\ \A h \in Hashes : TorrentInv(h)'
<1>0. TypeOK
  BY DEF FilesInv, StoreInv
<1> DEFINE c == Head(netCmd)
           g == c.hash
           answer == [kind |-> "add", hash |-> g, options |-> c.options]
           added == Alert("added", g)
<1>1. c \in AnyCommand /\ c.op = "add" /\ g \in Hashes
  BY <1>0, NetCallFacts DEF NetAdd
<1>2. c \in AddCommand
  BY <1>1 DEF AnyCommand
<1>3. /\ answer \in AnyAlert /\ added \in AnyAlert
      /\ answer.kind = "add" /\ answer.hash = g /\ added.kind = "added" /\ added.hash = g
      /\ \A h : answer # Alert("removed", h) /\ added # Alert("removed", h)
  <2>1. answer \in AnyAlert /\ added \in AnyAlert
    BY <1>1, <1>2 DEF AnyAlert, Alert, AddCommand
  <2>2. answer.kind = "add" /\ answer.hash = g /\ added.kind = "added" /\ added.hash = g
    BY DEF Alert
  <2>3. \A h : Alert("removed", h).kind = "removed"
    BY DEF Alert
  <2> HIDE DEF answer, added
  <2> QED
    BY <2>1, <2>2, <2>3
<1>4. /\ netCmd # <<>> /\ netCmd' = Tail(netCmd)
      /\ UNCHANGED <<phase, options, ops, disk, loadOk>>
  BY DEF NetAdd, NetCall, NetFrame
<1>5. phase # "down"
  BY <1>4 DEF FilesInv, DownInv
<1>6. DownInv'
  BY <1>4, <1>5 DEF DownInv
<1>7. \/ /\ session[g] = "absent" /\ session' = [session EXCEPT ![g] = c.info]
         /\ Post(<<added, answer>>)
      \/ session[g] # "absent" /\ session' = session /\ Post(<<answer>>)
  BY DEF NetAdd
<1>8. session \in [Hashes -> {"absent", "magnet", "full"}] /\ c.info \in {"magnet", "full"}
  BY <1>0, <1>2 DEF TypeOK, AddCommand
<1> HIDE DEF c, answer, added
<1>9. ASSUME NEW h \in Hashes, phase = "run" PROVE TorrentInv(h)'
  <2> DEFINE alerts == IF session[g] = "absent" THEN <<added, answer>> ELSE <<answer>>
  <2>1. /\ alerts \in Seq(AnyAlert) /\ Post(alerts) /\ ~Gone(alerts, h)
        /\ g = h => Waits(alerts, {"add"}, h)
        /\ g = h /\ session[h] = "absent" => Waits(alerts, {"added", "metadata"}, h)
    BY <1>3, <1>7, OneAlert, TwoAlerts
  <2> HIDE DEF alerts
  <2>2. TorrentInv(h)
    BY DEF FilesInv
  <2>3. CASE session'[h] = session[h]
    <3>1. ASSUME Comes(h) PROVE Comes(h)'
      <4>1. session[h] = "absent"
        BY <3>1 DEF Comes
      <4>2. g # h
        BY <1>1, <1>7, <1>8, <2>3, <4>1
      <4> QED
        BY <1>0, <1>4, <2>3, <3>1, <4>1, <4>2, ComesLater DEF c
    <3> QED
      BY <1>0, <1>4, <1>9, <2>1, <2>2, <2>3, <3>1, PostedOthers
  <2>4. CASE session'[h] # session[h]
    <3>1. g = h /\ session[h] = "absent" /\ session'[h] = c.info
      BY <1>1, <1>7, <1>8, <2>4
    <3>2. ioQueue \in Seq(AnyAlert) /\ ioQueue' = ioQueue \o alerts
      BY <1>0, <1>9, <2>1 DEF TypeOK, Post
    <3>3. Waits(ioQueue', {"add"}, h) /\ Waits(ioQueue', {"added", "metadata"}, h)
      BY <2>1, <3>1, <3>2, JoinedQueue
    <3>4. Gone(ioQueue, h) => Gone(ioQueue', h)
      BY <2>1, <3>2, JoinedQueue
    <3>5. Comes(h) => session'[h] = "full"
      BY <1>0, <1>4, <3>1, ComesFirst DEF c
    <3>6. /\ Writes(h)' <=> Writes(h)
          /\ Deletes(h)' <=> Deletes(h)
          /\ (h \in OnDisk)' <=> h \in OnDisk
      BY <1>4 DEF Writes, Deletes, OnDisk
    <3>7. SavedInv(h)' /\ AssignedInv(h)'
      BY <3>3 DEF SavedInv, AssignedInv
    <3>8. GhostInv(h)'
      BY <1>4, <2>2, <3>1, <3>4, <3>5, <3>6 DEF TorrentInv, GhostInv
    <3> QED
      BY <3>7, <3>8 DEF TorrentInv
  <2> QED
    BY <2>3, <2>4
<1> QED
  BY <1>4, <1>6, <1>9, NotRunning

\* A removal.
LEMMA NetRemoveFiles ==
  ASSUME FilesInv, NetRemove
  PROVE  DownInv' /\ \A h \in Hashes : TorrentInv(h)'
<1>0. TypeOK
  BY DEF FilesInv, StoreInv
<1> DEFINE g == Head(netCmd).hash
<1>1. Head(netCmd).op = "remove" /\ g \in Hashes
  BY <1>0, NetCallFacts DEF NetRemove
<1>2. /\ netCmd # <<>> /\ netCmd' = Tail(netCmd)
      /\ UNCHANGED <<phase, options, ops, disk, loadOk>>
      /\ session' = [session EXCEPT ![g] = "absent"] /\ Post(<<Alert("removed", g)>>)
  BY DEF NetRemove, NetCall, NetFrame
<1>3. phase # "down"
  BY <1>2 DEF FilesInv, DownInv
<1>4. DownInv'
  BY <1>2, <1>3 DEF DownInv
<1>5. session \in [Hashes -> {"absent", "magnet", "full"}]
  BY <1>0 DEF TypeOK
<1>6. Alert("removed", g) \in AnyAlert /\ \A h : h # g => Alert("removed", g) # Alert("removed", h)
  BY <1>1 DEF AnyAlert, Alert
<1>7. ASSUME NEW h \in Hashes, phase = "run" PROVE TorrentInv(h)'
  <2>1. TorrentInv(h)
    BY DEF FilesInv
  <2>2. CASE h = g
    <3>1. session'[h] = "absent"
      BY <1>2, <1>5, <2>2
    <3>2. Gone(ioQueue', h)
      <4>1. <<Alert("removed", g)>> \in Seq(AnyAlert) /\ Gone(<<Alert("removed", g)>>, h)
        BY <1>6, <2>2, OneAlert
      <4>2. ioQueue \in Seq(AnyAlert) /\ ioQueue' = ioQueue \o <<Alert("removed", g)>>
        BY <1>0, <1>2, <1>7 DEF TypeOK, Post
      <4> QED
        BY <4>1, <4>2, JoinedQueue
    <3> QED
      BY <3>1, <3>2 DEF TorrentInv, SavedInv, AssignedInv, GhostInv
  <2>3. CASE h # g
    <3>1. session'[h] = session[h]
      BY <1>2, <1>5, <2>3
    <3>2. <<Alert("removed", g)>> \in Seq(AnyAlert) /\ ~Gone(<<Alert("removed", g)>>, h)
      BY <1>6, <2>3, OneAlert
    <3>3. ASSUME Comes(h) PROVE Comes(h)'
      <4>1. session'[h] = "absent"
        BY <3>1, <3>3 DEF Comes
      <4> QED
        BY <1>0, <1>2, <2>3, <3>3, <4>1, ComesLater
    <3> QED
      BY <1>0, <1>2, <1>7, <2>1, <3>1, <3>2, <3>3, PostedOthers
  <2> QED
    BY <2>2, <2>3
<1> QED
  BY <1>2, <1>4, <1>7, NotRunning

\* A refused add.  The file of one that came from the disk was no part of a load that
\* came in whole, and no handler writes one.
LEMMA NetRefuseFiles ==
  ASSUME FilesInv, NetRefuse
  PROVE  DownInv' /\ \A h \in Hashes : TorrentInv(h)'
<1>0. TypeOK
  BY DEF FilesInv, StoreInv
<1> DEFINE g == Head(netCmd).hash
<1>1. /\ netCmd # <<>> /\ netCmd' = Tail(netCmd)
      /\ UNCHANGED <<phase, session, ioQueue, options, ops, disk>>
      /\ loadOk' <=> loadOk /\ (session[g] = "absent" => disk[g]["torrent"] = "none")
  BY DEF NetRefuse, NetCall
<1>2. phase # "down"
  BY <1>1 DEF FilesInv, DownInv
<1>3. DownInv'
  BY <1>1, <1>2 DEF DownInv
<1>4. ASSUME NEW h \in Hashes PROVE TorrentInv(h)'
  <2>1. /\ Writes(h)' <=> Writes(h)
        /\ Deletes(h)' <=> Deletes(h)
        /\ (h \in OnDisk)' <=> h \in OnDisk
        /\ Gone(ioQueue, h)' <=> Gone(ioQueue, h)
        /\ \A kinds : Waits(ioQueue, kinds, h)' <=> Waits(ioQueue, kinds, h)
    BY <1>1 DEF Writes, Deletes, OnDisk, Gone, Waits
  <2>2. TorrentInv(h)
    BY DEF FilesInv
  <2>3. SavedInv(h)' /\ AssignedInv(h)'
    BY <1>1, <2>1, <2>2 DEF TorrentInv, SavedInv, AssignedInv
  <2>4. Comes(h) => Comes(h)' \/ g = h
    <3>1. Comes(h) => session'[h] = "absent"
      BY <1>1 DEF Comes
    <3> QED
      BY <1>0, <1>1, <3>1, ComesLater
  <2>5. Comes(h) /\ g = h /\ h \in OnDisk => ~loadOk'
    BY <1>1 DEF Comes, OnDisk
  <2> HIDE DEF g
  <2>6. GhostInv(h)'
    BY <1>1, <2>1, <2>2, <2>4, <2>5 DEF TorrentInv, GhostInv
  <2> QED
    BY <2>3, <2>6 DEF TorrentInv
<1> QED
  BY <1>3, <1>4

\* The info of a magnet link.
LEMMA NetMetadataFiles ==
  ASSUME FilesInv, NEW g \in Hashes, NetMetadata(g)
  PROVE  DownInv' /\ \A h \in Hashes : TorrentInv(h)'
<1>0. TypeOK
  BY DEF FilesInv, StoreInv
<1> DEFINE alert == Alert("metadata", g)
<1>1. /\ phase # "down" /\ session[g] = "magnet" /\ session' = [session EXCEPT ![g] = "full"]
      /\ Post(<<alert>>) /\ netCmd' = netCmd
      /\ UNCHANGED <<phase, options, ops, disk, loadOk>>
  BY DEF NetMetadata, NetFrame
<1>2. DownInv'
  BY <1>1 DEF DownInv
<1>3. session \in [Hashes -> {"absent", "magnet", "full"}]
  BY <1>0 DEF TypeOK
<1>4. /\ alert \in AnyAlert /\ alert.kind = "metadata" /\ alert.hash = g
      /\ \A h : alert # Alert("removed", h)
  <2>1. alert \in AnyAlert /\ alert.kind = "metadata" /\ alert.hash = g
    BY DEF AnyAlert, Alert
  <2>2. \A h : Alert("removed", h).kind = "removed"
    BY DEF Alert
  <2> HIDE DEF alert
  <2> QED
    BY <2>1, <2>2
<1> HIDE DEF alert
<1>5. ASSUME NEW h \in Hashes, phase = "run" PROVE TorrentInv(h)'
  <2>1. TorrentInv(h)
    BY DEF FilesInv
  <2>2. /\ <<alert>> \in Seq(AnyAlert) /\ ~Gone(<<alert>>, h)
        /\ h = g => Waits(<<alert>>, {"added", "metadata"}, h)
    BY <1>4, OneAlert
  <2>3. CASE h = g
    <3>1. session[h] = "magnet" /\ session'[h] = "full"
      BY <1>1, <1>3, <2>3
    <3>2. ioQueue \in Seq(AnyAlert) /\ ioQueue' = ioQueue \o <<alert>>
      BY <1>0, <1>1, <1>5 DEF TypeOK, Post
    <3>3. /\ Waits(ioQueue', {"added", "metadata"}, h)
          /\ Waits(ioQueue, {"add"}, h) => Waits(ioQueue', {"add"}, h)
      BY <2>2, <2>3, <3>2, JoinedQueue
    <3>4. AssignedInv(h)'
      BY <1>1, <2>1, <3>1, <3>3 DEF TorrentInv, AssignedInv
    <3> QED
      BY <3>1, <3>3, <3>4 DEF TorrentInv, SavedInv, GhostInv
  <2>4. CASE h # g
    <3>1. session'[h] = session[h]
      BY <1>1, <1>3, <2>4
    <3>2. Comes(h) => Comes(h)'
      BY <1>1, <3>1 DEF Comes
    <3> QED
      BY <1>0, <1>1, <1>5, <2>1, <2>2, <3>1, <3>2, PostedOthers
  <2> QED
    BY <2>3, <2>4
<1> QED
  BY <1>1, <1>2, <1>5, NotRunning

\* No operations: nothing is written or deleted.
LEMMA NoOps ==
  ASSUME ops = <<>>
  PROVE  \A h : ~Writes(h) /\ ~Deletes(h)
<1>1. Len(ops) = 0
  BY EmptySeq
<1>2. 1..Len(ops) = {}
  BY <1>1
<1> QED
  BY <1>2 DEF Writes, Deletes

\* What every handler leaves of the state, and what it finds.
LEMMA HandlerFacts ==
  ASSUME FilesInv, NEW kind, Handle(kind)
  PROVE  /\ phase = "run" /\ ops = <<>> /\ DownInv'
         /\ UNCHANGED <<phase, session, netCmd, disk, loadOk>>
         /\ ioQueue \in Seq(AnyAlert) /\ ioQueue # <<>> /\ ioQueue' = Tail(ioQueue)
         /\ Head(ioQueue) \in AnyAlert /\ Head(ioQueue).kind = kind
         /\ Head(ioQueue).hash \in Hashes
         /\ \A h : ~Writes(h) /\ ~Deletes(h)
         /\ \A h : Comes(h) => Comes(h)'
         /\ \A h : h \in OnDisk <=> (h \in OnDisk)'
         /\ \A h : Dead(h) => Gone(ioQueue', h)
<1>1. TypeOK
  BY DEF FilesInv, StoreInv
<1>2. /\ phase = "run" /\ ops = <<>>
      /\ UNCHANGED <<phase, session, netCmd, disk, loadOk>>
      /\ ioQueue \in Seq(AnyAlert) /\ ioQueue # <<>> /\ ioQueue' = Tail(ioQueue)
  BY <1>1 DEF Handle, TypeOK
<1>3. DownInv'
  BY <1>2 DEF DownInv
<1>4. \A h : (Comes(h) => Comes(h)') /\ (h \in OnDisk <=> (h \in OnDisk)')
  BY <1>2 DEF Comes, OnDisk
<1>5. ASSUME NEW h, Dead(h) PROVE Gone(ioQueue', h)
  <2>1. PICK i \in 2..Len(ioQueue) : ioQueue[i] = Alert("removed", h)
    BY <1>5 DEF Dead
  <2>2. /\ Len(ioQueue) \in Nat /\ Len(ioQueue') = Len(ioQueue) - 1
        /\ \A j \in 1..Len(ioQueue') : ioQueue'[j] = ioQueue[j + 1]
    BY <1>2, HeadTailProperties, LenProperties
  <2>3. i - 1 \in 1..Len(ioQueue') /\ ioQueue'[i - 1] = Alert("removed", h)
    BY <2>1, <2>2
  <2> QED
    BY <2>3 DEF Gone
<1> QED
  BY <1>1, <1>2, <1>3, <1>4, <1>5, HandleFacts, NoOps

\* The handlers of torrent.added and torrent.metadataReceived: the file is there or being
\* written unless the torrent is gone meanwhile.
LEMMA SaveFiles ==
  ASSUME FilesInv, HandleAdded \/ HandleMetadata
  PROVE  DownInv' /\ \A h \in Hashes : TorrentInv(h)'
<1>0. PICK g : g = Head(ioQueue).hash
  OBVIOUS
<1>1. PICK kind \in {"added", "metadata"} : Handle(kind)
  BY DEF HandleAdded, HandleMetadata
<1>2. SaveTorrent(g) /\ options' = options
  BY <1>0 DEF HandleAdded, HandleMetadata
<1>3. /\ phase = "run" /\ ops = <<>> /\ DownInv'
      /\ UNCHANGED <<phase, session, netCmd, disk, loadOk>>
      /\ ioQueue \in Seq(AnyAlert) /\ ioQueue # <<>> /\ ioQueue' = Tail(ioQueue)
      /\ Head(ioQueue) \in AnyAlert /\ Head(ioQueue).kind = kind
      /\ g \in Hashes
      /\ \A h : ~Writes(h) /\ ~Deletes(h)
      /\ \A h : Comes(h) => Comes(h)'
      /\ \A h : h \in OnDisk <=> (h \in OnDisk)'
      /\ \A h : Dead(h) => Gone(ioQueue', h)
  BY <1>0, <1>1, HandlerFacts
<1>4. \A h : Head(ioQueue) # Alert("removed", h)
  <2>1. \A h : Alert("removed", h).kind = "removed"
    BY DEF Alert
  <2> QED
    BY <1>3, <2>1
<1>5. /\ \A h : ~Deletes(h)'
      /\ \A h : Writes(h)' => h = g /\ (session[h] = "full" \/ Dead(h))
      /\ disk[g]["torrent"] = "none" /\ session[g] = "full" /\ ~Dead(g) => Writes(g)'
  <2>1. CASE ops' = <<>>
    <3>1. \A h : ~Writes(h)' /\ ~Deletes(h)'
      BY <2>1, EmptySeq DEF Writes, Deletes
    <3>2. disk[g]["torrent"] = "none" /\ session[g] = "full" /\ ~Dead(g) =>
            ops' = Write(g, "torrent", "whole")
      BY <1>2 DEF SaveTorrent
    <3>3. Write(g, "torrent", "whole") # <<>>
      BY DEF Write
    <3> QED
      BY <2>1, <3>1, <3>2, <3>3
  <2>2. CASE ops' # <<>>
    <3>1. /\ ops' = Write(g, "torrent", "whole") /\ disk[g]["torrent"] = "none"
          /\ session[g] = "full" \/ Dead(g)
      BY <1>2, <2>2 DEF SaveTorrent
    <3>2. "torrent" \in Kinds /\ "whole" \in Content
      BY DEF Kinds, Content
    <3>3. /\ Len(ops') = 2
          /\ ops'[1] = [hash |-> g, kind |-> "torrent", to |-> "torn"]
          /\ ops'[2] = [hash |-> g, kind |-> "torrent", to |-> "whole"]
      BY <1>3, <3>1, <3>2, WriteShape
    <3>4. 2 \in 1..Len(ops') /\ \A i \in 1..Len(ops') : i = 1 \/ i = 2
      BY <3>3
    <3>5. /\ \A i \in 1..Len(ops') : ops'[i].hash = g /\ ops'[i].to # "none"
          /\ ops'[2].kind = "torrent"
      BY <3>3, <3>4
    <3>6. \A h : DeleteTorrent(h).to = "none"
      BY DEF DeleteTorrent
    <3>7. \A h : ~Deletes(h)'
      BY <3>5, <3>6 DEF Deletes, DeleteTorrent
    <3>8. Writes(g)' /\ \A h : Writes(h)' => h = g
      BY <3>4, <3>5 DEF Writes
    <3> QED
      BY <3>1, <3>7, <3>8
  <2> QED
    BY <2>1, <2>2
<1>6. ASSUME NEW h \in Hashes PROVE TorrentInv(h)'
  <2>0. TorrentInv(h)
    BY DEF FilesInv
  <2>1. Gone(ioQueue', h) <=> Gone(ioQueue, h)
    BY <1>3, <1>4, GoneTail
  <2>2. \A kinds : Waits(ioQueue, kinds, h) =>
          Waits(ioQueue', kinds, h) \/ (kind \in kinds /\ g = h /\ ~Gone(ioQueue', h))
    BY <1>0, <1>3, WaitsTail
  <2>3. SavedInv(h)'
    <3>1. SUFFICES ASSUME session[h] = "full"
                   PROVE  \/ Waits(ioQueue', {"added", "metadata"}, h)
                          \/ ~Gone(ioQueue', h) /\ (Writes(h)' \/ (h \in OnDisk)')
      BY <1>3, <1>5 DEF SavedInv
    <3>2. \/ Waits(ioQueue, {"added", "metadata"}, h)
          \/ ~Gone(ioQueue, h) /\ h \in OnDisk
      BY <1>3, <2>0, <3>1 DEF TorrentInv, SavedInv
    <3>3. CASE g = h /\ ~Gone(ioQueue', h)
      <4>1. ~Dead(g)
        BY <1>3, <3>3
      <4>2. disk[g]["torrent"] = "none" => Writes(g)'
        BY <1>5, <3>1, <3>3, <4>1
      <4>3. disk[g]["torrent"] # "none" => (g \in OnDisk)'
        BY <1>3 DEF OnDisk
      <4> QED
        BY <3>3, <4>2, <4>3
    <3> QED
      BY <1>3, <2>1, <2>2, <3>2, <3>3
  <2>4. AssignedInv(h)'
    BY <1>2, <1>3, <2>0, <2>2 DEF TorrentInv, AssignedInv
  <2>5. GhostInv(h)'
    <3>1. SUFFICES ASSUME loadOk, (h \in OnDisk)' \/ Writes(h)'
                   PROVE  \/ session[h] = "full" \/ Gone(ioQueue', h)
                          \/ Comes(h)' /\ ~Writes(h)'
      BY <1>3 DEF GhostInv
    <3>2. CASE Writes(h)'
      BY <1>3, <1>5, <3>2
    <3>3. CASE (h \in OnDisk)' /\ ~Writes(h)'
      BY <1>3, <2>0, <2>1, <3>1, <3>3 DEF TorrentInv, GhostInv
    <3> QED
      BY <3>1, <3>2, <3>3
  <2> QED
    BY <2>3, <2>4, <2>5 DEF TorrentInv
<1> QED
  BY <1>3, <1>6

\* The handler of torrent.add: the torrent has options unless it is gone meanwhile.
LEMMA AssignFiles ==
  ASSUME FilesInv, HandleAdd
  PROVE  DownInv' /\ \A h \in Hashes : TorrentInv(h)'
<1>0. PICK a : a = Head(ioQueue)
  OBVIOUS
<1> DEFINE given == IF a.options = "none" THEN "default" ELSE a.options
<1>1. Handle("add") /\ ops' = ops
  BY DEF HandleAdd
<1>2. \/ options' = [options EXCEPT ![a.hash] = given]
      \/ Dead(a.hash) /\ options' = options
  BY <1>0 DEF HandleAdd
<1>3. /\ phase = "run" /\ ops = <<>> /\ DownInv'
      /\ UNCHANGED <<phase, session, netCmd, disk, loadOk>>
      /\ ioQueue \in Seq(AnyAlert) /\ ioQueue # <<>> /\ ioQueue' = Tail(ioQueue)
      /\ a \in AnyAlert /\ a.kind = "add" /\ a.hash \in Hashes
      /\ \A h : ~Writes(h) /\ ~Deletes(h)
      /\ \A h : Comes(h) => Comes(h)'
      /\ \A h : h \in OnDisk <=> (h \in OnDisk)'
      /\ \A h : Dead(h) => Gone(ioQueue', h)
  BY <1>0, <1>1, HandlerFacts
<1>4. \A h : a # Alert("removed", h)
  <2>1. \A h : Alert("removed", h).kind = "removed"
    BY DEF Alert
  <2> QED
    BY <1>3, <2>1
<1>5. given # "none"
  OBVIOUS
<1> HIDE DEF given
<1>6. \A h : ~Writes(h)' /\ ~Deletes(h)'
  BY <1>1, <1>3, EmptySeq DEF Writes, Deletes
<1>7. options \in [Hashes -> Given \cup {"none"}]
  BY DEF FilesInv, StoreInv, TypeOK
<1>8. ASSUME NEW h \in Hashes PROVE TorrentInv(h)'
  <2>0. TorrentInv(h)
    BY DEF FilesInv
  <2>1. Gone(ioQueue', h) <=> Gone(ioQueue, h)
    BY <1>0, <1>3, <1>4, GoneTail
  <2>2. \A kinds : Waits(ioQueue, kinds, h) =>
          Waits(ioQueue', kinds, h) \/ ("add" \in kinds /\ a.hash = h /\ ~Gone(ioQueue', h))
    BY <1>0, <1>3, WaitsTail
  <2>3. SavedInv(h)'
    BY <1>3, <1>6, <2>0, <2>1, <2>2 DEF TorrentInv, SavedInv
  <2>4. AssignedInv(h)'
    <3>1. options[h] # "none" => options'[h] # "none"
      BY <1>2, <1>5, <1>7
    <3>2. a.hash = h /\ ~Gone(ioQueue', h) => options'[h] # "none"
      BY <1>2, <1>3, <1>5, <1>7
    <3> QED
      BY <1>3, <2>0, <2>2, <3>1, <3>2 DEF TorrentInv, AssignedInv
  <2>5. GhostInv(h)'
    BY <1>3, <1>6, <2>0, <2>1 DEF TorrentInv, GhostInv
  <2> QED
    BY <2>3, <2>4, <2>5 DEF TorrentInv
<1> QED
  BY <1>3, <1>8

\* The handler of torrent.removed: the file that the torrent left goes.
LEMMA RemoveFiles ==
  ASSUME FilesInv, HandleRemoved
  PROVE  DownInv' /\ \A h \in Hashes : TorrentInv(h)'
<1>0. PICK g : g = Head(ioQueue).hash
  OBVIOUS
<1>1. /\ Handle("removed") /\ options' = options
      /\ ops' = Delete(g, "torrent") \o Delete(g, "resume") \o Delete(g, "metadata")
  BY <1>0 DEF HandleRemoved
<1>2. /\ phase = "run" /\ ops = <<>> /\ DownInv'
      /\ UNCHANGED <<phase, session, netCmd, disk, loadOk>>
      /\ ioQueue \in Seq(AnyAlert) /\ ioQueue # <<>> /\ ioQueue' = Tail(ioQueue)
      /\ Head(ioQueue) \in AnyAlert /\ Head(ioQueue).kind = "removed"
      /\ g \in Hashes
      /\ \A h : ~Writes(h) /\ ~Deletes(h)
      /\ \A h : Comes(h) => Comes(h)'
      /\ \A h : h \in OnDisk <=> (h \in OnDisk)'
  BY <1>0, <1>1, HandlerFacts
<1>3. Head(ioQueue) = Alert("removed", g) /\ \A h : h # g => Head(ioQueue) # Alert("removed", h)
  BY <1>0, <1>2 DEF AnyAlert, Alert
<1>4. Deletions(g, ops') /\ (disk[g]["torrent"] = "none" \/ (Len(ops') >= 1 /\ ops'[1] = DeleteTorrent(g)))
  BY <1>1, <1>2, DeletionsShape
<1>5. \A h : ~Writes(h)'
  BY <1>4 DEF Deletions, Writes
<1>6. \A h : h # g => ~Deletes(h)'
  BY <1>4 DEF Deletions, Deletes, DeleteTorrent
<1>7. (g \in OnDisk)' => Deletes(g)'
  <2>1. SUFFICES ASSUME disk[g]["torrent"] # "none" PROVE Deletes(g)'
    BY <1>2 DEF OnDisk
  <2>2. 1 \in 1..Len(ops') /\ ops'[1] = DeleteTorrent(g)
    BY <1>4, <2>1, LenProperties DEF Deletions
  <2> QED
    BY <2>2 DEF Deletes
<1>8. ASSUME NEW h \in Hashes PROVE TorrentInv(h)'
  <2>0. TorrentInv(h)
    BY DEF FilesInv
  <2>1. \A kinds : "removed" \notin kinds /\ Waits(ioQueue, kinds, h) => Waits(ioQueue', kinds, h)
    BY <1>2, WaitsTail
  <2>2. Waits(ioQueue, {"added", "metadata"}, h) => Waits(ioQueue', {"added", "metadata"}, h)
    BY <2>1
  <2>3. Waits(ioQueue, {"add"}, h) => Waits(ioQueue', {"add"}, h)
    BY <2>1
  <2>4. Gone(ioQueue', h) => Gone(ioQueue, h)
    BY <1>2, GoneTail
  <2>5. h # g /\ Gone(ioQueue, h) => Gone(ioQueue', h)
    BY <1>2, <1>3, GoneTail
  <2>6. h = g => Gone(ioQueue, h)
    BY <1>2, <1>3, HeadElement DEF Gone
  <2>7. SavedInv(h)'
    BY <1>2, <1>6, <2>0, <2>2, <2>4, <2>6 DEF TorrentInv, SavedInv
  <2>8. AssignedInv(h)'
    BY <1>1, <1>2, <2>0, <2>3 DEF TorrentInv, AssignedInv
  <2>9. GhostInv(h)'
    BY <1>2, <1>5, <1>7, <2>0, <2>5 DEF TorrentInv, GhostInv
  <2> QED
    BY <2>7, <2>8, <2>9 DEF TorrentInv
<1> QED
  BY <1>2, <1>8

\* A file operation: what was to be written is there, what was to be deleted is not.
LEMMA DoOpFiles ==
  ASSUME FilesInv, DoOp
  PROVE  DownInv' /\ \A h \in Hashes : TorrentInv(h)'
<1>0. TypeOK /\ DeleteInv
  BY DEF FilesInv, StoreInv
<1>1. PICK o : o = ops[1]
  OBVIOUS
<1>2. /\ 1 \in 1..Len(ops) /\ o \in FileOp
      /\ \A i \in 1..Len(ops') :
           i + 1 \in 1..Len(ops) /\ i + 1 # 1 /\ ops'[i] = ops[i + 1] /\ ops'[i] \in FileOp
      /\ \A h \in Hashes, k \in Kinds :
           disk'[h][k] = IF h = o.hash /\ k = o.kind THEN o.to ELSE disk[h][k]
  BY <1>0, <1>1, DoOpFacts
<1>3. \A i \in 1..Len(ops) : i # 1 => i - 1 \in 1..Len(ops') /\ ops'[i - 1] = ops[i]
  <2>1. ops \in Seq(FileOp) /\ ops # <<>> /\ ops' = Tail(ops)
    BY <1>0 DEF TypeOK, DoOp
  <2>2. Len(ops') = Len(ops) - 1 /\ Len(ops) \in Nat
    BY <2>1, HeadTailProperties, LenProperties
  <2>3. \A i \in 1..Len(ops') : ops'[i] = ops[i + 1]
    BY <2>1, HeadTailProperties
  <2> QED
    BY <2>2, <2>3
<1>4. UNCHANGED <<phase, session, netCmd, ioQueue, options, loadOk>> /\ ops # <<>>
  BY DEF DoOp
<1>5. phase # "down"
  BY <1>4 DEF FilesInv, DownInv
<1>6. DownInv'
  BY <1>4, <1>5 DEF DownInv
<1>7. ASSUME NEW h \in Hashes PROVE TorrentInv(h)'
  <2>0. TorrentInv(h)
    BY DEF FilesInv
  <2>1. /\ Gone(ioQueue, h)' <=> Gone(ioQueue, h)
        /\ \A kinds : Waits(ioQueue, kinds, h)' <=> Waits(ioQueue, kinds, h)
        /\ Comes(h)' <=> Comes(h)
    BY <1>4 DEF Gone, Waits, Comes
  <2> DEFINE ofH == o.hash = h /\ o.kind = "torrent"
  <2>2. /\ ofH /\ o.to # "none" => (h \in OnDisk)'
        /\ ofH /\ o.to = "none" => ~(h \in OnDisk)'
        /\ ~ofH => ((h \in OnDisk)' <=> h \in OnDisk)
    <3>1. "torrent" \in Kinds
      BY DEF Kinds
    <3> QED
      BY <1>2, <1>7, <3>1 DEF OnDisk
  <2>3. /\ Writes(h)' => Writes(h)
        /\ Deletes(h)' => Deletes(h)
    <3>1. \A i \in 1..Len(ops') : i + 1 \in 1..Len(ops) /\ ops'[i] = ops[i + 1]
      BY <1>2
    <3>2. ASSUME NEW i \in 1..Len(ops'), ops'[i] = DeleteTorrent(h) PROVE Deletes(h)
      BY <3>1, <3>2 DEF Deletes
    <3>3. ASSUME NEW i \in 1..Len(ops'), ops'[i].hash = h, ops'[i].kind = "torrent",
                 ops'[i].to # "none"
          PROVE  Writes(h)
      BY <3>1, <3>3 DEF Writes
    <3>4. Deletes(h)' => \E i \in 1..Len(ops') : ops'[i] = DeleteTorrent(h)
      BY DEF Deletes, DeleteTorrent
    <3> QED
      BY <3>2, <3>3, <3>4 DEF Writes
  <2>4. Writes(h) => Writes(h)' \/ (ofH /\ o.to # "none")
    BY <1>1, <1>3 DEF Writes
  <2>5. Deletes(h) => Deletes(h)' \/ (ofH /\ o.to = "none")
    BY <1>1, <1>3 DEF Deletes, DeleteTorrent
  <2>6. ofH /\ o.to = "none" => Deletes(h)
    <3>1. ofH /\ o.to = "none" => o = DeleteTorrent(h)
      BY <1>2 DEF FileOp, DeleteTorrent
    <3> QED
      BY <1>1, <1>2, <3>1 DEF Deletes
  <2>7. ~(Writes(h) /\ Deletes(h))
    <3>1. SUFFICES ASSUME Writes(h), Deletes(h) PROVE FALSE
      OBVIOUS
    <3>2. PICK i \in 1..Len(ops) : ops[i] = DeleteTorrent(h)
      BY <3>1 DEF Deletes
    <3>3. ops[i].to = "none"
      BY <3>2 DEF DeleteTorrent
    <3>4. \A j \in 1..Len(ops) : ops[j].to = "none"
      BY <1>0, <3>3 DEF DeleteInv
    <3> QED
      BY <3>1, <3>4 DEF Writes
  <2>8. ofH /\ o.to # "none" => Writes(h)
    BY <1>1, <1>2 DEF Writes
  <2> HIDE DEF ofH
  <2>9. SavedInv(h)'
    BY <1>4, <2>0, <2>1, <2>2, <2>3, <2>4, <2>6, <2>7, <2>8 DEF TorrentInv, SavedInv
  <2>10. AssignedInv(h)'
    BY <1>4, <2>0, <2>1 DEF TorrentInv, AssignedInv
  <2>11. GhostInv(h)'
    BY <1>4, <2>0, <2>1, <2>2, <2>3, <2>5, <2>7, <2>8 DEF TorrentInv, GhostInv
  <2> QED
    BY <2>9, <2>10, <2>11 DEF TorrentInv
<1> QED
  BY <1>6, <1>7

\* The stop and the end.
LEMMA EndFiles ==
  ASSUME FilesInv,
         Stop \/ AskSaves \/ (\E h \in Hashes : SaveAnswer(h)) \/ Exit \/ Crash
  PROVE  DownInv' /\ \A h \in Hashes : TorrentInv(h)'
<1>1. phase' # "run"
  BY DEF Stop, AskSaves, SaveAnswer, Exit, Crash, Vanish
<1>2. DownInv'
  BY DEF DownInv, Stop, AskSaves, SaveAnswer, Exit, Crash, Vanish, Nothing
<1> QED
  BY <1>1, <1>2, NotRunning

\* The commands of a start whose load comes to its end: one add, with its info, for each
\* torrent that has a file.
LEMMA CompleteLoad ==
  ASSUME StoreInv, Restart, loadOk', NEW h \in OnDisk
  PROVE  \E i \in 1..Len(netCmd') :
           /\ netCmd'[i].op = "add" /\ netCmd'[i].hash = h /\ netCmd'[i].info = "full"
           /\ \A j \in 1..Len(netCmd') : j < i => netCmd'[j].hash # h
<1> DEFINE Add(g) == [op |-> "add", hash |-> g, info |-> "full",
                      options |-> disk[g]["metadata"],
                      resumed |-> disk[g]["resume"] = "whole"]
<1>1. PICK order \in SetToSeqs(OnDisk) : netCmd' = [i \in 1..Len(order) |-> Add(order[i])]
  BY DEF Restart
<1> DEFINE n == Cardinality(OnDisk)
<1>3. IsFiniteSet(OnDisk) /\ n \in Nat
  <2>1. OnDisk \subseteq Hashes
    BY DEF OnDisk
  <2> QED
    BY <2>1, HashesAssumption, FS_Subset, FS_CardinalityType
<1>4. /\ order \in [1..n -> OnDisk]
      /\ \A i, j \in 1..n : i # j => order[i] # order[j]
  BY <1>1 DEF SetToSeqs
<1>5. Len(order) = n
  BY <1>3, <1>4, FunctionSeq
<1>6. PICK i \in 1..n : order[i] = h
  <2>1. order \in Injection(1..n, OnDisk)
    BY <1>4 DEF Injection, IsInjective
  <2>2. IsFiniteSet(1..n) /\ Cardinality(1..n) = n
    BY <1>3, FS_Interval
  <2>3. order \in Surjection(1..n, OnDisk)
    BY <1>3, <2>1, <2>2, FS_Injection
  <2> QED
    BY <2>3 DEF Surjection
<1>7. /\ \A g : Add(g).op = "add" /\ Add(g).hash = g /\ Add(g).info = "full"
      /\ Len(netCmd') = n
      /\ \A j \in 1..n : netCmd'[j] = Add(order[j])
  <2>1. \A g : Add(g).op = "add" /\ Add(g).hash = g /\ Add(g).info = "full"
    OBVIOUS
  <2> HIDE DEF Add
  <2>2. netCmd' \in [1..n -> {Add(g) : g \in OnDisk}]
    BY <1>1, <1>4, <1>5
  <2>3. Len(netCmd') = n
    BY <1>3, <2>2, FunctionSeq
  <2> QED
    BY <1>1, <1>5, <2>1, <2>3
<1> HIDE DEF Add, n
<1>8. \A j \in 1..Len(netCmd') : j < i => netCmd'[j].hash # h
  BY <1>3, <1>4, <1>6, <1>7
<1> QED
  BY <1>6, <1>7, <1>8

\* A start.
LEMMA RestartFiles ==
  ASSUME FilesInv, Restart
  PROVE  DownInv' /\ \A h \in Hashes : TorrentInv(h)'
<1>1. /\ phase = "down" /\ phase' = "run"
      /\ UNCHANGED <<session, ioQueue, ops, disk>>
  BY DEF Restart
<1>2. (\A h \in Hashes : session[h] = "absent") /\ ops = <<>>
  BY <1>1 DEF FilesInv, DownInv
<1>3. DownInv'
  BY <1>1 DEF DownInv
<1>4. ASSUME NEW h \in Hashes PROVE TorrentInv(h)'
  <2>1. session'[h] = "absent"
    BY <1>1, <1>2
  <2>2. ~Writes(h)'
    BY <1>1, <1>2, NoOps DEF Writes
  <2>3. loadOk' /\ h \in OnDisk => Comes(h)'
    BY <2>1, CompleteLoad DEF FilesInv, Comes
  <2>4. (h \in OnDisk)' => h \in OnDisk
    BY <1>1 DEF OnDisk
  <2>5. GhostInv(h)'
    BY <2>2, <2>3, <2>4 DEF GhostInv
  <2> QED
    BY <2>1, <2>5 DEF TorrentInv, SavedInv, AssignedInv
<1> QED
  BY <1>3, <1>4

\* Before the first start there is nothing.
LEMMA InitFiles == Init => FilesInv
<1> SUFFICES ASSUME Init PROVE FilesInv
  OBVIOUS
<1>1. DownInv
  BY DEF Init, DownInv, Nothing
<1>2. \A h \in Hashes : TorrentInv(h)
  BY DEF Init, TorrentInv, SavedInv, AssignedInv, GhostInv
<1> QED
  BY <1>1, <1>2, InitStore DEF FilesInv

\* No step breaks the invariant.
LEMMA StepFiles == FilesInv /\ [Next]_vars => FilesInv'
<1> SUFFICES ASSUME FilesInv, [Next]_vars PROVE DownInv' /\ \A h \in Hashes : TorrentInv(h)'
  BY StepStore DEF FilesInv
<1>1. ASSUME NEW g \in Hashes,
             \/ \E info \in {"full", "magnet"} : AddTorrent(g, info)
             \/ \E o \in Options : SetOptions(g, o)
             \/ RemoveTorrent(g) \/ Touch(g)
      PROVE  DownInv' /\ \A h \in Hashes : TorrentInv(h)'
  BY <1>1, CommandFiles
<1>2. ASSUME NEW g \in Hashes, NetMetadata(g)
      PROVE  DownInv' /\ \A h \in Hashes : TorrentInv(h)'
  BY <1>2, NetMetadataFiles
<1>3. CASE NetAdd
  BY <1>3, NetAddFiles
<1>4. CASE NetRemove
  BY <1>4, NetRemoveFiles
<1>5. CASE HandleAdded \/ HandleMetadata
  BY <1>5, SaveFiles
<1>6. CASE HandleAdd
  BY <1>6, AssignFiles
<1>7. CASE HandleRemoved
  BY <1>7, RemoveFiles
<1>8. CASE DoOp
  BY <1>8, DoOpFiles
<1>9. CASE Stop \/ AskSaves \/ (\E h \in Hashes : SaveAnswer(h)) \/ Exit \/ Crash
  BY <1>9, EndFiles
<1>10. CASE Restart
  BY <1>10, RestartFiles
<1>11. CASE NetRefuse
  BY <1>11, NetRefuseFiles
<1>12. CASE UNCHANGED vars
  <2>1. UNCHANGED <<phase, session, ioQueue, ops, disk, loadOk, options, netCmd>>
    BY <1>12 DEF vars, memory
  <2>2. DownInv'
    BY <2>1 DEF FilesInv, DownInv
  <2>3. \A h \in Hashes : Comes(h) => Comes(h)'
    BY <2>1 DEF Comes
  <2> QED
    BY <2>1, <2>2, <2>3, SameTorrent DEF FilesInv
<1> QED
  BY <1>1, <1>2, <1>3, <1>4, <1>5, <1>6, <1>7, <1>8, <1>9, <1>10, <1>11, <1>12 DEF Next

\* The invariant holds of the files and the session in every reachable state.
THEOREM FilesSafety == Spec => []FilesInv
<1> QED
  BY InitFiles, StepFiles, PTL DEF Spec

\* Nothing waits for a torrent that is settled.
LEMMA SettledQuiet ==
  ASSUME FilesInv, NEW h \in Hashes, Settled(h)
  PROVE  /\ phase = "run" /\ ~Writes(h) /\ ~Deletes(h) /\ ~Comes(h) /\ ~Gone(ioQueue, h)
         /\ \A kinds : ~Waits(ioQueue, kinds, h)
<1>1. phase = "run" /\ ~Writes(h) /\ ~Deletes(h)
  BY NoOps DEF Settled
<1>2. ~Comes(h)
  BY DEF Settled, Pending, Comes
<1>3. ~Gone(ioQueue, h)
  BY DEF Settled, Pending, Gone, Alert
<1>4. \A kinds : ~Waits(ioQueue, kinds, h)
  BY DEF Settled, Pending, Waits
<1> QED
  BY <1>1, <1>2, <1>3, <1>4

\* saveTorrent has written a file for every torrent whose info is known, in whatever order
\* adds, removals, late info, crashes and starts came.
THEOREM TorrentsPersist == Spec => []Persisted
<1>1. FilesInv => Persisted
  <2> SUFFICES ASSUME FilesInv, NEW h \in Hashes, Settled(h), session[h] = "full"
               PROVE  h \in OnDisk
    BY DEF Persisted
  <2> QED
    BY SettledQuiet DEF FilesInv, TorrentInv, SavedInv
<1> QED
  BY FilesSafety, <1>1, PTL

\* The handler of torrent.removed leaves no file that would bring a torrent back, unless
\* what was on disk at the last start did not come in whole: a torn or empty file cut the
\* load short, or libtorrent refused an add.
THEOREM NothingComesBack == Spec => []NoGhosts
<1>1. FilesInv => NoGhosts
  <2> SUFFICES ASSUME FilesInv, NEW h \in Hashes, Settled(h), loadOk, session[h] # "full"
               PROVE  h \notin OnDisk
    BY DEF NoGhosts
  <2> QED
    BY SettledQuiet DEF FilesInv, TorrentInv, GhostInv
<1> QED
  BY FilesSafety, <1>1, PTL

\* The handler of torrent.add gives options to every torrent that stays.
THEOREM AllHaveOptions == Spec => []OptionsAssigned
<1>1. FilesInv => OptionsAssigned
  <2> SUFFICES ASSUME FilesInv, NEW h \in Hashes, Settled(h), session[h] # "absent"
               PROVE  options[h] # "none"
    BY DEF OptionsAssigned
  <2> QED
    BY SettledQuiet DEF FilesInv, TorrentInv, AssignedInv
<1> QED
  BY FilesSafety, <1>1, PTL

-----------------------------------------------------------------------------
(* The way of a torrent *)

\* Nobody removes a torrent; what waits to be added comes as it was given, unless it
\* comes from its file; and a .torrent is only written, of a torrent with its info.
AddsInv ==
  \A i \in 1..Len(netCmd) :
    /\ netCmd[i].op = "add"
    /\ disk[netCmd[i].hash]["torrent"] = "whole" \/ netCmd[i].info = InfoOf(netCmd[i].hash)
StaysInv == \A i \in 1..Len(ioQueue) : ioQueue[i].kind # "removed"
WriteInv ==
  /\ \A i \in 1..Len(ops) : ops[i].kind = "torrent" =>
       phase = "run" /\ ops[i].to \in {"torn", "whole"} /\ session[ops[i].hash] = "full"
  /\ \A h \in Hashes : disk[h]["torrent"] \in {"none", "torn", "whole"}
UseInv == FilesInv /\ AddsInv /\ StaysInv /\ WriteInv

\* A step's own part of the invariant; the rest is a step of the whole store.
Uses == AddsInv /\ StaysInv /\ WriteInv

\* The stage of h depends on its file, the session and the commands.
LEMMA StageSame ==
  ASSUME NEW h \in Hashes,
         disk'[h]["torrent"] = disk[h]["torrent"] \/ "whole" \notin {disk[h]["torrent"], disk'[h]["torrent"]},
         session'[h] = session[h],
         session[h] \in {"full", "magnet"} \/ disk[h]["torrent"] = "whole" \/ Queued(h)' = Queued(h)
  PROVE  StageOf(h)' = StageOf(h)
BY DEF StageOf

\* A step that moves nothing is one of the life of the process.
LEMMA Rests ==
  ASSUME \A h \in Hashes : StageOf(h)' = StageOf(h), UNCHANGED <<dropped, refused>>,
         \/ UNCHANGED phase
         \/ phase = "down" /\ phase' = "run"
         \/ phase = "run" /\ phase' = "stopping"
         \/ phase = "stopping" /\ phase' = "saving"
  PROVE  Way!IntakeNext
<1>1. [h \in Hashes |-> StageOf(h)]' = [h \in Hashes |-> StageOf(h)]
  OBVIOUS
<1>2. \/ <<Phases[phase], Phases[phase']>>
           \in {<<"down", "run">>, <<"run", "stop">>, <<"stop", "write">>}
      \/ Phases[phase'] = Phases[phase]
  BY DEF Phases
<1> QED
  BY <1>1, <1>2 DEF Way!IntakeNext, Way!Lifecycle

\* A process is up here when it is there.
LEMMA Awake == UseInv /\ phase # "down" => Phases[phase] # "down"
BY DEF UseInv, FilesInv, StoreInv, TypeOK, Phases

\* A step that moves one torrent on.
LEMMA Moves ==
  ASSUME NEW h \in Hashes, NEW from, NEW to, StageOf(h) = from, StageOf(h)' = to,
         \A g \in Hashes \ {h} : StageOf(g)' = StageOf(g),
         UNCHANGED <<phase, dropped, refused>>
  PROVE  Way!Move(h, from, to)
<1>1. [g \in Hashes |-> StageOf(g)]' = [[g \in Hashes |-> StageOf(g)] EXCEPT ![h] = to]
  OBVIOUS
<1> QED
  BY <1>1 DEF Way!Move

\* Of commands taken from the front, those about other torrents are still there.
LEMMA QueuedTail ==
  ASSUME TypeOK, netCmd # <<>>, netCmd' = Tail(netCmd), NEW h \in Hashes, h # Head(netCmd).hash
  PROVE  Queued(h)' = Queued(h)
<1>1. netCmd \in Seq(AnyCommand)
  BY DEF TypeOK
<1>2. Len(netCmd) \in Nat /\ Len(netCmd') = Len(netCmd) - 1 /\ Head(netCmd) = netCmd[1]
      /\ \A i \in 1..Len(netCmd') : netCmd'[i] = netCmd[i + 1]
  BY <1>1, HeadTailProperties, HeadElement, LenProperties
<1>3. Queued(h) => Queued(h)'
  <2> SUFFICES ASSUME NEW i \in 1..Len(netCmd), netCmd[i].hash = h PROVE Queued(h)'
    BY DEF Queued
  <2>1. i # 1
    BY <1>2
  <2>2. i - 1 \in 1..Len(netCmd') /\ netCmd'[i - 1] = netCmd[i]
    BY <1>2, <2>1
  <2> QED
    BY <2>2 DEF Queued
<1>4. Queued(h)' => Queued(h)
  <2> SUFFICES ASSUME NEW i \in 1..Len(netCmd'), netCmd'[i].hash = h PROVE Queued(h)
    BY DEF Queued
  <2>1. i + 1 \in 1..Len(netCmd) /\ netCmd'[i] = netCmd[i + 1]
    BY <1>2
  <2> QED
    BY <2>1 DEF Queued
<1> QED
  BY <1>3, <1>4 DEF Queued

-----------------------------------------------------------------------------
\* A script gives a torrent to the session.
LEMMA AddsWay ==
  ASSUME UseInv, NEW h \in Hashes, ScriptAdds(h)
  PROVE  Uses' /\ Way!IntakeNext
<1> DEFINE c == [op |-> "add", hash |-> h, info |-> InfoOf(h), options |-> "none",
                 resumed |-> FALSE]
<1>1. /\ netCmd' = Append(netCmd, c) /\ phase \in {"run", "stopping"} /\ ops = <<>>
      /\ UNCHANGED <<phase, session, ioQueue, ops, disk>>
      /\ dropped' = dropped \ {h} /\ refused' = refused \ {h}
  BY DEF ScriptAdds, AddTorrent, Command
<1>2. c.op = "add" /\ c.hash = h /\ c.info = InfoOf(h) /\ c \in AnyCommand
  BY DEF AnyCommand, AddCommand, InfoOf
<1> HIDE DEF c
<1>3. netCmd \in Seq(AnyCommand) /\ session \in [Hashes -> {"absent", "magnet", "full"}]
  BY DEF UseInv, FilesInv, StoreInv, TypeOK
<1>4. /\ Len(netCmd') = Len(netCmd) + 1 /\ Len(netCmd) \in Nat
      /\ \A i \in 1..Len(netCmd) : netCmd'[i] = netCmd[i]
      /\ netCmd'[Len(netCmd) + 1] = c
  BY <1>1, <1>2, <1>3, AppendProperties, LenProperties
<1>5. \A i \in 1..Len(netCmd') :
        netCmd'[i] = c \/ \E j \in 1..Len(netCmd) : netCmd'[i] = netCmd[j]
  BY <1>4
<1>6. AddsInv'
  <2> SUFFICES ASSUME NEW i \in 1..Len(netCmd')
               PROVE  /\ netCmd'[i].op = "add"
                      /\ disk[netCmd'[i].hash]["torrent"] = "whole"
                           \/ netCmd'[i].info = InfoOf(netCmd'[i].hash)
    BY <1>1 DEF AddsInv, InfoOf
  <2> QED
    BY <1>2, <1>5 DEF UseInv, AddsInv
<1>7. StaysInv' /\ WriteInv'
  BY <1>1 DEF UseInv, StaysInv, WriteInv
<1>8. Queued(h)' /\ \A g \in Hashes \ {h} : Queued(g)' = Queued(g)
  <2>1. Queued(h)'
    <3>1. Len(netCmd) + 1 \in 1..Len(netCmd')
      BY <1>4
    <3> QED
      BY <1>2, <1>4, <3>1 DEF Queued
  <2>2. ASSUME NEW g \in Hashes \ {h} PROVE Queued(g)' = Queued(g)
    <3>1. Queued(g) => Queued(g)'
      BY <1>4 DEF Queued
    <3>2. Queued(g)' => Queued(g)
      BY <1>2, <1>5 DEF Queued
    <3> QED
      BY <3>1, <3>2 DEF Queued
  <2> QED
    BY <2>1, <2>2
<1>9. \A g \in Hashes :
        StageOf(g)' = IF g \in {h} /\ StageOf(g) = "none" THEN "queued" ELSE StageOf(g)
  <2>1. \A g \in Hashes \ {h} : StageOf(g)' = StageOf(g)
    BY <1>1, <1>8, StageSame
  <2>2. StageOf(h)' = IF StageOf(h) = "none" THEN "queued" ELSE StageOf(h)
    BY <1>1, <1>3, <1>8 DEF StageOf
  <2> QED
    BY <2>1, <2>2
<1>10. Way!AddTorrents({h})
  <2>1. [g \in Hashes |-> StageOf(g)]'
          = [t \in Hashes |-> IF t \in {h} /\ [g \in Hashes |-> StageOf(g)][t] = "none"
                                THEN "queued" ELSE [g \in Hashes |-> StageOf(g)][t]]
    BY <1>9
  <2>2. FileHashes \cup LinkHashes = Hashes
    BY DEF FileHashes, LinkHashes
  <2> QED
    BY <1>1, <2>1, <2>2 DEF Way!AddTorrents, Way!Torrents
<1>11. {h} \in SUBSET (FileHashes \cup LinkHashes)
  BY DEF FileHashes, LinkHashes
<1>12. Way!Give
  BY <1>1, <1>10, <1>11 DEF Way!Give, Way!Torrents, Phases
<1> QED
  BY <1>6, <1>7, <1>12 DEF Uses, Way!IntakeNext

\* Commands, the session's torrents and files as they were, no new command.
LEMMA StillWay ==
  ASSUME UseInv, UNCHANGED <<session, netCmd, disk, dropped, refused>>,
         \/ UNCHANGED phase
         \/ phase = "run" /\ phase' = "stopping"
         \/ phase = "stopping" /\ phase' = "saving"
  PROVE  AddsInv' /\ Way!IntakeNext
<1>1. AddsInv'
  BY DEF UseInv, AddsInv, InfoOf
<1>2. \A h \in Hashes : StageOf(h)' = StageOf(h)
  BY StageSame DEF Queued
<1> QED
  BY <1>1, <1>2, Rests

\* Options, transfers, and the handler that assigns options.
LEMMA OptionsWay ==
  ASSUME UseInv, UNCHANGED <<dropped, refused>>,
         \/ \E h \in Hashes : Touch(h) \/ \E o \in Options : SetOptions(h, o)
         \/ HandleAdd
  PROVE  Uses' /\ Way!IntakeNext
<1>1. UNCHANGED <<phase, session, netCmd, disk, ops, dropped, refused>>
  BY DEF Touch, SetOptions, Command, NetFrame, HandleAdd, Handle
<1>2. StaysInv'
  <2>1. CASE HandleAdd
    <3>1. \A i \in 1..Len(ioQueue') : \E j \in 1..Len(ioQueue) : ioQueue'[i] = ioQueue[j]
      BY <2>1, HandleFacts DEF HandleAdd, UseInv, FilesInv, StoreInv
    <3> QED
      BY <3>1 DEF UseInv, StaysInv
  <2>2. CASE ~HandleAdd
    BY <2>2 DEF Touch, SetOptions, Command, UseInv, StaysInv
  <2> QED
    BY <2>1, <2>2
<1>3. WriteInv'
  BY <1>1 DEF UseInv, WriteInv
<1> QED
  BY <1>1, <1>2, <1>3, StillWay DEF Uses

\* saveTorrent, whose torrent is in the session: nothing was ever removed.
LEMMA SaveWay ==
  ASSUME UseInv, UNCHANGED <<dropped, refused>>, HandleAdded \/ HandleMetadata
  PROVE  Uses' /\ Way!IntakeNext
<1>1. PICK kind : Handle(kind)
  BY DEF HandleAdded, HandleMetadata
<1> DEFINE h == Head(ioQueue).hash
<1>2. /\ SaveTorrent(h) /\ phase = "run"
      /\ UNCHANGED <<phase, session, netCmd, disk, dropped, refused>>
  BY DEF HandleAdded, HandleMetadata, Handle
<1>3. /\ h \in Hashes
      /\ \A i \in 1..Len(ioQueue') : \E j \in 1..Len(ioQueue) : ioQueue'[i] = ioQueue[j]
  BY <1>1, HandleFacts DEF UseInv, FilesInv, StoreInv
<1>4. StaysInv'
  BY <1>3 DEF UseInv, StaysInv
<1>5. ~Dead(h)
  <2>1. \A i \in 2..Len(ioQueue) : i \in 1..Len(ioQueue)
    <3>1. Len(ioQueue) \in Nat
      BY DEF UseInv, FilesInv, StoreInv, TypeOK
    <3> QED
      BY <3>1
  <2>2. Alert("removed", h).kind = "removed"
    BY DEF Alert
  <2> QED
    BY <2>1, <2>2 DEF Dead, UseInv, StaysInv
<1>6. ops' = <<>> \/ (ops' = Write(h, "torrent", "whole") /\ session[h] = "full")
  BY <1>2, <1>5 DEF SaveTorrent
<1>7. WriteInv'
  <2>1. CASE ops' = <<>>
    <3>1. 1..Len(ops') = {}
      BY <2>1, NoOps, EmptySeq
    <3> QED
      BY <1>2, <3>1 DEF UseInv, WriteInv
  <2>2. CASE ops' = Write(h, "torrent", "whole") /\ session[h] = "full"
    <3>1. "torrent" \in Kinds /\ "whole" \in Content
      BY DEF Kinds, Content
    <3>2. /\ Len(ops') = 2
          /\ ops'[1] = [hash |-> h, kind |-> "torrent", to |-> "torn"]
          /\ ops'[2] = [hash |-> h, kind |-> "torrent", to |-> "whole"]
      BY <1>3, <2>2, <3>1, WriteShape
    <3>3. \A i \in 1..Len(ops') : i = 1 \/ i = 2
      BY <3>2
    <3>4. \A i \in 1..Len(ops') : ops'[i].hash = h /\ ops'[i].to \in {"torn", "whole"}
      BY <3>2, <3>3
    <3> QED
      BY <1>2, <2>2, <3>4 DEF UseInv, WriteInv
  <2> QED
    BY <1>6, <2>1, <2>2
<1> QED
  BY <1>2, <1>4, <1>7, StillWay DEF Uses

\* The end of the io_service's loop and saveTorrents, which write no .torrent.
LEMMA StopWay ==
  ASSUME UseInv, UNCHANGED <<dropped, refused>>, Stop \/ AskSaves \/ \E h \in Hashes : SaveAnswer(h)
  PROVE  Uses' /\ Way!IntakeNext
<1>1. /\ UNCHANGED <<session, netCmd, disk, dropped, refused>>
      /\ \/ UNCHANGED phase
         \/ phase = "run" /\ phase' = "stopping"
         \/ phase = "stopping" /\ phase' = "saving"
  BY DEF Stop, AskSaves, SaveAnswer
<1>2. StaysInv'
  <2>1. CASE Stop
    <3>1. 1..Len(ioQueue') = {}
      BY <2>1, EmptySeq DEF Stop
    <3> QED
      BY <3>1 DEF StaysInv
  <2>2. CASE ~Stop
    BY <2>2 DEF AskSaves, SaveAnswer, UseInv, StaysInv
  <2> QED
    BY <2>1, <2>2
<1>3. WriteInv'
  <2>1. CASE Stop \/ AskSaves
    <3>1. ops' = <<>>
      BY <2>1 DEF Stop, AskSaves
    <3>2. 1..Len(ops') = {}
      BY <3>1, EmptySeq
    <3> QED
      BY <1>1, <3>2 DEF UseInv, WriteInv
  <2>2. ASSUME NEW h \in Hashes, SaveAnswer(h) PROVE WriteInv'
    <3>1. CASE ops' = ops
      <4>1. 1..Len(ops') = {}
        BY <2>2, <3>1, EmptySeq DEF SaveAnswer
      <4> QED
        BY <1>1, <4>1 DEF UseInv, WriteInv
    <3>2. CASE ops' # ops
      <4>1. Saves(ops')
        BY <2>2, <3>2, AnswerSaves DEF UseInv, FilesInv, StoreInv
      <4> QED
        BY <1>1, <4>1 DEF UseInv, WriteInv, Saves
    <3> QED
      BY <3>1, <3>2
  <2> QED
    BY <2>1, <2>2
<1> QED
  BY <1>1, <1>2, <1>3, StillWay DEF Uses

\* A torrent of the session gets its info.
LEMMA InfoWay ==
  ASSUME UseInv, UNCHANGED <<dropped, refused>>, NEW h \in Hashes, NetMetadata(h)
  PROVE  Uses' /\ Way!IntakeNext
<1>1. /\ phase # "down" /\ session[h] = "magnet" /\ session' = [session EXCEPT ![h] = "full"]
      /\ UNCHANGED <<phase, netCmd, ops, disk, dropped, refused>> /\ Post(<<Alert("metadata", h)>>)
  BY DEF NetMetadata, NetFrame
<1>2. session \in [Hashes -> {"absent", "magnet", "full"}]
  BY DEF UseInv, FilesInv, StoreInv, TypeOK
<1>3. AddsInv' /\ WriteInv'
  <2>1. AddsInv'
    BY <1>1 DEF UseInv, AddsInv, InfoOf
  <2>2. \A g \in Hashes : session[g] = "full" => session'[g] = "full"
    BY <1>1, <1>2
  <2>3. \A i \in 1..Len(ops) : ops[i].hash \in Hashes
    <3>1. ops \in Seq(FileOp)
      BY DEF UseInv, FilesInv, StoreInv, TypeOK
    <3>2. \A i \in 1..Len(ops) : ops[i] \in FileOp
      BY <3>1, ElementOfSeq
    <3> QED
      BY <3>2 DEF FileOp
  <2> QED
    BY <1>1, <2>1, <2>2, <2>3 DEF UseInv, WriteInv
<1>4. StaysInv'
  <2>1. Alert("metadata", h) \in AnyAlert /\ Alert("metadata", h).kind = "metadata"
    BY DEF AnyAlert, Alert
  <2> DEFINE a == Alert("metadata", h)
  <2>2. a \in AnyAlert /\ a.kind = "metadata" /\ Post(<<a>>)
    BY <1>1, <2>1
  <2> HIDE DEF a
  <2>3. <<a>> \in Seq(AnyAlert) /\ \A i \in 1..Len(<<a>>) : <<a>>[i] = a
    BY <2>2
  <2>4. \A i \in 1..Len(ioQueue') :
          (\E j \in 1..Len(ioQueue) : ioQueue'[i] = ioQueue[j]) \/ ioQueue'[i] = a
    BY <2>2, <2>3, PostShape DEF UseInv, FilesInv, StoreInv
  <2> QED
    BY <2>2, <2>4 DEF UseInv, StaysInv
<1>5. \A g \in Hashes \ {h} : StageOf(g)' = StageOf(g)
  BY <1>1, <1>2, StageSame DEF Queued
<1>6. CASE disk[h]["torrent"] = "whole"
  <2>1. StageOf(h)' = StageOf(h)
    BY <1>1, <1>6 DEF StageOf
  <2> QED
    BY <1>1, <1>3, <1>4, <1>5, <2>1, Rests DEF Uses
<1>7. CASE disk[h]["torrent"] # "whole"
  <2>1. StageOf(h) = "held" /\ StageOf(h)' = "told"
    BY <1>1, <1>2, <1>7 DEF StageOf
  <2>2. Way!Move(h, "held", "told")
    BY <1>1, <1>5, <2>1, Moves
  <2>4. Way!NetInfo(h)
    BY <1>1, <2>2, Awake DEF Way!NetInfo
  <2>3. h \in FileHashes \cup LinkHashes
    BY DEF FileHashes, LinkHashes
  <2> QED
    BY <1>3, <1>4, <2>4, <2>3 DEF Uses, Way!IntakeNext, Way!IntakeStep, Way!Torrents
<1> QED
  BY <1>6, <1>7

\* The network thread adds a torrent, unless it has it.
LEMMA AddedWay ==
  ASSUME UseInv, UNCHANGED <<dropped, refused>>, NetAdd
  PROVE  Uses' /\ Way!IntakeNext
<1>1. /\ netCmd \in Seq(AnyCommand) /\ netCmd # <<>> /\ netCmd' = Tail(netCmd)
      /\ UNCHANGED <<phase, ops, disk, dropped, refused>>
  BY DEF NetAdd, NetCall, NetFrame, UseInv, FilesInv, StoreInv, TypeOK
<1>0. /\ Head(netCmd).hash \in Hashes /\ Head(netCmd) \in AnyCommand /\ Head(netCmd).op = "add"
      /\ \A i \in 1..Len(netCmd') : \E j \in 1..Len(netCmd) : netCmd'[i] = netCmd[j]
  BY NetCallFacts DEF NetAdd, UseInv, FilesInv, StoreInv
<1>c. PICK c \in AnyCommand : c = Head(netCmd)
  BY <1>0
<1>h. PICK h \in Hashes : h = Head(netCmd).hash
  BY <1>0
<1>2. c.op = "add" /\ c.hash = h
  BY <1>0, <1>c, <1>h
<1>3. 1 \in 1..Len(netCmd) /\ c = netCmd[1]
  BY <1>1, <1>c, HeadElement
<1>4. disk[h]["torrent"] = "whole" \/ c.info = InfoOf(h)
  BY <1>2, <1>3 DEF UseInv, AddsInv
<1>5. session \in [Hashes -> {"absent", "magnet", "full"}] /\ phase # "down"
  <2>1. phase # "down"
    BY <1>1 DEF UseInv, FilesInv, DownInv
  <2> QED
    BY <2>1 DEF UseInv, FilesInv, StoreInv, TypeOK
<1>6. session' = IF session[h] = "absent" THEN [session EXCEPT ![h] = c.info] ELSE session
  BY <1>2, <1>c DEF NetAdd
<1>7. AddsInv'
  BY <1>0, <1>1 DEF UseInv, AddsInv, InfoOf
<1>8. WriteInv'
  <2>1. \A g \in Hashes : session[g] = "full" => session'[g] = "full"
    BY <1>2, <1>5, <1>6
  <2>2. \A i \in 1..Len(ops) : ops[i].hash \in Hashes
    <3>1. ops \in Seq(FileOp)
      BY DEF UseInv, FilesInv, StoreInv, TypeOK
    <3>2. \A i \in 1..Len(ops) : ops[i] \in FileOp
      BY <3>1, ElementOfSeq
    <3> QED
      BY <3>2 DEF FileOp
  <2> QED
    BY <1>1, <2>1, <2>2 DEF UseInv, WriteInv
<1>9. StaysInv'
  <2> DEFINE answer == [kind |-> "add", hash |-> h, options |-> c.options]
  <2>1. c.options \in Given \cup {"none"}
    BY <1>2 DEF AnyCommand, AddCommand
  <2>2. answer \in AnyAlert /\ Alert("added", h) \in AnyAlert
    BY <1>2, <2>1 DEF AnyAlert, Alert
  <2>3. answer.kind # "removed" /\ Alert("added", h).kind # "removed"
    BY DEF Alert
  <2>4. Post(<<Alert("added", h), answer>>) \/ Post(<<answer>>)
    BY <1>2, <1>c DEF NetAdd
  <2> DEFINE first == Alert("added", h)
  <2> HIDE DEF answer, first
  <2>5. /\ <<first, answer>> \in Seq(AnyAlert) /\ <<answer>> \in Seq(AnyAlert)
        /\ \A i \in 1..Len(<<first, answer>>) : <<first, answer>>[i].kind # "removed"
        /\ \A i \in 1..Len(<<answer>>) : <<answer>>[i].kind # "removed"
    BY <2>2, <2>3 DEF first
  <2>6. PICK alerts \in Seq(AnyAlert) :
          Post(alerts) /\ \A i \in 1..Len(alerts) : alerts[i].kind # "removed"
    BY <2>4, <2>5 DEF first
  <2>7. \A i \in 1..Len(ioQueue') :
          \/ \E j \in 1..Len(ioQueue) : ioQueue'[i] = ioQueue[j]
          \/ \E j \in 1..Len(alerts) : ioQueue'[i] = alerts[j]
    BY <2>6, PostShape DEF UseInv, FilesInv, StoreInv
  <2> QED
    BY <2>6, <2>7 DEF UseInv, StaysInv
<1>10. \A g \in Hashes \ {h} : StageOf(g)' = StageOf(g)
  <2> SUFFICES ASSUME NEW g \in Hashes \ {h} PROVE StageOf(g)' = StageOf(g)
    OBVIOUS
  <2>1. Queued(g)' = Queued(g)
    BY <1>1, <1>h, QueuedTail DEF UseInv, FilesInv, StoreInv
  <2>2. session'[g] = session[g]
    BY <1>5, <1>6
  <2> QED
    BY <1>1, <2>1, <2>2, StageSame
<1>11. CASE disk[h]["torrent"] = "whole" \/ session[h] # "absent"
  <2>1. StageOf(h)' = StageOf(h)
    BY <1>1, <1>2, <1>5, <1>6, <1>11 DEF StageOf
  <2> QED
    BY <1>1, <1>7, <1>8, <1>9, <1>10, <2>1, Rests DEF Uses
<1>12. CASE disk[h]["torrent"] # "whole" /\ session[h] = "absent"
  <2>1. StageOf(h) = "queued"
    BY <1>2, <1>3, <1>5, <1>12 DEF StageOf, Queued
  <2>2. session'[h] = InfoOf(h)
    BY <1>2, <1>4, <1>5, <1>6, <1>12
  <2>3. StageOf(h)' = IF h \in Files THEN "told" ELSE "held"
    BY <1>1, <1>12, <2>2 DEF StageOf, InfoOf
  <2>4. Way!Move(h, "queued", IF h \in Files THEN "told" ELSE "held")
    BY <1>1, <1>2, <1>10, <2>1, <2>3, Moves
  <2>5. Way!NetAdd(h)
    BY <1>2, <1>5, <2>4, Awake DEF Way!NetAdd, FileHashes
  <2>6. h \in FileHashes \cup LinkHashes
    BY <1>2 DEF FileHashes, LinkHashes
  <2> QED
    BY <1>7, <1>8, <1>9, <2>5, <2>6 DEF Uses, Way!IntakeNext, Way!IntakeStep, Way!Torrents
<1> QED
  BY <1>11, <1>12

\* libtorrent refuses a torrent.  It is off the way, unless it is there or added again.
LEMMA RefusedWay ==
  ASSUME UseInv, Refuses
  PROVE  Uses' /\ Way!IntakeNext
<1>1. /\ netCmd \in Seq(AnyCommand) /\ netCmd # <<>> /\ netCmd' = Tail(netCmd)
      /\ UNCHANGED <<phase, session, ioQueue, ops, disk, dropped>>
      /\ refused' = refused \cup {g \in Hashes : StageOf(g) = "queued" /\ ~Queued(g)'}
  BY DEF Refuses, NetRefuse, NetCall, UseInv, FilesInv, StoreInv, TypeOK
<1>2. /\ Head(netCmd).hash \in Hashes
      /\ \A i \in 1..Len(netCmd') : \E j \in 1..Len(netCmd) : netCmd'[i] = netCmd[j]
  BY NetCallFacts DEF Refuses, NetRefuse, UseInv, FilesInv, StoreInv
<1>3. Uses'
  BY <1>1, <1>2 DEF UseInv, Uses, AddsInv, StaysInv, WriteInv, InfoOf
<1>h. PICK h \in Hashes : h = Head(netCmd).hash
  BY <1>2
<1>4. \A g \in Hashes \ {h} : Queued(g)' = Queued(g)
  BY <1>1, <1>h, QueuedTail DEF UseInv, FilesInv, StoreInv
<1>5. \A g \in Hashes \ {h} : StageOf(g)' = StageOf(g)
  BY <1>1, <1>4, StageSame
<1>6. \A g \in Hashes \ {h} : ~(StageOf(g) = "queued" /\ ~Queued(g)')
  BY <1>4 DEF StageOf
<1>7. CASE StageOf(h) = "queued" /\ ~Queued(h)'
  <2>1. refused' = refused \cup {h}
    BY <1>1, <1>6, <1>7
  <2>2. StageOf(h)' = "none"
    BY <1>1, <1>7 DEF StageOf
  <2>3. [g \in Hashes |-> StageOf(g)]' = [[g \in Hashes |-> StageOf(g)] EXCEPT ![h] = "none"]
    BY <1>5, <2>2
  <2>4. phase # "down"
    BY <1>1 DEF UseInv, FilesInv, DownInv
  <2>5. Way!NetRefuse(h)
    BY <1>1, <1>7, <2>1, <2>3, <2>4, Awake DEF Way!NetRefuse
  <2>6. h \in FileHashes \cup LinkHashes
    BY DEF FileHashes, LinkHashes
  <2> QED
    BY <1>3, <2>5, <2>6 DEF Way!IntakeNext, Way!IntakeStep, Way!Torrents
<1>8. CASE ~(StageOf(h) = "queued" /\ ~Queued(h)')
  <2>1. refused' = refused
    BY <1>1, <1>6, <1>8
  <2>2. Queued(h)
    BY <1>1, <1>h, HeadElement DEF Queued
  <2>3. StageOf(h)' = StageOf(h)
    BY <1>1, <1>8, <2>2 DEF StageOf
  <2> QED
    BY <1>1, <1>3, <1>5, <2>1, <2>3, Rests
<1> QED
  BY <1>7, <1>8

\* A handler's file operation: the one that completes a .torrent is the last stage.
LEMMA WriteWay ==
  ASSUME UseInv, UNCHANGED <<dropped, refused>>, DoOp
  PROVE  Uses' /\ Way!IntakeNext
<1>1. /\ 1 \in 1..Len(ops) /\ ops[1] \in FileOp
      /\ \A i \in 1..Len(ops') : i + 1 \in 1..Len(ops) /\ ops'[i] = ops[i + 1]
      /\ \A h \in Hashes, k \in Kinds :
           disk'[h][k] = IF h = ops[1].hash /\ k = ops[1].kind THEN ops[1].to ELSE disk[h][k]
  BY DoOpFacts DEF UseInv, FilesInv, StoreInv
<1>2. UNCHANGED <<phase, session, netCmd, ioQueue, dropped, refused>>
  BY DEF DoOp
<1>3. \A h \in Hashes :
        disk'[h]["torrent"] = IF h = ops[1].hash /\ "torrent" = ops[1].kind THEN ops[1].to
                              ELSE disk[h]["torrent"]
  <2>1. "torrent" \in Kinds
    BY DEF Kinds
  <2> QED
    BY <1>1, <2>1
<1>4. \A h \in Hashes : disk[h]["torrent"] = "whole" => disk'[h]["torrent"] = "whole"
  <2>1. ops[1].kind = "torrent" /\ ops[1].to # "whole" => disk[ops[1].hash]["torrent"] = "none"
    BY <1>1 DEF UseInv, WriteInv, FilesInv, StoreInv, FreshInv
  <2> QED
    BY <1>3, <2>1
<1>5. AddsInv'
  <2>1. \A i \in 1..Len(netCmd) : netCmd[i].hash \in Hashes
    <3>1. netCmd \in Seq(AnyCommand)
      BY DEF UseInv, FilesInv, StoreInv, TypeOK
    <3>2. \A i \in 1..Len(netCmd) : netCmd[i] \in AnyCommand
      BY <3>1, ElementOfSeq
    <3> QED
      BY <3>2 DEF AnyCommand, AddCommand
  <2> QED
    BY <1>2, <1>4, <2>1 DEF UseInv, AddsInv, InfoOf
<1>6. StaysInv' /\ WriteInv'
  <2>1. ops[1].kind = "torrent" => ops[1].to \in {"torn", "whole"}
    BY <1>1 DEF UseInv, WriteInv
  <2>2. \A h \in Hashes : disk'[h]["torrent"] \in {"none", "torn", "whole"}
    BY <1>3, <2>1 DEF UseInv, WriteInv
  <2> QED
    BY <1>1, <1>2, <2>2 DEF UseInv, StaysInv, WriteInv
<1>7. CASE \A h \in Hashes : disk[h]["torrent"] # "whole" => disk'[h]["torrent"] # "whole"
  <2>1. \A h \in Hashes : StageOf(h)' = StageOf(h)
    BY <1>2, <1>4, <1>7, StageSame DEF Queued
  <2> QED
    BY <1>2, <1>5, <1>6, <2>1, Rests DEF Uses
<1>8. ASSUME NEW h \in Hashes, disk[h]["torrent"] # "whole", disk'[h]["torrent"] = "whole"
      PROVE  Way!IntakeNext
  <2>1. h = ops[1].hash /\ ops[1].kind = "torrent"
    BY <1>3, <1>8
  <2>2. phase = "run" /\ session[h] = "full"
    BY <1>1, <2>1 DEF UseInv, WriteInv
  <2>3. StageOf(h) = "told" /\ StageOf(h)' = "saved"
    BY <1>8, <2>2 DEF StageOf
  <2>4. \A g \in Hashes \ {h} : StageOf(g)' = StageOf(g)
    BY <1>2, <1>3, <2>1, StageSame DEF Queued
  <2>5. Way!Move(h, "told", "saved")
    BY <1>2, <2>3, <2>4, Moves
  <2>6. Way!HandleTold(h)
    BY <2>2, <2>5 DEF Way!HandleTold, Phases
  <2>7. h \in FileHashes \cup LinkHashes
    BY DEF FileHashes, LinkHashes
  <2> QED
    BY <2>6, <2>7 DEF Way!IntakeNext, Way!IntakeStep, Way!Torrents
<1> QED
  BY <1>5, <1>6, <1>7, <1>8 DEF Uses

\* The end of a process.
LEMMA EndsWay ==
  ASSUME UseInv, Ends
  PROVE  Uses' /\ Way!IntakeNext
<1>1. /\ phase # "down" /\ phase' = "down"
      /\ session' = Nothing("absent") /\ netCmd' = <<>> /\ ioQueue' = <<>> /\ ops' = <<>>
      /\ disk' = disk
      /\ dropped' = dropped \cup {h \in Hashes : StageOf(h) \in {"queued", "held", "told"}}
      /\ refused' = refused
  BY DEF Ends, Exit, Crash, Vanish
<1>2. 1..Len(netCmd') = {} /\ 1..Len(ioQueue') = {} /\ 1..Len(ops') = {}
  BY <1>1, EmptySeq
<1>3. Uses'
  BY <1>1, <1>2 DEF UseInv, Uses, AddsInv, StaysInv, WriteInv
<1>4. \A h \in Hashes : StageOf(h)' = IF StageOf(h) = "saved" THEN "saved" ELSE "none"
  <2>1. \A h \in Hashes : session'[h] = "absent" /\ ~Queued(h)'
    BY <1>1, <1>2 DEF Nothing, Queued
  <2>2. \A h \in Hashes : StageOf(h) = "saved" <=> disk[h]["torrent"] = "whole"
    BY DEF StageOf
  <2> QED
    BY <1>1, <2>1, <2>2 DEF StageOf
<1>5. FileHashes \cup LinkHashes = Hashes
  BY DEF FileHashes, LinkHashes
<1>6. [h \in Hashes |-> StageOf(h)]'
        = [t \in Hashes |-> IF [h \in Hashes |-> StageOf(h)][t] = "saved" THEN "saved" ELSE "none"]
  BY <1>4
<1>7. {t \in Hashes : [h \in Hashes |-> StageOf(h)][t] \in {"queued", "held", "told"}}
        = {h \in Hashes : StageOf(h) \in {"queued", "held", "told"}}
  OBVIOUS
<1>8. Way!Forget
  BY <1>1, <1>5, <1>6, <1>7 DEF Way!Forget, Way!Torrents, Way!OnTheWay, Phases
<1>9. Way!Perish
  BY <1>1, <1>8, Awake DEF Way!Perish
<1> QED
  BY <1>3, <1>9 DEF Way!IntakeNext

\* A start adds torrents whose files are whole.
LEMMA LoadWay ==
  ASSUME UseInv, UNCHANGED <<dropped, refused>>, Restart
  PROVE  Uses' /\ Way!IntakeNext
<1>1. /\ phase = "down" /\ phase' = "run"
      /\ UNCHANGED <<session, ioQueue, ops, disk, dropped, refused>>
  BY DEF Restart
<1>2. /\ \A i \in 1..Len(netCmd') :
           netCmd'[i].op = "add" /\ disk[netCmd'[i].hash]["torrent"] = "whole"
  <2> SUFFICES ASSUME NEW i \in 1..Len(netCmd')
               PROVE  netCmd'[i].op = "add" /\ disk[netCmd'[i].hash]["torrent"] = "whole"
    OBVIOUS
  <2>1. netCmd'[i].op = "add" /\ netCmd'[i].hash \in OnDisk \ Unreadable
    BY RestartCommands DEF UseInv, FilesInv
  <2> QED
    BY <2>1 DEF UseInv, WriteInv, OnDisk, Unreadable
<1>3. AddsInv' /\ StaysInv'
  BY <1>1, <1>2 DEF UseInv, AddsInv, StaysInv
<1>4. ops = <<>> /\ netCmd = <<>>
  BY <1>1 DEF UseInv, FilesInv, DownInv
<1>5. WriteInv'
  <2>1. 1..Len(ops') = {}
    BY <1>1, <1>4, EmptySeq
  <2> QED
    BY <1>1, <2>1 DEF UseInv, WriteInv
<1>6. ASSUME NEW h \in Hashes PROVE StageOf(h)' = StageOf(h)
  <2>1. CASE disk[h]["torrent"] = "whole"
    BY <1>1, <2>1, StageSame
  <2>2. CASE disk[h]["torrent"] # "whole"
    <3>1. ~Queued(h)'
      BY <1>2, <2>2 DEF Queued
    <3>2. ~Queued(h)
      <4>1. 1..Len(netCmd) = {}
        BY <1>4, EmptySeq
      <4> QED
        BY <4>1 DEF Queued
    <3> QED
      BY <1>1, <3>1, <3>2, <2>2 DEF StageOf
  <2> QED
    BY <2>1, <2>2
<1> QED
  BY <1>1, <1>3, <1>5, <1>6, Rests DEF Uses

-----------------------------------------------------------------------------
\* Before the first start there is nothing.
LEMMA UseStart == UseInit => UseInv /\ Way!IntakeStart
<1> SUFFICES ASSUME UseInit PROVE UseInv /\ Way!IntakeStart
  OBVIOUS
<1>1. Init /\ dropped = {} /\ refused = {}
  BY DEF UseInit
<1>2. /\ netCmd = <<>> /\ ioQueue = <<>> /\ ops = <<>> /\ phase = "down"
      /\ session = Nothing("absent") /\ disk = Nothing([k \in Kinds |-> "none"])
  BY <1>1 DEF Init
<1>3. 1..Len(netCmd) = {} /\ 1..Len(ioQueue) = {} /\ 1..Len(ops) = {}
  BY <1>2, EmptySeq
<1>4. UseInv
  <2>1. \A h \in Hashes : disk[h]["torrent"] = "none"
    BY <1>2 DEF Nothing, Kinds
  <2> QED
    BY <1>1, <1>3, <2>1, InitFiles DEF UseInv, AddsInv, StaysInv, WriteInv
<1>5. \A h \in Hashes : StageOf(h) = "none"
  <2>1. \A h \in Hashes : session[h] = "absent" /\ disk[h]["torrent"] = "none" /\ ~Queued(h)
    BY <1>2, <1>3 DEF Nothing, Queued, Kinds
  <2> QED
    BY <2>1 DEF StageOf
<1>6. FileHashes \cup LinkHashes = Hashes
  BY DEF FileHashes, LinkHashes
<1>7. [h \in Hashes |-> StageOf(h)] = [t \in Hashes |-> "none"]
  BY <1>5
<1>8. Way!IntakeStart
  BY <1>1, <1>2, <1>6, <1>7 DEF Way!IntakeStart, Way!Torrents, Phases
<1> QED
  BY <1>4, <1>8

\* Every step of the store, as the scripts use it, is one of the whole store.
LEMMA UseIsNext == [UseNext]_useVars => [Next]_vars
<1>1. \A h \in Hashes : ScriptAdds(h) => Next
  BY DEF ScriptAdds, InfoOf, Next
<1>2. Works \/ Refuses \/ Ends => Next
  BY DEF Works, Refuses, Ends, Next
<1> QED
  BY <1>1, <1>2 DEF UseNext, useVars

\* ... and one on the way of a torrent, or none.
LEMMA UseStep ==
  UseInv /\ [UseNext]_useVars
    => /\ UseInv'
       /\ [Way!IntakeNext]_<<Phases[phase], 0, [h \in Hashes |-> StageOf(h)], dropped, refused>>
<1> SUFFICES ASSUME UseInv, [UseNext]_useVars
             PROVE  /\ Uses'
                    /\ \/ Way!IntakeNext
                       \/ UNCHANGED <<Phases[phase], 0, [h \in Hashes |-> StageOf(h)],
                                      dropped, refused>>
  BY UseIsNext, StepFiles DEF UseInv, Uses
<1>1. ASSUME NEW h \in Hashes, ScriptAdds(h) PROVE Uses' /\ Way!IntakeNext
  BY <1>1, AddsWay
<1>2. CASE Works
  BY <1>2, OptionsWay, InfoWay, StopWay, AddedWay, SaveWay, WriteWay, LoadWay DEF Works
<1>3. CASE Ends
  BY <1>3, EndsWay
<1>5. CASE Refuses
  BY <1>5, RefusedWay
<1>4. CASE UNCHANGED useVars
  <2>1. UNCHANGED <<phase, session, netCmd, ioQueue, ops, disk, dropped, refused>>
    BY <1>4 DEF useVars, vars, memory
  <2>2. Uses'
    BY <2>1 DEF UseInv, Uses, AddsInv, StaysInv, WriteInv, InfoOf
  <2>3. \A h \in Hashes : StageOf(h)' = StageOf(h)
    BY <2>1 DEF StageOf, Queued
  <2> QED
    BY <2>1, <2>2, <2>3
<1> QED
  BY <1>1, <1>2, <1>3, <1>4, <1>5 DEF UseNext

\* The store implements the way of a torrent that the feeds and folders are composed
\* with: its queues, handlers and file operations are no more than the stages.
THEOREM StoreRefinesIntake == UseSpec => ImplementsIntake
<1> QED
  BY UseStart, UseStep, PTL DEF UseSpec, ImplementsIntake, Way!IntakeSpec
=============================================================================
