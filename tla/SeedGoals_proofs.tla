-------------------------- MODULE SeedGoals_proofs --------------------------
(***************************************************************************)
(* For every set of torrents and seed actions: types; a torrent paused for *)
(* its goal stays paused; a recheck gives a pause back and leaves no flag; *)
(* and a goal is missed only where the loop ends at another torrent.       *)
(***************************************************************************)
EXTENDS SeedGoals, SequenceLemmas, FiniteSetTheorems, TLAPS

Is(i, op, t) == netCmd[i].op = op /\ netCmd[i].torrent = t

\* From the i-th command on nothing asks libtorrent to run t.
Calm(i, t) ==
  \A k \in i..Len(netCmd) : netCmd[k].op \in {"resume", "manage"} => netCmd[k].torrent # t

\* A torrent paused for its goal is paused and not managed; or it is not managed and the
\* pause comes next; or the two commands wait behind one another.  Nothing undoes them.
GoalInv ==
  \A t \in goalPaused : Live(t) =>
    \/ t \in paused \ managed /\ Calm(1, t)
    \/ t \notin managed /\ netCmd # <<>> /\ Is(1, "pause", t) /\ Calm(1, t)
    \/ \E j \in 1..Len(netCmd) :
         /\ j + 1 \in 1..Len(netCmd)
         /\ Is(j, "unmanage", t) /\ Is(j + 1, "pause", t) /\ Calm(j, t)

\* From the i-th command on nothing resumes t.
Still(i, t) == \A k \in i..Len(netCmd) : netCmd[k].op = "resume" => netCmd[k].torrent # t

\* A torrent that was paused before its recheck is left alone by libtorrent; it is paused, or
\* the flag is set and its check, or the news of it, is still to come, or a pause is asked for.
RecheckInv ==
  \A t \in rechecked : Live(t) =>
    /\ t \notin managed
    /\ \A k \in 1..Len(netCmd) : netCmd[k].op = "manage" => netCmd[k].torrent # t
    /\ \/ t \in paused /\ Still(1, t)
       \/ /\ t \in flagged
          /\ \/ state[t] = "checking" \/ CheckedWaits(t)
             \/ \E k \in 1..Len(netCmd) : Is(k, "recheck", t)
       \/ \E j \in 1..Len(netCmd) : Is(j, "pause", t) /\ Still(j, t)

GoalsInv == TypeOK /\ GoalInv /\ RecheckInv

-----------------------------------------------------------------------------
(* The queue of commands *)

\* A command for a torrent is typed, and not the request for updates.
LEMMA AskTyped ==
  ASSUME NEW op \in Ops, NEW t \in Torrents
  PROVE  Ask(op, t) \in AnyCommand /\ Ask(op, t).op = op /\ Ask(op, t).torrent = t
BY DEF Ask, AnyCommand

\* The request for updates is typed.
LEMMA UpdateTyped == Update \in AnyCommand /\ Update.op = "update"
BY DEF Update, AnyCommand

\* The network thread takes the first command.
LEMMA TakeFacts ==
  ASSUME TypeOK, NEW op, Take(op)
  PROVE  /\ 1 \in 1..Len(netCmd) /\ Head(netCmd) = netCmd[1] /\ netCmd[1].op = op
         /\ netCmd[1] \in AnyCommand
         /\ netCmd' \in Seq(AnyCommand)
         /\ Len(netCmd) \in Nat /\ Len(netCmd') = Len(netCmd) - 1
         /\ \A k \in 1..Len(netCmd') : k + 1 \in 1..Len(netCmd) /\ netCmd'[k] = netCmd[k + 1]
         /\ netCmd # <<>>
<1>1. netCmd \in Seq(AnyCommand) /\ netCmd # <<>> /\ netCmd' = Tail(netCmd)
  BY DEF TypeOK, Take
<1>2. 1 \in 1..Len(netCmd) /\ Head(netCmd) = netCmd[1] /\ netCmd[1] \in AnyCommand
  BY <1>1, HeadElement
<1>3. netCmd' \in Seq(AnyCommand) /\ Len(netCmd') = Len(netCmd) - 1 /\ Len(netCmd) \in Nat
  BY <1>1, HeadTailProperties, LenProperties
<1>4. \A k \in 1..Len(netCmd') : k + 1 \in 1..Len(netCmd) /\ netCmd'[k] = netCmd[k + 1]
  BY <1>1, TailElement
<1> QED
  BY <1>1, <1>2, <1>3, <1>4 DEF Take

\* Commands are added behind those that wait.
LEMMA AppendFacts ==
  ASSUME TypeOK, NEW more \in Seq(AnyCommand), netCmd' = netCmd \o more
  PROVE  /\ netCmd' \in Seq(AnyCommand)
         /\ Len(netCmd) \in Nat /\ Len(more) \in Nat /\ Len(netCmd') = Len(netCmd) + Len(more)
         /\ \A k \in 1..Len(netCmd) : k \in 1..Len(netCmd') /\ netCmd'[k] = netCmd[k]
         /\ \A k \in 1..Len(more) :
              Len(netCmd) + k \in 1..Len(netCmd') /\ netCmd'[Len(netCmd) + k] = more[k]
<1>1. netCmd \in Seq(AnyCommand)
  BY DEF TypeOK
<1>2. Len(netCmd) \in Nat /\ Len(more) \in Nat /\ Len(netCmd') = Len(netCmd) + Len(more)
  BY <1>1, LenProperties, ConcatProperties
<1>3. netCmd' \in Seq(AnyCommand)
  BY <1>1, ConcatProperties
<1>4. \A k \in 1..Len(netCmd) + Len(more) :
        netCmd'[k] = IF k <= Len(netCmd) THEN netCmd[k] ELSE more[k - Len(netCmd)]
  BY <1>1, ConcatProperties
<1>5. \A k \in 1..Len(netCmd) : k \in 1..Len(netCmd') /\ netCmd'[k] = netCmd[k]
  BY <1>2, <1>4
<1>6. ASSUME NEW k \in 1..Len(more)
      PROVE  Len(netCmd) + k \in 1..Len(netCmd') /\ netCmd'[Len(netCmd) + k] = more[k]
  <2>1. Len(netCmd) + k \in 1..Len(netCmd) + Len(more) /\ ~(Len(netCmd) + k <= Len(netCmd))
        /\ (Len(netCmd) + k) - Len(netCmd) = k
    BY <1>2
  <2> QED
    BY <1>2, <1>4, <2>1
<1> QED
  BY <1>2, <1>3, <1>5, <1>6

\* What waits after commands were added waited before or was added.
LEMMA AppendCases ==
  ASSUME TypeOK, NEW more \in Seq(AnyCommand), netCmd' = netCmd \o more
  PROVE  \A k \in 1..Len(netCmd') :
           \/ k \in 1..Len(netCmd) /\ netCmd'[k] = netCmd[k]
           \/ k - Len(netCmd) \in 1..Len(more) /\ netCmd'[k] = more[k - Len(netCmd)]
<1>1. /\ Len(netCmd) \in Nat /\ Len(more) \in Nat /\ Len(netCmd') = Len(netCmd) + Len(more)
      /\ \A k \in 1..Len(netCmd) : k \in 1..Len(netCmd') /\ netCmd'[k] = netCmd[k]
      /\ \A k \in 1..Len(more) :
           Len(netCmd) + k \in 1..Len(netCmd') /\ netCmd'[Len(netCmd) + k] = more[k]
  BY AppendFacts
<1>2. \A k \in 1..Len(netCmd') : k \in 1..Len(netCmd) \/ k - Len(netCmd) \in 1..Len(more)
  BY <1>1
<1>3. ASSUME NEW k \in 1..Len(netCmd'), k - Len(netCmd) \in 1..Len(more)
      PROVE  netCmd'[k] = more[k - Len(netCmd)]
  <2>1. netCmd'[Len(netCmd) + (k - Len(netCmd))] = more[k - Len(netCmd)]
    BY <1>1, <1>3
  <2>2. Len(netCmd) + (k - Len(netCmd)) = k
    BY <1>1
  <2> QED
    BY <2>1, <2>2
<1> QED
  BY <1>1, <1>2, <1>3

\* The commands of the stateUpdate handler.
LEMMA GoalCommandsTyped ==
  ASSUME NEW t \in Torrents
  PROVE  GoalCommands(t) \in Seq(AnyCommand)
<1>1. Ask("unmanage", t) \in AnyCommand /\ Ask("pause", t) \in AnyCommand
  BY AskTyped DEF Ops
<1>2. \A a, b \in AnyCommand : <<a, b>> \in Seq(AnyCommand)
  OBVIOUS
<1> QED
  BY <1>1, <1>2 DEF GoalCommands

\* The user's commands are all that waits.
LEMMA PerformFacts ==
  ASSUME TypeOK, NEW t \in Torrents, NEW ops \in Seq(Ops), Perform(t, ops)
  PROVE  /\ netCmd = <<>> /\ netCmd' \in Seq(AnyCommand)
         /\ Len(netCmd') = Len(ops)
         /\ \A k \in 1..Len(ops) : netCmd'[k] = Ask(ops[k], t)
         /\ commands' \in 0..MaxCommands
<1>1. Len(ops) \in Nat /\ DOMAIN ops = 1..Len(ops) /\ \A k \in 1..Len(ops) : ops[k] \in Ops
  BY LenProperties, ElementOfSeq
<1>2. netCmd' = [i \in 1..Len(ops) |-> Ask(ops[i], t)]
  BY <1>1 DEF Perform
<1>3. netCmd' \in [1..Len(ops) -> AnyCommand]
  BY <1>1, <1>2, AskTyped
<1>4. netCmd' \in Seq(AnyCommand) /\ Len(netCmd') = Len(ops)
  BY ONLY <1>1, <1>3, FunctionSeq
<1>5. commands' \in 0..MaxCommands
  BY BoundsAssumption DEF Perform, TypeOK
<1> QED
  BY <1>2, <1>4, <1>5 DEF Perform

-----------------------------------------------------------------------------
(* What the invariants need of each kind of step *)

\* The network thread runs the first command, for one torrent or none.
LEMMA TakeSteps ==
  ASSUME GoalsInv, NEW op, Take(op),
         \A t \in Torrents : Live(t)' => Live(t),
         \A t \in Torrents : Live(t)' =>
           /\ op = "pause" /\ netCmd[1].torrent = t => t \in paused'
           /\ t \in paused => t \in paused' \/ (op = "resume" /\ netCmd[1].torrent = t)
           /\ op = "unmanage" /\ netCmd[1].torrent = t => t \notin managed'
           /\ t \notin managed => t \notin managed' \/ (op = "manage" /\ netCmd[1].torrent = t)
           /\ state[t] = "checking" => state'[t] = "checking"
           /\ op = "recheck" /\ netCmd[1].torrent = t => state'[t] = "checking"
           /\ CheckedWaits(t) => CheckedWaits(t)'
  PROVE  GoalInv' /\ RecheckInv'
<1>0. TypeOK /\ GoalInv /\ RecheckInv
  BY DEF GoalsInv
<1>1. /\ 1 \in 1..Len(netCmd) /\ netCmd[1].op = op /\ netCmd # <<>>
      /\ Len(netCmd) \in Nat /\ Len(netCmd') = Len(netCmd) - 1
      /\ \A k \in 1..Len(netCmd') : k + 1 \in 1..Len(netCmd) /\ netCmd'[k] = netCmd[k + 1]
  BY <1>0, TakeFacts
<1>2. goalPaused' = goalPaused /\ rechecked' = rechecked /\ flagged' = flagged
  BY DEF Take, NetFrame, history
<1>3. goalPaused \subseteq Torrents /\ rechecked \subseteq Torrents
  BY <1>0 DEF TypeOK
<1>4. \A k \in 2..Len(netCmd) : k - 1 \in 1..Len(netCmd') /\ netCmd'[k - 1] = netCmd[k]
  BY <1>1
<1>5. GoalInv'
  <2>1. SUFFICES ASSUME NEW t \in goalPaused, Live(t)'
                 PROVE  \/ t \in paused' \ managed' /\ Calm(1, t)'
                        \/ t \notin managed' /\ netCmd' # <<>> /\ Is(1, "pause", t)' /\ Calm(1, t)'
                        \/ \E j \in 1..Len(netCmd') :
                             /\ j + 1 \in 1..Len(netCmd')
                             /\ Is(j, "unmanage", t)' /\ Is(j + 1, "pause", t)' /\ Calm(j, t)'
    BY <1>2 DEF GoalInv
  <2>2. t \in Torrents /\ Live(t)
    BY <1>3, <2>1
  <2>3. Calm(1, t) => /\ Calm(1, t)' /\ ~(op \in {"resume", "manage"} /\ netCmd[1].torrent = t)
    BY <1>1 DEF Calm
  <2>4. CASE t \in paused \ managed /\ Calm(1, t)
    BY <2>1, <2>2, <2>3, <2>4
  <2>5. CASE t \notin managed /\ netCmd # <<>> /\ Is(1, "pause", t) /\ Calm(1, t)
    <3>1. op = "pause" /\ netCmd[1].torrent = t
      BY <1>1, <2>5 DEF Is
    <3> QED
      BY <2>1, <2>2, <2>3, <2>5, <3>1
  <2>6. ASSUME NEW j \in 1..Len(netCmd), j + 1 \in 1..Len(netCmd),
               Is(j, "unmanage", t), Is(j + 1, "pause", t), Calm(j, t)
        PROVE  \/ t \notin managed' /\ netCmd' # <<>> /\ Is(1, "pause", t)' /\ Calm(1, t)'
               \/ \E i \in 1..Len(netCmd') :
                    /\ i + 1 \in 1..Len(netCmd')
                    /\ Is(i, "unmanage", t)' /\ Is(i + 1, "pause", t)' /\ Calm(i, t)'
    <3>1. CASE j = 1
      <4>1. op = "unmanage" /\ netCmd[1].torrent = t
        BY <1>1, <2>6, <3>1 DEF Is
      <4>2. t \notin managed'
        BY <2>1, <2>2, <4>1
      <4>3. 1 \in 1..Len(netCmd') /\ netCmd'[1] = netCmd[2]
        BY <1>1, <2>6, <3>1
      <4>4. netCmd' # <<>>
        BY <4>3, EmptySeq
      <4>5. Is(1, "pause", t)'
        BY <2>6, <3>1, <4>3 DEF Is
      <4>6. Calm(1, t)'
        BY <1>1, <2>6, <3>1 DEF Calm
      <4> QED
        BY <4>2, <4>4, <4>5, <4>6
    <3>2. CASE j # 1
      <4>1. /\ j - 1 \in 1..Len(netCmd') /\ (j - 1) + 1 \in 1..Len(netCmd')
            /\ netCmd'[j - 1] = netCmd[j] /\ netCmd'[(j - 1) + 1] = netCmd[j + 1]
        BY <1>1, <2>6, <3>2
      <4>2. Is(j - 1, "unmanage", t)' /\ Is((j - 1) + 1, "pause", t)'
        BY <2>6, <4>1 DEF Is
      <4>3. Calm(j - 1, t)'
        BY <1>1, <2>6, <3>2 DEF Calm
      <4> QED
        BY <4>1, <4>2, <4>3
    <3> QED
      BY <3>1, <3>2
  <2> QED
    BY <1>0, <2>1, <2>2, <2>4, <2>5, <2>6 DEF GoalInv
<1>6. RecheckInv'
  <2>1. SUFFICES ASSUME NEW t \in rechecked, Live(t)'
                 PROVE
                   /\ t \notin managed'
                   /\ \A k \in 1..Len(netCmd') : netCmd'[k].op = "manage" => netCmd'[k].torrent # t
                   /\ \/ t \in paused' /\ Still(1, t)'
                      \/ /\ t \in flagged'
                         /\ \/ state'[t] = "checking" \/ CheckedWaits(t)'
                            \/ \E k \in 1..Len(netCmd') : Is(k, "recheck", t)'
                      \/ \E j \in 1..Len(netCmd') : Is(j, "pause", t)' /\ Still(j, t)'
    BY <1>2 DEF RecheckInv
  <2>2. t \in Torrents /\ Live(t)
    BY <1>3, <2>1
  <2>3. /\ t \notin managed
        /\ \A k \in 1..Len(netCmd) : netCmd[k].op = "manage" => netCmd[k].torrent # t
    BY <1>0, <2>2 DEF RecheckInv
  <2>4. /\ t \notin managed'
        /\ \A k \in 1..Len(netCmd') : netCmd'[k].op = "manage" => netCmd'[k].torrent # t
    BY <1>1, <2>1, <2>2, <2>3
  <2>5. CASE t \in paused /\ Still(1, t)
    <3>1. Still(1, t)' /\ ~(op = "resume" /\ netCmd[1].torrent = t)
      BY <1>1, <2>5 DEF Still
    <3> QED
      BY <2>1, <2>2, <2>4, <2>5, <3>1
  <2>6. CASE t \in flagged /\ (state[t] = "checking" \/ CheckedWaits(t))
    BY <1>2, <2>1, <2>2, <2>4, <2>6
  <2>7. ASSUME t \in flagged, NEW k \in 1..Len(netCmd), Is(k, "recheck", t)
        PROVE  /\ t \in flagged'
               /\ state'[t] = "checking" \/ \E i \in 1..Len(netCmd') : Is(i, "recheck", t)'
    <3>1. CASE k = 1
      BY <1>1, <1>2, <2>1, <2>2, <2>7, <3>1 DEF Is
    <3>2. CASE k # 1
      <4>1. k - 1 \in 1..Len(netCmd') /\ netCmd'[k - 1] = netCmd[k]
        BY <1>4, <3>2
      <4> QED
        BY <1>2, <2>7, <4>1 DEF Is
    <3> QED
      BY <3>1, <3>2
  <2>8. ASSUME NEW j \in 1..Len(netCmd), Is(j, "pause", t), Still(j, t)
        PROVE  \/ t \in paused' /\ Still(1, t)'
               \/ \E i \in 1..Len(netCmd') : Is(i, "pause", t)' /\ Still(i, t)'
    <3>1. CASE j = 1
      <4>1. t \in paused'
        BY <1>1, <2>1, <2>2, <2>8, <3>1 DEF Is
      <4>2. Still(1, t)'
        BY <1>1, <2>8, <3>1 DEF Still
      <4> QED
        BY <4>1, <4>2
    <3>2. CASE j # 1
      <4>1. j - 1 \in 1..Len(netCmd') /\ netCmd'[j - 1] = netCmd[j]
        BY <1>4, <3>2
      <4>2. Is(j - 1, "pause", t)'
        BY <2>8, <4>1 DEF Is
      <4>3. Still(j - 1, t)'
        BY <1>1, <2>8, <3>2 DEF Still
      <4> QED
        BY <4>1, <4>2, <4>3
    <3> QED
      BY <3>1, <3>2
  <2> QED
    BY <1>0, <2>2, <2>4, <2>5, <2>6, <2>7, <2>8 DEF RecheckInv
<1> QED
  BY <1>5, <1>6

\* Nothing in more asks libtorrent to do op with t.
None(more, op, t) == \A k \in 1..Len(more) : more[k].op = op => more[k].torrent # t

\* Commands are added, or none: what torrents paused for their goal need of the step.
LEMMA GoalMore ==
  ASSUME TypeOK, GoalInv, NEW more \in Seq(AnyCommand), netCmd' = netCmd \o more,
         \A t \in goalPaused' :
           /\ t \in goalPaused \/ more = GoalCommands(t)
           /\ None(more, "resume", t) /\ None(more, "manage", t)
           /\ Live(t)' => /\ Live(t)
                          /\ t \notin managed => t \notin managed'
                          /\ t \in paused \ managed => t \in paused'
  PROVE  GoalInv'
<1>1. /\ Len(netCmd) \in Nat /\ Len(more) \in Nat /\ Len(netCmd') = Len(netCmd) + Len(more)
      /\ \A k \in 1..Len(netCmd) : k \in 1..Len(netCmd') /\ netCmd'[k] = netCmd[k]
      /\ \A k \in 1..Len(more) :
           Len(netCmd) + k \in 1..Len(netCmd') /\ netCmd'[Len(netCmd) + k] = more[k]
  BY AppendFacts
<1>3. \A k \in 1..Len(netCmd') :
        \/ k \in 1..Len(netCmd) /\ netCmd'[k] = netCmd[k]
        \/ k - Len(netCmd) \in 1..Len(more) /\ netCmd'[k] = more[k - Len(netCmd)]
  BY AppendCases
<1>4. SUFFICES ASSUME NEW t \in goalPaused', Live(t)'
               PROVE  \/ t \in paused' \ managed' /\ Calm(1, t)'
                      \/ t \notin managed' /\ netCmd' # <<>> /\ Is(1, "pause", t)' /\ Calm(1, t)'
                      \/ \E j \in 1..Len(netCmd') :
                           /\ j + 1 \in 1..Len(netCmd')
                           /\ Is(j, "unmanage", t)' /\ Is(j + 1, "pause", t)' /\ Calm(j, t)'
  BY DEF GoalInv
<1>5. /\ Live(t) /\ (t \notin managed => t \notin managed')
      /\ t \in paused \ managed => t \in paused'
      /\ None(more, "resume", t) /\ None(more, "manage", t)
  BY <1>4
<1>6. \A k \in 1..Len(more) : more[k].op \in {"resume", "manage"} => more[k].torrent # t
  BY <1>5 DEF None
<1>7. ASSUME NEW i \in 1..Len(netCmd) + 1, Calm(i, t) PROVE Calm(i, t)'
  <2>1. SUFFICES ASSUME NEW k \in i..Len(netCmd'), netCmd'[k].op \in {"resume", "manage"}
                 PROVE  netCmd'[k].torrent # t
    BY DEF Calm
  <2>2. k \in 1..Len(netCmd')
    BY <1>1, <1>7
  <2>3. CASE k \in 1..Len(netCmd) /\ netCmd'[k] = netCmd[k]
    <3>1. k \in i..Len(netCmd)
      BY <1>1, <1>7, <2>3
    <3> QED
      BY <1>7, <2>1, <2>3, <3>1 DEF Calm
  <2>4. CASE k - Len(netCmd) \in 1..Len(more) /\ netCmd'[k] = more[k - Len(netCmd)]
    BY <1>6, <2>1, <2>4
  <2> QED
    BY <1>3, <2>2, <2>3, <2>4
<1>8. CASE t \in goalPaused
  <2>1. CASE t \in paused \ managed /\ Calm(1, t)
    BY <1>1, <1>5, <1>7, <2>1
  <2>2. CASE t \notin managed /\ netCmd # <<>> /\ Is(1, "pause", t) /\ Calm(1, t)
    <3>1. 1 \in 1..Len(netCmd)
      BY <2>2, HeadElement DEF TypeOK
    <3>2. 1 \in 1..Len(netCmd') /\ netCmd'[1] = netCmd[1]
      BY <1>1, <3>1
    <3>3. netCmd' # <<>>
      BY <3>2, EmptySeq
    <3>4. Is(1, "pause", t)'
      BY <2>2, <3>2 DEF Is
    <3>5. Calm(1, t)'
      BY <1>1, <1>7, <2>2
    <3> QED
      BY <1>5, <2>2, <3>3, <3>4, <3>5
  <2>3. ASSUME NEW j \in 1..Len(netCmd), j + 1 \in 1..Len(netCmd),
               Is(j, "unmanage", t), Is(j + 1, "pause", t), Calm(j, t)
        PROVE  /\ j \in 1..Len(netCmd') /\ j + 1 \in 1..Len(netCmd')
               /\ Is(j, "unmanage", t)' /\ Is(j + 1, "pause", t)' /\ Calm(j, t)'
    <3>1. /\ j \in 1..Len(netCmd') /\ j + 1 \in 1..Len(netCmd')
          /\ netCmd'[j] = netCmd[j] /\ netCmd'[j + 1] = netCmd[j + 1]
      BY <1>1, <2>3
    <3>2. Is(j, "unmanage", t)' /\ Is(j + 1, "pause", t)'
      BY <2>3, <3>1 DEF Is
    <3>3. Calm(j, t)'
      BY <1>1, <1>7, <2>3
    <3> QED
      BY <3>1, <3>2, <3>3
  <2> QED
    BY <1>5, <1>8, <2>1, <2>2, <2>3 DEF GoalInv
<1>9. CASE more = GoalCommands(t)
  <2>1. /\ Len(more) = 2 /\ more[1].op = "unmanage" /\ more[1].torrent = t
        /\ more[2].op = "pause" /\ more[2].torrent = t
    BY <1>9 DEF GoalCommands, Ask
  <2>0. PICK j \in Nat : j = Len(netCmd) + 1
    BY <1>1
  <2>2. /\ j \in 1..Len(netCmd') /\ j + 1 \in 1..Len(netCmd')
        /\ netCmd'[j] = more[1] /\ netCmd'[j + 1] = more[2]
    <3>1. 1 \in 1..Len(more) /\ 2 \in 1..Len(more) /\ j + 1 = Len(netCmd) + 2
      BY <1>1, <2>0, <2>1
    <3> QED
      BY <1>1, <2>0, <3>1
  <2>3. Calm(j, t)
    BY <1>1, <2>0 DEF Calm
  <2>4. Calm(j, t)'
    BY <1>1, <1>7, <2>0, <2>3
  <2>5. Is(j, "unmanage", t)' /\ Is(j + 1, "pause", t)'
    BY <2>1, <2>2 DEF Is
  <2> QED
    BY <2>2, <2>4, <2>5
<1> QED
  BY <1>4, <1>8, <1>9

\* The same for torrents that were paused when rechecked.
LEMMA RecheckMore ==
  ASSUME TypeOK, RecheckInv, NEW more \in Seq(AnyCommand), netCmd' = netCmd \o more,
         \A t \in rechecked' :
           /\ None(more, "manage", t)
           /\ Live(t)' => Live(t) /\ (t \notin managed => t \notin managed')
           /\ \/ /\ t \in rechecked /\ None(more, "resume", t)
                 /\ Live(t)' /\ t \in paused \ managed => t \in paused'
                 /\ Live(t)' /\ t \in flagged =>
                      \/ /\ t \in flagged'
                         /\ state[t] = "checking" \/ CheckedWaits(t) =>
                              state'[t] = "checking" \/ CheckedWaits(t)'
                      \/ \E k \in 1..Len(more) : more[k] = Ask("pause", t)
              \/ /\ netCmd = <<>> /\ t \notin managed /\ t \in flagged'
                 /\ \E k \in 1..Len(more) : more[k] = Ask("recheck", t)
  PROVE  RecheckInv'
<1>1. /\ Len(netCmd) \in Nat /\ Len(more) \in Nat /\ Len(netCmd') = Len(netCmd) + Len(more)
      /\ \A k \in 1..Len(netCmd) : k \in 1..Len(netCmd') /\ netCmd'[k] = netCmd[k]
      /\ \A k \in 1..Len(more) :
           Len(netCmd) + k \in 1..Len(netCmd') /\ netCmd'[Len(netCmd) + k] = more[k]
  BY AppendFacts
<1>2. \A k \in 1..Len(netCmd') :
        \/ k \in 1..Len(netCmd) /\ netCmd'[k] = netCmd[k]
        \/ k - Len(netCmd) \in 1..Len(more) /\ netCmd'[k] = more[k - Len(netCmd)]
  BY AppendCases
<1>3. SUFFICES ASSUME NEW t \in rechecked', Live(t)'
               PROVE
                 /\ t \notin managed'
                 /\ \A k \in 1..Len(netCmd') : netCmd'[k].op = "manage" => netCmd'[k].torrent # t
                 /\ \/ t \in paused' /\ Still(1, t)'
                    \/ /\ t \in flagged'
                       /\ \/ state'[t] = "checking" \/ CheckedWaits(t)'
                          \/ \E k \in 1..Len(netCmd') : Is(k, "recheck", t)'
                    \/ \E j \in 1..Len(netCmd') : Is(j, "pause", t)' /\ Still(j, t)'
  BY DEF RecheckInv
<1>4. \A k \in 1..Len(more) : more[k].op = "manage" => more[k].torrent # t
  BY <1>3 DEF None
<1>5. CASE /\ netCmd = <<>> /\ t \notin managed /\ t \in flagged'
           /\ \E k \in 1..Len(more) : more[k] = Ask("recheck", t)
  <2>1. Len(netCmd) = 0
    BY <1>5
  <2>2. PICK k \in 1..Len(more) : more[k] = Ask("recheck", t)
    BY <1>5
  <2>3. k \in 1..Len(netCmd') /\ netCmd'[k] = more[k]
    BY <1>1, <2>1
  <2>4. Is(k, "recheck", t)'
    BY <2>2, <2>3 DEF Is, Ask
  <2>5. \A i \in 1..Len(netCmd') : netCmd'[i].op = "manage" => netCmd'[i].torrent # t
    BY <1>2, <1>4, <2>1
  <2>6. t \notin managed'
    BY <1>3, <1>5
  <2> QED
    BY <1>5, <2>3, <2>4, <2>5, <2>6
<1>6. CASE /\ t \in rechecked /\ None(more, "resume", t)
           /\ t \in paused \ managed => t \in paused'
           /\ t \in flagged =>
                \/ /\ t \in flagged'
                   /\ state[t] = "checking" \/ CheckedWaits(t) =>
                        state'[t] = "checking" \/ CheckedWaits(t)'
                \/ \E k \in 1..Len(more) : more[k] = Ask("pause", t)
  <2>1. Live(t)
    BY <1>3
  <2>2. /\ t \notin managed
        /\ \A k \in 1..Len(netCmd) : netCmd[k].op = "manage" => netCmd[k].torrent # t
    BY <1>6, <2>1 DEF RecheckInv
  <2>3. t \notin managed'
    BY <1>3, <2>2
  <2>4. \A k \in 1..Len(netCmd') : netCmd'[k].op = "manage" => netCmd'[k].torrent # t
    BY <1>2, <1>4, <2>2
  <2>5. \A k \in 1..Len(more) : more[k].op = "resume" => more[k].torrent # t
    BY <1>6 DEF None
  <2>6. ASSUME NEW i \in 1..Len(netCmd) + 1, Still(i, t) PROVE Still(i, t)'
    <3>1. SUFFICES ASSUME NEW k \in i..Len(netCmd'), netCmd'[k].op = "resume"
                   PROVE  netCmd'[k].torrent # t
      BY DEF Still
    <3>2. k \in 1..Len(netCmd')
      BY <1>1, <2>6
    <3>3. CASE k \in 1..Len(netCmd) /\ netCmd'[k] = netCmd[k]
      <4>1. k \in i..Len(netCmd)
        BY <1>1, <2>6, <3>3
      <4> QED
        BY <2>6, <3>1, <3>3, <4>1 DEF Still
    <3>4. CASE k - Len(netCmd) \in 1..Len(more) /\ netCmd'[k] = more[k - Len(netCmd)]
      BY <2>5, <3>1, <3>4
    <3> QED
      BY <1>2, <3>2, <3>3, <3>4
  <2>7. CASE t \in paused /\ Still(1, t)
    <3>1. Still(1, t)'
      BY <1>1, <2>6, <2>7
    <3> QED
      BY <1>6, <2>2, <2>3, <2>4, <2>7, <3>1
  <2>8. CASE \E k \in 1..Len(more) : more[k] = Ask("pause", t)
    <3>1. PICK k \in 1..Len(more) : more[k] = Ask("pause", t)
      BY <2>8
    <3>2. PICK j \in Nat : j = Len(netCmd) + k
      BY <1>1
    <3>3. j \in 1..Len(netCmd') /\ netCmd'[j] = more[k]
      BY <1>1, <3>2
    <3>4. Is(j, "pause", t)'
      BY <3>1, <3>3 DEF Is, Ask
    <3>5. Still(j, t)'
      <4>1. \A i \in j..Len(netCmd') : i \in 1..Len(netCmd') /\ i \notin 1..Len(netCmd)
        BY <1>1, <3>2
      <4> QED
        BY <1>2, <2>5, <4>1 DEF Still
    <3> QED
      BY <2>3, <2>4, <3>3, <3>4, <3>5
  <2>9. CASE /\ t \in flagged /\ (state[t] = "checking" \/ CheckedWaits(t))
             /\ ~ \E k \in 1..Len(more) : more[k] = Ask("pause", t)
    BY <1>6, <2>3, <2>4, <2>9
  <2>10. ASSUME t \in flagged, NEW k \in 1..Len(netCmd), Is(k, "recheck", t),
                ~ \E i \in 1..Len(more) : more[i] = Ask("pause", t)
         PROVE  t \in flagged' /\ k \in 1..Len(netCmd') /\ Is(k, "recheck", t)'
    <3>1. k \in 1..Len(netCmd') /\ netCmd'[k] = netCmd[k]
      BY <1>1
    <3> QED
      BY <1>6, <2>10, <3>1 DEF Is
  <2>11. ASSUME NEW j \in 1..Len(netCmd), Is(j, "pause", t), Still(j, t)
         PROVE  j \in 1..Len(netCmd') /\ Is(j, "pause", t)' /\ Still(j, t)'
    <3>1. j \in 1..Len(netCmd') /\ netCmd'[j] = netCmd[j]
      BY <1>1
    <3>2. Is(j, "pause", t)'
      BY <2>11, <3>1 DEF Is
    <3>3. Still(j, t)'
      BY <1>1, <2>6, <2>11
    <3> QED
      BY <3>1, <3>2, <3>3
  <2> QED
    BY <1>6, <2>1, <2>3, <2>4, <2>7, <2>8, <2>9, <2>10, <2>11 DEF RecheckInv
<1> QED
  BY <1>3, <1>5, <1>6

-----------------------------------------------------------------------------
(* Types *)

\* The status copies of an update are typed, in any order.
LEMMA StatusTyped ==
  ASSUME TypeOK, NEW order \in SetToSeqs(fresh)
  PROVE  [i \in 1..Len(order) |-> Status(order[i])] \in Seq(StatusCopy)
<1>1. IsFiniteSet(fresh)
  BY TorrentsAssumption, FS_Subset DEF TypeOK
<1>2. Cardinality(fresh) \in Nat
  BY <1>1, FS_CardinalityType
<1>3. order \in [1..Cardinality(fresh) -> fresh]
  BY DEF SetToSeqs
<1>4. order \in Seq(fresh) /\ Len(order) = Cardinality(fresh)
  BY <1>2, <1>3, FunctionSeq
<1>5. [i \in 1..Len(order) |-> Status(order[i])] \in [1..Len(order) -> StatusCopy]
  BY <1>3, <1>4 DEF Status, StatusCopy, TypeOK
<1> QED
  BY ONLY <1>2, <1>4, <1>5, FunctionSeq

\* The network thread runs a command.
LEMMA TypeNet == TypeOK /\ NetRun => TypeOK'
<1> SUFFICES ASSUME TypeOK, NetRun PROVE TypeOK'
  OBVIOUS
<1>1. Target \subseteq Torrents
  BY DEF Target
<1>2. ASSUME NEW op, Take(op)
      PROVE  /\ netCmd' \in Seq(AnyCommand)
             /\ UNCHANGED <<met, loop, action, flagged, commands, goalPaused, rechecked>>
  BY <1>2, TakeFacts DEF Take, NetFrame, history
<1>3. ASSUME NEW s \in {"checking", "gone"}, Become(s)
      PROVE  state' \in [Torrents -> {"checking", "downloading", "finished", "gone"}]
  BY <1>3 DEF Become, TypeOK
<1>4. CASE NetUpdate
  <2>1. \E order \in SetToSeqs(fresh) :
          ioQueue' = Append(ioQueue, [kind |-> "update",
                                      status |-> [i \in 1..Len(order) |-> Status(order[i])]])
    BY <1>4 DEF NetUpdate
  <2>2. PICK order \in SetToSeqs(fresh) :
          ioQueue' = Append(ioQueue, [kind |-> "update",
                                      status |-> [i \in 1..Len(order) |-> Status(order[i])]])
    BY <2>1
  <2>8. [i \in 1..Len(order) |-> Status(order[i])] \in Seq(StatusCopy)
    BY StatusTyped
  <2>9. ioQueue' \in Seq(AnyAlert)
    BY <2>2, <2>8, AppendProperties DEF TypeOK, AnyAlert
  <2> QED
    BY <1>2, <1>4, <2>9 DEF NetUpdate, TypeOK
<1>5. CASE NetPause
  BY <1>1, <1>2, <1>5 DEF NetPause, Call, TypeOK
<1>6. CASE NetResume
  BY <1>1, <1>2, <1>6 DEF NetResume, Call, TypeOK
<1>7. CASE NetManage
  BY <1>1, <1>2, <1>7 DEF NetManage, Call, TypeOK
<1>8. CASE NetUnmanage
  BY <1>1, <1>2, <1>8 DEF NetUnmanage, Call, TypeOK
<1>9. CASE NetRecheck
  BY <1>1, <1>2, <1>3, <1>9 DEF NetRecheck, Call, TypeOK
<1>10. CASE NetRemove
  BY <1>2, <1>3, <1>10 DEF NetRemove, TypeOK
<1> QED
  BY <1>4, <1>5, <1>6, <1>7, <1>8, <1>9, <1>10 DEF NetRun

\* libtorrent of itself, and the timer.
LEMMA TypeOwn ==
  ASSUME TypeOK, Tick \/ \E t \in Torrents : AutoManage(t) \/ CheckDone(t) \/ Download(t) \/ Seed(t)
  PROVE  TypeOK'
<1>1. CASE Tick
  BY <1>1, UpdateTyped, AppendProperties DEF Tick, TypeOK, libtorrent, history
<1>2. ASSUME NEW t \in Torrents, AutoManage(t) PROVE TypeOK'
  BY <1>2 DEF AutoManage, Stir, TypeOK, history
<1>3. ASSUME NEW t \in Torrents, CheckDone(t) PROVE TypeOK'
  <2>1. ioQueue' \in Seq(AnyAlert)
    BY <1>3, AppendProperties DEF CheckDone, TypeOK, AnyAlert
  <2>2. state' \in [Torrents -> {"checking", "downloading", "finished", "gone"}]
    BY <1>3 DEF CheckDone, TypeOK
  <2> QED
    BY <1>3, <2>1, <2>2 DEF CheckDone, Stir, TypeOK, history
<1>4. ASSUME NEW t \in Torrents, Download(t) PROVE TypeOK'
  <2>1. state' \in [Torrents -> {"checking", "downloading", "finished", "gone"}]
    BY <1>4 DEF Download, TypeOK
  <2> QED
    BY <1>4, <2>1 DEF Download, Stir, TypeOK, history
<1>5. ASSUME NEW t \in Torrents, Seed(t) PROVE TypeOK'
  BY <1>5 DEF Seed, Stir, TypeOK, history
<1> QED
  BY <1>1, <1>2, <1>3, <1>4, <1>5

\* The handlers.
LEMMA TypeHeap == TypeOK /\ Heap => TypeOK'
<1> SUFFICES ASSUME TypeOK, Heap PROVE TypeOK'
  OBVIOUS
<1>1. ASSUME NEW kind, Handle(kind)
      PROVE  /\ ioQueue' \in Seq(AnyAlert) /\ Head(ioQueue) \in AnyAlert
             /\ Head(ioQueue).kind = kind
  BY <1>1, HeadTailProperties DEF Handle, TypeOK
<1>2. CASE HandleChecked
  <2>1. Head(ioQueue) \in AnyAlert /\ Head(ioQueue).kind = "checked"
    BY <1>1, <1>2 DEF HandleChecked
  <2>2. Head(ioQueue).torrent \in Torrents
    BY <2>1 DEF AnyAlert
  <2>3. Ask("pause", Head(ioQueue).torrent) \in AnyCommand
    BY <2>2, AskTyped DEF Ops
  <2>4. netCmd' \in Seq(AnyCommand) /\ flagged' \subseteq Torrents
    <3>1. netCmd \in Seq(AnyCommand) /\ flagged \subseteq Torrents
      BY DEF TypeOK
    <3>2. Append(netCmd, Ask("pause", Head(ioQueue).torrent)) \in Seq(AnyCommand)
      BY <2>3, <3>1, AppendProperties
    <3> QED
      BY <1>2, <3>1, <3>2 DEF HandleChecked
  <2> QED
    BY <1>1, <1>2, <2>4 DEF HandleChecked, Handle, TypeOK, libtorrent, history
<1>3. CASE HandleUpdate
  <2>1. Head(ioQueue) \in AnyAlert /\ Head(ioQueue).kind = "update"
    BY <1>1, <1>3 DEF HandleUpdate
  <2>2. Head(ioQueue).status \in Seq(StatusCopy)
    BY <2>1 DEF AnyAlert
  <2> QED
    BY <1>1, <1>3, <2>2 DEF HandleUpdate, Handle, TypeOK, libtorrent, history
<1>4. ASSUME Look
      PROVE  /\ Head(loop) \in StatusCopy /\ Tail(loop) \in Seq(StatusCopy)
             /\ <<>> \in Seq(StatusCopy)
  BY <1>4, HeadTailProperties, EmptySeq DEF Look, TypeOK
<1>5. CASE LookDead \/ LookReturn \/ LookRemove \/ LookOn
  <2>1. Look /\ loop' \in {Tail(loop), <<>>} /\ UNCHANGED <<netCmd, goalPaused>>
    BY <1>5 DEF LookDead, LookReturn, LookRemove, LookOn, LookLive
  <2>2. loop' \in Seq(StatusCopy)
    BY <1>4, <2>1
  <2> QED
    BY <2>1, <2>2 DEF Look, TypeOK, libtorrent
<1>6. CASE LookPause
  <2>1. Look
    BY <1>6 DEF LookPause, LookLive
  <2>2. Head(loop).torrent \in Torrents
    BY <1>4, <2>1 DEF StatusCopy
  <2>3. netCmd' \in Seq(AnyCommand)
    <3>1. GoalCommands(Head(loop).torrent) \in Seq(AnyCommand)
      BY <2>2, GoalCommandsTyped
    <3> QED
      BY <1>6, <3>1, ConcatProperties DEF LookPause, TypeOK
  <2>4. loop' \in Seq(StatusCopy) /\ goalPaused' \subseteq Torrents
    BY <1>4, <1>6, <2>1, <2>2 DEF LookPause, TypeOK
  <2> QED
    BY <2>1, <2>3, <2>4 DEF Look, TypeOK, libtorrent
<1> QED
  BY <1>2, <1>3, <1>5, <1>6 DEF Heap

\* The user's commands.
LEMMA TypeUser == ASSUME TypeOK, NEW t \in Torrents, User(t) PROVE TypeOK'
<1>1. ASSUME NEW ops \in Seq(Ops), Perform(t, ops)
      PROVE  /\ netCmd' \in Seq(AnyCommand) /\ commands' \in 0..MaxCommands
             /\ UNCHANGED <<libtorrent, ioQueue, loop, action>>
  BY <1>1, PerformFacts DEF Perform
<1>2. Released(t) => goalPaused' \subseteq Torrents /\ rechecked' \subseteq Torrents
  BY DEF Released, TypeOK
<1>3. \A a, b \in Ops : <<a>> \in Seq(Ops) /\ <<a, b>> \in Seq(Ops)
  OBVIOUS
<1>4. /\ <<"resume">> \in Seq(Ops) /\ <<"unmanage", "resume">> \in Seq(Ops)
      /\ <<"pause">> \in Seq(Ops) /\ <<"remove">> \in Seq(Ops) /\ <<"recheck">> \in Seq(Ops)
      /\ <<"resume", "recheck">> \in Seq(Ops) /\ <<"manage">> \in Seq(Ops)
      /\ <<"unmanage">> \in Seq(Ops)
  BY <1>3 DEF Ops
<1>5. CASE Start(t) \/ ForceStart(t) \/ RemoveTorrent(t)
  BY <1>1, <1>2, <1>4, <1>5 DEF Start, ForceStart, RemoveTorrent, TypeOK, libtorrent
<1>6. CASE Pause(t)
  BY <1>1, <1>4, <1>6 DEF Pause, TypeOK, libtorrent, history
<1>7. CASE Recheck(t)
  BY <1>1, <1>4, <1>7 DEF Recheck, TypeOK, libtorrent, history
<1>8. ASSUME NEW on \in BOOLEAN, SetManaged(t, on) PROVE TypeOK'
  BY <1>1, <1>2, <1>4, <1>8 DEF SetManaged, TypeOK, libtorrent, history
<1> QED
  BY <1>5, <1>6, <1>7, <1>8 DEF User

\* Every step keeps the types.
LEMMA TypeStep == TypeOK /\ [Next]_vars => TypeOK'
<1>1. ASSUME TypeOK, UNCHANGED vars PROVE TypeOK'
  BY <1>1 DEF vars, libtorrent, history, TypeOK
<1> QED
  BY <1>1, TypeNet, TypeOwn, TypeHeap, TypeUser DEF Next

\* Initially.
LEMMA InitTypes == Init => TypeOK
BY BoundsAssumption, EmptySeq DEF Init, TypeOK

\* Every variable has its type, whatever libtorrent, the handlers and the user do.
THEOREM GoalTypes == Spec => []TypeOK
BY InitTypes, TypeStep, PTL DEF Spec

-----------------------------------------------------------------------------
(* The invariants *)

\* News of a check stays while alerts are added.
LEMMA WaitsAppend ==
  ASSUME TypeOK, NEW a \in AnyAlert, ioQueue' = Append(ioQueue, a)
  PROVE  /\ \A t \in Torrents : CheckedWaits(t) => CheckedWaits(t)'
         /\ \A t \in Torrents : a.kind = "checked" /\ a.torrent = t => CheckedWaits(t)'
<1>1. ioQueue \in Seq(AnyAlert)
  BY DEF TypeOK
<1>2. /\ Len(ioQueue) \in Nat /\ Len(ioQueue') = Len(ioQueue) + 1
      /\ \A i \in 1..Len(ioQueue) : ioQueue'[i] = ioQueue[i]
      /\ ioQueue'[Len(ioQueue) + 1] = a
  BY <1>1, AppendProperties, LenProperties
<1>3. \A i \in 1..Len(ioQueue) : i \in 1..Len(ioQueue')
  BY <1>2
<1>4. Len(ioQueue) + 1 \in 1..Len(ioQueue')
  BY <1>2
<1> QED
  BY <1>2, <1>3, <1>4 DEF CheckedWaits

\* It stays while alerts before it are taken.
LEMMA WaitsTail ==
  ASSUME TypeOK, ioQueue # <<>>, ioQueue' = Tail(ioQueue), NEW t \in Torrents,
         ~(Head(ioQueue).kind = "checked" /\ Head(ioQueue).torrent = t), CheckedWaits(t)
  PROVE  CheckedWaits(t)'
<1>1. ioQueue \in Seq(AnyAlert)
  BY DEF TypeOK
<1>2. Head(ioQueue) = ioQueue[1]
  BY <1>1, HeadElement
<1>3. PICK i \in 1..Len(ioQueue) : ioQueue[i].kind = "checked" /\ ioQueue[i].torrent = t
  BY DEF CheckedWaits
<1>4. i # 1
  BY <1>2, <1>3
<1>5. Len(ioQueue) \in Nat /\ Len(ioQueue') = Len(ioQueue) - 1
  BY <1>1, LenProperties, HeadTailProperties
<1>6. i - 1 \in 1..Len(ioQueue') /\ (i - 1) + 1 = i
  BY <1>3, <1>4, <1>5
<1>7. ioQueue'[i - 1] = ioQueue[i]
  BY <1>1, <1>6, TailElement
<1> QED
  BY <1>3, <1>6, <1>7 DEF CheckedWaits

\* The network thread's commands.
LEMMA NetStep == GoalsInv /\ NetRun => GoalInv' /\ RecheckInv'
<1> SUFFICES ASSUME GoalsInv, NetRun PROVE GoalInv' /\ RecheckInv'
  OBVIOUS
<1>0. TypeOK
  BY DEF GoalsInv
<1>1. ASSUME NEW op, Take(op)
      PROVE  netCmd # <<>> /\ Head(netCmd) = netCmd[1]
  BY <1>0, <1>1, TakeFacts
<1>2. UNCHANGED ioQueue => \A t \in Torrents : CheckedWaits(t) => CheckedWaits(t)'
  BY DEF CheckedWaits
<1>3. CASE NetUpdate
  <2>1. Take("update") /\ UNCHANGED <<state, paused, managed>>
    BY <1>3 DEF NetUpdate
  <2>2. \A t \in Torrents : CheckedWaits(t) => CheckedWaits(t)'
    <3>1. PICK order \in SetToSeqs(fresh) :
            ioQueue' = Append(ioQueue, [kind |-> "update",
                                        status |-> [i \in 1..Len(order) |-> Status(order[i])]])
      BY <1>3 DEF NetUpdate
    <3>2. [kind |-> "update", status |-> [i \in 1..Len(order) |-> Status(order[i])]] \in AnyAlert
      BY <1>0, StatusTyped DEF AnyAlert
    <3> QED
      BY <1>0, <3>1, <3>2, WaitsAppend
  <2> QED
    BY <2>1, <2>2, TakeSteps DEF Live
<1>4. CASE NetPause
  <2>1. Take("pause") /\ paused' = paused \cup Target /\ UNCHANGED <<state, managed, ioQueue>>
    BY <1>4 DEF NetPause, Call
  <2>2. Head(netCmd) = netCmd[1]
    BY <1>1, <2>1
  <2>3. \A t \in Torrents : Live(t) /\ netCmd[1].torrent = t => t \in Target
    BY <2>2 DEF Live, Target
  <2> QED
    BY <1>2, <2>1, <2>3, TakeSteps DEF Live
<1>5. CASE NetResume
  <2>1. Take("resume") /\ paused' = paused \ Target /\ UNCHANGED <<state, managed, ioQueue>>
    BY <1>5 DEF NetResume, Call
  <2>2. Head(netCmd) = netCmd[1]
    BY <1>1, <2>1
  <2>3. \A t \in Torrents : t \in Target => netCmd[1].torrent = t
    BY <2>2 DEF Target
  <2> QED
    BY <1>2, <2>1, <2>3, TakeSteps DEF Live
<1>6. CASE NetManage
  <2>1. Take("manage") /\ managed' = managed \cup Target /\ UNCHANGED <<state, paused, ioQueue>>
    BY <1>6 DEF NetManage, Call
  <2>2. Head(netCmd) = netCmd[1]
    BY <1>1, <2>1
  <2>3. \A t \in Torrents : t \in Target => netCmd[1].torrent = t
    BY <2>2 DEF Target
  <2> QED
    BY <1>2, <2>1, <2>3, TakeSteps DEF Live
<1>7. CASE NetUnmanage
  <2>1. Take("unmanage") /\ managed' = managed \ Target /\ UNCHANGED <<state, paused, ioQueue>>
    BY <1>7 DEF NetUnmanage, Call
  <2>2. Head(netCmd) = netCmd[1]
    BY <1>1, <2>1
  <2>3. \A t \in Torrents : Live(t) /\ netCmd[1].torrent = t => t \in Target
    BY <2>2 DEF Live, Target
  <2> QED
    BY <1>2, <2>1, <2>3, TakeSteps DEF Live
<1>8. CASE NetRecheck
  <2>1. /\ Take("recheck") /\ UNCHANGED <<paused, managed, ioQueue>>
        /\ state' = [t \in Torrents |-> IF t \in Target THEN "checking" ELSE state[t]]
    BY <1>8 DEF NetRecheck, Call, Become
  <2>2. Head(netCmd) = netCmd[1]
    BY <1>1, <2>1
  <2>3. \A t \in Torrents : Live(t) /\ netCmd[1].torrent = t => t \in Target
    BY <2>2 DEF Live, Target
  <2>4. \A t \in Torrents : Live(t)' => Live(t)
    BY <2>1 DEF Live, Target
  <2> QED
    BY <1>2, <2>1, <2>3, <2>4, TakeSteps
<1>9. CASE NetRemove
  <2>1. /\ Take("remove") /\ UNCHANGED <<paused, managed, ioQueue>>
        /\ state' = [t \in Torrents |-> IF t \in Target THEN "gone" ELSE state[t]]
    BY <1>9 DEF NetRemove, Become
  <2>2. \A t \in Torrents : Live(t)' => Live(t) /\ state'[t] = state[t]
    BY <2>1 DEF Live, Target
  <2> QED
    BY <1>2, <2>1, <2>2, TakeSteps
<1> QED
  BY <1>3, <1>4, <1>5, <1>6, <1>7, <1>8, <1>9 DEF NetRun

\* Steps that give libtorrent no command.
LEMMA QuietStep ==
  ASSUME GoalsInv, UNCHANGED <<netCmd, goalPaused, rechecked>>,
         \A t \in Torrents : Live(t)' =>
           /\ Live(t)
           /\ t \notin managed => t \notin managed'
           /\ t \in paused \ managed => t \in paused'
           /\ t \in flagged =>
                /\ t \in flagged'
                /\ state[t] = "checking" \/ CheckedWaits(t) =>
                     state'[t] = "checking" \/ CheckedWaits(t)'
  PROVE  GoalInv' /\ RecheckInv'
<1>1. TypeOK /\ GoalInv /\ RecheckInv
  BY DEF GoalsInv
<1>2. <<>> \in Seq(AnyCommand) /\ netCmd' = netCmd \o <<>>
  <2>1. netCmd \in Seq(AnyCommand)
    BY <1>1 DEF TypeOK
  <2> QED
    BY <2>1, EmptySeq, ConcatEmptySeq
<1>3. \A op, t : None(<<>>, op, t)
  BY DEF None
<1>4. goalPaused' \subseteq Torrents /\ rechecked' \subseteq Torrents
  BY <1>1 DEF TypeOK
<1>5. GoalInv'
  <2>1. \A t \in goalPaused' :
          /\ t \in goalPaused \/ <<>> = GoalCommands(t)
          /\ None(<<>>, "resume", t) /\ None(<<>>, "manage", t)
          /\ Live(t)' => /\ Live(t)
                         /\ t \notin managed => t \notin managed'
                         /\ t \in paused \ managed => t \in paused'
    BY <1>3, <1>4
  <2> QED
    BY <1>1, <1>2, <2>1, GoalMore
<1>6. RecheckInv'
  <2>1. \A t \in rechecked' :
          /\ None(<<>>, "manage", t)
          /\ Live(t)' => Live(t) /\ (t \notin managed => t \notin managed')
          /\ t \in rechecked /\ None(<<>>, "resume", t)
          /\ Live(t)' /\ t \in paused \ managed => t \in paused'
          /\ Live(t)' /\ t \in flagged =>
               /\ t \in flagged'
               /\ state[t] = "checking" \/ CheckedWaits(t) =>
                    state'[t] = "checking" \/ CheckedWaits(t)'
    BY <1>3, <1>4
  <2> QED
    BY <1>1, <1>2, <2>1, RecheckMore
<1> QED
  BY <1>5, <1>6

\* libtorrent of itself.
LEMMA OwnStep ==
  ASSUME GoalsInv,
         NEW t \in Torrents, AutoManage(t) \/ CheckDone(t) \/ Download(t) \/ Seed(t)
  PROVE  GoalInv' /\ RecheckInv'
<1>0. TypeOK
  BY DEF GoalsInv
<1>1. UNCHANGED <<netCmd, goalPaused, rechecked, flagged>>
  BY DEF AutoManage, CheckDone, Download, Seed, Stir, history
<1>2. UNCHANGED ioQueue => \A u \in Torrents : CheckedWaits(u) => CheckedWaits(u)'
  BY DEF CheckedWaits
<1>3. CASE AutoManage(t)
  <2>1. /\ t \in managed /\ UNCHANGED <<state, managed, ioQueue>>
        /\ \A u \in Torrents : u # t /\ u \in paused => u \in paused'
    BY <1>3 DEF AutoManage
  <2> QED
    BY <1>1, <1>2, <2>1, QuietStep DEF Live
<1>4. CASE CheckDone(t)
  <2>1. /\ UNCHANGED <<managed, paused>>
        /\ \E s \in {"downloading", "finished"} : state' = [state EXCEPT ![t] = s]
        /\ state[t] = "checking"
        /\ ioQueue' = Append(ioQueue, [kind |-> "checked", torrent |-> t])
    BY <1>4 DEF CheckDone
  <2>2. [kind |-> "checked", torrent |-> t] \in AnyAlert
    BY DEF AnyAlert
  <2>3. /\ \A u \in Torrents : CheckedWaits(u) => CheckedWaits(u)'
        /\ CheckedWaits(t)'
    BY <1>0, <2>1, <2>2, WaitsAppend
  <2>4. /\ \A u \in Torrents : u # t => state'[u] = state[u]
        /\ Live(t)
    BY <1>0, <2>1 DEF TypeOK, Live
  <2>5. \A u \in Torrents : Live(u)' => Live(u)
    BY <2>4 DEF Live
  <2> QED
    BY <1>1, <2>1, <2>3, <2>4, <2>5, QuietStep
<1>5. CASE Download(t)
  <2>1. /\ UNCHANGED <<managed, paused, ioQueue>>
        /\ \E s \in {"downloading", "finished"} : state' = [state EXCEPT ![t] = s]
        /\ state[t] = "downloading"
    BY <1>5 DEF Download
  <2>2. \A u \in Torrents : u # t => state'[u] = state[u]
    BY <1>0, <2>1 DEF TypeOK
  <2>3. \A u \in Torrents : Live(u)' => Live(u)
    BY <2>1, <2>2 DEF Live
  <2> QED
    BY <1>1, <1>2, <2>1, <2>2, <2>3, QuietStep
<1>6. CASE Seed(t)
  BY <1>1, <1>2, <1>6, QuietStep DEF Seed, Live
<1> QED
  BY <1>3, <1>4, <1>5, <1>6

\* Tick asks for the status of the torrents, which starts none.
LEMMA TickStep == ASSUME GoalsInv, Tick PROVE GoalInv' /\ RecheckInv'
<1>1. TypeOK /\ GoalInv /\ RecheckInv
  BY DEF GoalsInv
<1>2. /\ UNCHANGED <<state, paused, managed, ioQueue, flagged, goalPaused, rechecked>>
      /\ netCmd' = Append(netCmd, Update)
  BY DEF Tick, libtorrent, history
<1>3. <<Update>> \in Seq(AnyCommand) /\ netCmd' = netCmd \o <<Update>>
  <2>1. netCmd \in Seq(AnyCommand) /\ Update \in AnyCommand
    BY <1>1, UpdateTyped DEF TypeOK
  <2>2. <<Update>> \in Seq(AnyCommand)
    BY <2>1
  <2> QED
    BY <1>2, <2>1, <2>2, AppendIsConcat
<1>4. \A t : None(<<Update>>, "resume", t) /\ None(<<Update>>, "manage", t)
  BY UpdateTyped DEF None
<1>5. goalPaused' \subseteq Torrents /\ rechecked' \subseteq Torrents
  BY <1>1, <1>2 DEF TypeOK
<1>6. GoalInv'
  BY <1>1, <1>2, <1>3, <1>4, GoalMore DEF Live
<1>7. RecheckInv'
  <2>1. \A t \in rechecked' : CheckedWaits(t) => CheckedWaits(t)'
    BY <1>2 DEF CheckedWaits
  <2> QED
    BY <1>1, <1>2, <1>3, <1>4, <2>1, RecheckMore DEF Live
<1> QED
  BY <1>6, <1>7

\* The handlers.
LEMMA HeapStep == ASSUME GoalsInv, Heap PROVE GoalInv' /\ RecheckInv'
<1>0. TypeOK /\ GoalInv /\ RecheckInv
  BY DEF GoalsInv
<1>1. goalPaused \subseteq Torrents /\ rechecked \subseteq Torrents /\ netCmd \in Seq(AnyCommand)
  BY <1>0 DEF TypeOK
<1>2. CASE HandleUpdate
  <2>1. /\ UNCHANGED <<state, paused, managed, netCmd, flagged, goalPaused, rechecked>>
        /\ ioQueue # <<>> /\ Head(ioQueue).kind = "update" /\ ioQueue' = Tail(ioQueue)
    BY <1>2 DEF HandleUpdate, Handle, libtorrent, history
  <2>2. \A t \in Torrents : CheckedWaits(t) => CheckedWaits(t)'
    BY <1>0, <2>1, WaitsTail
  <2> QED
    BY <2>1, <2>2, QuietStep DEF Live
<1>3. CASE HandleChecked
  <2>1. /\ UNCHANGED <<state, paused, managed, goalPaused, rechecked>>
        /\ ioQueue # <<>> /\ Head(ioQueue).kind = "checked" /\ ioQueue' = Tail(ioQueue)
    BY <1>3 DEF HandleChecked, Handle, libtorrent, history
  <2>2. Head(ioQueue).torrent \in Torrents
    <3>1. Head(ioQueue) \in AnyAlert
      BY <1>0, <2>1, HeadTailProperties DEF TypeOK
    <3> QED
      BY <2>1, <3>1 DEF AnyAlert
  <2>3. PICK t \in Torrents : t = Head(ioQueue).torrent
    BY <2>2
  <2>4. \A u \in Torrents : u # t /\ CheckedWaits(u) => CheckedWaits(u)'
    BY <1>0, <2>1, <2>3, WaitsTail
  <2>5. CASE t \in flagged /\ state[t] # "gone"
    <3>1. netCmd' = Append(netCmd, Ask("pause", t)) /\ flagged' = flagged \ {t}
      BY <1>3, <2>3, <2>5 DEF HandleChecked
    <3>2. Ask("pause", t) \in AnyCommand
      BY AskTyped DEF Ops
    <3>3. <<Ask("pause", t)>> \in Seq(AnyCommand) /\ netCmd' = netCmd \o <<Ask("pause", t)>>
      <4>1. <<Ask("pause", t)>> \in Seq(AnyCommand)
        BY <3>2
      <4> QED
        BY <1>1, <3>1, <3>2, <4>1, AppendIsConcat
    <3>4. \A u : None(<<Ask("pause", t)>>, "resume", u) /\ None(<<Ask("pause", t)>>, "manage", u)
      BY DEF None, Ask
    <3>5. \E k \in 1..Len(<<Ask("pause", t)>>) : <<Ask("pause", t)>>[k] = Ask("pause", t)
      OBVIOUS
    <3>6. GoalInv'
      BY <1>0, <2>1, <3>3, <3>4, GoalMore DEF Live
    <3>7. \A u \in rechecked' : u \in flagged =>
            \/ /\ u \in flagged'
               /\ state[u] = "checking" \/ CheckedWaits(u) =>
                    state'[u] = "checking" \/ CheckedWaits(u)'
            \/ \E k \in 1..Len(<<Ask("pause", t)>>) : <<Ask("pause", t)>>[k] = Ask("pause", u)
      BY <1>1, <2>1, <2>4, <3>1, <3>5
    <3>8. RecheckInv'
      BY <1>0, <2>1, <3>3, <3>4, <3>7, RecheckMore DEF Live
    <3> QED
      BY <3>6, <3>8
  <2>6. CASE ~(t \in flagged /\ state[t] # "gone")
    <3>1. UNCHANGED <<netCmd, flagged>>
      BY <1>3, <2>3, <2>6 DEF HandleChecked
    <3> QED
      BY <2>1, <2>4, <2>6, <3>1, QuietStep DEF Live
  <2> QED
    BY <2>5, <2>6
<1>4. CASE LookDead \/ LookReturn \/ LookRemove \/ LookOn
  <2>1. UNCHANGED <<state, paused, managed, ioQueue, netCmd, flagged, goalPaused, rechecked>>
    BY <1>4 DEF LookDead, LookReturn, LookRemove, LookOn, LookLive, Look, libtorrent
  <2>2. \A t \in Torrents : CheckedWaits(t) => CheckedWaits(t)'
    BY <2>1 DEF CheckedWaits
  <2> QED
    BY <2>1, <2>2, QuietStep DEF Live
<1>5. CASE LookPause
  <2>1. /\ loop # <<>>
        /\ UNCHANGED <<state, paused, managed, ioQueue, flagged, rechecked>>
    BY <1>5 DEF LookPause, LookLive, Look, libtorrent
  <2>2. Head(loop).torrent \in Torrents
    <3>1. Head(loop) \in StatusCopy
      BY <1>0, <2>1, HeadTailProperties DEF TypeOK
    <3> QED
      BY <3>1 DEF StatusCopy
  <2>3. PICK t \in Torrents : t = Head(loop).torrent
    BY <2>2
  <2>4. netCmd' = netCmd \o GoalCommands(t) /\ goalPaused' = goalPaused \cup {t}
    BY <1>5, <2>3 DEF LookPause
  <2>5. GoalCommands(t) \in Seq(AnyCommand)
    BY GoalCommandsTyped
  <2>6. \A u : None(GoalCommands(t), "resume", u) /\ None(GoalCommands(t), "manage", u)
    <3>1. /\ Len(GoalCommands(t)) = 2
          /\ GoalCommands(t)[1].op = "unmanage" /\ GoalCommands(t)[2].op = "pause"
      BY DEF GoalCommands, Ask
    <3>2. \A k \in 1..Len(GoalCommands(t)) : k = 1 \/ k = 2
      BY <3>1
    <3> QED
      BY <3>1, <3>2 DEF None
  <2>7. GoalInv'
    BY <1>0, <2>1, <2>4, <2>5, <2>6, GoalMore DEF Live
  <2>8. RecheckInv'
    <3>1. \A u \in Torrents : CheckedWaits(u) => CheckedWaits(u)'
      BY <2>1 DEF CheckedWaits
    <3> QED
      BY <1>0, <1>1, <2>1, <2>4, <2>5, <2>6, <3>1, RecheckMore DEF Live
  <2> QED
    BY <2>7, <2>8
<1> QED
  BY <1>2, <1>3, <1>4, <1>5 DEF Heap

\* An RPC method: what it does to the torrent it is for.
LEMMA PerformStep ==
  ASSUME GoalsInv, NEW t \in Torrents, NEW ops \in Seq(Ops), Perform(t, ops),
         flagged \subseteq flagged', goalPaused' \subseteq goalPaused,
         t \in goalPaused' => \A k \in 1..Len(ops) : ops[k] \notin {"resume", "manage"},
         \A u \in rechecked' :
           \/ u \in rechecked
              /\ (u = t => \A k \in 1..Len(ops) : ops[k] \notin {"resume", "manage"})
           \/ /\ u = t /\ t \notin managed /\ t \in flagged'
              /\ \A k \in 1..Len(ops) : ops[k] # "manage"
              /\ \E k \in 1..Len(ops) : ops[k] = "recheck"
  PROVE  GoalInv' /\ RecheckInv'
<1>0. TypeOK /\ GoalInv /\ RecheckInv
  BY DEF GoalsInv
<1>1. UNCHANGED <<state, paused, managed, ioQueue>>
  BY DEF Perform, libtorrent
<1>2. /\ netCmd = <<>> /\ netCmd' \in Seq(AnyCommand) /\ Len(netCmd') = Len(ops)
      /\ \A k \in 1..Len(ops) : netCmd'[k] = Ask(ops[k], t)
  BY <1>0, PerformFacts
<1>3. PICK more : more = netCmd'
  OBVIOUS
<1>4. /\ more \in Seq(AnyCommand) /\ netCmd' = netCmd \o more /\ Len(more) = Len(ops)
      /\ \A k \in 1..Len(ops) : more[k] = Ask(ops[k], t)
  <2>1. more \in Seq(AnyCommand)
    BY <1>2, <1>3
  <2>2. <<>> \o more = more
    BY <2>1, ConcatEmptySeq
  <2> QED
    BY <1>2, <1>3, <2>1, <2>2
<1>5. /\ \A u, what : u # t => None(more, what, u)
      /\ \A u, what : (\A k \in 1..Len(ops) : ops[k] # what) => None(more, what, u)
  <2>1. \A k \in 1..Len(more) : more[k].torrent = t /\ more[k].op = ops[k]
    <3>1. \A a, u : Ask(a, u).op = a /\ Ask(a, u).torrent = u
      BY DEF Ask
    <3>2. \A k \in 1..Len(more) : more[k] = Ask(ops[k], t)
      BY <1>4
    <3> QED
      BY <3>1, <3>2
  <2>2. ASSUME NEW u, NEW what, u # t PROVE None(more, what, u)
    BY <2>1, <2>2 DEF None
  <2>3. ASSUME NEW u, NEW what, \A k \in 1..Len(ops) : ops[k] # what
        PROVE  None(more, what, u)
    BY <1>4, <2>1, <2>3 DEF None
  <2> QED
    BY <2>2, <2>3
<1>6. GoalInv'
  <2>1. \A u \in goalPaused' : u \in goalPaused /\ None(more, "resume", u) /\ None(more, "manage", u)
    BY <1>5
  <2> QED
    BY <1>0, <1>1, <1>4, <2>1, GoalMore DEF Live
<1>7. RecheckInv'
  <2>1. \A u \in rechecked' : None(more, "manage", u)
    BY <1>5
  <2>2. \A u \in rechecked' :
          \/ u \in rechecked /\ None(more, "resume", u)
          \/ /\ netCmd = <<>> /\ u \notin managed /\ u \in flagged'
             /\ \E k \in 1..Len(more) : more[k] = Ask("recheck", u)
    BY <1>2, <1>4, <1>5
  <2>3. \A u \in rechecked' : CheckedWaits(u) => CheckedWaits(u)'
    BY <1>1 DEF CheckedWaits
  <2> QED
    BY <1>0, <1>1, <1>4, <2>1, <2>2, <2>3, RecheckMore DEF Live
<1> QED
  BY <1>6, <1>7

\* The sequences of operations that the RPC methods ask for.
LEMMA OpsTyped ==
  /\ \A a \in Ops : <<a>> \in Seq(Ops) /\ Len(<<a>>) = 1 /\ <<a>>[1] = a
  /\ \A a, b \in Ops : /\ <<a, b>> \in Seq(Ops) /\ Len(<<a, b>>) = 2
                       /\ <<a, b>>[1] = a /\ <<a, b>>[2] = b
OBVIOUS

\* The user's commands.
LEMMA UserStep == ASSUME GoalsInv, NEW t \in Torrents, User(t) PROVE GoalInv' /\ RecheckInv'
<1>0. goalPaused \subseteq Torrents /\ rechecked \subseteq Torrents /\ flagged \subseteq Torrents
  BY DEF GoalsInv, TypeOK
<1>1. ASSUME NEW ops \in Seq(Ops), Perform(t, ops), Released(t), UNCHANGED flagged
      PROVE  GoalInv' /\ RecheckInv'
  BY <1>1, PerformStep DEF Released
<1>2. ASSUME NEW op \in {"pause", "unmanage", "recheck"}, Perform(t, <<op>>),
             UNCHANGED <<flagged, history>>
      PROVE  GoalInv' /\ RecheckInv'
  <2>1. <<op>> \in Seq(Ops) /\ Len(<<op>>) = 1 /\ <<op>>[1] = op
    BY OpsTyped DEF Ops
  <2>2. \A k \in 1..Len(<<op>>) : <<op>>[k] \notin {"resume", "manage"}
    BY <2>1
  <2> QED
    BY <1>2, <2>1, <2>2, PerformStep DEF history
<1>3. CASE Start(t) \/ ForceStart(t) \/ RemoveTorrent(t)
  <2>1. /\ <<"resume">> \in Seq(Ops) /\ <<"remove">> \in Seq(Ops)
        /\ <<"unmanage", "resume">> \in Seq(Ops)
    BY OpsTyped DEF Ops
  <2> QED
    BY <1>1, <1>3, <2>1 DEF Start, ForceStart, RemoveTorrent
<1>4. CASE Pause(t)
  BY <1>2, <1>4 DEF Pause
<1>5. ASSUME NEW on \in BOOLEAN, SetManaged(t, on) PROVE GoalInv' /\ RecheckInv'
  <2>1. <<"manage">> \in Seq(Ops)
    BY OpsTyped DEF Ops
  <2> QED
    BY <1>1, <1>2, <1>5, <2>1 DEF SetManaged
<1>6. CASE Recheck(t)
  <2>1. CASE t \in paused \ managed
    <3>1. /\ Perform(t, <<"resume", "recheck">>) /\ flagged' = flagged \cup {t}
          /\ goalPaused' = goalPaused \ {t} /\ rechecked' = rechecked \cup {t}
      BY <1>6, <2>1 DEF Recheck
    <3>2. /\ <<"resume", "recheck">> \in Seq(Ops) /\ Len(<<"resume", "recheck">>) = 2
          /\ <<"resume", "recheck">>[1] = "resume" /\ <<"resume", "recheck">>[2] = "recheck"
      BY OpsTyped DEF Ops
    <3>3. /\ \A k \in 1..Len(<<"resume", "recheck">>) : <<"resume", "recheck">>[k] # "manage"
          /\ \E k \in 1..Len(<<"resume", "recheck">>) : <<"resume", "recheck">>[k] = "recheck"
      BY <3>2
    <3>4. \A u \in rechecked' : u = t \/ (u \in rechecked /\ u # t)
      BY <3>1
    <3>5. t \notin managed /\ t \in flagged' /\ flagged \subseteq flagged' /\ t \notin goalPaused'
          /\ goalPaused' \subseteq goalPaused
      BY <2>1, <3>1
    <3> QED
      BY <3>1, <3>2, <3>3, <3>4, <3>5, PerformStep
  <2>2. CASE ~(t \in paused \ managed)
    BY <1>2, <1>6, <2>2 DEF Recheck
  <2> QED
    BY <2>1, <2>2
<1> QED
  BY <1>3, <1>4, <1>5, <1>6 DEF User

\* The invariants hold initially, and every step keeps them.
LEMMA GoalsInvariant == Spec => []GoalsInv
<1>1. Init => GoalsInv
  BY InitTypes DEF Init, GoalsInv, GoalInv, RecheckInv
<1>2. GoalsInv /\ [Next]_vars => GoalsInv'
  <2>1. ASSUME GoalsInv, UNCHANGED vars PROVE GoalInv' /\ RecheckInv'
    <3>1. UNCHANGED <<state, paused, managed, ioQueue, netCmd, flagged, goalPaused, rechecked>>
      BY <2>1 DEF vars, libtorrent, history
    <3>2. \A t \in Torrents : CheckedWaits(t) => CheckedWaits(t)'
      BY <3>1 DEF CheckedWaits
    <3> QED
      BY <2>1, <3>1, <3>2, QuietStep DEF Live
  <2>2. GoalsInv => TypeOK
    BY DEF GoalsInv
  <2>3. GoalsInv /\ [Next]_vars => GoalInv' /\ RecheckInv'
    BY <2>1, NetStep, HeapStep, TickStep, UserStep, OwnStep DEF Next
  <2> QED
    BY <2>2, <2>3, TypeStep DEF GoalsInv
<1> QED
  BY <1>1, <1>2, PTL DEF Spec

\* A torrent that the stateUpdate handler paused for its goal stays paused and unmanaged
\* until the user starts it, hands it back to libtorrent or removes it.
THEOREM GoalPausesStay == Spec => []GoalPauseStays
<1>1. GoalsInv => GoalPauseStays
  <2>1. SUFFICES ASSUME GoalsInv, NEW t \in goalPaused, Live(t), ~Asked(t)
                 PROVE  t \in paused \ managed
    BY DEF GoalPauseStays
  <2>2. netCmd # <<>> => 1 \in 1..Len(netCmd)
    BY HeadElement DEF GoalsInv, TypeOK
  <2> QED
    BY <2>1, <2>2 DEF GoalsInv, GoalInv, Is, Asked
<1> QED
  BY <1>1, GoalsInvariant, PTL

-----------------------------------------------------------------------------
(* Flags go with their checks *)

\* A command waits for t.
CommandWaits(op, t) == \E k \in 1..Len(netCmd) : Is(k, op, t)

\* The check that the flag of t was set for is asked for, runs, or is told of.
CheckComes(t) == state[t] = "checking" \/ CheckedWaits(t) \/ CommandWaits("recheck", t)

FlagInv == \A t \in flagged : Live(t) => CheckComes(t)

\* A command that waits still does when the first one is taken, unless it was that.
LEMMA CommandTaken ==
  ASSUME TypeOK, NEW first, Take(first), NEW op, NEW t, CommandWaits(op, t)
  PROVE  CommandWaits(op, t)' \/ (first = op /\ netCmd[1].torrent = t)
<1>1. /\ Len(netCmd) \in Nat /\ Len(netCmd') = Len(netCmd) - 1 /\ netCmd[1].op = first
      /\ \A k \in 1..Len(netCmd') : k + 1 \in 1..Len(netCmd) /\ netCmd'[k] = netCmd[k + 1]
  BY TakeFacts
<1>2. PICK k \in 1..Len(netCmd) : Is(k, op, t)
  BY DEF CommandWaits
<1>3. CASE k = 1
  BY <1>1, <1>2, <1>3 DEF Is
<1>4. CASE k # 1
  <2>1. k - 1 \in 1..Len(netCmd') /\ (k - 1) + 1 = k
    BY <1>1, <1>4
  <2>2. netCmd'[k - 1] = netCmd[k]
    BY <1>1, <2>1
  <2> QED
    BY <1>2, <2>1, <2>2 DEF CommandWaits, Is
<1> QED
  BY <1>3, <1>4

\* Commands are only added behind it, by all but the network thread.
LEMMA CommandsStay ==
  ASSUME TypeOK, [Next]_vars, ~NetRun, NEW op, NEW t, CommandWaits(op, t)
  PROVE  CommandWaits(op, t)'
<1>1. netCmd \in Seq(AnyCommand)
  BY DEF TypeOK
<1>2. ASSUME NEW more \in Seq(AnyCommand), netCmd' = netCmd \o more PROVE CommandWaits(op, t)'
  BY <1>2, AppendFacts DEF CommandWaits, Is
<1>3. ASSUME NEW c \in AnyCommand, netCmd' = Append(netCmd, c) PROVE CommandWaits(op, t)'
  <2>1. <<c>> \in Seq(AnyCommand) /\ netCmd' = netCmd \o <<c>>
    BY <1>1, <1>3, AppendIsConcat
  <2> QED
    BY <1>2, <2>1
<1>4. CASE UNCHANGED netCmd
  BY <1>4 DEF CommandWaits, Is
<1>5. CASE Tick
  BY <1>3, <1>5, UpdateTyped DEF Tick
<1>6. CASE HandleChecked
  <2>1. Head(ioQueue) \in AnyAlert /\ Head(ioQueue).kind = "checked"
    BY <1>6, HeadTailProperties DEF HandleChecked, Handle, TypeOK
  <2>2. Ask("pause", Head(ioQueue).torrent) \in AnyCommand
    BY <2>1, AskTyped DEF AnyAlert, Ops
  <2> QED
    BY <1>3, <1>4, <1>6, <2>2 DEF HandleChecked
<1>7. CASE LookPause
  <2>1. Head(loop) \in StatusCopy
    BY <1>7, HeadTailProperties DEF LookPause, LookLive, Look, TypeOK
  <2>2. GoalCommands(Head(loop).torrent) \in Seq(AnyCommand)
    BY <2>1, GoalCommandsTyped DEF StatusCopy
  <2> QED
    BY <1>2, <1>7, <2>2 DEF LookPause
<1>8. CASE HandleUpdate \/ LookDead \/ LookReturn \/ LookRemove \/ LookOn
  BY <1>4, <1>8 DEF HandleUpdate, LookDead, LookReturn, LookRemove, LookOn
<1>9. ASSUME NEW u \in Torrents, AutoManage(u) \/ CheckDone(u) \/ Download(u) \/ Seed(u)
      PROVE  CommandWaits(op, t)'
  BY <1>4, <1>9 DEF AutoManage, CheckDone, Download, Seed, Stir
<1>10. ASSUME NEW u \in Torrents, User(u) PROVE netCmd = <<>>
  BY <1>10 DEF User, Start, ForceStart, Pause, RemoveTorrent, Recheck, SetManaged, Perform
<1>11. netCmd # <<>>
  BY <1>1, EmptySeq DEF CommandWaits
<1>12. CASE UNCHANGED vars
  BY <1>4, <1>12 DEF vars
<1> QED
  BY <1>5, <1>6, <1>7, <1>8, <1>9, <1>10, <1>11, <1>12 DEF Next, Heap

\* What a command of the network thread does to a check.
LEMMA NetChecks ==
  ASSUME TypeOK, NetRun, NEW t \in Torrents, Live(t)', CheckComes(t)
  PROVE  Live(t) /\ CheckComes(t)'
<1>1. UNCHANGED ioQueue => (CheckedWaits(t) => CheckedWaits(t)')
  BY DEF CheckedWaits
<1>2. ASSUME NEW op, Take(op), op # "recheck", UNCHANGED state, CheckedWaits(t) => CheckedWaits(t)'
      PROVE  Live(t) /\ CheckComes(t)'
  BY <1>2, CommandTaken DEF CheckComes, Live
<1>3. CASE NetUpdate
  <2>1. PICK order \in SetToSeqs(fresh) :
          ioQueue' = Append(ioQueue, [kind |-> "update",
                                      status |-> [i \in 1..Len(order) |-> Status(order[i])]])
    BY <1>3 DEF NetUpdate
  <2>2. [kind |-> "update", status |-> [i \in 1..Len(order) |-> Status(order[i])]] \in AnyAlert
    BY StatusTyped DEF AnyAlert
  <2>3. CheckedWaits(t) => CheckedWaits(t)'
    BY <2>1, <2>2, WaitsAppend
  <2> QED
    BY <1>2, <1>3, <2>3 DEF NetUpdate
<1>4. CASE NetPause \/ NetResume \/ NetManage \/ NetUnmanage
  BY <1>1, <1>2, <1>4 DEF NetPause, NetResume, NetManage, NetUnmanage, Call
<1>5. CASE NetRecheck
  <2>1. /\ Take("recheck") /\ UNCHANGED ioQueue
        /\ state' = [u \in Torrents |-> IF u \in Target THEN "checking" ELSE state[u]]
    BY <1>5 DEF NetRecheck, Call, Become
  <2>2. Head(netCmd) = netCmd[1]
    BY <2>1, TakeFacts
  <2>3. Live(t) /\ (netCmd[1].torrent = t => state'[t] = "checking")
    BY <2>1, <2>2 DEF Live, Target
  <2>4. CommandWaits("recheck", t) => CommandWaits("recheck", t)' \/ netCmd[1].torrent = t
    BY <2>1, CommandTaken
  <2>5. state[t] = "checking" => state'[t] = "checking"
    BY <2>1
  <2> QED
    BY <1>1, <2>1, <2>3, <2>4, <2>5 DEF CheckComes
<1>6. CASE NetRemove
  <2>1. /\ Take("remove") /\ UNCHANGED ioQueue
        /\ state' = [u \in Torrents |-> IF u \in Target THEN "gone" ELSE state[u]]
    BY <1>6 DEF NetRemove, Become
  <2>2. Live(t) /\ state'[t] = state[t]
    BY <2>1 DEF Live, Target
  <2>3. CommandWaits("recheck", t) => CommandWaits("recheck", t)'
    BY <2>1, CommandTaken
  <2> QED
    BY <1>1, <2>1, <2>2, <2>3 DEF CheckComes
<1> QED
  BY <1>3, <1>4, <1>5, <1>6 DEF NetRun

\* No step leaves a flag behind.
LEMMA FlagStep == TypeOK /\ FlagInv /\ [Next]_vars => FlagInv'
<1> SUFFICES ASSUME TypeOK, FlagInv, [Next]_vars, NEW t \in flagged', Live(t)'
             PROVE  CheckComes(t)'
  BY DEF FlagInv
<1>0. flagged \subseteq Torrents
  BY DEF TypeOK
<1>1. ASSUME t \in flagged, ~NetRun, Live(t),
             state[t] = "checking" => state'[t] = "checking" \/ CheckedWaits(t)',
             CheckedWaits(t) => CheckedWaits(t)'
      PROVE  CheckComes(t)'
  BY <1>1, CommandsStay DEF FlagInv, CheckComes
<1>2. UNCHANGED ioQueue => (CheckedWaits(t) => CheckedWaits(t)')
  BY DEF CheckedWaits
<1>3. CASE NetRun
  <2>1. flagged' = flagged
    BY <1>3 DEF NetRun, NetUpdate, NetPause, NetResume, NetManage, NetUnmanage, NetRecheck,
                NetRemove, Call, Take, NetFrame
  <2>2. t \in Torrents /\ (Live(t) => CheckComes(t))
    BY <1>0, <2>1 DEF FlagInv
  <2>3. Live(t)
    BY <1>3, <2>2 DEF NetRun, NetUpdate, NetPause, NetResume, NetManage, NetUnmanage, NetRecheck,
                      NetRemove, Call, Become, Target, Live
  <2> QED
    BY <1>3, <2>2, <2>3, NetChecks
<1>4. CASE HandleUpdate /\ ~NetRun
  <2>1. /\ UNCHANGED <<state, flagged>>
        /\ ioQueue # <<>> /\ Head(ioQueue).kind = "update" /\ ioQueue' = Tail(ioQueue)
    BY <1>4 DEF HandleUpdate, Handle, libtorrent
  <2>2. CheckedWaits(t) => CheckedWaits(t)'
    BY <1>0, <2>1, WaitsTail
  <2> QED
    BY <1>1, <1>4, <2>1, <2>2 DEF Live
<1>5. CASE HandleChecked /\ ~NetRun
  <2>1. /\ UNCHANGED state
        /\ ioQueue # <<>> /\ Head(ioQueue).kind = "checked" /\ ioQueue' = Tail(ioQueue)
    BY <1>5 DEF HandleChecked, Handle, libtorrent
  <2>2. t \in flagged /\ t # Head(ioQueue).torrent
    BY <1>5, <2>1 DEF HandleChecked, Live
  <2>3. CheckedWaits(t) => CheckedWaits(t)'
    BY <1>0, <2>1, <2>2, WaitsTail
  <2> QED
    BY <1>1, <1>5, <2>1, <2>2, <2>3 DEF Live
<1>6. CASE (LookDead \/ LookReturn \/ LookPause \/ LookRemove \/ LookOn) /\ ~NetRun
  <2>1. UNCHANGED <<state, ioQueue, flagged>>
    BY <1>6 DEF LookDead, LookReturn, LookPause, LookRemove, LookOn, LookLive, Look, libtorrent
  <2> QED
    BY <1>1, <1>2, <1>6, <2>1 DEF Live
<1>7. CASE Tick /\ ~NetRun
  BY <1>1, <1>2, <1>7 DEF Tick, libtorrent, Live
<1>8. ASSUME NEW u \in Torrents, AutoManage(u) \/ Download(u) \/ Seed(u), ~NetRun
      PROVE  CheckComes(t)'
  <2>1. UNCHANGED <<ioQueue, flagged>>
    BY <1>8 DEF AutoManage, Download, Seed, Stir
  <2>2. Live(t) /\ (state[t] = "checking" => state'[t] = "checking")
    <3>0. t \in Torrents
      BY <1>0, <2>1
    <3>1. CASE AutoManage(u) \/ Seed(u)
      BY <3>1 DEF AutoManage, Seed, Live
    <3>2. CASE Download(u)
      <4>1. /\ state[u] = "downloading"
            /\ \E s \in {"downloading", "finished"} : state' = [state EXCEPT ![u] = s]
        BY <3>2 DEF Download
      <4>2. t # u => state'[t] = state[t]
        BY <3>0, <4>1 DEF TypeOK
      <4> QED
        BY <4>1, <4>2 DEF Live
    <3> QED
      BY <1>8, <3>1, <3>2
  <2> QED
    BY <1>1, <1>2, <1>8, <2>1, <2>2
<1>9. ASSUME NEW u \in Torrents, CheckDone(u), ~NetRun PROVE CheckComes(t)'
  <2>1. /\ flagged' = flagged /\ state[u] = "checking"
        /\ \E s \in {"downloading", "finished"} : state' = [state EXCEPT ![u] = s]
        /\ ioQueue' = Append(ioQueue, [kind |-> "checked", torrent |-> u])
    BY <1>9 DEF CheckDone, Stir
  <2>2. [kind |-> "checked", torrent |-> u] \in AnyAlert
    BY DEF AnyAlert
  <2>3. (CheckedWaits(t) => CheckedWaits(t)') /\ CheckedWaits(u)'
    BY <1>0, <2>1, <2>2, WaitsAppend
  <2>4. Live(t) /\ (t # u => state'[t] = state[t])
    BY <2>1 DEF Live, TypeOK
  <2> QED
    BY <1>1, <1>9, <2>1, <2>3, <2>4
<1>10. ASSUME NEW u \in Torrents, User(u), ~NetRun PROVE CheckComes(t)'
  <2>1. UNCHANGED <<state, ioQueue>>
    BY <1>10 DEF User, Start, ForceStart, Pause, RemoveTorrent, Recheck, SetManaged, Perform,
                 libtorrent
  <2>2. CASE t \in flagged
    BY <1>1, <1>2, <1>10, <2>1, <2>2 DEF Live
  <2>3. CASE t \notin flagged
    <3>1. Recheck(u) /\ u \in paused \ managed /\ t = u
      BY <1>10, <2>3 DEF User, Start, ForceStart, Pause, RemoveTorrent, Recheck, SetManaged, history
    <3>2. Perform(t, <<"resume", "recheck">>)
      BY <3>1 DEF Recheck
    <3>3. /\ <<"resume", "recheck">> \in Seq(Ops) /\ Len(<<"resume", "recheck">>) = 2
          /\ <<"resume", "recheck">>[2] = "recheck"
      BY OpsTyped DEF Ops
    <3>4. /\ Len(netCmd') = Len(<<"resume", "recheck">>)
          /\ \A k \in 1..Len(<<"resume", "recheck">>) :
               netCmd'[k] = Ask(<<"resume", "recheck">>[k], t)
      BY <3>1, <3>2, <3>3, PerformFacts
    <3>5. Len(netCmd') = 2 /\ netCmd'[2] = Ask("recheck", t)
      BY <3>3, <3>4
    <3>6. CommandWaits("recheck", t)'
      BY <3>5 DEF CommandWaits, Is, Ask
    <3> QED
      BY <3>6 DEF CheckComes
  <2> QED
    BY <2>2, <2>3
<1>11. CASE UNCHANGED vars /\ ~NetRun
  BY <1>1, <1>2, <1>11 DEF vars, libtorrent, Live
<1> QED
  BY <1>3, <1>4, <1>5, <1>6, <1>7, <1>8, <1>9, <1>10, <1>11 DEF Next, Heap

\* The flags of core.js in every reachable state.
LEMMA FlagsInvariant == Spec => []FlagInv
<1>1. Init => FlagInv
  BY DEF Init, FlagInv
<1> QED
  BY <1>1, FlagStep, GoalTypes, PTL DEF Spec

\* A torrent that was paused before its recheck is paused again or still to be, whatever
\* else is checked, asked for or looked at in the meantime; and no flag outlives the check
\* that it was set for.
THEOREM RechecksKeepPause == Spec => []RecheckKeepsPause
<1>1. GoalsInv /\ FlagInv => RecheckKeepsPause
  <2>1. ASSUME GoalsInv, NEW t \in rechecked, Live(t), ~Asked(t), ~CheckedWaits(t)
        PROVE  t \in paused \/ (t \in flagged /\ state[t] = "checking")
    BY <2>1 DEF GoalsInv, RecheckInv, Is, Asked
  <2>2. ASSUME FlagInv, NEW t \in flagged, Live(t), ~Asked(t), ~CheckedWaits(t)
        PROVE  state[t] = "checking"
    BY <2>2 DEF FlagInv, CheckComes, CommandWaits, Is, Asked
  <2> QED
    BY <2>1, <2>2 DEF RecheckKeepsPause
<1> QED
  BY <1>1, GoalsInvariant, FlagsInvariant, PTL

-----------------------------------------------------------------------------
(* No goal is lost, but to a handler that ends early *)

\* The loop would pause t on this copy.
Shows(t, copy) == copy.torrent = t /\ Reached(copy)

UpdateWaits(t) ==
  \E i \in 1..Len(ioQueue) :
    /\ ioQueue[i].kind = "update"
    /\ \E j \in 1..Len(ioQueue[i].status) : Shows(t, ioQueue[i].status[j])

InLoop(t) == \E j \in 1..Len(loop) : Shows(t, loop[j])

\* That t has reached its goal is known to libtorrent and will be in its next update, or is
\* on its way to the loop of the handler, or t is to be paused.
News(t) == t \in fresh \/ UpdateWaits(t) \/ InLoop(t) \/ CommandWaits("pause", t)

\* t seeds beyond its goal, and nothing that core.js has yet to read will tell it.
GoalMissed(t) == Due(t, "pause") /\ ~News(t)

\* The loop ends, at a copy of another torrent, before its list does.
CutShort(t) == loop # <<>> /\ loop' = <<>> /\ Head(loop).torrent # t

\* No two of the copies are of one torrent.
Distinct(copies) ==
  \A i, j \in 1..Len(copies) : copies[i].torrent = copies[j].torrent => i = j

CopiesInv ==
  /\ Distinct(loop)
  /\ \A i \in 1..Len(ioQueue) : ioQueue[i].kind = "update" => Distinct(ioQueue[i].status)

\* An update holds one copy of each torrent that has changed.
LEMMA UpdateCopies ==
  ASSUME TypeOK, NEW order \in SetToSeqs(fresh), NEW copies,
         copies = [i \in 1..Len(order) |-> Status(order[i])]
  PROVE  /\ Distinct(copies)
         /\ \A t \in fresh : \E i \in 1..Len(copies) : copies[i] = Status(t)
<1> DEFINE n == Cardinality(fresh)
<1>1. IsFiniteSet(fresh) /\ n \in Nat
  BY TorrentsAssumption, FS_Subset, FS_CardinalityType DEF TypeOK
<1>2. /\ order \in [1..n -> fresh]
      /\ \A i, j \in 1..n : i # j => order[i] # order[j]
  BY DEF SetToSeqs
<1>3. Len(order) = n
  BY <1>1, <1>2, FunctionSeq
<1>4. order \in Surjection(1..n, fresh)
  <2>1. order \in Injection(1..n, fresh)
    BY <1>2 DEF Injection, IsInjective
  <2>2. IsFiniteSet(1..n) /\ Cardinality(1..n) = n
    BY <1>1, FS_Interval
  <2> QED
    BY <1>1, <2>1, <2>2, FS_Injection
<1>5. Len(copies) = n /\ \A i \in 1..n : copies[i] = Status(order[i])
  <2>1. copies \in [1..n -> {Status(t) : t \in fresh}]
    BY <1>2, <1>3
  <2>2. Len(copies) = n
    BY <1>1, <2>1, FunctionSeq
  <2> QED
    BY <1>3, <2>2
<1>6. \A t : Status(t).torrent = t
  BY DEF Status
<1> HIDE DEF n
<1>7. Distinct(copies)
  BY <1>2, <1>5, <1>6 DEF Distinct
<1>8. ASSUME NEW t \in fresh PROVE \E i \in 1..Len(copies) : copies[i] = Status(t)
  <2>1. PICK i \in 1..n : order[i] = t
    BY <1>4 DEF Surjection
  <2> QED
    BY <1>5, <2>1
<1> QED
  BY <1>7, <1>8

\* What is left of a list after its head tells of no torrent that the head told of, and of
\* all others.
LEMMA DistinctTail ==
  ASSUME NEW S, NEW copies \in Seq(S), copies # <<>>, Distinct(copies)
  PROVE  /\ Distinct(Tail(copies))
         /\ \A i \in 1..Len(copies) :
              \/ copies[i] = Head(copies)
              \/ \E j \in 1..Len(Tail(copies)) : Tail(copies)[j] = copies[i]
         /\ \A i \in 1..Len(copies) : copies[i].torrent = Head(copies).torrent =>
              copies[i] = Head(copies)
<1>1. /\ Len(copies) \in Nat /\ Len(Tail(copies)) = Len(copies) - 1
      /\ Head(copies) = copies[1] /\ 1 \in 1..Len(copies)
      /\ \A i \in 1..Len(Tail(copies)) : i + 1 \in 1..Len(copies) /\ Tail(copies)[i] = copies[i + 1]
  BY HeadTailProperties, LenProperties, HeadElement, TailElement
<1>2. Distinct(Tail(copies))
  <2> SUFFICES ASSUME NEW i \in 1..Len(Tail(copies)), NEW j \in 1..Len(Tail(copies)),
                      Tail(copies)[i].torrent = Tail(copies)[j].torrent
               PROVE  i = j
    BY DEF Distinct
  <2>1. i + 1 = j + 1
    BY <1>1 DEF Distinct
  <2> QED
    BY <1>1, <2>1
<1>3. ASSUME NEW i \in 1..Len(copies), i # 1
      PROVE  \E j \in 1..Len(Tail(copies)) : Tail(copies)[j] = copies[i]
  <2>1. i - 1 \in 1..Len(Tail(copies)) /\ (i - 1) + 1 = i
    BY <1>1, <1>3
  <2> QED
    BY <1>1, <2>1
<1> QED
  BY <1>1, <1>2, <1>3 DEF Distinct

\* Every list of copies stays free of repetitions.
LEMMA CopiesStep == TypeOK /\ CopiesInv /\ [Next]_vars => CopiesInv'
<1> SUFFICES ASSUME TypeOK, CopiesInv, [Next]_vars PROVE CopiesInv'
  OBVIOUS
<1>1. ioQueue \in Seq(AnyAlert) /\ loop \in Seq(StatusCopy)
  BY DEF TypeOK
<1>2. ASSUME NEW a \in AnyAlert, ioQueue' = Append(ioQueue, a), UNCHANGED loop,
             a.kind = "update" => Distinct(a.status)
      PROVE  CopiesInv'
  <2>1. /\ Len(ioQueue) \in Nat /\ Len(ioQueue') = Len(ioQueue) + 1
        /\ \A i \in 1..Len(ioQueue) : ioQueue'[i] = ioQueue[i]
        /\ ioQueue'[Len(ioQueue) + 1] = a
    BY <1>1, <1>2, AppendProperties, LenProperties
  <2>2. \A i \in 1..Len(ioQueue') : i \in 1..Len(ioQueue) \/ i = Len(ioQueue) + 1
    BY <2>1
  <2>3. \A i \in 1..Len(ioQueue') :
          \/ i \in 1..Len(ioQueue) /\ ioQueue'[i] = ioQueue[i]
          \/ ioQueue'[i] = a
    BY <2>1, <2>2
  <2>4. \A i \in 1..Len(ioQueue') : ioQueue'[i].kind = "update" => Distinct(ioQueue'[i].status)
    BY <1>2, <2>3 DEF CopiesInv
  <2>5. Distinct(loop)'
    BY <1>2 DEF CopiesInv, Distinct
  <2> QED
    BY <2>4, <2>5 DEF CopiesInv, Distinct
<1>3. ASSUME ioQueue # <<>>, ioQueue' = Tail(ioQueue), Distinct(loop') PROVE CopiesInv'
  <2>1. \A i \in 1..Len(ioQueue') : i + 1 \in 1..Len(ioQueue) /\ ioQueue'[i] = ioQueue[i + 1]
    BY <1>1, <1>3, TailElement
  <2> QED
    BY <1>3, <2>1 DEF CopiesInv, Distinct
<1>4. CASE UNCHANGED <<ioQueue, loop>>
  BY <1>4 DEF CopiesInv, Distinct
<1>5. CASE NetUpdate
  <2>1. PICK order \in SetToSeqs(fresh) :
          ioQueue' = Append(ioQueue, [kind |-> "update",
                                      status |-> [i \in 1..Len(order) |-> Status(order[i])]])
    BY <1>5 DEF NetUpdate
  <2>2. [i \in 1..Len(order) |-> Status(order[i])] \in Seq(StatusCopy)
    BY StatusTyped
  <2>3. PICK copies \in Seq(StatusCopy) : copies = [i \in 1..Len(order) |-> Status(order[i])]
    BY <2>2
  <2>4. Distinct(copies)
    BY <2>3, UpdateCopies
  <2>5. [kind |-> "update", status |-> copies] \in AnyAlert
    BY DEF AnyAlert
  <2>6. UNCHANGED loop
    BY <1>5 DEF NetUpdate, Take, NetFrame
  <2> QED
    BY <1>2, <2>1, <2>3, <2>4, <2>5, <2>6
<1>6. ASSUME NEW u \in Torrents, CheckDone(u) PROVE CopiesInv'
  <2>1. [kind |-> "checked", torrent |-> u] \in AnyAlert
    BY DEF AnyAlert
  <2> QED
    BY <1>2, <1>6, <2>1 DEF CheckDone, Stir
<1>7. CASE HandleChecked
  BY <1>3, <1>7 DEF HandleChecked, Handle, CopiesInv, Distinct
<1>8. CASE HandleUpdate
  <2>1. /\ ioQueue # <<>> /\ ioQueue' = Tail(ioQueue) /\ Head(ioQueue).kind = "update"
        /\ loop' = Head(ioQueue).status
    BY <1>8 DEF HandleUpdate, Handle
  <2>2. Distinct(Head(ioQueue).status)
    BY <1>1, <2>1, HeadElement DEF CopiesInv
  <2> QED
    BY <1>3, <2>1, <2>2
<1>9. CASE LookDead \/ LookReturn \/ LookPause \/ LookRemove \/ LookOn
  <2>1. loop # <<>> /\ UNCHANGED ioQueue /\ loop' \in {Tail(loop), <<>>}
    BY <1>9 DEF LookDead, LookReturn, LookPause, LookRemove, LookOn, LookLive, Look
  <2>2. Distinct(Tail(loop)) /\ Distinct(<<>>)
    BY <1>1, <2>1, DistinctTail DEF CopiesInv, Distinct
  <2>3. Distinct(loop')
    BY <2>1, <2>2
  <2> QED
    BY <2>1, <2>3 DEF CopiesInv, Distinct
<1>10. CASE NetRun /\ ~NetUpdate
  BY <1>4, <1>10 DEF NetRun, NetPause, NetResume, NetManage, NetUnmanage, NetRecheck, NetRemove,
                     Call, Take, NetFrame
<1>11. CASE Tick
  BY <1>4, <1>11 DEF Tick
<1>12. ASSUME NEW u \in Torrents, User(u) \/ AutoManage(u) \/ Download(u) \/ Seed(u)
       PROVE  CopiesInv'
  BY <1>4, <1>12 DEF User, Start, ForceStart, Pause, RemoveTorrent, Recheck, SetManaged, Perform,
                     AutoManage, Download, Seed, Stir
<1>13. CASE UNCHANGED vars
  BY <1>4, <1>13 DEF vars
<1> QED
  BY <1>5, <1>6, <1>7, <1>8, <1>9, <1>10, <1>11, <1>12, <1>13 DEF Next, Heap

\* The copies in the queue and in the loop, in every reachable state.
LEMMA CopiesInvariant == Spec => []CopiesInv
<1>1. Init => CopiesInv
  BY DEF Init, CopiesInv, Distinct
<1> QED
  BY <1>1, CopiesStep, GoalTypes, PTL DEF Spec

\* A torrent that changes so that it is due, or is not any more, is in the next update.
LEMMA DueIsFresh ==
  ASSUME TypeOK, [Next]_vars, NEW t \in Torrents, Due(t, "pause")', t \notin fresh'
  PROVE  Due(t, "pause")
<1>1. ASSUME UNCHANGED <<state, paused, met, action>> PROVE Due(t, "pause")
  BY <1>1 DEF Due
<1>2. CASE NetRun
  <2>1. UNCHANGED <<met, action>>
    BY <1>2 DEF NetRun, NetUpdate, NetPause, NetResume, NetManage, NetUnmanage, NetRecheck,
                NetRemove, Call, Take, NetFrame
  <2>2. CASE NetUpdate
    BY <1>1, <2>1, <2>2 DEF NetUpdate
  <2>3. CASE NetPause \/ NetResume \/ NetManage \/ NetUnmanage \/ NetRecheck
    <3>1. t \notin Target
      BY <2>3 DEF NetPause, NetResume, NetManage, NetUnmanage, NetRecheck, Call
    <3>2. state'[t] = state[t] /\ (t \in paused' <=> t \in paused)
      BY <2>3, <3>1 DEF NetPause, NetResume, NetManage, NetUnmanage, NetRecheck, Become
    <3> QED
      BY <2>1, <3>2 DEF Due
  <2>4. CASE NetRemove
    BY <2>1, <2>4 DEF NetRemove, Become, Due
  <2> QED
    BY <1>2, <2>2, <2>3, <2>4 DEF NetRun
<1>3. CASE Heap
  BY <1>1, <1>3 DEF Heap, HandleChecked, HandleUpdate, Handle, LookDead, LookReturn, LookPause,
                    LookRemove, LookOn, LookLive, Look, libtorrent
<1>4. CASE Tick
  BY <1>1, <1>4 DEF Tick, libtorrent
<1>5. ASSUME NEW u \in Torrents, User(u) PROVE Due(t, "pause")
  BY <1>1, <1>5 DEF User, Start, ForceStart, Pause, RemoveTorrent, Recheck, SetManaged, Perform,
                    libtorrent
<1>6. ASSUME NEW u \in Torrents, AutoManage(u) \/ CheckDone(u) \/ Download(u) \/ Seed(u)
      PROVE  Due(t, "pause")
  <2>1. u # t /\ UNCHANGED action
    BY <1>6 DEF AutoManage, CheckDone, Download, Seed, Stir
  <2>2. CASE AutoManage(u)
    BY <2>1, <2>2 DEF AutoManage, Due
  <2>3. CASE CheckDone(u) \/ Download(u)
    <3>1. /\ UNCHANGED <<paused, met>>
          /\ \E s \in {"downloading", "finished"} : state' = [state EXCEPT ![u] = s]
      BY <2>3 DEF CheckDone, Download
    <3>2. state'[t] = state[t]
      BY <2>1, <3>1 DEF TypeOK
    <3> QED
      BY <2>1, <3>1, <3>2 DEF Due
  <2>4. CASE Seed(u)
    BY <2>1, <2>4 DEF Seed, Due
  <2> QED
    BY <1>6, <2>2, <2>3, <2>4
<1>7. CASE UNCHANGED vars
  BY <1>1, <1>7 DEF vars, libtorrent
<1> QED
  BY <1>2, <1>3, <1>4, <1>5, <1>6, <1>7 DEF Next

\* An update that waits still does when alerts are added.
LEMMA UpdateAppend ==
  ASSUME TypeOK, NEW a \in AnyAlert, ioQueue' = Append(ioQueue, a), NEW t, UpdateWaits(t)
  PROVE  UpdateWaits(t)'
<1>1. ioQueue \in Seq(AnyAlert)
  BY DEF TypeOK
<1>2. \A i \in 1..Len(ioQueue) : i \in 1..Len(ioQueue') /\ ioQueue'[i] = ioQueue[i]
  BY <1>1, AppendProperties, LenProperties
<1> QED
  BY <1>2 DEF UpdateWaits, Shows, Reached

\* When the first alert is taken it was that one, or still waits.
LEMMA UpdateTail ==
  ASSUME TypeOK, ioQueue # <<>>, ioQueue' = Tail(ioQueue), NEW t, UpdateWaits(t)
  PROVE  \/ UpdateWaits(t)'
         \/ /\ Head(ioQueue).kind = "update"
            /\ \E j \in 1..Len(Head(ioQueue).status) : Shows(t, Head(ioQueue).status[j])
<1>1. /\ Len(ioQueue) \in Nat /\ Len(ioQueue') = Len(ioQueue) - 1 /\ Head(ioQueue) = ioQueue[1]
      /\ \A i \in 1..Len(ioQueue') : ioQueue'[i] = ioQueue[i + 1]
  BY HeadTailProperties, LenProperties, HeadElement, TailElement DEF TypeOK
<1>2. PICK i \in 1..Len(ioQueue) :
        /\ ioQueue[i].kind = "update"
        /\ \E j \in 1..Len(ioQueue[i].status) : Shows(t, ioQueue[i].status[j])
  BY DEF UpdateWaits
<1>3. CASE i = 1
  BY <1>1, <1>2, <1>3
<1>4. CASE i # 1
  <2>1. i - 1 \in 1..Len(ioQueue') /\ (i - 1) + 1 = i
    BY <1>1, <1>4
  <2>2. ioQueue'[i - 1] = ioQueue[i]
    BY <1>1, <2>1
  <2> QED
    BY <1>2, <2>1, <2>2 DEF UpdateWaits, Shows, Reached
<1> QED
  BY <1>3, <1>4

\* The network thread passes the news on.
LEMMA NetNews ==
  ASSUME TypeOK, NetRun, NEW t \in Torrents, Due(t, "pause"), Due(t, "pause")', News(t)
  PROVE  News(t)'
<1>1. Live(t) /\ Live(t)'
  BY DEF Due, Live
<1>2. /\ UNCHANGED loop /\ netCmd # <<>>
      /\ netCmd[1].op = "pause" /\ netCmd[1].torrent = t => t \in Target
  <2>1. \E op : Take(op)
    BY DEF NetRun, NetUpdate, NetPause, NetResume, NetManage, NetUnmanage, NetRecheck, NetRemove,
           Call
  <2>2. netCmd # <<>> /\ Head(netCmd) = netCmd[1]
    BY <2>1, TakeFacts
  <2>3. UNCHANGED loop
    BY <2>1 DEF Take, NetFrame
  <2> QED
    BY <1>1, <2>2, <2>3 DEF Target, Live
<1>3. InLoop(t) => InLoop(t)'
  BY <1>2 DEF InLoop, Shows, Reached
<1>4. UNCHANGED ioQueue => (UpdateWaits(t) => UpdateWaits(t)')
  BY DEF UpdateWaits, Shows, Reached
<1>5. CASE NetUpdate
  <2>1. PICK order \in SetToSeqs(fresh) :
          ioQueue' = Append(ioQueue, [kind |-> "update",
                                      status |-> [i \in 1..Len(order) |-> Status(order[i])]])
    BY <1>5 DEF NetUpdate
  <2>2. [i \in 1..Len(order) |-> Status(order[i])] \in Seq(StatusCopy)
    BY StatusTyped
  <2>3. PICK copies \in Seq(StatusCopy) : copies = [i \in 1..Len(order) |-> Status(order[i])]
    BY <2>2
  <2>4. PICK a \in AnyAlert : a.kind = "update" /\ a.status = copies /\ ioQueue' = Append(ioQueue, a)
    BY <2>1, <2>3 DEF AnyAlert
  <2>5. UpdateWaits(t) => UpdateWaits(t)'
    BY <2>4, UpdateAppend
  <2>6. CommandWaits("pause", t) => CommandWaits("pause", t)'
    BY <1>5, CommandTaken DEF NetUpdate
  <2>7. ASSUME t \in fresh PROVE UpdateWaits(t)'
    <3>1. PICK j \in 1..Len(copies) : copies[j] = Status(t)
      BY <2>3, <2>7, UpdateCopies
    <3>2. Shows(t, copies[j])
      <4>1. /\ Status(t).torrent = t /\ Status(t).isFinished = (state[t] = "finished")
            /\ Status(t).isPaused = (t \in paused) /\ Status(t).met = (t \in met)
        BY DEF Status
      <4>2. state[t] = "finished" /\ t \notin paused /\ t \in met
        BY DEF Due
      <4> QED
        BY <3>1, <4>1, <4>2 DEF Shows, Reached
    <3>3. Len(ioQueue) + 1 \in 1..Len(ioQueue') /\ ioQueue'[Len(ioQueue) + 1] = a
      BY <2>4, AppendProperties, LenProperties DEF TypeOK
    <3> QED
      BY <2>4, <3>2, <3>3 DEF UpdateWaits, Shows, Reached
  <2> QED
    BY <1>3, <2>5, <2>6, <2>7 DEF News
<1>6. CASE NetPause
  <2>1. Take("pause") /\ fresh' = fresh \cup Target /\ UNCHANGED ioQueue
    BY <1>6 DEF NetPause, Call
  <2>2. CommandWaits("pause", t) => CommandWaits("pause", t)' \/ netCmd[1].torrent = t
    BY <2>1, CommandTaken
  <2>3. netCmd[1].op = "pause"
    BY <2>1, TakeFacts
  <2> QED
    BY <1>2, <1>3, <1>4, <2>1, <2>2, <2>3 DEF News
<1>7. ASSUME NEW op, Take(op), op # "pause", fresh \subseteq fresh', UNCHANGED ioQueue
      PROVE  News(t)'
  <2>1. CommandWaits("pause", t) => CommandWaits("pause", t)'
    BY <1>7, CommandTaken
  <2> QED
    BY <1>3, <1>4, <1>7, <2>1 DEF News
<1>8. CASE NetResume \/ NetManage \/ NetUnmanage \/ NetRecheck
  BY <1>7, <1>8 DEF NetResume, NetManage, NetUnmanage, NetRecheck, Call
<1>9. CASE NetRemove
  <2>1. Take("remove") /\ fresh' = fresh \ Target /\ UNCHANGED ioQueue /\ t \notin Target
    BY <1>1, <1>9 DEF NetRemove, Become, Live
  <2>2. CommandWaits("pause", t) => CommandWaits("pause", t)'
    BY <2>1, CommandTaken
  <2> QED
    BY <1>3, <1>4, <2>1, <2>2 DEF News
<1> QED
  BY <1>5, <1>6, <1>8, <1>9 DEF NetRun

\* The loop pauses the torrent, or goes on to its copy, or ends before it.
LEMMA LookNews ==
  ASSUME TypeOK, CopiesInv, NEW t \in Torrents, Due(t, "pause"), InLoop(t),
         LookDead \/ LookReturn \/ LookPause \/ LookRemove \/ LookOn
  PROVE  InLoop(t)' \/ CommandWaits("pause", t)' \/ CutShort(t)
<1>1. loop \in Seq(StatusCopy) /\ loop # <<>> /\ loop' \in {Tail(loop), <<>>}
  BY DEF TypeOK, LookDead, LookReturn, LookPause, LookRemove, LookOn, LookLive, Look
<1>2. PICK i \in 1..Len(loop) : Shows(t, loop[i])
  BY DEF InLoop
<1>3. CASE Head(loop).torrent = t
  <2>1. Shows(t, Head(loop))
    BY <1>1, <1>2, <1>3, DistinctTail DEF CopiesInv, Shows
  <2>2. LookPause
    BY <1>3, <2>1 DEF Shows, Reached, Due, LookDead, LookReturn, LookRemove, LookOn
  <2>3. netCmd' = netCmd \o GoalCommands(t) /\ GoalCommands(t) \in Seq(AnyCommand)
    BY <1>3, <2>2, GoalCommandsTyped DEF LookPause
  <2>4. Len(GoalCommands(t)) = 2 /\ GoalCommands(t)[2] = Ask("pause", t)
    BY DEF GoalCommands
  <2>5. \A k \in 1..Len(GoalCommands(t)) :
          /\ Len(netCmd) + k \in 1..Len(netCmd')
          /\ netCmd'[Len(netCmd) + k] = GoalCommands(t)[k]
    BY <2>3, AppendFacts
  <2>6. 2 \in 1..Len(GoalCommands(t))
    BY <2>4
  <2>7. \E k \in 1..Len(netCmd') : netCmd'[k] = Ask("pause", t)
    BY <2>4, <2>5, <2>6
  <2> QED
    BY <2>7 DEF CommandWaits, Is, Ask
<1>4. CASE Head(loop).torrent # t /\ loop' = Tail(loop)
  <2>1. loop[i] # Head(loop)
    BY <1>2, <1>4 DEF Shows
  <2>2. PICK j \in 1..Len(Tail(loop)) : Tail(loop)[j] = loop[i]
    BY <1>1, <2>1, DistinctTail DEF CopiesInv
  <2> QED
    BY <1>2, <1>4, <2>2 DEF InLoop, Shows, Reached
<1>5. CASE Head(loop).torrent # t /\ loop' = <<>>
  BY <1>1, <1>5 DEF CutShort
<1> QED
  BY <1>1, <1>3, <1>4, <1>5

\* A step loses the news of a goal only if it ends the loop early.
LEMMA NewsStep ==
  ASSUME TypeOK, CopiesInv, [Next]_vars, NEW t \in Torrents,
         Due(t, "pause"), Due(t, "pause")', News(t)
  PROVE  News(t)' \/ CutShort(t)
<1>1. UNCHANGED loop => (InLoop(t) => InLoop(t)')
  BY DEF InLoop, Shows, Reached
<1>2. UNCHANGED ioQueue => (UpdateWaits(t) => UpdateWaits(t)')
  BY DEF UpdateWaits, Shows, Reached
<1>3. CASE NetRun
  BY <1>3, NetNews
<1>4. ~NetRun => (CommandWaits("pause", t) => CommandWaits("pause", t)')
  BY CommandsStay
<1>5. CASE HandleUpdate /\ ~NetRun
  <2>1. /\ loop = <<>> /\ loop' = Head(ioQueue).status /\ fresh' = fresh
        /\ ioQueue # <<>> /\ ioQueue' = Tail(ioQueue)
    BY <1>5 DEF HandleUpdate, Handle, libtorrent
  <2>2. ~InLoop(t)
    BY <2>1 DEF InLoop
  <2>3. UpdateWaits(t) => UpdateWaits(t)' \/ InLoop(t)'
    BY <2>1, UpdateTail DEF InLoop, Shows, Reached
  <2> QED
    BY <1>4, <1>5, <2>1, <2>2, <2>3 DEF News
<1>6. CASE HandleChecked /\ ~NetRun
  <2>1. /\ UNCHANGED <<loop, fresh>> /\ Head(ioQueue).kind = "checked"
        /\ ioQueue # <<>> /\ ioQueue' = Tail(ioQueue)
    BY <1>6 DEF HandleChecked, Handle, libtorrent
  <2>2. UpdateWaits(t) => UpdateWaits(t)'
    BY <2>1, UpdateTail
  <2> QED
    BY <1>1, <1>4, <1>6, <2>1, <2>2 DEF News
<1>7. CASE (LookDead \/ LookReturn \/ LookPause \/ LookRemove \/ LookOn) /\ ~NetRun
  <2>1. UNCHANGED <<fresh, ioQueue>>
    BY <1>7 DEF LookDead, LookReturn, LookPause, LookRemove, LookOn, LookLive, Look, libtorrent
  <2> QED
    BY <1>2, <1>4, <1>7, <2>1, LookNews DEF News
<1>8. CASE Tick /\ ~NetRun
  BY <1>1, <1>2, <1>4, <1>8 DEF Tick, libtorrent, News
<1>9. ASSUME NEW u \in Torrents, User(u), ~NetRun PROVE News(t)'
  <2>1. UNCHANGED <<fresh, ioQueue, loop>>
    BY <1>9 DEF User, Start, ForceStart, Pause, RemoveTorrent, Recheck, SetManaged, Perform,
                libtorrent
  <2> QED
    BY <1>1, <1>2, <1>4, <1>9, <2>1 DEF News
<1>10. ASSUME NEW u \in Torrents, AutoManage(u) \/ CheckDone(u) \/ Download(u) \/ Seed(u), ~NetRun
       PROVE  News(t)'
  <2>1. fresh \subseteq fresh' /\ UNCHANGED loop
    BY <1>10 DEF AutoManage, CheckDone, Download, Seed, Stir
  <2>2. UNCHANGED ioQueue \/ ioQueue' = Append(ioQueue, [kind |-> "checked", torrent |-> u])
    BY <1>10 DEF AutoManage, CheckDone, Download, Seed
  <2>3. [kind |-> "checked", torrent |-> u] \in AnyAlert
    BY DEF AnyAlert
  <2>4. UpdateWaits(t) => UpdateWaits(t)'
    BY <1>2, <2>2, <2>3, UpdateAppend
  <2> QED
    BY <1>1, <1>4, <1>10, <2>1, <2>4 DEF News
<1>11. CASE UNCHANGED vars /\ ~NetRun
  BY <1>1, <1>2, <1>4, <1>11 DEF vars, libtorrent, News
<1> QED
  BY <1>3, <1>5, <1>6, <1>7, <1>8, <1>9, <1>10, <1>11 DEF Next, Heap

\* The one way in which a torrent that seeds beyond its goal is forgotten: a handler of
\* torrent.stateUpdate that ends, by its return (core.js:143) or an exception, at another
\* torrent's status.  No interleaving of libtorrent, the timer, the user and the handlers
\* loses the news otherwise.
THEOREM MissedByOthersOnly ==
  Spec => [][\A t \in Torrents : GoalMissed(t)' => GoalMissed(t) \/ CutShort(t)]_vars
<1>1. TypeOK /\ CopiesInv /\ [Next]_vars
        => [\A t \in Torrents : GoalMissed(t)' => GoalMissed(t) \/ CutShort(t)]_vars
  <2> SUFFICES ASSUME TypeOK, CopiesInv, [Next]_vars, NEW t \in Torrents, GoalMissed(t)'
               PROVE  GoalMissed(t) \/ CutShort(t)
    OBVIOUS
  <2>1. Due(t, "pause")' /\ ~News(t)'
    BY DEF GoalMissed
  <2>2. Due(t, "pause")
    BY <2>1, DueIsFresh DEF News
  <2> QED
    BY <2>1, <2>2, NewsStep DEF GoalMissed
<1> QED
  BY <1>1, GoalTypes, CopiesInvariant, PTL DEF Spec

\* A torrent that is alone in the session is never forgotten: this is what GoalPauses needs
\* of the code, beside fairness.
THEOREM GoalOfOneNotMissed ==
  Spec => []((\A t, u \in Torrents : t = u) => \A t \in Torrents : ~GoalMissed(t))
<1> DEFINE Inv == (\A t, u \in Torrents : t = u) => \A t \in Torrents : ~GoalMissed(t)
<1>1. Init => Inv
  BY DEF Init, GoalMissed, News
<1>2. TypeOK /\ CopiesInv /\ Inv /\ [Next]_vars => Inv'
  <2> SUFFICES ASSUME TypeOK, CopiesInv, Inv, [Next]_vars,
                      \A t, u \in Torrents : t = u, NEW t \in Torrents, GoalMissed(t)'
               PROVE  FALSE
    OBVIOUS
  <2>1. Due(t, "pause")' /\ ~News(t)' /\ ~GoalMissed(t)
    BY DEF GoalMissed
  <2>2. Due(t, "pause")
    BY <2>1, DueIsFresh DEF News
  <2>3. CutShort(t)
    BY <2>1, <2>2, NewsStep DEF GoalMissed
  <2>4. Head(loop).torrent \in Torrents
    <3>1. Head(loop) \in StatusCopy
      BY <2>3, HeadTailProperties DEF CutShort, TypeOK
    <3> QED
      BY <3>1 DEF StatusCopy
  <2> QED
    BY <2>3, <2>4 DEF CutShort
<1> QED
  BY <1>1, <1>2, GoalTypes, CopiesInvariant, PTL DEF Spec
=============================================================================
