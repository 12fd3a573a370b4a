------------------------- MODULE ScriptHost_proofs -------------------------
(***************************************************************************)
(* The safety properties of ScriptHost hold for every number of events,    *)
(* torrents and requests.                                                  *)
(***************************************************************************)
EXTENDS ScriptHost, SequenceTheorems, FiniteSetTheorems, TLAPS

-----------------------------------------------------------------------------
(* Types *)

\* The pool has one task for each request that is waiting for the heap, and the
\* worker is on the first of them.
PoolInv ==
  /\ \A i \in 1..Len(pool) : requests[pool[i]] \in {"auth", "rpc"}
  /\ \A i, j \in 1..Len(pool) : pool[i] = pool[j] => i = j
  /\ worker # "idle" => pool # <<>>

\* The alert that main emits is still in the queue.
QueueInv == pc \in {"emitLock", "emit"} => ioQueue # <<>>

TypeInv == TypeOK /\ PoolInv /\ QueueInv

Calls == {"dispatch", "clear", "save"}

\* The start and the stop of main, whose only sequence is netCmd.
LEMMA TypeMain == TypeOK /\ QueueInv /\ (MainStep \/ UnloadThrows) => TypeOK'
<1> SUFFICES ASSUME TypeOK, QueueInv, MainStep \/ UnloadThrows PROVE TypeOK'
  OBVIOUS
<1> USE DEF TypeOK, MainPlaces, Goto, mainVars, tickerVars, httpVars, jsVars, ltVars,
            alertVars, Lock, Unlock, Threads
<1>1. CASE ReadConfig \/ LoadLock \/ Listen
  BY <1>1 DEF ReadConfig, LoadLock, Listen
<1>2. CASE StartSession
  BY <1>2 DEF StartSession
<1>3. CASE Load
  <2>1. hdkn' \in BOOLEAN /\ isRunning' \in BOOLEAN
    BY <1>3 DEF Load
  <2>2. ticker' \in {"none", "test", "lock", "emit", "done"}
    BY <1>3 DEF Load
  <2>3. pc' \in MainPlaces /\ owner' \in Threads \cup {"nobody"}
    BY <1>3 DEF Load
  <2> QED
    BY <1>3, <2>1, <2>2, <2>3 DEF Load
<1>4. CASE RunAlertHandler \/ EmitLock \/ StopIo
  BY <1>4 DEF RunAlertHandler, EmitLock, StopIo
<1>5. CASE Emit
  <2>1. ioQueue # <<>>
    BY <1>5 DEF Emit, QueueInv
  <2> QED
    BY <1>5, <2>1 DEF Emit
<1>6. CASE Stop
  BY <1>6 DEF Stop
<1>7. CASE Unload \/ Join \/ UnloadLock \/ NothingToUnload
  BY <1>7 DEF Unload, Join, UnloadLock, NothingToUnload
<1>8. CASE AskForResumeData
  <2>1. PICK dirty \in 0..MaxTorrents :
          pending' = dirty /\ netCmd' = netCmd \o [i \in 1..dirty |-> "save"]
    BY <1>8 DEF AskForResumeData
  <2>2. [i \in 1..dirty |-> "save"] \in Seq(Calls)
    BY IsASeq, BoundsAssumption DEF Calls
  <2>3. netCmd' \in Seq(Calls)
    BY <2>1, <2>2, ConcatProperties DEF Calls
  <2> QED
    BY <1>8, <2>1, <2>3, BoundsAssumption DEF AskForResumeData, Calls
<1>9. CASE ReadAlerts
  BY <1>9 DEF ReadAlerts
<1>10. CASE FinishUnload \/ UnloadThrows \/ Exit
  BY <1>10 DEF FinishUnload, UnloadThrows, Exit
<1> QED
  BY <1>1, <1>2, <1>3, <1>4, <1>5, <1>6, <1>7, <1>8, <1>9, <1>10 DEF MainStep

\* The ticker, the thread of the HTTP server, and the io_service reading requests.
LEMMA TypeOthers == TypeOK /\ PoolInv /\ (TickerStep \/ HttpStep \/ IoStep) => TypeOK'
<1> SUFFICES ASSUME TypeOK, PoolInv, TickerStep \/ HttpStep \/ IoStep PROVE TypeOK'
  OBVIOUS
<1> USE DEF TypeOK, mainVars, tickerVars, httpVars, jsVars, ltVars, alertVars, Lock, Unlock,
            Threads
<1>1. CASE TickerStep
  BY <1>1 DEF TickerStep, Tick, TickGoOn, TickStop, TickLock, TickEmit
<1>2. CASE WorkerLock
  <2>1. worker' \in {"auth", "rpc"}
    BY <1>2 DEF WorkerLock, PoolInv
  <2> QED
    BY <1>2, <2>1 DEF WorkerLock
<1>3. CASE WorkerUnlock
  <2>1. pool # <<>>
    BY <1>3 DEF WorkerUnlock, PoolInv
  <2>2. Head(pool) \in Requests /\ Tail(pool) \in Seq(Requests)
    BY <2>1
  <2>3. pool' \in Seq(Requests)
    <3>1. Append(Tail(pool), Head(pool)) \in Seq(Requests)
      BY <2>2, AppendProperties
    <3>2. pool' = Tail(pool) \/ pool' = Append(Tail(pool), Head(pool))
      BY <1>3 DEF WorkerUnlock
    <3> QED
      BY <2>2, <3>1, <3>2
  <2>4. requests' \in [Requests -> {"unsent", "auth", "reading", "rpc", "done"}]
    BY <1>3, <2>2 DEF WorkerUnlock
  <2> QED
    BY <1>3, <2>3, <2>4 DEF WorkerUnlock
<1>4. ASSUME NEW r \in Requests, Receive(r) \/ ReceiveBody(r) PROVE TypeOK'
  <2>0. pool' = Append(pool, r)
    BY <1>4 DEF Receive, ReceiveBody
  <2>1. pool' \in Seq(Requests)
    BY <2>0, AppendProperties
  <2>2. requests' \in [Requests -> {"unsent", "auth", "reading", "rpc", "done"}]
    BY <1>4 DEF Receive, ReceiveBody
  <2> QED
    BY <1>4, <2>1, <2>2 DEF Receive, ReceiveBody
<1> QED
  BY <1>1, <1>2, <1>3, <1>4 DEF HttpStep, IoStep

\* The network thread, whose alerts go to one of two queues, and a signal.
LEMMA TypeNet == TypeOK /\ (NetStep \/ NetEvent \/ Signal) => TypeOK'
<1> SUFFICES ASSUME TypeOK, NetStep \/ NetEvent \/ Signal PROVE TypeOK'
  OBVIOUS
<1> USE DEF TypeOK, mainVars, tickerVars, httpVars, jsVars, ltVars, alertVars, LtFrame
<1>1. CASE NetDispatch
  <2>1. ioQueue' \in Seq(Alert) /\ dispatched' \in Seq(Alert) /\ ltQueue' \in Seq(Alert)
    BY <1>1 DEF NetDispatch
  <2>2. netCmd' \in Seq({"dispatch", "clear", "save"})
    BY <1>1 DEF NetDispatch, NetCall
  <2> QED
    BY <1>1, <2>1, <2>2 DEF NetDispatch
<1>2. CASE NetClear
  <2>1. netCmd' \in Seq({"dispatch", "clear", "save"})
    BY <1>2 DEF NetClear, NetCall
  <2>2. dispatching' \in BOOLEAN
    BY <1>2 DEF NetClear
  <2> QED
    BY <1>2, <2>1, <2>2 DEF NetClear
<1>3. ASSUME NEW a \in Alert, Post(a)
      PROVE  ioQueue' \in Seq(Alert) /\ dispatched' \in Seq(Alert) /\ ltQueue' \in Seq(Alert)
  <2>1. CASE dispatching
    <3>1. ioQueue' = Append(ioQueue, a) /\ dispatched' = Append(dispatched, a) /\ ltQueue' = ltQueue
      BY <1>3, <2>1 DEF Post
    <3> QED
      BY <3>1, AppendProperties
  <2>2. CASE ~dispatching
    <3>1. ltQueue' = Append(ltQueue, a) /\ ioQueue' = ioQueue /\ dispatched' = dispatched
      BY <1>3, <2>2 DEF Post
    <3> QED
      BY <3>1, AppendProperties
  <2> QED
    BY <2>1, <2>2
<1>4. CASE NetSave
  <2>1. Saved \in Alert
    BY DEF Alert, Saved
  <2>2. netCmd' \in Seq({"dispatch", "clear", "save"})
    BY <1>4 DEF NetSave, NetCall
  <2> QED
    BY <1>3, <1>4, <2>1, <2>2 DEF NetSave
<1>5. CASE NetEvent
  <2>1. [kind |-> "event", id |-> posted] \in Alert
    BY DEF Alert
  <2> QED
    BY <1>3, <1>5, <2>1 DEF NetEvent
<1>6. CASE Signal
  <2>1. pc' \in MainPlaces /\ signalled' \in BOOLEAN
    BY <1>6 DEF Signal, Waiting, MainPlaces
  <2> QED
    BY <1>6, <2>1 DEF Signal
<1> QED
  BY <1>1, <1>2, <1>4, <1>5, <1>6 DEF NetStep

\* The pool's part of the invariant.
LEMMA PoolStep == TypeOK /\ PoolInv /\ [Next]_vars => PoolInv'
<1> SUFFICES ASSUME TypeOK, PoolInv, [Next]_vars PROVE PoolInv'
  OBVIOUS
<1>1. CASE UNCHANGED httpVars
  BY <1>1 DEF httpVars, PoolInv
<1>2. CASE WorkerLock
  BY <1>2 DEF WorkerLock, PoolInv
<1>3. CASE WorkerUnlock
  <2>1. pool # <<>> /\ Head(pool) = pool[1] /\ Len(pool) > 0 /\ worker' = "idle"
    BY <1>3 DEF WorkerUnlock, PoolInv, TypeOK
  <2>2. Len(Tail(pool)) = Len(pool) - 1 /\ \A i \in 1..Len(Tail(pool)) : Tail(pool)[i] = pool[i + 1]
    BY <2>1, HeadTailProperties DEF TypeOK
  <2>3. \A i \in 1..Len(Tail(pool)) : Tail(pool)[i] # Head(pool) /\ Tail(pool)[i] \in Requests
    BY <2>1, <2>2 DEF PoolInv, TypeOK
  <2>4. CASE pool' = Tail(pool) /\ \E s : requests' = [requests EXCEPT ![Head(pool)] = s]
    BY <2>1, <2>2, <2>3, <2>4 DEF PoolInv, TypeOK
  <2>5. CASE /\ requests' = [requests EXCEPT ![Head(pool)] = "rpc"]
             /\ pool' = Append(Tail(pool), Head(pool))
    <3>1. Tail(pool) \in Seq(Requests) /\ Head(pool) \in Requests
      BY <2>1 DEF TypeOK
    <3>2. /\ Len(pool') = Len(pool)
          /\ \A i \in 1..(Len(pool) - 1) : pool'[i] = pool[i + 1]
          /\ pool'[Len(pool)] = Head(pool)
      BY <2>2, <2>5, <3>1, AppendProperties
    <3>3. \A i \in 1..Len(pool') : requests'[pool'[i]] \in {"auth", "rpc"}
      <4> TAKE i \in 1..Len(pool')
      <4>1. CASE i = Len(pool)
        BY <2>5, <3>1, <3>2, <4>1 DEF TypeOK
      <4>2. CASE i # Len(pool)
        <5>1. i \in 1..(Len(pool) - 1) /\ i + 1 \in 1..Len(pool)
          BY <2>1, <3>2, <4>2 DEF TypeOK
        <5>2. /\ pool'[i] = pool[i + 1] /\ pool[i + 1] \in Requests
              /\ pool[i + 1] # Head(pool) /\ requests[pool[i + 1]] \in {"auth", "rpc"}
          BY <2>1, <3>2, <5>1 DEF PoolInv, TypeOK
        <5> QED
          BY <2>5, <3>1, <5>2 DEF TypeOK
      <4> QED
        BY <4>1, <4>2
    <3>4. \A i, j \in 1..Len(pool') : pool'[i] = pool'[j] => i = j
      <4>1. Len(pool) \in Nat
        BY DEF TypeOK
      <4>2. \A i \in 1..(Len(pool) - 1) : pool'[i] # pool'[Len(pool)]
        BY <2>1, <3>2, <4>1 DEF PoolInv
      <4>3. \A i, j \in 1..(Len(pool) - 1) : pool'[i] = pool'[j] => i = j
        BY <3>2, <4>1 DEF PoolInv
      <4> QED
        BY <3>2, <4>1, <4>2, <4>3
    <3> QED
      BY <2>1, <3>3, <3>4 DEF PoolInv
  <2> QED
    BY <1>3, <2>4, <2>5 DEF WorkerUnlock
<1>4. ASSUME NEW r \in Requests, Receive(r) \/ ReceiveBody(r) PROVE PoolInv'
  <2>1. \A i \in 1..Len(pool) : pool[i] # r
    BY <1>4 DEF Receive, ReceiveBody, PoolInv
  <2>2. /\ pool' = Append(pool, r)
        /\ \E s \in {"auth", "rpc"} : requests' = [requests EXCEPT ![r] = s]
        /\ worker' = worker
    BY <1>4 DEF Receive, ReceiveBody
  <2>3. /\ Len(pool') = Len(pool) + 1 /\ pool' # <<>>
        /\ \A i \in 1..Len(pool) : pool'[i] = pool[i] /\ pool[i] \in Requests
        /\ pool'[Len(pool) + 1] = r
    BY SMTT(20), <2>2, AppendProperties DEF TypeOK
  <2>4. \A i \in 1..Len(pool') : requests'[pool'[i]] \in {"auth", "rpc"}
    BY <2>1, <2>2, <2>3 DEF PoolInv, TypeOK
  <2>5. \A i, j \in 1..Len(pool') : pool'[i] = pool'[j] => i = j
    <3>1. Len(pool) \in Nat
      BY DEF TypeOK
    <3> QED
      BY <2>1, <2>3, <3>1 DEF PoolInv
  <2> QED
    BY <2>3, <2>4, <2>5 DEF PoolInv
<1>5. MainStep \/ UnloadThrows \/ Signal => UNCHANGED httpVars
  BY DEF MainStep, ReadConfig, StartSession, LoadLock, Load, Listen, RunAlertHandler, EmitLock,
     Emit, StopIo, Stop, Unload, Join, UnloadLock, NothingToUnload, AskForResumeData, ReadAlerts,
     FinishUnload, UnloadThrows, Exit, Signal
<1>6. TickerStep \/ NetStep \/ NetEvent \/ Ended \/ UNCHANGED vars => UNCHANGED httpVars
  BY DEF TickerStep, Tick, TickGoOn, TickStop, TickLock, TickEmit, NetStep, NetDispatch,
     NetClear, NetSave, NetEvent, LtFrame, Ended, vars
<1> QED
  BY <1>1, <1>2, <1>3, <1>4, <1>5, <1>6 DEF Next, HttpStep, IoStep

-----------------------------------------------------------------------------
(* The mutex *)

\* What a thread's place says of ctx_mutex_: whoever is inside the heap
\* holds it.
HolderInv == \A t \in Threads : InJs(t) => owner = t

\* Every step keeps HolderInv, because each entry into the heap locks and each way
\* out unlocks.
LEMMA HolderStep == TypeInv /\ HolderInv /\ [Next]_vars => HolderInv'
<1> SUFFICES ASSUME TypeInv, HolderInv, [Next]_vars PROVE HolderInv'
  OBVIOUS
<1> USE DEF HolderInv, Threads, InJs, Lock, Unlock, Goto, mainVars, tickerVars, httpVars, jsVars
<1>1. CASE MainStep
  BY <1>1 DEF MainStep, ReadConfig, StartSession, LoadLock, Load, Listen, RunAlertHandler,
     EmitLock, Emit, StopIo, Stop, Unload, Join, UnloadLock, NothingToUnload,
     AskForResumeData, ReadAlerts, FinishUnload, Exit
<1>2. CASE UnloadThrows
  BY <1>2 DEF UnloadThrows
<1>3. CASE TickerStep
  BY <1>3 DEF TickerStep, Tick, TickGoOn, TickStop, TickLock, TickEmit
<1>4. CASE HttpStep
  <2>1. CASE WorkerLock
    <3>1. Head(pool) \in Requests
      BY <2>1 DEF WorkerLock, TypeInv, TypeOK
    <3>2. worker' # "idle"
      BY <2>1, <3>1 DEF WorkerLock, TypeInv, TypeOK
    <3> QED
      BY <2>1, <3>2 DEF WorkerLock
  <2>2. CASE WorkerUnlock
    BY <2>2 DEF WorkerUnlock
  <2> QED
    BY <1>4, <2>1, <2>2 DEF HttpStep
<1>5. CASE IoStep
  BY <1>5 DEF IoStep, Receive, ReceiveBody
<1>6. CASE NetStep \/ NetEvent
  BY <1>6 DEF NetStep, NetEvent, NetDispatch, NetClear, NetSave, LtFrame
<1>7. CASE Signal
  BY <1>7 DEF Signal, Waiting, Alive
<1>8. CASE UNCHANGED vars
  BY <1>8 DEF vars
<1> QED
  BY <1>1, <1>2, <1>3, <1>4, <1>5, <1>6, <1>7, <1>8 DEF Next, Ended

-----------------------------------------------------------------------------
(* The ticker and unload *)

Started == {"config", "start", "loadLock", "load"}  \* load has not returned

\* The ticker thread is there only after load, and joined from unloadLock on;
\* unload is reached only through the join, and never when the start was refused.
UnloadInv ==
  /\ pc \in Started => ticker = "none"
  /\ pc \in {"unloadLock", "unloadJs", "saving"} => ticker = "done"
  /\ unloaded => ticker = "done"
  /\ config = "bad" => /\ ticker = "none"
                       /\ pc \in {"stop", "unload", "complete", "exited", "killed"}

\* Every step keeps UnloadInv: the join lies on main's only way to unload.
LEMMA UnloadStep == TypeOK /\ UnloadInv /\ [Next]_vars => UnloadInv'
<1> SUFFICES ASSUME TypeOK, UnloadInv, [Next]_vars PROVE UnloadInv'
  OBVIOUS
<1> USE DEF UnloadInv, Started, Goto, mainVars, tickerVars, jsVars
<1>1. CASE MainStep
  BY <1>1 DEF MainStep, ReadConfig, StartSession, LoadLock, Load, Listen, RunAlertHandler,
     EmitLock, Emit, StopIo, Stop, Unload, Join, UnloadLock, NothingToUnload,
     AskForResumeData, ReadAlerts, FinishUnload, Exit
<1>2. CASE UnloadThrows
  BY <1>2 DEF UnloadThrows
<1>3. CASE TickerStep
  BY <1>3 DEF TickerStep, Tick, TickGoOn, TickStop, TickLock, TickEmit
<1>4. CASE HttpStep \/ IoStep
  BY <1>4 DEF HttpStep, WorkerLock, WorkerUnlock, IoStep, Receive, ReceiveBody
<1>5. CASE NetStep \/ NetEvent
  BY <1>5 DEF NetStep, NetEvent, NetDispatch, NetClear, NetSave, LtFrame
<1>6. CASE Signal
  BY <1>6 DEF Signal, Waiting
<1>7. CASE UNCHANGED vars
  BY <1>7 DEF vars
<1> QED
  BY <1>1, <1>2, <1>3, <1>4, <1>5, <1>6, <1>7 DEF Next, Ended

-----------------------------------------------------------------------------
(* The dispatch function and the answers *)

HasClear(i) == \E j \in 1..i : netCmd[j] = "clear"

\* The calls on the session are queued in the order dispatch, clear, saves, so the
\* network thread has no dispatch function when it makes a save.
CallsInv ==
  /\ \A i \in 1..Len(netCmd) : netCmd[i] = "dispatch" => i = 1
  /\ \A i, j \in 1..Len(netCmd) : i < j /\ netCmd[i] # "dispatch" => netCmd[j] = "save"
  /\ pc \in {"config", "start"} => netCmd = <<>> /\ ~dispatching
  /\ pc \in Started \cup {"listen", "run", "emitLock", "emit", "stop"} =>
       \A i \in 1..Len(netCmd) : netCmd[i] = "dispatch"
  /\ pc \in {"unload", "join", "unloadLock", "unloadJs"} =>
       \A i \in 1..Len(netCmd) : netCmd[i] # "save"

\* While it still has one, the call that takes it back is in the queue, from the
\* moment main is past Stop.
Cleared ==
  /\ pc \in {"unload", "join", "unloadLock", "unloadJs"} =>
       (~dispatching /\ netCmd = <<>>) \/ HasClear(Len(netCmd))
  /\ \A i \in 1..Len(netCmd) : netCmd[i] = "save" =>
       HasClear(i) \/ (~dispatching /\ netCmd[1] = "save")

\* An answer lies in libtorrent's queue only when no dispatch function can come.
AnswersKept ==
  \A i \in 1..Len(ltQueue) : ltQueue[i].kind # "event" =>
    /\ ~dispatching /\ pc \notin {"config", "start"}
    /\ \A j \in 1..Len(netCmd) : netCmd[j] # "dispatch"

EarlyPlaces == Started \cup {"listen", "run", "emitLock", "emit", "stop"}
LatePlaces  == {"unload", "join", "unloadLock", "unloadJs"}

\* A step that queues or runs no call moves main within the places that CallsInv
\* and Cleared speak of, or out of them.
LEMMA CallsFrame ==
  ASSUME CallsInv, Cleared, UNCHANGED <<netCmd, dispatching>>,
         pc' \in {"config", "start"} => pc \in {"config", "start"},
         pc' \in EarlyPlaces => pc \in EarlyPlaces,
         pc' \in LatePlaces => pc \in LatePlaces
  PROVE  CallsInv' /\ Cleared'
BY DEF CallsInv, Cleared, HasClear, EarlyPlaces, LatePlaces

\* The queue of calls keeps its order whoever adds to it or runs its first call.
LEMMA CallsStep ==
  TypeOK /\ CallsInv /\ Cleared /\ [Next]_vars => CallsInv' /\ Cleared'
<1> SUFFICES ASSUME TypeOK, CallsInv, Cleared, [Next]_vars PROVE CallsInv' /\ Cleared'
  OBVIOUS
<1>0. netCmd \in Seq({"dispatch", "clear", "save"}) /\ Len(netCmd) \in Nat
  BY DEF TypeOK
<1>1. CASE StartSession
  <2>1. /\ netCmd' = <<"dispatch">> /\ pc' = "loadLock" /\ dispatching' = dispatching
    BY <1>1 DEF StartSession, Goto, CallsInv
  <2> QED
    BY <2>1 DEF CallsInv, Cleared, Started
<1>2. CASE Stop
  <2>1. /\ netCmd' = Append(netCmd, "clear") /\ pc' = "unload" /\ dispatching' = dispatching
        /\ \A i \in 1..Len(netCmd) : netCmd[i] = "dispatch"
    BY <1>2 DEF Stop, Goto, CallsInv
  <2>2. /\ Len(netCmd') = Len(netCmd) + 1 /\ netCmd'[Len(netCmd) + 1] = "clear"
        /\ \A i \in 1..Len(netCmd) : netCmd'[i] = "dispatch"
    BY <1>0, <2>1, AppendProperties
  <2>3. CallsInv'
    BY <1>0, <2>1, <2>2 DEF CallsInv, Started
  <2>4. Cleared'
    BY <1>0, <2>1, <2>2 DEF Cleared, HasClear
  <2> QED
    BY <2>3, <2>4
<1>3. CASE AskForResumeData
  <2>1. PICK dirty \in 0..MaxTorrents : netCmd' = netCmd \o [i \in 1..dirty |-> "save"]
    BY <1>3 DEF AskForResumeData
  <2>2. /\ pc' = "saving" /\ dispatching' = dispatching
        /\ \A i \in 1..Len(netCmd) : netCmd[i] # "save"
        /\ (~dispatching /\ netCmd = <<>>) \/ HasClear(Len(netCmd))
    BY <1>3 DEF AskForResumeData, Goto, CallsInv, Cleared
  <2>3. dirty \in Nat /\ Len([i \in 1..dirty |-> "save"]) = dirty
    BY BoundsAssumption
  <2>4. [i \in 1..dirty |-> "save"] \in Seq({"dispatch", "clear", "save"})
    BY <2>3, IsASeq
  <2>5. /\ Len(netCmd') = Len(netCmd) + dirty
        /\ \A i \in 1..Len(netCmd) : netCmd'[i] = netCmd[i]
        /\ \A i \in (Len(netCmd) + 1)..(Len(netCmd) + dirty) : netCmd'[i] = "save"
    BY <1>0, <2>1, <2>3, <2>4, ConcatProperties
  <2>6. CallsInv'
    BY <1>0, <2>2, <2>3, <2>5 DEF CallsInv, Started
  <2>7. Cleared'
    <3> SUFFICES ASSUME NEW i \in 1..Len(netCmd'), netCmd'[i] = "save"
                 PROVE  HasClear(i)' \/ (~dispatching' /\ netCmd'[1] = "save")
      BY <2>2 DEF Cleared
    <3>1. i \in (Len(netCmd) + 1)..(Len(netCmd) + dirty)
      BY <1>0, <2>2, <2>3, <2>5
    <3>2. CASE HasClear(Len(netCmd))
      BY <1>0, <2>3, <2>5, <3>1, <3>2 DEF HasClear
    <3>3. CASE ~dispatching /\ netCmd = <<>>
      BY <1>0, <2>2, <2>3, <2>5, <3>1, <3>3
    <3> QED
      BY <2>2, <3>2, <3>3
  <2> QED
    BY <2>6, <2>7
<1>4. CASE NetStep
  <2>1. netCmd # <<>> /\ netCmd' = Tail(netCmd) /\ pc' = pc
    BY <1>4 DEF NetStep, NetDispatch, NetClear, NetSave, NetCall, LtFrame, mainVars
  <2>2. /\ Len(netCmd') = Len(netCmd) - 1 /\ Len(netCmd) >= 1
        /\ \A i \in 1..Len(netCmd') : netCmd'[i] = netCmd[i + 1]
    BY <1>0, <2>1, HeadTailProperties
  <2>3. /\ netCmd[1] = "dispatch" => dispatching'
        /\ netCmd[1] = "clear" => ~dispatching'
        /\ netCmd[1] = "save" => dispatching' = dispatching
    BY <1>0, <1>4, <2>1 DEF NetStep, NetDispatch, NetClear, NetSave, NetCall
  <2>4. CallsInv'
    BY <1>0, <2>1, <2>2 DEF CallsInv, Started
  <2>5. ASSUME NEW i \in 1..Len(netCmd), HasClear(i), netCmd[1] # "clear"
        PROVE  i - 1 \in 1..Len(netCmd') /\ HasClear(i - 1)'
    <3>1. PICK j \in 1..i : netCmd[j] = "clear"
      BY <2>5 DEF HasClear
    <3>2. j - 1 \in 1..(i - 1) /\ i - 1 \in 1..Len(netCmd') /\ netCmd'[j - 1] = "clear"
      BY <1>0, <2>2, <2>5, <3>1
    <3> QED
      BY <3>2 DEF HasClear
  <2>6. netCmd[1] # "dispatch" => \A i \in 1..Len(netCmd') : netCmd'[i] = "save"
    BY <1>0, <2>2 DEF CallsInv
  <2>7. ASSUME pc \in LatePlaces
        PROVE  (~dispatching' /\ netCmd' = <<>>) \/ HasClear(Len(netCmd))'
    <3>1. netCmd[1] # "save" /\ HasClear(Len(netCmd))
      BY <1>0, <2>1, <2>2, <2>7 DEF CallsInv, Cleared, LatePlaces
    <3>2. CASE netCmd[1] = "clear"
      <4>1. Len(netCmd') = 0
        BY <1>0, <2>2, <2>6, <2>7, <3>2 DEF CallsInv, LatePlaces
      <4> QED
        BY <1>0, <2>1, <2>3, <3>2, <4>1
    <3>3. CASE netCmd[1] = "dispatch"
      <4>1. PICK n \in 1..Len(netCmd) : n = Len(netCmd)
        BY <1>0, <2>2
      <4>2. HasClear(n)
        BY <3>1, <4>1
      <4>3. HasClear(n - 1)' /\ n - 1 = Len(netCmd')
        BY <2>2, <2>5, <3>3, <4>1, <4>2
      <4> QED
        BY <4>3
    <3>4. netCmd[1] \in {"dispatch", "clear", "save"}
      BY <1>0, <2>2
    <3> QED
      BY <3>1, <3>2, <3>3, <3>4
  <2>8. ASSUME NEW i \in 1..Len(netCmd'), netCmd'[i] = "save"
        PROVE  HasClear(i)' \/ (~dispatching' /\ netCmd'[1] = "save")
    <3>1. i + 1 \in 1..Len(netCmd) /\ netCmd[i + 1] = "save"
      BY <1>0, <2>2, <2>8
    <3>2. HasClear(i + 1) \/ (~dispatching /\ netCmd[1] = "save")
      BY <3>1 DEF Cleared
    <3>3. CASE netCmd[1] = "dispatch"
      <4>1. HasClear(i + 1)
        BY <3>2, <3>3
      <4> QED
        BY <1>0, <2>2, <2>5, <3>1, <3>3, <4>1
    <3>4. CASE netCmd[1] = "clear"
      BY <1>0, <2>2, <2>3, <2>6, <2>8, <3>4
    <3>5. CASE netCmd[1] = "save"
      <4>1. ~HasClear(i + 1)
        BY <1>0, <2>2, <3>1, <3>5 DEF CallsInv, HasClear
      <4> QED
        BY <1>0, <2>2, <2>3, <2>6, <2>8, <3>2, <3>5, <4>1
    <3> QED
      BY <1>0, <2>2, <3>3, <3>4, <3>5
  <2>9. Cleared'
    BY <2>1, <2>7, <2>8 DEF Cleared, LatePlaces
  <2> QED
    BY <2>4, <2>9
<1>5. CASE MainStep /\ ~StartSession /\ ~Stop /\ ~AskForResumeData
  <2>1. UNCHANGED <<netCmd, dispatching>>
    BY <1>5 DEF MainStep, ReadConfig, LoadLock, Load, Listen, RunAlertHandler, EmitLock, Emit,
       StopIo, Unload, Join, UnloadLock, NothingToUnload, ReadAlerts, FinishUnload, Exit, ltVars
  <2>2. /\ pc' \in {"config", "start"} => pc \in {"config", "start"}
        /\ pc' \in EarlyPlaces => pc \in EarlyPlaces
        /\ pc' \in LatePlaces => pc \in LatePlaces
    BY <1>5 DEF MainStep, ReadConfig, LoadLock, Load, Listen, RunAlertHandler, EmitLock, Emit,
       StopIo, Unload, Join, UnloadLock, NothingToUnload, ReadAlerts, FinishUnload, Exit, Goto,
       mainVars, EarlyPlaces, LatePlaces, Started
  <2> QED
    BY <2>1, <2>2, CallsFrame
<1>6. CASE UnloadThrows \/ Signal
  BY <1>6, CallsFrame DEF UnloadThrows, Signal, Goto, Waiting, ltVars, EarlyPlaces, LatePlaces,
     Started
<1>7. CASE TickerStep \/ HttpStep \/ IoStep \/ NetEvent \/ UNCHANGED vars
  BY <1>7, CallsFrame DEF TickerStep, Tick, TickGoOn, TickStop, TickLock, TickEmit, HttpStep,
     WorkerLock, WorkerUnlock, IoStep, Receive, ReceiveBody, NetEvent, LtFrame, mainVars, ltVars,
     vars
<1> QED
  BY <1>1, <1>2, <1>3, <1>4, <1>5, <1>6, <1>7 DEF Next, Ended

\* No step hands an answer to the dispatch function.
LEMMA AnswersStep ==
  /\ TypeOK /\ CallsInv /\ Cleared /\ AnswersKept /\ AnswersReachUnload /\ [Next]_vars
  => AnswersKept' /\ AnswersReachUnload'
<1> SUFFICES ASSUME TypeOK, CallsInv, Cleared, AnswersKept, AnswersReachUnload, [Next]_vars
             PROVE  AnswersKept' /\ AnswersReachUnload'
  OBVIOUS
<1>0. /\ netCmd \in Seq({"dispatch", "clear", "save"}) /\ Len(netCmd) \in Nat
      /\ ltQueue \in Seq(Alert) /\ dispatched \in Seq(Alert)
      /\ Len(ltQueue) \in Nat /\ Len(dispatched) \in Nat
  BY DEF TypeOK
<1>1. CASE NetDispatch
  <2>1. netCmd # <<>> /\ netCmd[1] = "dispatch" /\ Len(netCmd) >= 1
    BY <1>0, <1>1 DEF NetDispatch, NetCall
  <2>2. \A i \in 1..Len(ltQueue) : ltQueue[i].kind = "event"
    BY <2>1 DEF AnswersKept
  <2>3. dispatched' = dispatched \o ltQueue /\ ltQueue' = <<>>
    BY <1>1 DEF NetDispatch
  <2>4. AnswersReachUnload'
    BY <1>0, <2>2, <2>3, ConcatProperties DEF AnswersReachUnload
  <2> QED
    BY <2>3, <2>4 DEF AnswersKept
<1>2. CASE NetClear
  <2>1. /\ netCmd # <<>> /\ netCmd' = Tail(netCmd) /\ ~dispatching'
        /\ UNCHANGED <<pc, ltQueue, dispatched>>
    BY <1>2 DEF NetClear, NetCall, LtFrame, mainVars
  <2>2. Len(netCmd') = Len(netCmd) - 1 /\ \A i \in 1..Len(netCmd') : netCmd'[i] = netCmd[i + 1]
    BY <1>0, <2>1, HeadTailProperties
  <2> QED
    BY <1>0, <2>1, <2>2 DEF AnswersKept, AnswersReachUnload
<1>3. CASE NetSave
  <2>1. /\ netCmd # <<>> /\ netCmd' = Tail(netCmd) /\ netCmd[1] = "save" /\ Len(netCmd) >= 1
        /\ UNCHANGED <<pc, dispatching>> /\ Post(Saved)
    BY <1>0, <1>3 DEF NetSave, NetCall, LtFrame, mainVars
  <2>2. Len(netCmd') = Len(netCmd) - 1 /\ \A i \in 1..Len(netCmd') : netCmd'[i] = netCmd[i + 1]
    BY <1>0, <2>1, HeadTailProperties
  <2>3. ~dispatching
    BY <1>0, <2>1 DEF Cleared, HasClear
  <2>4. pc \notin {"config", "start"} /\ \A j \in 1..Len(netCmd') : netCmd'[j] # "dispatch"
    BY <1>0, <2>1, <2>2 DEF CallsInv
  <2>5. UNCHANGED dispatched
    BY <2>1, <2>3 DEF Post
  <2> QED
    BY <2>1, <2>3, <2>4, <2>5 DEF AnswersKept, AnswersReachUnload
<1>4. CASE NetEvent
  <2> DEFINE e == [kind |-> "event", id |-> posted]
  <2>1. /\ UNCHANGED <<pc, netCmd, dispatching>> /\ Post(e) /\ e.kind = "event" /\ e \in Alert
    BY <1>4 DEF NetEvent, LtFrame, mainVars, Alert, TypeOK
  <2> HIDE DEF e
  <2>2. CASE dispatching
    <3>1. dispatched' = Append(dispatched, e) /\ ltQueue' = ltQueue
      BY <2>1, <2>2 DEF Post
    <3> QED
      BY <1>0, <2>1, <3>1, AppendProperties DEF AnswersKept, AnswersReachUnload
  <2>3. CASE ~dispatching
    <3>1. ltQueue' = Append(ltQueue, e) /\ dispatched' = dispatched
      BY <2>1, <2>3 DEF Post
    <3> QED
      BY <1>0, <2>1, <3>1, AppendProperties DEF AnswersKept, AnswersReachUnload
  <2> QED
    BY <2>2, <2>3
<1>5. CASE StartSession
  <2>1. /\ pc = "start" /\ UNCHANGED <<ltQueue, dispatched, dispatching>>
    BY <1>5 DEF StartSession, Goto, alertVars
  <2> QED
    BY <2>1 DEF AnswersKept, AnswersReachUnload
<1>6. CASE Stop
  <2>1. /\ netCmd' = Append(netCmd, "clear") /\ pc' = "unload"
        /\ UNCHANGED <<ltQueue, dispatched, dispatching>>
    BY <1>6 DEF Stop, Goto, alertVars
  <2> QED
    BY <1>0, <2>1, AppendProperties DEF AnswersKept, AnswersReachUnload
<1>7. CASE AskForResumeData
  <2>1. PICK dirty \in 0..MaxTorrents : netCmd' = netCmd \o [i \in 1..dirty |-> "save"]
    BY <1>7 DEF AskForResumeData
  <2>2. pc' = "saving" /\ UNCHANGED <<ltQueue, dispatched, dispatching>>
    BY <1>7 DEF AskForResumeData, Goto, alertVars
  <2>3. [i \in 1..dirty |-> "save"] \in Seq({"dispatch", "clear", "save"})
    BY BoundsAssumption, IsASeq
  <2>4. \A j \in 1..Len(netCmd') : netCmd'[j] = "save" \/ (j <= Len(netCmd) /\ netCmd'[j] = netCmd[j])
    BY <1>0, <2>1, <2>3, BoundsAssumption, ConcatProperties
  <2> QED
    BY <1>0, <2>2, <2>4 DEF AnswersKept, AnswersReachUnload
<1>8. CASE ReadAlerts
  <2>1. ltQueue' = <<>> /\ dispatched' = dispatched
    BY <1>8 DEF ReadAlerts, alertVars
  <2> QED
    BY <2>1 DEF AnswersKept, AnswersReachUnload
<1>9. CASE MainStep /\ ~StartSession /\ ~Stop /\ ~AskForResumeData /\ ~ReadAlerts
  <2>1. UNCHANGED <<netCmd, dispatching, ltQueue, dispatched>>
    BY <1>9 DEF MainStep, ReadConfig, LoadLock, Load, Listen, RunAlertHandler, EmitLock, Emit,
       StopIo, Unload, Join, UnloadLock, NothingToUnload, FinishUnload, Exit, ltVars, alertVars
  <2>2. pc' \in {"config", "start"} => pc \in {"config", "start"}
    BY <1>9 DEF MainStep, ReadConfig, LoadLock, Load, Listen, RunAlertHandler, EmitLock, Emit,
       StopIo, Unload, Join, UnloadLock, NothingToUnload, FinishUnload, Exit, Goto
  <2> QED
    BY <2>1, <2>2 DEF AnswersKept, AnswersReachUnload
<1>10. CASE UnloadThrows \/ Signal
  BY <1>10 DEF UnloadThrows, Signal, Goto, ltVars, alertVars, AnswersKept, AnswersReachUnload
<1>11. CASE TickerStep \/ HttpStep \/ IoStep \/ UNCHANGED vars
  BY <1>11 DEF TickerStep, Tick, TickGoOn, TickStop, TickLock, TickEmit, HttpStep, WorkerLock,
     WorkerUnlock, IoStep, Receive, ReceiveBody, mainVars, ltVars, alertVars, vars,
     AnswersKept, AnswersReachUnload
<1> QED
  BY <1>1, <1>2, <1>3, <1>4, <1>5, <1>6, <1>7, <1>8, <1>9, <1>10, <1>11 DEF Next, NetStep, Ended

-----------------------------------------------------------------------------
(* The order of alerts *)

\* Handling the first alert moves it from one sequence to the other.
LEMMA MoveHead ==
  ASSUME NEW S, NEW s \in Seq(S), NEW q \in Seq(S), q # <<>>
  PROVE  Append(s, Head(q)) \o Tail(q) = s \o q
<1>1. Head(q) \in S /\ Tail(q) \in Seq(S)
  BY HeadTailProperties
<1>2. <<Head(q)>> \in Seq(S)
  BY <1>1
<1>3. Append(s, Head(q)) \o Tail(q) = s \o (<<Head(q)>> \o Tail(q))
  BY <1>1, <1>2, AppendIsConcat, ConcatAssociative
<1>4. <<Head(q)>> \o Tail(q) = q
  <2>1. Len(<<Head(q)>> \o Tail(q)) = Len(q)
    BY <1>1, <1>2, ConcatProperties, HeadTailProperties
  <2>2. \A i \in 1..Len(q) : (<<Head(q)>> \o Tail(q))[i] = q[i]
    BY <1>1, <1>2, ConcatProperties, HeadTailProperties
  <2> QED
    BY <1>1, <1>2, <2>1, <2>2, SeqEqual, ConcatProperties
<1> QED
  BY <1>3, <1>4

\* What was dispatched is what has been handled and what waits: the refinement needs
\* it to know that the alert emitted is the next one.
OrderInv == dispatched = delivered \o ioQueue

\* What is dispatched last is handled last.
LEMMA OrderStep == TypeOK /\ QueueInv /\ OrderInv /\ [Next]_vars => OrderInv'
<1> SUFFICES ASSUME TypeOK, QueueInv, OrderInv, [Next]_vars PROVE OrderInv'
  OBVIOUS
<1>0. ioQueue \in Seq(Alert) /\ ltQueue \in Seq(Alert) /\ delivered \in Seq(Alert)
  BY DEF TypeOK
<1>1. CASE Emit
  <2>1. /\ ioQueue # <<>> /\ delivered' = Append(delivered, Head(ioQueue))
        /\ ioQueue' = Tail(ioQueue) /\ dispatched' = dispatched
    BY <1>1 DEF Emit, QueueInv, Goto
  <2> QED
    BY <1>0, <2>1, MoveHead DEF OrderInv
<1>2. CASE NetDispatch
  <2>1. /\ ioQueue' = ioQueue \o ltQueue /\ dispatched' = dispatched \o ltQueue
        /\ delivered' = delivered
    BY <1>2 DEF NetDispatch, LtFrame
  <2> QED
    BY <1>0, <2>1, ConcatAssociative DEF OrderInv
<1>3. ASSUME NEW a \in Alert, Post(a), delivered' = delivered PROVE OrderInv'
  <2>1. CASE dispatching
    <3>1. ioQueue' = Append(ioQueue, a) /\ dispatched' = Append(dispatched, a)
      BY <1>3, <2>1 DEF Post
    <3>2. ioQueue' = ioQueue \o <<a>>
      BY <1>0, <3>1, AppendIsConcat
    <3>3. dispatched' = dispatched \o <<a>>
      BY <3>1, AppendIsConcat DEF TypeOK
    <3>4. <<a>> \in Seq(Alert)
      OBVIOUS
    <3>5. (delivered \o ioQueue) \o <<a>> = delivered \o (ioQueue \o <<a>>)
      BY <1>0, <3>4, ConcatAssociative
    <3> QED
      BY <1>3, <3>2, <3>3, <3>5 DEF OrderInv
  <2>2. CASE ~dispatching
    BY <1>3, <2>2 DEF Post, OrderInv
  <2> QED
    BY <2>1, <2>2
<1>4. CASE NetSave
  BY <1>3, <1>4 DEF NetSave, LtFrame, Alert, Saved
<1>5. CASE NetEvent
  <2>1. [kind |-> "event", id |-> posted] \in Alert
    BY DEF Alert, TypeOK
  <2> QED
    BY <1>3, <1>5, <2>1 DEF NetEvent, LtFrame
<1>6. CASE MainStep /\ ~Emit
  BY <1>6 DEF MainStep, ReadConfig, StartSession, LoadLock, Load, Listen, RunAlertHandler,
     EmitLock, StopIo, Stop, Unload, Join, UnloadLock, NothingToUnload, AskForResumeData,
     ReadAlerts, FinishUnload, Exit, alertVars, OrderInv
<1>7. CASE UnloadThrows \/ Signal \/ NetClear \/ UNCHANGED vars
  BY <1>7 DEF UnloadThrows, Signal, NetClear, LtFrame, alertVars, vars, OrderInv
<1>8. CASE TickerStep \/ HttpStep \/ IoStep
  BY <1>8 DEF TickerStep, Tick, TickGoOn, TickStop, TickLock, TickEmit, HttpStep, WorkerLock,
     WorkerUnlock, IoStep, Receive, ReceiveBody, alertVars, OrderInv
<1> QED
  BY <1>1, <1>2, <1>4, <1>5, <1>6, <1>7, <1>8 DEF Next, NetStep, Ended

\* The queue is not emptied under main.
LEMMA QueueStep == TypeOK /\ QueueInv /\ [Next]_vars => QueueInv'
<1> SUFFICES ASSUME TypeOK, QueueInv, [Next]_vars PROVE QueueInv'
  OBVIOUS
<1>1. CASE MainStep \/ UnloadThrows \/ Signal
  BY <1>1 DEF MainStep, ReadConfig, StartSession, LoadLock, Load, Listen, RunAlertHandler,
     EmitLock, Emit, StopIo, Stop, Unload, Join, UnloadLock, NothingToUnload, AskForResumeData,
     ReadAlerts, FinishUnload, Exit, UnloadThrows, Signal, Goto, mainVars, alertVars, QueueInv
<1>2. ASSUME NEW a \in Alert, Post(a), pc' = pc PROVE QueueInv'
  BY <1>2, AppendProperties DEF Post, QueueInv, TypeOK
<1>3. CASE NetSave
  BY <1>2, <1>3 DEF NetSave, LtFrame, mainVars, Alert, Saved
<1>4. CASE NetEvent
  <2>1. [kind |-> "event", id |-> posted] \in Alert
    BY DEF Alert, TypeOK
  <2> QED
    BY <1>2, <1>4, <2>1 DEF NetEvent, LtFrame, mainVars
<1>5. CASE NetDispatch
  BY <1>5, ConcatEqualIffEmpty DEF NetDispatch, LtFrame, mainVars, QueueInv, TypeOK
<1>6. CASE NetClear \/ TickerStep \/ HttpStep \/ IoStep \/ UNCHANGED vars
  BY <1>6 DEF NetClear, LtFrame, TickerStep, Tick, TickGoOn, TickStop, TickLock, TickEmit,
     HttpStep, WorkerLock, WorkerUnlock, IoStep, Receive, ReceiveBody, mainVars, alertVars, vars,
     QueueInv
<1> QED
  BY <1>1, <1>3, <1>4, <1>5, <1>6 DEF Next, NetStep, Ended

-----------------------------------------------------------------------------
(* Counting in a queue *)

\* The places of x in a sequence are finitely many.
LEMMA PlacesFinite ==
  ASSUME NEW S, NEW q \in Seq(S), NEW x
  PROVE  IsFiniteSet({i \in 1..Len(q) : q[i] = x})
<1>1. IsFiniteSet(1..Len(q))
  BY FS_Interval, LenProperties
<1> QED
  BY <1>1, FS_Subset

\* So their number is one, and 0 if x is not there at all.
LEMMA CountType ==
  ASSUME NEW S, NEW q \in Seq(S), NEW x
  PROVE  Count(q, x) \in Nat
BY PlacesFinite, FS_CardinalityType DEF Count

LEMMA CountNone ==
  ASSUME NEW S, NEW q \in Seq(S), NEW x
  PROVE  Count(q, x) = 0 <=> \A i \in 1..Len(q) : q[i] # x
<1> DEFINE A == {i \in 1..Len(q) : q[i] = x}
<1>1. IsFiniteSet(A)
  BY PlacesFinite
<1>2. Cardinality(A) = 0 <=> A = {}
  BY <1>1, FS_EmptySet
<1>3. A = {} <=> \A i \in 1..Len(q) : q[i] # x
  OBVIOUS
<1> QED
  BY <1>2, <1>3 DEF Count

LEMMA CountEmpty == \A x : Count(<<>>, x) = 0
<1> TAKE x
<1>1. {i \in 1..Len(<<>>) : <<>>[i] = x} = {}
  OBVIOUS
<1> QED
  BY <1>1, FS_EmptySet DEF Count

\* A concatenation has what its two parts have.
LEMMA CountConcat ==
  ASSUME NEW S, NEW s \in Seq(S), NEW t \in Seq(S), NEW x
  PROVE  Count(s \o t, x) = Count(s, x) + Count(t, x)
<1>0. /\ Len(s) \in Nat /\ Len(t) \in Nat /\ Len(s \o t) = Len(s) + Len(t)
      /\ \A i \in 1..Len(s) : (s \o t)[i] = s[i]
      /\ \A j \in 1..Len(t) : (s \o t)[Len(s) + j] = t[j]
  BY LenProperties, ConcatProperties
<1> DEFINE A == {i \in 1..Len(s) : s[i] = x}
           B == {j \in 1..Len(t) : t[j] = x}
           C == {i \in (Len(s) + 1)..(Len(s) + Len(t)) : (s \o t)[i] = x}
           f == [j \in B |-> Len(s) + j]
<1>1. IsFiniteSet(A) /\ IsFiniteSet(B)
  BY PlacesFinite
<1>2. f \in Bijection(B, C)
  <2>1. \A j \in B : f[j] = Len(s) + j /\ f[j] \in C
    BY <1>0
  <2>2. \A j, k \in B : f[j] = f[k] => j = k
    BY <1>0, <2>1
  <2>3. \A i \in C : i - Len(s) \in B /\ f[i - Len(s)] = i
    <3> TAKE i \in C
    <3>1. i - Len(s) \in 1..Len(t) /\ Len(s) + (i - Len(s)) = i
      BY <1>0
    <3>2. i - Len(s) \in B
      BY <1>0, <3>1
    <3> QED
      BY <2>1, <3>1, <3>2
  <2>4. f \in [B -> C]
    BY <2>1
  <2> HIDE DEF f, B, C
  <2> QED
    BY <2>2, <2>3, <2>4 DEF Bijection, Injection, Surjection, IsInjective
<1>3. IsFiniteSet(C) /\ Cardinality(C) = Cardinality(B)
  BY ZenonT(40), <1>1, <1>2, FS_Bijection DEF ExistsBijection
<1>4. /\ {i \in 1..Len(s \o t) : (s \o t)[i] = x} = A \cup C
      /\ A \cap C = {}
  BY <1>0
<1>5. Cardinality(A \cup C) = Cardinality(A) + Cardinality(C)
  <2>1. Cardinality(A \cap C) = 0
    BY <1>4, FS_EmptySet
  <2>2. Cardinality(A) \in Nat /\ Cardinality(C) \in Nat
    BY <1>1, <1>3, FS_CardinalityType
  <2> HIDE DEF A, C
  <2>3. Cardinality(A \cup C) = Cardinality(A) + Cardinality(C) - Cardinality(A \cap C)
    BY <1>1, <1>3, FS_Union
  <2> QED
    BY <2>1, <2>2, <2>3
<1> QED
  BY <1>3, <1>4, <1>5 DEF Count

\* A sequence of one element.
LEMMA CountOne ==
  ASSUME NEW S, NEW a \in S, NEW x
  PROVE  Count(<<a>>, x) = IF a = x THEN 1 ELSE 0
<1>1. Len(<<a>>) = 1 /\ <<a>>[1] = a
  OBVIOUS
<1>2. {i \in 1..Len(<<a>>) : <<a>>[i] = x} = IF a = x THEN {1} ELSE {}
  BY <1>1
<1> QED
  BY <1>2, FS_Singleton, FS_EmptySet DEF Count

\* What joins a queue at its end adds to its count, what leaves it at its head
\* takes from it.
LEMMA CountAppend ==
  ASSUME NEW S, NEW q \in Seq(S), NEW a \in S, NEW x
  PROVE  Count(Append(q, a), x) = Count(q, x) + IF a = x THEN 1 ELSE 0
<1>1. Append(q, a) = q \o <<a>> /\ <<a>> \in Seq(S)
  BY AppendIsConcat
<1>2. Count(q \o <<a>>, x) = Count(q, x) + Count(<<a>>, x)
  BY <1>1, CountConcat
<1>3. Count(<<a>>, x) = IF a = x THEN 1 ELSE 0
  BY CountOne
<1> QED
  BY <1>1, <1>2, <1>3

LEMMA CountTail ==
  ASSUME NEW S, NEW q \in Seq(S), q # <<>>, NEW x
  PROVE  Count(q, x) = Count(Tail(q), x) + IF Head(q) = x THEN 1 ELSE 0
<1>1. Head(q) \in S /\ Tail(q) \in Seq(S) /\ <<Head(q)>> \in Seq(S)
  BY HeadTailProperties
<1>2. q = <<Head(q)>> \o Tail(q)
  <2>1. <<>> \in Seq(S) /\ Append(<<>>, Head(q)) \o Tail(q) = <<>> \o q
    BY MoveHead
  <2>2. Append(<<>>, Head(q)) = <<Head(q)>> /\ <<>> \o q = q
    BY <1>1, ConcatEmptySeq
  <2> QED
    BY <2>1, <2>2
<1>3. Count(q, x) = Count(<<Head(q)>>, x) + Count(Tail(q), x)
  BY ZenonT(40), <1>1, <1>2, CountConcat
<1>4. Count(<<Head(q)>>, x) = IF Head(q) = x THEN 1 ELSE 0
  BY <1>1, CountOne
<1>5. Count(Tail(q), x) \in Nat
  BY <1>1, CountType
<1> QED
  BY <1>3, <1>4, <1>5

\* As many copies of x as a sequence of nothing else is long.
LEMMA CountConstant ==
  ASSUME NEW S, NEW x \in S, NEW n \in Nat
  PROVE  /\ [i \in 1..n |-> x] \in Seq(S)
         /\ Count([i \in 1..n |-> x], x) = n
<1> DEFINE q == [i \in 1..n |-> x]
<1>1. q \in Seq(S)
  BY IsASeq
<1>2. Len(q) = n
  OBVIOUS
<1>3. {i \in 1..Len(q) : q[i] = x} = 1..n
  BY <1>2
<1>4. Cardinality(1..n) = n
  BY FS_Interval
<1> QED
  BY <1>1, <1>3, <1>4 DEF Count

-----------------------------------------------------------------------------
(* num of saveTorrents *)

\* Before the loop no answer is there to be counted, and in it num is what is
\* still to come.
NumInv ==
  /\ pc \in EarlyPlaces \cup LatePlaces => Count(ltQueue, Saved) = 0
  /\ NumIsExact

\* A step that leaves the two queues and num alone, and main where it is or goes
\* nowhere from the loop.
LEMMA NumFrame ==
  ASSUME NumInv, UNCHANGED <<netCmd, ltQueue, pending>>,
         pc' \in EarlyPlaces \cup LatePlaces => pc \in EarlyPlaces \cup LatePlaces,
         pc' = "saving" => pc = "saving"
  PROVE  NumInv'
BY DEF NumInv, NumIsExact

\* num follows the saves from main through the network thread into the loop.
LEMMA NumStep ==
  TypeOK /\ CallsInv /\ Cleared /\ AnswersKept /\ NumInv /\ [Next]_vars => NumInv'
<1> SUFFICES ASSUME TypeOK, CallsInv, Cleared, AnswersKept, NumInv, [Next]_vars PROVE NumInv'
  OBVIOUS
<1>0. /\ netCmd \in Seq(Calls) /\ ltQueue \in Seq(Alert) /\ pending \in Int
      /\ Saved \in Alert /\ "save" \in Calls
      /\ Count(netCmd, "save") \in Nat /\ Count(ltQueue, Saved) \in Nat
  BY CountType DEF TypeOK, Calls, Alert, Saved
<1>1. CASE StartSession \/ Stop
  <2>1. /\ pc \in EarlyPlaces /\ pc' # "saving" /\ ltQueue' = ltQueue
    BY <1>1 DEF StartSession, Stop, Goto, EarlyPlaces, Started
  <2> QED
    BY <2>1 DEF NumInv, NumIsExact
<1>2. CASE AskForResumeData
  <2>1. PICK dirty \in 0..MaxTorrents :
          pending' = dirty /\ netCmd' = netCmd \o [i \in 1..dirty |-> "save"]
    BY <1>2 DEF AskForResumeData
  <2>2. /\ pc = "unloadJs" /\ pc' = "saving" /\ ltQueue' = ltQueue
    BY <1>2 DEF AskForResumeData, Goto
  <2>3. Count(netCmd, "save") = 0 /\ Count(ltQueue, Saved) = 0
    BY <1>0, <2>2, CountNone DEF CallsInv, NumInv, LatePlaces
  <2>4. dirty \in Nat
    BY BoundsAssumption
  <2>5. /\ [i \in 1..dirty |-> "save"] \in Seq(Calls)
        /\ Count([i \in 1..dirty |-> "save"], "save") = dirty
    BY <1>0, <2>4, CountConstant
  <2>6. Count(netCmd', "save") = Count(netCmd, "save") + Count([i \in 1..dirty |-> "save"], "save")
    BY <1>0, <2>1, <2>5, CountConcat
  <2>7. Count(netCmd', "save") = dirty
    BY <2>3, <2>4, <2>5, <2>6
  <2> QED
    BY <2>1, <2>2, <2>3, <2>4, <2>7 DEF NumInv, NumIsExact, EarlyPlaces, LatePlaces, Started
<1>3. CASE ReadAlerts
  <2>1. /\ pc = "saving" /\ pc' = pc /\ ltQueue' = <<>> /\ netCmd' = netCmd
        /\ pending' = pending - Count(ltQueue, Saved)
    BY <1>3 DEF ReadAlerts, mainVars
  <2>2. Count(ltQueue', Saved) = 0
    BY <2>1, CountEmpty
  <2> QED
    BY <1>0, <2>1, <2>2 DEF NumInv, NumIsExact
<1>4. CASE NetStep
  <2>1. /\ netCmd # <<>> /\ netCmd' = Tail(netCmd) /\ UNCHANGED <<pc, pending>>
        /\ netCmd[1] = Head(netCmd) /\ 1 \in 1..Len(netCmd)
    BY <1>0, <1>4 DEF NetStep, NetDispatch, NetClear, NetSave, NetCall, LtFrame, mainVars, jsVars
  <2>2. Count(netCmd, "save") = Count(netCmd', "save") + IF Head(netCmd) = "save" THEN 1 ELSE 0
    BY <1>0, <2>1, CountTail
  <2>3. Count(netCmd', "save") \in Nat
    <3>1. netCmd' \in Seq(Calls)
      BY <1>0, <2>1, HeadTailProperties
    <3> QED
      BY <3>1, CountType
  <2>4. CASE NetDispatch
    <3>1. Head(netCmd) = "dispatch" /\ ltQueue' = <<>>
      BY <2>4 DEF NetDispatch, NetCall
    <3>2. \A i \in 1..Len(ltQueue) : ltQueue[i] # Saved
      BY <2>1, <3>1 DEF AnswersKept, Saved
    <3>3. Count(ltQueue, Saved) = 0 /\ Count(ltQueue', Saved) = 0
      BY <1>0, <3>1, <3>2, CountNone, CountEmpty
    <3> QED
      BY <2>1, <2>2, <2>3, <3>1, <3>3 DEF NumInv, NumIsExact
  <2>5. CASE NetClear
    <3>1. Head(netCmd) = "clear" /\ ltQueue' = ltQueue
      BY <2>5 DEF NetClear, NetCall
    <3> QED
      BY <2>1, <2>2, <2>3, <3>1 DEF NumInv, NumIsExact
  <2>6. CASE NetSave
    <3>1. Head(netCmd) = "save" /\ ~dispatching
      BY <2>1, <2>6 DEF NetSave, NetCall, Cleared, HasClear
    <3>2. ltQueue' = Append(ltQueue, Saved)
      BY <2>6, <3>1 DEF NetSave, Post
    <3>3. Count(ltQueue', Saved) = Count(ltQueue, Saved) + 1
      BY <1>0, <3>2, CountAppend
    <3>4. pc \notin EarlyPlaces \cup LatePlaces
      BY <2>1, <3>1 DEF CallsInv, EarlyPlaces, LatePlaces
    <3> QED
      BY <1>0, <2>1, <2>2, <2>3, <3>1, <3>3, <3>4 DEF NumInv, NumIsExact
  <2> QED
    BY <1>4, <2>4, <2>5, <2>6 DEF NetStep
<1>5. CASE NetEvent
  <2>1. PICK e \in Alert : e # Saved /\ Post(e) /\ UNCHANGED <<pc, netCmd, pending>>
    BY <1>5 DEF NetEvent, LtFrame, mainVars, jsVars, Alert, TypeOK, Saved
  <2>2. ltQueue' = ltQueue \/ ltQueue' = Append(ltQueue, e)
    BY <2>1 DEF Post
  <2>3. Count(Append(ltQueue, e), Saved) = Count(ltQueue, Saved)
    BY <1>0, <2>1, CountAppend
  <2> QED
    BY <2>1, <2>2, <2>3 DEF NumInv, NumIsExact
<1>6. CASE MainStep /\ ~StartSession /\ ~Stop /\ ~AskForResumeData /\ ~ReadAlerts
  <2>1. UNCHANGED <<netCmd, ltQueue, pending>>
    BY <1>6 DEF MainStep, ReadConfig, LoadLock, Load, Listen, RunAlertHandler, EmitLock, Emit,
       StopIo, Unload, Join, UnloadLock, NothingToUnload, FinishUnload, Exit, ltVars, jsVars
  <2>2. /\ pc' \in EarlyPlaces \cup LatePlaces => pc \in EarlyPlaces \cup LatePlaces
        /\ pc' # "saving"
    BY <1>6 DEF MainStep, ReadConfig, LoadLock, Load, Listen, RunAlertHandler, EmitLock, Emit,
       StopIo, Unload, Join, UnloadLock, NothingToUnload, FinishUnload, Exit, Goto, EarlyPlaces,
       LatePlaces, Started
  <2> QED
    BY <2>1, <2>2, NumFrame
<1>7. CASE UnloadThrows \/ Signal
  BY <1>7, NumFrame DEF UnloadThrows, Signal, Goto, Waiting, ltVars, jsVars, EarlyPlaces,
     LatePlaces, Started
<1>8. CASE TickerStep \/ HttpStep \/ IoStep \/ UNCHANGED vars
  BY <1>8, NumFrame DEF TickerStep, Tick, TickGoOn, TickStop, TickLock, TickEmit, HttpStep,
     WorkerLock, WorkerUnlock, IoStep, Receive, ReceiveBody, mainVars, ltVars, jsVars, vars
<1> QED
  BY <1>1, <1>2, <1>3, <1>4, <1>5, <1>6, <1>7, <1>8 DEF Next, Ended

-----------------------------------------------------------------------------
(* The theorems *)

SafetyInv ==
  TypeInv /\ HolderInv /\ UnloadInv /\ CallsInv /\ Cleared /\ AnswersKept
  /\ AnswersReachUnload /\ OrderInv /\ NumInv

\* Nothing has started: every sequence is empty and nobody is in the heap.
LEMMA InitSafety == Init => SafetyInv
<1> SUFFICES ASSUME Init PROVE SafetyInv
  OBVIOUS
<1>1. TypeOK
  <2>1. requests \in [Requests -> {"unsent", "auth", "reading", "rpc", "done"}]
    BY DEF Init
  <2>2. /\ pool \in Seq(Requests) /\ netCmd \in Seq({"dispatch", "clear", "save"})
        /\ ltQueue \in Seq(Alert) /\ ioQueue \in Seq(Alert)
        /\ dispatched \in Seq(Alert) /\ delivered \in Seq(Alert)
    BY DEF Init
  <2>3. /\ signalled \in BOOLEAN /\ isRunning \in BOOLEAN /\ hdkn \in BOOLEAN
        /\ unloaded \in BOOLEAN /\ dispatching \in BOOLEAN
    BY DEF Init
  <2>4. /\ pc \in MainPlaces /\ config = "unread" /\ owner = "nobody" /\ ticker = "none"
        /\ worker = "idle" /\ pending \in Int /\ posted \in Nat
    BY DEF Init, MainPlaces
  <2> QED
    BY <2>1, <2>2, <2>3, <2>4 DEF TypeOK
<1>2. PoolInv /\ QueueInv
  BY DEF Init, PoolInv, QueueInv
<1>3. HolderInv /\ UnloadInv
  BY DEF Init, HolderInv, Threads, InJs, UnloadInv, Started
<1>4. CallsInv /\ Cleared
  BY DEF Init, CallsInv, Cleared, Started
<1>5. AnswersKept /\ AnswersReachUnload
  BY DEF Init, AnswersKept, AnswersReachUnload
<1>6. OrderInv
  <2>1. <<>> \o <<>> = <<>>
    OBVIOUS
  <2> QED
    BY <2>1 DEF Init, OrderInv
<1>7. NumInv
  BY CountEmpty DEF Init, NumInv, NumIsExact
<1> QED
  BY <1>1, <1>2, <1>3, <1>4, <1>5, <1>6, <1>7 DEF SafetyInv, TypeInv

\* The parts of the invariant need each other; together every step keeps them.
LEMMA StepSafety == SafetyInv /\ [Next]_vars => SafetyInv'
<1> SUFFICES ASSUME SafetyInv, [Next]_vars PROVE SafetyInv'
  OBVIOUS
<1>1. TypeOK'
  <2>1. CASE UNCHANGED vars
    BY <2>1 DEF vars, mainVars, tickerVars, httpVars, jsVars, ltVars, alertVars, SafetyInv,
       TypeInv, TypeOK
  <2> QED
    BY <2>1, TypeMain, TypeOthers, TypeNet DEF SafetyInv, TypeInv, Next, Ended
<1>2. PoolInv' /\ QueueInv'
  BY PoolStep, QueueStep DEF SafetyInv, TypeInv
<1>3. HolderInv' /\ UnloadInv'
  BY HolderStep, UnloadStep DEF SafetyInv, TypeInv
<1>4. CallsInv' /\ Cleared' /\ AnswersKept' /\ AnswersReachUnload'
  BY CallsStep, AnswersStep DEF SafetyInv, TypeInv
<1>5. OrderInv'
  BY OrderStep DEF SafetyInv, TypeInv
<1>6. NumInv'
  BY NumStep DEF SafetyInv, TypeInv
<1> QED
  BY <1>1, <1>2, <1>3, <1>4, <1>5, <1>6 DEF SafetyInv, TypeInv

\* The invariant of the whole module.
THEOREM Safety == Spec => []SafetyInv
BY InitSafety, StepSafety, PTL DEF Spec

\* Every variable of ScriptHost keeps its type in every reachable state.
THEOREM TypeCorrect == Spec => []TypeOK
<1>1. SafetyInv => TypeOK
  BY DEF SafetyInv, TypeInv
<1> QED
  BY Safety, <1>1, PTL

\* ctx_mutex_ does its work: of main, the ticker and the HTTP thread at most one is
\* inside the Duktape heap.
THEOREM HeapExclusive == Spec => []CtxExclusive
<1>1. SafetyInv => CtxExclusive
  BY DEF SafetyInv, HolderInv, CtxExclusive
<1> QED
  BY Safety, <1>1, PTL

\* script_host::unload joins the ticker before JavaScript's unload saves anything.
THEOREM TickerJoined == Spec => []QuietUnload
<1>1. SafetyInv => QuietUnload
  BY DEF SafetyInv, UnloadInv, QuietUnload
<1> QED
  BY Safety, <1>1, PTL

\* A refused hadouken.json is left as it is.
THEOREM BadConfigUntouched == Spec => []BadConfigKept
<1>1. SafetyInv => BadConfigKept
  BY DEF SafetyInv, UnloadInv, BadConfigKept
<1> QED
  BY Safety, <1>1, PTL

\* Every answer to a saveResumeData stays where saveTorrents looks for it.
THEOREM AnswersStay == Spec => []AnswersReachUnload
<1>1. SafetyInv => AnswersReachUnload
  BY DEF SafetyInv
<1> QED
  BY Safety, <1>1, PTL

\* In the loop of saveTorrents num is the saves the network thread has yet to make
\* and the answers the loop has yet to read: it ends when the last one is read and not
\* before.
THEOREM NumExact == Spec => []NumIsExact
<1>1. SafetyInv => NumIsExact
  BY DEF SafetyInv, NumInv
<1> QED
  BY Safety, <1>1, PTL

-----------------------------------------------------------------------------
(* The stop *)

\* The holder of ctx_mutex_ is inside the heap, and the ticker that main joins has
\* been told to end.
HolderWorks == Alive /\ owner # "nobody" => InJs(owner)
JoinInv     == pc = "join" => ticker # "none" /\ ~isRunning

\* Every step that locks enters the heap, and every step that leaves it unlocks.
LEMMA HolderWorksStep == TypeInv /\ HolderWorks /\ [Next]_vars => HolderWorks'
<1> SUFFICES ASSUME TypeInv, HolderWorks, [Next]_vars PROVE HolderWorks'
  OBVIOUS
<1> USE DEF HolderWorks, Threads, InJs, Lock, Unlock, Goto, Alive, mainVars, tickerVars,
            httpVars, jsVars
<1>1. CASE MainStep \/ UnloadThrows
  BY <1>1 DEF MainStep, ReadConfig, StartSession, LoadLock, Load, Listen, RunAlertHandler,
     EmitLock, Emit, StopIo, Stop, Unload, Join, UnloadLock, NothingToUnload,
     AskForResumeData, ReadAlerts, FinishUnload, UnloadThrows, Exit
<1>2. CASE TickerStep
  BY <1>2 DEF TickerStep, Tick, TickGoOn, TickStop, TickLock, TickEmit
<1>3. CASE WorkerLock
  <2>1. Head(pool) \in Requests
    BY <1>3 DEF WorkerLock, TypeInv, TypeOK
  <2>2. worker' # "idle"
    BY <1>3, <2>1 DEF WorkerLock, TypeInv, TypeOK
  <2> QED
    BY <1>3, <2>2 DEF WorkerLock
<1>4. CASE WorkerUnlock
  BY <1>4 DEF WorkerUnlock
<1>5. CASE IoStep
  BY <1>5 DEF IoStep, Receive, ReceiveBody
<1>6. CASE NetStep \/ NetEvent
  BY <1>6 DEF NetStep, NetEvent, NetDispatch, NetClear, NetSave, LtFrame
<1>7. CASE Signal
  BY <1>7 DEF Signal, Waiting
<1>8. CASE UNCHANGED vars
  BY <1>8 DEF vars
<1> QED
  BY <1>1, <1>2, <1>3, <1>4, <1>5, <1>6, <1>7, <1>8 DEF Next, Ended, HttpStep

\* is_running_ is set once, before main can join.
LEMMA JoinStep == JoinInv /\ [Next]_vars => JoinInv'
<1> SUFFICES ASSUME JoinInv, [Next]_vars PROVE JoinInv'
  OBVIOUS
<1> USE DEF JoinInv, Goto, mainVars, tickerVars
<1>1. CASE MainStep \/ UnloadThrows \/ Signal
  BY <1>1 DEF MainStep, ReadConfig, StartSession, LoadLock, Load, Listen, RunAlertHandler,
     EmitLock, Emit, StopIo, Stop, Unload, Join, UnloadLock, NothingToUnload,
     AskForResumeData, ReadAlerts, FinishUnload, UnloadThrows, Exit, Signal, Waiting
<1>2. CASE TickerStep \/ HttpStep \/ IoStep
  BY <1>2 DEF TickerStep, Tick, TickGoOn, TickStop, TickLock, TickEmit, HttpStep, WorkerLock,
     WorkerUnlock, IoStep, Receive, ReceiveBody
<1>3. CASE NetStep \/ NetEvent \/ UNCHANGED vars
  BY <1>3 DEF NetStep, NetEvent, NetDispatch, NetClear, NetSave, LtFrame, vars
<1> QED
  BY <1>1, <1>2, <1>3 DEF Next, Ended

\* Only NetEvent counts the events, up to their bound.
LEMMA PostedStep == posted <= MaxEvents /\ TypeOK /\ [Next]_vars => (posted <= MaxEvents)'
<1> SUFFICES ASSUME posted <= MaxEvents, TypeOK, [Next]_vars PROVE posted' <= MaxEvents
  OBVIOUS
<1>1. CASE NetEvent
  BY <1>1, BoundsAssumption DEF NetEvent, TypeOK
<1>2. CASE MainStep \/ UnloadThrows \/ Signal
  BY <1>2 DEF MainStep, ReadConfig, StartSession, LoadLock, Load, Listen, RunAlertHandler,
     EmitLock, Emit, StopIo, Stop, Unload, Join, UnloadLock, NothingToUnload,
     AskForResumeData, ReadAlerts, FinishUnload, UnloadThrows, Exit, Signal, ltVars
<1>3. CASE TickerStep \/ HttpStep \/ IoStep
  BY <1>3 DEF TickerStep, Tick, TickGoOn, TickStop, TickLock, TickEmit, HttpStep, WorkerLock,
     WorkerUnlock, IoStep, Receive, ReceiveBody, ltVars
<1>4. CASE NetStep \/ UNCHANGED vars
  BY <1>4 DEF NetStep, NetDispatch, NetClear, NetSave, ltVars, vars
<1> QED
  BY <1>1, <1>2, <1>3, <1>4 DEF Next, Ended

StopInv == SafetyInv /\ HolderWorks /\ JoinInv /\ posted <= MaxEvents

\* While answers are missing and none is there to be read, a save is still to be made.
LEMMA SomeAnswerComes ==
  ASSUME TypeOK, NumInv, pc = "saving", pending > 0, ltQueue = <<>>
  PROVE  netCmd # <<>>
<1>1. Count(ltQueue, Saved) = 0
  BY CountEmpty
<1>2. netCmd \in Seq(Calls)
  BY DEF TypeOK, Calls
<1>3. Count(netCmd, "save") \in Nat /\ Count(netCmd, "save") > 0
  BY <1>1, <1>2, CountType DEF NumInv, NumIsExact
<1> QED
  BY <1>3, CountEmpty

LEMMA StopInvNobodyStuck == StopInv => NobodyStuck
BY SomeAnswerComes DEF StopInv, SafetyInv, TypeInv, HolderWorks, JoinInv, NobodyStuck

\* What CASE says, place by place.
LEMMA PlacesLeftIs ==
  /\ pc = "stop" => PlacesLeft = 7
  /\ pc = "unload" => PlacesLeft = 6
  /\ pc = "join" => PlacesLeft = 5
  /\ pc = "unloadLock" => PlacesLeft = 4
  /\ pc = "unloadJs" => PlacesLeft = 3
  /\ pc = "saving" => PlacesLeft = 2
  /\ pc = "complete" => PlacesLeft = 1
  /\ ~Stopping => PlacesLeft = 0
  /\ PlacesLeft \in 0..7
BY DEF PlacesLeft, Stopping

LEMMA StepsLeftType == TypeOK /\ posted <= MaxEvents => StepsLeft \in Nat
<1> SUFFICES ASSUME TypeOK, posted <= MaxEvents PROVE StepsLeft \in Nat
  OBVIOUS
<1>1. Len(netCmd) \in Nat /\ Len(ltQueue) \in Nat /\ MaxEvents - posted \in Nat
  BY BoundsAssumption DEF TypeOK
<1>2. PICK n \in 0..7 : PlacesLeft = n
  BY PlacesLeftIs
<1>3. (2 * MaxTorrents + 3) * n \in Nat
  BY BoundsAssumption
<1> QED
  BY <1>1, <1>2, <1>3 DEF StepsLeft

\* A place that main passes outweighs the calls it brings.
LEMMA PlacePassed ==
  ASSUME TypeOK, TypeOK', PlacesLeft' < PlacesLeft,
         Len(netCmd') <= Len(netCmd) + MaxTorrents + 1,
         UNCHANGED <<ltQueue, posted>>
  PROVE  StepsLeft' < StepsLeft
<1>1. PICK n \in 0..7 : PlacesLeft = n
  BY PlacesLeftIs
<1>2. PICK m \in 0..7 : PlacesLeft' = m
  BY DEF PlacesLeft
<1>3. m < n
  BY <1>1, <1>2
<1>4. (2 * MaxTorrents + 3) * m + (2 * MaxTorrents + 3) <= (2 * MaxTorrents + 3) * n
  BY <1>3, BoundsAssumption
<1>5. /\ Len(netCmd) \in Nat /\ Len(netCmd') \in Nat
      /\ Len(ltQueue) \in Nat /\ 2 * (MaxEvents - posted) \in Int
  BY BoundsAssumption DEF TypeOK
<1>6. (2 * MaxTorrents + 3) * m \in Nat /\ (2 * MaxTorrents + 3) * n \in Nat
  BY BoundsAssumption
<1>7. StepsLeft =
        (2 * MaxTorrents + 3) * n + 2 * Len(netCmd) + Len(ltQueue) + 2 * (MaxEvents - posted)
  BY <1>1 DEF StepsLeft
<1>8. StepsLeft' =
        (2 * MaxTorrents + 3) * m + 2 * Len(netCmd') + Len(ltQueue) + 2 * (MaxEvents - posted)
  BY <1>2 DEF StepsLeft
<1> QED
  BY <1>4, <1>5, <1>6, <1>7, <1>8, BoundsAssumption

LEMMA Lengths ==
  /\ TypeOK => Len(netCmd) \in Nat /\ Len(ltQueue) \in Nat /\ posted \in Nat
  /\ TypeOK' => Len(netCmd') \in Nat /\ Len(ltQueue') \in Nat /\ posted' \in Nat
BY DEF TypeOK

\* While main stays, fewer calls, alerts or events are left.
LEMMA QueuesShorter ==
  ASSUME TypeOK, TypeOK', UNCHANGED pc,
         2 * Len(netCmd') + Len(ltQueue') - 2 * posted'
           < 2 * Len(netCmd) + Len(ltQueue) - 2 * posted
  PROVE  StepsLeft' < StepsLeft
<1>1. PICK n \in 0..7 : PlacesLeft = n
  BY PlacesLeftIs
<1>2. PlacesLeft' = n
  BY <1>1 DEF PlacesLeft
<1>3. /\ Len(netCmd) \in Nat /\ Len(ltQueue) \in Nat /\ posted \in Nat
      /\ Len(netCmd') \in Nat /\ Len(ltQueue') \in Nat /\ posted' \in Nat
  BY Lengths
<1>4. PICK k \in Nat : k = (2 * MaxTorrents + 3) * n
  BY BoundsAssumption
<1>5. PICK a \in Nat, b \in Nat, c \in Nat : a = Len(netCmd) /\ b = Len(ltQueue) /\ c = posted
  BY <1>3
<1>6. PICK d \in Nat, e \in Nat, f \in Nat : d = Len(netCmd') /\ e = Len(ltQueue') /\ f = posted'
  BY <1>3
<1>7. 2 * d + e - 2 * f < 2 * a + b - 2 * c
  BY <1>5, <1>6
<1>8. /\ StepsLeft = k + 2 * a + b + 2 * (MaxEvents - c)
      /\ StepsLeft' = k + 2 * d + e + 2 * (MaxEvents - f)
  BY <1>1, <1>2, <1>4, <1>5, <1>6 DEF StepsLeft
<1>9. k + 2 * d + e + 2 * (MaxEvents - f) < k + 2 * a + b + 2 * (MaxEvents - c)
  BY <1>7, BoundsAssumption
<1> QED
  BY <1>8, <1>9

\* The steps of main after the loop of the io_service.
LEMMA MainAdvances ==
  ASSUME TypeOK, TypeOK', Stopping, MainStep \/ UnloadThrows \/ Signal
  PROVE  StepsLeft' < StepsLeft
<1> USE DEF Goto, Stopping, Waiting, Alive
<1>1. CASE Stop
  <2>1. Len(netCmd') = Len(netCmd) + 1 /\ UNCHANGED <<ltQueue, posted>>
    BY <1>1 DEF Stop, TypeOK
  <2>2. PlacesLeft' < PlacesLeft
    BY <1>1 DEF Stop, PlacesLeft
  <2> QED
    BY <2>1, <2>2, PlacePassed, BoundsAssumption DEF TypeOK
<1>2. CASE AskForResumeData
  <2>1. PICK dirty \in 0..MaxTorrents : netCmd' = netCmd \o [i \in 1..dirty |-> "save"]
    BY <1>2 DEF AskForResumeData
  <2>2. [i \in 1..dirty |-> "save"] \in Seq(Calls) /\ Len([i \in 1..dirty |-> "save"]) = dirty
    BY IsASeq, BoundsAssumption DEF Calls
  <2>3. Len(netCmd') = Len(netCmd) + dirty
    BY <2>1, <2>2 DEF TypeOK, Calls
  <2>4. Len(netCmd') <= Len(netCmd) + MaxTorrents
    BY <2>3, BoundsAssumption DEF TypeOK
  <2>5. PlacesLeft' < PlacesLeft /\ UNCHANGED <<ltQueue, posted>>
    BY <1>2 DEF AskForResumeData, PlacesLeft
  <2> QED
    BY <2>4, <2>5, PlacePassed, BoundsAssumption DEF TypeOK
<1>3. CASE ReadAlerts
  <2>1. Len(ltQueue) > 0 /\ Len(ltQueue') = 0
    BY <1>3 DEF ReadAlerts, TypeOK
  <2>2. UNCHANGED <<pc, netCmd, posted>>
    BY <1>3 DEF ReadAlerts, mainVars
  <2> QED
    BY <2>1, <2>2, QueuesShorter DEF TypeOK
<1>4. CASE Unload \/ Join \/ UnloadLock \/ NothingToUnload \/ FinishUnload \/ UnloadThrows \/ Exit
  <2>1. UNCHANGED <<netCmd, ltQueue, posted>>
    BY <1>4 DEF Unload, Join, UnloadLock, NothingToUnload, FinishUnload, UnloadThrows, Exit, ltVars
  <2>2. PlacesLeft' < PlacesLeft
    BY <1>4 DEF Unload, Join, UnloadLock, NothingToUnload, FinishUnload, UnloadThrows, Exit,
       PlacesLeft
  <2> QED
    BY <2>1, <2>2, PlacePassed, BoundsAssumption DEF TypeOK
<1>5. CASE Signal
  <2>1. UNCHANGED <<netCmd, ltQueue, posted>> /\ pc' = "killed"
    BY <1>5 DEF Signal, ltVars
  <2>2. PlacesLeft' < PlacesLeft
    BY <2>1 DEF PlacesLeft
  <2> QED
    BY <2>1, <2>2, PlacePassed, BoundsAssumption DEF TypeOK
<1>6. ~(ReadConfig \/ StartSession \/ LoadLock \/ Load \/ Listen \/ RunAlertHandler \/ EmitLock
         \/ Emit \/ StopIo)
  BY DEF ReadConfig, StartSession, LoadLock, Load, Listen, RunAlertHandler, EmitLock, Emit, StopIo
<1> QED
  BY <1>1, <1>2, <1>3, <1>4, <1>5, <1>6 DEF MainStep

\* The steps of the network thread, whoever else is running.
LEMMA NetAdvances ==
  ASSUME TypeOK, TypeOK', NetStep \/ NetEvent
  PROVE  StepsLeft' < StepsLeft
<1>1. UNCHANGED pc
  BY DEF NetStep, NetEvent, NetDispatch, NetClear, NetSave, LtFrame, mainVars
<1>2. CASE NetEvent
  <2>1. posted' = posted + 1 /\ UNCHANGED netCmd
    BY <1>2 DEF NetEvent
  <2>2. Len(ltQueue') <= Len(ltQueue) + 1
    BY <1>2 DEF NetEvent, Post, TypeOK
  <2> QED
    BY <1>1, <2>1, <2>2, QueuesShorter DEF TypeOK
<1>3. CASE NetStep
  <2>0. netCmd # <<>> /\ netCmd' = Tail(netCmd)
    BY <1>3 DEF NetStep, NetDispatch, NetClear, NetSave, NetCall
  <2>1. Len(netCmd') = Len(netCmd) - 1 /\ UNCHANGED posted
    BY <1>3, <2>0 DEF NetStep, NetDispatch, NetClear, NetSave, TypeOK
  <2>2. Len(ltQueue') <= Len(ltQueue) + 1
    BY <1>3 DEF NetStep, NetDispatch, NetClear, NetSave, Post, TypeOK
  <2> QED
    BY <1>1, <2>1, <2>2, QueuesShorter DEF TypeOK
<1> QED
  BY <1>2, <1>3

LEMMA StopAdvances ==
  ASSUME TypeOK, TypeOK', [Next]_vars, Stopping
  PROVE  StepsLeft' < StepsLeft \/ UNCHANGED <<pc, netCmd, ltQueue, pending>>
<1>1. CASE MainStep \/ UnloadThrows \/ Signal
  BY <1>1, MainAdvances
<1>2. CASE NetStep \/ NetEvent
  BY <1>2, NetAdvances
<1>3. CASE TickerStep \/ HttpStep
  BY <1>3 DEF TickerStep, Tick, TickGoOn, TickStop, TickLock, TickEmit, HttpStep, WorkerLock,
     WorkerUnlock, mainVars, jsVars, ltVars
<1>4. CASE IoStep
  BY <1>4 DEF IoStep, Receive, ReceiveBody, mainVars, jsVars, ltVars
<1>5. CASE UNCHANGED vars
  BY <1>5 DEF vars, mainVars, jsVars, ltVars
<1> QED
  BY <1>1, <1>2, <1>3, <1>4, <1>5 DEF Next, Ended

LEMMA InitStop == Init => StopInv
<1> SUFFICES ASSUME Init PROVE StopInv
  OBVIOUS
<1>1. SafetyInv
  BY InitSafety
<1>2. HolderWorks /\ JoinInv /\ posted <= MaxEvents
  BY BoundsAssumption DEF Init, HolderWorks, JoinInv, Alive
<1> QED
  BY <1>1, <1>2 DEF StopInv

LEMMA StepStop == StopInv /\ [Next]_vars => StopInv'
BY StepSafety, HolderWorksStep, JoinStep, PostedStep DEF StopInv, SafetyInv, TypeInv

\* The invariants that the stop rests on hold whatever else the daemon does.
THEOREM StopReady == Spec => []StopInv
BY InitStop, StepStop, PTL DEF Spec

\* From the return of the io_service's loop to the end of the process nobody waits
\* for ever, and every step of main and of the network thread shortens a bounded way.
THEOREM StopEnds == Spec => StopGoesOn
<1>1. StopInv => NobodyStuck /\ StepsLeft \in Nat
  BY StopInvNobodyStuck, StepsLeftType DEF StopInv, SafetyInv, TypeInv
<1>2. StopInv /\ StopInv' /\ [Next]_vars
        => [Stopping => StepsLeft' < StepsLeft \/ UNCHANGED <<pc, netCmd, ltQueue, pending>>]_vars
  BY StopAdvances DEF StopInv, SafetyInv, TypeInv
<1> QED
  BY StopReady, <1>1, <1>2, PTL DEF StopGoesOn, Spec

-----------------------------------------------------------------------------
(* The contract *)

\* JavaScript's unload is called once, and main does not go back from there.
OnceInv == unloaded => pc \in {"saving", "complete", "exited", "killed"}

LEMMA OnceStep == OnceInv /\ [Next]_vars => OnceInv'
<1> SUFFICES ASSUME OnceInv, [Next]_vars PROVE OnceInv'
  OBVIOUS
<1> USE DEF OnceInv, Goto, mainVars, jsVars
<1>1. CASE MainStep \/ UnloadThrows \/ Signal
  BY <1>1 DEF MainStep, ReadConfig, StartSession, LoadLock, Load, Listen, RunAlertHandler,
     EmitLock, Emit, StopIo, Stop, Unload, Join, UnloadLock, NothingToUnload,
     AskForResumeData, ReadAlerts, FinishUnload, UnloadThrows, Exit, Signal, Alive, Waiting
<1>2. CASE TickerStep \/ HttpStep \/ IoStep
  BY <1>2 DEF TickerStep, Tick, TickGoOn, TickStop, TickLock, TickEmit, HttpStep, WorkerLock,
     WorkerUnlock, IoStep, Receive, ReceiveBody
<1>3. CASE NetStep \/ NetEvent \/ UNCHANGED vars
  BY <1>3 DEF NetStep, NetEvent, NetDispatch, NetClear, NetSave, LtFrame, vars
<1> QED
  BY <1>1, <1>2, <1>3 DEF Next, Ended

Inside == {t \in Threads : Alive /\ InJs(t)}

\* By the mutex a caller that is inside is alone there, and nobody is while the
\* mutex is free.
LEMMA Alone ==
  HolderInv => /\ Alive => \A t \in Threads : InJs(t) => Inside = {t}
               /\ owner = "nobody" => Inside = {}
BY DEF HolderInv, Inside, Threads

\* The same after a step.
LEMMA AloneNext ==
  HolderInv' => /\ Alive' => \A t \in Threads : InJs(t)' => Inside' = {t}
                /\ owner' = "nobody" => Inside' = {}
<1>1. (HolderInv => /\ Alive => \A t \in Threads : InJs(t) => Inside = {t}
                    /\ owner = "nobody" => Inside = {})'
  BY Alone, PTL
<1> QED
  BY <1>1

ContractInv == SafetyInv /\ OnceInv

\* Each step of main is a step of the contract or leaves its variables alone.
LEMMA ContractMain ==
  ContractInv /\ ContractInv' /\ (MainStep \/ UnloadThrows \/ Signal)
    => [Contract!Next]_(Contract!vars)
<1> SUFFICES ASSUME ContractInv, ContractInv', MainStep \/ UnloadThrows \/ Signal
             PROVE  [Contract!Next]_(Contract!vars)
  OBVIOUS
<1>1. TypeOK /\ HolderInv /\ UnloadInv /\ OnceInv /\ OrderInv /\ QueueInv
  BY DEF ContractInv, SafetyInv, TypeInv
<1>2. HolderInv'
  BY DEF ContractInv, SafetyInv
<1>3. /\ Alive => \A t \in Threads : InJs(t) => Inside = {t}
      /\ owner = "nobody" => Inside = {}
  BY <1>1, Alone
<1>4. /\ Alive' => \A t \in Threads : InJs(t)' => Inside' = {t}
      /\ owner' = "nobody" => Inside' = {}
  BY <1>2, AloneNext
<1>5. "main" \in Threads
  BY DEF Threads
<1>6. ASSUME LoadLock \/ EmitLock \/ UnloadLock PROVE Contract!Next
  <2>1. owner = "nobody" /\ Alive' /\ InJs("main")'
    BY <1>6 DEF LoadLock, EmitLock, UnloadLock, Lock, Goto, Alive, InJs
  <2>2. Inside = {} /\ Inside' = {"main"}
    BY <1>3, <1>4, <1>5, <2>1
  <2>3. ~unloaded /\ Alive
    BY <1>1, <1>6 DEF LoadLock, EmitLock, UnloadLock, Goto, OnceInv, Alive
  <2>4. Life' = Life /\ Life \in {"new", "serving"}
    BY <1>6, <2>1, <2>3 DEF LoadLock, EmitLock, UnloadLock, Life, jsVars, tickerVars
  <2>5. dispatched' = dispatched /\ delivered' = delivered
    BY <1>6 DEF LoadLock, EmitLock, UnloadLock, alertVars
  <2>6. Contract!Enter("main")
    BY <2>2, <2>4, <2>5 DEF Contract!Enter, Contract!MayEnter, Inside
  <2> QED
    BY <1>5, <2>6 DEF Contract!Next
<1>7. ASSUME Load \/ NothingToUnload \/ FinishUnload \/ UnloadThrows \/ Emit
      PROVE  Inside = {"main"} /\ Inside' = {} /\ Alive /\ Alive'
  <2>1. Alive /\ Alive' /\ InJs("main") /\ owner' = "nobody"
    BY <1>7 DEF Load, NothingToUnload, FinishUnload, UnloadThrows, Emit, Unlock, Goto, Alive, InJs
  <2> QED
    BY <1>3, <1>4, <1>5, <2>1
<1>8. ASSUME Load PROVE Contract!Next
  <2>1. ~unloaded /\ ticker = "none" /\ unloaded' = unloaded
    BY <1>1, <1>8 DEF Load, Goto, OnceInv, UnloadInv, Started
  <2>2. Life = "new" /\ Life' \in {"new", "serving"}
    BY <1>7, <1>8, <2>1 DEF Life
  <2>3. dispatched' = dispatched /\ delivered' = delivered
    BY <1>8 DEF Load, alertVars
  <2>4. Contract!Leave("main") \/ Contract!Open
    BY <1>7, <1>8, <2>2, <2>3 DEF Contract!Leave, Contract!Open, Inside
  <2> QED
    BY <1>5, <2>4 DEF Contract!Next
<1>9. ASSUME NothingToUnload \/ FinishUnload \/ UnloadThrows PROVE Contract!Next
  <2>1. Life' = Life
    BY <1>7, <1>9 DEF NothingToUnload, FinishUnload, UnloadThrows, Life, jsVars, tickerVars
  <2>2. dispatched' = dispatched /\ delivered' = delivered
    BY <1>9 DEF NothingToUnload, FinishUnload, UnloadThrows, alertVars
  <2>3. Contract!Leave("main")
    BY <1>7, <1>9, <2>1, <2>2 DEF Contract!Leave, Inside
  <2> QED
    BY <1>5, <2>3 DEF Contract!Next
<1>10. ASSUME Emit PROVE Contract!Next
  <2>1. ~unloaded
    BY <1>1, <1>10 DEF Emit, Goto, OnceInv
  <2>2. Life \in {"new", "serving"} /\ Life' = Life
    BY <1>7, <1>10, <2>1 DEF Emit, Life, jsVars, tickerVars
  <2>3. /\ ioQueue # <<>> /\ delivered' = Append(delivered, Head(ioQueue))
        /\ dispatched' = dispatched
    BY <1>1, <1>10 DEF Emit, Goto, QueueInv
  <2>4. Len(delivered) < Len(dispatched) /\ dispatched[Len(delivered) + 1] = Head(ioQueue)
    <3>1. delivered \in Seq(Alert) /\ ioQueue \in Seq(Alert) /\ dispatched = delivered \o ioQueue
      BY <1>1 DEF TypeOK, OrderInv
    <3>2. Len(ioQueue) \in Nat /\ Len(ioQueue) > 0 /\ Head(ioQueue) = ioQueue[1]
      BY <2>3, <3>1, HeadTailProperties, EmptySeq
    <3>3. Len(delivered) \in Nat /\ Len(dispatched) = Len(delivered) + Len(ioQueue)
      BY <3>1, ConcatProperties
    <3>4. dispatched[Len(delivered) + 1] = ioQueue[1]
      BY <3>1, <3>2, <3>3, ConcatProperties
    <3> QED
      BY <3>2, <3>3, <3>4
  <2>5. Contract!Emitted
    BY <1>7, <1>10, <2>2, <2>3, <2>4 DEF Contract!Emitted, Inside
  <2> QED
    BY <2>5 DEF Contract!Next
<1>11. ASSUME AskForResumeData PROVE Contract!Next
  <2>1. /\ pc = "unloadJs" /\ pc' = "saving" /\ ~unloaded /\ unloaded'
        /\ ticker' = ticker /\ ticker = "done"
    BY <1>1, <1>11 DEF AskForResumeData, Goto, OnceInv, UnloadInv, tickerVars
  <2>2. Life = "serving" /\ Life' = "saving"
    BY <2>1 DEF Life, Alive
  <2>3. InJs("main") /\ InJs("main")' /\ Alive /\ Alive'
    BY <2>1 DEF InJs, Alive
  <2>4. Inside = {"main"} /\ Inside' = {"main"}
    BY <1>3, <1>4, <1>5, <2>3
  <2>5. dispatched' = dispatched /\ delivered' = delivered
    BY <1>11 DEF AskForResumeData, alertVars
  <2>6. Contract!Save
    BY <2>2, <2>4, <2>5 DEF Contract!Save, Inside
  <2> QED
    BY <2>6 DEF Contract!Next
<1>12. ASSUME Exit \/ Signal, ~Alive' PROVE Contract!Next
  <2>1. Alive
    BY <1>12 DEF Exit, Signal, Goto, Alive
  <2>2. Life # "ended" /\ Life' = "ended" /\ Inside' = {}
    BY <1>12, <2>1 DEF Life, Inside
  <2>3. dispatched' = dispatched /\ delivered' = delivered
    BY <1>12 DEF Exit, Signal, alertVars
  <2>4. Contract!End
    BY <2>2, <2>3 DEF Contract!End, Inside
  <2> QED
    BY <2>4 DEF Contract!Next
<1>13. Exit => ~Alive'
  BY DEF Exit, Goto, Alive
<1>14. ASSUME \/ ReadConfig \/ StartSession \/ Listen \/ RunAlertHandler \/ StopIo \/ Stop
              \/ Unload \/ Join \/ ReadAlerts \/ (Signal /\ Alive')
       PROVE  UNCHANGED Contract!vars
  <2>1. Alive /\ Alive'
    BY <1>14 DEF ReadConfig, StartSession, Listen, RunAlertHandler, StopIo, Stop, Unload, Join,
       ReadAlerts, Signal, Goto, Alive, mainVars
  <2>2. /\ UNCHANGED <<ticker, worker, unloaded, dispatched, delivered>>
        /\ InJs("main")' <=> InJs("main")
    BY <1>14, <2>1 DEF ReadConfig, StartSession, Listen, RunAlertHandler, StopIo, Stop, Unload,
       Join, ReadAlerts, Signal, Goto, mainVars, tickerVars, httpVars, jsVars, alertVars, InJs,
       Alive
  <2>3. Life' = Life
    BY <2>1, <2>2 DEF Life
  <2>4. \A t \in Threads : InJs(t)' <=> InJs(t)
    BY <2>2 DEF Threads, InJs
  <2>5. Inside' = Inside
    BY <2>1, <2>4 DEF Inside
  <2> QED
    BY <2>2, <2>3, <2>5 DEF Contract!vars, Inside
<1> QED
  BY <1>6, <1>8, <1>9, <1>10, <1>11, <1>12, <1>13, <1>14 DEF MainStep

\* So is each step of the other threads.
LEMMA ContractOthers ==
  ContractInv /\ ContractInv'
    /\ (TickerStep \/ HttpStep \/ IoStep \/ NetStep \/ NetEvent \/ UNCHANGED vars)
    => [Contract!Next]_(Contract!vars)
<1> SUFFICES ASSUME ContractInv, ContractInv',
                    \/ TickerStep \/ HttpStep \/ IoStep \/ NetStep \/ NetEvent
                    \/ UNCHANGED vars
             PROVE  [Contract!Next]_(Contract!vars)
  OBVIOUS
<1>1. TypeOK /\ PoolInv /\ HolderInv /\ UnloadInv
  BY DEF ContractInv, SafetyInv, TypeInv
<1>2. HolderInv' /\ TypeOK'
  BY DEF ContractInv, SafetyInv, TypeInv
<1>3. /\ Alive => \A t \in Threads : InJs(t) => Inside = {t}
      /\ owner = "nobody" => Inside = {}
  BY <1>1, Alone
<1>4. /\ Alive' => \A t \in Threads : InJs(t)' => Inside' = {t}
      /\ owner' = "nobody" => Inside' = {}
  BY <1>2, AloneNext
<1>5. "ticker" \in Threads /\ "http" \in Threads
  BY DEF Threads
<1>6. ASSUME TickerStep \/ HttpStep
      PROVE  /\ Alive /\ Alive' /\ Life' = Life
             /\ dispatched' = dispatched /\ delivered' = delivered
  <2>1. Alive /\ UNCHANGED <<pc, unloaded, dispatched, delivered>>
    BY <1>6 DEF TickerStep, Tick, TickGoOn, TickStop, TickLock, TickEmit, HttpStep, WorkerLock,
       WorkerUnlock, mainVars, jsVars, alertVars
  <2>2. (ticker # "none") <=> (ticker' # "none")
    BY <1>6 DEF TickerStep, Tick, TickGoOn, TickStop, TickLock, TickEmit, HttpStep, WorkerLock,
       WorkerUnlock, tickerVars
  <2>3. Alive'
    BY <2>1 DEF Alive
  <2> QED
    BY <2>1, <2>2, <2>3 DEF Life
<1>7. ASSUME TickLock PROVE Contract!Next
  <2>1. ticker = "lock" /\ owner = "nobody" /\ InJs("ticker")'
    BY <1>7 DEF TickLock, Tick, Lock, InJs
  <2>2. Alive /\ Alive' /\ Life' = Life /\ dispatched' = dispatched /\ delivered' = delivered
    BY <1>6, <1>7 DEF TickerStep
  <2>3. Inside = {} /\ Inside' = {"ticker"}
    BY <1>3, <1>4, <1>5, <2>1, <2>2
  <2>4. Life = "serving"
    BY <1>1, <2>1, <2>2 DEF Life, UnloadInv
  <2>5. Contract!Enter("ticker")
    BY <2>2, <2>3, <2>4 DEF Contract!Enter, Contract!MayEnter, Inside
  <2> QED
    BY <1>5, <2>5 DEF Contract!Next
<1>8. ASSUME WorkerLock PROVE Contract!Next
  <2>1. Head(pool) \in Requests /\ pool # <<>>
    BY <1>1, <1>8 DEF WorkerLock, TypeOK
  <2>2. worker' # "idle" /\ owner = "nobody"
    BY <1>1, <1>8, <2>1 DEF WorkerLock, TypeOK, Lock
  <2>3. Alive /\ Alive' /\ Life' = Life /\ dispatched' = dispatched /\ delivered' = delivered
    BY <1>6, <1>8 DEF HttpStep
  <2>4. Inside = {} /\ Inside' = {"http"}
    BY <1>3, <1>4, <1>5, <2>2, <2>3 DEF InJs
  <2>5. Life # "ended"
    BY <2>3 DEF Life
  <2>6. Contract!Enter("http")
    BY <2>3, <2>4, <2>5 DEF Contract!Enter, Contract!MayEnter, Inside
  <2> QED
    BY <1>5, <2>6 DEF Contract!Next
<1>9. ASSUME NEW t \in {"ticker", "http"}, InJs(t), owner' = "nobody", TickerStep \/ HttpStep
      PROVE  Contract!Next
  <2>1. t \in Threads
    BY DEF Threads
  <2>2. Inside = {t} /\ Inside' = {}
    BY <1>3, <1>4, <1>6, <1>9, <2>1
  <2>3. Contract!Leave(t)
    BY <1>6, <1>9, <2>2 DEF Contract!Leave, Inside
  <2> QED
    BY <2>1, <2>3 DEF Contract!Next
<1>10. ASSUME TickEmit PROVE Contract!Next
  <2>1. InJs("ticker") /\ owner' = "nobody"
    BY <1>10 DEF TickEmit, Tick, Unlock, InJs
  <2> QED
    BY <1>9, <1>10, <2>1 DEF TickerStep
<1>11. ASSUME WorkerUnlock PROVE Contract!Next
  <2>1. InJs("http") /\ owner' = "nobody"
    BY <1>11 DEF WorkerUnlock, Unlock, InJs
  <2> QED
    BY <1>9, <1>11, <2>1 DEF HttpStep
<1>12. ASSUME TickGoOn \/ TickStop \/ IoStep \/ NetStep \/ NetEvent \/ UNCHANGED vars
       PROVE  Life' = Life /\ Inside' = Inside
  <2>1. UNCHANGED <<pc, worker, unloaded>>
    BY <1>12 DEF Tick, TickGoOn, TickStop, IoStep, Receive, ReceiveBody, NetStep, NetEvent,
       NetDispatch, NetClear, NetSave, LtFrame, mainVars, httpVars, jsVars, vars
  <2>2. /\ (ticker # "none") <=> (ticker' # "none")
        /\ (ticker = "emit") <=> (ticker' = "emit")
    BY <1>12 DEF Tick, TickGoOn, TickStop, IoStep, Receive, ReceiveBody, NetStep, NetEvent,
       NetDispatch, NetClear, NetSave, LtFrame, tickerVars, vars
  <2>3. Alive' <=> Alive
    BY <2>1 DEF Alive
  <2>4. \A t \in Threads : InJs(t)' <=> InJs(t)
    BY <2>1, <2>2 DEF Threads, InJs
  <2> QED
    BY <2>1, <2>2, <2>3, <2>4 DEF Life, Inside
<1>13. ASSUME TickGoOn \/ TickStop \/ IoStep \/ NetClear \/ UNCHANGED vars
       PROVE  UNCHANGED Contract!vars
  <2>1. dispatched' = dispatched /\ delivered' = delivered
    BY <1>13 DEF Tick, TickGoOn, TickStop, IoStep, Receive, ReceiveBody, NetClear, LtFrame,
       alertVars, vars
  <2> QED
    BY <1>12, <1>13, <2>1 DEF Contract!vars, Inside, NetStep
<1>14. ASSUME NEW s \in Seq(Alert), dispatched' = dispatched \o s, NetStep \/ NetEvent
       PROVE  Contract!Next
  <2>1. dispatched \in Seq(Alert)
    BY <1>1 DEF TypeOK
  <2>2. /\ Len(dispatched) <= Len(dispatched')
        /\ \A i \in 1..Len(dispatched) : dispatched'[i] = dispatched[i]
    BY <1>14, <2>1, ConcatProperties
  <2>3. delivered' = delivered /\ Alive
    BY <1>14 DEF NetStep, NetEvent, NetDispatch, NetClear, NetSave, NetCall, LtFrame
  <2>4. Life # "ended"
    BY <2>3 DEF Life
  <2>5. Contract!HandOver
    BY <1>12, <1>14, <2>2, <2>3, <2>4 DEF Contract!HandOver, Inside
  <2> QED
    BY <2>5 DEF Contract!Next
<1>15. ASSUME NEW a \in Alert, Post(a), NetStep \/ NetEvent PROVE Contract!Next
  <2>1. dispatched \in Seq(Alert)
    BY <1>1 DEF TypeOK
  <2>2. CASE dispatching
    <3>1. dispatched' = dispatched \o <<a>> /\ <<a>> \in Seq(Alert)
      BY <1>15, <2>1, <2>2, AppendIsConcat DEF Post
    <3> QED
      BY <1>14, <1>15, <3>1
  <2>3. CASE ~dispatching
    <3>1. dispatched' = dispatched \o <<>> /\ <<>> \in Seq(Alert)
      BY <1>15, <2>1, <2>3, ConcatEmptySeq DEF Post
    <3> QED
      BY <1>14, <1>15, <3>1
  <2> QED
    BY <2>2, <2>3
<1>16. ASSUME NetDispatch PROVE Contract!Next
  BY <1>1, <1>14, <1>16 DEF NetDispatch, NetStep, TypeOK
<1>17. ASSUME NetSave PROVE Contract!Next
  BY <1>15, <1>17 DEF NetSave, NetStep, Alert, Saved
<1>18. ASSUME NetEvent PROVE Contract!Next
  <2>1. [kind |-> "event", id |-> posted] \in Alert
    BY <1>1 DEF Alert, TypeOK
  <2> QED
    BY <1>15, <1>18, <2>1 DEF NetEvent
<1> QED
  BY <1>7, <1>8, <1>10, <1>11, <1>13, <1>16, <1>17, <1>18 DEF TickerStep, HttpStep, NetStep

\* ScriptHost implements ScriptContract, under the mapping of its INSTANCE: whatever
\* the interleaving, callers of the heap come one by one, events are emitted in the
\* order of their dispatch, and no tick and no event reaches the scripts once unload
\* has begun to save.
THEOREM Refinement == Spec => KeepsContract
<1>1. Init => Contract!Init
  <2> SUFFICES ASSUME Init PROVE Contract!Init
    OBVIOUS
  <2>1. Life = "new" /\ Inside = {} /\ dispatched = <<>> /\ delivered = <<>>
    BY DEF Init, Life, Alive, Inside, InJs, Threads
  <2> QED
    BY <2>1 DEF Contract!Init, Inside
<1>2. Init => OnceInv
  BY DEF Init, OnceInv
<1>3. Spec => []ContractInv
  <2>1. Init => ContractInv
    BY <1>2, InitSafety DEF ContractInv
  <2>2. ContractInv /\ [Next]_vars => ContractInv'
    BY StepSafety, OnceStep DEF ContractInv
  <2> QED
    BY <2>1, <2>2, PTL DEF Spec
<1>4. ContractInv /\ ContractInv' /\ [Next]_vars => [Contract!Next]_(Contract!vars)
  BY ContractMain, ContractOthers DEF Next, Ended
<1> QED
  BY <1>1, <1>3, <1>4, PTL DEF Spec, KeepsContract, Contract!Spec
=============================================================================
