----------------------------- MODULE ScriptHost -----------------------------
(***************************************************************************)
(* The threads of the daemon around the one Duktape heap they share: main  *)
(* (start, the io_service loop, stop), the ticker of script_host, the      *)
(* thread of the HTTP server that runs request handlers, and libtorrent's  *)
(* network thread, under the console host.                                 *)
(*                                                                         *)
(* A call into JavaScript is at least two steps, the lock of ctx_mutex_    *)
(* and the body with its unlock, so that what another thread does while a  *)
(* call waits or runs is an interleaving.  libtorrent and the HTTP         *)
(* server's thread pool are external: they are modelled from how           *)
(* application.cpp, http_server.cpp and core.js use them.                  *)
(***************************************************************************)
EXTENDS Integers, Sequences, FiniteSets

CONSTANTS MaxEvents,    \* bound: alerts libtorrent posts by itself
          MaxTorrents,  \* bound: torrents whose resume data unload must save
          Requests      \* the requests the HTTP server receives

ASSUME BoundsAssumption == MaxEvents \in Nat /\ MaxTorrents \in Nat

VARIABLES
  pc,          \* where main() is
  config,      \* what main found on reading hadouken.json
  signalled,   \* the signal_set has caught SIGINT or SIGTERM
  owner,       \* who holds ctx_mutex_
  isRunning,   \* is_running_
  ticker,      \* where script_host::tick is; "none": ticker_ is not joinable
  requests,    \* how far each HTTP request is
  pool,        \* tasks of the HTTP server's thread; it works on the first
  worker,      \* where that thread is
  hdkn,        \* the script object has its methods (emit, load, rpc, unload)
  unloaded,    \* history: JavaScript's unload was called
  pending,     \* num of saveTorrents
  netCmd,      \* calls on the session the network thread has yet to run
  dispatching, \* the session has an alert dispatch function
  ltQueue,     \* alerts in libtorrent's own queue, which getAlerts reads
  posted,      \* how many events libtorrent has posted
  ioQueue,     \* alert handlers in the io_service; main runs the first
  dispatched,  \* history: alerts given to application::alert_dispatch
  delivered    \* history: alerts whose emit has returned

mainVars   == <<pc, config, signalled>>
tickerVars == <<isRunning, ticker>>
httpVars   == <<requests, pool, worker>>
jsVars     == <<hdkn, unloaded, pending>>
ltVars     == <<netCmd, dispatching, ltQueue, posted>>
alertVars  == <<ioQueue, dispatched, delivered>>
vars == <<mainVars, owner, tickerVars, httpVars, jsVars, ltVars, alertVars>>

Threads == {"main", "ticker", "http"}
Alert   == [kind : {"event"}, id : Nat] \cup [kind : {"saved"}]

\* The answer to a saveResumeData, and how often x is in the queue q.
Saved       == [kind |-> "saved"]
Count(q, x) == Cardinality({i \in 1..Len(q) : q[i] = x})

\* The process is there until main returns or a signal kills it.
Alive == pc \notin {"exited", "killed"}

\* main is in wait_for_exit: the signal_set exists, io_->run() is on the stack.
Waiting == pc \in {"run", "emitLock", "emit"}

Init ==
  /\ pc = "config" /\ config = "unread" /\ signalled = FALSE
  /\ owner = "nobody"
  /\ isRunning \in BOOLEAN  \* the constructor leaves it uninitialised
  /\ ticker = "none"
  /\ requests = [r \in Requests |-> "unsent"] /\ pool = <<>> /\ worker = "idle"
  /\ hdkn = FALSE /\ unloaded = FALSE /\ pending = 0
  /\ netCmd = <<>> /\ dispatching = FALSE /\ ltQueue = <<>> /\ posted = 0
  /\ ioQueue = <<>> /\ dispatched = <<>> /\ delivered = <<>>

-----------------------------------------------------------------------------
(* ctx_mutex_ *)

\* Mutant: a caller goes in whoever is inside.
NoLock(t) == owner' = t

\* std::lock_guard<std::mutex> lock(ctx_mutex_), and the end of its scope.
Lock(t)   == owner = "nobody" /\ owner' = t
Unlock(t) == owner = t /\ owner' = "nobody"

\* t is between the two: the heap is in its hands.
InJs(t) ==
  \/ t = "main" /\ pc \in {"load", "emit", "unloadJs", "saving"}
  \/ t = "ticker" /\ ticker = "emit"
  \/ t = "http" /\ worker # "idle"

-----------------------------------------------------------------------------
(* main(): the start *)

Goto(from, to) == pc = from /\ pc' = to

\* Mutant: on a file that does not parse, go on with the defaults.
ReadConfigOrDefaults ==
  /\ config' \in {"missing", "parsed", "bad"}
  /\ Goto("config", "start")
  /\ UNCHANGED <<signalled, owner, tickerVars, httpVars, jsVars, ltVars, alertVars>>

\* A configuration file that does not parse skips application::start.
ReadConfig ==
  /\ \E found \in {"missing", "parsed", "bad"} :
       /\ config' = found
       /\ Goto("config", IF found = "bad" THEN "stop" ELSE "start")
  /\ UNCHANGED <<signalled, owner, tickerVars, httpVars, jsVars, ltVars, alertVars>>

\* application::start down to the call of script_host_->load.
StartSession ==
  /\ Goto("start", "loadLock")
  /\ netCmd' = Append(netCmd, "dispatch")
  /\ UNCHANGED <<config, signalled, owner, tickerVars, httpVars, jsVars, dispatching,
                 ltQueue, posted, alertVars>>

LoadLock ==
  /\ Goto("loadLock", "load")
  /\ Lock("main")
  /\ UNCHANGED <<config, signalled, tickerVars, httpVars, jsVars, ltVars, alertVars>>

\* script_host::load.  It returns before it starts the ticker when hadouken.js is
\* missing or makes a load that is no function.  When the engine could not be
\* evaluated hdkn is left without methods.  What load throws is only logged.
Load ==
  /\ Goto("load", "listen")
  /\ \/ /\ UNCHANGED <<hdkn, tickerVars>>
     \/ /\ hdkn' \in BOOLEAN
        /\ isRunning' = TRUE /\ ticker' = "test"
  /\ Unlock("main")
  /\ UNCHANGED <<config, signalled, httpVars, unloaded, pending, ltVars, alertVars>>

\* http_->start() throws when it cannot listen on the configured address.
Listen ==
  /\ \/ Goto("listen", "run")
     \/ Goto("listen", "stop")
  /\ UNCHANGED <<config, signalled, owner, tickerVars, httpVars, jsVars, ltVars, alertVars>>

-----------------------------------------------------------------------------
(* main(): io_->run() *)

\* alert_handler is called and waits for the lock in emit.
RunAlertHandler ==
  /\ ioQueue # <<>>
  /\ Goto("run", "emitLock")
  /\ UNCHANGED <<config, signalled, owner, tickerVars, httpVars, jsVars, ltVars, alertVars>>

EmitLock ==
  /\ Goto("emitLock", "emit")
  /\ Lock("main")
  /\ UNCHANGED <<config, signalled, tickerVars, httpVars, jsVars, ltVars, alertVars>>

Emit ==
  /\ Goto("emit", "run")
  /\ delivered' = Append(delivered, Head(ioQueue))
  /\ ioQueue' = Tail(ioQueue)
  /\ Unlock("main")
  /\ UNCHANGED <<config, signalled, tickerVars, httpVars, jsVars, ltVars, dispatched>>

\* The handler of signals.async_wait: io_->stop(), run() returns.  What is still
\* in the queue never runs.
StopIo ==
  /\ signalled
  /\ Goto("run", "stop")
  /\ UNCHANGED <<config, signalled, owner, tickerVars, httpVars, jsVars, ltVars, alertVars>>

\* SIGINT or SIGTERM arrives.  Outside wait_for_exit nothing catches it.
Signal ==
  /\ Alive
  /\ IF Waiting THEN signalled' = TRUE /\ UNCHANGED pc
                ELSE pc' = "killed" /\ UNCHANGED signalled
  /\ UNCHANGED <<config, owner, tickerVars, httpVars, jsVars, ltVars, alertVars>>

-----------------------------------------------------------------------------
(* main(): the stop *)

\* Mutant: app.stop() does not take the dispatch function back.
StopKeepingDispatch ==
  /\ Goto("stop", "unload")
  /\ UNCHANGED <<config, signalled, owner, tickerVars, httpVars, jsVars, ltVars, alertVars>>

\* application::stop: http_->stop() closes the acceptor but leaves the pool to its
\* tasks; set_alert_dispatch({}) is a call for the network thread.
Stop ==
  /\ Goto("stop", "unload")
  /\ netCmd' = Append(netCmd, "clear")
  /\ UNCHANGED <<config, signalled, owner, tickerVars, httpVars, jsVars, dispatching,
                 ltQueue, posted, alertVars>>

\* Mutants: unload does not join; it leaves is_running_ set; it locks, then joins.
UnloadDetached ==
  /\ Goto("unload", IF ticker = "none" THEN "complete" ELSE "unloadLock")
  /\ isRunning' = FALSE
  /\ UNCHANGED <<config, signalled, owner, ticker, httpVars, jsVars, ltVars, alertVars>>

UnloadKeepsRunning ==
  /\ Goto("unload", IF ticker = "none" THEN "complete" ELSE "join")
  /\ UNCHANGED <<config, signalled, owner, tickerVars, httpVars, jsVars, ltVars, alertVars>>

UnloadLocked ==
  /\ Goto("unload", IF ticker = "none" THEN "complete" ELSE "join")
  /\ isRunning' = FALSE
  /\ Lock("main")
  /\ UNCHANGED <<config, signalled, ticker, httpVars, jsVars, ltVars, alertVars>>

\* script_host::unload.  ticker_.join() throws when the ticker never started: main
\* catches it, and JavaScript's unload is not called.
Unload ==
  /\ Goto("unload", IF ticker = "none" THEN "complete" ELSE "join")
  /\ isRunning' = FALSE
  /\ UNCHANGED <<config, signalled, owner, ticker, httpVars, jsVars, ltVars, alertVars>>

Join ==
  /\ ticker = "done"
  /\ Goto("join", "unloadLock")
  /\ UNCHANGED <<config, signalled, owner, tickerVars, httpVars, jsVars, ltVars, alertVars>>

UnloadLock ==
  /\ Goto("unloadLock", "unloadJs")
  /\ Lock("main")
  /\ UNCHANGED <<config, signalled, tickerVars, httpVars, jsVars, ltVars, alertVars>>

\* hdkn has no unload.
NothingToUnload ==
  /\ ~hdkn
  /\ Goto("unloadJs", "complete")
  /\ Unlock("main")
  /\ UNCHANGED <<config, signalled, tickerVars, httpVars, jsVars, ltVars, alertVars>>

\* Mutant: num counts torrents that need no resume data.
CountEveryTorrent ==
  /\ hdkn
  /\ Goto("unloadJs", "saving")
  /\ unloaded' = TRUE
  /\ \E dirty \in 0..MaxTorrents :
       /\ pending' = MaxTorrents
       /\ netCmd' = netCmd \o [i \in 1..dirty |-> "save"]
  /\ UNCHANGED <<config, signalled, owner, tickerVars, httpVars, hdkn, dispatching,
                 ltQueue, posted, alertVars>>

\* core.js unload down to the loop on num: one saveResumeData, a call for the
\* network thread, for each torrent that needs it.
AskForResumeData ==
  /\ hdkn
  /\ Goto("unloadJs", "saving")
  /\ unloaded' = TRUE
  /\ \E dirty \in 0..MaxTorrents :
       /\ pending' = dirty
       /\ netCmd' = netCmd \o [i \in 1..dirty |-> "save"]
  /\ UNCHANGED <<config, signalled, owner, tickerVars, httpVars, hdkn, dispatching,
                 ltQueue, posted, alertVars>>

\* waitForAlert sees an alert and getAlerts takes them all; only the answers to
\* saveResumeData count, the others are dropped.
ReadAlerts ==
  /\ pc = "saving" /\ pending > 0 /\ ltQueue # <<>>
  /\ pending' = pending - Count(ltQueue, Saved)
  /\ ltQueue' = <<>>
  /\ UNCHANGED <<mainVars, owner, tickerVars, httpVars, hdkn, unloaded, netCmd,
                 dispatching, posted, alertVars>>

\* The loop is over and saveConfig is done.
FinishUnload ==
  /\ pending <= 0
  /\ Goto("saving", "complete")
  /\ Unlock("main")
  /\ UNCHANGED <<config, signalled, tickerVars, httpVars, jsVars, ltVars, alertVars>>

\* unload throws (fs.rename or fs.createDirectories): the lock_guard unlocks.
UnloadThrows ==
  /\ Goto("saving", "complete")
  /\ Unlock("main")
  /\ UNCHANGED <<config, signalled, tickerVars, httpVars, jsVars, ltVars, alertVars>>

\* shutdown_complete and the return from main.
Exit ==
  /\ Goto("complete", "exited")
  /\ UNCHANGED <<config, signalled, owner, tickerVars, httpVars, jsVars, ltVars, alertVars>>

-----------------------------------------------------------------------------
(* The ticker *)

Tick(from, to) ==
  /\ Alive
  /\ ticker = from /\ ticker' = to
  /\ UNCHANGED <<mainVars, isRunning, httpVars, jsVars, ltVars, alertVars>>

\* Mutant: the ticker sleeps with the mutex.
TickSleepsLocked == Tick("emit", "test") /\ UNCHANGED owner

\* while (is_running_), read without the lock; then emit("tick") and the sleep.
TickGoOn == Tick("test", "lock") /\ isRunning /\ UNCHANGED owner
TickStop == Tick("test", "done") /\ ~isRunning /\ UNCHANGED owner
TickLock == Tick("lock", "emit") /\ Lock("ticker")
TickEmit == Tick("emit", "test") /\ Unlock("ticker")

-----------------------------------------------------------------------------
(* The HTTP server *)

\* The io_service, run by main, has read a request's head: the handler is posted
\* to the pool and will ask is_authenticated.
Receive(r) ==
  /\ pc = "run" /\ requests[r] = "unsent"
  /\ requests' = [requests EXCEPT ![r] = "auth"]
  /\ pool' = Append(pool, r)
  /\ UNCHANGED <<mainVars, owner, tickerVars, worker, jsVars, ltVars, alertVars>>

\* The io_service has read the rest of its body.
ReceiveBody(r) ==
  /\ pc = "run" /\ requests[r] = "reading"
  /\ requests' = [requests EXCEPT ![r] = "rpc"]
  /\ pool' = Append(pool, r)
  /\ UNCHANGED <<mainVars, owner, tickerVars, worker, jsVars, ltVars, alertVars>>

\* The first task locks: is_authenticated for a new request, rpc for a read one.
WorkerLock ==
  /\ Alive
  /\ worker = "idle" /\ pool # <<>>
  /\ worker' = requests[Head(pool)]
  /\ Lock("http")
  /\ UNCHANGED <<mainVars, tickerVars, requests, pool, jsVars, ltVars, alertVars>>

\* Mutant: a finished task stays in the pool.
WorkerKeepsTask ==
  /\ Alive
  /\ worker # "idle" /\ worker' = "idle"
  /\ requests' = [requests EXCEPT ![Head(pool)] = "done"]
  /\ Unlock("http")
  /\ UNCHANGED <<mainVars, tickerVars, pool, jsVars, ltVars, alertVars>>

\* The call returns and its task is over.  An authenticated request for the API
\* goes on with its body: there already, which posts a new task, or still to read.
WorkerUnlock ==
  /\ Alive
  /\ worker # "idle" /\ worker' = "idle"
  /\ \/ /\ requests' = [requests EXCEPT ![Head(pool)] = "done"]
        /\ pool' = Tail(pool)
     \/ /\ worker = "auth"
        /\ requests' = [requests EXCEPT ![Head(pool)] = "rpc"]
        /\ pool' = Append(Tail(pool), Head(pool))
     \/ /\ worker = "auth"
        /\ requests' = [requests EXCEPT ![Head(pool)] = "reading"]
        /\ pool' = Tail(pool)
  /\ Unlock("http")
  /\ UNCHANGED <<mainVars, tickerVars, jsVars, ltVars, alertVars>>

-----------------------------------------------------------------------------
(* libtorrent's network thread *)

\* With a dispatch function the alert goes to alert_dispatch, which queues a
\* handler in the io_service; without one libtorrent keeps it.
Post(a) ==
  IF dispatching
    THEN /\ ioQueue' = Append(ioQueue, a)
         /\ dispatched' = Append(dispatched, a)
         /\ UNCHANGED ltQueue
    ELSE /\ ltQueue' = Append(ltQueue, a)
         /\ UNCHANGED <<ioQueue, dispatched>>

LtFrame == UNCHANGED <<mainVars, owner, tickerVars, httpVars, jsVars, delivered>>

NetEvent ==
  /\ Alive /\ posted < MaxEvents
  /\ posted' = posted + 1
  /\ Post([kind |-> "event", id |-> posted])
  /\ UNCHANGED <<netCmd, dispatching>>
  /\ LtFrame

NetCall(c) == Alive /\ netCmd # <<>> /\ Head(netCmd) = c /\ netCmd' = Tail(netCmd)

\* set_alert_dispatch(f) also hands over the alerts kept so far.
NetDispatch ==
  /\ NetCall("dispatch")
  /\ dispatching' = TRUE
  /\ ioQueue' = ioQueue \o ltQueue
  /\ dispatched' = dispatched \o ltQueue
  /\ ltQueue' = <<>>
  /\ UNCHANGED posted
  /\ LtFrame

NetClear ==
  /\ NetCall("clear")
  /\ dispatching' = FALSE
  /\ UNCHANGED <<ltQueue, posted, ioQueue, dispatched>>
  /\ LtFrame

\* save_resume_data is answered by save_resume_data(_failed)_alert.
NetSave ==
  /\ NetCall("save")
  /\ Post(Saved)
  /\ UNCHANGED <<dispatching, posted>>
  /\ LtFrame

-----------------------------------------------------------------------------
Ended == ~Alive /\ UNCHANGED vars

MainStep ==
  \/ ReadConfig \/ StartSession \/ LoadLock \/ Load \/ Listen
  \/ RunAlertHandler \/ EmitLock \/ Emit \/ StopIo
  \/ Stop \/ Unload \/ Join \/ UnloadLock \/ NothingToUnload \/ AskForResumeData
  \/ ReadAlerts \/ FinishUnload \/ Exit
TickerStep == TickGoOn \/ TickStop \/ TickLock \/ TickEmit
HttpStep   == WorkerLock \/ WorkerUnlock
IoStep     == \E r \in Requests : Receive(r) \/ ReceiveBody(r)
NetStep    == NetDispatch \/ NetClear \/ NetSave

Next ==
  \/ MainStep \/ UnloadThrows \/ TickerStep \/ HttpStep \/ IoStep \/ NetStep
  \/ NetEvent \/ Signal \/ Ended

\* Every thread is scheduled.  The strong conditions: a thread that waits for
\* ctx_mutex_ gets it some time, since the ticker sleeps a second without it on
\* each round, and the io_service does not put a caught signal off for ever.
\* Nothing forces an event, a signal, a request or an exception.
Fairness ==
  /\ WF_vars(MainStep) /\ SF_vars(EmitLock) /\ SF_vars(UnloadLock) /\ SF_vars(StopIo)
  /\ WF_vars(TickerStep) /\ SF_vars(TickLock)
  /\ SF_vars(WorkerLock) /\ WF_vars(WorkerUnlock)
  /\ WF_vars(NetStep)

Spec     == Init /\ [][Next]_vars
FairSpec == Spec /\ Fairness

-----------------------------------------------------------------------------
(* Properties *)

MainPlaces ==
  {"config", "start", "loadLock", "load", "listen", "run", "emitLock", "emit", "stop",
   "unload", "join", "unloadLock", "unloadJs", "saving", "complete", "exited", "killed"}

\* Every variable has its type; the worker, in particular, only ever takes up a
\* request that a task in the pool is for.
TypeOK ==
  /\ pc \in MainPlaces
  /\ config \in {"unread", "missing", "parsed", "bad"} /\ signalled \in BOOLEAN
  /\ owner \in Threads \cup {"nobody"}
  /\ isRunning \in BOOLEAN /\ ticker \in {"none", "test", "lock", "emit", "done"}
  /\ requests \in [Requests -> {"unsent", "auth", "reading", "rpc", "done"}]
  /\ pool \in Seq(Requests) /\ worker \in {"idle", "auth", "rpc"}
  /\ hdkn \in BOOLEAN /\ unloaded \in BOOLEAN /\ pending \in Int
  /\ netCmd \in Seq({"dispatch", "clear", "save"}) /\ dispatching \in BOOLEAN
  /\ ltQueue \in Seq(Alert) /\ posted \in Nat
  /\ ioQueue \in Seq(Alert) /\ dispatched \in Seq(Alert) /\ delivered \in Seq(Alert)

\* The Duktape heap is not thread-safe: at most one thread is ever inside it
\* (load, unload, emit, rpc and is_authenticated of script_host).
CtxExclusive == \A s, t \in Threads : InJs(s) /\ InJs(t) => s = t

\* Once JavaScript's unload is called the ticker is joined: no tick callback (the
\* plugins', postTorrentUpdates) runs on the state that is being saved.
QuietUnload == unloaded => ticker = "done"

\* A hadouken.json that main could not parse is never overwritten: saveConfig, part
\* of unload, does not run in a process whose start was refused for it.
BadConfigKept == config = "bad" => ~unloaded

\* The answer to a saveResumeData goes to the queue that saveTorrents reads, never
\* to the stopped io_service: the call that takes the dispatch function back is
\* queued for the network thread before any save.
AnswersReachUnload ==
  \A i \in 1..Len(dispatched) : dispatched[i].kind = "event"

\* In saveTorrents' loop num is exactly what is still to come: saves not yet made
\* and answers not yet read.  Otherwise it spins for ever or drops resume data.
NumIsExact ==
  pc = "saving" => pending = Count(netCmd, "save") + Count(ltQueue, Saved)

Stopping == pc \in {"stop", "unload", "join", "unloadLock", "unloadJs", "saving", "complete"}

\* Nobody waits for ever: who holds ctx_mutex_ is at work in the heap, and so waits
\* for nothing; the ticker that main joins has been told to end; and while saveTorrents
\* waits for an alert the network thread has one to post.
NobodyStuck ==
  /\ Alive /\ owner # "nobody" => InJs(owner)
  /\ pc = "join" => ticker # "none" /\ ~isRunning
  /\ pc = "saving" /\ pending > 0 /\ ltQueue = <<>> => netCmd # <<>>

\* Places that main has still to pass.
PlacesLeft ==
  CASE pc = "stop" -> 7 [] pc = "unload" -> 6 [] pc = "join" -> 5 [] pc = "unloadLock" -> 4
    [] pc = "unloadJs" -> 3 [] pc = "saving" -> 2 [] pc = "complete" -> 1 [] OTHER -> 0

\* No more than so many steps of main and the network thread are left: a call on the
\* session is run and its alert read, an event is posted and read, and a place of main
\* brings at most MaxTorrents new calls.
StepsLeft ==
  (2 * MaxTorrents + 3) * PlacesLeft
    + 2 * Len(netCmd) + Len(ltQueue) + 2 * (MaxEvents - posted)

\* The stop goes on, and its length is bounded: nobody is stuck, and whatever step main
\* or the network thread takes, an alert that comes in between too, brings the end nearer.
\* It is the safety that ShutdownCompletes rests on.
StopGoesOn ==
  /\ [](NobodyStuck /\ StepsLeft \in Nat)
  /\ [][Stopping => StepsLeft' < StepsLeft \/ UNCHANGED <<pc, netCmd, ltQueue, pending>>]_vars

\* The stop of the application ends: neither the join, nor the mutex, nor the wait
\* of saveTorrents for its alerts holds it up for ever.
ShutdownCompletes == pc = "stop" ~> ~Alive

\* A signal caught in wait_for_exit ends the process.
SignalEndsProcess == signalled ~> ~Alive

\* An alert given to alert_dispatch reaches JavaScript unless the daemon stops first.
AlertsReachJs ==
  \A n \in 1..MaxEvents :
    Len(dispatched) >= n ~> (Len(delivered) >= n \/ Stopping \/ ~Alive)

\* A request the HTTP server has accepted is answered, or waits for its client to
\* send the body: the worker never blocks on the heap for ever.
RequestsServed ==
  \A r \in Requests :
    requests[r] \in {"auth", "rpc"} ~> (requests[r] \in {"reading", "done"} \/ ~Alive)

-----------------------------------------------------------------------------
(* The contract *)

\* How far the engine is, for those who call script_host.
Life ==
  IF ~Alive THEN "ended"
  ELSE IF unloaded THEN "saving"
  ELSE IF ticker # "none" THEN "serving" ELSE "new"

Contract ==
  INSTANCE ScriptContract WITH Callers <- Threads,
                               life    <- Life,
                               inside  <- {t \in Threads : Alive /\ InJs(t)},
                               handed  <- dispatched,
                               emitted <- delivered

\* script_host with its threads, its mutex and the io_service keeps the contract:
\* callers come in one by one, events are emitted in order, and once unload saves
\* neither the ticker nor an event gets in, whatever the interleaving.
KeepsContract == Contract!Spec
=============================================================================
