# Hadouken in TLA+

Hadouken is a BitTorrent daemon: a C++ shell (start, stop, HTTP, threads) around
libtorrent and a Duktape heap, with the policy - what is saved, loaded, paused, removed,
downloaded - written in JavaScript. The specifications here cover the daemon's own
logic: the threads that share the JavaScript heap, the configuration file and what its
settings mean for the session, the files and options of the torrents, seed goals with
pausing, the engine of scripts with its feeds and watched folders, the Windows service
and the HTTP server, and the names by which scripts and native code find each other.
libtorrent, the HTTP library, the service control manager and the disk are modelled as
far as the daemon's code relies on them, and are marked external in `PROJECT.json`.

Paths below are relative to the repository (`src/...` is its C++ directory).

## 1. Inventory

| Part | State it keeps | Operations | Talks to |
|---|---|---|---|
| `src/main.cpp`, `src/application.cpp` | the parsed configuration, the result of the start | read configuration, `start`, wait, `stop` | everything, as owner |
| script host, `src/scripting/script_host.cpp` | the Duktape heap, `ctx_mutex_`, `is_running_`, `ticker_` | `load`, `unload`, `emit`, `rpc`, `is_authenticated`, `tick` | called by main, the ticker, the HTTP thread; runs `js/` |
| hosts, `src/hosting/` | signal set, service status | `wait_for_exit`, `initialization_*`, `shutdown_*` | the io_service, the SCM |
| HTTP, `src/http/` | acceptor, a pool of one thread, the body read so far | accept, authenticate, route, read a body, answer | `script_host::rpc` and `is_authenticated` |
| core, `js/core.js` | none of its own: libtorrent's session, the metadata map, the state path | alert handlers, `load`, `unload` | libtorrent, `fs` |
| metadata map, `torrent_handle_wrapper.cpp` | info hash -> key -> JSON | get, set, `_migrate` | core, RPC |
| configuration, `js/config.js` + `saveConfig` | `config`, `hadouken.json`, `hadouken.json.old` | load, get, set, save | RPC, every JavaScript module |
| RSS, `js/rss.js` | feeds with their history, `.rss_state` | load, onRss, save | libtorrent's feeds |
| events and timer | lists of callbacks | register, emit, tick | core, plugins |
| plugins, `js/plugins/` | intervals, folders, rules | tick and event callbacks | `fs`, session, HTTP client |
| RPC, `js/rpc.js`, `js/rpc/` | table of methods | handle a request, 12 methods | session, config |
| file system module | none | write, delete, rename, read, list | the disk |

How they interact:

- *Threads.* main runs `application::start`, then the io_service, then
  `application::stop`. The ticker emits `tick` once a second. The HTTP server's thread
  authenticates and runs requests. libtorrent's network thread executes asynchronous
  calls and posts alerts. The first three enter the one heap, under `ctx_mutex_`.
- *Alerts.* libtorrent gives an alert to `alert_dispatch` in its own thread; that queues
  a handler in the io_service; main runs it and enters the heap. During `unload` the
  dispatch function is gone and JavaScript reads alerts itself.
- *Commands.* Adding and removing torrents, saving resume data and taking back the
  dispatch function are queued for the network thread; `findTorrent`, `getTorrents` and
  `getStatus` wait for it.
- *Files.* Three files for each torrent, the session state, the RSS state and
  `hadouken.json`, all written in place, the last behind a rename.

What is hard here, and what makes each part correct:

| Part | Hard | Correct when |
|---|---|---|
| script host | three threads, a join inside unload, a loop on alerts inside unload | one thread in the heap; the stop always ends; alerts in order; nothing ticks during the save |
| start and stop | a refused start still runs the stop | a file that was refused is never overwritten |
| configuration | a crash inside the save; silent write errors, there and in the session state | one of the two files always parses; the last configuration is in one of them |
| torrent files | asynchronous adds and removals told of later; crashes between file operations | files follow the session; removals are final; complete files are not torn |
| settings | two files say them, saved one after the other, and one overrules the other | a setting that was asked for is in effect in later processes |
| options | kept in memory, saved only beside resume data | a torrent remembers its options (it does not, see 6) |
| seed goals, RSS, autoadd, callbacks | one failing element stops those behind it; asynchronous outcome | every element is looked at; history follows outcome |
| engine, ticks | a callback that throws takes the rest of the tick with it | what matters is reached again and again |
| service host | three threads, one result for four failures, a control that arrives too early | the manager hears the truth; a stop request stops |
| HTTP | a body in pieces, lengths that do not fit, a pool that outlives the stop | one answer for one request, run once, as a whole |
| bindings | names matched at run time | every name that is read exists |

`PROJECT.json` lists every hazard at its line, with the properties that cover it or the
reason why none does.

## 2. The modules

| Module | Models | Proofs |
|---|---|---|
| `ScriptContract` | what `script_host` promises: one caller inside, events in order, one save, nothing after it | |
| `ScriptHost` | the threads around the heap, from main's first step to its last; implements `ScriptContract` | `ScriptHost_proofs` |
| `ConfigFile` | `hadouken.json` and its backup over many processes | `ConfigFile_proofs` |
| `Settings` | a setting of the session in `hadouken.json`, `.session_state` and libtorrent; extends and implements `ConfigFile` | `Settings_proofs` |
| `TorrentStore` | the files and options of the torrents over many processes | `TorrentStore_proofs` |
| `SeedGoals` | goals, pausing and rechecks, against libtorrent's own pausing and resuming | `SeedGoals_proofs` |
| `Intake` | the way of a found torrent into the session and onto the disk; by itself (`IntakeSpec`) implemented by `Engine` and by the store | |
| `StoreIntake` | `TorrentStore` as scripts use it that find torrents, mapped to `Intake` | `TorrentStore_proofs` |
| `AutoAdd`, `RssFeeds` | the plugin `autoadd.js`; `rss.js` and `.rss_state`; both extend `Intake` | |
| `Engine` | the composition of the two with load, tick, alerts and unload of `core.js` | `Engine_proofs` |
| `ServiceHost` | main under `service_host`, the dispatcher's thread and the control handler | |
| `HttpServer` | a request from its head to its answer: `http_server`, `connection_handler`, the request handlers, `rpc.js` | |
| `StatusContract` | what the service control manager hears: running at most once, a stop that is the last report of main, an honest exit code | |
| `RequestContract` | what the server promises to each client: one fitting answer or none | |
| `Service` | the composition of host and server; implements `StatusContract` and `RequestContract` | `Service_proofs` |
| `Bindings`, `Alerts` | functions and properties of libtorrent's objects and alerts, and what the scripts use of them | |
| `MC...` | finite instances for TLC | |
| `SequenceLemmas` | facts about sequences that the proofs share | itself |

The modules meet where the code does: `ScriptHost` shows that the saves of `unload` run
once, alone, and are not reached in a process that refused its configuration;
`ConfigFile` and `TorrentStore` take a process as a phase and follow what it leaves on
the disk. `ConfigFile`'s guard on `Start` is `ScriptHost`'s `BadConfigKept`;
`TorrentStore`'s FIFO of alerts is the order in which the contract that it keeps hands
them over (`ScriptContract.Handle`); that `SaveAnswer` sees every
answer is its `NumIsExact`. `SeedGoals` and `Engine` take from `ScriptHost` that one
handler, tick or RPC method runs at a time (`CtxExclusive`), that alerts come in order,
and `Engine` that the ticker is joined before the save (`QuietUnload`). `Intake` is
`TorrentStore` with everything left out that a script which finds torrents cannot tell
apart; that is `StoreRefinesIntake`. `HttpServer` runs a call in one step because the worker holds the mutex for it.

### ScriptContract and the refinement

The contract has four variables: `life` of the engine, who is `inside`, the events
`handed` over and those `emitted`. `ScriptHost` maps to it at its end: `life` from main's
place, `inside` from the three threads' places, `handed` is `dispatched` and `emitted` is
`delivered`. A contract step is one that a caller of `script_host` can tell; everything
else (waiting for the mutex, queues, the loop on alerts, `is_running_`) is a stutter. The
mapping never looks at `owner`, so that a lock left out shows as two callers inside.
`KeepsContract` is the property of the run, `Refinement` its proof.

### ScriptHost

- `pc` is main's place: `config` (reading the file), `start`, `loadLock`/`load`,
  `listen`, `run` (inside `io_->run()`), `emitLock`/`emit` (in an alert handler),
  `stop`, `unload`, `join`, `unloadLock`, `unloadJs`, `saving` (the loop of
  `saveTorrents`), `complete`, then `exited`; `killed` by a signal nobody catches.
- `owner` is `ctx_mutex_`. Each call into the heap is a step that locks and a step that
  runs the body and unlocks, so that every other thread can act while it waits and while
  it runs. `InJs` says who is between them; `CtxExclusive` compares that with nothing
  but the threads' own places, so that a caller without a lock shows.
- `isRunning`, `ticker`: `is_running_` (left uninitialised by the constructor: any
  value) and the place of `script_host::tick`.
- `requests`, `pool`, `worker`: a request is authenticated, may have to wait for its
  body, and is run; the pool has one thread, as in the code.
- `netCmd`, `dispatching`, `ltQueue`: calls queued for libtorrent's thread, whether it
  has a dispatch function, and the alerts it keeps without one.
- `ioQueue`, `dispatched`, `delivered`: alerts on their way, and two history variables.
- `pending` is `num` of `saveTorrents`; `unloaded` is history; `config` is what main
  found on reading the file.

A start that fails (file does not parse, cannot listen, JavaScript missing) goes to the
stop like the code does; an `unload` that throws unlocks and returns.

### ConfigFile

`file` and `old` are the two files: `none`, `torn` (does not parse), `blank` (`{}`) or a
version. `phase` is the process: down, start (main has accepted the file), run, renamed
(backup made), writing (opened, so cut to nothing). `End` ends the process in any phase:
a kill, a crash, a throw before `saveConfig`, or a write that failed without a word;
what is on the disk stays. `made`, `wanted` and `blank` are history.

### TorrentStore

- `session` (absent, magnet, full), `dirty` (`need_save_resume_data`), `netCmd` and
  `ioQueue` are libtorrent's side: commands run later, in order, and are told of in
  alerts.
- `options` is the `options` key of the metadata map; `disk` the three files for each
  hash.
- A handler is one step that computes the file operations it will make (`ops`), followed
  by one `DoOp` for each; a write is two operations, the opening (which leaves a torn
  file) and the content. A `Crash` may come between any two. No other JavaScript runs
  while operations are left: they run inside the handler, under the mutex.
- A handler may meet a handle whose torrent has been removed since (`Dead`: its removed
  alert is behind it in the queue); whether libtorrent still has the object is open, so
  both outcomes are allowed.
- `Restart` is `loadTorrents`: any order of the directory; a torn `.torrent` or
  `.metadata` ends the load, and so does an empty `.resume`, for which `readBuffer` gives
  undefined and the setter of `resumeData` throws. Any part of the good ones may then have
  been added. A `.resume` that was cut short may be empty or not (`CutResumes`), and one
  that is not is ignored by libtorrent.
- `NetRefuse` is an add that libtorrent refuses; the alert has an error, which `core.js`
  logs. `loadOk` says that the last load added every torrent of the disk and that none of
  them was refused.
- `removed`, `wanted` and `readded` are history.

### SeedGoals

- `state`, `paused`, `managed` and `met` are what libtorrent holds of each torrent;
  `fresh` are the torrents whose status it will tell at the next `post_torrent_updates`.
  `netCmd` and `ioQueue` are as in the modules above. `AutoManage`, `CheckDone`,
  `Download` and `Seed` are libtorrent's own steps.
- `NetUpdate` takes a status copy of each torrent in `fresh`, in any order.
  `HandleUpdate` starts the handler of `torrent.stateUpdate`, `loop` is the copies its
  loop has not looked at, and each turn of the loop is one of the `Look` steps, with
  libtorrent's steps between them. No other JavaScript runs until the loop is over.
- `flagged` is the metadata key `_pauseAfterRecheck`; `Recheck` sets it and
  `HandleChecked` takes it. `autoManaged = false` and `pause()` are two entries of
  `netCmd`, so that libtorrent may act between them.
- The RPC methods start only when `netCmd` is empty: `findTorrent` waits for what was
  queued before it, holding the mutex.
- `goalPaused` and `rechecked` are history: what was promised to whom.
- Ratio, seeding time and the options they are compared with are one fact, `met`, which
  does not become false again.

### Settings

`style` is how a setting is loaded, one of the three ways of `core.js` and
`application.cpp`: `config || session's`, `config unless undefined`, or a service that is
started or stopped. `means` is what each version of the file says of it, `live` what
libtorrent has, `state` what `.session_state` has. `LoadSettings` first takes the
configuration, then lets the state overrule it, as `loadState` after `setSettings` does.
`saving` takes `unload` through the two saves: the session is cut, written, then
`saveConfig`'s three steps follow. `write_impl` notices neither a file that it cannot open
nor one that it cannot write: `SessionUnwritten` leaves the old state, or the torn one, and
`unload` goes on. `EndSettings` ends the process in between. `asked` is what the user has a
right to, `kept` what of it outlives a process that is cut short. A state that was left so
overrules the configuration at the next start if it says something else; what was asked is
then lost, and `asked` forgets it. If it says the same, or nothing where the configuration
says it (`Stands`), the setting has to be in effect all the same.
Every action is an action of `ConfigFile` with more said, or leaves its variables alone.

### Intake, AutoAdd, RssFeeds, Engine

- `stage` takes a torrent through `queued` (for libtorrent's thread), `held` (a URL, not
  fetched yet), `told` (its alert waits for `core.js`) and `saved` (its `.torrent` is on
  the disk). A process that ends loses all but the last; `dropped` remembers whom.
  libtorrent may refuse a queued add (`NetRefuse`); `refused` remembers that, until the
  torrent is given again.
- `at` is the callback of a tick that runs, `callbacks` timer.js' list. A look through the
  folders is many steps: one for each folder and file, and one for the deletion after the
  add, with other programs' writes between them. An exception (`Throw`) ends the tick.
  `plugins.js` catches what the load of a plugin throws, so that `updates` may be
  registered alone (`RegisterCallbacks`).
- `feeds` and `histories`: two feeds of one URL share one history array or have one each,
  as the code has it depending on the state that was loaded; `cell` says which. `Find`
  takes the first, the saved state the last. `asked` and `twice` are history.
- `LoadFails` is a load that throws before the feeds; `unload` then writes a state with no
  feeds over the old one, as the code does.

`IntakeSpec` is the way with nothing around it: torrents are given, go on from stage to
stage, and the process starts, stops and perishes. `Engine` implements it with its own
`stage`: whatever ticks, feeds, exceptions and failed loads do, they touch a torrent only
in these ways.

### StoreIntake

`UseSpec` is `TorrentStore` without the two actions that remove a torrent, with torrents
that come as files or by URL. The removals are left out because the scripts that
find torrents make none (`autoadd.js`, `rss.js`), and `Intake` has no way back from
`saved`. `StageOf` maps it: the file decides (`saved` once the `.torrent` is whole), then
the session (`told` with the info, `held` without), then the queued commands. So a
duplicated add, an add after a start from the disk, a save of resume data, and a torn
file left by a process that was killed, are steps of the way or none.

### ServiceHost, HttpServer, Service

- `pc` is main's place, `dispatcher` that of the thread that connects to the manager,
  `control` that of the control handler. `event` is the start-up event, which may be too
  late (30 seconds) or never come. `ShutdownComplete` reports `STOPPED`, and main returns in
  a step of its own (`Exit`): the other threads run until then. `waiting` is `async_wait`'s handler with the signal
  set, `woken` the same in the io_service: `signals_->cancel()` in the control handler
  moves it from one to the other if it is there.
- `kind` is what a connection asks: its Authorization, its path, the Content-Length it
  announces, the bytes it sends and the calls in its body. `left` is `connection_handler`'s
  `std::size_t`, modulo `SizeMax + 1`; a negative length becomes a large one as in the
  code. `pool` are the tasks of the pool, which is one thread; it goes on after
  `http_->stop()` until the process is gone, as nothing joins it.
- `RequestContract` has a `place` for each connection, `unsent`, `open`, `answered` or
  `closed`; waiting for the pool, reading the body and waiting for the call are all
  `open`, and `left`, `got` and `pool` have no place in it. The mapping leaves `kind`,
  `sent`, `ran` and `answer` as they are. A method run before the last piece has come, or
  run twice, or an answer to another's request is no step of it.
- `StatusContract` has one `phase`, main's; the threads, the event and the control are not
  in it. The mapping takes `phase` from `pc`, `registered` from `handle`, and `pending` from
  the dispatcher's place, because the report of `START_PENDING` may come at any time, also
  after that of `RUNNING`, and even after that of `STOPPED`, as long as the process is
  there (`over`, until it is `gone`); `started` is `up` once main has gone past the start.
  `RUNNING` twice or after a stop, anything but that late report after `STOPPED`, or an exit
  code of main's first failure is no step of it.

### Bindings, Alerts

No variables and no property of a run: the tables of names in the wrappers and the names
that the scripts use. An object has what its `initialize` registers, an alert what the
overload of its class and of the class's bases register. The `ASSUME`s at the end of
`Alerts` compare them, and TLC evaluates these with the run `engine`. `BindingsFit` lists
the names that are read in vain and the calls that lack an argument, each with its line: it
is wrong when the code gets another one, and when one is repaired.

## 3. The runs

| Run | Instance | Distinct states | Shows |
|---|---|---|---|
| `script_host` | 2 events, 2 torrents to save, 2 requests | 169 000 | five safety properties and types, all interleavings; the stop is never stuck and its length is bounded (`StopGoesOn`); the refinement of `ScriptContract` |
| `script_host_live` | 2 events, 1 torrent, 1 request, fairness | 22 000 | the stop ends, a signal ends the process, alerts and requests are served |
| `config_file` | 4 versions, symmetric, a setting of any style | 615 000 | the backup parses, one of the two parses, the last version is kept; a setting that was asked for stays in effect, unless a failed write left a state that contradicts it |
| `config_file_claim` | 2 versions | violation | the comment's safeguard does not hold |
| `torrent_store` | 2 hashes, 1 option, 4 commands, symmetric | 2.1 million | files follow the session, removals are final, a complete file is not written again and a torn one stays torn until its removal |
| `torrent_options_restart` | 1 hash, 1 option, 3 commands | violation | options are lost over an orderly stop |
| `seed_goals` | 1 torrent, 3 seed actions, 4 commands, fairness | 197 000 | a pause for the goal stays; a recheck gives a pause back, and does so in the end, and its flag does not outlive it; a goal that is met leads to a pause |
| `seed_goals_all` | 2 torrents, no commands | violation | a torrent listed behind one that is paused is never looked at |
| `seed_goals_remove` | 1 torrent, no commands | violation | the action remove removes nothing |
| `torrent_options_readd` | 1 hash, 1 option, 3 commands | violation | options are lost when a torrent is added again |
| `engine` | 2 files in 2 folders, one of them kept, 1 item, 2 URLs, 4 changes, fairness | 432 000 | nothing that was let go is lost but by a refused add or the end of a process, nothing is downloaded twice, files arrive, seed goals are looked at |
| `service` | 2 connections, 13 kinds of request, `SizeMax` 7, fairness | 222 000 | the refinement of `StatusContract`, so that the manager hears the truth; answers fit their requests, a stop stops, requests are answered |

Bounds, and why they are enough:

- `MaxEvents = 2`: two alerts are needed for one to overtake the other, and one to be
  handled while another is posted. `MaxTorrents = 2`: the loop of `saveTorrents` can
  read one answer, wait, and read the other, or both at once; no step tells a third
  apart. Two requests: one is run while the other waits in the pool or for its body. The
  liveness run has one request and one torrent: its properties speak of each on its own,
  and the safety run has their interplay.
- Four versions in `ConfigFile`: the file, the backup, the copy in memory and one that
  is none of these.
- Two hashes in `TorrentStore`: one whose torn file ends the load of the other. Four
  commands: add, remove and add again with options set in between. Starts, stops and
  crashes are not bounded.
- One torrent in `seed_goals`: its properties speak of each torrent, and the handlers
  and commands of one touch another's only through `return`, `throw` and the queue's
  order. `seed_goals_all` has the second torrent; there `GoalPauses` is false, which is
  finding 4. `MaxCommands = 4`: pause, recheck, recheck again and start. `MaxAlerts = 1`
  bounds the updates that wait behind one another: a second one would be looked at after
  the first by the same code.

- `engine`: a file that throws hides another behind it in the order of folders, so two
  folders with a file each; one keeps its files, so that the same file is added again and
  again. `MaxChanges = 4` bounds what nothing forces: writes into the folders, folders
  that go, feeds published and edited, signals, crashes, failed loads. Four are enough to
  publish an item, have it downloaded, crash or stop, and change the configuration or
  fail the load in the next process. The feeds are one, and the same twice. `Interval = 2`
  has ticks that are not due. `MaxAlerts = 1`: a second alert of a feed reads the same
  items.
- `service`: two connections, of which one asks everything and the other a page or a call
  in two pieces, so that each may wait for the pool or stand between the other's pieces.
  `SizeMax = 7` is larger than every body, as 2^64 is, and makes -1 the largest length.
- `config_file` has every combination of a style with what the file says; a crash in each
  of the two saves, in processes of any number.

Three refinements are not among the runs, as theorems of section 5 state them for every
value of the constants: `ImplementsIntake` (`StoreIntake`), `IntakeSpec` (`Engine`) and
`KeepsPromise` (`Service`).

Every property has a mutant in `PROJECT.json`, a definition of the module changed the
way a bug in the code would change it; TLC finds the property violated with it.
`CHECK_DEADLOCK` is off in two runs: in `engine`, where a load that failed leaves nothing
to do once the changes are spent, and in `service`, which waits when no client asks and
nobody stops it. `Ended` is the step for a process that is over.

## 4. Fairness

`ScriptHost`'s `FairSpec` assumes of the code's own threads:

- weak fairness of main's steps, of the ticker, of the worker's body and of the network
  thread: they are threads of the operating system and none of these steps waits;
- strong fairness of the steps that take the mutex (`EmitLock`, `UnloadLock`,
  `TickLock`, `WorkerLock`): the ticker sleeps a second without the lock on each round,
  so a thread that waits gets it some time, although `std::mutex` itself promises no
  order; `LoadLock`, taken when there is no other thread yet, has its share in main's
  weak fairness;
- strong fairness of `StopIo`: the io_service runs a handler that is ready after
  finitely many others.

Nothing forces an alert, a signal, a request, a client's body or an exception;
`UnloadThrows` is outside the fair steps, so that the end of the stop never rests on it.

`SeedGoals`' `FairSpec` has weak fairness of libtorrent's thread (`NetRun`), of the
handlers, of the timer, and of the end of a check (`CheckDone`: it is over when the
files have been read). Nothing forces libtorrent to resume, pause, download or seed, nor
the user to do anything.

`Engine`'s `FairSpec` has weak fairness of the tick (the ticker sleeps a second and calls
it again) and of libtorrent's thread, which takes each queued add but may refuse it, and strong fairness of the handler of each file's
alert, which waits for the mutex while a tick runs. It assumes nothing of downloads by
URL, of users, of other programs or of the start of a process; `UpdatesFlow` and
`FilesArrive` speak of a process that stays up, and of folders that can be read;
`FilesArrive` leaves out a file that libtorrent refuses again and again.

`Service`'s `FairSpec` has weak fairness of main, the dispatcher's thread, the control
handler once called, the pool, and of reading on each connection what has arrived there
(`ReadSome`). The manager need not send anything, nor a client its body, nor need a client
ever hang up (`ReadFails`): no request is excused by that. `RequestsAnswered` excuses one
whose client owes it bytes (`Owes`), one whose reading has run past the announced length,
or was announced as empty (`RunPast`), which the code never answers, and the stop.
`StopEndsService` therefore starts from a control
that has come to `cancel` while main waits: the code does not promise more.

`ConfigFile`, `Settings` and `TorrentStore` have no fairness: only safety is checked of
them.

## 5. Proofs

TLAPS checks the following for every value of the constants.

*ScriptHost.* `SafetyInv` is one inductive invariant, a conjunction of named parts, and
each theorem follows from it:

- `HeapExclusive` needs that `owner` names exactly the thread whose place is inside the
  heap: two threads inside would both be the owner.
- `TickerJoined` needs that main is past `join` only with `ticker = "done"` and that a
  ticker that is done stays so.
- `BadConfigUntouched` needs that the ticker of a process that refused its configuration
  was never started, so that main never gets past `unload`.
- `AnswersStay` is the deepest: in `netCmd` every save stands behind the command that
  takes the dispatch function back, and once that has run there is no dispatch function;
  before it there are no saves.
- `NumIsExact` counts. `num` is the saves still queued, the answers libtorrent keeps and
  the one being read. `NumInv` adds that before the loop no answer is there, which an
  answer to nobody would be. The number of the elements of a queue with a property is
  the size of the set of their places (`Count`); what `Append`, `Tail` and an added queue do
  to it are lemmas about finite sets, and need no induction over the queue.

`StopEnds` is the safety that the liveness of the stop rests on. `StopInv` adds to
`SafetyInv` that whoever holds the mutex is at work in the heap, and so waits for nothing
(`HolderWorks`), and that the ticker which main joins was started and has been told to
end (`JoinInv`). So nobody is stuck; in the loop of `saveTorrents` this
is `NumInv` again: if an answer is missing and none is there, a save is still queued
(`SomeAnswerComes`). `StepsLeft` is a natural number, of main's places to go, the saves
and answers queued and the alerts that may still come, which every step of the
stop, by main or by the network thread, makes smaller; the steps of the other threads
leave main's place, the calls, the answers and `num` alone. What is left to fairness is
that a thread that can go on does. `MaxEvents`, in it, is the model's bound on events:
nothing is said of a session that goes on posting alerts for ever.

The refinement (`Refinement`) needs `SafetyInv` too: that a thread which enters finds
nobody inside is `CtxExclusive`'s argument, and that the event emitted is the next one
handed over is `OrderInv`'s. Each action of `ScriptHost` is shown to be one action of
the contract, or to leave its four variables as they are.

*ConfigFile.* `ConfigInv`: a running process never has a torn file, except while it
writes it, so that what is moved over the backup parses (`BackupAlwaysParses`); after
the rename the backup parses or nothing was wanted (`OneAlwaysParses`); and unless a
process started from a missing file, the wanted version is the file, the copy to be
written or the backup (`LastConfigKept`).

*Settings.* `StepIsConfig`: every step of `Settings` is a step of `ConfigFile` or leaves
its variables alone; `SettingsRefine` follows, and with it `ConfigFile`'s theorems hold
here. `SettingsInv` adds what the two files say of the setting. Between two processes they
yield what was asked and nothing else (`DownInv`); a process has it, and its copy of the
configuration gives it, except 0 and false where `||` loses them (`RunInv`); the state that
is left when the session was saved, or was not, has that and contradicts nothing
(`SavedInv`), so that the write of the configuration, which comes last, completes the two.
A process that began no save leaves what `kept` says.

*TorrentStore.* `StoreInv` is about the operations a handler still has to make, and
about removed torrents:

- `FreshInv`: one that tears a `.torrent` file is the first of its handler, and the file
  does not exist. From it `CompleteNeverRewritten`: no step opens a complete `.torrent`
  again, and none but its deletion changes a torn one.
- `DeleteInv`: a handler that deletes does nothing else, and as long as the `.torrent`
  is there its deletion is the next operation. So when any file of a torrent is deleted,
  the `.torrent` is gone too.
- `RemovedInv`, with `DeleteInv` the argument of `RemovalsFinal`: of a removed torrent
  nothing is in the session, on the disk or in a queue, and no handler is about to write
  its `.torrent`. Every alert and every command concerns a torrent that is pending,
  hence not removed; a start adds only torrents that have a `.torrent`. An add takes the
  torrent out of `removed`.
- `MetadataInv`: a `.metadata` never holds another file's content. `StoreTypes`, type
  correctness, needs it for the options that a start takes from the disk.

`FilesInv` adds, for each torrent by itself, what the queues promise (`TorrentInv`), and
that a process which is down has nothing in memory:

- `SavedInv`: with the info known, an alert that has the torrent saved waits and no
  removal stands behind it (`Waits`), or no removal waits at all and the file is there,
  or about to be, and not about to go. A save that finds the handle dead is made up for
  by the add that came after the removal; this is `TorrentsPersist`.
- `GhostInv`: a `.torrent` that is there or about to be is of a torrent in the session, or
  its removal waits or is under way, or the first command about it brings it with its
  info (`Comes`). A start that loads everything establishes the last one: the order it
  adds in is an injection of as many numbers as there are files, so it misses none
  (`CompleteLoad`). An add that is refused leaves no `Comes` behind, and `loadOk` says so
  if the file is there. `NothingComesBack` is what is left when nothing waits.
- `AssignedInv`: a torrent of the session has options, or the alert that assigns them waits
  with no removal behind it (`AllHaveOptions`).

Alerts join the queue at its end and leave it at its head; `JoinedQueue`, `GoneTail` and
`WaitsTail` say what that does to `Waits` and to the removals.

*StoreIntake.* `StoreRefinesIntake`: every step of the store as scripts use it is one
step of the way or none. `UseInv` is `FilesInv` with what the missing removals give: only
adds are queued, each with the info its script has or of a torrent that is on the disk
(`AddsInv`), no removed alert waits (`StaysInv`), and a `.torrent` is written only by a
running process, for a torrent whose info the session has (`WriteInv`). The last
makes the second half of a write the step from `told` to `saved`, and the opening before
it a stutter; by `FilesInv` a start adds only torrents whose file is whole, which the
mapping has as `saved` whether the load gets to them or not.

*SeedGoals.* `GoalsInv` follows a pause from the handler into libtorrent:

- `GoalInv`: of a torrent paused for its goal, either both commands still wait, one
  behind the other; or it is unmanaged and the pause comes next; or it is paused and
  unmanaged. In each case no command behind would run it again (`Calm`). With the two
  commands in the other order there is no such middle state: libtorrent still manages
  the torrent when it is paused. `GoalPausesStay` is the case with no commands left.
- `RecheckInv`: a torrent that was paused before its recheck stays unmanaged, and is
  paused, or has its flag and a check that is queued, under way or not yet told of, or
  has a pause queued that no resume follows. `RechecksKeepPause` follows, with `FlagInv`
  for its other half: a flag stands for a check that is queued, under way or not yet told
  of, so that none is left for a later check.
- `News`: a torrent that is due is known to libtorrent as changed, or a copy that shows it
  as due waits in an update or in the loop, or a pause for it waits. Only then can the
  handler still find it; without it it is forgotten (`GoalMissed`). Libtorrent makes a
  torrent news whenever it changes it, and a look either pauses a due torrent or ends the
  loop; so a torrent becomes forgotten in one way only, when the loop ends at the copy of
  another (`MissedByOthersOnly`). `CopiesInv`, that an update has one copy of a torrent, is
  needed for the tail of the list: a look at a copy takes no second one of the same torrent
  with it. With one torrent there is no other (`GoalOfOneNotMissed`), which is why
  `GoalPauses` holds in `seed_goals` and not in `seed_goals_all`.

The steps are sorted by what they do to the queue: the network thread takes a command
(`TakeSteps`), somebody adds commands (`GoalMore`, `RecheckMore`), or neither
(`QuietStep`). `GoalTypes` is type correctness.

*Engine.* `EngineInv` is the types with two facts.

- `LostInv`: a torrent that was let go - its file deleted or about to be, its item in a
  history of this process or of `.rss_state` - is somewhere on its way, or was dropped, or
  its last add was refused. `NoTorrentLost` is the part of it that is already let go: the
  two exceptions are the ways in which the code does lose a torrent, and there is no third.
- `AskedInv`: an item that a history must still have is in it, through loads, shared
  arrays and the state's two writes; so what a feed asks for is new (`NoItemTwice`). It
  needs the first feed with a URL, and the last: that such an index exists follows from
  the size of a finite set of indices and its subsets (`LeastIndex`, `GreatestIndex`),
  as induction is not at hand.

`EngineKeepsTheWay`: each action of the engine is a step of `IntakeSpec` or leaves its
four variables alone. With `StoreRefinesIntake` this is why `Engine` may stand for the
composition of the scripts with the store: they agree on what lies between them.

`TickComesToUpdates` is about a tick that has begun. `TickLeft` counts its steps: of each
folder the opening, of each listed file the look and the deletion, of each callback its
end. A folder is listed once, so that a look gets shorter with each step although other
programs write into the folder meanwhile (`ScanStep`); `AtRest`, that nothing of a look is
left once it is over, is the invariant it needs, and what an exception in the middle could
break. So a tick ends; and it ends with `postTorrentUpdates`, at a file that is no torrent,
or with the process.

*Service.* `ServiceInv` is a conjunction for each half. `HostInv` relates main's place and
its `result` with what the manager was told: `up` is decided once, before `RUNNING` can be
reported, and the exit code comes from `result`, which is `ok` only then; a control is
under way, or `RUNNING` the last report, only while main waits, and one that has woken main
is over, so that none reports after `STOPPED`; a handle is there just when the dispatcher's
thread is past the registration. `ManagerIsToldTheTruth` is the refinement of
`StatusContract`: a step of main, the dispatcher or the control handler is a report that the
contract has in this phase, or none. That the dispatcher's `START_PENDING` may still come
when main has said `STOPPED` is in the contract, for it is in the code. `HttpInv` follows each connection: between two reads
`got` and `left` add up to the announced length modulo the width, a task in the pool
belongs to one connection in a stage that allows it, and nothing has been run before the
whole body is there (`EachAnswerFits`).

`ServiceKeepsPromise`: the server implements `RequestContract`. A call is run when `left`, a
`std::size_t`, is 0; that what was read then adds up to what was announced, modulo the
width, is carried through the pieces by `ServiceInv` (`SizeMinus`: subtracting twice and
wrapping around twice is doing each once). `OneTask` is said of the pool itself: a connection has a task in the pool just when its head or
its body waits for it, and never two, so that nothing is run or answered twice
(`EachHasOneTask`).

Three theorems are what the liveness of this module needs of the code. `CountInv` adds to
`ServiceInv` that every byte a client has sent is in the body, in the chunk at hand or
unread, and that nothing is read on when nothing is left, but for a length of 0. So a
connection that reads with nothing there has had less than was announced, and waits for its
client, or more, and will wait for ever (`RunPast`); had it just that, `left` would be 0 and
the call would have been run (`NoneStranded`). A body as long as announced is never read
past, for nothing more is sent. `Debt` is a number that no
step makes larger and every step of a request's own makes smaller (`EachTurnCounts`). The wait that
main registers is there, or woken, exactly as long as main runs; only a control takes it
away, and that wakes main; and main's steps go one way (`WaitIsKept`).

Only model-checked:

- all liveness: `ShutdownCompletes`, `SignalEndsProcess`, `AlertsReachJs`,
  `RequestsServed`, `RecheckRestores`, `GoalPauses`, `UpdatesFlow`, `FilesArrive`,
  `StopEndsService`, `RequestsAnswered`. The provers have neither fairness nor `ENABLED`.
  The part without them is proved of the stop (`StopEnds`), of the goals
  (`MissedByOthersOnly`, `GoalOfOneNotMissed`), of the tick (`TickComesToUpdates`), of the
  requests (`EachHasOneTask`, `NoneStranded`, `EachTurnCounts`) and of the service's stop
  (`WaitIsKept`).

The assumptions on constants are `BoundsAssumption` (bounds are natural numbers),
`VersionsAssumption`, `NamesAssumption` (a version or an option is none of the marks for
missing and torn files), `HashesAssumption` and `TorrentsAssumption` (finitely many info
hashes and torrents), `ActionsAssumption` (what a seed action may be), `BoundAssumption`
and `ChangesAssumption`, `FoldersAssumption`, `IntervalAssumption` and `FeedsAssumption`
(what may be configured), `SizeAssumption` and `KindsAssumption` (what clients may ask: no
body is longer than `std::size_t` can say); TLC evaluates them, with those of `Alerts`, on
which no theorem rests.

## 6. Disagreements found

1. `saveConfig`'s comment (`js/core.js:404-406`) promises a safeguard against failures.
   Killed between the rename and the write, the daemon starts from `{}` the next time
   and, two orderly stops later, has replaced the good backup too; nothing reads the
   backup. Run `config_file_claim`.
2. "Each torrent remembers its own options" (`docs/src/configuration.rst:159`). Options
   reach the disk only beside resume data (`js/core.js:347`), so that options set on an
   idle torrent are lost over an orderly stop. Run `torrent_options_restart`.
3. The same sentence, when a torrent is added a second time: its options become the
   default ones (`js/core.js:69`). Run `torrent_options_readd`.
4. "Each torrent in Hadouken can be paused or removed when it reaches the user-specified
   seed goals" (`docs/src/configuration.rst:151-152`). The loop over the updates returns
   at the first torrent that is not finished or is paused (`js/core.js:143`). Run
   `seed_goals_all`.
5. The same sentence, for the action `remove`: the call lacks an argument that the
   binding requires (`js/core.js:165`, `session_wrapper.cpp:332`) and throws. Run
   `seed_goals_remove`.

Read in the code, but not the subject of a run:

- Options and seed goals: without options the action is `pause` (`js/core.js:156`), where
  the manual says that "no action is configured" (`configuration.rst:152-153`).
- Names: `status.queuePosition` (`webui_list.js:47`) is a property of the handle, not of
  the status, so that the list never has it; `enableOutgoingUtp` and `enableIncomingUtp`
  (`core.js:303-304`, `webui_setSettings.js:117-118`) are no settings of the binding, so
  that uTP cannot be configured; `e.error.code` (`core.js:64`) is undefined in the log, as
  the error's number is called `value` (`error_code_wrapper.cpp:13-17`). `file_renamed_alert` and the port mapping alerts put
  properties over the alert's own `name` and `type` (`alert_wrapper.cpp:234`). The alerts
  without a case in `construct` (`alert_wrapper.cpp:79-102`) reach JavaScript as null.
  `eventFilter` (`bittorrent.js:70`) is not called; `|| true` (97) makes sparse storage
  unconditional. The events of storage moves have other names in the manual than in
  `eventMap`.
- Folders: the manual says that autoadd monitors a list of directories; at the first that
  is missing it returns (`autoadd.js:65`), and a file that is no torrent makes it throw
  each time, before the seed goals of that tick. A folder that keeps its files has them
  added every interval, which assigns the default options again (`core.js:69`).
- Feeds: two feeds with one URL have each their history in the first process; the first
  is the one that is looked up and the last the one that is saved, so that the first's is
  lost. From the next start on they share one, if the state has it.
- Settings: 0 and false in `hadouken.json` count as not configured for the settings that
  are read with `||` (`core.js:287-306`). What `.session_state` has overrules an edit of
  `hadouken.json` (`docs/src/configuration.rst:8` describes the file as the
  configuration). The check of `bind_port` (`webui_setSettings.js:10-12`) does nothing. An
  empty `.session_state`, left by a crash in its write, makes every later load throw
  before the torrents. A write of `.session_state` that fails is not noticed
  (`file_system_module.cpp:51-66`): the old state then overrules the settings that
  `saveConfig` saves next.
- Torrents: an empty `.resume`, left by a crash in its write, ends every later load at that
  torrent (`core.js:229`). One that libtorrent refuses at a start keeps its file and is
  may be refused again each time.
- Intake: an item enters the history, and a watched file is deleted, when the add is queued
  (`rss.js:117`, `autoadd.js:46`): if libtorrent refuses it, nothing tries again.
- Service: a start-up that is reported after the 30 seconds sets the status back to start
  pending, and the manager then sends no control; it may be reported even after `STOPPED`,
  and is then the last that the manager hears; the result of an `initialization_start`
  that failed is overwritten by a configuration that parses (`main.cpp:160`).
- HTTP: a Content-Length of 0, or smaller than the body that is sent, is never answered;
  a call without one is closed unanswered. An unknown method in `core.multiCall` fails the
  whole call after the ones before it have run. `is_authenticated`'s result is not
  initialised when the authenticator throws or is missing (`script_host.cpp:277`); the
  model allows both.
- Web UI: `webui.getPeers` has the same condition for `d` as for `D`;
  `webui.getProperties` throws when the trackers skip a tier; `webui.perform` names an
  undefined variable when a hash is unknown (`webui_perform.js:74`).

## 7. Not modelled, and why

- Vendored code: Duktape (`duktape.c`, `duktape.h`) and `miniz.c` are not the daemon's
  own. They are 92 % of the lines of the implementation files; of the rest, the map
  covers about half.
- Logging, platform paths, daemonizing, the command line, the installers: no state that a
  property could be about.
- The bencoding, HTTP client, logger and process modules, and how one call of a wrapper
  copies its values: one synchronous call each, without state of its own. The names and
  arguments of the wrappers are in `Bindings` and `Alerts`.
- The plugins autolabel, automove, launcher, pushbullet and pushover: a reaction to one
  event without state of its own; what they read is in `Alerts` and `Bindings`.
- Within the modelled parts: torrents added by the URL of a `.torrent` (their hash
  changes, `_migrate`), labels and tags, I/O errors of the torrent files other than
  crashes, queue positions, seed goals as numbers, a Content-Length that is no number and
  a body that is no JSON, https, the destruction of `application` while the HTTP thread
  still runs.

## 8. Plan

Done, in the order of what costs users most (a heap corrupted or a stop that hangs; the
configuration; the torrents; their seeding; what finds them; who asks): `ScriptHost` with
`ScriptContract`, `ConfigFile` with `Settings`, `TorrentStore`, `SeedGoals`, `Engine` with
`AutoAdd` and `RssFeeds`, `Service` with `ServiceHost` and `HttpServer`, `Bindings` with
`Alerts`; safety proved of all but what section 5 lists; the store and the engine against
`Intake`, the server against `RequestContract`, the service against `StatusContract`; the
safety half of most of the liveness.

What remains within reach: `_migrate` with the labels of a torrent that is added again;
`SeedGoals`' queue against the one of `TorrentStore`.
