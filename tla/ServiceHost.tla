---------------------------- MODULE ServiceHost -----------------------------
(***************************************************************************)
(* Hadouken as a Windows service: main(), the thread that service_host     *)
(* starts to connect to the service control manager, and the control       *)
(* handler that the manager calls on a thread of its own.                  *)
(*                                                                         *)
(* The manager is external: it takes what set_status reports, and sends a  *)
(* control only to a service that it believes to be running.               *)
(***************************************************************************)
EXTENDS Integers

VARIABLES
  pc,          \* where main() is
  result,      \* main's result
  up,          \* history: how application::start ended
  event,       \* startup_event_
  dispatcher,  \* where the thread of StartServiceCtrlDispatcher is
  handle,      \* status_handle_ is set
  status,      \* what the manager was last told
  exitCode,    \* dwWin32ExitCode in it
  control,     \* where the control handler is
  waiting,     \* async_wait's handler is registered with signals_ ...
  woken        \* ... or waits in the io_service

startVars    == <<result, up>>
startupVars  == <<event, dispatcher, handle>>
statusVars   == <<status, exitCode>>
signalVars   == <<control, waiting, woken>>
serviceVars  == <<pc, startVars, startupVars, statusVars, signalVars>>

Codes == {"ok", "failure", "timeout", "invalid"}

ServiceInit ==
  /\ pc = "initialize" /\ result = "failure" /\ up = "no"
  /\ event = "none" /\ dispatcher = "none" /\ handle = FALSE
  /\ status = "none" /\ exitCode = "ok"
  /\ control = "idle" /\ waiting = FALSE /\ woken = FALSE

Goto(from, to) == pc = from /\ pc' = to

\* Without a handle it does nothing.
SetStatus(state, code) ==
  IF handle THEN status' = state /\ exitCode' = code ELSE UNCHANGED statusVars

-----------------------------------------------------------------------------
(* main() *)

\* initialization_start: no event or no thread.
InitializationFails ==
  /\ Goto("initialize", "config")
  /\ result' = "invalid"
  /\ UNCHANGED <<up, startupVars, statusVars, signalVars>>

InitializationStart ==
  /\ Goto("initialize", "startup")
  /\ event' = "open" /\ dispatcher' = "connect"
  /\ UNCHANGED <<startVars, handle, statusVars, signalVars>>

\* WaitForSingleObject returns, for the event or after 30 seconds.
WaitForStartup ==
  /\ Goto("startup", "config")
  /\ event' = "closed"
  /\ \/ event = "set" /\ result' = "ok"
     \/ event = "open" /\ result' = "timeout"
  /\ UNCHANGED <<up, dispatcher, handle, statusVars, signalVars>>

\* A file that parses takes the place of the result of initialization_start.
ReadConfig ==
  /\ result' \in {result, "ok", "failure"}  \* missing, parsed, bad
  /\ Goto("config", IF result' = "ok" THEN "start" ELSE "complete")
  /\ UNCHANGED <<up, startupVars, statusVars, signalVars>>

\* Mutant: an exception is logged and no more.
AppStartLogged ==
  /\ Goto("start", "complete")
  /\ up' \in {"up", "failed"}
  /\ UNCHANGED <<result, startupVars, statusVars, signalVars>>

\* application::start.
AppStart ==
  /\ Goto("start", "complete")
  /\ up' \in {"up", "failed"}
  /\ result' = IF up' = "up" THEN "ok" ELSE "failure"
  /\ UNCHANGED <<startupVars, statusVars, signalVars>>

InitializationComplete ==
  /\ Goto("complete", IF result = "ok" THEN "await" ELSE "shutdown")
  /\ SetStatus(IF result = "ok" THEN "RUNNING" ELSE "STOP_PENDING", "ok")
  /\ UNCHANGED <<startVars, startupVars, signalVars>>

\* wait_for_exit: a control handled before this cancels nothing.
AsyncWait ==
  /\ Goto("await", "run")
  /\ waiting' = TRUE
  /\ UNCHANGED <<startVars, startupVars, statusVars, control, woken>>

\* Mutant: a wait that was cancelled is not taken for a signal.
WakeUnlessCancelled ==
  /\ pc = "run" /\ woken /\ woken' = FALSE
  /\ UNCHANGED <<pc, startVars, startupVars, statusVars, control, waiting>>

\* The handler of the wait: io_->stop(), and io_->run() returns.
Wake ==
  /\ woken /\ woken' = FALSE
  /\ Goto("run", "shutdown")
  /\ SetStatus("STOP_PENDING", "ok")
  /\ result' = "ok"
  /\ UNCHANGED <<up, startupVars, control, waiting>>

ShutdownStart ==
  /\ Goto("shutdown", "stop")
  /\ SetStatus("STOP_PENDING", "ok")
  /\ UNCHANGED <<startVars, startupVars, signalVars>>

\* application::stop; what it throws is caught.
AppStop ==
  /\ Goto("stop", "stopped")
  /\ UNCHANGED <<startVars, startupVars, statusVars, signalVars>>

ShutdownComplete ==
  /\ Goto("stopped", "reported")
  /\ SetStatus("STOPPED", result)
  /\ UNCHANGED <<startVars, startupVars, signalVars>>

\* main returns, and the other threads end with it.
Exit ==
  /\ Goto("reported", "exited")
  /\ UNCHANGED <<startVars, startupVars, statusVars, signalVars>>

MainStep ==
  \/ InitializationFails \/ InitializationStart \/ WaitForStartup \/ ReadConfig
  \/ AppStart \/ InitializationComplete \/ AsyncWait \/ Wake \/ ShutdownStart
  \/ AppStop \/ ShutdownComplete \/ Exit

-----------------------------------------------------------------------------
(* service_startup_threadproc and service_main *)

Dispatch(from, to) ==
  /\ pc # "exited"
  /\ dispatcher = from /\ dispatcher' = to
  /\ UNCHANGED <<pc, startVars, signalVars>>

\* The manager did not start this process, or is not there.
Unconnected == Dispatch("connect", "failed") /\ UNCHANGED <<event, handle, statusVars>>
Connect     == Dispatch("connect", "main") /\ UNCHANGED <<event, handle, statusVars>>

RegisterFails == Dispatch("main", "failed") /\ UNCHANGED <<event, handle, statusVars>>
Register == Dispatch("main", "pending") /\ handle' = TRUE /\ UNCHANGED <<event, statusVars>>

ReportPending ==
  Dispatch("pending", "signal") /\ SetStatus("START_PENDING", "ok") /\ UNCHANGED <<event, handle>>

\* It may be too late: main has closed the event.
SetEvent ==
  /\ Dispatch("signal", "serving")
  /\ event' = IF event = "open" THEN "set" ELSE event
  /\ UNCHANGED <<handle, statusVars>>

DispatcherStep ==
  Unconnected \/ Connect \/ RegisterFails \/ Register \/ ReportPending \/ SetEvent

-----------------------------------------------------------------------------
(* service_control_handler *)

\* The manager sends SERVICE_CONTROL_STOP or SHUTDOWN.
SendControl ==
  /\ pc # "exited" /\ status = "RUNNING" /\ control = "idle"
  /\ control' = "report"
  /\ UNCHANGED <<pc, startVars, startupVars, statusVars, waiting, woken>>

ReportStop ==
  /\ pc # "exited" /\ control = "report" /\ control' = "cancel"
  /\ SetStatus("STOP_PENDING", "ok")
  /\ UNCHANGED <<pc, startVars, startupVars, waiting, woken>>

\* signals_->cancel() completes the wait that there is.
Cancel ==
  /\ pc # "exited" /\ control = "cancel" /\ control' = "idle"
  /\ woken' = (woken \/ waiting) /\ waiting' = FALSE
  /\ UNCHANGED <<pc, startVars, startupVars, statusVars>>

ControlStep == ReportStop \/ Cancel

ServiceTypeOK ==
  /\ pc \in {"initialize", "startup", "config", "start", "complete", "await", "run",
             "shutdown", "stop", "stopped", "reported", "exited"}
  /\ result \in Codes /\ up \in {"no", "up", "failed"}
  /\ event \in {"none", "open", "set", "closed"} /\ handle \in BOOLEAN
  /\ dispatcher \in {"none", "connect", "main", "pending", "signal", "serving", "failed"}
  /\ status \in {"none", "START_PENDING", "RUNNING", "STOP_PENDING", "STOPPED"}
  /\ exitCode \in Codes
  /\ control \in {"idle", "report", "cancel"} /\ waiting \in BOOLEAN /\ woken \in BOOLEAN
  /\ ~(waiting /\ woken)
=============================================================================
