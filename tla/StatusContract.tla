-------------------------- MODULE StatusContract ---------------------------
(***************************************************************************)
(* What the service control manager hears of Hadouken, without the threads *)
(* that tell it: SERVICE_RUNNING at most once, and only when the           *)
(* application has started; from the first STOP_PENDING of main() on       *)
(* nothing but that; SERVICE_STOPPED once, the last report of main(), with *)
(* an exit code of 0 exactly when it had started.  Before a control        *)
(* handler is registered it hears nothing.  START_PENDING comes once, and  *)
(* may come at any time after that, and even after SERVICE_STOPPED: main() *)
(* does not wait for it longer than 30 seconds.  Service implements it.    *)
(***************************************************************************)

VARIABLES
  phase,       \* the life of the service, as main() decides on it
  started,     \* it ran
  registered,  \* the manager takes reports
  pending,     \* START_PENDING is still to come
  status,      \* what the manager was last told
  exitCode     \* dwWin32ExitCode in it

vars == <<phase, started, registered, pending, status, exitCode>>

Init ==
  /\ phase = "starting" /\ started = FALSE
  /\ registered = FALSE /\ pending = TRUE
  /\ status = "none" /\ exitCode = "ok"

Hears(state, code) ==
  IF registered THEN status' = state /\ exitCode' = code ELSE UNCHANGED <<status, exitCode>>

Registers ==
  /\ phase # "gone" /\ pending /\ ~registered /\ registered' = TRUE
  /\ UNCHANGED <<phase, started, pending, status, exitCode>>

Pends ==
  /\ phase # "gone" /\ pending /\ registered /\ pending' = FALSE
  /\ Hears("START_PENDING", "ok")
  /\ UNCHANGED <<phase, started, registered>>

Runs ==
  /\ phase = "starting" /\ phase' = "up" /\ started' = TRUE
  /\ Hears("RUNNING", "ok")
  /\ UNCHANGED <<registered, pending>>

\* It could not start, or it is asked to stop, or goes on stopping.
Stops ==
  /\ \/ phase \in {"starting", "ending"} /\ phase' = "ending"
     \/ phase = "up" /\ phase' \in {"up", "ending"}
  /\ Hears("STOP_PENDING", "ok")
  /\ UNCHANGED <<started, registered, pending>>

Ends ==
  /\ phase = "ending" /\ phase' = "over"
  /\ \E code \in {"ok", "failure", "timeout", "invalid"} :
       (code = "ok") = started /\ Hears("STOPPED", code)
  /\ UNCHANGED <<started, registered, pending>>

\* The process is there for a while after its last word.
Goes ==
  /\ phase = "over" /\ phase' = "gone"
  /\ UNCHANGED <<started, registered, pending, status, exitCode>>

Next == Registers \/ Pends \/ Runs \/ Stops \/ Ends \/ Goes

Spec == Init /\ [][Next]_vars
=============================================================================
