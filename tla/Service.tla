------------------------------- MODULE Service -------------------------------
(***************************************************************************)
(* The service and its clients: main() under service_host, whose           *)
(* io_->run() reads from the connections of the HTTP server, while the     *)
(* server's pool runs until the process is gone.                           *)
(***************************************************************************)
EXTENDS ServiceHost, HttpServer

VARIABLE engine  \* hadouken.js was evaluated: requests find authenticator and rpc

vars == <<serviceVars, httpVars, engine>>

Init == ServiceInit /\ HttpInit /\ engine \in BOOLEAN

\* What asio does within io_->run().
RunIo ==
  /\ pc = "run"
  /\ Receive \/ \E r \in Requests : Read(r)
  /\ UNCHANGED <<serviceVars, engine>>

RunPool == pc # "exited" /\ PoolStep(engine) /\ UNCHANGED <<serviceVars, engine>>
Clients == pc # "exited" /\ ClientStep /\ UNCHANGED <<serviceVars, engine>>

Host == MainStep \/ DispatcherStep \/ ControlStep
Ended == pc = "exited" /\ UNCHANGED vars

Next ==
  \/ (Host \/ SendControl) /\ UNCHANGED <<httpVars, engine>>
  \/ RunIo \/ RunPool \/ Clients \/ Ended

Spec == Init /\ [][Next]_vars

\* Each thread is scheduled, and asio gets to every connection on which bytes have
\* arrived.  The manager need not send a control, nor a client its body, nor hang up.
Fairness ==
  /\ WF_vars(MainStep /\ UNCHANGED <<httpVars, engine>>)
  /\ WF_vars(DispatcherStep /\ UNCHANGED <<httpVars, engine>>)
  /\ WF_vars(ControlStep /\ UNCHANGED <<httpVars, engine>>)
  /\ WF_vars(RunPool)
  /\ \A r \in Requests : WF_vars(/\ pc = "run" /\ \E n \in 1..unread[r] : ReadSome(r, n)
                                /\ UNCHANGED <<serviceVars, engine>>)

FairSpec == Spec /\ Fairness

-----------------------------------------------------------------------------
(* Properties *)

TypeOK == ServiceTypeOK /\ HttpTypeOK /\ engine \in BOOLEAN

\* A control that finds main waiting, or about to be woken, stops the service to the
\* end.  One that comes between SERVICE_RUNNING and async_wait cancels nothing
\* (service_host.cpp:128, 63, 76), and nothing after it does.
StopEndsService == control = "cancel" /\ waiting ~> pc = "exited"

RpcAnswers == {"result", "notFound", "serverError", "empty"}

\* Each answer is the one to the request: the methods of a body are run at most once,
\* only for a caller who may, only for the whole body as announced however the network
\* has cut it into pieces, and all of them if the answer has results.
AnswersFit ==
  \A r \in Requests :
    LET k == kind[r]
    IN /\ ran[r] > 0 => answer[r] \in {"result", "serverError"} /\ k.auth \notin {"none", "wrong"}
       /\ answer[r] \in RpcAnswers =>
            k.path = "api" /\ k.length # <<>> /\ got[r] = SizeT(Head(k.length))
       /\ answer[r] = "result" => ran[r] = Len(k.calls)
       /\ answer[r] = "notFound" => ran[r] = 0
       /\ ran[r] <= Len(k.calls)
       /\ k.auth = "none" \/ (k.auth = "wrong" /\ engine) => answer[r] \in {"none", "401"}
       /\ k.auth = "right" /\ engine => answer[r] # "401"

Announced(r) == SizeT(Head(kind[r].length))

\* The client has not sent all that it announced.
Owes(r) == stage[r] = "reading" /\ sent[r] < Announced(r)

\* The server has read more than was announced, or nothing was: what is left wraps around
\* to where no client gets (connection_handler.cpp:48), and it is never answered.
RunPast(r) == stage[r] = "reading" /\ (got[r] > Announced(r) \/ Announced(r) = 0)

\* A request that is not answered is in the end, or its connection closed, unless its
\* client owes it the rest, the service stops, or the reading has run past the end: no
\* other waits for bytes that have come already, whatever pieces they came in.
RequestsAnswered ==
  \A r \in Requests :
    stage[r] \in {"head", "reading", "data"}
      ~> (stage[r] \in {"answered", "closed"} \/ Owes(r) \/ RunPast(r) \/ pc # "run")

-----------------------------------------------------------------------------
(* The contract with the manager *)

Phase ==
  CASE pc \in {"await", "run"} -> "up"
    [] pc \in {"shutdown", "stop", "stopped"} -> "ending"
    [] pc = "reported" -> "over"
    [] pc = "exited" -> "gone"
    [] OTHER -> "starting"

Report ==
  INSTANCE StatusContract
    WITH phase <- Phase, started <- (up = "up" /\ Phase # "starting"), registered <- handle,
         pending <- dispatcher \notin {"signal", "serving"}

\* To the manager the service is StatusContract, in whatever order its three threads
\* report: it never hears of a service that runs when application::start failed or was not
\* called, nor of RUNNING twice or after a stop, and the last that it hears of main() is an
\* exit code of 0 exactly when the application had started: main keeps one result for four
\* things that can fail (main.cpp:141-207).  Only a START_PENDING that comes late follows it.
TellsTheTruth == Report!Spec

-----------------------------------------------------------------------------
(* The contract with the clients *)

\* A client sees no difference between the stages of a request that is not answered.
Place(r) == IF stage[r] \in {"head", "reading", "data"} THEN "open" ELSE stage[r]

Promise == INSTANCE RequestContract WITH place <- [r \in Requests |-> Place(r)]

\* To its clients the server is RequestContract, however the network cuts the bodies into
\* pieces, wherever the lengths wrap around and whenever the service stops.
KeepsPromise == Promise!Spec
=============================================================================
