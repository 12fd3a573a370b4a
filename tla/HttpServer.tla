----------------------------- MODULE HttpServer -----------------------------
(***************************************************************************)
(* The way of a request through http_server.cpp, connection_handler.cpp,   *)
(* the request handlers and rpc.js.  The io_service, run by main(), reads  *)
(* from the connections; the handlers run one after the other on the       *)
(* thread of the pool.                                                     *)
(*                                                                         *)
(* cpp-netlib, which does the reading and the writing, is external.  A     *)
(* request is what decides on its answer: whether its Authorization header *)
(* is the configured one, what http.root and the handlers' expressions     *)
(* make of its path, the length that it announces, the calls in its body.  *)
(***************************************************************************)
EXTENDS Integers, Sequences, FiniteSets

CONSTANTS Requests,  \* the connections
          Kinds,     \* what the client of each may ask, see Kind
          SizeMax    \* the largest std::size_t

\* A body is a call of rpc.js or, with multi, of core.multiCall with these methods.
Kind == [auth   : {"none", "right", "wrong", "malformed"},
         path   : {"/", "outside", "other", "guiFile", "guiMissing", "api"},
         length : Seq(Int),  \* the Content-Length headers, of which the first counts
         body   : Nat,       \* the bytes that the client sends
         multi  : BOOLEAN,
         calls  : Seq({"ok", "throws", "unknown"})]

\* The length is parsed before it is converted; no client sends 2^64 bytes.
ASSUME SizeAssumption  == SizeMax \in Nat
ASSUME KindsAssumption ==
  /\ Kinds \in [Requests -> (SUBSET Kind) \ {{}}]
  /\ \A r \in Requests : \A k \in Kinds[r] : k.body <= SizeMax

VARIABLES
  kind,    \* what each connection asks; arbitrary before its head is read
  stage,   \* how far it is
  pool,    \* the tasks of the pool: the connections that they are for
  unread,  \* bytes that the client has sent and nobody has read
  sent,    \* bytes that it has sent
  chunk,   \* bytes that the last read gave
  left,    \* what connection_handler still wants
  got,     \* bytes in body_
  ran,     \* history: methods that were run for it
  answer   \* what was written to it

bodyVars == <<unread, sent, chunk, left, got>>
httpVars == <<kind, stage, pool, bodyVars, ran, answer>>

Zero == [r \in Requests |-> 0]

HttpInit ==
  /\ kind = [r \in Requests |-> CHOOSE k \in Kinds[r] : TRUE]
  /\ stage = [r \in Requests |-> "unsent"] /\ pool = <<>>
  /\ unread = Zero /\ sent = Zero /\ chunk = Zero /\ left = Zero /\ got = Zero
  /\ ran = Zero /\ answer = [r \in Requests |-> "none"]

\* Mutant: the length stays an int.
IntLength(n) == n

SizeT(n) == n % (SizeMax + 1)

-----------------------------------------------------------------------------
(* The network *)

\* The head of a request has been read: http_server's operator() is posted.
ReceiveHead(r, k) ==
  /\ stage[r] = "unsent"
  /\ kind' = [kind EXCEPT ![r] = k]
  /\ stage' = [stage EXCEPT ![r] = "head"]
  /\ pool' = Append(pool, r)
  /\ UNCHANGED <<bodyVars, ran, answer>>

\* The client sends on.
SendBody(r, n) ==
  /\ stage[r] \in {"head", "reading", "data"}
  /\ n > 0 /\ sent[r] + n <= kind[r].body
  /\ sent' = [sent EXCEPT ![r] = @ + n] /\ unread' = [unread EXCEPT ![r] = @ + n]
  /\ UNCHANGED <<kind, stage, pool, chunk, left, got, ran, answer>>

\* connection->read gives some of what is there, whatever length is still wanted.
ReadSome(r, n) ==
  /\ stage[r] = "reading" /\ n \in 1..unread[r]
  /\ chunk' = [chunk EXCEPT ![r] = n] /\ unread' = [unread EXCEPT ![r] = @ - n]
  /\ stage' = [stage EXCEPT ![r] = "data"]
  /\ pool' = Append(pool, r)
  /\ UNCHANGED <<kind, sent, left, got, ran, answer>>

\* The client has closed the connection: read_complete has an error to log.
ReadFails(r) ==
  /\ stage[r] = "reading" /\ unread[r] = 0
  /\ stage' = [stage EXCEPT ![r] = "closed"]
  /\ UNCHANGED <<kind, pool, bodyVars, ran, answer>>

-----------------------------------------------------------------------------
(* The handlers.  engine: hadouken.js has given the script object its methods. *)

Task(r) == pool # <<>> /\ Head(pool) = r /\ pool' = Tail(pool)

Write(r, what) ==
  /\ answer' = [answer EXCEPT ![r] = what] /\ stage' = [stage EXCEPT ![r] = "answered"]

\* is_authenticated leaves its result uninitialised when there is no authenticator,
\* and when it throws, as on a header with no second part.
Authentic(k, engine) ==
  IF k.auth = "none" THEN {FALSE}
  ELSE IF k.auth = "malformed" \/ ~engine THEN BOOLEAN ELSE {k.auth = "right"}

Unauthorized(r, engine) ==
  /\ Task(r) /\ stage[r] = "head"
  /\ FALSE \in Authentic(kind[r], engine)
  /\ Write(r, "401")
  /\ UNCHANGED <<kind, bodyVars, ran>>

\* process_request, but for the API.  /gui looks in the zip archive or the folder.
Pages ==
  [path \in {"/", "outside", "other", "guiMissing", "guiFile"} |->
     CASE path = "/" -> "301" [] path = "guiFile" -> "200"
       [] path \in {"outside", "other", "guiMissing"} -> "404"]

ServePage(r, engine) ==
  /\ Task(r) /\ stage[r] = "head"
  /\ TRUE \in Authentic(kind[r], engine) /\ kind[r].path \in DOMAIN Pages
  /\ Write(r, Pages[kind[r].path])
  /\ UNCHANGED <<kind, bodyVars, ran>>

\* connection_handler's operator(): without a Content-Length nobody holds the
\* connection any more, which closes it.  A length below 0 becomes a large one.
StartReading(r, engine) ==
  /\ Task(r) /\ stage[r] = "head"
  /\ TRUE \in Authentic(kind[r], engine) /\ kind[r].path = "api"
  /\ IF kind[r].length = <<>>
       THEN stage' = [stage EXCEPT ![r] = "closed"] /\ UNCHANGED left
       ELSE /\ stage' = [stage EXCEPT ![r] = "reading"]
            /\ left' = [left EXCEPT ![r] = SizeT(Head(kind[r].length))]
  /\ UNCHANGED <<kind, unread, sent, chunk, got, ran, answer>>

\* The methods that are run: all up to the first that throws, or that a multiCall
\* does not know, for which it throws itself.
Runs(k) ==
  Cardinality({i \in 1..Len(k.calls) :
                 k.calls[i] # "unknown" /\ \A j \in 1..(i - 1) : k.calls[j] = "ok"})

\* handleRequest.  An exception leaves nothing of the results.
Reply(k) ==
  CASE \A i \in 1..Len(k.calls) : k.calls[i] = "ok" -> "result"
    [] ~k.multi /\ k.calls = <<"unknown">>          -> "notFound"
    [] OTHER                                        -> "serverError"

\* read_complete, when it has not got all.  What was read beyond the length makes
\* left wrap around, and it reads on.
ReadOn(r) ==
  /\ Task(r) /\ stage[r] = "data" /\ SizeT(left[r] - chunk[r]) > 0
  /\ left' = [left EXCEPT ![r] = SizeT(@ - chunk[r])]
  /\ got' = [got EXCEPT ![r] = @ + chunk[r]]
  /\ stage' = [stage EXCEPT ![r] = "reading"]
  /\ UNCHANGED <<kind, unread, sent, chunk, ran, answer>>

\* Mutants: the first chunk is the body; it is read on until nothing comes any more.
FirstChunk(r, engine) ==
  /\ Task(r) /\ stage[r] = "data"
  /\ got' = [got EXCEPT ![r] = @ + chunk[r]] /\ left' = [left EXCEPT ![r] = 0]
  /\ ran' = [ran EXCEPT ![r] = Runs(kind[r])]
  /\ Write(r, Reply(kind[r]))
  /\ UNCHANGED <<kind, unread, sent, chunk>>

ReadToTheEnd(r, engine) ==
  /\ Task(r) /\ stage[r] = "data" /\ left[r] = chunk[r] /\ unread[r] > 0
  /\ Write(r, Reply(kind[r]))
  /\ UNCHANGED <<kind, bodyVars, ran>>

\* read_complete with the whole body, api_request_handler and script_host::rpc: an
\* answer that is no object becomes an empty one.
Call(r, engine) ==
  /\ Task(r) /\ stage[r] = "data" /\ SizeT(left[r] - chunk[r]) = 0
  /\ got' = [got EXCEPT ![r] = @ + chunk[r]] /\ left' = [left EXCEPT ![r] = 0]
  /\ IF engine
       THEN ran' = [ran EXCEPT ![r] = @ + Runs(kind[r])] /\ Write(r, Reply(kind[r]))
       ELSE Write(r, "empty") /\ UNCHANGED ran
  /\ UNCHANGED <<kind, unread, sent, chunk>>

Receive    == \E r \in Requests : \E k \in Kinds[r] : ReceiveHead(r, k)
Read(r)    == (\E n \in 1..unread[r] : ReadSome(r, n)) \/ ReadFails(r)
ClientStep == \E r \in Requests : \E n \in 1..kind[r].body : SendBody(r, n)
PoolStep(engine) ==
  \E r \in Requests :
    Unauthorized(r, engine) \/ ServePage(r, engine) \/ StartReading(r, engine)
    \/ ReadOn(r) \/ Call(r, engine)

HttpTypeOK ==
  /\ \A r \in Requests : kind[r] \in Kinds[r]
  /\ stage \in [Requests -> {"unsent", "head", "reading", "data", "answered", "closed"}]
  /\ pool \in Seq(Requests)
  /\ \A r \in Requests : /\ left[r] \in 0..SizeMax
                         /\ got[r] + unread[r] <= sent[r] /\ sent[r] <= kind[r].body
  /\ answer \in [Requests -> {"none", "401", "301", "404", "200", "result", "notFound",
                              "serverError", "empty"}]
=============================================================================
