--------------------------- MODULE Service_proofs ---------------------------
(***************************************************************************)
(* That the service implements StatusContract for its manager and          *)
(* RequestContract for its clients, for any number of connections, every   *)
(* set of requests and every width of std::size_t; that each request that  *)
(* waits for a handler has one task of the pool; and what the liveness of  *)
(* requests and of the stop needs beside fairness.                         *)
(***************************************************************************)
EXTENDS Service, FiniteSetTheorems, SequenceLemmas, TLAPS

-----------------------------------------------------------------------------
(* The arithmetic of std::size_t *)

\* What is left is a std::size_t.
LEMMA SizeType == ASSUME NEW n \in Int PROVE SizeT(n) \in 0..SizeMax
BY SizeAssumption DEF SizeT

\* What \div and % are.
LEMMA Division ==
  ASSUME NEW m \in Nat \ {0}, NEW x \in Int
  PROVE  x \div m \in Int /\ x % m \in 0..(m - 1) /\ x = m * (x \div m) + (x % m)
OBVIOUS

\* Only one remainder is within the range.
LEMMA Remainder ==
  ASSUME NEW m \in Nat \ {0}, NEW q \in Int, NEW t \in 0..(m - 1)
  PROVE  (m * q + t) % m = t
<1> DEFINE x == m * q + t
           p == x \div m
           s == x % m
<1>1. x \in Int /\ p \in Int /\ s \in 0..(m - 1) /\ x = m * p + s
  OBVIOUS
<1> HIDE DEF p, s
<1>2. m * (q - p) = s - t
  BY <1>1
<1>3. -m < s - t /\ s - t < m
  BY <1>1
<1>4. q - p \in Int /\ ~(q - p >= 1) /\ ~(q - p <= -1)
  BY <1>1, <1>2, <1>3
<1>5. s = t
  BY <1>1, <1>2, <1>4
<1> QED
  BY <1>5 DEF s

\* Taking away in two steps is taking away at once, although each step may wrap.
LEMMA SizeMinus ==
  ASSUME NEW n \in Int, NEW g \in Nat, NEW c \in Nat
  PROVE  SizeT(SizeT(n - g) - c) = SizeT(n - (g + c))
<1> DEFINE m == SizeMax + 1
           q == (n - g) \div m
           s == (n - g) % m
           p == (s - c) \div m
           t == (s - c) % m
<1>1. m \in Nat \ {0}
  BY SizeAssumption
<1> HIDE DEF m
<1>2. q \in Int /\ s \in 0..(m - 1) /\ n - g = m * q + s
  BY <1>1, n - g \in Int, Division
<1> HIDE DEF q, s
<1>3. p \in Int /\ t \in 0..(m - 1) /\ s - c = m * p + t
  BY <1>1, <1>2, s - c \in Int, Division
<1> HIDE DEF p, t
<1>4. n - (g + c) = m * (q + p) + t
  <2>1. n - (g + c) = m * q + m * p + t
    BY <1>1, <1>2, <1>3
  <2> QED
    BY <2>1, <1>1, <1>2, <1>3
<1>5. (n - (g + c)) % m = t
  BY <1>1, <1>2, <1>3, <1>4, Remainder
<1> QED
  BY <1>5 DEF SizeT, m, s, t

\* Nothing is left of a length when as many bytes were read.
LEMMA SizeAll ==
  ASSUME NEW n \in Int, NEW g \in 0..SizeMax, SizeT(n - g) = 0
  PROVE  g = SizeT(n)
BY SizeAssumption DEF SizeT

-----------------------------------------------------------------------------
(* main() and the manager *)

\* What main() knows of the start, and what it has told the manager.
HostInv ==
  /\ ServiceTypeOK
  /\ pc \in {"initialize", "startup", "config", "start"} => up = "no"
  /\ pc \in {"complete", "await", "run", "shutdown", "stop", "stopped", "reported", "exited"}
       => (result = "ok") = (up = "up")
  /\ pc \in {"await", "run"} => up = "up"
  /\ waiting \/ woken <=> pc = "run"
  /\ pc = "initialize" => dispatcher = "none"
  /\ handle <=> dispatcher \in {"pending", "signal", "serving"}
  /\ status = "RUNNING" \/ control # "idle" => pc \in {"await", "run"} /\ handle
  /\ control = "cancel" \/ woken => status # "RUNNING"
  /\ woken => control = "idle"

\* main() has told nobody anything.
LEMMA InitHost == ServiceInit => HostInv
BY DEF ServiceInit, HostInv, ServiceTypeOK, Codes

\* Each step of main() keeps it.
LEMMA MainHost == HostInv /\ MainStep => HostInv'
<1> SUFFICES ASSUME HostInv, MainStep PROVE HostInv'
  OBVIOUS
<1> USE DEF HostInv, ServiceTypeOK, Codes, Goto, startVars, startupVars, statusVars, signalVars
<1>1. CASE InitializationFails
  BY <1>1 DEF InitializationFails
<1>2. CASE InitializationStart
  BY <1>2 DEF InitializationStart
<1>3. CASE WaitForStartup
  BY <1>3 DEF WaitForStartup
<1>4. CASE ReadConfig
  BY <1>4 DEF ReadConfig
<1>5. CASE AppStart
  BY <1>5 DEF AppStart
<1>6. CASE InitializationComplete
  BY <1>6, SMTT(30) DEF InitializationComplete, SetStatus
<1>7. CASE AsyncWait
  BY <1>7 DEF AsyncWait
<1>8. CASE Wake
  <2>1. /\ pc = "run" /\ pc' = "shutdown" /\ result' = "ok" /\ woken' = FALSE
        /\ UNCHANGED <<up, event, dispatcher, handle, control, waiting>>
        /\ \/ status' = "STOP_PENDING" /\ exitCode' = "ok"
           \/ UNCHANGED <<status, exitCode>>
    BY <1>8 DEF Wake, SetStatus
  <2>2. woken /\ ~(waiting /\ woken)
    BY <1>8 DEF Wake
  <2>3. ~waiting' /\ ~woken'
    BY ONLY <2>1, <2>2
  <2>4. ServiceTypeOK'
    BY <2>1
  <2>5. waiting' \/ woken' <=> pc' = "run"
    BY ONLY <2>1, <2>3
  <2> QED
    BY <2>1, <2>4, <2>5
<1>9. CASE ShutdownStart
  BY <1>9 DEF ShutdownStart, SetStatus
<1>10. CASE AppStop
  BY <1>10 DEF AppStop
<1>11. CASE ShutdownComplete
  BY <1>11 DEF ShutdownComplete, SetStatus
<1>12. CASE Exit
  BY <1>12 DEF Exit
<1> QED
  BY <1>1, <1>2, <1>3, <1>4, <1>5, <1>6, <1>7, <1>8, <1>9, <1>10, <1>11, <1>12 DEF MainStep

\* Each step of the other two threads, and the manager's, keeps it.
LEMMA ThreadsHost == HostInv /\ (DispatcherStep \/ ControlStep \/ SendControl) => HostInv'
<1> SUFFICES ASSUME HostInv, DispatcherStep \/ ControlStep \/ SendControl PROVE HostInv'
  OBVIOUS
<1> USE DEF HostInv, ServiceTypeOK, Codes, Dispatch, startVars, startupVars, statusVars, signalVars
<1>1. CASE Unconnected \/ Connect \/ RegisterFails \/ Register
  <2>1. CASE Unconnected
    BY <2>1 DEF Unconnected
  <2>2. CASE Connect
    BY <2>2 DEF Connect
  <2>3. CASE RegisterFails
    BY <2>3 DEF RegisterFails
  <2>4. CASE Register
    BY <2>4 DEF Register
  <2> QED
    BY <1>1, <2>1, <2>2, <2>3, <2>4
<1>2. CASE ReportPending
  BY <1>2 DEF ReportPending, SetStatus
<1>3. CASE SetEvent
  BY <1>3 DEF SetEvent
<1>4. CASE SendControl
  BY <1>4 DEF SendControl
<1>5. CASE ReportStop
  BY <1>5 DEF ReportStop, SetStatus
<1>6. CASE Cancel
  <2>1. /\ woken' = (woken \/ waiting) /\ waiting' = FALSE /\ control' = "idle"
        /\ control = "cancel" /\ pc # "exited"
    BY <1>6 DEF Cancel
  <2>2. UNCHANGED <<pc, result, up, event, dispatcher, handle, status, exitCode>>
    BY <1>6 DEF Cancel
  <2>3. woken' \in BOOLEAN /\ waiting' \in BOOLEAN /\ ~(waiting' /\ woken')
    BY ONLY <2>1
  <2>4. waiting' \/ woken' => waiting \/ woken
    BY ONLY <2>1
  <2>5. ServiceTypeOK'
    BY <2>1, <2>2, <2>3
  <2>6. waiting' \/ woken' <=> pc' = "run"
    <3>1. waiting \/ woken => woken'
      <4> DEFINE either == woken \/ waiting
      <4>1. woken' = either /\ (waiting \/ woken => either = TRUE)
        BY <2>1
      <4> HIDE DEF either
      <4> QED
        BY <4>1
    <3>2. (waiting \/ woken <=> pc = "run") /\ pc' = pc
      BY <2>2
    <3> QED
      BY <2>4, <3>1, <3>2
  <2>7. status' # "RUNNING" /\ control' = "idle"
    BY <2>1, <2>2
  <2> QED
    BY <2>2, <2>5, <2>6, <2>7
<1> QED
  BY <1>1, <1>2, <1>3, <1>4, <1>5, <1>6 DEF DispatcherStep, ControlStep

-----------------------------------------------------------------------------
(* What a body runs and how it is answered *)

\* No more methods are run than are called; all if the answer has results, and none
\* if it says that there is no such method.
LEMMA RunsAndReply ==
  ASSUME NEW k \in Kind
  PROVE  /\ Runs(k) \in 0..Len(k.calls)
         /\ Reply(k) \in {"result", "notFound", "serverError"}
         /\ Reply(k) = "result" => Runs(k) = Len(k.calls)
         /\ Reply(k) = "notFound" => Runs(k) = 0
<1> DEFINE n == Len(k.calls)
           run == {i \in 1..n : k.calls[i] # "unknown" /\ \A j \in 1..(i - 1) : k.calls[j] = "ok"}
<1>1. n \in Nat /\ k.calls \in Seq({"ok", "throws", "unknown"})
  BY DEF Kind
<1>2. IsFiniteSet(1..n) /\ Cardinality(1..n) = n
  <2> HIDE DEF n, run
  <2> QED
    BY <1>1, FS_Interval
<1>3. IsFiniteSet(run) /\ Cardinality(run) <= n
  <2>1. run \in SUBSET (1..n)
    OBVIOUS
  <2> HIDE DEF n, run
  <2> QED
    BY <1>2, <2>1, FS_Subset
<1>4. Runs(k) = Cardinality(run) /\ Runs(k) \in 0..n
  BY <1>1, <1>3, FS_CardinalityType DEF Runs
<1>5. CASE \A i \in 1..n : k.calls[i] = "ok"
  <2>1. Reply(k) = "result"
    <3>1. ~(k.calls = <<"unknown">>)
      BY <1>1, <1>5
    <3> QED
      BY <1>5, <3>1 DEF Reply
  <2>2. run = 1..n
    BY <1>1, <1>5
  <2> QED
    BY <2>1, <2>2, <1>2, <1>4
<1>6. CASE ~(\A i \in 1..n : k.calls[i] = "ok") /\ ~k.multi /\ k.calls = <<"unknown">>
  <2>1. Reply(k) = "notFound"
    BY <1>6 DEF Reply
  <2>2. run = {}
    BY <1>6
  <2> QED
    BY <2>1, <2>2, <1>4, FS_EmptySet
<1>7. CASE ~(\A i \in 1..n : k.calls[i] = "ok") /\ ~(~k.multi /\ k.calls = <<"unknown">>)
  <2>1. Reply(k) = "serverError"
    BY <1>7 DEF Reply
  <2> QED
    BY <2>1, <1>4
<1> QED
  BY <1>5, <1>6, <1>7

\* Who has got past the authenticator.
LEMMA AuthenticFacts ==
  ASSUME NEW k \in Kind, engine \in BOOLEAN
  PROVE  /\ TRUE \in Authentic(k, engine) => k.auth # "none" /\ ~(k.auth = "wrong" /\ engine)
         /\ FALSE \in Authentic(k, engine) => ~(k.auth = "right" /\ engine)
<1>1. k.auth \in {"none", "right", "wrong", "malformed"}
  BY DEF Kind
<1>2. CASE k.auth = "none"
  BY <1>2 DEF Authentic
<1>3. CASE k.auth = "malformed" \/ (k.auth \in {"right", "wrong"} /\ ~engine)
  BY <1>3 DEF Authentic
<1>4. CASE k.auth \in {"right", "wrong"} /\ engine
  BY <1>4 DEF Authentic
<1> QED
  BY <1>1, <1>2, <1>3, <1>4

-----------------------------------------------------------------------------
(* The connections *)

\* One number, one text and one question for each connection.
HttpTypes ==
  /\ kind \in [Requests -> Kind] /\ \A r \in Requests : kind[r] \in Kinds[r]
  /\ stage \in [Requests -> {"unsent", "head", "reading", "data", "answered", "closed"}]
  /\ pool \in Seq(Requests)
  /\ unread \in [Requests -> Nat] /\ sent \in [Requests -> Nat] /\ chunk \in [Requests -> Nat]
  /\ left \in [Requests -> 0..SizeMax] /\ got \in [Requests -> Nat] /\ ran \in [Requests -> Nat]
  /\ answer \in [Requests -> {"none", "401", "301", "404", "200"} \cup RpcAnswers]
  /\ engine \in BOOLEAN

\* No byte is counted twice: it is in the body, in the chunk at hand, or unread.
BytesInv(r) ==
  /\ got[r] + unread[r] + (IF stage[r] = "data" THEN chunk[r] ELSE 0) <= sent[r]
  /\ sent[r] <= kind[r].body
  /\ stage[r] = "unsent" => sent[r] = 0
  /\ stage[r] \in {"unsent", "head"} => got[r] = 0

\* A connection that is read from has passed the authenticator, and left follows
\* what has been read of the announced length.
ReadingInv(r) ==
  stage[r] \in {"reading", "data"} =>
    /\ TRUE \in Authentic(kind[r], engine)
    /\ kind[r].path = "api" /\ kind[r].length # <<>>
    /\ left[r] = SizeT(Head(kind[r].length) - got[r])

\* What AnswersFit says of one connection, and that nothing is answered before its time.
AnswerInv(r) ==
  LET k == kind[r]
  IN /\ stage[r] # "answered" => answer[r] = "none" /\ ran[r] = 0
     /\ ran[r] > 0 => answer[r] \in {"result", "serverError"} /\ k.auth \notin {"none", "wrong"}
     /\ answer[r] \in RpcAnswers =>
          k.path = "api" /\ k.length # <<>> /\ got[r] = SizeT(Head(k.length))
     /\ answer[r] = "result" => ran[r] = Len(k.calls)
     /\ answer[r] = "notFound" => ran[r] = 0
     /\ ran[r] <= Len(k.calls)
     /\ k.auth = "none" \/ (k.auth = "wrong" /\ engine) => answer[r] \in {"none", "401"}
     /\ k.auth = "right" /\ engine => answer[r] # "401"

ConnInv(r) == BytesInv(r) /\ ReadingInv(r) /\ AnswerInv(r)
HttpInv    == HttpTypes /\ \A r \in Requests : ConnInv(r)

\* What ConnInv says of one connection depends on nothing of the others.
LEMMA ConnSame ==
  ASSUME NEW r \in Requests, ConnInv(r), engine' = engine,
         kind'[r] = kind[r], stage'[r] = stage[r], unread'[r] = unread[r],
         sent'[r] = sent[r], chunk'[r] = chunk[r], left'[r] = left[r], got'[r] = got[r],
         ran'[r] = ran[r], answer'[r] = answer[r]
  PROVE  ConnInv(r)'
BY DEF ConnInv, BytesInv, ReadingInv, AnswerInv

\* No head has been read.
LEMMA InitHttp == HttpInit /\ engine \in BOOLEAN => HttpInv
<1> SUFFICES ASSUME HttpInit, engine \in BOOLEAN PROVE HttpInv
  OBVIOUS
<1>1. \A r \in Requests : kind[r] \in Kinds[r] /\ kind[r] \in Kind /\ kind[r].body \in Nat
  BY KindsAssumption DEF HttpInit, Kind
<1>2. HttpTypes
  BY <1>1, SizeAssumption DEF HttpInit, HttpTypes, Zero, RpcAnswers
<1>3. ASSUME NEW r \in Requests PROVE ConnInv(r)
  <2>1. Len(kind[r].calls) \in Nat
    BY <1>1 DEF Kind
  <2> QED
    BY <1>1, <2>1 DEF HttpInit, Zero, ConnInv, BytesInv, ReadingInv, AnswerInv, RpcAnswers
<1> QED
  BY <1>2, <1>3 DEF HttpInv

-----------------------------------------------------------------------------
(* Every step of a request keeps it *)

\* What is known of one connection.
LEMMA Known ==
  ASSUME HttpInv, NEW r \in Requests
  PROVE  /\ HttpTypes /\ ConnInv(r)
         /\ kind[r] \in Kind /\ kind[r].body \in 0..SizeMax /\ Len(kind[r].calls) \in Nat
         /\ kind[r].length # <<>> => Head(kind[r].length) \in Int
<1>1. HttpTypes /\ ConnInv(r)
  BY DEF HttpInv
<1>2. kind[r] \in Kind /\ kind[r] \in Kinds[r]
  BY <1>1 DEF HttpTypes
<1>3. kind[r].body <= SizeMax
  BY <1>2, KindsAssumption
<1>4. kind[r].body \in Nat /\ kind[r].length \in Seq(Int)
      /\ kind[r].calls \in Seq({"ok", "throws", "unknown"})
  BY <1>2 DEF Kind
<1> QED
  BY <1>1, <1>2, <1>3, <1>4, SizeAssumption

\* The head of a request has been read: what it asks is known now.
LEMMA HeadStep ==
  ASSUME HttpInv, UNCHANGED engine, NEW r \in Requests, NEW k \in Kinds[r], ReceiveHead(r, k)
  PROVE  HttpInv'
<1>1. /\ HttpTypes /\ BytesInv(r) /\ ReadingInv(r) /\ AnswerInv(r)
      /\ kind[r] \in Kind /\ kind[r].body \in 0..SizeMax /\ Len(kind[r].calls) \in Nat
      /\ kind[r].length # <<>> => Head(kind[r].length) \in Int
  BY Known DEF ConnInv
<1>2. /\ UNCHANGED <<unread, sent, chunk, left, got, ran, answer>>
      /\ stage[r] = "unsent" /\ kind' = [kind EXCEPT ![r] = k]
      /\ stage' = [stage EXCEPT ![r] = "head"] /\ pool' = Append(pool, r)
  BY DEF ReceiveHead, bodyVars
<1>3. HttpTypes'
  <2>1. kind' \in [Requests -> Kind]
    BY <1>1, <1>2, KindsAssumption DEF HttpTypes
  <2>2. stage' \in [Requests -> {"unsent", "head", "reading", "data", "answered", "closed"}]
    BY <1>1, <1>2 DEF HttpTypes
  <2>3. pool' \in Seq(Requests)
    BY <1>1, <1>2 DEF HttpTypes
  <2>4. \A s \in Requests : kind'[s] \in Kinds[s]
    BY <1>1, <1>2 DEF HttpTypes
  <2>5. engine' \in BOOLEAN
    BY <1>1 DEF HttpTypes
  <2> QED
    BY <1>1, <1>2, <2>1, <2>2, <2>3, <2>4, <2>5 DEF HttpTypes
<1>4. kind'[r] = k /\ stage'[r] = "head"
  BY <1>1, <1>2 DEF HttpTypes
<1>5. BytesInv(r)'
  <2>1. k.body \in Nat
    BY KindsAssumption DEF Kind
  <2> QED
    BY <2>1, <1>1, <1>2, <1>4 DEF HttpTypes, BytesInv
<1>6. ReadingInv(r)'
  BY <1>1, <1>2, <1>4 DEF ReadingInv
<1>7. AnswerInv(r)'
  <2>1. Len(k.calls) \in Nat
    BY KindsAssumption DEF Kind
  <2> QED
    BY <2>1, <1>1, <1>2, <1>4 DEF AnswerInv, RpcAnswers
<1>8. ASSUME NEW s \in Requests, s # r PROVE ConnInv(s)'
  <2>1. ConnInv(s)
    BY Known
  <2> QED
    BY <2>1, <1>8, <1>1, <1>2, ConnSame DEF HttpTypes
<1> QED
  BY <1>3, <1>5, <1>6, <1>7, <1>8 DEF HttpInv, ConnInv

\* The client sends some of the body.
LEMMA BodyStep ==
  ASSUME HttpInv, UNCHANGED engine, NEW r \in Requests, NEW n \in Nat, SendBody(r, n)
  PROVE  HttpInv'
<1>1. /\ HttpTypes /\ BytesInv(r) /\ ReadingInv(r) /\ AnswerInv(r)
      /\ kind[r] \in Kind /\ kind[r].body \in 0..SizeMax /\ Len(kind[r].calls) \in Nat
      /\ kind[r].length # <<>> => Head(kind[r].length) \in Int
  BY Known DEF ConnInv
<1>2. /\ UNCHANGED <<kind, stage, pool, chunk, left, got, ran, answer>>
      /\ stage[r] # "unsent" /\ sent[r] + n <= kind[r].body
      /\ sent' = [sent EXCEPT ![r] = @ + n] /\ unread' = [unread EXCEPT ![r] = @ + n]
  BY DEF SendBody
<1>3. HttpTypes'
  <2>1. unread' \in [Requests -> Nat]
    BY <1>1, <1>2 DEF HttpTypes
  <2>2. sent' \in [Requests -> Nat]
    BY <1>1, <1>2 DEF HttpTypes
  <2>3. kind' \in [Requests -> Kind] /\ \A s \in Requests : kind'[s] \in Kinds[s]
    BY <1>1, <1>2 DEF HttpTypes
  <2>4. engine' \in BOOLEAN
    BY <1>1 DEF HttpTypes
  <2> QED
    BY <1>1, <1>2, <2>1, <2>2, <2>3, <2>4 DEF HttpTypes
<1>4. sent'[r] = sent[r] + n /\ unread'[r] = unread[r] + n
  BY <1>1, <1>2 DEF HttpTypes
<1>5. BytesInv(r)'
  BY <1>1, <1>2, <1>4, SMTT(30) DEF HttpTypes, BytesInv
<1>6. ReadingInv(r)'
  BY <1>1, <1>2, <1>4 DEF ReadingInv
<1>7. AnswerInv(r)'
  BY <1>1, <1>2, <1>4 DEF AnswerInv
<1>8. ASSUME NEW s \in Requests, s # r PROVE ConnInv(s)'
  <2>1. ConnInv(s)
    BY Known
  <2> QED
    BY <2>1, <1>8, <1>1, <1>2, ConnSame DEF HttpTypes
<1> QED
  BY <1>3, <1>5, <1>6, <1>7, <1>8 DEF HttpInv, ConnInv

\* Some of what has come is read.
LEMMA ReadStep ==
  ASSUME HttpInv, UNCHANGED engine, NEW r \in Requests, NEW n \in Nat, ReadSome(r, n)
  PROVE  HttpInv'
<1>1. /\ HttpTypes /\ BytesInv(r) /\ ReadingInv(r) /\ AnswerInv(r)
      /\ kind[r] \in Kind /\ kind[r].body \in 0..SizeMax /\ Len(kind[r].calls) \in Nat
      /\ kind[r].length # <<>> => Head(kind[r].length) \in Int
  BY Known DEF ConnInv
<1>2. /\ UNCHANGED <<kind, sent, left, got, ran, answer>>
      /\ stage[r] = "reading" /\ n \in 1..unread[r] /\ pool' = Append(pool, r)
      /\ chunk' = [chunk EXCEPT ![r] = n] /\ unread' = [unread EXCEPT ![r] = @ - n]
      /\ stage' = [stage EXCEPT ![r] = "data"]
  BY DEF ReadSome
<1>3. HttpTypes'
  <2>1. stage' \in [Requests -> {"unsent", "head", "reading", "data", "answered", "closed"}]
    BY <1>1, <1>2 DEF HttpTypes
  <2>2. pool' \in Seq(Requests)
    BY <1>1, <1>2 DEF HttpTypes
  <2>3. unread' \in [Requests -> Nat]
    BY <1>1, <1>2 DEF HttpTypes
  <2>4. chunk' \in [Requests -> Nat]
    BY <1>1, <1>2 DEF HttpTypes
  <2>5. kind' \in [Requests -> Kind] /\ \A s \in Requests : kind'[s] \in Kinds[s]
    BY <1>1, <1>2 DEF HttpTypes
  <2>6. engine' \in BOOLEAN
    BY <1>1 DEF HttpTypes
  <2> QED
    BY <1>1, <1>2, <2>1, <2>2, <2>3, <2>4, <2>5, <2>6 DEF HttpTypes
<1>4. chunk'[r] = n /\ unread'[r] = unread[r] - n /\ stage'[r] = "data"
  BY <1>1, <1>2 DEF HttpTypes
<1>5. BytesInv(r)'
  BY <1>1, <1>2, <1>4 DEF HttpTypes, BytesInv
<1>6. ReadingInv(r)'
  BY <1>1, <1>2, <1>4 DEF ReadingInv
<1>7. AnswerInv(r)'
  BY <1>1, <1>2, <1>4 DEF AnswerInv
<1>8. ASSUME NEW s \in Requests, s # r PROVE ConnInv(s)'
  <2>1. ConnInv(s)
    BY Known
  <2> QED
    BY <2>1, <1>8, <1>1, <1>2, ConnSame DEF HttpTypes
<1> QED
  BY <1>3, <1>5, <1>6, <1>7, <1>8 DEF HttpInv, ConnInv

\* The client is gone.
LEMMA FailStep ==
  ASSUME HttpInv, UNCHANGED engine, NEW r \in Requests, ReadFails(r)
  PROVE  HttpInv'
<1>1. /\ HttpTypes /\ BytesInv(r) /\ ReadingInv(r) /\ AnswerInv(r)
      /\ kind[r] \in Kind /\ kind[r].body \in 0..SizeMax /\ Len(kind[r].calls) \in Nat
      /\ kind[r].length # <<>> => Head(kind[r].length) \in Int
  BY Known DEF ConnInv
<1>2. /\ UNCHANGED <<kind, pool, unread, sent, chunk, left, got, ran, answer>>
      /\ stage[r] = "reading" /\ stage' = [stage EXCEPT ![r] = "closed"]
  BY DEF ReadFails, bodyVars
<1>3. HttpTypes'
  <2>1. stage' \in [Requests -> {"unsent", "head", "reading", "data", "answered", "closed"}]
    BY <1>1, <1>2 DEF HttpTypes
  <2>2. kind' \in [Requests -> Kind] /\ \A s \in Requests : kind'[s] \in Kinds[s]
    BY <1>1, <1>2 DEF HttpTypes
  <2>3. engine' \in BOOLEAN
    BY <1>1 DEF HttpTypes
  <2> QED
    BY <1>1, <1>2, <2>1, <2>2, <2>3 DEF HttpTypes
<1>4. stage'[r] = "closed"
  BY <1>1, <1>2 DEF HttpTypes
<1>5. BytesInv(r)'
  BY <1>1, <1>2, <1>4 DEF HttpTypes, BytesInv
<1>6. ReadingInv(r)'
  BY <1>1, <1>2, <1>4 DEF ReadingInv
<1>7. AnswerInv(r)'
  BY <1>1, <1>2, <1>4 DEF AnswerInv
<1>8. ASSUME NEW s \in Requests, s # r PROVE ConnInv(s)'
  <2>1. ConnInv(s)
    BY Known
  <2> QED
    BY <2>1, <1>8, <1>1, <1>2, ConnSame DEF HttpTypes
<1> QED
  BY <1>3, <1>5, <1>6, <1>7, <1>8 DEF HttpInv, ConnInv

\* The authenticator does not let it pass.
LEMMA UnauthorizedStep ==
  ASSUME HttpInv, UNCHANGED engine, NEW r \in Requests, Unauthorized(r, engine)
  PROVE  HttpInv'
<1>1. /\ HttpTypes /\ BytesInv(r) /\ ReadingInv(r) /\ AnswerInv(r)
      /\ kind[r] \in Kind /\ kind[r].body \in 0..SizeMax /\ Len(kind[r].calls) \in Nat
      /\ kind[r].length # <<>> => Head(kind[r].length) \in Int
  BY Known DEF ConnInv
<1>2. /\ UNCHANGED <<kind, unread, sent, chunk, left, got, ran>>
      /\ stage[r] = "head" /\ pool # <<>> /\ pool' = Tail(pool) /\ FALSE \in Authentic(kind[r], engine)
      /\ stage' = [stage EXCEPT ![r] = "answered"] /\ answer' = [answer EXCEPT ![r] = "401"]
  BY DEF Unauthorized, bodyVars, Task, Write
<1>3. HttpTypes'
  <2>1. stage' \in [Requests -> {"unsent", "head", "reading", "data", "answered", "closed"}]
    BY <1>1, <1>2 DEF HttpTypes
  <2>2. pool' \in Seq(Requests)
    BY <1>1, <1>2 DEF HttpTypes
  <2>3. answer' \in [Requests -> {"none", "401", "301", "404", "200"} \cup RpcAnswers]
    BY <1>1, <1>2 DEF HttpTypes, RpcAnswers
  <2>4. kind' \in [Requests -> Kind] /\ \A s \in Requests : kind'[s] \in Kinds[s]
    BY <1>1, <1>2 DEF HttpTypes
  <2>5. engine' \in BOOLEAN
    BY <1>1 DEF HttpTypes
  <2> QED
    BY <1>1, <1>2, <2>1, <2>2, <2>3, <2>4, <2>5 DEF HttpTypes
<1>4. stage'[r] = "answered" /\ answer'[r] = "401"
  BY <1>1, <1>2 DEF HttpTypes
<1>5. BytesInv(r)'
  BY <1>1, <1>2, <1>4 DEF HttpTypes, BytesInv
<1>6. ReadingInv(r)'
  BY <1>1, <1>2, <1>4 DEF ReadingInv
<1>7. AnswerInv(r)'
  <2>1. ~(kind[r].auth = "right" /\ engine)
    BY <1>1, <1>2, AuthenticFacts DEF HttpTypes
  <2> QED
    BY <2>1, <1>1, <1>2, <1>4 DEF AnswerInv, RpcAnswers
<1>8. ASSUME NEW s \in Requests, s # r PROVE ConnInv(s)'
  <2>1. ConnInv(s)
    BY Known
  <2> QED
    BY <2>1, <1>8, <1>1, <1>2, ConnSame DEF HttpTypes
<1> QED
  BY <1>3, <1>5, <1>6, <1>7, <1>8 DEF HttpInv, ConnInv

\* What a page is answered with.
LEMMA PagesType == \A path \in DOMAIN Pages : Pages[path] \in {"301", "404", "200"}
BY DEF Pages

\* A page, or that there is none.
LEMMA PageStep ==
  ASSUME HttpInv, UNCHANGED engine, NEW r \in Requests, ServePage(r, engine)
  PROVE  HttpInv'
<1>1. /\ HttpTypes /\ BytesInv(r) /\ ReadingInv(r) /\ AnswerInv(r)
      /\ kind[r] \in Kind /\ kind[r].body \in 0..SizeMax /\ Len(kind[r].calls) \in Nat
      /\ kind[r].length # <<>> => Head(kind[r].length) \in Int
  BY Known DEF ConnInv
<1>2. /\ UNCHANGED <<kind, unread, sent, chunk, left, got, ran>>
      /\ stage[r] = "head" /\ pool # <<>> /\ pool' = Tail(pool) /\ TRUE \in Authentic(kind[r], engine)
      /\ kind[r].path \in DOMAIN Pages
      /\ stage' = [stage EXCEPT ![r] = "answered"]
      /\ answer' = [answer EXCEPT ![r] = Pages[kind[r].path]]
  BY DEF ServePage, bodyVars, Task, Write
<1>3. HttpTypes'
  <2>1. stage' \in [Requests -> {"unsent", "head", "reading", "data", "answered", "closed"}]
    BY <1>1, <1>2 DEF HttpTypes
  <2>2. pool' \in Seq(Requests)
    BY <1>1, <1>2 DEF HttpTypes
  <2>3. answer' \in [Requests -> {"none", "401", "301", "404", "200"} \cup RpcAnswers]
    BY <1>1, <1>2, PagesType DEF HttpTypes, RpcAnswers
  <2>4. kind' \in [Requests -> Kind] /\ \A s \in Requests : kind'[s] \in Kinds[s]
    BY <1>1, <1>2 DEF HttpTypes
  <2>5. engine' \in BOOLEAN
    BY <1>1 DEF HttpTypes
  <2> QED
    BY <1>1, <1>2, <2>1, <2>2, <2>3, <2>4, <2>5 DEF HttpTypes
<1>4. stage'[r] = "answered" /\ answer'[r] \in {"301", "404", "200"}
  BY <1>1, <1>2, PagesType DEF HttpTypes
<1>5. BytesInv(r)'
  BY <1>1, <1>2, <1>4 DEF HttpTypes, BytesInv
<1>6. ReadingInv(r)'
  BY <1>1, <1>2, <1>4 DEF ReadingInv
<1>7. AnswerInv(r)'
  <2>1. kind[r].auth # "none" /\ ~(kind[r].auth = "wrong" /\ engine)
    BY <1>1, <1>2, AuthenticFacts DEF HttpTypes
  <2> QED
    BY <2>1, <1>1, <1>2, <1>4 DEF AnswerInv, RpcAnswers
<1>8. ASSUME NEW s \in Requests, s # r PROVE ConnInv(s)'
  <2>1. ConnInv(s)
    BY Known
  <2> QED
    BY <2>1, <1>8, <1>1, <1>2, ConnSame DEF HttpTypes
<1> QED
  BY <1>3, <1>5, <1>6, <1>7, <1>8 DEF HttpInv, ConnInv

\* The body is to be read, or nothing is.
LEMMA StartStep ==
  ASSUME HttpInv, UNCHANGED engine, NEW r \in Requests, StartReading(r, engine)
  PROVE  HttpInv'
<1>1. /\ HttpTypes /\ BytesInv(r) /\ ReadingInv(r) /\ AnswerInv(r)
      /\ kind[r] \in Kind /\ kind[r].body \in 0..SizeMax /\ Len(kind[r].calls) \in Nat
      /\ kind[r].length # <<>> => Head(kind[r].length) \in Int
  BY Known DEF ConnInv
<1>2. /\ UNCHANGED <<kind, unread, sent, chunk, got, ran, answer>>
      /\ stage[r] = "head" /\ pool # <<>> /\ pool' = Tail(pool) /\ TRUE \in Authentic(kind[r], engine)
      /\ kind[r].path = "api"
      /\ \/ kind[r].length = <<>> /\ stage' = [stage EXCEPT ![r] = "closed"] /\ left' = left
         \/ /\ kind[r].length # <<>> /\ stage' = [stage EXCEPT ![r] = "reading"]
            /\ left' = [left EXCEPT ![r] = SizeT(Head(kind[r].length))]
  BY DEF StartReading, Task
<1>3. HttpTypes'
  <2>1. stage' \in [Requests -> {"unsent", "head", "reading", "data", "answered", "closed"}]
    BY <1>1, <1>2 DEF HttpTypes
  <2>2. pool' \in Seq(Requests)
    BY <1>1, <1>2 DEF HttpTypes
  <2>3. left' \in [Requests -> 0..SizeMax]
    BY <1>1, <1>2, SizeType, ZenonT(30) DEF HttpTypes
  <2>4. kind' \in [Requests -> Kind] /\ \A s \in Requests : kind'[s] \in Kinds[s]
    BY <1>1, <1>2 DEF HttpTypes
  <2>5. engine' \in BOOLEAN
    BY <1>1 DEF HttpTypes
  <2> QED
    BY <1>1, <1>2, <2>1, <2>2, <2>3, <2>4, <2>5 DEF HttpTypes
<1>4. \/ kind[r].length = <<>> /\ stage'[r] = "closed"
      \/ kind[r].length # <<>> /\ stage'[r] = "reading" /\ left'[r] = SizeT(Head(kind[r].length))
  BY <1>1, <1>2 DEF HttpTypes
<1>5. BytesInv(r)'
  BY <1>1, <1>2, <1>4 DEF HttpTypes, BytesInv
<1>6. ReadingInv(r)'
  <2>1. got[r] = 0
    BY <1>1, <1>2 DEF BytesInv, HttpTypes
  <2>2. kind[r].length # <<>> => Head(kind[r].length) - got[r] = Head(kind[r].length)
    BY <2>1, <1>1
  <2> QED
    BY <2>2, <1>1, <1>2, <1>4 DEF ReadingInv
<1>7. AnswerInv(r)'
  BY <1>1, <1>2, <1>4 DEF AnswerInv
<1>8. ASSUME NEW s \in Requests, s # r PROVE ConnInv(s)'
  <2>1. ConnInv(s)
    BY Known
  <2> QED
    BY <2>1, <1>8, <1>1, <1>2, ConnSame DEF HttpTypes
<1> QED
  BY <1>3, <1>5, <1>6, <1>7, <1>8 DEF HttpInv, ConnInv

\* More of the body is wanted.
LEMMA OnStep ==
  ASSUME HttpInv, UNCHANGED engine, NEW r \in Requests, ReadOn(r)
  PROVE  HttpInv'
<1>1. /\ HttpTypes /\ BytesInv(r) /\ ReadingInv(r) /\ AnswerInv(r)
      /\ kind[r] \in Kind /\ kind[r].body \in 0..SizeMax /\ Len(kind[r].calls) \in Nat
      /\ kind[r].length # <<>> => Head(kind[r].length) \in Int
  BY Known DEF ConnInv
<1>2. /\ UNCHANGED <<kind, unread, sent, chunk, ran, answer>>
      /\ stage[r] = "data" /\ pool # <<>> /\ pool' = Tail(pool)
      /\ stage' = [stage EXCEPT ![r] = "reading"]
      /\ left' = [left EXCEPT ![r] = SizeT(@ - chunk[r])]
      /\ got' = [got EXCEPT ![r] = @ + chunk[r]]
  BY DEF ReadOn, Task
<1>3. HttpTypes'
  <2>1. got[r] + chunk[r] \in Nat /\ SizeT(left[r] - chunk[r]) \in 0..SizeMax
    <3>1. got[r] \in Nat /\ chunk[r] \in Nat /\ left[r] \in 0..SizeMax
      BY <1>1 DEF HttpTypes
    <3>2. left[r] - chunk[r] \in Int
      BY <3>1, SizeAssumption
    <3> QED
      BY <3>1, <3>2, SizeType
  <2>2. stage' \in [Requests -> {"unsent", "head", "reading", "data", "answered", "closed"}]
    BY <1>1, <1>2 DEF HttpTypes
  <2>3. pool' \in Seq(Requests)
    BY <1>1, <1>2 DEF HttpTypes
  <2>4. left' \in [Requests -> 0..SizeMax]
    BY <1>1, <1>2, <2>1 DEF HttpTypes
  <2>5. got' \in [Requests -> Nat]
    BY <1>1, <1>2, <2>1 DEF HttpTypes
  <2>6. kind' \in [Requests -> Kind] /\ \A s \in Requests : kind'[s] \in Kinds[s]
    BY <1>1, <1>2 DEF HttpTypes
  <2>7. engine' \in BOOLEAN
    BY <1>1 DEF HttpTypes
  <2> QED
    BY <1>1, <1>2, <2>2, <2>3, <2>4, <2>5, <2>6, <2>7 DEF HttpTypes
<1>4. stage'[r] = "reading" /\ left'[r] = SizeT(left[r] - chunk[r]) /\ got'[r] = got[r] + chunk[r]
  BY <1>1, <1>2 DEF HttpTypes
<1>5. BytesInv(r)'
  BY <1>1, <1>2, <1>4 DEF HttpTypes, BytesInv
<1>6. ReadingInv(r)'
  <2>1. kind[r].length # <<>> /\ left[r] = SizeT(Head(kind[r].length) - got[r])
    BY <1>1, <1>2 DEF ReadingInv
  <2>2. got[r] \in Nat /\ chunk[r] \in Nat
    BY <1>1 DEF HttpTypes
  <2>3. left'[r] = SizeT(Head(kind[r].length) - (got[r] + chunk[r]))
    BY <2>1, <2>2, <1>1, <1>4, SizeMinus, ZenonT(30)
  <2> QED
    BY <2>3, <1>1, <1>2, <1>4 DEF ReadingInv
<1>7. AnswerInv(r)'
  BY <1>1, <1>2, <1>4 DEF AnswerInv, RpcAnswers
<1>8. ASSUME NEW s \in Requests, s # r PROVE ConnInv(s)'
  <2>1. ConnInv(s)
    BY Known
  <2> QED
    BY <2>1, <1>8, <1>1, <1>2, ConnSame DEF HttpTypes
<1> QED
  BY <1>3, <1>5, <1>6, <1>7, <1>8 DEF HttpInv, ConnInv

\* The whole body has been read: its methods are run, and it is answered.
LEMMA CallStep ==
  ASSUME HttpInv, UNCHANGED engine, NEW r \in Requests, Call(r, engine)
  PROVE  HttpInv'
<1>1. /\ HttpTypes /\ BytesInv(r) /\ ReadingInv(r) /\ AnswerInv(r)
      /\ kind[r] \in Kind /\ kind[r].body \in 0..SizeMax /\ Len(kind[r].calls) \in Nat
      /\ kind[r].length # <<>> => Head(kind[r].length) \in Int
  BY Known DEF ConnInv
<1>2. /\ UNCHANGED <<kind, unread, sent, chunk>>
      /\ stage[r] = "data" /\ pool # <<>> /\ pool' = Tail(pool)
      /\ SizeT(left[r] - chunk[r]) = 0
      /\ stage' = [stage EXCEPT ![r] = "answered"]
      /\ left' = [left EXCEPT ![r] = 0]
      /\ got' = [got EXCEPT ![r] = @ + chunk[r]]
      /\ \/ /\ engine /\ ran' = [ran EXCEPT ![r] = @ + Runs(kind[r])]
            /\ answer' = [answer EXCEPT ![r] = Reply(kind[r])]
         \/ ~engine /\ ran' = ran /\ answer' = [answer EXCEPT ![r] = "empty"]
  BY DEF Call, Task, Write
<1>3. HttpTypes'
  <2>1. got[r] + chunk[r] \in Nat /\ ran[r] + Runs(kind[r]) \in Nat
    <3>1. got[r] \in Nat /\ chunk[r] \in Nat /\ ran[r] \in Nat /\ Runs(kind[r]) \in Nat
      BY <1>1, RunsAndReply DEF HttpTypes
    <3> QED
      BY <3>1
  <2>2. stage' \in [Requests -> {"unsent", "head", "reading", "data", "answered", "closed"}]
    BY <1>1, <1>2 DEF HttpTypes
  <2>3. pool' \in Seq(Requests)
    BY <1>1, <1>2 DEF HttpTypes
  <2>4. left' \in [Requests -> 0..SizeMax]
    BY <1>1, <1>2, SizeAssumption DEF HttpTypes
  <2>5. got' \in [Requests -> Nat]
    BY <1>1, <1>2, <2>1 DEF HttpTypes
  <2>6. ran' \in [Requests -> Nat]
    BY <1>1, <1>2, <2>1 DEF HttpTypes
  <2>7. answer' \in [Requests -> {"none", "401", "301", "404", "200"} \cup RpcAnswers]
    BY <1>1, <1>2, RunsAndReply DEF HttpTypes, RpcAnswers
  <2>8. kind' \in [Requests -> Kind] /\ \A s \in Requests : kind'[s] \in Kinds[s]
    BY <1>1, <1>2 DEF HttpTypes
  <2>9. engine' \in BOOLEAN
    BY <1>1 DEF HttpTypes
  <2> QED
    BY <1>1, <1>2, <2>2, <2>3, <2>4, <2>5, <2>6, <2>7, <2>8, <2>9 DEF HttpTypes
<1>4. /\ stage'[r] = "answered" /\ got'[r] = got[r] + chunk[r] /\ ran[r] = 0
      /\ \/ engine /\ ran'[r] = Runs(kind[r]) /\ answer'[r] = Reply(kind[r])
         \/ ~engine /\ ran'[r] = 0 /\ answer'[r] = "empty"
  <2>1. ran[r] = 0 /\ Runs(kind[r]) \in Nat
    BY <1>1, <1>2, RunsAndReply DEF AnswerInv
  <2>2. stage'[r] = "answered" /\ got'[r] = got[r] + chunk[r]
    BY <1>1, <1>2 DEF HttpTypes
  <2>3. CASE engine
    BY <2>1, <2>2, <2>3, <1>1, <1>2 DEF HttpTypes
  <2>4. CASE ~engine
    BY <2>1, <2>2, <2>4, <1>1, <1>2 DEF HttpTypes
  <2> QED
    BY <2>3, <2>4
<1>5. BytesInv(r)'
  BY <1>1, <1>2, <1>4 DEF HttpTypes, BytesInv
<1>6. ReadingInv(r)'
  BY <1>1, <1>2, <1>4 DEF ReadingInv
<1>7. AnswerInv(r)'
  <2>1. /\ kind[r].path = "api" /\ kind[r].length # <<>>
        /\ left[r] = SizeT(Head(kind[r].length) - got[r])
        /\ kind[r].auth # "none" /\ ~(kind[r].auth = "wrong" /\ engine)
    BY <1>1, <1>2, AuthenticFacts DEF ReadingInv, HttpTypes
  <2>2. got[r] \in Nat /\ chunk[r] \in Nat /\ got[r] + chunk[r] \in 0..SizeMax
    <3>1. got[r] \in Nat /\ chunk[r] \in Nat /\ unread[r] \in Nat /\ sent[r] \in Nat
      BY <1>1 DEF HttpTypes
    <3>2. got[r] + unread[r] + chunk[r] <= sent[r] /\ sent[r] <= kind[r].body
      BY <1>1, <1>2 DEF BytesInv
    <3> QED
      BY <3>1, <3>2, <1>1, SizeAssumption
  <2>3. SizeT(Head(kind[r].length) - (got[r] + chunk[r])) = 0
    <3>1. Head(kind[r].length) \in Int
      BY <2>1, <1>1
    <3>2. SizeT(SizeT(Head(kind[r].length) - got[r]) - chunk[r])
            = SizeT(Head(kind[r].length) - (got[r] + chunk[r]))
      BY <3>1, <2>2, SizeMinus
    <3> QED
      BY <3>2, <2>1, <1>2
  <2>4. got'[r] = SizeT(Head(kind[r].length))
    BY <2>1, <2>2, <2>3, <1>1, <1>4, SizeAll
  <2>5. CASE engine
    BY <2>1, <2>4, <2>5, <1>1, <1>2, <1>4, RunsAndReply DEF AnswerInv, RpcAnswers
  <2>6. CASE ~engine
    BY <2>1, <2>4, <2>6, <1>1, <1>2, <1>4 DEF AnswerInv, RpcAnswers
  <2> QED
    BY <2>5, <2>6
<1>8. ASSUME NEW s \in Requests, s # r PROVE ConnInv(s)'
  <2>1. ConnInv(s)
    BY Known
  <2> QED
    BY <2>1, <1>8, <1>1, <1>2, ConnSame DEF HttpTypes
<1> QED
  BY <1>3, <1>5, <1>6, <1>7, <1>8 DEF HttpInv, ConnInv

-----------------------------------------------------------------------------
(* The theorems *)

ServiceInv == HostInv /\ HttpInv

\* Every step of main(), of the other threads and of the requests keeps the invariant.
LEMMA ServiceStep == ServiceInv /\ [Next]_vars => ServiceInv'
<1> SUFFICES ASSUME ServiceInv, [Next]_vars PROVE ServiceInv'
  OBVIOUS
<1>1. ASSUME UNCHANGED serviceVars PROVE HostInv'
  BY <1>1 DEF ServiceInv, HostInv, ServiceTypeOK, serviceVars, startVars, startupVars,
              statusVars, signalVars
<1>2. ASSUME UNCHANGED <<httpVars, engine>> PROVE HttpInv'
  <2>1. HttpTypes'
    BY <1>2 DEF ServiceInv, HttpInv, HttpTypes, httpVars, bodyVars
  <2>2. ASSUME NEW r \in Requests PROVE ConnInv(r)'
    <3>1. ConnInv(r)
      BY DEF ServiceInv, HttpInv
    <3> QED
      BY <3>1, <1>2, ConnSame DEF httpVars, bodyVars
  <2> QED
    BY <2>1, <2>2 DEF HttpInv
<1>3. CASE (Host \/ SendControl) /\ UNCHANGED <<httpVars, engine>>
  BY <1>3, <1>2, MainHost, ThreadsHost DEF Host, ServiceInv
<1>4. CASE RunIo
  <2>1. PICK r \in Requests :
          (\E k \in Kinds[r] : ReceiveHead(r, k)) \/ (\E n \in 1..unread[r] : ReadSome(r, n))
          \/ ReadFails(r)
    BY <1>4 DEF RunIo, Receive, Read
  <2>2. HttpInv /\ UNCHANGED engine /\ UNCHANGED serviceVars
    BY <1>4 DEF RunIo, ServiceInv
  <2>3. HttpInv'
    <3>1. \A n \in 1..unread[r] : n \in Nat
      BY <2>2 DEF HttpInv, HttpTypes
    <3> QED
      BY <2>1, <2>2, <3>1, HeadStep, ReadStep, FailStep
  <2> QED
    BY <1>1, <2>2, <2>3 DEF ServiceInv
<1>5. CASE RunPool
  <2>1. PICK r \in Requests :
          Unauthorized(r, engine) \/ ServePage(r, engine) \/ StartReading(r, engine)
          \/ ReadOn(r) \/ Call(r, engine)
    BY <1>5 DEF RunPool, PoolStep
  <2>2. HttpInv /\ UNCHANGED engine /\ UNCHANGED serviceVars
    BY <1>5 DEF RunPool, ServiceInv
  <2>3. HttpInv'
    BY <2>1, <2>2, UnauthorizedStep, PageStep, StartStep, OnStep, CallStep
  <2> QED
    BY <1>1, <2>2, <2>3 DEF ServiceInv
<1>6. CASE Clients
  <2>1. PICK r \in Requests : \E n \in 1..kind[r].body : SendBody(r, n)
    BY <1>6 DEF Clients, ClientStep
  <2>2. HttpInv /\ UNCHANGED engine /\ UNCHANGED serviceVars
    BY <1>6 DEF Clients, ServiceInv
  <2>3. HttpInv'
    <3>1. \A n \in 1..kind[r].body : n \in Nat
      BY <2>2, Known
    <3> QED
      BY <2>1, <2>2, <3>1, BodyStep
  <2> QED
    BY <1>1, <2>2, <2>3 DEF ServiceInv
<1>7. CASE UNCHANGED vars
  BY <1>7, <1>1, <1>2 DEF vars, ServiceInv
<1> QED
  BY <1>3, <1>4, <1>5, <1>6, <1>7 DEF Next, Ended

\* The invariant of the whole service.
THEOREM ServiceSafety == Spec => []ServiceInv
<1>1. Init => ServiceInv
  BY InitHost, InitHttp DEF Init, ServiceInv
<1> QED
  BY <1>1, ServiceStep, PTL DEF Spec

\* Every variable of the host and of the server keeps its type.
THEOREM ServiceTypes == Spec => []TypeOK
<1>1. ServiceInv => TypeOK
  <2> SUFFICES ASSUME ServiceInv PROVE TypeOK
    OBVIOUS
  <2>1. HttpTypes /\ HostInv
    BY DEF ServiceInv, HttpInv
  <2>2. ASSUME NEW r \in Requests
        PROVE  left[r] \in 0..SizeMax /\ got[r] + unread[r] <= sent[r] /\ sent[r] <= kind[r].body
    <3>1. BytesInv(r)
      BY DEF ServiceInv, HttpInv, ConnInv
    <3> QED
      BY <2>1, <3>1 DEF HttpTypes, BytesInv
  <2> QED
    BY <2>1, <2>2 DEF TypeOK, HttpTypeOK, HttpTypes, HostInv, RpcAnswers
<1> QED
  BY ServiceSafety, <1>1, PTL

\* Each answer fits its request: the authenticator before it, the whole body as
\* announced, however it was cut and wherever the length wraps around.
THEOREM EachAnswerFits == Spec => []AnswersFit
<1>1. ServiceInv => AnswersFit
  BY DEF ServiceInv, HttpInv, ConnInv, AnswerInv, AnswersFit
<1> QED
  BY ServiceSafety, <1>1, PTL

-----------------------------------------------------------------------------
(* The contract with the manager *)

Started == up = "up" /\ Phase # "starting"
Pending == dispatcher \notin {"signal", "serving"}

\* What a step of the service is to the manager.
ManagerSees ==
  Report!Next \/ UNCHANGED <<Phase, Started, handle, Pending, status, exitCode>>

\* The reports of main().
LEMMA MainSeen == ASSUME HostInv, MainStep PROVE ManagerSees
<1> USE DEF Goto, startVars, startupVars, statusVars, signalVars, Phase, Started, Pending,
            ManagerSees
<1>1. CASE InitializationFails
  BY <1>1 DEF InitializationFails
<1>2. CASE InitializationStart
  BY <1>2 DEF InitializationStart, HostInv
<1>3. CASE WaitForStartup
  BY <1>3 DEF WaitForStartup
<1>4. CASE ReadConfig
  BY <1>4 DEF ReadConfig
<1>5. CASE AppStart
  BY <1>5 DEF AppStart
<1>6. CASE InitializationComplete
  <2>1. CASE result = "ok"
    <3>1. Report!Runs
      BY <1>6, <2>1
         DEF InitializationComplete, SetStatus, HostInv, Report!Runs, Report!Hears
    <3> QED
      BY <3>1 DEF Report!Next
  <2>2. CASE result # "ok"
    <3>1. Report!Stops
      BY <1>6, <2>2
         DEF InitializationComplete, SetStatus, HostInv, Report!Stops, Report!Hears
    <3> QED
      BY <3>1 DEF Report!Next
  <2> QED
    BY <2>1, <2>2
<1>7. CASE AsyncWait
  BY <1>7 DEF AsyncWait
<1>8. CASE Wake
  <2>1. Report!Stops
    BY <1>8 DEF Wake, SetStatus, Report!Stops, Report!Hears
  <2> QED
    BY <2>1 DEF Report!Next
<1>9. CASE ShutdownStart
  <2>1. Report!Stops
    BY <1>9 DEF ShutdownStart, SetStatus, Report!Stops, Report!Hears
  <2> QED
    BY <2>1 DEF Report!Next
<1>10. CASE AppStop
  BY <1>10 DEF AppStop
<1>11. CASE ShutdownComplete
  <2>1. Report!Ends
    BY <1>11 DEF ShutdownComplete, SetStatus, HostInv, ServiceTypeOK, Codes,
                 Report!Ends, Report!Hears
  <2> QED
    BY <2>1 DEF Report!Next
<1>12. CASE Exit
  <2>1. Report!Goes
    BY <1>12 DEF Exit, Report!Goes
  <2> QED
    BY <2>1 DEF Report!Next
<1> QED
  BY <1>1, <1>2, <1>3, <1>4, <1>5, <1>6, <1>7, <1>8, <1>9, <1>10, <1>11, <1>12 DEF MainStep

\* Those of the other threads.
LEMMA ThreadsSeen ==
  ASSUME HostInv, DispatcherStep \/ ControlStep \/ SendControl PROVE ManagerSees
<1> USE DEF Dispatch, startVars, startupVars, statusVars, signalVars, Phase, Started, Pending,
            ManagerSees
<1>1. CASE Unconnected \/ Connect \/ RegisterFails
  BY <1>1 DEF Unconnected, Connect, RegisterFails
<1>2. CASE Register
  <2>1. Report!Registers
    BY <1>2 DEF Register, HostInv, Report!Registers
  <2> QED
    BY <2>1 DEF Report!Next
<1>3. CASE ReportPending
  <2>1. Report!Pends
    BY <1>3 DEF ReportPending, SetStatus, HostInv, Report!Pends, Report!Hears
  <2> QED
    BY <2>1 DEF Report!Next
<1>4. CASE SetEvent
  BY <1>4 DEF SetEvent
<1>5. CASE SendControl \/ Cancel
  BY <1>5 DEF SendControl, Cancel
<1>6. CASE ReportStop
  <2>1. Report!Stops
    BY <1>6 DEF ReportStop, SetStatus, HostInv, ServiceTypeOK, Report!Stops, Report!Hears
  <2> QED
    BY <2>1 DEF Report!Next
<1> QED
  BY <1>1, <1>2, <1>3, <1>4, <1>5, <1>6 DEF DispatcherStep, ControlStep

\* Whatever the order of the three threads, and for any number of connections, the
\* manager hears what StatusContract lets it: of RUNNING only when the application has
\* started, and at last of STOPPED with an exit code that tells whether it had.  What may
\* still follow that is the one START_PENDING of a thread that main() did not wait for.
THEOREM ManagerIsToldTheTruth == Spec => TellsTheTruth
<1>1. Init => Report!Init
  BY DEF Init, ServiceInit, Report!Init, Phase
<1>2. ServiceInv /\ [Next]_vars
        => [Report!Next]_<<Phase, up = "up" /\ Phase # "starting", handle,
                           dispatcher \notin {"signal", "serving"}, status, exitCode>>
  <2> SUFFICES ASSUME ServiceInv, [Next]_vars PROVE ManagerSees
    BY DEF ManagerSees, Started, Pending
  <2>1. CASE Host \/ SendControl
    BY <2>1, MainSeen, ThreadsSeen DEF Host, ServiceInv
  <2>2. CASE UNCHANGED serviceVars
    BY <2>2 DEF serviceVars, startVars, startupVars, statusVars, signalVars, ManagerSees,
                Phase, Started, Pending
  <2> QED
    BY <2>1, <2>2 DEF Next, RunIo, RunPool, Clients, Ended, vars
<1> QED
  BY <1>1, <1>2, ServiceSafety, PTL DEF Spec, TellsTheTruth, Report!Spec, Report!vars

-----------------------------------------------------------------------------
(* The contract with the clients *)

\* The places of the connections, as their clients see them.
Places == [q \in Requests |-> Place(q)]

\* A step of one connection changes the place of no other.
LEMMA PlaceOf ==
  ASSUME HttpTypes, NEW r \in Requests, NEW s, stage' = [stage EXCEPT ![r] = s]
  PROVE  Places' = [Places EXCEPT ![r] = IF s \in {"head", "reading", "data"} THEN "open" ELSE s]
<1>1. \A q \in Requests : stage'[q] = IF q = r THEN s ELSE stage[q]
  BY DEF HttpTypes
<1>2. Place(r)' = IF s \in {"head", "reading", "data"} THEN "open" ELSE s
  BY <1>1 DEF Place
<1>3. \A q \in Requests \ {r} : Place(q)' = Place(q)
  BY <1>1 DEF Place
<1> QED
  BY <1>2, <1>3 DEF Places

\* Nor does one that goes on with a request that is not answered yet.
LEMMA PlaceSame ==
  ASSUME HttpTypes, NEW r \in Requests, NEW s \in {"head", "reading", "data"},
         stage[r] \in {"head", "reading", "data"}, stage' = [stage EXCEPT ![r] = s]
  PROVE  Places' = Places
<1>1. Places[r] = "open"
  BY DEF Places, Place
<1>2. Places' = [Places EXCEPT ![r] = "open"]
  BY PlaceOf
<1> QED
  BY <1>1, <1>2 DEF Places

\* What the step of a request is to its client.
ClientSees == Promise!Next \/ UNCHANGED <<kind, Places, sent, ran, answer, engine>>

\* Reading from the connections.
LEMMA IoSeen ==
  ASSUME ServiceInv, RunIo
  PROVE  ClientSees
<1>1. HttpTypes /\ UNCHANGED engine
  BY DEF ServiceInv, HttpInv, RunIo
<1>2. ASSUME NEW r \in Requests, NEW k \in Kinds[r], ReceiveHead(r, k) PROVE ClientSees
  <2>1. /\ stage[r] = "unsent" /\ stage' = [stage EXCEPT ![r] = "head"]
        /\ kind' = [kind EXCEPT ![r] = k] /\ UNCHANGED <<sent, ran, answer>>
    BY <1>2 DEF ReceiveHead, bodyVars
  <2>2. Places' = [Places EXCEPT ![r] = "open"] /\ Places[r] = "unsent"
    BY <1>1, <2>1, PlaceOf DEF Places, Place
  <2>3. Promise!Asks(r)
    BY <1>1, <2>1, <2>2 DEF Promise!Asks, Promise!Become, Places
  <2> QED
    BY <2>3 DEF ClientSees, Promise!Next
<1>3. ASSUME NEW r \in Requests, NEW n, ReadSome(r, n) PROVE ClientSees
  <2>1. /\ stage[r] = "reading" /\ stage' = [stage EXCEPT ![r] = "data"]
        /\ UNCHANGED <<kind, sent, ran, answer>>
    BY <1>3 DEF ReadSome
  <2> QED
    BY <1>1, <2>1, PlaceSame DEF ClientSees
<1>4. ASSUME NEW r \in Requests, ReadFails(r) PROVE ClientSees
  <2>1. /\ stage[r] = "reading" /\ stage' = [stage EXCEPT ![r] = "closed"]
        /\ UNCHANGED <<kind, sent, ran, answer>>
    BY <1>4 DEF ReadFails, bodyVars
  <2>2. Places' = [Places EXCEPT ![r] = "closed"] /\ Places[r] = "open"
    BY <1>1, <2>1, PlaceOf DEF Places, Place
  <2>3. kind[r].path = "api" /\ ~Promise!Stranger(kind[r])
    BY <1>1, <2>1, Known, AuthenticFacts
       DEF ServiceInv, HttpTypes, ConnInv, ReadingInv, Promise!Stranger
  <2>4. Promise!HangsUp(r)
    BY <1>1, <2>1, <2>2, <2>3 DEF Promise!HangsUp, Promise!Become, Places
  <2> QED
    BY <2>4 DEF ClientSees, Promise!Next
<1> QED
  BY <1>2, <1>3, <1>4 DEF RunIo, Receive, Read

\* The client sends.
LEMMA ClientSeen ==
  ASSUME ServiceInv, Clients
  PROVE  ClientSees
<1>1. HttpTypes /\ UNCHANGED engine
  BY DEF ServiceInv, HttpInv, Clients
<1>2. PICK r \in Requests : \E n \in 1..kind[r].body : SendBody(r, n)
  BY DEF Clients, ClientStep
<1>3. PICK n \in 1..kind[r].body : SendBody(r, n)
  BY <1>2
<1>4. /\ stage[r] \in {"head", "reading", "data"} /\ n > 0 /\ sent[r] + n <= kind[r].body
      /\ sent' = [sent EXCEPT ![r] = @ + n]
      /\ UNCHANGED <<kind, stage, ran, answer>>
  BY <1>3 DEF SendBody
<1>5. Places' = Places /\ Places[r] = "open"
  BY <1>4 DEF Places, Place
<1>6. sent[r] \in Nat /\ n \in Int /\ sent'[r] = sent[r] + n
  BY <1>1, <1>4, Known DEF HttpTypes, ServiceInv
<1>7. sent' = [sent EXCEPT ![r] = sent'[r]]
  BY <1>4, <1>6
<1>8. Promise!Sends(r)
  BY <1>1, <1>4, <1>5, <1>6, <1>7 DEF Promise!Sends, Places
<1> QED
  BY <1>8 DEF ClientSees, Promise!Next

\* An answer, with the methods that were run for it, ends a request.
LEMMA AnswerSeen ==
  ASSUME HttpTypes, UNCHANGED engine, NEW r \in Requests,
         stage[r] \in {"head", "reading", "data"}, stage' = [stage EXCEPT ![r] = "answered"],
         \A q \in Requests \ {r} : answer'[q] = answer[q] /\ ran'[q] = ran[q],
         HttpTypes', UNCHANGED <<kind, sent>>,
         Promise!Fits(kind[r], sent[r], answer'[r], ran'[r])
  PROVE  ClientSees
<1>1. Places' = [Places EXCEPT ![r] = "answered"] /\ Places[r] = "open"
  BY PlaceOf DEF Places, Place
<1>2. answer' = [answer EXCEPT ![r] = answer'[r]] /\ ran' = [ran EXCEPT ![r] = ran'[r]]
  BY DEF HttpTypes
<1>3. Promise!Answers(r)
  BY <1>1, <1>2 DEF Promise!Answers, Promise!Become, Places
<1> QED
  BY <1>3 DEF ClientSees, Promise!Next

\* What the handlers make of a head.
LEMMA HeadSeen ==
  ASSUME ServiceInv, UNCHANGED engine, NEW r \in Requests,
         Unauthorized(r, engine) \/ ServePage(r, engine) \/ StartReading(r, engine)
  PROVE  ClientSees
<1>1. /\ HttpTypes /\ ConnInv(r) /\ kind[r] \in Kind
      /\ stage[r] = "head" /\ ran[r] = 0 /\ ran = [ran EXCEPT ![r] = 0]
  <2>1. HttpTypes /\ ConnInv(r) /\ kind[r] \in Kind
    BY Known DEF ServiceInv
  <2>2. stage[r] = "head"
    BY DEF Unauthorized, ServePage, StartReading
  <2>3. ran[r] = 0
    BY <2>1, <2>2 DEF ConnInv, AnswerInv
  <2> QED
    BY <2>1, <2>2, <2>3 DEF HttpTypes
<1>2. CASE Unauthorized(r, engine)
  <2>1. ~Promise!Known(kind[r])
    BY <1>1, <1>2, AuthenticFacts DEF Unauthorized, HttpTypes, Promise!Known
  <2>2. Promise!Fits(kind[r], sent[r], "401", 0)
    BY <2>1 DEF Promise!Fits
  <2>3. /\ stage' = [stage EXCEPT ![r] = "answered"] /\ answer' = [answer EXCEPT ![r] = "401"]
        /\ UNCHANGED <<kind, sent, ran>>
    BY <1>2 DEF Unauthorized, Write, bodyVars
  <2>4. /\ HttpTypes' /\ answer'[r] = "401" /\ ran'[r] = 0
        /\ \A q \in Requests \ {r} : answer'[q] = answer[q] /\ ran'[q] = ran[q]
    BY <1>1, <1>2, <2>3, UnauthorizedStep DEF ServiceInv, HttpInv, HttpTypes
  <2> QED
    BY <1>1, <2>2, <2>3, <2>4, AnswerSeen
<1>3. ASSUME TRUE \in Authentic(kind[r], engine) PROVE ~Promise!Stranger(kind[r])
  BY <1>1, <1>3, AuthenticFacts DEF HttpTypes, Promise!Stranger
<1>4. CASE ServePage(r, engine)
  <2>1. Pages[kind[r].path] \in {"301", "404", "200"} /\ kind[r].path # "api"
    BY <1>4, PagesType DEF ServePage, Pages
  <2>2. Promise!Fits(kind[r], sent[r], Pages[kind[r].path], 0)
    BY <1>3, <1>4, <2>1 DEF ServePage, Promise!Fits
  <2>3. /\ stage' = [stage EXCEPT ![r] = "answered"]
        /\ answer' = [answer EXCEPT ![r] = Pages[kind[r].path]]
        /\ UNCHANGED <<kind, sent, ran>>
    BY <1>4 DEF ServePage, Write, bodyVars
  <2>4. /\ HttpTypes' /\ answer'[r] = Pages[kind[r].path] /\ ran'[r] = 0
        /\ \A q \in Requests \ {r} : answer'[q] = answer[q] /\ ran'[q] = ran[q]
    BY <1>1, <1>4, <2>3, PageStep DEF ServiceInv, HttpInv, HttpTypes
  <2> QED
    BY <1>1, <2>2, <2>3, <2>4, AnswerSeen
<1>5. CASE StartReading(r, engine)
  <2>1. UNCHANGED <<kind, sent, ran, answer>> /\ kind[r].path = "api"
    BY <1>5 DEF StartReading
  <2>2. CASE kind[r].length = <<>>
    <3>1. stage' = [stage EXCEPT ![r] = "closed"]
      BY <1>5, <2>2 DEF StartReading
    <3>2. Places' = [Places EXCEPT ![r] = "closed"] /\ Places[r] = "open"
      BY <1>1, <3>1, PlaceOf DEF Places, Place
    <3>3. ~Promise!Stranger(kind[r])
      BY <1>3, <1>5 DEF StartReading
    <3>4. Promise!HangsUp(r)
      BY <2>1, <3>2, <3>3 DEF Promise!HangsUp, Promise!Become, Places
    <3> QED
      BY <3>4 DEF ClientSees, Promise!Next
  <2>3. CASE kind[r].length # <<>>
    <3>1. stage' = [stage EXCEPT ![r] = "reading"]
      BY <1>5, <2>3 DEF StartReading
    <3> QED
      BY <1>1, <2>1, <3>1, PlaceSame DEF ClientSees
  <2> QED
    BY <2>2, <2>3
<1> QED
  BY <1>2, <1>4, <1>5

\* The methods are run, once, of a body that was sent as announced.
LEMMA CallSeen ==
  ASSUME ServiceInv, UNCHANGED engine, NEW r \in Requests, Call(r, engine)
  PROVE  ClientSees
<1>1. /\ HttpTypes /\ ConnInv(r) /\ kind[r] \in Kind /\ engine \in BOOLEAN
      /\ stage[r] = "data" /\ ran[r] = 0
  <2>1. HttpTypes /\ ConnInv(r) /\ kind[r] \in Kind
    BY Known DEF ServiceInv
  <2>2. stage[r] = "data"
    BY DEF Call
  <2> QED
    BY <2>1, <2>2 DEF ConnInv, AnswerInv, HttpTypes
<1>2. HttpInv'
  BY CallStep DEF ServiceInv
<1>3. /\ UNCHANGED <<kind, sent>> /\ stage' = [stage EXCEPT ![r] = "answered"]
      /\ \/ /\ engine /\ ran' = [ran EXCEPT ![r] = @ + Runs(kind[r])]
            /\ answer' = [answer EXCEPT ![r] = Reply(kind[r])]
         \/ ~engine /\ ran' = ran /\ answer' = [answer EXCEPT ![r] = "empty"]
  BY DEF Call, Write
<1>4. /\ IF engine THEN ran'[r] = Runs(kind[r]) /\ answer'[r] = Reply(kind[r])
                   ELSE ran'[r] = 0 /\ answer'[r] = "empty"
      /\ answer'[r] \in RpcAnswers
      /\ \A q \in Requests \ {r} : answer'[q] = answer[q] /\ ran'[q] = ran[q]
  <2>1. /\ Runs(kind[r]) \in Nat /\ Reply(kind[r]) \in RpcAnswers /\ "empty" \in RpcAnswers
        /\ ran \in [Requests -> Nat] /\ DOMAIN answer = Requests
    BY <1>1, RunsAndReply DEF RpcAnswers, HttpTypes
  <2>2. CASE engine
    BY <1>1, <1>3, <2>1, <2>2
  <2>3. CASE ~engine
    BY <1>1, <1>3, <2>1, <2>3
  <2> QED
    BY <2>2, <2>3
<1>5. /\ kind[r].path = "api" /\ kind[r].length # <<>>
      /\ sent[r] >= Head(kind[r].length) % (SizeMax + 1)
  <2>1. /\ HttpTypes' /\ BytesInv(r)' /\ AnswerInv(r)' /\ stage'[r] = "answered"
        /\ answer'[r] \in RpcAnswers
    BY <1>1, <1>2, <1>3, <1>4 DEF HttpInv, ConnInv, HttpTypes
  <2>2. /\ kind[r].path = "api" /\ kind[r].length # <<>>
        /\ got'[r] = SizeT(Head(kind[r].length))
    BY <1>3, <2>1 DEF AnswerInv
  <2>3. got'[r] <= sent[r]
    BY <1>3, <2>1 DEF HttpTypes, BytesInv
  <2>4. SizeT(Head(kind[r].length)) \in Int /\ sent[r] \in Nat
    BY <1>1, <2>1, <2>2 DEF HttpTypes
  <2> QED
    BY <2>2, <2>3, <2>4 DEF SizeT
<1>6. ~Promise!Stranger(kind[r])
  BY <1>1, AuthenticFacts DEF ConnInv, ReadingInv, Promise!Stranger
<1>7. engine => <<answer'[r], ran'[r]>> \in Promise!Results(kind[r])
  BY <1>1, <1>4, RunsAndReply DEF Promise!Results
<1>8. Promise!Fits(kind[r], sent[r], answer'[r], ran'[r])
  BY <1>4, <1>5, <1>6, <1>7 DEF Promise!Fits
<1>9. stage[r] \in {"head", "reading", "data"} /\ HttpTypes'
  BY <1>1, <1>2 DEF HttpInv
<1> QED
  BY <1>1, <1>3, <1>4, <1>8, <1>9, AnswerSeen

\* Every step of the service is one that its clients were promised, or none to them.
LEMMA StepSeen ==
  ServiceInv /\ [Next]_vars => ClientSees
<1> SUFFICES ASSUME ServiceInv, [Next]_vars PROVE ClientSees
  OBVIOUS
<1>1. ASSUME UNCHANGED <<httpVars, engine>> PROVE ClientSees
  BY <1>1 DEF httpVars, bodyVars, ClientSees, Places, Place
<1>2. CASE RunPool
  <2>1. PICK r \in Requests :
          Unauthorized(r, engine) \/ ServePage(r, engine) \/ StartReading(r, engine)
          \/ ReadOn(r) \/ Call(r, engine)
    BY <1>2 DEF RunPool, PoolStep
  <2>2. UNCHANGED engine /\ HttpTypes
    BY <1>2 DEF RunPool, ServiceInv, HttpInv
  <2>3. CASE ReadOn(r)
    BY <2>2, <2>3, PlaceSame DEF ReadOn, ClientSees
  <2> QED
    BY <2>1, <2>2, <2>3, HeadSeen, CallSeen
<1> QED
  BY <1>1, <1>2, IoSeen, ClientSeen DEF Next, Ended, vars

\* Each client is served by the contract: one answer or none, methods that run once, in
\* the step that answers, for a caller who may and a body that was sent as announced.
THEOREM ServiceKeepsPromise == Spec => KeepsPromise
<1>1. Init => Promise!Init
  <2> SUFFICES ASSUME Init PROVE Promise!Init
    OBVIOUS
  <2>1. \A r \in Requests : kind[r] \in Kinds[r]
    BY KindsAssumption DEF Init, HttpInit
  <2>2. [r \in Requests |-> Place(r)] = [r \in Requests |-> "unsent"]
    BY DEF Init, HttpInit, Place
  <2> QED
    BY <2>1, <2>2 DEF Init, HttpInit, Zero, Promise!Init
<1>2. ServiceInv /\ [Next]_vars
        => [Promise!Next]_<<kind, [r \in Requests |-> Place(r)], sent, ran, answer, engine>>
  BY StepSeen DEF ClientSees, Places
<1> QED
  BY <1>1, <1>2, ServiceSafety, PTL DEF Spec, KeepsPromise, Promise!Spec, Promise!vars

-----------------------------------------------------------------------------
(* The tasks of the pool *)

\* Every connection that waits for a handler has one task, and no other has any: no
\* head and no chunk is left lying, none is handled twice, and none after its answer.
OneTask ==
  /\ \A i, j \in 1..Len(pool) : pool[i] = pool[j] => i = j
  /\ \A r \in Requests : stage[r] \in {"head", "data"} <=> \E i \in 1..Len(pool) : pool[i] = r

\* A task is added for a connection that has none.
LEMMA PostTask ==
  ASSUME HttpTypes, OneTask, NEW r \in Requests, stage[r] \notin {"head", "data"},
         NEW s \in {"head", "data"}, stage' = [stage EXCEPT ![r] = s], pool' = Append(pool, r)
  PROVE  OneTask'
<1>1. /\ Len(pool') = Len(pool) + 1 /\ Len(pool) \in Nat
      /\ \A i \in 1..Len(pool) : pool'[i] = pool[i]
      /\ pool'[Len(pool) + 1] = r
  BY AppendProperties, LenProperties DEF HttpTypes
<1>2. \A i \in 1..Len(pool) : pool[i] # r
  BY DEF OneTask
<1>3. \A i \in 1..Len(pool') : i \in 1..Len(pool) \/ i = Len(pool) + 1
  BY <1>1
<1>4. ASSUME NEW i \in 1..Len(pool'), NEW j \in 1..Len(pool'), pool'[i] = pool'[j] PROVE i = j
  BY <1>1, <1>2, <1>3, <1>4 DEF OneTask
<1>5. ASSUME NEW q \in Requests
      PROVE  stage'[q] \in {"head", "data"} <=> \E i \in 1..Len(pool') : pool'[i] = q
  <2>1. CASE q = r
    <3>1. Len(pool) + 1 \in 1..Len(pool')
      BY <1>1
    <3>2. stage'[q] = s
      BY <2>1 DEF HttpTypes
    <3> QED
      BY <1>1, <2>1, <3>1, <3>2
  <2>2. CASE q # r
    <3>1. stage'[q] = stage[q]
      BY <2>2 DEF HttpTypes
    <3>2. (\E i \in 1..Len(pool') : pool'[i] = q) <=> \E i \in 1..Len(pool) : pool[i] = q
      BY <1>1, <1>3, <2>2
    <3> QED
      BY <3>1, <3>2 DEF OneTask
  <2> QED
    BY <2>1, <2>2
<1> QED
  BY <1>4, <1>5 DEF OneTask

\* The first task is done, and its connection waits for no handler.
LEMMA TaskDone ==
  ASSUME HttpTypes, OneTask, NEW r \in Requests, NEW s, s \notin {"head", "data"},
         stage' = [stage EXCEPT ![r] = s], Task(r)
  PROVE  OneTask'
<1>1. pool # <<>> /\ pool \in Seq(Requests) /\ Head(pool) = r /\ pool' = Tail(pool)
  BY DEF Task, HttpTypes
<1>2. /\ Len(pool) \in Nat /\ Len(pool') = Len(pool) - 1 /\ 1 \in 1..Len(pool) /\ pool[1] = r
      /\ \A i \in 1..Len(pool') : i + 1 \in 1..Len(pool) /\ i + 1 # 1 /\ pool'[i] = pool[i + 1]
  BY <1>1, HeadTailProperties, HeadElement, LenProperties, TailElement
<1>3. \A i \in 1..Len(pool) : i # 1 => i - 1 \in 1..Len(pool') /\ pool'[i - 1] = pool[i]
  BY <1>2
<1>4. ASSUME NEW i \in 1..Len(pool'), NEW j \in 1..Len(pool'), pool'[i] = pool'[j] PROVE i = j
  <2>1. i + 1 = j + 1
    BY <1>2, <1>4 DEF OneTask
  <2> QED
    BY <1>2, <2>1
<1>5. \A i \in 1..Len(pool') : pool'[i] # r
  BY <1>2 DEF OneTask
<1>6. ASSUME NEW q \in Requests
      PROVE  stage'[q] \in {"head", "data"} <=> \E i \in 1..Len(pool') : pool'[i] = q
  <2>1. CASE q = r
    <3>1. stage'[q] = s
      BY <2>1 DEF HttpTypes
    <3> QED
      BY <2>1, <3>1, <1>5
  <2>2. CASE q # r
    <3>1. stage'[q] = stage[q]
      BY <2>2 DEF HttpTypes
    <3>2. (\E i \in 1..Len(pool) : pool[i] = q) => \E i \in 1..Len(pool') : pool'[i] = q
      BY <1>2, <1>3, <2>2
    <3>3. (\E i \in 1..Len(pool') : pool'[i] = q) => \E i \in 1..Len(pool) : pool[i] = q
      BY <1>2
    <3> QED
      BY <3>1, <3>2, <3>3 DEF OneTask
  <2> QED
    BY <2>1, <2>2
<1> QED
  BY <1>4, <1>6 DEF OneTask

\* A connection that is hung up on, or gets more, has no task and gets none.
LEMMA TaskSame ==
  ASSUME HttpTypes, OneTask, UNCHANGED pool,
         \/ UNCHANGED stage
         \/ \E r \in Requests : stage[r] = "reading" /\ stage' = [stage EXCEPT ![r] = "closed"]
  PROVE  OneTask'
<1>1. \A q \in Requests : stage'[q] \in {"head", "data"} <=> stage[q] \in {"head", "data"}
  BY DEF HttpTypes
<1> QED
  BY <1>1 DEF OneTask

\* Every step posts, does or leaves the tasks.
LEMMA StepTasks == ServiceInv /\ OneTask /\ [Next]_vars => OneTask'
<1> SUFFICES ASSUME ServiceInv, OneTask, [Next]_vars PROVE OneTask'
  OBVIOUS
<1>0. HttpTypes
  BY DEF ServiceInv, HttpInv
<1>1. CASE UNCHANGED <<httpVars, engine>>
  BY <1>0, <1>1, TaskSame DEF httpVars
<1>2. CASE RunIo
  <2>1. ASSUME NEW r \in Requests, NEW k \in Kinds[r], ReceiveHead(r, k) PROVE OneTask'
    BY <1>0, <2>1, PostTask DEF ReceiveHead
  <2>2. ASSUME NEW r \in Requests, NEW n, ReadSome(r, n) PROVE OneTask'
    BY <1>0, <2>2, PostTask DEF ReadSome
  <2>3. ASSUME NEW r \in Requests, ReadFails(r) PROVE OneTask'
    BY <1>0, <2>3, TaskSame DEF ReadFails
  <2> QED
    BY <1>2, <2>1, <2>2, <2>3 DEF RunIo, Receive, Read
<1>3. CASE RunPool
  <2>1. PICK r \in Requests :
          Unauthorized(r, engine) \/ ServePage(r, engine) \/ StartReading(r, engine)
          \/ ReadOn(r) \/ Call(r, engine)
    BY <1>3 DEF RunPool, PoolStep
  <2>2. Task(r) /\ \E s \in {"answered", "closed", "reading"} : stage' = [stage EXCEPT ![r] = s]
    BY <2>1 DEF Unauthorized, ServePage, StartReading, ReadOn, Call, Write
  <2>3. PICK s \in {"answered", "closed", "reading"} : stage' = [stage EXCEPT ![r] = s]
    BY <2>2
  <2> QED
    BY <1>0, <2>2, <2>3, TaskDone
<1>4. CASE Clients
  BY <1>0, <1>4, TaskSame DEF Clients, ClientStep, SendBody
<1> QED
  BY <1>1, <1>2, <1>3, <1>4 DEF Next, Ended, vars

\* The pool holds the tasks of the connections that wait for a handler, one each.  What
\* RequestsAnswered needs of safety: only a pool that does not run keeps a request waiting.
THEOREM EachHasOneTask == Spec => []OneTask
<1>1. Init => OneTask
  <2> SUFFICES ASSUME Init PROVE OneTask
    OBVIOUS
  <2>1. 1..Len(pool) = {}
    BY EmptySeq DEF Init, HttpInit
  <2> QED
    BY <2>1 DEF Init, HttpInit, OneTask
<1> QED
  BY <1>1, StepTasks, ServiceSafety, PTL DEF Spec

-----------------------------------------------------------------------------
(* The bytes of a body, and the turns that a request has yet to take *)

\* What one connection holds stays as it is.
Same(r) ==
  /\ kind'[r] = kind[r] /\ stage'[r] = stage[r] /\ unread'[r] = unread[r]
  /\ sent'[r] = sent[r] /\ chunk'[r] = chunk[r] /\ left'[r] = left[r] /\ got'[r] = got[r]

\* What a step can do to the bytes and the stage of its connection.
Moves(r) ==
  \/ /\ stage[r] = "unsent" /\ stage'[r] = "head" /\ kind'[r] \in Kinds[r]
     /\ unread'[r] = unread[r] /\ sent'[r] = sent[r] /\ got'[r] = got[r]
  \/ /\ kind'[r] = kind[r] /\ stage[r] \in {"head", "reading", "data"} /\ stage'[r] = stage[r]
     /\ sent'[r] > sent[r] /\ unread'[r] = unread[r] + (sent'[r] - sent[r])
     /\ chunk'[r] = chunk[r] /\ left'[r] = left[r] /\ got'[r] = got[r]
  \/ /\ kind'[r] = kind[r] /\ stage[r] = "reading" /\ stage'[r] = "data" /\ sent'[r] = sent[r]
     /\ chunk'[r] > 0 /\ unread'[r] = unread[r] - chunk'[r] /\ got'[r] = got[r]
  \/ /\ kind'[r] = kind[r] /\ stage[r] \in {"head", "reading"} /\ stage'[r] \in {"answered", "closed"}
     /\ sent'[r] = sent[r] /\ unread'[r] = unread[r] /\ got'[r] = got[r]
  \/ /\ kind'[r] = kind[r] /\ stage[r] = "head" /\ stage'[r] = "reading"
     /\ left'[r] = SizeT(Head(kind[r].length))
     /\ sent'[r] = sent[r] /\ unread'[r] = unread[r] /\ got'[r] = got[r]
  \/ /\ kind'[r] = kind[r] /\ stage[r] = "data" /\ got'[r] = got[r] + chunk[r]
     /\ sent'[r] = sent[r] /\ unread'[r] = unread[r]
     /\ stage'[r] = "answered" \/ (stage'[r] = "reading" /\ left'[r] > 0)

\* Every step is of one connection, or of none.
LEMMA OneMoves ==
  ASSUME ServiceInv, [Next]_vars, NEW r \in Requests
  PROVE  Same(r) \/ Moves(r)
<1>0. HttpInv /\ HttpTypes
  BY DEF ServiceInv, HttpInv
<1>1. CASE UNCHANGED <<httpVars, engine>>
  BY <1>1 DEF httpVars, bodyVars, Same
<1>2. CASE RunIo
  <2>1. ASSUME NEW q \in Requests, NEW k \in Kinds[q], ReceiveHead(q, k) PROVE Same(r) \/ Moves(r)
    BY <1>0, <2>1 DEF ReceiveHead, bodyVars, HttpTypes, Same, Moves
  <2>2. ASSUME NEW q \in Requests, NEW n \in 1..unread[q], ReadSome(q, n)
        PROVE  Same(r) \/ Moves(r)
    <3>1. n > 0 /\ n \in Nat
      BY <1>0 DEF HttpTypes
    <3> QED
      BY <1>0, <2>2, <3>1 DEF ReadSome, HttpTypes, Same, Moves
  <2>3. ASSUME NEW q \in Requests, ReadFails(q) PROVE Same(r) \/ Moves(r)
    BY <1>0, <2>3 DEF ReadFails, bodyVars, HttpTypes, Same, Moves
  <2> QED
    BY <1>2, <2>1, <2>2, <2>3 DEF RunIo, Receive, Read
<1>3. CASE RunPool
  <2>1. PICK q \in Requests :
          Unauthorized(q, engine) \/ ServePage(q, engine) \/ StartReading(q, engine)
          \/ ReadOn(q) \/ Call(q, engine)
    BY <1>3 DEF RunPool, PoolStep
  <2>2. CASE Unauthorized(q, engine) \/ ServePage(q, engine)
    BY <1>0, <2>2 DEF Unauthorized, ServePage, Write, bodyVars, HttpTypes, Same, Moves
  <2>3. CASE StartReading(q, engine)
    BY <1>0, <2>3 DEF StartReading, HttpTypes, Same, Moves
  <2>4. CASE ReadOn(q)
    BY <1>0, <2>4 DEF ReadOn, HttpTypes, Same, Moves
  <2>5. CASE Call(q, engine)
    BY <1>0, <2>5 DEF Call, Write, HttpTypes, Same, Moves
  <2> QED
    BY <2>1, <2>2, <2>3, <2>4, <2>5
<1>4. CASE Clients
  <2>1. PICK q \in Requests : \E n \in 1..kind[q].body : SendBody(q, n)
    BY <1>4 DEF Clients, ClientStep
  <2>2. PICK n \in 1..kind[q].body : SendBody(q, n)
    BY <2>1
  <2>3. n \in Nat /\ n > 0
    BY <1>0, Known
  <2> QED
    BY <1>0, <2>2, <2>3 DEF SendBody, HttpTypes, Same, Moves
<1> QED
  BY <1>1, <1>2, <1>3, <1>4 DEF Next, Ended, vars

\* Every byte that was sent is in the body, in the chunk at hand or unread; and what is
\* left is 0 between two reads only for a length that is announced as 0.
CountInv(r) ==
  /\ got[r] + unread[r] + (IF stage[r] = "data" THEN chunk[r] ELSE 0) = sent[r]
  /\ stage[r] = "reading" => left[r] > 0 \/ SizeT(Head(kind[r].length)) = 0

\* Every step keeps the count.
LEMMA CountStep ==
  ASSUME ServiceInv, [Next]_vars, NEW r \in Requests, CountInv(r)
  PROVE  CountInv(r)'
<1>1. /\ got[r] \in Nat /\ unread[r] \in Nat /\ chunk[r] \in Nat /\ sent[r] \in Nat
      /\ left[r] \in Nat
  BY SizeAssumption DEF ServiceInv, HttpInv, HttpTypes
<1>2. HttpTypes'
  BY ServiceStep DEF ServiceInv, HttpInv
<1>3. /\ got'[r] \in Nat /\ unread'[r] \in Nat /\ chunk'[r] \in Nat /\ sent'[r] \in Nat
      /\ left'[r] \in Nat
  BY <1>2, SizeAssumption DEF HttpTypes
<1>4. CASE Same(r)
  BY <1>4 DEF Same, CountInv
<1>5. CASE Moves(r)
  BY <1>1, <1>3, <1>5 DEF Moves, CountInv
<1> QED
  BY <1>4, <1>5, OneMoves

\* The count of the bytes, in every reachable state.
LEMMA CountsRight == Spec => [](\A r \in Requests : CountInv(r))
<1> DEFINE Inv == \A r \in Requests : CountInv(r)
<1>1. Init => Inv
  BY DEF Init, HttpInit, Zero, CountInv
<1>2. ServiceInv /\ Inv /\ [Next]_vars => Inv'
  BY CountStep
<1> QED
  BY <1>1, <1>2, ServiceSafety, PTL DEF Spec

\* A connection that is read from has bytes to read, unless its client has sent less than
\* it announced, or the reading has run past that: no request whose body is as long as
\* announced waits for what was read already, whatever the pieces and the width of a
\* length.  With EachHasOneTask, this is what RequestsAnswered needs of the code beside
\* fairness.
THEOREM NoneStranded ==
  Spec => [](\A r \in Requests : stage[r] = "reading" => unread[r] > 0 \/ Owes(r) \/ RunPast(r))
<1>1. ServiceInv /\ (\A r \in Requests : CountInv(r))
        => \A r \in Requests : stage[r] = "reading" => unread[r] > 0 \/ Owes(r) \/ RunPast(r)
  <2> SUFFICES ASSUME ServiceInv, NEW r \in Requests, CountInv(r), stage[r] = "reading",
                      ~(unread[r] > 0), ~Owes(r), ~RunPast(r)
               PROVE  FALSE
    OBVIOUS
  <2> DEFINE n == Head(kind[r].length)
             g == got[r]
  <2>1. HttpTypes /\ kind[r] \in Kind /\ ConnInv(r)
    BY Known DEF ServiceInv
  <2>2. n \in Int /\ left[r] = SizeT(n - g)
    BY <2>1 DEF ConnInv, ReadingInv, Kind
  <2>3. g \in Nat /\ unread[r] \in Nat /\ sent[r] \in Nat /\ left[r] \in Nat
    BY <2>1, SizeAssumption DEF HttpTypes
  <2>4. g = sent[r] /\ unread[r] = 0
    BY <2>3 DEF CountInv
  <2>5. SizeT(n) \in 1..SizeMax /\ sent[r] = SizeT(n)
    <3>1. SizeT(n) \in 0..SizeMax
      BY <2>2, SizeType
    <3>2. SizeT(n) # 0 /\ ~(g > SizeT(n)) /\ ~(sent[r] < SizeT(n))
      BY DEF Owes, RunPast, Announced
    <3> QED
      BY <2>3, <2>4, <3>1, <3>2, SizeAssumption
  <2> HIDE DEF n, g
  <2>6. SizeT(n - g) = 0
    <3>1. SizeT(SizeT(n) - g) = 0
      BY <2>3, <2>4, <2>5, SizeAssumption DEF SizeT
    <3>2. SizeT(SizeT(n - 0) - g) = SizeT(n - (0 + g))
      BY <2>2, <2>3, SizeMinus
    <3> QED
      BY <2>2, <2>3, <3>1, <3>2
  <2>7. left[r] > 0 \/ SizeT(n) = 0
    BY DEF CountInv, n
  <2> QED
    BY <2>2, <2>5, <2>6, <2>7
<1> QED
  BY <1>1, CountsRight, ServiceSafety, PTL

\* Turns of the pool and the io_service that a request may still take, each byte counted
\* as a read of its own.
Turns(r) == IF stage[r] \in {"head", "data"} THEN 2 ELSE IF stage[r] = "reading" THEN 1 ELSE 0
Debt(r)  == 2 * (kind[r].body - sent[r] + unread[r]) + Turns(r)

\* Every turn of a request brings it nearer to its end, whatever the lengths, the pieces
\* and the other requests are: none circles between reading and reading on.
THEOREM EachTurnCounts ==
  Spec => [][\A r \in Requests : stage[r] # "unsent" =>
               /\ Debt(r) \in Nat /\ Debt(r)' <= Debt(r)
               /\ stage'[r] # stage[r] => Debt(r)' < Debt(r)]_vars
<1>1. ServiceInv /\ [Next]_vars
        => [\A r \in Requests : stage[r] # "unsent" =>
              /\ Debt(r) \in Nat /\ Debt(r)' <= Debt(r)
              /\ stage'[r] # stage[r] => Debt(r)' < Debt(r)]_vars
  <2> SUFFICES ASSUME ServiceInv, [Next]_vars, NEW r \in Requests, stage[r] # "unsent"
               PROVE  /\ Debt(r) \in Nat /\ Debt(r)' <= Debt(r)
                      /\ stage'[r] # stage[r] => Debt(r)' < Debt(r)
    OBVIOUS
  <2>1. kind[r].body \in Nat /\ sent[r] \in Nat /\ unread[r] \in Nat /\ sent[r] <= kind[r].body
    BY Known, SizeAssumption DEF ServiceInv, HttpTypes, ConnInv, BytesInv
  <2>2. HttpTypes'
    BY ServiceStep DEF ServiceInv, HttpInv
  <2>3. sent'[r] \in Nat /\ unread'[r] \in Nat /\ chunk'[r] \in Nat
    BY <2>2 DEF HttpTypes
  <2>4. Debt(r) \in Nat
    BY <2>1 DEF Debt, Turns
  <2>5. CASE Same(r)
    BY <2>1, <2>4, <2>5 DEF Same, Debt, Turns
  <2>6. CASE Moves(r)
    BY <2>1, <2>3, <2>4, <2>6 DEF Moves, Debt, Turns
  <2> QED
    BY <2>4, <2>5, <2>6, OneMoves
<1> QED
  BY <1>1, ServiceSafety, PTL DEF Spec

\* The places that main() has still before it, from each.
ToGo ==
  [initialize |-> 11, startup |-> 10, config |-> 9, start |-> 8, complete |-> 7, await |-> 6,
   run |-> 5, shutdown |-> 4, stop |-> 3, stopped |-> 2, reported |-> 1, exited |-> 0]

\* The safety half of StopEndsService.  While main() is in io_->run(), and only then, the
\* wait of wait_for_exit is registered or its handler is on its way (main() goes on); nothing
\* but a control takes the wait away, and that wakes main(); nothing but the shutdown uses
\* that up.  Each step of main() is one forward, through a failed start too, and no other
\* step, of a thread, a request or the manager, sets it back.
THEOREM WaitIsKept ==
  Spec => /\ []((waiting \/ woken) = (pc = "run"))
          /\ [][/\ waiting /\ ~waiting' => control = "cancel" /\ woken'
                /\ woken /\ ~woken' => pc' = "shutdown"
                /\ IF MainStep THEN ToGo[pc'] < ToGo[pc] ELSE pc' = pc]_vars
<1>1. ServiceInv => (waiting \/ woken) = (pc = "run")
  BY DEF ServiceInv, HostInv
<1>2. ServiceInv /\ [Next]_vars
        => [/\ waiting /\ ~waiting' => control = "cancel" /\ woken'
            /\ woken /\ ~woken' => pc' = "shutdown"
            /\ IF MainStep THEN ToGo[pc'] < ToGo[pc] ELSE pc' = pc]_vars
  <2> SUFFICES ASSUME ServiceInv, [Next]_vars
               PROVE  /\ waiting /\ ~waiting' => control = "cancel" /\ woken'
                      /\ woken /\ ~woken' => pc' = "shutdown"
                      /\ IF MainStep THEN ToGo[pc'] < ToGo[pc] ELSE pc' = pc
    OBVIOUS
  <2> USE DEF Goto, Dispatch, startVars, startupVars, statusVars, signalVars
  <2>1. CASE MainStep
    <3>1. /\ waiting /\ ~waiting' => control = "cancel" /\ woken'
          /\ woken /\ ~woken' => pc' = "shutdown"
      BY <2>1 DEF MainStep, InitializationFails, InitializationStart, WaitForStartup, ReadConfig,
                  AppStart, InitializationComplete, AsyncWait, Wake, ShutdownStart, AppStop,
                  ShutdownComplete, Exit
    <3>2. ToGo[pc'] < ToGo[pc]
      BY <2>1 DEF ToGo, MainStep, InitializationFails, InitializationStart, WaitForStartup,
                  ReadConfig, AppStart, InitializationComplete, AsyncWait, Wake, ShutdownStart,
                  AppStop, ShutdownComplete, Exit
    <3> QED
      BY <2>1, <3>1, <3>2
  <2>2. CASE ~MainStep
    <3>1. CASE DispatcherStep
      BY <2>2, <3>1 DEF DispatcherStep, Unconnected, Connect, RegisterFails, Register,
                        ReportPending, SetEvent
    <3>2. CASE ControlStep \/ SendControl
      <4>1. CASE Cancel
        <5>1. control = "cancel" /\ woken' = (woken \/ waiting) /\ pc' = pc
          BY <4>1 DEF Cancel
        <5>2. ASSUME waiting \/ woken PROVE woken'
          <6> DEFINE either == woken \/ waiting
          <6>1. either = TRUE
            BY <5>2
          <6>2. woken' = either
            BY <5>1
          <6> HIDE DEF either
          <6> QED
            BY <6>1, <6>2
        <5> QED
          BY <2>2, <5>1, <5>2
      <4>2. CASE ReportStop \/ SendControl
        BY <2>2, <4>2 DEF ReportStop, SendControl
      <4> QED
        BY <3>2, <4>1, <4>2 DEF ControlStep
    <3>3. CASE UNCHANGED serviceVars
      BY <2>2, <3>3 DEF serviceVars
    <3> QED
      BY <2>2, <3>1, <3>2, <3>3 DEF Next, Host, RunIo, RunPool, Clients, Ended, vars
  <2> QED
    BY <2>1, <2>2
<1> QED
  BY <1>1, <1>2, ServiceSafety, PTL DEF Spec
=============================================================================
