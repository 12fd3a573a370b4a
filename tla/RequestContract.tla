-------------------------- MODULE RequestContract --------------------------
(***************************************************************************)
(* What the HTTP server promises to each of its clients, without its pool, *)
(* the pieces in which a body arrives and the counting of what is left: a  *)
(* request has one answer, or none and its connection is closed; methods   *)
(* run in the very step that answers, once, for a caller who may and only  *)
(* after all that was announced has been sent; and what happens to one     *)
(* request is nothing to the others.  Service implements it.               *)
(***************************************************************************)
EXTENDS Integers, Sequences

CONSTANTS Requests,  \* the connections
          Kinds,     \* what each may ask, see HttpServer
          SizeMax    \* the largest length

VARIABLES
  kind,    \* what each asks; arbitrary before it is asked
  place,   \* whether it is asked, and how it ended
  sent,    \* bytes of its body that the client has sent
  ran,     \* methods that were run for it
  answer,  \* what it was answered
  engine   \* the scripts are there to authenticate and to run methods

vars == <<kind, place, sent, ran, answer, engine>>

Init ==
  /\ \A r \in Requests : kind[r] \in Kinds[r]
  /\ place = [r \in Requests |-> "unsent"] /\ sent = [r \in Requests |-> 0]
  /\ ran = [r \in Requests |-> 0] /\ answer = [r \in Requests |-> "none"]
  /\ engine \in BOOLEAN

Become(r, p) == place' = [place EXCEPT ![r] = p]

\* A client asks.
Asks(r) ==
  /\ place[r] = "unsent" /\ Become(r, "open")
  /\ \E k \in Kinds[r] : kind' = [kind EXCEPT ![r] = k]
  /\ UNCHANGED <<sent, ran, answer, engine>>

\* It sends more, as long as it waits.
Sends(r) ==
  /\ place[r] = "open"
  /\ sent'[r] > sent[r] /\ sent'[r] <= kind[r].body
  /\ sent' = [sent EXCEPT ![r] = sent'[r]]
  /\ UNCHANGED <<kind, place, ran, answer, engine>>

\* Who may not be refused, and who may not be served.
Known(k)    == k.auth = "right" /\ engine
Stranger(k) == k.auth = "none" \/ (k.auth = "wrong" /\ engine)

\* What a served call is answered, after n of its methods were run.
Results(k) ==
  {<<"result", Len(k.calls)>>, <<"notFound", 0>>}
  \cup {<<"serverError", n>> : n \in 0..Len(k.calls)}

\* The answers that fit, each with the number of methods that were run for it.
Fits(k, total, a, n) ==
  \/ a = "401" /\ n = 0 /\ ~Known(k)
  \/ ~Stranger(k) /\ k.path # "api" /\ a \in {"301", "404", "200"} /\ n = 0
  \/ /\ ~Stranger(k) /\ k.path = "api"
     /\ k.length # <<>> /\ total >= Head(k.length) % (SizeMax + 1)
     /\ IF engine THEN <<a, n>> \in Results(k) ELSE a = "empty" /\ n = 0

Answers(r) ==
  /\ place[r] = "open" /\ Become(r, "answered")
  /\ Fits(kind[r], sent[r], answer'[r], ran'[r])
  /\ answer' = [answer EXCEPT ![r] = answer'[r]]
  /\ ran' = [ran EXCEPT ![r] = ran'[r]]
  /\ UNCHANGED <<kind, sent, engine>>

\* Only a call is hung up on: one without a length, or one whose client has gone.
HangsUp(r) ==
  /\ place[r] = "open" /\ Become(r, "closed")
  /\ kind[r].path = "api" /\ ~Stranger(kind[r])
  /\ UNCHANGED <<kind, sent, ran, answer, engine>>

Next == \E r \in Requests : Asks(r) \/ Sends(r) \/ Answers(r) \/ HangsUp(r)

Spec == Init /\ [][Next]_vars
=============================================================================
