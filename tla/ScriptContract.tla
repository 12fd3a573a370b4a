--------------------------- MODULE ScriptContract ---------------------------
(***************************************************************************)
(* What script_host promises of the JavaScript engine to those who call    *)
(* it, without its threads' places, its mutex and the queues on the way:   *)
(* one caller at a time is inside; events are emitted in the order in      *)
(* which they were handed over; the state is saved once, and from then on  *)
(* neither an event nor a tick reaches the scripts.  ScriptHost implements *)
(* it.                                                                     *)
(***************************************************************************)
EXTENDS Naturals, Sequences

CONSTANT Callers  \* the threads, "main" and "ticker" among them

VARIABLES
  life,    \* of the engine
  inside,  \* who is in it
  handed,  \* the events handed over
  emitted  \* the events that the scripts have handled

vars == <<life, inside, handed, emitted>>

Init == life = "new" /\ inside = {} /\ handed = <<>> /\ emitted = <<>>

\* Ticks come only while the engine is open, and main comes last to save.
MayEnter(c) ==
  CASE c = "ticker" -> life = "serving"
    [] c = "main"   -> life \in {"new", "serving"}
    [] OTHER        -> life # "ended"

Enter(c) ==
  /\ inside = {} /\ MayEnter(c)
  /\ inside' = {c}
  /\ UNCHANGED <<life, handed, emitted>>

Leave(c) ==
  /\ inside = {c}
  /\ inside' = {}
  /\ UNCHANGED <<life, handed, emitted>>

\* main has loaded the scripts.
Open ==
  /\ life = "new" /\ inside = {"main"}
  /\ life' = "serving" /\ inside' = {}
  /\ UNCHANGED <<handed, emitted>>

\* Events are handed over, whatever the engine does.
HandOver ==
  /\ life # "ended"
  /\ Len(handed) <= Len(handed')
  /\ \A i \in 1..Len(handed) : handed'[i] = handed[i]
  /\ UNCHANGED <<life, inside, emitted>>

\* main leaves, and the first event not yet emitted is.
Emitted ==
  /\ life \in {"new", "serving"} /\ inside = {"main"} /\ inside' = {}
  /\ Len(emitted) < Len(handed)
  /\ emitted' = Append(emitted, handed[Len(emitted) + 1])
  /\ UNCHANGED <<life, handed>>

\* main, inside, begins to save.
Save ==
  /\ life = "serving" /\ inside = {"main"}
  /\ life' = "saving"
  /\ UNCHANGED <<inside, handed, emitted>>

\* The process ends or is killed.
End ==
  /\ life # "ended"
  /\ life' = "ended" /\ inside' = {}
  /\ UNCHANGED <<handed, emitted>>

Next ==
  \/ \E c \in Callers : Enter(c) \/ Leave(c)
  \/ Open \/ HandOver \/ Emitted \/ Save \/ End

Spec == Init /\ [][Next]_vars
=============================================================================
