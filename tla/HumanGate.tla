----------------------------- MODULE HumanGate -----------------------------
(***************************************************************************)
(* What holding calls for a human promises, without pages, handlers,       *)
(* channels or timers: a call is asked about once; at most one decision is *)
(* taken about it, and only while it is waiting; it comes back with that   *)
(* decision or with a timeout, never with a decision nobody took.          *)
(***************************************************************************)
CONSTANT Calls

VARIABLES
  asked,    \* the calls a human has been asked about
  decided,  \* decided[c]: the decision taken on c, or "none"
  outcome   \* outcome[c]: what Request returned for c, or "none"

gateVars == <<asked, decided, outcome>>

Init == /\ asked = {}
        /\ decided = [c \in Calls |-> "none"]
        /\ outcome = [c \in Calls |-> "none"]

Ask(c) ==
  /\ c \notin asked
  /\ asked' = asked \cup {c}
  /\ UNCHANGED <<decided, outcome>>

Decide(c, d) ==
  /\ c \in asked /\ decided[c] = "none" /\ outcome[c] = "none"
  /\ decided' = [decided EXCEPT ![c] = d]
  /\ UNCHANGED <<asked, outcome>>

Return(c, o) ==
  /\ c \in asked /\ outcome[c] = "none"
  /\ o = "TimedOut" \/ o = decided[c]
  /\ outcome' = [outcome EXCEPT ![c] = o]
  /\ UNCHANGED <<asked, decided>>

Next == \E c \in Calls :
          \/ Ask(c)
          \/ \E d \in {"Approved", "Rejected"} : Decide(c, d)
          \/ \E o \in {"Approved", "Rejected", "TimedOut"} : Return(c, o)

Spec == Init /\ [][Next]_gateVars
=============================================================================
