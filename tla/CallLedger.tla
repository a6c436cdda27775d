----------------------------- MODULE CallLedger -----------------------------
(***************************************************************************)
(* What a session promises about the messages it is asked to carry,        *)
(* without goroutines, ids or tables: a message is passed to the server or *)
(* refused, never both; a tool that needs a human's consent passes only    *)
(* with it; and the ledger holds at most one entry per message, true of    *)
(* its fate, a completed call's entry being paired with its own answer.    *)
(***************************************************************************)
EXTENDS PolicyEngine, Integers, Sequences

CONSTANT NoTool    \* the tool of a message that is not a tool call

VARIABLES
  asked,     \* the tool of each message asked for, in order
  consent,   \* the messages a human consented to
  passed,    \* the messages the server was given
  refused,   \* the messages refused
  answered,  \* the passed messages the server answered
  ledger     \* the entries: [tool, call, decision, result]

ledgerVars == <<asked, consent, passed, refused, answered, ledger>>

Messages == 1..Len(asked)
Open(n) == n \in Messages \ (passed \cup refused)
Fresh(n) == \A i \in 1..Len(ledger) : ledger[i].call # n

Init == /\ asked = <<>> /\ ledger = <<>>
        /\ consent = {} /\ passed = {} /\ refused = {} /\ answered = {}

Ask(tool) ==
  /\ asked' = Append(asked, tool)
  /\ UNCHANGED <<consent, passed, refused, answered, ledger>>

Consent(n) ==
  /\ Open(n) /\ Decide(asked[n]) = "RequireApproval"
  /\ consent' = consent \cup {n}
  /\ UNCHANGED <<asked, passed, refused, answered, ledger>>

Pass(n) ==
  /\ Open(n) /\ Decide(asked[n]) # "Deny"
  /\ Decide(asked[n]) = "RequireApproval" => n \in consent
  /\ passed' = passed \cup {n}
  /\ UNCHANGED <<asked, consent, refused, answered, ledger>>

Refuse(n) ==
  /\ Open(n)
  /\ refused' = refused \cup {n}
  /\ UNCHANGED <<asked, consent, passed, answered, ledger>>

Answer(n) ==
  /\ n \in passed \ answered
  /\ answered' = answered \cup {n}
  /\ UNCHANGED <<asked, consent, passed, refused, ledger>>

Enter(n, decision, result) ==
  /\ Fresh(n)
  /\ ledger' = Append(ledger, [tool |-> asked[n], call |-> n,
                               decision |-> decision, result |-> result])
  /\ UNCHANGED <<asked, consent, passed, refused, answered>>

RecordRefusal(n, decision) ==
  /\ n \in refused
  /\ decision \in {"rejected", "timeout"} =>
       Decide(asked[n]) = "RequireApproval" /\ n \notin consent
  /\ Enter(n, decision, 0)

RecordCompletion(n) ==
  /\ n \in answered
  /\ Enter(n, IF n \in consent THEN "approved" ELSE "allow", n)

Next ==
  \/ \E tool \in Tools \cup {NoTool} : Ask(tool)
  \/ \E n \in Messages :
       \/ Consent(n) \/ Pass(n) \/ Refuse(n) \/ Answer(n) \/ RecordCompletion(n)
       \/ \E d \in {"deny", "rejected", "timeout"} : RecordRefusal(n, d)

Spec == Init /\ [][Next]_ledgerVars
=============================================================================
