------------------------------ MODULE Gateway ------------------------------
(***************************************************************************)
(* The core of the proxy (internal/proxy): one client session.             *)
(*                                                                         *)
(* Two goroutines share the table of pending calls, the stream back to the *)
(* client and the audit log.                                               *)
(*   - The input goroutine reads a client message, decides what becomes of *)
(*     it (policy, human approval, reservation of its id) and only then    *)
(*     forwards it to the server or answers it itself with a policy error. *)
(*   - The output goroutine reads a server line, forwards it to the client *)
(*     FIRST, and only then looks its id up in the table and appends the   *)
(*     completed call to the log.                                          *)
(* Each step below is one access to state the two share: a step of a       *)
(* goroutine runs from one such access to the next.                        *)
(*                                                                         *)
(* Data abstraction.  A client message is its position n in sent, which    *)
(* stands for its raw bytes (and so for a call's arguments); its id is the *)
(* decoded id, what idKey returns; its size is what remember charges.  A   *)
(* server response carries, besides its id, the message it answers.        *)
(***************************************************************************)
EXTENDS PolicyEngine, Integers, Sequences, FiniteSetsExt

CONSTANTS
  Ids,             \* decoded JSON-RPC ids
  NoId,            \* "this message has no (valid) id"
  NoTool,          \* the empty tool name of a non-tool reservation
  ClientMessages,  \* what a client may send: [kind, id, tool, size]
  Auditing,        \* a log was opened (log # nil)
  HasApprover,     \* an approver was started (appr # nil)
  AppendMayFail,   \* the log's disk may fail an append
  NoiseKinds,      \* the lines a server may emit that answer nothing
  MaxPendingCalls, \* table capacity, in entries
  MaxPendingBytes, \* table capacity, in bytes
  MaxMessages,     \* bound: messages the client sends
  MaxNoise         \* bound: server lines that answer nothing

MessageKinds ==
  {"call",         \* a well-formed tools/call with an id
   "request",      \* any other method, with an id
   "notification", \* any other method, without an id
   "reply",        \* the client's response to a server request
   "invalid",      \* malformed or ambiguous: duplicate members, bad params...
   "batch",        \* a JSON array
   "oversize"}     \* longer than maxMessageBytes

ASSUME MessagesAssumption ==
  \A m \in ClientMessages :
    /\ m = [kind |-> m.kind, id |-> m.id, tool |-> m.tool, size |-> m.size]
    /\ m.kind \in MessageKinds
    /\ m.size \in Nat
    /\ m.id \in Ids \cup {NoId}
    /\ m.kind \in {"call", "request"} => m.id \in Ids
    /\ IF m.kind = "call" THEN m.tool \in Tools ELSE m.tool = NoTool
ASSUME NamesAssumption == NoTool \notin Tools /\ NoId \notin Ids
ASSUME LimitsAssumption ==
  /\ {Auditing, HasApprover, AppendMayFail} \subseteq BOOLEAN
  /\ NoiseKinds \subseteq {"request", "other", "oversize", "response"}
  /\ MaxPendingCalls \in Nat /\ MaxPendingBytes \in Nat
  /\ MaxMessages \in Nat /\ MaxNoise \in Nat

VARIABLES
  \* the client
  sent,        \* the messages written to the proxy, in order
  clientUp,    \* the client has not closed the proxy's input
  clientReads, \* the client still reads the proxy's output
  delivered,   \* what was written to the client
  \* the input goroutine
  inPc, next,  \* its next step; the position of the next message to read
  verdict,     \* how the current message is cleared or refused: [decision, why]
  approved,    \* the calls a human approved
  \* the shared pending table
  calls, bytes,
  \* the server
  forwarded,   \* the messages written to the server's stdin
  answered,    \* the messages the server has responded to
  serverUp,
  serverOut,   \* server lines not yet read by the output goroutine
  noise,
  \* the output goroutine
  outPc, line, taken,
  \* the log, and the end of the session
  log, lost,   \* the entries; the messages whose append failed
  phase        \* "running", "returned" (run is back), "closed" (log closed)

clientVars == <<sent, clientUp, clientReads>>
inputVars  == <<inPc, next, verdict, approved>>
tableVars  == <<calls, bytes>>
serverVars == <<forwarded, answered, serverUp, serverOut, noise>>
outputVars == <<outPc, line, taken>>
logVars    == <<log, lost>>
vars == <<clientVars, delivered, inputVars, tableVars, serverVars, outputVars,
          logVars, phase>>

None    == 0                              \* no message: positions start at 1
NoLine  == [kind |-> "none", id |-> NoId, call |-> None]
NoEntry == [tool |-> NoTool, call |-> None, decision |-> "none", size |-> 0]
NoVerdict == [decision |-> "none", why |-> "none"]

Cur == next - 1                           \* the message being handled
Msg == sent[Cur]

Init ==
  /\ sent = <<>> /\ clientUp = TRUE /\ clientReads = TRUE /\ delivered = {}
  /\ inPc = "read" /\ next = 1 /\ verdict = NoVerdict /\ approved = {}
  /\ calls = <<>> /\ bytes = 0
  /\ forwarded = {} /\ answered = {} /\ serverUp = TRUE /\ serverOut = <<>>
  /\ noise = 0
  /\ outPc = "read" /\ line = NoLine /\ taken = NoEntry
  /\ log = <<>> /\ lost = {} /\ phase = "running"

-----------------------------------------------------------------------------
\* The environment: the client and the wrapped server.

ClientSends(m) ==
  /\ clientUp /\ Len(sent) < MaxMessages
  /\ sent' = Append(sent, m)
  /\ UNCHANGED <<clientUp, clientReads, delivered, inputVars, tableVars,
                 serverVars, outputVars, logVars, phase>>

ClientCloses ==
  /\ clientUp
  /\ clientUp' = FALSE
  /\ UNCHANGED <<sent, clientReads, delivered, inputVars, tableVars,
                 serverVars, outputVars, logVars, phase>>

\* The client's reading end goes away: writes to it fail from here on.
ClientStopsReading ==
  /\ clientReads
  /\ clientReads' = FALSE
  /\ UNCHANGED <<sent, clientUp, delivered, inputVars, tableVars,
                 serverVars, outputVars, logVars, phase>>

Emits(l) == serverOut' = Append(serverOut, l)

\* Answers may come back in any order.
ServerAnswers(n) ==
  /\ serverUp /\ n \notin answered /\ sent[n].kind \in {"call", "request"}
  /\ answered' = answered \cup {n}
  /\ Emits([kind |-> "response", id |-> sent[n].id, call |-> n])
  /\ UNCHANGED <<clientVars, delivered, inputVars, tableVars, forwarded,
                 serverUp, noise, outputVars, logVars, phase>>

\* Server requests use an id space of their own, so any id may occur in one;
\* "other" stands for notifications and for lines isResponse does not accept,
\* "oversize" for a line longer than maxMessageBytes.
ServerAsks(kind, id) ==
  /\ serverUp /\ noise < MaxNoise
  /\ noise' = noise + 1
  /\ Emits([kind |-> kind, id |-> id, call |-> None])
  /\ UNCHANGED <<clientVars, delivered, inputVars, tableVars, forwarded,
                 answered, serverUp, outputVars, logVars, phase>>

ServerNoise ==
  \E kind \in NoiseKinds :
    \E id \in IF kind \in {"request", "response"} THEN Ids ELSE {NoId} :
      ServerAsks(kind, id)

\* The server only ever answers what it received, and once.
HonestServer == "response" \notin NoiseKinds

ServerExits ==
  /\ serverUp
  /\ serverUp' = FALSE
  /\ UNCHANGED <<clientVars, delivered, inputVars, tableVars, forwarded,
                 answered, serverOut, noise, outputVars, logVars, phase>>

Environment ==
  \/ \E m \in ClientMessages : ClientSends(m)
  \/ ClientCloses
  \/ ClientStopsReading
  \/ \E n \in forwarded : ServerAnswers(n)
  \/ ServerNoise
  \/ ServerExits

-----------------------------------------------------------------------------
\* The shared pieces.

\* syncWriter: a write fails once the stream is closed or the client is gone.
WriteSucceeds == clientReads /\ phase = "running"
WriteToClient(d) == delivered' = IF WriteSucceeds THEN delivered \cup {d}
                                                  ELSE delivered

\* Logger.Append as its callers see it: an entry, or an error on stderr.
AppendEntry(tool, n, decision, result) ==
  \/ /\ phase # "closed"
     /\ log' = Append(log, [tool |-> tool, call |-> n, decision |-> decision,
                            result |-> result])
     /\ UNCHANGED lost
  \/ /\ phase = "closed" \/ AppendMayFail
     /\ lost' = lost \cup {n}
     /\ UNCHANGED log

\* Fault: remember overwrites the entry of a call in flight.
Reused_Never(id) == FALSE
\* pending.remember, under its mutex: reuse is told before exhaustion.
Reused(id) == id \in DOMAIN calls
\* Fault: the entries are limited, their bytes are not.
Full_EntriesOnly(size) == Cardinality(DOMAIN calls) >= MaxPendingCalls
Full(size) == \/ Cardinality(DOMAIN calls) >= MaxPendingCalls
              \/ size > MaxPendingBytes - bytes

Insert(id, entry) ==
  calls' = [i \in DOMAIN calls \cup {id} |-> IF i = id THEN entry ELSE calls[i]]
\* Fault: the entry survives its response.
Delete_Forgotten(id) == calls' = [i \in DOMAIN calls |-> calls[i]]
Delete(id) == calls' = [i \in DOMAIN calls \ {id} |-> calls[i]]

-----------------------------------------------------------------------------
\* The input goroutine: pump with inspectFirst, inspectRequest, handleApproval.

\* The request handler is installed when there is anything to inspect for.
Inspecting == HasRules \/ Auditing

NeedsHuman(m) == m.kind = "call" /\ Decide(m.tool) = "RequireApproval"
Allowed(m)    == m.kind = "call" /\ Decide(m.tool) = "Allow"
Denied(m)     == m.kind = "call" /\ Decide(m.tool) = "Deny"

\* The verdict inspectRequest reaches on a message it refuses outright.
Refusal(m) ==
  CASE Denied(m)                          -> "deny"
    [] NeedsHuman(m) /\ ~HasApprover      -> "noApprover"
    [] m.kind \in {"invalid", "batch"}    -> m.kind
    [] OTHER                              -> "none"

\* Fault: batches pass uninspected.
Refuses_NotBatch(m) == Refusal(m) \notin {"none", "batch"}
Refuses(m)  == Refusal(m) # "none"
Holds(m)    == NeedsHuman(m) /\ HasApprover
\* Fault: only tool calls reserve their id.
Reserves_CallsOnly(m) == Auditing /\ Allowed(m)
Reserves(m) == Auditing /\ (Allowed(m) \/ m.kind = "request")

\* readMessage and the decoding that follows touch nothing shared.
ReadAs(m) ==
  /\ next' = next + 1
  /\ \/ m.kind = "oversize" /\ inPc' = "kill" /\ verdict' = NoVerdict
     \/ /\ m.kind # "oversize" /\ Inspecting /\ Refuses(m)
        /\ inPc' = "refuse"
        /\ verdict' = [decision |-> "deny", why |-> Refusal(m)]
     \/ /\ m.kind # "oversize" /\ Inspecting /\ Holds(m)
        /\ inPc' = "hold" /\ verdict' = NoVerdict
     \/ /\ m.kind # "oversize" /\ Inspecting /\ Reserves(m)
        /\ inPc' = "remember"
        /\ verdict' = [decision |-> IF Allowed(m) THEN "allow" ELSE "none",
                       why |-> "none"]
     \/ /\ m.kind # "oversize"
        /\ ~(Inspecting /\ (Refuses(m) \/ Holds(m) \/ Reserves(m)))
        /\ inPc' = "forward" /\ verdict' = NoVerdict
  /\ UNCHANGED <<approved, clientVars, delivered, tableVars, serverVars,
                 outputVars, logVars, phase>>

Read == inPc = "read" /\ next <= Len(sent) /\ ReadAs(sent[next])

\* Fault: an outcome the proxy does not know is taken for a timeout.
HumanApproves_Unknown ==
  /\ inPc = "hold"
  /\ approved' = approved \cup {Cur}
  /\ verdict' = [decision |-> "timeout", why |-> "timeout"]
  /\ inPc' = "refuse"
  /\ UNCHANGED <<next, clientVars, delivered, tableVars, serverVars,
                 outputVars, logVars, phase>>

\* Approver.Request returns one of its three outcomes.
HumanApproves ==
  /\ inPc = "hold"
  /\ approved' = approved \cup {Cur}
  /\ verdict' = [decision |-> "approved", why |-> "none"]
  /\ inPc' = IF Auditing THEN "remember" ELSE "forward"
  /\ UNCHANGED <<next, clientVars, delivered, tableVars, serverVars,
                 outputVars, logVars, phase>>

HoldRefused(outcome) ==
  /\ inPc = "hold"
  /\ verdict' = [decision |-> outcome, why |-> outcome]
  /\ inPc' = "refuse"
  /\ UNCHANGED <<next, approved, clientVars, delivered, tableVars, serverVars,
                 outputVars, logVars, phase>>
HumanRejects == HoldRefused("rejected")
\* Fault: no timer is armed.
HoldTimesOut_Never == FALSE
HoldTimesOut == HoldRefused("timeout")

Remember ==
  /\ inPc = "remember"
  /\ \/ /\ ~Reused(Msg.id) /\ ~Full(Msg.size)
        /\ Insert(Msg.id, [tool |-> Msg.tool, call |-> Cur,
                           decision |-> verdict.decision, size |-> Msg.size])
        /\ bytes' = bytes + Msg.size
        /\ inPc' = "forward"
        /\ UNCHANGED verdict
     \/ /\ Reused(Msg.id) \/ Full(Msg.size)
        /\ verdict' = [decision |-> "deny",
                       why |-> IF Reused(Msg.id) THEN "reuse" ELSE "full"]
        /\ inPc' = "refuse"
        /\ UNCHANGED tableVars
  /\ UNCHANGED <<next, approved, clientVars, delivered, serverVars, outputVars,
                 logVars, phase>>

\* Fault: blockCall's caller forwards the message it blocked.
Refuse_Forwards ==
  /\ inPc = "refuse"
  /\ WriteToClient([kind |-> "policyError", id |-> Msg.id, call |-> Cur,
                    why |-> verdict.why])
  /\ inPc' = "forward"
  /\ UNCHANGED <<next, verdict, approved, clientVars, tableVars, serverVars,
                 outputVars, logVars, phase>>

\* blockCall, blockBatch: the error to the client first; its failure is
\* swallowed and the attempt is audited all the same.
Refuse ==
  /\ inPc = "refuse"
  /\ WriteToClient([kind |-> "policyError", id |-> Msg.id, call |-> Cur,
                    why |-> verdict.why])
  /\ inPc' = IF Auditing THEN "auditRefusal" ELSE "read"
  /\ UNCHANGED <<next, verdict, approved, clientVars, tableVars, serverVars,
                 outputVars, logVars, phase>>

AuditRefusal ==
  /\ inPc = "auditRefusal"
  /\ AppendEntry(Msg.tool, Cur, verdict.decision, None)
  /\ inPc' = "read"
  /\ UNCHANGED <<next, verdict, approved, clientVars, delivered, tableVars,
                 serverVars, outputVars, phase>>

\* The write to the server's stdin; it fails once the server is gone.
Forward ==
  /\ inPc = "forward"
  /\ \/ /\ serverUp
        /\ forwarded' = forwarded \cup {Cur}
        /\ inPc' = "read"
     \/ /\ ~serverUp
        /\ inPc' = "kill"
        /\ UNCHANGED forwarded
  /\ UNCHANGED <<next, verdict, approved, clientVars, delivered, tableVars,
                 answered, serverUp, serverOut, noise, outputVars, logVars,
                 phase>>

\* A failed pump kills the server; once the output has ended it is already
\* gone and the error is dropped.
InputKills ==
  /\ inPc = "kill"
  /\ inPc' = "done"
  /\ serverUp' = FALSE
  /\ UNCHANGED <<next, verdict, approved, clientVars, delivered, tableVars,
                 forwarded, answered, serverOut, noise, outputVars, logVars,
                 phase>>

InputEOF ==
  /\ inPc = "read" /\ next > Len(sent) /\ ~clientUp
  /\ inPc' = "done"
  /\ UNCHANGED <<next, verdict, approved, clientVars, delivered, tableVars,
                 serverVars, outputVars, logVars, phase>>

Input ==
  \/ Read \/ HumanApproves \/ HumanRejects \/ HoldTimesOut \/ Remember
  \/ Refuse \/ AuditRefusal \/ Forward \/ InputKills \/ InputEOF

-----------------------------------------------------------------------------
\* The output goroutine: pump without inspectFirst, and recordResponse.

OutputReads ==
  /\ outPc = "read" /\ serverOut # <<>>
  /\ line' = Head(serverOut) /\ serverOut' = Tail(serverOut)
  /\ outPc' = IF line'.kind = "oversize" THEN "kill" ELSE "deliver"
  /\ UNCHANGED <<taken, clientVars, delivered, inputVars, tableVars, forwarded,
                 answered, serverUp, noise, logVars, phase>>

DeliverLine ==
  /\ WriteToClient([kind |-> line.kind, id |-> line.id, call |-> line.call,
                    why |-> "none"])
  /\ outPc' = CASE ~WriteSucceeds             -> "kill"
                [] WriteSucceeds /\ Auditing  -> "record"
                [] OTHER                      -> "read"
  /\ UNCHANGED <<line, taken, clientVars, inputVars, tableVars, serverVars,
                 logVars, phase>>

\* Fault: the client stream stays locked while a human is asked.
Deliver_Locked == outPc = "deliver" /\ inPc # "hold" /\ DeliverLine

\* Forward first; a write error ends the pump before the handler runs.
Deliver == outPc = "deliver" /\ DeliverLine

\* Fault: a server request releases the id it happens to share.
Releases_AnyLine(l) == l.id \in DOMAIN calls

\* Only a response releases a reservation.
Releases(l) == l.kind = "response" /\ l.id \in DOMAIN calls

\* recordResponse up to the unlock; a non-tool reservation leaves no entry.
TakePending ==
  /\ outPc = "record"
  /\ \/ /\ Releases(line)
        /\ Delete(line.id)
        /\ bytes' = bytes - calls[line.id].size
        /\ taken' = calls[line.id]
        /\ outPc' = IF calls[line.id].tool = NoTool THEN "read" ELSE "append"
     \/ /\ ~Releases(line)
        /\ outPc' = "read"
        /\ UNCHANGED <<tableVars, taken>>
  /\ UNCHANGED <<line, clientVars, delivered, inputVars, serverVars, logVars,
                 phase>>

AppendCompleted ==
  /\ outPc = "append"
  /\ AppendEntry(taken.tool, taken.call, taken.decision, line.call)
  /\ outPc' = "read"
  /\ UNCHANGED <<line, taken, clientVars, delivered, inputVars, tableVars,
                 serverVars, phase>>

\* run after its pump failed: outputDone is closed and the server is killed.
OutputKills ==
  /\ outPc = "kill"
  /\ outPc' = "done" /\ serverUp' = FALSE
  /\ UNCHANGED <<line, taken, clientVars, delivered, inputVars, tableVars,
                 forwarded, answered, serverOut, noise, logVars, phase>>

OutputEOF ==
  /\ outPc = "read" /\ serverOut = <<>> /\ ~serverUp
  /\ outPc' = "done"
  /\ UNCHANGED <<line, taken, clientVars, delivered, inputVars, tableVars,
                 serverVars, logVars, phase>>

Output ==
  OutputReads \/ Deliver \/ TakePending \/ AppendCompleted \/ OutputKills
  \/ OutputEOF

\* run returns once the output has ended and the server is reaped, closing the
\* client stream; runCommand then closes the log.  The input goroutine may
\* still be in the middle of a message.
RunReturns ==
  /\ phase = "running" /\ outPc = "done" /\ ~serverUp
  /\ phase' = "returned"
  /\ UNCHANGED <<clientVars, delivered, inputVars, tableVars, serverVars,
                 outputVars, logVars>>

LogCloses ==
  /\ phase = "returned"
  /\ phase' = "closed"
  /\ UNCHANGED <<clientVars, delivered, inputVars, tableVars, serverVars,
                 outputVars, logVars>>

Next == Environment \/ Input \/ Output \/ RunReturns \/ LogCloses

Spec == Init /\ [][Next]_vars

\* Weak fairness of the output goroutine, and nothing else: the human and the
\* server may never answer, the client need not hang up, and the input goroutine
\* may be held for ever.
FairSpec == Spec /\ WF_vars(Output)

\* The input goroutine runs too; a human need not answer, since the timer does.
InputScheduled ==
  WF_vars(Read \/ HoldTimesOut \/ Remember \/ Refuse \/ AuditRefusal \/ Forward
            \/ InputKills \/ InputEOF)

-----------------------------------------------------------------------------
(***************************************************************************)
(* Properties                                                              *)
(***************************************************************************)
Positions == 1..Len(sent)
Decisions == {"none", "allow", "approved", "deny", "rejected", "timeout"}
Reasons   == {"none", "deny", "noApprover", "invalid", "batch", "reuse", "full",
              "rejected", "timeout"}
SentRecord == [kind : MessageKinds, id : Ids \cup {NoId},
               tool : Tools \cup {NoTool}, size : Nat]
Entry == [tool : Tools \cup {NoTool}, call : Nat, decision : Decisions,
          size : Nat]
LogEntry == [tool : Tools \cup {NoTool}, call : Nat, decision : Decisions,
             result : Nat]
LineKinds == {"response", "request", "other", "oversize"}
ServerLine == [kind : LineKinds, id : Ids \cup {NoId}, call : Nat]

ClientTyped ==
  /\ sent \in Seq(SentRecord) /\ clientUp \in BOOLEAN /\ clientReads \in BOOLEAN
  /\ \A n \in Positions :
       /\ sent[n].kind \in {"call", "request"} => sent[n].id \in Ids
       /\ sent[n].kind = "call" <=> sent[n].tool \in Tools
  /\ delivered \subseteq [kind : LineKinds \cup {"policyError"},
                         id : Ids \cup {NoId}, call : Nat, why : Reasons]
InputTyped ==
  /\ inPc \in {"read", "hold", "remember", "refuse", "auditRefusal", "forward",
               "kill", "done"}
  /\ next \in 1..(Len(sent) + 1)
  /\ inPc \notin {"read", "done"} => next > 1
  /\ inPc \in {"hold", "remember"} => Msg.kind \in {"call", "request"}
  /\ verdict \in [decision : Decisions, why : Reasons]
  /\ approved \subseteq Positions
TableTyped ==
  /\ DOMAIN calls \subseteq Ids /\ calls \in [DOMAIN calls -> Entry]
  /\ bytes \in Int
ServerTyped ==
  /\ forwarded \subseteq Positions /\ answered \subseteq forwarded
  /\ serverUp \in BOOLEAN /\ serverOut \in Seq(ServerLine) /\ noise \in Nat
OutputTyped ==
  /\ outPc \in {"read", "deliver", "record", "append", "kill", "done"}
  /\ line \in ServerLine \cup {NoLine} /\ taken \in Entry
  /\ outPc \in {"deliver", "record", "append"} => line \in ServerLine
LogTyped ==
  /\ log \in Seq(LogEntry) /\ lost \subseteq Nat
  /\ phase \in {"running", "returned", "closed"}

\* The shape of the session's state; the current message exists whenever the
\* input goroutine is past reading it, the current line whenever the output one is.
TypeOK ==
  /\ ClientTyped /\ InputTyped /\ TableTyped
  /\ ServerTyped /\ OutputTyped /\ LogTyped

\* No tools/call on the deny-list reaches the server, none on the approval-list
\* does without a human's own yes to that very call, and no ambiguous message or
\* batch does at all once there is anything to inspect for: whatever the other
\* goroutine, the server, the log or a dying session are doing meanwhile
\* (inspectRequest, handleApproval, blockCall).
PolicyEnforced ==
  \A n \in forwarded :
    /\ ~Denied(sent[n])
    /\ NeedsHuman(sent[n]) => n \in approved
    /\ Inspecting => sent[n].kind \notin {"invalid", "batch"}
    /\ sent[n].kind # "oversize"

Clearable(n) ==
  /\ ~Denied(sent[n]) /\ sent[n].kind # "oversize"
  /\ NeedsHuman(sent[n]) => n \in approved
  /\ Inspecting => sent[n].kind \notin {"invalid", "batch"}

\* PolicyEnforced, with what makes it inductive: a held message needs a human, and
\* one that is about to be forwarded already has everything it needs.
PolicyInv ==
  /\ PolicyEnforced
  /\ inPc = "hold" => NeedsHuman(Msg)
  /\ inPc \in {"remember", "forward"} => Clearable(Cur)

RefusedTo(n) == \E d \in delivered : d.kind = "policyError" /\ d.call = n
Entries == {log[i] : i \in 1..Len(log)}
Cleared == {"allow", "approved"}

\* The client is never told that a message was blocked when the server has it,
\* and the log never records as blocked a call the server received: the two
\* goroutines and the two exits of remember agree on one fate per message.
OneFate ==
  \A n \in forwarded :
    /\ ~RefusedTo(n)
    /\ \A e \in Entries : e.call = n => e.decision \in Cleared

\* A call leaves at most one record: it is recorded either by the request side
\* (refused) or by the response side (completed), once, even if the server
\* repeats an answer or makes one up, and a failed append is not retried.
RecordedOnce ==
  /\ \A i, j \in 1..Len(log) : log[i].call = log[j].call => i = j
  /\ \A e \in Entries : e.call \notin lost

\* With a server that answers each request once, the entry of a completed call
\* pairs the call with its own answer, its own tool and the verdict that
\* cleared it, although ids are reused and answers come in any order
\* (remember, recordResponse).
Attribution ==
  HonestServer =>
    \A e \in Entries : e.decision \in Cleared =>
      /\ e.result = e.call /\ e.call \in forwarded
      /\ e.tool = sent[e.call].tool
      /\ e.decision = IF NeedsHuman(sent[e.call]) THEN "approved" ELSE "allow"

\* A call is recorded as rejected or timed out only if it was held for a human
\* who did not approve it, and as denied only for one of the stated reasons.
RefusalRecordIsTrue ==
  \A e \in Entries : e.decision \notin Cleared =>
    /\ e.decision \in {"rejected", "timeout"} =>
         NeedsHuman(sent[e.call]) /\ e.call \notin approved
    /\ e.decision # "none" /\ e.call \notin forwarded

\* The table's byte count is the sum of its entries' sizes and never exceeds
\* either limit, whatever is refused, answered twice or never answered.
TableAccounts ==
  /\ bytes = MapThenSumSet(LAMBDA id : calls[id].size, DOMAIN calls)
  /\ bytes <= MaxPendingBytes
  /\ Cardinality(DOMAIN calls) <= MaxPendingCalls

\* The messages whose answer the output goroutine has still to look up.
Unsettled ==
  (forwarded \ answered)
    \cup {serverOut[i].call : i \in 1..Len(serverOut)}
    \cup (IF outPc \in {"deliver", "record"} THEN {line.call} ELSE {})

\* While a forwarded request has an answer to come, its id stays reserved for
\* it: this is what lets an answer be matched by its id alone.
ReservationHeld ==
  HonestServer /\ Auditing =>
    \A n \in Unsettled \cap Positions :
      sent[n].kind \in {"call", "request"} =>
        /\ sent[n].id \in DOMAIN calls
        /\ calls[sent[n].id].call = n

\* The messages whose refusal is decided: being refused, or refused and then
\* recorded or lost.
Refused ==
  {n \in Positions :
     \/ n = Cur /\ inPc \in {"refuse", "auditRefusal"}
     \/ n \in lost \ forwarded
     \/ \E e \in Entries : e.call = n /\ e.decision \notin Cleared}

Ledger == INSTANCE CallLedger WITH
  asked <- [n \in Positions |-> sent[n].tool], consent <- approved,
  passed <- forwarded, refused <- Refused, ledger <- log

\* Two goroutines, one table and reused ids amount to the ledger's promise: one
\* fate per message and at most one true entry for it.
ImplementsLedger == Ledger!Spec

Settled(n) == n \in forwarded \/ n \in Refused \/ inPc = "done"
\* Every message the proxy reads is forwarded, or refused and recorded, unless
\* the session's input ends: no hold lasts for ever.
EveryMessageSettled ==
  InputScheduled => \A n \in 1..MaxMessages : next > n ~> Settled(n)

OutputBroken == outPc \in {"kill", "done"} /\ (~clientReads \/ line.kind = "oversize")
AnsweredTo(n) == \E d \in delivered : d.call = n
Recorded(n) == n \in lost \/ \E e \in Entries : e.call = n
\* An answer reaches the client, and a completed tools/call its record or a failed
\* append, without waiting for the input goroutine, which may be held for a human:
\* only the output goroutine is assumed to run, until the session breaks.
AnswersComplete ==
  \A n \in 1..MaxMessages :
    n \in answered ~>
      \/ /\ AnsweredTo(n)
         /\ sent[n].kind = "call" /\ Auditing => Recorded(n)
      \/ OutputBroken

Arrived(n) == /\ n \in answered /\ outPc \in {"read", "done"}
              /\ \A i \in 1..Len(serverOut) : serverOut[i].call # n
\* SECURITY.md: the record of an allowed call is written when its response
\* arrives; only an unanswered call has none.
ArrivedAnswerRecorded ==
  Auditing => \A n \in Positions :
    Arrived(n) /\ sent[n].kind = "call" => Recorded(n)

\* Without a log neither ids nor the table matter: exactly the messages the policy
\* lets through reach the server, and only the others are answered by the proxy;
\* without rules as well, that makes it a bounded passthrough.
Unimpeded ==
  ~Auditing =>
    /\ inPc = "read" => forwarded = {n \in 1..Cur : Clearable(n)}
    /\ \A d \in delivered : d.kind = "policyError" => ~Clearable(d.call)
=============================================================================
