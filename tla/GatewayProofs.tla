--------------------------- MODULE GatewayProofs ---------------------------
(***************************************************************************)
(* Theorems about Gateway, for every set of tools, lists, ids, messages    *)
(* and limits.                                                             *)
(***************************************************************************)
EXTENDS Gateway, TLAPS

\* What the constants give about every message a client may send.
LEMMA MessageShape ==
  ASSUME NEW m \in ClientMessages
  PROVE  /\ m.kind \in MessageKinds /\ m.id \in Ids \cup {NoId}
         /\ m.size \in Nat /\ m.tool \in Tools \cup {NoTool}
         /\ m.kind \in {"call", "request"} => m.id \in Ids
         /\ m.kind = "call" <=> m.tool \in Tools
         /\ m \in SentRecord
BY MessagesAssumption, NamesAssumption DEF SentRecord

\* A group of variables nobody touches keeps its type.
LEMMA TypeFrame ==
  ASSUME TypeOK
  PROVE  /\ UNCHANGED <<clientVars, delivered>> => ClientTyped'
         /\ UNCHANGED <<sent, inputVars>> => InputTyped'
         /\ UNCHANGED tableVars => TableTyped'
         /\ UNCHANGED <<sent, serverVars>> => ServerTyped'
         /\ UNCHANGED outputVars => OutputTyped'
         /\ UNCHANGED <<logVars, phase>> => LogTyped'
<1> USE DEF TypeOK
<1>1. UNCHANGED <<clientVars, delivered>> => ClientTyped'
  BY DEF ClientTyped, clientVars, Positions
<1>2. UNCHANGED <<sent, inputVars>> => InputTyped'
  BY DEF InputTyped, inputVars, Positions, Cur, Msg
<1>3. UNCHANGED tableVars => TableTyped'
  BY DEF TableTyped, tableVars
<1>4. UNCHANGED <<sent, serverVars>> => ServerTyped'
  BY DEF ServerTyped, serverVars, Positions
<1>5. UNCHANGED outputVars => OutputTyped'
  BY DEF OutputTyped, outputVars
<1>6. UNCHANGED <<logVars, phase>> => LogTyped'
  BY DEF LogTyped, logVars
<1> QED BY <1>1, <1>2, <1>3, <1>4, <1>5, <1>6

\* The initial state is well typed (run, before its goroutines start).
LEMMA TypeInit == Init => TypeOK
<1> SUFFICES ASSUME Init PROVE TypeOK OBVIOUS
<1> USE DEF Init
<1>1. ClientTyped /\ InputTyped
  BY DEF ClientTyped, InputTyped, Positions, NoVerdict, Decisions, Reasons
<1>2. TableTyped /\ LogTyped
  BY DEF TableTyped, LogTyped
<1>3. ServerTyped /\ OutputTyped
  BY DEF ServerTyped, OutputTyped, Positions, NoEntry, NoLine, None, Entry,
         Decisions
<1> QED BY <1>1, <1>2, <1>3 DEF TypeOK

\* Whatever the client and the server do, the state stays well typed.
LEMMA TypeEnvironment == TypeOK /\ Environment => TypeOK'
<1> SUFFICES ASSUME TypeOK, Environment PROVE TypeOK' OBVIOUS
<1> USE TypeFrame
<1>1. ASSUME NEW m \in ClientMessages, ClientSends(m) PROVE TypeOK'
  <2>2. sent \in Seq(SentRecord) /\ sent' = Append(sent, m)
    BY <1>1 DEF ClientSends, TypeOK, ClientTyped
  <2>3. sent' \in Seq(SentRecord) /\ Len(sent') = Len(sent) + 1
    BY <2>2, MessageShape
  <2>4. ClientTyped'
    BY <1>1, <2>2, <2>3, MessageShape DEF ClientSends, TypeOK, ClientTyped, Positions
  <2>5. InputTyped'
    BY <1>1, <2>2, <2>3 DEF ClientSends, TypeOK, InputTyped, inputVars, Positions, Cur,
                                 Msg
  <2>6. ServerTyped'
    BY <1>1, <2>2, <2>3 DEF ClientSends, TypeOK, ServerTyped, serverVars, Positions
  <2> QED BY <1>1, <2>4, <2>5, <2>6 DEF ClientSends, TypeOK
<1>2. CASE ClientCloses \/ ClientStopsReading
  <2>1. ClientTyped'
    BY <1>2 DEF ClientCloses, ClientStopsReading, TypeOK, ClientTyped, Positions
  <2> QED BY <1>2, <2>1 DEF ClientCloses, ClientStopsReading, TypeOK, inputVars,
                            serverVars
<1>3. ASSUME NEW l \in ServerLine, Emits(l), noise' \in Nat,
             answered' \subseteq forwarded',
             UNCHANGED <<clientVars, delivered, inputVars, tableVars, forwarded,
                         serverUp, outputVars, logVars, phase>>
      PROVE TypeOK'
  <2>1. ServerTyped'
    BY <1>3 DEF TypeOK, ServerTyped, Emits, Positions, clientVars
  <2> QED BY <1>3, <2>1 DEF TypeOK, clientVars
<1>4. ASSUME NEW n \in forwarded, ServerAnswers(n) PROVE TypeOK'
  <2>1. sent[n] \in SentRecord
    BY DEF TypeOK, ServerTyped, ClientTyped, Positions
  <2>2. [kind |-> "response", id |-> sent[n].id, call |-> n] \in ServerLine
    BY <2>1 DEF ServerLine, LineKinds, SentRecord, TypeOK, ServerTyped, Positions
  <2> QED BY <1>3, <1>4, <2>2 DEF ServerAnswers, TypeOK, ServerTyped
<1>5. CASE ServerNoise
  <2>1. PICK kind \in NoiseKinds, id \in Ids \cup {NoId} : ServerAsks(kind, id)
    BY <1>5 DEF ServerNoise
  <2>2. [kind |-> kind, id |-> id, call |-> None] \in ServerLine
    BY LimitsAssumption DEF ServerLine, LineKinds, None
  <2> QED BY <1>3, <2>1, <2>2 DEF ServerAsks, TypeOK, ServerTyped
<1>6. CASE ServerExits
  <2>1. ServerTyped'
    BY <1>6 DEF ServerExits, TypeOK, ServerTyped, clientVars, Positions
  <2> QED BY <1>6, <2>1 DEF ServerExits, TypeOK, clientVars
<1> QED BY <1>1, <1>2, <1>4, <1>5, <1>6 DEF Environment

\* A row appended to the log keeps the log's type.
LEMMA TypeAppend ==
  ASSUME LogTyped, NEW tool \in Tools \cup {NoTool}, NEW n \in Nat,
         NEW d \in Decisions, NEW r \in Nat,
         AppendEntry(tool, n, d, r), phase' = phase
  PROVE  LogTyped'
<1>1. [tool |-> tool, call |-> n, decision |-> d, result |-> r] \in LogEntry
  BY DEF LogEntry
<1>2. log' = log \/ \E e \in LogEntry : log' = Append(log, e)
  BY <1>1 DEF AppendEntry
<1>3. log' \in Seq(LogEntry)
  BY <1>2 DEF LogTyped
<1>4. lost' \subseteq Nat
  BY DEF LogTyped, AppendEntry
<1> QED BY <1>3, <1>4 DEF LogTyped

\* A line or a refusal written to the client is a well-typed delivery (syncWriter).
LEMMA TypeDelivered ==
  ASSUME ClientTyped, NEW k \in LineKinds \cup {"policyError"},
         NEW id \in Ids \cup {NoId}, NEW n \in Nat, NEW w \in Reasons,
         WriteToClient([kind |-> k, id |-> id, call |-> n, why |-> w]),
         UNCHANGED clientVars
  PROVE  ClientTyped'
BY DEF ClientTyped, WriteToClient, clientVars, Positions

\* The message being handled is one the client sent.
LEMMA CurrentMessage ==
  ASSUME TypeOK, inPc \notin {"read", "done"}
  PROVE  /\ Cur \in Positions /\ Cur \in Nat /\ Msg = sent[Cur]
         /\ Msg \in SentRecord
BY DEF TypeOK, InputTyped, ClientTyped, Cur, Msg, Positions

\* Every step of the input goroutine keeps the state well typed.
LEMMA TypeInput == TypeOK /\ Input => TypeOK'
<1> SUFFICES ASSUME TypeOK, Input PROVE TypeOK' OBVIOUS
<1> USE TypeFrame
<1>1. CASE Read
  <2>1. inPc' \in {"hold", "remember"} => Msg'.kind \in {"call", "request"}
    BY <1>1 DEF Read, ReadAs, TypeOK, InputTyped, clientVars, Cur, Msg, Holds,
                Reserves, NeedsHuman, Allowed
  <2>2. InputTyped'
    BY <1>1, <2>1 DEF Read, ReadAs, TypeOK, InputTyped, Positions, clientVars,
                      Refuses, Refusal, Decisions, Reasons, NoVerdict
  <2> QED BY <1>1, <2>2 DEF Read, ReadAs, TypeOK, clientVars
<1>2. CASE HumanApproves
  <2>1. InputTyped'
    BY <1>2, CurrentMessage DEF HumanApproves, TypeOK, InputTyped, Positions,
       clientVars, Cur, Msg, Decisions, Reasons
  <2> QED BY <1>2, <2>1 DEF HumanApproves, TypeOK, clientVars
<1>3. CASE HumanRejects \/ HoldTimesOut
  <2>0. verdict' \in [decision : Decisions, why : Reasons]
    BY <1>3 DEF HumanRejects, HoldTimesOut, HoldRefused, Decisions, Reasons
  <2>1. InputTyped'
    BY <1>3, <2>0 DEF HumanRejects, HoldTimesOut, HoldRefused, TypeOK, InputTyped,
       Positions, clientVars, Cur, Msg
  <2> QED BY <1>3, <2>1 DEF HumanRejects, HoldTimesOut, HoldRefused, TypeOK,
                            clientVars
<1>4. CASE Remember
  <2>1. InputTyped'
    BY <1>4 DEF Remember, TypeOK, InputTyped, Positions, clientVars, Decisions,
       Reasons
  <2>2. TableTyped'
    <3>1. Msg \in SentRecord /\ Cur \in Nat
      BY <1>4, CurrentMessage DEF Remember
    <3>2. [tool |-> Msg.tool, call |-> Cur, decision |-> verdict.decision,
           size |-> Msg.size] \in Entry
      BY <3>1 DEF SentRecord, Entry, TypeOK, InputTyped
    <3>3. CASE UNCHANGED tableVars
      BY <3>3, TypeFrame
    <3>4. CASE /\ Insert(Msg.id, [tool |-> Msg.tool, call |-> Cur,
                                  decision |-> verdict.decision, size |-> Msg.size])
               /\ bytes' = bytes + Msg.size /\ Msg.id \in Ids
      BY <3>1, <3>2, <3>4 DEF Insert, TypeOK, TableTyped, SentRecord
    <3>5. Msg.id \in Ids
      BY <1>4, CurrentMessage DEF Remember, TypeOK, InputTyped, ClientTyped
    <3> QED BY <1>4, <3>3, <3>4, <3>5 DEF Remember
  <2> QED BY <1>4, <2>1, <2>2 DEF Remember, TypeOK, clientVars
<1>5. CASE Refuse
  <2>1. Msg \in SentRecord /\ Cur \in Nat
    BY <1>5, CurrentMessage DEF Refuse
  <2>2. ClientTyped'
    BY <1>5, <2>1, TypeDelivered DEF Refuse, TypeOK, InputTyped, SentRecord
  <2>3. InputTyped'
    BY <1>5 DEF Refuse, TypeOK, InputTyped, Positions, clientVars
  <2> QED BY <1>5, <2>2, <2>3 DEF Refuse, TypeOK, clientVars
<1>6. CASE AuditRefusal
  <2>1. Msg \in SentRecord /\ Cur \in Nat
    BY <1>6, CurrentMessage DEF AuditRefusal
  <2>2. LogTyped'
    BY <1>6, <2>1, TypeAppend DEF AuditRefusal, TypeOK, InputTyped, SentRecord, None
  <2>3. InputTyped'
    BY <1>6 DEF AuditRefusal, TypeOK, InputTyped, Positions, clientVars
  <2> QED BY <1>6, <2>2, <2>3 DEF AuditRefusal, TypeOK, clientVars
<1>7. CASE Forward
  <2>1. Cur \in Positions
    BY <1>7, CurrentMessage DEF Forward
  <2>2. InputTyped'
    BY <1>7 DEF Forward, TypeOK, InputTyped, Positions, clientVars
  <2>3. ServerTyped'
    BY <1>7, <2>1 DEF Forward, TypeOK, ServerTyped, Positions, clientVars
  <2> QED BY <1>7, <2>2, <2>3 DEF Forward, TypeOK, clientVars
<1>8. CASE InputKills \/ InputEOF
  <2>1. InputTyped'
    BY <1>8 DEF InputKills, InputEOF, TypeOK, InputTyped, Positions, clientVars
  <2>2. ServerTyped'
    BY <1>8 DEF InputKills, InputEOF, TypeOK, ServerTyped, Positions, clientVars,
                serverVars
  <2> QED BY <1>8, <2>1, <2>2 DEF InputKills, InputEOF, TypeOK, clientVars
<1> QED BY <1>1, <1>2, <1>3, <1>4, <1>5, <1>6, <1>7, <1>8 DEF Input

\* Every step of the output goroutine keeps the state well typed.
LEMMA TypeOutput == TypeOK /\ Output => TypeOK'
<1> SUFFICES ASSUME TypeOK, Output PROVE TypeOK' OBVIOUS
<1> USE TypeFrame
<1>1. CASE OutputReads
  <2>1. Head(serverOut) \in ServerLine /\ Tail(serverOut) \in Seq(ServerLine)
    BY <1>1 DEF OutputReads, TypeOK, ServerTyped
  <2>2. OutputTyped'
    BY <1>1, <2>1 DEF OutputReads, TypeOK, OutputTyped
  <2>3. ServerTyped'
    BY <1>1, <2>1 DEF OutputReads, TypeOK, ServerTyped, Positions, clientVars
  <2> QED BY <1>1, <2>2, <2>3 DEF OutputReads, TypeOK, clientVars
<1>2. CASE Deliver
  <2>1. line \in ServerLine
    BY <1>2 DEF Deliver, DeliverLine, TypeOK, OutputTyped
  <2>2. ClientTyped'
    BY <1>2, <2>1, TypeDelivered DEF Deliver, DeliverLine, TypeOK, ServerLine, Reasons
  <2>3. OutputTyped'
    BY <1>2 DEF Deliver, DeliverLine, TypeOK, OutputTyped
  <2> QED BY <1>2, <2>2, <2>3 DEF Deliver, DeliverLine, TypeOK, clientVars
<1>3. CASE TakePending
  <2>1. OutputTyped'
    BY <1>3 DEF TakePending, Releases, TypeOK, OutputTyped, TableTyped
  <2>2. TableTyped'
    BY <1>3 DEF TakePending, Releases, Delete, TypeOK, TableTyped, Entry, tableVars
  <2> QED BY <1>3, <2>1, <2>2 DEF TakePending, Releases, TypeOK, clientVars
<1>4. CASE AppendCompleted
  <2>1. LogTyped'
    BY <1>4, TypeAppend DEF AppendCompleted, TypeOK, OutputTyped, Entry, ServerLine
  <2>2. OutputTyped'
    BY <1>4 DEF AppendCompleted, TypeOK, OutputTyped
  <2> QED BY <1>4, <2>1, <2>2 DEF AppendCompleted, TypeOK, clientVars
<1>5. CASE OutputKills \/ OutputEOF
  <2>1. OutputTyped'
    BY <1>5 DEF OutputKills, OutputEOF, TypeOK, OutputTyped
  <2>2. ServerTyped'
    BY <1>5 DEF OutputKills, OutputEOF, TypeOK, ServerTyped, Positions, clientVars,
                serverVars
  <2> QED BY <1>5, <2>1, <2>2 DEF OutputKills, OutputEOF, TypeOK, clientVars
<1> QED BY <1>1, <1>2, <1>3, <1>4, <1>5 DEF Output

\* Every reachable state is well typed (all of run's goroutines).
THEOREM TypeCorrect == Spec => []TypeOK
<1>1. TypeOK /\ [Next]_vars => TypeOK'
  <2> SUFFICES ASSUME TypeOK, [Next]_vars PROVE TypeOK' OBVIOUS
  <2>1. CASE RunReturns \/ LogCloses
    <3>1. LogTyped'
      BY <2>1 DEF RunReturns, LogCloses, TypeOK, LogTyped, logVars
    <3> QED BY <2>1, <3>1, TypeFrame DEF RunReturns, LogCloses, TypeOK, clientVars
  <2>2. CASE UNCHANGED vars
    BY <2>2, TypeFrame DEF vars, TypeOK, clientVars
  <2> QED BY <2>1, <2>2, TypeEnvironment, TypeInput, TypeOutput DEF Next
<1> QED BY <1>1, TypeInit, PTL DEF Spec

-----------------------------------------------------------------------------
\* Only the input goroutine clears a message, and only messages that already
\* exist: everybody else leaves PolicyInv alone.
LEMMA PolicyFrame ==
  ASSUME TypeOK, PolicyInv, UNCHANGED <<inPc, next, approved, forwarded>>,
         \A n \in Positions : sent'[n] = sent[n]
  PROVE  PolicyInv'
<1>1. \A n \in Positions : Denied(sent[n])' = Denied(sent[n])
                        /\ NeedsHuman(sent[n])' = NeedsHuman(sent[n])
                        /\ sent'[n].kind = sent[n].kind
  BY DEF Denied, NeedsHuman
<1>2. forwarded \subseteq Positions
  BY DEF TypeOK, ServerTyped
<1>3. PolicyEnforced'
  BY <1>1, <1>2 DEF PolicyInv, PolicyEnforced
<1>4. ASSUME inPc \notin {"read", "done"}
      PROVE  Cur' = Cur /\ Cur \in Positions /\ Msg' = Msg
  BY <1>4, CurrentMessage DEF Cur, Msg
<1>5. inPc' = "hold" => NeedsHuman(Msg)'
  BY <1>1, <1>4 DEF PolicyInv, Msg
<1>6. inPc' \in {"remember", "forward"} => Clearable(Cur)'
  BY <1>1, <1>4 DEF PolicyInv, Clearable
<1> QED BY <1>3, <1>5, <1>6 DEF PolicyInv

\* Reading a message clears it only when the policy does (inspectRequest).
LEMMA PolicyRead ==
  ASSUME TypeOK, PolicyInv, Read
  PROVE  PolicyInv'
<1>1. sent' = sent /\ approved' = approved /\ forwarded' = forwarded
  BY DEF Read, ReadAs, clientVars, serverVars
<1>2. PolicyEnforced'
  BY <1>1 DEF PolicyInv, PolicyEnforced, Denied, NeedsHuman
<1>3. Cur' = next /\ Msg' = sent[next]
  BY <1>1 DEF Read, ReadAs, Cur, Msg, TypeOK, InputTyped
<1>4. inPc' = "hold" => NeedsHuman(Msg)'
  BY <1>1, <1>3 DEF Read, ReadAs, Holds, NeedsHuman
<1>5. ASSUME inPc' \in {"remember", "forward"} PROVE Clearable(Cur)'
  <2> DEFINE m == sent[next]
  <2>1. /\ m.kind # "oversize"
        /\ \/ Inspecting /\ Reserves(m)
           \/ ~Inspecting
           \/ ~(Refuses(m) \/ Holds(m) \/ Reserves(m))
    BY <1>5 DEF Read, ReadAs
  <2>2. CASE Reserves(m)
    BY <1>1, <1>3, <2>1, <2>2
       DEF Reserves, Allowed, Clearable, Denied, NeedsHuman
  <2>3. CASE ~Inspecting
    BY <1>1, <1>3, <2>1, <2>3
       DEF Inspecting, HasRules, Clearable, Denied, NeedsHuman, Decide
  <2>4. CASE ~(Refuses(m) \/ Holds(m))
    BY <1>1, <1>3, <2>1, <2>4
       DEF Refuses, Refusal, Holds, Clearable, Denied, NeedsHuman
  <2> QED BY <2>1, <2>2, <2>3, <2>4
<1> QED BY <1>2, <1>4, <1>5 DEF PolicyInv

\* Every step of the input goroutine keeps PolicyInv: only a cleared message is
\* ever about to be forwarded (handleApproval, remember, blockCall).
LEMMA PolicyInput ==
  ASSUME TypeOK, PolicyInv, Input
  PROVE  PolicyInv'
<1>1. CASE HumanApproves
  <2>1. /\ Cur' = Cur /\ Msg' = Msg /\ sent' = sent /\ forwarded' = forwarded
        /\ approved' = approved \cup {Cur} /\ NeedsHuman(Msg)
    BY <1>1 DEF HumanApproves, clientVars, serverVars, Cur, Msg, PolicyInv
  <2>2. PolicyEnforced' /\ Clearable(Cur)' /\ inPc' # "hold"
    BY <1>1, <2>1 DEF HumanApproves, PolicyInv, PolicyEnforced, Clearable, Denied,
                      NeedsHuman, Msg
  <2> QED BY <2>1, <2>2 DEF PolicyInv
<1>2. CASE Forward
  <2>1. /\ sent' = sent /\ approved' = approved /\ inPc' \in {"read", "kill"}
        /\ forwarded' \subseteq forwarded \cup {Cur} /\ Clearable(Cur)
    BY <1>2 DEF Forward, clientVars, PolicyInv
  <2>2. PolicyEnforced'
    BY <2>1 DEF PolicyInv, PolicyEnforced, Clearable, Denied, NeedsHuman
  <2> QED BY <2>1, <2>2 DEF PolicyInv
<1>3. CASE Remember
  <2>1. /\ sent' = sent /\ approved' = approved /\ forwarded' = forwarded
        /\ next' = next /\ Clearable(Cur) /\ inPc' \in {"forward", "refuse"}
    BY <1>3 DEF Remember, clientVars, serverVars, PolicyInv
  <2>2. PolicyEnforced' /\ Clearable(Cur)'
    BY <2>1 DEF PolicyInv, PolicyEnforced, Clearable, Denied, NeedsHuman, Cur
  <2> QED BY <2>1, <2>2 DEF PolicyInv
<1>4. CASE HumanRejects \/ HoldTimesOut \/ Refuse \/ AuditRefusal \/ InputKills
           \/ InputEOF
  <2>1. /\ sent' = sent /\ approved' = approved /\ forwarded' = forwarded
        /\ inPc' \in {"refuse", "auditRefusal", "read", "done"}
    BY <1>4 DEF HumanRejects, HoldTimesOut, HoldRefused, Refuse, AuditRefusal,
                InputKills, InputEOF, clientVars, serverVars
  <2>2. PolicyEnforced'
    BY <2>1 DEF PolicyInv, PolicyEnforced, Denied, NeedsHuman
  <2> QED BY <2>1, <2>2 DEF PolicyInv
<1> QED BY <1>1, <1>2, <1>3, <1>4, PolicyRead DEF Input

\* The client, the server, the output goroutine and the end of the session touch
\* neither the input goroutine's state nor a message already sent, and tell the
\* client of no refusal.
LEMMA OthersRest ==
  ASSUME TypeOK, Environment \/ Output \/ RunReturns \/ LogCloses \/ UNCHANGED vars
  PROVE  /\ UNCHANGED <<inPc, next, verdict, approved, forwarded>>
         /\ \A n \in Positions : sent'[n] = sent[n]
         /\ \A d \in delivered' : d.kind = "policyError" => d \in delivered
<1>1. UNCHANGED <<inPc, next, verdict, approved, forwarded>>
  BY DEF Environment, ClientSends, ClientCloses, ClientStopsReading, ServerAnswers,
         ServerNoise, ServerAsks, ServerExits, Output, OutputReads, Deliver, DeliverLine,
         TakePending, AppendCompleted, OutputKills, OutputEOF, RunReturns, LogCloses,
         vars, inputVars, serverVars
<1>2. \A n \in Positions : sent'[n] = sent[n]
  <2>1. CASE \E m \in ClientMessages : ClientSends(m)
    BY <2>1 DEF ClientSends, TypeOK, ClientTyped, Positions
  <2>2. CASE ~\E m \in ClientMessages : ClientSends(m)
    BY <2>2 DEF Environment, ClientCloses, ClientStopsReading, ServerAnswers,
         ServerNoise, ServerAsks, ServerExits, Output, OutputReads, Deliver,
         DeliverLine, TakePending, AppendCompleted, OutputKills, OutputEOF, RunReturns,
         LogCloses, vars, clientVars
  <2> QED BY <2>1, <2>2
<1>3. \A d \in delivered' : d.kind = "policyError" => d \in delivered
  <2>1. CASE Deliver
    <3>1. line.kind # "policyError"
      BY <2>1 DEF Deliver, TypeOK, OutputTyped, ServerLine, LineKinds
    <3> QED BY <2>1, <3>1 DEF Deliver, DeliverLine, WriteToClient
  <2>2. CASE ~Deliver
    BY <2>2 DEF Environment, ClientSends, ClientCloses, ClientStopsReading,
         ServerAnswers, ServerNoise, ServerAsks, ServerExits, Output, OutputReads,
         TakePending, AppendCompleted, OutputKills, OutputEOF, RunReturns, LogCloses,
         vars
  <2> QED BY <2>1, <2>2
<1> QED BY <1>1, <1>2, <1>3

\* So they leave PolicyInv alone.
LEMMA PolicyOthers ==
  ASSUME TypeOK, PolicyInv,
         Environment \/ Output \/ RunReturns \/ LogCloses \/ UNCHANGED vars
  PROVE  PolicyInv'
BY OthersRest, PolicyFrame

\* PolicyInv holds in every reachable state.
LEMMA PolicyInvariant == Spec => []PolicyInv
<1>1. Init => PolicyInv
  BY DEF Init, PolicyInv, PolicyEnforced
<1>2. TypeOK /\ PolicyInv /\ [Next]_vars => PolicyInv'
  BY PolicyInput, PolicyOthers DEF Next
<1> QED BY <1>1, <1>2, TypeCorrect, PTL DEF Spec

\* Nothing the policy blocks, and nothing held without a human's own yes, ever
\* reaches the server (inspectRequest, handleApproval, blockCall).
THEOREM PolicyIsEnforced == Spec => []PolicyEnforced
<1>1. PolicyInv => PolicyEnforced
  BY DEF PolicyInv
<1> QED BY <1>1, PolicyInvariant, PTL
=============================================================================
