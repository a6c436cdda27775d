----------------------------- MODULE FateProofs -----------------------------
(***************************************************************************)
(* What becomes of a message, for every instance of Gateway: it has one    *)
(* fate and at most one record, a record is true of its message and, with  *)
(* an honest server, paired with its own answer; a session with a log      *)
(* implements the ledger, and one without a log lets the policy decide     *)
(* alone.  Each part rests on an inductive invariant of its own: FateInv,  *)
(* UnimpededInv, OnceInv, EntriesInv, LinesInv, HeldInv and LedgerInv.     *)
(***************************************************************************)
EXTENDS GatewayProofs, SequenceTheorems, FiniteSetTheorems

\* The steps at which the fate of the current message is still open, or refused
\* and not yet recorded.
Pending == {"hold", "remember", "refuse", "auditRefusal", "forward"}
Untold  == {"hold", "remember", "refuse", "forward"}
Refusals == {"deny", "rejected", "timeout"}

\* The input goroutine: nothing past the current message was passed or approved,
\* the current one not while it is pending, and its verdict is a true one.
InputInv ==
  /\ forwarded \subseteq 1..Cur /\ approved \subseteq 1..Cur
  /\ inPc \in Pending => Cur \notin forwarded
  /\ inPc = "hold" => Cur \notin approved
  /\ inPc = "remember" /\ Msg.tool # NoTool => verdict.decision \in Cleared
  /\ inPc \in {"refuse", "auditRefusal"} =>
       /\ verdict.decision \in Refusals
       /\ verdict.decision \in {"rejected", "timeout"} =>
            NeedsHuman(Msg) /\ Cur \notin approved

\* The client was told of a refusal only where nothing was passed.
ToldInv ==
  \A d \in delivered : d.kind = "policyError" =>
    /\ d.call \in (1..Cur) \ forwarded
    /\ inPc \in Untold => d.call # Cur

\* A record of a refusal is a true one, and of a message that is done with.
TrueRefusal(e) ==
  /\ e.call \in (1..Cur) \ forwarded
  /\ inPc \in Pending => e.call # Cur
  /\ e.decision # "none"
  /\ e.decision \in {"rejected", "timeout"} =>
       NeedsHuman(sent[e.call]) /\ e.call \notin approved
BookInv == \A i \in 1..Len(log) : log[i].decision \notin Cleared => TrueRefusal(log[i])

\* What awaits an answer as a tool call was cleared.
TableInv ==
  /\ \A id \in DOMAIN calls : calls[id].tool # NoTool => calls[id].decision \in Cleared
  /\ outPc = "append" => taken.decision \in Cleared

FateInv == InputInv /\ ToldInv /\ BookInv /\ TableInv

-----------------------------------------------------------------------------
\* The current position, as arithmetic needs it.
LEMMA CurBounds ==
  ASSUME TypeOK
  PROVE  /\ Cur \in Nat /\ next = Cur + 1 /\ Cur <= Len(sent) /\ Len(sent) \in Nat
         /\ inPc \notin {"read", "done"} => Cur \in 1..Cur
BY DEF TypeOK, InputTyped, ClientTyped, Cur

\* While the input goroutine rests and sent only grows, what InputInv and
\* TrueRefusal say of a message stays.
LEMMA RestFrame ==
  ASSUME TypeOK, UNCHANGED <<inPc, next, verdict, approved, forwarded>>,
         \A n \in Positions : sent'[n] = sent[n]
  PROVE  /\ InputInv => InputInv'
         /\ \A e : TrueRefusal(e) => TrueRefusal(e)'
<1>1. Cur' = Cur /\ \A n \in 1..Cur : sent'[n] = sent[n]
  BY CurBounds DEF Cur, Positions
<1>2. \A n \in 1..Cur : NeedsHuman(sent[n])' = NeedsHuman(sent[n])
  BY <1>1 DEF NeedsHuman
<1>3. inPc \notin {"read", "done"} => Msg' = Msg /\ NeedsHuman(Msg)' = NeedsHuman(Msg)
  BY <1>1, CurBounds DEF Msg, NeedsHuman
<1>4. InputInv => InputInv'
  BY <1>1, <1>3 DEF InputInv
<1>5. ASSUME NEW e, TrueRefusal(e) PROVE TrueRefusal(e)'
  BY <1>1, <1>2, <1>5 DEF TrueRefusal
<1> QED BY <1>4, <1>5

\* The book stays true when its refusals do, and what is appended is cleared or a
\* true refusal (Logger.Append).
LEMMA BookFrame ==
  ASSUME TypeOK, BookInv, \A e : TrueRefusal(e) => TrueRefusal(e)',
         \/ log' = log
         \/ \E e : log' = Append(log, e) /\ (e.decision \notin Cleared => TrueRefusal(e)')
  PROVE  BookInv'
<1>0. log \in Seq(LogEntry)
  BY DEF TypeOK, LogTyped
<1>1. ASSUME NEW i \in 1..Len(log), log'[i] = log[i], log'[i].decision \notin Cleared
      PROVE  TrueRefusal(log[i])'
  <2> DEFINE e == log[i]
  <2>1. PICK x : x = log[i] /\ x = log'[i] /\ TrueRefusal(x)
    BY <1>1 DEF BookInv
  <2>2. TrueRefusal(x)'
    BY <2>1
  <2> QED BY <2>1, <2>2 DEF TrueRefusal
<1>2. CASE log' = log
  BY <1>1, <1>2 DEF BookInv
<1>3. ASSUME NEW e, log' = Append(log, e), e.decision \notin Cleared => TrueRefusal(e)'
      PROVE  BookInv'
  <2>1. /\ Len(log') = Len(log) + 1 /\ Len(log) \in Nat
        /\ \A i \in 1..Len(log) : log'[i] = log[i]
        /\ log'[Len(log) + 1] = e
    BY <1>0, <1>3
  <2>2. SUFFICES ASSUME NEW i \in 1..Len(log'), log'[i].decision \notin Cleared
                 PROVE  TrueRefusal(log[i])'
    BY DEF BookInv
  <2>3. CASE i = Len(log) + 1
    BY <1>3, <2>1, <2>2, <2>3 DEF TrueRefusal
  <2> QED BY <1>1, <2>1, <2>2, <2>3
<1> QED BY <1>2, <1>3

\* The client, the server, the output goroutine and the end of the session decide
\* nobody's fate.
LEMMA FateOthers ==
  ASSUME TypeOK, FateInv,
         Environment \/ Output \/ RunReturns \/ LogCloses \/ UNCHANGED vars
  PROVE  FateInv'
<1>1. InputInv' /\ \A e : TrueRefusal(e) => TrueRefusal(e)'
  BY OthersRest, RestFrame DEF FateInv
<1>2. ToldInv'
  <2>1. Cur' = Cur
    BY OthersRest DEF Cur
  <2> QED BY <2>1, OthersRest DEF FateInv, ToldInv
<1>3. BookInv'
  <2>1. CASE AppendCompleted
    <3>1. taken.decision \in Cleared
      BY <2>1 DEF AppendCompleted, FateInv, TableInv
    <3> QED BY <1>1, <2>1, <3>1, BookFrame DEF AppendCompleted, AppendEntry, FateInv
  <2>2. CASE ~AppendCompleted
    <3>1. log' = log
      BY <2>2 DEF Environment, ClientSends, ClientCloses, ClientStopsReading,
         ServerAnswers, ServerNoise, ServerAsks, ServerExits, Output, OutputReads,
         Deliver, DeliverLine, TakePending, OutputKills, OutputEOF, RunReturns,
         LogCloses, vars, logVars
    <3> QED BY <1>1, <3>1, BookFrame DEF FateInv
  <2> QED BY <2>1, <2>2
<1>4. TableInv'
  <2>1. CASE TakePending
    BY <2>1 DEF TakePending, Releases, Delete, FateInv, TableInv, tableVars
  <2>2. CASE ~TakePending
    BY <2>2 DEF Environment, ClientSends, ClientCloses, ClientStopsReading,
         ServerAnswers, ServerNoise, ServerAsks, ServerExits, Output, OutputReads,
         Deliver, DeliverLine, AppendCompleted, OutputKills, OutputEOF, RunReturns,
         LogCloses, vars, tableVars, outputVars, FateInv, TableInv
  <2> QED BY <2>1, <2>2
<1> QED BY <1>1, <1>2, <1>3, <1>4 DEF FateInv

\* Reading the next message: the last one is done with (readMessage, inspectRequest).
LEMMA FateRead ==
  ASSUME TypeOK, FateInv, Read
  PROVE  FateInv'
<1> USE CurBounds
<1>1. /\ inPc = "read" /\ sent' = sent /\ approved' = approved
      /\ forwarded' = forwarded /\ delivered' = delivered /\ log' = log
      /\ UNCHANGED <<calls, outPc, taken>> /\ next' = next + 1
      /\ Cur' = Cur + 1 /\ Msg' = sent[next] /\ next \in 1..Len(sent)
  BY DEF Read, ReadAs, clientVars, serverVars, logVars, tableVars, outputVars, Cur,
         Msg, TypeOK, InputTyped
<1>2. Cur' \notin 1..Cur /\ 1..Cur \subseteq 1..Cur' /\ Cur' # None
  BY <1>1 DEF None
<1>3. sent[next] \in SentRecord /\ (sent[next].kind = "call" <=> sent[next].tool \in Tools)
  BY <1>1 DEF TypeOK, ClientTyped, Positions
<1>4. InputInv'
  <2>1. inPc' = "remember" /\ Msg'.tool # NoTool => verdict'.decision \in Cleared
    BY <1>1, <1>3 DEF Read, ReadAs, SentRecord, Reserves, Allowed, Cleared
  <2>2. inPc' \in {"refuse", "auditRefusal"} => verdict'.decision = "deny"
    BY DEF Read, ReadAs
  <2> QED BY <1>1, <1>2, <2>1, <2>2 DEF FateInv, InputInv, Refusals
<1>5. ToldInv'
  BY <1>1, <1>2 DEF FateInv, ToldInv
<1>6. \A e : TrueRefusal(e) => TrueRefusal(e)'
  BY <1>1, <1>2 DEF TrueRefusal, NeedsHuman
<1>7. BookInv'
  BY <1>1, <1>6, BookFrame DEF FateInv
<1>8. TableInv'
  BY <1>1 DEF FateInv, TableInv
<1> QED BY <1>4, <1>5, <1>7, <1>8 DEF FateInv

\* The steps of the input goroutine that follow, while the current message stays.
LEMMA FateInput ==
  ASSUME TypeOK, FateInv, PolicyInv, Input
  PROVE  FateInv'
<1> USE CurBounds
<1>1. CASE HumanApproves
  <2>1. /\ inPc = "hold" /\ Cur' = Cur /\ Msg' = Msg /\ sent' = sent
        /\ forwarded' = forwarded /\ approved' = approved \cup {Cur}
        /\ delivered' = delivered /\ log' = log /\ UNCHANGED <<calls, outPc, taken>>
        /\ inPc' \in {"remember", "forward"} /\ verdict'.decision = "approved"
    BY <1>1 DEF HumanApproves, clientVars, serverVars, logVars, tableVars,
                outputVars, Cur, Msg
  <2>2. InputInv' /\ ToldInv'
    BY <2>1 DEF FateInv, InputInv, ToldInv, Pending, Untold, Cleared
  <2>3. \A e : TrueRefusal(e) => TrueRefusal(e)'
    BY <2>1 DEF TrueRefusal, Pending, NeedsHuman
  <2> QED BY <2>1, <2>2, <2>3, BookFrame DEF FateInv, TableInv
<1>2. CASE HumanRejects \/ HoldTimesOut
  <2>1. /\ inPc = "hold" /\ Cur' = Cur /\ Msg' = Msg /\ sent' = sent
        /\ forwarded' = forwarded /\ approved' = approved
        /\ delivered' = delivered /\ log' = log /\ UNCHANGED <<calls, outPc, taken>>
        /\ inPc' = "refuse" /\ verdict'.decision \in {"rejected", "timeout"}
    BY <1>2 DEF HumanRejects, HoldTimesOut, HoldRefused, clientVars, serverVars,
                logVars, tableVars, outputVars, Cur, Msg
  <2>2. NeedsHuman(Msg)'
    BY <2>1 DEF PolicyInv, NeedsHuman
  <2>3. InputInv' /\ ToldInv'
    BY <2>1, <2>2 DEF FateInv, InputInv, ToldInv, Pending, Untold, Refusals
  <2>4. \A e : TrueRefusal(e) => TrueRefusal(e)'
    BY <2>1 DEF TrueRefusal, Pending, NeedsHuman
  <2> QED BY <2>1, <2>3, <2>4, BookFrame DEF FateInv, TableInv
<1>3. CASE Remember
  <2>1. /\ inPc = "remember" /\ Cur' = Cur /\ Msg' = Msg /\ sent' = sent
        /\ forwarded' = forwarded /\ approved' = approved
        /\ delivered' = delivered /\ log' = log /\ UNCHANGED <<outPc, taken>>
        /\ \/ inPc' = "forward" /\ UNCHANGED verdict
           \/ inPc' = "refuse" /\ verdict'.decision = "deny"
    BY <1>3 DEF Remember, clientVars, serverVars, logVars, outputVars, Cur, Msg
  <2>2. InputInv' /\ ToldInv'
    BY <2>1 DEF FateInv, InputInv, ToldInv, Pending, Untold, Refusals
  <2>3. \A e : TrueRefusal(e) => TrueRefusal(e)'
    BY <2>1 DEF TrueRefusal, Pending, NeedsHuman
  <2>4. TableInv'
    <3>1. Msg.tool # NoTool => verdict.decision \in Cleared
      BY <2>1 DEF FateInv, InputInv
    <3> QED BY <1>3, <2>1, <3>1 DEF Remember, Insert, FateInv, TableInv, tableVars
  <2> QED BY <2>1, <2>2, <2>3, <2>4, BookFrame DEF FateInv
<1>4. CASE Refuse
  <2>1. /\ inPc = "refuse" /\ Cur' = Cur /\ Msg' = Msg /\ sent' = sent
        /\ forwarded' = forwarded /\ approved' = approved /\ verdict' = verdict
        /\ log' = log /\ UNCHANGED <<calls, outPc, taken>>
        /\ inPc' \in {"auditRefusal", "read"}
        /\ \A d \in delivered' : d \in delivered \/ d.call = Cur
    BY <1>4 DEF Refuse, WriteToClient, clientVars, serverVars, logVars, tableVars,
                outputVars, Cur, Msg
  <2>2. InputInv' /\ ToldInv'
    BY <2>1 DEF FateInv, InputInv, ToldInv, Pending, Untold, NeedsHuman
  <2>3. \A e : TrueRefusal(e) => TrueRefusal(e)'
    BY <2>1 DEF TrueRefusal, Pending, NeedsHuman
  <2> QED BY <2>1, <2>2, <2>3, BookFrame DEF FateInv, TableInv
<1>5. CASE AuditRefusal
  <2>1. /\ inPc = "auditRefusal" /\ Cur' = Cur /\ sent' = sent
        /\ forwarded' = forwarded /\ approved' = approved
        /\ delivered' = delivered /\ UNCHANGED <<calls, outPc, taken>>
        /\ inPc' = "read" /\ Msg = sent[Cur]
        /\ AppendEntry(Msg.tool, Cur, verdict.decision, None)
    BY <1>5 DEF AuditRefusal, clientVars, serverVars, tableVars, outputVars, Cur, Msg
  <2>2. InputInv' /\ ToldInv'
    BY <2>1 DEF FateInv, InputInv, ToldInv, Pending, Untold
  <2>3. \A e : TrueRefusal(e) => TrueRefusal(e)'
    BY <2>1 DEF TrueRefusal, Pending, NeedsHuman
  <2> DEFINE e == [tool |-> Msg.tool, call |-> Cur, decision |-> verdict.decision,
                   result |-> None]
  <2>4. \A x : x = e => TrueRefusal(x)'
    BY <2>1 DEF FateInv, InputInv, Pending, Refusals, TrueRefusal, NeedsHuman
  <2>5. log' = log \/ log' = Append(log, e)
    BY <2>1 DEF AppendEntry
  <2>6. BookInv'
    BY <2>3, <2>4, <2>5, BookFrame DEF FateInv
  <2> QED BY <2>1, <2>2, <2>6 DEF FateInv, TableInv
<1>6. CASE Forward
  <2>1. /\ inPc = "forward" /\ Cur' = Cur /\ sent' = sent
        /\ forwarded' \subseteq forwarded \cup {Cur} /\ approved' = approved
        /\ delivered' = delivered /\ log' = log /\ UNCHANGED <<calls, outPc, taken>>
        /\ inPc' \in {"read", "kill"}
    BY <1>6 DEF Forward, clientVars, logVars, tableVars, outputVars, Cur
  <2>2. InputInv' /\ ToldInv'
    BY <2>1 DEF FateInv, InputInv, ToldInv, Pending, Untold
  <2>3. \A e : TrueRefusal(e) => TrueRefusal(e)'
    BY <2>1 DEF TrueRefusal, Pending, NeedsHuman
  <2> QED BY <2>1, <2>2, <2>3, BookFrame DEF FateInv, TableInv
<1>7. CASE InputKills \/ InputEOF
  <2>1. /\ Cur' = Cur /\ sent' = sent /\ forwarded' = forwarded
        /\ approved' = approved /\ delivered' = delivered /\ log' = log
        /\ UNCHANGED <<calls, outPc, taken>> /\ inPc' = "done"
    BY <1>7 DEF InputKills, InputEOF, clientVars, serverVars, logVars, tableVars,
                outputVars, Cur
  <2>2. InputInv' /\ ToldInv'
    BY <2>1 DEF FateInv, InputInv, ToldInv, Pending, Untold
  <2>3. \A e : TrueRefusal(e) => TrueRefusal(e)'
    BY <2>1 DEF TrueRefusal, Pending, NeedsHuman
  <2> QED BY <2>1, <2>2, <2>3, BookFrame DEF FateInv, TableInv
<1> QED BY <1>1, <1>2, <1>3, <1>4, <1>5, <1>6, <1>7, FateRead DEF Input

\* FateInv holds in every reachable state.
LEMMA FateInvariant == Spec => []FateInv
<1>1. Init => FateInv
  BY DEF Init, FateInv, InputInv, ToldInv, BookInv, TableInv, Pending, Cur
<1>2. TypeOK /\ PolicyInv /\ FateInv /\ [Next]_vars => FateInv'
  BY FateInput, FateOthers DEF Next
<1> QED BY <1>1, <1>2, TypeCorrect, PolicyInvariant, PTL DEF Spec

\* Nobody is told, and no record says, that a message was blocked when the server
\* has it (blockCall, handleApproval, recordResponse).
THEOREM EveryMessageHasOneFate == Spec => []OneFate
<1>1. TypeOK /\ FateInv => OneFate
  <2> SUFFICES ASSUME TypeOK, FateInv, NEW n \in forwarded
               PROVE  /\ ~RefusedTo(n)
                      /\ \A e \in Entries : e.call = n => e.decision \in Cleared
    BY DEF OneFate
  <2>1. ~RefusedTo(n)
    BY DEF RefusedTo, FateInv, ToldInv
  <2>2. ASSUME NEW e \in Entries, e.call = n, e.decision \notin Cleared PROVE FALSE
    <3>1. PICK i \in 1..Len(log) : e = log[i]
      BY DEF Entries
    <3> QED BY <2>2, <3>1 DEF FateInv, BookInv, TrueRefusal
  <2> QED BY <2>1, <2>2
<1> QED BY <1>1, TypeCorrect, FateInvariant, PTL

\* A record of a rejection, a timeout or a denial is true of its call
\* (handleApproval, blockCall).
THEOREM RefusalRecordsAreTrue == Spec => []RefusalRecordIsTrue
<1>1. FateInv => RefusalRecordIsTrue
  <2> SUFFICES ASSUME FateInv, NEW e \in Entries, e.decision \notin Cleared
               PROVE  TrueRefusal(e)
    BY DEF RefusalRecordIsTrue, TrueRefusal
  <2>1. PICK i \in 1..Len(log) : e = log[i]
    BY DEF Entries
  <2> QED BY <2>1 DEF FateInv, BookInv
<1> QED BY <1>1, FateInvariant, PTL

-----------------------------------------------------------------------------
\* Without a log: what was passed is what the policy clears, except for the current
\* message while it is pending.
UnimpededInv ==
  ~Auditing =>
    /\ inPc \notin {"remember", "auditRefusal"}
    /\ inPc = "read" => forwarded = {n \in 1..Cur : Clearable(n)}
    /\ inPc \in {"hold", "refuse", "forward"} =>
         forwarded = {n \in 1..Cur : Clearable(n)} \ {Cur}
    /\ inPc = "refuse" => ~Clearable(Cur)
    /\ \A d \in delivered : d.kind = "policyError" => ~Clearable(d.call)

\* The other goroutines and the environment clear nothing and refuse nothing.
LEMMA UnimpededOthers ==
  ASSUME TypeOK, FateInv, UnimpededInv, ~Auditing,
         UNCHANGED <<inPc, next, approved, forwarded>>,
         \A n \in Positions : sent'[n] = sent[n],
         \A d \in delivered' : d.kind = "policyError" => d \in delivered
  PROVE  UnimpededInv'
<1>1. Cur' = Cur
  BY DEF Cur
<1>2. \A n \in 1..Cur : Clearable(n)' <=> Clearable(n)
  BY CurBounds DEF Clearable, Denied, NeedsHuman, Positions
<1>3. {n \in 1..Cur : Clearable(n)}' = {n \in 1..Cur : Clearable(n)}
  BY <1>1, <1>2
<1>4. inPc = "refuse" => ~Clearable(Cur)'
  BY <1>1, <1>2, CurBounds DEF UnimpededInv
<1>5. \A d \in delivered' : d.kind = "policyError" => ~Clearable(d.call)'
  BY <1>2 DEF UnimpededInv, FateInv, ToldInv
<1> QED BY <1>1, <1>3, <1>4, <1>5 DEF UnimpededInv

\* Reading refuses outright only what the policy does not clear.
LEMMA UnimpededRead ==
  ASSUME TypeOK, FateInv, UnimpededInv, ~Auditing, Read
  PROVE  UnimpededInv'
<1> USE CurBounds
<1>1. /\ inPc = "read" /\ sent' = sent /\ approved' = approved
      /\ forwarded' = forwarded /\ delivered' = delivered /\ Cur' = Cur + 1
      /\ next = Cur' /\ inPc' \notin {"read", "remember", "auditRefusal"}
  BY DEF Read, ReadAs, Reserves, clientVars, serverVars, Cur, TypeOK, InputTyped
<1>2. \A n : Clearable(n)' <=> Clearable(n)
  BY <1>1 DEF Clearable, Denied, NeedsHuman
<1>3. Cur' \notin approved
  BY <1>1 DEF FateInv, InputInv
<1>4. inPc' = "refuse" => Refuses(sent[next]) /\ Inspecting
  BY DEF Read, ReadAs
<1>5. inPc' = "refuse" => ~Clearable(Cur')
  BY <1>1, <1>3, <1>4 DEF Refuses, Refusal, Clearable
<1>6. {n \in 1..Cur : Clearable(n)} = {n \in 1..Cur' : Clearable(n)} \ {Cur'}
  BY <1>1
<1>7. {n \in 1..Cur : Clearable(n)}' = {n \in 1..Cur' : Clearable(n)}
  BY <1>2
<1>8. Clearable(Cur)' <=> Clearable(Cur')
  BY <1>2
<1> QED BY <1>1, <1>2, <1>5, <1>6, <1>7, <1>8 DEF UnimpededInv

\* The rest of the input goroutine passes the current message if, and only if, it is
\* cleared.
LEMMA UnimpededInput ==
  ASSUME TypeOK, FateInv, PolicyInv, UnimpededInv, ~Auditing, Input
  PROVE  UnimpededInv'
<1> USE CurBounds
<1>1. CASE HumanApproves
  <2>1. /\ inPc = "hold" /\ Cur' = Cur /\ sent' = sent /\ forwarded' = forwarded
        /\ approved' = approved \cup {Cur} /\ delivered' = delivered
        /\ inPc' = "forward"
    BY <1>1 DEF HumanApproves, clientVars, serverVars, Cur
  <2>2. \A n : n # Cur => (Clearable(n)' <=> Clearable(n))
    BY <2>1 DEF Clearable, Denied, NeedsHuman
  <2>3. ({n \in 1..Cur : Clearable(n)} \ {Cur})' = {n \in 1..Cur : Clearable(n)} \ {Cur}
    BY <2>1, <2>2
  <2>4. \A d \in delivered : d.kind = "policyError" => d.call # Cur
    BY <2>1 DEF FateInv, ToldInv, Untold
  <2> QED BY <2>1, <2>2, <2>3, <2>4 DEF UnimpededInv
<1>2. CASE HumanRejects \/ HoldTimesOut
  <2>1. /\ inPc = "hold" /\ Cur' = Cur /\ sent' = sent /\ forwarded' = forwarded
        /\ approved' = approved /\ delivered' = delivered /\ inPc' = "refuse"
    BY <1>2 DEF HumanRejects, HoldTimesOut, HoldRefused, clientVars, serverVars, Cur
  <2>2. \A n : Clearable(n)' <=> Clearable(n)
    BY <2>1 DEF Clearable, Denied, NeedsHuman
  <2>3. ~Clearable(Cur)
    BY <2>1 DEF PolicyInv, FateInv, InputInv, Clearable, Msg
  <2> QED BY <2>1, <2>2, <2>3 DEF UnimpededInv
<1>3. CASE Refuse
  <2>1. /\ inPc = "refuse" /\ Cur' = Cur /\ sent' = sent /\ forwarded' = forwarded
        /\ approved' = approved /\ inPc' = "read"
        /\ \A d \in delivered' : d \in delivered \/ d.call = Cur
    BY <1>3 DEF Refuse, WriteToClient, clientVars, serverVars, Cur
  <2>2. \A n : Clearable(n)' <=> Clearable(n)
    BY <2>1 DEF Clearable, Denied, NeedsHuman
  <2>3. ~Clearable(Cur) /\ forwarded = {n \in 1..Cur : Clearable(n)}
    BY <2>1 DEF UnimpededInv
  <2> QED BY <2>1, <2>2, <2>3 DEF UnimpededInv
<1>4. CASE Forward
  <2>1. /\ inPc = "forward" /\ Cur' = Cur /\ sent' = sent /\ approved' = approved
        /\ delivered' = delivered
        /\ \/ inPc' = "read" /\ forwarded' = forwarded \cup {Cur}
           \/ inPc' = "kill"
    BY <1>4 DEF Forward, clientVars, Cur
  <2>2. \A n : Clearable(n)' <=> Clearable(n)
    BY <2>1 DEF Clearable, Denied, NeedsHuman
  <2>3. Clearable(Cur) /\ Cur \in 1..Cur
    BY <2>1 DEF PolicyInv
  <2>4. forwarded \cup {Cur} = {n \in 1..Cur : Clearable(n)}
    BY <2>1, <2>3 DEF UnimpededInv
  <2> QED BY <2>1, <2>2, <2>4 DEF UnimpededInv
<1>5. CASE InputKills \/ InputEOF
  <2>1. /\ Cur' = Cur /\ sent' = sent /\ approved' = approved
        /\ delivered' = delivered /\ inPc' = "done"
    BY <1>5 DEF InputKills, InputEOF, clientVars, Cur
  <2>2. \A n : Clearable(n)' <=> Clearable(n)
    BY <2>1 DEF Clearable, Denied, NeedsHuman
  <2> QED BY <2>1, <2>2 DEF UnimpededInv
<1>6. ~Remember /\ ~AuditRefusal
  BY DEF Remember, AuditRefusal, UnimpededInv
<1> QED BY <1>1, <1>2, <1>3, <1>4, <1>5, <1>6, UnimpededRead DEF Input

\* Without a log, exactly what the policy clears reaches the server, whatever ids
\* collide; without rules as well, everything does (run, pump).
THEOREM UnauditedIsUnimpeded == Spec => []Unimpeded
<1>1. Init => UnimpededInv
  BY DEF Init, UnimpededInv, Cur
<1>2. TypeOK /\ FateInv /\ PolicyInv /\ UnimpededInv /\ [Next]_vars => UnimpededInv'
  <2> SUFFICES ASSUME TypeOK, FateInv, PolicyInv, UnimpededInv, [Next]_vars, ~Auditing
               PROVE  UnimpededInv'
    BY DEF UnimpededInv
  <2>1. CASE ~Input
    BY <2>1, OthersRest, UnimpededOthers DEF Next
  <2> QED BY <2>1, UnimpededInput
<1>3. UnimpededInv => Unimpeded
  BY DEF UnimpededInv, Unimpeded
<1> QED BY <1>1, <1>2, <1>3, TypeCorrect, PolicyInvariant, FateInvariant, PTL DEF Spec

-----------------------------------------------------------------------------
\* The messages the table waits for, the one the output goroutine is recording,
\* and those that were recorded or whose append failed.
Awaiting == {calls[id].call : id \in DOMAIN calls}
Taken    == IF outPc = "append" THEN {taken.call} ELSE {}
Booked   == {log[i].call : i \in 1..Len(log)} \cup lost

\* The steps at which the input goroutine may still put the current message in the
\* table or in the log.
Undecided == {"hold", "remember", "refuse", "auditRefusal"}

\* Whoever is to record a message is the only one: the input goroutine, the table,
\* the output goroutine or the log has it, and at most one of them.
OnceInv ==
  /\ Awaiting \cup Taken \cup Booked \subseteq 1..Cur
  /\ inPc \in Undecided => Cur \notin Awaiting \cup Taken \cup Booked
  /\ Awaiting \cap Taken = {} /\ Awaiting \cap Booked = {} /\ Taken \cap Booked = {}
  /\ \A id, other \in DOMAIN calls : calls[id].call = calls[other].call => id = other
  /\ RecordedOnce

\* The append of a message that has no record leaves it one record, or none and a
\* mark (Logger.Append).
LEMMA BookAppend ==
  ASSUME TypeOK, RecordedOnce, NEW n \in Nat \ Booked, NEW tool, NEW d, NEW r,
         AppendEntry(tool, n, d, r)
  PROVE  RecordedOnce' /\ Booked' = Booked \cup {n}
<1> DEFINE e == [tool |-> tool, call |-> n, decision |-> d, result |-> r]
<1>0. log \in Seq(LogEntry) /\ Len(log) \in Nat
  BY DEF TypeOK, LogTyped
<1>1. CASE log' = Append(log, e) /\ lost' = lost
  <2>1. /\ Len(log') = Len(log) + 1 /\ log'[Len(log) + 1] = e
        /\ \A i \in 1..Len(log) : log'[i] = log[i]
    BY <1>0, <1>1
  <2>2. \A i \in 1..Len(log') : i \in 1..Len(log) \/ i = Len(log) + 1
    BY <1>0, <2>1
  <2>3. \A i \in 1..Len(log) : log'[i].call = log[i].call /\ log[i].call # n
    BY <2>1 DEF Booked
  <2>4. \A i, j \in 1..Len(log') : log'[i].call = log'[j].call => i = j
    BY <2>1, <2>2, <2>3 DEF RecordedOnce
  <2>5. \A i \in 1..Len(log') : log'[i].call \notin lost
    BY <2>1, <2>2 DEF RecordedOnce, Entries, Booked
  <2>6. Booked' = Booked \cup {n}
    <3>1. \A i \in 1..Len(log) : i \in 1..Len(log')
      BY <1>0, <2>1
    <3>2. Len(log) + 1 \in 1..Len(log') /\ log'[Len(log) + 1].call = n
      BY <1>0, <2>1
    <3> QED BY <1>1, <2>2, <2>3, <3>1, <3>2 DEF Booked
  <2> QED BY <1>1, <2>4, <2>5, <2>6 DEF RecordedOnce, Entries
<1>2. CASE log' = log /\ lost' = lost \cup {n}
  BY <1>2 DEF RecordedOnce, Entries, Booked
<1> QED BY <1>1, <1>2 DEF AppendEntry

\* A step that moves no message between table, output goroutine and log.
LEMMA OnceFrame ==
  ASSUME TypeOK, OnceInv, UNCHANGED <<calls, log, lost>>, Taken' = Taken,
         \/ Cur' = Cur /\ (inPc' \in Undecided => inPc \in Undecided)
         \/ Cur' = Cur + 1
  PROVE  OnceInv'
<1>1. Awaiting' = Awaiting /\ Booked' = Booked /\ RecordedOnce'
  BY DEF Awaiting, Booked, OnceInv, RecordedOnce, Entries
<1>2. 1..Cur \subseteq 1..Cur' /\ (Cur' = Cur + 1 => Cur' \notin 1..Cur)
  BY CurBounds
<1> QED BY <1>1, <1>2 DEF OnceInv

\* The input goroutine keeps or hands over the message it is at.
LEMMA OnceInput ==
  ASSUME TypeOK, OnceInv, Input
  PROVE  OnceInv'
<1> USE CurBounds
<1>1. CASE Read
  <2>1. Cur' = Cur + 1 /\ UNCHANGED <<calls, log, lost, outPc, taken>>
    BY <1>1 DEF Read, ReadAs, tableVars, logVars, outputVars, Cur, TypeOK, InputTyped
  <2> QED BY <2>1, OnceFrame DEF Taken
<1>2. CASE \/ HumanApproves \/ HumanRejects \/ HoldTimesOut \/ Refuse \/ Forward
           \/ InputKills \/ InputEOF
  <2>1. /\ Cur' = Cur /\ UNCHANGED <<calls, log, lost, outPc, taken>>
        /\ inPc' \in Undecided => inPc \in Undecided
    BY <1>2 DEF HumanApproves, HumanRejects, HoldTimesOut, HoldRefused, Refuse, Forward,
                InputKills, InputEOF, tableVars, logVars, outputVars, Cur, Undecided
  <2> QED BY <2>1, OnceFrame DEF Taken
<1>3. CASE Remember
  <2>1. inPc = "remember" /\ Cur' = Cur /\ UNCHANGED <<log, lost, outPc, taken>>
    BY <1>3 DEF Remember, logVars, outputVars, Cur
  <2>2. CASE UNCHANGED calls
    BY <2>1, <2>2, OnceFrame DEF Taken, Undecided
  <2>3. ASSUME NEW e, Msg.id \notin DOMAIN calls, Insert(Msg.id, e), e.call = Cur,
               inPc' = "forward"
        PROVE  OnceInv'
    <3>1. /\ DOMAIN calls' = DOMAIN calls \cup {Msg.id} /\ calls'[Msg.id] = e
          /\ \A id \in DOMAIN calls : calls'[id] = calls[id]
      BY <2>3 DEF Insert
    <3>2. Awaiting' = Awaiting \cup {Cur}
      BY <2>3, <3>1 DEF Awaiting
    <3>3. Taken' = Taken /\ Booked' = Booked /\ RecordedOnce'
      BY <2>1 DEF Taken, Booked, OnceInv, RecordedOnce, Entries
    <3>4. Cur \notin Awaiting \cup Taken \cup Booked /\ Cur \in 1..Cur
      BY <2>1 DEF OnceInv, Undecided
    <3>5. \A id \in DOMAIN calls : calls[id].call # Cur
      BY <3>4 DEF Awaiting
    <3>6. \A id, other \in DOMAIN calls' :
            calls'[id].call = calls'[other].call => id = other
      BY <2>3, <3>1, <3>5 DEF OnceInv
    <3>7. inPc' \notin Undecided
      BY <2>3 DEF Undecided
    <3> QED BY <2>1, <3>2, <3>3, <3>4, <3>6, <3>7 DEF OnceInv
  <2> QED BY <1>3, <2>2, <2>3 DEF Remember, Reused, tableVars
<1>4. CASE AuditRefusal
  <2>1. /\ inPc = "auditRefusal" /\ inPc' = "read" /\ Cur' = Cur
        /\ UNCHANGED <<calls, outPc, taken>>
        /\ AppendEntry(Msg.tool, Cur, verdict.decision, None)
    BY <1>4 DEF AuditRefusal, tableVars, outputVars, Cur
  <2>2. Cur \notin Awaiting \cup Taken \cup Booked /\ Cur \in 1..Cur /\ RecordedOnce
    BY <2>1 DEF OnceInv, Undecided
  <2>3. RecordedOnce' /\ Booked' = Booked \cup {Cur}
    BY <2>1, <2>2, BookAppend
  <2>4. Awaiting' = Awaiting /\ Taken' = Taken
    BY <2>1 DEF Awaiting, Taken
  <2> QED BY <2>1, <2>2, <2>3, <2>4 DEF OnceInv, Undecided
<1> QED BY <1>1, <1>2, <1>3, <1>4 DEF Input

\* The output goroutine takes a message from the table and books it.
LEMMA OnceOutput ==
  ASSUME TypeOK, OnceInv, Output
  PROVE  OnceInv'
<1>0. inPc' = inPc /\ Cur' = Cur
  BY DEF Output, OutputReads, Deliver, DeliverLine, TakePending, AppendCompleted,
         OutputKills, OutputEOF, inputVars, Cur
<1>1. CASE OutputReads \/ Deliver \/ OutputKills \/ OutputEOF
  <2>1. UNCHANGED <<calls, log, lost>> /\ Taken' = Taken
    BY <1>1 DEF OutputReads, Deliver, DeliverLine, OutputKills, OutputEOF, tableVars,
                logVars, Taken
  <2> QED BY <1>0, <2>1, OnceFrame
<1>2. CASE TakePending
  <2>1. UNCHANGED <<log, lost>> /\ outPc = "record" /\ Taken = {}
    BY <1>2 DEF TakePending, logVars, Taken
  <2>2. CASE UNCHANGED calls /\ outPc' = "read"
    BY <1>0, <2>1, <2>2, OnceFrame DEF Taken
  <2>3. CASE /\ line.id \in DOMAIN calls /\ Delete(line.id)
             /\ taken' = calls[line.id]
    <3> DEFINE n == calls[line.id].call
    <3>1. /\ DOMAIN calls' = DOMAIN calls \ {line.id}
          /\ \A id \in DOMAIN calls' : calls'[id] = calls[id]
      BY <2>3 DEF Delete
    <3>2. Awaiting' = Awaiting \ {n} /\ n \in Awaiting
      BY <2>3, <3>1 DEF Awaiting, OnceInv
    <3>3. Taken' \subseteq {n}
      BY <2>3 DEF Taken
    <3>4. Booked' = Booked /\ RecordedOnce'
      BY <2>1 DEF Booked, OnceInv, RecordedOnce, Entries
    <3>5. \A id, other \in DOMAIN calls' :
            calls'[id].call = calls'[other].call => id = other
      BY <3>1 DEF OnceInv
    <3> HIDE DEF n
    <3> QED BY <1>0, <3>2, <3>3, <3>4, <3>5 DEF OnceInv
  <2> QED BY <1>2, <2>2, <2>3 DEF TakePending, Releases, tableVars
<1>3. CASE AppendCompleted
  <2>1. /\ outPc = "append" /\ outPc' = "read" /\ UNCHANGED calls
        /\ AppendEntry(taken.tool, taken.call, taken.decision, line.call)
    BY <1>3 DEF AppendCompleted, tableVars
  <2>2. Taken = {taken.call} /\ Taken' = {} /\ Awaiting' = Awaiting
    BY <2>1 DEF Taken, Awaiting
  <2>3. taken.call \in Nat \ Booked /\ RecordedOnce
    BY <2>2 DEF OnceInv, TypeOK, OutputTyped, Entry
  <2>4. RecordedOnce' /\ Booked' = Booked \cup {taken.call}
    BY <2>1, <2>3, BookAppend
  <2> QED BY <1>0, <2>1, <2>2, <2>4 DEF OnceInv
<1> QED BY <1>1, <1>2, <1>3 DEF Output

LEMMA OnceInvariant == Spec => []OnceInv
<1>1. Init => OnceInv
  BY DEF Init, OnceInv, Awaiting, Taken, Booked, RecordedOnce, Entries, Undecided, Cur
<1>2. TypeOK /\ OnceInv /\ [Next]_vars => OnceInv'
  <2> SUFFICES ASSUME TypeOK, OnceInv, [Next]_vars PROVE OnceInv' OBVIOUS
  <2>1. CASE Environment \/ RunReturns \/ LogCloses \/ UNCHANGED vars
    <3>1. UNCHANGED <<calls, log, lost, inPc, next, outPc, taken>>
      BY <2>1 DEF Environment, ClientSends, ClientCloses, ClientStopsReading,
         ServerAnswers, ServerNoise, ServerAsks, ServerExits, RunReturns, LogCloses,
         vars, inputVars, tableVars, outputVars, logVars
    <3> QED BY <3>1, OnceFrame DEF Taken, Cur
  <2> QED BY <2>1, OnceInput, OnceOutput DEF Next
<1> QED BY <1>1, <1>2, TypeCorrect, PTL DEF Spec

\* No message has two records, and none that failed to be recorded has one, in
\* whatever order calls, answers, refusals and repeated ids meet (remember,
\* recordResponse, blockCall).
THEOREM EveryMessageIsRecordedOnce == Spec => []RecordedOnce
BY OnceInvariant, PTL DEF OnceInv
-----------------------------------------------------------------------------
\* How a message that awaits an answer was cleared.
Clearance(m) ==
  IF NeedsHuman(m) THEN "approved" ELSE IF m.kind = "call" THEN "allow" ELSE "none"

\* What awaits an answer is a message that was sent, under its own id, with its own
\* tool and the way it was cleared.
EntryIsTrue(e) ==
  /\ e.call \in Positions /\ e.tool = sent[e.call].tool
  /\ e.decision = Clearance(sent[e.call])
EntriesInv ==
  /\ inPc = "remember" => verdict.decision = Clearance(Msg)
  /\ \A id \in DOMAIN calls : EntryIsTrue(calls[id]) /\ sent[calls[id].call].id = id
  /\ outPc = "append" => EntryIsTrue(taken)
  /\ outPc \in {"record", "append"} => Auditing
  /\ \A n \in approved : NeedsHuman(sent[n])

\* While sent only grows, what is true of an entry stays.
LEMMA EntriesFrame ==
  ASSUME TypeOK, EntriesInv, \A n \in Positions : sent'[n] = sent[n],
         Positions \subseteq Positions'
  PROVE  /\ \A id \in DOMAIN calls :
              /\ calls[id].call \in Positions' /\ sent'[calls[id].call].id = id
              /\ calls[id].tool = sent'[calls[id].call].tool
              /\ calls[id].decision = Clearance(sent'[calls[id].call])
         /\ outPc = "append" =>
              /\ taken.call \in Positions' /\ taken.tool = sent'[taken.call].tool
              /\ taken.decision = Clearance(sent'[taken.call])
         /\ \A n \in approved : NeedsHuman(sent'[n])
         /\ inPc \notin {"read", "done"} /\ Cur' = Cur => Msg' = Msg
<1>1. approved \subseteq Positions
  BY DEF TypeOK, InputTyped
<1>2. inPc \notin {"read", "done"} => Cur \in Positions
  BY CurBounds DEF Positions
<1> QED BY <1>1, <1>2 DEF EntriesInv, EntryIsTrue, Msg

\* Positions only grow.
LEMMA SentGrows ==
  ASSUME TypeOK, [Next]_vars
  PROVE  Positions \subseteq Positions' /\ \A n \in Positions : sent'[n] = sent[n]
<1>1. CASE \E m \in ClientMessages : ClientSends(m)
  BY <1>1 DEF ClientSends, TypeOK, ClientTyped, Positions
<1>2. CASE ~\E m \in ClientMessages : ClientSends(m)
  <2>1. sent' = sent
    BY <1>2 DEF Next, Environment, ClientCloses, ClientStopsReading, ServerAnswers,
       ServerNoise, ServerAsks, ServerExits, Input, Read, ReadAs, HumanApproves,
       HumanRejects, HoldTimesOut, HoldRefused, Remember, Refuse, AuditRefusal,
       Forward, InputKills, InputEOF, Output, OutputReads, Deliver, DeliverLine,
       TakePending, AppendCompleted, OutputKills, OutputEOF, RunReturns, LogCloses,
       vars, clientVars
  <2> QED BY <2>1 DEF Positions
<1> QED BY <1>1, <1>2

\* The table's entries, and the one taken from it, are true (remember,
\* recordResponse).
LEMMA EntriesInput ==
  ASSUME TypeOK, PolicyInv, EntriesInv, Input
  PROVE  EntriesInv'
<1>0. Positions \subseteq Positions' /\ \A n \in Positions : sent'[n] = sent[n]
  BY SentGrows DEF Next
<1>1. UNCHANGED <<outPc, taken, sent>>
  BY DEF Input, Read, ReadAs, HumanApproves, HumanRejects, HoldTimesOut, HoldRefused,
     Remember, Refuse, AuditRefusal, Forward, InputKills, InputEOF, outputVars,
     clientVars
<1>2. CASE Read
  <2>1. UNCHANGED <<calls, approved>> /\ Msg' = sent[next]
    BY <1>1, <1>2 DEF Read, ReadAs, tableVars, Msg, Cur, TypeOK, InputTyped
  <2>2. inPc' = "remember" => verdict'.decision = Clearance(sent[next])
    BY <1>2 DEF Read, ReadAs, Reserves, Allowed, Clearance, NeedsHuman
  <2> QED BY <1>0, <1>1, <2>1, <2>2, EntriesFrame
          DEF EntriesInv, EntryIsTrue, Clearance, NeedsHuman
<1>3. CASE HumanApproves
  <2>1. UNCHANGED <<calls, Msg>> /\ approved' = approved \cup {Cur}
        /\ NeedsHuman(Msg) /\ Msg = sent[Cur] /\ verdict'.decision = "approved"
    BY <1>1, <1>3 DEF HumanApproves, tableVars, Msg, Cur, PolicyInv
  <2> QED BY <1>0, <1>1, <2>1, EntriesFrame
          DEF EntriesInv, EntryIsTrue, Clearance, NeedsHuman
<1>4. CASE Remember
  <2>1. UNCHANGED <<approved, Msg>> /\ inPc' # "remember" /\ inPc = "remember"
    BY <1>1, <1>4 DEF Remember, Msg, Cur
  <2>2. Cur \in Positions /\ Msg = sent[Cur]
    BY <2>1, CurBounds DEF Positions, Msg
  <2>3. \A id \in DOMAIN calls' :
          EntryIsTrue(calls'[id]) /\ sent[calls'[id].call].id = id
    BY <1>4, <2>2 DEF Remember, Insert, EntriesInv, EntryIsTrue, tableVars
  <2> QED BY <1>0, <1>1, <2>1, <2>3, EntriesFrame
          DEF EntriesInv, EntryIsTrue, Clearance, NeedsHuman
<1>5. CASE \/ HumanRejects \/ HoldTimesOut \/ Refuse \/ AuditRefusal \/ Forward
           \/ InputKills \/ InputEOF
  <2>1. UNCHANGED <<calls, approved>> /\ inPc' # "remember"
    BY <1>5 DEF HumanRejects, HoldTimesOut, HoldRefused, Refuse, AuditRefusal, Forward,
       InputKills, InputEOF, tableVars
  <2> QED BY <1>0, <1>1, <2>1, EntriesFrame
          DEF EntriesInv, EntryIsTrue, Clearance, NeedsHuman
<1> QED BY <1>2, <1>3, <1>4, <1>5 DEF Input

LEMMA EntriesOthers ==
  ASSUME TypeOK, EntriesInv,
         Environment \/ Output \/ RunReturns \/ LogCloses \/ UNCHANGED vars
  PROVE  EntriesInv'
<1>0. Positions \subseteq Positions' /\ \A n \in Positions : sent'[n] = sent[n]
  BY SentGrows DEF Next
<1>1. UNCHANGED <<inPc, verdict, approved>> /\ Cur' = Cur
  BY OthersRest DEF Cur
<1>2. /\ outPc' = "append" => \/ outPc = "append" /\ taken' = taken
                              \/ TakePending
      /\ outPc' \in {"record", "append"} => outPc \in {"record", "append"} \/ Auditing
  BY DEF Environment, ClientSends, ClientCloses, ClientStopsReading, ServerAnswers,
     ServerNoise, ServerAsks, ServerExits, Output, OutputReads, Deliver, DeliverLine,
     TakePending, AppendCompleted, OutputKills, OutputEOF, RunReturns, LogCloses,
     vars, outputVars
<1>3. CASE TakePending
  BY <1>0, <1>1, <1>2, <1>3, EntriesFrame
     DEF TakePending, Releases, Delete, tableVars, EntriesInv, EntryIsTrue, Clearance,
         NeedsHuman
<1>4. CASE ~TakePending
  <2>1. calls' = calls
    BY <1>4 DEF Environment, ClientSends, ClientCloses, ClientStopsReading, ServerAnswers,
       ServerNoise, ServerAsks, ServerExits, Output, OutputReads, Deliver, DeliverLine,
       AppendCompleted, OutputKills, OutputEOF, RunReturns, LogCloses, vars, tableVars
  <2> QED BY <1>0, <1>1, <1>2, <1>4, <2>1, EntriesFrame
          DEF EntriesInv, EntryIsTrue, Clearance, NeedsHuman
<1> QED BY <1>3, <1>4

LEMMA EntriesInvariant == Spec => []EntriesInv
<1>1. Init => EntriesInv
  BY DEF Init, EntriesInv
<1>2. TypeOK /\ PolicyInv /\ EntriesInv /\ [Next]_vars => EntriesInv'
  BY EntriesInput, EntriesOthers DEF Next
<1> QED BY <1>1, <1>2, TypeCorrect, PolicyInvariant, PTL DEF Spec
-----------------------------------------------------------------------------
\* An honest server's line is the answer of a request it received, or of none, and
\* no request has two: the lines still queued, and the one being handled.
HasId(m) == m.kind \in {"call", "request"}
LineIsTrue(l) ==
  IF l.kind = "response"
  THEN l.call \in answered /\ HasId(sent[l.call]) /\ l.id = sent[l.call].id
  ELSE l.call = None
Reading == {"deliver", "record", "append"}
LinesInv ==
  /\ \A i \in 1..Len(serverOut) : LineIsTrue(serverOut[i])
  /\ \A i, j \in 1..Len(serverOut) :
       serverOut[i].kind = "response" /\ serverOut[i].call = serverOut[j].call => i = j
  /\ outPc \in Reading => LineIsTrue(line)
  /\ outPc \in Reading /\ line.kind = "response" =>
       \A i \in 1..Len(serverOut) : serverOut[i].call # line.call

\* A step that neither emits nor takes a line.
LEMMA LinesFrame ==
  ASSUME TypeOK, LinesInv, UNCHANGED <<serverOut, line, answered>>,
         \A n \in Positions : sent'[n] = sent[n],
         outPc' \in Reading => outPc \in Reading
  PROVE  LinesInv'
<1>1. answered \subseteq Positions
  BY DEF TypeOK, ServerTyped
<1>2. \A l : LineIsTrue(l) => (IF l.kind = "response"
        THEN l.call \in answered' /\ HasId(sent'[l.call]) /\ l.id = sent'[l.call].id
        ELSE l.call = None)
  BY <1>1 DEF LineIsTrue
<1> QED BY <1>2 DEF LinesInv, LineIsTrue

\* The server emits a line: an answer it had not given, or no answer.
LEMMA LinesEmit ==
  ASSUME TypeOK, LinesInv, NEW l, serverOut' = Append(serverOut, l),
         UNCHANGED <<sent, outPc, line>>, answered \subseteq answered', LineIsTrue(l)',
         l.kind = "response" => l.call \notin answered \cup {None}
  PROVE  LinesInv'
<1>0. serverOut \in Seq(ServerLine) /\ answered \subseteq 1..Len(sent)
  BY DEF TypeOK, ServerTyped, Positions
<1>1. /\ Len(serverOut') = Len(serverOut) + 1 /\ Len(serverOut) \in Nat
      /\ serverOut'[Len(serverOut) + 1] = l
      /\ \A i \in 1..Len(serverOut) : serverOut'[i] = serverOut[i]
  BY <1>0
<1>2. \A i \in 1..Len(serverOut') : i \in 1..Len(serverOut) \/ i = Len(serverOut) + 1
  BY <1>1
<1>3. None \notin answered /\ (l.kind # "response" => l.call = None)
  BY <1>0 DEF None, LineIsTrue
<1>4. \A i \in 1..Len(serverOut) :
        serverOut[i].kind = "response" => serverOut[i].call \in answered
  BY DEF LinesInv, LineIsTrue
<1>5. \A i \in 1..Len(serverOut) :
        serverOut[i].kind # "response" => serverOut[i].call = None
  BY DEF LinesInv, LineIsTrue
<1>6. \A i \in 1..Len(serverOut') : LineIsTrue(serverOut[i])'
  <2>1. \A k : LineIsTrue(k) => LineIsTrue(k)'
    BY DEF LineIsTrue, HasId
  <2>2. \A i \in 1..Len(serverOut') : LineIsTrue(serverOut'[i]) \/ serverOut'[i] = l
    BY <1>1, <1>2 DEF LinesInv
  <2> SUFFICES ASSUME NEW i \in 1..Len(serverOut') PROVE LineIsTrue(serverOut[i])'
    OBVIOUS
  <2>3. PICK k : k = serverOut'[i] /\ LineIsTrue(k)'
    BY <2>1, <2>2
  <2> QED BY <2>3 DEF LineIsTrue
<1>7. \A i, j \in 1..Len(serverOut') :
        serverOut'[i].kind = "response" /\ serverOut'[i].call = serverOut'[j].call
          => i = j
  BY <1>1, <1>2, <1>3, <1>4, <1>5 DEF LinesInv
<1>8. outPc \in Reading => LineIsTrue(line)'
  BY DEF LinesInv, LineIsTrue
<1>9. outPc \in Reading /\ line.kind = "response" =>
        \A i \in 1..Len(serverOut') : serverOut'[i].call # line.call
  <2>1. outPc \in Reading /\ line.kind = "response" => line.call \in answered
    BY DEF LinesInv, LineIsTrue
  <2> QED BY <1>1, <1>2, <1>3, <2>1 DEF LinesInv
<1> QED BY <1>6, <1>7, <1>8, <1>9 DEF LinesInv, LineIsTrue, HasId

\* The output goroutine takes the first line.
LEMMA LinesTake ==
  ASSUME TypeOK, LinesInv, OutputReads
  PROVE  LinesInv'
<1>0. serverOut \in Seq(ServerLine) /\ serverOut # <<>>
  BY DEF TypeOK, ServerTyped, OutputReads
<1>1. /\ line' = serverOut[1] /\ Len(serverOut') = Len(serverOut) - 1
      /\ 1 \in 1..Len(serverOut)
      /\ \A i \in 1..Len(serverOut') :
           i + 1 \in 1..Len(serverOut) /\ serverOut'[i] = serverOut[i + 1]
      /\ UNCHANGED <<sent, answered>>
  BY <1>0 DEF OutputReads, clientVars
<1>2. \A l : LineIsTrue(l) => LineIsTrue(l)'
  BY <1>1 DEF LineIsTrue, HasId
<1>3. \A i \in 1..Len(serverOut') : i + 1 # 1 /\ i \in Int
  BY <1>0, <1>1
<1>4. \A i, j \in 1..Len(serverOut') : i + 1 = j + 1 => i = j
  BY <1>0, <1>1
<1>5. \A i \in 1..Len(serverOut') : LineIsTrue(serverOut[i])'
  <2> SUFFICES ASSUME NEW i \in 1..Len(serverOut') PROVE LineIsTrue(serverOut[i])'
    OBVIOUS
  <2>1. PICK k : k = serverOut'[i] /\ LineIsTrue(k)'
    BY <1>1, <1>2 DEF LinesInv
  <2> QED BY <2>1 DEF LineIsTrue
<1>6. LineIsTrue(line)'
  <2>1. PICK k : k = line' /\ LineIsTrue(k)'
    BY <1>1, <1>2 DEF LinesInv
  <2> QED BY <2>1 DEF LineIsTrue
<1>7. \A i, j \in 1..Len(serverOut') :
        serverOut'[i].kind = "response" /\ serverOut'[i].call = serverOut'[j].call
          => i = j
  BY <1>1, <1>4 DEF LinesInv
<1>8. line'.kind = "response" => \A i \in 1..Len(serverOut') : serverOut'[i].call # line'.call
  BY <1>1, <1>3 DEF LinesInv
<1> QED BY <1>5, <1>6, <1>7, <1>8 DEF LinesInv

LEMMA LinesInvariant == HonestServer => (Spec => []LinesInv)
<1> SUFFICES ASSUME HonestServer PROVE Spec => []LinesInv
  OBVIOUS
<1>1. Init => LinesInv
  BY DEF Init, LinesInv, Reading
<1>2. TypeOK /\ LinesInv /\ [Next]_vars => LinesInv'
  <2> SUFFICES ASSUME TypeOK, LinesInv, [Next]_vars PROVE LinesInv'
    OBVIOUS
  <2>1. CASE OutputReads
    BY <2>1, LinesTake
  <2>2. ASSUME NEW n \in forwarded, ServerAnswers(n) PROVE LinesInv'
    <3> DEFINE l == [kind |-> "response", id |-> sent[n].id, call |-> n]
    <3>1. /\ serverOut' = Append(serverOut, l) /\ UNCHANGED <<sent, outPc, line>>
          /\ answered' = answered \cup {n} /\ n \notin answered \cup {None}
          /\ LineIsTrue(l)'
      BY <2>2 DEF ServerAnswers, Emits, clientVars, outputVars, LineIsTrue, HasId, None,
                  TypeOK, ServerTyped, Positions
    <3> QED BY <3>1, LinesEmit
  <2>3. ASSUME NEW kind \in NoiseKinds, NEW id, ServerAsks(kind, id) PROVE LinesInv'
    <3> DEFINE l == [kind |-> kind, id |-> id, call |-> None]
    <3>1. /\ serverOut' = Append(serverOut, l) /\ UNCHANGED <<sent, outPc, line>>
          /\ answered' = answered /\ l.kind # "response" /\ LineIsTrue(l)'
      BY <2>3 DEF ServerAsks, Emits, clientVars, outputVars, LineIsTrue, HonestServer
    <3> QED BY <3>1, LinesEmit
  <2>4. CASE ~OutputReads /\ ~ServerNoise /\ ~\E n \in forwarded : ServerAnswers(n)
    <3>1. UNCHANGED <<serverOut, line, answered>>
      BY <2>4 DEF Next, Environment, ClientSends, ClientCloses, ClientStopsReading,
         ServerExits, Input, Read, ReadAs, HumanApproves, HumanRejects, HoldTimesOut,
         HoldRefused, Remember, Refuse, AuditRefusal, Forward, InputKills, InputEOF,
         Output, Deliver, DeliverLine, TakePending, AppendCompleted, OutputKills,
         OutputEOF, RunReturns, LogCloses, vars, serverVars, outputVars
    <3>2. outPc' \in Reading => outPc \in Reading
      BY <2>4 DEF Next, Environment, ClientSends, ClientCloses, ClientStopsReading,
         ServerExits, Input, Read, ReadAs, HumanApproves, HumanRejects, HoldTimesOut,
         HoldRefused, Remember, Refuse, AuditRefusal, Forward, InputKills, InputEOF,
         Output, Deliver, DeliverLine, TakePending, AppendCompleted, OutputKills,
         OutputEOF, RunReturns, LogCloses, vars, outputVars, Reading
    <3> QED BY <3>1, <3>2, SentGrows, LinesFrame
  <2> QED BY <2>1, <2>2, <2>3, <2>4 DEF ServerNoise
<1> QED BY <1>1, <1>2, TypeCorrect, PTL DEF Spec
-----------------------------------------------------------------------------
\* The id of a message is reserved for it.
Reserved(n) == sent[n].id \in DOMAIN calls /\ calls[sent[n].id].call = n

\* ReservationHeld, with what makes it inductive: a request that is about to be
\* forwarded has its id too, and what the output goroutine took from the table
\* belongs to the answer it took it for.
HeldInv ==
  /\ \A n \in Unsettled \cap Positions : HasId(sent[n]) => Reserved(n)
  /\ inPc = "forward" /\ HasId(Msg) => Reserved(Cur)
  /\ outPc = "append" => line.kind = "response" /\ taken.call = line.call

\* Only what the server was given is unsettled.
LEMMA UnsettledForwarded ==
  ASSUME TypeOK, LinesInv
  PROVE  Unsettled \subseteq forwarded \cup {None}
BY DEF TypeOK, ServerTyped, LinesInv, LineIsTrue, Unsettled, Reading

\* A step that leaves the table alone and adds nothing to what is unsettled.
LEMMA HeldFrame ==
  ASSUME TypeOK, LinesInv, HeldInv, calls' = calls, Unsettled' \subseteq Unsettled \cup {None},
         \A n \in Positions : sent'[n] = sent[n],
         inPc' = "forward" => inPc = "forward" /\ Cur' = Cur,
         outPc' = "append" => outPc = "append" /\ UNCHANGED <<line, taken>>
  PROVE  HeldInv'
<1>1. Unsettled' \cap Positions' \subseteq Unsettled \cap Positions
  BY UnsettledForwarded DEF TypeOK, ServerTyped, Positions, None
<1>2. inPc = "forward" => Cur \in Positions
  BY CurBounds DEF Positions
<1>3. \A n \in Positions : Reserved(n)' <=> Reserved(n)
  BY DEF Reserved
<1>4. inPc' = "forward" /\ HasId(Msg)' => HasId(Msg)
  BY <1>2 DEF HasId, Msg
<1>5. \A n \in Unsettled' \cap Positions' : HasId(sent'[n]) => Reserved(n)'
  BY <1>1, <1>3 DEF HeldInv
<1>6. inPc' = "forward" /\ HasId(Msg)' => Reserved(Cur)'
  <2> SUFFICES ASSUME inPc' = "forward", HasId(Msg)' PROVE Reserved(Cur)'
    OBVIOUS
  <2>1. Reserved(Cur) /\ Cur' = Cur /\ sent'[Cur] = sent[Cur]
    BY <1>2, <1>4 DEF HeldInv
  <2> QED BY <2>1 DEF Reserved
<1> QED BY <1>5, <1>6 DEF HeldInv, HasId

\* The input goroutine: no request is forwarded without its reservation, and a
\* reservation replaces none (inspectRequest, remember).
LEMMA HeldInput ==
  ASSUME TypeOK, LinesInv, HeldInv, Auditing, Input
  PROVE  HeldInv'
<1>0. UNCHANGED <<sent, outPc, line, taken, answered, serverOut>>
  BY DEF Input, Read, ReadAs, HumanApproves, HumanRejects, HoldTimesOut, HoldRefused,
     Remember, Refuse, AuditRefusal, Forward, InputKills, InputEOF, outputVars,
     clientVars, serverVars
<1>1. CASE Read
  <2>1. UNCHANGED <<calls, forwarded>> /\ Msg' = sent[next]
    BY <1>0, <1>1 DEF Read, ReadAs, tableVars, serverVars, Msg, Cur, TypeOK, InputTyped
  <2>2. ~(inPc' = "forward" /\ HasId(Msg)')
    BY <1>1, <2>1 DEF Read, ReadAs, HasId, Inspecting, Refuses, Refusal, Holds, Reserves,
       Denied, NeedsHuman, Allowed, Decide
  <2>3. Unsettled' = Unsettled /\ Positions' = Positions
    BY <1>0, <2>1 DEF Unsettled, Positions
  <2> QED BY <1>0, <2>1, <2>2, <2>3 DEF HeldInv, Reserved
<1>2. CASE \/ HumanApproves \/ HumanRejects \/ HoldTimesOut \/ Refuse \/ AuditRefusal
           \/ InputKills \/ InputEOF
  <2>1. UNCHANGED <<calls, forwarded>> /\ inPc' # "forward"
    BY <1>2 DEF HumanApproves, HumanRejects, HoldTimesOut, HoldRefused, Refuse,
       AuditRefusal, InputKills, InputEOF, tableVars, serverVars
  <2>2. Unsettled' = Unsettled
    BY <1>0, <2>1 DEF Unsettled
  <2> QED BY <1>0, <2>1, <2>2, HeldFrame
<1>3. CASE Remember
  <2>1. UNCHANGED <<forwarded, Cur, Msg>> /\ Msg = sent[Cur]
    BY <1>0, <1>3 DEF Remember, serverVars, Cur, Msg
  <2>2. Unsettled' = Unsettled /\ Positions' = Positions
    BY <1>0, <2>1 DEF Unsettled, Positions
  <2>3. \A n : Reserved(n) => Reserved(n)'
    BY <1>0, <1>3 DEF Remember, Reused, Insert, Reserved, tableVars
  <2>4. inPc' = "forward" => Reserved(Cur)'
    BY <1>0, <1>3, <2>1 DEF Remember, Insert, Reserved
  <2> QED BY <1>0, <2>1, <2>2, <2>3, <2>4 DEF HeldInv
<1>4. CASE Forward
  <2>1. UNCHANGED calls /\ inPc' # "forward" /\ inPc = "forward"
        /\ forwarded' \subseteq forwarded \cup {Cur}
    BY <1>4 DEF Forward, tableVars
  <2>2. Unsettled' \subseteq Unsettled \cup {Cur} /\ Positions' = Positions
    BY <1>0, <2>1 DEF Unsettled, Positions
  <2>3. \A n : Reserved(n)' <=> Reserved(n)
    BY <1>0, <2>1 DEF Reserved
  <2> QED BY <1>0, <2>1, <2>2, <2>3 DEF HeldInv, Msg
<1> QED BY <1>1, <1>2, <1>3, <1>4 DEF Input

\* An answer frees its own id and no other (recordResponse).
LEMMA HeldTake ==
  ASSUME TypeOK, InputInv, LinesInv, HeldInv, TakePending
  PROVE  HeldInv'
<1>0. /\ UNCHANGED <<sent, forwarded, answered, serverOut, line, inPc, next>>
      /\ outPc = "record" /\ outPc' \in {"read", "append"}
  BY DEF TakePending, clientVars, serverVars, inputVars
<1>1. Unsettled' \subseteq Unsettled
  BY <1>0 DEF Unsettled
<1>2. CASE UNCHANGED calls /\ outPc' = "read"
  BY <1>0, <1>1, <1>2, HeldFrame DEF Cur
<1>3. CASE Releases(line) /\ Delete(line.id) /\ taken' = calls[line.id]
  <2>1. /\ line.kind = "response" /\ line.call \in answered /\ HasId(sent[line.call])
        /\ line.id = sent[line.call].id
        /\ \A i \in 1..Len(serverOut) : serverOut[i].call # line.call
    BY <1>0, <1>3 DEF Releases, LinesInv, Reading, LineIsTrue
  <2>2. answered \subseteq forwarded /\ forwarded \subseteq Positions
    BY DEF TypeOK, ServerTyped
  <2>3. calls[line.id].call = line.call
    <3>1. line.call \in Unsettled \cap Positions
      BY <1>0, <2>1, <2>2 DEF Unsettled
    <3> QED BY <2>1, <3>1 DEF HeldInv, Reserved
  <2>4. line.call \notin Unsettled'
    BY <1>0, <2>1 DEF Unsettled
  <2>5. inPc = "forward" => line.call # Cur
    BY <2>1, <2>2 DEF InputInv, Pending
  <2>6. \A n : n # line.call /\ Reserved(n) => Reserved(n)'
    BY <1>0, <1>3, <2>3 DEF Delete, Reserved
  <2>7. Positions' = Positions /\ Cur' = Cur /\ Msg' = Msg
    BY <1>0 DEF Positions, Cur, Msg
  <2> QED BY <1>0, <1>1, <1>3, <2>1, <2>3, <2>4, <2>5, <2>6, <2>7 DEF HeldInv
<1> QED BY <1>2, <1>3 DEF TakePending, tableVars

\* Emitting, reading and delivering a line reserve and free nothing.
LEMMA HeldOthers ==
  ASSUME TypeOK, LinesInv, HeldInv, Environment \/ Output \/ RunReturns \/ LogCloses
           \/ UNCHANGED vars,
         ~TakePending
  PROVE  HeldInv'
<1>0. UNCHANGED <<inPc, next, forwarded>> /\ Cur' = Cur
      /\ \A n \in Positions : sent'[n] = sent[n]
  BY OthersRest DEF Cur
<1>1. /\ calls' = calls
      /\ outPc' = "append" => outPc = "append" /\ UNCHANGED <<line, taken>>
  BY DEF Environment, ClientSends, ClientCloses, ClientStopsReading, ServerAnswers,
     ServerNoise, ServerAsks, ServerExits, Output, OutputReads, Deliver, DeliverLine,
     AppendCompleted, OutputKills, OutputEOF, RunReturns, LogCloses, vars, tableVars,
     outputVars
<1>2. serverOut \in Seq(ServerLine)
  BY DEF TypeOK, ServerTyped
<1>3. Unsettled' \subseteq Unsettled \cup {None}
  <2>1. ASSUME NEW n \in forwarded, ServerAnswers(n) PROVE Unsettled' \subseteq Unsettled
    <3>1. /\ n \notin answered /\ answered' = answered \cup {n}
          /\ UNCHANGED <<outPc, line>> /\ n \in Unsettled
          /\ \A i \in 1..Len(serverOut') :
               \/ i \in 1..Len(serverOut) /\ serverOut'[i] = serverOut[i]
               \/ serverOut'[i].call = n
      BY <1>2, <2>1 DEF ServerAnswers, Emits, outputVars, Unsettled
    <3> QED BY <1>0, <3>1 DEF Unsettled
  <2>2. ASSUME NEW kind, NEW id, ServerAsks(kind, id)
        PROVE  Unsettled' \subseteq Unsettled \cup {None}
    <3>1. /\ UNCHANGED <<outPc, line, answered>>
          /\ \A i \in 1..Len(serverOut') :
               \/ i \in 1..Len(serverOut) /\ serverOut'[i] = serverOut[i]
               \/ serverOut'[i].call = None
      BY <1>2, <2>2 DEF ServerAsks, Emits, outputVars
    <3> QED BY <1>0, <3>1 DEF Unsettled
  <2>3. CASE OutputReads
    <3>1. /\ answered' = answered /\ outPc = "read" /\ line' = serverOut[1]
          /\ 1 \in 1..Len(serverOut)
          /\ \A i \in 1..Len(serverOut') :
               i + 1 \in 1..Len(serverOut) /\ serverOut'[i] = serverOut[i + 1]
      BY <1>2, <2>3 DEF OutputReads
    <3> QED BY <1>0, <3>1 DEF Unsettled
  <2>4. CASE ~OutputReads /\ ~ServerNoise /\ ~\E n \in forwarded : ServerAnswers(n)
    <3>1. UNCHANGED <<answered, serverOut, line>>
      BY <2>4 DEF Environment, ClientSends, ClientCloses, ClientStopsReading,
         ServerExits, Output, Deliver, DeliverLine, TakePending, AppendCompleted,
         OutputKills, OutputEOF, RunReturns, LogCloses, vars, serverVars, outputVars
    <3>2. outPc' \in {"deliver", "record"} => outPc \in {"deliver", "record"}
      BY <2>4 DEF Environment, ClientSends, ClientCloses, ClientStopsReading,
         ServerExits, Output, Deliver, DeliverLine, TakePending, AppendCompleted,
         OutputKills, OutputEOF, RunReturns, LogCloses, vars, outputVars
    <3> QED BY <1>0, <3>1, <3>2 DEF Unsettled
  <2> QED BY <2>1, <2>2, <2>3, <2>4 DEF ServerNoise
<1> QED BY <1>0, <1>1, <1>3, HeldFrame

LEMMA HeldInvariant == HonestServer /\ Auditing => (Spec => []HeldInv)
<1> SUFFICES ASSUME HonestServer, Auditing PROVE Spec => []HeldInv
  OBVIOUS
<1>1. Init => HeldInv
  BY DEF Init, HeldInv, Unsettled
<1>2. TypeOK /\ FateInv /\ LinesInv /\ HeldInv /\ [Next]_vars => HeldInv'
  <2> SUFFICES ASSUME TypeOK, FateInv, LinesInv, HeldInv, [Next]_vars PROVE HeldInv'
    OBVIOUS
  <2>1. CASE TakePending
    BY <2>1, HeldTake DEF FateInv
  <2> QED BY <2>1, HeldInput, HeldOthers DEF Next
<1>3. Spec => []LinesInv
  BY LinesInvariant
<1> QED BY <1>1, <1>2, <1>3, TypeCorrect, FateInvariant, PTL DEF Spec

\* While a request that was passed on has an answer to come, nobody else has its id:
\* the reason why an answer may be matched by its id alone (remember,
\* recordResponse).
THEOREM ReservationsAreHeld == Spec => []ReservationHeld
<1>1. CASE HonestServer /\ Auditing
  <2>1. HeldInv => ReservationHeld
    BY DEF HeldInv, ReservationHeld, HasId, Reserved
  <2>2. Spec => []HeldInv
    BY <1>1, HeldInvariant
  <2> QED BY <2>1, <2>2, PTL
<1>2. CASE ~(HonestServer /\ Auditing)
  <2>1. ReservationHeld
    BY <1>2 DEF ReservationHeld
  <2> QED BY <2>1, PTL
<1> QED BY <1>1, <1>2
-----------------------------------------------------------------------------
\* What the output goroutine appends is the call its answer belongs to.
LEMMA CompletionIsTrue ==
  ASSUME TypeOK, FateInv, EntriesInv, LinesInv, HeldInv, outPc = "append"
  PROVE  /\ taken.call = line.call /\ taken.call \in answered
         /\ taken.call \in forwarded /\ taken.call \in Positions
         /\ taken.tool = sent[taken.call].tool
         /\ taken.decision =
              IF NeedsHuman(sent[taken.call]) THEN "approved" ELSE "allow"
<1>1. line.kind = "response" /\ taken.call = line.call /\ line.call \in answered
  BY DEF HeldInv, LinesInv, LineIsTrue, Reading
<1>2. EntryIsTrue(taken) /\ taken.decision \in Cleared
  BY DEF EntriesInv, FateInv, TableInv
<1> QED BY <1>1, <1>2 DEF EntryIsTrue, Clearance, Cleared, TypeOK, ServerTyped

\* What Attribution says of one entry.
Attributed(e) ==
  e.decision \in Cleared =>
    /\ e.result = e.call /\ e.call \in forwarded
    /\ e.tool = sent[e.call].tool
    /\ e.decision = IF NeedsHuman(sent[e.call]) THEN "approved" ELSE "allow"
AllAttributed == \A i \in 1..Len(log) : Attributed(log[i])

\* What the input goroutine appends is a refusal.
LEMMA AttributedStep ==
  ASSUME TypeOK, FateInv, EntriesInv, LinesInv, Auditing => HeldInv, AllAttributed,
         [Next]_vars
  PROVE  AllAttributed'
<1>0. log \in Seq(LogEntry) /\ forwarded \subseteq Positions
  BY DEF TypeOK, LogTyped, ServerTyped
<1>1. \A n \in Positions : sent'[n] = sent[n]
  BY SentGrows
<1>2. forwarded \subseteq forwarded'
  <2>1. CASE Forward
    BY <2>1 DEF Forward
  <2>2. CASE ~Forward
    BY <2>2 DEF Next, Environment, ClientSends, ClientCloses, ClientStopsReading,
       ServerAnswers, ServerNoise, ServerAsks, ServerExits, Input, Read, ReadAs,
       HumanApproves, HumanRejects, HoldTimesOut, HoldRefused, Remember, Refuse,
       AuditRefusal, InputKills, InputEOF, Output, OutputReads, Deliver, DeliverLine,
       TakePending, AppendCompleted, OutputKills, OutputEOF, RunReturns, LogCloses,
       vars, serverVars
  <2> QED BY <2>1, <2>2
<1>3. \A e : Attributed(e) => Attributed(e)'
  BY <1>0, <1>1, <1>2 DEF Attributed, NeedsHuman
<1>4. ASSUME NEW e, log' = Append(log, e), Attributed(e)' PROVE AllAttributed'
  <2> SUFFICES ASSUME NEW i \in 1..Len(log') PROVE Attributed(log[i])'
    BY DEF AllAttributed
  <2>1. PICK x : x = log'[i] /\ Attributed(x)'
    BY <1>0, <1>3, <1>4 DEF AllAttributed
  <2> QED BY <2>1 DEF Attributed
<1>5. CASE log' = log
  <2> SUFFICES ASSUME NEW i \in 1..Len(log') PROVE Attributed(log[i])'
    BY DEF AllAttributed
  <2>1. PICK x : x = log'[i] /\ Attributed(x)'
    BY <1>3, <1>5 DEF AllAttributed
  <2> QED BY <2>1 DEF Attributed
<1>6. CASE AppendCompleted
  <2> DEFINE e == [tool |-> taken.tool, call |-> taken.call,
                   decision |-> taken.decision, result |-> line.call]
  <2>1. outPc = "append" /\ HeldInv
    BY <1>6 DEF AppendCompleted, EntriesInv
  <2>2. \A x : x = e => Attributed(x)
    BY <2>1, CompletionIsTrue DEF Attributed
  <2>3. log' = log \/ log' = Append(log, e)
    BY <1>6 DEF AppendCompleted, AppendEntry
  <2>4. PICK x : x = e /\ Attributed(x)'
    BY <1>3, <2>2
  <2> QED BY <1>4, <1>5, <2>3, <2>4
<1>7. CASE AuditRefusal
  <2> DEFINE e == [tool |-> Msg.tool, call |-> Cur, decision |-> verdict.decision,
                   result |-> None]
  <2>1. verdict.decision \notin Cleared
    BY <1>7 DEF AuditRefusal, FateInv, InputInv, Refusals, Cleared
  <2>2. \A x : x = e => Attributed(x)'
    BY <2>1 DEF Attributed
  <2>3. log' = log \/ log' = Append(log, e)
    BY <1>7 DEF AuditRefusal, AppendEntry
  <2>4. PICK x : x = e /\ Attributed(x)'
    BY <2>2
  <2> QED BY <1>4, <1>5, <2>3, <2>4
<1>8. CASE ~AppendCompleted /\ ~AuditRefusal
  <2>1. log' = log
    BY <1>8 DEF Next, Environment, ClientSends, ClientCloses, ClientStopsReading,
       ServerAnswers, ServerNoise, ServerAsks, ServerExits, Input, Read, ReadAs,
       HumanApproves, HumanRejects, HoldTimesOut, HoldRefused, Remember, Refuse,
       Forward, InputKills, InputEOF, Output, OutputReads, Deliver, DeliverLine,
       TakePending, OutputKills, OutputEOF, RunReturns, LogCloses, vars, logVars
  <2> QED BY <1>5, <2>1
<1> QED BY <1>6, <1>7, <1>8

\* The record of a completed call has its own answer, its own tool and the verdict
\* that cleared it, although ids are reused and answers come in any order
\* (remember, recordResponse).
THEOREM CompletionsAreAttributed == Spec => []Attribution
<1>1. CASE HonestServer
  <2>1. Init => AllAttributed
    BY DEF Init, AllAttributed
  <2>2. TypeOK /\ FateInv /\ EntriesInv /\ LinesInv /\ (Auditing => HeldInv)
          /\ AllAttributed /\ [Next]_vars => AllAttributed'
    BY AttributedStep
  <2>3. AllAttributed => Attribution
    BY DEF AllAttributed, Attributed, Attribution, Entries
  <2>4. Spec => []LinesInv
    BY <1>1, LinesInvariant
  <2>5. Spec => [](Auditing => HeldInv)
    <3>1. CASE Auditing
      <4>1. Spec => []HeldInv
        BY <1>1, <3>1, HeldInvariant
      <4> QED BY <4>1, PTL
    <3>2. CASE ~Auditing
      BY <3>2, PTL
    <3> QED BY <3>1, <3>2
  <2> QED BY <2>1, <2>2, <2>3, <2>4, <2>5, TypeCorrect, FateInvariant,
             EntriesInvariant, PTL DEF Spec
<1>2. CASE ~HonestServer
  <2>1. Attribution
    BY <1>2 DEF Attribution
  <2> QED BY <2>1, PTL
<1> QED BY <1>1, <1>2
-----------------------------------------------------------------------------
\* A message that is still open is in no record.
OpenInv == inPc \in Pending => Cur \notin Booked

\* Who is recorded: the current message by its refusal, or one that was answered.
LEMMA OpenStep ==
  ASSUME TypeOK, FateInv, OnceInv, EntriesInv, LinesInv, HeldInv, OpenInv, [Next]_vars
  PROVE  OpenInv'
<1>1. CASE Read
  <2>1. Cur' = Cur + 1 /\ UNCHANGED <<log, lost>> /\ Booked \subseteq 1..Cur
    BY <1>1 DEF Read, ReadAs, logVars, Cur, TypeOK, InputTyped, OnceInv
  <2> QED BY <2>1, CurBounds DEF OpenInv, Booked
<1>2. CASE AppendCompleted
  <2>1. /\ UNCHANGED <<inPc, next>> /\ outPc = "append" /\ taken.call \notin Booked
        /\ AppendEntry(taken.tool, taken.call, taken.decision, line.call)
    BY <1>2 DEF AppendCompleted, inputVars, OnceInv, Taken
  <2>2. Booked' = Booked \cup {taken.call}
    BY <2>1, BookAppend DEF OnceInv, TypeOK, OutputTyped, Entry
  <2>3. inPc \in Pending => taken.call # Cur
    BY <2>1, CompletionIsTrue DEF FateInv, InputInv
  <2> QED BY <2>1, <2>2, <2>3 DEF OpenInv, Cur
<1>3. CASE AuditRefusal
  BY <1>3 DEF AuditRefusal, OpenInv, Pending
<1>4. CASE ~Read /\ ~AppendCompleted /\ ~AuditRefusal
  <2>1. UNCHANGED <<log, lost, next>> /\ (inPc' \in Pending => inPc \in Pending)
    BY <1>4 DEF Next, Environment, ClientSends, ClientCloses, ClientStopsReading,
       ServerAnswers, ServerNoise, ServerAsks, ServerExits, Input,
       HumanApproves, HumanRejects, HoldTimesOut, HoldRefused, Remember, Refuse,
       Forward, InputKills, InputEOF, Output, OutputReads, Deliver, DeliverLine,
       TakePending, OutputKills, OutputEOF, RunReturns, LogCloses, vars, logVars,
       inputVars, Pending
  <2> QED BY <2>1 DEF OpenInv, Booked, Cur
<1> QED BY <1>1, <1>2, <1>3, <1>4

\* What an honest server and a log make of the session, in one invariant.
LedgerInv ==
  /\ TypeOK /\ PolicyInv /\ FateInv /\ OnceInv /\ EntriesInv /\ LinesInv /\ HeldInv
  /\ OpenInv
LEMMA LedgerInvariant == HonestServer /\ Auditing => (Spec => []LedgerInv)
<1> SUFFICES ASSUME HonestServer, Auditing PROVE Spec => []LedgerInv
  OBVIOUS
<1>1. Init => OpenInv
  BY DEF Init, OpenInv, Pending
<1>2. TypeOK /\ FateInv /\ OnceInv /\ EntriesInv /\ LinesInv /\ HeldInv /\ OpenInv
        /\ [Next]_vars => OpenInv'
  BY OpenStep
<1>3. (Spec => []LinesInv) /\ (Spec => []HeldInv)
  BY LinesInvariant, HeldInvariant
<1>4. TypeOK /\ PolicyInv /\ FateInv /\ OnceInv /\ EntriesInv /\ LinesInv /\ HeldInv
        /\ OpenInv => LedgerInv
  BY DEF LedgerInv
<1> QED BY <1>1, <1>2, <1>3, <1>4, TypeCorrect, PolicyInvariant, FateInvariant,
           OnceInvariant, EntriesInvariant, PTL DEF Spec

\* The current message's refusal is decided and not yet recorded.
Refusing == inPc \in {"refuse", "auditRefusal"}

\* Being refused, lost as a refusal, or recorded as one: all of it is behind Cur, and
\* none of it was passed.
LEMMA RefusedIsPast ==
  ASSUME LedgerInv
  PROVE  /\ Refused \subseteq 1..Cur /\ Refused \cap forwarded = {}
         /\ inPc \in {"hold", "remember", "forward"} => Cur \notin Refused
         /\ Refused \subseteq Positions
<1>1. Booked \subseteq 1..Cur
  BY DEF LedgerInv, OnceInv
<1>2. \A e \in Entries : e.call \in Booked /\
        (e.decision \notin Cleared => e.call \notin forwarded)
  BY DEF Entries, Booked, LedgerInv, FateInv, BookInv, TrueRefusal
<1>3. inPc \notin {"read", "done"} => Cur \in 1..Cur
  BY CurBounds DEF LedgerInv
<1>4. inPc \in Pending => Cur \notin Booked /\ Cur \notin forwarded
  BY DEF LedgerInv, OpenInv, FateInv, InputInv
<1>5. lost \subseteq Booked
  BY DEF Booked
<1> QED BY <1>1, <1>2, <1>3, <1>4, <1>5 DEF Refused, Pending

\* The ledger's view of what was asked.
LEMMA AskedShape ==
  ASSUME TypeOK
  PROVE  /\ Len([n \in Positions |-> sent[n].tool]) = Len(sent)
         /\ Ledger!Messages = Positions
<1> DEFINE asked == [n \in Positions |-> sent[n].tool]
<1>1. \A n \in Positions : sent[n].tool \in Tools \cup {NoTool}
  <2> SUFFICES ASSUME NEW n \in 1..Len(sent) PROVE sent[n].tool \in Tools \cup {NoTool}
    BY DEF Positions
  <2>1. sent[n] \in SentRecord
    BY DEF TypeOK, ClientTyped
  <2> QED BY <2>1 DEF SentRecord
<1>2. Len(sent) \in Nat /\ asked \in [1..Len(sent) -> Tools \cup {NoTool}]
  BY <1>1, CurBounds DEF Positions
<1>3. asked \in Seq(Tools \cup {NoTool})
  BY <1>2, SeqDef
<1>4. Len(asked) = Len(sent)
  BY <1>2, <1>3
<1> QED BY <1>4 DEF Ledger!Messages, Positions
\* The ledger asks the same policy engine.
LEMMA SamePolicy == \A tool : Ledger!Decide(tool) = Decide(tool)
BY DEF Ledger!Decide, Decide

\* While nobody is newly refused, recorded or passed, the refused stay the same.
LEMMA RefusedFrame ==
  ASSUME LedgerInv, UNCHANGED <<log, lost, forwarded>>, Positions \subseteq Positions',
         IF Refusing THEN Refusing' /\ Cur' = Cur ELSE ~Refusing'
  PROVE  Refused' = Refused
<1>1. Cur = Cur' => Refusing' = Refusing
  BY DEF Refusing
<1>2. Refused = {n \in Positions :
        \/ n = Cur /\ Refusing
        \/ n \in lost \ forwarded
        \/ \E e \in Entries : e.call = n /\ e.decision \notin Cleared}
  BY DEF Refused, Refusing
<1>3. Refused' = {n \in Positions' :
        \/ n = Cur' /\ Refusing'
        \/ n \in lost \ forwarded
        \/ \E e \in Entries : e.call = n /\ e.decision \notin Cleared}
  BY DEF Refused, Refusing, Entries
<1>4. (Refusing => Cur \in Positions) /\ lost \subseteq Positions
  BY CurBounds DEF LedgerInv, Refusing, Positions, OnceInv, Booked
<1>5. \A e \in Entries : e.call \in Positions
  BY CurBounds DEF LedgerInv, OnceInv, Booked, Entries, Positions
<1> QED BY <1>2, <1>3, <1>4, <1>5

\* One more refusal.
LEMMA LedgerRefuses ==
  ASSUME LedgerInv, UNCHANGED <<sent, approved, forwarded, answered, log, lost>>,
         ~Refusing, Refusing', Cur' \in Positions \ (forwarded \cup Refused)
  PROVE  Ledger!Next
<1>1. Refused' = Refused \cup {Cur'}
  BY DEF Refused, Refusing, Entries, Positions
<1>2. Ledger!Refuse(Cur')
  BY <1>1, AskedShape DEF Ledger!Refuse, Ledger!Open, LedgerInv, Positions
<1> QED BY <1>2, AskedShape DEF Ledger!Next, LedgerInv

\* The environment asks and answers.
LEMMA LedgerEnvironment ==
  ASSUME LedgerInv, Environment
  PROVE  Ledger!Next \/ UNCHANGED Ledger!ledgerVars
<1> USE DEF LedgerInv
<1>0. UNCHANGED <<approved, forwarded, log, lost, inPc, next>>
  BY DEF Environment, ClientSends, ClientCloses, ClientStopsReading, ServerAnswers,
     ServerNoise, ServerAsks, ServerExits, inputVars, serverVars, logVars
<1>1. Positions \subseteq Positions' /\ Refused' = Refused
  <2>1. Positions \subseteq Positions'
    BY SentGrows DEF Next
  <2> QED BY <1>0, <2>1, RefusedFrame DEF Refusing, Cur
<1>2. ASSUME NEW m \in ClientMessages, ClientSends(m) PROVE Ledger!Next
  <2> DEFINE asked == [n \in Positions |-> sent[n].tool]
  <2>1. m.tool \in Tools \cup {NoTool}
    BY MessagesAssumption
  <2>2. /\ sent' = Append(sent, m) /\ answered' = answered /\ sent \in Seq(SentRecord)
        /\ Len(sent') = Len(sent) + 1 /\ Len(sent) \in Nat
    BY <1>2 DEF ClientSends, serverVars, TypeOK, ClientTyped
  <2>3. asked' = Append(asked, m.tool)
    <3>1. Len(asked) = Len(sent) /\ DOMAIN asked = 1..Len(sent)
      BY AskedShape DEF Positions
    <3>2. Append(asked, m.tool) = [n \in 1..(Len(sent) + 1) |->
            IF n = Len(sent) + 1 THEN m.tool ELSE asked[n]]
      BY <3>1
    <3>3. asked' = [n \in 1..(Len(sent) + 1) |-> sent'[n].tool]
      BY <2>2 DEF Positions
    <3>4. \A n \in 1..(Len(sent) + 1) :
            sent'[n].tool = IF n = Len(sent) + 1 THEN m.tool ELSE asked[n]
      BY <2>2 DEF Positions
    <3> QED BY <3>2, <3>3, <3>4
  <2>4. Ledger!Ask(m.tool)
    BY <1>0, <1>1, <2>2, <2>3 DEF Ledger!Ask
  <2> QED BY <2>1, <2>4 DEF Ledger!Next
<1>3. ASSUME NEW n \in forwarded, ServerAnswers(n) PROVE Ledger!Next
  <2>1. /\ n \notin answered /\ answered' = answered \cup {n} /\ UNCHANGED sent
        /\ n \in Positions
    BY <1>3 DEF ServerAnswers, clientVars, TypeOK, ServerTyped
  <2>2. Ledger!Answer(n)
    BY <1>0, <1>1, <2>1 DEF Ledger!Answer, Positions
  <2> QED BY <2>1, <2>2, AskedShape DEF Ledger!Next
<1>4. CASE ClientCloses \/ ClientStopsReading \/ ServerNoise \/ ServerExits
  <2>1. UNCHANGED <<sent, answered>>
    BY <1>4 DEF ClientCloses, ClientStopsReading, ServerNoise, ServerAsks, ServerExits,
       clientVars, serverVars
  <2> QED BY <1>0, <1>1, <2>1 DEF Ledger!ledgerVars, Positions
<1> QED BY <1>2, <1>3, <1>4 DEF Environment

\* The input goroutine consents, refuses, passes and records refusals.
LEMMA LedgerInput ==
  ASSUME LedgerInv, Auditing, Input
  PROVE  Ledger!Next \/ UNCHANGED Ledger!ledgerVars
<1> USE DEF LedgerInv
<1>0. UNCHANGED <<sent, answered>> /\ Positions' = Positions
  BY DEF Input, Read, ReadAs, HumanApproves, HumanRejects, HoldTimesOut, HoldRefused,
     Remember, Refuse, AuditRefusal, Forward, InputKills, InputEOF, clientVars,
     serverVars, Positions
<1>1. CASE Read
  <2>1. /\ UNCHANGED <<approved, forwarded, log, lost>> /\ Cur' = Cur + 1
        /\ Cur' \in Positions /\ ~Refusing
    BY <1>1 DEF Read, ReadAs, serverVars, logVars, Cur, Positions, Refusing, TypeOK,
       InputTyped
  <2>2. Cur' \notin forwarded \cup Refused
    BY <2>1, RefusedIsPast, CurBounds DEF FateInv, InputInv
  <2>3. CASE Refusing'
    BY <1>0, <2>1, <2>2, <2>3, LedgerRefuses
  <2>4. CASE ~Refusing'
    BY <1>0, <2>1, <2>4, RefusedFrame DEF Ledger!ledgerVars
  <2> QED BY <2>3, <2>4
<1>2. CASE HumanApproves
  <2>1. /\ UNCHANGED <<forwarded, log, lost>> /\ Cur' = Cur /\ inPc = "hold"
        /\ approved' = approved \cup {Cur} /\ ~Refusing /\ ~Refusing'
    BY <1>2 DEF HumanApproves, serverVars, logVars, Cur, Refusing
  <2>2. Refused' = Refused
    BY <1>0, <2>1, RefusedFrame
  <2>3. Cur \in Positions \ (forwarded \cup Refused)
    BY <2>1, RefusedIsPast, CurBounds DEF FateInv, InputInv, Pending, Positions
  <2>4. Decide(sent[Cur].tool) = "RequireApproval"
    BY <2>1 DEF PolicyInv, NeedsHuman, Msg
  <2>5. Ledger!Consent(Cur)
    <3>1. [n \in Positions |-> sent[n].tool][Cur] = sent[Cur].tool
      BY <2>3
    <3>2. Ledger!Open(Cur)
      BY <2>3, AskedShape DEF Ledger!Open
    <3> QED BY <1>0, <2>1, <2>2, <2>4, <3>1, <3>2, SamePolicy DEF Ledger!Consent
  <2> QED BY <2>3, <2>5, AskedShape DEF Ledger!Next
<1>3. CASE HumanRejects \/ HoldTimesOut
  <2>1. /\ UNCHANGED <<approved, forwarded, log, lost>> /\ Cur' = Cur /\ inPc = "hold"
        /\ ~Refusing /\ Refusing'
    BY <1>3 DEF HumanRejects, HoldTimesOut, HoldRefused, serverVars, logVars, Cur,
       Refusing
  <2>2. Cur \in Positions \ (forwarded \cup Refused)
    BY <2>1, RefusedIsPast, CurBounds DEF FateInv, InputInv, Pending, Positions
  <2> QED BY <1>0, <2>1, <2>2, LedgerRefuses
<1>4. CASE Remember
  <2>1. /\ UNCHANGED <<approved, forwarded, log, lost>> /\ Cur' = Cur
        /\ inPc = "remember" /\ ~Refusing
    BY <1>4 DEF Remember, serverVars, logVars, Cur, Refusing
  <2>2. Cur \in Positions \ (forwarded \cup Refused)
    BY <2>1, RefusedIsPast, CurBounds DEF FateInv, InputInv, Pending, Positions
  <2>3. CASE Refusing'
    BY <1>0, <2>1, <2>2, <2>3, LedgerRefuses
  <2>4. CASE ~Refusing'
    BY <1>0, <2>1, <2>4, RefusedFrame DEF Ledger!ledgerVars
  <2> QED BY <2>3, <2>4
<1>5. CASE InputKills \/ InputEOF
  <2>1. UNCHANGED <<approved, forwarded, log, lost>> /\ ~Refusing /\ ~Refusing'
    BY <1>5 DEF InputKills, InputEOF, serverVars, logVars, Refusing
  <2> QED BY <1>0, <2>1, RefusedFrame DEF Ledger!ledgerVars
<1>6. CASE Refuse
  <2>1. /\ UNCHANGED <<approved, forwarded, log, lost>> /\ Cur' = Cur
        /\ Refusing /\ Refusing'
    BY <1>6 DEF Refuse, serverVars, logVars, Refusing, Cur
  <2> QED BY <1>0, <2>1, RefusedFrame DEF Ledger!ledgerVars
<1>7. CASE Forward
  <2>1. UNCHANGED <<approved, log, lost>> /\ Cur' = Cur /\ inPc = "forward"
        /\ ~Refusing /\ ~Refusing'
    BY <1>7 DEF Forward, logVars, Cur, Refusing
  <2>2. Cur \in Positions \ (forwarded \cup Refused) /\ Cur \notin Booked
    BY <2>1, RefusedIsPast, CurBounds
       DEF FateInv, InputInv, OpenInv, Pending, Positions
  <2>3. CASE forwarded' = forwarded
    BY <1>0, <2>1, <2>3, RefusedFrame DEF Ledger!ledgerVars
  <2>4. CASE forwarded' = forwarded \cup {Cur}
    <3>1. lost \ forwarded' = lost \ forwarded
      BY <2>2, <2>4 DEF Booked
    <3>2. Refused' = Refused
      BY <1>0, <2>1, <3>1 DEF Refused, Refusing, Entries
    <3>3. [n \in Positions |-> sent[n].tool][Cur] = sent[Cur].tool /\ Ledger!Open(Cur)
      BY <2>2, AskedShape DEF Ledger!Open
    <3>4. Clearable(Cur)
      BY <2>1 DEF PolicyInv
    <3>5. /\ Decide(sent[Cur].tool) # "Deny"
          /\ Decide(sent[Cur].tool) = "RequireApproval" => Cur \in approved
      <4>1. CASE sent[Cur].kind = "call"
        BY <3>4, <4>1 DEF Clearable, Denied, NeedsHuman
      <4>2. CASE sent[Cur].kind # "call"
        <5>1. sent[Cur].tool \notin Tools
          BY <2>2, <4>2 DEF TypeOK, ClientTyped
        <5> QED BY <5>1, ListsAssumption DEF Decide
      <4> QED BY <4>1, <4>2
    <3>6. Ledger!Pass(Cur)
      BY <1>0, <2>1, <2>4, <3>2, <3>3, <3>5, SamePolicy DEF Ledger!Pass
    <3> QED BY <2>2, <3>6, AskedShape DEF Ledger!Next
  <2> QED BY <1>7, <2>3, <2>4 DEF Forward
<1>8. CASE AuditRefusal
  <2>1. /\ UNCHANGED <<approved, forwarded>> /\ Cur' = Cur /\ Refusing /\ ~Refusing'
        /\ AppendEntry(Msg.tool, Cur, verdict.decision, None)
    BY <1>8 DEF AuditRefusal, serverVars, Cur, Refusing
  <2>2. /\ verdict.decision \in Refusals
        /\ verdict.decision \in {"rejected", "timeout"} =>
             NeedsHuman(Msg) /\ Cur \notin approved
    BY <2>1 DEF FateInv, InputInv, Refusing
  <2>3. Cur \in Positions /\ Cur \notin Booked /\ Cur \notin forwarded
    BY <2>1, CurBounds
       DEF FateInv, InputInv, OpenInv, Pending, Refusing, Positions
  <2>4. Cur \in Refused
    BY <2>1, <2>3 DEF Refused, Refusing
  <2>5. CASE log' = log /\ lost' = lost \cup {Cur}
    <3>1. Refused' = Refused
      BY <1>0, <2>1, <2>3, <2>5 DEF Refused, Refusing, Entries
    <3> QED BY <1>0, <2>1, <2>5, <3>1 DEF Ledger!ledgerVars
  <2>6. ASSUME NEW e, e = [tool |-> Msg.tool, call |-> Cur,
                           decision |-> verdict.decision, result |-> None],
               log' = Append(log, e), lost' = lost
        PROVE  Ledger!Next
    <3>1. Entries' = Entries \cup {e}
      <4>1. log \in Seq(LogEntry)
        BY DEF TypeOK, LogTyped
      <4> QED BY <2>6, <4>1 DEF Entries
    <3>2. e.call = Cur /\ e.decision \notin Cleared
      BY <2>2, <2>6 DEF Refusals, Cleared
    <3>3. Refused' = Refused
      BY <1>0, <2>1, <2>3, <2>6, <3>1, <3>2 DEF Refused, Refusing
    <3>4. [n \in Positions |-> sent[n].tool][Cur] = Msg.tool /\ Ledger!Fresh(Cur)
      BY <2>3 DEF Ledger!Fresh, Booked, Msg
    <3>5. Ledger!Enter(Cur, verdict.decision, 0)
      BY <1>0, <2>1, <2>6, <3>3, <3>4 DEF Ledger!Enter, None
    <3>6. verdict.decision \in {"rejected", "timeout"} =>
            Decide(Msg.tool) = "RequireApproval" /\ Cur \notin approved
      BY <2>2 DEF NeedsHuman
    <3>7. Ledger!RecordRefusal(Cur, verdict.decision)
      BY <2>4, <3>4, <3>5, <3>6, SamePolicy DEF Ledger!RecordRefusal
    <3> QED BY <2>2, <2>3, <3>7, AskedShape DEF Ledger!Next, Refusals
  <2> QED BY <2>1, <2>5, <2>6 DEF AppendEntry
<1> QED BY <1>1, <1>2, <1>3, <1>4, <1>5, <1>6, <1>7, <1>8 DEF Input

\* The output goroutine records completions.
LEMMA LedgerOutput ==
  ASSUME LedgerInv, Output
  PROVE  Ledger!Next \/ UNCHANGED Ledger!ledgerVars
<1> USE DEF LedgerInv
<1>0. /\ UNCHANGED <<sent, approved, forwarded, answered, inPc, next>>
      /\ Cur' = Cur /\ Positions' = Positions /\ Refusing' = Refusing
  BY DEF Output, OutputReads, Deliver, DeliverLine, TakePending, AppendCompleted,
     OutputKills, OutputEOF, inputVars, clientVars, serverVars, Cur, Positions, Refusing
<1>1. CASE UNCHANGED <<log, lost>>
  BY <1>0, <1>1, RefusedFrame DEF Ledger!ledgerVars
<1>2. CASE AppendCompleted
  <2> DEFINE n == taken.call
  <2>1. outPc = "append" /\ AppendEntry(taken.tool, n, taken.decision, line.call)
    BY <1>2 DEF AppendCompleted
  <2>2. /\ n = line.call /\ n \in answered /\ n \in forwarded /\ n \in Positions
        /\ taken.tool = sent[n].tool
        /\ taken.decision = IF NeedsHuman(sent[n]) THEN "approved" ELSE "allow"
    BY <2>1, CompletionIsTrue
  <2>3. n \notin Booked
    BY <2>1 DEF OnceInv, Taken
  <2>4. NeedsHuman(sent[n]) <=> n \in approved
    BY <2>2 DEF PolicyInv, PolicyEnforced, EntriesInv
  <2> HIDE DEF n
  <2>5. CASE log' = log /\ lost' = lost \cup {n}
    <3>1. lost' \ forwarded = lost \ forwarded
      BY <2>2, <2>5
    <3>2. Refused' = Refused
      BY <1>0, <2>5, <3>1 DEF Refused, Entries
    <3> QED BY <1>0, <2>5, <3>2 DEF Ledger!ledgerVars
  <2>6. ASSUME NEW e, e = [tool |-> taken.tool, call |-> n,
                           decision |-> taken.decision, result |-> line.call],
               log' = Append(log, e), lost' = lost
        PROVE  Ledger!Next
    <3>1. Entries' = Entries \cup {e}
      <4>1. log \in Seq(LogEntry)
        BY DEF TypeOK, LogTyped
      <4> QED BY <2>6, <4>1 DEF Entries
    <3>2. e.decision \in Cleared
      BY <2>2, <2>6 DEF Cleared
    <3>3. Refused' = Refused
      BY <1>0, <2>6, <3>1, <3>2 DEF Refused
    <3>4. [k \in Positions |-> sent[k].tool][n] = taken.tool /\ Ledger!Fresh(n)
      BY <2>2, <2>3 DEF Ledger!Fresh, Booked
    <3>5. taken.decision = IF n \in approved THEN "approved" ELSE "allow"
      BY <2>2, <2>4
    <3>6. Ledger!Enter(n, IF n \in approved THEN "approved" ELSE "allow", n)
      BY <1>0, <2>2, <2>6, <3>3, <3>4, <3>5 DEF Ledger!Enter
    <3>7. Ledger!RecordCompletion(n)
      BY <2>2, <3>6 DEF Ledger!RecordCompletion
    <3> QED BY <2>2, <3>7, AskedShape DEF Ledger!Next
  <2> QED BY <2>1, <2>5, <2>6 DEF AppendEntry, n
<1>3. CASE ~AppendCompleted
  <2>1. UNCHANGED <<log, lost>>
    BY <1>3 DEF Output, OutputReads, Deliver, DeliverLine, TakePending, OutputKills,
       OutputEOF, logVars
  <2> QED BY <1>1, <2>1
<1> QED BY <1>2, <1>3

\* With a log and a server that answers each request once, a session is an instance
\* of the ledger: one fate per message, at most one entry, and a true one, out of
\* two goroutines, one table and ids that are reused (run, remember,
\* recordResponse, blockCall).
THEOREM SessionImplementsLedger ==
  HonestServer /\ Auditing => (Spec => ImplementsLedger)
<1> SUFFICES ASSUME HonestServer, Auditing PROVE Spec => Ledger!Spec
  BY DEF ImplementsLedger
<1>1. Init => Ledger!Init
  <2> SUFFICES ASSUME Init PROVE Ledger!Init
    OBVIOUS
  <2>1. Positions = {} /\ Refused = {}
    BY DEF Init, Positions, Refused
  <2> QED BY <2>1 DEF Init, Ledger!Init
<1>2. LedgerInv /\ [Next]_vars => [Ledger!Next]_(Ledger!ledgerVars)
  <2> SUFFICES ASSUME LedgerInv, [Next]_vars
               PROVE  Ledger!Next \/ UNCHANGED Ledger!ledgerVars
    BY DEF Ledger!ledgerVars
  <2>1. CASE RunReturns \/ LogCloses \/ UNCHANGED vars
    <3>1. UNCHANGED <<sent, approved, forwarded, answered, log, lost, inPc, next>>
      BY <2>1 DEF RunReturns, LogCloses, vars, clientVars, inputVars, serverVars, logVars
    <3> QED BY <3>1, RefusedFrame DEF Ledger!ledgerVars, Positions, Refusing, Cur
  <2> QED BY <2>1, LedgerEnvironment, LedgerInput, LedgerOutput DEF Next
<1>3. Spec => []LedgerInv
  BY LedgerInvariant
<1> QED BY <1>1, <1>2, <1>3, PTL DEF Spec, Ledger!Spec
-----------------------------------------------------------------------------
\* Induction over a set of numbers: it rests on the least number outside it.
LEMMA SetInduction ==
  ASSUME NEW T \in SUBSET Nat, 0 \in T, \A n \in T : n + 1 \in T
  PROVE  T = Nat
<1> DEFINE R == OpToRel(<, Nat)
           Rest == Nat \ T
<1>1. IsWellFoundedOn(R, Nat)
  BY NatLessThanWellFounded
<1>2. SUFFICES ASSUME Rest # {} PROVE FALSE
  OBVIOUS
<1>3. PICK m \in Rest : \A k \in Rest : <<k, m>> \notin R
  <2> HIDE DEF R
  <2> QED BY <1>1, <1>2, WFMin
<1>4. \A k \in Rest : ~(k < m)
  BY <1>3 DEF OpToRel
<1>5. m # 0 /\ m - 1 \in Nat
  OBVIOUS
<1>6. m - 1 \in T
  BY <1>4, <1>5
<1> QED BY <1>5, <1>6

-----------------------------------------------------------------------------
\* The byte sum of a table c over some of its ids, and the recursion behind it.
Weight(c, S) == MapThenSumSet(LAMBDA id : c[id].size, S)
Pick(s) == CHOOSE x \in s : TRUE
Weighed(f, c, s) == IF s = {} THEN 0 ELSE c[Pick(s)].size + f[s \ {Pick(s)}]
Small(S, n) == {s \in SUBSET S : Cardinality(s) <= n}
Upto(f, c, S, n) == f = [s \in Small(S, n) |-> Weighed(f, c, s)]

SizeFacts(S, s) ==
  /\ IsFiniteSet(s) /\ Cardinality(s) \in Nat /\ Cardinality(s) <= Cardinality(S)
  /\ Cardinality(s) = 0 <=> s = {}
  /\ s # {} => /\ Pick(s) \in s /\ s \ {Pick(s)} \in SUBSET S
               /\ Cardinality(s \ {Pick(s)}) = Cardinality(s) - 1

LEMMA SubsetFacts ==
  ASSUME NEW S, IsFiniteSet(S), NEW s \in SUBSET S
  PROVE  SizeFacts(S, s)
<1>1. s # {} => Pick(s) \in s
  BY DEF Pick
<1>2. IsFiniteSet(s) /\ Cardinality(s) \in Nat /\ Cardinality(s) <= Cardinality(S)
  BY FS_Subset, FS_CardinalityType
<1>3. Cardinality(s) = 0 <=> s = {}
  BY <1>2, FS_EmptySet
<1> QED BY <1>1, <1>2, <1>3, FS_RemoveElement DEF SizeFacts

LEMMA WeightExists ==
  ASSUME NEW c, NEW S, IsFiniteSet(S), NEW n \in Nat
  PROVE  \E f : Upto(f, c, S, n)
<1> DEFINE Good == {m \in Nat : \E f : Upto(f, c, S, m)}
<1>0. \A s \in SUBSET S : SizeFacts(S, s)
  BY SubsetFacts
<1>1. 0 \in Good
  <2>1. ASSUME NEW s \in Small(S, 0) PROVE s = {}
    <3>1. s \in SUBSET S /\ Cardinality(s) <= 0
      BY DEF Small
    <3>2. SizeFacts(S, s)
      BY <1>0, <3>1
    <3> QED BY <3>1, <3>2 DEF SizeFacts
  <2>2. Upto([s \in Small(S, 0) |-> 0], c, S, 0)
    BY <2>1 DEF Upto, Weighed
  <2> QED BY <2>2
<1>2. ASSUME NEW m \in Good PROVE m + 1 \in Good
  <2>1. PICK g : Upto(g, c, S, m)
    OBVIOUS
  <2> DEFINE f == [s \in Small(S, m + 1) |-> Weighed(g, c, s)]
  <2>2. \A s \in Small(S, m + 1) : s # {} => s \ {Pick(s)} \in Small(S, m)
    BY <1>0 DEF Small, SizeFacts
  <2>3. \A s \in Small(S, m) : s \in Small(S, m + 1) /\ f[s] = g[s]
    <3>1. ASSUME NEW s \in Small(S, m) PROVE s \in Small(S, m + 1)
      <4>1. s \in SUBSET S /\ Cardinality(s) <= m
        BY DEF Small
      <4>2. SizeFacts(S, s)
        BY <1>0, <4>1
      <4> QED BY <4>1, <4>2 DEF SizeFacts, Small
    <3> QED BY <2>1, <3>1 DEF Upto
  <2>4. \A s \in Small(S, m + 1) : Weighed(f, c, s) = Weighed(g, c, s)
    <3> HIDE DEF f
    <3> QED BY <2>2, <2>3 DEF Weighed
  <2>5. Upto(f, c, S, m + 1)
    BY <2>4 DEF Upto
  <2> HIDE DEF f
  <2> QED BY <2>5
<1>3. Good = Nat
  <2> HIDE DEF Good
  <2>1. Good \in SUBSET Nat
    BY DEF Good
  <2> QED BY <1>1, <1>2, <2>1, SetInduction
<1> QED BY <1>3

\* Two such recursions agree where both are defined.
LEMMA WeightUnique ==
  ASSUME NEW c, NEW S, IsFiniteSet(S), NEW T \in SUBSET S, NEW m \in Nat, NEW n \in Nat,
         NEW f, NEW g, Upto(f, c, S, m), Upto(g, c, T, n)
  PROVE  \A s \in SUBSET T : Cardinality(s) <= m /\ Cardinality(s) <= n => f[s] = g[s]
<1> DEFINE Good == {k \in Nat : \A s \in SUBSET T :
                       Cardinality(s) = k /\ k <= m /\ k <= n => f[s] = g[s]}
<1>0. IsFiniteSet(T) /\ \A s \in SUBSET T : SizeFacts(T, s)
  BY FS_Subset, SubsetFacts
<1>1. ASSUME NEW s \in SUBSET T, Cardinality(s) <= m /\ Cardinality(s) <= n
      PROVE  f[s] = Weighed(f, c, s) /\ g[s] = Weighed(g, c, s)
  BY <1>1 DEF Upto, Small
<1>2. 0 \in Good
  BY <1>0, <1>1 DEF Weighed, SizeFacts
<1>3. ASSUME NEW k \in Good PROVE k + 1 \in Good
  <2> SUFFICES ASSUME NEW s \in SUBSET T, Cardinality(s) = k + 1, k + 1 <= m, k + 1 <= n
               PROVE  f[s] = g[s]
    OBVIOUS
  <2>1. /\ s # {} /\ s \ {Pick(s)} \in SUBSET T /\ Cardinality(s \ {Pick(s)}) = k
    <3>1. SizeFacts(T, s)
      BY <1>0
    <3> QED BY <3>1 DEF SizeFacts
  <2>2. f[s \ {Pick(s)}] = g[s \ {Pick(s)}]
    BY <2>1
  <2> QED BY <1>1, <2>1, <2>2 DEF Weighed
<1>4. Good = Nat
  <2> HIDE DEF Good
  <2>1. Good \in SUBSET Nat
    BY DEF Good
  <2> QED BY <1>2, <1>3, <2>1, SetInduction
<1> QED BY <1>0, <1>4 DEF SizeFacts

LEMMA WeightIsRecursion ==
  ASSUME NEW c, NEW S, IsFiniteSet(S)
  PROVE  \E f : Upto(f, c, S, Cardinality(S)) /\ Weight(c, S) = f[S]
<1>0. Cardinality(S) \in Nat /\ \A s \in SUBSET S : SizeFacts(S, s)
  BY SubsetFacts, FS_CardinalityType
<1>1. Small(S, Cardinality(S)) = SUBSET S
  BY <1>0 DEF Small, SizeFacts
<1> DEFINE f == CHOOSE g : g = [s \in SUBSET S |-> Weighed(g, c, s)]
<1>2. f = [s \in SUBSET S |-> Weighed(f, c, s)]
  <2>1. \E g : g = [s \in SUBSET S |-> Weighed(g, c, s)]
    <3>1. PICK g : Upto(g, c, S, Cardinality(S))
      BY <1>0, WeightExists
    <3> QED BY <1>1, <3>1 DEF Upto
  <2> QED BY <2>1
<1>3. Weight(c, S) = f[S]
  BY DEF Weight, MapThenSumSet, MapThenFoldSet, Weighed, Pick
<1> HIDE DEF f
<1> QED BY <1>1, <1>2, <1>3 DEF Upto

LEMMA WeightStep ==
  ASSUME NEW c, NEW S, IsFiniteSet(S)
  PROVE  Weight(c, S) = IF S = {} THEN 0 ELSE c[Pick(S)].size + Weight(c, S \ {Pick(S)})
<1>0. \A s \in SUBSET S : SizeFacts(S, s)
  BY SubsetFacts
<1>1. PICK f : Upto(f, c, S, Cardinality(S)) /\ Weight(c, S) = f[S]
  BY WeightIsRecursion
<1>2. f[S] = Weighed(f, c, S)
  BY <1>0, <1>1 DEF Upto, Small, SizeFacts
<1>3. CASE S = {}
  BY <1>1, <1>2, <1>3 DEF Weighed
<1>4. CASE S # {}
  <2> DEFINE T == S \ {Pick(S)}
  <2>1. T \in SUBSET S /\ IsFiniteSet(T) /\ Cardinality(T) \in Nat
        /\ Cardinality(S) \in Nat /\ Cardinality(T) <= Cardinality(S)
    BY <1>0, FS_CardinalityType DEF SizeFacts
  <2>2. PICK g : Upto(g, c, T, Cardinality(T)) /\ Weight(c, T) = g[T]
    BY <2>1, WeightIsRecursion
  <2>3. f[T] = g[T]
    <3> HIDE DEF T
    <3> QED BY <1>1, <2>1, <2>2, WeightUnique
  <2> QED BY <1>1, <1>2, <1>4, <2>2, <2>3 DEF Weighed
<1> QED BY <1>3, <1>4

\* The sum can be taken apart at any id, and depends only on the sizes.
LEMMA WeightSplits ==
  ASSUME NEW c, NEW S, IsFiniteSet(S), \A id \in S : c[id].size \in Int
  PROVE  /\ Weight(c, S) \in Int
         /\ \A x \in S : Weight(c, S) = c[x].size + Weight(c, S \ {x})
<1> DEFINE Splits(s) == /\ Weight(c, s) \in Int
                        /\ \A x \in s : /\ Weight(c, s \ {x}) \in Int
                                        /\ Weight(c, s) = c[x].size + Weight(c, s \ {x})
           Good == {n \in Nat : \A s \in SUBSET S : Cardinality(s) = n => Splits(s)}
<1>0. \A s \in SUBSET S : SizeFacts(S, s)
  BY SubsetFacts
<1>1. 0 \in Good
  <2> SUFFICES ASSUME NEW s \in SUBSET S, Cardinality(s) = 0 PROVE Splits(s)
    OBVIOUS
  <2>1. SizeFacts(S, s)
    BY <1>0
  <2>2. IsFiniteSet(s) /\ s = {}
    BY <2>1 DEF SizeFacts
  <2>3. Weight(c, s) = 0
    BY <2>2, WeightStep
  <2> QED BY <2>2, <2>3
<1>2. ASSUME NEW n \in Good PROVE n + 1 \in Good
  <2> SUFFICES ASSUME NEW s \in SUBSET S, Cardinality(s) = n + 1
               PROVE  Splits(s)
    OBVIOUS
  <2> DEFINE p == Pick(s)
  <2>1. /\ IsFiniteSet(s) /\ p \in s /\ s # {} /\ s \ {p} \in SUBSET S
        /\ Cardinality(s \ {p}) = n
    <3>1. SizeFacts(S, s)
      BY <1>0
    <3> QED BY <3>1 DEF SizeFacts
  <2>2. Weight(c, s) = c[p].size + Weight(c, s \ {p})
    BY <2>1, WeightStep
  <2>3. Splits(s \ {p})
    BY <2>1
  <2>4. Weight(c, s) \in Int
    BY <2>1, <2>2, <2>3
  <2>5. ASSUME NEW x \in s PROVE Weight(c, s) = c[x].size + Weight(c, s \ {x})
    <3>1. CASE x = p
      BY <2>2, <3>1
    <3>2. CASE x # p
      <4>1. Weight(c, s \ {p}) = c[x].size + Weight(c, (s \ {p}) \ {x})
        BY <2>3, <3>2
      <4>2. /\ s \ {x} \in SUBSET S /\ Cardinality(s \ {x}) = n
        BY <2>1, FS_RemoveElement
      <4>3. Weight(c, s \ {x}) = c[p].size + Weight(c, (s \ {x}) \ {p})
        BY <2>1, <3>2, <4>2
      <4>4. Weight(c, (s \ {p}) \ {x}) = Weight(c, (s \ {x}) \ {p})
        <5>1. (s \ {x}) \ {p} = (s \ {p}) \ {x}
          OBVIOUS
        <5> QED BY <5>1
      <4>5. p \in s \ {x} /\ Weight(c, (s \ {x}) \ {p}) \in Int
        BY <2>1, <3>2, <4>2
      <4>6. c[p].size \in Int /\ c[x].size \in Int
        BY <2>1
      <4>7. \A a, b, t \in Int : a + (b + t) = b + (a + t)
        OBVIOUS
      <4> HIDE DEF p, Splits, Good
      <4> QED BY <2>2, <4>1, <4>3, <4>4, <4>5, <4>6, <4>7
    <3> QED BY <3>1, <3>2
  <2>6. \A x \in s : Weight(c, s \ {x}) \in Int
    <3> SUFFICES ASSUME NEW x \in s PROVE Weight(c, s \ {x}) \in Int
      OBVIOUS
    <3>1. s \ {x} \in SUBSET S /\ Cardinality(s \ {x}) = n
      BY <2>1, FS_RemoveElement
    <3> QED BY <3>1
  <2> QED BY <2>4, <2>5, <2>6
<1>3. Good = Nat
  <2> HIDE DEF Good
  <2>1. Good \in SUBSET Nat
    BY DEF Good
  <2> QED BY <1>1, <1>2, <2>1, SetInduction
<1>4. S \in SUBSET S /\ Cardinality(S) \in Nat
  BY FS_CardinalityType
<1> HIDE DEF Splits
<1>5. Splits(S)
  BY <1>3, <1>4
<1> QED BY <1>5 DEF Splits

LEMMA WeightSame ==
  ASSUME NEW c, NEW d, NEW S, IsFiniteSet(S), \A id \in S : c[id].size = d[id].size
  PROVE  Weight(c, S) = Weight(d, S)
<1> DEFINE Good == {n \in Nat : \A s \in SUBSET S :
                       Cardinality(s) = n => Weight(c, s) = Weight(d, s)}
<1>0. \A s \in SUBSET S : SizeFacts(S, s)
  BY SubsetFacts
<1>1. 0 \in Good
  <2> SUFFICES ASSUME NEW s \in SUBSET S, Cardinality(s) = 0
               PROVE  Weight(c, s) = Weight(d, s)
    OBVIOUS
  <2>1. SizeFacts(S, s)
    BY <1>0
  <2>2. IsFiniteSet(s) /\ s = {}
    BY <2>1 DEF SizeFacts
  <2> QED BY <2>2, WeightStep
<1>2. ASSUME NEW n \in Good PROVE n + 1 \in Good
  <2> SUFFICES ASSUME NEW s \in SUBSET S, Cardinality(s) = n + 1
               PROVE  Weight(c, s) = Weight(d, s)
    OBVIOUS
  <2>1. SizeFacts(S, s)
    BY <1>0
  <2>2. /\ IsFiniteSet(s) /\ Pick(s) \in s /\ s # {}
        /\ s \ {Pick(s)} \in SUBSET S /\ Cardinality(s \ {Pick(s)}) = n
    BY <2>1 DEF SizeFacts
  <2>3. Weight(c, s \ {Pick(s)}) = Weight(d, s \ {Pick(s)})
    BY <2>2
  <2>4. c[Pick(s)].size = d[Pick(s)].size
    BY <2>2
  <2>5. /\ Weight(c, s) = c[Pick(s)].size + Weight(c, s \ {Pick(s)})
        /\ Weight(d, s) = d[Pick(s)].size + Weight(d, s \ {Pick(s)})
    BY <2>2, WeightStep
  <2> QED BY <2>3, <2>4, <2>5
<1>3. Good = Nat
  <2> HIDE DEF Good
  <2>1. Good \in SUBSET Nat
    BY DEF Good
  <2> QED BY <1>1, <1>2, <2>1, SetInduction
<1>4. S \in SUBSET S /\ Cardinality(S) \in Nat
  BY FS_CardinalityType
<1> QED BY <1>3, <1>4


\* A reservation adds its size and its release takes it away again.
LEMMA WeightInserts ==
  ASSUME NEW id, NEW e, IsFiniteSet(DOMAIN calls), id \notin DOMAIN calls,
         \A i \in DOMAIN calls : calls[i].size \in Int, e.size \in Int, Insert(id, e)
  PROVE  Weight(calls', DOMAIN calls') = Weight(calls, DOMAIN calls) + e.size
<1>1. /\ DOMAIN calls' = DOMAIN calls \cup {id} /\ calls'[id] = e
      /\ \A i \in DOMAIN calls : calls'[i] = calls[i]
  BY DEF Insert
<1>2. IsFiniteSet(DOMAIN calls') /\ \A i \in DOMAIN calls' : calls'[i].size \in Int
  BY <1>1, FS_AddElement
<1>3. Weight(calls', DOMAIN calls') = e.size + Weight(calls', DOMAIN calls' \ {id})
  BY <1>1, <1>2, WeightSplits
<1>4. DOMAIN calls' \ {id} = DOMAIN calls
  BY <1>1
<1>5. Weight(calls', DOMAIN calls) = Weight(calls, DOMAIN calls)
  BY <1>1, WeightSame
<1>6. Weight(calls, DOMAIN calls) \in Int
  BY WeightSplits
<1> QED BY <1>3, <1>4, <1>5, <1>6

LEMMA WeightDeletes ==
  ASSUME NEW id \in DOMAIN calls, IsFiniteSet(DOMAIN calls),
         \A i \in DOMAIN calls : calls[i].size \in Int, Delete(id)
  PROVE  Weight(calls', DOMAIN calls') = Weight(calls, DOMAIN calls) - calls[id].size
<1>1. /\ DOMAIN calls' = DOMAIN calls \ {id}
      /\ \A i \in DOMAIN calls' : calls'[i] = calls[i]
  BY DEF Delete
<1>2. Weight(calls, DOMAIN calls) = calls[id].size + Weight(calls, DOMAIN calls \ {id})
  BY WeightSplits
<1>3. IsFiniteSet(DOMAIN calls')
  BY <1>1, FS_RemoveElement
<1>4. Weight(calls', DOMAIN calls') = Weight(calls, DOMAIN calls')
  BY <1>1, <1>3, WeightSame
<1>5. Weight(calls, DOMAIN calls') \in Int
  BY <1>1, <1>3, WeightSplits
<1> QED BY <1>1, <1>2, <1>4, <1>5

\* The two limits of the table of pending calls.
TableBounded ==
  /\ bytes <= MaxPendingBytes
  /\ IsFiniteSet(DOMAIN calls) /\ Cardinality(DOMAIN calls) <= MaxPendingCalls

LEMMA TheTableIsBounded == Spec => []TableBounded
<1>1. Init => TableBounded
  BY FS_EmptySet, LimitsAssumption DEF Init, TableBounded
<1>2. TypeOK /\ TableBounded /\ [Next]_vars => TableBounded'
  <2> SUFFICES ASSUME TypeOK, TableBounded, [Next]_vars PROVE TableBounded'
    OBVIOUS
  <2>1. CASE Remember
    <3>1. CASE UNCHANGED <<calls, bytes>>
      BY <3>1 DEF TableBounded
    <3>2. ASSUME ~Reused(Msg.id), ~Full(Msg.size), NEW e, Insert(Msg.id, e),
                 bytes' = bytes + Msg.size
          PROVE  TableBounded'
      <4>1. DOMAIN calls' = DOMAIN calls \cup {Msg.id} /\ Msg.id \notin DOMAIN calls
        BY <3>2 DEF Insert, Reused
      <4>2. Cardinality(DOMAIN calls) \in Nat /\ Cardinality(DOMAIN calls) < MaxPendingCalls
        BY <3>2, FS_CardinalityType, LimitsAssumption DEF TableBounded, Full
      <4>3. IsFiniteSet(DOMAIN calls') /\ Cardinality(DOMAIN calls') <= MaxPendingCalls
        <5>1. /\ IsFiniteSet(DOMAIN calls \cup {Msg.id})
              /\ Cardinality(DOMAIN calls \cup {Msg.id}) = Cardinality(DOMAIN calls) + 1
          BY <4>1, FS_AddElement DEF TableBounded
        <5>2. /\ IsFiniteSet(DOMAIN calls')
              /\ Cardinality(DOMAIN calls') = Cardinality(DOMAIN calls) + 1
          BY <4>1, <5>1
        <5> QED BY <4>2, <5>2, LimitsAssumption
      <4>4. Msg.size \in Nat
        <5>1. Cur \in 1..Len(sent)
          BY <2>1, CurBounds DEF Remember
        <5>2. sent[Cur] \in SentRecord
          BY <5>1 DEF TypeOK, ClientTyped
        <5> QED BY <5>2 DEF SentRecord, Msg
      <4>5. bytes' <= MaxPendingBytes
        BY <3>2, <4>4, LimitsAssumption DEF Full, TypeOK, TableTyped
      <4> QED BY <4>3, <4>5 DEF TableBounded
    <3> QED BY <2>1, <3>1, <3>2 DEF Remember, tableVars
  <2>2. CASE TakePending
    <3>1. CASE UNCHANGED <<calls, bytes>>
      BY <3>1 DEF TableBounded
    <3>2. ASSUME line.id \in DOMAIN calls, Delete(line.id),
                 bytes' = bytes - calls[line.id].size
          PROVE  TableBounded'
      <4>1. DOMAIN calls' = DOMAIN calls \ {line.id}
        BY <3>2 DEF Delete
      <4>2. /\ IsFiniteSet(DOMAIN calls')
            /\ Cardinality(DOMAIN calls') = Cardinality(DOMAIN calls) - 1
        BY <3>2, <4>1, FS_RemoveElement DEF TableBounded
      <4>3. Cardinality(DOMAIN calls) \in Nat
        BY FS_CardinalityType DEF TableBounded
      <4>4. calls[line.id].size \in Nat /\ bytes \in Int
        BY <3>2 DEF TypeOK, TableTyped, Entry
      <4> QED BY <3>2, <4>2, <4>3, <4>4, LimitsAssumption DEF TableBounded
    <3> QED BY <2>2, <3>1, <3>2 DEF TakePending, Releases, tableVars
  <2>3. CASE ~Remember /\ ~TakePending
    <3>1. UNCHANGED <<calls, bytes>>
      BY <2>3 DEF Next, Environment, ClientSends, ClientCloses, ClientStopsReading,
         ServerAnswers, ServerNoise, ServerAsks, ServerExits, Input, Read, ReadAs,
         HumanApproves, HumanRejects, HoldTimesOut, HoldRefused, Refuse, AuditRefusal,
         Forward, InputKills, InputEOF, Output, OutputReads, Deliver, DeliverLine,
         AppendCompleted, OutputKills, OutputEOF, RunReturns, LogCloses, vars,
         tableVars
    <3> QED BY <3>1 DEF TableBounded
  <2> QED BY <2>1, <2>2, <2>3
<1> QED BY <1>1, <1>2, TypeCorrect, PTL DEF Spec

\* The table's byte count is the sum of its entries' sizes, neither it nor the
\* number of entries exceeds its limit, whatever is refused, answered twice or never
\* answered: no sequence of calls leaks capacity or frees more than was reserved
\* (remember, recordResponse).
THEOREM TheTableAccounts == Spec => []TableAccounts
<1> DEFINE Sums == bytes = Weight(calls, DOMAIN calls)
<1>1. Init => Sums
  <2> SUFFICES ASSUME Init PROVE Sums
    OBVIOUS
  <2>1. DOMAIN calls = {} /\ bytes = 0
    BY DEF Init
  <2>2. Weight(calls, {}) = 0
    BY FS_EmptySet, WeightStep
  <2> QED BY <2>1, <2>2
<1>2. TypeOK /\ TableBounded /\ Sums /\ [Next]_vars => Sums'
  <2> SUFFICES ASSUME TypeOK, TableBounded, Sums, [Next]_vars PROVE Sums'
    OBVIOUS
  <2>0. IsFiniteSet(DOMAIN calls) /\ \A i \in DOMAIN calls : calls[i].size \in Int
    BY DEF TableBounded, TypeOK, TableTyped, Entry
  <2>1. CASE UNCHANGED <<calls, bytes>>
    BY <2>1
  <2>2. CASE Remember /\ ~UNCHANGED <<calls, bytes>>
    <3> DEFINE e == [tool |-> Msg.tool, call |-> Cur,
                     decision |-> verdict.decision, size |-> Msg.size]
    <3>1. /\ Msg.id \notin DOMAIN calls /\ Insert(Msg.id, e)
          /\ bytes' = bytes + Msg.size
      BY <2>2 DEF Remember, Reused, tableVars
    <3>2. e.size = Msg.size /\ Msg.size \in Int
      <4>1. sent[Cur] \in SentRecord
        BY <2>2, CurBounds DEF Remember, TypeOK, ClientTyped
      <4> QED BY <4>1 DEF SentRecord, Msg
    <3> HIDE DEF e
    <3>3. Weight(calls', DOMAIN calls') = Weight(calls, DOMAIN calls) + e.size
      BY <2>0, <3>1, <3>2, WeightInserts
    <3> QED BY <3>1, <3>2, <3>3
  <2>3. CASE TakePending /\ ~UNCHANGED <<calls, bytes>>
    <3>1. /\ line.id \in DOMAIN calls /\ Delete(line.id)
          /\ bytes' = bytes - calls[line.id].size
      BY <2>3 DEF TakePending, Releases, tableVars
    <3>2. Weight(calls', DOMAIN calls') = Weight(calls, DOMAIN calls) - calls[line.id].size
      BY <2>0, <3>1, WeightDeletes
    <3> QED BY <3>1, <3>2
  <2>4. CASE ~Remember /\ ~TakePending
    <3>1. UNCHANGED <<calls, bytes>>
      BY <2>4 DEF Next, Environment, ClientSends, ClientCloses, ClientStopsReading,
         ServerAnswers, ServerNoise, ServerAsks, ServerExits, Input, Read, ReadAs,
         HumanApproves, HumanRejects, HoldTimesOut, HoldRefused, Refuse, AuditRefusal,
         Forward, InputKills, InputEOF, Output, OutputReads, Deliver, DeliverLine,
         AppendCompleted, OutputKills, OutputEOF, RunReturns, LogCloses, vars,
         tableVars
    <3> QED BY <3>1
  <2> QED BY <2>1, <2>2, <2>3, <2>4
<1>3. TableBounded /\ Sums => TableAccounts
  BY DEF TableBounded, TableAccounts, Weight
<1> HIDE DEF Sums
<1> QED BY <1>1, <1>2, <1>3, TypeCorrect, TheTableIsBounded, PTL DEF Spec
=============================================================================
