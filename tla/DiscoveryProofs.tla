-------------------------- MODULE DiscoveryProofs --------------------------
(***************************************************************************)
(* Theorems about Discovery, for every catalogue, server, limit and moment *)
(* of the deadline.  The invariant follows a page from the request that    *)
(* asks for it, through the server's answer, into the list of tools; and a *)
(* failure from what broke the exchange to the error scan reports.         *)
(***************************************************************************)
EXTENDS Discovery, TLAPS

Elems(s) == {s[i] : i \in 1..Len(s)}
N == Len(tools)

Opening == {"start", "initialize", "awaitInit", "notify"}
Closing == {"check", "cancel", "wait", "returned"}

\* A request is the handshake's, or it asks for the page its id counts to; the
\* page scan is about to ask for has not been asked for yet.
Asked(r) ==
  \/ r.id = InitializeId
  \/ r.id = NoId
  \/ /\ r.id - 2 \in 0..N /\ r.what \in Pages
     /\ r.id - 2 < N => r.what = tools[r.id - 1]
     /\ r.id - 2 = N => r.what = cursor /\ pc \in {"awaitPage"} \cup Closing
RequestsAreTrue == \A r \in Elems(inbox) \cup known : Asked(r)

\* A result answers a request the server has read; nothing else looks like one
\* unless the server misanswered.
AnswersAreTrue ==
  \A l \in Elems(stdout) :
    /\ l.kind = "result" => \E r \in known : l = TrueAnswer(r)
    /\ l.kind \in {"error", "noPage", "ambiguous"} => faulty
    /\ l.kind = "huge" => noise > 0

\* The pages read follow one another from the start to the cursor.
PagesFollow ==
  /\ pc \in Opening => N = 0
  /\ N = 0 => cursor = Start
  /\ N > 0 => tools[1] = Start
  /\ \A i \in 1..(N - 1) : catalogue[tools[i]] = tools[i + 1]
  /\ pc \in {"ask", "awaitPage"} /\ N > 0 => catalogue[tools[N]] = cursor

\* Without a failure the last page read is the catalogue's last.
EndIsTrue ==
  /\ pc \notin Closing => failure = "none"
  /\ pc \in Closing /\ failure = "none" => N > 0 /\ catalogue[tools[N]] = End

\* What breaks the exchange before scan has looked at the deadline is either the
\* deadline's doing or the server's.
BlameIsTrue ==
  /\ expired => ctx = "expired"
  /\ pc \notin {"cancel", "wait", "returned"} => ctx # "canceled"
  /\ pc \in {"initialize", "awaitInit", "notify", "ask", "awaitPage"} =>
       /\ ctx = "live" => inOpen /\ outOpen
       /\ ctx = "live" /\ ~quit => alive /\ "child" \in writers
  /\ failure = "closed" => ctx = "expired"
  /\ failure = "broken" => quit \/ ctx = "expired"
  /\ failure = "ended" => quit \/ lines >= MaxScanLines \/ ctx = "expired"
  /\ pc \in {"cancel", "wait", "returned"} /\ ctx = "expired" /\ ~expired =>
       /\ failure # "closed" /\ (failure = "broken" => quit)
       /\ failure = "ended" => quit \/ lines >= MaxScanLines
  /\ failure = "answer" => faulty
  /\ failure = "huge" => noise > 0
  /\ failure = "pages" => N >= MaxScanPages /\ N > 0 /\ catalogue[tools[N]] # End
  /\ failure = "cursor" => N > 0 /\ catalogue[tools[N]] \in Elems(tools)

DiscoveryInv ==
  /\ TypeOK /\ RequestsAreTrue /\ AnswersAreTrue /\ PagesFollow /\ EndIsTrue
  /\ BlameIsTrue

-----------------------------------------------------------------------------
LEMMA ElemsAppend ==
  ASSUME NEW S, NEW s \in Seq(S), NEW e
  PROVE  Elems(Append(s, e)) = Elems(s) \cup {e}
BY DEF Elems

LEMMA ElemsTail ==
  ASSUME NEW S, NEW s \in Seq(S), s # <<>>
  PROVE  Elems(Tail(s)) \subseteq Elems(s) /\ Head(s) \in Elems(s)
BY DEF Elems

LEMMA ElemsType ==
  ASSUME NEW S, NEW s \in Seq(S)
  PROVE  Elems(s) \subseteq S
BY DEF Elems

LEMMA FlagsOKStep ==
  ASSUME FlagsOK, [Next]_vars
  PROVE  FlagsOK'
<1> USE DEF FlagsOK, Next, vars, serverVars, foundVars, Server, ServerReads,
    ServerAnswers, ServerNoise,
        ServerMisanswers, ServerExits, ClosesStdout, Expire, KillChild, AfterExpiry,
        ClosesEnds, Scan, StartServer, Initialize, Notify, AskPage, Writes, ReadLine,
        TakesPage, AfterLimit, ReadFails, CheckDeadline, Expired, Cancel, Wait, Goes,
        Fails
<1>1. expired' \in BOOLEAN  OBVIOUS
<1>2. alive' \in BOOLEAN  OBVIOUS
<1>3. quit' \in BOOLEAN  OBVIOUS
<1>4. faulty' \in BOOLEAN  OBVIOUS
<1>5. inOpen' \in BOOLEAN  OBVIOUS
<1>6. outOpen' \in BOOLEAN  OBVIOUS
<1> QED BY <1>1, <1>2, <1>3, <1>4, <1>5, <1>6

LEMMA TypeOKStep ==
  ASSUME TypeOK, [Next]_vars
  PROVE  TypeOK'
<1> USE DiscoveryAssumption DEF TypeOK
<1>1. FlagsOK'
  BY FlagsOKStep
<1>2. /\ catalogue' \in Catalogues /\ ctx' \in {"live", "expired", "canceled"}
      /\ writers' \subseteq {"child", "descendant"} /\ noise' \in Nat /\ lines' \in Nat
  <2> USE DEF Next, vars, serverVars, foundVars, Server, ServerReads, ServerAnswers,
      ServerNoise,
          ServerMisanswers, ServerExits, ClosesStdout, Expire, KillChild, AfterExpiry,
          ClosesEnds, Scan, StartServer, Initialize, Notify, AskPage, Writes, ReadLine,
          TakesPage, AfterLimit, ReadFails, CheckDeadline, Expired, Cancel, Wait, Goes,
          Fails
  <2>1. catalogue' \in Catalogues  OBVIOUS
  <2>2. ctx' \in {"live", "expired", "canceled"}  OBVIOUS
  <2>3. writers' \subseteq {"child", "descendant"}  OBVIOUS
  <2>4. noise' \in Nat /\ lines' \in Nat  OBVIOUS
  <2> QED BY <2>1, <2>2, <2>3, <2>4
<1>3. /\ pc' \in Steps
      /\ failure' \in Failures
  <2> USE DEF Steps, Failures, Next, vars, serverVars, foundVars, Server, ServerReads,
      ServerAnswers, ServerNoise,
          ServerMisanswers, ServerExits, ClosesStdout, Expire, KillChild, AfterExpiry,
          ClosesEnds, Scan, StartServer, Initialize, Notify, AskPage, Writes, ReadLine,
          TakesPage, AfterLimit, ReadFails, CheckDeadline, Expired, Cancel, Wait, Goes,
          Fails
  <2>1. pc' \in Steps  OBVIOUS
  <2>2. failure' \in Failures
    OBVIOUS
  <2> QED BY <2>1, <2>2
<1>4. inbox' \in Seq(Messages) /\ known' \subseteq Messages /\ answered' \subseteq known'
  <2>1. \A p \in Nat : PageId(p) \in Nat
    BY DEF PageId
  <2>2. Page \in Nat /\ cursor \in Pages
    BY DEF Page
  <2>3. /\ Request(InitializeId, "initialize") \in Messages
        /\ Request(NoId, "initialized") \in Messages
        /\ Request(PageId(Page), cursor) \in Messages
    BY <2>1, <2>2 DEF Request, Messages, InitializeId, NoId
  <2>4. inbox # <<>> => Head(inbox) \in Messages /\ Tail(inbox) \in Seq(Messages)
    OBVIOUS
  <2>5. \A m \in Messages : Append(inbox, m) \in Seq(Messages)
    OBVIOUS
  <2> USE DEF Next, vars, serverVars, foundVars, Server, ServerReads, ServerAnswers,
      ServerNoise,
          ServerMisanswers, ServerExits, ClosesStdout, Expire, KillChild, AfterExpiry,
          ClosesEnds, Scan, StartServer, Initialize, Notify, AskPage, Writes, ReadLine,
          TakesPage, AfterLimit, ReadFails, CheckDeadline, Expired, Cancel, Wait, Goes,
          Fails
  <2>6. inbox' \in Seq(Messages)
    BY <2>3, <2>4, <2>5
  <2>7. known' \subseteq Messages /\ answered' \subseteq known'
    BY <2>4
  <2> QED BY <2>6, <2>7
<1>5. stdout' \in Seq(Lines)
  <2>1. \A r \in Messages : TrueAnswer(r) \in Lines
    <3>1. catalogue \in [Pages -> Cursors \cup {End}]
      OBVIOUS
    <3>2. \A r \in Messages : r.what \in Pages => catalogue[r.what] \in Cursors \cup {End}
      BY <3>1
    <3> QED BY <3>2 DEF TrueAnswer, Messages, Lines
  <2>2. \A id \in Nat :
        \A kind \in {"text", "huge", "error", "noPage", "ambiguous"} :
          Blank(id, kind) \in Lines
    BY DEF Blank, Lines, Pages
  <2>3. \A l \in Lines : Append(stdout, l) \in Seq(Lines)
    OBVIOUS
  <2>4. stdout # <<>> => Tail(stdout) \in Seq(Lines)
    OBVIOUS
  <2>5. /\ NoId \in Nat /\ InitializeId \in Nat
        /\ \A p \in 0..(MaxScanPages - 1) : PageId(p) \in Nat
    BY DEF NoId, InitializeId, PageId
  <2> USE DEF Emits, Next, vars, serverVars, foundVars, Server, ServerReads,
      ServerAnswers, ServerNoise,
          ServerMisanswers, ServerExits, ClosesStdout, Expire, KillChild, AfterExpiry,
          ClosesEnds, Scan, StartServer, Initialize, Notify, AskPage, Writes, ReadLine,
          TakesPage, AfterLimit, ReadFails, CheckDeadline, Expired, Cancel, Wait, Goes,
          Fails
  <2> QED BY <2>1, <2>2, <2>3, <2>4, <2>5
<1>6. cursor' \in Pages /\ tools' \in Seq(Pages)
  <2>1. Append(tools, cursor) \in Seq(Pages)
    OBVIOUS
  <2>2. stdout # <<>> => Head(stdout).next \in Pages \cup {End}
    <3>1. stdout # <<>> => Head(stdout) \in Lines
      OBVIOUS
    <3> QED BY <3>1 DEF Lines, Pages
  <2> USE DEF Next, vars, serverVars, foundVars, Server, ServerReads, ServerAnswers,
      ServerNoise,
          ServerMisanswers, ServerExits, ClosesStdout, Expire, KillChild, AfterExpiry,
          ClosesEnds, Scan, StartServer, Initialize, Notify, AskPage, Writes, ReadLine,
          TakesPage, AfterLimit, ReadFails, CheckDeadline, Expired, Cancel, Wait, Goes,
          Fails
  <2>3. tools' \in Seq(Pages)
    BY <2>1
  <2>4. cursor' \in Pages
    BY <2>2
  <2> QED BY <2>3, <2>4
<1> QED BY <1>1, <1>2, <1>3, <1>4, <1>5, <1>6

\* An answer to the page scan waits for is the catalogue's: the only request with
\* that id asked for that page.
LEMMA PageIsTrue ==
  ASSUME TypeOK, RequestsAreTrue, AnswersAreTrue, pc = "awaitPage", stdout # <<>>,
         Awaited(Head(stdout)), Head(stdout).kind = "result"
  PROVE  Head(stdout).next = catalogue[cursor]
<1>1. Head(stdout) \in Elems(stdout)
  BY ElemsTail DEF TypeOK
<1>2. PICK r \in known : Head(stdout) = TrueAnswer(r)
  BY <1>1 DEF AnswersAreTrue
<1>3. r.id = N + 2 /\ N \in Nat
  BY <1>2 DEF Awaited, AwaitedId, PageId, Page, N, TrueAnswer, TypeOK
<1>4. r.what = cursor /\ r.what \in Pages
  BY <1>3, r \in known DEF RequestsAreTrue, Asked, InitializeId, NoId
<1> QED BY <1>2, <1>4 DEF TrueAnswer

LEMMA AnswersAreTrueStep ==
  ASSUME TypeOK, AnswersAreTrue, [Next]_vars
  PROVE  AnswersAreTrue'
<1>1. /\ catalogue' = catalogue /\ known \subseteq known' /\ (faulty => faulty')
      /\ noise > 0 => noise' > 0
  BY DEF TypeOK, Next, vars, serverVars, foundVars, Server, ServerReads, ServerAnswers,
        ServerNoise,
        ServerMisanswers, ServerExits, ClosesStdout, Expire, KillChild, AfterExpiry,
        ClosesEnds, Scan, StartServer, Initialize, Notify, AskPage, Writes, ReadLine,
        TakesPage, AfterLimit, ReadFails, CheckDeadline, Expired, Cancel, Wait, Goes,
        Fails
<1> SUFFICES ASSUME NEW l \in Elems(stdout')
             PROVE  /\ l.kind = "result" => \E r \in known' : l = TrueAnswer(r)
                    /\ l.kind \in {"error", "noPage", "ambiguous"} => faulty'
                    /\ l.kind = "huge" => noise' > 0
  BY <1>1 DEF AnswersAreTrue, TrueAnswer
<1>2. CASE l \in Elems(stdout)
  BY <1>1, <1>2 DEF AnswersAreTrue
<1>3. CASE l \notin Elems(stdout)
  <2>1. \A e : stdout' = Append(stdout, e) => l = e
    BY <1>3, ElemsAppend DEF TypeOK
  <2>2. stdout' # stdout /\ (stdout # <<>> => stdout' # Tail(stdout))
    BY <1>3, ElemsTail DEF TypeOK
  <2>3. ServerAnswers \/ ServerNoise \/ ServerMisanswers
    BY <2>2 DEF Next, vars, serverVars, foundVars, Server, ServerReads, ServerAnswers,
        ServerNoise,
            ServerMisanswers, ServerExits, ClosesStdout, Expire, KillChild, AfterExpiry,
            ClosesEnds, Scan, StartServer, Initialize, Notify, AskPage, Writes, ReadLine,
            TakesPage, AfterLimit, ReadFails, CheckDeadline, Expired, Cancel, Wait,
            Goes, Fails
  <2>4. CASE ServerAnswers
    BY <1>1, <2>1, <2>4 DEF ServerAnswers, Emits, TrueAnswer
  <2>5. CASE ServerNoise
    <3>1. CASE \E kind \in {"text", "huge"} : Emits(Blank(NoId, kind))
      BY <2>1, <2>5, <3>1 DEF ServerNoise, Emits, Blank, TypeOK
    <3>2. CASE \E r \in answered : Emits(TrueAnswer(r))
      BY <1>1, <2>1, <3>2 DEF Emits, TypeOK, TrueAnswer
    <3> QED BY <2>5, <3>1, <3>2 DEF ServerNoise
  <2>6. CASE ServerMisanswers
    BY <2>1, <2>6 DEF ServerMisanswers, Emits, Blank
  <2> QED BY <2>3, <2>4, <2>5, <2>6
<1> QED BY <1>2, <1>3

LEMMA RequestsAreTrueStep ==
  ASSUME TypeOK, PagesFollow, RequestsAreTrue, [Next]_vars
  PROVE  RequestsAreTrue'
<1> USE DEF NoId, InitializeId, Opening, Closing
<1>1. N \in Nat /\ cursor \in Pages /\ (pc \in Opening => N = 0)
  BY DEF TypeOK, N, PagesFollow
<1>2. ASSUME \A r \in Elems(inbox') \cup known' : r \in Elems(inbox) \cup known \/ Asked(r)',
             UNCHANGED <<tools, cursor>>,
             pc \in {"awaitPage"} \cup Closing => pc' \in {"awaitPage"} \cup Closing
      PROVE  RequestsAreTrue'
  BY <1>2 DEF RequestsAreTrue, Asked, N
<1>3. CASE Server
  <2>1. UNCHANGED <<tools, cursor, pc>>
    BY <1>3 DEF Server, ServerReads, ServerAnswers, ServerNoise, ServerMisanswers,
                ServerExits, ClosesStdout, foundVars
  <2>2. Elems(inbox') \cup known' \subseteq Elems(inbox) \cup known
    <3>1. CASE ServerReads
      <4>1. Elems(Tail(inbox)) \subseteq Elems(inbox) /\ Head(inbox) \in Elems(inbox)
        BY <3>1, ElemsTail DEF ServerReads, TypeOK
      <4> QED BY <3>1, <4>1 DEF ServerReads
    <3>2. CASE UNCHANGED <<inbox, known>>
      BY <3>2
    <3> QED BY <1>3, <3>1, <3>2 DEF Server, ServerAnswers, ServerNoise, ServerMisanswers,
                                    ServerExits, ClosesStdout
  <2> QED BY <1>2, <2>1, <2>2
<1>4. CASE Expire \/ KillChild \/ AfterExpiry \/ StartServer \/ ReadFails \/ CheckDeadline
           \/ Cancel \/ Wait \/ UNCHANGED vars
  BY <1>2, <1>4 DEF Expire, KillChild, AfterExpiry, StartServer, ReadFails, CheckDeadline,
                    Cancel, Wait, Goes, Fails, serverVars, foundVars, vars
<1>5. ASSUME NEW m, NEW then, Writes(m, then), then \in Opening \cup {"ask", "awaitPage"},
             pc \notin {"awaitPage"} \cup Closing,
             pc' = then => Asked(m)'
      PROVE  RequestsAreTrue'
  <2>1. UNCHANGED <<tools, cursor, known>> /\ pc' \in {then, "check"}
    BY <1>5 DEF Writes, Goes, Fails
  <2>2. CASE inbox' = inbox
    BY <1>2, <1>5, <2>1, <2>2
  <2>3. CASE inbox' = Append(inbox, m) /\ pc' = then
    <3>1. Elems(inbox') = Elems(inbox) \cup {m}
      BY <2>3, ElemsAppend DEF TypeOK
    <3> QED BY <1>2, <1>5, <2>1, <2>3, <3>1
  <2> QED BY <1>5, <2>2, <2>3 DEF Writes, Goes, Fails
<1>6. CASE Initialize
  BY <1>5, <1>6 DEF Initialize, Asked, Request
<1>7. CASE Notify
  BY <1>5, <1>7 DEF Notify, Asked, Request
<1>8. CASE AskPage
  <2>1. N' = N /\ cursor' = cursor
    BY <1>8 DEF AskPage, Writes, N
  <2>2. PICK m : m = Request(PageId(Page), cursor)
    OBVIOUS
  <2>3. pc' = "awaitPage" => Asked(m)'
    BY <1>1, <2>1, <2>2 DEF Asked, Request, PageId, Page, N
  <2> QED BY <1>5, <1>8, <2>2, <2>3 DEF AskPage
<1>9. CASE ReadLine
  <2>1. UNCHANGED <<inbox, known>>
    BY <1>9 DEF ReadLine
  <2>2. CASE UNCHANGED <<tools, cursor>>
    BY <1>2, <1>9, <2>1, <2>2 DEF ReadLine, Goes, Fails, TakesPage
  <2>3. CASE tools' = Append(tools, cursor) /\ pc = "awaitPage"
    <3>1. /\ N' = N + 1 /\ tools'[N + 1] = cursor
          /\ \A i \in 1..N : tools'[i] = tools[i]
      BY <2>3 DEF N, TypeOK
    <3>2. ASSUME NEW r \in Elems(inbox) \cup known PROVE Asked(r)'
      <4>1. Asked(r)
        BY DEF RequestsAreTrue
      <4>2. r.id \in Nat
        BY ElemsType DEF TypeOK, Messages
      <4>3. CASE r.id - 2 \in 0..N /\ r.id - 2 < N
        BY <1>1, <3>1, <4>1, <4>2, <4>3 DEF Asked
      <4>4. CASE r.id - 2 = N
        <5>1. r.what = cursor /\ r.id - 1 = N + 1 /\ r.id \notin {NoId, InitializeId}
          BY <1>1, <4>1, <4>2, <4>4 DEF Asked
        <5>2. r.what = tools'[r.id - 1] /\ r.id - 2 \in 0..N' /\ ~(r.id - 2 = N')
          BY <1>1, <3>1, <4>2, <4>4, <5>1
        <5> QED BY <1>1, <5>1, <5>2 DEF Asked
      <4> QED BY <1>1, <4>1, <4>2, <4>3, <4>4 DEF Asked
    <3> QED BY <2>1, <3>2 DEF RequestsAreTrue
  <2> QED BY <1>9, <2>2, <2>3 DEF ReadLine, TakesPage
<1> QED BY <1>3, <1>4, <1>6, <1>7, <1>8, <1>9 DEF Next, Scan

\* A page is taken from a true answer, or the list of tools stays as it is.
LEMMA PageTaken ==
  ASSUME TypeOK, RequestsAreTrue, AnswersAreTrue, [Next]_vars
  PROVE  /\ catalogue' = catalogue
         /\ \/ UNCHANGED <<tools, cursor>>
            \/ /\ pc = "awaitPage" /\ tools' = Append(tools, cursor)
               /\ \/ catalogue[cursor] = End /\ pc' = "check" /\ UNCHANGED <<cursor, failure>>
                  \/ /\ catalogue[cursor] \in Elems(tools) \cup {cursor}
                     /\ Fails("cursor") /\ UNCHANGED cursor
                  \/ /\ cursor' = catalogue[cursor] /\ catalogue[cursor] # End
                     /\ Goes("ask") \/ (Fails("pages") /\ Len(tools') >= MaxScanPages)
<1>1. CASE ReadLine
  <2>1. catalogue' = catalogue
    BY <1>1 DEF ReadLine
  <2>2. CASE UNCHANGED <<tools, cursor>>
    BY <2>1, <2>2
  <2>3. CASE TakesPage(Head(stdout)) /\ pc = "awaitPage"
    <3>1. Head(stdout).next = catalogue[cursor]
      BY <1>1, <2>3, PageIsTrue DEF ReadLine, TakesPage
    <3> QED BY <2>1, <2>3, <3>1 DEF TakesPage, Seen, Elems, AfterLimit, Goes
  <2> QED BY <1>1, <2>2, <2>3 DEF ReadLine
<1>2. CASE ~ReadLine
  BY <1>2 DEF Next, vars, serverVars, foundVars, Server, ServerReads, ServerAnswers,
        ServerNoise, ServerMisanswers, ServerExits, ClosesStdout, Expire, KillChild,
        AfterExpiry, ClosesEnds, Scan, StartServer, Initialize, Notify, AskPage, Writes,
        ReadLine, TakesPage, AfterLimit, ReadFails, CheckDeadline, Expired, Cancel, Wait,
        Goes, Fails
<1> QED BY <1>1, <1>2

LEMMA PagesFollowStep ==
  ASSUME TypeOK, RequestsAreTrue, AnswersAreTrue, PagesFollow, [Next]_vars
  PROVE  PagesFollow'
<1>1. N \in Nat
  BY DEF TypeOK, N
<1>2. CASE UNCHANGED <<tools, cursor>>
  <2>1. /\ pc' \in Opening => pc \in Opening
        /\ pc' \in {"ask", "awaitPage"} => pc \in {"notify", "ask", "awaitPage"}
    BY <1>2 DEF Opening, Next, vars, serverVars, foundVars, Server, ServerReads,
        ServerAnswers,
          ServerNoise, ServerMisanswers, ServerExits, ClosesStdout, Expire, KillChild,
          AfterExpiry, ClosesEnds, Scan, StartServer, Initialize, Notify, AskPage, Writes,
          ReadLine, TakesPage, AfterLimit, ReadFails, CheckDeadline, Expired, Cancel,
          Wait,
          Goes, Fails
  <2> QED BY <1>1, <1>2, <2>1, PageTaken DEF PagesFollow, N, Opening
<1>3. CASE tools' = Append(tools, cursor) /\ pc = "awaitPage"
  <2>1. /\ N' = N + 1 /\ tools'[N + 1] = cursor
        /\ \A i \in 1..N : tools'[i] = tools[i]
    BY <1>3 DEF N, TypeOK
  <2>2. tools # <<>> \/ tools = <<>>
    OBVIOUS
  <2>3. tools'[1] = Start
    BY <1>1, <2>1 DEF PagesFollow
  <2>4. \A i \in 1..N : catalogue[tools'[i]] = tools'[i + 1]
    <3> TAKE i \in 1..N
    <3>1. CASE i < N
      BY <1>1, <2>1, <3>1 DEF PagesFollow
    <3>2. CASE i = N
      <4>1. N > 0 => catalogue[tools[N]] = cursor
        BY <1>3 DEF PagesFollow
      <4> QED BY <1>1, <2>1, <3>2, <4>1
    <3> QED BY <1>1, <3>1, <3>2
  <2>5. pc' \notin Opening /\ (pc' = "ask" => cursor' = catalogue[cursor]) /\ pc' # "awaitPage"
    BY <1>3, PageTaken DEF Opening, Goes, Fails, TypeOK
  <2> QED BY <1>1, <2>1, <2>3, <2>4, <2>5, PageTaken DEF PagesFollow
<1> QED BY <1>2, <1>3, PageTaken

LEMMA EndIsTrueStep ==
  ASSUME TypeOK, RequestsAreTrue, AnswersAreTrue, EndIsTrue, [Next]_vars
  PROVE  EndIsTrue'
<1>1. CASE UNCHANGED <<tools, cursor>>
  <2>1. /\ pc' \in Closing /\ failure' = "none" => pc \in Closing /\ failure = "none"
        /\ pc' \notin Closing => pc \notin Closing /\ failure' = failure
    BY <1>1 DEF EndIsTrue, Closing, Next, vars, serverVars, foundVars, Server,
        ServerReads, ServerAnswers,
          ServerNoise, ServerMisanswers, ServerExits, ClosesStdout, Expire, KillChild,
          AfterExpiry, ClosesEnds, Scan, StartServer, Initialize, Notify, AskPage, Writes,
          ReadLine, TakesPage, AfterLimit, ReadFails, CheckDeadline, Expired, Cancel,
          Wait,
          Goes, Fails
  <2> QED BY <1>1, <2>1, PageTaken DEF EndIsTrue, N
<1>2. CASE tools' = Append(tools, cursor) /\ pc = "awaitPage"
  <2>1. N' > 0 /\ tools'[N'] = cursor
    BY <1>2 DEF N, TypeOK
  <2>2. failure = "none"
    BY <1>2 DEF EndIsTrue, Closing
  <2> QED BY <1>2, <2>1, <2>2, PageTaken DEF EndIsTrue, Closing, Goes, Fails
<1> QED BY <1>1, <1>2, PageTaken

\* Blame, part by part: the deadline, the pipes and the child, then the errors.
Exchange == {"initialize", "awaitInit", "notify", "ask", "awaitPage"}

LEMMA BlameIsTrueStep ==
  ASSUME TypeOK, RequestsAreTrue, AnswersAreTrue, EndIsTrue, BlameIsTrue, [Next]_vars
  PROVE  BlameIsTrue'
<1> USE DEF BlameIsTrue, Closing
<1>1. /\ expired' => ctx' = "expired"
      /\ pc' \notin {"cancel", "wait", "returned"} => ctx' # "canceled"
  <2> USE DEF TypeOK, Next, vars, serverVars, foundVars, Server, ServerReads,
      ServerAnswers,
          ServerNoise, ServerMisanswers, ServerExits, ClosesStdout, Expire, KillChild,
          AfterExpiry, ClosesEnds, Scan, StartServer, Initialize, Notify, AskPage, Writes,
          ReadLine, TakesPage, AfterLimit, ReadFails, CheckDeadline, Expired, Cancel,
          Wait,
          Goes, Fails
  <2>1. expired' => ctx' = "expired"  OBVIOUS
  <2>2. pc' \notin {"cancel", "wait", "returned"} => ctx' # "canceled"  OBVIOUS
  <2> QED BY <2>1, <2>2
<1>2. pc' \in Exchange =>
        /\ ctx' = "live" => inOpen' /\ outOpen'
        /\ ctx' = "live" /\ ~quit' => alive' /\ "child" \in writers'
  <2> USE DEF Exchange, TypeOK, FlagsOK, Next, vars, serverVars, foundVars, Server,
      ServerReads, ServerAnswers,
          ServerNoise, ServerMisanswers, ServerExits, ClosesStdout, Expire, KillChild,
          AfterExpiry, ClosesEnds, Scan, StartServer, Initialize, Notify, AskPage, Writes,
          ReadLine, TakesPage, AfterLimit, ReadFails, CheckDeadline, Expired, Cancel,
          Wait,
          Goes, Fails
  <2>1. pc' \in Exchange /\ ctx' = "live" => inOpen'  OBVIOUS
  <2>2. pc' \in Exchange /\ ctx' = "live" => outOpen'  OBVIOUS
  <2>3. pc' \in Exchange /\ ctx' = "live" /\ ~quit' => alive'  OBVIOUS
  <2>4. pc' \in Exchange /\ ctx' = "live" /\ ~quit' => "child" \in writers'  OBVIOUS
  <2> QED BY <2>1, <2>2, <2>3, <2>4
<1>3. failure' = "closed" => ctx' = "expired"
  BY DEF TypeOK, Next, vars, serverVars, foundVars, Server, ServerReads, ServerAnswers,
        ServerNoise, ServerMisanswers, ServerExits, ClosesStdout, Expire, KillChild,
        AfterExpiry, ClosesEnds, Scan, StartServer, Initialize, Notify, AskPage, Writes,
        ReadLine, TakesPage, AfterLimit, ReadFails, CheckDeadline, Expired, Cancel, Wait,
        Goes, Fails
<1>4. /\ failure' = "broken" => quit' \/ ctx' = "expired"
      /\ failure' = "ended" => quit' \/ lines' >= MaxScanLines \/ ctx' = "expired"
  <2>1. lines' >= lines /\ (lines >= MaxScanLines => lines' >= MaxScanLines)
    BY DiscoveryAssumption DEF TypeOK, Next, vars, serverVars, foundVars, Server, ServerReads,
      ServerAnswers, ServerNoise, ServerMisanswers, ServerExits, ClosesStdout, Expire,
      KillChild, AfterExpiry, ClosesEnds, Scan, StartServer, Initialize, Notify, AskPage,
      Writes, ReadLine, TakesPage, AfterLimit, ReadFails, CheckDeadline, Expired, Cancel,
      Wait, Goes, Fails
  <2>2. failure' = "broken" => quit' \/ ctx' = "expired"
    BY DEF TypeOK, Next, vars, serverVars, foundVars, Server, ServerReads,
      ServerAnswers, ServerNoise, ServerMisanswers, ServerExits, ClosesStdout, Expire,
      KillChild, AfterExpiry, ClosesEnds, Scan, StartServer, Initialize, Notify, AskPage,
      Writes, ReadLine, TakesPage, AfterLimit, ReadFails, CheckDeadline, Expired, Cancel,
      Wait, Goes, Fails
  <2>3. failure' = "ended" => quit' \/ lines >= MaxScanLines \/ ctx' = "expired"
    BY DEF TypeOK, Next, vars, serverVars, foundVars, Server, ServerReads,
      ServerAnswers, ServerNoise, ServerMisanswers, ServerExits, ClosesStdout, Expire,
      KillChild, AfterExpiry, ClosesEnds, Scan, StartServer, Initialize, Notify, AskPage,
      Writes, ReadLine, TakesPage, AfterLimit, ReadFails, CheckDeadline, Expired, Cancel,
      Wait, Goes, Fails
  <2> QED BY <2>1, <2>2, <2>3
<1>5. pc' \in {"cancel", "wait", "returned"} /\ ctx' = "expired" /\ ~expired' =>
        /\ failure' # "closed" /\ (failure' = "broken" => quit')
        /\ failure' = "ended" => quit' \/ lines' >= MaxScanLines
  <2> SUFFICES ASSUME pc' \in {"cancel", "wait", "returned"}, ctx' = "expired", ~expired'
               PROVE  /\ failure' # "closed" /\ (failure' = "broken" => quit')
                      /\ failure' = "ended" => quit' \/ lines' >= MaxScanLines
    OBVIOUS
  <2>1. lines' = lines /\ (quit => quit') /\ (failure' = failure \/ failure' = "start")
    BY DEF TypeOK, Next, vars, serverVars, foundVars, Server, ServerReads,
      ServerAnswers, ServerNoise, ServerMisanswers, ServerExits, ClosesStdout, Expire,
      KillChild, AfterExpiry, ClosesEnds, Scan, StartServer, Initialize, Notify, AskPage,
      Writes, ReadLine, TakesPage, AfterLimit, ReadFails, CheckDeadline, Expired, Cancel,
      Wait, Goes, Fails
  <2>2. failure' = "start" \/ ctx = "live" \/ (pc \in {"cancel", "wait", "returned"} /\ ~expired)
    BY DEF TypeOK, Next, vars, serverVars, foundVars, Server, ServerReads,
      ServerAnswers, ServerNoise, ServerMisanswers, ServerExits, ClosesStdout, Expire,
      KillChild, AfterExpiry, ClosesEnds, Scan, StartServer, Initialize, Notify, AskPage,
      Writes, ReadLine, TakesPage, AfterLimit, ReadFails, CheckDeadline, Expired, Cancel,
      Wait, Goes, Fails
  <2>3. CASE ctx = "live"
    BY <2>1, <2>3
  <2>4. CASE ctx # "live"
    BY <2>1, <2>2, <2>4 DEF TypeOK
  <2> QED BY <2>3, <2>4
<1>6. failure' = "answer" => faulty'
  <2>1. CASE ReadLine
    <3>1. Head(stdout).kind \in {"error", "noPage", "ambiguous"} => faulty
      BY <2>1, ElemsTail DEF ReadLine, AnswersAreTrue, TypeOK
    <3> QED BY <2>1, <3>1 DEF ReadLine, TakesPage, AfterLimit, Goes, Fails
  <2>2. CASE ~ReadLine
    BY <2>2 DEF Next, vars, serverVars, foundVars, Server, ServerReads, ServerAnswers,
          ServerNoise, ServerMisanswers, ServerExits, ClosesStdout, Expire, KillChild,
          AfterExpiry, ClosesEnds, Scan, StartServer, Initialize, Notify, AskPage, Writes,
          ReadLine, TakesPage, AfterLimit, ReadFails, CheckDeadline, Expired, Cancel,
          Wait,
          Goes, Fails
  <2> QED BY <2>1, <2>2
<1>7. /\ failure' = "cursor" => N' > 0 /\ catalogue'[tools'[N']] \in Elems(tools')
      /\ failure' = "pages" =>
           N' >= MaxScanPages /\ N' > 0 /\ catalogue'[tools'[N']] # End
  <2>1. CASE UNCHANGED <<tools, cursor>>
    <3>1. failure' \in {"cursor", "pages"} => failure = failure'
      BY <2>1 DEF TypeOK, Next, vars, serverVars, foundVars, Server, ServerReads,
          ServerAnswers,
          ServerNoise, ServerMisanswers, ServerExits, ClosesStdout, Expire, KillChild,
          AfterExpiry, ClosesEnds, Scan, StartServer, Initialize, Notify, AskPage, Writes,
          ReadLine, TakesPage, AfterLimit, ReadFails, CheckDeadline, Expired, Cancel,
          Wait,
          Goes, Fails
    <3> QED BY <2>1, <3>1, PageTaken DEF N
  <2>2. CASE tools' = Append(tools, cursor) /\ pc = "awaitPage"
    <3>1. N' > 0 /\ tools'[N'] = cursor
      BY <2>2 DEF N, TypeOK
    <3>2. Elems(tools') = Elems(tools) \cup {cursor}
      BY <2>2, ElemsAppend DEF TypeOK
    <3>3. failure' = "cursor" => catalogue[cursor] \in Elems(tools) \cup {cursor}
      BY <2>2, PageTaken DEF EndIsTrue, Goes, Fails
    <3>4. failure' = "pages" => N' >= MaxScanPages /\ catalogue[cursor] # End
      BY <2>2, PageTaken DEF EndIsTrue, Goes, Fails, N
    <3> QED BY <3>1, <3>2, <3>3, <3>4, PageTaken
  <2> QED BY <2>1, <2>2, PageTaken
<1>8. failure' = "huge" => noise' > 0
  <2>1. CASE ReadLine
    <3>1. Head(stdout).kind = "huge" => noise > 0
      BY <2>1, ElemsTail DEF ReadLine, AnswersAreTrue, TypeOK
    <3> QED BY <2>1, <3>1 DEF ReadLine, TakesPage, AfterLimit, Goes, Fails
  <2>2. CASE ~ReadLine
    BY <2>2 DEF TypeOK, Next, vars, serverVars, foundVars, Server, ServerReads,
          ServerAnswers, ServerNoise, ServerMisanswers, ServerExits, ClosesStdout, Expire,
          KillChild, AfterExpiry, ClosesEnds, Scan, StartServer, Initialize, Notify,
          AskPage, Writes, ReadLine, TakesPage, AfterLimit, ReadFails, CheckDeadline,
          Expired, Cancel, Wait, Goes, Fails
  <2> QED BY <2>1, <2>2
<1> QED BY <1>1, <1>2, <1>3, <1>4, <1>5, <1>6, <1>7, <1>8 DEF Exchange

LEMMA DiscoveryInvInit == Init => DiscoveryInv
<1> SUFFICES ASSUME Init PROVE DiscoveryInv
  OBVIOUS
<1> USE DiscoveryAssumption DEF Init
<1>1. FlagsOK
  BY DEF FlagsOK
<1>2. TypeOK
  BY <1>1 DEF TypeOK, Steps, Pages, Failures
<1>3. N = 0 /\ Elems(inbox) = {} /\ Elems(stdout) = {}
  BY DEF N, Elems
<1>4. RequestsAreTrue /\ AnswersAreTrue
  BY <1>3 DEF RequestsAreTrue, AnswersAreTrue
<1>5. PagesFollow /\ EndIsTrue /\ BlameIsTrue
  BY <1>3 DEF PagesFollow, EndIsTrue, BlameIsTrue, Opening, Closing
<1> QED BY <1>2, <1>4, <1>5 DEF DiscoveryInv

LEMMA DiscoveryInvariant == Spec => []DiscoveryInv
<1>1. DiscoveryInv /\ [Next]_vars => DiscoveryInv'
  BY TypeOKStep, RequestsAreTrueStep, AnswersAreTrueStep, PagesFollowStep, EndIsTrueStep,
     BlameIsTrueStep DEF DiscoveryInv
<1> QED BY DiscoveryInvInit, <1>1, PTL DEF Spec

\* Every reachable state of a scan is well typed.
THEOREM ScanTypeCorrect == Spec => []TypeOK
BY DiscoveryInvariant, PTL DEF DiscoveryInv

\* A report lists the catalogue from its first page to its last, whatever the server
\* repeats, delays or says besides (discover, awaitResponse).
THEOREM ReportsAreWhole == Spec => []WholeInventory
<1>1. DiscoveryInv => WholeInventory
  BY DEF DiscoveryInv, TypeOK, PagesFollow, EndIsTrue, WholeInventory, Reported,
      Closing, N
<1> QED BY DiscoveryInvariant, <1>1, PTL

\* scan blames the deadline whenever its own closing broke the exchange, and only if
\* it passed; the end of the output, a broken pipe, a limit or a wrong answer is
\* reported only of a server that gave cause, or of a budget that was used up.
THEOREM ErrorsNameTheirCause == Spec => []ErrorNamesItsCause
<1>1. DiscoveryInv => ErrorNamesItsCause
  <2> SUFFICES ASSUME DiscoveryInv PROVE ErrorNamesItsCause
    OBVIOUS
  <2>1. failure = "cursor" => \E i \in 1..Len(tools) : catalogue[tools[Len(tools)]] = tools[i]
    BY DEF DiscoveryInv, BlameIsTrue, N, Elems
  <2>2. pc = "returned" /\ ~expired =>
          /\ failure # "closed" /\ (failure = "broken" => quit)
          /\ failure = "ended" => quit \/ lines >= MaxScanLines
    BY DEF DiscoveryInv, BlameIsTrue, TypeOK
  <2> QED BY <2>1, <2>2 DEF DiscoveryInv, BlameIsTrue, ErrorNamesItsCause, MoreToList, N
<1> QED BY DiscoveryInvariant, <1>1, PTL
=============================================================================
