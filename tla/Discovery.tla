----------------------------- MODULE Discovery -----------------------------
(***************************************************************************)
(* scan (internal/scan): start a server, ask it for its tools page by page *)
(* under one deadline, and report all of them or an error.                 *)
(*                                                                         *)
(* A page of tools is named by the cursor it is asked with, Start for the  *)
(* one asked without; the server's catalogue maps it to the next cursor.   *)
(* A line costs one unit of the bytes scan is ready to read.  Time is left *)
(* out: the deadline may pass at any moment.                               *)
(***************************************************************************)
EXTENDS Integers, Sequences

CONSTANTS
  Cursors, Start, End,  \* cursors; "asked without one"; "no next cursor"
  Catalogues,           \* what a server may have to list: [page -> next cursor]
  MaxScanPages,         \* page requests
  MaxScanLines,         \* lines scan reads in all (maxScanBytes)
  PipeSize,             \* messages a server's stdin holds unread
  MaxNoise              \* bound: lines that are not the first answer to a request

Pages == Cursors \cup {Start}

ASSUME DiscoveryAssumption ==
  /\ Start \notin Cursors /\ End \notin Pages
  /\ Catalogues \subseteq [Pages -> Cursors \cup {End}]
  /\ {MaxScanPages, MaxScanLines, PipeSize, MaxNoise} \subseteq Nat

VARIABLES
  catalogue,       \* given: what this server has to list
  ctx, expired,    \* the context: "live", "expired", "canceled"; as scan saw it
  \* the server: a child that may have left its stdout to a descendant
  alive, writers, inbox, known, answered, stdout, noise,
  quit, faulty,    \* history: it ended or fell silent by itself; it misanswered
  \* scan's ends of the pipes
  inOpen, outOpen,
  \* scan
  pc, cursor, tools, lines, failure

serverVars == <<alive, writers, inbox, known, answered, stdout, noise, quit, faulty>>
foundVars  == <<cursor, tools, lines, failure>>
vars == <<catalogue, ctx, expired, serverVars, inOpen, outOpen, pc, foundVars>>

\* What scan sends and what it waits for.
NoId == 0
InitializeId == 1
PageId(page) == page + 2                     \* pages count from 0
Page == Len(tools)
Request(id, what) == [id |-> id, what |-> what]
AwaitedId == IF pc = "awaitInit" THEN InitializeId ELSE PageId(Page)

Init ==
  /\ catalogue \in Catalogues /\ ctx = "live" /\ expired = FALSE
  /\ alive = FALSE /\ writers = {} /\ inbox = <<>> /\ known = {} /\ answered = {}
  /\ stdout = <<>> /\ noise = 0 /\ quit = FALSE /\ faulty = FALSE
  /\ inOpen = FALSE /\ outOpen = FALSE
  /\ pc = "start" /\ cursor = Start /\ tools = <<>> /\ lines = 0 /\ failure = "none"

-----------------------------------------------------------------------------
\* The server.  It tells the truth about its tools, to any request it has read,
\* whenever it likes; some wait for the initialized notification before they list.

TrueAnswer(r) ==
  [id |-> r.id, kind |-> "result", page |-> r.what,
   next |-> IF r.what \in Pages THEN catalogue[r.what] ELSE End]
Ready(r) == r \in known /\ (r.what \in Pages => Request(NoId, "initialized") \in known)
Blank(id, kind) == [id |-> id, kind |-> kind, page |-> Start, next |-> End]

Emits(l) == "child" \in writers /\ stdout' = Append(stdout, l)

ServerReads ==
  /\ alive /\ inbox # <<>>
  /\ known' = known \cup {Head(inbox)} /\ inbox' = Tail(inbox)
  /\ UNCHANGED <<catalogue, ctx, expired, alive, writers, answered, stdout, noise,
                 quit, faulty, inOpen, outOpen, pc, foundVars>>

ServerAnswers ==
  /\ \E r \in known \ answered :
       /\ r.id # NoId /\ Ready(r) /\ Emits(TrueAnswer(r))
       /\ answered' = answered \cup {r}
  /\ UNCHANGED <<catalogue, ctx, expired, alive, writers, inbox, known, noise, quit,
                 faulty, inOpen, outOpen, pc, foundVars>>

\* A log line, a notification or a stranger's response; an answer given again; a
\* line that never ends.  None of them is a wrong answer.
ServerNoise ==
  /\ noise < MaxNoise /\ noise' = noise + 1
  /\ \/ \E kind \in {"text", "huge"} : Emits(Blank(NoId, kind))
     \/ \E r \in answered : Emits(TrueAnswer(r))
  /\ UNCHANGED <<catalogue, ctx, expired, alive, writers, inbox, known, answered, quit,
                 faulty, inOpen, outOpen, pc, foundVars>>

\* A wrong one: a JSON-RPC error, a result that is no page, an ambiguous envelope;
\* also a request of the server's own that happens to carry one of scan's ids.
ServerMisanswers ==
  /\ noise < MaxNoise /\ noise' = noise + 1 /\ faulty' = TRUE
  /\ \E id \in {InitializeId} \cup {PageId(p) : p \in 0..(MaxScanPages - 1)} :
     \E kind \in {"error", "noPage", "ambiguous"} : Emits(Blank(id, kind))
  /\ UNCHANGED <<catalogue, ctx, expired, alive, writers, inbox, known, answered, quit,
                 inOpen, outOpen, pc, foundVars>>

ServerExits ==
  /\ alive /\ alive' = FALSE /\ writers' = writers \ {"child"} /\ quit' = TRUE
  /\ UNCHANGED <<catalogue, ctx, expired, inbox, known, answered, stdout, noise, faulty,
                 inOpen, outOpen, pc, foundVars>>

ClosesStdout ==
  /\ "child" \in writers /\ writers' = writers \ {"child"} /\ quit' = TRUE
  /\ UNCHANGED <<catalogue, ctx, expired, alive, inbox, known, answered, stdout, noise,
                 faulty, inOpen, outOpen, pc, foundVars>>

Server ==
  \/ ServerReads \/ ServerAnswers \/ ServerNoise \/ ServerMisanswers \/ ServerExits
  \/ ClosesStdout

-----------------------------------------------------------------------------
\* The deadline and what runs by itself once the context has ended.

Expire ==
  /\ ctx = "live" /\ pc # "returned" /\ ctx' = "expired"
  /\ UNCHANGED <<catalogue, expired, serverVars, inOpen, outOpen, pc, foundVars>>

\* exec.CommandContext kills the child, not its descendants.
KillChild ==
  /\ ctx # "live" /\ alive /\ alive' = FALSE /\ writers' = writers \ {"child"}
  /\ UNCHANGED <<catalogue, ctx, expired, inbox, known, answered, stdout, noise, quit,
                 faulty, inOpen, outOpen, pc, foundVars>>

\* Fault: only the end scan writes to is closed.
ClosesEnds_InOnly == inOpen' = FALSE /\ UNCHANGED outOpen
ClosesEnds ==
  \/ inOpen /\ inOpen' = FALSE /\ UNCHANGED outOpen
  \/ ~inOpen /\ outOpen' = FALSE /\ UNCHANGED inOpen

AfterExpiry ==
  /\ ctx # "live" /\ outOpen /\ ClosesEnds
  /\ UNCHANGED <<catalogue, ctx, expired, serverVars, pc, foundVars>>

-----------------------------------------------------------------------------
\* The handshake (discover).

Goes(step) == pc' = step /\ UNCHANGED failure
Fails(why) == pc' = "check" /\ failure' = why

StartServer ==
  /\ pc = "start"
  /\ \/ /\ ctx = "live" /\ Goes("initialize")
        /\ alive' = TRUE /\ writers' \in {{"child"}, {"child", "descendant"}}
        /\ inOpen' = TRUE /\ outOpen' = TRUE
     \/ /\ pc' = "returned" /\ failure' = "start"
        /\ UNCHANGED <<alive, writers, inOpen, outOpen>>
  /\ UNCHANGED <<catalogue, ctx, expired, inbox, known, answered, stdout, noise, quit,
                 faulty, cursor, tools, lines>>

\* A write waits for room in the pipe, fails once the child is gone or once scan's
\* own end was closed.
Writes(m, then) ==
  /\ \/ /\ inOpen /\ alive /\ Len(inbox) < PipeSize
        /\ inbox' = Append(inbox, m) /\ Goes(then)
     \/ ~inOpen /\ Fails("closed") /\ UNCHANGED inbox
     \/ inOpen /\ ~alive /\ Fails("broken") /\ UNCHANGED inbox
  /\ UNCHANGED <<catalogue, ctx, expired, alive, writers, known, answered, stdout, noise,
                 quit, faulty, inOpen, outOpen, cursor, tools, lines>>

Initialize == pc = "initialize" /\ Writes(Request(InitializeId, "initialize"), "awaitInit")
\* Fault: the server is not told that the handshake is over.
Notify_Skipped ==
  /\ pc = "notify" /\ Goes("ask")
  /\ UNCHANGED <<catalogue, ctx, expired, serverVars, inOpen, outOpen, cursor, tools, lines>>
Notify     == pc = "notify" /\ Writes(Request(NoId, "initialized"), "ask")
AskPage    == pc = "ask" /\ Writes(Request(PageId(Page), cursor), "awaitPage")

Awaited(l) == l.id = AwaitedId
\* A page is read; it may be the last, repeat a cursor, or be one page too many.
Seen == {tools[i] : i \in 1..Len(tools)} \cup {cursor}

AfterLimit == Fails("pages")

TakesPage(l) ==
  /\ tools' = Append(tools, cursor)
  /\ \/ l.next = End /\ Goes("check") /\ UNCHANGED cursor
     \/ l.next \in Seen /\ Fails("cursor") /\ UNCHANGED cursor
     \/ /\ l.next \notin Seen \cup {End} /\ cursor' = l.next
        /\ \/ Len(tools') < MaxScanPages /\ Goes("ask")
           \/ Len(tools') >= MaxScanPages /\ AfterLimit

ReadLine ==
  /\ pc \in {"awaitInit", "awaitPage"} /\ stdout # <<>> /\ lines < MaxScanLines
  /\ stdout' = Tail(stdout) /\ lines' = lines + 1
  /\ LET l == Head(stdout) IN
       \/ l.kind = "huge" /\ Fails("huge") /\ UNCHANGED <<cursor, tools>>
       \/ l.kind # "huge" /\ ~Awaited(l) /\ Goes(pc) /\ UNCHANGED <<cursor, tools>>
       \/ /\ Awaited(l) /\ l.kind \in {"error", "ambiguous"}
          /\ Fails("answer") /\ UNCHANGED <<cursor, tools>>
       \/ /\ Awaited(l) /\ l.kind \in {"result", "noPage"} /\ pc = "awaitInit"
          /\ Goes("notify") /\ UNCHANGED <<cursor, tools>>
       \/ /\ Awaited(l) /\ l.kind = "noPage" /\ pc = "awaitPage"
          /\ Fails("answer") /\ UNCHANGED <<cursor, tools>>
       \/ Awaited(l) /\ l.kind = "result" /\ pc = "awaitPage" /\ TakesPage(l)
  /\ UNCHANGED <<catalogue, ctx, expired, alive, writers, inbox, known, answered, noise,
                 quit, faulty, inOpen, outOpen>>

\* The end of the output or of what scan is ready to read, which its reader reports
\* alike, or of its own descriptor, whatever was still unread in it.
\* Fault: running out of what it may read is taken for the end of the list.
ReadFails_Quietly ==
  /\ pc \in {"awaitInit", "awaitPage"}
  /\ \/ stdout = <<>> /\ writers = {} /\ Fails("ended")
     \/ lines >= MaxScanLines /\ Goes("check")
     \/ ~outOpen /\ Fails("closed")
  /\ UNCHANGED <<catalogue, ctx, expired, serverVars, inOpen, outOpen, cursor, tools, lines>>
ReadFails ==
  /\ pc \in {"awaitInit", "awaitPage"}
  /\ \/ stdout = <<>> /\ writers = {} /\ Fails("ended")
     \/ lines >= MaxScanLines /\ Fails("ended")
     \/ ~outOpen /\ Fails("closed")
  /\ UNCHANGED <<catalogue, ctx, expired, serverVars, inOpen, outOpen, cursor, tools, lines>>

-----------------------------------------------------------------------------
\* Whatever discover returned, the child is taken down and reaped.

\* Fault: the deadline is looked for in discover's error, which names a closed file.
Expired_ByError == failure = "deadline"
Expired == ctx = "expired"

CheckDeadline ==
  /\ pc = "check" /\ expired' = Expired /\ Goes("cancel")
  /\ UNCHANGED <<catalogue, ctx, serverVars, inOpen, outOpen, cursor, tools, lines>>

Cancel ==
  /\ pc = "cancel" /\ inOpen' = FALSE /\ Goes("wait")
  /\ ctx' = IF ctx = "live" THEN "canceled" ELSE ctx
  /\ UNCHANGED <<catalogue, expired, serverVars, outOpen, cursor, tools, lines>>

Wait ==
  /\ pc = "wait" /\ ~alive /\ outOpen' = FALSE /\ Goes("returned")
  /\ UNCHANGED <<catalogue, ctx, expired, serverVars, inOpen, cursor, tools, lines>>

Scan ==
  \/ StartServer \/ Initialize \/ Notify \/ AskPage \/ ReadLine \/ ReadFails
  \/ CheckDeadline \/ Cancel \/ Wait

Next == Server \/ Expire \/ KillChild \/ AfterExpiry \/ Scan

Spec == Init /\ [][Next]_vars

\* scan's goroutines are scheduled and a killed child dies.
FairSpec == Spec /\ WF_vars(Scan) /\ WF_vars(KillChild) /\ WF_vars(AfterExpiry)

DeadlinePasses == WF_vars(Expire)
ServerScheduled == WF_vars(ServerReads) /\ WF_vars(ServerAnswers)

-----------------------------------------------------------------------------
Steps == {"start", "initialize", "awaitInit", "notify", "ask", "awaitPage", "check",
          "cancel", "wait", "returned"}
Messages == [id : Nat, what : Pages \cup {"initialize", "initialized"}]
Lines == [id : Nat, kind : {"text", "huge", "result", "error", "noPage", "ambiguous"},
          page : Pages \cup {"initialize", "initialized"}, next : Cursors \cup {End}]

Failures == {"none", "start", "closed", "broken", "ended", "huge", "pages", "cursor",
             "answer"}

FlagsOK ==
  /\ expired \in BOOLEAN /\ alive \in BOOLEAN /\ quit \in BOOLEAN
  /\ faulty \in BOOLEAN /\ inOpen \in BOOLEAN /\ outOpen \in BOOLEAN

TypeOK ==
  /\ FlagsOK /\ catalogue \in Catalogues /\ ctx \in {"live", "expired", "canceled"}
  /\ writers \subseteq {"child", "descendant"} /\ noise \in Nat
  /\ inbox \in Seq(Messages) /\ known \subseteq Messages /\ answered \subseteq known
  /\ stdout \in Seq(Lines)
  /\ pc \in Steps /\ cursor \in Pages /\ tools \in Seq(Pages) /\ lines \in Nat
  /\ failure \in Failures

Reported == pc = "returned" /\ failure = "none"

\* A report names every tool the server has, each page once and in order, or there
\* is no report: an answer that comes twice, late or among other output never fills
\* another page's place, and no limit cuts a list short in silence.
WholeInventory ==
  Reported =>
    /\ tools # <<>> /\ tools[1] = Start
    /\ \A i \in 1..(Len(tools) - 1) : catalogue[tools[i]] = tools[i + 1]
    /\ catalogue[tools[Len(tools)]] = End

MoreToList == tools # <<>> /\ catalogue[tools[Len(tools)]] # End

\* An error names what happened: the deadline is blamed whenever it was scan's own
\* closing or killing that broke the exchange, and only if it passed.  Otherwise a
\* broken pipe means that the server ended and a wrong answer that it gave one; a
\* listing is over its limits, or repeats a cursor, only if the server's does; and
\* "closed its output" means that the server did or, since the reader that limits
\* scan reports the same, that scan has read all it may.
ErrorNamesItsCause ==
  pc = "returned" /\ failure \notin {"none", "start"} =>
    /\ expired => ctx = "expired"
    /\ ~expired =>
         /\ failure # "closed"
         /\ failure = "broken" => quit
         /\ failure = "ended" => quit \/ lines >= MaxScanLines
         /\ failure = "answer" => faulty
         /\ failure = "huge" => noise > 0
         /\ failure = "pages" => Len(tools) >= MaxScanPages /\ MoreToList
         /\ failure = "cursor" => \E i \in 1..Len(tools) :
                                     catalogue[tools[Len(tools)]] = tools[i]

\* scan returns once its deadline passes, whatever the server does or leaves behind,
\* and then the child is reaped and both pipes are closed.
ScanEnds ==
  DeadlinePasses => <>[](pc = "returned" /\ ~alive /\ ~inOpen /\ ~outOpen)

\* With a server that reads and answers, scan needs no deadline to come to its end:
\* neither noise nor repeated answers nor a gated tools/list stall it.
AnsweringServerEndsIt ==
  ServerScheduled => <>(pc = "returned" \/ ctx = "expired" \/ quit \/ faulty)
=============================================================================
