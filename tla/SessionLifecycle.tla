-------------------------- MODULE SessionLifecycle --------------------------
(***************************************************************************)
(* How a session ends (run in internal/proxy): the four goroutines run     *)
(* starts or is (main, input, waiter, grace killer) around one child       *)
(* process, its pipes and the channels that tie them together.  What the   *)
(* messages say is Gateway's concern; here a message is only something to  *)
(* be read, written or refused.                                            *)
(*                                                                         *)
(* Time is left out: a grace timer that is armed may fire at any moment,   *)
(* and fires in the end.                                                   *)
(***************************************************************************)
EXTENDS Integers

CONSTANTS
  MaxMessages,       \* bound: client messages
  MaxLines           \* bound: server lines

ASSUME LifecycleAssumption == MaxMessages \in Nat /\ MaxLines \in Nat

VARIABLES
  \* the child and its stdout
  alive, exitErr, killed,  \* running; its exit status is an error; was sent Kill
  writers,                 \* the processes holding the write end of stdout
  produced, buffered,      \* lines written to stdout; those not yet read
  serverReads,             \* the child reads its stdin
  \* the client
  arriving, arrived,       \* messages not yet read by the proxy; all ever sent
  clientUp, clientReads,
  \* the goroutines' next steps
  mainPc, inputPc, waiterPc, killerPc,
  \* what they share
  serverOutOpen, serverInOpen, inOpen,      \* descriptors
  outputDone, inputDone, drainTimedOut,     \* closed channels
  inputFailure,                             \* a value waits in the channel
  waited,                                   \* "empty", "ok" or "err"
  \* what main found
  delivered, outputErr, waitErr, result,
  \* given: the session's input is an io.Closer
  closable

childVars  == <<alive, exitErr, writers>>
outVars    == <<produced, buffered>>
clientVars == <<arriving, arrived, clientUp, clientReads>>
chanVars   == <<outputDone, inputDone, drainTimedOut, inputFailure, waited>>
fdVars     == <<serverOutOpen, serverInOpen, inOpen>>
foundVars  == <<delivered, outputErr, waitErr, result>>
vars == <<childVars, killed, outVars, serverReads, clientVars, mainPc, inputPc,
          waiterPc, killerPc, chanVars, fdVars, foundVars, closable>>

Init ==
  /\ alive = TRUE /\ exitErr = FALSE /\ killed = FALSE
  /\ writers = {"child", "descendant"}  \* either may close its end at any time
  /\ produced = 0 /\ buffered = 0 /\ serverReads = TRUE
  /\ arriving = 0 /\ arrived = 0 /\ clientUp = TRUE /\ clientReads = TRUE
  /\ mainPc = "pump" /\ inputPc = "read" /\ waiterPc = "wait" /\ killerPc = "await"
  /\ serverOutOpen = TRUE /\ serverInOpen = TRUE /\ inOpen = TRUE
  /\ outputDone = FALSE /\ inputDone = FALSE /\ drainTimedOut = FALSE
  /\ inputFailure = FALSE /\ waited = "empty"
  /\ delivered = 0 /\ outputErr = "none" /\ waitErr = FALSE /\ result = "none"
  /\ closable \in BOOLEAN

-----------------------------------------------------------------------------
\* The child, the client and the operating system.

Exits(status) ==
  /\ alive
  /\ alive' = FALSE /\ exitErr' = status /\ writers' = writers \ {"child"}
  /\ UNCHANGED <<killed, outVars, serverReads, clientVars, mainPc, inputPc,
                 waiterPc, killerPc, chanVars, fdVars, foundVars, closable>>
ServerExits == \E status \in BOOLEAN : Exits(status)
Dies == killed /\ Exits(TRUE)

ServerEmits ==
  /\ writers # {} /\ produced < MaxLines
  /\ produced' = produced + 1 /\ buffered' = buffered + 1
  /\ UNCHANGED <<childVars, killed, serverReads, clientVars, mainPc, inputPc,
                 waiterPc, killerPc, chanVars, fdVars, foundVars, closable>>

ClosesStdout(w) ==
  /\ w \in writers /\ writers' = writers \ {w}
  /\ UNCHANGED <<alive, exitErr, killed, outVars, serverReads, clientVars, mainPc,
                 inputPc, waiterPc, killerPc, chanVars, fdVars, foundVars, closable>>

ServerStopsReading ==
  /\ serverReads /\ serverReads' = FALSE
  /\ UNCHANGED <<childVars, killed, outVars, clientVars, mainPc, inputPc, waiterPc,
                 killerPc, chanVars, fdVars, foundVars, closable>>

Client ==
  /\ \/ /\ clientUp /\ arrived < MaxMessages
        /\ arriving' = arriving + 1 /\ arrived' = arrived + 1
        /\ UNCHANGED <<clientUp, clientReads>>
     \/ clientUp /\ clientUp' = FALSE /\ UNCHANGED <<arriving, arrived, clientReads>>
     \/ clientReads /\ clientReads' = FALSE /\ UNCHANGED <<arriving, arrived, clientUp>>
  /\ UNCHANGED <<childVars, killed, outVars, serverReads, mainPc, inputPc, waiterPc,
                 killerPc, chanVars, fdVars, foundVars, closable>>

Environment ==
  \/ ServerExits \/ ServerEmits \/ ServerStopsReading \/ Client
  \/ \E w \in writers : ClosesStdout(w)

-----------------------------------------------------------------------------
\* The input goroutine: pump, and what follows its return.

InputStep(step) ==
  /\ inputPc' = step
  /\ UNCHANGED <<childVars, outVars, serverReads, arrived, clientUp, clientReads,
                 mainPc, waiterPc, killerPc, outputDone, drainTimedOut, waited,
                 serverOutOpen, inOpen, foundVars, closable>>

HasInput == inOpen /\ arriving > 0

\* A message is forwarded, held for a human, or too long.
InputReads ==
  /\ inputPc = "read" /\ HasInput
  /\ arriving' = arriving - 1
  /\ \E step \in {"write", "hold", "failed"} : InputStep(step)
  /\ UNCHANGED <<killed, inputDone, inputFailure, serverInOpen>>

InputEnds ==
  /\ inputPc = "read"
  /\ \/ inOpen /\ arriving = 0 /\ ~clientUp /\ InputStep("closing")
     \/ ~inOpen /\ InputStep("failed")
  /\ UNCHANGED <<arriving, killed, inputDone, inputFailure, serverInOpen>>

\* The hold ends in a verdict: the message is forwarded or blocked.
HoldEnds ==
  /\ inputPc = "hold" /\ \E step \in {"write", "read"} : InputStep(step)
  /\ UNCHANGED <<arriving, killed, inputDone, inputFailure, serverInOpen>>

\* The write waits while a live server does not read, and fails without one.
InputWrites ==
  /\ inputPc = "write"
  /\ \/ alive /\ serverReads /\ serverInOpen /\ InputStep("read")
     \/ (~alive \/ ~serverInOpen) /\ InputStep("failed")
  /\ UNCHANGED <<arriving, killed, inputDone, inputFailure, serverInOpen>>

InputFails ==
  /\ inputPc = "failed"
  /\ \/ /\ outputDone /\ InputStep("closing") /\ UNCHANGED inputFailure
     \/ /\ ~outputDone /\ InputStep("kill") /\ inputFailure' = TRUE
  /\ UNCHANGED <<arriving, killed, inputDone, serverInOpen>>

InputKills ==
  /\ inputPc = "kill" /\ killed' = TRUE /\ InputStep("closing")
  /\ UNCHANGED <<arriving, inputDone, inputFailure, serverInOpen>>

InputCloses ==
  /\ inputPc = "closing" /\ InputStep("done")
  /\ serverInOpen' = FALSE /\ inputDone' = TRUE
  /\ UNCHANGED <<arriving, killed, inputFailure>>

Input == InputReads \/ InputEnds \/ HoldEnds \/ InputWrites \/ InputFails
         \/ InputKills \/ InputCloses

-----------------------------------------------------------------------------
\* The waiter: reap the child, then bound the drain of an inherited stdout.

WaiterStep(step) ==
  /\ waiterPc' = step
  /\ UNCHANGED <<childVars, killed, outVars, serverReads, clientVars, mainPc,
                 inputPc, killerPc, outputDone, inputDone, inputFailure,
                 inOpen, foundVars, closable>>

Reap ==
  /\ waiterPc = "wait" /\ ~alive
  /\ waited' = IF exitErr THEN "err" ELSE "ok"
  /\ serverInOpen' = FALSE                   \* Wait closes the stdin pipe
  /\ WaiterStep("drain") /\ UNCHANGED <<drainTimedOut, serverOutOpen>>

\* Fault: the reader is closed before the timeout is noted, and by then it is late.
Expires_ReaderFirst == serverOutOpen' = FALSE /\ UNCHANGED drainTimedOut
Expires == drainTimedOut' = TRUE /\ UNCHANGED serverOutOpen

DrainEnds ==
  /\ waiterPc = "drain"
  /\ \/ /\ outputDone /\ WaiterStep("end") /\ UNCHANGED drainTimedOut
        /\ UNCHANGED serverOutOpen
     \/ Expires /\ WaiterStep("expire")
  /\ UNCHANGED <<waited, serverInOpen>>

\* Fault: the timeout is noted but the reader is not released.
ClosesReader_Never == serverOutOpen' = serverOutOpen
ClosesReader == serverOutOpen' = FALSE

ReleaseReader ==
  /\ waiterPc = "expire" /\ ClosesReader /\ WaiterStep("end")
  /\ UNCHANGED <<waited, drainTimedOut, serverInOpen>>

Waiter == Reap \/ DrainEnds \/ ReleaseReader

-----------------------------------------------------------------------------
\* The grace killer.

KillerStep(step) ==
  /\ killerPc' = step
  /\ UNCHANGED <<childVars, outVars, serverReads, clientVars, mainPc, inputPc,
                 waiterPc, chanVars, fdVars, foundVars, closable>>

\* Fault: the timer is armed from the start.
Armed_Always == TRUE
Armed == inputDone

KillerWakes ==
  /\ killerPc = "await"
  /\ (outputDone /\ KillerStep("end")) \/ (Armed /\ KillerStep("timer"))
  /\ UNCHANGED killed

KillerTimer ==
  /\ killerPc = "timer" /\ KillerStep("end")
  /\ (outputDone /\ UNCHANGED killed) \/ killed' = TRUE

Killer == KillerWakes \/ KillerTimer

-----------------------------------------------------------------------------
\* Main: the output pump, then the end of run.

MainStep(step) ==
  /\ mainPc' = step
  /\ UNCHANGED <<childVars, produced, serverReads, clientVars, inputPc, waiterPc,
                 killerPc, inputDone, drainTimedOut, inputFailure, closable>>

EndsWithError(cause) == outputErr' = cause /\ MainStep("ended")

OutputReads ==
  /\ mainPc = "pump"
  /\ \/ /\ serverOutOpen /\ buffered > 0 /\ buffered' = buffered - 1
        /\ \/ MainStep("deliver") /\ UNCHANGED outputErr
           \/ EndsWithError("failed")             \* longer than maxMessageBytes
     \/ /\ serverOutOpen /\ buffered = 0 /\ writers = {} /\ MainStep("ended")
        /\ UNCHANGED <<buffered, outputErr>>
     \/ ~serverOutOpen /\ EndsWithError("closed") /\ UNCHANGED buffered
  /\ UNCHANGED <<killed, fdVars, outputDone, waited, delivered, waitErr, result>>

Deliver ==
  /\ mainPc = "deliver"
  /\ \/ /\ clientReads /\ delivered' = delivered + 1 /\ MainStep("pump")
        /\ UNCHANGED outputErr
     \/ ~clientReads /\ EndsWithError("failed") /\ UNCHANGED delivered
  /\ UNCHANGED <<killed, buffered, fdVars, outputDone, waited, waitErr, result>>

EndOutput ==
  /\ mainPc = "ended" /\ outputDone' = TRUE /\ MainStep("release")
  /\ UNCHANGED <<killed, buffered, fdVars, waited, foundVars>>

\* Fault: the input is left open, so a goroutine reading it stays.
Interrupts_Never == UNCHANGED inOpen
Interrupts == inOpen' = (inOpen /\ ~closable)

\* Kill a server whose output failed; interrupt the input if it can be closed.
ReleaseInput ==
  /\ mainPc = "release" /\ MainStep("reap")
  /\ killed' = (killed \/ outputErr # "none")
  /\ Interrupts
  /\ UNCHANGED <<buffered, serverOutOpen, serverInOpen, outputDone, waited, foundVars>>

\* Fault: run does not wait for the child a second time after killing it.
AfterGrace_Leaves == "result"
AfterGrace == "wait"

TakeStatus ==
  /\ mainPc \in {"reap", "wait"} /\ waited # "empty"
  /\ waitErr' = (waited = "err") /\ waited' = "empty" /\ MainStep("result")
  /\ UNCHANGED <<killed, buffered, fdVars, outputDone, delivered, outputErr, result>>

GraceKill ==
  /\ mainPc = "reap" /\ killed' = TRUE /\ MainStep(AfterGrace)
  /\ UNCHANGED <<buffered, fdVars, outputDone, waited, foundVars>>

\* Fault: the child's status is not looked at.
Result_IgnoresStatus ==
  IF outputErr # "none" THEN "output" ELSE IF inputFailure THEN "input" ELSE "nil"

Result ==
  IF outputErr # "none" THEN IF drainTimedOut THEN "waitDelay" ELSE "output"
  ELSE IF inputFailure THEN "input" ELSE IF waitErr THEN "wait" ELSE "nil"

\* The result, and the deferred cleanup.
Return ==
  /\ mainPc = "result" /\ MainStep("returned")
  /\ result' = Result
  /\ serverInOpen' = FALSE /\ serverOutOpen' = FALSE /\ killed' = TRUE
  /\ UNCHANGED <<buffered, inOpen, outputDone, waited, delivered, outputErr, waitErr>>

Main == OutputReads \/ Deliver \/ EndOutput \/ ReleaseInput \/ TakeStatus
        \/ GraceKill \/ Return

Next == Environment \/ Dies \/ Input \/ Waiter \/ Killer \/ Main

Spec == Init /\ [][Next]_vars

\* The goroutines are scheduled, an armed timer fires, a killed child dies, a
\* held call gets its verdict and a write to the client returns.  Nothing is
\* assumed of a child that was not killed nor of a connected client.
FairSpec == /\ Spec
            /\ WF_vars(Dies) /\ WF_vars(Input) /\ WF_vars(Waiter)
            /\ WF_vars(Killer) /\ WF_vars(Main)

-----------------------------------------------------------------------------
FlagsOK ==
  /\ alive \in BOOLEAN /\ exitErr \in BOOLEAN /\ killed \in BOOLEAN
  /\ serverReads \in BOOLEAN /\ clientUp \in BOOLEAN /\ clientReads \in BOOLEAN
  /\ serverOutOpen \in BOOLEAN /\ serverInOpen \in BOOLEAN /\ inOpen \in BOOLEAN
  /\ outputDone \in BOOLEAN /\ inputDone \in BOOLEAN /\ drainTimedOut \in BOOLEAN
  /\ inputFailure \in BOOLEAN /\ waitErr \in BOOLEAN /\ closable \in BOOLEAN

TypeOK ==
  /\ FlagsOK /\ outputErr \in {"none", "failed", "closed"}
  /\ writers \subseteq {"child", "descendant"}
  /\ produced \in 0..MaxLines /\ buffered \in Nat /\ delivered \in Nat
  /\ arriving \in 0..arrived /\ arrived \in 0..MaxMessages
  /\ mainPc \in {"pump", "deliver", "ended", "release", "reap", "wait", "result",
                 "returned"}
  /\ inputPc \in {"read", "hold", "write", "failed", "kill", "closing", "done"}
  /\ waiterPc \in {"wait", "drain", "expire", "end"}
  /\ killerPc \in {"await", "timer", "end"}
  /\ waited \in {"empty", "ok", "err"}
  /\ result \in {"none", "nil", "input", "output", "wait", "waitDelay"}

\* run never leaves a child behind: it returns only after the process was reaped,
\* whichever of the five ways to end came first.
ReapedBeforeReturn == mainPc = "returned" => ~alive /\ waiterPc # "wait"

\* A nil result means a clean session: the child exited with success on its own
\* account and every line it wrote before was delivered.
CleanMeansComplete ==
  result = "nil" => ~exitErr /\ buffered = 0 /\ delivered = produced

\* A session whose client is connected, whose messages go through and whose
\* output still flows is never killed by a timer or a late goroutine.
HealthyNotKilled ==
  killed => inputDone \/ inputFailure \/ outputDone

\* A pump that lost its reader to the expired drain is never reported as a failed
\* delivery: the caller sees exec.ErrWaitDelay.
DrainIsTold ==
  mainPc = "returned" /\ outputErr = "closed" => result = "waitDelay"

\* A session ends once its server has: with the child gone, or its stdout closed,
\* or its output broken, whatever a descendant holds open and whatever the input
\* goroutine is waiting for; and once its client has closed its input, provided
\* the server goes on reading its stdin: a write it does not take keeps the input
\* goroutine from ever seeing the end of the client's input.
EitherEndResolves ==
  /\ (~alive \/ writers = {} \/ outputErr # "none") ~> (mainPc = "returned")
  /\ []serverReads => (~clientUp ~> (mainPc = "returned"))

\* Nothing run started outlives it for ever, given an input that can be closed.
GoroutinesEnd ==
  (mainPc = "returned") ~> (/\ waiterPc = "end" /\ killerPc = "end"
                            /\ closable => inputPc = "done")
=============================================================================
