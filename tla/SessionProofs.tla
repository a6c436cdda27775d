--------------------------- MODULE SessionProofs ---------------------------
(***************************************************************************)
(* Theorems about SessionLifecycle, for any number of messages and lines.  *)
(* The invariant ties each goroutine's step to what the others can rely    *)
(* on: the channels it closed before, the status it put there, the lines   *)
(* that are accounted for.                                                 *)
(***************************************************************************)
EXTENDS SessionLifecycle, TLAPS

\* The pump has returned; outputDone is closed.
PumpOver  == mainPc \notin {"pump", "deliver"}
PastDone  == mainPc \in {"release", "reap", "wait", "result", "returned"}
PastReap  == mainPc \in {"result", "returned"}
InHand    == IF mainPc = "deliver" THEN 1 ELSE 0

\* Every line written is delivered, in hand, still in the pipe, or was lost to an
\* error; a pump that ended without one found the pipe empty and nobody to fill it.
LinesAccounted ==
  /\ delivered + buffered + InHand <= produced
  /\ outputErr = "none" => delivered + buffered + InHand = produced
  /\ PumpOver /\ outputErr = "none" => writers = {} /\ buffered = 0
  /\ ~PumpOver => outputErr = "none"

\* The status in the channel, and main's copy of it, are those of the dead child.
StatusIsTrue ==
  /\ waiterPc # "wait" => ~alive
  /\ waited # "empty" => waiterPc # "wait" /\ (waited = "err" <=> exitErr)
  /\ PastReap => waiterPc # "wait" /\ (waitErr <=> exitErr)

\* What each step that may kill has seen.
KillersSaw ==
  /\ inputPc = "kill" => inputFailure
  /\ killerPc = "timer" => inputDone
  /\ PastDone => outputDone

\* The reader is only ever closed under main by a drain that was noted before.
ReaderSaw ==
  /\ waiterPc = "expire" => drainTimedOut
  /\ ~serverOutOpen /\ mainPc # "returned" => drainTimedOut
  /\ outputErr = "closed" => drainTimedOut

ResultIsTrue ==
  /\ result # "none" => mainPc = "returned"
  /\ result = "nil" => outputErr = "none" /\ ~waitErr

SessionInv ==
  /\ TypeOK /\ LinesAccounted /\ StatusIsTrue /\ KillersSaw /\ ReaderSaw
  /\ ResultIsTrue /\ HealthyNotKilled /\ DrainIsTold

-----------------------------------------------------------------------------
\* Typing, one variable at a time.
LEMMA FlagsOKStep ==
  ASSUME FlagsOK, [Next]_vars
  PROVE  FlagsOK'
<1> USE DEF FlagsOK, Next, vars, childVars, outVars, clientVars, chanVars, fdVars, foundVars,
        Environment, ServerExits, ServerEmits, ServerStopsReading, Client, ClosesStdout,
        Exits, Dies, Input, InputReads, InputEnds, HoldEnds, InputWrites, InputFails,
        InputKills, InputCloses, InputStep, HasInput, Waiter, Reap, DrainEnds,
        ReleaseReader, WaiterStep, Expires, ClosesReader, Killer, KillerWakes,
        KillerTimer, KillerStep, Armed, Main, OutputReads, Deliver, EndOutput,
        ReleaseInput, TakeStatus, GraceKill, Return, MainStep, EndsWithError,
        Interrupts, AfterGrace, Result
<1>1. alive' \in BOOLEAN  OBVIOUS
<1>2. exitErr' \in BOOLEAN  OBVIOUS
<1>3. killed' \in BOOLEAN  OBVIOUS
<1>4. serverReads' \in BOOLEAN  OBVIOUS
<1>5. clientUp' \in BOOLEAN  OBVIOUS
<1>6. clientReads' \in BOOLEAN  OBVIOUS
<1>7. serverOutOpen' \in BOOLEAN  OBVIOUS
<1>8. serverInOpen' \in BOOLEAN  OBVIOUS
<1>9. inOpen' \in BOOLEAN  OBVIOUS
<1>10. outputDone' \in BOOLEAN  OBVIOUS
<1>11. inputDone' \in BOOLEAN  OBVIOUS
<1>12. drainTimedOut' \in BOOLEAN  OBVIOUS
<1>13. inputFailure' \in BOOLEAN  OBVIOUS
<1>14. waitErr' \in BOOLEAN  OBVIOUS
<1>15. closable' \in BOOLEAN  OBVIOUS
<1> QED BY <1>1, <1>2, <1>3, <1>4, <1>5, <1>6, <1>7, <1>8, <1>9, <1>10, <1>11, <1>12,
      <1>13, <1>14, <1>15

LEMMA TypeOKStep ==
  ASSUME TypeOK, [Next]_vars
  PROVE  TypeOK'
<1> USE LifecycleAssumption, FlagsOKStep
    DEF TypeOK, Next, vars, childVars, outVars, clientVars, chanVars, fdVars, foundVars,
        Environment, ServerExits, ServerEmits, ServerStopsReading, Client, ClosesStdout,
        Exits, Dies, Input, InputReads, InputEnds, HoldEnds, InputWrites, InputFails,
        InputKills, InputCloses, InputStep, HasInput, Waiter, Reap, DrainEnds,
        ReleaseReader, WaiterStep, Expires, ClosesReader, Killer, KillerWakes,
        KillerTimer, KillerStep, Armed, Main, OutputReads, Deliver, EndOutput,
        ReleaseInput, TakeStatus, GraceKill, Return, MainStep, EndsWithError,
        Interrupts, AfterGrace, Result
<1>1. outputErr' \in {"none", "failed", "closed"}
  OBVIOUS
<1>2. writers' \subseteq {"child", "descendant"}
  OBVIOUS
<1>3. produced' \in 0..MaxLines /\ buffered' \in Nat /\ delivered' \in Nat
  OBVIOUS
<1>4. arriving' \in 0..arrived' /\ arrived' \in 0..MaxMessages
  OBVIOUS
<1>5. mainPc' \in {"pump", "deliver", "ended", "release", "reap", "wait", "result",
      "returned"}
  OBVIOUS
<1>6. inputPc' \in {"read", "hold", "write", "failed", "kill", "closing", "done"}
  OBVIOUS
<1>7. /\ waiterPc' \in {"wait", "drain", "expire", "end"}
      /\ killerPc' \in {"await", "timer", "end"}
  OBVIOUS
<1>8. waited' \in {"empty", "ok", "err"}
  OBVIOUS
<1>9. result' \in {"none", "nil", "input", "output", "wait", "waitDelay"}
  OBVIOUS
<1>10. FlagsOK'
  OBVIOUS
<1> QED BY <1>1, <1>2, <1>3, <1>4, <1>5, <1>6, <1>7, <1>8, <1>9, <1>10

\* Each part of the invariant, goroutine by goroutine.
LEMMA LinesAccountedStep ==
  ASSUME TypeOK, LinesAccounted, [Next]_vars
  PROVE  LinesAccounted'
<1> USE LifecycleAssumption
    DEF TypeOK, LinesAccounted, PumpOver, InHand, childVars, outVars, clientVars,
        chanVars, fdVars, foundVars
<1>1. CASE Environment
  <2>1. CASE ServerExits
    BY <2>1 DEF ServerExits, Exits
  <2>2. CASE ServerEmits
    <3>1. InHand' = InHand /\ InHand \in Nat /\ (PumpOver' <=> PumpOver)
      BY <2>2 DEF ServerEmits
    <3>2. /\ produced' = produced + 1 /\ buffered' = buffered + 1
          /\ UNCHANGED <<delivered, outputErr, writers>> /\ writers # {}
      BY <2>2 DEF ServerEmits
    <3> HIDE DEF InHand, PumpOver
    <3>3. /\ delivered' + buffered' + InHand' <= produced'
          /\ outputErr' = "none" => delivered' + buffered' + InHand' = produced'
      BY <3>1, <3>2
    <3> QED BY <3>1, <3>2, <3>3
  <2>3. CASE ServerStopsReading
    BY <2>3 DEF ServerStopsReading
  <2>4. CASE Client
    BY <2>4 DEF Client
  <2>5. CASE \E w \in writers : ClosesStdout(w)
    BY <2>5 DEF ClosesStdout
  <2> QED BY <1>1, <2>1, <2>2, <2>3, <2>4, <2>5 DEF Environment
<1>2. CASE Dies
  BY <1>2 DEF Dies, Exits
<1>3. CASE Input
  BY <1>3
     DEF Input, InputReads, InputEnds, HoldEnds, InputWrites, InputFails, InputKills,
         InputCloses, InputStep, HasInput
<1>4. CASE Waiter
  BY <1>4 DEF Waiter, Reap, DrainEnds, ReleaseReader, WaiterStep, Expires, ClosesReader
<1>5. CASE Killer
  BY <1>5 DEF Killer, KillerWakes, KillerTimer, KillerStep, Armed
<1>6. CASE Main
  <2>1. CASE OutputReads
    <3> USE <2>1 DEF OutputReads, MainStep, EndsWithError
    <3>1. ~PumpOver /\ InHand = 0 /\ outputErr = "none"
      OBVIOUS
    <3>2. CASE mainPc' = "deliver"
      BY <3>1, <3>2
    <3>3. CASE mainPc' = "ended" /\ outputErr' = "none"
      BY <3>1, <3>3
    <3>4. CASE mainPc' = "ended" /\ outputErr' # "none"
      BY <3>1, <3>4
    <3> QED BY <3>2, <3>3, <3>4
  <2>2. CASE Deliver
    BY <2>2 DEF Deliver, MainStep, EndsWithError
  <2>3. CASE EndOutput
    BY <2>3 DEF EndOutput, MainStep
  <2>4. CASE ReleaseInput
    BY <2>4 DEF ReleaseInput, MainStep, Interrupts
  <2>5. CASE TakeStatus
    BY <2>5 DEF TakeStatus, MainStep
  <2>6. CASE GraceKill
    BY <2>6 DEF GraceKill, MainStep, AfterGrace
  <2>7. CASE Return
    BY <2>7 DEF Return, MainStep, Result
  <2> QED BY <1>6, <2>1, <2>2, <2>3, <2>4, <2>5, <2>6, <2>7 DEF Main
<1>7. CASE UNCHANGED vars
  BY <1>7 DEF vars
<1> QED BY <1>1, <1>2, <1>3, <1>4, <1>5, <1>6, <1>7 DEF Next

LEMMA StatusIsTrueStep ==
  ASSUME TypeOK, StatusIsTrue, [Next]_vars
  PROVE  StatusIsTrue'
<1> USE
    DEF TypeOK, StatusIsTrue, PastReap, childVars, outVars, clientVars, chanVars,
        fdVars, foundVars
<1>1. CASE Environment
  BY <1>1
     DEF Environment, ServerExits, ServerEmits, ServerStopsReading, Client,
         ClosesStdout, Exits
<1>2. CASE Dies
  BY <1>2 DEF Dies, Exits
<1>3. CASE Input
  BY <1>3
     DEF Input, InputReads, InputEnds, HoldEnds, InputWrites, InputFails, InputKills,
         InputCloses, InputStep, HasInput
<1>4. CASE Waiter
  BY <1>4 DEF Waiter, Reap, DrainEnds, ReleaseReader, WaiterStep, Expires, ClosesReader
<1>5. CASE Killer
  BY <1>5 DEF Killer, KillerWakes, KillerTimer, KillerStep, Armed
<1>6. CASE Main
  <2>1. CASE OutputReads
    BY <2>1 DEF OutputReads, MainStep, EndsWithError
  <2>2. CASE Deliver
    BY <2>2 DEF Deliver, MainStep, EndsWithError
  <2>3. CASE EndOutput
    BY <2>3 DEF EndOutput, MainStep
  <2>4. CASE ReleaseInput
    BY <2>4 DEF ReleaseInput, MainStep, Interrupts
  <2>5. CASE TakeStatus
    BY <2>5 DEF TakeStatus, MainStep
  <2>6. CASE GraceKill
    BY <2>6 DEF GraceKill, MainStep, AfterGrace
  <2>7. CASE Return
    BY <2>7 DEF Return, MainStep, Result
  <2> QED BY <1>6, <2>1, <2>2, <2>3, <2>4, <2>5, <2>6, <2>7 DEF Main
<1>7. CASE UNCHANGED vars
  BY <1>7 DEF vars
<1> QED BY <1>1, <1>2, <1>3, <1>4, <1>5, <1>6, <1>7 DEF Next

LEMMA KillersSawStep ==
  ASSUME TypeOK, KillersSaw, [Next]_vars
  PROVE  KillersSaw'
<1> USE
    DEF TypeOK, KillersSaw, PastDone, childVars, outVars, clientVars, chanVars, fdVars,
        foundVars
<1>1. CASE Environment
  BY <1>1
     DEF Environment, ServerExits, ServerEmits, ServerStopsReading, Client,
         ClosesStdout, Exits
<1>2. CASE Dies
  BY <1>2 DEF Dies, Exits
<1>3. CASE Input
  BY <1>3
     DEF Input, InputReads, InputEnds, HoldEnds, InputWrites, InputFails, InputKills,
         InputCloses, InputStep, HasInput
<1>4. CASE Waiter
  BY <1>4 DEF Waiter, Reap, DrainEnds, ReleaseReader, WaiterStep, Expires, ClosesReader
<1>5. CASE Killer
  BY <1>5 DEF Killer, KillerWakes, KillerTimer, KillerStep, Armed
<1>6. CASE Main
  BY <1>6
     DEF Main, OutputReads, Deliver, EndOutput, ReleaseInput, TakeStatus, GraceKill,
         Return, MainStep, EndsWithError, Interrupts, AfterGrace, Result
<1>7. CASE UNCHANGED vars
  BY <1>7 DEF vars
<1> QED BY <1>1, <1>2, <1>3, <1>4, <1>5, <1>6, <1>7 DEF Next

LEMMA ReaderSawStep ==
  ASSUME TypeOK, ReaderSaw, [Next]_vars
  PROVE  ReaderSaw'
<1> USE
    DEF TypeOK, ReaderSaw, childVars, outVars, clientVars, chanVars, fdVars, foundVars
<1>1. CASE Environment
  BY <1>1
     DEF Environment, ServerExits, ServerEmits, ServerStopsReading, Client,
         ClosesStdout, Exits
<1>2. CASE Dies
  BY <1>2 DEF Dies, Exits
<1>3. CASE Input
  BY <1>3
     DEF Input, InputReads, InputEnds, HoldEnds, InputWrites, InputFails, InputKills,
         InputCloses, InputStep, HasInput
<1>4. CASE Waiter
  BY <1>4 DEF Waiter, Reap, DrainEnds, ReleaseReader, WaiterStep, Expires, ClosesReader
<1>5. CASE Killer
  BY <1>5 DEF Killer, KillerWakes, KillerTimer, KillerStep, Armed
<1>6. CASE Main
  BY <1>6
     DEF Main, OutputReads, Deliver, EndOutput, ReleaseInput, TakeStatus, GraceKill,
         Return, MainStep, EndsWithError, Interrupts, AfterGrace, Result
<1>7. CASE UNCHANGED vars
  BY <1>7 DEF vars
<1> QED BY <1>1, <1>2, <1>3, <1>4, <1>5, <1>6, <1>7 DEF Next

LEMMA ResultIsTrueStep ==
  ASSUME TypeOK, ResultIsTrue, [Next]_vars
  PROVE  ResultIsTrue'
<1> USE
    DEF TypeOK, ResultIsTrue, childVars, outVars, clientVars, chanVars, fdVars,
        foundVars
<1>1. CASE Environment
  BY <1>1
     DEF Environment, ServerExits, ServerEmits, ServerStopsReading, Client,
         ClosesStdout, Exits
<1>2. CASE Dies
  BY <1>2 DEF Dies, Exits
<1>3. CASE Input
  BY <1>3
     DEF Input, InputReads, InputEnds, HoldEnds, InputWrites, InputFails, InputKills,
         InputCloses, InputStep, HasInput
<1>4. CASE Waiter
  BY <1>4 DEF Waiter, Reap, DrainEnds, ReleaseReader, WaiterStep, Expires, ClosesReader
<1>5. CASE Killer
  BY <1>5 DEF Killer, KillerWakes, KillerTimer, KillerStep, Armed
<1>6. CASE Main
  BY <1>6
     DEF Main, OutputReads, Deliver, EndOutput, ReleaseInput, TakeStatus, GraceKill,
         Return, MainStep, EndsWithError, Interrupts, AfterGrace, Result
<1>7. CASE UNCHANGED vars
  BY <1>7 DEF vars
<1> QED BY <1>1, <1>2, <1>3, <1>4, <1>5, <1>6, <1>7 DEF Next

LEMMA HealthyNotKilledStep ==
  ASSUME TypeOK, KillersSaw, HealthyNotKilled, [Next]_vars
  PROVE  HealthyNotKilled'
<1> USE
    DEF TypeOK, HealthyNotKilled, KillersSaw, PastDone, childVars, outVars, clientVars,
        chanVars, fdVars, foundVars
<1>1. CASE Environment
  BY <1>1
     DEF Environment, ServerExits, ServerEmits, ServerStopsReading, Client,
         ClosesStdout, Exits
<1>2. CASE Dies
  BY <1>2 DEF Dies, Exits
<1>3. CASE Input
  BY <1>3
     DEF Input, InputReads, InputEnds, HoldEnds, InputWrites, InputFails, InputKills,
         InputCloses, InputStep, HasInput
<1>4. CASE Waiter
  BY <1>4 DEF Waiter, Reap, DrainEnds, ReleaseReader, WaiterStep, Expires, ClosesReader
<1>5. CASE Killer
  BY <1>5 DEF Killer, KillerWakes, KillerTimer, KillerStep, Armed
<1>6. CASE Main
  BY <1>6
     DEF Main, OutputReads, Deliver, EndOutput, ReleaseInput, TakeStatus, GraceKill,
         Return, MainStep, EndsWithError, Interrupts, AfterGrace, Result
<1>7. CASE UNCHANGED vars
  BY <1>7 DEF vars
<1> QED BY <1>1, <1>2, <1>3, <1>4, <1>5, <1>6, <1>7 DEF Next

LEMMA DrainIsToldStep ==
  ASSUME TypeOK, ReaderSaw, DrainIsTold, [Next]_vars
  PROVE  DrainIsTold'
<1> USE
    DEF TypeOK, DrainIsTold, ReaderSaw, childVars, outVars, clientVars, chanVars,
        fdVars, foundVars
<1>1. CASE Environment
  BY <1>1
     DEF Environment, ServerExits, ServerEmits, ServerStopsReading, Client,
         ClosesStdout, Exits
<1>2. CASE Dies
  BY <1>2 DEF Dies, Exits
<1>3. CASE Input
  BY <1>3
     DEF Input, InputReads, InputEnds, HoldEnds, InputWrites, InputFails, InputKills,
         InputCloses, InputStep, HasInput
<1>4. CASE Waiter
  BY <1>4 DEF Waiter, Reap, DrainEnds, ReleaseReader, WaiterStep, Expires, ClosesReader
<1>5. CASE Killer
  BY <1>5 DEF Killer, KillerWakes, KillerTimer, KillerStep, Armed
<1>6. CASE Main
  BY <1>6
     DEF Main, OutputReads, Deliver, EndOutput, ReleaseInput, TakeStatus, GraceKill,
         Return, MainStep, EndsWithError, Interrupts, AfterGrace, Result
<1>7. CASE UNCHANGED vars
  BY <1>7 DEF vars
<1> QED BY <1>1, <1>2, <1>3, <1>4, <1>5, <1>6, <1>7 DEF Next

LEMMA SessionInvInit == Init => SessionInv
<1> USE LifecycleAssumption DEF Init
<1>1. Init => TypeOK
  <2>1. Init => FlagsOK
    BY DEF FlagsOK
  <2> QED BY <2>1 DEF TypeOK
<1>2. Init => LinesAccounted
  BY DEF LinesAccounted, PumpOver, InHand
<1>3. Init => StatusIsTrue /\ KillersSaw /\ ReaderSaw /\ ResultIsTrue
  BY DEF StatusIsTrue, KillersSaw, ReaderSaw, ResultIsTrue, PastDone, PastReap
<1>4. Init => HealthyNotKilled /\ DrainIsTold
  BY DEF HealthyNotKilled, DrainIsTold
<1> QED BY <1>1, <1>2, <1>3, <1>4 DEF SessionInv

LEMMA SessionInvariant == Spec => []SessionInv
<1>1. SessionInv /\ [Next]_vars => SessionInv'
  BY TypeOKStep, LinesAccountedStep, StatusIsTrueStep, KillersSawStep, ReaderSawStep,
     ResultIsTrueStep, HealthyNotKilledStep, DrainIsToldStep DEF SessionInv
<1> QED BY SessionInvInit, <1>1, PTL DEF Spec

\* Every reachable state is well typed.
THEOREM SessionTypeCorrect == Spec => []TypeOK
BY SessionInvariant, PTL DEF SessionInv

\* run returns only after its child was reaped (TakeStatus waits for the status).
THEOREM RunReapsItsChild == Spec => []ReapedBeforeReturn
<1>1. SessionInv => ReapedBeforeReturn
  BY DEF SessionInv, StatusIsTrue, PastReap, ReapedBeforeReturn
<1> QED BY SessionInvariant, <1>1, PTL

\* A nil result means that the child succeeded and all it wrote was delivered.
THEOREM NilMeansComplete == Spec => []CleanMeansComplete
<1>1. SessionInv => CleanMeansComplete
  BY LifecycleAssumption
     DEF SessionInv, TypeOK, LinesAccounted, StatusIsTrue, ResultIsTrue, PumpOver,
         PastReap, InHand, CleanMeansComplete
<1> QED BY SessionInvariant, <1>1, PTL

\* Nothing kills a child whose session still works.
THEOREM NobodyKillsAHealthySession == Spec => []HealthyNotKilled
BY SessionInvariant, PTL DEF SessionInv

\* A reader lost to the expired drain is reported as exec.ErrWaitDelay.
THEOREM TheDrainIsTold == Spec => []DrainIsTold
BY SessionInvariant, PTL DEF SessionInv
=============================================================================
