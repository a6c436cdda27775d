# Ganimedes: a TLA+ model of the gateway

Ganimedes (Go, `internal/`) is a gateway between an MCP client and one wrapped
MCP server. It reads newline-delimited JSON-RPC in both directions, lets a policy
decide what becomes of every `tools/call`, holds some calls for a human, and seals
what happened in a signed, hash-chained log. This directory models the parts of
it that keep state or run concurrently, checks them with TLC on small instances
and proves some of their properties for all instances with TLAPS.

```
tlc -config gateway_honest.cfg MCGateway.tla     # a run: <run>.cfg with its MC module
tlapm GatewayProofs.tla                          # the proofs
```

`PROJECT.json` lists every run, the source lines behind every definition, and for
every checked property one mutation of the code (an operator `<of>_<fault>` beside
the definition it would replace, its comment starting with "Fault:") that the
property is known to catch.

## 1. Inventory

| Component | State | Operations | What makes it correct |
|---|---|---|---|
| policy engine (`policy/policy.go`) | two sets, fixed | `Decide`, `HasRules` | deny wins over approval; default allow |
| proxy core (`proxy/proxy.go`, `proxy/request.go`) | pending table, client stream, positions of two goroutines | `pump` (two), `inspectRequest`, `handleApproval`, `remember`, `recordResponse`, `blockCall`, `blockBatch` | blocked calls never reach the server; one fate per message; a record pairs a call with its own answer; the table stays in its limits |
| session lifecycle (`run` in `proxy/proxy.go`) | the child, five channels, three descriptors, two timers | the end of every goroutine, drain, grace kill, result | child reaped; nil means complete; nothing healthy killed; every end resolves |
| approval page (`approval/approval.go`) | map of pending calls, a channel per call, `done` | `Request`, `resolve`, `handleIndex`, `handleDecision`, `Close` | one decision per call, only a human's own; no handler blocks; the page is current |
| audit chain (`audit/audit.go`, `audit/verify.go`) | the file | sealing, `Verify`, `lastState` | tampering is detected; an untouched log is never accused |
| audit logger (`audit/audit.go`, `audit/lock_*.go`) | inode, lock, `seq`, `prevHash` | `Open`, `Append`, `Close` | one writer per file; one chain per file; a damaged log is not built upon |
| signing keys (`audit/keys.go`) | two files | `LoadOrCreateSigningKey` | what a gateway signs verifies under the key on disk; nothing is overwritten |
| command line (`cli/cli.go`) | what each process holds: key, log, page | `runCommand` and its deferred closes, `verifyCommand`, `resolvePublicKey` | every recorded call stands under its session's header; `verify` never accuses an untouched log |
| scan (`scan/scan.go`) | a child, two pipes, an inventory, a deadline | `Scan`, `scanWithContext`: start, handshake, paging, limits, reaping | an inventory is whole or an error, the error names its cause, the scan ends |
| JSON rules (`proxy/request.go`, `jsoncheck/jsoncheck.go`) | the pending ids | `inspectRequest`, `isResponse`, `idKey`, `batchIDs`, `Validate` | a line two parsers could read differently is refused; an answer finds its own call |
| text rules (`jsoncheck/jsoncheck.go`, `audit/canonical.go`) | a loop's index | `checkSurrogates`, `lessUTF16`, `writeCanonical` | no unpaired surrogate passes; one object has one canonical form |
| configuration (`config/config.go`) | none kept | load, validate | sequential; not modelled |

How they interact. `runCommand` loads the configuration and the key, opens the log,
appends the session header, starts the approval page and calls `Run`; the deferred
closes of page and log run after `Run` is back. Inside `run` four goroutines share
the pending table (a mutex), the stream to the client (a mutex), the log (a mutex
in `Logger`, a file lock between processes) and a handful of channels. The input
goroutine blocks in `Approver.Request` while a human is asked; HTTP handlers
answer it over a channel of capacity one. Several gateways started by one client
share the key files and may share the log file.

What is hard: two goroutines that meet in the table under reused ids; a response
that is delivered before it is recorded; a hold during which the session ends;
click, timer and shutdown racing for one call; a crash between any two file
operations; a history read by path under a lock taken by handle; several first runs
racing for one key pair while `verify` reads it; five ways for a session to end that
race for one result; a scan whose deadline passes while an answer is on its way; a
line that a server reads differently from the gateway. `PROJECT.json` lists each as a
hazard at its line, with the properties that watch it.

## 2. The modules

| Module | Models | Composes |
|---|---|---|
| `PolicyEngine` | `Decide`, `HasRules` | |
| `Gateway` | one session: client, input goroutine, table, output goroutine, log, server | `PolicyEngine` |
| `CallLedger` | abstract: what a session promises about messages | `PolicyEngine`; implemented by `Gateway` |
| `Envelope` | what makes a line a call, a request, a reply or neither, and which answer frees which id | |
| `JsonText` | the surrogate scan and the order of member names | |
| `SessionLifecycle` | the goroutines, pipes, channels and timers of `run`, without contents | |
| `ApprovalServer` | the approval page | |
| `HumanGate` | abstract: what holding a call promises | implemented by `ApprovalServer` |
| `AuditChain` | the format: seal, `Verify`, `lastState`, as pure operators | |
| `AuditLog` | sessions, crashes, half-done writes, an outsider, rotation | `AuditChain` |
| `KeyStore` | the key pair's two files and the gateways that race for them | |
| `Startup` | whole processes: key, log, header, page, traffic and the way back, and `verify` | `KeyStore` |
| `Discovery` | the scan of a paginated server under a deadline | |
| `GatewayProofs`, `FateProofs`, `SessionProofs`, `ApprovalProofs`, `AuditProofs`, `StartupProofs`, `DiscoveryProofs`, `WireProofs` | theorems about the module each is named after (`FateProofs`: the rest of `Gateway`; `StartupProofs`: `KeyStore` too; `WireProofs`: `Envelope` and `JsonText`) | |
| `MCGateway`, `MCApproval`, `MCAudit`, `MCSession`, `MCStartup`, `MCDiscovery`, `MCWire` | the instances TLC runs | `MCWire`: `Envelope`, `JsonText` |

The sessions of `Startup` are those of `AuditLog`, seen from further away: an entry
there is appended whole or not at all. `Envelope` discharges what `Gateway` takes
from a message, its kind and its decoded id.

### Gateway

| Variables | In the code |
|---|---|
| `sent`, `clientUp`, `clientReads`, `delivered` | `in` and `out` of `run` |
| `inPc`, `next`, `verdict` | where the input goroutine is in `pump` and its handler |
| `approved` | history of `Approved` outcomes |
| `calls`, `bytes` | `pending.calls`, `pending.bytes` |
| `forwarded`, `serverOut`, `serverUp` | the child's stdin, stdout and life |
| `outPc`, `line`, `taken` | where the output goroutine is in `pump` and `recordResponse` |
| `log`, `lost` | the entries appended; the appends that failed |
| `phase` | `run` has returned; the log is closed |

An action runs from one access to shared state to the next. The input goroutine is
`Read` (reading, `inspectRequest` and the policy touch nothing shared), then, as
the verdict demands, `HumanApproves`/`HumanRejects`/`HoldTimesOut`, `Remember`,
`Refuse`, `AuditRefusal`, `Forward`. The output goroutine is `OutputReads`,
`Deliver`, `TakePending`, `AppendCompleted`: delivery first, record after, as in
`pump`. A message is its position in `sent`, which stands for its bytes; its `kind`
is the case of `inspectRequest` it falls in; its `id` is what `idKey` returns; its
`size` is what `remember` charges. A server line carries the message it answers as
a ghost, so that a record can be compared with the truth.

`CallLedger` knows no goroutines, ids or tables: a message is passed or refused,
never both; consent precedes passing where the policy asks for it; an entry is
made once and states its message's fate. `ImplementsLedger` maps `Gateway` to it.

### SessionLifecycle

One action per step of the four goroutines between two channel operations: the
input goroutine (`InputReads` to `InputCloses`), the waiter (`Reap`, `DrainEnds`,
`ReleaseReader`), the grace killer (`KillerWakes`, `KillerTimer`) and the body of
`run` (`OutputReads` to `Return`). A descendant of the child may hold its stdout
open. `delivered` and `produced` count lines; contents are `Gateway`'s concern.

### ApprovalServer

`Register`, `TimerFires`, three ways to `Wake`, `Unregister`/`Return` are the
steps of `Request`; `Click`, `RefusedPost`, `ResolveLookup`, `ResolveSend` those of
a POST; `ShowPage` records which calls a page ever listed, so a click may come from
any stale tab. When several cases of a `select` are ready, any may be taken.

### AuditChain and AuditLog

A file is the sequence of writes made to it, each with how much of it arrived
(`whole`, `noLF`, `part`); two writes without a newline between them share a line.
Hashing is ideal (the hash of a content is the content) and a signature cannot be
made without its key. `Verdict` makes `Verify`'s checks in their order. In
`AuditLog` a session is a process: `OpenFile`, `LockFile`, `LastState` are the three
system calls of `Open`, `BeginWrite`/`EndWrite`/`FailWrite` an append that other
processes see half done, `Crash` may come between any two. `Edit` is an outsider
without the key; `MoveAside` is log rotation.

### KeyStore and Startup

One action per file access of `LoadOrCreateSigningKey`: read the private half,
check or restore the public one, or find neither, generate, and publish the two
files with `O_EXCL`, one after the other. Gateways crash, fail to write or to
close, and are started again; an operator may lose the private half or clear away
a file that was never wholly written.

`Startup` puts `runCommand` around it: the key first, then the log (`OpenLog`: the
lock, and a history the key must verify), the session header, the page, the traffic,
and the deferred closes in reverse order (`ClosePage`, `CloseLog`). A gateway may be
killed at any stage, and the input goroutine may still record while it is closing.
`verify` is three steps of its own, since `resolvePublicKey` asks for a file before
it reads it: `StatPublic`, `LoadPublic` or `DerivePublic`, `ReadLog`.

### Discovery

`StartServer`, `Initialize`, `Notify`, `AskPage`, `ReadLine`/`ReadFails`,
`CheckDeadline`, `Cancel`, `Wait` are the steps of `scanWithContext`; `KillChild` and
`AfterExpiry` are what `exec.CommandContext` and scan's own goroutine do when the
context ends. The server has a catalogue (which page leads to which), tells the truth
about it whenever it likes, repeats answers, writes noise, misanswers, exits, or
leaves its stdout to a descendant. `quit` and `faulty` are history: they say whose
fault an error was. `failure` is the error `discover` returns, as far as its text goes:
the limit on what is read is a reader that ends, so using it up is `"ended"`, the same
"server closed its output" as a server that did, while a line too long (`"huge"`) and
a list too long (`"pages"`) are told as such; a write to a dead child (`"broken"`)
differs from one to a pipe that scan closed itself (`"closed"`).

### Envelope and JsonText

A JSON value is a tuple that keeps what parsers differ in: the order and repetition
of members, how a name, a string or a number is spelled. `InspectRequest` follows
`inspectRequest` from `Validate` to the reservation; `RecordResponse` follows
`isResponse` and the lookup. The values are those that nest no deeper than `MaxDepth`,
where `checkValue` gives up and every line is as good as `<<"broken">>`; `Depth` says how
deep each one nests. A `Reader` is any way a peer may read a line: folding the
case of names or not, in every object of the line, taking the first or the last of
duplicates, repairing lossy text or not. `EveryReaderAgrees` says what all of them find
alike in a forwarded line: the method and the id, and in a tool call the tool and the
value taken for the arguments. What that value means is promised to readers who keep
the case of names only: `inspectRequest` refuses its own fields in another case, not
`{"path": ..., "PATH": ...}` among the arguments (`request.go:67`), and a server that
folds case reads those in its own way. A server that rewrites the id of its answer (`Rewritten`) may write
another spelling or the rounded double.

`JsonText` has one action per turn of `checkSurrogates`' loop, and `Insert` for the
names that leave a Go map in any order. Its properties compare both with a
definition that has no loop. `ScanIsExact` is about texts without a backslash outside
strings (`Quoted`): the scan skips that one by itself, where the loop-free definition
counts it, and the decoder that runs next refuses the text.

## 3. What is checked

States are distinct states; every run is exhaustive within its bounds.

| Run | Question | Instance | States |
|---|---|---|---|
| `gateway_any_server` | `PolicyEnforced`, `OneFate`, `RecordedOnce` against a server that may answer anything; `AnswersComplete` with the input goroutine held for ever, `EveryMessageSettled` once it runs | every kind of message, 2 of them, table of 1 entry and 3 bytes, failing disk | 0.8 M |
| `gateway_honest` | `ReservationHeld`, `Attribution`, `RefusalRecordIsTrue`, `ImplementsLedger` with a server that answers each request once; `TableAccounts` with a table that runs out of entries and of bytes | 3 messages on 3 ids, two calls of 3 and 2 bytes and two requests of 1, table of 2 entries and 4 bytes | 4.5 M |
| `approval` | `DeliveryNeverBlocks`, `PageIsCurrent`, `ImplementsGate`, `EveryRequestReturns` | 2 calls, 2 POSTs | 50 k |
| `audit_sessions` | `OneWriter`, `OneChainPerFile`, `NeverAccusesItself`, `DamageStopsTheLog`, `Reopens` | 3 sessions, 2 files, 4 writes in each, symmetric sessions and files | 0.3 M |
| `audit_tampering` | `TamperDetected` | 2 sessions, 3 writes, 2 edits, symmetric sessions and bodies | 1.1 M |
| `session` | `ReapedBeforeReturn`, `CleanMeansComplete`, `HealthyNotKilled`, `DrainIsTold`, `EitherEndResolves`, `GoroutinesEnd` | 1 message, 2 lines, a descendant, input that can or cannot be closed | 0.4 M |
| `startup` | `NeverOrphaned`, `NeverReplaced`, `LogsUnderAnchor`, `VerifyNeverAccuses`, `TrafficUnderItsHeader` | 3 gateways, 3 keys, 2 sessions, 2 logs, 1 port, 3 entries per log, symmetric keys and sessions | 3.6 M |
| `discovery` | `WholeInventory`, `ErrorNamesItsCause`, `ScanEnds`, `AnsweringServerEndsIt` | 3 cursors, 3 pages, 4 lines, a pipe of 1, 1 line of noise | 0.2 M |
| `wire` | `EveryReaderAgrees`, `AnswersFindTheirCall`, `RefusalsNameTheirRequest`, `ScanIsExact`, `OneCanonicalOrder` | every single edit of every shape of message, batches, pairs of calls over 11 alike ids; two strings of up to 4 pieces and every cut of them, and backslashes before a string; sets of up to 3 names of up to 2 points | 0.5 M |

Three more runs end in a counterexample; see section 6.

The bounds, and why they are enough. In `Gateway` the goroutines are two and each
handles one message at a time, so an anomaly involves the message one holds, the
message the other holds and what is in the table: two calls that share an id with a
third request in between is the longest pattern reuse can need, which is why
`gateway_honest` has three messages. Its table of two entries and four bytes refuses
for either limit alone: after the call of size 3 the other, of size 2, has an entry
left but not the bytes; after the two requests it has the bytes but no entry; and
the bytes counted are sums of up to two different charges. The table of one entry of
`gateway_any_server` is full with the first, so that refusals for want of room meet
every server.
One line of noise is enough to collide with any pending id: a response in
`gateway_any_server`, a request of the server's own in `gateway_honest`. `ApprovalServer` has
per-call state only, so two calls show the independence of calls, and two POSTs are
two tabs that race over one call or resolve one each (safety was also run once with
three). In `AuditLog` two sessions can compete for what a third left behind; four
writes hold a header and an entry of two sessions, three a header, an entry and what
follows it. An edit is one write removed, copied, moved, changed or
resealed, and two of them include a swap and a change with a repair.
`SessionLifecycle` counts messages and lines only to tell "none" from "some left".
In `Startup` three gateways are one that serves and two that race, two of them on one
log; two sessions write one after the other in it, three entries being a header, a
call and what follows. In `Discovery` three cursors reach both page limits and a
cycle, four lines reach the limit on lines with one line of noise, and a pipe of one
message makes a server that does not read block the scan. In `MCWire` every edit is
one departure from a well-formed message, which is what the code tells apart one check
at a time, at the line's own members, in `params`, in `error` and in the arguments;
names are plain, escaped, or in one of two other cases, which are no duplicates of
each other; numbers count halves, so that they may be fractional, negative or too
large: `Exact` and `Overflow` stand for 2^53 and the first number beyond all doubles,
with numbers below, at and beyond each; the names of a canonical object lie before, in and after the surrogates' place.
Symmetry is used where a run checks safety only (`audit_*`, `startup`): the
permuted values are interchangeable in the specification and its properties.

Every safety property here is also proved for all values of the constants (section 5);
types are only proved, not run.

Deadlock is not checked: a session, a request and a log may all legitimately come
to their end; what must not stop is stated as liveness.

## 4. Fairness

- `Gateway.FairSpec`: weak fairness of the output goroutine alone. `InputScheduled`,
  a premise of `EveryMessageSettled`, adds the input goroutine and the timer of its
  hold (`handleApproval` always gives one). The human, the client and the server owe
  nothing, and `AnswersComplete` owes nothing to the input goroutine either.
- `ApprovalServer.FairSpec`: callers take what is ready and the HTTP handlers run.
  `EveryRequestReturns` has two halves: with `TimersFire`, every call returns; without
  it, since a configured timeout may be very long, every call returns once the server
  is closed.
- `SessionLifecycle.FairSpec`: the goroutines are scheduled, an armed timer fires
  and a killed process dies. A child that was not killed need do nothing. The second
  half of `EitherEndResolves` has the premise that the child goes on reading its stdin.
- `Discovery.FairSpec`: scan's goroutines are scheduled and a killed child dies.
  `ScanEnds` adds that the deadline passes (`DeadlinePasses`) and asks nothing of the
  server; `AnsweringServerEndsIt` asks the server to read and answer
  (`ServerScheduled`) and nothing of the deadline.

Go schedules every runnable goroutine, and a blocked one is not enabled in the
models, so weak fairness is what the runtime gives. One assumption is not the
runtime's: a write to the client returns. A client that neither reads nor closes
stalls its own session, in the code as well; it is left out of the model.

## 5. What is proved

For every value of the constants that satisfies the modules' assumptions:

| Theorem | Statement |
|---|---|
| `GatewayProofs!TypeCorrect` | `Spec => []TypeOK` |
| `GatewayProofs!PolicyIsEnforced` | `Spec => []PolicyEnforced` |
| `FateProofs!EveryMessageHasOneFate` | `Spec => []OneFate` |
| `FateProofs!RefusalRecordsAreTrue` | `Spec => []RefusalRecordIsTrue` |
| `FateProofs!UnauditedIsUnimpeded` | `Spec => []Unimpeded` |
| `FateProofs!EveryMessageIsRecordedOnce` | `Spec => []RecordedOnce` |
| `FateProofs!ReservationsAreHeld` | `Spec => []ReservationHeld` |
| `FateProofs!CompletionsAreAttributed` | `Spec => []Attribution` |
| `FateProofs!SessionImplementsLedger` | `HonestServer /\ Auditing => (Spec => ImplementsLedger)` |
| `FateProofs!TheTableAccounts` | `Spec => []TableAccounts` |
| `SessionProofs!SessionTypeCorrect` | `Spec => []TypeOK` |
| `SessionProofs!RunReapsItsChild` | `Spec => []ReapedBeforeReturn` |
| `SessionProofs!NilMeansComplete` | `Spec => []CleanMeansComplete` |
| `SessionProofs!NobodyKillsAHealthySession` | `Spec => []HealthyNotKilled` |
| `SessionProofs!TheDrainIsTold` | `Spec => []DrainIsTold` |
| `ApprovalProofs!TypeCorrect` | `Spec => []TypeOK` |
| `ApprovalProofs!HandlersNeverBlock` | `Spec => []DeliveryNeverBlocks` |
| `ApprovalProofs!ThePageIsCurrent` | `Spec => []PageIsCurrent` |
| `ApprovalProofs!TheServerIsAGate` | `Spec => ImplementsGate` |
| `AuditProofs!LogTypeCorrect` | `Spec => []TypeOK` |
| `AuditProofs!OneWriterAtATime` | `Spec => []OneWriter` |
| `AuditProofs!VerifyVouchesForTheSessions` | `Spec => []TamperDetected` |
| `AuditProofs!SessionsAreNeverAccused` | `Rotation # "any"`: `Spec => []NeverAccusesItself` |
| `AuditProofs!DamageIsFinal` | `Rotation # "any"`: `Spec => []DamageStopsTheLog` |
| `AuditProofs!OneChain` | `Rotation # "any"`: `Spec => []OneChainPerFile` |
| `AuditProofs!UndamagedLogReopens` | `Rotation # "any"`: `Spec => []Reopens` |
| `StartupProofs!TypeCorrect` | `Spec => []TypeOK` |
| `StartupProofs!StartedGatewaysSignUnderTheAnchor` | `Spec => []SignsUnderAnchor` |
| `StartupProofs!AnchorsAreNeverOrphaned` | `Spec => []NeverOrphaned` |
| `StartupProofs!CompleteKeysStay` | `Spec => NeverReplaced` |
| `StartupProofs!StartupKeepsTheKeys` | `StartSpec => Spec` of `KeyStore` |
| `StartupProofs!StartupTypeCorrect` | `StartSpec => []StartTypeOK` |
| `StartupProofs!LogsVerifyWithTheAnchor` | `StartSpec => []LogsUnderAnchor` |
| `StartupProofs!UntouchedLogsPassVerify` | `StartSpec => []VerifyNeverAccuses` |
| `StartupProofs!TrafficIsDeclared` | `StartSpec => []TrafficUnderItsHeader` |
| `StartupProofs!RunsNeverOrphanTheAnchor` | `StartSpec => []NeverOrphaned` |
| `StartupProofs!RunsNeverReplaceAKey` | `StartSpec => NeverReplaced` |
| `DiscoveryProofs!ScanTypeCorrect` | `Spec => []TypeOK` |
| `DiscoveryProofs!ReportsAreWhole` | `Spec => []WholeInventory` |
| `DiscoveryProofs!ErrorsNameTheirCause` | `Spec => []ErrorNamesItsCause` |
| `WireProofs!TheReadersAgree` | `Spec => []EveryReaderAgrees` |
| `WireProofs!TheAnswersFindTheirCall` | `Spec => []AnswersFindTheirCall` |
| `WireProofs!TheRefusalsNameTheirRequest` | `Spec => []RefusalsNameTheirRequest` |
| `WireProofs!TheScanIsExact` | `TextSpec => []ScanIsExact` |
| `WireProofs!TheOrderIsCanonical` | `TextSpec => []OneCanonicalOrder` |

The assumptions are the named ones of the modules: `MessagesAssumption` (a call has an
id and a tool), `NamesAssumption`, `LimitsAssumption`, `ListsAssumption` of `Gateway`;
`KeyAssumption` (keys differ from the two non-keys), `StartupAssumption`,
`AuditAssumption`, `DiscoveryAssumption`, `LifecycleAssumption` and those of
`ApprovalServer`, most of them that names differ and bounds are naturals;
`JsonAssumption` (a value has one of the forms of JSON, what is in it is a value and
nests less), `LinesAssumption` (lines and answers are values) and `TextsAssumption`
(a text is a sequence of characters, a name one of Unicode scalar values). TLC
evaluates them in every run. What depends on the instance is in the theorem:
attribution asks for a server that answers each request once (`HonestServer`), the
ledger for a log as well, and four theorems of `AuditProofs` for a log that is not
moved aside while a session opens it, without which `audit_rotation` shows the
contrary.

**Policy.** `PolicyEnforced` speaks of messages already forwarded and is not
inductive: nothing in it says that a message about to be forwarded was cleared.
`PolicyInv` adds that a held message needs a human, and that one at `remember` or
`forward` is `Clearable`. The steps of the environment, the output goroutine and the
end of the session leave all that alone (`OthersRest`, which needs that `sent` only
grows); `PolicyRead` shows that `Read` clears only what the policy clears;
`PolicyInput` does the rest.

**Fate.** `FateInv` carries `OneFate` and `RefusalRecordIsTrue`. A message's fate is
settled by one goroutine, so everything rests on positions: nothing past the current
message was passed or approved, and the current one was not while its verdict is
still being carried out (`InputInv`). The client was told of a refusal only where
nothing was passed (`ToldInv`), a record of a refusal is true of a message the input
goroutine is done with (`BookInv`), and what awaits an answer as a tool call was
cleared, so the output goroutine can write no refusal (`TableInv`). `RestFrame`
shows that this outlives every step of the others. `Unimpeded` needs its own
`UnimpededInv`: without a log no message goes through the table, and between two
messages exactly what the policy clears has been passed.

**Record.** `RecordedOnce` holds against any server because a message that is to be
recorded is in one place only: with the input goroutine, in the table, with the output
goroutine, or in the log (`OnceInv`). Attribution needs more, and a server that answers
once: an entry of the table is true of its message (`EntriesInv`), a line answers
something that no other queued line answers (`LinesInv`), and a request with an answer
to come has its id in the table (`HeldInv`). The step that could break the last is
`TakePending`, which frees an id: it frees that of the line's own message, because the
entry found there is that message's, and no other line is about it. From these and
`OpenInv` (a message still open is in no record), every step of `Gateway` is a step of
`CallLedger` or none (`LedgerEnvironment`, `LedgerInput`, `LedgerOutput`).

**Session.** `SessionInv` says what each goroutine knew when it acted: the status on
the channel is the child's (`StatusIsTrue`), whoever killed had seen an end
(`KillersSaw`), a closed reader was closed by the drain (`ReaderSaw`), lines are
delivered, buffered or lost but never invented (`LinesAccounted`).

**Approval.** `ApprovalInv` is `PageIsCurrent` with what a handler and a channel hold:
the handler that claimed a call carries the decision on record and finds the channel
empty, no two handlers carry the same call (`HandlerInv`); a channel holds nothing but
that decision (`ChannelInv`); what was returned was decided or is a timeout
(`RequestInv`). Under it every step of the server is a step of `HumanGate` or a
stutter: `Register` asks, the lookup that claims decides, `Return` returns.

**Log.** `AuditInv` has the types, the lock (`LockInv`: held by the one session that is
past it, for the file it has open) and the place of a write in progress (`AtEnd`).
`SealInv` says that whatever an outsider did, a line carries a signature made by
`BadKey` or one made for an entry some session sealed; hashing being ideal,
`SealsDetect` follows from `Verdict` line by line. `ChainInv` says of a file nobody
edited that its whole lines are one chain, that nothing but the same session follows a
damaged one, and that each session's `seq` and `prevHash` are where its file ends.

**Keys and startup.** `KeyInv` strengthens `SignsUnderAnchor` and `NeverOrphaned`: a
file that is being written is `Damaged` and has one writer (`OneWriterEach`, which
`O_EXCL` gives), and until the private half is lost every gateway past it holds the key
it contains (`PrivateKnown`). `NeverReplaced` follows from `OneWriterEach` step by
step. Every step of `Startup` is one of `KeyStore` or leaves it alone, so these carry
over; `StartInv` adds that a gateway past the key has it (`HasKey`), holds its log and
session alone (`Owns`), and that `verify`'s key is the one on disk (`VerifierKnows`).

**Scan.** `DiscoveryInv` follows a page from the request to the report: what is in the
server's inbox was asked (`RequestsAreTrue`), a result under the awaited id is true of
the page that was asked with it (`AnswersAreTrue`), the pages taken follow each other
(`PagesFollow`), and how the exchange ended is what really happened (`EndIsTrue`,
`BlameIsTrue`).

**Induction.** The four arguments that follow are about sums, recursions and loops over
data of any size. The library's induction rule quantifies over a predicate, which the
provers cannot instantiate; a rule about sets needs none. `Least` (a set of naturals
that is not empty has a least element, from the library's fact that `<` is well-founded
on them) gives `SetInduction`: a set of naturals that has 0 and the successor of each
member is all of them. A proof by induction defines the set of the numbers for which its
claim holds.

**Table.** `Weight` sums over the entries of the table by a fold that takes them in an
order chosen by `CHOOSE`. `FateProofs` shows by induction on the size of the table that
the sum satisfies its recursion for every element taken out, so adding and removing an
entry change it by what `remember` charged and `Delete` gave back; `TheTableIsBounded`
bounds both counters.

**Values.** `Valid` and `Meaning` recurse through a value of any shape. For each, the
set of depths up to which a function satisfies the recursion is inductive, and
`MaxDepth` bounds the depths, so the function exists and the recursion may be unfolded
(`ValidIsRecursion`, `MeaningIsRecursion`). By induction on the depth a valid value
means the same to every reader who keeps the case of names (`MeaningAgrees`). Where no
field has an alias, one that folds finds the same value under each field's name
(`FieldSame`), and a value that is no array or object has no names to fold
(`ScalarField`): so method, id and tool, which an accepted line has as strings and
numbers (`AcceptedShape`), mean the same to every reader, and the arguments are one
value to all, of one meaning to those who keep case (`AcceptedMeansOneThing`). `WireInv` says that the table holds exactly the requests that wait, each
under the key of its id and no two under the same (`TableFits`). Keys are equal exactly
when the doubles are (`SameKey`), whatever spelling the server chose, so the entry an
answer frees is that of the request it answers.

**Scan.** `ScanInv` has the loop's index between characters that belong together: there
the flag is right and the run of backslashes behind it even, and every escape behind
it was whole and had its partner. One lemma per branch of the loop carries it over the
characters the branch moves past; at each refusal, `Stops` shows that the text has an
escape that breaks the rule, and at the end that it has none.

**Order.** `FlattenSeq` is shown to be the last of a sequence of concatenations (`Flattened`),
so two encodings agree exactly as long as the names do, and where the names part their
units part in the order of `Place` (`UnitsOrder`, arithmetic on surrogates). Comparison
of encodings is therefore comparison of places (`OrderAgrees`), which is a strict total
order; the position `Insert` counts is the one between smaller and greater names
(`DownClosed`), and the names stay in order (`SortInv`).

Only model-checked is liveness: `AnswersComplete`, `EveryMessageSettled`,
`EveryRequestReturns`, `EitherEndResolves`, `GoroutinesEnd`, `ScanEnds` and
`AnsweringServerEndsIt` need fairness and `ENABLED`, which are out of the prover's reach.

## 6. Where code and text disagree

| Run | What happens | What is said |
|---|---|---|
| `gateway_lost_record` | A failed write to the client ends `pump` before the handler, so a response that arrived leaves no record | `SECURITY.md:133`: the record is written when its response arrives |
| `approval_lost_click` | A decision `resolve` took before the timer fired can come back as `TimedOut`: `select` may take either | `audit.go:62`: a timeout is "no human answered in time" |
| `audit_rotation` | A log moved aside between the lock (by handle) and `lastState` (by path) is continued from another file's state | `audit.go:267`: continued "instead of forking a second chain in the same file" |

Five smaller ones were met on the way and are kept as the premises they cost: a
child that does not read its stdin keeps the input goroutine from the client's EOF
(the premise of `EitherEndResolves`, against `TECHNICAL_CONSTITUTION.md:159`); a
response reaches the client before its id is free, so an id reused at once may be
refused (`proxy.go:696`); `run` prefers an output error to an input failure that came
first (`proxy.go:78`); a scan that has read all it may says that the server closed its
output, though it did not (`scan.go:230` and `scan.go:425`, against the comment at
`scan.go:399`; the disjunct `lines >= MaxScanLines` of `ErrorNamesItsCause`); names in
another case are refused among a message's own fields and forwarded among its arguments
(`request.go:67`, the premise `~r.folds` of `EveryReaderAgrees`).

## 7. What is not modelled

- Bytes. PEM, hashing, signing and the canonical form of numbers and strings are
  represented by their outcome. A message of `Gateway` is what
  `Envelope` makes of a line, and `Envelope` begins where a line has been split into
  members.
- `config`: it loads and validates one file before anything runs and keeps no state.
  What it yields is the constants of the modules.
- The command line's flags, usage text, `init` and exit codes; `scan`'s risk keywords
  and `Render`, which label what was found.
- The Windows lock, which promises what the Unix one does, and the fallback, which
  refuses always.
- The approval page's HTML, headers, address checks and HTTP timeouts. A POST that
  fails a check is `RefusedPost`: it changes nothing.
- `fsync`: a crash loses the process, not the operating system's buffers.
- Early returns of `run` before its goroutines start.
- A client that neither reads nor closes: a write to it never returns, and the
  session stands still in the code as well.

## 8. Plan

Every part that keeps state or runs concurrently has its module, and every safety
property a run checks has its proof. What could still be added:

1. `Startup` over `AuditLog` instead of whole entries: one instance of the log per
   file, the lock and `lastState` being `AuditLog`'s, to show that a failed write in
   one session is never taken for another's traffic.
2. The canonical form of numbers and of string escapes, compared with RFC 8785 over a
   small alphabet.
3. Idleness: the grace period and the drain as clocks with a relation between them;
   today a timer may fire at any moment once armed.
