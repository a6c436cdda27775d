------------------------------ MODULE Startup ------------------------------
(***************************************************************************)
(* The command line around the other parts (internal/cli, cli.go): the     *)
(* order in which `run` takes the signing key, the log, the session header *)
(* and the approval page, and gives them back, over the key files that     *)
(* every gateway shares; and an operator who runs `verify` meanwhile.      *)
(*                                                                         *)
(* A log is its entries here, each appended whole or not at all: what a    *)
(* failed write leaves, and the chain, are AuditLog's matter.              *)
(***************************************************************************)
EXTENDS KeyStore, Integers, Sequences

CONSTANTS
  Sessions,     \* bound: the sessions that may ever open a log
  Logs, LogOf,  \* the log each gateway was given with --log
  Ports, PortOf, NoPort,  \* its approval page's, or NoPort if it has none
  Nobody,       \* the holder of a free log or port
  MaxEntries    \* bound: the entries of one log

ASSUME StartupAssumption ==
  /\ LogOf \in [Gateways -> Logs]
  /\ NoPort \notin Ports /\ PortOf \in [Gateways -> Ports \cup {NoPort}]
  /\ Nobody \notin Gateways \cup Sessions
  /\ MaxEntries \in Nat

VARIABLES
  stage,     \* "start", "header", "page", "serve", "closePage", "closeLog",
             \* "abort" (give up before serving), "over"
  session,   \* the session each gateway's Logger writes, or Nobody
  log,       \* the entries of each log
  holder,    \* the gateway that holds each log's lock
  binder,    \* the gateway that listens on each port
  verifier   \* the `verify` in progress: its step, its key and its verdict

runVars == <<stage, session, log, holder, binder>>
allVars == <<vars, runVars, verifier>>

StartInit ==
  /\ Init
  /\ stage = [g \in Gateways |-> "start"] /\ session = [g \in Gateways |-> Nobody]
  /\ log = [l \in Logs |-> <<>>]
  /\ holder = [l \in Logs |-> Nobody] /\ binder = [p \in Ports |-> Nobody]
  /\ verifier = [step |-> "idle", key |-> NoFile, verdict |-> "none"]

Reaches(g, s) == stage' = [stage EXCEPT ![g] = s]
Released(held, g) == [x \in DOMAIN held |-> IF held[x] = g THEN Nobody ELSE held[x]]
EntriesOf(l) == {log[l][i] : i \in 1..Len(log[l])}
UsedSessions == UNION {{e.session : e \in EntriesOf(l)} : l \in Logs}
                  \cup {session[g] : g \in Gateways}

-----------------------------------------------------------------------------
\* runCommand, after the key.

\* The lock first, then a history that the gateway's key must verify.
OpenLog(g) ==
  /\ pc[g] = "ready" /\ stage[g] = "start"
  /\ \/ /\ holder[LogOf[g]] = Nobody
        /\ \A e \in EntriesOf(LogOf[g]) : e.key = key[g]
        /\ holder' = [holder EXCEPT ![LogOf[g]] = g]
        /\ \E s \in Sessions \ UsedSessions : session' = [session EXCEPT ![g] = s]
        /\ Reaches(g, "header")
     \/ /\ \/ holder[LogOf[g]] # Nobody
           \/ \E e \in EntriesOf(LogOf[g]) : e.key # key[g]
        /\ Reaches(g, "over") /\ UNCHANGED <<holder, session>>
  /\ UNCHANGED <<vars, log, binder, verifier>>

Append1(g, body) ==
  /\ Len(log[LogOf[g]]) < MaxEntries
  /\ log' = [log EXCEPT ![LogOf[g]] =
               Append(@, [session |-> session[g], key |-> key[g], body |-> body])]

AppendSessionHeader(g) ==
  /\ stage[g] = "header"
  /\ \/ Append1(g, "header") /\ Reaches(g, "page")
     \/ Reaches(g, "abort") /\ UNCHANGED log
  /\ UNCHANGED <<vars, session, holder, binder, verifier>>

\* The page is served only for a config that lists tools to approve; New or
\* Start may fail, and Start must if the port is taken.
StartPage(g) ==
  LET p == PortOf[g] IN
  /\ stage[g] = "page"
  /\ \/ p = NoPort /\ Reaches(g, "serve") /\ UNCHANGED binder
     \/ /\ p # NoPort /\ binder[p] = Nobody
        /\ binder' = [binder EXCEPT ![p] = g] /\ Reaches(g, "serve")
     \/ p # NoPort /\ Reaches(g, "abort") /\ UNCHANGED binder
  /\ UNCHANGED <<vars, session, log, holder, verifier>>

\* Fault: a Logger still writes after Close.
MayRecord_Late(g) == stage[g] \in {"serve", "closePage", "closeLog", "over"}

\* The input goroutine outlives Run, and may record until the file is closed.
MayRecord(g) == stage[g] \in {"serve", "closePage", "closeLog"}

\* A record may be lost: auditing is an observer once the session runs.
RecordCall(g) ==
  /\ MayRecord(g) /\ session[g] \in Sessions /\ Append1(g, "call")
  /\ UNCHANGED <<vars, stage, session, holder, binder, verifier>>

RunReturns(g) ==
  /\ stage[g] = "serve" /\ Reaches(g, "closePage")
  /\ UNCHANGED <<vars, session, log, holder, binder, verifier>>

\* The deferred calls, last first.
ClosePage(g) ==
  /\ stage[g] = "closePage" /\ Reaches(g, "closeLog")
  /\ binder' = Released(binder, g)
  /\ UNCHANGED <<vars, session, log, holder, verifier>>

CloseLog(g) ==
  /\ stage[g] \in {"abort", "closeLog"} /\ Reaches(g, "over")
  /\ holder' = Released(holder, g)
  /\ UNCHANGED <<vars, session, log, binder, verifier>>

\* Killed with the key in hand: the kernel frees the lock and the port.
Killed(g) ==
  /\ pc[g] = "ready" /\ stage[g] # "over" /\ Reaches(g, "over")
  /\ holder' = Released(holder, g) /\ binder' = Released(binder, g)
  /\ UNCHANGED <<vars, session, log, verifier>>

\* A step of the key's own, or the next process.
KeyStep(g) ==
  /\ Gateway(g)
  /\ \/ pc[g] # "ready" /\ UNCHANGED <<stage, session>>
     \/ /\ pc[g] = "ready" /\ stage[g] = "over" /\ Reaches(g, "start")
        /\ session' = [session EXCEPT ![g] = Nobody]
  /\ UNCHANGED <<log, holder, binder, verifier>>

Run(g) ==
  \/ KeyStep(g) \/ OpenLog(g) \/ AppendSessionHeader(g) \/ StartPage(g)
  \/ RecordCall(g) \/ RunReturns(g) \/ ClosePage(g) \/ CloseLog(g) \/ Killed(g)

-----------------------------------------------------------------------------
\* verify: resolvePublicKey in its steps, then the log.

Verifies(step, k, verdict) ==
  /\ verifier' = [step |-> step, key |-> k, verdict |-> verdict]
  /\ UNCHANGED <<vars, runVars>>

\* os.Stat of the public half decides which file is read next.
StatPublic ==
  /\ verifier.step = "idle"
  /\ Verifies(IF pub = NoFile THEN "derive" ELSE "load", NoFile, "none")

LoadPublic ==
  /\ verifier.step = "load"
  /\ \/ Loads(pub) /\ Verifies("read", pub, "none")
     \/ ~Loads(pub) /\ Verifies("idle", NoFile, "none")

DerivePublic ==
  /\ verifier.step = "derive"
  /\ \/ Loads(priv) /\ Verifies("read", priv, "none")
     \/ ~Loads(priv) /\ Verifies("idle", NoFile, "none")

ReadLog(l) ==
  /\ verifier.step = "read"
  /\ LET forged == \E e \in EntriesOf(l) : e.key # verifier.key IN
     Verifies("idle", NoFile, IF forged THEN "tampered" ELSE "OK")

Verifier == StatPublic \/ LoadPublic \/ DerivePublic \/ \E l \in Logs : ReadLog(l)

Operator == (LosePrivate \/ ClearDamaged) /\ UNCHANGED <<runVars, verifier>>

StartNext == (\E g \in Gateways : Run(g)) \/ Verifier \/ Operator

StartSpec == StartInit /\ [][StartNext]_allVars

-----------------------------------------------------------------------------
Entry == [session : Sessions, key : Keys, body : {"header", "call"}]

StartTypeOK ==
  /\ TypeOK
  /\ stage \in [Gateways -> {"start", "header", "page", "serve", "closePage",
                             "closeLog", "abort", "over"}]
  /\ session \in [Gateways -> Sessions \cup {Nobody}]
  /\ log \in [Logs -> Seq(Entry)]
  /\ holder \in [Logs -> Gateways \cup {Nobody}]
  /\ binder \in [Ports -> Gateways \cup {Nobody}]
  /\ verifier \in [step : {"idle", "load", "derive", "read"},
                   key : Keys \cup {NoFile}, verdict : {"none", "OK", "tampered"}]

\* Every log that gateways of one key path wrote verifies with the public half
\* on disk, whoever wrote it and whatever became of the private half.
LogsUnderAnchor == \A l \in Logs : \A e \in EntriesOf(l) : e.key = pub

\* `verify`, started at any moment of any gateway's first run, never reports
\* an untouched log as tampered, as long as the private half was not lost: the
\* key it settled on is still the logs' key when it gets to read one.
VerifyNeverAccuses == verifier.verdict = "tampered" => lost

\* Every recorded call stands after its session's header, with nothing of
\* another session in between, and a gateway that serves has its header in the
\* log: restarts, crashes and a late goroutine of an ended session included.
TrafficUnderItsHeader ==
  /\ \A l \in Logs : \A i \in 1..Len(log[l]) :
       log[l][i].body = "call" =>
         \E h \in 1..(i - 1) :
           /\ log[l][h].body = "header"
           /\ \A j \in h..i : log[l][j].session = log[l][i].session
  /\ \A g \in Gateways : stage[g] = "serve" =>
       \E e \in EntriesOf(LogOf[g]) : e.session = session[g] /\ e.body = "header"
=============================================================================
