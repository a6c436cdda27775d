--------------------------- MODULE StartupProofs ---------------------------
(***************************************************************************)
(* Theorems about KeyStore and Startup, for every set of gateways, keys,   *)
(* logs, sessions and ports.  The first part is about the key pair alone;  *)
(* Startup refines KeyStore step by step, so that part holds of it too,    *)
(* and the rest is an invariant over both.                                 *)
(***************************************************************************)
EXTENDS Startup, TLAPS

\* The steps at which a gateway holds a key.
Holding == {"ensure", "createPrivate", "writePrivate", "createPublic",
            "writePublic", "ready"}

\* A file that is being written is damaged, and has one writer.
OneWriterEach ==
  \A g \in Gateways :
    /\ pc[g] \in Holding => key[g] \in Keys
    /\ pc[g] = "writePrivate" =>
         priv = Damaged /\ \A h \in Gateways \ {g} : pc[h] # "writePrivate"
    /\ pc[g] = "writePublic" =>
         pub = Damaged /\ \A h \in Gateways \ {g} : pc[h] # "writePublic"

\* Until the private half is lost, whoever got past it holds what it holds.
PrivateKnown ==
  ~lost => \A g \in Gateways :
    pc[g] \in {"ensure", "createPublic", "writePublic", "ready"} => priv = key[g]

KeyInv == OneWriterEach /\ SignsUnderAnchor /\ PrivateKnown /\ NeverOrphaned

\* One step of one gateway: only its own entries of pc and key change.
LEMMA GatewayFrame ==
  ASSUME TypeOK, NEW g \in Gateways, Gateway(g)
  PROVE  \A h \in Gateways \ {g} : pc'[h] = pc[h] /\ key'[h] = key[h]
BY DEF TypeOK, Gateway, LoadSigningKey, EnsurePublicKey, Generate, CreatePrivate,
       WritePrivate, CreatePublic, WritePublic, Crash, Restart, Goes

\* The files, the steps and the keys stay within their types.
LEMMA TypeStep == TypeOK /\ [Next]_vars => TypeOK'
<1> SUFFICES ASSUME TypeOK, [Next]_vars PROVE TypeOK' OBVIOUS
<1> USE DEF TypeOK, Goes, fileVars
<1>1. ASSUME NEW g \in Gateways, LoadSigningKey(g) \/ EnsurePublicKey(g) \/ Generate(g)
      PROVE  TypeOK'
  BY <1>1 DEF LoadSigningKey, Loads, EnsurePublicKey, Generate
<1>2. ASSUME NEW g \in Gateways, CreatePrivate(g) \/ CreatePublic(g)
      PROVE  TypeOK'
  BY <1>2 DEF CreatePrivate, CreatePublic
<1>3. ASSUME NEW g \in Gateways, WritePrivate(g) \/ WritePublic(g)
      PROVE  TypeOK'
  BY <1>3 DEF WritePrivate, WritePublic, AfterFailedPrivate
<1>4. ASSUME NEW g \in Gateways, Crash(g) \/ Restart(g)
      PROVE  TypeOK'
  BY <1>4 DEF Crash, Restart
<1>5. CASE LosePrivate \/ ClearDamaged \/ UNCHANGED vars
  BY <1>5 DEF LosePrivate, ClearDamaged, vars
<1> QED BY <1>1, <1>2, <1>3, <1>4, <1>5 DEF Next, Gateway

\* Every reachable state is well typed.
THEOREM TypeCorrect == Spec => []TypeOK
<1>1. Init => TypeOK
  BY DEF Init, TypeOK
<1> QED BY <1>1, TypeStep, PTL DEF Spec

-----------------------------------------------------------------------------
\* Reading either file, or crashing, or being launched again, leaves the files
\* alone and enters no writing step.
LEMMA InvReads ==
  ASSUME TypeOK, KeyInv, NEW g \in Gateways,
         LoadSigningKey(g) \/ EnsurePublicKey(g) \/ Generate(g) \/ Crash(g)
           \/ Restart(g)
  PROVE  KeyInv'
<1> USE GatewayFrame DEF KeyInv, OneWriterEach, SignsUnderAnchor, PrivateKnown,
                         NeverOrphaned, Holding, Gateway, TypeOK, Goes, fileVars
<1>1. CASE LoadSigningKey(g)
  BY <1>1 DEF LoadSigningKey, Loads
<1>2. CASE EnsurePublicKey(g)
  BY <1>2 DEF EnsurePublicKey, Matches
<1>3. CASE Generate(g)
  BY <1>3 DEF Generate
<1>4. CASE Crash(g) \/ Restart(g)
  BY <1>4 DEF Crash, Restart
<1> QED BY <1>1, <1>2, <1>3, <1>4

\* O_EXCL makes a writer the only one; its write completes its own file.
LEMMA InvPublishes ==
  ASSUME TypeOK, KeyInv, NEW g \in Gateways,
         CreatePrivate(g) \/ WritePrivate(g) \/ CreatePublic(g) \/ WritePublic(g)
  PROVE  KeyInv'
<1> USE GatewayFrame, KeyAssumption
    DEF KeyInv, OneWriterEach, SignsUnderAnchor, PrivateKnown, NeverOrphaned,
        Holding, Gateway, TypeOK, Goes, fileVars
<1>1. CASE CreatePrivate(g)
  BY <1>1 DEF CreatePrivate, Creatable
<1>2. CASE WritePrivate(g)
  BY <1>2 DEF WritePrivate, AfterFailedPrivate
<1>3. CASE CreatePublic(g)
  BY <1>3 DEF CreatePublic, Creatable
<1>4. CASE WritePublic(g)
  BY <1>4 DEF WritePublic
<1> QED BY <1>1, <1>2, <1>3, <1>4

\* The invariant holds initially and survives every step.
LEMMA KeyInvariant == Spec => []KeyInv
<1>1. Init => KeyInv
  BY DEF Init, KeyInv, OneWriterEach, SignsUnderAnchor, PrivateKnown, NeverOrphaned,
         Holding
<1>2. TypeOK /\ KeyInv /\ [Next]_vars => KeyInv'
  <2> SUFFICES ASSUME TypeOK, KeyInv, [Next]_vars PROVE KeyInv' OBVIOUS
  <2>1. CASE LosePrivate \/ ClearDamaged \/ UNCHANGED vars
    BY <2>1, KeyAssumption
       DEF LosePrivate, ClearDamaged, vars, fileVars, KeyInv, OneWriterEach,
           SignsUnderAnchor, PrivateKnown, NeverOrphaned, Holding, TypeOK
  <2> QED BY <2>1, InvReads, InvPublishes DEF Next, Gateway
<1> QED BY <1>1, <1>2, TypeCorrect, PTL DEF Spec

\* A started gateway always signs under the public key on disk
\* (LoadOrCreateSigningKey, ensurePublicKey).
THEOREM StartedGatewaysSignUnderTheAnchor == Spec => []SignsUnderAnchor
<1>1. KeyInv => SignsUnderAnchor
  BY DEF KeyInv
<1> QED BY <1>1, KeyInvariant, PTL

\* Without a loss of the private half, a public half never stands alone.
THEOREM AnchorsAreNeverOrphaned == Spec => []NeverOrphaned
<1>1. KeyInv => NeverOrphaned
  BY DEF KeyInv
<1> QED BY <1>1, KeyInvariant, PTL

\* A complete half is written once; the private one can only go by a loss, and
\* a started gateway keeps its key.
LEMMA HalvesStep ==
  ASSUME TypeOK, KeyInv, [Next]_vars
  PROVE  /\ pub \in Keys => pub' = pub
         /\ priv \in Keys => priv' \in {priv, NoFile} /\ (priv' # priv => lost')
         /\ lost => lost'
<1> USE KeyAssumption
<1>1. CASE LosePrivate \/ ClearDamaged \/ UNCHANGED vars
  BY <1>1 DEF LosePrivate, ClearDamaged, vars, fileVars
<1>2. ASSUME NEW g \in Gateways, Gateway(g)
      PROVE  /\ pub \in Keys => pub' = pub
             /\ priv \in Keys => priv' = priv
             /\ lost => lost'
  BY <1>2
     DEF Gateway, LoadSigningKey, EnsurePublicKey, Generate, CreatePrivate,
         WritePrivate, CreatePublic, WritePublic, Crash, Restart, Creatable,
         KeyInv, OneWriterEach, fileVars
<1> QED BY <1>1, <1>2 DEF Next

\* No step replaces a complete key (writePrivateKey, writePublicKey).
THEOREM CompleteKeysStay == Spec => NeverReplaced
<1>1. TypeOK /\ KeyInv /\ [Next]_vars =>
        [/\ pub \in Keys => pub' = pub
         /\ priv \in Keys => priv' \in {priv, NoFile}]_vars
  BY HalvesStep
<1> QED BY <1>1, TypeCorrect, KeyInvariant, PTL DEF Spec, NeverReplaced

-----------------------------------------------------------------------------
\* Every step of Startup is a step of KeyStore or leaves it alone.
LEMMA KeyRefines == StartNext => [Next]_vars
BY DEF StartNext, Run, KeyStep, OpenLog, AppendSessionHeader, StartPage, RecordCall,
       RunReturns, ClosePage, CloseLog, Killed, Verifier, StatPublic, LoadPublic,
       DerivePublic, ReadLog, Verifies, Operator, Next, vars

THEOREM StartupKeepsTheKeys == StartSpec => Spec
<1>1. StartInit => Init
  BY DEF StartInit
<1>2. [StartNext]_allVars => [Next]_vars
  BY KeyRefines DEF allVars
<1> QED BY <1>1, <1>2, PTL DEF StartSpec, Spec

-----------------------------------------------------------------------------
\* From the lock to its release.
Busy == {"header", "page", "serve", "closePage", "closeLog", "abort"}

\* A gateway past the key step holds a key.
HasKey == \A g \in Gateways : stage[g] # "start" => pc[g] = "ready"

\* From OpenLog to CloseLog a gateway holds its log's lock under a session.
Owns ==
  \A g \in Gateways :
    stage[g] \in Busy => holder[LogOf[g]] = g /\ session[g] \in Sessions

\* The key `verify` settled on is the private half's.
VerifierKnows ==
  ~lost /\ verifier.step = "read" => verifier.key \in Keys /\ verifier.key = priv

Heads(h, entries, s) ==
  /\ entries[h].body = "header"
  /\ \A j \in h..Len(entries) : entries[j].session = s

\* While a gateway may record, its log ends with its header and its calls.
Headed ==
  \A g \in Gateways :
    stage[g] \in {"page", "serve", "closePage", "closeLog"} =>
      \E h \in 1..Len(log[LogOf[g]]) : Heads(h, log[LogOf[g]], session[g])

CallsUnderHeaders(entries) ==
  \A i \in 1..Len(entries) :
    entries[i].body = "call" =>
      \E h \in 1..(i - 1) :
        /\ entries[h].body = "header"
        /\ \A j \in h..i : entries[j].session = entries[i].session

StartInv ==
  /\ StartTypeOK /\ HasKey /\ Owns
  /\ LogsUnderAnchor /\ VerifierKnows /\ VerifyNeverAccuses
  /\ Headed /\ \A l \in Logs : CallsUnderHeaders(log[l])

KeyFacts == TypeOK /\ KeyInv

\* What a log's entries are, one by one.
LEMMA EntryTypes ==
  ASSUME StartTypeOK, NEW l \in Logs
  PROVE  /\ log[l] \in Seq(Entry)
         /\ \A e \in EntriesOf(l) : e \in Entry
         /\ \A i \in 1..Len(log[l]) : log[l][i] \in EntriesOf(l)
BY DEF StartTypeOK, EntriesOf

\* An appended call stays under the header its log ends with; a header is one.
LEMMA AppendUnderHeader ==
  ASSUME NEW entries \in Seq(Entry), NEW e \in Entry,
         CallsUnderHeaders(entries),
         e.body = "header" \/ \E h \in 1..Len(entries) : Heads(h, entries, e.session)
  PROVE  /\ CallsUnderHeaders(Append(entries, e))
         /\ \E h \in 1..Len(Append(entries, e)) : Heads(h, Append(entries, e), e.session)
<1> DEFINE after == Append(entries, e)
           n == Len(entries)
<1>1. /\ n \in Nat /\ Len(after) = n + 1 /\ after[n + 1] = e
      /\ \A i \in 1..n : after[i] = entries[i]
  OBVIOUS
<1>2. \E h \in 1..(n + 1) :
        after[h].body = "header" /\ \A j \in h..(n + 1) : after[j].session = e.session
  <2>1. CASE e.body = "header"
    <3>1. \A j \in (n + 1)..(n + 1) : j = n + 1
      BY <1>1
    <3> QED BY <1>1, <2>1, <3>1
  <2>2. CASE \E h \in 1..n : Heads(h, entries, e.session)
    <3>1. PICK h \in 1..n : Heads(h, entries, e.session)
      BY <2>2
    <3>2. \A j \in h..(n + 1) : j \in h..n \/ j = n + 1
      BY <1>1
    <3> QED BY <1>1, <3>1, <3>2 DEF Heads
  <2> QED BY <2>1, <2>2
<1>3. \E h \in 1..Len(after) : Heads(h, after, e.session)
  BY <1>1, <1>2 DEF Heads
<1>4. CallsUnderHeaders(after)
  <2> SUFFICES ASSUME NEW i \in 1..(n + 1), after[i].body = "call"
               PROVE  \E h \in 1..(i - 1) :
                        /\ after[h].body = "header"
                        /\ \A j \in h..i : after[j].session = after[i].session
    BY <1>1 DEF CallsUnderHeaders
  <2>1. CASE i = n + 1
    <3>1. PICK h \in 1..(n + 1) : after[h].body = "header" /\
                                  \A j \in h..(n + 1) : after[j].session = e.session
      BY <1>2
    <3>2. h # n + 1
      BY <2>1, <3>1
    <3> QED BY <1>1, <2>1, <3>1, <3>2
  <2>2. CASE i # n + 1
    <3>1. i \in 1..n /\ entries[i].body = "call"
      BY <1>1, <2>2
    <3>2. PICK h \in 1..(i - 1) :
                 /\ entries[h].body = "header"
                 /\ \A j \in h..i : entries[j].session = entries[i].session
      BY <3>1 DEF CallsUnderHeaders
    <3>3. \A j \in h..i : j \in 1..n
      BY <3>1, <1>1
    <3> QED BY <1>1, <3>1, <3>2, <3>3
  <2> QED BY <2>1, <2>2
<1> QED BY <1>3, <1>4

-----------------------------------------------------------------------------
\* A step of the key's, or a new launch: the logs stand, the anchor stays, and
\* whoever is past the key step is not touched.
LEMMA InvKeyStep ==
  ASSUME KeyFacts, StartInv, NEW g \in Gateways, KeyStep(g), TypeOK'
  PROVE  StartInv'
<1> USE GatewayFrame, HalvesStep, KeyRefines DEF KeyFacts, StartInv, KeyStep, Reaches
<1>1. [Next]_vars /\ Gateway(g) /\ TypeOK
  BY DEF StartTypeOK, Next
<1>2. StartTypeOK'
  BY DEF StartTypeOK
<1>3. \A h \in Gateways \ {g} : stage'[h] = stage[h] /\ session'[h] = session[h] /\ pc'[h] = pc[h]
  BY <1>1 DEF StartTypeOK
<1>4. \/ stage[g] = "start" /\ stage'[g] = "start"
      \/ stage[g] = "over" /\ stage'[g] = "start"
  BY DEF StartTypeOK, HasKey
<1>5. HasKey' /\ Owns' /\ Headed'
  BY <1>3, <1>4 DEF HasKey, Owns, Headed, Heads, Busy
<1>7. LogsUnderAnchor'
  BY <1>1, EntryTypes DEF LogsUnderAnchor, EntriesOf, Entry
<1>8. VerifierKnows' /\ VerifyNeverAccuses'
  BY <1>1, KeyAssumption DEF VerifierKnows, VerifyNeverAccuses
<1>9. \A l \in Logs : CallsUnderHeaders(log'[l])
  OBVIOUS
<1> QED BY <1>2, <1>5, <1>7, <1>8, <1>9

\* Taking and giving back the lock and the port moves no entry.
LEMMA InvStages ==
  ASSUME KeyFacts, StartInv, NEW g \in Gateways,
         OpenLog(g) \/ StartPage(g) \/ RunReturns(g) \/ ClosePage(g) \/ CloseLog(g)
           \/ Killed(g)
  PROVE  StartInv'
<1> USE StartupAssumption DEF StartInv, Reaches, vars, fileVars
<1>1. UNCHANGED <<vars, log, verifier>>
  BY DEF OpenLog, StartPage, RunReturns, ClosePage, CloseLog, Killed
<1>2. /\ stage'[g] \in Busy \cup {"over"} /\ pc[g] = "ready"
      /\ \A h \in Gateways \ {g} : stage'[h] = stage[h] /\ session'[h] = session[h]
  BY DEF OpenLog, StartPage, RunReturns, ClosePage, CloseLog, Killed, StartTypeOK,
         Busy, HasKey
<1>3. StartTypeOK'
  <2>1. TypeOK'
    BY <1>1 DEF StartTypeOK, TypeOK
  <2>2. /\ Released(holder, g) \in [Logs -> Gateways \cup {Nobody}]
        /\ Released(binder, g) \in [Ports -> Gateways \cup {Nobody}]
    BY DEF StartTypeOK, Released
  <2>3. stage' \in [Gateways -> {"start", "header", "page", "serve", "closePage",
                                "closeLog", "abort", "over"}]
    <3>1. \E s \in Busy \cup {"over"} : stage' = [stage EXCEPT ![g] = s]
      BY DEF OpenLog, StartPage, RunReturns, ClosePage, CloseLog, Killed, Busy
    <3> QED BY <3>1 DEF StartTypeOK, Busy
  <2>4. session' \in [Gateways -> Sessions \cup {Nobody}]
    BY DEF OpenLog, StartPage, RunReturns, ClosePage, CloseLog, Killed, StartTypeOK
  <2>5. holder' \in [Logs -> Gateways \cup {Nobody}]
    <3>1. CASE OpenLog(g)
      BY <3>1 DEF OpenLog, StartTypeOK
    <3>2. CASE ~OpenLog(g)
      BY <2>2, <3>2 DEF StartPage, RunReturns, ClosePage, CloseLog, Killed, StartTypeOK
    <3> QED BY <3>1, <3>2
  <2>6. binder' \in [Ports -> Gateways \cup {Nobody}]
    BY <2>2 DEF OpenLog, StartPage, RunReturns, ClosePage, CloseLog, Killed, StartTypeOK
  <2>7. log' \in [Logs -> Seq(Entry)] /\ verifier' = verifier
    BY <1>1 DEF StartTypeOK
  <2> QED BY <2>1, <2>3, <2>4, <2>5, <2>6, <2>7 DEF StartTypeOK
<1>4. HasKey'
  BY <1>1, <1>2 DEF HasKey
<1>5. Owns'
  BY DEF OpenLog, StartPage, RunReturns, ClosePage, CloseLog, Killed, Released,
         StartTypeOK, Owns, Busy
<1>6. Headed'
  <2>1. stage'[g] \in {"page", "serve", "closePage", "closeLog"} =>
          /\ stage[g] \in {"page", "serve", "closePage", "closeLog"}
          /\ session'[g] = session[g]
    BY DEF OpenLog, StartPage, RunReturns, ClosePage, CloseLog, Killed, StartTypeOK
  <2> QED BY <1>1, <1>2, <2>1 DEF Headed, Heads
<1>7. LogsUnderAnchor' /\ VerifierKnows' /\ VerifyNeverAccuses'
  BY <1>1 DEF LogsUnderAnchor, EntriesOf, VerifierKnows, VerifyNeverAccuses
<1> QED BY <1>1, <1>3, <1>4, <1>5, <1>6, <1>7

\* What a gateway records is signed by its key, the anchor, and stands where its
\* own header is the last.
LEMMA InvRecords ==
  ASSUME KeyFacts, StartInv, NEW g \in Gateways,
         AppendSessionHeader(g) \/ RecordCall(g)
  PROVE  StartInv'
<1> USE StartupAssumption DEF StartInv, Reaches, vars, fileVars, KeyFacts
<1> DEFINE l == LogOf[g]
           body == IF stage[g] = "header" THEN "header" ELSE "call"
           e == [session |-> session[g], key |-> key[g], body |-> body]
<1>1. /\ UNCHANGED <<vars, session, holder, binder, verifier>>
      /\ stage[g] \in Busy /\ stage'[g] \in Busy
      /\ \A h \in Gateways \ {g} : stage'[h] = stage[h]
      /\ l \in Logs
  BY DEF AppendSessionHeader, RecordCall, MayRecord, StartTypeOK, Busy,
         HasKey
<1>2. /\ pc[g] = "ready" /\ key[g] = pub /\ key[g] \in Keys /\ session[g] \in Sessions
      /\ e \in Entry /\ holder[l] = g
  BY <1>1 DEF HasKey, Owns, KeyInv, SignsUnderAnchor, OneWriterEach, Holding, Entry, Busy
<1>3. \/ UNCHANGED log /\ stage'[g] = "abort"
      \/ /\ log' = [log EXCEPT ![l] = Append(@, e)]
         /\ stage[g] = "header" \/ (stage[g] # "header" /\ stage'[g] = stage[g]
              /\ stage[g] \in {"serve", "closePage", "closeLog"})
  <2>1. CASE AppendSessionHeader(g)
    <3>1. stage[g] = "header" /\ body = "header"
      BY <2>1 DEF AppendSessionHeader
    <3>2. \/ Append1(g, body)
          \/ UNCHANGED log /\ stage' = [stage EXCEPT ![g] = "abort"]
      BY <2>1, <3>1 DEF AppendSessionHeader
    <3> QED BY <3>1, <3>2 DEF Append1, StartTypeOK
  <2>2. CASE RecordCall(g)
    <3>1. stage[g] # "header" /\ stage' = stage
      BY <2>2 DEF RecordCall, MayRecord
    <3> QED BY <2>2, <3>1 DEF RecordCall, MayRecord, Append1
  <2> QED BY <2>1, <2>2
<1>4. HasKey' /\ Owns' /\ VerifierKnows' /\ VerifyNeverAccuses'
  BY <1>1 DEF HasKey, Owns, VerifierKnows, VerifyNeverAccuses, Busy
<1>7. /\ TypeOK'
      /\ stage' \in [Gateways -> {"start", "header", "page", "serve", "closePage",
                                  "closeLog", "abort", "over"}]
  <2>1. TypeOK'
    BY <1>1 DEF StartTypeOK, TypeOK
  <2>2. stage' = [stage EXCEPT ![g] = stage'[g]]
    BY DEF AppendSessionHeader, RecordCall, StartTypeOK
  <2> QED BY <1>1, <2>1, <2>2 DEF StartTypeOK, Busy
<1>5. CASE UNCHANGED log /\ stage'[g] = "abort"
  <2>1. StartTypeOK'
    BY <1>1, <1>5, <1>7 DEF StartTypeOK
  <2>2. LogsUnderAnchor' /\ Headed'
    BY <1>1, <1>5 DEF LogsUnderAnchor, EntriesOf, Headed, Heads
  <2> QED BY <1>4, <1>5, <2>1, <2>2
<1>6. CASE /\ log' = [log EXCEPT ![l] = Append(@, e)]
           /\ stage[g] = "header" \/ (stage[g] # "header" /\ stage'[g] = stage[g]
                /\ stage[g] \in {"serve", "closePage", "closeLog"})
  <2>1. /\ log[l] \in Seq(Entry) /\ log'[l] = Append(log[l], e)
        /\ Append(log[l], e) \in Seq(Entry)
        /\ \A m \in Logs \ {l} : log'[m] = log[m]
    BY <1>1, <1>2, <1>6 DEF StartTypeOK
  <2>2. StartTypeOK'
    BY <1>1, <1>6, <1>7, <2>1 DEF StartTypeOK
  <2>3. \A x \in 1..Len(log'[l]) : log'[l][x] = e \/ log'[l][x] \in EntriesOf(l)
    BY <2>1, EntryTypes
  <2>4. LogsUnderAnchor'
    <3>1. \A m \in Logs \ {l} : \A x \in EntriesOf(m)' : x.key = pub
      BY <2>1 DEF LogsUnderAnchor, EntriesOf
    <3>2. \A x \in EntriesOf(l)' : x = e \/ x \in EntriesOf(l)
      BY <2>3 DEF EntriesOf
    <3>3. \A x \in EntriesOf(l)' : x.key = pub
      BY <1>1, <1>2, <3>2 DEF LogsUnderAnchor
    <3> QED BY <1>1, <3>1, <3>3 DEF LogsUnderAnchor
  <2>5. e.body = "header" \/ \E h \in 1..Len(log[l]) : Heads(h, log[l], e.session)
    BY <1>6 DEF Headed
  <2>6. /\ CallsUnderHeaders(log'[l])
        /\ \E h \in 1..Len(log'[l]) : Heads(h, log'[l], session[g])
    BY <1>1, <1>2, <2>1, <2>5, AppendUnderHeader
  <2>7. Headed'
    <3> SUFFICES ASSUME NEW h \in Gateways,
                        stage'[h] \in {"page", "serve", "closePage", "closeLog"}
                 PROVE  \E n \in 1..Len(log'[LogOf[h]]) :
                          Heads(n, log'[LogOf[h]], session[h])
      BY <1>1 DEF Headed, Heads
    <3>1. CASE h = g
      BY <2>6, <3>1
    <3>2. CASE h # g
      <4>1. LogOf[h] # l
        BY <1>1, <1>2, <3>2 DEF Owns, Busy
      <4> QED BY <1>1, <2>1, <3>2, <4>1 DEF Headed
    <3> QED BY <3>1, <3>2
  <2>8. \A m \in Logs : CallsUnderHeaders(log'[m])
    BY <2>1, <2>6
  <2> QED BY <1>4, <2>2, <2>4, <2>7, <2>8
<1> QED BY <1>3, <1>5, <1>6

\* verify reads the anchor, or a private half that only a loss could replace.
LEMMA InvVerify ==
  ASSUME KeyFacts, StartInv, Verifier
  PROVE  StartInv'
<1> USE KeyAssumption DEF StartInv, KeyFacts, vars, fileVars, runVars, Verifies
<1>1. UNCHANGED <<vars, runVars>>
  BY DEF Verifier, StatPublic, LoadPublic, DerivePublic, ReadLog
<1>2. StartTypeOK'
  BY <1>1 DEF Verifier, StatPublic, LoadPublic, DerivePublic, ReadLog, StartTypeOK, TypeOK,
              Loads
<1>3. HasKey' /\ Owns' /\ Headed' /\ LogsUnderAnchor'
  BY <1>1 DEF HasKey, Owns, Headed, Heads, Busy, LogsUnderAnchor, EntriesOf
<1>4. VerifierKnows'
  BY <1>1 DEF VerifierKnows, Verifier, StatPublic, LoadPublic, DerivePublic, ReadLog,
              Loads, KeyInv, NeverOrphaned
<1>5. VerifyNeverAccuses'
  <2>1. CASE StatPublic \/ LoadPublic \/ DerivePublic
    BY <2>1 DEF VerifyNeverAccuses, StatPublic, LoadPublic, DerivePublic
  <2>2. ASSUME NEW l \in Logs, ReadLog(l) PROVE VerifyNeverAccuses'
    <3>1. \A e \in EntriesOf(l) : e.key = pub /\ e.key \in Keys
      BY EntryTypes DEF LogsUnderAnchor, Entry
    <3>2. ~lost => \A e \in EntriesOf(l) : e.key = verifier.key
      BY <2>2, <3>1 DEF KeyInv, NeverOrphaned, VerifierKnows, ReadLog
    <3> QED BY <1>1, <2>2, <3>2 DEF VerifyNeverAccuses, ReadLog
  <2> QED BY <2>1, <2>2 DEF Verifier
<1>6. \A l \in Logs : CallsUnderHeaders(log'[l])
  BY <1>1
<1> QED BY <1>2, <1>3, <1>4, <1>5, <1>6

\* The operator touches files only, and a complete public half never.
LEMMA InvOperator ==
  ASSUME KeyFacts, StartInv, Operator
  PROVE  StartInv'
<1> USE KeyAssumption DEF StartInv, KeyFacts, runVars, Operator, LosePrivate, ClearDamaged
<1>1. StartTypeOK'
  <2>1. TypeOK'
    BY DEF TypeOK
  <2> QED BY <2>1 DEF StartTypeOK
<1>2. HasKey' /\ Owns' /\ Headed'
  BY DEF HasKey, Owns, Headed, Heads, Busy
<1>3. VerifierKnows' /\ VerifyNeverAccuses'
  BY DEF VerifierKnows, VerifyNeverAccuses
<1>4. LogsUnderAnchor'
  BY EntryTypes DEF LogsUnderAnchor, EntriesOf, Entry
<1>5. \A l \in Logs : CallsUnderHeaders(log'[l])
  OBVIOUS
<1> QED BY <1>1, <1>2, <1>3, <1>4, <1>5

LEMMA StartInvariant == StartSpec => []StartInv
<1>1. StartInit => StartInv
  <2> SUFFICES ASSUME StartInit PROVE StartInv OBVIOUS
  <2> USE KeyAssumption, StartupAssumption DEF StartInit
  <2>1. TypeOK
    BY DEF Init, TypeOK
  <2>2. StartTypeOK
    BY <2>1 DEF StartTypeOK
  <2>3. HasKey /\ Owns /\ Headed /\ VerifierKnows /\ VerifyNeverAccuses
    BY DEF HasKey, Owns, Busy, Headed, VerifierKnows, VerifyNeverAccuses
  <2>4. \A l \in Logs : Len(log[l]) = 0
    OBVIOUS
  <2>5. LogsUnderAnchor /\ \A l \in Logs : CallsUnderHeaders(log[l])
    BY <2>4 DEF LogsUnderAnchor, EntriesOf, CallsUnderHeaders
  <2> QED BY <2>2, <2>3, <2>5 DEF StartInv
<1>2. KeyFacts /\ KeyFacts' /\ StartInv /\ [StartNext]_allVars => StartInv'
  <2> SUFFICES ASSUME KeyFacts, TypeOK', StartInv, [StartNext]_allVars PROVE StartInv'
    BY DEF KeyFacts
  <2>1. CASE UNCHANGED allVars
    BY <2>1 DEF allVars, vars, fileVars, runVars, StartInv, StartTypeOK, TypeOK, HasKey,
                Owns, Busy, Headed, Heads, LogsUnderAnchor, EntriesOf, VerifierKnows,
                VerifyNeverAccuses
  <2> QED BY <2>1, InvKeyStep, InvStages, InvRecords, InvVerify, InvOperator
          DEF StartNext, Run
<1>3. StartSpec => []KeyFacts
  <2>1. TypeOK /\ KeyInv <=> KeyFacts
    BY DEF KeyFacts
  <2> QED BY <2>1, StartupKeepsTheKeys, TypeCorrect, KeyInvariant, PTL
<1> QED BY <1>1, <1>2, <1>3, PTL DEF StartSpec

-----------------------------------------------------------------------------
\* Every reachable state is well typed.
THEOREM StartupTypeCorrect == StartSpec => []StartTypeOK
<1>1. StartInv => StartTypeOK
  BY DEF StartInv
<1> QED BY <1>1, StartInvariant, PTL

\* Every log verifies with the public half on disk, in every state (runCommand).
THEOREM LogsVerifyWithTheAnchor == StartSpec => []LogsUnderAnchor
<1>1. StartInv => LogsUnderAnchor
  BY DEF StartInv
<1> QED BY <1>1, StartInvariant, PTL

\* verify reports no untouched log, unless the private half was lost
\* (resolvePublicKey, verifyCommand).
THEOREM UntouchedLogsPassVerify == StartSpec => []VerifyNeverAccuses
<1>1. StartInv => VerifyNeverAccuses
  BY DEF StartInv
<1> QED BY <1>1, StartInvariant, PTL

\* No call is recorded outside its session's header, and none is served without
\* one (runCommand).
THEOREM TrafficIsDeclared == StartSpec => []TrafficUnderItsHeader
<1>1. StartInv => TrafficUnderItsHeader
  <2> SUFFICES ASSUME StartInv PROVE TrafficUnderItsHeader OBVIOUS
  <2>1. ASSUME NEW g \in Gateways, stage[g] = "serve"
        PROVE  \E e \in EntriesOf(LogOf[g]) : e.session = session[g] /\ e.body = "header"
    <3>1. PICK h \in 1..Len(log[LogOf[g]]) : Heads(h, log[LogOf[g]], session[g])
      BY <2>1 DEF StartInv, Headed
    <3>2. log[LogOf[g]] \in Seq(Entry)
      BY StartupAssumption DEF StartInv, StartTypeOK
    <3>3. h \in h..Len(log[LogOf[g]])
      BY <3>1, <3>2
    <3> QED BY <3>1, <3>3 DEF Heads, EntriesOf
  <2> QED BY <2>1 DEF StartInv, CallsUnderHeaders, TrafficUnderItsHeader
<1> QED BY <1>1, StartInvariant, PTL

\* Races, crashes and failed writes of whole runs never orphan a public half.
THEOREM RunsNeverOrphanTheAnchor == StartSpec => []NeverOrphaned
BY StartupKeepsTheKeys, AnchorsAreNeverOrphaned, PTL

\* No step of a run, of verify or of the operator replaces a complete key.
THEOREM RunsNeverReplaceAKey == StartSpec => NeverReplaced
BY StartupKeepsTheKeys, CompleteKeysStay, PTL
=============================================================================
