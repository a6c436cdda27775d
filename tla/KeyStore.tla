------------------------------ MODULE KeyStore ------------------------------
(***************************************************************************)
(* The signing key on disk (internal/audit, keys.go): gateways that load   *)
(* the key pair, or create it on their first run, as two files published   *)
(* one after the other.  Nothing locks them: a client launches several     *)
(* gateways at once, and each may crash or fail to write at any step.      *)
(*                                                                         *)
(* A file holds NoFile (it does not exist), Damaged (created, not yet or   *)
(* never wholly written) or a key; a key stands for both of its halves.    *)
(***************************************************************************)
EXTENDS FiniteSets

CONSTANTS
  Gateways,         \* the processes started with this key path
  Keys,             \* bound: the key pairs that may ever be generated
  NoFile, Damaged,
  MayLose           \* the operator may lose the private half

ASSUME KeyAssumption ==
  /\ NoFile # Damaged /\ {NoFile, Damaged} \cap Keys = {}
  /\ MayLose \in BOOLEAN

VARIABLES
  priv, pub,  \* the two files
  pc,         \* each gateway's next step
  key,        \* the key each gateway holds, or NoFile
  generated,  \* history: the keys generated so far
  lost        \* history: the private half was lost

fileVars == <<priv, pub>>
vars == <<fileVars, pc, key, generated, lost>>

Init ==
  /\ priv = NoFile /\ pub = NoFile
  /\ pc = [g \in Gateways |-> "load"] /\ key = [g \in Gateways |-> NoFile]
  /\ generated = {} /\ lost = FALSE

Goes(g, step) == pc' = [pc EXCEPT ![g] = step]

-----------------------------------------------------------------------------
\* An existing private half: load it, then match or restore the public one.

Loads(file) == file \in Keys

LoadSigningKey(g) ==
  /\ pc[g] = "load"
  /\ \/ /\ Loads(priv) /\ Goes(g, "ensure")
        /\ key' = [key EXCEPT ![g] = priv]
     \/ priv = NoFile /\ Goes(g, "stat") /\ UNCHANGED key
     \/ priv = Damaged /\ Goes(g, "failed") /\ UNCHANGED key
  /\ UNCHANGED <<fileVars, generated, lost>>

\* Fault: any public half will do.
Matches_Any(g) == pub \in Keys
Matches(g) == pub = key[g]

EnsurePublicKey(g) ==
  /\ pc[g] = "ensure"
  /\ \/ pub = NoFile /\ Goes(g, "createPublic")
     \/ pub # NoFile /\ Matches(g) /\ Goes(g, "ready")
     \/ pub # NoFile /\ ~Matches(g) /\ Goes(g, "failed")
  /\ UNCHANGED <<fileVars, key, generated, lost>>

-----------------------------------------------------------------------------
\* A first run: generate, then publish the private half and the public one.

\* A public half alone is the trust anchor of older logs: no new key beside it.
Generate(g) ==
  /\ pc[g] = "stat"
  /\ \/ pub # NoFile /\ Goes(g, "failed") /\ UNCHANGED <<key, generated>>
     \/ /\ pub = NoFile /\ Goes(g, "createPrivate")
        /\ \E k \in Keys \ generated :
             key' = [key EXCEPT ![g] = k] /\ generated' = generated \cup {k}
  /\ UNCHANGED <<fileVars, lost>>

\* Fault: the file is truncated if it exists (no O_EXCL).
Creatable_Any(file) == TRUE
Creatable(file) == file = NoFile

CreatePrivate(g) ==
  /\ pc[g] = "createPrivate"
  /\ \/ Creatable(priv) /\ priv' = Damaged /\ Goes(g, "writePrivate")
     \/ ~Creatable(priv) /\ Goes(g, "failed") /\ UNCHANGED priv
  /\ UNCHANGED <<pub, key, generated, lost>>

\* Fault: a failed write goes unnoticed.
AfterFailedPrivate_Continues == "createPublic"
AfterFailedPrivate == "failed"

\* The write may fail, or the close after it.
WritePrivate(g) ==
  /\ pc[g] = "writePrivate"
  /\ \/ priv' = key[g] /\ Goes(g, "createPublic")
     \/ Goes(g, AfterFailedPrivate) /\ priv' \in {priv, key[g]}
  /\ UNCHANGED <<pub, key, generated, lost>>

CreatePublic(g) ==
  /\ pc[g] = "createPublic"
  /\ \/ Creatable(pub) /\ pub' = Damaged /\ Goes(g, "writePublic")
     \/ ~Creatable(pub) /\ Goes(g, "failed") /\ UNCHANGED pub
  /\ UNCHANGED <<priv, key, generated, lost>>

WritePublic(g) ==
  /\ pc[g] = "writePublic"
  /\ \/ pub' = key[g] /\ Goes(g, "ready")
     \/ Goes(g, "failed") /\ pub' \in {pub, key[g]}
  /\ UNCHANGED <<priv, key, generated, lost>>

-----------------------------------------------------------------------------
Crash(g) ==
  /\ pc[g] \notin {"failed", "ready"} /\ Goes(g, "failed")
  /\ UNCHANGED <<fileVars, key, generated, lost>>

\* The client launches the gateway again, after a failure or a finished session.
Restart(g) ==
  /\ pc[g] \in {"failed", "ready"} /\ Goes(g, "load")
  /\ key' = [key EXCEPT ![g] = NoFile]
  /\ UNCHANGED <<fileVars, generated, lost>>

Gateway(g) ==
  \/ LoadSigningKey(g) \/ EnsurePublicKey(g) \/ Generate(g) \/ CreatePrivate(g)
  \/ WritePrivate(g) \/ CreatePublic(g) \/ WritePublic(g) \/ Crash(g) \/ Restart(g)

\* The operator loses the private half, or clears away a damaged file that no
\* gateway is still writing.
LosePrivate ==
  /\ MayLose /\ priv \in Keys /\ priv' = NoFile /\ lost' = TRUE
  /\ UNCHANGED <<pub, pc, key, generated>>

ClearDamaged ==
  /\ \A g \in Gateways : pc[g] \notin {"writePrivate", "writePublic"}
  /\ \/ priv = Damaged /\ priv' = NoFile /\ UNCHANGED pub
     \/ pub = Damaged /\ pub' = NoFile /\ UNCHANGED priv
  /\ UNCHANGED <<pc, key, generated, lost>>

Next == (\E g \in Gateways : Gateway(g)) \/ LosePrivate \/ ClearDamaged

Spec == Init /\ [][Next]_vars

-----------------------------------------------------------------------------
TypeOK ==
  /\ {priv, pub} \subseteq Keys \cup {NoFile, Damaged}
  /\ pc \in [Gateways -> {"load", "ensure", "stat", "createPrivate", "writePrivate",
                          "createPublic", "writePublic", "failed", "ready"}]
  /\ key \in [Gateways -> Keys \cup {NoFile}]
  /\ generated \subseteq Keys /\ lost \in BOOLEAN

\* A gateway that starts signs with the key whose public half is on disk, so that
\* a log it writes verifies: whichever gateways race, crash or fail, and even if
\* the private half was lost and made anew meanwhile (LoadOrCreateSigningKey).
SignsUnderAnchor == \A g \in Gateways : pc[g] = "ready" => pub = key[g]

\* A complete key on disk is never replaced: the private half can only be lost,
\* the public one stays (writePrivateKey, writePublicKey).
NeverReplaced ==
  [][/\ pub \in Keys => pub' = pub
     /\ priv \in Keys => priv' \in {priv, NoFile}]_vars

\* Crashes, failed writes and races alone never orphan a public half: while one is
\* on disk, whole or damaged, the private key it belongs to is there in full.
NeverOrphaned ==
  ~lost => (pub # NoFile => priv \in Keys) /\ (pub \in Keys => pub = priv)
=============================================================================
