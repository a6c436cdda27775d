----------------------------- MODULE AuditChain -----------------------------
(***************************************************************************)
(* The audit log's format (internal/audit): sealing an entry, walking the  *)
(* chain (Verify) and resuming it (lastState).                             *)
(*                                                                         *)
(* A file is the sequence of the writes made to it.  A write is an entry   *)
(* and how much of its line arrived: "whole" with its newline, "noLF" all  *)
(* but the newline, "part" a shorter prefix.  SHA-256 is ideal: the hash   *)
(* of some content is that content.  A signature is a key and what it      *)
(* signed; nobody can make one for a key they do not hold.  The canonical  *)
(* form, content_hash and the record kinds are folded into the content:    *)
(* every stored member takes part in the seal.                             *)
(***************************************************************************)
EXTENDS Integers, Sequences, FiniteSetsExt

Genesis == <<>>                          \* genesisHash

Content(e) == <<e.session, e.body, e.seq, e.prev>>

Seal(key, session, body, seq, prev) ==
  LET content == <<session, body, seq, prev>> IN
  [session |-> session, body |-> body, seq |-> seq, prev |-> prev,
   hash |-> content, sig |-> <<key, content>>]

Wrote(e, cut) == [entry |-> e, cut |-> cut]
Cuts == {"whole", "noLF", "part"}

EndsWithNewline(file) == file # <<>> => file[Len(file)].cut = "whole"

\* scanLines: a write is a line of its own when it starts after a newline and
\* ends at one, or at the end of the file.
OwnLine(file, i) ==
  /\ i > 1 => file[i - 1].cut = "whole"
  /\ \/ file[i].cut = "whole"
     \/ file[i].cut = "noLF" /\ i = Len(file)

PrevHash(file, i) == IF i = 1 THEN Genesis ELSE file[i - 1].entry.hash

PrevSeq(file, i) == IF i = 1 THEN 0 ELSE file[i - 1].entry.seq

\* Fault: a signature counts whoever made it.
SignatureHolds_AnyKey(e, key) == e.sig[2] = Content(e)
SignatureHolds(e, key) == e.sig = <<key, Content(e)>>

\* Verify's checks on one line, in the order it makes them.
Problem(file, i, key) ==
  LET e == file[i].entry IN
  IF ~OwnLine(file, i)                   THEN "unreadable"
  ELSE IF e.hash # Content(e)            THEN "modified"
  ELSE IF ~SignatureHolds(e, key)        THEN "forged"
  ELSE IF e.prev # PrevHash(file, i)     THEN "unlinked"
  ELSE IF e.seq # PrevSeq(file, i) + 1   THEN "misnumbered"
  ELSE "none"

\* Verify stops at the first bad line; "unreadable" is an error rather than a
\* finding.
Verdict(file, key) ==
  LET bad == {i \in 1..Len(file) : Problem(file, i, key) # "none"} IN
  IF bad = {} THEN "OK" ELSE Problem(file, Min(bad), key)

\* Fault: a log that merely verifies is continued, newline or not.
Resumable_NoLF(file, key) == Verdict(file, key) = "OK"

\* lastState: a log is continued only if it ends with a newline and verifies.
Resumable(file, key) == EndsWithNewline(file) /\ Verdict(file, key) = "OK"
LastSeq(file)  == PrevSeq(file, Len(file) + 1)
LastHash(file) == PrevHash(file, Len(file) + 1)
=============================================================================
