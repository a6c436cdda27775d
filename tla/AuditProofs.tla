---------------------------- MODULE AuditProofs ----------------------------
(***************************************************************************)
(* Theorems about AuditLog, for every set of sessions, files and edits.    *)
(* Those about the lock and about tampering hold for any rotation; those   *)
(* about the chain a log's own sessions leave hold as long as nobody moves *)
(* the log aside while a session opens it.                                 *)
(***************************************************************************)
EXTENDS AuditLog, TLAPS, WellFoundedInduction, SequenceTheorems

-----------------------------------------------------------------------------
\* Naturals and sequences.

LEMMA LeastNatural ==
  ASSUME NEW S \in SUBSET Nat, S # {}
  PROVE  \E n \in S : \A m \in S : n <= m
<1> DEFINE R == {ss \in Nat \X Nat : ss[1] < ss[2]}
<1>1. IsWellFoundedOn(R, Nat)
  BY NatLessThanWellFounded DEF OpToRel
<1> HIDE DEF R
<1>2. PICK x \in S : \A y \in S : ~ (<<y, x>> \in R)
  BY <1>1, WFMin
<1>3. \A x1, y1 \in Nat : y1 < x1 => <<y1, x1>> \in R
  BY DEF R
<1>4. \A y \in S : ~ (y < x)
  BY <1>2, <1>3
<1> QED BY <1>4

LEMMA MinIsLeast ==
  ASSUME NEW S \in SUBSET Nat, S # {}
  PROVE  Min(S) \in S /\ \A m \in S : Min(S) <= m
BY LeastNatural DEF Min

\* A sequence, whatever its elements are: hashes nest without bound.
IsSeq(s) == \E S : s \in Seq(S)

LEMMA SeqAppend ==
  ASSUME NEW s, IsSeq(s), NEW e
  PROVE  /\ Len(s) \in Nat /\ IsSeq(Append(s, e)) /\ Len(Append(s, e)) = Len(s) + 1
         /\ Append(s, e)[Len(s) + 1] = e
         /\ \A i \in 1..Len(s) : Append(s, e)[i] = s[i]
<1>1. PICK S : s \in Seq(S)
  BY DEF IsSeq
<1>2. s \in Seq(S \cup {e})
  BY <1>1
<1> QED BY <1>2 DEF IsSeq

LEMMA SeqIsFunction ==
  ASSUME NEW s, IsSeq(s)
  PROVE  Len(s) \in Nat /\ s = [i \in 1..Len(s) |-> s[i]]
BY DEF IsSeq

LEMMA FunctionIsSeq ==
  ASSUME NEW n \in Nat, NEW t, t = [i \in 1..n |-> t[i]]
  PROVE  IsSeq(t) /\ Len(t) = n
<1> DEFINE S == {t[i] : i \in 1..n}
<1>1. t \in [1..n -> S]
  OBVIOUS
<1>2. t \in Seq(S)
  BY <1>1, IsASeq
<1>3. Len(t) \in Nat /\ DOMAIN t = 1..Len(t)
  BY <1>2, LenProperties
<1>4. DOMAIN t = 1..n
  BY <1>1
<1>5. Len(t) = n
  BY <1>3, <1>4
<1> QED BY <1>2, <1>5 DEF IsSeq

\* A part of a sequence, and two parts joined.
LEMMA SeqPart ==
  ASSUME NEW S, NEW s \in Seq(S), NEW m \in 1..(Len(s) + 1), NEW n \in (m - 1)..Len(s)
  PROVE  LET t == SubSeq(s, m, n) IN
         t \in Seq(S) /\ Len(t) = n - m + 1 /\ \A i \in 1..(n - m + 1) : t[i] = s[m + i - 1]
<1>1. Len(s) \in Nat /\ \A i \in m..n : s[i] \in S
  OBVIOUS
<1> QED BY <1>1, SubSeqProperties

LEMMA SeqRemove ==
  ASSUME NEW s, IsSeq(s), NEW k \in 1..Len(s)
  PROVE  /\ IsSeq(RemoveAt(s, k)) /\ Len(RemoveAt(s, k)) = Len(s) - 1 /\ Len(s) \in Nat
         /\ \A i \in 1..(Len(s) - 1) : RemoveAt(s, k)[i] = IF i < k THEN s[i] ELSE s[i + 1]
<1>1. PICK S : s \in Seq(S)
  BY DEF IsSeq
<1> DEFINE a == SubSeq(s, 1, k - 1)
           b == SubSeq(s, k + 1, Len(s))
<1>2. Len(s) \in Nat
  BY <1>1
<1>3. a \in Seq(S) /\ Len(a) = k - 1 /\ \A i \in 1..(k - 1) : a[i] = s[i]
  BY <1>1, <1>2, SeqPart
<1>4. b \in Seq(S) /\ Len(b) = Len(s) - k /\ \A i \in 1..(Len(s) - k) : b[i] = s[k + i]
  BY <1>1, <1>2, SeqPart
<1>5. RemoveAt(s, k) = a \o b
  BY DEF RemoveAt
<1> HIDE DEF a, b
<1>6. /\ a \o b \in Seq(S) /\ Len(a \o b) = Len(a) + Len(b)
      /\ \A i \in 1..(Len(a) + Len(b)) :
           (a \o b)[i] = IF i <= Len(a) THEN a[i] ELSE b[i - Len(a)]
  BY <1>3, <1>4, ConcatProperties
<1>7. ASSUME NEW i \in 1..(Len(s) - 1)
      PROVE  (a \o b)[i] = IF i < k THEN s[i] ELSE s[i + 1]
  <2>0. i < k \/ i >= k
    BY <1>2
  <2>1. CASE i < k
    BY <1>2, <1>3, <1>4, <1>6, <2>1
  <2>2. CASE i >= k
    <3>1. (a \o b)[i] = b[i - (k - 1)] /\ i - (k - 1) \in 1..(Len(s) - k)
      BY <1>2, <1>3, <1>4, <1>6, <2>2
    <3>2. b[i - (k - 1)] = s[k + (i - (k - 1))] /\ k + (i - (k - 1)) = i + 1
      BY <1>2, <1>4, <3>1
    <3> QED BY <2>2, <3>1, <3>2
  <2> QED BY <2>0, <2>1, <2>2
<1> QED BY <1>2, <1>3, <1>4, <1>5, <1>6, <1>7 DEF IsSeq

\* What an inserted or a moved line leaves: lines that were there before.
LEMMA SeqInsert ==
  ASSUME NEW s, IsSeq(s), NEW k \in 1..Len(s), NEW e
  PROVE  /\ IsSeq(InsertAt(s, k, e)) /\ Len(InsertAt(s, k, e)) = Len(s) + 1
         /\ \A i \in 1..(Len(s) + 1) :
              InsertAt(s, k, e)[i] = e \/ \E j \in 1..Len(s) : InsertAt(s, k, e)[i] = s[j]
<1>1. PICK S : s \in Seq(S)
  BY DEF IsSeq
<1> DEFINE a == SubSeq(s, 1, k - 1)
           b == SubSeq(s, k, Len(s))
           T == {s[j] : j \in 1..Len(s)} \cup {e}
           c == a \o <<e>>
<1>2. Len(s) \in Nat /\ \A j \in 1..Len(s) : s[j] \in T
  BY <1>1
<1>3. s \in Seq(T)
  BY <1>1, <1>2
<1> HIDE DEF T
<1>4. a \in Seq(T) /\ Len(a) = k - 1
  BY <1>2, <1>3, SeqPart
<1>5. b \in Seq(T) /\ Len(b) = Len(s) - k + 1
  BY <1>2, <1>3, SeqPart
<1>6. <<e>> \in Seq(T) /\ Len(<<e>>) = 1
  BY DEF T
<1>7. InsertAt(s, k, e) = c \o b
  BY DEF InsertAt
<1> HIDE DEF a, b
<1>8. c \in Seq(T) /\ Len(c) = k
  BY <1>2, <1>4, <1>6, ConcatProperties
<1> HIDE DEF c
<1>9. c \o b \in Seq(T) /\ Len(c \o b) = Len(s) + 1
  <2>1. c \o b \in Seq(T) /\ Len(c \o b) = Len(c) + Len(b)
    BY <1>5, <1>8, ConcatProperties
  <2> QED BY <1>2, <1>5, <1>8, <2>1
<1>10. \A i \in 1..(Len(s) + 1) : InsertAt(s, k, e)[i] \in T
  BY <1>7, <1>9, ElementOfSeq
<1> QED BY <1>7, <1>9, <1>10 DEF IsSeq, T

-----------------------------------------------------------------------------
\* The state.

Steps == {"down", "lock", "read", "header", "up", "writing", "gone"}

IsEntry(e) ==
  /\ e = [session |-> e.session, body |-> e.body, seq |-> e.seq, prev |-> e.prev,
          hash |-> e.hash, sig |-> e.sig]
  /\ e.session \in Sessions /\ e.body \in Bodies \cup {Header} /\ e.seq \in Nat

IsWrite(w) == w = [entry |-> w.entry, cut |-> w.cut] /\ IsEntry(w.entry) /\ w.cut \in Cuts

IsFile(file) == IsSeq(file) /\ \A i \in 1..Len(file) : IsWrite(file[i])

FileTypes ==
  /\ path \in Inodes \cup {NoFile} /\ edits \in 0..MaxEdits
  /\ files = [f \in Inodes |-> files[f]] /\ \A f \in Inodes : IsFile(files[f])

SessionTypes ==
  /\ lock \in [Inodes -> Sessions \cup {Nobody}] /\ pc \in [Sessions -> Steps]
  /\ handle \in [Sessions -> Inodes \cup {NoFile}]
  /\ seq \in [Sessions -> Nat] /\ at \in [Sessions -> 0..MaxWrites]
  /\ prevHash = [s \in Sessions |-> prevHash[s]]

\* Whoever waits for a lock or is past it has a file; who is past it holds the
\* lock, and nobody else does.
LockInv ==
  /\ \A s \in Sessions : pc[s] = "lock" \/ Active(s) => handle[s] \in Inodes
  /\ \A s \in Sessions : Active(s) => lock[handle[s]] = s
  /\ \A f \in Inodes : lock[f] # Nobody => Active(lock[f]) /\ handle[lock[f]] = f

\* A write in progress is the last one of its file and its session's own.
AtEnd ==
  \A s \in Sessions : pc[s] = "writing" =>
    /\ Len(files[handle[s]]) >= 1 /\ at[s] = Len(files[handle[s]])
    /\ Writing(s).session = s

AuditInv == FileTypes /\ SessionTypes /\ LockInv /\ AtEnd

LEMMA LockIsExclusive ==
  ASSUME SessionTypes, LockInv
  PROVE  OneWriter
BY DEF SessionTypes, LockInv, OneWriter, Active

-----------------------------------------------------------------------------
\* What each step does to the files.

LEMMA BeginFacts ==
  ASSUME AuditInv, NEW s \in Sessions, NEW body \in Bodies \cup {Header}, BeginWrite(s, body)
  PROVE  LET f == handle[s]
             e == Seal(Key, s, body, seq[s] + 1, prevHash[s]) IN
         /\ f \in Inodes /\ Active(s) /\ lock[f] = s
         /\ files' = [g \in Inodes |-> files'[g]]
         /\ \A g \in Inodes : g # f => files'[g] = files[g]
         /\ Len(files[f]) \in Nat /\ Len(files[f]) < MaxWrites
         /\ IsSeq(files'[f]) /\ Len(files'[f]) = Len(files[f]) + 1
         /\ files'[f][Len(files[f]) + 1] = Wrote(e, "part")
         /\ \A i \in 1..Len(files[f]) : files'[f][i] = files[f][i]
<1> DEFINE f == handle[s]
           e == Seal(Key, s, body, seq[s] + 1, prevHash[s])
<1>1. f \in Inodes /\ Active(s) /\ lock[f] = s
  BY DEF AuditInv, LockInv, BeginWrite, MayAppend, Active
<1>2. /\ IsSeq(files[f]) /\ files = [g \in Inodes |-> files[g]]
      /\ Len(files[f]) < MaxWrites /\ files' = [files EXCEPT ![f] = Append(@, Wrote(e, "part"))]
  BY <1>1 DEF AuditInv, FileTypes, IsFile, BeginWrite
<1>3. /\ files'[f] = Append(files[f], Wrote(e, "part"))
      /\ files' = [g \in Inodes |-> files'[g]]
      /\ \A g \in Inodes : g # f => files'[g] = files[g]
  BY <1>1, <1>2
<1> QED BY <1>1, <1>2, <1>3, SeqAppend

LEMMA ArriveFacts ==
  ASSUME AuditInv, NEW s \in Sessions, pc[s] = "writing", NEW cut \in Cuts, Arrives(s, cut)
  PROVE  LET f == handle[s] IN
         /\ f \in Inodes /\ lock[f] = s /\ at[s] = Len(files[f]) /\ Len(files[f]) \in Nat \ {0}
         /\ files' = [g \in Inodes |-> files'[g]]
         /\ \A g \in Inodes : g # f => files'[g] = files[g]
         /\ IsSeq(files'[f]) /\ Len(files'[f]) = Len(files[f])
         /\ files'[f][at[s]] = Wrote(Writing(s), cut)
         /\ \A i \in 1..Len(files[f]) : i # at[s] => files'[f][i] = files[f][i]
<1> DEFINE f == handle[s]
           w == [files[f][at[s]] EXCEPT !.cut = cut]
<1>1. f \in Inodes /\ lock[f] = s /\ at[s] = Len(files[f]) /\ Len(files[f]) >= 1
  BY DEF AuditInv, LockInv, AtEnd, Active
<1>2. IsSeq(files[f]) /\ files = [g \in Inodes |-> files[g]] /\ at[s] \in Nat
  BY <1>1 DEF AuditInv, FileTypes, IsFile, SessionTypes
<1>3. at[s] \in 1..Len(files[f]) /\ IsWrite(files[f][at[s]])
  BY <1>1, <1>2 DEF AuditInv, FileTypes, IsFile
<1>4. w = Wrote(Writing(s), cut)
  BY <1>3 DEF IsWrite, Wrote, Writing
<1>5. files' = [files EXCEPT ![f] = [files[f] EXCEPT ![at[s]] = w]]
  BY DEF Arrives
<1>6. /\ files'[f] = [files[f] EXCEPT ![at[s]] = w]
      /\ files' = [g \in Inodes |-> files'[g]]
      /\ \A g \in Inodes : g # f => files'[g] = files[g]
  BY <1>1, <1>2, <1>5
<1> HIDE DEF w
<1>7. Len(files[f]) \in Nat /\ files[f] = [i \in 1..Len(files[f]) |-> files[f][i]]
  BY <1>2, SeqIsFunction
<1>8. /\ files'[f] = [i \in 1..Len(files[f]) |-> files'[f][i]]
      /\ \A i \in 1..Len(files[f]) : files'[f][i] = IF i = at[s] THEN w ELSE files[f][i]
  BY <1>3, <1>6, <1>7
<1>9. IsSeq(files'[f]) /\ Len(files'[f]) = Len(files[f])
  BY <1>7, <1>8, FunctionIsSeq
<1> QED BY <1>1, <1>3, <1>4, <1>6, <1>7, <1>8, <1>9

LEMMA RemoveFacts ==
  ASSUME AuditInv, NEW s \in Sessions, pc[s] = "writing",
         files' = [files EXCEPT ![handle[s]] = RemoveAt(@, at[s])]
  PROVE  LET f == handle[s] IN
         /\ f \in Inodes /\ lock[f] = s /\ at[s] = Len(files[f]) /\ Len(files[f]) \in Nat \ {0}
         /\ files' = [g \in Inodes |-> files'[g]]
         /\ \A g \in Inodes : g # f => files'[g] = files[g]
         /\ IsSeq(files'[f]) /\ Len(files'[f]) = Len(files[f]) - 1
         /\ \A i \in 1..(Len(files[f]) - 1) : files'[f][i] = files[f][i]
<1> DEFINE f == handle[s]
<1>1. f \in Inodes /\ lock[f] = s /\ at[s] = Len(files[f]) /\ Len(files[f]) >= 1
  BY DEF AuditInv, LockInv, AtEnd, Active
<1>2. IsSeq(files[f]) /\ files = [g \in Inodes |-> files[g]] /\ at[s] \in Nat
  BY <1>1 DEF AuditInv, FileTypes, IsFile, SessionTypes
<1>3. /\ files'[f] = RemoveAt(files[f], at[s])
      /\ files' = [g \in Inodes |-> files'[g]]
      /\ \A g \in Inodes : g # f => files'[g] = files[g]
  BY <1>1, <1>2
<1>4. /\ IsSeq(files'[f]) /\ Len(files'[f]) = Len(files[f]) - 1 /\ Len(files[f]) \in Nat
      /\ \A i \in 1..(Len(files[f]) - 1) :
           files'[f][i] = IF i < at[s] THEN files[f][i] ELSE files[f][i + 1]
  BY <1>1, <1>2, <1>3, SeqRemove
<1>5. \A i \in 1..(Len(files[f]) - 1) : i < at[s]
  BY <1>1, <1>2
<1> QED BY <1>1, <1>2, <1>3, <1>4, <1>5

\* An edit leaves lines that were there, and at most one whose entry was altered.
Forged(old) == UNION {Resealed(changed) : changed \in Altered(old)}

LEMMA EditFacts ==
  ASSUME AuditInv, NEW f \in Inodes, NEW i \in 1..Len(files[f]), Edit(f, i)
  PROVE  /\ Quiet /\ UNCHANGED <<path, lock, pc, handle, loggerVars, at, sealed>>
         /\ edits < MaxEdits /\ edits' = edits + 1
         /\ files' = [g \in Inodes |-> files'[g]]
         /\ \A g \in Inodes : g # f => files'[g] = files[g]
         /\ IsSeq(files'[f])
         /\ \A k \in 1..Len(files'[f]) :
              \/ \E j \in 1..Len(files[f]) : files'[f][k] = files[f][j]
              \/ \E e \in Forged(files[f][i].entry) :
                   files'[f][k] = [entry |-> e, cut |-> files[f][i].cut]
<1> DEFINE old == files[f]
           Result(content) ==
             /\ IsSeq(content)
             /\ \A k \in 1..Len(content) :
                  \/ \E j \in 1..Len(old) : content[k] = old[j]
                  \/ \E e \in Forged(old[i].entry) : content[k] = [entry |-> e, cut |-> old[i].cut]
<1>1. /\ IsSeq(old) /\ files = [g \in Inodes |-> files[g]] /\ IsWrite(old[i])
      /\ Len(old) \in Nat /\ old = [k \in 1..Len(old) |-> old[k]] /\ i \in 1..Len(old)
  <2>1. IsSeq(old) /\ files = [g \in Inodes |-> files[g]] /\ IsWrite(old[i])
    BY DEF AuditInv, FileTypes, IsFile
  <2> QED BY <2>1, SeqIsFunction
<1>2. ASSUME NEW content, Edits(f, content), Result(content)
      PROVE  /\ Quiet /\ UNCHANGED <<path, lock, pc, handle, loggerVars, at, sealed>>
             /\ edits < MaxEdits /\ edits' = edits + 1
             /\ files' = [g \in Inodes |-> files'[g]]
             /\ \A g \in Inodes : g # f => files'[g] = files[g]
             /\ Result(files'[f])
  <2>1. files'[f] = content
    BY <1>1, <1>2 DEF Edits
  <2>2. /\ files' = [g \in Inodes |-> files'[g]]
        /\ \A g \in Inodes : g # f => files'[g] = files[g]
    BY <1>1, <1>2 DEF Edits
  <2> HIDE DEF Result
  <2> QED BY <1>2, <2>1, <2>2 DEF Edits
<1>3. Result(RemoveAt(old, i))
  <2>1. /\ IsSeq(RemoveAt(old, i)) /\ Len(RemoveAt(old, i)) = Len(old) - 1
        /\ \A k \in 1..(Len(old) - 1) : RemoveAt(old, i)[k] = IF k < i THEN old[k] ELSE old[k + 1]
    BY <1>1, SeqRemove
  <2>2. \A k \in 1..(Len(old) - 1) : k \in 1..Len(old) /\ k + 1 \in 1..Len(old)
    BY <1>1
  <2> HIDE DEF old
  <2> QED BY <2>1, <2>2
<1>4. ASSUME NEW j \in 1..Len(old)
      PROVE  Result([old EXCEPT ![i] = old[j], ![j] = old[i]])
  <2>1. PICK t : t = [old EXCEPT ![i] = old[j], ![j] = old[i]]
    OBVIOUS
  <2> HIDE DEF old
  <2>2. /\ t = [k \in 1..Len(old) |-> t[k]]
        /\ \A k \in 1..Len(old) : t[k] = old[i] \/ t[k] = old[j] \/ t[k] = old[k]
    BY <1>1, <2>1
  <2>3. IsSeq(t) /\ Len(t) = Len(old)
    BY <1>1, <2>2, FunctionIsSeq
  <2>4. ASSUME NEW k \in 1..Len(old)
        PROVE  \E m \in 1..Len(old) : t[k] = old[m]
    BY <1>1, <2>2
  <2>5. Result(t)
    BY <2>3, <2>4
  <2> QED BY <2>1, <2>5
<1>5. ASSUME NEW j \in 1..Len(old)
      PROVE  Result(InsertAt(old, i, old[j]))
  <2>1. /\ IsSeq(InsertAt(old, i, old[j])) /\ Len(InsertAt(old, i, old[j])) = Len(old) + 1
        /\ \A k \in 1..(Len(old) + 1) :
             \/ InsertAt(old, i, old[j])[k] = old[j]
             \/ \E m \in 1..Len(old) : InsertAt(old, i, old[j])[k] = old[m]
    BY <1>1, SeqInsert
  <2> HIDE DEF old
  <2> QED BY <2>1
<1>6. ASSUME NEW e \in Forged(old[i].entry)
      PROVE  Result([old EXCEPT ![i].entry = e])
  <2> DEFINE w == [old[i] EXCEPT !.entry = e]
  <2>1. PICK t : t = [old EXCEPT ![i].entry = e]
    OBVIOUS
  <2>2. t = [old EXCEPT ![i] = w] /\ w = [entry |-> e, cut |-> old[i].cut]
    BY <1>1, <2>1 DEF IsWrite
  <2> HIDE DEF w, old
  <2>3. /\ t = [k \in 1..Len(old) |-> t[k]]
        /\ \A k \in 1..Len(old) : t[k] \in {w, old[k]}
    BY <1>1, <2>2
  <2>4. IsSeq(t) /\ Len(t) = Len(old)
    BY <1>1, <2>3, FunctionIsSeq
  <2>5. Result(t)
    BY <2>2, <2>3, <2>4
  <2> QED BY <2>1, <2>5
<1> HIDE DEF Result
<1>7. \E content : Edits(f, content) /\ Result(content)
  <2>1. CASE Edits(f, RemoveAt(old, i))
    BY <1>3, <2>1
  <2>2. ASSUME NEW j \in 1..Len(old), Edits(f, [old EXCEPT ![i] = old[j], ![j] = old[i]])
        PROVE  \E content : Edits(f, content) /\ Result(content)
    BY <1>4, <2>2
  <2>3. ASSUME NEW j \in 1..Len(old), Edits(f, InsertAt(old, i, old[j]))
        PROVE  \E content : Edits(f, content) /\ Result(content)
    BY <1>5, <2>3
  <2>4. ASSUME NEW changed \in Altered(old[i].entry), NEW e \in Resealed(changed),
               Edits(f, [old EXCEPT ![i].entry = e])
        PROVE  \E content : Edits(f, content) /\ Result(content)
    BY <1>6, <2>4 DEF Forged
  <2> QED BY <2>1, <2>2, <2>3, <2>4 DEF Edit
<1>8. PICK content : Edits(f, content) /\ Result(content)
  BY <1>7
<1> QED BY <1>2, <1>8 DEF Result

-----------------------------------------------------------------------------
\* AuditInv is inductive.

\* One file changed, and its writes are still writes.
LEMMA FileTypesKept ==
  ASSUME FileTypes, NEW f \in Inodes,
         files' = [g \in Inodes |-> files'[g]],
         \A g \in Inodes : g # f => files'[g] = files[g],
         IsFile(files[f])', path' \in Inodes \cup {NoFile}, edits' \in 0..MaxEdits
  PROVE  FileTypes'
BY DEF FileTypes

LEMMA HistoryIsFile ==
  ASSUME FileTypes
  PROVE  IsFile(History)
<1>1. IsSeq(<<>>) /\ Len(<<>>) = 0
  BY DEF IsSeq
<1> QED BY <1>1 DEF FileTypes, History, IsFile

LEMMA InitAudit == Init => AuditInv
<1> SUFFICES ASSUME Init
             PROVE  AuditInv
  OBVIOUS
<1>1. IsSeq(<<>>) /\ Len(<<>>) = 0
  BY DEF IsSeq
<1>2. FileTypes
  BY <1>1, AuditAssumption DEF Init, FileTypes, IsFile
<1>3. SessionTypes
  BY AuditAssumption DEF Init, SessionTypes, Steps
<1>4. LockInv /\ AtEnd
  BY DEF Init, LockInv, AtEnd, Active
<1> QED BY <1>2, <1>3, <1>4 DEF AuditInv

\* Steps that leave every file alone.
LEMMA OpenFileAudit ==
  ASSUME AuditInv, NEW s \in Sessions, OpenFile(s)
  PROVE  AuditInv'
<1>1. FileTypes'
  BY DEF AuditInv, FileTypes, OpenFile, Unused
<1>2. SessionTypes' /\ path' \in Inodes
  BY DEF AuditInv, FileTypes, SessionTypes, OpenFile, Unused, Goes, Steps, loggerVars
<1>3. LockInv'
  BY <1>2 DEF AuditInv, SessionTypes, LockInv, Active, OpenFile, Goes
<1>4. AtEnd'
  BY DEF AuditInv, SessionTypes, AtEnd, Writing, OpenFile, Goes
<1> QED BY <1>1, <1>2, <1>3, <1>4 DEF AuditInv

LEMMA LockFileAudit ==
  ASSUME AuditInv, NEW s \in Sessions, LockFile(s)
  PROVE  AuditInv'
<1>1. FileTypes'
  BY DEF AuditInv, FileTypes, LockFile
<1>2. SessionTypes'
  BY DEF AuditInv, SessionTypes, LockFile, Goes, Steps, loggerVars
<1>3. LockInv'
  <2>1. CASE lock[handle[s]] = Nobody /\ lock' = [lock EXCEPT ![handle[s]] = s] /\ Goes(s, "read")
    <3>1. handle[s] \in Inodes /\ ~Active(s)
      BY DEF AuditInv, LockInv, Active, LockFile
    <3>2. handle' = handle /\ pc' = [pc EXCEPT ![s] = "read"] /\ s # Nobody
      BY <2>1, AuditAssumption DEF LockFile, Goes
    <3>3. \A t \in Sessions : pc'[t] = "lock" \/ Active(t)' => handle'[t] \in Inodes
      BY <3>1, <3>2 DEF AuditInv, SessionTypes, LockInv, Active
    <3>4. \A t \in Sessions : Active(t)' => lock'[handle'[t]] = t
      BY <2>1, <3>1, <3>2, AuditAssumption DEF AuditInv, SessionTypes, LockInv, Active
    <3>5. \A f \in Inodes : lock'[f] # Nobody => Active(lock[f])' /\ handle'[lock'[f]] = f
      BY <2>1, <3>1, <3>2 DEF AuditInv, SessionTypes, LockInv, Active
    <3> QED BY <3>3, <3>4, <3>5 DEF LockInv
  <2>2. CASE Goes(s, "gone") /\ UNCHANGED lock
    <3>1. ~Active(s)
      BY DEF Active, LockFile
    <3> QED BY <2>2, <3>1 DEF AuditInv, SessionTypes, LockInv, Active, LockFile, Goes
  <2> QED BY <2>1, <2>2 DEF LockFile, Free
<1>4. AtEnd'
  BY DEF AuditInv, SessionTypes, AtEnd, Writing, LockFile, Goes
<1> QED BY <1>1, <1>2, <1>3, <1>4 DEF AuditInv

LEMMA LastStateAudit ==
  ASSUME AuditInv, NEW s \in Sessions, LastState(s)
  PROVE  AuditInv'
<1>1. FileTypes'
  BY DEF AuditInv, FileTypes, LastState
<1>2. LastSeq(History) \in Nat
  <2>1. IsSeq(History) /\ \A i \in 1..Len(History) : IsWrite(History[i])
    BY HistoryIsFile DEF AuditInv, IsFile
  <2>2. Len(History) \in Nat
    BY <2>1, SeqIsFunction
  <2>3. CASE Len(History) = 0
    BY <2>3 DEF LastSeq, PrevSeq
  <2>4. CASE Len(History) # 0
    <3>1. LastSeq(History) = History[Len(History)].entry.seq
      BY <2>2, <2>4 DEF LastSeq, PrevSeq
    <3>2. IsWrite(History[Len(History)])
      BY <2>1, <2>2, <2>4
    <3> QED BY <3>1, <3>2 DEF IsWrite, IsEntry
  <2> QED BY <2>3, <2>4
<1>3. SessionTypes'
  BY <1>2 DEF AuditInv, SessionTypes, LastState, Goes, Unlock, Steps, loggerVars
<1>4. LockInv'
  BY DEF AuditInv, SessionTypes, LockInv, Active, LastState, Goes, Unlock
<1>5. AtEnd'
  BY DEF AuditInv, SessionTypes, AtEnd, Writing, LastState, Goes
<1> QED BY <1>1, <1>3, <1>4, <1>5 DEF AuditInv

LEMMA CloseAudit ==
  ASSUME AuditInv, NEW s \in Sessions, Close(s)
  PROVE  AuditInv'
<1>1. FileTypes'
  BY DEF AuditInv, FileTypes, Close
<1>2. SessionTypes'
  BY DEF AuditInv, SessionTypes, Close, Goes, Unlock, Steps, loggerVars
<1>3. LockInv'
  BY DEF AuditInv, SessionTypes, LockInv, Active, Close, Goes, Unlock
<1>4. AtEnd'
  BY DEF AuditInv, SessionTypes, AtEnd, Writing, Close, Goes
<1> QED BY <1>1, <1>2, <1>3, <1>4 DEF AuditInv

LEMMA MoveAsideAudit ==
  ASSUME AuditInv, MoveAside
  PROVE  AuditInv'
<1>1. FileTypes'
  BY DEF AuditInv, FileTypes, MoveAside
<1>2. SessionTypes'
  BY DEF AuditInv, SessionTypes, MoveAside, loggerVars
<1>3. LockInv' /\ AtEnd'
  BY DEF AuditInv, LockInv, AtEnd, Active, Writing, MoveAside
<1> QED BY <1>1, <1>2, <1>3 DEF AuditInv

\* Steps that write.
LEMMA BeginWriteAudit ==
  ASSUME AuditInv, NEW s \in Sessions, NEW body \in Bodies \cup {Header}, BeginWrite(s, body)
  PROVE  AuditInv'
<1> DEFINE f == handle[s]
           n == Len(files[f])
           e == Seal(Key, s, body, seq[s] + 1, prevHash[s])
<1>1. /\ f \in Inodes /\ Active(s) /\ lock[f] = s /\ n \in Nat /\ n < MaxWrites
      /\ files' = [g \in Inodes |-> files'[g]]
      /\ \A g \in Inodes : g # f => files'[g] = files[g]
      /\ IsSeq(files'[f]) /\ Len(files'[f]) = n + 1
      /\ files'[f][n + 1] = Wrote(e, "part")
      /\ \A i \in 1..n : files'[f][i] = files[f][i]
  BY BeginFacts
<1>2. IsWrite(Wrote(e, "part"))
  BY DEF AuditInv, SessionTypes, IsWrite, IsEntry, Wrote, Seal, Cuts
<1> HIDE DEF n, e
<1>3. IsFile(files'[f])
  <2>1. \A i \in 1..n : IsWrite(files[f][i])
    BY <1>1 DEF AuditInv, FileTypes, IsFile, n
  <2> QED BY <1>1, <1>2, <2>1 DEF IsFile
<1>4. FileTypes'
  BY <1>1, <1>3, FileTypesKept DEF AuditInv, FileTypes, BeginWrite
<1>5. SessionTypes'
  <2>1. at' = [at EXCEPT ![s] = n + 1] /\ n + 1 \in 0..MaxWrites
    BY <1>1, AuditAssumption DEF BeginWrite, n
  <2> QED BY <2>1 DEF AuditInv, SessionTypes, BeginWrite, Goes, Steps, loggerVars
<1>6. LockInv'
  BY <1>1 DEF AuditInv, SessionTypes, LockInv, Active, BeginWrite, Goes
<1>7. AtEnd'
  <2> SUFFICES ASSUME NEW t \in Sessions, pc'[t] = "writing"
               PROVE  /\ Len(files'[handle'[t]]) >= 1 /\ at'[t] = Len(files'[handle'[t]])
                      /\ files'[handle'[t]][at'[t]].entry.session = t
    BY DEF AtEnd, Writing
  <2>1. CASE t = s
    BY <1>1, <2>1 DEF AuditInv, SessionTypes, BeginWrite, Wrote, Seal, n, e
  <2>2. CASE t # s
    <3>1. pc[t] = "writing" /\ handle'[t] = handle[t] /\ at'[t] = at[t]
      BY <2>2 DEF AuditInv, SessionTypes, BeginWrite, Goes
    <3>2. handle[t] \in Inodes /\ handle[t] # f
      BY <1>1, <2>2, <3>1 DEF AuditInv, LockInv, Active
    <3> QED BY <1>1, <3>1, <3>2 DEF AuditInv, AtEnd, Writing
  <2> QED BY <2>1, <2>2
<1> QED BY <1>4, <1>5, <1>6, <1>7 DEF AuditInv

LEMMA ArriveAudit ==
  ASSUME AuditInv, NEW s \in Sessions, pc[s] = "writing", NEW cut \in Cuts, Arrives(s, cut)
  PROVE  IsFile(files'[handle[s]])
<1> DEFINE f == handle[s]
<1>1. /\ f \in Inodes /\ at[s] = Len(files[f]) /\ Len(files[f]) \in Nat \ {0}
      /\ IsSeq(files'[f]) /\ Len(files'[f]) = Len(files[f])
      /\ files'[f][at[s]] = Wrote(Writing(s), cut)
      /\ \A i \in 1..Len(files[f]) : i # at[s] => files'[f][i] = files[f][i]
  BY ArriveFacts
<1>2. \A i \in 1..Len(files[f]) : IsWrite(files[f][i])
  BY <1>1 DEF AuditInv, FileTypes, IsFile
<1>3. IsWrite(files[f][at[s]])
  BY <1>1, <1>2
<1>4. IsWrite(Wrote(Writing(s), cut))
  BY <1>3 DEF IsWrite, Wrote, Writing
<1> QED BY <1>1, <1>2, <1>4 DEF IsFile

LEMMA RemoveAudit ==
  ASSUME AuditInv, NEW s \in Sessions, pc[s] = "writing",
         files' = [files EXCEPT ![handle[s]] = RemoveAt(@, at[s])]
  PROVE  IsFile(files'[handle[s]])
<1> DEFINE f == handle[s]
<1>1. /\ f \in Inodes /\ Len(files[f]) \in Nat \ {0}
      /\ IsSeq(files'[f]) /\ Len(files'[f]) = Len(files[f]) - 1
      /\ \A i \in 1..(Len(files[f]) - 1) : files'[f][i] = files[f][i]
  BY RemoveFacts
<1>2. \A i \in 1..Len(files[f]) : IsWrite(files[f][i])
  BY <1>1 DEF AuditInv, FileTypes, IsFile
<1> QED BY <1>1, <1>2 DEF IsFile

\* A write that ended, well or badly, and the session after it.
LEMMA EndedAudit ==
  ASSUME AuditInv, NEW s \in Sessions, pc[s] = "writing",
         files' = [g \in Inodes |-> files'[g]],
         \A g \in Inodes : g # handle[s] => files'[g] = files[g],
         IsFile(files'[handle[s]]),
         \/ Goes(s, "up") /\ UNCHANGED lock
         \/ Goes(s, "gone") /\ Unlock(s),
         UNCHANGED <<path, handle, at, edits>>,
         seq' \in [Sessions -> Nat], prevHash' = [t \in Sessions |-> prevHash'[t]]
  PROVE  AuditInv'
<1>1. Active(s) /\ handle[s] \in Inodes /\ lock[handle[s]] = s
  BY DEF AuditInv, LockInv, Active
<1>2. FileTypes'
  BY <1>1, FileTypesKept DEF AuditInv, FileTypes
<1>3. SessionTypes'
  BY DEF AuditInv, SessionTypes, Goes, Unlock, Steps
<1>4. LockInv'
  <2>1. CASE Goes(s, "up") /\ UNCHANGED lock
    BY <1>1, <2>1 DEF AuditInv, SessionTypes, LockInv, Active, Goes
  <2>2. CASE Goes(s, "gone") /\ Unlock(s)
    BY <1>1, <2>2 DEF AuditInv, SessionTypes, LockInv, Active, Goes, Unlock
  <2> QED BY <2>1, <2>2
<1>5. AtEnd'
  <2> SUFFICES ASSUME NEW t \in Sessions, pc'[t] = "writing"
               PROVE  /\ Len(files'[handle'[t]]) >= 1 /\ at'[t] = Len(files'[handle'[t]])
                      /\ files'[handle'[t]][at'[t]].entry.session = t
    BY DEF AtEnd, Writing
  <2>1. t # s /\ pc[t] = "writing"
    BY DEF AuditInv, SessionTypes, Goes
  <2>2. handle[t] \in Inodes /\ handle[t] # handle[s]
    BY <1>1, <2>1 DEF AuditInv, LockInv, Active
  <2> QED BY <2>1, <2>2 DEF AuditInv, AtEnd, Writing
<1> QED BY <1>2, <1>3, <1>4, <1>5 DEF AuditInv

LEMMA WrittenType ==
  ASSUME AuditInv, NEW s \in Sessions, pc[s] = "writing"
  PROVE  IsEntry(Writing(s))
<1>1. handle[s] \in Inodes /\ at[s] = Len(files[handle[s]]) /\ Len(files[handle[s]]) >= 1
  BY DEF AuditInv, LockInv, AtEnd, Active
<1>2. IsSeq(files[handle[s]]) /\ \A i \in 1..Len(files[handle[s]]) : IsWrite(files[handle[s]][i])
  BY <1>1 DEF AuditInv, FileTypes, IsFile
<1>3. Len(files[handle[s]]) \in 1..Len(files[handle[s]])
  BY <1>1, <1>2, SeqIsFunction
<1> QED BY <1>1, <1>2, <1>3 DEF IsWrite, Writing

LEMMA EndWriteAudit ==
  ASSUME AuditInv, NEW s \in Sessions, EndWrite(s)
  PROVE  AuditInv'
<1>1. pc[s] = "writing" /\ Arrives(s, "whole") /\ Goes(s, "up") /\ Advance(s)
      /\ UNCHANGED <<path, lock, handle, at, edits>>
  BY DEF EndWrite
<1>2. /\ files' = [g \in Inodes |-> files'[g]]
      /\ \A g \in Inodes : g # handle[s] => files'[g] = files[g]
  BY <1>1, ArriveFacts DEF Cuts
<1>3. IsFile(files'[handle[s]])
  BY <1>1, ArriveAudit DEF Cuts
<1>4. seq' \in [Sessions -> Nat] /\ prevHash' = [t \in Sessions |-> prevHash'[t]]
  BY <1>1, WrittenType DEF AuditInv, SessionTypes, Advance, IsEntry
<1> QED BY <1>1, <1>2, <1>3, <1>4, EndedAudit

LEMMA FailWriteAudit ==
  ASSUME AuditInv, NEW s \in Sessions, FailWrite(s)
  PROVE  AuditInv'
<1>1. /\ pc[s] = "writing" /\ UNCHANGED <<path, handle, at, edits, loggerVars>>
      /\ \/ Goes(s, "up") /\ UNCHANGED lock
         \/ Goes(s, "gone") /\ Unlock(s)
  BY DEF FailWrite, AfterFailure
<1>2. /\ files' = [g \in Inodes |-> files'[g]]
      /\ \A g \in Inodes : g # handle[s] => files'[g] = files[g]
      /\ IsFile(files'[handle[s]])
  <2>1. CASE Arrives(s, "part")
    BY <1>1, <2>1, ArriveFacts, ArriveAudit DEF Cuts
  <2>2. CASE Arrives(s, "noLF")
    BY <1>1, <2>2, ArriveFacts, ArriveAudit DEF Cuts
  <2>3. CASE files' = [files EXCEPT ![handle[s]] = RemoveAt(@, at[s])]
    BY <1>1, <2>3, RemoveFacts, RemoveAudit
  <2> QED BY <2>1, <2>2, <2>3 DEF FailWrite
<1>3. seq' \in [Sessions -> Nat] /\ prevHash' = [t \in Sessions |-> prevHash'[t]]
  BY <1>1 DEF AuditInv, SessionTypes, loggerVars
<1> QED BY <1>1, <1>2, <1>3, EndedAudit

LEMMA CrashAudit ==
  ASSUME AuditInv, NEW s \in Sessions, Crash(s)
  PROVE  AuditInv'
<1>1. /\ pc[s] \notin {"down", "gone"} /\ Goes(s, "gone") /\ Unlock(s)
      /\ UNCHANGED <<path, handle, at, edits, loggerVars>>
  BY DEF Crash
<1>2. CASE pc[s] = "writing"
  <2>1. PICK cut \in Cuts : Arrives(s, cut)
    BY <1>2 DEF Crash
  <2>2. /\ files' = [g \in Inodes |-> files'[g]]
        /\ \A g \in Inodes : g # handle[s] => files'[g] = files[g]
        /\ IsFile(files'[handle[s]])
    BY <1>2, <2>1, ArriveFacts, ArriveAudit
  <2>3. seq' \in [Sessions -> Nat] /\ prevHash' = [t \in Sessions |-> prevHash'[t]]
    BY <1>1 DEF AuditInv, SessionTypes, loggerVars
  <2> QED BY <1>1, <1>2, <2>2, <2>3, EndedAudit
<1>3. CASE pc[s] # "writing"
  <2>1. UNCHANGED files
    BY <1>3 DEF Crash
  <2>2. FileTypes'
    BY <1>1, <2>1 DEF AuditInv, FileTypes
  <2>3. SessionTypes'
    BY <1>1 DEF AuditInv, SessionTypes, Goes, Unlock, Steps, loggerVars
  <2>4. LockInv'
    BY <1>1 DEF AuditInv, SessionTypes, LockInv, Active, Goes, Unlock
  <2>5. AtEnd'
    BY <1>1, <2>1 DEF AuditInv, SessionTypes, AtEnd, Writing, Goes
  <2> QED BY <2>2, <2>3, <2>4, <2>5 DEF AuditInv
<1> QED BY <1>2, <1>3

LEMMA ForgedIsEntry ==
  ASSUME NEW e0, IsEntry(e0), NEW e \in Forged(e0)
  PROVE  IsEntry(e)
<1>1. PICK changed \in Altered(e0) : e \in Resealed(changed)
  BY DEF Forged
<1>2. IsEntry(changed)
  <2>1. CASE \E b \in Bodies : changed = [e0 EXCEPT !.body = b]
    BY <2>1 DEF IsEntry
  <2>2. CASE changed = [e0 EXCEPT !.seq = @ + 1]
    BY <2>2 DEF IsEntry
  <2>3. CASE changed = [e0 EXCEPT !.prev = Genesis]
    BY <2>3 DEF IsEntry
  <2> QED BY <2>1, <2>2, <2>3 DEF Altered
<1> QED BY <1>1, <1>2 DEF Resealed, IsEntry

LEMMA EditAudit ==
  ASSUME AuditInv, NEW f \in Inodes, NEW i \in 1..Len(files[f]), Edit(f, i)
  PROVE  AuditInv'
<1>1. /\ Quiet /\ UNCHANGED <<path, lock, pc, handle, loggerVars, at, sealed>>
      /\ edits < MaxEdits /\ edits' = edits + 1
      /\ files' = [g \in Inodes |-> files'[g]]
      /\ \A g \in Inodes : g # f => files'[g] = files[g]
      /\ IsSeq(files'[f])
      /\ \A k \in 1..Len(files'[f]) :
           \/ \E j \in 1..Len(files[f]) : files'[f][k] = files[f][j]
           \/ \E e \in Forged(files[f][i].entry) :
                files'[f][k] = [entry |-> e, cut |-> files[f][i].cut]
  BY EditFacts
<1>2. \A j \in 1..Len(files[f]) : IsWrite(files[f][j])
  BY DEF AuditInv, FileTypes, IsFile
<1>3. \A k \in 1..Len(files'[f]) : IsWrite(files'[f][k])
  <2> SUFFICES ASSUME NEW k \in 1..Len(files'[f])
               PROVE  IsWrite(files'[f][k])
    OBVIOUS
  <2>1. CASE \E j \in 1..Len(files[f]) : files'[f][k] = files[f][j]
    BY <1>2, <2>1
  <2>2. ASSUME NEW e \in Forged(files[f][i].entry),
               files'[f][k] = [entry |-> e, cut |-> files[f][i].cut]
        PROVE  IsWrite(files'[f][k])
    <3>1. IsEntry(files[f][i].entry) /\ files[f][i].cut \in Cuts
      BY <1>2 DEF IsWrite
    <3>2. IsEntry(e)
      BY <3>1, ForgedIsEntry
    <3> QED BY <2>2, <3>1, <3>2 DEF IsWrite
  <2> QED BY <1>1, <2>1, <2>2
<1>4. FileTypes'
  <2>1. edits' \in 0..MaxEdits
    BY <1>1, AuditAssumption DEF AuditInv, FileTypes
  <2> QED BY <1>1, <1>3, <2>1, FileTypesKept DEF AuditInv, FileTypes, IsFile
<1>5. SessionTypes' /\ LockInv'
  BY <1>1 DEF AuditInv, SessionTypes, LockInv, Active, loggerVars
<1>6. AtEnd'
  BY <1>1 DEF AtEnd, Quiet
<1> QED BY <1>4, <1>5, <1>6 DEF AuditInv

LEMMA NextAudit == AuditInv /\ [Next]_vars => AuditInv'
<1> SUFFICES ASSUME AuditInv, [Next]_vars
             PROVE  AuditInv'
  OBVIOUS
<1>1. CASE UNCHANGED vars
  BY <1>1 DEF vars, loggerVars, AuditInv, FileTypes, SessionTypes, LockInv, AtEnd,
      Active, Writing
<1>2. ASSUME NEW s \in Sessions, Session(s)
      PROVE  AuditInv'
  BY <1>2, OpenFileAudit, LockFileAudit, LastStateAudit, BeginWriteAudit, EndWriteAudit,
     FailWriteAudit, CloseAudit, CrashAudit DEF Session
<1> QED BY <1>1, <1>2, EditAudit, MoveAsideAudit DEF Next

LEMMA AuditIsInvariant == Spec => []AuditInv
BY InitAudit, NextAudit, PTL DEF Spec

\* Every variable keeps its type: a file stays a sequence of writes whatever is
\* appended, cut short or edited.
THEOREM LogTypeCorrect == Spec => []TypeOK
<1>1. AuditInv => TypeOK
  BY DEF AuditInv, FileTypes, SessionTypes, IsFile, IsWrite, IsEntry, Steps, TypeOK,
      WritesOf
<1> QED BY <1>1, AuditIsInvariant, PTL

\* Two sessions are never past the lock of one file, and the lock never outlives
\* its holder, whenever and however often the log is moved aside (lockFile, Open).
THEOREM OneWriterAtATime == Spec => []OneWriter
<1>1. AuditInv => OneWriter
  BY LockIsExclusive DEF AuditInv
<1> QED BY <1>1, AuditIsInvariant, PTL

-----------------------------------------------------------------------------
\* Tampering: a signature made with Key is one a session made.

SealedWell ==
  \A e \in sealed : IsEntry(e) /\ e.hash = Content(e) /\ e.sig = <<Key, Content(e)>>

Signed(e) == (\E c : e.sig = <<BadKey, c>>) \/ \E x \in sealed : e.sig = x.sig

SealInv ==
  SealedWell /\ \A f \in Inodes : \A i \in WritesOf(f) : Signed(files[f][i].entry)

LEMMA VerdictOK ==
  ASSUME NEW file, IsSeq(file)
  PROVE  Verdict(file, Key) = "OK" <=> \A i \in 1..Len(file) : Problem(file, i, Key) = "none"
<1> DEFINE bad == {i \in 1..Len(file) : Problem(file, i, Key) # "none"}
<1>1. Verdict(file, Key) = IF bad = {} THEN "OK" ELSE Problem(file, Min(bad), Key)
  BY DEF Verdict
<1>2. CASE bad = {}
  BY <1>1, <1>2
<1>3. CASE bad # {}
  <2>1. bad \in SUBSET Nat
    BY SeqIsFunction
  <2>2. Min(bad) \in bad
    BY <1>3, <2>1, MinIsLeast
  <2>3. Problem(file, Min(bad), Key) # "OK"
    BY DEF Problem
  <2> QED BY <1>1, <1>3, <2>2, <2>3
<1> QED BY <1>2, <1>3

\* What the checks of Verify vouch for on one line.
LEMMA NoProblem ==
  ASSUME NEW file, NEW i, Problem(file, i, Key) = "none"
  PROVE  /\ OwnLine(file, i) /\ file[i].entry.hash = Content(file[i].entry)
         /\ file[i].entry.sig = <<Key, Content(file[i].entry)>>
         /\ file[i].entry.prev = PrevHash(file, i) /\ file[i].entry.seq = PrevSeq(file, i) + 1
BY DEF Problem, SignatureHolds

\* Lines numbered one after the other are numbered from one.
LEMMA NumberedFromOne ==
  ASSUME NEW file, IsSeq(file),
         \A i \in 1..Len(file) : file[i].entry.seq = PrevSeq(file, i) + 1
  PROVE  \A i \in 1..Len(file) : file[i].entry.seq = i
<1> SUFFICES ASSUME NEW k \in 1..Len(file), file[k].entry.seq # k
             PROVE  FALSE
  OBVIOUS
<1> DEFINE wrong == {i \in 1..Len(file) : file[i].entry.seq # i}
<1>1. Len(file) \in Nat
  BY SeqIsFunction
<1>2. wrong \in SUBSET Nat /\ wrong # {}
  BY <1>1
<1>3. PICK n \in wrong : \A m \in wrong : n <= m
  BY <1>2, LeastNatural
<1>4. n \in 1..Len(file) /\ file[n].entry.seq # n
  BY <1>3
<1>5. n # 1
  BY <1>4 DEF PrevSeq
<1>6. n - 1 \in 1..Len(file) /\ n - 1 \notin wrong
  BY <1>1, <1>3, <1>4, <1>5
<1>7. file[n - 1].entry.seq = n - 1
  BY <1>6
<1> QED BY <1>1, <1>4, <1>5, <1>7 DEF PrevSeq

LEMMA SealsDetect ==
  ASSUME AuditInv, SealInv
  PROVE  TamperDetected
<1> SUFFICES ASSUME NEW f \in Inodes, Verdict(files[f], Key) = "OK", NEW i \in WritesOf(f)
             PROVE  /\ files[f][i].entry \in sealed
                    /\ files[f][i].entry.seq = i
                    /\ i > 1 => files[f][i].entry.prev = Content(files[f][i - 1].entry)
  BY DEF TamperDetected
<1>1. IsSeq(files[f]) /\ Len(files[f]) \in Nat /\ i \in 1..Len(files[f])
  <2>1. IsSeq(files[f]) /\ i \in 1..Len(files[f])
    BY DEF AuditInv, FileTypes, IsFile, WritesOf
  <2> QED BY <2>1, SeqIsFunction
<1>2. \A k \in 1..Len(files[f]) : Problem(files[f], k, Key) = "none"
  BY <1>1, VerdictOK
<1>3. files[f][i].entry \in sealed
  <2> DEFINE e == files[f][i].entry
  <2>1. e.hash = Content(e) /\ e.sig = <<Key, Content(e)>> /\ IsEntry(e)
    BY <1>1, <1>2, NoProblem DEF AuditInv, FileTypes, IsFile, IsWrite
  <2>2. Signed(e)
    BY DEF SealInv
  <2> HIDE DEF e
  <2>3. ~ \E c : e.sig = <<BadKey, c>>
    BY <2>1, AuditAssumption
  <2>4. PICK x \in sealed : e.sig = x.sig
    BY <2>2, <2>3 DEF Signed
  <2>5. IsEntry(x) /\ x.hash = Content(x) /\ x.sig = <<Key, Content(x)>>
    BY <2>4 DEF SealInv, SealedWell
  <2>6. Content(e) = Content(x)
    BY <2>1, <2>4, <2>5
  <2>7. e.session = x.session /\ e.body = x.body /\ e.seq = x.seq /\ e.prev = x.prev
    BY <2>6 DEF Content
  <2>8. e = x
    BY <2>1, <2>4, <2>5, <2>6, <2>7 DEF IsEntry
  <2> QED BY <2>4, <2>8 DEF e
<1>4. files[f][i].entry.seq = i
  <2>1. \A k \in 1..Len(files[f]) : files[f][k].entry.seq = PrevSeq(files[f], k) + 1
    BY <1>2, NoProblem
  <2> QED BY <1>1, <2>1, NumberedFromOne
<1>5. i > 1 => files[f][i].entry.prev = Content(files[f][i - 1].entry)
  <2> SUFFICES ASSUME i > 1
               PROVE  files[f][i].entry.prev = Content(files[f][i - 1].entry)
    OBVIOUS
  <2>1. i - 1 \in 1..Len(files[f])
    BY <1>1
  <2>2. files[f][i].entry.prev = files[f][i - 1].entry.hash
    BY <1>1, <1>2, NoProblem DEF PrevHash
  <2>3. files[f][i - 1].entry.hash = Content(files[f][i - 1].entry)
    BY <1>2, <2>1, NoProblem
  <2> QED BY <2>2, <2>3
<1> QED BY <1>3, <1>4, <1>5

LEMMA InitSeal == Init => SealInv
<1>1. IsSeq(<<>>) /\ Len(<<>>) = 0
  BY DEF IsSeq
<1> QED BY <1>1 DEF Init, SealInv, SealedWell, WritesOf

\* A step that seals nothing, and leaves or forges no signature of its own.
LEMMA SealsKept ==
  ASSUME SealInv, UNCHANGED sealed,
         \A f \in Inodes : \A i \in 1..Len(files'[f]) :
           \/ \E c : files'[f][i].entry.sig = <<BadKey, c>>
           \/ \E j \in 1..Len(files[f]) : files'[f][i].entry.sig = files[f][j].entry.sig
  PROVE  SealInv'
<1>1. SealedWell'
  BY DEF SealInv, SealedWell
<1>2. ASSUME NEW f \in Inodes, NEW i \in 1..Len(files'[f])
      PROVE  Signed(files[f][i].entry)'
  BY DEF SealInv, Signed, WritesOf
<1> QED BY <1>1, <1>2 DEF SealInv, WritesOf

LEMMA ForgedSignature ==
  ASSUME NEW e0, IsEntry(e0), NEW e \in Forged(e0)
  PROVE  e.sig = e0.sig \/ \E c : e.sig = <<BadKey, c>>
<1>1. PICK changed \in Altered(e0) : e \in Resealed(changed)
  BY DEF Forged
<1>2. changed.sig = e0.sig /\ IsEntry(changed)
  <2>1. CASE \E b \in Bodies : changed = [e0 EXCEPT !.body = b]
    BY <2>1 DEF IsEntry
  <2>2. CASE changed = [e0 EXCEPT !.seq = @ + 1]
    BY <2>2 DEF IsEntry
  <2>3. CASE changed = [e0 EXCEPT !.prev = Genesis]
    BY <2>3 DEF IsEntry
  <2> QED BY <2>1, <2>2, <2>3 DEF Altered
<1>3. CASE e = changed \/ e = [changed EXCEPT !.hash = Content(changed)]
  BY <1>2, <1>3 DEF IsEntry
<1>4. CASE e = [changed EXCEPT !.hash = Content(changed), !.sig = <<BadKey, Content(changed)>>]
  <2>1. e.sig = <<BadKey, Content(changed)>>
    BY <1>2, <1>4 DEF IsEntry
  <2> QED BY <2>1
<1> QED BY <1>1, <1>3, <1>4 DEF Resealed

LEMMA BeginWriteSeal ==
  ASSUME AuditInv, SealInv, NEW s \in Sessions, NEW body \in Bodies \cup {Header},
         BeginWrite(s, body)
  PROVE  SealInv'
<1> DEFINE f == handle[s]
           n == Len(files[f])
           e == Seal(Key, s, body, seq[s] + 1, prevHash[s])
<1>1. /\ f \in Inodes /\ n \in Nat
      /\ \A g \in Inodes : g # f => files'[g] = files[g]
      /\ Len(files'[f]) = n + 1 /\ files'[f][n + 1] = Wrote(e, "part")
      /\ \A i \in 1..n : files'[f][i] = files[f][i]
  BY BeginFacts
<1>2. sealed' = sealed \cup {e}
  BY DEF BeginWrite
<1>3. IsEntry(e) /\ e.hash = Content(e) /\ e.sig = <<Key, Content(e)>>
  BY DEF AuditInv, SessionTypes, IsEntry, Seal, Content
<1> HIDE DEF n, e
<1>4. SealedWell'
  BY <1>2, <1>3 DEF SealInv, SealedWell
<1>5. ASSUME NEW g \in Inodes, NEW i \in 1..Len(files'[g])
      PROVE  Signed(files[g][i].entry)'
  <2>1. CASE g = f /\ i = n + 1
    BY <1>1, <1>2, <2>1 DEF Signed, Wrote
  <2>2. CASE ~ (g = f /\ i = n + 1)
    <3>1. i \in 1..Len(files[g]) /\ files'[g][i] = files[g][i]
      BY <1>1, <2>2 DEF n
    <3>2. Signed(files[g][i].entry)
      BY <3>1 DEF SealInv, WritesOf
    <3> QED BY <1>2, <3>1, <3>2 DEF Signed
  <2> QED BY <2>1, <2>2
<1> QED BY <1>4, <1>5 DEF SealInv, WritesOf

LEMMA EditSeal ==
  ASSUME AuditInv, SealInv, NEW f \in Inodes, NEW i \in 1..Len(files[f]), Edit(f, i)
  PROVE  SealInv'
<1>1. /\ UNCHANGED sealed
      /\ \A g \in Inodes : g # f => files'[g] = files[g]
      /\ \A k \in 1..Len(files'[f]) :
           \/ \E j \in 1..Len(files[f]) : files'[f][k] = files[f][j]
           \/ \E e \in Forged(files[f][i].entry) :
                files'[f][k] = [entry |-> e, cut |-> files[f][i].cut]
  BY EditFacts
<1>2. IsEntry(files[f][i].entry)
  BY DEF AuditInv, FileTypes, IsFile, IsWrite
<1>3. ASSUME NEW k \in 1..Len(files'[f])
      PROVE  \/ \E c : files'[f][k].entry.sig = <<BadKey, c>>
             \/ \E j \in 1..Len(files[f]) : files'[f][k].entry.sig = files[f][j].entry.sig
  <2>1. CASE \E j \in 1..Len(files[f]) : files'[f][k] = files[f][j]
    BY <2>1
  <2>2. ASSUME NEW e \in Forged(files[f][i].entry),
               files'[f][k] = [entry |-> e, cut |-> files[f][i].cut]
        PROVE  \/ \E c : files'[f][k].entry.sig = <<BadKey, c>>
               \/ \E j \in 1..Len(files[f]) : files'[f][k].entry.sig = files[f][j].entry.sig
    <3>1. files'[f][k].entry = e
      BY <2>2
    <3> QED BY <1>2, <3>1, ForgedSignature
  <2> QED BY <1>1, <2>1, <2>2
<1> QED BY <1>1, <1>3, SealsKept

LEMMA ArriveSeal ==
  ASSUME AuditInv, SealInv, NEW s \in Sessions, pc[s] = "writing", UNCHANGED sealed,
         \/ \E cut \in Cuts : Arrives(s, cut)
         \/ files' = [files EXCEPT ![handle[s]] = RemoveAt(@, at[s])]
  PROVE  SealInv'
<1> DEFINE f == handle[s]
<1>1. CASE \E cut \in Cuts : Arrives(s, cut)
  <2>1. PICK cut \in Cuts : Arrives(s, cut)
    BY <1>1
  <2>2. /\ f \in Inodes /\ at[s] = Len(files[f]) /\ Len(files[f]) \in Nat \ {0}
        /\ \A g \in Inodes : g # f => files'[g] = files[g]
        /\ Len(files'[f]) = Len(files[f]) /\ files'[f][at[s]] = Wrote(Writing(s), cut)
        /\ \A i \in 1..Len(files[f]) : i # at[s] => files'[f][i] = files[f][i]
    BY <2>1, ArriveFacts
  <2>3. files'[f][at[s]].entry = files[f][at[s]].entry
    BY <2>2 DEF Wrote, Writing
  <2> QED BY <2>2, <2>3, SealsKept
<1>2. CASE files' = [files EXCEPT ![handle[s]] = RemoveAt(@, at[s])]
  <2>1. /\ f \in Inodes /\ Len(files[f]) \in Nat \ {0}
        /\ \A g \in Inodes : g # f => files'[g] = files[g]
        /\ Len(files'[f]) = Len(files[f]) - 1
        /\ \A i \in 1..(Len(files[f]) - 1) : files'[f][i] = files[f][i]
    BY <1>2, RemoveFacts
  <2>2. 1..Len(files'[f]) \in SUBSET (1..Len(files[f]))
    BY <2>1
  <2> QED BY <2>1, <2>2, SealsKept
<1> QED BY <1>1, <1>2

LEMMA NextSeal == AuditInv /\ SealInv /\ [Next]_vars => SealInv'
<1> SUFFICES ASSUME AuditInv, SealInv, [Next]_vars
             PROVE  SealInv'
  OBVIOUS
<1>1. ASSUME UNCHANGED <<files, sealed>>
      PROVE  SealInv'
  BY <1>1, SealsKept
<1>2. ASSUME NEW s \in Sessions, Session(s)
      PROVE  SealInv'
  <2>1. CASE OpenFile(s) \/ LockFile(s) \/ LastState(s) \/ Close(s)
    BY <1>1, <2>1 DEF OpenFile, LockFile, LastState, Close
  <2>2. CASE EndWrite(s)
    BY <2>2, ArriveSeal DEF EndWrite, Cuts
  <2>3. CASE FailWrite(s)
    BY <2>3, ArriveSeal DEF FailWrite, Cuts
  <2>4. CASE Crash(s)
    BY <1>1, <2>4, ArriveSeal DEF Crash
  <2> QED BY <1>2, <2>1, <2>2, <2>3, <2>4, BeginWriteSeal DEF Session
<1>3. CASE MoveAside
  BY <1>1, <1>3 DEF MoveAside
<1>4. CASE UNCHANGED vars
  BY <1>1, <1>4 DEF vars
<1> QED BY <1>2, <1>3, <1>4, EditSeal DEF Next

\* Whatever outsiders without the key remove, copy, move, alter or seal again,
\* however the log is moved aside and whoever crashes: a log Verify vouches for
\* is lines the sessions sealed, in order and with nothing missing in between.
THEOREM VerifyVouchesForTheSessions == Spec => []TamperDetected
<1>1. AuditInv /\ SealInv => TamperDetected
  BY SealsDetect
<1>2. Spec => []SealInv
  BY AuditIsInvariant, InitSeal, NextSeal, PTL DEF Spec
<1> QED BY <1>1, <1>2, AuditIsInvariant, PTL

-----------------------------------------------------------------------------
\* What sessions alone leave.

Unbroken(file, n) == n > 1 => file[n - 1].cut = "whole"

\* A file that only sessions wrote: every entry is sealed, and follows the one
\* before unless that one is damaged; only the first starts a chain; after a
\* damaged line there is only more of the same session.
Good(file) ==
  \A i \in 1..Len(file) : LET e == file[i].entry IN
    /\ e.hash = Content(e) /\ e.sig = <<Key, Content(e)>>
    /\ Unbroken(file, i) => e.prev = PrevHash(file, i) /\ e.seq = PrevSeq(file, i) + 1
    /\ e.prev = Genesis => i = 1
    /\ file[i].cut # "whole" => \A j \in i..Len(file) : file[j].entry.session = e.session

\* A session between its read and its end: the next line, or the one it is
\* writing, is the n-th, and it knows what the line before says.
Knows(s, file, n) ==
  /\ Unbroken(file, n) => prevHash[s] = PrevHash(file, n) /\ seq[s] = PrevSeq(file, n)
  /\ \A i \in 1..Len(file) : file[i].cut # "whole" => file[i].entry.session = s

MayStartChain(s, file) == prevHash[s] = Genesis => Len(file) = 0

SessionInv(s) ==
  LET file == files[handle[s]] IN
  /\ pc[s] \in {"lock", "read"} => handle[s] = path
  /\ pc[s] \in {"header", "up"} => Knows(s, file, Len(file) + 1)
  /\ pc[s] = "header" => MayStartChain(s, file)
  /\ pc[s] = "up" => prevHash[s] # Genesis
  /\ pc[s] = "writing" => Knows(s, file, Len(file))
  /\ pc[s] = "writing" /\ Writing(s).body # Header => prevHash[s] # Genesis

ChainInv ==
  edits = 0 =>
    (\A f \in Inodes : Good(files[f])) /\ (\A s \in Sessions : SessionInv(s))

\* Sessions' damage is unreadable, never tampering.
LEMMA GoodVerdict ==
  ASSUME NEW file, IsSeq(file), Good(file)
  PROVE  /\ Verdict(file, Key) \in {"OK", "unreadable"}
         /\ (\A i \in 1..Len(file) : file[i].cut = "whole") => Verdict(file, Key) = "OK"
<1> DEFINE bad == {i \in 1..Len(file) : Problem(file, i, Key) # "none"}
<1>1. Len(file) \in Nat
  BY SeqIsFunction
<1>2. ASSUME NEW i \in 1..Len(file), OwnLine(file, i)
      PROVE  Problem(file, i, Key) = "none"
  <2>1. Unbroken(file, i)
    BY <1>2 DEF OwnLine, Unbroken
  <2> QED BY <1>2, <2>1 DEF Good, Problem, SignatureHolds
<1>3. \A i \in bad : Problem(file, i, Key) = "unreadable"
  BY <1>2 DEF Problem
<1>4. bad # {} => Min(bad) \in bad
  BY <1>1, MinIsLeast
<1>5. Verdict(file, Key) = IF bad = {} THEN "OK" ELSE Problem(file, Min(bad), Key)
  BY DEF Verdict
<1>6. (\A i \in 1..Len(file) : file[i].cut = "whole") => \A i \in 1..Len(file) : OwnLine(file, i)
  BY <1>1 DEF OwnLine
<1>7. (\A i \in 1..Len(file) : file[i].cut = "whole") => bad = {}
  BY <1>2, <1>6
<1> HIDE DEF bad
<1> QED BY <1>3, <1>4, <1>5, <1>7

\* lastState continues only what is whole.
LEMMA ResumedIsWhole ==
  ASSUME NEW file, IsFile(file), Resumable(file, Key)
  PROVE  \A i \in 1..Len(file) : file[i].cut = "whole"
<1>1. IsSeq(file) /\ Len(file) \in Nat
  BY SeqIsFunction DEF IsFile
<1>2. \A i \in 1..Len(file) : OwnLine(file, i)
  BY <1>1, VerdictOK, NoProblem DEF Resumable
<1> SUFFICES ASSUME NEW i \in 1..Len(file)
             PROVE  file[i].cut = "whole"
  OBVIOUS
<1>3. CASE i = Len(file)
  BY <1>1, <1>3 DEF Resumable, EndsWithNewline
<1>4. CASE i # Len(file)
  <2>1. i + 1 \in 1..Len(file) /\ i + 1 > 1 /\ i + 1 - 1 = i
    BY <1>1, <1>4
  <2>2. OwnLine(file, i + 1)
    BY <1>2, <2>1
  <2> QED BY <2>1, <2>2 DEF OwnLine
<1> QED BY <1>3, <1>4

LEMMA GoodAppend ==
  ASSUME NEW file, IsFile(file), Good(file), NEW t, NEW s \in Sessions, NEW body,
         Knows(s, file, Len(file) + 1), MayStartChain(s, file),
         Len(t) = Len(file) + 1,
         t[Len(file) + 1] = Wrote(Seal(Key, s, body, seq[s] + 1, prevHash[s]), "part"),
         \A i \in 1..Len(file) : t[i] = file[i]
  PROVE  Good(t) /\ Knows(s, t, Len(t))
<1> DEFINE n == Len(file)
           e == Seal(Key, s, body, seq[s] + 1, prevHash[s])
<1>1. n \in Nat
  BY SeqIsFunction DEF IsFile
<1>2. /\ e.session = s /\ e.seq = seq[s] + 1 /\ e.prev = prevHash[s]
      /\ e.hash = Content(e) /\ e.sig = <<Key, Content(e)>>
  BY DEF Seal, Content
<1>3. t[n + 1].entry = e /\ t[n + 1].cut = "part"
  BY DEF Wrote
<1> HIDE DEF e, n
<1>4. \A i \in 1..(n + 1) : Unbroken(t, i) <=> Unbroken(file, i)
  BY <1>1 DEF Unbroken, n
<1>5. \A i \in 1..(n + 1) : PrevHash(t, i) = PrevHash(file, i) /\ PrevSeq(t, i) = PrevSeq(file, i)
  BY <1>1 DEF PrevHash, PrevSeq, n
<1>6. Knows(s, t, Len(t))
  BY <1>1, <1>2, <1>3, <1>4, <1>5 DEF Knows, n
<1>7. ASSUME NEW i \in 1..(n + 1)
      PROVE  /\ t[i].entry.hash = Content(t[i].entry)
             /\ t[i].entry.sig = <<Key, Content(t[i].entry)>>
             /\ Unbroken(t, i) => /\ t[i].entry.prev = PrevHash(t, i)
                                  /\ t[i].entry.seq = PrevSeq(t, i) + 1
             /\ t[i].entry.prev = Genesis => i = 1
             /\ t[i].cut # "whole" => \A j \in i..(n + 1) : t[j].entry.session = t[i].entry.session
  <2>1. CASE i = n + 1
    BY <1>1, <1>2, <1>3, <1>4, <1>5, <2>1 DEF Knows, MayStartChain, n
  <2>2. CASE i # n + 1
    <3>1. i \in 1..n /\ t[i] = file[i]
      BY <1>1, <2>2 DEF n
    <3>2. file[i].cut # "whole" => file[i].entry.session = s
      BY <3>1 DEF Knows, n
    <3>3. t[i].cut # "whole" => \A j \in i..(n + 1) : t[j].entry.session = t[i].entry.session
      BY <1>1, <1>2, <1>3, <3>1, <3>2 DEF Good, n
    <3> QED BY <1>4, <1>5, <3>1, <3>3 DEF Good, n
  <2> QED BY <2>1, <2>2
<1> QED BY <1>6, <1>7 DEF Good, n

LEMMA GoodArrive ==
  ASSUME NEW file, IsFile(file), Good(file), Len(file) # 0, NEW t,
         Len(t) = Len(file), t[Len(file)].entry = file[Len(file)].entry,
         \A i \in 1..Len(file) : i # Len(file) => t[i] = file[i]
  PROVE  Good(t)
<1> DEFINE n == Len(file)
<1>1. n \in Nat \ {0}
  BY SeqIsFunction DEF IsFile
<1> HIDE DEF n
<1>2. \A i \in 1..n : t[i].entry = file[i].entry /\ (Unbroken(t, i) <=> Unbroken(file, i))
  BY <1>1 DEF Unbroken, n
<1>3. \A i \in 1..n : PrevHash(t, i) = PrevHash(file, i) /\ PrevSeq(t, i) = PrevSeq(file, i)
  BY <1>1, <1>2 DEF PrevHash, PrevSeq
<1>4. ASSUME NEW i \in 1..n, t[i].cut # "whole", NEW j \in i..n
      PROVE  t[j].entry.session = t[i].entry.session
  <2>1. CASE i = n
    BY <1>1, <2>1
  <2>2. CASE i # n
    BY <1>1, <1>2, <1>4, <2>2 DEF Good, n
  <2> QED BY <2>1, <2>2
<1> QED BY <1>1, <1>2, <1>3, <1>4 DEF Good, n

LEMMA GoodRemove ==
  ASSUME NEW file, IsFile(file), Good(file), NEW t,
         Len(file) # 0, Len(t) = Len(file) - 1, \A i \in 1..(Len(file) - 1) : t[i] = file[i]
  PROVE  Good(t)
<1> DEFINE n == Len(file)
<1>1. n \in Nat \ {0}
  BY SeqIsFunction DEF IsFile
<1> HIDE DEF n
<1>2. \A i \in 1..(n - 1) : i \in 1..n /\ t[i] = file[i] /\ (Unbroken(t, i) <=> Unbroken(file, i))
  BY <1>1 DEF Unbroken, n
<1>3. \A i \in 1..(n - 1) : PrevHash(t, i) = PrevHash(file, i) /\ PrevSeq(t, i) = PrevSeq(file, i)
  BY <1>1, <1>2 DEF PrevHash, PrevSeq, n
<1> QED BY <1>1, <1>2, <1>3 DEF Good, n

\* A session a step does not concern.
LEMMA SessionKept ==
  ASSUME NEW t \in Sessions, SessionInv(t), pc'[t] = pc[t], handle'[t] = handle[t],
         seq'[t] = seq[t], prevHash'[t] = prevHash[t], at'[t] = at[t],
         pc[t] \in {"lock", "read"} => path' = path,
         pc[t] \in {"header", "up", "writing"} => files'[handle[t]] = files[handle[t]]
  PROVE  SessionInv(t)'
BY DEF SessionInv, Knows, MayStartChain, Writing

\* A session that has stopped, or has not begun, claims nothing.
LEMMA SessionDone ==
  ASSUME NEW t \in Sessions, pc'[t] \in {"down", "gone"}
  PROVE  SessionInv(t)'
BY DEF SessionInv

\* Only the session at work on a file changes it.
LEMMA OthersKept ==
  ASSUME AuditInv, ChainInv, edits = 0, NEW s \in Sessions, Active(s),
         UNCHANGED <<path, handle, edits>>,
         \A t \in Sessions : t # s =>
           pc'[t] = pc[t] /\ seq'[t] = seq[t] /\ prevHash'[t] = prevHash[t] /\ at'[t] = at[t],
         \A g \in Inodes : g # handle[s] => files'[g] = files[g],
         Good(files'[handle[s]]), SessionInv(s)'
  PROVE  ChainInv'
<1>1. \A f \in Inodes : Good(files[f])'
  BY DEF ChainInv
<1>2. ASSUME NEW t \in Sessions, t # s
      PROVE  SessionInv(t)'
  <2>1. Active(t) => handle[t] \in Inodes /\ handle[t] # handle[s]
    BY <1>2 DEF AuditInv, LockInv
  <2> QED BY <1>2, <2>1, SessionKept DEF ChainInv, Active
<1> QED BY <1>1, <1>2 DEF ChainInv

LEMMA InitChain == Init => ChainInv
<1>1. Len(<<>>) = 0
  OBVIOUS
<1> QED BY <1>1 DEF Init, ChainInv, Good, SessionInv

LEMMA QuietStepChain ==
  ASSUME AuditInv, ChainInv, edits = 0, NEW s \in Sessions,
         OpenFile(s) \/ LockFile(s) \/ Close(s)
  PROVE  ChainInv'
<1>1. files' = files /\ edits' = 0 /\ UNCHANGED <<loggerVars, at>>
  BY DEF OpenFile, LockFile, Close
<1>2. \A t \in Sessions : pc[t] \in {"lock", "read"} => path \in Inodes /\ path # NoFile
  BY AuditAssumption DEF AuditInv, LockInv, ChainInv, SessionInv, Active
<1>3. ASSUME NEW t \in Sessions
      PROVE  SessionInv(t)'
  <2>1. CASE OpenFile(s)
    <3>1. (pc[s] = "down" /\ handle' = [handle EXCEPT ![s] = path'] /\ Goes(s, "lock"))
          /\ (path # NoFile => path' = path)
      BY <2>1 DEF OpenFile
    <3>2. CASE t = s
      BY <3>1, <3>2 DEF AuditInv, SessionTypes, SessionInv, Goes
    <3>3. CASE t # s
      BY <1>1, <1>2, <3>1, <3>3, SessionKept DEF AuditInv, SessionTypes, ChainInv,
          Goes, loggerVars
    <3> QED BY <3>2, <3>3
  <2>2. CASE LockFile(s)
    <3>1. /\ pc[s] = "lock" /\ UNCHANGED <<path, handle>>
          /\ Goes(s, "read") \/ Goes(s, "gone")
      BY <2>2 DEF LockFile
    <3>2. CASE t = s
      BY <3>1, <3>2 DEF AuditInv, SessionTypes, ChainInv, SessionInv, Goes
    <3>3. CASE t # s
      BY <1>1, <3>1, <3>3, SessionKept DEF AuditInv, SessionTypes, ChainInv, Goes,
          loggerVars
    <3> QED BY <3>2, <3>3
  <2>3. CASE Close(s)
    <3>1. UNCHANGED <<path, handle>> /\ Goes(s, "gone")
      BY <2>3 DEF Close
    <3>2. CASE t = s
      BY <3>1, <3>2, SessionDone DEF AuditInv, SessionTypes, Goes
    <3>3. CASE t # s
      BY <1>1, <3>1, <3>3, SessionKept DEF AuditInv, SessionTypes, ChainInv, Goes,
          loggerVars
    <3> QED BY <3>2, <3>3
  <2> QED BY <2>1, <2>2, <2>3
<1>4. \A f \in Inodes : Good(files[f])'
  BY <1>1 DEF ChainInv
<1> QED BY <1>3, <1>4 DEF ChainInv

LEMMA LastStateChain ==
  ASSUME AuditInv, ChainInv, edits = 0, NEW s \in Sessions, LastState(s)
  PROVE  ChainInv'
<1> DEFINE file == files[handle[s]]
<1>1. /\ pc[s] = "read" /\ Active(s) /\ handle[s] \in Inodes /\ handle[s] = path
      /\ UNCHANGED <<path, files, handle, at, edits>>
  BY DEF AuditInv, LockInv, ChainInv, SessionInv, Active, LastState
<1>2. History = file /\ IsFile(file) /\ Good(file)
  BY <1>1, AuditAssumption DEF History, AuditInv, FileTypes, ChainInv
<1>3. \A t \in Sessions : t # s =>
        pc'[t] = pc[t] /\ seq'[t] = seq[t] /\ prevHash'[t] = prevHash[t] /\ at'[t] = at[t]
  BY DEF AuditInv, SessionTypes, LastState, Goes, loggerVars
<1>4. CASE Resumable(History, Key)
  <2>1. /\ pc'[s] = "header" /\ handle'[s] = handle[s]
        /\ seq'[s] = LastSeq(file) /\ prevHash'[s] = LastHash(file)
    BY <1>2, <1>4 DEF AuditInv, SessionTypes, LastState, Goes
  <2>2. \A i \in 1..Len(file) : file[i].cut = "whole"
    BY <1>2, <1>4, ResumedIsWhole
  <2>3. Len(file) \in Nat
    BY <1>2, SeqIsFunction DEF IsFile
  <2>4. LastHash(file) = Genesis => Len(file) = 0
    <3> SUFFICES ASSUME Len(file) # 0
                 PROVE  LastHash(file) # Genesis
      OBVIOUS
    <3>1. Len(file) \in 1..Len(file) /\ LastHash(file) = file[Len(file)].entry.hash
      BY <2>3 DEF LastHash, PrevHash
    <3>2. file[Len(file)].entry.hash = Content(file[Len(file)].entry)
      BY <1>2, <3>1 DEF Good
    <3> QED BY <3>1, <3>2 DEF Content, Genesis
  <2>5. SessionInv(s)'
    BY <1>1, <2>1, <2>2, <2>4 DEF SessionInv, Knows, MayStartChain, LastSeq, LastHash
  <2> QED BY <1>1, <1>2, <1>3, <2>5, OthersKept
<1>5. CASE ~Resumable(History, Key)
  <2>1. pc'[s] = "gone"
    BY <1>5 DEF AuditInv, SessionTypes, LastState, Goes
  <2> QED BY <1>1, <1>2, <1>3, <2>1, SessionDone, OthersKept
<1> QED BY <1>4, <1>5

LEMMA BeginWriteChain ==
  ASSUME AuditInv, ChainInv, edits = 0, NEW s \in Sessions,
         NEW body \in Bodies \cup {Header}, BeginWrite(s, body)
  PROVE  ChainInv'
<1> DEFINE f == handle[s]
           e == Seal(Key, s, body, seq[s] + 1, prevHash[s])
<1>1. /\ f \in Inodes /\ Active(s) /\ Len(files[f]) \in Nat
      /\ \A g \in Inodes : g # f => files'[g] = files[g]
      /\ Len(files'[f]) = Len(files[f]) + 1 /\ files'[f][Len(files[f]) + 1] = Wrote(e, "part")
      /\ \A i \in 1..Len(files[f]) : files'[f][i] = files[f][i]
  BY BeginFacts
<1>2. /\ UNCHANGED <<path, handle, edits, loggerVars>>
      /\ pc' = [pc EXCEPT ![s] = "writing"] /\ at' = [at EXCEPT ![s] = Len(files[f]) + 1]
      /\ pc[s] = IF body = Header THEN "header" ELSE "up"
  BY DEF BeginWrite, Goes, MayAppend
<1>3. IsFile(files[f]) /\ Good(files[f])
  BY <1>1 DEF AuditInv, FileTypes, ChainInv
<1>4. Knows(s, files[f], Len(files[f]) + 1) /\ MayStartChain(s, files[f])
  BY <1>2 DEF ChainInv, SessionInv, MayStartChain
<1>5. Good(files'[f]) /\ Knows(s, files'[f], Len(files'[f]))
  BY <1>1, <1>3, <1>4, GoodAppend
<1>6. body # Header => prevHash[s] # Genesis
  BY <1>2 DEF ChainInv, SessionInv
<1>7. SessionInv(s)'
  <2>1. pc'[s] = "writing" /\ handle'[s] = f /\ at'[s] = Len(files[f]) + 1
    BY <1>2 DEF AuditInv, SessionTypes
  <2>2. Knows(s, files[f], Len(files[f]))'
    BY <1>2, <1>5 DEF Knows, loggerVars
  <2>3. Writing(s)'.body = body
    BY <1>1, <2>1 DEF Writing, Wrote, Seal
  <2> QED BY <1>2, <1>6, <2>1, <2>2, <2>3 DEF SessionInv, loggerVars
<1>8. \A t \in Sessions : t # s =>
        pc'[t] = pc[t] /\ seq'[t] = seq[t] /\ prevHash'[t] = prevHash[t] /\ at'[t] = at[t]
  BY <1>2 DEF AuditInv, SessionTypes, loggerVars
<1> QED BY <1>1, <1>2, <1>5, <1>7, <1>8, OthersKept

LEMMA ArriveGood ==
  ASSUME AuditInv, ChainInv, edits = 0, NEW s \in Sessions, pc[s] = "writing",
         NEW cut \in Cuts, Arrives(s, cut)
  PROVE  LET f == handle[s]  n == Len(files[f]) IN
         /\ f \in Inodes /\ Active(s) /\ n \in Nat \ {0}
         /\ \A g \in Inodes : g # f => files'[g] = files[g]
         /\ Good(files'[f]) /\ Len(files'[f]) = n
         /\ files'[f][n] = Wrote(Writing(s), cut)
         /\ \A i \in 1..n : i # n => files'[f][i] = files[f][i]
         /\ Writing(s).session = s /\ Writing(s).hash = Content(Writing(s))
<1> DEFINE f == handle[s]
           n == Len(files[f])
<1>1. /\ f \in Inodes /\ at[s] = n /\ n \in Nat \ {0}
      /\ \A g \in Inodes : g # f => files'[g] = files[g]
      /\ Len(files'[f]) = n /\ files'[f][n] = Wrote(Writing(s), cut)
      /\ \A i \in 1..n : i # n => files'[f][i] = files[f][i]
  BY ArriveFacts
<1>2. IsFile(files[f]) /\ Good(files[f])
  BY <1>1 DEF AuditInv, FileTypes, ChainInv
<1>3. Writing(s) = files[f][n].entry
  BY <1>1 DEF Writing
<1>4. files'[f][n].entry = files[f][n].entry
  BY <1>1, <1>3 DEF Wrote
<1>5. Good(files'[f])
  BY <1>1, <1>2, <1>4, GoodArrive
<1>6. n \in 1..n
  BY <1>1
<1>7. Writing(s).session = s /\ Writing(s).hash = Content(Writing(s))
  BY <1>2, <1>3, <1>6 DEF Good, AuditInv, AtEnd
<1> QED BY <1>1, <1>5, <1>7 DEF Active

LEMMA EndWriteChain ==
  ASSUME AuditInv, ChainInv, edits = 0, NEW s \in Sessions, EndWrite(s)
  PROVE  ChainInv'
<1> DEFINE f == handle[s]
           n == Len(files[f])
<1>1. /\ pc[s] = "writing" /\ Arrives(s, "whole") /\ Advance(s) /\ Goes(s, "up")
      /\ UNCHANGED <<path, handle, at, edits>>
  BY DEF EndWrite
<1>2. /\ f \in Inodes /\ Active(s) /\ n \in Nat \ {0}
      /\ \A g \in Inodes : g # f => files'[g] = files[g]
      /\ Good(files'[f]) /\ Len(files'[f]) = n /\ files'[f][n] = Wrote(Writing(s), "whole")
      /\ \A i \in 1..n : i # n => files'[f][i] = files[f][i]
      /\ Writing(s).session = s /\ Writing(s).hash = Content(Writing(s))
  BY <1>1, ArriveGood DEF Cuts
<1>3. /\ pc'[s] = "up" /\ seq'[s] = Writing(s).seq /\ prevHash'[s] = Writing(s).hash
      /\ \A t \in Sessions : t # s =>
           pc'[t] = pc[t] /\ seq'[t] = seq[t] /\ prevHash'[t] = prevHash[t] /\ at'[t] = at[t]
  BY <1>1 DEF AuditInv, SessionTypes, Goes, Advance
<1>4. files'[f][n].entry = Writing(s) /\ files'[f][n].cut = "whole"
  BY <1>2 DEF Wrote
<1>5. Knows(s, files[f], n)
  BY <1>1 DEF ChainInv, SessionInv
<1> HIDE DEF n
<1>6. Knows(s, files[f], Len(files[f]) + 1)'
  <2>1. PrevHash(files'[f], n + 1) = prevHash'[s] /\ PrevSeq(files'[f], n + 1) = seq'[s]
    BY <1>2, <1>3, <1>4 DEF PrevHash, PrevSeq
  <2>2. \A i \in 1..n : files'[f][i].cut # "whole" => files'[f][i].entry.session = s
    BY <1>2, <1>4, <1>5 DEF Knows, n
  <2> QED BY <1>1, <1>2, <2>1, <2>2 DEF Knows
<1>7. prevHash'[s] # Genesis
  BY <1>2, <1>3 DEF Content, Genesis
<1>8. SessionInv(s)'
  BY <1>3, <1>6, <1>7 DEF SessionInv
<1> QED BY <1>1, <1>2, <1>3, <1>8, OthersKept

LEMMA FailWriteChain ==
  ASSUME AuditInv, ChainInv, edits = 0, NEW s \in Sessions, FailWrite(s)
  PROVE  ChainInv'
<1> DEFINE f == handle[s]
           n == Len(files[f])
<1>1. /\ pc[s] = "writing" /\ UNCHANGED <<path, handle, at, edits, loggerVars>>
      /\ \/ Writing(s).body = Header /\ Goes(s, "gone")
         \/ Writing(s).body # Header /\ Goes(s, "up")
  BY DEF FailWrite, AfterFailure
<1>2. /\ handle'[s] = f /\ prevHash'[s] = prevHash[s] /\ seq'[s] = seq[s]
      /\ \/ pc'[s] = "gone"
         \/ pc'[s] = "up" /\ prevHash[s] # Genesis
      /\ \A t \in Sessions : t # s =>
           pc'[t] = pc[t] /\ seq'[t] = seq[t] /\ prevHash'[t] = prevHash[t] /\ at'[t] = at[t]
  BY <1>1 DEF AuditInv, SessionTypes, Goes, loggerVars, ChainInv, SessionInv
<1>3. Knows(s, files[f], n)
  BY <1>1 DEF ChainInv, SessionInv
<1>4. ASSUME NEW cut \in {"part", "noLF"}, Arrives(s, cut)
      PROVE  ChainInv'
  <2>1. /\ f \in Inodes /\ Active(s) /\ n \in Nat \ {0}
        /\ \A g \in Inodes : g # f => files'[g] = files[g]
        /\ Good(files'[f]) /\ Len(files'[f]) = n /\ files'[f][n] = Wrote(Writing(s), cut)
        /\ \A i \in 1..n : i # n => files'[f][i] = files[f][i]
        /\ Writing(s).session = s
    BY <1>1, <1>4, ArriveGood DEF Cuts
  <2>2. files'[f][n].entry.session = s /\ files'[f][n].cut # "whole"
    BY <2>1 DEF Wrote
  <2> HIDE DEF n
  <2>3. Knows(s, files[f], Len(files[f]) + 1)'
    <3>1. ~Unbroken(files'[f], n + 1)
      BY <2>1, <2>2 DEF Unbroken
    <3>2. \A i \in 1..n : files'[f][i].cut # "whole" => files'[f][i].entry.session = s
      BY <1>3, <2>1, <2>2 DEF Knows, n
    <3> QED BY <1>1, <2>1, <3>1, <3>2 DEF Knows
  <2>4. SessionInv(s)'
    BY <1>2, <2>3 DEF SessionInv
  <2> QED BY <1>1, <1>2, <2>1, <2>4, OthersKept
<1>5. CASE files' = [files EXCEPT ![handle[s]] = RemoveAt(@, at[s])]
  <2>1. /\ f \in Inodes /\ n \in Nat \ {0}
        /\ \A g \in Inodes : g # f => files'[g] = files[g]
        /\ Len(files'[f]) = n - 1 /\ \A i \in 1..(n - 1) : files'[f][i] = files[f][i]
    BY <1>1, <1>5, RemoveFacts
  <2>2. IsFile(files[f]) /\ Good(files[f])
    BY <2>1 DEF AuditInv, FileTypes, ChainInv
  <2>3. Good(files'[f])
    BY <2>1, <2>2, GoodRemove
  <2> HIDE DEF n
  <2>4. Knows(s, files[f], Len(files[f]) + 1)'
    <3>1. n - 1 + 1 = n
      BY <2>1
    <3>2. /\ Unbroken(files'[f], n) <=> Unbroken(files[f], n)
          /\ PrevHash(files'[f], n) = PrevHash(files[f], n)
          /\ PrevSeq(files'[f], n) = PrevSeq(files[f], n)
      BY <2>1 DEF Unbroken, PrevHash, PrevSeq
    <3>3. \A i \in 1..(n - 1) : files'[f][i].cut # "whole" => files'[f][i].entry.session = s
      BY <1>3, <2>1 DEF Knows, n
    <3> QED BY <1>1, <1>2, <1>3, <2>1, <3>1, <3>2, <3>3 DEF Knows
  <2>5. SessionInv(s)'
    BY <1>2, <2>4 DEF SessionInv
  <2> QED BY <1>1, <1>2, <2>1, <2>3, <2>5, OthersKept DEF Active
<1> QED BY <1>4, <1>5 DEF FailWrite

LEMMA CrashChain ==
  ASSUME AuditInv, ChainInv, edits = 0, NEW s \in Sessions, Crash(s)
  PROVE  ChainInv'
<1>1. /\ UNCHANGED <<path, handle, at, edits, loggerVars>> /\ Goes(s, "gone")
      /\ pc[s] \notin {"down", "gone"}
  BY DEF Crash
<1>2. /\ SessionInv(s)'
      /\ \A t \in Sessions : t # s =>
           pc'[t] = pc[t] /\ seq'[t] = seq[t] /\ prevHash'[t] = prevHash[t] /\ at'[t] = at[t]
  BY <1>1, SessionDone DEF AuditInv, SessionTypes, Goes, loggerVars
<1>3. CASE pc[s] = "writing"
  <2>1. PICK cut \in Cuts : Arrives(s, cut)
    BY <1>3 DEF Crash
  <2> QED BY <1>1, <1>2, <1>3, <2>1, ArriveGood, OthersKept
<1>4. CASE pc[s] # "writing"
  <2>1. files' = files
    BY <1>4 DEF Crash
  <2>2. ASSUME NEW t \in Sessions, t # s
        PROVE  SessionInv(t)'
    BY <1>1, <1>2, <2>1, <2>2, SessionKept DEF ChainInv
  <2> QED BY <1>2, <2>1, <2>2 DEF ChainInv
<1> QED BY <1>3, <1>4

LEMMA NextChain ==
  ASSUME Rotation # "any"
  PROVE  AuditInv /\ ChainInv /\ [Next]_vars => ChainInv'
<1> SUFFICES ASSUME AuditInv, ChainInv, [Next]_vars, edits' = 0
             PROVE  ChainInv'
  BY DEF ChainInv
<1>1. ASSUME NEW f \in Inodes, NEW i \in 1..Len(files[f])
      PROVE  ~Edit(f, i)
  BY <1>1, EditFacts DEF AuditInv, FileTypes
<1>2. ASSUME NEW s \in Sessions, Session(s)
      PROVE  ChainInv'
  <2>1. edits = 0
    BY <1>2 DEF Session, OpenFile, LockFile, LastState, BeginWrite, EndWrite,
        FailWrite, Close, Crash
  <2> QED BY <1>2, <2>1, QuietStepChain, LastStateChain, BeginWriteChain, EndWriteChain,
             FailWriteChain, CrashChain DEF Session
<1>3. CASE MoveAside
  <2>1. files' = files /\ edits = 0 /\ UNCHANGED <<pc, handle, loggerVars, at>>
    BY <1>3 DEF MoveAside
  <2>2. \A s \in Sessions : pc[s] \notin {"lock", "read"}
    BY <1>3, AuditAssumption DEF MoveAside
  <2>3. \A s \in Sessions : SessionInv(s)'
    BY <2>1, <2>2, SessionKept DEF ChainInv, loggerVars
  <2> QED BY <2>1, <2>3 DEF ChainInv
<1>4. CASE UNCHANGED vars
  BY <1>4 DEF vars, loggerVars, ChainInv, SessionInv, Knows, MayStartChain, Writing
<1> QED BY <1>1, <1>2, <1>3, <1>4 DEF Next

LEMMA ChainIsInvariant ==
  ASSUME Rotation # "any"
  PROVE  Spec => []ChainInv
BY InitChain, NextChain, AuditIsInvariant, PTL DEF Spec

\* On a log only sessions touched, and nobody moved while it was being opened,
\* Verify answers "OK" or that it cannot read a line, whenever it is asked: no
\* crash, failed write or write in progress looks like tampering.
THEOREM SessionsAreNeverAccused ==
  ASSUME Rotation # "any"
  PROVE  Spec => []NeverAccusesItself
<1>1. AuditInv /\ ChainInv => NeverAccusesItself
  <2> SUFFICES ASSUME AuditInv, ChainInv, edits = 0, NEW f \in Inodes
               PROVE  Verdict(files[f], Key) \in {"OK", "unreadable"}
    BY DEF NeverAccusesItself
  <2>1. IsSeq(files[f]) /\ Good(files[f])
    BY DEF AuditInv, FileTypes, IsFile, ChainInv
  <2> QED BY <2>1, GoodVerdict
<1> QED BY <1>1, AuditIsInvariant, ChainIsInvariant, PTL

\* No session builds on a line another one left damaged (lastState).
THEOREM DamageIsFinal ==
  ASSUME Rotation # "any"
  PROVE  Spec => []DamageStopsTheLog
<1>1. AuditInv /\ ChainInv => DamageStopsTheLog
  <2> SUFFICES ASSUME AuditInv, ChainInv, edits = 0, NEW f \in Inodes,
                      NEW i \in WritesOf(f), NEW j \in WritesOf(f),
                      i < j, files[f][i].cut # "whole"
               PROVE  files[f][j].entry.session = files[f][i].entry.session
    BY DEF DamageStopsTheLog
  <2>1. Good(files[f]) /\ Len(files[f]) \in Nat
    BY SeqIsFunction DEF AuditInv, FileTypes, IsFile, ChainInv
  <2>2. i \in 1..Len(files[f]) /\ j \in i..Len(files[f])
    BY <2>1 DEF WritesOf
  <2> QED BY <2>1, <2>2 DEF Good
<1> QED BY <1>1, AuditIsInvariant, ChainIsInvariant, PTL

\* A file holds one chain, as long as the log is not moved aside between the
\* moment a session opens it and the moment it reads its history (Open).
THEOREM OneChain ==
  ASSUME Rotation # "any"
  PROVE  Spec => []OneChainPerFile
<1>1. AuditInv /\ ChainInv => OneChainPerFile
  BY DEF ChainInv, Good, OneChainPerFile, WritesOf
<1> QED BY <1>1, AuditIsInvariant, ChainIsInvariant, PTL

\* A log nobody damaged is open to the next session once the others are gone:
\* no crash leaves a lock behind, or a whole log that would be refused.
THEOREM UndamagedLogReopens ==
  ASSUME Rotation # "any"
  PROVE  Spec => []Reopens
<1>1. AuditInv /\ ChainInv => Reopens
  <2> SUFFICES ASSUME AuditInv, ChainInv, edits = 0, NEW f \in Inodes,
                      \A i \in WritesOf(f) : files[f][i].cut = "whole",
                      \A s \in Sessions : ~Active(s)
               PROVE  lock[f] = Nobody /\ Resumable(files[f], Key)
    BY DEF Reopens
  <2>1. IsSeq(files[f]) /\ Good(files[f]) /\ Len(files[f]) \in Nat
    BY SeqIsFunction DEF AuditInv, FileTypes, IsFile, ChainInv
  <2>2. lock[f] = Nobody
    BY DEF AuditInv, SessionTypes, LockInv
  <2>3. Verdict(files[f], Key) = "OK"
    BY <2>1, GoodVerdict DEF WritesOf
  <2>4. EndsWithNewline(files[f])
    <3> SUFFICES ASSUME files[f] # <<>>
                 PROVE  files[f][Len(files[f])].cut = "whole"
      BY DEF EndsWithNewline
    <3>1. Len(files[f]) # 0
      BY <2>1, EmptySeq DEF IsSeq
    <3> QED BY <2>1, <3>1 DEF WritesOf
  <2> QED BY <2>2, <2>3, <2>4 DEF Resumable
<1> QED BY <1>1, AuditIsInvariant, ChainIsInvariant, PTL
=============================================================================
