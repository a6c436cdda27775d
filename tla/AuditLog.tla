------------------------------ MODULE AuditLog ------------------------------
(***************************************************************************)
(* The audit log on disk (internal/audit): sessions that open, append to   *)
(* and close one log, one process each, any of which may crash between any *)
(* two steps; writes that fail half-way; an outsider who edits the file;   *)
(* and, as far as Rotation goes, one who moves it aside.                   *)
(*                                                                         *)
(* A Logger's mutex makes its appends take turns, so a session has at most *)
(* one write in progress; other processes see that write half done.        *)
(***************************************************************************)
EXTENDS AuditChain, SequencesExt

CONSTANTS
  Sessions,    \* one process each
  Bodies,      \* what an entry records of a tool call
  Header,      \* the body of a session header
  Key, BadKey, \* the signing key, and an outsider's
  Nobody,      \* the holder of a lock that is free
  Inodes,      \* the files that may come to exist under the path
  NoFile,      \* nothing exists under the path
  Rotation,    \* when the log may be moved aside: "never", "settled" (while
               \* no session is opening it) or "any" time
  MaxWrites,   \* bound: the writes in one file
  MaxEdits     \* bound: the outsider's edits

ASSUME AuditAssumption ==
  /\ Header \notin Bodies /\ Key # BadKey /\ Nobody \notin Sessions
  /\ NoFile \notin Inodes /\ Rotation \in {"never", "settled", "any"}
  /\ MaxWrites \in Nat /\ MaxEdits \in Nat

VARIABLES
  path,     \* the inode the log's path names, or NoFile
  files,    \* the writes in each inode
  lock,     \* the holder of each inode's lock
  pc,       \* "down", "lock", "read", "header", "up", "writing", "gone"
  handle,   \* the inode each session has open
  seq, prevHash,  \* each Logger's position in the chain
  at,       \* the position of a session's write in progress
  sealed,   \* history: the entries the sessions sealed
  edits

loggerVars == <<seq, prevHash>>
vars == <<path, files, lock, pc, handle, loggerVars, at, sealed, edits>>

Init ==
  /\ path = NoFile /\ files = [f \in Inodes |-> <<>>]
  /\ lock = [f \in Inodes |-> Nobody]
  /\ pc = [s \in Sessions |-> "down"] /\ handle = [s \in Sessions |-> NoFile]
  /\ seq = [s \in Sessions |-> 0] /\ prevHash = [s \in Sessions |-> Genesis]
  /\ at = [s \in Sessions |-> 0] /\ sealed = {} /\ edits = 0

Goes(s, step) == pc' = [pc EXCEPT ![s] = step]

\* Fault: the lock is a file of its own, left behind with the process.
Unlock_Sidecar(s) == UNCHANGED lock

\* The kernel frees the lock with the handle, whichever way the process ends.
Unlock(s) == lock' = [f \in Inodes |-> IF lock[f] = s THEN Nobody ELSE lock[f]]

Unused == {f \in Inodes : \A s \in Sessions : handle[s] # f} \ {path}

-----------------------------------------------------------------------------
\* Open: the file, then its lock, then its history, which is read by path.

OpenFile(s) ==
  /\ pc[s] = "down" /\ Goes(s, "lock")
  /\ \/ path # NoFile /\ UNCHANGED path
     \/ path = NoFile /\ \E f \in Unused : files[f] = <<>> /\ path' = f
  /\ handle' = [handle EXCEPT ![s] = path']
  /\ UNCHANGED <<files, lock, loggerVars, at, sealed, edits>>

\* Fault: the lock is not exclusive.
Free_Shared(f) == TRUE
Free(f) == lock[f] = Nobody

LockFile(s) ==
  /\ pc[s] = "lock"
  /\ \/ /\ Free(handle[s])
        /\ lock' = [lock EXCEPT ![handle[s]] = s] /\ Goes(s, "read")
     \/ ~Free(handle[s]) /\ Goes(s, "gone") /\ UNCHANGED lock
  /\ UNCHANGED <<path, files, handle, loggerVars, at, sealed, edits>>

\* Fault: whatever is there already is not looked at.
History_Fresh == <<>>
History == IF path = NoFile THEN <<>> ELSE files[path]

LastState(s) ==
  /\ pc[s] = "read"
  /\ \/ /\ Resumable(History, Key)
        /\ seq' = [seq EXCEPT ![s] = LastSeq(History)]
        /\ prevHash' = [prevHash EXCEPT ![s] = LastHash(History)]
        /\ Goes(s, "header") /\ UNCHANGED lock
     \/ /\ ~Resumable(History, Key)
        /\ Goes(s, "gone") /\ Unlock(s) /\ UNCHANGED loggerVars
  /\ UNCHANGED <<path, files, handle, at, sealed, edits>>

-----------------------------------------------------------------------------
\* appendPayload: seal, write, and only then advance.

\* runCommand declares the session before any traffic.
MayAppend(s, body) == pc[s] = IF body = Header THEN "header" ELSE "up"

BeginWrite(s, body) ==
  LET e == Seal(Key, s, body, seq[s] + 1, prevHash[s])  f == handle[s] IN
  /\ MayAppend(s, body) /\ Len(files[f]) < MaxWrites
  /\ files' = [files EXCEPT ![f] = Append(@, Wrote(e, "part"))]
  /\ at' = [at EXCEPT ![s] = Len(files[f]) + 1]
  /\ sealed' = sealed \cup {e}
  /\ Goes(s, "writing")
  /\ UNCHANGED <<path, lock, handle, loggerVars, edits>>

Writing(s) == files[handle[s]][at[s]].entry
Arrives(s, cut) == files' = [files EXCEPT ![handle[s]][at[s]].cut = cut]

Advance(s) ==
  /\ seq' = [seq EXCEPT ![s] = Writing(s).seq]
  /\ prevHash' = [prevHash EXCEPT ![s] = Writing(s).hash]

EndWrite(s) ==
  /\ pc[s] = "writing" /\ Arrives(s, "whole") /\ Advance(s) /\ Goes(s, "up")
  /\ UNCHANGED <<path, lock, handle, at, sealed, edits>>

\* Fault: the Logger advances whether or not the write succeeded.
AfterFailure_Advances(s) == Advance(s)
AfterFailure(s) == UNCHANGED loggerVars

\* A failed write leaves nothing, a prefix, or all but the newline.  The session
\* goes on after a failed call, and ends after a failed header.
FailWrite(s) ==
  /\ pc[s] = "writing"
  /\ \/ Arrives(s, "part") \/ Arrives(s, "noLF")
     \/ files' = [files EXCEPT ![handle[s]] = RemoveAt(@, at[s])]
  /\ AfterFailure(s)
  /\ \/ Writing(s).body = Header /\ Goes(s, "gone") /\ Unlock(s)
     \/ Writing(s).body # Header /\ Goes(s, "up") /\ UNCHANGED lock
  /\ UNCHANGED <<path, handle, at, sealed, edits>>

Close(s) ==
  /\ pc[s] = "up" /\ Goes(s, "gone") /\ Unlock(s)
  /\ UNCHANGED <<path, files, handle, loggerVars, at, sealed, edits>>

\* The process is killed; a write in progress arrives to any extent.
Crash(s) ==
  /\ pc[s] \notin {"down", "gone"} /\ Goes(s, "gone") /\ Unlock(s)
  /\ IF pc[s] = "writing" THEN \E cut \in Cuts : Arrives(s, cut)
                          ELSE UNCHANGED files
  /\ UNCHANGED <<path, handle, loggerVars, at, sealed, edits>>

Session(s) ==
  \/ OpenFile(s) \/ LockFile(s) \/ LastState(s)
  \/ \E body \in Bodies \cup {Header} : BeginWrite(s, body)
  \/ EndWrite(s) \/ FailWrite(s) \/ Close(s) \/ Crash(s)

-----------------------------------------------------------------------------
\* Outsiders.  They do not hold Key, and do not edit under a write in progress.

Quiet == \A s \in Sessions : pc[s] # "writing"

Edits(f, content) ==
  /\ Quiet /\ edits < MaxEdits /\ edits' = edits + 1
  /\ files' = [files EXCEPT ![f] = content]
  /\ UNCHANGED <<path, lock, pc, handle, loggerVars, at, sealed>>

Altered(e) ==
  {[e EXCEPT !.body = b] : b \in Bodies \ {e.body}}
    \cup {[e EXCEPT !.seq = @ + 1], [e EXCEPT !.prev = Genesis]}
Resealed(e) ==
  {e, [e EXCEPT !.hash = Content(e)],
   [e EXCEPT !.hash = Content(e), !.sig = <<BadKey, Content(e)>>]}

\* Remove, copy or move a line, or change what it says, its place or its link,
\* leaving its seal alone, or making the hash or the whole seal match.
Edit(f, i) ==
  LET old == files[f] IN
  \/ Edits(f, RemoveAt(old, i))
  \/ \E j \in 1..Len(old) :
       \/ i < j /\ Edits(f, [old EXCEPT ![i] = old[j], ![j] = old[i]])
       \/ Len(old) < MaxWrites /\ Edits(f, InsertAt(old, i, old[j]))
  \/ \E changed \in Altered(old[i].entry) : \E e \in Resealed(changed) :
       Edits(f, [old EXCEPT ![i].entry = e])

MoveAside ==
  /\ path # NoFile
  /\ \/ Rotation = "any"
     \/ Rotation = "settled" /\ \A s \in Sessions : pc[s] \notin {"lock", "read"}
  /\ path' = NoFile
  /\ UNCHANGED <<files, lock, pc, handle, loggerVars, at, sealed, edits>>

Next ==
  \/ \E s \in Sessions : Session(s)
  \/ \E f \in Inodes : \E i \in 1..Len(files[f]) : Edit(f, i)
  \/ MoveAside

Spec == Init /\ [][Next]_vars

-----------------------------------------------------------------------------
Active(s) == pc[s] \in {"read", "header", "up", "writing"}
WritesOf(f) == 1..Len(files[f])

TypeOK ==
  /\ path \in Inodes \cup {NoFile}
  /\ \A f \in Inodes : \A i \in WritesOf(f) :
       /\ files[f][i].cut \in Cuts
       /\ files[f][i].entry.session \in Sessions
       /\ files[f][i].entry.body \in Bodies \cup {Header}
       /\ files[f][i].entry.seq \in Nat
  /\ lock \in [Inodes -> Sessions \cup {Nobody}]
  /\ pc \in [Sessions -> {"down", "lock", "read", "header", "up", "writing", "gone"}]
  /\ handle \in [Sessions -> Inodes \cup {NoFile}]
  /\ seq \in [Sessions -> Nat] /\ at \in [Sessions -> 0..MaxWrites]
  /\ edits \in 0..MaxEdits

\* Two sessions are never past the lock of one file, and a lock is held only by
\* a session that is alive to use it, however sessions end (lockFile, Open).
OneWriter ==
  /\ \A s, t \in Sessions : Active(s) /\ Active(t) /\ handle[s] = handle[t] => s = t
  /\ \A f \in Inodes : lock[f] # Nobody => Active(lock[f]) /\ handle[lock[f]] = f

\* Verify, run at any moment on a log only sessions touched, vouches for it or
\* says it cannot read it; it never reports tampering, whatever crashed, failed
\* half-way or is being written right now.
NeverAccusesItself ==
  edits = 0 => \A f \in Inodes : Verdict(files[f], Key) \in {"OK", "unreadable"}

\* After a write that did not arrive whole, nothing follows but what the same
\* session still writes: no later session builds on a damaged log (lastState).
DamageStopsTheLog ==
  edits = 0 =>
    \A f \in Inodes : \A i, j \in WritesOf(f) :
      i < j /\ files[f][i].cut # "whole"
        => files[f][j].entry.session = files[f][i].entry.session

\* A log Verify vouches for is, up to lines cut from its end, one a chain of
\* sessions wrote: every line is an entry some session sealed, in the order in
\* which they were sealed, with nothing missing in between.
TamperDetected ==
  \A f \in Inodes :
    Verdict(files[f], Key) = "OK" =>
      \A i \in WritesOf(f) :
        /\ files[f][i].entry \in sealed
        /\ files[f][i].entry.seq = i
        /\ i > 1 => files[f][i].entry.prev = Content(files[f][i - 1].entry)

\* A log nobody damaged accepts the next session: with nobody at work, what
\* sessions left whole can be continued.
Reopens ==
  \A f \in Inodes :
    /\ edits = 0 /\ (\A i \in WritesOf(f) : files[f][i].cut = "whole")
    /\ (\A s \in Sessions : ~Active(s))
    => lock[f] = Nobody /\ Resumable(files[f], Key)

\* Open's own account: a file holds one chain, not a second one forked in it.
OneChainPerFile ==
  edits = 0 =>
    \A f \in Inodes : \A i, j \in WritesOf(f) :
      /\ files[f][i].cut = "whole" /\ files[f][i].entry.prev = Genesis
      /\ files[f][j].cut = "whole" /\ files[f][j].entry.prev = Genesis
      => i = j
=============================================================================
