----------------------------- MODULE MCGateway -----------------------------
(***************************************************************************)
(* Small instances of Gateway: three ids, one tool per verdict, and sets of  *)
(* client messages that bring out one kind of interaction each.            *)
(***************************************************************************)
EXTENDS Gateway

CONSTANTS open, held, denied, a, b, c

Call(id, tool, size) == [kind |-> "call", id |-> id, tool |-> tool, size |-> size]
Plain(kind, id) == [kind |-> kind, id |-> id, tool |-> NoTool, size |-> 1]

MCTools == {open, held, denied}
MCDeny == {denied}
MCApprove == {held, denied}
MCIds == {a, b, c}
MCTwoIds == {a, b}

\* Every kind of message; the plain request has an id of its own.
MCEveryKind ==
  {Call(a, t, 2) : t \in MCTools}
    \cup {Plain("request", b), Plain("notification", NoId), Plain("reply", a),
          Plain("invalid", a), Plain("batch", NoId), Plain("oversize", NoId)}

\* Calls and requests that reserve ids, reuse them and fill the table.  Of two entries
\* and four bytes, one call and a request take up all; the other call then has neither
\* an entry nor bytes left.  Two requests leave it the bytes, one call the entry.
MCReuse ==
  {Call(a, open, 3), Call(b, held, 2), Plain("request", a), Plain("request", c)}

\* One id, both ways of clearing a call.
MCOneId == {Call(a, open, 2), Call(a, held, 2)}
=============================================================================
