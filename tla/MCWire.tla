------------------------------- MODULE MCWire -------------------------------
(***************************************************************************)
(* A small instance of Envelope: every shape of message the code           *)
(* distinguishes, with one edit of the kinds that make a line ambiguous or *)
(* malformed; batches of them; and sequences of calls over ids that are    *)
(* spelled, typed or rounded alike.                                        *)
(***************************************************************************)
EXTENDS Envelope, JsonText

Str(text) == <<"string", text, "plain">>
One == <<"number", 2, "plain">>
Halves(n) == <<"number", n, "plain">>
Obj(members) == <<"object", members>>
Arr(values) == <<"array", values>>

Version == Plain("jsonrpc", Str("2.0"))
Arguments == Obj(<<Plain("path", Str("a"))>>)
Params(tool) == Obj(<<Plain("name", Str(tool)), Plain("arguments", Arguments)>>)
\* One name in two other cases: no duplicate, but for a reader that folds.
TwoCases == Obj(<<<<"path", "cased", Str("a")>>, <<"path", "capitals", Str("x")>>>>)
Call(id) ==
  Obj(<<Version, Plain("id", id), Plain("method", Str("tools/call")),
        Plain("params", Params("read"))>>)
Other == Obj(<<Version, Plain("id", One), Plain("method", Str("ping")),
               Plain("params", Obj(<<>>))>>)
Note == Obj(<<Version, Plain("method", Str("ping"))>>)
Result(id) == Answer(id)
Error(id) ==
  Obj(<<Version, Plain("id", id),
        Plain("error", Obj(<<Plain("code", One), Plain("message", Str("m"))>>))>>)

-----------------------------------------------------------------------------
\* Edits of the members of one object.
Atoms == {Null, <<"true">>, Halves(1), Halves(-2), Halves(Overflow), Str("x"), Str(""), <<"string", "x", "lossy">>,
          Str("tools/call"), Arr(<<>>), Obj(<<>>), Params("write")}

EditsOf(members, names, atoms) ==
  LET I == DOMAIN members IN
  {SubSeq(members, 1, i - 1) \o SubSeq(members, i + 1, Len(members)) : i \in I}
    \cup {[members EXCEPT ![i][3] = a] : i \in I, a \in atoms}
    \cup {[members EXCEPT ![i][2] = how] : i \in I, how \in Spellings}
    \cup UNION {{<<m>> \o members, Append(members, m)} :
                m \in names \X {"plain", "escaped", "cased"} \X atoms}

EditedBy(v, names, atoms) == {Obj(m) : m \in EditsOf(v[2], names, atoms)}
Edited(v, names) == EditedBy(v, names, Atoms)

\* The same, one or two levels down.
Nest(v, i, inner) == [v EXCEPT ![2][i][3] = inner]
Within1(v, i, names) == {Nest(v, i, w) : w \in Edited(v[2][i][3], names)}

EnvelopeNames == {"jsonrpc", "id", "method", "params", "result", "error"}
Calls == Call(One)
CallEdits ==
  Edited(Calls, EnvelopeNames)
    \cup Within1(Calls, 4, {"name", "arguments"})
    \cup {Nest(Calls, 4, Nest(Params("read"), 2, w)) :
           w \in Edited(Arguments, {"path"}) \cup {TwoCases}}
Lines ==
  {Calls, Other, Note, Result(One), Error(One), <<"broken">>, Null, Str("x")}
    \cup CallEdits \cup Edited(Other, EnvelopeNames) \cup Edited(Note, EnvelopeNames)
    \cup Edited(Result(One), EnvelopeNames) \cup Edited(Error(One), EnvelopeNames)
    \cup Within1(Error(One), 3, {"code", "message"})
Batches == {Arr(<<>>)} \cup {Arr(<<v>>) : v \in Lines \ {<<"broken">>}}
             \cup {Arr(<<v, Other>>) : v \in Edited(Calls, {"id"})}

\* Ids that are the same string, the same number, or the same double.
Ids == {Halves(0), <<"number", 0, "minus">>, One, <<"number", 2, "exponent">>, Halves(1),
        Halves(Exact), Halves(Exact + 1), Halves(-Exact - 1), Halves(-Exact - 2),
        Str("1"), <<"string", "1", "escaped">>}
Pairs == {<<Call(i), Call(j)>> : i, j \in Ids}

MCScripts == {<<>>} \cup {<<v>> : v \in Lines \cup Batches} \cup Pairs
\* The lines a server writes of its own accord, edited with fewer values.
ReplyAtoms == Atoms \ {Halves(-2), Str(""), Str("tools/call"), Arr(<<>>), Params("write")}
MCReplies ==
  EditedBy(Result(One), EnvelopeNames, ReplyAtoms)
    \cup EditedBy(Error(One), EnvelopeNames, ReplyAtoms)
    \cup {Nest(Error(One), 3, w) :
            w \in EditedBy(Error(One)[2][3][3], {"code", "message"}, ReplyAtoms)}
    \cup {Calls, Note, Null}

\* The values these are made of, and the answers to the ids among them.
RECURSIVE PartsOf(_), DepthOf(_)
PartsOf(v) == {v} \cup UNION {PartsOf(w) : w \in Inner(v)}
DepthOf(v) ==
  IF v[1] \in {"array", "object"} THEN 1 + Max({0} \cup {DepthOf(w) : w \in Inner(v)}) ELSE 0

Said == UNION {PartsOf(v) : v \in Lines \cup Batches \cup UNION {{p[1], p[2]} : p \in Pairs}
                                    \cup MCReplies}
Answers == UNION {{Answer(w) : w \in Rewritten(id)} : id \in {v \in Said : ValidID(v)}}
MCDepth == [v \in Said \cup UNION {PartsOf(a) : a \in Answers} |-> DepthOf(v)]

-----------------------------------------------------------------------------
\* Two strings, of up to three pieces and of one, and every way to cut them short;
\* and a backslash before the string, where JSON has none.
Pieces == {<<>>, <<"x">>, <<"b", "q">>, <<"b", "b">>, <<"b", "u", "0", "0", "4", "8">>,
           <<"b", "u", "d", "8", "0", "0">>, <<"b", "u", "d", "c", "0", "0">>,
           <<"b", "u", "d", "8">>, <<"u", "d", "8", "0", "0">>}
Whole ==
  {<<"q">> \o a \o b \o c \o <<"q", ",", "q">> \o d \o <<"q">> : a, b, c, d \in Pieces}
Misquoted == {<<"b", "q">> \o a \o b \o <<"q">> : a, b \in Pieces}
MCTexts == UNION {{SubSeq(s, 1, n) : n \in 0..Len(s)} : s \in Whole} \cup Misquoted

\* Before, in and after the surrogates' place; one name a prefix of another.
Points == {97, 57344, 65536, 66560}
MCNames == UNION {[1..n -> Points] : n \in 0..2}
MCNameSets == {s \in SUBSET MCNames : Cardinality(s) <= 3}

-----------------------------------------------------------------------------
\* Either a script, or a text, or an object's names: they do not interact.
WireInit ==
  /\ \/ script \in Scripts /\ raw = <<>> /\ left = {}
     \/ script = <<>> /\ raw \in Texts /\ left = {}
     \/ script = <<>> /\ raw = <<>> /\ left \in NameSets
  /\ NothingSent /\ NothingRead

WireNext ==
  \/ Next /\ UNCHANGED textVars
  \/ script = <<>> /\ TextNext /\ UNCHANGED vars

WireSpec == WireInit /\ [][WireNext]_<<vars, textVars>>
=============================================================================
