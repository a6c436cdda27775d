------------------------------ MODULE Envelope ------------------------------
(***************************************************************************)
(* What makes a line a JSON-RPC request, reply or neither (proxy's         *)
(* inspectRequest, isResponse and idKey, and jsoncheck): a client that     *)
(* sends lines, the gateway that forwards, reserves or refuses them, and a *)
(* server that reads what it is forwarded in a way of its own.             *)
(*                                                                         *)
(* A JSON value is a tuple: <<"null">>, <<"true">>, <<"number", n,         *)
(* spelling>>, <<"string", text, spelling>>, <<"array", values>> or        *)
(* <<"object", members>>, a member being <<name, spelling, value>> in wire *)
(* order; n counts halves, so that a number may be fractional.  A line     *)
(* that is not JSON is <<"broken">>.  Spellings:                           *)
(*   of a name    "plain", "escaped" (\u escapes), and two that write it   *)
(*                in another case: "cased" and "capitals"                  *)
(*   of a string  "plain", "escaped", "lossy" (a lone surrogate or bytes   *)
(*                that are not UTF-8, which some parsers replace)          *)
(*   of a number  "plain", "exponent", "minus" (negative zero)             *)
(***************************************************************************)
EXTENDS Integers, Sequences, FiniteSetsExt

CONSTANTS
  Scripts,   \* the sequences of lines a client may send
  Replies,   \* lines a server may write that answer nothing
  Depth,     \* the JSON values, each with how deep its arrays and objects nest
  Exact,     \* doubles hold the halves up to Exact of them, then whole numbers
  Overflow   \* the first number beyond them all, in halves

ASSUME EnvelopeAssumption == Exact \in Nat /\ Overflow \in Nat /\ Exact < Overflow

Values == DOMAIN Depth
MaxDepth == 10000  \* what nests deeper is not JSON to any decoder here

VARIABLES
  script, at,   \* the client's lines, and how many it has sent
  table,        \* the reserved requests: <<key, position in script>>
  forwarded, answered,  \* the positions the server has received, and answered
  named,        \* the ids the refusal of the last line names
  reply         \* the server's last line, the position it answers and the one it frees

vars == <<script, at, table, forwarded, answered, named, reply>>

Absent == <<"absent">>
Null == <<"null">>
Object(v) == v[1] = "object"

-----------------------------------------------------------------------------
\* jsoncheck.Validate.

\* The name that a member's spelling decodes to.
Decoded(m) == <<m[1], IF m[2] = "escaped" THEN "plain" ELSE m[2]>>
SameName(m, n) == Decoded(m) = Decoded(n)

\* The values directly in an array or object.
Inner(v) ==
  CASE v[1] = "array"  -> {v[2][i] : i \in DOMAIN v[2]}
    [] v[1] = "object" -> {v[2][i][3] : i \in DOMAIN v[2]}
    [] OTHER           -> {}

Spellings == {"plain", "escaped", "cased", "capitals"}

ASSUME JsonAssumption ==
  \A v \in Values :
    /\ Depth[v] \in 0..MaxDepth /\ \A w \in Inner(v) : Depth[w] < Depth[v]
    /\ \/ v \in {<<"broken">>, <<"null">>, <<"true">>}
       \/ v \in {"number"} \X Int \X {"plain", "exponent", "minus"}
       \/ v \in {"string"} \X STRING \X {"plain", "escaped", "lossy"}
       \/ v[1] = "array" /\ v = <<"array", v[2]>> /\ v[2] \in Seq(Values)
       \/ /\ v[1] = "object" /\ v = <<"object", v[2]>>
          /\ v[2] \in Seq(STRING \X Spellings \X Values)

\* Fault: the names of the outer object only.
Valid_Outermost(v) ==
  Object(v) => \A i, j \in DOMAIN v[2] : SameName(v[2][i], v[2][j]) => i = j
\* Every object's names differ, and no text is lossy, at any depth.
Valid(v) ==
  LET valid[w \in Values] ==
        /\ w[1] = "string" => w[3] # "lossy"
        /\ Object(w) => \A i, j \in DOMAIN w[2] : SameName(w[2][i], w[2][j]) => i = j
        /\ \A u \in Inner(w) : valid[u]
  IN valid[v]

-----------------------------------------------------------------------------
\* The raw map of an object: exact names, the last of duplicates.

At(v, name) == {i \in DOMAIN v[2] : Decoded(v[2][i]) = <<name, "plain">>}
Get(v, name) == IF At(v, name) = {} THEN Absent ELSE v[2][Max(At(v, name))][3]
Has(v, name) == At(v, name) # {}
Text(v) == IF v[1] = "string" THEN v[2] ELSE ""   \* null decodes to ""

HasFieldAlias(v, names) ==
  \E i \in DOMAIN v[2] : v[2][i][1] \in names /\ Decoded(v[2][i])[2] # "plain"

Version2(v) == Text(Get(v, "jsonrpc")) = "2.0"

Double(n) == IF n \in -Exact..Exact THEN n ELSE 2 * (n \div 2)
Finite(n) == Double(n) \in (1 - Overflow)..(Overflow - 1)
Integral(n) == Double(n) % 2 = 0
ValidID(id) == id[1] = "string" \/ (id[1] = "number" /\ Finite(id[2]))

\* Fault: the id as it stands on the wire.
IdKey_Spelling(id) == id
IdKey(id) == IF id[1] = "string" THEN <<"s", id[2]>> ELSE <<"n", Double(id[2])>>

ErrorShape(body) ==
  /\ Object(body) /\ ~HasFieldAlias(body, {"code", "message"})
  /\ Get(body, "code")[1] = "number"
  /\ Finite(Get(body, "code")[2]) /\ Integral(Get(body, "code")[2])
  /\ Get(body, "message")[1] = "string"

IsResponse(v) ==
  /\ Version2(v) /\ ~Has(v, "method")
  /\ Has(v, "result") # Has(v, "error")
  /\ ~HasFieldAlias(v, {"jsonrpc", "id", "method", "result", "error"})
  /\ ValidID(Get(v, "id")) \/ (Has(v, "error") /\ Get(v, "id") = Null)
  /\ Has(v, "error") => ErrorShape(Get(v, "error"))

-----------------------------------------------------------------------------
\* inspectRequest, up to the policy: what it makes of a line.

Readable(v) ==
  Object(v) /\ Valid(v) /\ ~HasFieldAlias(v, {"jsonrpc", "id", "method", "params"})

Method(v) == Text(Get(v, "method"))
IsRequest(v) == Method(v) # "" /\ ~Has(v, "result") /\ ~Has(v, "error")
Container(v) == v[1] \in {"object", "array"}

ToolCall(v) ==
  LET params == Get(v, "params") IN
  /\ ValidID(Get(v, "id"))
  /\ Object(params) /\ ~HasFieldAlias(params, {"name", "arguments"})
  /\ Text(Get(params, "name")) # ""
  /\ Has(params, "arguments") => Object(Get(params, "arguments"))

OtherRequest(v) ==
  /\ Has(v, "params") => Container(Get(v, "params"))
  /\ Has(v, "id") => ValidID(Get(v, "id"))

Accepts(v) ==
  /\ Readable(v) /\ Version2(v)
  /\ \/ ~Has(v, "method") /\ IsResponse(v)
     \/ IsRequest(v) /\ Method(v) = "tools/call" /\ ToolCall(v)
     \/ IsRequest(v) /\ Method(v) # "tools/call" /\ OtherRequest(v)

\* Responses and notifications reserve nothing.
Reserves(v) == Has(v, "method") /\ Has(v, "id")
InFlight(key) == \E c \in table : c[1] = key

\* Fault: a batch's elements are not checked before they are answered.
Answerable_Unchecked(e) == Object(e) /\ ValidID(Get(e, "id"))
Answerable(e) ==
  Object(e) /\ Valid(e) /\ ValidID(Get(e, "id")) /\ ~HasFieldAlias(e, {"id"})

\* The ids a refusal answers: none of them means the null id.
RefusalIds(v) ==
  IF v[1] = "array" THEN {Get(e, "id") : e \in {f \in Inner(v) : Answerable(f)}}
  ELSE IF Readable(v) THEN {id \in {Get(v, "id")} : ValidID(id)}
  ELSE {}
-----------------------------------------------------------------------------
NothingSent ==
  /\ at = 0 /\ table = {} /\ forwarded = {} /\ answered = {} /\ named = {}
  /\ reply = [line |-> Null, answers |-> 0, frees |-> {}]
Init == script \in Scripts /\ NothingSent

Forwards(n) == forwarded' = forwarded \cup {n} /\ named' = {}

\* A request whose id is in flight is refused like a malformed one.
InspectRequest ==
  LET l == script[at + 1]  key == IdKey(Get(l, "id")) IN
  /\ at < Len(script) /\ at' = at + 1
  /\ \/ Accepts(l) /\ ~Reserves(l) /\ Forwards(at') /\ UNCHANGED table
     \/ /\ Accepts(l) /\ Reserves(l) /\ ~InFlight(key)
        /\ Forwards(at') /\ table' = table \cup {<<key, at'>>}
     \/ /\ Accepts(l) => Reserves(l) /\ InFlight(key)
        /\ named' = RefusalIds(l) /\ UNCHANGED <<table, forwarded>>
  /\ UNCHANGED <<script, answered, reply>>

\* recordResponse: the entry a line from the server completes.
RecordResponse(l, n) ==
  LET done == IF Object(l) /\ Valid(l) /\ IsResponse(l) /\ ValidID(Get(l, "id"))
              THEN {c \in table : c[1] = IdKey(Get(l, "id"))} ELSE {} IN
  /\ table' = table \ done
  /\ reply' = [line |-> l, answers |-> n, frees |-> {c[2] : c \in done}]
  /\ answered' = answered \cup reply'.frees \cup ({n} \ {0})
  /\ UNCHANGED <<script, at, forwarded, named>>

\* A server may give an id back as it came, as the value it decoded, or as the
\* double that it rounded it to.
Rewritten(id) ==
  {id, <<id[1], id[2], "plain">>}
    \cup IF id[1] = "number" THEN {<<"number", Double(id[2]), "exponent">>} ELSE {}

Plain(name, v) == <<name, "plain", v>>
Answer(id) ==
  <<"object", <<Plain("jsonrpc", <<"string", "2.0", "plain">>), Plain("id", id),
                Plain("result", <<"object", <<>>>>)>>>>

ASSUME LinesAssumption ==
  /\ Scripts \subseteq Seq(Values) /\ Replies \subseteq Values
  /\ \A id \in Values : ValidID(id) => \A w \in Rewritten(id) : Answer(w) \in Values

ServerAnswers(n) ==
  /\ n \in forwarded \ answered /\ Reserves(script[n])
  /\ \E id \in Rewritten(Get(script[n], "id")) : RecordResponse(Answer(id), n)

\* Bound: once, and while there is a request it could free.
ServerWrites ==
  /\ reply.line = Null /\ table # {}
  /\ \E l \in Replies : RecordResponse(l, 0)

Next == InspectRequest \/ (\E n \in forwarded : ServerAnswers(n)) \/ ServerWrites

Spec == Init /\ [][Next]_vars

-----------------------------------------------------------------------------
\* The ways in which a peer may read a line: fold the case of member names or
\* not, take the first or the last of duplicates, keep or replace lossy text.
Readers == [folds : BOOLEAN, takes : {"first", "last"}, repairs : BOOLEAN]
Own == [folds |-> FALSE, takes |-> "last", repairs |-> TRUE]

\* The name a reader takes a member for, and the value it takes for a name: one
\* that folds case does so in every object.
NameTo(m, r) == IF r.folds THEN <<m[1], "plain">> ELSE Decoded(m)
Sees(v, name, r) ==
  LET at0 == {i \in DOMAIN v[2] : NameTo(v[2][i], r) = name} IN
  IF at0 = {} THEN Absent
  ELSE v[2][IF r.takes = "first" THEN Min(at0) ELSE Max(at0)][3]

\* What a value means to a reader, given what the values within it mean.
MeaningBy(meaning, w, r) ==
  CASE w[1] = "string" -> <<"string", IF w[3] = "lossy" /\ r.repairs THEN "?" ELSE w[2]>>
    [] w[1] = "number" -> <<"number", w[2]>>
    [] w[1] = "array"  -> <<"array", [i \in DOMAIN w[2] |-> meaning[w[2][i]]]>>
    [] w[1] = "object" ->
         <<"object", {<<NameTo(w[2][i], r), meaning[Sees(w, NameTo(w[2][i], r), r)]>> :
                        i \in DOMAIN w[2]}>>
    [] OTHER -> w
Meaning(v, r) ==
  LET meaning[w \in Values] == MeaningBy(meaning, w, r) IN meaning[v]

Understood(w, r) == IF w = Absent THEN Absent ELSE Meaning(w, r)
Field(v, name, r) == IF Object(v) THEN Understood(Sees(v, <<name, "plain">>, r), r) ELSE Absent
Within(v, outer, name, r) ==
  IF Object(v) THEN Field(Sees(v, <<outer, "plain">>, r), name, r) ELSE Absent

\* What a peer acts on.
Reading(v, r) ==
  [method |-> Field(v, "method", r), id |-> Field(v, "id", r),
   tool |-> Within(v, "params", "name", r), args |-> Within(v, "params", "arguments", r)]

SameDouble(a, b) ==
  \/ a = b
  \/ a[1] = "number" /\ b[1] = "number" /\ Double(a[2]) = Double(b[2])

\* What the gateway lets through means one thing: no server reads another method,
\* id or tool from it than policy, hold and record were about, nor takes another of
\* its values for the arguments.  Nor does it read other arguments from that value,
\* unless it ignores the case of names: inspectRequest looks for names in another
\* case among its own fields only, never inside the arguments (request.go:67).
EveryReaderAgrees ==
  \A n \in forwarded : \A r \in Readers :
    LET l == script[n]  mine == Reading(l, Own)  theirs == Reading(l, r) IN
    /\ theirs.method = mine.method /\ theirs.id = mine.id
    /\ mine.method = <<"string", "tools/call">> =>
         /\ theirs.tool = mine.tool
         /\ theirs.args = Understood(Get(Get(l, "params"), "arguments"), r)
         /\ ~r.folds => theirs.args = mine.args

Waiting == {n \in forwarded \ answered : Reserves(script[n])}

\* A server's answer frees the request it answers, however the server read and
\* rewrote its id; a line frees nothing unless every client takes it for an
\* answer, one of result and error, to that request; and two requests that a
\* server may take for one are never in flight together.
AnswersFindTheirCall ==
  LET l == reply.line IN
  /\ reply.answers # 0 => reply.frees = {reply.answers}
  /\ \A n \in reply.frees : \A r \in Readers :
       /\ Field(l, "method", r) = Absent
       /\ (Field(l, "result", r) = Absent) # (Field(l, "error", r) = Absent)
       /\ SameDouble(Field(l, "id", r), Field(script[n], "id", r))
  /\ \A m, n \in Waiting : \A r, q \in Readers :
       m # n => ~SameDouble(Field(script[m], "id", r), Field(script[n], "id", q))

\* A refusal carries no id but one that every reader finds in the refused line, or in
\* one element of the refused batch.  (That id may be in use: the refusal of a request
\* that reuses one carries it.)
RefusalsNameTheirRequest ==
  \A id \in named :
    LET l == script[at] IN
    \E v \in {l} \cup (IF l[1] = "array" THEN Inner(l) ELSE {}) :
      \A r \in Readers : Field(v, "id", r) = Meaning(id, r)
=============================================================================
