----------------------------- MODULE WireProofs -----------------------------
(***************************************************************************)
(* What the text of a line means, for every instance of Envelope and of    *)
(* JsonText: a line that was accepted means the same to every reader, an   *)
(* answer frees the slot of its own call, a refusal names the request it   *)
(* refuses (WireInv); the scan for surrogates is exact (ScanInv) and the   *)
(* members of an object have one canonical order (SortInv).                *)
(*                                                                         *)
(* The recursions, over the values within a value and over the pieces of   *)
(* an encoding, are followed by induction: a set of numbers that has 0 and *)
(* the successor of each of its members has them all (SetInduction).       *)
(***************************************************************************)
EXTENDS Envelope, JsonText, FiniteSetTheorems, SequenceTheorems, TLAPS

\* A set of numbers that has any has a least.
LEMMA Least ==
  ASSUME NEW T \in SUBSET Nat, T # {}
  PROVE  \E m \in T : \A k \in T : m <= k
<1> DEFINE R == OpToRel(<, Nat)
<1>1. IsWellFoundedOn(R, Nat)
  BY NatLessThanWellFounded
<1>2. PICK m \in T : \A k \in T : <<k, m>> \notin R
  <2> HIDE DEF R
  <2> QED BY <1>1, WFMin
<1>3. \A k \in T : ~(k < m)
  BY <1>2 DEF OpToRel
<1> QED BY <1>3

\* Induction, over a set.
LEMMA SetInduction ==
  ASSUME NEW T \in SUBSET Nat, 0 \in T, \A n \in T : n + 1 \in T
  PROVE  T = Nat
<1> DEFINE Rest == Nat \ T
<1>1. SUFFICES ASSUME Rest # {} PROVE FALSE
  OBVIOUS
<1>2. PICK m \in Rest : \A k \in Rest : m <= k
  <2>1. Rest \in SUBSET Nat
    OBVIOUS
  <2> HIDE DEF Rest
  <2> QED BY <1>1, <2>1, Least
<1>3. m # 0 /\ m - 1 \in Nat /\ m - 1 \notin Rest
  BY <1>2
<1> QED BY <1>3

-----------------------------------------------------------------------------
\* A member of an object: its name, how it is spelled, its value.
Members == STRING \X Spellings \X Values

\* The forms of a value.
LEMMA ValueShape ==
  ASSUME NEW v \in Values
  PROVE  /\ Depth[v] \in Nat /\ v # Absent
         /\ v[1] \in {"broken", "null", "true", "number", "string", "array", "object"}
         /\ v[1] = "number" => v = <<"number", v[2], v[3]>> /\ v[2] \in Int
         /\ v[1] = "string" => v = <<"string", v[2], v[3]>> /\ v[2] \in STRING
         /\ v[1] = "array" => v = <<"array", v[2]>> /\ v[2] \in Seq(Values)
         /\ v[1] = "object" => v = <<"object", v[2]>> /\ v[2] \in Seq(Members)
         /\ v[1] = "null" => v = Null
<1>1. /\ Depth[v] \in 0..MaxDepth
      /\ \/ v \in {<<"broken">>, <<"null">>, <<"true">>}
         \/ v \in {"number"} \X Int \X {"plain", "exponent", "minus"}
         \/ v \in {"string"} \X STRING \X {"plain", "escaped", "lossy"}
         \/ v[1] = "array" /\ v = <<"array", v[2]>> /\ v[2] \in Seq(Values)
         \/ v[1] = "object" /\ v = <<"object", v[2]>> /\ v[2] \in Seq(Members)
  BY JsonAssumption, Zenon DEF Members
<1>2. Depth[v] \in Nat
  <2>1. MaxDepth \in Int
    BY SMT DEF MaxDepth
  <2> QED BY <1>1, <2>1, SMT
<1>3. CASE v \in {<<"broken">>, <<"null">>, <<"true">>}
  BY <1>2, <1>3, SMT DEF Absent, Null
<1>4. CASE v \in {"number"} \X Int \X {"plain", "exponent", "minus"}
  BY <1>2, <1>4, SMT DEF Absent, Null
<1>5. CASE v \in {"string"} \X STRING \X {"plain", "escaped", "lossy"}
  BY <1>2, <1>5, SMT DEF Absent, Null
<1>6. CASE v[1] = "array" /\ v = <<"array", v[2]>> /\ v[2] \in Seq(Values)
  BY <1>2, <1>6, SMT DEF Absent
<1>7. CASE v[1] = "object" /\ v = <<"object", v[2]>> /\ v[2] \in Seq(Members)
  BY <1>2, <1>7, SMT DEF Absent
<1> QED BY <1>1, <1>3, <1>4, <1>5, <1>6, <1>7, Zenon

\* The nesting limit bounds the depth of every value.
LEMMA DepthBounded == \E n \in Nat : \A w \in Values : Depth[w] < n
<1>1. MaxDepth \in Nat
  BY SMT DEF MaxDepth
<1>2. \A w \in Values : Depth[w] \in 0..MaxDepth
  BY JsonAssumption, Zenon
<1>3. MaxDepth + 1 \in Nat /\ \A w \in Values : Depth[w] < MaxDepth + 1
  BY <1>1, <1>2, SMT
<1> QED BY <1>3, Zenon

\* The values within a value are values, and nest less.
LEMMA InnerShape ==
  ASSUME NEW v \in Values, NEW w \in Inner(v)
  PROVE  w \in Values /\ Depth[w] \in Nat /\ Depth[w] < Depth[v]
<1>1. Depth[w] < Depth[v]
  BY JsonAssumption, Zenon
<1>2. w \in Values
  <2>1. CASE v[1] = "array"
    <3>1. v[2] \in Seq(Values)
      BY <2>1, ValueShape
    <3>2. \E i \in DOMAIN v[2] : w = v[2][i]
      BY <2>1 DEF Inner
    <3> QED BY <3>1, <3>2
  <2>2. CASE v[1] = "object"
    <3>1. v[2] \in Seq(Members)
      BY <2>2, ValueShape
    <3>2. PICK i \in DOMAIN v[2] : w = v[2][i][3]
      BY <2>2 DEF Inner
    <3>3. v[2][i] \in Members
      BY <3>1
    <3> QED BY <3>2, <3>3 DEF Members
  <2>3. v[1] \in {"array", "object"}
    BY DEF Inner
  <2> QED BY <2>1, <2>2, <2>3
<1> QED BY <1>1, <1>2, ValueShape

\* The parts of a member of an object.
LEMMA MemberShape ==
  ASSUME NEW v \in Values, Object(v), NEW i \in DOMAIN v[2]
  PROVE  /\ v[2][i][1] \in STRING /\ v[2][i][2] \in Spellings
         /\ v[2][i][3] \in Inner(v)
         /\ DOMAIN v[2] \in SUBSET Nat
<1>1. v[1] = "object" /\ v[2] \in Seq(Members)
  BY ValueShape DEF Object
<1>2. v[2][i] \in Members /\ DOMAIN v[2] \in SUBSET Nat
  BY <1>1
<1>3. v[2][i][3] \in Inner(v)
  BY <1>1 DEF Inner
<1> QED BY <1>2, <1>3 DEF Members

-----------------------------------------------------------------------------
\* Valid is what its recursion says.
ValidBy(f, w) ==
  /\ w[1] = "string" => w[3] # "lossy"
  /\ Object(w) => \A i, j \in DOMAIN w[2] : SameName(w[2][i], w[2][j]) => i = j
  /\ \A u \in Inner(w) : f[u]

\* Whether a value is valid depends on what it holds alone.
LEMMA ValidSame ==
  ASSUME NEW f, NEW g, NEW w, \A u \in Inner(w) : f[u] = g[u]
  PROVE  ValidBy(f, w) = ValidBy(g, w)
<1>1. (\A u \in Inner(w) : f[u]) <=> (\A u \in Inner(w) : g[u])
  BY Zenon
<1>2. ValidBy(f, w) <=> ValidBy(g, w)
  BY <1>1, Zenon DEF ValidBy
<1>3. ValidBy(f, w) \in BOOLEAN /\ ValidBy(g, w) \in BOOLEAN
  BY Zenon DEF ValidBy
<1> QED BY <1>2, <1>3

\* There is a function that satisfies the recursion: by induction on the depth.
LEMMA ValidExists ==
  \E f : f = [w \in Values |-> ValidBy(f, w)]
<1> DEFINE Good == {n \in Nat : \E f : \A w \in Values : Depth[w] < n => f[w] = ValidBy(f, w)}
<1>1. 0 \in Good
  <2>1. \A w \in Values : ~(Depth[w] < 0)
    BY ValueShape
  <2> QED BY <2>1
<1>2. ASSUME NEW n \in Good PROVE n + 1 \in Good
  <2>1. n \in Nat /\ n + 1 \in Nat
    OBVIOUS
  <2>2. PICK f : \A w \in Values : Depth[w] < n => f[w] = ValidBy(f, w)
    OBVIOUS
  <2> DEFINE g == [w \in Values |-> ValidBy(f, w)]
  <2>3. \A w \in Values : g[w] = ValidBy(f, w)
    BY Zenon
  <2> HIDE DEF g
  <2>4. ASSUME NEW w \in Values, Depth[w] < n + 1 PROVE g[w] = ValidBy(g, w)
    <3>1. ASSUME NEW u \in Inner(w) PROVE f[u] = g[u]
      <4>1. u \in Values /\ Depth[u] < n
        BY <2>1, <2>4, InnerShape, ValueShape
      <4> QED BY <2>2, <2>3, <4>1, Zenon
    <3>2. ValidBy(f, w) = ValidBy(g, w)
      BY <3>1, ValidSame
    <3> QED BY <2>3, <3>2, Zenon
  <2> QED BY <2>1, <2>4, Zenon
<1>3. Good = Nat
  <2>1. Good \in SUBSET Nat
    OBVIOUS
  <2> HIDE DEF Good
  <2> QED BY <1>1, <1>2, <2>1, SetInduction
<1>4. PICK n \in Nat : \A w \in Values : Depth[w] < n
  BY DepthBounded
<1>5. PICK f : \A w \in Values : f[w] = ValidBy(f, w)
  <2>1. n \in Good
    <3> HIDE DEF Good
    <3> QED BY <1>3
  <2> QED BY <1>4, <2>1, Zenon
<1> DEFINE g == [w \in Values |-> ValidBy(f, w)]
<1>6. ASSUME NEW w \in Values PROVE ValidBy(f, w) = ValidBy(g, w)
  <2>1. ASSUME NEW u \in Inner(w) PROVE f[u] = g[u]
    <3>1. u \in Values
      BY InnerShape
    <3> QED BY <1>5, <3>1, Zenon
  <2> HIDE DEF g
  <2> QED BY <2>1, ValidSame, Zenon
<1>7. g = [w \in Values |-> ValidBy(g, w)]
  <2> DEFINE h == [w \in Values |-> ValidBy(g, w)]
  <2>1. \A w \in Values : g[w] = h[w]
    <3>1. \A w \in Values : g[w] = ValidBy(f, w)
      BY Zenon
    <3> HIDE DEF g
    <3>2. \A w \in Values : h[w] = ValidBy(g, w)
      BY Zenon
    <3> HIDE DEF h
    <3> QED BY <1>6, <3>1, <3>2, Zenon
  <2>2. g = [w \in Values |-> g[w]]
    BY Zenon
  <2>3. h = [w \in Values |-> h[w]]
    BY Zenon
  <2> HIDE DEF g, h
  <2>4. g = h
    BY <2>1, <2>2, <2>3, Zenon
  <2> QED BY <2>4 DEF h
<1> QED BY <1>7, Zenon

\* So the one that is chosen does, and Valid is unfolded one level.
LEMMA ValidIsRecursion ==
  ASSUME NEW v \in Values
  PROVE  Valid(v) <=>
           /\ v[1] = "string" => v[3] # "lossy"
           /\ Object(v) => \A i, j \in DOMAIN v[2] : SameName(v[2][i], v[2][j]) => i = j
           /\ \A u \in Inner(v) : Valid(u)
<1> DEFINE F == CHOOSE f : f = [w \in Values |-> ValidBy(f, w)]
<1>1. F = [w \in Values |-> ValidBy(F, w)]
  BY ValidExists, Zenon
<1>2. \A w : Valid(w) = F[w]
  BY DEF Valid, ValidBy
<1> HIDE DEF F
<1>3. F[v] = ValidBy(F, v)
  BY <1>1, Zenon
<1>4. Valid(v) = ValidBy(F, v)
  BY <1>2, <1>3, Zenon
<1>5. (\A u \in Inner(v) : F[u]) <=> \A u \in Inner(v) : Valid(u)
  BY <1>2, Zenon
<1> QED BY <1>4, <1>5, Zenon DEF ValidBy

-----------------------------------------------------------------------------
\* The first and the last of some positions are among them.
LEMMA Extremes ==
  ASSUME NEW n \in Nat, NEW S \in SUBSET (1..n), S # {}
  PROVE  Min(S) \in S /\ Max(S) \in S
<1>1. \E x \in S : \A y \in S : x <= y
  <2>1. S \in SUBSET Nat
    OBVIOUS
  <2> QED BY <2>1, Least
<1>2. \E x \in S : \A y \in S : x >= y
  <2> DEFINE T == {k \in Nat : n - k \in S}
  <2>1. T # {} /\ T \in SUBSET Nat
    <3>1. PICK y \in S : TRUE
      OBVIOUS
    <3>2. n - y \in Nat /\ n - (n - y) = y
      OBVIOUS
    <3>3. n - y \in T
      BY <3>2
    <3> QED BY <3>3
  <2>2. PICK k \in T : \A l \in T : k <= l
    <3> HIDE DEF T
    <3> QED BY <2>1, Least
  <2>3. n - k \in S
    OBVIOUS
  <2>4. ASSUME NEW y \in S PROVE n - k >= y
    <3>1. n - y \in Nat /\ n - (n - y) = y /\ k \in Nat
      OBVIOUS
    <3>2. n - y \in T
      BY <3>1
    <3>3. k <= n - y
      BY <2>2, <3>2
    <3> QED BY <3>1, <3>3
  <2> QED BY <2>3, <2>4
<1> QED BY <1>1, <1>2 DEF Min, Max

\* The members that a reader takes for a name.
Matching(v, name, r) == {i \in DOMAIN v[2] : NameTo(v[2][i], r) = name}

\* What it takes is a value within the object.
LEMMA SeesInside ==
  ASSUME NEW v \in Values, Object(v), NEW name, NEW r
  PROVE  /\ Matching(v, name, r) = {} => Sees(v, name, r) = Absent
         /\ Matching(v, name, r) # {} =>
              \E i \in Matching(v, name, r) : Sees(v, name, r) = v[2][i][3]
<1> DEFINE S == Matching(v, name, r)
<1>1. PICK n \in Nat : DOMAIN v[2] = 1..n
  <2>1. v[2] \in Seq(Members)
    BY ValueShape DEF Object
  <2> QED BY <2>1
<1>2. S \in SUBSET (1..n)
  BY <1>1 DEF Matching
<1>3. Sees(v, name, r) = IF S = {} THEN Absent
                         ELSE v[2][IF r.takes = "first" THEN Min(S) ELSE Max(S)][3]
  BY Zenon DEF Sees, Matching
<1> HIDE DEF S
<1>4. S # {} => Min(S) \in S /\ Max(S) \in S
  BY <1>2, Extremes
<1>5. S = {} => Sees(v, name, r) = Absent
  BY <1>3, Zenon
<1>6. S # {} => \E i \in S : Sees(v, name, r) = v[2][i][3]
  BY <1>3, <1>4, Zenon
<1> QED BY <1>5, <1>6 DEF S

\* An object whose names differ gives every reader the same for a name that it has
\* in no other case.
LEMMA SeesSame ==
  ASSUME NEW v \in Values, Object(v), Valid(v), NEW name, NEW r,
         r.folds => \A i \in DOMAIN v[2] :
                      v[2][i][1] = name => Decoded(v[2][i])[2] = "plain"
  PROVE  /\ Sees(v, <<name, "plain">>, r) = Get(v, name)
         /\ Has(v, name) => Get(v, name) \in Inner(v)
         /\ ~Has(v, name) => Get(v, name) = Absent
<1>1. Matching(v, <<name, "plain">>, r) = At(v, name)
  <2>1. ASSUME NEW i \in DOMAIN v[2]
        PROVE  NameTo(v[2][i], r) = <<name, "plain">> <=> Decoded(v[2][i]) = <<name, "plain">>
    <3>1. /\ Decoded(v[2][i])[1] = v[2][i][1]
          /\ Decoded(v[2][i]) = <<Decoded(v[2][i])[1], Decoded(v[2][i])[2]>>
      BY DEF Decoded
    <3>2. CASE r.folds
      <4>1. NameTo(v[2][i], r) = <<v[2][i][1], "plain">>
        BY <3>2 DEF NameTo
      <4>2. v[2][i][1] = name => Decoded(v[2][i])[2] = "plain"
        BY <3>2
      <4> HIDE DEF Decoded
      <4> QED BY <3>1, <4>1, <4>2
    <3>3. CASE ~r.folds
      BY <3>3 DEF NameTo
    <3> QED BY <3>2, <3>3
  <2> QED BY <2>1, Zenon DEF Matching, At
<1>2. \A i, j \in At(v, name) : i = j
  <2>1. \A i, j \in DOMAIN v[2] : SameName(v[2][i], v[2][j]) => i = j
    BY ValidIsRecursion, Zenon
  <2> QED BY <2>1, Zenon DEF At, SameName
<1>3. PICK n \in Nat : At(v, name) \in SUBSET (1..n)
  <2>1. v[2] \in Seq(Members)
    BY ValueShape DEF Object
  <2>2. PICK n \in Nat : DOMAIN v[2] = 1..n
    BY <2>1
  <2> QED BY <2>2 DEF At
<1>4. CASE At(v, name) = {}
  BY <1>1, <1>4, SeesInside, Zenon DEF Get, Has
<1>5. CASE At(v, name) # {}
  <2>1. Max(At(v, name)) \in At(v, name)
    BY <1>3, <1>5, Extremes
  <2>2. PICK i \in At(v, name) : Sees(v, <<name, "plain">>, r) = v[2][i][3]
    BY <1>1, <1>5, SeesInside
  <2>3. Get(v, name) = v[2][i][3]
    BY <1>2, <1>5, <2>1, Zenon DEF Get
  <2>4. i \in DOMAIN v[2]
    BY DEF At
  <2>5. Get(v, name) \in Inner(v)
    BY <2>3, <2>4, MemberShape
  <2> QED BY <1>5, <2>2, <2>3, <2>5, Zenon DEF Has
<1> QED BY <1>4, <1>5

-----------------------------------------------------------------------------
\* Meaning is what its recursion says.
LEMMA MeaningBySame ==
  ASSUME NEW w \in Values, NEW r, NEW q, NEW f, NEW g,
         \A u \in Inner(w) : f[u] = g[u],
         w[1] = "string" /\ w[3] = "lossy" => r.repairs = q.repairs,
         Object(w) => \A i \in DOMAIN w[2] :
           /\ NameTo(w[2][i], q) = NameTo(w[2][i], r)
           /\ Sees(w, NameTo(w[2][i], r), r) \in Inner(w)
           /\ Sees(w, NameTo(w[2][i], q), q) = Sees(w, NameTo(w[2][i], r), r)
  PROVE  MeaningBy(f, w, r) = MeaningBy(g, w, q)
<1>1. CASE w[1] = "string"
  <2>1. /\ MeaningBy(f, w, r) = <<"string", IF w[3] = "lossy" /\ r.repairs THEN "?" ELSE w[2]>>
        /\ MeaningBy(g, w, q) = <<"string", IF w[3] = "lossy" /\ q.repairs THEN "?" ELSE w[2]>>
    BY <1>1 DEF MeaningBy
  <2> QED BY <1>1, <2>1
<1>2. CASE w[1] = "number"
  BY <1>2 DEF MeaningBy
<1>3. CASE w[1] = "array"
  <2>1. /\ MeaningBy(f, w, r) = <<"array", [i \in DOMAIN w[2] |-> f[w[2][i]]]>>
        /\ MeaningBy(g, w, q) = <<"array", [i \in DOMAIN w[2] |-> g[w[2][i]]]>>
    BY <1>3 DEF MeaningBy
  <2>2. \A i \in DOMAIN w[2] : w[2][i] \in Inner(w)
    BY <1>3 DEF Inner
  <2>3. \A i \in DOMAIN w[2] : f[w[2][i]] = g[w[2][i]]
    BY <2>2, Zenon
  <2>4. [i \in DOMAIN w[2] |-> f[w[2][i]]] = [i \in DOMAIN w[2] |-> g[w[2][i]]]
    BY <2>3, Zenon
  <2> QED BY <2>1, <2>4, Zenon
<1>4. CASE w[1] = "object"
  <2> DEFINE A(i) == <<NameTo(w[2][i], r), f[Sees(w, NameTo(w[2][i], r), r)]>>
             B(i) == <<NameTo(w[2][i], q), g[Sees(w, NameTo(w[2][i], q), q)]>>
  <2>1. /\ MeaningBy(f, w, r) = <<"object", {A(i) : i \in DOMAIN w[2]}>>
        /\ MeaningBy(g, w, q) = <<"object", {B(i) : i \in DOMAIN w[2]}>>
    BY <1>4 DEF MeaningBy
  <2>2. ASSUME NEW i \in DOMAIN w[2] PROVE A(i) = B(i)
    <3>1. f[Sees(w, NameTo(w[2][i], r), r)] = g[Sees(w, NameTo(w[2][i], q), q)]
      BY <1>4, Zenon DEF Object
    <3>2. NameTo(w[2][i], q) = NameTo(w[2][i], r)
      BY <1>4, Zenon DEF Object
    <3> QED BY <3>1, <3>2, Zenon
  <2> HIDE DEF A, B
  <2>3. {A(i) : i \in DOMAIN w[2]} = {B(i) : i \in DOMAIN w[2]}
    BY <2>2, Zenon
  <2> QED BY <2>1, <2>3, Zenon
<1>5. CASE w[1] \notin {"string", "number", "array", "object"}
  BY <1>5 DEF MeaningBy
<1> QED BY <1>1, <1>2, <1>3, <1>4, <1>5, Zenon

\* A name of an object's own is one it has, to every reader.
LEMMA OwnName ==
  ASSUME NEW w \in Values, Object(w), NEW r, NEW i \in DOMAIN w[2]
  PROVE  Sees(w, NameTo(w[2][i], r), r) \in Inner(w)
<1>1. i \in Matching(w, NameTo(w[2][i], r), r)
  BY DEF Matching
<1>2. PICK k \in DOMAIN w[2] : Sees(w, NameTo(w[2][i], r), r) = w[2][k][3]
  BY <1>1, SeesInside DEF Matching
<1> QED BY <1>2, MemberShape

\* Where names differ, a reader who keeps their case finds each at its one place.
LEMMA SeesUnique ==
  ASSUME NEW w \in Values, Object(w), Valid(w), NEW r, ~r.folds, NEW i \in DOMAIN w[2]
  PROVE  /\ NameTo(w[2][i], r) = Decoded(w[2][i])
         /\ Sees(w, NameTo(w[2][i], r), r) = w[2][i][3]
<1>1. \A j \in DOMAIN w[2] : NameTo(w[2][j], r) = Decoded(w[2][j])
  BY Zenon DEF NameTo
<1>2. i \in Matching(w, NameTo(w[2][i], r), r)
  BY Zenon DEF Matching
<1>3. PICK k \in Matching(w, NameTo(w[2][i], r), r) :
             Sees(w, NameTo(w[2][i], r), r) = w[2][k][3]
  BY <1>2, SeesInside, Zenon
<1>4. k \in DOMAIN w[2] /\ Decoded(w[2][k]) = Decoded(w[2][i])
  BY <1>1, <1>3, Zenon DEF Matching
<1>5. k = i
  <2>1. \A a, b \in DOMAIN w[2] : SameName(w[2][a], w[2][b]) => a = b
    BY ValidIsRecursion, Zenon
  <2> QED BY <1>4, <2>1, Zenon DEF SameName
<1> QED BY <1>1, <1>3, <1>5, Zenon

\* A reader's meaning exists as well, by induction on the depth.
LEMMA MeaningExists ==
  ASSUME NEW r
  PROVE  \E f : f = [w \in Values |-> MeaningBy(f, w, r)]
<1>0. ASSUME NEW w \in Values, NEW f, NEW g, \A u \in Inner(w) : f[u] = g[u]
      PROVE  MeaningBy(f, w, r) = MeaningBy(g, w, r)
  BY <1>0, OwnName, MeaningBySame
<1> DEFINE Good == {n \in Nat : \E f : \A w \in Values :
                                  Depth[w] < n => f[w] = MeaningBy(f, w, r)}
<1>1. 0 \in Good
  <2>1. \A w \in Values : ~(Depth[w] < 0)
    BY ValueShape
  <2> QED BY <2>1
<1>2. ASSUME NEW n \in Good PROVE n + 1 \in Good
  <2>1. n \in Nat /\ n + 1 \in Nat
    OBVIOUS
  <2>2. PICK f : \A w \in Values : Depth[w] < n => f[w] = MeaningBy(f, w, r)
    OBVIOUS
  <2> DEFINE g == [w \in Values |-> MeaningBy(f, w, r)]
  <2>3. \A w \in Values : g[w] = MeaningBy(f, w, r)
    BY Zenon
  <2> HIDE DEF g
  <2>4. ASSUME NEW w \in Values, Depth[w] < n + 1 PROVE g[w] = MeaningBy(g, w, r)
    <3>1. ASSUME NEW u \in Inner(w) PROVE f[u] = g[u]
      <4>1. u \in Values /\ Depth[u] < n
        BY <2>1, <2>4, InnerShape, ValueShape
      <4> QED BY <2>2, <2>3, <4>1, Zenon
    <3>2. MeaningBy(f, w, r) = MeaningBy(g, w, r)
      BY <1>0, <3>1
    <3> QED BY <2>3, <3>2, Zenon
  <2> QED BY <2>1, <2>4, Zenon
<1>3. Good = Nat
  <2>1. Good \in SUBSET Nat
    OBVIOUS
  <2> HIDE DEF Good
  <2> QED BY <1>1, <1>2, <2>1, SetInduction
<1>4. PICK n \in Nat : \A w \in Values : Depth[w] < n
  BY DepthBounded
<1>5. PICK f : \A w \in Values : f[w] = MeaningBy(f, w, r)
  <2>1. n \in Good
    <3> HIDE DEF Good
    <3> QED BY <1>3
  <2> QED BY <1>4, <2>1, Zenon
<1> DEFINE g == [w \in Values |-> MeaningBy(f, w, r)]
<1>6. \A w \in Values : g[w] = MeaningBy(f, w, r)
  BY Zenon
<1>7. ASSUME NEW w \in Values PROVE MeaningBy(f, w, r) = MeaningBy(g, w, r)
  <2> HIDE DEF g
  <2>1. ASSUME NEW u \in Inner(w) PROVE f[u] = g[u]
    <3>1. u \in Values
      BY InnerShape
    <3> QED BY <1>5, <1>6, <3>1, Zenon
  <2> QED BY <1>0, <2>1
<1>8. g = [w \in Values |-> MeaningBy(g, w, r)]
  <2> DEFINE h == [w \in Values |-> MeaningBy(g, w, r)]
  <2>1. g = [w \in Values |-> g[w]]
    BY Zenon
  <2> HIDE DEF g
  <2>2. h = [w \in Values |-> h[w]] /\ \A w \in Values : h[w] = MeaningBy(g, w, r)
    BY Zenon
  <2> HIDE DEF h
  <2>3. \A w \in Values : g[w] = h[w]
    BY <1>6, <1>7, <2>2, Zenon
  <2>4. g = h
    BY <2>1, <2>2, <2>3, Zenon
  <2> QED BY <2>4 DEF h
<1> QED BY <1>8, Zenon

Meanings(r) == [v \in Values |-> Meaning(v, r)]

\* So Meaning is unfolded one level as well.
LEMMA MeaningIsRecursion ==
  ASSUME NEW v \in Values, NEW r
  PROVE  Meaning(v, r) = MeaningBy(Meanings(r), v, r)
<1> DEFINE F == CHOOSE f : f = [w \in Values |-> MeaningBy(f, w, r)]
<1>1. F = [w \in Values |-> MeaningBy(F, w, r)]
  BY MeaningExists, Zenon
<1>2. \A w : Meaning(w, r) = F[w]
  BY DEF Meaning
<1> HIDE DEF F
<1>3. F = Meanings(r)
  BY <1>1, <1>2, Zenon DEF Meanings
<1>4. F[v] = MeaningBy(F, v, r)
  BY <1>1, Zenon
<1> QED BY <1>2, <1>3, <1>4, Zenon

\* What strict JSON means is the same to all readers who keep the case of names.
LEMMA MeaningAgrees ==
  ASSUME NEW v \in Values, Valid(v), NEW r \in Readers, NEW q \in Readers,
         ~r.folds, ~q.folds
  PROVE  Meaning(v, r) = Meaning(v, q)
<1> DEFINE Bad == {w \in Values : Valid(w) /\ Meaning(w, r) # Meaning(w, q)}
           Depths == {Depth[w] : w \in Bad}
<1>1. SUFFICES ASSUME v \in Bad PROVE FALSE
  BY Zenon
<1>2. PICK w \in Bad : \A u \in Bad : Depth[w] <= Depth[u]
  <2>1. Depths \in SUBSET Nat
    BY ValueShape
  <2>2. Depths # {}
    BY <1>1
  <2>3. PICK d \in Depths : \A e \in Depths : d <= e
    <3> HIDE DEF Depths
    <3> QED BY <2>1, <2>2, Least
  <2> QED BY <2>3
<1>3. w \in Values /\ Valid(w) /\ Meaning(w, r) # Meaning(w, q)
  OBVIOUS
<1>4. ASSUME NEW u \in Inner(w) PROVE Meanings(r)[u] = Meanings(q)[u]
  <2>1. u \in Values /\ Depth[u] \in Nat /\ Depth[u] < Depth[w] /\ Depth[w] \in Nat
    BY <1>3, InnerShape, ValueShape
  <2>2. Valid(u)
    BY <1>3, ValidIsRecursion, Zenon
  <2>3. u \notin Bad
    <3> HIDE DEF Bad
    <3> QED BY <1>2, <2>1
  <2> QED BY <2>1, <2>2, <2>3, Zenon DEF Meanings
<1>5. w[1] = "string" => w[3] # "lossy"
  BY <1>3, ValidIsRecursion, Zenon
<1>6. ASSUME Object(w), NEW i \in DOMAIN w[2]
      PROVE  /\ NameTo(w[2][i], q) = NameTo(w[2][i], r)
             /\ Sees(w, NameTo(w[2][i], r), r) \in Inner(w)
             /\ Sees(w, NameTo(w[2][i], q), q) = Sees(w, NameTo(w[2][i], r), r)
  <2>1. Sees(w, NameTo(w[2][i], r), r) \in Inner(w)
    BY <1>3, <1>6, OwnName
  <2>2. /\ NameTo(w[2][i], r) = Decoded(w[2][i]) /\ NameTo(w[2][i], q) = Decoded(w[2][i])
        /\ Sees(w, NameTo(w[2][i], r), r) = w[2][i][3]
        /\ Sees(w, NameTo(w[2][i], q), q) = w[2][i][3]
    BY <1>3, <1>6, SeesUnique
  <2> QED BY <2>1, <2>2
<1>7. MeaningBy(Meanings(r), w, r) = MeaningBy(Meanings(q), w, q)
  BY <1>3, <1>4, <1>5, <1>6, MeaningBySame
<1> QED BY <1>3, <1>7, MeaningIsRecursion

-----------------------------------------------------------------------------
\* The proxy itself is one of the readers.
LEMMA OwnReads == Own \in Readers
BY DEF Own, Readers

\* A meaning is a value of the same kind, and never the absent one.
LEMMA MeaningShape ==
  ASSUME NEW v \in Values, NEW r
  PROVE  /\ Meaning(v, r) # Absent
         /\ v[1] = "number" => Meaning(v, r) = <<"number", v[2]>>
         /\ v[1] = "string" /\ Valid(v) => Meaning(v, r) = <<"string", v[2]>>
         /\ \A t : Meaning(v, r) = <<"string", t>> => v[1] = "string"
<1>1. Meaning(v, r) = MeaningBy(Meanings(r), v, r)
  BY MeaningIsRecursion
<1>2. CASE v[1] = "string"
  <2>1. Meaning(v, r) = <<"string", IF v[3] = "lossy" /\ r.repairs THEN "?" ELSE v[2]>>
    BY <1>1, <1>2 DEF MeaningBy
  <2>2. Valid(v) => v[3] # "lossy"
    BY <1>2, ValidIsRecursion, Zenon
  <2> QED BY <1>2, <2>1, <2>2 DEF Absent
<1>3. CASE v[1] = "number"
  BY <1>1, <1>3 DEF MeaningBy, Absent
<1>4. CASE v[1] = "array"
  <2>1. \E x : Meaning(v, r) = <<"array", x>>
    BY <1>1, <1>4 DEF MeaningBy
  <2> QED BY <1>4, <2>1 DEF Absent
<1>5. CASE v[1] = "object"
  <2>1. \E x : Meaning(v, r) = <<"object", x>>
    BY <1>1, <1>5 DEF MeaningBy
  <2> QED BY <1>5, <2>1 DEF Absent
<1>6. CASE v[1] \in {"broken", "null", "true"}
  <2>1. Meaning(v, r) = v
    BY <1>1, <1>6 DEF MeaningBy
  <2> QED BY <1>6, <2>1, ValueShape DEF Absent
<1> QED BY <1>2, <1>3, <1>4, <1>5, <1>6, ValueShape

\* What is neither an array nor an object means the same to all readers.
LEMMA ScalarMeaning ==
  ASSUME NEW v \in Values, Valid(v), ~Container(v), NEW r, NEW q
  PROVE  Meaning(v, r) = Meaning(v, q)
<1>1. v[1] \in {"broken", "null", "true", "number", "string"}
  BY ValueShape DEF Container
<1>2. CASE v[1] \in {"number", "string"}
  BY <1>2, MeaningShape
<1>3. CASE v[1] \in {"broken", "null", "true"}
  <2>1. Meaning(v, r) = v /\ Meaning(v, q) = v
    BY <1>3, MeaningIsRecursion DEF MeaningBy
  <2> QED BY <2>1
<1> QED BY <1>1, <1>2, <1>3

\* For a field of a strict object, its name in one case only, all take one value.
LEMMA FieldSame ==
  ASSUME NEW v \in Values, Object(v), Valid(v), NEW names, ~HasFieldAlias(v, names),
         NEW name \in names, NEW r \in Readers
  PROVE  /\ Sees(v, <<name, "plain">>, r) = Get(v, name)
         /\ Field(v, name, r) = Understood(Get(v, name), r)
         /\ Get(v, name) # Absent <=> Has(v, name)
         /\ Get(v, name) # Absent => Get(v, name) \in Inner(v) /\ Get(v, name) \in Values
                                     /\ Valid(Get(v, name))
<1>1. \A i \in DOMAIN v[2] : v[2][i][1] = name => Decoded(v[2][i])[2] = "plain"
  BY DEF HasFieldAlias
<1>2. /\ Sees(v, <<name, "plain">>, r) = Get(v, name)
      /\ Has(v, name) => Get(v, name) \in Inner(v)
      /\ ~Has(v, name) => Get(v, name) = Absent
  BY <1>1, SeesSame
<1>3. ASSUME Has(v, name)
      PROVE  Get(v, name) \in Values /\ Valid(Get(v, name)) /\ Get(v, name) # Absent
  <2>1. Get(v, name) \in Values
    BY <1>2, <1>3, InnerShape
  <2>2. Valid(Get(v, name))
    BY <1>2, <1>3, ValidIsRecursion, Zenon
  <2> QED BY <2>1, <2>2, ValueShape
<1>4. Field(v, name, r) = Understood(Get(v, name), r)
  BY <1>2, Zenon DEF Field
<1> QED BY <1>2, <1>3, <1>4

\* One that holds no array or object means the same to them, too.
LEMMA ScalarField ==
  ASSUME NEW v \in Values, Object(v), Valid(v), NEW names, ~HasFieldAlias(v, names),
         NEW name \in names, NEW r \in Readers,
         Has(v, name) => ~Container(Get(v, name))
  PROVE  Field(v, name, r) = Understood(Get(v, name), Own)
<1>1. /\ Field(v, name, r) = Understood(Get(v, name), r)
      /\ Get(v, name) # Absent <=> Has(v, name)
      /\ Get(v, name) # Absent => Get(v, name) \in Values /\ Valid(Get(v, name))
  BY FieldSame
<1>2. CASE Has(v, name)
  <2>1. Meaning(Get(v, name), r) = Meaning(Get(v, name), Own)
    BY <1>1, <1>2, ScalarMeaning
  <2> QED BY <1>1, <1>2, <2>1 DEF Understood
<1>3. CASE ~Has(v, name)
  BY <1>1, <1>3 DEF Understood
<1> QED BY <1>2, <1>3

-----------------------------------------------------------------------------
\* A line that is accepted has a string for its method and no container for its id.
LEMMA AcceptedShape ==
  ASSUME NEW v \in Values, Accepts(v)
  PROVE  /\ Has(v, "method") => Get(v, "method")[1] = "string"
         /\ Has(v, "id") => ~Container(Get(v, "id"))
<1>1. CASE ~Has(v, "method")
  <2>1. Get(v, "method") = Absent
    BY <1>1, Zenon DEF Get, Has
  <2>2. Method(v) = ""
    <3>1. Text(Absent) = ""
      BY DEF Text, Absent
    <3>2. Method(v) = Text(Absent)
      BY <2>1, Zenon DEF Method
    <3> QED BY <3>1, <3>2
  <2>3. IsResponse(v)
    BY <2>2, Zenon DEF Accepts, IsRequest
  <2>4. ValidID(Get(v, "id")) \/ Get(v, "id") = Null
    BY <2>3, Zenon DEF IsResponse
  <2>5. ~Container(Get(v, "id"))
    BY <2>4 DEF ValidID, Null, Container
  <2> QED BY <1>1, <2>5
<1>2. CASE Has(v, "method")
  <2>1. IsRequest(v) /\ (ToolCall(v) \/ OtherRequest(v))
    BY <1>2, Zenon DEF Accepts
  <2>2. Get(v, "method")[1] = "string"
    BY <2>1, Zenon DEF IsRequest, Method, Text
  <2>3. Has(v, "id") => ValidID(Get(v, "id"))
    BY <2>1, Zenon DEF ToolCall, OtherRequest
  <2> QED BY <2>2, <2>3 DEF ValidID, Container
<1> QED BY <1>1, <1>2

\* What is accepted is read alike.
LEMMA AcceptedMeansOneThing ==
  ASSUME NEW v \in Values, Accepts(v), NEW r \in Readers
  PROVE  /\ Reading(v, r).method = Reading(v, Own).method
         /\ Reading(v, r).id = Reading(v, Own).id
         /\ Reading(v, Own).method = <<"string", "tools/call">> =>
              /\ Reading(v, r).tool = Reading(v, Own).tool
              /\ Reading(v, r).args = Understood(Get(Get(v, "params"), "arguments"), r)
              /\ ~r.folds => Reading(v, r).args = Reading(v, Own).args
<1> DEFINE names == {"jsonrpc", "id", "method", "params"}
<1>1. Object(v) /\ Valid(v) /\ ~HasFieldAlias(v, names)
  BY Zenon DEF Accepts, Readable
<1>2. ASSUME NEW q \in Readers, NEW name \in names
      PROVE  /\ Sees(v, <<name, "plain">>, q) = Get(v, name)
             /\ Get(v, name) # Absent <=> Has(v, name)
             /\ Get(v, name) # Absent => Get(v, name) \in Values /\ Valid(Get(v, name))
             /\ (Has(v, name) => ~Container(Get(v, name)))
                  => Field(v, name, q) = Understood(Get(v, name), Own)
  <2> HIDE DEF names
  <2>1. /\ Sees(v, <<name, "plain">>, q) = Get(v, name)
        /\ Get(v, name) # Absent <=> Has(v, name)
        /\ Get(v, name) # Absent => Get(v, name) \in Values /\ Valid(Get(v, name))
    BY <1>1, <1>2, FieldSame
  <2>2. (Has(v, name) => ~Container(Get(v, name)))
           => Field(v, name, q) = Understood(Get(v, name), Own)
    BY <1>1, <1>2, ScalarField
  <2> QED BY <2>1, <2>2
<1> HIDE DEF names
<1>3. "id" \in names /\ "method" \in names /\ "params" \in names
  BY DEF names
<1>4. \A q \in Readers : /\ Field(v, "method", q) = Understood(Get(v, "method"), Own)
                         /\ Field(v, "id", q) = Understood(Get(v, "id"), Own)
  <2>1. /\ Has(v, "method") => ~Container(Get(v, "method"))
        /\ Has(v, "id") => ~Container(Get(v, "id"))
    BY AcceptedShape DEF Container
  <2> QED BY <1>2, <1>3, <2>1
<1>5. \A q \in Readers :
        /\ Reading(v, q).method = Field(v, "method", q) /\ Reading(v, q).id = Field(v, "id", q)
        /\ Reading(v, q).tool = Within(v, "params", "name", q)
        /\ Reading(v, q).args = Within(v, "params", "arguments", q)
  BY DEF Reading
<1>6. ASSUME Field(v, "method", Own) = <<"string", "tools/call">>
      PROVE  /\ Within(v, "params", "name", r) = Within(v, "params", "name", Own)
             /\ Within(v, "params", "arguments", r)
                  = Understood(Get(Get(v, "params"), "arguments"), r)
             /\ ~r.folds => Within(v, "params", "arguments", r)
                               = Within(v, "params", "arguments", Own)
  <2> DEFINE m == Get(v, "method")
             p == Get(v, "params")
  <2>1. Understood(m, Own) = <<"string", "tools/call">>
    BY <1>4, <1>6, OwnReads
  <2>2. m # Absent /\ m \in Values /\ Valid(m) /\ Has(v, "method")
    <3>1. m # Absent
      BY <2>1 DEF Understood, Absent
    <3> QED BY <1>2, <1>3, <3>1, OwnReads
  <2>3. Meaning(m, Own) = <<"string", "tools/call">>
    BY <2>1, <2>2 DEF Understood
  <2>4. m[1] = "string" /\ m[2] = "tools/call"
    <3>1. m[1] = "string"
      BY <2>2, <2>3, MeaningShape
    <3>2. Meaning(m, Own) = <<"string", m[2]>>
      BY <2>2, <3>1, MeaningShape
    <3> QED BY <2>3, <3>1, <3>2
  <2>5. Method(v) = "tools/call"
    BY <2>4, Zenon DEF Method, Text
  <2>6. ToolCall(v)
    BY <2>2, <2>5, Zenon DEF Accepts
  <2>7. Object(p) /\ ~HasFieldAlias(p, {"name", "arguments"}) /\ Text(Get(p, "name")) # ""
    BY <2>6, Zenon DEF ToolCall
  <2>8. p # Absent
    <3>1. Object(p)
      BY <2>7
    <3> HIDE DEF p
    <3> QED BY <3>1 DEF Object, Absent
  <2>9. p \in Values /\ Valid(p)
    BY <1>2, <1>3, <2>8, OwnReads
  <2>10. \A q \in Readers : Sees(v, <<"params", "plain">>, q) = p
    BY <1>2, <1>3
  <2> DEFINE a == Get(p, "arguments")
  <2> HIDE DEF p, m
  <2>11. \A q \in Readers : /\ Within(v, "params", "name", q) = Field(p, "name", q)
                            /\ Within(v, "params", "arguments", q) = Field(p, "arguments", q)
    BY <1>1, <2>10, Zenon DEF Within
  <2>12. "name" \in {"name", "arguments"} /\ "arguments" \in {"name", "arguments"}
    OBVIOUS
  <2>13. \A q \in Readers : Field(p, "name", q) = Understood(Get(p, "name"), Own)
    <3>1. ~Container(Get(p, "name"))
      BY <2>7 DEF Text, Container
    <3> QED BY <2>7, <2>9, <2>12, <3>1, ScalarField
  <2>14. \A q \in Readers : /\ Field(p, "arguments", q) = Understood(a, q)
                            /\ a # Absent => a \in Values /\ Valid(a)
    BY <2>7, <2>9, <2>12, FieldSame
  <2>15. ASSUME ~r.folds PROVE Understood(a, r) = Understood(a, Own)
    <3>1. ~Own.folds
      BY DEF Own
    <3> HIDE DEF a
    <3>2. a # Absent => Meaning(a, r) = Meaning(a, Own)
      BY <2>14, <2>15, <3>1, MeaningAgrees, OwnReads
    <3> QED BY <3>2 DEF Understood
  <2> HIDE DEF a
  <2>16. /\ Within(v, "params", "name", r) = Within(v, "params", "name", Own)
         /\ Within(v, "params", "arguments", r) = Understood(a, r)
         /\ ~r.folds => Within(v, "params", "arguments", r)
                           = Within(v, "params", "arguments", Own)
    BY <2>11, <2>13, <2>14, <2>15, OwnReads
  <2> QED BY <2>16 DEF a, p
<1>7. /\ Reading(v, r).method = Reading(v, Own).method
      /\ Reading(v, r).id = Reading(v, Own).id
  BY <1>4, <1>5, OwnReads
<1>8. ASSUME Reading(v, Own).method = <<"string", "tools/call">>
      PROVE  /\ Reading(v, r).tool = Reading(v, Own).tool
             /\ Reading(v, r).args = Understood(Get(Get(v, "params"), "arguments"), r)
             /\ ~r.folds => Reading(v, r).args = Reading(v, Own).args
  BY <1>5, <1>6, <1>8, OwnReads
<1> QED BY <1>7, <1>8

\* An id of a request or of an answer, as the table and as its readers know it.
LEMMA Doubles ==
  ASSUME NEW n \in Int
  PROVE  Double(n) \in Int /\ Double(Double(n)) = Double(n)
<1>1. Exact \in Nat
  BY EnvelopeAssumption
<1>2. n \div 2 \in Int
  OBVIOUS
<1>3. \A k \in Int : (2 * k) \div 2 = k
  OBVIOUS
<1>4. CASE n \in -Exact..Exact
  BY <1>1, <1>4 DEF Double
<1>5. CASE n \notin -Exact..Exact
  <2>1. Double(n) = 2 * (n \div 2)
    BY <1>5 DEF Double
  <2>2. Double(2 * (n \div 2)) = 2 * (n \div 2)
    BY <1>2, <1>3 DEF Double
  <2> QED BY <1>2, <2>1, <2>2
<1> QED BY <1>4, <1>5

\* Two ids are one key of the table exactly when a reader who rounds takes them for one.
LEMMA SameKey ==
  ASSUME NEW x \in Values, NEW y \in Values, ValidID(x), ValidID(y), Valid(x), Valid(y)
  PROVE  IdKey(x) = IdKey(y) <=> SameDouble(Meaning(x, Own), Meaning(y, Own))
<1>1. x[1] \in {"string", "number"} /\ y[1] \in {"string", "number"}
  BY DEF ValidID
<1>2. CASE x[1] = "string" /\ y[1] = "string"
  <2>1. Meaning(x, Own) = <<"string", x[2]>> /\ Meaning(y, Own) = <<"string", y[2]>>
    BY <1>2, MeaningShape
  <2>2. IdKey(x) = <<"s", x[2]>> /\ IdKey(y) = <<"s", y[2]>>
    BY <1>2 DEF IdKey
  <2> QED BY <2>1, <2>2 DEF SameDouble
<1>3. CASE x[1] = "number" /\ y[1] = "number"
  <2>1. Meaning(x, Own) = <<"number", x[2]>> /\ Meaning(y, Own) = <<"number", y[2]>>
    BY <1>3, MeaningShape
  <2>2. IdKey(x) = <<"n", Double(x[2])>> /\ IdKey(y) = <<"n", Double(y[2])>>
    BY <1>3 DEF IdKey
  <2> QED BY <2>1, <2>2 DEF SameDouble
<1>4. CASE x[1] = "string" /\ y[1] = "number"
  <2>1. Meaning(x, Own) = <<"string", x[2]>> /\ Meaning(y, Own) = <<"number", y[2]>>
    BY <1>4, MeaningShape
  <2>2. IdKey(x) = <<"s", x[2]>> /\ IdKey(y) = <<"n", Double(y[2])>>
    BY <1>4 DEF IdKey
  <2> QED BY <2>1, <2>2 DEF SameDouble
<1>5. CASE x[1] = "number" /\ y[1] = "string"
  <2>1. Meaning(x, Own) = <<"number", x[2]>> /\ Meaning(y, Own) = <<"string", y[2]>>
    BY <1>5, MeaningShape
  <2>2. IdKey(x) = <<"n", Double(x[2])>> /\ IdKey(y) = <<"s", y[2]>>
    BY <1>5 DEF IdKey
  <2> QED BY <2>1, <2>2 DEF SameDouble
<1> QED BY <1>1, <1>2, <1>3, <1>4, <1>5

\* The id of a request that has a slot is the one all readers find.
LEMMA RequestId ==
  ASSUME NEW v \in Values, Accepts(v), Reserves(v)
  PROVE  /\ Get(v, "id") \in Values /\ Valid(Get(v, "id")) /\ ValidID(Get(v, "id"))
         /\ \A r \in Readers : Field(v, "id", r) = Meaning(Get(v, "id"), Own)
<1> DEFINE names == {"jsonrpc", "id", "method", "params"}
           id == Get(v, "id")
<1>1. Object(v) /\ Valid(v) /\ ~HasFieldAlias(v, names) /\ Has(v, "id") /\ Has(v, "method")
  BY Zenon DEF Accepts, Readable, Reserves
<1>2. "id" \in names
  OBVIOUS
<1>3. ASSUME NEW r \in Readers
      PROVE  /\ Field(v, "id", r) = Understood(id, Own)
             /\ id # Absent /\ id \in Values /\ Valid(id)
  <2> HIDE DEF names
  <2>1. ~Container(id)
    BY <1>1, AcceptedShape
  <2>2. Field(v, "id", r) = Understood(id, Own)
    BY <1>1, <1>2, <2>1, ScalarField
  <2>3. id # Absent /\ id \in Values /\ Valid(id)
    BY <1>1, <1>2, FieldSame
  <2> QED BY <2>2, <2>3
<1>4. ValidID(id)
  BY <1>1, Zenon DEF Accepts, ToolCall, OtherRequest
<1> HIDE DEF id
<1> QED BY <1>3, <1>4, OwnReads DEF Understood, id

\* What all readers find in a response.
LEMMA ResponseReads ==
  ASSUME NEW v \in Values, Object(v), Valid(v), IsResponse(v), ValidID(Get(v, "id")),
         NEW r \in Readers
  PROVE  /\ Field(v, "method", r) = Absent
         /\ (Field(v, "result", r) = Absent) # (Field(v, "error", r) = Absent)
         /\ Get(v, "id") \in Values /\ Valid(Get(v, "id"))
         /\ Field(v, "id", r) = Meaning(Get(v, "id"), Own)
<1> DEFINE names == {"jsonrpc", "id", "method", "result", "error"}
<1>1. /\ ~HasFieldAlias(v, names) /\ ~Has(v, "method") /\ Has(v, "result") # Has(v, "error")
  BY Zenon DEF IsResponse
<1>2. ASSUME NEW name \in names
      PROVE  /\ Field(v, name, r) = Understood(Get(v, name), r)
             /\ Get(v, name) # Absent <=> Has(v, name)
             /\ Get(v, name) # Absent => Get(v, name) \in Values /\ Valid(Get(v, name))
  <2> HIDE DEF names
  <2> QED BY <1>1, <1>2, FieldSame
<1>3. "id" \in names /\ "method" \in names /\ "result" \in names /\ "error" \in names
  OBVIOUS
<1> HIDE DEF names
<1>4. \A name \in names : Field(v, name, r) = Absent <=> ~Has(v, name)
  <2>1. ASSUME NEW name \in names, Has(v, name) PROVE Field(v, name, r) # Absent
    <3>1. Get(v, name) \in Values /\ Get(v, name) # Absent
      BY <1>2, <2>1
    <3>2. Field(v, name, r) = Meaning(Get(v, name), r)
      BY <1>2, <3>1 DEF Understood
    <3> QED BY <3>1, <3>2, MeaningShape
  <2>2. ASSUME NEW name \in names, ~Has(v, name) PROVE Field(v, name, r) = Absent
    BY <1>2, <2>2 DEF Understood
  <2> QED BY <2>1, <2>2
<1>5. Field(v, "method", r) = Absent
  BY <1>1, <1>3, <1>4
<1>6. (Field(v, "result", r) = Absent) # (Field(v, "error", r) = Absent)
  <2>1. Field(v, "result", r) = Absent <=> ~Has(v, "result")
    BY <1>3, <1>4
  <2>2. Field(v, "error", r) = Absent <=> ~Has(v, "error")
    BY <1>3, <1>4
  <2>3. Has(v, "result") \in BOOLEAN /\ Has(v, "error") \in BOOLEAN
    BY DEF Has
  <2> QED BY <1>1, <2>1, <2>2, <2>3
<1>7. Get(v, "id") # Absent
  BY DEF ValidID, Absent
<1>8. Meaning(Get(v, "id"), r) = Meaning(Get(v, "id"), Own)
  <2>1. ~Container(Get(v, "id"))
    BY DEF ValidID, Container
  <2> QED BY <1>2, <1>3, <1>7, <2>1, ScalarMeaning
<1> QED BY <1>2, <1>3, <1>5, <1>6, <1>7, <1>8 DEF Understood

\* The answer of the server is a valid response with an id of the same key.
LEMMA AnswerFits ==
  ASSUME NEW id \in Values, Valid(id), ValidID(id), NEW w \in Rewritten(id)
  PROVE  /\ Answer(w) \in Values /\ Object(Answer(w)) /\ Valid(Answer(w))
         /\ IsResponse(Answer(w)) /\ Get(Answer(w), "id") = w
         /\ ValidID(w) /\ IdKey(w) = IdKey(id)
<1> DEFINE version == <<"string", "2.0", "plain">>
           nothing == <<"object", <<>>>>
           a == Answer(w)
<1>1. a \in Values
  BY LinesAssumption, Zenon
<1>2. /\ a = <<"object", <<<<"jsonrpc", "plain", version>>, <<"id", "plain", w>>,
                            <<"result", "plain", nothing>>>>>>
  BY DEF Answer, Plain
<1>3. /\ a[1] = "object" /\ DOMAIN a[2] = 1..3
      /\ a[2][1] = <<"jsonrpc", "plain", version>>
      /\ a[2][2] = <<"id", "plain", w>>
      /\ a[2][3] = <<"result", "plain", nothing>>
  <2> HIDE DEF a, version, nothing
  <2> QED BY <1>2
<1>4. /\ w[1] = id[1] /\ (w[1] = "string" => w[3] # "lossy")
      /\ (w[1] = "number" => Finite(w[2]))
      /\ IdKey(w) = IdKey(id)
  <2>1. id[1] \in {"string", "number"} /\ (id[1] = "number" => Finite(id[2]) /\ id[2] \in Int)
    BY ValueShape DEF ValidID
  <2>2. id[1] = "string" => id[3] # "lossy"
    BY ValidIsRecursion, Zenon
  <2>3. CASE w = id
    BY <2>1, <2>2, <2>3
  <2>4. CASE w = <<id[1], id[2], "plain">>
    BY <2>1, <2>4 DEF IdKey
  <2>5. CASE id[1] = "number" /\ w = <<"number", Double(id[2]), "exponent">>
    <3>1. Double(Double(id[2])) = Double(id[2])
      BY <2>1, <2>5, Doubles
    <3>2. w[1] = "number" /\ w[2] = Double(id[2])
      BY <2>5
    <3>3. IdKey(w) = IdKey(id)
      BY <2>5, <3>1, <3>2 DEF IdKey
    <3>4. Finite(w[2])
      BY <2>1, <2>5, <3>1, <3>2 DEF Finite
    <3> QED BY <2>5, <3>2, <3>3, <3>4
  <2> QED BY <2>3, <2>4, <2>5 DEF Rewritten
<1>5. ValidID(w)
  BY <1>4, ValueShape DEF ValidID
<1> HIDE DEF a
<1>6. Object(a)
  BY <1>3 DEF Object
<1>7. /\ At(a, "id") = {2} /\ At(a, "jsonrpc") = {1} /\ At(a, "result") = {3}
      /\ At(a, "method") = {} /\ At(a, "error") = {}
  <2> HIDE DEF version, nothing
  <2>1. \A i \in DOMAIN a[2] : i = 1 \/ i = 2 \/ i = 3
    BY <1>3
  <2>2. 1 \in DOMAIN a[2] /\ 2 \in DOMAIN a[2] /\ 3 \in DOMAIN a[2]
    BY <1>3
  <2>3. /\ a[2][1][1] = "jsonrpc" /\ a[2][2][1] = "id" /\ a[2][3][1] = "result"
        /\ a[2][1][2] = "plain" /\ a[2][2][2] = "plain" /\ a[2][3][2] = "plain"
    BY <1>3
  <2>8. /\ Decoded(a[2][1]) = <<"jsonrpc", "plain">> /\ Decoded(a[2][2]) = <<"id", "plain">>
        /\ Decoded(a[2][3]) = <<"result", "plain">>
    BY <2>3 DEF Decoded
  <2>4. At(a, "id") = {2}
    BY <2>1, <2>2, <2>8 DEF At
  <2>5. At(a, "jsonrpc") = {1}
    BY <2>1, <2>2, <2>8 DEF At
  <2>6. At(a, "result") = {3}
    BY <2>1, <2>2, <2>8 DEF At
  <2>7. At(a, "method") = {} /\ At(a, "error") = {}
    BY <2>1, <2>8 DEF At
  <2> QED BY <2>4, <2>5, <2>6, <2>7
<1>8. \A k \in Nat : Max({k}) = k
  BY DEF Max
<1>9. Get(a, "id") = w /\ Get(a, "jsonrpc") = version
  <2> HIDE DEF version, nothing
  <2>1. a[2][2][3] = w /\ a[2][1][3] = version /\ Max({2}) = 2 /\ Max({1}) = 1
    BY <1>3, <1>8
  <2>2. {1} # {} /\ {2} # {}
    OBVIOUS
  <2> QED BY <1>7, <2>1, <2>2, Zenon DEF Get
<1>10. /\ Has(a, "id") /\ Has(a, "result") /\ ~Has(a, "method") /\ ~Has(a, "error")
  BY <1>7 DEF Has
<1>11. IsResponse(a)
  <2>1. Version2(a)
    BY <1>9 DEF Version2, Text
  <2>2. \A i \in DOMAIN a[2] : Decoded(a[2][i])[2] = "plain"
    BY <1>3 DEF Decoded
  <2>3. ~HasFieldAlias(a, {"jsonrpc", "id", "method", "result", "error"})
    BY <2>2, Zenon DEF HasFieldAlias
  <2>4. Has(a, "result") # Has(a, "error")
    BY <1>10
  <2> QED BY <1>5, <1>9, <1>10, <2>1, <2>3, <2>4, Zenon DEF IsResponse
<1>12. Valid(a)
  <2>1. Inner(a) = {version, w, nothing}
    <3>1. Inner(a) = {a[2][i][3] : i \in DOMAIN a[2]}
      BY <1>3 DEF Inner
    <3> HIDE DEF version, nothing
    <3>2. /\ a[2][1][3] = version /\ a[2][2][3] = w /\ a[2][3][3] = nothing
      BY <1>3
    <3>3. DOMAIN a[2] = {1, 2, 3}
      BY <1>3
    <3> QED BY <3>1, <3>2, <3>3
  <2>2. version \in Values /\ w \in Values /\ nothing \in Values
    BY <1>1, <2>1, InnerShape DEF a
  <2>3. Inner(version) = {} /\ Inner(nothing) = {} /\ Inner(w) = {}
    BY <1>4, <1>5 DEF Inner, ValidID
  <2>4. Valid(version)
    <3>1. version[1] = "string" /\ version[3] # "lossy" /\ ~Object(version)
      BY DEF Object
    <3> HIDE DEF version
    <3> QED BY <2>2, <2>3, <3>1, ValidIsRecursion
  <2>5. Valid(nothing)
    <3>1. nothing[1] # "string" /\ DOMAIN nothing[2] = {}
      OBVIOUS
    <3> HIDE DEF nothing
    <3> QED BY <2>2, <2>3, <3>1, ValidIsRecursion
  <2>6. Valid(w)
    <3>1. ~Object(w)
      BY <1>5 DEF Object, ValidID
    <3> QED BY <1>4, <2>2, <2>3, <3>1, ValidIsRecursion
  <2>7. \A i, j \in DOMAIN a[2] : SameName(a[2][i], a[2][j]) => i = j
    <3> HIDE DEF version, nothing
    <3>1. /\ a[2][1][1] = "jsonrpc" /\ a[2][2][1] = "id" /\ a[2][3][1] = "result"
          /\ \A i \in DOMAIN a[2] : i = 1 \/ i = 2 \/ i = 3
      BY <1>3
    <3> QED BY <3>1 DEF SameName, Decoded
  <2>8. a[1] # "string"
    BY <1>3
  <2> HIDE DEF version, nothing
  <2>9. \A u \in Inner(a) : Valid(u)
    BY <2>1, <2>4, <2>5, <2>6
  <2> QED BY <1>1, <2>7, <2>8, <2>9, ValidIsRecursion DEF a
<1> QED BY <1>1, <1>4, <1>5, <1>6, <1>9, <1>11, <1>12 DEF a

-----------------------------------------------------------------------------
\* The key of a request's slot.
Key(n) == IdKey(Get(script[n], "id"))

\* What the last line written to the client was, to its readers.
ReplyFits ==
  /\ reply.answers # 0 => reply.frees = {reply.answers}
  /\ \A n \in reply.frees : \A r \in Readers :
       /\ Field(reply.line, "method", r) = Absent
       /\ (Field(reply.line, "result", r) = Absent) # (Field(reply.line, "error", r) = Absent)
       /\ SameDouble(Field(reply.line, "id", r), Field(script[n], "id", r))

\* The table holds the requests that wait, under keys that tell them apart.
TableFits ==
  /\ table = {<<Key(n), n>> : n \in Waiting}
  /\ \A m, n \in Waiting : Key(m) = Key(n) => m = n

\* What was forwarded was accepted.
LinesInv ==
  /\ script \in Seq(Values) /\ at \in 0..Len(script)
  /\ forwarded \in SUBSET (1..at) /\ answered \in SUBSET forwarded
  /\ \A n \in forwarded : Accepts(script[n])

WireInv == LinesInv /\ TableFits /\ ReplyFits /\ RefusalsNameTheirRequest

\* WireInv holds at the start.
LEMMA WireStarts == Init => WireInv
<1> SUFFICES ASSUME Init PROVE WireInv
  OBVIOUS
<1>1. /\ script \in Seq(Values) /\ at = 0 /\ table = {} /\ forwarded = {} /\ answered = {}
      /\ named = {} /\ reply.answers = 0 /\ reply.frees = {}
  BY LinesAssumption DEF Init, NothingSent
<1>2. Waiting = {}
  BY <1>1 DEF Waiting
<1>3. LinesInv
  BY <1>1 DEF LinesInv
<1>4. TableFits
  BY <1>1, <1>2 DEF TableFits
<1>5. ReplyFits
  BY <1>1 DEF ReplyFits
<1>6. RefusalsNameTheirRequest
  BY <1>1 DEF RefusalsNameTheirRequest
<1> QED BY <1>3, <1>4, <1>5, <1>6 DEF WireInv

\* The ids a refusal answers are found in the line by every reader.
LEMMA RefusalFits ==
  ASSUME NEW v \in Values, NEW id \in RefusalIds(v)
  PROVE  \E e \in {v} \cup (IF v[1] = "array" THEN Inner(v) ELSE {}) :
           \A r \in Readers : Field(e, "id", r) = Meaning(id, r)
<1>1. ASSUME NEW e \in Values, NEW names, "id" \in names, Object(e), Valid(e),
             ~HasFieldAlias(e, names), ValidID(Get(e, "id")), NEW r \in Readers
      PROVE  Field(e, "id", r) = Meaning(Get(e, "id"), r)
  <2>1. Get(e, "id") # Absent
    BY <1>1 DEF ValidID, Absent
  <2>2. Field(e, "id", r) = Understood(Get(e, "id"), r)
    BY <1>1, FieldSame
  <2> QED BY <2>1, <2>2 DEF Understood
<1>2. CASE v[1] = "array"
  <2>1. PICK e \in Inner(v) : Answerable(e) /\ id = Get(e, "id")
    BY <1>2, Zenon DEF RefusalIds
  <2>2. e \in Values
    BY InnerShape
  <2>3. \A r \in Readers : Field(e, "id", r) = Meaning(id, r)
    BY <1>1, <2>1, <2>2 DEF Answerable
  <2> QED BY <1>2, <2>1, <2>3, Zenon
<1>3. CASE v[1] # "array"
  <2>1. Readable(v) /\ id = Get(v, "id") /\ ValidID(id)
    BY <1>3, Zenon DEF RefusalIds
  <2>2. \A r \in Readers : Field(v, "id", r) = Meaning(id, r)
    BY <1>1, <2>1 DEF Readable
  <2> QED BY <2>2
<1> QED BY <1>2, <1>3

\* A line of the client: forwarded and remembered, refused or dropped.
LEMMA InspectKeeps ==
  ASSUME WireInv, InspectRequest
  PROVE  WireInv'
<1> DEFINE l == script[at + 1]
           n == at + 1
<1>1. /\ script \in Seq(Values) /\ at \in 0..Len(script) /\ at < Len(script)
      /\ forwarded \in SUBSET (1..at) /\ answered \in SUBSET forwarded
      /\ \A m \in forwarded : Accepts(script[m])
      /\ table = {<<Key(m), m>> : m \in Waiting}
      /\ \A m, k \in Waiting : Key(m) = Key(k) => m = k
  BY DEF WireInv, LinesInv, TableFits, InspectRequest
<1>2. /\ at' = n /\ script' = script /\ answered' = answered /\ reply' = reply
  BY DEF InspectRequest
<1>3. n \in 1..Len(script) /\ l \in Values /\ n \notin 1..at /\ at \in Nat /\ Len(script) \in Nat
  BY <1>1
<1>4. ReplyFits'
  BY <1>2 DEF WireInv, ReplyFits
<1>5. CASE /\ Accepts(l) /\ forwarded' = forwarded \cup {n} /\ named' = {}
           /\ \/ ~Reserves(l) /\ table' = table
              \/ /\ Reserves(l) /\ ~InFlight(IdKey(Get(l, "id")))
                 /\ table' = table \cup {<<IdKey(Get(l, "id")), n>>}
  <2>1. LinesInv'
    <3>1. forwarded' \in SUBSET (1..n)
      BY <1>1, <1>3, <1>5
    <3>2. \A m \in forwarded' : Accepts(script[m])
      BY <1>1, <1>5
    <3>3. answered' \in SUBSET forwarded'
      BY <1>1, <1>2, <1>5
    <3> QED BY <1>1, <1>2, <1>3, <3>1, <3>2, <3>3 DEF LinesInv
  <2>2. n \notin answered /\ n \notin Waiting /\ Key(n) = IdKey(Get(l, "id"))
    BY <1>1, <1>3 DEF Waiting, Key
  <2>3. \A m : Key(m)' = Key(m)
    BY <1>2 DEF Key
  <2>4. CASE ~Reserves(l) /\ table' = table
    <3>1. Waiting' = Waiting
      BY <1>1, <1>2, <1>5, <2>2, <2>4 DEF Waiting
    <3>2. TableFits'
      BY <1>1, <2>3, <2>4, <3>1 DEF TableFits
    <3>3. RefusalsNameTheirRequest'
      BY <1>5 DEF RefusalsNameTheirRequest
    <3> QED BY <1>4, <2>1, <3>2, <3>3 DEF WireInv
  <2>5. CASE /\ Reserves(l) /\ ~InFlight(IdKey(Get(l, "id")))
             /\ table' = table \cup {<<IdKey(Get(l, "id")), n>>}
    <3>1. Waiting' = Waiting \cup {n}
      BY <1>1, <1>2, <1>5, <2>2, <2>5 DEF Waiting
    <3>2. table' = {<<Key(m), m>> : m \in Waiting'}
      BY <1>1, <2>2, <2>5, <3>1
    <3>3. \A m \in Waiting : Key(m) # Key(n)
      <4>1. \A m \in Waiting : <<Key(m), m>> \in table
        BY <1>1
      <4>2. \A c \in table : c[1] # Key(n)
        BY <2>2, <2>5 DEF InFlight
      <4> QED BY <4>1, <4>2
    <3>4. \A m, k \in Waiting' : Key(m) = Key(k) => m = k
      BY <1>1, <3>1, <3>3
    <3>5. TableFits'
      BY <2>3, <3>2, <3>4 DEF TableFits
    <3>6. RefusalsNameTheirRequest'
      BY <1>5 DEF RefusalsNameTheirRequest
    <3> QED BY <1>4, <2>1, <3>5, <3>6 DEF WireInv
  <2> QED BY <1>5, <2>4, <2>5
<1>6. CASE named' = RefusalIds(l) /\ table' = table /\ forwarded' = forwarded
  <2>1. LinesInv'
    BY <1>1, <1>2, <1>3, <1>6 DEF LinesInv
  <2>2. Waiting' = Waiting /\ \A m : Key(m)' = Key(m)
    BY <1>2, <1>6 DEF Waiting, Key
  <2>3. TableFits'
    BY <1>1, <1>6, <2>2 DEF TableFits
  <2>4. RefusalsNameTheirRequest'
    <3>1. \A id \in RefusalIds(l) :
            \E v \in {l} \cup (IF l[1] = "array" THEN Inner(l) ELSE {}) :
              \A r \in Readers : Field(v, "id", r) = Meaning(id, r)
      BY <1>3, RefusalFits
    <3>2. script'[at'] = l /\ named' = RefusalIds(l)
      BY <1>2, <1>6
    <3> HIDE DEF l
    <3> QED BY <3>1, <3>2, Zenon DEF RefusalsNameTheirRequest
  <2> QED BY <1>4, <2>1, <2>3, <2>4 DEF WireInv
<1> QED BY <1>2, <1>5, <1>6 DEF InspectRequest, Forwards

\* A line of the server frees the slot of the one request with its key, if any.
LEMMA RecordKeeps ==
  ASSUME WireInv, NEW v \in Values, NEW n \in Nat, RecordResponse(v, n),
         n # 0 => /\ n \in Waiting /\ Object(v) /\ Valid(v) /\ IsResponse(v)
                  /\ ValidID(Get(v, "id")) /\ IdKey(Get(v, "id")) = Key(n)
  PROVE  WireInv'
<1> DEFINE Fits == Object(v) /\ Valid(v) /\ IsResponse(v) /\ ValidID(Get(v, "id"))
           key == IdKey(Get(v, "id"))
           done == IF Fits THEN {c \in table : c[1] = key} ELSE {}
           freed == {c[2] : c \in done}
<1>1. /\ script \in Seq(Values) /\ at \in 0..Len(script)
      /\ forwarded \in SUBSET (1..at) /\ answered \in SUBSET forwarded
      /\ \A m \in forwarded : Accepts(script[m])
      /\ table = {<<Key(m), m>> : m \in Waiting}
      /\ \A m, k \in Waiting : Key(m) = Key(k) => m = k
  BY DEF WireInv, LinesInv, TableFits
<1>2. /\ table' = table \ done /\ reply'.line = v /\ reply'.answers = n /\ reply'.frees = freed
      /\ answered' = answered \cup freed \cup ({n} \ {0})
      /\ script' = script /\ at' = at /\ forwarded' = forwarded /\ named' = named
  BY DEF RecordResponse
<1> HIDE DEF Fits, key
<1>3. done \in SUBSET table /\ \A c \in done : Fits /\ c[1] = key
  OBVIOUS
<1>4. done = {c \in done : TRUE} /\ freed = {m \in Waiting : Fits /\ Key(m) = key}
  <2>1. ASSUME NEW m \in freed PROVE m \in Waiting /\ Fits /\ Key(m) = key
    <3>1. PICK c \in done : m = c[2]
      BY <2>1
    <3>2. PICK k \in Waiting : c = <<Key(k), k>>
      BY <1>1, <1>3
    <3> QED BY <1>3, <3>1, <3>2
  <2>2. ASSUME NEW m \in Waiting, Fits, Key(m) = key PROVE m \in freed
    <3>1. <<Key(m), m>> \in done
      BY <1>1, <2>2
    <3> QED BY <3>1
  <2> QED BY <2>1, <2>2
<1>5. n # 0 => n \in freed
  BY <1>4 DEF Fits, key
<1>6. table' = {<<Key(m), m>> : m \in Waiting \ freed}
  <2>1. \A m \in Waiting : <<Key(m), m>> \in done <=> m \in freed
    <3>1. \A m \in Waiting : <<Key(m), m>> \in done <=> Fits /\ Key(m) = key
      BY <1>1
    <3> QED BY <1>4, <3>1
  <2> HIDE DEF done, freed
  <2> QED BY <1>1, <1>2, <2>1
<1>7. \A m \in freed : m \in Waiting /\ m \in forwarded /\ Fits /\ Key(m) = key
  BY <1>4 DEF Waiting
<1> HIDE DEF done, freed
<1>8. answered' = answered \cup freed
  BY <1>2, <1>5
<1>9. Waiting' = Waiting \ freed
  BY <1>2, <1>8 DEF Waiting
<1>10. \A m : Key(m)' = Key(m)
  BY <1>2 DEF Key
<1>11. TableFits'
  BY <1>1, <1>6, <1>9, <1>10 DEF TableFits
<1>12. LinesInv'
  <2>1. answered' \in SUBSET forwarded'
    BY <1>1, <1>2, <1>7, <1>8
  <2> QED BY <1>1, <1>2, <2>1 DEF LinesInv
<1>13. RefusalsNameTheirRequest'
  BY <1>2 DEF WireInv, RefusalsNameTheirRequest
<1>14. n # 0 => freed = {n}
  BY <1>1, <1>5, <1>7
<1>15. ASSUME NEW m \in freed, NEW r \in Readers
       PROVE  /\ Field(v, "method", r) = Absent
              /\ (Field(v, "result", r) = Absent) # (Field(v, "error", r) = Absent)
              /\ SameDouble(Field(v, "id", r), Field(script[m], "id", r))
  <2>1. m \in forwarded /\ Reserves(script[m]) /\ Accepts(script[m]) /\ script[m] \in Values
    <3>1. m \in forwarded /\ Reserves(script[m])
      BY <1>7 DEF Waiting
    <3>2. m \in 1..Len(script)
      BY <1>1, <3>1
    <3> QED BY <1>1, <3>1, <3>2
  <2>2. Object(v) /\ Valid(v) /\ IsResponse(v) /\ ValidID(Get(v, "id"))
    BY <1>7 DEF Fits
  <2>3. /\ Field(v, "method", r) = Absent
        /\ (Field(v, "result", r) = Absent) # (Field(v, "error", r) = Absent)
        /\ Get(v, "id") \in Values /\ Valid(Get(v, "id"))
        /\ Field(v, "id", r) = Meaning(Get(v, "id"), Own)
    BY <2>2, ResponseReads
  <2> DEFINE id == Get(script[m], "id")
  <2>4. /\ id \in Values /\ Valid(id) /\ ValidID(id)
        /\ Field(script[m], "id", r) = Meaning(id, Own)
    BY <2>1, RequestId
  <2>5. IdKey(Get(v, "id")) = IdKey(id)
    BY <1>7 DEF Key, key
  <2>6. SameDouble(Meaning(Get(v, "id"), Own), Meaning(id, Own))
    <3> HIDE DEF id
    <3> QED BY <2>2, <2>3, <2>4, <2>5, SameKey
  <2> QED BY <2>3, <2>4, <2>6
<1>16. ReplyFits'
  BY <1>2, <1>14, <1>15 DEF ReplyFits
<1> QED BY <1>11, <1>12, <1>13, <1>16 DEF WireInv

\* Every step keeps WireInv.
LEMMA WireStep == WireInv /\ [Next]_vars => WireInv'
<1> SUFFICES ASSUME WireInv, [Next]_vars PROVE WireInv'
  OBVIOUS
<1>1. CASE InspectRequest
  BY <1>1, InspectKeeps
<1>2. CASE \E n \in forwarded : ServerAnswers(n)
  <2>1. PICK n \in forwarded : ServerAnswers(n)
    BY <1>2
  <2>2. n \in Waiting /\ Reserves(script[n])
    BY <2>1 DEF ServerAnswers, Waiting
  <2>3. n \in Nat /\ n # 0 /\ script[n] \in Values /\ Accepts(script[n])
    BY DEF WireInv, LinesInv
  <2> DEFINE id == Get(script[n], "id")
  <2>4. PICK w \in Rewritten(id) : RecordResponse(Answer(w), n)
    BY <2>1 DEF ServerAnswers
  <2>5. id \in Values /\ Valid(id) /\ ValidID(id)
    BY <2>2, <2>3, RequestId
  <2>6. /\ Answer(w) \in Values /\ Object(Answer(w)) /\ Valid(Answer(w))
        /\ IsResponse(Answer(w)) /\ Get(Answer(w), "id") = w
        /\ ValidID(w) /\ IdKey(w) = IdKey(id)
    <3> HIDE DEF id
    <3> QED BY <2>5, AnswerFits
  <2>7. IdKey(Get(Answer(w), "id")) = Key(n) /\ ValidID(Get(Answer(w), "id"))
    BY <2>6 DEF Key
  <2> HIDE DEF id
  <2> QED BY <2>2, <2>3, <2>4, <2>6, <2>7, RecordKeeps
<1>3. CASE ServerWrites
  <2>1. PICK v \in Replies : RecordResponse(v, 0)
    BY <1>3 DEF ServerWrites
  <2>2. v \in Values
    BY LinesAssumption
  <2> QED BY <2>1, <2>2, RecordKeeps
<1>4. CASE UNCHANGED vars
  <2>1. Waiting' = Waiting /\ \A m : Key(m)' = Key(m)
    BY <1>4 DEF vars, Waiting, Key
  <2> QED BY <1>4, <2>1 DEF vars, WireInv, LinesInv, TableFits, ReplyFits,
                           RefusalsNameTheirRequest
<1> QED BY <1>1, <1>2, <1>3, <1>4 DEF Next

\* WireInv is an invariant.
LEMMA WireAlways == Spec => []WireInv
BY WireStarts, WireStep, PTL DEF Spec

\* Whatever is forwarded has one method and one id to every reader and, if it is a tool
\* call, one tool and one value for its arguments; that value means one thing to all
\* readers who keep the case of names.  Duplicate names, the fields' names in another
\* case and lossy strings were refused before (checkValue, hasFieldAlias,
\* inspectRequest); names within the arguments in another case were not.
THEOREM TheReadersAgree == Spec => []EveryReaderAgrees
<1>1. WireInv => EveryReaderAgrees
  <2> SUFFICES ASSUME WireInv, NEW n \in forwarded, NEW r \in Readers
               PROVE  LET l == script[n]  mine == Reading(l, Own)  theirs == Reading(l, r) IN
                      /\ theirs.method = mine.method /\ theirs.id = mine.id
                      /\ mine.method = <<"string", "tools/call">> =>
                           /\ theirs.tool = mine.tool
                           /\ theirs.args = Understood(Get(Get(l, "params"), "arguments"), r)
                           /\ ~r.folds => theirs.args = mine.args
    BY DEF EveryReaderAgrees
  <2>1. script[n] \in Values /\ Accepts(script[n])
    BY DEF WireInv, LinesInv
  <2> QED BY <2>1, AcceptedMeansOneThing, Zenon
<1> QED BY <1>1, WireAlways, PTL

\* An answer frees the slot of the request that its id names to every reader, and no
\* other; two requests that wait are never one to a reader (idKey, remember,
\* recordResponse).
THEOREM TheAnswersFindTheirCall == Spec => []AnswersFindTheirCall
<1>1. WireInv => AnswersFindTheirCall
  <2> SUFFICES ASSUME WireInv PROVE AnswersFindTheirCall
    OBVIOUS
  <2>1. ASSUME NEW m \in Waiting, NEW n \in Waiting, m # n, NEW r \in Readers, NEW q \in Readers
        PROVE  ~SameDouble(Field(script[m], "id", r), Field(script[n], "id", q))
    <3> DEFINE x == Get(script[m], "id")
               y == Get(script[n], "id")
    <3>1. /\ script[m] \in Values /\ Accepts(script[m]) /\ Reserves(script[m])
          /\ script[n] \in Values /\ Accepts(script[n]) /\ Reserves(script[n])
      BY DEF WireInv, LinesInv, Waiting
    <3>2. IdKey(x) # IdKey(y)
      BY <2>1 DEF WireInv, TableFits, Key
    <3>3. /\ x \in Values /\ Valid(x) /\ ValidID(x) /\ Field(script[m], "id", r) = Meaning(x, Own)
          /\ y \in Values /\ Valid(y) /\ ValidID(y) /\ Field(script[n], "id", q) = Meaning(y, Own)
      BY <3>1, RequestId
    <3> HIDE DEF x, y
    <3> QED BY <3>2, <3>3, SameKey
  <2> QED BY <2>1 DEF AnswersFindTheirCall, WireInv, ReplyFits
<1> QED BY <1>1, WireAlways, PTL

\* A line that is refused is answered under the ids that its readers find in it, or
\* under none (answerableID).
THEOREM TheRefusalsNameTheirRequest == Spec => []RefusalsNameTheirRequest
<1>1. WireInv => RefusalsNameTheirRequest
  BY DEF WireInv
<1> QED BY <1>1, WireAlways, PTL

-----------------------------------------------------------------------------
\* Backslashes end in a run just before k, and quotes that count before k.
Run(k) == {j \in 0..(k - 1) : \A m \in j..(k - 1) : Char(m) = "b"}
Quotes(k) == {j \in 0..(k - 1) : Char(j) = "q" /\ Even(Slashes(j))}

\* One more changes the parity.
LEMMA Parity ==
  ASSUME NEW n \in Nat
  PROVE  Even(n + 1) <=> ~Even(n)
BY DEF Even

\* What is counted is finite.
LEMMA FiniteRuns ==
  ASSUME NEW k \in Nat
  PROVE  /\ IsFiniteSet(Run(k)) /\ IsFiniteSet(Quotes(k))
         /\ Slashes(k) = Cardinality(Run(k)) /\ Slashes(k) \in Nat
         /\ Inside(k) <=> ~Even(Cardinality(Quotes(k)))
         /\ Cardinality(Quotes(k)) \in Nat
<1>1. IsFiniteSet(0..(k - 1))
  BY FS_Interval
<1>2. Run(k) \in SUBSET (0..(k - 1)) /\ Quotes(k) \in SUBSET (0..(k - 1))
  BY DEF Run, Quotes
<1>3. IsFiniteSet(Run(k)) /\ IsFiniteSet(Quotes(k))
  BY <1>1, <1>2, FS_Subset
<1>4. Cardinality(Run(k)) \in Nat /\ Cardinality(Quotes(k)) \in Nat
  BY <1>3, FS_CardinalityType
<1> QED BY <1>3, <1>4 DEF Slashes, Run, Inside, Quotes

\* One character on.
LEMMA SlashesStep ==
  ASSUME NEW k \in Nat
  PROVE  Slashes(k + 1) = IF Char(k) = "b" THEN Slashes(k) + 1 ELSE 0
<1>1. CASE Char(k) = "b"
  <2>1. Run(k + 1) = Run(k) \cup {k} /\ k \notin Run(k)
    BY <1>1 DEF Run
  <2> QED BY <1>1, <2>1, FiniteRuns, FS_AddElement
<1>2. CASE Char(k) # "b"
  <2>1. Run(k + 1) = {}
    BY <1>2 DEF Run
  <2> QED BY <1>2, <2>1, FiniteRuns, FS_EmptySet
<1> QED BY <1>1, <1>2

\* Only a quote that counts changes whether a place is inside a string.
LEMMA InsideStep ==
  ASSUME NEW k \in Nat
  PROVE  Inside(k + 1) <=> (Inside(k) <=> ~(Char(k) = "q" /\ Even(Slashes(k))))
<1>1. CASE Char(k) = "q" /\ Even(Slashes(k))
  <2>1. Quotes(k + 1) = Quotes(k) \cup {k} /\ k \notin Quotes(k)
    BY <1>1 DEF Quotes
  <2>2. Cardinality(Quotes(k + 1)) = Cardinality(Quotes(k)) + 1
    BY <2>1, FiniteRuns, FS_AddElement
  <2>3. Even(Cardinality(Quotes(k + 1))) <=> ~Even(Cardinality(Quotes(k)))
    BY <2>2, FiniteRuns, Parity
  <2> QED BY <1>1, <2>3, FiniteRuns
<1>2. CASE ~(Char(k) = "q" /\ Even(Slashes(k)))
  <2>1. Quotes(k + 1) = Quotes(k)
    BY <1>2 DEF Quotes
  <2> QED BY <1>2, <2>1, FiniteRuns
<1> QED BY <1>1, <1>2

\* Before the first character: outside strings, after no backslash.
LEMMA AtStart == Slashes(0) = 0 /\ Even(0) /\ ~Inside(0)
<1>1. Run(0) = {} /\ Quotes(0) = {}
  BY DEF Run, Quotes
<1> QED BY <1>1, FiniteRuns, FS_EmptySet DEF Even

\* None is an even number of backslashes.
LEMMA EvenZero == Even(0)
BY DEF Even

\* A character that is neither a backslash nor a quote.
LEMMA PlainStep ==
  ASSUME NEW k \in Nat, Char(k) \notin {"b", "q"}
  PROVE  Slashes(k + 1) = 0 /\ (Inside(k + 1) <=> Inside(k))
BY SlashesStep, InsideStep

\* A hexadecimal digit is such a character.
LEMMA HexIsPlain ==
  ASSUME NEW k \in Nat, NEW i \in Nat, NEW j \in Nat, i = k + 2, IsHex4(i), Char(k + 1) = "u",
         j \in (k + 1)..(k + 5)
  PROVE  Char(j) \notin {"b", "q"} /\ k + 5 < Len(raw)
<1>1. DOMAIN Digits = {"0", "4", "8", "c", "d", "f"}
  BY DEF Digits
<1>2. j = k + 1 \/ j \in i..(i + 3)
  OBVIOUS
<1> QED BY <1>1, <1>2 DEF IsHex4, InText

\* The six characters of an escape.
LEMMA EscapeStep ==
  ASSUME NEW k \in Nat, Char(k) = "b", Char(k + 1) = "u", IsHex4(k + 2), Even(Slashes(k))
  PROVE  /\ Slashes(k + 6) = 0 /\ (Inside(k + 6) <=> Inside(k)) /\ k + 6 <= Len(raw)
         /\ \A j \in (k + 1)..(k + 5) : j \notin Escapes
<1>1. \A j \in (k + 1)..(k + 5) : Char(j) \notin {"b", "q"}
  BY HexIsPlain
<1>2. Inside(k + 1) <=> Inside(k)
  BY InsideStep
<1>3. \A j \in {k + 1, k + 2, k + 3, k + 4, k + 5} :
        Slashes(j + 1) = 0 /\ (Inside(j + 1) <=> Inside(j))
  BY <1>1, PlainStep
<1>4. /\ k + 1 + 1 = k + 2 /\ k + 2 + 1 = k + 3 /\ k + 3 + 1 = k + 4
      /\ k + 4 + 1 = k + 5 /\ k + 5 + 1 = k + 6
  OBVIOUS
<1>5. k + 5 < Len(raw)
  BY HexIsPlain
<1>6. \A j \in (k + 1)..(k + 5) : j \notin Escapes
  BY <1>1 DEF Escapes
<1>7. Slashes(k + 6) = 0 /\ (Inside(k + 6) <=> Inside(k))
  BY <1>2, <1>3, <1>4
<1>8. k + 6 <= Len(raw)
  BY <1>5 DEF IsHex4, InText
<1> QED BY <1>6, <1>7, <1>8

-----------------------------------------------------------------------------
\* An escape the scan may pass over, with its partner.
Passed(k) ==
  /\ IsHex4(k + 2) /\ k + 6 <= pos
  /\ Is(k, High) => Is(k + 6, Low) /\ k + 12 <= pos
  /\ Is(k, Low) => Is(k - 6, High)

\* The scan stands between characters that belong together, knows whether it is
\* inside a string, and has passed only what it may pass.
ScanInv ==
  /\ raw \in Texts
  /\ Quoted /\ verdict = "scanning" =>
       /\ pos \in 0..Len(raw)
       /\ pos < Len(raw) => (inString <=> Inside(pos)) /\ Even(Slashes(pos))
       /\ \A k \in Escapes : k < pos => Passed(k)
  /\ inString \in BOOLEAN
  /\ ScanIsExact

\* The text is a sequence.
LEMMA TextShape ==
  ASSUME ScanInv
  PROVE  Len(raw) \in Nat
BY TextsAssumption DEF ScanInv

\* The current escape, and how far it reaches.
LEMMA EscapeHere ==
  ASSUME ScanInv, Quoted, verdict = "scanning", InText(pos), EscapeAt(pos), Char(pos + 1) = "u"
  PROVE  pos \in Escapes
BY TextShape DEF ScanInv, InText, EscapeAt, Escapes

\* The text alone says where its escapes are.
LEMMA TextFrame ==
  ASSUME UNCHANGED raw
  PROVE  /\ Quoted' = Quoted /\ Escapes' = Escapes /\ Len(raw)' = Len(raw)
         /\ \A k : /\ IsHex4(k)' = IsHex4(k) /\ Hex4(k)' = Hex4(k) /\ Slashes(k)' = Slashes(k)
                  /\ Inside(k)' = Inside(k)
         /\ \A k, half : Is(k, half)' = Is(k, half)
<1>1. Quoted' = Quoted /\ Escapes' = Escapes
  BY DEF Quoted, Escapes, Inside, Slashes, Char
<1>2. \A k : /\ IsHex4(k)' = IsHex4(k) /\ Hex4(k)' = Hex4(k) /\ Slashes(k)' = Slashes(k)
            /\ Inside(k)' = Inside(k)
  BY DEF IsHex4, Hex4, Char, InText, Slashes, Inside
<1> QED BY <1>1, <1>2 DEF Is

\* No half is both a high and a low one.
LEMMA NoSuchHalf == \A x : ~(x \in High /\ x \in Low)
<1> SUFFICES ASSUME NEW x, x \in High, x \in Low PROVE FALSE
  OBVIOUS
<1>1. x \in Int /\ x <= 56319 /\ 56320 <= x
  BY DEF High, Low
<1> QED BY <1>1

\* Where the scan goes on, the text is as ScanInv has it.
LEMMA GoesOn ==
  ASSUME ScanInv, UNCHANGED raw, inString' \in BOOLEAN, verdict' = "scanning",
         Quoted => /\ pos' \in 0..Len(raw)
                   /\ pos' < Len(raw) => (inString' <=> Inside(pos')) /\ Even(Slashes(pos'))
                   /\ \A k \in Escapes : k < pos' => Passed(k)'
  PROVE  ScanInv'
<1>1. Quoted' = Quoted /\ Escapes' = Escapes
  BY DEF Quoted, Escapes, Inside, Slashes, Char
<1>2. /\ Inside(pos)' <=> Inside(pos')
      /\ Slashes(pos)' = Slashes(pos')
  BY DEF Inside, Slashes, Char
<1> QED BY <1>1, <1>2 DEF ScanInv, ScanIsExact

\* An escape that the index has come to may be passed if its partner is there.
LEMMA PassedBy ==
  ASSUME UNCHANGED raw, NEW k \in Int, IsHex4(k + 2), k + 6 <= pos',
         Is(k, High) => k + 12 <= pos',
         Is(k, High) => Is(k + 6, Low), Is(k, Low) => Is(k - 6, High)
  PROVE  Passed(k)'
BY DEF Passed, Is, IsHex4, Hex4, Escapes, Inside, Slashes, Char, InText

\* What was passed stays passed, for the text does not change.
LEMMA StillPassed ==
  ASSUME UNCHANGED raw, pos \in Nat, pos' \in Nat, pos <= pos', NEW k \in Int, Passed(k)
  PROVE  Passed(k)'
BY DEF Passed, Is, IsHex4, Hex4, Escapes, Inside, Slashes, Char, InText

\* Where it stops, its answer is the right one.
LEMMA Stops ==
  ASSUME ScanInv, UNCHANGED <<raw, inString>>,
         verdict' \in {"accepted", "refused"},
         Quoted => (verdict' = "accepted" <=>
                      \A k \in Escapes : /\ IsHex4(k + 2)
                                         /\ Is(k, High) => Is(k + 6, Low)
                                         /\ Is(k, Low) => Is(k - 6, High))
  PROVE  ScanInv'
<1>1. Quoted' = Quoted /\ Escapes' = Escapes
  BY DEF Quoted, Escapes, Inside, Slashes, Char
<1>2. /\ \A k : IsHex4(k)' = IsHex4(k)
      /\ \A k, half : Is(k, half)' = Is(k, half)
  BY TextFrame
<1> QED BY <1>1, <1>2 DEF ScanInv, ScanIsExact

\* What ScanInv says of a text that is still being scanned.
Here == /\ pos \in Nat /\ pos < Len(raw) /\ Len(raw) \in Nat
        /\ (inString <=> Inside(pos)) /\ Even(Slashes(pos))
        /\ \A k \in Escapes : k < pos => Passed(k)

\* A quote: the flag turns as the text does.
LEMMA ToggleKeeps ==
  ASSUME ScanInv, verdict = "scanning", InText(pos), Toggle PROVE ScanInv'
<1> USE DEF Toggle
<1>1. inString' \in BOOLEAN /\ UNCHANGED raw /\ verdict' = "scanning"
  BY DEF ScanInv
<1>2. ASSUME Quoted
      PROVE  /\ pos' \in 0..Len(raw)
             /\ (inString' <=> Inside(pos')) /\ Even(Slashes(pos'))
             /\ \A k \in Escapes : k < pos' => Passed(k)'
  <2>1. Here
    BY <1>2, TextShape DEF ScanInv, InText, Here
  <2>2. Slashes(pos + 1) = 0 /\ (Inside(pos + 1) <=> ~Inside(pos))
    BY <2>1, SlashesStep, InsideStep DEF Here
  <2>3. pos \notin Escapes
    BY DEF Escapes
  <2>4. \A k \in Escapes : k < pos + 1 => Passed(k)'
    <3> SUFFICES ASSUME NEW k \in Escapes, k < pos + 1 PROVE Passed(k)'
      OBVIOUS
    <3>1. k \in Int /\ k < pos
      BY <2>1, <2>3 DEF Escapes, Here
    <3> QED BY <2>1, <3>1, StillPassed DEF Here
  <2>5. pos + 1 \in 0..Len(raw)
    BY <2>1 DEF Here
  <2>6. inString' <=> Inside(pos + 1)
    BY <1>1, <2>1, <2>2 DEF Here
  <2> QED BY <2>2, <2>4, <2>5, <2>6, EvenZero
<1> QED BY <1>1, <1>2, GoesOn

\* A character by itself.
LEMMA SkipKeeps ==
  ASSUME ScanInv, verdict = "scanning", InText(pos), Skip PROVE ScanInv'
<1> USE DEF Skip, Scanned
<1>1. inString' \in BOOLEAN /\ UNCHANGED raw /\ verdict' = "scanning"
  BY DEF ScanInv
<1>2. ASSUME Quoted
      PROVE  /\ pos' \in 0..Len(raw)
             /\ pos' < Len(raw) => (inString' <=> Inside(pos')) /\ Even(Slashes(pos'))
             /\ \A k \in Escapes : k < pos' => Passed(k)'
  <2>1. Here
    BY <1>2, TextShape DEF ScanInv, InText, Here
  <2>2. Inside(pos + 1) <=> Inside(pos)
    BY <2>1, InsideStep DEF Here
  <2>3. pos + 1 < Len(raw) => Char(pos) # "b"
    BY <1>2, <2>1 DEF Quoted, InText, Here
  <2>4. pos + 1 < Len(raw) => Slashes(pos + 1) = 0
    BY <2>1, <2>3, SlashesStep DEF Here
  <2>5. pos \notin Escapes
    BY <2>1, <2>3 DEF Escapes, Here
  <2>6. \A k \in Escapes : k < pos + 1 => Passed(k)'
    <3> SUFFICES ASSUME NEW k \in Escapes, k < pos + 1 PROVE Passed(k)'
      OBVIOUS
    <3>1. k \in Int /\ k < pos
      BY <2>1, <2>5 DEF Escapes, Here
    <3> QED BY <2>1, <3>1, StillPassed DEF Here
  <2> QED BY <2>1, <2>2, <2>4, <2>6, EvenZero DEF Here
<1> QED BY <1>1, <1>2, GoesOn

\* A backslash and what it escapes, which is not a u.
LEMMA ShortEscapeKeeps ==
  ASSUME ScanInv, verdict = "scanning", InText(pos), ShortEscape PROVE ScanInv'
<1> USE DEF ShortEscape, Scanned
<1>1. inString' \in BOOLEAN /\ UNCHANGED raw /\ verdict' = "scanning"
  BY DEF ScanInv
<1>2. ASSUME Quoted
      PROVE  /\ pos' \in 0..Len(raw)
             /\ (inString' <=> Inside(pos')) /\ Even(Slashes(pos'))
             /\ \A k \in Escapes : k < pos' => Passed(k)'
  <2>1. Here
    BY <1>2, TextShape DEF ScanInv, InText, Here
  <2>2. /\ Slashes(pos + 1) = Slashes(pos) + 1 /\ (Inside(pos + 1) <=> Inside(pos))
        /\ Slashes(pos) \in Nat
    BY <2>1, SlashesStep, InsideStep, FiniteRuns DEF EscapeAt, Here
  <2>3. ~Even(Slashes(pos + 1)) /\ (Even(Slashes(pos + 1) + 1))
    BY <2>1, <2>2, Parity DEF Here
  <2>4. /\ pos + 1 \in Nat /\ pos + 1 + 1 = pos + 2
    BY <2>1 DEF Here
  <2>5. Slashes(pos + 2) \in {0, Slashes(pos + 1) + 1}
    BY <2>4, SlashesStep
  <2>6. Inside(pos + 2) <=> Inside(pos + 1)
    BY <2>3, <2>4, InsideStep
  <2>7. pos \notin Escapes /\ pos + 1 \notin Escapes
    BY <2>3 DEF Escapes
  <2>8. \A k \in Escapes : k < pos + 2 => Passed(k)'
    <3> SUFFICES ASSUME NEW k \in Escapes, k < pos + 2 PROVE Passed(k)'
      OBVIOUS
    <3>1. k \in Int /\ k < pos
      BY <2>1, <2>7 DEF Escapes, Here
    <3> QED BY <2>1, <3>1, StillPassed DEF Here
  <2>9. Even(Slashes(pos + 2))
    BY <2>3, <2>5, EvenZero
  <2>10. pos + 2 \in 0..Len(raw)
    BY <2>1 DEF Here, EscapeAt, InText
  <2> QED BY <2>1, <2>2, <2>6, <2>8, <2>9, <2>10 DEF Here
<1> QED BY <1>1, <1>2, GoesOn

\* An escape of its own: neither half of a pair.
LEMMA SingleKeeps ==
  ASSUME ScanInv, verdict = "scanning", InText(pos), EscapeAt(pos), Char(pos + 1) = "u",
         IsHex4(pos + 2), Hex4(pos + 2) \notin High \cup Low, Scanned(pos + 6, verdict)
  PROVE  ScanInv'
<1> USE DEF Scanned
<1>1. inString' \in BOOLEAN /\ UNCHANGED raw /\ verdict' = "scanning"
  BY DEF ScanInv
<1>2. ASSUME Quoted
      PROVE  /\ pos' \in 0..Len(raw)
             /\ (inString' <=> Inside(pos')) /\ Even(Slashes(pos'))
             /\ \A k \in Escapes : k < pos' => Passed(k)'
  <2>1. Here
    BY <1>2, TextShape DEF ScanInv, InText, Here
  <2>2. /\ Slashes(pos + 6) = 0 /\ (Inside(pos + 6) <=> Inside(pos))
        /\ pos + 6 <= Len(raw) /\ \A j \in (pos + 1)..(pos + 5) : j \notin Escapes
    BY <2>1, EscapeStep DEF EscapeAt, Here
  <2>3. ASSUME NEW k \in Int, k = pos PROVE Passed(k)'
    <3>1. ~Is(k, High) /\ ~Is(k, Low) /\ IsHex4(k + 2)
      BY <2>3 DEF Is
    <3>2. ~Is(k, High)' /\ ~Is(k, Low)' /\ IsHex4(k + 2)'
      BY <1>1, <3>1, TextFrame
    <3> QED BY <2>1, <2>3, <3>2 DEF Passed, Here
  <2>4. \A k \in Escapes : k < pos + 6 => Passed(k)'
    <3> SUFFICES ASSUME NEW k \in Escapes, k < pos + 6 PROVE Passed(k)'
      OBVIOUS
    <3>1. k \in Int /\ (k < pos \/ k = pos)
      BY <2>1, <2>2 DEF Escapes, Here
    <3>2. CASE k < pos
      BY <2>1, <3>1, <3>2, StillPassed DEF Here
    <3> QED BY <2>3, <3>1, <3>2
  <2> QED BY <2>1, <2>2, <2>4, EvenZero DEF Here
<1> QED BY <1>1, <1>2, GoesOn

\* A high surrogate and the low one that follows it.
LEMMA PairKeeps ==
  ASSUME ScanInv, verdict = "scanning", InText(pos), EscapeAt(pos), Char(pos + 1) = "u",
         IsHex4(pos + 2), Hex4(pos + 2) \in High, LowFollows, Scanned(AfterPair, verdict)
  PROVE  ScanInv'
<1> USE DEF Scanned, AfterPair
<1>1. inString' \in BOOLEAN /\ UNCHANGED raw /\ verdict' = "scanning"
  BY DEF ScanInv
<1>2. ASSUME Quoted
      PROVE  /\ pos' \in 0..Len(raw)
             /\ (inString' <=> Inside(pos')) /\ Even(Slashes(pos'))
             /\ \A k \in Escapes : k < pos' => Passed(k)'
  <2>1. Here
    BY <1>2, TextShape DEF ScanInv, InText, Here
  <2>2. /\ Slashes(pos + 6) = 0 /\ (Inside(pos + 6) <=> Inside(pos))
        /\ \A j \in (pos + 1)..(pos + 5) : j \notin Escapes
    BY <2>1, EscapeStep DEF EscapeAt, Here
  <2>3. /\ Slashes(pos + 12) = 0 /\ (Inside(pos + 12) <=> Inside(pos + 6))
        /\ pos + 12 <= Len(raw) /\ \A j \in (pos + 7)..(pos + 11) : j \notin Escapes
    <3> DEFINE k == pos + 6
    <3>1. k \in Nat /\ k + 1 = pos + 7 /\ k + 2 = pos + 8 /\ k + 5 = pos + 11 /\ k + 6 = pos + 12
      BY <2>1 DEF Here
    <3>2. Char(k) = "b" /\ Char(k + 1) = "u" /\ IsHex4(k + 2) /\ Even(Slashes(k))
      BY <2>2, <3>1, EvenZero DEF LowFollows
    <3> HIDE DEF k
    <3>3. /\ Slashes(k + 6) = 0 /\ (Inside(k + 6) <=> Inside(k))
          /\ k + 6 <= Len(raw) /\ \A j \in (k + 1)..(k + 5) : j \notin Escapes
      BY <3>1, <3>2, EscapeStep
    <3>4. k = pos + 6
      BY DEF k
    <3> QED BY <3>1, <3>3, <3>4
  <2>4. pos \in Escapes /\ Is(pos, High) /\ ~Is(pos, Low)
    BY <1>2, EscapeHere, NoSuchHalf DEF Is
  <2>5. pos + 6 \in Escapes
    BY <2>1, <2>2, <2>3, EvenZero DEF Escapes, Here, LowFollows, EscapeAt
  <2>6. Is(pos + 6, Low) /\ ~Is(pos + 6, High)
    <3>1. pos + 6 + 2 = pos + 8
      BY <2>1 DEF Here
    <3> QED BY <2>5, <3>1, NoSuchHalf DEF Is, LowFollows
  <2>7. ASSUME NEW k \in Int, k = pos \/ k = pos + 6 PROVE Passed(k)'
    <3>1. /\ IsHex4(k + 2) /\ k + 6 <= pos + 12
          /\ Is(k, High) => k + 12 <= pos + 12
      <4>1. CASE k = pos
        BY <2>1, <4>1 DEF Here
      <4>2. CASE k = pos + 6
        <5>1. k + 2 = pos + 8 /\ k + 6 <= pos + 12
          BY <2>1, <4>2 DEF Here
        <5> QED BY <2>6, <4>2, <5>1 DEF LowFollows
      <4> QED BY <2>7, <4>1, <4>2
    <3>2. (Is(k, High) => Is(k + 6, Low)) /\ (Is(k, Low) => Is(k - 6, High))
      <4>1. CASE k = pos
        BY <2>4, <2>6, <4>1
      <4>2. CASE k = pos + 6
        <5>1. k - 6 = pos
          BY <2>1, <4>2 DEF Here
        <5> QED BY <2>4, <2>6, <4>2, <5>1
      <4> QED BY <2>7, <4>1, <4>2
    <3>3. /\ UNCHANGED raw /\ IsHex4(k + 2) /\ k + 6 <= pos'
          /\ Is(k, High) => k + 12 <= pos'
      BY <3>1
    <3>4. (Is(k, High) => Is(k + 6, Low)) /\ (Is(k, Low) => Is(k - 6, High))
      BY <3>2
    <3> HIDE DEF Scanned, AfterPair
    <3> QED BY <3>3, <3>4, PassedBy
  <2>8. \A k \in Escapes : k < pos + 12 => Passed(k)'
    <3> SUFFICES ASSUME NEW k \in Escapes, k < pos + 12 PROVE Passed(k)'
      OBVIOUS
    <3>1. k \in Int /\ (k < pos \/ k = pos \/ k = pos + 6)
      BY <2>1, <2>2, <2>3 DEF Escapes, Here
    <3>2. CASE k < pos
      BY <2>1, <3>1, <3>2, StillPassed DEF Here
    <3> QED BY <2>7, <3>1, <3>2
  <2> QED BY <2>1, <2>2, <2>3, <2>8, EvenZero DEF Here
<1> QED BY <1>1, <1>2, GoesOn

\* The three refusals: a partner that is missing can be missing only there.
LEMMA RefusalKeeps ==
  ASSUME ScanInv, verdict = "scanning", InText(pos), EscapeAt(pos), Char(pos + 1) = "u", Refused,
         \/ ~IsHex4(pos + 2)
         \/ IsHex4(pos + 2) /\ Hex4(pos + 2) \in High /\ ~LowFollows
         \/ IsHex4(pos + 2) /\ Hex4(pos + 2) \in Low
  PROVE  ScanInv'
<1>1. ASSUME Quoted
      PROVE  ~\A k \in Escapes : /\ IsHex4(k + 2)
                                 /\ Is(k, High) => Is(k + 6, Low)
                                 /\ Is(k, Low) => Is(k - 6, High)
  <2>1. Here
    BY <1>1, TextShape DEF ScanInv, InText, Here
  <2>2. pos \in Escapes
    BY <1>1, EscapeHere
  <2>3. CASE ~IsHex4(pos + 2)
    BY <2>2, <2>3
  <2>4. CASE IsHex4(pos + 2) /\ Hex4(pos + 2) \in High /\ ~LowFollows
    <3>1. pos + 6 + 1 = pos + 7 /\ pos + 6 + 2 = pos + 8
      BY <2>1 DEF Here
    <3>2. Is(pos, High) /\ ~Is(pos + 6, Low)
      BY <2>2, <2>4, <3>1 DEF Is, LowFollows, Escapes
    <3> QED BY <2>2, <3>2
  <2>5. CASE IsHex4(pos + 2) /\ Hex4(pos + 2) \in Low
    <3>1. Is(pos, Low)
      BY <2>2, <2>5 DEF Is
    <3>2. ASSUME Is(pos - 6, High) PROVE FALSE
      <4>1. pos - 6 \in Escapes /\ pos - 6 < pos
        BY <2>1, <3>2 DEF Is, Here
      <4>2. Passed(pos - 6)
        BY <2>1, <4>1 DEF Here
      <4> QED BY <2>1, <3>2, <4>2 DEF Passed, Here
    <3> QED BY <2>2, <3>1, <3>2
  <2> QED BY <2>3, <2>4, <2>5
<1> QED BY <1>1, Stops DEF Refused, Scanned

\* The end of the text: all its escapes were passed.
LEMMA AcceptanceKeeps ==
  ASSUME ScanInv, verdict = "scanning", ~InText(pos), Scanned(pos, "accepted")
  PROVE  ScanInv'
<1>1. ASSUME Quoted
      PROVE  \A k \in Escapes : /\ IsHex4(k + 2)
                                /\ Is(k, High) => Is(k + 6, Low)
                                /\ Is(k, Low) => Is(k - 6, High)
  <2> SUFFICES ASSUME NEW k \in Escapes PROVE Passed(k)
    BY DEF Passed
  <2>1. k < pos
    BY <1>1, TextShape DEF ScanInv, InText, Escapes
  <2> QED BY <1>1, <2>1 DEF ScanInv
<1> QED BY <1>1, Stops DEF Scanned

\* Every step keeps ScanInv.
LEMMA ScanKeeps ==
  ASSUME ScanInv, [TextNext]_textVars PROVE ScanInv'
<1>1. CASE CheckSurrogates
  <2>1. CASE UnicodeEscape /\ InText(pos)
    BY <1>1, <2>1, SingleKeeps, PairKeeps, RefusalKeeps
       DEF CheckSurrogates, UnicodeEscape, SurrogatePair
  <2> QED BY <1>1, <2>1, AcceptanceKeeps, ToggleKeeps, SkipKeeps, ShortEscapeKeeps
          DEF CheckSurrogates
<1>2. CASE Insert \/ UNCHANGED textVars
  <2>1. UNCHANGED scanVars
    BY <1>2 DEF Insert, textVars
  <2>2. UNCHANGED <<raw, pos, inString, verdict>>
    BY <2>1 DEF scanVars
  <2>3. ScanIsExact' = ScanIsExact
    BY <2>2, TextFrame DEF ScanIsExact
  <2>4. \A k : Passed(k)' = Passed(k)
    BY <2>2, TextFrame DEF Passed
  <2>5. Inside(pos)' = Inside(pos) /\ Slashes(pos)' = Slashes(pos)
    BY <2>2 DEF Inside, Slashes, Char
  <2> QED BY <2>2, <2>3, <2>4, <2>5, TextFrame DEF ScanInv
<1> QED BY <1>1, <1>2 DEF TextNext

\* The scan refuses exactly the texts with an escape that is cut short or a surrogate
\* without its partner, whatever stands around it (checkSurrogates).
THEOREM TheScanIsExact == TextSpec => []ScanIsExact
<1>1. TextInit => ScanInv
  <2> SUFFICES ASSUME TextInit PROVE ScanInv
    OBVIOUS
  <2>1. Len(raw) \in Nat
    BY TextsAssumption DEF TextInit
  <2>2. \A k \in Escapes : ~(k < 0)
    BY DEF Escapes
  <2>3. pos = 0 /\ inString = FALSE /\ verdict = "scanning" /\ raw \in Texts
    BY DEF TextInit, NothingRead
  <2>4. ~Inside(pos) /\ Even(Slashes(pos))
    BY <2>3, AtStart
  <2>5. pos \in 0..Len(raw) /\ \A k \in Escapes : ~(k < pos)
    BY <2>1, <2>2, <2>3
  <2>6. inString \in BOOLEAN /\ (inString <=> Inside(pos))
    BY <2>3, <2>4
  <2>7. ScanIsExact
    BY <2>3 DEF ScanIsExact
  <2> QED BY <2>3, <2>4, <2>5, <2>6, <2>7 DEF ScanInv
<1>2. ScanInv => ScanIsExact
  BY DEF ScanInv
<1> QED BY <1>1, <1>2, ScanKeeps, PTL DEF TextSpec

-----------------------------------------------------------------------------
\* The order of sequences of numbers is strict and total.
LEMMA BelowStrict ==
  ASSUME NEW x \in Seq(Int), NEW y \in Seq(Int), Below(x, y)
  PROVE  ~Below(y, x) /\ x # y
<1>1. CASE \E k \in DOMAIN x \cap DOMAIN y : x[k] < y[k] /\ \A j \in 1..(k - 1) : x[j] = y[j]
  <2>1. PICK k \in DOMAIN x \cap DOMAIN y : x[k] < y[k] /\ \A j \in 1..(k - 1) : x[j] = y[j]
    BY <1>1
  <2>2. x[k] \in Int /\ y[k] \in Int /\ k \in Nat /\ k >= 1 /\ ~(y[k] < x[k]) /\ x[k] # y[k]
    BY <2>1
  <2>3. ~(Len(y) < Len(x) /\ \A j \in DOMAIN y : y[j] = x[j])
    BY <2>1, <2>2
  <2>4. ASSUME NEW i \in DOMAIN y \cap DOMAIN x, y[i] < x[i], \A j \in 1..(i - 1) : y[j] = x[j]
        PROVE  FALSE
    <3>1. i \in Nat /\ i >= 1 /\ x[i] \in Int /\ y[i] \in Int
      BY <2>4
    <3>2. CASE i < k
      <4>1. i \in 1..(k - 1)
        BY <2>2, <3>1, <3>2
      <4> QED BY <2>1, <2>4, <3>1, <4>1
    <3>3. CASE k < i
      <4>1. k \in 1..(i - 1)
        BY <2>2, <3>1, <3>3
      <4> QED BY <2>2, <2>4, <4>1
    <3>4. CASE i = k
      BY <2>2, <2>4, <3>4
    <3> QED BY <2>2, <3>1, <3>2, <3>3, <3>4
  <2> QED BY <2>2, <2>3, <2>4 DEF Below
<1>2. CASE Len(x) < Len(y) /\ \A j \in DOMAIN x : x[j] = y[j]
  <2>1. ~(Len(y) < Len(x)) /\ x # y
    BY <1>2
  <2>2. \A k \in DOMAIN x : ~(y[k] < x[k])
    BY <1>2
  <2> QED BY <2>1, <2>2 DEF Below
<1> QED BY <1>1, <1>2 DEF Below

\* The order is transitive.
LEMMA BelowTransitive ==
  ASSUME NEW x \in Seq(Int), NEW y \in Seq(Int), NEW z \in Seq(Int), Below(x, y), Below(y, z)
  PROVE  Below(x, z)
<1> DEFINE Splits(a, b, k) == /\ k \in DOMAIN a \cap DOMAIN b /\ a[k] < b[k]
                              /\ \A j \in 1..(k - 1) : a[j] = b[j]
           Starts(a, b) == Len(a) < Len(b) /\ \A j \in DOMAIN a : a[j] = b[j]
<1>0. /\ DOMAIN x = 1..Len(x) /\ DOMAIN y = 1..Len(y) /\ DOMAIN z = 1..Len(z)
      /\ Len(x) \in Nat /\ Len(y) \in Nat /\ Len(z) \in Nat
      /\ \A k \in DOMAIN x : x[k] \in Int
      /\ \A k \in DOMAIN y : y[k] \in Int
      /\ \A k \in DOMAIN z : z[k] \in Int
  OBVIOUS
<1>1. \A k : Splits(x, z, k) => Below(x, z)
  BY DEF Below
<1>2. Starts(x, z) => Below(x, z)
  BY DEF Below
<1>3. ASSUME NEW k, NEW i, Splits(x, y, k), Splits(y, z, i) PROVE Below(x, z)
  <2>1. k \in Nat /\ i \in Nat /\ k >= 1 /\ i >= 1
    BY <1>0, <1>3
  <2>2. CASE k < i
    <3>1. Splits(x, z, k)
      BY <1>0, <1>3, <2>1, <2>2
    <3> QED BY <1>1, <3>1
  <2>3. CASE i < k
    <3>1. Splits(x, z, i)
      BY <1>0, <1>3, <2>1, <2>3
    <3> QED BY <1>1, <3>1
  <2>4. CASE i = k
    <3>1. Splits(x, z, i)
      BY <1>0, <1>3, <2>1, <2>4
    <3> QED BY <1>1, <3>1
  <2> QED BY <2>1, <2>2, <2>3, <2>4
<1>4. ASSUME NEW k, Splits(x, y, k), Starts(y, z) PROVE Below(x, z)
  <2>1. k \in DOMAIN x \cap DOMAIN z /\ y[k] = z[k] /\ x[k] < z[k]
    BY <1>0, <1>4
  <2>2. ASSUME NEW j \in 1..(k - 1) PROVE x[j] = z[j]
    <3>1. j \in DOMAIN y /\ x[j] = y[j]
      BY <1>0, <1>4
    <3> QED BY <1>4, <3>1
  <2>3. Splits(x, z, k)
    BY <2>1, <2>2
  <2> QED BY <1>1, <2>3
<1>5. ASSUME NEW i, Starts(x, y), Splits(y, z, i) PROVE Below(x, z)
  <2>1. CASE i <= Len(x)
    <3>1. i \in DOMAIN x \cap DOMAIN z /\ x[i] = y[i] /\ x[i] < z[i]
      BY <1>0, <1>5, <2>1
    <3>2. ASSUME NEW j \in 1..(i - 1) PROVE x[j] = z[j]
      <4>1. j \in DOMAIN x /\ y[j] = z[j]
        BY <1>0, <1>5, <3>1
      <4> QED BY <1>5, <4>1
    <3>3. Splits(x, z, i)
      BY <3>1, <3>2
    <3> QED BY <1>1, <3>3
  <2>2. CASE i > Len(x)
    <3>1. Len(x) < Len(z)
      BY <1>0, <1>5, <2>2
    <3>2. ASSUME NEW j \in DOMAIN x PROVE x[j] = z[j]
      <4>1. j \in 1..(i - 1) /\ x[j] = y[j]
        BY <1>0, <1>5, <2>2
      <4> QED BY <1>5, <4>1
    <3>3. Starts(x, z)
      BY <3>1, <3>2
    <3> QED BY <1>2, <3>3
  <2>3. i \in Nat
    BY <1>0, <1>5
  <2> QED BY <1>0, <2>1, <2>2, <2>3
<1>6. ASSUME Starts(x, y), Starts(y, z) PROVE Below(x, z)
  <2>1. Starts(x, z)
    BY <1>0, <1>6
  <2> QED BY <1>2, <2>1
<1>7. /\ Starts(x, y) \/ \E k : Splits(x, y, k)
      /\ Starts(y, z) \/ \E k : Splits(y, z, k)
  BY DEF Below
<1> HIDE DEF Splits, Starts
<1> QED BY <1>3, <1>4, <1>5, <1>6, <1>7

\* Two sequences are equal, or one starts the other, or there is a first place where
\* they differ.
Parts(a, b, k) ==
  k \in DOMAIN a \cap DOMAIN b /\ a[k] # b[k] /\ \A j \in 1..(k - 1) : a[j] = b[j]
Starts(a, b) == Len(a) < Len(b) /\ \A j \in DOMAIN a : a[j] = b[j]

\* Any two sequences stand so.
LEMMA FirstDifference ==
  ASSUME NEW S, NEW a \in Seq(S), NEW b \in Seq(S), a # b
  PROVE  Starts(a, b) \/ Starts(b, a) \/ \E k : Parts(a, b, k)
<1> DEFINE D == {k \in DOMAIN a \cap DOMAIN b : a[k] # b[k]}
<1>0. /\ DOMAIN a = 1..Len(a) /\ DOMAIN b = 1..Len(b)
      /\ Len(a) \in Nat /\ Len(b) \in Nat
      /\ a \in [1..Len(a) -> S] /\ b \in [1..Len(b) -> S]
  OBVIOUS
<1>1. CASE D = {}
  <2>1. \A k \in DOMAIN a \cap DOMAIN b : a[k] = b[k]
    BY <1>1
  <2>2. Len(a) # Len(b)
    <3>1. SUFFICES ASSUME Len(a) = Len(b) PROVE FALSE
      OBVIOUS
    <3>2. \A k \in 1..Len(a) : a[k] = b[k]
      BY <1>0, <2>1, <3>1
    <3>3. a = b
      BY <3>1, <3>2, SeqEqual
    <3> QED BY <3>3
  <2>3. CASE Len(a) < Len(b)
    BY <1>0, <2>1, <2>3 DEF Starts
  <2>4. CASE Len(b) < Len(a)
    BY <1>0, <2>1, <2>4 DEF Starts
  <2>5. \A p, q \in Nat : p # q => p < q \/ q < p
    OBVIOUS
  <2>6. Len(a) < Len(b) \/ Len(b) < Len(a)
    BY <1>0, <2>2, <2>5, Zenon
  <2> QED BY <2>3, <2>4, <2>6
<1>2. CASE D # {}
  <2>1. D \in SUBSET Nat
    BY <1>0
  <2>2. PICK m \in D : \A k \in D : m <= k
    <3> HIDE DEF D
    <3> QED BY <1>2, <2>1, Least
  <2>3. \A j \in 1..(m - 1) : j \in DOMAIN a \cap DOMAIN b /\ j \notin D
    BY <1>0, <2>2
  <2>4. Parts(a, b, m)
    BY <2>2, <2>3 DEF Parts
  <2> QED BY <2>4
<1> QED BY <1>1, <1>2

-----------------------------------------------------------------------------
\* The sequences that joining the sequences of s one after the other goes through.
JoinedBy(e, s, n) ==
  /\ e \in [0..n -> Seq(Int)] /\ e[0] = <<>>
  /\ \A i \in 1..n : e[i] = e[i - 1] \o s[i]

\* There is such a sequence of sequences, by induction.
LEMMA JoinExists ==
  ASSUME NEW s, NEW n \in Nat, \A i \in 1..n : s[i] \in Seq(Int)
  PROVE  \E e : JoinedBy(e, s, n)
<1> DEFINE Good == {m \in Nat : m <= n => \E e : JoinedBy(e, s, m)}
<1>1. 0 \in Good
  <2>1. JoinedBy([i \in 0..0 |-> <<>>], s, 0)
    BY DEF JoinedBy
  <2> QED BY <2>1
<1>2. ASSUME NEW m \in Good PROVE m + 1 \in Good
  <2>1. SUFFICES ASSUME m + 1 <= n PROVE \E e : JoinedBy(e, s, m + 1)
    BY <1>2
  <2>2. m \in Nat /\ m <= n
    BY <1>2, <2>1
  <2>3. PICK e : JoinedBy(e, s, m)
    BY <1>2, <2>2
  <2> DEFINE g == [i \in 0..(m + 1) |-> IF i = m + 1 THEN e[m] \o s[m + 1] ELSE e[i]]
  <2>4. e[m] \in Seq(Int) /\ s[m + 1] \in Seq(Int) /\ e[0] = <<>>
    BY <2>1, <2>2, <2>3 DEF JoinedBy
  <2>5. e[m] \o s[m + 1] \in Seq(Int)
    BY <2>4
  <2>6. g \in [0..(m + 1) -> Seq(Int)]
    BY <2>2, <2>3, <2>5 DEF JoinedBy
  <2>7. \A i \in 0..m : g[i] = e[i]
    BY <2>2
  <2>8. g[m + 1] = e[m] \o s[m + 1]
    <3>1. m + 1 \in 0..(m + 1)
      BY <2>2
    <3> QED BY <3>1, Zenon
  <2>9. m + 1 - 1 = m /\ m \in 0..m /\ 0 \in 0..m
    BY <2>2
  <2>10. \A i \in 1..(m + 1) : i = m + 1 \/ (i \in 1..m /\ i \in 0..m /\ i - 1 \in 0..m)
    BY <2>2
  <2> HIDE DEF g
  <2>11. \A i \in 1..m : e[i] = e[i - 1] \o s[i]
    BY <2>3 DEF JoinedBy
  <2>12. ASSUME NEW i \in 1..(m + 1) PROVE g[i] = g[i - 1] \o s[i]
    <3>1. CASE i = m + 1
      <4>1. i - 1 = m /\ g[m] = e[m]
        BY <2>2, <2>7, <2>9, <3>1
      <4> QED BY <2>8, <3>1, <4>1, Zenon
    <3>2. CASE i \in 1..m /\ i \in 0..m /\ i - 1 \in 0..m
      BY <2>7, <2>11, <3>2, Zenon
    <3> QED BY <2>10, <3>1, <3>2, Zenon
  <2>13. g[0] = <<>>
    BY <2>4, <2>7, <2>9
  <2>14. JoinedBy(g, s, m + 1)
    BY <2>6, <2>12, <2>13, Zenon DEF JoinedBy
  <2> QED BY <2>14
<1>3. Good = Nat
  <2>1. Good \in SUBSET Nat
    OBVIOUS
  <2> HIDE DEF Good
  <2> QED BY <1>1, <1>2, <2>1, SetInduction
<1>4. n \in Good /\ n <= n
  BY <1>3
<1> QED BY <1>4

\* FlattenSeq is the last of them.
LEMMA Flattened ==
  ASSUME NEW s \in Seq(Seq(Int)), NEW n \in Nat, n = Len(s)
  PROVE  \E e : JoinedBy(e, s, n) /\ FlattenSeq(s) = e[n]
<1> DEFINE F(f) == [i \in 1..n |-> IF i = 1 THEN s[i] ELSE f[i - 1] \o s[i]]
           R == CHOOSE f : f = F(f)
<1>1. \A i \in 1..n : s[i] \in Seq(Int)
  OBVIOUS
<1>2. PICK e : JoinedBy(e, s, n)
  BY <1>1, JoinExists
<1>3. /\ e[0] = <<>>
      /\ \A i \in 1..n : e[i] = e[i - 1] \o s[i]
  BY <1>2 DEF JoinedBy
<1>4. CASE n = 0
  <2>1. s = <<>>
    BY <1>4, EmptySeq
  <2>2. FlattenSeq(s) = s
    BY <1>4, Zenon DEF FlattenSeq
  <2> QED BY <1>2, <1>3, <1>4, <2>1, <2>2
<1>5. CASE n # 0
  <2>1. 1 \in 1..n /\ n \in 1..n /\ 1 - 1 = 0
    BY <1>5
  <2>2. e[1] = s[1]
    <3>1. s[1] \in Seq(Int) /\ e[1] = <<>> \o s[1]
      BY <1>1, <1>3, <2>1
    <3>2. \A x \in Seq(Int) : <<>> \o x = x
      OBVIOUS
    <3> QED BY <3>1, <3>2, Zenon
  <2> DEFINE h == [i \in 1..n |-> e[i]]
  <2>3. h = F(h)
    <3>1. ASSUME NEW i \in 1..n PROVE h[i] = IF i = 1 THEN s[i] ELSE h[i - 1] \o s[i]
      <4>1. CASE i = 1
        BY <2>2, <4>1
      <4>2. CASE i # 1
        <5>1. i - 1 \in 1..n
          BY <4>2
        <5>2. h[i - 1] = e[i - 1] /\ h[i] = e[i]
          BY <5>1
        <5> HIDE DEF h
        <5> QED BY <1>3, <4>2, <5>2
      <4> QED BY <4>1, <4>2
    <3>2. h = [i \in 1..n |-> h[i]]
      OBVIOUS
    <3> HIDE DEF h
    <3> QED BY <3>1, <3>2
  <2>4. R = F(R)
    <3> HIDE DEF h, F
    <3> QED BY <2>3
  <2>5. \A i \in 1..n : R[i] = IF i = 1 THEN s[i] ELSE R[i - 1] \o s[i]
    <3> HIDE DEF R
    <3>1. \A i \in 1..n : F(R)[i] = IF i = 1 THEN s[i] ELSE R[i - 1] \o s[i]
      OBVIOUS
    <3> HIDE DEF F
    <3> QED BY <2>4, <3>1, Zenon
  <2>6. FlattenSeq(s) = R[n]
    BY <1>5 DEF FlattenSeq
  <2> DEFINE Off == {i \in 1..n : R[i] # e[i]}
  <2> HIDE DEF R
  <2>7. Off = {}
    <3>1. SUFFICES ASSUME Off # {} PROVE FALSE
      OBVIOUS
    <3>2. PICK m \in Off : \A k \in Off : m <= k
      <4>1. Off \in SUBSET Nat
        OBVIOUS
      <4> HIDE DEF Off
      <4> QED BY <3>1, <4>1, Least
    <3>3. m # 1
      BY <2>1, <2>2, <2>5, <3>2
    <3>4. m - 1 \in 1..n /\ ~(m <= m - 1)
      BY <3>2, <3>3
    <3>5. R[m - 1] = e[m - 1]
      BY <3>2, <3>4
    <3>6. R[m] = R[m - 1] \o s[m]
      BY <2>5, <3>2, <3>3
    <3>7. e[m] = e[m - 1] \o s[m]
      BY <1>3, <3>2
    <3> QED BY <3>2, <3>5, <3>6, <3>7
  <2> QED BY <1>2, <2>1, <2>6, <2>7
<1> QED BY <1>4, <1>5

\* One of the sequences starts with each of those before it.
Opens(p, x) == Len(p) <= Len(x) /\ \A j \in 1..Len(p) : p[j] = x[j]

\* What starts a sequence starts its extensions.
LEMMA PrefixExtends ==
  ASSUME NEW u \in Seq(Int), NEW v \in Seq(Int), NEW w \in Seq(Int), Opens(u, v)
  PROVE  Opens(u, v \o w)
<1>1. Len(u) \in Nat /\ Len(v) \in Nat /\ Len(w) \in Nat
  OBVIOUS
<1>2. Len(v \o w) = Len(v) + Len(w) /\ \A j \in 1..Len(v) : (v \o w)[j] = v[j]
  OBVIOUS
<1>3. Len(u) <= Len(v) /\ \A j \in 1..Len(u) : u[j] = v[j]
  BY DEF Opens
<1>4. \A j \in 1..Len(u) : j \in 1..Len(v)
  BY <1>1, <1>3
<1>5. Len(u) <= Len(v \o w)
  BY <1>1, <1>2, <1>3
<1> QED BY <1>2, <1>3, <1>4, <1>5, Zenon DEF Opens

\* Each join starts the last one.
LEMMA JoinExtends ==
  ASSUME NEW e, NEW s, NEW n \in Nat, JoinedBy(e, s, n), NEW i \in 0..n,
         \A k \in 1..n : s[k] \in Seq(Int)
  PROVE  Opens(e[i], e[n])
<1> DEFINE Good == {m \in Nat : i + m <= n => Opens(e[i], e[i + m])}
<1>1. /\ \A k \in 0..n : e[k] \in Seq(Int)
      /\ \A k \in 1..n : e[k] = e[k - 1] \o s[k]
  BY DEF JoinedBy
<1>2. 0 \in Good
  <2>1. i + 0 = i /\ e[i] \in Seq(Int)
    BY <1>1
  <2> QED BY <2>1 DEF Opens
<1>3. ASSUME NEW m \in Good PROVE m + 1 \in Good
  <2>1. SUFFICES ASSUME i + (m + 1) <= n PROVE Opens(e[i], e[i + (m + 1)])
    BY <1>3
  <2> DEFINE k == i + (m + 1)
  <2>2. k \in 1..n /\ k - 1 = i + m /\ k - 1 \in 0..n /\ i + m <= n
    BY <1>3, <2>1
  <2> HIDE DEF k
  <2>3. Opens(e[i], e[k - 1])
    BY <1>3, <2>2
  <2>4. e[k] = e[k - 1] \o s[k] /\ e[k - 1] \in Seq(Int) /\ s[k] \in Seq(Int)
    BY <1>1, <2>2
  <2>5. \A u, v, w, x \in Seq(Int) : Opens(u, v) /\ x = v \o w => Opens(u, x)
    BY PrefixExtends
  <2>6. e[k] \in Seq(Int) /\ e[i] \in Seq(Int)
    BY <1>1, <2>2
  <2>7. Opens(e[i], e[k])
    BY <2>3, <2>4, <2>5, <2>6
  <2> QED BY <2>7 DEF k
<1>4. Good = Nat
  <2>1. Good \in SUBSET Nat
    OBVIOUS
  <2> HIDE DEF Good
  <2> QED BY <1>2, <1>3, <2>1, SetInduction
<1>5. n - i \in Good /\ i + (n - i) = n
  <2>1. n - i \in Nat /\ i + (n - i) = n
    OBVIOUS
  <2> HIDE DEF Good
  <2> QED BY <1>4, <2>1
<1>6. Opens(e[i], e[i + (n - i)])
  BY <1>5
<1> QED BY <1>5, <1>6

\* The first l of them join the first l of s.
Follows(e, s, l) == e[0] = <<>> /\ \A i \in 1..l : e[i] = e[i - 1] \o s[i]

\* So they do if they join more.
LEMMA JoinFollows ==
  ASSUME NEW e, NEW s, NEW n, NEW l, JoinedBy(e, s, n), \A i \in 1..l : i \in 1..n
  PROVE  Follows(e, s, l)
BY Zenon DEF JoinedBy, Follows

Alike(s, t, l) == \A i \in 1..l : s[i] = t[i]

\* Two joins agree as long as what they join does.
LEMMA JoinAgrees ==
  ASSUME NEW l \in Nat, NEW d, NEW e, NEW s, NEW t, Follows(d, s, l), Follows(e, t, l),
         Alike(s, t, l)
  PROVE  \A i \in 0..l : d[i] = e[i]
<1> DEFINE Good == {i \in Nat : i <= l => d[i] = e[i]}
<1>1. 0 \in Good
  BY DEF Follows
<1>2. ASSUME NEW i \in Good PROVE i + 1 \in Good
  <2>1. SUFFICES ASSUME i + 1 <= l PROVE d[i + 1] = e[i + 1]
    BY <1>2
  <2>2. PICK k \in 1..l : k = i + 1
    BY <1>2, <2>1
  <2>3. k - 1 = i
    BY <1>2, <2>2
  <2>4. d[i] = e[i]
    BY <1>2, <2>1
  <2>5. d[k] = d[k - 1] \o s[k] /\ e[k] = e[k - 1] \o t[k] /\ s[k] = t[k]
    BY DEF Follows, Alike
  <2> QED BY <2>2, <2>3, <2>4, <2>5
<1>3. Good = Nat
  <2>1. Good \in SUBSET Nat
    OBVIOUS
  <2> HIDE DEF Good
  <2> QED BY <1>1, <1>2, <2>1, SetInduction
<1>4. ASSUME NEW i \in 0..l PROVE d[i] = e[i]
  <2>1. i \in Good /\ i <= l
    <3> HIDE DEF Good
    <3> QED BY <1>3
  <2> QED BY <2>1
<1> QED BY <1>4

-----------------------------------------------------------------------------
\* The code units of two points tell them apart, in the order of their places.
Scalars == {c \in 0..MaxRune : Scalar(c)}

\* The bounds of a code point.
LEMMA ScalarFacts ==
  ASSUME NEW c \in Scalars
  PROVE  /\ c \in Nat /\ c < 1114112 /\ (c < 55296 \/ c >= 57344)
<1>1. MaxRune \in Int /\ MaxRune < 1114112
  BY SMT DEF MaxRune
<1>2. c \in 0..MaxRune /\ Scalar(c)
  BY Zenon DEF Scalars
<1>3. c \in Nat /\ c <= MaxRune
  BY <1>1, <1>2, SMT
<1> QED BY <1>1, <1>2, <1>3, SMT DEF Scalar

\* A point has one or two units, and a place.
LEMMA UnitsType ==
  ASSUME NEW c \in Scalars
  PROVE  /\ Units(c) \in Seq(Int) /\ Len(Units(c)) >= 1
         /\ Place(c) \in Int
<1>1. c \in Nat /\ c < 1114112 /\ (c < 55296 \/ c >= 57344)
  BY ScalarFacts
<1>2. Place(c) \in Int
  BY <1>1, SMT DEF Place
<1>3. CASE c < 65536
  <2>1. Units(c) = <<c>> /\ c \in Int
    BY <1>1, <1>3, SMT DEF Units
  <2>2. \A p \in Int : <<p>> \in Seq(Int) /\ Len(<<p>>) = 1
    OBVIOUS
  <2>3. Units(c) \in Seq(Int) /\ Len(Units(c)) = 1
    BY <2>1, <2>2, SMT
  <2> QED BY <1>2, <2>3, SMT
<1>4. CASE c >= 65536
  <2>1. (c - 65536) \div 1024 \in Int /\ (c - 65536) % 1024 \in Int
    BY <1>1, <1>4, SMT
  <2>2. Units(c) = <<55296 + (c - 65536) \div 1024, 56320 + ((c - 65536) % 1024)>>
    BY <1>1, <1>4, SMT DEF Units
  <2>3. \A p, q \in Int : <<p, q>> \in Seq(Int) /\ Len(<<p, q>>) = 2
    OBVIOUS
  <2>4. 55296 + (c - 65536) \div 1024 \in Int /\ 56320 + ((c - 65536) % 1024) \in Int
    BY <2>1, SMT
  <2>5. Units(c) \in Seq(Int) /\ Len(Units(c)) = 2
    BY <2>2, <2>3, <2>4, SMT
  <2> QED BY <1>2, <2>5, SMT
<1> QED BY <1>1, <1>3, <1>4, SMT

\* A place belongs to one point.
LEMMA PlaceInjective ==
  ASSUME NEW x \in Scalars, NEW y \in Scalars, Place(x) = Place(y)
  PROVE  x = y
<1>1. /\ x \in Nat /\ x < 1114112 /\ (x < 55296 \/ x >= 57344)
      /\ y \in Nat /\ y < 1114112 /\ (y < 55296 \/ y >= 57344)
  BY ScalarFacts
<1> QED BY <1>1, SMT DEF Place

\* The units of two points differ first in the order of their places.
LEMMA UnitsOrder ==
  ASSUME NEW x \in Scalars, NEW y \in Scalars, Place(x) < Place(y)
  PROVE  \E d \in 1..2 :
           /\ d <= Len(Units(x)) /\ d <= Len(Units(y))
           /\ Units(x)[d] < Units(y)[d]
           /\ \A j \in 1..(d - 1) : Units(x)[j] = Units(y)[j]
<1>1. /\ x \in Nat /\ x < 1114112 /\ (x < 55296 \/ x >= 57344)
      /\ y \in Nat /\ y < 1114112 /\ (y < 55296 \/ y >= 57344)
  BY ScalarFacts
<1>2. CASE x < 65536 /\ y < 65536
  <2>1. x < y
    BY <1>1, <1>2, SMT DEF Place
  <2>2. Units(x) = <<x>> /\ Units(y) = <<y>>
    BY <1>2, SMT DEF Units
  <2> QED BY <1>1, <2>1, <2>2, SMT
<1>3. CASE x < 65536 /\ y >= 65536
  <2>1. x < 55296
    BY <1>1, <1>3, SMT DEF Place
  <2>2. (y - 65536) \div 1024 \in Nat
    BY <1>1, <1>3, SMT
  <2>3. /\ Units(x) = <<x>>
        /\ Units(y) = <<55296 + (y - 65536) \div 1024, 56320 + ((y - 65536) % 1024)>>
    BY <1>1, <1>3, SMT DEF Units
  <2> QED BY <1>1, <2>1, <2>2, <2>3, SMT
<1>4. CASE x >= 65536 /\ y < 65536
  <2>1. y >= 57344
    BY <1>1, <1>4, SMT DEF Place
  <2>2. (x - 65536) \div 1024 \in Nat /\ (x - 65536) \div 1024 < 1024
    BY <1>1, <1>4, SMT
  <2>3. /\ Units(x) = <<55296 + (x - 65536) \div 1024, 56320 + ((x - 65536) % 1024)>>
        /\ Units(y) = <<y>>
    BY <1>1, <1>4, SMT DEF Units
  <2> QED BY <1>1, <2>1, <2>2, <2>3, SMT
<1>5. CASE x >= 65536 /\ y >= 65536
  <2>1. x < y
    BY <1>1, <1>5, SMT DEF Place
  <2> DEFINE u == x - 65536
             v == y - 65536
  <2>2. u \in Nat /\ v \in Nat /\ u < v
    BY <1>1, <1>5, <2>1, SMT
  <2>3. /\ Units(x) = <<55296 + u \div 1024, 56320 + (u % 1024)>>
        /\ Units(y) = <<55296 + v \div 1024, 56320 + (v % 1024)>>
    BY <1>1, <1>5, SMT DEF Units
  <2> HIDE DEF u, v
  <2>4. /\ u \div 1024 \in Nat /\ v \div 1024 \in Nat
        /\ u % 1024 \in Nat /\ u % 1024 < 1024 /\ v % 1024 \in Nat /\ v % 1024 < 1024
        /\ u = 1024 * (u \div 1024) + (u % 1024) /\ v = 1024 * (v \div 1024) + (v % 1024)
    BY <2>2, SMT
  <2>5. CASE u \div 1024 < v \div 1024
    BY <2>3, <2>4, <2>5, SMT
  <2>6. CASE u \div 1024 = v \div 1024
    <3>1. u % 1024 < v % 1024
      BY <2>2, <2>4, <2>6, SMT
    <3>2. Units(x)[1] = Units(y)[1]
      BY <2>3, <2>4, <2>6, SMT
    <3>3. Units(x)[2] < Units(y)[2] /\ Len(Units(x)) = 2 /\ Len(Units(y)) = 2
      <4>1. \A p, q \in Int : Len(<<p, q>>) = 2 /\ <<p, q>>[2] = q
        OBVIOUS
      <4>2. /\ 55296 + u \div 1024 \in Int /\ 55296 + v \div 1024 \in Int
            /\ 56320 + (u % 1024) \in Int /\ 56320 + (v % 1024) \in Int
            /\ 56320 + (u % 1024) < 56320 + (v % 1024)
        <5>1. \A k \in Int : 55296 + k \in Int /\ 56320 + k \in Int
          BY SMT
        <5>2. \A k, l \in Int : k < l => 56320 + k < 56320 + l
          BY SMT
        <5>3. /\ u % 1024 \in Int /\ v % 1024 \in Int
              /\ u \div 1024 \in Int /\ v \div 1024 \in Int
          BY <2>4, SMT
        <5> QED BY <3>1, <5>1, <5>2, <5>3, SMT
      <4> QED BY <2>3, <4>1, <4>2, SMT
    <3>4. \A j \in 1..(2 - 1) : j = 1
      BY SMT
    <3> QED BY <3>2, <3>3, <3>4, SMT
  <2>7. ~(v \div 1024 < u \div 1024)
    BY <2>2, <2>4, SMT
  <2> QED BY <2>4, <2>5, <2>6, <2>7, SMT
<1> QED BY <1>1, <1>2, <1>3, <1>4, <1>5, SMT

-----------------------------------------------------------------------------
\* The comparison of encodings is the comparison of places.
UnitSeqs(a) == [k \in DOMAIN a |-> Units(a[k])]

\* The places of a name.
LEMMA PlacesType ==
  ASSUME NEW a \in Seq(Scalars)
  PROVE  /\ Places(a) \in Seq(Int) /\ Len(Places(a)) = Len(a)
         /\ DOMAIN Places(a) = DOMAIN a
         /\ \A k \in DOMAIN a : Places(a)[k] = Place(a[k])
<1>1. DOMAIN a = 1..Len(a) /\ Len(a) \in Nat /\ \A k \in DOMAIN a : a[k] \in Scalars
  OBVIOUS
<1>2. \A k \in DOMAIN a : Place(a[k]) \in Int
  BY <1>1, UnitsType
<1> QED BY <1>1, <1>2 DEF Places

\* An encoding is the last of the joins of the points' units.
LEMMA Encoded ==
  ASSUME NEW a \in Seq(Scalars)
  PROVE  /\ Len(a) \in Nat /\ DOMAIN a = 1..Len(a)
         /\ \A k \in 1..Len(a) : UnitSeqs(a)[k] = Units(a[k]) /\ Units(a[k]) \in Seq(Int)
         /\ \E e : JoinedBy(e, UnitSeqs(a), Len(a)) /\ Encode(a) = e[Len(a)]
<1>1. DOMAIN a = 1..Len(a) /\ Len(a) \in Nat /\ \A k \in DOMAIN a : a[k] \in Scalars
  OBVIOUS
<1>2. \A k \in DOMAIN a : Units(a[k]) \in Seq(Int)
  BY <1>1, UnitsType
<1>3. UnitSeqs(a) \in Seq(Seq(Int)) /\ Len(UnitSeqs(a)) = Len(a)
  BY <1>1, <1>2 DEF UnitSeqs
<1>4. \E e : JoinedBy(e, UnitSeqs(a), Len(a)) /\ FlattenSeq(UnitSeqs(a)) = e[Len(a)]
  BY <1>1, <1>3, Flattened
<1>5. Encode(a) = FlattenSeq(UnitSeqs(a))
  BY DEF Encode, UnitSeqs
<1>6. \A k \in 1..Len(a) : UnitSeqs(a)[k] = Units(a[k])
  BY <1>1 DEF UnitSeqs
<1> QED BY <1>1, <1>2, <1>4, <1>5, <1>6

\* z begins with p and then w.
Splices(p, w, z) ==
  /\ p \in Seq(Int) /\ w \in Seq(Int) /\ z \in Seq(Int)
  /\ \A j \in 1..Len(p) : z[j] = p[j]
  /\ \A d \in 1..Len(w) : Len(p) + d <= Len(z) /\ z[Len(p) + d] = w[d]

\* An encoding begins with the one of the first k - 1 points and then the units of
\* the next.
LEMMA JoinStep ==
  ASSUME NEW a \in Seq(Scalars), NEW e, JoinedBy(e, UnitSeqs(a), Len(a)),
         NEW k \in 1..Len(a)
  PROVE  Splices(e[k - 1], Units(a[k]), e[Len(a)])
<1>1. /\ Len(a) \in Nat /\ DOMAIN a = 1..Len(a)
      /\ \A i \in 1..Len(a) : UnitSeqs(a)[i] = Units(a[i]) /\ Units(a[i]) \in Seq(Int)
  BY Encoded
<1>2. e[k - 1] \in Seq(Int) /\ e[k] \in Seq(Int) /\ e[Len(a)] \in Seq(Int)
  <2>1. \A i \in 0..Len(a) : e[i] \in Seq(Int)
    BY DEF JoinedBy
  <2>2. k - 1 \in 0..Len(a) /\ k \in 0..Len(a) /\ Len(a) \in 0..Len(a)
    BY <1>1
  <2> QED BY <2>1, <2>2
<1>3. e[k] = e[k - 1] \o Units(a[k]) /\ Units(a[k]) \in Seq(Int)
  BY <1>1 DEF JoinedBy
<1>4. Opens(e[k], e[Len(a)])
  <2>1. Len(a) \in Nat /\ k \in 0..Len(a)
    BY <1>1
  <2>2. \A i \in 1..Len(a) : UnitSeqs(a)[i] \in Seq(Int)
    BY <1>1, Zenon
  <2> QED BY <2>1, <2>2, JoinExtends, Zenon
<1> DEFINE p == e[k - 1]
           w == Units(a[k])
           z == e[Len(a)]
<1>5. p \in Seq(Int) /\ w \in Seq(Int) /\ z \in Seq(Int) /\ Opens(p \o w, z)
  BY <1>2, <1>3, <1>4
<1> HIDE DEF p, w, z
<1>6. /\ Len(p) \in Nat /\ Len(w) \in Nat /\ Len(z) \in Nat /\ Len(p \o w) = Len(p) + Len(w)
      /\ \A j \in 1..Len(p) : (p \o w)[j] = p[j]
      /\ \A d \in 1..Len(w) : (p \o w)[Len(p) + d] = w[d]
  BY <1>5
<1>7. \A j \in 1..(Len(p) + Len(w)) : (p \o w)[j] = z[j]
  BY <1>5, <1>6 DEF Opens
<1>8. Len(p) + Len(w) <= Len(z)
  BY <1>5, <1>6 DEF Opens
<1>9. \A j \in 1..Len(p) : z[j] = p[j]
  <2>1. \A j \in 1..Len(p) : j \in 1..(Len(p) + Len(w))
    BY <1>6
  <2> QED BY <1>6, <1>7, <2>1
<1>10. \A d \in 1..Len(w) : Len(p) + d <= Len(z) /\ z[Len(p) + d] = w[d]
  <2>1. \A d \in 1..Len(w) : Len(p) + d \in 1..(Len(p) + Len(w)) /\ Len(p) + d <= Len(z)
    BY <1>6, <1>8
  <2> QED BY <1>6, <1>7, <2>1
<1>11. Splices(p, w, z)
  BY <1>5, <1>9, <1>10 DEF Splices
<1> QED BY <1>11 DEF p, w, z

\* Where the places of two names are in order, the code finds the names in order.
LEMMA PlaceDecides ==
  ASSUME NEW a \in Seq(Scalars), NEW b \in Seq(Scalars), Below(Places(a), Places(b))
  PROVE  LessUTF16(a, b)
<1>1. /\ Len(a) \in Nat /\ DOMAIN a = 1..Len(a) /\ \A k \in 1..Len(a) : a[k] \in Scalars
      /\ Len(b) \in Nat /\ DOMAIN b = 1..Len(b) /\ \A k \in 1..Len(b) : b[k] \in Scalars
  OBVIOUS
<1>2. PICK d : JoinedBy(d, UnitSeqs(a), Len(a)) /\ Encode(a) = d[Len(a)]
  BY Encoded
<1>3. PICK e : JoinedBy(e, UnitSeqs(b), Len(b)) /\ Encode(b) = e[Len(b)]
  BY Encoded
<1>4. ASSUME NEW l \in Nat, l <= Len(a), l <= Len(b), \A j \in 1..l : Place(a[j]) = Place(b[j])
      PROVE  d[l] = e[l]
  <2>1. ASSUME NEW j \in 1..l PROVE UnitSeqs(a)[j] = UnitSeqs(b)[j]
    <3>1. j \in 1..Len(a) /\ j \in 1..Len(b)
      BY <1>1, <1>4
    <3>2. a[j] = b[j]
      BY <1>1, <1>4, <3>1, PlaceInjective
    <3> QED BY <3>1, <3>2, Encoded
  <2>2. l \in 0..l
    OBVIOUS
  <2>3. \A i \in 0..l : d[i] = e[i]
    <3>1. l \in Nat /\ \A i \in 1..l : i \in 1..Len(a) /\ i \in 1..Len(b)
      BY <1>1, <1>4
    <3>2. Follows(d, UnitSeqs(a), l)
      BY <1>2, <3>1, JoinFollows, Zenon
    <3>3. Follows(e, UnitSeqs(b), l)
      BY <1>3, <3>1, JoinFollows, Zenon
    <3>4. Alike(UnitSeqs(a), UnitSeqs(b), l)
      BY <2>1, Zenon DEF Alike
    <3> QED BY <3>1, <3>2, <3>3, <3>4, JoinAgrees
  <2> QED BY <2>2, <2>3
<1>5. CASE \E k \in 1..Len(a) :
             /\ k \in 1..Len(b) /\ Place(a[k]) < Place(b[k])
             /\ \A j \in 1..(k - 1) : Place(a[j]) = Place(b[j])
  <2>1. PICK k \in 1..Len(a) :
             /\ k \in 1..Len(b) /\ Place(a[k]) < Place(b[k])
             /\ \A j \in 1..(k - 1) : Place(a[j]) = Place(b[j])
    BY <1>5
  <2>2. k - 1 \in Nat /\ k - 1 <= Len(a) /\ k - 1 <= Len(b)
    BY <1>1, <2>1
  <2>3. d[k - 1] = e[k - 1]
    BY <1>4, <2>1, <2>2
  <2>4. PICK c \in 1..2 :
          /\ c <= Len(Units(a[k])) /\ c <= Len(Units(b[k]))
          /\ Units(a[k])[c] < Units(b[k])[c]
          /\ \A j \in 1..(c - 1) : Units(a[k])[j] = Units(b[k])[j]
    BY <1>1, <2>1, UnitsOrder
  <2> DEFINE p == d[k - 1]
             x == Encode(a)
             y == Encode(b)
             u == Units(a[k])
             v == Units(b[k])
  <2>5. /\ p \in Seq(Int) /\ x \in Seq(Int) /\ u \in Seq(Int)
        /\ \A j \in 1..Len(p) : x[j] = p[j]
        /\ \A j \in 1..Len(u) : Len(p) + j <= Len(x) /\ x[Len(p) + j] = u[j]
    <3>1. Splices(d[k - 1], Units(a[k]), d[Len(a)])
      BY <1>2, <2>1, JoinStep
    <3> QED BY <1>2, <3>1 DEF Splices
  <2>6. /\ y \in Seq(Int) /\ v \in Seq(Int)
        /\ \A j \in 1..Len(p) : y[j] = p[j]
        /\ \A j \in 1..Len(v) : Len(p) + j <= Len(y) /\ y[Len(p) + j] = v[j]
    <3>1. Splices(e[k - 1], Units(b[k]), e[Len(b)])
      BY <1>3, <2>1, JoinStep
    <3> QED BY <1>3, <2>3, <3>1 DEF Splices
  <2>7. /\ c <= Len(u) /\ c <= Len(v) /\ u[c] < v[c]
        /\ \A j \in 1..(c - 1) : u[j] = v[j]
    BY <2>4
  <2> HIDE DEF p, x, y, u, v
  <2>8. Len(p) \in Nat /\ Len(u) \in Nat /\ Len(v) \in Nat /\ Len(x) \in Nat /\ Len(y) \in Nat
    BY <2>5, <2>6
  <2> DEFINE i == Len(p) + c
  <2>9. i \in DOMAIN x \cap DOMAIN y /\ x[i] < y[i]
    <3>1. c \in 1..Len(u) /\ c \in 1..Len(v) /\ Len(p) + c >= 1
      BY <2>7, <2>8
    <3>2. i <= Len(x) /\ i <= Len(y) /\ x[i] = u[c] /\ y[i] = v[c]
      BY <2>5, <2>6, <3>1
    <3>3. i \in DOMAIN x /\ i \in DOMAIN y
      <4>1. i \in Nat /\ i >= 1
        BY <2>8, <3>1
      <4>2. \A z \in Seq(Int) : \A j \in Nat : j >= 1 /\ j <= Len(z) => j \in DOMAIN z
        OBVIOUS
      <4> HIDE DEF i
      <4> QED BY <2>5, <2>6, <3>2, <4>1, <4>2
    <3> QED BY <2>7, <3>2, <3>3
  <2>10. ASSUME NEW j \in 1..(i - 1) PROVE x[j] = y[j]
    <3>1. CASE j \in 1..Len(p)
      BY <2>5, <2>6, <3>1
    <3>2. CASE j > Len(p)
      <4>1. PICK m \in 1..(c - 1) : j = Len(p) + m
        <5>1. j - Len(p) \in 1..(c - 1) /\ j = Len(p) + (j - Len(p))
          BY <2>8, <3>2
        <5> QED BY <5>1
      <4>2. m \in 1..Len(u) /\ m \in 1..Len(v)
        BY <2>7, <2>8
      <4>3. x[j] = u[m] /\ y[j] = v[m]
        BY <2>5, <2>6, <4>1, <4>2
      <4> QED BY <2>7, <4>3
    <3> QED BY <2>8, <3>1, <3>2
  <2>11. Below(x, y)
    <3> HIDE DEF i
    <3> QED BY <2>9, <2>10 DEF Below
  <2> QED BY <2>11 DEF LessUTF16, x, y
<1>6. CASE Len(a) < Len(b) /\ \A j \in 1..Len(a) : Place(a[j]) = Place(b[j])
  <2> DEFINE k == Len(a) + 1
  <2>1. k \in 1..Len(b) /\ k - 1 = Len(a) /\ Len(a) <= Len(a) /\ Len(a) <= Len(b)
    BY <1>1, <1>6
  <2>2. d[Len(a)] = e[Len(a)]
    BY <1>1, <1>4, <1>6, <2>1
  <2> HIDE DEF k
  <2>3. /\ e[k - 1] \in Seq(Int) /\ e[Len(b)] \in Seq(Int)
        /\ \A j \in 1..Len(e[k - 1]) : e[Len(b)][j] = e[k - 1][j]
        /\ \A j \in 1..Len(Units(b[k])) : Len(e[k - 1]) + j <= Len(e[Len(b)])
    <3>1. Splices(e[k - 1], Units(b[k]), e[Len(b)])
      BY <1>3, <2>1, JoinStep
    <3> QED BY <3>1 DEF Splices
  <2>4. Len(Units(b[k])) >= 1 /\ Units(b[k]) \in Seq(Int)
    BY <1>1, <2>1, UnitsType
  <2>5. Encode(a) = e[k - 1] /\ Encode(b) = e[Len(b)]
    BY <1>2, <1>3, <2>1, <2>2
  <2>6. 1 \in 1..Len(Units(b[k]))
    BY <2>4
  <2>7. Len(e[k - 1]) + 1 <= Len(e[Len(b)])
    BY <2>3, <2>6
  <2>8. Len(e[k - 1]) \in Nat /\ Len(e[Len(b)]) \in Nat /\ DOMAIN e[k - 1] = 1..Len(e[k - 1])
    BY <2>3
  <2>9. Len(e[k - 1]) < Len(e[Len(b)])
    BY <2>7, <2>8
  <2>10. Below(e[k - 1], e[Len(b)])
    BY <2>3, <2>8, <2>9 DEF Below
  <2> QED BY <2>5, <2>10 DEF LessUTF16
<1>7. /\ DOMAIN Places(a) = 1..Len(a) /\ DOMAIN Places(b) = 1..Len(b)
      /\ Len(Places(a)) = Len(a) /\ Len(Places(b)) = Len(b)
      /\ \A k \in 1..Len(a) : Places(a)[k] = Place(a[k])
      /\ \A k \in 1..Len(b) : Places(b)[k] = Place(b[k])
  BY <1>1, PlacesType
<1>8. CASE \E k \in DOMAIN Places(a) \cap DOMAIN Places(b) :
             /\ Places(a)[k] < Places(b)[k]
             /\ \A j \in 1..(k - 1) : Places(a)[j] = Places(b)[j]
  <2>1. PICK k \in 1..Len(a) : 
             /\ k \in 1..Len(b) /\ Places(a)[k] < Places(b)[k]
             /\ \A j \in 1..(k - 1) : Places(a)[j] = Places(b)[j]
    BY <1>7, <1>8
  <2>2. \A j \in 1..(k - 1) : j \in 1..Len(a) /\ j \in 1..Len(b)
    BY <1>1, <2>1
  <2>3. Place(a[k]) < Place(b[k]) /\ \A j \in 1..(k - 1) : Place(a[j]) = Place(b[j])
    BY <1>7, <2>1, <2>2
  <2> QED BY <1>5, <2>1, <2>3
<1>9. CASE Len(Places(a)) < Len(Places(b)) /\ \A j \in DOMAIN Places(a) : Places(a)[j] = Places(b)[j]
  <2>1. \A j \in 1..Len(a) : j \in 1..Len(b)
    BY <1>1, <1>7, <1>9
  <2> QED BY <1>6, <1>7, <1>9, <2>1
<1> QED BY <1>8, <1>9 DEF Below

\* The code's comparison orders any two names, in the order of their places.
LEMMA OrderAgrees ==
  ASSUME NEW a \in Seq(Scalars), NEW b \in Seq(Scalars)
  PROVE  /\ LessUTF16(a, b) <=> Below(Places(a), Places(b))
         /\ a # b => Below(Places(a), Places(b)) \/ Below(Places(b), Places(a))
<1> DEFINE x == Places(a)
           y == Places(b)
<1>1. x \in Seq(Int) /\ y \in Seq(Int) /\ Encode(a) \in Seq(Int) /\ Encode(b) \in Seq(Int)
  <2>1. ASSUME NEW c \in Seq(Scalars) PROVE Encode(c) \in Seq(Int)
    <3>1. PICK e : JoinedBy(e, UnitSeqs(c), Len(c)) /\ Encode(c) = e[Len(c)]
      BY Encoded
    <3>2. Len(c) \in 0..Len(c)
      OBVIOUS
    <3> QED BY <3>1, <3>2 DEF JoinedBy
  <2> QED BY <2>1, PlacesType
<1>2. x = y => a = b
  <2>1. SUFFICES ASSUME x = y PROVE a = b
    OBVIOUS
  <2>2. Len(a) = Len(b) /\ DOMAIN a = DOMAIN b
    BY <2>1, PlacesType
  <2>3. \A k \in 1..Len(a) : a[k] \in Scalars /\ b[k] \in Scalars /\ Place(a[k]) = Place(b[k])
    BY <2>1, <2>2, PlacesType
  <2>4. \A k \in 1..Len(a) : a[k] = b[k]
    BY <2>3, PlaceInjective
  <2> QED BY <2>2, <2>4, SeqEqual
<1>3. a # b => Below(x, y) \/ Below(y, x)
  <2>1. SUFFICES ASSUME x # y PROVE Below(x, y) \/ Below(y, x)
    BY <1>2
  <2> HIDE DEF x, y
  <2>2. CASE Starts(x, y) \/ Starts(y, x)
    BY <2>2 DEF Starts, Below
  <2>3. CASE \E k : Parts(x, y, k)
    <3>1. PICK k : Parts(x, y, k)
      BY <2>3
    <3>2. k \in DOMAIN x \cap DOMAIN y /\ x[k] # y[k] /\ \A j \in 1..(k - 1) : x[j] = y[j]
      BY <3>1 DEF Parts
    <3>3. x[k] \in Int /\ y[k] \in Int
      BY <1>1, <3>2
    <3>4. x[k] < y[k] \/ y[k] < x[k]
      BY <3>2, <3>3
    <3> QED BY <3>2, <3>4 DEF Below
  <2> QED BY <1>1, <2>1, <2>2, <2>3, FirstDifference
<1>4. Below(x, y) => LessUTF16(a, b)
  BY PlaceDecides
<1>5. ASSUME LessUTF16(a, b) PROVE Below(x, y)
  <2>1. Below(Encode(a), Encode(b))
    BY <1>5 DEF LessUTF16
  <2>2. ~Below(Encode(b), Encode(a)) /\ Encode(a) # Encode(b)
    BY <1>1, <2>1, BelowStrict
  <2>3. ~Below(y, x)
    BY <2>2, PlaceDecides DEF LessUTF16
  <2> QED BY <1>3, <2>2, <2>3
<1> QED BY <1>3, <1>4, <1>5

-----------------------------------------------------------------------------
\* A set of places that has every place before one it has is an interval.
LEMMA DownClosed ==
  ASSUME NEW n \in Nat, NEW B \in SUBSET (1..n), \A k \in B : \A j \in 1..k : j \in B
  PROVE  Cardinality(B) \in 0..n /\ B = 1..Cardinality(B)
<1>1. CASE B = 1..n
  <2>1. Cardinality(1..n) = IF 1 > n THEN 0 ELSE n - 1 + 1
    BY FS_Interval
  <2>2. Cardinality(B) = n
    BY <1>1, <2>1
  <2> QED BY <1>1, <2>2
<1>2. CASE B # 1..n
  <2> DEFINE Rest == (1..n) \ B
  <2>1. PICK m \in Rest : \A k \in Rest : m <= k
    <3>1. Rest # {}
      BY <1>2
    <3>2. Rest \in SUBSET Nat
      OBVIOUS
    <3> HIDE DEF Rest
    <3> QED BY <3>1, <3>2, Least
  <2>2. m \in 1..n /\ m \notin B
    BY <2>1
  <2>3. \A k \in B : k < m
    BY <2>2
  <2>4. \A k \in 1..(m - 1) : k \in B
    <3>1. \A k \in 1..(m - 1) : k \in 1..n /\ ~(m <= k)
      BY <2>2
    <3> QED BY <2>1, <3>1
  <2>5. B = 1..(m - 1)
    <3>1. \A k \in B : k \in 1..(m - 1)
      BY <2>2, <2>3
    <3> QED BY <2>4, <3>1
  <2>6. Cardinality(1..(m - 1)) = IF 1 > m - 1 THEN 0 ELSE m - 1 - 1 + 1
    BY <2>2, FS_Interval
  <2>7. Cardinality(B) = m - 1
    BY <2>2, <2>5, <2>6
  <2> QED BY <2>2, <2>5, <2>7
<1> QED BY <1>1, <1>2

\* q is p and then r.
IsJoin(q, p, r) ==
  /\ Len(q) = Len(p) + Len(r)
  /\ \A j \in 1..Len(p) : q[j] = p[j]
  /\ \A i \in 1..Len(r) : q[Len(p) + i] = r[i]

\* What a concatenation has where.
LEMMA Joined ==
  ASSUME NEW S, NEW p \in Seq(S), NEW r \in Seq(S)
  PROVE  p \o r \in Seq(S) /\ IsJoin(p \o r, p, r)
<1>1. p \o r \in Seq(S) /\ Len(p \o r) = Len(p) + Len(r)
  OBVIOUS
<1>2. \A j \in 1..Len(p) : (p \o r)[j] = p[j]
  OBVIOUS
<1>3. \A i \in 1..Len(r) : (p \o r)[Len(p) + i] = r[i]
  OBVIOUS
<1> QED BY <1>1, <1>2, <1>3 DEF IsJoin

\* x after the first n of s.
InsertedAt(s, x, n) == SubSeq(s, 1, n) \o <<x>> \o SubSeq(s, n + 1, Len(s))

\* What stands where in a sequence after an insertion.
IsInsertion(t, s, x, n) ==
  /\ Len(t) = Len(s) + 1
  /\ \A j \in 1..n : t[j] = s[j]
  /\ t[n + 1] = x
  /\ \A j \in (n + 1)..Len(s) : t[j + 1] = s[j]

\* The two parts of the sequence with the new element between them.
LEMMA Inserted ==
  ASSUME NEW S, NEW s \in Seq(S), NEW x \in S, NEW n \in 0..Len(s)
  PROVE  InsertedAt(s, x, n) \in Seq(S) /\ IsInsertion(InsertedAt(s, x, n), s, x, n)
<1>0. PICK l \in Nat : l = Len(s) /\ n \in 0..l
  OBVIOUS
<1> USE <1>0
<1>1. \A i \in 1..l : s[i] \in S
  BY <1>0
<1>2. PICK p : p = SubSeq(s, 1, n)
  OBVIOUS
<1>3. p \in Seq(S) /\ Len(p) = n /\ \A i \in 1..n : p[i] = s[i]
  <2>1. \A i \in 1..n : s[i] \in S
    BY <1>1
  <2>2. /\ p \in Seq(S)
        /\ Len(p) = IF 1 <= n THEN n - 1 + 1 ELSE 0
        /\ \A i \in 1..(n - 1 + 1) : p[i] = s[1 + i - 1]
    BY <1>2, <2>1, SubSeqProperties
  <2>3. n - 1 + 1 = n /\ \A i \in 1..n : 1 + i - 1 = i
    OBVIOUS
  <2> QED BY <2>2, <2>3
<1>4. PICK r : r = SubSeq(s, n + 1, Len(s))
  OBVIOUS
<1>5. r \in Seq(S) /\ Len(r) = l - n /\ \A i \in 1..(l - n) : r[i] = s[n + i]
  <2>1. \A i \in (n + 1)..l : s[i] \in S
    BY <1>1
  <2>2. /\ r \in Seq(S)
        /\ Len(r) = IF n + 1 <= l THEN l - (n + 1) + 1 ELSE 0
        /\ \A i \in 1..(l - (n + 1) + 1) : r[i] = s[n + 1 + i - 1]
    BY <1>4, <2>1, SubSeqProperties
  <2>3. l - (n + 1) + 1 = l - n /\ \A i \in 1..(l - n) : n + 1 + i - 1 = n + i
    OBVIOUS
  <2>4. Len(r) = l - n
    BY <2>2
  <2>5. \A i \in 1..(l - n) : r[i] = s[n + i]
    BY <2>2, <2>3
  <2> QED BY <2>2, <2>4, <2>5
<1>6. PICK q : q = p \o <<x>>
  OBVIOUS
<1>7. /\ q \in Seq(S) /\ Len(q) = n + 1 /\ q[n + 1] = x
      /\ \A j \in 1..n : q[j] = s[j]
  <2>1. <<x>> \in Seq(S) /\ Len(<<x>>) = 1 /\ <<x>>[1] = x /\ n \in Nat
    OBVIOUS
  <2>2. /\ q \in Seq(S) /\ Len(q) = n + 1
        /\ \A j \in 1..n : q[j] = p[j]
        /\ \A i \in 1..1 : q[n + i] = <<x>>[i]
    <3>1. q \in Seq(S) /\ IsJoin(q, p, <<x>>)
      BY <1>3, <1>6, <2>1, Joined, Zenon
    <3> QED BY <1>3, <2>1, <3>1 DEF IsJoin
  <2>3. 1 \in 1..1
    OBVIOUS
  <2>4. q[n + 1] = x
    BY <2>1, <2>2, <2>3
  <2> QED BY <1>3, <2>2, <2>4
<1>8. PICK t : t = SubSeq(s, 1, n) \o <<x>> \o SubSeq(s, n + 1, Len(s))
  OBVIOUS
<1>9. t = q \o r
  BY <1>2, <1>4, <1>6, <1>8
<1>10. /\ t \in Seq(S) /\ Len(t) = l + 1
       /\ \A j \in 1..(n + 1) : t[j] = q[j]
       /\ \A i \in 1..(l - n) : t[n + 1 + i] = r[i]
  <2>1. n + 1 \in Nat /\ l - n \in Nat /\ n + 1 + (l - n) = l + 1
    OBVIOUS
  <2>2. /\ t \in Seq(S) /\ Len(t) = n + 1 + (l - n)
        /\ \A j \in 1..(n + 1) : t[j] = q[j]
        /\ \A i \in 1..(l - n) : t[n + 1 + i] = r[i]
    <3>1. t \in Seq(S) /\ IsJoin(t, q, r)
      BY <1>5, <1>7, <1>9, Joined, Zenon
    <3> QED BY <1>5, <1>7, <3>1 DEF IsJoin
  <2> QED BY <2>1, <2>2
<1>11. \A j \in 1..n : t[j] = s[j]
  <2>1. \A j \in 1..n : j \in 1..(n + 1)
    OBVIOUS
  <2> QED BY <1>7, <1>10, <2>1, Zenon
<1>12. t[n + 1] = x
  <2>1. n + 1 \in 1..(n + 1)
    OBVIOUS
  <2> QED BY <1>7, <1>10, <2>1
<1>13. ASSUME NEW j \in (n + 1)..l PROVE t[j + 1] = s[j]
  <2>1. PICK i \in 1..(l - n) : j = n + i /\ j + 1 = n + 1 + i
    <3>1. j - n \in 1..(l - n) /\ j = n + (j - n) /\ j + 1 = n + 1 + (j - n)
      OBVIOUS
    <3> QED BY <3>1
  <2>2. t[n + 1 + i] = r[i] /\ r[i] = s[n + i]
    BY <1>5, <1>10
  <2> QED BY <2>1, <2>2
<1>14. IsInsertion(t, s, x, n)
  BY <1>0, <1>10, <1>11, <1>12, <1>13 DEF IsInsertion
<1> QED BY <1>10, <1>14, <1>8, Zenon DEF InsertedAt

\* The names in order are in order, and those left are others.
SortInv ==
  /\ left \subseteq Seq(Scalars) /\ sorted \in Seq(Seq(Scalars))
  /\ \A k \in DOMAIN sorted : sorted[k] \notin left
  /\ OneCanonicalOrder

\* Insertion puts a name after all that are below it and before all that are above.
LEMMA InsertKeeps == SortInv /\ Insert => SortInv'
<1> SUFFICES ASSUME SortInv, Insert PROVE SortInv'
  OBVIOUS
<1> DEFINE Lt(a, b) == Below(Places(a), Places(b))
<1>1. /\ left \subseteq Seq(Scalars) /\ sorted \in Seq(Seq(Scalars))
      /\ Len(sorted) \in Nat /\ DOMAIN sorted = 1..Len(sorted)
      /\ \A k \in DOMAIN sorted : sorted[k] \in Seq(Scalars) /\ sorted[k] \notin left
      /\ \A m, n \in DOMAIN sorted : m < n => Lt(sorted[m], sorted[n])
  BY DEF SortInv, OneCanonicalOrder
<1>2. PICK x \in left :
        /\ left' = left \ {x}
        /\ LET before == {k \in DOMAIN sorted : ~LessUTF16(x, sorted[k])}
               n == Cardinality(before) IN
           sorted' = SubSeq(sorted, 1, n) \o <<x>> \o SubSeq(sorted, n + 1, Len(sorted))
  BY DEF Insert
<1> DEFINE B == {k \in DOMAIN sorted : ~LessUTF16(x, sorted[k])}
           n == Cardinality(B)
<1>3. x \in Seq(Scalars) /\ \A k \in DOMAIN sorted : x # sorted[k]
  BY <1>1
<1>4. \A a, b, c \in Seq(Scalars) : Lt(a, b) /\ Lt(b, c) => Lt(a, c)
  BY PlacesType, BelowTransitive
<1>5. \A k \in DOMAIN sorted : LessUTF16(x, sorted[k]) <=> Lt(x, sorted[k])
  BY <1>1, <1>3, OrderAgrees
<1>6. \A k \in DOMAIN sorted : Lt(x, sorted[k]) \/ Lt(sorted[k], x)
  BY <1>1, <1>3, OrderAgrees
<1> HIDE DEF Lt
<1>7. ASSUME NEW k \in B, NEW j \in 1..k PROVE j \in B
  <2>1. j \in DOMAIN sorted /\ k \in DOMAIN sorted /\ (j = k \/ j < k) /\ ~Lt(x, sorted[k])
    BY <1>1, <1>5
  <2>2. j < k => Lt(sorted[j], sorted[k])
    BY <1>1, <2>1
  <2>3. ~Lt(x, sorted[j])
    BY <1>1, <1>3, <1>4, <2>1, <2>2
  <2> QED BY <1>5, <2>1, <2>3
<1>8. n \in 0..Len(sorted) /\ B = 1..n
  <2>1. B \in SUBSET (1..Len(sorted))
    BY <1>1
  <2> HIDE DEF B
  <2> QED BY <1>1, <1>7, <2>1, DownClosed
<1>9. sorted' = SubSeq(sorted, 1, n) \o <<x>> \o SubSeq(sorted, n + 1, Len(sorted))
  BY <1>2
<1>10. \A k \in 1..n : k \in DOMAIN sorted /\ Lt(sorted[k], x)
  <2>1. \A k \in B : k \in DOMAIN sorted /\ Lt(sorted[k], x)
    BY <1>5, <1>6
  <2> HIDE DEF B, n
  <2> QED BY <1>8, <2>1
<1>11. \A k \in (n + 1)..Len(sorted) : k \in DOMAIN sorted /\ Lt(x, sorted[k])
  <2>1. \A k \in DOMAIN sorted : k \notin B => Lt(x, sorted[k])
    BY <1>5
  <2> HIDE DEF B, n
  <2>2. \A k \in (n + 1)..Len(sorted) : k \in 1..Len(sorted) /\ k \notin 1..n
    BY <1>1, <1>8
  <2> QED BY <1>1, <1>8, <2>1, <2>2
<1> HIDE DEF B, n
<1>12. PICK t : t = sorted'
  OBVIOUS
<1>13. t \in Seq(Seq(Scalars)) /\ IsInsertion(t, sorted, x, n)
  <2>1. sorted \in Seq(Seq(Scalars)) /\ x \in Seq(Scalars) /\ n \in 0..Len(sorted)
    BY <1>1, <1>3, <1>8
  <2>2. t = InsertedAt(sorted, x, n)
    BY <1>9, <1>12, Zenon DEF InsertedAt
  <2>3. /\ InsertedAt(sorted, x, n) \in Seq(Seq(Scalars))
        /\ IsInsertion(InsertedAt(sorted, x, n), sorted, x, n)
    BY <2>1, Inserted, Zenon
  <2> QED BY <2>2, <2>3, Zenon
<1>14. /\ Len(t) = Len(sorted) + 1
       /\ \A j \in 1..n : t[j] = sorted[j]
       /\ t[n + 1] = x
       /\ \A j \in (n + 1)..Len(sorted) : t[j + 1] = sorted[j]
  BY <1>13 DEF IsInsertion
<1>15. DOMAIN t = 1..(Len(sorted) + 1)
  BY <1>13, <1>14
<1>16. ASSUME NEW j \in DOMAIN t
       PROVE  \/ j \in 1..n /\ t[j] = sorted[j]
              \/ j = n + 1 /\ t[j] = x
              \/ j - 1 \in (n + 1)..Len(sorted) /\ t[j] = sorted[j - 1]
  <2>1. j \in 1..n \/ j = n + 1 \/ j - 1 \in (n + 1)..Len(sorted)
    BY <1>1, <1>8, <1>15
  <2>2. ASSUME j - 1 \in (n + 1)..Len(sorted) PROVE t[j] = sorted[j - 1]
    <3>1. j - 1 + 1 = j
      BY <1>15
    <3> QED BY <1>14, <2>2, <3>1
  <2> QED BY <1>14, <2>1, <2>2
<1>17. \A j \in DOMAIN t : t[j] \notin left'
  BY <1>1, <1>2, <1>8, <1>10, <1>11, <1>16
<1>18. ASSUME NEW i \in DOMAIN t, NEW j \in DOMAIN t, i < j PROVE Lt(t[i], t[j])
  <2>0. i \in Nat /\ j \in Nat /\ n \in Nat
    BY <1>8, <1>15
  <2>1. CASE j \in 1..n
    <3>1. i \in 1..n /\ t[i] = sorted[i] /\ t[j] = sorted[j]
      BY <1>13, <1>14, <1>18, <2>0, <1>15, <2>1
    <3> QED BY <1>1, <1>10, <1>18, <2>1, <3>1
  <2>2. CASE j = n + 1
    <3>1. i \in 1..n /\ t[i] = sorted[i] /\ t[j] = x
      BY <1>13, <1>14, <1>18, <2>0, <1>15, <2>2
    <3> QED BY <1>10, <3>1
  <2>3. CASE j - 1 \in (n + 1)..Len(sorted) /\ t[j] = sorted[j - 1]
    <3>1. j - 1 \in DOMAIN sorted /\ Lt(x, sorted[j - 1])
      BY <1>11, <2>3
    <3>2. CASE i \in 1..n /\ t[i] = sorted[i]
      <4>1. i \in DOMAIN sorted /\ i < j - 1
        BY <1>10, <2>0, <2>3, <3>2
      <4> QED BY <1>1, <2>3, <3>1, <3>2, <4>1
    <3>3. CASE i = n + 1 /\ t[i] = x
      BY <2>3, <3>1, <3>3
    <3>4. CASE i - 1 \in (n + 1)..Len(sorted) /\ t[i] = sorted[i - 1]
      <4>1. i - 1 \in DOMAIN sorted /\ i - 1 < j - 1
        BY <1>11, <1>18, <2>0, <3>4
      <4> QED BY <1>1, <2>3, <3>1, <3>4, <4>1
    <3> QED BY <1>16, <3>2, <3>3, <3>4
  <2> QED BY <1>16, <2>1, <2>2, <2>3
<1>19. \A i, j \in DOMAIN sorted' : i < j => Below(Places(sorted'[i]), Places(sorted'[j]))
  BY <1>18, <1>12 DEF Lt
<1>20. OneCanonicalOrder'
  BY <1>19 DEF OneCanonicalOrder
<1>21. left' \subseteq Seq(Scalars)
  BY <1>1, <1>2
<1> QED BY <1>13, <1>14, <1>17, <1>20, <1>21, <1>12 DEF SortInv

\* The members of an object are written in the order of RFC 8785, whatever order the
\* map gave them in (writeCanonical, lessUTF16).
THEOREM TheOrderIsCanonical == TextSpec => []OneCanonicalOrder
<1>1. TextInit => SortInv
  <2> SUFFICES ASSUME TextInit PROVE SortInv
    OBVIOUS
  <2>1. sorted = <<>> /\ left \in NameSets
    BY DEF TextInit, NothingRead
  <2>2. \A name \in left : name \in Seq(Scalars)
    <3> SUFFICES ASSUME NEW name \in left PROVE name \in Seq(Scalars)
      OBVIOUS
    <3>1. name \in Seq(0..MaxRune) /\ \A k \in DOMAIN name : Scalar(name[k])
      BY <2>1, TextsAssumption, Zenon
    <3>2. \A k \in DOMAIN name : name[k] \in 0..MaxRune
      <4>1. \A S : name \in Seq(S) => \A k \in DOMAIN name : name[k] \in S
        OBVIOUS
      <4> QED BY <3>1, <4>1, Zenon
    <3>3. \A k \in DOMAIN name : name[k] \in Scalars
      BY <3>1, <3>2, Zenon DEF Scalars
    <3>4. \A S : name \in Seq(S) /\ (\A k \in DOMAIN name : name[k] \in Scalars)
                   => name \in Seq(Scalars)
      OBVIOUS
    <3> QED BY <3>1, <3>3, <3>4, Zenon
  <2> QED BY <2>1, <2>2 DEF SortInv, OneCanonicalOrder
<1>2. SortInv /\ [TextNext]_textVars => SortInv'
  <2> SUFFICES ASSUME SortInv, [TextNext]_textVars PROVE SortInv'
    OBVIOUS
  <2>1. CASE Insert
    BY <2>1, InsertKeeps
  <2>2. CASE UNCHANGED nameVars
    BY <2>2 DEF nameVars, SortInv, OneCanonicalOrder
  <2>3. CASE CheckSurrogates
    <3>1. UNCHANGED nameVars
      BY <2>3 DEF CheckSurrogates, Scanned, Refused, Toggle, Skip, ShortEscape,
                  UnicodeEscape, SurrogatePair
    <3> QED BY <2>2, <3>1
  <2>4. CASE UNCHANGED textVars
    BY <2>2, <2>4 DEF textVars
  <2> QED BY <2>1, <2>3, <2>4 DEF TextNext
<1>3. SortInv => OneCanonicalOrder
  BY DEF SortInv
<1> QED BY <1>1, <1>2, <1>3, PTL DEF TextSpec
=============================================================================
