------------------------------ MODULE JsonText ------------------------------
(***************************************************************************)
(* Text beneath JSON values: the scan for unpaired surrogates that must    *)
(* come before any decoding (jsoncheck.checkSurrogates), one action per    *)
(* turn of its loop; and the order of member names in the canonical form   *)
(* that is hashed and signed (audit, writeCanonical and lessUTF16).        *)
(*                                                                         *)
(* A text is a sequence of characters, in which "b" stands for a backslash *)
(* and "q" for a quote; a name is a sequence of code points.               *)
(***************************************************************************)
EXTENDS Integers, SequencesExt

CONSTANTS
  Texts,   \* the texts that may be scanned
  NameSets \* the sets of names an object may have

MaxRune == 1114111
Scalar(c) == c < 55296 \/ c > 57343  \* no surrogate

ASSUME TextsAssumption ==
  /\ Texts \subseteq Seq(STRING)
  /\ \A names \in NameSets : \A name \in names :
       name \in Seq(0..MaxRune) /\ \A k \in DOMAIN name : Scalar(name[k])

VARIABLES
  raw, pos, inString,  \* the text, the loop's index (from 0) and its flag
  verdict,           \* "scanning", "accepted" or "refused"
  left, sorted       \* the member names not yet and already in order

scanVars == <<raw, pos, inString, verdict>>
nameVars == <<left, sorted>>
textVars == <<scanVars, nameVars>>

NothingRead ==
  pos = 0 /\ inString = FALSE /\ verdict = "scanning" /\ sorted = <<>>
TextInit == raw \in Texts /\ left \in NameSets /\ NothingRead

-----------------------------------------------------------------------------
Char(k) == raw[k + 1]
InText(k) == k < Len(raw)

Digits == [d \in {"0", "4", "8", "c", "d", "f"} |->
             CASE d = "0" -> 0 [] d = "4" -> 4 [] d = "8" -> 8
               [] d = "c" -> 12 [] d = "d" -> 13 [] d = "f" -> 15]
IsHex4(k) == InText(k + 3) /\ \A d \in k..(k + 3) : Char(d) \in DOMAIN Digits
Hex4(k) == 4096 * Digits[Char(k)] + 256 * Digits[Char(k + 1)]
             + 16 * Digits[Char(k + 2)] + Digits[Char(k + 3)]
High == 55296..56319  \* 0xd800..0xdbff
Low == 56320..57343   \* 0xdc00..0xdfff

Scanned(next, v) == pos' = next /\ verdict' = v /\ UNCHANGED <<raw, inString, nameVars>>
Refused == Scanned(pos, "refused")

Toggle ==
  /\ Char(pos) = "q" /\ inString' = ~inString /\ pos' = pos + 1
  /\ UNCHANGED <<raw, verdict, nameVars>>

\* A backslash that ends the text is the decoder's to refuse.
Skip ==
  /\ Char(pos) # "q" /\ (~inString \/ Char(pos) # "b" \/ ~InText(pos + 1))
  /\ Scanned(pos + 1, verdict)

EscapeAt(k) == inString /\ Char(k) = "b" /\ InText(k + 1)

ShortEscape == EscapeAt(pos) /\ Char(pos + 1) # "u" /\ Scanned(pos + 2, verdict)

\* Fault: the index moves past the first of a pair only.
AfterPair_Half == pos + 6
AfterPair == pos + 12

LowFollows ==
  /\ IsHex4(pos + 8) /\ Char(pos + 6) = "b" /\ Char(pos + 7) = "u"
  /\ Hex4(pos + 8) \in Low
SurrogatePair ==
  \/ LowFollows /\ Scanned(AfterPair, verdict)
  \/ ~LowFollows /\ Refused

UnicodeEscape ==
  /\ EscapeAt(pos) /\ Char(pos + 1) = "u"
  /\ \/ ~IsHex4(pos + 2) /\ Refused
     \/ /\ IsHex4(pos + 2)
        /\ \/ Hex4(pos + 2) \in High /\ SurrogatePair
           \/ Hex4(pos + 2) \in Low /\ Refused
           \/ Hex4(pos + 2) \notin High \cup Low /\ Scanned(pos + 6, verdict)

CheckSurrogates ==
  /\ verdict = "scanning"
  /\ \/ ~InText(pos) /\ Scanned(pos, "accepted")
     \/ InText(pos) /\ (Toggle \/ Skip \/ ShortEscape \/ UnicodeEscape)

-----------------------------------------------------------------------------
\* utf16.Encode: one unit, or a high and a low one beyond the basic plane.
Units(c) ==
  IF c < 65536 THEN <<c>>
  ELSE <<55296 + (c - 65536) \div 1024, 56320 + ((c - 65536) % 1024)>>
Encode(name) == FlattenSeq([k \in DOMAIN name |-> Units(name[k])])

Below(a, b) ==
  \/ \E k \in DOMAIN a \cap DOMAIN b :
       a[k] < b[k] /\ \A j \in 1..(k - 1) : a[j] = b[j]
  \/ Len(a) < Len(b) /\ \A j \in DOMAIN a : a[j] = b[j]

\* Fault: code points instead of UTF-16 units.
LessUTF16_Runes(a, b) == Below(a, b)
LessUTF16(a, b) == Below(Encode(a), Encode(b))

\* writeCanonical: names leave the Go map in any order and are put in order.
Insert ==
  /\ \E name \in left :
       /\ left' = left \ {name}
       /\ LET before == {k \in DOMAIN sorted : ~LessUTF16(name, sorted[k])}
              n == Cardinality(before) IN
          sorted' = SubSeq(sorted, 1, n) \o <<name>> \o SubSeq(sorted, n + 1, Len(sorted))
  /\ UNCHANGED scanVars

TextNext == CheckSurrogates \/ Insert

TextSpec == TextInit /\ [][TextNext]_textVars

-----------------------------------------------------------------------------
\* Where an escape starts: inside a string, after an even run of backslashes.
Slashes(k) == Cardinality({j \in 0..(k - 1) : \A m \in j..(k - 1) : Char(m) = "b"})
Even(n) == n % 2 = 0
Inside(k) ==
  ~Even(Cardinality({j \in 0..(k - 1) : Char(j) = "q" /\ Even(Slashes(j))}))
Escapes == {k \in 0..(Len(raw) - 2) :
              Inside(k) /\ Char(k) = "b" /\ Char(k + 1) = "u" /\ Even(Slashes(k))}
Is(k, half) == k \in Escapes /\ IsHex4(k + 2) /\ Hex4(k + 2) \in half

\* Outside strings JSON has no backslash, and where it has one the decoder that
\* follows refuses the text.
Quoted == \A k \in 0..(Len(raw) - 1) : Char(k) = "b" => Inside(k)

\* Text passes the scan if and only if each of its \u escapes is four digits, a
\* high surrogate being followed at once by a low one and a low one preceded by a
\* high one: whatever escapes, quotes and backslashes stand around it.
ScanIsExact ==
  Quoted /\ verdict # "scanning" =>
    (verdict = "accepted" <=>
       \A k \in Escapes :
         /\ IsHex4(k + 2)
         /\ Is(k, High) => Is(k + 6, Low)
         /\ Is(k, Low) => Is(k - 6, High))

\* A point's place in the order of UTF-16: beyond the basic plane comes before
\* what follows the surrogates in it.
Place(c) == IF c >= 65536 THEN c - 8192 ELSE IF c >= 57344 THEN c + 1048576 ELSE c
Places(name) == [k \in DOMAIN name |-> Place(name[k])]

\* The members of an object are sealed in one order, the one of RFC 8785, in
\* whichever order the map gave them: the same object always has the same digest.
OneCanonicalOrder ==
  \A m, n \in DOMAIN sorted : m < n => Below(Places(sorted[m]), Places(sorted[n]))
=============================================================================
