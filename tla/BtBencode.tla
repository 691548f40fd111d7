------------------------------ MODULE BtBencode ------------------------------
(***************************************************************************)
(* The bencode codec (src/src/BtBencode.cpp, src/include/BtBencode.h) and  *)
(* the search for the "info" section (src/src/BtTracker.cpp).              *)
(*                                                                         *)
(* A value is a pair of its QVariant type and what it holds: <<"int", n>>, *)
(* <<"str", bytes>>, <<"list", sequence>>, <<"dict", map>>; a map has a    *)
(* value, or Absent, for each of the keys.                                 *)
(*                                                                         *)
(* The behaviours encode a value, lose bytes at its end, decode what is    *)
(* left and encode the outcome again.                                      *)
(***************************************************************************)
EXTENDS ByteStrings

CONSTANTS
  KeyOrder,      \* the keys, in the order of QMap
  Depth,         \* bound: how deep values are nested
  Values,        \* the values encoded
  MaxCut         \* bound: how many bytes may be lost

Keys == {KeyOrder[j] : j \in DOMAIN KeyOrder}

Absent == <<"absent">>

Maps(S) == [Keys -> S \cup {Absent}]

Scalars == ({"int"} \X Int) \cup ({"str"} \X ByteArray)

\* the values that are nested at most n deep
Tree[n \in 0..Depth] ==
  IF n = 0 THEN Scalars
  ELSE Tree[n - 1] \cup ({"list"} \X Seq(Tree[n - 1])) \cup ({"dict"} \X Maps(Tree[n - 1]))

ASSUME ValuesAssumption ==
  /\ Depth \in Nat
  /\ KeyOrder \in Seq(ByteArray)
  /\ \A j, k \in DOMAIN KeyOrder : KeyOrder[j] = KeyOrder[k] => j = k
  /\ Values \subseteq Tree[Depth]
  /\ MaxCut \in Nat

VARIABLES
  source,        \* the value
  doc,           \* its encoding, or what is left of it
  read,          \* what the decoder made of doc
  again,         \* the encoding of that
  stage          \* "value", "encoded", "decoded" or "encoded again"

vars == <<source, doc, read, again, stage>>

-----------------------------------------------------------------------------
(* Encoding *)

EncodeInteger(n) == <<"i">> \o number(n) \o <<"e">>

EncodeString(s) == number(Len(s)) \o <<":">> \o s

\* a byte string that looks like a number is encoded as one
EncodeScalar(v) ==
  IF v[1] = "int" THEN EncodeInteger(v[2])
  ELSE IF IsNumeral(v[2]) THEN EncodeInteger(toInt(v[2])) ELSE EncodeString(v[2])

EncodeList(parts) == <<"l">> \o Join(parts) \o <<"e">>

EncodeMap(entries) ==
  <<"d">> \o Join([j \in DOMAIN KeyOrder |-> entries[KeyOrder[j]]]) \o <<"e">>

\* the encoders of values that are nested at most n deep
Encoder[n \in 0..Depth] ==
  [v \in Tree[n] |->
     CASE v[1] = "list" ->
            EncodeList([j \in DOMAIN v[2] |-> Encoder[n - 1][v[2][j]]])
       [] v[1] = "dict" ->
            EncodeMap([k \in Keys |->
                         IF v[2][k] = Absent THEN <<>>
                         ELSE EncodeString(k) \o Encoder[n - 1][v[2][k]]])
       [] OTHER -> EncodeScalar(v)]

Encode(v) == Encoder[Depth][v]

-----------------------------------------------------------------------------
(* Decoding *)

\* A decoder fills its result as it goes: the caller sees that part also when
\* an exception is thrown.
Returned(v) == [throws |-> FALSE, val |-> v]
Thrown(v) == [throws |-> TRUE, val |-> v]

\* mutant: the end is counted with the digits
DecodeInteger_LosesDigit(data) ==
  IF At(data, 0) # "i" \/ At(data, Len(data) - 1) # "e" THEN Thrown(<<>>)
  ELSE Returned(mid(data, 1, Len(data) - 3))

DecodeInteger(data) ==
  IF At(data, 0) # "i" \/ At(data, Len(data) - 1) # "e" THEN Thrown(<<>>)
  ELSE Returned(mid(data, 1, Len(data) - 2))

\* (mutant: a string that is too short passes)
DecodeString_TakesShort(data) ==
  LET colonPos == indexOf(data, ":", 0)
      ret == mid(data, colonPos + 1, -1)
  IN  IF toInt(mid(data, 0, colonPos)) < Len(ret) THEN Thrown(ret) ELSE Returned(ret)

DecodeString(data) ==
  LET colonPos == indexOf(data, ":", 0)
      ret == mid(data, colonPos + 1, -1)
  IN  IF toInt(mid(data, 0, colonPos)) # Len(ret) THEN Thrown(ret) ELSE Returned(ret)

\* the position behind the string or integer at pos, or -1, and its contents
pickAndDecode(data, pos) ==
  LET last == IF At(data, pos) = "i"
              THEN indexOf(data, "e", pos)
              ELSE LET colonPos == indexOf(data, ":", pos)
                   IN  colonPos + toInt(mid(data, pos, colonPos - pos))
      picked == IF At(data, pos) = "i"
                THEN DecodeInteger(mid(data, pos, last - pos + 1))
                ELSE DecodeString(mid(data, pos, last - pos + 1))
  IN  IF pos > Len(data) - 1 \/ At(data, pos) \in {"l", "d"} \/ picked.throws
      THEN [next |-> -1, contents |-> <<>>]
      ELSE [next |-> last + 1, contents |-> picked.val]

\* one round of the loop in getLastE; eN counts what is open, lastEPos is the
\* last marker or end of a string
LastERound(data, s) ==
  LET p == s.ePos + 1
      behind == p + toInt(mid(data, s.lastEPos + 1, p - s.lastEPos - 1))
  IN  IF s.eN = 0 \/ s.ePos >= Len(data) THEN s
      ELSE CASE At(data, p) = ":" -> [eN |-> s.eN, ePos |-> behind, lastEPos |-> behind]
             [] At(data, p) = "e" -> [eN |-> s.eN - 1, ePos |-> p, lastEPos |-> p]
             [] At(data, p) \in {"i", "l", "d"} -> [eN |-> s.eN + 1, ePos |-> p, lastEPos |-> p]
             [] OTHER -> [s EXCEPT !.ePos = p]

\* (mutant: nesting and strings are not looked at)
getLastE_First(data, pos) == indexOf(data, "e", pos)

\* The 'e' that closes the list or dictionary at pos, or -1.  There are no more
\* rounds than bytes, since each one moves on; it may not where the length of
\* a string is negative, and such a scan, which need not end, finds nothing
\* here.
getLastE(data, pos) ==
  LET Scan[n \in 0..Len(data)] ==
        IF n = 0 THEN [eN |-> 1, ePos |-> pos, lastEPos |-> pos]
        ELSE LastERound(data, Scan[n - 1])
      end == Scan[Len(data)]
  IN  IF end.eN # 0 \/ end.ePos >= Len(data) THEN -1 ELSE end.ePos

Scalar(data, pos, contents) ==
  IF At(data, pos) = "i" THEN <<"int", toInt(contents)>> ELSE <<"str", contents>>

\* what a nested failure does to the container around it: a list ends it
\* where it stands, a dictionary is left out; neither is reported
GivesUp(data, pos) == At(data, pos) = "l"

\* Where a decoder's loop is: the next position, what it has so far, and
\* whether it goes on.
Loop(pos, ret, state) == [pos |-> pos, ret |-> ret, state |-> state]

\* The end of a round.  The loops continue behind each element until only the
\* closing 'e' is left.
GoOn(data, next, ret) == Loop(next, ret, IF next >= Len(data) - 1 THEN "returned" ELSE "reads")

\* The element or value at pos: what is added to the result (nothing, one
\* value), and how the round ends.  inner decodes what is nested.
Element(data, pos, inner) ==
  LET picked == pickAndDecode(data, pos)
      ePos == getLastE(data, pos)
      nested == inner[mid(data, pos, ePos - pos + 1)]
      Outcome(vals, next, ends) == [vals |-> vals, next |-> next, ends |-> ends]
  IN  IF picked.next # -1 THEN Outcome(<<Scalar(data, pos, picked.contents)>>, picked.next, "goes on")
      ELSE IF At(data, pos) \notin {"l", "d"} \/ ePos = -1 THEN Outcome(<<>>, pos, "threw")
      ELSE IF ~nested.throws THEN Outcome(<<nested.val>>, ePos + 1, "goes on")
      ELSE IF GivesUp(data, pos) THEN Outcome(<<>>, pos, "returned")
      ELSE Outcome(<<>>, ePos + 1, "goes on")

ListRound(data, inner, s) ==
  LET found == Element(data, s.pos, inner)
  IN  IF s.state # "reads" THEN s
      ELSE IF found.ends = "goes on" THEN GoOn(data, found.next, s.ret \o found.vals)
      ELSE Loop(s.pos, s.ret, found.ends)

EmptyMap == [k \in Keys |-> Absent]

DictionaryRound(data, inner, s) ==
  LET key == pickAndDecode(data, s.pos)
      found == Element(data, key.next, inner)
      ret == IF found.vals = <<>> THEN s.ret ELSE [s.ret EXCEPT ![key.contents] = found.vals[1]]
  IN  IF s.state # "reads" THEN s
      ELSE IF key.next = -1 \/ key.next >= Len(data) - 1 THEN Loop(s.pos, s.ret, "threw")
      ELSE IF found.ends = "goes on" THEN GoOn(data, found.next, ret)
      ELSE Loop(s.pos, s.ret, found.ends)

\* what the caller of a decoder sees of its loop
Seen(type, s) == [throws |-> s.state = "threw", val |-> <<type, s.ret>>]

DecodeList(data, inner) ==
  LET Rounds[n \in 0..Len(data)] ==
        IF n = 0 THEN Loop(1, <<>>, "reads") ELSE ListRound(data, inner, Rounds[n - 1])
  IN  IF At(data, 0) # "l" \/ At(data, Len(data) - 1) # "e" THEN Thrown(<<"list", <<>>>>)
      ELSE Seen("list", Rounds[Len(data)])

DecodeDictionary(data, inner) ==
  LET Rounds[n \in 0..Len(data)] ==
        IF n = 0 THEN Loop(1, EmptyMap, "reads") ELSE DictionaryRound(data, inner, Rounds[n - 1])
  IN  IF At(data, 0) # "d" \/ At(data, Len(data) - 1) # "e" THEN Thrown(<<"dict", EmptyMap>>)
      ELSE Seen("dict", Rounds[Len(data)])

\* The decoder of lists and dictionaries, called at most n levels deep: what
\* is nested in data is shorter than data.
DecodeContainer(data) ==
  LET Decoder[n \in 0..Len(data)] ==
        [part \in ByteArray |->
           IF n = 0 THEN Thrown(<<>>)
           ELSE IF At(part, 0) = "l" THEN DecodeList(part, Decoder[n - 1])
           ELSE DecodeDictionary(part, Decoder[n - 1])]
  IN  Decoder[Len(data)][data]

\* BtDecode leaves a lone integer as the bytes of its numeral
BtDecode(data) ==
  CASE At(data, 0) \in {"l", "d"} -> DecodeContainer(data)
    [] At(data, 0) = "i" ->
         LET r == DecodeInteger(data) IN [r EXCEPT !.val = <<"str", @>>]
    [] OTHER ->
         LET r == DecodeString(data) IN [r EXCEPT !.val = <<"str", @>>]

Info == <<"i", "n", "f", "o">>

InfoMarker == <<"4", ":">> \o Info \o <<"d">>

\* (mutant: the search starts behind the first key's length)
infoInMetadata_SkipsFirst(data) ==
  LET infoIdx == indexOfText(data, InfoMarker, 2) + 6
  IN  IF infoIdx = 5 THEN <<>> ELSE mid(data, infoIdx, getLastE(data, infoIdx) - infoIdx + 1)

\* the bytes torrentInfoHash digests; none when the marker is not found
infoInMetadata(data) ==
  LET infoIdx == indexOfText(data, InfoMarker, 0) + 6
  IN  IF infoIdx = 5 THEN <<>> ELSE mid(data, infoIdx, getLastE(data, infoIdx) - infoIdx + 1)

-----------------------------------------------------------------------------
Init ==
  /\ source \in Values
  /\ doc = <<>> /\ again = <<>>
  /\ read = Returned(<<"none">>)
  /\ stage = "value"

EncodeSource ==
  /\ stage = "value"
  /\ doc' = Encode(source)
  /\ stage' = "encoded"
  /\ UNCHANGED <<source, read, again>>

\* a file or a reply that was not transferred to its end
LoseLastByte ==
  /\ stage = "encoded"
  /\ Len(doc) > 1
  /\ Len(doc) > Len(Encode(source)) - MaxCut
  /\ doc' = mid(doc, 0, Len(doc) - 1)
  /\ UNCHANGED <<source, read, again, stage>>

DecodeDoc ==
  /\ stage = "encoded"
  /\ read' = BtDecode(doc)
  /\ stage' = "decoded"
  /\ UNCHANGED <<source, doc, again>>

EncodeAgain ==
  /\ stage = "decoded"
  /\ again' = Encode(read.val)
  /\ stage' = "encoded again"
  /\ UNCHANGED <<source, doc, read>>

Next == EncodeSource \/ LoseLastByte \/ DecodeDoc \/ EncodeAgain

Spec == Init /\ [][Next]_vars

-----------------------------------------------------------------------------
(* Properties *)

IsDecoded == stage \in {"decoded", "encoded again"}
IsComplete == doc = Encode(source)

\* the values nested at most n deep that have no empty list or dictionary
Solid[n \in 0..Depth] ==
  IF n = 0 THEN Scalars
  ELSE Solid[n - 1] \cup ({"list"} \X (Seq(Solid[n - 1]) \ {<<>>}))
         \cup ({"dict"} \X (Maps(Solid[n - 1]) \ {EmptyMap}))

HasEmpty(v) == v \notin Solid[Depth]

\* byte strings that look like numbers become numbers (BtBencode.h:49-54)
NormalScalar(v) ==
  IF v[1] = "str" /\ IsNumeral(v[2]) THEN <<"int", toInt(v[2])>> ELSE v

Normalizer[n \in 0..Depth] ==
  [v \in Tree[n] |->
     IF v[1] \in {"list", "dict"}
     THEN <<v[1], [k \in DOMAIN v[2] |->
                     IF v[2][k] = Absent THEN Absent ELSE Normalizer[n - 1][v[2][k]]]>>
     ELSE NormalScalar(v)]

Normal(v) == Normalizer[Depth][v]

\* v is w with entries, or elements, left out, and the others in the relation
\* part
SomeEntries(v, w, part) ==
  \A k \in Keys : v[k] = Absent \/ (w[k] # Absent /\ part[w[k]][v[k]])

SomeElements(v, w, part) ==
  \E kept \in [DOMAIN v -> DOMAIN w] :
    /\ \A j, k \in DOMAIN kept : j < k => kept[j] < kept[k]
    /\ \A k \in DOMAIN kept : part[w[kept[k]]][v[k]]

Parts[n \in 0..Depth] ==
  [w \in Tree[n] |-> [v \in Tree[n] |->
     /\ v[1] = w[1]
     /\ v[1] = "dict" => SomeEntries(v[2], w[2], Parts[n - 1])
     /\ v[1] = "list" => SomeElements(v[2], w[2], Parts[n - 1])
     /\ v[1] \notin {"list", "dict"} => v = w]]

IsPart(v, w) == Parts[Depth][w][v]

IsContainer(v) == v[1] \in {"list", "dict"}

\* A value without empty containers comes back as it was, numerals apart,
\* however deep it is nested and whatever letters its strings are made of.
RoundTrip ==
  (IsDecoded /\ IsComplete /\ IsContainer(source) /\ ~HasEmpty(source)) =>
    read = Returned(Normal(source))

\* What was decoded from an encoding is encoded to the same bytes, so that
\* digests of the bytes survive.
ReencodingIsStable ==
  (stage = "encoded again" /\ IsComplete /\ ~HasEmpty(source)) => again = doc

\* When the end of a container is lost, what the caller is left with, with or
\* without an exception, is a number of its leading entries, each one whole.
CutLeavesLeadingEntries ==
  (IsDecoded /\ IsContainer(source) /\ ~HasEmpty(source)) =>
    LET whole == Normal(source)[2] IN
    IF source[1] = "list"
    THEN \E n \in 0..Len(whole) : read.val = <<"list", SubSeq(whole, 1, n)>>
    ELSE \E n \in 0..Len(KeyOrder) :
           LET keys == {KeyOrder[j] : j \in 1..n}
           IN  read.val = <<"dict", [k \in Keys |-> IF k \in keys THEN whole[k] ELSE Absent]>>

\* The decoder never shows anything that was not encoded, whatever it gives
\* up on the way.
NothingInvented ==
  (IsDecoded /\ IsContainer(source)) => IsPart(read.val, Normal(source))

\* Where the decoder returns an "info" dictionary, torrentInfoHash finds a
\* section to digest.
InfoSectionFound ==
  (IsDecoded /\ ~read.throws /\ read.val[1] = "dict") =>
    ((Info \in Keys /\ read.val[2][Info][1] = "dict") =>
       infoInMetadata(doc) # <<>>)

=============================================================================
