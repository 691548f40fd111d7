------------------------ MODULE TrackerContactProofs ------------------------
(***************************************************************************)
(* What start leaves behind for any replies of the tracker, cut anywhere,  *)
(* and any number of announces.                                            *)
(***************************************************************************)
EXTENDS TrackerContact, SequenceTheorems, WellFoundedInduction, TLAPS

AllEntries == UNION {{body[n] : n \in DOMAIN body} : body \in Bodies}

Tokens == AllEntries \cup {Headers, BlankLine, End}

\* A body is a sequence of entries, whose keys are those of the description.
LEMMA BodyType ==
  ASSUME NEW body \in Bodies
  PROVE  /\ body \in Seq(Tokens)
         /\ Len(body) \in Nat
         /\ DOMAIN body = 1..Len(body)
         /\ \A n \in 1..Len(body) : body[n].key \in Keys
<1> DEFINE S == {body[n] : n \in DOMAIN body}
<1>1. body \in Seq(S)
  BY BodiesAssumption
<1>2. S \subseteq Tokens
  BY DEF Tokens, AllEntries
<1>3. body \in Seq(Tokens)
  <2> HIDE DEF S
  <2> QED
    BY <1>1, <1>2
<1> QED
  BY <1>3, LenProperties, BodiesAssumption

\* The end of the dictionary is no entry of it.
LEMMA KeyFacts ==
  /\ Headers.key \notin Keys /\ BlankLine.key \notin Keys /\ End.key \notin Keys
  /\ NoToken.key \notin Keys
  /\ Headers.key # "end" /\ BlankLine.key # "end" /\ End.key = "end"
  /\ "end" \notin Keys
BY DEF Headers, BlankLine, End, NoToken, Token, Keys, NumberKeys, TextKeys

\* A sequence with two elements in front and one behind it.
LEMMA Enclosed ==
  ASSUME NEW S, NEW a \in S, NEW b \in S, NEW c \in S, NEW s \in Seq(S)
  PROVE  /\ (<<a, b>> \o s) \o <<c>> \in Seq(S)
         /\ Len((<<a, b>> \o s) \o <<c>>) = Len(s) + 3
         /\ \A n \in 1..(Len(s) + 3) :
              ((<<a, b>> \o s) \o <<c>>)[n] =
                IF n = 1 THEN a ELSE IF n = 2 THEN b
                ELSE IF n = Len(s) + 3 THEN c ELSE s[n - 2]
<1>1. Len(s) \in Nat
  BY LenProperties
<1>2. <<a, b>> \in Seq(S) /\ Len(<<a, b>>) = 2 /\ <<a, b>>[1] = a /\ <<a, b>>[2] = b
  OBVIOUS
<1>3. <<c>> \in Seq(S) /\ Len(<<c>>) = 1 /\ <<c>>[1] = c
  OBVIOUS
<1>4. PICK front \in Seq(S) : front = <<a, b>>
  BY <1>2
<1>5. PICK back \in Seq(S) : back = <<c>>
  BY <1>3
<1>6. Len(front) = 2 /\ front[1] = a /\ front[2] = b /\ Len(back) = 1 /\ back[1] = c
  BY <1>2, <1>3, <1>4, <1>5
<1>7. PICK most \in Seq(S) : most = front \o s
  BY ConcatProperties
<1>8. /\ Len(most) = 2 + Len(s)
      /\ \A n \in 1..(2 + Len(s)) : most[n] = IF n <= 2 THEN front[n] ELSE s[n - 2]
  <2>1. /\ Len(most) = Len(front) + Len(s)
        /\ \A n \in 1..(Len(front) + Len(s)) :
             most[n] = IF n <= Len(front) THEN front[n] ELSE s[n - Len(front)]
    BY <1>7, ConcatProperties
  <2> QED
    BY <1>6, <2>1
<1>9. PICK all \in Seq(S) : all = most \o back
  BY ConcatProperties
<1>10. /\ Len(all) = Len(s) + 3
       /\ \A n \in 1..(Len(s) + 3) :
            all[n] = IF n <= 2 + Len(s) THEN most[n] ELSE back[n - (2 + Len(s))]
  <2>1. /\ Len(all) = Len(most) + Len(back)
        /\ \A n \in 1..(Len(most) + Len(back)) :
             all[n] = IF n <= Len(most) THEN most[n] ELSE back[n - Len(most)]
    BY <1>9, ConcatProperties
  <2>2. Len(most) + Len(back) = Len(s) + 3
    BY <1>1, <1>6, <1>8
  <2> QED
    BY <1>8, <2>1, <2>2
<1>11. \A n \in 1..(Len(s) + 3) :
         all[n] = IF n = 1 THEN a ELSE IF n = 2 THEN b
                  ELSE IF n = Len(s) + 3 THEN c ELSE s[n - 2]
  <2> TAKE n \in 1..(Len(s) + 3)
  <2>1. CASE n = 1 \/ n = 2
    <3>1. n \in 1..(2 + Len(s)) /\ n <= 2 /\ n <= 2 + Len(s) /\ n # Len(s) + 3
      BY <2>1, <1>1
    <3>2. all[n] = most[n]
      BY <3>1, <1>10
    <3>3. most[n] = front[n]
      BY <3>1, <1>8
    <3>4. front[n] = IF n = 1 THEN a ELSE b
      BY <2>1, <1>6
    <3> QED
      BY <2>1, <3>2, <3>3, <3>4
  <2>2. CASE n = Len(s) + 3
    <3>1. n # 1 /\ n # 2 /\ ~(n <= 2 + Len(s)) /\ n - (2 + Len(s)) = 1
      BY <2>2, <1>1
    <3>2. all[n] = back[n - (2 + Len(s))]
      BY <3>1, <1>10
    <3> QED
      BY <2>2, <3>1, <3>2, <1>6
  <2>3. CASE n \in 3..(Len(s) + 2)
    <3>1. /\ n \in 1..(2 + Len(s)) /\ n <= 2 + Len(s) /\ ~(n <= 2)
          /\ n # 1 /\ n # 2 /\ n # Len(s) + 3
      BY <2>3, <1>1
    <3>2. all[n] = most[n]
      BY <3>1, <1>10
    <3>3. most[n] = s[n - 2]
      BY <3>1, <1>8
    <3> QED
      BY <3>1, <3>2, <3>3
  <2>4. n = 1 \/ n = 2 \/ n = Len(s) + 3 \/ n \in 3..(Len(s) + 2)
    BY <1>1
  <2> QED
    BY <2>1, <2>2, <2>3, <2>4
<1>12. all = (<<a, b>> \o s) \o <<c>>
  BY <1>4, <1>5, <1>7, <1>9
<1> QED
  BY <1>10, <1>11, <1>12

\* A reply from its first to its last token.
LEMMA ReplyFacts ==
  ASSUME NEW body \in Bodies, NEW r, r = ReplyWith(body)
  PROVE  /\ r \in Seq(Tokens)
         /\ Len(r) = Len(body) + 3
         /\ r[1] = Headers /\ r[2] = BlankLine /\ r[Len(r)] = End
         /\ \A n \in 3..(Len(r) - 1) : r[n] = body[n - 2]
         /\ \A n \in 1..Len(r) : r[n].key = "end" <=> n = Len(r)
<1>1. body \in Seq(Tokens) /\ Len(body) \in Nat /\ \A n \in 1..Len(body) : body[n].key \in Keys
  BY BodyType
<1>2. Headers \in Tokens /\ BlankLine \in Tokens /\ End \in Tokens
  BY DEF Tokens
<1>3. r = (<<Headers, BlankLine>> \o body) \o <<End>>
  BY DEF ReplyWith
<1>6. /\ r \in Seq(Tokens)
      /\ Len(r) = Len(body) + 3
      /\ \A n \in 1..(Len(body) + 3) :
           r[n] = IF n = 1 THEN Headers ELSE IF n = 2 THEN BlankLine
                  ELSE IF n = Len(body) + 3 THEN End ELSE body[n - 2]
  BY <1>1, <1>2, <1>3, Enclosed
<1>7. r[1] = Headers /\ r[2] = BlankLine /\ r[Len(r)] = End
  BY <1>1, <1>6
<1>8. \A n \in 3..(Len(r) - 1) : r[n] = body[n - 2]
  BY <1>1, <1>6
<1>9. \A n \in 3..(Len(r) - 1) : r[n].key \in Keys
  BY <1>1, <1>6, <1>8
<1>10. \A n \in 1..Len(r) : r[n].key = "end" <=> n = Len(r)
  <2> TAKE n \in 1..Len(r)
  <2>1. CASE n = 1 \/ n = 2
    BY <2>1, <1>1, <1>6, <1>7, KeyFacts
  <2>2. CASE n = Len(r)
    BY <2>2, <1>7, KeyFacts
  <2>3. CASE n \in 3..(Len(r) - 1)
    BY <2>3, <1>9, <1>1, <1>6, KeyFacts
  <2> QED
    BY <2>1, <2>2, <2>3, <1>1, <1>6
<1> QED
  BY <1>1, <1>6, <1>7, <1>8, <1>10

\* Of a reply that was cut, the leading entries are left, of a whole one all.
LEMMA EntriesOfPrefix ==
  ASSUME NEW body \in Bodies, NEW r, r = ReplyWith(body), NEW n \in 0..Len(r)
  PROVE  /\ \E k \in 0..Len(body) : /\ Entries(SubSeq(r, 1, n)) = SubSeq(body, 1, k)
                                    /\ n = Len(r) => k = Len(body)
         /\ HasKey(SubSeq(r, 1, n), "end") <=> n = Len(r)
<1> DEFINE s == SubSeq(r, 1, n)
           k == IF n = Len(r) THEN Len(body) ELSE IF n <= 2 THEN 0 ELSE n - 2
<1>1. /\ r \in Seq(Tokens)
      /\ Len(r) = Len(body) + 3
      /\ \A i \in 3..(Len(r) - 1) : r[i] = body[i - 2]
      /\ \A i \in 1..Len(r) : r[i].key = "end" <=> i = Len(r)
  BY ReplyFacts
<1>2. body \in Seq(Tokens) /\ Len(body) \in Nat
  BY BodyType
<1>3. s \in Seq(Tokens) /\ Len(s) = n /\ \A i \in 1..n : s[i] = r[i]
  <2>1. \A i \in 1..n : r[i] \in Tokens
    BY <1>1, <1>2
  <2> QED
    BY <2>1, <1>1, <1>2, SubSeqProperties
<1>4. DOMAIN s = 1..n
  BY <1>3, LenProperties
<1>5. HasKey(s, "end") <=> n = Len(r)
  <2> HIDE DEF s
  <2> QED
    BY <1>1, <1>2, <1>3, <1>4 DEF HasKey
<1>6. k \in 0..Len(body)
  BY <1>1, <1>2
<1>7. Entries(s) = SubSeq(s, 3, k + 2) \/ (k = 0 /\ Entries(s) = <<>>)
  <2>1. CASE n = Len(r)
    BY <2>1, <1>1, <1>2, <1>3, <1>5 DEF Entries
  <2>2. CASE n # Len(r) /\ n > 2
    BY <2>2, <1>1, <1>2, <1>3, <1>5 DEF Entries
  <2>3. CASE n # Len(r) /\ n <= 2
    <3>1. Entries(s) = SubSeq(s, 3, n)
      BY <2>3, <1>3, <1>5 DEF Entries
    <3> QED
      BY <3>1, <2>3, SubSeqEmpty, <1>1, <1>2
  <2> QED
    BY <2>1, <2>2, <2>3, <1>1, <1>2
<1>8. Entries(s) = SubSeq(body, 1, k)
  <2>1. CASE k = 0
    <3>1. SubSeq(body, 1, k) = <<>>
      BY <2>1, SubSeqEmpty
    <3>2. SubSeq(s, 3, k + 2) = <<>>
      BY <2>1, SubSeqEmpty
    <3> QED
      BY <3>1, <3>2, <1>7
  <2>2. CASE k > 0
    <3>1. Entries(s) = SubSeq(s, 3, k + 2)
      <4>1. k # 0
        BY <2>2
      <4> HIDE DEF k
      <4> QED
        BY <4>1, <1>7
    <3>2. \A i \in 1..k : i + 2 \in 1..n /\ i + 2 \in 3..(Len(r) - 1)
      BY <2>2, <1>1, <1>2
    <3>3. \A i \in 1..k : s[i + 2] = body[i] /\ body[i] \in Tokens
      <4> HIDE DEF s, k
      <4> TAKE i \in 1..k
      <4>1. i + 2 \in 1..n /\ i + 2 \in 3..(Len(r) - 1) /\ (i + 2) - 2 = i
        BY <3>2
      <4>2. s[i + 2] = r[i + 2]
        BY <4>1, <1>3
      <4>3. r[i + 2] = body[(i + 2) - 2]
        BY <4>1, <1>1
      <4>4. i \in 1..Len(body)
        BY <1>2, <1>6
      <4>5. body[i] \in Tokens
        BY <4>4, <1>2, LenProperties
      <4> QED
        BY <4>1, <4>2, <4>3, <4>5
    <3> HIDE DEF s, k
    <3>4. /\ SubSeq(body, 1, k) \in Seq(Tokens)
          /\ Len(SubSeq(body, 1, k)) = k
          /\ \A i \in 1..k : SubSeq(body, 1, k)[i] = body[i]
      BY <3>3, <2>2, <1>2, <1>6, SubSeqProperties
    <3>5. \A i \in 3..(k + 2) : s[i] \in Tokens
      <4> TAKE i \in 3..(k + 2)
      <4>1. i - 2 \in 1..k /\ (i - 2) + 2 = i
        BY <1>6, <1>2
      <4> QED
        BY <4>1, <3>3
    <3>6. /\ SubSeq(s, 3, k + 2) \in Seq(Tokens)
          /\ Len(SubSeq(s, 3, k + 2)) = k
          /\ \A i \in 1..k : SubSeq(s, 3, k + 2)[i] = s[i + 2]
      <4>1. 3 \in Int /\ k + 2 \in Int /\ (k + 2) - 3 + 1 = k /\ 3 <= k + 2
        BY <2>2, <1>6, <1>2
      <4>2. /\ SubSeq(s, 3, k + 2) \in Seq(Tokens)
            /\ Len(SubSeq(s, 3, k + 2)) = k
            /\ \A i \in 1..k : SubSeq(s, 3, k + 2)[i] = s[3 + i - 1]
        BY <4>1, <3>5, SubSeqProperties
      <4>3. \A i \in 1..k : 3 + i - 1 = i + 2
        BY <1>6, <1>2
      <4> QED
        BY <4>2, <4>3
    <3> QED
      BY <3>1, <3>3, <3>4, <3>6, SeqEqual
  <2> QED
    BY <2>1, <2>2, <1>6
<1>9. n = Len(r) => k = Len(body)
  OBVIOUS
<1> HIDE DEF s, k
<1>10. \E j \in 0..Len(body) : /\ Entries(s) = SubSeq(body, 1, j)
                               /\ n = Len(r) => j = Len(body)
  BY <1>6, <1>8, <1>9
<1> QED
  BY <1>5, <1>10 DEF s

\* A sequence is the whole of its first part.
LEMMA WholeSeq ==
  ASSUME NEW S, NEW s \in Seq(S)
  PROVE  SubSeq(s, 1, Len(s)) = s
<1>1. Len(s) \in Nat /\ \A n \in 1..Len(s) : s[n] \in S
  BY LenProperties
<1>2. /\ SubSeq(s, 1, Len(s)) \in Seq(S)
      /\ Len(SubSeq(s, 1, Len(s))) = Len(s)
      /\ \A n \in 1..Len(s) : SubSeq(s, 1, Len(s))[n] = s[n]
  BY <1>1, SubSeqProperties
<1> QED
  BY <1>2, SeqEqual

-----------------------------------------------------------------------------
(* The invariant *)

\* What the socket or the client holds is the reply up to some byte.
Held(r) ==
  \E n \in 0..Len(reply) :
    /\ r.tokens = SubSeq(reply, 1, n)
    /\ r.part = NoToken \/ (n < Len(reply) /\ r.part = reply[n + 1])

PartOf(map, entries) ==
  \E k \in 1..Len(entries) : map = AsRead(MapOf(SubSeq(entries, 1, k)))

Responses ==
  UNION {{Response(AsRead(MapOf(SubSeq(body, 1, k)))) : k \in 1..Len(body)} : body \in Bodies}

Stored ==
  /\ trackerState \in Seq(Responses)
  /\ sources \in Seq(Bodies)
  /\ \A n \in DOMAIN trackerState : ~isEmpty(trackerState[n])

ParsedIsPart ==
  phase = "parsed" => parsed = EmptyMap \/ PartOf(parsed, Entries(reply))

\* The announce under way has left nothing yet.
Counted == phase # "idle" => Len(trackerState) < contacts

ContactInv ==
  /\ TypeOK
  /\ Stored
  /\ Held(buffer) /\ Held(received)
  /\ phase = "connecting" => reply = <<>>
  /\ phase \in {"connecting", "waiting"} => received = NoBytes
  /\ ParsedIsPart
  /\ RecordedIsLeadingPart
  /\ Counted

-----------------------------------------------------------------------------
\* A reply, whole, is its entries.
LEMMA WholeEntries ==
  ASSUME NEW body \in Bodies, NEW r, r = ReplyWith(body)
  PROVE  Entries(r) = body /\ Entries(SubSeq(r, 1, Len(r))) = body
<1>1. r \in Seq(Tokens) /\ Len(r) = Len(body) + 3 /\ body \in Seq(Tokens) /\ Len(body) \in Nat
  BY ReplyFacts, BodyType
<1>2. SubSeq(r, 1, Len(r)) = r /\ SubSeq(body, 1, Len(body)) = body
  BY <1>1, WholeSeq
<1>3. Len(r) \in 0..Len(r)
  BY <1>1
<1>4. Entries(SubSeq(r, 1, Len(r))) = SubSeq(body, 1, Len(body))
  BY <1>3, EntriesOfPrefix
<1> QED
  BY <1>2, <1>4

\* A leading part of a leading part is one.
LEMMA PartOfPart ==
  ASSUME NEW S, NEW s \in Seq(S), NEW k \in 0..Len(s), NEW j \in 1..k
  PROVE  SubSeq(SubSeq(s, 1, k), 1, j) = SubSeq(s, 1, j)
<1>1. Len(s) \in Nat /\ \A n \in 1..Len(s) : s[n] \in S
  BY LenProperties
<1>2. PICK p \in Seq(S) : /\ p = SubSeq(s, 1, k)
                          /\ Len(p) = k
                          /\ \A n \in 1..k : p[n] = s[n]
  <2>1. \A n \in 1..k : s[n] \in S
    BY <1>1
  <2>2. /\ SubSeq(s, 1, k) \in Seq(S)
        /\ Len(SubSeq(s, 1, k)) = k
        /\ \A n \in 1..k : SubSeq(s, 1, k)[n] = s[n]
    BY <1>1, <2>1, SubSeqProperties
  <2> QED
    BY <2>2
<1>3. \A n \in 1..j : p[n] = s[n] /\ s[n] \in S
  BY <1>1, <1>2
<1>4. /\ SubSeq(p, 1, j) \in Seq(S)
      /\ Len(SubSeq(p, 1, j)) = j
      /\ \A n \in 1..j : SubSeq(p, 1, j)[n] = s[n]
  BY <1>1, <1>3, SubSeqProperties
<1>5. /\ SubSeq(s, 1, j) \in Seq(S)
      /\ Len(SubSeq(s, 1, j)) = j
      /\ \A n \in 1..j : SubSeq(s, 1, j)[n] = s[n]
  BY <1>1, <1>3, SubSeqProperties
<1> QED
  BY <1>2, <1>4, <1>5, SeqEqual

\* There is a first place where the search may stop.
LEMMA FirstStop ==
  ASSUME NEW S, S \subseteq Nat, S # {}
  PROVE  Min(S) \in S
<1> DEFINE Less == {pair \in Nat \X Nat : pair[1] < pair[2]}
<1>1. IsWellFoundedOn(Less, Nat)
  BY NatLessThanWellFounded DEF OpToRel
<1>2. \E x \in S : \A y \in S : ~(<<y, x>> \in Less)
  <2> HIDE DEF Less
  <2> QED
    BY <1>1, WFMin
<1>3. PICK x \in S : \A y \in S : ~(<<y, x>> \in Less)
  BY <1>2
<1>4. \A y \in S : ~(y < x)
  BY <1>3
<1>5. \A y \in S : x <= y
  BY <1>4
<1> QED
  BY <1>5 DEF Min

\* What parseTrackerResponse makes of a reply that was cut: entries from the
\* first one on, or an exception, or no end.
LEMMA OutcomeFacts ==
  ASSUME NEW body \in Bodies, reply = ReplyWith(body), Held(received),
         NEW o \in Outcomes(received)
  PROVE  /\ o.phase \in {"parsed", "failed", "looping"}
         /\ o.phase = "parsed" => PartOf(o.map, body)
<1> DEFINE entries == Entries(received.tokens)
           tokens == IF received.part = NoToken THEN received.tokens
                     ELSE Append(received.tokens, received.part)
           stops == {i \in DOMAIN tokens : Stops(tokens[i])}
<1>1. body \in Seq(Tokens) /\ Len(body) \in Nat
  BY BodyType
<1>2. /\ reply \in Seq(Tokens) /\ Len(reply) = Len(body) + 3
      /\ reply[1] = Headers /\ reply[2] = BlankLine /\ reply[Len(reply)] = End
      /\ \A i \in 3..(Len(reply) - 1) : reply[i] = body[i - 2]
  BY ReplyFacts
<1>3. PICK n \in 0..Len(reply) :
        /\ received.tokens = SubSeq(reply, 1, n)
        /\ received.part = NoToken \/ (n < Len(reply) /\ received.part = reply[n + 1])
  BY DEF Held
<1>4. PICK k \in 0..Len(body) : entries = SubSeq(body, 1, k)
  BY <1>3, EntriesOfPrefix
<1>5. PICK size \in 0..Len(reply) :
        /\ tokens \in Seq(Tokens) /\ Len(tokens) = size
        /\ \A i \in 1..size : tokens[i] = reply[i]
  <2>1. \A i \in 1..n : reply[i] \in Tokens
    BY <1>2, <1>1
  <2>2. /\ received.tokens \in Seq(Tokens)
        /\ Len(received.tokens) = n
        /\ \A i \in 1..n : received.tokens[i] = reply[i]
    BY <2>1, <1>1, <1>2, <1>3, SubSeqProperties
  <2>3. CASE received.part = NoToken
    BY <2>2, <2>3
  <2>4. CASE received.part # NoToken
    <3>1. n + 1 \in 1..Len(reply) /\ received.part = reply[n + 1]
      BY <1>1, <1>2, <1>3, <2>4
    <3>2. received.part \in Tokens
      BY <3>1, <1>2
    <3>3. /\ tokens \in Seq(Tokens) /\ Len(tokens) = n + 1
          /\ \A i \in 1..n : tokens[i] = received.tokens[i]
          /\ tokens[n + 1] = received.part
      BY <2>2, <2>4, <3>2, AppendProperties
    <3>4. n + 1 \in 0..Len(reply) /\ \A i \in 1..(n + 1) : i \in 1..n \/ i = n + 1
      BY <3>1, <1>1, <1>2
    <3> HIDE DEF tokens
    <3> QED
      BY <2>2, <3>1, <3>3, <3>4
  <2> QED
    BY <2>3, <2>4
<1>6. DOMAIN tokens = 1..size
  <2> HIDE DEF tokens
  <2> QED
    BY <1>5, LenProperties
<1> HIDE DEF tokens
<1>7. CASE entries = <<>> \/ Head(entries).key = "peers"
  BY <1>7 DEF Outcomes, Throws
<1>8. CASE ~(entries = <<>> \/ Head(entries).key = "peers") /\ stops # {}
  <2>1. o \in PeersOutcomes(tokens, Min(stops))
    BY <1>8 DEF Outcomes, tokens
  <2> DEFINE at == Min(stops)
  <2>2. at \in 1..size /\ Stops(tokens[at])
    <3>1. stops \subseteq Nat
      BY <1>6
    <3>2. at \in stops
      BY <3>1, <1>8, FirstStop
    <3> QED
      BY <3>2, <1>6
  <2> HIDE DEF at
  <2>3. o \in PeersOutcomes(tokens, at)
    BY <2>1 DEF at
  <2>4. CASE o = Throws \/ o = Loops
    BY <2>4 DEF Throws, Loops
  <2>5. CASE ~(o = Throws \/ o = Loops)
    <3>1. tokens[at].key = "peers" /\ o = Returns(SubSeq(tokens, 3, at))
      BY <2>3, <2>5 DEF PeersOutcomes
    <3>2. tokens[at] = reply[at] /\ at \in 1..Len(reply)
      BY <2>2, <1>1, <1>2, <1>5
    <3>3. Headers.key # "peers" /\ BlankLine.key # "peers" /\ End.key # "peers"
      BY DEF Headers, BlankLine, End, Token
    <3>4. at \in 3..(Len(reply) - 1) /\ at - 2 \in 1..Len(body)
      BY <3>1, <3>2, <3>3, <1>1, <1>2
    <3>5. \A i \in 3..at : tokens[i] = body[i - 2] /\ tokens[i] \in Tokens
      <4> TAKE i \in 3..at
      <4>1. i \in 1..size /\ i \in 3..(Len(reply) - 1)
        BY <2>2, <3>4, <1>1, <1>2
      <4>2. i \in 1..Len(reply)
        BY <4>1, <1>1, <1>2
      <4> QED
        BY <4>1, <4>2, <1>2, <1>5
    <3>6. /\ SubSeq(tokens, 3, at) \in Seq(Tokens)
          /\ Len(SubSeq(tokens, 3, at)) = at - 2
          /\ \A i \in 1..(at - 2) : SubSeq(tokens, 3, at)[i] = body[i]
      <4>1. 3 \in Int /\ at \in Int /\ at - 3 + 1 = at - 2 /\ 3 <= at
        BY <3>4
      <4>2. /\ SubSeq(tokens, 3, at) \in Seq(Tokens)
            /\ Len(SubSeq(tokens, 3, at)) = at - 2
            /\ \A i \in 1..(at - 2) : SubSeq(tokens, 3, at)[i] = tokens[3 + i - 1]
        BY <4>1, <3>5, SubSeqProperties
      <4>3. \A i \in 1..(at - 2) : 3 + i - 1 \in 3..at /\ (3 + i - 1) - 2 = i
        BY <3>4
      <4> QED
        BY <4>2, <4>3, <3>5
    <3>7. /\ SubSeq(body, 1, at - 2) \in Seq(Tokens)
          /\ Len(SubSeq(body, 1, at - 2)) = at - 2
          /\ \A i \in 1..(at - 2) : SubSeq(body, 1, at - 2)[i] = body[i]
      <4>1. \A i \in 1..(at - 2) : body[i] \in Tokens
        BY <3>4, <1>1, LenProperties
      <4> QED
        BY <4>1, <3>4, <1>1, SubSeqProperties
    <3>8. SubSeq(tokens, 3, at) = SubSeq(body, 1, at - 2)
      BY <3>6, <3>7, SeqEqual
    <3> QED
      BY <3>1, <3>4, <3>8 DEF Returns, PartOf
  <2> QED
    BY <2>4, <2>5
<1>9. CASE ~(entries = <<>> \/ Head(entries).key = "peers") /\ stops = {}
  <2>1. o = Throws \/ o = Returns(entries)
    BY <1>9 DEF Outcomes, tokens
  <2>2. k \in 1..Len(body)
    <3>1. k # 0
      BY <1>4, <1>9, SubSeqEmpty
    <3> QED
      BY <3>1, <1>1
  <2> QED
    BY <2>1, <2>2, <1>4 DEF Throws, Returns, PartOf
<1> QED
  BY <1>7, <1>8, <1>9

\* A reply is finite, and so is what came of it.
LEMMA ReplyLength ==
  ASSUME ContactInv
  PROVE  Len(reply) \in Nat /\ Len(buffer.tokens) \in Nat /\ Len(received.tokens) \in Nat
<1>1. Len(reply) \in Nat /\ \E S : reply \in Seq(S)
  <2>1. CASE reply = <<>>
    BY <2>1
  <2>2. CASE reply # <<>>
    <3>1. PICK body \in Bodies : reply = ReplyWith(body)
      BY <2>2 DEF ContactInv, TypeOK
    <3> QED
      BY <3>1, ReplyFacts, BodyType
  <2> QED
    BY <2>1, <2>2
<1>2. PICK S : reply \in Seq(S)
  BY <1>1
<1>3. ASSUME NEW n \in 0..Len(reply)
      PROVE  Len(SubSeq(reply, 1, n)) \in Nat
  <2>1. \A i \in 1..n : reply[i] \in S
    BY <1>1, <1>2, LenProperties
  <2> QED
    BY <2>1, <1>1, SubSeqProperties
<1> QED
  BY <1>1, <1>3 DEF ContactInv, Held

-----------------------------------------------------------------------------
\* A client that has not called start yet.
LEMMA InitInv == Init => ContactInv
<1> SUFFICES ASSUME Init PROVE ContactInv
  OBVIOUS
<1>1. SubSeq(reply, 1, 0) = <<>> /\ Len(reply) = 0
  BY SubSeqEmpty DEF Init
<1>2. Held(buffer) /\ Held(received)
  BY <1>1 DEF Held, Init, NoBytes
<1>3. TypeOK
  BY BoundsAssumption DEF Init, TypeOK, Phases
<1>4. Stored /\ RecordedIsLeadingPart
  BY DEF Init, Stored, RecordedIsLeadingPart
<1> QED
  BY <1>2, <1>3, <1>4 DEF Init, ContactInv, Counted, ParsedIsPart

\* A new announce starts without a byte.
LEMMA StartInv ==
  ASSUME ContactInv, NEW scheme, start(scheme)
  PROVE  ContactInv'
<1> USE DEF start
<1>1. SubSeq(reply', 1, 0) = <<>> /\ Len(reply') = 0
  BY SubSeqEmpty
<1>2. Held(buffer)' /\ Held(received)'
  BY <1>1 DEF Held, NoBytes
<1>3. TypeOK'
  BY BoundsAssumption DEF ContactInv, TypeOK, Phases
<1>4. Stored' /\ RecordedIsLeadingPart'
  BY DEF ContactInv, Stored, RecordedIsLeadingPart, FirstEntries
<1>5. phase' # "failed" /\ phase' # "parsed"
  OBVIOUS
<1>6. Counted'
  BY DEF ContactInv, Counted, Stored, TypeOK
<1> QED
  BY <1>2, <1>3, <1>4, <1>5, <1>6 DEF ContactInv, ParsedIsPart

\* The tracker and the network, which the client does not see before it wakes.
LEMMA NetworkInv ==
  ASSUME ContactInv, Answer \/ Deliver
  PROVE  ContactInv'
<1>1. phase = "waiting" /\ phase' = phase
      /\ UNCHANGED <<received, parsed, trackerState, contacts, sources>>
  BY DEF Answer, Deliver
<1>2. Stored' /\ RecordedIsLeadingPart'
  BY <1>1 DEF ContactInv, Stored, RecordedIsLeadingPart, FirstEntries
<1>3. CASE Answer
  <2>1. PICK body \in Bodies : reply' = ReplyWith(body)
    BY <1>3 DEF Answer
  <2>2. TypeOK'
    BY <1>1, <2>1 DEF ContactInv, TypeOK
  <2>3. reply = <<>> /\ Len(reply) = 0 /\ UNCHANGED buffer
    BY <1>3 DEF Answer
  <2>4. Len(reply') \in Nat
    BY <2>1, ReplyFacts, BodyType
  <2>5. SubSeq(reply, 1, 0) = <<>> /\ SubSeq(reply', 1, 0) = <<>>
    BY SubSeqEmpty
  <2>6. ASSUME NEW r, NEW n \in 0..Len(reply),
               r.tokens = SubSeq(reply, 1, n),
               r.part = NoToken \/ (n < Len(reply) /\ r.part = reply[n + 1])
        PROVE  r.tokens = SubSeq(reply', 1, 0) /\ r.part = NoToken
    BY <2>3, <2>5, <2>6
  <2>7. Held(buffer)' /\ Held(received)'
    BY <1>1, <2>3, <2>4, <2>6 DEF ContactInv, Held
  <2> QED
    BY <1>1, <1>2, <1>3, <2>2, <2>7 DEF ContactInv, Counted, ParsedIsPart
<1>4. CASE Deliver
  <2>1. UNCHANGED reply
    BY <1>4 DEF Deliver
  <2>2. TypeOK'
    BY <1>1, <2>1 DEF ContactInv, TypeOK
  <2>3. PICK n \in Len(buffer.tokens)..Len(reply), torn \in BOOLEAN :
          (torn => n < Len(reply)) /\ buffer' = Chunk(n, torn)
    BY <1>4 DEF Deliver
  <2>4. Len(buffer.tokens) \in Nat /\ Len(reply) \in Nat
    BY ReplyLength DEF ContactInv
  <2>5. Held(buffer)'
    BY <2>1, <2>3, <2>4 DEF Held, Chunk
  <2>6. Held(received)'
    BY <1>1, <2>1 DEF ContactInv, Held
  <2> QED
    BY <1>1, <1>2, <1>4, <2>2, <2>5, <2>6 DEF ContactInv, Counted, ParsedIsPart
<1> QED
  BY <1>3, <1>4

\* The end of both waits, and of the announce when there is no answer.
LEMMA WaitsInv ==
  ASSUME ContactInv, WaitForConnected \/ WaitForReadyRead \/ ReadFails
  PROVE  ContactInv'
<1> USE DEF WaitForConnected, WaitForReadyRead, ReadFails
<1>1. UNCHANGED <<reply, buffer, parsed, trackerState, contacts, sources>>
  OBVIOUS
<1>2. phase' \in {"waiting", "failed", "read"}
  OBVIOUS
<1>3. TypeOK'
  BY <1>1, <1>2 DEF ContactInv, TypeOK, Phases
<1>4. Stored' /\ RecordedIsLeadingPart'
  BY <1>1 DEF ContactInv, Stored, RecordedIsLeadingPart, FirstEntries
<1>5. received' = received \/ received' = buffer
  OBVIOUS
<1>6. Held(buffer)' /\ Held(received)'
  BY <1>1, <1>5 DEF ContactInv, Held
<1>8. phase' = "waiting" => received' = NoBytes
  BY DEF ContactInv
<1> QED
  BY <1>1, <1>2, <1>3, <1>4, <1>6, <1>8 DEF ContactInv, Counted, ParsedIsPart

\* What the parser returns, or an exception in its place.
LEMMA ParseInv ==
  ASSUME ContactInv, Parse
  PROVE  ContactInv'
<1>1. /\ phase = "read"
      /\ UNCHANGED <<reply, buffer, received, trackerState, contacts, sources>>
  BY DEF Parse
<1>2. PICK o \in Outcomes(received) :
        /\ phase' = o.phase
        /\ parsed' = IF o.phase = "parsed" THEN o.map ELSE parsed
  BY DEF Parse
<1>3. Stored' /\ RecordedIsLeadingPart' /\ Held(buffer)' /\ Held(received)'
  BY <1>1 DEF ContactInv, Stored, RecordedIsLeadingPart, FirstEntries, Held
<1>4. /\ o.phase \in {"parsed", "failed", "looping"}
      /\ o.phase = "parsed" => PartOf(o.map, Entries(reply))
  <2>1. CASE reply = <<>>
    <3>1. received.tokens = <<>>
      BY <2>1, SubSeqEmpty DEF ContactInv, Held
    <3>2. Entries(received.tokens) = <<>>
      BY <3>1, SubSeqEmpty DEF Entries, HasKey
    <3>3. o = Throws
      BY <1>2, <3>2 DEF Outcomes
    <3> QED
      BY <2>1, <3>3 DEF Throws
  <2>2. CASE reply # <<>>
    <3>1. PICK body \in Bodies : reply = ReplyWith(body)
      BY <2>2 DEF ContactInv, TypeOK
    <3>2. Entries(reply) = body
      BY <3>1, WholeEntries
    <3> QED
      BY <3>1, <3>2, OutcomeFacts DEF ContactInv
  <2> QED
    BY <2>1, <2>2
<1>5. TypeOK'
  BY <1>1, <1>2, <1>4 DEF ContactInv, TypeOK, Phases
<1>6. ParsedIsPart'
  BY <1>1, <1>2, <1>4 DEF ParsedIsPart, PartOf
<1> QED
  BY <1>1, <1>2, <1>3, <1>4, <1>5, <1>6 DEF ContactInv, Counted

\* The exception becomes an empty map.
LEMMA CatchInv ==
  ASSUME ContactInv, Catch
  PROVE  ContactInv'
<1>1. /\ phase = "failed" /\ phase' = "parsed" /\ parsed' = EmptyMap
      /\ UNCHANGED <<reply, buffer, received, trackerState, contacts, sources>>
  BY DEF Catch
<1>2. Stored' /\ RecordedIsLeadingPart' /\ Held(buffer)' /\ Held(received)'
  BY <1>1 DEF ContactInv, Stored, RecordedIsLeadingPart, FirstEntries, Held
<1>3. TypeOK'
  BY <1>1 DEF ContactInv, TypeOK, Phases
<1>4. ParsedIsPart'
  BY <1>1 DEF ContactInv, ParsedIsPart
<1> QED
  BY <1>1, <1>2, <1>3, <1>4 DEF ContactInv, Counted

\* A response without interval and reason is not one.
LEMMA EmptyIsEmpty == isEmpty(Response(EmptyMap))
BY DEF isEmpty, Response, Field, EmptyMap

\* What is recorded was made of a part of this reply, and not of an exception.
LEMMA RecordInv ==
  ASSUME ContactInv, Record
  PROVE  ContactInv'
<1>1. /\ phase = "parsed" /\ phase' = "idle"
      /\ UNCHANGED <<reply, buffer, received, parsed, contacts>>
  BY DEF Record
<1>2. Held(buffer)' /\ Held(received)'
  BY <1>1 DEF ContactInv, Held
<1>3. Stored' /\ RecordedIsLeadingPart' /\ TypeOK'
  <2>1. CASE isEmpty(Response(parsed))
    <3>1. UNCHANGED <<trackerState, sources>>
      BY <2>1 DEF Record
    <3> QED
      BY <1>1, <3>1 DEF ContactInv, Stored, RecordedIsLeadingPart, FirstEntries, TypeOK, Phases
  <2>2. CASE ~isEmpty(Response(parsed))
    <3>1. /\ trackerState' = Append(trackerState, Response(parsed))
          /\ sources' = Append(sources, Entries(reply))
      BY <2>2 DEF Record
    <3>2. PICK k \in 1..Len(Entries(reply)) : parsed = AsRead(MapOf(SubSeq(Entries(reply), 1, k)))
      BY <1>1, <2>2, EmptyIsEmpty DEF ContactInv, ParsedIsPart, PartOf
    <3>3. Entries(reply) \in Bodies
      <4>1. reply # <<>>
        <5> SUFFICES ASSUME reply = <<>> PROVE FALSE
          OBVIOUS
        <5>1. Entries(reply) = <<>>
          BY SubSeqEmpty DEF Entries, HasKey
        <5> QED
          BY <3>2, <5>1
      <4> QED
        BY <4>1, WholeEntries DEF ContactInv, TypeOK
    <3>4. Response(parsed) \in Responses
      BY <3>2, <3>3 DEF Responses
    <3>5. PICK N \in Nat : N = Len(trackerState) /\ N = Len(sources)
      BY DEF ContactInv, Stored, TypeOK
    <3>6. /\ trackerState' \in Seq(Responses) /\ Len(trackerState') = N + 1
          /\ \A n \in 1..N : trackerState'[n] = trackerState[n]
          /\ trackerState'[N + 1] = Response(parsed)
      <4>1. trackerState \in Seq(Responses)
        BY DEF ContactInv, Stored
      <4>2. PICK response \in Responses : response = Response(parsed)
        BY <3>4
      <4>3. trackerState' = Append(trackerState, response)
        BY <3>1, <4>2
      <4> QED
        <5>1. /\ Append(trackerState, response) \in Seq(Responses)
              /\ Len(Append(trackerState, response)) = Len(trackerState) + 1
              /\ \A n \in 1..Len(trackerState) :
                   Append(trackerState, response)[n] = trackerState[n]
              /\ Append(trackerState, response)[Len(trackerState) + 1] = response
          BY <4>1, <4>2, AppendProperties
        <5> QED
          BY <3>5, <4>2, <4>3, <5>1
    <3>7. /\ sources' \in Seq(Bodies) /\ Len(sources') = N + 1
          /\ \A n \in 1..N : sources'[n] = sources[n]
          /\ sources'[N + 1] = Entries(reply)
      <4>1. sources \in Seq(Bodies)
        BY DEF ContactInv, Stored
      <4> QED
        BY <3>1, <3>3, <3>5, <4>1, AppendProperties
    <3>8. DOMAIN trackerState = 1..N /\ DOMAIN trackerState' = 1..(N + 1)
      BY <3>5, <3>6, LenProperties DEF ContactInv, Stored
    <3>9. Stored'
      BY <2>2, <3>5, <3>6, <3>7, <3>8 DEF ContactInv, Stored
    <3>10. RecordedIsLeadingPart'
      <4> SUFFICES ASSUME NEW n \in 1..(N + 1)
                   PROVE  \E j \in 1..Len(sources'[n]) :
                            trackerState'[n] = Response(AsRead(MapOf(SubSeq(sources'[n], 1, j))))
        BY <3>8 DEF RecordedIsLeadingPart, FirstEntries
      <4>1. CASE n \in 1..N
        BY <4>1, <3>6, <3>7, <3>8 DEF ContactInv, RecordedIsLeadingPart, FirstEntries
      <4>2. CASE n = N + 1
        BY <4>2, <3>2, <3>6, <3>7
      <4> QED
        BY <4>1, <4>2, <3>5
    <3>11. N + 1 <= contacts
      BY <1>1, <3>5 DEF ContactInv, Counted, TypeOK
    <3> QED
      BY <1>1, <3>6, <3>7, <3>9, <3>10, <3>11 DEF ContactInv, TypeOK, Phases
  <2> QED
    BY <2>1, <2>2
<1> QED
  BY <1>1, <1>2, <1>3 DEF ContactInv, Counted, ParsedIsPart

\* Every step keeps the invariant.
LEMMA NextInv ==
  ASSUME ContactInv, [Next]_vars
  PROVE  ContactInv'
<1>1. CASE \E scheme \in {"http", "udp"} : start(scheme)
  BY <1>1, StartInv
<1>2. CASE Answer \/ Deliver
  BY <1>2, NetworkInv
<1>3. CASE Client
  BY <1>3, WaitsInv, ParseInv, CatchInv, RecordInv DEF Client
<1>4. CASE UNCHANGED vars
  BY <1>4 DEF vars, ContactInv, TypeOK, Stored, Held, ParsedIsPart, PartOf,
              RecordedIsLeadingPart, FirstEntries, Counted
<1> QED
  BY <1>1, <1>2, <1>3, <1>4 DEF Next

\* The invariant holds in every reachable state.
LEMMA SpecInv == Spec => []ContactInv
<1>1. ContactInv /\ [Next]_vars => ContactInv'
  BY NextInv
<1> QED
  BY InitInv, <1>1, PTL DEF Spec

\* Every variable keeps its type, and no announce leaves more than one response.
THEOREM TypeCorrect == Spec => []TypeOK
<1>1. ContactInv => TypeOK
  BY DEF ContactInv
<1> QED
  BY SpecInv, <1>1, PTL

\* A recorded response is made of the first entries of the reply of its own
\* announce, whatever was lost and whatever failed before.
THEOREM RecordsLeadingPart == Spec => []RecordedIsLeadingPart
<1>1. ContactInv => RecordedIsLeadingPart
  BY DEF ContactInv
<1> QED
  BY SpecInv, <1>1, PTL

-----------------------------------------------------------------------------
(* Refusals *)

\* No key stands twice in a dictionary, and the reason before the interval.
LEMMA KeysInOrder ==
  ASSUME NEW body \in Bodies, NEW n \in 1..Len(body), NEW m \in 1..Len(body)
  PROVE  /\ body[n].key = body[m].key => n = m
         /\ body[n].key = "failure reason" /\ body[m].key = "interval" => n < m
<1>1. n \in DOMAIN body /\ m \in DOMAIN body
  BY BodyType
<1>2. body[n].key = body[m].key => n = m
  BY <1>1, BodiesAssumption, Zenon
<1>3. body[n].key = "failure reason" /\ body[m].key = "interval" => n < m
  BY <1>1, RefusalComesFirst, Zenon
<1> QED
  BY <1>2, <1>3

\* What the map of leading entries holds.
LEMMA MapOfPart ==
  ASSUME NEW body \in Bodies, NEW k \in 0..Len(body)
  PROVE  LET map == MapOf(SubSeq(body, 1, k)) IN
         /\ DOMAIN map = {body[n].key : n \in 1..k}
         /\ \A n \in 1..k : map[body[n].key] = body[n].val
<1> DEFINE part == SubSeq(body, 1, k)
<1>1. body \in Seq(Tokens) /\ Len(body) \in Nat /\ DOMAIN body = 1..Len(body)
  BY BodyType
<1>2. /\ part \in Seq(Tokens) /\ Len(part) = k
      /\ \A n \in 1..k : part[n] = body[n]
  <2>1. \A n \in 1..k : body[n] \in Tokens
    BY <1>1, LenProperties
  <2> QED
    BY <2>1, <1>1, SubSeqProperties
<1>3. DOMAIN part = 1..k
  BY <1>2, LenProperties
<1>4. \A n, m \in 1..k : body[n].key = body[m].key => n = m
  <2> TAKE n, m \in 1..k
  <2>1. n \in 1..Len(body) /\ m \in 1..Len(body)
    BY <1>1
  <2> QED
    BY <2>1, KeysInOrder
<1> HIDE DEF part
<1>5. DOMAIN MapOf(part) = {body[n].key : n \in 1..k}
  BY <1>2, <1>3 DEF MapOf
<1>6. ASSUME NEW n \in 1..k
      PROVE  MapOf(part)[body[n].key] = body[n].val
  <2> DEFINE at == CHOOSE m \in DOMAIN part : part[m].key = body[n].key
  <2>1. at \in 1..k /\ part[at].key = body[n].key
    BY <1>2, <1>3
  <2>2. at = n
    <3> HIDE DEF at
    <3> QED
      BY <2>1, <1>2, <1>4
  <2>3. body[n].key \in {part[m].key : m \in DOMAIN part}
    BY <1>2, <1>3
  <2>4. MapOf(part)[body[n].key] = part[at].val
    BY <2>3 DEF MapOf
  <2> QED
    BY <2>2, <2>4, <1>2
<1> QED
  BY <1>5, <1>6 DEF part

\* The reason stands before the interval: as long as it has not been read,
\* nothing makes the response one.
LEMMA RefusalIsSeen ==
  ASSUME NEW body \in Bodies, NEW k \in 1..Len(body), NEW i \in 1..Len(body)
  PROVE  LET response == Response(AsRead(MapOf(SubSeq(body, 1, k)))) IN
         (body[i].key = "failure reason" /\ body[i].val # "" /\ ~isEmpty(response)) =>
           response.failureReason # ""
<1>1. Len(body) \in Nat
  BY BodyType
<1>2. k \in 0..Len(body)
  BY <1>1
<1>3. \A m \in 1..k : m \in 1..Len(body) /\ (i \notin 1..k => m # i /\ ~(i < m))
  BY <1>1
<1>4. i \notin 1..k /\ body[i].key = "failure reason" =>
        \A m \in 1..k : body[m].key # "interval" /\ body[m].key # "failure reason"
  BY <1>3, KeysInOrder
<1> DEFINE told == MapOf(SubSeq(body, 1, k))
           map == AsRead(told)
<1>5. /\ DOMAIN map = {body[m].key : m \in 1..k}
      /\ \A m \in 1..k : body[m].key # "peers" => map[body[m].key] = body[m].val
  <2>1. /\ DOMAIN told = {body[m].key : m \in 1..k}
        /\ \A m \in 1..k : told[body[m].key] = body[m].val
    BY <1>2, MapOfPart
  <2> HIDE DEF told
  <2> QED
    BY <2>1 DEF AsRead
<1> HIDE DEF map
<1> SUFFICES ASSUME body[i].key = "failure reason", body[i].val # "", ~isEmpty(Response(map))
             PROVE  Response(map).failureReason # ""
  BY DEF map
<1>6. CASE i \in 1..k
  <2>1. "failure reason" \in DOMAIN map /\ map["failure reason"] # ""
    BY <1>5, <1>6
  <2>2. Response(map).failureReason = Field(map, "failure reason", "")
    BY DEF Response
  <2> QED
    BY <2>1, <2>2 DEF Field
<1>7. CASE i \notin 1..k
  <2>1. "interval" \notin DOMAIN map /\ "failure reason" \notin DOMAIN map
    BY <1>4, <1>5, <1>7
  <2>2. isEmpty(Response(map))
    BY <2>1 DEF isEmpty, Response, Field
  <2> QED
    BY <2>2
<1> QED
  BY <1>6, <1>7

\* That holds for every response on record.
LEMMA RefusalsAreRecorded == ContactInv => RefusalIsNotSuccess
<1> SUFFICES ASSUME ContactInv,
                    NEW n \in DOMAIN trackerState, NEW i \in DOMAIN sources[n],
                    sources[n][i].key = "failure reason", sources[n][i].val # ""
             PROVE  trackerState[n].failureReason # ""
  BY DEF RefusalIsNotSuccess
<1>1. PICK body \in Bodies : body = sources[n]
  <2>1. DOMAIN trackerState = DOMAIN sources
    BY LenProperties DEF ContactInv, Stored, TypeOK
  <2>2. sources[n] \in Bodies
    BY <2>1, LenProperties DEF ContactInv, Stored
  <2> QED
    BY <2>2
<1>2. PICK k \in 1..Len(body) : trackerState[n] = Response(AsRead(MapOf(SubSeq(body, 1, k))))
  BY <1>1 DEF ContactInv, RecordedIsLeadingPart, FirstEntries
<1>3. ~isEmpty(trackerState[n])
  BY DEF ContactInv, Stored
<1>4. i \in 1..Len(body)
  BY <1>1, BodyType
<1> QED
  BY <1>1, <1>2, <1>3, <1>4, RefusalIsSeen

\* A refusal with a reason is never taken for a success.
THEOREM RefusalsStayRefusals == Spec => []RefusalIsNotSuccess
BY SpecInv, RefusalsAreRecorded, PTL

=============================================================================
