------------------------- MODULE TrackerPeersProofs -------------------------
(***************************************************************************)
(* For any replies in the three forms, of any length and made of any bytes: *)
(* a list is never returned, peers written bare are returned as they were  *)
(* sent, and a round that finds its fields closed takes the loop forward.  *)
(*                                                                         *)
(* The argument for peers written bare: the parser stands where an entry   *)
(* begins, or behind the last one, and has recorded exactly the peers      *)
(* before that place.  An entry is read back whole, whatever its address   *)
(* is made of, because every field is found by the length of the one       *)
(* before it (EntryIsRead).  Of a compact reply only the position is known *)
(* (RoundInside).                                                          *)
(***************************************************************************)
EXTENDS TrackerPeers, ByteStringsProofs

-----------------------------------------------------------------------------
(* The names of the fields *)

IdName == <<"7", ":", "p", "e", "e", "r", " ", "i", "d">>
IpName == <<"2", ":", "i", "p">>
PortName == <<"4", ":", "p", "o", "r", "t", "i">>

\* They are byte arrays of these lengths.
LEMMA Names ==
  /\ IdName \in ByteArray /\ Len(IdName) = 9 /\ IdName[1] = "7"
  /\ IpName \in ByteArray /\ Len(IpName) = 4 /\ IpName[1] = "2"
  /\ PortName \in ByteArray /\ Len(PortName) = 7 /\ PortName[1] = "4" /\ PortName[7] = "i"
<1>1. IdName \in Seq(Byte) /\ Len(IdName) = 9
  <2>1. /\ "7" \in Byte /\ ":" \in Byte /\ "p" \in Byte /\ "e" \in Byte /\ "r" \in Byte
        /\ " " \in Byte /\ "i" \in Byte /\ "d" \in Byte
    BY DEF Byte
  <2>2. ASSUME NEW a \in Byte, NEW b \in Byte, NEW c \in Byte, NEW f \in Byte, NEW g \in Byte,
               NEW h \in Byte, NEW j \in Byte, NEW l \in Byte
        PROVE  <<a, b, c, f, f, g, h, j, l>> \in Seq(Byte) /\ Len(<<a, b, c, f, f, g, h, j, l>>) = 9
    OBVIOUS
  <2> QED
    BY <2>1, <2>2, Zenon DEF IdName
<1>2. IpName \in Seq(Byte) /\ Len(IpName) = 4
  <2>1. "2" \in Byte /\ ":" \in Byte /\ "i" \in Byte /\ "p" \in Byte
    BY DEF Byte
  <2> QED
    BY <2>1 DEF IpName
<1>3. PortName \in Seq(Byte) /\ Len(PortName) = 7
  <2>1. /\ "4" \in Byte /\ ":" \in Byte /\ "p" \in Byte /\ "o" \in Byte /\ "r" \in Byte
        /\ "t" \in Byte /\ "i" \in Byte
    BY DEF Byte
  <2> QED
    BY <2>1 DEF PortName
<1>4. IdName[1] = "7" /\ IpName[1] = "2" /\ PortName[1] = "4" /\ PortName[7] = "i"
  BY DEF IdName, IpName, PortName
<1> QED
  BY <1>1, <1>2, <1>3, <1>4 DEF ByteArray

\* One letter is a byte array.
LEMMA OneLetter ==
  ASSUME NEW x \in Byte
  PROVE  <<x>> \in ByteArray /\ Len(<<x>>) = 1 /\ <<x>>[1] = x
BY OneElement DEF ByteArray

\* The length of an id takes two digits.
LEMMA Twenty == number(20) \in ByteArray /\ Len(number(20)) = 2
<1>1. PICK w : IsWriting(20, w) /\ Numeral(20) = w[20]
  BY WritingExists
<1>2. 20 \div 10 = 2 /\ 20 % 10 = 0
  OBVIOUS
<1>3. 20 \in 0..20 /\ 2 \in 0..20 /\ ~(20 < 10) /\ 2 < 10
  OBVIOUS
<1>4. w[20] = Append(w[2], Digit[0 + 1])
  BY <1>1, <1>2, <1>3 DEF IsWriting
<1>5. w[2] = <<Digit[2 + 1]>>
  BY <1>1, <1>3 DEF IsWriting
<1>6. Digit[0 + 1] \in Byte /\ Digit[2 + 1] \in Byte
  BY DigitIsWorth
<1>7. w[2] \in Seq(Byte) /\ Len(w[2]) = 1
  BY <1>5, <1>6
<1>8. Len(w[20]) = 2
  BY <1>4, <1>6, <1>7, AppendProperties
<1>9. number(20) = w[20]
  BY <1>1 DEF number
<1> QED
  BY <1>8, <1>9, NumberIsRead

-----------------------------------------------------------------------------
(* The fields of one peer *)

\* The three parts of a string: the number of its bytes, a colon, its bytes.
LEMMA StringParts ==
  ASSUME NEW bytes \in ByteArray
  PROVE  /\ number(Len(bytes)) \in ByteArray /\ <<":">> \in ByteArray
         /\ number(Len(bytes)) \o <<":">> \in ByteArray
         /\ Len(number(Len(bytes)) \o <<":">>) = Len(number(Len(bytes))) + 1
         /\ String(bytes) = (number(Len(bytes)) \o <<":">>) \o bytes
         /\ String(bytes) \in ByteArray
         /\ Len(String(bytes)) = Len(number(Len(bytes))) + 1 + Len(bytes)
<1> DEFINE n == number(Len(bytes))
           colon == <<":">>
           head == n \o colon
<1>1. n \in ByteArray
  <2>1. Len(bytes) \in Int
    BY DEF ByteArray
  <2> QED
    BY <2>1, NumberIsRead
<1>2. colon \in ByteArray /\ Len(colon) = 1
  <2>1. ":" \in Byte
    BY DEF Byte
  <2> QED
    BY <2>1, OneLetter
<1>3. String(bytes) = head \o bytes
  BY DEF String
<1> HIDE DEF n, colon
<1>4. head \in ByteArray /\ Len(head) = Len(n) + 1
  <2>1. head \in ByteArray /\ Len(head) = Len(n) + Len(colon)
    BY <1>1, <1>2, Concatenated
  <2> QED
    BY <1>2, <2>1
<1> HIDE DEF head
<1>5. head \o bytes \in ByteArray /\ Len(head \o bytes) = Len(head) + Len(bytes)
  BY <1>4, Concatenated
<1> QED
  BY <1>1, <1>2, <1>3, <1>4, <1>5 DEF head, n, colon

\* Where they stand.
LEMMA StringStands ==
  ASSUME NEW data \in ByteArray, NEW pos \in Nat, NEW bytes \in ByteArray,
         Stands(data, pos, String(bytes))
  PROVE  /\ Stands(data, pos, number(Len(bytes)) \o <<":">>)
         /\ Stands(data, pos, number(Len(bytes)))
         /\ Stands(data, pos + Len(number(Len(bytes))) + 1, bytes)
<1> DEFINE n == number(Len(bytes))
           colon == <<":">>
           head == n \o colon
<1>1. /\ n \in ByteArray /\ colon \in ByteArray /\ head \in ByteArray
      /\ Len(head) = Len(n) + 1 /\ String(bytes) = head \o bytes
  BY StringParts
<1>2. Len(n) \in Nat
  BY <1>1 DEF ByteArray
<1> HIDE DEF n, colon
<1>3. Stands(data, pos, head \o bytes)
  BY <1>1
<1>4. Stands(data, pos, head) /\ Stands(data, pos + Len(head), bytes)
  BY <1>1, <1>3, StandsSplit
<1>5. Stands(data, pos, n)
  BY <1>1, <1>4, StandsSplit
<1>6. pos + Len(head) = pos + Len(n) + 1
  BY <1>1, <1>2
<1> QED
  BY <1>4, <1>5, <1>6 DEF n, colon

\* An address is read back, whatever it is made of: the parser finds the colon
\* behind its length, and takes as many bytes.
LEMMA AddressIsRead ==
  ASSUME NEW data \in ByteArray, NEW pos \in Nat, NEW bytes \in ByteArray,
         Stands(data, pos, String(bytes))
  PROVE  LET colon == indexOf(data, ":", pos)
             len == toInt(mid(data, pos, colon - pos))
         IN  /\ colon \in Nat /\ len = Len(bytes)
             /\ mid(data, colon + 1, len) = bytes
             /\ colon + 1 + len = pos + Len(String(bytes))
<1> DEFINE n == number(Len(bytes))
<1>1. Len(bytes) \in Nat
  BY DEF ByteArray
<1>2. /\ Len(String(bytes)) = Len(n) + 1 + Len(bytes)
      /\ Stands(data, pos, n \o <<":">>)
      /\ Stands(data, pos, n)
      /\ Stands(data, pos + Len(n) + 1, bytes)
  BY StringParts, StringStands
<1>3. n \in ByteArray /\ toInt(n) = Len(bytes) /\ Len(n) \in Nat
  <2>1. Len(bytes) \in Int
    BY <1>1
  <2>2. n \in ByteArray /\ toInt(n) = Len(bytes)
    BY <2>1, NumberIsRead
  <2> QED
    BY <2>2 DEF ByteArray
<1>4. ASSUME NEW k \in 1..Len(n) PROVE n[k] # ":"
  <2>1. Len(bytes) \in Int
    BY <1>1
  <2> QED
    BY <2>1, NumberIsPlain
<1> HIDE DEF n
<1> DEFINE colon == indexOf(data, ":", pos)
<1>5. colon = pos + Len(n)
  <2>1. ":" \in Byte
    BY DEF Byte
  <2> QED
    BY <1>2, <1>3, <1>4, <2>1, IndexOfBehind
<1> HIDE DEF colon
<1>6. colon \in Nat /\ colon - pos = Len(n) /\ colon + 1 = pos + Len(n) + 1 /\ colon + 1 \in Nat
  BY <1>3, <1>5
<1>7. mid(data, pos, colon - pos) = n
  BY <1>2, <1>3, <1>6, StandsMid
<1>8. mid(data, colon + 1, Len(bytes)) = bytes
  BY <1>2, <1>6, StandsMid
<1>9. colon + 1 + Len(bytes) = pos + Len(String(bytes))
  BY <1>1, <1>2, <1>3, <1>5
<1> QED
  BY <1>3, <1>6, <1>7, <1>8, <1>9 DEF colon

\* The three fields of a peer.
LEMMA FieldParts ==
  ASSUME NEW p \in Peer
  PROVE  /\ IdField(p) \in ByteArray /\ IpField(p) \in ByteArray /\ PortField(p) \in ByteArray
         /\ p.id = NoId => Len(IdField(p)) = 0
         /\ p.id # NoId => IdField(p) = IdName \o String(p.id)
         /\ IpField(p) = IpName \o String(p.ip) /\ Len(IpField(p)) = 4 + Len(String(p.ip))
         /\ PortField(p) = (PortName \o p.port) \o <<"e">>
         /\ Len(PortField(p)) = 8 + Len(p.port)
         /\ IdField(p) \o IpField(p) \in ByteArray
         /\ Len(IdField(p) \o IpField(p)) = Len(IdField(p)) + Len(IpField(p))
         /\ Fields(p) = (IdField(p) \o IpField(p)) \o PortField(p)
         /\ Fields(p) \in ByteArray
         /\ Len(Fields(p)) = Len(IdField(p)) + Len(IpField(p)) + Len(PortField(p))
<1>1. p.id \in ByteArray /\ p.ip \in ByteArray /\ p.port \in ByteArray
  BY DEF Peer
<1>2. String(p.id) \in ByteArray /\ String(p.ip) \in ByteArray
  BY <1>1, StringParts
<1>3. IdName \o String(p.id) \in ByteArray
  BY <1>2, Names, Concatenated
<1>5. IdField(p) \in ByteArray /\ (p.id = NoId => Len(IdField(p)) = 0)
      /\ (p.id # NoId => IdField(p) = IdName \o String(p.id))
  <2>1. <<>> \in ByteArray /\ Len(<<>>) = 0
    BY DEF ByteArray
  <2> QED
    BY <1>3, <2>1 DEF IdField, IdName
<1>6. IpName \o String(p.ip) \in ByteArray /\ Len(IpName \o String(p.ip)) = 4 + Len(String(p.ip))
  <2>1. /\ IpName \o String(p.ip) \in ByteArray
        /\ Len(IpName \o String(p.ip)) = Len(IpName) + Len(String(p.ip))
    BY <1>2, Names, Concatenated
  <2> QED
    BY <2>1, Names
<1>7. IpField(p) = IpName \o String(p.ip)
  BY DEF IpField, IpName
<1> DEFINE start == PortName \o p.port
           end == <<"e">>
<1>8. PortField(p) = start \o end
  BY DEF PortField, PortName
<1>9. end \in ByteArray /\ Len(end) = 1
  <2>1. "e" \in Byte
    BY DEF Byte
  <2> QED
    BY <2>1, OneLetter
<1>10. start \in ByteArray /\ Len(start) = Len(PortName) + Len(p.port)
  BY <1>1, Names, Concatenated
<1> HIDE DEF start, end
<1>11. start \o end \in ByteArray /\ Len(start \o end) = Len(start) + Len(end)
  BY <1>9, <1>10, Concatenated
<1>12. Len(p.port) \in Nat
  BY <1>1 DEF ByteArray
<1>13. PortField(p) \in ByteArray /\ Len(PortField(p)) = 8 + Len(p.port)
  BY <1>8, <1>9, <1>10, <1>11, <1>12, Names
<1> DEFINE a == IdField(p)
           b == IpField(p)
           c == PortField(p)
<1>14. a \in ByteArray /\ b \in ByteArray /\ c \in ByteArray
  BY <1>5, <1>6, <1>7, <1>13
<1>15. Fields(p) = (a \o b) \o c
  BY DEF Fields
<1> HIDE DEF a, b, c
<1>16. a \o b \in ByteArray /\ Len(a \o b) = Len(a) + Len(b)
  BY <1>14, Concatenated
<1> DEFINE ab == a \o b
<1> HIDE DEF ab
<1>17. ab \o c \in ByteArray /\ Len(ab \o c) = Len(ab) + Len(c)
  BY <1>14, <1>16, Concatenated DEF ab
<1>18. Fields(p) \in ByteArray /\ Len(Fields(p)) = Len(a) + Len(b) + Len(c)
  BY <1>15, <1>16, <1>17 DEF ab
<1> QED
  BY <1>5, <1>6, <1>7, <1>8, <1>13, <1>14, <1>15, <1>16, <1>18 DEF start, end, a, b, c

\* Where the three fields of a peer stand, and the letter it begins with.
LEMMA FieldsStand ==
  ASSUME NEW data \in ByteArray, NEW pos \in Nat, NEW p \in Peer, Stands(data, pos, Fields(p))
  PROVE  /\ Stands(data, pos, IdField(p))
         /\ Stands(data, pos + Len(IdField(p)), IpField(p))
         /\ Stands(data, pos + Len(IdField(p)) + Len(IpField(p)), PortField(p))
<1> DEFINE a == IdField(p)
           b == IpField(p)
           c == PortField(p)
           ab == a \o b
<1>1. /\ a \in ByteArray /\ b \in ByteArray /\ c \in ByteArray
      /\ ab \in ByteArray /\ Len(ab) = Len(a) + Len(b)
      /\ Fields(p) = ab \o c
  BY FieldParts
<1>2. Len(a) \in Nat /\ Len(b) \in Nat
  BY <1>1 DEF ByteArray
<1> HIDE DEF a, b, c
<1>3. Stands(data, pos, ab \o c)
  BY <1>1
<1>4. Stands(data, pos, ab) /\ Stands(data, pos + Len(ab), c)
  BY <1>1, <1>3, StandsSplit
<1>5. Stands(data, pos, a) /\ Stands(data, pos + Len(a), b)
  BY <1>1, <1>4, StandsSplit
<1>6. pos + Len(ab) = pos + Len(a) + Len(b)
  BY <1>1, <1>2
<1> QED
  BY <1>4, <1>5, <1>6 DEF a, b, c

\* The id is read back, and the next field begins where the parser takes it to.
LEMMA IdIsRead ==
  ASSUME NEW data \in ByteArray, NEW pos \in Nat, NEW bytes \in ByteArray, Len(bytes) = 20,
         Stands(data, pos, IdName \o String(bytes))
  PROVE  /\ At(data, pos) = "7"
         /\ mid(data, pos + 7 + 2 + 3, 20) = bytes
         /\ Len(IdName \o String(bytes)) = 32
<1>1. IdName \in ByteArray /\ Len(IdName) = 9 /\ IdName[1] = "7"
  BY Names
<1>2. /\ String(bytes) \in ByteArray
      /\ Len(String(bytes)) = Len(number(20)) + 1 + Len(bytes)
  BY StringParts
<1>3. Stands(data, pos, IdName) /\ Stands(data, pos + Len(IdName), String(bytes))
  BY <1>1, <1>2, StandsSplit
<1>4. At(data, pos + 0) = IdName[0 + 1]
  <2>1. 0 \in 0..(Len(IdName) - 1)
    BY <1>1
  <2> QED
    BY <1>1, <1>3, <2>1, StandsAt
<1>5. Stands(data, (pos + Len(IdName)) + Len(number(20)) + 1, bytes)
  <2>1. pos + Len(IdName) \in Nat
    BY <1>1
  <2> QED
    BY <1>3, <2>1, StringStands
<1>6. (pos + Len(IdName)) + Len(number(20)) + 1 = pos + 7 + 2 + 3
  <2> DEFINE long == Len(number(20))
  <2>1. long = 2
    BY Twenty
  <2> HIDE DEF long
  <2>2. (pos + Len(IdName)) + long + 1 = pos + 7 + 2 + 3
    BY <1>1, <2>1
  <2> QED
    BY <2>2 DEF long
<1>7. pos + 7 + 2 + 3 \in Nat
  OBVIOUS
<1>8. mid(data, pos + 7 + 2 + 3, 20) = bytes
  <2> DEFINE at == pos + 7 + 2 + 3
  <2>1. at \in Nat /\ Stands(data, at, bytes)
    BY <1>5, <1>6, <1>7
  <2> HIDE DEF at
  <2>2. mid(data, at, Len(bytes)) = bytes
    BY <2>1, StandsMid
  <2> QED
    BY <2>2 DEF at
<1>9. Len(IdName \o String(bytes)) = 32
  <2> DEFINE string == String(bytes)
  <2>1. Len(string) = 2 + 1 + 20
    BY <1>2, Twenty
  <2>2. string \in ByteArray
    BY <1>2
  <2> HIDE DEF string
  <2>3. Len(IdName \o string) = Len(IdName) + Len(string)
    BY <1>1, <2>2, Concatenated
  <2>4. Len(IdName \o string) = 32
    BY <1>1, <2>1, <2>3
  <2> QED
    BY <2>4 DEF string
<1> QED
  BY <1>1, <1>4, <1>8, <1>9

\* A port is read back: the parser finds the 'e' that closes it.
LEMMA PortIsRead ==
  ASSUME NEW data \in ByteArray, NEW pos \in Nat, NEW bytes \in ByteArray,
         \A k \in DOMAIN bytes : bytes[k] # "e",
         Stands(data, pos, (PortName \o bytes) \o <<"e">>)
  PROVE  LET end == indexOf(data, "e", pos + 4 + 2)
         IN  /\ end = pos + 7 + Len(bytes)
             /\ mid(data, pos + 7, end - pos - 7) = bytes
<1> DEFINE close == <<"e">>
           start == PortName \o bytes
<1>1. PortName \in ByteArray /\ Len(PortName) = 7 /\ PortName[7] = "i"
  BY Names
<1>2. "e" \in Byte /\ close \in ByteArray /\ Len(close) = 1 /\ close[1] = "e"
  <2>1. "e" \in Byte
    BY DEF Byte
  <2> QED
    BY <2>1, OneLetter
<1>3. Len(bytes) \in Nat /\ DOMAIN bytes = 1..Len(bytes) /\ Len(data) \in Nat
  BY DEF ByteArray
<1> HIDE DEF close
<1>4. start \in ByteArray /\ Len(start) = Len(PortName) + Len(bytes)
  BY <1>1, Concatenated
<1>5. Stands(data, pos, start) /\ Stands(data, pos + Len(start), close)
  <2>1. Stands(data, pos, start \o close)
    BY DEF close
  <2> QED
    BY <1>2, <1>4, <2>1, StandsSplit
<1>6. Stands(data, pos, PortName) /\ Stands(data, pos + Len(PortName), bytes)
  BY <1>1, <1>5, StandsSplit
<1> DEFINE end == pos + 7 + Len(bytes)
<1>7. At(data, end) = "e" /\ end < Len(data)
  <2>1. 0 \in 0..(Len(close) - 1) /\ pos + Len(start) \in Nat
    BY <1>1, <1>2, <1>3, <1>4
  <2>2. At(data, (pos + Len(start)) + 0) = close[0 + 1] /\ (pos + Len(start)) + 0 < Len(data)
    BY <1>2, <1>5, <2>1, StandsAt
  <2>3. (pos + Len(start)) + 0 = end
    BY <1>1, <1>3, <1>4
  <2> QED
    BY <1>2, <2>2, <2>3
<1>8. ASSUME NEW q \in (pos + 4 + 2)..(end - 1) PROVE At(data, q) # "e"
  <2>1. q = pos + 6 \/ q - (pos + 7) \in 0..(Len(bytes) - 1)
    BY <1>3
  <2>2. CASE q = pos + 6
    <3>1. 6 \in 0..(Len(PortName) - 1)
      BY <1>1
    <3>2. At(data, pos + 6) = PortName[6 + 1]
      BY <1>1, <1>6, <3>1, StandsAt
    <3> QED
      BY <1>1, <2>2, <3>2
  <2>3. CASE q - (pos + 7) \in 0..(Len(bytes) - 1)
    <3> DEFINE k == q - (pos + 7)
    <3>1. pos + Len(PortName) \in Nat /\ (pos + Len(PortName)) + k = q /\ k + 1 \in 1..Len(bytes)
      BY <1>1, <1>3, <2>3
    <3> HIDE DEF k
    <3>2. k \in 0..(Len(bytes) - 1)
      BY <2>3 DEF k
    <3>3. At(data, (pos + Len(PortName)) + k) = bytes[k + 1]
      BY <1>6, <3>1, <3>2, StandsAt
    <3> QED
      BY <1>3, <3>1, <3>3
  <2> QED
    BY <2>1, <2>2, <2>3
<1>9. indexOf(data, "e", pos + 4 + 2) = end
  <2> DEFINE from == pos + 4 + 2
  <2>1. from \in Nat /\ end \in from..(Len(data) - 1)
    BY <1>3, <1>7
  <2>2. \A q \in from..(end - 1) : At(data, q) # "e"
    BY <1>8
  <2> HIDE DEF from, end
  <2>3. indexOf(data, "e", from) = end
    BY <1>2, <1>7, <2>1, <2>2, IndexOfFirst
  <2> QED
    BY <2>3 DEF from
<1>10. mid(data, pos + 7, Len(bytes)) = bytes
  <2>1. Stands(data, pos + 7, bytes) /\ pos + 7 \in Nat
    BY <1>1, <1>6
  <2> QED
    BY <2>1, StandsMid
<1>11. end - pos - 7 = Len(bytes)
  BY <1>3
<1> QED
  BY <1>9, <1>10, <1>11

-----------------------------------------------------------------------------
(* One round of the parser *)

\* A peer the parser can be sent: an id of 20 bytes or none, no 'e' in the port.
Conforming(p) ==
  /\ p \in Peer
  /\ Len(p.id) \in {0, 20}
  /\ \A k \in DOMAIN p.port : p.port[k] # "e"

\* An entry begins with "7" if the peer has an id, with "2" if it has none, and
\* the address field begins with "2" behind the id.
LEMMA EntryBegins ==
  ASSUME NEW data \in ByteArray, NEW pos \in Nat, NEW p, Conforming(p), Stands(data, pos, Fields(p))
  PROVE  /\ p.id # NoId => At(data, pos) = "7" /\ Len(IdField(p)) = 32
                           /\ mid(data, pos + 7 + 2 + 3, 20) = p.id
         /\ p.id = NoId => At(data, pos) = "2" /\ Len(IdField(p)) = 0
         /\ pos < Len(data)
<1>1. p.id \in ByteArray /\ p.ip \in ByteArray
  BY DEF Conforming, Peer
<1>2. /\ Stands(data, pos, IdField(p))
      /\ Stands(data, pos + Len(IdField(p)), IpField(p))
  BY FieldsStand DEF Conforming
<1>3. /\ p.id = NoId => Len(IdField(p)) = 0
      /\ p.id # NoId => IdField(p) = IdName \o String(p.id)
      /\ IpField(p) = IpName \o String(p.ip)
  BY FieldParts DEF Conforming
<1>4. CASE p.id # NoId
  <2>1. Len(p.id) = 20
    BY <1>1, <1>4 DEF Conforming, NoId, ByteArray
  <2>2. Stands(data, pos, IdName \o String(p.id))
    BY <1>2, <1>3, <1>4
  <2>3. /\ At(data, pos) = "7"
        /\ mid(data, pos + 7 + 2 + 3, 20) = p.id
        /\ Len(IdName \o String(p.id)) = 32
    BY <1>1, <2>1, <2>2, IdIsRead
  <2>4. Len(IdField(p)) = 32
    BY <1>3, <1>4, <2>3
  <2>5. pos < Len(data)
    BY <1>2, <2>4 DEF Stands, ByteArray
  <2> QED
    BY <1>4, <2>3, <2>4, <2>5
<1>5. CASE p.id = NoId
  <2>1. pos + Len(IdField(p)) = pos
    BY <1>3, <1>5
  <2>2. Stands(data, pos, IpName \o String(p.ip))
    BY <1>2, <1>3, <2>1
  <2>3. Stands(data, pos, IpName)
    BY <1>1, <2>2, Names, StringParts, StandsSplit
  <2>4. 0 \in 0..(Len(IpName) - 1) /\ pos + 0 = pos
    BY Names
  <2>5. At(data, pos + 0) = IpName[0 + 1] /\ pos + 0 < Len(data)
    BY <2>3, <2>4, Names, StandsAt
  <2>6. At(data, pos) = "2" /\ pos < Len(data)
    BY <2>4, <2>5, Names
  <2> QED
    BY <1>3, <1>5, <2>6
<1> QED
  BY <1>4, <1>5

\* When an entry stands where the parser is, and the round does not throw, it
\* reads this entry, and goes on behind it.
LEMMA EntryIsRead ==
  ASSUME peers \in ByteArray, i \in Nat, NEW p, Conforming(p), Stands(peers, i, Fields(p)), Fits
  PROVE  /\ id = p.id /\ ip = p.ip /\ port = p.port
         /\ eIdx + 1 = i + Len(Fields(p))
<1>1. /\ p.id # NoId => At(peers, i) = "7" /\ Len(IdField(p)) = 32
                        /\ mid(peers, i + 7 + 2 + 3, 20) = p.id
      /\ p.id = NoId => At(peers, i) = "2" /\ Len(IdField(p)) = 0
      /\ i < Len(peers)
  BY EntryBegins
<1>2. Len(peers) \in Nat
  BY DEF ByteArray
<1>3. BytesAt(i) = {At(peers, i)}
  <2>1. i \in 0..Len(peers)
    BY <1>1, <1>2
  <2> QED
    BY <2>1 DEF BytesAt
<1>4. haveId <=> p.id # NoId
  BY <1>1, <1>3 DEF Fits, CanBe, IpAt
<1>5. id = p.id
  BY <1>1, <1>4 DEF id
<1> DEFINE at == i + Len(IdField(p))
<1>6. IpAt = at /\ at \in Nat
  <2>1. CASE p.id # NoId
    <3>1. at = i + 32 /\ IpAt = i + 7 + 2 + 3 + 20
      BY <1>1, <1>4, <2>1 DEF IpAt
    <3> HIDE DEF at
    <3> QED
      BY <3>1
  <2>2. CASE p.id = NoId
    <3>1. at = i + 0 /\ IpAt = i
      BY <1>1, <1>4, <2>2 DEF IpAt
    <3> HIDE DEF at
    <3> QED
      BY <3>1
  <2> QED
    BY <2>1, <2>2
<1>7. /\ p.ip \in ByteArray /\ p.port \in ByteArray
      /\ \A k \in DOMAIN p.port : p.port[k] # "e"
  BY DEF Conforming, Peer
<1>8. /\ IpField(p) = IpName \o String(p.ip) /\ Len(IpField(p)) = 4 + Len(String(p.ip))
      /\ PortField(p) = (PortName \o p.port) \o <<"e">>
      /\ Len(PortField(p)) = 8 + Len(p.port)
      /\ Len(Fields(p)) = Len(IdField(p)) + Len(IpField(p)) + Len(PortField(p))
      /\ String(p.ip) \in ByteArray
  BY <1>7, FieldParts, StringParts DEF Conforming
<1>9. /\ Stands(peers, at, IpField(p))
      /\ Stands(peers, at + Len(IpField(p)), PortField(p))
  BY FieldsStand DEF Conforming
<1> HIDE DEF at
<1>10. Stands(peers, at + 4, String(p.ip)) /\ at + 4 \in Nat
  <2>1. Stands(peers, at, IpName \o String(p.ip))
    BY <1>8, <1>9
  <2>2. Stands(peers, at + Len(IpName), String(p.ip))
    BY <1>6, <1>8, <2>1, Names, StandsSplit
  <2> QED
    BY <1>6, <2>2, Names
<1> DEFINE start == at + 4
           colon == indexOf(peers, ":", start)
           len == toInt(mid(peers, start, colon - start))
<1>11. /\ colon \in Nat /\ len = Len(p.ip)
       /\ mid(peers, colon + 1, len) = p.ip
       /\ colon + 1 + len = start + Len(String(p.ip))
  BY <1>7, <1>10, AddressIsRead
<1>12. colonIdx = colon
  <2>1. IpAt + 2 + 2 = start
    BY <1>6
  <2> QED
    BY <2>1 DEF colonIdx
<1>13. ipLen = len
  <2>1. colonIdx - IpAt - 4 = colon - start /\ IpAt + 4 = start
    <3> HIDE DEF colon
    <3> QED
      BY <1>6, <1>11, <1>12
  <2> QED
    BY <2>1 DEF ipLen
<1>14. ip = p.ip
  BY <1>11, <1>12, <1>13 DEF ip
<1> DEFINE behind == at + Len(IpField(p))
<1>15. Len(String(p.ip)) \in Nat /\ Len(p.port) \in Nat
  BY <1>7, <1>8 DEF ByteArray
<1>16. PortAt = behind /\ behind \in Nat
  <2>1. start + Len(String(p.ip)) = behind /\ behind \in Nat
    BY <1>6, <1>8, <1>15
  <2> HIDE DEF behind, start, colon, len
  <2> QED
    BY <1>11, <1>12, <1>13, <2>1 DEF PortAt
<1> HIDE DEF behind, start, colon, len
<1>17. /\ indexOf(peers, "e", behind + 4 + 2) = behind + 7 + Len(p.port)
       /\ mid(peers, behind + 7, indexOf(peers, "e", behind + 4 + 2) - behind - 7) = p.port
  <2>1. Stands(peers, behind, (PortName \o p.port) \o <<"e">>)
    BY <1>8, <1>9 DEF behind
  <2> QED
    BY <1>7, <1>16, <2>1, PortIsRead
<1>18. eIdx = behind + 7 + Len(p.port)
  <2>1. behind + 4 + 2 >= 0
    BY <1>16
  <2> QED
    BY <1>16, <1>17, <2>1 DEF eIdx, indexFrom
<1>19. port = p.port
  <2>1. behind + 7 >= 0 /\ behind + 4 + 2 >= 0
    BY <1>16
  <2> QED
    BY <1>16, <1>17, <2>1 DEF port, eIdx, midFrom, indexFrom
<1>20. eIdx + 1 = i + Len(Fields(p))
  <2> DEFINE a == Len(IdField(p))
             b == Len(IpField(p))
  <2>1. a \in Nat
    <3>1. a = 32 \/ a = 0
      BY <1>1
    <3> QED
      BY <3>1
  <2>2. b \in Nat
    BY <1>8, <1>15
  <2>3. behind = i + a + b
    BY DEF behind, at
  <2> DEFINE c == Len(p.port)
             all == Len(Fields(p))
             end == eIdx
  <2>4. all = a + b + (8 + c)
    BY <1>8
  <2>5. end = behind + 7 + c /\ c \in Nat
    BY <1>15, <1>18
  <2> HIDE DEF a, b, c, all, end
  <2>6. end + 1 = i + all
    BY <2>1, <2>2, <2>3, <2>4, <2>5
  <2> QED
    BY <2>6 DEF end, all
<1> QED
  BY <1>5, <1>14, <1>19, <1>20

-----------------------------------------------------------------------------
(* Where a round ends, whatever the bytes are *)

\* mid returns bytes.
LEMMA MidIsBytes ==
  ASSUME NEW data \in ByteArray, NEW pos \in Nat, NEW len \in Int
  PROVE  mid(data, pos, len) \in ByteArray
<1>1. data \in Seq(Byte) /\ Len(data) \in Nat
  BY DEF ByteArray
<1>2. ASSUME NEW n \in Int, n <= Len(data) PROVE SubSeq(data, pos + 1, n) \in Seq(Byte)
  <2>1. \A k \in (pos + 1)..n : k \in 1..Len(data) /\ data[k] \in Byte
    BY <1>1, <1>2
  <2> QED
    BY <1>1, <1>2, <2>1, SubSeqProperties
<1>3. CASE len < 0 \/ pos + len > Len(data)
  BY <1>1, <1>2, <1>3 DEF mid, ByteArray
<1>4. CASE ~(len < 0 \/ pos + len > Len(data))
  <2>1. pos + len \in Int /\ pos + len <= Len(data)
    BY <1>1, <1>4
  <2>2. SubSeq(data, pos + 1, pos + len) \in Seq(Byte)
    BY <1>2, <2>1
  <2> QED
    BY <1>4, <2>2 DEF mid, ByteArray
<1> QED
  BY <1>3, <1>4

\* toInt returns an integer, whatever it is given.
LEMMA ToIntIsInt == ASSUME NEW s \in ByteArray PROVE toInt(s) \in Int
<1>1. PICK v : /\ IsReading(s, v)
               /\ toInt(s) = IF ~IsNumeral(s) THEN 0
                             ELSE IF At(s, 0) = "-" THEN -v[Len(s)] ELSE v[Len(s)]
  BY ReadingExists
<1>2. Len(s) \in Nat
  BY DEF ByteArray
<1>3. CASE IsNumeral(s)
  <2> DEFINE T == {n \in Nat : n <= Len(s) => v[n] \in Int}
  <2>1. 0 \in T
    BY <1>1, <1>2 DEF IsReading
  <2>2. ASSUME NEW n \in Nat, n \in T PROVE n + 1 \in T
    <3> SUFFICES ASSUME n + 1 <= Len(s) PROVE v[n + 1] \in Int
      OBVIOUS
    <3>1. n + 1 \in 0..Len(s) /\ v[n] \in Int /\ n + 1 # 0 /\ (n + 1) - 1 = n
      BY <1>2, <2>2
    <3>2. v[n + 1] = IF At(s, n) = "-" THEN 0 ELSE 10 * v[n] + DigitValue(At(s, n))
      BY <1>1, <3>1 DEF IsReading
    <3>3. CASE At(s, n) = "-"
      BY <3>2, <3>3
    <3>4. CASE At(s, n) # "-"
      <4>1. IsDigit(At(s, n))
        BY <1>2, <1>3, <3>1, <3>4 DEF IsNumeral
      <4>2. DigitValue(At(s, n)) \in Int
        <5>1. PICK d \in 1..10 : At(s, n) = Digit[d]
          BY <4>1 DEF IsDigit
        <5>2. d - 1 \in 0..9 /\ (d - 1) + 1 = d
          OBVIOUS
        <5>3. DigitValue(Digit[d]) = d - 1
          BY <5>2, DigitIsWorth
        <5> QED
          BY <5>1, <5>2, <5>3
      <4> HIDE DEF T
      <4> QED
        BY <3>1, <3>2, <3>4, <4>2
    <3> QED
      BY <3>3, <3>4
  <2> HIDE DEF T
  <2>3. Len(s) \in T
    BY <1>2, <2>1, <2>2, InductionInSet
  <2>4. v[Len(s)] \in Int
    BY <1>2, <2>3 DEF T
  <2> QED
    BY <1>1, <1>3, <2>4
<1> QED
  BY <1>1, <1>3

\* indexOf finds nothing, or a place from the given one on.
LEMMA IndexOfInside ==
  ASSUME NEW data \in ByteArray, NEW byte \in Byte, NEW from \in Nat
  PROVE  \/ indexOf(data, byte, from) = -1
         \/ indexOf(data, byte, from) \in from..(Len(data) - 1)
<1>1. Len(data) \in Nat
  BY DEF ByteArray
<1> DEFINE T == {p \in from..(Len(data) - 1) : At(data, p) = byte}
<1>2. CASE T = {}
  BY <1>2 DEF indexOf
<1>3. CASE T # {}
  <2>1. T \subseteq Nat
    BY <1>1
  <2>2. PICK p \in T : \A q \in T : p <= q
    BY <1>3, <2>1, LeastElement
  <2>3. p \in from..(Len(data) - 1) /\ At(data, p) = byte
    OBVIOUS
  <2>4. ASSUME NEW q \in from..(p - 1) PROVE At(data, q) # byte
    BY <1>1, <2>2, <2>3
  <2>5. indexOf(data, byte, from) = p
    BY <2>3, <2>4, IndexOfFirst
  <2> QED
    BY <2>3, <2>5
<1> QED
  BY <1>2, <1>3

\* The end of a round is inside the bytes; when its fields are closed, it is
\* behind the beginning.
LEMMA RoundInside ==
  ASSUME peers \in ByteArray, i \in Nat
  PROVE  /\ eIdx + 1 \in 0..Len(peers)
         /\ ~UnclosedField => i < eIdx + 1
<1>1. Len(peers) \in Nat /\ ":" \in Byte /\ "e" \in Byte
  <2>1. Len(peers) \in Nat
    BY DEF ByteArray
  <2>2. ":" \in Byte /\ "e" \in Byte
    BY DEF Byte
  <2> QED
    BY <2>1, <2>2
<1>2. IpAt \in Nat /\ IpAt >= i
  BY DEF IpAt
<1>3. colonIdx = -1 \/ colonIdx \in (IpAt + 2 + 2)..(Len(peers) - 1)
  <2>1. IpAt + 2 + 2 \in Nat
    BY <1>2
  <2> QED
    BY <1>1, <2>1, IndexOfInside DEF colonIdx
<1>4. ipLen \in Int
  <2>1. IpAt + 4 \in Nat /\ colonIdx - IpAt - 4 \in Int
    BY <1>1, <1>2, <1>3
  <2> QED
    BY <2>1, MidIsBytes, ToIntIsInt DEF ipLen
<1>5. PortAt \in Int
  BY <1>1, <1>2, <1>3, <1>4 DEF PortAt
<1> DEFINE from == PortAt + 4 + 2
           start == IF from >= 0 THEN from
                    ELSE IF from + Len(peers) >= 0 THEN from + Len(peers) ELSE 0
<1>6. start \in Nat /\ (from >= 0 => start = from)
  BY <1>1, <1>5
<1>7. eIdx = indexOf(peers, "e", start)
  BY DEF eIdx, indexFrom
<1> HIDE DEF start
<1>8. eIdx = -1 \/ eIdx \in start..(Len(peers) - 1)
  BY <1>1, <1>6, <1>7, IndexOfInside
<1>9. eIdx + 1 \in 0..Len(peers)
  BY <1>1, <1>6, <1>8
<1>10. ASSUME ~UnclosedField PROVE i < eIdx + 1
  <2>1. colonIdx # -1 /\ ~(ipLen < 0) /\ eIdx # -1
    BY <1>10 DEF UnclosedField
  <2>2. PortAt > i
    BY <1>2, <1>3, <1>4, <2>1 DEF PortAt
  <2>3. from >= 0 /\ from > i
    BY <1>5, <2>2
  <2> HIDE DEF from
  <2> QED
    BY <1>6, <1>8, <2>1, <2>3
<1> QED
  BY <1>9, <1>10

-----------------------------------------------------------------------------
(* The inductive invariant *)

\* the entries of a list of peers
Entries(list) == [n \in DOMAIN list |-> Fields(list[n])]

\* j[n] is what the first n peers take.  The parser stands behind the entries
\* of the peers it has recorded, and these are the first that were sent; behind
\* all of them is an 'e'.
InStep(j) ==
  LET sent == reply.sent
      all == j[Len(sent)]
      done == Len(peerList)
  IN  /\ IsJoin(Entries(sent), j)
      /\ Stands(peers, 0, all) /\ Len(peers) = Len(all) + 1 /\ At(peers, Len(all)) = "e"
      /\ done \in 0..Len(sent) /\ peerList = SubSeq(sent, 1, done)
      /\ i = Len(j[done])
      /\ outcome = "returned" => done = Len(sent)

\* Nothing was read.
Aside == At(peers, 0) \notin {"2", "7", "e"} /\ i = 0 /\ outcome # "returned"

\* The parser is inside the bytes; a list is put aside, and in peers written bare
\* it is in step.
IInv ==
  /\ reply \in Replies
  /\ peers \in ByteArray /\ i \in 0..Len(peers)
  /\ reply.form = "list" => Aside
  /\ reply.form = "bare" => \E j : InStep(j)

\* The peers of a reply, and their entries.
LEMMA SentPeers ==
  ASSUME NEW r \in Replies, r.form = "bare"
  PROVE  /\ r.sent \in Seq(Peer) /\ Len(r.sent) <= MaxPeers
         /\ \A n \in 1..Len(r.sent) : Conforming(r.sent[n])
         /\ Entries(r.sent) \in Seq(ByteArray) /\ Len(Entries(r.sent)) = Len(r.sent)
         /\ \A n \in 1..Len(r.sent) : Entries(r.sent)[n] = Fields(r.sent[n])
<1>1. /\ r.sent \in Seq(Peer) /\ Len(r.sent) <= MaxPeers
      /\ \A n \in DOMAIN r.sent :
           /\ Len(r.sent[n].id) \in {0, 20}
           /\ \A p \in DOMAIN r.sent[n].port : r.sent[n].port[p] # "e"
  BY RepliesAssumption
<1> DEFINE s == r.sent
<1>2. s \in Seq(Peer) /\ DOMAIN s = 1..Len(s) /\ \A n \in 1..Len(s) : s[n] \in Peer
  BY <1>1
<1>3. \A n \in 1..Len(s) : Conforming(s[n])
  BY <1>1, <1>2 DEF Conforming
<1>4. \A n \in 1..Len(s) : Fields(s[n]) \in ByteArray
  BY <1>2, FieldParts
<1> HIDE DEF s
<1>5. Entries(s) = [n \in 1..Len(s) |-> Fields(s[n])]
  BY <1>2 DEF Entries
<1>6. Entries(s) \in Seq(ByteArray) /\ Len(Entries(s)) = Len(s)
  BY <1>2, <1>4, <1>5
<1>7. \A n \in 1..Len(s) : Entries(s)[n] = Fields(s[n])
  BY <1>5
<1> QED
  BY <1>1, <1>3, <1>6, <1>7 DEF s

\* Without the last byte, the peers written bare are their entries and one 'e'.
LEMMA BarePeers ==
  ASSUME NEW r \in Replies, r.form = "bare"
  PROVE  \E j : LET all == j[Len(r.sent)]
                IN  /\ IsJoin(Entries(r.sent), j)
                    /\ Stands(PeersOf(r), 0, all)
                    /\ Len(PeersOf(r)) = Len(all) + 1
                    /\ At(PeersOf(r), Len(all)) = "e"
                    /\ PeersOf(r) \in ByteArray
<1> DEFINE parts == Entries(r.sent)
<1>1. parts \in Seq(ByteArray) /\ Len(parts) = Len(r.sent)
  BY SentPeers
<1>2. r.bytes = Join(parts) \o <<"e", "e">>
  BY RepliesAssumption DEF Bare, Entries
<1> HIDE DEF parts
<1>3. PICK j : IsJoin(parts, j) /\ Join(parts) = j[Len(parts)]
  BY <1>1, JoinExists
<1> DEFINE all == j[Len(r.sent)]
           ends == <<"e", "e">>
           bytes == all \o ends
           data == PeersOf(r)
<1>4. all \in ByteArray /\ Len(all) \in Nat
  <2>1. all \in ByteArray
    <3>1. Len(parts) \in 0..Len(parts)
      BY <1>1
    <3> QED
      BY <1>1, <1>3, <3>1 DEF IsJoin
  <2> QED
    BY <2>1 DEF ByteArray
<1>5. ends \in ByteArray /\ Len(ends) = 2 /\ ends[1] = "e"
  <2>1. "e" \in Byte
    BY DEF Byte
  <2>2. ends \in Seq(Byte)
    BY <2>1
  <2> QED
    BY <2>2 DEF ByteArray
<1>6. r.bytes = bytes
  BY <1>1, <1>2, <1>3
<1> HIDE DEF all, ends
<1>7. /\ bytes \in ByteArray /\ Len(bytes) = Len(all) + Len(ends)
      /\ \A k \in 1..Len(all) : bytes[k] = all[k]
      /\ \A k \in 1..Len(ends) : bytes[Len(all) + k] = ends[k]
  BY <1>4, <1>5, Concatenated
<1> HIDE DEF bytes
<1>8. data = SubSeq(bytes, 1, Len(all) + 1)
  <2>1. Len(r.bytes) - 1 = Len(all) + 1 /\ 0 + (Len(all) + 1) <= Len(bytes) /\ ~(Len(all) + 1 < 0)
        /\ 0 + 1 = 1 /\ 0 + (Len(all) + 1) = Len(all) + 1
    BY <1>4, <1>5, <1>6, <1>7
  <2>2. data = mid(bytes, 0, Len(all) + 1)
    BY <1>6, <2>1 DEF PeersOf
  <2> QED
    BY <2>1, <2>2 DEF mid
<1>9. /\ data \in ByteArray /\ Len(data) = Len(all) + 1
      /\ \A k \in 1..(Len(all) + 1) : data[k] = bytes[k]
  <2>1. bytes \in Seq(Byte) /\ Len(all) + 1 <= Len(bytes) /\ Len(bytes) \in Nat
    BY <1>4, <1>5, <1>7 DEF ByteArray
  <2> QED
    BY <1>4, <1>8, <2>1 DEF ByteArray
<1> HIDE DEF data
<1>10. Stands(data, 0, all)
  BY <1>4, <1>7, <1>9 DEF Stands
<1>11. At(data, Len(all)) = "e"
  <2>1. Len(all) \in 0..(Len(data) - 1) /\ Len(all) + 1 \in 1..(Len(all) + 1) /\ 1 \in 1..Len(ends)
    BY <1>4, <1>5, <1>9
  <2> QED
    BY <1>5, <1>7, <1>9, <2>1 DEF At
<1> QED
  BY <1>3, <1>9, <1>10, <1>11 DEF all, data, parts

\* What the loop is given is bytes, and of a list it sees no letter of an entry.
LEMMA PeersOfReply ==
  ASSUME NEW r \in Replies
  PROVE  /\ PeersOf(r) \in ByteArray
         /\ At(PeersOf(r), 0) \in {"", At(r.bytes, 0)}
<1> DEFINE b == r.bytes
           data == PeersOf(r)
<1>1. b \in ByteArray /\ b \in Seq(Byte) /\ Len(b) \in Nat
  BY RepliesAssumption DEF ByteArray
<1>2. data = mid(b, 0, Len(b) - 1)
  BY DEF PeersOf
<1> HIDE DEF b, data
<1>3. data \in ByteArray
  <2>1. Len(b) - 1 \in Int /\ 0 \in Nat
    BY <1>1
  <2> QED
    BY <1>1, <1>2, <2>1, MidIsBytes
<1>4. ASSUME Len(data) = 0 PROVE At(data, 0) = ""
  BY <1>4 DEF At
<1>5. ASSUME Len(data) # 0 PROVE At(data, 0) = At(b, 0)
  <2>1. Len(data) \in Nat
    BY <1>3 DEF ByteArray
  <2>2. data = SubSeq(b, 1, Len(b)) \/ (data = SubSeq(b, 1, Len(b) - 1) /\ Len(b) > 0)
    BY <1>1, <1>2 DEF mid
  <2>3. Len(b) # 0 /\ data[1] = b[1]
    BY <1>1, <1>5, <2>1, <2>2
  <2>4. 0 \in 0..(Len(data) - 1) /\ 0 \in 0..(Len(b) - 1)
    BY <1>1, <1>5, <2>1, <2>3
  <2>5. At(data, 0) = data[0 + 1] /\ At(b, 0) = b[0 + 1]
    BY <2>4 DEF At
  <2> QED
    BY <2>3, <2>5
<1> QED
  BY <1>3, <1>4, <1>5 DEF data, b

\* The parser starts in step, or aside.
LEMMA InitIInv == Init => IInv
<1> SUFFICES ASSUME Init PROVE IInv
  OBVIOUS
<1>1. /\ reply \in Replies /\ peers = PeersOf(reply) /\ i = 0 /\ peerList = <<>>
      /\ outcome = "parsing"
  BY DEF Init
<1>2. /\ peers \in ByteArray /\ At(peers, 0) \in {"", At(reply.bytes, 0)}
      /\ i \in 0..Len(peers)
  <2>1. peers \in ByteArray /\ At(peers, 0) \in {"", At(reply.bytes, 0)}
    BY <1>1, PeersOfReply
  <2>2. peers \in Seq(Byte)
    BY <2>1, Zenon DEF ByteArray
  <2>3. 0 \in 0..Len(peers)
    BY <2>2
  <2> QED
    BY <1>1, <2>1, <2>3, Zenon
<1>3. ASSUME reply.form = "bare" PROVE \E j : InStep(j)
  <2>1. PICK j : LET all == j[Len(reply.sent)]
                 IN  /\ IsJoin(Entries(reply.sent), j)
                     /\ Stands(PeersOf(reply), 0, all)
                     /\ Len(PeersOf(reply)) = Len(all) + 1
                     /\ At(PeersOf(reply), Len(all)) = "e"
                     /\ PeersOf(reply) \in ByteArray
    BY <1>1, <1>3, BarePeers
  <2>2. reply.sent \in Seq(Peer)
    BY <1>1, <1>3, SentPeers
  <2>3. Len(peerList) = 0 /\ 0 \in 0..Len(reply.sent) /\ peerList = SubSeq(reply.sent, 1, 0)
    BY <1>1, <2>2
  <2>4. i = Len(j[0])
    BY <1>1, <2>1 DEF IsJoin
  <2> QED
    BY <1>1, <2>1, <2>3, <2>4 DEF InStep
<1>4. ASSUME reply.form = "list" PROVE Aside
  <2>1. At(reply.bytes, 0) = "l"
    BY <1>1, <1>4, RepliesAssumption
  <2> QED
    BY <1>1, <1>2, <2>1 DEF Aside
<1> QED
  BY <1>1, <1>2, <1>3, <1>4 DEF IInv

\* As long as a peer is missing, its entry stands where the parser is.
LEMMA NextStands ==
  ASSUME reply \in Replies, reply.form = "bare", peers \in ByteArray, NEW j, InStep(j), Len(peerList) # Len(reply.sent)
  PROVE  LET n == Len(peerList) + 1
             p == reply.sent[n]
         IN  /\ n \in 1..Len(reply.sent) /\ Conforming(p)
             /\ i \in Nat /\ Stands(peers, i, Fields(p))
             /\ Len(j[n]) = i + Len(Fields(p))
<1> DEFINE sent == reply.sent
           done == Len(peerList)
           parts == Entries(sent)
           n == done + 1
           p == sent[n]
<1>1. /\ sent \in Seq(Peer) /\ Len(sent) \in Nat
      /\ \A k \in 1..Len(sent) : Conforming(sent[k])
      /\ parts \in Seq(ByteArray) /\ Len(parts) = Len(sent)
      /\ \A k \in 1..Len(sent) : parts[k] = Fields(sent[k])
  BY SentPeers
<1>2. /\ IsJoin(parts, j) /\ Stands(peers, 0, j[Len(sent)])
      /\ done \in 0..Len(sent) /\ done # Len(sent)
      /\ i = Len(j[done])
  BY DEF InStep
<1>3. n \in 1..Len(sent) /\ n - 1 = done /\ n \in 1..Len(parts)
  BY <1>1, <1>2
<1>4. Conforming(p) /\ parts[n] = Fields(p)
  BY <1>1, <1>3
<1> HIDE DEF sent, done, parts, n, p
<1>5. /\ j[done] \in ByteArray
      /\ Len(j[n]) = Len(j[done]) + Len(Fields(p))
  <2>1. j[n - 1] \in ByteArray /\ Len(j[n]) = Len(j[n - 1]) + Len(parts[n])
    BY <1>1, <1>2, <1>3, JoinStep
  <2> QED
    BY <1>3, <1>4, <2>1
<1>6. i \in Nat
  BY <1>2, <1>5 DEF ByteArray
<1>7. Stands(peers, i, Fields(p))
  <2>1. Stands(peers, 0, j[Len(parts)]) /\ 0 \in Nat
    BY <1>1, <1>2
  <2>2. Stands(peers, 0 + Len(j[n - 1]), parts[n])
    BY <1>1, <1>2, <1>3, <2>1, JoinStands
  <2>3. 0 + Len(j[n - 1]) = i
    BY <1>2, <1>3, <1>6
  <2> QED
    BY <1>4, <2>2, <2>3
<1> QED
  BY <1>2, <1>3, <1>4, <1>5, <1>6, <1>7 DEF sent, done, n, p

\* Behind the last entry is the 'e' that ends the list.
LEMMA EndStands ==
  ASSUME reply \in Replies, reply.form = "bare", peers \in ByteArray, NEW j, InStep(j), Len(peerList) = Len(reply.sent)
  PROVE  BytesAt(i) = {"e"}
<1> DEFINE all == j[Len(reply.sent)]
<1>1. i = Len(all) /\ Len(peers) = Len(all) + 1 /\ At(peers, Len(all)) = "e"
  BY DEF InStep
<1>2. Len(all) \in Nat
  <2>1. Len(Entries(reply.sent)) = Len(reply.sent) /\ Len(reply.sent) \in Nat
    BY SentPeers
  <2>2. all \in ByteArray
    BY <2>1 DEF InStep, IsJoin
  <2> QED
    BY <2>2 DEF ByteArray
<1> HIDE DEF all
<1>3. i \in 0..Len(peers)
  BY <1>1, <1>2
<1> QED
  BY <1>1, <1>3 DEF BytesAt

\* A round that reads a peer reads the next one that was sent.
LEMMA ReadInStep ==
  ASSUME reply \in Replies, reply.form = "bare", peers \in ByteArray, NEW j, InStep(j), PeerRead
  PROVE  InStep(j)'
<1> DEFINE sent == reply.sent
           done == Len(peerList)
           n == done + 1
           p == sent[n]
<1>1. Len(peerList) # Len(reply.sent)
  BY EndStands DEF PeerRead, CanDiffer
<1>2. /\ n \in 1..Len(sent) /\ Conforming(p)
      /\ i \in Nat /\ Stands(peers, i, Fields(p))
      /\ Len(j[n]) = i + Len(Fields(p))
  BY <1>1, NextStands
<1>3. sent \in Seq(Peer) /\ Len(sent) \in Nat /\ Len(sent) <= MaxPeers /\ MaxPeers \in Nat
  BY SentPeers, RepliesAssumption
<1>4. done \in 0..Len(sent) /\ peerList = SubSeq(sent, 1, done)
  BY DEF InStep
<1> HIDE DEF sent, done, n, p
<1>5. id = p.id /\ ip = p.ip /\ port = p.port /\ eIdx + 1 = i + Len(Fields(p))
  <2>1. Fits
    BY DEF PeerRead
  <2> QED
    BY <1>2, <2>1, EntryIsRead
<1>6. /\ reply' = reply /\ peers' = peers /\ outcome' = outcome /\ outcome = "parsing"
      /\ i' = eIdx + 1
      /\ peerList' = IF Len(peerList) < MaxPeers
                     THEN Append(peerList, [id |-> id, ip |-> ip, port |-> port]) ELSE peerList
  BY DEF PeerRead
<1>7. peerList' = Append(peerList, p)
  <2>1. Len(peerList) < MaxPeers
    BY <1>2, <1>3, <1>4 DEF done, n
  <2>2. p = [id |-> p.id, ip |-> p.ip, port |-> p.port]
    BY <1>2 DEF Conforming, Peer
  <2> QED
    BY <1>5, <1>6, <2>1, <2>2
<1>8. SubSeq(sent, 1, n) = Append(SubSeq(sent, 1, done), p) /\ Len(SubSeq(sent, 1, n)) = n
  BY <1>2, <1>3, <1>4 DEF n, p
<1>9. peerList' = SubSeq(sent, 1, n) /\ Len(peerList') = n
  BY <1>4, <1>7, <1>8
<1>10. i' = Len(j[n])
  BY <1>2, <1>5, <1>6
<1>11. reply'.sent = sent /\ n \in 0..Len(sent)
  BY <1>2, <1>6 DEF sent
<1>12. /\ IsJoin(Entries(sent), j)
       /\ Stands(peers, 0, j[Len(sent)]) /\ Len(peers) = Len(j[Len(sent)]) + 1
       /\ At(peers, Len(j[Len(sent)])) = "e"
  BY DEF InStep, sent
<1> QED
  BY <1>6, <1>9, <1>10, <1>11, <1>12 DEF InStep

\* No step takes the parser out of step.
LEMMA NextIInv == IInv /\ [Next]_vars => IInv'
<1> SUFFICES ASSUME IInv, [Next]_vars PROVE IInv'
  OBVIOUS
<1>1. reply \in Replies /\ peers \in ByteArray /\ i \in Nat /\ Len(peers) \in Nat
  BY DEF IInv, ByteArray
<1>2. reply' = reply /\ peers' = peers
  BY DEF Next, ListEnds, PeerRead, OtherByte, vars
<1>3. i' \in 0..Len(peers)
  <2>1. CASE PeerRead
    BY <1>1, <2>1, RoundInside DEF PeerRead
  <2>2. CASE i' = i
    BY <2>2 DEF IInv
  <2> QED
    BY <2>1, <2>2 DEF Next, ListEnds, OtherByte, vars
<1>4. ASSUME reply.form = "list" PROVE Aside'
  <2>1. Aside /\ i = 0 /\ 0 \in 0..Len(peers)
    BY <1>1, <1>4 DEF IInv, Aside
  <2>2. BytesAt(i) = {At(peers, 0)}
    BY <2>1 DEF BytesAt
  <2>3. ~ListEnds
    BY <2>1, <2>2 DEF ListEnds, CanBe, Aside
  <2>4. ~PeerRead
    BY <2>1, <2>2 DEF PeerRead, Fits, CanBe, haveId, IpAt, Aside
  <2>5. i' = i /\ (outcome' = outcome \/ outcome' = "threw")
    BY <2>3, <2>4 DEF Next, OtherByte, vars
  <2> QED
    BY <1>2, <2>1, <2>5 DEF Aside
<1>5. ASSUME reply.form = "bare" PROVE (\E j : InStep(j))'
  <2>1. PICK j : InStep(j)
    BY <1>5 DEF IInv
  <2>2. CASE PeerRead
    <3>1. InStep(j)'
      BY <1>1, <1>5, <2>1, <2>2, ReadInStep
    <3> QED
      BY <3>1
  <2>3. CASE ListEnds
    <3>1. /\ peerList' = peerList /\ i' = i /\ CanBe(i, "e")
      BY <2>3 DEF ListEnds
    <3>2. Len(peerList) = Len(reply.sent)
      <4> SUFFICES ASSUME Len(peerList) # Len(reply.sent) PROVE FALSE
        OBVIOUS
      <4> DEFINE p == reply.sent[Len(peerList) + 1]
      <4>1. Conforming(p) /\ Stands(peers, i, Fields(p))
        BY <1>1, <1>5, <2>1, NextStands
      <4>2. At(peers, i) \in {"7", "2"} /\ i < Len(peers)
        BY <1>1, <4>1, EntryBegins
      <4>3. i \in 0..Len(peers)
        BY <1>1, <4>2
      <4> QED
        BY <3>1, <4>2, <4>3 DEF CanBe, BytesAt
    <3>3. InStep(j)'
      BY <1>2, <2>1, <3>1, <3>2 DEF InStep
    <3> QED
      BY <3>3
  <2>4. CASE OtherByte \/ UNCHANGED vars
    <3>1. InStep(j)'
      BY <2>1, <2>4 DEF OtherByte, vars, InStep
    <3> QED
      BY <3>1
  <2> QED
    BY <2>2, <2>3, <2>4 DEF Next
<1> QED
  BY <1>1, <1>2, <1>3, <1>4, <1>5 DEF IInv

\* The parser stays inside the bytes, whatever they are; it reads nothing of a
\* list, and in peers written bare it is always in step with what was sent.
THEOREM InStepAlways == Spec => []IInv
<1>1. Init => IInv
  BY InitIInv
<1>2. IInv /\ [Next]_vars => IInv'
  BY NextIInv
<1> QED
  BY <1>1, <1>2, PTL DEF Spec

\* Every round of parseTrackerResponse that finds its fields closed goes forward,
\* in any bytes, those of a compact reply included: the loop can only go on for
\* ever over fields that are not closed.
THEOREM RoundsAdvance == Spec => ClosedRoundsAdvance
<1>1. IInv /\ [Next]_vars =>
        [PeerRead /\ ~UnclosedField => i < i' /\ i' <= Len(peers)]_vars
  <2> SUFFICES ASSUME IInv, PeerRead, ~UnclosedField PROVE i < i' /\ i' <= Len(peers)
    OBVIOUS
  <2>1. peers \in ByteArray /\ i \in Nat /\ Len(peers) \in Nat
    BY DEF IInv, ByteArray
  <2>2. i' = eIdx + 1
    BY DEF PeerRead
  <2>3. eIdx + 1 \in 0..Len(peers) /\ i < eIdx + 1
    BY <2>1, RoundInside
  <2> QED
    BY <2>1, <2>2, <2>3
<1> QED
  BY <1>1, InStepAlways, PTL DEF Spec, ClosedRoundsAdvance

\* parseTrackerResponse never returns a list of dictionaries, and peers written
\* bare it returns as they were sent, each with its own id, address and port, for
\* any number of peers and addresses and ids made of any letters.
THEOREM ReturnedAsSent == Spec => []PeersAsSent
<1>1. IInv => PeersAsSent
  <2> SUFFICES ASSUME IInv, outcome = "returned"
               PROVE  reply.form # "list" /\ (reply.form = "bare" => peerList = reply.sent)
    BY DEF PeersAsSent
  <2>1. reply.form # "list"
    BY DEF IInv, Aside
  <2>2. ASSUME reply.form = "bare" PROVE peerList = reply.sent
    <3>1. PICK j : InStep(j)
      BY <2>2 DEF IInv
    <3>2. Len(peerList) = Len(reply.sent) /\ peerList = SubSeq(reply.sent, 1, Len(peerList))
      BY <3>1 DEF InStep
    <3>3. reply.sent \in Seq(Peer)
      BY <2>2, SentPeers DEF IInv
    <3> QED
      BY <3>2, <3>3
  <2> QED
    BY <2>1, <2>2
<1> QED
  BY <1>1, InStepAlways, PTL

=============================================================================
