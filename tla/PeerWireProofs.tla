--------------------------- MODULE PeerWireProofs ---------------------------
(***************************************************************************)
(* For any messages with any arguments, in any number: the frames of       *)
(* BtLocalPeer, without the handshake and the bitfield, keep the promise   *)
(* of MessageStream.  A frame is as long as its prefix says and has the    *)
(* payload of the description in it (FramesAreUnderstood), and as long as  *)
(* the caller asks for neither of the two, the other end reads the         *)
(* payloads in the order they were sent, however the network cuts the      *)
(* bytes (StreamIsKept).  Neither says anything of the message IDs.        *)
(***************************************************************************)
EXTENDS PeerWire, SequenceTheorems, TLAPS

Byte == {n \in Nat : n < 256}

\* the values of an int that a length or an index may have
Int31 == {n \in Nat : n <= 2147483647}

Int16 == {n \in Nat : n < 65536}

\* the first prefix that begins with the 19 of a handshake, 19 * 2^24
HandshakePrefix == 318767104

PlainNames == {"choke", "unchoke", "interested", "notInterested"}

PlainCalls == [name : PlainNames]
KeepAlive == [name |-> "keepAlive"]
HaveCalls == [name : {"have"}, index : Int31]
BlockCalls == [name : {"request", "cancel"}, index : Int31, begin : Int31, length : Int31]
PieceCalls ==
  {c \in [name : {"piece"}, index : Int31, begin : Int31, length : Int31,
          pieceData : Seq(Byte)] :
     c.length + 9 < HandshakePrefix /\ c.begin + c.length <= Len(c.pieceData)}
PortCalls == [name : {"port"}, listenPort : Int16]

\* what a caller may ask for: a block lies in its piece
LegalCalls ==
  PlainCalls \cup {KeepAlive} \cup HaveCalls \cup BlockCalls \cup PieceCalls \cup PortCalls

-----------------------------------------------------------------------------
(* Integers *)

\* Division by 256.
LEMMA ByteDivision ==
  /\ \A n \in Int : n = (n \div 256) * 256 + (n % 256) /\ n % 256 \in Byte
  /\ \A n \in Int : n \div 256 \in Int
  /\ \A n \in Byte : n % 256 = n
<1>1. \A n \in Int : n = (n \div 256) * 256 + (n % 256)
  BY SMT
<1>2. \A n \in Int : n % 256 \in Byte
  BY SMT DEF Byte
<1>3. \A n \in Int : n \div 256 \in Int
  BY SMT
<1>4. \A n \in Byte : n % 256 = n
  BY SMT DEF Byte
<1> QED
  BY <1>1, <1>2, <1>3, <1>4

\* The divisors of FourBytes.
LEMMA FourBytesDivisions ==
  /\ \A n \in Int : n \div 65536 = (n \div 256) \div 256
  /\ \A n \in Int : n \div 16777216 = (n \div 65536) \div 256
  /\ \A n \in Int31 : n \div 16777216 \in Byte
  /\ \A n \in Int31 : n < HandshakePrefix => n \div 16777216 # 19
<1>1. \A n \in Int : n \div 65536 = (n \div 256) \div 256
  BY SMT
<1>2. \A n \in Int : n \div 16777216 = (n \div 65536) \div 256
  BY SMT
<1>3. \A n \in Int31 : n \div 16777216 \in Byte
  BY SMT DEF Int31, Byte
<1>4. \A n \in Int31 : n < HandshakePrefix => n \div 16777216 # 19
  BY SMT DEF Int31, HandshakePrefix
<1> QED
  BY <1>1, <1>2, <1>3, <1>4

\* The high byte comes first.
LEMMA ValueOfBytes ==
  ASSUME NEW a, NEW b, NEW c, NEW d
  PROVE  Value(<<a, b, c, d>>) = ((a * 256 + b) * 256 + c) * 256 + d
BY DEF Value

\* Four bytes, the high one first, and back.
LEMMA FourBytesValue ==
  ASSUME NEW n \in Int31
  PROVE  /\ FourBytes(n) \in Seq(Byte)
         /\ Len(FourBytes(n)) = 4
         /\ Value(FourBytes(n)) = n
         /\ n < HandshakePrefix => FourBytes(n)[1] # 19
<1>1. n \in Int
  BY SMT DEF Int31
<1>2. PICK c \in Int : c = n \div 256
  BY <1>1, ByteDivision
<1>3. PICK b \in Int : b = c \div 256
  BY ByteDivision
<1>4. PICK a \in Int : a = b \div 256
  BY ByteDivision
<1>5. b = n \div 65536 /\ a = n \div 16777216
  BY <1>1, <1>2, <1>3, <1>4, FourBytesDivisions, SMT
<1>6. a \in Byte /\ (n < HandshakePrefix => a # 19)
  BY <1>5, FourBytesDivisions, SMT
<1>7. a \in Byte /\ a % 256 = a
  BY <1>6, ByteDivision, SMT DEF Byte
<1>8. PICK x \in Byte, y \in Byte, z \in Byte :
        /\ x = b % 256 /\ y = c % 256 /\ z = n % 256
        /\ b = a * 256 + x /\ c = b * 256 + y /\ n = c * 256 + z
  BY <1>1, <1>2, <1>3, <1>4, ByteDivision
<1>9. FourBytes(n) = <<a, x, y, z>>
  BY <1>2, <1>5, <1>7, <1>8, SMT DEF FourBytes
<1>10. FourBytes(n) \in Seq(Byte) /\ Len(FourBytes(n)) = 4 /\ FourBytes(n)[1] = a
  BY <1>7, <1>9
<1>11. Value(FourBytes(n)) = ((a * 256 + x) * 256 + y) * 256 + z
  BY <1>9, ValueOfBytes
<1> QED
  BY <1>6, <1>8, <1>10, <1>11

\* Only the first four bytes count.
LEMMA ValueOfPrefix ==
  ASSUME NEW s, NEW t, \A n \in 1..4 : s[n] = t[n]
  PROVE  Value(s) = Value(t)
BY DEF Value

-----------------------------------------------------------------------------
(* Frames *)

\* Where the elements of a concatenation come from.
LEMMA ConcatAt ==
  ASSUME NEW S, NEW s \in Seq(S), NEW t \in Seq(S)
  PROVE  /\ s \o t \in Seq(S)
         /\ Len(s \o t) = Len(s) + Len(t)
         /\ \A n \in 1..Len(s) : (s \o t)[n] = s[n]
         /\ \A n \in 1..Len(t) : (s \o t)[Len(s) + n] = t[n]
<1>1. Len(s) \in Nat /\ Len(t) \in Nat
  BY LenProperties
<1>2. PICK u \in Seq(S) : u = s \o t
  BY ConcatProperties
<1>3. /\ Len(u) = Len(s) + Len(t)
      /\ \A n \in 1..(Len(s) + Len(t)) : u[n] = IF n <= Len(s) THEN s[n] ELSE t[n - Len(s)]
  BY <1>2, ConcatProperties
<1>4. \A n \in 1..Len(s) : u[n] = s[n]
  BY <1>1, <1>3
<1>5. ASSUME NEW n \in 1..Len(t)
      PROVE  u[Len(s) + n] = t[n]
  <2>1. Len(s) + n \in 1..(Len(s) + Len(t)) /\ ~(Len(s) + n <= Len(s)) /\ Len(s) + n - Len(s) = n
    BY <1>1
  <2> QED
    BY <1>3, <2>1
<1> QED
  BY <1>2, <1>3, <1>4, <1>5

\* What SubSeq cuts out, when it is there.
LEMMA SubSeqAt ==
  ASSUME NEW S, NEW s \in Seq(S), NEW a \in Nat, NEW b \in Nat, a + b <= Len(s)
  PROVE  /\ SubSeq(s, a + 1, a + b) \in Seq(S)
         /\ Len(SubSeq(s, a + 1, a + b)) = b
         /\ \A n \in 1..b : SubSeq(s, a + 1, a + b)[n] = s[a + n]
<1>1. Len(s) \in Nat /\ \A n \in 1..Len(s) : s[n] \in S
  BY LenProperties
<1>2. PICK c \in Int, d \in Int : c = a + 1 /\ d = a + b
  OBVIOUS
<1>3. \A n \in c..d : s[n] \in S
  BY <1>1, <1>2
<1>4. d - c + 1 = b /\ (IF c <= d THEN d - c + 1 ELSE 0) = b
  BY <1>2
<1>5. /\ SubSeq(s, c, d) \in Seq(S) /\ Len(SubSeq(s, c, d)) = b
      /\ \A n \in 1..b : SubSeq(s, c, d)[n] = s[c + n - 1]
  BY <1>3, <1>4, SubSeqProperties
<1>6. \A n \in 1..b : c + n - 1 = a + n
  BY <1>2
<1> QED
  BY <1>2, <1>5, <1>6

\* Two sequences, one behind the other, are found there again.
LEMMA BackOfConcat ==
  ASSUME NEW S, NEW s \in Seq(S), NEW t \in Seq(S)
  PROVE  /\ SubSeq(s \o t, 1, Len(s)) = s
         /\ SubSeq(s \o t, Len(s) + 1, Len(s \o t)) = t
<1>1. Len(s) \in Nat /\ Len(t) \in Nat
  BY LenProperties
<1>2. PICK u \in Seq(S) : u = s \o t
  BY ConcatAt
<1>3. /\ Len(u) = Len(s) + Len(t)
      /\ \A n \in 1..Len(s) : u[n] = s[n]
      /\ \A n \in 1..Len(t) : u[Len(s) + n] = t[n]
  BY <1>2, ConcatAt
<1>4. /\ SubSeq(u, 0 + 1, 0 + Len(s)) \in Seq(S) /\ Len(SubSeq(u, 0 + 1, 0 + Len(s))) = Len(s)
      /\ \A n \in 1..Len(s) : SubSeq(u, 0 + 1, 0 + Len(s))[n] = u[0 + n]
  BY <1>1, <1>3, SubSeqAt
<1>5. SubSeq(u, 0 + 1, 0 + Len(s)) = s
  <2>1. \A n \in 1..Len(s) : 0 + n = n
    BY <1>1
  <2> QED
    BY <1>3, <1>4, <2>1, SeqEqual
<1>6. /\ SubSeq(u, Len(s) + 1, Len(s) + Len(t)) \in Seq(S)
      /\ Len(SubSeq(u, Len(s) + 1, Len(s) + Len(t))) = Len(t)
      /\ \A n \in 1..Len(t) : SubSeq(u, Len(s) + 1, Len(s) + Len(t))[n] = u[Len(s) + n]
  BY <1>1, <1>3, SubSeqAt
<1>7. SubSeq(u, Len(s) + 1, Len(s) + Len(t)) = t
  BY <1>3, <1>6, SeqEqual
<1> QED
  BY <1>1, <1>2, <1>3, <1>5, <1>7

\* Where the parts of a frame are.
HasParts(frame, prefix, one, payload) ==
  /\ frame = (prefix \o one) \o payload
  /\ Len(frame) = 5 + Len(payload)
  /\ \A n \in 1..4 : frame[n] = prefix[n]
  /\ frame[5] = one[1]
  /\ SubSeq(frame, 6, Len(frame)) = payload

\* Four bytes, one byte, and any more.
LEMMA ThreeParts ==
  ASSUME NEW prefix \in Seq(Byte), NEW one \in Seq(Byte), NEW payload \in Seq(Byte)
  PROVE  Len(prefix) = 4 /\ Len(one) = 1 =>
         \E frame \in Seq(Byte) : HasParts(frame, prefix, one, payload)
<1>1. PICK front \in Seq(Byte) : front = prefix \o one
  BY ConcatProperties
<1>2. /\ Len(front) = Len(prefix) + Len(one)
      /\ \A n \in 1..Len(prefix) : front[n] = prefix[n]
      /\ \A n \in 1..Len(one) : front[Len(prefix) + n] = one[n]
  BY <1>1, ConcatAt
<1> SUFFICES ASSUME Len(prefix) = 4, Len(one) = 1
             PROVE  \E frame \in Seq(Byte) : HasParts(frame, prefix, one, payload)
  OBVIOUS
<1>3. Len(front) = 5 /\ \A n \in 1..4 : front[n] = prefix[n]
  BY <1>2
<1>4. front[5] = one[1]
  <2>1. 1 \in 1..Len(one) /\ Len(prefix) + 1 = 5
    OBVIOUS
  <2> QED
    BY <1>2, <2>1
<1>5. PICK frame \in Seq(Byte) : frame = front \o payload
  BY ConcatProperties
<1>6. /\ Len(frame) = Len(front) + Len(payload)
      /\ \A n \in 1..Len(front) : frame[n] = front[n]
      /\ SubSeq(frame, Len(front) + 1, Len(frame)) = payload
  BY <1>5, ConcatAt, BackOfConcat
<1>7. /\ Len(frame) = 5 + Len(payload)
      /\ \A n \in 1..4 : frame[n] = prefix[n]
      /\ frame[5] = one[1]
      /\ SubSeq(frame, 6, Len(frame)) = payload
  BY <1>3, <1>4, <1>6
<1>8. frame = (prefix \o one) \o payload
  BY <1>1, <1>5
<1>9. HasParts(frame, prefix, one, payload)
  BY <1>7, <1>8 DEF HasParts
<1> QED
  BY <1>9

\* What makes the bytes one frame.
IsFrame(bytes) ==
  /\ bytes \in Seq(Byte)
  /\ Len(bytes) >= 4
  /\ bytes[1] # 19
  /\ Len(bytes) = 4 + Value(bytes)

\* Where the other end finds the ID and the payload.
Shows(frame, id, payload) ==
  /\ IsFrame(frame)
  /\ Len(frame) # 4
  /\ frame[5] = id
  /\ SubSeq(frame, 6, Len(frame)) = payload

\* The prefix, the ID and the payload are where the other end looks for them.
LEMMA Framed ==
  ASSUME NEW p \in Int31, p < HandshakePrefix,
         NEW id \in Byte, NEW payload \in Seq(Byte), p = 1 + Len(payload)
  PROVE  Shows(FourBytes(p) \o <<id>> \o payload, id, payload)
<1>1. PICK prefix \in Seq(Byte) : /\ prefix = FourBytes(p) /\ Len(prefix) = 4
                                  /\ Value(prefix) = p /\ prefix[1] # 19
  BY FourBytesValue
<1>2. PICK one \in Seq(Byte) : one = <<id>> /\ Len(one) = 1 /\ one[1] = id
  <2>1. <<id>> \in Seq(Byte) /\ Len(<<id>>) = 1 /\ <<id>>[1] = id
    OBVIOUS
  <2> QED
    BY <2>1
<1>3. PICK frame \in Seq(Byte) : HasParts(frame, prefix, one, payload)
  BY <1>1, <1>2, ThreeParts
<1>4. /\ frame = (prefix \o one) \o payload
      /\ Len(frame) = 5 + Len(payload)
      /\ \A n \in 1..4 : frame[n] = prefix[n]
      /\ frame[5] = one[1]
      /\ SubSeq(frame, 6, Len(frame)) = payload
  BY <1>3 DEF HasParts
<1>5. Value(frame) = p /\ frame[1] # 19
  <2>1. Value(frame) = Value(prefix)
    BY <1>4, ValueOfPrefix
  <2>2. frame[1] = prefix[1]
    BY <1>4
  <2> QED
    BY <1>1, <2>1, <2>2
<1>6. Len(frame) >= 4 /\ Len(frame) = 4 + p /\ Len(frame) # 4
  <2>1. Len(payload) \in Nat
    BY LenProperties
  <2> QED
    BY <1>4, <2>1
<1>7. IsFrame(frame)
  BY <1>5, <1>6 DEF IsFrame
<1>8. frame[5] = id
  BY <1>2, <1>4
<1>9. Shows(frame, id, payload)
  BY <1>4, <1>6, <1>7, <1>8 DEF Shows
<1>10. frame = FourBytes(p) \o <<id>> \o payload
  BY <1>1, <1>2, <1>4
<1> QED
  BY <1>9, <1>10

\* u is s with t behind it.
Joins(u, s, t) ==
  /\ Len(u) = Len(s) + Len(t)
  /\ \A n \in 1..Len(s) : u[n] = s[n]
  /\ \A n \in 1..Len(t) : u[Len(s) + n] = t[n]

\* Concatenation joins.
LEMMA ConcatJoins ==
  ASSUME NEW s \in Seq(Byte), NEW t \in Seq(Byte)
  PROVE  s \o t \in Seq(Byte) /\ Joins(s \o t, s, t)
BY ConcatAt DEF Joins

\* The four bytes are those of the description.
LEMMA FourBytesBigEndian == ASSUME NEW n \in Int31 PROVE FourBytes(n) = BigEndian(n)
<1>1. n \in Int /\ n \div 1 = n
  BY SMT DEF Int31
<1> DEFINE w == <<16777216, 65536, 256, 1>>
<1>2. BigEndian(n) = [k \in 1..4 |-> (n \div w[k]) % 256]
  BY DEF BigEndian
<1>3. w[1] = 16777216 /\ w[2] = 65536 /\ w[3] = 256 /\ w[4] = 1
  OBVIOUS
<1> HIDE DEF w
<1>4. PICK a, b, c, d : /\ a = (n \div 16777216) % 256 /\ b = (n \div 65536) % 256
                        /\ c = (n \div 256) % 256 /\ d = n % 256
  OBVIOUS
<1>5. /\ BigEndian(n)[1] = a /\ BigEndian(n)[2] = b
      /\ BigEndian(n)[3] = c /\ BigEndian(n)[4] = d
  BY <1>1, <1>2, <1>3, <1>4
<1>6. FourBytes(n) = <<a, b, c, d>>
  BY <1>4 DEF FourBytes
<1>7. PICK f : f = BigEndian(n)
  OBVIOUS
<1>8. f = [k \in 1..4 |-> f[k]]
  BY <1>2, <1>7
<1>9. f = <<a, b, c, d>>
  BY <1>5, <1>7, <1>8
<1> QED
  BY <1>6, <1>7, <1>9

-----------------------------------------------------------------------------
(* Calls *)

\* Prefix, ID and payload.
Packed(p, id, payload) == FourBytes(p) \o <<id>> \o payload

\* The other end finds the payload.
LEMMA PackedIsUnderstood ==
  ASSUME NEW p \in Int31, p < HandshakePrefix, NEW id \in Byte, NEW payload \in Seq(Byte),
         p = 1 + Len(payload)
  PROVE  IsFrame(Packed(p, id, payload))
         /\ Understood(Packed(p, id, payload)) = Message("with ID", payload)
<1>1. Shows(Packed(p, id, payload), id, payload)
  BY Framed DEF Packed
<1>2. PICK frame : frame = Packed(p, id, payload)
  OBVIOUS
<1>3. /\ IsFrame(frame) /\ frame[1] # 19 /\ Len(frame) # 4
      /\ SubSeq(frame, 6, Len(frame)) = payload
  BY <1>1, <1>2 DEF Shows, IsFrame
<1>4. Understood(frame) = Message("with ID", payload)
  BY <1>3 DEF Understood
<1> QED
  BY <1>2, <1>3, <1>4

\* The frame of a call is one frame, and has the payload the call should have.
Carries(call) == IsFrame(Frame(call)) /\ Understood(Frame(call)) = Meaning(call)

\* Keep-alive is the prefix 0.
LEMMA KeepAliveCarried == Carries(KeepAlive)
<1>1. 0 \in Int31 /\ 0 < HandshakePrefix
  BY SMT DEF Int31, HandshakePrefix
<1>2. PICK frame : frame = FourBytes(0)
  OBVIOUS
<1>3. frame \in Seq(Byte) /\ Len(frame) = 4 /\ Value(frame) = 0 /\ frame[1] # 19
  BY <1>1, <1>2, FourBytesValue
<1>4. Len(frame) >= 4 /\ Len(frame) = 4 + Value(frame)
  BY <1>3
<1>5. IsFrame(frame)
  BY <1>3, <1>4 DEF IsFrame
<1>6. Understood(frame) = Message("keep-alive", <<>>)
  BY <1>3 DEF Understood
<1>7. Frame(KeepAlive) = frame
  BY <1>2 DEF Frame, KeepAlive
<1>8. Meaning(KeepAlive) = Message("keep-alive", <<>>)
  BY DEF Meaning, KeepAlive
<1> QED
  BY <1>5, <1>6, <1>7, <1>8 DEF Carries

\* A call whose prefix counts the ID and the payload of the description.
LEMMA PayloadCarried ==
  ASSUME NEW call, NEW p \in Int31, p < HandshakePrefix, NEW id \in Byte,
         NEW payload \in Seq(Byte), p = 1 + Len(payload),
         Frame(call) = Packed(p, id, payload), Meaning(call) = Message("with ID", payload)
  PROVE  Carries(call)
<1>1. /\ IsFrame(Packed(p, id, payload))
      /\ Understood(Packed(p, id, payload)) = Message("with ID", payload)
  BY PackedIsUnderstood
<1> QED
  BY <1>1, Zenon DEF Carries

\* Messages of an ID and nothing else.
LEMMA PlainCarried ==
  ASSUME NEW call \in PlainCalls
  PROVE  Carries(call)
<1>1. call.name \in PlainNames
  BY DEF PlainCalls
<1>2. IdChars[call.name] \in Byte
  BY <1>1, SMT DEF PlainNames, IdChars, Byte
<1>3. 1 \in Int31 /\ 1 < HandshakePrefix
  BY SMT DEF Int31, HandshakePrefix
<1>4. <<>> \in Seq(Byte) /\ 1 = 1 + Len(<<>>)
  OBVIOUS
<1>5. Frame(call) = Packed(1, IdChars[call.name], <<>>)
  BY <1>1 DEF Frame, Prefix, Payload, PlainNames, Packed
<1>6. Meaning(call) = Message("with ID", <<>>)
  BY <1>1 DEF Meaning, PlainNames
<1> QED
  BY <1>2, <1>3, <1>4, <1>5, <1>6, PayloadCarried

\* have has one integer.
LEMMA HaveCarried ==
  ASSUME NEW call \in HaveCalls
  PROVE  Carries(call)
<1>1. call.name = "have" /\ call.index \in Int31
  BY DEF HaveCalls
<1>2. IdChars.have \in Byte
  BY SMT DEF IdChars, Byte
<1>3. 5 \in Int31 /\ 5 < HandshakePrefix
  BY SMT DEF Int31, HandshakePrefix
<1> DEFINE payload == FourBytes(call.index)
<1>4. payload \in Seq(Byte) /\ 5 = 1 + Len(payload)
  <2>1. payload \in Seq(Byte) /\ Len(payload) = 4
    BY <1>1, FourBytesValue
  <2> HIDE DEF payload
  <2> QED
    BY <2>1
<1>5. Frame(call) = Packed(5, IdChars.have, payload)
  BY <1>1 DEF Frame, Prefix, Payload, Packed
<1>6. Meaning(call) = Message("with ID", payload)
  <2>1. Meaning(call) = Message("with ID", BigEndian(call.index))
    BY <1>1 DEF Meaning
  <2> QED
    BY <1>1, <2>1, FourBytesBigEndian
<1> HIDE DEF payload
<1> QED
  BY <1>2, <1>3, <1>4, <1>5, <1>6, PayloadCarried

\* The integers of a payload, one behind the other.
Two(a, b) == FourBytes(a) \o FourBytes(b)
Three(a, b, c) == FourBytes(a) \o FourBytes(b) \o FourBytes(c)

\* They take eight and twelve bytes.
LEMMA IntsLong ==
  ASSUME NEW a \in Int31, NEW b \in Int31, NEW c \in Int31
  PROVE  /\ Two(a, b) \in Seq(Byte) /\ Len(Two(a, b)) = 8
         /\ Three(a, b, c) \in Seq(Byte) /\ Len(Three(a, b, c)) = 12
<1>1. PICK x \in Seq(Byte), y \in Seq(Byte), z \in Seq(Byte) :
        /\ x = FourBytes(a) /\ y = FourBytes(b) /\ z = FourBytes(c)
        /\ Len(x) = 4 /\ Len(y) = 4 /\ Len(z) = 4
  BY FourBytesValue
<1>2. PICK xy \in Seq(Byte) : xy = x \o y /\ Joins(xy, x, y)
  BY ConcatJoins
<1>3. Len(xy) = 8
  BY <1>1, <1>2 DEF Joins
<1>4. PICK xyz \in Seq(Byte) : xyz = xy \o z /\ Joins(xyz, xy, z)
  BY ConcatJoins
<1>5. Len(xyz) = 12
  BY <1>1, <1>3, <1>4 DEF Joins
<1> QED
  BY <1>1, <1>2, <1>3, <1>4, <1>5 DEF Two, Three

\* request and cancel have three.
LEMMA BlockCarried ==
  ASSUME NEW call \in BlockCalls
  PROVE  Carries(call)
<1> DEFINE payload == Three(call.index, call.begin, call.length)
<1>1. /\ call.name \in {"request", "cancel"}
      /\ call.index \in Int31 /\ call.begin \in Int31 /\ call.length \in Int31
  BY DEF BlockCalls
<1>2. IdChars[call.name] \in Byte
  BY <1>1, SMT DEF IdChars, Byte
<1>3. 13 \in Int31 /\ 13 < HandshakePrefix
  BY SMT DEF Int31, HandshakePrefix
<1>4. payload \in Seq(Byte) /\ 13 = 1 + Len(payload)
  <2>1. payload \in Seq(Byte) /\ Len(payload) = 12
    BY <1>1, IntsLong
  <2> HIDE DEF payload
  <2> QED
    BY <2>1
<1>5. Payload(call) = payload
  BY <1>1 DEF Payload, Three
<1>6. Meaning(call) = Message("with ID", payload)
  <2>1. Meaning(call)
          = Message("with ID",
                    BigEndian(call.index) \o BigEndian(call.begin) \o BigEndian(call.length))
    BY <1>1 DEF Meaning
  <2>2. /\ FourBytes(call.index) = BigEndian(call.index)
        /\ FourBytes(call.begin) = BigEndian(call.begin)
        /\ FourBytes(call.length) = BigEndian(call.length)
    BY <1>1, FourBytesBigEndian
  <2> QED
    BY <2>1, <2>2 DEF Three
<1> HIDE DEF payload
<1>7. Frame(call) = Packed(13, IdChars[call.name], payload)
  BY <1>1, <1>5 DEF Frame, Prefix, Packed
<1> QED
  BY <1>2, <1>3, <1>4, <1>6, <1>7, PayloadCarried

\* Inside the data QByteArray::mid is SubSeq.
LEMMA MidInside ==
  ASSUME NEW data \in Seq(Byte), NEW pos \in Nat, NEW len \in Nat, pos + len <= Len(data)
  PROVE  /\ mid(data, pos, len) = SubSeq(data, pos + 1, pos + len)
         /\ mid(data, pos, len) \in Seq(Byte)
         /\ Len(mid(data, pos, len)) = len
<1>1. Len(data) \in Nat
  BY LenProperties
<1>2. /\ SubSeq(data, pos + 1, pos + len) \in Seq(Byte)
      /\ Len(SubSeq(data, pos + 1, pos + len)) = len
  BY SubSeqAt
<1>3. pos >= Len(data) => len = 0
  BY <1>1
<1>4. len = 0 => SubSeq(data, pos + 1, pos + len) = <<>>
  BY <1>2, EmptySeq
<1>5. mid(data, pos, len) = SubSeq(data, pos + 1, pos + len)
  BY <1>1, <1>3, <1>4 DEF mid
<1> QED
  BY <1>2, <1>5

\* piece has two integers and the block.
LEMMA PieceCarried ==
  ASSUME NEW call \in PieceCalls
  PROVE  Carries(call)
<1> DEFINE front == Two(call.index, call.begin)
           block == mid(call.pieceData, call.begin, call.length)
           payload == front \o block
           p == 9 + call.length
<1>1. /\ call.name = "piece"
      /\ call.index \in Int31 /\ call.begin \in Int31 /\ call.length \in Int31
      /\ call.pieceData \in Seq(Byte)
      /\ call.length + 9 < HandshakePrefix /\ call.begin + call.length <= Len(call.pieceData)
  BY DEF PieceCalls
<1>2. call.begin \in Nat /\ call.length \in Nat
  BY <1>1 DEF Int31
<1>3. /\ block = SubSeq(call.pieceData, call.begin + 1, call.begin + call.length)
      /\ block \in Seq(Byte) /\ Len(block) = call.length
  BY <1>1, <1>2, MidInside
<1>4. front \in Seq(Byte) /\ Len(front) = 8
  BY <1>1, IntsLong
<1>5. Payload(call) = payload
  BY <1>1 DEF Payload, Two
<1>6. IdChars.piece \in Byte
  BY SMT DEF IdChars, Byte
<1>7. p \in Int31 /\ p < HandshakePrefix
  BY <1>1, <1>2, SMT DEF Int31, HandshakePrefix
<1>8. Frame(call) = Packed(p, IdChars.piece, payload)
  BY <1>1, <1>5 DEF Frame, Prefix, Packed
<1>9. Meaning(call) = Message("with ID", payload)
  <2>1. Meaning(call)
          = Message("with ID",
                    BigEndian(call.index) \o BigEndian(call.begin)
                      \o SubSeq(call.pieceData, call.begin + 1, call.begin + call.length))
    BY <1>1 DEF Meaning
  <2>2. /\ FourBytes(call.index) = BigEndian(call.index)
        /\ FourBytes(call.begin) = BigEndian(call.begin)
    BY <1>1, FourBytesBigEndian
  <2> QED
    BY <1>3, <2>1, <2>2 DEF Two
<1>10. p = 1 + 8 + call.length
  BY <1>2
<1> HIDE DEF front, block, p
<1>11. payload \in Seq(Byte) /\ Joins(payload, front, block)
  BY <1>3, <1>4, ConcatJoins
<1> HIDE DEF payload
<1>12. p = 1 + Len(payload)
  <2>1. Len(payload) = 8 + call.length
    BY <1>3, <1>4, <1>11 DEF Joins
  <2> QED
    BY <1>2, <1>10, <2>1
<1> QED
  BY <1>6, <1>7, <1>8, <1>9, <1>11, <1>12, PayloadCarried

\* port has two bytes.
LEMMA PortCarried ==
  ASSUME NEW call \in PortCalls
  PROVE  Carries(call)
<1>1. call.name = "port" /\ call.listenPort \in Int16
  BY DEF PortCalls
<1>2. PICK high \in Byte : high = call.listenPort \div 256
  BY <1>1, SMT DEF Int16, Byte
<1>3. PICK low \in Byte : low = call.listenPort % 256
  BY <1>1, SMT DEF Int16, Byte
<1> DEFINE payload == <<high, low>>
<1>4. payload \in Seq(Byte) /\ 3 = 1 + Len(payload)
  OBVIOUS
<1>5. IdChars.port \in Byte
  BY SMT DEF IdChars, Byte
<1>6. 3 \in Int31 /\ 3 < HandshakePrefix
  BY SMT DEF Int31, HandshakePrefix
<1>7. Frame(call) = Packed(3, IdChars.port, payload)
  BY <1>1, <1>2, <1>3 DEF Frame, Prefix, Payload, Packed
<1>8. Meaning(call) = Message("with ID", payload)
  <2>1. Meaning(call) = Message("with ID", SubSeq(BigEndian(call.listenPort), 3, 4))
    BY <1>1 DEF Meaning
  <2>2. call.listenPort \in Int31 /\ (call.listenPort \div 256) % 256 = high
    BY <1>1, <1>2, ByteDivision, SMT DEF Int31, Int16
  <2>3. PICK a, b : BigEndian(call.listenPort) = <<a, b, high, low>>
    BY <1>3, <2>2, FourBytesBigEndian DEF FourBytes
  <2>4. SubSeq(<<a, b, high, low>>, 3, 4) = <<high, low>>
    <3>1. PICK f : f = <<a, b, high, low>>
      OBVIOUS
    <3>2. f \in Seq({a, b, high, low}) /\ Len(f) = 4 /\ f[3] = high /\ f[4] = low
      BY <3>1
    <3>3. PICK g : g = SubSeq(f, 3, 4)
      OBVIOUS
    <3>4. 3 \in Int /\ 4 \in Int /\ \A k \in 3..4 : f[k] \in {a, b, high, low}
      <4>1. \A k \in 3..4 : k = 3 \/ k = 4
        OBVIOUS
      <4> QED
        BY <3>2, <4>1
    <3>5. /\ g \in Seq({a, b, high, low})
          /\ Len(g) = (IF 3 <= 4 THEN 4 - 3 + 1 ELSE 0)
          /\ \A k \in 1..(4 - 3 + 1) : g[k] = f[3 + k - 1]
      BY ONLY <3>3, <3>4, SubSeqProperties
    <3>6. Len(g) = 2 /\ g[1] = high /\ g[2] = low
      <4>1. /\ 1 \in 1..(4 - 3 + 1) /\ 2 \in 1..(4 - 3 + 1)
            /\ 3 + 1 - 1 = 3 /\ 3 + 2 - 1 = 4
        OBVIOUS
      <4>2. g[1] = f[3 + 1 - 1] /\ g[2] = f[3 + 2 - 1]
        BY <3>5, <4>1
      <4> QED
        BY <3>2, <3>5, <4>1, <4>2
    <3>7. g = <<high, low>>
      <4>1. <<high, low>> \in Seq({a, b, high, low}) /\ Len(<<high, low>>) = 2
        OBVIOUS
      <4>2. \A k \in 1..2 : g[k] = <<high, low>>[k]
        <5>1. \A k \in 1..2 : k = 1 \/ k = 2
          OBVIOUS
        <5> QED
          BY <3>6, <5>1
      <4> QED
        BY <3>5, <3>6, <4>1, <4>2, SeqEqual
    <3> QED
      BY <3>1, <3>3, <3>7
  <2> QED
    BY <2>1, <2>3, <2>4
<1> HIDE DEF payload
<1> QED
  BY <1>4, <1>5, <1>6, <1>7, <1>8, PayloadCarried

-----------------------------------------------------------------------------
\* Every message but the handshake and the bitfield, with any arguments a caller
\* may give, is one frame of the length its prefix says, no frame is taken for a
\* handshake, and behind its ID is the payload the description gives it: the
\* integers with the high byte first, and the block from where it begins.
THEOREM FramesAreUnderstood ==
  \A call \in LegalCalls : IsFrame(Frame(call)) /\ Understood(Frame(call)) = Meaning(call)
<1> SUFFICES ASSUME NEW call \in LegalCalls
             PROVE  Carries(call)
  BY DEF Carries
<1> QED
  BY KeepAliveCarried, PlainCarried, HaveCarried, BlockCarried, PieceCarried, PortCarried
     DEF LegalCalls

-----------------------------------------------------------------------------
(* The stream *)

\* The frame of a message.
FrameOf(frame, message) == IsFrame(frame) /\ Understood(frame) = message

\* The bytes are cut at these places into the frames of the messages.
CutAt(cut, bytes, messages) ==
  /\ cut \in [0..Len(messages) -> Nat]
  /\ cut[0] = 0
  /\ cut[Len(messages)] = Len(bytes)
  /\ \A i, j \in 0..Len(messages) : i <= j => cut[i] <= cut[j]
  /\ \A n \in 1..Len(messages) :
       FrameOf(SubSeq(bytes, cut[n - 1] + 1, cut[n]), messages[n])

Splits(bytes, messages) == \E cut : CutAt(cut, bytes, messages)

StreamInv ==
  /\ wire \in Seq(Byte) /\ buffer \in Seq(Byte)
  /\ pending \in Seq(Meanings)
  /\ Splits(buffer \o wire, pending)

-----------------------------------------------------------------------------
(* Sequences *)

\* A part of the front.
LEMMA SubSeqOfFront ==
  ASSUME NEW s \in Seq(Byte), NEW t \in Seq(Byte), NEW a \in Nat, NEW b \in Nat,
         a <= b, b <= Len(s)
  PROVE  SubSeq(s \o t, a + 1, b) = SubSeq(s, a + 1, b)
<1>1. Len(s) \in Nat /\ Len(t) \in Nat
  BY LenProperties
<1>2. PICK u \in Seq(Byte) : u = s \o t /\ Joins(u, s, t)
  BY ConcatJoins
<1>3. Len(u) = Len(s) + Len(t) /\ \A n \in 1..Len(s) : u[n] = s[n]
  BY <1>2 DEF Joins
<1>4. PICK d \in Nat : d = b - a /\ a + d = b
  BY SMT
<1>5. a + d <= Len(s) /\ a + d <= Len(u)
  BY <1>1, <1>3, <1>4
<1>6. /\ SubSeq(s, a + 1, a + d) \in Seq(Byte) /\ Len(SubSeq(s, a + 1, a + d)) = d
      /\ \A n \in 1..d : SubSeq(s, a + 1, a + d)[n] = s[a + n]
  BY <1>5, SubSeqAt
<1>7. /\ SubSeq(u, a + 1, a + d) \in Seq(Byte) /\ Len(SubSeq(u, a + 1, a + d)) = d
      /\ \A n \in 1..d : SubSeq(u, a + 1, a + d)[n] = u[a + n]
  BY <1>5, SubSeqAt
<1>8. \A n \in 1..d : a + n \in 1..Len(s)
  BY <1>1, <1>5
<1>9. SubSeq(u, a + 1, a + d) = SubSeq(s, a + 1, a + d)
  <2>1. \A n \in 1..d : SubSeq(u, a + 1, a + d)[n] = SubSeq(s, a + 1, a + d)[n]
    BY <1>3, <1>6, <1>7, <1>8
  <2> QED
    BY <1>6, <1>7, <2>1, SeqEqual
<1> QED
  BY <1>2, <1>4, <1>9

\* A part of the rest.
LEMMA SubSeqOfRest ==
  ASSUME NEW s \in Seq(Byte), NEW c \in Nat, NEW a \in Nat, NEW b \in Nat,
         c <= a, a <= b, b <= Len(s)
  PROVE  /\ SubSeq(s, c + 1, Len(s)) \in Seq(Byte)
         /\ Len(SubSeq(s, c + 1, Len(s))) = Len(s) - c
         /\ SubSeq(SubSeq(s, c + 1, Len(s)), (a - c) + 1, b - c) = SubSeq(s, a + 1, b)
<1>1. Len(s) \in Nat
  BY LenProperties
<1>2. PICK e \in Nat : e = Len(s) - c /\ c + e = Len(s)
  BY <1>1
<1>3. PICK x \in Nat : x = a - c /\ c + x = a
  BY SMT
<1>4. PICK d \in Nat : d = b - a /\ a + d = b /\ x + d = b - c
  BY <1>3, SMT
<1>5. PICK u : u = SubSeq(s, c + 1, c + e)
  OBVIOUS
<1>6. u \in Seq(Byte) /\ Len(u) = e /\ \A n \in 1..e : u[n] = s[c + n]
  BY <1>1, <1>2, <1>5, SubSeqAt
<1>7. x + d <= Len(u) /\ a + d <= Len(s)
  BY <1>1, <1>2, <1>3, <1>4, <1>6
<1>8. /\ SubSeq(u, x + 1, x + d) \in Seq(Byte) /\ Len(SubSeq(u, x + 1, x + d)) = d
      /\ \A n \in 1..d : SubSeq(u, x + 1, x + d)[n] = u[x + n]
  BY <1>6, <1>7, SubSeqAt
<1>9. /\ SubSeq(s, a + 1, a + d) \in Seq(Byte) /\ Len(SubSeq(s, a + 1, a + d)) = d
      /\ \A n \in 1..d : SubSeq(s, a + 1, a + d)[n] = s[a + n]
  BY <1>7, SubSeqAt
<1>10. \A n \in 1..d : x + n \in 1..e /\ c + (x + n) = a + n
  BY <1>3, <1>6, <1>7
<1>11. SubSeq(u, x + 1, x + d) = SubSeq(s, a + 1, a + d)
  <2>1. \A n \in 1..d : SubSeq(u, x + 1, x + d)[n] = SubSeq(s, a + 1, a + d)[n]
    BY <1>6, <1>8, <1>9, <1>10
  <2> QED
    BY <1>8, <1>9, <2>1, SeqEqual
<1> QED
  BY <1>2, <1>3, <1>4, <1>5, <1>6, <1>11

-----------------------------------------------------------------------------
(* The cuts *)

\* One more frame behind the others.
LEMMA SplitsAppend ==
  ASSUME NEW M, NEW bytes \in Seq(Byte), NEW messages \in Seq(M), Splits(bytes, messages),
         NEW frame, NEW message \in M, FrameOf(frame, message)
  PROVE  Splits(bytes \o frame, Append(messages, message))
<1>1. PICK cut : CutAt(cut, bytes, messages)
  BY DEF Splits
<1>2. frame \in Seq(Byte) /\ Len(frame) \in Nat
  BY LenProperties DEF FrameOf, IsFrame
<1>3. PICK k \in Nat : k = Len(messages)
  BY LenProperties
<1>4. PICK more : more = Append(messages, message)
  OBVIOUS
<1>5. /\ Len(more) = k + 1 /\ more[k + 1] = message
      /\ \A n \in 1..k : more[n] = messages[n]
  BY <1>3, <1>4, AppendProperties
<1>6. PICK l \in Nat : l = Len(bytes)
  BY LenProperties
<1>7. PICK all : all = bytes \o frame
  OBVIOUS
<1>8. Len(all) = l + Len(frame) /\ SubSeq(all, l + 1, l + Len(frame)) = frame
  BY <1>2, <1>6, <1>7, BackOfConcat, ConcatAt
<1>9. /\ cut \in [0..k -> Nat] /\ cut[0] = 0 /\ cut[k] = l
      /\ \A i, j \in 0..k : i <= j => cut[i] <= cut[j]
      /\ \A n \in 1..k : FrameOf(SubSeq(bytes, cut[n - 1] + 1, cut[n]), messages[n])
  BY <1>1, <1>3, <1>6 DEF CutAt
<1>10. PICK cut2 : cut2 = [n \in 0..(k + 1) |-> IF n <= k THEN cut[n] ELSE l + Len(frame)]
  OBVIOUS
<1>11. /\ \A n \in 0..k : cut2[n] = cut[n]
       /\ cut2[k + 1] = l + Len(frame)
  BY <1>10
<1>12. cut2 \in [0..(k + 1) -> Nat]
  BY <1>2, <1>9, <1>10
<1>13. cut2[0] = 0
  BY <1>9, <1>11
<1>14. \A i, j \in 0..(k + 1) : i <= j => cut2[i] <= cut2[j]
  <2>1. SUFFICES ASSUME NEW i \in 0..(k + 1), NEW j \in 0..(k + 1), i <= j
                 PROVE  cut2[i] <= cut2[j]
    OBVIOUS
  <2>2. CASE j <= k
    BY <1>9, <1>11, <2>1, <2>2
  <2>3. CASE j = k + 1 /\ i <= k
    <3>1. cut2[i] = cut[i] /\ cut[i] <= cut[k]
      BY <1>9, <1>11, <2>3
    <3>2. cut2[i] \in Nat
      BY <1>12
    <3> QED
      BY <1>2, <1>9, <1>11, <2>3, <3>1, <3>2
  <2>4. CASE j = k + 1 /\ i = k + 1
    BY <1>2, <1>11, <2>4
  <2> QED
    BY <2>2, <2>3, <2>4
<1>15. ASSUME NEW n \in 1..(k + 1)
       PROVE  FrameOf(SubSeq(all, cut2[n - 1] + 1, cut2[n]), more[n])
  <2>1. CASE n <= k
    <3>1. n - 1 \in 0..k /\ n \in 0..k /\ n \in 1..k /\ k \in 0..k /\ n - 1 <= n
      BY <2>1
    <3>2. PICK a \in Nat, b \in Nat : a = cut[n - 1] /\ b = cut[n]
      BY <1>9, <3>1
    <3>3. a <= b /\ b <= l
      BY <1>9, <3>1, <3>2
    <3>4. cut2[n - 1] = a /\ cut2[n] = b /\ more[n] = messages[n]
      BY <1>5, <1>11, <3>1, <3>2
    <3>5. SubSeq(all, a + 1, b) = SubSeq(bytes, a + 1, b)
      BY <1>2, <1>6, <1>7, <3>3, SubSeqOfFront
    <3>6. FrameOf(SubSeq(bytes, a + 1, b), messages[n])
      BY <1>9, <3>1, <3>2
    <3> QED
      BY <3>4, <3>5, <3>6
  <2>2. CASE n = k + 1
    <3>1. n - 1 = k /\ k \in 0..k
      BY <2>2
    <3>2. cut2[n - 1] = l /\ cut2[n] = l + Len(frame) /\ more[n] = message
      BY <1>5, <1>9, <1>11, <2>2, <3>1
    <3> QED
      BY <1>8, <3>2
  <2> QED
    BY <2>1, <2>2
<1>16. CutAt(cut2, all, more)
  BY <1>5, <1>8, <1>11, <1>12, <1>13, <1>14, <1>15 DEF CutAt
<1> QED
  BY <1>4, <1>7, <1>16 DEF Splits

\* No message, no byte.
LEMMA SplitsEmpty ==
  ASSUME NEW bytes \in Seq(Byte), Splits(bytes, <<>>)
  PROVE  bytes = <<>>
<1>1. PICK cut : CutAt(cut, bytes, <<>>)
  BY DEF Splits
<1>2. Len(<<>>) = 0
  OBVIOUS
<1>3. Len(bytes) = 0
  BY <1>1, <1>2 DEF CutAt
<1> QED
  BY <1>3, EmptySeq

\* The first frame, and the others.
LEMMA SplitsHead ==
  ASSUME NEW M, NEW bytes \in Seq(Byte), NEW messages \in Seq(M), Splits(bytes, messages),
         messages # <<>>
  PROVE  \E c \in Nat :
           /\ c <= Len(bytes)
           /\ FrameOf(SubSeq(bytes, 1, c), messages[1])
           /\ Splits(SubSeq(bytes, c + 1, Len(bytes)), SubSeq(messages, 2, Len(messages)))
<1>1. PICK cut : CutAt(cut, bytes, messages)
  BY DEF Splits
<1>2. Len(messages) \in Nat /\ Len(messages) # 0
  BY LenProperties, EmptySeq
<1>3. PICK k \in Nat : Len(messages) = k + 1
  <2>1. Len(messages) - 1 \in Nat /\ Len(messages) = (Len(messages) - 1) + 1
    BY <1>2
  <2> QED
    BY <2>1
<1>4. PICK l \in Nat : l = Len(bytes)
  BY LenProperties
<1>5. /\ cut \in [0..(k + 1) -> Nat] /\ cut[0] = 0 /\ cut[k + 1] = l
      /\ \A i, j \in 0..(k + 1) : i <= j => cut[i] <= cut[j]
      /\ \A n \in 1..(k + 1) : FrameOf(SubSeq(bytes, cut[n - 1] + 1, cut[n]), messages[n])
  BY <1>1, <1>3, <1>4 DEF CutAt
<1>6. 1 \in 0..(k + 1) /\ k + 1 \in 0..(k + 1) /\ 1 \in 1..(k + 1) /\ 1 <= k + 1
  OBVIOUS
<1>7. PICK c \in Nat : c = cut[1]
  BY <1>5, <1>6
<1>8. c <= l
  BY <1>5, <1>6, <1>7
<1>9. FrameOf(SubSeq(bytes, 1, c), messages[1])
  <2>1. FrameOf(SubSeq(bytes, cut[1 - 1] + 1, cut[1]), messages[1])
    BY <1>5, <1>6
  <2>2. cut[1 - 1] + 1 = 1
    BY <1>5
  <2> QED
    BY <1>7, <2>1, <2>2
<1>10. PICK fewer : fewer = SubSeq(messages, 2, Len(messages))
  OBVIOUS
<1>11. Len(fewer) = k /\ \A n \in 1..k : fewer[n] = messages[n + 1]
  <2>1. 1 + k <= Len(messages) /\ 1 + k = Len(messages) /\ 1 + 1 = 2
    BY <1>3
  <2>2. /\ Len(SubSeq(messages, 1 + 1, 1 + k)) = k
        /\ \A n \in 1..k : SubSeq(messages, 1 + 1, 1 + k)[n] = messages[1 + n]
    BY <2>1, SubSeqAt
  <2>3. \A n \in 1..k : 1 + n = n + 1
    OBVIOUS
  <2> QED
    BY <1>10, <2>1, <2>2, <2>3
<1>12. PICK rest : rest = SubSeq(bytes, c + 1, l)
  OBVIOUS
<1>13. Len(rest) = l - c
  <2>1. c <= l /\ l <= l
    BY <1>8
  <2> QED
    BY <1>4, <1>12, <2>1, SubSeqOfRest
<1>14. PICK cut2 : cut2 = [n \in 0..k |-> cut[n + 1] - c]
  OBVIOUS
<1>15. \A n \in 0..k : n + 1 \in 0..(k + 1) /\ 1 <= n + 1 /\ cut2[n] = cut[n + 1] - c
  BY <1>14
<1>16. \A n \in 0..k : cut[n + 1] \in Nat /\ c <= cut[n + 1] /\ cut[n + 1] <= l
  <2>1. SUFFICES ASSUME NEW n \in 0..k
                 PROVE  cut[n + 1] \in Nat /\ c <= cut[n + 1] /\ cut[n + 1] <= l
    OBVIOUS
  <2>2. n + 1 \in 0..(k + 1) /\ 1 <= n + 1 /\ n + 1 <= k + 1
    OBVIOUS
  <2>3. cut[n + 1] \in Nat
    BY <1>5, <2>2
  <2>4. cut[1] <= cut[n + 1]
    BY <1>5, <1>6, <2>2
  <2>5. cut[n + 1] <= cut[k + 1]
    BY <1>5, <1>6, <2>2
  <2> QED
    BY <1>5, <1>7, <2>3, <2>4, <2>5
<1>17. cut2 \in [0..k -> Nat]
  <2>1. \A n \in 0..k : cut[n + 1] - c \in Nat
    BY <1>16
  <2> QED
    BY <1>14, <2>1
<1>18. cut2[0] = 0 /\ cut2[k] = l - c
  <2>1. 0 \in 0..k /\ k \in 0..k /\ 0 + 1 = 1
    OBVIOUS
  <2>2. cut2[0] = cut[0 + 1] - c /\ cut2[k] = cut[k + 1] - c
    BY <1>15, <2>1
  <2>3. cut[0 + 1] = c
    BY <1>7, <2>1
  <2>4. c - c = 0
    OBVIOUS
  <2> QED
    BY <1>5, <2>2, <2>3, <2>4
<1>19. \A i, j \in 0..k : i <= j => cut2[i] <= cut2[j]
  <2>1. SUFFICES ASSUME NEW i \in 0..k, NEW j \in 0..k, i <= j
                 PROVE  cut2[i] <= cut2[j]
    OBVIOUS
  <2>2. i + 1 \in 0..(k + 1) /\ j + 1 \in 0..(k + 1) /\ i + 1 <= j + 1
    BY <2>1
  <2>3. cut[i + 1] <= cut[j + 1]
    BY <1>5, <2>2
  <2>4. cut2[i] = cut[i + 1] - c /\ cut2[j] = cut[j + 1] - c
    BY <1>15
  <2>5. cut[i + 1] \in Nat /\ cut[j + 1] \in Nat
    BY <1>16
  <2> QED
    BY <2>3, <2>4, <2>5
<1>20. ASSUME NEW n \in 1..k
       PROVE  FrameOf(SubSeq(rest, cut2[n - 1] + 1, cut2[n]), fewer[n])
  <2>1. n - 1 \in 0..k /\ n \in 0..k /\ (n - 1) + 1 = n /\ n + 1 \in 1..(k + 1)
        /\ (n + 1) - 1 = n
    OBVIOUS
  <2>2. PICK a \in Nat, b \in Nat : a = cut[n] /\ b = cut[n + 1] /\ c <= a /\ b <= l
    BY <1>16, <2>1
  <2>3. a <= b
    <3>1. n \in 0..(k + 1) /\ n + 1 \in 0..(k + 1) /\ n <= n + 1
      OBVIOUS
    <3>2. cut[n] <= cut[n + 1]
      BY <1>5, <3>1
    <3> QED
      BY <2>2, <3>2
  <2>4. cut2[n - 1] = a - c /\ cut2[n] = b - c
    BY <1>15, <2>1, <2>2
  <2>5. SubSeq(rest, (a - c) + 1, b - c) = SubSeq(bytes, a + 1, b)
    <3>1. c <= a /\ a <= b /\ b <= Len(bytes)
      BY <1>4, <2>2, <2>3
    <3>2. \A x, y \in Nat : c <= x /\ x <= y /\ y <= Len(bytes) =>
            SubSeq(SubSeq(bytes, c + 1, Len(bytes)), (x - c) + 1, y - c)
              = SubSeq(bytes, x + 1, y)
      BY SubSeqOfRest
    <3> QED
      BY <1>4, <1>12, <2>2, <3>1, <3>2
  <2>6. FrameOf(SubSeq(bytes, a + 1, b), messages[n + 1])
    BY <1>5, <2>1, <2>2
  <2> QED
    BY <1>11, <2>4, <2>5, <2>6
<1>21. CutAt(cut2, rest, fewer)
  BY <1>11, <1>13, <1>17, <1>18, <1>19, <1>20 DEF CutAt
<1>22. Splits(rest, fewer)
  BY <1>21 DEF Splits
<1> QED
  BY <1>4, <1>8, <1>9, <1>10, <1>12, <1>22

-----------------------------------------------------------------------------
(* Steps *)

\* A byte that arrives stays where it was.
LEMMA ByteArrives ==
  ASSUME NEW b \in Seq(Byte), NEW w \in Seq(Byte), w # <<>>
  PROVE  /\ Append(b, Head(w)) \in Seq(Byte)
         /\ Tail(w) \in Seq(Byte)
         /\ Append(b, Head(w)) \o Tail(w) = b \o w
<1>1. PICK k \in Nat, l \in Nat : k = Len(b) /\ l = Len(w)
  BY LenProperties
<1>2. l >= 1
  BY <1>1, EmptySeq
<1>3. /\ Head(w) \in Byte /\ Head(w) = w[1]
      /\ Tail(w) \in Seq(Byte) /\ Len(Tail(w)) = l - 1
      /\ \A n \in 1..(l - 1) : Tail(w)[n] = w[n + 1]
  BY <1>1, <1>2, HeadTailProperties
<1>4. /\ Append(b, Head(w)) \in Seq(Byte) /\ Len(Append(b, Head(w))) = k + 1
      /\ Append(b, Head(w))[k + 1] = w[1]
      /\ \A n \in 1..k : Append(b, Head(w))[n] = b[n]
  BY <1>1, <1>3, AppendProperties
<1>5. PICK u \in Seq(Byte) : /\ u = Append(b, Head(w)) \o Tail(w)
                             /\ Joins(u, Append(b, Head(w)), Tail(w))
  BY <1>3, <1>4, ConcatJoins
<1>6. PICK v \in Seq(Byte) : v = b \o w /\ Joins(v, b, w)
  BY ConcatJoins
<1>7. /\ Len(u) = (k + 1) + (l - 1)
      /\ \A n \in 1..(k + 1) : u[n] = Append(b, Head(w))[n]
      /\ \A n \in 1..(l - 1) : u[(k + 1) + n] = w[n + 1]
  BY <1>3, <1>4, <1>5 DEF Joins
<1>8. /\ Len(v) = k + l
      /\ \A n \in 1..k : v[n] = b[n]
      /\ \A n \in 1..l : v[k + n] = w[n]
  BY <1>1, <1>6 DEF Joins
<1>9. Len(u) = k + l
  BY <1>2, <1>7
<1>10. ASSUME NEW n \in 1..(k + l)
       PROVE  u[n] = v[n]
  <2>1. CASE n <= k
    <3>1. n \in 1..k /\ n \in 1..(k + 1)
      BY <2>1
    <3> QED
      BY <1>4, <1>7, <1>8, <3>1
  <2>2. CASE n = k + 1
    <3>1. n \in 1..(k + 1) /\ 1 \in 1..l
      BY <1>2, <2>2
    <3>2. u[n] = w[1]
      BY <1>4, <1>7, <2>2, <3>1
    <3>3. v[n] = w[1]
      BY <1>8, <2>2, <3>1
    <3> QED
      BY <3>2, <3>3
  <2>3. CASE n > k + 1
    <3>1. PICK m \in 1..(l - 1) : n = (k + 1) + m /\ n = k + (m + 1) /\ m + 1 \in 1..l
      <4>1. n - (k + 1) \in 1..(l - 1)
        BY <2>3
      <4>2. n = (k + 1) + (n - (k + 1)) /\ n = k + ((n - (k + 1)) + 1)
            /\ (n - (k + 1)) + 1 \in 1..l
        BY <2>3
      <4> QED
        BY <4>1, <4>2
    <3>2. u[n] = w[m + 1]
      BY <1>7, <3>1
    <3>3. v[n] = w[m + 1]
      BY <1>8, <3>1
    <3> QED
      BY <3>2, <3>3
  <2> QED
    BY <2>1, <2>2, <2>3
<1>11. u = v
  <2>1. \A n \in 1..Len(u) : u[n] = v[n]
    BY <1>9, <1>10
  <2>2. Len(u) = Len(v)
    BY <1>8, <1>9
  <2> QED
    BY <2>1, <2>2, SeqEqual
<1> QED
  BY <1>3, <1>4, <1>5, <1>6, <1>11

\* A message that is whole is the first frame, and nothing but it.
LEMMA WholeIsFrame ==
  ASSUME NEW b \in Seq(Byte), NEW w \in Seq(Byte), NEW c \in Nat, c <= Len(b \o w),
         IsFrame(SubSeq(b \o w, 1, c)), IsWhole(b)
  PROVE  Size(b) = c /\ c <= Len(b)
<1>1. PICK all \in Seq(Byte) : all = b \o w /\ Joins(all, b, w)
  BY ConcatJoins
<1>2. \A n \in 1..Len(b) : all[n] = b[n]
  BY <1>1 DEF Joins
<1>3. PICK f : f = SubSeq(all, 1, c)
  OBVIOUS
<1>4. Len(f) = c /\ \A n \in 1..c : f[n] = all[n]
  <2>1. 0 + c <= Len(all)
    BY <1>1
  <2>2. Len(SubSeq(all, 0 + 1, 0 + c)) = c /\ \A n \in 1..c : SubSeq(all, 0 + 1, 0 + c)[n] = all[0 + n]
    BY <2>1, SubSeqAt
  <2>3. 0 + 1 = 1 /\ 0 + c = c /\ \A n \in 1..c : 0 + n = n
    OBVIOUS
  <2> QED
    BY <1>3, <2>2, <2>3
<1>5. c >= 4 /\ f[1] # 19 /\ c = 4 + Value(f)
  BY <1>1, <1>3, <1>4 DEF IsFrame
<1>6. Len(b) \in Nat
  BY LenProperties
<1>7. b # <<>>
  BY DEF IsWhole, Size
<1>8. Len(b) >= 1
  BY <1>6, <1>7, EmptySeq
<1>9. \A n \in 1..Len(b) : n <= c => b[n] = f[n]
  BY <1>2, <1>4, <1>6
<1>10. b[1] # 19
  <2>1. 1 \in 1..Len(b) /\ 1 <= c
    BY <1>5, <1>6, <1>8
  <2> QED
    BY <1>5, <1>9, <2>1
<1>11. ~(Len(b) < 4)
  BY <1>6, <1>7, <1>10 DEF IsWhole, Size
<1>12. Size(b) = 4 + Value(b)
  BY <1>7, <1>10, <1>11 DEF Size
<1>13. Value(b) = Value(f)
  <2>1. \A n \in 1..4 : b[n] = f[n]
    BY <1>5, <1>6, <1>9, <1>11
  <2> QED
    BY <2>1, ValueOfPrefix
<1>14. Size(b) = c
  BY <1>5, <1>12, <1>13
<1> QED
  BY <1>14 DEF IsWhole

\* Reading it leaves the others.
LEMMA RestStays ==
  ASSUME NEW b \in Seq(Byte), NEW w \in Seq(Byte), NEW c \in Nat, c <= Len(b)
  PROVE  /\ SubSeq(b, 1, c) = SubSeq(b \o w, 1, c)
         /\ SubSeq(b, c + 1, Len(b)) \in Seq(Byte)
         /\ SubSeq(b, c + 1, Len(b)) \o w = SubSeq(b \o w, c + 1, Len(b \o w))
<1>1. PICK k \in Nat, l \in Nat : k = Len(b) /\ l = Len(w)
  BY LenProperties
<1>2. PICK all \in Seq(Byte) : all = b \o w /\ Joins(all, b, w)
  BY ConcatJoins
<1>3. /\ Len(all) = k + l
      /\ \A n \in 1..k : all[n] = b[n]
      /\ \A n \in 1..l : all[k + n] = w[n]
  BY <1>1, <1>2 DEF Joins
<1>4. SubSeq(b, 1, c) = SubSeq(all, 1, c)
  <2>1. 0 <= c /\ 0 + 1 = 1
    OBVIOUS
  <2>2. SubSeq(b \o w, 0 + 1, c) = SubSeq(b, 0 + 1, c)
    BY <2>1, SubSeqOfFront
  <2> QED
    BY <1>2, <2>1, <2>2
<1>5. PICK d \in Nat : d = k - c /\ c + d = k
  <2>1. c <= k
    BY <1>1
  <2>2. k - c \in Nat /\ c + (k - c) = k
    BY <2>1
  <2> QED
    BY <2>2
<1>6. PICK r : r = SubSeq(b, c + 1, k)
  OBVIOUS
<1>7. r \in Seq(Byte) /\ Len(r) = d /\ \A n \in 1..d : r[n] = b[c + n]
  <2>1. c + d <= Len(b)
    BY <1>1, <1>5
  <2>2. /\ SubSeq(b, c + 1, c + d) \in Seq(Byte) /\ Len(SubSeq(b, c + 1, c + d)) = d
        /\ \A n \in 1..d : SubSeq(b, c + 1, c + d)[n] = b[c + n]
    BY <2>1, SubSeqAt
  <2> QED
    BY <1>5, <1>6, <2>2
<1>8. PICK u \in Seq(Byte) : u = r \o w /\ Joins(u, r, w)
  BY <1>7, ConcatJoins
<1>9. /\ Len(u) = d + l
      /\ \A n \in 1..d : u[n] = r[n]
      /\ \A n \in 1..l : u[d + n] = w[n]
  BY <1>1, <1>7, <1>8 DEF Joins
<1>10. PICK v : v = SubSeq(all, c + 1, k + l)
  OBVIOUS
<1>11. v \in Seq(Byte) /\ Len(v) = d + l /\ \A n \in 1..(d + l) : v[n] = all[c + n]
  <2>1. c + (d + l) <= Len(all) /\ c + (d + l) = k + l
    BY <1>3, <1>5
  <2>2. /\ SubSeq(all, c + 1, c + (d + l)) \in Seq(Byte)
        /\ Len(SubSeq(all, c + 1, c + (d + l))) = d + l
        /\ \A n \in 1..(d + l) : SubSeq(all, c + 1, c + (d + l))[n] = all[c + n]
    BY <2>1, SubSeqAt
  <2> QED
    BY <1>10, <2>1, <2>2
<1>12. ASSUME NEW n \in 1..(d + l)
       PROVE  u[n] = v[n]
  <2>1. CASE n <= d
    <3>1. n \in 1..d /\ c + n \in 1..k
      BY <1>5, <2>1
    <3> QED
      BY <1>3, <1>7, <1>9, <1>11, <3>1
  <2>2. CASE n > d
    <3>1. PICK m \in 1..l : n = d + m /\ c + n = k + m
      <4>1. n - d \in 1..l /\ n = d + (n - d) /\ c + n = k + (n - d)
        BY <1>5, <2>2
      <4> QED
        BY <4>1
    <3>2. u[n] = w[m]
      BY <1>9, <3>1
    <3>3. v[n] = w[m]
      BY <1>3, <1>11, <3>1
    <3> QED
      BY <3>2, <3>3
  <2> QED
    BY <2>1, <2>2
<1>13. u = v
  <2>1. \A n \in 1..Len(u) : u[n] = v[n]
    BY <1>9, <1>12
  <2>2. Len(u) = Len(v)
    BY <1>9, <1>11
  <2> QED
    BY <1>11, <2>1, <2>2, SeqEqual
<1> QED
  BY <1>1, <1>2, <1>3, <1>4, <1>6, <1>7, <1>8, <1>10, <1>13

-----------------------------------------------------------------------------
(* The refinement *)

\* Nothing is under way.
LEMMA InitStream == Init => StreamInv
<1> SUFFICES ASSUME Init PROVE StreamInv
  OBVIOUS
<1>1. wire = <<>> /\ buffer = <<>> /\ pending = <<>>
  BY DEF Init
<1>2. PICK none : none = <<>> \o <<>>
  OBVIOUS
<1>3. none = <<>> /\ Len(none) = 0 /\ Len(<<>>) = 0
  BY <1>2
<1>4. PICK cut : cut = [n \in 0..0 |-> 0]
  OBVIOUS
<1>5. CutAt(cut, none, <<>>)
  BY <1>3, <1>4 DEF CutAt
<1>6. Splits(none, <<>>)
  BY <1>5 DEF Splits
<1> QED
  BY <1>1, <1>2, <1>6 DEF StreamInv

\* A call puts one frame behind the others.
LEMMA SendStream ==
  ASSUME StreamInv, NEW call \in Calls, call \in LegalCalls, Send(call)
  PROVE  StreamInv' /\ Stream!Send
<1>1. PICK frame, message : frame = Frame(call) /\ message = Meaning(call)
  OBVIOUS
<1>2. FrameOf(frame, message)
  BY <1>1, FramesAreUnderstood DEF FrameOf
<1>3. frame \in Seq(Byte)
  BY <1>2 DEF FrameOf, IsFrame
<1>4. message \in Meanings
  BY <1>1 DEF Meanings
<1>5. /\ wire' = wire \o frame /\ pending' = Append(pending, message)
      /\ buffer' = buffer /\ delivered' = delivered
  BY <1>1 DEF Send
<1>6. wire \in Seq(Byte) /\ buffer \in Seq(Byte) /\ pending \in Seq(Meanings)
  BY DEF StreamInv
<1>7. wire' \in Seq(Byte) /\ buffer' \in Seq(Byte)
  BY <1>3, <1>5, <1>6, ConcatJoins
<1>8. pending' \in Seq(Meanings)
  BY <1>4, <1>5, <1>6, AppendProperties
<1>9. PICK all \in Seq(Byte) : all = buffer \o wire
  BY <1>6, ConcatJoins
<1>10. Splits(all, pending)
  BY <1>9 DEF StreamInv
<1>11. Splits(all \o frame, Append(pending, message))
  BY <1>2, <1>4, <1>6, <1>10, SplitsAppend
<1>12. buffer' \o wire' = all \o frame
  <2>1. (buffer \o wire) \o frame = buffer \o (wire \o frame)
    BY <1>3, <1>6, ConcatAssociative
  <2> QED
    BY <1>5, <1>9, <2>1
<1>13. StreamInv'
  BY <1>5, <1>7, <1>8, <1>11, <1>12 DEF StreamInv
<1>14. Stream!Send
  BY <1>4, <1>5 DEF Stream!Send
<1> QED
  BY <1>13, <1>14

\* What arrives moves no cut.
LEMMA ArriveStream ==
  ASSUME StreamInv, Arrive
  PROVE  StreamInv' /\ UNCHANGED Stream!vars
<1>1. wire \in Seq(Byte) /\ buffer \in Seq(Byte) /\ pending \in Seq(Meanings)
  BY DEF StreamInv
<1>2. /\ wire # <<>> /\ buffer' = Append(buffer, Head(wire)) /\ wire' = Tail(wire)
      /\ delivered' = delivered /\ pending' = pending
  BY DEF Arrive
<1>3. wire' \in Seq(Byte) /\ buffer' \in Seq(Byte) /\ buffer' \o wire' = buffer \o wire
  BY <1>1, <1>2, ByteArrives
<1>4. StreamInv'
  BY <1>1, <1>2, <1>3 DEF StreamInv
<1> QED
  BY <1>2, <1>4 DEF Stream!vars

\* The other end takes the first frame.
LEMMA ReadStream ==
  ASSUME StreamInv, ReadMessage
  PROVE  StreamInv' /\ Stream!Read
<1>1. wire \in Seq(Byte) /\ buffer \in Seq(Byte) /\ pending \in Seq(Meanings)
  BY DEF StreamInv
<1>2. PICK all \in Seq(Byte) : all = buffer \o wire
  BY <1>1, ConcatJoins
<1>3. Splits(all, pending)
  BY <1>2 DEF StreamInv
<1>4. IsWhole(buffer)
  BY DEF ReadMessage
<1>5. pending # <<>>
  <2>1. SUFFICES ASSUME pending = <<>> PROVE FALSE
    OBVIOUS
  <2>2. all = <<>>
    BY <1>3, <2>1, SplitsEmpty
  <2>3. Len(buffer) + Len(wire) = 0
    <3>1. Joins(all, buffer, wire)
      BY <1>1, <1>2, ConcatJoins
    <3>2. Len(all) = 0
      BY <2>2
    <3> QED
      BY <3>1, <3>2 DEF Joins
  <2>4. Len(buffer) = 0
    <3>1. Len(buffer) \in Nat /\ Len(wire) \in Nat
      BY <1>1, LenProperties
    <3> QED
      BY <2>3, <3>1
  <2>5. buffer = <<>>
    BY <1>1, <2>4, EmptySeq
  <2> QED
    BY <1>4, <2>4, <2>5 DEF IsWhole, Size
<1>6. PICK c \in Nat :
        /\ c <= Len(all)
        /\ FrameOf(SubSeq(all, 1, c), pending[1])
        /\ Splits(SubSeq(all, c + 1, Len(all)), SubSeq(pending, 2, Len(pending)))
  BY <1>1, <1>3, <1>5, SplitsHead
<1>7. Size(buffer) = c /\ c <= Len(buffer)
  <2>1. c <= Len(buffer \o wire) /\ IsFrame(SubSeq(buffer \o wire, 1, c))
    BY <1>2, <1>6 DEF FrameOf
  <2> QED
    BY <1>1, <1>4, <1>6, <2>1, WholeIsFrame
<1>8. /\ SubSeq(buffer, 1, c) = SubSeq(all, 1, c)
      /\ SubSeq(buffer, c + 1, Len(buffer)) \in Seq(Byte)
      /\ SubSeq(buffer, c + 1, Len(buffer)) \o wire = SubSeq(all, c + 1, Len(all))
  <2>1. c \in Nat /\ c <= Len(buffer) /\ buffer \in Seq(Byte) /\ wire \in Seq(Byte)
    BY <1>1, <1>6, <1>7
  <2>2. /\ SubSeq(buffer, 1, c) = SubSeq(buffer \o wire, 1, c)
        /\ SubSeq(buffer, c + 1, Len(buffer)) \in Seq(Byte)
        /\ SubSeq(buffer, c + 1, Len(buffer)) \o wire
             = SubSeq(buffer \o wire, c + 1, Len(buffer \o wire))
    BY ONLY <2>1, RestStays
  <2> QED
    BY <1>2, <2>2
<1>9. /\ delivered' = Understood(SubSeq(buffer, 1, c))
      /\ buffer' = SubSeq(buffer, c + 1, Len(buffer))
      /\ pending' = SubSeq(pending, 2, Len(pending))
      /\ wire' = wire
  BY <1>7 DEF ReadMessage
<1>10. delivered' = pending[1]
  BY <1>6, <1>8, <1>9 DEF FrameOf
<1>11. /\ Head(pending) = pending[1] /\ Tail(pending) = SubSeq(pending, 2, Len(pending))
       /\ Tail(pending) \in Seq(Meanings)
  BY <1>1, <1>5, HeadTailProperties
<1>12. StreamInv'
  BY <1>1, <1>6, <1>8, <1>9, <1>11 DEF StreamInv
<1>13. Stream!Read
  BY <1>5, <1>9, <1>10, <1>11 DEF Stream!Read
<1> QED
  BY <1>12, <1>13

\* For any calls but handshake and bitfield, in any number, and whatever the
\* network makes of the bytes: what the other end reads is the next message with
\* its whole payload, and no message is read before it was sent, twice, or never
\* while a later one is.
THEOREM StreamIsKept ==
  ASSUME Calls \subseteq LegalCalls
  PROVE  Spec => MessagesInOrder
<1>1. Init => StreamInv
  BY InitStream
<1>2. Init => Stream!Init
  BY DEF Init, Stream!Init
<1>3. StreamInv /\ [Next]_vars => StreamInv' /\ [Stream!Next]_(Stream!vars)
  <2> SUFFICES ASSUME StreamInv, [Next]_vars
               PROVE  StreamInv' /\ [Stream!Next]_(Stream!vars)
    OBVIOUS
  <2>1. CASE \E call \in Calls : Send(call)
    <3>1. PICK call \in Calls : Send(call)
      BY <2>1
    <3>2. call \in LegalCalls
      BY <3>1
    <3>3. StreamInv' /\ Stream!Send
      BY <3>1, <3>2, SendStream
    <3> QED
      BY <3>3 DEF Stream!Next
  <2>2. CASE Arrive
    BY <2>2, ArriveStream
  <2>3. CASE ReadMessage
    <3>1. StreamInv' /\ Stream!Read
      BY <2>3, ReadStream
    <3> QED
      BY <3>1 DEF Stream!Next
  <2>4. CASE UNCHANGED vars
    BY <2>4 DEF vars, StreamInv, Stream!vars
  <2> QED
    BY <2>1, <2>2, <2>3, <2>4 DEF Next
<1> QED
  BY <1>1, <1>2, <1>3, PTL DEF Spec, MessagesInOrder

=============================================================================
