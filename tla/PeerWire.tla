------------------------------ MODULE PeerWire ------------------------------
(***************************************************************************)
(* The messages of BtLocalPeer (src/src/BtPeer.cpp) as the bytes they are  *)
(* on a TCP connection, where the network cuts them as it likes.  At the   *)
(* other end is any client that takes the stream apart by the description  *)
(* in src/include/BtPeer.h: a handshake of 49 + pstrlen bytes, and frames  *)
(* of a length prefix, four bytes with the high one first, and that many   *)
(* bytes, the first of which is the message ID.                            *)
(*                                                                         *)
(* A call is what the caller asks BtLocalPeer for; a message is the payload *)
(* the description gives it.  Which message an ID stands for is left to    *)
(* the other end: the code writes the characters '0' to '9', 48 to 57,     *)
(* the description has the bytes 0 to 9 (:55, :65-133), and a client that  *)
(* goes by it takes no message with an ID for what it is.                  *)
(***************************************************************************)
EXTENDS Integers, Sequences

CONSTANTS
  Calls,         \* the messages the caller asks for
  MaxUnread,     \* bound: messages under way
  MaxBytes       \* bound: bytes under way

VARIABLES
  wire,          \* bytes sent that have not arrived
  buffer,        \* bytes that arrived and were not read
  delivered,     \* the last message read
  pending        \* history: the messages sent and not yet read

vars == <<wire, buffer, delivered, pending>>

-----------------------------------------------------------------------------
(* BtLocalPeer's side *)

\* bigEndianFourBytesInteger: the parameter is an int, so that of a qint64 the
\* low 32 bits are left
FourBytes(integer) ==
  <<(integer \div 16777216) % 256, (integer \div 65536) % 256,
    (integer \div 256) % 256, integer % 256>>

\* '0' to '9'
IdChars == [choke |-> 48, unchoke |-> 49, interested |-> 50, notInterested |-> 51,
            have |-> 52, bitfield |-> 53, request |-> 54, piece |-> 55,
            cancel |-> 56, port |-> 57]

\* mutant: where the block begins is forgotten
mid_FromTheStart(data, pos, len) == SubSeq(data, 1, IF len > Len(data) THEN Len(data) ELSE len)

\* QByteArray::mid on a block that may reach over the end of the data
mid(data, pos, len) ==
  IF pos >= Len(data) THEN <<>>
  ELSE SubSeq(data, pos + 1, IF pos + len > Len(data) THEN Len(data) ELSE pos + len)

\* bitsToBytes: the first bit is the lowest one of the first byte, and there is
\* a byte too many when the bits fill their bytes
bitsToBytes(bits) ==
  LET Bit(n) == IF n <= Len(bits) /\ bits[n] THEN 1 ELSE 0
      Byte(k) == LET low == 8 * (k - 1) IN
        Bit(low + 1) + 2 * Bit(low + 2) + 4 * Bit(low + 3) + 8 * Bit(low + 4)
          + 16 * Bit(low + 5) + 32 * Bit(low + 6) + 64 * Bit(low + 7) + 128 * Bit(low + 8)
  IN  [k \in 1..(Len(bits) \div 8 + 1) |-> Byte(k)]

Payload(call) ==
  CASE call.name = "have" -> FourBytes(call.index)
    [] call.name \in {"request", "cancel"} ->
         FourBytes(call.index) \o FourBytes(call.begin) \o FourBytes(call.length)
    [] call.name = "piece" ->
         FourBytes(call.index) \o FourBytes(call.begin)
           \o mid(call.pieceData, call.begin, call.length)
    [] call.name = "bitfield" -> bitsToBytes(call.pieces)
    [] call.name = "port" -> <<call.listenPort \div 256, call.listenPort % 256>>
    [] OTHER -> <<>>

\* mutant: the ID is not counted in the length of a piece
Prefix_PieceWithoutId(call) ==
  CASE call.name = "piece" -> 8 + call.length
    [] call.name = "have" -> 5
    [] call.name \in {"request", "cancel"} -> 13
    [] call.name = "port" -> 3
    [] OTHER -> 1

\* the number each function writes in front; bitfield counts its bits
Prefix(call) ==
  CASE call.name = "have" -> 5
    [] call.name \in {"request", "cancel"} -> 13
    [] call.name = "piece" -> 9 + call.length
    [] call.name = "bitfield" -> 1 + Len(call.pieces)
    [] call.name = "port" -> 3
    [] OTHER -> 1

Protocol == <<66, 105, 116, 84, 111, 114, 114, 101, 110, 116, 32,
              112, 114, 111, 116, 111, 99, 111, 108>>

\* QByteArray::append(const char *) stops at the first zero
CString(bytes) ==
  IF \E n \in DOMAIN bytes : bytes[n] = 0
  THEN SubSeq(bytes, 1, (CHOOSE n \in DOMAIN bytes :
                           bytes[n] = 0 /\ \A j \in 1..(n - 1) : bytes[j] # 0) - 1)
  ELSE bytes

EightZeros == [n \in 1..8 |-> 0]

handshake(call) ==
  CString(<<19>>) \o CString(Protocol) \o CString(EightZeros)
    \o call.infoHash \o call.peer_id

Frame(call) ==
  CASE call.name = "handshake" -> handshake(call)
    [] call.name = "keepAlive" -> FourBytes(0)
    [] OTHER -> FourBytes(Prefix(call)) \o <<IdChars[call.name]>> \o Payload(call)

-----------------------------------------------------------------------------
(* The other side *)

Message(kind, payload) == [kind |-> kind, payload |-> payload]

NoMessage == Message("none", <<>>)

\* a number in four bytes, the high one first
BigEndian(n) ==
  LET Weight == <<16777216, 65536, 256, 1>>
  IN  [k \in 1..4 |-> (n \div Weight[k]) % 256]

\* the high bit of the first byte stands for the first piece, the spare bits are 0
Bitfield(pieces) ==
  LET Bit(n) == IF n <= Len(pieces) /\ pieces[n] THEN 1 ELSE 0
      Byte[k \in 1..((Len(pieces) + 7) \div 8), n \in 0..8] ==
        IF n = 0 THEN 0 ELSE 2 * Byte[k, n - 1] + Bit(8 * (k - 1) + n)
  IN  [k \in 1..((Len(pieces) + 7) \div 8) |-> Byte[k, 8]]

\* what a call means by the description
Meaning(call) ==
  CASE call.name = "handshake" -> Message("handshake", call.infoHash \o call.peer_id)
    [] call.name = "keepAlive" -> Message("keep-alive", <<>>)
    [] call.name = "have" -> Message("with ID", BigEndian(call.index))
    [] call.name \in {"request", "cancel"} ->
         Message("with ID",
                 BigEndian(call.index) \o BigEndian(call.begin) \o BigEndian(call.length))
    [] call.name = "piece" ->
         Message("with ID",
                 BigEndian(call.index) \o BigEndian(call.begin)
                   \o SubSeq(call.pieceData, call.begin + 1, call.begin + call.length))
    [] call.name = "bitfield" -> Message("with ID", Bitfield(call.pieces))
    [] call.name = "port" -> Message("with ID", SubSeq(BigEndian(call.listenPort), 3, 4))
    [] OTHER -> Message("with ID", <<>>)

Meanings == {Meaning(call) : call \in Calls}

Value(bytes) == ((bytes[1] * 256 + bytes[2]) * 256 + bytes[3]) * 256 + bytes[4]

\* How many bytes the first message takes.  No prefix begins with a 19: a
\* handshake does.
Size(bytes) ==
  IF bytes = <<>> THEN 1
  ELSE IF bytes[1] = 19 THEN 49 + 19
  ELSE IF Len(bytes) < 4 THEN 4
  ELSE 4 + Value(bytes)

IsWhole(bytes) == Len(bytes) >= Size(bytes)

\* what a whole message is taken for
Understood(frame) ==
  IF frame[1] = 19 THEN Message("handshake", SubSeq(frame, 29, 68))
  ELSE IF Len(frame) = 4 THEN Message("keep-alive", <<>>)
  ELSE Message("with ID", SubSeq(frame, 6, Len(frame)))

-----------------------------------------------------------------------------
Init == wire = <<>> /\ buffer = <<>> /\ delivered = NoMessage /\ pending = <<>>

\* the caller writes what BtLocalPeer made to the socket
Send(call) ==
  /\ Len(pending) < MaxUnread
  /\ Len(buffer) + Len(wire) + Len(Frame(call)) <= MaxBytes
  /\ wire' = wire \o Frame(call)
  /\ pending' = Append(pending, Meaning(call))
  /\ UNCHANGED <<buffer, delivered>>

\* a segment may end anywhere: it arrives byte by byte
Arrive ==
  /\ wire # <<>>
  /\ buffer' = Append(buffer, Head(wire))
  /\ wire' = Tail(wire)
  /\ UNCHANGED <<delivered, pending>>

ReadMessage ==
  /\ IsWhole(buffer)
  /\ delivered' = Understood(SubSeq(buffer, 1, Size(buffer)))
  /\ buffer' = SubSeq(buffer, Size(buffer) + 1, Len(buffer))
  /\ pending' = SubSeq(pending, 2, Len(pending))
  /\ UNCHANGED wire

Next == (\E call \in Calls : Send(call)) \/ Arrive \/ ReadMessage

\* TCP delivers what was sent, and the other end reads what it can
Spec == Init /\ [][Next]_vars /\ WF_vars(Arrive) /\ WF_vars(ReadMessage)

-----------------------------------------------------------------------------
(* Properties *)

Stream == INSTANCE MessageStream WITH Messages <- Meanings, queue <- pending

\* Whatever the network makes of the bytes, the other end reads one message
\* after the other in the order they were sent, each with its whole payload, none
\* twice and none that was not sent.
\* ("communicate via an exchange of length-prefixed messages",
\* src/include/BtPeer.h:13-14.)
MessagesInOrder == Stream!Init /\ [][Stream!Next]_(Stream!vars)

\* And no message is left unread for ever: neither the other end nor the sender
\* takes a frame for longer or shorter than it is.
\* (As above, after a handshake that "is (49+len(pstr)) bytes long", :19.)
MessagesArriveAsSent == Stream!Spec

=============================================================================
