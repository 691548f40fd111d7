---------------------------- MODULE ByteStrings ----------------------------
(***************************************************************************)
(* What the parsers of src/src/BtBencode.cpp and src/src/BtTracker.cpp use *)
(* of Qt's QByteArray.  A byte array is a sequence of bytes, a byte is a   *)
(* string of one letter; positions count from 0, as in the code.           *)
(***************************************************************************)
EXTENDS Integers, Sequences

\* the letters the bencode notation uses, and any other
Byte == {"0", "1", "2", "3", "4", "5", "6", "7", "8", "9", "-", ":",
         "d", "e", "f", "i", "l", "n", "o", "p", "r", "t", " "} \cup STRING

ByteArray == Seq(Byte)

\* the byte at pos; "" stands for the zero behind the end
At(data, pos) == IF pos \in 0..(Len(data) - 1) THEN data[pos + 1] ELSE ""

mid(data, pos, len) ==
  IF len < 0 \/ pos + len > Len(data) THEN SubSeq(data, pos + 1, Len(data))
  ELSE SubSeq(data, pos + 1, pos + len)

\* indexOf for one byte, and for a text
indexOf(data, byte, from) ==
  LET Found(p) == At(data, p) = byte
      last == Len(data) - 1
  IN  IF \E p \in from..last : Found(p)
      THEN CHOOSE p \in from..last : Found(p) /\ \A q \in from..(p - 1) : ~Found(q)
      ELSE -1

indexOfText(data, text, from) ==
  LET Found(p) == mid(data, p, Len(text)) = text
      last == Len(data) - Len(text)
  IN  IF \E p \in from..last : Found(p)
      THEN CHOOSE p \in from..last : Found(p) /\ \A q \in from..(p - 1) : ~Found(q)
      ELSE -1

Join(parts) ==
  LET Joined[n \in 0..Len(parts)] ==
        IF n = 0 THEN <<>> ELSE Joined[n - 1] \o parts[n]
  IN  Joined[Len(parts)]

Digit == <<"0", "1", "2", "3", "4", "5", "6", "7", "8", "9">>

IsDigit(byte) == \E n \in 1..10 : byte = Digit[n]

DigitValue(byte) == (CHOOSE n \in 1..10 : byte = Digit[n]) - 1

Numeral(n) ==
  LET Written[m \in 0..n] ==
        IF m < 10 THEN <<Digit[m + 1]>>
        ELSE Append(Written[m \div 10], Digit[(m % 10) + 1])
  IN  Written[n]

number(n) == IF n < 0 THEN <<"-">> \o Numeral(-n) ELSE Numeral(n)

IsNumeral(s) ==
  LET start == IF At(s, 0) = "-" THEN 1 ELSE 0
  IN  Len(s) > start /\ \A p \in start..(Len(s) - 1) : IsDigit(At(s, p))

\* toInt and toLongLong: 0 for what is not a numeral
toInt(s) ==
  LET Natural[n \in 0..Len(s)] ==
        IF n = 0 \/ At(s, n - 1) = "-" THEN 0
        ELSE 10 * Natural[n - 1] + DigitValue(At(s, n - 1))
  IN  IF ~IsNumeral(s) THEN 0
      ELSE IF At(s, 0) = "-" THEN -Natural[Len(s)] ELSE Natural[Len(s)]

=============================================================================
