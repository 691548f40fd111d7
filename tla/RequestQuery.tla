---------------------------- MODULE RequestQuery ----------------------------
(***************************************************************************)
(* The query string that BtTrackerRequest::toRequestData makes of a        *)
(* request (src/src/BtTracker.cpp).  A query is a function from the names  *)
(* of the parameters sent to their values; what QUrlQuery does to the      *)
(* items it is given is Qt's.                                              *)
(***************************************************************************)
EXTENDS Naturals, Sequences

CONSTANT NullIp        \* a QHostAddress that was never set

\* The bytes '0'..'9', 'a'..'z', 'A'..'z' (the code's range, which has the six
\* punctuation marks behind 'Z' in it), '.', '-', '_' and '~' stand for
\* themselves
IsPlain(byte) == byte \in (48..57) \cup (65..122) \cup {45, 46, 126}

HexDigit(n) == IF n < 10 THEN 48 + n ELSE 55 + n

\* mutant: a byte below 16 becomes a single hexadecimal digit
Escape_OneDigit(byte) ==
  IF byte < 16 THEN <<37, HexDigit(byte)>>
  ELSE <<37, HexDigit(byte \div 16), HexDigit(byte % 16)>>

Escape(byte) == <<37, HexDigit(byte \div 16), HexDigit(byte % 16)>>

Byte == 0..255

Code(byte) == IF IsPlain(byte) THEN <<byte>> ELSE Escape(byte)

urlencodeUnicode(in) ==
  LET Encoded[n \in 0..Len(in)] ==
        IF n = 0 THEN <<>> ELSE Encoded[n - 1] \o Code(in[n])
  IN  Encoded[Len(in)]

Sent(r) ==
  {"info_hash", "peer_id", "port", "uploaded", "downloaded", "left"}
    \cup {p \in {"ip"} : r.ip # NullIp}
    \cup {p \in {"event"} : r.event # "empty"}
    \cup {p \in {"compact"} : r.compact}
    \cup {p \in {"no_peer_id"} : r.no_peer_id /\ ~r.compact}
    \cup {p \in {"numwant"} : r.numwant # 50}

Query(r) ==
  [p \in Sent(r) |->
     IF p \in {"info_hash", "peer_id"} THEN urlencodeUnicode(r[p]) ELSE r[p]]

=============================================================================
