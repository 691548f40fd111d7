---------------------------- MODULE TrackerPeers ----------------------------
(***************************************************************************)
(* The loop of parseTrackerResponse that reads what stands behind "5:peers" *)
(* in a tracker's reply (src/src/BtTracker.cpp), one step per round.  It   *)
(* does not use the bencode decoder: it goes by the first letter of each   *)
(* field.                                                                  *)
(*                                                                         *)
(* This is the release build, where QByteArray::at does not check its      *)
(* index: before the first byte and behind the terminating zero any byte   *)
(* may be read.                                                            *)
(***************************************************************************)
EXTENDS ByteStrings

CONSTANTS
  Replies,       \* what may stand behind "5:peers": its form, the peers sent, the bytes
  MaxPeers       \* bound: peers recorded; the code's list grows without end

VARIABLES
  reply,         \* the reply at hand
  peers,         \* its bytes behind "5:peers", without the last one
  i,             \* position in peers
  peerList,
  outcome        \* "parsing", "returned" or "threw"

vars == <<reply, peers, i, peerList, outcome>>

NoId == <<>>

Peer == [id : ByteArray, ip : ByteArray, port : ByteArray]

\* The fields of a peer, bencoded: an id if the tracker sends them, "ip", "port".
String(bytes) == number(Len(bytes)) \o <<":">> \o bytes
IdField(p) ==
  IF p.id = NoId THEN <<>> ELSE <<"7", ":", "p", "e", "e", "r", " ", "i", "d">> \o String(p.id)
IpField(p) == <<"2", ":", "i", "p">> \o String(p.ip)
PortField(p) == <<"4", ":", "p", "o", "r", "t", "i">> \o p.port \o <<"e">>
Fields(p) == IdField(p) \o IpField(p) \o PortField(p)

\* The peers one after the other, without the brackets of the list and its
\* dictionaries, as the parser wants them; behind them the 'e' of the list and
\* the one of the reply.
Bare(list) == Join([n \in DOMAIN list |-> Fields(list[n])]) \o <<"e", "e">>

\* The three forms of a reply: a list of dictionaries and a string of six bytes
\* per peer (src/include/BtTracker.h:201-209), which may be any bytes, and bare.
ASSUME RepliesAssumption ==
  /\ MaxPeers \in Nat
  /\ \A r \in Replies :
       /\ r.form \in {"list", "compact", "bare"} /\ r.bytes \in ByteArray
       /\ r.form = "list" => At(r.bytes, 0) = "l"
       /\ r.form = "bare" =>
            /\ r.sent \in Seq(Peer) /\ Len(r.sent) <= MaxPeers /\ r.bytes = Bare(r.sent)
            /\ \A n \in DOMAIN r.sent :
                 /\ Len(r.sent[n].id) \in {0, 20}
                 /\ \A p \in DOMAIN r.sent[n].port : r.sent[n].port[p] # "e"

\* the last byte, the 'e' of the reply, is left out
PeersOf(r) == mid(r.bytes, 0, Len(r.bytes) - 1)

haveId == At(peers, 0) = "7"

BytesAt(pos) ==
  IF pos \in 0..Len(peers) THEN {At(peers, pos)} ELSE {"2", "4", "7", "e", ""}
CanBe(pos, byte) == byte \in BytesAt(pos)
CanDiffer(pos, byte) == BytesAt(pos) # {byte}

\* mid and indexOf for a position that may lie before the first byte
midFrom(pos, len) ==
  IF pos >= 0 THEN mid(peers, pos, len)
  ELSE IF len < 0 THEN peers
  ELSE mid(peers, 0, IF pos + len < 0 THEN 0 ELSE pos + len)
indexFrom(byte, from) ==
  indexOf(peers, byte, IF from >= 0 THEN from
                       ELSE IF from + Len(peers) >= 0 THEN from + Len(peers) ELSE 0)

-----------------------------------------------------------------------------
(* One round: "7:peer id20:<id>" if there are ids, "2:ip<n>:<ip>" and      *)
(* "4:porti<port>e".                                                       *)

IpAt == IF haveId THEN i + 7 + 2 + 3 + 20 ELSE i
id == IF haveId THEN mid(peers, i + 7 + 2 + 3, 20) ELSE NoId

colonIdx == indexOf(peers, ":", IpAt + 2 + 2)

ipLen == toInt(mid(peers, IpAt + 4, colonIdx - IpAt - 4))
ip == mid(peers, colonIdx + 1, ipLen)

PortAt == colonIdx + 1 + ipLen

\* mutant: always the first 'e'
eIdx_FromStart == indexOf(peers, "e", 0)

eIdx == indexFrom("e", PortAt + 4 + 2)

\* mutant: the 'e' is taken for a digit
port_WithEnd == midFrom(PortAt + 7, eIdx - PortAt - 6)

port == midFrom(PortAt + 7, eIdx - PortAt - 7)

Fits ==
  /\ haveId => CanBe(i, "7")
  /\ CanBe(IpAt, "2")
  /\ CanBe(PortAt, "4")

CanFail ==
  \/ haveId /\ CanDiffer(i, "7")
  \/ CanDiffer(IpAt, "2")
  \/ CanDiffer(PortAt, "4")

Init ==
  /\ reply \in Replies
  /\ peers = PeersOf(reply)
  /\ i = 0
  /\ peerList = <<>>
  /\ outcome = "parsing"

ListEnds ==
  /\ outcome = "parsing"
  /\ CanBe(i, "e")
  /\ outcome' = "returned"
  /\ UNCHANGED <<reply, peers, i, peerList>>

\* eIdx + 1 is 0 when the port is not closed by an 'e'
PeerRead ==
  /\ outcome = "parsing"
  /\ CanDiffer(i, "e")
  /\ Fits
  /\ peerList' = IF Len(peerList) < MaxPeers
                 THEN Append(peerList, [id |-> id, ip |-> ip, port |-> port]) ELSE peerList
  /\ i' = eIdx + 1
  /\ UNCHANGED <<reply, peers, outcome>>

\* "There's shit in trackers response"
OtherByte ==
  /\ outcome = "parsing"
  /\ CanDiffer(i, "e")
  /\ CanFail
  /\ outcome' = "threw"
  /\ UNCHANGED <<reply, peers, i, peerList>>

Next == ListEnds \/ PeerRead \/ OtherByte

\* the thread that parses goes on while it can
Spec == Init /\ [][Next]_vars /\ WF_vars(Next)

-----------------------------------------------------------------------------
(* Properties *)

\* A field is not closed: no ':' behind the length of the address, no 'e' behind
\* the port, or a length below zero.
UnclosedField == colonIdx = -1 \/ ipLen < 0 \/ eIdx = -1

\* A list of dictionaries is never returned, and of peers written bare, as the
\* loop expects them, each is returned with its own id, address and port,
\* whatever letters and colons the addresses and ids are made of, and although
\* one map is reused for all of them.  Nothing is said of compact replies: some
\* of 20 to 29 or 70 to 79 bytes are taken for entries, and returned as peers
\* nobody sent.
PeersAsSent ==
  outcome = "returned" => /\ reply.form # "list"
                          /\ reply.form = "bare" => peerList = reply.sent

\* A round that finds all its fields closed takes the loop forward and leaves it
\* inside the bytes, also when it takes a compact reply for entries.
ClosedRoundsAdvance ==
  [][PeerRead /\ ~UnclosedField => i < i' /\ i' <= Len(peers)]_vars

\* The loop ends, by the closing 'e' or by an exception, unless the reply is
\* compact and round after round comes to a field that is not closed; then it
\* goes on for ever, as with four bytes of address and port 14900 (":4").
\* ("It will throw exceptions when error following errors occured",
\* src/include/BtTracker.h:229-230.)
EndsUnlessUnclosed ==
  \/ <>(outcome # "parsing")
  \/ reply.form = "compact" /\ []<>UnclosedField

\* The peers of a conforming reply are read: "peers: (dictionary model) The
\* value is a list of dictionaries" (src/include/BtTracker.h:201), which
\* parseTrackerResponse is there "to deal with" (:229).
ConformingPeersAreRead == outcome # "threw"

=============================================================================
