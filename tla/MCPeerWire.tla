----------------------------- MODULE MCPeerWire -----------------------------
(***************************************************************************)
(* One or two calls of every function of BtLocalPeer that writes frames,   *)
(* with arguments in one, two and three bytes, an empty block, and blocks  *)
(* from the beginning to the end of a piece whose data looks like frames.  *)
(***************************************************************************)
EXTENDS PeerWire

Plain(name) == [name |-> name]
Have(index) == [name |-> "have", index |-> index]
Block(name, index, begin, length) ==
  [name |-> name, index |-> index, begin |-> begin, length |-> length]

Data == <<0, 0, 0, 1, 48, 19>>
Piece(index, begin, length) ==
  [name |-> "piece", index |-> index, begin |-> begin, length |-> length, pieceData |-> Data]

FramedCalls ==
  { Plain(name) : name \in {"keepAlive", "choke", "unchoke", "interested", "notInterested"} }
    \cup { Have(0), Have(65539), Block("request", 1, 258, 16384), Block("cancel", 1, 0, 256),
           Piece(2, 0, 6), Piece(2, 5, 1), Piece(0, 1, 0),
           [name |-> "port", listenPort |-> 6881] }

Opening ==
  { [name |-> "handshake", infoHash |-> [n \in 1..20 |-> 100 + n],
     peer_id |-> [n \in 1..20 |-> 60 + n]], Have(7) }

=============================================================================
