------------------------------- MODULE BtPeer -------------------------------
(***************************************************************************)
(* The objects behind BtPeer, BtRemotePeer and BtLocalPeer                 *)
(* (src/src/BtPeer.cpp, src/include/BtPeer.h): who refers to whose         *)
(* BtTorrent, and what a call on one of them does to the others.           *)
(*                                                                         *)
(* A peer refers to a BtTorrent of the caller for as long as it lives: a   *)
(* C++ reference is never bound again, an assignment through it changes    *)
(* the caller's object.  A local peer has a copy of its own besides, which *)
(* only its constructor reads.  The caller keeps its objects alive.        *)
(*                                                                         *)
(* Of a BtTorrent the peers see the digest and "piece length".             *)
(***************************************************************************)
EXTENDS Naturals, FiniteSets

CONSTANTS
  Torrents,      \* the caller's BtTorrent objects
  Values,        \* what such an object may hold
  LocalPeers, RemotePeers,
  Ids, Ips, Ports,
  NoValue        \* no peer, no torrent

Peers == LocalPeers \cup RemotePeers

ASSUME ValuesAssumption ==
  /\ Values # {}
  /\ \A v \in Values : v.pieceLength \in Nat

ASSUME PeersAssumption ==
  /\ LocalPeers \cap RemotePeers = {}
  /\ Torrents \cap LocalPeers = {}
  /\ NoValue \notin Torrents \cup Peers \cup Values

VARIABLES
  torrents,      \* the caller's objects
  torrentRef,    \* the object each peer refers to; NoValue: not created
  copies,        \* the member "torrent" of a local peer
  pieces,        \* the bits that are set
  size,          \* how many bits there are
  address,       \* peer_id, ip and port
  builtOn,       \* history: the object given to the constructor
  callee         \* history: the peer of the last call; NoValue: the caller
                 \* changed a torrent of its own

peerVars == <<torrentRef, copies, pieces, size, address, builtOn>>
vars == <<torrents, torrentRef, copies, pieces, size, address, builtOn, callee>>

Created == {p \in Peers : builtOn[p] # NoValue}

getTorrentRef(p) ==
  IF torrentRef[p] \in Torrents THEN torrents[torrentRef[p]] ELSE copies[torrentRef[p]]

Addresses == [peer_id : Ids, ip : Ips, port : Ports]

-----------------------------------------------------------------------------
Init ==
  /\ torrents \in [Torrents -> Values]
  /\ torrentRef = [p \in Peers |-> NoValue]
  /\ copies = [p \in LocalPeers |-> NoValue]
  /\ pieces = [p \in Peers |-> {}]
  /\ size = [p \in Peers |-> 0]
  /\ address = [p \in Peers |-> NoValue]
  /\ builtOn = [p \in Peers |-> NoValue]
  /\ callee = NoValue

\* the constructor of BtPeer: one bit for each byte of a piece.  Without an
\* address it leaves the port as it finds it.
BasePeer(p, t, a) ==
  /\ builtOn[p] = NoValue
  /\ torrentRef' = [torrentRef EXCEPT ![p] = t]
  /\ size' = [size EXCEPT ![p] = torrents[t].pieceLength]
  /\ address' = [address EXCEPT ![p] = a]
  /\ builtOn' = [builtOn EXCEPT ![p] = t]
  /\ callee' = p
  /\ UNCHANGED pieces

NewRemotePeer(p, t, a) ==
  /\ BasePeer(p, t, a)
  /\ UNCHANGED <<torrents, copies>>

\* mutants: the member is not copied before setTorrentRef (an empty torrent is
\* assigned to the caller's); the peer refers to its copy
NewLocalPeer_AssignsEmpty(p, t, a) ==
  /\ BasePeer(p, t, a)
  /\ \E v \in Values :
       /\ v.pieceLength = 0
       /\ copies' = [copies EXCEPT ![p] = v]
       /\ torrents' = [torrents EXCEPT ![t] = v]

NewLocalPeer_RefersToCopy(p, t, a) ==
  /\ builtOn[p] = NoValue
  /\ copies' = [copies EXCEPT ![p] = torrents[t]]
  /\ torrentRef' = [torrentRef EXCEPT ![p] = p]
  /\ size' = [size EXCEPT ![p] = torrents[t].pieceLength]
  /\ address' = [address EXCEPT ![p] = a]
  /\ builtOn' = [builtOn EXCEPT ![p] = t]
  /\ callee' = p
  /\ UNCHANGED <<pieces, torrents>>

\* the base refers to the caller's object; the copy is made, and then assigned
\* to the caller's object by setTorrentRef
NewLocalPeer(p, t, a) ==
  /\ BasePeer(p, t, a)
  /\ copies' = [copies EXCEPT ![p] = torrents[t]]
  /\ torrents' = [torrents EXCEPT ![t] = copies'[p]]

setPeerId(p, id) ==
  /\ address' = [address EXCEPT ![p].peer_id = id]
  /\ callee' = p
  /\ UNCHANGED <<torrents, torrentRef, copies, pieces, size, builtOn>>

setIp(p, ip) ==
  /\ address' = [address EXCEPT ![p].ip = ip]
  /\ callee' = p
  /\ UNCHANGED <<torrents, torrentRef, copies, pieces, size, builtOn>>

setPort(p, port) ==
  /\ address' = [address EXCEPT ![p].port = port]
  /\ callee' = p
  /\ UNCHANGED <<torrents, torrentRef, copies, pieces, size, builtOn>>

\* assigns through the reference
setTorrentRef(p, t) ==
  /\ torrents' = [torrents EXCEPT ![torrentRef[p]] = torrents[t]]
  /\ callee' = p
  /\ UNCHANGED peerVars

\* QBitArray::setBit demands an index in range
pieceOk(p, i) ==
  /\ i < size[p]
  /\ pieces' = [pieces EXCEPT ![p] = @ \cup {i}]
  /\ callee' = p
  /\ UNCHANGED <<torrents, torrentRef, copies, size, address, builtOn>>

\* the caller loads another file into its object, or sets its value
Reload(t, v) ==
  /\ torrents' = [torrents EXCEPT ![t] = v]
  /\ callee' = NoValue
  /\ UNCHANGED peerVars

New(p) ==
  \E t \in Torrents, a \in Addresses :
    \/ p \in RemotePeers /\ NewRemotePeer(p, t, a)
    \/ p \in LocalPeers /\ NewLocalPeer(p, t, a)

Call(p) ==
  \/ \E id \in Ids : setPeerId(p, id)
  \/ \E ip \in Ips : setIp(p, ip)
  \/ \E port \in Ports : setPort(p, port)
  \/ \E t \in Torrents : setTorrentRef(p, t)
  \/ \E i \in 0..(size[p] - 1) : pieceOk(p, i)

Next ==
  \/ \E p \in Peers : New(p)
  \/ \E p \in Created : Call(p)
  \/ \E t \in Torrents, v \in Values : Reload(t, v)

Spec == Init /\ [][Next]_vars

-----------------------------------------------------------------------------
(* Properties *)

TypeOK ==
  /\ torrents \in [Torrents -> Values]
  /\ torrentRef \in [Peers -> Torrents \cup {NoValue}]
  /\ copies \in [LocalPeers -> Values \cup {NoValue}]
  /\ size \in [Peers -> Nat]
  /\ pieces \in [Peers -> SUBSET Nat]
  /\ \A p \in Peers : \A i \in pieces[p] : i < size[p]
  /\ address \in [Peers -> Addresses \cup {NoValue}]
  /\ builtOn \in [Peers -> Torrents \cup {NoValue}]
  /\ callee \in Peers \cup {NoValue}

\* Creating a peer changes no torrent and no other peer, although the
\* constructor of BtLocalPeer assigns to the torrent it is given: what it
\* assigns is what was there.
ConstructionDisturbsNoOne ==
  [][\A p \in Peers :
       (builtOn[p] = NoValue /\ builtOn'[p] # NoValue) =>
         /\ torrents' = torrents
         /\ \A q \in Created : /\ torrentRef'[q] = torrentRef[q]
                               /\ pieces'[q] = pieces[q]
                               /\ address'[q] = address[q]]_vars

\* A call on one peer leaves alone what torrent another one has.
\* ("Specify what torrent this peer has", src/include/BtPeer.h:191)
OneCallOnePeer ==
  [][\A p, q \in Created :
       (callee' = p /\ q # p) => getTorrentRef(q)' = getTorrentRef(q)]_vars

=============================================================================
