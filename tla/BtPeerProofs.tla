---------------------------- MODULE BtPeerProofs ----------------------------
(***************************************************************************)
(* What the objects of BtPeer keep for any number of torrents and peers,   *)
(* and any values of the torrents.                                         *)
(***************************************************************************)
EXTENDS BtPeer, TLAPS

\* A reference is never bound again.
BoundOnce == torrentRef = builtOn

\* A peer that does not exist yet has no pieces.
NoPiecesYet == \A p \in Peers : builtOn[p] = NoValue => pieces[p] = {}

\* A peer that exists has an address.
Addressed == \A p \in Peers : builtOn[p] # NoValue => address[p] \in Addresses

PeerInv == TypeOK /\ BoundOnce /\ NoPiecesYet /\ Addressed

\* The constructor of BtPeer, with what the derived classes add.
LEMMA BasePeerInv ==
  ASSUME PeerInv, NEW p \in Peers, NEW t \in Torrents, NEW a \in Addresses,
         BasePeer(p, t, a),
         torrents' \in [Torrents -> Values],
         copies' \in [LocalPeers -> Values \cup {NoValue}]
  PROVE  PeerInv'
<1> USE DEF BasePeer, PeerInv
<1>1. torrents[t].pieceLength \in Nat
  BY ValuesAssumption DEF TypeOK
<1>2. \A q \in Peers : \A i \in pieces'[q] : i < size'[q]
  BY DEF TypeOK, NoPiecesYet
<1>3. TypeOK'
  BY <1>1, <1>2 DEF TypeOK
<1>4. BoundOnce'
  BY DEF BoundOnce, TypeOK
<1>5. NoPiecesYet'
  BY PeersAssumption DEF NoPiecesYet, TypeOK
<1>6. Addressed'
  BY DEF Addressed, TypeOK
<1> QED
  BY <1>3, <1>4, <1>5, <1>6

\* What BtLocalPeer assigns to the caller's torrent is what was there.
LEMMA LocalPeerAssignsSame ==
  ASSUME TypeOK, NEW p \in LocalPeers, NEW t \in Torrents, NEW a, NewLocalPeer(p, t, a)
  PROVE  /\ copies' = [copies EXCEPT ![p] = torrents[t]]
         /\ torrents' = torrents
<1>1. copies' = [copies EXCEPT ![p] = torrents[t]]
  BY DEF NewLocalPeer
<1>2. copies'[p] = torrents[t]
  BY <1>1 DEF TypeOK
<1>3. torrents' = [torrents EXCEPT ![t] = copies'[p]]
  BY DEF NewLocalPeer
<1> QED
  BY <1>1, <1>2, <1>3 DEF TypeOK

\* No peer exists at first.
LEMMA InitPeerInv == Init => PeerInv
BY DEF Init, PeerInv, TypeOK, BoundOnce, NoPiecesYet, Addressed

\* Constructors, setters, setTorrentRef, pieceOk and the caller's own changes
\* keep the invariant.
LEMMA NextPeerInv ==
  ASSUME PeerInv, [Next]_vars
  PROVE  PeerInv'
<1>1. ASSUME NEW p \in RemotePeers, NEW t \in Torrents, NEW a \in Addresses,
             NewRemotePeer(p, t, a)
      PROVE  PeerInv'
  BY <1>1, BasePeerInv DEF NewRemotePeer, PeerInv, TypeOK, Peers
<1>2. ASSUME NEW p \in LocalPeers, NEW t \in Torrents, NEW a \in Addresses,
             NewLocalPeer(p, t, a)
      PROVE  PeerInv'
  <2>1. /\ copies' = [copies EXCEPT ![p] = torrents[t]]
        /\ torrents' = torrents
    BY <1>2, LocalPeerAssignsSame DEF PeerInv
  <2>2. /\ copies' \in [LocalPeers -> Values \cup {NoValue}]
        /\ torrents' \in [Torrents -> Values]
    BY <2>1 DEF PeerInv, TypeOK
  <2> QED
    BY <1>2, <2>2, BasePeerInv DEF NewLocalPeer, Peers
<1>3. ASSUME NEW p \in Created,
             \/ \E id \in Ids : setPeerId(p, id)
             \/ \E ip \in Ips : setIp(p, ip)
             \/ \E port \in Ports : setPort(p, port)
      PROVE  PeerInv'
  <2>1. p \in Peers
    BY DEF Created
  <2>2. address[p] \in Addresses
    BY DEF Created, PeerInv, Addressed
  <2>3. PICK a \in Addresses : address' = [address EXCEPT ![p] = a]
    BY <1>3, <2>2 DEF setPeerId, setIp, setPort, Addresses
  <2>4. UNCHANGED <<torrents, torrentRef, copies, pieces, size, builtOn>>
    BY <1>3 DEF setPeerId, setIp, setPort
  <2>5. callee' = p
    BY <1>3 DEF setPeerId, setIp, setPort
  <2>6. address' \in [Peers -> Addresses \cup {NoValue}] /\ Addressed'
    BY <2>1, <2>3, <2>4 DEF PeerInv, TypeOK, Addressed
  <2> QED
    BY <2>1, <2>4, <2>5, <2>6 DEF PeerInv, TypeOK, BoundOnce, NoPiecesYet
<1>4. ASSUME NEW p \in Created, NEW t \in Torrents, setTorrentRef(p, t)
      PROVE  PeerInv'
  <2>1. torrentRef[p] \in Torrents /\ p \in Peers
    BY DEF Created, PeerInv, BoundOnce, TypeOK
  <2>2. torrents' \in [Torrents -> Values] /\ callee' \in Peers \cup {NoValue}
    BY <1>4, <2>1 DEF setTorrentRef, PeerInv, TypeOK
  <2> QED
    BY <1>4, <2>2 DEF setTorrentRef, peerVars, PeerInv, TypeOK, BoundOnce, NoPiecesYet,
                      Addressed
<1>5. ASSUME NEW p \in Created, NEW i \in 0..(size[p] - 1), pieceOk(p, i)
      PROVE  PeerInv'
  <2>1. p \in Peers /\ builtOn[p] # NoValue
    BY DEF Created
  <2>2. pieces' \in [Peers -> SUBSET Nat]
    BY <1>5, <2>1 DEF pieceOk, PeerInv, TypeOK
  <2>3. \A q \in Peers : \A j \in pieces'[q] : j < size[q]
    BY <1>5, <2>1 DEF pieceOk, PeerInv, TypeOK
  <2>4. NoPiecesYet'
    BY <1>5, <2>1 DEF pieceOk, PeerInv, TypeOK, NoPiecesYet
  <2> QED
    BY <1>5, <2>1, <2>2, <2>3, <2>4 DEF pieceOk, PeerInv, TypeOK, BoundOnce, Addressed
<1>6. ASSUME NEW t \in Torrents, NEW v \in Values, Reload(t, v)
      PROVE  PeerInv'
  BY <1>6 DEF Reload, peerVars, PeerInv, TypeOK, BoundOnce, NoPiecesYet, Addressed
<1>7. CASE UNCHANGED vars
  BY <1>7 DEF vars, PeerInv, TypeOK, BoundOnce, NoPiecesYet, Addressed
<1> QED
  BY <1>1, <1>2, <1>3, <1>4, <1>5, <1>6, <1>7 DEF Next, New, Call

\* The invariant holds in every reachable state.
LEMMA SpecPeerInv == Spec => []PeerInv
<1>1. PeerInv /\ [Next]_vars => PeerInv'
  BY NextPeerInv
<1> QED
  BY InitPeerInv, <1>1, PTL DEF Spec

\* Every variable keeps its type, a reference leads to a torrent of the
\* caller's, and a set bit is within the array.
THEOREM TypeCorrect == Spec => []TypeOK
<1>1. PeerInv => TypeOK
  BY DEF PeerInv
<1> QED
  BY SpecPeerInv, <1>1, PTL

\* No constructor changes a torrent or a peer that is there.
THEOREM ConstructorsAreHarmless == Spec => ConstructionDisturbsNoOne
<1> DEFINE Harmless ==
      \A p \in Peers :
        (builtOn[p] = NoValue /\ builtOn'[p] # NoValue) =>
          /\ torrents' = torrents
          /\ \A q \in Created : /\ torrentRef'[q] = torrentRef[q]
                                /\ pieces'[q] = pieces[q]
                                /\ address'[q] = address[q]
<1>1. ASSUME PeerInv, NEW p \in RemotePeers, NEW t \in Torrents, NEW a \in Addresses,
             NewRemotePeer(p, t, a)
      PROVE  Harmless
  BY <1>1 DEF NewRemotePeer, BasePeer, PeerInv, TypeOK, Created
<1>2. ASSUME PeerInv, NEW p \in LocalPeers, NEW t \in Torrents, NEW a \in Addresses,
             NewLocalPeer(p, t, a)
      PROVE  Harmless
  <2>1. torrents' = torrents
    BY <1>2, LocalPeerAssignsSame DEF PeerInv
  <2> QED
    BY <1>2, <2>1 DEF NewLocalPeer, BasePeer, PeerInv, TypeOK, Created
<1>3. ASSUME UNCHANGED builtOn
      PROVE  Harmless
  BY <1>3
<1>4. PeerInv /\ [Next]_vars => [Harmless]_vars
  <2> SUFFICES ASSUME PeerInv, Next PROVE Harmless \/ UNCHANGED vars
    OBVIOUS
  <2>1. ASSUME NEW p \in Created, Call(p)
        PROVE  UNCHANGED builtOn
    BY <2>1 DEF Call, setPeerId, setIp, setPort, setTorrentRef, pieceOk, peerVars
  <2>2. ASSUME NEW t \in Torrents, NEW v \in Values, Reload(t, v)
        PROVE  UNCHANGED builtOn
    BY <2>2 DEF Reload, peerVars
  <2> QED
    BY <1>1, <1>2, <1>3, <2>1, <2>2 DEF Next, New
<1> QED
  BY SpecPeerInv, <1>4, PTL DEF Spec, ConstructionDisturbsNoOne

=============================================================================
