------------------------------- MODULE BtCore -------------------------------
(***************************************************************************)
(* The class BtCore (src/src/BtCore.cpp, src/include/BtCore.h): it refers  *)
(* to a torrent of the caller's (module BtTorrent), has a local peer that  *)
(* refers to the same one (module BtPeer), and announces it to the tracker *)
(* that the torrent names (module TrackerContact).                         *)
(*                                                                         *)
(* All of it runs in the caller's thread: start does not come back before  *)
(* the announce is over, and between two calls of start the caller may do  *)
(* with its torrent what it likes.  pause, stop and startDownload have no  *)
(* body.                                                                   *)
(***************************************************************************)
EXTENDS BtTorrent, Integers

CONSTANTS
  Bodies, EndInE, Misleading, MaxContacts,   \* of TrackerContact
  HttpUrls,      \* the announce URLs with the scheme "http"
  NoUrl,         \* the URL of a torrent without "announce"
  PeerIds,       \* what generatePeerId may return
  ListenPorts,   \* the ports callers ask for
  Nothing        \* no core, no request

VARIABLES
  phase, reply, buffer, received, parsed,   \* the announce under way
  trackerState, contacts, sources,
  localPeer,     \* the local peer of the core; Nothing: there is no core
  rq             \* the request of the announce under way

contact == <<phase, reply, buffer, received, parsed, trackerState, contacts, sources>>
core == <<phase, reply, buffer, received, parsed, trackerState, contacts, sources,
          localPeer, rq>>
coreVars == <<vars, core>>

Contact == INSTANCE TrackerContact

\* quint16
Ports == {n \in Nat : n < 65536}

LocalPeers == [peer_id : PeerIds, port : Ports]

ASSUME NothingAssumption == Nothing \notin LocalPeers

\* the constructor takes an int
ASSUME ListenPortsAssumption == ListenPorts \subseteq Int

-----------------------------------------------------------------------------
announce ==
  IF "announce" \in DOMAIN torrentObject THEN torrentObject["announce"] ELSE NoUrl

CoreInit ==
  /\ Init
  /\ Contact!Init
  /\ localPeer = Nothing
  /\ rq = Nothing

\* the caller's calls of its torrent
TorrentCall ==
  /\ phase = "idle"
  /\ Next
  /\ UNCHANGED core

\* assigns to the caller's torrent
setTorrentRef(other) ==
  /\ torrentObject' = other.torrentObject
  /\ torrentInfo' = other.torrentInfo
  /\ torrentPieces' = other.torrentPieces
  /\ isParsed' = other.isParsed
  /\ info_hash' = other.info_hash

\* the member "torrent" of the local peer
Copy ==
  [torrentObject |-> torrentObject, torrentInfo |-> torrentInfo,
   torrentPieces |-> torrentPieces, isParsed |-> isParsed, info_hash |-> info_hash]

\* mutant: the port is not cut to 16 bits
NewCore_WidePort(id, listenPort) ==
  /\ localPeer = Nothing
  /\ localPeer' = [peer_id |-> id, port |-> listenPort]
  /\ setTorrentRef(Copy)
  /\ UNCHANGED <<disk, held, ret, history, contact, rq>>

\* The constructor.  That of the local peer copies the caller's torrent and
\* assigns the copy back to it.
NewCore(id, listenPort) ==
  /\ localPeer = Nothing
  /\ localPeer' = [peer_id |-> id, port |-> listenPort % 65536]
  /\ setTorrentRef(Copy)
  /\ UNCHANGED <<disk, held, ret, history, contact, rq>>

DeleteCore ==
  /\ localPeer # Nothing
  /\ phase = "idle"
  /\ localPeer' = Nothing
  /\ trackerState' = <<>> /\ sources' = <<>>
  /\ UNCHANGED <<vars, phase, reply, buffer, received, parsed, contacts, rq>>

\* mutant: the digest of what encodeTorrentFile would write
Request_OfIndex(url) ==
  [url |-> url, info_hash |-> HashOf(Joined(torrentInfo, torrentPieces)),
   peer_id |-> localPeer.peer_id, port |-> localPeer.port, left |-> length]

\* downloaded is 0 for ever, so that left is all of length()
Request(url) ==
  [url |-> url, info_hash |-> info_hash,
   peer_id |-> localPeer.peer_id, port |-> localPeer.port, left |-> length]

\* whatever the torrent holds, and whether or not isParsed says so
start ==
  /\ localPeer # Nothing
  /\ Contact!start(IF announce \in HttpUrls THEN "http" ELSE "other")
  /\ rq' = Request(announce)
  /\ UNCHANGED <<vars, localPeer>>

\* the announce goes on; its request dies with contactWithTracker
Announcing ==
  /\ Contact!Answer \/ Contact!Deliver \/ Contact!Client
  /\ rq' = IF phase' = "idle" THEN Nothing ELSE rq
  /\ UNCHANGED <<vars, localPeer>>

CoreNext ==
  \/ TorrentCall
  \/ \E id \in PeerIds, listenPort \in ListenPorts : NewCore(id, listenPort)
  \/ DeleteCore
  \/ start
  \/ Announcing

CoreSpec == CoreInit /\ [][CoreNext]_coreVars

-----------------------------------------------------------------------------
(* Properties *)

CoreTypeOK ==
  /\ localPeer = Nothing \/ localPeer \in LocalPeers
  /\ rq # Nothing => phase # "idle" /\ localPeer # Nothing

\* The announce of a torrent that was decoded from a file, whatever was loaded,
\* refused or half read before, goes to the tracker of that file, with the
\* digest of that file; and it is still what the caller's torrent says, which
\* the handshake of the local peer goes by.
AnnounceIsOfLoadedFile ==
  (rq # Nothing /\ loaded = "decoded") =>
    /\ rq.info_hash = origin.hash
    /\ rq.info_hash = info_hash
    /\ rq.url = origin.decoded["announce"]

\* A digest that is announced is announced to the tracker of its own file.
\* ("info_hash: The 20 byte sha1 hash of the bencoded form of the info value
\* from the metainfo file", src/include/BtTracker.h:10-11)
DigestGoesToItsTracker ==
  (rq # Nothing /\ rq.url \in HttpUrls /\ rq.info_hash # NoHash) =>
    \E c \in Documents :
      /\ c.hash = rq.info_hash
      /\ "announce" \in DOMAIN c.decoded /\ c.decoded["announce"] = rq.url

=============================================================================
