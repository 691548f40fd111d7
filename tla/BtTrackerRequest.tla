-------------------------- MODULE BtTrackerRequest --------------------------
(***************************************************************************)
(* The class BtTrackerRequest (src/src/BtTracker.cpp): the parameters of   *)
(* an announce, and the query string made of them, which is kept until a   *)
(* setter marks it out of date.  Eight of the eleven setters return early  *)
(* when the value is the one already there.                                *)
(***************************************************************************)
EXTENDS RequestQuery, Integers

CONSTANTS
  Hashes,        \* byte strings for info_hash, and
  PeerIds,       \* for peer_id
  Ips, Ports,
  Counts,        \* for uploaded and downloaded
  Lefts, Events, Numwants

VARIABLES
  request,               \* the eleven members that hold parameters
  requestData,
  requestDataGenerated,
  answer,                \* what toRequestData returned last
  turn                   \* history: flips with every call of toRequestData

vars == <<request, requestData, requestDataGenerated, answer, turn>>

ASSUME DefaultsAssumption ==
  50 \in Numwants /\ "empty" \in Events /\ NullIp \in Ips

\* a QByteArray holds bytes
ASSUME BytesAssumption ==
  Hashes \subseteq Seq(Byte) /\ PeerIds \subseteq Seq(Byte)

Requests ==
  [info_hash : Hashes, peer_id : PeerIds, ip : Ips, port : Ports,
   uploaded : Counts, downloaded : Counts, left : Lefts, event : Events,
   compact : BOOLEAN, no_peer_id : BOOLEAN, numwant : Numwants]

-----------------------------------------------------------------------------
\* Both constructors: the one without arguments leaves port, uploaded,
\* downloaded and left to whatever the memory holds.
Init ==
  /\ request \in {r \in Requests : ~r.compact /\ ~r.no_peer_id /\ r.numwant = 50}
  /\ requestData = <<>>
  /\ requestDataGenerated = FALSE
  /\ answer = <<>>
  /\ turn = FALSE

Store(key, new) ==
  /\ requestDataGenerated' = FALSE
  /\ request' = [request EXCEPT ![key] = new]
  /\ UNCHANGED <<requestData, answer, turn>>

StoreIfNew(key, new) ==
  \/ new # request[key] /\ Store(key, new)
  \/ new = request[key] /\ UNCHANGED vars

setInfoHash(new)   == Store("info_hash", new)
setPeerId(new)     == Store("peer_id", new)
setIp(new)         == Store("ip", new)
setPort(new)       == StoreIfNew("port", new)
setUploaded(new)   == StoreIfNew("uploaded", new)
setDownloaded(new) == StoreIfNew("downloaded", new)

\* (mutant: the query is left as it is)
setLeft_StaleCache(new) ==
  /\ request' = [request EXCEPT !.left = new]
  /\ UNCHANGED <<requestData, requestDataGenerated, answer, turn>>

setLeft(new)       == StoreIfNew("left", new)
setEvent(new)      == StoreIfNew("event", new)
setCompact(new)    == StoreIfNew("compact", new)
setNoPeerId(new)   == StoreIfNew("no_peer_id", new)

\* (mutant: zero is taken for "not set")
setNumwant_ZeroIsNone(new) == StoreIfNew("numwant", IF new = 0 THEN -1 ELSE new)

setNumwant(new)    == StoreIfNew("numwant", new)

\* (mutant: the first query is kept for ever)
toRequestData_KeepsFirst ==
  /\ requestData' = IF requestData = <<>> THEN Query(request) ELSE requestData
  /\ requestDataGenerated' = TRUE
  /\ answer' = requestData'
  /\ turn' = ~turn
  /\ UNCHANGED request

toRequestData ==
  /\ requestData' = IF requestDataGenerated THEN requestData ELSE Query(request)
  /\ requestDataGenerated' = TRUE
  /\ answer' = requestData'
  /\ turn' = ~turn
  /\ UNCHANGED request

Next ==
  \/ \E new \in Hashes : setInfoHash(new)
  \/ \E new \in PeerIds : setPeerId(new)
  \/ \E new \in Ips : setIp(new)
  \/ \E new \in Ports : setPort(new)
  \/ \E new \in Counts : setUploaded(new)
  \/ \E new \in Counts : setDownloaded(new)
  \/ \E new \in Lefts : setLeft(new)
  \/ \E new \in Events : setEvent(new)
  \/ \E new \in BOOLEAN : setCompact(new)
  \/ \E new \in BOOLEAN : setNoPeerId(new)
  \/ \E new \in Numwants : setNumwant(new)
  \/ toRequestData

Spec == Init /\ [][Next]_vars

-----------------------------------------------------------------------------
\* The parameters stay within their sets.
TypeOK ==
  /\ request \in Requests
  /\ requestDataGenerated \in BOOLEAN
  /\ turn \in BOOLEAN

\* The flag never vouches for a query of other parameters.
\* ("Every time new data setted, this request will be cleared",
\* src/include/BtTracker.h:121-124.)
CacheFresh == requestDataGenerated => requestData = Query(request)

\* Two torrents, or two peers, are never announced by the same query: the
\* escaping can be undone.
QueryTellsHashes ==
  /\ \A h \in Hashes : h # request.info_hash =>
       Query([request EXCEPT !.info_hash = h]) # Query(request)
  /\ \A i \in PeerIds : i # request.peer_id =>
       Query([request EXCEPT !.peer_id = i]) # Query(request)

\* The cache cannot be noticed: every answer is the query of the parameters
\* of that moment.
Abstract == INSTANCE TrackerRequestSpec
AnswersAreCurrent == Abstract!Spec

=============================================================================
