# A verification of BtQt

BtQt is a BitTorrent client in C++ on Qt. What it has so far: a bencode codec, a
torrent file object, the announce to an HTTP tracker, a core that glues these
together, and the beginnings of the peer protocol. This directory holds TLA+
models of it, the configurations TLC checks them with, and proofs TLAPS checks.
`PROJECT.json` maps each definition to the lines it was translated from.

    tlc -workers 2 -config MCBtTorrent.cfg MCBtTorrent
    tlc -workers 2 -config PeerWire_HandshakeIsRead.cfg MCPeerWire     # a finding
    tlapm BtCoreProofs.tla

## 1. The system

| component | state | operations | talks to |
|---|---|---|---|
| **BtTorrent** (`src/BtTorrent.cpp`) | `torrentObject` (what was decoded), the index `torrentInfo`/`torrentPieces`, `isParsed`, `info_hash`; the file | `decodeTorrentFile`, `encodeTorrentFile`, `setValue`, `value`, `clear`, option setters, `setInfoHash`, accessors | the codec; `torrentInfoHash` |
| **Bencode codec** (`src/BtBencode.cpp`) | none | decoders for integer, string, list, dictionary; encoders; `getLastE` | called by BtTorrent and the tracker code |
| **BtTrackerRequest** (`src/BtTracker.cpp`) | eleven parameters, the cached query `requestData` and its flag | eleven setters, `toRequestData` | BtCore fills it, `sendTrackerRequest` asks it |
| **Tracker contact** (`sendTrackerRequest`, `parseTrackerResponse`, `BtTrackerResponse`, `BtCore::start`) | a socket; `trackerState`, the list of responses | connect, wait, read, parse, record | the tracker, over TCP; the codec |
| **Peers parser** (the loop in `parseTrackerResponse`) | position, list of peers | one round per peer | called on the reply |
| **BtPeer, BtLocalPeer, BtRemotePeer** (`src/BtPeer.cpp`) | a reference to the caller's torrent, id, address, piece bits; a local peer's copy of the torrent | constructors, `setPeerId`, `setIp`, `setPort`, `setTorrentRef`, `pieceOk`; `send`, `process`, `received` are empty | the torrent that its caller, a core and other peers hold |
| **Peer wire messages** (`BtLocalPeer`) | none | the handshake and eleven messages | bytes for a socket nobody opens yet |
| **BtCore** (`src/BtCore.cpp`) | a reference to the caller's torrent, a local peer, responses | constructor, destructor, `start`; `pause`, `stop`, `startDownload` are empty | all of the above |
| generatePeerId, display functions, GUI, test driver, build files | – | – | – |

Everything runs in one thread. The only concurrency is with the tracker and the
network during the waits of `sendTrackerRequest`. What is hard here is elsewhere:

* **failure in the middle.** Every call may fail at several points, by return
  value, by exception, or in silence, and each point leaves other members behind.
* **redundant state.** The object, its index, its flag, its digest; the request
  and its cached query: each pair has to be kept together by hand.
* **exceptions that are caught too early.** The decoders swallow errors of nested
  containers and go on with what they have.
* **a reply read once.** `readAll` takes what is there after the first
  `readyRead`, and the rest is lost.
* **two parsers for one format**, the second by first letters and fixed offsets.
* **a file overwritten in place**, through a buffer whose last flush nobody checks.
* **inverted or inert tests**: `isMultiFile`, the test for missing "pieces".
* **torrents shared by reference.** Peers and cores refer to the caller's object
  and assign through the reference; the caller may reload it between any two calls.
* **frames over a stream.** The other end finds the next message only if each
  length prefix is the number of bytes that follow.

What makes each component correct: *BtTorrent*: after any calls, an object that
says it is parsed has a usable index; after a successful load, all five members
describe one torrent; encoding and decoding again gives the same torrent and
digest. *Codec*: round trip; nothing that was not there; only leading entries of
a truncated input. *Request*: the cache is never noticed; two digests are never
announced alike. *Contact*: what is on record came from one reply to that very
announce; a refusal is no success; `start` comes back. *Peers parser*: the peers of
a conforming reply, each with its own fields; an end. *Peers*: what is done to one
does not replace the torrent of another, and creating one changes nothing. *Wire
messages*: whatever the network cuts, the other end reads the messages that were
sent, whole and in order. *Core*: what is announced belongs to the torrent that is
loaded.

`PROJECT.json` lists the hazards one by one, at the line where each bites, with the
property that would catch it, or a note that says why none does.

## 2. The modules

| module | models | kind |
|---|---|---|
| `BtTorrent` | the class BtTorrent and the files it reads and writes | state machine |
| `MCBtTorrent` | its instance; the theorems are in `BtCoreProofs` | one run |
| `RequestQuery` | the query string made of a request, with the escaping | operators |
| `TrackerRequestSpec` | what users of a request rely on: no cache | abstract specification |
| `BtTrackerRequest` | the class with its cache | implements `TrackerRequestSpec` |
| `BtTrackerRequestProofs`, `MCBtTrackerRequest` | type, cache, escaping, implementation | proofs; one run |
| `ByteStrings` | `at`, `mid`, `indexOf`, `append`, `number`, `toInt` of QByteArray (external) | operators |
| `ByteStringsProofs` | where a part of a byte array is found; numbers are read as written | lemmas, with induction over data |
| `BtBencode`, `MCBtBencode` | decoders, encoders, `getLastE`, `infoInMetadata`, byte by byte | recursive functions; one run |
| `BtBencodeProofs` | the five properties of the codec, for every value and every cut | proofs, with induction over data |
| `TrackerPeers` | the loop behind "5:peers" | state machine over bytes |
| `TrackerPeersProofs`, `MCTrackerPeers` | rounds advance; what is returned was sent | proofs; two runs |
| `TrackerContact` | an announce from `start` to `trackerState` | client, tracker, network |
| `TrackerContactProofs`, `MCTrackerContact` | three theorems about it | proofs; one run |
| `BtPeer` | peers, local and remote, over shared torrents | state machine |
| `BtPeerProofs`, `MCBtPeer` | two theorems about it | proofs; two runs |
| `MessageStream` | what two connected peers promise each other | abstract specification |
| `PeerWire` | the bytes of BtLocalPeer, a TCP stream, the framing of a client by the documentation | implements `MessageStream` |
| `PeerWireProofs`, `MCPeerWire` | every message is a frame with the documented payload; the stream keeps messages and order | proofs; two runs |
| `BtCore` | BtCore over `BtTorrent` (EXTENDS) and `TrackerContact` (INSTANCE) | composition |
| `BtCoreProofs`, `MCBtCore` | seven theorems about `BtTorrent`, two about `BtCore` | proofs; two runs |

How they fit: `BtTorrent` takes a file to be what the decoder makes of it
(exception or not, keys filled, section found), and `BtBencode` shows that the
decoder behaves so: `RoundTrip` and `ReencodingIsStable` for whole files,
`CutLeavesLeadingEntries` for cut ones, `InfoSectionFound` for the assumption on
documents. `TrackerContact` takes `parseTrackerResponse` as a relation from bytes
received to outcomes; that a cut reply yields its leading entries is again
`CutLeavesLeadingEntries`, and what becomes of peers is `TrackerPeers`.

### BtTorrent

The variables are the class's members under their own names. `disk` is the
content of the files the caller writes, `held` the map in the caller's hands
(after `value()` or the swap in `setValue`), `ret` the last return value.
`loaded` and `origin` are history: where the present torrent came from. Each
member function is an action; the failing paths are disjuncts:

* `decodeTorrentFile`: `DecodeCannotOpen` (the object is cleared already),
  `DecodeThrows` (some keys are filled in), `DecodeReads` (digest, "pieces" cut
  into a list, `isValid`, index). `Accept` is the end it shares with `setValue`.
* `encodeTorrentFile`: `EncodeRefuses`, `EncodeWriteFails`, `EncodeWrites`; an
  interrupted write leaves any of `TornOutputs`, and so may a successful one,
  since `close()` is not checked. An output cut within a key or a value makes the
  decoder throw, with the keys before the cut filled in. Any last byte 'e' passes
  for the end, so one cut behind a value that ends in 'e' may be read to its end:
  always behind "info", so that a file that lost only its own last 'e' is as good
  as a whole one. "nodes" stands for the keys that sort behind "info". The encoder
  runs before the file is opened, so that what cannot be encoded costs no file.
* `setValue`, `value`, `clear`, `SetOption` (three setters), `setInfoHash`.

"pieces" is a byte string in a file and a list of digests in the object; both
forms are in the model, and so is the conversion. `length`, `files` and
`isMultiFile` are operators that say what the accessors answer. A digest stands
for the section it is the digest of. `setEncoding` and `encoding` are compiled out
(`BT_NO_DEPRECATED_FUNCTION` is defined in `BtDefs.h`); the remaining accessors
only look up a key.

### Bencode

The module computes on sequences of bytes, a byte being a letter. `source` goes
through the encoder, loses any number of bytes at its end, and goes through the
decoder and the encoder again. An exception is a field of the result next to what was
filled in by then, since the code fills a map given by reference. Each loop of the
code is a recursive function over the rounds: one round is an operator (`LastERound`,
`ListRound`, `DictionaryRound`), and there are no more rounds than bytes. The
recursion of the decoders is one over the depth, and that of the encoders one over
the nesting of the value. `getLastE` need not end in the code where the length of a
string is negative, as in "d-5:"; in the model it then finds nothing. No encoder
writes such a length. Numerals with '+' or blanks and numbers beyond 64 bits are left
out.

### Tracker request, contact, peers

`request` is a record of the eleven parameters. The constructor without arguments
leaves four of them uninitialised, hence the many initial states. `turn` is
history: it flips with every answer, so that an answer that repeats an old one
is a step of the abstract specification too, and has to be the current query.

`start` opens the socket, unless the scheme of the URL is not "http": then the client
goes on with no bytes at all. A reply is a sequence of tokens (headers, blank line,
one per entry, the final 'e'); a cut goes through or between any two. The search for
"5:peers" is one for a text: it stops at that key or at a text that has it (`Stops`;
`Misleading` are such texts). `PeersOutcomes` says what `TrackerPeers` shows of the
rest: a list makes it throw; peers without brackets are returned, whatever is cut
behind them; a compact string may make it throw, go round for ever, or return peers
nobody sent (`AsRead`, "invented"). The build is the release one: no assertions, and
where bytes are read behind the end of an array (`QByteArray::at` in a release
build), any byte may be found.

`TrackerPeers` goes round the loop on actual bytes. A reply has one of three forms:
the list of dictionaries and the string of six bytes per peer that
`src/include/BtTracker.h` describes, and the peers without the brackets (`Bare`),
which no tracker sends but which is what the loop was written for; it shows whether
fields are kept apart. `RepliesAssumption` says what these forms are: a list begins
with 'l', in a bare reply ids have 20 bytes and ports no 'e', and a compact reply
is any bytes at all. A compact string of 20 to 29 or 70 to 79 bytes begins with the
digit of an entry, and positions computed from its bytes may lie before the first
or behind the last one: `BytesAt` then gives any byte the loop tells from others,
and `midFrom` and `indexFrom` are Qt's functions for such positions. The instance
has ten compact strings: thrown at, returned as one or two peers nobody sent, with
an id, with an address of its own length, with a length below zero, and
"wxyz:4..." (port 14900), which is read again for ever.

### BtPeer

`torrents` are the caller's objects, `torrentRef[p]` the object peer `p` refers to.
A C++ reference is bound once, so `setTorrentRef` leaves `torrentRef` alone and
changes `torrents` instead, and with it what everybody sees who refers to that
object. The constructor of `BtLocalPeer` makes a copy of its own (`copies`) and
assigns it to the caller's object; the copy is complete by then, so nothing
changes. `size` is the number of piece bits, `pieceLength()` of the moment the
peer was created, and `pieces` the bits set. `Reload` is the caller's loading
something into its object. `builtOn` and `callee` are history.

### PeerWire

A call is one of BtLocalPeer's message functions with its arguments, and `Frame` its
bytes. They arrive one by one (`Arrive`), so that a segment may end anywhere. The
other end is not in the repository: it takes the stream apart by the description in
`src/include/BtPeer.h`, a handshake of 49 + pstrlen bytes or a prefix and that many
bytes, the first of which is the id (`Size`, `Understood`). A message is the payload
the description gives it: integers with the high byte first, the block of a piece
(`Meaning`). Which message an id stands for is left to the other end, since code and
description disagree on it (see the findings). `pending` is history: the messages
sent and not yet read. With it as the queue, `PeerWire` implements `MessageStream`.
The client at the other end knows a handshake by its first byte, 19; no legal frame
begins so (proved in `FramesAreUnderstood`).

### BtCore

The module extends `BtTorrent`, takes the announce from `TrackerContact`, and adds
the local peer and the request. The caller's calls of its torrent (`TorrentCall`)
come between those of `start`, which does not come back before the announce is
over. The request is made of the torrent as it is, `isParsed` or not. The local
peer shows its id and port only. Its constructor copies the torrent (`Copy`) and
assigns the copy to the caller's object (`setTorrentRef`), which therefore keeps
its value; `ConstructionDisturbsNoOne` of `BtPeer` is about the order of the two.

## 3. What the runs check

| run | states | what it shows |
|---|---|---|
| `torrent_files` | 694,609 | any sequence of calls over seven files (two sound torrents, digits for text, no pieces, cut by the decoder, "info" not a map, broken), what interrupted writes leave, and eight maps of the caller's (rejected, accepted but not encodable, accepted but not readable): the index stays usable, a load leaves everything coherent, the digest is never an older one, re-encoding keeps torrent and digest, a torn file that is accepted lost nothing up to "info" |
| `tracker_request` | 222,336 | all sequences of setters and queries: the cache is fresh, the class implements the specification without it |
| `bencode` | 23,496 | 336 values, up to three levels and 47 bytes, cut anywhere |
| `tracker_peers` | 976 | lists of up to two peers, bare and in dictionaries, with the parser's keywords in ids and addresses, and ten compact strings: what is returned was sent, unless it is compact; only unclosed fields keep the loop from its end |
| `tracker_contact` | 12,945 | two announces in a row, to an http tracker or another one, replies cut at any token, or not arriving: what is on record is a leading part of the reply to that announce, a refusal stays one, every contact ends |
| `peer_wire` | 466,697 | thirteen calls of every framed message but bitfield, up to three under way, cut anywhere: read whole, in order, all of them |
| `peers` | 86,697 | a local and a remote peer on one object or two, reloads, `setTorrentRef` and `pieceOk` in any order: creating a peer changes nothing |
| `core` | 1,065,468 | a core created, started twice and deleted between any calls of its torrent, over five files and a map: announces are of the decoded file |

Bounds, and why they do. *One path, one caller's digest, no options in
`torrent_files`, one option and no misleading texts in `core`*: calls do not look at
another file or compare texts, and `tracker_contact` has such texts. *Two torrents*,
one with "files" and one with "length": enough for members of one to be left with
members of the other. The state space of BtTorrent is finite without counters.
*MaxContacts = 2*: what an earlier announce leaves can be met by a later one; nothing
counts further. *MaxPeers = 3* is one more than the lists sent; the code's list grows
without end, and in the model the endless loop shows as a repeating state. *MaxCut =
50* exceeds every document. *MaxUnread = 3* lets one message be half read while two
wait behind it, *MaxBytes = 34* is room for two requests (17 bytes each), or the
longest piece (19) and a shorter frame next to it; the proof needs neither bound.
*Two peers, two objects*: properties of `BtPeer` relate two peers at most. Deadlock
is checked for BtTorrent, the request, the peers, the core and the wire, which always
go on; codec, peers parser and contact do come to an end (a value is done, a reply is
parsed, the announces are used up).

Fairness. `TrackerContact` has weak fairness of the client only: both waits give
up after 1000 ms and nothing else blocks. Nothing is assumed of tracker or
network. `TrackerPeers` has weak fairness of its loop, a thread that is running.
`PeerWire` has weak fairness of `Arrive` and `ReadMessage`: TCP delivers what was
sent on a connection that lives, and the client at the other end reads what is
whole; nobody has to send. The other modules state none: they are objects that
wait for calls.

### Findings

Four runs check what a comment of the repository says, and TLC finds it violated:

| run | what the code does |
|---|---|
| `handshake` | the eight reserved bytes are appended as an empty C string: 60 bytes, not 68, and the other end waits for the rest (BtPeer.cpp:165) |
| `peer_torrent` | `setTorrentRef` on one peer replaces the torrent of all that share its object (BtPeer.cpp:58) |
| `core_digest` | a reload that breaks off leaves the new tracker with the old digest, and `start` announces that (BtTorrent.cpp:147, BtCore.cpp:22) |
| `peers_read` | every list of dictionaries makes the parser throw (BtTracker.cpp:355) |

More disagreements were met that have no run of their own. The models do as the
code does:

* `encodeTorrentFile` goes by `isParsed`, which a failed reload leaves set: an
  emptied object is written over a file (BtTorrent.cpp:88).
* `isMultiFile` is inverted, and `length()` therefore 0 (BtTorrent.cpp:269), and
  so is `left` in every announce (BtCore.cpp:48).
* The first "4:infod" is digested, also one in a nested dictionary (BtTracker.cpp:14).
* Errors in nested containers are swallowed (BtBencode.cpp:210), and "le" is an
  error to the list decoder (BtBencode.cpp:107).
* Compact replies (BtTracker.h:209) are read as entries: one with a peer at port
  14900 (":4") is read again for ever when no 'e' follows (BtTracker.cpp:386), and
  24 bytes with ':4' and "ee" at the right places are returned as peers nobody
  sent; most others throw. Both are in the instance of `tracker_peers`, whose
  properties say what is left: nothing but unclosed fields makes the loop endless.
* A text with "5:peers" in it, a warning say, divides the reply, and a reply
  without peers is thrown away (BtTracker.cpp:340).
* Message ids are the characters '0' to '9', 48 to 57 (BtPeer.cpp:179-247); the
  description has the bytes 0 to 9 (BtPeer.h:55, 65-133). A client that goes by it
  takes no message with an id for what it is. `PeerWire` claims nothing of ids.
* A torn file that lost only its last 'e', or keys behind "info", is accepted
  (BtBencode.cpp:159, 227).
* `clear` leaves index and digest behind (BtTorrent.cpp:319), and the test for
  missing "pieces" never fires (BtTorrent.cpp:162).
* A URL that is not http fails an assertion in a debug build (BtTracker.cpp:274,
  BtBencode.cpp:156).
* `bitfield` counts bits in its prefix, sets the lowest bit first and may have a
  byte too many (BtPeer.cpp:203-218); a peer has a bit for each byte of a piece
  and none for the number of pieces (BtPeer.cpp:28).

## 4. What is proved

TLAPS checks these for all values of the constants: any set of files, documents,
callers' maps, options; any parameters of a request; any bodies of replies; any
number of peers, torrents and messages under way. The theorems are in eight modules.

`BtCoreProofs`, on a torrent alone:

1. `TypeCorrect`, `IndexStaysUsable`: `TypeOK` and `IndexUsable` are inductive only
   together. What `encodeTorrentFile` puts on `disk` is a well-formed content only
   because the index it writes is that of an accepted torrent, and that content
   may be decoded next.
2. `InterruptedWritesLoseNoMore`: follows from the order of the keys. Without "info"
   the rest is not valid, whether or not the decoder throws; with it, every key that
   sorts before it is there, and the section that is digested too.
3. `LoadedIsCoherent`, `HashIsFresh`, `ReencodingRereads`, `ReencodingKeepsHash`:
   the first two follow from the inductive invariant
   `TypeOK /\ IndexUsable /\ Coherent /\ DiskHashed /\ HashIsOfLoadedFile /\ IndexIsOfOrigin`.
   `DiskHashed` says that files written by the program have a digest whenever they
   have a readable "info" map: without it `HashIsOfLoadedFile` is not inductive,
   because `decodeTorrentFile` may read a file of the program's own.
   `IndexIsOfOrigin` ties the index to the file it was read from; from it and
   `HashIsOfLoadedFile` follows `SameHashAfterReencode`. `RereadsAlike` follows
   from `Coherent`: splitting and joining "pieces" are inverse on an accepted
   object, and the decoder changes an "info" map only where a list is empty.

`BtTrackerRequestProofs`: `TypeCorrect`; `CacheIsFresh`, inductive with the type;
`Implements`: every step of the class is a `Set`, an `Ask` or a stutter of
`TrackerRequestSpec`, because of `CacheFresh`; `HashesAreTold`: requests with
different digests never have the same query. Its heart is that the escaping is a
prefix code: a byte that stands for itself is never '%', and two escapes of
different bytes differ in a digit; so the first bytes of two equal encodings are
equal, and the rest follows by induction over the length.

`BtCoreProofs`, on a core: `CoreTypeCorrect`; `AnnouncesLoadedFile`. A step of the
core leaves the torrent's value alone, also where it assigns to it (lemma
`NewCoreLeavesTorrent`), hence the invariants of BtTorrent hold of a torrent with a
core. The invariant adds two facts to that of
BtTorrent: the "announce" of a loaded object is still that of its file although
options were set since (`UrlIsOfOrigin`), and a request under way is still what
the torrent says, because the caller waits (`RequestIsCurrent`).

`BtPeerProofs`: `TypeCorrect`, `ConstructorsAreHarmless`, from one invariant: a
peer refers to the object it was built on (`BoundOnce`), has no pieces before
(`NoPiecesYet`) and an address after (`Addressed`) its constructor. What a local
peer assigns to the caller's torrent is what was there (`LocalPeerAssignsSame`),
since its copy is made first.

`TrackerContactProofs`: `TypeCorrect`, `RecordsLeadingPart`,
`RefusalsStayRefusals`. The invariant `ContactInv` follows the reply through the
phases: what the socket holds is a leading part of what the tracker sent, what was
read is one of what the socket held, and the map under construction is that of
leading entries of it, or empty. `RefusalsStayRefusals` needs that the keys of a
reply are sorted: then no cut lets "interval" through without "failure reason".

`PeerWireProofs`: `FramesAreUnderstood`. For every call with arguments in range
(`LegalCalls`: 32-bit integers, a block within its piece), `Frame` is as long as
its prefix and four bytes, does not begin with 19, and has the payload of the
description behind its id. It rests on what the shifts of
`bigEndianFourBytesInteger` make of an integer (`FourBytesBigEndian`).

`StreamIsKept`, in the same module, for `Calls \subseteq LegalCalls`: `PeerWire`
implements the safety part of `MessageStream`. Its invariant `StreamInv` says that
the bytes that arrived followed by those on the wire can be cut into frames, one
for each message of `pending`, in that order. Appending a frame appends a cut,
an arriving byte moves none, and reading takes the first piece, which
`FramesAreUnderstood` shows to be whole and to mean the head of `pending`.

`ByteStringsProofs` is about byte arrays. `Stands(data, pos, part)` says that `part`
is found in `data` at `pos`; the lemmas say what `At`, `mid` and `indexOf` find
there and in the parts of a concatenation, and that a number is read as it was
written (`NumberIsRead`) with none of the letters the notation uses as marks
(`NumberIsPlain`). The provers cannot use induction theorems that take an operator;
here induction goes over the least element of a set of numbers (`LeastElement`,
`InductionInSet`), which is a fact about sets, and each definition by recursion is
characterised by the sequence of its intermediate results (`IsJoin`, `IsWriting`,
`IsReading`).

`BtBencodeProofs`: `RoundTrips`, `NothingIsEverInvented`,
`CutsLeaveLeadingEntries`, `ReencodingStaysStable` and `InfoSectionIsFound`, for
values of any depth and size, strings of any bytes and cuts at any byte. The
invariant of the behaviours is simple (`DocumentInv`: the document is what is left
of the encoding of the source, the rest is what the codec made of it); what takes
the room is what the recursive functions compute:

1. *The scan.* `PassesOver(c)` says that the scan of `getLastE`, wherever it meets
   `c`, is behind it after at most as many rounds as `c` has bytes, with nothing
   opened or closed. It holds of integers, of strings whatever their letters (the
   length before the colon takes the scan behind the last of them), of what is put
   together from such parts, and so of every encoding, by induction on the depth.
   Hence `getLastE` finds the 'e' of a container whose encoding stands in the
   document, and -1 where it was cut.
2. *The element at a position.* `ElementFinds`: an encoding that is whole is picked
   and read; one that is cut makes the round throw. A nested decoder that throws,
   as it does for an empty list, ends the list or leaves out the entry
   (`FoundNothing`); in values without empty containers that does not happen.
3. *The loops.* Piece `i` of a container stands between `Place(i - 1)` and
   `Place(i)`. `ListInv` and `MapInv`: the loop is at such a place, and what it has
   is some of the pieces before it, in order, and all of them in values without
   empty containers. Each round that goes on moves on, so that there are no more
   rounds than bytes.
4. *The decoder.* `FairInner(n, inner, m)` says what `inner` makes of whole
   containers nested at most `n` deep and `m` bytes long: a part of them, and all of
   it in values without empty containers. `WholeContainers` shows it of the decoder
   by induction on `n`, from 3. Of a container that may be cut, `Outcome` says that
   what is left are leading entries (`ContainerDecoded`).
5. *The info section.* An entry "info" with a dictionary that was decoded stands in
   the document, so the text "4:infod" does too, and the scan from there finds an
   'e': a scan that closes always stands at one (`RoundCloses`).

Each recursive function is first shown to exist (`TreeDefined`, `EncoderDefined`,
`ScanExists`, `ListLoop`, `DecoderExists` and others): its restrictions to `0..k` do,
by induction on `k`. TLC checked `DocumentInv` on the instance of `bencode`; no run
repeats that, since it decodes every document once more in every state.

`TrackerPeersProofs`: `RoundsAdvance` and `ReturnedAsSent`, from one invariant
(`InStepAlways`). In every reply, of any form and any bytes, the position is inside
the bytes: a round leaves it behind an 'e' that was found, or at 0. Where no field
was left unclosed, that 'e' is behind the position the round began at, hence
`RoundsAdvance`: the length of an address is then not negative, and each field is
found behind the one before. For bare replies, `InStep(j)` says that the first `j` of
the peers sent are recorded and that the parser stands where the next one begins,
or at the closing 'e'. That a round leads from `j` to `j + 1` is `EntryIsRead`: each
field begins at the offset the code computes, since ids have 20 bytes, the length
of an address is read as it was written, and the first 'e' behind the port's 'i' is
its end. A list is thrown at in the first round. `ReturnedAsSent` claims nothing of
compact replies.

Assumptions, each named in the module that declares the constants, and evaluated
by TLC on the instances: `DocumentsAssumption` (documents are contents, and where
the decoder returns an "info" map there is a section to digest, which the run
`bencode` checks as `InfoSectionFound`), `OptionsAssumption` and
`InputsAssumption` (callers stay within the keys the class knows),
`DefaultsAssumption` (the default values are among the values),
`BodiesAssumption`, `RefusalComesFirst` and `BoundsAssumption` (replies are
sequences of entries with sorted, distinct keys), `ValuesAssumption` and
`PeersAssumption` (objects of different kinds are different),
`NothingAssumption` and `ListenPortsAssumption` (a port is an int),
`BytesAssumption` (digests and ids are bytes), `RepliesAssumption` (see above).

Only model-checked: liveness (`EveryContactEnds`, `EndsUnlessUnclosed`, and that
no message is left unread, in `MessagesArriveAsSent`), since proofs under fairness
are out of the prover's reach; the handshake and the bitfield, which are no frames.

## 5. Not modelled

* `generatePeerId`: a random string of digits that nothing depends on; the core
  takes any id.
* The display functions, which only write to the debug output.
* The GUI, an empty window connected to nothing.
* The test driver, a command line over the classes above; its loop over non-option
  arguments never advances (test/main.cpp:79).
* Build files.
* `pause`, `stop`, `startDownload`, `send`, `process` and `received` have no body,
  and the choke and interest flags of a peer never change: there is no peer
  protocol yet beyond the bytes of its messages.
* What happens when a torrent dies before a peer or a core that refers to it.
* In the codec, numerals with '+' or blanks and numbers beyond 64 bits.

When the code gets a body for these, the next things to state are: one bit per
piece and a bitfield the other end can read, the choke state of two connected
peers, and a `left` that goes down to zero.
