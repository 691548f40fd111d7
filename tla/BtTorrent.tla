------------------------------ MODULE BtTorrent ------------------------------
(***************************************************************************)
(* The class BtTorrent (src/src/BtTorrent.cpp, src/include/BtTorrent.h):   *)
(* a torrent read from, or written to, a .torrent file.                    *)
(*                                                                         *)
(* The object keeps what the decoder read (torrentObject), an index of it  *)
(* (torrentInfo and torrentPieces), a validity flag (isParsed) and the     *)
(* digest of the "info" section (info_hash).  No operation updates all     *)
(* five, and the failing paths leave some of them behind: what the module  *)
(* is about is which of them still belong together after any sequence of   *)
(* calls, with any call failing at any of its steps.                       *)
(*                                                                         *)
(* A QMap is a function whose domain is the set of its keys.  A file is    *)
(* what the decoder makes of its bytes: whether BtDecodeBencodeDictionary  *)
(* throws, the map it has filled by then, and the section that             *)
(* torrentInfoHash digests (canonical: its bytes are those the encoder     *)
(* writes for the map).  The module BtBencode models the codec itself.     *)
(***************************************************************************)
EXTENDS Naturals, Sequences

CONSTANTS
  Files,         \* the paths the caller hands to encodeTorrentFile
  Documents,     \* contents of the files made by other programs
  Inputs,        \* maps a caller builds for setValue
  Options,       \* the optional keys a caller sets, and
  Texts,         \* the strings it gives them
  CallerHashes,  \* digests a caller sets with setInfoHash
  Opaque,        \* a QVariant the encoder refuses (null, say)
  NotAList,      \* any value that is not a list, where a list belongs
  NoFile         \* there is no file at a path

VARIABLES
  torrentObject, \* what the last decode or setValue left
  torrentInfo,   \* index: the "info" map of the last accepted torrent
  torrentPieces, \* index: its list of piece digests
  isParsed,
  info_hash,
  disk,          \* path in Files -> content
  held,          \* the QMap in the caller's hands
  ret,           \* what the last call returned (void calls: TRUE)
  loaded,        \* history: where the torrent in the object came from
  origin         \* history: the content the last successful decode read

index == <<torrentInfo, torrentPieces>>
torrent == <<torrentObject, torrentInfo, torrentPieces, isParsed, info_hash>>
history == <<loaded, origin>>
vars == <<torrentObject, torrentInfo, torrentPieces, isParsed, info_hash,
          disk, held, ret, loaded, origin>>

-----------------------------------------------------------------------------
(* Maps *)

EmptyMap == [k \in {} |-> Opaque]

Insert(m, k, v) == [j \in DOMAIN m \cup {k} |-> IF j = k THEN v ELSE m[j]]

Keep(m, K) == [k \in DOMAIN m \cap K |-> m[k]]

IsMapOver(m, K) == DOMAIN m \subseteq K /\ m = [k \in DOMAIN m |-> m[k]]

OptionKeys == {"comment", "created by", "creation date"}

\* mutant: "info" written right behind "announce"
KeyOrder_InfoSecond ==
  <<"announce", "info", "comment", "created by", "creation date", "nodes">>

\* QMap iterates in key order: the order in which the keys reach the file.
\* "nodes", a list, stands for all that sorts behind "info"; "announce-list",
\* "encoding" and "httpseeds" sort before it, as the options do.
KeyOrder == <<"announce", "comment", "created by", "creation date", "info", "nodes">>
ObjectKeys == OptionKeys \cup {"announce", "info", "nodes"}
InfoKeys == {"files", "length", "name", "piece length", "pieces"}

-----------------------------------------------------------------------------
(* The shapes of the data *)

\* "pieces" as found in a file (one byte string) and as kept (a list)
PieceBytes(hashes) == [form |-> "bytes", hashes |-> hashes]
PieceList(hashes) == [form |-> "list", hashes |-> hashes]

\* any value that is not a map, where a map belongs; no map has this key
NotAMap == [scalar |-> TRUE]
IsAMap(v) == "scalar" \notin DOMAIN v

\* an element of "files"; its path is a list of components, an empty list,
\* or bytes where a list belongs
IsEntry(e) ==
  \/ e = NotAMap
  \/ /\ IsMapOver(e, {"length", "path"})
     /\ "length" \in DOMAIN e => e["length"] \in Nat
     /\ "path" \in DOMAIN e => e["path"] \in {"components", "none", "bytes"}

IsFileList(v) ==
  /\ IsMapOver(v, Nat)
  /\ \A n \in DOMAIN v : IsEntry(v[n])

IsInfo(i) ==
  /\ IsMapOver(i, InfoKeys)
  /\ "pieces" \in DOMAIN i =>
       /\ i["pieces"] = [form |-> i["pieces"].form, hashes |-> i["pieces"].hashes]
       /\ i["pieces"].form \in {"bytes", "list"}
  /\ "length" \in DOMAIN i => i["length"] \in Nat
  /\ "files" \in DOMAIN i => i["files"] = NotAList \/ IsFileList(i["files"])

IsObject(o) ==
  /\ IsMapOver(o, ObjectKeys)
  /\ "info" \in DOMAIN o => o["info"] = NotAMap \/ IsInfo(o["info"])

IsContent(c) ==
  /\ c = [throws |-> c.throws, decoded |-> c.decoded, hash |-> c.hash]
  /\ c.throws \in BOOLEAN
  /\ c.hash = [info |-> c.hash.info, canonical |-> c.hash.canonical]
  /\ c.hash.canonical \in BOOLEAN
  /\ IsObject(c.decoded)

\* info_hash before anything was digested, and what torrentInfoHash leaves
\* unset when the bytes hold no "4:infod"
NoHash == [info |-> EmptyMap, canonical |-> FALSE]

\* What the decoder can leave: an "info" map that it read is in the bytes, as
\* a dictionary after its key, and so is found by the search for "4:infod"
HashOfInfoFound(c) ==
  ("info" \in DOMAIN c.decoded /\ ~c.throws) =>
     (c.decoded["info"] = NotAMap \/ c.hash # NoHash)

ASSUME DocumentsAssumption ==
  /\ NoFile \notin Documents
  /\ \A d \in Documents : IsContent(d) /\ HashOfInfoFound(d)

ASSUME OptionsAssumption == Options \subseteq OptionKeys

ASSUME InputsAssumption == \A m \in Inputs : IsObject(m)

-----------------------------------------------------------------------------
(* What the calls compute *)

\* the structure isValid demands of the "info" map
ValidInfo(i) ==
  /\ {"name", "piece length", "pieces"} \subseteq DOMAIN i
  /\ i["pieces"].form = "list"
  /\ "files" \in DOMAIN i =>
       /\ i["files"] # NotAList
       /\ \A n \in DOMAIN i["files"] :
            LET entry == i["files"][n] IN
            /\ IsAMap(entry)
            /\ {"length", "path"} \subseteq DOMAIN entry
            /\ entry["path"] # "bytes"
  /\ "files" \notin DOMAIN i => "length" \in DOMAIN i

isValid(o) ==
  /\ {"announce", "info"} \subseteq DOMAIN o
  /\ IsAMap(o["info"])
  /\ ValidInfo(o["info"])

\* decodeTorrentFile cuts the bytes under "pieces" into a list of digests and
\* stores the map with the list back, whatever it found under "info"; a
\* missing section or a missing "pieces" gives an empty list
\* (mutant: whatever is under "info" is taken for a map)
InfoMapOf_Unchecked(o) == IF "info" \in DOMAIN o THEN o["info"] ELSE EmptyMap

InfoMapOf(o) ==
  IF "info" \in DOMAIN o /\ IsAMap(o["info"]) THEN o["info"] ELSE EmptyMap

\* (mutant: the loop over the bytes stops one digest early)
PiecesOf_LastMissing(i) ==
  IF "pieces" \in DOMAIN i /\ i["pieces"].form = "bytes" /\ i["pieces"].hashes # <<>>
  THEN SubSeq(i["pieces"].hashes, 1, Len(i["pieces"].hashes) - 1) ELSE <<>>

PiecesOf(i) ==
  IF "pieces" \in DOMAIN i /\ i["pieces"].form = "bytes" THEN i["pieces"].hashes ELSE <<>>

ListPieces(o) ==
  Insert(o, "info",
         Insert(InfoMapOf(o), "pieces", PieceList(PiecesOf(InfoMapOf(o)))))

\* encodeTorrentFile joins the digests again
Joined(i, hashes) == Insert(i, "pieces", PieceBytes(hashes))

Encodable(o, i) ==
  /\ \A k \in DOMAIN o \ {"info"} : o[k] # Opaque
  /\ \A k \in DOMAIN i : i[k] # Opaque

\* What the decoder finds where the encoder wrote a map: it cannot read an
\* empty list and gives up the dictionary around it from that key on
ReadBackEntry(e) == IF e["path"] = "none" THEN Keep(e, {"length"}) ELSE e

ReadBack(i) ==
  IF "files" \notin DOMAIN i THEN i
  ELSE IF DOMAIN i["files"] = {} THEN EmptyMap
  ELSE Insert(i, "files", [n \in DOMAIN i["files"] |-> ReadBackEntry(i["files"][n])])

HashOf(i) == [info |-> i, canonical |-> TRUE]

\* mutant: the digests are not joined before encoding
Written_Unjoined ==
  [throws |-> FALSE,
   decoded |-> Insert(torrentObject, "info", ReadBack(torrentInfo)),
   hash |-> HashOf(torrentInfo)]

\* the complete output of encodeTorrentFile
Written ==
  LET tmpInfo == Joined(torrentInfo, torrentPieces) IN
  [throws |-> FALSE,
   decoded |-> Insert(torrentObject, "info", ReadBack(tmpInfo)),
   hash |-> HashOf(tmpInfo)]

\* What an interrupted write leaves.  The decoder throws on an output cut in the
\* middle of a key or a value, after it has filled in the keys before the cut;
\* a cut that happens to follow the byte 'e' goes unnoticed.  "info" and
\* "nodes" end in 'e': an output cut behind either of them, the one that lost
\* nothing but its own last 'e' among them, passes for a complete one.
TornBehind(whole, keys) ==
  LET kept == Keep(whole.decoded, keys)
      Torn(throws) ==
        [throws |-> throws, decoded |-> kept,
         hash |-> IF "info" \in keys THEN whole.hash ELSE NoHash]
  IN  {Torn(throws) : throws \in
         {t \in BOOLEAN : /\ DOMAIN kept = {} => t
                          /\ DOMAIN kept = DOMAIN whole.decoded => ~t}}

TornOutputs ==
  LET whole == Written
  IN  UNION {TornBehind(whole, {KeyOrder[j] : j \in 1..n}) : n \in 0..Len(KeyOrder)}

-----------------------------------------------------------------------------
(* What the accessors answer *)

isMultiFile == "files" \notin DOMAIN torrentInfo

files == IF "files" \in DOMAIN torrentInfo THEN torrentInfo["files"] ELSE <<>>

SumOfLengths(list) ==
  LET sum[n \in 0..Len(list)] == IF n = 0 THEN 0 ELSE sum[n - 1] + list[n]["length"]
  IN  sum[Len(list)]

length ==
  IF isMultiFile THEN SumOfLengths(files)
  ELSE IF "length" \in DOMAIN torrentInfo THEN torrentInfo["length"] ELSE 0

-----------------------------------------------------------------------------
Init ==
  /\ torrentObject = EmptyMap
  /\ torrentInfo = EmptyMap
  /\ torrentPieces = <<>>
  /\ isParsed = FALSE
  /\ info_hash = NoHash
  /\ disk = [f \in Files |-> NoFile]
  /\ held = EmptyMap
  /\ ret = TRUE
  /\ loaded = "none"
  /\ origin = NoFile

\* mutant: an index that lags behind
Accept_StalePieces(o) ==
  /\ torrentObject' = o
  /\ isParsed' = isValid(o)
  /\ torrentInfo' = IF isValid(o) THEN o["info"] ELSE torrentInfo
  /\ torrentPieces' = IF isValid(o) /\ torrentPieces = <<>>
                      THEN o["info"]["pieces"].hashes ELSE torrentPieces
  /\ ret' = isValid(o)

\* the common end of decodeTorrentFile and setValue: o is the new object
Accept(o) ==
  /\ torrentObject' = o
  /\ isParsed' = isValid(o)
  /\ IF isValid(o)
     THEN /\ torrentInfo' = o["info"]
          /\ torrentPieces' = o["info"]["pieces"].hashes
     ELSE UNCHANGED index
  /\ ret' = isValid(o)

(* bool decodeTorrentFile(QFile &), on a file with content c *)

\* mutant: the index goes with the object, isParsed stays
DecodeCannotOpen_DropsIndex ==
  /\ torrentObject' = EmptyMap
  /\ torrentInfo' = EmptyMap
  /\ torrentPieces' = <<>>
  /\ ret' = FALSE
  /\ loaded' = "none" /\ origin' = NoFile
  /\ UNCHANGED <<isParsed, info_hash, disk, held>>

DecodeCannotOpen ==
  /\ torrentObject' = EmptyMap
  /\ ret' = FALSE
  /\ loaded' = "none" /\ origin' = NoFile
  /\ UNCHANGED <<index, isParsed, info_hash, disk, held>>

DecodeThrows(c) ==
  /\ c.throws
  /\ torrentObject' = c.decoded
  /\ ret' = FALSE
  /\ loaded' = "none" /\ origin' = NoFile
  /\ UNCHANGED <<index, isParsed, info_hash, disk, held>>

\* torrentInfoHash sets the digest only where it finds the section
\* (mutant: a digest once set is kept)
HashAfter_KeepsFirst(c) == IF info_hash # NoHash THEN info_hash ELSE c.hash

HashAfter(c) == IF c.hash = NoHash THEN info_hash ELSE c.hash

DecodeReads(c) ==
  LET object == ListPieces(c.decoded) IN
  /\ ~c.throws
  /\ info_hash' = HashAfter(c)
  /\ Accept(object)
  /\ loaded' = IF isValid(object) THEN "decoded" ELSE "none"
  /\ origin' = IF isValid(object) THEN c ELSE NoFile
  /\ UNCHANGED <<disk, held>>

Contents == Documents \cup {disk[f] : f \in {g \in Files : disk[g] # NoFile}}

decodeTorrentFile ==
  \/ DecodeCannotOpen
  \/ \E c \in Contents : DecodeThrows(c) \/ DecodeReads(c)

(* bool encodeTorrentFile(QFile &) *)

\* not parsed, the encoder throws, or the file does not open
EncodeRefuses(f) ==
  /\ ret' = FALSE
  /\ UNCHANGED <<torrent, disk, held, history>>

EncodeWriteFails(f) ==
  /\ isParsed
  /\ Encodable(torrentObject, torrentInfo)
  /\ \E c \in TornOutputs : disk' = [disk EXCEPT ![f] = c]
  /\ ret' = FALSE
  /\ UNCHANGED <<torrent, held, history>>

\* QFile buffers: what close() cannot flush is lost without a word
EncodeWrites(f) ==
  /\ isParsed
  /\ Encodable(torrentObject, torrentInfo)
  /\ \E c \in TornOutputs \cup {Written} : disk' = [disk EXCEPT ![f] = c]
  /\ ret' = TRUE
  /\ UNCHANGED <<torrent, held, history>>

encodeTorrentFile(f) == EncodeRefuses(f) \/ EncodeWriteFails(f) \/ EncodeWrites(f)

(* the caller's side *)

\* swaps: the argument is left with what the object held
\* (mutant: the index is left to decodeTorrentFile)
setValue_NoIndex(other) ==
  /\ torrentObject' = other
  /\ isParsed' = isValid(other)
  /\ ret' = isValid(other)
  /\ held' = torrentObject
  /\ loaded' = IF isValid(other) THEN "assigned" ELSE "none"
  /\ origin' = NoFile
  /\ UNCHANGED <<index, info_hash, disk>>

setValue(other) ==
  /\ Accept(other)
  /\ held' = torrentObject
  /\ loaded' = IF isValid(other) THEN "assigned" ELSE "none"
  /\ origin' = NoFile
  /\ UNCHANGED <<info_hash, disk>>

value ==
  /\ held' = torrentObject
  /\ ret' = TRUE
  /\ UNCHANGED <<torrent, disk, history>>

clear ==
  /\ isParsed' = FALSE
  /\ torrentObject' = EmptyMap
  /\ ret' = TRUE
  /\ loaded' = "none" /\ origin' = NoFile
  /\ UNCHANGED <<index, info_hash, disk, held>>

\* setCreationDate, setComment and setCreateBy
SetOption(key, text) ==
  /\ torrentObject' = Insert(torrentObject, key, text)
  /\ ret' = TRUE
  /\ UNCHANGED <<index, isParsed, info_hash, disk, held, history>>

setInfoHash(hash) ==
  /\ info_hash' = hash
  /\ ret' = TRUE
  /\ loaded' = IF loaded = "decoded" THEN "relabelled" ELSE loaded
  /\ UNCHANGED <<torrentObject, index, isParsed, disk, held, origin>>

Next ==
  \/ decodeTorrentFile
  \/ \E f \in Files : encodeTorrentFile(f)
  \/ \E other \in Inputs \cup {held} : setValue(other)
  \/ value
  \/ clear
  \/ \E key \in Options, text \in Texts : SetOption(key, text)
  \/ \E hash \in CallerHashes : setInfoHash(hash)

Spec == Init /\ [][Next]_vars

-----------------------------------------------------------------------------
(* Properties *)

TypeOK ==
  /\ IsObject(torrentObject)
  /\ IsInfo(torrentInfo)
  /\ isParsed \in BOOLEAN
  /\ DOMAIN disk = Files /\ disk = [f \in Files |-> disk[f]]
  /\ \A f \in Files : disk[f] = NoFile \/ IsContent(disk[f])
  /\ IsObject(held)
  /\ ret \in BOOLEAN
  /\ loaded \in {"none", "decoded", "relabelled", "assigned"}
  /\ origin = NoFile \/ IsContent(origin)

\* As long as isParsed says so, the index is that of a torrent isValid once
\* accepted, its two halves belong together, whatever failed since.
\* (name(), pieces(), encodeTorrentFile read it without a check.)
IndexUsable ==
  isParsed =>
    /\ ValidInfo(torrentInfo)
    /\ torrentPieces = torrentInfo["pieces"].hashes

\* From a load that answered true until the next load or clear, object, flag
\* and index describe one and the same torrent.
Coherent ==
  loaded # "none" =>
    /\ isParsed
    /\ isValid(torrentObject)
    /\ torrentInfo = torrentObject["info"]
    /\ torrentPieces = torrentInfo["pieces"].hashes

\* infoHash() is the digest of the file that was decoded, never one left over
\* from an earlier file although torrentInfoHash reports no failure, as long
\* as the caller has not set another.
HashIsOfLoadedFile ==
  loaded = "decoded" => info_hash # NoHash /\ info_hash = origin.hash

HasEmptyList(i) ==
  "files" \in DOMAIN i =>
    \/ DOMAIN i["files"] = {}
    \/ \E n \in DOMAIN i["files"] : i["files"][n]["path"] = "none"

\* A torrent that was loaded, and perhaps given options since, is read back
\* from its own encoding as the very same object, unless it has an empty
\* list, which the decoder cannot read.
RereadsAlike ==
  (/\ loaded # "none"
   /\ Encodable(torrentObject, torrentInfo)
   /\ ~HasEmptyList(torrentInfo)) =>
    ListPieces(Written.decoded) = torrentObject

\* the file held its whole "info" section in the encoder's own form
IsFaithful(c) ==
  /\ c.hash.canonical
  /\ "info" \in DOMAIN c.decoded
  /\ c.decoded["info"] = c.hash.info
  /\ IsAMap(c.decoded["info"])
  /\ "pieces" \in DOMAIN c.decoded["info"]
  /\ c.decoded["info"]["pieces"].form = "bytes"

\* Decoding a file and encoding it again keeps the identity of the torrent:
\* the digest of "info" in the new file is the one infoHash() answers.
SameHashAfterReencode ==
  (loaded = "decoded" /\ IsFaithful(origin)) => Written.hash = info_hash

\* An interrupted encodeTorrentFile leaves a file that decodeTorrentFile
\* rejects later, or one that lost nothing but what sorts behind "info": it
\* has the digest of the whole file, and all its other keys.
InterruptedWriteLosesNoMore ==
  isParsed =>
    LET whole == Written IN
    \A c \in TornOutputs :
      (~c.throws /\ isValid(ListPieces(c.decoded))) =>
        /\ c.hash = whole.hash
        /\ \A k \in DOMAIN whole.decoded \ {"nodes"} :
             k \in DOMAIN c.decoded /\ c.decoded[k] = whole.decoded[k]

=============================================================================
