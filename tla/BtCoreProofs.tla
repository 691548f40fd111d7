---------------------------- MODULE BtCoreProofs ----------------------------
(***************************************************************************)
(* What BtTorrent keeps for every choice of files, documents and callers'  *)
(* maps, and what BtCore keeps for every choice of those, URLs and         *)
(* trackers' replies.  The steps of a core leave the torrent's variables   *)
(* alone, so that what holds of BtTorrent alone holds of the two.          *)
(***************************************************************************)
EXTENDS BtCore, TLAPS

-----------------------------------------------------------------------------
(* Maps *)

\* Inserting under a known key keeps a map a map over the same keys.
LEMMA InsertIsMap ==
  ASSUME NEW m, NEW K, IsMapOver(m, K), NEW k \in K, NEW v
  PROVE  /\ IsMapOver(Insert(m, k, v), K)
         /\ DOMAIN Insert(m, k, v) = DOMAIN m \cup {k}
         /\ Insert(m, k, v)[k] = v
         /\ \A j \in DOMAIN m : j # k => Insert(m, k, v)[j] = m[j]
BY DEF Insert, IsMapOver

\* Restricting a map keeps a map over the same keys.
LEMMA KeepIsMap ==
  ASSUME NEW m, NEW K, IsMapOver(m, K), NEW S
  PROVE  /\ IsMapOver(Keep(m, S), K)
         /\ DOMAIN Keep(m, S) = DOMAIN m \cap S
         /\ \A j \in DOMAIN m \cap S : Keep(m, S)[j] = m[j]
BY DEF Keep, IsMapOver

\* The empty map is a map over any set of keys.
LEMMA EmptyMapIsMap ==
  /\ DOMAIN EmptyMap = {}
  /\ \A K : IsMapOver(EmptyMap, K)
BY DEF EmptyMap, IsMapOver

\* The empty map passes for an "info" map and for an object.
LEMMA EmptyMapTypes == IsInfo(EmptyMap) /\ IsObject(EmptyMap)
BY EmptyMapIsMap DEF IsInfo, IsObject

-----------------------------------------------------------------------------
(* Types of what the calls compute *)

\* The "info" map with its digests replaced is again an "info" map.
LEMMA InsertPiecesType ==
  ASSUME NEW i, IsInfo(i), NEW p, NEW form \in {"bytes", "list"},
         p = [form |-> form, hashes |-> p.hashes]
  PROVE  IsInfo(Insert(i, "pieces", p))
<1> DEFINE j == Insert(i, "pieces", p)
<1>1. "pieces" \in InfoKeys /\ IsMapOver(i, InfoKeys)
  BY DEF InfoKeys, IsInfo
<1>2. /\ IsMapOver(j, InfoKeys)
      /\ DOMAIN j = DOMAIN i \cup {"pieces"}
      /\ j["pieces"] = p
      /\ \A k \in DOMAIN i : k # "pieces" => j[k] = i[k]
  BY <1>1, InsertIsMap
<1>3. p = [form |-> p.form, hashes |-> p.hashes] /\ p.form \in {"bytes", "list"}
  OBVIOUS
<1> HIDE DEF j
<1>4. "files" \in DOMAIN j => j["files"] = NotAList \/ IsFileList(j["files"])
  BY <1>2 DEF IsInfo
<1>5. "length" \in DOMAIN j => j["length"] \in Nat
  BY <1>2 DEF IsInfo
<1>6. "pieces" \in DOMAIN j =>
        /\ j["pieces"] = [form |-> j["pieces"].form, hashes |-> j["pieces"].hashes]
        /\ j["pieces"].form \in {"bytes", "list"}
  BY <1>2, <1>3
<1>7. IsInfo(j)
  BY <1>2, <1>4, <1>5, <1>6 DEF IsInfo
<1> QED
  BY <1>7 DEF j

\* Whatever is under "info", what decodeTorrentFile goes on with is an "info"
\* map.
LEMMA InfoMapType ==
  ASSUME NEW o, IsObject(o)
  PROVE  IsInfo(InfoMapOf(o))
<1>1. CASE "info" \in DOMAIN o /\ IsAMap(o["info"])
  <2>1. o["info"] # NotAMap
    BY <1>1 DEF IsAMap, NotAMap
  <2> QED
    BY <1>1, <2>1 DEF InfoMapOf, IsObject
<1>2. CASE ~("info" \in DOMAIN o /\ IsAMap(o["info"]))
  BY <1>2, EmptyMapTypes DEF InfoMapOf
<1> QED
  BY <1>1, <1>2

\* Storing an "info" map back into an object gives an object.
LEMMA InsertInfoType ==
  ASSUME NEW o, IsObject(o), NEW i, IsInfo(i)
  PROVE  IsObject(Insert(o, "info", i))
<1>1. "info" \in ObjectKeys /\ IsMapOver(o, ObjectKeys)
  BY DEF ObjectKeys, IsObject
<1>2. /\ IsMapOver(Insert(o, "info", i), ObjectKeys)
      /\ Insert(o, "info", i)["info"] = i
  BY <1>1 DEF Insert, IsMapOver
<1> QED
  BY <1>2 DEF IsObject

\* Cutting the pieces into a list, as decodeTorrentFile does, gives an object.
LEMMA ListPiecesType ==
  ASSUME NEW o, IsObject(o)
  PROVE  IsObject(ListPieces(o))
<1> DEFINE p == PieceList(PiecesOf(InfoMapOf(o)))
<1>1. p = [form |-> "list", hashes |-> p.hashes]
  BY DEF PieceList
<1>2. IsInfo(Insert(InfoMapOf(o), "pieces", p))
  BY <1>1, InfoMapType, InsertPiecesType
<1> QED
  BY <1>2, InsertInfoType DEF ListPieces

\* What the decoder makes of an encoded "info" map is an "info" map.
LEMMA ReadBackType ==
  ASSUME NEW i, IsInfo(i), ValidInfo(i), NEW h
  PROVE  IsInfo(ReadBack(Joined(i, h)))
<1> DEFINE j == Joined(i, h)
<1>1. IsInfo(j)
  <2>1. PieceBytes(h) = [form |-> "bytes", hashes |-> PieceBytes(h).hashes]
    BY DEF PieceBytes
  <2> QED
    BY <2>1, InsertPiecesType DEF Joined
<1>2. /\ DOMAIN j = DOMAIN i \cup {"pieces"}
      /\ \A k \in DOMAIN i : k # "pieces" => j[k] = i[k]
  BY InsertIsMap DEF Joined, Insert
<1> SUFFICES IsInfo(ReadBack(j))
  OBVIOUS
<1> HIDE DEF j
<1>3. CASE "files" \notin DOMAIN j
  BY <1>1, <1>3 DEF ReadBack
<1>4. CASE "files" \in DOMAIN j /\ DOMAIN j["files"] = {}
  BY <1>4, EmptyMapTypes DEF ReadBack
<1>5. CASE "files" \in DOMAIN j /\ DOMAIN j["files"] # {}
  <2> DEFINE list == [n \in DOMAIN j["files"] |-> ReadBackEntry(j["files"][n])]
  <2>1. /\ j["files"] = i["files"]
        /\ "files" \in DOMAIN i
    BY <1>2, <1>5
  <2>2. IsFileList(j["files"])
    BY <1>1, <1>5, <2>1 DEF IsInfo, ValidInfo
  <2>3. ASSUME NEW n \in DOMAIN j["files"]
        PROVE  IsEntry(ReadBackEntry(j["files"][n]))
    <3> DEFINE e == j["files"][n]
    <3>1. IsEntry(e) /\ IsAMap(e)
      BY <2>1, <2>2 DEF IsFileList, ValidInfo
    <3>2. /\ IsMapOver(e, {"length", "path"})
          /\ "length" \in DOMAIN e => e["length"] \in Nat
      BY <3>1 DEF IsEntry, IsAMap, NotAMap
    <3> HIDE DEF e
    <3>3. IsEntry(Keep(e, {"length"}))
      BY <3>2 DEF IsEntry, Keep, IsMapOver
    <3>4. IsEntry(ReadBackEntry(e))
      BY <3>1, <3>3 DEF ReadBackEntry
    <3> QED
      BY <3>4 DEF e
  <2>4. IsFileList(list)
    BY <2>2, <2>3 DEF IsFileList, IsMapOver
  <2>5. ReadBack(j) = Insert(j, "files", list)
    BY <1>5 DEF ReadBack
  <2>6. "files" \in InfoKeys /\ IsMapOver(j, InfoKeys)
    BY <1>1 DEF IsInfo, InfoKeys
  <2> HIDE DEF list
  <2>7. /\ IsMapOver(Insert(j, "files", list), InfoKeys)
        /\ DOMAIN Insert(j, "files", list) = DOMAIN j \cup {"files"}
        /\ Insert(j, "files", list)["files"] = list
        /\ \A k \in DOMAIN j : k # "files" => Insert(j, "files", list)[k] = j[k]
    BY <2>6 DEF Insert, IsMapOver
  <2>8. IsInfo(Insert(j, "files", list))
    BY <1>1, <2>4, <2>7 DEF IsInfo
  <2> QED
    BY <2>5, <2>8
<1> QED
  BY <1>3, <1>4, <1>5

\* A map cut behind some key is still an object.
LEMMA KeepType ==
  ASSUME NEW o, IsObject(o), NEW S
  PROVE  IsObject(Keep(o, S))
BY DEF IsObject, Keep, IsMapOver

\* Setting an option leaves an object an object, and its "info" as it was.
LEMMA InsertOptionType ==
  ASSUME NEW o, IsObject(o), NEW key \in OptionKeys, NEW text
  PROVE  /\ IsObject(Insert(o, key, text))
         /\ DOMAIN Insert(o, key, text) = DOMAIN o \cup {key}
         /\ key \notin {"announce", "info"}
         /\ \A k \in DOMAIN o : k # key => Insert(o, key, text)[k] = o[k]
<1>1. key \in ObjectKeys /\ key \notin {"announce", "info"}
  BY DEF OptionKeys, ObjectKeys
<1>2. IsMapOver(o, ObjectKeys)
  BY DEF IsObject
<1>3. /\ IsMapOver(Insert(o, key, text), ObjectKeys)
      /\ DOMAIN Insert(o, key, text) = DOMAIN o \cup {key}
      /\ \A k \in DOMAIN o : k # key => Insert(o, key, text)[k] = o[k]
  BY <1>1, <1>2 DEF Insert, IsMapOver
<1> QED
  BY <1>1, <1>3 DEF IsObject

\* A complete output is a content.
LEMMA WrittenType ==
  ASSUME TypeOK, IndexUsable, isParsed
  PROVE  IsContent(Written)
<1>1. IsInfo(ReadBack(Joined(torrentInfo, torrentPieces)))
  BY ReadBackType DEF TypeOK, IndexUsable
<1>2. IsObject(Insert(torrentObject, "info", ReadBack(Joined(torrentInfo, torrentPieces))))
  BY <1>1, InsertInfoType DEF TypeOK
<1> QED
  BY <1>2 DEF Written, IsContent, HashOf

\* An interrupted output holds leading keys of the complete one, and its digest
\* if "info" is among them.
LEMMA TornShape ==
  ASSUME NEW c \in TornOutputs
  PROVE  /\ \E n \in 0..Len(KeyOrder) :
              c.decoded = Keep(Written.decoded, {KeyOrder[j] : j \in 1..n})
         /\ c = [throws |-> c.throws, decoded |-> c.decoded, hash |-> c.hash]
         /\ c.throws \in BOOLEAN
         /\ c.hash = IF "info" \in DOMAIN c.decoded THEN Written.hash ELSE NoHash
<1>1. PICK n \in 0..Len(KeyOrder) : c \in TornBehind(Written, {KeyOrder[j] : j \in 1..n})
  BY DEF TornOutputs
<1> DEFINE keys == {KeyOrder[j] : j \in 1..n}
           hash == IF "info" \in keys THEN Written.hash ELSE NoHash
<1>2. PICK t \in BOOLEAN :
        c = [throws |-> t, decoded |-> Keep(Written.decoded, keys), hash |-> hash]
  BY <1>1 DEF TornBehind
<1>3. "info" \in DOMAIN Written.decoded
  BY DEF Written, Insert
<1>4. "info" \in DOMAIN c.decoded <=> "info" \in keys
  BY <1>2, <1>3 DEF Keep
<1> QED
  BY <1>2, <1>4

\* Everything an encodeTorrentFile can leave in a file is a content.
LEMMA OutputType ==
  ASSUME TypeOK, IndexUsable, isParsed,
         NEW c \in TornOutputs \cup {Written}
  PROVE  IsContent(c)
<1>1. IsContent(Written)
  BY WrittenType
<1>2. CASE c \in TornOutputs
  <2>1. IsObject(c.decoded)
    <3>1. PICK n \in 0..Len(KeyOrder) :
            c.decoded = Keep(Written.decoded, {KeyOrder[j] : j \in 1..n})
      BY <1>2, TornShape
    <3>2. IsObject(Written.decoded)
      BY <1>1 DEF IsContent
    <3> QED
      BY <3>1, <3>2, KeepType
  <2>2. /\ c = [throws |-> c.throws, decoded |-> c.decoded, hash |-> c.hash]
        /\ c.throws \in BOOLEAN
        /\ c.hash = Written.hash \/ c.hash = NoHash
    BY <1>2, TornShape
  <2>3. /\ c.hash = [info |-> c.hash.info, canonical |-> c.hash.canonical]
        /\ c.hash.canonical \in BOOLEAN
    <3>1. CASE c.hash = Written.hash
      <4>1. /\ Written.hash = [info |-> Written.hash.info, canonical |-> Written.hash.canonical]
            /\ Written.hash.canonical \in BOOLEAN
        BY <1>1 DEF IsContent
      <4> QED
        BY <3>1, <4>1
    <3>2. CASE c.hash = NoHash
      BY <3>2 DEF NoHash
    <3> QED
      BY <2>2, <3>1, <3>2
  <2> QED
    BY <2>1, <2>2, <2>3 DEF IsContent
<1> QED
  BY <1>1, <1>2

\* What decode and setValue leave when the new object is well-formed.
LEMMA AcceptType ==
  ASSUME TypeOK, IndexUsable, NEW o, IsObject(o), Accept(o)
  PROVE  /\ IsObject(torrentObject')
         /\ IsInfo(torrentInfo')
         /\ isParsed' \in BOOLEAN
         /\ ret' \in BOOLEAN
         /\ IndexUsable'
<1>1. CASE isValid(o)
  <2>1. o["info"] # NotAMap /\ "info" \in DOMAIN o /\ ValidInfo(o["info"])
    BY <1>1 DEF isValid, IsAMap, NotAMap
  <2>2. IsInfo(o["info"])
    BY <2>1 DEF IsObject
  <2> QED
    BY <1>1, <2>1, <2>2 DEF Accept, IndexUsable
<1>2. CASE ~isValid(o)
  <2>1. isParsed' = FALSE /\ ret' = FALSE
    BY <1>2 DEF Accept
  <2> QED
    BY <1>2, <2>1 DEF Accept, IndexUsable, TypeOK, index
<1> QED
  BY <1>1, <1>2

\* A new BtTorrent is well-formed, its index vacuously so.
LEMMA InitTypeOK == Init => TypeOK /\ IndexUsable
BY EmptyMapTypes DEF Init, TypeOK, IndexUsable

\* Contents are well-formed.
LEMMA ContentsType ==
  ASSUME TypeOK, NEW c \in Contents
  PROVE  IsContent(c)
BY DocumentsAssumption DEF TypeOK, Contents

\* The type invariant and the index invariant are inductive together: what
\* encodeTorrentFile writes is well-formed only because the index is.
LEMMA NextTypeOK ==
  ASSUME TypeOK, IndexUsable, [Next]_vars
  PROVE  TypeOK' /\ IndexUsable'
<1>1. CASE DecodeCannotOpen
  BY <1>1, EmptyMapTypes DEF DecodeCannotOpen, TypeOK, IndexUsable, index
<1>2. ASSUME NEW c \in Contents, DecodeThrows(c)
      PROVE  TypeOK' /\ IndexUsable'
  <2>1. IsContent(c)
    BY <1>2, ContentsType
  <2> QED
    BY <1>2, <2>1 DEF DecodeThrows, TypeOK, IndexUsable, index, IsContent
<1>3. ASSUME NEW c \in Contents, DecodeReads(c)
      PROVE  TypeOK' /\ IndexUsable'
  <2>1. IsContent(c)
    BY <1>3, ContentsType
  <2>2. IsObject(ListPieces(c.decoded))
    BY <2>1, ListPiecesType DEF IsContent
  <2>3. Accept(ListPieces(c.decoded))
    BY <1>3 DEF DecodeReads
  <2>4. /\ IsObject(torrentObject') /\ IsInfo(torrentInfo')
        /\ isParsed' \in BOOLEAN /\ ret' \in BOOLEAN
        /\ IndexUsable'
    BY <2>2, <2>3, AcceptType
  <2> QED
    BY <1>3, <2>1, <2>4 DEF DecodeReads, TypeOK
<1>4. ASSUME NEW f \in Files, EncodeRefuses(f)
      PROVE  TypeOK' /\ IndexUsable'
  BY <1>4 DEF EncodeRefuses, TypeOK, IndexUsable, torrent, history
<1>5. ASSUME NEW f \in Files, EncodeWriteFails(f) \/ EncodeWrites(f)
      PROVE  TypeOK' /\ IndexUsable'
  <2>1. PICK c \in TornOutputs \cup {Written} : disk' = [disk EXCEPT ![f] = c]
    BY <1>5 DEF EncodeWriteFails, EncodeWrites
  <2>2. IsContent(c)
    BY <1>5, OutputType DEF EncodeWriteFails, EncodeWrites
  <2>3. /\ DOMAIN disk' = Files
        /\ disk' = [g \in Files |-> disk'[g]]
        /\ \A g \in Files : disk'[g] = NoFile \/ IsContent(disk'[g])
    BY <2>1, <2>2 DEF TypeOK
  <2>4. ret' \in BOOLEAN /\ UNCHANGED <<torrent, held, history>>
    BY <1>5 DEF EncodeWriteFails, EncodeWrites
  <2> QED
    BY <2>3, <2>4 DEF TypeOK, IndexUsable, torrent, history
<1>6. ASSUME NEW other \in Inputs \cup {held}, setValue(other)
      PROVE  TypeOK' /\ IndexUsable'
  <2>1. IsObject(other)
    BY InputsAssumption DEF TypeOK
  <2>2. /\ IsObject(torrentObject') /\ IsInfo(torrentInfo')
        /\ isParsed' \in BOOLEAN /\ ret' \in BOOLEAN
        /\ IndexUsable'
    BY <1>6, <2>1, AcceptType DEF setValue
  <2> QED
    BY <1>6, <2>2 DEF setValue, TypeOK
<1>7. CASE value
  BY <1>7 DEF value, TypeOK, IndexUsable, torrent, history
<1>8. CASE clear
  BY <1>8, EmptyMapTypes DEF clear, TypeOK, IndexUsable, index
<1>9. ASSUME NEW key \in Options, NEW text \in Texts, SetOption(key, text)
      PROVE  TypeOK' /\ IndexUsable'
  <2>1. IsObject(torrentObject')
    BY <1>9, OptionsAssumption, InsertOptionType DEF SetOption, TypeOK
  <2> QED
    BY <1>9, <2>1 DEF SetOption, TypeOK, IndexUsable, index, history
<1>10. ASSUME NEW hash \in CallerHashes, setInfoHash(hash)
       PROVE  TypeOK' /\ IndexUsable'
  BY <1>10 DEF setInfoHash, TypeOK, IndexUsable, index
<1>11. CASE UNCHANGED vars
  BY <1>11 DEF vars, TypeOK, IndexUsable
<1> QED
  BY <1>1, <1>2, <1>3, <1>4, <1>5, <1>6, <1>7, <1>8, <1>9, <1>10, <1>11
  DEF Next, decodeTorrentFile, encodeTorrentFile

\* Every variable keeps its type, whatever fails.
THEOREM TypeCorrect == Spec => []TypeOK
<1>1. TypeOK /\ IndexUsable /\ [Next]_vars => (TypeOK /\ IndexUsable)'
  BY NextTypeOK
<1> QED
  BY InitTypeOK, <1>1, PTL DEF Spec

\* While isParsed holds, the index is the complete index of a torrent that
\* isValid accepted.
THEOREM IndexStaysUsable == Spec => []IndexUsable
<1>1. TypeOK /\ IndexUsable /\ [Next]_vars => (TypeOK /\ IndexUsable)'
  BY NextTypeOK
<1> QED
  BY InitTypeOK, <1>1, PTL DEF Spec

-----------------------------------------------------------------------------
(* Which parts of the object belong together *)

\* Without an "info" map there is nothing isValid accepts after the pieces
\* have been listed: the section made up for them holds nothing else.
LEMMA NoInfoIsRejected ==
  ASSUME NEW o, ~("info" \in DOMAIN o /\ IsAMap(o["info"]))
  PROVE  ~isValid(ListPieces(o))
<1>1. InfoMapOf(o) = EmptyMap
  BY DEF InfoMapOf
<1>2. DOMAIN ListPieces(o)["info"] = {"pieces"}
  BY <1>1, EmptyMapIsMap DEF ListPieces, Insert
<1> QED
  BY <1>2 DEF isValid, ValidInfo

\* "nodes" is the only key that sorts behind "info".
LEMMA InfoIsAlmostLast ==
  ASSUME NEW n \in 0..Len(KeyOrder), "info" \in {KeyOrder[j] : j \in 1..n}
  PROVE  ObjectKeys \ {"nodes"} \subseteq {KeyOrder[j] : j \in 1..n}
<1>1. n \in 0..6
  BY DEF KeyOrder
<1>2. /\ KeyOrder[1] = "announce" /\ KeyOrder[2] = "comment" /\ KeyOrder[3] = "created by"
      /\ KeyOrder[4] = "creation date" /\ KeyOrder[5] = "info" /\ KeyOrder[6] = "nodes"
  BY DEF KeyOrder
<1>3. PICK i \in 1..n : KeyOrder[i] = "info"
  OBVIOUS
<1>4. i = 5
  <2>1. i \in 1..6
    BY <1>1
  <2>2. i = 1 \/ i = 2 \/ i = 3 \/ i = 4 \/ i = 5 \/ i = 6
    BY <2>1
  <2> QED
    BY <1>2, <1>3, <2>2
<1>5. 1 \in 1..n /\ 2 \in 1..n /\ 3 \in 1..n /\ 4 \in 1..n /\ 5 \in 1..n
  BY <1>1, <1>3, <1>4
<1> QED
  BY <1>2, <1>5 DEF ObjectKeys, OptionKeys

\* Wherever a write is interrupted, what can be loaded from the file later is
\* the torrent that was to be written, but for what sorts behind "info".
THEOREM InterruptedWritesLoseNoMore == Spec => []InterruptedWriteLosesNoMore
<1>1. ASSUME TypeOK, IndexUsable, isParsed, NEW c \in TornOutputs,
             isValid(ListPieces(c.decoded))
      PROVE  /\ c.hash = Written.hash
             /\ \A k \in DOMAIN Written.decoded \ {"nodes"} :
                  k \in DOMAIN c.decoded /\ c.decoded[k] = Written.decoded[k]
  <2>1. "info" \in DOMAIN c.decoded
    BY <1>1, NoInfoIsRejected
  <2>2. PICK n \in 0..Len(KeyOrder) :
          c.decoded = Keep(Written.decoded, {KeyOrder[j] : j \in 1..n})
    BY TornShape
  <2>3. "info" \in {KeyOrder[j] : j \in 1..n}
    BY <2>1, <2>2 DEF Keep
  <2>4. DOMAIN Written.decoded \subseteq ObjectKeys
    BY <1>1, WrittenType DEF IsContent, IsObject, IsMapOver
  <2>5. ObjectKeys \ {"nodes"} \subseteq {KeyOrder[j] : j \in 1..n}
    BY <2>3, InfoIsAlmostLast
  <2> QED
    BY <2>1, <2>2, <2>4, <2>5, TornShape DEF Keep
<1>2. TypeOK /\ IndexUsable => InterruptedWriteLosesNoMore
  BY <1>1 DEF InterruptedWriteLosesNoMore
<1>3. TypeOK /\ IndexUsable /\ [Next]_vars => (TypeOK /\ IndexUsable)'
  BY NextTypeOK
<1> QED
  BY InitTypeOK, <1>2, <1>3, PTL DEF Spec

\* What is needed besides Coherent for the theorems about the digest: every
\* content on disk that can be accepted has a digest, and the index is the
\* one the decoded file gives.
DiskHashed == \A f \in Files : disk[f] # NoFile => HashOfInfoFound(disk[f])

IndexIsOfOrigin ==
  loaded = "decoded" =>
    IsContent(origin) /\ torrentInfo = ListPieces(origin.decoded)["info"]

IInv ==
  /\ TypeOK
  /\ IndexUsable
  /\ Coherent
  /\ DiskHashed
  /\ HashIsOfLoadedFile
  /\ IndexIsOfOrigin

\* The encoder's outputs are files as DocumentsAssumption describes them.
LEMMA OutputHashed ==
  ASSUME NEW c \in TornOutputs \cup {Written}
  PROVE  HashOfInfoFound(c)
<1>1. Written.hash # NoHash
  BY DEF Written, HashOf, NoHash
<1>2. CASE c \in TornOutputs
  BY <1>1, <1>2, TornShape DEF HashOfInfoFound
<1>3. CASE c = Written
  BY <1>1, <1>3 DEF HashOfInfoFound
<1> QED
  BY <1>2, <1>3

\* And so is every file that decodeTorrentFile may be given.
LEMMA ContentsHashed ==
  ASSUME DiskHashed, NEW c \in Contents
  PROVE  HashOfInfoFound(c)
BY DocumentsAssumption DEF DiskHashed, Contents

\* An accepted object and its index agree at once.
LEMMA AcceptCoherent ==
  ASSUME NEW o, Accept(o), isValid(o)
  PROVE  /\ isParsed'
         /\ isValid(torrentObject')
         /\ torrentInfo' = torrentObject'["info"]
         /\ torrentPieces' = torrentInfo'["pieces"].hashes
         /\ torrentInfo' = o["info"]
BY DEF Accept

\* A new BtTorrent satisfies the inductive invariant.
LEMMA InitIInv == Init => IInv
<1> SUFFICES ASSUME Init PROVE IInv
  OBVIOUS
<1>1. TypeOK /\ IndexUsable
  BY InitTypeOK
<1> QED
  BY <1>1 DEF Init, IInv, Coherent, DiskHashed, HashIsOfLoadedFile, IndexIsOfOrigin

\* One step per action; TypeOK and IndexUsable come from NextTypeOK.
LEMMA NextIInv ==
  ASSUME IInv, [Next]_vars
  PROVE  IInv'
<1> USE DEF IInv
<1>1. TypeOK' /\ IndexUsable'
  BY NextTypeOK
<1> DEFINE Rest == Coherent /\ DiskHashed /\ HashIsOfLoadedFile /\ IndexIsOfOrigin
<1> SUFFICES Rest'
  BY <1>1
<1>2. CASE DecodeCannotOpen
  BY <1>2 DEF DecodeCannotOpen, Coherent, DiskHashed, HashIsOfLoadedFile, IndexIsOfOrigin
<1>3. ASSUME NEW c \in Contents, DecodeThrows(c)
      PROVE  Rest'
  BY <1>3 DEF DecodeThrows, Coherent, DiskHashed, HashIsOfLoadedFile, IndexIsOfOrigin
<1>4. ASSUME NEW c \in Contents, DecodeReads(c)
      PROVE  Rest'
  <2> DEFINE o == ListPieces(c.decoded)
  <2>1. DiskHashed'
    BY <1>4 DEF DecodeReads, DiskHashed
  <2>2. CASE ~isValid(o)
    <3>1. loaded' = "none"
      BY <1>4, <2>2 DEF DecodeReads
    <3> QED
      BY <2>1, <3>1 DEF Coherent, HashIsOfLoadedFile, IndexIsOfOrigin
  <2>3. CASE isValid(o)
    <3>1. /\ "info" \in DOMAIN c.decoded
          /\ IsAMap(c.decoded["info"])
      BY <2>3, NoInfoIsRejected
    <3>2. c.hash # NoHash
      <4>1. HashOfInfoFound(c) /\ ~c.throws
        BY <1>4, ContentsHashed DEF DecodeReads
      <4> QED
        BY <3>1, <4>1 DEF HashOfInfoFound, IsAMap, NotAMap
    <3>3. loaded' = "decoded" /\ origin' = c /\ info_hash' = c.hash
      BY <1>4, <2>3, <3>2 DEF DecodeReads, HashAfter
    <3>4. Accept(o)
      BY <1>4 DEF DecodeReads
    <3>5. Coherent' /\ torrentInfo' = o["info"]
      BY <2>3, <3>4, AcceptCoherent DEF Coherent
    <3>6. IsContent(c)
      BY <1>4, ContentsType
    <3> QED
      BY <2>1, <3>2, <3>3, <3>5, <3>6 DEF HashIsOfLoadedFile, IndexIsOfOrigin
  <2> QED
    BY <2>2, <2>3
<1>5. ASSUME NEW f \in Files, EncodeRefuses(f)
      PROVE  Rest'
  BY <1>5 DEF EncodeRefuses, torrent, history, Coherent, DiskHashed, HashIsOfLoadedFile,
              IndexIsOfOrigin
<1>6. ASSUME NEW f \in Files, EncodeWriteFails(f) \/ EncodeWrites(f)
      PROVE  Rest'
  <2>1. PICK c \in TornOutputs \cup {Written} : disk' = [disk EXCEPT ![f] = c]
    BY <1>6 DEF EncodeWriteFails, EncodeWrites
  <2>2. HashOfInfoFound(c)
    BY OutputHashed
  <2>3. DiskHashed'
    BY <2>1, <2>2 DEF DiskHashed, TypeOK
  <2>4. UNCHANGED <<torrent, history>>
    BY <1>6 DEF EncodeWriteFails, EncodeWrites
  <2> QED
    BY <2>3, <2>4 DEF torrent, history, Coherent, HashIsOfLoadedFile, IndexIsOfOrigin
<1>7. ASSUME NEW other \in Inputs \cup {held}, setValue(other)
      PROVE  Rest'
  <2>1. DiskHashed' /\ loaded' # "decoded"
    BY <1>7 DEF setValue, DiskHashed
  <2>2. Coherent'
    BY <1>7, AcceptCoherent DEF setValue, Coherent
  <2> QED
    BY <2>1, <2>2 DEF HashIsOfLoadedFile, IndexIsOfOrigin
<1>8. CASE value
  BY <1>8 DEF value, torrent, history, Coherent, DiskHashed, HashIsOfLoadedFile, IndexIsOfOrigin
<1>9. CASE clear
  BY <1>9 DEF clear, Coherent, DiskHashed, HashIsOfLoadedFile, IndexIsOfOrigin
<1>10. ASSUME NEW key \in Options, NEW text \in Texts, SetOption(key, text)
       PROVE  Rest'
  <2> DEFINE o == Insert(torrentObject, key, text)
  <2>1. /\ DOMAIN o = DOMAIN torrentObject \cup {key}
        /\ key \notin {"announce", "info"}
        /\ \A k \in DOMAIN torrentObject : k # key => o[k] = torrentObject[k]
    <3>1. IsObject(torrentObject) /\ key \in OptionKeys
      BY OptionsAssumption DEF TypeOK
    <3> HIDE DEF IInv
    <3> QED
      BY <3>1, InsertOptionType
  <2>2. torrentObject' = o
    BY <1>10 DEF SetOption
  <2> HIDE DEF o
  <2>3. isValid(torrentObject) =>
          isValid(torrentObject') /\ torrentObject'["info"] = torrentObject["info"]
    BY <2>1, <2>2 DEF isValid
  <2> QED
    BY <1>10, <2>3 DEF SetOption, index, history, Coherent, DiskHashed, HashIsOfLoadedFile,
                       IndexIsOfOrigin
<1>11. ASSUME NEW hash \in CallerHashes, setInfoHash(hash)
       PROVE  Rest'
  BY <1>11 DEF setInfoHash, index, Coherent, DiskHashed, HashIsOfLoadedFile, IndexIsOfOrigin
<1>12. CASE UNCHANGED vars
  BY <1>12 DEF vars, Coherent, DiskHashed, HashIsOfLoadedFile, IndexIsOfOrigin
<1> QED
  BY <1>2, <1>3, <1>4, <1>5, <1>6, <1>7, <1>8, <1>9, <1>10, <1>11, <1>12
  DEF Next, decodeTorrentFile, encodeTorrentFile

\* The inductive invariant holds in every reachable state.
LEMMA SpecIInv == Spec => []IInv
<1>1. IInv /\ [Next]_vars => IInv'
  BY NextIInv
<1> QED
  BY InitIInv, <1>1, PTL DEF Spec

\* From a load that answered true on, object, flag and index agree.
THEOREM LoadedIsCoherent == Spec => []Coherent
<1>1. IInv => Coherent
  BY DEF IInv
<1> QED
  BY SpecIInv, <1>1, PTL

\* infoHash() is never a digest left over from another file.
THEOREM HashIsFresh == Spec => []HashIsOfLoadedFile
<1>1. IInv => HashIsOfLoadedFile
  BY DEF IInv
<1> QED
  BY SpecIInv, <1>1, PTL

-----------------------------------------------------------------------------
(* Encoding what was decoded *)

\* Storing what is there already changes nothing.
LEMMA InsertSame ==
  ASSUME NEW m, NEW K, IsMapOver(m, K), NEW k \in DOMAIN m
  PROVE  Insert(m, k, m[k]) = m
BY DEF Insert, IsMapOver

\* The second of two values stored under a key is the one that counts.
LEMMA InsertTwice ==
  ASSUME NEW m, NEW k, NEW v, NEW w
  PROVE  Insert(Insert(m, k, v), k, w) = Insert(m, k, w)
BY DEF Insert

\* An "info" map without empty lists survives encoding and decoding.
LEMMA ReadBackWhole ==
  ASSUME NEW i, IsInfo(i), ValidInfo(i), ~HasEmptyList(i), NEW h
  PROVE  ReadBack(Joined(i, h)) = Joined(i, h)
<1> DEFINE j == Joined(i, h)
<1>1. IsMapOver(j, InfoKeys)
  BY DEF Joined, Insert, IsMapOver, IsInfo, InfoKeys
<1>2. /\ DOMAIN j = DOMAIN i \cup {"pieces"}
      /\ \A k \in DOMAIN i : k # "pieces" => j[k] = i[k]
  BY DEF Joined, Insert
<1> SUFFICES ReadBack(j) = j
  OBVIOUS
<1> HIDE DEF j
<1>3. CASE "files" \notin DOMAIN j
  BY <1>3 DEF ReadBack
<1>4. CASE "files" \in DOMAIN j
  <2>1. "files" \in DOMAIN i /\ j["files"] = i["files"]
    BY <1>2, <1>4
  <2>2. IsFileList(j["files"]) /\ DOMAIN j["files"] # {}
    BY <2>1 DEF IsInfo, ValidInfo, HasEmptyList
  <2>3. \A n \in DOMAIN j["files"] : ReadBackEntry(j["files"][n]) = j["files"][n]
    BY <2>1 DEF HasEmptyList, ReadBackEntry
  <2>4. [n \in DOMAIN j["files"] |-> ReadBackEntry(j["files"][n])] = j["files"]
    BY <2>2, <2>3 DEF IsFileList, IsMapOver
  <2>5. ReadBack(j) = Insert(j, "files", j["files"])
    BY <1>4, <2>2, <2>4 DEF ReadBack
  <2> QED
    BY <1>1, <1>4, <2>5, InsertSame
<1> QED
  BY <1>3, <1>4

\* Joining the digests of a map and listing them again changes nothing.
LEMMA ListJoined ==
  ASSUME NEW i, IsInfo(i), ValidInfo(i), NEW o
  PROVE  LET h == i["pieces"].hashes IN
         ListPieces(Insert(o, "info", Joined(i, h))) = Insert(o, "info", i)
<1> DEFINE h == i["pieces"].hashes
           j == Joined(i, h)
           n == Insert(o, "info", j)
<1>1. n["info"] = j /\ "info" \in DOMAIN n
  BY DEF Insert
<1>2. DOMAIN j = DOMAIN i \cup {"pieces"} /\ j["pieces"] = PieceBytes(h)
  BY DEF Joined, Insert
<1>3. IsAMap(j)
  BY <1>2 DEF IsAMap, IsInfo, IsMapOver, InfoKeys
<1>4. InfoMapOf(n) = j
  BY <1>1, <1>3 DEF InfoMapOf
<1>5. PiecesOf(j) = h
  BY <1>2 DEF PiecesOf, PieceBytes
<1>6. PieceList(h) = i["pieces"] /\ "pieces" \in DOMAIN i
  BY DEF PieceList, IsInfo, ValidInfo
<1>7. Insert(j, "pieces", PieceList(h)) = i
  <2>1. Insert(j, "pieces", PieceList(h)) = Insert(i, "pieces", PieceList(h))
    BY InsertTwice DEF Joined
  <2>2. Insert(i, "pieces", i["pieces"]) = i
    BY <1>6, InsertSame DEF IsInfo
  <2> QED
    BY <1>6, <2>1, <2>2
<1>8. ListPieces(n) = Insert(n, "info", i)
  BY <1>4, <1>5, <1>7 DEF ListPieces
<1> QED
  BY <1>8, InsertTwice

\* A loaded torrent is read back from its own encoding unchanged.
THEOREM ReencodingRereads == Spec => []RereadsAlike
<1>1. ASSUME IInv, loaded # "none", ~HasEmptyList(torrentInfo)
      PROVE  ListPieces(Written.decoded) = torrentObject
  <2>1. /\ isValid(torrentObject)
        /\ torrentInfo = torrentObject["info"]
        /\ torrentPieces = torrentInfo["pieces"].hashes
        /\ ValidInfo(torrentInfo) /\ IsInfo(torrentInfo)
    BY <1>1 DEF IInv, Coherent, IndexUsable, TypeOK
  <2>2. Written.decoded = Insert(torrentObject, "info", Joined(torrentInfo, torrentPieces))
    BY <1>1, <2>1, ReadBackWhole DEF Written
  <2>3. ListPieces(Written.decoded) = Insert(torrentObject, "info", torrentInfo)
    BY <2>1, <2>2, ListJoined
  <2>4. IsMapOver(torrentObject, ObjectKeys) /\ "info" \in DOMAIN torrentObject
    BY <1>1, <2>1 DEF IInv, TypeOK, IsObject, isValid
  <2> QED
    BY <2>1, <2>3, <2>4, InsertSame
<1>2. IInv => RereadsAlike
  BY <1>1 DEF RereadsAlike
<1> QED
  BY SpecIInv, <1>2, PTL

\* The digest of "info" survives decoding and encoding.
THEOREM ReencodingKeepsHash == Spec => []SameHashAfterReencode
<1>1. ASSUME IInv, loaded = "decoded", IsFaithful(origin)
      PROVE  Written.hash = info_hash
  <2> DEFINE i == origin.decoded["info"]
             h == i["pieces"].hashes
             listed == Insert(i, "pieces", PieceList(h))
  <2>1. /\ origin.hash.canonical
        /\ "info" \in DOMAIN origin.decoded
        /\ i = origin.hash.info
        /\ IsAMap(i)
        /\ "pieces" \in DOMAIN i
        /\ i["pieces"].form = "bytes"
    BY <1>1 DEF IsFaithful
  <2>2. IsInfo(i)
    BY <1>1, <2>1, InfoMapType DEF IInv, IndexIsOfOrigin, IsContent, InfoMapOf
  <2>3. ListPieces(origin.decoded)["info"] = listed
    BY <2>1 DEF ListPieces, InfoMapOf, PiecesOf, Insert
  <2>4. torrentInfo = listed
    BY <1>1, <2>3 DEF IInv, IndexIsOfOrigin
  <2>5. torrentPieces = h
    <3>1. listed["pieces"].hashes = h
      BY DEF Insert, PieceList
    <3> QED
      BY <1>1, <2>4, <3>1 DEF IInv, Coherent
  <2>6. Joined(torrentInfo, torrentPieces) = i
    <3>1. Joined(torrentInfo, torrentPieces) = Insert(i, "pieces", PieceBytes(h))
      BY <2>4, <2>5, InsertTwice DEF Joined
    <3>2. PieceBytes(h) = i["pieces"]
      BY <2>1, <2>2 DEF PieceBytes, IsInfo
    <3> QED
      BY <2>1, <2>2, <3>1, <3>2, InsertSame DEF IsInfo
  <2>7. Written.hash = [info |-> i, canonical |-> TRUE]
    BY <2>6 DEF Written, HashOf
  <2>8. origin.hash = [info |-> i, canonical |-> TRUE]
    BY <1>1, <2>1 DEF IInv, IndexIsOfOrigin, IsContent
  <2> QED
    BY <1>1, <2>7, <2>8 DEF IInv, HashIsOfLoadedFile
<1>2. IInv => SameHashAfterReencode
  BY <1>1 DEF SameHashAfterReencode
<1> QED
  BY SpecIInv, <1>2, PTL

-----------------------------------------------------------------------------
(* The core and the torrent *)

\* What the constructor assigns to the caller's torrent is what was there.
LEMMA NewCoreLeavesTorrent ==
  ASSUME NEW id, NEW listenPort, NewCore(id, listenPort)
  PROVE  UNCHANGED vars
BY DEF NewCore, setTorrentRef, Copy, vars, history

\* A step of the core system is a step of the torrent's or none.
LEMMA CoreStep ==
  ASSUME [CoreNext]_coreVars
  PROVE  [Next]_vars
<1>1. CASE TorrentCall
  BY <1>1 DEF TorrentCall
<1>2. ASSUME NEW id \in PeerIds, NEW listenPort \in ListenPorts, NewCore(id, listenPort)
      PROVE  UNCHANGED vars
  BY <1>2, NewCoreLeavesTorrent
<1>3. CASE DeleteCore
  BY <1>3 DEF DeleteCore
<1>4. CASE start
  BY <1>4 DEF start
<1>5. CASE Announcing
  BY <1>5 DEF Announcing
<1>6. CASE UNCHANGED coreVars
  BY <1>6 DEF coreVars
<1> QED
  BY <1>1, <1>2, <1>3, <1>4, <1>5, <1>6 DEF CoreNext

-----------------------------------------------------------------------------
\* "announce" stays what the file says, also when options are set.
UrlIsOfOrigin ==
  loaded = "decoded" =>
    /\ "announce" \in DOMAIN torrentObject
    /\ torrentObject["announce"] = origin.decoded["announce"]

\* The request under way says what the torrent says, which does not change
\* before the request is gone.
RequestIsCurrent ==
  rq # Nothing =>
    /\ phase # "idle"
    /\ rq.info_hash = info_hash
    /\ rq.url = announce

CoreInv == IInv /\ UrlIsOfOrigin /\ RequestIsCurrent

\* No torrent call separates "announce" from the file it was read from.
LEMMA NextUrl ==
  ASSUME IInv, UrlIsOfOrigin, [Next]_vars
  PROVE  UrlIsOfOrigin'
<1>1. CASE DecodeCannotOpen
  BY <1>1 DEF DecodeCannotOpen, UrlIsOfOrigin
<1>2. ASSUME NEW c \in Contents, DecodeThrows(c)
      PROVE  UrlIsOfOrigin'
  BY <1>2 DEF DecodeThrows, UrlIsOfOrigin
<1>3. ASSUME NEW c \in Contents, DecodeReads(c), isValid(ListPieces(c.decoded))
      PROVE  UrlIsOfOrigin'
  <2> DEFINE o == ListPieces(c.decoded)
  <2>1. torrentObject' = o /\ origin' = c
    BY <1>3 DEF DecodeReads, Accept
  <2>2. "announce" \in DOMAIN o
    BY <1>3 DEF isValid
  <2>3. o["announce"] = c.decoded["announce"]
    BY <2>2 DEF ListPieces, Insert
  <2> QED
    BY <2>1, <2>2, <2>3 DEF UrlIsOfOrigin
<1>4. ASSUME NEW c \in Contents, DecodeReads(c), ~isValid(ListPieces(c.decoded))
      PROVE  UrlIsOfOrigin'
  BY <1>4 DEF DecodeReads, UrlIsOfOrigin
<1>5. CASE \E f \in Files : encodeTorrentFile(f)
  BY <1>5 DEF encodeTorrentFile, EncodeRefuses, EncodeWriteFails, EncodeWrites, torrent,
              history, UrlIsOfOrigin
<1>6. CASE \E other \in Inputs \cup {held} : setValue(other)
  BY <1>6 DEF setValue, UrlIsOfOrigin
<1>7. CASE value
  BY <1>7 DEF value, torrent, history, UrlIsOfOrigin
<1>8. CASE clear
  BY <1>8 DEF clear, UrlIsOfOrigin
<1>9. ASSUME NEW key \in Options, NEW text \in Texts, SetOption(key, text)
      PROVE  UrlIsOfOrigin'
  <2>1. key # "announce"
    BY OptionsAssumption DEF OptionKeys
  <2>2. torrentObject' = Insert(torrentObject, key, text) /\ UNCHANGED history
    BY <1>9 DEF SetOption
  <2> QED
    BY <2>1, <2>2 DEF Insert, history, UrlIsOfOrigin
<1>10. CASE \E hash \in CallerHashes : setInfoHash(hash)
  BY <1>10 DEF setInfoHash, UrlIsOfOrigin
<1>11. CASE UNCHANGED vars
  BY <1>11 DEF vars, UrlIsOfOrigin
<1> QED
  BY <1>1, <1>2, <1>3, <1>4, <1>5, <1>6, <1>7, <1>8, <1>9, <1>10, <1>11
  DEF Next, decodeTorrentFile

\* The request is made of the torrent, and while there is one, the torrent
\* stands still.
LEMMA NextRequest ==
  ASSUME RequestIsCurrent, [CoreNext]_coreVars
  PROVE  RequestIsCurrent'
<1>1. CASE TorrentCall
  BY <1>1 DEF TorrentCall, core, RequestIsCurrent
<1>2. ASSUME NEW id \in PeerIds, NEW listenPort \in ListenPorts, NewCore(id, listenPort)
      PROVE  RequestIsCurrent'
  BY <1>2, NewCoreLeavesTorrent DEF NewCore, vars, contact, announce, RequestIsCurrent
<1>3. CASE DeleteCore
  BY <1>3 DEF DeleteCore, vars, announce, RequestIsCurrent
<1>4. CASE start
  <2>1. phase' # "idle"
    BY <1>4 DEF start, Contact!start
  <2>2. rq' = Request(announce) /\ UNCHANGED vars
    BY <1>4 DEF start
  <2>3. rq'.info_hash = info_hash /\ rq'.url = announce
    BY <2>2 DEF Request
  <2>4. info_hash' = info_hash /\ announce' = announce
    BY <2>2 DEF vars, announce
  <2> QED
    BY <2>1, <2>3, <2>4 DEF RequestIsCurrent
<1>5. CASE Announcing
  <2>1. rq' = (IF phase' = "idle" THEN Nothing ELSE rq) /\ UNCHANGED vars
    BY <1>5 DEF Announcing
  <2>2. info_hash' = info_hash /\ announce' = announce
    BY <2>1 DEF vars, announce
  <2> QED
    BY <2>1, <2>2 DEF RequestIsCurrent
<1>6. CASE UNCHANGED coreVars
  BY <1>6 DEF coreVars, core, vars, announce, RequestIsCurrent
<1> QED
  BY <1>1, <1>2, <1>3, <1>4, <1>5, <1>6 DEF CoreNext

\* What quint16 makes of an int.
LEMMA SixteenBits == \A n \in Int : n % 65536 \in Ports
<1>1. \A n \in Int : n % 65536 \in Int /\ n % 65536 >= 0 /\ n % 65536 < 65536
  BY SMT
<1> QED
  BY <1>1 DEF Ports

\* A core has a peer with a port of 16 bits, and outlives its request.
THEOREM CoreTypeCorrect == CoreSpec => []CoreTypeOK
<1>1. CoreInit => CoreTypeOK
  BY DEF CoreInit, CoreTypeOK
<1>2. ASSUME CoreTypeOK, [CoreNext]_coreVars
      PROVE  CoreTypeOK'
  <2>1. CASE TorrentCall
    BY <1>2, <2>1 DEF TorrentCall, core, CoreTypeOK
  <2>2. ASSUME NEW id \in PeerIds, NEW listenPort \in ListenPorts, NewCore(id, listenPort)
        PROVE  CoreTypeOK'
    <3>1. listenPort \in Int
      BY ListenPortsAssumption
    <3>2. listenPort % 65536 \in Ports
      BY <3>1, SixteenBits
    <3>3. localPeer' \in LocalPeers
      BY <2>2, <3>2 DEF NewCore, LocalPeers
    <3>4. localPeer' # Nothing
      BY <3>3, NothingAssumption
    <3> QED
      BY <1>2, <2>2, <3>3, <3>4 DEF NewCore, contact, CoreTypeOK
  <2>3. CASE DeleteCore
    BY <1>2, <2>3 DEF DeleteCore, CoreTypeOK
  <2>4. CASE start
    BY <1>2, <2>4 DEF start, Contact!start, CoreTypeOK
  <2>5. CASE Announcing
    BY <1>2, <2>5 DEF Announcing, CoreTypeOK
  <2>6. CASE UNCHANGED coreVars
    BY <1>2, <2>6 DEF coreVars, core, CoreTypeOK
  <2> QED
    BY <1>2, <2>1, <2>2, <2>3, <2>4, <2>5, <2>6 DEF CoreNext
<1> QED
  BY <1>1, <1>2, PTL DEF CoreSpec

\* The announce of a decoded torrent goes to the tracker of its file with the
\* digest of its file, whatever calls failed before.
THEOREM AnnouncesLoadedFile == CoreSpec => []AnnounceIsOfLoadedFile
<1>1. CoreInit => CoreInv
  BY InitIInv DEF CoreInit, CoreInv, Init, UrlIsOfOrigin, RequestIsCurrent
<1>2. CoreInv /\ [CoreNext]_coreVars => CoreInv'
  BY CoreStep, NextIInv, NextUrl, NextRequest DEF CoreInv
<1>3. CoreInv => AnnounceIsOfLoadedFile
  BY DEF CoreInv, IInv, HashIsOfLoadedFile, UrlIsOfOrigin, RequestIsCurrent, announce,
         AnnounceIsOfLoadedFile
<1> QED
  BY <1>1, <1>2, <1>3, PTL DEF CoreSpec

=============================================================================
