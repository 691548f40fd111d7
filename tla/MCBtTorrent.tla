---------------------------- MODULE MCBtTorrent ----------------------------
(***************************************************************************)
(* A small instance of BtTorrent: two torrents, A with a single file and B *)
(* with two, a comment and a key behind "info", the damaged and unusual    *)
(* files that reach each failing path of decodeTorrentFile, and the maps   *)
(* that reach those of setValue.                                           *)
(***************************************************************************)
EXTENDS BtTorrent, TLC

CONSTANTS TrackerA, TrackerB, Name, Size, Node, h1, h2

BareInfo == ("name" :> Name) @@ ("piece length" :> Size)

InfoA == BareInfo @@ ("length" :> 3) @@ ("pieces" :> PieceBytes(<<h1, h2>>))

Entry(n) == ("length" :> n) @@ ("path" :> "components")

InfoB == BareInfo @@ ("files" :> <<Entry(1), Entry(2)>>) @@ ("pieces" :> PieceBytes(<<h2>>))

Torrent(tracker, info) == ("announce" :> tracker) @@ ("info" :> info)

Whole(info) == [info |-> info, canonical |-> TRUE]
Unusual(info) == [info |-> info, canonical |-> FALSE]

File(decoded, hash) == [throws |-> FALSE, decoded |-> decoded, hash |-> hash]

FileA == File(Torrent(TrackerA, InfoA), Whole(InfoA))
FileB == File(Torrent(TrackerB, InfoB) @@ ("comment" :> Name) @@ ("nodes" :> Node),
              Whole(InfoB))

\* keys out of order, or a text of digits, inside "info"
FileUnsorted == File(Torrent(TrackerA, InfoA), Unusual(InfoA))

FileNoPieces == LET info == BareInfo @@ ("length" :> 3)
                IN  File(Torrent(TrackerA, info), Whole(info))

\* the section is there but the decoder gave it up at an empty list
FileCut == File(Torrent(TrackerA, EmptyMap),
                Whole(InfoA @@ ("files" :> <<>>)))

FileNoInfo == File("announce" :> TrackerB, NoHash)

FileInfoNotAMap == File(Torrent(TrackerB, NotAMap), NoHash)

\* the decoder throws behind "announce"
FileBroken == [throws |-> TRUE, decoded |-> ("announce" :> TrackerB), hash |-> NoHash]

ManyDocuments == {FileA, FileB, FileUnsorted, FileNoPieces, FileCut,
                  FileInfoNotAMap, FileBroken}

Listed(info) == [info EXCEPT !["pieces"] = PieceList(@.hashes)]

AssignedB == Torrent(TrackerB, Listed(InfoB))

ManyInputs ==
  { AssignedB,
    \* rejected by isValid
    Torrent(TrackerA, InfoA),
    Torrent(TrackerA, Listed(InfoA) @@ ("files" :> NotAList)),
    Torrent(TrackerA, Listed(InfoA) @@ ("files" :> <<Entry(1), "length" :> 1>>)),
    \* accepted, but not encodable
    Torrent(Opaque, Listed(InfoA)),
    \* accepted and encodable, but not readable afterwards
    Torrent(TrackerA, Listed(InfoA) @@ ("files" :> <<>>)),
    Torrent(TrackerA, Listed(InfoA) @@ ("files" :> <<Entry(1), [Entry(2) EXCEPT !["path"] = "none"]>>)) }

=============================================================================
