SPECIFICATION CoreSpec
CONSTANTS
  Files = {}
  Documents <- CoreDocuments
  Inputs <- CoreInputs
  Options = {"comment"}
  Texts = {t1}
  CallerHashes = {}
  Opaque = Opaque
  NotAList = NotAList
  NoFile = NoFile
  TrackerA = TrackerA
  TrackerB = TrackerB
  Name = Name
  Size = Size
  Node = Node
  h1 = h1
  h2 = h2
  Bodies <- CoreBodies
  EndInE <- CoreEndInE
  Misleading = {}
  MaxContacts = 2
  HttpUrls = {TrackerA, TrackerB}
  NoUrl = NoUrl
  PeerIds = {id1}
  ListenPorts = {6881, 70000}
  Nothing = Nothing
INVARIANTS
  CoreTypeOK
  AnnounceIsOfLoadedFile

