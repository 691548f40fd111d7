SPECIFICATION Spec
CONSTANTS
  Files = {f1}
  Documents <- ManyDocuments
  Inputs <- ManyInputs
  Options = {}
  Texts = {t1}
  CallerHashes = {c1}
  Opaque = Opaque
  NotAList = NotAList
  NoFile = NoFile
  TrackerA = TrackerA
  TrackerB = TrackerB
  Name = Name
  Size = Size
  Node = Node
  h1 = h1
  h2 = h2
INVARIANTS
  TypeOK
  IndexUsable
  Coherent
  HashIsOfLoadedFile
  RereadsAlike
  SameHashAfterReencode
  InterruptedWriteLosesNoMore
