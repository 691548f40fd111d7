SPECIFICATION Spec
CONSTANTS
  Values <- MCValues
  KeyOrder <- MCKeyOrder
  Depth = 3
  MaxCut = 50
CHECK_DEADLOCK FALSE
INVARIANTS
  RoundTrip
  ReencodingIsStable
  CutLeavesLeadingEntries
  NothingInvented
  InfoSectionFound
