SPECIFICATION Spec
CONSTANTS
  Replies <- MCReplies
  MaxPeers = 3
CHECK_DEADLOCK FALSE
INVARIANT PeersAsSent
PROPERTY
  ClosedRoundsAdvance
  EndsUnlessUnclosed
