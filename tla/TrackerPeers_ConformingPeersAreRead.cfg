SPECIFICATION Spec
CONSTANTS
  Replies <- Bencodeds
  MaxPeers = 3
CHECK_DEADLOCK FALSE
INVARIANT ConformingPeersAreRead
