SPECIFICATION Spec
CONSTANTS
  NullIp = NullIp
  Hashes <- MCHashes
  PeerIds <- MCPeerIds
  Ips = {NullIp, ip1}
  Ports = {1, 2}
  Counts = {0}
  Lefts = {0, 1}
  Events = {"empty", "started"}
  Numwants = {0, 50}
INVARIANTS
  TypeOK
  CacheFresh
  QueryTellsHashes
PROPERTIES
  AnswersAreCurrent
