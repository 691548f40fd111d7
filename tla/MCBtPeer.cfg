SPECIFICATION Spec
CONSTANTS
  Torrents = {t1, t2}
  Values <- MCValues
  LocalPeers = {l1}
  RemotePeers = {r1}
  Ids = {"", "id"}
  Ips = {"0.0.0.0"}
  Ports = {0, 6881}
  NoValue = NoValue
  hashA = hashA
  hashB = hashB
  none = none
INVARIANTS
  TypeOK
PROPERTIES
  ConstructionDisturbsNoOne
