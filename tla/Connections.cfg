CONSTANTS
  p1 = p1
  c1 = c1
  c2 = c2
  PeerId = {p1}
  ConnId = {c1, c2}
  PeerOf <- OnePeer
  NoPeer = NoPeer
  MaxBreaks = 2
  l1 = l1
  l2 = l2
  l3 = l3
  l4 = l4
  Link = {l1, l2, l3, l4}
  LinkPeer <- TwoPeers
  Identity <- OneForeign
  MaxDirect = 1
  BusSize = 2
  NoNetwork = NoNetwork
  Call = {c1, c2}
  RequestPieces <- TwoRequests
  ResponsePieces <- TwoResponses
  MaxDuplicates = 1
  Absent = Absent
  Missing = Missing
  TimedOut = TimedOut
  Nodes = {1, 2}
  Centers = {0, 1}
  FirstCenter = 1
  FirstLinks <- OneLink
  MaxChanges = 1
  NoPeers = NoPeers
  Members = {1, 2, 3}
  Servers = {1}
  Neighbours <- Chain
  PeerSets <- UpToTwo
  Second = 3
  Interval = 3
  RenewAfter = 1
  RemoveAfter = 2
  MaxClock = 8
  MaxReach = 1
  Forwards <- ThreeForwards
  AnyDst = 3
  Ips = {1, 2}
  NoIp = 0
  PortScenes <- Scenes
CHECK_DEADLOCK FALSE
SPECIFICATION ConnectionsSpec
INVARIANTS ConnsAccounted EntryWatched ForeignKnown 
PROPERTIES NothingLeft CallsSettle MapsSettle
