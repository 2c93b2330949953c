CONSTANTS
  MaxBackoff = 5
  PingTimeout = 2
  Limit = 5
  MaxTasks = 5
  MaxSilence = 40
  p1 = p1
  c1 = c1
  c2 = c2
  u1 = u1
  PeerId = {p1}
  ConnId = {c1, c2}
  PeerOf <- OnePeer
  NoPeer = NoPeer
  MaxBreaks = 2
  Url = {u1}
  NoUrl = NoUrl
  UrlOf <- OneAccepted
  BusCap = 8
  Peer = {1, 2, 3}
  Settings <- SomeSettings
  NewNat = "cone"
  MaxLosses = 1
  Src = {s1}
  Dst = {d1, d2}
  MaxEntries = 3
  NoEntry = NoEntry
  MaxPayload = 13
  HeaderLen = 2
  Unit = 2
  PayloadMtu = 4
  Capacity = 3
  FillRate = 3
  Second = 2
  Consumer = {k1, k2}
  Request = {1, 2, 4}
  MaxElapsed = 4
  Name = {n1, n2, none}
  EmptyName = none
  Address = {a1, a2}
  ExitPeer = {e1, e2}
  Value = {v1}
  Half = 4
  Word = 2
  PeerWord = 2
  AddressLen = 1
  Stores <- SomeStores
  Asked <- SomeNames
  UdpClient = {x1}
  ClientPeer = {y1}
  UdpTarget <- SomeTargets
  Own <- OwnAddress
  RecvTimeout = 2
  Inactive = 3
  Unused = Unused
  Configs <- SomeCidrs
  EchoClient = {x1, x2}
  EchoId = {i1}
  EchoTarget <- EchoTargets
  EchoOwn <- OwnAddress
  MaxEchoes = 2
  Requester = {r1, r2}
  MaxListeners = 1
  MaxMade = 2
  ActiveKeep = 2
  SelectKeep = 3
  ConnectWithin = 1
  UdpConn = {"c", "d"}
  AddrOf <- OneAddress
  Addrs = {"p"}
  NoTunnel = 0
  Cap = 3
  Reserved = 1
  MaxSend = 2
  MaxTunnels = 2
  Conns = {1, 2, 3}
  Clients <- SomeClients
  Accepting <- TheNode
  private_mode = FALSE
  Relayed = {"f"}
  relay_all_peer_rpc = FALSE
  MaxDirectConns = 1
  Zero = Zero
  NoNet = NoNet
  MaxIds = 2
  None = None
  Bad = Bad
  WebConfigs <- SomeWebs
  Extras <- SomeExtras
  Options <- SomeOptions
CHECK_DEADLOCK FALSE
SPECIFICATION StandaloneSpec
INVARIANTS
  
  KeepaliveSound
   NoneCut
  OwnTranslation  EchoesMatch
  AssembledIntact
  RateBounded
  ListsAgree
  ReadsBack
  TunnelsApart EndsAgree 
