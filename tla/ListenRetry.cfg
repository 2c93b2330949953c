CONSTANTS
  n1 = n1
  e1 = e1
  e2 = e2
  Name = {n1, none}
  EmptyName = none
  Address = {a1}
  ExitPeer = {e1, e2, e3}
  Value = {v1}
  Configs <- TwoConfigs
  Wallet = a1
  MaxAdmin = 1
  Url = {u1, u2}
  Caller = {c1}
  NoUrl = NoUrl
  BusCap = 1
  MaxCalls = 2
  MaxEvents = 2
  MaxConns = 2
  IpLists <- SomeIpLists
  DefaultProtocol = "tcp"
  EnableIpv6 = TRUE
  Tries = 2
  Stranger = {"lan"}
  MaxDirectLosses = 1
  ListenerConfigs <- SomeListeners
  Ipv6 = TRUE
  MaxErr = 5
  Instances = {1, 2}
  DnsTables <- TwoTables
  NoHost = ""
  MaxDnsEvents = 2
  Kinds <- SomeKinds
  Default = "d"
  LastHost = 3
  RouteSets <- SomeRoutes
  None = None
  MaxTrouble = 4
CHECK_DEADLOCK FALSE
SPECIFICATION ListenersSpec
PROPERTY ListenRetried
