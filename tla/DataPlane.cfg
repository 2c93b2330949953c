CONSTANTS
  t1 = t1
  t2 = t2
  a = a
  Peer = {1, 2, 3, 4, 5}
  Me = 1
  Addr = {a}
  Task = {t1, t2}
  Cost <- Latency
  AvoidCost = 100
  Scenarios <- Instances
  Updates <- Changes
  Node = {1, 2, 3, 4, 5, 6, 7, 8}
  Graphs <- Ways
  LatencyFirst = {1, 3, 5, 7}
  ForeignPeer = {x1}
  Attached <- AtThree
  HopLimit = 5
  LatencyHops = 1
  f1 = f1
  f2 = f2
  g1 = g1
  Flow = {f1, f2}
  Group = {g1}
  Judge = {j1, j2}
  ChainOf <- Chains
  Acls <- TwoAcls
  Grouped = {f1}
  CacheMax = 1
  MaxReloads = 1
SPECIFICATION DataSpec
SYMMETRY Symmetry
CHECK_DEADLOCK FALSE
INVARIANTS
  TableSound NoBlackout
  PacketsArrive
  VerdictByRules
