CONSTANTS
  Url = {u1}
  Caller = {c1}
  NoUrl = NoUrl
  BusCap = 1
  MaxCalls = 3
  MaxEvents = 2
  MaxConns = 2
SPECIFICATION Spec
CHECK_DEADLOCK FALSE
INVARIANT AssertHolds
