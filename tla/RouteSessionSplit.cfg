SPECIFICATION Spec
CONSTANTS
    Peer = {1, 2, 3, 4}
    Public = {}
    Flaky <- Flapping
    Scenarios <- Path1432
INVARIANT SettledKnowsAll
CHECK_DEADLOCK FALSE
