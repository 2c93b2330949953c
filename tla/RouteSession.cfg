SPECIFICATION Spec
CONSTANTS
    Peer = {1, 2, 3}
    Public = {3}
    Flaky <- Flapping
    Scenarios <- Faulty
INVARIANTS SessionsCover
CHECK_DEADLOCK FALSE
