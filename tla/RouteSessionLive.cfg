SPECIFICATION Spec
CONSTANTS
    Peer = {1, 2, 3}
    Public = {3}
    Flaky <- Flapping
    Scenarios <- Fair
PROPERTIES SessionsSettle
CHECK_DEADLOCK FALSE
