SPECIFICATION RunSpec
CONSTANTS
    a = a
    b = b
    c = c
    Peer = {a, b, c}
    InitLink <- Path
    MaxVersion = 1
    MaxLinkChanges = 0
    MaxTimeouts = 0
    MaxDrops = 0
    MaxExpiries = 0
SYMMETRY Ends
INVARIANTS BitmapComplete QuietMeansConverged
CHECK_DEADLOCK FALSE
