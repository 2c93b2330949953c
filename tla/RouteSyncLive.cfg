SPECIFICATION FairSpec
CONSTANTS
    a = a
    b = b
    c = c
    Peer = {a, b}
    InitLink <- NoLink
    MaxVersion = 1
    MaxLinkChanges = 2
    MaxTimeouts = 0
    MaxDrops = 1
    MaxExpiries = 0
INVARIANT SavedSound
PROPERTIES Converges
CHECK_DEADLOCK FALSE
