SPECIFICATION Spec
CONSTANTS
    a = a
    b = b
    c = c
    Peer = {a, b}
    InitLink <- NoLink
    MaxVersion = 2
    MaxLinkChanges = 2
    MaxTimeouts = 1
    MaxDrops = 0
    MaxExpiries = 1
SYMMETRY Both
INVARIANT NoFutureVersion
CHECK_DEADLOCK FALSE
