\* Two descriptors and two connections: both are open at once, or the second
\* reuses the descriptor of the first.
CONSTANTS
    Clients   = {c1, c2}
    MaxFd     = 2
    MaxConns  = 2
    MaxFrames = 2
    RingCap   = 2
    StageCap  = 2
    BufCap    = 2
    None      = None
SPECIFICATION Spec
SYMMETRY Symmetry
INVARIANTS
    ServerTypeOK
    FreeSlotIsClean
    PendingIsTracked
    RouteIsLive
    DeliveredInOrder
