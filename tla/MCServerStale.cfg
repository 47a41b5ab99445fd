\* One descriptor for two connections: the second reuses it.
CONSTANTS
    Clients   = {c1, c2}
    MaxFd     = 1
    MaxConns  = 2
    MaxFrames = 2
    RingCap   = 2
    StageCap  = 2
    BufCap    = 1
    None      = None
SYMMETRY Symmetry
SPECIFICATION Spec
INVARIANT
    NoStaleCondemned
