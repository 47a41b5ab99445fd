\* Frames of three bytes, buffers of two frames, a kernel buffer that holds
\* neither a whole number of frames nor a whole buffer.
CONSTANTS
    Frame     = 3
    WriteCap  = 6
    ReadCap   = 6
    WireCap   = 4
    Wrap      = 6
SPECIFICATION Spec
INVARIANTS
    StreamTypeOK
    StreamIntact
    RoomToRead
PROPERTIES
    AllGoesThrough
