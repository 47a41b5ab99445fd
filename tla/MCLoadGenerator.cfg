\* A pipeline of two requests; three unanswered requests leave room for an old
\* one beside a full batch, and for a batch that is sent in part.
CONSTANTS
    Depth      = 2
    WireCap    = 3
    ReadCap    = 3
    MaxBackoff = 2
SPECIFICATION Spec
INVARIANTS
    ClientTypeOK
    PipelineAccounted
PROPERTIES
    NothingStalls
