\* Three samples of which the report leaves out one.  The process may end.
CONSTANTS
    SampleCount = 3
    SampleDrop  = 1
SPECIFICATION Spec
CHECK_DEADLOCK FALSE
INVARIANTS
    ExchangeTypeOK
    SharedOutlivesThreads
PROPERTIES
    SignalEnds
