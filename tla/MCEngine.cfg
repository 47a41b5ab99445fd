\* Rings of two messages fill while the engine is busy; four messages let a
\* cancel or a modify follow the orders it is about.
CONSTANTS
    c1 = c1
    c2 = c2
    Ids        = {0, 1, 2}
    Clients    = {c1, c2}
    MaxPrice   = 2
    TopPrice   = 3
    Quantities = {0, 1, 2}
    MaxQuantity = 2
    PoolSize   = 2
    None       = None
    Inputs    <- MCInputs
    InCap      = 2
    OutCap     = 2
    MaxMsgs    = 4
SPECIFICATION EngineSpec
CHECK_DEADLOCK FALSE
INVARIANTS
    EngineTypeOK
    PipelineIsFifo
    IdsAreFresh
    NoMatchAfterCancel
PROPERTIES
    AcceptedIsExecuted
    StopEnds
