\* Four slots: the indices wrap, the ring fills and empties.
CONSTANTS
    N      = 4
    Values = {v1, v2, v3}
    Blank  = Blank
SPECIFICATION Spec
INVARIANTS
    RingTypeOK
    NoSlotRace
PROPERTIES
    RefinesFifo
    Drains
