\* The same client, asked whether every response frees a slot.
CONSTANTS
    Depth      = 2
    WireCap    = 3
    ReadCap    = 3
    MaxBackoff = 2
SPECIFICATION Spec
INVARIANT
    AnsweredFreesSlot
