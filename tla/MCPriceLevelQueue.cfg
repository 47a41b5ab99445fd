\* Four ids compete for three slots at two levels: the pool runs out, a slot is
\* reused at another level, and an order can leave the middle of a queue.
CONSTANTS
    Ids      = {i1, i2, i3, i4}
    Levels   = {l1, l2}
    Capacity = 3
    Blank    = Blank
SPECIFICATION Spec
SYMMETRY Symmetry
INVARIANTS
    QueueTypeOK
    LinksWellFormed
    SlotsPartitioned
PROPERTIES
    RefinesLevels
