\* Four orders of two clients on a ladder of three ticks, with room for three: a best
\* level can be emptied with an empty tick between it and the next one, an order
\* removed from the middle of a queue, and an order meet a full pool.  Prices go one
\* past the ladder.
CONSTANTS
    Ids        = {i1, i2, i3, i4}
    Clients    = {c1, c2}
    MaxPrice   = 3
    TopPrice   = 4
    Quantities = {1, 2}
    PoolSize   = 3
    None       = None
SPECIFICATION BookSpec
SYMMETRY Symmetry
INVARIANTS
    BookTypeOK
    MapMatchesQueues
    LevelIndexExact
    PoolAccounted
    RestingUncrossed
    AnswerIsTrue
PROPERTIES
    PriceTimePriority
    NoQueueJump
    ChangesAreAuthorised
    FillsBalance
