SPECIFICATION ComponentSpec
CONSTANTS
    Components = {k1, k2}
    Holders = {e1}
    Grants = {g1, g2}
    Calls = {c1, c2}
    Definitions <- Definable
    OwnAmounts = {5, 150}
    LastDay = 1
    Whole = 100
    NoDefinition = NoDefinition
    NoGrant = NoGrant
    NoEnd = NoEnd
    Idle = Idle
SYMMETRY Interchangeable
CHECK_DEADLOCK FALSE
INVARIANTS
    PayIsComputed
    GrantsWellFormed
PROPERTIES
    EndedStaysEnded
