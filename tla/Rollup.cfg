\* Punctual ticks, short downtime, failing rollups and deletes.
SPECIFICATION Spec
CONSTANTS
    B = 2
    HOT = 6
    KEEP = 7
    DAY = 3
    Skew = 1
    MaxLag = 3
    MaxDown = 4
    Faults = TRUE
    MaxTime <- MCMaxTime
    MaxRounds = 3
INVARIANTS TypeOK RawHoldsHorizon RolledBeforeDropped
PROPERTY TruncatedOnlyByCut
\* The clock stops at MaxTime.
CHECK_DEADLOCK FALSE
