CONSTANTS
    Item = {a, b}
    NoItem = none
    Capacity = 2
    MaxSends = 6
    Stale = TRUE
SPECIFICATION MCSpec
INVARIANTS NoSlotRace InOrder NothingLeftLive ClosedMeansDrained FullMeansFull
PROPERTIES ImplementsQueue Delivery
CHECK_DEADLOCK FALSE
