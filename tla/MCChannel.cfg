CONSTANTS
    Thread = {t1, t2, t3}
    Item = {a, b}
    Capacity = 2
    Nobody = Nobody
    NoItem = NoItem
    MaxCalls = 5
SPECIFICATION FairSpec
INVARIANTS Inv NoLostWakeup
PROPERTIES EndIsFinal CallsReturn
CHECK_DEADLOCK FALSE
