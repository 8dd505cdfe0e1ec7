CONSTANTS
    Key = {k1, k2, k3, k4}
    NoKey = NoKey
    Seeds <- MCSeeds
    MinSlots = 4
    Spare = 4
    Doublings = 1
    Requests = {0, 4}
    Elem = {a, b, c}
    Zero = Zero
    Junk = Junk
    MinCap = 2
    MaxCap = 5
    MaxCount = 2
    Lengths = {0, 1, 3}
SPECIFICATION MCSpec
INVARIANTS Inv NothingLost CountIsAccurate InsertIsSplice
PROPERTIES ImplementsMap RefusalKeepsElements
SYMMETRY MCSymmetry
CHECK_DEADLOCK FALSE
