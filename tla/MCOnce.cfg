CONSTANTS
    Thread <- MCThread
    Nobody = "nobody"
    Onces = {1, 2}
    Plans <- MCPlans
    Spins = 1
SPECIFICATION FairSpec
INVARIANT Inv
PROPERTY CallsEnd
CHECK_DEADLOCK FALSE
