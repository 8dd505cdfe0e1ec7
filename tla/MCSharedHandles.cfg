CONSTANTS
    Thread = {t1, t2, t3}
    Handle = {h1, h2, h3, h4}
    Payload = Payload
SPECIFICATION Spec
INVARIANTS Inv DestroyedAfterUse NothingLeaks
SYMMETRY MCSymmetry
CHECK_DEADLOCK FALSE
