CONSTANTS
    Thread <- MCThread
    MaxDepth <- MCMaxDepth
    MaxActions <- MCMaxActions
    Block = {b1, b2}
    Slot = {s1, s2}
    Nil = Nil
    MaxLen = 2
    Allocator = {"a1", "a2"}
    Empty = "empty"
    Static = "static"
    Header = 3
    LocaleThread = {"t1", "t2", "t3"}
    Locale = {"l1", "l2", "l3", "l4"}
    Null = "null"
    HalfBits = 1
    Operands = {1, 2}
    Kinds = {"load", "store", "exchange", "compare_exchange", "add", "sub", "and", "or", "xor"}
SPECIFICATION MCSpec
INVARIANTS Inv StringsInv LocalesInv
PROPERTIES NewestFirst Indivisible
SYMMETRY MCSymmetry
CHECK_DEADLOCK FALSE
