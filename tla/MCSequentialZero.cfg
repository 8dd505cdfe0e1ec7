CONSTANTS
    WordBits = 6
    Word = 64
    HeaderBytes = 2
    ControlBytes = 2
    ControlAlign = 2
    DefaultBlock = 8
    MaxLive = 2
    Sizes <- MCSizes
    Aligns <- MCAligns
    Places <- MCPlaces
    Buffers <- MCBuffers
    Provider = {"heap", "arena", "own"}
    System = "heap"
    Parent <- MCParent
    Traps = {"own"}
    Selections = {"own", "arena", "none"}
    Nil = "none"
    Kinds = {"direct", "grow", "box", "copy"}
    Written = {"arena", "none"}
    MaxSize = 2
    MaxHanded = 1
    MaxDepth = 2
    SortMax = 1
    SortValues = {1, 2, 3}
    SortSmall = 2
    SortLevels = {0, 1, 2}
    Bytes <- MCBytes
    Runes <- MCRunes
    Units <- MCUnits
    MaxBytes = 1
    MaxRunes = 1
    MaxUnits = 1
    Bits = 6
    Bases <- MCBases
    Formats <- MCFormats
    F64 <- MCF64
    Layouts <- MCLayouts
    Texts <- MCTexts
SPECIFICATION MCSpec
INVARIANT HandlesFindProvider
