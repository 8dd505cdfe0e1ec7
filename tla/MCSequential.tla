---------------------------- MODULE MCSequential ----------------------------
(***************************************************************************)
(* The C runtime as one thread meets it, for TLC: an arena; the dispatch   *)
(* with a system heap, an arena that grows from it and a provider of the   *)
(* program that traps; and the pure algorithms, where a state is a point   *)
(* of a sort, a text to convert or a thing to print.  They share no state, *)
(* so a behaviour is one of the arena, of the dispatch or of the           *)
(* algorithms.  The arena's word has 64 addresses, its headers and control *)
(* blocks two bytes, its blocks eight.                                     *)
(***************************************************************************)
EXTENDS Arena, SortPart

\* Places next to each other, so that blocks can touch.
MCPlaces == {4, 12, 20}
MCBuffers == {[at |-> 3, size |-> 4], [at |-> 3, size |-> 6], [at |-> 3, size |-> 14]}
MCSizes == {0, 1, 3, 6, Word - 2}
MCAligns == {0, 4}

MCParent == [heap |-> "none", arena |-> "heap", own |-> "none"]

\* 'A', 7F, 80, 8F, 90, 9F, A0, BF, C1, C2, DF, E0, EC, ED, EF, F0, F4, F5, FF
MCBytes == {65, 127, 128, 143, 144, 159, 160, 191, 193, 194, 223, 224, 236, 237, 239, 240, 244, 245, 255}

\* -1, 0, 7F, 80, 7FF, 800, D7FF, D800, DFFF, E000, FFFF, 10000, 10FFFF, 110000
MCRunes == {-1, 0, 127, 128, 2047, 2048, 55295, 55296, 57343, 57344, 65535, 65536, 1114111, 1114112}

\* 'A', 7FF, 800, D7FF, D800, DBFF, DC00, DFFF, E000, FFFF
MCUnits == {65, 2047, 2048, 55295, 55296, 56319, 56320, 57343, 57344, 65535}

MCBases == {-1, 0, 1, 2, 3, 10, 16, 35, 36, 37}

\* A double of four bits, and narrower floats that are read through it.  In the
\* first 2^-3 is 0.13, the spelling above the nearest; in the last 2^-2 is 0.3.
MCF64 == [p |-> 4, low |-> -7, high |-> 1]
MCFormats == {MCF64, [p |-> 3, low |-> -5, high |-> 1], [p |-> 2, low |-> -4, high |-> 0]}

\* Up to three digits, and the seventeen of a double, at exponents around every
\* change of notation and at the ends of a double's range.
MCDigits == {<<0>>} \cup {d \in UNION {[1 .. n -> {0, 1, 9}] : n \in 1 .. 3} : d[1] # 0}
                \cup {[k \in 1 .. 17 |-> IF k = 1 THEN 1 ELSE d] : d \in {0, 9}}
MCLayouts == {l \in [digits : MCDigits, exp : {-324, -308, -6, -5, -4, -3, -1, 0, 1, 2, 3, 15, 16, 17, 308}] :
                 l.digits[1] = 0 => l.exp = 0}

\* 'a', 0xC3, '"', ''', backslash, newline, return, tab, 1, 1F, 7F
MCTexts == UNION {[1 .. n -> {97, 195, 34, 39, 92, 10, 13, 9, 1, 31, 127}] : n \in 0 .. 3}

-----------------------------------------------------------------------------
CONSTANTS
    Provider, System, Parent, Traps, Selections, Nil, Kinds, Written, MaxSize, MaxDepth, MaxHanded,
    Bytes, Runes, Units, MaxBytes, MaxRunes, MaxUnits,      \* Utf8
    Bits, Bases, Formats, F64, Layouts, Texts               \* Spelling

VARIABLES
    part,
    init, selected, refused, stack, handed, ended,
    form, text, other, subject

Dispatch == INSTANCE AllocDispatch WITH live <- handed, MaxLive <- MaxHanded
Text == INSTANCE Utf8 WITH kind <- form
Spell == INSTANCE Spelling WITH kind <- form

ASSUME DispatchAssumption == Dispatch!ProviderAssumption
ASSUME AlgorithmsAssumption == Text!ValuesAssumption /\ Spell!SpellingAssumption

dispatch == <<init, selected, refused, stack, handed, ended>>
data == <<form, text, other, subject>>
sort == <<input, list, descending, lawful, range, pending, stage, lower, upper>>
all == <<part, vars, dispatch, data, sort>>

NothingToSort == Sorting!Begin(0) /\ lawful /\ ~descending
NothingGiven == form = "none" /\ text = <<>> /\ other = <<>> /\ subject = <<>>

MCInit ==
    /\ Init /\ Dispatch!Init
    /\ \/ part \in {"arena", "dispatch"} /\ NothingToSort /\ NothingGiven
       \/ part = "algorithms" /\ Sorting!Init /\ NothingGiven
       \/ part = "algorithms" /\ NothingToSort /\ Text!Init /\ subject = <<>>
       \/ part = "algorithms" /\ NothingToSort /\ Spell!Init /\ text = <<>> /\ other = <<>>

\* The arena and the dispatch may stop; a sort has a next step until it is done.
MCNext ==
    \/ part = "arena" /\ Next /\ UNCHANGED <<part, dispatch, data, sort>>
    \/ part = "dispatch" /\ Dispatch!Next /\ UNCHANGED <<part, vars, data, sort>>
    \/ part = "algorithms" /\ Sorting!Next /\ UNCHANGED <<part, vars, dispatch, data>>
    \/ part # "algorithms" /\ UNCHANGED all

MCSpec == MCInit /\ [][MCNext]_all

\* A report of loke_rt_v1_alloc_failed, or an Allocator_Error, names the request that
\* failed the operation, or no size once a hook of a container's undo has allocated,
\* and a failure that was handled leaves no note: AllocDispatch!Inv.
DispatchInv == Dispatch!Inv

\* A report of loke_rt_v1_alloc_failed, or an Allocator_Error, names the request that
\* failed the operation: AllocDispatch!FailureNamesRequest.
FailureNamesRequest == Dispatch!FailureNamesRequest

\* The handle an owner keeps leads loke_rt_v1_free to the provider that served it,
\* but for a zero Allocator given before the provider was published:
\* AllocDispatch!OwnersReachProvider.
OwnersReachProvider == Dispatch!OwnersReachProvider

\* The handle an owner keeps leads loke_rt_v1_free to the provider that served it:
\* AllocDispatch!HandlesFindProvider.
HandlesFindProvider == Dispatch!HandlesFindProvider

\* The codec of runtime/text.c and args.c is exact: Utf8!TextExact.
TextExact == Text!TextExact

\* spell_float finds the shortest decimal that reads back: Spelling!ShortestSpelling.
ShortestSpelling == Spell!ShortestSpelling

\* The spellings of runtime/format.c denote their values and fit their buffers:
\* Spelling!SpellingsRead.
SpellingsRead == Spell!SpellingsRead

=============================================================================
