----------------------------- MODULE MCRuntime -----------------------------
(***************************************************************************)
(* The state the C runtime keeps for threads, for TLC: the panic frames,   *)
(* the string store, the numeric locale and the 128-bit atomics.  They     *)
(* share no state, so a behaviour is one of one of them.                   *)
(***************************************************************************)
EXTENDS PanicFrames, TLC

MCThread == {"t1", "t2"}
MCMaxDepth == [t1 |-> 5, t2 |-> 2]      \* the second thread calls and panics
MCMaxActions == [t1 |-> 3, t2 |-> 0]

CONSTANTS
    Allocator, Block, Slot, Empty, Static, Nil, MaxLen, Header,     \* StringStore
    LocaleThread, Locale, Null,                                     \* NumericLocale
    HalfBits, Operands, Kinds                                       \* Atomic128

VARIABLES
    part,
    owner, len, at, header, out, freeing, unwinding, running, seen, rel,
    cached, locPc, locCall, held, locAnswer, live, locRunning,
    gate, mem, widePc, wideCall, wideSeen, wideAnswer, before

Strings == INSTANCE StringStore
Locales == INSTANCE NumericLocale WITH
    Thread <- LocaleThread, pc <- locPc, call <- locCall, answer <- locAnswer, running <- locRunning
Wide == INSTANCE Atomic128 WITH
    pc <- widePc, call <- wideCall, seen <- wideSeen, answer <- wideAnswer

ASSUME PartsAssumption ==
    Strings!StoreAssumption /\ Locales!LocaleAssumption /\ Wide!WidthAssumption

\* Sound: StringStore picks any free block and any free handle, and the others have
\* neither.
MCSymmetry == Permutations(Block) \cup Permutations(Slot)

strings == <<owner, len, at, header, out, freeing, unwinding, running, seen, rel>>
locales == <<cached, locPc, locCall, held, locAnswer, live, locRunning>>
wide == <<gate, mem, widePc, wideCall, wideSeen, wideAnswer, before>>
all == <<part, vars, strings, locales, wide>>

MCInit ==
    /\ part \in {"frames", "strings", "locales", "wide"}
    /\ Init /\ Strings!Init /\ Locales!Init /\ Wide!Init

MCNext ==
    \/ part = "frames" /\ Next /\ UNCHANGED <<part, strings, locales, wide>>
    \/ part = "strings" /\ Strings!Next /\ UNCHANGED <<part, vars, locales, wide>>
    \/ part = "locales" /\ Locales!Next /\ UNCHANGED <<part, vars, strings, wide>>
    \/ part = "wide" /\ Wide!Next /\ UNCHANGED <<part, vars, strings, locales>>

MCSpec == MCInit /\ [][MCNext]_all

\* A block of loke_rt_v1_string counts its handles on every thread, goes back whole to
\* the allocator it came from, and only after every use: StringStore!Inv.
StringsInv == Strings!Inv

\* The threads that race in try_c_numeric end with one locale, and leak none:
\* NumericLocale!Inv.
LocalesInv == Locales!Inv

\* Every 128-bit operation takes effect at once: Atomic128!Indivisible.
Indivisible == Wide!Indivisible

=============================================================================
