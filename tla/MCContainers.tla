---------------------------- MODULE MCContainers ----------------------------
(***************************************************************************)
(* The containers for TLC: a map and a dynamic array, which share no state:*)
(* a behaviour is one of the map or one of the array.  The map has tables  *)
(* of four and eight slots, one slot in four spare.  Keys hash to the last *)
(* slot, two of them perhaps to the slot before, so that probe runs        *)
(* collide, overlap and wrap around; four keys are needed to leave a       *)
(* tombstone in every slot of the small table.                             *)
(***************************************************************************)
EXTENDS HashMap, TLC

MCSeeds == {s \in [Key -> {6, 7}] : Cardinality({k \in Key : s[k] = 6}) \in {0, 2}}

CONSTANTS Elem, Zero, Junk, MinCap, MaxCap, MaxCount, Lengths

VARIABLES part, elems, room, dynBound, dynOwned, dynPhase, copyPanicked, dynAnswer

Dyn == INSTANCE DynamicArray WITH
    Requests <- Lengths, cap <- room, bound <- dynBound, owned <- dynOwned,
    phase <- dynPhase, answer <- dynAnswer
ASSUME ArrayAssumption == Dyn!DynAssumption

\* Sound: MCSeeds is closed under permutations of the keys, and neither container
\* treats one key or element unlike another.
MCSymmetry == Permutations(Key) \cup Permutations(Elem)

array == <<elems, room, dynBound, dynOwned, dynPhase, copyPanicked, dynAnswer>>
all == <<part, vars, array>>

MCInit == part \in {"map", "array"} /\ Init /\ Dyn!Init

MCNext ==
    \/ part = "map" /\ Next /\ UNCHANGED <<part, array>>
    \/ part = "array" /\ Dyn!Next /\ UNCHANGED <<part, vars>>

MCSpec == MCInit /\ [][MCNext]_all

\* The slots below a dynamic array's length hold what it has to drop, whichever drop
\* hook panics: DynamicArray!CountIsAccurate.
CountIsAccurate == Dyn!CountIsAccurate

\* dyn_insert and dyn_append splice in their source as it was before the call:
\* DynamicArray!InsertIsSplice.
InsertIsSplice == Dyn!InsertIsSplice

\* A dynamic array's call that fails changes no element: DynamicArray!RefusalKeepsElements.
RefusalKeepsElements == Dyn!RefusalKeepsElements

\* No element of a dynamic array is dropped twice: DynamicArray!DroppedAtMostOnce.
DroppedAtMostOnce == Dyn!DroppedAtMostOnce

=============================================================================
