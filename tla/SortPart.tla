------------------------------ MODULE SortPart ------------------------------
(***************************************************************************)
(* The sort under names of its own, to stand beside other components: with *)
(* the pure algorithms in a run, with the other containers in the proofs.  *)
(***************************************************************************)
CONSTANTS SortMax, SortValues, SortSmall, SortLevels

VARIABLES input, list, descending, lawful, range, pending, stage, lower, upper

Sorting == INSTANCE Sort WITH
    MaxCount <- SortMax, Values <- SortValues, Small <- SortSmall, PerHalving <- SortLevels,
    a <- list, pc <- stage, i <- lower, j <- upper
ASSUME SortingAssumption == Sorting!SortAssumption

SortSpec == Sorting!Spec

\* Whatever the comparator answers, sort_introsort keeps to its range, holds every element
\* it was given and is logarithmically deep: Sort!Inv.
SortInv == Sorting!Inv

\* With an order for a comparator the array ends sorted: Sort!Sorted.
Sorted == Sorting!Sorted

=============================================================================
