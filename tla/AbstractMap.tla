---------------------------- MODULE AbstractMap ----------------------------
(***************************************************************************)
(* What a map[K]V promises, whatever its table looks like: a function from *)
(* keys to the value instances it owns.  A call that rebuilds the table,   *)
(* or that fails, changes nothing here.                                    *)
(***************************************************************************)
EXTENDS Naturals

CONSTANTS Key, Instance

VARIABLE contents

Without(gone) == [k \in (DOMAIN contents) \ gone |-> contents[k]]

Insert ==
    \E k \in Key, v \in Instance :
        contents' = [j \in DOMAIN contents \cup {k} |-> IF j = k THEN v ELSE contents[j]]

\* A panicking hook may cut `clear` short: then it has removed some entries.
Remove == \E gone \in SUBSET DOMAIN contents : contents' = Without(gone)

\* The map is dropped, and its clone takes its place.
Clone == contents' \in [DOMAIN contents -> Instance]

Init == contents = <<>>
Next == Insert \/ Remove \/ Clone
Spec == Init /\ [][Next]_contents

=============================================================================
