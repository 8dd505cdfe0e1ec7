------------------------------- MODULE MCRing -------------------------------
(***************************************************************************)
(* The ring for TLC.  Behaviours in which every load is fresh, as under    *)
(* sequential consistency, are told apart from those with stale loads: the *)
(* first implement the bounded queue.                                      *)
(***************************************************************************)
EXTENDS Ring

VARIABLE fresh
all == <<fresh, vars>>

Fresh == INSTANCE Ring WITH Stale <- FALSE

MCInit == fresh \in BOOLEAN /\ Init

MCNext ==
    \/ fresh /\ Fresh!Next /\ UNCHANGED fresh
    \/ ~fresh /\ Next /\ UNCHANGED fresh

MCSpec == MCInit /\ [][MCNext]_all /\ Fairness

\* With sequentially consistent memory the ring implements the bounded queue: every
\* answer of try_send and try_receive is justified by a state during the call.
ImplementsQueue ==
    /\ fresh => Queue!Init
    /\ [][fresh => [Queue!Next]_Queue!vars]_all

=============================================================================
