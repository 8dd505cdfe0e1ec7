------------------------------ MODULE MCOnce ------------------------------
(***************************************************************************)
(* The instance of Once for TLC: two threads that use both Onces, also one *)
(* from the other's action, or three that race for one Once.               *)
(***************************************************************************)
EXTENDS Once

MCThread == {"t1", "t2", "t3"}
MCPlans ==
    {[t1 |-> {1, 2}, t2 |-> {1, 2}, t3 |-> {}],
     [t1 |-> {1}, t2 |-> {1}, t3 |-> {1}]}

=============================================================================
