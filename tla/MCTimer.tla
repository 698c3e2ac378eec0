------------------------------- MODULE MCTimer -------------------------------
(***************************************************************************)
(* Values of the constants of the timer module for TLC.  The wheel has two *)
(* slots in every vector: a vector stands for 1, 2, 4, 8, 16 ticks a slot  *)
(* and the whole wheel for 32.                                             *)
(***************************************************************************)
EXTENDS TimerRefinement, TLC

CONSTANTS e1, e2, e3, n1, n2

Periodic(cd) == [cd |-> cd, first |-> cd, exact |-> FALSE]
Exact(cd)    == [cd |-> cd, first |-> cd, exact |-> TRUE]

(* Expiry times on every vector of the wheel and beyond it.                *)
WheelRequests ==
  {Periodic(1), Exact(3), Periodic(6), Exact(11), Periodic(24),
   [cd |-> 2, first |-> 37, exact |-> FALSE]}

LifeRequests == {Periodic(1), Exact(2), [cd |-> 1, first |-> 0, exact |-> FALSE]}
LifeGaps     == {1}

FewRequests == {Periodic(2), Exact(1)}

OrderRequests == {Periodic(1), Periodic(3), Exact(2)}

NoGaps == {}

(* Every run's constants satisfy what the proofs assume of them.           *)
ASSUME RunsAreTimely == Timely

Symmetry == Permutations({e1, e2, e3}) \cup Permutations({n1, n2})
=============================================================================
