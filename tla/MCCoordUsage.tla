------------------------------ MODULE MCCoordUsage ------------------------------
(* A small instance of CoordUsage: two requests of one task. *)
EXTENDS CoordUsage, TLC

CONSTANTS p1, p2, p3, m1, m2

Symmetric == Permutations(Peer) \cup Permutations(Message)
=============================================================================
