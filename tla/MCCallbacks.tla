------------------------------ MODULE MCCallbacks ------------------------------
(* A small instance of Callbacks: one subscription and two workers. *)
EXTENDS Callbacks, TLC

CONSTANTS p1, s1, w1, w2

OnePeer    == [s \in Sub |-> p1]
OneAddress == [s \in Sub |-> "a"]
=============================================================================
