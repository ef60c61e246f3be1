----------------------------- MODULE MCAcpTasks -----------------------------
(* Small instances of AcpTasks for TLC. *)
EXTENDS AcpTasks, TLC

CONSTANTS v1, v2, w1, w2, k1, k2, s1

OneEach     == (w1 :> v1) @@ (w2 :> v2)
SameSession == [k \in Key |-> s1]
=============================================================================
