----------------------------- MODULE MCFlowQueue -----------------------------
(* Small instances of FlowQueue for TLC. *)
EXTENDS FlowQueue, TLC

CONSTANTS p1, p2, f1, f2

\* Every process runs the scheduler: processes are alike, and so are flows.
Alike == Permutations(Process) \cup Permutations(Flow)
=============================================================================
