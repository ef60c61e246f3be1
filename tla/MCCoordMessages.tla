--------------------------- MODULE MCCoordMessages ---------------------------
(* Small instances of CoordMessages for TLC. *)
EXTENDS CoordMessages, TLC

CONSTANTS p1, p2, p3, o1, o2, c1

OneWay   == {<<p1, p2>>}
BothWays == {<<p1, p2>>, <<p2, p1>>}
Ring     == {<<p1, p2>>, <<p2, p3>>, <<p3, p1>>, <<p2, p1>>}

Owners == Permutations(Owner)
=============================================================================
