-------------------------- MODULE MCCoordDispatcher --------------------------
(* Two requests, to one peer or to one each; the older needs the younger. *)
EXTENDS CoordDispatcher, TLC

CONSTANTS d1, d2, p1, p2, m1, m2

ByName   == [p \in Peer |-> IF p = p1 THEN 1 ELSE 2]
InOrder  == (m1 :> 1) @@ (m2 :> 2)
OneEach  == (m1 :> p1) @@ (m2 :> p2)
SamePeer == (m1 :> p1) @@ (m2 :> p1)
FirstNeedsSecond == (m1 :> {m2}) @@ (m2 :> {})
=============================================================================
