---------------------------- MODULE MCCoordContracts ----------------------------
(* A small instance of CoordContracts: a directory and a file within it. *)
EXTENDS CoordContracts, TLC

CONSTANTS p1, p2, c1, c2, c3, dir, file

Within  == {<<file, dir>>}
Shared  == {<<p1, p2>>, <<p2, p1>>}
AtMostOne(S) == {{}} \cup {{x} : x \in S}
Designs == ((SUBSET Contract) \X {{}}) \cup ({{}} \X AtMostOne(Path))
Effects == AtMostOne(Contract) \X AtMostOne(Path)
Symmetric == Permutations(Contract) \cup Permutations(Peer)
=============================================================================
