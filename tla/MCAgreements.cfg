SPECIFICATION Spec
CONSTANTS
  p1 = p1
  p2 = p2
  c1 = c1
  c2 = c2
  c3 = c3
  dir = dir
  file = file
  NoPeer = NoPeer
  Peer = {p1, p2}
  Contract = {c1, c2, c3}
  Path = {dir, file}
  Under <- Within
  Nested <- Shared
  Design <- Designs
  Effect <- Effects
  MaxRevision = 4
SYMMETRY Symmetric
CHECK_DEADLOCK FALSE
INVARIANTS
  Acyclic
  Resolvable
  ReservationsDisjoint
  GuardedEffects
PROPERTIES
  ImplementsAgreements
