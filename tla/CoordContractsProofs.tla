-------------------------- MODULE CoordContractsProofs --------------------------
(***************************************************************************)
(* Proofs about CoordContracts: the graph of dependencies stays acyclic    *)
(* and resolvable, reservations stay disjoint, a guarded effect keeps what *)
(* it was admitted under, and a stale agreement never comes back.          *)
(***************************************************************************)
EXTENDS CoordContracts, TLAPS

\* What the others rest on: no contract has more revisions than were written.
Numbered == \A c \in Contract : contract[c].revision <= published

IInv == TypeOK /\ Numbered /\ Acyclic /\ Resolvable /\ ReservationsDisjoint
        /\ GuardedEffects
-----------------------------------------------------------------------------
(* Reachability *)

LEMMA DepsTyped ==
  ASSUME TypeOK, NEW c \in Contract
  PROVE  DepIds(c) \subseteq Contract /\ contract[c].deps \subseteq Pin
  <1>1. contract[c].deps \subseteq Pin
    BY DEF TypeOK, Row, NoRow
  <1> QED BY <1>1 DEF DepIds, Pin

\* Reachable is the least closed set around the dependencies.
LEMMA ReachFacts ==
  ASSUME TypeOK, NEW c \in Contract
  PROVE  /\ Reachable(c) \subseteq Contract
         /\ DepIds(c) \subseteq Reachable(c)
         /\ Closed(Reachable(c))
         /\ \A S \in SUBSET Contract :
              DepIds(c) \subseteq S /\ Closed(S) => Reachable(c) \subseteq S
  <1>1. Reachable(c) \subseteq Contract
    BY DEF Reachable
  <1>2. DepIds(c) \subseteq Reachable(c)
    BY DepsTyped DEF Reachable
  <1>3. \A S \in SUBSET Contract :
          DepIds(c) \subseteq S /\ Closed(S) => Reachable(c) \subseteq S
    BY DEF Reachable
  <1>4. ASSUME NEW n \in Reachable(c), NEW d \in DepIds(n)
        PROVE  d \in Reachable(c)
    <2>1. n \in Contract /\ d \in Contract
      BY <1>1, <1>4, DepsTyped
    <2>2. ASSUME NEW S \in SUBSET Contract, DepIds(c) \subseteq S, Closed(S)
          PROVE  d \in S
      <3>1. n \in S
        BY <1>3, <2>2
      <3> QED BY <2>2, <3>1, <1>4 DEF Closed
    <2> QED BY <2>1, <2>2 DEF Reachable
  <1> QED BY <1>1, <1>2, <1>3, <1>4 DEF Closed

\* The same of the next state.
LEMMA ReachFactsNext ==
  ASSUME TypeOK', NEW c \in Contract
  PROVE  /\ Reachable(c)' \subseteq Contract
         /\ DepIds(c)' \subseteq Reachable(c)'
         /\ \A n \in Reachable(c)' : DepIds(n)' \subseteq Reachable(c)'
         /\ \A S \in SUBSET Contract :
              DepIds(c)' \subseteq S /\ (\A n \in S : DepIds(n)' \subseteq S)
                => Reachable(c)' \subseteq S
  <1>0. \A n \in Contract : DepIds(n)' \subseteq Contract
    <2> TAKE n \in Contract
    <2>1. contract'[n].deps \subseteq Pin
      BY DEF TypeOK, Row, NoRow
    <2> QED BY <2>1 DEF DepIds, Pin
  <1>1. Reachable(c)' \subseteq Contract
    BY DEF Reachable
  <1>2. DepIds(c)' \subseteq Reachable(c)'
    BY <1>0 DEF Reachable
  <1>3. \A S \in SUBSET Contract :
          DepIds(c)' \subseteq S /\ (\A n \in S : DepIds(n)' \subseteq S)
            => Reachable(c)' \subseteq S
    BY DEF Reachable, Closed
  <1>4. ASSUME NEW n \in Reachable(c)', NEW d \in DepIds(n)'
        PROVE  d \in Reachable(c)'
    <2>1. n \in Contract /\ d \in Contract
      BY <1>1, <1>4, <1>0
    <2>2. ASSUME NEW S \in SUBSET Contract, DepIds(c)' \subseteq S,
                 \A k \in S : DepIds(k)' \subseteq S
          PROVE  d \in S
      <3>1. n \in S
        BY <1>3, <2>2
      <3> QED BY <2>2, <3>1, <1>4
    <2> QED BY <2>1, <2>2 DEF Reachable, Closed
  <1> QED BY <1>1, <1>2, <1>3, <1>4

\* The only contract a step touches.
Elsewhere(o) == \A n \in Contract \ {o} : contract'[n] = contract[n]

LEMMA SameDeps ==
  ASSUME NEW o, Elsewhere(o), NEW n \in Contract, n # o
  PROVE  DepIds(n)' = DepIds(n)
  BY DEF Elsewhere, DepIds

\* A contract that nothing depends on is not reachable.
LEMMA Unreached ==
  ASSUME TypeOK, NEW o \in Contract, \A n \in Contract : o \notin DepIds(n),
         NEW c \in Contract
  PROVE  o \notin Reachable(c)
  <1> DEFINE S == Reachable(c) \ {o}
  <1>1. S \in SUBSET Contract /\ DepIds(c) \subseteq S /\ Closed(S)
    BY ReachFacts DEF Closed
  <1>2. Reachable(c) \subseteq S
    BY <1>1, ReachFacts
  <1> QED BY <1>2
-----------------------------------------------------------------------------
(* Types *)

\* The pins of a specification that checkContractDependencies accepts.
LEMMA PinsTyped ==
  ASSUME TypeOK, NEW D \in SUBSET Contract, \A pin \in PinsOf(D) : Current(pin)
  PROVE  PinsOf(D) \subseteq Pin
  <1>1. ASSUME NEW d \in D
        PROVE  <<d, contract[d].revision>> \in Pin
    <2> DEFINE pin == <<d, contract[d].revision>>
    <2>1. pin \in PinsOf(D) /\ pin[1] = d
      BY DEF PinsOf
    <2>2. contract[d].state = "live"
      BY <2>1 DEF Current, Live
    <2>3. contract[d] \in Row
      BY <2>2 DEF TypeOK, NoRow
    <2> QED BY <2>3 DEF Row, Pin
  <1> QED BY <1>1 DEF PinsOf

LEMMA LiveRow ==
  ASSUME TypeOK, NEW c \in Contract, Live(c)
  PROVE  contract[c] \in Row
  BY DEF TypeOK, NoRow, Live

LEMMA CreateType ==
  ASSUME TypeOK, NEW p \in Peer, NEW c \in Contract, NEW d \in Design,
         CreateContract(p, c, PinsOf(d[1]), d[2])
  PROVE  TypeOK'
  <1>1. d[1] \in SUBSET Contract /\ d[2] \in SUBSET Path
    BY InputAssumption
  <1>2. PinsOf(d[1]) \subseteq Pin
    BY <1>1, PinsTyped DEF CreateContract, Dependable
  <1>3. 1 \in 1..MaxRevision /\ published' \in 0..MaxRevision
    BY BoundAssumption DEF CreateContract, TypeOK
  <1>4. contract'[c] \in Row
    BY <1>1, <1>2, <1>3 DEF CreateContract, Row, TypeOK
  <1>5. contract' \in [Contract -> Row \cup {NoRow("none"), NoRow("gone")}]
    BY <1>4 DEF CreateContract, TypeOK
  <1>6. \A n \in Contract : acks'[n] # {} => contract'[n].state = "live"
    BY <1>4 DEF CreateContract, TypeOK, Row
  <1> QED BY <1>3, <1>5, <1>6 DEF CreateContract, TypeOK

LEMMA UpdateType ==
  ASSUME TypeOK, Numbered, NEW p \in Peer, NEW c \in Contract, NEW d \in Design,
         UpdateContract(p, c, PinsOf(d[1]), d[2])
  PROVE  TypeOK'
  <1>1. d[1] \in SUBSET Contract /\ d[2] \in SUBSET Path
    BY InputAssumption
  <1>2. PinsOf(d[1]) \subseteq Pin
    BY <1>1, PinsTyped DEF UpdateContract, Dependable
  <1>3. contract[c] \in Row
    BY LiveRow DEF UpdateContract, Owns
  <1>4. contract[c].revision + 1 \in 1..MaxRevision /\ published' \in 0..MaxRevision
    BY <1>3, BoundAssumption DEF UpdateContract, TypeOK, Numbered, Row
  <1>5. contract'[c] = [contract[c] EXCEPT !.revision = contract[c].revision + 1,
                          !.deps = PinsOf(d[1]), !.paths = d[2]]
    BY DEF UpdateContract, Revised, TypeOK
  <1>6. contract'[c] \in Row
    BY <1>1, <1>2, <1>3, <1>4, <1>5 DEF Row
  <1>7. contract' \in [Contract -> Row \cup {NoRow("none"), NoRow("gone")}]
    <2>1. \A n \in Contract \ {c} : contract'[n] = contract[n]
      BY DEF UpdateContract, TypeOK
    <2>2. contract' = [n \in Contract |-> contract'[n]]
      BY DEF UpdateContract, TypeOK
    <2> QED BY <1>6, <2>1, <2>2 DEF TypeOK
  <1>8. acks' \in [Contract -> SUBSET Peer]
    BY DEF UpdateContract, TypeOK
  <1>9. \A n \in Contract : acks'[n] # {} => contract'[n].state = "live"
    BY DEF UpdateContract, TypeOK
  <1> QED BY <1>4, <1>7, <1>8, <1>9 DEF UpdateContract, TypeOK

LEMMA TypeInit == Init => TypeOK /\ Numbered
  BY BoundAssumption DEF Init, TypeOK, Numbered, NoRow, NoGuard, Guard

LEMMA TypeStep ==
  ASSUME TypeOK, Numbered, [Next]_vars
  PROVE  TypeOK'
  <1>1. ASSUME NEW p \in Peer, NEW c \in Contract, NEW d \in Design,
               Publishes(p, c, PinsOf(d[1]), d[2])
        PROVE  TypeOK'
    BY <1>1, CreateType, UpdateType DEF Publishes
  <1>2. ASSUME NEW p \in Peer, NEW c \in Contract, DeleteContract(p, c)
        PROVE  TypeOK'
    <2>1. contract' \in [Contract -> Row \cup {NoRow("none"), NoRow("gone")}]
      BY <1>2 DEF DeleteContract, Deleted, TypeOK
    <2>2. acks' \in [Contract -> SUBSET Peer]
      BY <1>2 DEF DeleteContract, TypeOK
    <2>3. \A n \in Contract : acks'[n] # {} => contract'[n].state = "live"
      BY <1>2 DEF DeleteContract, TypeOK
    <2> QED BY <1>2, <2>1, <2>2, <2>3 DEF DeleteContract, TypeOK
  <1>3. ASSUME NEW p \in Peer, NEW c \in Contract, AcknowledgeContract(p, c)
        PROVE  TypeOK'
    BY <1>3 DEF AcknowledgeContract, Live, TypeOK
  <1>4. ASSUME NEW p \in Peer, DisablePeer(p)
        PROVE  TypeOK'
    BY <1>4 DEF DisablePeer, TypeOK
  <1>5. ASSUME NEW p \in Peer, NEW e \in Effect, BeginEffect(p, PinsOf(e[1]), e[2])
        PROVE  TypeOK'
    <2>1. e[1] \in SUBSET Contract /\ e[2] \in SUBSET Path
      BY InputAssumption
    <2>2. PinsOf(e[1]) \subseteq Pin
      BY <1>5, <2>1, PinsTyped DEF BeginEffect, Ready, Fatal
    <2> QED BY <1>5, <2>1, <2>2 DEF BeginEffect, Guard, TypeOK
  <1>6. CASE EndEffect
    BY <1>6 DEF EndEffect, NoGuard, Guard, TypeOK
  <1>7. CASE UNCHANGED vars
    BY <1>7 DEF vars, TypeOK
  <1> QED BY <1>1, <1>2, <1>3, <1>4, <1>5, <1>6, <1>7 DEF Next

LEMMA NumberedStep ==
  ASSUME TypeOK, Numbered, [Next]_vars
  PROVE  Numbered'
  <1>1. published \in Int /\ \A c \in Contract : contract[c].revision \in Int
    BY BoundAssumption DEF TypeOK, Row, NoRow
  <1>2. ASSUME NEW p \in Peer, NEW c \in Contract, NEW d \in Design,
               Publishes(p, c, PinsOf(d[1]), d[2])
        PROVE  Numbered'
    <2>1. CASE CreateContract(p, c, PinsOf(d[1]), d[2])
      <3>1. published >= 0
        BY BoundAssumption DEF TypeOK
      <3> QED BY <1>1, <2>1, <3>1 DEF CreateContract, TypeOK, Numbered
    <2>2. CASE UpdateContract(p, c, PinsOf(d[1]), d[2])
      BY <1>1, <2>2 DEF UpdateContract, Revised, TypeOK, Numbered
    <2> QED BY <1>2, <2>1, <2>2 DEF Publishes
  <1>3. ASSUME NEW p \in Peer, NEW c \in Contract, DeleteContract(p, c)
        PROVE  Numbered'
    <2>1. published >= 0
      BY BoundAssumption DEF TypeOK
    <2> QED BY <1>3, <2>1 DEF DeleteContract, Deleted, NoRow, TypeOK, Numbered
  <1>4. CASE UNCHANGED <<contract, published>>
    BY <1>4 DEF Numbered
  <1> QED BY <1>2, <1>3, <1>4 DEF Next, AcknowledgeContract, DisablePeer, BeginEffect,
        EndEffect, vars
-----------------------------------------------------------------------------
(* The graph *)

\* A specification that checkContractDependencies accepts closes no cycle.
LEMMA PublishAcyclic ==
  ASSUME TypeOK, TypeOK', Acyclic, NEW o \in Contract, NEW deps \in SUBSET Pin,
         Elsewhere(o), contract'[o].deps = deps, Dependable(o, deps)
  PROVE  Acyclic'
  <1> DEFINE D == {pin[1] : pin \in deps}
             U == D \cup UNION {Reachable(d) : d \in D}
  <1>1. D \subseteq Contract /\ DepIds(o)' = D
    BY DEF Pin, DepIds
  <1>2. U \in SUBSET Contract /\ D \subseteq U
    BY <1>1, ReachFacts
  <1>3. o \notin U
    BY DEF Dependable
  <1>4. Closed(U)
    <2> SUFFICES ASSUME NEW n \in U, NEW x \in DepIds(n) PROVE x \in U
      BY DEF Closed
    <2>1. CASE n \in D
      <3>1. x \in Reachable(n)
        BY <2>1, <1>1, ReachFacts
      <3> QED BY <2>1, <3>1
    <2>2. CASE n \notin D
      <3>1. PICK d \in D : n \in Reachable(d)
        BY <2>2
      <3>2. x \in Reachable(d)
        BY <1>1, <3>1, ReachFacts DEF Closed
      <3> QED BY <3>2
    <2> QED BY <2>1, <2>2
  <1>5. \A n \in U : DepIds(n)' \subseteq U
    BY <1>2, <1>3, <1>4, SameDeps DEF Closed
  <1> HIDE DEF U, D
  <1>6. o \notin Reachable(o)'
    <2>1. Reachable(o)' \subseteq U
      BY <1>1, <1>2, <1>5, ReachFactsNext
    <2> QED BY <2>1, <1>3
  <1>7. ASSUME NEW c \in Contract, c # o PROVE c \notin Reachable(c)'
    <2> DEFINE S == Reachable(c) \cup U
    <2>0. DepIds(c)' = DepIds(c)
      BY <1>7, SameDeps
    <2>1. S \in SUBSET Contract /\ DepIds(c)' \subseteq S
      BY <1>2, <2>0, ReachFacts
    <2>2. ASSUME NEW n \in S PROVE DepIds(n)' \subseteq S
      <3>1. CASE n \in U
        BY <3>1, <1>5
      <3>2. CASE n \in Reachable(c) /\ n = o
        BY <3>2, <1>1, <1>2
      <3>3. CASE n \in Reachable(c) /\ n # o
        <4>1. DepIds(n)' = DepIds(n) /\ DepIds(n) \subseteq Reachable(c)
          BY <2>1, <3>3, SameDeps, ReachFacts DEF Closed
        <4> QED BY <4>1
      <3> QED BY <3>1, <3>2, <3>3
    <2>3. Reachable(c)' \subseteq S
      BY <2>1, <2>2, ReachFactsNext
    <2>4. CASE c \notin U
      BY <2>3, <2>4 DEF Acyclic
    <2>5. CASE c \in U
      <3>1. Reachable(c) \subseteq U
        BY <2>5, <1>2, <1>4, ReachFacts DEF Closed
      <3>2. \A n \in Reachable(c) : DepIds(n)' \subseteq Reachable(c)
        BY <1>2, <1>3, <3>1, SameDeps, ReachFacts DEF Closed
      <3>3. Reachable(c)' \subseteq Reachable(c)
        <4>1. Reachable(c) \in SUBSET Contract /\ DepIds(c)' \subseteq Reachable(c)
          BY <2>0, ReachFacts
        <4> QED BY <4>1, <3>2, ReachFactsNext
      <3> QED BY <3>3 DEF Acyclic
    <2> QED BY <2>4, <2>5
  <1> QED BY <1>6, <1>7 DEF Acyclic

\* Dropping dependencies closes none either.
LEMMA DeleteAcyclic ==
  ASSUME TypeOK, TypeOK', Acyclic, \A n \in Contract : DepIds(n)' \subseteq DepIds(n)
  PROVE  Acyclic'
  <1> SUFFICES ASSUME NEW c \in Contract PROVE c \notin Reachable(c)'
    BY DEF Acyclic
  <1>1. Reachable(c) \in SUBSET Contract /\ DepIds(c)' \subseteq Reachable(c)
    BY ReachFacts
  <1>2. \A n \in Reachable(c) : DepIds(n)' \subseteq Reachable(c)
    BY <1>1, ReachFacts DEF Closed
  <1>3. Reachable(c)' \subseteq Reachable(c)
    BY <1>1, <1>2, ReachFactsNext
  <1> QED BY <1>3 DEF Acyclic

\* What the operations do to the rows of contracts.
LEMMA PublishShape ==
  ASSUME TypeOK, NEW p \in Peer, NEW o \in Contract, NEW d \in Design,
         Publishes(p, o, PinsOf(d[1]), d[2])
  PROVE  /\ Elsewhere(o) /\ guard = NoGuard /\ guard' = guard
         /\ PinsOf(d[1]) \in SUBSET Pin /\ Dependable(o, PinsOf(d[1]))
         /\ Reservable(o, d[2])
         /\ contract'[o].deps = PinsOf(d[1]) /\ contract'[o].paths = d[2]
         /\ Live(o)'
         /\ \/ contract[o] = NoRow("none")
            \/ Live(o) /\ contract'[o].revision = contract[o].revision + 1
  <1>1. d[1] \in SUBSET Contract
    BY InputAssumption
  <1>2. Dependable(o, PinsOf(d[1])) /\ Reservable(o, d[2]) /\ guard = NoGuard /\ guard' = guard
    BY DEF Publishes, CreateContract, UpdateContract, Acting
  <1>3. PinsOf(d[1]) \in SUBSET Pin
    BY <1>1, <1>2, PinsTyped DEF Dependable
  <1>4. CASE CreateContract(p, o, PinsOf(d[1]), d[2])
    <2>1. contract[o] = NoRow("none")
      BY <1>4 DEF CreateContract, TypeOK, Row, NoRow
    <2> QED BY <1>2, <1>3, <1>4, <2>1 DEF CreateContract, Elsewhere, Live, TypeOK
  <1>5. CASE UpdateContract(p, o, PinsOf(d[1]), d[2])
    <2>1. contract[o] \in Row
      BY <1>5, LiveRow DEF UpdateContract, Owns
    <2>2. contract'[o] = [contract[o] EXCEPT !.revision = contract[o].revision + 1,
                            !.deps = PinsOf(d[1]), !.paths = d[2]]
      BY <1>5 DEF UpdateContract, Revised, TypeOK
    <2>3. contract'[o].deps = PinsOf(d[1]) /\ contract'[o].paths = d[2]
          /\ contract'[o].state = contract[o].state
          /\ contract'[o].revision = contract[o].revision + 1
      BY <2>1, <2>2 DEF Row
    <2>4. Elsewhere(o)
      BY <1>5 DEF UpdateContract, Elsewhere, TypeOK
    <2> QED BY <1>2, <1>3, <1>5, <2>3, <2>4 DEF UpdateContract, Owns, Live
  <1> QED BY <1>4, <1>5 DEF Publishes

LEMMA DeleteShape ==
  ASSUME TypeOK, NEW p \in Peer, NEW o \in Contract, DeleteContract(p, o)
  PROVE  /\ Elsewhere(o) /\ guard = NoGuard /\ guard' = guard
         /\ \A n \in Contract : o \notin DepIds(n)
         /\ contract'[o] = NoRow("gone")
  BY DEF DeleteContract, Deleted, Dependents, Acting, Elsewhere, TypeOK
-----------------------------------------------------------------------------
(* The invariants *)

\* Steps that leave the contracts alone.
LEMMA SameGraph ==
  ASSUME UNCHANGED contract
  PROVE  /\ Acyclic => Acyclic'
         /\ Resolvable => Resolvable'
         /\ ReservationsDisjoint => ReservationsDisjoint'
         /\ \A pin \in Pin : Fatal(pin)' = Fatal(pin)
         /\ \A p : Foreign(p)' = Foreign(p)
         /\ \A p : Disjoint(p)' = Disjoint(p)
  BY DEF Acyclic, Resolvable, ReservationsDisjoint, Fatal, Foreign, Disjoint, Tree,
         Reachable, Closed, DepIds, Current, Live

LEMMA ResolvableStep ==
  ASSUME TypeOK, TypeOK', Resolvable, [Next]_vars
  PROVE  Resolvable'
  <1>1. ASSUME NEW p \in Peer, NEW o \in Contract, NEW d \in Design,
               Publishes(p, o, PinsOf(d[1]), d[2])
        PROVE  Resolvable'
    <2> SUFFICES ASSUME NEW c \in Contract, NEW pin \in contract'[c].deps
                 PROVE  Live(pin[1])' /\ pin[2] <= contract'[pin[1]].revision
      BY DEF Resolvable
    <2>1. pin \in Pin
      BY DEF TypeOK, Row, NoRow
    <2>2. Live(pin[1]) /\ pin[2] <= contract[pin[1]].revision
      <3>1. CASE c = o
        <4>1. Current(pin)
          BY <1>1, <3>1, PublishShape DEF Dependable
        <4> QED BY <4>1, <2>1 DEF Current, Pin
      <3>2. CASE c # o
        BY <1>1, <3>2, PublishShape DEF Elsewhere, Resolvable
      <3> QED BY <3>1, <3>2
    <2>3. pin[1] \in Contract /\ pin[2] \in Int
      BY <2>1 DEF Pin
    <2>4. contract[pin[1]].revision \in Int
      BY <2>2, <2>3, LiveRow DEF Row
    <2>5. CASE pin[1] = o
      BY <1>1, <2>2, <2>3, <2>4, <2>5, PublishShape DEF NoRow, Live
    <2>6. CASE pin[1] # o
      BY <1>1, <2>2, <2>3, <2>6, PublishShape DEF Elsewhere, Live
    <2> QED BY <2>5, <2>6
  <1>2. ASSUME NEW p \in Peer, NEW o \in Contract, DeleteContract(p, o)
        PROVE  Resolvable'
    <2> SUFFICES ASSUME NEW c \in Contract, NEW pin \in contract'[c].deps
                 PROVE  Live(pin[1])' /\ pin[2] <= contract'[pin[1]].revision
      BY DEF Resolvable
    <2>1. c # o /\ pin \in contract[c].deps
      BY <1>2, DeleteShape DEF Elsewhere, NoRow
    <2>2. pin[1] # o /\ pin[1] \in Contract
      BY <1>2, <2>1, DeleteShape, DepsTyped DEF DepIds
    <2> QED BY <1>2, <2>1, <2>2, DeleteShape DEF Elsewhere, Resolvable, Live
  <1>3. CASE UNCHANGED contract
    BY <1>3, SameGraph
  <1> QED BY <1>1, <1>2, <1>3 DEF Next, AcknowledgeContract, DisablePeer, BeginEffect,
        EndEffect, vars

LEMMA AcyclicStep ==
  ASSUME TypeOK, TypeOK', Acyclic, [Next]_vars
  PROVE  Acyclic'
  <1>1. ASSUME NEW p \in Peer, NEW o \in Contract, NEW d \in Design,
               Publishes(p, o, PinsOf(d[1]), d[2])
        PROVE  Acyclic'
    BY <1>1, PublishShape, PublishAcyclic
  <1>2. ASSUME NEW p \in Peer, NEW o \in Contract, DeleteContract(p, o)
        PROVE  Acyclic'
    <2>1. DepIds(o)' = {}
      BY <1>2, DeleteShape DEF DepIds, NoRow
    <2>2. \A n \in Contract : DepIds(n)' \subseteq DepIds(n)
      BY <1>2, <2>1, DeleteShape, SameDeps
    <2> QED BY <2>2, DeleteAcyclic
  <1>3. CASE UNCHANGED contract
    BY <1>3, SameGraph
  <1> QED BY <1>1, <1>2, <1>3 DEF Next, AcknowledgeContract, DisablePeer, BeginEffect,
        EndEffect, vars

LEMMA ReservationsStep ==
  ASSUME TypeOK, ReservationsDisjoint, [Next]_vars
  PROVE  ReservationsDisjoint'
  <1>1. \A a, b : Overlap(a, b) <=> Overlap(b, a)
    BY DEF Overlap
  <1>2. ASSUME NEW o \in Contract, Elsewhere(o), Reservable(o, contract'[o].paths)
        PROVE  ReservationsDisjoint'
    BY <1>1, <1>2 DEF ReservationsDisjoint, Elsewhere, Reservable, Overlap
  <1>3. ASSUME NEW p \in Peer, NEW o \in Contract, NEW d \in Design,
               Publishes(p, o, PinsOf(d[1]), d[2])
        PROVE  ReservationsDisjoint'
    BY <1>2, <1>3, PublishShape
  <1>4. ASSUME NEW p \in Peer, NEW o \in Contract, DeleteContract(p, o)
        PROVE  ReservationsDisjoint'
    <2>1. Reservable(o, contract'[o].paths)
      BY <1>4, DeleteShape DEF Reservable, NoRow
    <2> QED BY <1>2, <1>4, <2>1, DeleteShape
  <1>5. CASE UNCHANGED contract
    BY <1>5, SameGraph
  <1> QED BY <1>3, <1>4, <1>5 DEF Next, AcknowledgeContract, DisablePeer, BeginEffect,
        EndEffect, vars

LEMMA GuardStep ==
  ASSUME TypeOK, GuardedEffects, [Next]_vars
  PROVE  GuardedEffects'
  <1>1. ASSUME guard' = NoGuard PROVE GuardedEffects'
    BY <1>1 DEF GuardedEffects, NoGuard
  <1>2. ASSUME UNCHANGED <<contract, guard>>, enabled' = enabled \/ guard.peer \in enabled'
        PROVE  GuardedEffects'
    <2>1. \A pin \in guard.pins : Fatal(pin)' = Fatal(pin)
      BY <1>2, SameGraph DEF TypeOK, Guard
    <2>2. Foreign(guard.peer)' = Foreign(guard.peer) /\ Disjoint(guard.peer)' = Disjoint(guard.peer)
      BY <1>2 DEF Foreign, Disjoint
    <2> QED BY <1>2, <2>1, <2>2 DEF GuardedEffects, Overlap
  <1>3. ASSUME NEW p \in Peer, NEW o \in Contract, NEW d \in Design,
               Publishes(p, o, PinsOf(d[1]), d[2])
        PROVE  GuardedEffects'
    BY <1>1, <1>3, PublishShape
  <1>4. ASSUME NEW p \in Peer, NEW o \in Contract, DeleteContract(p, o)
        PROVE  GuardedEffects'
    BY <1>1, <1>4, DeleteShape
  <1>5. ASSUME NEW p \in Peer, NEW o \in Contract, AcknowledgeContract(p, o)
        PROVE  GuardedEffects'
    BY <1>2, <1>5 DEF AcknowledgeContract
  <1>6. ASSUME NEW p \in Peer, DisablePeer(p)
        PROVE  GuardedEffects'
    <2>1. CASE guard.peer = NoPeer
      BY <1>6, <2>1 DEF DisablePeer, GuardedEffects
    <2>2. CASE guard.peer # NoPeer
      BY <1>2, <1>6, <2>2 DEF DisablePeer, GuardedEffects
    <2> QED BY <2>1, <2>2
  <1>7. ASSUME NEW p \in Peer, NEW e \in Effect, BeginEffect(p, PinsOf(e[1]), e[2])
        PROVE  GuardedEffects'
    <2>1. p \in enabled' /\ guard'.peer = p /\ guard'.paths = e[2]
          /\ guard'.pins = PinsOf(e[1]) /\ UNCHANGED contract
      BY <1>7 DEF BeginEffect, Acting
    <2>2. ASSUME NEW pin \in PinsOf(e[1]) PROVE ~ Fatal(pin)'
      <3>1. Ready(p, pin)
        BY <1>7, <2>2 DEF BeginEffect
      <3>2. PinsOf(e[1]) \subseteq Pin
        BY <1>7, InputAssumption, PinsTyped DEF BeginEffect, Ready, Fatal
      <3> QED BY <2>1, <3>1, <3>2, SameGraph DEF Ready
    <2>3. CASE e[2] = {}
      <3>1. Disjoint(p)'
        BY <1>7, <2>1, <2>3 DEF BeginEffect, Disjoint
      <3> QED BY <2>1, <2>2, <2>3, <3>1 DEF GuardedEffects
    <2>4. CASE e[2] # {}
      <3>1. Accessible(p, e[2]) /\ Foreign(p)' = Foreign(p)
        BY <1>7, <2>1, <2>4 DEF BeginEffect, Foreign
      <3>2. \A a \in e[2], b \in Foreign(p)' : ~ Overlap(a, b)
        BY <3>1 DEF Accessible
      <3> QED BY <2>1, <2>2, <2>4, <3>2 DEF GuardedEffects, Overlap
    <2> QED BY <2>3, <2>4
  <1>8. CASE EndEffect
    BY <1>1, <1>8 DEF EndEffect
  <1>9. CASE UNCHANGED vars
    BY <1>2, <1>9 DEF vars
  <1> QED BY <1>3, <1>4, <1>5, <1>6, <1>7, <1>8, <1>9 DEF Next
-----------------------------------------------------------------------------
(* Agreements *)

\* A tree that the touched contract is outside of is still there afterwards.
LEMMA TreeOutside ==
  ASSUME TypeOK, TypeOK', NEW o \in Contract, Elsewhere(o),
         NEW c \in Contract, o \notin Tree(c)
  PROVE  Tree(c) \subseteq Tree(c)'
  <1> DEFINE W == Reachable(c) \cap Reachable(c)'
  <1>1. c # o /\ o \notin Reachable(c)
    BY DEF Tree
  <1>2. DepIds(c)' = DepIds(c)
    BY <1>1, SameDeps
  <1>3. W \in SUBSET Contract /\ DepIds(c) \subseteq W
    BY <1>2, ReachFacts, ReachFactsNext
  <1>4. ASSUME NEW n \in W PROVE DepIds(n) \subseteq W
    <2>1. n \in Contract /\ n # o /\ DepIds(n)' = DepIds(n)
      BY <1>1, <1>3, <1>4, SameDeps
    <2>2. DepIds(n) \subseteq Reachable(c)
      BY <1>4, ReachFacts DEF Closed
    <2>3. DepIds(n)' \subseteq Reachable(c)'
      BY <1>4, ReachFactsNext
    <2> QED BY <2>1, <2>2, <2>3
  <1>5. Reachable(c) \subseteq W
    BY <1>3, <1>4, ReachFacts DEF Closed
  <1> QED BY <1>5 DEF Tree

\* Whatever else a revision of o changes, a tree that had o in it still has a
\* contract that pins o as it was.
LEMMA TreeInside ==
  ASSUME TypeOK, TypeOK', NEW o \in Contract, Elsewhere(o), o \notin DepIds(o)',
         NEW c \in Contract, c # o, o \in Reachable(c)
  PROVE  \E n \in Tree(c)' : n \in Contract /\ n # o /\ o \in DepIds(n)
  <1> SUFFICES ASSUME \A n \in Tree(c)' : n # o => o \notin DepIds(n)' PROVE FALSE
    <2>1. Tree(c)' \subseteq Contract
      BY ReachFactsNext DEF Tree
    <2> QED BY <2>1, SameDeps
  <1> DEFINE W == Reachable(c)' \ {o}
  <1>1. \A n \in Tree(c)' : o \notin DepIds(n)'
    OBVIOUS
  <1>2. W \in SUBSET Contract
    BY ReachFactsNext
  <1>3. DepIds(c)' \subseteq W
    BY <1>1, ReachFactsNext DEF Tree
  <1>4. \A n \in W : DepIds(n)' \subseteq W
    BY <1>1, ReachFactsNext DEF Tree
  <1>5. DepIds(c) \subseteq W /\ \A n \in W : DepIds(n) \subseteq W
    BY <1>2, <1>3, <1>4, SameDeps
  <1>6. Reachable(c) \subseteq W
    BY <1>2, <1>5, ReachFacts DEF Closed
  <1> QED BY <1>6

\* A pin whose tree has gone stale elsewhere stays so when o is touched.
LEMMA StaleOutside ==
  ASSUME TypeOK, TypeOK', NEW o \in Contract, Elsewhere(o),
         NEW pin \in Pin, o \notin Tree(pin[1]), Fatal(pin)
  PROVE  Fatal(pin)'
  <1>1. pin[1] \in Contract /\ pin[1] # o
    BY DEF Pin, Tree
  <1>2. CASE ~ Current(pin)
    BY <1>1, <1>2 DEF Elsewhere, Current, Live, Fatal
  <1>3. ASSUME NEW n \in Tree(pin[1]), NEW dep \in contract[n].deps, ~ Current(dep)
        PROVE  Fatal(pin)'
    <2>1. n \in Contract /\ n # o /\ n \in Tree(pin[1])'
      BY <1>1, <1>3, ReachFacts, TreeOutside DEF Tree
    <2>2. dep[1] \in DepIds(n) /\ dep[1] \in Contract
      BY <1>3, <2>1, DepsTyped DEF DepIds
    <2>3. dep[1] # o
      <3>1. DepIds(n) \subseteq Reachable(pin[1])
        BY <1>1, <1>3, ReachFacts DEF Tree, Closed
      <3> QED BY <2>2, <3>1 DEF Tree
    <2>4. dep \in contract'[n].deps /\ ~ Current(dep)'
      BY <1>3, <2>1, <2>2, <2>3 DEF Elsewhere, Current, Live
    <2> QED BY <2>1, <2>4 DEF Fatal
  <1> QED BY <1>2, <1>3 DEF Fatal

\* Nothing depends on a contract that is not there.
LEMMA UnbornUnreached ==
  ASSUME TypeOK, Resolvable, NEW o \in Contract, ~ Live(o), NEW c \in Contract, Live(c)
  PROVE  o \notin Tree(c)
  <1>1. \A n \in Contract : o \notin DepIds(n)
    BY DEF Resolvable, DepIds
  <1> QED BY <1>1, Unreached DEF Tree

\* A revision makes every pin stale that is on it or rests on it.
LEMMA RevisedStale ==
  ASSUME TypeOK, TypeOK', Resolvable, NEW o \in Contract, Elsewhere(o),
         o \notin DepIds(o)', Live(o), contract'[o].revision = contract[o].revision + 1,
         NEW pin \in Pin, Current(pin), o \in Tree(pin[1])
  PROVE  Fatal(pin)'
  <1>1. pin[1] \in Contract /\ pin[2] \in Int
    BY DEF Pin
  <1>2. contract[o].revision \in Int
    BY LiveRow DEF Row
  <1>3. CASE pin[1] = o
    BY <1>1, <1>2, <1>3 DEF Current, Fatal
  <1>4. CASE pin[1] # o
    <2>1. o \in Reachable(pin[1])
      BY <1>4 DEF Tree
    <2>2. PICK n \in Tree(pin[1])' : n \in Contract /\ n # o /\ o \in DepIds(n)
      BY <1>1, <1>4, <2>1, TreeInside
    <2>3. PICK dep \in contract[n].deps : dep[1] = o
      BY <2>2 DEF DepIds
    <2>4. dep[2] \in Int /\ dep[2] <= contract[o].revision
      BY <2>2, <2>3, DepsTyped DEF Pin, Resolvable
    <2>5. dep \in contract'[n].deps /\ ~ Current(dep)'
      BY <1>2, <2>2, <2>3, <2>4 DEF Elsewhere, Current
    <2> QED BY <2>2, <2>5 DEF Fatal
  <1> QED BY <1>3, <1>4

LEMMA StaleStays ==
  ASSUME TypeOK, TypeOK', Resolvable, [Next]_vars, NEW pin \in Stale
  PROVE  pin \in Stale'
  <1>1. pin \in Pin /\ pin[1] \in Contract /\ pin[2] \in Int /\ Existed(pin) /\ Fatal(pin)
    BY DEF Stale, Pin
  <1>2. ASSUME NEW p \in Peer, NEW o \in Contract, NEW d \in Design,
               Publishes(p, o, PinsOf(d[1]), d[2])
        PROVE  Existed(pin)' /\ Fatal(pin)'
    <2>0. Elsewhere(o)
      BY <1>2, PublishShape
    <2>1. Live(o) => contract[o].revision \in Int
      BY LiveRow DEF Row
    <2>2. pin[1] = o => Live(o) /\ contract'[o].revision = contract[o].revision + 1
      BY <1>1, <1>2, PublishShape DEF Existed, NoRow, Live
    <2>3. Existed(pin)'
      <3>1. CASE pin[1] = o
        BY <1>1, <1>2, <2>1, <2>2, <3>1, PublishShape DEF Existed, Live
      <3>2. CASE pin[1] # o
        BY <1>1, <1>2, <3>2, PublishShape DEF Existed, Live, Elsewhere
      <3> QED BY <3>1, <3>2
    <2>4. CASE o \notin Tree(pin[1])
      BY <1>1, <2>0, <2>3, <2>4, StaleOutside
    <2>5. CASE o \in Tree(pin[1]) /\ Current(pin)
      <3>1. Live(o)
        BY <1>1, <2>5, UnbornUnreached DEF Current
      <3>2. contract'[o].revision = contract[o].revision + 1
        BY <1>2, <3>1, PublishShape DEF NoRow, Live
      <3>3. o \notin DepIds(o)'
        BY <1>2, PublishShape DEF Dependable, DepIds
      <3> QED BY <1>1, <2>0, <2>3, <2>5, <3>1, <3>2, <3>3, RevisedStale
    <2>6. CASE ~ Current(pin)
      <3>1. CASE pin[1] = o
        <4>1. pin[2] <= contract[o].revision
          BY <1>1, <2>2, <3>1 DEF Existed, Live
        <4>2. contract'[o].revision # pin[2]
          BY <1>1, <2>1, <2>2, <3>1, <4>1
        <4>3. ~ Current(pin)'
          BY <3>1, <4>2 DEF Current
        <4> QED BY <2>3, <4>3 DEF Fatal
      <3>2. CASE pin[1] # o
        <4>1. contract'[pin[1]] = contract[pin[1]]
          BY <1>1, <2>0, <3>2 DEF Elsewhere
        <4>2. ~ Current(pin)'
          BY <2>6, <4>1 DEF Current, Live
        <4> QED BY <2>3, <4>2 DEF Fatal
      <3> QED BY <3>1, <3>2
    <2> QED BY <2>3, <2>4, <2>5, <2>6
  <1>3. ASSUME NEW p \in Peer, NEW o \in Contract, DeleteContract(p, o)
        PROVE  Existed(pin)' /\ Fatal(pin)'
    <2>1. o \notin Reachable(pin[1])
      BY <1>1, <1>3, DeleteShape, Unreached
    <2>2. CASE pin[1] = o
      BY <1>3, <2>2, DeleteShape DEF Existed, NoRow, Fatal, Current, Live
    <2>3. CASE pin[1] # o
      <3>1. Existed(pin)'
        BY <1>1, <1>3, <2>3, DeleteShape DEF Existed, Live, Elsewhere
      <3>2. o \notin Tree(pin[1])
        BY <2>1, <2>3 DEF Tree
      <3> QED BY <1>1, <1>3, <3>1, <3>2, DeleteShape, StaleOutside
    <2> QED BY <2>2, <2>3
  <1>4. CASE UNCHANGED contract
    <2>1. Existed(pin)' /\ Fatal(pin)'
      BY <1>1, <1>4, SameGraph DEF Existed, Live
    <2> QED BY <1>1, <2>1 DEF Stale
  <1>5. Existed(pin)' /\ Fatal(pin)' => pin \in Stale'
    BY <1>1 DEF Stale
  <1> QED BY <1>2, <1>3, <1>4, <1>5 DEF Next, AcknowledgeContract, DisablePeer,
        BeginEffect, EndEffect, vars

\* Nobody agrees to a stale pin.
LEMMA AgreedFresh ==
  ASSUME TypeOK'
  PROVE  Agreed' \subseteq Peer \X (Pin \ Stale') /\ Stale' \subseteq Pin
  <1>1. ASSUME NEW a \in Agreed' PROVE a \in Peer \X (Pin \ Stale')
    <2>1. a \in Peer \X PinsOf({c \in Contract : Live(c)})' /\ Ready(a[1], a[2])'
      BY <1>1 DEF Agreed
    <2>2. PICK p \in Peer, pin \in PinsOf({c \in Contract : Live(c)})' : a = <<p, pin>>
      BY <2>1
    <2>3. PICK c \in Contract : Live(c)' /\ pin = <<c, contract'[c].revision>>
      BY <2>2 DEF PinsOf
    <2>4. contract'[c] \in Row
      BY <2>3 DEF TypeOK, NoRow, Live
    <2>5. pin \in Pin
      BY <2>3, <2>4 DEF Pin, Row
    <2>6. ~ Fatal(pin)'
      BY <2>1, <2>2 DEF Ready
    <2> QED BY <2>2, <2>5, <2>6 DEF Stale
  <1> QED BY <1>1 DEF Stale
-----------------------------------------------------------------------------
(* Theorems *)

LEMMA InvInit == Init => IInv
  <1> SUFFICES ASSUME Init PROVE IInv
    OBVIOUS
  <1>1. TypeOK /\ Numbered
    BY TypeInit
  <1>2. \A c \in Contract : contract[c].deps = {} /\ contract[c].paths = {}
    BY DEF Init, NoRow
  <1>3. Acyclic
    <2> SUFFICES ASSUME NEW c \in Contract PROVE c \notin Reachable(c)
      BY DEF Acyclic
    <2> QED BY <1>1, <1>2, Unreached DEF DepIds
  <1>4. Resolvable /\ ReservationsDisjoint
    BY <1>2 DEF Resolvable, ReservationsDisjoint
  <1>5. GuardedEffects
    BY DEF Init, NoGuard, GuardedEffects
  <1> QED BY <1>1, <1>3, <1>4, <1>5 DEF IInv

LEMMA InvStep == IInv /\ [Next]_vars => IInv'
  <1> SUFFICES ASSUME IInv, [Next]_vars PROVE IInv'
    OBVIOUS
  <1> USE DEF IInv
  <1>1. TypeOK' /\ Numbered'
    BY TypeStep, NumberedStep
  <1> QED BY <1>1, AcyclicStep, ResolvableStep, ReservationsStep, GuardStep

\* The inductive invariant.
THEOREM Inductive == Spec => []IInv
  BY InvInit, InvStep, PTL DEF Spec

\* Rows stay well formed; contracts that are gone leave nothing behind.
THEOREM TypesKept == Spec => []TypeOK
  <1>1. IInv => TypeOK
    BY DEF IInv
  <1> QED BY <1>1, Inductive, PTL

\* checkContractDependencies keeps the graph free of cycles of every length,
\* through any mix of revisions and re-pinnings, so readiness ends.
THEOREM NoCycles == Spec => []Acyclic
  <1>1. IInv => Acyclic
    BY DEF IInv
  <1> QED BY <1>1, Inductive, PTL

\* Every pin of a live contract names a live one, at its revision or before.
THEOREM PinsResolve == Spec => []Resolvable
  <1>1. IInv => Resolvable
    BY DEF IInv
  <1> QED BY <1>1, Inductive, PTL

\* No two contracts ever reserve overlapping paths.
THEOREM OwnersDisjoint == Spec => []ReservationsDisjoint
  <1>1. IInv => ReservationsDisjoint
    BY DEF IInv
  <1> QED BY <1>1, Inductive, PTL

\* WithOwnedPaths and WithUnrestrictedWorkspace: what an effect was admitted
\* under holds until it ends.
THEOREM EffectsKeepGuard == Spec => []GuardedEffects
  <1>1. IInv => GuardedEffects
    BY DEF IInv
  <1> QED BY <1>1, Inductive, PTL

\* Contracts keep the promise that CoordMessages is built on: a stale pin is
\* never agreed to and never recovers.
THEOREM KeepsAgreements == Spec => ImplementsAgreements
  <1>1. Init => Pledge!Init
    <2> SUFFICES ASSUME Init PROVE Agreed = {} /\ Stale = {}
      BY DEF Pledge!Init
    <2>1. \A c \in Contract : contract[c].state = "none"
      BY DEF Init, NoRow
    <2>2. Stale = {}
      BY <2>1 DEF Stale, Existed, Live, Pin
    <2>3. Agreed = {}
      BY <2>1 DEF Agreed, PinsOf, Live
    <2> QED BY <2>2, <2>3
  <1>2. IInv /\ IInv' /\ [Next]_vars => Pledge!Change
    <2> SUFFICES ASSUME IInv, IInv', [Next]_vars PROVE Pledge!Change
      OBVIOUS
    <2>1. TypeOK /\ TypeOK' /\ Resolvable
      BY DEF IInv
    <2>2. Stale \subseteq Stale'
      BY <2>1, StaleStays
    <2>3. Agreed' \subseteq Peer \X (Pin \ Stale') /\ Stale' \subseteq Pin
      BY <2>1, AgreedFresh
    <2> QED BY <2>2, <2>3 DEF Pledge!Change
  <1> QED BY <1>1, <1>2, Inductive, PTL DEF Spec, ImplementsAgreements, Pledge!AgreementsSpec
=============================================================================
