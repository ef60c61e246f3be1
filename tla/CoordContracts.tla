----------------------------- MODULE CoordContracts -----------------------------
(***************************************************************************)
(* Contracts: internal/coordination/contracts.go, contract_readiness.go    *)
(* and contract_guards.go.  Peers of a project publish interface           *)
(* agreements that own paths and depend on exact revisions of others,      *)
(* revise, acknowledge and delete them, and write files under a guard.     *)
(*                                                                         *)
(* Every transaction holds the project's advisory lock from its first read *)
(* and the peer's row, shared, so it is one action.  The guard of an       *)
(* effect holds both until the effect ends or its connection drops.        *)
(***************************************************************************)
EXTENDS Integers, FiniteSets

CONSTANTS
  Peer, Contract, NoPeer,
  Path, Under,             \* owned paths; <<child, parent>>
  Nested,                  \* peers whose workspaces overlap
  Design, Effect,          \* <<contracts, paths>> a specification, an effect may name
  MaxRevision              \* bound of the model: revisions of all contracts

ASSUME PeerAssumption == NoPeer \notin Peer
ASSUME InputAssumption == Design \cup Effect \subseteq (SUBSET Contract) \X (SUBSET Path)
ASSUME BoundAssumption == MaxRevision \in Nat

VARIABLES
  enabled,   \* coordination_peers.enabled
  contract,  \* coordination_contracts, their paths and dependencies
  acks,      \* coordination_contract_acknowledgements of current revisions
  guard,     \* who writes under the project's lock, where, and for which pins
  published  \* rows of coordination_contract_revisions ever written

vars == <<enabled, contract, acks, guard, published>>
-----------------------------------------------------------------------------
Pin == Contract \X (1..MaxRevision)   \* ContractDependency

Row    == [state : {"live"}, owner : Peer, revision : 1..MaxRevision,
           deps : SUBSET Pin, paths : SUBSET Path]
NoRow(s) == [state |-> s, owner |-> NoPeer, revision |-> 0, deps |-> {}, paths |-> {}]

\* No paths: an opaque effect, which may write anywhere in its workspace.
Guard == [peer : Peer \cup {NoPeer}, paths : SUBSET Path, pins : SUBSET Pin]
NoGuard == [peer |-> NoPeer, paths |-> {}, pins |-> {}]

TypeOK ==
  /\ enabled \subseteq Peer
  /\ contract \in [Contract -> Row \cup {NoRow("none"), NoRow("gone")}]
  /\ acks \in [Contract -> SUBSET Peer]
  /\ \A c \in Contract : acks[c] # {} => contract[c].state = "live"
  /\ guard \in Guard
  /\ published \in 0..MaxRevision

Init ==
  /\ enabled = Peer
  /\ contract = [c \in Contract |-> NoRow("none")]
  /\ acks = [c \in Contract |-> {}]
  /\ guard = NoGuard
  /\ published = 0
-----------------------------------------------------------------------------
(* The graph of dependencies *)

Live(c)    == contract[c].state = "live"
DepIds(c)  == {pin[1] : pin \in contract[c].deps}
Current(pin) == Live(pin[1]) /\ contract[pin[1]].revision = pin[2]

\* The least set that the dependencies of c are in and that is closed under
\* dependencies (WITH RECURSIVE reachable).
Closed(S)    == \A n \in S : DepIds(n) \subseteq S
Reachable(c) ==
  LET above == {S \in SUBSET Contract : DepIds(c) \subseteq S /\ Closed(S)}
  IN {d \in Contract : \A S \in above : d \in S}

NoDirectCycle(c, deps) == \A pin \in deps : Current(pin) /\ pin[1] # c      \* mutant
                                            /\ c \notin DepIds(pin[1])
\* checkContractDependencies
Dependable(c, deps) == \A pin \in deps : Current(pin) /\ pin[1] # c
                                         /\ c \notin Reachable(pin[1])

\* pathsOverlap
OverlapsBelow(a, b) == a = b \/ <<b, a>> \in Under                          \* mutant
Overlap(a, b) == a = b \/ <<a, b>> \in Under \/ <<b, a>> \in Under

\* checkContractPaths: reservations outlive the enablement of their owner.
Reservable(c, paths) == \A d \in Contract \ {c} :
  \A a \in paths, b \in contract[d].paths : ~ Overlap(a, b)
-----------------------------------------------------------------------------
(* Operations of peers *)

Unlocked(p)  == p \in enabled                                               \* mutant
\* contractTransaction
Acting(p)    == p \in enabled /\ guard = NoGuard
Owns(p, c)   == Live(c) /\ contract[c].owner = p
PinsOf(D)    == {<<d, contract[d].revision>> : d \in D}

\* A graph of other pins than the current ones is refused with ErrConflict.
CreateContract(p, c, deps, paths) ==
  /\ Acting(p) /\ contract[c].state = "none" /\ published < MaxRevision
  /\ Reservable(c, paths) /\ Dependable(c, deps)
  /\ contract' = [contract EXCEPT ![c] =
       [state |-> "live", owner |-> p, revision |-> 1, deps |-> deps, paths |-> paths]]
  /\ published' = published + 1
  /\ UNCHANGED <<enabled, acks, guard>>

\* Only a change of the interface makes a revision.
RepinnedInPlace(c, deps) == IF deps = contract[c].deps                      \* mutant
                            THEN contract[c].revision + 1 ELSE contract[c].revision
\* Every update makes a revision, which nobody has acknowledged.
Revised(c, deps) == contract[c].revision + 1

UpdateContract(p, c, deps, paths) ==
  /\ Acting(p) /\ Owns(p, c) /\ published < MaxRevision
  /\ Reservable(c, paths) /\ Dependable(c, deps)
  /\ contract' = [contract EXCEPT ![c].revision = Revised(c, deps),
                                  ![c].deps = deps, ![c].paths = paths]
  /\ acks' = [acks EXCEPT ![c] = {}]
  /\ published' = published + 1
  /\ UNCHANGED <<enabled, guard>>

Publishes(p, c, deps, paths) == CreateContract(p, c, deps, paths)
                                \/ UpdateContract(p, c, deps, paths)

DependentsOfOthers(p, c) == {d \in Contract : c \in DepIds(d) /\ contract[d].owner # p}  \* mutant
Dependents(p, c) == {d \in Contract : c \in DepIds(d)}

Deleted(c) == NoRow("gone")

DeleteContract(p, c) ==
  /\ Acting(p) /\ Owns(p, c) /\ Dependents(p, c) = {}
  /\ contract' = [contract EXCEPT ![c] = Deleted(c)]
  /\ acks' = [acks EXCEPT ![c] = {}]
  /\ UNCHANGED <<enabled, guard, published>>

AcknowledgeContract(p, c) ==
  /\ Acting(p) /\ Live(c)
  /\ acks' = [acks EXCEPT ![c] = @ \cup {p}]
  /\ UNCHANGED <<enabled, contract, guard, published>>

\* The row of a peer that writes under its guard is locked.
DisablePeer(p) ==
  /\ guard.peer # p
  /\ enabled' = enabled \ {p}
  /\ UNCHANGED <<contract, acks, guard, published>>
-----------------------------------------------------------------------------
(* Readiness *)

Tree(c) == {c} \cup Reachable(c)

\* A pin is stale when what it names was deleted or revised, or when the
\* owner of a contract in its tree has not followed a revision.  Stale is fatal.
Fatal(pin) == \/ ~ Current(pin)
              \/ \E n \in Tree(pin[1]) : \E dep \in contract[n].deps : ~ Current(dep)

\* No blockers: the peer has acknowledged the contract, the owner of each
\* contract of its tree is enabled and has acknowledged what that depends on.
Ready(p, pin) ==
  /\ p \in acks[pin[1]] \cap enabled
  /\ ~ Fatal(pin)
  /\ \A n \in Tree(pin[1]) : /\ contract[n].owner \in enabled
                             /\ \A d \in DepIds(n) : contract[n].owner \in acks[d]
-----------------------------------------------------------------------------
(* Guarded effects *)

Claims(p)   == UNION {contract[c].paths : c \in {d \in Contract : contract[d].owner = p}}
Foreign(p)  == UNION {contract[c].paths : c \in {d \in Contract : contract[d].owner # p}}

\* ownedPathAccess: without any claim in the project, anybody may write.
Accessible(p, paths) ==
  \/ Claims(p) \cup Foreign(p) = {}
  \/ \A a \in paths : /\ \E b \in Claims(p) : a = b \/ <<a, b>> \in Under
                      /\ \A b \in Foreign(p) : ~ Overlap(a, b)

\* WithUnrestrictedWorkspace
Disjoint(p) == \A c \in Contract :
  contract[c].paths # {} /\ contract[c].owner # p => <<p, contract[c].owner>> \notin Nested

BeginEffect(p, pins, paths) ==
  /\ Acting(p)
  /\ \A pin \in pins : Ready(p, pin)   \* validateExecutionContracts
  /\ IF paths = {} THEN Disjoint(p) ELSE Accessible(p, paths)
  /\ guard' = [peer |-> p, paths |-> paths, pins |-> pins]
  /\ UNCHANGED <<enabled, contract, acks, published>>

\* It ends, or the database ends its transaction and the effect goes on alone.
EndEffect ==
  /\ guard # NoGuard /\ guard' = NoGuard
  /\ UNCHANGED <<enabled, contract, acks, published>>

Next ==
  \/ \E p \in Peer :
       \/ \E c \in Contract :
            \/ \E d \in Design : Publishes(p, c, PinsOf(d[1]), d[2])
            \/ DeleteContract(p, c) \/ AcknowledgeContract(p, c)
       \/ DisablePeer(p)
       \/ \E e \in Effect : BeginEffect(p, PinsOf(e[1]), e[2])
  \/ EndEffect

Spec == Init /\ [][Next]_vars
-----------------------------------------------------------------------------
(* Properties *)

\* No chain of revisions and re-pinnings closes a cycle: the recursive check
\* of checkContractDependencies, and the termination of every readiness query.
Acyclic == \A c \in Contract : c \notin Reachable(c)

\* What a live contract depends on exists, at its pinned revision or a later
\* one: a readiness query never fails for want of a row.
Resolvable == \A c \in Contract : \A pin \in contract[c].deps :
                Live(pin[1]) /\ pin[2] <= contract[pin[1]].revision

\* Two contracts never reserve the same path or one within the other.
ReservationsDisjoint == \A c, d \in Contract : c # d =>
  \A a \in contract[c].paths, b \in contract[d].paths : ~ Overlap(a, b)

\* While an effect is written under an intact guard its peer stays enabled,
\* its paths stay out of every other peer's reservations, and no agreement it
\* was admitted under becomes stale, whoever revises, deletes or disables.
GuardedEffects == LET p == guard.peer IN p # NoPeer =>
  /\ p \in enabled
  /\ IF guard.paths = {} THEN Disjoint(p)
     ELSE \A a \in guard.paths, b \in Foreign(p) : ~ Overlap(a, b)
  /\ \A pin \in guard.pins : ~ Fatal(pin)

\* Contracts keep what the correspondence relies on: a pin that has become
\* stale stays so, and agreement is never to a stale pin.
Existed(pin) == \/ contract[pin[1]].state = "gone"
                \/ Live(pin[1]) /\ pin[2] <= contract[pin[1]].revision
Stale    == {pin \in Pin : Existed(pin) /\ Fatal(pin)}
Agreed   == {a \in Peer \X PinsOf({c \in Contract : Live(c)}) : Ready(a[1], a[2])}
Pledge == INSTANCE Agreements WITH agreed <- Agreed, stale <- Stale
ImplementsAgreements == Pledge!AgreementsSpec
=============================================================================
