------------------------- MODULE CoordMessagesProofs -------------------------
(***************************************************************************)
(* Proofs about the correspondence store, for every value of its           *)
(* constants.  Each invariant is shown preserved by one step per action of *)
(* Next; the lemmas of the first part say what the three shapes of write   *)
(* (a status change, an acceptance, an execution start) leave behind.      *)
(***************************************************************************)
EXTENDS CoordMessages, FiniteSetTheorems, TLAPS

-----------------------------------------------------------------------------
(* Writes *)

LEMMA CreatedIds ==
  ASSUME TypeOK
  PROVE  /\ Created \subseteq Id
         /\ \A m \in Created : state[m] \in State /\ env[m] \in Envelope
         /\ \A p, S : InState(p, S) \subseteq Created
  <1>1. sent \in 0..MaxMessages /\ Created \subseteq Id
    BY BoundAssumption DEF TypeOK, Created, Id
  <1>2. \A m \in Created : state[m] # "none" /\ m <= sent
    BY <1>1 DEF TypeOK, Created, Id
  <1>3. \A m \in Created : state[m] \in State /\ env[m] \in Envelope
    BY <1>1, <1>2 DEF TypeOK
  <1>4. \A p, S : InState(p, S) \subseteq Created
    BY DEF InState
  <1> QED BY <1>1, <1>3, <1>4

\* An update writes the given statuses to rows of the project and counts them.
LEMMA UpdateType ==
  ASSUME TypeOK, NEW new, DOMAIN new \subseteq Id,
         \A m \in DOMAIN new : new[m] \in State,
         Update(new)
  PROVE  /\ state' \in [Id -> State \cup {"none"}]
         /\ revision' \in [Id -> Nat]
         /\ cursor' \in Nat
         /\ \A m \in Id : state'[m] = IF m \in DOMAIN new THEN new[m] ELSE state[m]
         /\ \A m \in Id : revision'[m] = revision[m] + (IF m \in DOMAIN new THEN 1 ELSE 0)
  <1>1. IsFiniteSet(Id)
    BY FS_Interval, BoundAssumption DEF Id
  <1>2. Cardinality(DOMAIN new) \in Nat
    BY <1>1, FS_Subset, FS_CardinalityType
  <1>3. cursor' \in Nat
    BY <1>2 DEF TypeOK, Update
  <1>4. /\ state' = [m \in Id |-> IF m \in DOMAIN new THEN new[m] ELSE state[m]]
        /\ revision' = [m \in Id |->
                          IF m \in DOMAIN new THEN revision[m] + 1 ELSE revision[m]]
    BY DEF Update
  <1>5. state \in [Id -> State \cup {"none"}] /\ revision \in [Id -> Nat]
    BY DEF TypeOK
  <1>6. state' \in [Id -> State \cup {"none"}]
    BY <1>4, <1>5
  <1>7. revision' \in [Id -> Nat]
    BY <1>4, <1>5
  <1>8. \A m \in Id : state'[m] = IF m \in DOMAIN new THEN new[m] ELSE state[m]
    BY <1>4
  <1>9. \A m \in Id : revision'[m] = revision[m] + (IF m \in DOMAIN new THEN 1 ELSE 0)
    BY <1>4, <1>5
  <1> QED BY <1>3, <1>6, <1>7, <1>8, <1>9

\* An update of accepted messages keeps the types of all status columns.
LEMMA StatusStep ==
  ASSUME TypeOK, NEW new, DOMAIN new \subseteq Created,
         \A m \in DOMAIN new : new[m] \in State,
         Update(new), UNCHANGED <<enabled, sent, env, world>>,
         attempts' \in [Id -> Nat],
         runner' \in [Id -> Owner \cup {External, NoOwner}],
         escalations' \subseteq [about : Id \cup {0}, reason : Reason],
         lease' \in [Peer -> Lease]
  PROVE  TypeOK'
  <1>1. DOMAIN new \subseteq Id /\ Created \subseteq Id
    BY CreatedIds
  <1>2. /\ state' \in [Id -> State \cup {"none"}]
        /\ revision' \in [Id -> Nat]
        /\ cursor' \in Nat
        /\ \A m \in Id : state'[m] = IF m \in DOMAIN new THEN new[m] ELSE state[m]
    BY <1>1, UpdateType
  <1>3. \A m \in DOMAIN new : new[m] # "none" /\ m <= sent
    BY DEF State, Pending, Terminal, Created
  <1>4. \A m \in Id : state'[m] # "none" <=> m <= sent'
    BY <1>2, <1>3 DEF TypeOK
  <1> QED BY <1>2, <1>4 DEF TypeOK, world

\* SetState moves exactly the rows of S to s and raises their revision.
LEMMA SetStateShape ==
  ASSUME TypeOK, NEW S \in SUBSET Created, NEW s \in State, SetState(S, s)
  PROVE  /\ \A m \in Id : state'[m] = IF m \in S THEN s ELSE state[m]
         /\ \A m \in Id : revision'[m] = revision[m] + (IF m \in S THEN 1 ELSE 0)
  <1> DEFINE new == [m \in S |-> s]
  <1>1. DOMAIN new = S /\ \A m \in S : new[m] = s
    OBVIOUS
  <1>2. Update(new)
    BY DEF SetState
  <1> HIDE DEF new
  <1>3. DOMAIN new \subseteq Id
    BY <1>1, CreatedIds
  <1> QED BY <1>1, <1>2, <1>3, UpdateType

LEMMA OnlyStatusType ==
  ASSUME TypeOK, NEW S \in SUBSET Created, NEW s \in State, SetState(S, s),
         OnlyStatus, lease' \in [Peer -> Lease],
         escalations' \subseteq [about : Id \cup {0}, reason : Reason]
  PROVE  TypeOK'
  <1> DEFINE new == [m \in S |-> s]
  <1>1. DOMAIN new = S /\ \A m \in S : new[m] = s
    OBVIOUS
  <1>2. Update(new)
    BY DEF SetState
  <1> HIDE DEF new
  <1>3. /\ attempts' \in [Id -> Nat]
        /\ runner' \in [Id -> Owner \cup {External, NoOwner}]
    BY DEF OnlyStatus, TypeOK
  <1> QED BY <1>1, <1>2, <1>3, StatusStep DEF OnlyStatus

LEMMA EscalationType ==
  ASSUME TypeOK, NEW S \in SUBSET (Id \cup {0}), NEW why \in Reason,
         Escalate(S, why)
  PROVE  escalations' \subseteq [about : Id \cup {0}, reason : Reason]
  BY DEF TypeOK, Escalate

\* Both outcomes of a failed agreement.
LEMMA RejectShape ==
  ASSUME TypeOK, NEW m \in Created, RejectByContracts(m)
  PROVE  /\ \E s \in {"failed", "blocked"} : SetState({m}, s)
         /\ lease' = lease => TypeOK'
  <1>1. m \in Id /\ {m} \in SUBSET Created
    BY CreatedIds
  <1>2. PICK s \in {"failed", "blocked"} :
          /\ SetState({m}, s)
          /\ \E why \in Reason : Escalate({m}, why)
    BY DEF RejectByContracts, Reason
  <1>3. escalations' \subseteq [about : Id \cup {0}, reason : Reason]
    BY <1>1, <1>2, EscalationType
  <1>4. s \in State /\ OnlyStatus
    BY DEF State, Pending, Terminal, RejectByContracts
  <1>5. lease' = lease => lease' \in [Peer -> Lease]
    BY DEF TypeOK
  <1> QED BY <1>1, <1>2, <1>3, <1>4, <1>5, OnlyStatusType
-----------------------------------------------------------------------------
(* Acceptance *)

\* What Send and CompleteLease submit: every reference is to accepted work.
Submission ==
  [from : Peer, to : Peer, kind : Kind \cup {"answer"},
   replyTo : Created \cup {0}, exec : Created \cup {0}, deps : SUBSET Created,
   pins : SUBSET Pin, conv : Id \cup {sent + 1}]

LEMMA RowType ==
  ASSUME TypeOK, sent < MaxMessages, NEW x \in Submission
  PROVE  Row(x) \in Envelope
  <1>1. /\ Created \subseteq Id
        /\ \A m \in Created : env[m] \in Envelope
        /\ sent + 1 \in Id
    <2>1. sent \in 0..MaxMessages
      BY DEF TypeOK
    <2>2. sent + 1 \in Id
      BY <2>1, BoundAssumption DEF Id
    <2> QED BY <2>2, CreatedIds
  <1>2. Parent(x) \in Created \cup {0} /\ (Parent(x) # 0 => Parent(x) \in Created)
    BY DEF Parent, Submission
  <1>3. DepthOf(x) \in Nat
    <2>1. Parent(x) # 0 => env[Parent(x)].depth \in Nat
      BY <1>1, <1>2 DEF Envelope
    <2> QED BY <2>1 DEF DepthOf
  <1>4. ConvOf(x) \in Id
    <2>1. Parent(x) # 0 => env[Parent(x)].conv \in Id
      BY <1>1, <1>2 DEF Envelope
    <2> QED BY <2>1, <1>1 DEF ConvOf, Submission
  <1>5. PinsOf(x) \subseteq Pin
    <2>1. \A g \in Gates(x) : env[g].pins \subseteq Pin
      BY <1>1 DEF Gates, Submission, Envelope
    <2> QED BY <2>1 DEF PinsOf, Submission
  <1>6. /\ x.from \in Peer /\ x.to \in Peer /\ x.kind \in Kind \cup {"answer"}
        /\ x.replyTo \in Id \cup {0} /\ x.deps \in SUBSET Id
    BY <1>1 DEF Submission
  <1> QED BY <1>1, <1>2, <1>3, <1>4, <1>5, <1>6 DEF Row, Envelope

\* The next message is the only new row; the work it answers is completed.
LEMMA AcceptShape ==
  ASSUME TypeOK, NEW row \in Envelope, NEW done \in SUBSET Created,
         Accept(row, done)
  PROVE  /\ sent + 1 \in Id /\ sent + 1 \notin Created
         /\ Created' = Created \cup {sent + 1}
         /\ sent' = sent + 1
         /\ \A m \in Id : env'[m] = IF m = sent + 1 THEN row ELSE env[m]
         /\ state' \in [Id -> State \cup {"none"}]
         /\ revision' \in [Id -> Nat]
         /\ cursor' \in Nat
         /\ \A m \in Created : state'[m] = IF m \in done THEN "completed" ELSE state[m]
         /\ state'[sent + 1] = "accepted"
         /\ \A m \in Id : m > sent + 1 => state'[m] = state[m]
         /\ \A m \in Created : revision'[m] = revision[m] + (IF m \in done THEN 1 ELSE 0)
  <1> DEFINE new == [m \in {sent + 1} \cup done |->
                       IF m \in done THEN "completed" ELSE "accepted"]
  <1>1. /\ sent \in Nat /\ sent + 1 \in Id /\ sent + 1 \notin Created
        /\ sent' = sent + 1 /\ Created \subseteq Id
    BY CreatedIds, BoundAssumption DEF Accept, TypeOK, Id, Created
  <1>2. Created' = Created \cup {sent + 1}
    BY <1>1 DEF Created
  <1>3. \A m \in Id : env'[m] = IF m = sent + 1 THEN row ELSE env[m]
    BY <1>1 DEF Accept, TypeOK
  <1>4. Update(new)
    BY DEF Accept
  <1>5. /\ DOMAIN new = {sent + 1} \cup done
        /\ \A m \in DOMAIN new : new[m] = IF m \in done THEN "completed" ELSE "accepted"
    OBVIOUS
  <1>6. /\ DOMAIN new \subseteq Id
        /\ \A m \in DOMAIN new : new[m] \in State
    BY <1>1, <1>5 DEF State, Pending, Terminal
  <1> HIDE DEF new
  <1>7. /\ state' \in [Id -> State \cup {"none"}]
        /\ revision' \in [Id -> Nat]
        /\ cursor' \in Nat
        /\ \A m \in Id : state'[m] = IF m \in DOMAIN new THEN new[m] ELSE state[m]
        /\ \A m \in Id : revision'[m] = revision[m] + (IF m \in DOMAIN new THEN 1 ELSE 0)
    BY <1>4, <1>6, UpdateType
  <1>8. \A m \in Created : state'[m] = IF m \in done THEN "completed" ELSE state[m]
    BY <1>1, <1>5, <1>7
  <1>9. \A m \in Created : revision'[m] = revision[m] + (IF m \in done THEN 1 ELSE 0)
    BY <1>1, <1>5, <1>7
  <1>10. state'[sent + 1] = "accepted"
    BY <1>1, <1>5, <1>7
  <1>11. \A m \in Id : m > sent + 1 => state'[m] = state[m]
    BY <1>1, <1>5, <1>7 DEF Created, Id
  <1> QED BY <1>1, <1>2, <1>3, <1>7, <1>8, <1>9, <1>10, <1>11

LEMMA AcceptType ==
  ASSUME TypeOK, NEW row \in Envelope, NEW done \in SUBSET Created,
         Accept(row, done)
  PROVE  TypeOK'
  <1>1. /\ sent + 1 \in Id /\ sent' = sent + 1 /\ Created \subseteq Id
        /\ \A m \in Id : env'[m] = IF m = sent + 1 THEN row ELSE env[m]
        /\ state' \in [Id -> State \cup {"none"}]
        /\ revision' \in [Id -> Nat] /\ cursor' \in Nat
        /\ \A m \in Created : state'[m] = IF m \in done THEN "completed" ELSE state[m]
        /\ state'[sent + 1] = "accepted"
        /\ \A m \in Id : m > sent + 1 => state'[m] = state[m]
    BY AcceptShape, CreatedIds
  <1>2. sent' \in 0..MaxMessages
    BY <1>1, BoundAssumption DEF Id, TypeOK
  <1>3. /\ env' \in [Id -> Envelope \cup {NoEnvelope}]
        /\ \A m \in Id : m <= sent' => env'[m] \in Envelope
    <2>1. env' = [env EXCEPT ![sent + 1] = row]
      BY DEF Accept
    <2> QED BY <1>1, <2>1 DEF TypeOK, Id
  <1>4. \A m \in Id : state'[m] # "none" <=> m <= sent'
    <2> SUFFICES ASSUME NEW m \in Id PROVE state'[m] # "none" <=> m <= sent'
      OBVIOUS
    <2>1. CASE m \in Created
      BY <1>1, <2>1 DEF TypeOK, Created, Id
    <2>2. CASE m = sent + 1
      BY <1>1, <2>2 DEF TypeOK
    <2>3. CASE m > sent + 1
      BY <1>1, <2>3 DEF TypeOK, Id
    <2> QED BY <2>1, <2>2, <2>3 DEF Created, Id, TypeOK
  <1>5. UNCHANGED <<enabled, attempts, escalations, runner, lease, world>>
    BY DEF Accept
  <1> QED BY <1>1, <1>2, <1>3, <1>4, <1>5 DEF TypeOK, world
-----------------------------------------------------------------------------
(* The sets an action ranges over *)

LEMMA SendSubmits ==
  ASSUME TypeOK, NEW p \in Peer, NEW q \in Peer, Send(p, q)
  PROVE  \E x \in Submission :
           Submit(x) /\ x.from = p /\ x.to = q /\ x.replyTo \in Repliable(p, q) \cup {0}
  <1>1. PICK k \in Kind, r \in Repliable(p, q) \cup {0}, e \in Executing(p) \cup {0} :
          \E D \in (IF k = "request" THEN SUBSET Dependable(p) ELSE {{}}),
             P \in (IF k = "request" THEN SUBSET Pin ELSE {{}}),
             c \in (IF r = 0 /\ e = 0 THEN Joinable(p) \cup {sent + 1} ELSE {1}) :
            Submit([from |-> p, to |-> q, kind |-> k, replyTo |-> r, exec |-> e,
                    deps |-> D, pins |-> P, conv |-> c])
    BY DEF Send
  <1>2. PICK D \in (IF k = "request" THEN SUBSET Dependable(p) ELSE {{}}),
             P \in (IF k = "request" THEN SUBSET Pin ELSE {{}}),
             c \in (IF r = 0 /\ e = 0 THEN Joinable(p) \cup {sent + 1} ELSE {1}) :
          Submit([from |-> p, to |-> q, kind |-> k, replyTo |-> r, exec |-> e,
                  deps |-> D, pins |-> P, conv |-> c])
    BY <1>1
  <1>3. r \in Created \cup {0} /\ e \in Created \cup {0}
    BY DEF Repliable, Executing, InState
  <1>4. D \subseteq Created /\ P \subseteq Pin
    BY DEF Dependable
  <1>5. c \in Created \cup {sent + 1}
    <2>1. CASE r = 0 /\ e = 0
      BY <2>1, CreatedIds DEF Joinable
    <2>2. CASE ~(r = 0 /\ e = 0)
      <3>1. c = 1 /\ Created # {}
        BY <2>2, <1>3
      <3>2. sent \in Nat
        BY BoundAssumption DEF TypeOK
      <3> QED BY <3>1, <3>2 DEF Created
    <2> QED BY <2>1, <2>2
  <1> DEFINE x == [from |-> p, to |-> q, kind |-> k, replyTo |-> r, exec |-> e,
                   deps |-> D, pins |-> P, conv |-> c]
  <1>6. x \in Submission
    BY CreatedIds, <1>3, <1>4, <1>5 DEF Submission
  <1> QED BY <1>2, <1>6

LEMMA GatesCreated ==
  ASSUME NEW x \in Submission
  PROVE  Gates(x) \subseteq Created /\ (x.replyTo # 0 => x.replyTo \in Gates(x))
  BY DEF Gates, Submission

LEMMA ClaimSets ==
  ASSUME NEW p
  PROVE  /\ Hopeless(p) \subseteq InState(p, {"accepted"})
         /\ Orphaned(p) \subseteq InState(p, {"accepted"})
         /\ StaleWork(p) \subseteq InState(p, {"accepted"})
         /\ First(p) \subseteq InState(p, {"accepted"})
         /\ First(p) \cap Hopeless(p) = {}
         /\ First(p) \cap StaleWork(p) = {}
         /\ \A m \in First(p) : Blockers(m) = {} /\ Unmet(m) = {}
  <1>1. Hopeless(p) \subseteq InState(p, {"accepted"})
    BY DEF Hopeless
  <1>2. Candidates(p) \subseteq InState(p, {"accepted"}) /\ Candidates(p) \cap Hopeless(p) = {}
    BY DEF Candidates
  <1>3. Ready(p) \subseteq Candidates(p) /\ \A m \in Ready(p) : Blockers(m) = {} /\ Unmet(m) = {}
    BY DEF Ready
  <1>4. \A m \in InState(p, {"accepted"}) : m \in Int
    BY DEF InState, Created
  <1>5. First(p) \subseteq Ready(p)
    BY DEF First
  <1>6. /\ StaleWork(p) \subseteq Candidates(p)
        /\ \A m \in StaleWork(p), n \in Ready(p) : m < n
    BY DEF StaleWork
  <1>7. Orphaned(p) \subseteq Hopeless(p)
    BY DEF Orphaned
  <1> QED BY <1>1, <1>2, <1>3, <1>4, <1>5, <1>6, <1>7

\* What one claim writes: unstarted work fails, the chosen one starts.
LEMMA ClaimShape ==
  ASSUME TypeOK, NEW p \in Peer, NEW chosen \in SUBSET First(p),
         ClaimUpdate(p, chosen)
  PROVE  /\ chosen \subseteq InState(p, {"accepted"})
         /\ InState(p, {"accepted"}) \subseteq Created /\ Created \subseteq Id
         /\ \A m \in Id : state'[m] = IF m \in chosen THEN "started"
                                     ELSE IF m \in Hopeless(p) \cup StaleWork(p)
                                          THEN "failed" ELSE state[m]
         /\ \A m \in Id : revision'[m] =
              revision[m] + (IF m \in Hopeless(p) \cup StaleWork(p) \cup chosen
                             THEN 1 ELSE 0)
         /\ attempts' \in [Id -> Nat]
              /\ runner' \in [Id -> Owner \cup {External, NoOwner}] => TypeOK'
  <1> DEFINE new == [m \in Hopeless(p) \cup StaleWork(p) \cup chosen |->
                       IF m \in chosen THEN "started" ELSE "failed"]
  <1>1. /\ Hopeless(p) \cup StaleWork(p) \cup chosen \cup Orphaned(p)
             \subseteq InState(p, {"accepted"})
        /\ InState(p, {"accepted"}) \subseteq Created /\ Created \subseteq Id
        /\ chosen \subseteq InState(p, {"accepted"})
    BY ClaimSets, CreatedIds
  <1>2. /\ DOMAIN new = Hopeless(p) \cup StaleWork(p) \cup chosen
        /\ \A m \in DOMAIN new : new[m] = IF m \in chosen THEN "started" ELSE "failed"
    OBVIOUS
  <1>3. Update(new)
    BY DEF ClaimUpdate
  <1>4. /\ DOMAIN new \subseteq Created /\ DOMAIN new \subseteq Id
        /\ \A m \in DOMAIN new : new[m] \in State
    BY <1>1, <1>2 DEF State, Pending, Terminal
  <1> HIDE DEF new
  <1>5. /\ \A m \in Id : state'[m] = IF m \in DOMAIN new THEN new[m] ELSE state[m]
        /\ \A m \in Id : revision'[m] = revision[m] + (IF m \in DOMAIN new THEN 1 ELSE 0)
    BY <1>3, <1>4, UpdateType
  <1>6. \A m \in Id : state'[m] = IF m \in chosen THEN "started"
                                  ELSE IF m \in Hopeless(p) \cup StaleWork(p)
                                       THEN "failed" ELSE state[m]
    BY <1>2, <1>5
  <1>7. \A m \in Id : revision'[m] =
              revision[m] + (IF m \in Hopeless(p) \cup StaleWork(p) \cup chosen
                             THEN 1 ELSE 0)
    BY <1>2, <1>5
  <1>8. /\ UNCHANGED <<enabled, sent, env, lease, world>>
        /\ escalations' \subseteq [about : Id \cup {0}, reason : Reason]
    BY <1>1 DEF ClaimUpdate, TypeOK, Reason
  <1>9. attempts' \in [Id -> Nat] /\ runner' \in [Id -> Owner \cup {External, NoOwner}]
          => TypeOK'
    <2>1. lease' \in [Peer -> Lease]
      BY <1>8 DEF TypeOK
    <2> QED BY <1>3, <1>4, <1>8, <2>1, StatusStep
  <1> QED BY <1>1, <1>6, <1>7, <1>9
-----------------------------------------------------------------------------
(* Type correctness, one lemma per group of actions *)

LEMMA SubmitType ==
  ASSUME TypeOK, NEW x \in Submission, Submit(x)
  PROVE  TypeOK'
  <1>1. CASE SendAccepted(x)
    <2>1. Accept(Row(x), IF Correlated(x) THEN {x.replyTo} ELSE {})
      BY <1>1 DEF SendAccepted
    <2>2. (IF Correlated(x) THEN {x.replyTo} ELSE {}) \in SUBSET Created
      BY DEF Correlated, Submission
    <2>3. Row(x) \in Envelope
      BY <2>1, RowType DEF Accept
    <2> QED BY <2>1, <2>2, <2>3, AcceptType
  <1>2. CASE SendRefused(x)
    <2>1. Parent(x) \in Created \cup {0} /\ Created \subseteq Id
      BY CreatedIds DEF Parent, Submission
    <2>2. escalations' \subseteq [about : Id \cup {0}, reason : Reason]
      BY <1>2, <2>1, EscalationType DEF SendRefused, Reason
    <2> QED BY <1>2, <2>2 DEF SendRefused, TypeOK, world
  <1>3. CASE SendInvalidates(x)
    <2>1. PICK g \in Gates(x) : RejectByContracts(g)
      BY <1>3 DEF SendInvalidates
    <2>2. g \in Created
      BY GatesCreated
    <2> QED BY <1>3, <2>1, <2>2, RejectShape DEF SendInvalidates
  <1> QED BY <1>1, <1>2, <1>3 DEF Submit

LEMMA ClaimType ==
  ASSUME TypeOK, NEW p \in Peer, NEW who \in Callers(p), Claim(p, who)
  PROVE  TypeOK'
  <1>1. CASE ClaimNothing(p, who)
    <2>1. {} \in SUBSET First(p)
      OBVIOUS
    <2> QED BY <1>1, <2>1, ClaimShape DEF ClaimNothing, TypeOK
  <1>2. CASE ClaimStarts(p, who)
    <2>1. PICK m \in First(p) :
            /\ ClaimUpdate(p, {m})
            /\ attempts' = [attempts EXCEPT ![m] = @ + 1]
            /\ runner' = [runner EXCEPT ![m] = who]
      BY <1>2 DEF ClaimStarts
    <2>2. who \in Owner \cup {External, NoOwner}
      BY DEF Callers
    <2>3. attempts \in [Id -> Nat] /\ runner \in [Id -> Owner \cup {External, NoOwner}]
      BY DEF TypeOK
    <2>4. attempts' \in [Id -> Nat]
      <3>1. m \in Id
        BY ClaimSets, CreatedIds
      <3>2. attempts[m] + 1 \in Nat
        BY <2>3, <3>1
      <3> QED BY <2>1, <2>3, <3>2
    <2>5. runner' \in [Id -> Owner \cup {External, NoOwner}]
      BY <2>1, <2>2, <2>3
    <2> QED BY <2>1, <2>4, <2>5, ClaimShape DEF State, Pending
  <1> QED BY <1>1, <1>2 DEF Claim

LEMMA TransitionType ==
  ASSUME TypeOK, NEW p \in Peer, NEW m \in Created, Transition(p, m)
  PROVE  TypeOK'
  <1>1. m \in Id /\ {m} \in SUBSET Created
    BY CreatedIds
  <1>2. \A s \in {"failed", "blocked", "completed", "cancelled", "started"} : s \in State
    BY DEF State, Pending, Terminal
  <1>3. /\ lease' = lease => lease' \in [Peer -> Lease]
        /\ escalations' = escalations
             => escalations' \subseteq [about : Id \cup {0}, reason : Reason]
    BY DEF TypeOK
  <1>4. CASE Cancel(p, m)
    BY <1>1, <1>2, <1>3, <1>4, OnlyStatusType DEF Cancel
  <1>5. CASE \E who \in Callers(p) : Report(p, who, m)
    BY <1>1, <1>2, <1>3, <1>5, OnlyStatusType DEF Report
  <1>6. CASE Progress(p, m)
    BY <1>1, <1>2, <1>3, <1>6, OnlyStatusType DEF Progress
  <1>7. CASE Resume(p, m)
    <2>1. /\ SetState({m}, "started")
          /\ attempts' = [attempts EXCEPT ![m] = @ + 1]
          /\ runner' = [runner EXCEPT ![m] = External]
          /\ UNCHANGED <<enabled, sent, env, escalations, lease, world>>
      BY <1>7 DEF Resume
    <2>2. attempts' \in [Id -> Nat]
      <3>1. attempts \in [Id -> Nat] /\ attempts[m] + 1 \in Nat
        BY <1>1 DEF TypeOK
      <3> QED BY <2>1, <3>1
    <2>4. runner' \in [Id -> Owner \cup {External, NoOwner}]
      <3>1. runner \in [Id -> Owner \cup {External, NoOwner}]
        BY DEF TypeOK
      <3> QED BY <2>1, <3>1
    <2> DEFINE new == [n \in {m} |-> "started"]
    <2>3. Update(new) /\ DOMAIN new = {m} /\ \A n \in {m} : new[n] = "started"
      BY <2>1 DEF SetState
    <2> HIDE DEF new
    <2> QED BY <1>1, <1>2, <1>3, <2>1, <2>2, <2>3, <2>4, StatusStep
  <1>8. CASE ResumeExhausted(p, m)
    <2>1. /\ SetState({m}, "blocked") /\ OnlyStatus /\ UNCHANGED lease
          /\ Escalate({m}, "execution_attempt_limit")
      BY <1>8 DEF ResumeExhausted, BlockAttemptLimit
    <2>2. escalations' \subseteq [about : Id \cup {0}, reason : Reason]
      BY <1>1, <2>1, EscalationType DEF Reason
    <2> QED BY <1>1, <1>2, <1>3, <2>1, <2>2, OnlyStatusType
  <1>9. CASE TransitionInvalidates(p, m)
    BY <1>9, RejectShape DEF TransitionInvalidates
  <1> QED BY <1>4, <1>5, <1>6, <1>7, <1>8, <1>9 DEF Transition

LEMMA CompleteLeaseShape ==
  ASSUME TypeOK, NEW p \in Peer, NEW o \in Owner, NEW m \in Created,
         CompleteLease(p, o, m)
  PROVE  \/ /\ AnswerTo(m) \in Submission /\ Row(AnswerTo(m)) \in Envelope
            /\ Accept(Row(AnswerTo(m)), {m})
         \/ /\ SetState({m}, "completed") /\ OnlyStatus
            /\ UNCHANGED <<escalations, lease>>
  <1>1. CASE env[m].kind = "request"
    <2>1. Accept(Row(AnswerTo(m)), {m})
      BY <1>1 DEF CompleteLease
    <2>2. env[m] \in Envelope /\ sent \in Nat /\ MaxMessages \in Nat
      BY CreatedIds, BoundAssumption DEF TypeOK
    <2>3. AnswerTo(m) \in Submission
      BY <2>2 DEF AnswerTo, Submission, Envelope
    <2>4. Row(AnswerTo(m)) \in Envelope
      BY <2>1, <2>3, RowType DEF Accept
    <2> QED BY <2>1, <2>3, <2>4
  <1>2. CASE env[m].kind # "request"
    BY <1>2 DEF CompleteLease
  <1> QED BY <1>1, <1>2

LEMMA LeasesType ==
  ASSUME TypeOK, NEW p \in Peer, Leases(p)
  PROVE  TypeOK'
  <1>1. lease \in [Peer -> Lease]
    BY DEF TypeOK
  <1>2. \A o \in Owner : [owner |-> o, live |-> TRUE] \in Lease
    BY DEF Lease
  <1>3. NoLease \in Lease
    BY DEF Lease, NoLease
  <1>4. CASE \E o \in Owner : AcquireLease(p, o)
    <2>1. lease' \in [Peer -> Lease]
      BY <1>1, <1>2, <1>4 DEF AcquireLease
    <2> QED BY <1>4, <2>1 DEF AcquireLease, rows, world, TypeOK
  <1>5. CASE \E o \in Owner : ReleaseLease(p, o)
    <2>1. lease' \in [Peer -> Lease]
      BY <1>1, <1>3, <1>5 DEF ReleaseLease
    <2> QED BY <1>5, <2>1 DEF ReleaseLease, rows, world, TypeOK
  <1>6. CASE AcquireRecovers(p) \/ RecoverExternal(p)
    <2>1. Interrupt(p) /\ lease' = [lease EXCEPT ![p] = NoLease]
      BY <1>6 DEF AcquireRecovers, RecoverExternal
    <2>2. lease' \in [Peer -> Lease]
      BY <1>1, <1>3, <2>1
    <2>3. InState(p, {"started"}) \in SUBSET Created
      BY CreatedIds
    <2>4. escalations' \subseteq [about : Id \cup {0}, reason : Reason]
      BY <2>1 DEF Interrupt, TypeOK
    <2> QED BY <2>1, <2>2, <2>3, <2>4, OnlyStatusType DEF Interrupt, State, Pending
  <1>7. CASE LeaseExpires(p)
    <2>1. lease' = [lease EXCEPT ![p].live = FALSE]
      BY <1>7 DEF LeaseExpires
    <2>2. lease' \in [Peer -> Lease]
      BY <1>1, <2>1 DEF Lease
    <2> QED BY <1>7, <2>2 DEF LeaseExpires, rows, world, TypeOK
  <1> QED BY <1>4, <1>5, <1>6, <1>7 DEF Leases

LEMMA WorldType ==
  ASSUME TypeOK, World
  PROVE  TypeOK'
  <1>1. CASE \E p \in Peer : DisablePeer(p)
    BY <1>1 DEF DisablePeer, rows, world, TypeOK
  <1>2. CASE AgreementsChange
    BY <1>2 DEF AgreementsChange, Contracts!Change, rows, TypeOK
  <1>3. CASE \E m \in Created : DeadlineElapses(m)
    BY <1>3, CreatedIds DEF DeadlineElapses, rows, TypeOK
  <1> QED BY <1>1, <1>2, <1>3 DEF World

LEMMA TypeInit == Init => TypeOK
  <1> SUFFICES ASSUME Init PROVE TypeOK
    OBVIOUS
  <1>1. \A m \in Id : ~(m <= 0)
    BY BoundAssumption DEF Id
  <1>2. [p \in Peer |-> NoLease] \in [Peer -> Lease]
    BY DEF Lease, NoLease
  <1> QED BY <1>1, <1>2, BoundAssumption DEF Init, TypeOK, State, Pending, Terminal

LEMMA TypeNext == TypeOK /\ [Next]_vars => TypeOK'
  <1> SUFFICES ASSUME TypeOK, [Next]_vars PROVE TypeOK'
    OBVIOUS
  <1>1. CASE \E route \in Route : Send(route[1], route[2])
    <2>1. PICK p \in Peer, q \in Peer : Send(p, q)
      BY <1>1, PeerAssumption
    <2> QED BY <2>1, SendSubmits, SubmitType
  <1>2. CASE \E p \in Peer : \E who \in Callers(p) : Claim(p, who)
    BY <1>2, ClaimType
  <1>3. CASE \E p \in Peer : Leases(p)
    BY <1>3, LeasesType
  <1>4. CASE \E p \in Peer : \E m \in Created : Transition(p, m)
    BY <1>4, TransitionType
  <1>5. CASE \E p \in Peer : \E o \in Owner, m \in Created : CompleteLease(p, o, m)
    <2>1. PICK p \in Peer, o \in Owner, m \in Created : CompleteLease(p, o, m)
      BY <1>5
    <2>2. CASE Row(AnswerTo(m)) \in Envelope /\ Accept(Row(AnswerTo(m)), {m})
      BY <2>2, AcceptType
    <2>3. CASE /\ SetState({m}, "completed") /\ OnlyStatus
               /\ UNCHANGED <<escalations, lease>>
      BY <2>3, OnlyStatusType DEF State, Terminal, TypeOK
    <2> QED BY <2>1, <2>2, <2>3, CompleteLeaseShape
  <1>6. CASE \E p \in Peer : \E o \in Owner, m \in Created : ExecutionInvalidated(p, o, m)
    BY <1>6, RejectShape DEF ExecutionInvalidated
  <1>7. CASE \E m \in Created : ReviewRequest(m)
    BY <1>7, OnlyStatusType DEF ReviewRequest, State, Pending, TypeOK
  <1>8. CASE World
    BY <1>8, WorldType
  <1>9. CASE UNCHANGED vars
    BY <1>9 DEF vars, rows, world, TypeOK
  <1> QED BY <1>1, <1>2, <1>3, <1>4, <1>5, <1>6, <1>7, <1>8, <1>9 DEF Next

\* Every transaction of the store, from any caller in any order, leaves rows of
\* the declared shape: identifiers and references within the accepted messages.
THEOREM TypeCorrect == Spec => []TypeOK
  BY TypeInit, TypeNext, PTL DEF Spec
=============================================================================
