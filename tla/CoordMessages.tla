---------------------------- MODULE CoordMessages ----------------------------
(***************************************************************************)
(* The durable correspondence store of internal/coordination: the rows of  *)
(* coordination_messages and coordination_leases of one project and every  *)
(* transaction that changes them.                                          *)
(*                                                                         *)
(* One action is one committed transaction.  Every transaction takes the   *)
(* project admission lock and the row lock of the acting peer (or only the *)
(* latter, for leases) and reads under them, so transactions of a project  *)
(* are serialised; a transaction that returns an error is rolled back and  *)
(* is no step at all, except where the code commits the refusal.  Callers  *)
(* are open: any peer may call anything at any moment, with any argument   *)
(* the code accepts, as after a crash, a retry or a reordering of calls.   *)
(*                                                                         *)
(* Message identifiers are 1, 2, ... in order of acceptance, which stands  *)
(* for the ORDER BY created_at,id of the queries.                          *)
(***************************************************************************)
EXTENDS Integers, FiniteSets

CONSTANTS
  Peer,                     \* rows of coordination_peers of the project
  Worked,                   \* peers bound to a session a dispatcher serves
  Manual,                   \* peers operated through the manual ingress
  Route,                    \* bound of the model: <<sender, recipient>> pairs
  Owner,                    \* lease owner ids (a UUID per execution)
  External,                 \* the manual ingress caller, which holds no lease
  NoOwner,                  \* no owner
  Pin,                      \* contract revisions a request may require
  MaxMessages,              \* bound of the model: messages ever accepted, and
                            \* none is accepted or refused after the last
  MaxEvents,                \* bound of the model: events of the project
  MaxDisabled,              \* bound of the model: peers ever disabled
  MaxOverdue,               \* bound of the model: deadlines that elapse
  Kind,                     \* the kinds of messages sent
  MaxDeps,                  \* MaxDependencies
  MaxExecutionAttempts,
  MaxRequestDepth,
  MaxConversationRequests,
  MaxPeerQueue,
  MaxProjectQueue

ASSUME OwnerAssumption == /\ NoOwner \notin Owner \cup {External}
                          /\ External \notin Owner
ASSUME PeerAssumption == /\ Worked \subseteq Peer /\ Manual \subseteq Peer
                         /\ Route \subseteq Peer \X Peer
\* Peers are rows of a table; no other set need be finite.
ASSUME FinitePeers == IsFiniteSet(Peer)
ASSUME BoundAssumption == /\ MaxMessages \in Nat /\ MaxEvents \in Nat
                          /\ MaxDisabled \in Nat /\ MaxOverdue \in Nat
                          /\ MaxDeps \in Nat /\ MaxRequestDepth \in Nat
                          /\ MaxConversationRequests \in Nat
                          /\ MaxPeerQueue \in Nat /\ MaxProjectQueue \in Nat
ASSUME KindAssumption == Kind \subseteq {"request", "answer", "notice"}
ASSUME AttemptAssumption == MaxExecutionAttempts \in Nat \ {0}

VARIABLES
  enabled,      \* coordination_peers.enabled
  sent,         \* number of messages accepted so far
  env,          \* the immutable columns of each message
  state,        \* coordination_messages.state, "none" before acceptance
  revision,     \* coordination_messages.revision
  attempts,     \* coordination_messages.execution_attempts
  lease,        \* the row of coordination_leases of each recipient
  cursor,       \* coordination_cursors.sequence: events of the project
  escalations,  \* coordination_escalations, as a set
  overdue,      \* messages whose deadline has elapsed
  agreed,       \* <<peer, pin>>: the contract revision is recursively ready
  stale,        \* contract revisions that no request can be met under again
  runner        \* ghost: who started the message's current execution

rows  == <<sent, env, state, revision, attempts, cursor, escalations, runner>>
world == <<overdue, agreed, stale>>
vars  == <<enabled, rows, lease, world>>
-----------------------------------------------------------------------------
(* Types *)

Id       == 1..MaxMessages
Terminal == {"completed", "failed", "cancelled"}
Pending  == {"accepted", "started", "blocked"}
State    == Pending \cup Terminal
Reason   == {"admission", "execution_attempt_limit", "dependency_failed",
             "required_contract_failed", "required_contract_waiting"}

\* "answer" stands for the kinds answer and completion, which complete the
\* work they reply to; "notice" for progress, blocker and contract_changed.
Envelope == [from : Peer, to : Peer, kind : Kind \cup {"answer"}, replyTo : Id \cup {0},
             parent : Id \cup {0}, depth : Nat, conv : Id,
             deps : SUBSET Id, pins : SUBSET Pin]
NoEnvelope == [kind |-> "none"]

Lease   == [owner : Owner \cup {NoOwner}, live : BOOLEAN]
NoLease == [owner |-> NoOwner, live |-> FALSE]

TypeOK ==
  /\ enabled \in [Peer -> BOOLEAN]
  /\ sent \in 0..MaxMessages
  /\ env \in [Id -> Envelope \cup {NoEnvelope}]
  /\ \A m \in Id : m <= sent => env[m] \in Envelope
  /\ state \in [Id -> State \cup {"none"}]
  /\ \A m \in Id : state[m] # "none" <=> m <= sent
  /\ revision \in [Id -> Nat]
  /\ attempts \in [Id -> Nat]
  /\ lease \in [Peer -> Lease]
  /\ cursor \in Nat
  /\ escalations \subseteq [about : Id \cup {0}, reason : Reason]
  /\ overdue \subseteq Id
  /\ agreed \subseteq Peer \X Pin
  /\ stale \subseteq Pin
  /\ runner \in [Id -> Owner \cup {External, NoOwner}]

Init ==
  /\ enabled = [p \in Peer |-> TRUE]
  /\ sent = 0
  /\ env = [m \in Id |-> NoEnvelope]
  /\ state = [m \in Id |-> "none"]
  /\ revision = [m \in Id |-> 0]
  /\ attempts = [m \in Id |-> 0]
  /\ lease = [p \in Peer |-> NoLease]
  /\ cursor = 0
  /\ escalations = {}
  /\ overdue = {}
  /\ agreed = {}
  /\ stale = {}
  /\ runner = [m \in Id |-> NoOwner]
-----------------------------------------------------------------------------
(* What a transaction reads *)

Created        == 1..sent
InState(p, S)  == {m \in Created : env[m].to = p /\ state[m] \in S}
LeaseLive(p)   == lease[p].live
HoldsLease(p, o) == lease[p].owner = o /\ lease[p].live       \* checkLease
NoLeaseRow(p)  == lease[p].owner = NoOwner   \* rejectExternalWorkerLease

\* Who may act for p: an execution of its worker, or the manual ingress.
Callers(p) == Owner \cup (IF p \in Manual THEN {External} ELSE {})

\* A worker acts under its own live lease, the manual ingress only while the
\* recipient has no lease row at all, not even an expired one.
MayWorkAfterExpiry(p, who) ==                                     \* mutant
  IF who = External THEN ~ LeaseLive(p) ELSE HoldsLease(p, who)
MayWork(p, who) == IF who = External THEN NoLeaseRow(p) ELSE HoldsLease(p, who)

\* requiredContractBlockers: unmet pins of the message's recipient.
Blockers(m) == {c \in env[m].pins : <<env[m].to, c>> \notin agreed}
Fatal(m)    == \E c \in env[m].pins : c \in stale

\* enforceRequestContracts lets the message complete or resume.
AgreementHoldsIfCurrent(m) == ~ Fatal(m)                             \* mutant
AgreementHolds(m) == Blockers(m) = {}

\* Executions are counted when they start.
AttemptsLeft(m) == attempts[m] < MaxExecutionAttempts

\* Unfinished prerequisites, as the claim query sees them.
Unmet(m) == {d \in env[m].deps : state[d] # "completed"}

\* claim's first two passes over the accepted messages of p fail the overdue
\* ones, and repeatedly those with a failed or cancelled prerequisite: together
\* the least set that is closed under both.
HopelessByDeadline(p) == InState(p, {"accepted"}) \cap overdue       \* mutant
Doomed(p, S) ==
  {m \in InState(p, {"accepted"}) :
     m \in overdue \/ \E d \in env[m].deps : state[d] \in {"failed", "cancelled"} \/ d \in S}
Hopeless(p) ==
  {m \in InState(p, {"accepted"}) :
     \A S \in SUBSET InState(p, {"accepted"}) : Doomed(p, S) \subseteq S => m \in S}
Orphaned(p) == Hopeless(p) \ overdue

\* claimContractReady: candidates in order of acceptance up to the first one
\* that may run; a stale pin met on the way fails its message.
Candidates(p) == InState(p, {"accepted"}) \ Hopeless(p)
ReadyOutOfOrder(p) == {m \in Candidates(p) : Blockers(m) = {}}      \* mutant
Ready(p)      == {m \in Candidates(p) : Blockers(m) = {} /\ Unmet(m) = {}}
First(p)      == {m \in Ready(p) : \A n \in Ready(p) : m <= n}
StaleWork(p)  == {m \in Candidates(p) : Fatal(m) /\ \A n \in Ready(p) : m < n}
-----------------------------------------------------------------------------
(* What a transaction writes *)

\* Every update of a row raises its revision and appends one event.
Update(new) ==
  /\ cursor + Cardinality(DOMAIN new) <= MaxEvents
  /\ state' = [m \in Id |-> IF m \in DOMAIN new THEN new[m] ELSE state[m]]
  /\ revision' = [m \in Id |->
                    IF m \in DOMAIN new THEN revision[m] + 1 ELSE revision[m]]
  /\ cursor' = cursor + Cardinality(DOMAIN new)

SetState(S, s) == Update([m \in S |-> s])

Escalate(S, why) ==
  escalations' = escalations \cup [about : S, reason : {why}]

\* A status change of existing rows and nothing else.
OnlyStatus == UNCHANGED <<enabled, sent, env, attempts, runner, world>>

\* enforceRequestContracts on a message with blockers: fail or block it.
RejectByContracts(m) ==
  /\ Blockers(m) # {}
  /\ IF Fatal(m)
     THEN SetState({m}, "failed") /\ Escalate({m}, "required_contract_failed")
     ELSE SetState({m}, "blocked") /\ Escalate({m}, "required_contract_waiting")
  /\ OnlyStatus

\* blockAttemptLimit
BlockAttemptLimit(m) ==
  /\ ~ AttemptsLeft(m)
  /\ SetState({m}, "blocked")
  /\ Escalate({m}, "execution_attempt_limit")
  /\ OnlyStatus

\* The INSERT of a new message, with the completion of the work it answers.
Accept(row, done) ==
  /\ sent < MaxMessages
  /\ sent' = sent + 1
  /\ env' = [env EXCEPT ![sent + 1] = row]
  /\ Update([m \in {sent + 1} \cup done |->
               IF m \in done THEN "completed" ELSE "accepted"])
  /\ UNCHANGED <<enabled, attempts, escalations, runner, lease, world>>
-----------------------------------------------------------------------------
(* Send and Reply.  A submission is                                        *)
(*   [from, to, kind, replyTo, exec, deps, pins, conv]                     *)
(* where exec is the message whose live execution sends, or 0.             *)

\* deriveLineage: the execution is still started under from's live lease.
Executing(p)    == IF LeaseLive(p) THEN InState(p, {"started"}) ELSE {}
Repliable(p, q) == {r \in Created : env[r].to = p /\ env[r].from = q}
Dependable(p)   == {d \in Created : /\ env[d].kind = "request"
                                    /\ p \in {env[d].from, env[d].to}}
\* A root joins a conversation only as the owner of its usage scope.
Joinable(p)     == {c \in Created : env[c].conv = c /\ env[c].from = p}

Parent(x) == IF x.exec # 0 THEN x.exec ELSE x.replyTo
Gates(x)  == {x.exec, x.replyTo} \ {0}
DepthOf(x) == (IF Parent(x) = 0 THEN 0 ELSE env[Parent(x)].depth)
              + (IF x.kind = "request" THEN 1 ELSE 0)
PinsOf(x) == x.pins \cup UNION {env[g].pins : g \in Gates(x)}
ConvOf(x) == IF Parent(x) = 0 THEN x.conv ELSE env[Parent(x)].conv
NeverAnswered(r) == r = 0                                           \* mutant
Answered(r) == \E a \in Created : env[a].replyTo = r /\ env[a].kind = "answer"

Row(x) == [from |-> x.from, to |-> x.to, kind |-> x.kind, replyTo |-> x.replyTo,
           parent |-> Parent(x), depth |-> DepthOf(x), conv |-> ConvOf(x),
           deps |-> x.deps, pins |-> PinsOf(x)]

\* checkAdmission's walk from the parent to the root of the request chain: the
\* least set with the parent that is closed under parents.
AncestorsNone(m) == {}                                              \* mutant
Chained(S) == \A n \in S : env[n].parent \in S \cup {0}
Ancestors(m) ==
  {n \in Created : \A S \in SUBSET Created : {m} \ {0} \subseteq S /\ Chained(S) => n \in S}
Participants(S) == {env[m].from : m \in S} \cup {env[m].to : m \in S}

Correlated(x) == x.kind = "answer" /\ x.replyTo # 0 /\ state[x.replyTo] \in Pending
WithinLimitsUnblocked(x) ==                                        \* mutant
  /\ x.kind = "request" =>
       /\ DepthOf(x) <= MaxRequestDepth
       /\ x.to \notin Participants(Ancestors(Parent(x)))
       /\ Cardinality({m \in Created : /\ env[m].kind = "request"
                                       /\ env[m].conv = ConvOf(x)})
            < MaxConversationRequests
  /\ Cardinality(InState(x.to, {"accepted", "started"})) < MaxPeerQueue
  /\ Cardinality({m \in Created : state[m] \in Pending}) < MaxProjectQueue
WithinLimits(x) ==
  /\ x.kind = "request" =>
       /\ DepthOf(x) <= MaxRequestDepth
       /\ x.to \notin Participants(Ancestors(Parent(x)))
       /\ Cardinality({m \in Created : /\ env[m].kind = "request"
                                       /\ env[m].conv = ConvOf(x)})
            < MaxConversationRequests
  /\ Cardinality(InState(x.to, Pending)) < MaxPeerQueue
  /\ Cardinality({m \in Created : state[m] \in Pending}) < MaxProjectQueue

\* Everything sendTx checks before admission.  A superseded pin is refused, one
\* that only rests on a superseded contract is not; both are stale, so a stale
\* pin may pass.
Valid(x) ==
  /\ enabled[x.from] /\ enabled[x.to] /\ x.from # x.to
  /\ x.kind # "request" => x.deps = {} /\ x.pins = {}
  /\ \A g \in Gates(x) : AgreementHolds(g)
  /\ x.deps \subseteq Dependable(x.from) /\ Cardinality(x.deps) <= MaxDeps
  /\ x.kind = "answer" /\ x.replyTo # 0 =>
       /\ state[x.replyTo] \notin {"failed", "cancelled"}
       /\ ~ Answered(x.replyTo)
  /\ x.exec \notin overdue

SendAccepted(x) ==
  /\ sent < MaxMessages
  /\ Valid(x)
  /\ Correlated(x) \/ WithinLimits(x)
  /\ Accept(Row(x), IF Correlated(x) THEN {x.replyTo} ELSE {})

\* The refusal is committed: review evidence survives the rollback.
SendRefused(x) ==
  /\ sent < MaxMessages
  /\ Valid(x)
  /\ ~ Correlated(x) /\ ~ WithinLimits(x)
  /\ Escalate({Parent(x)}, "admission")
  /\ UNCHANGED <<enabled, sent, env, state, revision, attempts, cursor, runner,
                 lease, world>>

\* inheritRequestContracts fails or blocks the parent, or the message replied
\* to, whose agreement no longer holds; Send commits that and returns an error.
SendInvalidates(x) ==
  /\ enabled[x.from] /\ enabled[x.to] /\ x.from # x.to
  /\ \E g \in Gates(x) :
       /\ state[g] \in Pending
       /\ g = Parent(x) \/ AgreementHolds(Parent(x))
       /\ RejectByContracts(g)
  /\ UNCHANGED lease

Submit(x) == SendAccepted(x) \/ SendRefused(x) \/ SendInvalidates(x)

Send(p, q) ==
  \E k \in Kind, r \in Repliable(p, q) \cup {0}, e \in Executing(p) \cup {0} :
    \E D \in (IF k = "request" THEN SUBSET Dependable(p) ELSE {{}}),
       P \in (IF k = "request" THEN SUBSET Pin ELSE {{}}),
       c \in (IF r = 0 /\ e = 0 THEN Joinable(p) \cup {sent + 1} ELSE {1}) :
      Submit([from |-> p, to |-> q, kind |-> k, replyTo |-> r, exec |-> e,
              deps |-> D, pins |-> P, conv |-> c])
-----------------------------------------------------------------------------
(* Claim: the failures of unstarted work commit with the start, if any.     *)

ClaimEnabledUnlessBlocked(p, who) ==                                \* mutant
  enabled[p] /\ MayWork(p, who) /\ InState(p, {"blocked"}) = {}
ClaimEnabled(p, who) ==
  /\ enabled[p] /\ MayWork(p, who)
  /\ InState(p, {"started", "blocked"}) = {}

ClaimUpdate(p, chosen) ==
  /\ Update([m \in Hopeless(p) \cup StaleWork(p) \cup chosen |->
               IF m \in chosen THEN "started" ELSE "failed"])
  /\ escalations' = escalations
       \cup [about : Orphaned(p), reason : {"dependency_failed"}]
       \cup [about : StaleWork(p), reason : {"required_contract_failed"}]
  /\ UNCHANGED <<enabled, sent, env, lease, world>>

ClaimNothing(p, who) ==
  /\ ClaimEnabled(p, who)
  /\ Ready(p) = {}
  /\ Hopeless(p) \cup StaleWork(p) # {}
  /\ ClaimUpdate(p, {})
  /\ UNCHANGED <<attempts, runner>>

\* An accepted message has an attempt left (AcceptedMayRun), so the claim's own
\* check of the limit, which would block the message, never refuses one.
ClaimStarts(p, who) ==
  /\ ClaimEnabled(p, who)
  /\ \E m \in First(p) :
       /\ AttemptsLeft(m)
       /\ ClaimUpdate(p, {m})
       /\ attempts' = [attempts EXCEPT ![m] = @ + 1]
       /\ runner' = [runner EXCEPT ![m] = who]

Claim(p, who) == ClaimNothing(p, who) \/ ClaimStarts(p, who)
-----------------------------------------------------------------------------
(* Transition, by a lease holder (WorkerTransition) or the manual ingress.  *)
(* The caller names the revision it read: only current ones reach here.     *)

MayReport(p, who, m) == /\ enabled[p] /\ MayWork(p, who)
                        /\ m \in InState(p, {"started", "blocked"})

CancelAnyState(p, m) ==                                             \* mutant
  /\ enabled[p] /\ p \in {env[m].from, env[m].to}
  /\ SetState({m}, "cancelled")
  /\ UNCHANGED <<escalations, lease>> /\ OnlyStatus
Cancel(p, m) ==
  /\ enabled[p] /\ p \in {env[m].from, env[m].to}
  /\ state[m] \in Pending
  /\ SetState({m}, "cancelled")
  /\ UNCHANGED <<escalations, lease>> /\ OnlyStatus

\* "progress" and "contract_changed" only raise the revision.
Progress(p, m) ==
  /\ MayReport(p, External, m) /\ state[m] = "started"
  /\ SetState({m}, "started")
  /\ UNCHANGED <<escalations, lease>> /\ OnlyStatus

Report(p, who, m) ==
  /\ MayReport(p, who, m)
  /\ \/ SetState({m}, "failed")
     \/ state[m] = "started" /\ SetState({m}, "blocked")
     \/ who = External /\ AgreementHolds(m) /\ SetState({m}, "completed")
  /\ UNCHANGED <<escalations, lease>> /\ OnlyStatus

Resumable(p, m) == /\ MayReport(p, External, m) /\ state[m] = "blocked"
                   /\ InState(p, {"started"}) = {}

Resume(p, m) ==
  /\ Resumable(p, m)
  /\ AttemptsLeft(m)
  /\ AgreementHolds(m)
  /\ SetState({m}, "started")
  /\ attempts' = [attempts EXCEPT ![m] = @ + 1]
  /\ runner' = [runner EXCEPT ![m] = External]
  /\ UNCHANGED <<enabled, sent, env, escalations, lease, world>>

ResumeExhausted(p, m) ==
  Resumable(p, m) /\ BlockAttemptLimit(m) /\ UNCHANGED lease

\* "started" and "completed" meet an agreement that no longer holds.
TransitionInvalidates(p, m) ==
  /\ MayReport(p, External, m)
  /\ RejectByContracts(m) /\ UNCHANGED lease

Transition(p, m) ==
  \/ Cancel(p, m)
  \/ \E who \in Callers(p) : Report(p, who, m)
  \/ /\ p \in Manual
     /\ \/ Progress(p, m) \/ Resume(p, m) \/ ResumeExhausted(p, m)
        \/ TransitionInvalidates(p, m)
-----------------------------------------------------------------------------
(* The worker's end of an execution *)

MayFinish(p, o, m) == /\ enabled[p] /\ HoldsLease(p, o)
                      /\ m \in InState(p, {"started"})

AnswerTo(m) == [from |-> env[m].to, to |-> env[m].from, kind |-> "answer",
                replyTo |-> m, exec |-> 0, deps |-> {}, pins |-> {},
                conv |-> env[m].conv]

\* CompleteLease: a request and its correlated answer finish together.
CompleteLease(p, o, m) ==
  /\ MayFinish(p, o, m) /\ enabled[env[m].from]
  /\ AgreementHolds(m)
  /\ IF env[m].kind = "request"
     THEN Accept(Row(AnswerTo(m)), {m})
     ELSE /\ SetState({m}, "completed")
          /\ UNCHANGED <<escalations, lease>> /\ OnlyStatus

\* CompleteLease and ReconcileExecutionContracts persist a failed gate.
ExecutionInvalidated(p, o, m) ==
  MayFinish(p, o, m) /\ RejectByContracts(m) /\ UNCHANGED lease
-----------------------------------------------------------------------------
(* Leases and recovery *)

\* Started work found without a live owner is blocked, never replayed.
Interrupt(p) ==
  /\ SetState(InState(p, {"started"}), "blocked")
  /\ UNCHANGED escalations /\ OnlyStatus

AcquireLease(p, o) ==
  /\ enabled[p] /\ ~ LeaseLive(p)
  /\ InState(p, {"started", "blocked"}) = {}
  /\ lease' = [lease EXCEPT ![p] = [owner |-> o, live |-> TRUE]]
  /\ UNCHANGED <<enabled, rows, world>>

\* ErrRecoveryRequired, committed: no lease while blocked work waits.
AcquireRecovers(p) ==
  /\ enabled[p] /\ ~ LeaseLive(p)
  /\ InState(p, {"started", "blocked"}) # {}
  /\ Interrupt(p)
  /\ lease' = [lease EXCEPT ![p] = NoLease]

ReleaseLease(p, o) ==
  /\ lease[p].owner = o
  /\ lease' = [lease EXCEPT ![p] = NoLease]
  /\ UNCHANGED <<enabled, rows, world>>

RecoverExternal(p) ==
  /\ enabled[p] /\ ~ LeaseLive(p)
  /\ Interrupt(p)
  /\ lease' = [lease EXCEPT ![p] = NoLease]

\* expires_at passes without a renewal; the row stays.
LeaseExpires(p) ==
  /\ LeaseLive(p)
  /\ lease' = [lease EXCEPT ![p].live = FALSE]
  /\ UNCHANGED <<enabled, rows, world>>

Leases(p) ==
  \/ /\ p \in Worked
     /\ \/ \E o \in Owner : AcquireLease(p, o) \/ ReleaseLease(p, o)
        \/ AcquireRecovers(p) \/ LeaseExpires(p)
  \/ p \in Manual /\ RecoverExternal(p)
-----------------------------------------------------------------------------
(* Administration and the world *)

\* ReviewRequest by the owner of the usage scope; its usage conditions are
\* left out, so it may be granted here at any time.
ReviewableInAnyAttempt(m) ==                                         \* mutant
  /\ env[m].kind = "request" /\ state[m] = "blocked" /\ m \notin overdue
Reviewable(m) ==
  /\ env[m].kind = "request" /\ state[m] = "blocked" /\ m \notin overdue
  /\ AttemptsLeft(m)

ReviewRequest(m) ==
  /\ Reviewable(m)
  /\ LET p == env[m].to
         owner == env[env[m].conv].from
     IN /\ enabled[p] /\ enabled[owner] /\ owner \in {env[m].from, p}
        /\ ~ LeaseLive(p) /\ InState(p, {"started"}) = {}
  /\ \A n \in Created : state[n] = "started" => env[n].conv # env[m].conv
  /\ SetState({m}, "accepted")
  /\ UNCHANGED <<escalations, lease>> /\ OnlyStatus

\* Contracts are a component of their own: see CoordContracts, which implements
\* Agreements.  Disabling a peer withdraws at least what it had acknowledged.
Contracts == INSTANCE Agreements

DisablePeer(p) ==
  /\ Cardinality({q \in Peer : ~ enabled[q]}) < MaxDisabled
  /\ enabled' = [enabled EXCEPT ![p] = FALSE]
  /\ agreed' \in SUBSET {a \in agreed : a[1] # p}
  /\ UNCHANGED <<rows, lease, overdue, stale>>

AgreementsChange ==
  /\ Contracts!Change
  /\ \A a \in agreed' : enabled[a[1]]
  /\ UNCHANGED <<enabled, rows, lease, overdue>>

DeadlineElapses(m) ==
  /\ Cardinality(overdue) < MaxOverdue
  /\ state[m] \in Pending /\ overdue' = overdue \cup {m}
  /\ UNCHANGED <<enabled, rows, lease, agreed, stale>>

World ==
  \/ \E p \in Peer : DisablePeer(p)
  \/ \E m \in Created : DeadlineElapses(m)
  \/ AgreementsChange

Next ==
  \/ \E route \in Route : Send(route[1], route[2])
  \/ \E p \in Peer : \/ \E who \in Callers(p) : Claim(p, who)
                     \/ Leases(p)
                     \/ \E m \in Created : Transition(p, m)
                     \/ \E o \in Owner, m \in Created :
                          CompleteLease(p, o, m) \/ ExecutionInvalidated(p, o, m)
  \/ \E m \in Created : ReviewRequest(m)
  \/ World

Spec == Init /\ [][Next]_vars
-----------------------------------------------------------------------------
(* Properties *)

\* One peer never has two executions: claim, explicit resume, review and
\* lease recovery each test a different set of rows to keep it so.
AtMostOneStarted ==
  \A p \in Peer : \A m, n \in InState(p, {"started"}) : m = n

\* Work in progress belongs to the current lease row of its recipient.  A live
\* owner never coexists with work that an earlier owner or the manual ingress
\* started; manual work only runs while there is no lease row.
WorkOwnership ==
  \A m \in Created : state[m] = "started" =>
    \/ NoLeaseRow(env[m].to)
    \/ lease[env[m].to].owner = runner[m]

\* A request is answered at most once, and an answered request is completed:
\* neither a second reply, nor the worker's own completion, nor a later status
\* report can contradict the answer its sender received.
AnswerIsFinal ==
  \A a \in Created : env[a].kind = "answer" /\ env[a].replyTo # 0 =>
    /\ state[env[a].replyTo] = "completed"
    /\ \A b \in Created :
         env[b].kind = "answer" /\ env[b].replyTo = env[a].replyTo => a = b

\* Executions of one message are bounded, whatever mix of recovery, review and
\* explicit resume restarts it.
AttemptsBounded ==
  \A m \in Created : /\ attempts[m] <= MaxExecutionAttempts
                     /\ state[m] = "started" => attempts[m] >= 1

\* A queued message can always run: neither recovery nor review puts a message
\* back in the queue after its last execution.
AcceptedMayRun == \A m \in Created : state[m] = "accepted" => AttemptsLeft(m)

\* Delegation always ends: along a causal chain every request goes to a peer
\* that has not taken part yet, so the depth stays below the number of peers
\* even when replies and notices lie between the requests.
DepthBelowPeers ==
  \A m \in Created : env[m].kind = "request" => env[m].depth < Cardinality(Peer)

\* Queue limits: only a correlated answer to unfinished work exceeds them, and
\* each request gives its recipient one such answer.
QueueBounded ==
  \A p \in Peer : Cardinality(InState(p, Pending)) <= MaxPeerQueue +
    Cardinality({r \in Created : /\ env[r].from = p
                                 /\ \E a \in Created : /\ env[a].replyTo = r
                                                      /\ env[a].kind = "answer"})

\* Dependencies cannot deadlock the project: when no recipient is busy and no
\* agreement is missing, some recipient's next claim changes something.
ClaimChanges(p) == Hopeless(p) \cup StaleWork(p) \cup Ready(p) # {}
Quiet == /\ \A m \in Created : state[m] \notin {"started", "blocked"}
         /\ \A m \in Created :
              state[m] = "accepted" => Blockers(m) = {} \/ Fatal(m)
NoDependencyDeadlock ==
  Quiet /\ (\E m \in Created : state[m] = "accepted")
    => \E p \in Peer : ClaimChanges(p)

\* Terminal decisions stay, and every status change raises the revision by one
\* so that a report prepared from an older status is refused.
StatusMovesForward ==
  [][\A m \in Created : state'[m] # state[m] =>
       /\ state[m] \notin Terminal
       /\ revision'[m] = revision[m] + 1]_vars

\* No path - worker completion, reply, or explicit transition - completes work
\* whose required agreements do not hold at that moment.
CompletionNeedsAgreement ==
  [][\A m \in Created : state[m] # "completed" /\ state'[m] = "completed"
       => Blockers(m) = {}]_vars

\* docs/coordination-peer-ingress.md says of the manual operations: "These
\* operations do not bypass dependency, contract or task-usage gates."
RunsAfterPrerequisites ==
  \A m \in Created : state[m] = "started" => Unmet(m) = {}
=============================================================================
