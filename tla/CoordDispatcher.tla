--------------------------- MODULE CoordDispatcher ---------------------------
(***************************************************************************)
(* Background delivery: internal/coordination/dispatcher.go with the       *)
(* executor of internal/api/coordination_dispatch.go.                      *)
(*                                                                         *)
(* Every server runs a dispatcher: a loop that scans the peers with        *)
(* outstanding work, and a pool of executions, at most one per peer.  An   *)
(* execution takes the peer's lease, reserves its session, claims one      *)
(* message, runs the agent under a heartbeat and records the outcome.      *)
(* Dispatchers, people at the sessions, senders and reviewers interleave   *)
(* between any two transactions.                                           *)
(*                                                                         *)
(* The store is that of CoordMessages without attempts, agreements and     *)
(* events: an agreement may be lost at any time.  Cf. AcquireLease,        *)
(* ClaimStarts, CompleteLease and ReviewRequest there.                     *)
(***************************************************************************)
EXTENDS Integers, FiniteSets

CONSTANTS
  Dispatcher, Peer, Message,
  PeerRank,            \* peers in the order of their ids
  Age,                 \* messages in the order of their creation
  To,                  \* the recipient of each message
  DependsOn,           \* the prerequisites of each message
  Concurrency,
  Human, NoOwner, NoMessage,
  MaxFaults,           \* bound of the model: crashes, stalls and lost answers
  MaxReviews           \* bound of the model: reviews granted

ASSUME DispatchAssumption ==
  /\ PeerRank \in [Peer -> Nat] /\ Age \in [Message -> Nat]
  /\ To \in [Message -> Peer] /\ DependsOn \in [Message -> SUBSET Message]
  /\ Concurrency \in Nat \ {0}
  /\ Human \notin Dispatcher /\ NoOwner \notin Dispatcher \cup {Human}
  /\ NoMessage \notin Message
ASSUME DispatchBoundAssumption == MaxFaults \in Nat /\ MaxReviews \in Nat

VARIABLES
  state,      \* coordination_messages.state, "none" before it is sent
  lease,      \* coordination_leases: the owner's dispatcher, and whether it is live
  session,    \* who holds the admission of a peer's session
  process,    \* life cycle of each dispatcher
  run,        \* the execution of each dispatcher for each peer
  faults,
  runs, reviews, runner   \* ghosts: executions, reviews and last dispatcher of a message

store  == <<state, lease>>
ghosts == <<runs, reviews, runner>>
vars   == <<store, session, process, run, faults, ghosts>>
-----------------------------------------------------------------------------
(* Types *)

Terminal == {"completed", "failed", "cancelled"}
State    == {"none", "accepted", "started", "blocked"} \cup Terminal

\* pc:    "off" not in the pool, "acquire", "reserve" and "claim" about to do so,
\*        "running", "ended" with a result, "settle" with its agreements
\*        reconciled, "finished" not yet seen by the loop
\* cause: why the run's context is cancelled
Run == [pc : {"off", "acquire", "reserve", "claim", "running", "ended", "settle",
              "finished"},
        msg : Message \cup {NoMessage}, cause : {"none", "lease", "cancelled"},
        result : {"none", "ok", "error", "budget"}]
Off == [pc |-> "off", msg |-> NoMessage, cause |-> "none", result |-> "none"]
NoLease == [owner |-> NoOwner, live |-> FALSE]

TypeOK ==
  /\ state \in [Message -> State]
  /\ lease \in [Peer -> [owner : Dispatcher \cup {NoOwner}, live : BOOLEAN]]
  /\ session \in [Peer -> Dispatcher \cup {Human, NoOwner}]
  /\ process \in [Dispatcher -> {"up", "stopping", "stopped", "crashed"}]
  /\ run \in [Dispatcher -> [Peer -> Run]]
  /\ faults \in Nat
  /\ runs \in [Message -> Nat] /\ reviews \in [Message -> Nat]
  /\ runner \in [Message -> Dispatcher \cup {NoOwner}]

Init ==
  /\ state = [m \in Message |-> "none"]
  /\ lease = [p \in Peer |-> NoLease]
  /\ session = [p \in Peer |-> NoOwner]
  /\ process = [d \in Dispatcher |-> "up"]
  /\ run = [d \in Dispatcher |-> [p \in Peer |-> Off]]
  /\ faults = 0
  /\ runs = [m \in Message |-> 0] /\ reviews = [m \in Message |-> 0]
  /\ runner = [m \in Message |-> NoOwner]
-----------------------------------------------------------------------------
(* Helpers *)

Fault       == faults < MaxFaults /\ faults' = faults + 1
Stopping(d) == process[d] = "stopping"
Up(d)       == process[d] = "up"
LeaseLiveNever(p) == FALSE                                           \* mutant
LeaseLive(p)      == lease[p].live
HoldsLease(d, p) == lease[p].owner = d /\ lease[p].live

At(d, p, pc)   == run[d][p].pc = pc
Goto(d, p, pc) == run' = [run EXCEPT ![d][p].pc = pc]
Msg(d, p)      == run[d][p].msg

InState(p, S) == {m \in Message : To[m] = p /\ state[m] \in S}
Set(S, s)     == state' = [m \in Message |-> IF m \in S THEN s ELSE state[m]]

\* The deferred calls of execute: the reservation, then the lease.
Leave(d, p) ==
  /\ session' = [session EXCEPT ![p] = IF @ = d THEN NoOwner ELSE @]
  /\ lease' = [lease EXCEPT ![p] = IF @.owner = d THEN NoLease ELSE @]
  /\ run' = [run EXCEPT ![d][p] = [Off EXCEPT !.pc = "finished"]]
-----------------------------------------------------------------------------
(* Senders, reviewers and people at the sessions *)

Send(m) ==
  /\ state[m] = "none" /\ \A n \in DependsOn[m] : state[n] # "none"
  /\ Set({m}, "accepted")
  /\ UNCHANGED <<lease, session, process, run, faults, ghosts>>

Cancel(m) ==
  /\ state[m] \in {"accepted", "started", "blocked"}
  /\ Set({m}, "cancelled")
  /\ UNCHANGED <<lease, session, process, run, faults, ghosts>>

\* ReviewRequest: blocked work returns to the queue when nothing executes.
Review(m) ==
  /\ state[m] = "blocked" /\ reviews[m] < MaxReviews
  /\ ~ LeaseLive(To[m]) /\ InState(To[m], {"started"}) = {}
  /\ Set({m}, "accepted")
  /\ reviews' = [reviews EXCEPT ![m] = @ + 1]
  /\ UNCHANGED <<lease, session, process, run, faults, runs, runner>>

HumanTurn(p) ==
  /\ session[p] = NoOwner /\ session' = [session EXCEPT ![p] = Human]
  /\ UNCHANGED <<store, process, run, faults, ghosts>>
HumanTurnEnds(p) ==
  /\ session[p] = Human /\ session' = [session EXCEPT ![p] = NoOwner]
  /\ UNCHANGED <<store, process, run, faults, ghosts>>
-----------------------------------------------------------------------------
(* Dispatcher.Run: scan and the pool *)

ActivePeers(d) == {p \in Peer : ~ At(d, p, "off")}

\* DispatchBindings: peers with started, blocked or accepted work, by id.
Outstanding(p) == InState(p, {"accepted", "started", "blocked"}) # {}
Waiting(d)     == {p \in Peer \ ActivePeers(d) : Outstanding(p)}
ByRank(d, p)   == Cardinality({q \in Waiting(d) : PeerRank[q] < PeerRank[p]})
Chosen(d) == {p \in Waiting(d) :
                ByRank(d, p) < Concurrency - Cardinality(ActivePeers(d))}

Scan(d) ==
  /\ Up(d) /\ Chosen(d) # {}
  /\ run' = [run EXCEPT ![d] = [p \in Peer |-> IF p \in Chosen(d)
                             THEN [Off EXCEPT !.pc = "acquire"] ELSE @[p]]]
  /\ UNCHANGED <<store, session, process, faults, ghosts>>

Finished(d, p) ==
  /\ At(d, p, "finished") /\ run' = [run EXCEPT ![d][p] = Off]
  /\ UNCHANGED <<store, session, process, faults, ghosts>>
-----------------------------------------------------------------------------
(* execute *)

\* AcquireLease: work without a live owner is blocked, and no lease is given
\* while blocked work waits for its review.
InterruptedRequeued == "accepted"                                    \* mutant
Interrupted == "blocked"
AcquireLease(d, p) ==
  /\ At(d, p, "acquire") /\ Up(d) /\ ~ LeaseLive(p)
  /\ InState(p, {"started", "blocked"}) = {}
  /\ lease' = [lease EXCEPT ![p] = [owner |-> d, live |-> TRUE]]
  /\ Goto(d, p, "reserve")
  /\ UNCHANGED <<state, session, process, faults, ghosts>>

AcquireRecovers(d, p) ==
  /\ At(d, p, "acquire") /\ Up(d) /\ ~ LeaseLive(p)
  /\ InState(p, {"started", "blocked"}) # {}
  /\ Set(InState(p, {"started"}), Interrupted)
  /\ lease' = [lease EXCEPT ![p] = NoLease]
  /\ Goto(d, p, "finished")
  /\ UNCHANGED <<session, process, faults, ghosts>>

\* ErrBusy, or the context of a stopping dispatcher.
AcquireBusy(d, p) ==
  /\ At(d, p, "acquire") /\ (LeaseLive(p) \/ Stopping(d))
  /\ Goto(d, p, "finished")
  /\ UNCHANGED <<store, session, process, faults, ghosts>>

Reserve(d, p) ==
  /\ At(d, p, "reserve") /\ Up(d) /\ session[p] = NoOwner
  /\ session' = [session EXCEPT ![p] = d]
  /\ Goto(d, p, "claim")
  /\ UNCHANGED <<store, process, faults, ghosts>>

\* A session in use, or the context of a stopping dispatcher.
ReserveBusy(d, p) ==
  /\ At(d, p, "reserve") /\ (session[p] # NoOwner \/ Stopping(d))
  /\ Leave(d, p)
  /\ UNCHANGED <<state, process, faults, ghosts>>

\* A claim fails what can no longer run and starts the oldest ready message.
Ready(p) == {m \in InState(p, {"accepted"}) :
               \A n \in DependsOn[m] : state[n] = "completed"}
Hopeless(p) == {m \in InState(p, {"accepted"}) :
                  \E n \in DependsOn[m] : state[n] \in {"failed", "cancelled"}}
OldestAccepted(p) ==                                                 \* mutant
  {m \in Ready(p) : \A n \in InState(p, {"accepted"}) : Age[m] <= Age[n]}
Oldest(p) == {m \in Ready(p) : \A n \in Ready(p) : Age[m] <= Age[n]}
Claimable(d, p) == /\ At(d, p, "claim") /\ Up(d) /\ HoldsLease(d, p)
                   /\ InState(p, {"started", "blocked"}) = {}
Claimed(p, m) == state' = [n \in Message |-> CASE n = m -> "started"
                                               [] n \in Hopeless(p) -> "failed"
                                               [] OTHER -> state[n]]

ClaimLease(d, p) ==
  /\ Claimable(d, p)
  /\ \E m \in Oldest(p) :
       /\ Claimed(p, m)
       /\ run' = [run EXCEPT ![d][p].pc = "running", ![d][p].msg = m]
       /\ runs' = [runs EXCEPT ![m] = @ + 1]
       /\ runner' = [runner EXCEPT ![m] = d]
  /\ UNCHANGED <<lease, session, process, faults, reviews>>

ClaimNothing(d, p) ==
  /\ Claimable(d, p) /\ Ready(p) = {}
  /\ Claimed(p, NoMessage)
  /\ Leave(d, p)
  /\ UNCHANGED <<process, faults, ghosts>>

ClaimFails(d, p) ==
  /\ At(d, p, "claim") /\ ~ Claimable(d, p)
  /\ Leave(d, p)
  /\ UNCHANGED <<state, process, faults, ghosts>>

\* The claim commits but its answer is lost: nothing runs.
ClaimLost(d, p) ==
  /\ Claimable(d, p) /\ Fault
  /\ \E m \in Oldest(p) : /\ Claimed(p, m)
                          /\ runner' = [runner EXCEPT ![m] = d]
  /\ Leave(d, p)
  /\ UNCHANGED <<process, runs, reviews>>
-----------------------------------------------------------------------------
(* The run and its heartbeat *)

Cancelled(d, p, cause) == run' = [run EXCEPT ![d][p].cause = cause]

\* The lease timer, or a renewal that finds the lease gone.
LeaseLost(d, p) ==
  /\ At(d, p, "running") /\ run[d][p].cause = "none" /\ ~ HoldsLease(d, p)
  /\ Cancelled(d, p, "lease")
  /\ UNCHANGED <<store, session, process, faults, ghosts>>

HeartbeatReads(d, p) ==
  /\ At(d, p, "running") /\ run[d][p].cause = "none"
  /\ HoldsLease(d, p) /\ state[Msg(d, p)] = "cancelled"
  /\ Cancelled(d, p, "cancelled")
  /\ UNCHANGED <<store, session, process, faults, ghosts>>

\* The agent answers explicitly, or its answer meets a lost agreement; both are
\* fenced by the lease.
AgentReplies(d, p) ==
  /\ At(d, p, "running") /\ HoldsLease(d, p) /\ state[Msg(d, p)] = "started"
  /\ \E s \in {"completed", "blocked", "failed"} : Set({Msg(d, p)}, s)
  /\ UNCHANGED <<lease, session, process, run, faults, ghosts>>

\* A cancelled context makes the run an error; usage may be unconfirmed.
Results(d, p) == IF run[d][p].cause # "none" \/ Stopping(d)
                 THEN {"error", "budget"} ELSE {"ok", "error", "budget"}
EndRun(d, p) ==
  /\ At(d, p, "running")
  /\ \E r \in Results(d, p) :
       run' = [run EXCEPT ![d][p].pc = "ended", ![d][p].result = r]
  /\ UNCHANGED <<store, session, process, faults, ghosts>>
-----------------------------------------------------------------------------
(* Finalisation: contexts no longer stop it, every update is fenced *)

MayFinishUnlessStopped(d, p) ==                                      \* mutant
  HoldsLease(d, p) /\ state[Msg(d, p)] = "started" /\ ~ Stopping(d)
MayFinish(d, p) == HoldsLease(d, p) /\ state[Msg(d, p)] = "started"

\* ReconcileExecutionContracts.
Reconcile(d, p) ==
  /\ At(d, p, "ended") /\ MayFinish(d, p)
  /\ Goto(d, p, "settle")
  /\ UNCHANGED <<store, session, process, faults, ghosts>>

ReconcileInvalidates(d, p) ==
  /\ At(d, p, "ended") /\ MayFinish(d, p)
  /\ \E s \in {"blocked", "failed"} : Set({Msg(d, p)}, s)
  /\ Leave(d, p)
  /\ UNCHANGED <<process, faults, ghosts>>

\* CompleteLease, which an agreement lost since may refuse, or failExecution.
Outcomes(d, p) ==
  LET r == run[d][p] IN
  IF r.result = "ok" /\ r.cause = "none" /\ ~ Stopping(d)
  THEN {"completed", "blocked", "failed"}
  ELSE IF Stopping(d) \/ r.result = "budget" THEN {"blocked"} ELSE {"failed"}

Settle(d, p) ==
  /\ At(d, p, "settle") /\ MayFinish(d, p) /\ run[d][p].cause # "lease"
  /\ \E s \in Outcomes(d, p) : Set({Msg(d, p)}, s)
  /\ Leave(d, p)
  /\ UNCHANGED <<process, faults, ghosts>>

\* The message has its outcome, or is left to the recovery of a later lease.
LeaveWork(d, p) ==
  /\ \/ At(d, p, "ended") /\ ~ MayFinish(d, p)
     \/ At(d, p, "settle") /\ (~ MayFinish(d, p) \/ run[d][p].cause = "lease")
  /\ Leave(d, p)
  /\ UNCHANGED <<state, process, faults, ghosts>>
-----------------------------------------------------------------------------
(* Leases, processes and faults *)

\* A lease runs out when its owner is gone, or stalls for longer than its TTL.
Held(p) == \E d \in Dispatcher :
             lease[p].owner = d /\ run[d][p].pc \notin {"off", "acquire", "finished"}
LeaseExpires(p) ==
  /\ LeaseLive(p)
  /\ IF Held(p) THEN Fault ELSE UNCHANGED faults
  /\ lease' = [lease EXCEPT ![p].live = FALSE]
  /\ UNCHANGED <<state, session, process, run, ghosts>>

Stop(d) ==
  /\ Up(d) /\ process' = [process EXCEPT ![d] = "stopping"]
  /\ UNCHANGED <<store, session, run, faults, ghosts>>

\* workers.Wait: Run returns when the pool is empty.
RunReturns(d) ==
  /\ Stopping(d) /\ \A p \in Peer : run[d][p].pc \in {"off", "finished"}
  /\ process' = [process EXCEPT ![d] = "stopped"]
  /\ run' = [run EXCEPT ![d] = [p \in Peer |-> Off]]
  /\ UNCHANGED <<store, session, faults, ghosts>>

Crash(d) ==
  /\ process[d] \in {"up", "stopping"} /\ Fault
  /\ process' = [process EXCEPT ![d] = "crashed"]
  /\ run' = [run EXCEPT ![d] = [p \in Peer |-> Off]]
  /\ session' = [p \in Peer |-> IF session[p] = d THEN NoOwner ELSE session[p]]
  /\ UNCHANGED <<store, ghosts>>

Restart(d) ==
  /\ process[d] = "crashed" /\ process' = [process EXCEPT ![d] = "up"]
  /\ UNCHANGED <<store, session, run, faults, ghosts>>
-----------------------------------------------------------------------------
Executes(d, p) ==
  \/ AcquireLease(d, p) \/ AcquireRecovers(d, p) \/ AcquireBusy(d, p)
  \/ Reserve(d, p) \/ ReserveBusy(d, p)
  \/ ClaimLease(d, p) \/ ClaimNothing(d, p) \/ ClaimFails(d, p)
  \/ LeaseLost(d, p) \/ HeartbeatReads(d, p) \/ EndRun(d, p)
  \/ Reconcile(d, p) \/ ReconcileInvalidates(d, p) \/ Settle(d, p) \/ LeaveWork(d, p)
  \/ Finished(d, p)

Next ==
  \/ \E m \in Message : Send(m) \/ Cancel(m) \/ Review(m)
  \/ \E p \in Peer : HumanTurn(p) \/ HumanTurnEnds(p) \/ LeaseExpires(p)
  \/ \E d \in Dispatcher, p \in Peer : Executes(d, p) \/ ClaimLost(d, p) \/ AgentReplies(d, p)
  \/ \E d \in Dispatcher : \/ Scan(d) \/ Stop(d) \/ RunReturns(d) \/ Crash(d) \/ Restart(d)

Spec == Init /\ [][Next]_vars

\* The loop ticks every 250 ms, the heartbeat every third of the lease and runs
\* end by their deadlines; an abandoned lease runs out with time.
Fairness ==
  /\ \A d \in Dispatcher : WF_vars(Scan(d)) /\ WF_vars(RunReturns(d))
  /\ \A d \in Dispatcher, p \in Peer : WF_vars(Executes(d, p))
  /\ \A p \in Peer : WF_vars(~ Held(p) /\ LeaseExpires(p))
FairSpec == Spec /\ Fairness
-----------------------------------------------------------------------------
(* Properties *)

\* dispatcher.go: "interrupted work requires review".  Whatever dispatchers
\* crash, stall, stop or lose answers, an agent is run for a message once, and
\* once more for each review a person granted.
NoReplay == \A m \in Message : runs[m] <= 1 + reviews[m]

\* "Dispatcher owns background executions until Run returns": one that was
\* stopped leaves no lease behind and no message started, if nothing failed.
CleanStop == \A d \in Dispatcher : process[d] = "stopped" /\ faults = 0 =>
               /\ \A p \in Peer : lease[p].owner # d /\ session[p] # d
               /\ \A m \in Message : state[m] = "started" => runner[m] # d

\* While an execution holds its live lease, nobody else ends, blocks or requeues
\* its message, except by cancelling it.
OwnerDecides ==
  [][\A d \in Dispatcher, p \in Peer :
       /\ run[d][p].pc \in {"running", "ended", "settle"} /\ HoldsLease(d, p)
       /\ state[Msg(d, p)] = "started"
       => \/ state'[Msg(d, p)] \in {"started", "cancelled"}
          \/ AgentReplies(d, p)
          \/ run'[d][p] # run[d][p]]_vars

\* While a dispatcher runs and people leave the sessions, work that may be
\* claimed is claimed or ends, and started work ends or waits for a review, if
\* the pool has room for every peer.
Quiet == /\ \E d \in Dispatcher : <>[]Up(d)
         /\ \A p \in Peer : <>[](session[p] # Human)
Runnable(m) == m \in Ready(To[m]) /\ InState(To[m], {"started", "blocked"}) = {}
WorkSettles == Quiet => \A m \in Message : []<>(state[m] # "started" /\ ~ Runnable(m))

\* docs/coordination-dependencies.md: a waiting request "does not claim the peer
\* or block unrelated ready work": what may be claimed is claimed or ends,
\* whatever else waits.
ReadyIsServed == Quiet => \A m \in Message : []<>(~ Runnable(m))
=============================================================================
