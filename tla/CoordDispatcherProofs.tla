------------------------ MODULE CoordDispatcherProofs ------------------------
(***************************************************************************)
(* Proofs about background delivery, for any dispatchers, peers, messages, *)
(* pool sizes, faults and reviews.                                         *)
(*                                                                         *)
(* NoReplay follows from what a message in the queue has used up (Unused). *)
(* CleanStop needs that, as long as nothing failed, lease, reservation and *)
(* started message of a peer point at an execution in the phase that holds *)
(* them (Accounted), and that execution at them.                           *)
(***************************************************************************)
EXTENDS CoordDispatcher, TLAPS

Working == {"running", "ended", "settle"}
Leasing == {"reserve", "claim"} \cup Working

\* An execution that has claimed works on a message to its peer.
Assigned ==
  \A d \in Dispatcher, p \in Peer :
    run[d][p].pc \in Working => Msg(d, p) \in Message /\ To[Msg(d, p)] = p

\* A message that may be claimed has an execution left, first or granted.
Unused ==
  \A m \in Message : /\ runs[m] <= 1 + reviews[m]
                     /\ state[m] \in {"none", "accepted"} => runs[m] <= reviews[m]

IInv == TypeOK /\ Assigned /\ Unused
-----------------------------------------------------------------------------
(* Types *)

LEMMA OffRun == Off \in Run
  BY DEF Off, Run

LEMMA RunFields ==
  ASSUME NEW r \in Run
  PROVE  /\ \A pc \in {"acquire", "reserve", "claim", "running", "ended", "settle",
                       "finished"} : [r EXCEPT !.pc = pc] \in Run
         /\ \A m \in Message : [r EXCEPT !.msg = m] \in Run
         /\ \A c \in {"lease", "cancelled"} : [r EXCEPT !.cause = c] \in Run
         /\ \A s \in {"ok", "error", "budget"} : [r EXCEPT !.result = s] \in Run
  BY DEF Run

\* The steps of an execution assign it a phase, and at most one field more.
LEMMA RunUpdate ==
  ASSUME TypeOK, NEW d \in Dispatcher, NEW p \in Peer, NEW r \in Run,
         run' = [run EXCEPT ![d][p] = r]
  PROVE  /\ run' \in [Dispatcher -> [Peer -> Run]]
         /\ run'[d][p] = r
         /\ \A e \in Dispatcher, q \in Peer : <<e, q>> # <<d, p>> => run'[e][q] = run[e][q]
  BY DEF TypeOK

LEMMA GotoType ==
  ASSUME TypeOK, NEW d \in Dispatcher, NEW p \in Peer,
         NEW pc \in {"acquire", "reserve", "claim", "running", "ended", "settle",
                     "finished"},
         Goto(d, p, pc)
  PROVE  /\ run' \in [Dispatcher -> [Peer -> Run]]
         /\ run' = [run EXCEPT ![d][p] = [run[d][p] EXCEPT !.pc = pc]]
  BY RunFields DEF TypeOK, Goto

LEMMA LeaveType ==
  ASSUME TypeOK, NEW d \in Dispatcher, NEW p \in Peer, Leave(d, p)
  PROVE  /\ session' \in [Peer -> Dispatcher \cup {Human, NoOwner}]
         /\ lease' \in [Peer -> [owner : Dispatcher \cup {NoOwner}, live : BOOLEAN]]
         /\ run' \in [Dispatcher -> [Peer -> Run]]
         /\ run' = [run EXCEPT ![d][p] = [Off EXCEPT !.pc = "finished"]]
  BY OffRun, RunFields DEF TypeOK, Leave, NoLease

LEMMA SetType ==
  ASSUME TypeOK, NEW S, NEW s \in State, Set(S, s)
  PROVE  state' \in [Message -> State]
  BY DEF TypeOK, Set

LEMMA ClaimedType ==
  ASSUME TypeOK, NEW p \in Peer, NEW m, Claimed(p, m)
  PROVE  state' \in [Message -> State]
  BY DEF TypeOK, Claimed, State, Terminal

LEMMA PeopleType ==
  ASSUME TypeOK, NEW m \in Message, Send(m) \/ Cancel(m) \/ Review(m)
  PROVE  TypeOK'
  <1>1. state' \in [Message -> State]
    BY SetType DEF Send, Cancel, Review, State, Terminal
  <1>2. reviews' \in [Message -> Nat]
    BY DEF Send, Cancel, Review, TypeOK, ghosts
  <1> QED BY <1>1, <1>2 DEF Send, Cancel, Review, TypeOK, ghosts

LEMMA PeerType ==
  ASSUME TypeOK, NEW p \in Peer, HumanTurn(p) \/ HumanTurnEnds(p) \/ LeaseExpires(p)
  PROVE  TypeOK'
  <1>1. CASE HumanTurn(p) \/ HumanTurnEnds(p)
    BY <1>1 DEF HumanTurn, HumanTurnEnds, TypeOK, store, ghosts
  <1>2. CASE LeaseExpires(p)
    <2>1. lease' \in [Peer -> [owner : Dispatcher \cup {NoOwner}, live : BOOLEAN]]
      BY <1>2 DEF LeaseExpires, TypeOK
    <2>2. faults' \in Nat
      BY <1>2 DEF LeaseExpires, Fault, TypeOK
    <2> QED BY <1>2, <2>1, <2>2 DEF LeaseExpires, TypeOK, ghosts
  <1> QED BY <1>1, <1>2

LEMMA ProcessType ==
  ASSUME TypeOK, NEW d \in Dispatcher,
         Scan(d) \/ Stop(d) \/ RunReturns(d) \/ Crash(d) \/ Restart(d)
  PROVE  TypeOK'
  <1>1. run' \in [Dispatcher -> [Peer -> Run]]
    <2>1. [Off EXCEPT !.pc = "acquire"] \in Run
      BY OffRun, RunFields
    <2>2. CASE Scan(d)
      BY <2>1, <2>2 DEF Scan, TypeOK
    <2> QED BY <2>2, OffRun DEF Stop, RunReturns, Crash, Restart, TypeOK
  <1> QED BY <1>1 DEF Scan, Stop, RunReturns, Crash, Restart, Fault, TypeOK, store, ghosts

LEMMA AcquireType ==
  ASSUME TypeOK, NEW d \in Dispatcher, NEW p \in Peer,
         \/ AcquireLease(d, p) \/ AcquireRecovers(d, p) \/ AcquireBusy(d, p)
         \/ Reserve(d, p) \/ ReserveBusy(d, p)
  PROVE  TypeOK'
  <1>1. CASE AcquireLease(d, p)
    BY <1>1, GotoType DEF AcquireLease, TypeOK, ghosts
  <1>2. CASE AcquireRecovers(d, p)
    <2>1. state' \in [Message -> State]
      BY <1>2, SetType DEF AcquireRecovers, Interrupted, State
    <2> QED BY <1>2, <2>1, GotoType DEF AcquireRecovers, NoLease, TypeOK, ghosts
  <1>3. CASE AcquireBusy(d, p) \/ Reserve(d, p)
    <2>1. run' \in [Dispatcher -> [Peer -> Run]]
      BY <1>3, GotoType DEF AcquireBusy, Reserve
    <2> QED BY <1>3, <2>1 DEF AcquireBusy, Reserve, TypeOK, store, ghosts
  <1>4. CASE ReserveBusy(d, p)
    BY <1>4, LeaveType DEF ReserveBusy, TypeOK, ghosts
  <1> QED BY <1>1, <1>2, <1>3, <1>4

LEMMA ClaimType ==
  ASSUME TypeOK, NEW d \in Dispatcher, NEW p \in Peer,
         ClaimLease(d, p) \/ ClaimNothing(d, p) \/ ClaimFails(d, p) \/ ClaimLost(d, p)
  PROVE  TypeOK'
  <1>1. CASE ClaimLease(d, p)
    <2>1. PICK m \in Oldest(p) :
            /\ Claimed(p, m)
            /\ run' = [run EXCEPT ![d][p].pc = "running", ![d][p].msg = m]
            /\ runs' = [runs EXCEPT ![m] = @ + 1]
            /\ runner' = [runner EXCEPT ![m] = d]
      BY <1>1 DEF ClaimLease
    <2>2. m \in Message
      BY DEF Oldest, Ready, InState
    <2>3. run' = [run EXCEPT ![d][p] = [run[d][p] EXCEPT !.pc = "running", !.msg = m]]
      BY <2>1 DEF TypeOK
    <2>4. run' \in [Dispatcher -> [Peer -> Run]]
      <3>1. run[d][p] \in Run
        BY DEF TypeOK
      <3>2. [run[d][p] EXCEPT !.pc = "running", !.msg = m] \in Run
        BY <2>2, <3>1 DEF Run
      <3> QED BY <2>3, <3>2, RunUpdate
    <2>6. runs' \in [Message -> Nat] /\ runner' \in [Message -> Dispatcher \cup {NoOwner}]
      BY <2>1, <2>2 DEF TypeOK
    <2>5. state' \in [Message -> State]
      BY <2>1, ClaimedType
    <2> QED BY <1>1, <2>4, <2>5, <2>6 DEF ClaimLease, TypeOK
  <1>2. CASE ClaimNothing(d, p)
    BY <1>2, ClaimedType, LeaveType DEF ClaimNothing, TypeOK, ghosts
  <1>3. CASE ClaimFails(d, p)
    BY <1>3, LeaveType DEF ClaimFails, TypeOK, ghosts
  <1>4. CASE ClaimLost(d, p)
    <2>1. PICK m \in Oldest(p) : Claimed(p, m) /\ runner' = [runner EXCEPT ![m] = d]
      BY <1>4 DEF ClaimLost
    <2>2. state' \in [Message -> State]
      BY <2>1, ClaimedType
    <2>3. runner' \in [Message -> Dispatcher \cup {NoOwner}]
      BY <2>1 DEF TypeOK
    <2>4. /\ faults' \in Nat /\ UNCHANGED <<process, runs, reviews>> /\ Leave(d, p)
      BY <1>4 DEF ClaimLost, Fault, TypeOK
    <2> QED BY <2>2, <2>3, <2>4, LeaveType DEF TypeOK
  <1> QED BY <1>1, <1>2, <1>3, <1>4

LEMMA RunType ==
  ASSUME TypeOK, NEW d \in Dispatcher, NEW p \in Peer,
         \/ LeaseLost(d, p) \/ HeartbeatReads(d, p) \/ EndRun(d, p) \/ AgentReplies(d, p)
         \/ Finished(d, p)
  PROVE  TypeOK'
  <1>1. CASE LeaseLost(d, p) \/ HeartbeatReads(d, p)
    <2>1. PICK c \in {"lease", "cancelled"} : run' = [run EXCEPT ![d][p].cause = c]
      BY <1>1 DEF LeaseLost, HeartbeatReads, Cancelled
    <2>2. run[d][p] \in Run
      BY DEF TypeOK
    <2>3. [run[d][p] EXCEPT !.cause = c] \in Run
      BY <2>2, RunFields
    <2>4. run' \in [Dispatcher -> [Peer -> Run]]
      BY <2>1, <2>3 DEF TypeOK
    <2> QED BY <1>1, <2>4 DEF LeaseLost, HeartbeatReads, TypeOK, store, ghosts
  <1>2. CASE EndRun(d, p)
    <2>1. PICK r \in Results(d, p) :
            run' = [run EXCEPT ![d][p].pc = "ended", ![d][p].result = r]
      BY <1>2 DEF EndRun
    <2>2. run[d][p] \in Run /\ r \in {"ok", "error", "budget"}
      BY DEF TypeOK, Results
    <2>3. [run[d][p] EXCEPT !.pc = "ended", !.result = r] \in Run
      BY <2>2 DEF Run
    <2>4. run' = [run EXCEPT ![d][p] = [run[d][p] EXCEPT !.pc = "ended", !.result = r]]
      BY <2>1 DEF TypeOK
    <2> QED BY <1>2, <2>3, <2>4, RunUpdate DEF EndRun, TypeOK, store, ghosts
  <1>3. CASE AgentReplies(d, p)
    <2>1. state' \in [Message -> State]
      BY <1>3, SetType DEF AgentReplies, State, Terminal
    <2> QED BY <1>3, <2>1 DEF AgentReplies, TypeOK, ghosts
  <1>4. CASE Finished(d, p)
    BY <1>4, OffRun DEF Finished, TypeOK, store, ghosts
  <1> QED BY <1>1, <1>2, <1>3, <1>4

LEMMA SettleType ==
  ASSUME TypeOK, NEW d \in Dispatcher, NEW p \in Peer,
         \/ Reconcile(d, p) \/ ReconcileInvalidates(d, p) \/ Settle(d, p)
         \/ LeaveWork(d, p)
  PROVE  TypeOK'
  <1>1. CASE Reconcile(d, p)
    BY <1>1, GotoType DEF Reconcile, TypeOK, store, ghosts
  <1>2. CASE ReconcileInvalidates(d, p) \/ Settle(d, p)
    <2>1. state' \in [Message -> State]
      BY <1>2, SetType DEF ReconcileInvalidates, Settle, Outcomes, State, Terminal
    <2> QED BY <1>2, <2>1, LeaveType DEF ReconcileInvalidates, Settle, TypeOK, ghosts
  <1>3. CASE LeaveWork(d, p)
    BY <1>3, LeaveType DEF LeaveWork, TypeOK, ghosts
  <1> QED BY <1>1, <1>2, <1>3
-----------------------------------------------------------------------------
(* Assignments *)

Step(d, p) == Executes(d, p) \/ ClaimLost(d, p) \/ AgentReplies(d, p)

\* A step of an execution touches no other, and only a claim assigns it work.
LEMMA StepRun ==
  ASSUME TypeOK, NEW d \in Dispatcher, NEW p \in Peer, Step(d, p)
  PROVE  /\ \A e \in Dispatcher, q \in Peer : e # d \/ q # p => run'[e][q] = run[e][q]
         /\ run'[d][p].pc \in Working =>
              \/ ClaimLease(d, p) /\ run'[d][p].msg \in Oldest(p)
              \/ run[d][p].pc \in Working /\ run'[d][p].msg = run[d][p].msg
  <1>1. CASE ClaimLease(d, p)
    <2>1. PICK m \in Oldest(p) :
            run' = [run EXCEPT ![d][p].pc = "running", ![d][p].msg = m]
      BY <1>1 DEF ClaimLease
    <2>2. run'[d][p].msg = m
      BY <2>1 DEF TypeOK, Run
    <2> QED BY <1>1, <2>1, <2>2 DEF TypeOK
  <1>2. CASE \/ AcquireLease(d, p) \/ AcquireRecovers(d, p) \/ AcquireBusy(d, p)
             \/ Reserve(d, p) \/ Reconcile(d, p)
    <2>1. PICK pc : run' = [run EXCEPT ![d][p].pc = pc]
      BY <1>2 DEF AcquireLease, AcquireRecovers, AcquireBusy, Reserve, Reconcile, Goto
    <2>2. run'[d][p].pc \in Working => Reconcile(d, p)
      BY <1>2 DEF AcquireLease, AcquireRecovers, AcquireBusy, Reserve, Goto, Working,
         TypeOK, Run
    <2>3. run'[d][p].msg = run[d][p].msg
      BY <2>1 DEF TypeOK, Run
    <2> QED BY <2>1, <2>2, <2>3 DEF TypeOK, Reconcile, At, Working
  <1>3. CASE \/ ReserveBusy(d, p) \/ ClaimNothing(d, p) \/ ClaimFails(d, p)
             \/ ClaimLost(d, p) \/ ReconcileInvalidates(d, p) \/ Settle(d, p)
             \/ LeaveWork(d, p) \/ Finished(d, p)
    <2>1. PICK r \in {Off, [Off EXCEPT !.pc = "finished"]} : run' = [run EXCEPT ![d][p] = r]
      BY <1>3 DEF ReserveBusy, ClaimNothing, ClaimFails, ClaimLost, ReconcileInvalidates,
         Settle, LeaveWork, Finished, Leave
    <2>2. r.pc \notin Working
      BY DEF Off, Working
    <2> QED BY <2>1, <2>2 DEF TypeOK
  <1>4. CASE LeaseLost(d, p) \/ HeartbeatReads(d, p)
    <2>1. PICK c : run' = [run EXCEPT ![d][p].cause = c]
      BY <1>4 DEF LeaseLost, HeartbeatReads, Cancelled
    <2> QED BY <1>4, <2>1 DEF LeaseLost, HeartbeatReads, At, Working, TypeOK, Run
  <1>5. CASE EndRun(d, p)
    <2>1. PICK r : run' = [run EXCEPT ![d][p].pc = "ended", ![d][p].result = r]
      BY <1>5 DEF EndRun
    <2> QED BY <1>5, <2>1 DEF EndRun, At, Working, TypeOK, Run
  <1>6. CASE AgentReplies(d, p)
    BY <1>6 DEF AgentReplies
  <1> QED BY <1>1, <1>2, <1>3, <1>4, <1>5, <1>6 DEF Step, Executes

LEMMA StepAssigned ==
  ASSUME TypeOK, Assigned, NEW d \in Dispatcher, NEW p \in Peer, Step(d, p)
  PROVE  Assigned'
  <1>1. \A m \in Oldest(p) : m \in Message /\ To[m] = p
    BY DEF Oldest, Ready, InState
  <1> QED BY <1>1, StepRun DEF Assigned, Msg

LEMMA ProcessAssigned ==
  ASSUME TypeOK, Assigned, NEW d \in Dispatcher,
         Scan(d) \/ Stop(d) \/ RunReturns(d) \/ Crash(d) \/ Restart(d)
  PROVE  Assigned'
  <1>1. \A e \in Dispatcher, q \in Peer :
          run'[e][q] = run[e][q] \/ run'[e][q].pc \notin Working
    BY DEF Scan, Stop, RunReturns, Crash, Restart, Off, Working, TypeOK
  <1> QED BY <1>1 DEF Assigned, Msg
-----------------------------------------------------------------------------
(* Executions and reviews *)

LEMMA NothingUsed ==
  ASSUME Unused, UNCHANGED <<runs, reviews>>,
         \A m \in Message : \/ state'[m] = state[m]
                            \/ state'[m] \notin {"none", "accepted"}
                            \/ state[m] = "none"
  PROVE  Unused'
  BY DEF Unused

LEMMA ReviewUnused ==
  ASSUME TypeOK, Unused, NEW m \in Message, Review(m)
  PROVE  Unused'
  <1>1. /\ reviews' = [reviews EXCEPT ![m] = @ + 1] /\ runs' = runs
        /\ reviews[m] \in Nat /\ runs[m] \in Nat
        /\ \A n \in Message : n # m => state'[n] = state[n]
    BY DEF Review, Set, TypeOK
  <1>2. runs[m] <= 1 + reviews[m]
    BY DEF Unused
  <1> SUFFICES ASSUME NEW n \in Message
               PROVE  /\ runs'[n] <= 1 + reviews'[n]
                      /\ state'[n] \in {"none", "accepted"} => runs'[n] <= reviews'[n]
    BY DEF Unused
  <1>3. CASE n = m
    <2>1. reviews'[m] = reviews[m] + 1
      BY <1>1 DEF TypeOK
    <2> QED BY <1>1, <1>2, <1>3, <2>1
  <1>4. CASE n # m
    <2>1. reviews'[n] = reviews[n] /\ state'[n] = state[n]
      BY <1>1, <1>4 DEF TypeOK
    <2> QED BY <1>1, <2>1 DEF Unused
  <1> QED BY <1>3, <1>4

LEMMA ClaimUnused ==
  ASSUME TypeOK, Unused, NEW d \in Dispatcher, NEW p \in Peer, ClaimLease(d, p)
  PROVE  Unused'
  <1>1. PICK m \in Oldest(p) : Claimed(p, m) /\ runs' = [runs EXCEPT ![m] = @ + 1]
    BY DEF ClaimLease
  <1>2. m \in Message /\ state[m] = "accepted" /\ reviews' = reviews
    BY DEF ClaimLease, Oldest, Ready, InState
  <1>3. runs[m] \in Nat /\ reviews[m] \in Nat /\ runs[m] <= reviews[m]
    BY <1>2 DEF Unused, TypeOK
  <1> SUFFICES ASSUME NEW n \in Message
               PROVE  /\ runs'[n] <= 1 + reviews'[n]
                      /\ state'[n] \in {"none", "accepted"} => runs'[n] <= reviews'[n]
    BY DEF Unused
  <1>4. CASE n = m
    <2>1. runs'[m] = runs[m] + 1
      BY <1>1, <1>2 DEF TypeOK
    <2>2. state'[m] = "started"
      <3>1. m \notin Hopeless(p)
        BY DEF Oldest, Ready, Hopeless
      <3> QED BY <1>1, <1>2, <3>1 DEF Claimed
    <2> QED BY <1>2, <1>3, <1>4, <2>1, <2>2
  <1>5. CASE n # m
    <2>1. runs'[n] = runs[n]
      BY <1>1, <1>5 DEF TypeOK
    <2>2. state'[n] = state[n] \/ state'[n] = "failed"
      BY <1>1, <1>5 DEF Claimed
    <2> QED BY <1>2, <2>1, <2>2 DEF Unused
  <1> QED BY <1>4, <1>5

LEMMA StepUnused ==
  ASSUME TypeOK, Unused, NEW d \in Dispatcher, NEW p \in Peer, Step(d, p)
  PROVE  Unused'
  <1>1. CASE ClaimLease(d, p)
    BY <1>1, ClaimUnused
  <1>2. CASE ClaimLost(d, p) \/ ClaimNothing(d, p)
    <2>1. \E m : Claimed(p, m)
      BY <1>2 DEF ClaimLost, ClaimNothing
    <2>2. \A m \in Message : state'[m] = state[m] \/ state'[m] \in {"started", "failed"}
      BY <2>1 DEF Claimed
    <2>3. UNCHANGED <<runs, reviews>>
      BY <1>2 DEF ClaimLost, ClaimNothing, ghosts
    <2> QED BY <2>2, <2>3, NothingUsed
  <1>3. CASE \/ AcquireRecovers(d, p) \/ AgentReplies(d, p)
             \/ ReconcileInvalidates(d, p) \/ Settle(d, p)
    <2>1. UNCHANGED <<runs, reviews>>
      BY <1>3 DEF AcquireRecovers, AgentReplies, ReconcileInvalidates, Settle, ghosts
    <2>2. \E S, s : Set(S, s) /\ s \notin {"none", "accepted"}
      BY <1>3 DEF AcquireRecovers, AgentReplies, ReconcileInvalidates, Settle, Interrupted,
         Outcomes
    <2> QED BY <2>1, <2>2, NothingUsed DEF Set
  <1>4. CASE \/ AcquireLease(d, p) \/ AcquireBusy(d, p) \/ Reserve(d, p) \/ ReserveBusy(d, p)
             \/ ClaimFails(d, p) \/ LeaseLost(d, p) \/ HeartbeatReads(d, p) \/ EndRun(d, p)
             \/ Reconcile(d, p) \/ LeaveWork(d, p) \/ Finished(d, p)
    <2>1. UNCHANGED <<state, runs, reviews>>
      BY <1>4 DEF AcquireLease, AcquireBusy, Reserve, ReserveBusy, ClaimFails, LeaseLost,
         HeartbeatReads, EndRun, Reconcile, LeaveWork, Finished, store, ghosts
    <2> QED BY <2>1, NothingUsed
  <1> QED BY <1>1, <1>2, <1>3, <1>4 DEF Step, Executes
-----------------------------------------------------------------------------
(* The inductive invariant *)

LEMMA InitHolds == Init => IInv
  BY OffRun DEF Init, IInv, TypeOK, Assigned, Unused, NoLease, Off, Working, State

LEMMA StepsKeep ==
  ASSUME IInv, NEW d \in Dispatcher, NEW p \in Peer, Step(d, p)
  PROVE  IInv'
  <1>1. TypeOK'
    BY AcquireType, ClaimType, RunType, SettleType DEF IInv, Step, Executes
  <1> QED BY <1>1, StepAssigned, StepUnused DEF IInv

LEMMA OthersKeep ==
  ASSUME IInv,
         \/ \E m \in Message : Send(m) \/ Cancel(m) \/ Review(m)
         \/ \E p \in Peer : HumanTurn(p) \/ HumanTurnEnds(p) \/ LeaseExpires(p)
         \/ \E d \in Dispatcher : \/ Scan(d) \/ Stop(d) \/ RunReturns(d)
                                 \/ Crash(d) \/ Restart(d)
  PROVE  IInv'
  <1>1. CASE \E m \in Message : Send(m) \/ Cancel(m)
    <2>1. PICK m \in Message : Send(m) \/ Cancel(m)
      BY <1>1
    <2>2. Unused'
      BY <2>1, NothingUsed DEF IInv, Send, Cancel, Set, ghosts
    <2> QED BY <2>1, <2>2, PeopleType DEF IInv, Assigned, Msg, Send, Cancel
  <1>2. CASE \E m \in Message : Review(m)
    BY <1>2, PeopleType, ReviewUnused DEF IInv, Assigned, Msg, Review
  <1>3. CASE \E p \in Peer : HumanTurn(p) \/ HumanTurnEnds(p) \/ LeaseExpires(p)
    <2>1. UNCHANGED <<state, run, runs, reviews>>
      BY <1>3 DEF HumanTurn, HumanTurnEnds, LeaseExpires, store, ghosts
    <2> QED BY <1>3, <2>1, PeerType, NothingUsed DEF IInv, Assigned, Msg
  <1>4. CASE \E d \in Dispatcher : \/ Scan(d) \/ Stop(d) \/ RunReturns(d)
                                  \/ Crash(d) \/ Restart(d)
    <2>1. UNCHANGED <<state, runs, reviews>>
      BY <1>4 DEF Scan, Stop, RunReturns, Crash, Restart, store, ghosts
    <2> QED BY <1>4, <2>1, ProcessType, ProcessAssigned, NothingUsed DEF IInv
  <1> QED BY <1>1, <1>2, <1>3, <1>4

LEMMA Preserved == IInv /\ [Next]_vars => IInv'
  <1>1. IInv /\ UNCHANGED vars => IInv'
    BY DEF IInv, TypeOK, Assigned, Msg, Unused, vars, store, ghosts
  <1> QED BY <1>1, StepsKeep, OthersKeep DEF Next, Step

\* Types, assignments and unused executions, in every state.
THEOREM Inductive == Spec => []IInv
  BY InitHolds, Preserved, PTL DEF Spec

\* Every step keeps rows, leases, reservations and executions well formed.
THEOREM TypesKept == Spec => []TypeOK
  <1>1. IInv => TypeOK
    BY DEF IInv
  <1> QED BY <1>1, Inductive, PTL

\* "Interrupted work requires review": crashes, stalls, stops and lost answers
\* never run an agent again for a message that nobody reviewed.
THEOREM ReplayNeedsReview == Spec => []NoReplay
  <1>1. IInv => NoReplay
    BY DEF IInv, Unused, NoReplay
  <1> QED BY <1>1, Inductive, PTL
-----------------------------------------------------------------------------
(* The owner decides *)

\* Started work is changed by its caller or under the lease of its recipient;
\* an acquisition that finds the lease live leaves it alone.
LEMMA OwnerKeepsWork ==
  ASSUME IInv, [Next]_vars, NEW d \in Dispatcher, NEW p \in Peer,
         run[d][p].pc \in Working, HoldsLease(d, p), state[Msg(d, p)] = "started"
  PROVE  \/ state'[Msg(d, p)] \in {"started", "cancelled"}
         \/ AgentReplies(d, p)
         \/ run'[d][p] # run[d][p]
  <1> DEFINE m == Msg(d, p)
  <1>0. m \in Message /\ To[m] = p /\ TypeOK
    BY DEF IInv, Assigned
  <1>1. CASE \E n \in Message : Send(n) \/ Cancel(n) \/ Review(n)
    BY <1>0, <1>1 DEF Send, Cancel, Review, Set
  <1>2. CASE \/ \E q \in Peer : HumanTurn(q) \/ HumanTurnEnds(q) \/ LeaseExpires(q)
             \/ \E e \in Dispatcher : \/ Scan(e) \/ Stop(e) \/ RunReturns(e)
                                     \/ Crash(e) \/ Restart(e)
             \/ UNCHANGED vars
    <2>1. state' = state
      BY <1>2 DEF HumanTurn, HumanTurnEnds, LeaseExpires, Scan, Stop, RunReturns, Crash,
         Restart, vars, store
    <2> QED BY <2>1
  <1>3. ASSUME NEW e \in Dispatcher, NEW q \in Peer, Step(e, q)
        PROVE  \/ state'[m] \in {"started", "cancelled"}
               \/ AgentReplies(d, p)
               \/ run'[d][p] # run[d][p]
    <2>1. CASE \/ ClaimLease(e, q) \/ ClaimNothing(e, q) \/ ClaimLost(e, q)
      <3>1. \E n : Claimed(q, n)
        BY <2>1 DEF ClaimLease, ClaimNothing, ClaimLost
      <3>2. m \notin Hopeless(q)
        BY DEF Hopeless, InState
      <3> QED BY <1>0, <3>1, <3>2 DEF Claimed
    <2>2. CASE AcquireRecovers(e, q)
      <3>1. q # p
        BY <2>2 DEF AcquireRecovers, LeaseLive, HoldsLease
      <3> QED BY <1>0, <2>2, <3>1 DEF AcquireRecovers, Set, InState
    <2>3. CASE AgentReplies(e, q) \/ ReconcileInvalidates(e, q) \/ Settle(e, q)
      <3>1. /\ run[e][q].pc \in Working /\ HoldsLease(e, q)
            /\ \E s : Set({Msg(e, q)}, s)
        BY <2>3 DEF AgentReplies, ReconcileInvalidates, Settle, MayFinish, At, Working
      <3>2. CASE Msg(e, q) = m
        <4>1. q = p /\ e = d
          BY <1>0, <3>1, <3>2 DEF IInv, Assigned, HoldsLease
        <4>2. CASE AgentReplies(e, q)
          BY <4>1, <4>2
        <4>3. CASE ReconcileInvalidates(e, q) \/ Settle(e, q)
          <5>1. run'[d][p].pc = "finished"
            BY <1>0, <4>1, <4>3 DEF ReconcileInvalidates, Settle, Leave, TypeOK, Off
          <5> QED BY <5>1 DEF Working
        <4> QED BY <2>3, <4>2, <4>3
      <3>3. CASE Msg(e, q) # m
        BY <1>0, <3>1, <3>3 DEF Set
      <3> QED BY <3>2, <3>3
    <2>4. CASE \/ AcquireLease(e, q) \/ AcquireBusy(e, q) \/ Reserve(e, q)
               \/ ReserveBusy(e, q) \/ ClaimFails(e, q) \/ LeaseLost(e, q)
               \/ HeartbeatReads(e, q) \/ EndRun(e, q) \/ Reconcile(e, q)
               \/ LeaveWork(e, q) \/ Finished(e, q)
      <3>1. state' = state
        BY <2>4 DEF AcquireLease, AcquireBusy, Reserve, ReserveBusy, ClaimFails, LeaseLost,
           HeartbeatReads, EndRun, Reconcile, LeaveWork, Finished, store
      <3> QED BY <3>1
    <2> QED BY <1>3, <2>1, <2>2, <2>3, <2>4 DEF Step, Executes
  <1> QED BY <1>1, <1>2, <1>3 DEF Next, Step

\* While an execution holds its live lease, nobody else ends, blocks or
\* requeues its message, except by cancelling it.
THEOREM Owners == Spec => OwnerDecides
  <1>1. IInv /\ [Next]_vars =>
          [\A d \in Dispatcher, p \in Peer :
             /\ run[d][p].pc \in {"running", "ended", "settle"} /\ HoldsLease(d, p)
             /\ state[Msg(d, p)] = "started"
             => \/ state'[Msg(d, p)] \in {"started", "cancelled"}
                \/ AgentReplies(d, p)
                \/ run'[d][p] # run[d][p]]_vars
    BY OwnerKeepsWork DEF Working
  <1> QED BY <1>1, Inductive, PTL DEF OwnerDecides, Spec
-----------------------------------------------------------------------------
(* A clean stop *)

\* The five parts of what holds as long as nothing failed.
LeaseAccounted ==
  \A p \in Peer, d \in Dispatcher :
    lease[p].owner = d => lease[p].live /\ run[d][p].pc \in Leasing
LeaseHeld ==
  \A d \in Dispatcher, p \in Peer :
    /\ run[d][p].pc \in Leasing => HoldsLease(d, p)
    /\ run[d][p].cause # "lease"
SessionAccounted ==
  \A p \in Peer, d \in Dispatcher :
    session[p] = d => run[d][p].pc \in {"claim"} \cup Working
WorkAccounted ==
  \A m \in Message, d \in Dispatcher :
    state[m] = "started" /\ runner[m] = d =>
      run[d][To[m]].pc \in Working /\ run[d][To[m]].msg = m
StoppedOff ==
  \A d \in Dispatcher : process[d] = "stopped" => \A p \in Peer : run[d][p].pc = "off"
Accounted == /\ LeaseAccounted /\ LeaseHeld /\ SessionAccounted
             /\ WorkAccounted /\ StoppedOff

\* The invariant only speaks of behaviours without a fault.
FaultFree == faults = 0 => Accounted

LEMMA FaultsOnlyGrow ==
  ASSUME TypeOK, [Next]_vars
  PROVE  faults' = faults \/ faults' = faults + 1
  <1>1. CASE \E m \in Message : Send(m) \/ Cancel(m) \/ Review(m)
    BY <1>1 DEF Send, Cancel, Review
  <1>2. CASE \E p \in Peer : HumanTurn(p) \/ HumanTurnEnds(p) \/ LeaseExpires(p)
    BY <1>2 DEF HumanTurn, HumanTurnEnds, LeaseExpires, Fault
  <1>3. CASE \E d \in Dispatcher, p \in Peer : ClaimLost(d, p) \/ AgentReplies(d, p)
    BY <1>3 DEF ClaimLost, AgentReplies, Fault
  <1>4. CASE \E d \in Dispatcher : \/ Scan(d) \/ Stop(d) \/ RunReturns(d)
                                  \/ Crash(d) \/ Restart(d)
    BY <1>4 DEF Scan, Stop, RunReturns, Crash, Restart, Fault
  <1>5. CASE \E d \in Dispatcher, p \in Peer : Executes(d, p)
    BY <1>5 DEF Executes, AcquireLease, AcquireRecovers, AcquireBusy, Reserve, ReserveBusy,
       ClaimLease, ClaimNothing, ClaimFails, LeaseLost, HeartbeatReads, EndRun, Reconcile,
       ReconcileInvalidates, Settle, LeaveWork, Finished
  <1>6. CASE UNCHANGED vars
    BY <1>6 DEF vars
  <1> QED BY <1>1, <1>2, <1>3, <1>4, <1>5, <1>6 DEF Next

LEMMA SteadyAccounted ==
  ASSUME Accounted, NEW m \in Message, Send(m) \/ Cancel(m) \/ Review(m)
  PROVE  Accounted'
  <1>1. \A n \in Message : state'[n] = "started" => state[n] = "started"
    BY DEF Send, Cancel, Review, Set
  <1>2. UNCHANGED <<lease, session, process, run, runner>>
    BY DEF Send, Cancel, Review, ghosts
  <1> QED BY <1>1, <1>2 DEF Accounted, LeaseAccounted, LeaseHeld, HoldsLease,
          SessionAccounted, WorkAccounted, StoppedOff

LEMMA PeerAccounted ==
  ASSUME TypeOK, Accounted, NEW p \in Peer,
         HumanTurn(p) \/ HumanTurnEnds(p) \/ LeaseExpires(p), faults' = 0
  PROVE  Accounted'
  <1>1. CASE HumanTurn(p) \/ HumanTurnEnds(p)
    <2>1. UNCHANGED <<lease, state, process, run, runner>>
      BY <1>1 DEF HumanTurn, HumanTurnEnds, store, ghosts
    <2>2. \A q \in Peer, d \in Dispatcher : session'[q] = d => session[q] = d
      BY <1>1, DispatchAssumption DEF HumanTurn, HumanTurnEnds, TypeOK
    <2> QED BY <2>1, <2>2 DEF Accounted, LeaseAccounted, LeaseHeld, HoldsLease,
            SessionAccounted, WorkAccounted, StoppedOff
  <1>2. CASE LeaseExpires(p)
    <2>1. ~ Held(p)
      BY <1>2 DEF LeaseExpires, Fault, TypeOK
    <2>2. \A d \in Dispatcher : lease[p].owner # d
      BY <2>1 DEF Held, Accounted, LeaseAccounted, Leasing, Working
    <2>3. /\ lease' = [lease EXCEPT ![p].live = FALSE]
          /\ UNCHANGED <<state, session, process, run, runner>>
      BY <1>2 DEF LeaseExpires, ghosts
    <2>4. LeaseAccounted' /\ LeaseHeld'
      BY <2>2, <2>3 DEF Accounted, LeaseAccounted, LeaseHeld, HoldsLease, TypeOK
    <2> QED BY <2>3, <2>4 DEF Accounted, SessionAccounted, WorkAccounted, StoppedOff
  <1> QED BY <1>1, <1>2

LEMMA ProcessAccounted ==
  ASSUME TypeOK, Accounted, NEW d \in Dispatcher, faults' = 0,
         Scan(d) \/ Stop(d) \/ RunReturns(d) \/ Crash(d) \/ Restart(d)
  PROVE  Accounted'
  <1>1. UNCHANGED <<state, lease, runner>>
    BY DEF Scan, Stop, RunReturns, Crash, Restart, store, ghosts
  <1>2. CASE Scan(d) \/ RunReturns(d)
    <2>1. \A e \in Dispatcher, q \in Peer :
            \/ run'[e][q] = run[e][q]
            \/ /\ run[e][q].pc \notin Leasing /\ run'[e][q].pc \notin Leasing
               /\ run'[e][q].cause = "none" /\ e = d
      <3>1. CASE Scan(d)
        <4>1. \A q \in Chosen(d) : run[d][q].pc = "off"
          BY DEF Chosen, Waiting, ActivePeers, At
        <4>2. run' = [run EXCEPT ![d] = [q \in Peer |-> IF q \in Chosen(d)
                        THEN [Off EXCEPT !.pc = "acquire"] ELSE @[q]]]
          BY <3>1 DEF Scan
        <4> QED BY <4>1, <4>2 DEF Off, Leasing, Working, TypeOK
      <3>2. CASE RunReturns(d)
        BY <3>2 DEF RunReturns, Off, Leasing, Working, TypeOK
      <3> QED BY <1>2, <3>1, <3>2
    <2>2. UNCHANGED session
      BY <1>2 DEF Scan, RunReturns
    <2>3. LeaseAccounted' /\ LeaseHeld' /\ SessionAccounted'
      BY <1>1, <2>1, <2>2 DEF Accounted, LeaseAccounted, LeaseHeld, HoldsLease,
         SessionAccounted, Leasing
    <2>4. WorkAccounted'
      BY <1>1, <2>1, DispatchAssumption DEF Accounted, WorkAccounted, Leasing
    <2>5. StoppedOff'
      BY <1>2 DEF Accounted, StoppedOff, Scan, RunReturns, Up, Off, TypeOK
    <2> QED BY <2>3, <2>4, <2>5 DEF Accounted
  <1>3. CASE Stop(d) \/ Restart(d)
    <2>1. UNCHANGED <<run, session>>
      BY <1>3 DEF Stop, Restart
    <2>2. \A e \in Dispatcher : process'[e] = "stopped" => process[e] = "stopped"
      BY <1>3 DEF Stop, Restart, TypeOK
    <2> QED BY <1>1, <2>1, <2>2 DEF Accounted, LeaseAccounted, LeaseHeld, HoldsLease,
            SessionAccounted, WorkAccounted, StoppedOff
  <1>4. CASE Crash(d)
    BY <1>4 DEF Crash, Fault, TypeOK
  <1> QED BY <1>2, <1>3, <1>4

\* An execution that takes steps is in the pool, so its dispatcher runs.
LEMMA StepRuns ==
  ASSUME TypeOK, Accounted, NEW d \in Dispatcher, NEW p \in Peer, Step(d, p)
  PROVE  /\ process[d] # "stopped" /\ UNCHANGED process
         /\ lease[p].owner = d <=> run[d][p].pc \in Leasing
         /\ run[d][p].pc \in Leasing => lease[p].live
         /\ run[d][p].cause # "lease"
  <1>1. run[d][p].pc # "off" /\ UNCHANGED process
    BY DEF Step, Executes, AcquireLease, AcquireRecovers, AcquireBusy, Reserve, ReserveBusy,
       ClaimLease, ClaimNothing, ClaimFails, ClaimLost, Claimable, LeaseLost, HeartbeatReads,
       AgentReplies, EndRun, Reconcile, ReconcileInvalidates, Settle, LeaveWork, Finished, At
  <1> QED BY <1>1 DEF Accounted, StoppedOff, LeaseAccounted, LeaseHeld, HoldsLease

\* What a step of the execution of d for p may do to p's lease, reservation and
\* work, so that the accounts stay in order.
LeaseStep(d, p) ==
  /\ \A q \in Peer \ {p} : lease'[q] = lease[q]
  /\ \/ lease'[p] = lease[p]
     \/ lease'[p] = NoLease /\ (~ LeaseLive(p) \/ lease[p].owner = d)
     \/ lease'[p] = [owner |-> d, live |-> TRUE] /\ ~ LeaseLive(p)
  /\ run'[d][p].pc \in Leasing <=> lease'[p].owner = d
  /\ run'[d][p].cause # "lease"
SessionStep(d, p) ==
  /\ \A q \in Peer \ {p} : session'[q] = session[q]
  /\ \A e \in Dispatcher \ {d} : session'[p] = e => session[p] = e
  /\ session'[p] = d => run'[d][p].pc \in {"claim"} \cup Working
WorkStep(d, p) ==
  \A m \in Message :
    /\ To[m] # p => /\ state'[m] = "started" => state[m] = "started"
                    /\ runner'[m] = runner[m]
    /\ To[m] = p /\ state'[m] = "started" =>
         \/ state[m] = "started" /\ runner'[m] = runner[m] /\ runner[m] # d
         \/ runner'[m] = d /\ run'[d][p].pc \in Working /\ run'[d][p].msg = m

LEMMA OthersAccounted ==
  ASSUME TypeOK, Accounted, NEW d \in Dispatcher, NEW p \in Peer, Step(d, p),
         LeaseStep(d, p), SessionStep(d, p), WorkStep(d, p)
  PROVE  Accounted'
  <1>0. /\ process[d] # "stopped" /\ UNCHANGED process
        /\ \A e \in Dispatcher, q \in Peer : e # d \/ q # p => run'[e][q] = run[e][q]
    BY StepRuns, StepRun
  <1>1. LeaseAccounted'
    <2> SUFFICES ASSUME NEW q \in Peer, NEW e \in Dispatcher, lease'[q].owner = e
                 PROVE  lease'[q].live /\ run'[e][q].pc \in Leasing
      BY DEF LeaseAccounted
    <2>1. CASE q # p
      BY <1>0, <2>1 DEF Accounted, LeaseAccounted, LeaseStep
    <2>2. CASE q = p /\ e = d
      BY <2>2, DispatchAssumption DEF Accounted, LeaseAccounted, LeaseStep, NoLease
    <2>3. CASE q = p /\ e # d
      <3>1. lease'[p] = lease[p]
        BY <2>3, DispatchAssumption DEF LeaseStep, NoLease
      <3> QED BY <1>0, <2>3, <3>1 DEF Accounted, LeaseAccounted
    <2> QED BY <2>1, <2>2, <2>3
  <1>2. LeaseHeld'
    <2> SUFFICES ASSUME NEW e \in Dispatcher, NEW q \in Peer
                 PROVE  /\ run'[e][q].pc \in Leasing =>
                             lease'[q].owner = e /\ lease'[q].live
                        /\ run'[e][q].cause # "lease"
      BY DEF LeaseHeld, HoldsLease
    <2>1. CASE q # p
      BY <1>0, <2>1 DEF Accounted, LeaseHeld, HoldsLease, LeaseStep
    <2>2. CASE q = p /\ e = d
      BY <1>1, <2>2 DEF LeaseAccounted, LeaseStep
    <2>3. CASE q = p /\ e # d
      BY <1>0, <2>3 DEF Accounted, LeaseHeld, HoldsLease, LeaseLive, LeaseStep
    <2> QED BY <2>1, <2>2, <2>3
  <1>3. SessionAccounted'
    <2> SUFFICES ASSUME NEW q \in Peer, NEW e \in Dispatcher, session'[q] = e
                 PROVE  run'[e][q].pc \in {"claim"} \cup Working
      BY DEF SessionAccounted
    <2>1. CASE q # p
      BY <1>0, <2>1 DEF Accounted, SessionAccounted, SessionStep
    <2>2. CASE q = p
      BY <1>0, <2>2 DEF Accounted, SessionAccounted, SessionStep
    <2> QED BY <2>1, <2>2
  <1>4. WorkAccounted'
    <2> SUFFICES ASSUME NEW m \in Message, NEW e \in Dispatcher,
                        state'[m] = "started", runner'[m] = e
                 PROVE  run'[e][To[m]].pc \in Working /\ run'[e][To[m]].msg = m
      BY DEF WorkAccounted
    <2>1. To[m] \in Peer
      BY DispatchAssumption
    <2>2. CASE To[m] # p
      BY <1>0, <2>1, <2>2 DEF Accounted, WorkAccounted, WorkStep
    <2>3. CASE To[m] = p
      BY <1>0, <2>1, <2>3 DEF Accounted, WorkAccounted, WorkStep
    <2> QED BY <2>2, <2>3
  <1>5. StoppedOff'
    BY <1>0 DEF Accounted, StoppedOff
  <1> QED BY <1>1, <1>2, <1>3, <1>4, <1>5 DEF Accounted

\* An acquisition finds no lease, or leaves none.
LEMMA AcquireAccounted ==
  ASSUME TypeOK, Accounted, NEW d \in Dispatcher, NEW p \in Peer,
         \/ AcquireLease(d, p) \/ AcquireRecovers(d, p) \/ AcquireBusy(d, p)
         \/ Reserve(d, p) \/ Finished(d, p)
  PROVE  Accounted'
  <1>1. Step(d, p)
    BY DEF Step, Executes
  <1>2. /\ lease[p].owner = d <=> run[d][p].pc \in Leasing
        /\ run[d][p].cause # "lease"
    BY <1>1, StepRuns
  <1>3. run[d][p].pc \notin Working /\ run'[d][p].cause # "lease"
    <2>1. run[d][p].pc \notin Working
      BY DEF AcquireLease, AcquireRecovers, AcquireBusy, Reserve, Finished, At, Working
    <2>2. run' = [run EXCEPT ![d][p] = Off] \/ \E pc : run' = [run EXCEPT ![d][p].pc = pc]
      BY DEF AcquireLease, AcquireRecovers, AcquireBusy, Reserve, Finished, Goto
    <2>3. CASE run' = [run EXCEPT ![d][p] = Off]
      BY <1>2, <2>1, <2>3 DEF Off, TypeOK
    <2>4. CASE \E pc : run' = [run EXCEPT ![d][p].pc = pc]
      <3>1. PICK pc : run' = [run EXCEPT ![d][p].pc = pc]
        BY <2>4
      <3> QED BY <1>2, <2>1, <3>1 DEF TypeOK, Run
    <2> QED BY <2>2, <2>3, <2>4
  <1>4. WorkStep(d, p)
    <2>1. \A m \in Message : To[m] = p /\ state[m] = "started" => runner[m] # d
      BY <1>3 DEF Accounted, WorkAccounted
    <2>2. state' = state \/ Set(InState(p, {"started"}), "blocked")
      BY DEF AcquireLease, AcquireRecovers, AcquireBusy, Reserve, Finished, Interrupted, store
    <2>3. \A m \in Message : state'[m] = "started" => state[m] = "started"
      BY <2>2 DEF Set
    <2>4. UNCHANGED runner
      BY DEF AcquireLease, AcquireRecovers, AcquireBusy, Reserve, Finished, ghosts
    <2> QED BY <2>1, <2>3, <2>4 DEF WorkStep
  <1>5. LeaseStep(d, p)
    <2>1. CASE AcquireLease(d, p)
      <3>1. /\ run'[d][p].pc = "reserve" /\ ~ LeaseLive(p)
            /\ lease' = [lease EXCEPT ![p] = [owner |-> d, live |-> TRUE]]
        BY <2>1 DEF AcquireLease, Goto, TypeOK, Run
      <3>2. lease'[p] = [owner |-> d, live |-> TRUE]
        BY <3>1 DEF TypeOK
      <3> QED BY <1>3, <3>1, <3>2 DEF LeaseStep, Leasing, TypeOK
    <2>2. CASE AcquireRecovers(d, p)
      <3>1. /\ run'[d][p].pc = "finished" /\ ~ LeaseLive(p)
            /\ lease' = [lease EXCEPT ![p] = NoLease]
        BY <2>2 DEF AcquireRecovers, Goto, TypeOK, Run
      <3>2. lease'[p] = NoLease /\ NoLease.owner # d
        BY <3>1, DispatchAssumption DEF TypeOK, NoLease
      <3> QED BY <1>3, <3>1, <3>2 DEF LeaseStep, Leasing, Working, TypeOK
    <2>3. CASE AcquireBusy(d, p) \/ Finished(d, p)
      <3>1. run[d][p].pc \notin Leasing /\ run'[d][p].pc \notin Leasing
        BY <2>3 DEF AcquireBusy, Finished, At, Goto, Off, TypeOK, Run, Leasing, Working
      <3> QED BY <1>2, <1>3, <2>3, <3>1 DEF AcquireBusy, Finished, LeaseStep, store
    <2>4. CASE Reserve(d, p)
      <3>1. run[d][p].pc \in Leasing /\ run'[d][p].pc \in Leasing
        BY <2>4 DEF Reserve, At, Goto, TypeOK, Run, Leasing
      <3> QED BY <1>2, <1>3, <2>4, <3>1 DEF Reserve, LeaseStep, store
    <2> QED BY <2>1, <2>2, <2>3, <2>4
  <1>6. SessionStep(d, p)
    <2>1. CASE Reserve(d, p)
      <3>1. session' = [session EXCEPT ![p] = d] /\ run'[d][p].pc = "claim"
        BY <2>1 DEF Reserve, Goto, TypeOK, Run
      <3> QED BY <3>1 DEF SessionStep, TypeOK
    <2>2. CASE ~ Reserve(d, p)
      <3>1. run[d][p].pc \in {"acquire", "finished"} /\ UNCHANGED session
        BY <2>2 DEF AcquireLease, AcquireRecovers, AcquireBusy, Finished, At
      <3>2. session[p] # d
        BY <3>1 DEF Accounted, SessionAccounted, Working
      <3> QED BY <3>1, <3>2 DEF SessionStep
    <2> QED BY <2>1, <2>2
  <1> QED BY <1>1, <1>4, <1>5, <1>6, OthersAccounted

\* An execution that leaves has nothing started.
LEMMA LeaveAccounted ==
  ASSUME TypeOK, Accounted, NEW d \in Dispatcher, NEW p \in Peer, Step(d, p), Leave(d, p),
         run[d][p].pc \in Leasing, UNCHANGED runner,
         \A m \in Message : state'[m] = "started" =>
           state[m] = "started" /\ (To[m] = p => runner[m] # d)
  PROVE  Accounted'
  <1>1. lease[p].owner = d
    BY StepRuns
  <1>2. run'[d][p].pc = "finished" /\ run'[d][p].cause = "none"
    BY DEF Leave, Off, TypeOK
  <1>3. LeaseStep(d, p)
    <2>1. lease' = [lease EXCEPT ![p] = NoLease] /\ NoLease.owner # d
      BY <1>1, DispatchAssumption DEF Leave, NoLease, TypeOK
    <2>2. lease'[p] = NoLease
      BY <2>1 DEF TypeOK
    <2> QED BY <1>1, <1>2, <2>1, <2>2 DEF LeaseStep, Leasing, Working, TypeOK
  <1>4. SessionStep(d, p)
    BY DispatchAssumption DEF Leave, TypeOK, SessionStep
  <1>5. WorkStep(d, p)
    BY DEF WorkStep
  <1> QED BY <1>3, <1>4, <1>5, OthersAccounted

LEMMA IdleLeaves ==
  ASSUME TypeOK, Accounted, NEW d \in Dispatcher, NEW p \in Peer,
         ReserveBusy(d, p) \/ ClaimNothing(d, p) \/ ClaimFails(d, p)
  PROVE  Accounted'
  <1>1. /\ Step(d, p) /\ Leave(d, p) /\ run[d][p].pc \in {"reserve", "claim"}
        /\ UNCHANGED runner
    BY DEF Step, Executes, ReserveBusy, ClaimNothing, ClaimFails, Claimable, At, ghosts
  <1>2. \A m \in Message : To[m] = p /\ state[m] = "started" => runner[m] # d
    BY <1>1 DEF Accounted, WorkAccounted, Working
  <1>3. \A m \in Message : state'[m] = "started" => state[m] = "started"
    <2>1. state' = state \/ Claimed(p, NoMessage)
      BY DEF ReserveBusy, ClaimNothing, ClaimFails
    <2> QED BY <2>1, DispatchAssumption DEF Claimed
  <1> QED BY <1>1, <1>2, <1>3, LeaveAccounted DEF Leasing

LEMMA WorkLeaves ==
  ASSUME TypeOK, Assigned, Accounted, NEW d \in Dispatcher, NEW p \in Peer,
         ReconcileInvalidates(d, p) \/ Settle(d, p) \/ LeaveWork(d, p)
  PROVE  Accounted'
  <1>1. /\ Step(d, p) /\ Leave(d, p) /\ run[d][p].pc \in Working /\ UNCHANGED runner
    BY DEF Step, Executes, ReconcileInvalidates, Settle, LeaveWork, At, Working, ghosts
  <1>2. HoldsLease(d, p) /\ run[d][p].cause # "lease" /\ Msg(d, p) \in Message
    BY <1>1 DEF Accounted, LeaseHeld, Leasing, Assigned
  <1>3. /\ state'[Msg(d, p)] # "started"
        /\ \A m \in Message : m # Msg(d, p) => state'[m] = state[m]
    <2>1. CASE ReconcileInvalidates(d, p) \/ Settle(d, p)
      <3>1. \E s \in {"completed", "blocked", "failed"} : Set({Msg(d, p)}, s)
        BY <2>1 DEF ReconcileInvalidates, Settle, Outcomes
      <3> QED BY <1>2, <3>1 DEF Set
    <2>2. CASE LeaveWork(d, p)
      BY <1>2, <2>2 DEF LeaveWork, MayFinish
    <2> QED BY <2>1, <2>2
  <1>4. \A m \in Message : To[m] = p /\ state[m] = "started" /\ runner[m] = d => m = Msg(d, p)
    BY DEF Accounted, WorkAccounted, Msg
  <1> QED BY <1>1, <1>3, <1>4, LeaveAccounted DEF Leasing

LEMMA ClaimAccounted ==
  ASSUME TypeOK, Accounted, NEW d \in Dispatcher, NEW p \in Peer, ClaimLease(d, p)
  PROVE  Accounted'
  <1>1. PICK m \in Oldest(p) :
          /\ Claimed(p, m)
          /\ run' = [run EXCEPT ![d][p].pc = "running", ![d][p].msg = m]
          /\ runner' = [runner EXCEPT ![m] = d]
    BY DEF ClaimLease
  <1>2. m \in Message /\ To[m] = p
    BY DEF Oldest, Ready, InState
  <1>3. /\ Step(d, p) /\ run[d][p].pc = "claim" /\ UNCHANGED <<lease, session>>
        /\ InState(p, {"started", "blocked"}) = {}
    BY DEF Step, Executes, ClaimLease, Claimable, At
  <1>4. /\ lease[p].owner = d /\ run[d][p].cause # "lease"
    BY <1>3, StepRuns DEF Leasing
  <1>5. /\ run'[d][p].pc = "running" /\ run'[d][p].msg = m
        /\ run'[d][p].cause = run[d][p].cause
    BY <1>1 DEF TypeOK, Run
  <1>6. WorkStep(d, p)
    <2> SUFFICES ASSUME NEW n \in Message
                 PROVE  /\ To[n] # p => /\ state'[n] = "started" => state[n] = "started"
                                        /\ runner'[n] = runner[n]
                        /\ To[n] = p /\ state'[n] = "started" =>
                             n = m /\ runner'[m] = d
      BY <1>5 DEF WorkStep, Working
    <2>1. runner'[m] = d /\ (n # m => runner'[n] = runner[n])
      BY <1>1, <1>2 DEF TypeOK
    <2>2. n # m /\ state'[n] = "started" => state[n] = "started"
      BY <1>1 DEF Claimed
    <2>3. To[n] = p => state[n] # "started"
      BY <1>3 DEF InState
    <2> QED BY <1>2, <2>1, <2>2, <2>3
  <1>7. LeaseStep(d, p)
    BY <1>3, <1>4, <1>5 DEF LeaseStep, Leasing, Working
  <1>8. SessionStep(d, p)
    BY <1>3, <1>5 DEF SessionStep, Working
  <1> QED BY <1>3, <1>6, <1>7, <1>8, OthersAccounted

LEMMA RunAccounted ==
  ASSUME TypeOK, Accounted, NEW d \in Dispatcher, NEW p \in Peer,
         \/ LeaseLost(d, p) \/ HeartbeatReads(d, p) \/ EndRun(d, p) \/ AgentReplies(d, p)
         \/ Reconcile(d, p)
  PROVE  Accounted'
  <1>1. /\ Step(d, p) /\ run[d][p].pc \in Working /\ UNCHANGED <<lease, session, runner>>
    BY DEF Step, Executes, LeaseLost, HeartbeatReads, EndRun, AgentReplies, Reconcile, At,
       Working, store, ghosts
  <1>2. lease[p].owner = d /\ run[d][p].cause # "lease"
    BY <1>1, StepRuns DEF Leasing
  <1>3. ~ LeaseLost(d, p)
    BY <1>1 DEF LeaseLost, Accounted, LeaseHeld, Leasing
  <1>4. /\ run'[d][p].pc \in Working /\ run'[d][p].msg = run[d][p].msg
        /\ run'[d][p].cause # "lease"
    <2>1. CASE HeartbeatReads(d, p)
      BY <1>1, <2>1 DEF HeartbeatReads, Cancelled, TypeOK, Run
    <2>2. CASE EndRun(d, p)
      <3>1. PICK r : run' = [run EXCEPT ![d][p].pc = "ended", ![d][p].result = r]
        BY <2>2 DEF EndRun
      <3> QED BY <1>2, <3>1 DEF TypeOK, Run, Working
    <2>3. CASE AgentReplies(d, p)
      BY <1>1, <1>2, <2>3 DEF AgentReplies
    <2>4. CASE Reconcile(d, p)
      BY <1>2, <2>4 DEF Reconcile, Goto, TypeOK, Run, Working
    <2> QED BY <1>3, <2>1, <2>2, <2>3, <2>4
  <1>5. \A m \in Message : state'[m] = "started" => state[m] = "started"
    BY DEF LeaseLost, HeartbeatReads, EndRun, AgentReplies, Reconcile, Set, store
  <1>6. WorkStep(d, p)
    <2>1. \A m \in Message : To[m] = p /\ state[m] = "started" =>
            runner[m] # d \/ m = run[d][p].msg
      BY DEF Accounted, WorkAccounted
    <2> QED BY <1>1, <1>4, <1>5, <2>1 DEF WorkStep
  <1>7. LeaseStep(d, p)
    BY <1>1, <1>2, <1>4 DEF LeaseStep, Leasing
  <1>8. SessionStep(d, p)
    BY <1>1, <1>4 DEF SessionStep
  <1> QED BY <1>1, <1>6, <1>7, <1>8, OthersAccounted

LEMMA InitFaultFree == Init => FaultFree
  BY DispatchAssumption DEF Init, FaultFree, Accounted, LeaseAccounted, LeaseHeld,
     SessionAccounted, WorkAccounted, StoppedOff, NoLease, Off, Leasing, Working

LEMMA FaultFreeKept == IInv /\ FaultFree /\ [Next]_vars => FaultFree'
  <1> SUFFICES ASSUME IInv, FaultFree, [Next]_vars, faults' = 0
               PROVE  Accounted'
    BY DEF FaultFree
  <1>1. TypeOK /\ Assigned /\ faults = 0
    BY FaultsOnlyGrow DEF IInv, TypeOK
  <1>2. Accounted
    BY <1>1 DEF FaultFree
  <1>3. CASE \E d \in Dispatcher, p \in Peer : Step(d, p)
    <2>1. PICK d \in Dispatcher, p \in Peer : Step(d, p)
      BY <1>3
    <2>2. ~ ClaimLost(d, p)
      BY <1>1 DEF ClaimLost, Fault
    <2> QED BY <1>1, <1>2, <2>1, <2>2, AcquireAccounted, IdleLeaves, WorkLeaves,
            ClaimAccounted, RunAccounted DEF Step, Executes
  <1>4. CASE UNCHANGED vars
    BY <1>2, <1>4 DEF Accounted, LeaseAccounted, LeaseHeld, HoldsLease, SessionAccounted,
       WorkAccounted, StoppedOff, vars, store, ghosts
  <1> QED BY <1>1, <1>2, <1>3, <1>4, SteadyAccounted, PeerAccounted, ProcessAccounted
          DEF Next, Step

\* "Dispatcher owns background executions until Run returns": without faults, a
\* dispatcher that was stopped leaves no lease, reservation or started work.
THEOREM StopsClean == Spec => []CleanStop
  <1>1. ASSUME IInv, FaultFree, faults = 0, NEW d \in Dispatcher, process[d] = "stopped"
        PROVE  /\ \A p \in Peer : lease[p].owner # d /\ session[p] # d
               /\ \A m \in Message : state[m] = "started" => runner[m] # d
    <2>1. \A p \in Peer : run[d][p].pc = "off"
      BY <1>1 DEF FaultFree, Accounted, StoppedOff
    <2>2. \A m \in Message : To[m] \in Peer
      BY DispatchAssumption
    <2>3. LeaseAccounted /\ SessionAccounted /\ WorkAccounted
      BY <1>1 DEF FaultFree, Accounted
    <2> QED BY <2>1, <2>2, <2>3 DEF LeaseAccounted, SessionAccounted, WorkAccounted, Leasing,
            Working
  <1>2. IInv /\ FaultFree => CleanStop
    BY <1>1 DEF CleanStop
  <1>3. Spec => [](IInv /\ FaultFree)
    BY InitHolds, InitFaultFree, Preserved, FaultFreeKept, PTL DEF Spec
  <1> QED BY <1>2, <1>3, PTL
=============================================================================
