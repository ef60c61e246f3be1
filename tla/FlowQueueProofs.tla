---------------------------- MODULE FlowQueueProofs ----------------------------
(***************************************************************************)
(* Proofs about the durable continuations of a session, for any number of  *)
(* processes, flows, checkpoints and stops.  The inductive invariant joins *)
(* the types to what waits or runs (PendingIsCurrent), what is kept        *)
(* (CheckpointKept) and which flow a turn may act on (KnownFlow): the      *)
(* resume count of a job can only be raised where its checkpoint exists.   *)
(* On it rest the fence of stops (Fenced), the lock of the session         *)
(* (LockHeld), the count of resumes (Counted) and the single execution of  *)
(* each generation (Once).                                                 *)
(***************************************************************************)
EXTENDS FlowQueue, TLAPS

\* A turn that acts on a flow acts on one of the session's.
KnownFlow ==
  \A p \in Process :
    /\ turn[p].pc \in {"leased", "finishing"} => turn[p].kind = "resume"
    /\ turn[p].pc = "finishing" => turn[p].result \in Status
    /\ \/ turn[p].pc # "idle" /\ turn[p].kind = "resume"
       \/ turn[p].pc = "saving"
       \/ turn[p].checkpointed
       => turn[p].flow \in Flow

IInv == TypeOK /\ PendingIsCurrent /\ CheckpointKept /\ KnownFlow

LEMMA SavedRecord == NoState \notin Saved
  BY DEF NoState, Saved

\* Only a job whose checkpoint is saved is claimed for execution.
LEMMA ClaimedIsSaved ==
  ASSUME IInv, NEW f \in Flow, Verdict(f) = "running"
  PROVE  job[f].status = "queued" /\ saved[f] \in Saved /\ saved[f].epoch = epoch
  BY DEF IInv, TypeOK, PendingIsCurrent, Verdict

LEMMA IdleTurn == Idle \in Turn
  BY DEF Idle, Turn, Status

\* Fields of a turn may change within their types.
LEMMA TurnFields ==
  ASSUME NEW t \in Turn
  PROVE  /\ \A pc \in {"read", "leased", "saving", "ended", "finishing"} :
              [t EXCEPT !.pc = pc] \in Turn
         /\ \A f \in Flow \cup {NoFlow} : [t EXCEPT !.flow = f] \in Turn
         /\ \A n \in Nat : /\ [t EXCEPT !.gen = n] \in Turn
                           /\ [t EXCEPT !.epoch = n] \in Turn
                           /\ [t EXCEPT !.resumes = n] \in Turn
         /\ \A s \in Status \cup {"checkpoint"} : [t EXCEPT !.result = s] \in Turn
         /\ \A s \in Status : [t EXCEPT !.want = s] \in Turn
         /\ \A b \in BOOLEAN : /\ [t EXCEPT !.checkpointed = b] \in Turn
                               /\ [t EXCEPT !.cancelled = b] \in Turn
         /\ \A m \in {"no", "early", "late"} : [t EXCEPT !.mark = m] \in Turn
  BY DEF Turn

LEMMA InitHolds == Init => IInv
  BY IdleTurn DEF Init, IInv, TypeOK, PendingIsCurrent, CheckpointKept, KnownFlow,
     NoJob, Job, Status, NoState, Idle

\* What Admit does to the types.
LEMMA AdmitType ==
  ASSUME TypeOK, NEW p \in Process, NEW kind \in {"human", "resume"},
         NEW f \in Flow \cup {NoFlow}, Admit(p, kind, f)
  PROVE  TypeOK'
  BY DEF TypeOK, Admit, Turn, Idle, Status, db, memory, bounds, ghosts

LEMMA LeaveType ==
  ASSUME TypeOK, NEW p \in Process, Leave(p)
  PROVE  /\ sessionLock' \in Process \cup {NoProcess}
         /\ flowLock' \in [Flow -> Process \cup {NoProcess}]
         /\ turn' \in [Process -> Turn]
  BY IdleTurn DEF TypeOK, Leave, Unlocked

\* Stopping the jobs of a session keeps their rows well formed.
LEMMA PauseType ==
  ASSUME TypeOK, PauseSession
  PROVE  job' \in [Flow -> Job] /\ epoch' \in Nat /\ saved' = saved /\ head' = head
  <1>1. ASSUME NEW j \in Job
        PROVE  Stopped(j) \in Job
    <2> DEFINE k == [j EXCEPT !.status = "paused"]
    <2> DEFINE l == [k EXCEPT !.gen = @ + 1]
    <2>1. k \in Job /\ k.gen = j.gen /\ j.gen + 1 \in Nat
      BY DEF Job, Status
    <2>2. l \in Job
      BY <2>1 DEF Job
    <2>3. [l EXCEPT !.owner = NoProcess] \in Job
      BY <2>2 DEF Job
    <2>4. [j EXCEPT !.status = "paused", !.gen = @ + 1, !.owner = NoProcess]
            = [l EXCEPT !.owner = NoProcess]
      BY <2>1, <2>2
    <2> QED BY <2>3, <2>4 DEF Stopped
  <1> QED BY <1>1 DEF TypeOK, PauseSession

-----------------------------------------------------------------------------
(* Types *)

LEMMA HumanType ==
  ASSUME IInv, NEW p \in Process,
         HumanPauses(p) \/ HumanReads(p) \/ HumanUnlatches(p) \/ HumanFails(p)
  PROVE  TypeOK'
  <1>1. TypeOK
    BY DEF IInv
  <1>2. CASE HumanPauses(p)
    <2>1. job' \in [Flow -> Job] /\ epoch' \in Nat /\ saved' = saved /\ head' = head
      BY <1>1, <1>2, PauseType DEF HumanPauses
    <2>2. turn' \in [Process -> Turn]
      BY <1>1, <1>2 DEF TypeOK, HumanPauses, Goto, Turn
    <2> QED BY <1>1, <1>2, <2>1, <2>2 DEF TypeOK, HumanPauses, locks, bounds, ghosts
  <1>3. CASE HumanReads(p)
    <2>1. [[turn[p] EXCEPT !.pc = "read"] EXCEPT !.epoch = epoch] \in Turn
      BY <1>1, TurnFields DEF TypeOK
    <2>2. turn' \in [Process -> Turn]
      BY <1>1, <1>3, <2>1 DEF TypeOK, HumanReads
    <2> QED BY <1>1, <1>3, <2>2
            DEF TypeOK, HumanReads, db, locks, memory, bounds, ghosts
  <1>4. CASE HumanUnlatches(p)
    BY <1>1, <1>4, SMTT(30)
       DEF TypeOK, HumanUnlatches, Goto, Turn, db, locks, bounds, ghosts
  <1>5. CASE HumanFails(p)
    BY <1>1, <1>5, LeaveType DEF TypeOK, HumanFails, db, bounds, ghosts
  <1> QED BY <1>2, <1>3, <1>4, <1>5

LEMMA ClaimType ==
  ASSUME IInv, NEW p \in Process, Claim(p)
  PROVE  TypeOK'
  <1>1. TypeOK /\ turn[p].flow \in Flow
    BY DEF IInv, KnownFlow, Claim
  <1>2. CASE ClaimRefused(p)
    BY <1>1, <1>2, LeaveType DEF TypeOK, ClaimRefused, db, memory, bounds, ghosts
  <1>3. CASE ClaimEnds(p)
    <2>1. job' \in [Flow -> Job]
      BY <1>1, <1>3 DEF TypeOK, ClaimEnds, Job, Status
    <2> QED BY <1>1, <1>3, <2>1, LeaveType DEF TypeOK, ClaimEnds, memory, bounds, ghosts
  <1>4. CASE ClaimRuns(p)
    <2>1. saved[turn[p].flow] \in Saved
      BY <1>1, <1>4, ClaimedIsSaved DEF ClaimRuns
    <2>2. saved' \in [Flow -> Saved \cup {NoState}]
      BY <1>1, <1>4, <2>1 DEF TypeOK, ClaimRuns, Saved
    <2>3. job' \in [Flow -> Job]
      BY <1>1, <1>4 DEF TypeOK, ClaimRuns, Job, Status
    <2>4. job[turn[p].flow].gen \in Nat /\ saved[turn[p].flow].epoch \in Nat
      BY <1>1, <2>1 DEF TypeOK, Job, Saved
    <2>5. turn' \in [Process -> Turn]
      <3> DEFINE t == [turn[p] EXCEPT !.pc = "leased"]
      <3> DEFINE u == [t EXCEPT !.gen = job[turn[p].flow].gen]
      <3>1. t \in Turn
        BY <1>1, TurnFields DEF TypeOK
      <3>2. u \in Turn
        BY <2>4, <3>1, TurnFields
      <3>3. [u EXCEPT !.epoch = saved[turn[p].flow].epoch] \in Turn
        BY <2>4, <3>2, TurnFields
      <3>4. turn' = [turn EXCEPT ![p] = [u EXCEPT !.epoch = saved[turn[p].flow].epoch]]
        BY <1>4 DEF ClaimRuns
      <3> QED BY <1>1, <3>3, <3>4 DEF TypeOK
    <2>6. resumed' \in [Flow -> Nat]
      BY <1>1, <1>4 DEF TypeOK, ClaimRuns
    <2>7. flowLock' \in [Flow -> Process \cup {NoProcess}]
      BY <1>1, <1>4 DEF TypeOK, ClaimRuns
    <2> QED BY <1>1, <1>4, <2>2, <2>3, <2>5, <2>6, <2>7
            DEF TypeOK, ClaimRuns, memory, bounds
  <1> QED BY <1>2, <1>3, <1>4 DEF Claim

LEMMA ContinueType ==
  ASSUME IInv, NEW p \in Process, Continue(p) \/ ContinueRefused(p)
  PROVE  TypeOK'
  <1>1. TypeOK
    BY DEF IInv
  <1>2. CASE Continue(p)
    <2>1. turn[p].flow \in Flow /\ turn[p].gen \in Nat
      BY <1>2 DEF IInv, TypeOK, KnownFlow, Continue, Turn
    <2>2. turn' \in [Process -> Turn]
      BY <1>1, <1>2 DEF TypeOK, Continue, Goto, Turn
    <2> QED BY <1>1, <1>2, <2>1, <2>2
            DEF TypeOK, Continue, db, locks, memory, bounds
  <1>3. CASE ContinueRefused(p)
    <2>1. turn' \in [Process -> Turn]
      BY <1>1, <1>3 DEF TypeOK, ContinueRefused, Turn, Status
    <2> QED BY <1>1, <1>3, <2>1
            DEF TypeOK, ContinueRefused, db, locks, memory, bounds, ghosts
  <1> QED BY <1>2, <1>3

LEMMA SaveType ==
  ASSUME IInv, NEW p \in Process,
         Checkpoint(p) \/ SaveCommits(p) \/ SaveFails(p)
  PROVE  TypeOK'
  <1>1. TypeOK
    BY DEF IInv
  <1>2. CASE Checkpoint(p)
    <2>1. PICK f \in (IF turn[p].kind = "human" THEN Flow ELSE {turn[p].flow}),
               budget, good, answered \in BOOLEAN :
            turn' = [turn EXCEPT ![p].pc = "saving", ![p].flow = f,
                       ![p].resumes = Carried(f),
                       ![p].want = SaveStatus(p, f, budget, good, answered),
                       ![p].result = IF budget THEN "checkpoint" ELSE "manual_review"]
      BY <1>2 DEF Checkpoint
    <2>2. f \in Flow
      <3>1. turn[p].kind \in {"human", "resume"} /\ turn[p].pc = "running"
        BY <1>1, <1>2 DEF TypeOK, Checkpoint, Turn
      <3> QED BY <2>1, <3>1 DEF IInv, KnownFlow
    <2>3. Carried(f) \in Nat
      BY <1>1, <2>2 DEF TypeOK, Carried, Saved
    <2>4. SaveStatus(p, f, budget, good, answered) \in Status
      BY DEF SaveStatus, Status
    <2>5. turn' \in [Process -> Turn]
      <3> DEFINE t == [turn[p] EXCEPT !.pc = "saving"]
                 u == [t EXCEPT !.flow = f]
                 v == [u EXCEPT !.resumes = Carried(f)]
                 w == [v EXCEPT !.want = SaveStatus(p, f, budget, good, answered)]
                 x == [w EXCEPT !.result = IF budget THEN "checkpoint"
                                                     ELSE "manual_review"]
      <3>1. t \in Turn
        BY <1>1, TurnFields DEF TypeOK
      <3>2. u \in Turn
        BY <2>2, <3>1, TurnFields
      <3>3. v \in Turn
        BY <2>3, <3>2, TurnFields
      <3>4. w \in Turn
        BY <2>4, <3>3, TurnFields
      <3>5. x \in Turn
        BY <3>4, TurnFields DEF Status
      <3>6. turn' = [turn EXCEPT ![p] = x]
        BY <2>1
      <3> QED BY <1>1, <3>5, <3>6 DEF TypeOK
    <2> QED BY <1>1, <1>2, <2>5 DEF TypeOK, Checkpoint, db, locks, memory, bounds, ghosts
  <1>3. CASE SaveCommits(p)
    <2>1. /\ turn[p].flow \in Flow /\ turn[p].resumes \in Nat
          /\ turn[p].epoch \in Nat /\ turn[p].want \in Status
      BY <1>3 DEF IInv, TypeOK, KnownFlow, SaveCommits, Turn
    <2>2. saved' \in [Flow -> Saved \cup {NoState}]
      BY <1>1, <1>3, <2>1 DEF TypeOK, SaveCommits, Saved
    <2>3. job' \in [Flow -> Job]
      BY <1>1, <1>3, <2>1 DEF TypeOK, SaveCommits, Job
    <2>4. turn' \in [Process -> Turn]
      <3>1. [[turn[p] EXCEPT !.pc = "ended"] EXCEPT !.checkpointed = TRUE] \in Turn
        BY <1>1, TurnFields DEF TypeOK
      <3> QED BY <1>1, <1>3, <3>1 DEF TypeOK, SaveCommits
    <2> QED BY <1>1, <1>3, <2>1, <2>2, <2>3, <2>4
            DEF TypeOK, SaveCommits, locks, memory, bounds, ghosts
  <1>4. CASE SaveFails(p)
    <2>1. [[turn[p] EXCEPT !.pc = "ended"] EXCEPT !.result = "manual_review"] \in Turn
      BY <1>1, TurnFields DEF TypeOK, Status
    <2>2. turn' \in [Process -> Turn]
      BY <1>1, <1>4, <2>1 DEF TypeOK, SaveFails
    <2> QED BY <1>1, <1>4, <2>2 DEF TypeOK, SaveFails, db, locks, memory, bounds, ghosts
  <1> QED BY <1>2, <1>3, <1>4

LEMMA EndType ==
  ASSUME IInv, NEW p \in Process,
         Ends(p) \/ Persists(p) \/ PersistFails(p)
  PROVE  TypeOK'
  <1>1. TypeOK
    BY DEF IInv
  <1>2. CASE Ends(p)
    BY <1>1, <1>2, SMTT(30)
       DEF TypeOK, Ends, Turn, Status, db, locks, memory, bounds, ghosts
  <1>3. CASE Persists(p)
    <2>1. head' \in Flow \cup {NoFlow}
      BY <1>3 DEF IInv, KnownFlow, Persists
    <2>2. /\ sessionLock' \in Process \cup {NoProcess}
          /\ flowLock' \in [Flow -> Process \cup {NoProcess}]
          /\ turn' \in [Process -> Turn]
      <3>1. CASE Leave(p)
        BY <1>1, <3>1, LeaveType
      <3>2. CASE Goto(p, "finishing") /\ UNCHANGED locks
        BY <1>1, <3>2, SMTT(30) DEF TypeOK, Goto, Turn, locks
      <3> QED BY <1>3, <3>1, <3>2 DEF Persists
    <2> QED BY <1>1, <1>3, <2>1, <2>2 DEF TypeOK, Persists, memory, bounds, ghosts
  <1>4. CASE PersistFails(p)
    <2>1. /\ sessionLock' \in Process \cup {NoProcess}
          /\ flowLock' \in [Flow -> Process \cup {NoProcess}]
          /\ turn' \in [Process -> Turn]
      <3>1. CASE Leave(p)
        BY <1>1, <3>1, LeaveType
      <3>2. CASE ~ Leave(p)
        BY <1>1, <1>4, <3>2 DEF TypeOK, PersistFails, Turn, Status, locks
      <3> QED BY <3>1, <3>2
    <2> QED BY <1>1, <1>4, <2>1 DEF TypeOK, PersistFails, db, memory, bounds, ghosts
  <1> QED BY <1>2, <1>3, <1>4

LEMMA FinishType ==
  ASSUME IInv, NEW p \in Process, FinishCommits(p) \/ FinishFails(p)
  PROVE  TypeOK'
  <1>1. TypeOK
    BY DEF IInv
  <1>2. CASE FinishCommits(p)
    <2>1. job' \in [Flow -> Job]
      <3>1. CASE Owns(p)
        <4>1. turn[p].result \in Status
          BY <1>2 DEF IInv, KnownFlow, FinishCommits
        <4> DEFINE f == turn[p].flow
        <4>2. f \in Flow
          BY <1>2 DEF IInv, KnownFlow, FinishCommits
        <4> DEFINE k == [job[f] EXCEPT !.status = turn[p].result]
        <4>3. k \in Job
          BY <1>1, <4>1, <4>2, SMTT(30) DEF TypeOK, Job
        <4> HIDE DEF k
        <4>5. [k EXCEPT !.owner = NoProcess] \in Job
          BY <4>3 DEF Job
        <4>4. job' = [job EXCEPT ![f] = [[job[f] EXCEPT !.status = turn[p].result]
                                           EXCEPT !.owner = NoProcess]]
          BY <1>2, <3>1 DEF FinishCommits
        <4> QED BY <1>1, <4>2, <4>4, <4>5 DEF TypeOK, k
      <3>2. CASE ~ Owns(p)
        BY <1>1, <1>2, <3>2 DEF TypeOK, FinishCommits
      <3> QED BY <3>1, <3>2
    <2>2. saved' \in [Flow -> Saved \cup {NoState}] /\ resumed' \in [Flow -> Nat]
      BY <1>1, <1>2 DEF TypeOK, FinishCommits
    <2> QED BY <1>1, <1>2, <2>1, <2>2, LeaveType DEF TypeOK, FinishCommits, memory, bounds
  <1>3. CASE FinishFails(p)
    BY <1>1, <1>3, LeaveType DEF TypeOK, FinishFails, db, memory, bounds, ghosts
  <1> QED BY <1>2, <1>3

LEMMA StopType ==
  ASSUME IInv, NEW p \in Process, Stops(p)
  PROVE  TypeOK'
  <1>1. TypeOK
    BY DEF IInv
  <1>2. CASE Abort(p)
    <2>1. ASSUME NEW c \in BOOLEAN
          PROVE  Cancelled(turn[p], c) \in Turn
      <3>1. turn[p] \in Turn /\ (turn[p].cancelled \/ c) \in BOOLEAN
        BY <1>1 DEF TypeOK, Turn
      <3>2. [turn[p] EXCEPT !.cancelled = turn[p].cancelled \/ c] \in Turn
        BY <3>1, TurnFields
      <3> QED BY <3>1, <3>2 DEF Cancelled
    <2>2. turn' \in [Process -> Turn]
      BY <1>1, <1>2, <2>1 DEF TypeOK, Abort
    <2> QED BY <1>1, <1>2, <2>2 DEF TypeOK, Abort, db, locks, bounds, ghosts
  <1>3. CASE AbortCommits(p)
    <2>1. \A q \in Process : Overtaken(turn[q]) \in Turn
      BY <1>1, TurnFields DEF TypeOK, Overtaken
    <2>2. turn' \in [Process -> Turn]
      BY <1>3, <2>1 DEF AbortCommits
    <2>3. job' \in [Flow -> Job] /\ epoch' \in Nat /\ saved' = saved /\ head' = head
      BY <1>1, <1>3, PauseType DEF AbortCommits
    <2> QED BY <1>1, <1>3, <2>2, <2>3 DEF TypeOK, AbortCommits, locks, bounds, ghosts
  <1>4. CASE AbortFails(p)
    BY <1>1, <1>4 DEF TypeOK, AbortFails, db, locks, bounds, ghosts
  <1> QED BY <1>2, <1>3, <1>4 DEF Stops

LEMMA EnvironmentType ==
  ASSUME IInv, NEW p \in Process,
         \/ Crash(p) \/ Restart(p) \/ LosesConnection(p)
         \/ \E f \in Flow : DeferBusy(p, f) \/ Due(f)
  PROVE  TypeOK'
  <1>1. TypeOK
    BY DEF IInv
  <1>2. CASE Crash(p)
    BY <1>1, <1>2, LeaveType DEF TypeOK, Crash, db, ghosts
  <1>3. CASE Restart(p)
    BY <1>1, <1>3 DEF TypeOK, Restart, db, locks, bounds, ghosts
  <1>4. CASE LosesConnection(p)
    BY <1>1, <1>4 DEF TypeOK, LosesConnection, db, memory, ghosts
  <1>5. CASE \E f \in Flow : DeferBusy(p, f) \/ Due(f)
    <2>1. PICK f \in Flow, b \in BOOLEAN : job' = [job EXCEPT ![f].due = b]
      BY <1>5 DEF DeferBusy, Due
    <2>2. [job[f] EXCEPT !.due = b] \in Job
      BY <1>1 DEF TypeOK, Job
    <2>3. job' \in [Flow -> Job]
      BY <1>1, <2>1, <2>2 DEF TypeOK
    <2> QED BY <1>1, <1>5, <2>3
            DEF TypeOK, DeferBusy, Due, locks, memory, bounds, ghosts
  <1> QED BY <1>2, <1>3, <1>4, <1>5

\* The steps of one admitted turn, and all others.
LEMMA TypeStep ==
  ASSUME IInv, [Next]_vars
  PROVE  TypeOK'
  <1>1. CASE UNCHANGED vars
    BY <1>1 DEF IInv, TypeOK, vars, db, locks, memory, bounds, ghosts
  <1>2. ASSUME NEW p \in Process, HumanTurn(p)
        PROVE  TypeOK'
    BY <1>2, AdmitType DEF IInv, HumanTurn
  <1>3. ASSUME NEW p \in Process, Works(p)
        PROVE  TypeOK'
    BY <1>3, HumanType, ClaimType, ContinueType, SaveType, EndType, FinishType DEF Works
  <1>4. ASSUME NEW p \in Process, NEW f \in Flow, Resume(p, f)
        PROVE  TypeOK'
    BY <1>4, AdmitType DEF IInv, Resume
  <1>5. ASSUME NEW p \in Process, Stops(p)
        PROVE  TypeOK'
    BY <1>5, StopType
  <1>6. ASSUME NEW p \in Process, Crash(p) \/ Restart(p) \/ LosesConnection(p)
        PROVE  TypeOK'
    BY <1>6, EnvironmentType
  <1>7. ASSUME NEW p \in Process, NEW f \in Flow, DeferBusy(p, f)
        PROVE  TypeOK'
    BY <1>7, EnvironmentType
  <1>8. ASSUME NEW f \in Flow, Due(f)
        PROVE  TypeOK'
    <2>1. [job[f] EXCEPT !.due = TRUE] \in Job
      BY DEF IInv, TypeOK, Job
    <2>2. job' \in [Flow -> Job]
      BY <1>8, <2>1 DEF IInv, TypeOK, Due
    <2> QED BY <1>8, <2>2 DEF IInv, TypeOK, Due, locks, memory, bounds, ghosts
  <1> QED BY <1>1, <1>2, <1>3, <1>4, <1>5, <1>6, <1>7, <1>8 DEF Next
-----------------------------------------------------------------------------
(* What waits or runs, and what is kept.  Both relate job, saved and epoch, *)
(* which few actions change: those that do not are dealt with at once.      *)

Kept == PendingIsCurrent /\ CheckpointKept

LEMMA Unaffected ==
  ASSUME IInv, UNCHANGED <<saved, epoch>>,
         \A f \in Flow : job'[f].status = job[f].status
  PROVE  Kept'
  BY DEF IInv, Kept, PendingIsCurrent, CheckpointKept

\* A stop supersedes every checkpoint of the session.
LEMMA PauseKeeps ==
  ASSUME IInv, PauseSession
  PROVE  Kept'
  <1>1. job \in [Flow -> Job] /\ CheckpointKept /\ saved' = saved
    BY DEF IInv, TypeOK, PauseSession
  <1>2. ASSUME NEW f \in Flow
        PROVE  /\ job'[f].status \notin {"queued", "running"}
               /\ \/ job'[f].status = job[f].status
                  \/ job[f].status \in {"queued", "running"}
    <2>1. job'[f] = Stopped(job[f]) /\ job[f] \in Job
      BY <1>1 DEF PauseSession
    <2>2. CASE job[f].status \in {"queued", "running"}
      <3>1. job'[f].status = "paused"
        BY <2>1, <2>2 DEF Stopped, Job
      <3> QED BY <2>2, <3>1
    <2>3. CASE job[f].status \notin {"queued", "running"}
      BY <2>1, <2>3 DEF Stopped
    <2> QED BY <2>2, <2>3
  <1> QED BY <1>1, <1>2 DEF Kept, PendingIsCurrent, CheckpointKept
LEMMA ClaimKeeps ==
  ASSUME IInv, NEW p \in Process, Claim(p)
  PROVE  Kept'
  <1> DEFINE f == turn[p].flow
  <1>1. /\ TypeOK /\ PendingIsCurrent /\ CheckpointKept
        /\ f \in Flow
    BY DEF IInv, KnownFlow, Claim
  <1>2. CASE ClaimRefused(p)
    BY <1>2, Unaffected DEF ClaimRefused, db
  <1>3. CASE ClaimEnds(p)
    <2>1. job[f].status \in {"queued", "running"}
      BY <1>3 DEF ClaimEnds, Verdict
    <2>2. saved[f] # NoState
      BY <1>1, <2>1 DEF PendingIsCurrent
    <2>3. \A g \in Flow : job'[g].status = IF g = f THEN Verdict(f) ELSE job[g].status
      BY <1>1, <1>3 DEF TypeOK, ClaimEnds, Job
    <2>4. saved' = saved /\ epoch' = epoch /\ Verdict(f) \notin {"queued", "running"}
      BY <1>3 DEF ClaimEnds
    <2> HIDE DEF f
    <2> QED BY <1>1, <2>2, <2>3, <2>4 DEF Kept, PendingIsCurrent, CheckpointKept
  <1>4. CASE ClaimRuns(p)
    <2>1. saved[f] \in Saved /\ saved[f].epoch = epoch
      BY <1>1, <1>4, ClaimedIsSaved DEF ClaimRuns
    <2>2. saved' = [saved EXCEPT ![f].resumes = @ + 1] /\ epoch' = epoch
      BY <1>4 DEF ClaimRuns
    <2>3. saved'[f] \in Saved /\ saved'[f].epoch = epoch
      <3>1. saved'[f] = [saved[f] EXCEPT !.resumes = @ + 1]
        BY <1>1, <2>2 DEF TypeOK
      <3> QED BY <2>1, <3>1 DEF Saved
    <2>4. \A g \in Flow \ {f} : saved'[g] = saved[g] /\ job'[g].status = job[g].status
      BY <1>1, <1>4, <2>2 DEF TypeOK, ClaimRuns
    <2> HIDE DEF f
    <2> QED BY <1>1, <2>2, <2>3, <2>4, SavedRecord
            DEF Kept, PendingIsCurrent, CheckpointKept
  <1> QED BY <1>2, <1>3, <1>4 DEF Claim

\* A checkpoint is stored only in the epoch its turn began with.
LEMMA SaveKeeps ==
  ASSUME IInv, NEW p \in Process, SaveCommits(p)
  PROVE  Kept'
  <1> DEFINE f == turn[p].flow
  <1>1. /\ TypeOK /\ PendingIsCurrent /\ CheckpointKept
        /\ f \in Flow /\ turn[p] \in Turn
    BY DEF IInv, TypeOK, KnownFlow, SaveCommits
  <1>2. saved'[f] = [resumes |-> turn[p].resumes, epoch |-> turn[p].epoch]
    BY <1>1 DEF TypeOK, SaveCommits
  <1>3. saved'[f] \in Saved /\ saved'[f].epoch = epoch /\ epoch' = epoch
    BY <1>1, <1>2 DEF SaveCommits, Current, Saved, Turn
  <1>4. \A g \in Flow \ {f} : saved'[g] = saved[g] /\ job'[g] = job[g]
    BY <1>1 DEF TypeOK, SaveCommits
  <1> HIDE DEF f
  <1> QED BY <1>1, <1>3, <1>4, SavedRecord DEF Kept, PendingIsCurrent, CheckpointKept

\* A checkpoint is deleted only together with the end of the job that owns it.
LEMMA FinishKeeps ==
  ASSUME IInv, NEW p \in Process, FinishCommits(p)
  PROVE  Kept'
  <1> DEFINE f == turn[p].flow
  <1>1. /\ TypeOK /\ PendingIsCurrent /\ CheckpointKept
        /\ f \in Flow /\ epoch' = epoch
    BY DEF IInv, KnownFlow, FinishCommits
  <1>2. CASE ~ Owns(p)
    BY <1>2, Unaffected DEF FinishCommits, Deletes
  <1>3. CASE Owns(p) /\ turn[p].result = "completed"
    <2>1. job'[f].status = "completed"
      BY <1>1, <1>3 DEF TypeOK, FinishCommits, Job
    <2>2. \A g \in Flow \ {f} : saved'[g] = saved[g] /\ job'[g] = job[g]
      BY <1>1, <1>3 DEF TypeOK, FinishCommits
    <2> HIDE DEF f
    <2> QED BY <1>1, <2>1, <2>2 DEF Kept, PendingIsCurrent, CheckpointKept
  <1>4. CASE Owns(p) /\ turn[p].result # "completed"
    <2>1. saved' = saved /\ saved[f] # NoState
      BY <1>4 DEF FinishCommits, Deletes
    <2>2. job[f].status = "running" /\ saved[f].epoch = epoch
      BY <1>1, <1>4 DEF Owns, PendingIsCurrent
    <2>3. \A g \in Flow \ {f} : job'[g] = job[g]
      BY <1>1, <1>4 DEF TypeOK, FinishCommits
    <2> HIDE DEF f
    <2> QED BY <1>1, <2>1, <2>2, <2>3 DEF Kept, PendingIsCurrent, CheckpointKept
  <1> QED BY <1>2, <1>3, <1>4

LEMMA KeptStep ==
  ASSUME IInv, [Next]_vars
  PROVE  Kept'
  <1>1. CASE UNCHANGED vars
    BY <1>1, Unaffected DEF vars, db
  <1>2. ASSUME NEW p \in Process,
               \/ HumanTurn(p) \/ HumanReads(p) \/ HumanUnlatches(p) \/ HumanFails(p)
               \/ Continue(p) \/ ContinueRefused(p) \/ Checkpoint(p) \/ SaveFails(p)
               \/ Ends(p) \/ Persists(p) \/ PersistFails(p) \/ FinishFails(p)
               \/ Abort(p) \/ AbortFails(p)
               \/ Crash(p) \/ Restart(p) \/ LosesConnection(p)
               \/ \E f \in Flow : Resume(p, f)
        PROVE  Kept'
    <2>1. job' = job /\ saved' = saved /\ epoch' = epoch
      BY <1>2 DEF HumanTurn, HumanReads, HumanUnlatches, HumanFails, Continue,
         ContinueRefused, Checkpoint, SaveFails, Ends, Persists, PersistFails,
         FinishFails, Abort, AbortFails, Crash, Restart, LosesConnection, Resume,
         Admit, db
    <2> QED BY <2>1, Unaffected
  <1>3. ASSUME NEW p \in Process, HumanPauses(p) \/ AbortCommits(p)
        PROVE  Kept'
    BY <1>3, PauseKeeps DEF HumanPauses, AbortCommits
  <1>4. ASSUME NEW p \in Process, Claim(p) \/ SaveCommits(p) \/ FinishCommits(p)
        PROVE  Kept'
    BY <1>4, ClaimKeeps, SaveKeeps, FinishKeeps
  <1>5. ASSUME NEW p \in Process, NEW f \in Flow, DeferBusy(p, f)
        PROVE  Kept'
    <2>1. \A g \in Flow : job'[g].status = job[g].status
      BY <1>5 DEF IInv, TypeOK, Job, DeferBusy
    <2> QED BY <1>5, <2>1, Unaffected DEF DeferBusy
  <1>6. ASSUME NEW f \in Flow, Due(f)
        PROVE  Kept'
    <2>1. \A g \in Flow : job'[g].status = job[g].status
      BY <1>6 DEF IInv, TypeOK, Job, Due
    <2> QED BY <1>6, <2>1, Unaffected DEF Due
  <1> QED BY <1>1, <1>2, <1>3, <1>4, <1>5, <1>6 DEF Next, Works, Stops

-----------------------------------------------------------------------------
(* Turns: the flow each acts on and the epoch each began with *)

\* Once a stop has overtaken a turn that had read its epoch, that epoch is old.
Fenced ==
  \A p \in Process : turn[p].pc # "idle" =>
    /\ turn[p].epoch <= epoch
    /\ turn[p].mark = "late" => turn[p].epoch < epoch
    /\ turn[p].pc \in {"begin", "paused"} => turn[p].mark # "late"

TurnInv == KnownFlow /\ Fenced

\* A step of one turn, while the epoch does not fall.
LEMMA OneTurnMoves ==
  ASSUME TypeOK, TurnInv, epoch' \in Nat, epoch <= epoch',
         NEW p \in Process,
         \A q \in Process \ {p} : turn'[q] = turn[q],
         turn'[p].pc \in {"leased", "finishing"} => turn'[p].kind = "resume",
         turn'[p].pc = "finishing" => turn'[p].result \in Status,
         \/ turn'[p].pc # "idle" /\ turn'[p].kind = "resume"
         \/ turn'[p].pc = "saving"
         \/ turn'[p].checkpointed
         => turn'[p].flow \in Flow,
         turn'[p].pc # "idle" =>
           /\ turn'[p].epoch <= epoch'
           /\ turn'[p].mark = "late" => turn'[p].epoch < epoch'
           /\ turn'[p].pc \in {"begin", "paused"} => turn'[p].mark # "late"
  PROVE  TurnInv'
  <1>1. \A q \in Process : turn[q] \in Turn /\ turn[q].epoch \in Nat
    BY DEF TypeOK, Turn
  <1>2. epoch \in Nat
    BY DEF TypeOK
  <1>3. KnownFlow'
    BY DEF TurnInv, KnownFlow
  <1>4. Fenced'
    BY <1>1, <1>2 DEF TurnInv, Fenced
  <1> QED BY <1>3, <1>4 DEF TurnInv

LEMMA LeaveTurn ==
  ASSUME TypeOK, TurnInv, NEW p \in Process, Leave(p), epoch' = epoch
  PROVE  TurnInv'
  <1>1. turn' = [turn EXCEPT ![p] = Idle]
    BY DEF Leave
  <1>2. turn'[p] = Idle /\ \A q \in Process \ {p} : turn'[q] = turn[q]
    BY <1>1 DEF TypeOK
  <1>3. epoch' \in Nat /\ epoch <= epoch'
    BY DEF TypeOK
  <1> QED BY <1>2, <1>3, OneTurnMoves DEF Idle

LEMMA AdmitTurn ==
  ASSUME TypeOK, TurnInv, NEW p \in Process, NEW kind \in {"human", "resume"},
         NEW f, kind = "resume" => f \in Flow, Admit(p, kind, f)
  PROVE  TurnInv'
  <1>1. turn' = [turn EXCEPT ![p] = [Idle EXCEPT !.pc = "begin", !.kind = kind,
                                                 !.flow = f]]
    BY DEF Admit
  <1>2. turn'[p] = [Idle EXCEPT !.pc = "begin", !.kind = kind, !.flow = f]
    BY <1>1 DEF TypeOK
  <1>3. \A q \in Process \ {p} : turn'[q] = turn[q]
    BY <1>1 DEF TypeOK
  <1>4. epoch' = epoch /\ epoch \in Nat
    BY DEF TypeOK, Admit, db
  <1>5. /\ turn'[p].pc = "begin" /\ turn'[p].kind = kind /\ turn'[p].flow = f
        /\ turn'[p].epoch = 0 /\ turn'[p].mark = "no"
        /\ turn'[p].checkpointed = FALSE
    BY <1>2 DEF Idle
  <1> QED BY <1>3, <1>4, <1>5, OneTurnMoves

LEMMA HumanTurnInv ==
  ASSUME IInv, Fenced, NEW p \in Process,
         HumanPauses(p) \/ HumanReads(p) \/ HumanUnlatches(p) \/ HumanFails(p)
  PROVE  TurnInv'
  <1>1. TypeOK /\ TurnInv /\ epoch \in Nat /\ turn[p] \in Turn
    BY DEF IInv, TurnInv, TypeOK
  <1>2. CASE HumanPauses(p)
    <2>1. turn'[p] = [turn[p] EXCEPT !.pc = "paused"]
          /\ \A q \in Process \ {p} : turn'[q] = turn[q]
      BY <1>1, <1>2 DEF TypeOK, HumanPauses, Goto
    <2>2. epoch' = epoch + 1 /\ turn[p].pc = "begin"
      BY <1>2 DEF HumanPauses, PauseSession
    <2> QED BY <1>1, <2>1, <2>2, OneTurnMoves DEF TurnInv, KnownFlow, Fenced, Turn
  <1>3. CASE HumanReads(p)
    <2>1. turn'[p] = [turn[p] EXCEPT !.pc = "read", !.epoch = epoch]
      BY <1>1, <1>3 DEF TypeOK, HumanReads
    <2>2. epoch' = epoch /\ turn[p].pc = "paused"
      BY <1>3 DEF HumanReads, db
    <2>5. \A q \in Process \ {p} : turn'[q] = turn[q]
      BY <1>1, <1>3 DEF TypeOK, HumanReads
    <2>3. /\ turn'[p].pc = "read" /\ turn'[p].epoch = epoch
          /\ turn'[p].kind = turn[p].kind /\ turn'[p].flow = turn[p].flow
          /\ turn'[p].checkpointed = turn[p].checkpointed
          /\ turn'[p].mark = turn[p].mark
      BY <1>1, <2>1 DEF Turn
    <2>4. turn[p].mark # "late"
      BY <1>1, <2>2 DEF TurnInv, Fenced
    <2>6. turn[p].kind = "resume" \/ turn[p].checkpointed => turn[p].flow \in Flow
      BY <1>1, <2>2 DEF TurnInv, KnownFlow
    <2>7. epoch' \in Nat /\ epoch <= epoch'
      BY <1>1, <2>2
    <2> QED BY <1>1, <2>2, <2>3, <2>4, <2>5, <2>6, <2>7, OneTurnMoves
  <1>4. CASE HumanUnlatches(p)
    <2>1. turn'[p] = [turn[p] EXCEPT !.pc = "running"]
          /\ \A q \in Process \ {p} : turn'[q] = turn[q]
      BY <1>1, <1>4 DEF TypeOK, HumanUnlatches, Goto
    <2>2. epoch' = epoch /\ turn[p].pc = "read"
      BY <1>4 DEF HumanUnlatches, db
    <2> QED BY <1>1, <2>1, <2>2, OneTurnMoves DEF TurnInv, KnownFlow, Fenced, Turn
  <1>5. CASE HumanFails(p)
    BY <1>1, <1>5, LeaveTurn DEF HumanFails, db
  <1> QED BY <1>2, <1>3, <1>4, <1>5

\* A continuation begins with the epoch its checkpoint was saved in, and that
\* is the session's.
LEMMA ClaimTurnInv ==
  ASSUME IInv, Fenced, NEW p \in Process, Claim(p)
  PROVE  TurnInv'
  <1>1. TypeOK /\ TurnInv /\ epoch \in Nat /\ turn[p] \in Turn
    BY DEF IInv, TurnInv, TypeOK
  <1>2. turn[p].flow \in Flow /\ turn[p].pc = "begin" /\ turn[p].kind = "resume"
    BY DEF IInv, KnownFlow, Claim
  <1>3. CASE ClaimRefused(p) \/ ClaimEnds(p)
    BY <1>1, <1>3, LeaveTurn DEF ClaimRefused, ClaimEnds, db
  <1>4. CASE ClaimRuns(p)
    <2>1. saved[turn[p].flow].epoch = epoch
      BY <1>2, <1>4, ClaimedIsSaved DEF ClaimRuns
    <2>2. turn'[p] = [turn[p] EXCEPT !.pc = "leased", !.gen = job[turn[p].flow].gen,
                                     !.epoch = epoch]
      BY <1>1, <1>4, <2>1 DEF TypeOK, ClaimRuns
    <2>3. epoch' \in Nat /\ epoch <= epoch' /\ epoch' = epoch
      BY <1>1, <1>4 DEF ClaimRuns
    <2>4. /\ turn'[p].pc = "leased" /\ turn'[p].epoch = epoch
          /\ turn'[p].kind = turn[p].kind /\ turn'[p].flow = turn[p].flow
          /\ turn'[p].mark = turn[p].mark
      BY <1>1, <2>2 DEF Turn
    <2>5. turn[p].mark # "late"
      BY <1>1, <1>2 DEF TurnInv, Fenced
    <2>6. \A q \in Process \ {p} : turn'[q] = turn[q]
      BY <1>1, <1>4 DEF TypeOK, ClaimRuns
    <2> QED BY <1>1, <1>2, <2>3, <2>4, <2>5, <2>6, OneTurnMoves
  <1> QED BY <1>3, <1>4 DEF Claim

LEMMA CheckpointTurn ==
  ASSUME TypeOK, TurnInv, NEW p \in Process, Checkpoint(p)
  PROVE  /\ turn'[p].pc = "saving" /\ turn[p].pc = "running"
         /\ turn'[p].epoch = turn[p].epoch /\ turn'[p].mark = turn[p].mark
         /\ turn'[p].flow \in Flow
  <1>1. turn[p] \in Turn /\ turn[p].pc = "running"
    BY DEF TypeOK, Checkpoint
  <1>2. PICK f \in (IF turn[p].kind = "human" THEN Flow ELSE {turn[p].flow}),
             budget, good, answered \in BOOLEAN :
          turn' = [turn EXCEPT ![p].pc = "saving", ![p].flow = f,
                     ![p].resumes = Carried(f),
                     ![p].want = SaveStatus(p, f, budget, good, answered),
                     ![p].result = IF budget THEN "checkpoint" ELSE "manual_review"]
    BY DEF Checkpoint
  <1>3. f \in Flow
    <2>1. turn[p].kind \in {"human", "resume"}
      BY <1>1 DEF Turn
    <2> QED BY <1>1, <1>2, <2>1 DEF TurnInv, KnownFlow
  <1>4. turn'[p] = [turn[p] EXCEPT !.pc = "saving", !.flow = f, !.resumes = Carried(f),
                      !.want = SaveStatus(p, f, budget, good, answered),
                      !.result = IF budget THEN "checkpoint" ELSE "manual_review"]
    BY <1>2 DEF TypeOK
  <1> QED BY <1>1, <1>3, <1>4 DEF Turn

LEMMA RunTurnInv ==
  ASSUME IInv, Fenced, NEW p \in Process,
         \/ Continue(p) \/ ContinueRefused(p) \/ Checkpoint(p) \/ SaveCommits(p)
         \/ SaveFails(p) \/ Ends(p)
  PROVE  TurnInv'
  <1>1. TypeOK /\ TurnInv /\ epoch \in Nat /\ turn[p] \in Turn
    BY DEF IInv, TurnInv, TypeOK
  <1>2. epoch' = epoch
    BY DEF Continue, ContinueRefused, Checkpoint, SaveCommits, SaveFails, Ends, db
  <1>3. \A q \in Process \ {p} : turn'[q] = turn[q]
    BY <1>1, ZenonT(60)
       DEF TypeOK, Continue, Goto, ContinueRefused, Checkpoint, SaveCommits,
       SaveFails, Ends
  <1>4. /\ turn'[p].epoch = turn[p].epoch /\ turn'[p].mark = turn[p].mark
        /\ turn'[p].pc \notin {"idle", "begin", "paused"}
        /\ turn[p].pc \notin {"idle", "begin", "paused"}
    <2>1. CASE Continue(p)
      BY <1>1, <2>1 DEF TypeOK, Continue, Goto, Turn
    <2>2. CASE ContinueRefused(p)
      BY <1>1, <2>2 DEF TypeOK, ContinueRefused, Turn
    <2>3. CASE Checkpoint(p)
      BY <1>1, <2>3, CheckpointTurn
    <2>4. CASE SaveCommits(p)
      BY <1>1, <2>4 DEF TypeOK, SaveCommits, Turn
    <2>5. CASE SaveFails(p)
      BY <1>1, <2>5 DEF TypeOK, SaveFails, Turn
    <2>6. CASE Ends(p)
      BY <1>1, <2>6 DEF TypeOK, Ends, Turn
    <2> QED BY <2>1, <2>2, <2>3, <2>4, <2>5, <2>6
  <1>5. /\ turn'[p].pc \in {"leased", "finishing"} => turn'[p].kind = "resume"
        /\ turn'[p].pc = "finishing" => turn'[p].result \in Status
        /\ \/ turn'[p].kind = "resume" \/ turn'[p].pc = "saving"
           \/ turn'[p].checkpointed
           => turn'[p].flow \in Flow
    <2>1. CASE Continue(p)
      BY <1>1, <2>1 DEF TypeOK, Continue, Goto, Turn, TurnInv, KnownFlow
    <2>2. CASE ContinueRefused(p)
      BY <1>1, <2>2 DEF TypeOK, ContinueRefused, Turn, Status, TurnInv, KnownFlow
    <2>3. CASE Checkpoint(p)
      BY <1>1, <2>3, CheckpointTurn
    <2>4. CASE SaveCommits(p)
      BY <1>1, <2>4 DEF TypeOK, SaveCommits, Turn, TurnInv, KnownFlow
    <2>5. CASE SaveFails(p)
      BY <1>1, <2>5 DEF TypeOK, SaveFails, Turn, TurnInv, KnownFlow
    <2>6. CASE Ends(p)
      BY <1>1, <2>6 DEF TypeOK, Ends, Turn, TurnInv, KnownFlow
    <2> QED BY <2>1, <2>2, <2>3, <2>4, <2>5, <2>6
  <1> QED BY <1>1, <1>2, <1>3, <1>4, <1>5, OneTurnMoves DEF TurnInv, Fenced

LEMMA EndTurnInv ==
  ASSUME IInv, Fenced, NEW p \in Process,
         Persists(p) \/ PersistFails(p) \/ FinishCommits(p) \/ FinishFails(p)
  PROVE  TurnInv'
  <1>1. TypeOK /\ TurnInv /\ epoch \in Nat /\ turn[p] \in Turn
    BY DEF IInv, TurnInv, TypeOK
  <1>2. epoch' = epoch
    BY DEF Persists, PersistFails, FinishCommits, FinishFails, db
  <1>3. CASE Leave(p)
    BY <1>1, <1>2, <1>3, LeaveTurn
  <1>4. CASE ~ Leave(p)
    <2>1. turn[p].pc = "ended" /\ turn[p].kind = "resume"
      BY <1>1, <1>4 DEF Persists, PersistFails, FinishCommits, FinishFails, Turn
    <2>2. \A q \in Process \ {p} : turn'[q] = turn[q]
      BY <1>1, <1>4 DEF TypeOK, Persists, PersistFails, FinishCommits, FinishFails, Goto
    <2>3. /\ turn'[p].pc = "finishing" /\ turn'[p].kind = turn[p].kind
          /\ turn'[p].flow = turn[p].flow /\ turn'[p].epoch = turn[p].epoch
          /\ turn'[p].mark = turn[p].mark
      BY <1>1, <1>4
         DEF TypeOK, Persists, PersistFails, FinishCommits, FinishFails, Goto, Turn
    <2>4. turn'[p].result \in Status
      BY <1>1, <1>4
         DEF TypeOK, Persists, PersistFails, FinishCommits, FinishFails, Goto, Turn,
             Status
    <2>5. turn[p].flow \in Flow
      BY <1>1, <2>1 DEF TurnInv, KnownFlow
    <2>6. turn[p].epoch <= epoch /\ (turn[p].mark = "late" => turn[p].epoch < epoch)
      BY <1>1, <2>1 DEF TurnInv, Fenced
    <2> QED BY <1>1, <1>2, <2>1, <2>2, <2>3, <2>4, <2>5, <2>6, OneTurnMoves
  <1> QED BY <1>3, <1>4

\* A committed stop overtakes every turn and leaves the flow of each alone.
LEMMA StopTurnInv ==
  ASSUME IInv, Fenced, NEW p \in Process, Stops(p)
  PROVE  TurnInv'
  <1>1. TypeOK /\ TurnInv /\ KnownFlow /\ epoch \in Nat /\ turn[p] \in Turn
    BY DEF IInv, TurnInv, TypeOK
  <1>2. CASE Abort(p)
    <2>1. PICK c \in BOOLEAN : turn' = [turn EXCEPT ![p] = Cancelled(turn[p], c)]
      BY <1>2 DEF Abort
    <2>2. \A q \in Process \ {p} : turn'[q] = turn[q]
      BY <1>1, <2>1 DEF TypeOK
    <2>3. turn'[p] = Cancelled(turn[p], c)
      BY <1>1, <2>1 DEF TypeOK
    <2>4. /\ turn'[p].pc = turn[p].pc /\ turn'[p].kind = turn[p].kind
          /\ turn'[p].flow = turn[p].flow /\ turn'[p].epoch = turn[p].epoch
          /\ turn'[p].mark = turn[p].mark /\ turn'[p].result = turn[p].result
          /\ turn'[p].checkpointed = turn[p].checkpointed
      BY <1>1, <2>3 DEF Cancelled, Turn
    <2>5. epoch' = epoch
      BY <1>2 DEF Abort, db
    <2> QED BY <1>1, <2>2, <2>4, <2>5, OneTurnMoves DEF TurnInv, KnownFlow, Fenced
  <1>3. CASE AbortCommits(p)
    <2>1. epoch' = epoch + 1 /\ \A q \in Process : turn'[q] = Overtaken(turn[q])
      BY <1>3 DEF AbortCommits, PauseSession
    <2>2. \A q \in Process : turn[q] \in Turn /\ turn[q].epoch \in Nat
      BY <1>1 DEF TypeOK, Turn
    <2>3. ASSUME NEW q \in Process
          PROVE  /\ turn'[q].pc = turn[q].pc /\ turn'[q].kind = turn[q].kind
                 /\ turn'[q].flow = turn[q].flow /\ turn'[q].epoch = turn[q].epoch
                 /\ turn'[q].result = turn[q].result
                 /\ turn'[q].checkpointed = turn[q].checkpointed
                 /\ turn[q].pc \in {"begin", "paused"} => turn'[q].mark = "early"
      BY <2>1, <2>2, ZenonT(60) DEF Overtaken, Turn
    <2>4. KnownFlow'
      BY <1>1, <2>3 DEF KnownFlow
    <2>5. Fenced'
      BY <1>1, <2>1, <2>2, <2>3 DEF Fenced
    <2> QED BY <2>4, <2>5 DEF TurnInv
  <1>4. CASE AbortFails(p)
    BY <1>1, <1>4 DEF AbortFails, db, TurnInv, KnownFlow, Fenced
  <1> QED BY <1>2, <1>3, <1>4 DEF Stops

LEMMA TurnStep ==
  ASSUME IInv, Fenced, [Next]_vars
  PROVE  TurnInv'
  <1>1. TypeOK /\ TurnInv
    BY DEF IInv, TurnInv
  <1>2. CASE UNCHANGED vars
    BY <1>1, <1>2 DEF vars, db, TurnInv, KnownFlow, Fenced
  <1>3. ASSUME NEW p \in Process,
               \/ Restart(p) \/ LosesConnection(p)
               \/ \E f \in Flow : DeferBusy(p, f)
        PROVE  TurnInv'
    <2>1. turn' = turn /\ epoch' = epoch
      BY <1>3 DEF Restart, LosesConnection, DeferBusy, db
    <2> QED BY <1>1, <2>1 DEF TurnInv, KnownFlow, Fenced
  <1>4. ASSUME NEW f \in Flow, Due(f)
        PROVE  TurnInv'
    <2>1. turn' = turn /\ epoch' = epoch
      BY <1>4 DEF Due
    <2> QED BY <1>1, <2>1 DEF TurnInv, KnownFlow, Fenced
  <1>5. ASSUME NEW p \in Process, HumanTurn(p) \/ \E f \in Flow : Resume(p, f)
        PROVE  TurnInv'
    BY <1>1, <1>5, AdmitTurn DEF HumanTurn, Resume
  <1>6. ASSUME NEW p \in Process, Crash(p)
        PROVE  TurnInv'
    BY <1>1, <1>6, LeaveTurn DEF Crash, db
  <1>7. ASSUME NEW p \in Process, Works(p) \/ Stops(p)
        PROVE  TurnInv'
    BY <1>7, HumanTurnInv, ClaimTurnInv, RunTurnInv, EndTurnInv, StopTurnInv DEF Works
  <1> QED BY <1>2, <1>3, <1>4, <1>5, <1>6, <1>7 DEF Next

-----------------------------------------------------------------------------
(* Theorems *)

LEMMA Always == Spec => [](IInv /\ Fenced)
  <1>1. Init => IInv /\ Fenced
    BY InitHolds DEF Init, Fenced, Idle
  <1>2. IInv /\ Fenced /\ [Next]_vars => (IInv /\ Fenced)'
    <2> SUFFICES ASSUME IInv, Fenced, [Next]_vars
                 PROVE  (IInv /\ Fenced)'
      OBVIOUS
    <2> QED BY TypeStep, KeptStep, TurnStep DEF IInv, Kept, TurnInv
  <1> QED BY <1>1, <1>2, PTL DEF Spec

\* Types, for any number of processes, flows and stops.
THEOREM FlowTypes == Spec => []TypeOK
  <1>1. IInv => TypeOK
    BY DEF IInv
  <1> QED BY <1>1, Always, PTL

\* A queued or running continuation belongs to the current epoch of its session
\* and has its checkpoint: what a stop has seen is never executed later, however
\* claims, checkpoints, stops, crashes and lost connections interleave.
THEOREM CurrentContinuations == Spec => []PendingIsCurrent
  <1>1. IInv => PendingIsCurrent
    BY DEF IInv
  <1> QED BY <1>1, Always, PTL

\* A flow that has not completed keeps its last checkpoint (flow_queue.go:469-482
\* deletes it only together with the end of its own job).
THEOREM KeptCheckpoints == Spec => []CheckpointKept
  <1>1. IInv => CheckpointKept
    BY DEF IInv
  <1> QED BY <1>1, Always, PTL

\* A turn leaves its save only by a step of its own.
LEMMA OwnSave ==
  ASSUME TypeOK, [Next]_vars, NEW p \in Process,
         turn[p].pc = "saving", turn'[p].pc = "ended"
  PROVE  SaveCommits(p) \/ SaveFails(p)
  <1>1. turn[p] \in Turn /\ turn' # turn
    BY DEF TypeOK
  <1>2. ASSUME NEW q \in Process, Works(q)
        PROVE  SaveCommits(p) \/ SaveFails(p)
    <2>1. CASE q = p
      BY <1>1, <1>2, <2>1 DEF Works, HumanPauses, HumanReads, HumanUnlatches, HumanFails,
         Claim, Continue, ContinueRefused, Checkpoint, Ends, Persists, PersistFails,
         FinishCommits, FinishFails
    <2>2. CASE q # p
      <3>1. turn'[p] = turn[p]
        BY <1>1, <1>2, <2>2, ZenonT(60)
           DEF TypeOK, Works, HumanPauses, HumanReads, HumanUnlatches,
           HumanFails, Claim, ClaimRefused, ClaimEnds, ClaimRuns, Continue,
           ContinueRefused, Checkpoint, SaveCommits, SaveFails, Ends, Persists,
           PersistFails, FinishCommits, FinishFails, Leave, Goto
      <3> QED BY <3>1
    <2> QED BY <2>1, <2>2
  <1>3. ASSUME NEW q \in Process, Stops(q)
        PROVE  FALSE
    <2>1. CASE Abort(q)
      <3>1. PICK c \in BOOLEAN : turn' = [turn EXCEPT ![q] = Cancelled(turn[q], c)]
        BY <2>1 DEF Abort
      <3>2. turn'[p].pc = turn[p].pc
        BY <1>1, <3>1 DEF TypeOK, Cancelled, Turn
      <3> QED BY <3>2
    <2>2. CASE AbortCommits(q)
      <3>1. turn'[p].pc = turn[p].pc
        BY <1>1, <2>2 DEF AbortCommits, Overtaken, Turn
      <3> QED BY <3>1
    <2>3. CASE AbortFails(q)
      BY <1>1, <2>3 DEF AbortFails
    <2> QED BY <1>3, <2>1, <2>2, <2>3 DEF Stops
  <1>4. ASSUME NEW q \in Process, Crash(q)
        PROVE  FALSE
    BY <1>1, <1>4 DEF TypeOK, Crash, Leave, Idle
  <1>5. ASSUME NEW q \in Process,
               HumanTurn(q) \/ \E f \in Flow : Resume(q, f)
        PROVE  FALSE
    BY <1>1, <1>5, ZenonT(60) DEF TypeOK, HumanTurn, Resume, Admit, Idle
  <1> QED BY <1>1, <1>2, <1>3, <1>4, <1>5
          DEF Next, vars, Restart, LosesConnection, DeferBusy, Due

\* A stop that finds a turn with its epoch read fences it for good: whatever
\* happens in between, its checkpoint is not queued (flow_queue.go:556).
THEOREM StopsFence == Spec => StopFencesTurns
  <1>1. ASSUME IInv, Fenced, [Next]_vars,
               NEW p \in Process, turn[p].mark = "late", Queues(p)
        PROVE  FALSE
    <2>1. TypeOK /\ turn[p].epoch < epoch /\ epoch \in Nat /\ turn[p].epoch \in Nat
      BY <1>1 DEF IInv, TypeOK, Turn, Fenced, Queues
    <2>2. SaveCommits(p) \/ SaveFails(p)
      BY <1>1, <2>1, OwnSave DEF Queues
    <2>3. ~ SaveCommits(p)
      BY <2>1 DEF SaveCommits, Current
    <2>4. ~ SaveFails(p)
      BY <1>1 DEF SaveFails, Queues, db
    <2> QED BY <2>2, <2>3, <2>4
  <1>2. IInv /\ Fenced /\ [Next]_vars
          => [\A p \in Process : turn[p].mark = "late" => ~ Queues(p)]_vars
    BY <1>1
  <1> QED BY <1>2, Always, PTL DEF Spec, StopFencesTurns

-----------------------------------------------------------------------------
(* Exclusion: without lost connections a turn holds the lock of the session *)

LockHeld == losses = 0 => \A p \in Process : turn[p].pc # "idle" => sessionLock = p

LEMMA LeaveHeld ==
  ASSUME TypeOK, LockHeld, NEW p \in Process, Leave(p), losses' = losses
  PROVE  LockHeld'
  <1>1. turn'[p].pc = "idle" /\ \A q \in Process \ {p} : turn'[q] = turn[q]
    BY DEF TypeOK, Leave, Idle
  <1>2. \A q \in Process \ {p} : sessionLock = q => sessionLock' = q
    BY DEF Leave, Unlocked
  <1> QED BY <1>1, <1>2 DEF LockHeld

LEMMA AdmitHeld ==
  ASSUME TypeOK, LockHeld, NEW p \in Process, NEW kind, NEW f, Admit(p, kind, f)
  PROVE  LockHeld'
  <1>1. losses = 0 => \A q \in Process : turn[q].pc = "idle"
    BY ProcessAssumption DEF Admit, Busy, LockHeld
  <1>2. \A q \in Process \ {p} : turn'[q] = turn[q]
    BY DEF TypeOK, Admit
  <1> QED BY <1>1, <1>2 DEF LockHeld, Admit, bounds

LEMMA TurnHeld ==
  ASSUME TypeOK, LockHeld, sessionLock' = sessionLock, losses' = losses,
         \A q \in Process : turn'[q].pc # "idle" => turn[q].pc # "idle"
  PROVE  LockHeld'
  BY DEF LockHeld

LEMMA WorksHeld ==
  ASSUME TypeOK, LockHeld, NEW p \in Process, Works(p)
  PROVE  LockHeld'
  <1>1. losses' = losses
    BY DEF Works, HumanPauses, HumanReads, HumanUnlatches, HumanFails, Claim,
       ClaimRefused, ClaimEnds, ClaimRuns, Continue, ContinueRefused, Checkpoint,
       SaveCommits, SaveFails, Ends, Persists, PersistFails, FinishCommits,
       FinishFails, bounds
  <1>2. CASE Leave(p)
    BY <1>1, <1>2, LeaveHeld
  <1>3. CASE ~ Leave(p)
    <2>1. sessionLock' = sessionLock
      BY <1>3 DEF Works, HumanPauses, HumanReads, HumanUnlatches, HumanFails, Claim,
         ClaimRefused, ClaimEnds, ClaimRuns, Continue, ContinueRefused, Checkpoint,
         SaveCommits, SaveFails, Ends, Persists, PersistFails, FinishCommits,
         FinishFails, locks
    <2>2. turn[p].pc # "idle"
      BY DEF Works, HumanPauses, HumanReads, HumanUnlatches, HumanFails, Claim,
         Continue, ContinueRefused, Checkpoint, SaveCommits, SaveFails, Ends,
         Persists, PersistFails, FinishCommits, FinishFails
    <2>3. \A q \in Process \ {p} : turn'[q] = turn[q]
      BY <1>3, ZenonT(60)
         DEF TypeOK, Works, HumanPauses, HumanReads, HumanUnlatches, HumanFails,
         Claim, ClaimRefused, ClaimEnds, ClaimRuns, Continue, ContinueRefused,
         Checkpoint, SaveCommits, SaveFails, Ends, Persists, PersistFails,
         FinishCommits, FinishFails, Goto
    <2> QED BY <1>1, <2>1, <2>2, <2>3, TurnHeld
  <1> QED BY <1>2, <1>3

LEMMA StopsHeld ==
  ASSUME TypeOK, LockHeld, NEW p \in Process, Stops(p)
  PROVE  LockHeld'
  <1>1. sessionLock' = sessionLock /\ losses' = losses
    BY DEF Stops, Abort, AbortCommits, AbortFails, locks, bounds
  <1>2. CASE Abort(p)
    <2>1. PICK c \in BOOLEAN : turn' = [turn EXCEPT ![p] = Cancelled(turn[p], c)]
      BY <1>2 DEF Abort
    <2>2. \A q \in Process : turn'[q].pc = turn[q].pc
      BY <2>1 DEF TypeOK, Cancelled, Turn
    <2> QED BY <1>1, <2>2, TurnHeld
  <1>3. CASE AbortCommits(p)
    <2>1. \A q \in Process : turn'[q].pc = turn[q].pc
      BY <1>3 DEF TypeOK, AbortCommits, Overtaken, Turn
    <2> QED BY <1>1, <2>1, TurnHeld
  <1>4. CASE AbortFails(p)
    BY <1>1, <1>4, TurnHeld DEF AbortFails
  <1> QED BY <1>2, <1>3, <1>4 DEF Stops

LEMMA AlwaysHeld == Spec => []LockHeld
  <1>1. Init => LockHeld
    BY DEF Init, LockHeld, Idle
  <1>2. TypeOK /\ LockHeld /\ [Next]_vars => LockHeld'
    <2> SUFFICES ASSUME TypeOK, LockHeld, [Next]_vars
                 PROVE  LockHeld'
      OBVIOUS
    <2>1. ASSUME NEW p \in Process, HumanTurn(p) \/ \E f \in Flow : Resume(p, f)
          PROVE  LockHeld'
      BY <2>1, AdmitHeld DEF HumanTurn, Resume
    <2>2. ASSUME NEW p \in Process, Crash(p)
          PROVE  LockHeld'
      BY <2>2, LeaveHeld DEF Crash
    <2>3. ASSUME NEW p \in Process, LosesConnection(p)
          PROVE  LockHeld'
      <3>1. losses \in Nat /\ losses' = losses + 1
        BY <2>3 DEF TypeOK, LosesConnection
      <3> QED BY <3>1 DEF LockHeld
    <2>4. ASSUME \/ UNCHANGED vars
                 \/ \E p \in Process : Restart(p)
                 \/ \E p \in Process, f \in Flow : DeferBusy(p, f)
                 \/ \E f \in Flow : Due(f)
          PROVE  LockHeld'
      <3>1. turn' = turn /\ sessionLock' = sessionLock /\ losses' = losses
        BY <2>4 DEF vars, locks, bounds, Restart, DeferBusy, Due
      <3> QED BY <3>1, TurnHeld
    <2> QED BY <2>1, <2>2, <2>3, <2>4, WorksHeld, StopsHeld DEF Next
  <1> QED BY <1>1, <1>2, FlowTypes, PTL DEF Spec

\* Until a connection is lost, a session executes one turn at a time in all of
\* its processes (session_admission.go:12-53): no step lets a second one in, and
\* none gives the lock away before its turn has ended.
THEOREM Exclusion == Spec => []OneTurn
  <1>1. TypeOK /\ LockHeld => OneTurn
    BY DEF LockHeld, OneTurn, Executing
  <1> QED BY <1>1, AlwaysHeld, FlowTypes, PTL

-----------------------------------------------------------------------------
(* Resumes: the count in the checkpoint is the number of executions *)

\* The count a checkpoint carries is true, and so is the one a turn is about to
\* save: nothing else of the session runs between its read and its commit.
Counted ==
  losses = 0 =>
    /\ \A f \in Flow : resumed[f] = Carried(f) /\ resumed[f] <= MaxResumes
    /\ \A p \in Process : turn[p].pc = "saving" => turn[p].resumes = Carried(turn[p].flow)

LEMMA CountedKept ==
  ASSUME Counted, saved' = saved, resumed' = resumed, losses' = losses,
         \A p \in Process : turn'[p].pc = "saving" =>
            /\ turn[p].pc = "saving"
            /\ turn'[p].resumes = turn[p].resumes /\ turn'[p].flow = turn[p].flow
  PROVE  Counted'
  BY DEF Counted, Carried

LEMMA ClaimCounted ==
  ASSUME IInv, LockHeld, Counted, NEW p \in Process, turn[p].pc = "begin",
         turn[p].kind = "resume", ClaimRuns(p)
  PROVE  Counted'
  <1> PICK f \in Flow : f = turn[p].flow
    BY DEF IInv, KnownFlow
  <1>1. TypeOK /\ losses' = losses
    BY DEF IInv, ClaimRuns, bounds
  <1>2. saved[f] \in Saved /\ saved[f].resumes \in Nat
    BY <1>1, ClaimedIsSaved DEF ClaimRuns, Saved
  <1>3. saved[f].resumes < MaxResumes
    BY <1>1, <1>2, FlowBoundAssumption DEF ClaimRuns, Verdict
  <1>4. /\ resumed' = [resumed EXCEPT ![f] = @ + 1]
        /\ saved' = [saved EXCEPT ![f] = [saved[f] EXCEPT !.resumes = @ + 1]]
    BY DEF ClaimRuns
  <1>5. /\ saved'[f] \in Saved /\ saved'[f].resumes = saved[f].resumes + 1
        /\ \A g \in Flow \ {f} : saved'[g] = saved[g]
    BY <1>1, <1>2, <1>4 DEF TypeOK, Saved
  <1>6. /\ Carried(f) = saved[f].resumes /\ Carried(f)' = saved[f].resumes + 1
        /\ \A g \in Flow \ {f} : Carried(g)' = Carried(g)
    BY <1>2, <1>5, SavedRecord DEF Carried
  <1>7. /\ resumed'[f] = resumed[f] + 1
        /\ \A g \in Flow \ {f} : resumed'[g] = resumed[g]
    BY <1>1, <1>4 DEF TypeOK
  <1>8. losses = 0 => \A q \in Process : turn'[q].pc # "saving"
    <2>1. turn'[p].pc = "leased" /\ \A q \in Process \ {p} : turn'[q] = turn[q]
      BY <1>1 DEF TypeOK, ClaimRuns, Turn
    <2> QED BY <2>1 DEF LockHeld
  <1>9. ASSUME losses = 0, NEW g \in Flow
        PROVE  resumed'[g] = Carried(g)' /\ resumed'[g] <= MaxResumes
    <2>1. CASE g = f
      BY <1>1, <1>2, <1>3, <1>6, <1>7, <1>9, <2>1, FlowBoundAssumption DEF Counted
    <2>2. CASE g # f
      BY <1>6, <1>7, <1>9, <2>2 DEF Counted
    <2> QED BY <2>1, <2>2
  <1> QED BY <1>1, <1>8, <1>9 DEF Counted

LEMMA CheckpointCounted ==
  ASSUME IInv, Counted, NEW p \in Process, Checkpoint(p)
  PROVE  Counted'
  <1>1. TypeOK /\ saved' = saved /\ resumed' = resumed /\ losses' = losses
    BY DEF IInv, Checkpoint, db, ghosts, bounds
  <1>2. PICK f \in (IF turn[p].kind = "human" THEN Flow ELSE {turn[p].flow}),
             budget, good, answered \in BOOLEAN :
          turn' = [turn EXCEPT ![p].pc = "saving", ![p].flow = f,
                     ![p].resumes = Carried(f),
                     ![p].want = SaveStatus(p, f, budget, good, answered),
                     ![p].result = IF budget THEN "checkpoint" ELSE "manual_review"]
    BY DEF Checkpoint
  <1>3. turn'[p].flow = f /\ turn'[p].resumes = Carried(f)
    BY <1>1, <1>2 DEF TypeOK, Turn
  <1>4. \A q \in Process \ {p} : turn'[q] = turn[q]
    BY <1>1, <1>2 DEF TypeOK
  <1> QED BY <1>1, <1>3, <1>4 DEF Counted, Carried

LEMMA SaveCounted ==
  ASSUME IInv, LockHeld, Counted, NEW p \in Process, SaveCommits(p)
  PROVE  Counted'
  <1> PICK f \in Flow : f = turn[p].flow
    BY DEF IInv, KnownFlow, SaveCommits
  <1>1. /\ TypeOK /\ turn[p].pc = "saving"
        /\ resumed' = resumed /\ losses' = losses
    BY DEF IInv, SaveCommits, ghosts, bounds
  <1>2. saved' = [saved EXCEPT ![f] = [resumes |-> turn[p].resumes,
                                       epoch |-> turn[p].epoch]]
    BY DEF SaveCommits
  <1>3. saved'[f] \in Saved /\ saved'[f].resumes = turn[p].resumes
    BY <1>1, <1>2 DEF TypeOK, Turn, Saved
  <1>4. Carried(f)' = turn[p].resumes /\ \A g \in Flow \ {f} : Carried(g)' = Carried(g)
    BY <1>1, <1>2, <1>3, SavedRecord DEF TypeOK, Carried
  <1>5. losses = 0 => \A q \in Process : turn'[q].pc # "saving"
    <2>1. turn'[p].pc = "ended" /\ \A q \in Process \ {p} : turn'[q] = turn[q]
      BY <1>1 DEF TypeOK, SaveCommits, Turn
    <2> QED BY <1>1, <2>1 DEF LockHeld
  <1> QED BY <1>1, <1>4, <1>5 DEF Counted

LEMMA FinishCounted ==
  ASSUME IInv, LockHeld, Counted, NEW p \in Process, FinishCommits(p)
  PROVE  Counted'
  <1> PICK f \in Flow : f = turn[p].flow
    BY DEF IInv, KnownFlow, FinishCommits
  <1>1. TypeOK /\ turn[p].pc = "finishing" /\ losses' = losses
    BY DEF IInv, FinishCommits, bounds
  <1>2. turn'[p].pc = "idle" /\ \A q \in Process \ {p} : turn'[q] = turn[q]
    BY <1>1 DEF TypeOK, FinishCommits, Leave, Idle
  <1>3. losses = 0 => \A q \in Process : turn'[q].pc # "saving"
    BY <1>1, <1>2 DEF LockHeld
  <1>4. CASE Deletes(p)
    <2>1. saved' = [saved EXCEPT ![f] = NoState] /\ resumed' = [resumed EXCEPT ![f] = 0]
      BY <1>4 DEF FinishCommits
    <2>2. /\ Carried(f)' = 0 /\ resumed'[f] = 0
          /\ \A g \in Flow \ {f} : Carried(g)' = Carried(g) /\ resumed'[g] = resumed[g]
      BY <1>1, <2>1 DEF TypeOK, Carried
    <2> QED BY <1>1, <1>3, <2>2, FlowBoundAssumption DEF Counted
  <1>5. CASE ~ Deletes(p)
    BY <1>1, <1>3, <1>5 DEF FinishCommits, Counted, Carried
  <1> QED BY <1>4, <1>5

LEMMA WorksCounted ==
  ASSUME IInv, LockHeld, Counted, NEW p \in Process, Works(p)
  PROVE  Counted'
  <1>1. TypeOK /\ turn[p] \in Turn
    BY DEF IInv, TypeOK
  <1>2. CASE Checkpoint(p)
    BY <1>2, CheckpointCounted
  <1>3. CASE SaveCommits(p)
    BY <1>3, SaveCounted
  <1>4. CASE FinishCommits(p)
    BY <1>4, FinishCounted
  <1>5. CASE Claim(p) /\ ClaimRuns(p)
    BY <1>5, ClaimCounted DEF Claim
  <1>6. CASE \/ HumanPauses(p) \/ HumanReads(p) \/ HumanUnlatches(p) \/ HumanFails(p)
             \/ ClaimRefused(p) \/ ClaimEnds(p) \/ Continue(p) \/ ContinueRefused(p)
             \/ SaveFails(p) \/ Ends(p) \/ Persists(p) \/ PersistFails(p)
             \/ FinishFails(p)
    <2>1. saved' = saved /\ resumed' = resumed /\ losses' = losses
      BY <1>6 DEF HumanPauses, HumanReads, HumanUnlatches, HumanFails, PauseSession,
         ClaimRefused, ClaimEnds, Continue, ContinueRefused, SaveFails, Ends, Persists,
         PersistFails, FinishFails, db, ghosts, bounds
    <2>2. \A q \in Process \ {p} : turn'[q] = turn[q]
      BY <1>1, <1>6 DEF TypeOK, HumanPauses, HumanReads, HumanUnlatches, HumanFails,
         ClaimRefused, ClaimEnds, Continue, ContinueRefused, SaveFails, Ends, Persists,
         PersistFails, FinishFails, Leave, Goto
    <2>3. turn'[p].pc # "saving"
      BY <1>1, <1>6 DEF TypeOK, HumanPauses, HumanReads, HumanUnlatches, HumanFails,
         ClaimRefused, ClaimEnds, Continue, ContinueRefused, SaveFails, Ends, Persists,
         PersistFails, FinishFails, Leave, Goto, Idle, Turn
    <2> QED BY <2>1, <2>2, <2>3, CountedKept
  <1> QED BY <1>2, <1>3, <1>4, <1>5, <1>6 DEF Works, Claim

\* Fields of a turn that a stop leaves alone.
LEMMA StopKeeps ==
  ASSUME TypeOK, NEW p \in Process, Stops(p)
  PROVE  \A q \in Process : /\ turn'[q].pc = turn[q].pc /\ turn'[q].flow = turn[q].flow
                            /\ turn'[q].gen = turn[q].gen
                            /\ turn'[q].resumes = turn[q].resumes
                            /\ turn'[q].result = turn[q].result
  <1>1. CASE Abort(p)
    <2>1. PICK c \in BOOLEAN : turn' = [turn EXCEPT ![p] = Cancelled(turn[p], c)]
      BY <1>1 DEF Abort
    <2> QED BY <2>1 DEF TypeOK, Cancelled, Turn
  <1>2. CASE AbortCommits(p)
    BY <1>2 DEF TypeOK, AbortCommits, Overtaken, Turn
  <1>3. CASE AbortFails(p)
    BY <1>3 DEF AbortFails
  <1> QED BY <1>1, <1>2, <1>3 DEF Stops

LEMMA AdmitBegins ==
  ASSUME TypeOK, NEW p \in Process, HumanTurn(p) \/ \E f \in Flow : Resume(p, f)
  PROVE  /\ turn'[p].pc = "begin" /\ turn'[p].result = "none"
         /\ \A q \in Process \ {p} : turn'[q] = turn[q]
  <1>1. PICK kind \in {"human", "resume"}, f \in Flow \cup {NoFlow} : Admit(p, kind, f)
    BY DEF HumanTurn, Resume
  <1>2. turn' = [turn EXCEPT ![p] = [Idle EXCEPT !.pc = "begin", !.kind = kind,
                                                 !.flow = f]]
    BY <1>1 DEF Admit
  <1>3. turn'[p] = [Idle EXCEPT !.pc = "begin", !.kind = kind, !.flow = f]
    BY <1>2 DEF TypeOK
  <1> QED BY <1>2, <1>3 DEF TypeOK, Idle

LEMMA CountedStep ==
  ASSUME IInv, LockHeld, Counted, [Next]_vars
  PROVE  Counted'
  <1>1. TypeOK
    BY DEF IInv
  <1>2. ASSUME NEW p \in Process, HumanTurn(p) \/ \E f \in Flow : Resume(p, f)
        PROVE  Counted'
    <2>1. saved' = saved /\ resumed' = resumed /\ losses' = losses
      BY <1>2 DEF HumanTurn, Resume, Admit, db, ghosts, bounds
    <2>2. turn'[p].pc = "begin" /\ \A q \in Process \ {p} : turn'[q] = turn[q]
      BY <1>1, <1>2, AdmitBegins
    <2> QED BY <2>1, <2>2, CountedKept
  <1>3. ASSUME NEW p \in Process, Stops(p)
        PROVE  Counted'
    <2>1. saved' = saved /\ resumed' = resumed /\ losses' = losses
      BY <1>3 DEF Stops, Abort, AbortCommits, AbortFails, PauseSession, db, ghosts, bounds
    <2> QED BY <1>1, <1>3, <2>1, StopKeeps, CountedKept
  <1>4. ASSUME NEW p \in Process, Crash(p)
        PROVE  Counted'
    <2>1. saved' = saved /\ resumed' = resumed /\ losses' = losses
      BY <1>4 DEF Crash, db, ghosts
    <2>2. turn'[p].pc = "idle" /\ \A q \in Process \ {p} : turn'[q] = turn[q]
      BY <1>1, <1>4 DEF TypeOK, Crash, Leave, Idle
    <2> QED BY <2>1, <2>2, CountedKept
  <1>5. ASSUME NEW p \in Process, LosesConnection(p)
        PROVE  Counted'
    <2>1. losses \in Nat /\ losses' = losses + 1
      BY <1>1, <1>5 DEF TypeOK, LosesConnection
    <2> QED BY <2>1 DEF Counted
  <1>6. ASSUME \/ UNCHANGED vars
               \/ \E p \in Process : Restart(p)
               \/ \E p \in Process, f \in Flow : DeferBusy(p, f)
               \/ \E f \in Flow : Due(f)
        PROVE  Counted'
    <2>1. turn' = turn /\ saved' = saved /\ resumed' = resumed /\ losses' = losses
      BY <1>6 DEF vars, db, bounds, ghosts, Restart, DeferBusy, Due
    <2> QED BY <2>1, CountedKept
  <1> QED BY <1>2, <1>3, <1>4, <1>5, <1>6, WorksCounted DEF Next

\* A flow is continued automatically at most MaxResumes times before it
\* completes (flow_queue.go:122, 327-334; flow.go:255-260), however often it is checkpointed,
\* stopped and rerun, until a second turn of the session may overwrite its count.
THEOREM BoundedResumes == Spec => []ResumesBounded
  <1>1. Init => Counted
    BY FlowBoundAssumption DEF Init, Counted, Carried, Idle
  <1>2. IInv /\ LockHeld /\ Counted /\ [Next]_vars => Counted'
    BY CountedStep
  <1>3. Counted => ResumesBounded
    BY DEF Counted, ResumesBounded
  <1> QED BY <1>1, <1>2, <1>3, Always, AlwaysHeld, PTL DEF Spec

-----------------------------------------------------------------------------
(* Executions: a generation that has left the queue does not return to it *)

Used(f, g) == g < job[f].gen \/ (g = job[f].gen /\ job[f].status # "queued")
Leased(p)  == turn[p].pc = "leased"

\* What was executed, or is about to be, has left the queue; no two turns hold
\* the same generation of a flow, even when both lost their connections.
Once ==
  /\ \A p \in Process : turn[p].result # "queued"
  /\ \A x \in ran : Used(x[1], x[2])
  /\ \A p \in Process : Leased(p) => /\ Used(turn[p].flow, turn[p].gen)
                                     /\ <<turn[p].flow, turn[p].gen>> \notin ran
  /\ \A p, q \in Process :
       Leased(p) /\ Leased(q) /\ turn[p].flow = turn[q].flow /\ turn[p].gen = turn[q].gen
         => p = q

\* A job enters the queue only with a new generation.
LEMMA JobsAdvance ==
  ASSUME IInv, Once, [Next]_vars, NEW f \in Flow
  PROVE  /\ job[f].gen \in Nat /\ job'[f].gen \in Nat /\ job[f].gen <= job'[f].gen
         /\ job'[f].gen = job[f].gen /\ job'[f].status = "queued"
              => job[f].status = "queued"
  <1>1. TypeOK /\ job[f] \in Job /\ job[f].gen \in Nat
    BY DEF IInv, TypeOK, Job
  <1>2. CASE job' = job
    BY <1>1, <1>2
  <1>3. CASE PauseSession
    <2>1. job'[f] = Stopped(job[f])
      BY <1>3 DEF PauseSession
    <2> QED BY <1>1, <2>1 DEF Stopped, Job
  <1>4. ASSUME NEW g \in Flow, NEW b \in BOOLEAN, job' = [job EXCEPT ![g].due = b]
        PROVE  job'[f].gen = job[f].gen /\ job'[f].status = job[f].status
    BY <1>1, <1>4 DEF TypeOK, Job
  <1>5. ASSUME NEW p \in Process, Claim(p), ClaimEnds(p)
        PROVE  job'[f].gen = job[f].gen
               /\ (job'[f].status = "queued" => job[f].status = "queued")
    BY <1>1, <1>5 DEF TypeOK, ClaimEnds, Verdict, Job
  <1>6. ASSUME NEW p \in Process, Claim(p), ClaimRuns(p)
        PROVE  job'[f].gen = job[f].gen
               /\ (job'[f].status = "queued" => job[f].status = "queued")
    BY <1>1, <1>6 DEF TypeOK, ClaimRuns, Job
  <1>7. ASSUME NEW p \in Process, SaveCommits(p)
        PROVE  job'[f] = job[f] \/ job'[f].gen = job[f].gen + 1
    BY <1>1, <1>7 DEF TypeOK, SaveCommits, Job
  <1>8. ASSUME NEW p \in Process, FinishCommits(p)
        PROVE  job'[f].gen = job[f].gen
               /\ (job'[f].status = "queued" => job[f].status = "queued")
    BY <1>1, <1>8 DEF TypeOK, FinishCommits, Job, Once
  <1>9. \/ job' = job
        \/ PauseSession
        \/ \E g \in Flow, b \in BOOLEAN : job' = [job EXCEPT ![g].due = b]
        \/ \E p \in Process : \/ Claim(p) /\ (ClaimEnds(p) \/ ClaimRuns(p))
                              \/ SaveCommits(p) \/ FinishCommits(p)
    <2>1. ASSUME NEW p \in Process, Works(p)
          PROVE  \/ job' = job \/ PauseSession
                 \/ Claim(p) /\ (ClaimEnds(p) \/ ClaimRuns(p))
                 \/ SaveCommits(p) \/ FinishCommits(p)
      BY <2>1 DEF Works, HumanPauses, HumanReads, HumanUnlatches, HumanFails, Claim,
         ClaimRefused, Continue, ContinueRefused, Checkpoint, SaveFails, Ends, Persists,
         PersistFails, FinishFails, db
    <2>2. ASSUME NEW p \in Process, Stops(p)
          PROVE  job' = job \/ PauseSession
      BY <2>2 DEF Stops, Abort, AbortCommits, AbortFails, db
    <2>3. ASSUME NEW p \in Process, NEW g \in Flow, DeferBusy(p, g)
          PROVE  job' = [job EXCEPT ![g].due = FALSE]
      BY <2>3 DEF DeferBusy
    <2>4. ASSUME NEW g \in Flow, Due(g)
          PROVE  job' = [job EXCEPT ![g].due = TRUE]
      BY <2>4 DEF Due
    <2>5. ASSUME NEW p \in Process,
                 \/ HumanTurn(p) \/ Crash(p) \/ Restart(p) \/ LosesConnection(p)
                 \/ \E g \in Flow : Resume(p, g)
          PROVE  job' = job
      BY <2>5 DEF HumanTurn, Resume, Admit, Crash, Restart, LosesConnection, db
    <2>6. UNCHANGED vars => job' = job
      BY DEF vars, db
    <2> QED BY <2>1, <2>2, <2>3, <2>4, <2>5, <2>6 DEF Next
  <1> QED BY <1>1, <1>2, <1>3, <1>4, <1>5, <1>6, <1>7, <1>8, <1>9

LEMMA UsedStays ==
  ASSUME IInv, Once, [Next]_vars, NEW f \in Flow, NEW g \in Nat, Used(f, g)
  PROVE  Used(f, g)'
  BY JobsAdvance DEF Used

\* A step that leases nothing and continues nothing.
LEMMA OnceKept ==
  ASSUME IInv, Once, [Next]_vars, ran' = ran,
         \A p \in Process : /\ turn'[p].result # "queued"
                            /\ Leased(p)' => /\ Leased(p)
                                             /\ turn'[p].flow = turn[p].flow
                                             /\ turn'[p].gen = turn[p].gen
  PROVE  Once'
  <1>1. \A x \in ran : Used(x[1], x[2])'
    BY UsedStays DEF IInv, TypeOK, Once
  <1>2. \A p \in Process : Leased(p) => turn[p].flow \in Flow /\ turn[p].gen \in Nat
    BY DEF IInv, TypeOK, KnownFlow, Turn, Leased
  <1>3. \A p \in Process : Leased(p)' => Used(turn[p].flow, turn[p].gen)'
    <2> SUFFICES ASSUME NEW p \in Process, Leased(p)'
                 PROVE  Used(turn[p].flow, turn[p].gen)'
      OBVIOUS
    <2>1. /\ Leased(p) /\ Used(turn[p].flow, turn[p].gen)
          /\ turn'[p].flow = turn[p].flow /\ turn'[p].gen = turn[p].gen
      BY DEF Once
    <2> PICK h \in Flow, n \in Nat : h = turn[p].flow /\ n = turn[p].gen
      BY <1>2, <2>1
    <2>2. Used(h, n)'
      BY <2>1, UsedStays
    <2> QED BY <2>1, <2>2
  <1> QED BY <1>1, <1>3 DEF Once, Leased

LEMMA ClaimOnce ==
  ASSUME IInv, Once, [Next]_vars, NEW p \in Process, Claim(p), ClaimRuns(p)
  PROVE  Once'
  <1> PICK f \in Flow : f = turn[p].flow
    BY DEF IInv, KnownFlow, Claim
  <1> PICK g \in Nat : g = job[f].gen
    BY DEF IInv, TypeOK, Job
  <1>1. TypeOK /\ ran' = ran
    BY DEF IInv, ClaimRuns
  <1>2. job[f].status = "queued" /\ ~ Used(f, g)
    BY <1>1, ClaimedIsSaved DEF ClaimRuns, Used
  <1>3. Used(f, g)'
    BY <1>1 DEF TypeOK, ClaimRuns, Used, Job
  <1>4. /\ turn'[p].pc = "leased" /\ turn'[p].flow = f /\ turn'[p].gen = g
        /\ turn'[p].result = turn[p].result
        /\ \A q \in Process \ {p} : turn'[q] = turn[q]
    BY <1>1 DEF TypeOK, ClaimRuns, Turn
  <1>5. \A x \in ran : Used(x[1], x[2])'
    BY UsedStays DEF IInv, TypeOK, Once
  <1>6. \A q \in Process : Leased(q) => turn[q].flow \in Flow /\ turn[q].gen \in Nat
    BY DEF IInv, TypeOK, KnownFlow, Turn, Leased
  <1>7. ASSUME NEW q \in Process, Leased(q), turn'[q] = turn[q]
        PROVE  Used(turn[q].flow, turn[q].gen)'
    <2> PICK h \in Flow, n \in Nat : h = turn[q].flow /\ n = turn[q].gen
      BY <1>6, <1>7
    <2>1. Used(h, n)'
      BY <1>7, UsedStays DEF Once
    <2> QED BY <1>7, <2>1
  <1>8. <<f, g>> \notin ran
    <2>1. <<f, g>> \in ran => Used(f, g)
      BY DEF Once
    <2> QED BY <1>2, <2>1
  <1>9. \A q \in Process : Leased(q) => turn[q].flow # f \/ turn[q].gen # g
    BY <1>2 DEF Once
  <1>10. ASSUME NEW q \in Process, Leased(q)'
         PROVE  /\ Used(turn[q].flow, turn[q].gen)'
                /\ <<turn'[q].flow, turn'[q].gen>> \notin ran'
    <2>1. CASE q = p
      BY <1>1, <1>3, <1>4, <1>8, <2>1 DEF Used
    <2>2. CASE q # p
      <3>1. Leased(q) /\ turn'[q] = turn[q]
        BY <1>4, <1>10, <2>2 DEF Leased
      <3> QED BY <1>1, <1>7, <3>1 DEF Once, Used
    <2> QED BY <2>1, <2>2
  <1>11. ASSUME NEW q \in Process, NEW r \in Process, Leased(q)', Leased(r)',
                turn'[q].flow = turn'[r].flow, turn'[q].gen = turn'[r].gen
         PROVE  q = r
    BY <1>4, <1>9, <1>11 DEF Once, Leased
  <1> QED BY <1>1, <1>4, <1>5, <1>10, <1>11 DEF Once

LEMMA ContinueOnce ==
  ASSUME IInv, Once, [Next]_vars, NEW p \in Process, Continue(p)
  PROVE  Once'
  <1> DEFINE x == <<turn[p].flow, turn[p].gen>>
  <1>1. TypeOK /\ Leased(p) /\ turn[p].flow \in Flow /\ turn[p].gen \in Nat
    BY DEF IInv, TypeOK, KnownFlow, Continue, Turn, Leased
  <1>2. job' = job /\ ran' = ran \cup {x}
    BY DEF Continue, db
  <1>3. /\ turn'[p].pc = "running" /\ turn'[p].result = turn[p].result
        /\ \A q \in Process \ {p} : turn'[q] = turn[q]
    BY <1>1 DEF TypeOK, Continue, Goto, Turn
  <1>4. \A q \in Process \ {p} :
          Leased(q) => turn[q].flow # turn[p].flow \/ turn[q].gen # turn[p].gen
    BY <1>1 DEF Once
  <1>5. \A y \in ran' : Used(y[1], y[2])'
    BY <1>1, <1>2 DEF Once, Used
  <1>6. ASSUME NEW q \in Process, Leased(q)'
        PROVE  /\ q # p /\ Leased(q) /\ turn'[q] = turn[q]
               /\ Used(turn[q].flow, turn[q].gen)'
               /\ <<turn'[q].flow, turn'[q].gen>> \notin ran'
    <2>1. q # p /\ Leased(q) /\ turn'[q] = turn[q]
      BY <1>3, <1>6 DEF Leased
    <2> QED BY <1>2, <1>4, <2>1 DEF Once, Used
  <1>7. \A q \in Process : turn'[q].result # "queued"
    BY <1>3 DEF Once
  <1> QED BY <1>5, <1>6, <1>7 DEF Once

LEMMA WorksOnce ==
  ASSUME IInv, Once, [Next]_vars, NEW p \in Process, Works(p)
  PROVE  Once'
  <1>1. TypeOK /\ turn[p] \in Turn /\ turn[p].result # "queued"
    BY DEF IInv, TypeOK, Once
  <1>2. CASE Claim(p) /\ ClaimRuns(p)
    BY <1>2, ClaimOnce
  <1>3. CASE Continue(p)
    BY <1>3, ContinueOnce
  <1>4. CASE Checkpoint(p)
    <2>1. ran' = ran /\ \A q \in Process \ {p} : turn'[q] = turn[q]
      BY <1>1, <1>4 DEF TypeOK, Checkpoint, ghosts
    <2>2. turn'[p].pc = "saving" /\ turn'[p].result \in {"checkpoint", "manual_review"}
      BY <1>1, <1>4 DEF TypeOK, Checkpoint, Turn
    <2> QED BY <2>1, <2>2, OnceKept DEF Once, Leased
  <1>5. CASE \/ HumanPauses(p) \/ HumanReads(p) \/ HumanUnlatches(p) \/ HumanFails(p)
             \/ ClaimRefused(p) \/ ClaimEnds(p) \/ ContinueRefused(p)
             \/ SaveCommits(p) \/ SaveFails(p) \/ Ends(p) \/ Persists(p)
             \/ PersistFails(p) \/ FinishCommits(p) \/ FinishFails(p)
    <2>1. ran' = ran
      BY <1>5 DEF HumanPauses, HumanReads, HumanUnlatches, HumanFails, ClaimRefused,
         ClaimEnds, ContinueRefused, SaveCommits, SaveFails, Ends, Persists,
         PersistFails, FinishCommits, FinishFails, ghosts
    <2>2. \A q \in Process \ {p} : turn'[q] = turn[q]
      BY <1>1, <1>5 DEF TypeOK, HumanPauses, HumanReads, HumanUnlatches, HumanFails,
         ClaimRefused, ClaimEnds, ContinueRefused, SaveCommits, SaveFails, Ends,
         Persists, PersistFails, FinishCommits, FinishFails, Leave, Goto
    <2>3. turn'[p].pc # "leased" /\ turn'[p].result # "queued"
      BY <1>1, <1>5 DEF TypeOK, HumanPauses, HumanReads, HumanUnlatches, HumanFails,
         ClaimRefused, ClaimEnds, ContinueRefused, SaveCommits, SaveFails, Ends,
         Persists, PersistFails, FinishCommits, FinishFails, Leave, Goto, Idle, Turn
    <2> QED BY <2>1, <2>2, <2>3, OnceKept DEF Once, Leased
  <1> QED BY <1>2, <1>3, <1>4, <1>5 DEF Works, Claim

LEMMA OnceStep ==
  ASSUME IInv, Once, [Next]_vars
  PROVE  Once'
  <1>1. TypeOK
    BY DEF IInv
  <1>2. ASSUME NEW p \in Process,
               HumanTurn(p) \/ Crash(p) \/ \E f \in Flow : Resume(p, f)
        PROVE  Once'
    <2>1. ran' = ran
      BY <1>2 DEF HumanTurn, Resume, Admit, Crash, ghosts
    <2>2. /\ turn'[p].pc \in {"idle", "begin"} /\ turn'[p].result = "none"
          /\ \A q \in Process \ {p} : turn'[q] = turn[q]
      <3>1. CASE Crash(p)
        BY <1>1, <3>1 DEF TypeOK, Crash, Leave, Idle
      <3> QED BY <1>1, <1>2, <3>1, AdmitBegins
    <2> QED BY <2>1, <2>2, OnceKept DEF Once, Leased
  <1>3. ASSUME NEW p \in Process, Stops(p)
        PROVE  Once'
    <2>1. ran' = ran
      BY <1>3 DEF Stops, Abort, AbortCommits, AbortFails, ghosts
    <2> QED BY <1>1, <1>3, <2>1, StopKeeps, OnceKept DEF Once, Leased
  <1>4. ASSUME \/ UNCHANGED vars
               \/ \E p \in Process : Restart(p) \/ LosesConnection(p)
               \/ \E p \in Process, f \in Flow : DeferBusy(p, f)
               \/ \E f \in Flow : Due(f)
        PROVE  Once'
    <2>1. turn' = turn /\ ran' = ran
      BY <1>4 DEF vars, ghosts, Restart, LosesConnection, DeferBusy, Due
    <2> QED BY <2>1, OnceKept DEF Once, Leased
  <1> QED BY <1>2, <1>3, <1>4, WorksOnce DEF Next

\* No saved generation of a flow is continued twice (flow_queue.go:304-312), even
\* when processes crash, a running job is claimed again or a lock is lost.
THEOREM ContinuedOnce == Spec => ExecutedOnce
  <1>1. Init => Once
    BY DEF Init, Once, Leased, Idle
  <1>2. IInv /\ Once /\ [Next]_vars => Once'
    BY OnceStep
  <1>3. Once => [\A p \in Process : turn[p].pc = "leased" /\ turn'[p].pc = "running"
                   => <<turn[p].flow, turn[p].gen>> \notin ran]_vars
    BY DEF Once, Leased
  <1> QED BY <1>1, <1>2, <1>3, Always, PTL DEF Spec, ExecutedOnce
=============================================================================
