------------------------------ MODULE FlowQueue ------------------------------
(***************************************************************************)
(* Durable continuations of one session: internal/agent/flow_queue.go, the *)
(* scheduler and continuation worker of internal/api/flow_resume.go, the   *)
(* admission of internal/api/session_admission.go and the two stop         *)
(* handlers of internal/api/handlers.go.                                   *)
(*                                                                         *)
(* Several processes (desktop server, daemon, command line) share the      *)
(* database.  In each of them at most one turn of the session is in        *)
(* flight: a human turn, or the continuation of a checkpointed flow.  One  *)
(* action is one database transaction or one step between two of them.     *)
(* Stops arrive at any time and in any process, outside the admission.     *)
(***************************************************************************)
EXTENDS Integers, FiniteSets

CONSTANTS
  Process,          \* application processes
  Scheduler,        \* those that run startFlowResumes (a CLI turn does not)
  Flow,             \* flow identifiers of the session
  NoProcess, NoFlow,
  MaxResumes,
  MaxEpoch,         \* bound of the model: stops and human turns
  MaxGeneration,    \* bound of the model: checkpoints of a flow
  MaxCrashes,       \* bound of the model: process crashes
  MaxLosses         \* bound of the model: database connections lost

ASSUME ProcessAssumption == Scheduler \subseteq Process /\ NoProcess \notin Process
ASSUME FlowAssumption == NoFlow \notin Flow
ASSUME FlowBoundAssumption == /\ MaxResumes \in Nat /\ MaxEpoch \in Nat
                              /\ MaxGeneration \in Nat
                              /\ MaxCrashes \in Nat /\ MaxLosses \in Nat

VARIABLES
  job,          \* rows of flow_resume_jobs
  saved,        \* rows of flow_states, NoState where there is none
  epoch,        \* flow_resume_owners.stop_epoch, 0 before the row exists
  head,         \* the flow whose checkpoint is the session's transcript
  sessionLock,  \* advisory lock session-runtime
  flowLock,     \* advisory locks flow-resume
  up,           \* processes that run
  latched,      \* processes whose map paused holds the session
  stopped,      \* processes whose flag stopped is set
  aborting,     \* processes with a stop call in flight
  turn,         \* the turn in flight in each process
  crashes, losses,
  ran,          \* ghost: checkpoints executed, as <<flow, generation>>
  resumed       \* ghost: automatic executions since the flow began

db     == <<job, saved, epoch, head>>
locks  == <<sessionLock, flowLock>>
memory == <<up, latched, stopped, aborting>>
bounds == <<crashes, losses>>
ghosts == <<ran, resumed>>
vars   == <<db, locks, memory, turn, bounds, ghosts>>
-----------------------------------------------------------------------------
(* Types *)

Status   == {"none", "queued", "running", "paused", "manual_review",
             "exhausted", "completed", "cancelled", "failed"}
Job      == [status : Status, gen : Nat, owner : Process \cup {NoProcess},
             due : BOOLEAN]
NoJob    == [status |-> "none", gen |-> 0, owner |-> NoProcess, due |-> FALSE]

\* FlowState, as far as admission reads it.
Saved    == [resumes : Nat, epoch : Nat]
NoState  == [missing |-> TRUE]

\* pc:    where the turn is; "begin" is just admitted
\* epoch: SessionFlowStore.epoch;  gen: FlowLease.Generation
\* mark:  ghost, a stop was committed since admission, "early" before the turn
\*        had read its epoch, "late" after
Turn == [pc : {"idle", "begin", "paused", "read", "leased", "running", "saving",
               "ended", "finishing"},
         kind : {"human", "resume"}, flow : Flow \cup {NoFlow},
         gen : Nat, epoch : Nat, resumes : Nat, want : Status,
         checkpointed : BOOLEAN, result : Status \cup {"checkpoint"},
         cancelled : BOOLEAN, mark : {"no", "early", "late"}]
Idle == [pc |-> "idle", kind |-> "human", flow |-> NoFlow, gen |-> 0, epoch |-> 0,
         resumes |-> 0, want |-> "none", checkpointed |-> FALSE, result |-> "none",
         cancelled |-> FALSE, mark |-> "no"]

TypeOK ==
  /\ job \in [Flow -> Job]
  /\ saved \in [Flow -> Saved \cup {NoState}]
  /\ epoch \in Nat
  /\ head \in Flow \cup {NoFlow}
  /\ sessionLock \in Process \cup {NoProcess}
  /\ flowLock \in [Flow -> Process \cup {NoProcess}]
  /\ up \subseteq Process /\ latched \subseteq Process
  /\ stopped \subseteq Process /\ aborting \subseteq Process
  /\ turn \in [Process -> Turn]
  /\ crashes \in Nat /\ losses \in Nat
  /\ ran \subseteq Flow \X Nat
  /\ resumed \in [Flow -> Nat]

Init ==
  /\ job = [f \in Flow |-> NoJob]
  /\ saved = [f \in Flow |-> NoState]
  /\ epoch = 0
  /\ head = NoFlow
  /\ sessionLock = NoProcess
  /\ flowLock = [f \in Flow |-> NoProcess]
  /\ up = Process
  /\ latched = {} /\ stopped = {} /\ aborting = {}
  /\ turn = [p \in Process |-> Idle]
  /\ crashes = 0 /\ losses = 0
  /\ ran = {}
  /\ resumed = [f \in Flow |-> 0]
-----------------------------------------------------------------------------
(* Admission: beginSessionOperation and its release *)

\* Held in this process, or in another one through the advisory lock.
BusyInProcess(p) == turn[p].pc # "idle"                              \* mutant
Busy(p) == turn[p].pc # "idle" \/ sessionLock # NoProcess

Admit(p, kind, f) ==
  /\ ~ Busy(p)
  /\ sessionLock' = p
  /\ turn' = [turn EXCEPT ![p] = [Idle EXCEPT !.pc = "begin", !.kind = kind,
                                              !.flow = f]]
  /\ UNCHANGED <<db, flowLock, memory, bounds, ghosts>>

\* A lock lost with its connection is not released for its next holder.
Unlocked(p) ==
  /\ sessionLock' = IF sessionLock = p THEN NoProcess ELSE sessionLock
  /\ flowLock' = [f \in Flow |-> IF flowLock[f] = p THEN NoProcess ELSE flowLock[f]]

Leave(p) == Unlocked(p) /\ turn' = [turn EXCEPT ![p] = Idle]

Goto(p, pc) == turn' = [turn EXCEPT ![p].pc = pc]
-----------------------------------------------------------------------------
(* Human turns: BeginHumanTurn, then the agent loop *)

\* What PauseSession does to every job of the session.
Stopped(j) == IF j.status \in {"queued", "running"}
              THEN [j EXCEPT !.status = "paused", !.gen = @ + 1, !.owner = NoProcess]
              ELSE j
PauseSession ==
  /\ epoch < MaxEpoch
  /\ epoch' = epoch + 1
  /\ job' = [f \in Flow |-> Stopped(job[f])]
  /\ UNCHANGED <<saved, head>>

HumanTurn(p) == p \in up /\ Admit(p, "human", NoFlow)

HumanPauses(p) ==
  /\ turn[p].pc = "begin" /\ turn[p].kind = "human" /\ ~ turn[p].cancelled
  /\ PauseSession
  /\ latched' = latched \cup {p}
  /\ Goto(p, "paused")
  /\ UNCHANGED <<locks, up, stopped, aborting, bounds, ghosts>>

\* BeginTurn reads the epoch in a statement of its own.
HumanReads(p) ==
  /\ turn[p].pc = "paused" /\ ~ turn[p].cancelled
  /\ turn' = [turn EXCEPT ![p].pc = "read", ![p].epoch = epoch]
  /\ UNCHANGED <<db, locks, memory, bounds, ghosts>>

HumanUnlatches(p) ==
  /\ turn[p].pc = "read"
  /\ latched' = latched \ {p}
  /\ Goto(p, "running")
  /\ UNCHANGED <<db, locks, up, stopped, aborting, bounds, ghosts>>

\* The turn was cancelled or the database failed; the latch may be set.
HumanFails(p) ==
  /\ turn[p].kind = "human" /\ turn[p].pc \in {"begin", "paused"}
  /\ latched' = latched \cup {p}
  /\ Leave(p)
  /\ UNCHANGED <<db, up, stopped, aborting, bounds, ghosts>>
-----------------------------------------------------------------------------
(* The scheduler and Claim *)

Listed(f) == \/ job[f].status = "queued" /\ job[f].due
             \/ job[f].status = "running"
Schedules(p, f) == p \in up \cap Scheduler /\ p \notin stopped /\ Listed(f)

Resume(p, f) == Schedules(p, f) /\ Admit(p, "resume", f)

DeferBusy(p, f) ==
  /\ Schedules(p, f) /\ Busy(p)
  /\ job[f].status = "queued"
  /\ job' = [job EXCEPT ![f].due = FALSE]
  /\ UNCHANGED <<saved, epoch, head, locks, memory, turn, bounds, ghosts>>

\* What Claim's transaction decides about the job.  (A queued job has a readable
\* checkpoint: the code's verdict on a missing or corrupt one is manual_review.)
VerdictRetry(f) ==                                                  \* mutant
  IF job[f].status = "running" THEN "running"
  ELSE IF ~ (job[f].status = "queued" /\ job[f].due) THEN "none"
  ELSE IF saved[f].resumes >= MaxResumes THEN "exhausted" ELSE "running"
VerdictIgnore(f) ==                                                 \* mutant
  IF ~ (job[f].status = "queued" /\ job[f].due) THEN "none"
  ELSE IF saved[f].resumes >= MaxResumes THEN "exhausted" ELSE "running"
Verdict(f) ==
  IF job[f].status = "running" THEN "manual_review"
  ELSE IF ~ (job[f].status = "queued" /\ job[f].due) THEN "none"
  ELSE IF saved[f].resumes >= MaxResumes THEN "exhausted"
  ELSE "running"

\* Stopped or latched here, cancelled, the flow's lock taken, or nothing due.
ClaimRefused(p) ==
  /\ \/ p \in stopped \cup latched \/ turn[p].cancelled
     \/ flowLock[turn[p].flow] # NoProcess
     \/ Verdict(turn[p].flow) = "none"
  /\ UNCHANGED db /\ Leave(p)
  /\ UNCHANGED <<memory, bounds, ghosts>>

ClaimEnds(p) ==
  LET f == turn[p].flow IN
  /\ p \notin stopped \cup latched /\ flowLock[f] = NoProcess
  /\ Verdict(f) \in {"manual_review", "exhausted"}
  /\ job' = [job EXCEPT ![f].status = Verdict(f),
                        ![f].owner = IF Verdict(f) = "exhausted" THEN @ ELSE NoProcess]
  /\ Leave(p)
  /\ UNCHANGED <<saved, epoch, head, memory, bounds, ghosts>>

ClaimRuns(p) ==
  LET f == turn[p].flow IN
  /\ p \notin stopped \cup latched /\ flowLock[f] = NoProcess /\ ~ turn[p].cancelled
  /\ Verdict(f) = "running"
  /\ flowLock' = [flowLock EXCEPT ![f] = p]
  /\ saved' = [saved EXCEPT ![f].resumes = @ + 1]
  /\ job' = [job EXCEPT ![f].status = "running", ![f].owner = p]
  /\ turn' = [turn EXCEPT ![p].pc = "leased", ![p].gen = job[f].gen,
                          ![p].epoch = saved[f].epoch]
  /\ resumed' = [resumed EXCEPT ![f] = @ + 1]
  /\ UNCHANGED <<epoch, head, sessionLock, memory, bounds, ran>>

Claim(p) == /\ turn[p].pc = "begin" /\ turn[p].kind = "resume"
            /\ ClaimRefused(p) \/ ClaimEnds(p) \/ ClaimRuns(p)

\* The checkpoint must still be the session's transcript; the session, its
\* workspace, model and runtime must still be there.
Continue(p) ==
  /\ turn[p].pc = "leased" /\ head = turn[p].flow
  /\ Goto(p, "running")
  /\ ran' = ran \cup {<<turn[p].flow, turn[p].gen>>}
  /\ UNCHANGED <<db, locks, memory, bounds, resumed>>

ContinueRefused(p) ==
  /\ turn[p].pc = "leased"
  /\ \E why \in {"cancelled", "failed", "manual_review"} :
       /\ head # turn[p].flow => why = "cancelled"
       /\ turn' = [turn EXCEPT ![p].pc = "finishing", ![p].result = why]
  /\ UNCHANGED <<db, locks, memory, bounds, ghosts>>
-----------------------------------------------------------------------------
(* Checkpoints: CheckpointFlow and SessionFlowStore.Save *)

\* CheckpointFlow carries the resume count of the prior checkpoint.
NoCarry(f) == 0                                                     \* mutant
Carried(f) == IF saved[f] = NoState THEN 0 ELSE saved[f].resumes

\* Save's status: budget is a step limit or a deadline, good a history without
\* unresolved tool calls, answered one that ends in a final answer.
SaveStatus(p, f, budget, good, answered) ==
  IF ~ good THEN "manual_review"
  ELSE IF ~ budget \/ p \in stopped \cup latched THEN "paused"
  ELSE IF answered THEN "manual_review"
  ELSE IF Carried(f) >= MaxResumes THEN "exhausted" ELSE "queued"

\* A human turn checkpoints the flow of its input, a continuation its own.
Checkpoint(p) ==
  /\ turn[p].pc = "running"
  /\ \E f \in (IF turn[p].kind = "human" THEN Flow ELSE {turn[p].flow}),
        budget, good, answered \in BOOLEAN :
       turn' = [turn EXCEPT ![p].pc = "saving", ![p].flow = f,
                  ![p].resumes = Carried(f),
                  ![p].want = SaveStatus(p, f, budget, good, answered),
                  ![p].result = IF budget THEN "checkpoint" ELSE "manual_review"]
  /\ UNCHANGED <<db, locks, memory, bounds, ghosts>>

\* The epoch the turn began with is still the session's.
Unfenced(p) == TRUE                                                 \* mutant
Current(p) == turn[p].epoch = epoch

SaveCommits(p) ==
  LET f == turn[p].flow IN
  /\ turn[p].pc = "saving" /\ Current(p)
  /\ job[f].gen < MaxGeneration
  /\ saved' = [saved EXCEPT ![f] = [resumes |-> turn[p].resumes,
                                    epoch |-> turn[p].epoch]]
  /\ job' = [job EXCEPT ![f] = [status |-> turn[p].want, gen |-> @.gen + 1,
                                owner |-> NoProcess, due |-> FALSE]]
  /\ head' = f
  /\ turn' = [turn EXCEPT ![p].pc = "ended", ![p].checkpointed = TRUE]
  /\ UNCHANGED <<epoch, locks, memory, bounds, ghosts>>

SaveFails(p) ==
  /\ turn[p].pc = "saving"
  /\ turn' = [turn EXCEPT ![p].pc = "ended", ![p].result = "manual_review"]
  /\ UNCHANGED <<db, locks, memory, bounds, ghosts>>

\* The turn ends without a checkpoint: done, or blocked or failed.
Ends(p) ==
  /\ turn[p].pc = "running"
  /\ \E result \in {"completed", "manual_review"} :
       turn' = [turn EXCEPT ![p].pc = "ended", ![p].result = result]
  /\ UNCHANGED <<db, locks, memory, bounds, ghosts>>

\* saveSessionState; a continuation whose checkpoint owns the retry is done.
Persists(p) ==
  /\ turn[p].pc = "ended"
  /\ head' = IF turn[p].checkpointed THEN turn[p].flow ELSE NoFlow
  /\ IF turn[p].kind = "human" \/ turn[p].result = "checkpoint"
     THEN Leave(p) ELSE Goto(p, "finishing") /\ UNCHANGED locks
  /\ UNCHANGED <<job, saved, epoch, memory, bounds, ghosts>>

PersistFails(p) ==
  /\ turn[p].pc = "ended"
  /\ IF turn[p].kind = "human" THEN Leave(p)
     ELSE /\ turn' = [turn EXCEPT ![p].pc = "finishing", ![p].result = "manual_review"]
          /\ UNCHANGED locks
  /\ UNCHANGED <<db, memory, bounds, ghosts>>
-----------------------------------------------------------------------------
(* Finish *)

\* The lease still owns the running generation.
Owns(p) == LET j == job[turn[p].flow]
           IN j.status = "running" /\ j.gen = turn[p].gen /\ j.owner = p

\* A completed flow is deleted together with the end of its own job.
DeletesAny(p) == turn[p].result = "completed"                       \* mutant
Deletes(p) == Owns(p) /\ turn[p].result = "completed"

FinishCommits(p) ==
  LET f == turn[p].flow IN
  /\ turn[p].pc = "finishing" /\ flowLock[f] = p
  /\ saved[f] # NoState
  /\ job' = IF Owns(p)
            THEN [job EXCEPT ![f].status = turn[p].result, ![f].owner = NoProcess]
            ELSE job
  /\ saved' = IF Deletes(p) THEN [saved EXCEPT ![f] = NoState] ELSE saved
  /\ resumed' = IF Deletes(p) THEN [resumed EXCEPT ![f] = 0] ELSE resumed
  /\ Leave(p)
  /\ UNCHANGED <<epoch, head, memory, bounds, ran>>

\* The checkpoint is gone, or the final state could not be committed.
FinishFails(p) ==
  /\ turn[p].pc = "finishing"
  /\ Leave(p)
  /\ UNCHANGED <<db, memory, bounds, ghosts>>
-----------------------------------------------------------------------------
(* Stops: handleAgentAbort cancels the turn of its own process and pauses   *)
(* the session; handleEStop also latches every session of the process.      *)

Cancelled(t, c) == IF t.pc = "idle" THEN t ELSE [t EXCEPT !.cancelled = @ \/ c]

Abort(p) ==
  /\ p \in up \ aborting /\ epoch < MaxEpoch
  /\ aborting' = aborting \cup {p}
  /\ latched' = latched \cup {p}
  /\ \/ /\ stopped' = stopped
        /\ turn' = [turn EXCEPT ![p] = Cancelled(@, TRUE)]
     \/ /\ stopped' = stopped \cup {p}
        /\ \E c \in BOOLEAN : turn' = [turn EXCEPT ![p] = Cancelled(@, c)]
  /\ UNCHANGED <<db, locks, up, bounds, ghosts>>

Overtaken(t) == IF t.pc = "idle" THEN t
                ELSE IF t.pc \in {"begin", "paused"} THEN [t EXCEPT !.mark = "early"]
                ELSE [t EXCEPT !.mark = "late"]
AbortCommits(p) ==
  /\ p \in aborting
  /\ PauseSession
  /\ aborting' = aborting \ {p}
  /\ turn' = [q \in Process |-> Overtaken(turn[q])]
  /\ UNCHANGED <<locks, up, latched, stopped, bounds, ghosts>>

\* The database failed, or PauseAll found nothing of the session to stop.
AbortFails(p) ==
  /\ p \in aborting
  /\ aborting' = aborting \ {p}
  /\ UNCHANGED <<db, locks, up, latched, stopped, turn, bounds, ghosts>>
-----------------------------------------------------------------------------
(* Time, crashes and connections *)

\* due_at passes, or Wake moves it to now.
Due(f) ==
  /\ job[f].status = "queued" /\ ~ job[f].due
  /\ job' = [job EXCEPT ![f].due = TRUE]
  /\ UNCHANGED <<saved, epoch, head, locks, memory, turn, bounds, ghosts>>

Crash(p) ==
  /\ p \in up /\ crashes < MaxCrashes
  /\ crashes' = crashes + 1
  /\ up' = up \ {p}
  /\ latched' = latched \ {p} /\ stopped' = stopped \ {p}
  /\ aborting' = aborting \ {p}
  /\ Leave(p)
  /\ UNCHANGED <<db, losses, ghosts>>

Restart(p) ==
  /\ p \in Process \ up
  /\ up' = up \cup {p}
  /\ UNCHANGED <<db, locks, latched, stopped, aborting, turn, bounds, ghosts>>

\* The connection that holds an advisory lock drops; the turn does not notice.
LosesConnection(p) ==
  /\ losses < MaxLosses
  /\ losses' = losses + 1
  /\ \/ /\ sessionLock = p
        /\ sessionLock' = NoProcess /\ UNCHANGED flowLock
     \/ \E f \in Flow : /\ flowLock[f] = p
                        /\ flowLock' = [flowLock EXCEPT ![f] = NoProcess]
                        /\ UNCHANGED sessionLock
  /\ UNCHANGED <<db, memory, turn, crashes, ghosts>>

\* The steps of a turn that has been admitted.
Works(p) ==
  \/ HumanPauses(p) \/ HumanReads(p) \/ HumanUnlatches(p) \/ HumanFails(p)
  \/ Claim(p) \/ Continue(p) \/ ContinueRefused(p)
  \/ Checkpoint(p) \/ SaveCommits(p) \/ SaveFails(p) \/ Ends(p)
  \/ Persists(p) \/ PersistFails(p) \/ FinishCommits(p) \/ FinishFails(p)

Stops(p) == Abort(p) \/ AbortCommits(p) \/ AbortFails(p)

Next ==
  \/ \E p \in Process : \/ HumanTurn(p) \/ Works(p) \/ Stops(p)
                        \/ Crash(p) \/ Restart(p) \/ LosesConnection(p)
                        \/ \E f \in Flow : Resume(p, f) \/ DeferBusy(p, f)
  \/ \E f \in Flow : Due(f)

Spec == Init /\ [][Next]_vars

\* Turns end (an execution is cut off after five minutes), the scheduler ticks
\* every second and time passes.  Attempts of several schedulers last only
\* milliseconds of their ticks and DeferBusy waits a whole tick, so they do not
\* collide for ever: an attempt that is possible again and again is admitted
\* and finds the job due.  Nothing makes a user act, a process crash or a
\* crashed process come back.
Decides(p) == Claim(p) /\ Verdict(turn[p].flow) # "none"
Fairness ==
  /\ \A p \in Process : WF_vars(Works(p)) /\ SF_vars(Decides(p))
  /\ \A p \in Process, f \in Flow : SF_vars(Resume(p, f))
  /\ \A f \in Flow : WF_vars(Due(f))
FairSpec == Spec /\ Fairness
-----------------------------------------------------------------------------
(* Properties *)

\* A continuation waits or runs only in the stop epoch it was saved in: every
\* stop and every human turn supersedes all earlier checkpoints, in whatever
\* process, while saves, claims and stops interleave.
PendingIsCurrent ==
  \A f \in Flow : job[f].status \in {"queued", "running"} =>
    saved[f] # NoState /\ saved[f].epoch = epoch

\* A checkpoint that is still to be continued or reviewed is never deleted by
\* the late end of an execution it has superseded.
CheckpointKept ==
  \A f \in Flow :
    job[f].status \in {"queued", "running", "paused", "manual_review", "exhausted"}
      => saved[f] # NoState

\* The session never executes two turns at once, in one process or in two, until
\* a connection that holds its lock is lost: admission spans execution,
\* persistence and the final state of the job.
Executing(p) == turn[p].pc \notin {"idle", "begin"}
OneTurn ==
  losses = 0 => \A p, q \in Process : Executing(p) /\ Executing(q) => p = q

\* The tool effects of a checkpoint are never replayed automatically: each
\* saved generation is continued at most once, whatever crashes or is lost.
ExecutedOnce ==
  [][\A p \in Process : turn[p].pc = "leased" /\ turn'[p].pc = "running"
       => <<turn[p].flow, turn[p].gen>> \notin ran]_vars

\* A flow is continued automatically at most MaxResumes times before a human
\* sees it complete, however often it is checkpointed, stopped and rerun (as
\* long as no second turn can overwrite the count).
ResumesBounded == losses = 0 => \A f \in Flow : resumed[f] <= MaxResumes

\* Once a stop has been committed, no turn that had its epoch can queue work.
Queues(p) == /\ turn[p].pc = "saving" /\ turn'[p].pc = "ended"
             /\ \E f \in Flow : job'[f].status = "queued" /\ job'[f] # job[f]
StopFencesTurns == [][\A p \in Process : turn[p].mark = "late" => ~ Queues(p)]_vars

\* flow_queue.go says of PauseSession: "Even a late checkpoint from an older
\* in-flight operation cannot queue work after the user explicitly stopped it."
StopIsFinal == [][\A p \in Process : turn[p].mark # "no" => ~ Queues(p)]_vars

\* Once people leave the session alone, every pending job is continued until it
\* ends or handed to a human, if a scheduler stays up that no stop has latched.
LeftAlone     == /\ aborting = {}
                 /\ \A p \in Process : turn[p].kind = "human" => turn[p].pc = "idle"
Latched(p)    == p \in stopped \cup latched
Settled(f)    == job[f].status \notin {"queued", "running"}
PendingSettles ==
  /\ <>[]LeftAlone
  /\ \E p \in Scheduler : <>[](p \in up /\ ~ Latched(p))
  => \A f \in Flow : []<>Settled(f)
=============================================================================
