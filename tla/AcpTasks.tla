------------------------------ MODULE AcpTasks ------------------------------
(***************************************************************************)
(* Durable tasks of external callers: internal/acp/task_store.go and the   *)
(* workers of task_server.go, with the direct messages of server.go that   *)
(* share their session locks.                                              *)
(*                                                                         *)
(* Several servers use one database.  A worker holds three kinds of        *)
(* advisory locks on one dedicated connection: a slot, the task and the    *)
(* session.  They last until they are released or the connection is lost;  *)
(* then they are free at once, while the worker only finds out later.      *)
(* One action is one statement, or several that no other actor can tell    *)
(* from one because of the locks held.                                     *)
(*                                                                         *)
(* A task is named by its idempotency key: to submit it again returns its  *)
(* receipt, or a conflict, and changes nothing.                            *)
(***************************************************************************)
EXTENDS Integers, FiniteSets

CONSTANTS
  Server, Worker,      \* processes and their task workers
  ServerOf,            \* the server of each worker
  Key, Session,
  SessionOf,           \* the session each task is submitted to
  NoHolder, NoKey,
  TaskMaxActive, TaskConcurrency,
  MaxFaults            \* bound of the model: servers stopped or crashed, lost
                       \* connections and answers, and deleted sessions

ASSUME TaskAssumption ==
  /\ ServerOf \in [Worker -> Server] /\ SessionOf \in [Key -> Session]
  /\ Worker \cap Server = {} /\ NoHolder \notin Worker \cup Server
  /\ NoKey \notin Key
ASSUME TaskBoundAssumption ==
  /\ TaskMaxActive \in Nat /\ TaskConcurrency \in Nat \ {0}
  /\ MaxFaults \in Nat

VARIABLES
  status,       \* acp_tasks.status, "none" before the task is submitted
  bound,        \* tasks whose session_ref is not NULL
  sessions,     \* rows of the sessions table
  slotLock, taskLock, sessionLock,   \* advisory locks
  server,       \* life cycle of each server
  worker,       \* what each worker does
  direct,       \* running /v1/messages executions, <<server, session>>
  faults,
  starts        \* ghost: how often the agent was started for a task

rows   == <<status, bound, sessions>>
locks  == <<slotLock, taskLock, sessionLock>>
vars   == <<rows, locks, server, worker, direct, faults, starts>>
-----------------------------------------------------------------------------
(* Types *)

Slot     == 1..TaskConcurrency
Outcomes == {"completed", "failed", "cancelled", "interrupted"}
Active   == {"queued", "running"}
Status   == {"none"} \cup Active \cup Outcomes

\* pc:     "scan" goes through the candidates, "owned" has the task's lock and
\*         has read its row, "locked" has its session's lock too, "ended" has
\*         run the agent, "repair" could not record the outcome
\* broken: the connection is gone;  told: the run's context is cancelled
WorkerState == [pc : {"idle", "scan", "owned", "locked", "running", "ended", "repair"},
                key : Key \cup {NoKey}, todo : SUBSET Key, saw : Status \cup {"orphan"},
                broken : BOOLEAN, told : BOOLEAN, result : Status]
Idle == [pc |-> "idle", key |-> NoKey, todo |-> {}, saw |-> "none",
         broken |-> FALSE, told |-> FALSE, result |-> "none"]

TypeOK ==
  /\ status \in [Key -> Status] /\ bound \subseteq Key
  /\ sessions \subseteq Session
  /\ slotLock \in [Slot -> Worker \cup {NoHolder}]
  /\ taskLock \in [Key -> Worker \cup {NoHolder}]
  /\ sessionLock \in [Session -> Worker \cup Server \cup {NoHolder}]
  /\ server \in [Server -> {"up", "stopping", "down"}]
  /\ worker \in [Worker -> WorkerState]
  /\ direct \subseteq Server \X Session
  /\ faults \in Nat
  /\ starts \in [Key -> Nat]

Init ==
  /\ status = [k \in Key |-> "none"] /\ bound = {}
  /\ sessions = Session
  /\ slotLock = [n \in Slot |-> NoHolder]
  /\ taskLock = [k \in Key |-> NoHolder]
  /\ sessionLock = [s \in Session |-> NoHolder]
  /\ server = [v \in Server |-> "up"]
  /\ worker = [w \in Worker |-> Idle]
  /\ direct = {}
  /\ faults = 0
  /\ starts = [k \in Key |-> 0]
-----------------------------------------------------------------------------
(* Callers *)

Fault == faults < MaxFaults /\ faults' = faults + 1

ActiveTasks == {k \in Key : status[k] \in Active}
HasCapacity == Cardinality(ActiveTasks) < TaskMaxActive

Submit(k) ==
  /\ \E v \in Server : server[v] = "up"
  /\ status[k] = "none" /\ SessionOf[k] \in sessions
  /\ HasCapacity
  /\ status' = [status EXCEPT ![k] = "queued"]
  /\ bound' = bound \cup {k}
  /\ UNCHANGED <<sessions, locks, server, worker, direct, faults, starts>>

Cancel(k) ==
  /\ status[k] \in Active
  /\ status' = [status EXCEPT ![k] = "cancelled"]
  /\ UNCHANGED <<bound, sessions, locks, server, worker, direct, faults,
                 starts>>

\* ON DELETE SET NULL; a session created again is not the one deleted.
DeleteSession(s) ==
  /\ s \in sessions /\ Fault
  /\ sessions' = sessions \ {s}
  /\ bound' = {k \in bound : SessionOf[k] # s}
  /\ UNCHANGED <<status, locks, server, worker, direct, starts>>

CreateSession(s) ==
  /\ s \notin sessions /\ sessions' = sessions \cup {s}
  /\ UNCHANGED <<status, bound, locks, server, worker, direct, faults,
                 starts>>
-----------------------------------------------------------------------------
(* taskSweep: look for work *)

Stopping(w) == server[ServerOf[w]] = "stopping"

\* The locks that are left when h's connection closes.
Without(lock, h) == [x \in DOMAIN lock |-> IF lock[x] = h THEN NoHolder ELSE lock[x]]
Leave(w) ==
  /\ slotLock' = Without(slotLock, w)
  /\ taskLock' = Without(taskLock, w)
  /\ sessionLock' = Without(sessionLock, w)
  /\ worker' = [worker EXCEPT ![w] = Idle]

\* taskUnlock, then the next candidate.
NextTask(w) ==
  /\ taskLock' = Without(taskLock, w) /\ sessionLock' = Without(sessionLock, w)
  /\ worker' = [worker EXCEPT ![w].pc = "scan", ![w].key = NoKey, ![w].saw = "none"]
  /\ UNCHANGED slotLock

Goto(w, pc) == worker' = [worker EXCEPT ![w].pc = pc]
At(w, pc) == worker[w].pc = pc
KeyOf(w)  == worker[w].key

\* The candidates are read without a lock and tried one after the other; they
\* are ordered by state and age, which no property relies on: any order is tried.
Candidates == ActiveTasks

Sweep(w) ==
  /\ worker[w].pc = "idle" /\ server[ServerOf[w]] = "up"
  /\ Candidates # {}
  /\ \E n \in Slot : /\ slotLock[n] = NoHolder
                     /\ slotLock' = [slotLock EXCEPT ![n] = w]
  /\ worker' = [worker EXCEPT ![w].pc = "scan", ![w].todo = Candidates]
  /\ UNCHANGED <<rows, taskLock, sessionLock, server, direct, faults, starts>>

\* A task that is locked, or no longer active, is left alone.  The others are
\* locked and their row read (processTask); the updates repeat its conditions.
Seen(k) == IF status[k] = "queued" /\ k \notin bound THEN "orphan" ELSE status[k]
TaskUnlocked(k) == TRUE                                              \* mutant
TaskFree(k)     == taskLock[k] = NoHolder
TryTask(w) ==
  /\ At(w, "scan")
  /\ \E k \in worker[w].todo :
       IF TaskFree(k) /\ status[k] \in Active
       THEN /\ taskLock' = [taskLock EXCEPT ![k] = w]
            /\ worker' = [worker EXCEPT ![w].pc = "owned", ![w].key = k,
                                        ![w].todo = @ \ {k}, ![w].saw = Seen(k)]
       ELSE /\ worker' = [worker EXCEPT ![w].todo = @ \ {k}]
            /\ UNCHANGED taskLock
  /\ UNCHANGED <<rows, slotLock, sessionLock, server, direct, faults, starts>>

\* Nothing is left, or the server stops.
SweepEnds(w) ==
  /\ worker[w].pc \in {"scan", "owned", "locked"}
  /\ \/ worker[w].pc = "scan" /\ worker[w].todo = {}
     \/ Stopping(w)
  /\ Leave(w)
  /\ UNCHANGED <<rows, server, direct, faults, starts>>
-----------------------------------------------------------------------------
(* processTask *)

Settle(k, from, to) == status' = [status EXCEPT ![k] = IF @ = from THEN to ELSE @]

\* A running task whose lock was free has lost its execution: it is not rerun.
RecoveredForRetry == "queued"                                        \* mutant
RecoveredNever == "running"                                          \* mutant
Recovered == "interrupted"
Recover(w) ==
  /\ At(w, "owned") /\ worker[w].saw = "running"
  /\ Settle(KeyOf(w), "running", Recovered)
  /\ Leave(w)
  /\ UNCHANGED <<bound, sessions, server, direct, faults, starts>>

FailOrphan(w) ==
  /\ At(w, "owned") /\ worker[w].saw = "orphan"
  /\ Settle(KeyOf(w), "queued", "failed")
  /\ Leave(w)
  /\ UNCHANGED <<bound, sessions, server, direct, faults, starts>>

LockSession(w) ==
  LET s == SessionOf[KeyOf(w)] IN
  /\ At(w, "owned") /\ worker[w].saw = "queued"
  /\ IF sessionLock[s] = NoHolder
     THEN /\ sessionLock' = [sessionLock EXCEPT ![s] = w]
          /\ Goto(w, "locked") /\ UNCHANGED <<slotLock, taskLock>>
     ELSE NextTask(w)
  /\ UNCHANGED <<rows, server, direct, faults, starts>>

\* UPDATE ... WHERE status='queued' AND session_ref IS NOT NULL
Startable(k)     == status[k] = "queued" /\ k \in bound
Begin(k) == /\ status' = [status EXCEPT ![k] = "running"]
            /\ UNCHANGED <<bound, sessions>>

StartTask(w) ==
  /\ At(w, "locked") /\ Startable(KeyOf(w))
  /\ Begin(KeyOf(w))
  /\ starts' = [starts EXCEPT ![KeyOf(w)] = @ + 1]
  /\ worker' = [worker EXCEPT ![w] = [Idle EXCEPT !.pc = "running", !.key = KeyOf(w)]]
  /\ UNCHANGED <<locks, server, direct, faults>>

StartRefused(w) ==
  /\ At(w, "locked") /\ ~ Startable(KeyOf(w))
  /\ NextTask(w)
  /\ UNCHANGED <<rows, server, direct, faults, starts>>
-----------------------------------------------------------------------------
(* Execution and finalization *)

\* The heartbeat cancels the run when its connection is gone, its task is no
\* longer running, or its session was deleted.
Heartbeat(w) ==
  /\ worker[w].pc = "running" /\ ~ worker[w].told
  /\ \/ worker[w].broken \/ status[KeyOf(w)] # "running" \/ KeyOf(w) \notin bound
  /\ worker' = [worker EXCEPT ![w].told = TRUE]
  /\ UNCHANGED <<rows, locks, server, direct, faults, starts>>

\* An agent that finishes after its run was cancelled does not complete it; a
\* deadline or an error of the agent or of a checkpoint fails the task.  On a
\* connection that is gone the outcome cannot be recorded.
Results(w) == IF worker[w].told \/ Stopping(w)
              THEN {"interrupted", "failed"} ELSE {"completed", "failed"}
EndRun(w) ==
  /\ worker[w].pc = "running"
  /\ \E r \in Results(w) :
       worker' = [worker EXCEPT ![w] =
         IF @.broken THEN [Idle EXCEPT !.pc = "repair", !.key = KeyOf(w)]
         ELSE [Idle EXCEPT !.pc = "ended", !.key = KeyOf(w), !.result = r]]
  /\ UNCHANGED <<rows, locks, server, direct, faults, starts>>

\* UPDATE ... WHERE status='running'
FinalizedAny(w) == status' = [status EXCEPT ![KeyOf(w)] = worker[w].result] \* mutant
Finalized(w)    == Settle(KeyOf(w), "running", worker[w].result)

FinalizeTask(w) ==
  /\ At(w, "ended")
  /\ Finalized(w)
  /\ Leave(w)
  /\ UNCHANGED <<bound, sessions, server, direct, faults, starts>>

\* interruptUnownedTask, on a new connection: the task's own lock decides.
MayRepair(w)         == taskLock[KeyOf(w)] = NoHolder
Repair(w) ==
  /\ worker[w].pc = "repair"
  /\ IF MayRepair(w) THEN Settle(KeyOf(w), "running", "interrupted")
                     ELSE UNCHANGED status
  /\ worker' = [worker EXCEPT ![w] = Idle]
  /\ UNCHANGED <<bound, sessions, locks, server, direct, faults, starts>>
-----------------------------------------------------------------------------
(* Direct messages: handleMessages under the same session locks *)

SessionFreeOfDirect(s) == \A v \in Server : <<v, s>> \notin direct    \* mutant
SessionFree(s)         == sessionLock[s] = NoHolder
DirectStart(v, s) ==
  /\ server[v] = "up" /\ <<v, s>> \notin direct
  /\ SessionFree(s)
  /\ sessionLock' = [sessionLock EXCEPT ![s] = v]
  /\ direct' = direct \cup {<<v, s>>}
  /\ UNCHANGED <<rows, slotLock, taskLock, server, worker, faults, starts>>

\* It finishes, times out, or is cancelled by its heartbeat or the server.
DirectEnds(v, s) ==
  /\ <<v, s>> \in direct
  /\ direct' = direct \ {<<v, s>>}
  /\ sessionLock' = IF sessionLock[s] = v
                    THEN [sessionLock EXCEPT ![s] = NoHolder] ELSE sessionLock
  /\ UNCHANGED <<rows, slotLock, taskLock, server, worker, faults, starts>>
-----------------------------------------------------------------------------
(* Servers and faults *)

Shutdown(v) ==
  /\ server[v] = "up" /\ Fault
  /\ server' = [server EXCEPT ![v] = "stopping"]
  /\ UNCHANGED <<rows, locks, worker, direct, starts>>

Idles(v) == /\ \A w \in Worker : ServerOf[w] = v => worker[w].pc = "idle"
            /\ \A s \in Session : <<v, s>> \notin direct
Exit(v) ==
  /\ server[v] = "stopping" /\ Idles(v)
  /\ server' = [server EXCEPT ![v] = "down"]
  /\ UNCHANGED <<rows, locks, worker, direct, faults, starts>>

Crash(v) ==
  LET Kept(lock) == [x \in DOMAIN lock |->
        IF lock[x] \in {v} \cup {w \in Worker : ServerOf[w] = v}
        THEN NoHolder ELSE lock[x]]
  IN
  /\ server[v] # "down" /\ Fault
  /\ server' = [server EXCEPT ![v] = "down"]
  /\ worker' = [w \in Worker |-> IF ServerOf[w] = v THEN Idle ELSE worker[w]]
  /\ direct' = {d \in direct : d[1] # v}
  /\ slotLock' = Kept(slotLock) /\ taskLock' = Kept(taskLock)
  /\ sessionLock' = Kept(sessionLock)
  /\ UNCHANGED <<rows, starts>>

Restart(v) ==
  /\ server[v] = "down"
  /\ server' = [server EXCEPT ![v] = "up"]
  /\ UNCHANGED <<rows, locks, worker, direct, faults, starts>>

\* The connection and its locks are lost.  A sweep fails with its next
\* statement, a run goes on until its heartbeat finds out.
LoseConnection(w) ==
  /\ Fault
  /\ slotLock' = Without(slotLock, w) /\ taskLock' = Without(taskLock, w)
  /\ sessionLock' = Without(sessionLock, w)
  /\ worker' = [worker EXCEPT ![w] =
       CASE @.pc = "running" -> [@ EXCEPT !.broken = TRUE]
         [] @.pc = "ended"   -> [Idle EXCEPT !.pc = "repair", !.key = KeyOf(w)]
         [] OTHER            -> Idle]
  /\ UNCHANGED <<bound, sessions, server, direct, starts>>

Disconnect(w) ==
  /\ worker[w].pc \notin {"idle", "repair"} /\ ~ worker[w].broken
  /\ LoseConnection(w) /\ UNCHANGED status

\* The answer to a committed start or outcome is lost with the connection.
AnswerLost(w) ==
  /\ \/ /\ At(w, "locked") /\ Startable(KeyOf(w))
        /\ status' = [status EXCEPT ![KeyOf(w)] = "running"]
     \/ /\ At(w, "ended") /\ Finalized(w)
  /\ LoseConnection(w)

DirectDisconnect(v, s) ==
  /\ <<v, s>> \in direct /\ sessionLock[s] = v /\ Fault
  /\ sessionLock' = [sessionLock EXCEPT ![s] = NoHolder]
  /\ UNCHANGED <<rows, slotLock, taskLock, server, worker, direct, starts>>
-----------------------------------------------------------------------------
Works(w) == \/ Sweep(w) \/ TryTask(w) \/ SweepEnds(w)
            \/ Recover(w) \/ FailOrphan(w) \/ LockSession(w)
            \/ StartTask(w) \/ StartRefused(w)
            \/ Heartbeat(w) \/ EndRun(w)
            \/ FinalizeTask(w) \/ Repair(w)

Next ==
  \/ \E k \in Key : Submit(k) \/ Cancel(k)
  \/ \E s \in Session : DeleteSession(s) \/ CreateSession(s)
  \/ \E w \in Worker : Works(w) \/ Disconnect(w) \/ AnswerLost(w)
  \/ \E v \in Server : \/ Shutdown(v) \/ Exit(v) \/ Crash(v) \/ Restart(v)
                       \/ \E s \in Session : \/ DirectStart(v, s) \/ DirectEnds(v, s)
                                             \/ DirectDisconnect(v, s)

Spec == Init /\ [][Next]_vars

\* Workers poll every 150 ms, the heartbeat every 200 ms and a run lasts at
\* most fifteen minutes.  Nobody need submit, cancel, restart or stop.
Fairness == /\ \A w \in Worker : WF_vars(Works(w))
            /\ \A v \in Server, s \in Session : WF_vars(DirectEnds(v, s))
FairSpec == Spec /\ Fairness
-----------------------------------------------------------------------------
(* Properties *)

Executes(w, k) == worker[w].pc = "running" /\ worker[w].key = k

\* docs/acp-durable-tasks.md: "Interrupted work is never automatically
\* reexecuted."  Whatever crashes, lost connections, lost answers and restarts
\* happen, the agent of a task is started at most once.
RunsOnce == \A k \in Key : starts[k] <= 1

\* Durable tasks and direct messages of all servers share a session's lock: of
\* the executions of one session at most one still has its connection; the
\* others have lost theirs and are about to be cancelled.
Live(s) == {w \in Worker : /\ worker[w].pc = "running" /\ ~ worker[w].broken
                           /\ SessionOf[worker[w].key] = s}
           \cup {v \in Server : <<v, s>> \in direct /\ sessionLock[s] = v}
SessionExclusive == \A s \in Session : Cardinality(Live(s)) <= 1

\* "A live second server's work is not stolen": while a worker executes a task
\* on an intact connection, nobody but its caller's cancellation ends the task.
LiveOwnerKept ==
  [][\A w \in Worker, k \in Key :
       Executes(w, k) /\ ~ worker[w].broken /\ status[k] = "running"
         => status'[k] \in {"running", "cancelled"}]_vars

\* The sender sees the receipts that TaskReceipts promises: forward only, final,
\* completed only by an agent that ran, and within the capacity.
Receipts == INSTANCE TaskReceipts WITH
              Capacity <- TaskMaxActive, receipt <- status,
              started  <- {k \in Key : starts[k] > 0}
ImplementsReceipts == Receipts!ReceiptSpec

\* While a server runs and direct messages leave its session alone, every task
\* gets an outcome and no agent goes on working on it.
Done(k) == /\ status[k] \in {"none"} \cup Outcomes
           /\ \A w \in Worker : ~ Executes(w, k)
TasksSettle ==
  /\ \E v \in Server : (\E w \in Worker : ServerOf[w] = v) /\ <>[](server[v] = "up")
  /\ <>[](direct = {})
  => \A k \in Key : []<>Done(k)
=============================================================================
