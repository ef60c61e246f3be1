--------------------------- MODULE AcpTasksProofs ---------------------------
(***************************************************************************)
(* Proofs about the durable tasks of AcpTasks, for any servers, workers,   *)
(* tasks, sessions, capacities and faults.                                 *)
(*                                                                         *)
(* What a worker does is tied to the advisory locks it holds (Holds) and   *)
(* the starts of a task to its row (Counted).  Both are inductive with the *)
(* types, and the properties follow: a task that has a live owner is       *)
(* locked, so nobody recovers it, and a task whose agent was started has   *)
(* left the queue, to which no step returns it.                            *)
(***************************************************************************)
EXTENDS AcpTasks, FiniteSetTheorems, TLAPS

\* The phases in which a worker holds the lock of its task, and of its session.
OwnsTask(w)    == \/ worker[w].pc \in {"owned", "locked", "ended"}
                  \/ worker[w].pc = "running" /\ ~ worker[w].broken
OwnsSession(w) == \/ worker[w].pc \in {"locked", "ended"}
                  \/ worker[w].pc = "running" /\ ~ worker[w].broken

HoldsOf(w) ==
  /\ worker[w].pc \notin {"idle", "scan"} => worker[w].key \in Key
  /\ OwnsTask(w) => taskLock[worker[w].key] = w
  /\ OwnsSession(w) => sessionLock[SessionOf[worker[w].key]] = w
Holds == \A w \in Worker : HoldsOf(w)

\* Nothing was started for a task in the queue; only a started agent has a
\* result, and a result is an outcome.
CountedRows == \A k \in Key :
  /\ starts[k] <= 1
  /\ status[k] \in {"none", "queued"} => starts[k] = 0
CountedWork(w) == /\ worker[w].pc \in {"running", "ended"} => starts[worker[w].key] = 1
                  /\ worker[w].pc = "ended" => worker[w].result \in Outcomes
Counted == CountedRows /\ \A w \in Worker : CountedWork(w)

IInv == TypeOK /\ Holds /\ Counted
-----------------------------------------------------------------------------
(* Types *)

LEMMA IdleWorker == Idle \in WorkerState
  BY TaskAssumption DEF Idle, WorkerState, Status

\* Fields of a worker may change within their types.
LEMMA WorkerFields ==
  ASSUME NEW x \in WorkerState
  PROVE  /\ \A pc \in {"scan", "owned", "locked", "running", "ended", "repair"} :
              [x EXCEPT !.pc = pc] \in WorkerState
         /\ \A k \in Key \cup {NoKey} : [x EXCEPT !.key = k] \in WorkerState
         /\ \A S \in SUBSET Key : [x EXCEPT !.todo = S] \in WorkerState
         /\ \A s \in Status \cup {"orphan"} : [x EXCEPT !.saw = s] \in WorkerState
         /\ \A b \in BOOLEAN : /\ [x EXCEPT !.broken = b] \in WorkerState
                               /\ [x EXCEPT !.told = b] \in WorkerState
         /\ \A r \in Status : [x EXCEPT !.result = r] \in WorkerState
  BY DEF WorkerState

\* Some steps change nothing of the rows but one status, within the statuses.
LEMMA SettleType ==
  ASSUME TypeOK, NEW k \in Key, NEW from, NEW to \in Status, Settle(k, from, to)
  PROVE  status' \in [Key -> Status]
  BY DEF TypeOK, Settle

LEMMA LeaveType ==
  ASSUME TypeOK, NEW w \in Worker, Leave(w)
  PROVE  /\ slotLock' \in [Slot -> Worker \cup {NoHolder}]
         /\ taskLock' \in [Key -> Worker \cup {NoHolder}]
         /\ sessionLock' \in [Session -> Worker \cup Server \cup {NoHolder}]
         /\ worker' \in [Worker -> WorkerState]
  BY IdleWorker DEF TypeOK, Leave, Without

LEMMA NextTaskType ==
  ASSUME TypeOK, NEW w \in Worker, NextTask(w)
  PROVE  /\ slotLock' \in [Slot -> Worker \cup {NoHolder}]
         /\ taskLock' \in [Key -> Worker \cup {NoHolder}]
         /\ sessionLock' \in [Session -> Worker \cup Server \cup {NoHolder}]
         /\ worker' \in [Worker -> WorkerState]
  <1>1. worker' \in [Worker -> WorkerState]
    <2> DEFINE x == [worker[w] EXCEPT !.pc = "scan"]
    <2> DEFINE y == [x EXCEPT !.key = NoKey]
    <2>1. x \in WorkerState
      BY WorkerFields DEF TypeOK
    <2>2. y \in WorkerState
      BY <2>1, WorkerFields
    <2>3. [y EXCEPT !.saw = "none"] \in WorkerState
      BY <2>2, WorkerFields DEF Status
    <2>4. worker' = [worker EXCEPT ![w] = [y EXCEPT !.saw = "none"]]
      BY DEF NextTask
    <2> QED BY <2>3, <2>4 DEF TypeOK
  <1> QED BY <1>1 DEF TypeOK, NextTask, Without

LEMMA InitHolds == Init => IInv
  BY IdleWorker DEF Init, IInv, TypeOK, Holds, HoldsOf, Counted, CountedRows, CountedWork, OwnsTask, OwnsSession,
     Idle, Status

\* What the callers, the servers and the direct messages do.
LEMMA CallerType ==
  ASSUME TypeOK, NEW k \in Key, Submit(k) \/ Cancel(k)
  PROVE  TypeOK'
  BY DEF TypeOK, Submit, Cancel, Status, Active, Outcomes, locks

LEMMA SessionType ==
  ASSUME TypeOK, NEW s \in Session, DeleteSession(s) \/ CreateSession(s)
  PROVE  TypeOK'
  BY DEF TypeOK, DeleteSession, CreateSession, Fault, locks

LEMMA SweepType ==
  ASSUME TypeOK, NEW w \in Worker, Sweep(w) \/ TryTask(w) \/ SweepEnds(w)
  PROVE  TypeOK'
  <1>1. CASE Sweep(w)
    <2> DEFINE x == [worker[w] EXCEPT !.pc = "scan"]
    <2>1. x \in WorkerState /\ Candidates \in SUBSET Key
      BY WorkerFields DEF TypeOK, Candidates, ActiveTasks
    <2>2. [x EXCEPT !.todo = Candidates] \in WorkerState
      BY <2>1, WorkerFields
    <2>3. worker' = [worker EXCEPT ![w] = [x EXCEPT !.todo = Candidates]]
      BY <1>1 DEF Sweep
    <2>4. slotLock' \in [Slot -> Worker \cup {NoHolder}]
      BY <1>1 DEF Sweep, TypeOK
    <2> QED BY <1>1, <2>2, <2>3, <2>4 DEF Sweep, TypeOK, rows
  <1>2. CASE TryTask(w)
    <2>1. PICK k \in worker[w].todo :
            IF TaskFree(k) /\ status[k] \in Active
            THEN /\ taskLock' = [taskLock EXCEPT ![k] = w]
                 /\ worker' = [worker EXCEPT ![w].pc = "owned", ![w].key = k,
                                             ![w].todo = @ \ {k}, ![w].saw = Seen(k)]
            ELSE /\ worker' = [worker EXCEPT ![w].todo = @ \ {k}]
                 /\ UNCHANGED taskLock
      BY <1>2 DEF TryTask
    <2> DEFINE x == [worker[w] EXCEPT !.todo = @ \ {k}]
    <2> DEFINE y == [x EXCEPT !.pc = "owned"]
    <2> DEFINE z == [y EXCEPT !.key = k]
    <2>2. worker[w] \in WorkerState /\ worker[w].todo \in SUBSET Key /\ k \in Key
      BY <2>1 DEF TypeOK, WorkerState
    <2>3. [worker[w] EXCEPT !.todo = worker[w].todo \ {k}] \in WorkerState
      BY <2>2, WorkerFields
    <2>4. x \in WorkerState
      BY <2>3
    <2>5. y \in WorkerState
      BY <2>4, WorkerFields
    <2>6. z \in WorkerState /\ Seen(k) \in Status \cup {"orphan"}
      BY <2>2, <2>5, WorkerFields DEF Seen, TypeOK
    <2>7. [z EXCEPT !.saw = Seen(k)] \in WorkerState
      BY <2>6, WorkerFields
    <2>8. \/ worker' = [worker EXCEPT ![w] = x]
          \/ worker' = [worker EXCEPT ![w] = [z EXCEPT !.saw = Seen(k)]]
      BY <2>1, ZenonT(60)
    <2>9. worker' \in [Worker -> WorkerState]
      BY <2>4, <2>7, <2>8 DEF TypeOK
    <2>10. taskLock' \in [Key -> Worker \cup {NoHolder}]
      BY <2>1, <2>2 DEF TypeOK
    <2> QED BY <1>2, <2>9, <2>10 DEF TryTask, TypeOK, rows
  <1>3. CASE SweepEnds(w)
    BY <1>3, LeaveType DEF SweepEnds, TypeOK, rows
  <1> QED BY <1>1, <1>2, <1>3

LEMMA ProcessType ==
  ASSUME TypeOK, Holds, NEW w \in Worker,
         \/ Recover(w) \/ FailOrphan(w) \/ LockSession(w)
         \/ StartTask(w) \/ StartRefused(w)
  PROVE  TypeOK'
  <1> DEFINE k == KeyOf(w)
  <1>1. k \in Key /\ SessionOf[k] \in Session
    BY TaskAssumption DEF Holds, HoldsOf, Recover, FailOrphan, LockSession, StartTask,
       StartRefused, At, KeyOf
  <1>2. CASE Recover(w)
    <2>1. status' \in [Key -> Status]
      BY <1>1, <1>2, SettleType DEF Recover, Recovered, Status, Outcomes
    <2> QED BY <1>2, <2>1, LeaveType DEF Recover, TypeOK
  <1>3. CASE FailOrphan(w)
    <2>1. status' \in [Key -> Status]
      BY <1>1, <1>3, SettleType DEF FailOrphan, Status, Outcomes
    <2> QED BY <1>3, <2>1, LeaveType DEF FailOrphan, TypeOK
  <1>4. CASE LockSession(w)
    <2>1. CASE NextTask(w)
      BY <1>4, <2>1, NextTaskType DEF LockSession, TypeOK, rows
    <2>2. CASE ~ NextTask(w)
      <3>1. worker' \in [Worker -> WorkerState]
        <4>1. [worker[w] EXCEPT !.pc = "locked"] \in WorkerState
          BY WorkerFields DEF TypeOK
        <4> QED BY <1>4, <2>2, <4>1 DEF LockSession, Goto, TypeOK
      <3> QED BY <1>1, <1>4, <2>2, <3>1 DEF LockSession, TypeOK, rows
    <2> QED BY <2>1, <2>2
  <1>5. CASE StartTask(w)
    <2>1. [Idle EXCEPT !.pc = "running"] \in WorkerState
      BY IdleWorker, WorkerFields
    <2>2. [[Idle EXCEPT !.pc = "running"] EXCEPT !.key = k] \in WorkerState
      BY <1>1, <2>1, WorkerFields
    <2>3. worker' = [worker EXCEPT ![w] = [[Idle EXCEPT !.pc = "running"] EXCEPT !.key = k]]
      BY <1>5 DEF StartTask
    <2>4. status' \in [Key -> Status] /\ starts' \in [Key -> Nat]
      BY <1>1, <1>5 DEF StartTask, Begin, TypeOK, Status, Active
    <2> QED BY <1>5, <2>2, <2>3, <2>4 DEF StartTask, Begin, TypeOK, locks
  <1>6. CASE StartRefused(w)
    BY <1>6, NextTaskType DEF StartRefused, TypeOK, rows
  <1> QED BY <1>2, <1>3, <1>4, <1>5, <1>6

LEMMA RunType ==
  ASSUME TypeOK, Holds, Counted, NEW w \in Worker,
         Heartbeat(w) \/ EndRun(w) \/ FinalizeTask(w) \/ Repair(w)
  PROVE  TypeOK'
  <1> DEFINE k == KeyOf(w)
  <1>1. k \in Key
    BY DEF Holds, HoldsOf, Heartbeat, EndRun, FinalizeTask, Repair, At, KeyOf
  <1>2. CASE Heartbeat(w)
    <2>1. [worker[w] EXCEPT !.told = TRUE] \in WorkerState
      BY WorkerFields DEF TypeOK
    <2> QED BY <1>2, <2>1 DEF Heartbeat, TypeOK, rows, locks
  <1>3. CASE EndRun(w)
    <2>1. PICK r \in Results(w) :
            worker' = [worker EXCEPT ![w] =
              IF @.broken THEN [Idle EXCEPT !.pc = "repair", !.key = k]
              ELSE [Idle EXCEPT !.pc = "ended", !.key = k, !.result = r]]
      BY <1>3 DEF EndRun
    <2>2. [Idle EXCEPT !.pc = "repair", !.key = k] \in WorkerState
      BY <1>1, IdleWorker DEF WorkerState, Idle
    <2>3. [Idle EXCEPT !.pc = "ended", !.key = k, !.result = r] \in WorkerState
      BY <1>1, IdleWorker DEF WorkerState, Idle, Results, Status, Outcomes
    <2> QED BY <1>3, <2>1, <2>2, <2>3 DEF EndRun, TypeOK, rows, locks
  <1>4. CASE FinalizeTask(w)
    <2>1. status' \in [Key -> Status]
      BY <1>1, <1>4, SettleType DEF FinalizeTask, Finalized, At, Counted, CountedWork, Status
    <2> QED BY <1>4, <2>1, LeaveType DEF FinalizeTask, TypeOK
  <1>5. CASE Repair(w)
    <2>1. status' \in [Key -> Status]
      BY <1>1, <1>5, SettleType DEF Repair, Status, Outcomes, TypeOK
    <2> QED BY <1>5, <2>1, IdleWorker DEF Repair, TypeOK, locks
  <1> QED BY <1>2, <1>3, <1>4, <1>5

LEMMA DirectType ==
  ASSUME TypeOK, NEW v \in Server, NEW s \in Session,
         DirectStart(v, s) \/ DirectEnds(v, s) \/ DirectDisconnect(v, s)
  PROVE  TypeOK'
  BY DEF DirectStart, DirectEnds, DirectDisconnect, Fault, TypeOK, rows

LEMMA ServerType ==
  ASSUME TypeOK, NEW v \in Server, Shutdown(v) \/ Exit(v) \/ Restart(v) \/ Crash(v)
  PROVE  TypeOK'
  <1>1. CASE Shutdown(v) \/ Exit(v) \/ Restart(v)
    BY <1>1 DEF Shutdown, Exit, Restart, Fault, TypeOK, rows, locks
  <1>2. CASE Crash(v)
    <2>1. worker' \in [Worker -> WorkerState]
      BY <1>2, IdleWorker DEF Crash, TypeOK
    <2>2. /\ slotLock' \in [Slot -> Worker \cup {NoHolder}]
          /\ taskLock' \in [Key -> Worker \cup {NoHolder}]
          /\ sessionLock' \in [Session -> Worker \cup Server \cup {NoHolder}]
      BY <1>2 DEF Crash, TypeOK
    <2> QED BY <1>2, <2>1, <2>2 DEF Crash, Fault, TypeOK, rows
  <1> QED BY <1>1, <1>2

LEMMA FaultType ==
  ASSUME TypeOK, Holds, Counted, NEW w \in Worker, Disconnect(w) \/ AnswerLost(w)
  PROVE  TypeOK'
  <1>1. LoseConnection(w)
    BY DEF Disconnect, AnswerLost
  <1>2. worker[w].pc = "ended" => KeyOf(w) \in Key
    BY DEF Holds, HoldsOf, KeyOf
  <1>3. worker' \in [Worker -> WorkerState]
    <2>1. [worker[w] EXCEPT !.broken = TRUE] \in WorkerState
      BY WorkerFields DEF TypeOK
    <2>2. worker[w].pc = "ended" =>
            [Idle EXCEPT !.pc = "repair", !.key = KeyOf(w)] \in WorkerState
      BY <1>2, IdleWorker DEF WorkerState, Idle
    <2> QED BY <1>1, <2>1, <2>2, IdleWorker DEF LoseConnection, TypeOK
  <1>4. status' \in [Key -> Status]
    <2>1. CASE At(w, "ended") /\ Finalized(w)
      BY <1>2, <2>1, SettleType DEF Finalized, At, Counted, CountedWork, Status
    <2>2. CASE Disconnect(w)
      BY <2>2 DEF Disconnect, TypeOK
    <2>3. CASE status' = [status EXCEPT ![KeyOf(w)] = "running"]
      BY <2>3 DEF TypeOK, Status, Active
    <2> QED BY <2>1, <2>2, <2>3 DEF AnswerLost
  <1> QED BY <1>1, <1>3, <1>4 DEF LoseConnection, Fault, TypeOK, Without
-----------------------------------------------------------------------------
(* Locks *)

\* A step of one worker that takes no lock from another keeps what the others
\* hold.
LEMMA OthersHold ==
  ASSUME TypeOK, Holds, NEW a \in Worker,
         \A w \in Worker \ {a} : worker'[w] = worker[w],
         \A k \in Key : taskLock[k] \in Worker \ {a} => taskLock'[k] = taskLock[k],
         \A s \in Session :
           sessionLock[s] \in Worker \ {a} => sessionLock'[s] = sessionLock[s],
         HoldsOf(a)'
  PROVE  Holds'
  <1> SUFFICES ASSUME NEW w \in Worker, w # a
               PROVE  HoldsOf(w)'
    BY DEF Holds
  <1>1. HoldsOf(w) /\ worker'[w] = worker[w]
    BY DEF Holds
  <1>2. worker[w].key \in Key => SessionOf[worker[w].key] \in Session
    BY TaskAssumption
  <1> QED BY <1>1, <1>2 DEF HoldsOf, OwnsTask, OwnsSession

LEMMA LeaveHolds ==
  ASSUME TypeOK, Holds, NEW a \in Worker, Leave(a)
  PROVE  Holds'
  <1>1. HoldsOf(a)'
    BY DEF Leave, TypeOK, HoldsOf, OwnsTask, OwnsSession, Idle
  <1> QED BY <1>1, OthersHold DEF Leave, Without, TypeOK

LEMMA NextTaskHolds ==
  ASSUME TypeOK, Holds, NEW a \in Worker, NextTask(a)
  PROVE  Holds'
  <1>1. worker'[a].pc = "scan"
    BY DEF NextTask, TypeOK, WorkerState
  <1>2. HoldsOf(a)'
    BY <1>1 DEF HoldsOf, OwnsTask, OwnsSession
  <1> QED BY <1>2, OthersHold DEF NextTask, Without, TypeOK

\* Callers touch neither workers nor locks.
LEMMA SameHolds ==
  ASSUME Holds, worker' = worker, UNCHANGED locks
  PROVE  Holds'
  BY DEF Holds, HoldsOf, OwnsTask, OwnsSession, locks

LEMMA SweepHolds ==
  ASSUME TypeOK, Holds, NEW a \in Worker, Sweep(a) \/ TryTask(a) \/ SweepEnds(a)
  PROVE  Holds'
  <1>1. CASE Sweep(a)
    <2>1. HoldsOf(a)'
      BY <1>1 DEF Sweep, TypeOK, WorkerState, HoldsOf, OwnsTask, OwnsSession
    <2> QED BY <1>1, <2>1, OthersHold DEF Sweep, TypeOK
  <1>2. CASE TryTask(a)
    <2>1. PICK k \in worker[a].todo :
            IF TaskFree(k) /\ status[k] \in Active
            THEN /\ taskLock' = [taskLock EXCEPT ![k] = a]
                 /\ worker' = [worker EXCEPT ![a].pc = "owned", ![a].key = k,
                                             ![a].todo = @ \ {k}, ![a].saw = Seen(k)]
            ELSE /\ worker' = [worker EXCEPT ![a].todo = @ \ {k}]
                 /\ UNCHANGED taskLock
      BY <1>2 DEF TryTask
    <2>2. k \in Key /\ worker[a].pc = "scan" /\ NoHolder \notin Worker
      BY <1>2, <2>1, TaskAssumption DEF TryTask, At, TypeOK, WorkerState
    <2>3. CASE TaskFree(k) /\ status[k] \in Active
      <3>1. worker'[a].pc = "owned" /\ worker'[a].key = k
        BY <2>1, <2>3 DEF TypeOK, WorkerState
      <3>2. HoldsOf(a)'
        BY <2>1, <2>2, <2>3, <3>1 DEF TypeOK, HoldsOf, OwnsTask, OwnsSession
      <3> QED BY <1>2, <2>1, <2>2, <2>3, <3>2, OthersHold DEF TryTask, TaskFree, TypeOK
    <2>4. CASE ~ (TaskFree(k) /\ status[k] \in Active)
      <3>1. worker'[a].pc = "scan"
        BY <2>1, <2>2, <2>4 DEF TypeOK, WorkerState
      <3>2. HoldsOf(a)'
        BY <3>1 DEF HoldsOf, OwnsTask, OwnsSession
      <3> QED BY <1>2, <2>1, <2>4, <3>2, OthersHold DEF TryTask, TypeOK
    <2> QED BY <2>3, <2>4
  <1>3. CASE SweepEnds(a)
    BY <1>3, LeaveHolds DEF SweepEnds
  <1> QED BY <1>1, <1>2, <1>3

LEMMA LockSessionHolds ==
  ASSUME TypeOK, Holds, NEW a \in Worker, LockSession(a)
  PROVE  Holds'
  <1> DEFINE s == SessionOf[KeyOf(a)]
  <1>1. /\ worker[a].pc = "owned" /\ KeyOf(a) \in Key /\ s \in Session
        /\ taskLock[KeyOf(a)] = a /\ NoHolder \notin Worker
    BY TaskAssumption DEF LockSession, At, KeyOf, Holds, HoldsOf, OwnsTask
  <1>2. CASE sessionLock[s] = NoHolder
    <2>1. /\ sessionLock' = [sessionLock EXCEPT ![s] = a]
          /\ worker' = [worker EXCEPT ![a].pc = "locked"] /\ taskLock' = taskLock
      BY <1>2 DEF LockSession, Goto
    <2>2. worker'[a].pc = "locked" /\ worker'[a].key = KeyOf(a)
      BY <2>1 DEF TypeOK, WorkerState, KeyOf
    <2>3. HoldsOf(a)'
      BY <1>1, <2>1, <2>2 DEF TypeOK, HoldsOf, OwnsTask, OwnsSession
    <2> QED BY <1>1, <1>2, <2>1, <2>3, OthersHold DEF TypeOK
  <1>3. CASE sessionLock[s] # NoHolder
    BY <1>3, NextTaskHolds DEF LockSession
  <1> QED BY <1>2, <1>3

LEMMA StartTaskHolds ==
  ASSUME TypeOK, Holds, NEW a \in Worker, StartTask(a)
  PROVE  Holds'
  <1>1. worker'[a].pc = "running" /\ worker'[a].key = worker[a].key
    BY IdleWorker DEF StartTask, TypeOK, WorkerState, KeyOf, Idle
  <1>2. HoldsOf(a)'
    BY <1>1 DEF StartTask, At, Holds, HoldsOf, OwnsTask, OwnsSession, locks
  <1> QED BY <1>2, OthersHold DEF StartTask, TypeOK, locks

LEMMA RunHolds ==
  ASSUME TypeOK, Holds, NEW a \in Worker, Heartbeat(a) \/ EndRun(a) \/ Repair(a)
  PROVE  Holds'
  <1>1. CASE Heartbeat(a)
    <2>1. /\ worker'[a].pc = worker[a].pc /\ worker'[a].key = worker[a].key
          /\ worker'[a].broken = worker[a].broken
      BY <1>1 DEF Heartbeat, TypeOK, WorkerState
    <2>2. HoldsOf(a)'
      BY <1>1, <2>1 DEF Heartbeat, Holds, HoldsOf, OwnsTask, OwnsSession, locks
    <2> QED BY <1>1, <2>2, OthersHold DEF Heartbeat, TypeOK, locks
  <1>2. CASE EndRun(a)
    <2>1. \/ worker[a].broken /\ worker'[a].pc = "repair"
          \/ ~ worker[a].broken /\ worker'[a].pc = "ended"
      BY <1>2, ZenonT(60) DEF EndRun, TypeOK, WorkerState, Idle
    <2>2. worker'[a].key = worker[a].key
      BY <1>2, ZenonT(60) DEF EndRun, TypeOK, WorkerState, Idle, KeyOf
    <2>3. HoldsOf(a)'
      BY <1>2, <2>1, <2>2 DEF EndRun, Holds, HoldsOf, OwnsTask, OwnsSession, locks
    <2> QED BY <1>2, <2>3, OthersHold DEF EndRun, TypeOK, locks
  <1>3. CASE Repair(a)
    <2>1. HoldsOf(a)'
      BY <1>3 DEF Repair, TypeOK, HoldsOf, OwnsTask, OwnsSession, Idle
    <2> QED BY <1>3, <2>1, OthersHold DEF Repair, TypeOK, locks
  <1> QED BY <1>1, <1>2, <1>3

LEMMA LoseHolds ==
  ASSUME TypeOK, Holds, NEW a \in Worker, LoseConnection(a)
  PROVE  Holds'
  <1>1. HoldsOf(a)'
    <2>1. CASE worker[a].pc = "running"
      <3>1. /\ worker'[a].pc = "running" /\ worker'[a].key = worker[a].key
            /\ worker'[a].broken
        BY <2>1 DEF LoseConnection, TypeOK, WorkerState
      <3> QED BY <2>1, <3>1 DEF Holds, HoldsOf, OwnsTask, OwnsSession
    <2>2. CASE worker[a].pc = "ended"
      <3>1. worker'[a].pc = "repair" /\ worker'[a].key = worker[a].key
        BY <2>2 DEF LoseConnection, TypeOK, WorkerState, Idle, KeyOf
      <3> QED BY <2>2, <3>1 DEF Holds, HoldsOf, OwnsTask, OwnsSession
    <2>3. CASE worker[a].pc \notin {"running", "ended"}
      BY <2>3 DEF LoseConnection, TypeOK, HoldsOf, OwnsTask, OwnsSession, Idle
    <2> QED BY <2>1, <2>2, <2>3
  <1> QED BY <1>1, OthersHold DEF LoseConnection, Without, TypeOK

LEMMA DirectHolds ==
  ASSUME TypeOK, Holds, NEW v \in Server, NEW s \in Session,
         DirectStart(v, s) \/ DirectEnds(v, s) \/ DirectDisconnect(v, s)
  PROVE  Holds'
  <1>1. worker' = worker /\ taskLock' = taskLock
    BY DEF DirectStart, DirectEnds, DirectDisconnect
  <1>2. \A q \in Session :
          sessionLock[q] \in Worker => sessionLock'[q] = sessionLock[q]
    BY TaskAssumption DEF DirectStart, DirectEnds, DirectDisconnect, SessionFree, TypeOK
  <1>3. \A w \in Worker : worker[w].key \in Key => SessionOf[worker[w].key] \in Session
    BY TaskAssumption
  <1> QED BY <1>1, <1>2, <1>3 DEF Holds, HoldsOf, OwnsTask, OwnsSession

LEMMA ServerHolds ==
  ASSUME TypeOK, Holds, NEW v \in Server,
         Shutdown(v) \/ Exit(v) \/ Restart(v) \/ Crash(v)
  PROVE  Holds'
  <1>1. CASE Shutdown(v) \/ Exit(v) \/ Restart(v)
    BY <1>1, SameHolds DEF Shutdown, Exit, Restart
  <1>2. CASE Crash(v)
    <2> SUFFICES ASSUME NEW w \in Worker PROVE HoldsOf(w)'
      BY DEF Holds
    <2>1. CASE ServerOf[w] = v
      <3>1. worker'[w] = Idle
        BY <1>2, <2>1 DEF Crash
      <3> QED BY <3>1 DEF HoldsOf, OwnsTask, OwnsSession, Idle
    <2>2. CASE ServerOf[w] # v
      <3>1. worker'[w] = worker[w] /\ w # v
        BY <1>2, <2>2, TaskAssumption DEF Crash
      <3>2. \A k \in Key : taskLock[k] = w => taskLock'[k] = w
        BY <1>2, <2>2, <3>1 DEF Crash, TypeOK
      <3>3. \A q \in Session : sessionLock[q] = w => sessionLock'[q] = w
        BY <1>2, <2>2, <3>1 DEF Crash, TypeOK
      <3>4. worker[w].key \in Key => SessionOf[worker[w].key] \in Session
        BY TaskAssumption
      <3> QED BY <3>1, <3>2, <3>3, <3>4 DEF Holds, HoldsOf, OwnsTask, OwnsSession
    <2> QED BY <2>1, <2>2
  <1> QED BY <1>1, <1>2
-----------------------------------------------------------------------------
(* Starts *)

\* A step that starts nothing: no row returns to the queue, and what a worker
\* executes or has executed is what it did before.
LEMMA NothingStarted ==
  ASSUME TypeOK, Counted, UNCHANGED starts,
         \A k \in Key : \/ status'[k] = status[k]
                        \/ status'[k] \notin {"none", "queued"}
                        \/ status[k] = "none",
         \A w \in Worker :
           \/ worker'[w].pc \notin {"running", "ended"}
           \/ worker'[w] = worker[w]
           \/ /\ worker[w].pc = "running" /\ worker'[w].key = worker[w].key
              /\ worker'[w].pc = "ended" => worker'[w].result \in Outcomes
  PROVE  Counted'
  <1>1. CountedRows'
    BY DEF Counted, CountedRows
  <1>2. ASSUME NEW w \in Worker PROVE CountedWork(w)'
    BY DEF Counted, CountedWork
  <1> QED BY <1>1, <1>2 DEF Counted

LEMMA StartCounted ==
  ASSUME TypeOK, Holds, Counted, NEW a \in Worker, StartTask(a)
  PROVE  Counted'
  <1> DEFINE k == KeyOf(a)
  <1>1. /\ k \in Key /\ status[k] = "queued" /\ starts[k] = 0
        /\ starts' = [starts EXCEPT ![k] = @ + 1]
        /\ status' = [status EXCEPT ![k] = "running"]
    <2>1. /\ worker[a].pc = "locked" /\ status[k] = "queued"
          /\ status' = [status EXCEPT ![k] = "running"]
          /\ starts' = [starts EXCEPT ![k] = @ + 1]
      BY DEF StartTask, Startable, Begin, At
    <2>2. k \in Key
      BY <2>1 DEF KeyOf, Holds, HoldsOf
    <2> QED BY <2>1, <2>2 DEF Counted, CountedRows
  <1>2. starts'[k] = 1 /\ \A j \in Key \ {k} : starts'[j] = starts[j]
    BY <1>1 DEF TypeOK
  <1>3. CountedRows'
    <2> SUFFICES ASSUME NEW j \in Key
                 PROVE  /\ starts'[j] <= 1
                        /\ status'[j] \in {"none", "queued"} => starts'[j] = 0
      BY DEF CountedRows
    <2>1. CASE j = k
      BY <1>1, <1>2, <2>1 DEF TypeOK
    <2>2. CASE j # k
      <3>1. starts'[j] = starts[j] /\ status'[j] = status[j]
        BY <1>1, <1>2, <2>2
      <3> QED BY <3>1 DEF Counted, CountedRows
    <2> QED BY <2>1, <2>2
  <1>4. ASSUME NEW w \in Worker PROVE CountedWork(w)'
    <2>1. CASE w = a
      <3>1. worker'[a].pc = "running" /\ worker'[a].key = k
        BY IdleWorker DEF StartTask, TypeOK, WorkerState, Idle
      <3> QED BY <1>2, <2>1, <3>1 DEF CountedWork
    <2>2. CASE w # a
      <3>1. worker'[w] = worker[w] /\ CountedWork(w)
        BY <2>2 DEF Counted, StartTask, TypeOK
      <3>2. CASE worker[w].pc \in {"running", "ended"}
        <4>1. worker[w].key \in Key /\ starts[worker[w].key] = 1
          BY <3>1, <3>2 DEF Holds, HoldsOf, CountedWork
        <4>2. worker[w].key # k
          BY <1>1, <4>1
        <4> QED BY <1>2, <3>1, <4>1, <4>2 DEF CountedWork
      <3> QED BY <3>1, <3>2 DEF CountedWork
    <2> QED BY <2>1, <2>2
  <1> QED BY <1>3, <1>4 DEF Counted

LEMMA WorkerCounted ==
  ASSUME TypeOK, Holds, Counted, NEW a \in Worker, Works(a), ~ StartTask(a)
  PROVE  Counted'
  <1>1. CASE Sweep(a) \/ TryTask(a) \/ SweepEnds(a)
    <2>1. UNCHANGED <<status, starts>>
      BY <1>1 DEF Sweep, TryTask, SweepEnds, rows
    <2>2. \A w \in Worker \ {a} : worker'[w] = worker[w]
      BY <1>1 DEF Sweep, TryTask, SweepEnds, Leave, TypeOK
    <2>3. worker'[a].pc \notin {"running", "ended"}
      <3>1. CASE Sweep(a)
        BY <3>1 DEF Sweep, TypeOK, WorkerState
      <3>2. CASE TryTask(a)
        BY <3>2 DEF TryTask, At, TypeOK, WorkerState
      <3>3. CASE SweepEnds(a)
        BY <3>3 DEF SweepEnds, Leave, TypeOK, Idle
      <3> QED BY <1>1, <3>1, <3>2, <3>3
    <2> QED BY <2>1, <2>2, <2>3, NothingStarted
  <1>2. CASE LockSession(a) \/ StartRefused(a)
    <2>1. UNCHANGED <<status, starts>>
      BY <1>2 DEF LockSession, StartRefused, rows
    <2>2. \A w \in Worker \ {a} : worker'[w] = worker[w]
      BY <1>2 DEF LockSession, StartRefused, NextTask, Goto, TypeOK
    <2>3. worker'[a].pc \notin {"running", "ended"}
      BY <1>2 DEF LockSession, StartRefused, NextTask, Goto, TypeOK, WorkerState
    <2> QED BY <2>1, <2>2, <2>3, NothingStarted
  <1>3. CASE Recover(a) \/ FailOrphan(a) \/ FinalizeTask(a) \/ Repair(a)
    <2>1. UNCHANGED starts
      BY <1>3 DEF Recover, FailOrphan, FinalizeTask, Repair
    <2>2. \A k \in Key : status'[k] = status[k] \/ status'[k] \notin {"none", "queued"}
      BY <1>3 DEF Recover, FailOrphan, FinalizeTask, Repair, Recovered, Finalized,
         Settle, At, Counted, CountedWork, Outcomes, TypeOK
    <2>3. \A w \in Worker \ {a} : worker'[w] = worker[w]
      BY <1>3 DEF Recover, FailOrphan, FinalizeTask, Repair, Leave, TypeOK
    <2>4. worker'[a].pc \notin {"running", "ended"}
      BY <1>3 DEF Recover, FailOrphan, FinalizeTask, Repair, Leave, TypeOK, Idle
    <2> QED BY <2>1, <2>2, <2>3, <2>4, NothingStarted
  <1>4. CASE Heartbeat(a) \/ EndRun(a)
    <2>1. UNCHANGED <<status, starts>>
      BY <1>4 DEF Heartbeat, EndRun, rows
    <2>2. \A w \in Worker \ {a} : worker'[w] = worker[w]
      BY <1>4 DEF Heartbeat, EndRun, TypeOK
    <2>3. worker[a].pc = "running" /\ worker'[a].key = worker[a].key
      BY <1>4, ZenonT(60) DEF Heartbeat, EndRun, KeyOf, TypeOK, WorkerState, Idle
    <2>4. worker'[a].pc = "ended" => worker'[a].result \in Outcomes
      <3>1. CASE Heartbeat(a)
        BY <3>1 DEF Heartbeat, TypeOK, WorkerState
      <3>2. CASE EndRun(a)
        <4>1. PICK r \in Results(a) :
                worker' = [worker EXCEPT ![a] =
                  IF @.broken THEN [Idle EXCEPT !.pc = "repair", !.key = KeyOf(a)]
                  ELSE [Idle EXCEPT !.pc = "ended", !.key = KeyOf(a), !.result = r]]
          BY <3>2 DEF EndRun
        <4>2. r \in Outcomes
          BY DEF Results, Outcomes
        <4> QED BY <4>1, <4>2 DEF TypeOK, Idle
      <3> QED BY <1>4, <3>1, <3>2
    <2> QED BY <2>1, <2>2, <2>3, <2>4, NothingStarted
  <1> QED BY <1>1, <1>2, <1>3, <1>4 DEF Works

LEMMA FaultCounted ==
  ASSUME TypeOK, Holds, Counted, NEW a \in Worker, Disconnect(a) \/ AnswerLost(a)
  PROVE  Counted'
  <1>1. UNCHANGED starts /\ LoseConnection(a)
    BY DEF Disconnect, AnswerLost, LoseConnection
  <1>2. \A k \in Key : status'[k] = status[k] \/ status'[k] \notin {"none", "queued"}
    BY DEF Disconnect, AnswerLost, Finalized, Settle, At, Counted, CountedWork, Outcomes, TypeOK
  <1>3. \A w \in Worker \ {a} : worker'[w] = worker[w]
    BY <1>1 DEF LoseConnection, TypeOK
  <1>4. \/ worker'[a].pc \notin {"running", "ended"}
        \/ /\ worker[a].pc = "running" /\ worker'[a].pc = "running"
           /\ worker'[a].key = worker[a].key
    BY <1>1 DEF LoseConnection, TypeOK, WorkerState, Idle
  <1> QED BY <1>1, <1>2, <1>3, <1>4, NothingStarted

LEMMA CallerCounted ==
  ASSUME TypeOK, Counted, NEW k \in Key, Submit(k) \/ Cancel(k)
  PROVE  Counted'
  <1>1. \A j \in Key : \/ status'[j] = status[j]
                       \/ status'[j] \notin {"none", "queued"}
                       \/ status[j] = "none"
    BY DEF Submit, Cancel, TypeOK
  <1>2. UNCHANGED <<starts, worker>>
    BY DEF Submit, Cancel
  <1> QED BY <1>1, <1>2, NothingStarted

LEMMA SameCounted ==
  ASSUME TypeOK, Counted, UNCHANGED <<status, starts>>,
         \A w \in Worker : worker'[w] = worker[w] \/ worker'[w] = Idle
  PROVE  Counted'
  BY NothingStarted DEF Idle

-----------------------------------------------------------------------------
(* The inductive invariant *)

LEMMA Stutter == IInv /\ UNCHANGED vars => IInv'
  BY DEF IInv, TypeOK, Holds, HoldsOf, OwnsTask, OwnsSession, Counted, CountedRows,
     CountedWork, vars, rows, locks

LEMMA CallersKeep ==
  ASSUME IInv, NEW k \in Key, Submit(k) \/ Cancel(k)
  PROVE  IInv'
  BY CallerType, CallerCounted, SameHolds DEF IInv, Submit, Cancel

LEMMA SessionsKeep ==
  ASSUME IInv, NEW s \in Session, DeleteSession(s) \/ CreateSession(s)
  PROVE  IInv'
  BY SessionType, SameCounted, SameHolds DEF IInv, DeleteSession, CreateSession

LEMMA WorkersKeep ==
  ASSUME IInv, NEW w \in Worker, Works(w) \/ Disconnect(w) \/ AnswerLost(w)
  PROVE  IInv'
  <1>1. TypeOK'
    BY SweepType, ProcessType, RunType, FaultType DEF IInv, Works
  <1>2. Holds'
    <2>1. CASE Recover(w) \/ FailOrphan(w) \/ FinalizeTask(w)
      BY <2>1, LeaveHolds DEF IInv, Recover, FailOrphan, FinalizeTask
    <2>2. CASE StartRefused(w)
      BY <2>2, NextTaskHolds DEF IInv, StartRefused
    <2>3. CASE Disconnect(w) \/ AnswerLost(w)
      BY <2>3, LoseHolds DEF IInv, Disconnect, AnswerLost
    <2> QED BY <2>1, <2>2, <2>3, SweepHolds, LockSessionHolds, StartTaskHolds, RunHolds
            DEF IInv, Works
  <1>3. Counted'
    BY StartCounted, WorkerCounted, FaultCounted DEF IInv
  <1> QED BY <1>1, <1>2, <1>3 DEF IInv

LEMMA ServersKeep ==
  ASSUME IInv, NEW v \in Server, Shutdown(v) \/ Exit(v) \/ Crash(v) \/ Restart(v)
  PROVE  IInv'
  <1>1. UNCHANGED <<status, starts>>
    BY DEF Shutdown, Exit, Crash, Restart, rows
  <1>2. \A w \in Worker : worker'[w] = worker[w] \/ worker'[w] = Idle
    BY DEF Shutdown, Exit, Crash, Restart
  <1> QED BY <1>1, <1>2, SameCounted, ServerType, ServerHolds DEF IInv

LEMMA DirectsKeep ==
  ASSUME IInv, NEW v \in Server, NEW s \in Session,
         DirectStart(v, s) \/ DirectEnds(v, s) \/ DirectDisconnect(v, s)
  PROVE  IInv'
  <1>1. UNCHANGED <<status, starts, worker>>
    BY DEF DirectStart, DirectEnds, DirectDisconnect, rows
  <1> QED BY <1>1, SameCounted, DirectType, DirectHolds DEF IInv

LEMMA StepsKeep == IInv /\ [Next]_vars => IInv'
  BY Stutter, CallersKeep, SessionsKeep, WorkersKeep, ServersKeep, DirectsKeep DEF Next

\* What workers hold and what was started, with the types, in every state.
THEOREM Inductive == Spec => []IInv
  BY InitHolds, StepsKeep, PTL DEF Spec

\* Every step of the callers, servers, workers and faults keeps rows, locks and
\* workers well formed.
THEOREM TypesKept == Spec => []TypeOK
  <1>1. IInv => TypeOK
    BY DEF IInv
  <1> QED BY <1>1, Inductive, PTL
-----------------------------------------------------------------------------
(* What follows *)

\* task_server.go: interrupted work is never executed again, whatever crashes,
\* connections or answers are lost.
THEOREM StartedOnce == Spec => []RunsOnce
  <1>1. IInv => RunsOnce
    BY DEF IInv, Counted, CountedRows, RunsOnce
  <1> QED BY <1>1, Inductive, PTL

\* All executions of a session that still have their connection hold its one
\* lock, durable tasks and direct messages alike.
THEOREM ExclusiveSessions == Spec => []SessionExclusive
  <1>1. ASSUME IInv, NEW s \in Session
        PROVE  Cardinality(Live(s)) <= 1
    <2>1. \A x \in Live(s) : x = sessionLock[s]
      BY <1>1 DEF Live, IInv, Holds, HoldsOf, OwnsSession
    <2>2. CASE Live(s) = {}
      BY <2>2, FS_EmptySet
    <2>3. CASE Live(s) # {}
      <3>1. Live(s) = {sessionLock[s]}
        BY <2>1, <2>3
      <3> QED BY <3>1, FS_Singleton
    <2> QED BY <2>2, <2>3
  <1>2. IInv => SessionExclusive
    BY <1>1 DEF SessionExclusive
  <1> QED BY <1>2, Inductive, PTL

\* The row of a task whose worker is connected is left alone by every other
\* worker: to recover, fail, finish or repair it takes the task's lock.
LEMMA OwnerKeepsRow ==
  ASSUME IInv, [Next]_vars, NEW w \in Worker, NEW k \in Key,
         Executes(w, k), ~ worker[w].broken, status[k] = "running"
  PROVE  status'[k] \in {"running", "cancelled"}
  <1>1. /\ taskLock[k] = w /\ w # NoHolder /\ status \in [Key -> Status]
        /\ worker[w].pc = "running"
    BY TaskAssumption DEF IInv, TypeOK, Holds, HoldsOf, OwnsTask, Executes
  <1>2. \A a \in Worker : worker[a].pc \in {"owned", "locked", "ended"} =>
                            worker[a].key # k
    BY <1>1 DEF IInv, Holds, HoldsOf, OwnsTask
  <1>3. CASE \E a \in Worker : Works(a)
    <2>1. PICK a \in Worker : Works(a)
      BY <1>3
    <2>2. CASE Recover(a) \/ FailOrphan(a) \/ FinalizeTask(a) \/ StartTask(a)
      BY <1>1, <1>2, <2>2 DEF Recover, FailOrphan, FinalizeTask, StartTask, Finalized,
         Settle, Begin, At, KeyOf
    <2>3. CASE Repair(a)
      <3>1. KeyOf(a) = k => ~ MayRepair(a)
        BY <1>1 DEF MayRepair
      <3> QED BY <1>1, <2>3, <3>1 DEF Repair, Settle
    <2>4. CASE ~ (Recover(a) \/ FailOrphan(a) \/ FinalizeTask(a) \/ StartTask(a) \/ Repair(a))
      <3>1. status' = status
        BY <2>1, <2>4 DEF Works, Sweep, TryTask, SweepEnds, LockSession, StartRefused,
           Heartbeat, EndRun, rows
      <3> QED BY <3>1
    <2> QED BY <2>2, <2>3, <2>4
  <1>4. CASE \E a \in Worker : Disconnect(a) \/ AnswerLost(a)
    <2>1. PICK a \in Worker : Disconnect(a) \/ AnswerLost(a)
      BY <1>4
    <2>2. \/ status' = status
          \/ /\ worker[a].pc \in {"locked", "ended"}
             /\ \E s : status' = [status EXCEPT ![worker[a].key] = s]
      BY <2>1 DEF Disconnect, AnswerLost, Finalized, Settle, At, KeyOf
    <2> QED BY <1>1, <1>2, <2>2
  <1>5. CASE \E j \in Key : Submit(j) \/ Cancel(j)
    BY <1>1, <1>5 DEF Submit, Cancel
  <1>6. CASE \E s \in Session : DeleteSession(s) \/ CreateSession(s)
    BY <1>1, <1>6 DEF DeleteSession, CreateSession
  <1>7. CASE \E v \in Server : \/ Shutdown(v) \/ Exit(v) \/ Crash(v) \/ Restart(v)
                              \/ \E s \in Session : \/ DirectStart(v, s) \/ DirectEnds(v, s)
                                                   \/ DirectDisconnect(v, s)
    <2>1. status' = status
      BY <1>7 DEF Shutdown, Exit, Crash, Restart, DirectStart, DirectEnds,
         DirectDisconnect, rows
    <2> QED BY <1>1, <2>1
  <1>8. CASE UNCHANGED vars
    BY <1>1, <1>8 DEF vars, rows
  <1> QED BY <1>3, <1>4, <1>5, <1>6, <1>7, <1>8 DEF Next

\* A second server never steals the work of a live one.
THEOREM LiveOwners == Spec => LiveOwnerKept
  <1>1. IInv /\ [Next]_vars =>
          [\A w \in Worker, k \in Key :
             Executes(w, k) /\ ~ worker[w].broken /\ status[k] = "running"
               => status'[k] \in {"running", "cancelled"}]_vars
    BY OwnerKeepsRow
  <1> QED BY <1>1, Inductive, PTL DEF Spec, LiveOwnerKept
-----------------------------------------------------------------------------
(* Refinement *)

StartedTasks == {k \in Key : starts[k] > 0}

\* A row that settles is a receipt that ends, or that does not change.
LEMMA SettleRefines ==
  ASSUME IInv, NEW k \in Key, NEW from \in Active, NEW to \in Outcomes,
         Settle(k, from, to), UNCHANGED starts,
         to = "completed" => starts[k] = 1
  PROVE  Receipts!Next \/ UNCHANGED <<status, StartedTasks>>
  <1>1. CASE status[k] = from
    <2>1. Receipts!Becomes(k, to)
      BY <1>1 DEF Settle, Receipts!Becomes
    <2>2. to = "completed" => k \in StartedTasks
      BY DEF StartedTasks
    <2>3. Receipts!Ended(k)
      BY <1>1, <2>1, <2>2 DEF Receipts!Ended, Receipts!Unfinished, Receipts!Outcome,
         Active, Outcomes, StartedTasks
    <2> QED BY <2>3 DEF Receipts!Next
  <1>2. CASE status[k] # from
    BY <1>2 DEF Settle, IInv, TypeOK, StartedTasks
  <1> QED BY <1>1, <1>2

LEMMA WorkerRefines ==
  ASSUME IInv, NEW w \in Worker, Works(w) \/ Disconnect(w) \/ AnswerLost(w)
  PROVE  Receipts!Next \/ UNCHANGED <<status, StartedTasks>>
  <1> DEFINE k == KeyOf(w)
  <1>0. /\ worker[w].pc \notin {"idle", "scan"} => k \in Key
        /\ worker[w].pc = "ended" => worker[w].result \in Outcomes /\ starts[k] = 1
    BY DEF IInv, Holds, HoldsOf, Counted, CountedWork, KeyOf
  <1>1. CASE Recover(w) \/ FailOrphan(w) \/ FinalizeTask(w) \/ Repair(w)
    <2>1. UNCHANGED starts /\ k \in Key
      BY <1>0, <1>1 DEF Recover, FailOrphan, FinalizeTask, Repair, At
    <2>2. \/ UNCHANGED status
          \/ Settle(k, "running", "interrupted") \/ Settle(k, "queued", "failed")
          \/ Settle(k, "running", worker[w].result) /\ worker[w].pc = "ended"
      BY <1>1 DEF Recover, FailOrphan, FinalizeTask, Repair, Recovered, Finalized, At
    <2> QED BY <1>0, <2>1, <2>2, SettleRefines DEF Active, Outcomes, StartedTasks
  <1>2. CASE StartTask(w) \/ (AnswerLost(w) /\ At(w, "locked"))
    <2>1. /\ k \in Key /\ status[k] = "queued" /\ starts[k] = 0
          /\ status' = [status EXCEPT ![k] = "running"]
      BY <1>0, <1>2 DEF StartTask, Begin, AnswerLost, Startable, At, IInv, Counted,
         CountedRows
    <2>2. StartedTasks' \in {StartedTasks, StartedTasks \cup {k}}
      BY <1>2, <2>1 DEF StartTask, AnswerLost, LoseConnection, StartedTasks, IInv, TypeOK
    <2>3. PICK j \in Key : j = k
      BY <2>1
    <2>4. Receipts!Taken(j)
      BY <2>1, <2>2, <2>3 DEF Receipts!Taken, Receipts!Becomes, StartedTasks
    <2> QED BY <2>4 DEF Receipts!Next
  <1>3. CASE AnswerLost(w) /\ At(w, "ended")
    <2>1. Settle(k, "running", worker[w].result) /\ UNCHANGED starts
      BY <1>3 DEF AnswerLost, LoseConnection, Finalized, At
    <2> QED BY <1>0, <1>3, <2>1, SettleRefines DEF Active, At
  <1>4. CASE Disconnect(w)
    BY <1>4 DEF Disconnect, LoseConnection, StartedTasks
  <1>5. CASE \/ Sweep(w) \/ TryTask(w) \/ SweepEnds(w) \/ LockSession(w)
             \/ StartRefused(w) \/ Heartbeat(w) \/ EndRun(w)
    BY <1>5 DEF Sweep, TryTask, SweepEnds, LockSession, StartRefused, Heartbeat, EndRun,
       rows, StartedTasks
  <1> QED BY <1>1, <1>2, <1>3, <1>4, <1>5 DEF Works, AnswerLost

LEMMA CallerRefines ==
  ASSUME IInv, NEW k \in Key, Submit(k) \/ Cancel(k)
  PROVE  Receipts!Next \/ UNCHANGED <<status, StartedTasks>>
  <1>1. CASE Submit(k)
    <2>1. ActiveTasks = {j \in Key : status[j] \in Receipts!Unfinished}
      BY DEF ActiveTasks, Active, Receipts!Unfinished
    <2>2. Cardinality({j \in Key : status[j] \in Receipts!Unfinished}) < TaskMaxActive
      BY <1>1, <2>1 DEF Submit, HasCapacity
    <2>3. \A S : Receipts!Cardinality(S) = Cardinality(S)
      BY DEF Receipts!Cardinality, Cardinality
    <2>4. Receipts!Admitted(k)
      BY <1>1, <2>2, <2>3 DEF Submit, Receipts!Admitted, Receipts!Becomes, StartedTasks
    <2> QED BY <2>4 DEF Receipts!Next
  <1>2. CASE Cancel(k)
    <2>1. Receipts!Ended(k)
      BY <1>2 DEF Cancel, Active, Receipts!Ended, Receipts!Unfinished, Receipts!Outcome,
         Receipts!Becomes, StartedTasks
    <2> QED BY <2>1 DEF Receipts!Next
  <1> QED BY <1>1, <1>2

\* Every step is one of the receipts that TaskReceipts promises, or none.
LEMMA StepsRefine ==
  IInv /\ [Next]_vars => [Receipts!Next]_<<status, StartedTasks>>
  <1> SUFFICES ASSUME IInv, [Next]_vars
               PROVE  Receipts!Next \/ UNCHANGED <<status, StartedTasks>>
    OBVIOUS
  <1>1. CASE \E s \in Session : DeleteSession(s) \/ CreateSession(s)
    BY <1>1 DEF DeleteSession, CreateSession, StartedTasks
  <1>2. CASE \E v \in Server : \/ Shutdown(v) \/ Exit(v) \/ Crash(v) \/ Restart(v)
                              \/ \E s \in Session : \/ DirectStart(v, s) \/ DirectEnds(v, s)
                                                   \/ DirectDisconnect(v, s)
    BY <1>2 DEF Shutdown, Exit, Crash, Restart, DirectStart, DirectEnds, DirectDisconnect,
       rows, StartedTasks
  <1>3. CASE UNCHANGED vars
    BY <1>3 DEF vars, rows, StartedTasks
  <1> QED BY <1>1, <1>2, <1>3, WorkerRefines, CallerRefines DEF Next

\* What docs/acp-durable-tasks.md promises to the sender of a task holds for
\* any number of servers, workers and faults: forward only, final outcomes,
\* no completion without an agent that ran, no more than the capacity.
THEOREM Refinement == Spec => ImplementsReceipts
  <1>1. Init => Receipts!Init
    BY DEF Init, Receipts!Init
  <1>2. StartedTasks = {k \in Key : starts[k] > 0}
    BY DEF StartedTasks
  <1> QED BY <1>1, Inductive, StepsRefine, PTL
          DEF Spec, ImplementsReceipts, Receipts!ReceiptSpec, StartedTasks
=============================================================================
