# A verification project for Overkill

Overkill is a coding agent: a Go program with a command line, a terminal and a
desktop interface, a server, a gateway to chat platforms, sub-agents, schedules
and a PostgreSQL database in which sessions, correspondence and unfinished work
survive. Most of its hundred and forty thousand lines talk to models, tools, files and
terminals. Its own hard logic is where several processes share the database: who
executes a message, who continues a session, who delivers an event, and what
remains of it after a crash. Those protocols are modelled here in TLA+, checked
with TLC and, where the prover reaches, proved with TLAPS.

Sections: [inventory](#1-inventory), [what is modelled](#2-modules),
[runs](#3-runs), [proofs](#4-proofs), [disagreements found](#5-disagreements-between-code-and-documentation),
[not modelled](#6-what-is-not-modelled), [plan](#7-plan).

To check a run or the proofs, in this directory:

    tlc -workers 2 -config MCLifecycle.cfg MCCoordMessages
    tlapm CoordMessagesSafetyProofs.tla

## 1. Inventory

Sizes are lines of Go without tests (Python for the bridges). "Hard" names what a
test of the package would hardly reach.

### Coordination (`internal/coordination`, 6300)

Peers of a project exchange durable messages (requests, answers, notices), agree
on contracts, delegate, depend on each other's work and execute it, either by a
dispatcher that starts an agent per request or by hand through an MCP ingress.

| part | state | operations | interacts with |
|---|---|---|---|
| message store (`store.go`, `lifecycle.go`, `lease.go`, `execution.go`, `external.go`, `dependencies.go`, `budgets.go`, `request_contracts.go`, `escalation.go`) | `coordination_messages`, `_leases`, `_cursors`, `_events`, `_escalations` | Send, Reply, Claim, Transition, AcquireLease, RenewLease, ReleaseLease, CompleteLease, ReconcileExecutionContracts, RecoverExternal, ReviewRequest | contracts (gates), usage (admission), dispatcher, ingress |
| dispatcher (`dispatcher.go`, `api/coordination_dispatch.go`) | a loop and a pool of goroutines, at most one per peer; no table of its own | scan, acquire, reserve, claim, heartbeat, lease timer, reconcile, finalise | message store, session admission, agent runtime |
| contracts (`contracts.go`, `contract_readiness.go`, `contract_guards.go`) | contracts, revisions, owned paths, dependencies, acknowledgements; the project's advisory lock while an effect is written | create, update, delete, acknowledge, readiness, guarded effects | message store, which reads readiness at every gate; tools that write files |
| usage (`usage.go`, `usage_reconciliation.go`, `request_review.go`, `api/coordination_usage.go`) | one row of totals, limit and reason for review per task; an open or finished journal per execution; samples; attestations | begin, check, record, finish, read evidence, reconcile, review | every model call of an execution; leases, which fence it; the message store's review |
| callbacks (`callback_store.go`, `callback_worker.go`) | subscriptions, deliveries | subscribe, cancel, rotate, retry, claim, post, finish | events of the store, a remote receiver |
| peers and transports (`local_peers.go`, `session_transport.go`, MCP and A2A adapters) | peers, credentials | register, disable, authenticate | everything above |

*Hard.* Claim, resume, review, recovery and expiry each test a different set of
rows; a lease outlives its owner; a reply races the worker's completion; refusals
are committed although the call returns an error; agreements change while work
that needs them runs, and while a file is written under them; a chain of revisions
could close a cycle; prerequisites span queues; correlated answers bypass the
queue limits; a dispatcher crashes, stalls or is stopped in any phase; peers spend from
one budget while its owner attests, from evidence read earlier, what a lost worker may
have spent; a webhook is accepted but its answer is lost, or its key is
rotated, or its subscription cancelled, while it is in flight.

*Correct when.* A peer has one execution; work belongs to a live owner or to
nobody; an answer is final; executions, delegation and queues are bounded; nothing
completes without its agreements; prerequisites cannot deadlock; what ran is not run
again without a review, and what may run does; contracts form a resolvable graph
without cycles, no two reserve one path, and a superseded agreement never comes back;
a call whose usage nobody recorded is never forgotten, and a limit is passed by no more
than the calls under way;
each event is delivered in order at least once, or stops visibly.

### Durable continuations (`agent/flow*.go`, `api/flow_resume.go`, `api/session_admission.go`, `api/handlers.go`)

A turn that exhausts its steps or its deadline saves a checkpoint; a scheduler in
any process that runs one continues it later. State: `flow_states`,
`flow_resume_jobs`, `flow_resume_owners` (the stop epoch), advisory locks, the
session's transcript; in memory, the latches of stops and the turn in flight.
Operations: BeginHumanTurn, Save, Due, Claim, DeferBusy, Finish, PauseSession,
PauseAll, Wake.

*Hard.* Several processes, each with memory the others do not see; stops arrive
between any two statements; a process dies with tool effects made; the connection
that holds an advisory lock drops.

*Correct when.* One turn at a time; a stop supersedes what was queued and fences
what was running; a checkpoint's tool effects are never replayed by a machine; the
number of automatic continuations is bounded; queued work ends or reaches a human.

### Durable tasks of external callers (`acp/task_store.go`, `acp/task_server.go`, 880, and part of `acp/server.go`)

Another program submits a task and polls its receipt; any server on the database
executes it. State: `acp_tasks`, whose session reference is cleared when the session
is deleted; three kinds of advisory locks (slot, task, session) on one connection per
worker; each server's workers. Operations: Submit, Cancel, the workers' sweep,
recovery, start, heartbeat, finalisation and its repair on a new connection, direct
messages under the same session locks, Shutdown.

*Hard.* Candidates are read before any lock is taken; a connection drops, and its
locks with it, while the agent runs on; the answer to a committed start or outcome is
lost; a task is cancelled, or its session deleted, during its run.

*Correct when.* An agent is started at most once per task; executions of a session
exclude each other; a live owner's work is not stolen; a receipt moves forward and its
outcome is final; every task ends.

### The rest

| part | lines | state and operations | how it meets the parts above |
|---|---|---|---|
| agent loop (`agent`) | 16600 | transcript, tool calls, budgets; one turn at a time | raises checkpoints, is cancelled by stops |
| server, sessions (`api`, `session`, `web`, `localdb`, `daemon`) | 13400 | sessions, HTTP handlers | admission of turns, persistence, stop handlers |
| sub-agents, child processes (`subagent`, `childruntime`, `speculative`, `worktree`, `tasks`) | 5700 | trees of children, worktrees, task rows | executions of the dispatcher are children |
| gateway, bridges, automation (`gateway`, `slack`, `bridge`, `automation`, `cron`, `hooks`) | 16300 | connections, schedules | start turns |
| memory and learning (`memory`, `journal`, `learning`, `compaction`, `personality`, `playbooks`, `drift`) | 14100 | append-only stores, summaries | read by the loop |
| configuration, security (`config`, `security`, `walls`, `credit`, `settings`) | 9500 | files, policies, credentials | read everywhere |
| interfaces, protocols (`cmd/overkill`, `tui`, the rest of `acp`, `mcp`, `lsp`, `browser`, `plugin`, desktop) | 28600 | screens, sockets | start and stop turns |
| synchronisation, checkpoints, cost (`sync`, `checkpoint`, `cost`, `hotreload`) | 3100 | file snapshots, totals, prices | beside the loop |
| tools and providers (`tools`, `providers`) | 16900 | files, shells, remote models | called by the loop |

These are mostly sequential programs over input and output; section 6 says why
each is left out. `PROJECT.json` lists every component with its sources and every
hazard at its line; for a component of whole directories it names the largest files.

## 2. Modules

    specification        instance           implements            proofs
    -------------        --------           ----------            ------
    CoordMessages        MCCoordMessages                          CoordMessagesProofs,
                                                                  CoordMessagesSafetyProofs
    CoordContracts       MCCoordContracts   Agreements            CoordContractsProofs
    CoordDispatcher      MCCoordDispatcher                        CoordDispatcherProofs
    CoordUsage           MCCoordUsage       UsageBudget           CoordUsageProofs
    FlowQueue            MCFlowQueue                              FlowQueueProofs
    Callbacks            MCCallbacks        CallbackFeed          CallbacksProofs
    AcpTasks             MCAcpTasks         TaskReceipts          AcpTasksProofs

`CoordMessages` takes the contracts from `Agreements`, of which `CoordContracts` is the
implementation; `CoordDispatcher` and `CoordUsage` work on reduced forms of the store of
`CoordMessages`.

`MC...` modules only name the constants of small instances. The definitions
commented `mutant` are not part of the specifications: each is the definition after
it with a plausible mistake, which the run of the property it is listed with
(`mutants` in `PROJECT.json`) must reject. No module declares a RECURSIVE operator.

### CoordMessages

The rows of one project's messages and leases.

*One action is one committed transaction.* Every transaction takes the project's
admission lock (`pg_advisory_xact_lock`) and the row of the acting peer `FOR
UPDATE`, or only the latter for leases, before it reads; so transactions that could
meet are serialised by the code itself and the interleavings are those of whole
transactions, called by anybody in any order. A transaction that returns an error
is rolled back and is no step, except where the code commits the refusal on
purpose: `SendRefused`, `SendInvalidates`, `TransitionInvalidates`,
`ExecutionInvalidated`, `ResumeExhausted` and `AcquireRecovers` are those cases. A
retry with the same idempotency key changes nothing and is a stutter; so is
RenewLease, since a lease is live or not.

| state | code |
|---|---|
| `enabled` | `coordination_peers.enabled` |
| `env[m]` | immutable columns: sender, recipient, kind, reply, causal parent, depth, conversation, prerequisites, required agreements |
| `state`, `revision`, `attempts` | the columns of those names (`execution_attempts`) |
| `lease[p]` | the row of `coordination_leases`: its owner, and whether `expires_at` is to come |
| `cursor`, `escalations` | the project's event sequence; open escalations |
| `overdue` | deadlines that have passed |
| `agreed`, `stale` | the contracts as messages see them, from `Agreements`: for whom a pinned revision is ready, and which pins are superseded for good |
| `runner` | ghost: who started the current execution |

| actions | code |
|---|---|
| `Send` (`SendAccepted`, `SendRefused`, `SendInvalidates`) | Send, Reply, ExternalSend: `sendTx`, `checkAdmission`, `deriveLineage`, `inheritRequestContracts` |
| `Claim` (`ClaimStarts`, `ClaimNothing`) | ClaimLease, ExternalClaim: `claim`, `claimContractReady` |
| `Cancel`, `Progress`, `Report`, `Resume`, `ResumeExhausted`, `TransitionInvalidates` | Transition, WorkerTransition, ExternalTransition |
| `CompleteLease`, `ExecutionInvalidated` | CompleteLease, ReconcileExecutionContracts |
| `AcquireLease`, `AcquireRecovers`, `ReleaseLease`, `LeaseExpires`, `RecoverExternal` | the functions of `lease.go` and `external.go`; expiry is time |
| `ReviewRequest` | review by the owner of the usage scope |
| `DisablePeer`, `DeadlineElapses` | administration (which withdraws the peer's agreements) and the clock |
| `AgreementsChange` | any step of the contracts that `Agreements` allows |

A claim is the densest transaction: it first fails the overdue and the hopeless
(repeatedly, since the failure of one message makes its dependents hopeless), then
walks the queue in order, failing work whose agreement is stale on the way, up to
the first message whose prerequisites and agreements hold, and starts it.

Abstracted: message bodies, idempotency keys, artifacts, page limits (100 messages,
64 ancestors, 128 rows of recovery are never reached in these bounds; the depth
limit keeps chains far below 64), the contents of events, and usage, which decides
here nothing (a review may be granted at any time; `CoordUsage` has its condition). Production calls Transition for
a worker only with `failed` and `blocked`, through WorkerTransition, and that is
what `Report` allows it. ExternalSend's own refusal while a lease row exists is a
subset of the sends allowed here. What messages assume of contracts is only that a
stale pin stays stale and that nobody agrees to one; `CoordContracts` is shown to keep
it, so its details need not be multiplied with those of the correspondence. A pin that
was superseded itself is refused by a send, one that rests on a superseded contract is
not; `stale` holds both, so a send with a stale pin is allowed. The claim's check of the attempt limit is
unreachable: that is the invariant `AcceptedMayRun`, which is proved.

### Agreements and CoordContracts

`Agreements` is the interface between contracts and correspondence: two sets,
`agreed` (peer and pin) and `stale`, of which the second only grows and never meets
the first. `CoordMessages` takes any of its steps at any time; `CoordContracts`
implements it under the mapping

    stale  <- pins that existed, and that readiness now reports as stale
    agreed <- peer and current pin for which readiness finds no blocker

| state | code |
|---|---|
| `enabled` | `coordination_peers.enabled` |
| `contract[c]` | the row of `coordination_contracts` with its paths and dependencies |
| `acks[c]` | acknowledgements of the current revision (those of earlier ones count for nothing) |
| `guard` | who writes files under the project's lock, to which paths, admitted under which pins |
| `published` | rows of `coordination_contract_revisions` ever written, the bound of the model |

| actions | code |
|---|---|
| `CreateContract`, `UpdateContract`, `DeleteContract`, `AcknowledgeContract` | the functions of those names in `contracts.go`, with `checkContractPaths` and `checkContractDependencies` |
| `BeginEffect`, `EndEffect` | WithOwnedPaths, WithUnrestrictedWorkspace: the checks, then the effect under the lock |
| `DisablePeer` | administration |

Every transaction takes the project's lock before its first read, so an action is a
transaction. `Reachable` translates the recursive query as the least set closed under
dependencies, which an inductive proof can use. Readiness is an operator: it is
recomputed at every gate from the rows. Names, schemas, endpoints and compatibility
texts are data of a revision; paths are a set with an order (a directory and what it
contains); symbolic links and case are the file system's. When the connection of a
guard drops the lock is free although the effect goes on: then nothing is claimed.

### CoordDispatcher

The processes that run what `CoordMessages` stores: one dispatcher per server, its
loop, and its pool of executions, at most one per peer. An execution is a program
counter: `acquire`, `reserve`, `claim`, `running`, `ended`, `settle`, `finished`. A step
is one transaction or what the goroutines do between two.

| actions | code |
|---|---|
| `Scan`, `Finished`, `Stop`, `RunReturns` | the loop of Run, DispatchBindings, the pool and its end |
| `AcquireLease`, `AcquireRecovers`, `AcquireBusy` | AcquireLease: a lease, the recovery of interrupted work, or refusal |
| `Reserve`, `ReserveBusy` | the executor's reservation of the peer's session |
| `ClaimLease`, `ClaimNothing`, `ClaimFails`, `ClaimLost` | ClaimLease and its outcomes, a lost answer among them |
| `LeaseLost`, `HeartbeatReads`, `AgentReplies`, `EndRun` | the heartbeat, the lease timer, the agent's explicit answer, the end of the run |
| `Reconcile`, `ReconcileInvalidates`, `Settle`, `LeaveWork` | ReconcileExecutionContracts, CompleteLease or failExecution, and what is left to recovery |
| `Send`, `Cancel`, `Review`, `HumanTurn`, `HumanTurnEnds` | senders, reviewers and people at the sessions |
| `LeaseExpires`, `Crash`, `Restart` | time and failure |

Its store is that of `CoordMessages` reduced to status and lease: attempts are left out
(`Review` is bounded instead), agreements may be lost at any gate, and the manual
ingress, which runs only where no lease exists, is left to `CoordMessages`. The
deferred calls of an execution are one step with its last statement.

### UsageBudget and CoordUsage

`UsageBudget` is what a task's budget promises its owner: with a limit in force, a call
is admitted only while less than the limit is charged, nothing reported is in doubt and
no execution that can no longer report has made a call of which nobody knows the usage;
what is charged never shrinks; only executions that can no longer report are attested;
and the limit changes only when no call is under way and nothing is owed. `CoordUsage`
implements it under the mapping

    limit, charged  <- token_limit, input_tokens + output_tokens
    attested        <- coordination_usage_run_resolutions
    calling         <- how many calls of each execution are between check and record
    lost            <- executions with a call whose record failed
    doubtful        <- executions with unresolved samples of incomplete usage
    fenced          <- executions that began and hold no live lease of an enabled peer

| state | code |
|---|---|
| `enabled`, `message`, `lease` | the columns of the store that usage reads, for the messages of one task |
| `run[e]` | one execution of a message: `claimed`, `working`, `closing`, `over`; `calls` counts its model calls under way, `incomplete` is `incompleteUsage` |
| `journal[e]`, `resolved` | `coordination_usage_runs` and its resolutions |
| `samples[e]`, `doubts` | how many samples an execution has, and which of them are unknown and unresolved |
| `reported[m]`, `replaced[m]` | the sum of a message's samples, and of the deltas of its attestations |
| `usage` | the row of `coordination_task_usage`; `flagged` is a non-empty `review_reason` |
| `seen[m]`, `fresh` | the unfinished runs in the evidence last read of a message; whether its revisions and its fingerprint are still those |

| actions | code |
|---|---|
| `SendRoot`, `SendChild`, `Reply`, `End`, `DisablePeer` | `sendTx` with `ensureUsage` and the limits of SendWithBudget; replies; the end of a message |
| `Claim`, `BeginTaskUsage`, `CallAdmitted`, `CallRefused`, `RecordTaskUsage`, `RecordFails`, `FinishTaskUsage`, `Abandon`, `Settle` | an execution: `coordinationExecution.Run`, the accounting around each model call, `updateTaskUsage`, `taskUsageRun`, the dispatcher's end |
| `Crash`, `LeaseExpires`, `Recover` | failure, time, and AcquireLease after them |
| `ReviewRequest`, `ReadEvidence`, `ReconcileTaskUsage` | the owner of the budget |

Every transaction takes the project's admission lock first, so an action is a
transaction. An execution is named by its message and attempt, for the dispatcher takes
a fresh owner name for each. One quantity stands for tokens and cost, which are counted
and limited alike: a sample is complete, or what is recorded of it is less than what was
used (not reported, or without a known price). A write may fail, or commit and still be
reported as failed. Evidence is read by anyone concerned and attested later: an
attestation needs the message's revision, the row's revision and the fingerprint of the
journal to be those of the evidence, which is what `fresh` says. Receipts of repeated
calls, the pages of evidence, and the `external_record` basis, which may lower an
estimated cost, are left out.

An execution makes several calls at the same time when its agent delegates a batch:
`SpawnBatch` runs up to `MaxChildren` agents on contexts made from the execution's own
(`subagent/manager.go:389-417`, `518-541`), so all of them check and record for the same
message and lease, and the check reserves nothing. `MaxCalls` is that bound; the agent
itself is in the tool call meanwhile. The batch is waited for, so that an execution ends,
certifies its journal or sends a message only without a call under way (`Alone`); the
children have file tools only. They share the flag and the journal. The variable
`abreast` is history: how many calls were under way when the last one was admitted.
The delegation of `SendChild` goes to anyone but those who wait for the sender: the full
test of cycles is in `CoordMessages`.

### FlowQueue

One session, its flows, and several processes. A turn is a small program
counter: `begin` (admitted), then for a human turn `paused`, `read`, `running`,
for a continuation `leased`, `running`; a checkpoint goes through `saving`; both
end through `ended` and, for a continuation, `finishing`. A step is one database
transaction or one stretch of code between two of them, so everything another
process can do in between is explored.

| actions | code |
|---|---|
| `HumanTurn`, `Resume` (`Admit`), `Leave` | `beginSessionOperation`, `TrySessionOperation` and their release |
| `HumanPauses`, `HumanReads`, `HumanUnlatches`, `HumanFails` | BeginHumanTurn: PauseSession, BeginTurn, the latch |
| `DeferBusy`, `ClaimRefused`, `ClaimEnds`, `ClaimRuns` | the scheduler's tick and Claim |
| `Continue`, `ContinueRefused` | the continuation worker's checks of transcript, workspace and runtime |
| `Checkpoint`, `SaveCommits`, `SaveFails` | CheckpointFlow, Save |
| `Ends`, `Persists`, `PersistFails` | the end of the loop, `saveSessionState` |
| `FinishCommits`, `FinishFails` | Finish and the release of the flow's lock |
| `Abort`, `AbortCommits`, `AbortFails` | the session stop and the emergency stop, before and after their transaction |
| `Due`, `Crash`, `Restart`, `LosesConnection` | time and failure |

`Finish`, `Close` and the release of the admission are one step, because nothing of
the session can happen between them that a later order would not also allow. The
worker's name in a job is its process. The list of due jobs that a scheduler read a
tick ago is harmless, since Claim reads the job again. Claim's verdict on a missing
or unreadable checkpoint (`manual_review`) is left out: `PendingIsCurrent` shows that
a queued job has its checkpoint, so only damage from outside reaches that verdict.
The checkpoint command on the daemon's socket is left out.

### CallbackFeed and Callbacks

`CallbackFeed` is what a subscription promises a receiver: the events of its peer in
order, each at least once, the position moving over an event only when the receiver
has accepted exactly that event under the key in force, while the subscription is
open. `Callbacks` is the implementation: subscriptions, deliveries with lease,
backoff and attempt count, the worker's claim, check, post and finish, and the
owner's subscribe, cancel, rotate and retry. It implements the feed under the
mapping

    open     <- active subscriptions of enabled peers
    position <- cursor
    accepted <- events accepted with the current key generation

Which subscriptions exist is the set `subscribed`, and the order of their last
attempt, in which they are served, the relation `before`: no bound on their number is
built in, so that the proofs hold for any.

Claim is one action: it runs several statements, but its last UPDATE tests state
and lease again under the row lock, so of two claims on one snapshot the second
fails as if it had not begun. RetryCallback is two actions, since its test of the
subscription takes no lock. A worker's uuid per start is its name: a worker that
comes back finds its old lease or none. Bodies, signatures and transport are
outcomes: accepted, refused for good, failed for now, or interrupted by shutdown.
Event numbers commit in
order, because the project's cursor row is locked by the transaction that appends.

### TaskReceipts and AcpTasks

`TaskReceipts` is what the sender of a durable task is promised
(`docs/acp-durable-tasks.md`): a receipt moves forward, its outcome is final, work is
taken once, only work that was started completes, and the number of unfinished
receipts is bounded. `AcpTasks` implements it with the status column as the receipt.

| state | code |
|---|---|
| `status`, `bound`, `sessions` | `acp_tasks.status`; tasks whose `session_ref` is set; the sessions |
| `slotLock`, `taskLock`, `sessionLock` | the advisory locks and whose connection holds them |
| `server`, `worker`, `direct` | servers; each worker's phase, task and context; running direct messages |
| `starts` | ghost: how often an agent was started for a task |

| actions | code |
|---|---|
| `Submit`, `Cancel`, `DeleteSession`, `CreateSession` | callers |
| `Sweep`, `TryTask`, `SweepEnds` | `taskSweep`: the candidates, then one task after the other |
| `Recover`, `FailOrphan`, `LockSession`, `StartTask`, `StartRefused` | `processTask` up to the start |
| `Heartbeat`, `EndRun`, `FinalizeTask`, `Repair` | the run, its outcome, `interruptUnownedTask` |
| `DirectStart`, `DirectEnds`, `DirectDisconnect` | `handleMessages` under the session's lock |
| `Shutdown`, `Exit`, `Crash`, `Restart`, `Disconnect`, `AnswerLost` | servers and faults |

A lost connection frees its locks at once, while the worker finds out by its next
statement or heartbeat: in between, somebody else may hold them. A task is named by
its idempotency key; a second submission returns the receipt and changes nothing.
Locks that the database keeps for a connection its client has given up are left out.

## 3. Runs

Every number is a bound in a guard; the code's own limits are constants too and are
made small where reaching them is the point. All state spaces are explored
completely. Deadlock checking is off throughout: an idle queue, a session nobody
uses and a feed without events may rest for ever, and a bound that is used up stops
the model where the system would go on.

| run | question | bounds | states |
|---|---|---|---|
| `lifecycle` | does one queue keep one execution, its owner, its attempts and its history under every interleaving of claim, report, resume, review, completion, expiry, recovery and loss of agreement? | 2 messages, 2 lease owners and the manual ingress, 1 agreement, 1 deadline, 1 peer disabled, 7 events, 2 attempts | 633 k |
| `correspondence` | is there one answer per request, is a full queue exceeded only by the answers owed, do chains of delegation end, can prerequisites block everybody, and can a claim run ahead of them? | 3 messages along a ring of 3 peers with answers, 2 prerequisites each, queue of 2, 5 events; one peer worked, one operated by hand | 327 k |
| `early_start` | do manual operations respect prerequisites? (violated) | 2 messages, 1 agreement | |
| `continuations` | do saves, claims, stops and turns of two processes keep pending work current, exclusive, bounded and executed once? | 2 processes, 2 flows, 2 checkpoints each, 2 epochs, 1 crash, 1 lost connection | 1.58 M |
| `settling` | does every pending continuation end or reach a human? | 2 processes, 1 flow, 1 crash | 93 k |
| `late_stop` | does a stop fence every operation in flight? (violated) | 2 processes, 1 flow, 3 checkpoints | |
| `callback_feed` | do deliveries implement the feed, and is every pending event settled? | 1 subscription, 2 workers, 2 events, 2 keys, 2 attempts, 1 fault | 956 k |
| `durable_tasks` | do receipts, exclusion and ownership survive everything a server or connection can do, and does every task end? | 2 servers with a worker each, 2 tasks of one session, direct messages, 1 fault | 123 k |
| `dispatch` | is interrupted work replayed only after a review, a live owner left alone, a stop clean, and does work settle? | 2 dispatchers with a pool of 1, 1 peer, 2 requests of which the older needs the younger, 1 fault, 1 review | 229 k |
| `dispatch_starves` | is ready work served whatever else waits? (violated) | 1 dispatcher with a pool of 1, 2 peers | |
| `agreements` | do contracts stay acyclic, resolvable and disjoint, do effects keep what they were admitted under, and are agreements what messages assume? | 3 contracts, 2 peers, 4 revisions in all, a directory and a file in it | 465 k |
| `usage` | is usage ever lost silently, do the shared row and its evidence agree, is a limit overrun by more than the calls under way, does an attestation vouch for what nobody saw? | 3 peers, 2 messages of one task (requests and replies), 2 executions, 2 calls in all that may be one execution's at the same time, a limit of 0 or 1, calls of 1, 1 fault | 657 k |

**Why these bounds are enough to meet the cases.** Two messages and two owners are
what a wrong second start, a stale owner and an overtaking need; seven events let a
message be claimed, lose its lease, be recovered, reviewed, claimed by the other
owner, lost and closed, with one event left for the second message to interfere; the attempt limit of two is
reached. Three messages are the shortest chain of prerequisites with a
choice and the shortest conversation with a request, its answer and a competing
answer; a queue of two is full with a third message on its way. Three peers are the
shortest ring. Two generations and one crash show a checkpoint replaced and an execution
left behind; two epochs show a turn and the stop that overtakes it. Two events, two
keys and one fault show an event behind another, an acceptance under an old key and
an attempt that outlives its lease. Two tasks of one session and two servers are what
a stolen task and a shared session need, and one fault of each kind is met in every
phase of a run. Two dispatchers of one peer show a lease taken over in every phase. A cycle of
three contracts is the shortest that a test of direct dependencies would miss; it takes
three contracts and a fourth publication that closes it. In `agreements` a
specification names dependencies or at most one path, not both, and an effect at most
one pin and one path; the two checks read nothing in common. In `usage` a limit of one
is used up by one call, so that the other call under way is the overrun, be it a second
peer's or the same execution's; one fault
is a lost lease, a crash, a failed or unconfirmed write or a disabled peer, and the
second execution may be of the same message, after a review, or of another peer. (With
notices besides, 1.8 million states, or with three calls, 2.1 million, the run passes as
well.) The proofs of section 4
have none of these bounds. That each of these cases occurs is shown by the
mutants: every property of a passing run is violated, under the run's own bounds,
when one definition is changed as listed.

**Symmetry.** `lifecycle` permutes lease owners; `continuations` permutes processes,
which all run a scheduler there, and flows; `usage` permutes peers and messages; `agreements` permutes contracts and peers,
which are related by no constant but the symmetric overlap of their workspaces. No
constant, initial state or property names one of them, and these runs check invariants
and properties of steps only. Runs
with liveness use no symmetry.

**What the properties say.**

- `AtMostOneStarted`, `WorkOwnership`: one execution per peer, and never one whose
  lease belongs to somebody else. After expiry the row keeps its owner until the next
  owner, which must first block what it left; the manual ingress acts only when there
  is no row at all.
- `AnswerIsFinal`: the request of every answer is completed and has no other answer.
- `AcceptedMayRun`: attempts are counted at the start, and nothing puts exhausted work
  back into the queue.
- `CompletionNeedsAgreement`: no path completes work whose agreements do not hold.
- `StatusMovesForward`: what is decided stays, and each change of state is one revision,
  also when a claim changes many rows.
- `NoDependencyDeadlock`: with nobody busy and no agreement missing, some peer's
  next claim makes progress. Prerequisites are older than their dependents, and a
  hopeless message is failed by the claim of its own recipient.
- `QueueBounded`, `DepthBelowPeers`: the limits hold where they can be bypassed, by
  correlated answers and by chains that pass through replies and notices.
- `PendingIsCurrent`, `StopFencesTurns`: what waits or runs is of the current epoch; a
  turn that had read its epoch cannot queue after a stop.
- `CheckpointKept`: the late end of an execution deletes no checkpoint it does not own.
- `OneTurn`, `ResumesBounded`: claimed until a connection is lost, because an advisory
  lock lives no longer than its connection and the turn does not notice the loss.
  `ExecutedOnce` and the others hold beyond it.
- `PendingSettles`: liveness of the queue, see below.
- `ImplementsFeed`: refinement of the abstract feed. `HeadOfLine`: a dead letter or a
  backoff holds what is behind it, and the claim always finds its next event leasable.
  `AttemptsBounded` (Callbacks): at most `MaxAttempts` posts between two manual retries.
- `EventsSettle`: every pending event of an open subscription is acknowledged, or stops
  at a dead letter, whatever crashed or stalled in an attempt at it.
- `RunsOnce`, `SessionExclusive`, `LiveOwnerKept`, `ImplementsReceipts`, `TasksSettle`:
  the promises of `docs/acp-durable-tasks.md` under faults. Exclusion is claimed of
  executions that still have their connection; the others are about to be cancelled.
- `NoReplay`: as many executions as the first and one per review a person granted.
  `OwnerDecides`: nobody but the sender's cancellation ends work under a live lease.
  `CleanStop`: unless something failed, a stopped dispatcher leaves no lease, no
  reservation and no started message. `WorkSettles`: what may be claimed is claimed or
  ends, and started work ends or waits for a review.
- `Acyclic`, `Resolvable`, `ReservationsDisjoint`: what the checks of one publication
  amount to over any sequence of publications, revisions and deletions.
- `GuardedEffects`: an effect keeps its agreements, its reservations and its enabled
  peer for as long as its guard stands.
- `ImplementsAgreements`: stale for ever, never agreed to. The interesting step is a
  revision deep in the tree of a pin.
- `NoSilentSpend`: an execution with a call that nobody recorded has an open journal, and
  keeps it. `AttestedOnEvidence`: no attestation resolves an execution that began after
  the evidence was read.
- `Accounted`: the shared row equals the samples and the deltas of attestations, in any
  order of both, and counts the samples still in doubt.
- `OverrunBounded`: what was reported exceeds a limit by less than what the calls may
  cost that were under way when the last one was admitted, those still under way not
  counted; how many they are is bounded by nothing but peers and their children (with a
  limit of 1, three children of one execution may report 3). `ImplementsBudget`: refinement of the promised budget.

The type invariants, which every module has, are theorems (section 4) and are not
repeated in the runs; nor is the bound on attempts of CoordMessages, proved as
`BoundedAttempts`.

**Fairness.** *FlowQueue:* weak fairness of the steps of a turn (an execution is cut
off after five minutes, the rest are statements), of time passing (`Due`), and strong
fairness of a scheduler's admission and of a claim that has something to decide: an
attempt takes milliseconds of a tick of one second and a busy job waits a whole tick,
so two schedulers do not keep colliding for ever. Nothing makes a human act, a stop
arrive or a crashed process return. `PendingSettles` therefore assumes that people
eventually leave the session alone and that some scheduler stays up without a latch.
*Callbacks:* weak fairness of each worker, of backoff and of lease expiry; the
premise is that a worker eventually stays up. The receiver is not assumed to accept.
*AcpTasks:* weak fairness of each worker (it polls every 150 ms, its heartbeat beats
every 200 ms, a run ends after fifteen minutes at the latest) and of the end of direct
messages. Nobody need submit, cancel, stop or restart; `TasksSettle` assumes that a
server with a worker eventually stays up and that direct messages eventually leave the
session to the tasks. *CoordDispatcher:* weak fairness of the loop (a tick of 250 ms),
of executions (deadlines, a heartbeat every third of the lease) and of the expiry of
leases that nobody holds any more. `Quiet`, the premise of its liveness properties,
says that some dispatcher eventually stays up and that people eventually leave the
sessions. Reviews are not fair: work that waits for one has settled.
`CoordMessages`, `CoordContracts` and `CoordUsage` have no liveness property: who calls
them is the dispatcher, or a person.

## 4. Proofs

For every value of the constants allowed by the named assumptions (any limits, and sets
of owners, processes, flows, subscriptions, tasks and contracts of any size, finite or
not; the peers of CoordMessages and the messages of a budget, which are counted and
summed, are finite and as many as one likes):

| module | theorem | says |
|---|---|---|
| CoordMessagesProofs | `TypeCorrect` | `[]TypeOK` |
| CoordMessagesSafetyProofs | `OneExecution` | `[]AtMostOneStarted` |
| | `Ownership` | `[]WorkOwnership` |
| | `OneAnswer` | `[]AnswerIsFinal` |
| | `BoundedAttempts` | `[]AttemptsBounded` |
| | `QueuedMayRun` | `[]AcceptedMayRun` |
| | `BoundedQueues` | `[]QueueBounded` |
| | `BoundedDepth` | `[]DepthBelowPeers` |
| | `DependenciesLive` | `[]NoDependencyDeadlock` |
| | `PrerequisitesFirst` | what requires no contract runs after its prerequisites |
| | `PrerequisitesWithoutContracts` | `[]RunsAfterPrerequisites`, if there are no contracts |
| | `ForwardOnly` | `StatusMovesForward` |
| | `AgreedCompletion` | `CompletionNeedsAgreement` |
| CoordContractsProofs | `TypesKept` | `[]TypeOK` |
| | `NoCycles` | `[]Acyclic` |
| | `PinsResolve` | `[]Resolvable` |
| | `OwnersDisjoint` | `[]ReservationsDisjoint` |
| | `EffectsKeepGuard` | `[]GuardedEffects` |
| | `KeepsAgreements` | the refinement `ImplementsAgreements` |
| CoordDispatcherProofs | `TypesKept` | `[]TypeOK` |
| | `ReplayNeedsReview` | `[]NoReplay` |
| | `Owners` | `OwnerDecides` |
| | `StopsClean` | `[]CleanStop` |
| CoordUsageProofs | `TypesKept` | `[]TypeOK` |
| | `SpendLeavesTrace` | `[]NoSilentSpend` |
| | `EvidenceFirst` | `AttestedOnEvidence` |
| | `Accounts` | `[]Accounted` |
| | `OverrunIsBounded` | `[]OverrunBounded` |
| | `KeepsTheBudget` | the refinement `ImplementsBudget` |
| FlowQueueProofs | `FlowTypes` | `[]TypeOK` |
| | `CurrentContinuations` | `[]PendingIsCurrent` |
| | `KeptCheckpoints` | `[]CheckpointKept` |
| | `StopsFence` | `StopFencesTurns` |
| | `Exclusion` | `[]OneTurn` |
| | `BoundedResumes` | `[]ResumesBounded` |
| | `ContinuedOnce` | `ExecutedOnce` |
| CallbacksProofs | `TypesKept` | `[]TypeOK` |
| | `BoundedAttempts` | `[]AttemptsBounded` |
| | `HeadFirst` | `[]HeadOfLine` |
| | `KeepsTheFeed` | the refinement `ImplementsFeed` |
| AcpTasksProofs | `TypesKept` | `[]TypeOK` |
| | `StartedOnce` | `[]RunsOnce` |
| | `ExclusiveSessions` | `[]SessionExclusive` |
| | `LiveOwners` | `LiveOwnerKept` |
| | `Refinement` | the refinement `ImplementsReceipts` |

**CoordMessages.** `CoordMessagesProofs` proves the type invariant action by action
on lemmas about the three writers of the model (`Update`, `Accept`,
`RejectByContracts`). The safety invariants are not inductive one by one: that an
answered request stays completed needs that transitions leave terminal rows alone,
and that ownership survives a claim needs that nothing else was started. The inductive
invariant is

    Safe == TypeOK /\ AnswerIsFinal /\ AtMostOneStarted /\ WorkOwnership
            /\ AttemptsWithin /\ AttemptsBounded /\ Unborn /\ AcceptedMayRun
            /\ Lineage /\ Waited /\ QueueBounded /\ Spread

where `AttemptsWithin` bounds the attempts of messages that do not exist yet, too,
`Unborn` says that these have none, `Lineage` that causes and prerequisites are older
messages, `Waited` that what was begun without required agreements has completed
prerequisites, and `Spread` that a message's depth is below the number of peers in its
causal chain. Rather than prove twelve conjuncts for twenty actions, the proof first
classifies steps.
Lemma `StepEvolves` shows of every action that: messages and their columns persist; a
status changes forward only and with its revision; what completes has its agreement;
what returns to a queue has an attempt left;
a new message refers to earlier ones, fits into its queue or is the first answer to a
request of its recipient, and a request goes to a peer its chain has not reached
(`Arrives`); what is begun has its prerequisites or requires an agreement (`Gated`);
a lease changes hands only when no work is started; a new answer completes its request
and finds it unanswered; and either no message starts, or exactly one does, on a peer
where nothing was started, by a caller that may work, with an attempt left. The
conjuncts of `Safe` follow from these clauses alone, and the two action properties are
clauses of it. `AgreedCompletion` covers messages of every kind, completed by a
worker, by hand or by an explicit reply, where the run has only requests.

Three of the conjuncts are about numbers or chains of any length. A queue (lemma
`QueueStep`) grows past its limit only by a first answer, which at the same step enters
the set of answered requests that `QueueBounded` allows for; cardinalities change by one
element at a time. The causal chain (`Ancestors`) and the messages a claim fails in
cascade (`Hopeless`) are defined as the least sets that are closed under the walk of the
code, so that, as with the contracts, no induction over paths is needed: the chain of a
new message is its parent's and itself (`AncestorsExtend`), so its request adds a peer to the chain
(`SpreadStep`). `DependenciesLive` takes the oldest queued message: by `Lineage` it
waits for finished work only, so its recipient's claim fails or starts something.
`RunsAfterPrerequisites` itself is refuted by `early_start`; the two theorems about it
say exactly what remains, work that requires no contract. The prerequisites of such work
stay completed through every interruption, resumption and review, as `Waited` shows.

**FlowQueue.** The inductive invariant of the epoch is

    IInv == TypeOK /\ PendingIsCurrent /\ CheckpointKept /\ KnownFlow

with `KnownFlow`: a turn that touches a flow's rows names a flow of the session, and only
continuations hold a lease or finish a job; together with `Fenced`: a turn marked as overtaken after it had read its
epoch holds an older epoch than the session's. `StopsFence` follows because
`SaveCommits` requires equality. `Exclusion` rests on `LockHeld`: until a connection is
lost, whoever has a turn in flight holds the session's lock. `BoundedResumes` builds on
it with `Counted`: the resume count of a checkpoint is the number of executions of its
flow, and the count a turn is about to save is still that number, because between its
read and its commit nobody else runs. `ContinuedOnce` needs no lock: a generation that
was executed, or is leased, has left the queue, a job enters the queue only with a new
generation, and no two leases name the same one (`Once`); so it survives lost
connections too.

**CoordContracts.** The invariants are inductive together with `Numbered`, that no
contract has more revisions than were published. Everything about reachability is drawn
from two facts: `Reachable(c)` contains the dependencies of `c` and is closed, and it is
contained in every such set. So to show that a publication keeps the graph acyclic it
is enough to exhibit, for each contract, a closed set that misses it (`Unreached`);
that no induction over paths is needed is what the set form is for. The refinement
rests on staleness: the tree of a pin that does not contain the revised contract is
unchanged (`TreeOutside`), and of one that does, the revised contract is itself a
dependency of a tree member whose pin is now superseded (`TreeInside`, `RevisedStale`).

**CoordDispatcher.** `NoReplay` follows from `Unused`: a message in the queue has an
execution left, its first or a granted one. `CleanStop` needs, as long as nothing has
failed, that lease, reservation and started message of a peer point at an execution in
the phase that holds them, and the execution at them (`Accounted`); a stopped
dispatcher has no execution.

**CoordUsage.** The inductive invariant is

    IInv == TypeOK /\ Begun /\ Journaled /\ LostKept /\ ResolvedFenced /\ Counted
            /\ Totalled /\ Quiet /\ FreshSeen

A journal is open from before the first call (`Journaled`); an execution that lost usage
keeps it open, because either it is over or its flag keeps it from certifying
(`LostKept`); only executions that can no longer report are resolved, and a lost lease is
not taken again by its execution (`ResolvedFenced`, lemma `LeaseStaysLost`); current
evidence names every unfinished run (`FreshSeen`), because every step that opens a
journal outdates the evidence of its message. The refinement needs in addition that the
count of samples in doubt is zero only when there are none (`Counted`, by the library's
theorems on cardinality), and that a limit set with the first message meets no usage
(`Quiet`). A lost call of a fenced execution that is not attested has an open journal and
so is unconfirmed, which is why an admitted call finds nothing owed.

`Totalled` is the first half of `Accounted`: the total of the row is the sum of what
messages were reported and attested to use. The community modules define sums by a
recursive function over sets, so the module first proves what such a sum is, by induction
on the size of the set in first-order form (the least counterexample, which the
well-foundedness of the naturals gives): the fold has a value on every finite set
(`SumsExist`), it is the sum (`SumsValue`), and changing a function at one argument
changes its sum by the difference (`SumChanged`). Samples and attestations are then one
such change each. `OverrunIsBounded` is inductive over `IInv`: an admission counts the calls
under way, its own included, and what was reported is then still below the limit
(`BelowLimit`); a report trades a call under way for at most its cost (`ReportsWithin`);
the limit changes only when no call is under way that could report (`LimitSetIdle`); all
other steps leave the count of the last admission alone and take calls away if they
change any (`CallsAdmitted`, `FewerUnderWay`), since a lost lease is not taken again.

**Callbacks.** The inductive invariant ties each delivery to the head of its feed and
to the posts made for it (`Rows`), acceptances to keys that exist (`Signed`), and what a
worker carries to the delivery it claimed, which others may have taken, rotated,
cancelled or retried since (`Work`). The next event of a feed is a least number, for
which the proof uses the well-foundedness of the naturals. The refinement maps every
action to a step of the feed or to none of its steps.

**AcpTasks.** What a worker does is tied to the locks it holds (`Holds`), and the starts
of a task to its row (`Counted`): a task with a live owner is locked, so nobody recovers
it; a task whose agent was started has left the queue, to which no step returns it.

The assumptions are the named `ASSUME`s of the modules (no owner is the absent owner or
the ingress, bounds are naturals, the attempt limit is positive), which TLC evaluates
in every run.

**Only model-checked.** Liveness (`PendingSettles`, `EventsSettle`, `TasksSettle`,
`WorkSettles`) is beyond the prover, which knows neither fairness nor ENABLED.
So that pending work settles, that ready work is served and that a loop of dispatchers
makes progress stays with the runs and their bounds. Every safety invariant and action
property of a passing run is a theorem, `RunsAfterPrerequisites` for projects without
contracts, as in its run. The bounds of the models that stand for no limit of the
code (events, faults, executions, calls) are constants of the theorems, too, and any
naturals.

## 5. Disagreements between code and documentation

1. **A resumed request may start before its prerequisites** (`early_start`). A request
   can be blocked while it is still accepted, when a reply to it finds its agreement
   lost. `Resume` then tests agreements and attempts, never prerequisites
   (`lifecycle.go:213`), although `docs/coordination-peer-ingress.md:30` says of the
   manual operations that they "do not bypass dependency, contract or task-usage
   gates."
2. **A stop may be absorbed by the turn it stops** (`late_stop`). BeginHumanTurn pauses
   the session and reads the epoch in two statements. A stop that another process
   commits between admission and the second raises the epoch the turn then adopts, so
   its late checkpoint is queued, which the comment at `flow_queue.go:435` excludes.
   `StopFencesTurns` is the part that holds.
3. **Ready work may starve behind waiting work** (`dispatch_starves`). Every scan starts
   again at the lowest peer id, takes peers with any outstanding work, ready or not, and
   stops when the pool is full; a peer whose execution ended at once is first again at
   the next tick. As many low peers with only waiting (or only blocked) work as the pool
   has slots, four by default, keep all others from being served; if they wait for work
   of those others, for ever. `docs/coordination-dependencies.md:9` says of a waiting
   request that "it does not claim the peer or block unrelated ready work."

Two remarks that are no contradictions of a stated claim. A session stop latches the
session in the memory of its process, and only a human turn in that process removes the
latch (`flow_queue.go:264`): after a stop in the server and a turn in a command line
process, which runs no scheduler, a checkpoint stays queued; `PendingSettles` therefore
has the latch in its premise. And a callback retry that saw its subscription active may
commit after the cancellation: a cancelled subscription then shows a pending delivery,
which is never posted.

## 6. What is not modelled

- *Usage details*: token and cost limits side by side, the `external_record` basis,
  receipts and pages (section 2). `CoordMessages` and `CoordUsage` are not composed: the
  former grants a review at any time and admits without a limit, which is more than the
  code does.
- *Turns among subscriptions*: `Callbacks` serves the subscription whose last attempt is
  oldest, and its proofs hold for any number, but the run has one; that one failing
  subscription does not starve another is not checked.
- *Claims under a dispatcher's lease and contracts together*: the modules meet at
  `Agreements` and at the lease; their product is not explored as one state space.
- *Peers, transports, web, MCP, A2A, the rest of ACP*: authentication, parsing and routing in front
  of the operations modelled; no state of their own but credentials.
- *Agent loop, tools, providers*: what a model answers and a tool does is input; its
  interface to continuations (a turn ends, fails, checkpoints or is cancelled) is in
  FlowQueue.
- *Rest of server and sessions*: only admission, stops, and which flow's checkpoint is
  the transcript are modelled. That a second turn after a lost connection may overwrite
  the transcript is a listed hazard.
- *Sub-agents, child processes, worktrees, speculation*: process and file handling; a
  supervisor model is the next candidate.
- *Gateway, bridges, automation, schedules*: adapters that start turns; input and output.
- *Memory, journal, learning, compaction, personality*: text in, text out.
- *Configuration, security, credentials, walls, interfaces, synchronisation, cost*:
  sequential code over files and screens, better served by its tests.

## 7. Plan

Done, in this order: CoordMessages with its runs and proofs; FlowQueue with its runs
and proofs; CallbackFeed and Callbacks, and later the proof of the refinement;
TaskReceipts and AcpTasks; CoordDispatcher; Agreements and CoordContracts, with
CoordMessages changed to use the former; UsageBudget and CoordUsage with the proof of
their refinement; the counting and chain arguments of CoordMessages and CoordUsage.

What is left, in order of importance:

1. A supervisor of sub-agents (`subagent`, `childruntime`, `worktree`): bounded pools,
   cancellation of trees, cleaning up after a crash.
2. A transcript in FlowQueue, to state what two turns over a lost connection may do to
   it (`persistence.go:14`).
3. CoordUsage with tokens and cost apart, and the basis that may lower the latter.
4. Proofs: `CoordDispatcher` as an implementation of the transitions of `CoordMessages`
   it uses, for which the two need one vocabulary of executions.
