------------------------------- MODULE CoordUsage -------------------------------
(***************************************************************************)
(* Shared task usage: internal/coordination/usage.go,                      *)
(* usage_reconciliation.go and request_review.go, with the accounting of   *)
(* internal/api/coordination_usage.go and coordination_dispatch.go.        *)
(* Peers execute the messages of one task.  Each execution opens a         *)
(* journal, asks the task's budget before every model call, records the    *)
(* call's usage after it and closes its journal.  The children to which an *)
(* execution delegates call models at the same time.  The budget's owner   *)
(* attests what was lost, changes the limit and requeues blocked work.     *)
(*                                                                         *)
(* Every store operation locks the project's admission, so it is one       *)
(* action.  One quantity, the tokens, stands for all: cost is counted and  *)
(* limited alike, but an attestation by an external record may lower what  *)
(* samples without a known price were estimated at.                        *)
(***************************************************************************)
EXTENDS Integers, FiniteSets, Functions

CONSTANTS
  Peer, Message, NoPeer, NoExecution,
  Kind,                    \* kinds of the messages sent that are no reply
  MaxAttempts,             \* MaxExecutionAttempts
  MaxCalls,                \* subagent.Config.MaxChildren: calls of an execution at once
  Limits,                  \* limits the owner may set; 0 is none
  MaxExecutions,           \* bound of the model: executions of the task
  MaxCost,                 \* bound of the model: usage of one call
  MaxSamples,              \* bound of the model: calls recorded and under way
  MaxAttested,             \* bound of the model: usage added by an attestation
  MaxFaults                \* bound of the model: crashes, stalls, failed writes,
                           \* and peers disabled

\* One execution for each attempt: the dispatcher names a fresh lease owner.
Execution == Message \X (1..MaxAttempts)

ASSUME NameAssumption  == NoPeer \notin Peer /\ NoExecution \notin Execution
ASSUME KindAssumption  == Kind \subseteq {"request", "notice"}
ASSUME LimitAssumption == Limits \subseteq Nat /\ 0 \in Limits
ASSUME BoundAssumption == /\ IsFiniteSet(Message)
                          /\ {MaxAttempts, MaxCalls, MaxCost} \subseteq Nat \ {0}
                          /\ {MaxExecutions, MaxSamples, MaxAttested, MaxFaults} \subseteq Nat

VARIABLES
  enabled,   \* coordination_peers.enabled
  message,   \* coordination_messages of the task
  lease,     \* coordination_leases: the execution of each live lease
  run,       \* the executions: where they are, and incompleteUsage
  journal,   \* coordination_usage_runs
  resolved,  \* coordination_usage_run_resolutions
  samples,   \* coordination_usage_samples: how many of each execution
  doubts,    \* samples without complete usage, in no sample resolution
  reported,  \* what the samples of each message add up to
  replaced,  \* coordination_usage_reconciliations: the sum of their deltas
  usage,     \* coordination_task_usage
  seen,      \* unfinished runs in the last evidence read of each message
  fresh,     \* messages whose evidence is still the evidence that was read
  faults,
  lost,      \* ghost: executions that made a call whose usage was not recorded
  abreast    \* ghost: calls under way when the last one was admitted

work     == <<enabled, message, lease>>
contributions == <<reported, replaced>>
accounts == <<journal, resolved, samples, doubts, contributions, usage>>
ghost    == <<lost, abreast>>
vars     == <<work, run, accounts, seen, fresh, faults, ghost>>
-----------------------------------------------------------------------------
\* A notice is everything but a request, answers included.
MessageRow == [state : {"none", "accepted", "started", "blocked", "ended"},
               kind : {"request", "notice"},
               from : Peer \cup {NoPeer}, to : Peer \cup {NoPeer},
               attempts : 0..MaxAttempts]
Unsent == [state |-> "none", kind |-> "notice", from |-> NoPeer, to |-> NoPeer,
           attempts |-> 0]

\* calls: the model calls under way, of the agent itself or of its children
Run == [pc : {"none", "claimed", "working", "closing", "over"},
        calls : 0..MaxCalls, incomplete : BOOLEAN]
NoRun == [pc |-> "none", calls |-> 0, incomplete |-> FALSE]

\* flagged: review_reason is set
Usage == [owner : Peer \cup {NoPeer}, limit : Nat, total : Nat, unknown : Nat,
          flagged : BOOLEAN]

TypeOK ==
  /\ enabled \subseteq Peer
  /\ message \in [Message -> MessageRow]
  /\ lease \in [Peer -> Execution \cup {NoExecution}]
  /\ run \in [Execution -> Run]
  /\ journal \in [Execution -> {"none", "open", "finished"}]
  /\ resolved \subseteq Execution
  /\ samples \in [Execution -> Nat]
  /\ doubts \subseteq Execution \X Nat
  /\ reported \in [Message -> Nat] /\ replaced \in [Message -> Nat]
  /\ usage \in Usage
  /\ seen \in [Message -> SUBSET Execution]
  /\ fresh \subseteq Message
  /\ faults \in Nat
  /\ lost \subseteq Execution
  /\ abreast \in Nat

Init ==
  /\ enabled = Peer
  /\ message = [m \in Message |-> Unsent]
  /\ lease = [p \in Peer |-> NoExecution]
  /\ run = [e \in Execution |-> NoRun]
  /\ journal = [e \in Execution |-> "none"]
  /\ resolved = {} /\ doubts = {}
  /\ samples = [e \in Execution |-> 0]
  /\ reported = [m \in Message |-> 0] /\ replaced = [m \in Message |-> 0]
  /\ usage = [owner |-> NoPeer, limit |-> 0, total |-> 0, unknown |-> 0, flagged |-> FALSE]
  /\ seen = [m \in Message |-> {}]
  /\ fresh = {}
  /\ faults = 0
  /\ lost = {}
  /\ abreast = 0
-----------------------------------------------------------------------------
MessageOf(e) == e[1]
From(e) == message[e[1]].from
To(e)   == message[e[1]].to
State(m, s) == message[m].state = s
Started(e)  == State(MessageOf(e), "started")
Busy(p)     == \E m \in Message : message[m].to = p /\ State(m, "started")

\* lockAdmission and checkLease
Leased(e) == To(e) \in enabled /\ lease[To(e)] = e

\* At work, without a call under way and with some.
Alone(e)   == run[e].pc = "working" /\ run[e].calls = 0
Calling(e) == run[e].pc = "working" /\ run[e].calls > 0

\* usageExecutionCounts: pending, and of these unconfirmed executions.
Pending     == {e \in Execution : journal[e] = "open" /\ e \notin resolved}
UnconfirmedIfIdle == {e \in Pending : lease[To(e)] = NoExecution}       \* mutant
Unconfirmed == {e \in Pending : ~ Leased(e)}

ExhaustedAbove(u, l) == l > 0 /\ u.total > l                            \* mutant
Exhausted(u, l) == l > 0 /\ u.total >= l

\* usageReason(u) # ""
NeedsReview(u) == \/ u.limit > 0 /\ (Unconfirmed # {} \/ u.unknown > 0)
                  \/ Exhausted(u, u.limit)

\* A new reason is escalated to both peers, or the transaction fails.
Escalates(u)    == NeedsReview(u) /\ ~ u.flagged
Committable(e, u) == Escalates(u) => {From(e), To(e)} \subseteq enabled
Reviewed(u)     == [u EXCEPT !.flagged = @ \/ NeedsReview(u)]

Fault == faults < MaxFaults /\ faults' = faults + 1
-----------------------------------------------------------------------------
(* The task's messages *)

MaySend(m, from, to) == State(m, "none") /\ from # to /\ {from, to} \subseteq enabled
Sent(kind, from, to) == [state |-> "accepted", kind |-> kind, from |-> from, to |-> to,
                         attempts |-> 0]

\* ensureUsage and the limits commit also with a message that is refused for
\* its queue, with its escalation.
SendRoot(m, kind, from, to) ==
  /\ MaySend(m, from, to) /\ usage.owner \in {NoPeer, from}
  /\ message' \in {message, [message EXCEPT ![m] = Sent(kind, from, to)]}
  /\ \E l \in IF kind = "request" /\ \A n \in Message : State(n, "none")
              THEN Limits ELSE {usage.limit} :
       usage' = [usage EXCEPT !.owner = from, !.limit = l]
  /\ UNCHANGED <<enabled, lease, run, journal, resolved, samples, doubts, contributions,
                 seen, fresh, faults, ghost>>

\* A message of the executing agent, which uses one tool at a time and cannot
\* while its children work; they have no tools for messages.  A request does not
\* go back to who waits for it: the task's owner and the sender, and others
\* (CoordMessages).
SendChild(m, kind, e, to) ==
  /\ Alone(e) /\ Leased(e) /\ Started(e) /\ MaySend(m, To(e), to)
  /\ kind = "request" => to \notin {From(e), usage.owner}
  /\ message' = [message EXCEPT ![m] = Sent(kind, To(e), to)]
  /\ UNCHANGED <<enabled, lease, run, accounts, seen, fresh, faults, ghost>>

\* n answers m and ends it, or is another notice to its sender.
MayReply(n, m) == ~ State(m, "none") /\ MaySend(n, message[m].to, message[m].from)
Replied(n, m, s) == [message EXCEPT ![n] = Sent("notice", message[m].to, message[m].from),
                                    ![m].state = s]
Unfinished == {"accepted", "started", "blocked"}

Reply(n, m) ==
  /\ MayReply(n, m)
  /\ \/ message' = Replied(n, m, message[m].state) /\ UNCHANGED fresh
     \/ /\ message[m].state \in Unfinished
        /\ message' = Replied(n, m, "ended") /\ fresh' = fresh \ {m}
  /\ UNCHANGED <<enabled, lease, run, accounts, seen, faults, ghost>>

\* Cancelled or given up, also while it is executed.
End(m) ==
  /\ message[m].state \in Unfinished
  /\ {message[m].from, message[m].to} \cap enabled # {}
  /\ message' = [message EXCEPT ![m].state = "ended"]
  /\ fresh' = fresh \ {m}
  /\ UNCHANGED <<enabled, lease, run, accounts, seen, faults, ghost>>

DisablePeer(p) ==
  /\ p \in enabled /\ Fault
  /\ enabled' = enabled \ {p}
  /\ UNCHANGED <<message, lease, run, accounts, seen, fresh, ghost>>
-----------------------------------------------------------------------------
(* An execution *)

\* AcquireLease finds nothing started or blocked, and the claim follows.
Claim(m) ==
  LET p == message[m].to
      e == <<m, message[m].attempts + 1>> IN
  /\ State(m, "accepted") /\ message[m].attempts < MaxAttempts
  /\ Cardinality({x \in Execution : run[x].pc # "none"}) < MaxExecutions
  /\ p \in enabled /\ lease[p] = NoExecution
  /\ ~ \E n \in Message : message[n].to = p /\ message[n].state \in {"started", "blocked"}
  /\ message' = [message EXCEPT ![m].state = "started", ![m].attempts = @ + 1]
  /\ lease' = [lease EXCEPT ![p] = e]
  /\ run' = [run EXCEPT ![e].pc = "claimed"]
  /\ fresh' = fresh \ {m}
  /\ UNCHANGED <<enabled, accounts, seen, faults, ghost>>

\* A journal whose commit is not confirmed is never used.
BeginTaskUsage(e) ==
  /\ run[e].pc = "claimed" /\ Leased(e)
  /\ journal' = [journal EXCEPT ![e] = "open"]
  /\ fresh' = fresh \ {MessageOf(e)}
  /\ \/ UNCHANGED faults /\ run' = [run EXCEPT ![e].pc = "working"]
     \/ Fault /\ run' = [run EXCEPT ![e].pc = "closing"]
  /\ UNCHANGED <<work, resolved, samples, doubts, contributions, usage, seen, ghost>>

Checked(e) == Leased(e) /\ Started(e) /\ Committable(e, usage)

\* Calls under way of executions that can still report.
UnderWay == {c \in Execution \X (1..MaxCalls) : Leased(c[1]) /\ c[2] <= run[c[1]].calls}

\* CheckTaskUsage before a model call, of the agent or of one of its children;
\* nothing is reserved for the calls that are under way.
CallAdmitted(e) ==
  /\ run[e].pc = "working" /\ Checked(e) /\ ~ NeedsReview(usage)
  /\ run[e].calls < MaxCalls /\ SumFunction(samples) + Cardinality(UnderWay) < MaxSamples
  /\ run' = [run EXCEPT ![e].calls = @ + 1]
  /\ UNCHANGED <<work, accounts, seen, fresh, faults, lost>>
  /\ abreast' = Cardinality(UnderWay')

\* CheckTaskUsage before a call or at the end, with a reason for review
CallRefused(e) ==
  /\ run[e].pc \in {"working", "closing"} /\ Checked(e) /\ NeedsReview(usage)
  /\ usage' = Reviewed(usage)
  /\ UNCHANGED <<work, run, journal, resolved, samples, doubts, contributions, seen, fresh,
                 faults, ghost>>

Charged(s) == [usage EXCEPT !.total = @ + s.n,
                            !.unknown = IF s.complete THEN @ ELSE @ + 1]

\* An incomplete report is less than what the call has used.
Sample == [n : 1..MaxCost, complete : {TRUE}] \cup [n : 0..(MaxCost-1), complete : {FALSE}]

Incomplete(e) == [run EXCEPT ![e].calls = @ - 1, ![e].incomplete = TRUE]

\* A sample may commit and still be reported as failed.  Also a reason for
\* review is an error, which not every caller minds.
RecordTaskUsage(e, s) ==
  LET u == Charged(s) IN
  /\ Calling(e) /\ Leased(e) /\ Committable(e, u)
  /\ samples' = [samples EXCEPT ![e] = @ + 1]
  /\ doubts' = IF s.complete THEN doubts ELSE doubts \cup {<<e, samples[e]>>}
  /\ reported' = [reported EXCEPT ![MessageOf(e)] = @ + s.n]
  /\ usage' = Reviewed(u)
  /\ fresh' = {}
  /\ \/ UNCHANGED faults /\ run' = [run EXCEPT ![e].calls = @ - 1]
     \/ Fault /\ run' = Incomplete(e)
  /\ UNCHANGED <<work, journal, resolved, replaced, seen, ghost>>

RecordFails(e) ==
  /\ Calling(e)
  /\ \/ /\ ~ Leased(e) \/ \E s \in Sample : ~ Committable(e, Charged(s))
        /\ UNCHANGED faults
     \/ Fault
  /\ run' = Incomplete(e)
  /\ lost' = lost \cup {e}
  /\ UNCHANGED <<work, accounts, seen, fresh, abreast>>

CertifiesAll(e) == TRUE                                                 \* mutant
\* A journal with a failed write is never certified.
Certifies(e) == ~ run[e].incomplete

\* The agent's run has ended, and the children it has waited for.
FinishTaskUsage(e) ==
  /\ Alone(e) /\ Certifies(e) /\ Leased(e)
  /\ journal' = [journal EXCEPT ![e] = "finished"]
  /\ run' = [run EXCEPT ![e].pc = "closing"]
  /\ fresh' = fresh \ {MessageOf(e)}
  /\ UNCHANGED <<work, resolved, samples, doubts, contributions, usage, seen, faults, ghost>>

\* The run ends with its journal as it is, or without one.
Abandon(e) ==
  /\ run[e].pc = "claimed" \/ Alone(e)
  /\ \/ (~ Certifies(e) \/ ~ Leased(e)) /\ UNCHANGED faults
     \/ Fault
  /\ run' = [run EXCEPT ![e].pc = "closing"]
  /\ UNCHANGED <<work, accounts, seen, fresh, ghost>>

Released(e) == [p \in Peer |-> IF lease[p] = e THEN NoExecution ELSE lease[p]]

\* The dispatcher writes the outcome, a request's with its answer, if it can,
\* and releases the lease.
Settle(e) ==
  /\ run[e].pc = "closing"
  /\ \/ /\ Leased(e) /\ Started(e) /\ UNCHANGED faults
        /\ \/ \E s \in {"ended", "blocked"} :
                message' = [message EXCEPT ![MessageOf(e)].state = s]
           \/ \E n \in Message : /\ MayReply(n, MessageOf(e))
                                 /\ message' = Replied(n, MessageOf(e), "ended")
        /\ fresh' = fresh \ {MessageOf(e)}
     \/ /\ IF Leased(e) /\ Started(e) THEN Fault ELSE UNCHANGED faults
        /\ UNCHANGED <<message, fresh>>
  /\ run' = [run EXCEPT ![e].pc = "over"]
  /\ lease' = Released(e)
  /\ UNCHANGED <<enabled, accounts, seen, ghost>>

Crash(e) ==
  /\ run[e].pc \notin {"none", "over"} /\ Fault
  /\ run' = [run EXCEPT ![e].pc = "over", ![e].calls = 0]
  /\ lost' = IF run[e].calls > 0 THEN lost \cup {e} ELSE lost
  /\ UNCHANGED <<work, accounts, seen, fresh, abreast>>

\* The lease of a process that is gone, or stalls, or whose peer is disabled.
LeaseExpires(p) == LET e == lease[p] IN
  /\ e # NoExecution
  /\ IF run[e].pc # "over" /\ p \in enabled THEN Fault ELSE UNCHANGED faults
  /\ lease' = [lease EXCEPT ![p] = NoExecution]
  /\ UNCHANGED <<enabled, message, run, accounts, seen, fresh, ghost>>

\* AcquireLease blocks what was started under an expired lease.
Recover(p) ==
  LET stopped == {m \in Message : message[m].to = p /\ State(m, "started")} IN
  /\ p \in enabled /\ lease[p] = NoExecution /\ stopped # {}
  /\ message' = [m \in Message |-> IF m \in stopped
                                   THEN [message[m] EXCEPT !.state = "blocked"]
                                   ELSE message[m]]
  /\ fresh' = fresh \ stopped
  /\ UNCHANGED <<enabled, lease, run, accounts, seen, faults, ghost>>
-----------------------------------------------------------------------------
(* The owner of the budget *)

\* No evidence may be open when a limit is in force or comes into force.
Reviewable(l) == /\ Pending = {}
                 /\ usage.limit > 0 \/ l > 0 => usage.unknown = 0
                 /\ ~ Exhausted(usage, l)

ReviewRequest(m, l) ==
  /\ State(m, "blocked") /\ message[m].kind = "request" /\ message[m].attempts < MaxAttempts
  /\ {usage.owner, message[m].to} \subseteq enabled
  /\ usage.owner \in {message[m].from, message[m].to}
  /\ lease[message[m].to] = NoExecution
  /\ \A n \in Message : ~ State(n, "started")
  /\ Reviewable(l)
  /\ usage' = [usage EXCEPT !.limit = l, !.flagged = FALSE]
  /\ message' = [message EXCEPT ![m].state = "accepted"]
  /\ fresh' = {}
  /\ UNCHANGED <<enabled, lease, run, journal, resolved, samples, doubts, contributions, seen,
                 faults, ghost>>

RunsOf(m)   == {e \in Execution : MessageOf(e) = m}
DoubtsOf(m) == {d \in doubts : MessageOf(d[1]) = m}

Uncertain(m) == Pending \cap RunsOf(m) # {} \/ DoubtsOf(m) # {}

\* reconciliationEligibility
Eligible(m) == /\ Uncertain(m)
               /\ ~ Busy(message[m].to) /\ lease[message[m].to] = NoExecution

\* UsageReconciliationForMessage; what is read before it can be reconciled is
\* read again when it can.
ReadEvidence(m) ==
  /\ {usage.owner, message[m].from, message[m].to} \cap enabled # {}
  /\ Eligible(m)
  /\ seen' = [seen EXCEPT ![m] = Pending \cap RunsOf(m)]
  /\ fresh' = fresh \cup {m}
  /\ UNCHANGED <<work, run, accounts, faults, ghost>>

CurrentAlways(m) == TRUE                                                \* mutant
\* The revisions and the fingerprint that the reviewer names still hold.
Current(m) == m \in fresh

Contribution(m) == reported[m] + replaced[m]
AddedToSamples(m, amount) == amount - reported[m]                       \* mutant
\* What an attestation of the message's whole usage adds to it.
Added(m, amount) == amount - Contribution(m)

ReconcileTaskUsage(m, amount) ==
  LET u == [usage EXCEPT !.total = @ + Added(m, amount),
                         !.unknown = @ - Cardinality(DoubtsOf(m))] IN
  /\ usage.owner \in enabled /\ Current(m) /\ Eligible(m)
  /\ amount >= Contribution(m)
  /\ replaced' = [replaced EXCEPT ![m] = amount - reported[m]]
  /\ resolved' = resolved \cup {e \in RunsOf(m) : journal[e] = "open"}
  /\ doubts' = doubts \ DoubtsOf(m)
  /\ usage' = [u EXCEPT !.flagged = \/ Unconfirmed \ RunsOf(m) # {}
                                    \/ u.limit > 0 /\ u.unknown > 0
                                    \/ Exhausted(u, u.limit)]
  /\ fresh' = {}
  /\ UNCHANGED <<work, run, journal, samples, reported, seen, faults, ghost>>
-----------------------------------------------------------------------------
Executes(e) ==
  \/ BeginTaskUsage(e) \/ CallAdmitted(e) \/ CallRefused(e) \/ RecordFails(e)
  \/ \E s \in Sample : RecordTaskUsage(e, s)
  \/ FinishTaskUsage(e) \/ Abandon(e) \/ Settle(e) \/ Crash(e)
  \/ \E m \in Message, kind \in Kind, to \in Peer : SendChild(m, kind, e, to)

Reviews(m) ==
  \/ \E l \in Limits : ReviewRequest(m, l)
  \/ ReadEvidence(m)
  \/ \E sum \in replaced[m]..MaxAttested : ReconcileTaskUsage(m, reported[m] + sum)

Next == \/ \E m \in Message, kind \in Kind, from, to \in Peer : SendRoot(m, kind, from, to)
        \/ \E n, m \in Message : Reply(n, m)
        \/ \E m \in Message : Claim(m) \/ End(m) \/ Reviews(m)
        \/ \E e \in Execution : Executes(e)
        \/ \E p \in Peer : DisablePeer(p) \/ LeaseExpires(p) \/ Recover(p)

Spec == Init /\ [][Next]_vars
-----------------------------------------------------------------------------
(* Properties *)

\* Executions with samples in doubt, and those that can no longer report.
Doubtful == {d[1] : d \in doubts}
Fenced   == {e \in Execution : run[e].pc # "none" /\ ~ Leased(e)}

\* The shared row and the rows it is made of agree after every sample and
\* attestation: totals, and the count of samples that are still in doubt.
Accounted == /\ usage.total = SumFunction(reported) + SumFunction(replaced)
             /\ usage.unknown = Cardinality(doubts)

\* Usage is never lost silently: an execution with a call that nobody recorded
\* has an open journal, through failed writes, crashes and lost leases.
NoSilentSpend == \A e \in Execution :
  run[e].calls > 0 \/ e \in lost => journal[e] = "open"

\* Nothing is reserved for the calls under way, of several peers or of several
\* children of one execution, and each may cost MaxCost.  But none is added once
\* the limit is reached: what was reported passes it by less than what the calls
\* abreast at the last admission may cost, however often the owner changes the
\* limit or attests, and by the less the more of them are still under way.
OverrunBounded == usage.limit > 0 =>
  SumFunction(reported) + MaxCost * Cardinality(UnderWay) < usage.limit + MaxCost * abreast

\* A reviewer vouches for an execution only on evidence that shows it: an
\* execution that began after the evidence was read is never resolved by it.
AttestedOnEvidence == [][\A m \in Message :
  (resolved' \ resolved) \cap RunsOf(m) \subseteq seen[m]]_vars

\* The task's budget is the one UsageBudget promises.
Budget == INSTANCE UsageBudget WITH
  limit <- usage.limit, charged <- usage.total, attested <- resolved,
  calling <- [e \in Execution |-> run[e].calls], doubtful <- Doubtful, fenced <- Fenced
ImplementsBudget == Budget!BudgetSpec
=============================================================================
