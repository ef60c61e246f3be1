------------------------------- MODULE Callbacks -------------------------------
(***************************************************************************)
(* Signed event callbacks: internal/coordination/callback_store.go and     *)
(* callback_worker.go.  The serial workers of several processes share the  *)
(* subscriptions and deliveries of the database; a worker claims the next  *)
(* event of a subscription, checks its claim, posts it and finishes it,    *)
(* one transaction or request at a time, while the peer's owner subscribes,*)
(* cancels, rotates the key and retries dead letters.                      *)
(***************************************************************************)
EXTENDS Integers, Sequences, FiniteSetsExt

CONSTANTS
  Peer, Sub, Worker, NoSub, NoWorker,
  PeerOf, DestinationOf,   \* fixed when a subscription is made
  MaxAttempts,             \* CallbackWorker.MaxAttempts
  MaxEvents,               \* bound of the model: events of the project
  MaxGeneration,           \* bound of the model: signing keys
  MaxFaults                \* bound of the model: crashes, stalls, lost commits

ASSUME SubAssumption == NoSub \notin Sub /\ PeerOf \in [Sub -> Peer]
ASSUME WorkerAssumption == NoWorker \notin Worker
ASSUME BoundAssumption == /\ MaxAttempts \in Nat \ {0} /\ MaxEvents \in Nat
                          /\ MaxGeneration \in Nat /\ MaxFaults \in Nat

VARIABLES
  log,         \* coordination_events: the peers of each event's message
  enabled,     \* coordination_peers.enabled
  active, cursor, generation,  \* coordination_callback_subscriptions
  subscribed,  \* the subscriptions made so far
  before,      \* their order by last_attempt, created_at: pairs of subscriptions
  delivery,    \* coordination_callback_deliveries
  worker,      \* the claim each worker holds
  retrying,    \* retries that have seen their subscription active
  faults,
  accepted,    \* ghost: events the receiver accepted, with the key's generation
  sends        \* ghost: requests begun for a pending event, since its last retry

order == <<subscribed, before>>
subs  == <<active, cursor, generation, order>>
ghost == <<accepted, sends>>
vars  == <<log, enabled, subs, delivery, worker, retrying, faults, ghost>>
-----------------------------------------------------------------------------
Event == 1..MaxEvents

\* due: next_attempt is past;  live: lease_until is to come
Delivery == [state : {"none", "pending", "delivered", "dead", "cancelled"},
             attempts : Nat, due : BOOLEAN, owner : Worker \cup {NoWorker},
             live : BOOLEAN]
NoDelivery == [state |-> "none", attempts |-> 0, due |-> TRUE, owner |-> NoWorker,
               live |-> FALSE]

\* callbackClaim and the outcome of its attempt.  refused: a permanent HTTP
\* status or an unknown destination;  failed: anything that may be retried
Claim == [pc : {"idle", "claimed", "posting", "answered", "down"},
          sub : Sub \cup {NoSub}, event : Nat, gen : Nat, attempts : Nat,
          outcome : {"none", "accepted", "refused", "failed", "interrupted"}]
Idle == [pc |-> "idle", sub |-> NoSub, event |-> 0, gen |-> 0, attempts |-> 0,
         outcome |-> "none"]
Down == [Idle EXCEPT !.pc = "down"]

TypeOK ==
  /\ log \in Seq(SUBSET Peer) /\ Len(log) <= MaxEvents
  /\ enabled \subseteq Peer /\ active \subseteq Sub
  /\ cursor \in [Sub -> Nat] /\ generation \in [Sub -> Nat]
  /\ subscribed \subseteq Sub /\ before \subseteq Sub \X Sub
  /\ delivery \in [Sub -> [Event -> Delivery]]
  /\ worker \in [Worker -> Claim]
  /\ retrying \subseteq Sub \X Event
  /\ faults \in Nat
  /\ accepted \in [Sub -> SUBSET (Event \X Nat)]
  /\ sends \in [Sub -> [Event -> Nat]]

Init ==
  /\ log = <<>>
  /\ enabled = Peer
  /\ active = {} /\ subscribed = {} /\ before = {}
  /\ cursor = [s \in Sub |-> 0]
  /\ generation = [s \in Sub |-> 1]
  /\ delivery = [s \in Sub |-> [n \in Event |-> NoDelivery]]
  /\ worker = [w \in Worker |-> Idle]
  /\ retrying = {}
  /\ faults = 0
  /\ accepted = [s \in Sub |-> {}]
  /\ sends = [s \in Sub |-> [n \in Event |-> 0]]
-----------------------------------------------------------------------------
(* The correspondence *)

\* appendEvent: sequence numbers commit in order within a project.
Publish ==
  /\ Len(log) < MaxEvents
  /\ \E concerned \in SUBSET Peer : log' = Append(log, concerned)
  /\ UNCHANGED <<enabled, subs, delivery, worker, retrying, faults, ghost>>

DisablePeer(p) ==
  /\ enabled' = enabled \ {p}
  /\ UNCHANGED <<log, subs, delivery, worker, retrying, faults, ghost>>
-----------------------------------------------------------------------------
(* Operations of the peer's owner *)

Access(s) == PeerOf[s] \in enabled /\ s \in subscribed

SameDestination(s, t) == PeerOf[s] = PeerOf[t] /\ DestinationOf[s] = DestinationOf[t]

\* ORDER BY last_attempt, created_at: last_attempt is the epoch until the
\* subscription is first claimed, which leaves a delivery.
Tried(s) == \E n \in Event : delivery[s][n].state # "none"
Enrolled(s) == LET tried == {t \in subscribed : Tried(t)} IN
  before \cup (subscribed \ tried) \X {s} \cup {s} \X tried
MovedLast(s) == {pair \in before : pair[1] # s} \cup (subscribed \ {s}) \X {s}

SubscribeCallback(s, after) ==
  /\ PeerOf[s] \in enabled /\ s \notin subscribed
  /\ ~ \E t \in active : SameDestination(s, t)
  /\ active' = active \cup {s}
  /\ cursor' = [cursor EXCEPT ![s] = after]
  /\ subscribed' = subscribed \cup {s} /\ before' = Enrolled(s)
  /\ UNCHANGED <<log, enabled, generation, delivery, worker, retrying, faults, ghost>>

CancelCallback(s) ==
  /\ Access(s)
  /\ active' = active \ {s}
  /\ delivery' = [delivery EXCEPT ![s] = [n \in Event |->
       IF @[n].state = "pending" THEN [@[n] EXCEPT !.state = "cancelled"] ELSE @[n]]]
  /\ sends' = [sends EXCEPT ![s] = [n \in Event |-> 0]]
  /\ UNCHANGED <<log, enabled, cursor, generation, order, worker, retrying, faults, accepted>>

\* One statement, but its snapshot of the subscription takes no lock: a
\* cancellation may commit before the retry does.
RetryReads(s, n) ==
  /\ Access(s) /\ s \in active /\ delivery[s][n].state = "dead"
  /\ retrying' = retrying \cup {<<s, n>>}
  /\ UNCHANGED <<log, enabled, subs, delivery, worker, faults, ghost>>

RetryCallback(s, n) ==
  /\ <<s, n>> \in retrying
  /\ retrying' = retrying \ {<<s, n>>}
  /\ delivery' = IF delivery[s][n].state = "dead"
                 THEN [delivery EXCEPT ![s][n] = [NoDelivery EXCEPT !.state = "pending"]]
                 ELSE delivery
  /\ UNCHANGED <<log, enabled, subs, worker, faults, ghost>>

\* Rotation releases the leases of pending deliveries.
Released(d) == [d EXCEPT !.owner = NoWorker, !.live = FALSE, !.due = TRUE]
RotateCallbackKey(s) ==
  /\ Access(s) /\ s \in active /\ generation[s] < MaxGeneration
  /\ generation' = [generation EXCEPT ![s] = @ + 1]
  /\ delivery' = [delivery EXCEPT ![s] = [n \in Event |->
       IF @[n].state = "pending" THEN Released(@[n]) ELSE @[n]]]
  /\ UNCHANGED <<log, enabled, active, cursor, order, worker, retrying, faults, ghost>>
-----------------------------------------------------------------------------
(* The worker *)

Upcoming(s) == {n \in 1..Len(log) : n > cursor[s] /\ PeerOf[s] \in log[n]}

HeldByOwner(d) == /\ d.state \notin {"none", "delivered"}                 \* mutant
                  /\ d.state = "dead" \/ ~ d.due \/ d.owner # NoWorker
\* A dead letter, a backoff or a live lease holds the whole subscription.
Held(d) == /\ d.state \notin {"none", "delivered"}
           /\ d.state = "dead" \/ ~ d.due \/ d.live

Claimable(s) == /\ s \in active /\ PeerOf[s] \in enabled
                /\ ~ \E n \in Event : Held(delivery[s][n])
                /\ Upcoming(s) # {}

\* ORDER BY last_attempt: the claimable subscription tried longest ago.
Oldest(s) == \A t \in Sub : Claimable(t) => s = t \/ <<s, t>> \in before

\* The attempt is counted before it is made.
ClaimCallback(w, s) ==
  LET n == Min(Upcoming(s)) IN
  /\ worker[w].pc = "idle" /\ Claimable(s) /\ Oldest(s)
  /\ delivery[s][n].state \in {"none", "pending"}
  /\ delivery' = [delivery EXCEPT ![s][n] =
       [delivery[s][n] EXCEPT !.state = "pending", !.attempts = @ + 1,
                              !.owner = w, !.live = TRUE]]
  /\ worker' = [worker EXCEPT ![w] = [pc |-> "claimed", sub |-> s, event |-> n,
                  gen |-> generation[s], attempts |-> delivery[s][n].attempts + 1,
                  outcome |-> "none"]]
  /\ before' = MovedLast(s)
  /\ UNCHANGED <<log, enabled, active, cursor, generation, subscribed, retrying, faults, ghost>>

Row(w) == delivery[worker[w].sub][worker[w].event]

\* callbackOwned
Owned(w) == LET c == worker[w] IN
  /\ c.sub \in active /\ PeerOf[c.sub] \in enabled /\ generation[c.sub] = c.gen
  /\ Row(w).state = "pending" /\ Row(w).owner = w /\ Row(w).live

Answer(w, outcome) ==
  worker' = [worker EXCEPT ![w].pc = "answered", ![w].outcome = outcome]

PastAttempts(c) == c.attempts <= MaxAttempts + 1                     \* mutant
\* Too many attempts are recorded without a request.
WithinAttempts(c) == c.attempts <= MaxAttempts

CheckFails(w) ==
  /\ worker[w].pc = "claimed"
  /\ \/ ~ WithinAttempts(worker[w]) /\ Answer(w, "failed")
     \/ WithinAttempts(worker[w]) /\ \E o \in {"refused", "failed", "interrupted"} : Answer(w, o)
  /\ UNCHANGED <<log, enabled, subs, delivery, retrying, faults, ghost>>

Post(w) == LET c == worker[w] IN
  /\ c.pc = "claimed" /\ WithinAttempts(c) /\ Owned(w)
  /\ worker' = [worker EXCEPT ![w].pc = "posting"]
  /\ sends' = [sends EXCEPT ![c.sub][c.event] = @ + 1]
  /\ UNCHANGED <<log, enabled, subs, delivery, retrying, faults, accepted>>

\* The receiver accepts; its answer may be lost or cut off by a shutdown.
ReceiverAccepts(w) == LET c == worker[w] IN
  /\ c.pc = "posting"
  /\ accepted' = [accepted EXCEPT ![c.sub] = @ \cup {<<c.event, c.gen>>}]
  /\ \E o \in {"accepted", "failed", "interrupted"} : Answer(w, o)
  /\ UNCHANGED <<log, enabled, subs, delivery, retrying, faults, sends>>

PostFails(w) ==
  /\ worker[w].pc = "posting"
  /\ \E o \in {"refused", "failed", "interrupted"} : Answer(w, o)
  /\ UNCHANGED <<log, enabled, subs, delivery, retrying, faults, ghost>>

\* What finishCallback makes of the delivery.
OutcomeOfAnyAnswer(c) == IF c.sub \notin active THEN "cancelled"        \* mutant
              ELSE IF c.outcome \in {"accepted", "refused"} THEN "delivered"
              ELSE IF c.attempts >= MaxAttempts THEN "dead" ELSE "pending"
Outcome(c) == IF c.sub \notin active THEN "cancelled"
              ELSE IF c.outcome = "accepted" THEN "delivered"
              ELSE IF c.outcome = "refused" \/ c.attempts >= MaxAttempts THEN "dead"
              ELSE "pending"
FinishableUnleased(w) == LET c == worker[w] IN                          \* mutant
  PeerOf[c.sub] \in enabled /\ generation[c.sub] = c.gen
Finishable(w) == LET c == worker[w] IN
  /\ PeerOf[c.sub] \in enabled /\ generation[c.sub] = c.gen
  /\ Row(w).owner = w /\ Row(w).live

\* The cursor of the subscription after a finished delivery.
Advance(c) == IF Outcome(c) # "delivered" THEN cursor[c.sub]
              ELSE Max({cursor[c.sub], c.event})

\* A worker that was interrupted does not go on.
Done(c) == IF c.outcome = "interrupted" THEN Down ELSE Idle

FinishCallback(w) ==
  LET c == worker[w] IN
  /\ c.pc = "answered" /\ Finishable(w)
  /\ delivery' = [delivery EXCEPT ![c.sub][c.event] =
       [@ EXCEPT !.state = Outcome(c), !.due = (c.outcome = "interrupted"),
                 !.owner = NoWorker, !.live = FALSE]]
  /\ cursor' = [cursor EXCEPT ![c.sub] = Advance(c)]
  /\ worker' = [worker EXCEPT ![w] = Done(c)]
  /\ sends' = IF Outcome(c) = "pending" THEN sends
              ELSE [sends EXCEPT ![c.sub][c.event] = 0]
  /\ UNCHANGED <<log, enabled, active, generation, order, retrying, faults, accepted>>

LeaseLost(w) ==
  /\ worker[w].pc = "answered" /\ ~ Finishable(w)
  /\ worker' = [worker EXCEPT ![w] = Done(worker[w])]
  /\ UNCHANGED <<log, enabled, subs, delivery, retrying, faults, ghost>>

Fault == faults < MaxFaults /\ faults' = faults + 1

\* The acknowledgement transaction fails.
FinishFails(w) ==
  /\ worker[w].pc = "answered" /\ Finishable(w)
  /\ Fault
  /\ worker' = [worker EXCEPT ![w] = Done(worker[w])]
  /\ UNCHANGED <<log, enabled, subs, delivery, retrying, ghost>>

Crash(w) ==
  /\ worker[w].pc # "down"
  /\ Fault
  /\ worker' = [worker EXCEPT ![w] = Down]
  /\ UNCHANGED <<log, enabled, subs, delivery, retrying, ghost>>

Restart(w) ==
  /\ worker[w].pc = "down"
  /\ worker' = [worker EXCEPT ![w] = Idle]
  /\ UNCHANGED <<log, enabled, subs, delivery, retrying, faults, ghost>>
-----------------------------------------------------------------------------
(* Time *)

BackoffElapses(s, n) ==
  /\ delivery[s][n].state = "pending" /\ ~ delivery[s][n].due
  /\ delivery' = [delivery EXCEPT ![s][n].due = TRUE]
  /\ UNCHANGED <<log, enabled, subs, worker, retrying, faults, ghost>>

\* A lease of 30 seconds outlives an attempt of at most 15 and its
\* acknowledgement of at most 3, unless the worker's process stalls.
Attempting(s, n) == \E w \in Worker : worker[w].sub = s /\ worker[w].event = n
                                      /\ delivery[s][n].owner = w
LeaseExpires(s, n) ==
  /\ delivery[s][n].live
  /\ IF Attempting(s, n) THEN Fault ELSE UNCHANGED faults
  /\ delivery' = [delivery EXCEPT ![s][n].live = FALSE]
  /\ UNCHANGED <<log, enabled, subs, worker, retrying, ghost>>

Works(w) == \/ \E s \in Sub : ClaimCallback(w, s)
            \/ CheckFails(w) \/ Post(w) \/ ReceiverAccepts(w) \/ PostFails(w)
            \/ FinishCallback(w) \/ LeaseLost(w)

Owner(s) == \/ \E after \in 0..MaxEvents : SubscribeCallback(s, after)
            \/ CancelCallback(s) \/ RotateCallbackKey(s)
            \/ \E n \in Event : RetryReads(s, n) \/ RetryCallback(s, n)

Next == \/ Publish
        \/ \E p \in Peer : DisablePeer(p)
        \/ \E s \in Sub : Owner(s)
        \/ \E w \in Worker : Works(w) \/ FinishFails(w) \/ Crash(w) \/ Restart(w)
        \/ \E s \in Sub, n \in Event : BackoffElapses(s, n) \/ LeaseExpires(s, n)

Spec == Init /\ [][Next]_vars

\* Workers poll and time passes; an interrupted or crashed worker need not
\* come back, and nobody need cancel, rotate or retry.
Fairness == /\ \A w \in Worker : WF_vars(Works(w))
            /\ \A s \in Sub, n \in Event : WF_vars(BackoffElapses(s, n))
                                        /\ WF_vars(LeaseExpires(s, n))
FairSpec == Spec /\ Fairness
-----------------------------------------------------------------------------
(* Properties *)

\* The feed of each subscription is the one CallbackFeed promises: no event is
\* skipped or acknowledged unaccepted, through crashes, lost leases, dead
\* letters, key rotations and revocation with requests still in flight.
Feed == INSTANCE CallbackFeed WITH
          open     <- {s \in active : PeerOf[s] \in enabled},
          position <- cursor,
          accepted <- [s \in Sub |-> {n \in Event : <<n, generation[s]>> \in accepted[s]}]
ImplementsFeed == Feed!FeedSpec

\* What is not delivered is at the head of its feed: the claim transaction
\* never finds its next event in a state that it cannot lease, which would
\* stop every subscription behind it, and nothing overtakes a dead letter.
HeadOfLine ==
  \A s \in active, n \in Event :
    delivery[s][n].state \in {"pending", "dead", "cancelled"} =>
      /\ Upcoming(s) # {} /\ n = Min(Upcoming(s))
      /\ delivery[s][n].state # "cancelled"

\* An event is posted at most MaxAttempts times until somebody retries its dead
\* letter, whatever crashes, lost leases and rotations intervene.
AttemptsBounded == \A s \in Sub, n \in Event : sends[s][n] <= MaxAttempts

\* Every event of an open subscription is delivered or stops at a dead letter
\* while a worker runs, whatever crashed or stalled in an attempt at it.
Stopped(s) == \/ s \notin active \/ PeerOf[s] \notin enabled
              \/ \E n \in Event : delivery[s][n].state = "dead"
EventsSettle ==
  (\E w \in Worker : <>[](worker[w].pc # "down"))
    => \A s \in Sub : []<>(Upcoming(s) = {} \/ Stopped(s))
=============================================================================
