---------------------------- MODULE CallbacksProofs ----------------------------
(***************************************************************************)
(* Proofs about the callbacks of Callbacks, for any peers, subscriptions,  *)
(* workers, events, keys and faults, and any limit of attempts.            *)
(*                                                                         *)
(* The inductive invariant ties each delivery to the head of its feed and  *)
(* to the requests made for it (RowOf), and what each worker carries to    *)
(* the delivery it claimed, which others may have taken, rotated,          *)
(* cancelled or retried since (WorkOf).                                    *)
(***************************************************************************)
EXTENDS Callbacks, WellFoundedInduction, TLAPS

\* The next event of a subscription, without CHOOSE.
First(s, n) == n \in Upcoming(s) /\ \A k \in Upcoming(s) : n <= k

RowOf(s, n) == LET d == delivery[s][n] IN
  /\ s \notin subscribed => s \notin active /\ d.state = "none"
  /\ d.state \in {"none", "delivered", "dead"} => d.owner = NoWorker
  /\ s \in active /\ d.state \in {"pending", "dead", "cancelled"}
       => First(s, n) /\ d.state # "cancelled"
  /\ sends[s][n] <= d.attempts /\ sends[s][n] <= MaxAttempts
  /\ d.state = "dead" => sends[s][n] = 0
Rows == \A s \in Sub, n \in Event : RowOf(s, n)

\* An acceptance is signed with a key that exists.
Signed == \A s \in Sub, n \in Event, g \in Nat :
            <<n, g>> \in accepted[s] => g <= generation[s]

Busy(w) == worker[w].pc \in {"claimed", "posting", "answered"}
\* A claim under the key in force is of the next event, or of one accepted.
WorkOf(w) == LET c == worker[w] IN
  /\ c.sub \in subscribed /\ c.event \in Event /\ c.gen <= generation[c.sub]
  /\ Row(w).owner = w =>
       /\ Row(w).attempts = c.attempts
       /\ c.pc = "claimed" => sends[c.sub][c.event] < c.attempts
  /\ c.gen = generation[c.sub] =>
       First(c.sub, c.event) \/ <<c.event, c.gen>> \in accepted[c.sub]
  /\ c.pc = "answered" /\ c.outcome = "accepted" =>
       <<c.event, c.gen>> \in accepted[c.sub]
Work == \A w \in Worker : Busy(w) => WorkOf(w)

IInv == TypeOK /\ Rows /\ Signed /\ Work
-----------------------------------------------------------------------------
(* The next event *)

LEMMA LeastExists ==
  ASSUME NEW S \in SUBSET Nat, S # {}
  PROVE  Min(S) \in S /\ \A k \in S : Min(S) <= k
  <1> DEFINE R == {p \in Nat \X Nat : p[1] < p[2]}
  <1>1. IsWellFoundedOn(R, Nat)
    BY NatLessThanWellFounded DEF OpToRel
  <1>2. \A x, y \in Nat : y < x => <<y, x>> \in R
    OBVIOUS
  <1> HIDE DEF R
  <1>3. PICK x \in S : \A y \in S : ~ (<<y, x>> \in R)
    BY <1>1, WFMin
  <1>4. \A y \in S : ~ (y < x)
    BY <1>2, <1>3, Zenon
  <1>5. \A y \in S : x <= y
    BY <1>4
  <1> QED BY <1>5 DEF Min

LEMMA UpcomingEvents ==
  ASSUME TypeOK, NEW s \in Sub
  PROVE  Upcoming(s) \subseteq Event
  BY BoundAssumption DEF TypeOK, Upcoming, Event

LEMMA FirstIsMin ==
  ASSUME TypeOK, NEW s \in Sub, NEW n \in Event
  PROVE  First(s, n) <=> Upcoming(s) # {} /\ n = Min(Upcoming(s))
  <1>1. Upcoming(s) \in SUBSET Nat
    BY UpcomingEvents DEF Event
  <1>2. CASE Upcoming(s) = {}
    BY <1>2 DEF First
  <1>3. CASE Upcoming(s) # {}
    <2>1. /\ Min(Upcoming(s)) \in Upcoming(s)
          /\ \A k \in Upcoming(s) : Min(Upcoming(s)) <= k
      BY <1>1, <1>3, LeastExists
    <2>2. First(s, n) => n = Min(Upcoming(s))
      BY <1>1, <2>1 DEF First
    <2> QED BY <1>3, <2>1, <2>2 DEF First
  <1> QED BY <1>2, <1>3

\* What is next stays next while the cursor rests and the log grows.
LogGrows == log' = log \/ \E concerned \in SUBSET Peer : log' = Append(log, concerned)

LEMMA FirstStays ==
  ASSUME TypeOK, LogGrows, NEW s \in Sub, cursor'[s] = cursor[s], NEW n \in Event
  PROVE  First(s, n) => First(s, n)'
  <1>1. Len(log) \in Nat /\ Len(log) <= Len(log') /\ Len(log') \in Nat
    BY DEF TypeOK, LogGrows
  <1>2. \A k \in 1..Len(log) : log'[k] = log[k]
    BY DEF TypeOK, LogGrows
  <1>3. \A k \in 1..Len(log) : k \in Upcoming(s) <=> k \in Upcoming(s)'
    BY <1>1, <1>2 DEF Upcoming
  <1>4. \A k \in Upcoming(s)' : k \in 1..Len(log) \/ (k \in Nat /\ k > Len(log))
    BY <1>1 DEF Upcoming
  <1> QED BY <1>1, <1>3, <1>4 DEF First, Upcoming, Event
-----------------------------------------------------------------------------
(* What a step leaves alone *)

RowFixed(s, n) == /\ delivery'[s][n] = delivery[s][n] /\ sends'[s][n] = sends[s][n]
                  /\ cursor'[s] = cursor[s]
                  /\ s \in active' => s \in active
                  /\ s \in subscribed => s \in subscribed'

LEMMA RowKept ==
  ASSUME TypeOK, LogGrows, NEW s \in Sub, NEW n \in Event, RowOf(s, n), RowFixed(s, n)
  PROVE  RowOf(s, n)'
  <1>1. First(s, n) => First(s, n)'
    BY FirstStays DEF RowFixed
  <1> QED BY <1>1 DEF RowOf, RowFixed

\* The delivery a worker claimed is its own with as many attempts, or not its own.
ClaimKept(w) == LET c == worker[w] IN
  /\ worker'[w] = c
  /\ subscribed \subseteq subscribed' /\ cursor'[c.sub] = cursor[c.sub]
  /\ generation[c.sub] <= generation'[c.sub] /\ accepted[c.sub] \subseteq accepted'[c.sub]
  /\ delivery'[c.sub][c.event].owner = w =>
       /\ delivery[c.sub][c.event].owner = w
       /\ delivery'[c.sub][c.event].attempts = delivery[c.sub][c.event].attempts
       /\ c.pc = "claimed" => sends'[c.sub][c.event] \in {0, sends[c.sub][c.event]}

LEMMA WorkKept ==
  ASSUME TypeOK, TypeOK', LogGrows, NEW w \in Worker, Busy(w) => WorkOf(w), Busy(w) => ClaimKept(w),
         worker'[w] = worker[w]
  PROVE  Busy(w)' => WorkOf(w)'
  <1> SUFFICES ASSUME Busy(w)'
               PROVE  WorkOf(w)'
    OBVIOUS
  <1> DEFINE c == worker[w]
  <1>1. Busy(w) /\ WorkOf(w) /\ ClaimKept(w)
    BY DEF Busy
  <1>2. c.sub \in Sub /\ c.event \in Event /\ c.gen \in Nat
    BY <1>1 DEF WorkOf, TypeOK, Claim
  <1>3. First(c.sub, c.event) => First(c.sub, c.event)'
    BY <1>1, <1>2, FirstStays DEF ClaimKept
  <1>4. generation[c.sub] \in Nat /\ generation'[c.sub] \in Nat
    BY <1>2 DEF TypeOK
  <1>5. c.gen = generation'[c.sub] => c.gen = generation[c.sub]
    BY <1>1, <1>2, <1>4 DEF WorkOf, ClaimKept
  <1>6. Row(w) = delivery[c.sub][c.event] /\ Row(w)' = delivery'[c.sub][c.event]
    BY DEF Row
  <1>7. c.sub \in subscribed' /\ c.gen <= generation'[c.sub]
    BY <1>1, <1>2, <1>4, SMTT(30) DEF WorkOf, ClaimKept
  <1>8. Row(w)'.owner = w =>
          /\ Row(w)'.attempts = c.attempts
          /\ c.pc = "claimed" => sends'[c.sub][c.event] < c.attempts
    <2>1. sends[c.sub][c.event] \in Nat /\ sends'[c.sub][c.event] \in Nat /\ c.attempts \in Nat
      BY <1>2 DEF TypeOK, Claim
    <2> QED BY <1>1, <1>6, <2>1, SMTT(30) DEF WorkOf, ClaimKept
  <1>9. /\ c.gen = generation'[c.sub] =>
             First(c.sub, c.event)' \/ <<c.event, c.gen>> \in accepted'[c.sub]
        /\ c.pc = "answered" /\ c.outcome = "accepted" =>
             <<c.event, c.gen>> \in accepted'[c.sub]
    BY <1>1, <1>3, <1>5 DEF WorkOf, ClaimKept
  <1> QED BY <1>2, <1>7, <1>8, <1>9 DEF WorkOf

\* An idle worker or one that is down carries nothing.
LEMMA NoClaim ==
  /\ Idle \in Claim /\ Down \in Claim /\ Idle.pc = "idle" /\ Down.pc = "down"
  /\ \A c : Done(c) \in {Idle, Down}
  BY DEF Idle, Down, Claim, Done

-----------------------------------------------------------------------------
(* The correspondence and the peer's owner *)

LEMMA EnvironmentStep ==
  ASSUME IInv, Publish \/ \E p \in Peer : DisablePeer(p)
  PROVE  IInv'
  <1>1. TypeOK'
    <2>1. CASE Publish
      <3>1. log' \in Seq(SUBSET Peer) /\ Len(log') <= MaxEvents
        BY <2>1, BoundAssumption DEF IInv, TypeOK, Publish
      <3> QED BY <2>1, <3>1 DEF IInv, TypeOK, Publish, subs, order, ghost
    <2>2. CASE \E p \in Peer : DisablePeer(p)
      BY <2>2 DEF IInv, TypeOK, DisablePeer, subs, order, ghost
    <2> QED BY <2>1, <2>2
  <1>2. LogGrows /\ UNCHANGED <<subs, delivery, worker, ghost>>
    BY DEF Publish, DisablePeer, LogGrows
  <1>3. Rows'
    BY <1>2, RowKept DEF IInv, Rows, RowFixed, subs, order, ghost
  <1>4. Signed'
    BY <1>2 DEF IInv, Signed, subs, ghost
  <1>5. ASSUME NEW w \in Worker, Busy(w) PROVE ClaimKept(w)
    <2>1. WorkOf(w) /\ worker[w].sub \in Sub
      BY <1>5 DEF IInv, Work, WorkOf, TypeOK
    <2> QED BY <1>2, <2>1 DEF ClaimKept, subs, order, ghost, IInv, TypeOK
  <1>6. Work'
    BY <1>1, <1>2, <1>5, WorkKept DEF IInv, Work
  <1> QED BY <1>1, <1>3, <1>4, <1>6 DEF IInv

LEMMA SubscribeStep ==
  ASSUME IInv, NEW s \in Sub, NEW after \in 0..MaxEvents, SubscribeCallback(s, after)
  PROVE  IInv'
  <1>1. before' \subseteq Sub \X Sub
    BY DEF IInv, TypeOK, SubscribeCallback, Enrolled
  <1>2. TypeOK'
    BY <1>1, BoundAssumption DEF IInv, TypeOK, SubscribeCallback, ghost
  <1>3. LogGrows
    BY DEF SubscribeCallback, LogGrows
  <1>4. ASSUME NEW t \in Sub, NEW n \in Event PROVE RowOf(t, n)'
    <2>1. CASE t # s
      BY <1>3, <2>1, RowKept DEF IInv, Rows, RowFixed, SubscribeCallback, TypeOK, ghost
    <2>2. CASE t = s
      BY <2>2 DEF IInv, Rows, RowOf, SubscribeCallback, TypeOK, ghost
    <2> QED BY <2>1, <2>2
  <1>5. Signed'
    BY DEF IInv, Signed, SubscribeCallback, ghost
  <1>6. ASSUME NEW w \in Worker, Busy(w) PROVE ClaimKept(w)
    <2>1. worker[w].sub \in subscribed /\ worker[w].sub \in Sub
      BY <1>6 DEF IInv, Work, WorkOf, TypeOK
    <2> QED BY <2>1 DEF ClaimKept, SubscribeCallback, ghost, IInv, TypeOK
  <1>7. Work'
    BY <1>2, <1>3, <1>6, WorkKept DEF IInv, Work, SubscribeCallback
  <1> QED BY <1>2, <1>4, <1>5, <1>7 DEF IInv, Rows

LEMMA CancelStep ==
  ASSUME IInv, NEW s \in Sub, CancelCallback(s)
  PROVE  IInv'
  <1> DEFINE cancelled(d) == IF d.state = "pending" THEN [d EXCEPT !.state = "cancelled"] ELSE d
  <1>1. \A n \in Event : delivery[s][n] \in Delivery
    BY DEF IInv, TypeOK
  <1>2. \A d \in Delivery : /\ cancelled(d) \in Delivery /\ cancelled(d).owner = d.owner
                            /\ cancelled(d).attempts = d.attempts
                            /\ d.state # "pending" => cancelled(d) = d
                            /\ d.state = "pending" => cancelled(d).state = "cancelled"
    BY DEF Delivery
  <1>3. delivery' = [delivery EXCEPT ![s] = [n \in Event |-> cancelled(delivery[s][n])]]
    BY DEF CancelCallback, IInv, TypeOK
  <1> HIDE DEF cancelled
  <1>4. /\ \A t \in Sub, n \in Event : t # s => delivery'[t][n] = delivery[t][n]
        /\ \A n \in Event : delivery'[s][n] = cancelled(delivery[s][n])
    BY <1>3 DEF IInv, TypeOK
  <1>5. TypeOK'
    <2>1. delivery' \in [Sub -> [Event -> Delivery]]
      BY <1>1, <1>2, <1>3 DEF IInv, TypeOK
    <2>2. sends' \in [Sub -> [Event -> Nat]]
      BY DEF IInv, TypeOK, CancelCallback
    <2> QED BY <2>1, <2>2 DEF IInv, TypeOK, CancelCallback, order
  <1>6. LogGrows
    BY DEF CancelCallback, LogGrows
  <1>7. ASSUME NEW t \in Sub, NEW n \in Event PROVE RowOf(t, n)'
    <2>1. CASE t # s
      <3>1. sends'[t][n] = sends[t][n]
        BY <2>1 DEF CancelCallback, IInv, TypeOK
      <3> QED BY <1>4, <1>6, <2>1, <3>1, RowKept DEF IInv, Rows, RowFixed, CancelCallback, order
    <2>2. CASE t = s
      <3>1. RowOf(s, n) /\ s \notin active'
        BY DEF IInv, Rows, CancelCallback
      <3>2. sends'[s][n] = 0 /\ sends[s][n] \in Nat /\ delivery[s][n].attempts \in Nat
            /\ MaxAttempts \in Nat
        BY <1>1, BoundAssumption DEF CancelCallback, IInv, TypeOK, Delivery
      <3> QED BY <1>1, <1>2, <1>4, <2>2, <3>1, <3>2 DEF RowOf, CancelCallback, order
    <2> QED BY <2>1, <2>2
  <1>8. Signed'
    BY DEF IInv, Signed, CancelCallback
  <1>9. ASSUME NEW w \in Worker, Busy(w) PROVE ClaimKept(w)
    <2>1. worker[w].sub \in Sub /\ worker[w].event \in Event
      BY <1>9 DEF IInv, Work, WorkOf, TypeOK
    <2>2. /\ delivery'[worker[w].sub][worker[w].event].owner
               = delivery[worker[w].sub][worker[w].event].owner
          /\ delivery'[worker[w].sub][worker[w].event].attempts
               = delivery[worker[w].sub][worker[w].event].attempts
      BY <1>1, <1>2, <1>4, <2>1
    <2>3. sends'[worker[w].sub][worker[w].event] \in {0, sends[worker[w].sub][worker[w].event]}
      BY <2>1 DEF CancelCallback, IInv, TypeOK
    <2> QED BY <2>1, <2>2, <2>3, SMTT(30)
               DEF ClaimKept, CancelCallback, order, IInv, TypeOK
  <1>10. Work'
    BY <1>5, <1>6, <1>9, WorkKept DEF IInv, Work, CancelCallback
  <1> QED BY <1>5, <1>7, <1>8, <1>10 DEF IInv, Rows

\* Retrying a dead letter counts its attempts anew.
LEMMA RetryStep ==
  ASSUME IInv, NEW s \in Sub, NEW n \in Event, RetryReads(s, n) \/ RetryCallback(s, n)
  PROVE  IInv'
  <1>1. CASE delivery' = delivery
    <2>1. TypeOK'
      BY <1>1 DEF IInv, TypeOK, RetryReads, RetryCallback, subs, order, ghost
    <2>2. LogGrows /\ UNCHANGED <<subs, delivery, worker, ghost>>
      BY <1>1 DEF RetryReads, RetryCallback, LogGrows, ghost
    <2>3. Rows'
      BY <2>2, RowKept DEF IInv, Rows, RowFixed, subs, order, ghost
    <2>4. ASSUME NEW w \in Worker, Busy(w) PROVE ClaimKept(w)
      <3>1. WorkOf(w) /\ worker[w].sub \in Sub
        BY <2>4 DEF IInv, Work, WorkOf, TypeOK
      <3> QED BY <2>2, <3>1 DEF ClaimKept, subs, order, ghost, IInv, TypeOK
    <2>5. Work'
      BY <2>1, <2>2, <2>4, WorkKept DEF IInv, Work
    <2> QED BY <2>1, <2>2, <2>3, <2>5 DEF IInv, Signed, subs, ghost
  <1>2. CASE RetryCallback(s, n) /\ delivery[s][n].state = "dead"
    <2> DEFINE again == [NoDelivery EXCEPT !.state = "pending"]
    <2>1. again \in Delivery /\ again.owner = NoWorker /\ again.attempts = 0
          /\ again.state = "pending"
      BY DEF NoDelivery, Delivery
    <2>2. /\ delivery' = [delivery EXCEPT ![s][n] = again]
          /\ UNCHANGED <<log, enabled, subs, worker, faults, accepted, sends>>
          /\ retrying' \subseteq retrying
      BY <1>2 DEF RetryCallback, ghost
    <2> HIDE DEF again
    <2>3. TypeOK'
      BY <2>1, <2>2 DEF IInv, TypeOK, subs, order
    <2>4. LogGrows
      BY <2>2 DEF LogGrows
    <2>5. ASSUME NEW t \in Sub, NEW k \in Event PROVE RowOf(t, k)'
      <3>1. CASE t # s \/ k # n
        BY <2>2, <2>4, <3>1, RowKept DEF IInv, Rows, RowFixed, TypeOK, subs, order
      <3>2. CASE t = s /\ k = n
        <4>1. delivery'[s][n] = again /\ sends'[s][n] = 0
          BY <1>2, <2>2 DEF IInv, Rows, RowOf, TypeOK
        <4>2. s \in subscribed /\ (s \in active => First(s, n))
          BY <1>2 DEF IInv, Rows, RowOf
        <4>3. First(s, n) => First(s, n)'
          BY <2>2, <2>4, FirstStays DEF IInv, subs
        <4> QED BY <2>1, <2>2, <3>2, <4>1, <4>2, <4>3, BoundAssumption DEF RowOf, subs, order
      <3> QED BY <3>1, <3>2
    <2>6. ASSUME NEW w \in Worker, Busy(w) PROVE ClaimKept(w)
      <3>1. worker[w].sub \in Sub /\ worker[w].event \in Event
        BY <2>6 DEF IInv, Work, WorkOf, TypeOK
      <3>2. CASE worker[w].sub = s /\ worker[w].event = n
        <4>1. delivery'[worker[w].sub][worker[w].event].owner # w
          BY <2>1, <2>2, <3>2, WorkerAssumption DEF IInv, TypeOK
        <4> QED BY <2>2, <3>1, <4>1 DEF ClaimKept, subs, order, IInv, TypeOK
      <3>3. CASE worker[w].sub # s \/ worker[w].event # n
        BY <2>2, <3>1, <3>3 DEF ClaimKept, subs, order, IInv, TypeOK
      <3> QED BY <3>2, <3>3
    <2>7. Work'
      BY <2>2, <2>3, <2>4, <2>6, WorkKept DEF IInv, Work
    <2> QED BY <2>2, <2>3, <2>5, <2>7 DEF IInv, Rows, Signed, subs
  <1> QED BY <1>1, <1>2 DEF RetryReads, RetryCallback, ghost

LEMMA RotateStep ==
  ASSUME IInv, NEW s \in Sub, RotateCallbackKey(s)
  PROVE  IInv'
  <1> DEFINE rotated(d) == IF d.state = "pending" THEN Released(d) ELSE d
  <1>1. \A n \in Event : delivery[s][n] \in Delivery
    BY DEF IInv, TypeOK
  <1>2. \A d \in Delivery : /\ rotated(d) \in Delivery
                            /\ rotated(d).owner \in {d.owner, NoWorker}
                            /\ rotated(d).attempts = d.attempts
                            /\ rotated(d).state = d.state
    BY DEF Delivery, Released
  <1>3. /\ delivery' = [delivery EXCEPT ![s] = [n \in Event |-> rotated(delivery[s][n])]]
        /\ generation' = [generation EXCEPT ![s] = generation[s] + 1]
        /\ UNCHANGED <<log, enabled, active, cursor, order, worker, retrying, faults, ghost>>
    BY DEF RotateCallbackKey, IInv, TypeOK
  <1> HIDE DEF rotated
  <1>4. /\ \A t \in Sub, n \in Event : t # s => delivery'[t][n] = delivery[t][n]
        /\ \A n \in Event : delivery'[s][n] = rotated(delivery[s][n])
        /\ \A t \in Sub : generation[t] \in Nat /\ generation'[t] \in Nat
                          /\ generation[t] <= generation'[t]
    BY <1>3 DEF IInv, TypeOK
  <1>5. TypeOK'
    <2>1. delivery' \in [Sub -> [Event -> Delivery]]
      BY <1>1, <1>2, <1>3 DEF IInv, TypeOK
    <2>2. generation' \in [Sub -> Nat]
      BY <1>3 DEF IInv, TypeOK
    <2> QED BY <1>3, <2>1, <2>2 DEF IInv, TypeOK, order, ghost
  <1>6. LogGrows
    BY <1>3 DEF LogGrows
  <1>7. ASSUME NEW t \in Sub, NEW n \in Event PROVE RowOf(t, n)'
    <2>1. CASE t # s
      BY <1>3, <1>4, <1>6, <2>1, RowKept DEF IInv, Rows, RowFixed, order, ghost
    <2>2. CASE t = s
      <3>1. RowOf(s, n)
        BY DEF IInv, Rows
      <3>2. First(s, n) => First(s, n)'
        BY <1>3, <1>6, FirstStays DEF IInv
      <3>3. /\ delivery'[s][n].state = delivery[s][n].state
            /\ delivery'[s][n].attempts = delivery[s][n].attempts
            /\ delivery'[s][n].owner \in {delivery[s][n].owner, NoWorker}
        BY <1>1, <1>2, <1>4
      <3> QED BY <1>3, <2>2, <3>1, <3>2, <3>3 DEF RowOf, order, ghost
    <2> QED BY <2>1, <2>2
  <1>8. Signed'
    <2> SUFFICES ASSUME NEW t \in Sub, NEW n \in Event, NEW g \in Nat,
                        <<n, g>> \in accepted'[t]
                 PROVE  g <= generation'[t]
      BY DEF Signed
    <2>1. g <= generation[t]
      BY <1>3 DEF IInv, Signed, ghost
    <2> QED BY <1>4, <2>1
  <1>9. ASSUME NEW w \in Worker, Busy(w) PROVE ClaimKept(w)
    <2>1. worker[w].sub \in Sub /\ worker[w].event \in Event
      BY <1>9 DEF IInv, Work, WorkOf, TypeOK
    <2>2. /\ delivery'[worker[w].sub][worker[w].event].owner
               \in {delivery[worker[w].sub][worker[w].event].owner, NoWorker}
          /\ delivery'[worker[w].sub][worker[w].event].attempts
               = delivery[worker[w].sub][worker[w].event].attempts
      BY <1>1, <1>2, <1>4, <2>1
    <2> QED BY <1>3, <1>4, <2>1, <2>2, WorkerAssumption
            DEF ClaimKept, order, ghost, IInv, TypeOK
  <1>10. Work'
    BY <1>3, <1>5, <1>6, <1>9, WorkKept DEF IInv, Work
  <1> QED BY <1>5, <1>7, <1>8, <1>10 DEF IInv, Rows
-----------------------------------------------------------------------------
(* The worker *)

\* A step of one worker, on at most the one delivery of another worker's interest.
Others(w) == /\ \A v \in Worker : v # w => worker'[v] = worker[v]
             /\ \A v \in Worker : v # w /\ Busy(v) => ClaimKept(v)

LEMMA WorkStep ==
  ASSUME IInv, TypeOK', LogGrows, NEW w \in Worker, Others(w), Busy(w)' => WorkOf(w)'
  PROVE  Work'
  <1> SUFFICES ASSUME NEW v \in Worker
               PROVE  Busy(v)' => WorkOf(v)'
    BY DEF Work
  <1>1. CASE v # w
    BY <1>1, WorkKept DEF IInv, Work, Others
  <1> QED BY <1>1

LEMMA ClaimStep ==
  ASSUME IInv, NEW w \in Worker, NEW s \in Sub, ClaimCallback(w, s)
  PROVE  IInv'
  <1>0. Min(Upcoming(s)) \in Upcoming(s) /\ Min(Upcoming(s)) \in Event
    <2>1. Upcoming(s) \in SUBSET Nat /\ Upcoming(s) # {} /\ Upcoming(s) \subseteq Event
      BY UpcomingEvents DEF ClaimCallback, Claimable, Event, IInv
    <2> QED BY <2>1, LeastExists
  <1>1. PICK n \in Event : n = Min(Upcoming(s)) /\ n \in Upcoming(s)
    BY <1>0
  <1>2. First(s, n)
    BY <1>1, FirstIsMin DEF IInv
  <1>3. n \in Nat
    BY DEF Event
  <1> DEFINE taken == [delivery[s][n] EXCEPT !.state = "pending",
                         !.attempts = delivery[s][n].attempts + 1, !.owner = w, !.live = TRUE]
             claim == [pc |-> "claimed", sub |-> s, event |-> n, gen |-> generation[s],
                       attempts |-> delivery[s][n].attempts + 1, outcome |-> "none"]
  <1>4. /\ delivery' = [delivery EXCEPT ![s][n] = taken]
        /\ worker' = [worker EXCEPT ![w] = claim]
        /\ s \in active /\ worker[w].pc = "idle"
        /\ UNCHANGED <<log, enabled, active, cursor, generation, subscribed, retrying,
                       faults, ghost>>
    <2>1. delivery' = [delivery EXCEPT ![s][n] = taken]
      BY <1>1 DEF ClaimCallback
    <2>2. worker' = [worker EXCEPT ![w] = claim]
      BY <1>1 DEF ClaimCallback
    <2> QED BY <2>1, <2>2 DEF ClaimCallback, Claimable
  <1>5. delivery[s][n] \in Delivery /\ taken \in Delivery
    <2>1. delivery[s][n] \in Delivery
      BY DEF IInv, TypeOK
    <2>2. \A d \in Delivery : [d EXCEPT !.state = "pending", !.attempts = d.attempts + 1,
                                 !.owner = w, !.live = TRUE] \in Delivery
      <3> TAKE d \in Delivery
      <3>1. d.attempts + 1 \in Nat
        BY DEF Delivery
      <3>2. \A i \in Nat : [d EXCEPT !.state = "pending", !.attempts = i,
                                      !.owner = w, !.live = TRUE] \in Delivery
        BY DEF Delivery
      <3> QED BY <3>1, <3>2
    <2> QED BY <2>1, <2>2
  <1>6. taken.owner = w /\ taken.state = "pending" /\ taken.attempts = delivery[s][n].attempts + 1
    BY <1>5 DEF Delivery
  <1>7. claim \in Claim
    BY <1>3, <1>5 DEF Claim, Delivery, IInv, TypeOK
  <1>8. generation[s] \in Nat /\ delivery[s][n].attempts \in Nat /\ sends[s][n] \in Nat
    BY <1>1, <1>5 DEF IInv, TypeOK, Delivery
  <1>9. /\ claim.sub = s /\ claim.event = n /\ claim.gen = generation[s] /\ claim.pc = "claimed"
        /\ claim.attempts = delivery[s][n].attempts + 1
    OBVIOUS
  <1> HIDE DEF taken, claim
  <1>10. LogGrows
    BY <1>4 DEF LogGrows
  <1>11. RowOf(s, n) /\ s \in subscribed
    BY <1>1, <1>4 DEF IInv, Rows, RowOf
  <1>12. TypeOK'
    <2>1. before' \subseteq Sub \X Sub
      BY DEF ClaimCallback, MovedLast, IInv, TypeOK
    <2> QED BY <1>1, <1>4, <1>5, <1>7, <2>1 DEF IInv, TypeOK, ghost
  <1>13. ASSUME NEW t \in Sub, NEW k \in Event PROVE RowOf(t, k)'
    <2>1. CASE t # s \/ k # n
      <3>1. RowFixed(t, k)
        BY <1>1, <1>4, <2>1 DEF RowFixed, IInv, TypeOK, ghost
      <3> QED BY <1>10, <3>1, RowKept DEF IInv, Rows
    <2>2. CASE t = s /\ k = n
      <3>1. First(s, n)'
        BY <1>1, <1>2, <1>4, <1>10, FirstStays DEF IInv
      <3>2. delivery'[s][n] = taken /\ sends'[s][n] = sends[s][n]
        BY <1>1, <1>4 DEF IInv, TypeOK, ghost
      <3> QED BY <1>4, <1>6, <1>8, <1>11, <2>2, <3>1, <3>2 DEF RowOf
    <2> QED BY <2>1, <2>2
  <1>14. Signed'
    BY <1>4 DEF IInv, Signed, ghost
  <1>15. WorkOf(w)'
    <2>1. worker'[w] = claim
      BY <1>4 DEF IInv, TypeOK
    <2>2. First(s, n)'
      BY <1>1, <1>2, <1>4, <1>10, FirstStays DEF IInv
    <2>3. Row(w)' = taken /\ sends'[s][n] = sends[s][n]
      BY <1>1, <1>4, <1>9, <2>1 DEF Row, IInv, TypeOK, ghost
    <2>4. sends[s][n] < delivery[s][n].attempts + 1
      BY <1>8, <1>11 DEF RowOf
    <2> QED BY <1>1, <1>4, <1>6, <1>8, <1>9, <1>11, <2>1, <2>2, <2>3, <2>4 DEF WorkOf
  <1>16. Others(w)
    <2>1. ASSUME NEW v \in Worker, v # w, Busy(v) PROVE ClaimKept(v)
      <3>1. worker[v].sub \in Sub /\ worker[v].event \in Event
        BY <2>1 DEF IInv, Work, WorkOf, TypeOK
      <3>2. worker'[v] = worker[v]
        BY <1>4, <2>1 DEF IInv, TypeOK
      <3>3. CASE worker[v].sub = s /\ worker[v].event = n
        <4>1. delivery'[worker[v].sub][worker[v].event].owner # v
          BY <1>1, <1>4, <1>6, <2>1, <3>3 DEF IInv, TypeOK
        <4> QED BY <1>4, <3>1, <3>2, <4>1 DEF ClaimKept, ghost, IInv, TypeOK
      <3>4. CASE worker[v].sub # s \/ worker[v].event # n
        BY <1>4, <3>1, <3>2, <3>4 DEF ClaimKept, ghost, IInv, TypeOK
      <3> QED BY <3>3, <3>4
    <2> QED BY <1>4, <2>1 DEF Others, IInv, TypeOK
  <1>17. Work'
    BY <1>10, <1>12, <1>15, <1>16, WorkStep
  <1> QED BY <1>12, <1>13, <1>14, <1>17 DEF IInv, Rows

\* Steps that move one worker on and leave the rows alone.
Moves(w) == /\ UNCHANGED <<log, enabled, subs, delivery, retrying, ghost>>
            /\ faults' \in Nat
            /\ \E c \in Claim : worker' = [worker EXCEPT ![w] = c]

LEMMA MoveStep ==
  ASSUME IInv, NEW w \in Worker, Moves(w),
         Busy(w)' => /\ Busy(w)
                     /\ worker'[w].sub = worker[w].sub /\ worker'[w].event = worker[w].event
                     /\ worker'[w].gen = worker[w].gen
                     /\ worker'[w].attempts = worker[w].attempts
                     /\ worker'[w].pc # "claimed"
                     /\ worker'[w].pc = "answered" => worker'[w].outcome # "accepted"
  PROVE  IInv'
  <1>1. TypeOK'
    BY DEF IInv, TypeOK, Moves, subs, order, ghost
  <1>2. LogGrows
    BY DEF Moves, LogGrows
  <1>3. Rows'
    BY <1>2, RowKept DEF IInv, Rows, RowFixed, Moves, subs, order, ghost
  <1>4. Signed'
    BY DEF IInv, Signed, Moves, subs, ghost
  <1>5. ASSUME Busy(w)' PROVE WorkOf(w)'
    <2>1. WorkOf(w) /\ worker[w].sub \in Sub /\ worker[w].event \in Event
      BY <1>5 DEF IInv, Work, WorkOf, TypeOK
    <2>2. PICK s \in Sub, n \in Event : s = worker[w].sub /\ n = worker[w].event
      BY <2>1
    <2>3. First(s, n) => First(s, n)'
      BY <1>2, <2>1, FirstStays DEF IInv, Moves, subs
    <2>4. Row(w)' = Row(w)
      BY <1>5 DEF Row, Moves
    <2> QED BY <1>5, <2>1, <2>2, <2>3, <2>4 DEF WorkOf, Moves, subs, order, ghost
  <1>6. Others(w)
    <2>1. ASSUME NEW v \in Worker, v # w, Busy(v) PROVE ClaimKept(v)
      <3>1. worker[v].sub \in Sub
        BY <2>1 DEF IInv, Work, WorkOf, TypeOK
      <3> QED BY <2>1, <3>1 DEF ClaimKept, Moves, subs, order, ghost, IInv, TypeOK
    <2> QED BY <2>1 DEF Others, Moves, IInv, TypeOK
  <1> QED BY <1>1, <1>2, <1>3, <1>4, <1>5, <1>6, WorkStep DEF IInv

\* Fields of a claim may change within their types.
LEMMA ClaimFields ==
  ASSUME NEW c \in Claim
  PROVE  /\ [c EXCEPT !.pc = "posting"] \in Claim
         /\ \A o \in {"accepted", "refused", "failed", "interrupted"} :
              [c EXCEPT !.pc = "answered", !.outcome = o] \in Claim
  BY DEF Claim

LEMMA MovingSteps ==
  ASSUME IInv, NEW w \in Worker,
         CheckFails(w) \/ PostFails(w) \/ LeaseLost(w) \/ FinishFails(w) \/ Crash(w) \/ Restart(w)
  PROVE  IInv'
  <1>0. worker[w] \in Claim /\ faults \in Nat
    BY DEF IInv, TypeOK
  <1>1. CASE CheckFails(w) \/ PostFails(w)
    <2>1. PICK o \in {"refused", "failed", "interrupted"} : Answer(w, o)
      BY <1>1 DEF CheckFails, PostFails
    <2>2. worker' = [worker EXCEPT ![w] = [worker[w] EXCEPT !.pc = "answered", !.outcome = o]]
      BY <2>1 DEF Answer, IInv, TypeOK
    <2>3. Moves(w)
      BY <1>0, <1>1, <2>2, ClaimFields DEF Moves, CheckFails, PostFails
    <2>4. worker'[w] = [worker[w] EXCEPT !.pc = "answered", !.outcome = o]
      BY <2>2 DEF IInv, TypeOK
    <2> QED BY <1>0, <1>1, <2>3, <2>4, MoveStep DEF Busy, CheckFails, PostFails, Claim
  <1>2. CASE LeaseLost(w) \/ FinishFails(w) \/ Crash(w) \/ Restart(w)
    <2>1. PICK c \in {Idle, Down} : worker' = [worker EXCEPT ![w] = c]
      BY <1>2, NoClaim DEF LeaseLost, FinishFails, Crash, Restart
    <2>2. faults' \in Nat
      BY <1>0, <1>2 DEF LeaseLost, FinishFails, Crash, Restart, Fault
    <2>3. Moves(w)
      BY <1>2, <2>1, <2>2, NoClaim
         DEF Moves, LeaseLost, FinishFails, Crash, Restart
    <2>4. ~ Busy(w)'
      BY <2>1, NoClaim DEF Busy, IInv, TypeOK
    <2> QED BY <2>3, <2>4, MoveStep
  <1> QED BY <1>1, <1>2

LEMMA PostStep ==
  ASSUME IInv, NEW w \in Worker, Post(w)
  PROVE  IInv'
  <1>0. Busy(w) /\ WorkOf(w) /\ worker[w] \in Claim
    BY DEF IInv, Work, Post, Busy, TypeOK
  <1>1. PICK s \in Sub, n \in Event : s = worker[w].sub /\ n = worker[w].event
    BY <1>0 DEF WorkOf, IInv, TypeOK
  <1> DEFINE c == worker[w]
             posted == [worker[w] EXCEPT !.pc = "posting"]
  <1>2. /\ worker' = [worker EXCEPT ![w] = posted]
        /\ sends' = [sends EXCEPT ![s][n] = sends[s][n] + 1]
        /\ UNCHANGED <<log, enabled, subs, delivery, retrying, faults, accepted>>
    BY <1>1 DEF Post, IInv, TypeOK
  <1>3. /\ posted \in Claim /\ posted.pc = "posting" /\ posted.sub = s /\ posted.event = n
        /\ posted.gen = c.gen /\ posted.attempts = c.attempts
    BY <1>0, <1>1, ClaimFields, ZenonT(60) DEF Claim
  <1> HIDE DEF posted
  <1>4. delivery[s][n].owner = w /\ delivery[s][n].attempts = c.attempts
        /\ c.attempts <= MaxAttempts /\ sends[s][n] < c.attempts /\ c.attempts \in Nat
        /\ delivery[s][n].state = "pending"
    BY <1>0, <1>1 DEF Post, Owned, Row, WorkOf, WithinAttempts, Claim
  <1>5. sends[s][n] \in Nat
    BY DEF IInv, TypeOK
  <1>6. TypeOK'
    BY <1>2, <1>3, SMTT(30) DEF IInv, TypeOK, subs, order
  <1>7. LogGrows
    BY <1>2 DEF LogGrows
  <1>8. ASSUME NEW t \in Sub, NEW k \in Event PROVE RowOf(t, k)'
    <2>1. CASE t # s \/ k # n
      <3>1. RowFixed(t, k)
        BY <1>2, <2>1 DEF RowFixed, subs, order, IInv, TypeOK
      <3> QED BY <1>7, <3>1, RowKept DEF IInv, Rows
    <2>2. CASE t = s /\ k = n
      <3>1. First(s, n) => First(s, n)'
        BY <1>2, <1>7, FirstStays DEF IInv, subs
      <3>2. sends'[s][n] = sends[s][n] + 1 /\ delivery' = delivery
        BY <1>2 DEF IInv, TypeOK
      <3>3. RowOf(s, n)
        BY DEF IInv, Rows
      <3>4. sends[s][n] + 1 <= delivery[s][n].attempts /\ sends[s][n] + 1 <= MaxAttempts
        BY <1>4, <1>5, BoundAssumption
      <3> QED BY <1>2, <1>4, <2>2, <3>1, <3>2, <3>3, <3>4 DEF RowOf, subs, order
    <2> QED BY <2>1, <2>2
  <1>9. Signed'
    BY <1>2 DEF IInv, Signed, subs
  <1>10. WorkOf(w)'
    <2>1. worker'[w] = posted
      BY <1>2 DEF IInv, TypeOK
    <2>2. First(s, n) => First(s, n)'
      BY <1>2, <1>7, FirstStays DEF IInv, subs
    <2>3. Row(w)' = delivery[s][n]
      BY <1>2, <1>3, <2>1 DEF Row
    <2> QED BY <1>0, <1>1, <1>2, <1>3, <1>4, <2>1, <2>2, <2>3 DEF WorkOf, subs, order
  <1>11. Others(w)
    <2>1. ASSUME NEW v \in Worker, v # w, Busy(v) PROVE ClaimKept(v)
      <3>1. worker[v].sub \in Sub /\ worker[v].event \in Event
        BY <2>1 DEF IInv, Work, WorkOf, TypeOK
      <3>2. worker'[v] = worker[v]
        BY <1>2, <2>1 DEF IInv, TypeOK
      <3>3. delivery'[worker[v].sub][worker[v].event].owner = v =>
              sends'[worker[v].sub][worker[v].event] = sends[worker[v].sub][worker[v].event]
        BY <1>2, <1>4, <2>1, <3>1 DEF IInv, TypeOK
      <3> QED BY <1>2, <3>1, <3>2, <3>3 DEF ClaimKept, subs, order, IInv, TypeOK
    <2> QED BY <1>2, <2>1 DEF Others, IInv, TypeOK
  <1> QED BY <1>6, <1>7, <1>8, <1>9, <1>10, <1>11, WorkStep DEF IInv, Rows

LEMMA AcceptStep ==
  ASSUME IInv, NEW w \in Worker, ReceiverAccepts(w)
  PROVE  IInv'
  <1>0. Busy(w) /\ WorkOf(w) /\ worker[w] \in Claim
    BY DEF IInv, Work, ReceiverAccepts, Busy, TypeOK
  <1>1. PICK s \in Sub, n \in Event : s = worker[w].sub /\ n = worker[w].event
    BY <1>0 DEF WorkOf, IInv, TypeOK
  <1>2. PICK o \in {"accepted", "failed", "interrupted"} : Answer(w, o)
    BY DEF ReceiverAccepts
  <1> DEFINE c == worker[w]
             heard == [worker[w] EXCEPT !.pc = "answered", !.outcome = o]
  <1>3. /\ worker' = [worker EXCEPT ![w] = heard]
        /\ accepted' = [accepted EXCEPT ![s] = accepted[s] \cup {<<n, c.gen>>}]
        /\ UNCHANGED <<log, enabled, subs, delivery, retrying, faults, sends>>
    BY <1>1, <1>2 DEF ReceiverAccepts, Answer, IInv, TypeOK
  <1>4. /\ heard \in Claim /\ heard.pc = "answered" /\ heard.sub = s /\ heard.event = n
        /\ heard.gen = c.gen /\ heard.attempts = c.attempts
    BY <1>0, <1>1, ClaimFields, ZenonT(60) DEF Claim
  <1> HIDE DEF heard
  <1>5. c.gen \in Nat /\ c.gen <= generation[s]
    BY <1>0, <1>1 DEF WorkOf, Claim
  <1>6. TypeOK'
    <2>1. accepted' \in [Sub -> SUBSET (Event \X Nat)]
      BY <1>3, <1>5 DEF IInv, TypeOK
    <2> QED BY <1>3, <1>4, <2>1 DEF IInv, TypeOK, subs, order
  <1>7. LogGrows
    BY <1>3 DEF LogGrows
  <1>8. Rows'
    BY <1>3, <1>7, RowKept DEF IInv, Rows, RowFixed, subs, order
  <1>9. Signed'
    <2> SUFFICES ASSUME NEW t \in Sub, NEW k \in Event, NEW g \in Nat,
                        <<k, g>> \in accepted'[t]
                 PROVE  g <= generation[t]
      BY <1>3 DEF Signed, subs
    <2>1. CASE <<k, g>> \in accepted[t]
      BY <2>1 DEF IInv, Signed
    <2>2. CASE t = s /\ g = c.gen
      BY <1>5, <2>2
    <2> QED BY <1>3, <2>1, <2>2 DEF IInv, TypeOK
  <1>10. WorkOf(w)'
    <2>1. worker'[w] = heard /\ <<n, c.gen>> \in accepted'[s]
      BY <1>3 DEF IInv, TypeOK
    <2>2. Row(w)' = Row(w)
      BY <1>1, <1>3, <1>4, <2>1 DEF Row
    <2> QED BY <1>0, <1>1, <1>3, <1>4, <2>1, <2>2 DEF WorkOf, subs, order
  <1>11. Others(w)
    <2>1. ASSUME NEW v \in Worker, v # w, Busy(v) PROVE ClaimKept(v)
      <3>1. worker[v].sub \in Sub /\ worker[v].event \in Event
        BY <2>1 DEF IInv, Work, WorkOf, TypeOK
      <3>2. worker'[v] = worker[v]
        BY <1>3, <2>1 DEF IInv, TypeOK
      <3>3. accepted[worker[v].sub] \subseteq accepted'[worker[v].sub]
        BY <1>3, <3>1 DEF IInv, TypeOK
      <3> QED BY <1>3, <3>1, <3>2, <3>3 DEF ClaimKept, subs, order, IInv, TypeOK
    <2> QED BY <1>3, <2>1 DEF Others, IInv, TypeOK
  <1> QED BY <1>6, <1>7, <1>8, <1>9, <1>10, <1>11, WorkStep DEF IInv

\* What a worker may finish is the next event of an open subscription, still
\* pending, or of a subscription that was cancelled meanwhile.
LEMMA FinishesNext ==
  ASSUME IInv, NEW w \in Worker, worker[w].pc = "answered", Finishable(w),
         NEW s \in Sub, NEW n \in Event, s = worker[w].sub, n = worker[w].event
  PROVE  /\ delivery[s][n].owner = w /\ delivery[s][n].attempts = worker[w].attempts
         /\ worker[w].gen = generation[s] /\ s \in subscribed
         /\ s \in active => First(s, n) /\ delivery[s][n].state = "pending"
         /\ worker[w].outcome = "accepted" => <<n, generation[s]>> \in accepted[s]
  <1>1. WorkOf(w) /\ RowOf(s, n) /\ delivery[s][n] \in Delivery
    BY DEF IInv, Work, Busy, Rows, TypeOK
  <1>2. delivery[s][n].owner = w /\ worker[w].gen = generation[s]
    BY DEF Finishable, Row
  <1>3. delivery[s][n].state \in {"pending", "cancelled"}
    BY <1>1, <1>2, WorkerAssumption DEF RowOf, Delivery
  <1> QED BY <1>1, <1>2, <1>3 DEF WorkOf, RowOf, Row

LEMMA MaxOfTwo ==
  ASSUME NEW a \in Nat, NEW b \in Nat
  PROVE  Max({a, b}) = IF a > b THEN a ELSE b
  BY DEF Max

LEMMA FinishStep ==
  ASSUME IInv, NEW w \in Worker, FinishCallback(w)
  PROVE  IInv'
  <1>0. Busy(w) /\ WorkOf(w) /\ worker[w] \in Claim /\ worker[w].pc = "answered" /\ Finishable(w)
    BY DEF IInv, Work, FinishCallback, Busy, TypeOK
  <1>1. PICK s \in Sub, n \in Event : s = worker[w].sub /\ n = worker[w].event
    BY <1>0 DEF WorkOf, IInv, TypeOK
  <1> DEFINE c == worker[w]
             due == c.outcome = "interrupted"
             done == [delivery[s][n] EXCEPT !.state = Outcome(c), !.due = due,
                                            !.owner = NoWorker, !.live = FALSE]
  <1>2. /\ delivery' = [delivery EXCEPT ![s][n] = done]
        /\ cursor' = [cursor EXCEPT ![s] = Advance(c)]
        /\ worker' = [worker EXCEPT ![w] = Done(c)]
        /\ UNCHANGED <<log, enabled, active, generation, order, retrying, faults, accepted>>
        /\ sends' = IF Outcome(c) = "pending" THEN sends ELSE [sends EXCEPT ![s][n] = 0]
    BY <1>1 DEF FinishCallback
  <1>3. /\ delivery[s][n].attempts = c.attempts
        /\ delivery[s][n].owner = w /\ c.gen = generation[s] /\ s \in subscribed
        /\ s \in active => First(s, n) /\ delivery[s][n].state = "pending"
        /\ c.outcome = "accepted" => <<n, generation[s]>> \in accepted[s]
    BY <1>0, <1>1, FinishesNext
  <1>4. /\ Outcome(c) \in {"cancelled", "delivered", "dead", "pending"}
        /\ s \notin active <=> Outcome(c) = "cancelled"
        /\ Outcome(c) = "delivered" => c.outcome = "accepted"
    BY <1>1 DEF Outcome
  <1>5. /\ done \in Delivery /\ done.owner = NoWorker /\ done.state = Outcome(c)
        /\ done.attempts = delivery[s][n].attempts
    <2>1. delivery[s][n] \in Delivery
      BY DEF IInv, TypeOK
    <2> HIDE DEF due
    <2>2. due \in BOOLEAN
      BY DEF due
    <2> QED BY <1>4, <2>1, <2>2 DEF Delivery
  <1> HIDE DEF done
  <1>6. /\ Outcome(c) # "delivered" => Advance(c) = cursor[s]
        /\ Outcome(c) = "delivered" => Advance(c) = n
    <2>1. Outcome(c) = "delivered" => First(s, n)
      BY <1>3, <1>4
    <2>2. First(s, n) => n > cursor[s]
      BY DEF First, Upcoming
    <2>3. cursor[s] \in Nat /\ n \in Nat
      BY DEF IInv, TypeOK, Event
    <2> QED BY <1>1, <2>1, <2>2, <2>3, MaxOfTwo DEF Advance
  <1>7. TypeOK'
    <2>1. Advance(c) \in Nat
      BY <1>6 DEF IInv, TypeOK, Event
    <2>2. Done(c) \in Claim
      BY NoClaim
    <2>3. sends' \in [Sub -> [Event -> Nat]]
      BY <1>2 DEF IInv, TypeOK
    <2> QED BY <1>2, <1>5, <2>1, <2>2, <2>3 DEF IInv, TypeOK, order
  <1>8. LogGrows
    BY <1>2 DEF LogGrows
  <1>9. ASSUME NEW t \in Sub, NEW k \in Event PROVE RowOf(t, k)'
    <2>1. CASE t # s
      <3>1. RowFixed(t, k)
        BY <1>2, <2>1 DEF RowFixed, order, IInv, TypeOK
      <3> QED BY <1>8, <3>1, RowKept DEF IInv, Rows
    <2>2. CASE t = s /\ k # n
      <3>1. delivery'[s][k] = delivery[s][k] /\ sends'[s][k] = sends[s][k]
        BY <1>2, <2>2 DEF IInv, TypeOK
      <3>2. RowOf(s, k)
        BY DEF IInv, Rows
      <3>3. CASE Outcome(c) = "delivered"
        <4>1. First(s, n) /\ First(s, k) => k = n
          BY DEF First, Event
        <4>2. ~ First(s, k)
          BY <1>3, <1>4, <2>2, <3>3, <4>1
        <4> QED BY <1>2, <2>2, <3>1, <3>2, <4>2 DEF RowOf, order
      <3>4. CASE Outcome(c) # "delivered"
        <4>1. cursor'[s] = cursor[s]
          BY <1>2, <1>6, <3>4 DEF IInv, TypeOK
        <4>2. First(s, k) => First(s, k)'
          BY <1>8, <4>1, FirstStays DEF IInv
        <4> QED BY <1>2, <2>2, <3>1, <3>2, <4>2 DEF RowOf, order
      <3> QED BY <3>3, <3>4
    <2>3. CASE t = s /\ k = n
      <3>1. delivery'[s][n] = done
            /\ sends'[s][n] = IF Outcome(c) = "pending" THEN sends[s][n] ELSE 0
        BY <1>2 DEF IInv, TypeOK
      <3>4. MaxAttempts \in Nat /\ delivery[s][n].attempts \in Nat
        BY BoundAssumption DEF IInv, TypeOK, Delivery
      <3>2. RowOf(s, n)
        BY DEF IInv, Rows
      <3>3. Outcome(c) # "delivered" /\ s \in active => First(s, n)'
        BY <1>2, <1>3, <1>6, <1>8, FirstStays DEF IInv, TypeOK
      <3> QED BY <1>2, <1>3, <1>4, <1>5, <2>3, <3>1, <3>2, <3>3, <3>4 DEF RowOf, order
    <2> QED BY <2>1, <2>2, <2>3
  <1>10. Signed'
    BY <1>2 DEF IInv, Signed
  <1>11. ASSUME NEW v \in Worker, Busy(v)' PROVE WorkOf(v)'
    <2>1. v # w
      BY <1>2, <1>11, NoClaim DEF Busy, IInv, TypeOK
    <2>2. worker'[v] = worker[v] /\ Busy(v) /\ WorkOf(v)
      BY <1>2, <1>11, <2>1 DEF Busy, IInv, TypeOK, Work
    <2>3. PICK t \in Sub, k \in Event : t = worker[v].sub /\ k = worker[v].event
      BY <2>2 DEF WorkOf, IInv, TypeOK
    <2>4. delivery'[t][k].owner = v =>
            delivery'[t][k] = delivery[t][k] /\ sends'[t][k] = sends[t][k]
      BY <1>2, <1>5, WorkerAssumption DEF IInv, TypeOK
    <2>5. CASE t = s /\ Outcome(c) = "delivered"
      <3>1. First(t, k) => k = n
        BY <1>3, <1>4, <2>5 DEF First, Event
      <3>2. worker[v].gen = generation[t] => <<k, worker[v].gen>> \in accepted[t]
        BY <1>3, <1>4, <2>2, <2>3, <2>5, <3>1 DEF WorkOf
      <3> QED BY <1>2, <2>2, <2>3, <2>4, <3>2, SMTT(30) DEF WorkOf, Row, order
    <2>6. CASE t # s \/ Outcome(c) # "delivered"
      <3>1. cursor'[t] = cursor[t]
        BY <1>2, <1>6, <2>6 DEF IInv, TypeOK
      <3>2. First(t, k) => First(t, k)'
        BY <1>8, <3>1, FirstStays DEF IInv
      <3> QED BY <1>2, <2>2, <2>3, <2>4, <3>2, SMTT(30) DEF WorkOf, Row, order
    <2> QED BY <2>5, <2>6
  <1> QED BY <1>7, <1>9, <1>10, <1>11 DEF IInv, Rows, Work

-----------------------------------------------------------------------------
(* Time *)

LEMMA TimeStep ==
  ASSUME IInv, NEW s \in Sub, NEW n \in Event, BackoffElapses(s, n) \/ LeaseExpires(s, n)
  PROVE  IInv'
  <1>1. delivery[s][n] \in Delivery
    BY DEF IInv, TypeOK
  <1>2. PICK d \in Delivery : /\ delivery' = [delivery EXCEPT ![s][n] = d]
                              /\ d.state = delivery[s][n].state
                              /\ d.owner = delivery[s][n].owner
                              /\ d.attempts = delivery[s][n].attempts
    <2>1. CASE BackoffElapses(s, n)
      <3> DEFINE d == [delivery[s][n] EXCEPT !.due = TRUE]
      <3>1. delivery' = [delivery EXCEPT ![s][n] = d]
        BY <2>1 DEF BackoffElapses, IInv, TypeOK
      <3>2. /\ d \in Delivery /\ d.state = delivery[s][n].state
            /\ d.owner = delivery[s][n].owner /\ d.attempts = delivery[s][n].attempts
        BY <1>1 DEF Delivery
      <3> HIDE DEF d
      <3> QED BY <3>1, <3>2
    <2>2. CASE LeaseExpires(s, n)
      <3> DEFINE d == [delivery[s][n] EXCEPT !.live = FALSE]
      <3>1. delivery' = [delivery EXCEPT ![s][n] = d]
        BY <2>2 DEF LeaseExpires, IInv, TypeOK
      <3>2. /\ d \in Delivery /\ d.state = delivery[s][n].state
            /\ d.owner = delivery[s][n].owner /\ d.attempts = delivery[s][n].attempts
        BY <1>1 DEF Delivery
      <3> HIDE DEF d
      <3> QED BY <3>1, <3>2
    <2> QED BY <2>1, <2>2
  <1>3. UNCHANGED <<log, enabled, subs, worker, retrying, ghost>> /\ faults' \in Nat
    BY DEF BackoffElapses, LeaseExpires, Fault, IInv, TypeOK
  <1>4. TypeOK'
    BY <1>2, <1>3 DEF IInv, TypeOK, subs, order, ghost
  <1>5. LogGrows
    BY <1>3 DEF LogGrows
  <1>6. \A t \in Sub, k \in Event : /\ delivery'[t][k].state = delivery[t][k].state
                                    /\ delivery'[t][k].owner = delivery[t][k].owner
                                    /\ delivery'[t][k].attempts = delivery[t][k].attempts
    BY <1>2 DEF IInv, TypeOK
  <1>7. ASSUME NEW t \in Sub, NEW k \in Event PROVE RowOf(t, k)'
    <2>1. First(t, k) => First(t, k)'
      BY <1>3, <1>5, FirstStays DEF IInv, subs
    <2>2. RowOf(t, k)
      BY DEF IInv, Rows
    <2> QED BY <1>3, <1>6, <2>1, <2>2 DEF RowOf, subs, order, ghost
  <1>8. Signed'
    BY <1>3 DEF IInv, Signed, subs, ghost
  <1>9. ASSUME NEW w \in Worker, Busy(w) PROVE ClaimKept(w)
    <2>1. worker[w].sub \in Sub /\ worker[w].event \in Event
      BY <1>9 DEF IInv, Work, WorkOf, TypeOK
    <2> QED BY <1>3, <1>6, <2>1 DEF ClaimKept, subs, order, ghost, IInv, TypeOK
  <1>10. Work'
    BY <1>3, <1>4, <1>5, <1>9, WorkKept DEF IInv, Work
  <1> QED BY <1>4, <1>7, <1>8, <1>10 DEF IInv, Rows
-----------------------------------------------------------------------------
(* Theorems *)

LEMMA Start == Init => IInv
  <1> SUFFICES ASSUME Init
               PROVE  IInv
    OBVIOUS
  <1>1. NoDelivery \in Delivery /\ NoDelivery.state = "none" /\ NoDelivery.owner = NoWorker
        /\ NoDelivery.attempts = 0
    BY DEF NoDelivery, Delivery
  <1>2. TypeOK
    BY <1>1, NoClaim, BoundAssumption DEF Init, TypeOK
  <1>3. Rows
    BY <1>1, BoundAssumption DEF Init, Rows, RowOf
  <1>4. Signed /\ Work
    BY NoClaim DEF Init, Signed, Work, Busy
  <1> QED BY <1>2, <1>3, <1>4 DEF IInv

LEMMA Keeps == IInv /\ [Next]_vars => IInv'
  <1> SUFFICES ASSUME IInv, [Next]_vars
               PROVE  IInv'
    OBVIOUS
  <1>1. CASE \E s \in Sub : Owner(s)
    BY <1>1, SubscribeStep, CancelStep, RotateStep, RetryStep DEF Owner
  <1>2. CASE \E w \in Worker : Works(w) \/ FinishFails(w) \/ Crash(w) \/ Restart(w)
    BY <1>2, ClaimStep, MovingSteps, PostStep, AcceptStep, FinishStep DEF Works
  <1>3. CASE UNCHANGED vars
    <2>1. UNCHANGED <<log, enabled, active, cursor, generation, subscribed, before, delivery,
                      worker, retrying, faults, accepted, sends>>
      BY <1>3 DEF vars, subs, order, ghost
    <2>2. TypeOK'
      BY <2>1 DEF IInv, TypeOK
    <2>3. LogGrows
      BY <2>1 DEF LogGrows
    <2>4. Rows'
      BY <2>1, <2>3, RowKept DEF IInv, Rows, RowFixed
    <2>5. ASSUME NEW w \in Worker, Busy(w) PROVE ClaimKept(w)
      <3>1. WorkOf(w) /\ worker[w].sub \in Sub
        BY <2>5 DEF IInv, Work, WorkOf, TypeOK
      <3> QED BY <2>1, <3>1 DEF ClaimKept, IInv, TypeOK
    <2>6. Work'
      BY <2>1, <2>2, <2>3, <2>5, WorkKept DEF IInv, Work
    <2> QED BY <2>1, <2>2, <2>4, <2>6 DEF IInv, Signed
  <1> QED BY <1>1, <1>2, <1>3, EnvironmentStep, TimeStep DEF Next

\* The invariant on which the theorems below rest.
THEOREM Inductive == Spec => []IInv
  BY Start, Keeps, PTL DEF Spec

\* Types of the rows, the claims and the ghosts.
THEOREM TypesKept == Spec => []TypeOK
  <1>1. IInv => TypeOK
    BY DEF IInv
  <1> QED BY <1>1, Inductive, PTL

\* An event is posted at most MaxAttempts times before its dead letter is
\* retried, whatever crashes, lost leases, rotations and workers intervene:
\* callback_worker.go checks the attempt its claim has counted.
THEOREM BoundedAttempts == Spec => []AttemptsBounded
  <1>1. IInv => AttemptsBounded
    BY DEF IInv, Rows, RowOf, AttemptsBounded
  <1> QED BY <1>1, Inductive, PTL

\* Whatever is not delivered is at the head of its feed, where the claim of
\* callback_store.go can lease it or wait for it.
THEOREM HeadFirst == Spec => []HeadOfLine
  <1>1. IInv => HeadOfLine
    <2> SUFFICES ASSUME IInv, NEW s \in active, NEW n \in Event,
                        delivery[s][n].state \in {"pending", "dead", "cancelled"}
                 PROVE  Upcoming(s) # {} /\ n = Min(Upcoming(s))
                        /\ delivery[s][n].state # "cancelled"
      BY DEF HeadOfLine
    <2>1. s \in Sub
      BY DEF IInv, TypeOK
    <2>2. First(s, n) /\ delivery[s][n].state # "cancelled"
      BY <2>1 DEF IInv, Rows, RowOf
    <2> QED BY <2>1, <2>2, FirstIsMin DEF IInv
  <1> QED BY <1>1, Inductive, PTL
-----------------------------------------------------------------------------
(* The feed *)

\* The feed's variables, as Callbacks keeps them.
Opened   == {s \in active : PeerOf[s] \in enabled}
Current  == [s \in Sub |-> {n \in Event : <<n, generation[s]>> \in accepted[s]}]
FeedStep == Feed!FeedNext \/ UNCHANGED <<log, Opened, cursor, Current>>

LEMMA SameNext ==
  ASSUME IInv, NEW s \in Sub, NEW n \in Event, First(s, n)
  PROVE  Feed!Upcoming(s) # {} /\ Feed!NextEvent(s) = n
  <1>1. Feed!Upcoming(s) = Upcoming(s)
    BY DEF Feed!Upcoming, Upcoming
  <1>2. Feed!Min(Upcoming(s)) = Min(Upcoming(s))
    BY DEF Feed!Min, Min
  <1> QED BY <1>1, <1>2, FirstIsMin DEF Feed!NextEvent, IInv

LEMMA OwnerRefines ==
  ASSUME IInv, NEW s \in Sub, Owner(s)
  PROVE  FeedStep
  <1>1. ASSUME NEW after \in 0..MaxEvents, SubscribeCallback(s, after)
        PROVE  FeedStep
    <2>1. cursor' = [cursor EXCEPT ![s] = after] /\ cursor'[s] = after /\ after \in Nat
      BY <1>1, BoundAssumption DEF SubscribeCallback, IInv, TypeOK
    <2>2. Opened' = Opened \cup {s}
      BY <1>1 DEF SubscribeCallback, Opened
    <2>3. log' = log /\ Current' = Current
      BY <1>1 DEF SubscribeCallback, Current, ghost
    <2>4. Feed!Open(s)
      BY <2>1, <2>2, <2>3 DEF Feed!Open, Opened, Current
    <2> QED BY <2>4 DEF FeedStep, Feed!FeedNext
  <1>2. ASSUME CancelCallback(s)
        PROVE  FeedStep
    <2>1. Opened' \subseteq Opened /\ UNCHANGED <<log, cursor, Current>>
      BY <1>2 DEF CancelCallback, Opened, Current, ghost
    <2>2. Feed!Close
      BY <2>1 DEF Feed!Close, Opened, Current
    <2> QED BY <2>2 DEF FeedStep, Feed!FeedNext
  <1>3. ASSUME RotateCallbackKey(s)
        PROVE  FeedStep
    <2>1. /\ generation' = [generation EXCEPT ![s] = generation[s] + 1]
          /\ UNCHANGED <<log, enabled, active, cursor, accepted>>
      BY <1>3 DEF RotateCallbackKey, ghost, IInv, TypeOK
    <2>2. generation[s] \in Nat /\ generation'[s] = generation[s] + 1
      BY <2>1 DEF IInv, TypeOK
    <2>3. \A n \in Event : <<n, generation[s] + 1>> \notin accepted[s]
      BY <2>2 DEF IInv, Signed
    <2>4. Current' = [Current EXCEPT ![s] = {}]
      BY <2>1, <2>2, <2>3 DEF Current, IInv, TypeOK
    <2>5. UNCHANGED <<log, Opened, cursor>>
      BY <2>1 DEF Opened
    <2>6. Feed!Rekey(s)
      BY <2>4, <2>5 DEF Feed!Rekey, Opened, Current
    <2> QED BY <2>6 DEF FeedStep, Feed!FeedNext
  <1>4. ASSUME NEW n \in Event, RetryReads(s, n) \/ RetryCallback(s, n)
        PROVE  FeedStep
    <2>1. UNCHANGED <<log, enabled, subs, accepted>>
      BY <1>4 DEF RetryReads, RetryCallback, ghost
    <2> QED BY <2>1 DEF FeedStep, Opened, Current, subs
  <1> QED BY <1>1, <1>2, <1>3, <1>4 DEF Owner

LEMMA AcceptRefines ==
  ASSUME IInv, NEW w \in Worker, ReceiverAccepts(w)
  PROVE  FeedStep
  <1>1. WorkOf(w) /\ worker[w] \in Claim
    BY DEF IInv, Work, ReceiverAccepts, Busy, TypeOK
  <1>2. PICK s \in Sub, n \in Event : s = worker[w].sub /\ n = worker[w].event
    BY <1>1 DEF WorkOf, IInv, TypeOK
  <1>3. /\ accepted' = [accepted EXCEPT ![s] = accepted[s] \cup {<<n, worker[w].gen>>}]
        /\ UNCHANGED <<log, enabled, subs>>
    BY <1>2 DEF ReceiverAccepts, IInv, TypeOK
  <1>4. UNCHANGED <<log, Opened, cursor>>
    BY <1>3 DEF Opened, subs
  <1>5. CASE worker[w].gen = generation[s] /\ First(s, n)
    <2>1. Current' = [Current EXCEPT ![s] = Current[s] \cup {n}]
      BY <1>3, <1>5 DEF Current, subs, IInv, TypeOK
    <2>2. Feed!Accept(s)
      BY <1>4, <1>5, <2>1, SameNext DEF Feed!Accept, Opened, Current
    <2> QED BY <2>2 DEF FeedStep, Feed!FeedNext
  <1>6. CASE ~ (worker[w].gen = generation[s] /\ First(s, n))
    <2>1. worker[w].gen = generation[s] => <<n, generation[s]>> \in accepted[s]
      BY <1>1, <1>2, <1>6 DEF WorkOf
    <2>2. Current' = Current
      BY <1>3, <2>1 DEF Current, subs, IInv, TypeOK
    <2> QED BY <1>4, <2>2 DEF FeedStep
  <1> QED BY <1>5, <1>6

LEMMA FinishRefines ==
  ASSUME IInv, NEW w \in Worker, FinishCallback(w)
  PROVE  FeedStep
  <1>1. WorkOf(w) /\ worker[w].pc = "answered" /\ Finishable(w)
    BY DEF IInv, Work, FinishCallback, Busy
  <1>2. PICK s \in Sub, n \in Event : s = worker[w].sub /\ n = worker[w].event
    BY <1>1 DEF WorkOf, IInv, TypeOK
  <1>3. /\ cursor' = [cursor EXCEPT ![s] = Advance(worker[w])]
        /\ UNCHANGED <<log, enabled, active, generation, accepted>>
    BY <1>2 DEF FinishCallback, ghost
  <1>4. UNCHANGED <<log, Opened, Current>>
    BY <1>3 DEF Opened, Current
  <1>5. CASE Outcome(worker[w]) = "delivered"
    <2>1. s \in active /\ worker[w].outcome = "accepted"
      BY <1>2, <1>5 DEF Outcome
    <2>2. First(s, n) /\ <<n, generation[s]>> \in accepted[s]
      BY <1>1, <1>2, <2>1, FinishesNext
    <2>3. cursor[s] \in Nat /\ n \in Nat /\ n > cursor[s]
      BY <2>2 DEF First, Upcoming, IInv, TypeOK, Event
    <2>4. cursor' = [cursor EXCEPT ![s] = n]
      <3>1. Max({cursor[s], n}) = n
        BY <2>3, MaxOfTwo
      <3>2. Advance(worker[w]) = n
        BY <1>2, <1>5, <3>1 DEF Advance
      <3> QED BY <1>3, <3>2
    <2>5. s \in Opened /\ n \in Current[s]
      BY <1>1, <1>2, <2>1, <2>2 DEF Opened, Current, Finishable
    <2>6. Feed!Acknowledge(s)
      BY <1>4, <2>2, <2>4, <2>5, SameNext DEF Feed!Acknowledge, Opened, Current
    <2> QED BY <2>6 DEF FeedStep, Feed!FeedNext
  <1>6. CASE Outcome(worker[w]) # "delivered"
    <2>1. cursor' = cursor
      BY <1>2, <1>3, <1>6 DEF Advance, IInv, TypeOK
    <2> QED BY <1>4, <2>1 DEF FeedStep
  <1> QED BY <1>5, <1>6

LEMMA StepsRefine == IInv /\ [Next]_vars => FeedStep
  <1> SUFFICES ASSUME IInv, [Next]_vars
               PROVE  FeedStep
    OBVIOUS
  <1>1. CASE Publish
    <2>1. UNCHANGED <<Opened, cursor, Current>>
      BY <1>1 DEF Publish, Opened, Current, subs, ghost
    <2>2. Feed!Publish
      BY <1>1, <2>1 DEF Publish, Feed!Publish, Opened, Current
    <2> QED BY <2>2 DEF FeedStep, Feed!FeedNext
  <1>2. CASE \E p \in Peer : DisablePeer(p)
    <2>1. Opened' \subseteq Opened /\ UNCHANGED <<log, cursor, Current>>
      BY <1>2 DEF DisablePeer, Opened, Current, subs, ghost
    <2>2. Feed!Close
      BY <2>1 DEF Feed!Close, Opened, Current
    <2> QED BY <2>2 DEF FeedStep, Feed!FeedNext
  <1>3. CASE UNCHANGED vars \/ \E s \in Sub, n \in Event : BackoffElapses(s, n) \/ LeaseExpires(s, n)
    BY <1>3 DEF vars, subs, ghost, BackoffElapses, LeaseExpires, FeedStep, Opened, Current
  <1>4. ASSUME NEW w \in Worker,
               \/ \E s \in Sub : ClaimCallback(w, s)
               \/ CheckFails(w) \/ Post(w) \/ PostFails(w)
               \/ LeaseLost(w) \/ FinishFails(w) \/ Crash(w) \/ Restart(w)
        PROVE  FeedStep
    <2>1. UNCHANGED <<log, enabled, active, cursor, generation, accepted>>
      BY <1>4 DEF ClaimCallback, CheckFails, Post, PostFails, LeaseLost, FinishFails, Crash,
         Restart, subs, ghost
    <2> QED BY <2>1 DEF FeedStep, Opened, Current
  <1> QED BY <1>1, <1>2, <1>3, <1>4, OwnerRefines, AcceptRefines, FinishRefines DEF Next, Works

\* The deliveries keep the promise of the feed: no event is skipped or
\* acknowledged unaccepted, for any number of subscriptions, workers and faults.
THEOREM KeepsTheFeed == Spec => ImplementsFeed
  <1>1. Init => Feed!Init
    BY DEF Init, Feed!Init
  <1>2. IInv /\ [Next]_vars => [Feed!FeedNext]_(Feed!feed)
    BY StepsRefine DEF FeedStep, Feed!feed, Opened, Current
  <1> QED BY <1>1, <1>2, Inductive, PTL DEF Spec, ImplementsFeed, Feed!FeedSpec
=============================================================================
