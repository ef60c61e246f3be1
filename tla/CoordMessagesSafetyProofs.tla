---------------------- MODULE CoordMessagesSafetyProofs ----------------------
(***************************************************************************)
(* The safety invariants of the correspondence store, for every value of   *)
(* its constants.  One lemma, StepEvolves, says what any transaction may   *)
(* do to the rows that exist: it is proved action by action.  The theorems *)
(* follow from it and never look at the actions again.                     *)
(***************************************************************************)
EXTENDS CoordMessagesProofs, WellFoundedInduction

-----------------------------------------------------------------------------
(* What a step may do *)

\* Accepted messages and their envelopes stay; at most one is new, accepted.
Persists ==
  /\ \A m \in Created : m \in Created' /\ env'[m] = env[m]
  /\ \A m \in Created' \ Created : state'[m] = "accepted"
  /\ \A m, n \in Created' \ Created : m = n

\* Only unfinished work changes status, and then its revision grows by one.
Forward ==
  \A m \in Created : state'[m] # state[m] =>
    state[m] \in Pending /\ revision'[m] = revision[m] + 1

\* Work completes only while its agreements hold.
Agreed ==
  \A m \in Created : state[m] # "completed" /\ state'[m] = "completed"
    => Blockers(m) = {}

\* Work returns to the queue only with an attempt left.
Requeued ==
  \A m \in Created : state'[m] = "accepted" => state[m] = "accepted" \/ AttemptsLeft(m)

\* No execution begins.
NoStart ==
  /\ \A m \in Created : state'[m] = "started" => state[m] = "started"
  /\ UNCHANGED <<attempts, runner>>

\* The execution of m begins, on a peer that runs nothing, for its caller.
Starts(m) ==
  /\ m \in Created /\ state'[m] = "started"
  /\ \A n \in Created : n # m /\ state'[n] = "started" => state[n] = "started"
  /\ InState(env[m].to, {"started"}) = {}
  /\ AttemptsLeft(m)
  /\ attempts' = [attempts EXCEPT ![m] = @ + 1]
  /\ \E who \in Owner \cup {External} :
       MayWork(env[m].to, who) /\ runner' = [runner EXCEPT ![m] = who]
  /\ UNCHANGED lease

\* A lease row changes hands only over a peer that runs nothing afterwards.
LeaseHandover ==
  \A p \in Peer : \/ lease'[p].owner = lease[p].owner
                  \/ lease'[p].owner = NoOwner
                  \/ InState(p, {"started"}) = {}

\* A new answer is the first one to work of an accepted message, now completed.
Answers ==
  \A a \in Created' \ Created :
    env'[a].kind = "answer" /\ env'[a].replyTo # 0 =>
      /\ env'[a].replyTo \in Created
      /\ ~ Answered(env'[a].replyTo)
      /\ state'[env'[a].replyTo] = "completed"

\* A new message has its causes and prerequisites among the earlier ones, passes
\* the admission limits or is the first answer to work of its recipient, and a
\* request goes to a peer that its causal chain has not reached.
Admissible(row) ==
  /\ row.parent \in Created \cup {0} /\ row.deps \subseteq Created
  /\ row.depth = (IF row.parent = 0 THEN 0 ELSE env[row.parent].depth)
                 + (IF row.kind = "request" THEN 1 ELSE 0)
  /\ row.kind = "request" =>
       row.from # row.to /\ row.to \notin Participants(Ancestors(row.parent))
  /\ \/ Cardinality(InState(row.to, Pending)) < MaxPeerQueue
     \/ /\ row.kind = "answer" /\ row.replyTo \in Created
        /\ env[row.replyTo].from = row.to /\ ~ Answered(row.replyTo)
Arrives == \A m \in Created' \ Created : Admissible(env'[m])

\* Execution is first begun when no prerequisite is missing, or by a message
\* with required contracts, which their loss may block while it is queued.
Gated ==
  \A m \in Created : state'[m] \in {"started", "blocked"} =>
    state[m] \in {"started", "blocked"} \/ env[m].pins # {} \/ Unmet(m) = {}

Evolves == /\ Persists /\ Forward /\ Agreed /\ Requeued /\ LeaseHandover /\ Answers
           /\ Arrives /\ Gated
           /\ NoStart \/ \E m \in Created : Starts(m)
-----------------------------------------------------------------------------
(* Steps that only change the status of existing rows *)

LEMMA SameRows ==
  ASSUME UNCHANGED <<sent, env>>
  PROVE  Persists /\ Answers /\ Arrives /\ Created' = Created
  <1>1. Created' = Created
    BY DEF Created
  <1> QED BY <1>1 DEF Persists, Answers, Arrives

LEMMA SameLease ==
  ASSUME UNCHANGED lease
  PROVE  LeaseHandover
  BY DEF LeaseHandover

LEMMA StatusEvolves ==
  ASSUME TypeOK, NEW S \in SUBSET Created, NEW s \in State, SetState(S, s),
         OnlyStatus, LeaseHandover,
         \A m \in S : state[m] \in Pending,
         s = "started" => \A m \in S : state[m] = "started",
         s = "completed" => \A m \in S : Blockers(m) = {},
         s = "accepted" => \A m \in S : AttemptsLeft(m),
         s \in {"started", "blocked"} => \A m \in S :
           state[m] \in {"started", "blocked"} \/ env[m].pins # {}
  PROVE  Evolves
  <1>1. /\ \A m \in Id : state'[m] = IF m \in S THEN s ELSE state[m]
        /\ \A m \in Id : revision'[m] = revision[m] + (IF m \in S THEN 1 ELSE 0)
    BY SetStateShape
  <1>2. Created \subseteq Id
    BY CreatedIds
  <1>3. Persists /\ Answers /\ Arrives
    BY SameRows DEF OnlyStatus
  <1>4. Forward
    BY <1>1, <1>2 DEF Forward
  <1>5. Agreed
    BY <1>1, <1>2 DEF Agreed
  <1>6. NoStart
    BY <1>1, <1>2 DEF NoStart, OnlyStatus
  <1>7. Requeued
    BY <1>1, <1>2 DEF Requeued
  <1>8. Gated
    BY <1>1, <1>2 DEF Gated
  <1> QED BY <1>3, <1>4, <1>5, <1>6, <1>7, <1>8 DEF Evolves

\* Nothing about the messages changes but their environment.
LEMMA QuietEvolves ==
  ASSUME UNCHANGED <<sent, env, state, attempts, runner>>, LeaseHandover
  PROVE  Evolves
  <1>1. Persists /\ Answers /\ Arrives
    BY SameRows
  <1> QED BY <1>1 DEF Evolves, Forward, Agreed, Requeued, Gated, NoStart

LEMMA RejectEvolves ==
  ASSUME TypeOK, NEW m \in Created, RejectByContracts(m), UNCHANGED lease,
         state[m] \in Pending
  PROVE  Evolves
  <1>1. PICK s \in {"failed", "blocked"} : SetState({m}, s)
    BY RejectShape
  <1>2. s \in State /\ s \notin {"started", "completed", "accepted"}
    BY DEF State, Pending, Terminal
  <1>3. OnlyStatus /\ LeaseHandover
    BY SameLease DEF RejectByContracts
  <1>4. env[m].pins # {}
    BY DEF RejectByContracts, Blockers
  <1>5. /\ {m} \in SUBSET Created
        /\ \A n \in {m} : state[n] \in Pending
        /\ \A n \in {m} : state[n] \in {"started", "blocked"} \/ env[n].pins # {}
    BY <1>4
  <1> QED BY <1>1, <1>2, <1>3, <1>5, StatusEvolves

\* A new row arrives and the work it answers, if any, is completed.
LEMMA AcceptEvolves ==
  ASSUME TypeOK, NEW row \in Envelope, NEW done \in SUBSET Created,
         Accept(row, done),
         \A m \in done : state[m] \in Pending /\ Blockers(m) = {},
         row.kind = "answer" /\ row.replyTo # 0 =>
           /\ row.replyTo \in Created /\ ~ Answered(row.replyTo)
           /\ row.replyTo \in done \/ state[row.replyTo] = "completed",
         Admissible(row)
  PROVE  Evolves
  <1>1. /\ sent + 1 \in Id /\ sent + 1 \notin Created
        /\ Created' = Created \cup {sent + 1} /\ Created \subseteq Id
        /\ \A m \in Id : env'[m] = IF m = sent + 1 THEN row ELSE env[m]
        /\ \A m \in Created : state'[m] = IF m \in done THEN "completed" ELSE state[m]
        /\ state'[sent + 1] = "accepted"
        /\ \A m \in Created : revision'[m] = revision[m] + (IF m \in done THEN 1 ELSE 0)
    BY AcceptShape, CreatedIds
  <1>2. UNCHANGED <<attempts, runner, lease>>
    BY DEF Accept
  <1>3. Persists
    BY <1>1 DEF Persists
  <1>4. Forward
    BY <1>1 DEF Forward
  <1>5. Agreed
    BY <1>1 DEF Agreed
  <1>6. LeaseHandover
    BY <1>2, SameLease
  <1>7. NoStart
    BY <1>1, <1>2 DEF NoStart
  <1>8. Answers
    <2>1. env'[sent + 1] = row
      BY <1>1
    <2>2. \A a \in Created' \ Created : a = sent + 1
      BY <1>1
    <2> QED BY <1>1, <2>1, <2>2 DEF Answers
  <1>9. Requeued
    BY <1>1 DEF Requeued
  <1>10. Arrives
    BY <1>1 DEF Arrives
  <1>11. Gated
    BY <1>1 DEF Gated
  <1> QED BY <1>3, <1>4, <1>5, <1>6, <1>7, <1>8, <1>9, <1>10, <1>11 DEF Evolves
-----------------------------------------------------------------------------
(* Every step evolves *)

LEMMA InStateDef ==
  ASSUME NEW p, NEW S
  PROVE  \A m \in InState(p, S) : m \in Created /\ env[m].to = p /\ state[m] \in S
  BY DEF InState

LEMMA SubmitEvolves ==
  ASSUME TypeOK, NEW x \in Submission, Submit(x),
         x.replyTo \in Repliable(x.from, x.to) \cup {0}
  PROVE  Evolves
  <1>1. CASE SendAccepted(x)
    <2> DEFINE done == IF Correlated(x) THEN {x.replyTo} ELSE {}
    <2>1. Accept(Row(x), done) /\ Valid(x)
      BY <1>1 DEF SendAccepted
    <2>2. done \in SUBSET Created
      BY DEF Correlated, Submission
    <2>3. Row(x) \in Envelope
      BY <2>1, RowType DEF Accept
    <2>4. \A m \in done : state[m] \in Pending /\ Blockers(m) = {}
      BY <2>1, GatesCreated DEF Correlated, Valid, AgreementHolds
    <2>5. ASSUME x.kind = "answer", x.replyTo # 0
          PROVE  /\ x.replyTo \in Created /\ ~ Answered(x.replyTo)
                 /\ x.replyTo \in done \/ state[x.replyTo] = "completed"
      <3>1. x.replyTo \in Created /\ ~ Answered(x.replyTo)
        BY <2>1, <2>5 DEF Submission, Valid
      <3>2. state[x.replyTo] \in State /\ state[x.replyTo] \notin {"failed", "cancelled"}
        BY <2>1, <2>5, <3>1, CreatedIds DEF Valid
      <3>3. CASE state[x.replyTo] \in Pending
        BY <2>5, <3>1, <3>3 DEF Correlated
      <3>4. CASE state[x.replyTo] \notin Pending
        BY <3>1, <3>2, <3>4 DEF State, Terminal
      <3> QED BY <3>3, <3>4
    <2>6. Row(x).kind = x.kind /\ Row(x).replyTo = x.replyTo
      BY DEF Row
    <2>7. Admissible(Row(x))
      <3>1. /\ Row(x).from = x.from /\ Row(x).to = x.to /\ Row(x).kind = x.kind
            /\ Row(x).replyTo = x.replyTo /\ Row(x).parent = Parent(x)
            /\ Row(x).depth = DepthOf(x) /\ Row(x).deps = x.deps
        BY DEF Row
      <3>2. Parent(x) \in Created \cup {0} /\ x.deps \subseteq Created
        BY DEF Parent, Submission
      <3>3. CASE Correlated(x)
        <4>1. x.kind = "answer" /\ x.replyTo # 0
          BY <3>3 DEF Correlated
        <4>2. x.replyTo \in Created /\ env[x.replyTo].from = x.to
          BY <4>1 DEF Repliable
        <4>3. ~ Answered(x.replyTo)
          BY <2>1, <4>1 DEF Valid
        <4> QED BY <3>1, <3>2, <4>1, <4>2, <4>3 DEF Admissible, DepthOf
      <3>4. CASE WithinLimits(x)
        <4>1. x.from # x.to
          BY <2>1 DEF Valid
        <4> QED BY <3>1, <3>2, <3>4, <4>1 DEF Admissible, DepthOf, WithinLimits
      <3> QED BY <1>1, <3>3, <3>4 DEF SendAccepted
    <2> HIDE DEF done
    <2> QED BY <2>1, <2>2, <2>3, <2>4, <2>5, <2>6, <2>7, AcceptEvolves
  <1>2. CASE SendRefused(x)
    BY <1>2, QuietEvolves, SameLease DEF SendRefused
  <1>3. CASE SendInvalidates(x)
    <2>1. PICK g \in Gates(x) : state[g] \in Pending /\ RejectByContracts(g)
      BY <1>3 DEF SendInvalidates
    <2> QED BY <1>3, <2>1, GatesCreated, RejectEvolves DEF SendInvalidates
  <1> QED BY <1>1, <1>2, <1>3 DEF Submit

LEMMA ClaimEvolves ==
  ASSUME TypeOK, NEW p \in Peer, NEW who \in Callers(p), Claim(p, who)
  PROVE  Evolves
  <1> DEFINE gone == Hopeless(p) \cup StaleWork(p)
  <1>1. /\ gone \subseteq InState(p, {"accepted"})
        /\ First(p) \subseteq InState(p, {"accepted"}) /\ First(p) \cap gone = {}
        /\ \A m \in First(p) : Blockers(m) = {} /\ Unmet(m) = {}
    BY ClaimSets
  <1>2. /\ \A m \in InState(p, {"accepted"}) : /\ m \in Created /\ m \in Id
                                             /\ env[m].to = p
                                             /\ state[m] = "accepted"
        /\ Created \subseteq Id
    BY InStateDef, CreatedIds
  <1>3. "accepted" \in Pending /\ \A s \in {"failed", "started", "blocked"} : s \in State
    BY DEF State, Pending, Terminal
  <1> HIDE DEF gone
  <1>4. ASSUME NEW chosen \in SUBSET First(p), ClaimUpdate(p, chosen)
        PROVE  /\ Persists /\ Forward /\ Agreed /\ Requeued /\ LeaseHandover /\ Answers
               /\ Arrives /\ Gated /\ UNCHANGED lease
               /\ \A m \in Created : state'[m] = "started" =>
                    state[m] = "started" \/ m \in chosen
               /\ \A m \in chosen : state'[m] = "started"
    <2>1. /\ \A m \in Id : state'[m] = IF m \in chosen THEN "started"
                                     ELSE IF m \in gone THEN "failed" ELSE state[m]
          /\ \A m \in Id : revision'[m] = revision[m] +
                              (IF m \in gone \cup chosen THEN 1 ELSE 0)
      BY <1>3, <1>4, ClaimShape DEF gone
    <2>2. UNCHANGED <<enabled, sent, env, lease, world>>
      BY <1>4 DEF ClaimUpdate
    <2>3. Persists /\ Answers /\ Arrives /\ LeaseHandover
      BY <2>2, SameRows, SameLease
    <2>4. Forward
      BY <2>1, <1>1, <1>2, <1>3 DEF Forward
    <2>5. Agreed
      BY <2>1, <1>1, <1>2 DEF Agreed
    <2>6. \A m \in Created : state'[m] = "started" =>
                    state[m] = "started" \/ m \in chosen
      <3> SUFFICES ASSUME NEW m \in Created, state'[m] = "started", state[m] # "started"
                   PROVE  m \in chosen
        OBVIOUS
      <3>1. m \in Id
        BY <1>2
      <3> QED BY <2>1, <3>1
    <2>7. \A m \in chosen : state'[m] = "started"
      BY <2>1, <1>1, <1>2
    <2>8. Requeued
      BY <2>1, <1>2 DEF Requeued
    <2>9. Gated
      BY <2>1, <1>1, <1>2 DEF Gated
    <2> QED BY <2>2, <2>3, <2>4, <2>5, <2>6, <2>7, <2>8, <2>9
  <1>5. CASE ClaimNothing(p, who)
    <2>1. ClaimUpdate(p, {}) /\ UNCHANGED <<attempts, runner>>
      BY <1>5 DEF ClaimNothing
    <2>2. {} \in SUBSET First(p)
      OBVIOUS
    <2> QED BY <2>1, <2>2, <1>4 DEF Evolves, NoStart
  <1>6. CASE ClaimStarts(p, who)
    <2>1. PICK m \in First(p) :
            /\ AttemptsLeft(m)
            /\ ClaimUpdate(p, {m})
            /\ attempts' = [attempts EXCEPT ![m] = @ + 1]
            /\ runner' = [runner EXCEPT ![m] = who]
      BY <1>6 DEF ClaimStarts
    <2>2. /\ m \in Created /\ env[m].to = p /\ {m} \in SUBSET First(p)
      BY <1>1, <1>2
    <2>3. /\ InState(p, {"started"}) = {} /\ MayWork(p, who)
      BY <1>6 DEF ClaimStarts, ClaimEnabled, InState
    <2>4. who \in Owner \cup {External}
      BY DEF Callers
    <2>5. /\ Persists /\ Forward /\ Agreed /\ Requeued /\ LeaseHandover /\ Answers
          /\ Arrives /\ Gated /\ UNCHANGED lease
          /\ \A n \in Created : state'[n] = "started" =>
               state[n] = "started" \/ n \in {m}
          /\ state'[m] = "started"
      BY <2>1, <2>2, <1>4
    <2>6. Starts(m)
      BY <2>1, <2>2, <2>3, <2>4, <2>5 DEF Starts
    <2> QED BY <2>2, <2>5, <2>6 DEF Evolves
  <1> QED BY <1>5, <1>6 DEF Claim

LEMMA TransitionEvolves ==
  ASSUME TypeOK, NEW p \in Peer, NEW m \in Created, Transition(p, m)
  PROVE  Evolves
  <1>1. m \in Id /\ {m} \in SUBSET Created
    BY CreatedIds
  <1>2. \A s \in {"failed", "blocked", "completed", "cancelled", "started"} : s \in State
    BY DEF State, Pending, Terminal
  <1>3. ASSUME NEW who, MayReport(p, who, m)
        PROVE  /\ state[m] \in Pending /\ state[m] \in {"started", "blocked"}
               /\ env[m].to = p /\ MayWork(p, who)
    BY <1>3 DEF MayReport, InState, Pending
  <1>4. CASE Cancel(p, m)
    BY <1>1, <1>2, <1>4, SameLease, StatusEvolves DEF Cancel
  <1>5. CASE \E who \in Callers(p) : Report(p, who, m)
    <2>1. PICK who \in Callers(p) : Report(p, who, m)
      BY <1>5
    <2>2. /\ state[m] \in Pending /\ state[m] \in {"started", "blocked"}
          /\ OnlyStatus /\ LeaseHandover
      BY <2>1, <1>3, SameLease DEF Report
    <2>3. CASE SetState({m}, "failed") \/ SetState({m}, "blocked")
      BY <1>1, <1>2, <2>2, <2>3, StatusEvolves
    <2>4. CASE AgreementHolds(m) /\ SetState({m}, "completed")
      BY <1>1, <1>2, <2>2, <2>4, StatusEvolves DEF AgreementHolds
    <2> QED BY <2>1, <2>3, <2>4 DEF Report
  <1>6. CASE Progress(p, m)
    <2>1. state[m] \in Pending /\ state[m] = "started"
      BY <1>3, <1>6 DEF Progress
    <2> QED BY <1>1, <1>2, <1>6, <2>1, SameLease, StatusEvolves DEF Progress
  <1>7. CASE Resume(p, m)
    <2>1. /\ SetState({m}, "started") /\ AttemptsLeft(m)
          /\ attempts' = [attempts EXCEPT ![m] = @ + 1]
          /\ runner' = [runner EXCEPT ![m] = External]
          /\ UNCHANGED <<enabled, sent, env, escalations, lease, world>>
      BY <1>7 DEF Resume
    <2>2. /\ MayReport(p, External, m) /\ state[m] = "blocked"
          /\ InState(p, {"started"}) = {}
      BY <1>7 DEF Resume, Resumable
    <2>3. /\ \A n \in Id : state'[n] = IF n = m THEN "started" ELSE state[n]
          /\ revision'[m] = revision[m] + 1
      <3>1. /\ \A n \in Id : state'[n] = IF n \in {m} THEN "started" ELSE state[n]
            /\ \A n \in Id : revision'[n] = revision[n] + (IF n \in {m} THEN 1 ELSE 0)
        BY <1>1, <1>2, <2>1, SetStateShape
      <3> QED BY <1>1, <3>1
    <2>4. Created \subseteq Id
      BY CreatedIds
    <2>5. Persists /\ Answers /\ Arrives /\ LeaseHandover
      BY <2>1, SameRows, SameLease
    <2>6. Forward /\ Agreed /\ Requeued /\ Gated
      BY <2>2, <2>3, <2>4 DEF Forward, Agreed, Requeued, Gated, Pending
    <2>7. env[m].to = p /\ MayWork(p, External)
      BY <2>2, <1>3
    <2>8. Starts(m)
      BY <2>1, <2>2, <2>3, <2>4, <2>7 DEF Starts
    <2> QED BY <2>5, <2>6, <2>8 DEF Evolves
  <1>8. CASE ResumeExhausted(p, m)
    <2>1. /\ SetState({m}, "blocked") /\ OnlyStatus /\ UNCHANGED lease
          /\ state[m] \in Pending /\ state[m] \in {"started", "blocked"}
      BY <1>8, <1>3 DEF ResumeExhausted, BlockAttemptLimit, Resumable
    <2> QED BY <1>1, <1>2, <2>1, SameLease, StatusEvolves
  <1>9. CASE TransitionInvalidates(p, m)
    BY <1>3, <1>9, RejectEvolves DEF TransitionInvalidates
  <1> QED BY <1>4, <1>5, <1>6, <1>7, <1>8, <1>9 DEF Transition

LEMMA FinishEvolves ==
  ASSUME TypeOK, AnswerIsFinal, NEW p \in Peer, NEW o \in Owner, NEW m \in Created,
         CompleteLease(p, o, m) \/ ExecutionInvalidated(p, o, m)
  PROVE  Evolves
  <1>1. state[m] = "started" /\ {m} \in SUBSET Created
    BY DEF CompleteLease, ExecutionInvalidated, MayFinish, InState
  <1>2. state[m] \in Pending /\ "completed" \in State
    BY <1>1 DEF Pending, State, Terminal
  <1>3. CASE CompleteLease(p, o, m)
    <2>1. Blockers(m) = {}
      BY <1>3 DEF CompleteLease, AgreementHolds
    <2>2. CASE /\ AnswerTo(m) \in Submission /\ Row(AnswerTo(m)) \in Envelope
               /\ Accept(Row(AnswerTo(m)), {m})
      <3>1. Row(AnswerTo(m)).kind = "answer" /\ Row(AnswerTo(m)).replyTo = m
        BY DEF Row, AnswerTo
      <3>2. m # 0 /\ ~ Answered(m)
        BY <1>1, CreatedIds DEF AnswerIsFinal, Answered, Id
      <3>3. Admissible(Row(AnswerTo(m)))
        <4>1. /\ Row(AnswerTo(m)).parent = m /\ Row(AnswerTo(m)).deps = {}
              /\ Row(AnswerTo(m)).to = env[m].from
              /\ Row(AnswerTo(m)).depth = env[m].depth + 0
          BY <3>2 DEF Row, AnswerTo, Parent, DepthOf
        <4> QED BY <3>1, <3>2, <4>1 DEF Admissible
      <3> QED BY <1>1, <1>2, <2>1, <2>2, <3>1, <3>2, <3>3, AcceptEvolves
    <2>3. CASE /\ SetState({m}, "completed") /\ OnlyStatus
               /\ UNCHANGED <<escalations, lease>>
      BY <1>1, <1>2, <2>1, <2>3, SameLease, StatusEvolves
    <2> QED BY <1>3, <2>2, <2>3, CompleteLeaseShape
  <1>4. CASE ExecutionInvalidated(p, o, m)
    BY <1>2, <1>4, RejectEvolves DEF ExecutionInvalidated
  <1> QED BY <1>3, <1>4

LEMMA LeasesEvolve ==
  ASSUME TypeOK, NEW p \in Peer, Leases(p)
  PROVE  Evolves
  <1>1. lease \in [Peer -> Lease]
    BY DEF TypeOK
  <1>2. CASE \E o \in Owner : AcquireLease(p, o)
    <2>1. InState(p, {"started"}) = {}
      BY <1>2 DEF AcquireLease, InState
    <2>2. LeaseHandover
      BY <1>1, <1>2, <2>1 DEF AcquireLease, LeaseHandover
    <2> QED BY <1>2, <2>2, QuietEvolves DEF AcquireLease, rows
  <1>3. CASE \E o \in Owner : ReleaseLease(p, o)
    <2>1. LeaseHandover
      BY <1>1, <1>3 DEF ReleaseLease, LeaseHandover, NoLease
    <2> QED BY <1>3, <2>1, QuietEvolves DEF ReleaseLease, rows
  <1>4. CASE AcquireRecovers(p) \/ RecoverExternal(p)
    <2>1. Interrupt(p) /\ lease' = [lease EXCEPT ![p] = NoLease]
      BY <1>4 DEF AcquireRecovers, RecoverExternal
    <2>2. LeaseHandover
      BY <1>1, <2>1 DEF LeaseHandover, NoLease
    <2>3. /\ InState(p, {"started"}) \in SUBSET Created
          /\ \A m \in InState(p, {"started"}) :
               state[m] \in Pending /\ state[m] \in {"started", "blocked"}
          /\ "blocked" \in State
      BY DEF InState, Pending, State
    <2> QED BY <2>1, <2>2, <2>3, StatusEvolves DEF Interrupt
  <1>5. CASE LeaseExpires(p)
    <2>1. LeaseHandover
      BY <1>1, <1>5 DEF LeaseExpires, LeaseHandover, Lease
    <2> QED BY <1>5, <2>1, QuietEvolves DEF LeaseExpires, rows
  <1> QED BY <1>2, <1>3, <1>4, <1>5 DEF Leases

LEMMA StepEvolves ==
  ASSUME TypeOK, AnswerIsFinal, [Next]_vars
  PROVE  Evolves
  <1>1. CASE \E route \in Route : Send(route[1], route[2])
    <2>1. PICK p \in Peer, q \in Peer : Send(p, q)
      BY <1>1, PeerAssumption
    <2>2. PICK x \in Submission : /\ Submit(x)
                                 /\ x.replyTo \in Repliable(x.from, x.to) \cup {0}
      BY <2>1, SendSubmits
    <2> QED BY <2>2, SubmitEvolves
  <1>2. CASE \E p \in Peer : \E who \in Callers(p) : Claim(p, who)
    BY <1>2, ClaimEvolves
  <1>3. CASE \E p \in Peer : Leases(p)
    BY <1>3, LeasesEvolve
  <1>4. CASE \E p \in Peer : \E m \in Created : Transition(p, m)
    BY <1>4, TransitionEvolves
  <1>5. CASE \E p \in Peer : \E o \in Owner, m \in Created :
                CompleteLease(p, o, m) \/ ExecutionInvalidated(p, o, m)
    BY <1>5, FinishEvolves
  <1>6. CASE \E m \in Created : ReviewRequest(m)
    <2>1. PICK m \in Created : ReviewRequest(m)
      BY <1>6
    <2>2. /\ state[m] \in Pending /\ {m} \in SUBSET Created /\ "accepted" \in State
          /\ AttemptsLeft(m)
      BY <2>1 DEF ReviewRequest, Reviewable, Pending, State
    <2> QED BY <2>1, <2>2, SameLease, StatusEvolves DEF ReviewRequest, Reviewable
  <1>7. CASE World
    <2>1. UNCHANGED <<sent, env, state, attempts, runner, lease>>
      BY <1>7 DEF World, DisablePeer, AgreementsChange, DeadlineElapses, rows
    <2> QED BY <2>1, SameLease, QuietEvolves
  <1>8. CASE UNCHANGED vars
    BY <1>8, SameLease, QuietEvolves DEF vars, rows
  <1> QED BY <1>1, <1>2, <1>3, <1>4, <1>5, <1>6, <1>7, <1>8 DEF Next
-----------------------------------------------------------------------------
(* The invariants *)

\* AttemptsBounded over every identifier: a row that does not exist yet must
\* already have a counter within the bound for its acceptance to keep it.
AttemptsWithin == \A m \in Id : attempts[m] <= MaxExecutionAttempts

LEMMA AnswerStep == TypeOK /\ AnswerIsFinal /\ Evolves /\ TypeOK' => AnswerIsFinal'
  <1> SUFFICES ASSUME TypeOK, AnswerIsFinal, Evolves, TypeOK',
                      NEW a \in Created', env'[a].kind = "answer", env'[a].replyTo # 0
               PROVE  /\ state'[env'[a].replyTo] = "completed"
                      /\ \A b \in Created' : env'[b].kind = "answer"
                           /\ env'[b].replyTo = env'[a].replyTo => a = b
    BY DEF AnswerIsFinal
  <1>1. Persists /\ Forward /\ Answers
    BY DEF Evolves
  <1>2. \A r \in Created : state[r] = "completed" => state'[r] = "completed"
    BY <1>1 DEF Forward, Pending
  <1>3. ASSUME NEW b \in Created, env[b].kind = "answer", env[b].replyTo # 0
        PROVE  /\ env[b].replyTo \in Created /\ Answered(env[b].replyTo)
               /\ state[env[b].replyTo] = "completed"
    <2>1. state[env[b].replyTo] = "completed"
      BY <1>3 DEF AnswerIsFinal
    <2>2. env[b].replyTo \in Id
      BY <1>3, CreatedIds DEF Envelope
    <2>3. env[b].replyTo <= sent
      BY <2>1, <2>2 DEF TypeOK
    <2>4. env[b].replyTo \in Created
      <3>1. sent \in Nat /\ MaxMessages \in Nat
        BY BoundAssumption DEF TypeOK
      <3> QED BY <2>2, <2>3, <3>1 DEF Created, Id
    <2> QED BY <1>3, <2>1, <2>4 DEF Answered
  <1>4. CASE a \in Created
    <2>1. env'[a] = env[a]
      BY <1>1, <1>4 DEF Persists
    <2>2. /\ env[a].replyTo \in Created /\ Answered(env[a].replyTo)
          /\ state'[env[a].replyTo] = "completed"
      BY <1>2, <1>3, <1>4, <2>1
    <2>3. ASSUME NEW b \in Created', env'[b].kind = "answer",
                 env'[b].replyTo = env'[a].replyTo
          PROVE  a = b
      <3>1. CASE b \in Created
        BY <1>1, <1>4, <2>1, <2>3, <3>1 DEF Persists, AnswerIsFinal
      <3>2. CASE b \notin Created
        BY <1>1, <2>1, <2>2, <2>3, <3>2 DEF Answers
      <3> QED BY <3>1, <3>2
    <2> QED BY <2>1, <2>2, <2>3
  <1>5. CASE a \notin Created
    <2>1. /\ state'[env'[a].replyTo] = "completed" /\ ~ Answered(env'[a].replyTo)
      BY <1>1, <1>5 DEF Answers
    <2>2. ASSUME NEW b \in Created', env'[b].kind = "answer",
                 env'[b].replyTo = env'[a].replyTo
          PROVE  a = b
      <3>1. CASE b \in Created
        <4>1. env'[b] = env[b]
          BY <1>1, <3>1 DEF Persists
        <4>2. Answered(env'[a].replyTo)
          BY <1>3, <2>2, <3>1, <4>1
        <4> QED BY <2>1, <4>2
      <3>2. CASE b \notin Created
        BY <1>1, <1>5, <3>2 DEF Persists
      <3> QED BY <3>1, <3>2
    <2> QED BY <2>1, <2>2
  <1> QED BY <1>4, <1>5

LEMMA StartedStep ==
  ASSUME TypeOK, AtMostOneStarted, WorkOwnership, AttemptsWithin, AttemptsBounded,
         Evolves, TypeOK'
  PROVE  AtMostOneStarted' /\ WorkOwnership' /\ AttemptsWithin' /\ AttemptsBounded'
  <1>1. Persists /\ LeaseHandover
    BY DEF Evolves
  <1>2. \A m \in Created' : state'[m] = "started" => m \in Created /\ env'[m] = env[m]
    BY <1>1 DEF Persists
  <1>3. \A m \in Created : env[m].to \in Peer /\ m \in Id
    BY CreatedIds DEF Envelope
  <1>4. \A m \in Created' : m \in Id
    BY BoundAssumption DEF Created, Id, TypeOK
  <1>5. CASE NoStart
    <2>1. \A m \in Created' : state'[m] = "started" =>
            /\ m \in Created /\ env'[m] = env[m] /\ state[m] = "started"
            /\ runner'[m] = runner[m] /\ attempts'[m] = attempts[m]
      BY <1>2, <1>5 DEF NoStart
    <2>2. AtMostOneStarted'
      BY <2>1 DEF AtMostOneStarted, InState
    <2>3. WorkOwnership'
      <3> SUFFICES ASSUME NEW m \in Created', state'[m] = "started"
                   PROVE  \/ lease'[env'[m].to].owner = NoOwner
                          \/ lease'[env'[m].to].owner = runner'[m]
        BY DEF WorkOwnership, NoLeaseRow
      <3> DEFINE p == env[m].to
      <3>1. m \in InState(p, {"started"}) /\ p \in Peer
        BY <2>1, <1>3 DEF InState
      <3>2. lease'[p].owner = lease[p].owner \/ lease'[p].owner = NoOwner
        BY <1>1, <3>1 DEF LeaseHandover
      <3>3. lease[p].owner = NoOwner \/ lease[p].owner = runner[m]
        BY <2>1 DEF WorkOwnership, NoLeaseRow
      <3> QED BY <2>1, <3>2, <3>3
    <2>4. AttemptsWithin'
      BY <1>5 DEF AttemptsWithin, NoStart
    <2>5. AttemptsBounded'
      BY <1>4, <2>1, <2>4 DEF AttemptsBounded, AttemptsWithin
    <2> QED BY <2>2, <2>3, <2>4, <2>5
  <1>6. ASSUME NEW k \in Created, Starts(k)
        PROVE  AtMostOneStarted' /\ WorkOwnership' /\ AttemptsWithin' /\ AttemptsBounded'
    <2>1. /\ InState(env[k].to, {"started"}) = {}
          /\ \A n \in Created : n # k /\ state'[n] = "started" => state[n] = "started"
          /\ AttemptsLeft(k) /\ UNCHANGED lease
          /\ attempts' = [attempts EXCEPT ![k] = @ + 1]
      BY <1>6 DEF Starts
    <2>2. PICK who \in Owner \cup {External} :
            MayWork(env[k].to, who) /\ runner' = [runner EXCEPT ![k] = who]
      BY <1>6 DEF Starts
    <2>3. \A m \in Created' : state'[m] = "started" =>
            /\ m \in Created /\ env'[m] = env[m]
            /\ m # k => state[m] = "started" /\ env[m].to # env[k].to
      BY <1>2, <2>1 DEF InState
    <2>4. /\ k \in Id /\ attempts \in [Id -> Nat]
          /\ runner \in [Id -> Owner \cup {External, NoOwner}]
      BY <1>3 DEF TypeOK
    <2>5. \A m \in Id : /\ attempts'[m] = IF m = k THEN attempts[m] + 1 ELSE attempts[m]
                       /\ runner'[m] = IF m = k THEN who ELSE runner[m]
      BY <2>1, <2>2, <2>4
    <2>6. AtMostOneStarted'
      <3> SUFFICES ASSUME NEW p \in Peer, NEW m \in Created', NEW n \in Created',
                          env'[m].to = p, env'[n].to = p,
                          state'[m] = "started", state'[n] = "started"
                   PROVE  m = n
        BY DEF AtMostOneStarted, InState
      <3>1. CASE m = k \/ n = k
        BY <2>3, <3>1
      <3>2. CASE m # k /\ n # k
        BY <2>3, <3>2 DEF AtMostOneStarted, InState
      <3> QED BY <3>1, <3>2
    <2>7. WorkOwnership'
      <3> SUFFICES ASSUME NEW m \in Created', state'[m] = "started"
                   PROVE  \/ lease'[env'[m].to].owner = NoOwner
                          \/ lease'[env'[m].to].owner = runner'[m]
        BY DEF WorkOwnership, NoLeaseRow
      <3>1. lease' = lease /\ env'[m] = env[m] /\ m \in Created
        BY <2>1, <2>3
      <3>2. CASE m = k
        <4>1. runner'[m] = who
          BY <2>4, <2>5, <3>2
        <4>2. lease[env[m].to].owner = NoOwner \/ lease[env[m].to].owner = who
          BY <2>2, <3>2 DEF MayWork, NoLeaseRow, HoldsLease
        <4> QED BY <3>1, <4>1, <4>2
      <3>3. CASE m # k
        <4>1. runner'[m] = runner[m] /\ state[m] = "started"
          BY <1>3, <2>3, <2>5, <3>1, <3>3
        <4> QED BY <3>1, <4>1 DEF WorkOwnership, NoLeaseRow
      <3> QED BY <3>2, <3>3
    <2>8. AttemptsWithin'
      BY <2>1, <2>4, <2>5, AttemptAssumption DEF AttemptsWithin, AttemptsLeft
    <2>9. AttemptsBounded'
      <3> SUFFICES ASSUME NEW m \in Created', state'[m] = "started"
                   PROVE  attempts'[m] >= 1
        BY <1>4, <2>8 DEF AttemptsBounded, AttemptsWithin
      <3>1. CASE m = k
        BY <2>4, <2>5, <3>1
      <3>2. CASE m # k
        BY <1>4, <2>3, <2>5, <3>2 DEF AttemptsBounded
      <3> QED BY <3>1, <3>2
    <2> QED BY <2>6, <2>7, <2>8, <2>9
  <1> QED BY <1>5, <1>6 DEF Evolves

\* A row that does not exist yet has not been executed.
Unborn == \A m \in Id \ Created : attempts[m] = 0

LEMMA QueuedStep ==
  ASSUME TypeOK, Unborn, AcceptedMayRun, Evolves, TypeOK'
  PROVE  Unborn' /\ AcceptedMayRun'
  <1>1. Persists /\ Requeued
    BY DEF Evolves
  <1>2. Created \subseteq Created' /\ Created' \subseteq Id
    <2>1. Created \subseteq Created'
      BY <1>1 DEF Persists
    <2>2. Created' \subseteq Id
      BY BoundAssumption DEF Created, Id, TypeOK
    <2> QED BY <2>1, <2>2
  <1>3. ASSUME NEW m \in Id, m \notin Created \/ state'[m] = "accepted"
        PROVE  attempts'[m] = attempts[m]
    <2>1. CASE NoStart
      BY <2>1 DEF NoStart
    <2>2. CASE \E k \in Created : Starts(k)
      <3>1. PICK k \in Created : Starts(k)
        BY <2>2
      <3>2. k # m
        BY <1>3, <3>1 DEF Starts
      <3> QED BY <3>1, <3>2 DEF Starts, TypeOK
    <2> QED BY <2>1, <2>2 DEF Evolves
  <1>4. Unborn'
    BY <1>2, <1>3 DEF Unborn
  <1>5. ASSUME NEW m \in Created', state'[m] = "accepted"
        PROVE  AttemptsLeft(m)'
    <2>1. attempts'[m] = attempts[m]
      BY <1>2, <1>3, <1>5
    <2>2. CASE m \in Created
      <3>1. AttemptsLeft(m)
        BY <1>1, <1>5, <2>2 DEF Requeued, AcceptedMayRun
      <3> QED BY <2>1, <3>1 DEF AttemptsLeft
    <2>3. CASE m \notin Created
      <3>1. attempts[m] = 0
        BY <1>2, <2>3 DEF Unborn
      <3> QED BY <2>1, <3>1, AttemptAssumption DEF AttemptsLeft
    <2> QED BY <2>2, <2>3
  <1> QED BY <1>4, <1>5 DEF AcceptedMayRun

-----------------------------------------------------------------------------
(* Prerequisites *)

\* Causes and prerequisites are older than the message: references have no
\* cycle, which the dependency and the depth arguments both rest on.
Lineage ==
  \A m \in Created : env[m].parent \in 0..(m - 1) /\ env[m].deps \subseteq 1..(m - 1)

\* Work without required contracts is begun only after its prerequisites, and
\* they stay completed whatever happens to the work.
Waited ==
  \A m \in Created :
    env[m].pins = {} /\ state[m] \in {"started", "blocked"} => Unmet(m) = {}

LEMMA LineageStep ==
  ASSUME TypeOK, Lineage, Persists, Arrives, TypeOK'
  PROVE  Lineage'
  <1> SUFFICES ASSUME NEW m \in Created'
               PROVE  env'[m].parent \in 0..(m - 1) /\ env'[m].deps \subseteq 1..(m - 1)
    BY DEF Lineage
  <1>1. CASE m \in Created
    BY <1>1 DEF Lineage, Persists
  <1>2. CASE m \notin Created
    <2>1. env'[m].parent \in Created \cup {0} /\ env'[m].deps \subseteq Created
      BY <1>2 DEF Arrives, Admissible
    <2>2. sent \in Nat /\ m \in Nat /\ m > sent
      BY <1>2, BoundAssumption DEF TypeOK, Created
    <2>3. Created \subseteq 1..(m - 1)
      BY <2>2 DEF Created
    <2>4. Created \cup {0} \subseteq 0..(m - 1)
      BY <2>2 DEF Created
    <2> QED BY <2>1, <2>3, <2>4, Zenon
  <1> QED BY <1>1, <1>2

LEMMA EarlierIsCreated ==
  ASSUME TypeOK, NEW m \in Created
  PROVE  1..(m - 1) \subseteq Created /\ 0..(m - 1) \subseteq Created \cup {0}
  <1>1. sent \in Nat
    BY BoundAssumption DEF TypeOK
  <1> QED BY <1>1 DEF Created

LEMMA WaitedStep ==
  ASSUME TypeOK, Lineage, Waited, Persists, Forward, Gated
  PROVE  Waited'
  <1> SUFFICES ASSUME NEW m \in Created', env'[m].pins = {},
                      state'[m] \in {"started", "blocked"}
               PROVE  Unmet(m)' = {}
    BY DEF Waited
  <1>1. m \in Created /\ env'[m] = env[m]
    BY DEF Persists
  <1>2. Unmet(m) = {}
    BY <1>1 DEF Waited, Gated
  <1>3. env[m].deps \subseteq Created
    BY <1>1, EarlierIsCreated DEF Lineage
  <1>4. \A d \in Created : state[d] = "completed" => state'[d] = "completed"
    BY DEF Forward, Pending
  <1> QED BY <1>1, <1>2, <1>3, <1>4 DEF Unmet
-----------------------------------------------------------------------------
(* Queue limits *)

LEMMA InitialSegmentFinite ==
  ASSUME NEW n \in Nat, NEW S \in SUBSET (1..n)
  PROVE  IsFiniteSet(S) /\ Cardinality(S) \in Nat
  <1>1. IsFiniteSet(1..n)
    BY FS_Interval
  <1> QED BY <1>1, FS_Subset, FS_CardinalityType

\* The work of p that has been answered.
AnsweredFor(p) == {r \in Created : env[r].from = p /\ Answered(r)}

LEMMA QueueAlt ==
  QueueBounded <=> \A p \in Peer : Cardinality(InState(p, Pending)) <=
                                     MaxPeerQueue + Cardinality(AnsweredFor(p))
  <1>1. \A p : AnsweredFor(p) =
          {r \in Created : /\ env[r].from = p
                          /\ \E a \in Created : /\ env[a].replyTo = r
                                               /\ env[a].kind = "answer"}
    BY DEF AnsweredFor, Answered
  <1> QED BY <1>1 DEF QueueBounded

LEMMA QueueStep ==
  ASSUME TypeOK, QueueBounded, Persists, Forward, Arrives, TypeOK'
  PROVE  QueueBounded'
  <1> SUFFICES ASSUME NEW p \in Peer
               PROVE  Cardinality(InState(p, Pending)') <=
                        MaxPeerQueue + Cardinality(AnsweredFor(p)')
    BY DEF QueueBounded, AnsweredFor, Answered
  <1> DEFINE Q == InState(p, Pending)
             A == AnsweredFor(p)
             new == {m \in Created' \ Created : env'[m].to = p}
  <1>0. sent \in Nat /\ sent' \in Nat
    BY BoundAssumption DEF TypeOK
  <1>1. /\ Q \subseteq Created /\ A \subseteq Created
        /\ InState(p, Pending)' \subseteq Created' /\ AnsweredFor(p)' \subseteq Created'
    BY DEF InState, AnsweredFor
  <1>2. /\ IsFiniteSet(Q) /\ Cardinality(Q) \in Nat
        /\ IsFiniteSet(A) /\ Cardinality(A) \in Nat
    BY <1>1, <1>0, InitialSegmentFinite DEF Created
  <1>3. /\ IsFiniteSet(InState(p, Pending)') /\ Cardinality(InState(p, Pending)') \in Nat
        /\ IsFiniteSet(AnsweredFor(p)') /\ Cardinality(AnsweredFor(p)') \in Nat
    BY <1>0, <1>1, InitialSegmentFinite DEF Created
  <1>4. InState(p, Pending)' \subseteq Q \cup new
    BY DEF InState, Persists, Forward
  <1>5. A \subseteq AnsweredFor(p)'
    BY DEF AnsweredFor, Answered, Persists
  <1>6. Cardinality(A) <= Cardinality(AnsweredFor(p)')
    BY <1>3, <1>5, FS_Subset
  <1>7. Cardinality(Q) <= MaxPeerQueue + Cardinality(A)
    BY QueueAlt
  <1>8. MaxPeerQueue \in Nat
    BY BoundAssumption
  <1>9. CASE new = {}
    <2>1. Cardinality(InState(p, Pending)') <= Cardinality(Q)
      BY <1>2, <1>4, <1>9, FS_Subset
    <2> QED BY <1>2, <1>3, <1>6, <1>7, <1>8, <2>1
  <1>10. CASE new # {}
    <2>1. PICK m \in Created' \ Created : env'[m].to = p /\ new = {m}
      BY <1>10 DEF Persists
    <2>2. IsFiniteSet(Q \cup {m}) /\ Cardinality(Q \cup {m}) = Cardinality(Q) + 1
      BY <1>1, <1>2, <2>1, FS_AddElement
    <2>3. Cardinality(InState(p, Pending)') <= Cardinality(Q) + 1
      BY <1>4, <2>1, <2>2, FS_Subset
    <2>4. CASE Cardinality(Q) < MaxPeerQueue
      BY <1>2, <1>3, <1>8, <2>3, <2>4
    <2>5. CASE ~ (Cardinality(Q) < MaxPeerQueue)
      <3>1. /\ env'[m].kind = "answer" /\ env'[m].replyTo \in Created
            /\ env[env'[m].replyTo].from = p /\ ~ Answered(env'[m].replyTo)
        BY <2>1, <2>5 DEF Arrives, Admissible
      <3> DEFINE r == env'[m].replyTo
      <3>2. r \notin A
        BY <3>1 DEF AnsweredFor
      <3>3. r \in AnsweredFor(p)'
        BY <2>1, <3>1 DEF AnsweredFor, Answered, Persists
      <3> HIDE DEF r
      <3>4. Cardinality(A \cup {r}) = Cardinality(A) + 1
        BY <1>2, <3>2, FS_AddElement
      <3>5. Cardinality(A \cup {r}) <= Cardinality(AnsweredFor(p)')
        BY <1>3, <1>5, <3>3, FS_Subset
      <3> QED BY <1>2, <1>3, <1>7, <1>8, <2>3, <3>4, <3>5
    <2> QED BY <2>4, <2>5
  <1> QED BY <1>9, <1>10
-----------------------------------------------------------------------------
(* Delegation *)

\* The peers that took part in the causes of a message outnumber its depth.
Spread == \A m \in Created : env[m].depth < Cardinality(Participants(Ancestors(m)))

LEMMA AncestorsBasics ==
  /\ \A m : Ancestors(m) \subseteq Created
  /\ \A m \in Created : m # 0 => m \in Ancestors(m)
  /\ \A m, S : S \subseteq Created /\ {m} \ {0} \subseteq S /\ Chained(S)
               => Ancestors(m) \subseteq S
  BY DEF Ancestors

\* A chain keeps its members as the project grows.
LEMMA AncestorsGrow ==
  ASSUME TypeOK, Lineage, Persists, NEW m \in Created
  PROVE  Ancestors(m) \subseteq Ancestors(m)'
  <1> SUFFICES ASSUME NEW n \in Ancestors(m), NEW S \in SUBSET Created',
                      {m} \ {0} \subseteq S, Chained(S)'
               PROVE  n \in S
    BY DEF Ancestors, Persists
  <1>1. S \cap Created \subseteq Created /\ {m} \ {0} \subseteq S \cap Created
    OBVIOUS
  <1>2. Chained(S \cap Created)
    <2> SUFFICES ASSUME NEW k \in S, k \in Created
                 PROVE  env[k].parent \in (S \cap Created) \cup {0}
      BY DEF Chained
    <2>1. env[k].parent \in S \cup {0}
      BY DEF Chained, Persists
    <2>2. env[k].parent \in Created \cup {0}
      BY EarlierIsCreated DEF Lineage
    <2> QED BY <2>1, <2>2
  <1> QED BY <1>1, <1>2, AncestorsBasics

\* A new message adds itself to the chain of its parent.
LEMMA AncestorsExtend ==
  ASSUME TypeOK, Lineage, Persists, NEW m \in Created' \ Created,
         NEW q \in Created \cup {0}, env'[m].parent = q
  PROVE  /\ m \in Ancestors(m)'
         /\ Ancestors(q) \subseteq Ancestors(m)'
  <1>1. m # 0
    BY DEF Created
  <1>2. m \in Ancestors(m)'
    BY <1>1 DEF Ancestors
  <1>3. CASE q = 0
    <2>1. Ancestors(0) = {}
      <3>1. {} \subseteq Created /\ {0} \ {0} \subseteq {} /\ Chained({})
        BY DEF Chained
      <3> QED BY <3>1, AncestorsBasics
    <2> QED BY <1>2, <1>3, <2>1
  <1>4. CASE q # 0
    <2>1. Ancestors(q) \subseteq Ancestors(q)'
      BY <1>1, <1>4, AncestorsGrow
    <2>2. ASSUME NEW S \in SUBSET Created', m \in S, Chained(S)'
          PROVE  {q} \ {0} \subseteq S
      BY <2>2 DEF Chained
    <2>3. Ancestors(q)' \subseteq Ancestors(m)'
      BY <1>1, <2>2 DEF Ancestors
    <2> QED BY <1>2, <2>1, <2>3
  <1> QED BY <1>3, <1>4

LEMMA ParticipantsFinite ==
  ASSUME TypeOK, NEW S \in SUBSET Created
  PROVE  /\ Participants(S) \subseteq Peer /\ IsFiniteSet(Participants(S))
         /\ Cardinality(Participants(S)) \in Nat
         /\ Cardinality(Participants(S)) <= Cardinality(Peer)
         /\ Cardinality(Peer) \in Nat
  <1>1. \A n \in Created : env[n].from \in Peer /\ env[n].to \in Peer
    BY CreatedIds DEF Envelope
  <1>2. Participants(S) \subseteq Peer
    BY <1>1 DEF Participants
  <1> QED BY <1>2, FinitePeers, FS_Subset, FS_CardinalityType

LEMMA SpreadStep ==
  ASSUME TypeOK, Lineage, Spread, Persists, Arrives, TypeOK'
  PROVE  Spread'
  <1> SUFFICES ASSUME NEW m \in Created'
               PROVE  env'[m].depth < Cardinality(Participants(Ancestors(m))')
    BY DEF Spread
  <1> DEFINE P == Participants(Ancestors(m))'
  <1>1. IsFiniteSet(P) /\ Cardinality(P) \in Nat
    <2>1. Ancestors(m)' \subseteq Created'
      BY DEF Ancestors
    <2>2. \A n \in Created' : env'[n] \in Envelope
      BY BoundAssumption DEF Created, Id, TypeOK
    <2>3. P \subseteq Peer
      BY <2>1, <2>2 DEF Participants, Envelope
    <2> QED BY <2>3, FinitePeers, FS_Subset, FS_CardinalityType
  <1>2. \A S, T : S \subseteq Created /\ S \subseteq T
           => Participants(S) \subseteq Participants(T)'
    BY DEF Participants, Persists
  <1>3. CASE m \in Created
    <2>1. Participants(Ancestors(m)) \subseteq P
      BY <1>2, <1>3, AncestorsBasics, AncestorsGrow DEF Participants
    <2>2. env'[m].depth = env[m].depth /\ env[m].depth \in Nat
      BY <1>3, CreatedIds DEF Persists, Envelope
    <2>3. /\ env[m].depth < Cardinality(Participants(Ancestors(m)))
          /\ Cardinality(Participants(Ancestors(m))) \in Nat
      BY <1>3, AncestorsBasics, ParticipantsFinite DEF Spread
    <2>4. Cardinality(Participants(Ancestors(m))) <= Cardinality(P)
      BY <1>1, <2>1, FS_Subset
    <2> QED BY <1>1, <2>2, <2>3, <2>4
  <1>4. CASE m \notin Created
    <2> DEFINE q == env'[m].parent
               R == Participants(Ancestors(q))
               d == IF q = 0 THEN 0 ELSE env[q].depth
    <2>1. Admissible(env'[m]) /\ q \in Created \cup {0}
      BY <1>4 DEF Arrives, Admissible
    <2>2. m \in Ancestors(m)' /\ Ancestors(q) \subseteq Ancestors(m)'
      BY <1>4, <2>1, AncestorsExtend
    <2>3. {env'[m].from, env'[m].to} \subseteq P
      BY <2>2 DEF Participants
    <2>4. R \subseteq P
      <3>1. Ancestors(q) \subseteq Created
        BY AncestorsBasics
      <3> HIDE DEF q
      <3> QED BY <2>2, <3>1 DEF Participants, Persists
    <2>5. IsFiniteSet(R) /\ Cardinality(R) \in Nat
      BY AncestorsBasics, ParticipantsFinite
    <2>6. d \in Nat /\ (q # 0 => d < Cardinality(R))
      BY <2>1, CreatedIds DEF Spread, Envelope
    <2>7. CASE env'[m].kind = "request"
      <3>1. /\ env'[m].from # env'[m].to /\ env'[m].to \notin R
            /\ env'[m].depth = d + 1
        BY <2>1, <2>7 DEF Admissible
      <3>2. CASE q = 0
        <4>1. Cardinality({env'[m].from}) = 1 /\ IsFiniteSet({env'[m].from})
          BY FS_Singleton
        <4>2. env'[m].to \notin {env'[m].from}
          BY <3>1
        <4>3. Cardinality({env'[m].from} \cup {env'[m].to}) =
                Cardinality({env'[m].from}) + 1
          BY <4>1, <4>2, FS_AddElement
        <4>4. Cardinality({env'[m].from} \cup {env'[m].to}) = 2
          BY <4>1, <4>3
        <4>5. {env'[m].from} \cup {env'[m].to} \subseteq P
          BY <2>3
        <4>6. 2 <= Cardinality(P)
          BY <1>1, <4>4, <4>5, FS_Subset
        <4> QED BY <1>1, <3>1, <3>2, <4>6
      <3>3. CASE q # 0
        <4>1. Cardinality(R \cup {env'[m].to}) = Cardinality(R) + 1
          BY <2>5, <3>1, FS_AddElement
        <4>2. Cardinality(R) + 1 <= Cardinality(P)
          BY <1>1, <2>3, <2>4, <4>1, FS_Subset
        <4> QED BY <1>1, <2>5, <2>6, <3>1, <3>3, <4>2
      <3> QED BY <3>2, <3>3
    <2>8. CASE env'[m].kind # "request"
      <3>1. env'[m].depth = d
        BY <2>1, <2>6, <2>8 DEF Admissible
      <3>2. CASE q = 0
        <4>1. Cardinality({env'[m].from}) = 1
          BY FS_Singleton
        <4>2. 1 <= Cardinality(P)
          BY <1>1, <2>3, <4>1, FS_Subset
        <4> QED BY <1>1, <3>1, <3>2, <4>2
      <3>3. CASE q # 0
        <4>1. Cardinality(R) <= Cardinality(P)
          BY <1>1, <2>4, FS_Subset
        <4> QED BY <1>1, <2>5, <2>6, <3>1, <3>3, <4>1
      <3> QED BY <3>2, <3>3
    <2> QED BY <2>7, <2>8
  <1> QED BY <1>3, <1>4
-----------------------------------------------------------------------------
(* The inductive invariant *)

\* An answer that its own request could contradict, or an execution that its
\* peer's lease row does not name, would let a step complete or start work
\* twice; a reference to a later message would let work wait for itself.
Safe == /\ TypeOK /\ AnswerIsFinal
        /\ AtMostOneStarted /\ WorkOwnership /\ AttemptsWithin /\ AttemptsBounded
        /\ Unborn /\ AcceptedMayRun
        /\ Lineage /\ Waited /\ QueueBounded /\ Spread

LEMMA SafeInit == Init => Safe
  <1> SUFFICES ASSUME Init PROVE Safe
    OBVIOUS
  <1>1. Created = {}
    BY DEF Init, Created
  <1>2. AttemptsWithin
    BY AttemptAssumption DEF Init, AttemptsWithin
  <1>3. Unborn
    BY DEF Init, Unborn
  <1>4. QueueBounded
    <2>1. \A p \in Peer : InState(p, Pending) = {} /\ AnsweredFor(p) = {}
      BY <1>1 DEF InState, AnsweredFor
    <2>2. MaxPeerQueue \in Nat /\ Cardinality({}) = 0
      BY BoundAssumption, FS_EmptySet
    <2> QED BY <2>1, <2>2, QueueAlt
  <1> QED BY <1>1, <1>2, <1>3, <1>4, TypeInit DEF Safe, AnswerIsFinal, AtMostOneStarted,
             InState, WorkOwnership, AttemptsBounded, AcceptedMayRun, Lineage, Waited,
             Spread

LEMMA SafeNext == Safe /\ [Next]_vars => Safe' /\ Evolves
  <1> SUFFICES ASSUME Safe, [Next]_vars PROVE Safe' /\ Evolves
    OBVIOUS
  <1>1. Evolves
    BY StepEvolves DEF Safe
  <1>2. TypeOK'
    BY TypeNext DEF Safe
  <1>3. Lineage' /\ Waited' /\ QueueBounded' /\ Spread'
    BY <1>1, <1>2, LineageStep, WaitedStep, QueueStep, SpreadStep DEF Safe, Evolves
  <1> QED BY <1>1, <1>2, <1>3, AnswerStep, StartedStep, QueuedStep DEF Safe

\* Safe holds whatever callers do, in any order, and every step evolves.
THEOREM Safety == Spec => []Safe
  BY SafeInit, SafeNext, PTL DEF Spec

\* A peer never runs two messages: claim, manual resume, review and recovery
\* exclude each other whatever their order.
THEOREM OneExecution == Spec => []AtMostOneStarted
  <1>1. Safe => AtMostOneStarted
    BY DEF Safe
  <1> QED BY <1>1, Safety, PTL

\* Work in progress never belongs to a lease that was superseded.
THEOREM Ownership == Spec => []WorkOwnership
  <1>1. Safe => WorkOwnership
    BY DEF Safe
  <1> QED BY <1>1, Safety, PTL

\* No request is answered twice and no answered request changes again.
THEOREM OneAnswer == Spec => []AnswerIsFinal
  <1>1. Safe => AnswerIsFinal
    BY DEF Safe
  <1> QED BY <1>1, Safety, PTL

\* MaxExecutionAttempts bounds the executions of a message, restarts included.
THEOREM BoundedAttempts == Spec => []AttemptsBounded
  <1>1. Safe => AttemptsBounded
    BY DEF Safe
  <1> QED BY <1>1, Safety, PTL

\* What is in a queue can be executed: no recovery, review or resume puts work
\* back into it after its last attempt.
THEOREM QueuedMayRun == Spec => []AcceptedMayRun
  <1>1. Safe => AcceptedMayRun
    BY DEF Safe
  <1> QED BY <1>1, Safety, PTL

\* Queues stay bounded: only the one answer to a request may exceed the limit.
THEOREM BoundedQueues == Spec => []QueueBounded
  <1>1. Safe => QueueBounded
    BY DEF Safe
  <1> QED BY <1>1, Safety, PTL

\* Delegation ends: a request's depth stays below the number of peers.
THEOREM BoundedDepth == Spec => []DepthBelowPeers
  <1>1. ASSUME Safe PROVE DepthBelowPeers
    <2>1. ASSUME NEW m \in Created
          PROVE  env[m].depth < Cardinality(Peer)
      <3>1. TypeOK /\ env[m].depth < Cardinality(Participants(Ancestors(m)))
        BY <1>1 DEF Safe, Spread
      <3>2. env[m].depth \in Nat
        BY <3>1, CreatedIds DEF Envelope
      <3>3. /\ Cardinality(Participants(Ancestors(m))) \in Nat
            /\ Cardinality(Participants(Ancestors(m))) <= Cardinality(Peer)
            /\ Cardinality(Peer) \in Nat
        BY <3>1, AncestorsBasics, ParticipantsFinite
      <3> QED BY <3>1, <3>2, <3>3
    <2> QED BY <2>1 DEF DepthBelowPeers
  <1> QED BY <1>1, Safety, PTL

\* Work that requires no contract is executed only after its prerequisites,
\* whoever runs it, and it stays so through interruptions and resumes.
UnpinnedRunsAfterPrerequisites ==
  \A m \in Created : state[m] = "started" /\ env[m].pins = {} => Unmet(m) = {}

THEOREM PrerequisitesFirst == Spec => []UnpinnedRunsAfterPrerequisites
  <1>1. Safe => UnpinnedRunsAfterPrerequisites
    BY DEF Safe, Waited, UnpinnedRunsAfterPrerequisites
  <1> QED BY <1>1, Safety, PTL

\* In a project without contracts that is all the work there is.
THEOREM PrerequisitesWithoutContracts ==
  ASSUME Pin = {}
  PROVE  Spec => []RunsAfterPrerequisites
  <1>1. Safe => RunsAfterPrerequisites
    <2> SUFFICES ASSUME Safe, NEW m \in Created, state[m] = "started"
                 PROVE  Unmet(m) = {}
      BY DEF RunsAfterPrerequisites
    <2>1. env[m].pins = {}
      BY CreatedIds DEF Safe, Envelope
    <2> QED BY <2>1 DEF Safe, Waited
  <1> QED BY <1>1, Safety, PTL

\* Dependencies alone never stop a project: its oldest queued message waits
\* for finished work only, so its recipient's next claim fails or starts one.
THEOREM DependenciesLive == Spec => []NoDependencyDeadlock
  <1>1. ASSUME Safe, Quiet, NEW k \in Created, state[k] = "accepted"
        PROVE  \E p \in Peer : ClaimChanges(p)
    <2> DEFINE W == {n \in Created : state[n] = "accepted"}
    <2>1. W \subseteq Nat /\ W # {}
      BY <1>1 DEF Created
    <2>2. PICK m \in W : \A n \in W : ~ (n < m)
      <3> DEFINE R == {a \in Nat \X Nat : a[1] < a[2]}
      <3>1. IsWellFoundedOn(R, Nat)
        BY NatLessThanWellFounded DEF OpToRel
      <3>2. \A a, b \in Nat : a < b => <<a, b>> \in R
        OBVIOUS
      <3> HIDE DEF R, W
      <3>3. PICK m \in W : \A n \in W : ~ (<<n, m>> \in R)
        BY <2>1, <3>1, WFMin
      <3> QED BY <2>1, <3>2, <3>3
    <2>3. /\ m \in Created /\ state[m] = "accepted" /\ TypeOK
          /\ \A n \in W : ~ (n < m)
      BY <1>1, <2>2 DEF Safe
    <2> DEFINE p == env[m].to
    <2>4. p \in Peer /\ m \in InState(p, {"accepted"})
      BY <2>3, CreatedIds DEF Envelope, InState
    <2>5. \A d \in env[m].deps : state[d] \in Terminal
      <3> SUFFICES ASSUME NEW d \in env[m].deps PROVE state[d] \in Terminal
        OBVIOUS
      <3>1. d \in 1..(m - 1) /\ d \in Created
        BY <1>1, <2>3, EarlierIsCreated DEF Safe, Lineage
      <3>2. d \notin W
        <4>1. m \in Nat
          BY <2>3 DEF Created
        <4> QED BY <2>3, <3>1, <4>1
      <3>3. state[d] \in State /\ state[d] \notin {"accepted", "started", "blocked"}
        BY <1>1, <2>3, <3>1, <3>2, CreatedIds DEF Quiet
      <3> QED BY <3>3 DEF State, Pending
    <2>6. CASE \E d \in env[m].deps : state[d] \in {"failed", "cancelled"}
      <3>1. m \in Hopeless(p)
        BY <2>4, <2>6 DEF Hopeless, Doomed
      <3> QED BY <2>4, <3>1 DEF ClaimChanges
    <2>7. CASE ~ \E d \in env[m].deps : state[d] \in {"failed", "cancelled"}
      <3>1. Unmet(m) = {}
        BY <2>5, <2>7 DEF Unmet, Terminal
      <3>2. CASE m \in Hopeless(p)
        BY <2>4, <3>2 DEF ClaimChanges
      <3>3. CASE m \notin Hopeless(p)
        <4>1. m \in Candidates(p)
          BY <2>4, <3>3 DEF Candidates
        <4>2. Blockers(m) = {} \/ Fatal(m)
          BY <1>1, <2>3 DEF Quiet
        <4>3. m \in Ready(p) \/ m \in StaleWork(p) \/ Ready(p) # {}
          BY <3>1, <4>1, <4>2 DEF Ready, StaleWork
        <4> QED BY <2>4, <4>3 DEF ClaimChanges
      <3> QED BY <3>2, <3>3
    <2> QED BY <2>6, <2>7
  <1>2. Safe => NoDependencyDeadlock
    BY <1>1 DEF NoDependencyDeadlock
  <1> QED BY <1>2, Safety, PTL

\* No step undoes a terminal status or changes a status without a revision.
THEOREM ForwardOnly == Spec => StatusMovesForward
  <1>1. Safe /\ [Next]_vars =>
          [\A m \in Created : state'[m] # state[m] =>
             /\ state[m] \notin Terminal
             /\ revision'[m] = revision[m] + 1]_vars
    <2>1. Pending \cap Terminal = {}
      BY DEF Pending, Terminal
    <2> QED BY <2>1, SafeNext DEF Evolves, Forward
  <1> QED BY <1>1, Safety, PTL DEF Spec, StatusMovesForward

\* No step completes work whose required agreements do not hold then.
THEOREM AgreedCompletion == Spec => CompletionNeedsAgreement
  <1>1. Safe /\ [Next]_vars =>
          [\A m \in Created : state[m] # "completed" /\ state'[m] = "completed"
             => Blockers(m) = {}]_vars
    BY SafeNext DEF Evolves, Agreed
  <1> QED BY <1>1, Safety, PTL DEF Spec, CompletionNeedsAgreement
=============================================================================
