---------------------------- MODULE CoordUsageProofs ----------------------------
(***************************************************************************)
(* Proofs about CoordUsage: rows are well formed, unrecorded usage leaves  *)
(* an open journal, attestations rest on evidence, totals add up, a limit  *)
(* is overrun by calls under way alone, and the task's budget is the one   *)
(* UsageBudget promises, for any peers, messages, executions, limits,      *)
(* samples and faults.                                                     *)
(***************************************************************************)
EXTENDS CoordUsage, FiniteSetTheorems, TLAPS

USE DEF ghost   \* history: every action names it, none reads it

Ran(e) == run[e].pc # "none"

\* Executions belong to sent messages, and their attempts are counted.
Begun == \A e \in Execution :
  Ran(e) => ~ State(MessageOf(e), "none") /\ e[2] <= message[MessageOf(e)].attempts

\* A journal is open from before the first call until it is certified.
Journaled == \A e \in Execution :
  /\ journal[e] # "none" => Ran(e)
  /\ run[e].pc = "working" => journal[e] = "open"
  /\ run[e].calls > 0 => run[e].pc = "working"

\* An execution that lost usage never certifies its journal.
LostKept == \A e \in lost :
  /\ journal[e] = "open" /\ Ran(e)
  /\ run[e].incomplete \/ run[e].pc = "over"

\* Only executions that can no longer report are resolved.
ResolvedFenced == \A e \in resolved : Ran(e) /\ ~ Leased(e)

\* unknown_usage counts the samples in doubt.
Counted == /\ IsFiniteSet(doubts) /\ usage.unknown = Cardinality(doubts)
           /\ \A d \in doubts : Ran(d[1]) /\ d[2] < samples[d[1]]

\* The total of the task is what its messages were reported and attested to use.
Totalled == usage.total = SumFunction(reported) + SumFunction(replaced)

\* Without a message there is nothing to account for.
Quiet == (\A m \in Message : State(m, "none")) => usage.total = 0

\* Evidence that is still current names every unfinished run.
FreshSeen == \A m \in fresh : Pending \cap RunsOf(m) \subseteq seen[m]

IInv == TypeOK /\ Begun /\ Journaled /\ LostKept /\ ResolvedFenced /\ Counted
        /\ Totalled /\ Quiet /\ FreshSeen
-----------------------------------------------------------------------------
(* Sums.  SumFunction adds one element at a time, so what it computes is   *)
(* shown by induction on the size of the set that is summed.               *)

\* Induction, for sets of numbers.
LEMMA AllNumbers ==
  ASSUME NEW S \in SUBSET Nat, 0 \in S, \A n \in S : n + 1 \in S
  PROVE  S = Nat
  <1> DEFINE B == Nat \ S
             R == {p \in Nat \X Nat : p[1] < p[2]}
  <1>1. IsWellFoundedOn(R, Nat)
    BY NatLessThanWellFounded DEF OpToRel
  <1>2. \A a, b \in Nat : a < b => <<a, b>> \in R
    OBVIOUS
  <1> HIDE DEF R
  <1>3. ASSUME B # {} PROVE FALSE
    <2>1. PICK b \in B : \A a \in B : ~ (<<a, b>> \in R)
      BY <1>1, <1>3, WFMin
    <2>2. b \in Nat /\ b # 0 /\ b - 1 \in Nat /\ b - 1 < b
      BY <2>1
    <2>3. b - 1 \in S
      BY <1>2, <2>1, <2>2
    <2> QED BY <2>1, <2>2, <2>3
  <1> QED BY <1>3

Pick(s) == CHOOSE x \in s : TRUE

\* g gives the sum of f over every subset of D, an element at a time.
Sums(D, f, g) ==
  g = [s \in SUBSET D |-> IF s = {} THEN 0 ELSE f[Pick(s)] + g[s \ {Pick(s)}]]
SumsOf(D, f) == CHOOSE g : Sums(D, f, g)

LEMMA SumUnfold ==
  ASSUME NEW f
  PROVE  SumFunction(f) = SumsOf(DOMAIN f, f)[DOMAIN f]
  BY DEF SumFunction, SumFunctionOnSet, FoldFunctionOnSet, MapThenFoldSet, SumsOf, Sums, Pick

LEMMA PickOne ==
  ASSUME NEW D, IsFiniteSet(D), NEW s \in SUBSET D, s # {}
  PROVE  /\ Pick(s) \in s /\ s \ {Pick(s)} \in SUBSET D
         /\ Cardinality(s) \in Nat /\ Cardinality(s \ {Pick(s)}) \in Nat
         /\ Cardinality(s) = Cardinality(s \ {Pick(s)}) + 1
  <1>1. Pick(s) \in s
    BY DEF Pick
  <1>2. IsFiniteSet(s) /\ Cardinality(s) \in Nat
    BY FS_Subset, FS_CardinalityType
  <1>3. IsFiniteSet(s \ {Pick(s)}) /\ Cardinality(s \ {Pick(s)}) = Cardinality(s) - 1
    BY <1>1, <1>2, FS_RemoveElement
  <1>4. Cardinality(s \ {Pick(s)}) \in Nat
    BY <1>3, FS_CardinalityType
  <1> QED BY <1>1, <1>2, <1>3, <1>4

\* The sums exist, whatever is summed: by induction on the size of the sets.
LEMMA SumsExist ==
  ASSUME NEW D, IsFiniteSet(D), NEW f
  PROVE  Sums(D, f, SumsOf(D, f))
  <1> DEFINE Value(g, s) == IF s = {} THEN 0 ELSE f[Pick(s)] + g[s \ {Pick(s)}]
             UpTo(n, g) == /\ g = [s \in SUBSET D |-> g[s]]
                           /\ \A s \in SUBSET D : Cardinality(s) <= n => g[s] = Value(g, s)
             S == {n \in Nat : \E g : UpTo(n, g)}
  <1>0. \A s \in SUBSET D : /\ Cardinality(s) \in Nat
                            /\ Cardinality(s) = 0 <=> s = {}
    BY FS_Subset, FS_CardinalityType, FS_EmptySet
  <1>1. 0 \in S
    <2> DEFINE g == [s \in SUBSET D |-> 0]
    <2>1. \A s \in SUBSET D : Cardinality(s) <= 0 => g[s] = Value(g, s)
      BY <1>0
    <2>2. UpTo(0, g)
      BY <2>1
    <2> QED BY <2>2
  <1>2. ASSUME NEW n \in S PROVE n + 1 \in S
    <2>1. PICK g : UpTo(n, g)
      BY <1>2
    <2> DEFINE h == [s \in SUBSET D |-> IF Cardinality(s) <= n THEN g[s] ELSE Value(g, s)]
    <2>2. ASSUME NEW s \in SUBSET D, Cardinality(s) <= n + 1
          PROVE  h[s] = Value(h, s)
      <3>1. h[s] = Value(g, s)
        BY <2>1
      <3>2. CASE s = {}
        BY <3>1, <3>2
      <3>3. CASE s # {}
        <4> DEFINE t == s \ {Pick(s)}
        <4>1. t \in SUBSET D /\ Cardinality(t) <= n
          BY <1>2, <2>2, <3>3, PickOne
        <4>2. h[t] = g[t]
          BY <4>1
        <4> QED BY <3>1, <3>3, <4>2
      <3> QED BY <3>2, <3>3
    <2>3. UpTo(n + 1, h)
      BY <2>2
    <2> HIDE DEF h, UpTo
    <2> QED BY <1>2, <2>3
  <1>3. S = Nat
    <2> HIDE DEF S
    <2>1. S \in SUBSET Nat
      BY DEF S
    <2> QED BY <1>1, <1>2, <2>1, AllNumbers
  <1>4. PICK g : UpTo(Cardinality(D), g)
    BY <1>0, <1>3
  <1>5. \A s \in SUBSET D : Cardinality(s) <= Cardinality(D)
    BY FS_Subset
  <1>6. Sums(D, f, g)
    <2>1. \A s \in SUBSET D : g[s] = Value(g, s)
      BY <1>4, <1>5
    <2>2. g = [s \in SUBSET D |-> Value(g, s)]
      BY <1>4, <2>1
    <2> QED BY <2>2 DEF Sums
  <1> QED BY <1>6 DEF SumsOf

\* What is true of the empty set and of a set with one more element is true.
LEMMA SumsValue ==
  ASSUME NEW D, IsFiniteSet(D), NEW f
  PROVE  /\ SumsOf(D, f)[{}] = 0
         /\ \A s \in SUBSET D : s # {} =>
              SumsOf(D, f)[s] = f[Pick(s)] + SumsOf(D, f)[s \ {Pick(s)}]
  <1> DEFINE F == SumsOf(D, f)
  <1>0. Sums(D, f, F)
    BY SumsExist
  <1> HIDE DEF F
  <1>1. F = [s \in SUBSET D |-> IF s = {} THEN 0 ELSE f[Pick(s)] + F[s \ {Pick(s)}]]
    BY <1>0 DEF Sums
  <1>2. {} \in SUBSET D
    OBVIOUS
  <1>3. \A s \in SUBSET D : F[s] = IF s = {} THEN 0 ELSE f[Pick(s)] + F[s \ {Pick(s)}]
    BY <1>1
  <1> QED BY <1>2, <1>3 DEF F

\* Every sum of naturals is natural, that of zeros is zero, and to change one
\* value changes the sums that it is part of by as much.
LEMMA SumsChange ==
  ASSUME NEW D, IsFiniteSet(D), NEW f \in [D -> Nat], NEW h \in [D -> Nat],
         NEW x \in D, \A y \in D \ {x} : h[y] = f[y]
  PROVE  \A s \in SUBSET D :
           /\ SumsOf(D, f)[s] \in Nat
           /\ (\A y \in D : f[y] = 0) => SumsOf(D, f)[s] = 0
           /\ SumsOf(D, h)[s] = IF x \in s THEN SumsOf(D, f)[s] - f[x] + h[x]
                                ELSE SumsOf(D, f)[s]
  <1> DEFINE F == SumsOf(D, f)
             G == SumsOf(D, h)
             Right(s) == /\ F[s] \in Nat
                         /\ (\A y \in D : f[y] = 0) => F[s] = 0
                         /\ G[s] = IF x \in s THEN F[s] - f[x] + h[x] ELSE F[s]
             S == {n \in Nat : \A s \in SUBSET D : Cardinality(s) = n => Right(s)}
  <1>0. \A s \in SUBSET D : /\ Cardinality(s) \in Nat
                            /\ Cardinality(s) = 0 <=> s = {}
    BY FS_Subset, FS_CardinalityType, FS_EmptySet
  <1>1. /\ F[{}] = 0 /\ G[{}] = 0
        /\ \A s \in SUBSET D : s # {} =>
             /\ F[s] = f[Pick(s)] + F[s \ {Pick(s)}]
             /\ G[s] = h[Pick(s)] + G[s \ {Pick(s)}]
    BY SumsValue
  <1>2. \A y \in D : f[y] \in Nat /\ h[y] \in Nat
    OBVIOUS
  <1> HIDE DEF F, G
  <1>3. 0 \in S
    <2>1. Right({})
      BY <1>1
    <2> HIDE DEF Right
    <2> QED BY <1>0, <2>1
  <1>4. ASSUME NEW n \in S PROVE n + 1 \in S
    <2> SUFFICES ASSUME NEW s \in SUBSET D, Cardinality(s) = n + 1 PROVE Right(s)
      BY <1>4
    <2> DEFINE y == Pick(s)
               t == s \ {y}
    <2>1. s # {}
      BY <1>0
    <2>2. y \in s /\ t \in SUBSET D /\ Cardinality(t) = n
      BY <1>4, <2>1, PickOne
    <2>3. Right(t)
      BY <1>4, <2>2
    <2>4. F[s] = f[y] + F[t] /\ G[s] = h[y] + G[t]
      BY <1>1, <2>1
    <2>5. y \in D /\ f[y] \in Nat /\ h[y] \in Nat
      BY <1>2, <2>2
    <2>6. x \in s <=> x = y \/ x \in t
      BY <2>2
    <2>7. x = y => x \notin t
      OBVIOUS
    <2> HIDE DEF y, t
    <2>8. F[s] \in Nat
      BY <2>3, <2>4, <2>5
    <2>9. (\A z \in D : f[z] = 0) => F[s] = 0
      BY <2>3, <2>4, <2>5
    <2>10. G[s] = IF x \in s THEN F[s] - f[x] + h[x] ELSE F[s]
      <3>1. CASE x = y
        BY <1>2, <2>3, <2>4, <2>5, <2>6, <2>7, <3>1
      <3>2. CASE x # y
        BY <1>2, <2>3, <2>4, <2>5, <2>6, <3>2
      <3> QED BY <3>1, <3>2
    <2> QED BY <2>8, <2>9, <2>10
  <1>5. S = Nat
    <2> HIDE DEF S
    <2>1. S \in SUBSET Nat
      BY DEF S
    <2> QED BY <1>3, <1>4, <2>1, AllNumbers
  <1>6. \A s \in SUBSET D : Right(s)
    <2> HIDE DEF Right
    <2> QED BY <1>0, <1>5
  <1> QED BY <1>6 DEF F, G

LEMMA SumOfNaturals ==
  ASSUME NEW D, IsFiniteSet(D), NEW f \in [D -> Nat]
  PROVE  /\ SumFunction(f) \in Nat
         /\ (\A y \in D : f[y] = 0) => SumFunction(f) = 0
  <1>1. SumFunction(f) = SumsOf(D, f)[D] /\ D \in SUBSET D
    BY SumUnfold
  <1>2. CASE D = {}
    BY <1>1, <1>2, SumsValue
  <1>3. CASE D # {}
    <2>1. PICK z \in D : TRUE
      BY <1>3
    <2> QED BY <1>1, <2>1, SumsChange
  <1> QED BY <1>2, <1>3

LEMMA SumChanged ==
  ASSUME NEW D, IsFiniteSet(D), NEW f \in [D -> Nat], NEW h \in [D -> Nat],
         NEW x \in D, \A y \in D \ {x} : h[y] = f[y]
  PROVE  SumFunction(h) = SumFunction(f) - f[x] + h[x]
  <1>1. SumFunction(f) = SumsOf(D, f)[D] /\ SumFunction(h) = SumsOf(D, h)[D]
    BY SumUnfold
  <1> QED BY <1>1, SumsChange
-----------------------------------------------------------------------------
(* Types *)

LEMMA Names == NoExecution \notin Execution /\ MaxAttempts \in Nat \ {0} /\ MaxCost \in Nat \ {0}
  BY NameAssumption, BoundAssumption

LEMMA ExecutionFacts ==
  ASSUME NEW e \in Execution
  PROVE  MessageOf(e) \in Message /\ e[2] \in 1..MaxAttempts
  BY DEF Execution, MessageOf

WorkOK == /\ enabled \subseteq Peer
          /\ message \in [Message -> MessageRow]
          /\ lease \in [Peer -> Execution \cup {NoExecution}]

RunOK == /\ run \in [Execution -> Run]
         /\ journal \in [Execution -> {"none", "open", "finished"}]
         /\ resolved \subseteq Execution
         /\ seen \in [Message -> SUBSET Execution]
         /\ fresh \subseteq Message
         /\ faults \in Nat
         /\ lost \subseteq Execution
         /\ abreast \in Nat

SumsOK == /\ samples \in [Execution -> Nat]
          /\ doubts \subseteq Execution \X Nat
          /\ reported \in [Message -> Nat] /\ replaced \in [Message -> Nat]
          /\ usage \in Usage

LEMMA TypeParts == TypeOK <=> WorkOK /\ RunOK /\ SumsOK
  BY DEF TypeOK, WorkOK, RunOK, SumsOK

LEMMA SentType ==
  ASSUME TypeOK, NEW m \in Message, NEW kind \in {"request", "notice"},
         NEW from \in Peer, NEW to \in Peer
  PROVE  /\ Sent(kind, from, to) \in MessageRow
         /\ [message EXCEPT ![m] = Sent(kind, from, to)] \in [Message -> MessageRow]
  <1>1. Sent(kind, from, to) \in MessageRow
    BY Names DEF Sent, MessageRow
  <1>2. message \in [Message -> MessageRow]
    BY DEF TypeOK
  <1> QED BY <1>1, <1>2

\* A new state, for any message.
LEMMA NewState ==
  ASSUME TypeOK, NEW m \in Message,
         NEW s \in {"none", "accepted", "started", "blocked", "ended"}
  PROVE  [message[m] EXCEPT !.state = s] \in MessageRow
  <1>1. message[m] \in MessageRow
    BY DEF TypeOK
  <1> QED BY <1>1 DEF MessageRow

\* What an answer makes of its row and of the row it answers.
LEMMA RepliedRows ==
  ASSUME TypeOK, NEW n \in Message, NEW m \in Message, MayReply(n, m),
         NEW s \in Unfinished \cup {"ended"}
  PROVE  /\ n # m /\ State(n, "none") /\ ~ State(m, "none")
         /\ Replied(n, m, s) \in [Message -> MessageRow]
         /\ Replied(n, m, s)[m] = [message[m] EXCEPT !.state = s]
         /\ \A x \in Message \ {n, m} : Replied(n, m, s)[x] = message[x]
  <1> DEFINE row == Sent("notice", message[m].to, message[m].from)
             old == [message[m] EXCEPT !.state = s]
  <1>1. n # m /\ State(n, "none") /\ ~ State(m, "none")
    BY DEF MayReply, MaySend, State
  <1>2. message[m].to \in Peer /\ message[m].from \in Peer
    BY DEF MayReply, MaySend, TypeOK
  <1>3. row \in MessageRow
    BY <1>2, SentType
  <1>4. old \in MessageRow
    BY NewState DEF Unfinished
  <1>5. message \in [Message -> MessageRow]
    BY DEF TypeOK
  <1>6. Replied(n, m, s) = [x \in Message |-> IF x = m THEN old ELSE IF x = n THEN row
                                              ELSE message[x]]
    BY <1>1, <1>5 DEF Replied
  <1> HIDE DEF row, old
  <1>7. /\ Replied(n, m, s) \in [Message -> MessageRow]
        /\ Replied(n, m, s)[m] = old
        /\ \A x \in Message \ {n, m} : Replied(n, m, s)[x] = message[x]
    BY <1>3, <1>4, <1>5, <1>6
  <1> QED BY <1>1, <1>7 DEF old

LEMMA MessageSteps ==
  ASSUME TypeOK, NEW m \in Message,
         \/ \E kind \in Kind, from, to \in Peer : SendRoot(m, kind, from, to)
         \/ \E n \in Message : Reply(n, m)
         \/ Claim(m) \/ End(m)
  PROVE  TypeOK'
  <1> USE Names DEF WorkOK, RunOK, SumsOK, accounts, contributions
  <1>1. CASE \E kind \in Kind, from, to \in Peer : SendRoot(m, kind, from, to)
    <2>0. PICK kind \in Kind, from, to \in Peer : SendRoot(m, kind, from, to)
      BY <1>1
    <2>1. message' \in [Message -> MessageRow]
      <3>1. UNCHANGED message \/ message' = [message EXCEPT ![m] = Sent(kind, from, to)]
        BY <2>0 DEF SendRoot
      <3> QED BY <3>1, TypeParts, SentType, KindAssumption
    <2>2. PICK l \in Nat : usage' = [usage EXCEPT !.owner = from, !.limit = l]
      BY <2>0, LimitAssumption DEF SendRoot, TypeOK, Usage
    <2>3. usage' \in Usage
      BY <2>2 DEF TypeOK, Usage
    <2> QED BY <2>0, <2>1, <2>3, TypeParts DEF SendRoot, TypeOK
  <1>2. CASE Claim(m)
    <2>1. message[m] \in MessageRow /\ message[m].attempts + 1 \in 1..MaxAttempts
      BY <1>2, TypeParts DEF Claim, MessageRow
    <2>2. message' \in [Message -> MessageRow]
      BY <1>2, <2>1, TypeParts DEF Claim, MessageRow
    <2>3. <<m, message[m].attempts + 1>> \in Execution
      BY <2>1 DEF Execution
    <2>4. lease' \in [Peer -> Execution \cup {NoExecution}] /\ run' \in [Execution -> Run]
      BY <1>2, <2>3, TypeParts DEF Claim, Run
    <2> QED BY <1>2, <2>2, <2>4, TypeParts DEF Claim, TypeOK
  <1>3. CASE End(m)
    <2>1. message' = [message EXCEPT ![m] = [message[m] EXCEPT !.state = "ended"]]
      BY <1>3 DEF End, TypeOK
    <2>2. message' \in [Message -> MessageRow]
      BY <2>1, NewState DEF TypeOK
    <2> QED BY <1>3, <2>2, TypeParts DEF End, TypeOK
  <1>4. CASE \E n \in Message : Reply(n, m)
    <2>1. PICK n \in Message : Reply(n, m)
      BY <1>4
    <2>2. message[m].state \in Unfinished \cup {"ended"}
      BY <2>1 DEF Reply, MayReply, State, TypeOK, MessageRow, Unfinished
    <2>3. PICK s \in Unfinished \cup {"ended"} : MayReply(n, m) /\ message' = Replied(n, m, s)
      BY <2>1, <2>2 DEF Reply
    <2>4. message' \in [Message -> MessageRow]
      BY <2>3, RepliedRows
    <2> QED BY <2>1, <2>4, TypeParts DEF Reply, TypeOK
  <1> QED BY <1>1, <1>2, <1>3, <1>4

LEMMA ChildType ==
  ASSUME TypeOK, NEW e \in Execution, NEW m \in Message, NEW kind \in Kind, NEW to \in Peer,
         SendChild(m, kind, e, to)
  PROVE  TypeOK'
  <1>1. To(e) \in Peer
    BY DEF SendChild, Leased, MaySend, TypeOK
  <1>2. message' \in [Message -> MessageRow]
    BY <1>1, SentType, KindAssumption DEF SendChild
  <1> QED BY <1>2 DEF SendChild, TypeOK, accounts, contributions

LEMMA PcKeeps ==
  ASSUME TypeOK, NEW e \in Execution,
         NEW pc \in {"none", "claimed", "working", "closing", "over"},
         run' = [run EXCEPT ![e].pc = pc]
  PROVE  run' \in [Execution -> Run]
  BY DEF TypeOK, Run

\* A call begins or ends, its usage recorded or not.
LEMMA CallsKeep ==
  ASSUME TypeOK, NEW e \in Execution, NEW n \in 0..MaxCalls,
         \/ run' = [run EXCEPT ![e].calls = n]
         \/ run' = [run EXCEPT ![e].calls = n, ![e].incomplete = TRUE]
         \/ run' = [run EXCEPT ![e].pc = "over", ![e].calls = n]
  PROVE  run' \in [Execution -> Run]
  BY DEF TypeOK, Run

LEMMA OneCall ==
  ASSUME TypeOK, NEW e \in Execution
  PROVE  /\ 0 \in 0..MaxCalls
         /\ run[e].calls > 0 => run[e].calls - 1 \in 0..MaxCalls
         /\ run[e].calls < MaxCalls => run[e].calls + 1 \in 0..MaxCalls
  BY BoundAssumption DEF TypeOK, Run

\* What a step does to the fields of an execution.
LEMMA Claimed ==
  ASSUME TypeOK, NEW m \in Message, Claim(m), NEW x \in Execution
  PROVE  run'[x].calls = run[x].calls
  <1> DEFINE e == <<m, message[m].attempts + 1>>
  <1>1. run' = [run EXCEPT ![e].pc = "claimed"]
    BY DEF Claim
  <1> HIDE DEF e
  <1> QED BY <1>1 DEF TypeOK, Run

LEMMA Moved ==
  ASSUME TypeOK, NEW e \in Execution, NEW pc, run' = [run EXCEPT ![e].pc = pc]
  PROVE  /\ run'[e].pc = pc /\ run'[e].calls = run[e].calls
         /\ run'[e].incomplete = run[e].incomplete
         /\ \A x \in Execution \ {e} : run'[x] = run[x]
  BY DEF TypeOK, Run

LEMMA CallsMoved ==
  ASSUME TypeOK, NEW e \in Execution, NEW n,
         \/ run' = [run EXCEPT ![e].calls = n]
         \/ run' = [run EXCEPT ![e].calls = n, ![e].incomplete = TRUE]
  PROVE  /\ run'[e].pc = run[e].pc /\ run'[e].calls = n
         /\ run'[e].incomplete = run[e].incomplete \/ run'[e].incomplete
         /\ \A x \in Execution \ {e} : run'[x] = run[x]
  BY DEF TypeOK, Run

LEMMA ExecutionsFinite == IsFiniteSet(Execution)
  <1>1. IsFiniteSet(Message) /\ IsFiniteSet(1..MaxAttempts)
    BY Names, BoundAssumption, FS_Interval
  <1> QED BY <1>1, FS_Product DEF Execution

LEMMA CallsFinite ==
  /\ IsFiniteSet(UnderWay) /\ Cardinality(UnderWay) \in Nat
  /\ IsFiniteSet(UnderWay') /\ Cardinality(UnderWay') \in Nat
  <1> DEFINE All == Execution \X (1..MaxCalls)
  <1>1. IsFiniteSet(All)
    <2>1. IsFiniteSet(1..MaxCalls)
      BY BoundAssumption, FS_Interval
    <2> QED BY <2>1, ExecutionsFinite, FS_Product
  <1>2. UnderWay \subseteq All /\ UnderWay' \subseteq All
    BY DEF UnderWay
  <1> HIDE DEF All
  <1> QED BY <1>1, <1>2, FS_Subset, FS_CardinalityType

LEMMA FaultKeeps == ASSUME TypeOK, UNCHANGED faults \/ Fault PROVE faults' \in Nat
  BY DEF TypeOK, Fault

LEMMA SampleFacts == ASSUME NEW s \in Sample PROVE s.n \in Nat /\ s.n <= MaxCost
  <1>1. CASE s \in [n : 1..MaxCost, complete : {TRUE}]
    <2>1. s.n \in 1..MaxCost
      BY <1>1
    <2> QED BY <2>1, Names
  <1>2. CASE s \in [n : 0..(MaxCost-1), complete : {FALSE}]
    <2>1. s.n \in 0..(MaxCost-1)
      BY <1>2
    <2> QED BY <2>1, Names
  <1> QED BY <1>1, <1>2 DEF Sample

LEMMA ExecutionSteps ==
  ASSUME TypeOK, NEW e \in Execution,
         \/ BeginTaskUsage(e) \/ CallAdmitted(e) \/ CallRefused(e) \/ RecordFails(e)
         \/ FinishTaskUsage(e) \/ Abandon(e) \/ Crash(e)
  PROVE  TypeOK'
  <1> USE DEF accounts, contributions, work
  <1>1. faults' \in Nat
    BY FaultKeeps DEF BeginTaskUsage, CallAdmitted, CallRefused, RecordFails,
       FinishTaskUsage, Abandon, Crash
  <1>2. run' \in [Execution -> Run]
    <2>1. CASE CallAdmitted(e)
      <3>1. run' = [run EXCEPT ![e].calls = run[e].calls + 1] /\ run[e].calls < MaxCalls
        BY <2>1 DEF CallAdmitted
      <3> QED BY <3>1, OneCall, CallsKeep
    <2>3. CASE RecordFails(e)
      <3>1. run' = [run EXCEPT ![e].calls = run[e].calls - 1, ![e].incomplete = TRUE]
        BY <2>3 DEF RecordFails, Incomplete
      <3> QED BY <2>3, <3>1, OneCall, CallsKeep DEF RecordFails, Calling
    <2>4. CASE Crash(e)
      BY <2>4, OneCall, CallsKeep DEF Crash
    <2>2. CASE CallRefused(e)
      BY <2>2 DEF CallRefused, TypeOK
    <2> QED BY <2>1, <2>2, <2>3, <2>4, PcKeeps DEF BeginTaskUsage, FinishTaskUsage, Abandon
  <1>3. journal' \in [Execution -> {"none", "open", "finished"}]
    BY DEF BeginTaskUsage, CallAdmitted, CallRefused, RecordFails, FinishTaskUsage, Abandon,
       Crash, TypeOK
  <1>4. usage' \in Usage
    BY DEF BeginTaskUsage, CallAdmitted, CallRefused, RecordFails, FinishTaskUsage, Abandon,
       Crash, TypeOK, Reviewed, NeedsReview, Exhausted, Usage
  <1>5. fresh' \subseteq Message /\ lost' \subseteq Execution
    BY DEF BeginTaskUsage, CallAdmitted, CallRefused, RecordFails, FinishTaskUsage, Abandon,
       Crash, TypeOK
  <1>6. UNCHANGED <<work, resolved, samples, doubts, contributions, seen>>
    BY DEF BeginTaskUsage, CallAdmitted, CallRefused, RecordFails, FinishTaskUsage, Abandon,
       Crash
  <1>7. abreast' \in Nat
    BY CallsFinite DEF BeginTaskUsage, CallAdmitted, CallRefused, RecordFails,
       FinishTaskUsage, Abandon, Crash, TypeOK
  <1> QED BY <1>1, <1>2, <1>3, <1>4, <1>5, <1>6, <1>7 DEF TypeOK

LEMMA RecordType ==
  ASSUME TypeOK, NEW e \in Execution, NEW s \in Sample, RecordTaskUsage(e, s)
  PROVE  TypeOK'
  <1>1. s.n \in Nat /\ MessageOf(e) \in Message
    BY SampleFacts, ExecutionFacts
  <1>2. Charged(s) \in Usage
    <2> DEFINE u == IF s.complete THEN usage.unknown ELSE usage.unknown + 1
    <2>1. usage.total + s.n \in Nat /\ u \in Nat
      BY <1>1 DEF Usage, TypeOK
    <2>2. Charged(s) = [usage EXCEPT !.total = usage.total + s.n, !.unknown = u]
      BY DEF Charged
    <2> HIDE DEF u
    <2> QED BY <2>1, <2>2 DEF Usage, TypeOK
  <1>3. usage' \in Usage
    BY <1>2 DEF RecordTaskUsage, Reviewed, NeedsReview, Exhausted, Usage
  <1>4. run' \in [Execution -> Run]
    <2>1. \/ run' = [run EXCEPT ![e].calls = run[e].calls - 1]
          \/ run' = [run EXCEPT ![e].calls = run[e].calls - 1, ![e].incomplete = TRUE]
      BY DEF RecordTaskUsage, Incomplete
    <2> QED BY <2>1, OneCall, CallsKeep DEF RecordTaskUsage, Calling
  <1>5. faults' \in Nat
    BY FaultKeeps DEF RecordTaskUsage
  <1>6. reported' \in [Message -> Nat] /\ samples' \in [Execution -> Nat]
    BY <1>1 DEF RecordTaskUsage, TypeOK
  <1>7. doubts' \subseteq Execution \X Nat
    BY DEF RecordTaskUsage, TypeOK
  <1> QED BY <1>3, <1>4, <1>5, <1>6, <1>7 DEF RecordTaskUsage, TypeOK, work

LEMMA SettleType ==
  ASSUME TypeOK, NEW e \in Execution, Settle(e)
  PROVE  TypeOK'
  <1>1. message' \in [Message -> MessageRow]
    <2>1. CASE \E s \in {"ended", "blocked"} :
                 message' = [message EXCEPT ![MessageOf(e)].state = s]
      <3>1. PICK s \in {"ended", "blocked"} :
                 message' = [message EXCEPT ![MessageOf(e)].state = s]
        BY <2>1
      <3>2. MessageOf(e) \in Message
        BY ExecutionFacts
      <3>3. message' = [message EXCEPT ![MessageOf(e)] = [message[MessageOf(e)] EXCEPT !.state = s]]
        BY <3>1, <3>2 DEF TypeOK
      <3> QED BY <3>2, <3>3, NewState DEF TypeOK
    <2>2. CASE UNCHANGED message
      BY <2>2 DEF TypeOK
    <2>3. CASE \E n \in Message : /\ MayReply(n, MessageOf(e))
                                 /\ message' = Replied(n, MessageOf(e), "ended")
      <3>1. PICK n \in Message : /\ MayReply(n, MessageOf(e))
                                 /\ message' = Replied(n, MessageOf(e), "ended")
        BY <2>3
      <3>2. MessageOf(e) \in Message /\ "ended" \in Unfinished \cup {"ended"}
        BY ExecutionFacts
      <3> QED BY <3>1, <3>2, RepliedRows
    <2> QED BY <2>1, <2>2, <2>3 DEF Settle
  <1>2. lease' \in [Peer -> Execution \cup {NoExecution}]
    BY DEF Settle, Released, TypeOK
  <1>3. run' \in [Execution -> Run]
    BY PcKeeps DEF Settle
  <1>4. faults' \in Nat
    BY FaultKeeps DEF Settle
  <1>5. fresh' \subseteq Message
    BY DEF Settle, TypeOK
  <1> QED BY <1>1, <1>2, <1>3, <1>4, <1>5 DEF Settle, TypeOK, accounts, contributions

LEMMA PeerSteps ==
  ASSUME TypeOK, NEW p \in Peer, DisablePeer(p) \/ LeaseExpires(p) \/ Recover(p)
  PROVE  TypeOK'
  <1> USE DEF accounts, contributions
  <1>1. CASE DisablePeer(p)
    BY <1>1, FaultKeeps DEF DisablePeer, TypeOK
  <1>2. CASE LeaseExpires(p)
    BY <1>2, FaultKeeps DEF LeaseExpires, TypeOK
  <1>3. CASE Recover(p)
    <2>1. message' \in [Message -> MessageRow]
      BY <1>3, NewState DEF Recover, TypeOK
    <2> QED BY <1>3, <2>1 DEF Recover, TypeOK
  <1> QED BY <1>1, <1>2, <1>3

LEMMA ReviewType ==
  ASSUME TypeOK, NEW m \in Message,
         ReadEvidence(m) \/ \E l \in Limits : ReviewRequest(m, l)
  PROVE  TypeOK'
  <1> USE DEF accounts, contributions, work
  <1>1. CASE ReadEvidence(m)
    <2>1. Pending \cap RunsOf(m) \subseteq Execution
      BY DEF Pending
    <2> QED BY <1>1, <2>1 DEF ReadEvidence, TypeOK
  <1>2. CASE \E l \in Limits : ReviewRequest(m, l)
    <2>1. PICK l \in Limits : ReviewRequest(m, l)
      BY <1>2
    <2>2. l \in Nat
      BY LimitAssumption
    <2>3. usage' \in Usage
      BY <2>1, <2>2 DEF ReviewRequest, TypeOK, Usage
    <2>4. message' = [message EXCEPT ![m] = [message[m] EXCEPT !.state = "accepted"]]
      BY <2>1 DEF ReviewRequest, TypeOK
    <2>5. message' \in [Message -> MessageRow]
      BY <2>4, NewState DEF TypeOK
    <2> QED BY <2>1, <2>3, <2>5 DEF ReviewRequest, TypeOK
  <1> QED BY <1>1, <1>2

\* What an attestation by the reviewer changes: totals grow, doubts go away.
LEMMA Attestation ==
  ASSUME TypeOK, Counted, NEW m \in Message, NEW sum \in replaced[m]..MaxAttested,
         ReconcileTaskUsage(m, reported[m] + sum)
  PROVE  /\ usage' \in Usage /\ usage'.total >= usage.total
         /\ usage'.total = usage.total + sum - replaced[m]
         /\ usage'.limit = usage.limit /\ usage'.owner = usage.owner
         /\ usage'.unknown = usage.unknown - Cardinality(DoubtsOf(m))
         /\ replaced' \in [Message -> Nat]
         /\ IsFiniteSet(doubts') /\ Cardinality(doubts') = usage'.unknown
  <1> DEFINE t == usage.total + Added(m, reported[m] + sum)
             u == usage.unknown - Cardinality(DoubtsOf(m))
             f == \/ Unconfirmed \ RunsOf(m) # {}
                  \/ usage.limit > 0 /\ u > 0
                  \/ Exhausted([usage EXCEPT !.total = t, !.unknown = u], usage.limit)
  <1>1. replaced[m] \in Nat /\ reported[m] \in Nat /\ MaxAttested \in Nat
    BY BoundAssumption DEF TypeOK
  <1>2. sum \in Nat /\ sum >= replaced[m]
    BY <1>1
  <1>3. Added(m, reported[m] + sum) = sum - replaced[m]
    BY <1>1, <1>2 DEF Added, Contribution
  <1>4. t \in Nat /\ t >= usage.total
    BY <1>1, <1>2, <1>3 DEF TypeOK, Usage
  <1>5. IsFiniteSet(DoubtsOf(m)) /\ doubts \cap DoubtsOf(m) = DoubtsOf(m)
        /\ IsFiniteSet(doubts)
    BY FS_Subset DEF DoubtsOf, Counted
  <1>6. /\ Cardinality(DoubtsOf(m)) \in Nat
        /\ IsFiniteSet(doubts \ DoubtsOf(m))
        /\ Cardinality(doubts \ DoubtsOf(m)) = u
        /\ u \in Nat
    <2>1. /\ IsFiniteSet(doubts \ DoubtsOf(m))
          /\ Cardinality(doubts \ DoubtsOf(m))
               = Cardinality(doubts) - Cardinality(doubts \cap DoubtsOf(m))
      BY <1>5, FS_Difference
    <2>2. Cardinality(DoubtsOf(m)) \in Nat
      BY <1>5, FS_CardinalityType
    <2>3. Cardinality(doubts \ DoubtsOf(m)) \in Nat
      BY <2>1, FS_CardinalityType
    <2> QED BY <1>5, <2>1, <2>2, <2>3 DEF Counted
  <1>7. doubts' = doubts \ DoubtsOf(m)
    BY DEF ReconcileTaskUsage
  <1>8. f \in BOOLEAN
    OBVIOUS
  <1>9. usage' = [usage EXCEPT !.total = t, !.unknown = u, !.flagged = f]
    BY DEF ReconcileTaskUsage, Exhausted, TypeOK, Usage
  <1>10. replaced' \in [Message -> Nat]
    BY <1>1, <1>2 DEF ReconcileTaskUsage, TypeOK
  <1> HIDE DEF t, u, f
  <1>11. /\ usage' \in Usage /\ usage'.total = t /\ usage'.unknown = u
         /\ usage'.limit = usage.limit /\ usage'.owner = usage.owner
    BY <1>4, <1>6, <1>8, <1>9 DEF TypeOK, Usage
  <1>12. t = usage.total + sum - replaced[m]
    BY <1>1, <1>2, <1>3 DEF t, TypeOK, Usage
  <1> QED BY <1>4, <1>6, <1>7, <1>10, <1>11, <1>12 DEF u

LEMMA ReconcileType ==
  ASSUME TypeOK, Counted, NEW m \in Message, NEW sum \in replaced[m]..MaxAttested,
         ReconcileTaskUsage(m, reported[m] + sum)
  PROVE  TypeOK'
  <1>1. usage' \in Usage /\ replaced' \in [Message -> Nat]
    BY Attestation
  <1>2. resolved' \subseteq Execution
    BY DEF ReconcileTaskUsage, RunsOf, TypeOK
  <1>3. doubts' \subseteq Execution \X Nat
    BY DEF ReconcileTaskUsage, TypeOK
  <1> QED BY <1>1, <1>2, <1>3 DEF ReconcileTaskUsage, TypeOK, work

LEMMA Typed == TypeOK /\ Counted /\ [Next]_vars => TypeOK'
  <1> SUFFICES ASSUME TypeOK, Counted, [Next]_vars PROVE TypeOK'
    OBVIOUS
  <1>1. CASE UNCHANGED vars
    BY <1>1 DEF vars, work, accounts, contributions, TypeOK
  <1>2. CASE \E e \in Execution : Executes(e)
    BY <1>2, ExecutionSteps, RecordType, SettleType, ChildType DEF Executes
  <1>3. CASE \E m \in Message : Reviews(m)
    BY <1>3, ReviewType, ReconcileType DEF Reviews
  <1>4. CASE \E m \in Message, kind \in Kind, from, to \in Peer : SendRoot(m, kind, from, to)
    BY <1>4, MessageSteps
  <1>5. CASE \E m \in Message : Claim(m) \/ End(m) \/ \E n \in Message : Reply(n, m)
    BY <1>5, MessageSteps
  <1>6. CASE \E p \in Peer : DisablePeer(p) \/ LeaseExpires(p) \/ Recover(p)
    BY <1>6, PeerSteps
  <1> QED BY <1>1, <1>2, <1>3, <1>4, <1>5, <1>6 DEF Next
-----------------------------------------------------------------------------
(* What a step may change *)

\* A step that writes only a new row.
Adds == \E n \in Message, kind \in Kind, from, to \in Peer :
  State(n, "none") /\ message' = [message EXCEPT ![n] = Sent(kind, from, to)]

\* A step that writes an answer and the state of the row it answers.
Answers == \E n, m \in Message : \E s \in Unfinished \cup {"ended"} :
  MayReply(n, m) /\ message' = Replied(n, m, s)

LEMMA MessagesKept ==
  ASSUME TypeOK, [Next]_vars, NEW m \in Message, ~ State(m, "none")
  PROVE  /\ ~ State(m, "none")'
         /\ message'[m].to = message[m].to /\ message'[m].attempts >= message[m].attempts
  <1> USE DEF State
  <1>0. message[m].attempts \in Nat /\ \A n \in Message : message[n].attempts \in Nat
    BY Names DEF TypeOK, MessageRow
  <1>1. CASE UNCHANGED message
    BY <1>0, <1>1
  <1>2. CASE Adds
    BY <1>0, <1>2 DEF Adds, TypeOK
  <1>9. CASE Answers
    <2>1. PICK n, x \in Message : \E s \in Unfinished \cup {"ended"} :
            MayReply(n, x) /\ message' = Replied(n, x, s)
      BY <1>9 DEF Answers
    <2>2. PICK s \in Unfinished \cup {"ended"} : MayReply(n, x) /\ message' = Replied(n, x, s)
      BY <2>1
    <2>3. n # m /\ message'[x] = [message[x] EXCEPT !.state = s]
          /\ (m # x => message'[m] = message[m])
      BY <2>2, RepliedRows
    <2>4. message[x] \in MessageRow /\ s # "none"
      BY DEF TypeOK, Unfinished
    <2> QED BY <1>0, <2>3, <2>4 DEF MessageRow
  <1>3. CASE \E n \in Message : Claim(n) \/ End(n) \/ \E l \in Limits : ReviewRequest(n, l)
    <2>1. PICK n \in Message : Claim(n) \/ End(n) \/ \E l \in Limits : ReviewRequest(n, l)
      BY <1>3
    <2>2. CASE n # m
      <3>1. CASE Claim(n)
        BY <2>2, <3>1, <1>0 DEF Claim, TypeOK
      <3>2. CASE ~ Claim(n)
        <4>1. PICK s \in {"ended", "accepted"} : message' = [message EXCEPT ![n].state = s]
          BY <2>1, <3>2 DEF End, ReviewRequest
        <4> QED BY <2>2, <4>1, <1>0 DEF TypeOK
      <3> QED BY <3>1, <3>2
    <2>3. CASE n = m /\ Claim(n)
      BY <2>3, <1>0 DEF Claim, TypeOK, MessageRow
    <2>4. CASE n = m /\ ~ Claim(n)
      <3>1. PICK s \in {"ended", "accepted"} : message' = [message EXCEPT ![m].state = s]
        BY <2>1, <2>4 DEF End, ReviewRequest
      <3> QED BY <3>1, <1>0 DEF TypeOK, MessageRow
    <2> QED BY <2>2, <2>3, <2>4
  <1>4. CASE \E e \in Execution : Settle(e)
    <2>1. PICK e \in Execution : Settle(e)
      BY <1>4
    <2>2. CASE UNCHANGED message
      BY <2>2, <1>1
    <2>3. CASE ~ UNCHANGED message
      <3>1. CASE \E s \in {"ended", "blocked"} :
                   message' = [message EXCEPT ![MessageOf(e)].state = s]
        BY <3>1, <1>0 DEF TypeOK, MessageRow
      <3>2. CASE Answers
        BY <3>2, <1>9
      <3> QED BY <2>1, <2>3, <3>1, <3>2, ExecutionFacts DEF Settle, Answers
    <2> QED BY <2>2, <2>3
  <1>5. CASE \E p \in Peer : Recover(p)
    BY <1>0, <1>5 DEF Recover, TypeOK, MessageRow
  <1>6. CASE \E e \in Execution : Executes(e)
    <2>1. \/ UNCHANGED message
          \/ Adds
          \/ \E e \in Execution : Settle(e)
      BY <1>6 DEF Executes, BeginTaskUsage, CallAdmitted, CallRefused,
         RecordFails, RecordTaskUsage, FinishTaskUsage, Abandon, Crash, SendChild, Leased,
         MaySend, Adds, work, TypeOK
    <2> QED BY <1>1, <1>2, <1>4, <2>1
  <1>7. CASE \E n \in Message : Reviews(n)
    BY <1>1, <1>3, <1>7 DEF Reviews, ReadEvidence, ReconcileTaskUsage, work
  <1>8. CASE \/ UNCHANGED vars
             \/ \E p \in Peer : DisablePeer(p) \/ LeaseExpires(p)
             \/ \E n \in Message, kind \in Kind, from, to \in Peer : SendRoot(n, kind, from, to)
    <2>1. CASE UNCHANGED vars \/ \E p \in Peer : DisablePeer(p) \/ LeaseExpires(p)
      BY <1>1, <2>1 DEF vars, work, DisablePeer, LeaseExpires
    <2>2. CASE \E n \in Message, kind \in Kind, from, to \in Peer : SendRoot(n, kind, from, to)
      <3>1. UNCHANGED message \/ Adds
        BY <2>2 DEF SendRoot, MaySend, Adds
      <3> QED BY <1>1, <1>2, <3>1
    <2> QED BY <1>8, <2>1, <2>2
  <1>10. CASE \E n, x \in Message : Reply(n, x)
    <2>1. PICK n, x \in Message : Reply(n, x)
      BY <1>10
    <2>2. message[x].state \in Unfinished \cup {"ended"}
      BY <2>1 DEF Reply, MayReply, TypeOK, MessageRow, Unfinished
    <2> QED BY <1>9, <2>1, <2>2 DEF Reply, Answers
  <1> QED BY <1>3, <1>5, <1>6, <1>7, <1>8, <1>10 DEF Next

\* The execution that a claim begins.
Begins(e) == /\ Claim(MessageOf(e)) /\ e[2] = message[MessageOf(e)].attempts + 1
             /\ e = <<MessageOf(e), message[MessageOf(e)].attempts + 1>>

\* An execution changes by its claim and its own steps, and its journal and
\* its usage with it.
LEMMA OwnSteps ==
  ASSUME TypeOK, [Next]_vars, NEW e \in Execution
  PROVE  \/ Begins(e) \/ Executes(e)
         \/ run'[e] = run[e] /\ journal'[e] = journal[e] /\ samples'[e] = samples[e]
            /\ (e \in lost' <=> e \in lost)
  <1> DEFINE Same == /\ run'[e] = run[e] /\ journal'[e] = journal[e]
                     /\ samples'[e] = samples[e] /\ (e \in lost' <=> e \in lost)
  <1>1. CASE UNCHANGED <<run, journal, samples, lost>>
    BY <1>1
  <1>2. CASE \E m \in Message : Claim(m)
    <2>1. PICK m \in Message : Claim(m)
      BY <1>2
    <2>2. CASE e = <<m, message[m].attempts + 1>>
      BY <2>1, <2>2 DEF Begins, MessageOf
    <2>3. CASE e # <<m, message[m].attempts + 1>>
      BY <2>1, <2>3 DEF Claim, accounts, TypeOK
    <2> QED BY <2>2, <2>3
  <1>3. CASE \E x \in Execution : Executes(x)
    <2>1. PICK x \in Execution : Executes(x)
      BY <1>3
    <2>2. CASE x = e
      BY <2>1, <2>2
    <2>3. CASE x # e
      BY <2>1, <2>3 DEF Executes, BeginTaskUsage, CallAdmitted, CallRefused, RecordFails,
         RecordTaskUsage, Incomplete, FinishTaskUsage, Abandon, Settle, Crash, SendChild,
         accounts, TypeOK
    <2> QED BY <2>2, <2>3
  <1>4. CASE \E m \in Message : Reviews(m)
    BY <1>1, <1>4 DEF Reviews, ReviewRequest, ReadEvidence, ReconcileTaskUsage, accounts
  <1>5. CASE \/ UNCHANGED vars
             \/ \E m \in Message : End(m) \/ \E n \in Message : Reply(n, m)
             \/ \E p \in Peer : DisablePeer(p) \/ LeaseExpires(p) \/ Recover(p)
             \/ \E m \in Message, kind \in Kind, from, to \in Peer : SendRoot(m, kind, from, to)
    BY <1>1, <1>5 DEF vars, End, Reply, DisablePeer, LeaseExpires, Recover, SendRoot, accounts
  <1> QED BY <1>2, <1>3, <1>4, <1>5 DEF Next

\* Every step of an execution is one of an execution that was claimed.
LEMMA StepsOfRuns ==
  ASSUME TypeOK, NEW e \in Execution, Executes(e)
  PROVE  Ran(e) /\ Ran(e)' /\ UNCHANGED resolved
  BY DEF Executes, BeginTaskUsage, CallAdmitted, CallRefused, RecordFails, RecordTaskUsage,
     Incomplete, FinishTaskUsage, Abandon, Alone, Calling, Settle, Crash, SendChild, Ran, accounts,
     TypeOK, Run

LEMMA RunsStay ==
  ASSUME TypeOK, [Next]_vars, NEW e \in Execution, Ran(e)
  PROVE  Ran(e)'
  <1>1. CASE Begins(e)
    BY <1>1, ExecutionFacts DEF Begins, Claim, Ran, TypeOK, Run
  <1> QED BY <1>1, OwnSteps, StepsOfRuns DEF Ran

\* A lease that an execution has lost never comes back to it.
LEMMA LeaseStaysLost ==
  ASSUME TypeOK, Begun, [Next]_vars, NEW e \in Execution, Ran(e), ~ Leased(e)
  PROVE  ~ Leased(e)'
  <1> DEFINE m == MessageOf(e)
             p == To(e)
  <1>1. m \in Message /\ ~ State(m, "none") /\ e[2] <= message[m].attempts
    BY ExecutionFacts DEF Begun
  <1>2. To(e)' = p
    BY <1>1, MessagesKept DEF To, MessageOf
  <1>3. enabled' \subseteq enabled
    BY ZenonT(60)
       DEF Next, vars, work, SendRoot, Reply, Claim, End, Reviews, ReviewRequest, ReadEvidence,
       ReconcileTaskUsage, Executes, BeginTaskUsage, CallAdmitted, CallRefused, RecordFails,
       RecordTaskUsage, FinishTaskUsage, Abandon, Settle, Crash, SendChild, DisablePeer,
       LeaseExpires, Recover
  <1>4. ASSUME p \in Peer, lease'[p] = e PROVE lease[p] = e
    <2>0. e # NoExecution
      BY Names
    <2>1. CASE UNCHANGED lease
      BY <2>1, <1>4
    <2>2. CASE \E n \in Message : Claim(n)
      <3>1. PICK n \in Message : Claim(n)
        BY <2>2
      <3>2. e # <<n, message[n].attempts + 1>>
        BY <1>1, <3>1, ExecutionFacts DEF MessageOf, TypeOK, MessageRow
      <3> QED BY <3>1, <3>2, <1>4 DEF Claim, TypeOK
    <2>3. CASE \E x \in Execution : Settle(x)
      BY <2>0, <2>3, <1>4 DEF Settle, Released, TypeOK
    <2>4. CASE \E q \in Peer : LeaseExpires(q)
      BY <2>0, <2>4, <1>4 DEF LeaseExpires, TypeOK
    <2>5. \/ UNCHANGED lease
          \/ \E n \in Message : Claim(n)
          \/ \E x \in Execution : Settle(x)
          \/ \E q \in Peer : LeaseExpires(q)
      BY ZenonT(60)
         DEF Next, vars, work, SendRoot, Reply, End, Reviews, ReviewRequest, ReadEvidence,
         ReconcileTaskUsage, Executes, BeginTaskUsage, CallAdmitted, CallRefused, RecordFails,
         RecordTaskUsage, FinishTaskUsage, Abandon, Crash, SendChild, DisablePeer, Recover
    <2> QED BY <2>1, <2>2, <2>3, <2>4, <2>5
  <1>5. Leased(e)' => p \in enabled /\ lease'[p] = e
    BY <1>2, <1>3 DEF Leased
  <1> QED BY <1>4, <1>5 DEF Leased, TypeOK
-----------------------------------------------------------------------------
(* The invariants *)

LEMMA StepBegun ==
  ASSUME TypeOK, TypeOK', Begun, [Next]_vars
  PROVE  Begun'
  <1> SUFFICES ASSUME NEW e \in Execution, Ran(e)'
               PROVE  ~ State(MessageOf(e), "none")' /\ e[2] <= message'[MessageOf(e)].attempts
    BY DEF Begun, MessageOf
  <1> DEFINE m == MessageOf(e)
  <1>0. m \in Message /\ e[2] \in 1..MaxAttempts
    BY ExecutionFacts
  <1>1. CASE Ran(e)
    <2>1. ~ State(m, "none") /\ e[2] <= message[m].attempts
      BY <1>1 DEF Begun
    <2> QED BY <1>0, <2>1, MessagesKept DEF TypeOK, MessageRow
  <1>2. CASE Begins(e)
    <2>1. Claim(m) /\ e[2] = message[m].attempts + 1
      BY <1>2 DEF Begins
    <2>2. message' = [message EXCEPT ![m].state = "started", ![m].attempts = @ + 1]
      BY <2>1 DEF Claim
    <2>3. message'[m].state = "started" /\ message'[m].attempts = message[m].attempts + 1
      BY <1>0, <2>2 DEF TypeOK, MessageRow
    <2> QED BY <2>1, <2>3, <1>0, Names DEF State, TypeOK, MessageRow
  <1> QED BY <1>1, <1>2, OwnSteps, StepsOfRuns DEF Ran

LEMMA StepJournaled ==
  ASSUME TypeOK, Begun, Journaled, [Next]_vars
  PROVE  Journaled'
  <1> SUFFICES ASSUME NEW e \in Execution
               PROVE  /\ journal'[e] # "none" => Ran(e)'
                      /\ run'[e].pc = "working" => journal'[e] = "open"
                      /\ run'[e].calls > 0 => run'[e].pc = "working"
    BY DEF Journaled
  <1>1. CASE Begins(e)
    <2>1. run'[e].pc = "claimed" /\ run'[e].calls = run[e].calls /\ UNCHANGED journal
      <3>1. Claim(MessageOf(e)) /\ e = <<MessageOf(e), message[MessageOf(e)].attempts + 1>>
        BY <1>1 DEF Begins
      <3>2. run' = [run EXCEPT ![e].pc = "claimed"] /\ UNCHANGED accounts
        BY <3>1 DEF Claim
      <3> QED BY <3>2, Moved DEF accounts
    <2>2. ~ Ran(e)
      BY <1>1, ExecutionFacts DEF Begins, Claim, Begun, TypeOK, MessageRow
    <2> QED BY <2>1, <2>2 DEF Ran, Journaled
  <1>2. CASE Executes(e)
    <2>1. Ran(e)'
      BY <1>2, StepsOfRuns
    <2>2. run'[e].pc = "working" => journal'[e] = "open"
      BY <1>2 DEF Executes, BeginTaskUsage, CallAdmitted, CallRefused, RecordFails,
         RecordTaskUsage, FinishTaskUsage, Abandon, Settle, Crash, SendChild, accounts,
         Incomplete, Journaled, TypeOK, Run
    <2>3. run'[e].calls > 0 => run'[e].pc = "working"
      BY <1>2 DEF Executes, BeginTaskUsage, CallAdmitted, CallRefused, RecordFails,
         RecordTaskUsage, FinishTaskUsage, Abandon, Alone, Calling, Settle, Crash, SendChild,
         Incomplete, Journaled, TypeOK, Run
    <2> QED BY <2>1, <2>2, <2>3
  <1>3. CASE run'[e] = run[e] /\ journal'[e] = journal[e]
    BY <1>3 DEF Journaled, Ran
  <1> QED BY <1>1, <1>2, <1>3, OwnSteps

LEMMA StepLostKept ==
  ASSUME TypeOK, Begun, Journaled, LostKept, [Next]_vars
  PROVE  LostKept'
  <1> SUFFICES ASSUME NEW e \in Execution, e \in lost'
               PROVE  journal'[e] = "open" /\ Ran(e)' /\ (run'[e].incomplete \/ run'[e].pc = "over")
    <2>1. lost' \subseteq Execution
      BY ZenonT(60)
         DEF Next, vars, work, SendRoot, Reply, Claim, End, Reviews, ReviewRequest, ReadEvidence,
         ReconcileTaskUsage, Executes, BeginTaskUsage, CallAdmitted, CallRefused, RecordFails,
         RecordTaskUsage, FinishTaskUsage, Abandon, Settle, Crash, SendChild, DisablePeer,
         LeaseExpires, Recover, TypeOK
    <2> QED BY <2>1 DEF LostKept
  <1>1. CASE Begins(e)
    <2>1. e \in lost /\ ~ Ran(e)
      BY <1>1, ExecutionFacts DEF Begins, Claim, Begun, TypeOK, MessageRow
    <2> QED BY <2>1 DEF LostKept
  <1>2. CASE Executes(e)
    <2>1. CASE e \in lost
      <3>1. journal[e] = "open" /\ Ran(e) /\ (run[e].incomplete \/ run[e].pc = "over")
        BY <2>1 DEF LostKept
      <3>2. CASE FinishTaskUsage(e)
        BY <3>1, <3>2 DEF FinishTaskUsage, Alone, Certifies
      <3>3. CASE ~ FinishTaskUsage(e)
        <4>1. journal' = [journal EXCEPT ![e] = "open"] \/ UNCHANGED journal
          BY <1>2, <3>3 DEF Executes, BeginTaskUsage, CallAdmitted, CallRefused,
             RecordFails, RecordTaskUsage, Abandon, Settle, Crash, SendChild, accounts
        <4>2. run'[e].incomplete \/ run'[e].pc = "over"
          <5>1. CASE RecordFails(e) \/ \E x \in Sample : RecordTaskUsage(e, x)
            <6>1. PICK n : \/ run' = [run EXCEPT ![e].calls = n]
                           \/ run' = [run EXCEPT ![e].calls = n, ![e].incomplete = TRUE]
              BY <5>1 DEF RecordFails, RecordTaskUsage, Incomplete
            <6> QED BY <3>1, <6>1, CallsMoved
          <5>2. CASE CallAdmitted(e)
            BY <3>1, <5>2, CallsMoved DEF CallAdmitted
          <5>3. CASE Crash(e)
            BY <5>3 DEF Crash, TypeOK, Run
          <5>4. CASE BeginTaskUsage(e) \/ Abandon(e) \/ Settle(e)
            <6>1. PICK pc : run' = [run EXCEPT ![e].pc = pc]
              BY <5>4 DEF BeginTaskUsage, Abandon, Settle
            <6>2. run[e].pc # "over"
              BY <5>4 DEF BeginTaskUsage, Abandon, Settle, Alone
            <6> QED BY <3>1, <6>1, <6>2, Moved
          <5>5. CASE UNCHANGED run
            BY <3>1, <5>5
          <5> QED BY <1>2, <3>3, <5>1, <5>2, <5>3, <5>4, <5>5
                  DEF Executes, CallRefused, SendChild
        <4> QED BY <1>2, <3>1, <4>1, <4>2, StepsOfRuns DEF TypeOK
      <3> QED BY <3>2, <3>3
    <2>2. CASE e \notin lost
      <3>1. RecordFails(e) \/ Crash(e)
        BY <1>2, <2>2 DEF Executes, BeginTaskUsage, CallAdmitted, CallRefused,
           RecordTaskUsage, FinishTaskUsage, Abandon, Settle, SendChild
      <3>2. journal'[e] = "open" /\ (run'[e].incomplete \/ run'[e].pc = "over")
        BY <2>2, <3>1 DEF RecordFails, Calling, Incomplete, Crash, accounts, Journaled, TypeOK, Run
      <3> QED BY <1>2, <3>2, StepsOfRuns
    <2> QED BY <2>1, <2>2
  <1>3. CASE run'[e] = run[e] /\ journal'[e] = journal[e] /\ e \in lost
    BY <1>3 DEF LostKept, Ran
  <1> QED BY <1>1, <1>2, <1>3, OwnSteps

\* Only an attestation resolves executions: open journals of its message.
LEMMA Resolves ==
  ASSUME TypeOK, [Next]_vars
  PROVE  \/ UNCHANGED resolved
         \/ \E m \in Message : \E sum \in replaced[m]..MaxAttested :
              ReconcileTaskUsage(m, reported[m] + sum)
  <1>1. CASE \E e \in Execution : Executes(e)
    BY <1>1, StepsOfRuns
  <1>2. CASE \E m \in Message : Reviews(m)
    BY <1>2 DEF Reviews, ReviewRequest, ReadEvidence, accounts
  <1> QED BY <1>1, <1>2 DEF Next, vars, accounts, SendRoot, Reply, Claim, End, DisablePeer,
          LeaseExpires, Recover

LEMMA ResolvedBy ==
  ASSUME TypeOK, NEW m \in Message, NEW amount, ReconcileTaskUsage(m, amount),
         NEW e \in resolved', e \notin resolved
  PROVE  /\ e \in Execution /\ MessageOf(e) = m /\ journal[e] = "open"
         /\ m \in fresh /\ lease[To(e)] = NoExecution
  BY DEF ReconcileTaskUsage, RunsOf, Current, Eligible, To, MessageOf

LEMMA StepResolvedFenced ==
  ASSUME TypeOK, Begun, Journaled, ResolvedFenced, [Next]_vars
  PROVE  ResolvedFenced'
  <1> SUFFICES ASSUME NEW e \in resolved' PROVE Ran(e)' /\ ~ Leased(e)'
    BY DEF ResolvedFenced
  <1>1. e \in Execution /\ Ran(e) /\ ~ Leased(e)
    <2>1. CASE e \in resolved
      BY <2>1 DEF ResolvedFenced, TypeOK
    <2>2. CASE e \notin resolved
      BY <2>2, Resolves, ResolvedBy, Names DEF Leased, Journaled
    <2> QED BY <2>1, <2>2
  <1> QED BY <1>1, RunsStay, LeaseStaysLost

\* Totals and doubts change by samples and attestations alone.
LEMMA Charges ==
  ASSUME TypeOK, [Next]_vars
  PROVE  \/ /\ usage'.total = usage.total /\ usage'.unknown = usage.unknown
            /\ UNCHANGED <<doubts, contributions>>
         \/ \E e \in Execution, s \in Sample : RecordTaskUsage(e, s)
         \/ \E m \in Message : \E sum \in replaced[m]..MaxAttested :
              ReconcileTaskUsage(m, reported[m] + sum)
  <1>1. CASE UNCHANGED <<usage, doubts, contributions>>
    BY <1>1
  <1>2. CASE \E m \in Message, kind \in Kind, from, to \in Peer : SendRoot(m, kind, from, to)
    BY <1>2 DEF SendRoot, TypeOK, Usage
  <1>3. CASE \E m \in Message : \E l \in Limits : ReviewRequest(m, l)
    BY <1>3 DEF ReviewRequest, TypeOK, Usage
  <1>4. CASE \E e \in Execution : CallRefused(e)
    BY <1>4 DEF CallRefused, Reviewed, TypeOK, Usage
  <1>5. CASE \E e \in Execution : Executes(e)
    <2>1. \/ UNCHANGED <<usage, doubts, contributions>>
          \/ \E e \in Execution : CallRefused(e)
          \/ \E e \in Execution, s \in Sample : RecordTaskUsage(e, s)
      BY <1>5 DEF Executes, BeginTaskUsage, CallAdmitted, RecordFails, FinishTaskUsage,
         Abandon, Settle, Crash, SendChild, accounts
    <2> QED BY <2>1, <1>1, <1>4
  <1>6. CASE \E m \in Message : Reviews(m)
    BY <1>1, <1>3, <1>6 DEF Reviews, ReadEvidence, accounts
  <1> QED BY <1>1, <1>2, <1>5, <1>6 DEF Next, vars, accounts, Reply, Claim, End, DisablePeer,
          LeaseExpires, Recover

LEMMA SampleCharged ==
  ASSUME TypeOK, NEW e \in Execution, NEW s \in Sample, RecordTaskUsage(e, s)
  PROVE  usage'.limit = usage.limit /\ usage'.total = usage.total + s.n
  <1>1. Charged(s).limit = usage.limit /\ Charged(s).total = usage.total + s.n
        /\ \A f \in BOOLEAN : [Charged(s) EXCEPT !.flagged = f].limit = usage.limit
                           /\ [Charged(s) EXCEPT !.flagged = f].total = usage.total + s.n
    BY DEF Charged, TypeOK, Usage
  <1>2. PICK f \in BOOLEAN : usage' = [Charged(s) EXCEPT !.flagged = f]
    BY DEF RecordTaskUsage, Reviewed
  <1> QED BY <1>1, <1>2

LEMMA StepTotalled ==
  ASSUME TypeOK, TypeOK', Counted, Totalled, [Next]_vars
  PROVE  Totalled'
  <1>0. /\ IsFiniteSet(Message)
        /\ reported \in [Message -> Nat] /\ reported' \in [Message -> Nat]
        /\ replaced \in [Message -> Nat] /\ replaced' \in [Message -> Nat]
        /\ usage.total \in Nat
    BY BoundAssumption DEF TypeOK, Usage
  <1>1. /\ SumFunction(reported) \in Nat /\ SumFunction(replaced) \in Nat
    BY <1>0, SumOfNaturals
  <1>2. CASE usage'.total = usage.total /\ UNCHANGED contributions
    BY <1>2 DEF Totalled, contributions
  <1>3. ASSUME NEW e \in Execution, NEW s \in Sample, RecordTaskUsage(e, s)
        PROVE  Totalled'
    <2> DEFINE m == MessageOf(e)
    <2>1. m \in Message /\ s.n \in Nat
      BY ExecutionFacts, SampleFacts
    <2>2. /\ reported'[m] = reported[m] + s.n /\ UNCHANGED replaced
          /\ \A n \in Message \ {m} : reported'[n] = reported[n]
      BY <1>0, <1>3, <2>1 DEF RecordTaskUsage
    <2> HIDE DEF m
    <2>3. SumFunction(reported') = SumFunction(reported) - reported[m] + reported'[m]
      BY <1>0, <2>1, <2>2, SumChanged
    <2>4. usage'.total = usage.total + s.n
      BY <1>3, SampleCharged
    <2>5. reported[m] \in Nat
      BY <1>0, <2>1
    <2> QED BY <1>1, <2>1, <2>2, <2>3, <2>4, <2>5 DEF Totalled
  <1>4. ASSUME NEW m \in Message, NEW sum \in replaced[m]..MaxAttested,
               ReconcileTaskUsage(m, reported[m] + sum)
        PROVE  Totalled'
    <2>1. reported[m] \in Nat /\ replaced[m] \in Nat /\ sum \in Nat
      BY <1>0, BoundAssumption
    <2> DEFINE amount == reported[m] + sum
    <2>2. UNCHANGED reported /\ replaced' = [replaced EXCEPT ![m] = amount - reported[m]]
      BY <1>4, Zenon DEF ReconcileTaskUsage
    <2>3. replaced'[m] = sum /\ \A n \in Message \ {m} : replaced'[n] = replaced[n]
      BY <1>0, <2>1, <2>2 DEF amount
    <2>4. SumFunction(replaced') = SumFunction(replaced) - replaced[m] + replaced'[m]
      BY <1>0, <2>3, SumChanged
    <2>5. usage'.total = usage.total + sum - replaced[m]
      BY <1>4, Attestation
    <2> QED BY <1>0, <1>1, <2>1, <2>2, <2>3, <2>4, <2>5 DEF Totalled
  <1> QED BY <1>2, <1>3, <1>4, Charges

LEMMA SamplesKept ==
  ASSUME TypeOK, [Next]_vars, NEW e \in Execution
  PROVE  samples'[e] >= samples[e]
  <1>0. samples[e] \in Nat
    BY DEF TypeOK
  <1>1. CASE Begins(e)
    BY <1>0, <1>1 DEF Begins, Claim, accounts
  <1>2. CASE Executes(e)
    BY <1>0, <1>2 DEF Executes, BeginTaskUsage, CallAdmitted, CallRefused, RecordFails,
       RecordTaskUsage, FinishTaskUsage, Abandon, Settle, Crash, SendChild, accounts, TypeOK
  <1> QED BY <1>0, <1>1, <1>2, OwnSteps

LEMMA StepCounted ==
  ASSUME TypeOK, Begun, Counted, [Next]_vars
  PROVE  Counted'
  <1>1. \A d \in doubts : d[1] \in Execution /\ d[2] \in Nat /\ d = <<d[1], d[2]>>
    BY DEF TypeOK
  <1>2. \A d \in doubts : Ran(d[1])' /\ d[2] < samples'[d[1]]
    <2> TAKE d \in doubts
    <2>1. d[1] \in Execution /\ d[2] \in Nat /\ Ran(d[1]) /\ d[2] < samples[d[1]]
      BY <1>1 DEF Counted
    <2>2. samples'[d[1]] >= samples[d[1]] /\ Ran(d[1])' /\ samples[d[1]] \in Nat
      BY <2>1, SamplesKept, RunsStay DEF TypeOK
    <2>3. samples'[d[1]] \in Nat
      BY <2>1, Typed DEF TypeOK
    <2> QED BY <2>1, <2>2, <2>3
  <1>3. CASE usage'.unknown = usage.unknown /\ UNCHANGED doubts
    BY <1>2, <1>3 DEF Counted, Ran
  <1>4. CASE \E e \in Execution, s \in Sample : RecordTaskUsage(e, s)
    <2>1. PICK e \in Execution, s \in Sample : RecordTaskUsage(e, s)
      BY <1>4
    <2> DEFINE d == <<e, samples[e]>>
    <2>2. samples[e] \in Nat /\ samples'[e] = samples[e] + 1 /\ Ran(e)'
      BY <2>1, StepsOfRuns DEF Executes, RecordTaskUsage, TypeOK
    <2>3. d \notin doubts
      BY <2>2 DEF Counted
    <2>4. usage'.unknown = IF s.complete THEN usage.unknown ELSE usage.unknown + 1
      <3> DEFINE u == IF s.complete THEN usage.unknown ELSE usage.unknown + 1
      <3>1. Charged(s) = [usage EXCEPT !.total = @ + s.n, !.unknown = u]
        BY DEF Charged
      <3> HIDE DEF u
      <3>2. Charged(s).unknown = u
        BY <3>1 DEF TypeOK, Usage
      <3>3. usage' = Reviewed(Charged(s))
        BY <2>1 DEF RecordTaskUsage
      <3>4. usage'.unknown = u
        BY <3>1, <3>2, <3>3 DEF Reviewed, TypeOK, Usage
      <3> QED BY <3>4 DEF u
    <2>5. CASE s.complete
      BY <1>2, <2>1, <2>4, <2>5 DEF RecordTaskUsage, Counted, Ran
    <2>6. CASE ~ s.complete
      <3>1. doubts' = doubts \cup {d} /\ usage'.unknown = usage.unknown + 1
        BY <2>1, <2>4, <2>6 DEF RecordTaskUsage
      <3>2. IsFiniteSet(doubts') /\ Cardinality(doubts') = Cardinality(doubts) + 1
        BY <2>3, <3>1, FS_AddElement DEF Counted
      <3>3. \A x \in doubts' : Ran(x[1])' /\ x[2] < samples'[x[1]]
        BY <1>2, <2>2, <3>1
      <3> QED BY <3>1, <3>2, <3>3 DEF Counted, Ran
    <2> QED BY <2>5, <2>6
  <1>5. CASE \E m \in Message : \E sum \in replaced[m]..MaxAttested :
               ReconcileTaskUsage(m, reported[m] + sum)
    <2>0. PICK m \in Message : \E sum \in replaced[m]..MaxAttested :
            ReconcileTaskUsage(m, reported[m] + sum)
      BY <1>5
    <2>1. PICK sum \in replaced[m]..MaxAttested : ReconcileTaskUsage(m, reported[m] + sum)
      BY <2>0
    <2>2. IsFiniteSet(doubts') /\ Cardinality(doubts') = usage'.unknown
      BY <2>1, Attestation
    <2>3. doubts' \subseteq doubts
      BY <2>1 DEF ReconcileTaskUsage
    <2> QED BY <1>2, <2>2, <2>3 DEF Counted, Ran
  <1> QED BY <1>3, <1>4, <1>5, Charges

LEMMA StepQuiet ==
  ASSUME TypeOK, Begun, Journaled, Counted, Quiet, [Next]_vars
  PROVE  Quiet'
  <1> SUFFICES ASSUME \A m \in Message : State(m, "none")' PROVE usage'.total = 0
    BY DEF Quiet
  <1>1. \A m \in Message : State(m, "none")
    BY MessagesKept
  <1>2. usage.total = 0 /\ \A e \in Execution : ~ Ran(e)
    BY <1>1, ExecutionFacts DEF Quiet, Begun
  <1>3. ASSUME NEW e \in Execution, NEW s \in Sample, RecordTaskUsage(e, s) PROVE FALSE
    BY <1>2, <1>3 DEF RecordTaskUsage, Calling, Ran
  <1>4. ASSUME NEW m \in Message, NEW amount, ReconcileTaskUsage(m, amount) PROVE FALSE
    BY <1>2, <1>4 DEF ReconcileTaskUsage, Eligible, Uncertain, DoubtsOf, Pending, Journaled,
       Counted, TypeOK
  <1> QED BY <1>2, <1>3, <1>4, Charges

LEMMA StepFreshSeen ==
  ASSUME TypeOK, FreshSeen, [Next]_vars
  PROVE  FreshSeen'
  <1> SUFFICES ASSUME NEW m \in fresh', NEW e \in Execution, MessageOf(e) = m,
                      journal'[e] = "open", e \notin resolved'
               PROVE  e \in seen'[m]
    BY DEF FreshSeen, Pending, RunsOf, MessageOf
  <1>1. resolved \subseteq resolved'
    BY Resolves DEF ReconcileTaskUsage
  <1>2. CASE \E n \in Message : ReadEvidence(n)
    <2>1. PICK n \in Message : ReadEvidence(n)
      BY <1>2
    <2>2. e \in Pending \cap RunsOf(m)
      BY <2>1 DEF ReadEvidence, Pending, RunsOf, MessageOf, accounts
    <2>3. CASE n = m
      BY <2>1, <2>2, <2>3 DEF ReadEvidence, TypeOK
    <2>4. CASE n # m
      BY <2>1, <2>2, <2>4 DEF ReadEvidence, FreshSeen, TypeOK
    <2> QED BY <2>3, <2>4
  <1>3. CASE ~ \E n \in Message : ReadEvidence(n)
    <2>1. fresh' \subseteq fresh /\ UNCHANGED seen
      BY <1>3, ZenonT(60)
         DEF Next, vars, work, accounts, SendRoot, Reply, Claim, End, Reviews, ReviewRequest,
         ReconcileTaskUsage, Executes, BeginTaskUsage, CallAdmitted, CallRefused, RecordFails,
         RecordTaskUsage, FinishTaskUsage, Abandon, Settle, Crash, SendChild, DisablePeer,
         LeaseExpires, Recover
    <2>2. journal[e] = "open"
      <3>1. CASE Begins(e)
        BY <3>1 DEF Begins, Claim, accounts
      <3>2. CASE Executes(e)
        BY <3>2 DEF Executes, BeginTaskUsage, CallAdmitted, CallRefused, RecordFails,
           RecordTaskUsage, FinishTaskUsage, Abandon, Settle, Crash, SendChild, accounts,
           TypeOK
      <3> QED BY <3>1, <3>2, OwnSteps
    <2> QED BY <1>1, <2>1, <2>2 DEF FreshSeen, Pending, RunsOf, MessageOf
  <1> QED BY <1>2, <1>3

LEMMA InitHolds == Init => IInv
  <1> SUFFICES ASSUME Init PROVE IInv
    OBVIOUS
  <1>1. TypeOK
    <2>1. Unsent \in MessageRow /\ NoRun \in Run
      BY Names, BoundAssumption DEF Unsent, MessageRow, NoRun, Run
    <2>2. usage \in Usage
      BY DEF Init, Usage
    <2> QED BY <2>1, <2>2 DEF Init, TypeOK
  <1>2. \A e \in Execution : run[e].pc = "none" /\ ~ run[e].calls > 0
    BY DEF Init, NoRun
  <1>3. Begun /\ Journaled /\ LostKept /\ ResolvedFenced /\ Quiet /\ FreshSeen
    BY <1>2 DEF Init, Begun, Ran, Journaled, LostKept, ResolvedFenced, Quiet, FreshSeen
  <1>4. Counted
    BY FS_EmptySet DEF Init, Counted
  <1>5. Totalled
    <2>1. /\ reported \in [Message -> Nat] /\ \A m \in Message : reported[m] = 0
          /\ replaced \in [Message -> Nat] /\ \A m \in Message : replaced[m] = 0
      BY DEF Init
    <2>2. SumFunction(reported) = 0 /\ SumFunction(replaced) = 0
      BY <2>1, SumOfNaturals, BoundAssumption
    <2> QED BY <2>2 DEF Init, Totalled
  <1> QED BY <1>1, <1>3, <1>4, <1>5 DEF IInv

LEMMA Preserved == IInv /\ [Next]_vars => IInv'
  <1> SUFFICES ASSUME IInv, [Next]_vars PROVE IInv'
    OBVIOUS
  <1>1. TypeOK'
    BY Typed DEF IInv
  <1> QED BY <1>1, StepBegun, StepJournaled, StepLostKept, StepResolvedFenced, StepCounted,
          StepTotalled, StepQuiet, StepFreshSeen DEF IInv

\* Rows, journals, leases and evidence fit together in every state.
THEOREM Inductive == Spec => []IInv
  BY InitHolds, Preserved, PTL DEF Spec

\* Every operation keeps the rows of the task and its executions well formed.
THEOREM TypesKept == Spec => []TypeOK
  <1>1. IInv => TypeOK
    BY DEF IInv
  <1> QED BY <1>1, Inductive, PTL

\* The task's row and the rows it sums agree through samples and attestations.
THEOREM Accounts == Spec => []Accounted
  <1>1. IInv => Accounted
    BY DEF IInv, Totalled, Counted, Accounted
  <1> QED BY <1>1, Inductive, PTL

\* "Never certify a journal after a rejected/timed-out usage write": usage that
\* was not recorded leaves an open journal behind.
THEOREM SpendLeavesTrace == Spec => []NoSilentSpend
  <1>1. IInv => NoSilentSpend
    BY DEF IInv, Journaled, LostKept, NoSilentSpend
  <1> QED BY <1>1, Inductive, PTL

\* A fingerprint that still holds names every execution that it resolves.
THEOREM EvidenceFirst == Spec => AttestedOnEvidence
  <1> DEFINE Attested == \A m \in Message : (resolved' \ resolved) \cap RunsOf(m) \subseteq seen[m]
  <1>1. IInv /\ [Next]_vars => Attested
    <2> SUFFICES ASSUME IInv, [Next]_vars, NEW m \in Message, NEW e \in resolved' \ resolved,
                        MessageOf(e) = m, e \in Execution
                 PROVE  e \in seen[m]
      BY DEF RunsOf
    <2>1. m \in fresh /\ e \in Pending \cap RunsOf(m)
      BY Resolves, ResolvedBy DEF IInv, Pending, RunsOf
    <2> QED BY <2>1 DEF IInv, FreshSeen
  <1> QED BY <1>1, Inductive, PTL DEF Spec, AttestedOnEvidence
-----------------------------------------------------------------------------
(* The budget of UsageBudget *)

\* Calls under way, as UsageBudget counts them.
Calls == [e \in Execution |-> run[e].calls]

LEMMA CallsType ==
  /\ Budget!Calling = {e \in Execution : run[e].calls > 0}
  /\ TypeOK => \A e \in Execution : Calls[e] = run[e].calls /\ Calls[e] \in 0..MaxCalls
  BY DEF Budget!Calling, Calls, TypeOK, Run

LEMMA FencedGrows ==
  ASSUME IInv, [Next]_vars
  PROVE  Fenced \subseteq Fenced' /\ Fenced' \subseteq Execution
  BY RunsStay, LeaseStaysLost DEF IInv, Fenced, Ran

\* Without a reason for review nothing is owed and the limit is not used up.
LEMMA NothingOwed ==
  ASSUME IInv, usage.limit > 0, ~ NeedsReview(usage)
  PROVE  usage.total < usage.limit /\ Budget!Owed = {} /\ Doubtful = {}
  <1>1. usage \in Usage
    BY DEF IInv, TypeOK
  <1>2. usage.total < usage.limit
    BY <1>1 DEF NeedsReview, Exhausted, Usage
  <1>3. Unconfirmed = {}
    BY DEF NeedsReview
  <1>4. Budget!Owed \subseteq Unconfirmed
    BY CallsType DEF Budget!Owed, Fenced, Unconfirmed, Pending, IInv, Journaled, LostKept
  <1>5. doubts = {}
    <2>1. usage.unknown = 0
      BY <1>1 DEF NeedsReview, Usage
    <2> QED BY <2>1, FS_EmptySet DEF IInv, Counted
  <1> QED BY <1>2, <1>3, <1>4, <1>5 DEF Doubtful

\* Steps that change no call, no sample, no limit and no resolution at most
\* fence executions.
LEMMA OnlyFences ==
  ASSUME IInv, [Next]_vars,
         usage'.limit = usage.limit, usage'.total = usage.total, Calls' = Calls,
         UNCHANGED <<doubts, lost, resolved>>
  PROVE  Budget!Fence
  BY FencedGrows DEF Budget!Fence, Doubtful, Calls

LEMMA CallRefines ==
  ASSUME IInv, [Next]_vars, NEW e \in Execution, CallAdmitted(e)
  PROVE  Budget!Admit(e)
  <1>1. e \notin Fenced
    BY DEF CallAdmitted, Checked, Fenced
  <1>2. Budget!Open
    BY NothingOwed DEF CallAdmitted, Budget!Open
  <1>3. Calls' = [Calls EXCEPT ![e] = @ + 1]
    BY DEF CallAdmitted, Calls, IInv, TypeOK, Run
  <1>4. Fenced' = Fenced
    BY DEF CallAdmitted, Fenced, Leased, To, work, IInv, TypeOK, Run
  <1> QED BY <1>1, <1>2, <1>3, <1>4 DEF CallAdmitted, Budget!Admit, Doubtful, Calls, accounts

LEMMA ReportRefines ==
  ASSUME IInv, [Next]_vars, NEW e \in Execution, NEW s \in Sample, RecordTaskUsage(e, s)
  PROVE  Budget!Report(e)
  <1>0. \/ run' = [run EXCEPT ![e].calls = run[e].calls - 1]
        \/ run' = [run EXCEPT ![e].calls = run[e].calls - 1, ![e].incomplete = TRUE]
    BY DEF RecordTaskUsage, Incomplete
  <1>1. e \in Budget!Calling \ Fenced
    BY CallsType DEF RecordTaskUsage, Calling, Fenced
  <1>2. Calls' = [Calls EXCEPT ![e] = @ - 1]
    <2>1. /\ run'[e].calls = run[e].calls - 1
          /\ \A x \in Execution \ {e} : run'[x] = run[x]
      BY <1>0, CallsMoved DEF IInv
    <2> QED BY <2>1 DEF Calls
  <1>3. Fenced' = Fenced
    <2>1. \A x \in Execution : run'[x].pc = run[x].pc
      BY <1>0, CallsMoved DEF IInv
    <2> QED BY <2>1 DEF RecordTaskUsage, Fenced, Leased, To, work
  <1>4. Doubtful' \in {Doubtful, Doubtful \cup {e}}
    BY DEF RecordTaskUsage, Doubtful
  <1>5. usage'.limit = usage.limit /\ usage'.total = usage.total + s.n
    BY SampleCharged DEF IInv
  <1>6. Budget!Grows
    BY <1>5, SampleFacts DEF Budget!Grows, IInv, TypeOK, Usage
  <1> QED BY <1>1, <1>2, <1>3, <1>4, <1>5, <1>6 DEF RecordTaskUsage, Budget!Report, Calls

LEMMA LoseRefines ==
  ASSUME IInv, [Next]_vars, NEW e \in Execution,
         RecordFails(e) \/ (Crash(e) /\ run[e].calls > 0)
  PROVE  Budget!Lose(e)
  <1>1. \E n \in 1..Calls[e] : Calls' = [Calls EXCEPT ![e] = @ - n]
    <2>1. Calls[e] = run[e].calls /\ run[e].calls \in Nat /\ run[e].calls > 0
      BY CallsType DEF RecordFails, Calling, IInv
    <2>2. CASE RecordFails(e)
      <3>1. Calls' = [Calls EXCEPT ![e] = @ - 1]
        BY <2>2 DEF RecordFails, Incomplete, Calls, IInv, TypeOK, Run
      <3> 1 \in 1..Calls[e]
        BY <2>1
      <3> WITNESS 1 \in 1..Calls[e]
      <3> QED BY <3>1
    <2>3. CASE Crash(e)
      <3>1. Calls' = [Calls EXCEPT ![e] = @ - Calls[e]]
        BY <2>1, <2>3 DEF Crash, Calls, IInv, TypeOK, Run
      <3> Calls[e] \in 1..Calls[e]
        BY <2>1
      <3> WITNESS Calls[e] \in 1..Calls[e]
      <3> QED BY <3>1
    <2> QED BY <2>2, <2>3
  <1>2. Fenced' = Fenced
    BY DEF RecordFails, Incomplete, Crash, Calling, Fenced, Leased, To, work, IInv, TypeOK, Run
  <1> QED BY <1>1, <1>2 DEF RecordFails, Crash, Budget!Lose, Doubtful, Calls, accounts

\* The first request of the task, or a refused one before it, sets the limit.
LEMMA RootRefines ==
  ASSUME IInv, [Next]_vars, NEW m \in Message, NEW kind \in Kind, NEW from \in Peer,
         NEW to \in Peer, SendRoot(m, kind, from, to)
  PROVE  Budget!SetLimit \/ Budget!Fence
  <1>0. PICK l \in Nat : /\ usage' = [usage EXCEPT !.owner = from, !.limit = l]
                         /\ (\A n \in Message : State(n, "none")) \/ l = usage.limit
    BY LimitAssumption DEF SendRoot, IInv, TypeOK, Usage
  <1>1. usage'.limit = l /\ usage'.total = usage.total
    BY <1>0 DEF IInv, TypeOK, Usage
  <1>2. UNCHANGED <<run, doubts, lost, resolved>> /\ Calls' = Calls
    BY DEF SendRoot, Calls
  <1>3. CASE \A n \in Message : State(n, "none")
    <2>1. \A e \in Execution : ~ Ran(e)
      BY <1>3, ExecutionFacts DEF IInv, Begun
    <2>2. Budget!Calling = {} /\ Fenced = {} /\ lost = {}
      BY <2>1, CallsType DEF Fenced, Ran, IInv, Journaled, LostKept, TypeOK
    <2>3. Fenced' = {}
      BY <1>2, <2>1 DEF Fenced, Ran
    <2>4. doubts = {}
      BY <2>1 DEF IInv, Counted, TypeOK
    <2>5. usage.total = 0
      BY <1>3 DEF IInv, Quiet
    <2> QED BY <1>1, <1>2, <2>2, <2>3, <2>4, <2>5
         DEF Budget!SetLimit, Budget!Owed, Doubtful, Calls
  <1>4. CASE l = usage.limit
    BY <1>1, <1>2, <1>4, OnlyFences
  <1> QED BY <1>0, <1>3, <1>4

LEMMA ReviewRefines ==
  ASSUME IInv, [Next]_vars, NEW m \in Message, NEW l \in Limits, ReviewRequest(m, l)
  PROVE  Budget!SetLimit
  <1>0. l \in Nat /\ Reviewable(l) /\ usage \in Usage
    BY LimitAssumption DEF ReviewRequest, IInv, TypeOK
  <1>1. usage'.limit = l /\ usage'.total = usage.total
    BY DEF ReviewRequest, IInv, TypeOK, Usage
  <1>2. Budget!Calling \cup lost \subseteq resolved
    BY <1>0, CallsType DEF Reviewable, Pending, IInv, Journaled, LostKept, TypeOK
  <1>3. Budget!Calling \subseteq Fenced /\ Budget!Owed = {}
    BY <1>2, CallsType DEF Fenced, Budget!Owed, IInv, ResolvedFenced, Ran
  <1>4. usage.limit > 0 \/ l > 0 => Doubtful = {}
    <2>1. usage.limit > 0 \/ l > 0 => usage.unknown = 0
      BY <1>0 DEF Reviewable
    <2> QED BY <2>1, FS_EmptySet DEF IInv, Counted, Doubtful
  <1>5. l > 0 => usage.total < l
    BY <1>0 DEF Reviewable, Exhausted, Usage
  <1>6. Fenced' = Fenced
    BY DEF ReviewRequest, Fenced, Leased, To, MessageOf, IInv, TypeOK, MessageRow
  <1>7. Calls' = Calls /\ UNCHANGED <<doubts, lost, resolved>>
    BY DEF ReviewRequest, Calls
  <1> QED BY <1>0, <1>1, <1>3, <1>4, <1>5, <1>6, <1>7
       DEF Budget!SetLimit, Doubtful, Calls

LEMMA AttestRefines ==
  ASSUME IInv, [Next]_vars, NEW m \in Message, NEW sum \in replaced[m]..MaxAttested,
         ReconcileTaskUsage(m, reported[m] + sum)
  PROVE  Budget!Attest
  <1>1. usage' \in Usage /\ usage'.total >= usage.total /\ usage'.limit = usage.limit
    BY Attestation DEF IInv
  <1>2. resolved \subseteq resolved' /\ resolved' \subseteq resolved \cup Fenced
    <2>1. ASSUME NEW e \in resolved', e \notin resolved PROVE e \in Fenced
      BY <2>1, ResolvedBy, Names DEF Fenced, Leased, IInv, Journaled, Ran
    <2> QED BY <2>1 DEF ReconcileTaskUsage
  <1>3. Doubtful' \subseteq Doubtful /\ Doubtful \subseteq Doubtful' \cup Fenced
    <2>1. ASSUME NEW d \in DoubtsOf(m) PROVE d[1] \in Fenced
      BY Names DEF DoubtsOf, ReconcileTaskUsage, Eligible, Fenced, Leased, To, MessageOf,
         IInv, Counted, Ran, TypeOK
    <2>2. doubts' = doubts \ DoubtsOf(m)
      BY DEF ReconcileTaskUsage
    <2> QED BY <2>1, <2>2 DEF Doubtful
  <1>4. Fenced' = Fenced /\ Calls' = Calls /\ UNCHANGED lost
    BY DEF ReconcileTaskUsage, Fenced, Leased, To, Calls, work
  <1>5. Budget!Grows
    BY <1>1 DEF Budget!Grows, Usage
  <1> QED BY <1>1, <1>2, <1>3, <1>4, <1>5 DEF Budget!Attest, Calls

LEMMA ExecutionRefines ==
  ASSUME IInv, [Next]_vars, NEW e \in Execution, Executes(e)
  PROVE  Budget!BudgetNext
  <1>1. CASE \/ CallAdmitted(e) \/ RecordFails(e) \/ (Crash(e) /\ run[e].calls > 0)
             \/ \E s \in Sample : RecordTaskUsage(e, s)
    BY <1>1, CallRefines, LoseRefines, ReportRefines DEF Budget!BudgetNext
  <1>2. CASE \/ BeginTaskUsage(e) \/ CallRefused(e) \/ FinishTaskUsage(e) \/ Abandon(e)
             \/ Settle(e) \/ (Crash(e) /\ ~ run[e].calls > 0)
             \/ \E m \in Message, kind \in Kind, to \in Peer : SendChild(m, kind, e, to)
    <2>1. UNCHANGED <<doubts, lost, resolved>>
      BY <1>2 DEF BeginTaskUsage, CallRefused, FinishTaskUsage, Abandon, Settle, Crash,
         SendChild, accounts
    <2>2. usage'.limit = usage.limit /\ usage'.total = usage.total
      BY <1>2 DEF BeginTaskUsage, CallRefused, Reviewed, FinishTaskUsage, Abandon, Settle,
         Crash, SendChild, accounts, IInv, TypeOK, Usage
    <2>3. Calls' = Calls
      BY <1>2 DEF BeginTaskUsage, CallRefused, FinishTaskUsage, Abandon, Settle, Crash,
         SendChild, Calls, IInv, TypeOK, Run
    <2> QED BY <2>1, <2>2, <2>3, OnlyFences DEF Budget!BudgetNext
  <1> QED BY <1>1, <1>2 DEF Executes

LEMMA StepsRefine == IInv /\ [Next]_vars => [Budget!BudgetNext]_(Budget!budget)
  <1> SUFFICES ASSUME IInv, [Next]_vars
               PROVE  Budget!BudgetNext \/ UNCHANGED Budget!budget
    OBVIOUS
  <1>1. CASE UNCHANGED vars
    <2>1. Fenced' = Fenced /\ Calls' = Calls /\ Doubtful' = Doubtful
      BY <1>1 DEF vars, work, accounts, Fenced, Leased, To, Calls, Doubtful
    <2> QED BY <1>1, <2>1 DEF vars, accounts, Budget!budget, Calls
  <1>2. CASE \E m \in Message : Reviews(m)
    <2>1. PICK m \in Message : Reviews(m)
      BY <1>2
    <2>2. CASE ReadEvidence(m)
      <3>1. /\ usage'.limit = usage.limit /\ usage'.total = usage.total
            /\ Calls' = Calls /\ UNCHANGED <<doubts, lost, resolved>>
        BY <2>2 DEF ReadEvidence, accounts, Calls
      <3> QED BY <3>1, OnlyFences DEF Budget!BudgetNext
    <2> QED BY <2>1, <2>2, ReviewRefines, AttestRefines DEF Reviews, Budget!BudgetNext
  <1>3. CASE \/ \E m \in Message : Claim(m) \/ End(m) \/ \E n \in Message : Reply(n, m)
             \/ \E p \in Peer : DisablePeer(p) \/ LeaseExpires(p) \/ Recover(p)
    <2>1. /\ usage'.limit = usage.limit /\ usage'.total = usage.total
          /\ UNCHANGED <<doubts, lost, resolved>>
      BY <1>3 DEF Claim, End, Reply, DisablePeer, LeaseExpires, Recover, accounts
    <2>2. Calls' = Calls
      <3>1. CASE UNCHANGED run
        BY <3>1 DEF Calls
      <3>2. CASE \E m \in Message : Claim(m)
        <4>1. PICK m \in Message : Claim(m)
          BY <3>2
        <4> QED BY <4>1, Claimed DEF Calls, IInv
      <3> QED BY <1>3, <3>1, <3>2 DEF End, Reply, DisablePeer, LeaseExpires, Recover
    <2> QED BY <2>1, <2>2, OnlyFences DEF Budget!BudgetNext
  <1>4. CASE \E m \in Message, kind \in Kind, from, to \in Peer : SendRoot(m, kind, from, to)
    BY <1>4, RootRefines DEF Budget!BudgetNext
  <1>5. CASE \E e \in Execution : Executes(e)
    BY <1>5, ExecutionRefines
  <1> QED BY <1>1, <1>2, <1>3, <1>4, <1>5 DEF Next

\* CoordUsage implements UsageBudget: no call is admitted when the limit is
\* used up or anything is owed, and only a review with nothing owed lifts that.
THEOREM KeepsTheBudget == Spec => ImplementsBudget
  <1>1. Init => Budget!Init
    BY DEF Init, NoRun, Budget!Init, Doubtful, Fenced
  <1> QED BY <1>1, Inductive, StepsRefine, PTL
          DEF Spec, ImplementsBudget, Budget!BudgetSpec
-----------------------------------------------------------------------------
(* The overrun *)

\* Only an admission adds calls, and only it counts them.
LEMMA CallsAdmitted ==
  ASSUME IInv, [Next]_vars
  PROVE  \/ \E e \in Execution : CallAdmitted(e)
         \/ UNCHANGED abreast /\ \A e \in Execution : run'[e].calls <= run[e].calls
  <1>1. CASE \E e \in Execution : Executes(e) /\ ~ CallAdmitted(e)
    <2>1. PICK e \in Execution : Executes(e) /\ ~ CallAdmitted(e)
      BY <1>1
    <2>2. UNCHANGED abreast
      BY <2>1 DEF Executes, BeginTaskUsage, CallRefused, RecordFails, RecordTaskUsage,
         FinishTaskUsage, Abandon, Settle, Crash, SendChild
    <2>3. \A x \in Execution : run[x].calls \in Nat
      BY DEF IInv, TypeOK, Run
    <2>4. CASE \E s \in Sample : RecordTaskUsage(e, s)
      <3>1. \/ run' = [run EXCEPT ![e].calls = run[e].calls - 1]
            \/ run' = [run EXCEPT ![e].calls = run[e].calls - 1, ![e].incomplete = TRUE]
        BY <2>4 DEF RecordTaskUsage, Incomplete
      <3>2. /\ run'[e].calls = run[e].calls - 1
            /\ \A x \in Execution \ {e} : run'[x] = run[x]
        BY <3>1, CallsMoved DEF IInv
      <3> QED BY <2>2, <2>3, <3>2
    <2>5. CASE \/ BeginTaskUsage(e) \/ CallRefused(e) \/ FinishTaskUsage(e) \/ Abandon(e)
               \/ Settle(e)
               \/ \E m \in Message, kind \in Kind, to \in Peer : SendChild(m, kind, e, to)
      <3>1. UNCHANGED run \/ \E pc \in {"working", "closing", "over"} :
                                run' = [run EXCEPT ![e].pc = pc]
        BY <2>5 DEF BeginTaskUsage, CallRefused, FinishTaskUsage, Abandon, Settle, SendChild
      <3> QED BY <2>2, <2>3, <3>1, Moved DEF IInv
    <2>6. CASE Crash(e)
      <3>1. run'[e].calls = 0 /\ \A x \in Execution \ {e} : run'[x] = run[x]
        BY <2>6 DEF Crash, IInv, TypeOK, Run
      <3> QED BY <2>2, <2>3, <3>1
    <2>7. CASE RecordFails(e)
      <3>1. run' = [run EXCEPT ![e].calls = run[e].calls - 1, ![e].incomplete = TRUE]
        BY <2>7 DEF RecordFails, Incomplete
      <3>2. /\ run'[e].calls = run[e].calls - 1
            /\ \A x \in Execution \ {e} : run'[x] = run[x]
        BY <3>1, CallsMoved DEF IInv
      <3> QED BY <2>2, <2>3, <3>2
    <2> QED BY <2>1, <2>4, <2>5, <2>6, <2>7 DEF Executes
  <1>2. CASE UNCHANGED abreast /\ Calls' = Calls
    BY <1>2, CallsType DEF Calls, IInv
  <1>3. CASE \E m \in Message : Claim(m)
    <2>1. Calls' = Calls
      BY <1>3, Claimed DEF Calls, IInv
    <2> QED BY <1>2, <1>3, <2>1 DEF Claim
  <1>4. CASE \/ UNCHANGED vars
             \/ \E m \in Message : End(m) \/ Reviews(m) \/ \E n \in Message : Reply(n, m)
             \/ \E p \in Peer : DisablePeer(p) \/ LeaseExpires(p) \/ Recover(p)
             \/ \E m \in Message, kind \in Kind, from, to \in Peer : SendRoot(m, kind, from, to)
    BY <1>2, <1>4 DEF vars, End, Reviews, ReviewRequest, ReadEvidence, ReconcileTaskUsage,
       Reply, DisablePeer, LeaseExpires, Recover, SendRoot, Calls
  <1> QED BY <1>1, <1>3, <1>4 DEF Next

\* Unless one is admitted, calls that can report only become fewer.
LEMMA FewerUnderWay ==
  ASSUME IInv, [Next]_vars, \A e \in Execution : run'[e].calls <= run[e].calls
  PROVE  UnderWay' \subseteq UnderWay
  <1> SUFFICES ASSUME NEW e \in Execution, NEW k \in 1..MaxCalls, k <= run'[e].calls, Leased(e)'
               PROVE  k <= run[e].calls /\ Leased(e)
    BY DEF UnderWay
  <1>1. run[e].calls \in Nat /\ run'[e].calls \in Nat
    BY Preserved DEF IInv, TypeOK, Run
  <1>2. k <= run[e].calls /\ Ran(e)
    BY <1>1, BoundAssumption DEF IInv, Journaled, Ran
  <1> QED BY <1>2, LeaseStaysLost DEF IInv

\* A call that reports was under way and is so no more.
LEMMA ReportEnds ==
  ASSUME IInv, [Next]_vars, NEW e \in Execution, NEW s \in Sample, RecordTaskUsage(e, s)
  PROVE  <<e, run[e].calls>> \in UnderWay /\ UnderWay' = UnderWay \ {<<e, run[e].calls>>}
  <1>1. run[e].calls \in 1..MaxCalls /\ Leased(e)
    BY DEF RecordTaskUsage, Calling, IInv, TypeOK, Run
  <1>2. \A x \in Execution : Leased(x)' <=> Leased(x)
    BY DEF RecordTaskUsage, Leased, To, work
  <1>3. /\ run'[e].calls = run[e].calls - 1
        /\ \A x \in Execution \ {e} : run'[x].calls = run[x].calls
    BY DEF RecordTaskUsage, Incomplete, IInv, TypeOK, Run
  <1>4. <<e, run[e].calls>> \in UnderWay
    BY <1>1 DEF UnderWay
  <1>5. ASSUME NEW x \in Execution, NEW k \in 1..MaxCalls
        PROVE  <<x, k>> \in UnderWay' <=> <<x, k>> \in UnderWay /\ <<x, k>> # <<e, run[e].calls>>
    <2>1. k <= run'[x].calls <=> k <= run[x].calls /\ <<x, k>> # <<e, run[e].calls>>
      BY <1>1, <1>3, BoundAssumption
    <2> QED BY <1>2, <2>1 DEF UnderWay
  <1>6. UnderWay \subseteq Execution \X (1..MaxCalls) /\ UnderWay' \subseteq Execution \X (1..MaxCalls)
    BY DEF UnderWay
  <1> QED BY <1>4, <1>5, <1>6

LEMMA Multiples ==
  ASSUME NEW a \in Nat, NEW b \in Nat, a <= b
  PROVE  /\ MaxCost * a \in Nat /\ MaxCost * b \in Nat /\ MaxCost * a <= MaxCost * b
         /\ MaxCost * (a + 1) = MaxCost * a + MaxCost
  BY Names

\* Steps that admit no call and report nothing leave the overrun as it was.
LEMMA NoFurther ==
  ASSUME IInv, [Next]_vars, OverrunBounded,
         usage'.limit = usage.limit, UNCHANGED <<reported, abreast>>,
         UnderWay' \subseteq UnderWay
  PROVE  OverrunBounded'
  <1> DEFINE c == Cardinality(UnderWay)
             k == Cardinality(UnderWay')
             r == SumFunction(reported)
  <1>1. c \in Nat /\ k \in Nat /\ k <= c
    BY CallsFinite, FS_Subset
  <1>2. r \in Nat /\ usage.limit \in Nat /\ abreast \in Nat
    BY SumOfNaturals, BoundAssumption DEF IInv, TypeOK, Usage
  <1>3. MaxCost * k <= MaxCost * c /\ {MaxCost * k, MaxCost * c, MaxCost * abreast} \subseteq Nat
    BY <1>1, <1>2, Multiples
  <1>4. usage.limit > 0 => r + MaxCost * c < usage.limit + MaxCost * abreast
    BY DEF OverrunBounded
  <1> HIDE DEF c, k, r
  <1>5. usage.limit > 0 => r + MaxCost * k < usage.limit + MaxCost * abreast
    BY <1>2, <1>3, <1>4
  <1> QED BY <1>5 DEF OverrunBounded, k, r

\* Below a limit, the calls under way are those that were counted, or none.
LEMMA BelowLimit ==
  ASSUME IInv, IInv', UNCHANGED reported, usage'.limit > 0 => usage.total < usage'.limit,
         Cardinality(UnderWay') <= abreast'
  PROVE  OverrunBounded'
  <1> DEFINE k == Cardinality(UnderWay')
             r == SumFunction(reported)
  <1>1. /\ r \in Nat /\ SumFunction(replaced) \in Nat /\ usage \in Usage /\ usage' \in Usage
        /\ usage.total = r + SumFunction(replaced)
    BY SumOfNaturals, BoundAssumption DEF IInv, TypeOK, Totalled
  <1>2. k \in Nat /\ abreast' \in Nat
    BY CallsFinite DEF IInv, TypeOK
  <1>3. MaxCost * k <= MaxCost * abreast' /\ {MaxCost * k, MaxCost * abreast'} \subseteq Nat
    BY <1>2, Multiples
  <1> HIDE DEF k, r
  <1>4. usage'.limit > 0 => r + MaxCost * k < usage'.limit + MaxCost * abreast'
    BY <1>1, <1>3 DEF Usage
  <1> QED BY <1>4 DEF OverrunBounded, k, r

LEMMA ReportsWithin ==
  ASSUME IInv, IInv', [Next]_vars, OverrunBounded, NEW e \in Execution, NEW s \in Sample,
         RecordTaskUsage(e, s)
  PROVE  OverrunBounded'
  <1> DEFINE m == MessageOf(e)
             c == Cardinality(UnderWay)
             r == SumFunction(reported)
  <1>1. usage'.limit = usage.limit /\ UNCHANGED abreast
    BY SampleCharged DEF RecordTaskUsage, IInv
  <1>2. c - 1 \in Nat /\ c \in Nat /\ Cardinality(UnderWay') = c - 1
    <2>1. <<e, run[e].calls>> \in UnderWay /\ UnderWay' = UnderWay \ {<<e, run[e].calls>>}
      BY ReportEnds
    <2>2. Cardinality(UnderWay') = Cardinality(UnderWay) - 1
      BY <2>1, CallsFinite, FS_RemoveElement
    <2> QED BY <2>2, CallsFinite
  <1>3. SumFunction(reported') = r + s.n /\ s.n \in Nat /\ s.n <= MaxCost /\ r \in Nat
    <2>1. /\ m \in Message /\ s.n \in Nat /\ s.n <= MaxCost
          /\ reported \in [Message -> Nat] /\ reported' \in [Message -> Nat]
      BY ExecutionFacts, SampleFacts DEF IInv, TypeOK
    <2>2. /\ reported'[m] = reported[m] + s.n
          /\ \A n \in Message \ {m} : reported'[n] = reported[n]
      BY <2>1 DEF RecordTaskUsage
    <2> HIDE DEF m
    <2>3. SumFunction(reported') = SumFunction(reported) - reported[m] + reported'[m]
      BY <2>1, <2>2, SumChanged, BoundAssumption
    <2>4. reported[m] \in Nat /\ r \in Nat
      BY <2>1, SumOfNaturals, BoundAssumption
    <2> QED BY <2>1, <2>2, <2>3, <2>4
  <1>4. usage.limit \in Nat /\ abreast \in Nat
    BY DEF IInv, TypeOK, Usage
  <1>5. /\ MaxCost * c = MaxCost * (c - 1) + MaxCost
        /\ {MaxCost * (c - 1), MaxCost * c, MaxCost * abreast} \subseteq Nat
    <2>1. (c - 1) + 1 = c /\ c - 1 <= c
      BY <1>2
    <2> QED BY <1>2, <1>4, <2>1, Multiples
  <1>6. usage.limit > 0 => r + MaxCost * c < usage.limit + MaxCost * abreast
    BY DEF OverrunBounded
  <1> HIDE DEF c, r
  <1>7. usage.limit > 0 => r + s.n + MaxCost * (c - 1) < usage.limit + MaxCost * abreast
    BY <1>3, <1>4, <1>5, <1>6, Names
  <1> QED BY <1>1, <1>2, <1>3, <1>7 DEF OverrunBounded

\* The limit is set when no call is under way that could still report.
LEMMA LimitSetIdle ==
  ASSUME IInv, IInv', [Next]_vars, Budget!SetLimit
  PROVE  Cardinality(UnderWay') = 0
  <1>1. \A e \in Execution : Leased(e)' => run'[e].calls \in Nat /\ ~ run'[e].calls > 0
    <2> SUFFICES ASSUME NEW e \in Execution, Leased(e)', run'[e].calls > 0 PROVE FALSE
      BY CallsType DEF IInv, TypeOK, Run
    <2>1. Calls' = Calls /\ Fenced' = Fenced /\ Budget!Calling \subseteq Fenced
      BY DEF Budget!SetLimit, Calls
    <2>2. e \in Budget!Calling
      BY <2>1, CallsType DEF Calls
    <2> QED BY <2>1, <2>2 DEF Fenced
  <1>2. UnderWay' = {}
    BY <1>1, BoundAssumption DEF UnderWay
  <1> QED BY <1>2, FS_EmptySet

LEMMA StepOverrun ==
  ASSUME IInv, IInv', [Next]_vars, OverrunBounded
  PROVE  OverrunBounded'
  <1>1. CASE \E e \in Execution, s \in Sample : RecordTaskUsage(e, s)
    BY <1>1, ReportsWithin
  <1>2. CASE UNCHANGED reported
    <2>1. CASE \E e \in Execution : CallAdmitted(e)
      <3>1. usage' = usage /\ (usage.limit > 0 => usage.total < usage.limit)
        BY <2>1, NothingOwed DEF CallAdmitted, accounts
      <3>2. abreast' = Cardinality(UnderWay')
        BY <2>1 DEF CallAdmitted
      <3>3. abreast' \in Nat
        BY DEF IInv, TypeOK
      <3> QED BY <1>2, <3>1, <3>2, <3>3, BelowLimit
    <2>2. CASE ~ \E e \in Execution : CallAdmitted(e)
      <3>1. UNCHANGED abreast /\ UnderWay' \subseteq UnderWay
        BY <2>2, CallsAdmitted, FewerUnderWay
      <3>2. CASE usage'.limit = usage.limit
        BY <1>2, <3>1, <3>2, NoFurther
      <3>3. CASE Budget!SetLimit
        <4>1. usage'.limit > 0 => usage.total < usage'.limit
          BY <3>3 DEF Budget!SetLimit
        <4>2. Cardinality(UnderWay') <= abreast'
          BY <3>3, LimitSetIdle DEF IInv, TypeOK
        <4> QED BY <1>2, <4>1, <4>2, BelowLimit
      <3>4. usage'.limit = usage.limit \/ Budget!SetLimit
        BY StepsRefine DEF Budget!BudgetNext, Budget!Fence, Budget!Attest, Budget!Admit,
           Budget!Report, Budget!Lose, Budget!budget
      <3> QED BY <3>2, <3>3, <3>4
    <2> QED BY <2>1, <2>2
  <1>3. UNCHANGED reported \/ \E e \in Execution, s \in Sample : RecordTaskUsage(e, s)
    BY Charges DEF IInv, contributions, ReconcileTaskUsage
  <1> QED BY <1>1, <1>2, <1>3

\* What was reported passes a limit by less than what the calls under way at
\* the last admission may cost, less those of them that can still report.
THEOREM OverrunIsBounded == Spec => []OverrunBounded
  <1>1. Init => OverrunBounded
    BY DEF Init, OverrunBounded
  <1>2. IInv /\ IInv' /\ [Next]_vars /\ OverrunBounded => OverrunBounded'
    BY StepOverrun
  <1> QED BY <1>1, <1>2, Inductive, PTL DEF Spec
=============================================================================
