------------------------------ MODULE UsageBudget ------------------------------
(***************************************************************************)
(* What a task's budget promises its owner.  Executions of several peers   *)
(* make model calls against one limit, each several at a time; limit 0 is  *)
(* no limit.  A call is admitted only while the limit is not used up and   *)
(* nothing is owed: no execution that can no longer report has made a call *)
(* whose usage nobody knows, and no reported usage is in doubt.  What is   *)
(* charged never shrinks, and the limit changes only when nothing is owed  *)
(* or running.                                                             *)
(***************************************************************************)
EXTENDS Integers

CONSTANT Execution

VARIABLES
  limit, charged,
  calling,   \* calls under way of each execution
  lost,      \* executions that have made a call whose usage was not recorded
  doubtful,  \* executions with recorded usage that is incomplete
  fenced,    \* executions that can no longer report
  attested   \* executions whose lost usage a reviewer has replaced

budget == <<limit, charged, calling, lost, doubtful, fenced, attested>>

Calling == {e \in Execution : calling[e] > 0}
Owed == ((Calling \cup lost) \cap fenced) \ attested
Open == limit > 0 => charged < limit /\ Owed = {} /\ doubtful = {}

Init == /\ limit = 0 /\ charged = 0
        /\ calling = [e \in Execution |-> 0] /\ lost = {} /\ doubtful = {} /\ fenced = {} /\ attested = {}

Grows == charged' \in Nat /\ charged' >= charged

Admit(e) == /\ e \notin fenced /\ Open
            /\ calling' = [calling EXCEPT ![e] = @ + 1]
            /\ UNCHANGED <<limit, charged, lost, doubtful, fenced, attested>>

Report(e) == /\ e \in Calling \ fenced
             /\ calling' = [calling EXCEPT ![e] = @ - 1]
             /\ doubtful' \in {doubtful, doubtful \cup {e}}
             /\ Grows
             /\ UNCHANGED <<limit, lost, fenced, attested>>

\* One call, or all of a process that crashed.
Lose(e) == /\ \E n \in 1..calling[e] : calling' = [calling EXCEPT ![e] = @ - n]
           /\ lost' = lost \cup {e}
           /\ UNCHANGED <<limit, charged, doubtful, fenced, attested>>

Fence == /\ fenced \subseteq fenced' /\ fenced' \subseteq Execution
         /\ UNCHANGED <<limit, charged, calling, lost, doubtful, attested>>

\* A reviewer replaces the usage of executions that cannot report any more.
Attest == /\ attested \subseteq attested' /\ attested' \subseteq attested \cup fenced
          /\ doubtful' \subseteq doubtful /\ doubtful \subseteq doubtful' \cup fenced
          /\ Grows
          /\ UNCHANGED <<limit, calling, lost, fenced>>

SetLimit == /\ Calling \subseteq fenced /\ Owed = {}
            /\ limit' \in Nat
            /\ limit > 0 \/ limit' > 0 => doubtful = {}
            /\ limit' > 0 => charged < limit'
            /\ UNCHANGED <<charged, calling, lost, doubtful, fenced, attested>>

BudgetNext == \/ Fence \/ Attest \/ SetLimit
              \/ \E e \in Execution : Admit(e) \/ Report(e) \/ Lose(e)

BudgetSpec == Init /\ [][BudgetNext]_budget
=============================================================================
