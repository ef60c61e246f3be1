---------------------------- MODULE TaskReceipts ----------------------------
(***************************************************************************)
(* What docs/acp-durable-tasks.md promises to the sender of a durable      *)
(* task: a receipt moves forward only, its outcome is final, its agent is  *)
(* started at most once, and at most Capacity receipts are unfinished.     *)
(***************************************************************************)
EXTENDS Naturals, FiniteSets

CONSTANTS Key, Capacity

VARIABLES receipt,   \* the status a sender can observe
          started  \* the tasks whose agent was ever started

Unfinished == {"queued", "running"}
Outcome    == {"completed", "failed", "cancelled", "interrupted"}

Init == receipt = [k \in Key |-> "none"] /\ started = {}

Becomes(k, s) == receipt' = [receipt EXCEPT ![k] = s]

Admitted(k) ==
  /\ receipt[k] = "none"
  /\ Cardinality({j \in Key : receipt[j] \in Unfinished}) < Capacity
  /\ Becomes(k, "queued") /\ UNCHANGED started

\* Its agent is started now or never: the answer to the sender's or the
\* worker's last statement may be lost, and the work is not tried again.
Taken(k) == /\ receipt[k] = "queued" /\ k \notin started
            /\ Becomes(k, "running")
            /\ started' \in {started, started \cup {k}}

\* Work that was never started can fail or be cancelled, but not complete.
Ended(k) ==
  /\ receipt[k] \in Unfinished
  /\ \E s \in Outcome : /\ s = "completed" => k \in started
                        /\ Becomes(k, s)
  /\ UNCHANGED started

Next == \E k \in Key : Admitted(k) \/ Taken(k) \/ Ended(k)

ReceiptSpec == Init /\ [][Next]_<<receipt, started>>
=============================================================================
