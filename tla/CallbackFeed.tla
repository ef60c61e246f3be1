------------------------------ MODULE CallbackFeed ------------------------------
(***************************************************************************)
(* What a callback subscription promises its receiver: the events of its   *)
(* peer's correspondence, each at least once, the next one only after the  *)
(* receiver has accepted the one before.  The subscription's position      *)
(* advances over an event only if the receiver has accepted that event     *)
(* signed with the key in force, while the subscription is open.           *)
(***************************************************************************)
EXTENDS Integers, Sequences, FiniteSetsExt

CONSTANTS Peer, Sub, PeerOf

VARIABLES
  log,       \* the project's events, each the set of peers it concerns
  open,      \* the subscriptions that deliver
  position,  \* the event each subscription has acknowledged last
  accepted   \* events the receiver has accepted under the key in force

feed == <<log, open, position, accepted>>

Upcoming(s) == {n \in 1..Len(log) : n > position[s] /\ PeerOf[s] \in log[n]}
NextEvent(s) == Min(Upcoming(s))

Init == /\ log = <<>>
        /\ open = {}
        /\ position = [s \in Sub |-> 0]
        /\ accepted = [s \in Sub |-> {}]

Publish == /\ \E concerned \in SUBSET Peer : log' = Append(log, concerned)
           /\ UNCHANGED <<open, position, accepted>>

Open(s) == /\ open' = open \cup {s}
           /\ position'[s] \in Nat
           /\ position' = [position EXCEPT ![s] = position'[s]]
           /\ UNCHANGED <<log, accepted>>

Close == open' \subseteq open /\ UNCHANGED <<log, position, accepted>>

\* A request on its way when the subscription closes may still be accepted.
Accept(s) == /\ Upcoming(s) # {}
             /\ accepted' = [accepted EXCEPT ![s] = @ \cup {NextEvent(s)}]
             /\ UNCHANGED <<log, open, position>>

Acknowledge(s) == /\ s \in open
                  /\ Upcoming(s) # {} /\ NextEvent(s) \in accepted[s]
                  /\ position' = [position EXCEPT ![s] = NextEvent(s)]
                  /\ UNCHANGED <<log, open, accepted>>

Rekey(s) == /\ accepted' = [accepted EXCEPT ![s] = {}]
            /\ UNCHANGED <<log, open, position>>

FeedNext == \/ Publish \/ Close
            \/ \E s \in Sub : Open(s) \/ Accept(s) \/ Acknowledge(s) \/ Rekey(s)

FeedSpec == Init /\ [][FeedNext]_feed
=============================================================================
