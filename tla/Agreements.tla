------------------------------- MODULE Agreements -------------------------------
(***************************************************************************)
(* What the correspondence relies on about contracts.  A request pins      *)
(* revisions of contracts; it starts and completes only while its          *)
(* recipient's agreement to each pin is in force, and it fails for good    *)
(* when a pin is stale.  So a stale pin must never recover.                *)
(***************************************************************************)
CONSTANTS Peer, Pin

VARIABLES
  agreed,  \* <<peer, pin>>: the pin is ready for the peer
  stale    \* pins that were superseded or deleted, or rest on such a pin

Init == agreed = {} /\ stale = {}

\* Acknowledgements come, owners are disabled, revisions supersede.
Change == /\ stale' \in {S \in SUBSET Pin : stale \subseteq S}
          /\ agreed' \in SUBSET (Peer \X (Pin \ stale'))

AgreementsSpec == Init /\ [][Change]_<<agreed, stale>>
=============================================================================
