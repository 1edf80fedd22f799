---------------------------- MODULE EventStream ----------------------------
(***************************************************************************)
(* What SseClient promises the page that uses it, apart from EventSources, *)
(* timers and backoff: a link that is off, down or up.  Events reach the   *)
(* page only over a link that is up; a link that went down comes up again  *)
(* by itself as long as the server is reachable.  SseClient implements     *)
(* this specification; ApprovalsPage is built on it.                       *)
(***************************************************************************)
VARIABLES
  link,       \* "off", "down" or "up"
  reachable   \* does the server accept connections?

vars == <<link, reachable>>

Init == link = "off" /\ reachable \in BOOLEAN

(* connect()                                                               *)
Start ==
  /\ link = "off"
  /\ link' = "down"
  /\ UNCHANGED reachable

(* close(), also from within a callback                                    *)
Stop ==
  /\ link # "off"
  /\ link' = "off"
  /\ UNCHANGED reachable

Establish ==
  /\ link = "down"
  /\ reachable
  /\ link' = "up"
  /\ UNCHANGED reachable

(* An open connection is only given up when the server is gone.            *)
Drop ==
  /\ link = "up"
  /\ ~ reachable
  /\ link' = "down"
  /\ UNCHANGED reachable

Toggle ==
  /\ reachable' = ~ reachable
  /\ UNCHANGED link

Next == Start \/ Stop \/ Establish \/ Drop \/ Toggle

SafeSpec == Init /\ [][Next]_vars

Spec == SafeSpec /\ WF_vars(Establish)
=============================================================================
