--------------------------- MODULE CompanyCustody ---------------------------
(***************************************************************************)
(* What a cooperative migration promises the owners of one company, with   *)
(* no manifests, stages, receipts or clocks: at every moment there is one  *)
(* keeper.  The keeper either serves the company, and then its content can *)
(* grow, or is about to: the authority was released to it and nobody else  *)
(* can serve the company any more.  A host that let the company go never   *)
(* serves it again.                                                        *)
(***************************************************************************)
EXTENDS Naturals, FiniteSets

CONSTANTS Host, Write

VARIABLES keeper,      \* the host that holds the authority, or is to receive it
          moving,      \* TRUE between the release and the arrival
          generation,  \* 1 at the genesis, one more after each arrival
          content,     \* every write that was ever accepted
          served       \* the hosts that have served the company

vars == <<keeper, moving, generation, content, served>>

Init ==
  /\ keeper \in Host
  /\ moving = FALSE
  /\ generation = 1
  /\ content = {}
  /\ served = {keeper}

\* The serving host accepts a command that changes the company.
Accept(w) ==
  /\ ~moving
  /\ w \notin content
  /\ content' = content \cup {w}
  /\ UNCHANGED <<keeper, moving, generation, served>>

\* The serving host gives the company up for a host that never served it.
Release(h) ==
  /\ ~moving
  /\ h \notin served
  /\ keeper' = h
  /\ moving' = TRUE
  /\ UNCHANGED <<generation, content, served>>

\* The new keeper starts serving, with everything that was ever accepted.
Arrive ==
  /\ moving
  /\ moving' = FALSE
  /\ generation' = generation + 1
  /\ served' = served \cup {keeper}
  /\ UNCHANGED <<keeper, content>>

Next ==
  \/ \E w \in Write : Accept(w)
  \/ \E h \in Host : Release(h)
  \/ Arrive

Spec == Init /\ [][Next]_vars
=============================================================================
