--------------------------- MODULE MCCommitmentSaga ---------------------------
(***************************************************************************)
(* CommitmentSaga for TLC: two orders that each need goods and transport,  *)
(* in overlapping windows.  The goods of one cannot be cancelled; the      *)
(* quote for its transport may be revised.                                 *)
(***************************************************************************)
EXTENDS CommitmentSaga, TLC

CONSTANTS goods, transport, order, rival, l1, l2, l3, l4, q1, q2, q3, q4, q5

Offer(entity, pool, quantity, start, end, cancellable) ==
  [entity |-> entity, pool |-> pool, quantity |-> quantity, start |-> start, end |-> end, expires |-> 2, cancellable |-> cancellable]
MCTerms ==
  q1 :> Offer(q1, goods, 2, 0, 2, TRUE) @@ q2 :> Offer(q2, transport, 1, 0, 1, FALSE) @@ q3 :> Offer(q3, goods, 1, 1, 3, FALSE)
  @@ q4 :> Offer(q4, transport, 1, 1, 3, TRUE) @@ q5 :> Offer(q4, transport, 1, 1, 3, TRUE)
MCBooking == l1 :> [quote |-> q1, expires |-> 1] @@ l2 :> [quote |-> q2, expires |-> 1] @@ l3 :> [quote |-> q3, expires |-> 2]
             @@ l4 :> [quote |-> q4, expires |-> 2]
MCPlan == order :> <<l1, l2>> @@ rival :> <<l3, l4>>
MCOffered == goods :> <<q1, q3>> @@ transport :> <<q2, q4>>
MCReports == goods :> 3 @@ transport :> 0
MCCapacity == goods :> 2 @@ transport :> 1

\* While both orders compete a pool reports once, and no damage; how several reports, of
\* whatever was delivered, add up is looked at while the rival has not begun, and it does
\* not begin after them.
Unbegun(c) == phase[c] = "holding" /\ pending[c] = None /\ \A l \in LegsOf(c) : legs[l] = "planned"
OneSound == Cardinality(Numbers(goods)) <= 1 /\ \A l \in Leg : holds[l] # None => holds[l].damaged = 0
MCNext == Next /\ (OneSound \/ Unbegun(rival))'
MCSpec == Init /\ [][MCNext]_vars /\ Fairness
=============================================================================
