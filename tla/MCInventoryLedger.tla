------------------------- MODULE MCInventoryLedger -------------------------
(* InventoryLedger on small instances. *)
EXTENDS InventoryLedger, TLC

CONSTANTS P1, P2, R1, R2, Acme, S1, S2, Erp, Ann, Ben

\* Positions, reservations, serials and writers are names.
Interchangeable ==
  Permutations(Position) \cup Permutations(ReservationId) \cup Permutations(Serial) \cup Permutations(Writer)
=============================================================================
