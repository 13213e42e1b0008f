--------------------------- MODULE MCHostMigration ---------------------------
(***************************************************************************)
(* HostMigration for TLC: hosts, request IDs, writes and chunks are model  *)
(* values.  No definition tells one host from another, so it is enough to  *)
(* start the company at one of them.                                       *)
(***************************************************************************)
EXTENDS HostMigration

CONSTANT Home  \* the host that serves the company first

MCInit == Init /\ Home \in Serving
MCSpec == MCInit /\ [][Next]_vars /\ Fairness
=============================================================================
