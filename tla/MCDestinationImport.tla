------------------------ MODULE MCDestinationImport ------------------------
(***************************************************************************)
(* DestinationImport for TLC: persons 1 and 2, whose IDs hash the model     *)
(* keys g1 and g2.                                                          *)
(***************************************************************************)
EXTENDS DestinationImport, TLC

CONSTANTS g1, g2

MCGenesis == [p \in PersonId |-> IF p = 1 THEN g1 ELSE g2]

Symmetric == Permutations(Company) \cup Permutations(Admission)
=============================================================================
