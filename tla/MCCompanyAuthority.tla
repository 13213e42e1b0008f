------------------------- MODULE MCCompanyAuthority -------------------------
(***************************************************************************)
(* CompanyAuthority for TLC.  A behaviour has one of two subjects: several *)
(* invitations and no policy, or policies and one invitation of everything.*)
(***************************************************************************)
EXTENDS CompanyAuthority, TLC

CONSTANTS Administer, Ann, Ben, Cas, I1, I2, X1

VARIABLE subject

Sent == {i \in InvitationId : invitations[i] # None}

MCInit == AuthorityInit /\ subject \in {"delegation", "revocation"}
MCNext ==
  /\ AuthorityNext /\ UNCHANGED subject
  /\ subject = "delegation" => UNCHANGED policies
  /\ subject = "revocation" => Cardinality(Sent') <= 1 /\ \A i \in Sent' : invitations'[i].permissions = Permission
MCSpec == MCInit /\ [][MCNext]_<<authority_vars, subject>>

\* Nothing distinguishes the persons but what they do; identifiers are names.
Interchangeable == Permutations(Person) \cup Permutations(InvitationId)

\* Without the verdict of the replay, which no guard reads.
Administration == <<now, authority, delegated, ended, subject>>
=============================================================================
