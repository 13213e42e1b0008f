--------------------------- MODULE CompanyAuthority ---------------------------
(***************************************************************************)
(* Who may act for a company at a DTP v0.4 host: controllers, members,     *)
(* invitations, policies and their grants (the administration cases of     *)
(* sdk/src/v04/engine.ts, and permissions.ts).                             *)
(*                                                                         *)
(* Two clocks are in play.  The kernel decides by its own clock, now.  A   *)
(* command carries issued_at, the clock of whoever signed it, which may    *)
(* lie ClockSkew ahead and anything less than Window behind; it orders     *)
(* revocations and grants, and is all that another host can go by when it  *)
(* replays the history at import (validateSnapshot, in snapshot.ts).       *)
(*                                                                         *)
(* Persons are registered, and everybody whose signature a command needs   *)
(* has signed it.                                                          *)
(***************************************************************************)
EXTENDS Integers, FiniteSets

CONSTANTS
  Person,
  Permission,      \* administration permissions
  MembersManage,   \* "members.manage"
  PoliciesCreate,  \* "policies.create"
  InvitationId,
  PolicyId,
  ClockSkew,       \* 30 seconds
  Window,          \* five minutes, the life of a command
  Term,            \* 366 days, the longest membership or grant
  LastTime,        \* bound of the model: the last reading of the clock
  None

ASSUME AuthorityAssumption ==
  /\ {MembersManage, PoliciesCreate} \subseteq Permission
  /\ ClockSkew \in Nat /\ Window \in Nat \ {0} /\ Term \in Nat \ {0} /\ LastTime \in Nat \ {0}
  /\ None \notin [permissions : SUBSET Permission, expires_at : Nat, active : BOOLEAN]

VARIABLES
  now,
  controllers,
  members,      \* members[p]: the membership of p, or None
  invitations,  \* invitations[i]: the invitation i, or None
  policies,     \* policies[x]: the current revision of policy x, or None
  revoked_at,   \* revoked_at[p]: latest issued_at of a revocation of p, 0 for none

  \* History variables, which no guard reads:
  delegated,    \* delegated[r]: the latest expiry a controller gave permission r
  ended,        \* grants <<x, p>> in force at p's last revocation and not renewed
  portable      \* every command of the history passes the replay of an import

authority == <<controllers, members, invitations, policies, revoked_at>>
authority_vars == <<now, authority, delegated, ended, portable>>

Instant == Nat \ {0}
Membership == [permissions : SUBSET Permission, expires_at : Instant, active : BOOLEAN]
Invitation == [person_id : Person, permissions : SUBSET Permission, expires_at : Instant,
               active : BOOLEAN, accepted : BOOLEAN, authorized_by : Person]

\* A revision of a policy: grants[p] is when the grant to p expires, 0 for none.
Policy == [stewards : (SUBSET Person) \ {{}}, threshold : Nat, grants : [Person -> Nat],
           issued_at : Instant]

\* The issued_at of a command the host accepts now.
IssuedAt == {t \in now - Window + 1 .. now + ClockSkew : t >= 1}

AuthorityInit ==
  /\ now = 1
  /\ controllers \in (SUBSET Person) \ {{}}
  /\ members = [p \in Person |-> None]
  /\ invitations = [i \in InvitationId |-> None]
  /\ policies = [x \in PolicyId |-> None]
  /\ revoked_at = [p \in Person |-> 0]
  /\ delegated = [r \in Permission |-> 0]
  /\ ended = {}
  /\ portable = TRUE

-----------------------------------------------------------------------------
(* permissions.ts *)

ActiveMember(p, at) ==
  p \notin controllers => (members[p] # None /\ members[p].active /\ members[p].expires_at > at)

Manages(p, r, at) ==
  ActiveMember(p, at) /\ (p \notin controllers => r \in members[p].permissions)

\* As in HostMigration, a definition named for a fault is used by no action: a
\* mutant puts it in the place of the definition that follows it.
GrantCurrentFault(x, p) == policies[x].issued_at >= revoked_at[p]
GrantCurrent(x, p) == policies[x].issued_at > revoked_at[p]

DataAllowed(x, p) ==
  /\ policies[x] # None
  /\ ActiveMember(p, now)
  /\ GrantCurrent(x, p)
  /\ policies[x].grants[p] > now

ActiveStewards(x) == {p \in policies[x].stewards : ActiveMember(p, now)}

\* What a delegate hands on stays within the delegate's own membership.
WithinAuthorityFault(p, rs, e) == p \notin controllers => rs \subseteq members[p].permissions
WithinAuthority(p, rs, e) ==
  p \notin controllers => (rs \subseteq members[p].permissions /\ e <= members[p].expires_at)

-----------------------------------------------------------------------------
(* The replay of one command in validateSnapshot, whose clock is issued_at.  *)
(* It changes the projection as the kernel does, so that only its conditions *)
(* matter.                                                                   *)

WithinTerm(e, at) == at < e /\ e <= at + Term

ReplaysInvite(a, i, p, rs, e, t) ==
  /\ Manages(a, MembersManage, t)
  /\ p \notin controllers /\ invitations[i] = None
  /\ WithinTerm(e, t)
  /\ WithinAuthority(a, rs, e)

ReplaysAccept(p, i, t) ==
  LET inv == invitations[i] IN
  /\ inv.active /\ ~inv.accepted /\ inv.person_id = p /\ inv.expires_at > t
  /\ Manages(inv.authorized_by, MembersManage, t)
  /\ WithinAuthority(inv.authorized_by, inv.permissions, inv.expires_at)

ReplaysRevoke(a, p, t) == Manages(a, MembersManage, t) /\ p \notin controllers

ReplaysPolicy(x, grants, t) ==
  \A p \in {q \in Person : grants[q] # 0} : WithinTerm(grants[p], t)

-----------------------------------------------------------------------------
(* Commands *)

\* Some controllers, and a threshold they can reach.
Quorate(cs) == cs # {}

\* organization.policy
SetControllers(a, cs) ==
  /\ a \in controllers
  /\ Quorate(cs)
  /\ controllers' = cs
  /\ UNCHANGED <<now, members, invitations, policies, revoked_at, delegated, ended, portable>>

\* Invitations of p that are still open are consumed by a new one.
ConsumedFault(p) == invitations
Consumed(p) ==
  [i \in InvitationId |-> IF invitations[i] # None /\ invitations[i].person_id = p
                          THEN [invitations[i] EXCEPT !.accepted = TRUE] ELSE invitations[i]]

\* membership.invite
Invite(a, i, p, rs, e, t) ==
  /\ t \in IssuedAt
  /\ Manages(a, MembersManage, now)
  /\ WithinTerm(e, now)
  /\ p \notin controllers
  /\ WithinAuthority(a, rs, e)
  /\ invitations[i] = None
  /\ invitations' = [Consumed(p) EXCEPT ![i] =
       [person_id |-> p, permissions |-> rs, expires_at |-> e, active |-> TRUE,
        accepted |-> FALSE, authorized_by |-> a]]
  /\ delegated' = [r \in Permission |->
       IF a \in controllers /\ r \in rs /\ e > delegated[r] THEN e ELSE delegated[r]]
  /\ portable' = (portable /\ ReplaysInvite(a, i, p, rs, e, t))
  /\ UNCHANGED <<now, controllers, members, policies, revoked_at, ended>>

\* The invitation may be used by p now.
Usable(i, p) == /\ invitations[i] # None /\ invitations[i].person_id = p
                /\ invitations[i].active /\ invitations[i].expires_at > now
                /\ ~invitations[i].accepted

\* membership.accept
Accept(p, i, t) ==
  LET inv == invitations[i] IN
  /\ t \in IssuedAt
  /\ Usable(i, p)
  /\ Manages(inv.authorized_by, MembersManage, now)
  /\ WithinAuthority(inv.authorized_by, inv.permissions, inv.expires_at)
  /\ members' = [members EXCEPT ![p] = [permissions |-> inv.permissions,
                                        expires_at |-> inv.expires_at, active |-> TRUE]]
  /\ invitations' = [invitations EXCEPT ![i].accepted = TRUE]
  /\ portable' = (portable /\ ReplaysAccept(p, i, t))
  /\ UNCHANGED <<now, controllers, policies, revoked_at, delegated, ended>>

Granted(p) == {x \in PolicyId : policies[x] # None /\ policies[x].grants[p] # 0}

\* "a policy revision granting this person is newer than this revocation"
NotBeforeGrants(p, t) == \A x \in Granted(p) : policies[x].issued_at <= t

\* Revocation also disables what the person could still accept.
Disabled(p) ==
  [i \in InvitationId |-> IF invitations[i] # None /\ invitations[i].person_id = p
                          THEN [invitations[i] EXCEPT !.active = FALSE] ELSE invitations[i]]

\* membership.revoke
Revoke(a, p, t) ==
  /\ t \in IssuedAt
  /\ Manages(a, MembersManage, now)
  /\ p \notin controllers
  /\ NotBeforeGrants(p, t)
  /\ members' = IF members[p] = None THEN members ELSE [members EXCEPT ![p].active = FALSE]
  /\ invitations' = Disabled(p)
  /\ revoked_at' = [revoked_at EXCEPT ![p] = IF t > @ THEN t ELSE @]
  /\ ended' = ended \cup {<<x, p>> : x \in Granted(p)}
  /\ portable' = (portable /\ ReplaysRevoke(a, p, t))
  /\ UNCHANGED <<now, controllers, policies, delegated>>

\* checkPolicy: what a revision signed at t may grant.
GrantAllowed(p, e, t) ==
  /\ ActiveMember(p, now)
  /\ WithinTerm(e, now)
  /\ p \notin controllers => e <= members[p].expires_at
  /\ t > revoked_at[p]

\* policy.create and policy.update
WritePolicy(a, x, stewards, threshold, grants, t) ==
  /\ t \in IssuedAt
  /\ IF policies[x] = None THEN Manages(a, PoliciesCreate, now)
     ELSE a \in ActiveStewards(x) /\ Cardinality(ActiveStewards(x)) >= policies[x].threshold
  /\ stewards # {} /\ \A p \in stewards : ActiveMember(p, now)
  /\ threshold \in 1..Cardinality(stewards)
  /\ \A p \in {q \in Person : grants[q] # 0} : GrantAllowed(p, grants[p], t)
  /\ policies' = [policies EXCEPT ![x] = [stewards |-> stewards, threshold |-> threshold,
                                          grants |-> grants, issued_at |-> t]]
  /\ ended' = {g \in ended : g[1] # x}
  /\ portable' = (portable /\ ReplaysPolicy(x, grants, t))
  /\ UNCHANGED <<now, controllers, members, invitations, revoked_at, delegated>>

TickAuthority ==
  /\ now < LastTime
  /\ now' = now + 1
  /\ UNCHANGED <<authority, delegated, ended, portable>>

Expiry == now + 1 .. now + Term

AuthorityNext ==
  \/ \E a \in Person, cs \in SUBSET Person : SetControllers(a, cs)
  \/ \E a, p \in Person, i \in InvitationId, rs \in SUBSET Permission, e \in Expiry, t \in IssuedAt :
       Invite(a, i, p, rs, e, t)
  \/ \E p \in Person, i \in InvitationId, t \in IssuedAt : Accept(p, i, t)
  \/ \E a, p \in Person, t \in IssuedAt : Revoke(a, p, t)
  \/ \E a \in Person, x \in PolicyId, stewards \in SUBSET Person, n \in 1..Cardinality(Person),
        grants \in [Person -> {0} \cup Expiry], t \in IssuedAt :
       WritePolicy(a, x, stewards, n, grants, t)
  \/ TickAuthority

AuthoritySpec == AuthorityInit /\ [][AuthorityNext]_authority_vars

-----------------------------------------------------------------------------
(* Properties *)

\* Types; somebody always controls the company.
AuthorityTypeOK ==
  /\ now \in Instant
  /\ controllers \in (SUBSET Person) \ {{}}
  /\ members \in [Person -> Membership \cup {None}]
  /\ invitations \in [InvitationId -> Invitation \cup {None}]
  /\ policies \in [PolicyId -> Policy \cup {None}]
  /\ revoked_at \in [Person -> Nat]
  /\ delegated \in [Permission -> Nat]
  /\ ended \subseteq PolicyId \X Person
  /\ portable \in BOOLEAN

\* Revocation ends the person's grants: a later reinvitation starts with no data
\* access until a steward grants it again (SPEC.md, sections 3 and 4), whatever
\* the clocks of those who signed the revocation and the policies.
RevocationEndsGrants == \A g \in ended : ~DataAllowed(g[1], g[2])

\* No chain of invitations, replacements of controllers and acceptances gives a
\* member a permission, or a time, beyond what some controller gave.
DelegationBounded ==
  \A p \in Person : members[p] # None =>
    \A r \in members[p].permissions : members[p].expires_at <= delegated[r]

\* A new invitation replaces the earlier ones: a person cannot choose among the
\* terms of several, nor fall back to wider ones after narrower ones were offered.
OneOpenInvitation ==
  \A i, j \in InvitationId, p \in Person : Usable(i, p) /\ Usable(j, p) => i = j

\* Every history a host accepts passes the replay of an import, so that the
\* company can move and its memberships survive (SPEC.md, section 8, step 6).
Portable == portable
=============================================================================
