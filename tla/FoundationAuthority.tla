-------------------------- MODULE FoundationAuthority --------------------------
(***************************************************************************)
(* The finite operation authority of sdk/src/foundation/authority.ts and   *)
(* the organization governance of organization.ts, as operators over the   *)
(* state a host keeps: who may issue or revoke a grant, which grants stand  *)
(* behind an operation, what an operation is charged to, and whose consent  *)
(* a change of controllers needs.                                          *)
(*                                                                         *)
(* Abstractions: identifiers and digests are model values, a plan digest is *)
(* the plan; signatures are membership in a set of signed statements; the   *)
(* limits of a grant are one metric; profiles are folded into resources     *)
(* (a resource never changes its profile).                                  *)
(***************************************************************************)
EXTENDS Naturals, Sequences, FiniteSets, FiniteSetsExt, SequencesExt

CONSTANTS
    Person,        \* the people who control, act and approve
    Organization,  \* the one organization of the host's authority row
    GrantId, Operation, Resource, RecordId, OperationId,
    None

ASSUME AuthorityAssumption == IsFiniteSet(Person) /\ None \notin GrantId

\* ApprovalRule: of these people, that many, and whether the actor counts.
ApprovalRule == [people: SUBSET Person, threshold: 1..Cardinality(Person),
                 exclude_actor: BOOLEAN]

\* OperationScope: the operations and the resources a grant reaches.
OperationScope == [operations: SUBSET Operation \ {{}},
                   resource_ids: SUBSET Resource \ {{}}]

\* CapabilityGrant, with the lifetime and depth bounds of grant().
CapabilityGrant ==
    {g \in [id: GrantId, parent_id: GrantId \cup {None},
            subject: Person \cup {Organization}, scope: OperationScope,
            not_before: Nat, expires_at: Nat, delegation_depth: 0..4,
            limit: Nat, approval: ApprovalRule \cup {None}] :
        /\ g.expires_at > g.not_before
        /\ g.approval # None => g.approval.threshold <= Cardinality(g.approval.people)}

\* Governance: a threshold of the controllers decides.
Governance == {g \in [controllers: SUBSET Person \ {{}}, threshold: 1..Cardinality(Person)] :
                  g.threshold <= Cardinality(g.controllers)}

\* OperationIntent: what an actor signs. An admitted operation updates some of
\* the resources it declares and appends new records; `cost` is what the host
\* accounts for it (usage).
OperationIntent ==
    {i \in [operation_id: OperationId, operation: Operation,
            resources: SUBSET Resource \ {{}}, updates: SUBSET Resource,
            appends: SUBSET RecordId, cost: Nat] :
        i.updates \subseteq i.resources /\ IsFiniteSet(i.resources) /\ IsFiniteSet(i.appends)}

-----------------------------------------------------------------------------
\* A child's scope stays within its parent's.
Narrower(child, parent) ==
    /\ child.operations \subseteq parent.operations
    /\ child.resource_ids \subseteq parent.resource_ids

\* The grants from a leaf up to its root; at most five, by the depth rule.
WithParents(grants, some) == some \cup {grants[g].grant.parent_id : g \in some \cap DOMAIN grants}
Chain(grants, leaf) ==
    LET up(some) == WithParents(grants, some) IN up(up(up(up({leaf})))) \ {None}

\* Every grant of the chain stands: not revoked, begun, not expired.
ActiveFault(grants, leaf, now) ==    \* Fault: an ancestor's revocation is not looked at.
    /\ grants[leaf] # None
    /\ ~grants[leaf].revoked
    /\ \A g \in Chain(grants, leaf) : grants[g].grant.not_before <= now /\ now < grants[g].grant.expires_at
Active(grants, leaf, now) ==
    /\ grants[leaf] # None
    /\ \A g \in Chain(grants, leaf) :
          /\ ~grants[g].revoked
          /\ grants[g].grant.not_before <= now
          /\ now < grants[g].grant.expires_at

\* Whether the authenticated principals speak for a subject: a controller
\* quorum for the organization, the person themselves otherwise.
Control(governance, subject, consents) ==
    IF subject = Organization
    THEN Cardinality(governance.controllers \cap consents) >= governance.threshold
    ELSE subject \in consents

\* Who answers for a grant: the organization for a root grant, the subject of
\* the parent for a delegated one.
Grantor(grants, g) ==
    IF g.parent_id = None THEN Organization ELSE grants[g.parent_id].grant.subject

\* issueGrant's conditions.
MayIssue(grants, governance, g, consents, now) ==
    /\ grants[g.id] = None
    /\ g.expires_at > now
    /\ g.parent_id # None => Active(grants, g.parent_id, now)
    /\ Control(governance, Grantor(grants, g), consents)
    /\ g.parent_id # None =>
          LET parent == grants[g.parent_id].grant
          IN  /\ g.delegation_depth < parent.delegation_depth
              /\ Narrower(g.scope, parent.scope)
              /\ g.not_before >= parent.not_before /\ g.expires_at <= parent.expires_at
              /\ g.limit <= parent.limit

\* revokeGrant's conditions; a child's or a parent's expiry does not matter.
MayRevoke(grants, governance, g, consents) ==
    /\ grants[g] # None
    /\ Control(governance, Grantor(grants, grants[g].grant), consents)

-----------------------------------------------------------------------------
\* The approvals that count towards one grant's rule: this grant, this very
\* operation, intent and plan, live, from a listed person, the actor excepted
\* when the rule says so.
CountedFault(g, approvals, actor, i, plan, now) ==    \* Fault: any plan of the operation will do.
    {a \in approvals :
        /\ a.grant_id = g.id /\ a.intent = i /\ a.expires_at > now
        /\ a.person \in g.approval.people
        /\ g.approval.exclude_actor => a.person # actor}
Counted(g, approvals, actor, i, plan, now) ==
    {a \in approvals :
        /\ a.grant_id = g.id /\ a.intent = i /\ a.plan = plan
        /\ a.expires_at > now
        /\ a.person \in g.approval.people
        /\ g.approval.exclude_actor => a.person # actor}

\* No two of the approvals presented are one person's for one grant.
Distinct(approvals) ==
    \A a, b \in approvals : a.person = b.person /\ a.grant_id = b.grant_id => a = b

\* authorizeAndCharge for an operation never accepted before: the whole chain
\* stands, covers the scope, has budget left and has its approvals.
Authorized(grants, leaf, actor, i, plan, approvals, now) ==
    /\ Active(grants, leaf, now)
    /\ grants[leaf].grant.subject = actor
    /\ Distinct(approvals)
    /\ \A c \in Chain(grants, leaf) :
          LET g == grants[c].grant
          IN  /\ Narrower([operations |-> {i.operation}, resource_ids |-> i.resources], g.scope)
              /\ grants[c].used + i.cost <= g.limit
              /\ g.approval # None =>
                    Cardinality(Counted(g, approvals, actor, i, plan, now)) >= g.approval.threshold

\* Its charge: every grant of the chain, not only the one presented.
ChargedFault(grants, leaf, cost) ==    \* Fault: only the grant presented pays.
    [grants EXCEPT ![leaf].used = @ + cost]
Charged(grants, leaf, cost) ==
    [g \in DOMAIN grants |->
        IF g \in Chain(grants, leaf) THEN [grants[g] EXCEPT !.used = @ + cost] ELSE grants[g]]

-----------------------------------------------------------------------------
\* Who consented to a statement: the signers of exactly that statement, while its
\* window is open (a consent's own window is taken to be the statement's).
Consented(statement, signed, now) ==
    IF now < statement.expires_at
    THEN {s.person : s \in {x \in signed : x.statement = statement}}
    ELSE {}

\* Genesis: a threshold is not enough, every initial controller consents.
GenesisStands(governance, consents) == governance.controllers \subseteq consents

\* Succession: the transition names the head it replaces, changes something, is
\* in its window, and carries the consent of a quorum of the controllers it
\* replaces and of every controller it adds. A head's digest covers its whole
\* history, so the head named is the log itself.
TransitionAppliesFault(log, t, signed, now) ==    \* Fault: the replaced head is not compared.
    LET head == log[Len(log)]
    IN  /\ now < t.expires_at /\ t.governance # head
        /\ Control(head, Organization, Consented(t, signed, now))
        /\ t.governance.controllers \ head.controllers \subseteq Consented(t, signed, now)
TransitionApplies(log, t, signed, now) ==
    LET head == log[Len(log)]
    IN  /\ t.expected = log
        /\ now < t.expires_at
        /\ t.governance # head
        /\ Control(head, Organization, Consented(t, signed, now))
        /\ t.governance.controllers \ head.controllers \subseteq Consented(t, signed, now)
=============================================================================
