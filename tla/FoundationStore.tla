---------------------------- MODULE FoundationStore ----------------------------
(***************************************************************************)
(* One organization in the transactional foundation store                  *)
(* (sdk/src/foundation/persistence.ts) with the person challenges of        *)
(* person-authentication.ts as its authenticateOperation and beforeCommit   *)
(* hooks, the authority of authority.ts and the governance of               *)
(* organization.ts.                                                         *)
(*                                                                         *)
(* Every command runs in one database transaction that holds the            *)
(* organization's authority row, so each is one action; a command that      *)
(* throws aborts and leaves nothing. What interleaves is what people sign:  *)
(* a challenge, an approval and a governance consent are given in one step  *)
(* and used in a later one, after time, revocations, other operations or    *)
(* other heads. An execution reads its clock twice, on entry and at commit, *)
(* and any time may pass in between.                                        *)
(*                                                                         *)
(* One clock stands for host and database (dbNow bounds their distance);    *)
(* identity resolution is IdentityRehoming's subject and is taken as given; *)
(* an operation's plan is a function of the intent and the heads it read.   *)
(***************************************************************************)
EXTENDS FoundationAuthority

CONSTANTS
    Scenarios,     \* small instances to start in: what may be proposed in each
    Nonce,         \* challenges, one per nonce
    ChallengeLife, \* PERSON_CHALLENGE_LIFETIME_MS
    Reserve,       \* PERSON_COMMIT_RESERVE_MS
    MaxOutstanding,\* challenges a person may have open
    ApprovalLife,  \* how long an approver signs for
    Imported,      \* the revision of an imported entity
    MaxTime, MaxHeads, MaxApprovals

VARIABLES
    scenario,      \* the chosen instance; never changes
    now,
    log,           \* the governance heads, oldest first; empty before bootstrap
    signed,        \* consents to governance transitions, as people signed them
    grants,        \* authority_state.grants
    approvals,     \* plan approvals, as people signed them
    challenges,    \* person_auth_challenges
    receipts,      \* business_receipts (and the authority's own receipts)
    heads,         \* resource_heads: the current revision of a resource
    records,       \* the records that exist
    outbox         \* transactional_outbox, by sequence

vars == <<scenario, now, log, signed, grants, approvals, challenges, receipts,
          heads, records, outbox>>

\* A plan: the intent evaluated on the resource revisions it read. Its effects
\* update or append; the new revision is named for the operation.
PlanOf(i) == [intent |-> i, expected_resources |-> [r \in i.resources |-> heads[r]]]
\* Effects in some fixed order: resource updates and record appends.
Effects(i) ==
    LET es == [kind: {"resource.update"}, entity: i.updates, revision: {i.operation_id}]
              \cup [kind: {"record.append"}, entity: i.appends, revision: {i.operation_id}]
    IN  SetToSeq(es)

\* Every declared resource has a head to evaluate on.
Readable(i) == \A r \in i.resources : heads[r] # None

Governing == log[Len(log)]     \* what authenticateGovernance resolves

\* What the store keeps: authority_state.grants, business_receipts, person_auth_challenges.
GrantEntry == [grant: CapabilityGrant, revoked: BOOLEAN, used: Nat]
Plan == [intent: OperationIntent,
         expected_resources: UNION {[R -> OperationId \cup {Imported, None}] : R \in SUBSET Resource}]
BusinessReceipt == [intent: OperationIntent, plan: Plan, actor: Person, grant_id: GrantId,
                    accepted_at: Nat, committed_at: Nat]
PersonChallenge == [person: Person, intent: OperationIntent, grant_id: GrantId,
                    expires_at: Nat, consumed: BOOLEAN]

ASSUME StoreAssumption ==
    /\ ChallengeLife \in Nat /\ ApprovalLife \in Nat /\ MaxTime \in Nat
    /\ None \notin GrantEntry /\ None \notin BusinessReceipt /\ None \notin PersonChallenge
ASSUME ScenarioAssumption ==
    \A s \in Scenarios :
        /\ s.genesis \in Governance
        /\ s.offers \subseteq CapabilityGrant
        /\ s.intents \subseteq OperationIntent
        /\ s.nonces \subseteq Nonce /\ s.until \in 0..MaxTime
        /\ \A p \in s.proposals : p.governance \in Governance /\ p.expires_at \in Nat
\* An entity is named with its kind, a revision for what made it.
ASSUME NamesAssumption ==
    /\ Resource \cap RecordId = {} /\ GrantId \cap (Resource \cup RecordId) = {}
    /\ OperationId \cap {Imported, "grant", "revoke"} = {}

StoreInit ==
    /\ log = <<>>
    /\ grants = [g \in GrantId |-> None]
    /\ receipts = [o \in OperationId |-> None]
    /\ heads = [r \in Resource |-> None] /\ records = {}
    /\ outbox = <<>>
ChallengeInit == challenges = [n \in Nonce |-> None]
Init ==
    /\ scenario \in Scenarios
    /\ now = 0 /\ signed = {} /\ approvals = {}
    /\ StoreInit /\ ChallengeInit

-----------------------------------------------------------------------------
Tick ==
    /\ now < scenario.until
    /\ now' = now + 1
    /\ UNCHANGED <<scenario, log, signed, grants, approvals, challenges, receipts, heads, records, outbox>>

\* bootstrap: every initial controller consented to the genesis.
Bootstrap(consents) ==
    /\ log = <<>>
    /\ GenesisStands(scenario.genesis, consents)
    /\ log' = <<scenario.genesis>>
    /\ UNCHANGED <<scenario, now, signed, grants, approvals, challenges, receipts, heads, records, outbox>>

\* A person signs a transition proposed for the head they see.
SignTransition(p, proposal) ==
    /\ log # <<>> /\ Len(log) < MaxHeads
    /\ LET t == [expected |-> log, governance |-> proposal.governance, expires_at |-> proposal.expires_at]
       IN  /\ p \in Governing.controllers \cup proposal.governance.controllers
           /\ signed' = signed \cup {[person |-> p, statement |-> t]}
    /\ UNCHANGED <<scenario, now, log, grants, approvals, challenges, receipts, heads, records, outbox>>

\* The organization's host takes a transition with the consents it came with.
TakeTransition(t) ==
    /\ Len(log) < MaxHeads
    /\ TransitionApplies(log, t, signed, now)
    /\ log' = Append(log, t.governance)
    /\ UNCHANGED <<scenario, now, signed, grants, approvals, challenges, receipts, heads, records, outbox>>

\* govern with a grant, under the governance resolved in the transaction.
Grant(g, consents) ==
    /\ log # <<>>
    /\ MayIssue(grants, Governing, g, consents, now)
    /\ grants' = [grants EXCEPT ![g.id] = [grant |-> g, revoked |-> FALSE, used |-> 0]]
    /\ outbox' = Append(outbox, [kind |-> "authority.changed", entity |-> g.id, revision |-> "grant"])
    /\ UNCHANGED <<scenario, now, log, signed, approvals, challenges, receipts, heads, records>>

\* govern with a revocation; revoking again changes no revision and saves nothing.
Revoke(g, consents) ==
    /\ log # <<>>
    /\ MayRevoke(grants, Governing, g, consents)
    /\ ~grants[g].revoked
    /\ grants' = [grants EXCEPT ![g].revoked = TRUE]
    /\ outbox' = Append(outbox, [kind |-> "authority.changed", entity |-> g, revision |-> "revoke"])
    /\ UNCHANGED <<scenario, now, log, signed, approvals, challenges, receipts, heads, records>>

\* importRevision: a controller quorum admits an entity that does not exist yet.
Import(e, consents) ==
    /\ log # <<>>
    /\ Control(Governing, Organization, consents)
    /\ \/ e \in Resource /\ heads[e] = None
          /\ heads' = [heads EXCEPT ![e] = Imported] /\ UNCHANGED records
       \/ e \in RecordId \ records
          /\ records' = records \cup {e} /\ UNCHANGED heads
    /\ outbox' = Append(outbox, [kind |-> "revision.imported", entity |-> e, revision |-> Imported])
    /\ UNCHANGED <<scenario, now, log, signed, grants, approvals, challenges, receipts>>

-----------------------------------------------------------------------------
\* issueChallenge: one fresh nonce, bound to the person, intent and grant.
Outstanding(p) ==
    {n \in Nonce : challenges[n] # None /\ challenges[n].person = p
                   /\ ~challenges[n].consumed /\ challenges[n].expires_at > now}
IssueChallenge(n, p, i, g) ==
    /\ challenges[n] = None
    /\ Cardinality(Outstanding(p)) < MaxOutstanding
    /\ challenges' = [challenges EXCEPT ![n] =
           [person |-> p, intent |-> i, grant_id |-> g,
            expires_at |-> now + ChallengeLife, consumed |-> FALSE]]
    /\ UNCHANGED <<scenario, now, log, signed, grants, approvals, receipts, heads, records, outbox>>

\* A person approves the plan the intent has on today's heads, for one grant.
Approve(p, i, g) ==
    /\ grants[g] # None /\ grants[g].grant.approval # None
    /\ Cardinality(approvals) < MaxApprovals
    /\ Readable(i)
    /\ approvals' = approvals \cup
           {[person |-> p, intent |-> i, plan |-> PlanOf(i), grant_id |-> g,
             expires_at |-> now + ApprovalLife]}
    /\ UNCHANGED <<scenario, now, log, signed, grants, challenges, receipts, heads, records, outbox>>

\* authenticateOperation: the challenge is open, unconsumed and has the commit
\* reserve left.
Authentic(n) ==
    /\ challenges[n] # None /\ ~challenges[n].consumed
    /\ challenges[n].expires_at > now + Reserve

\* The deadlines an operation is held to: its challenge, the grants behind it
\* and the approvals it presented (finish, beforeCommit).
Deadlines(n, presented) ==
    {challenges[n].expires_at} \cup {a.expires_at : a \in presented}
    \cup {grants[g].grant.expires_at : g \in Chain(grants, challenges[n].grant_id)}
\* The trigger holds them at the commit itself.
InTime(n, presented, commit) == \A d \in Deadlines(n, presented) : d > commit + Reserve

Consume(n) == challenges' = [challenges EXCEPT ![n].consumed = TRUE]

\* execute, first time: evaluate, authorize and charge, apply the effects with
\* their outbox events, keep the receipt, recheck at commit.
CreatesNewRecordsFault(i) == TRUE    \* Fault: an append may hit an existing record.
CreatesNewRecords(i) == i.appends \cap records = {}
Execute(n, presented, commit) ==
    LET c == challenges[n]  i == c.intent  o == i.operation_id  plan == PlanOf(i)
    IN  /\ Authentic(n)
        /\ receipts[o] = None
        /\ Readable(i)
        /\ Authorized(grants, c.grant_id, c.person, i, plan, presented, now)
        /\ CreatesNewRecords(i)
        /\ InTime(n, presented, commit)
        /\ Authorized(grants, c.grant_id, c.person, i, plan, presented, commit)
        /\ Consume(n)
        /\ grants' = Charged(grants, c.grant_id, i.cost)
        /\ heads' = [r \in Resource |-> IF r \in i.updates THEN o ELSE heads[r]]
        /\ records' = records \cup i.appends
        /\ outbox' = outbox \o Effects(i)
        /\ receipts' = [receipts EXCEPT ![o] =
               [intent |-> i, plan |-> plan, actor |-> c.person, grant_id |-> c.grant_id,
                accepted_at |-> now, committed_at |-> commit]]
        /\ now' = commit
        /\ UNCHANGED <<scenario, log, signed, approvals>>

\* execute, retry: the same actor, grant and intent get the old receipt back, on
\* a fresh challenge and while the chain stands; nothing is charged or written.
Retry(n, commit) ==
    LET c == challenges[n]  r == receipts[c.intent.operation_id]
    IN  /\ Authentic(n)
        /\ r # None
        /\ r.intent = c.intent /\ r.actor = c.person /\ r.grant_id = c.grant_id
        /\ Active(grants, c.grant_id, now) /\ Active(grants, c.grant_id, commit)
        /\ InTime(n, {}, commit)
        /\ Consume(n)
        /\ now' = commit
        /\ UNCHANGED <<scenario, log, signed, grants, approvals, receipts, heads, records, outbox>>

-----------------------------------------------------------------------------
Next ==
    \/ Tick
    \/ \E C \in SUBSET Person :
          \/ Bootstrap(C)
          \/ \E g \in scenario.offers : Grant(g, C)
          \/ \E g \in GrantId : scenario.revokes /\ Revoke(g, C)
          \/ \E e \in scenario.imports : Import(e, C)
    \/ \E p \in Person :
          \/ \E t \in scenario.proposals : SignTransition(p, t)
          \/ \E i \in scenario.intents, g \in GrantId :
                \/ \E n \in scenario.nonces : <<p, g>> \in scenario.asks /\ IssueChallenge(n, p, i, g)
                \/ p \in scenario.approvers /\ Approve(p, i, g)
    \/ \E s \in signed : TakeTransition(s.statement)
    \/ \E n \in Nonce, commit \in now..scenario.until :
          \/ challenges[n] # None /\ \E presented \in SUBSET approvals : Execute(n, presented, commit)
          \/ challenges[n] # None /\ Retry(n, commit)

Spec == Init /\ [][Next]_vars

-----------------------------------------------------------------------------
Accepted == {receipts[o] : o \in OperationId} \ {None}

\* Whatever was delegated to whom, a grant has been charged exactly the cost of
\* the accepted operations it stands behind, each once however often it was
\* retried, and never more than its limit (authorizeAndCharge over the chain).
Charges(g) == {r \in Accepted : g \in Chain(grants, r.grant_id)}
SpentOnce ==
    \A g \in GrantId : grants[g] # None =>
        /\ grants[g].used = SumFunctionOnSet([r \in Accepted |-> r.intent.cost], Charges(g))
        /\ grants[g].used <= grants[g].grant.limit

\* Every accepted operation had, at the moment it was committed, the live
\* approval of the very plan that was executed by enough of the people each
\* grant behind it asks for; an approval of an earlier plan did not count.
ApprovedAsExecuted ==
    \A r \in Accepted : \A c \in Chain(grants, r.grant_id) :
        LET g == grants[c].grant
            given == {a.person : a \in {x \in approvals :
                         /\ x.grant_id = c /\ x.plan = r.plan
                         /\ x.expires_at > r.committed_at}}
        IN  g.approval # None =>
               /\ Cardinality(given \cap g.approval.people) >= g.approval.threshold
               /\ g.approval.exclude_actor =>
                     Cardinality((given \cap g.approval.people) \ {r.actor}) >= g.approval.threshold

\* No operation was committed within the reserve of the end of any grant behind
\* it, whatever time passed between its admission and its commit (finish,
\* beforeCommit and the deferred deadline trigger).
CommittedInTime ==
    \A r \in Accepted : \A c \in Chain(grants, r.grant_id) :
        /\ grants[c].grant.not_before <= r.accepted_at
        /\ r.committed_at + Reserve < grants[c].grant.expires_at

\* At the instant it was committed, not only when it was admitted, an operation
\* was covered by approvals and by every grant behind it.
CoveredAtCommit == ApprovedAsExecuted /\ CommittedInTime

\* The outbox tells the whole story: the last event about a resource names its
\* head, a record has exactly one event, an operation's events are its effects
\* once and together, and the grants' events are their issue and their revocation.
EventsOf(e) == {n \in DOMAIN outbox : outbox[n].entity = e}
OutboxExplains ==
    /\ \A r \in Resource :
          \/ EventsOf(r) = {} /\ heads[r] = None
          \/ \E n \in EventsOf(r) : outbox[n].revision = heads[r] /\ \A m \in EventsOf(r) : m <= n
    /\ \A r \in RecordId : Cardinality(EventsOf(r)) = IF r \in records THEN 1 ELSE 0
    /\ \A o \in OperationId :
          LET es == IF receipts[o] = None THEN <<>> ELSE Effects(receipts[o].intent)
          IN  \E n \in 0..Len(outbox) :
                 /\ SubSeq(outbox, n + 1, n + Len(es)) = es
                 /\ {m \in DOMAIN outbox : outbox[m].revision = o} = (n + 1)..(n + Len(es))
    /\ \A g \in GrantId :
          Cardinality(EventsOf(g)) = IF grants[g] = None THEN 0 ELSE IF grants[g].revoked THEN 2 ELSE 1

\* Each head of the governance log was consented to, over exactly the history it
\* extends, by a quorum of the controllers it replaced and by everyone it added:
\* a consent collected for one head never carries a change to another.
GovernedByConsent ==
    \A n \in 2..Len(log) :
        LET before == log[n - 1]
            gave == {s.person : s \in {x \in signed :
                        x.statement.expected = SubSeq(log, 1, n - 1)
                        /\ x.statement.governance = log[n]}}
        IN  /\ Cardinality(gave \cap before.controllers) >= before.threshold
            /\ log[n].controllers \ before.controllers \subseteq gave

\* Once a grant is revoked, nothing more is ever charged to it or to a grant
\* delegated under it: the whole chain must stand.
RevocationBinds ==
    [][\A g \in GrantId :
          (grants[g] # None /\ \E c \in Chain(grants, g) : grants[c].revoked)
             => grants'[g].used = grants[g].used]_vars
=============================================================================
