------------------------- MODULE FoundationStoreProofs -------------------------
(***************************************************************************)
(* Theorems about FoundationStore, for every set of people, grants,         *)
(* resources and operations and every scenario: what a revocation stops,    *)
(* what a budget was spent on, what covered an operation when it was        *)
(* committed, who consented to a change of controllers, and what a reader   *)
(* of the outbox alone knows. And about FoundationFeed: what a view of the  *)
(* outbox, and an application behind the view, know of it.                  *)
(***************************************************************************)
EXTENDS FoundationFeed, SumTheorems, SequenceTheorems

-----------------------------------------------------------------------------
(* The chain of a grant *)

\* Some grants that are issued, and who delegated them with them.
Issued(gs) == {g \in GrantId : gs[g] # None}
Closed(gs, some) ==
  \A g \in some : gs[g].grant.parent_id # None => gs[g].grant.parent_id \in some

\* A grant was delegated from an issued one that may delegate further (issueGrant).
Delegated(gs) ==
  \A g \in Issued(gs) :
    LET parent == gs[g].grant.parent_id
    IN  parent # None =>
          /\ parent \in Issued(gs)
          /\ gs[g].grant.delegation_depth < gs[parent].grant.delegation_depth

GrantsType(gs) == gs \in [GrantId -> GrantEntry \cup {None}]

\* A charge changes what was used, and nothing else.
LEMMA ChargedEntry ==
  ASSUME NEW e \in GrantEntry, NEW cost \in Nat
  PROVE  /\ [e EXCEPT !.used = @ + cost] \in GrantEntry
         /\ [e EXCEPT !.used = @ + cost].revoked = e.revoked
PROOF
  BY DEF GrantEntry

\* Facts about the entry of an issued grant that the proofs keep using.
LEMMA EntryType ==
  ASSUME NEW gs, GrantsType(gs), NEW g \in Issued(gs)
  PROVE  /\ g \in GrantId /\ g # None
         /\ gs[g] \in GrantEntry /\ gs[g].used \in Nat
         /\ gs[g].grant \in CapabilityGrant
         /\ gs[g].grant.parent_id \in GrantId \cup {None}
         /\ gs[g].grant.delegation_depth \in 0..4
         /\ gs[g].grant.limit \in Nat
         /\ gs[g].grant.approval \in ApprovalRule \cup {None}
PROOF
  <1>1. gs[g] \in GrantEntry
    BY DEF Issued, GrantsType
  <1>2. gs[g].grant \in CapabilityGrant /\ gs[g].used \in Nat
    BY <1>1 DEF GrantEntry
  <1> QED
    BY <1>1, <1>2, AuthorityAssumption DEF CapabilityGrant, Issued

\* A step up from issued grants: what is new lies deeper, so that four steps
\* reach the root of a chain that starts anywhere.
Reached(gs, before, after, n) ==
  \A g \in after \ {None} : g \in Issued(gs) /\ (g \in before \/ gs[g].grant.delegation_depth >= n)
LEMMA StepUp ==
  ASSUME NEW gs, GrantsType(gs), Delegated(gs), NEW n \in Nat, NEW before, NEW some,
         Reached(gs, before, some, n),
         some = WithParents(gs, before) \/ before = {}
  PROVE  Reached(gs, some, WithParents(gs, some), n + 1)
PROOF
  <1> SUFFICES ASSUME NEW g \in WithParents(gs, some), g # None
               PROVE  g \in Issued(gs) /\ (g \in some \/ gs[g].grant.delegation_depth >= n + 1)
    BY DEF Reached
  <1>1. CASE g \in some
    BY <1>1 DEF Reached
  <1>2. CASE g \notin some
    <2>1. PICK x \in some \cap DOMAIN gs : g = gs[x].grant.parent_id
      BY <1>2 DEF WithParents
    <2>2. x # None
      BY <2>1, AuthorityAssumption DEF GrantsType
    <2>3. x \in Issued(gs) /\ (x \in before \/ gs[x].grant.delegation_depth >= n)
      BY <2>1, <2>2 DEF Reached
    <2>4. x \notin before
      BY <1>2, <2>1 DEF WithParents
    <2>5. g \in Issued(gs) /\ gs[x].grant.delegation_depth < gs[g].grant.delegation_depth
      BY <2>1, <2>3 DEF Delegated
    <2>6. gs[x].grant.delegation_depth \in 0..4 /\ gs[g].grant.delegation_depth \in 0..4
      BY <2>3, <2>5, EntryType
    <2> QED
      BY <2>3, <2>4, <2>5, <2>6
  <1> QED
    BY <1>1, <1>2

\* The chain of an issued grant is it, what it was delegated from, and so on up
\* to a root: the loop of the code never stops short.
LEMMA ChainClosed ==
  ASSUME NEW gs, GrantsType(gs), Delegated(gs), NEW leaf \in Issued(gs)
  PROVE  /\ leaf \in Chain(gs, leaf)
         /\ Chain(gs, leaf) \subseteq Issued(gs)
         /\ Closed(gs, Chain(gs, leaf))
PROOF
  <1> DEFINE U0 == {leaf}
             U1 == WithParents(gs, U0)
             U2 == WithParents(gs, U1)
             U3 == WithParents(gs, U2)
             U4 == WithParents(gs, U3)
  <1>1. Chain(gs, leaf) = U4 \ {None}
    BY DEF Chain
  <1>2. Reached(gs, {}, U0, 0)
    BY EntryType DEF Reached
  <1> HIDE DEF U0
  <1>3. Reached(gs, U0, U1, 1)
    BY <1>2, StepUp
  <1> HIDE DEF U1
  <1>4. Reached(gs, U1, U2, 2)
    BY <1>3, StepUp, 1 + 1 = 2 DEF U1
  <1> HIDE DEF U2
  <1>5. Reached(gs, U2, U3, 3)
    BY <1>4, StepUp, 2 + 1 = 3 DEF U2
  <1> HIDE DEF U3
  <1>6. Reached(gs, U3, U4, 4)
    BY <1>5, StepUp, 3 + 1 = 4 DEF U3
  <1>7. leaf \in U4
    BY DEF U0, U1, U2, U3, WithParents
  <1>8. ASSUME NEW g \in U4 \ {None}, gs[g].grant.parent_id # None
        PROVE  gs[g].grant.parent_id \in U4 \ {None}
    <2> DEFINE parent == gs[g].grant.parent_id
    <2>1. g \in Issued(gs) /\ (g \in U3 \/ gs[g].grant.delegation_depth >= 4)
      BY <1>6 DEF Reached
    <2>2. parent \in Issued(gs) /\ gs[g].grant.delegation_depth < gs[parent].grant.delegation_depth
      BY <1>8, <2>1 DEF Delegated
    <2>3. gs[g].grant.delegation_depth \in 0..4 /\ gs[parent].grant.delegation_depth \in 0..4
      BY <2>1, <2>2, EntryType
    <2>4. g \in U3 /\ g \in DOMAIN gs
      BY <2>1, <2>2, <2>3 DEF GrantsType, Issued
    <2> QED
      BY <1>8, <2>4 DEF WithParents
  <1>9. leaf # None
    BY EntryType
  <1> HIDE DEF U4
  <1> QED
    BY <1>1, <1>6, <1>7, <1>8, <1>9 DEF Reached, Closed

\* It is no more than that.
LEMMA ChainLeast ==
  ASSUME NEW gs, GrantsType(gs), NEW leaf, NEW some,
         leaf \in some, some \subseteq Issued(gs), Closed(gs, some)
  PROVE  Chain(gs, leaf) \subseteq some
PROOF
  <1>1. ASSUME NEW X, X \subseteq some \cup {None}
        PROVE  WithParents(gs, X) \subseteq some \cup {None}
    <2>1. \A g \in X \cap DOMAIN gs : gs[g].grant.parent_id \in some \cup {None}
      BY <1>1, AuthorityAssumption DEF Closed, GrantsType
    <2> QED
      BY <1>1, <2>1 DEF WithParents
  <1> DEFINE U1 == WithParents(gs, {leaf})
             U2 == WithParents(gs, U1)
             U3 == WithParents(gs, U2)
             U4 == WithParents(gs, U3)
  <1>2. Chain(gs, leaf) = U4 \ {None}
    BY DEF Chain
  <1>3. U1 \subseteq some \cup {None}
    BY <1>1, {leaf} \subseteq some \cup {None}
  <1> HIDE DEF U1
  <1>4. U2 \subseteq some \cup {None}
    BY <1>1, <1>3
  <1> HIDE DEF U2
  <1>5. U3 \subseteq some \cup {None}
    BY <1>1, <1>4
  <1> HIDE DEF U3
  <1>6. U4 \subseteq some \cup {None}
    BY <1>1, <1>5
  <1> HIDE DEF U4
  <1> QED
    BY <1>2, <1>6

\* The chain of a grant behind another lies within the other's.
LEMMA ChainNests ==
  ASSUME NEW gs, GrantsType(gs), Delegated(gs), NEW leaf \in Issued(gs), NEW g \in Chain(gs, leaf)
  PROVE  Chain(gs, g) \subseteq Chain(gs, leaf)
  BY ChainClosed, ChainLeast

\* Grants that stay what they are keep their chain, whatever is charged, revoked or issued.
Keeps(gs, hs) == \A g \in Issued(gs) : g \in Issued(hs) /\ hs[g].grant = gs[g].grant
LEMMA ChainKept ==
  ASSUME NEW gs, NEW hs, GrantsType(gs), GrantsType(hs), Delegated(gs), Delegated(hs),
         Keeps(gs, hs), NEW leaf \in Issued(gs)
  PROVE  Chain(hs, leaf) = Chain(gs, leaf)
PROOF
  <1>1. leaf \in Chain(gs, leaf) /\ Chain(gs, leaf) \subseteq Issued(gs) /\ Closed(gs, Chain(gs, leaf))
    BY ChainClosed
  <1>2. Closed(hs, Chain(gs, leaf)) /\ Chain(gs, leaf) \subseteq Issued(hs)
    BY <1>1 DEF Closed, Keeps
  <1>3. Chain(hs, leaf) \subseteq Chain(gs, leaf)
    BY <1>1, <1>2, ChainLeast
  <1>4. leaf \in Chain(hs, leaf) /\ Closed(hs, Chain(hs, leaf))
    BY <1>1, <1>2, ChainClosed
  <1>5. Chain(hs, leaf) \subseteq Issued(gs) /\ Closed(gs, Chain(hs, leaf))
    BY <1>1, <1>3, <1>4 DEF Closed, Keeps
  <1>6. Chain(gs, leaf) \subseteq Chain(hs, leaf)
    BY <1>4, <1>5, ChainLeast
  <1> QED
    BY <1>3, <1>6

-----------------------------------------------------------------------------
(* The types, and what a receipt refers to *)

\* Who signed what, and who approved what.
Consent == [person: Person, statement: [expected: Seq(Governance), governance: Governance, expires_at: Nat]]
Approval == [person: Person, intent: OperationIntent, plan: Plan, grant_id: GrantId, expires_at: Nat]

TypeOK ==
  /\ scenario \in Scenarios
  /\ now \in Nat
  /\ log \in Seq(Governance)
  /\ signed \subseteq Consent
  /\ GrantsType(grants)
  /\ approvals \subseteq Approval
  /\ challenges \in [Nonce -> PersonChallenge \cup {None}]
  /\ receipts \in [OperationId -> BusinessReceipt \cup {None}]
  /\ heads \in [Resource -> OperationId \cup {Imported, None}]

\* A grant is kept under its own name, and delegated from a deeper one.
GrantsStand ==
  /\ Delegated(grants)
  /\ \A g \in Issued(grants) : grants[g].grant.id = g

\* A receipt is kept under its operation and for an issued grant.
ReceiptsStand ==
  \A r \in Accepted :
    /\ r \in BusinessReceipt
    /\ receipts[r.intent.operation_id] = r
    /\ r.grant_id \in Issued(grants)

Standing == TypeOK /\ GrantsStand /\ ReceiptsStand /\ IsFiniteSet(Accepted)

LEMMA PlanType ==
  ASSUME heads \in [Resource -> OperationId \cup {Imported, None}], NEW i \in OperationIntent
  PROVE  PlanOf(i) \in Plan
PROOF
  <1>1. i.resources \in SUBSET Resource
    BY DEF OperationIntent
  <1>2. [r \in i.resources |-> heads[r]] \in [i.resources -> OperationId \cup {Imported, None}]
    BY <1>1
  <1>3. [r \in i.resources |-> heads[r]] \in UNION {[R -> OperationId \cup {Imported, None}] : R \in SUBSET Resource}
    BY <1>1, <1>2
  <1> QED
    BY <1>3 DEF PlanOf, Plan

LEMMA StandingInit == Init => Standing
PROOF
  <1> SUFFICES ASSUME Init PROVE Standing
    OBVIOUS
  <1> USE DEF Init, StoreInit, ChallengeInit
  <1>1. TypeOK
    BY DEF TypeOK, GrantsType
  <1>2. Issued(grants) = {}
    BY DEF Issued
  <1>3. Accepted = {}
    BY DEF Accepted
  <1> QED
    BY <1>1, <1>2, <1>3, FS_EmptySet DEF Standing, GrantsStand, Delegated, ReceiptsStand

\* Steps that leave the grants and the receipts alone.
LEMMA StandingQuiet ==
  ASSUME Standing, TypeOK', UNCHANGED <<grants, receipts>>
  PROVE  Standing'
  BY DEF Standing, GrantsStand, ReceiptsStand, Accepted

\* What an execution of the challenged intent adds.
NewReceipt(n, commit) ==
  [intent |-> challenges[n].intent, plan |-> PlanOf(challenges[n].intent), actor |-> challenges[n].person,
   grant_id |-> challenges[n].grant_id, accepted_at |-> now, committed_at |-> commit]

LEMMA ExecuteAccepts ==
  ASSUME Standing, NEW n \in Nonce, NEW commit \in now..scenario.until, NEW presented \in SUBSET approvals,
         Execute(n, presented, commit)
  PROVE  LET c == challenges[n] r == NewReceipt(n, commit)
         IN  /\ c \in PersonChallenge /\ c.grant_id \in Issued(grants)
             /\ commit \in Nat
             /\ r \in BusinessReceipt /\ r \notin Accepted
             /\ receipts' = [receipts EXCEPT ![r.intent.operation_id] = r]
             /\ Accepted' = Accepted \cup {r}
PROOF
  <1> DEFINE c == challenges[n]
             r == NewReceipt(n, commit)
             o == c.intent.operation_id
  <1>1. c \in PersonChallenge
    BY DEF Execute, Authentic, Standing, TypeOK
  <1>2. c.grant_id \in Issued(grants)
    BY <1>1 DEF Execute, Authorized, Active, Issued, PersonChallenge
  <1>3. scenario.until \in Nat /\ commit \in Nat
    BY ScenarioAssumption, StoreAssumption DEF Standing, TypeOK
  <1>4. c.intent \in OperationIntent /\ o \in OperationId
    BY <1>1 DEF PersonChallenge, OperationIntent
  <1>5. PlanOf(c.intent) \in Plan
    BY <1>4, PlanType DEF Standing, TypeOK
  <1>6. r \in BusinessReceipt
    BY <1>1, <1>3, <1>4, <1>5 DEF NewReceipt, BusinessReceipt, PersonChallenge, Standing, TypeOK
  <1>7. receipts' = [receipts EXCEPT ![o] = r] /\ receipts[o] = None
    BY DEF Execute, NewReceipt
  <1>8. r.intent.operation_id = o
    BY DEF NewReceipt
  <1>9. r # None
    BY <1>6, StoreAssumption
  <1>10. r \notin Accepted
    BY <1>7, <1>8, <1>9 DEF Standing, ReceiptsStand
  <1>11. Accepted' = Accepted \cup {r}
    BY <1>4, <1>7, <1>9 DEF Accepted, Standing, TypeOK
  <1> QED
    BY <1>1, <1>2, <1>3, <1>6, <1>7, <1>8, <1>10, <1>11

LEMMA TypeNext ==
  ASSUME Standing, [Next]_vars
  PROVE  TypeOK'
PROOF
  <1> USE DEF Standing, TypeOK, GrantsType
  <1>0. scenario.until \in Nat /\ scenario.genesis \in Governance
        /\ scenario.offers \subseteq CapabilityGrant /\ scenario.intents \subseteq OperationIntent
        /\ scenario.nonces \subseteq Nonce
        /\ \A p \in scenario.proposals : p.governance \in Governance /\ p.expires_at \in Nat
    BY ScenarioAssumption, StoreAssumption
  <1>1. CASE Tick
    BY <1>1 DEF Tick
  <1>2. ASSUME NEW C \in SUBSET Person, Bootstrap(C) PROVE TypeOK'
    BY <1>0, <1>2 DEF Bootstrap
  <1>3. ASSUME NEW C \in SUBSET Person, NEW g \in scenario.offers, Grant(g, C) PROVE TypeOK'
    <2>1. [grant |-> g, revoked |-> FALSE, used |-> 0] \in GrantEntry
      BY <1>0, <1>3 DEF GrantEntry
    <2> QED
      BY <1>3, <2>1 DEF Grant
  <1>4. ASSUME NEW C \in SUBSET Person, NEW g \in GrantId, Revoke(g, C) PROVE TypeOK'
    <2>1. grants[g] \in GrantEntry
      BY <1>4 DEF Revoke, MayRevoke
    <2>2. [grants[g] EXCEPT !.revoked = TRUE] \in GrantEntry
      BY <2>1 DEF GrantEntry
    <2> QED
      BY <1>4, <2>2 DEF Revoke
  <1>5. ASSUME NEW C \in SUBSET Person, NEW e \in scenario.imports, Import(e, C) PROVE TypeOK'
    BY <1>5 DEF Import
  <1>6. ASSUME NEW p \in Person, NEW t \in scenario.proposals, SignTransition(p, t) PROVE TypeOK'
    <2>1. [person |-> p, statement |-> [expected |-> log, governance |-> t.governance, expires_at |-> t.expires_at]] \in Consent
      BY <1>0 DEF Consent
    <2> QED
      BY <1>6, <2>1 DEF SignTransition
  <1>7. ASSUME NEW p \in Person, NEW i \in scenario.intents, NEW g \in GrantId, NEW n \in Nonce,
               IssueChallenge(n, p, i, g)
        PROVE  TypeOK'
    <2>1. [person |-> p, intent |-> i, grant_id |-> g, expires_at |-> now + ChallengeLife, consumed |-> FALSE]
             \in PersonChallenge
      BY <1>0, StoreAssumption DEF PersonChallenge
    <2> QED
      BY <1>7, <2>1 DEF IssueChallenge
  <1>8. ASSUME NEW p \in Person, NEW i \in scenario.intents, NEW g \in GrantId, Approve(p, i, g) PROVE TypeOK'
    <2>1. PlanOf(i) \in Plan
      BY <1>0, PlanType
    <2>2. [person |-> p, intent |-> i, plan |-> PlanOf(i), grant_id |-> g, expires_at |-> now + ApprovalLife]
             \in Approval
      BY <1>0, <2>1, StoreAssumption DEF Approval
    <2> QED
      BY <1>8, <2>2 DEF Approve
  <1>9. ASSUME NEW s \in signed, TakeTransition(s.statement) PROVE TypeOK'
    <2>1. s.statement.governance \in Governance
      BY DEF Consent
    <2> QED
      BY <1>9, <2>1 DEF TakeTransition
  <1>10. ASSUME NEW n \in Nonce, NEW commit \in now..scenario.until, NEW presented \in SUBSET approvals,
                Execute(n, presented, commit)
         PROVE  TypeOK'
    <2> DEFINE c == challenges[n]
               r == NewReceipt(n, commit)
    <2>1. c \in PersonChallenge /\ commit \in Nat /\ r \in BusinessReceipt
          /\ receipts' = [receipts EXCEPT ![r.intent.operation_id] = r]
      BY <1>10, ExecuteAccepts
    <2>2. c.intent \in OperationIntent /\ c.intent.operation_id \in OperationId /\ c.intent.cost \in Nat
      BY <2>1 DEF PersonChallenge, OperationIntent
    <2>3. challenges' \in [Nonce -> PersonChallenge \cup {None}]
      <3>1. [c EXCEPT !.consumed = TRUE] \in PersonChallenge
        BY <2>1 DEF PersonChallenge
      <3> QED
        BY <1>10, <3>1 DEF Execute, Consume
    <2>4. \A g \in GrantId : grants'[g] \in GrantEntry \cup {None}
      <3> SUFFICES ASSUME NEW g \in Chain(grants, c.grant_id), g \in GrantId
                   PROVE  [grants[g] EXCEPT !.used = @ + c.intent.cost] \in GrantEntry
        BY <1>10 DEF Execute, Charged
      <3>1. grants[g] \in GrantEntry
        BY <1>10, <2>1, ExecuteAccepts, ChainClosed, EntryType DEF GrantsStand
      <3> QED
        BY <2>2, <3>1, ChargedEntry
    <2>5. grants' \in [GrantId -> GrantEntry \cup {None}]
      BY <1>10, <2>4 DEF Execute, Charged
    <2>6. heads' \in [Resource -> OperationId \cup {Imported, None}]
      BY <1>10, <2>2 DEF Execute
    <2> QED
      BY ZenonT(60), <1>10, <2>1, <2>3, <2>5, <2>6 DEF Execute
  <1>11. ASSUME NEW n \in Nonce, NEW commit \in now..scenario.until, challenges[n] # None, Retry(n, commit)
         PROVE  TypeOK'
    <2>1. challenges[n] \in PersonChallenge
      BY <1>11
    <2>2. [challenges[n] EXCEPT !.consumed = TRUE] \in PersonChallenge
      BY <2>1 DEF PersonChallenge
    <2> QED
      BY <1>0, <1>11, <2>2 DEF Retry, Consume
  <1>12. CASE UNCHANGED vars
    BY <1>12 DEF vars
  <1> QED
    BY <1>0, <1>1, <1>2, <1>3, <1>4, <1>5, <1>6, <1>7, <1>8, <1>9, <1>10, <1>11, <1>12 DEF Next

\* No step takes a grant back or changes what it says: issuing adds one, revoking
\* and charging leave it what it was.
LEMMA GrantsKept ==
  ASSUME Standing, [Next]_vars
  PROVE  GrantsStand' /\ Keeps(grants, grants')
PROOF
  <1> USE DEF Standing, TypeOK
  <1>1. TypeOK'
    BY TypeNext
  <1>2. CASE UNCHANGED grants
    BY <1>2 DEF Keeps, GrantsStand
  <1>3. ASSUME NEW C \in SUBSET Person, NEW g \in scenario.offers, Grant(g, C)
        PROVE  GrantsStand' /\ Keeps(grants, grants')
    <2>1. g \in CapabilityGrant /\ g.id \in GrantId
      BY ScenarioAssumption DEF CapabilityGrant
    <2>2. grants[g.id] = None /\ grants' = [grants EXCEPT ![g.id] = [grant |-> g, revoked |-> FALSE, used |-> 0]]
      BY <1>3 DEF Grant, MayIssue
    <2>3. [grant |-> g, revoked |-> FALSE, used |-> 0] \in GrantEntry
      BY <2>1 DEF GrantEntry
    <2>4. Issued(grants') = Issued(grants) \cup {g.id} /\ g.id \notin Issued(grants)
      BY <2>1, <2>2, <2>3, StoreAssumption DEF Issued, GrantsType
    <2>5. Keeps(grants, grants')
      BY <2>1, <2>2, <2>4 DEF Keeps, GrantsType, Issued
    <2>6. g.parent_id # None => g.parent_id \in Issued(grants) /\ g.delegation_depth < grants[g.parent_id].grant.delegation_depth
      BY <1>3, <2>1 DEF Grant, MayIssue, Active, Issued, CapabilityGrant
    <2>7. grants'[g.id].grant = g
      BY <2>1, <2>2 DEF GrantsType
    <2>8. Delegated(grants')
      BY <2>4, <2>5, <2>6, <2>7 DEF Delegated, Keeps, GrantsStand
    <2> QED
      BY <2>4, <2>5, <2>7, <2>8 DEF GrantsStand, Keeps
  <1>4. ASSUME Issued(grants') = Issued(grants), \A g \in Issued(grants) : grants'[g].grant = grants[g].grant
        PROVE  GrantsStand' /\ Keeps(grants, grants')
    BY <1>4 DEF GrantsStand, Keeps, Delegated
  <1>5. ASSUME NEW C \in SUBSET Person, NEW g \in GrantId, Revoke(g, C)
        PROVE  GrantsStand' /\ Keeps(grants, grants')
    <2>1. grants[g] \in GrantEntry /\ grants' = [grants EXCEPT ![g].revoked = TRUE]
      BY <1>5 DEF Revoke, MayRevoke, GrantsType
    <2>2. \A x \in GrantId : (grants'[x] # None <=> grants[x] # None)
                             /\ (grants[x] # None => grants'[x].grant = grants[x].grant)
      <3>1. grants'[g] = [grants[g] EXCEPT !.revoked = TRUE]
        BY <2>1 DEF GrantsType
      <3>2. grants'[g] \in GrantEntry /\ grants'[g].grant = grants[g].grant
        BY <2>1, <3>1 DEF GrantEntry
      <3>3. \A x \in GrantId : x # g => grants'[x] = grants[x]
        BY <2>1 DEF GrantsType
      <3> QED
        BY <2>1, <3>2, <3>3, StoreAssumption
    <2> QED
      BY <1>4, <2>2 DEF Issued
  <1>6. ASSUME NEW n \in Nonce, NEW commit \in now..scenario.until, NEW presented \in SUBSET approvals,
               Execute(n, presented, commit)
        PROVE  GrantsStand' /\ Keeps(grants, grants')
    <2> DEFINE chain == Chain(grants, challenges[n].grant_id)
    <2>1. chain \subseteq Issued(grants)
      BY <1>6, ExecuteAccepts, ChainClosed DEF GrantsStand
    <2>2. \A x \in GrantId : grants'[x] = IF x \in chain THEN [grants[x] EXCEPT !.used = @ + challenges[n].intent.cost]
                                          ELSE grants[x]
      BY <1>6 DEF Execute, Charged, GrantsType
    <2>3. \A x \in chain : grants'[x] # None /\ grants'[x].grant = grants[x].grant
      <3> SUFFICES ASSUME NEW x \in chain PROVE grants'[x] # None /\ grants'[x].grant = grants[x].grant
        OBVIOUS
      <3>1. grants[x] \in GrantEntry /\ x \in GrantId
        BY <2>1, EntryType
      <3>2. grants'[x] = [grants[x] EXCEPT !.used = @ + challenges[n].intent.cost]
        BY <2>2, <3>1
      <3>3. challenges[n].intent.cost \in Nat
        BY <1>6, ExecuteAccepts DEF PersonChallenge, OperationIntent
      <3>4. grants'[x] \in GrantEntry
        BY <3>1, <3>2, <3>3 DEF GrantEntry
      <3> QED
        BY <3>1, <3>2, <3>4, StoreAssumption DEF GrantEntry
    <2>4. Issued(grants') = Issued(grants)
      BY <2>1, <2>2, <2>3 DEF Issued
    <2> QED
      BY <1>4, <2>2, <2>3, <2>4 DEF Issued
  <1>7. \/ UNCHANGED grants
        \/ \E C \in SUBSET Person : \/ \E g \in scenario.offers : Grant(g, C)
                                    \/ \E g \in GrantId : Revoke(g, C)
        \/ \E n \in Nonce, commit \in now..scenario.until : \E presented \in SUBSET approvals : Execute(n, presented, commit)
    BY DEF Next, vars, Tick, Bootstrap, Import, SignTransition, IssueChallenge, Approve, TakeTransition, Retry
  <1> QED
    BY <1>2, <1>3, <1>5, <1>6, <1>7

\* Only an execution accepts: whatever else happens, the receipts stay.
LEMMA StandingNext ==
  ASSUME Standing, [Next]_vars
  PROVE  Standing'
PROOF
  <1>1. TypeOK' /\ GrantsStand' /\ Keeps(grants, grants')
    BY TypeNext, GrantsKept
  <1>2. CASE UNCHANGED receipts
    <2>1. Accepted' = Accepted
      BY <1>2 DEF Accepted
    <2> QED
      BY <1>1, <1>2, <2>1 DEF Standing, ReceiptsStand, Keeps
  <1>3. ASSUME NEW n \in Nonce, NEW commit \in now..scenario.until, NEW presented \in SUBSET approvals,
               Execute(n, presented, commit)
        PROVE  Standing'
    <2> DEFINE new == NewReceipt(n, commit)
    <2>1. /\ new \in BusinessReceipt /\ new \notin Accepted /\ Accepted' = Accepted \cup {new}
          /\ receipts' = [receipts EXCEPT ![new.intent.operation_id] = new]
          /\ challenges[n].grant_id \in Issued(grants)
      BY <1>3, ExecuteAccepts
    <2>2. new.grant_id = challenges[n].grant_id
      BY DEF NewReceipt
    <2>3. new.intent.operation_id \in OperationId
      BY <2>1 DEF BusinessReceipt, OperationIntent
    <2> HIDE DEF new
    <2>4. receipts[new.intent.operation_id] = None
      BY <1>3 DEF Execute, NewReceipt, new
    <2>5. None \notin Accepted
      BY DEF Accepted
    <2>6. \A r \in Accepted : receipts'[r.intent.operation_id] = r
      <3> SUFFICES ASSUME NEW r \in Accepted PROVE receipts'[r.intent.operation_id] = r
        OBVIOUS
      <3>1. r \in BusinessReceipt /\ receipts[r.intent.operation_id] = r
        BY DEF Standing, ReceiptsStand
      <3>2. r.intent.operation_id \in OperationId
        BY <3>1 DEF BusinessReceipt, OperationIntent
      <3> QED
        BY <2>1, <2>4, <2>5, <3>1, <3>2 DEF Standing, TypeOK
    <2>7. receipts'[new.intent.operation_id] = new
      BY <2>1, <2>3 DEF Standing, TypeOK
    <2>8. ReceiptsStand'
      BY <1>1, <2>1, <2>2, <2>6, <2>7 DEF Standing, ReceiptsStand, Keeps
    <2>9. IsFiniteSet(Accepted')
      BY <2>1, FS_AddElement DEF Standing
    <2> QED
      BY <1>1, <2>8, <2>9 DEF Standing
  <1>4. \/ UNCHANGED receipts
        \/ \E n \in Nonce, commit \in now..scenario.until : \E presented \in SUBSET approvals : Execute(n, presented, commit)
    BY DEF Next, vars, Tick, Bootstrap, Grant, Revoke, Import, SignTransition, IssueChallenge, Approve, TakeTransition, Retry
  <1> QED
    BY <1>2, <1>3, <1>4

\* Every state of the store has its types: heads, grants, challenges and receipts hold
\* what their tables are declared for (persistence.ts, authority.ts).
THEOREM TypeCorrect == Spec => []TypeOK
PROOF
  <1>1. Standing => TypeOK
    BY DEF Standing
  <1> QED
    BY <1>1, StandingInit, StandingNext, PTL DEF Spec

\* Delegation stands at all times: every grant behind a grant was issued and lies
\* strictly deeper, so that the five steps of the chain reach its root (issueGrant).
THEOREM DelegationStands == Spec => []GrantsStand
PROOF
  <1>1. Standing => GrantsStand
    BY DEF Standing
  <1> QED
    BY <1>1, StandingInit, StandingNext, PTL DEF Spec

-----------------------------------------------------------------------------
(* Revocation *)

\* What a step charges: nothing, or the cost of one operation to the whole chain.
LEMMA OnlyExecutionsCharge ==
  ASSUME Standing, [Next]_vars, NEW g \in Issued(grants), grants'[g].used # grants[g].used
  PROVE  \E n \in Nonce, commit \in now..scenario.until : \E presented \in SUBSET approvals :
            Execute(n, presented, commit) /\ g \in Chain(grants, challenges[n].grant_id)
PROOF
  <1> USE DEF Standing, TypeOK, GrantsType
  <1>1. g \in GrantId /\ grants[g] \in GrantEntry
    BY EntryType
  <1>2. ASSUME NEW C \in SUBSET Person, NEW x \in scenario.offers, Grant(x, C) PROVE FALSE
    BY <1>1, <1>2 DEF Grant, MayIssue, Issued
  <1>3. ASSUME NEW C \in SUBSET Person, NEW x \in GrantId, Revoke(x, C) PROVE FALSE
    <2>1. grants'[g] = IF g = x THEN [grants[g] EXCEPT !.revoked = TRUE] ELSE grants[g]
      BY <1>1, <1>3 DEF Revoke
    <2>2. [grants[g] EXCEPT !.revoked = TRUE].used = grants[g].used
      BY <1>1 DEF GrantEntry
    <2> QED
      BY <2>1, <2>2
  <1>4. ASSUME NEW n \in Nonce, NEW commit \in now..scenario.until, NEW presented \in SUBSET approvals,
               Execute(n, presented, commit)
        PROVE  g \in Chain(grants, challenges[n].grant_id)
    BY <1>1, <1>4 DEF Execute, Charged
  <1>5. ~UNCHANGED grants
    OBVIOUS
  <1>6. \/ \E C \in SUBSET Person : \/ \E x \in scenario.offers : Grant(x, C)
                                    \/ \E x \in GrantId : Revoke(x, C)
        \/ \E n \in Nonce, commit \in now..scenario.until : \E presented \in SUBSET approvals : Execute(n, presented, commit)
    BY <1>5 DEF Next, vars, Tick, Bootstrap, Import, SignTransition, IssueChallenge, Approve, TakeTransition, Retry
  <1> QED
    BY <1>2, <1>3, <1>4, <1>6

\* Once a grant is revoked, nothing more is ever charged to it or to a grant delegated
\* under it, at any depth (authorizeAndCharge walks the whole chain).
THEOREM SafeRevocation == Spec => RevocationBinds
PROOF
  <1>1. ASSUME Standing, [Next]_vars, NEW g \in GrantId, grants[g] # None,
               NEW c \in Chain(grants, g), grants[c].revoked
        PROVE  grants'[g].used = grants[g].used
    <2>1. g \in Issued(grants)
      BY <1>1 DEF Issued
    <2> SUFFICES ASSUME grants'[g].used # grants[g].used PROVE FALSE
      OBVIOUS
    <2>2. PICK n \in Nonce, commit \in now..scenario.until : \E presented \in SUBSET approvals :
             Execute(n, presented, commit) /\ g \in Chain(grants, challenges[n].grant_id)
      BY <1>1, <2>1, OnlyExecutionsCharge
    <2>3. challenges[n].grant_id \in Issued(grants)
      BY <1>1, <2>2, ExecuteAccepts
    <2>4. c \in Chain(grants, challenges[n].grant_id)
      BY <1>1, <2>2, <2>3, ChainNests DEF Standing, TypeOK, GrantsStand
    <2>5. ~grants[c].revoked
      BY <2>2, <2>4 DEF Execute, Authorized, Active
    <2> QED
      BY <1>1, <2>5
  <1>2. Standing /\ [Next]_vars =>
          [\A g \in GrantId : (grants[g] # None /\ \E c \in Chain(grants, g) : grants[c].revoked)
             => grants'[g].used = grants[g].used]_vars
    BY <1>1
  <1> QED
    BY <1>2, StandingInit, StandingNext, PTL DEF Spec, RevocationBinds

-----------------------------------------------------------------------------
(* Budgets *)

Cost == [r \in Accepted |-> r.intent.cost]

\* What was accepted stays accepted, behind the same grants.
LEMMA ChargesKept ==
  ASSUME Standing, [Next]_vars, NEW g
  PROVE  {r \in Accepted : g \in Chain(grants', r.grant_id)} = Charges(g)
PROOF
  <1>1. Standing' /\ Keeps(grants, grants')
    BY StandingNext, GrantsKept
  <1>2. \A r \in Accepted : Chain(grants', r.grant_id) = Chain(grants, r.grant_id)
    BY <1>1, ChainKept DEF Standing, TypeOK, GrantsStand, ReceiptsStand
  <1> QED
    BY <1>2 DEF Charges

LEMMA ChargesType ==
  ASSUME Standing, NEW g
  PROVE  /\ IsFiniteSet(Charges(g)) /\ Charges(g) \subseteq Accepted
         /\ \A r \in Accepted : r.intent.cost \in Nat
PROOF
  <1>1. IsFiniteSet(Charges(g))
    BY FS_Subset DEF Standing, Charges
  <1>2. \A r \in Accepted : r.intent.cost \in Nat
    BY DEF Standing, ReceiptsStand, BusinessReceipt, OperationIntent
  <1> QED
    BY <1>1, <1>2 DEF Charges

LEMMA SpentInit == Init => SpentOnce
  BY DEF Init, StoreInit, SpentOnce

LEMMA SpentNext ==
  ASSUME Standing, SpentOnce, [Next]_vars
  PROVE  SpentOnce'
PROOF
  <1> SUFFICES ASSUME NEW g \in GrantId, grants'[g] # None
               PROVE  /\ grants'[g].used = SumFunctionOnSet(Cost', Charges(g)')
                      /\ grants'[g].used <= grants'[g].grant.limit
    BY DEF SpentOnce, Cost, Charges, Accepted
  <1>1. Standing' /\ Keeps(grants, grants')
    BY StandingNext, GrantsKept
  <1>2. GrantsType(grants) /\ GrantsType(grants') /\ Delegated(grants)
    BY <1>1 DEF Standing, TypeOK, GrantsStand
  <1>3. g \in Issued(grants') /\ grants'[g].grant.limit \in Nat
    BY <1>1, <1>2, EntryType DEF Issued
  <1>4. CASE g \notin Issued(grants)
    <2>1. PICK C \in SUBSET Person, x \in scenario.offers : Grant(x, C) /\ g = x.id
      <3>1. grants'[g] # grants[g]
        BY <1>3, <1>4 DEF Issued
      <3>2. ASSUME NEW C \in SUBSET Person, NEW x \in GrantId, Revoke(x, C) PROVE FALSE
        BY <1>2, <1>4, <3>1, <3>2 DEF Revoke, MayRevoke, GrantsType, Issued
      <3>3. ASSUME NEW n \in Nonce, NEW commit \in now..scenario.until, NEW presented \in SUBSET approvals,
                   Execute(n, presented, commit)
            PROVE  FALSE
        <4>1. Chain(grants, challenges[n].grant_id) \subseteq Issued(grants)
          BY <1>2, <3>3, ExecuteAccepts, ChainClosed
        <4> QED
          BY <1>2, <1>4, <3>1, <3>3, <4>1 DEF Execute, Charged, GrantsType
      <3>4. ASSUME NEW C \in SUBSET Person, NEW x \in scenario.offers, Grant(x, C) PROVE g = x.id
        BY <1>2, <3>1, <3>4 DEF Grant, GrantsType
      <3> QED
        BY <3>1, <3>2, <3>3, <3>4
          DEF Next, vars, Tick, Bootstrap, Import, SignTransition, IssueChallenge, Approve, TakeTransition, Retry
    <2>2. grants'[g].used = 0 /\ UNCHANGED receipts
      BY <1>2, <2>1 DEF Grant, GrantsType
    <2>3. Charges(g) = {}
      BY <1>2, <1>4, ChainClosed DEF Charges, Standing, ReceiptsStand
    <2>4. Accepted' = Accepted /\ Charges(g)' = {}
      BY <2>2, <2>3, ChargesKept DEF Accepted, Charges
    <2> QED
      BY <1>3, <2>2, <2>4, SumEmpty
  <1>5. CASE g \in Issued(grants)
    <2>1. /\ grants[g].used = SumFunctionOnSet(Cost, Charges(g)) /\ grants[g].used <= grants[g].grant.limit
          /\ grants'[g].grant = grants[g].grant /\ grants[g].used \in Nat
      BY <1>1, <1>2, <1>5, EntryType DEF SpentOnce, Cost, Issued, Keeps
    <2>2. ASSUME UNCHANGED receipts PROVE Cost' = Cost /\ Charges(g)' = Charges(g)
      BY <2>2, ChargesKept DEF Accepted, Cost, Charges
    <2>3. ASSUME NEW n \in Nonce, NEW commit \in now..scenario.until, NEW presented \in SUBSET approvals,
                 Execute(n, presented, commit)
          PROVE  /\ grants'[g].used = SumFunctionOnSet(Cost', Charges(g)')
                 /\ grants'[g].used <= grants'[g].grant.limit
      <3> DEFINE new == NewReceipt(n, commit)
                 leaf == challenges[n].grant_id
                 chain == Chain(grants, leaf)
      <3>1. new \notin Accepted /\ Accepted' = Accepted \cup {new} /\ leaf \in Issued(grants)
        BY <2>3, ExecuteAccepts
      <3>2. new.grant_id = leaf /\ new.intent.cost = challenges[n].intent.cost
        BY DEF NewReceipt
      <3>3. Chain(grants', leaf) = chain
        BY <1>1, <1>2, <3>1, ChainKept DEF Standing, GrantsStand
      <3> HIDE DEF new
      <3>4. Charges(g)' = Charges(g) \cup (IF g \in chain THEN {new} ELSE {})
        BY <3>1, <3>2, <3>3, ChargesKept DEF Charges
      <3>5. /\ IsFiniteSet(Charges(g)) /\ Charges(g) \subseteq Accepted
            /\ \A r \in Accepted' : r.intent.cost \in Nat
        <4>1. \A r \in Accepted' : r.intent.cost \in Nat
          BY <1>1 DEF Standing, ReceiptsStand, BusinessReceipt, OperationIntent
        <4> QED
          BY <4>1, ChargesType
      <3>6. \A r \in Charges(g) : Cost'[r] = Cost[r]
        BY <3>1, <3>5 DEF Cost
      <3>7. SumFunctionOnSet(Cost', Charges(g)) = SumFunctionOnSet(Cost, Charges(g))
        BY <3>5, <3>6, SumEqual
      <3>8. grants'[g] = IF g \in chain THEN [grants[g] EXCEPT !.used = @ + challenges[n].intent.cost] ELSE grants[g]
        BY <1>2, <2>3 DEF Execute, Charged, GrantsType
      <3>9. CASE g \in chain
        <4>1. \A r \in Charges(g) \cup {new} : Cost'[r] \in Nat
          BY <3>1, <3>5 DEF Cost
        <4>2. Cost'[new] = challenges[n].intent.cost
          BY <3>1, <3>2 DEF Cost
        <4>3. SumFunctionOnSet(Cost', Charges(g)') = grants[g].used + challenges[n].intent.cost
          <5>1. new \notin Charges(g)
            BY <3>1, <3>5
          <5>2. SumFunctionOnSet(Cost', Charges(g) \cup {new}) = SumFunctionOnSet(Cost', Charges(g)) + Cost'[new]
            BY <3>5, <4>1, <5>1, SumAdd
          <5> QED
            BY <2>1, <3>4, <3>7, <3>9, <4>2, <5>2
        <4>4. grants[g] \in GrantEntry
          BY <1>2, <1>5, EntryType
        <4>5. grants'[g].used = grants[g].used + challenges[n].intent.cost
          BY <3>8, <3>9, <4>4 DEF GrantEntry
        <4>6. grants[g].used + challenges[n].intent.cost <= grants[g].grant.limit
          BY <2>3, <3>9 DEF Execute, Authorized
        <4> QED
          BY <2>1, <4>3, <4>5, <4>6
      <3>10. CASE g \notin chain
        BY <2>1, <3>4, <3>7, <3>8, <3>10
      <3> QED
        BY <3>9, <3>10
    <2>4. CASE \E n \in Nonce, commit \in now..scenario.until : \E presented \in SUBSET approvals :
                  Execute(n, presented, commit)
      BY <2>3, <2>4
    <2>5. CASE UNCHANGED receipts /\ ~\E n \in Nonce, commit \in now..scenario.until : \E presented \in SUBSET approvals :
                  Execute(n, presented, commit)
      <3>1. grants'[g].used = grants[g].used
        BY <1>5, <2>5, OnlyExecutionsCharge
      <3> QED
        BY <2>1, <2>2, <2>5, <3>1
    <2>6. \/ UNCHANGED receipts
          \/ \E n \in Nonce, commit \in now..scenario.until : \E presented \in SUBSET approvals : Execute(n, presented, commit)
      BY DEF Next, vars, Tick, Bootstrap, Grant, Revoke, Import, SignTransition, IssueChallenge, Approve, TakeTransition, Retry
    <2> QED
      BY <2>4, <2>5, <2>6
  <1> QED
    BY <1>4, <1>5

\* However it was delegated and however often an operation was retried, a grant has been
\* charged the sum of what was accepted under it or below it, once each, and never more
\* than its limit (authorizeAndCharge).
THEOREM SafeBudgets == Spec => []SpentOnce
PROOF
  <1>1. Standing /\ SpentOnce /\ [Next]_vars => SpentOnce'
    BY SpentNext
  <1> QED
    BY <1>1, SpentInit, StandingInit, StandingNext, PTL DEF Spec

-----------------------------------------------------------------------------
(* Coverage at the commit *)

\* Who approved what a receipt accepted, for one grant behind it, alive at its commit.
Gave(r, c) ==
  {a.person : a \in {x \in approvals : x.grant_id = c /\ x.plan = r.plan /\ x.expires_at > r.committed_at}}

LEMMA RuleType ==
  ASSUME NEW rule \in ApprovalRule
  PROVE  rule.threshold \in Nat /\ rule.people \subseteq Person /\ IsFiniteSet(rule.people)
         /\ Cardinality(Person) \in Nat
PROOF
  <1>1. Cardinality(Person) \in Nat
    BY FS_CardinalityType, AuthorityAssumption
  <1>2. rule.people \subseteq Person /\ rule.threshold \in 1..Cardinality(Person)
    BY DEF ApprovalRule
  <1> QED
    BY <1>1, <1>2, FS_Subset, AuthorityAssumption

\* Approvals that count are as many people: no two of those presented are one person's.
LEMMA CountedPeople ==
  ASSUME NEW counted, NEW people, IsFiniteSet(people),
         \A a \in counted : a.person \in people,
         \A a, b \in counted : a.person = b.person => a = b
  PROVE  Cardinality(counted) \in Nat /\ Cardinality(people) \in Nat
         /\ Cardinality(counted) <= Cardinality(people)
PROOF
  <1> DEFINE f == [a \in counted |-> a.person]
  <1>1. f \in [counted -> people] /\ \A a, b \in counted : f[a] = f[b] => a = b
    OBVIOUS
  <1> HIDE DEF f
  <1>2. f \in Injection(counted, people)
    BY <1>1 DEF Injection, IsInjective
  <1> QED
    BY <1>2, FS_Injection, FS_CardinalityType

\* A receipt that is covered: in time, and approved by enough people.
Covered(r) ==
  \A c \in Chain(grants, r.grant_id) :
    LET g == grants[c].grant
    IN  /\ g.not_before <= r.accepted_at
        /\ r.committed_at + Reserve < g.expires_at
        /\ g.approval # None =>
             /\ Cardinality(Gave(r, c) \cap g.approval.people) >= g.approval.threshold
             /\ g.approval.exclude_actor =>
                  Cardinality((Gave(r, c) \cap g.approval.people) \ {r.actor}) >= g.approval.threshold

LEMMA CoveredParts == CoveredAtCommit <=> \A r \in Accepted : Covered(r)
  BY DEF CoveredAtCommit, ApprovedAsExecuted, CommittedInTime, Covered, Gave

\* What the execution's last look establishes.
LEMMA ExecutionCovered ==
  ASSUME Standing, NEW n \in Nonce, NEW commit \in now..scenario.until, NEW presented \in SUBSET approvals,
         Execute(n, presented, commit)
  PROVE  Covered(NewReceipt(n, commit))
PROOF
  <1> DEFINE ch == challenges[n]
             r == NewReceipt(n, commit)
             plan == PlanOf(ch.intent)
  <1>1. /\ r.grant_id = ch.grant_id /\ r.plan = plan /\ r.actor = ch.person
        /\ r.accepted_at = now /\ r.committed_at = commit
    BY DEF NewReceipt
  <1> HIDE DEF r
  <1> SUFFICES ASSUME NEW c \in Chain(grants, ch.grant_id)
               PROVE  LET g == grants[c].grant
                      IN  /\ g.not_before <= now
                          /\ commit + Reserve < g.expires_at
                          /\ g.approval # None =>
                               /\ Cardinality(Gave(r, c) \cap g.approval.people) >= g.approval.threshold
                               /\ g.approval.exclude_actor =>
                                    Cardinality((Gave(r, c) \cap g.approval.people) \ {ch.person}) >= g.approval.threshold
    BY <1>1 DEF Covered, r
  <1> DEFINE g == grants[c].grant
             counted == Counted(g, presented, ch.person, ch.intent, plan, commit)
  <1>2. g.not_before <= now
    BY DEF Execute, Authorized, Active
  <1>3. commit + Reserve < g.expires_at
    <2>1. g.expires_at > commit + Reserve
      BY DEF Execute, InTime, Deadlines
    <2> QED
      BY <2>1
  <1>4. c \in Issued(grants)
    BY ExecuteAccepts, ChainClosed DEF Standing, TypeOK, GrantsStand
  <1>5. ASSUME g.approval # None
        PROVE  /\ Cardinality(Gave(r, c) \cap g.approval.people) >= g.approval.threshold
               /\ g.approval.exclude_actor =>
                    Cardinality((Gave(r, c) \cap g.approval.people) \ {ch.person}) >= g.approval.threshold
    <2>1. g.id = c /\ g.approval \in ApprovalRule
      BY <1>4, <1>5, EntryType DEF Standing, TypeOK, GrantsStand
    <2>2. g.approval.threshold \in Nat /\ IsFiniteSet(g.approval.people)
      BY <2>1, RuleType
    <2>3. Cardinality(counted) >= g.approval.threshold
      BY <1>5 DEF Execute, Authorized
    <2>4. Distinct(presented)
      BY DEF Execute, Authorized
    <2>5. \A a, b \in counted : a.person = b.person => a = b
      BY <2>4 DEF Distinct, Counted
    <2>6. \A a \in counted : a.person \in Gave(r, c) \cap g.approval.people
                             /\ (g.approval.exclude_actor => a.person # ch.person)
      BY <1>1, <2>1 DEF Counted, Gave
    <2>7. /\ IsFiniteSet(Gave(r, c) \cap g.approval.people)
          /\ IsFiniteSet((Gave(r, c) \cap g.approval.people) \ {ch.person})
      BY <2>2, FS_Subset
    <2> HIDE DEF counted
    <2>8. Cardinality(Gave(r, c) \cap g.approval.people) >= Cardinality(counted)
          /\ Cardinality(counted) \in Nat /\ Cardinality(Gave(r, c) \cap g.approval.people) \in Nat
      BY <2>5, <2>6, <2>7, CountedPeople
    <2>9. ASSUME g.approval.exclude_actor
          PROVE  Cardinality((Gave(r, c) \cap g.approval.people) \ {ch.person}) >= g.approval.threshold
      <3>1. \A a \in counted : a.person \in (Gave(r, c) \cap g.approval.people) \ {ch.person}
        BY <2>6, <2>9
      <3>2. Cardinality((Gave(r, c) \cap g.approval.people) \ {ch.person}) >= Cardinality(counted)
            /\ Cardinality((Gave(r, c) \cap g.approval.people) \ {ch.person}) \in Nat
        BY <2>5, <2>7, <3>1, CountedPeople
      <3> QED
        BY <2>2, <2>3, <2>8, <3>2
    <2> QED
      BY <2>2, <2>3, <2>8, <2>9
  <1> QED
    BY <1>2, <1>3, <1>5

\* What was covered stays covered: approvals are kept and grants stay what they are.
LEMMA CoverageKept ==
  ASSUME Standing, [Next]_vars, NEW r \in Accepted, Covered(r)
  PROVE  Covered(r)'
PROOF
  <1>1. Standing' /\ Keeps(grants, grants')
    BY StandingNext, GrantsKept
  <1>2. approvals \subseteq approvals'
    BY ZenonT(60) DEF Next, vars, Tick, Bootstrap, Grant, Revoke, Import, SignTransition, IssueChallenge, Approve,
           TakeTransition, Execute, Retry
  <1>3. r.grant_id \in Issued(grants)
    BY DEF Standing, ReceiptsStand
  <1>4. Chain(grants', r.grant_id) = Chain(grants, r.grant_id)
        /\ Chain(grants, r.grant_id) \subseteq Issued(grants)
    BY <1>1, <1>3, ChainKept, ChainClosed DEF Standing, TypeOK, GrantsStand
  <1> SUFFICES ASSUME NEW c \in Chain(grants, r.grant_id), grants[c].grant.approval # None
               PROVE  LET rule == grants[c].grant.approval
                      IN  /\ Cardinality(Gave(r, c)' \cap rule.people) >= rule.threshold
                          /\ rule.exclude_actor =>
                               Cardinality((Gave(r, c)' \cap rule.people) \ {r.actor}) >= rule.threshold
    BY <1>1, <1>4 DEF Covered, Keeps
  <1> DEFINE rule == grants[c].grant.approval
  <1>5. rule \in ApprovalRule
    BY <1>4, EntryType DEF Standing, TypeOK
  <1>6. rule.threshold \in Nat /\ IsFiniteSet(rule.people)
    BY <1>5, RuleType
  <1>7. Gave(r, c) \subseteq Gave(r, c)'
    BY <1>2 DEF Gave
  <1>8. ASSUME NEW A \in SUBSET rule.people, NEW B \in SUBSET A, Cardinality(B) >= rule.threshold
        PROVE  Cardinality(A) >= rule.threshold
    <2>1. IsFiniteSet(A) /\ IsFiniteSet(B)
      BY <1>6, FS_Subset
    <2> QED
      BY <1>6, <1>8, <2>1, FS_Subset, FS_CardinalityType
  <1>9. Cardinality(Gave(r, c) \cap rule.people) >= rule.threshold
        /\ (rule.exclude_actor => Cardinality((Gave(r, c) \cap rule.people) \ {r.actor}) >= rule.threshold)
    BY DEF Covered
  <1> HIDE DEF rule
  <1>10. Cardinality(Gave(r, c)' \cap rule.people) >= rule.threshold
    BY <1>7, <1>8, <1>9, Gave(r, c) \cap rule.people \in SUBSET (Gave(r, c)' \cap rule.people),
       Gave(r, c)' \cap rule.people \in SUBSET rule.people
  <1>11. rule.exclude_actor => Cardinality((Gave(r, c)' \cap rule.people) \ {r.actor}) >= rule.threshold
    BY <1>7, <1>8, <1>9,
       (Gave(r, c) \cap rule.people) \ {r.actor} \in SUBSET ((Gave(r, c)' \cap rule.people) \ {r.actor}),
       (Gave(r, c)' \cap rule.people) \ {r.actor} \in SUBSET rule.people
  <1> QED
    BY <1>10, <1>11 DEF rule

\* At the instant it was committed, and not only when it was admitted, every accepted
\* operation was within the life of every grant behind it and had the live approval of
\* the very plan that was executed by as many different people as each grant asks for
\* (finish, beforeCommit, the plan's digest in an approval).
THEOREM SafeCoverage == Spec => []CoveredAtCommit
PROOF
  <1> DEFINE All == \A r \in Accepted : Covered(r)
  <1>1. Init => All
    BY DEF Init, StoreInit, Accepted
  <1>2. ASSUME Standing, All, [Next]_vars PROVE All'
    <2>1. CASE UNCHANGED receipts
      <3>1. Accepted' = Accepted
        BY <2>1 DEF Accepted
      <3>2. ASSUME NEW r \in Accepted PROVE Covered(r)'
        BY <1>2, CoverageKept
      <3> QED
        BY <3>1, <3>2
    <2>2. ASSUME NEW n \in Nonce, NEW commit \in now..scenario.until, NEW presented \in SUBSET approvals,
                 Execute(n, presented, commit)
          PROVE  All'
      <3> DEFINE new == NewReceipt(n, commit)
      <3>1. Accepted' = Accepted \cup {new} /\ Covered(new) /\ new.grant_id \in Issued(grants)
        BY <1>2, <2>2, ExecuteAccepts, ExecutionCovered DEF NewReceipt
      <3>2. Standing' /\ Keeps(grants, grants')
        BY <1>2, StandingNext, GrantsKept
      <3>3. /\ Chain(grants', new.grant_id) = Chain(grants, new.grant_id)
            /\ Chain(grants, new.grant_id) \subseteq Issued(grants)
        BY <1>2, <3>1, <3>2, ChainKept, ChainClosed DEF Standing, TypeOK, GrantsStand
      <3>4. approvals' = approvals
        BY <2>2 DEF Execute
      <3> HIDE DEF new
      <3>5. \A c \in Chain(grants, new.grant_id) : grants'[c].grant = grants[c].grant
        BY <3>2, <3>3 DEF Keeps
      <3>6. ASSUME NEW r, r = new PROVE Covered(r)'
        BY <3>1, <3>3, <3>4, <3>5, <3>6 DEF Covered, Gave
      <3>7. ASSUME NEW r \in Accepted PROVE Covered(r)'
        BY <1>2, CoverageKept
      <3> QED
        BY <3>1, <3>6, <3>7
    <2>3. \/ UNCHANGED receipts
          \/ \E n \in Nonce, commit \in now..scenario.until : \E presented \in SUBSET approvals : Execute(n, presented, commit)
      BY <1>2 DEF Next, vars, Tick, Bootstrap, Grant, Revoke, Import, SignTransition, IssueChallenge, Approve,
                  TakeTransition, Retry
    <2> QED
      BY <2>1, <2>2, <2>3
  <1>3. All <=> CoveredAtCommit
    BY CoveredParts
  <1> QED
    BY <1>1, <1>2, <1>3, StandingInit, StandingNext, PTL DEF Spec

-----------------------------------------------------------------------------
(* Governance *)

\* Who signed exactly the step from the head before the n-th to the n-th.
Signed(n) ==
  {s.person : s \in {x \in signed : /\ x.statement.expected = SubSeq(log, 1, n - 1)
                                    /\ x.statement.governance = log[n]}}
Consensual(n) ==
  /\ Cardinality(Signed(n) \cap log[n - 1].controllers) >= log[n - 1].threshold
  /\ log[n].controllers \ log[n - 1].controllers \subseteq Signed(n)

LEMMA ConsentNext ==
  ASSUME Standing, GovernedByConsent, [Next]_vars
  PROVE  GovernedByConsent'
PROOF
  <1> USE DEF Standing, TypeOK
  <1> SUFFICES ASSUME NEW n \in 2..Len(log') PROVE Consensual(n)'
    BY DEF GovernedByConsent, Consensual, Signed
  <1>1. log' \in Seq(Governance) /\ signed \subseteq signed'
    BY ZenonT(60), TypeNext DEF Next, vars, Tick, Bootstrap, Grant, Revoke, Import, SignTransition, IssueChallenge, Approve,
           TakeTransition, Execute, Retry
  <1>2. ASSUME NEW g \in Governance
        PROVE  g.threshold \in Nat /\ IsFiniteSet(g.controllers)
    <2>1. Cardinality(Person) \in Nat
      BY FS_CardinalityType, AuthorityAssumption
    <2>2. g.controllers \subseteq Person /\ g.threshold \in 1..Cardinality(Person)
      BY DEF Governance
    <2> QED
      BY <2>1, <2>2, FS_Subset, AuthorityAssumption
  <1>3. ASSUME NEW g \in Governance, NEW A, NEW B, A \subseteq B,
               Cardinality(A \cap g.controllers) >= g.threshold
        PROVE  Cardinality(B \cap g.controllers) >= g.threshold
    <2>1. g.threshold \in Nat /\ IsFiniteSet(B \cap g.controllers)
      BY <1>2, FS_Subset
    <2>2. A \cap g.controllers \in SUBSET (B \cap g.controllers)
      BY <1>3
    <2>3. Cardinality(A \cap g.controllers) <= Cardinality(B \cap g.controllers)
          /\ Cardinality(A \cap g.controllers) \in Nat /\ Cardinality(B \cap g.controllers) \in Nat
      BY <2>1, <2>2, FS_Subset, FS_CardinalityType
    <2> QED
      BY <1>3, <2>1, <2>3
  \* A step the log already had.
  <1>4. CASE n <= Len(log) /\ log'[n] = log[n] /\ log'[n - 1] = log[n - 1]
             /\ SubSeq(log', 1, n - 1) = SubSeq(log, 1, n - 1)
    <2>1. n \in 2..Len(log) /\ log[n - 1] \in Governance
      BY <1>4
    <2>2. Consensual(n)
      BY <2>1 DEF GovernedByConsent, Consensual, Signed
    <2>3. Signed(n) \subseteq Signed(n)'
      BY <1>1, <1>4 DEF Signed
    <2> QED
      BY <1>3, <1>4, <2>1, <2>2, <2>3 DEF Consensual
  <1>5. CASE UNCHANGED log
    BY <1>4, <1>5
  <1>6. ASSUME NEW C \in SUBSET Person, Bootstrap(C) PROVE FALSE
    BY <1>6 DEF Bootstrap
  \* The step that is taken.
  <1>7. ASSUME NEW s \in signed, TakeTransition(s.statement) PROVE Consensual(n)'
    <2> DEFINE t == s.statement
    <2>1. log' = Append(log, t.governance) /\ signed' = signed /\ t.expected = log /\ t.governance \in Governance
      BY <1>7 DEF TakeTransition, TransitionApplies, Consent
    <2>2. CASE n <= Len(log)
      <3>1. log'[n] = log[n] /\ log'[n - 1] = log[n - 1]
        BY <2>1, <2>2
      <3>2. SubSeq(log', 1, n - 1) = SubSeq(log, 1, n - 1)
        BY <2>1, <2>2
      <3> QED
        BY <1>4, <2>2, <3>1, <3>2
    <2>3. CASE n = Len(log) + 1
      <3>1. log'[n] = t.governance /\ log'[n - 1] = log[Len(log)] /\ log[Len(log)] \in Governance
        BY <2>1, <2>3
      <3>2. SubSeq(log', 1, n - 1) = log
        BY <2>1, <2>3
      <3>3. Consented(t, signed, now) \subseteq Signed(n)'
        BY <2>1, <3>1, <3>2 DEF Consented, Signed
      <3>4. /\ Cardinality(Consented(t, signed, now) \cap log[Len(log)].controllers) >= log[Len(log)].threshold
            /\ t.governance.controllers \ log[Len(log)].controllers \subseteq Consented(t, signed, now)
        <4>1. log[Len(log)].controllers \cap Consented(t, signed, now)
                = Consented(t, signed, now) \cap log[Len(log)].controllers
          OBVIOUS
        <4> QED
          BY <1>7, <4>1 DEF TakeTransition, TransitionApplies, Control
      <3> QED
        BY <1>3, <3>1, <3>3, <3>4 DEF Consensual
    <2> QED
      BY <2>1, <2>2, <2>3
  <1> QED
    BY ZenonT(60), <1>5, <1>6, <1>7 DEF Next, vars, Tick, Grant, Revoke, Import, SignTransition, IssueChallenge, Approve,
           Execute, Retry

\* Each head of the governance log was consented to, over exactly the history it extends,
\* by a quorum of the controllers it replaced and by everyone it added: what was signed
\* for one head never carries a change to another (TransitionApplies in organization.ts).
THEOREM SafeGovernance == Spec => []GovernedByConsent
PROOF
  <1>1. Init => GovernedByConsent
    BY DEF Init, StoreInit, GovernedByConsent
  <1>2. Standing /\ GovernedByConsent /\ [Next]_vars => GovernedByConsent'
    BY ConsentNext
  <1> QED
    BY <1>1, <1>2, StandingInit, StandingNext, PTL DEF Spec
-----------------------------------------------------------------------------
(* The outbox *)

Event == [kind : {"authority.changed", "revision.imported", "resource.update", "record.append"},
          entity : Resource \cup RecordId \cup GrantId,
          revision : OperationId \cup {Imported, "grant", "revoke"}]

\* The places of an entity in a sequence of events; what the last of them says; and
\* where the events of an operation stand together, with no other event of it.
At(s, e) == {n \in DOMAIN s : s[n].entity = e}
Tells(s, e, head) ==
  \/ At(s, e) = {} /\ head = None
  \/ \E n \in At(s, e) : s[n].revision = head /\ \A m \in At(s, e) : m <= n
Together(s, o, es) ==
  \E n \in 0..Len(s) : /\ SubSeq(s, n + 1, n + Len(es)) = es
                       /\ {m \in DOMAIN s : s[m].revision = o} = (n + 1)..(n + Len(es))

\* OutboxExplains, of any outbox and any tables.
Explained(s, hs, rs, done, gs) ==
  /\ \A r \in Resource : Tells(s, r, hs[r])
  /\ \A r \in RecordId : Cardinality(At(s, r)) = IF r \in rs THEN 1 ELSE 0
  /\ \A o \in OperationId : Together(s, o, IF done[o] = None THEN <<>> ELSE Effects(done[o].intent))
  /\ \A g \in GrantId : Cardinality(At(s, g)) = IF gs[g] = None THEN 0 ELSE IF gs[g].revoked THEN 2 ELSE 1

\* OutboxExplains is this, of the store's own outbox and tables.
LEMMA ExplainedIs ==
  /\ OutboxExplains <=> Explained(outbox, heads, records, receipts, grants)
  /\ OutboxExplains' <=> Explained(outbox', heads', records', receipts', grants')
  BY DEF OutboxExplains, Explained, EventsOf, Tells, Together, At

\* What is appended keeps what is there and comes after it.
LEMMA Appended ==
  ASSUME NEW S, NEW s \in Seq(S), NEW t \in Seq(S)
  PROVE  /\ s \o t \in Seq(S) /\ Len(s) \in Nat /\ Len(t) \in Nat
         /\ DOMAIN s = 1..Len(s) /\ DOMAIN t = 1..Len(t)
         /\ Len(s \o t) = Len(s) + Len(t) /\ DOMAIN (s \o t) = 1..(Len(s) + Len(t))
         /\ \A n \in DOMAIN s : (s \o t)[n] = s[n]
         /\ \A k \in DOMAIN t : (s \o t)[Len(s) + k] = t[k]
PROOF
  <1>1. /\ s \o t \in Seq(S) /\ Len(s \o t) = Len(s) + Len(t)
        /\ \A i \in 1..Len(s) + Len(t) : (s \o t)[i] = IF i <= Len(s) THEN s[i] ELSE t[i - Len(s)]
    BY ConcatProperties
  <1>2. /\ Len(s) \in Nat /\ DOMAIN s = 1..Len(s)
        /\ Len(t) \in Nat /\ DOMAIN t = 1..Len(t)
        /\ DOMAIN (s \o t) = 1..Len(s \o t)
    BY <1>1, LenProperties
  <1> QED
    BY <1>1, <1>2

\* The events about an entity in a longer outbox, by where they stand.
LEMMA AtConcat ==
  ASSUME NEW S, NEW s \in Seq(S), NEW t \in Seq(S), NEW e
  PROVE  At(s \o t, e) = At(s, e) \cup {Len(s) + k : k \in At(t, e)}
PROOF
  <1> DEFINE u == s \o t
  <1>1. /\ Len(s) \in Nat /\ Len(t) \in Nat /\ DOMAIN s = 1..Len(s) /\ DOMAIN t = 1..Len(t)
        /\ DOMAIN u = 1..(Len(s) + Len(t))
        /\ \A n \in DOMAIN s : u[n] = s[n]
        /\ \A k \in DOMAIN t : u[Len(s) + k] = t[k]
    BY Appended
  <1> HIDE DEF u
  <1>2. \A n \in DOMAIN u : n \in DOMAIN s \/ \E k \in DOMAIN t : n = Len(s) + k
    <2> SUFFICES ASSUME NEW n \in 1..(Len(s) + Len(t)), n \notin 1..Len(s)
                 PROVE  \E k \in DOMAIN t : n = Len(s) + k
      BY <1>1
    <2>1. n - Len(s) \in 1..Len(t) /\ n = Len(s) + (n - Len(s))
      BY <1>1
    <2> QED
      BY <1>1, <2>1
  <1>3. \A n \in DOMAIN s : n \in DOMAIN u
    BY <1>1
  <1>4. \A k \in DOMAIN t : Len(s) + k \in DOMAIN u
    BY <1>1
  <1>5. At(u, e) \subseteq At(s, e) \cup {Len(s) + k : k \in At(t, e)}
    <2> SUFFICES ASSUME NEW n \in DOMAIN u, u[n].entity = e
                 PROVE  n \in At(s, e) \/ \E k \in At(t, e) : n = Len(s) + k
      BY DEF At
    <2> QED
      BY <1>1, <1>2 DEF At
  <1>6. At(s, e) \subseteq At(u, e)
    BY <1>1, <1>3 DEF At
  <1>7. {Len(s) + k : k \in At(t, e)} \subseteq At(u, e)
    BY <1>1, <1>4 DEF At
  <1> QED
    BY <1>5, <1>6, <1>7 DEF u

\* Finitely many events are about an entity.
LEMMA AtFinite ==
  ASSUME NEW S, NEW s \in Seq(S), NEW e
  PROVE  /\ IsFiniteSet(At(s, e)) /\ Cardinality(At(s, e)) \in Nat
         /\ Cardinality(At(s, e)) = 0 <=> At(s, e) = {}
PROOF
  <1>1. Len(s) \in Nat /\ At(s, e) \in SUBSET (1..Len(s))
    BY LenProperties DEF At
  <1>2. IsFiniteSet(At(s, e))
    <2>1. IsFiniteSet(1..Len(s))
      BY <1>1, FS_Interval
    <2> QED
      BY <1>1, <2>1, FS_Subset
  <1> QED
    BY <1>2, FS_CardinalityType, FS_EmptySet

\* Events about others change nothing for an entity.
LEMMA AtNone ==
  ASSUME NEW S, NEW s \in Seq(S), NEW t \in Seq(S), NEW e, At(t, e) = {}
  PROVE  /\ At(s \o t, e) = At(s, e)
         /\ \A head : Tells(s, e, head) => Tells(s \o t, e, head)
PROOF
  <1>1. At(s \o t, e) = At(s, e)
    <2>1. At(s \o t, e) = At(s, e) \cup {Len(s) + k : k \in At(t, e)}
      BY AtConcat
    <2>2. {Len(s) + k : k \in At(t, e)} = {}
      OBVIOUS
    <2> QED
      BY <2>1, <2>2
  <1>2. \A n \in At(s, e) : (s \o t)[n] = s[n]
    BY Appended DEF At
  <1> QED
    BY <1>1, <1>2 DEF Tells

\* One more event about an entity is the last word about it.
LEMMA AtOne ==
  ASSUME NEW S, NEW s \in Seq(S), NEW t \in Seq(S), NEW e, NEW k, At(t, e) = {k}
  PROVE  /\ Cardinality(At(s \o t, e)) = Cardinality(At(s, e)) + 1
         /\ Tells(s \o t, e, t[k].revision)
PROOF
  <1>1. k \in DOMAIN t
    BY DEF At
  <1>2. /\ Len(s) \in Nat /\ k \in Nat \ {0} /\ DOMAIN s = 1..Len(s)
        /\ (s \o t)[Len(s) + k] = t[k]
    BY <1>1, Appended
  <1>3. At(s \o t, e) = At(s, e) \cup {Len(s) + k}
    BY AtConcat
  <1>4. \A n \in At(s, e) : n \in 1..Len(s)
    BY <1>2 DEF At
  <1>5. Len(s) + k \notin At(s, e)
    BY <1>2, <1>4
  <1>6. Cardinality(At(s \o t, e)) = Cardinality(At(s, e)) + 1
    BY <1>3, <1>5, AtFinite, FS_AddElement
  <1>7. \A n \in At(s \o t, e) : n <= Len(s) + k
    BY <1>2, <1>3, <1>4
  <1> QED
    BY <1>2, <1>3, <1>6, <1>7 DEF Tells

\* The events of an operation stay together, and new ones come together.
LEMMA TogetherKept ==
  ASSUME NEW S, NEW s \in Seq(S), NEW t \in Seq(S), NEW o, NEW es \in Seq(S),
         Together(s, o, es), \A k \in DOMAIN t : t[k].revision # o
  PROVE  Together(s \o t, o, es)
PROOF
  <1> DEFINE u == s \o t
  <1>1. /\ Len(s) \in Nat /\ Len(t) \in Nat /\ DOMAIN s = 1..Len(s) /\ DOMAIN t = 1..Len(t)
        /\ Len(u) = Len(s) + Len(t) /\ DOMAIN u = 1..(Len(s) + Len(t))
        /\ \A n \in DOMAIN s : u[n] = s[n]
        /\ \A k \in DOMAIN t : u[Len(s) + k] = t[k]
    BY Appended
  <1>2. Len(es) \in Nat
    BY LenProperties
  <1>3. PICK n \in 0..Len(s) : /\ SubSeq(s, n + 1, n + Len(es)) = es
                               /\ {m \in DOMAIN s : s[m].revision = o} = (n + 1)..(n + Len(es))
    BY DEF Together
  <1>4. SubSeq(u, n + 1, n + Len(es)) = es
    <2>1. CASE Len(es) = 0
      <3>1. n + Len(es) < n + 1 /\ n + 1 \in Int /\ n + Len(es) \in Int
        BY <1>1, <1>2, <2>1
      <3>2. SubSeq(u, n + 1, n + Len(es)) = <<>> /\ SubSeq(s, n + 1, n + Len(es)) = <<>>
        BY <3>1, SubSeqEmpty
      <3> QED
        BY <1>3, <3>2
    <2>2. CASE Len(es) # 0
      <3>1. n + 1 \in (n + 1)..(n + Len(es)) /\ n + Len(es) \in (n + 1)..(n + Len(es))
        BY <1>1, <1>2, <2>2
      <3>2. n + 1 \in 1..Len(s) /\ n + Len(es) \in 1..Len(s)
        BY <1>1, <1>3, <3>1
      <3> QED
        BY <1>3, <3>2, SubSeqOfConcat1
    <2> QED
      BY <2>1, <2>2
  <1> HIDE DEF u
  <1>5. \A m \in DOMAIN u : m \in DOMAIN s \/ \E k \in DOMAIN t : m = Len(s) + k
    <2> SUFFICES ASSUME NEW m \in 1..(Len(s) + Len(t)), m \notin 1..Len(s)
                 PROVE  \E k \in DOMAIN t : m = Len(s) + k
      BY <1>1
    <2>1. m - Len(s) \in 1..Len(t) /\ m = Len(s) + (m - Len(s))
      BY <1>1
    <2> QED
      BY <1>1, <2>1
  <1>6. {m \in DOMAIN u : u[m].revision = o} = {m \in DOMAIN s : s[m].revision = o}
    <2>1. \A m \in DOMAIN s : m \in DOMAIN u
      BY <1>1
    <2> QED
      BY <1>1, <1>5, <2>1
  <1>7. n \in 0..Len(u)
    BY <1>1
  <1> QED
    BY <1>3, <1>4, <1>6, <1>7 DEF Together, u

\* The events of an operation that had none are the ones appended.
LEMMA TogetherNew ==
  ASSUME NEW S, NEW s \in Seq(S), NEW t \in Seq(S), NEW o,
         Together(s, o, <<>>), \A k \in DOMAIN t : t[k].revision = o
  PROVE  Together(s \o t, o, t)
PROOF
  <1> DEFINE u == s \o t
             n == Len(s)
  <1>1. /\ Len(s) \in Nat /\ Len(t) \in Nat /\ DOMAIN s = 1..Len(s) /\ DOMAIN t = 1..Len(t)
        /\ Len(u) = Len(s) + Len(t) /\ DOMAIN u = 1..(Len(s) + Len(t))
        /\ u \in Seq(S)
        /\ \A m \in DOMAIN s : u[m] = s[m]
        /\ \A k \in DOMAIN t : u[Len(s) + k] = t[k]
    BY Appended
  <1>2. \A m \in DOMAIN s : s[m].revision # o
    <2>1. PICK m \in 0..Len(s) : {x \in DOMAIN s : s[x].revision = o} = (m + 1)..(m + Len(<<>>))
      BY DEF Together
    <2>2. (m + 1)..(m + Len(<<>>)) = {}
      BY <1>1, EmptySeq
    <2> QED
      BY <2>1, <2>2
  <1>3. SubSeq(u, n + 1, n + Len(t)) = t
    <2>1. CASE Len(t) = 0
      <3>1. n + Len(t) < n + 1 /\ n + 1 \in Int /\ n + Len(t) \in Int
        BY <1>1, <2>1
      <3>2. SubSeq(u, n + 1, n + Len(t)) = <<>>
        BY <3>1, SubSeqEmpty
      <3>3. t = <<>>
        BY <2>1, EmptySeq
      <3> QED
        BY <3>2, <3>3
    <2>2. CASE Len(t) # 0
      <3>1. n + 1 \in Len(s) + 1..Len(s) + Len(t) /\ n + Len(t) \in Len(s) + 1..Len(s) + Len(t)
        BY <1>1, <2>2
      <3>2. SubSeq(u, n + 1, n + Len(t)) = SubSeq(t, n + 1 - Len(s), n + Len(t) - Len(s))
        BY <3>1, SubSeqOfConcat2
      <3>3. n + 1 - Len(s) = 1 /\ n + Len(t) - Len(s) = Len(t)
        BY <1>1
      <3> QED
        BY <3>2, <3>3, SubSeqFull
    <2> QED
      BY <2>1, <2>2
  <1> HIDE DEF u
  <1>4. {m \in DOMAIN u : u[m].revision = o} = (n + 1)..(n + Len(t))
    <2>1. ASSUME NEW m \in (n + 1)..(n + Len(t)) PROVE m \in DOMAIN u /\ u[m].revision = o
      <3>1. m - n \in DOMAIN t /\ m = n + (m - n) /\ m \in DOMAIN u
        BY <1>1
      <3> QED
        BY <1>1, <3>1
    <2>2. ASSUME NEW m \in DOMAIN u, m \notin (n + 1)..(n + Len(t)) PROVE u[m].revision # o
      <3>1. m \in DOMAIN s
        BY <1>1, <2>2
      <3> QED
        BY <1>1, <1>2, <3>1
    <2> QED
      BY <2>1, <2>2
  <1>5. n \in 0..Len(u)
    BY <1>1
  <1> QED
    BY <1>3, <1>4, <1>5 DEF Together, u

\* There are as many events of one kind as there are entities they are about.
LEMMA FinitelyMany ==
  ASSUME NEW S, IsFiniteSet(S), NEW kind, NEW o
  PROVE  IsFiniteSet([kind : {kind}, entity : S, revision : {o}])
PROOF
  <1> DEFINE T == [kind : {kind}, entity : S, revision : {o}]
             f == [e \in S |-> [kind |-> kind, entity |-> e, revision |-> o]]
  <1>1. \A e \in S : [kind |-> kind, entity |-> e, revision |-> o] \in T
    OBVIOUS
  <1>2. \A x \in T : x.entity \in S /\ x = [kind |-> kind, entity |-> x.entity, revision |-> o]
    OBVIOUS
  <1> HIDE DEF T
  <1>3. f \in [S -> T] /\ \A x \in T : \E e \in S : f[e] = x
    BY <1>1, <1>2
  <1>4. f \in Surjection(S, T)
    BY <1>3 DEF Surjection
  <1>5. IsFiniteSet(T)
    BY <1>4, FS_Surjection
  <1> QED
    BY <1>5 DEF T

\* The events of an operation: one for each entity it updates or appends, in its name.
LEMMA EffectsFacts ==
  ASSUME NEW i \in OperationIntent
  PROVE  /\ Effects(i) \in Seq(Event)
         /\ \A k \in DOMAIN Effects(i) : Effects(i)[k].revision = i.operation_id
         /\ \A e \in i.updates \cup i.appends : \E k : At(Effects(i), e) = {k}
         /\ \A e : e \notin i.updates \cup i.appends => At(Effects(i), e) = {}
PROOF
  <1> DEFINE U == [kind : {"resource.update"}, entity : i.updates, revision : {i.operation_id}]
             A == [kind : {"record.append"}, entity : i.appends, revision : {i.operation_id}]
             E == U \cup A
             f == SetToSeq(E)
             up(e) == [kind |-> "resource.update", entity |-> e, revision |-> i.operation_id]
             app(e) == [kind |-> "record.append", entity |-> e, revision |-> i.operation_id]
  <1>1. /\ i.updates \subseteq i.resources /\ IsFiniteSet(i.resources) /\ IsFiniteSet(i.appends)
        /\ i.updates \subseteq Resource /\ i.appends \subseteq RecordId /\ i.operation_id \in OperationId
    BY DEF OperationIntent
  <1>2. IsFiniteSet(E)
    <2>1. IsFiniteSet(i.updates)
      BY <1>1, FS_Subset
    <2>2. IsFiniteSet(U) /\ IsFiniteSet(A)
      BY <1>1, <2>1, FinitelyMany
    <2> HIDE DEF U, A
    <2> QED
      BY <2>2, FS_Union
  <1>3. E \subseteq Event
    <2>1. U \subseteq Event
      <3> SUFFICES ASSUME NEW x \in U PROVE x \in Event
        OBVIOUS
      <3>1. x = [kind |-> "resource.update", entity |-> x.entity, revision |-> i.operation_id]
        OBVIOUS
      <3>2. x.entity \in Resource \cup RecordId \cup GrantId
        BY <1>1
      <3> HIDE DEF U
      <3> QED
        BY <1>1, <3>1, <3>2 DEF Event
    <2>2. A \subseteq Event
      <3> SUFFICES ASSUME NEW x \in A PROVE x \in Event
        OBVIOUS
      <3>1. x = [kind |-> "record.append", entity |-> x.entity, revision |-> i.operation_id]
        OBVIOUS
      <3>2. x.entity \in Resource \cup RecordId \cup GrantId
        BY <1>1
      <3> HIDE DEF A
      <3> QED
        BY <1>1, <3>1, <3>2 DEF Event
    <2> HIDE DEF U, A
    <2> QED
      BY <2>1, <2>2
  <1>4. \A x, y \in E : x.entity = y.entity => x = y
    <2> SUFFICES ASSUME NEW x \in E, NEW y \in E, x.entity = y.entity PROVE x = y
      OBVIOUS
    <2>1. x \in U <=> y \in U
      BY <1>1, NamesAssumption
    <2>2. CASE x \in U
      BY <2>1, <2>2
    <2>3. CASE x \in A /\ y \in A
      BY <2>3
    <2> QED
      BY <2>1, <2>2, <2>3
  <1>5. \A x \in E : x.revision = i.operation_id /\ x.entity \in i.updates \cup i.appends
    OBVIOUS
  <1>6. \A e \in i.updates \cup i.appends : \E x \in E : x.entity = e
    <2>1. \A e \in i.updates : up(e) \in U /\ up(e).entity = e
      OBVIOUS
    <2>2. \A e \in i.appends : app(e) \in A /\ app(e).entity = e
      OBVIOUS
    <2> HIDE DEF U, A, up, app
    <2> QED
      BY <2>1, <2>2
  <1> HIDE DEF E
  <1>7. Cardinality(E) \in Nat /\ ExistsBijection(1..Cardinality(E), E)
    BY <1>2, FS_CardinalityType
  <1>8. f \in [1..Cardinality(E) -> E] /\ IsInjective(f)
    <2>1. \E g \in [1..Cardinality(E) -> E] : IsInjective(g)
      BY <1>7 DEF ExistsBijection, Bijection, Injection
    <2> QED
      BY <2>1 DEF SetToSeq
  <1>9. \A x \in E : \E k \in 1..Cardinality(E) : f[k] = x
    <2>1. f \in Injection(1..Cardinality(E), E)
      BY <1>8 DEF Injection
    <2>2. Cardinality(1..Cardinality(E)) = Cardinality(E)
      BY <1>7, FS_Interval
    <2>3. f \in Surjection(1..Cardinality(E), E)
      BY <1>2, <2>1, <2>2, FS_Injection
    <2> QED
      BY <2>3 DEF Surjection
  <1>10. Effects(i) = f
    BY DEF Effects, E
  <1> HIDE DEF f
  <1>11. f \in Seq(Event) /\ DOMAIN f = 1..Cardinality(E)
    BY <1>3, <1>7, <1>8
  <1>12. \A k \in DOMAIN f : f[k] \in E
    BY <1>8
  <1>13. \A e \in i.updates \cup i.appends : \E k : At(f, e) = {k}
    <2> SUFFICES ASSUME NEW e \in i.updates \cup i.appends PROVE \E k : At(f, e) = {k}
      OBVIOUS
    <2>1. PICK k \in 1..Cardinality(E) : f[k].entity = e
      BY <1>6, <1>9
    <2>2. \A m \in DOMAIN f : f[m].entity = e => m = k
      BY <1>4, <1>8, <1>11, <1>12, <2>1 DEF IsInjective
    <2> QED
      BY <1>11, <2>1, <2>2 DEF At
  <1>14. \A e : e \notin i.updates \cup i.appends => At(f, e) = {}
    BY <1>5, <1>12 DEF At
  <1> QED
    BY <1>5, <1>10, <1>11, <1>12, <1>13, <1>14

OutboxStands == outbox \in Seq(Event) /\ records \subseteq RecordId /\ OutboxExplains

\* The events of an accepted operation are events.
LEMMA AcceptedEffects ==
  ASSUME Standing, NEW o \in OperationId
  PROVE  (IF receipts[o] = None THEN <<>> ELSE Effects(receipts[o].intent)) \in Seq(Event)
PROOF
  <1>1. CASE receipts[o] = None
    BY <1>1, EmptySeq
  <1>2. CASE receipts[o] # None
    <2>1. receipts[o].intent \in OperationIntent
      BY <1>2 DEF Standing, TypeOK, BusinessReceipt
    <2> QED
      BY <1>2, <2>1, EffectsFacts
  <1> QED
    BY <1>1, <1>2

\* One event that belongs to no operation leaves everybody else's events alone.
LEMMA OneEvent ==
  ASSUME Standing, OutboxStands, NEW ev \in Event, ev.revision \notin OperationId,
         outbox' = Append(outbox, ev), UNCHANGED receipts
  PROVE  /\ outbox' \in Seq(Event)
         /\ \A o \in OperationId :
              Together(outbox', o, IF receipts'[o] = None THEN <<>> ELSE Effects(receipts'[o].intent))
         /\ Cardinality(At(outbox', ev.entity)) = Cardinality(At(outbox, ev.entity)) + 1
         /\ Tells(outbox', ev.entity, ev.revision)
         /\ \A e : e # ev.entity => At(outbox', e) = At(outbox, e)
         /\ \A e, head : e # ev.entity /\ Tells(outbox, e, head) => Tells(outbox', e, head)
PROOF
  <1> DEFINE t == <<ev>>
  <1>1. t \in Seq(Event) /\ DOMAIN t = {1} /\ t[1] = ev
    OBVIOUS
  <1>2. outbox \in Seq(Event) /\ outbox' = outbox \o t
    BY AppendIsConcat DEF OutboxStands
  <1> HIDE DEF t
  <1>3. outbox' \in Seq(Event)
    BY <1>1, <1>2, Appended
  <1>4. \A o \in OperationId :
          Together(outbox', o, IF receipts'[o] = None THEN <<>> ELSE Effects(receipts'[o].intent))
    <2> SUFFICES ASSUME NEW o \in OperationId
                 PROVE  Together(outbox', o, IF receipts[o] = None THEN <<>> ELSE Effects(receipts[o].intent))
      OBVIOUS
    <2> DEFINE es == IF receipts[o] = None THEN <<>> ELSE Effects(receipts[o].intent)
    <2>1. es \in Seq(Event)
      BY AcceptedEffects
    <2>2. Together(outbox, o, es)
      BY ExplainedIs DEF OutboxStands, Explained
    <2> HIDE DEF es
    <2>3. Together(outbox', o, es)
      BY <1>1, <1>2, <2>1, <2>2, TogetherKept
    <2> QED
      BY <2>3 DEF es
  <1>5. At(t, ev.entity) = {1}
    BY <1>1 DEF At
  <1>6. \A e : e # ev.entity => At(t, e) = {}
    BY <1>1 DEF At
  <1>7. Cardinality(At(outbox', ev.entity)) = Cardinality(At(outbox, ev.entity)) + 1
        /\ Tells(outbox', ev.entity, ev.revision)
    BY SMTT(30), <1>1, <1>2, <1>5, AtOne
  <1>8. \A e : e # ev.entity => /\ At(outbox', e) = At(outbox, e)
                                /\ \A head : Tells(outbox, e, head) => Tells(outbox', e, head)
    BY <1>1, <1>2, <1>6, AtNone
  <1> QED
    BY <1>3, <1>4, <1>7, <1>8

\* The outbox of a store nothing was written to.
LEMMA OutboxInit == Init => OutboxStands
PROOF
  <1> SUFFICES ASSUME Init PROVE OutboxStands
    OBVIOUS
  <1>1. /\ outbox = <<>> /\ records = {} /\ heads = [r \in Resource |-> None]
        /\ receipts = [o \in OperationId |-> None] /\ grants = [g \in GrantId |-> None]
    BY DEF Init, StoreInit
  <1>2. \A e : At(outbox, e) = {}
    BY <1>1 DEF At
  <1>3. \A o : Together(outbox, o, <<>>)
    <2>1. SubSeq(<<>>, 1, 0) = <<>>
      BY SubSeqEmpty
    <2>2. /\ 0 \in 0..Len(outbox) /\ 0 + 1 = 1 /\ 0 + Len(<<>>) = 0 /\ 1..0 = {} /\ DOMAIN outbox = {}
      BY <1>1
    <2> QED
      BY <1>1, <2>1, <2>2 DEF Together
  <1>4. Explained(outbox, heads, records, receipts, grants)
    BY <1>1, <1>2, <1>3, FS_EmptySet DEF Explained, Tells
  <1>5. outbox \in Seq(Event)
    BY <1>1, EmptySeq
  <1> QED
    BY <1>1, <1>4, <1>5, ExplainedIs DEF OutboxStands

\* A change of the authority is one event about its grant.
LEMMA OutboxGrant ==
  ASSUME Standing, OutboxStands, NEW g \in scenario.offers, NEW C, Grant(g, C)
  PROVE  OutboxStands'
PROOF
  <1> DEFINE ev == [kind |-> "authority.changed", entity |-> g.id, revision |-> "grant"]
  <1>1. g.id \in GrantId
    BY ScenarioAssumption DEF Standing, TypeOK, CapabilityGrant
  <1>2. /\ grants[g.id] = None /\ outbox' = Append(outbox, ev)
        /\ grants' = [grants EXCEPT ![g.id] = [grant |-> g, revoked |-> FALSE, used |-> 0]]
        /\ UNCHANGED <<receipts, heads, records>>
    BY DEF Grant, MayIssue
  <1>3. ev \in Event /\ ev.revision \notin OperationId
    BY <1>1, NamesAssumption DEF Event
  <1>4. ev.entity = g.id
    OBVIOUS
  <1> HIDE DEF ev
  <1>5. /\ outbox' \in Seq(Event)
        /\ \A o \in OperationId :
             Together(outbox', o, IF receipts'[o] = None THEN <<>> ELSE Effects(receipts'[o].intent))
        /\ Cardinality(At(outbox', g.id)) = Cardinality(At(outbox, g.id)) + 1
        /\ \A e : e # g.id => At(outbox', e) = At(outbox, e)
        /\ \A e, head : e # g.id /\ Tells(outbox, e, head) => Tells(outbox', e, head)
    BY <1>2, <1>3, <1>4, OneEvent
  <1>6. Explained(outbox, heads, records, receipts, grants)
    BY ExplainedIs DEF OutboxStands
  <1>7. grants'[g.id] # None /\ ~grants'[g.id].revoked
        /\ \A x \in GrantId : x # g.id => grants'[x] = grants[x]
    <2>1. [grant |-> g, revoked |-> FALSE, used |-> 0] \in GrantEntry
      BY ScenarioAssumption DEF Standing, TypeOK, GrantEntry
    <2> QED
      BY <1>1, <1>2, <2>1, StoreAssumption DEF Standing, TypeOK, GrantsType
  <1>8. \A e \in Resource \cup RecordId : e # g.id
    BY <1>1, NamesAssumption
  <1>9. Cardinality(At(outbox', g.id)) = 1
    BY <1>1, <1>2, <1>5, <1>6 DEF Explained
  <1>10. Explained(outbox', heads', records', receipts', grants')
    BY <1>1, <1>2, <1>5, <1>6, <1>7, <1>8, <1>9 DEF Explained
  <1> QED
    BY <1>2, <1>5, <1>10, ExplainedIs DEF OutboxStands

\* So is a revocation, the second event about its grant.
LEMMA OutboxRevoke ==
  ASSUME Standing, OutboxStands, NEW g \in GrantId, NEW C, Revoke(g, C)
  PROVE  OutboxStands'
PROOF
  <1> DEFINE ev == [kind |-> "authority.changed", entity |-> g, revision |-> "revoke"]
  <1>1. /\ grants[g] # None /\ ~grants[g].revoked /\ outbox' = Append(outbox, ev)
        /\ grants' = [grants EXCEPT ![g].revoked = TRUE]
        /\ UNCHANGED <<receipts, heads, records>>
    BY DEF Revoke, MayRevoke
  <1>2. ev \in Event /\ ev.revision \notin OperationId /\ ev.entity = g
    BY NamesAssumption DEF Event
  <1> HIDE DEF ev
  <1>3. /\ outbox' \in Seq(Event)
        /\ \A o \in OperationId :
             Together(outbox', o, IF receipts'[o] = None THEN <<>> ELSE Effects(receipts'[o].intent))
        /\ Cardinality(At(outbox', g)) = Cardinality(At(outbox, g)) + 1
        /\ \A e : e # g => At(outbox', e) = At(outbox, e)
        /\ \A e, head : e # g /\ Tells(outbox, e, head) => Tells(outbox', e, head)
    BY <1>1, <1>2, OneEvent
  <1>4. Explained(outbox, heads, records, receipts, grants)
    BY ExplainedIs DEF OutboxStands
  <1>5. grants'[g] # None /\ grants'[g].revoked
        /\ \A x \in GrantId : x # g => grants'[x] = grants[x]
    <2>1. grants[g] \in GrantEntry
      BY <1>1 DEF Standing, TypeOK, GrantsType
    <2>2. [grants[g] EXCEPT !.revoked = TRUE] \in GrantEntry /\ [grants[g] EXCEPT !.revoked = TRUE].revoked
      BY <2>1 DEF GrantEntry
    <2>3. grants'[g] = [grants[g] EXCEPT !.revoked = TRUE]
      BY <1>1 DEF Standing, TypeOK, GrantsType
    <2>4. \A x \in GrantId : x # g => grants'[x] = grants[x]
      BY <1>1 DEF Standing, TypeOK, GrantsType
    <2> QED
      BY <2>2, <2>3, <2>4, StoreAssumption
  <1>6. \A e \in Resource \cup RecordId : e # g
    BY NamesAssumption
  <1>7. Cardinality(At(outbox', g)) = 2
    BY <1>1, <1>3, <1>4 DEF Explained
  <1>8. Explained(outbox', heads', records', receipts', grants')
    BY <1>1, <1>3, <1>4, <1>5, <1>6, <1>7 DEF Explained
  <1> QED
    BY <1>1, <1>3, <1>8, ExplainedIs DEF OutboxStands

\* An import is the first event of its entity.
LEMMA OutboxImport ==
  ASSUME Standing, OutboxStands, NEW entity, NEW C, Import(entity, C)
  PROVE  OutboxStands'
PROOF
  <1> DEFINE ev == [kind |-> "revision.imported", entity |-> entity, revision |-> Imported]
  <1>1. /\ outbox' = Append(outbox, ev) /\ UNCHANGED <<receipts, grants>>
        /\ \/ entity \in Resource /\ heads' = [heads EXCEPT ![entity] = Imported] /\ UNCHANGED records
           \/ entity \in RecordId \ records /\ records' = records \cup {entity} /\ UNCHANGED heads
    BY DEF Import
  <1>2. ev \in Event /\ ev.revision \notin OperationId /\ ev.entity = entity /\ ev.revision = Imported
    BY <1>1, NamesAssumption DEF Event
  <1> HIDE DEF ev
  <1>3. /\ outbox' \in Seq(Event)
        /\ \A o \in OperationId :
             Together(outbox', o, IF receipts'[o] = None THEN <<>> ELSE Effects(receipts'[o].intent))
        /\ Cardinality(At(outbox', entity)) = Cardinality(At(outbox, entity)) + 1
        /\ Tells(outbox', entity, Imported)
        /\ \A e : e # entity => At(outbox', e) = At(outbox, e)
        /\ \A e, head : e # entity /\ Tells(outbox, e, head) => Tells(outbox', e, head)
    BY <1>1, <1>2, OneEvent
  <1>4. Explained(outbox, heads, records, receipts, grants) /\ records \subseteq RecordId
    BY ExplainedIs DEF OutboxStands
  <1>5. \A e \in GrantId : e # entity
    BY <1>1, NamesAssumption
  <1>6. \A r \in Resource : Tells(outbox', r, heads'[r])
    <2>1. \A r \in Resource : heads'[r] = IF r = entity THEN Imported ELSE heads[r]
      BY <1>1, NamesAssumption DEF Standing, TypeOK
    <2> QED
      BY <1>3, <1>4, <2>1 DEF Explained
  <1>7. \A r \in RecordId : Cardinality(At(outbox', r)) = IF r \in records' THEN 1 ELSE 0
    <2>1. CASE entity \in Resource /\ UNCHANGED records
      BY <1>3, <1>4, <2>1, NamesAssumption DEF Explained
    <2>2. CASE entity \in RecordId \ records /\ records' = records \cup {entity}
      BY <1>3, <1>4, <2>2 DEF Explained
    <2> QED
      BY <1>1, <2>1, <2>2
  <1>8. Explained(outbox', heads', records', receipts', grants')
    BY <1>1, <1>3, <1>4, <1>5, <1>6, <1>7 DEF Explained
  <1> QED
    BY <1>1, <1>3, <1>4, <1>8, ExplainedIs DEF OutboxStands

\* What an execution does to the tables the outbox explains.
LEMMA ExecuteTables ==
  ASSUME Standing, NEW n \in Nonce, NEW commit \in now..scenario.until, NEW presented \in SUBSET approvals,
         Execute(n, presented, commit)
  PROVE  LET i == challenges[n].intent
         IN  /\ i \in OperationIntent /\ i.appends \cap records = {}
             /\ outbox' = outbox \o Effects(i) /\ records' = records \cup i.appends
             /\ receipts[i.operation_id] = None
             /\ receipts'[i.operation_id] # None /\ receipts'[i.operation_id].intent = i
             /\ \A o \in OperationId : o # i.operation_id => receipts'[o] = receipts[o]
             /\ \A r \in Resource : heads'[r] = IF r \in i.updates THEN i.operation_id ELSE heads[r]
             /\ \A g \in GrantId : /\ grants'[g] = None <=> grants[g] = None
                                   /\ grants[g] # None => grants'[g].revoked = grants[g].revoked
PROOF
  <1> DEFINE i == challenges[n].intent
             r == NewReceipt(n, commit)
  <1>1. /\ challenges[n] \in PersonChallenge /\ r \in BusinessReceipt
        /\ challenges[n].grant_id \in Issued(grants)
        /\ receipts' = [receipts EXCEPT ![r.intent.operation_id] = r]
    BY ExecuteAccepts
  <1>2. i \in OperationIntent /\ i.operation_id \in OperationId /\ i.cost \in Nat
    BY <1>1 DEF PersonChallenge, OperationIntent
  <1>3. /\ outbox' = outbox \o Effects(i) /\ records' = records \cup i.appends
        /\ i.appends \cap records = {} /\ receipts[i.operation_id] = None
        /\ heads' = [x \in Resource |-> IF x \in i.updates THEN i.operation_id ELSE heads[x]]
        /\ grants' = Charged(grants, challenges[n].grant_id, i.cost)
    BY DEF Execute, CreatesNewRecords
  <1>4. r.intent = i
    BY DEF NewReceipt
  <1>5. r # None
    BY <1>1, StoreAssumption
  <1> HIDE DEF r
  <1>6. /\ receipts'[i.operation_id] = r
        /\ \A o \in OperationId : o # i.operation_id => receipts'[o] = receipts[o]
    BY <1>1, <1>2, <1>4 DEF Standing, TypeOK
  <1>7. \A g \in GrantId : /\ grants'[g] = None <=> grants[g] = None
                           /\ grants[g] # None => grants'[g].revoked = grants[g].revoked
    <2> DEFINE chain == Chain(grants, challenges[n].grant_id)
    <2>1. chain \subseteq Issued(grants)
      BY <1>1, ChainClosed DEF Standing, TypeOK, GrantsStand
    <2>2. \A x \in GrantId : grants'[x] = IF x \in chain THEN [grants[x] EXCEPT !.used = @ + i.cost] ELSE grants[x]
      BY <1>3 DEF Charged, Standing, TypeOK, GrantsType
    <2> HIDE DEF chain
    <2>3. ASSUME NEW x \in chain
          PROVE  grants[x] # None /\ grants'[x] # None /\ grants'[x].revoked = grants[x].revoked
      <3>1. x \in GrantId /\ grants[x] # None /\ grants[x] \in GrantEntry
        BY <2>1, EntryType DEF Standing, TypeOK, Issued
      <3>2. grants'[x] = [grants[x] EXCEPT !.used = @ + i.cost]
        BY <2>2, <3>1
      <3>3. grants'[x] \in GrantEntry /\ grants'[x].revoked = grants[x].revoked
        BY <1>2, <3>1, <3>2, ChargedEntry
      <3> QED
        BY <3>1, <3>3, StoreAssumption
    <2> QED
      BY <2>2, <2>3
  <1> QED
    BY <1>2, <1>3, <1>4, <1>5, <1>6, <1>7

\* An execution appends its effects: new heads, first events of new records, and its
\* own events together.
LEMMA OutboxExecute ==
  ASSUME Standing, OutboxStands,
         NEW n \in Nonce, NEW commit \in now..scenario.until, NEW presented \in SUBSET approvals,
         Execute(n, presented, commit)
  PROVE  OutboxStands'
PROOF
  <1> DEFINE i == challenges[n].intent
             t == Effects(i)
  <1>1. /\ i \in OperationIntent /\ i.appends \cap records = {}
        /\ outbox' = outbox \o t /\ records' = records \cup i.appends
        /\ receipts[i.operation_id] = None
        /\ receipts'[i.operation_id] # None /\ receipts'[i.operation_id].intent = i
        /\ \A o \in OperationId : o # i.operation_id => receipts'[o] = receipts[o]
        /\ \A r \in Resource : heads'[r] = IF r \in i.updates THEN i.operation_id ELSE heads[r]
        /\ \A g \in GrantId : /\ grants'[g] = None <=> grants[g] = None
                              /\ grants[g] # None => grants'[g].revoked = grants[g].revoked
    BY ExecuteTables
  <1>2. i.updates \subseteq Resource /\ i.appends \subseteq RecordId /\ i.operation_id \in OperationId
    BY <1>1 DEF OperationIntent
  <1>3. /\ t \in Seq(Event)
        /\ \A k \in DOMAIN t : t[k].revision = i.operation_id
        /\ \A e \in i.updates \cup i.appends : \E k : At(t, e) = {k}
        /\ \A e : e \notin i.updates \cup i.appends => At(t, e) = {}
    BY <1>1, EffectsFacts
  <1> HIDE DEF t
  <1>4. /\ outbox \in Seq(Event) /\ records \subseteq RecordId
        /\ Explained(outbox, heads, records, receipts, grants)
    BY ExplainedIs DEF OutboxStands
  <1>5. outbox' \in Seq(Event)
    BY <1>1, <1>3, <1>4, Appended
  <1>6. \A e \in i.updates \cup i.appends : /\ Cardinality(At(outbox', e)) = Cardinality(At(outbox, e)) + 1
                                            /\ Tells(outbox', e, i.operation_id)
    <2> SUFFICES ASSUME NEW e \in i.updates \cup i.appends
                 PROVE  /\ Cardinality(At(outbox', e)) = Cardinality(At(outbox, e)) + 1
                        /\ Tells(outbox', e, i.operation_id)
      OBVIOUS
    <2>1. PICK k : At(t, e) = {k}
      BY <1>3
    <2>2. t[k].revision = i.operation_id
      BY <1>3, <2>1 DEF At
    <2>3. /\ Cardinality(At(outbox \o t, e)) = Cardinality(At(outbox, e)) + 1
          /\ Tells(outbox \o t, e, t[k].revision)
      <3>1. t \in Seq(Event) /\ outbox \in Seq(Event)
        BY <1>3, <1>4
      <3> QED
        BY <2>1, <3>1, AtOne
    <2>4. outbox' = outbox \o t
      BY <1>1
    <2> QED
      BY <2>2, <2>3, <2>4
  <1>7. \A e : e \notin i.updates \cup i.appends =>
               /\ At(outbox', e) = At(outbox, e)
               /\ \A head : Tells(outbox, e, head) => Tells(outbox', e, head)
    BY <1>1, <1>3, <1>4, AtNone
  <1>8. \A r \in Resource : Tells(outbox', r, heads'[r])
    BY <1>1, <1>2, <1>4, <1>6, <1>7, NamesAssumption DEF Explained
  <1>9. \A r \in RecordId : Cardinality(At(outbox', r)) = IF r \in records' THEN 1 ELSE 0
    <2> SUFFICES ASSUME NEW r \in RecordId
                 PROVE  Cardinality(At(outbox', r)) = IF r \in records' THEN 1 ELSE 0
      OBVIOUS
    <2>1. CASE r \in i.appends
      <3>1. r \notin records /\ r \in records'
        BY <1>1, <2>1
      <3>2. Cardinality(At(outbox, r)) = 0
        BY <1>4, <3>1 DEF Explained
      <3> QED
        BY <1>6, <2>1, <3>1, <3>2
    <2>2. CASE r \notin i.appends
      BY <1>1, <1>2, <1>4, <1>7, <2>2, NamesAssumption DEF Explained
    <2> QED
      BY <2>1, <2>2
  <1>10. \A o \in OperationId :
           Together(outbox', o, IF receipts'[o] = None THEN <<>> ELSE Effects(receipts'[o].intent))
    <2> SUFFICES ASSUME NEW o \in OperationId
                 PROVE  Together(outbox', o, IF receipts'[o] = None THEN <<>> ELSE Effects(receipts'[o].intent))
      OBVIOUS
    <2>1. CASE o = i.operation_id
      <3>1. Together(outbox, o, <<>>)
        BY <1>1, <1>4, <2>1 DEF Explained
      <3>2. Together(outbox', o, t)
        BY <1>1, <1>3, <1>4, <2>1, <3>1, TogetherNew
      <3> QED
        BY <1>1, <2>1, <3>2 DEF t
    <2>2. CASE o # i.operation_id
      <3> DEFINE es == IF receipts[o] = None THEN <<>> ELSE Effects(receipts[o].intent)
      <3>1. es \in Seq(Event)
        BY AcceptedEffects
      <3>2. Together(outbox, o, es)
        BY <1>4 DEF Explained
      <3>3. receipts'[o] = receipts[o]
        BY <1>1, <2>2
      <3> HIDE DEF es
      <3>4. Together(outbox', o, es)
        BY <1>1, <1>3, <1>4, <2>2, <3>1, <3>2, TogetherKept
      <3> QED
        BY <3>3, <3>4 DEF es
    <2> QED
      BY <2>1, <2>2
  <1>11. \A g \in GrantId :
           Cardinality(At(outbox', g)) = IF grants'[g] = None THEN 0 ELSE IF grants'[g].revoked THEN 2 ELSE 1
    BY <1>1, <1>2, <1>4, <1>7, NamesAssumption DEF Explained
  <1>12. Explained(outbox', heads', records', receipts', grants')
    BY <1>8, <1>9, <1>10, <1>11 DEF Explained
  <1> QED
    BY <1>1, <1>2, <1>4, <1>5, <1>12, ExplainedIs DEF OutboxStands

\* Every step appends what explains the change it makes to the tables.
LEMMA OutboxNext ==
  ASSUME Standing, OutboxStands, [Next]_vars
  PROVE  OutboxStands'
PROOF
  <1>1. CASE UNCHANGED <<outbox, heads, records, receipts, grants>>
    BY <1>1, ExplainedIs DEF OutboxStands
  <1>2. \/ UNCHANGED <<outbox, heads, records, receipts, grants>>
        \/ \E C \in SUBSET Person : \/ \E g \in scenario.offers : Grant(g, C)
                                    \/ \E g \in GrantId : Revoke(g, C)
                                    \/ \E e \in scenario.imports : Import(e, C)
        \/ \E n \in Nonce, commit \in now..scenario.until : \E presented \in SUBSET approvals : Execute(n, presented, commit)
    BY ZenonT(60) DEF Next, vars, Tick, Bootstrap, SignTransition, IssueChallenge, Approve, TakeTransition, Retry
  <1> QED
    BY <1>1, <1>2, OutboxGrant, OutboxRevoke, OutboxImport, OutboxExecute

\* The outbox tells the whole story at all times: a reader of the events alone knows the
\* head of every resource, which records exist, and that each accepted operation's effects
\* are there once and together, retries and refusals having left none (execute,
\* importRevision, govern).
THEOREM SafeOutbox == Spec => []OutboxExplains
PROOF
  <1>1. Standing /\ OutboxStands => OutboxExplains
    BY DEF OutboxStands
  <1> QED
    BY <1>1, StandingInit, StandingNext, OutboxInit, OutboxNext, PTL DEF Spec
-----------------------------------------------------------------------------
(* The feed: numbers, and what a fold does *)

\* Numbers up to a bound have a greatest one.
LEMMA Greatest ==
  ASSUME NEW n \in Nat, NEW S \in SUBSET (0..n), S # {}
  PROVE  Max(S) \in S /\ \A y \in S : y <= Max(S)
PROOF
  <1> DEFINE D == {n - y : y \in S}
  <1>1. D \in SUBSET Nat /\ D # {}
    <2>1. \A y \in S : y \in 0..n
      OBVIOUS
    <2>2. \A y \in 0..n : n - y \in Nat
      OBVIOUS
    <2> QED
      BY <2>1, <2>2
  <1>2. PICK d \in D : \A e \in D : d <= e
    BY <1>1, LeastNumber
  <1>3. PICK x \in S : d = n - x
    BY <1>2
  <1>4. \A y \in S : x >= y
    BY <1>2, <1>3
  <1>5. Max(S) \in S /\ \A y \in S : Max(S) >= y
    BY <1>4 DEF Max
  <1>6. Max(S) \in 0..n /\ \A y \in S : y \in 0..n
    BY <1>5
  <1> QED
    BY <1>5, <1>6

\* f lists S in order.
Lists(f, S) ==
  /\ Cardinality(S) \in Nat
  /\ f \in [1..Cardinality(S) -> S]
  /\ \A i, j \in 1..Cardinality(S) : i < j => f[i] < f[j]

LEMMA Listable ==
  ASSUME NEW n \in Nat, NEW S, S \in SUBSET (0..n)
  PROVE  \E f : Lists(f, S)
PROOF
  <1> DEFINE Bad == {T \in SUBSET S : ~\E f : Lists(f, T)}
  <1>1. IsFiniteSet(S)
    <2>1. IsFiniteSet(0..n)
      BY FS_Interval
    <2> QED
      BY <2>1, FS_Subset
  <1> SUFFICES ASSUME Bad # {} PROVE FALSE
    OBVIOUS
  <1>2. PICK T \in Bad : \A U \in Bad : U \subseteq T => U = T
    <2> HIDE DEF Bad
    <2>1. Bad \in SUBSET SUBSET S
      BY DEF Bad
    <2>2. Bad # {}
      OBVIOUS
    <2> QED
      BY ONLY <1>1, <2>1, <2>2, MinimalSubset
  <1>3. T \in SUBSET (0..n) /\ IsFiniteSet(T) /\ Cardinality(T) \in Nat
    BY <1>1, <1>2, FS_Subset, FS_CardinalityType
  <1>4. T # {}
    <2> SUFFICES ASSUME T = {} PROVE FALSE
      OBVIOUS
    <2>1. Cardinality(T) = 0
      BY FS_EmptySet
    <2>2. Lists([i \in 1..0 |-> 0], T)
      BY <2>1 DEF Lists
    <2> QED
      BY <1>2, <2>2
  <1> DEFINE m == Max(T)
             U == T \ {m}
             k == Cardinality(U)
  <1>5. m \in T /\ \A y \in T : y <= m
    BY <1>3, <1>4, Greatest
  <1>6. U \subseteq T /\ U # T /\ U \in SUBSET S /\ U \notin Bad
    BY <1>2, <1>5
  <1>7. PICK f : Lists(f, U)
    BY <1>6
  <1>8. k \in Nat /\ Cardinality(T) = k + 1
    <2>1. Cardinality(U) = Cardinality(T) - 1
      BY <1>3, <1>5, FS_RemoveElement
    <2>2. Cardinality(U) \in Nat
      BY <1>7 DEF Lists
    <2> HIDE DEF U
    <2> QED
      BY <1>3, <2>1, <2>2
  <1>9. f \in [1..k -> U] /\ \A i, j \in 1..k : i < j => f[i] < f[j]
    BY <1>7 DEF Lists
  <1>10. \A y \in U : y < m /\ y \in T
    <2> SUFFICES ASSUME NEW y \in U PROVE y < m /\ y \in T
      OBVIOUS
    <2>1. y \in T /\ y # m
      OBVIOUS
    <2> HIDE DEF m, U
    <2>2. m \in 0..n /\ y \in 0..n /\ y <= m
      BY <1>3, <1>5, <2>1
    <2> QED
      BY <2>1, <2>2
  <1> HIDE DEF m, U, k, Bad
  <1> DEFINE g == [i \in 1..(k + 1) |-> IF i = k + 1 THEN m ELSE f[i]]
  <1>11. g \in [1..(k + 1) -> T]
    BY <1>5, <1>8, <1>9, <1>10
  <1>12. ASSUME NEW i \in 1..(k + 1), NEW j \in 1..(k + 1), i < j PROVE g[i] < g[j]
    <2>1. i \in 1..k /\ g[i] = f[i]
      BY <1>8, <1>12
    <2>2. CASE j = k + 1
      BY <1>9, <1>10, <2>1, <2>2
    <2>3. CASE j # k + 1
      BY <1>8, <1>9, <1>12, <2>1, <2>3
    <2> QED
      BY <2>2, <2>3
  <1> HIDE DEF g
  <1>13. Lists(g, T)
    BY <1>3, <1>8, <1>11, <1>12 DEF Lists
  <1> QED
    BY <1>2, <1>13 DEF Bad

\* InOrder lists a set of numbers, and leaves none out.
LEMMA InOrderLists ==
  ASSUME NEW n \in Nat, NEW S \in SUBSET (0..n)
  PROVE  Lists(InOrder(S), S) /\ \A x \in S : \E i \in 1..Cardinality(S) : InOrder(S)[i] = x
PROOF
  <1> DEFINE f == InOrder(S)
  <1>1. IsFiniteSet(S) /\ Cardinality(S) \in Nat
    <2>1. IsFiniteSet(0..n)
      BY FS_Interval
    <2> QED
      BY <2>1, FS_Subset, FS_CardinalityType
  <1>2. Lists(f, S)
    <2>1. PICK g : Lists(g, S)
      BY Listable
    <2>2. g \in [1..Cardinality(S) -> S] /\ \A i, j \in DOMAIN g : i < j => g[i] < g[j]
      BY <2>1 DEF Lists
    <2>3. f \in [1..Cardinality(S) -> S] /\ \A i, j \in DOMAIN f : i < j => f[i] < f[j]
      BY <2>2 DEF InOrder
    <2> QED
      BY <1>1, <2>3 DEF Lists
  <1> HIDE DEF f
  <1>3. \A i \in 1..Cardinality(S) : f[i] \in Nat
    <2>1. f \in [1..Cardinality(S) -> S]
      BY <1>2 DEF Lists
    <2>2. \A i \in 1..Cardinality(S) : f[i] \in S
      BY <2>1
    <2>3. \A x \in S : x \in Nat
      OBVIOUS
    <2> QED
      BY <2>2, <2>3
  <1>4. \A i, j \in 1..Cardinality(S) : f[i] = f[j] => i = j
    <2> SUFFICES ASSUME NEW i \in 1..Cardinality(S), NEW j \in 1..Cardinality(S), f[i] = f[j] PROVE i = j
      OBVIOUS
    <2>1. i \in Nat /\ j \in Nat /\ f[i] \in Nat /\ f[j] \in Nat
      BY <1>1, <1>3
    <2>2. (i < j => f[i] < f[j]) /\ (j < i => f[j] < f[i])
      BY <1>2 DEF Lists
    <2> QED
      BY <2>1, <2>2
  <1>5. f \in Injection(1..Cardinality(S), S)
    BY <1>2, <1>4 DEF Lists, Injection, IsInjective
  <1>6. Cardinality(1..Cardinality(S)) = Cardinality(S)
    BY <1>1, FS_Interval
  <1>7. f \in Surjection(1..Cardinality(S), S)
    BY <1>1, <1>5, <1>6, FS_Injection
  <1> QED
    BY <1>2, <1>7 DEF Surjection, f

\* Events into a view, and deliveries into a consumer, are taken alike.
Taking(kind, before, e) == IF kind = "view" THEN TakeEvent(before, e) ELSE TakeDelivery(before, e)
\* g takes what stands at each set of places among the first n, the last one last.
Takes(g, kind, start, s, n) ==
  g = [t \in SUBSET (1..n) |->
         IF t = {} THEN start ELSE Taking(kind, g[t \ {Max(t)}], s[Max(t)])]

LEMMA TakesExist ==
  ASSUME NEW kind, NEW start, NEW s, NEW n \in Nat
  PROVE  \E g : Takes(g, kind, start, s, n)
PROOF
  <1> DEFINE B == {k \in Nat : ~\E g : Takes(g, kind, start, s, k)}
  <1> SUFFICES ASSUME B # {} PROVE FALSE
    OBVIOUS
  <1>1. PICK k \in B : \A j \in B : k <= j
    <2> HIDE DEF B
    <2>1. B \in SUBSET Nat
      BY DEF B
    <2> QED
      BY <2>1, LeastNumber
  <1>2. CASE k = 0
    <2> DEFINE g == [t \in SUBSET (1..0) |-> start]
    <2>1. \A t \in SUBSET (1..0) : t = {}
      OBVIOUS
    <2>2. Takes(g, kind, start, s, 0)
      BY <2>1 DEF Takes
    <2> QED
      BY <1>1, <1>2, <2>2
  <1>3. CASE k # 0
    <2>1. k - 1 \in Nat /\ k \in Nat /\ ~(k <= k - 1) /\ k \in 1..k
      BY <1>1, <1>3
    <2>2. PICK g : Takes(g, kind, start, s, k - 1)
      BY <1>1, <2>1
    <2> DEFINE h == [t \in SUBSET (1..k) |-> IF k \in t THEN Taking(kind, g[t \ {k}], s[k]) ELSE g[t]]
               step(f, t) == IF t = {} THEN start ELSE Taking(kind, f[t \ {Max(t)}], s[Max(t)])
    <2>3. \A t \in SUBSET (1..(k - 1)) : g[t] = step(g, t)
      BY <2>2 DEF Takes
    <2>4. ASSUME NEW t \in SUBSET (1..k) PROVE h[t] = step(h, t)
      <3>1. CASE k \in t
        <4>1. t \in SUBSET (0..k) /\ t # {}
          BY <2>1, <3>1
        <4>2. Max(t) \in t /\ k <= Max(t)
          BY <2>1, <3>1, <4>1, Greatest
        <4>3. Max(t) = k
          <5>1. Max(t) \in 1..k
            BY <4>2
          <5> QED
            BY <2>1, <4>2, <5>1
        <4>4. t \ {k} \in SUBSET (1..k) /\ k \notin t \ {k}
          OBVIOUS
        <4>5. h[t \ {k}] = g[t \ {k}]
          BY <4>4
        <4>6. h[t] = Taking(kind, g[t \ {k}], s[k])
          BY <3>1
        <4> HIDE DEF h
        <4> QED
          BY <4>1, <4>3, <4>5, <4>6
      <3>2. CASE k \notin t
        <4>1. t \in SUBSET (1..(k - 1)) /\ h[t] = g[t]
          BY <2>1, <3>2
        <4>2. t \ {Max(t)} \in SUBSET (1..k) /\ k \notin t \ {Max(t)}
          BY <3>2
        <4>3. h[t \ {Max(t)}] = g[t \ {Max(t)}]
          BY <4>2
        <4>4. g[t] = step(g, t)
          BY <2>3, <4>1
        <4> HIDE DEF h
        <4> QED
          BY <4>1, <4>3, <4>4
      <3> QED
        BY <3>1, <3>2
    <2>5. h = [t \in SUBSET (1..k) |-> h[t]]
      OBVIOUS
    <2> HIDE DEF h
    <2>6. h = [t \in SUBSET (1..k) |-> step(h, t)]
      <3> HIDE DEF step
      <3> QED
        BY <2>4, <2>5
    <2>7. Takes(h, kind, start, s, k)
      BY <2>6 DEF Takes
    <2> QED
      BY <1>1, <2>7
  <1> QED
    BY <1>2, <1>3

\* What was taken after each turn.
Turns(f, kind, start, s, n) ==
  f[0] = start /\ \A i \in 1..n : f[i] = Taking(kind, f[i - 1], s[i])

LEMMA TakesInTurn ==
  ASSUME NEW kind, NEW start, NEW s, NEW n \in Nat, NEW g, Takes(g, kind, start, s, n)
  PROVE  \E f : Turns(f, kind, start, s, n) /\ f[n] = g[1..n]
PROOF
  <1> DEFINE f == [i \in 0..n |-> g[1..i]]
             step(t) == IF t = {} THEN start ELSE Taking(kind, g[t \ {Max(t)}], s[Max(t)])
  <1>1. \A t \in SUBSET (1..n) : g[t] = step(t)
    BY DEF Takes
  <1>2. f[0] = start
    <2>1. 1..0 = {} /\ {} \in SUBSET (1..n)
      OBVIOUS
    <2>2. f[0] = g[{}]
      BY <2>1
    <2> QED
      BY <1>1, <2>1, <2>2
  <1>3. ASSUME NEW i \in 1..n PROVE f[i] = Taking(kind, f[i - 1], s[i])
    <2>1. 1..i \in SUBSET (0..i) /\ 1..i # {} /\ i \in 1..i /\ i \in Nat /\ 1..i \in SUBSET (1..n)
      OBVIOUS
    <2>2. Max(1..i) \in 1..i /\ i <= Max(1..i)
      BY <2>1, Greatest
    <2>3. Max(1..i) = i
      BY <2>1, <2>2
    <2>4. (1..i) \ {i} = 1..(i - 1)
      OBVIOUS
    <2>5. g[1..i] = Taking(kind, g[1..(i - 1)], s[i])
      BY <1>1, <2>1, <2>3, <2>4
    <2>6. i \in 0..n /\ i - 1 \in 0..n
      OBVIOUS
    <2> QED
      BY <2>5, <2>6
  <1>4. f[n] = g[1..n]
    OBVIOUS
  <1> HIDE DEF f
  <1> QED
    BY <1>2, <1>3, <1>4 DEF Turns

\* The fold over a batch, and the one over a page, go through their elements in turn.
LEMMA BatchInTurn ==
  ASSUME NEW start, NEW s, NEW n \in Nat, DOMAIN s = 1..n
  PROVE  \E f : Turns(f, "view", start, s, n) /\ f[n] = FoldLeft(TakeEvent, start, s)
PROOF
  <1> DEFINE Graph(g) == g = [t \in SUBSET (DOMAIN s) |->
                                IF t = {} THEN start ELSE TakeEvent(g[t \ {Max(t)}], s[Max(t)])]
  <1>1. FoldLeft(TakeEvent, start, s) = (CHOOSE g : Graph(g))[DOMAIN s]
    BY DEF FoldLeft, MapThenFoldSet
  <1>2. \A g : Graph(g) <=> Takes(g, "view", start, s, n)
    BY DEF Takes, Taking
  <1>3. \E g : Graph(g)
    BY <1>2, TakesExist
  <1> HIDE DEF Graph
  <1>4. PICK g : g = (CHOOSE h : Graph(h)) /\ Graph(g)
    BY <1>3
  <1>5. Takes(g, "view", start, s, n)
    BY <1>2, <1>4
  <1>6. PICK f : Turns(f, "view", start, s, n) /\ f[n] = g[1..n]
    BY <1>5, TakesInTurn
  <1> QED
    BY <1>1, <1>4, <1>6

LEMMA PageInTurn ==
  ASSUME NEW start, NEW s, NEW n \in Nat, DOMAIN s = 1..n
  PROVE  \E f : Turns(f, "consumer", start, s, n) /\ f[n] = FoldLeft(TakeDelivery, start, s)
PROOF
  <1> DEFINE Graph(g) == g = [t \in SUBSET (DOMAIN s) |->
                                IF t = {} THEN start ELSE TakeDelivery(g[t \ {Max(t)}], s[Max(t)])]
  <1>1. FoldLeft(TakeDelivery, start, s) = (CHOOSE g : Graph(g))[DOMAIN s]
    BY DEF FoldLeft, MapThenFoldSet
  <1>2. \A g : Graph(g) <=> Takes(g, "consumer", start, s, n)
    BY DEF Takes, Taking
  <1>3. \E g : Graph(g)
    BY <1>2, TakesExist
  <1> HIDE DEF Graph
  <1>4. PICK g : g = (CHOOSE h : Graph(h)) /\ Graph(g)
    BY <1>3
  <1>5. Takes(g, "consumer", start, s, n)
    BY <1>2, <1>4
  <1>6. PICK f : Turns(f, "consumer", start, s, n) /\ f[n] = g[1..n]
    BY <1>5, TakesInTurn
  <1> QED
    BY <1>1, <1>4, <1>6
-----------------------------------------------------------------------------
(* The feed: what the outbox says of an entity *)

\* An outbox, as the feed reads it: no two carried events of an entity have one
\* revision, and every carried revision is a name.
Carries(s, k) == s[k].entity \in Resource \cup RecordId
History(s) ==
  /\ s \in Seq(Event)
  /\ \A j, k \in DOMAIN s :
        Carries(s, j) /\ s[j].entity = s[k].entity /\ s[j].revision = s[k].revision => j = k
  /\ \A k \in DOMAIN s : Carries(s, k) => s[k].revision \in OperationId \cup {Imported}

LEMMA HistoryGrows ==
  ASSUME NEW s, NEW t, History(s), History(t),
         \A j \in DOMAIN s, k \in DOMAIN t :
            ~(Carries(s, j) /\ s[j].entity = t[k].entity /\ s[j].revision = t[k].revision)
  PROVE  History(s \o t)
PROOF
  <1> DEFINE u == s \o t
  <1>1. s \in Seq(Event) /\ t \in Seq(Event)
    BY DEF History
  <1>2. /\ u \in Seq(Event) /\ Len(s) \in Nat /\ Len(t) \in Nat
        /\ DOMAIN s = 1..Len(s) /\ DOMAIN t = 1..Len(t)
        /\ DOMAIN u = 1..(Len(s) + Len(t))
        /\ \A n \in DOMAIN s : u[n] = s[n]
        /\ \A k \in DOMAIN t : u[Len(s) + k] = t[k]
    BY <1>1, Appended
  <1> HIDE DEF u
  <1>3. \A n \in DOMAIN u : n \in DOMAIN s \/ \E k \in DOMAIN t : n = Len(s) + k
    <2> SUFFICES ASSUME NEW n \in 1..(Len(s) + Len(t)), n \notin 1..Len(s)
                 PROVE  \E k \in DOMAIN t : n = Len(s) + k
      BY <1>2
    <2>1. n - Len(s) \in 1..Len(t) /\ n = Len(s) + (n - Len(s))
      BY <1>2
    <2> QED
      BY <1>2, <2>1
  <1>4. ASSUME NEW n \in DOMAIN u, Carries(u, n) PROVE u[n].revision \in OperationId \cup {Imported}
    <2>1. CASE n \in DOMAIN s
      BY <1>2, <1>4, <2>1 DEF History, Carries
    <2>2. CASE \E k \in DOMAIN t : n = Len(s) + k
      BY <1>2, <1>4, <2>2 DEF History, Carries
    <2> QED
      BY <1>3, <2>1, <2>2
  <1>5. ASSUME NEW m \in DOMAIN u, NEW n \in DOMAIN u,
               Carries(u, m), u[m].entity = u[n].entity, u[m].revision = u[n].revision
        PROVE  m = n
    <2>1. CASE m \in DOMAIN s /\ n \in DOMAIN s
      BY <1>2, <1>5, <2>1 DEF History, Carries
    <2>2. CASE m \in DOMAIN s /\ \E k \in DOMAIN t : n = Len(s) + k
      BY <1>2, <1>5, <2>2 DEF Carries
    <2>3. CASE n \in DOMAIN s /\ \E k \in DOMAIN t : m = Len(s) + k
      BY <1>2, <1>5, <2>3 DEF Carries
    <2>4. CASE (\E k \in DOMAIN t : m = Len(s) + k) /\ \E k \in DOMAIN t : n = Len(s) + k
      BY <1>2, <1>5, <2>4 DEF History, Carries
    <2> QED
      BY <1>3, <2>1, <2>2, <2>3, <2>4
  <1>6. History(u)
    BY <1>2, <1>4, <1>5 DEF History
  <1> QED
    BY <1>6 DEF u

LEMMA HistoryOne ==
  ASSUME NEW s, History(s), NEW ev \in Event,
         ev.entity \in Resource \cup RecordId => ev.revision \in OperationId \cup {Imported} /\ At(s, ev.entity) = {}
  PROVE  History(Append(s, ev))
PROOF
  <1> DEFINE t == <<ev>>
  <1>1. t \in Seq(Event) /\ DOMAIN t = {1} /\ t[1] = ev
    OBVIOUS
  <1>2. s \in Seq(Event) /\ Append(s, ev) = s \o t
    BY AppendIsConcat DEF History
  <1> HIDE DEF t
  <1>3. History(t)
    BY <1>1 DEF History, Carries
  <1>4. \A j \in DOMAIN s, k \in DOMAIN t :
            ~(Carries(s, j) /\ s[j].entity = t[k].entity /\ s[j].revision = t[k].revision)
    BY <1>1 DEF Carries, At
  <1> QED
    BY <1>2, <1>3, <1>4, HistoryGrows

\* The store writes such an outbox.
LEMMA HistoryInit == Init => History(outbox)
  BY EmptySeq DEF Init, StoreInit, History

LEMMA HistoryNext ==
  ASSUME Standing, OutboxStands, History(outbox), [Next]_vars
  PROVE  History(outbox')
PROOF
  <1>1. CASE UNCHANGED outbox
    BY <1>1
  <1>2. ASSUME NEW C, NEW g \in scenario.offers, Grant(g, C) PROVE History(outbox')
    <2> DEFINE ev == [kind |-> "authority.changed", entity |-> g.id, revision |-> "grant"]
    <2>1. g.id \in GrantId
      BY ScenarioAssumption DEF Standing, TypeOK, CapabilityGrant
    <2>2. ev \in Event /\ ev.entity = g.id
      BY <2>1 DEF Event
    <2>3. outbox' = Append(outbox, ev)
      BY <1>2 DEF Grant
    <2>4. g.id \notin Resource \cup RecordId
      BY <2>1, NamesAssumption
    <2> HIDE DEF ev
    <2> QED
      BY <2>2, <2>3, <2>4, HistoryOne
  <1>3. ASSUME NEW C, NEW g \in GrantId, Revoke(g, C) PROVE History(outbox')
    <2> DEFINE ev == [kind |-> "authority.changed", entity |-> g, revision |-> "revoke"]
    <2>1. ev \in Event /\ ev.entity = g
      BY DEF Event
    <2>2. outbox' = Append(outbox, ev)
      BY <1>3 DEF Revoke
    <2>3. g \notin Resource \cup RecordId
      BY NamesAssumption
    <2> HIDE DEF ev
    <2> QED
      BY <2>1, <2>2, <2>3, HistoryOne
  <1>4. ASSUME NEW C, NEW e, Import(e, C) PROVE History(outbox')
    <2> DEFINE ev == [kind |-> "revision.imported", entity |-> e, revision |-> Imported]
    <2>1. /\ outbox' = Append(outbox, ev)
          /\ (e \in Resource /\ heads[e] = None) \/ e \in RecordId \ records
      BY <1>4 DEF Import
    <2>2. ev \in Event /\ ev.entity = e /\ ev.revision = Imported
      BY <2>1 DEF Event
    <2> HIDE DEF ev
    <2>3. Explained(outbox, heads, records, receipts, grants) /\ outbox \in Seq(Event)
      BY ExplainedIs DEF OutboxStands
    <2>4. At(outbox, e) = {}
      <3>1. CASE e \in Resource /\ heads[e] = None
        <4>1. Tells(outbox, e, None)
          BY <2>3, <3>1 DEF Explained
        <4>2. \A n \in At(outbox, e) : outbox[n].revision # None
          BY <3>1, FeedAssumption DEF At, History, Carries
        <4> QED
          BY <4>1, <4>2 DEF Tells
      <3>2. CASE e \in RecordId \ records
        <4>1. Cardinality(At(outbox, e)) = 0
          BY <2>3, <3>2 DEF Explained
        <4> QED
          BY <2>3, <4>1, AtFinite
      <3> QED
        BY <2>1, <3>1, <3>2
    <2> QED
      BY <2>1, <2>2, <2>4, HistoryOne
  <1>5. ASSUME NEW n \in Nonce, NEW commit \in now..scenario.until, NEW presented \in SUBSET approvals,
               Execute(n, presented, commit)
        PROVE  History(outbox')
    <2> DEFINE i == challenges[n].intent
               t == Effects(i)
    <2>1. i \in OperationIntent /\ outbox' = outbox \o t /\ receipts[i.operation_id] = None
      BY <1>5, ExecuteTables
    <2>2. i.operation_id \in OperationId
      BY <2>1 DEF OperationIntent
    <2>3. /\ t \in Seq(Event)
          /\ \A k \in DOMAIN t : t[k].revision = i.operation_id
          /\ \A e \in i.updates \cup i.appends : \E k : At(t, e) = {k}
          /\ \A e : e \notin i.updates \cup i.appends => At(t, e) = {}
      BY <2>1, EffectsFacts
    <2> HIDE DEF t
    <2>4. History(t)
      <3>1. ASSUME NEW j \in DOMAIN t, NEW k \in DOMAIN t, t[j].entity = t[k].entity PROVE j = k
        <4>1. j \in At(t, t[j].entity) /\ k \in At(t, t[j].entity)
          BY <3>1 DEF At
        <4>2. PICK m : At(t, t[j].entity) = {m}
          BY <2>3, <4>1
        <4> QED
          BY <4>1, <4>2
      <3> QED
        BY <2>2, <2>3, <3>1 DEF History
    <2>5. \A j \in DOMAIN outbox : outbox[j].revision # i.operation_id
      <3>1. Explained(outbox, heads, records, receipts, grants)
        BY ExplainedIs DEF OutboxStands
      <3>2. Together(outbox, i.operation_id, <<>>)
        BY <2>1, <2>2, <3>1 DEF Explained
      <3>3. PICK m \in 0..Len(outbox) : {x \in DOMAIN outbox : outbox[x].revision = i.operation_id} = (m + 1)..(m + Len(<<>>))
        BY <3>2 DEF Together
      <3>4. (m + 1)..(m + Len(<<>>)) = {}
        BY EmptySeq
      <3> QED
        BY <3>3, <3>4
    <2>6. \A j \in DOMAIN outbox, k \in DOMAIN t :
            ~(Carries(outbox, j) /\ outbox[j].entity = t[k].entity /\ outbox[j].revision = t[k].revision)
      BY <2>3, <2>5
    <2>7. History(outbox \o t)
      BY <2>4, <2>6, HistoryGrows
    <2> QED
      BY <2>1, <2>7
  <1>6. \/ UNCHANGED outbox
        \/ \E C \in SUBSET Person : \/ \E g \in scenario.offers : Grant(g, C)
                                    \/ \E g \in GrantId : Revoke(g, C)
                                    \/ \E e \in scenario.imports : Import(e, C)
        \/ \E n \in Nonce, commit \in now..scenario.until : \E presented \in SUBSET approvals : Execute(n, presented, commit)
    BY ZenonT(60) DEF Next, vars, Tick, Bootstrap, SignTransition, IssueChallenge, Approve, TakeTransition, Retry
  <1> QED
    BY <1>1, <1>2, <1>3, <1>4, <1>5, <1>6
-----------------------------------------------------------------------------
(* The feed: changes and projections *)

\* ChangeAt and Projection, of any outbox and any times of acceptance.
Earlier(s, k) == {j \in 1..(k - 1) : s[j].entity = s[k].entity}
Change(s, at, k) ==
  [event_id |-> k, entity |-> s[k].entity,
   previous |-> IF Earlier(s, k) = {} THEN None ELSE s[Max(Earlier(s, k))].revision,
   value |-> s[k].revision, accepted_at |-> at[k]]
LastUpTo(s, n, k) == Carries(s, k) /\ \A l \in (k + 1)..n : s[l].entity # s[k].entity
ItemOf(s, k) == [entity |-> s[k].entity, revision |-> s[k].revision]
Told(s, n) == {ItemOf(s, k) : k \in {j \in 1..n : LastUpTo(s, n, j)}}
\* Nothing is carried between two places.
Quiet(s, a, b) == \A j \in (a + 1)..b : ~Carries(s, j)

LEMMA FeedReads ==
  /\ \A k : ChangeAt(k) = Change(outbox, accepted_at, k) /\ (Carried(k) <=> Carries(outbox, k))
  /\ \A n : Projection(n) = Told(outbox, n)
  BY DEF ChangeAt, Change, Before, Earlier, Carried, Carries, Projection, Told, ItemOf, LastUpTo

LEMMA ToldIs ==
  ASSUME NEW s, NEW n, NEW x
  PROVE  x \in Told(s, n) <=> \E k \in 1..n : LastUpTo(s, n, k) /\ x = ItemOf(s, k)
  BY DEF Told

\* An entity that is carried has a last event.
LEMMA LastOne ==
  ASSUME NEW s, NEW n \in Nat, NEW j \in 1..n, Carries(s, j)
  PROVE  \E l \in j..n : s[l].entity = s[j].entity /\ LastUpTo(s, n, l)
PROOF
  <1> DEFINE S == {m \in j..n : s[m].entity = s[j].entity}
  <1>1. S \in SUBSET (0..n) /\ j \in S /\ S # {}
    OBVIOUS
  <1>2. Max(S) \in S /\ \A y \in S : y <= Max(S)
    BY <1>1, Greatest
  <1>3. PICK l \in j..n : l = Max(S) /\ s[l].entity = s[j].entity
    BY <1>2
  <1>4. \A m \in (l + 1)..n : s[m].entity # s[l].entity
    <2> SUFFICES ASSUME NEW m \in (l + 1)..n, s[m].entity = s[l].entity PROVE FALSE
      OBVIOUS
    <2>1. m \in j..n /\ ~(m <= l)
      OBVIOUS
    <2> QED
      BY <1>2, <1>3, <2>1
  <1> QED
    BY <1>3, <1>4 DEF LastUpTo, Carries

\* The projection holds an entity at the revision of its last event.
LEMMA HeldIs ==
  ASSUME NEW s, NEW n \in Nat, NEW l \in 1..n, LastUpTo(s, n, l)
  PROVE  Held(Told(s, n), s[l].entity) = s[l].revision
PROOF
  <1>1. ItemOf(s, l) \in Told(s, n) /\ ItemOf(s, l).entity = s[l].entity
    BY DEF Told, ItemOf
  <1>2. ASSUME NEW x \in Told(s, n), x.entity = s[l].entity PROVE x.revision = s[l].revision
    <2>1. PICK k \in 1..n : LastUpTo(s, n, k) /\ x = ItemOf(s, k)
      BY ToldIs
    <2>2. s[k].entity = s[l].entity /\ x.revision = s[k].revision
      BY <1>2, <2>1 DEF ItemOf
    <2>3. k = l
      <3>1. \A m \in (k + 1)..n : s[m].entity # s[k].entity
        BY <2>1 DEF LastUpTo
      <3>2. \A m \in (l + 1)..n : s[m].entity # s[l].entity
        BY DEF LastUpTo
      <3>3. k < l \/ k = l \/ l < k
        OBVIOUS
      <3> QED
        BY <2>2, <3>1, <3>2, <3>3
    <2> QED
      BY <2>2, <2>3
  <1> QED
    BY <1>1, <1>2 DEF Held

\* What is not carried changes no projection.
LEMMA ToldQuiet ==
  ASSUME NEW s, NEW a \in Nat, NEW b \in Nat, a <= b, Quiet(s, a, b)
  PROVE  Told(s, b) = Told(s, a)
PROOF
  <1>1. ASSUME NEW k \in 1..b, Carries(s, k) PROVE k \in 1..a
    <2>1. k \notin (a + 1)..b
      BY <1>1 DEF Quiet
    <2> QED
      BY <2>1
  <1>2. \A k \in 1..b : LastUpTo(s, b, k) => k \in 1..a /\ LastUpTo(s, a, k)
    <2> SUFFICES ASSUME NEW k \in 1..b, LastUpTo(s, b, k) PROVE k \in 1..a /\ LastUpTo(s, a, k)
      OBVIOUS
    <2>1. \A l \in (k + 1)..a : l \in (k + 1)..b
      OBVIOUS
    <2> QED
      BY <1>1, <2>1 DEF LastUpTo
  <1>3. \A k \in 1..a : LastUpTo(s, a, k) => k \in 1..b /\ LastUpTo(s, b, k)
    <2> SUFFICES ASSUME NEW k \in 1..a, LastUpTo(s, a, k) PROVE k \in 1..b /\ LastUpTo(s, b, k)
      OBVIOUS
    <2>1. ASSUME NEW l \in (k + 1)..b, s[l].entity = s[k].entity PROVE FALSE
      <3>1. Carries(s, l)
        BY <2>1 DEF LastUpTo, Carries
      <3>2. l \in 1..b
        OBVIOUS
      <3>3. l \in (k + 1)..a
        BY <1>1, <3>1, <3>2
      <3> QED
        BY <2>1, <3>3 DEF LastUpTo
    <2> QED
      BY <2>1 DEF LastUpTo
  <1> QED
    BY <1>2, <1>3 DEF Told

\* A change carries one projection to the next.
LEMMA ToldNext ==
  ASSUME NEW s, NEW at, NEW k \in Nat \ {0}, Carries(s, k), s[k].revision # None
  PROVE  Told(s, k) = Applied(Told(s, k - 1), Change(s, at, k))
PROOF
  <1> DEFINE e == Change(s, at, k)
  <1>1. e.entity = s[k].entity /\ e.value = s[k].revision
    BY DEF Change
  <1>2. Applied(Told(s, k - 1), e) = {i \in Told(s, k - 1) : i.entity # s[k].entity} \cup {ItemOf(s, k)}
    BY <1>1 DEF Applied, ItemOf
  <1> HIDE DEF e
  <1>3. LastUpTo(s, k, k) /\ k \in 1..k
    BY DEF LastUpTo
  <1>4. \A j \in 1..k : j # k => (LastUpTo(s, k, j) <=> j \in 1..(k - 1) /\ LastUpTo(s, k - 1, j) /\ s[j].entity # s[k].entity)
    <2> SUFFICES ASSUME NEW j \in 1..k, j # k
                 PROVE  LastUpTo(s, k, j) <=> j \in 1..(k - 1) /\ LastUpTo(s, k - 1, j) /\ s[j].entity # s[k].entity
      OBVIOUS
    <2>1. j \in 1..(k - 1) /\ (j + 1)..k = ((j + 1)..(k - 1)) \cup {k}
      OBVIOUS
    <2> QED
      BY <2>1 DEF LastUpTo
  <1>5. ASSUME NEW x \in Told(s, k) PROVE x = ItemOf(s, k) \/ (x \in Told(s, k - 1) /\ x.entity # s[k].entity)
    <2>1. PICK j \in 1..k : LastUpTo(s, k, j) /\ x = ItemOf(s, j)
      BY ToldIs
    <2>2. CASE j = k
      BY <2>1, <2>2
    <2>3. CASE j # k
      <3>1. j \in 1..(k - 1) /\ LastUpTo(s, k - 1, j) /\ s[j].entity # s[k].entity
        BY <1>4, <2>1, <2>3
      <3>2. x \in Told(s, k - 1)
        BY <2>1, <3>1, ToldIs
      <3> QED
        BY <2>1, <3>1, <3>2 DEF ItemOf
    <2> QED
      BY <2>2, <2>3
  <1>6. ASSUME NEW x \in Told(s, k - 1), x.entity # s[k].entity PROVE x \in Told(s, k)
    <2>1. PICK j \in 1..(k - 1) : LastUpTo(s, k - 1, j) /\ x = ItemOf(s, j)
      BY ToldIs
    <2>2. s[j].entity # s[k].entity /\ j \in 1..k /\ j # k
      BY <1>6, <2>1 DEF ItemOf
    <2> QED
      BY <1>4, <2>1, <2>2, ToldIs
  <1>7. ItemOf(s, k) \in Told(s, k)
    BY <1>3, ToldIs
  <1> QED
    BY <1>2, <1>5, <1>6, <1>7 DEF e

\* A change that is already in a projection does not apply to it.
LEMMA NotAgain ==
  ASSUME NEW s, NEW at, History(s), NEW m \in 0..Len(s), NEW j \in 1..m, Carries(s, j)
  PROVE  ~Applies(Told(s, m), Change(s, at, j))
PROOF
  <1> DEFINE e == Change(s, at, j)
  <1>1. s \in Seq(Event) /\ Len(s) \in Nat /\ DOMAIN s = 1..Len(s) /\ m \in Nat
    BY LenProperties DEF History
  <1>2. PICK l \in j..m : s[l].entity = s[j].entity /\ LastUpTo(s, m, l)
    BY <1>1, LastOne
  <1>3. l \in 1..m /\ l \in DOMAIN s /\ j \in DOMAIN s
    BY <1>1
  <1>4. Held(Told(s, m), s[j].entity) = s[l].revision
    BY <1>1, <1>2, <1>3, HeldIs
  <1>5. s[l].revision # None
    BY <1>2, <1>3, FeedAssumption DEF History, LastUpTo
  <1>6. CASE Earlier(s, j) = {}
    BY <1>4, <1>5, <1>6 DEF Applies, Change
  <1>7. CASE Earlier(s, j) # {}
    <2>1. Earlier(s, j) \in SUBSET (0..(j - 1)) /\ j - 1 \in Nat
      BY DEF Earlier
    <2>2. Max(Earlier(s, j)) \in Earlier(s, j)
      BY <1>7, <2>1, Greatest
    <2>3. PICK p \in 1..(j - 1) : p = Max(Earlier(s, j)) /\ s[p].entity = s[j].entity
      BY <2>2 DEF Earlier
    <2>4. p \in DOMAIN s /\ p # l
      BY <1>1, <1>2
    <2>5. s[p].revision # s[l].revision
      BY <1>2, <1>3, <2>3, <2>4 DEF History, LastUpTo
    <2> QED
      BY <1>4, <1>7, <2>3, <2>5 DEF Applies, Change
  <1> QED
    BY <1>6, <1>7
-----------------------------------------------------------------------------
(* The feed: a view goes through the outbox *)

\* A checkpoint stands for a place: the first one for where the view was opened.
Place(base, c) == IF c = Base THEN base ELSE c
\* Of what is carried up to n, the checkpoint names the last.
Follows(s, base, c, n) ==
  /\ c \in 0..n /\ base <= Place(base, c) /\ Place(base, c) <= n
  /\ Quiet(s, Place(base, c), n)
\* The changes from one place to another, and what a view delivers of them.
Changes(s, at, base, n) == {Change(s, at, k) : k \in {j \in (base + 1)..n : Carries(s, j)}}
DeliveredAt(s, at, base, k, d) ==
  Carries(s, k) /\ d.change = Change(s, at, k) /\ Follows(s, base, d.previous_checkpoint, k - 1)
Deliveries(s, at, base, n) ==
  {d \in [change : Changes(s, at, base, n), previous_checkpoint : 0..n] :
      \E k \in (base + 1)..n : DeliveredAt(s, at, base, k, d)}

ViewShape(v) ==
  DOMAIN v = {"binding", "snapshot", "source_checkpoint", "snapshot_as_of", "as_of", "expires_at",
              "version", "current", "events", "seen", "floor_checkpoint", "latest_checkpoint", "last_batch"}
\* A view that was opened at base and has come to n.
ViewHolds(v, base, n, s, at) ==
  /\ v.current = Told(s, n)
  /\ v.seen = Changes(s, at, base, n)
  /\ Follows(s, base, v.latest_checkpoint, n)
  /\ v.events \in Seq(Deliveries(s, at, base, n))
\* What a batch does not change until it is committed.
SameView(v, w) ==
  /\ w.binding = v.binding /\ w.snapshot = v.snapshot /\ w.as_of = v.as_of
  /\ w.source_checkpoint = v.source_checkpoint /\ w.version = v.version

\* Deliveries up to a place are deliveries up to a later one.
LEMMA DeliveriesGrow ==
  ASSUME NEW s, NEW at, NEW base \in Nat, NEW n \in Nat, NEW m \in Nat, n <= m
  PROVE  Deliveries(s, at, base, n) \subseteq Deliveries(s, at, base, m)
PROOF
  <1>1. \A k \in (base + 1)..n : k \in (base + 1)..m
    OBVIOUS
  <1>2. Changes(s, at, base, n) \subseteq Changes(s, at, base, m)
    BY <1>1 DEF Changes
  <1>3. \A c \in 0..n : c \in 0..m
    OBVIOUS
  <1> QED
    BY <1>1, <1>2, <1>3 DEF Deliveries

\* A change that was not taken before is refused or the last of the view's.
LEMMA TakenNew ==
  ASSUME NEW v, ViewShape(v), v # None, NEW e, e \notin v.seen, TakeEvent(v, e) # None
  PROVE  LET w == TakeEvent(v, e)
         IN  /\ Applies(v.current, e)
             /\ w.current = Applied(v.current, e)
             /\ w.events = Append(v.events, [change |-> e, previous_checkpoint |-> v.latest_checkpoint])
             /\ w.latest_checkpoint = e.event_id /\ w.seen = v.seen \cup {e}
             /\ ViewShape(w) /\ SameView(v, w)
PROOF
  <1> DEFINE d == [change |-> e, previous_checkpoint |-> v.latest_checkpoint]
             u == [v EXCEPT !.current = Applied(@, e), !.events = Append(@, d),
                            !.latest_checkpoint = e.event_id, !.seen = @ \cup {e}]
  <1>1. Applies(v.current, e) /\ TakeEvent(v, e) = u
    BY DEF TakeEvent, KnownEvent
  <1>2. ViewShape(u)
    BY DEF ViewShape
  <1>3. u.current = Applied(v.current, e) /\ u.seen = v.seen \cup {e}
    BY DEF ViewShape
  <1>4. u.events = Append(v.events, d) /\ u.latest_checkpoint = e.event_id
    BY DEF ViewShape
  <1>5. SameView(v, u)
    BY DEF ViewShape, SameView
  <1> HIDE DEF u
  <1> QED
    BY <1>1, <1>2, <1>3, <1>4, <1>5

\* A change that is not the view's next leaves it alone or is refused; the next one brings
\* it to that change.
LEMMA TakeOne ==
  ASSUME NEW s, NEW at, History(s), NEW base \in Nat, NEW n \in base..Len(s),
         NEW v, ViewShape(v), ViewHolds(v, base, n, s, at), v # None,
         NEW k \in 1..Len(s), Carries(s, k), k <= n \/ Quiet(s, n, k - 1),
         TakeEvent(v, Change(s, at, k)) # None
  PROVE  LET w == TakeEvent(v, Change(s, at, k))
         IN  ViewShape(w) /\ SameView(v, w) /\ ViewHolds(w, base, IF k <= n THEN n ELSE k, s, at)
PROOF
  <1> DEFINE e == Change(s, at, k)
             w == TakeEvent(v, e)
  <1>1. Len(s) \in Nat /\ DOMAIN s = 1..Len(s) /\ n \in Nat /\ k \in Nat
    BY LenProperties DEF History
  <1>2. e.event_id = k
    BY DEF Change
  <1>3. CASE k <= n /\ base < k
    <2>1. e \in v.seen
      <3>1. k \in (base + 1)..n
        BY <1>1, <1>3
      <3> QED
        BY <3>1 DEF ViewHolds, Changes
    <2>2. w = v
      BY <2>1 DEF TakeEvent, KnownEvent
    <2> QED
      BY <1>3, <2>2 DEF SameView
  <1>4. TakeEvent(v, e) # None
    OBVIOUS
  <1>5. \A x \in v.seen : x.event_id \in (base + 1)..n
    BY DEF ViewHolds, Changes, Change
  <1>6. CASE k <= n /\ ~(base < k)
    <2>1. e \notin v.seen
      BY <1>1, <1>2, <1>5, <1>6
    <2>2. k \in 1..n /\ n \in 0..Len(s)
      BY <1>1, <1>6
    <2>3. ~Applies(v.current, e)
      BY <2>2, NotAgain DEF ViewHolds
    <2>4. FALSE
      <3> HIDE DEF e
      <3> QED
        BY <1>4, <2>1, <2>3, TakenNew
    <2> QED
      BY <2>4
  <1>7. CASE ~(k <= n)
    <2>1. e \notin v.seen
      BY <1>1, <1>2, <1>5, <1>7
    <2> DEFINE d == [change |-> e, previous_checkpoint |-> v.latest_checkpoint]
    <2>2. /\ w.current = Applied(v.current, e) /\ w.events = Append(v.events, d)
          /\ w.latest_checkpoint = k /\ w.seen = v.seen \cup {e}
          /\ ViewShape(w) /\ SameView(v, w)
      <3> HIDE DEF e, d, w
      <3> QED
        BY <1>2, <1>4, <2>1, TakenNew DEF w, d
    <2>3. k - 1 \in Nat /\ n <= k - 1 /\ k \in Nat \ {0} /\ k \in (base + 1)..k /\ ~(k <= n)
      BY <1>1, <1>7
    <2>4. Quiet(s, n, k - 1)
      BY <1>7
    <2>5. Told(s, k - 1) = Told(s, n)
      BY <1>1, <2>3, <2>4, ToldQuiet
    <2>6. s[k].revision # None
      BY <1>1, FeedAssumption DEF History
    <2>7. w.current = Told(s, k)
      BY <2>2, <2>3, <2>5, <2>6, ToldNext DEF ViewHolds
    <2>8. \A j \in (base + 1)..k : Carries(s, j) <=> (j = k \/ (j \in (base + 1)..n /\ Carries(s, j)))
      <3> SUFFICES ASSUME NEW j \in (base + 1)..k
                   PROVE  Carries(s, j) <=> (j = k \/ (j \in (base + 1)..n /\ Carries(s, j)))
        OBVIOUS
      <3>1. j = k \/ j \in (base + 1)..n \/ j \in (n + 1)..(k - 1)
        BY <1>1
      <3> QED
        BY <2>4, <3>1 DEF Quiet
    <2>9. \A j \in (base + 1)..n : j \in (base + 1)..k
      BY <1>1, <2>3
    <2>10. w.seen = Changes(s, at, base, k)
      <3>1. v.seen = Changes(s, at, base, n)
        BY DEF ViewHolds
      <3>2. Changes(s, at, base, k) = Changes(s, at, base, n) \cup {Change(s, at, k)}
        BY <2>3, <2>8, <2>9 DEF Changes
      <3> QED
        BY <2>2, <3>1, <3>2
    <2>11. Follows(s, base, w.latest_checkpoint, k)
      <3>1. k # Base /\ base <= k /\ k \in 0..k
        BY <2>3 DEF Base
      <3>2. Quiet(s, k, k)
        BY <2>3 DEF Quiet
      <3> QED
        BY <2>2, <2>3, <3>1, <3>2 DEF Follows, Place
    <2>12. Follows(s, base, v.latest_checkpoint, k - 1)
      <3> DEFINE p == Place(base, v.latest_checkpoint)
      <3>1. v.latest_checkpoint \in 0..n /\ base <= p /\ p <= n /\ Quiet(s, p, n)
        BY DEF ViewHolds, Follows
      <3>2. p \in Nat
        BY <3>1 DEF Place, Base
      <3> HIDE DEF p
      <3>3. Quiet(s, p, k - 1)
        <4> SUFFICES ASSUME NEW j \in (p + 1)..(k - 1) PROVE ~Carries(s, j)
          BY DEF Quiet
        <4>1. j \in (p + 1)..n \/ j \in (n + 1)..(k - 1)
          BY <1>1, <2>3, <3>1, <3>2
        <4> QED
          BY <2>4, <3>1, <4>1 DEF Quiet
      <3>4. v.latest_checkpoint \in 0..(k - 1) /\ p <= k - 1
        BY <1>1, <2>3, <3>1, <3>2
      <3> QED
        BY <3>1, <3>3, <3>4 DEF Follows, p
    <2>13. d \in Deliveries(s, at, base, k)
      <3>1. d.change = e /\ d.previous_checkpoint = v.latest_checkpoint
        OBVIOUS
      <3>2. e \in Changes(s, at, base, k)
        BY <2>3 DEF Changes
      <3>3. v.latest_checkpoint \in 0..k
        <4>1. v.latest_checkpoint \in 0..(k - 1)
          BY <2>12 DEF Follows
        <4> QED
          BY <2>3, <4>1
      <3>4. DeliveredAt(s, at, base, k, d)
        BY <2>12, <3>1 DEF DeliveredAt
      <3>5. d \in [change : Changes(s, at, base, k), previous_checkpoint : 0..k]
        BY <3>2, <3>3
      <3> HIDE DEF d
      <3> QED
        BY <2>3, <3>4, <3>5 DEF Deliveries
    <2>14. w.events \in Seq(Deliveries(s, at, base, k))
      <3>1. Deliveries(s, at, base, n) \subseteq Deliveries(s, at, base, k)
        BY <1>1, <2>3, DeliveriesGrow
      <3>2. v.events \in Seq(Deliveries(s, at, base, k))
        <4>1. v.events \in Seq(Deliveries(s, at, base, n))
          BY DEF ViewHolds
        <4> QED
          BY <3>1, <4>1
      <3> HIDE DEF d
      <3> QED
        BY <2>2, <2>13, <3>2, AppendProperties
    <2> HIDE DEF w
    <2>15. ViewHolds(w, base, k, s, at)
      BY <2>7, <2>10, <2>11, <2>14 DEF ViewHolds
    <2> QED
      BY <1>7, <2>2, <2>15 DEF w
  <1> QED
    BY <1>3, <1>6, <1>7
-----------------------------------------------------------------------------
(* The feed: batches *)

\* What holds at the start and from each number to the next holds at the end.
LEMMA Climb ==
  ASSUME NEW n \in Nat, NEW S, 0 \in S, \A i \in 1..n : i - 1 \in S => i \in S
  PROVE  n \in S
PROOF
  <1> DEFINE D == {j \in 0..n : j \notin S}
  <1> SUFFICES ASSUME D # {} PROVE FALSE
    OBVIOUS
  <1>1. D \in SUBSET Nat
    OBVIOUS
  <1>2. PICK j \in D : \A i \in D : j <= i
    <2> HIDE DEF D
    <2> QED
      BY <1>1, LeastNumber
  <1>3. j \in 0..n /\ j \notin S /\ j # 0
    BY <1>2
  <1>4. j \in 1..n /\ j - 1 \in 0..n /\ ~(j <= j - 1)
    BY <1>3
  <1> QED
    BY <1>2, <1>3, <1>4

\* A view that came to n has come to all that is quiet after it.
LEMMA ViewWaits ==
  ASSUME NEW s, NEW at, NEW base \in Nat, NEW n \in Nat, NEW m \in Nat, base <= n, n <= m, Quiet(s, n, m),
         NEW v, ViewHolds(v, base, n, s, at)
  PROVE  ViewHolds(v, base, m, s, at)
PROOF
  <1>1. v.current = Told(s, m)
    BY ToldQuiet DEF ViewHolds
  <1>2. v.seen = Changes(s, at, base, m)
    <2>1. \A j \in (base + 1)..m : Carries(s, j) => j \in (base + 1)..n
      <3> SUFFICES ASSUME NEW j \in (base + 1)..m, Carries(s, j) PROVE j \in (base + 1)..n
        OBVIOUS
      <3>1. j \notin (n + 1)..m
        BY DEF Quiet
      <3> QED
        BY <3>1
    <2>2. \A j \in (base + 1)..n : j \in (base + 1)..m
      OBVIOUS
    <2>3. Changes(s, at, base, m) = Changes(s, at, base, n)
      BY <2>1, <2>2 DEF Changes
    <2> QED
      BY <2>3 DEF ViewHolds
  <1>3. Follows(s, base, v.latest_checkpoint, m)
    <2> DEFINE c == v.latest_checkpoint
               p == Place(base, c)
    <2>1. c \in 0..n /\ base <= p /\ p <= n /\ Quiet(s, p, n)
      BY DEF ViewHolds, Follows
    <2>2. p \in Nat /\ c \in 0..m
      BY <2>1 DEF Place, Base
    <2> HIDE DEF c, p
    <2>3. Quiet(s, p, m)
      <3> SUFFICES ASSUME NEW j \in (p + 1)..m PROVE ~Carries(s, j)
        BY DEF Quiet
      <3>1. j \in (p + 1)..n \/ j \in (n + 1)..m
        BY <2>1, <2>2
      <3> QED
        BY <2>1, <3>1 DEF Quiet
    <2>4. p <= m
      BY <2>1, <2>2
    <2> QED
      BY <2>1, <2>2, <2>3, <2>4 DEF Follows, p, c
  <1>4. v.events \in Seq(Deliveries(s, at, base, m))
    BY DeliveriesGrow DEF ViewHolds
  <1> QED
    BY <1>1, <1>2, <1>3, <1>4 DEF ViewHolds

\* The places a scan from k brings, and the batch made of them.
Scanned(s, k, to) == {j \in (k + 1)..to : Carries(s, j)}
BatchOf(s, at, k, to) ==
  [i \in 1..Cardinality(Scanned(s, k, to)) |-> Change(s, at, InOrder(Scanned(s, k, to))[i])]

\* A batch that starts at or before where the view stands and is not refused brings the
\* view to its end: what it repeats is skipped, what is new is taken in order, each once.
LEMMA BatchTaken ==
  ASSUME NEW s, NEW at, History(s), NEW base \in Nat, NEW from \in base..Len(s), NEW to \in from..Len(s),
         NEW k \in 0..from, NEW v, ViewShape(v), ViewHolds(v, base, from, s, at),
         FoldLeft(TakeEvent, v, BatchOf(s, at, k, to)) # None
  PROVE  LET w == FoldLeft(TakeEvent, v, BatchOf(s, at, k, to))
         IN  ViewShape(w) /\ SameView(v, w) /\ ViewHolds(w, base, to, s, at)
PROOF
  <1> DEFINE S == Scanned(s, k, to)
             N == Cardinality(S)
             L == InOrder(S)
             es == BatchOf(s, at, k, to)
  <1>1. Len(s) \in Nat /\ from \in Nat /\ to \in Nat /\ k \in Nat /\ from <= to /\ to <= Len(s) /\ k <= from /\ base <= from
    BY LenProperties DEF History
  <1>2. S \in SUBSET (0..to)
    BY <1>1 DEF Scanned
  <1>3. Lists(L, S) /\ \A x \in S : \E i \in 1..N : L[i] = x
    BY <1>1, <1>2, InOrderLists
  <1>4. /\ N \in Nat /\ \A i \in 1..N : L[i] \in S /\ L[i] \in (k + 1)..to /\ Carries(s, L[i])
        /\ \A i, j \in 1..N : i < j => L[i] < L[j]
    BY <1>3 DEF Lists, Scanned
  <1>5. DOMAIN es = 1..N /\ \A i \in 1..N : es[i] = Change(s, at, L[i])
    BY DEF BatchOf
  <1>6. \A j \in (k + 1)..to : Carries(s, j) => j \in S
    BY DEF Scanned
  <1> HIDE DEF S, N, L, es
  <1>7. PICK F : Turns(F, "view", v, es, N) /\ F[N] = FoldLeft(TakeEvent, v, es)
    BY <1>4, <1>5, BatchInTurn
  <1>8. F[0] = v /\ \A i \in 1..N : F[i] = TakeEvent(F[i - 1], Change(s, at, L[i]))
    BY <1>5, <1>7 DEF Turns, Taking
  <1> DEFINE far(i) == IF i = 0 THEN from ELSE IF L[i] <= from THEN from ELSE L[i]
  <1>9. \A i \in 0..N : far(i) \in from..to /\ (i # 0 => L[i] <= far(i))
    BY <1>1, <1>4
  <1>10. ASSUME NEW i \in 0..N, NEW j \in (far(i) + 1)..to, Carries(s, j)
         PROVE  i + 1 \in 1..N /\ L[i + 1] <= j
    <2>1. far(i) \in from..to /\ far(i) \in Nat
      BY <1>1, <1>9
    <2>2. j \in Nat /\ far(i) < j /\ j \in (k + 1)..to
      BY <1>1, <2>1
    <2>3. PICK m \in 1..N : L[m] = j
      BY <1>3, <1>6, <1>10, <2>2
    <2>4. i < m
      <3> SUFFICES ASSUME m <= i PROVE FALSE
        BY <1>4
      <3>1. i \in 1..N /\ i # 0
        BY <1>4
      <3>2. L[m] = L[i] \/ L[m] < L[i]
        <4>1. m = i \/ m < i
          BY <1>4
        <4> QED
          BY <1>4, <3>1, <4>1
      <3>3. L[i] <= far(i) /\ L[i] \in Nat
        BY <1>4, <1>9, <3>1
      <3> HIDE DEF far
      <3> QED
        BY <2>1, <2>2, <2>3, <3>2, <3>3
    <2>5. i + 1 \in 1..N /\ (i + 1 = m \/ i + 1 < m)
      BY <1>4, <2>4
    <2>6. L[i + 1] \in Nat
      BY <1>4, <2>5
    <2> QED
      BY <1>4, <2>2, <2>3, <2>5, <2>6
  <1>11. \A i \in 1..N : L[i] \in 1..Len(s)
    BY <1>1, <1>4
  <1>12. ASSUME NEW i \in 1..N
         PROVE  /\ far(i) = (IF L[i] <= far(i - 1) THEN far(i - 1) ELSE L[i])
                /\ L[i] <= far(i - 1) \/ Quiet(s, far(i - 1), L[i] - 1)
    <2>1. i - 1 \in 0..N /\ L[i] \in (k + 1)..to /\ L[i] \in Nat /\ (i # 1 => i - 1 \in 1..N /\ L[i - 1] < L[i] /\ L[i - 1] \in Nat)
      BY <1>1, <1>4
    <2>2. far(i) = (IF L[i] <= far(i - 1) THEN far(i - 1) ELSE L[i])
      BY <1>1, <2>1
    <2>3. ASSUME NEW j \in (far(i - 1) + 1)..(L[i] - 1), Carries(s, j) PROVE FALSE
      <3>1. far(i - 1) \in Nat /\ j \in (far(i - 1) + 1)..to /\ j < L[i] /\ j \in Nat
        BY <1>1, <1>9, <2>1
      <3>2. (i - 1) + 1 = i
        OBVIOUS
      <3>3. L[(i - 1) + 1] <= j
        BY <1>10, <2>1, <2>3, <3>1
      <3> QED
        BY <2>1, <3>1, <3>2, <3>3
    <2> QED
      BY <2>2, <2>3 DEF Quiet
  <1> DEFINE good(i) == F[i] # None => ViewShape(F[i]) /\ SameView(v, F[i]) /\ ViewHolds(F[i], base, far(i), s, at)
             R == {i \in 0..N : good(i)}
  <1>13. 0 \in R
    BY <1>4, <1>8 DEF SameView
  <1>14. ASSUME NEW i \in 1..N, i - 1 \in R PROVE i \in R
    <2>1. i \in 0..N /\ i - 1 \in 0..N
      BY <1>4
    <2>2. F[i] = TakeEvent(F[i - 1], Change(s, at, L[i]))
      BY <1>8
    <2>3. F[i] # None => F[i - 1] # None
      BY <2>2 DEF TakeEvent
    <2>4. good(i - 1)
      BY <1>14
    <2>5. ASSUME F[i] # None PROVE ViewShape(F[i]) /\ SameView(v, F[i]) /\ ViewHolds(F[i], base, far(i), s, at)
      <3> DEFINE u == F[i - 1]
                 n == far(i - 1)
                 x == L[i]
      <3>1. u # None /\ ViewShape(u) /\ SameView(v, u) /\ ViewHolds(u, base, n, s, at)
        BY <2>3, <2>4, <2>5
      <3>2. n \in base..Len(s) /\ x \in 1..Len(s) /\ Carries(s, x)
        BY <1>1, <1>4, <1>9, <1>11, <2>1
      <3>3. x <= n \/ Quiet(s, n, x - 1)
        BY <1>12
      <3>4. TakeEvent(u, Change(s, at, x)) # None
        BY <2>2, <2>5
      <3>5. far(i) = IF x <= n THEN n ELSE x
        BY <1>12
      <3> HIDE DEF u, n, x, far
      <3>6. LET w == TakeEvent(u, Change(s, at, x))
            IN  ViewShape(w) /\ SameView(u, w) /\ ViewHolds(w, base, far(i), s, at)
        BY <3>1, <3>2, <3>3, <3>4, <3>5, TakeOne
      <3> QED
        BY <2>2, <3>1, <3>6 DEF SameView, u, x
    <2> HIDE DEF far
    <2> QED
      BY <2>1, <2>5
  <1>15. good(N)
    <2> HIDE DEF R
    <2>1. N \in R
      BY <1>4, <1>13, <1>14, Climb
    <2> QED
      BY <2>1 DEF R
  <1>16. Quiet(s, far(N), to)
    <2>1. N \in 0..N /\ N + 1 \notin 1..N
      BY <1>4
    <2> HIDE DEF far
    <2> QED
      BY <1>10, <2>1 DEF Quiet
  <1>17. far(N) \in Nat /\ base <= far(N) /\ far(N) <= to
    <2>1. far(N) \in from..to
      BY <1>4, <1>9
    <2> HIDE DEF far
    <2> QED
      BY <1>1, <2>1
  <1> HIDE DEF far
  <1>18. F[N] # None => ViewShape(F[N]) /\ SameView(v, F[N]) /\ ViewHolds(F[N], base, to, s, at)
    BY <1>1, <1>15, <1>16, <1>17, ViewWaits
  <1> QED
    BY <1>7, <1>18 DEF es
-----------------------------------------------------------------------------
(* The feed: what the store writes later changes nothing of what was read *)

Timed(s, at, t) == t \in Nat /\ Len(s) \in Nat /\ at \in [1..Len(s) -> 0..t]
Grows(s, at, t, s2, at2, t2) ==
  /\ Timed(s, at, t) /\ Timed(s2, at2, t2) /\ t <= t2 /\ Len(s) <= Len(s2)
  /\ \A k \in 1..Len(s) : s2[k] = s[k] /\ at2[k] = at[k]
  /\ \A k \in (Len(s) + 1)..Len(s2) : t <= at2[k]
\* What was accepted up to n is what was accepted before w.
Watermark(s, at, t, n, w) ==
  /\ n \in 0..Len(s) /\ w \in 0..t
  /\ \A k \in 1..Len(s) : Carries(s, k) => IF k <= n THEN at[k] <= w ELSE w <= at[k]

LEMMA ChangeKept ==
  ASSUME NEW s, NEW at, NEW t, NEW s2, NEW at2, NEW t2, Grows(s, at, t, s2, at2, t2),
         NEW k \in 1..Len(s)
  PROVE  (Carries(s2, k) <=> Carries(s, k)) /\ Change(s2, at2, k) = Change(s, at, k)
PROOF
  <1>1. s2[k] = s[k] /\ at2[k] = at[k] /\ \A j \in 1..(k - 1) : s2[j] = s[j] /\ j \in 1..Len(s)
    BY DEF Grows, Timed
  <1>2. Earlier(s2, k) = Earlier(s, k)
    BY <1>1 DEF Earlier
  <1>3. CASE Earlier(s, k) = {}
    BY <1>1, <1>2, <1>3 DEF Carries, Change
  <1>4. CASE Earlier(s, k) # {}
    <2>1. Earlier(s, k) \in SUBSET (0..(k - 1)) /\ k - 1 \in Nat
      BY DEF Earlier, Grows, Timed
    <2>2. Max(Earlier(s, k)) \in Earlier(s, k)
      BY <1>4, <2>1, Greatest
    <2>3. Max(Earlier(s, k)) \in 1..(k - 1)
      BY <2>2 DEF Earlier
    <2>4. s2[Max(Earlier(s2, k))] = s[Max(Earlier(s, k))]
      BY <1>1, <1>2, <2>3
    <2> QED
      BY <1>1, <1>2, <2>4 DEF Carries, Change
  <1> QED
    BY <1>3, <1>4

LEMMA PlacesKept ==
  ASSUME NEW s, NEW at, NEW t, NEW s2, NEW at2, NEW t2, Grows(s, at, t, s2, at2, t2),
         NEW n \in 0..Len(s)
  PROVE  /\ Told(s2, n) = Told(s, n)
         /\ \A a \in Nat : Quiet(s2, a, n) <=> Quiet(s, a, n)
         /\ \A k \in Nat : BatchOf(s2, at2, k, n) = BatchOf(s, at, k, n)
PROOF
  <1>1. \A k \in 1..n : s2[k] = s[k] /\ k \in 1..Len(s)
    BY DEF Grows, Timed
  <1>2. \A k \in 1..n : (Carries(s2, k) <=> Carries(s, k)) /\ Change(s2, at2, k) = Change(s, at, k)
    BY <1>1, ChangeKept
  <1>3. Told(s2, n) = Told(s, n)
    <2>1. \A k \in 1..n : ItemOf(s2, k) = ItemOf(s, k)
      BY <1>1 DEF ItemOf
    <2>2. \A k \in 1..n : \A l \in (k + 1)..n : l \in 1..n
      BY DEF Grows, Timed
    <2>3. \A k \in 1..n : LastUpTo(s2, n, k) <=> LastUpTo(s, n, k)
      BY <1>1, <1>2, <2>2 DEF LastUpTo
    <2> QED
      BY <2>1, <2>3 DEF Told
  <1>4. \A a \in Nat : \A j \in (a + 1)..n : j \in 1..n
    OBVIOUS
  <1>5. \A k \in Nat : Scanned(s2, k, n) = Scanned(s, k, n)
    BY <1>2, <1>4 DEF Scanned
  <1>6. ASSUME NEW k \in Nat PROVE BatchOf(s2, at2, k, n) = BatchOf(s, at, k, n)
    <2> DEFINE S == Scanned(s, k, n)
    <2>1. S \in SUBSET (0..n) /\ n \in Nat /\ S \subseteq 1..n
      BY DEF Scanned, Grows, Timed
    <2>2. Lists(InOrder(S), S)
      BY <2>1, InOrderLists
    <2>3. \A i \in 1..Cardinality(S) : InOrder(S)[i] \in 1..n
      BY <2>1, <2>2 DEF Lists
    <2> HIDE DEF S
    <2>4. \A i \in 1..Cardinality(S) : Change(s2, at2, InOrder(S)[i]) = Change(s, at, InOrder(S)[i])
      BY <1>2, <2>3
    <2>5. Scanned(s2, k, n) = S /\ Scanned(s, k, n) = S
      BY <1>5 DEF S
    <2> QED
      BY <2>4, <2>5 DEF BatchOf
  <1> QED
    BY <1>2, <1>3, <1>4, <1>6 DEF Quiet

LEMMA DeliveriesKept ==
  ASSUME NEW s, NEW at, NEW t, NEW s2, NEW at2, NEW t2, Grows(s, at, t, s2, at2, t2),
         NEW n \in 0..Len(s), NEW base \in 0..n
  PROVE  /\ \A c : Follows(s2, base, c, n) <=> Follows(s, base, c, n)
         /\ Changes(s2, at2, base, n) = Changes(s, at, base, n)
         /\ Deliveries(s2, at2, base, n) = Deliveries(s, at, base, n)
PROOF
  <1>1. n \in Nat /\ base \in Nat /\ Len(s) \in Nat
    BY DEF Grows, Timed
  <1>2. \A k \in (base + 1)..n : k \in 1..Len(s) /\ k - 1 \in 0..Len(s)
    BY <1>1
  <1>3. \A k \in (base + 1)..n : (Carries(s2, k) <=> Carries(s, k)) /\ Change(s2, at2, k) = Change(s, at, k)
    BY <1>2, ChangeKept
  <1>4. ASSUME NEW m \in 0..Len(s), NEW c PROVE Follows(s2, base, c, m) <=> Follows(s, base, c, m)
    <2>1. c \in 0..m => Place(base, c) \in Nat
      BY <1>1 DEF Place, Base
    <2>2. \A a \in Nat : Quiet(s2, a, m) <=> Quiet(s, a, m)
      BY PlacesKept
    <2> QED
      BY <2>1, <2>2 DEF Follows
  <1>5. Changes(s2, at2, base, n) = Changes(s, at, base, n)
    BY <1>3 DEF Changes
  <1>6. \A k \in (base + 1)..n : \A d : DeliveredAt(s2, at2, base, k, d) <=> DeliveredAt(s, at, base, k, d)
    BY <1>2, <1>3, <1>4 DEF DeliveredAt
  <1>7. Deliveries(s2, at2, base, n) = Deliveries(s, at, base, n)
    BY <1>5, <1>6 DEF Deliveries
  <1> QED
    BY <1>4, <1>5, <1>7

LEMMA WatermarkKept ==
  ASSUME NEW s, NEW at, NEW t, NEW s2, NEW at2, NEW t2, Grows(s, at, t, s2, at2, t2),
         NEW n, NEW w, Watermark(s, at, t, n, w)
  PROVE  Watermark(s2, at2, t2, n, w)
PROOF
  <1>1. /\ n \in 0..Len(s2) /\ w \in 0..t2 /\ n \in Nat /\ w \in Nat /\ w <= t /\ t \in Nat
        /\ Len(s) \in Nat /\ Len(s2) \in Nat /\ n <= Len(s)
    BY DEF Watermark, Grows, Timed
  <1>2. ASSUME NEW k \in 1..Len(s2), Carries(s2, k) PROVE IF k <= n THEN at2[k] <= w ELSE w <= at2[k]
    <2>1. CASE k \in 1..Len(s)
      <3>1. at2[k] = at[k] /\ Carries(s, k)
        BY <1>2, <2>1, ChangeKept DEF Grows
      <3> QED
        BY <2>1, <3>1 DEF Watermark
    <2>2. CASE k \notin 1..Len(s)
      <3>1. k \in (Len(s) + 1)..Len(s2) /\ ~(k <= n)
        BY <1>1, <2>2
      <3>2. t <= at2[k] /\ at2[k] \in Nat
        BY <1>1, <3>1 DEF Grows, Timed
      <3> QED
        BY <1>1, <3>1, <3>2
    <2> QED
      BY <2>1, <2>2
  <1> QED
    BY <1>1, <1>2 DEF Watermark
-----------------------------------------------------------------------------
(* The feed: what every view, batch, page and consumer keeps to *)

\* O remembers, for every view ever opened, the snapshot it was opened on and the place
\* of the outbox the snapshot was taken at.
OriginOk(o, s) ==
  /\ o.base \in 0..Len(s) /\ Len(o.snapshot) \in Nat
  /\ DOMAIN o.snapshot = 1..Len(o.snapshot) /\ Range(o.snapshot) = Told(s, o.base)
ViewOk(O, s, at, t, v) ==
  /\ ViewShape(v) /\ v.binding \in DOMAIN O
  /\ v.snapshot = O[v.binding].snapshot
  /\ v.source_checkpoint \in O[v.binding].base..Len(s)
  /\ ViewHolds(v, O[v.binding].base, v.source_checkpoint, s, at)
  /\ Watermark(s, at, t, v.source_checkpoint, v.as_of)
BatchOk(s, at, t, b) ==
  /\ b.from_source_checkpoint \in Nat
  /\ b.to_source_checkpoint \in b.from_source_checkpoint..Len(s)
  /\ \E k \in 0..b.from_source_checkpoint : b.events = BatchOf(s, at, k, b.to_source_checkpoint)
  /\ Watermark(s, at, t, b.to_source_checkpoint, b.as_of)

Shown(snapshot, a, b) == {snapshot[k] : k \in {j \in DOMAIN snapshot : a < j /\ j <= b}}
SnapshotOk(O, p) ==
  /\ p.kind = "snapshot" /\ p.binding \in DOMAIN O
  /\ p.from \in Nat /\ p.current_as_of \in Nat
  /\ p.items = Shown(O[p.binding].snapshot, p.from * PageSize, (p.from + 1) * PageSize)
  /\ \/ p.next = p.from + 1
     \/ p.next = None /\ Len(O[p.binding].snapshot) <= (p.from + 1) * PageSize
ChangesOk(O, s, at, t, p) ==
  /\ p.kind = "changes" /\ p.binding \in DOMAIN O /\ p.current_as_of \in 0..t
  /\ p.events \in Seq(Deliveries(s, at, O[p.binding].base, Len(s)))
  /\ \A k \in DOMAIN p.events : p.events[k].change.accepted_at <= p.current_as_of
  /\ p.complete => Watermark(s, at, t, Place(O[p.binding].base, p.to), p.current_as_of)
PageOk(O, s, at, t, p) ==
  p = Restart \/ SnapshotOk(O, p) \/ ChangesOk(O, s, at, t, p)

ConsumerShape(c) ==
  DOMAIN c = {"binding", "mode", "items", "checkpoint", "next_snapshot", "as_of", "current_as_of",
              "complete", "receipts", "seen"}
Gathering(o, c) ==
  /\ c.mode = "snapshot" /\ ~c.complete
  /\ c.next_snapshot \in Nat /\ c.items = Shown(o.snapshot, 0, c.next_snapshot * PageSize)
Living(o, s, at, t, c) ==
  /\ c.mode = "live"
  /\ Place(o.base, c.checkpoint) \in 0..Len(s) /\ c.items = Told(s, Place(o.base, c.checkpoint))
  /\ c.complete => /\ c.as_of = c.current_as_of
                   /\ Watermark(s, at, t, Place(o.base, c.checkpoint), c.as_of)
ConsumerOk(O, s, at, t, c) ==
  /\ ConsumerShape(c) /\ c.binding \in DOMAIN O /\ c.current_as_of \in Nat
  /\ \/ Gathering(O[c.binding], c)
     \/ Living(O[c.binding], s, at, t, c)
     \/ c.mode = "invalidated" /\ ~c.complete

FeedOk(O, s, at, t, v, bs, ps, c) ==
  /\ History(s) /\ Timed(s, at, t)
  /\ (IF v = None THEN 0 ELSE v.binding) \in Nat
  /\ DOMAIN O = 1..(IF v = None THEN 0 ELSE v.binding)
  /\ \A i \in DOMAIN O : OriginOk(O[i], s)
  /\ v # None => ViewOk(O, s, at, t, v)
  /\ \A b \in bs : v # None /\ BatchOk(s, at, t, b)
  /\ \A p \in ps : PageOk(O, s, at, t, p)
  /\ c # None => ConsumerOk(O, s, at, t, c)

LEMMA ViewKept ==
  ASSUME NEW s, NEW at, NEW t, NEW s2, NEW at2, NEW t2, Grows(s, at, t, s2, at2, t2),
         NEW O, NEW v, ViewOk(O, s, at, t, v), OriginOk(O[v.binding], s)
  PROVE  ViewOk(O, s2, at2, t2, v)
PROOF
  <1> DEFINE base == O[v.binding].base
             n == v.source_checkpoint
  <1>1. base \in 0..Len(s) /\ Len(s) \in Nat /\ n \in base..Len(s) /\ Len(s2) \in Nat /\ Len(s) <= Len(s2)
    BY DEF ViewOk, OriginOk, Grows, Timed
  <1>2. n \in 0..Len(s) /\ base \in 0..n /\ n \in base..Len(s2)
    BY <1>1
  <1>3. Watermark(s2, at2, t2, n, v.as_of)
    BY WatermarkKept DEF ViewOk
  <1>4. ViewHolds(v, base, n, s, at) /\ ViewShape(v) /\ v.binding \in DOMAIN O /\ v.snapshot = O[v.binding].snapshot
    BY DEF ViewOk
  <1> HIDE DEF base, n
  <1>5. /\ Told(s2, n) = Told(s, n)
        /\ \A c : Follows(s2, base, c, n) <=> Follows(s, base, c, n)
        /\ Changes(s2, at2, base, n) = Changes(s, at, base, n)
        /\ Deliveries(s2, at2, base, n) = Deliveries(s, at, base, n)
    BY <1>2, PlacesKept, DeliveriesKept
  <1>6. ViewHolds(v, base, n, s2, at2)
    BY <1>4, <1>5 DEF ViewHolds
  <1> QED
    BY <1>2, <1>3, <1>4, <1>6 DEF ViewOk, base, n

LEMMA BatchKept ==
  ASSUME NEW s, NEW at, NEW t, NEW s2, NEW at2, NEW t2, Grows(s, at, t, s2, at2, t2),
         NEW b, BatchOk(s, at, t, b)
  PROVE  BatchOk(s2, at2, t2, b)
PROOF
  <1> DEFINE to == b.to_source_checkpoint
             from == b.from_source_checkpoint
  <1>1. from \in Nat /\ to \in from..Len(s) /\ Watermark(s, at, t, to, b.as_of)
    BY DEF BatchOk
  <1>2. PICK k \in 0..from : b.events = BatchOf(s, at, k, to)
    BY DEF BatchOk
  <1> HIDE DEF to, from
  <1>3. to \in from..Len(s2) /\ to \in 0..Len(s) /\ k \in Nat
    BY <1>1 DEF Grows, Timed
  <1>4. BatchOf(s2, at2, k, to) = BatchOf(s, at, k, to)
    BY <1>3, PlacesKept
  <1>5. Watermark(s2, at2, t2, to, b.as_of)
    BY <1>1, WatermarkKept
  <1> QED
    BY <1>1, <1>2, <1>3, <1>4, <1>5 DEF BatchOk, to, from

LEMMA PageKept ==
  ASSUME NEW s, NEW at, NEW t, NEW s2, NEW at2, NEW t2, Grows(s, at, t, s2, at2, t2),
         NEW O, \A i \in DOMAIN O : OriginOk(O[i], s), NEW p, PageOk(O, s, at, t, p)
  PROVE  PageOk(O, s2, at2, t2, p)
PROOF
  <1>1. CASE p = Restart \/ SnapshotOk(O, p)
    BY <1>1 DEF PageOk
  <1>2. CASE ChangesOk(O, s, at, t, p)
    <2> DEFINE base == O[p.binding].base
    <2>1. p.binding \in DOMAIN O /\ p.kind = "changes" /\ p.current_as_of \in 0..t
      BY <1>2 DEF ChangesOk
    <2>2. base \in 0..Len(s) /\ Len(s) \in Nat /\ Len(s2) \in Nat /\ Len(s) <= Len(s2) /\ base \in Nat
      BY <2>1 DEF OriginOk, Grows, Timed
    <2>3. p.events \in Seq(Deliveries(s, at, base, Len(s)))
      BY <1>2 DEF ChangesOk
    <2>4. p.complete => Watermark(s2, at2, t2, Place(base, p.to), p.current_as_of)
      BY <1>2, WatermarkKept DEF ChangesOk
    <2> HIDE DEF base
    <2>5. Deliveries(s2, at2, base, Len(s)) = Deliveries(s, at, base, Len(s))
      BY <2>2, DeliveriesKept
    <2>6. Deliveries(s2, at2, base, Len(s)) \subseteq Deliveries(s2, at2, base, Len(s2))
      BY <2>2, DeliveriesGrow
    <2>7. p.events \in Seq(Deliveries(s2, at2, base, Len(s2)))
      BY <2>3, <2>5, <2>6
    <2>8. p.current_as_of \in 0..t2
      BY <2>1 DEF Grows, Timed
    <2>9. \A k \in DOMAIN p.events : p.events[k].change.accepted_at <= p.current_as_of
      BY <1>2 DEF ChangesOk
    <2>10. ChangesOk(O, s2, at2, t2, p)
      BY <2>1, <2>4, <2>7, <2>8, <2>9 DEF ChangesOk, base
    <2> QED
      BY <2>10 DEF PageOk
  <1> QED
    BY <1>1, <1>2 DEF PageOk

LEMMA ConsumerKept ==
  ASSUME NEW s, NEW at, NEW t, NEW s2, NEW at2, NEW t2, Grows(s, at, t, s2, at2, t2),
         NEW O, NEW c, ConsumerOk(O, s, at, t, c)
  PROVE  ConsumerOk(O, s2, at2, t2, c)
PROOF
  <1>1. CASE Living(O[c.binding], s, at, t, c)
    <2> DEFINE n == Place(O[c.binding].base, c.checkpoint)
    <2>1. n \in 0..Len(s) /\ c.mode = "live" /\ c.items = Told(s, n)
      BY <1>1 DEF Living
    <2>2. c.complete => c.as_of = c.current_as_of /\ Watermark(s2, at2, t2, n, c.as_of)
      BY <1>1, WatermarkKept DEF Living
    <2> HIDE DEF n
    <2>3. n \in 0..Len(s2) /\ Told(s2, n) = Told(s, n)
      <3>1. n \in 0..Len(s2)
        BY <2>1 DEF Grows, Timed
      <3> QED
        BY <2>1, <3>1, PlacesKept
    <2>4. Living(O[c.binding], s2, at2, t2, c)
      BY <2>1, <2>2, <2>3 DEF Living, n
    <2> QED
      BY <2>4 DEF ConsumerOk
  <1>2. CASE ~Living(O[c.binding], s, at, t, c)
    BY <1>2 DEF ConsumerOk
  <1> QED
    BY <1>1, <1>2

LEMMA FeedKept ==
  ASSUME NEW s, NEW at, NEW t, NEW s2, NEW at2, NEW t2, Grows(s, at, t, s2, at2, t2), History(s2),
         NEW O, NEW v, NEW bs, NEW ps, NEW c, FeedOk(O, s, at, t, v, bs, ps, c)
  PROVE  FeedOk(O, s2, at2, t2, v, bs, ps, c)
PROOF
  <1>1. \A i \in DOMAIN O : OriginOk(O[i], s)
    BY DEF FeedOk
  <1>2. ASSUME NEW i \in DOMAIN O PROVE OriginOk(O[i], s2)
    <2>1. OriginOk(O[i], s)
      BY <1>1
    <2>2. O[i].base \in 0..Len(s) /\ O[i].base \in 0..Len(s2)
      BY <2>1 DEF OriginOk, Grows, Timed
    <2>3. Told(s2, O[i].base) = Told(s, O[i].base)
      BY <2>2, PlacesKept
    <2> QED
      BY <2>1, <2>2, <2>3 DEF OriginOk
  <1>3. v # None => ViewOk(O, s2, at2, t2, v)
    <2> SUFFICES ASSUME v # None PROVE ViewOk(O, s2, at2, t2, v)
      OBVIOUS
    <2>1. ViewOk(O, s, at, t, v)
      BY DEF FeedOk
    <2>2. OriginOk(O[v.binding], s)
      BY <1>1, <2>1 DEF ViewOk
    <2> QED
      BY <2>1, <2>2, ViewKept
  <1>4. \A b \in bs : v # None /\ BatchOk(s2, at2, t2, b)
    BY BatchKept DEF FeedOk
  <1>5. \A p \in ps : PageOk(O, s2, at2, t2, p)
    <2>1. \A p \in ps : PageOk(O, s, at, t, p)
      BY DEF FeedOk
    <2> QED
      BY <1>1, <2>1, PageKept
  <1>6. c # None => ConsumerOk(O, s2, at2, t2, c)
    BY ConsumerKept DEF FeedOk
  <1> QED
    BY <1>2, <1>3, <1>4, <1>5, <1>6 DEF FeedOk, Grows
-----------------------------------------------------------------------------
(* The feed: what the host does with a view *)

LEMMA ToldFinite ==
  ASSUME NEW s, NEW n \in Nat
  PROVE  IsFiniteSet(Told(s, n))
PROOF
  <1> DEFINE K == {j \in 1..n : LastUpTo(s, n, j)}
             f == [k \in K |-> ItemOf(s, k)]
  <1>1. IsFiniteSet(K)
    <2>1. IsFiniteSet(1..n)
      BY FS_Interval
    <2> QED
      BY <2>1, FS_Subset
  <1>2. f \in Surjection(K, Told(s, n))
    BY DEF Surjection, Told
  <1> QED
    BY <1>1, <1>2, FS_Surjection

\* A finite set as a sequence.
LEMMA SetToSeqIs ==
  ASSUME NEW E, IsFiniteSet(E)
  PROVE  /\ Len(SetToSeq(E)) \in Nat /\ DOMAIN SetToSeq(E) = 1..Len(SetToSeq(E))
         /\ Range(SetToSeq(E)) = E
PROOF
  <1> DEFINE f == SetToSeq(E)
  <1>1. Cardinality(E) \in Nat /\ ExistsBijection(1..Cardinality(E), E)
    BY FS_CardinalityType
  <1>2. f \in [1..Cardinality(E) -> E] /\ IsInjective(f)
    <2>1. \E g \in [1..Cardinality(E) -> E] : IsInjective(g)
      BY <1>1 DEF ExistsBijection, Bijection, Injection
    <2> QED
      BY <2>1 DEF SetToSeq
  <1>3. f \in Injection(1..Cardinality(E), E)
    BY <1>2 DEF Injection
  <1>4. Cardinality(1..Cardinality(E)) = Cardinality(E)
    BY <1>1, FS_Interval
  <1>5. f \in Surjection(1..Cardinality(E), E)
    BY <1>3, <1>4, FS_Injection
  <1> HIDE DEF f
  <1>6. f \in Seq(E)
    BY <1>1, <1>2
  <1>7. Range(f) = E
    BY <1>2, <1>5 DEF Surjection, Range
  <1> QED
    BY <1>6, <1>7, LenProperties DEF f

LEMMA FeedOpens ==
  ASSUME NEW s, NEW at, NEW t, NEW O, NEW v, NEW bs, NEW ps, NEW c, FeedOk(O, s, at, t, v, bs, ps, c),
         NEW w, w = CreateChangeView((IF v = None THEN 0 ELSE v.binding) + 1, SetToSeq(Told(s, Len(s))), Len(s), t),
         w # None
  PROVE  \E P : FeedOk(P, s, at, t, w, {}, ps, c)
PROOF
  <1> DEFINE id == (IF v = None THEN 0 ELSE v.binding) + 1
             shot == SetToSeq(Told(s, Len(s)))
             P == [i \in 1..id |-> IF i = id THEN [base |-> Len(s), snapshot |-> shot] ELSE O[i]]
  <1>1. History(s) /\ Timed(s, at, t) /\ Len(s) \in Nat /\ t \in Nat /\ at \in [1..Len(s) -> 0..t]
    BY DEF FeedOk, Timed
  <1>2. id \in Nat /\ id - 1 \in Nat /\ DOMAIN O = 1..(id - 1)
    BY DEF FeedOk
  <1>3. Len(shot) \in Nat /\ DOMAIN shot = 1..Len(shot) /\ Range(shot) = Told(s, Len(s))
    BY <1>1, ToldFinite, SetToSeqIs
  <1>4. /\ ViewShape(w) /\ w.binding = id /\ w.snapshot = shot /\ w.source_checkpoint = Len(s)
        /\ w.as_of = t /\ w.current = Told(s, Len(s)) /\ w.events = <<>> /\ w.seen = {}
        /\ w.latest_checkpoint = Base
    <2> HIDE DEF id, shot
    <2>1. w = CreateChangeView(id, shot, Len(s), t)
      BY DEF id, shot
    <2> QED
      BY <1>3, <2>1 DEF CreateChangeView, ViewShape
  <1> HIDE DEF id, shot
  <1>5. id \in 1..id /\ \A i \in DOMAIN O : i \in 1..id /\ i # id
    BY <1>2
  <1>6. DOMAIN P = 1..id /\ P[id].base = Len(s) /\ P[id].snapshot = shot
    BY <1>5
  <1>7. \A i \in DOMAIN O : P[i] = O[i] /\ i \in DOMAIN P
    BY <1>5
  <1>8. \A i \in 1..id : i = id \/ i \in DOMAIN O
    BY <1>2
  <1> HIDE DEF P
  <1>9. \A i \in DOMAIN P : OriginOk(P[i], s)
    <2>1. OriginOk(P[id], s)
      BY <1>1, <1>3, <1>6 DEF OriginOk
    <2>2. \A i \in DOMAIN O : OriginOk(P[i], s)
      BY <1>7 DEF FeedOk
    <2> QED
      BY <1>6, <1>8, <2>1, <2>2
  <1>10. ViewHolds(w, Len(s), Len(s), s, at)
    <2>1. \A j \in (Len(s) + 1)..Len(s) : FALSE
      BY <1>1
    <2>2. Changes(s, at, Len(s), Len(s)) = {}
      BY <2>1 DEF Changes
    <2>3. Follows(s, Len(s), Base, Len(s))
      BY <1>1, <2>1 DEF Follows, Place, Base, Quiet
    <2>4. <<>> \in Seq(Deliveries(s, at, Len(s), Len(s)))
      BY EmptySeq
    <2> QED
      BY <1>4, <2>2, <2>3, <2>4 DEF ViewHolds
  <1>11. Watermark(s, at, t, Len(s), t)
    BY <1>1 DEF Watermark
  <1>12. ViewOk(P, s, at, t, w)
    BY <1>1, <1>4, <1>5, <1>6, <1>10, <1>11 DEF ViewOk
  <1>13. \A p \in ps : PageOk(P, s, at, t, p)
    <2> SUFFICES ASSUME NEW p \in ps PROVE PageOk(P, s, at, t, p)
      OBVIOUS
    <2>1. PageOk(O, s, at, t, p)
      BY DEF FeedOk
    <2>2. p.binding \in DOMAIN O => P[p.binding] = O[p.binding] /\ p.binding \in DOMAIN P
      BY <1>7
    <2>3. SnapshotOk(O, p) => SnapshotOk(P, p)
      BY <2>2 DEF SnapshotOk
    <2>4. ChangesOk(O, s, at, t, p) => ChangesOk(P, s, at, t, p)
      BY <2>2 DEF ChangesOk
    <2> QED
      BY <2>1, <2>3, <2>4 DEF PageOk
  <1>14. c # None => ConsumerOk(P, s, at, t, c)
    BY <1>7 DEF FeedOk, ConsumerOk
  <1>15. FeedOk(P, s, at, t, w, {}, ps, c)
    <2>1. (IF w = None THEN 0 ELSE w.binding) = id
      BY <1>4
    <2> QED
      BY <1>1, <1>2, <1>6, <1>9, <1>12, <1>13, <1>14, <2>1 DEF FeedOk
  <1> QED
    BY <1>15

\* A scan of all there is.
LEMMA FeedScans ==
  ASSUME NEW s, NEW at, NEW t, Timed(s, at, t), NEW from \in 0..Len(s), NEW k \in 0..from, NEW b,
         b.from_source_checkpoint = from, b.to_source_checkpoint = Len(s),
         b.events = BatchOf(s, at, k, Len(s)), b.as_of = t
  PROVE  BatchOk(s, at, t, b)
PROOF
  <1>1. Watermark(s, at, t, Len(s), t)
    BY DEF Timed, Watermark
  <1>2. from \in Nat /\ Len(s) \in from..Len(s)
    BY DEF Timed
  <1> QED
    BY <1>1, <1>2 DEF BatchOk

\* A batch that is not refused.
LEMMA FeedTakes ==
  ASSUME NEW s, NEW at, NEW t, History(s), Timed(s, at, t), NEW O, NEW v, ViewOk(O, s, at, t, v), v # None,
         O[v.binding].base \in Nat, NEW b, BatchOk(s, at, t, b), AppendChangeBatch(v, b) # None
  PROVE  ViewOk(O, s, at, t, AppendChangeBatch(v, b)) /\ AppendChangeBatch(v, b).binding = v.binding
PROOF
  <1> DEFINE base == O[v.binding].base
             from == b.from_source_checkpoint
             to == b.to_source_checkpoint
             w == FoldLeft(TakeEvent, v, b.events)
             u == [w EXCEPT !.source_checkpoint = to, !.as_of = b.as_of, !.last_batch = b, !.version = @ + 1]
  <1>1. CASE b = v.last_batch
    BY <1>1 DEF AppendChangeBatch
  <1>2. CASE b # v.last_batch
    <2>1. from = v.source_checkpoint /\ w # None /\ AppendChangeBatch(v, b) = u
      BY <1>2 DEF AppendChangeBatch
    <2>2. from \in base..Len(s) /\ ViewHolds(v, base, from, s, at) /\ ViewShape(v) /\ v.binding \in DOMAIN O
          /\ v.snapshot = O[v.binding].snapshot
      BY <2>1 DEF ViewOk
    <2>3. to \in from..Len(s) /\ Watermark(s, at, t, to, b.as_of)
      BY DEF BatchOk
    <2>4. PICK k \in 0..from : b.events = BatchOf(s, at, k, to)
      BY DEF BatchOk
    <2>5. w = FoldLeft(TakeEvent, v, BatchOf(s, at, k, to))
      BY <2>4
    <2>6. base \in Nat
      OBVIOUS
    <2> HIDE DEF base, from, to, w
    <2>7. ViewShape(w) /\ SameView(v, w) /\ ViewHolds(w, base, to, s, at)
      BY <2>1, <2>2, <2>3, <2>5, <2>6, BatchTaken
    <2>8. /\ ViewShape(u) /\ u.source_checkpoint = to /\ u.as_of = b.as_of
          /\ u.binding = w.binding /\ u.snapshot = w.snapshot
      BY <2>7 DEF ViewShape
    <2>9. u.current = w.current /\ u.seen = w.seen /\ u.latest_checkpoint = w.latest_checkpoint /\ u.events = w.events
      BY <2>7 DEF ViewShape
    <2> HIDE DEF u
    <2>10. ViewHolds(u, base, to, s, at)
      BY <2>7, <2>9 DEF ViewHolds
    <2>11. u.binding = v.binding /\ u.snapshot = v.snapshot /\ to \in base..Len(s)
      <3>1. Len(s) \in Nat
        BY DEF Timed
      <3>2. to \in base..Len(s)
        BY <2>2, <2>3, <2>6, <3>1
      <3> QED
        BY <2>7, <2>8, <3>2 DEF SameView
    <2>12. ViewOk(O, s, at, t, u)
      BY <2>2, <2>3, <2>8, <2>10, <2>11 DEF ViewOk, base
    <2> QED
      BY <2>1, <2>11, <2>12
  <1> QED
    BY <1>1, <1>2

\* Retention forgets deliveries and nothing else.
LEMMA FeedRetains ==
  ASSUME NEW s, NEW at, NEW t, NEW O, NEW v, ViewOk(O, s, at, t, v), NEW keep \in Nat, Len(v.events) > keep
  PROVE  ViewOk(O, s, at, t, RetainChanges(v, keep)) /\ RetainChanges(v, keep).binding = v.binding
PROOF
  <1> DEFINE gone == Len(v.events) - keep
             u == [v EXCEPT !.events = SubSeq(@, gone + 1, Len(@)),
                            !.floor_checkpoint = IF gone = 0 THEN @ ELSE v.events[gone].change.event_id,
                            !.version = @ + 1, !.last_batch = None]
             base == O[v.binding].base
             n == v.source_checkpoint
             D == Deliveries(s, at, base, n)
  <1>1. RetainChanges(v, keep) = u
    BY DEF RetainChanges
  <1>2. ViewShape(v) /\ ViewHolds(v, base, n, s, at) /\ v.events \in Seq(D)
    BY DEF ViewOk, ViewHolds
  <1>3. /\ ViewShape(u) /\ u.binding = v.binding /\ u.snapshot = v.snapshot
        /\ u.source_checkpoint = v.source_checkpoint /\ u.as_of = v.as_of
    BY <1>2 DEF ViewShape
  <1>4. /\ u.current = v.current /\ u.seen = v.seen /\ u.latest_checkpoint = v.latest_checkpoint
        /\ u.events = SubSeq(v.events, gone + 1, Len(v.events))
    BY <1>2 DEF ViewShape
  <1> HIDE DEF u, D, base, n
  <1>5. u.events \in Seq(D)
    <2>1. Len(v.events) \in Nat /\ DOMAIN v.events = 1..Len(v.events) /\ \A i \in 1..Len(v.events) : v.events[i] \in D
      BY <1>2, LenProperties, ElementOfSeq
    <2>2. gone + 1 \in Int /\ Len(v.events) \in Int /\ gone + 1 >= 1
      BY <2>1
    <2>3. \A i \in (gone + 1)..Len(v.events) : v.events[i] \in D
      BY <2>1, <2>2
    <2> HIDE DEF gone
    <2>4. SubSeq(v.events, gone + 1, Len(v.events)) \in Seq(D)
      BY <2>2, <2>3, SubSeqProperties
    <2> QED
      BY <1>4, <2>4
  <1>6. ViewHolds(u, base, n, s, at)
    BY <1>2, <1>4, <1>5 DEF ViewHolds, D
  <1> QED
    BY <1>1, <1>2, <1>3, <1>6 DEF ViewOk, base, n
-----------------------------------------------------------------------------
(* The feed: pages *)

\* So many pages hold the whole snapshot.
LEMMA PagesCover ==
  ASSUME NEW l \in Nat, NEW size \in Nat \ {0}, NEW m \in Nat,
         m >= (IF l <= size THEN 1 ELSE (l + size - 1) \div size)
  PROVE  l <= m * size
PROOF
  <1>1. CASE l <= size
    <2>1. (m - 1) * size \in Nat
      BY <1>1
    <2>2. m * size = (m - 1) * size + size
      OBVIOUS
    <2> QED
      BY <1>1, <2>1, <2>2
  <1>2. CASE ~(l <= size)
    <2> DEFINE q == (l + size - 1) \div size
               r == (l + size - 1) % size
    <2>1. l + size - 1 \in Nat
      OBVIOUS
    <2>2. q \in Nat /\ r \in 0..(size - 1) /\ l + size - 1 = size * q + r
      BY <2>1
    <2>3. m >= q
      BY <1>2
    <2> HIDE DEF q, r
    <2>4. l <= size * q
      BY <2>2
    <2>5. (m - q) * size \in Nat
      BY <2>2, <2>3
    <2>6. m * size = (m - q) * size + size * q
      BY <2>2
    <2>7. size * q \in Nat /\ m * size \in Nat
      BY <2>2
    <2> QED
      BY <2>4, <2>5, <2>6, <2>7
  <1> QED
    BY <1>1, <1>2

LEMMA WatermarkBack ==
  ASSUME NEW s, NEW at, NEW t, Len(s) \in Nat, NEW n, NEW w, Watermark(s, at, t, n, w),
         NEW base \in Nat, NEW c, Follows(s, base, c, n)
  PROVE  Watermark(s, at, t, Place(base, c), w)
PROOF
  <1> DEFINE p == Place(base, c)
  <1>1. n \in 0..Len(s) /\ c \in 0..n /\ base <= p /\ p <= n /\ Quiet(s, p, n)
    BY DEF Watermark, Follows
  <1>2. p \in Nat
    BY <1>1 DEF Place, Base
  <1> HIDE DEF p
  <1>3. \A k \in 1..Len(s) : Carries(s, k) => (k <= p <=> k <= n)
    <2> SUFFICES ASSUME NEW k \in 1..Len(s), Carries(s, k) PROVE k <= p <=> k <= n
      OBVIOUS
    <2>1. k \notin (p + 1)..n
      BY <1>1 DEF Quiet
    <2> QED
      BY <1>1, <1>2, <2>1
  <1>4. Watermark(s, at, t, p, w)
    BY <1>1, <1>2, <1>3 DEF Watermark
  <1> QED
    BY <1>4 DEF p

LEMMA SnapshotServedOk ==
  ASSUME NEW s, NEW at, NEW t \in Nat, NEW O, NEW v, ViewOk(O, s, at, t, v), OriginOk(O[v.binding], s),
         NEW binding, NEW cursor \in Nat, NEW now_
  PROVE  PageOk(O, s, at, t, SnapshotPage(v, binding, cursor, now_))
PROOF
  <1> DEFINE p == SnapshotPage(v, binding, cursor, now_)
  <1>1. CASE p = Restart
    BY <1>1 DEF PageOk
  <1>2. CASE p # Restart
    <2> DEFINE next == IF cursor + 1 < SnapshotPages(v) THEN cursor + 1 ELSE None
               items == Shown(v.snapshot, cursor * PageSize, (cursor + 1) * PageSize)
    <2>1. p = [kind |-> "snapshot", binding |-> v.binding, from |-> cursor, next |-> next,
               items |-> items, snapshot_as_of |-> v.snapshot_as_of, current_as_of |-> v.as_of]
      BY <1>2 DEF SnapshotPage, Shown
    <2>2. v.as_of \in Nat /\ v.binding \in DOMAIN O /\ v.snapshot = O[v.binding].snapshot
      BY DEF ViewOk, Watermark
    <2>3. next = cursor + 1 \/ (next = None /\ Len(v.snapshot) <= (cursor + 1) * PageSize)
      <3>1. Len(v.snapshot) \in Nat /\ cursor + 1 \in Nat /\ PageSize \in Nat \ {0}
        BY <2>2, FeedAssumption DEF OriginOk
      <3>2. CASE cursor + 1 < SnapshotPages(v)
        BY <3>2
      <3>3. CASE ~(cursor + 1 < SnapshotPages(v))
        <4>1. SnapshotPages(v) \in Int
          BY <3>1 DEF SnapshotPages
        <4>2. cursor + 1 >= SnapshotPages(v)
          BY <3>1, <3>3, <4>1
        <4>3. cursor + 1 >= (IF Len(v.snapshot) <= PageSize THEN 1 ELSE (Len(v.snapshot) + PageSize - 1) \div PageSize)
          BY <4>2 DEF SnapshotPages
        <4>4. Len(v.snapshot) <= (cursor + 1) * PageSize
          BY <3>1, <4>3, PagesCover
        <4> QED
          BY <3>3, <4>4
      <3> QED
        BY <3>2, <3>3
    <2> HIDE DEF next, items, p
    <2>4. /\ p.kind = "snapshot" /\ p.binding = v.binding /\ p.from = cursor /\ p.next = next
          /\ p.items = items /\ p.current_as_of = v.as_of
      BY <2>1
    <2>5. SnapshotOk(O, p)
      BY <2>2, <2>3, <2>4 DEF SnapshotOk, items
    <2> QED
      BY <2>5 DEF PageOk, p
  <1> QED
    BY <1>1, <1>2

LEMMA ChangesServedOk ==
  ASSUME NEW s, NEW at, NEW t, Timed(s, at, t), NEW O, NEW v, ViewOk(O, s, at, t, v), OriginOk(O[v.binding], s),
         NEW binding, NEW checkpoint, NEW limit \in Nat, NEW now_
  PROVE  PageOk(O, s, at, t, PullChanges(v, binding, checkpoint, limit, now_))
PROOF
  <1> DEFINE p == PullChanges(v, binding, checkpoint, limit, now_)
  <1>1. CASE p = Restart
    BY <1>1 DEF PageOk
  <1>2. CASE p # Restart
    <2> DEFINE place == PlaceOf(v, checkpoint)
               end == IF place + limit < Len(v.events) THEN place + limit ELSE Len(v.events)
               events == SubSeq(v.events, place + 1, end)
               to == IF events = <<>> THEN checkpoint ELSE events[Len(events)].change.event_id
               base == O[v.binding].base
               n == v.source_checkpoint
               D == Deliveries(s, at, base, n)
    <2>1. p = [kind |-> "changes", binding |-> v.binding, from |-> checkpoint, to |-> to,
               events |-> events, current_as_of |-> v.as_of, complete |-> to = v.latest_checkpoint]
      BY <1>2 DEF PullChanges
    <2>2. /\ v.binding \in DOMAIN O /\ n \in base..Len(s) /\ base \in Nat /\ Len(s) \in Nat
          /\ Watermark(s, at, t, n, v.as_of) /\ v.events \in Seq(D) /\ Follows(s, base, v.latest_checkpoint, n)
      BY DEF ViewOk, ViewHolds, OriginOk, Timed
    <2>3. Len(v.events) \in Nat /\ \A i \in 1..Len(v.events) : v.events[i] \in D
      BY <2>2, LenProperties, ElementOfSeq
    <2>4. place \in Nat
      <3> DEFINE I == {i \in 1..Len(v.events) : v.events[i].change.event_id = checkpoint}
      <3>1. place = 0 \/ (I # {} /\ place = Min(I))
        BY DEF PlaceOf, SelectInSeq
      <3>2. ASSUME I # {} PROVE Min(I) \in Nat
        <4>1. I \in SUBSET Nat
          BY <2>3
        <4>2. PICK x \in I : \A y \in I : x <= y
          <5> HIDE DEF I
          <5> QED
            BY <3>2, <4>1, LeastNumber
        <4>3. Min(I) \in I
          BY <4>2 DEF Min
        <4> QED
          BY <4>1, <4>3
      <3> QED
        BY <3>1, <3>2
    <2> HIDE DEF place, D, base, n
    <2>5. end \in Int /\ place + 1 \in Int /\ \A i \in (place + 1)..end : v.events[i] \in D
      BY <2>3, <2>4
    <2> HIDE DEF end
    <2>6. events \in Seq(D)
      BY <2>5, SubSeqProperties
    <2>7. D \subseteq Deliveries(s, at, base, Len(s))
      <3>1. n \in Nat /\ n <= Len(s)
        BY <2>2
      <3> QED
        BY <2>2, <3>1, DeliveriesGrow DEF D
    <2> HIDE DEF events
    <2>8. \A i \in DOMAIN events : events[i].change.accepted_at <= v.as_of
      <3> SUFFICES ASSUME NEW i \in DOMAIN events PROVE events[i].change.accepted_at <= v.as_of
        OBVIOUS
      <3>1. events[i] \in D
        BY <2>6
      <3>2. PICK k \in (base + 1)..n : Carries(s, k) /\ events[i].change = Change(s, at, k)
        BY <3>1 DEF D, Deliveries, DeliveredAt
      <3>3. k \in 1..Len(s) /\ k <= n
        BY <2>2
      <3>4. events[i].change.accepted_at = at[k]
        BY <3>2 DEF Change
      <3> QED
        BY <2>2, <3>2, <3>3, <3>4 DEF Watermark
    <2>9. to = v.latest_checkpoint => Watermark(s, at, t, Place(base, to), v.as_of)
      BY <2>2, WatermarkBack
    <2>10. v.as_of \in 0..t
      BY <2>2 DEF Watermark
    <2> HIDE DEF to, p
    <2>11. /\ p.kind = "changes" /\ p.binding = v.binding /\ p.to = to
           /\ p.events = events /\ p.current_as_of = v.as_of /\ (p.complete <=> to = v.latest_checkpoint)
      BY <2>1
    <2>12. p.events \in Seq(Deliveries(s, at, base, Len(s)))
      BY <2>6, <2>7, <2>11
    <2>13. ChangesOk(O, s, at, t, p)
      BY <2>2, <2>8, <2>9, <2>10, <2>11, <2>12 DEF ChangesOk, base
    <2> QED
      BY <2>13 DEF PageOk, p
  <1> QED
    BY <1>1, <1>2
-----------------------------------------------------------------------------
(* The feed: the consumer *)

\* A snapshot is its pages, in order.
LEMMA ShownParts ==
  ASSUME NEW snapshot, NEW n \in Nat, DOMAIN snapshot = 1..n, NEW k \in Nat
  PROVE  /\ Shown(snapshot, 0, 0 * PageSize) = {}
         /\ Shown(snapshot, 0, k * PageSize) \cup Shown(snapshot, k * PageSize, (k + 1) * PageSize)
              = Shown(snapshot, 0, (k + 1) * PageSize)
         /\ n <= (k + 1) * PageSize => Shown(snapshot, 0, (k + 1) * PageSize) = Range(snapshot)
PROOF
  <1> DEFINE a == k * PageSize
             b == (k + 1) * PageSize
  <1>1. a \in Nat /\ b \in Nat /\ a <= b /\ 0 * PageSize = 0
    <2>1. PageSize \in Nat
      BY FeedAssumption
    <2>2. k * PageSize \in Nat /\ (k + 1) * PageSize = k * PageSize + PageSize /\ 0 * PageSize = 0
      BY <2>1
    <2> QED
      BY <2>1, <2>2
  <1> HIDE DEF a, b
  <1>2. Shown(snapshot, 0, 0) = {}
    BY DEF Shown
  <1>3. Shown(snapshot, 0, a) \cup Shown(snapshot, a, b) = Shown(snapshot, 0, b)
    <2>1. \A j \in 1..n : (0 < j /\ j <= b) <=> (0 < j /\ j <= a) \/ (a < j /\ j <= b)
      BY <1>1
    <2> QED
      BY <2>1 DEF Shown
  <1>4. n <= b => Shown(snapshot, 0, b) = Range(snapshot)
    <2> SUFFICES ASSUME n <= b PROVE Shown(snapshot, 0, b) = Range(snapshot)
      OBVIOUS
    <2>1. \A j \in 1..n : 0 < j /\ j <= b
      BY <1>1
    <2> QED
      BY <2>1 DEF Shown, Range
  <1> QED
    BY <1>1, <1>2, <1>3, <1>4 DEF a, b

\* A page of a snapshot begins a projection, adds to it or only tells of a watermark.
LEMMA SnapshotConsumed ==
  ASSUME NEW s, NEW at, NEW t, NEW O, \A i \in DOMAIN O : OriginOk(O[i], s),
         NEW p, SnapshotOk(O, p), NEW before,
         before # None => ConsumerOk(O, s, at, t, before) /\ before.mode # "invalidated",
         NEW c, c = ConsumeSnapshotPage(before, p), c # None
  PROVE  ConsumerOk(O, s, at, t, c)
PROOF
  <1> DEFINE b == IF before = None THEN NewConsumer(p) ELSE before
             o == O[p.binding]
  <1>1. p.binding \in DOMAIN O /\ OriginOk(o, s) /\ p.from \in Nat /\ p.current_as_of \in Nat
    BY DEF SnapshotOk
  <1>2. ConsumerShape(b) /\ b.binding \in DOMAIN O /\ b.current_as_of \in Nat
        /\ (Gathering(O[b.binding], b) \/ Living(O[b.binding], s, at, t, b))
    <2>1. CASE before # None
      BY <2>1 DEF ConsumerOk
    <2>2. CASE before = None
      <3>1. /\ b.binding = p.binding /\ b.current_as_of = p.current_as_of /\ ConsumerShape(b)
            /\ b.mode = "snapshot" /\ b.items = {} /\ b.next_snapshot = 0 /\ b.complete = FALSE
        BY <2>2 DEF NewConsumer, ConsumerShape
      <3>2. Shown(o.snapshot, 0, 0 * PageSize) = {}
        BY <1>1, ShownParts DEF OriginOk
      <3> HIDE DEF b
      <3>3. Gathering(o, b)
        BY <3>1, <3>2 DEF Gathering
      <3> QED
        BY <1>1, <3>1, <3>3
    <2> QED
      BY <2>1, <2>2
  <1>3. /\ b.binding = p.binding
        /\ \/ c = RetrySnapshot(b, p)
           \/ /\ b.mode = "snapshot" /\ b.next_snapshot = p.from
              /\ c = [b EXCEPT !.items = @ \cup p.items, !.receipts = @ \cup {p}, !.next_snapshot = p.next,
                       !.current_as_of = Latest(@, p.current_as_of),
                       !.mode = IF p.next = None THEN "live" ELSE @,
                       !.checkpoint = IF p.next = None THEN Base ELSE @]
    BY DEF ConsumeSnapshotPage
  <1> HIDE DEF b
  <1>4. Latest(b.current_as_of, p.current_as_of) \in Nat
    BY <1>1, <1>2 DEF Latest
  <1>5. CASE c = RetrySnapshot(b, p)
    <2>1. /\ ConsumerShape(c) /\ c.binding = b.binding /\ c.mode = b.mode /\ c.items = b.items
          /\ c.checkpoint = b.checkpoint /\ c.next_snapshot = b.next_snapshot /\ c.as_of = b.as_of
      BY <1>2, <1>5 DEF RetrySnapshot, ConsumerShape
    <2>2. c.current_as_of = Latest(b.current_as_of, p.current_as_of)
      BY <1>2, <1>5 DEF RetrySnapshot, ConsumerShape
    <2>3. c.complete = (b.complete /\ p.current_as_of <= Latest(b.as_of, b.current_as_of))
      BY <1>2, <1>5 DEF RetrySnapshot, ConsumerShape
    <2>4. CASE Gathering(O[b.binding], b)
      <3>1. ~c.complete
        BY <2>3, <2>4 DEF Gathering
      <3>2. Gathering(O[c.binding], c)
        BY <2>1, <2>4, <3>1 DEF Gathering
      <3> QED
        BY <1>2, <1>4, <2>1, <2>2, <3>2 DEF ConsumerOk
    <2>5. CASE Living(O[b.binding], s, at, t, b)
      <3>1. ASSUME c.complete PROVE c.as_of = c.current_as_of /\ Watermark(s, at, t, Place(O[c.binding].base, c.checkpoint), c.as_of)
        <4>1. b.complete /\ p.current_as_of <= Latest(b.as_of, b.current_as_of)
          BY <2>3, <3>1
        <4>2. b.as_of = b.current_as_of /\ Watermark(s, at, t, Place(O[b.binding].base, b.checkpoint), b.as_of)
          BY <2>5, <4>1 DEF Living
        <4>3. c.current_as_of = b.current_as_of
          BY <1>1, <1>2, <2>2, <4>1, <4>2 DEF Latest
        <4> QED
          BY <2>1, <4>2, <4>3
      <3>2. Living(O[c.binding], s, at, t, c)
        BY <2>1, <2>5, <3>1 DEF Living
      <3> QED
        BY <1>2, <1>4, <2>1, <2>2, <3>2 DEF ConsumerOk
    <2> QED
      BY <1>2, <2>4, <2>5
  <1>6. CASE /\ b.mode = "snapshot" /\ b.next_snapshot = p.from
             /\ c = [b EXCEPT !.items = @ \cup p.items, !.receipts = @ \cup {p}, !.next_snapshot = p.next,
                       !.current_as_of = Latest(@, p.current_as_of),
                       !.mode = IF p.next = None THEN "live" ELSE @,
                       !.checkpoint = IF p.next = None THEN Base ELSE @]
    <2>1. Gathering(o, b)
      BY <1>2, <1>3, <1>6 DEF Living
    <2>2. /\ ConsumerShape(c) /\ c.binding = p.binding /\ c.items = b.items \cup p.items
          /\ c.next_snapshot = p.next
      BY <1>2, <1>3, <1>6 DEF ConsumerShape
    <2>3. /\ c.current_as_of = Latest(b.current_as_of, p.current_as_of)
          /\ c.mode = (IF p.next = None THEN "live" ELSE "snapshot")
      BY <1>2, <1>6 DEF ConsumerShape
    <2>4. c.complete = b.complete /\ (p.next = None => c.checkpoint = Base)
      BY <1>2, <1>6 DEF ConsumerShape
    <2>5. ~c.complete /\ b.items = Shown(o.snapshot, 0, p.from * PageSize)
      BY <1>6, <2>1, <2>4 DEF Gathering
    <2>6. p.items = Shown(o.snapshot, p.from * PageSize, (p.from + 1) * PageSize)
      BY DEF SnapshotOk
    <2>7. /\ c.items = Shown(o.snapshot, 0, (p.from + 1) * PageSize)
          /\ Len(o.snapshot) <= (p.from + 1) * PageSize => c.items = Range(o.snapshot)
      <3> DEFINE shot == o.snapshot
                 l == Len(o.snapshot)
      <3>1. l \in Nat /\ DOMAIN shot = 1..l
        BY <1>1 DEF OriginOk
      <3>2. c.items = Shown(shot, 0, p.from * PageSize) \cup Shown(shot, p.from * PageSize, (p.from + 1) * PageSize)
        BY <2>2, <2>5, <2>6
      <3> HIDE DEF shot, l
      <3>3. /\ Shown(shot, 0, p.from * PageSize) \cup Shown(shot, p.from * PageSize, (p.from + 1) * PageSize)
                 = Shown(shot, 0, (p.from + 1) * PageSize)
            /\ l <= (p.from + 1) * PageSize => Shown(shot, 0, (p.from + 1) * PageSize) = Range(shot)
        BY ONLY <1>1, <3>1, ShownParts
      <3> QED
        BY <3>2, <3>3 DEF shot, l
    <2>8. CASE p.next = None
      <3>1. Len(o.snapshot) <= (p.from + 1) * PageSize
        <4>1. p.next # p.from + 1
          BY <1>1, <2>8, FeedAssumption
        <4> QED
          BY <4>1 DEF SnapshotOk
      <3>2. c.items = Told(s, o.base) /\ o.base \in 0..Len(s)
        BY <1>1, <2>7, <3>1 DEF OriginOk
      <3>3. Place(o.base, c.checkpoint) = o.base /\ c.mode = "live"
        BY <2>3, <2>4, <2>8 DEF Place
      <3>4. Living(o, s, at, t, c)
        BY <2>5, <3>2, <3>3 DEF Living
      <3> QED
        BY <1>1, <1>4, <2>2, <2>3, <3>4 DEF ConsumerOk
    <2>9. CASE p.next # None
      <3>1. c.next_snapshot = p.from + 1 /\ c.next_snapshot \in Nat /\ c.mode = "snapshot"
        BY <1>1, <2>2, <2>3, <2>9 DEF SnapshotOk
      <3>2. Gathering(o, c)
        BY <2>5, <2>7, <3>1 DEF Gathering
      <3> QED
        BY <1>1, <1>4, <2>2, <2>3, <3>2 DEF ConsumerOk
    <2> QED
      BY <2>8, <2>9
  <1> QED
    BY <1>3, <1>5, <1>6
-----------------------------------------------------------------------------
(* The feed: the consumer, change by change *)

SameMarks(c, d) ==
  /\ d.binding = c.binding /\ d.mode = c.mode /\ d.as_of = c.as_of
  /\ d.current_as_of = c.current_as_of /\ d.complete = c.complete
\* A consumer that stands at a place, having come there from another by changes accepted
\* up to w, if at all.
Stands(c, base, s) == Place(base, c.checkpoint) \in 0..Len(s) /\ c.items = Told(s, Place(base, c.checkpoint))
Moved(c, d, base, s, at, w) ==
  \/ d.checkpoint = c.checkpoint
  \/ /\ Place(base, c.checkpoint) < Place(base, d.checkpoint)
     /\ \E k \in 1..Len(s) : Carries(s, k) /\ Place(base, c.checkpoint) < k /\ at[k] <= w

LEMMA DeliveredNew ==
  ASSUME NEW c, ConsumerShape(c), c # None, NEW d, d \notin c.seen, TakeDelivery(c, d) # None
  PROVE  LET g == TakeDelivery(c, d)
         IN  /\ c.checkpoint = d.previous_checkpoint
             /\ g.items = Applied(c.items, d.change) /\ g.checkpoint = d.change.event_id
             /\ ConsumerShape(g) /\ SameMarks(c, g)
PROOF
  <1> DEFINE g == [c EXCEPT !.items = Applied(@, d.change), !.checkpoint = d.change.event_id,
                            !.seen = @ \cup {d}]
  <1>1. c.checkpoint = d.previous_checkpoint /\ TakeDelivery(c, d) = g
    BY DEF TakeDelivery
  <1>2. ConsumerShape(g)
    BY DEF ConsumerShape
  <1>3. g.items = Applied(c.items, d.change) /\ g.checkpoint = d.change.event_id
    BY DEF ConsumerShape
  <1>4. SameMarks(c, g)
    BY DEF ConsumerShape, SameMarks
  <1> HIDE DEF g
  <1> QED
    BY <1>1, <1>2, <1>3, <1>4

\* A delivery that is not refused was taken before or is the next change.
LEMMA DeliverOne ==
  ASSUME NEW s, NEW at, History(s), NEW base \in 0..Len(s), NEW w, NEW b,
         NEW c, ConsumerShape(c), c # None, SameMarks(b, c), Stands(c, base, s),
         Place(base, b.checkpoint) \in 0..Len(s), Moved(b, c, base, s, at, w),
         NEW d \in Deliveries(s, at, base, Len(s)), d.change.accepted_at <= w,
         TakeDelivery(c, d) # None
  PROVE  LET g == TakeDelivery(c, d)
         IN  ConsumerShape(g) /\ SameMarks(b, g) /\ Stands(g, base, s) /\ Moved(b, g, base, s, at, w)
PROOF
  <1> DEFINE g == TakeDelivery(c, d)
             m == Place(base, c.checkpoint)
             a == Place(base, b.checkpoint)
  <1>1. Len(s) \in Nat /\ DOMAIN s = 1..Len(s) /\ base \in Nat
    BY LenProperties DEF History
  <1>2. CASE d \in c.seen
    <2>1. g = c
      BY <1>2 DEF TakeDelivery
    <2> QED
      BY <2>1
  <1>3. CASE d \notin c.seen
    <2>1. /\ c.checkpoint = d.previous_checkpoint
          /\ g.items = Applied(c.items, d.change) /\ g.checkpoint = d.change.event_id
          /\ ConsumerShape(g) /\ SameMarks(c, g)
      BY <1>3, DeliveredNew
    <2>2. PICK k \in (base + 1)..Len(s) : DeliveredAt(s, at, base, k, d)
      BY DEF Deliveries
    <2>3. /\ Carries(s, k) /\ d.change = Change(s, at, k)
          /\ m <= k - 1 /\ Quiet(s, m, k - 1)
      BY <2>1, <2>2 DEF DeliveredAt, Follows
    <2>4. d.change.event_id = k /\ d.change.accepted_at = at[k]
      BY <2>3 DEF Change
    <2>5. m \in Nat /\ a \in Nat /\ c.items = Told(s, m)
      BY <1>1 DEF Stands
    <2>6. k \in Nat \ {0} /\ k \in 1..Len(s) /\ k - 1 \in Nat /\ k # Base
      BY <1>1 DEF Base
    <2> HIDE DEF g, m
    <2>7. Told(s, k - 1) = Told(s, m)
      BY <2>3, <2>5, <2>6, ToldQuiet
    <2>8. s[k].revision # None
      BY <1>1, <2>3, <2>6, FeedAssumption DEF History
    <2>9. Told(s, k) = Applied(Told(s, k - 1), Change(s, at, k))
      BY <2>3, <2>6, <2>8, ToldNext
    <2>10. Place(base, g.checkpoint) = k /\ g.items = Told(s, k)
      BY <2>1, <2>3, <2>4, <2>5, <2>6, <2>7, <2>9 DEF Place
    <2>11. Stands(g, base, s)
      BY <2>6, <2>10 DEF Stands
    <2>12. a <= m
      <3>1. c.checkpoint = b.checkpoint => a = m
        BY DEF m
      <3>2. c.checkpoint # b.checkpoint => a < m
        BY DEF Moved, m
      <3> HIDE DEF a
      <3> QED
        BY <2>5, <3>1, <3>2
    <2>13. a < k /\ at[k] <= w
      <3> HIDE DEF a
      <3> QED
        BY <2>3, <2>4, <2>5, <2>6, <2>12
    <2>14. Moved(b, g, base, s, at, w)
      BY <2>3, <2>6, <2>10, <2>13 DEF Moved
    <2>15. SameMarks(b, g)
      BY <2>1 DEF SameMarks
    <2> QED
      BY <2>1, <2>11, <2>14, <2>15 DEF g
  <1> QED
    BY <1>2, <1>3

\* So is a whole page of them.
LEMMA DeliverAll ==
  ASSUME NEW s, NEW at, History(s), NEW base \in 0..Len(s), NEW w,
         NEW c, ConsumerShape(c), Stands(c, base, s),
         NEW es \in Seq(Deliveries(s, at, base, Len(s))),
         \A i \in DOMAIN es : es[i].change.accepted_at <= w,
         NEW g, g = FoldLeft(TakeDelivery, c, es), g # None
  PROVE  ConsumerShape(g) /\ SameMarks(c, g) /\ Stands(g, base, s) /\ Moved(c, g, base, s, at, w)
PROOF
  <1> DEFINE n == Len(es)
  <1>1. n \in Nat /\ DOMAIN es = 1..n /\ \A i \in 1..n : es[i] \in Deliveries(s, at, base, Len(s))
    BY LenProperties, ElementOfSeq
  <1> HIDE DEF n
  <1>2. PICK F : Turns(F, "consumer", c, es, n) /\ F[n] = g
    BY <1>1, PageInTurn
  <1>3. F[0] = c /\ \A i \in 1..n : F[i] = TakeDelivery(F[i - 1], es[i])
    BY <1>2 DEF Turns, Taking
  <1> DEFINE good(x) == ConsumerShape(x) /\ SameMarks(c, x) /\ Stands(x, base, s) /\ Moved(c, x, base, s, at, w)
             R == {i \in 0..n : F[i] # None => good(F[i])}
  <1>4. 0 \in R
    BY <1>1, <1>3 DEF SameMarks, Moved
  <1>5. ASSUME NEW i \in 1..n, i - 1 \in R PROVE i \in R
    <2>1. i \in 0..n /\ F[i] = TakeDelivery(F[i - 1], es[i])
      BY <1>1, <1>3
    <2>2. F[i] # None => F[i - 1] # None
      BY <2>1 DEF TakeDelivery
    <2>3. F[i - 1] # None => good(F[i - 1])
      BY <1>5
    <2>4. ASSUME F[i] # None PROVE good(F[i])
      <3> DEFINE x == F[i - 1]
                 d == es[i]
      <3>1. x # None /\ ConsumerShape(x) /\ SameMarks(c, x) /\ Stands(x, base, s) /\ Moved(c, x, base, s, at, w)
        BY <2>2, <2>3, <2>4
      <3>2. d \in Deliveries(s, at, base, Len(s)) /\ d.change.accepted_at <= w /\ TakeDelivery(x, d) # None
        BY <1>1, <2>1, <2>4
      <3>3. Place(base, c.checkpoint) \in 0..Len(s)
        BY DEF Stands
      <3> HIDE DEF x, d
      <3>4. LET y == TakeDelivery(x, d)
            IN  ConsumerShape(y) /\ SameMarks(c, y) /\ Stands(y, base, s) /\ Moved(c, y, base, s, at, w)
        BY <3>1, <3>2, <3>3, DeliverOne
      <3> QED
        BY <2>1, <3>4 DEF x, d
    <2> QED
      BY <2>1, <2>4
  <1>6. n \in R
    <2> HIDE DEF R
    <2> QED
      BY <1>1, <1>4, <1>5, Climb
  <1> QED
    BY <1>2, <1>6

\* A page of changes brings a consumer further, ends it or only tells of a watermark; one
\* that is older than what the consumer has heard of brings nothing new to a complete one.
LEMMA ChangesConsumed ==
  ASSUME NEW s, NEW at, NEW t, History(s), Timed(s, at, t), NEW O, \A i \in DOMAIN O : OriginOk(O[i], s),
         NEW p, p = Restart \/ ChangesOk(O, s, at, t, p),
         NEW b, ConsumerOk(O, s, at, t, b),
         NEW c, c = ConsumeChangePage(b, p), c # None
  PROVE  ConsumerOk(O, s, at, t, c)
PROOF
  <1>1. ConsumerShape(b) /\ b.binding \in DOMAIN O /\ b.current_as_of \in Nat
    BY DEF ConsumerOk
  <1>2. CASE p = Restart
    <2>1. p.kind = "resnapshot_required"
      BY <1>2 DEF Restart
    <2>2. c = [b EXCEPT !.mode = "invalidated", !.items = {}, !.checkpoint = None,
                   !.next_snapshot = None, !.complete = FALSE, !.seen = {}, !.receipts = {}]
      BY <2>1 DEF ConsumeChangePage
    <2>3. /\ ConsumerShape(c) /\ c.mode = "invalidated" /\ c.complete = FALSE
          /\ c.binding = b.binding /\ c.current_as_of = b.current_as_of
      BY <1>1, <2>2 DEF ConsumerShape
    <2> QED
      BY <1>1, <2>3 DEF ConsumerOk
  <1>3. CASE ChangesOk(O, s, at, t, p)
    <2> DEFINE base == O[p.binding].base
               g == FoldLeft(TakeDelivery, b, p.events)
               w == p.current_as_of
    <2>1. /\ p.kind = "changes" /\ p.binding \in DOMAIN O /\ w \in 0..t
          /\ p.events \in Seq(Deliveries(s, at, base, Len(s)))
          /\ \A k \in DOMAIN p.events : p.events[k].change.accepted_at <= w
      BY <1>3 DEF ChangesOk
    <2>2. b.mode = "live" /\ b.binding = p.binding /\ g # None /\ c = Watermarked(g, p)
      BY <2>1 DEF ConsumeChangePage
    <2>3. Living(O[p.binding], s, at, t, b)
      BY <2>2 DEF ConsumerOk, Gathering
    <2>4. base \in 0..Len(s) /\ Stands(b, base, s)
      BY <2>1, <2>3 DEF OriginOk, Living, Stands
    <2>5. p.complete => Watermark(s, at, t, Place(base, p.to), w)
      BY <1>3 DEF ChangesOk
    <2>6. b.complete => b.as_of = b.current_as_of /\ Watermark(s, at, t, Place(base, b.checkpoint), b.as_of)
      BY <2>3 DEF Living
    <2> HIDE DEF base, g
    <2>7. ConsumerShape(g) /\ SameMarks(b, g) /\ Stands(g, base, s) /\ Moved(b, g, base, s, at, w)
      BY <1>1, <2>1, <2>2, <2>4, DeliverAll DEF g
    <2>8. g.binding = p.binding /\ g.mode = "live" /\ g.current_as_of = b.current_as_of /\ w \in Nat
      BY <2>1, <2>2, <2>7 DEF SameMarks, Timed
    <2>9. CASE w >= g.current_as_of
      <3>1. c = [g EXCEPT !.current_as_of = w, !.complete = CaughtUp(g, p),
                          !.as_of = IF CaughtUp(g, p) THEN w ELSE @]
        BY <2>2, <2>9 DEF Watermarked
      <3>2. /\ ConsumerShape(c) /\ c.binding = g.binding /\ c.mode = g.mode
            /\ c.items = g.items /\ c.checkpoint = g.checkpoint
        BY <2>7, <3>1 DEF ConsumerShape
      <3>3. c.current_as_of = w /\ (c.complete => CaughtUp(g, p) /\ c.as_of = w)
        BY <2>7, <3>1 DEF ConsumerShape
      <3>4. c.complete => Watermark(s, at, t, Place(base, c.checkpoint), w)
        BY <2>5, <3>2, <3>3 DEF CaughtUp
      <3>5. Living(O[p.binding], s, at, t, c)
        BY <2>7, <2>8, <3>2, <3>3, <3>4 DEF Living, Stands, base
      <3> QED
        BY <2>1, <2>8, <3>2, <3>3, <3>5 DEF ConsumerOk
    <2>10. CASE ~(w >= g.current_as_of)
      <3>1. c = g
        BY <2>2, <2>10 DEF Watermarked
      <3>2. ASSUME g.complete PROVE g.checkpoint = b.checkpoint /\ g.as_of = g.current_as_of
        <4>1. b.complete /\ b.as_of = b.current_as_of /\ g.as_of = b.as_of
          BY <2>6, <2>7, <3>2 DEF SameMarks
        <4>2. ASSUME NEW k \in 1..Len(s), Carries(s, k), Place(base, b.checkpoint) < k, at[k] <= w PROVE FALSE
          <5>1. Watermark(s, at, t, Place(base, b.checkpoint), b.as_of)
            BY <2>6, <4>1
          <5>2. Place(base, b.checkpoint) \in Nat /\ at[k] \in Nat
            BY <2>4 DEF Stands, Timed
          <5>3. b.as_of <= at[k]
            BY <4>2, <5>1, <5>2 DEF Watermark
          <5>4. w < b.as_of /\ b.as_of \in Nat
            BY <1>1, <2>8, <2>10, <4>1
          <5> QED
            BY <2>8, <4>2, <5>2, <5>3, <5>4
        <4>3. g.checkpoint = b.checkpoint
          BY <2>7, <4>2 DEF Moved
        <4> QED
          BY <2>8, <4>1, <4>3
      <3>3. g.complete => Watermark(s, at, t, Place(base, g.checkpoint), g.as_of)
        BY <2>6, <2>7, <3>2 DEF SameMarks
      <3>4. Living(O[p.binding], s, at, t, g)
        BY <2>7, <2>8, <3>2, <3>3 DEF Living, Stands, base
      <3> QED
        BY <1>1, <2>1, <2>7, <2>8, <3>1, <3>4 DEF ConsumerOk
    <2> QED
      BY <2>9, <2>10
  <1> QED
    BY <1>2, <1>3
-----------------------------------------------------------------------------
(* The feed follows the store *)

\* Where no view may be opened there is none, and otherwise all that travels is in order.
FeedStands ==
  IF scenario.views = 0 THEN view = None /\ consumer = None
  ELSE \E O : FeedOk(O, outbox, accepted_at, now, view, batches, pages, consumer)

LEMMA FeedStarts == FeedInit => FeedStands
PROOF
  <1> SUFFICES ASSUME FeedInit, scenario.views # 0 PROVE FeedStands
    BY DEF FeedInit, FeedStands
  <1> DEFINE O == [i \in 1..0 |-> 0]
  <1>1. /\ outbox = <<>> /\ accepted_at = <<>> /\ now = 0
        /\ view = None /\ consumer = None /\ batches = {} /\ pages = {}
    BY DEF FeedInit, Init, StoreInit
  <1>2. History(outbox)
    BY HistoryInit DEF FeedInit
  <1>3. Timed(outbox, accepted_at, now)
    BY <1>1 DEF Timed
  <1>4. DOMAIN O = 1..0 /\ \A i \in DOMAIN O : FALSE
    OBVIOUS
  <1> HIDE DEF O
  <1>5. FeedOk(O, outbox, accepted_at, now, view, batches, pages, consumer)
    BY <1>1, <1>2, <1>3, <1>4 DEF FeedOk
  <1> QED
    BY <1>5 DEF FeedStands

\* The store only adds to its outbox, and time does not go back.
LEMMA StoreGrows ==
  ASSUME Standing, OutboxStands, Next
  PROVE  /\ \E es \in Seq(Event) : outbox' = outbox \o es
         /\ now \in Nat /\ now' \in Nat /\ now <= now' /\ scenario' = scenario
PROOF
  <1>1. now \in Nat /\ outbox \in Seq(Event)
    BY DEF Standing, TypeOK, OutboxStands
  <1>2. ASSUME UNCHANGED outbox PROVE \E es \in Seq(Event) : outbox' = outbox \o es
    <2>1. <<>> \in Seq(Event) /\ outbox \o <<>> = outbox
      BY <1>1, EmptySeq, ConcatEmptySeq
    <2> QED
      BY <1>2, <2>1
  <1>3. ASSUME NEW ev \in Event, outbox' = Append(outbox, ev) PROVE \E es \in Seq(Event) : outbox' = outbox \o es
    <2>1. <<ev>> \in Seq(Event) /\ outbox' = outbox \o <<ev>>
      BY <1>1, <1>3, AppendIsConcat
    <2> QED
      BY <2>1
  <1>4. ASSUME NEW C, NEW g \in scenario.offers, Grant(g, C) PROVE \E es \in Seq(Event) : outbox' = outbox \o es
    <2>1. g.id \in GrantId
      BY ScenarioAssumption DEF Standing, TypeOK, CapabilityGrant
    <2>2. [kind |-> "authority.changed", entity |-> g.id, revision |-> "grant"] \in Event
      BY <2>1 DEF Event
    <2> QED
      BY <1>3, <1>4, <2>2 DEF Grant
  <1>5. ASSUME NEW C, NEW g \in GrantId, Revoke(g, C) PROVE \E es \in Seq(Event) : outbox' = outbox \o es
    <2>1. [kind |-> "authority.changed", entity |-> g, revision |-> "revoke"] \in Event
      BY DEF Event
    <2> QED
      BY <1>3, <1>5, <2>1 DEF Revoke
  <1>6. ASSUME NEW C, NEW e, Import(e, C) PROVE \E es \in Seq(Event) : outbox' = outbox \o es
    <2>1. [kind |-> "revision.imported", entity |-> e, revision |-> Imported] \in Event
      BY <1>6 DEF Import, Event
    <2> QED
      BY <1>3, <1>6, <2>1 DEF Import
  <1>7. ASSUME NEW n \in Nonce, NEW commit \in now..scenario.until, NEW presented \in SUBSET approvals,
               Execute(n, presented, commit)
        PROVE  \E es \in Seq(Event) : outbox' = outbox \o es
    <2>1. challenges[n].intent \in OperationIntent /\ outbox' = outbox \o Effects(challenges[n].intent)
      BY <1>7, ExecuteTables
    <2> QED
      BY <2>1, EffectsFacts
  <1>8. \/ UNCHANGED outbox
        \/ \E C \in SUBSET Person : \/ \E g \in scenario.offers : Grant(g, C)
                                    \/ \E g \in GrantId : Revoke(g, C)
                                    \/ \E e \in scenario.imports : Import(e, C)
        \/ \E n \in Nonce, commit \in now..scenario.until : \E presented \in SUBSET approvals : Execute(n, presented, commit)
    BY ZenonT(60) DEF Next, Tick, Bootstrap, SignTransition, IssueChallenge, Approve, TakeTransition, Retry
  <1>9. scenario' = scenario
    BY ZenonT(60) DEF Next, Tick, Bootstrap, SignTransition, IssueChallenge, Approve, TakeTransition, Retry,
                      Grant, Revoke, Import, Execute
  <1>10. now' = now \/ now' = now + 1 \/ \E commit \in now..scenario.until : now' = commit
    BY ZenonT(60) DEF Next, Tick, Bootstrap, SignTransition, IssueChallenge, Approve, TakeTransition, Retry,
                      Grant, Revoke, Import, Execute
  <1>11. now' \in Nat /\ now <= now'
    <2>1. scenario.until \in Nat
      BY ScenarioAssumption, StoreAssumption DEF Standing, TypeOK
    <2>2. \A commit \in now..scenario.until : commit \in Nat /\ now <= commit
      BY <1>1, <2>1
    <2> QED
      BY <1>1, <1>10, <2>2
  <1> QED
    BY <1>1, <1>2, <1>4, <1>5, <1>6, <1>7, <1>8, <1>9, <1>11

LEMMA FeedStoreStep ==
  ASSUME Standing, OutboxStands, FeedStands, StoreStep
  PROVE  FeedStands'
PROOF
  <1>1. /\ \E es \in Seq(Event) : outbox' = outbox \o es
        /\ now \in Nat /\ now' \in Nat /\ now <= now' /\ scenario' = scenario
    BY StoreGrows DEF StoreStep
  <1>2. Next /\ view' = view /\ batches' = batches /\ pages' = pages /\ consumer' = consumer
    BY DEF StoreStep, feed
  <1>3. CASE scenario.views = 0
    BY <1>1, <1>2, <1>3 DEF FeedStands
  <1>4. CASE scenario.views # 0
    <2>1. PICK O : FeedOk(O, outbox, accepted_at, now, view, batches, pages, consumer)
      BY <1>4 DEF FeedStands
    <2>2. History(outbox) /\ Timed(outbox, accepted_at, now)
      BY <2>1 DEF FeedOk
    <2>3. History(outbox')
      BY <1>2, <2>2, HistoryNext
    <2>4. PICK es \in Seq(Event) : outbox' = outbox \o es
      BY <1>1
    <2>5. /\ Len(outbox) \in Nat /\ Len(es) \in Nat /\ Len(outbox') = Len(outbox) + Len(es)
          /\ DOMAIN outbox = 1..Len(outbox) /\ DOMAIN outbox' = 1..Len(outbox')
          /\ \A k \in DOMAIN outbox : outbox'[k] = outbox[k]
      BY <2>2, <2>4, Appended DEF History
    <2>6. accepted_at' = [k \in DOMAIN outbox' |-> IF k \in DOMAIN accepted_at THEN accepted_at[k] ELSE now]
      BY <1>4 DEF StoreStep
    <2>7. accepted_at \in [1..Len(outbox) -> 0..now] /\ DOMAIN accepted_at = 1..Len(outbox)
      BY <2>2 DEF Timed
    <2>8. \A k \in 1..Len(outbox') : accepted_at'[k] = IF k \in 1..Len(outbox) THEN accepted_at[k] ELSE now
      BY <2>5, <2>6, <2>7
    <2>9. accepted_at' \in [1..Len(outbox') -> 0..now']
      <3>1. \A k \in 1..Len(outbox') : accepted_at'[k] \in 0..now'
        BY <1>1, <2>7, <2>8
      <3> QED
        BY <2>5, <2>6, <3>1
    <2>10. Grows(outbox, accepted_at, now, outbox', accepted_at', now')
      <3>1. Timed(outbox', accepted_at', now')
        BY <1>1, <2>5, <2>9 DEF Timed
      <3>2. \A k \in 1..Len(outbox) : k \in 1..Len(outbox')
        BY <2>5
      <3>3. \A k \in (Len(outbox) + 1)..Len(outbox') : accepted_at'[k] = now /\ now <= accepted_at'[k]
        BY <1>1, <2>5, <2>8
      <3> QED
        BY <1>1, <2>2, <2>5, <2>8, <3>1, <3>2, <3>3 DEF Grows
    <2>11. FeedOk(O, outbox', accepted_at', now', view, batches, pages, consumer)
      BY <2>1, <2>3, <2>10, FeedKept
    <2> QED
      BY <1>1, <1>2, <1>4, <2>11 DEF FeedStands
  <1> QED
    BY <1>3, <1>4

\* The order of the feed, whatever its memory of the views: what a step of the feed keeps.
FeedIs(O) == FeedOk(O, outbox, accepted_at, now, view, batches, pages, consumer)

LEMMA OpenStands ==
  ASSUME NEW O, FeedIs(O), OpenView
  PROVE  \E P : FeedIs(P)'
PROOF
  <1>1. /\ Committed(CreateChangeView(ViewId + 1, SetToSeq(Projection(Len(outbox))), Len(outbox), now))
        /\ batches' = {} /\ UNCHANGED <<vars, accepted_at, pages, consumer>>
    BY DEF OpenView
  <1>2. Projection(Len(outbox)) = Told(outbox, Len(outbox))
    BY FeedReads
  <1>3. /\ view' = CreateChangeView((IF view = None THEN 0 ELSE view.binding) + 1,
                                    SetToSeq(Told(outbox, Len(outbox))), Len(outbox), now)
        /\ view' # None
    BY <1>1, <1>2 DEF Committed, ViewId
  <1>4. \E P : FeedOk(P, outbox, accepted_at, now, view', {}, pages, consumer)
    BY <1>3, FeedOpens DEF FeedIs
  <1>5. outbox' = outbox /\ now' = now
    BY <1>1 DEF vars
  <1> QED
    BY <1>1, <1>4, <1>5 DEF FeedIs

\* What a reader of the outbox finds in order.
LEMMA OriginStands ==
  ASSUME NEW O, FeedIs(O)
  PROVE  /\ History(outbox) /\ Timed(outbox, accepted_at, now) /\ now \in Nat
         /\ \A i \in DOMAIN O : OriginOk(O[i], outbox)
         /\ view # None => /\ ViewOk(O, outbox, accepted_at, now, view)
                           /\ OriginOk(O[view.binding], outbox) /\ O[view.binding].base \in Nat
                           /\ view.source_checkpoint \in 0..Len(outbox)
PROOF
  <1>1. /\ History(outbox) /\ Timed(outbox, accepted_at, now)
        /\ \A i \in DOMAIN O : OriginOk(O[i], outbox)
        /\ view # None => ViewOk(O, outbox, accepted_at, now, view)
    BY DEF FeedIs, FeedOk
  <1>2. now \in Nat /\ Len(outbox) \in Nat
    BY <1>1 DEF Timed
  <1>3. ASSUME view # None
        PROVE  /\ OriginOk(O[view.binding], outbox) /\ O[view.binding].base \in Nat
               /\ view.source_checkpoint \in 0..Len(outbox)
    <2>1. OriginOk(O[view.binding], outbox) /\ view.source_checkpoint \in O[view.binding].base..Len(outbox)
      BY <1>1, <1>3 DEF ViewOk
    <2>2. O[view.binding].base \in 0..Len(outbox)
      BY <2>1 DEF OriginOk
    <2> QED
      BY <1>2, <2>1, <2>2
  <1> QED
    BY <1>1, <1>2, <1>3

LEMMA ScanStands ==
  ASSUME NEW O, FeedIs(O), view # None, NEW k \in 0..view.source_checkpoint, ScanBatch(k)
  PROVE  FeedIs(O)'
PROOF
  <1> DEFINE b == [expected_version |-> view.version, from_source_checkpoint |-> view.source_checkpoint,
                   to_source_checkpoint |-> Len(outbox),
                   events |-> [i \in 1..Cardinality(Since(k)) |-> ChangeAt(InOrder(Since(k))[i])],
                   as_of |-> now]
  <1>1. batches' = batches \cup {b} /\ UNCHANGED <<vars, accepted_at, view, pages, consumer>>
    BY DEF ScanBatch
  <1>2. Since(k) = Scanned(outbox, k, Len(outbox))
    BY FeedReads DEF Since, Scanned
  <1>3. [i \in 1..Cardinality(Since(k)) |-> ChangeAt(InOrder(Since(k))[i])]
        = BatchOf(outbox, accepted_at, k, Len(outbox))
    BY <1>2, FeedReads DEF BatchOf
  <1>4. /\ b.from_source_checkpoint = view.source_checkpoint /\ b.to_source_checkpoint = Len(outbox)
        /\ b.events = BatchOf(outbox, accepted_at, k, Len(outbox)) /\ b.as_of = now
    BY <1>3
  <1> HIDE DEF b
  <1>5. BatchOk(outbox, accepted_at, now, b)
    BY <1>4, OriginStands, FeedScans
  <1>6. outbox' = outbox /\ now' = now
    BY <1>1 DEF vars
  <1> QED
    BY <1>1, <1>5, <1>6 DEF FeedIs, FeedOk

LEMMA ViewMoves ==
  ASSUME NEW O, FeedIs(O), view # None, view' # None, ViewOk(O, outbox, accepted_at, now, view'),
         view'.binding = view.binding, UNCHANGED <<vars, accepted_at, batches, pages, consumer>>
  PROVE  FeedIs(O)'
PROOF
  <1>1. outbox' = outbox /\ now' = now
    BY DEF vars
  <1> QED
    BY <1>1 DEF FeedIs, FeedOk

LEMMA TakeStands ==
  ASSUME NEW O, FeedIs(O), view # None, NEW b \in batches, TakeBatch(b)
  PROVE  FeedIs(O)'
PROOF
  <1>1. /\ view' = AppendChangeBatch(view, b) /\ view' # None
        /\ UNCHANGED <<vars, accepted_at, batches, pages, consumer>>
    BY DEF TakeBatch, Committed
  <1>2. BatchOk(outbox, accepted_at, now, b)
    BY DEF FeedIs, FeedOk
  <1>3. ViewOk(O, outbox, accepted_at, now, view') /\ view'.binding = view.binding
    BY <1>1, <1>2, OriginStands, FeedTakes
  <1> QED
    BY <1>1, <1>3, ViewMoves

LEMMA RetainStands ==
  ASSUME NEW O, FeedIs(O), NEW keep \in 0..(MaxRetained - 1), Retain(keep)
  PROVE  FeedIs(O)'
PROOF
  <1>1. /\ view # None /\ Len(view.events) > keep /\ view' = RetainChanges(view, keep) /\ view' # None
        /\ UNCHANGED <<vars, accepted_at, batches, pages, consumer>>
    BY DEF Retain, Committed
  <1>2. keep \in Nat
    OBVIOUS
  <1>3. ViewOk(O, outbox, accepted_at, now, view') /\ view'.binding = view.binding
    BY <1>1, <1>2, OriginStands, FeedRetains
  <1> QED
    BY <1>1, <1>3, ViewMoves

\* Pages are sent, lost and taken; nothing else of the feed moves.
LEMMA SendStands ==
  ASSUME NEW O, FeedIs(O), NEW p, PageOk(O, outbox, accepted_at, now, p), Send(p)
  PROVE  FeedIs(O)'
PROOF
  <1>1. pages' = pages \cup {p} /\ UNCHANGED <<vars, accepted_at, view, batches, consumer>>
    BY DEF Send
  <1>2. outbox' = outbox /\ now' = now
    BY <1>1 DEF vars
  <1> QED
    BY <1>1, <1>2 DEF FeedIs, FeedOk

LEMMA ReceiveStands ==
  ASSUME NEW O, FeedIs(O), NEW c, c # None => ConsumerOk(O, outbox, accepted_at, now, c), Receive(c)
  PROVE  FeedIs(O)'
PROOF
  <1>1. c # None /\ consumer' = c /\ UNCHANGED <<vars, accepted_at, view, batches, pages>>
    BY DEF Receive
  <1>2. outbox' = outbox /\ now' = now
    BY <1>1 DEF vars
  <1> QED
    BY <1>1, <1>2 DEF FeedIs, FeedOk

LEMMA TakeSnapshotStands ==
  ASSUME NEW O, FeedIs(O), NEW p \in pages, TakeSnapshotPage(p)
  PROVE  FeedIs(O)'
PROOF
  <1> DEFINE before == IF consumer # None /\ consumer.mode = "invalidated" THEN None ELSE consumer
             c == ConsumeSnapshotPage(before, p)
  <1>1. p.kind = "snapshot" /\ Receive(c)
    BY DEF TakeSnapshotPage
  <1>2. PageOk(O, outbox, accepted_at, now, p)
    BY DEF FeedIs, FeedOk
  <1>3. SnapshotOk(O, p)
    BY <1>1, <1>2 DEF PageOk, Restart, ChangesOk
  <1>4. before # None => ConsumerOk(O, outbox, accepted_at, now, before) /\ before.mode # "invalidated"
    BY DEF FeedIs, FeedOk
  <1>5. \A i \in DOMAIN O : OriginOk(O[i], outbox)
    BY OriginStands
  <1> HIDE DEF before
  <1>6. c # None => ConsumerOk(O, outbox, accepted_at, now, c)
    BY <1>3, <1>4, <1>5, SnapshotConsumed
  <1> HIDE DEF c
  <1> QED
    BY <1>1, <1>6, ReceiveStands

LEMMA TakeChangeStands ==
  ASSUME NEW O, FeedIs(O), NEW p \in pages, TakeChangePage(p)
  PROVE  FeedIs(O)'
PROOF
  <1> DEFINE c == ConsumeChangePage(consumer, p)
  <1>1. p.kind # "snapshot" /\ consumer # None /\ Receive(c)
    BY DEF TakeChangePage
  <1>2. PageOk(O, outbox, accepted_at, now, p) /\ ConsumerOk(O, outbox, accepted_at, now, consumer)
    BY <1>1 DEF FeedIs, FeedOk
  <1>3. p = Restart \/ ChangesOk(O, outbox, accepted_at, now, p)
    BY <1>1, <1>2 DEF PageOk, SnapshotOk
  <1>4. /\ History(outbox) /\ Timed(outbox, accepted_at, now)
        /\ \A i \in DOMAIN O : OriginOk(O[i], outbox)
    BY OriginStands
  <1>5. c # None => ConsumerOk(O, outbox, accepted_at, now, c)
    BY <1>2, <1>3, <1>4, ChangesConsumed
  <1> HIDE DEF c
  <1> QED
    BY <1>1, <1>5, ReceiveStands

\* Whatever the host and the application do, all that travels stays in order.
LEMMA FeedStepStands ==
  ASSUME FeedStands, scenario.views > 0, FeedStep
  PROVE  FeedStands'
PROOF
  <1>1. PICK O : FeedIs(O)
    BY DEF FeedStands, FeedIs
  <1>2. (\E P : FeedIs(P)') /\ scenario' = scenario => FeedStands'
    BY DEF FeedStands, FeedIs
  <1>3. ASSUME scenario' = scenario, FeedIs(O)' PROVE FeedStands'
    BY <1>2, <1>3
  <1>4. CASE OpenView
    BY <1>1, <1>2, <1>4, OpenStands DEF OpenView, vars
  <1>5. ASSUME view # None, NEW k \in 0..view.source_checkpoint, ScanBatch(k) PROVE FeedStands'
    BY <1>1, <1>3, <1>5, ScanStands DEF ScanBatch, vars
  <1>6. ASSUME NEW b \in batches, TakeBatch(b) PROVE FeedStands'
    <2>1. view # None
      BY <1>1, <1>6 DEF FeedIs, FeedOk
    <2> QED
      BY <1>1, <1>3, <1>6, <2>1, TakeStands DEF TakeBatch, vars
  <1>7. ASSUME NEW b \in batches, DropBatch(b) PROVE FeedStands'
    <2>1. batches' = batches \ {b} /\ UNCHANGED <<vars, accepted_at, view, pages, consumer>>
      BY <1>7 DEF DropBatch
    <2>2. outbox' = outbox /\ now' = now /\ scenario' = scenario
      BY <2>1 DEF vars
    <2>3. FeedIs(O)'
      BY <1>1, <2>1, <2>2 DEF FeedIs, FeedOk
    <2> QED
      BY <1>3, <2>2, <2>3
  <1>8. ASSUME NEW keep \in 0..(MaxRetained - 1), Retain(keep) PROVE FeedStands'
    BY <1>1, <1>3, <1>8, RetainStands DEF Retain, vars
  <1>9. ASSUME NEW cursor \in 0..1, ServeSnapshot(cursor) PROVE FeedStands'
    <2>1. view # None /\ Send(SnapshotPage(view, ViewId, cursor, now)) /\ cursor \in Nat
      BY <1>9 DEF ServeSnapshot
    <2>2. PageOk(O, outbox, accepted_at, now, SnapshotPage(view, ViewId, cursor, now))
      BY <1>1, <2>1, OriginStands, SnapshotServedOk
    <2>3. FeedIs(O)'
      BY <1>1, <2>1, <2>2, SendStands
    <2> QED
      BY <1>3, <2>1, <2>3 DEF Send, vars
  <1>10. ASSUME NEW limit \in 1..PageSize, ServeChanges(limit) PROVE FeedStands'
    <2> DEFINE p == PullChanges(view, consumer.binding, consumer.checkpoint, limit, now)
    <2>1. view # None /\ Send(p)
      BY <1>10 DEF ServeChanges
    <2>2. limit \in Nat
      BY FeedAssumption
    <2>3. PageOk(O, outbox, accepted_at, now, p)
      BY <1>1, <2>1, <2>2, OriginStands, ChangesServedOk
    <2> HIDE DEF p
    <2>4. FeedIs(O)'
      BY <1>1, <2>1, <2>3, SendStands
    <2> QED
      BY <1>3, <2>1, <2>4 DEF Send, vars
  <1>11. ASSUME NEW p \in pages, Lose(p) PROVE FeedStands'
    <2>1. pages' = pages \ {p} /\ UNCHANGED <<vars, accepted_at, view, batches, consumer>>
      BY <1>11 DEF Lose
    <2>2. outbox' = outbox /\ now' = now /\ scenario' = scenario
      BY <2>1 DEF vars
    <2>3. FeedIs(O)'
      BY <1>1, <2>1, <2>2 DEF FeedIs, FeedOk
    <2> QED
      BY <1>3, <2>2, <2>3
  <1>12. ASSUME NEW p \in pages, TakeSnapshotPage(p) PROVE FeedStands'
    BY <1>1, <1>3, <1>12, TakeSnapshotStands DEF TakeSnapshotPage, Receive, vars
  <1>13. ASSUME NEW p \in pages, TakeChangePage(p) PROVE FeedStands'
    BY <1>1, <1>3, <1>13, TakeChangeStands DEF TakeChangePage, Receive, vars
  <1> QED
    BY <1>4, <1>5, <1>6, <1>7, <1>8, <1>9, <1>10, <1>11, <1>12, <1>13 DEF FeedStep

\* The feed moves nothing of the store's.
LEMMA FeedMovesStore == [FeedNext]_allvars => [Next]_vars
PROOF
  <1>1. FeedStep => UNCHANGED vars
    BY DEF FeedStep, OpenView, ScanBatch, TakeBatch, DropBatch, Retain, ServeSnapshot, ServeChanges, Send,
           Lose, TakeSnapshotPage, TakeChangePage, Receive
  <1> QED
    BY <1>1 DEF FeedNext, StoreStep, allvars

LEMMA FeedStandsNext ==
  ASSUME Standing, OutboxStands, FeedStands, [FeedNext]_allvars
  PROVE  FeedStands'
PROOF
  <1>1. CASE UNCHANGED allvars
    BY <1>1 DEF allvars, vars, feed, FeedStands
  <1>2. CASE StoreStep
    BY <1>2, FeedStoreStep
  <1>3. CASE scenario.views > 0 /\ FeedStep
    BY <1>3, FeedStepStands
  <1> QED
    BY <1>1, <1>2, <1>3 DEF FeedNext

\* What is in order follows the store.
LEMMA StandingFeedFollows ==
  ASSUME FeedStands
  PROVE  FeedFollowsStore
PROOF
  <1>1. CASE view = None /\ consumer = None
    BY <1>1 DEF FeedFollowsStore, ViewFollowsStore, ConsumerFollowsStore
  <1>2. ASSUME NEW O, FeedIs(O) PROVE FeedFollowsStore
    <2>1. ViewFollowsStore
      <3>1. view # None => view.current = Told(outbox, view.source_checkpoint)
        BY <1>2, OriginStands DEF ViewOk, ViewHolds
      <3> QED
        BY <3>1, FeedReads DEF ViewFollowsStore
    <2>2. ConsumerFollowsStore
      <3> SUFFICES ASSUME consumer # None, consumer.mode = "live"
                   PROVE  \E n \in 0..Len(outbox) : /\ consumer.items = Projection(n)
                                                    /\ consumer.complete => CompleteUpTo(n)
        BY DEF ConsumerFollowsStore
      <3> DEFINE o == O[consumer.binding]
                 n == Place(o.base, consumer.checkpoint)
      <3>1. Living(o, outbox, accepted_at, now, consumer)
        BY <1>2 DEF FeedIs, FeedOk, ConsumerOk, Gathering
      <3>2. n \in 0..Len(outbox) /\ consumer.items = Told(outbox, n)
        BY <3>1 DEF Living
      <3>3. consumer.complete => /\ consumer.as_of = consumer.current_as_of
                                 /\ Watermark(outbox, accepted_at, now, n, consumer.as_of)
        BY <3>1 DEF Living
      <3>4. Len(outbox) \in Nat /\ accepted_at \in [1..Len(outbox) -> 0..now] /\ now \in Nat
        BY <1>2, OriginStands DEF Timed
      <3> HIDE DEF o, n
      <3>5. ASSUME consumer.complete PROVE CompleteUpTo(n)
        <4>1. \A k \in 1..Len(outbox) : Carried(k) =>
                 IF k <= n THEN accepted_at[k] <= consumer.as_of ELSE consumer.as_of <= accepted_at[k]
          BY <3>3, <3>5, FeedReads DEF Watermark
        <4>2. consumer.as_of \in Nat
          BY <3>3, <3>4, <3>5 DEF Watermark
        <4>3. \A k \in 1..n : Carried(k) => accepted_at[k] <= consumer.as_of
          BY <3>2, <3>4, <4>1
        <4>4. \A k \in (n + 1)..Len(outbox) : Carried(k) => accepted_at[k] >= consumer.as_of
          <5> SUFFICES ASSUME NEW k \in (n + 1)..Len(outbox), Carried(k) PROVE accepted_at[k] >= consumer.as_of
            OBVIOUS
          <5>1. k \in 1..Len(outbox) /\ ~(k <= n)
            BY <3>2, <3>4
          <5>2. accepted_at[k] \in Nat /\ consumer.as_of <= accepted_at[k]
            BY <3>4, <4>1, <5>1
          <5> QED
            BY <4>2, <5>2
        <4> QED
          BY <3>3, <3>5, <4>3, <4>4 DEF CompleteUpTo
      <3>6. consumer.items = Projection(n)
        BY <3>2, FeedReads
      <3> QED
        BY <3>2, <3>5, <3>6
    <2> QED
      BY <2>1, <2>2 DEF FeedFollowsStore
  <1> QED
    BY <1>1, <1>2 DEF FeedStands, FeedIs

\* A store that is followed is the store: the feed writes to none of its tables, so that
\* what is proved of the store holds wherever a view is open on it (the functions of changes.ts
\* are given events and return values).
THEOREM FeedKeepsStore == FeedSpec => Spec
PROOF
  <1>1. FeedInit => Init
    BY DEF FeedInit
  <1>2. [FeedNext]_allvars => [Next]_vars
    BY FeedMovesStore
  <1> QED
    BY <1>1, <1>2, PTL DEF FeedSpec, Spec

\* The feed follows the store at all times: the view holds what the outbox says up to where
\* it was scanned, and a live application the projection of a prefix of the history, which is
\* all of it before its watermark when it calls itself complete; however scans were
\* repeated, raced or dropped, and pages lost, repeated, late or out of order
\* (appendChangeBatch, retainChanges, pullChanges, consumeSnapshotPage, consumeChangePage).
THEOREM SafeFeed == FeedSpec => []FeedFollowsStore
PROOF
  <1> DEFINE Order == Standing /\ OutboxStands /\ FeedStands
  <1>1. FeedInit => Order
    BY StandingInit, OutboxInit, FeedStarts DEF FeedInit
  <1>2. Order /\ [FeedNext]_allvars => Order'
    <2> SUFFICES ASSUME Order, [FeedNext]_allvars PROVE Order'
      OBVIOUS
    <2>1. FeedStands' /\ [Next]_vars
      BY FeedStandsNext, FeedMovesStore
    <2>2. Standing' /\ OutboxStands'
      BY <2>1, StandingNext, OutboxNext
    <2> QED
      BY <2>1, <2>2
  <1>3. Order => FeedFollowsStore
    BY StandingFeedFollows
  <1> QED
    BY <1>1, <1>2, <1>3, PTL DEF FeedSpec
==============================================================================
