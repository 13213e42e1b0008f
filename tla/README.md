# A verification of the Direct Trade Protocol

TLA+ models of the protocol's reference implementation, the TLC runs that check
them on small instances, and TLAPS proofs of what matters most. The code is the
reference: every definition of a module translates the source lines that
`PROJECT.json` names for it under `map`. SPEC.md below is `spec/v0.4/SPEC.md`
unless a version is given.

## The system

The repository holds several generations of one idea: companies keep signed
records at hosts they choose, and people and installed modules act for them
under explicit authority.

| Part | Where | State it keeps | Operations and partners |
|---|---|---|---|
| Command kernel (v0.4) | `sdk/src/v04/engine.ts`, `model.ts`, `permissions.ts` | one JSON document for each host: persons, organizations, policies, profiles, releases, records, inventory, receipts | `execute`: one signed command, checked and applied; calls migration, snapshot, federation and the profiles |
| Cooperative migration | `sdk/src/v04/migration.ts` | tables `outgoing` (manifest, chunks, commit or cancel token) and `incoming` (chunks, ready token, snapshot, flags) | prepare, stage, upload, ready, commit, finalize, cancel, abort; a client carries tokens between two hosts |
| Snapshot | `sdk/src/v04/snapshot.ts` | none of its own | export of a company; validation by replay of its signed history; import |
| Federation | `sdk/src/v04/federation.ts` | cache of remote authority tokens | issue, accept, relocate one verified hop |
| Router | `sdk/src/v04/router.ts` | the database row | one transaction and one advisory lock for each command; capacity with headroom for ready migrations |
| Record profiles | `sdk/src/profiles/` | ledgers and books inside the kernel's document | reducers for stock and money; field rules of documents |
| Foundation identity | `sdk/src/foundation/identity*.ts`, `person-authentication.ts` | control logs, a resolver's table, a relying party's pin and refusals | enroll, change keys, rehome, transfer, adopt, refuse, resolve, judge a log |
| Foundation operations | `sdk/src/foundation/authority.ts`, `organization.ts`, `persistence.ts` | grants with usage, resource heads, records, receipts, the outbox, governance log, challenges | issue and revoke grants, approve, execute one operation atomically, change controllers |
| Foundation commitments | `sdk/src/foundation/commitments.ts` | a provider's pool of quotes, holds and receipts; a coordinator's legs and pending request | quote, hold, confirm, cancel, release, fulfill, dispute; a saga over several providers |
| Foundation change feed | `sdk/src/foundation/changes.ts` | a view of the outbox, a consumer's copy and cursor | snapshot pages, change pages, resynchronization |
| v0.2 store | `supabase/functions/dtp-store/`, `sdk/src/schemas.ts` | Postgres tables of records, keys, grants, events | signed append-only records in chains, cross-company grants, event feed |
| Settlement contract | `contracts/src/` | NEAR contract state | catalogs, lots, offers, contracts, attestations, disputes, settlement, discovery; frozen |
| v0.3 kernel, onboarding | `sdk/src/v03/`, `sdk/src/onboarding/`, `supabase/functions/pbp-store/` | the earlier preview's document, one-time enrolments | earlier command set, host bootstrap |
| Adapters and demos | `mcp-server/`, `remote-mcp-server/`, `marketplace/`, `modules/` | none of the protocol's | translate tool calls, demonstrate |

Where one host acts, a lock or a database transaction orders everything. What
makes the system hard is what lies between two such steps: tokens, approvals,
leases and pages that are checked at one moment and used at a later one, by
another host, after other steps, with another clock; histories that another host
must be able to replay; answers that are lost after their effect was stored. For
each part, what makes it correct:

- migration: one custody of a company, no lost write, no stranded commit, a way
  forward after every lost answer;
- import: what was validated at ready is still accepted at finalize; keys stay
  bound to one identity;
- kernel and governance: authority is delegated only downwards and ends with its
  revocation; histories replay;
- profiles: reservations never exceed stock, each observation counts once;
- identity: no two usable leases contradict each other, a retired key never
  acts again, a party follows only moves that were taken up;
- foundation operations: budgets are spent once along the whole chain, approvals
  carry the plan they were given for, an operation's effects appear together;
- commitments: no pool is overbooked, and an order ends with what is true;
- feeds: a reader misses nothing and applies nothing twice;
- v0.2 store: the tables that authorize follow the chains, whoever moves a record
  is entitled to, agreed terms stay as agreed;
- contract: goods are conserved and traceable, money is released by right.

## Modules

| Module | Models | Uses |
|---|---|---|
| `CompanyCustody` | the abstract promise of a migration: one keeper, content that only grows, no return to a host that let go | |
| `HostMigration` | `migration.ts`, migration cases of `engine.ts`, `applySnapshot`'s effect on the company | refines `CompanyCustody` |
| `DestinationImport` | the host-dependent half of `validateSnapshot`, `applySnapshot`, and the commands that consult reservations | |
| `CompanyAuthority` | the administration cases of `engine.ts`, `permissions.ts`, and their replay in `validateSnapshot` | |
| `HostProofs` | theorems about the three modules of a host | `HostMigration`, `DestinationImport`, `CompanyAuthority` |
| `InventoryLedger` | `inventory2.ts`, `inventory.open` and the inventory facts of `record.append` | |
| `InventoryLedgerProofs` | theorems about `InventoryLedger` | `InventoryLedger`, `SumTheorems` |
| `IdentityLog` | control logs: transitions, rehomes, precedence of two logs (`identity.ts`, `identity-log.ts`) as operators | |
| `IdentityRehoming` | resolvers, their leases and moves, a relying party | `IdentityLog` |
| `IdentityRehomingProofs` | theorems about `IdentityRehoming` | `IdentityRehoming`, `SumTheorems` |
| `CommitmentSaga` | providers' pools and coordinators, with the network between them | |
| `CommitmentSagaProofs` | theorems about `CommitmentSaga` | `CommitmentSaga`, `SumTheorems` |
| `FoundationAuthority` | grants, approvals, limits and governance as operators (`authority.ts`, `organization.ts`) | |
| `FoundationStore` | the transactional store with challenges, approvals and operations (`persistence.ts`, `person-authentication.ts`) | `FoundationAuthority` |
| `FoundationStoreProofs` | theorems about `FoundationStore` and `FoundationFeed` | `FoundationFeed`, `SumTheorems` |
| `ChangeFeed` | views, pages and consumers as operators (`changes.ts`) | |
| `FoundationFeed` | the store, a view over its outbox, and one application that follows it | `FoundationStore`, `ChangeFeed` |
| `RecordSchemas` | the `x-dtp` keywords of every v0.2 record type: roles, status machine, locks | |
| `RecordBodies` | the bodies of the v0.2 record types: which members each needs and may have | |
| `ProtocolStore` | the v0.2 store: registration, keys, chains, grants, visibility, retries, feed | `RecordSchemas`, `RecordBodies` |
| `ProtocolStoreProofs` | theorems about `ProtocolStore` | `ProtocolStore`, `SumTheorems` |
| `TradeContract` | the NEAR contract from registration to settlement | |
| `TradeMatching` | match discovery of the contract, as operators over one market | |
| `TradeContractProofs` | theorems about `TradeContract` and `TradeMatching` | `TradeContract`, `TradeMatching`, `SumTheorems` |
| `SumTheorems` | facts about sums over finite sets, for the proofs that count | TLAPS |
| `MC...` | model values, symmetry and starting states for TLC | the module of that name |

A definition named for a fault (`...Fault`, `FreezeNothing`) is used by no
action. It is a mistake the code could have made; the mutants of `PROJECT.json`
put it in the place of the definition after it, to show that the property listed
there would notice.

### HostMigration

`org[h]` is the company's row at host `h`: absent, active or migrated, its
generation and the writes it has accepted. The `outgoing` and `incoming` tables
of all hosts are sets of manifests, told apart by source and destination;
`commits`, `cancels`, `readied`, `activated`, `aborted` and `chunks` are the
columns of their rows. A snapshot hash is the pair of generation and accepted
writes. Each command is one action, since the router runs it in one transaction
under one lock. Hosts never call each other: the client's network is that an
action may take any token ever signed, at any time and any number of times.
Repeated commands that only return a stored answer are stutters. Company and
steward quorums are not modelled: any host may run any command at any moment,
which allows more than the code.

Each host has its own clock. `ReadyLive`, `ClockReached`, `CommitEvidence` and
`CancelEvidence` are the four ways the code compares a token with a clock, and
the only ones: what expires, what needs the source's clock to have caught up,
and what stays evidence for ever.

`ready` and `finalize` both validate the snapshot against the rows of the
destination. What of it can differ between the two is abstracted to `own`: a host
may take a row of its own (`TakeRow`: `profile.admit`, which consults no
reservation, or another company's import) that contradicts what some write of the
company brings, and from then on it refuses every snapshot with that write (`Fits`).
Such a row is never removed in the model, so a move that was committed may be
refused for good, as in the code. `spoiled` is a history variable: the manifests
whose destination took such a row after its ready token.

### DestinationImport

One destination host. `people`, `install`, `admitted` and `ids` are the parts
of its document an arriving snapshot can collide with, `stage` and `snapshot`
its ready migrations. A snapshot is any that another host can have exported:
each key bound to one identity, persons with their own key history. `Valid` is
the part of `validateSnapshot` that reads the host; the rest is a function of
the snapshot and answers the same twice. Policies, records, installation IDs,
modules and published profiles and releases are all claimed and reserved alike, so
they are one set of IDs; a row of the two last (`Published`) may be there already,
since it is what its publisher signed and two companies may bring the same. `DestinationAssumption` allows two arriving companies:
`reservedView` takes the first of several reserved versions of a person, and with
two companies there is only one. `PersonOwner` keeps the code's way of building
`hostOwners`, in which a later entry for a key replaces an earlier one.

### CompanyAuthority

Controllers, `members`, `invitations`, `policies` and `revoked_at` are the
fields of the organization row and its policies. A policy keeps its current
revision: stewards, threshold, the expiry of each grant, and the time at which
its command was signed. Two clocks matter. The host decides by `now`; a command
carries `issued_at`, which its signer chose and which may lie `ClockSkew` ahead of
the host or less than `Window` behind. Revocations and grants are ordered by
`issued_at` (`GrantCurrent`, `NotBeforeGrants`), everything else by `now`. The
replay at import has nothing but `issued_at`: `ReplaysInvite`, `ReplaysAccept`,
`ReplaysRevoke` and `ReplaysPolicy` are the conditions of `validateSnapshot`
that the kernel judged by the other clock.

Three history variables, which no guard reads, carry the properties:
`delegated` is the latest expiry any controller gave a permission, `ended` the
grants that a revocation ended and no steward renewed, `portable` whether every
command so far would pass the replay. Persons are registered, and whoever must
sign a command has signed it: a command needs its actor's authority, and the
other signatures only narrow who can run it. Installations as actors, receipts
and the rotation of keys are left out.

### InventoryLedger

`stock` holds the positions, their serials and the reservations; an empty
position is the same as an absent one, as `compact` makes it. Quantities are base
units after the conversion of packs, and the four virtual locations are one
`Outside`: the code checks their presence, not which they are, except for the
fields they require. Positions and reservations are finite sets of any size; a
fact has any number of parts up to `MaxParts`. `Applied` folds the parts of a fact in the reducer's order,
settlements, legs, claims, and is `Refused` as soon as one part is. The
`record.append` of a fact is `AppendFact`: the host's index first, then the
reducer's window, then the expected revision. A fact whose observation is known
is answered as a duplicate or as a conflict; both leave everything as it was, so
content digests are not kept. A writer reads the ledger (`inventory.ledger`) and sends what it then
decides with the revision it read, once or again; `drafts` is what each last read.
Three history variables, which no guard reads, carry properties: `balance`, what the
recorded facts brought in less what they took out; `outdated`, the writers since whose
reading a fact was recorded; `informed`, whether no fact came from one of those.
Access to the ledger's policy is in `CompanyAuthority`.

### IdentityLog and IdentityRehoming

A log is the sequence of control heads of one identity: operational and recovery
quorum, time, resolver, epoch. A quorum is a model value, `KeysOf` gives its keys,
and two quorums may share keys and differ in their threshold. A signature needs no
state: whoever holds a quorum may sign, and that includes the thief of any quorum
the identity ever had. As in `transitionIdentity`, what is retired are the keys that
left a head; a quorum whose keys all stayed may come back. A prefix of a log stands
for the digest of its last head. `RefusedMove`, `Conflict`, `Adopted` and `Supersedes`
are the parts of `judgeVerified`, in its order: which moves were refused, which forks
cannot be ranked, which moves nobody took up, and which of two histories wins.

`IdentityRehoming` adds the resolvers. `held[h]` is a row of the registry: the
log, its status and the time up to which leases for it may be used. Each registry
command is one transaction and one action. `party` is a relying party that pins
the identity; whether it keeps the newest log it saw or only its checkpoint is
chosen at the start. The code leaves `frozen` always false, so it has no
variable. One clock stands for all resolvers, and `Margin` for what real clocks
differ by. Left out are moves of an identity to the resolver it is at, enrolments of
the same genesis at a resolver other than `Home`, and pins configured at a head of a
later epoch: a party starts in epoch 0 and follows the moves from there. A presented
log carries all attestations that exist, as in the code's tests: a party that is
shown fewer accepts less. What the model shows of the code and a reader may not
expect: adoption evidence is asked only for moves past the pinned epoch; a
cooperative transfer accepts a log whose earlier rehome nobody adopted; `adopt`
reads its clock before its transaction, so `read` is any instant up to now when it
commits. `Compared` is what a party may conclude from a
destination's refusal and a log: that they are unrelated, that they agree, or that
the destination equivocated.

### CommitmentSaga

`quotes`, `holds` and `receipts` are a provider's pool, `phase`, `legs`,
`pending`, `uncertain` and `responses` a coordinator's record. `requests` and
`answers` are the network: either may be lost, delivered twice or late, and a
coordinator that restarts goes on from `pending`, which it stored before it sent.
The compare-and-swap of a pool is one step: losing it is the same as no answer.
A refusal for lack of capacity leaves no receipt, so a late copy of the same hold
may be granted after the coordinator gave up; it lapses at its expiry. Refusals
of confirm, cancel and release are permanent. All clocks are one clock.

### FoundationAuthority, FoundationStore

One organization. Every command runs in a transaction that holds its authority
row and is one action; what interleaves is what people sign, since a challenge,
an approval and a governance consent are given in one step and used in a later
one. An execution reads its clock on entry and again at commit, and any time may
pass in between. An operation's plan is a function of its intent and of the
resource heads it read. Limits are one metric, usage is the intent's cost,
resources never change their profile, and a governance consent stands as long as
its transition. The hooks of the store are external and are used as
`person-authentication.ts` offers them. `outbox` is the sequence of events, its
places the event numbers. Two histories of governance may both be collected from
one head; only one is ever applied.

### ChangeFeed, FoundationFeed

`ChangeFeed` is `changes.ts`: pure functions of a view, a batch, a page and a
consumer; what the code refuses by throwing is `None`. What surrounds them is the
host's (`docs/foundation/changes.md` says what it must do) and is external in the
map: a view is opened on a snapshot and a source position read together; a batch
is scanned from one view to the end of the outbox and may be committed to a later
view, twice or never; events may be forgotten after a retention; a new view (a
changed policy or authority) may replace the old one at any time. Pages travel to
the application one by one and may be lost, repeated, late or out of order. There
are no tombstones. Whether a reader gets through depends on how long the host
retains events, which the code leaves open, so no liveness is claimed.

### RecordSchemas, RecordBodies, ProtocolStore

`RecordSchemas` and `RecordBodies` are `schemas.ts`: one definition per record
type, the first for its keywords and its registry entry, the second for its members,
with the shapes of the envelope and of the event. A member that `common/ids` gives a
grammar has the grammar's name; other values are not told apart.
`SchemasAssumption`, which TLC evaluates, is what the store takes for granted of
them: roles and subjects are companies a body names, only third parties may be
absent, a type with a machine has a status, and an event says what the envelope says.

A body is kept as its status, its roles, the parts the integrity rules read
(`Apart` names the members these are), and one further member, followed through the
versions: absent, or one of two values. `Conforms` says when it must be there. A run
starts from a seed that names the member, so every member of every type has its
turn. Required but nullable members may be absent. The grammars of values, own
members (`x_...`) and members below three names are left out.

`ProtocolStore` is the store. A write holds one advisory lock from the check of
the caller's key to the commit and is one action: `WriteRecord` with its
authorization, schema, transition and integrity checks, the hooks that keep
`keys` and `grants` in step, and its event. `Answer` is what a write gets back;
an exact retry is a stutter. `consumer` is a poller of the feed. A module sees
events from before its grant only by reading back. `ReadPrefilter` is the clause of
the queries, `CanRead` the rule; `Page` and `RecordPage` apply one under the limit and
then the other, as the code does, for each of the four visibilities. A write may name
any version as the one it replaces, and a module's first record any counterparties,
registered or not, as `createModule` asks nobody. A page holds one row at least (`PageAssumption`:
`events.ts` and `records.ts` clamp the limit to 1..500).

A behaviour starts from any store of registered identities. `SeedsAssumption` says
what that is: one record for each, signed by a company's key, and no key acting that
the record does not list. `NoneAssumption` says that absence is no value.

### TradeContract, TradeMatching

One call of the contract is one action; a call that panics changes nothing.
Tables are sequences, an entry's place its identifier. `ExecuteSettlement` is
shared by its four callers as in the code. Money amounts are small numbers; a
volume of 1 stands for 50,000 USD, so that the tier changes within a run. Whoever
accepts an offer names any account as arbitrator, or none; what may be named is a bound
of the seed. Offers and inputs may be of nothing, new lots may not. An
agent's listing has the agent as seller; an intent never has a catalog entry (no
call sets it). Starting states are any in which nothing is contracted yet
(`SeedsAssumption`). `MaxInputs` bounds the inputs of one transformation, for TLC
only; the fields of each table's entries are the record sets at the top. Left out: finance pools and `confirm_financing`, certification and
identity attributes of parties, the audit log, paginated views, tier comparisons
and the formula of the reputation score.

`TradeMatching` chooses one market and changes nothing: eligibility, the four
scores with their integer divisions and caps, and the sort. `MarketAssumption` says
that its numbers are unsigned, as the code's types are. Certifications are lists, as
they were posted, and a list that names one twice counts it twice. The contract is
built with overflow checks, so a price or a window too large for its product ends the
whole search (`Overflows`, `Panic`). A search for an
intent does not look at that intent's own status, as in the code.

## Runs

| Run | Question | Bounds |
|---|---|---|
| `Migration` | custody, completion of what was committed or cancelled, refinement of `CompanyCustody`, liveness | 3 hosts, the first one fixed, 2 IDs, 1 write, 1 chunk, generation 2, clocks and expiries to 2, drift 1, lifetime 2, skew 1, one host that takes rows of its own, no symmetry |
| `Arrival` | two companies arrive together: identities, contracts and IDs, with aborts and returns | 2 persons, 2 keys, 1 contract with 2 admissions, 1 ID and 1 published profile |
| `Authority` | delegation, reinvitation and the end of grants, whatever the order of signing and arrival | 2 persons, skew 1, window 2, term 2, clock to 2; either 2 invitations with both permissions and no policy, or 1 invitation of everything and 1 policy |
| `StockLedger` | stock, claims, serials, observations and competing writers | 2 writers, 2 positions, 2 reservations, 2 serials, facts of up to 2 parts of up to 2 units, 3 observations, window 2 |
| `Identity` | leases, forks, moves and a relying party | 2 resolvers, 4 quorums of 4 keys, 2 of them of the same keys, lease 1, margin 1, window 1, clock to 2, 3 heads, 1 statement at a time |
| `Commitment` | two orders over two providers while messages are lost, repeated and late | 2 legs each, 5 quotes (one a revision), pools of 2 and 1, clock to 1; 1 report of the goods, or 3 while the other order has not begun |
| `Foundation` | budgets, approvals, governance, effects and the feed | 2 people, 2 grants, 1 resource, 1 record, 2 operations, 3 challenges, clock to 3, 3 heads, 2 approvals; views of 2, pages of 1, 1 batch and 2 pages in flight; six instances |
| `ProtocolStore` | chains, roles, locks, grants, retries, feed | 519 starting stores: 1 registration, 1 with grants and a module (records for the parties, for those granted, and private), 1 feed, 1 per record type, 1 per member of every body; 2 to 4 new records each |
| `TradeContract` | goods, traces, money, contracts; discovery | six seeds, of which one has two sales of one lot, one a dispute, one an agreement; markets of one intent and two listings, in which price, window, certifications, or seller, catalog and ceiling vary |
| `ImportKeyAliased`, `AuthorityReplaySkew`, `IdentityRefusal` | where the code departs from its documents; each is expected to fail | as above; three resolvers and four heads for the last |

What each shows, and why the bounds are enough:

`Migration`. Two IDs let a losing preparation compete with the committed one, and
the third host lets the two have different destinations, of which one takes rows of
its own and the other does not. With a lifetime of 2 and a skew and a drift of 1 a
readiness can be live although its destination's clock is ahead of the source's
(only `ClockReached` makes the commit wait: without it `CommittedMoveCanFinish`
fails), and it can expire. A manifest expires within the horizon, so it is prepared
while the source's clock reads 0. A second move, from generation 2, would need a
larger bound; what it could meet at its hosts is what the first one meets, and the
proofs cover it. It checks `SingleCustody`,
`CommittedMoveCanFinish`, `CancelExcludesCommit`, the refinement
(`ImplementsCustody`) and `MovesEnd`: what was committed is completed, unless its
destination took a rival row after its readiness, and what was cancelled gives back
its place.

`Arrival`. Two persons and two keys let a key be current for one identity and
historical for the other, which is what the collision rules are about; two
companies let one stage reserve what the other carries. `ReadySurvives` says exactly
what can spoil a ready stage: of the host's own commands only `profile.admit` of a
contract that the snapshot brings with another admission, and, beyond commands, the
steps of a second stage, since those of a company arriving alone make no collision of
identities. Both exceptions are real (see below, and `ImportKeyAliased`): the code does
not promise that a ready stage can always be finalized. `ReadyIdsHold` says that
claimed IDs stay free.

`Authority`. A revocation concerns one person and the steward who granted; two
persons and two invitations give a controller, a delegate and competing offers. As
it is the order of signing that matters, a window of 2 lets commands arrive in any
order about one revocation. Invitations never read a policy, and a policy reads
only memberships, which one invitation is enough to make; so a behaviour has either
delegation or policies as its subject. The VIEW leaves out the history variable
this run does not check. Longer chains, and both subjects together, are what the
theorems cover.

`StockLedger`. A fact of two parts can settle and ship, receive and claim, claim
twice, or succeed in one part and fail in the other; two positions let a claim be
made at one and settled at the other; three observations with a window of two let
one be forgotten and be repeated. `MaxSequence` also bounds how many facts a
ledger sees. Two writers let both decide on one ledger (`DecidedOnCurrent`). `StockAccounted` holds the books against the facts and places every
serial once.

`Identity`. Three heads are an enrolment and two changes, of which either may be a
move; a third quorum lets a replaced one fork, and a fourth, of the keys of the second,
lets a threshold change and change back. In one behaviour the identity gets either
other keys, with leases out, or another threshold (`MCNext`); the theorems cover both
together. A lease of 1 with a margin of 1 makes every change wait. `HistoriesReplay`: whatever a resolver stores, a
verifier without its leases accepts. `LeasesAgree`: a key change waits for every
lease for the old keys, also those of another resolver. `BindingAdopted` and
`PinsHold`: where a party's pin may go, which fork it may take and that no retired key
acts in it. A third resolver matters only to
`IdentityRefusal`, where a log leaves the one that refused and comes back.

`Commitment`. The orders want the same goods and the same transport in
overlapping windows, in opposite positions, one leg of one cannot be cancelled,
and a quote is revised. A lost answer therefore may be to a hold, a confirm or a
compensation. `NoOvercommit`, `OutcomeTrue` (a finished order says of each leg
what is so at the provider), `DeliveredOnce`, and `Finishes`. While the orders
compete, the goods are reported on once. How partial, damaged, disputed and final
reports add up is looked at for one order, with three reports and the other order
not begun (`MCNext`); it stays so in those states, so `Finishes` says nothing there.

`Foundation`. One instance for each hazard: succession of controllers back and
forth, a delegated budget in which two operations do not both fit, approvals for a
resource two operations change, one operation id signed for two intents and a
record that two append, and two feeds. `CoveredAtCommit` says that approvals and
grants still stood at the instant of commit; `FeedFollowsStore` follows a change
from the outbox through view and pages to the application, and says what its
claim to be complete means. A view's expiry is not reached.

`ProtocolStore`. Status machines take two or three moves from one end to the
other, so a chain of four versions has a handover of a role and its use.
`AccountableMoves`, `AgreedTermsKept` and `DeliveryEvidence` relate versions of
one chain to each other; `RowsMatchHeads` and `ModuleActsUnderGrant` the tables
that authorize to the records; `FeedComplete` and `RetryAcknowledged` are about
readers and senders that try again.

`TradeContract`. `PaidByRight` says when money leaves, that a ruling pays once, and that
nobody deducts twice; what it leaves to an unanswered window is said below. Two sales of one lot, listed by its owner and by the owner's
agent, are the least that can oversell; a lot named twice in one transformation
the least that can mint. The dispute window is one step, so its last instant and
the first one after it both occur. `BetterFoundFirst` says that nobody who offers
no less in any respect, and lists no fewer certifications, is ranked behind, through
every rounding and cap, in a search that answers. `MaxPrice` and `MaxTime` are small, so
that some of the ceilings overflow.

`CHECK_DEADLOCK FALSE` is set everywhere: a model stops when its clocks, IDs and
tables are used up, and a host with nothing to do is not an error.

### Fairness

`HostMigration` assumes that a client which saw no answer repeats `finalize` and
`abort` until they succeed (SPEC.md, section 8, step 7, asks for that, and the
receipt it needs stays available), and that clocks advance. A finalize that the
second validation refuses is not enabled, so fairness does not push it through:
`CommittedMoveCompletes` makes that exception, and `CommittedMoveCanFinish` says that
it arises only from a row taken after the readiness. It assumes nothing of
the source, of uploads, or of anybody deciding to commit or cancel.

`CommitmentSaga` assumes that an application goes on planning and sending (weak
fairness: `planCoordinator` always gives it the next request, and a pending one
stays pending), and that what is sent again and again arrives and is answered
(strong fairness, since a message in flight may be lost each time). It assumes
nothing of the clock or of providers beyond answering what reaches them.

Nothing else claims liveness.

### Where the code and its documents differ

Three runs are expected to fail; `findings` quotes both sides. A retired key that
another ready stage reserves hides the host person for whom it is current, and one
current key then belongs to two persons (`ImportKeyAliased`). A command signed by
a clock slightly ahead can be accepted by the kernel and refused, for good, by the
replay at import (`AuthorityReplaySkew`). A resolver that refused a rehome adopts
a longer log that contains it and then attests the head it refused
(`IdentityRefusal`).

Differences without a run of their own, because no single line of the repository
states what the code does not do, or because the model has the behaviour and the
properties are stated so that they hold with it:

- an automatic settlement leaves its fulfillment `SellerAttested` and can be
  triggered again, by anybody, any number of times (`contracts/src/lib.rs` line 931;
  lines 626 and 929 say when a settlement is due, not that it is due once), and a late
  buyer may still confirm after it. `docs/archive/SPEC_v0.1.md` says at line 650 that
  nothing settles before `COMPLETE` or a ruling, and at line 747 that an unanswered
  window settles; the code does the second and never completes the fulfillment;
- the same document asks at line 750 that all deductions be agreed by both parties or
  ordered by the arbitrator, and at line 749 that neither party alone withdraw the
  escrow; a confirming buyer names any deductions, up to everything
  (`buyer_attest_delivery`), and nothing asks the seller;
- match discovery rewards a price far below the ceiling (`matching.rs` line 119, and its
  comment at line 107); line 717 of that document asks for a price close to it. A
  certificate listed twice earns twice (lines 152 to 155), so that it can outrank a
  better listing; `post_listing` (`lib.rs` line 371) does not look for repetitions. And one
  huge ceiling or window ends every search that meets it (line 119 overflows);
- `dispose_lot` is documented as available only to a lot without active
  allocations (`lib.rs` line 1237), and accepts a partially allocated one;
- a standing agreement that is signed before the parties' first trade leaves no
  trace in their relationship;
- `profile.admit` consults no reservation, so a contract admitted at the
  destination between ready and finalize makes the finalize be refused for good
  (`engine.ts` line 178, `snapshot.ts` line 192; SPEC.md line 244 lists what readiness
  reserves), and the company, whose source is frozen, is then served nowhere;
- two ready stages may carry different histories of one person, and the second
  can then not be finalized; an admitted contract is compared with its admitting
  command, so two hosts that both admitted it cannot exchange a company that uses it;
- the party of a stock claim is compared neither when the claim is topped up nor
  when it is settled (`docs/decisions.md` line 80);
- a host that missed one relocation can never accept a later one: relocation
  verifies a single hop (`federation.ts`);
- v0.2: nobody who may write can resolve a disputed contract (the repository's
  top-level `SPEC.md`, line 213, calls it a known gap); a contract is cancelled by
  the revision of one party although line 306 there calls it mutual; line 324 lets
  one side activate a standing agreement.

## Proofs

`HostProofs` has three parts. About `HostMigration` it proves, for every set of hosts,
every lifetime, skew, drift and number of migrations, from `ConstantsAssumption` alone:

- `TypeCorrect`, `SafeCustody`, `SafeGenerations`, `SafeContent`, `SafeCancel`
  and `NoStrandedCommit`, the invariants. `TypeOK`, `GenerationsDiffer` and
  `NothingLeftBehind` are proved only: the refinement checks what they are for;
- `FrozenCopies`: no step reactivates or changes a frozen copy;
- `Refinement`: `Spec` implements `CompanyCustody`.

`SingleCustody` is not inductive. Its inductive form `Inv` adds what ties the
hosts together: `CommitsFreeze` (whatever was committed left a frozen copy of
its own generation at its source), `StagesReserve` (two open stages of a host
never compete) and `NewestServes` (the custodian has the highest generation).
A commit then cannot race another: its source is active, so nothing is pending,
and freezing it makes this commit the only pending one. Finalize consumes it,
and because the generation it brings is higher than every other, copies stay
distinct. `CancelExcludesCommit` supplies that a pending stage cannot have been
aborted, which is what keeps `CommittedMoveCanFinish`; `ReadyFits` adds that readiness
was given to a snapshot that fits, so that any row against it came later.

About `CompanyAuthority` it proves, for every set of persons, permissions,
invitations and policies and every skew, window and term, from
`AuthorityAssumption` alone:

- `AuthorityTypeCorrect`, which includes that a company always has a controller;
- `SafeRevocation`. The invariant behind it, `EndedBefore`, says that an ended
  grant sits in a policy revision signed no later than the person's revocation:
  the kernel refuses a revocation signed before a revision that grants, and a new
  revision renews the grants it contains;
- `SafeDelegation`, from `GivenByControllers`, which says the same of open
  invitations as of memberships: a delegate hands on within a membership that
  some controller gave, and expiry and permissions only shrink along a chain;
- `SafeReinvitation`, from `OneUnconsumed`.

About `DestinationImport` it proves, for every set of persons, keys, contracts and IDs
and up to two arriving companies, from `DestinationAssumption`:

- `ImportTypeCorrect`: a ready stage keeps the snapshot that was validated;
- `SafeIds`. The argument is `RowsRespect`: a step that moves no stage leaves alone
  the rows of reserved persons, who holds reserved keys, and reserved IDs, since
  each command consults the reservation it could run into;
- `SafeReady`. For its first half `ValidKept` follows each part of the validation through
  such a step; only the admissions can differ after it (`RivalAdmission`). For its second half `Disjoint` is needed: until a first import the
  host's own commands give every key one person for good, retired keys included.
  It says nothing of two companies that arrive together; `ImportKeyAliased` shows why.

`InventoryLedgerProofs` proves, for every window, every size of facts, and all finite
sets of positions and reservations, from `LedgerAssumption`:

- `TypeCorrect`, `CountedOnce` and `NoLostUpdate` (an outdated writer holds an older
  revision: `Readings`). `Memory`, the inductive
  form of `Remembered`, says what the code's comment about the window leaves
  implicit: an observation of the index is either remembered or below the window's
  edge, and the edge only moves up;
- `SafeClaims` and `SafeStock`. `NeverOversold` is inductive only together with the
  types and the serials (`StockInv`), and a fact is a fold over its parts. So the
  proof first says what one part does (`Sound` is kept, the total changes by what
  the part brings), then compares the fold with a function of the number of turns
  (`Progress`) and goes through the turns: after each, either a part was refused or
  the stock is sound and accounts for the parts so far (`Reached`).

`IdentityRehomingProofs` proves every property of the `Identity` run, for every set of
resolvers and quorums with any keys, every lease, margin and window, and histories of any length,
from `ClockAssumption` and `HostAssumption`:

- `TypeCorrect` and `HistoriesGrow`: no step shortens or rewrites what a resolver
  stores;
- `SafeHistories`. Resolvers never see one another's rows, and thieves of old key sets
  start other histories. What ties these together is where an entry comes from:
  whoever changed the keys was in charge and stores the history up to the change
  (`ChangesStored`), and so does the destination of a move that somebody attested
  (`Known`). As rows only grow (`Grows`), this stays so, whatever the others do;
- `SafeBinding`: an admissible log has an attestation for each of its moves past the
  pin, so its last resolver stores it up to its last move, and up to any change after
  that (`AdmitKnown`); the moves before are older rows of the same kind;
- `SafePins`. Inside one history a key that left does not come back (`NoReturn`), so
  whatever a pin and its successor share keeps its retired keys out of both
  (`SharedRetired`). A fork is followed only under the recovery quorum that the pin
  has last (`ForkKeeps`); a quorum that was replaced and has come back, with all its
  keys, is in force again. A party that holds its pin only takes extensions;
- `SafeLeases`, by the first key change after the leased head. If it follows that head
  directly, the issuer made it, whose row covers the leases it may have issued
  (`Entitled`, `Covered`). If the identity moved in between, the destination acts as if
  a lease were out since the move (`ChangesWait`), and the lease is no younger.

`FoundationStoreProofs` proves, for every set of people, grants, resources and
operations and every scenario, from `AuthorityAssumption`, `StoreAssumption`,
`ScenarioAssumption` and `NamesAssumption` (an entity is named with its kind, and no
operation is called as an import or a change of the authority is):

- `TypeCorrect` and `DelegationStands`: every grant behind a grant was issued and lies
  strictly deeper. `ChainClosed` and `ChainLeast` conclude that the five steps with
  which the code walks a chain reach its root;
- `SafeRevocation`: a charge to a revoked grant, or to one below it, would need a
  chain that avoids it;
- `SafeBudgets`: a receipt, once accepted, adds its cost to the sum of every grant
  behind it, and to no other. The chains of other receipts do not change, since a
  grant keeps what it was issued as (`Keeps`);
- `SafeCoverage` and `SafeGovernance`: who approved or consented is a set that never
  loses a member, counted against the threshold when the step is taken;
- `SafeOutbox`: the outbox tells the whole story (`OutboxExplains`). `Explained` says
  it of any sequence of events and any tables: the last event about a resource names
  its head (`Tells`), the events of an operation are its effects, side by side
  (`Together`), and the events about a record or a grant are as many as happened to
  it. Lemmas say what appending does to each (`AtNone`, `AtOne`, `TogetherKept`,
  `TogetherNew`), then each step is a case of one: an execution appends one event for
  each resource it updates and each record it creates (`EffectsFacts`, which is why
  an intent lists finitely many of both), the first events of these records, since a
  refused intent is the one that names an existing record;
- `FeedKeepsStore`: a store with a feed is the store, so what is above also holds of
  `FeedSpec`, which the run checks;
- `SafeFeed`, from `FeedAssumption` too, for every size of a page, every retention and
  every life of a view. Its invariant `FeedOk` remembers of every view ever opened where
  it was opened and on what snapshot, and describes against the outbox what travels: a
  batch is all changes between two places in order (`BatchOk`); a view is what the
  outbox tells up to its position, and what it delivers are changes that name the one
  before (`ViewHolds`, `Deliveries`); a page is a part of that or of the snapshot
  (`PageOk`); an application has the projection at its checkpoint, or as many pages of
  the snapshot as it took (`ConsumerOk`). A repeated change finds another predecessor
  than its own (`NotAgain`), since every change makes a new revision (`History`), so
  only the next one applies. `Watermark` separates what was accepted before a time from
  what was accepted after it, and later entries leave it true (`FeedKept`).

`CommitmentSagaProofs` proves, for every set of pools, legs, quotes and coordinations,
every capacity and every time, from `BookingAssumption`:

- `TypeCorrect` and `SafeCapacity`, by a sum over the holds that reserve at a time:
  a step lets holds lapse, or changes one, and only a hold that fits is added;
- `SafeDeliveries`: `Numbered` says that reports are numbered without gaps, so that
  a repeated report is not a new one, and `Says` that a hold is their sum;
- `SafeOutcome`. A coordination knows its legs from answers only, which may be lost
  and repeated. Its invariant, `Knowledge`, connects both ends: `Ledger` says that the
  receipts of a provider and its hold tell the same story, `Told` that every answer
  ever sent is still true (an acceptance for good; a refused confirmation or
  cancellation can never be accepted later: `ConfirmDead`, `CancelDead`), `OnlyAsked`
  that a provider has accepted nothing that was not asked for and either answered or
  is waited for, and `Story` what each status of a leg says was answered. The refusal
  of a hold is the one that is not for good; this is why a coordination releases what
  it gave up, and what `Story` of a rejected leg leaves open.

`ProtocolStoreProofs` proves every property of the `ProtocolStore` run, for every set
of companies, modules and keys, any store of registered identities to start from, any
bounds and any size of a page, from `SchemasAssumption`, `NoneAssumption`,
`SeedsAssumption` and `PageAssumption`:

- `TypeCorrect`. It contains the shape of the chains: a version and the one it
  supersedes have the same root, type and parties (`Table`), a chain has one newest
  version (`OneHead`), an identity with a record has a row (`Tables`);
- `SafeRows`. `KeysMatchHeads` is inductive with `Tables`: a record of an identity
  synchronizes its keys with its list and touches no key of another; `GrantRows` says
  that a chain of grants has one row, which says what the newest version says;
- `GrantedWrites`, from `GrantRows`;
- `SafeMoves`. The first version fixes who plays a role, and only a third party's role
  can be filled later (`RolesKept`), so that whoever issues a move is who the chain
  has named (`Accounted`);
- `SafeTerms`. The newest version is the last of its chain, and each version agrees
  with all before it (`NewestLast`, `VersionsAgree`). The proof computes from the
  schemas which members are locked in which status (`AgreementStatuses`,
  `AgreementMembers`); it would fail if a member of an agreement were added to
  `RecordBodies` and not to the terms in `RecordSchemas`;
- `SafeDelivery`: evidence once written stays, and a step adds only what
  `checkIntegrity` has compared with the chain;
- `SafeFeed`. `FilterExact` holds in every state, by the two definitions and the
  active grants alone. Then `InOrder` (each event announces the record at its place)
  and `Caught` (the consumer has processed what it may read up to its cursor) are
  inductive, with what `Least` picks from a finite set (`LeastSome`, `LeastDown`);
- `SafeRetry`: the key that signed a record acts for whom the record says and may
  issue it (`Signatures`), and no later step makes the key another's.

`TradeContractProofs` proves, for every set of accounts, every dispute window, any
size of a transformation and any starting state in which nothing is contracted, from
`ContractAssumption` and `SeedsAssumption`:

- `TypeCorrect`, with `References`: what an entry refers to is there;
- `RecordsKept`: what others are judged by stays as it was written (`Kept`). Like
  everything below it rests on `StepShape`: a step is `Calm`, that is, it changes
  none of the contracts, payments and events and nothing that matters of the rest, or
  it is one of nine calls, for each of which a lemma says what it does to every table;
- `SafeTargets`: an acceptance finds its target open, so no contract was made for it,
  and closes it;
- `SafePayments`. `Payments` adds to `DisputePaysOnce` that a contract is attested at
  most once and how the attestation's state and the contract's go together
  (`Attested`), and says by what each payment was due (`Right`). An automatic
  settlement leaves its attestation as it was, so the payment is justified by the
  time that has passed, which only grows; a dispute opened inside the window finds
  nothing paid, because nothing pays before the window is over or the buyer confirms.
  Whoever deducts leaves the attestation answered (`Decided`), and then nothing more is paid;
- `SafeTrace`: an event is entered in the index where it is recorded, of its lot, of
  the lot it makes and of that lot's inputs, and neither changes later;
- `SafeGoods`, by sums over contracts and over lots. A transformation debits its
  inputs one by one and a lot may be named twice; `DebitResult` says of the recursive
  function that it takes from each lot what the inputs together draw from it;
- `FairRanking` about `TradeMatching`, from `MarketAssumption` (numbers are unsigned,
  tables finite), for the searches that answer. Rounding down and capping keep an order (`Rounded`, `Capped`), so each
  score does and their sum (`ScoreUp`). A ranking exists because each entry can stand
  behind exactly those ahead of it, and every ranking holds all that was found
  (`RankedIs`).

`SumTheorems` holds what these proofs count with: `SumFunctionOnSet` exists, does not
depend on the order in which it takes its elements, and changes with one value of the
function or one element of the set as it should. The induction theorems of the library
take a predicate as parameter, which the installed provers cannot instantiate. An
induction is therefore done here by looking at a least counterexample (`LeastNumber`,
`MinimalSubset`), which is one instance of a well-founded order and needs no
predicate. The folds in `InventoryLedger` and the sequences in `ProtocolStore` are
proved about in the same way.

Every invariant and every action property of a passing run is the statement of a
theorem. Only model-checked are the liveness properties, `MovesEnd` and `Finishes`:
fairness and ENABLED are out of the prover's reach.

## Plan

Done: migration and import, governance, the stock ledger, identity, commitments,
the foundation store and its feed, the v0.2 store, the contract; proofs of the
safety of all of these. Next, in this order:

1. the authority cache of federation over `HostMigration`; the expiry of receipts
   and the retry of a v0.4 command; the capacity reservation of the router;
2. installations as actors and the rotation of keys, with their replay;
3. the flow book; then the v0.3 kernel and onboarding.

Abstract specifications worth stating next: an exactly-once command for receipts,
a monotone cache for federation, an atomic booking that `CommitmentSaga` implements.

## Not modelled

Byte formats, canonical JSON and signatures: pure functions over large domains,
taken as injective and unforgeable. Grammars of single values in schemas. The
documents of the record profiles (products, orders, invoices, forecasts): pure
functions of one document. The v0.3 kernel and onboarding: superseded by v0.4,
whose kernel is modelled instead. Discovery and semantic packages of the
foundation: pure functions of signed documents. MCP servers, the marketplace and
the demonstrations: they hold no protocol state. Federation, the router's capacity
accounting, the flow book and receipts of v0.4 are in the plan; `PROJECT.json`
lists each part with its status.
