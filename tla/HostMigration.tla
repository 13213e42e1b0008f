---------------------------- MODULE HostMigration ----------------------------
(***************************************************************************)
(* The cooperative migration of one company between DTP v0.4 hosts         *)
(* (sdk/src/v04/migration.ts, and the migration cases of engine.ts).       *)
(*                                                                         *)
(* Every command runs in one database transaction of its host, so each     *)
(* handler is one action.  Hosts never talk to each other: a client        *)
(* carries signed tokens between them, and may lose, repeat, delay or      *)
(* reorder them.  A manifest, commit or cancel token stays in the table of *)
(* the host that signed it, where a client can fetch it again; a ready     *)
(* token, once signed, may be presented at any later time.  So an action   *)
(* takes any token that was ever signed.                                   *)
(*                                                                         *)
(* The tables outgoing and incoming of all hosts are kept as sets of       *)
(* manifests: the outgoing table of host h holds those with source h, its  *)
(* incoming table those with destination h.  The snapshot of a company is  *)
(* its generation and the set of writes it has accepted, and the snapshot  *)
(* hash of a manifest is that pair, the digest being injective.            *)
(*                                                                         *)
(* ready and finalize validate the snapshot against the rows of the        *)
(* destination.  What that compares is the subject of DestinationImport;   *)
(* here, a host may at any time take a row that a snapshot with write w    *)
(* contradicts, as profile.admit does, which consults no reservation.      *)
(***************************************************************************)
EXTENDS Naturals, FiniteSets

CONSTANTS
  Host,            \* hosts that have pinned each other's keys
  MigrationId,     \* request IDs of migration.prepare commands
  Write,           \* commands that change the company
  Chunk,           \* the pieces a snapshot is cut into
  Lifetime,        \* one hour, the lifetime of a manifest
  Skew,            \* the 30 seconds a token may come from the future
  MaxGeneration,   \* Number.MAX_SAFE_INTEGER
  Horizon,         \* bound of the model: the last reading of a clock, and of an expiry
  Admitting,       \* bound of the model: the hosts that take rows of their own
  MaxDrift         \* how far apart two hosts' clocks may be

ASSUME ConstantsAssumption ==
  /\ Lifetime \in Nat \ {0}
  /\ Skew \in Nat
  /\ MaxGeneration \in Nat
  /\ Horizon \in Nat
  /\ MaxDrift \in Nat

VARIABLES
  org,        \* org[h]: the company's row at host h
  clock,      \* clock[h]: ctx.now at host h
  outgoing,   \* manifests in outgoing tables
  commits,    \* commit_token of outgoing rows
  cancels,    \* cancel_token of outgoing rows
  incoming,   \* manifests in incoming tables
  chunks,     \* chunks of incoming rows
  readied,    \* every ready token signed
  activated,  \* incoming rows with the activated flag
  aborted,    \* incoming rows with the aborted flag
  own,        \* <<h, w>>: host h has a row of its own where write w brings another
  spoiled     \* history: manifests whose destination took such a row after ready

source == <<outgoing, commits, cancels>>
staging == <<incoming, chunks, readied, activated, aborted>>
rivals == <<own, spoiled>>
vars == <<org, clock, source, staging, rivals>>

Time == Nat
Copy == [status : {"absent", "active", "migrated"}, generation : Nat, content : SUBSET Write]
Absent == [status |-> "absent", generation |-> 0, content |-> {}]
Active(g, s) == [status |-> "active", generation |-> g, content |-> s]

Manifest == [migration_id : MigrationId, generation : Nat, source : Host, destination : Host,
             snapshot : SUBSET Write, expires_at : Time]
ReadyToken == [manifest : Manifest, issued_at : Time]
CommitToken == [manifest : Manifest, ready : ReadyToken, issued_at : Time]
CancelToken == [manifest : Manifest, issued_at : Time]

Committed(m) == \E c \in commits : c.manifest = m
Cancelled(m) == \E k \in cancels : k.manifest = m

\* An incoming row that still holds its place: neither activated nor aborted.
Open == incoming \ (activated \cup aborted)

\* migrationReserved: the company's ID is held at host h for an open stage.
Reserved(h) == \E m \in Open : m.destination = h

\* Activation and abort delete the stage's payload.
DropPayload(m) == {x \in chunks : x[1] # m}

Init ==
  /\ \E home \in Host : org = [h \in Host |-> IF h = home THEN Active(1, {}) ELSE Absent]
  /\ clock = [h \in Host |-> 0]
  /\ outgoing = {} /\ commits = {} /\ cancels = {}
  /\ incoming = {} /\ chunks = {} /\ readied = {} /\ activated = {} /\ aborted = {}
  /\ own = {} /\ spoiled = {}

-----------------------------------------------------------------------------
(* The source host *)

\* Any command of the company that currentOrg lets through and that changes
\* what a snapshot holds.
Append(h, w) ==
  /\ org[h].status = "active"
  /\ w \notin org[h].content
  /\ org' = [org EXCEPT ![h].content = @ \cup {w}]
  /\ UNCHANGED <<clock, source, staging, rivals>>

\* migration.prepare.  A repeated ID returns the stored token or is refused.
Prepare(h, id, d) ==
  /\ org[h].status = "active"
  /\ d # h
  /\ org[h].generation < MaxGeneration
  /\ clock[h] + Lifetime <= Horizon
  /\ \A m \in outgoing : ~(m.source = h /\ m.migration_id = id)
  /\ outgoing' = outgoing \cup
       {[migration_id |-> id, generation |-> org[h].generation, source |-> h, destination |-> d,
         snapshot |-> org[h].content, expires_at |-> clock[h] + Lifetime]}
  /\ UNCHANGED <<org, clock, commits, cancels, staging, rivals>>

\* Here and below, a definition whose name says so (Fault, KeepPayload, ...) is a
\* mistake the code could have made; no action uses it.  The mutants listed in
\* PROJECT.json put it in the place of the definition that follows it.

\* commit and cancel each refuse what the other decided.
UndecidedFault(m) == ~Committed(m)
Undecided(m) == ~Committed(m) /\ ~Cancelled(m)

\* The digest of the source's current snapshot is the manifest's.
SnapshotCurrent(h, m) == org[h].generation = m.generation /\ org[h].content = m.snapshot

\* "source clock precedes destination readiness"
ClockReachedFault(r, h) == TRUE
ClockReached(r, h) == r.issued_at <= clock[h]

\* The freeze of the source.
FreezeNothing(h) == org
Freeze(h) == [org EXCEPT ![h].status = "migrated"]

\* verifyToken and readyMatches for a live ready token r, by the clock of host h.
ReadyLive(r, h) ==
  /\ r.issued_at <= clock[h] + Skew
  /\ clock[h] < r.manifest.expires_at
  /\ r.issued_at < r.manifest.expires_at
  /\ r.manifest.expires_at <= r.issued_at + Lifetime

\* migration.commit: the durable decision, which freezes the source.
Commit(h, r) ==
  LET m == r.manifest IN
  /\ m \in outgoing /\ m.source = h
  /\ Undecided(m)
  /\ org[h].status = "active"
  /\ ReadyLive(r, h)
  /\ ClockReached(r, h)
  /\ SnapshotCurrent(h, m)
  /\ commits' = commits \cup {[manifest |-> m, ready |-> r, issued_at |-> clock[h]]}
  /\ org' = Freeze(h)
  /\ UNCHANGED <<clock, outgoing, cancels, staging, rivals>>

\* migration.cancel, which a migrated source still answers.
Cancel(h, m) ==
  /\ m.source = h
  /\ Undecided(m)
  /\ cancels' = cancels \cup {[manifest |-> m, issued_at |-> clock[h]]}
  /\ UNCHANGED <<org, clock, outgoing, commits, staging, rivals>>

-----------------------------------------------------------------------------
(* The destination host *)

\* migration.stage.  A known ID returns the stage or is refused.
Stage(d, m) ==
  /\ m.destination = d
  /\ m.expires_at <= clock[d] + Skew + Lifetime
  /\ clock[d] < m.expires_at
  /\ \A old \in incoming : ~(old.destination = d /\ old.migration_id = m.migration_id)
  /\ org[d].status = "absent"
  /\ ~Reserved(d)
  /\ incoming' = incoming \cup {m}
  /\ UNCHANGED <<org, clock, source, chunks, readied, activated, aborted, rivals>>

\* migration.upload
Upload(d, m, c) ==
  /\ m.destination = d
  /\ m \notin activated \cup aborted
  /\ clock[d] < m.expires_at
  /\ chunks' = chunks \cup {<<m, c>>}
  /\ UNCHANGED <<org, clock, source, incoming, readied, activated, aborted, rivals>>

\* validateSnapshot, as far as it looks at the destination: no row there
\* contradicts one of the snapshot ("profile differs at destination").
Fits(m) == \A w \in m.snapshot : <<m.destination, w>> \notin own

\* profile.admit, or the import of another company: the host takes a row of its
\* own, which no handler removes.  (A company never returns to a host it left, so
\* only a host without a copy matters.)
TakeRow(h, w) ==
  /\ h \in Admitting
  /\ org[h].status = "absent"
  /\ <<h, w>> \notin own
  /\ own' = own \cup {<<h, w>>}
  /\ spoiled' = spoiled \cup {m \in incoming : /\ m.destination = h /\ w \in m.snapshot
                                             /\ \E r \in readied : r.manifest = m}
  /\ UNCHANGED <<org, clock, source, staging>>

\* migration.ready: a validated stage gets its one ready token.
Ready(d, m) ==
  /\ m.destination = d
  /\ m \notin activated \cup aborted
  /\ clock[d] < m.expires_at
  /\ \A r \in readied : r.manifest # m
  /\ \A c \in Chunk : <<m, c>> \in chunks
  /\ org[d].status = "absent"
  /\ Fits(m)
  /\ readied' = readied \cup {[manifest |-> m, issued_at |-> clock[d]]}
  /\ UNCHANGED <<org, clock, source, incoming, chunks, activated, aborted, rivals>>

\* The commit token is evidence of the past: it does not expire, but must show a
\* commit made while the readiness was live.
CommitEvidence(c, d) ==
  /\ c.ready.issued_at <= c.issued_at /\ c.issued_at < c.manifest.expires_at
  /\ c.issued_at <= clock[d] + Skew

\* applySnapshot: the company starts anew at the next generation.
ApplyWithoutContent(d, m) == [org EXCEPT ![d] = Active(m.generation + 1, {})]
Apply(d, m) == [org EXCEPT ![d] = Active(m.generation + 1, m.snapshot)]

\* migration.finalize, which validates again before it applies
Finalize(d, c) ==
  LET m == c.manifest IN
  /\ m \in incoming /\ m.destination = d
  /\ m \notin activated \cup aborted
  /\ c.ready \in readied
  /\ CommitEvidence(c, d)
  /\ org[d].status = "absent"
  /\ Fits(m)
  /\ org' = Apply(d, m)
  /\ activated' = activated \cup {m}
  /\ chunks' = DropPayload(m)
  /\ UNCHANGED <<clock, source, incoming, readied, aborted, rivals>>

\* The cancel token, like the commit token, is evidence that does not expire.
CancelEvidenceFault(k, d) == k.issued_at <= clock[d] + Skew /\ clock[d] < k.manifest.expires_at
CancelEvidence(k, d) == k.issued_at <= clock[d] + Skew

\* migration.abort
Abort(d, k) ==
  LET m == k.manifest IN
  /\ m \in incoming /\ m.destination = d
  /\ m \notin activated \cup aborted
  /\ CancelEvidence(k, d)
  /\ aborted' = aborted \cup {m}
  /\ chunks' = DropPayload(m)
  /\ UNCHANGED <<org, clock, source, incoming, readied, activated, rivals>>

-----------------------------------------------------------------------------

\* Each host reads a clock of its own.
Tick(h) ==
  /\ clock[h] < Horizon
  /\ \A g \in Host : clock[h] + 1 <= clock[g] + MaxDrift
  /\ clock' = [clock EXCEPT ![h] = @ + 1]
  /\ UNCHANGED <<org, source, staging, rivals>>

Next ==
  \/ \E h \in Host, w \in Write : Append(h, w)
  \/ \E h, d \in Host, id \in MigrationId : Prepare(h, id, d)
  \/ \E h \in Host, r \in readied : Commit(h, r)
  \/ \E h \in Host, m \in outgoing : Cancel(h, m)
  \/ \E d \in Host, m \in outgoing : Stage(d, m)
  \/ \E d \in Host, m \in incoming, c \in Chunk : Upload(d, m, c)
  \/ \E h \in Host, w \in Write : TakeRow(h, w)
  \/ \E d \in Host, m \in incoming : Ready(d, m)
  \/ \E d \in Host, c \in commits : Finalize(d, c)
  \/ \E d \in Host, k \in cancels : Abort(d, k)
  \/ \E h \in Host : Tick(h)

\* A client that saw no answer retries finalize and abort (the receipts it
\* needs stay available), and clocks keep running.
Fairness ==
  /\ WF_vars(\E d \in Host, c \in commits : Finalize(d, c))
  /\ WF_vars(\E d \in Host, k \in cancels : Abort(d, k))
  /\ WF_vars(\E h \in Host : Tick(h))

Spec == Init /\ [][Next]_vars
FairSpec == Spec /\ Fairness

-----------------------------------------------------------------------------
(* Properties *)

\* Types, and the shape of the tables: one row for each host and ID, only rows
\* the source wrote, and payload only in rows that are still open (migration.ts
\* deletes it, so that a finished migration never holds a second copy).
TypeOK ==
  /\ org \in [Host -> Copy]
  /\ clock \in [Host -> Time]
  /\ outgoing \subseteq Manifest
  /\ commits \subseteq CommitToken
  /\ cancels \subseteq CancelToken
  /\ incoming \subseteq outgoing
  /\ activated \subseteq incoming
  /\ aborted \subseteq incoming
  /\ readied \subseteq [manifest : incoming, issued_at : Time]
  /\ chunks \subseteq Open \X Chunk
  /\ own \subseteq Host \X Write
  /\ spoiled \subseteq incoming

Serving == {h \in Host : org[h].status = "active"}
Holders == {h \in Host : org[h].status # "absent"}
Pending == {c \in commits : c.manifest \notin activated}

\* The company is never served by two hosts, and never by none without one
\* commit that answers for it.  migration.commit freezes the source in the
\* transaction that signs the receipt finalize asks for.
SingleCustody ==
  /\ \A g, h \in Serving : g = h
  /\ \A b, c \in Pending : b = c
  /\ (Serving = {}) = (Pending # {})

\* Two hosts never hold copies of the same generation, which is what
\* federation.ts relies on when it compares authority tokens by generation.
GenerationsDiffer ==
  \A g, h \in Holders : org[g].generation = org[h].generation => g = h

\* Between commit and finalize no migration can have taken away what the
\* destination checks: the stage is there, validated and not aborted, the place
\* of the company is free, and the commit lies in the readiness window.  Its clock
\* may have to catch up, and the second validation may refuse, but only for a row
\* the host took after it had signed the readiness.
CommittedMoveCanFinish ==
  \A c \in Pending :
    LET m == c.manifest IN
    /\ m \in Open
    /\ c.ready \in readied
    /\ c.ready.issued_at <= c.issued_at /\ c.issued_at < m.expires_at
    /\ org[m.destination].status = "absent"
    /\ Fits(m) \/ m \in spoiled

\* No accepted write is lost: whoever serves the company, or is about to, has
\* every write of every copy.  A commit of a stale snapshot would break it.
NothingLeftBehind ==
  /\ \A h \in Serving, g \in Host : org[g].content \subseteq org[h].content
  /\ \A c \in Pending, g \in Host : org[g].content \subseteq c.manifest.snapshot

\* Cancelling and committing exclude each other at both ends: a cancelled
\* migration never activates, and an aborted stage was never committed.
CancelExcludesCommit ==
  /\ \A m \in outgoing : ~(Committed(m) /\ Cancelled(m))
  /\ \A m \in activated : Committed(m)
  /\ \A m \in aborted : Cancelled(m)

\* What a step may not do to the copies: serve or change a frozen one again, or
\* make one disappear.
CopiesStay ==
  \A h \in Host :
    /\ org[h].status = "migrated" => org'[h] = org[h]
    /\ org[h].status = "active" => org'[h].status # "absent"

\* There is no reactivation path at a source (SPEC.md, section 8).
FrozenForever == [][CopiesStay]_vars

\* A committed move is completed once the client retries finalize: the company
\* is served again (SPEC.md, section 8: after commit, durable receipt and finalize
\* retry), unless the destination took a rival row after its readiness.
Refused == \E c \in Pending : c.manifest \in spoiled
CommittedMoveCompletes == (Serving = {}) ~> (Serving # {} \/ Refused)

\* A cancelled migration releases the place it held at its destination.
CancelledStageReleased ==
  \A d \in Host, id \in MigrationId :
    LET held == \E m \in Open : /\ m.destination = d /\ m.migration_id = id
                               /\ Cancelled(m)
    IN held ~> ~held

\* The migration implements the promise of CompanyCustody: a commit is the
\* release, finalize the arrival, everything else stutters.
Server == CHOOSE h \in Serving : TRUE
Moved == (CHOOSE c \in Pending : TRUE).manifest

Custody == INSTANCE CompanyCustody WITH
  keeper <- IF Serving # {} THEN Server ELSE Moved.destination,
  moving <- Serving = {},
  generation <- IF Serving # {} THEN org[Server].generation ELSE Moved.generation,
  content <- IF Serving # {} THEN org[Server].content ELSE Moved.snapshot,
  served <- Holders

ImplementsCustody == Custody!Spec

\* However a move was decided, it ends: the company is served again (or refused
\* for a row taken after ready), or its place at the destination is free.
MovesEnd == CommittedMoveCompletes /\ CancelledStageReleased
=============================================================================
