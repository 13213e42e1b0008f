---------------------------- MODULE ProtocolStore ----------------------------
(***************************************************************************)
(* The v0.2 store (supabase/functions/dtp-store): companies and modules    *)
(* with keys, signed records in chains of versions, grants to modules, and *)
(* the event feed.  Every write holds one advisory lock from the check of  *)
(* the caller's key to the commit (router.ts), so a write is one action.   *)
(* A record's id is its place in `records'; signatures verify; a bearer    *)
(* token stands for the key it was minted for.                             *)
(***************************************************************************)
EXTENDS Integers, Sequences, FiniteSets, RecordSchemas, RecordBodies

CONSTANTS Company, Module, Key, None,
          PageLimit,        \* events a page holds
          Seeds             \* starting states with the bounds that go with each

VARIABLES companies,        \* head record of each company, or None
          modules,          \* publisher and head record of each module, or None
          keys,             \* protocol.keys: owner, role and status of each key
          records,          \* protocol.records
          grants,           \* protocol.grants, by the root of the grant's chain
          events,           \* protocol.events: the record each event announces
          consumer,         \* a poller of the feed: its cursor, and what it has processed
          now,
          limit             \* the bounds of this behaviour

\* What the store takes for granted of its schemas.  The registry's subject and the roles are companies a body
\* names, and only a third party may be null; a body has a status where its type has a machine; the terms are
\* members of the body; an event says what its record's envelope says.
SchemasAgree ==
  \A t \in Type :
    LET body == Body[t]
        named == {RoleMember[role] : role \in Info[t].roles} \cup ({EntryOf(t).subject} \ {"self"})
        optional == {RoleMember[role] : role \in Info[t].third}
    IN  /\ named \subseteq Members(body) /\ named \cap DOMAIN body.may = optional
        /\ \A m \in named : Member(body, m) = CompanyId
        /\ Info[t].stateful <=> "status" \in DOMAIN body.needs
        /\ Info[t].terms \subseteq Members(body)
EventAgrees ==
  \A m \in Members(EventShape) \ {"cursor", "event_id", "kind", "recorded_at", "status"} :
    m \in Members(EnvelopeShape) /\ Member(EventShape, m) = Member(EnvelopeShape, m)
ASSUME SchemasAssumption == SchemasAgree /\ EventAgrees
\* A page holds one row at least.
ASSUME PageAssumption == PageLimit \in Nat \ {0}
tables == <<companies, modules, keys, records, grants, events>>
vars == <<tables, consumer, now, limit>>

KeyEntry == [role : {"root", "delegate"}, status : {"active", "revoked"}]
ListsOver(K) == UNION {[S -> KeyEntry] : S \in (SUBSET K) \ {{}}}
KeyLists == ListsOver(limit.keys)
Records == 1..Len(records)
Heads == {r \in Records : records[r].is_head}
Last(S) == CHOOSE x \in S : \A y \in S : y <= x

----------------------------------------------------------------------------
(* Reading *)

Principal(k) == [kind |-> keys[k].kind, id |-> keys[k].owner, key |-> k, role |-> keys[k].role]
Callers == {Principal(k) : k \in {x \in Key : keys[x] # None /\ keys[x].status = "active"}}

Live(g) == g.status = "active" /\ (g.expires = None \/ g.expires > now)
ScopeCovers(s, type, access) ==
  /\ s.access \in {"write", access}
  /\ IF s.type # None THEN s.type = type ELSE s.namespace \in {"*", Info[type].namespace}
Covers(g, type, access) == Live(g) /\ \E s \in g.scopes : ScopeCovers(s, type, access)
GrantsFor(m) == {grants[r] : r \in {x \in DOMAIN grants : grants[x].module = m /\ grants[x].status = "active"}}
Granted(m, c, type, access) == \E g \in GrantsFor(m) : g.company = c /\ Covers(g, type, access)

\* Who a record is shown to: everybody, its subject, its parties and whom they grant, its subject and whom it grants.
Visibility == {"public", "private", "counterparties", "granted"}
NamesModule(r, m) == r.type = "grant" /\ r.body.extra.module = m
CanRead(r, p) ==
  \/ r.visibility = "public"
  \/ /\ p.kind = "company"
     /\ r.subject = p.id \/ (r.visibility = "counterparties" /\ p.id \in r.counterparties)
  \/ /\ p.kind = "module"
     /\ \/ NamesModule(r, p.id)
        \/ /\ r.visibility # "private"
           /\ \E c \in {r.subject} \cup (IF r.visibility = "counterparties" THEN r.counterparties ELSE {}) :
                Granted(p.id, c, r.type, "read")

\* The clause the queries put before LIMIT and MAX.
ReadPrefilter(r, p) ==
  \/ r.visibility = "public"
  \/ p.kind = "company" /\ r.subject = p.id
  \/ p.kind = "company" /\ r.visibility = "counterparties" /\ p.id \in r.counterparties
  \/ p.kind = "module" /\ NamesModule(r, p.id)
  \/ /\ p.kind = "module" /\ r.visibility # "private"
     /\ \E g \in GrantsFor(p.id) :
          /\ Live(g)
          /\ \E s \in g.scopes : IF s.type # None THEN s.type = r.type ELSE s.namespace \in {"*", Info[r.type].namespace}
          /\ g.company = r.subject \/ (r.visibility = "counterparties" /\ g.company \in r.counterparties)

\* ORDER BY seq LIMIT n.
Least(n, S) == {x \in S : Cardinality({y \in S : y < x}) < n}
\* The first n events after a cursor that the query finds.
Scanned(p, after, n) == Least(n, {e \in (after + 1)..Len(events) : ReadPrefilter(records[events[e]], p)})
\* Fault: the query takes the page before the rows the caller may not read are dropped.
PageFault(p, after) ==
  {e \in (after + 1)..Len(events) : e <= after + PageLimit /\ CanRead(records[events[e]], p)}
Page(p, after) == Least(PageLimit, {e \in Scanned(p, after, PageLimit + 1) : CanRead(records[events[e]], p)})

\* GET /records: a page of the newest versions after a cursor, and whether it names a cursor to go on from.
RecordPage(p, after) ==
  LET rows == Least(PageLimit + 1, {h \in Heads : h > after /\ ReadPrefilter(records[h], p)})
      shown == Least(PageLimit, {h \in rows : CanRead(records[h], p)})
  IN  [records |-> shown, more |-> Cardinality(rows) > PageLimit /\ shown # {}]

\* What GET /companies/{id} and GET /modules/{id} show of an identity: its newest record, and the keys that act for it.
HeadOf(kind, id) == IF kind = "company" THEN companies[id] ELSE modules[id].head
ActiveKeys(kind, id) ==
  {k \in Key : keys[k] # None /\ keys[k].kind = kind /\ keys[k].owner = id /\ keys[k].status = "active"}
\* GET /companies/{id}/grants, asked by the company.
GrantsIssued(c) == {[root |-> r, grant |-> grants[r]] : r \in {x \in DOMAIN grants : grants[x].company = c}}
----------------------------------------------------------------------------
(* What a write must satisfy *)

RolesOf(type, body, issuer, subject, counterparties) ==
  {"any"} \cup (IF issuer = subject THEN {"subject"} ELSE {})
  \cup (IF issuer \in counterparties THEN {"counterparty"} ELSE {})
  \cup {role \in Info[type].roles : body.roles[role] = issuer}

\* The body that says who plays which role: that of the version being superseded.
RoleSource(env, prev) == IF prev = None THEN env.body ELSE prev.body
\* Fault: only a third party is looked at, the other roles may be handed on.
RolesContinueFault(env, prev) ==
  \A role \in Info[env.type].third : env.body.roles[role] \notin {env.subject} \cup env.counterparties
RolesContinue(env, prev) ==
  \A role \in Info[env.type].roles :
    LET third == role \in Info[env.type].third
        next == env.body.roles[role]
    IN  /\ third => next \notin {env.subject} \cup env.counterparties
        /\ \/ prev = None \/ prev.body.roles[role] = next
           \/ prev.body.roles[role] = None /\ third

\* The members of a body that are parts of the model by themselves; of the others one is followed, the one at the
\* place the bounds name.
Apart(type) ==
  {"status", EntryOf(type).subject} \cup {RoleMember[role] : role \in Info[type].roles}
  \cup CASE type = "company" -> {"keys"}
         [] type = "module" -> {"module_id", "keys"}
         [] type = "grant" -> {"module_id", "scopes", "expires_at"}
         [] type = "invoice" -> {"paid_amount", "assigned_to_company_id"}
         [] type = "fulfillment" -> {"seller_attestation", "buyer_attestation", "deductions"}
         [] OTHER -> {}
Followed(type) == limit.follow.type = type
FollowedIn(members) == limit.follow.place[1] \in members
\* validateBody: a member its schema requires is there.
Conforms(env) ==
  Followed(env.type) /\ Needed(Body[env.type], limit.follow.place) => env.body.followed # None
\* The fields x-dtp-immutable-fields names; the seller's attestation is one.
Terms(r) == <<IF Followed(r.type) /\ FollowedIn(Info[r.type].terms) THEN r.body.followed ELSE None,
              IF r.type = "fulfillment" THEN r.body.extra.seller ELSE None>>
\* Fault: the terms are locked only as long as the record is new.
TermsLockedFault(type, status) == status \in Info[type].locked \cap Info[type].initial
TermsLocked(type, status) == status \in Info[type].locked
TransitionAllowed(env, prev, roles) ==
  LET info == Info[env.type]
      listed == {m \in info.moves : m.from = prev.body.status /\ m.to = env.body.status}
  IN  IF prev = None
      THEN /\ info.creators \cap roles # {}
           /\ info.stateful => env.body.status \in info.initial
      ELSE /\ ~info.append_only
           /\ TermsLocked(env.type, prev.body.status) => Terms(env) = Terms(prev)
           /\ IF listed # {} THEN \E m \in listed : m.by \cap roles # {}
              ELSE /\ ~info.stateful \/ env.body.status = prev.body.status
                   /\ info.revisers \cap roles # {}

\* What the seller alone keeps of an invoice: what was paid, and the events that settled it.
Accounts(r) == <<r.body.extra.paid, IF Followed(r.type) /\ FollowedIn({"settlement_event_ids"}) THEN r.body.followed ELSE None>>
InvoiceIntact(env, prev) ==
  LET before == IF prev = None THEN None ELSE prev.body.extra.assigned
      after == env.body.extra.assigned
  IN  /\ prev = None \/ env.issuer = prev.body.roles["seller"] \/ Accounts(env) = Accounts(prev)
      /\ before # None => after = before
      /\ after # before => env.issuer = env.body.roles["seller"]
\* Fault: the buyer may go back to the deductions later.
DeductionsOpenFault(env, prev) == env.issuer = env.body.roles["buyer"]
DeductionsOpen(env, prev) ==
  /\ prev.body.status = "seller_attested" /\ env.issuer = env.body.roles["buyer"]
  /\ env.body.status \in {"buyer_attested", "disputed"}

DeliveryIntact(env, prev) ==
  LET seller == env.body.extra.seller
      buyer == env.body.extra.buyer
      signed(c) == [company |-> c, record |-> env.id]
  IN  IF prev = None THEN seller = signed(env.body.roles["seller"]) /\ buyer = None
      ELSE /\ prev.body.extra.buyer # None => buyer = prev.body.extra.buyer
           /\ prev.body.extra.buyer = None /\ buyer # None =>
                /\ env.issuer = env.body.roles["buyer"]
                /\ env.body.status = "buyer_attested"
                /\ buyer = signed(env.body.roles["buyer"])
           /\ env.body.status = "buyer_attested" => buyer # None
           /\ env.body.extra.deductions # prev.body.extra.deductions => DeductionsOpen(env, prev)
Integrity(env, prev) ==
  /\ env.type = "invoice" => InvoiceIntact(env, prev)
  /\ env.type = "fulfillment" => DeliveryIntact(env, prev)

----------------------------------------------------------------------------
(* Keys *)

HasRoot(list) == \E k \in DOMAIN list : list[k] = [role |-> "root", status |-> "active"]

KeysFree(kind, owner, list) ==
  \A k \in DOMAIN list :
    \/ keys[k] = None
    \/ /\ keys[k].kind = kind /\ keys[k].owner = owner
       /\ ~(keys[k].status = "revoked" /\ list[k].status = "active")
Dropped(row) == [row EXCEPT !.status = "revoked"]

SyncKeys(kind, owner, list) ==
  [k \in Key |->
     IF k \in DOMAIN list THEN [kind |-> kind, owner |-> owner, role |-> list[k].role, status |-> list[k].status]
     ELSE IF keys[k] # None /\ keys[k].kind = kind /\ keys[k].owner = owner THEN Dropped(keys[k])
     ELSE keys[k]]
----------------------------------------------------------------------------
(* Writing *)

\* The insertion of a record, and of its event, with the old head's flag cleared.
Insert(env) ==
  /\ records' = Append([r \in Records |-> IF r = env.supersedes THEN [records[r] EXCEPT !.is_head = FALSE] ELSE records[r]],
                       [env EXCEPT !.is_head = TRUE])
  /\ events' = Append(events, env.id)

\* The body of an identity: its keys, and for a module its id.
KeysBody(m, list) == [status |-> None, roles |-> << >>, followed |-> 0, extra |-> [module |-> m, keys |-> list]]
Genesis(type, k, subject, others, m, body, vis) ==
  [id |-> Len(records) + 1, root |-> Len(records) + 1, type |-> type, key |-> k, issuer |-> subject, module |-> m,
   subject |-> subject, counterparties |-> others, visibility |-> vis, supersedes |-> None, body |-> body, is_head |-> TRUE]

\* validateEnvelope and what else holds of an envelope before the database is asked.
WellFormed(env) ==
  /\ env.visibility = "counterparties" => env.counterparties # {}
  /\ env.subject \notin env.counterparties
  /\ env.supersedes = None <=> env.root = env.id

\* POST /companies: certified by a root key the envelope itself lists.
CreateCompany(c, k, list, vis) ==
  /\ k \in DOMAIN list /\ list[k] = [role |-> "root", status |-> "active"]
  /\ companies[c] = None
  /\ \A x \in DOMAIN list : keys[x] = None
  /\ keys' = SyncKeys("company", c, list)
  /\ companies' = [companies EXCEPT ![c] = Len(records) + 1]
  /\ LET env == Genesis("company", k, c, {}, None, KeysBody(None, list), vis) IN WellFormed(env) /\ Insert(env)
  /\ UNCHANGED <<modules, grants, consumer, now, limit>>

\* POST /modules: the caller holds a root key of the publisher; the module's own root key may sign.  Nobody asks
\* whether the counterparties it names are registered.
CreateModule(m, caller, k, others, list, vis) ==
  LET p == Principal(caller) IN
  /\ p \in Callers /\ p.kind = "company" /\ p.role = "root"
  /\ modules[m] = None
  /\ \A x \in DOMAIN list : keys[x] = None
  /\ HasRoot(list)
  /\ k = caller \/ (k \in DOMAIN list /\ list[k] = [role |-> "root", status |-> "active"])
  /\ keys' = SyncKeys("module", m, list)
  /\ modules' = [modules EXCEPT ![m] = [publisher |-> p.id, head |-> Len(records) + 1]]
  /\ LET env == Genesis("module", k, p.id, others, IF k = caller THEN None ELSE m, KeysBody(m, list), vis)
     IN  WellFormed(env) /\ Insert(env)
  /\ UNCHANGED <<companies, grants, consumer, now, limit>>

Target(env) == IF env.supersedes = None THEN None ELSE records[env.supersedes]

\* Fault: going on with a chain needs no grant.
WriteGrantedFault(env, p) == env.supersedes # None \/ Granted(p.id, env.issuer, env.type, "write")
WriteGranted(env, p) == Granted(p.id, env.issuer, env.type, "write")

\* authorizeWrite, with the read access a superseding write needs first.
Authorized(env) ==
  LET p == Principal(env.key)
      prev == Target(env)
      parties == IF prev = None THEN {env.subject} \cup env.counterparties ELSE {prev.subject} \cup prev.counterparties
  IN  /\ p \in Callers
      /\ prev # None => CanRead(prev, p)
      /\ IF p.kind = "company" THEN /\ env.module = None /\ env.issuer = p.id
                                    /\ Info[env.type].namespace = "core" => p.role = "root"
         ELSE env.module = p.id /\ "module" \in EntryOf(env.type).writable_by /\ Info[env.type].namespace # "core"
      /\ env.issuer \in parties
      /\ p.kind = "module" => WriteGranted(env, p)

Continues(env, prev) ==
  /\ prev.is_head
  /\ prev.type = env.type /\ prev.subject = env.subject /\ prev.root = env.root
  /\ prev.counterparties = env.counterparties /\ prev.visibility = env.visibility

\* The hooks of the core types run in the write's transaction and can refuse it.
HooksAllow(env, prev) ==
  /\ env.type = "company" => env.subject = env.issuer /\ env.module = None /\ KeysFree("company", env.subject, env.body.extra.keys)
  /\ env.type = "module" => prev.body.extra.module = env.body.extra.module /\ KeysFree("module", env.body.extra.module, env.body.extra.keys)
  /\ env.type = "grant" => /\ env.subject = env.issuer /\ modules[env.body.extra.module] # None
                           /\ prev # None => prev.body.extra.module = env.body.extra.module

Acceptable(env) ==
  LET prev == Target(env)
      roles == RolesOf(env.type, RoleSource(env, prev), env.issuer, env.subject, env.counterparties)
  IN  /\ prev # None => Continues(env, prev)
      /\ companies[env.subject] # None /\ \A c \in env.counterparties : companies[c] # None
      /\ RolesContinue(env, prev)
      /\ TransitionAllowed(env, prev, roles)
      /\ Integrity(env, prev)
      /\ env.type \in {"company", "module"} => HasRoot(env.body.extra.keys)
      /\ HooksAllow(env, prev)

\* Fault: the chain is looked at first.
AnswerFault(env) == IF ~Authorized(env) \/ ~Acceptable(env) THEN "refused" ELSE IF env.id \in Records THEN "exists" ELSE "created"
\* POST /records answers a record it already has before it looks at the chain.
Answer(env) ==
  IF ~Authorized(env) THEN "refused"
  ELSE IF env.id \in Records
       THEN IF CanRead(records[env.id], Principal(env.key)) /\ records[env.id] = [env EXCEPT !.is_head = records[env.id].is_head]
            THEN "exists" ELSE "refused"
  ELSE IF Acceptable(env) THEN "created" ELSE "refused"
\* Fault: a grant stays active in the table when its chain revokes it.
GrantRowFault(env) == [company |-> env.subject, module |-> env.body.extra.module, scopes |-> env.body.extra.scopes,
                       status |-> "active", expires |-> env.body.extra.expires]
GrantRow(env) == [company |-> env.subject, module |-> env.body.extra.module, scopes |-> env.body.extra.scopes,
                  status |-> env.body.status, expires |-> env.body.extra.expires]
WriteRecord(env) ==
  /\ env.supersedes # None \/ env.type \notin {"company", "module"}
  /\ \A role \in SubjectRoles(env.type) : env.body.roles[role] = env.subject
  /\ WellFormed(env) /\ Conforms(env)
  /\ Answer(env) = "created"
  /\ Insert(env)
  /\ keys' = CASE env.type = "company" -> SyncKeys("company", env.subject, env.body.extra.keys)
               [] env.type = "module" -> SyncKeys("module", env.body.extra.module, env.body.extra.keys)
               [] OTHER -> keys
  /\ companies' = IF env.type = "company" THEN [companies EXCEPT ![env.subject] = env.id] ELSE companies
  /\ modules' = IF env.type = "module" THEN [modules EXCEPT ![env.body.extra.module].head = env.id] ELSE modules
  /\ grants' = IF env.type = "grant"
               THEN [r \in DOMAIN grants \cup {env.root} |-> IF r = env.root THEN GrantRow(env) ELSE grants[r]]
               ELSE grants
  /\ UNCHANGED <<consumer, now, limit>>

\* A consumer asks for the page after the last event it processed.
Poll ==
  /\ \E p \in Callers :
       /\ p.kind = "company" /\ p.id = limit.consumer
       /\ Page(p, consumer.cursor) # {}
       /\ consumer' = [cursor |-> Last(Page(p, consumer.cursor)),
                       seen |-> consumer.seen \cup {events[e] : e \in Page(p, consumer.cursor)}]
  /\ UNCHANGED <<tables, now, limit>>

Tick == now < limit.horizon /\ now' = now + 1 /\ UNCHANGED <<tables, consumer, limit>>

----------------------------------------------------------------------------
(* The writes a client may send *)

Extras(type, old) ==
  CASE type = "company" -> [module : {None}, keys : KeyLists]
    [] type = "module" -> [module : Module, keys : KeyLists]
    [] type = "grant" -> [module : Module, scopes : limit.scopes, expires : {None, 1}]
    [] type = "invoice" -> [paid : {0, 1}, assigned : limit.parties \cup {None}]
    [] type = "fulfillment" ->
         LET signed == [company : limit.parties, record : {Len(records) + 1}]
             before(field) == IF old = None THEN None ELSE old[field]
         IN  [seller : signed \cup {before("seller")}, buyer : signed \cup {None, before("buyer")}, deductions : {0, 1}]
    [] OTHER -> {None}
StatusOf(type) == IF Info[type].stateful THEN Statuses(type) ELSE {None}
RoleMaps(type) == {f \in [Info[type].roles -> limit.parties \cup {None}] :
                     \A role \in Info[type].roles \ Info[type].third : f[role] # None}

\* A company's key signs for its company only: anything else is refused as issuer_mismatch.
Signs(k, issuer) == keys[k] # None /\ (keys[k].kind = "company" => issuer = keys[k].owner)
Through(k) == IF keys[k].kind = "module" THEN keys[k].owner ELSE None

First(type) ==
  \E k \in Key, issuer \in limit.parties :
    /\ Signs(k, issuer)
    /\ Cardinality({r \in Heads : records[r].type = type}) < limit.chains
    /\ \E roles \in RoleMaps(type), others \in SUBSET limit.parties, vis \in limit.visibility, status \in StatusOf(type),
          extra \in Extras(type, None) :
         LET subject == IF SubjectRoles(type) = {} THEN issuer ELSE roles[CHOOSE role \in SubjectRoles(type) : TRUE]
             body == [status |-> status, roles |-> roles, extra |-> extra,
                     followed |-> IF Followed(type) /\ ~Needed(Body[type], limit.follow.place) THEN None ELSE 0]
         IN  WriteRecord([Genesis(type, k, subject, others, Through(k), body, vis) EXCEPT !.issuer = issuer])

\* A new version names the roles as before, or one of them otherwise.
Recast(roles) == {roles} \cup {[roles EXCEPT ![role] = c] : role \in DOMAIN roles, c \in limit.parties}

Supersede(r) ==
  LET old == records[r] IN
  \E k \in Key, issuer \in limit.parties :
    /\ Signs(k, issuer)
    /\ \E roles \in Recast(old.body.roles), status \in StatusOf(old.type), followed \in IF Followed(old.type) THEN {old.body.followed, None, 1} ELSE {0},
          extra \in Extras(old.type, old.body.extra) :
         WriteRecord([old EXCEPT !.id = Len(records) + 1, !.key = k, !.issuer = issuer, !.supersedes = r, !.module = Through(k),
                        !.body = [status |-> status, roles |-> roles, followed |-> followed, extra |-> extra]])

\* What the tables hold: a key and whom it acts for, a module and its publisher, a record and its body.
KeyOf(kind, owners) == [kind : {kind}, owner : owners, role : {"root", "delegate"}, status : {"active", "revoked"}]
StoredKey == KeyOf("company", Company) \cup KeyOf("module", Module)
StoredModule == [publisher : Company, head : Nat]
Scopes == SUBSET [namespace : {None, "*"} \cup {Info[t].namespace : t \in Type}, type : Type \cup {None}, access : {"read", "write"}]
Signed == [company : Company, record : Nat]
IdentityExtra(ids) == [module : ids, keys : ListsOver(Key)]
GrantExtra == [module : Module, scopes : Scopes, expires : Nat \cup {None}]
InvoiceExtra == [paid : Nat, assigned : Company \cup {None}]
DeliveryExtra == [seller : Signed \cup {None}, buyer : Signed \cup {None}, deductions : Nat]
ExtraOf(type) ==
  CASE type = "company" -> IdentityExtra({None})
    [] type = "module" -> IdentityExtra(Module)
    [] type = "grant" -> GrantExtra
    [] type = "invoice" -> InvoiceExtra
    [] type = "fulfillment" -> DeliveryExtra
    [] OTHER -> {None}
RolesIn(type) == [Info[type].roles -> Company \cup {None}]
AnyBody == [status : UNION {StatusOf(t) : t \in Type}, roles : UNION {RolesIn(t) : t \in Type}, followed : {0, 1, None},
            extra : IdentityExtra(Module \cup {None}) \cup GrantExtra \cup InvoiceExtra \cup DeliveryExtra \cup {None}]
Envelope ==
  {e \in [id : Nat, root : Nat, type : Type, key : Key, issuer : Company, module : Module \cup {None}, subject : Company,
          counterparties : SUBSET Company, visibility : Visibility,
          supersedes : Nat \cup {None}, body : AnyBody, is_head : BOOLEAN] :
     e.body.status \in StatusOf(e.type) /\ e.body.roles \in RolesIn(e.type) /\ e.body.extra \in ExtraOf(e.type)}
ASSUME NoneAssumption == None \notin Nat \cup Company \cup Module \cup StoredKey \cup StoredModule \cup Signed \cup Envelope

\* A behaviour starts with identities registered before: one record each, signed by a company's key, with no other
\* key acting for it than the record lists.  Its bounds are about companies, keys and types of this store.
Lists(seed, kind, id, list) ==
  LET acting == {k \in Key : seed.keys[k] # None /\ seed.keys[k].kind = kind /\ seed.keys[k].owner = id
                             /\ seed.keys[k].status = "active"}
  IN  /\ acting = {k \in DOMAIN list : list[k].status = "active"}
      /\ \A k \in acting : seed.keys[k].role = list[k].role
      /\ \E k \in acting : seed.keys[k].role = "root"
Identities(seed) ==
  /\ seed.records \in Seq({e \in Envelope : e.type \in {"company", "module"} /\ e.is_head /\ e.module = None /\ e.supersedes = None})
  /\ \A r \in DOMAIN seed.records :
       LET e == seed.records[r] IN
       /\ e.id = r /\ e.root = r
       /\ seed.keys[e.key] # None /\ seed.keys[e.key].kind = "company" /\ seed.keys[e.key].owner = e.issuer
       /\ e.type = "company" => seed.companies[e.subject] # None
       /\ e.type = "module" => seed.modules[e.body.extra.module] # None
  /\ seed.companies \in [Company -> Nat \cup {None}] /\ seed.modules \in [Module -> StoredModule \cup {None}]
  /\ seed.keys \in [Key -> StoredKey \cup {None}]
  /\ \A c \in Company : seed.companies[c] # None =>
       LET h == seed.companies[c] IN
       /\ h \in DOMAIN seed.records /\ seed.records[h].type = "company"
       /\ Lists(seed, "company", c, seed.records[h].body.extra.keys)
  /\ \A m \in Module : seed.modules[m] # None =>
       LET h == seed.modules[m].head IN
       /\ h \in DOMAIN seed.records /\ seed.records[h].type = "module"
       /\ Lists(seed, "module", m, seed.records[h].body.extra.keys)
Bounds(l) ==
  /\ l.keys \subseteq Key /\ l.parties \cup l.newcomers \subseteq Company /\ l.types \subseteq Type
  /\ l.follow.type \in Type => l.follow.place[1] \in Members(Body[l.follow.type]) \ Apart(l.follow.type)
  /\ l.scopes \subseteq Scopes /\ l.visibility \subseteq Visibility
ASSUME SeedsAssumption == \A seed \in Seeds : Identities(seed) /\ Bounds(seed.limit)

Init ==
  \E seed \in Seeds :
    /\ companies = seed.companies /\ modules = seed.modules /\ keys = seed.keys
    /\ records = seed.records /\ grants = << >> /\ events = [r \in 1..Len(seed.records) |-> r]
    /\ consumer = [cursor |-> 0, seen |-> {}] /\ now = 0 /\ limit = seed.limit

\* A registration is sent where it can be accepted.
Register ==
  \/ \E c \in limit.newcomers :
       /\ companies[c] = None
       /\ \E k \in Key, list \in KeyLists, vis \in limit.visibility : CreateCompany(c, k, list, vis)
  \/ \E m \in Module, caller \in Key :
       /\ modules[m] = None /\ keys[caller] # None
       /\ \E k \in Key, others \in SUBSET limit.parties, list \in KeyLists, vis \in limit.visibility :
            CreateModule(m, caller, k, others, list, vis)

Next ==
  \/ /\ Len(records) < limit.records
     /\ \/ Register
        \/ \E type \in limit.types : First(type)
        \/ \E r \in Records : records[r].type \in limit.types /\ Supersede(r)
  \/ Poll
  \/ Tick

Spec == Init /\ [][Next]_vars

----------------------------------------------------------------------------
(* Properties *)

\* The keys that can act for an identity are the active keys its newest record lists, in the role listed there,
\* and at least one of them is a root key (syncKeys keeps protocol.keys in step with core records).
KeysMatchHeads ==
  /\ \A kind \in {"company", "module"}, id \in Company \cup Module :
       (IF kind = "company" THEN id \in Company /\ companies[id] # None ELSE id \in Module /\ modules[id] # None) =>
         LET listed == records[HeadOf(kind, id)].body.extra.keys
             acting == ActiveKeys(kind, id)
         IN  /\ acting = {k \in DOMAIN listed : listed[k].status = "active"}
             /\ \A k \in acting : keys[k].role = listed[k].role
             /\ \E k \in acting : keys[k].role = "root"

\* The grants table says what the newest version of each grant says (runHooks).
GrantsMatchHeads ==
  \A c \in Company :
    GrantsIssued(c) =
      {[root |-> records[h].root,
        grant |-> [company |-> c, module |-> records[h].body.extra.module, scopes |-> records[h].body.extra.scopes,
                   status |-> records[h].body.status, expires |-> records[h].body.extra.expires]] :
         h \in {x \in Heads : records[x].type = "grant" /\ records[x].subject = c}}

\* Both tables that authorize follow the chains: a second head, or a row that a hook or syncKeys forgot, would
\* let somebody act on a version that was replaced.
RowsMatchHeads == KeysMatchHeads /\ GrantsMatchHeads

\* What a module writes for a company, the company's newest grant to it allows at that moment: not an older
\* version, not one that was revoked or has expired (authorizeWrite inside the lock).
ModuleActsUnderGrant ==
  [][\A r \in DOMAIN records' \ Records :
       records'[r].module # None /\ records'[r].type # "module" =>
         \E h \in Heads :
           LET g == records[h] IN
           /\ g.type = "grant" /\ g.body.status = "active" /\ g.subject = records'[r].issuer
           /\ g.body.extra.module = records'[r].module
           /\ g.body.extra.expires = None \/ g.body.extra.expires > now
           /\ \E s \in g.body.extra.scopes :
                s.access = "write" /\ (s.type = records'[r].type \/ (s.type = None /\ s.namespace \in {"*", Info[records'[r].type].namespace}))]_vars

\* Whoever moves a record to another status plays a role that may, and plays it by the record's first version, or
\* as a third party one of them appointed before (rolesOf and checkRoleContinuity over the whole chain).
AccountableMoves ==
  \A r \in Records :
    LET s == records[r].supersedes
        type == records[r].type
        holder(role) == IF role \in Info[type].third THEN records[s].body.roles[role] ELSE records[records[r].root].body.roles[role]
    IN  s # None /\ records[r].body.status # records[s].body.status =>
          \E m \in Info[type].moves :
            /\ m.from = records[s].body.status /\ m.to = records[r].body.status
            /\ \/ "subject" \in m.by /\ records[r].issuer = records[r].subject
               \/ \E role \in m.by \ {"subject"} : holder(role) = records[r].issuer

\* Whatever an agreement says - any part of its price, goods, dates, references - it goes on saying in every
\* version, from the first or, for an invoice, from its issue; the members the parties keep account in aside.  And an
\* invoice assigned to a financer stays assigned to it (x-dtp-immutable-fields, x-dtp-lock-after-statuses,
\* checkIntegrity).
Account == [contract |-> {}, fulfillment |-> {"deductions"}, advance_offer |-> {},
            advance |-> {"repaid_amount", "outstanding", "repayment_event_ids"},
            invoice |-> {"paid_amount", "settlement_event_ids"}]
AgreedTermsKept ==
  \A r, s \in Records :
    /\ records[r].root = records[s].root /\ s < r
    /\ records[s].type \in DOMAIN Account /\ records[s].body.status # "draft"
    => /\ Followed(records[s].type) /\ ~FollowedIn(Account[records[s].type]) =>
            records[r].body.followed = records[s].body.followed
       /\ records[s].type = "fulfillment" => records[r].body.extra.seller = records[s].body.extra.seller
       /\ records[s].type = "invoice" /\ records[s].body.extra.assigned # None =>
            records[r].body.extra.assigned = records[s].body.extra.assigned

\* A buyer's attestation names the very version in which the buyer confirmed the delivery, and deductions change
\* only in a version of the buyer's that answers the seller's (checkIntegrity over the chain).
DeliveryEvidence ==
  \A r \in Records : records[r].type = "fulfillment" =>
    LET b == records[r].body.extra.buyer
        s == records[r].supersedes
    IN  /\ b # None => /\ b.record \in Records /\ records[b.record].root = records[r].root
                       /\ records[b.record].issuer = b.company /\ b.company = records[r].body.roles["buyer"]
                       /\ records[b.record].body.status = "buyer_attested"
        /\ s # None /\ records[s].body.extra.deductions # records[r].body.extra.deductions =>
             records[r].issuer = records[r].body.roles["buyer"] /\ records[s].body.status = "seller_attested"

\* The clause in the queries selects exactly the records the caller may read (authz.ts says so of readPrefilter).
FilterExact == \A p \in Callers, r \in Records : ReadPrefilter(records[r], p) <=> CanRead(records[r], p)

\* A consumer that goes on after the last event it processed has everything it may read up to there, and an empty
\* page means that nothing is left; a listing of records followed by its cursors leaves nothing out either
\* (listEvents and listRecords with their limits, on the clause of FilterExact).
FeedComplete ==
  /\ FilterExact
  /\ \A p \in Callers : p.kind = "company" /\ p.id = limit.consumer =>
       consumer.seen = {events[e] : e \in {x \in 1..consumer.cursor : CanRead(records[events[x]], p)}}
  /\ \A p \in Callers, after \in 0..Len(events) :
       Page(p, after) = {} => \A e \in (after + 1)..Len(events) : ~CanRead(records[events[e]], p)
  /\ \A p \in Callers, after \in 0..Len(records) :
       LET page == RecordPage(p, after)
           rest == {h \in Heads : h > after /\ CanRead(records[h], p)} \ page.records
       IN  IF page.more THEN page.records # {} /\ \A h \in rest : h > Last(page.records) ELSE rest = {}

\* Sending an accepted record again is acknowledged, whatever became of its chain, as long as the sender still
\* may write for that company and read the record (writeRecord's exact retries).
RetryAcknowledged ==
  \A r \in Records :
    LET p == Principal(records[r].key)
        s == records[r].supersedes
    IN  /\ records[r].type \in {"company", "module"} => s # None
        /\ p \in Callers /\ CanRead(records[r], p)
        /\ Info[records[r].type].namespace = "core" => p.role = "root"
        /\ p.kind = "module" => Granted(p.id, records[r].issuer, records[r].type, "write")
        => Answer(records[r]) = "exists"
=============================================================================
