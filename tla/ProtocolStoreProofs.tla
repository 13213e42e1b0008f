------------------------- MODULE ProtocolStoreProofs -------------------------
(***************************************************************************)
(* Theorems about ProtocolStore, for every set of companies, modules and   *)
(* keys, and for every store of registered identities to start from: the   *)
(* tables that authorize follow the chains, what modules write is granted, *)
(* agreed terms stay as agreed, a reader of the feed misses nothing, and   *)
(* what the chains say of deliveries and retries.                          *)
(***************************************************************************)
EXTENDS ProtocolStore, SequenceTheorems, SumTheorems, TLAPS

-----------------------------------------------------------------------------
(* The table of records *)

\* A record has the members of an envelope, a body those of a body.
Shaped(e) ==
  e = [id |-> e.id, root |-> e.root, type |-> e.type, key |-> e.key, issuer |-> e.issuer, module |-> e.module,
       subject |-> e.subject, counterparties |-> e.counterparties, visibility |-> e.visibility,
       supersedes |-> e.supersedes, body |-> e.body, is_head |-> e.is_head]

\* The same record, but for the flag of the newest version.
SameRecord(e, f) ==
  /\ e.id = f.id /\ e.root = f.root /\ e.type = f.type /\ e.key = f.key /\ e.issuer = f.issuer
  /\ e.module = f.module /\ e.subject = f.subject /\ e.counterparties = f.counterparties
  /\ e.visibility = f.visibility /\ e.supersedes = f.supersedes /\ e.body = f.body

\* What a version and the version it supersedes have in common (checked by the
\* store when it continues a chain, and by the hooks for the ids in core bodies).
Kin(e, f) ==
  /\ e.type = f.type /\ e.root = f.root /\ e.subject = f.subject
  /\ e.counterparties = f.counterparties /\ e.visibility = f.visibility
  /\ e.type \in {"module", "grant"} => e.body.extra.module = f.body.extra.module

\* A record at place n of the table.
Stored(e, n) == e \in Envelope /\ e.id = n /\ e.root \in 1..n

\* An envelope has its members, and only them.
LEMMA EnvelopeMembers ==
  ASSUME NEW e \in Envelope
  PROVE  Shaped(e)
PROOF
  BY DEF Envelope, Shaped

\* A record that differs in its flag only is an envelope too.
LEMMA EnvelopeKept ==
  ASSUME NEW e \in Envelope, NEW f, SameRecord(f, e), Shaped(f), f.is_head \in BOOLEAN
  PROVE  f \in Envelope
PROOF
  <1> DEFINE All == [id : Nat, root : Nat, type : Type, key : Key, issuer : Company, module : Module \cup {None},
                     subject : Company, counterparties : SUBSET Company,
                     visibility : Visibility,
                     supersedes : Nat \cup {None}, body : AnyBody, is_head : BOOLEAN]
  <1>1. e \in All /\ e.body.status \in StatusOf(e.type) /\ e.body.roles \in RolesIn(e.type)
        /\ e.body.extra \in ExtraOf(e.type)
    BY DEF Envelope
  <1>2. f = [id |-> e.id, root |-> e.root, type |-> e.type, key |-> e.key, issuer |-> e.issuer, module |-> e.module,
             subject |-> e.subject, counterparties |-> e.counterparties, visibility |-> e.visibility,
             supersedes |-> e.supersedes, body |-> e.body, is_head |-> f.is_head]
    BY DEF Shaped, SameRecord
  <1>3. f \in All
    BY <1>1, <1>2
  <1> QED
    BY <1>1, <1>3 DEF SameRecord, Envelope

\* The table is a sequence, a record's id is its place, and a chain goes back
\* version by version to its root.
Table ==
  /\ Len(records) \in Nat /\ records = [r \in Records |-> records[r]]
  /\ \A r \in Records :
       /\ Stored(records[r], r)
       /\ records[r].supersedes = None => records[r].root = r
       /\ records[r].supersedes # None => /\ records[r].supersedes \in 1..(r - 1)
                                          /\ Kin(records[r], records[records[r].supersedes])

\* Each chain has one newest version.
OneHead ==
  /\ \A r, s \in Records : records[r].root = records[s].root =>
       records[r].type = records[s].type /\ records[r].subject = records[s].subject
  /\ \A r \in Records : \E h \in Heads : records[h].root = records[r].root
  /\ \A h, i \in Heads : records[h].root = records[i].root => h = i

\* The bounds of the behaviour never change.
Bounded == Bounds(limit)

\* The next record: what a write hands to Insert.
Draft(env) ==
  /\ Stored(env, Len(records) + 1)
  /\ \/ env.supersedes = None /\ env.root = Len(records) + 1
     \/ env.supersedes \in Heads /\ Kin(env, records[env.supersedes])

\* The flag is a member like any other.
LEMMA HeadFlag ==
  ASSUME NEW e, Shaped(e), NEW b
  PROVE  LET f == [e EXCEPT !.is_head = b]
         IN SameRecord(f, e) /\ Shaped(f) /\ f.is_head = b
PROOF
  <1> DEFINE f == [e EXCEPT !.is_head = b]
  <1>1. f = [id |-> e.id, root |-> e.root, type |-> e.type, key |-> e.key, issuer |-> e.issuer,
             module |-> e.module, subject |-> e.subject, counterparties |-> e.counterparties,
             visibility |-> e.visibility, supersedes |-> e.supersedes, body |-> e.body, is_head |-> b]
    BY DEF Shaped
  <1> HIDE DEF f
  <1> QED
    BY <1>1 DEF Shaped, SameRecord

\* What the insertion of a record does to the table.
LEMMA InsertFacts ==
  ASSUME Table, NEW env, Draft(env), Insert(env)
  PROVE  LET n == Len(records) + 1 IN
         /\ Len(records') = n /\ Records' = Records \cup {n} /\ n \notin Records
         /\ records' = [r \in 1..n |-> records'[r]]
         /\ \A r \in Records : /\ SameRecord(records'[r], records[r]) /\ Shaped(records'[r])
                               /\ records'[r].is_head = (records[r].is_head /\ r # env.supersedes)
         /\ SameRecord(records'[n], env) /\ Shaped(records'[n]) /\ records'[n].is_head = TRUE
PROOF
  <1> DEFINE n == Len(records) + 1
             old == [r \in Records |-> IF r = env.supersedes THEN [records[r] EXCEPT !.is_head = FALSE] ELSE records[r]]
             S == {old[r] : r \in Records}
             e == [env EXCEPT !.is_head = TRUE]
  <1>1. n \in Nat /\ Records \cup {n} = 1..n /\ n \notin Records /\ Len(records) \in Nat
    BY DEF Table, Records
  <1>2. old \in Seq(S) /\ Len(old) = Len(records)
    <2>1. old \in [1..Len(records) -> S]
      BY DEF Records
    <2> QED
      BY <1>1, <2>1, SeqDef, LenProperties DEF Records
  <1>3. records' = Append(old, e)
    BY DEF Insert
  <1>4. /\ Len(records') = n /\ records' = [r \in 1..n |-> records'[r]]
        /\ \A r \in Records : records'[r] = old[r]
        /\ records'[n] = e
    <2> HIDE DEF old, S, e
    <2>1. old \in Seq(S \cup {e})
      BY <1>2, SeqDef
    <2>2. /\ Append(old, e) \in Seq(S \cup {e}) /\ Len(Append(old, e)) = Len(old) + 1
          /\ \A r \in 1..Len(old) : Append(old, e)[r] = old[r]
          /\ Append(old, e)[Len(old) + 1] = e
      BY <2>1, AppendProperties
    <2>3. Append(old, e) = [r \in 1..n |-> Append(old, e)[r]]
      BY <1>2, <2>2, LenProperties
    <2> QED
      BY <1>2, <1>3, <2>2, <2>3 DEF Records
  <1>5. ASSUME NEW r \in Records
        PROVE /\ SameRecord(old[r], records[r]) /\ Shaped(old[r])
              /\ old[r].is_head = (records[r].is_head /\ r # env.supersedes)
    <2>1. Shaped(records[r]) /\ records[r].is_head \in BOOLEAN
      BY EnvelopeMembers DEF Table, Stored, Envelope
    <2>2. CASE r = env.supersedes
      BY <2>1, <2>2, HeadFlag
    <2>3. CASE r # env.supersedes
      BY <2>1, <2>3 DEF SameRecord
    <2> QED
      BY <2>2, <2>3
  <1>6. SameRecord(e, env) /\ Shaped(e) /\ e.is_head = TRUE
    BY HeadFlag, EnvelopeMembers DEF Draft, Stored
  <1>7. Records' = 1..n
    BY <1>4 DEF Records
  <1> HIDE DEF old, S, e
  <1> QED
    BY <1>1, <1>4, <1>5, <1>6, <1>7

\* Records stay what they are when another one is inserted.
LEMMA StoredKept ==
  ASSUME NEW e, NEW f, NEW n, Stored(e, n), SameRecord(f, e), Shaped(f), f.is_head \in BOOLEAN
  PROVE  Stored(f, n)
PROOF
  <1>1. f \in Envelope
    BY EnvelopeKept DEF Stored
  <1> QED
    BY <1>1 DEF Stored, SameRecord

\* The table stays a table: every version it gains continues one it has.
LEMMA TableInsert ==
  ASSUME Table, NEW env, Draft(env), Insert(env)
  PROVE  Table'
PROOF
  <1> DEFINE n == Len(records) + 1
  <1>1. /\ Len(records') = n /\ Records' = Records \cup {n} /\ n \notin Records
        /\ records' = [r \in 1..n |-> records'[r]]
        /\ \A r \in Records : /\ SameRecord(records'[r], records[r]) /\ Shaped(records'[r])
                              /\ records'[r].is_head = (records[r].is_head /\ r # env.supersedes)
        /\ SameRecord(records'[n], env) /\ Shaped(records'[n]) /\ records'[n].is_head = TRUE
    BY InsertFacts
  <1>2. n \in Nat /\ Records' = 1..n /\ Records = 1..(n - 1)
    BY <1>1 DEF Table, Records
  <1>3. ASSUME NEW r \in Records
        PROVE  /\ Stored(records'[r], r)
               /\ records'[r].supersedes = None => records'[r].root = r
               /\ records'[r].supersedes # None =>
                    records'[r].supersedes \in 1..(r - 1) /\ Kin(records'[r], records'[records'[r].supersedes])
    <2>1. /\ Stored(records[r], r)
          /\ records[r].supersedes = None => records[r].root = r
          /\ records[r].supersedes # None => /\ records[r].supersedes \in 1..(r - 1)
                                             /\ Kin(records[r], records[records[r].supersedes])
      BY DEF Table
    <2>2. Stored(records'[r], r)
      BY <1>1, <2>1, StoredKept
    <2>3. records'[r].supersedes = records[r].supersedes /\ records'[r].root = records[r].root
      BY <1>1 DEF SameRecord
    <2>4. ASSUME records[r].supersedes # None
          PROVE  Kin(records'[r], records'[records[r].supersedes])
      <3>1. records[r].supersedes \in Records
        BY <1>2, <2>1, <2>4
      <3>2. SameRecord(records'[r], records[r])
            /\ SameRecord(records'[records[r].supersedes], records[records[r].supersedes])
        BY <1>1, <3>1
      <3> QED
        BY <2>1, <2>4, <3>2 DEF Kin, SameRecord
    <2> QED
      BY <2>1, <2>2, <2>3, <2>4
  <1>4. /\ Stored(records'[n], n)
        /\ records'[n].supersedes = None => records'[n].root = n
        /\ records'[n].supersedes # None =>
             records'[n].supersedes \in 1..(n - 1) /\ Kin(records'[n], records'[records'[n].supersedes])
    <2>1. Stored(records'[n], n)
      BY <1>1, StoredKept DEF Draft
    <2>2. records'[n].supersedes = env.supersedes /\ records'[n].root = env.root
      BY <1>1 DEF SameRecord
    <2>3. CASE env.supersedes = None /\ env.root = n
      BY <2>1, <2>2, <2>3
    <2>4. CASE env.supersedes \in Heads /\ Kin(env, records[env.supersedes])
      <3>1. env.supersedes \in Records
        BY <2>4 DEF Heads
      <3>2. env.supersedes # None
        BY <3>1, NoneAssumption DEF NoneAssumption, Records
      <3>3. SameRecord(records'[n], env) /\ SameRecord(records'[env.supersedes], records[env.supersedes])
        BY <1>1, <3>1
      <3>4. Kin(records'[n], records'[env.supersedes])
        BY <2>4, <3>3 DEF Kin, SameRecord
      <3> QED
        BY <1>2, <2>1, <2>2, <3>1, <3>2, <3>4
    <2> QED
      BY <2>3, <2>4 DEF Draft
  <1> QED
    BY <1>1, <1>2, <1>3, <1>4 DEF Table

\* The version that is superseded stops being the newest one of its chain, and a
\* chain that begins has no other version.
LEMMA OneHeadInsert ==
  ASSUME Table, OneHead, NEW env, Draft(env), Insert(env)
  PROVE  OneHead'
PROOF
  <1> DEFINE n == Len(records) + 1
  <1>1. /\ Len(records') = n /\ Records' = Records \cup {n} /\ n \notin Records
        /\ \A r \in Records : /\ SameRecord(records'[r], records[r]) /\ Shaped(records'[r])
                              /\ records'[r].is_head = (records[r].is_head /\ r # env.supersedes)
        /\ SameRecord(records'[n], env) /\ Shaped(records'[n]) /\ records'[n].is_head = TRUE
    BY InsertFacts
  <1>2. /\ \A r \in Records : /\ records'[r].root = records[r].root /\ records'[r].type = records[r].type
                              /\ records'[r].subject = records[r].subject
        /\ records'[n].root = env.root /\ records'[n].type = env.type /\ records'[n].subject = env.subject
    BY <1>1 DEF SameRecord
  <1>3. \A h : h \in Heads' <=> (h = n \/ (h \in Heads /\ h # env.supersedes))
    BY <1>1 DEF Heads, Table
  <1>4. CASE env.supersedes = None /\ env.root = n
    <2>1. \A r \in Records : records[r].root # n
      <3> SUFFICES ASSUME NEW r \in Records PROVE records[r].root # n
        OBVIOUS
      <3>1. records[r].root \in 1..r /\ Len(records) \in Nat
        BY DEF Table, Stored
      <3> QED
        BY <3>1 DEF Records
    <2>2. \A h \in Heads : h # env.supersedes
      BY <1>4, NoneAssumption DEF NoneAssumption, Heads, Records
    <2> QED
      BY <1>1, <1>2, <1>3, <1>4, <2>1, <2>2 DEF OneHead, Heads
  <1>5. CASE env.supersedes \in Heads /\ Kin(env, records[env.supersedes])
    <2> DEFINE p == env.supersedes
    <2>1. /\ p \in Heads /\ p \in Records /\ env.root = records[p].root
          /\ env.type = records[p].type /\ env.subject = records[p].subject
      BY <1>5 DEF Kin, Heads
    <2> HIDE DEF p, n
    <2>2. \A h : h \in Heads' <=> (h = n \/ (h \in Heads /\ h # p))
      BY <1>3 DEF p
    <2>3. \A r, s \in Records' : records'[r].root = records'[s].root =>
            records'[r].type = records'[s].type /\ records'[r].subject = records'[s].subject
      BY <1>1, <1>2, <2>1 DEF OneHead
    <2>4. \A r \in Records' : \E h \in Heads' : records'[h].root = records'[r].root
      <3> SUFFICES ASSUME NEW r \in Records' PROVE \E h \in Heads' : records'[h].root = records'[r].root
        OBVIOUS
      <3>1. CASE records'[r].root = env.root
        BY <1>2, <2>2, <3>1
      <3>2. CASE records'[r].root # env.root
        <4>1. r \in Records
          BY <1>1, <1>2, <3>2
        <4>2. PICK h \in Heads : records[h].root = records[r].root
          BY <4>1 DEF OneHead
        <4>3. h # p /\ h \in Records
          BY <1>2, <2>1, <3>2, <4>1, <4>2 DEF Heads
        <4> QED
          BY <1>2, <2>2, <4>1, <4>2, <4>3
      <3> QED
        BY <3>1, <3>2
    <2>5. \A h, i \in Heads' : records'[h].root = records'[i].root => h = i
      <3>1. \A h \in Heads : h \in Records /\ (records[h].root = env.root => h = p)
        BY <2>1 DEF OneHead, Heads
      <3> QED
        BY <1>2, <2>2, <3>1 DEF OneHead
    <2> QED
      BY <2>3, <2>4, <2>5 DEF OneHead
  <1> QED
    BY <1>4, <1>5 DEF Draft

-----------------------------------------------------------------------------
(* What the writes hand to the table *)

\* The rows about identities: what a row holds, and that an identity with a record
\* has a row, whose newest record is one of its own.
Tables ==
  /\ companies \in [Company -> Nat \cup {None}] /\ modules \in [Module -> StoredModule \cup {None}]
  /\ keys \in [Key -> StoredKey \cup {None}]
  /\ \A c \in Company : companies[c] # None =>
       companies[c] \in Records /\ records[companies[c]].type = "company"
  /\ \A m \in Module : modules[m] # None =>
       modules[m].head \in Records /\ records[modules[m].head].type = "module"
  /\ \A r \in Records :
       /\ records[r].type = "company" => companies[records[r].subject] # None
       /\ records[r].type = "module" => modules[records[r].body.extra.module] # None

\* The type invariant, and with it the shape of the chains.
TypeOK == Bounded /\ Table /\ OneHead /\ Tables

\* The bounded lists of keys are lists of keys.
LEMMA ListsMonotone ==
  ASSUME NEW K \in SUBSET Key
  PROVE  ListsOver(K) \subseteq ListsOver(Key)
PROOF
  BY DEF ListsOver

\* Only a contract has a third party, its arbitrator.
LEMMA ThirdParties ==
  \A type \in Type : Info[type].third = IF type = "contract" THEN {"arbitrator"} ELSE {}
PROOF
  <1>1. Type = {"company", "module", "grant", "advance", "advance_offer", "invoice", "settlement_event",
                "coa_anchor", "cte", "contract", "fulfillment", "intent", "listing", "offer", "settlement",
                "standing_agreement"}
    BY DEF Type, Info
  <1>2. Info["contract"].third = {"arbitrator"}
    BY DEF Info, Contract, Machine, Plain
  <1>3. Info["company"].third = {}
    BY DEF Info, Company_, Plain
  <1>4. Info["module"].third = {}
    BY DEF Info, Module_, Plain
  <1>5. Info["settlement_event"].third = {}
    BY DEF Info, SettlementEvent, Plain
  <1>6. Info["coa_anchor"].third = {}
    BY DEF Info, CoaAnchor, Plain
  <1>7. Info["cte"].third = {}
    BY DEF Info, Cte, Plain
  <1>8. Info["settlement"].third = {}
    BY DEF Info, Settlement, Plain
  <1>9. Info["grant"].third = {}
    BY DEF Info, Grant, Machine, Plain
  <1>10. Info["advance"].third = {}
    BY DEF Info, Advance, Machine, Plain
  <1>11. Info["advance_offer"].third = {}
    BY DEF Info, AdvanceOffer, Machine, Plain
  <1>12. Info["invoice"].third = {}
    BY DEF Info, Invoice, Machine, Plain
  <1>13. Info["fulfillment"].third = {}
    BY DEF Info, Fulfillment, Machine, Plain
  <1>14. Info["intent"].third = {}
    BY DEF Info, Intent, Machine, Plain
  <1>15. Info["listing"].third = {}
    BY DEF Info, Listing, Machine, Plain
  <1>16. Info["offer"].third = {}
    BY DEF Info, Offer, Machine, Plain
  <1>17. Info["standing_agreement"].third = {}
    BY DEF Info, StandingAgreement, Machine, Plain
  <1> QED
    BY <1>1, <1>2, <1>3, <1>4, <1>5, <1>6, <1>7, <1>8, <1>9, <1>10, <1>11, <1>12, <1>13, <1>14, <1>15, <1>16, <1>17

\* No third party is the subject of a record.
LEMMA SubjectNotThird == \A type \in Type : SubjectRoles(type) \cap Info[type].third = {}
PROOF
  <1> SUFFICES ASSUME NEW type \in Type, NEW role \in SubjectRoles(type), role \in Info[type].third
               PROVE  FALSE
    OBVIOUS
  <1>1. type = "contract" /\ role = "arbitrator"
    BY ThirdParties
  <1>2. Info["contract"].namespace = "trade"
    BY DEF Info, Contract, Machine, Plain
  <1>3. EntryOf("contract").subject = "buyer_company_id"
    BY <1>2 DEF EntryOf, Registry, TradeEntries, Entry
  <1>4. RoleMember["arbitrator"] = "arbitrator_company_id"
    BY DEF RoleMember
  <1> QED
    BY <1>1, <1>3, <1>4 DEF SubjectRoles

\* What a client may put in the part of a body that the store looks into.
LEMMA ExtrasTyped ==
  ASSUME Bounded, Table, NEW type \in Type, NEW old, old = None \/ old \in ExtraOf(type)
  PROVE  Extras(type, old) \subseteq ExtraOf(type)
PROOF
  <1>1. /\ ListsOver(limit.keys) \subseteq ListsOver(Key) /\ limit.parties \subseteq Company
        /\ limit.scopes \subseteq Scopes /\ Len(records) + 1 \in Nat
    BY ListsMonotone DEF Bounded, Bounds, Table
  <1>2. CASE type = "company"
    BY <1>1, <1>2 DEF Extras, ExtraOf, IdentityExtra, KeyLists
  <1>3. CASE type = "module"
    BY <1>1, <1>3 DEF Extras, ExtraOf, IdentityExtra, KeyLists
  <1>4. CASE type = "grant"
    BY <1>1, <1>4 DEF Extras, ExtraOf, GrantExtra
  <1>5. CASE type = "invoice"
    BY <1>1, <1>5 DEF Extras, ExtraOf, InvoiceExtra
  <1>6. CASE type = "fulfillment"
    <2> DEFINE signed == [company : limit.parties, record : {Len(records) + 1}]
               before(field) == IF old = None THEN None ELSE old[field]
    <2>1. signed \subseteq Signed
      BY <1>1 DEF Signed
    <2>2. before("seller") \in Signed \cup {None} /\ before("buyer") \in Signed \cup {None}
      BY <1>6 DEF ExtraOf, DeliveryExtra
    <2>3. Extras(type, old) = [seller : signed \cup {before("seller")},
                               buyer : signed \cup {None, before("buyer")}, deductions : {0, 1}]
      BY <1>6 DEF Extras
    <2>4. ExtraOf(type) = DeliveryExtra
      BY <1>6 DEF ExtraOf
    <2>5. before("seller") \in Signed \cup {None} /\ before("buyer") \in Signed \cup {None}
      BY <2>2
    <2> HIDE DEF signed, before
    <2>6. signed \cup {before("seller")} \subseteq Signed \cup {None}
          /\ signed \cup {None, before("buyer")} \subseteq Signed \cup {None}
      BY <2>1, <2>5
    <2> QED
      BY <2>3, <2>4, <2>6 DEF DeliveryExtra
  <1>7. CASE type \notin {"company", "module", "grant", "invoice", "fulfillment"}
    BY <1>7 DEF Extras, ExtraOf
  <1> QED
    BY <1>2, <1>3, <1>4, <1>5, <1>6, <1>7

\* The parts of an envelope, put together.
LEMMA EnvelopeOf ==
  ASSUME NEW e, Shaped(e), {e.id, e.root} \subseteq Nat, e.type \in Type, e.key \in Key, e.issuer \in Company,
         e.module \in Module \cup {None}, e.subject \in Company, e.counterparties \in SUBSET Company,
         e.visibility \in Visibility, e.supersedes \in Nat \cup {None},
         e.is_head \in BOOLEAN,
         NEW status \in StatusOf(e.type), NEW roles \in RolesIn(e.type), NEW followed \in {0, 1, None},
         NEW extra \in ExtraOf(e.type),
         e.body = [status |-> status, roles |-> roles, followed |-> followed, extra |-> extra]
  PROVE  e \in Envelope
PROOF
  <1> DEFINE All == [id : Nat, root : Nat, type : Type, key : Key, issuer : Company, module : Module \cup {None},
                     subject : Company, counterparties : SUBSET Company,
                     visibility : Visibility,
                     supersedes : Nat \cup {None}, body : AnyBody, is_head : BOOLEAN]
  <1>1. extra \in IdentityExtra(Module \cup {None}) \cup GrantExtra \cup InvoiceExtra \cup DeliveryExtra \cup {None}
    BY DEF ExtraOf, IdentityExtra
  <1>2. status \in UNION {StatusOf(t) : t \in Type} /\ roles \in UNION {RolesIn(t) : t \in Type}
    OBVIOUS
  <1>3. e.body \in AnyBody
    BY <1>1, <1>2 DEF AnyBody
  <1>4. e \in All
    BY <1>3 DEF Shaped
  <1> QED
    BY <1>4 DEF Envelope

\* A write that is accepted was authorized and is acceptable.
LEMMA AcceptedWrite ==
  ASSUME NEW env, WriteRecord(env)
  PROVE  Authorized(env) /\ Acceptable(env) /\ Insert(env)
PROOF
  BY DEF WriteRecord, Answer

\* The key a client signs with.
LEMMA SigningKey ==
  ASSUME Tables, NEW k \in Key, NEW issuer, Signs(k, issuer)
  PROVE  keys[k] \in StoredKey /\ Through(k) \in Module \cup {None}
PROOF
  BY DEF Tables, Signs, Through, StoredKey, KeyOf

\* The first version of a chain.
LEMMA FirstDraft ==
  ASSUME TypeOK, NEW type \in limit.types, First(type)
  PROVE  \E env : Draft(env) /\ env.supersedes = None /\ WriteRecord(env)
PROOF
  <1> DEFINE n == Len(records) + 1
  <1>1. /\ type \in Type /\ limit.parties \subseteq Company
        /\ limit.visibility \subseteq Visibility /\ n \in Nat /\ n \in 1..n
    BY DEF TypeOK, Bounded, Bounds, Table
  <1>2. PICK k \in Key, issuer \in limit.parties :
          /\ Signs(k, issuer)
          /\ \E roles \in RoleMaps(type), others \in SUBSET limit.parties, vis \in limit.visibility,
                status \in StatusOf(type), extra \in Extras(type, None) :
               LET subject == IF SubjectRoles(type) = {} THEN issuer ELSE roles[CHOOSE role \in SubjectRoles(type) : TRUE]
                   body == [status |-> status, roles |-> roles, extra |-> extra,
                            followed |-> IF Followed(type) /\ ~Needed(Body[type], limit.follow.place) THEN None ELSE 0]
               IN  WriteRecord([Genesis(type, k, subject, others, Through(k), body, vis)
                                  EXCEPT !.issuer = issuer])
    BY DEF First
  <1>3. PICK roles \in RoleMaps(type), others \in SUBSET limit.parties, vis \in limit.visibility,
             status \in StatusOf(type), extra \in Extras(type, None) :
               LET subject == IF SubjectRoles(type) = {} THEN issuer ELSE roles[CHOOSE role \in SubjectRoles(type) : TRUE]
                   body == [status |-> status, roles |-> roles, extra |-> extra,
                            followed |-> IF Followed(type) /\ ~Needed(Body[type], limit.follow.place) THEN None ELSE 0]
               IN  WriteRecord([Genesis(type, k, subject, others, Through(k), body, vis)
                                  EXCEPT !.issuer = issuer])
    BY <1>2
  <1> DEFINE subject == IF SubjectRoles(type) = {} THEN issuer ELSE roles[CHOOSE role \in SubjectRoles(type) : TRUE]
             followed == IF Followed(type) /\ ~Needed(Body[type], limit.follow.place) THEN None ELSE 0
             body == [status |-> status, roles |-> roles, extra |-> extra, followed |-> followed]
             env == [Genesis(type, k, subject, others, Through(k), body, vis)
                       EXCEPT !.issuer = issuer]
  <1>4. WriteRecord(env)
    BY <1>3
  <1>5. roles \in RolesIn(type) /\ \A role \in Info[type].roles \ Info[type].third : roles[role] \in Company
    BY <1>1 DEF RoleMaps, RolesIn
  <1>6. subject \in Company
    <2>1. CASE SubjectRoles(type) = {}
      BY <1>1, <2>1
    <2>2. CASE SubjectRoles(type) # {}
      <3> DEFINE role == CHOOSE x \in SubjectRoles(type) : TRUE
      <3>1. role \in SubjectRoles(type)
        BY <2>2
      <3>2. role \in Info[type].roles \ Info[type].third
        BY <1>1, <3>1, SubjectNotThird DEF SubjectRoles
      <3> QED
        BY <1>5, <2>2, <3>2
    <2> QED
      BY <2>1, <2>2
  <1>7. Through(k) \in Module \cup {None}
    BY <1>2, SigningKey DEF TypeOK
  <1>8. extra \in ExtraOf(type)
    BY <1>1, ExtrasTyped DEF TypeOK
  <1>9. followed \in {0, 1, None}
    OBVIOUS
  <1> HIDE DEF subject, followed
  <1>10. env = [id |-> n, root |-> n, type |-> type, key |-> k, issuer |-> issuer, module |-> Through(k),
                subject |-> subject, counterparties |-> others, visibility |-> vis, supersedes |-> None,
                body |-> body, is_head |-> TRUE]
    <2> HIDE DEF body
    <2> DEFINE g == Genesis(type, k, subject, others, Through(k), body, vis)
    <2>1. g = [id |-> n, root |-> n, type |-> type, key |-> k, issuer |-> subject, module |-> Through(k),
               subject |-> subject, counterparties |-> others, visibility |-> vis, supersedes |-> None,
               body |-> body, is_head |-> TRUE]
      BY DEF Genesis
    <2>2. env = [g EXCEPT !.issuer = issuer]
      OBVIOUS
    <2> HIDE DEF g, env, n
    <2> QED
      BY <2>1, <2>2
  <1> HIDE DEF env
  <1>11. Shaped(env)
    BY <1>10 DEF Shaped
  <1>12. others \in SUBSET Company
    BY <1>1
  <1>13. env \in Envelope
    BY <1>1, <1>5, <1>6, <1>7, <1>8, <1>9, <1>10, <1>11, <1>12, EnvelopeOf
  <1>14. Draft(env) /\ env.supersedes = None
    BY <1>1, <1>10, <1>13 DEF Draft, Stored
  <1> QED
    BY <1>4, <1>14

\* A new version: what Supersede changes of the old one.
Revised(e, id_, key_, issuer_, supersedes_, module_, body_) ==
  [e EXCEPT !.id = id_, !.key = key_, !.issuer = issuer_, !.supersedes = supersedes_, !.module = module_,
            !.body = body_]

\* The members a new version takes over.
LEMMA RevisedMembers ==
  ASSUME NEW e, Shaped(e), NEW id_, NEW key_, NEW issuer_, NEW supersedes_, NEW module_, NEW body_
  PROVE  Revised(e, id_, key_, issuer_, supersedes_, module_, body_) =
         [id |-> id_, root |-> e.root, type |-> e.type, key |-> key_, issuer |-> issuer_, module |-> module_,
          subject |-> e.subject, counterparties |-> e.counterparties, visibility |-> e.visibility,
          supersedes |-> supersedes_, body |-> body_, is_head |-> e.is_head]
PROOF
  <1> DEFINE new == Revised(e, id_, key_, issuer_, supersedes_, module_, body_)
  <1>1. DOMAIN e = {"id", "root", "type", "key", "issuer", "module", "subject", "counterparties", "visibility",
                    "supersedes", "body", "is_head"}
    BY DEF Shaped
  <1>2. /\ DOMAIN new = DOMAIN e /\ new = [x \in DOMAIN new |-> new[x]]
        /\ new.id = id_ /\ new.key = key_ /\ new.issuer = issuer_ /\ new.supersedes = supersedes_
        /\ new.module = module_ /\ new.body = body_ /\ new.root = e.root /\ new.type = e.type
        /\ new.subject = e.subject /\ new.counterparties = e.counterparties /\ new.visibility = e.visibility
        /\ new.is_head = e.is_head
    BY <1>1 DEF Revised
  <1> HIDE DEF new
  <1>3. new = [id |-> id_, root |-> e.root, type |-> e.type, key |-> key_, issuer |-> issuer_, module |-> module_,
               subject |-> e.subject, counterparties |-> e.counterparties, visibility |-> e.visibility,
               supersedes |-> supersedes_, body |-> body_, is_head |-> e.is_head]
    BY <1>1, <1>2
  <1> QED
    BY <1>3 DEF new

\* A new version of the newest record of a chain.
LEMMA NextDraft ==
  ASSUME TypeOK, NEW r \in Records, Supersede(r)
  PROVE  \E env : Draft(env) /\ env.supersedes = r /\ WriteRecord(env)
PROOF
  <1> DEFINE n == Len(records) + 1
             old == records[r]
  <1>1. /\ limit.parties \subseteq Company /\ n \in Nat /\ r \in Records /\ Stored(old, r) /\ r < n
        /\ Len(records) \in Nat
    BY DEF TypeOK, Bounded, Bounds, Table, Heads, Records
  <1>2. PICK k \in Key, issuer \in limit.parties :
          /\ Signs(k, issuer)
          /\ \E roles \in Recast(old.body.roles), status \in StatusOf(old.type),
                followed \in IF Followed(old.type) THEN {old.body.followed, None, 1} ELSE {0},
                extra \in Extras(old.type, old.body.extra) :
               WriteRecord([old EXCEPT !.id = n, !.key = k, !.issuer = issuer, !.supersedes = r, !.module = Through(k),
                              !.body = [status |-> status, roles |-> roles, followed |-> followed, extra |-> extra]])
    BY DEF Supersede
  <1>3. PICK roles \in Recast(old.body.roles), status \in StatusOf(old.type),
             followed \in IF Followed(old.type) THEN {old.body.followed, None, 1} ELSE {0},
             extra \in Extras(old.type, old.body.extra) :
               WriteRecord([old EXCEPT !.id = n, !.key = k, !.issuer = issuer, !.supersedes = r, !.module = Through(k),
                              !.body = [status |-> status, roles |-> roles, followed |-> followed, extra |-> extra]])
    BY <1>2
  <1> DEFINE body == [status |-> status, roles |-> roles, followed |-> followed, extra |-> extra]
             env == [old EXCEPT !.id = n, !.key = k, !.issuer = issuer, !.supersedes = r, !.module = Through(k),
                                !.body = body]
  <1>4. WriteRecord(env)
    BY <1>3
  <1>5. /\ old \in Envelope /\ Shaped(old) /\ old.root \in 1..r /\ old.type \in Type
        /\ old.body.roles \in RolesIn(old.type) /\ old.body.extra \in ExtraOf(old.type)
        /\ old.body.followed \in {0, 1, None} /\ old.subject \in Company /\ old.counterparties \in SUBSET Company
        /\ old.visibility \in Visibility /\ old.is_head \in BOOLEAN
    BY <1>1, EnvelopeMembers DEF Stored, Envelope, AnyBody
  <1>6. roles \in RolesIn(old.type) /\ followed \in {0, 1, None}
    BY <1>1, <1>5 DEF Recast, RolesIn
  <1>7. extra \in ExtraOf(old.type) /\ Through(k) \in Module \cup {None}
    BY <1>2, <1>5, ExtrasTyped, SigningKey DEF TypeOK
  <1> HIDE DEF old
  <1>8. env = [id |-> n, root |-> old.root, type |-> old.type, key |-> k, issuer |-> issuer, module |-> Through(k),
               subject |-> old.subject, counterparties |-> old.counterparties, visibility |-> old.visibility,
               supersedes |-> r, body |-> body, is_head |-> old.is_head]
    <2> HIDE DEF body, n
    <2>1. Shaped(old)
      BY <1>5
    <2>2. env = Revised(old, n, k, issuer, r, Through(k), body)
      BY DEF Revised
    <2> HIDE DEF env
    <2>3. Revised(old, n, k, issuer, r, Through(k), body) =
            [id |-> n, root |-> old.root, type |-> old.type, key |-> k, issuer |-> issuer, module |-> Through(k),
             subject |-> old.subject, counterparties |-> old.counterparties, visibility |-> old.visibility,
             supersedes |-> r, body |-> body, is_head |-> old.is_head]
      BY <2>1, RevisedMembers
    <2> QED
      BY <2>2, <2>3
  <1> HIDE DEF env
  <1>9. Shaped(env)
    BY <1>8 DEF Shaped
  <1>10. env.root \in 1..n /\ env.root \in Nat /\ r \in Nat
    BY <1>1, <1>5, <1>8 DEF Records
  <1>11. env \in Envelope
    BY ZenonT(60), <1>1, <1>5, <1>6, <1>7, <1>8, <1>9, <1>10, EnvelopeOf
  <1>12. Target(env) = old /\ old # None
    <2>1. env.supersedes # None
      BY <1>8, <1>10, NoneAssumption DEF NoneAssumption
    <2> QED
      BY <1>5, <1>8, <2>1, NoneAssumption DEF NoneAssumption, Target, old
  <1>13. env.type \in {"module", "grant"} => env.body.extra.module = old.body.extra.module
    <2>1. HooksAllow(env, old)
      BY <1>4, <1>12, AcceptedWrite DEF Acceptable
    <2> QED
      BY <1>12, <2>1 DEF HooksAllow
  <1>14. Kin(env, records[env.supersedes]) /\ env.supersedes \in Heads
    <2>1. old.is_head
      BY <1>4, <1>12, AcceptedWrite DEF Acceptable, Continues
    <2> QED
      BY <1>1, <1>8, <1>13, <2>1 DEF Kin, old, Heads
  <1>15. Draft(env) /\ env.supersedes = r
    BY <1>8, <1>10, <1>11, <1>14 DEF Draft, Stored
  <1> QED
    BY <1>4, <1>15

\* The record of a new identity.
LEMMA IdentityDraft ==
  ASSUME TypeOK, NEW type \in {"company", "module"}, NEW k \in Key, NEW c \in Company, NEW others \in SUBSET Company, NEW by \in Module \cup {None},
         NEW m, m \in IF type = "company" THEN {None} ELSE Module,
         NEW list \in ListsOver(Key), NEW vis \in Visibility
  PROVE  Draft(Genesis(type, k, c, others, by, KeysBody(m, list), vis))
PROOF
  <1> DEFINE n == Len(records) + 1
             extra == [module |-> m, keys |-> list]
             none == << >>
             body == [status |-> None, roles |-> none, followed |-> 0, extra |-> extra]
             env == Genesis(type, k, c, others, by, KeysBody(m, list), vis)
  <1>1. n \in Nat /\ n \in 1..n
    BY DEF TypeOK, Table
  <1>2. Info[type].roles = {} /\ ~Info[type].stateful /\ type \in Type
    BY DEF Info, Company_, Module_, Plain, Type
  <1>3. none \in RolesIn(type)
    BY <1>2 DEF RolesIn
  <1>4. None \in StatusOf(type)
    BY <1>2 DEF StatusOf
  <1>5. extra \in ExtraOf(type)
    BY DEF ExtraOf, IdentityExtra
  <1>6. env = [id |-> n, root |-> n, type |-> type, key |-> k, issuer |-> c, module |-> by,
               subject |-> c, counterparties |-> others, visibility |-> vis, supersedes |-> None,
               body |-> body, is_head |-> TRUE]
    BY DEF Genesis, KeysBody
  <1> HIDE DEF env, extra, none
  <1>7. Shaped(env)
    BY <1>6 DEF Shaped
  <1>8. env.body = body /\ env.type = type
    BY <1>6
  <1>9. env \in Envelope
    BY <1>1, <1>2, <1>3, <1>4, <1>5, <1>6, <1>7, <1>8, EnvelopeOf
  <1>10. Draft(env)
    BY <1>1, <1>6, <1>9 DEF Draft, Stored
  <1> QED
    BY <1>10 DEF env

\* The three ways a record comes into the table: POST /companies, POST /modules and POST /records.
CompanyCreated(env) ==
  \E c \in Company, k \in Key, list \in ListsOver(Key), vis \in limit.visibility :
    CreateCompany(c, k, list, vis) /\ env = Genesis("company", k, c, {}, None, KeysBody(None, list), vis)

ModuleCreated(env) ==
  \E m \in Module, caller \in Key, k \in Key, others \in SUBSET Company, list \in ListsOver(Key), vis \in limit.visibility :
    /\ keys[caller] # None /\ CreateModule(m, caller, k, others, list, vis)
    /\ env = Genesis("module", k, Principal(caller).id, others, IF k = caller THEN None ELSE m, KeysBody(m, list), vis)

Write(env) ==
  /\ Draft(env) /\ Insert(env)
  /\ CompanyCreated(env) \/ ModuleCreated(env) \/ WriteRecord(env)

\* A step changes no table, or it inserts one record.
LEMMA Steps ==
  ASSUME TypeOK, [Next]_vars
  PROVE  limit' = limit /\ (UNCHANGED tables \/ \E env : Write(env))
PROOF
  <1>0. /\ KeyLists \subseteq ListsOver(Key) /\ limit.newcomers \subseteq Company
        /\ limit.visibility \subseteq Visibility /\ limit.parties \subseteq Company
    BY ListsMonotone DEF TypeOK, Bounded, Bounds, KeyLists
  <1>1. ASSUME NEW c \in limit.newcomers, NEW k \in Key, NEW list \in KeyLists, NEW vis \in limit.visibility,
               CreateCompany(c, k, list, vis)
        PROVE  limit' = limit /\ \E env : Write(env)
    <2> DEFINE env == Genesis("company", k, c, {}, None, KeysBody(None, list), vis)
    <2>1. Draft(env)
      BY <1>0, IdentityDraft
    <2>2. Insert(env) /\ limit' = limit
      BY <1>1 DEF CreateCompany
    <2>3. CompanyCreated(env)
      BY <1>0, <1>1 DEF CompanyCreated
    <2> QED
      BY <2>1, <2>2, <2>3 DEF Write
  <1>2. ASSUME NEW m \in Module, NEW caller \in Key, NEW k \in Key, NEW others \in SUBSET limit.parties, NEW list \in KeyLists, NEW vis \in limit.visibility,
               keys[caller] # None, CreateModule(m, caller, k, others, list, vis)
        PROVE  limit' = limit /\ \E env : Write(env)
    <2> DEFINE by == IF k = caller THEN None ELSE m
               env == Genesis("module", k, Principal(caller).id, others, by, KeysBody(m, list), vis)
    <2>1. Principal(caller).id \in Company
      BY <1>2 DEF CreateModule, Principal, TypeOK, Tables, StoredKey, KeyOf
    <2>2. Draft(env)
      BY <1>0, <2>1, IdentityDraft
    <2>3. Insert(env) /\ limit' = limit
      BY <1>2 DEF CreateModule
    <2>4. ModuleCreated(env)
      BY <1>0, <1>2 DEF ModuleCreated
    <2> QED
      BY <2>2, <2>3, <2>4 DEF Write
  <1>3. ASSUME NEW env, Draft(env), WriteRecord(env)
        PROVE  limit' = limit /\ Write(env)
    BY <1>3, AcceptedWrite DEF Write, WriteRecord
  <1>4. ASSUME NEW type \in limit.types, First(type)
        PROVE  limit' = limit /\ \E env : Write(env)
    BY <1>3, <1>4, FirstDraft
  <1>5. ASSUME NEW r \in Records, Supersede(r)
        PROVE  limit' = limit /\ \E env : Write(env)
    BY <1>3, <1>5, NextDraft
  <1>6. CASE Poll \/ Tick \/ UNCHANGED vars
    BY <1>6 DEF Poll, Tick, vars
  <1> QED
    BY <1>1, <1>2, <1>4, <1>5, <1>6 DEF Next, Register

-----------------------------------------------------------------------------
(* Keys and identities *)

\* What a record of an identity does to the rows: the identity's newest record is
\* this one, and its keys are synchronized with it.  Every other record leaves
\* identities and keys alone.
Registers(env) ==
  LET owner == IF env.type = "company" THEN env.subject ELSE env.body.extra.module
      list == env.body.extra.keys
  IN  /\ owner \in IF env.type = "company" THEN Company ELSE Module
      /\ list \in ListsOver(Key) /\ HasRoot(list) /\ KeysFree(env.type, owner, list)
      /\ keys' = SyncKeys(env.type, owner, list)
      /\ IF env.type = "company" THEN companies' = [companies EXCEPT ![owner] = env.id] /\ modules' = modules
         ELSE /\ companies' = companies
              /\ \E publisher \in Company :
                   modules' = [modules EXCEPT ![owner] = [publisher |-> publisher, head |-> env.id]]
      /\ grants' = grants

\* What each write does to the rows (createCompany, createModule, runHooks).
LEMMA WriteRows ==
  ASSUME TypeOK, NEW env, Write(env)
  PROVE  IF env.type \in {"company", "module"} THEN Registers(env)
         ELSE /\ companies' = companies /\ modules' = modules /\ keys' = keys
              /\ WriteRecord(env)
PROOF
  <1>1. ASSUME NEW c \in Company, NEW k \in Key, NEW list \in ListsOver(Key), NEW vis \in limit.visibility,
               CreateCompany(c, k, list, vis), env = Genesis("company", k, c, {}, None, KeysBody(None, list), vis)
        PROVE  env.type = "company" /\ Registers(env)
    <2>1. env.type = "company" /\ env.subject = c /\ env.body.extra.keys = list /\ env.id = Len(records) + 1
      BY <1>1 DEF Genesis, KeysBody
    <2>2. HasRoot(list) /\ KeysFree("company", c, list)
      BY <1>1 DEF CreateCompany, HasRoot, KeysFree
    <2> QED
      BY <1>1, <2>1, <2>2 DEF Registers, CreateCompany
  <1>2. ASSUME NEW m \in Module, NEW caller \in Key, NEW k \in Key, NEW others \in SUBSET Company, NEW list \in ListsOver(Key), NEW vis \in limit.visibility,
               keys[caller] # None, CreateModule(m, caller, k, others, list, vis),
               env = Genesis("module", k, Principal(caller).id, others, IF k = caller THEN None ELSE m, KeysBody(m, list), vis)
        PROVE  env.type = "module" /\ Registers(env)
    <2>1. env.type = "module" /\ env.body.extra.module = m /\ env.body.extra.keys = list /\ env.id = Len(records) + 1
      BY <1>2 DEF Genesis, KeysBody
    <2>2. HasRoot(list) /\ KeysFree("module", m, list)
      BY <1>2 DEF CreateModule, KeysFree
    <2>3. Principal(caller).id \in Company
      BY <1>2 DEF CreateModule, Principal, TypeOK, Tables, StoredKey, KeyOf
    <2>4. /\ keys' = SyncKeys("module", m, list) /\ companies' = companies /\ grants' = grants
          /\ modules' = [modules EXCEPT ![m] = [publisher |-> Principal(caller).id, head |-> Len(records) + 1]]
      BY <1>2 DEF CreateModule
    <2> QED
      BY <2>1, <2>2, <2>3, <2>4 DEF Registers
  <1>3. ASSUME WriteRecord(env), env.type \in {"company", "module"} PROVE Registers(env)
    <2>1. /\ env \in Envelope /\ env.id = Len(records) + 1
          /\ Authorized(env) /\ Acceptable(env)
      BY <1>3, AcceptedWrite DEF Write, Draft, Stored
    <2>2. /\ env.supersedes \in Heads /\ Kin(env, records[env.supersedes]) /\ env.supersedes \in Records
      BY <1>3, NoneAssumption DEF Write, Draft, WriteRecord, NoneAssumption, Heads
    <2>3. env.body.extra \in ExtraOf(env.type) /\ env.subject \in Company
      BY <2>1 DEF Envelope
    <2>4. HasRoot(env.body.extra.keys) /\ HooksAllow(env, Target(env))
      BY <1>3, <2>1 DEF Acceptable
    <2>5. CASE env.type = "company"
      <3>1. env.body.extra.keys \in ListsOver(Key)
        BY <2>3, <2>5 DEF ExtraOf, IdentityExtra
      <3>2. KeysFree("company", env.subject, env.body.extra.keys)
        BY <2>4, <2>5 DEF HooksAllow
      <3>3. /\ keys' = SyncKeys("company", env.subject, env.body.extra.keys) /\ modules' = modules /\ grants' = grants
            /\ companies' = [companies EXCEPT ![env.subject] = env.id]
        BY <1>3, <2>5 DEF WriteRecord
      <3> QED
        BY <2>3, <2>4, <2>5, <3>1, <3>2, <3>3 DEF Registers
    <2>6. CASE env.type = "module"
      <3> DEFINE m == env.body.extra.module
      <3>1. env.body.extra.keys \in ListsOver(Key) /\ m \in Module
        BY <2>3, <2>6 DEF ExtraOf, IdentityExtra
      <3>2. KeysFree("module", m, env.body.extra.keys)
        BY <2>4, <2>6 DEF HooksAllow
      <3>3. /\ keys' = SyncKeys("module", m, env.body.extra.keys) /\ companies' = companies /\ grants' = grants
            /\ modules' = [modules EXCEPT ![m].head = env.id]
        BY <1>3, <2>6 DEF WriteRecord
      <3>4. records[env.supersedes].type = "module" /\ records[env.supersedes].body.extra.module = m
        BY <2>2, <2>6 DEF Kin
      <3>5. modules[m] # None
        BY <2>2, <3>4 DEF TypeOK, Tables
      <3>6. modules[m] \in StoredModule
        BY <3>1, <3>5 DEF TypeOK, Tables
      <3>7. [modules[m] EXCEPT !.head = env.id] = [publisher |-> modules[m].publisher, head |-> env.id]
            /\ modules[m].publisher \in Company
        BY <3>6 DEF StoredModule
      <3>8. modules' = [modules EXCEPT ![m] = [publisher |-> modules[m].publisher, head |-> env.id]]
        BY <3>1, <3>3, <3>7 DEF TypeOK, Tables
      <3> QED
        BY <2>4, <2>6, <3>1, <3>2, <3>3, <3>7, <3>8 DEF Registers
    <2> QED
      BY <1>3, <2>5, <2>6
  <1>4. ASSUME WriteRecord(env), env.type \notin {"company", "module"}
        PROVE  companies' = companies /\ modules' = modules /\ keys' = keys
    BY <1>4 DEF WriteRecord
  <1> QED
    BY <1>1, <1>2, <1>3, <1>4 DEF Write, CompanyCreated, ModuleCreated

\* syncKeys writes keys, and only keys of the list or of their owner.
LEMMA SyncTyped ==
  ASSUME keys \in [Key -> StoredKey \cup {None}], NEW kind \in {"company", "module"},
         NEW owner, owner \in IF kind = "company" THEN Company ELSE Module, NEW list \in ListsOver(Key)
  PROVE  SyncKeys(kind, owner, list) \in [Key -> StoredKey \cup {None}]
PROOF
  <1>1. \A k \in DOMAIN list : list[k] \in KeyEntry
    BY DEF ListsOver
  <1>2. ASSUME NEW k \in Key
        PROVE SyncKeys(kind, owner, list)[k] \in StoredKey \cup {None}
    <2>1. CASE k \in DOMAIN list
      <3>1. SyncKeys(kind, owner, list)[k] = [kind |-> kind, owner |-> owner, role |-> list[k].role, status |-> list[k].status]
        BY <2>1 DEF SyncKeys
      <3>2. list[k].role \in {"root", "delegate"} /\ list[k].status \in {"active", "revoked"}
        BY <1>1, <2>1 DEF KeyEntry
      <3> QED
        BY <3>1, <3>2 DEF StoredKey, KeyOf
    <2>2. CASE k \notin DOMAIN list /\ keys[k] # None /\ keys[k].kind = kind /\ keys[k].owner = owner
      <3>1. SyncKeys(kind, owner, list)[k] = Dropped(keys[k]) /\ keys[k] \in StoredKey
        BY <2>2 DEF SyncKeys
      <3> QED
        BY <3>1 DEF StoredKey, KeyOf, Dropped
    <2>3. CASE k \notin DOMAIN list /\ ~(keys[k] # None /\ keys[k].kind = kind /\ keys[k].owner = owner)
      BY <2>3 DEF SyncKeys
    <2> QED
      BY <2>1, <2>2, <2>3
  <1> QED
    BY <1>2 DEF SyncKeys

\* The rows go on naming records of their own, and every identity keeps its row.
LEMMA TablesNext ==
  ASSUME TypeOK, NEW env, Write(env)
  PROVE  Tables'
PROOF
  <1> DEFINE n == Len(records) + 1
             owner == IF env.type = "company" THEN env.subject ELSE env.body.extra.module
  <1>1. /\ Records' = Records \cup {n} /\ n \notin Records
        /\ \A r \in Records : SameRecord(records'[r], records[r])
        /\ SameRecord(records'[n], env)
    BY InsertFacts DEF Write, TypeOK
  <1>2. /\ \A r \in Records : records'[r].type = records[r].type /\ records'[r].subject = records[r].subject
                              /\ records'[r].body = records[r].body
        /\ records'[n].type = env.type /\ records'[n].subject = env.subject /\ records'[n].body = env.body
    BY <1>1 DEF SameRecord
  <1>3. /\ env \in Envelope /\ env.id = n /\ n \in Nat /\ n # None /\ env.subject \in Company
        /\ env.body.extra \in ExtraOf(env.type)
    BY NoneAssumption DEF NoneAssumption, Write, Draft, Stored, Envelope, TypeOK, Table
  <1>4. Tables
    BY DEF TypeOK
  <1>5. CASE env.type = "company"
    <2>1. /\ keys' = SyncKeys("company", env.subject, env.body.extra.keys) /\ modules' = modules
          /\ companies' = [companies EXCEPT ![env.subject] = n] /\ env.body.extra.keys \in ListsOver(Key)
      BY <1>3, <1>5, WriteRows DEF Registers
    <2>2. keys' \in [Key -> StoredKey \cup {None}]
      BY <1>3, <1>4, <2>1, SyncTyped DEF Tables
    <2>3. companies' \in [Company -> Nat \cup {None}]
      BY <1>3, <1>4, <2>1 DEF Tables
    <2>4. \A c \in Company : companies'[c] = IF c = env.subject THEN n ELSE companies[c]
      BY <1>4, <2>1 DEF Tables
    <2>5. \A r \in Records : records[r].type = "company" => records[r].subject \in Company
      BY DEF TypeOK, Table, Stored, Envelope
    <2> HIDE DEF n
    <2>6. \A c \in Company : companies'[c] # None => companies'[c] \in Records' /\ records'[companies'[c]].type = "company"
      BY <1>1, <1>2, <1>4, <1>5, <2>4 DEF Tables
    <2>7. \A m \in Module : modules'[m] # None => modules'[m].head \in Records' /\ records'[modules'[m].head].type = "module"
      BY <1>1, <1>2, <1>4, <2>1 DEF Tables
    <2>8. \A r \in Records' : records'[r].type = "company" => companies'[records'[r].subject] # None
      BY <1>1, <1>2, <1>3, <1>4, <2>4, <2>5 DEF Tables
    <2>9. \A r \in Records' : records'[r].type = "module" => modules'[records'[r].body.extra.module] # None
      BY <1>1, <1>2, <1>4, <1>5, <2>1 DEF Tables
    <2> QED
      BY <1>4, <2>1, <2>2, <2>3, <2>6, <2>7, <2>8, <2>9 DEF Tables
  <1>6. CASE env.type = "module"
    <2> DEFINE m == env.body.extra.module
    <2>1. /\ keys' = SyncKeys("module", m, env.body.extra.keys) /\ companies' = companies
          /\ m \in Module /\ env.body.extra.keys \in ListsOver(Key)
          /\ \E publisher \in Company : modules' = [modules EXCEPT ![m] = [publisher |-> publisher, head |-> n]]
      BY <1>3, <1>6, WriteRows DEF Registers
    <2>2. PICK publisher \in Company : modules' = [modules EXCEPT ![m] = [publisher |-> publisher, head |-> n]]
      BY <2>1
    <2> DEFINE row == [publisher |-> publisher, head |-> n]
    <2>3. row \in StoredModule /\ row.head = n
      BY <1>3 DEF StoredModule
    <2>4. row # None
      BY <2>3, NoneAssumption DEF NoneAssumption
    <2>5. keys' \in [Key -> StoredKey \cup {None}]
      BY <1>4, <2>1, SyncTyped DEF Tables
    <2>6. modules' = [modules EXCEPT ![m] = row]
      BY <2>2
    <2> HIDE DEF n, m, row
    <2>7. modules' \in [Module -> StoredModule \cup {None}]
      BY <1>4, <2>3, <2>6 DEF Tables
    <2>8. \A x \in Module : modules'[x] = IF x = m THEN row ELSE modules[x]
      BY <1>4, <2>6 DEF Tables
    <2>9. \A r \in Records : records[r].type = "module" => records[r].body.extra.module \in Module
      BY DEF TypeOK, Table, Stored, Envelope, ExtraOf, IdentityExtra
    <2>10. \A c \in Company : companies'[c] # None => companies'[c] \in Records' /\ records'[companies'[c]].type = "company"
      BY <1>1, <1>2, <1>4, <2>1 DEF Tables
    <2>11. \A x \in Module : modules'[x] # None => modules'[x].head \in Records' /\ records'[modules'[x].head].type = "module"
      BY <1>1, <1>2, <1>4, <1>6, <2>3, <2>8 DEF Tables
    <2>12. \A r \in Records' : records'[r].type = "company" => companies'[records'[r].subject] # None
      BY <1>1, <1>2, <1>4, <1>6, <2>1 DEF Tables
    <2>13. \A r \in Records' : records'[r].type = "module" => modules'[records'[r].body.extra.module] # None
      <3>1. env.body.extra.module = m
        BY DEF m
      <3> QED
        BY <1>1, <1>2, <1>4, <2>1, <2>4, <2>8, <2>9, <3>1 DEF Tables
    <2> QED
      BY <1>4, <2>1, <2>5, <2>7, <2>10, <2>11, <2>12, <2>13 DEF Tables
  <1>7. CASE env.type \notin {"company", "module"}
    <2>1. companies' = companies /\ modules' = modules /\ keys' = keys
      BY <1>7, WriteRows
    <2> HIDE DEF n
    <2> QED
      BY <1>1, <1>2, <1>4, <1>7, <2>1 DEF Tables
  <1> QED
    BY <1>5, <1>6, <1>7

\* A store of registered identities has the shape of the tables.
LEMMA TypeInit == Init => TypeOK
PROOF
  <1> SUFFICES ASSUME NEW seed \in Seeds, companies = seed.companies, modules = seed.modules, keys = seed.keys,
                      records = seed.records, limit = seed.limit
               PROVE  TypeOK
    BY DEF Init
  <1>1. Identities(seed) /\ Bounds(seed.limit)
    BY SeedsAssumption DEF SeedsAssumption
  <1> DEFINE Known == {e \in Envelope : e.type \in {"company", "module"} /\ e.is_head /\ e.module = None /\ e.supersedes = None}
  <1>2. records \in Seq(Known)
    BY <1>1 DEF Identities
  <1> HIDE DEF Known
  <1>3. Len(records) \in Nat /\ DOMAIN records = Records /\ records = [r \in Records |-> records[r]]
    BY <1>2, LenProperties, SeqDef DEF Records
  <1>4. \A r \in Records : records[r] \in Known
    BY <1>2, <1>3, SeqDef DEF Records
  <1>5. \A r \in Records : r \in Nat /\ r \in 1..r
    BY <1>3 DEF Records
  <1>6. \A r \in Records : records[r].id = r /\ records[r].root = r
    BY <1>1, <1>3 DEF Identities
  <1>7. \A r \in Records : records[r] \in Envelope /\ records[r].is_head /\ records[r].supersedes = None
    BY <1>4 DEF Known
  <1>8. Table
    BY <1>3, <1>5, <1>6, <1>7 DEF Table, Stored
  <1>9. OneHead
    BY <1>6, <1>7 DEF OneHead, Heads
  <1>10. Tables
    BY <1>1, <1>3 DEF Identities, Tables
  <1> QED
    BY <1>1, <1>8, <1>9, <1>10 DEF TypeOK, Bounded

\* Every step keeps the shape of the tables.
LEMMA TypeNext ==
  ASSUME TypeOK, [Next]_vars
  PROVE  TypeOK'
PROOF
  <1>1. limit' = limit /\ (UNCHANGED tables \/ \E env : Write(env))
    BY Steps
  <1>2. Bounded'
    BY <1>1 DEF TypeOK, Bounded
  <1>3. CASE UNCHANGED tables
    BY <1>2, <1>3 DEF tables, TypeOK, Table, OneHead, Tables, Records, Heads
  <1>4. ASSUME NEW env, Write(env) PROVE TypeOK'
    <2>1. Draft(env) /\ Insert(env)
      BY <1>4 DEF Write
    <2> QED
      BY <1>2, <1>4, <2>1, TableInsert, OneHeadInsert, TablesNext DEF TypeOK
  <1> QED
    BY <1>1, <1>3, <1>4

\* The store keeps every record where its id says, in chains of one subject and
\* type that begin with their root and end with their one newest version, and an
\* identity that has a record has a row that names a record of an identity.
THEOREM TypeCorrect == Spec => []TypeOK
PROOF
  <1>1. Init => TypeOK
    BY TypeInit
  <1>2. TypeOK /\ [Next]_vars => TypeOK'
    BY TypeNext
  <1> QED
    BY <1>1, <1>2, PTL DEF Spec

\* The keys that act for an identity are the active keys of a list, in their roles.
Acts(kind, id, list) ==
  /\ ActiveKeys(kind, id) = {k \in DOMAIN list : list[k].status = "active"}
  /\ \A k \in ActiveKeys(kind, id) : keys[k].role = list[k].role
  /\ \E k \in ActiveKeys(kind, id) : keys[k].role = "root"

\* After syncKeys the keys of the owner are those of its list.
LEMMA SyncActs ==
  ASSUME keys \in [Key -> StoredKey \cup {None}], NEW kind \in {"company", "module"},
         NEW owner, owner \in IF kind = "company" THEN Company ELSE Module, NEW list \in ListsOver(Key),
         HasRoot(list), keys' = SyncKeys(kind, owner, list)
  PROVE  Acts(kind, owner, list)'
PROOF
  <1>1. DOMAIN list \subseteq Key /\ \A k \in DOMAIN list : list[k] \in KeyEntry
    BY DEF ListsOver
  <1>2. keys' \in [Key -> StoredKey \cup {None}]
    BY SyncTyped
  <1>3. ASSUME NEW k \in DOMAIN list
        PROVE  /\ keys'[k] # None /\ keys'[k].kind = kind /\ keys'[k].owner = owner
               /\ keys'[k].status = list[k].status /\ keys'[k].role = list[k].role
    <2>1. keys'[k] = [kind |-> kind, owner |-> owner, role |-> list[k].role, status |-> list[k].status]
      BY <1>1 DEF SyncKeys
    <2>2. [kind |-> kind, owner |-> owner, role |-> list[k].role, status |-> list[k].status] \in StoredKey
      BY <1>1 DEF StoredKey, KeyOf, KeyEntry
    <2> QED
      BY <2>1, <2>2, NoneAssumption DEF NoneAssumption
  <1>4. ASSUME NEW k \in Key \ DOMAIN list, keys'[k] # None, keys'[k].kind = kind, keys'[k].owner = owner
        PROVE  keys'[k].status # "active"
    <2>1. CASE keys[k] # None /\ keys[k].kind = kind /\ keys[k].owner = owner
      BY <1>4, <2>1 DEF SyncKeys, Dropped, StoredKey, KeyOf
    <2>2. CASE ~(keys[k] # None /\ keys[k].kind = kind /\ keys[k].owner = owner)
      BY <1>4, <2>2 DEF SyncKeys
    <2> QED
      BY <2>1, <2>2
  <1>5. \A k : k \in ActiveKeys(kind, owner)' <=> k \in DOMAIN list /\ list[k].status = "active"
    BY <1>1, <1>3, <1>4 DEF ActiveKeys
  <1>6. PICK k \in DOMAIN list : list[k] = [role |-> "root", status |-> "active"]
    BY DEF HasRoot
  <1>7. k \in ActiveKeys(kind, owner)' /\ keys'[k].role = "root"
    BY <1>3, <1>5, <1>6
  <1> QED
    BY <1>3, <1>5, <1>7 DEF Acts

\* No one else's keys are touched: a key in the list was the owner's or nobody's.
LEMMA SyncOthers ==
  ASSUME keys \in [Key -> StoredKey \cup {None}], NEW kind \in {"company", "module"},
         NEW owner, owner \in IF kind = "company" THEN Company ELSE Module, NEW list \in ListsOver(Key),
         KeysFree(kind, owner, list), keys' = SyncKeys(kind, owner, list),
         NEW kind2, NEW id, kind2 # kind \/ id # owner, NEW list2, Acts(kind2, id, list2)
  PROVE  Acts(kind2, id, list2)'
PROOF
  <1>1. DOMAIN list \subseteq Key /\ \A k \in DOMAIN list : list[k] \in KeyEntry
    BY DEF ListsOver
  <1> DEFINE Owned(row) == row # None /\ row.kind = kind2 /\ row.owner = id /\ row.status = "active"
  <1>2. ASSUME NEW k \in Key
        PROVE  /\ Owned(keys'[k]) <=> Owned(keys[k])
               /\ Owned(keys[k]) => keys'[k] = keys[k]
    <2>1. CASE k \in DOMAIN list
      <3>1. keys'[k].kind = kind /\ keys'[k].owner = owner
        BY <2>1 DEF SyncKeys
      <3>2. keys[k] = None \/ (keys[k].kind = kind /\ keys[k].owner = owner)
        BY <2>1 DEF KeysFree
      <3> QED
        BY <3>1, <3>2
    <2>2. CASE k \notin DOMAIN list /\ keys[k] # None /\ keys[k].kind = kind /\ keys[k].owner = owner
      <3>1. keys'[k] = Dropped(keys[k])
        BY <2>2 DEF SyncKeys
      <3>2. keys'[k].kind = kind /\ keys'[k].owner = owner
        BY <2>2, <3>1 DEF Dropped, StoredKey, KeyOf
      <3> QED
        BY <2>2, <3>2
    <2>3. CASE k \notin DOMAIN list /\ ~(keys[k] # None /\ keys[k].kind = kind /\ keys[k].owner = owner)
      BY <2>3 DEF SyncKeys
    <2> QED
      BY <2>1, <2>2, <2>3
  <1>3. /\ ActiveKeys(kind2, id) = {k \in Key : Owned(keys[k])}
        /\ ActiveKeys(kind2, id)' = {k \in Key : Owned(keys'[k])}
    BY DEF ActiveKeys
  <1> HIDE DEF Owned
  <1>4. ActiveKeys(kind2, id)' = ActiveKeys(kind2, id)
        /\ \A k \in ActiveKeys(kind2, id) : keys'[k] = keys[k]
    BY <1>2, <1>3
  <1> QED
    BY <1>4 DEF Acts

\* What KeysMatchHeads says of companies and of modules.
LEMMA KeysByKind ==
  KeysMatchHeads <=>
    /\ \A c \in Company : companies[c] # None => Acts("company", c, records[companies[c]].body.extra.keys)
    /\ \A m \in Module : modules[m] # None => Acts("module", m, records[modules[m].head].body.extra.keys)
PROOF
  BY ZenonT(60) DEF KeysMatchHeads, Acts, HeadOf

\* The keys a behaviour starts with are those its identities list.
LEMMA KeysInit == Init => KeysMatchHeads
PROOF
  <1> SUFFICES ASSUME NEW seed \in Seeds, companies = seed.companies, modules = seed.modules, keys = seed.keys,
                      records = seed.records
               PROVE  KeysMatchHeads
    BY DEF Init
  <1>1. Identities(seed)
    BY SeedsAssumption DEF SeedsAssumption
  <1>2. ASSUME NEW kind, NEW id, NEW list, Lists(seed, kind, id, list) PROVE Acts(kind, id, list)
    BY <1>2 DEF Lists, Acts, ActiveKeys
  <1>3. \A c \in Company : companies[c] # None => Acts("company", c, records[companies[c]].body.extra.keys)
    BY <1>1, <1>2 DEF Identities
  <1>4. \A m \in Module : modules[m] # None => Acts("module", m, records[modules[m].head].body.extra.keys)
    BY <1>1, <1>2 DEF Identities
  <1> QED
    BY <1>3, <1>4, KeysByKind

\* A record of an identity synchronizes its own keys; no other record touches a key.
LEMMA KeysNext ==
  ASSUME TypeOK, [Next]_vars, KeysMatchHeads
  PROVE  KeysMatchHeads'
PROOF
  <1>1. UNCHANGED tables \/ \E env : Write(env)
    BY Steps
  <1>2. (/\ \A c \in Company : companies[c] # None => Acts("company", c, records[companies[c]].body.extra.keys)
         /\ \A m \in Module : modules[m] # None => Acts("module", m, records[modules[m].head].body.extra.keys))' =>
          KeysMatchHeads'
    BY KeysByKind, PTL
  <1>3. CASE UNCHANGED tables
    <2>1. companies' = companies /\ modules' = modules /\ keys' = keys /\ records' = records
      BY <1>3 DEF tables
    <2>2. \A kind, id, listed : Acts(kind, id, listed) => Acts(kind, id, listed)'
      BY <2>1 DEF Acts, ActiveKeys
    <2> QED
      BY <1>2, <2>1, <2>2, KeysByKind
  <1>4. ASSUME NEW env, Write(env) PROVE KeysMatchHeads'
    <2> DEFINE n == Len(records) + 1
    <2>1. /\ \A r \in Records : records'[r].body = records[r].body
          /\ records'[n].body = env.body /\ env.id = n /\ n \in Nat /\ n # None
      <3>1. /\ \A r \in Records : SameRecord(records'[r], records[r])
            /\ SameRecord(records'[n], env) /\ Table
        BY <1>4, InsertFacts DEF Write, TypeOK
      <3>2. env.id = n /\ n \in Nat
        BY <1>4, <3>1 DEF Write, Draft, Stored, Table
      <3> QED
        BY <3>1, <3>2, NoneAssumption DEF NoneAssumption, SameRecord
    <2>2. /\ \A c \in Company : companies[c] # None => companies[c] \in Records
          /\ \A m \in Module : modules[m] # None => modules[m].head \in Records
          /\ companies \in [Company -> Nat \cup {None}] /\ modules \in [Module -> StoredModule \cup {None}]
          /\ keys \in [Key -> StoredKey \cup {None}]
      BY DEF TypeOK, Tables
    <2>3. /\ \A c \in Company : companies[c] # None => Acts("company", c, records[companies[c]].body.extra.keys)
          /\ \A m \in Module : modules[m] # None => Acts("module", m, records[modules[m].head].body.extra.keys)
      BY KeysByKind
    <2>4. CASE env.type \notin {"company", "module"}
      <3>1. companies' = companies /\ modules' = modules /\ keys' = keys
        BY <1>4, <2>4, WriteRows
      <3>2. \A kind, id, listed : Acts(kind, id, listed) => Acts(kind, id, listed)'
        BY <3>1 DEF Acts, ActiveKeys
      <3>3. /\ \A c \in Company : companies[c] # None => Acts("company", c, records'[companies[c]].body.extra.keys)
            /\ \A m \in Module : modules[m] # None => Acts("module", m, records'[modules[m].head].body.extra.keys)
        BY <2>1, <2>2, <2>3
      <3> QED
        BY <1>2, <3>1, <3>2, <3>3
    <2>5. CASE env.type = "company"
      <3> DEFINE list == env.body.extra.keys
                 owner == env.subject
      <3>1. /\ owner \in Company /\ list \in ListsOver(Key) /\ HasRoot(list) /\ KeysFree("company", owner, list)
            /\ keys' = SyncKeys("company", owner, list) /\ modules' = modules
            /\ companies' = [companies EXCEPT ![owner] = n]
        BY <1>4, <2>1, <2>5, WriteRows DEF Registers
      <3> HIDE DEF n, owner
      <3>2. Acts("company", owner, list)'
        BY <2>2, <3>1, SyncActs
      <3>3. \A c \in Company : companies'[c] = IF c = owner THEN n ELSE companies[c]
        BY <2>2, <3>1
      <3>4. ASSUME NEW c \in Company, companies'[c] # None
            PROVE  Acts("company", c, records[companies[c]].body.extra.keys)'
        <4>1. CASE c = owner
          <5>1. records'[companies'[c]].body.extra.keys = list
            BY <2>1, <3>3, <4>1
          <5> HIDE DEF list
          <5> QED
            BY <3>2, <4>1, <5>1 DEF Acts
        <4>2. CASE c # owner
          <5>1. /\ companies'[c] = companies[c] /\ companies[c] \in Records
                /\ Acts("company", c, records[companies[c]].body.extra.keys)
            BY <2>2, <2>3, <3>3, <3>4, <4>2
          <5>2. records'[companies'[c]].body.extra.keys = records[companies[c]].body.extra.keys
            BY <2>1, <5>1
          <5>3. ASSUME NEW x, Acts("company", c, x) PROVE Acts("company", c, x)'
            BY <2>2, <3>1, <4>2, <5>3, SyncOthers
          <5> QED
            BY ZenonT(60), <5>1, <5>2, <5>3 DEF Acts
        <4> QED
          BY <4>1, <4>2
      <3>5. ASSUME NEW m \in Module, modules'[m] # None
            PROVE  Acts("module", m, records[modules[m].head].body.extra.keys)'
        <4>1. /\ modules'[m] = modules[m] /\ modules[m].head \in Records
              /\ Acts("module", m, records[modules[m].head].body.extra.keys)
          BY <2>2, <2>3, <3>1, <3>5
        <4>2. records'[modules'[m].head].body.extra.keys = records[modules[m].head].body.extra.keys
          BY <2>1, <4>1
        <4>3. ASSUME NEW x, Acts("module", m, x) PROVE Acts("module", m, x)'
          BY <2>2, <3>1, <4>3, SyncOthers
        <4> QED
          BY ZenonT(60), <4>1, <4>2, <4>3 DEF Acts
      <3> QED
        BY <1>2, <3>4, <3>5
    <2>6. CASE env.type = "module"
      <3> DEFINE list == env.body.extra.keys
                 owner == env.body.extra.module
      <3>1. /\ owner \in Module /\ list \in ListsOver(Key) /\ HasRoot(list) /\ KeysFree("module", owner, list)
            /\ keys' = SyncKeys("module", owner, list) /\ companies' = companies
            /\ \E publisher \in Company : modules' = [modules EXCEPT ![owner] = [publisher |-> publisher, head |-> n]]
        BY <1>4, <2>1, <2>6, WriteRows DEF Registers
      <3> HIDE DEF n, owner
      <3>2. Acts("module", owner, list)'
        BY <2>2, <3>1, SyncActs
      <3>3. \A m \in Module : IF m = owner THEN modules'[m].head = n ELSE modules'[m] = modules[m]
        BY <2>2, <3>1
      <3>4. ASSUME NEW m \in Module, modules'[m] # None
            PROVE  Acts("module", m, records[modules[m].head].body.extra.keys)'
        <4>1. CASE m = owner
          <5>1. records'[modules'[m].head].body.extra.keys = list
            BY <2>1, <3>3, <4>1
          <5> HIDE DEF list
          <5> QED
            BY <3>2, <4>1, <5>1 DEF Acts
        <4>2. CASE m # owner
          <5>1. /\ modules'[m] = modules[m] /\ modules[m].head \in Records
                /\ Acts("module", m, records[modules[m].head].body.extra.keys)
            BY <2>2, <2>3, <3>3, <3>4, <4>2
          <5>2. records'[modules'[m].head].body.extra.keys = records[modules[m].head].body.extra.keys
            BY <2>1, <5>1
          <5>3. ASSUME NEW x, Acts("module", m, x) PROVE Acts("module", m, x)'
            BY <2>2, <3>1, <4>2, <5>3, SyncOthers
          <5> QED
            BY ZenonT(60), <5>1, <5>2, <5>3 DEF Acts
        <4> QED
          BY <4>1, <4>2
      <3>5. ASSUME NEW c \in Company, companies'[c] # None
            PROVE  Acts("company", c, records[companies[c]].body.extra.keys)'
        <4>1. /\ companies'[c] = companies[c] /\ companies[c] \in Records
              /\ Acts("company", c, records[companies[c]].body.extra.keys)
          BY <2>2, <2>3, <3>1, <3>5
        <4>2. records'[companies'[c]].body.extra.keys = records[companies[c]].body.extra.keys
          BY <2>1, <4>1
        <4>3. ASSUME NEW x, Acts("company", c, x) PROVE Acts("company", c, x)'
          BY <2>2, <3>1, <4>3, SyncOthers
        <4> QED
          BY ZenonT(60), <4>1, <4>2, <4>3 DEF Acts
      <3> QED
        BY <1>2, <3>4, <3>5
    <2> QED
      BY <2>4, <2>5, <2>6
  <1> QED
    BY <1>1, <1>3, <1>4

-----------------------------------------------------------------------------
(* Grants *)

\* A chain of grants has a row, which says what the newest version says.
GrantRows ==
  /\ \A x : x \in DOMAIN grants <=> \E r \in Records : records[r].type = "grant" /\ records[r].root = x
  /\ \A h \in Heads : records[h].type = "grant" => grants[records[h].root] = GrantRow(records[h])

\* The newest version of each chain after an insertion.
LEMMA HeadsNext ==
  ASSUME TypeOK, NEW env, Write(env)
  PROVE  LET n == Len(records) + 1 IN
         /\ Records' = Records \cup {n} /\ n \notin Records /\ n \in Nat /\ env.id = n
         /\ \A r \in Records : SameRecord(records'[r], records[r])
         /\ SameRecord(records'[n], env)
         /\ \A h : h \in Heads' <=> (h = n \/ (h \in Heads /\ h # env.supersedes))
PROOF
  <1> DEFINE n == Len(records) + 1
  <1>1. /\ Records' = Records \cup {n} /\ n \notin Records
        /\ \A r \in Records : /\ SameRecord(records'[r], records[r])
                              /\ records'[r].is_head = (records[r].is_head /\ r # env.supersedes)
        /\ SameRecord(records'[n], env) /\ records'[n].is_head = TRUE
    BY InsertFacts DEF Write, TypeOK
  <1>2. n \in Nat /\ env.id = n
    BY DEF Write, Draft, Stored, TypeOK, Table
  <1>3. \A r \in Records : records[r].is_head \in BOOLEAN
    BY DEF TypeOK, Table, Stored, Envelope
  <1> HIDE DEF n
  <1>4. \A h : h \in Heads' <=> (h = n \/ (h \in Heads /\ h # env.supersedes))
    BY <1>1, <1>3 DEF Heads
  <1> QED
    BY <1>1, <1>2, <1>4 DEF n

\* A version of a grant writes the row of its chain; no other record touches a row.
LEMMA GrantsNext ==
  ASSUME TypeOK, [Next]_vars, GrantRows
  PROVE  GrantRows'
PROOF
  <1>1. UNCHANGED tables \/ \E env : Write(env)
    BY Steps
  <1>2. CASE UNCHANGED tables
    BY <1>2 DEF tables, GrantRows, Records, Heads, GrantRow
  <1>3. ASSUME NEW env, Write(env) PROVE GrantRows'
    <2> DEFINE n == Len(records) + 1
    <2>1. /\ Records' = Records \cup {n} /\ n \notin Records
          /\ \A r \in Records : SameRecord(records'[r], records[r])
          /\ SameRecord(records'[n], env)
          /\ \A h : h \in Heads' <=> (h = n \/ (h \in Heads /\ h # env.supersedes))
      BY <1>3, HeadsNext
    <2>2. OneHead'
      BY TypeNext DEF TypeOK
    <2>3. \A h \in Heads : h \in Records
      BY DEF Heads
    <2> HIDE DEF n
    <2>4. /\ \A r \in Records : /\ records'[r].type = records[r].type /\ records'[r].root = records[r].root
                                /\ GrantRow(records'[r]) = GrantRow(records[r])
          /\ records'[n].type = env.type /\ records'[n].root = env.root
          /\ GrantRow(records'[n]) = GrantRow(env)
      BY <2>1 DEF SameRecord, GrantRow
    <2>5. \A h \in Heads' : records'[h].root = env.root => h = n
      BY <2>1, <2>2, <2>4 DEF OneHead
    <2>6. CASE env.type # "grant"
      <3>1. grants' = grants
        BY <1>3, <2>6, WriteRows DEF Registers, WriteRecord
      <3>2. \A x : x \in DOMAIN grants' <=> \E r \in Records' : records'[r].type = "grant" /\ records'[r].root = x
        BY <2>1, <2>4, <2>6, <3>1 DEF GrantRows
      <3>3. ASSUME NEW h \in Heads', records'[h].type = "grant"
            PROVE  grants'[records'[h].root] = GrantRow(records'[h])
        <4>1. h \in Heads /\ h \in Records
          BY <2>1, <2>3, <2>4, <2>6, <3>3
        <4> QED
          BY <2>4, <3>1, <3>3, <4>1 DEF GrantRows
      <3> QED
        BY <3>2, <3>3 DEF GrantRows, GrantRow
    <2>7. CASE env.type = "grant"
      <3>1. grants' = [x \in DOMAIN grants \cup {env.root} |-> IF x = env.root THEN GrantRow(env) ELSE grants[x]]
        BY <1>3, <2>7, WriteRows DEF WriteRecord
      <3>2. /\ \A x : x \in DOMAIN grants' <=> x \in DOMAIN grants \/ x = env.root
            /\ grants'[env.root] = GrantRow(env)
            /\ \A x \in DOMAIN grants : x # env.root => grants'[x] = grants[x]
        BY <3>1
      <3>3. \A x : x \in DOMAIN grants' <=> \E r \in Records' : records'[r].type = "grant" /\ records'[r].root = x
        BY <2>1, <2>4, <2>7, <3>2 DEF GrantRows
      <3>4. ASSUME NEW h \in Heads', records'[h].type = "grant"
            PROVE  grants'[records'[h].root] = GrantRow(records'[h])
        <4>1. CASE h = n
          BY <2>4, <3>2, <4>1
        <4>2. CASE h # n
          <5>1. h \in Heads /\ h \in Records /\ records'[h].root # env.root
            BY <2>1, <2>3, <2>5, <4>2
          <5>2. records[h].root \in DOMAIN grants
            BY <2>4, <3>4, <5>1 DEF GrantRows
          <5> QED
            BY <2>4, <3>2, <3>4, <5>1, <5>2 DEF GrantRows
        <4> QED
          BY <4>1, <4>2
      <3> QED
        BY <3>3, <3>4 DEF GrantRows, GrantRow
    <2> QED
      BY <2>6, <2>7
  <1> QED
    BY <1>1, <1>2, <1>3

\* No grant has been issued when a behaviour starts.
LEMMA GrantsInit == Init => GrantRows
PROOF
  <1> SUFFICES ASSUME NEW seed \in Seeds, records = seed.records, grants = << >>
               PROVE  GrantRows
    BY DEF Init
  <1>1. Identities(seed)
    BY SeedsAssumption DEF SeedsAssumption
  <1> DEFINE Known == {e \in Envelope : e.type \in {"company", "module"} /\ e.is_head /\ e.module = None /\ e.supersedes = None}
  <1>2. records \in Seq(Known)
    BY <1>1 DEF Identities
  <1> HIDE DEF Known
  <1>3. \A r \in Records : records[r] \in Known
    BY <1>2, LenProperties, SeqDef DEF Records
  <1>4. \A r \in Records : records[r].type # "grant"
    BY <1>3 DEF Known
  <1> QED
    BY <1>4 DEF GrantRows, Heads

\* One newest version and a row for each chain: the table is what the chains say.
LEMMA RowsAreHeads ==
  ASSUME TypeOK, GrantRows
  PROVE  GrantsMatchHeads
PROOF
  <1> SUFFICES ASSUME NEW c \in Company
               PROVE  GrantsIssued(c) =
                        {[root |-> records[h].root,
                          grant |-> [company |-> c, module |-> records[h].body.extra.module,
                                     scopes |-> records[h].body.extra.scopes,
                                     status |-> records[h].body.status, expires |-> records[h].body.extra.expires]] :
                           h \in {x \in Heads : records[x].type = "grant" /\ records[x].subject = c}}
    BY DEF GrantsMatchHeads
  <1> DEFINE Issued(h) == [root |-> records[h].root, grant |-> GrantRow(records[h])]
             Mine == {x \in Heads : records[x].type = "grant" /\ records[x].subject = c}
  <1>1. ASSUME NEW x \in DOMAIN grants
        PROVE  \E h \in Heads : records[h].type = "grant" /\ records[h].root = x /\ grants[x] = GrantRow(records[h])
    <2>1. PICK r \in Records : records[r].type = "grant" /\ records[r].root = x
      BY <1>1 DEF GrantRows
    <2>2. PICK h \in Heads : records[h].root = x
      BY <2>1 DEF TypeOK, OneHead
    <2>3. records[h].type = "grant"
      BY <2>1, <2>2 DEF TypeOK, OneHead, Heads
    <2> QED
      BY <2>2, <2>3 DEF GrantRows
  <1>2. \A h \in Heads : records[h].type = "grant" =>
          records[h].root \in DOMAIN grants /\ grants[records[h].root] = GrantRow(records[h])
    BY DEF GrantRows, Heads
  <1>3. \A h : GrantRow(records[h]).company = records[h].subject
    BY DEF GrantRow
  <1>4. GrantsIssued(c) = {Issued(h) : h \in Mine}
    <2>1. GrantsIssued(c) \subseteq {Issued(h) : h \in Mine}
      <3> SUFFICES ASSUME NEW y \in GrantsIssued(c) PROVE y \in {Issued(h) : h \in Mine}
        OBVIOUS
      <3>0. PICK x \in DOMAIN grants : grants[x].company = c /\ y = [root |-> x, grant |-> grants[x]]
        BY DEF GrantsIssued
      <3>1. PICK h \in Heads : records[h].type = "grant" /\ records[h].root = x /\ grants[x] = GrantRow(records[h])
        BY <1>1
      <3> QED
        BY <1>3, <3>0, <3>1
    <2>2. {Issued(h) : h \in Mine} \subseteq GrantsIssued(c)
      BY <1>2, <1>3 DEF GrantsIssued
    <2> QED
      BY <2>1, <2>2
  <1>5. \A h \in Mine : Issued(h) =
          [root |-> records[h].root,
           grant |-> [company |-> c, module |-> records[h].body.extra.module, scopes |-> records[h].body.extra.scopes,
                      status |-> records[h].body.status, expires |-> records[h].body.extra.expires]]
    BY DEF GrantRow
  <1> HIDE DEF Issued, Mine
  <1>6. {Issued(h) : h \in Mine} =
          {[root |-> records[h].root,
            grant |-> [company |-> c, module |-> records[h].body.extra.module, scopes |-> records[h].body.extra.scopes,
                       status |-> records[h].body.status, expires |-> records[h].body.extra.expires]] : h \in Mine}
    BY <1>5
  <1> QED
    BY <1>4, <1>6 DEF Mine

\* The keys and the grants that authorize are those of the newest versions: no
\* row is older than its chain, and none outlives it (syncKeys and runHooks).
THEOREM SafeRows == Spec => []RowsMatchHeads
PROOF
  <1> DEFINE Inv == TypeOK /\ KeysMatchHeads /\ GrantRows
  <1>1. Init => Inv
    BY TypeInit, KeysInit, GrantsInit
  <1>2. Inv /\ [Next]_vars => Inv'
    BY TypeNext, KeysNext, GrantsNext
  <1>3. Inv => RowsMatchHeads
    BY RowsAreHeads DEF RowsMatchHeads
  <1> QED
    BY <1>1, <1>2, <1>3, PTL DEF Spec

\* Whoever writes a record that is not the first of an identity acts by a key of
\* its own, and by a module's key only under a grant.
LEMMA ModuleWrites ==
  ASSUME TypeOK, NEW env, WriteRecord(env), env.module # None
  PROVE  /\ Principal(env.key).kind = "module" /\ env.module = Principal(env.key).id
         /\ Granted(env.module, env.issuer, env.type, "write")
PROOF
  <1> DEFINE p == Principal(env.key)
  <1>1. Authorized(env)
    BY AcceptedWrite
  <1>2. p \in Callers /\ p.kind # "company"
    BY <1>1 DEF Authorized
  <1>3. p.kind = "module"
    BY <1>2 DEF Callers, Principal, TypeOK, Tables, StoredKey, KeyOf
  <1> QED
    BY <1>1, <1>3 DEF Authorized, WriteGranted

\* The row a module's write was granted by, in the chain it comes from.
LEMMA GrantFound ==
  ASSUME TypeOK, GrantRows, NEW m, NEW c, NEW type, Granted(m, c, type, "write")
  PROVE  \E h \in Heads :
           LET g == records[h] IN
           /\ g.type = "grant" /\ g.body.status = "active" /\ g.subject = c /\ g.body.extra.module = m
           /\ g.body.extra.expires = None \/ g.body.extra.expires > now
           /\ \E s \in g.body.extra.scopes :
                s.access = "write" /\ (s.type = type \/ (s.type = None /\ s.namespace \in {"*", Info[type].namespace}))
PROOF
  <1>1. PICK x \in DOMAIN grants : /\ grants[x].module = m /\ grants[x].status = "active" /\ grants[x].company = c
                                   /\ Covers(grants[x], type, "write")
    BY DEF Granted, GrantsFor
  <1>2. PICK r \in Records : records[r].type = "grant" /\ records[r].root = x
    BY <1>1 DEF GrantRows
  <1>3. PICK h \in Heads : records[h].root = x
    BY <1>2 DEF TypeOK, OneHead
  <1>4. records[h].type = "grant" /\ grants[x] = GrantRow(records[h])
    BY <1>2, <1>3 DEF TypeOK, OneHead, Heads, GrantRows
  <1>5. /\ records[h].subject = c /\ records[h].body.extra.module = m /\ records[h].body.status = "active"
        /\ grants[x].scopes = records[h].body.extra.scopes /\ grants[x].expires = records[h].body.extra.expires
    BY <1>1, <1>4 DEF GrantRow
  <1>6. PICK s \in grants[x].scopes : ScopeCovers(s, type, "write")
    BY <1>1 DEF Covers
  <1>7. s.access = "write" /\ (s.type = type \/ (s.type = None /\ s.namespace \in {"*", Info[type].namespace}))
    BY <1>6 DEF ScopeCovers
  <1>8. grants[x].expires = None \/ grants[x].expires > now
    BY <1>1 DEF Covers, Live
  <1> QED
    BY <1>3, <1>4, <1>5, <1>6, <1>7, <1>8

\* A record a module wrote was allowed by the newest version of a grant of the
\* company it was written for, at the moment of the write.
THEOREM GrantedWrites == Spec => ModuleActsUnderGrant
PROOF
  <1> DEFINE Inv == TypeOK /\ GrantRows
             Allowed(r) ==
               records'[r].module # None /\ records'[r].type # "module" =>
                 \E h \in Heads :
                   LET g == records[h] IN
                   /\ g.type = "grant" /\ g.body.status = "active" /\ g.subject = records'[r].issuer
                   /\ g.body.extra.module = records'[r].module
                   /\ g.body.extra.expires = None \/ g.body.extra.expires > now
                   /\ \E s \in g.body.extra.scopes :
                        s.access = "write" /\ (s.type = records'[r].type \/ (s.type = None /\ s.namespace \in {"*", Info[records'[r].type].namespace}))
  <1>1. Init => Inv
    BY TypeInit, GrantsInit
  <1>2. Inv /\ [Next]_vars => Inv'
    BY TypeNext, GrantsNext
  <1>3. Inv /\ [Next]_vars => [\A r \in DOMAIN records' \ Records : Allowed(r)]_vars
    <2> SUFFICES ASSUME Inv, [Next]_vars, NEW r \in DOMAIN records' \ Records PROVE Allowed(r)
      OBVIOUS
    <2>1. UNCHANGED tables \/ \E env : Write(env)
      BY Steps
    <2>2. ~UNCHANGED tables
      BY DEF tables, TypeOK, Table
    <2>3. PICK env : Write(env)
      BY <2>1, <2>2
    <2> DEFINE n == Len(records) + 1
    <2>4. r = n
      <3>1. /\ Records' = Records \cup {n} /\ Len(records') = n
            /\ records' = [x \in 1..n |-> records'[x]]
        BY <2>3, InsertFacts DEF Write, TypeOK
      <3>2. DOMAIN records' = 1..n /\ Records' = 1..n
        BY <3>1 DEF Records
      <3> QED
        BY <3>1, <3>2
    <2>5. SameRecord(records'[r], env)
      BY <2>3, <2>4, HeadsNext
    <2>6. records'[r].module = env.module /\ records'[r].type = env.type /\ records'[r].issuer = env.issuer
      BY <2>5 DEF SameRecord
    <2>7. CASE WriteRecord(env) /\ env.module # None
      BY <2>6, <2>7, ModuleWrites, GrantFound
    <2>8. CASE ~(WriteRecord(env) /\ env.module # None)
      BY <2>3, <2>6, <2>8 DEF Write, CompanyCreated, ModuleCreated, Genesis
    <2> QED
      BY <2>7, <2>8
  <1>4. ModuleActsUnderGrant <=> [][\A r \in DOMAIN records' \ Records : Allowed(r)]_vars
    BY PTL DEF ModuleActsUnderGrant
  <1> HIDE DEF Allowed, Inv
  <1> QED
    BY <1>1, <1>2, <1>3, <1>4, PTL DEF Spec

-----------------------------------------------------------------------------
(* Deliveries *)

\* A first version, or one that continues what the table has.
LEMMA WhatItContinues ==
  ASSUME TypeOK, NEW env, Write(env)
  PROVE  \/ env.supersedes = None /\ Target(env) = None
         \/ /\ env.supersedes \in Records /\ env.supersedes # None /\ Target(env) = records[env.supersedes]
            /\ Target(env) # None /\ Kin(env, records[env.supersedes])
PROOF
  <1>1. CASE env.supersedes = None
    BY <1>1 DEF Target
  <1>2. CASE env.supersedes # None
    <2>1. env.supersedes \in Heads /\ Kin(env, records[env.supersedes])
      BY <1>2 DEF Write, Draft
    <2>2. env.supersedes \in Records /\ records[env.supersedes] \in Envelope
      BY <2>1 DEF Heads, TypeOK, Table, Stored
    <2> QED
      BY <1>2, <2>1, <2>2, NoneAssumption DEF NoneAssumption, Target
  <1> QED
    BY <1>1, <1>2

\* What DeliveryEvidence says of one record and the table it stands in.
Evidenced(e) ==
  LET b == e.body.extra.buyer
      s == e.supersedes
  IN  /\ b # None => /\ b.record \in Records /\ records[b.record].root = e.root
                     /\ records[b.record].issuer = b.company /\ b.company = e.body.roles["buyer"]
                     /\ records[b.record].body.status = "buyer_attested"
      /\ s # None /\ records[s].body.extra.deductions # e.body.extra.deductions =>
           e.issuer = e.body.roles["buyer"] /\ records[s].body.status = "seller_attested"

\* Attestations and deductions are kept or made as the hook demands.
LEMMA EvidenceNext ==
  ASSUME TypeOK, [Next]_vars, DeliveryEvidence
  PROVE  DeliveryEvidence'
PROOF
  <1>1. UNCHANGED tables \/ \E env : Write(env)
    BY Steps
  <1>2. CASE UNCHANGED tables
    BY <1>2 DEF tables, DeliveryEvidence, Records
  <1>3. ASSUME NEW env, Write(env) PROVE DeliveryEvidence'
    <2>0. PICK n : n = Len(records) + 1
      OBVIOUS
    <2>1. /\ Records' = Records \cup {n} /\ n \notin Records /\ env.id = n
          /\ \A r \in Records : SameRecord(records'[r], records[r])
          /\ SameRecord(records'[n], env)
      BY <1>3, <2>0, HeadsNext
    <2>2. \A r \in Records : records[r].supersedes # None => records[r].supersedes \in Records
      <3> SUFFICES ASSUME NEW r \in Records, records[r].supersedes # None PROVE records[r].supersedes \in Records
        OBVIOUS
      <3>1. records[r].supersedes \in 1..(r - 1) /\ Len(records) \in Nat
        BY DEF TypeOK, Table
      <3> QED
        BY <3>1 DEF Records
    <2>3. ASSUME NEW r \in Records, records'[r].type = "fulfillment"
          PROVE  Evidenced(records[r])'
      <3>1. SameRecord(records'[r], records[r])
        BY <2>1
      <3>2. Evidenced(records[r])
        BY <2>3, <3>1 DEF DeliveryEvidence, Evidenced, SameRecord
      <3>3. records'[r].root = records[r].root /\ records'[r].issuer = records[r].issuer
            /\ records'[r].supersedes = records[r].supersedes /\ records'[r].body = records[r].body
        BY <3>1 DEF SameRecord
      <3>4. /\ Records \subseteq Records'
            /\ \A x \in Records : /\ records'[x].root = records[x].root /\ records'[x].issuer = records[x].issuer
                                   /\ records'[x].body = records[x].body
        BY <2>1 DEF SameRecord
      <3>5. records[r].supersedes # None => records[r].supersedes \in Records
        BY <2>2
      <3> QED
        BY <3>2, <3>3, <3>4, <3>5 DEF Evidenced
    <2>4. ASSUME env.type = "fulfillment"
          PROVE  Evidenced(records[n])'
      <3>1. WriteRecord(env)
        BY <1>3, <2>4 DEF Write, CompanyCreated, ModuleCreated, Genesis
      <3>2. Acceptable(env)
        BY <3>1, AcceptedWrite
      <3>3. DeliveryIntact(env, Target(env)) /\ RolesContinue(env, Target(env))
        BY <2>4, <3>2 DEF Acceptable, Integrity
      <3>4. "buyer" \in Info["fulfillment"].roles /\ Info["fulfillment"].third = {}
        BY DEF Info, Fulfillment, Machine, Plain
      <3>5. CASE env.supersedes = None /\ Target(env) = None
        <4>1. env.body.extra.buyer = None
          BY <3>3, <3>5 DEF DeliveryIntact
        <4> QED
          BY <2>1, <3>5, <4>1 DEF Evidenced, SameRecord
      <3>6. CASE /\ env.supersedes \in Records /\ env.supersedes # None /\ Target(env) = records[env.supersedes]
                 /\ Target(env) # None /\ Kin(env, records[env.supersedes])
        <4> DEFINE old == records[env.supersedes]
        <4>1. Evidenced(old) /\ old.root = env.root
          BY <2>4, <3>6 DEF DeliveryEvidence, Evidenced, Kin
        <4>2. old.body.roles["buyer"] = env.body.roles["buyer"]
          BY <2>4, <3>3, <3>4, <3>6 DEF RolesContinue
        <4>3. /\ old.body.extra.buyer # None => env.body.extra.buyer = old.body.extra.buyer
              /\ old.body.extra.buyer = None /\ env.body.extra.buyer # None =>
                   /\ env.issuer = env.body.roles["buyer"] /\ env.body.status = "buyer_attested"
                   /\ env.body.extra.buyer = [company |-> env.body.roles["buyer"], record |-> n]
              /\ env.body.extra.deductions # old.body.extra.deductions =>
                   old.body.status = "seller_attested" /\ env.issuer = env.body.roles["buyer"]
          BY <2>1, <3>3, <3>6 DEF DeliveryIntact, DeductionsOpen
        <4>4. /\ records'[n].body = env.body /\ records'[n].root = env.root /\ records'[n].issuer = env.issuer
              /\ records'[n].supersedes = env.supersedes /\ records'[env.supersedes].body = old.body
          BY <2>1, <3>6 DEF SameRecord
        <4> HIDE DEF old
        <4>5. CASE old.body.extra.buyer # None
          BY <2>1, <4>1, <4>2, <4>3, <4>4, <4>5 DEF Evidenced, SameRecord
        <4>6. CASE old.body.extra.buyer = None /\ env.body.extra.buyer # None
          BY <2>1, <4>2, <4>3, <4>4, <4>6 DEF Evidenced
        <4>7. CASE old.body.extra.buyer = None /\ env.body.extra.buyer = None
          BY <4>3, <4>4, <4>7 DEF Evidenced
        <4> QED
          BY <4>5, <4>6, <4>7
      <3> QED
        BY <1>3, <3>5, <3>6, WhatItContinues
    <2>5. records'[n].type = env.type
      BY <2>1 DEF SameRecord
    <2> QED
      BY ZenonT(60), <2>1, <2>3, <2>4, <2>5 DEF DeliveryEvidence, Evidenced
  <1> QED
    BY <1>1, <1>2, <1>3

\* The records a behaviour starts with are those of identities.
LEMMA KnownFirst ==
  ASSUME Init
  PROVE  \A r \in Records :
           /\ records[r].type \in {"company", "module"} /\ records[r].module = None /\ records[r].supersedes = None
           /\ keys[records[r].key] # None /\ keys[records[r].key].kind = "company"
           /\ keys[records[r].key].owner = records[r].issuer
PROOF
  <1>1. PICK seed \in Seeds : records = seed.records /\ keys = seed.keys
    BY DEF Init
  <1>2. Identities(seed)
    BY SeedsAssumption DEF SeedsAssumption
  <1> DEFINE Known == {e \in Envelope : e.type \in {"company", "module"} /\ e.is_head /\ e.module = None /\ e.supersedes = None}
  <1>3. records \in Seq(Known)
    BY <1>1, <1>2 DEF Identities
  <1> HIDE DEF Known
  <1>4. DOMAIN records = Records /\ \A r \in Records : records[r] \in Known
    BY <1>3, LenProperties, SeqDef DEF Records
  <1> QED
    BY <1>1, <1>2, <1>4 DEF Known, Identities

\* Who attested a delivery, and in which version, and when deductions changed, is
\* what every version of the chain says (checkIntegrity of a fulfillment).
THEOREM SafeDelivery == Spec => []DeliveryEvidence
PROOF
  <1> DEFINE Inv == TypeOK /\ DeliveryEvidence
  <1>1. Init => Inv
    BY TypeInit, KnownFirst DEF DeliveryEvidence
  <1>2. Inv /\ [Next]_vars => Inv'
    BY TypeNext, EvidenceNext
  <1> QED
    BY <1>1, <1>2, PTL DEF Spec

-----------------------------------------------------------------------------
(* Retries *)

\* The key that signed a record acts for whom the record says, and may issue it.
SignedBy(e) ==
  LET k == keys[e.key] IN
  /\ k # None /\ e.issuer \in {e.subject} \cup e.counterparties
  /\ IF k.kind = "company" THEN e.module = None /\ e.issuer = k.owner
     ELSE e.module = k.owner /\ "module" \in EntryOf(e.type).writable_by /\ Info[e.type].namespace # "core"

\* A record that did not register an identity.
Sent(e) == e.type \in {"company", "module"} => e.supersedes # None

Signatures == \A r \in Records : Sent(records[r]) => SignedBy(records[r])

\* Keys are never forgotten, and never act for anybody else.
LEMMA KeyStable ==
  ASSUME TypeOK, NEW env, Write(env), NEW k \in Key, keys[k] # None
  PROVE  keys'[k] # None /\ keys'[k].kind = keys[k].kind /\ keys'[k].owner = keys[k].owner
PROOF
  <1>1. keys[k] \in StoredKey
    BY DEF TypeOK, Tables
  <1>2. ASSUME NEW kind, NEW owner, NEW list \in ListsOver(Key), KeysFree(kind, owner, list),
               keys' = SyncKeys(kind, owner, list)
        PROVE  keys'[k].kind = keys[k].kind /\ keys'[k].owner = keys[k].owner
    <2>1. CASE k \in DOMAIN list
      <3>1. keys[k].kind = kind /\ keys[k].owner = owner
        BY <1>2, <2>1 DEF KeysFree
      <3>2. keys'[k] = [kind |-> kind, owner |-> owner, role |-> list[k].role, status |-> list[k].status]
        BY <1>2, <2>1 DEF SyncKeys
      <3> QED
        BY <3>1, <3>2
    <2>2. CASE k \notin DOMAIN list /\ keys[k].kind = kind /\ keys[k].owner = owner
      <3>1. keys'[k] = Dropped(keys[k])
        BY <1>2, <2>2 DEF SyncKeys
      <3> QED
        BY <1>1, <3>1 DEF Dropped, StoredKey, KeyOf
    <2>3. CASE k \notin DOMAIN list /\ ~(keys[k].kind = kind /\ keys[k].owner = owner)
      BY <1>2, <2>3 DEF SyncKeys
    <2> QED
      BY <2>1, <2>2, <2>3
  <1>3. keys'[k].kind = keys[k].kind /\ keys'[k].owner = keys[k].owner
    <2>1. CASE env.type \in {"company", "module"}
      <3>1. Registers(env)
        BY <2>1, WriteRows
      <3> QED
        BY <1>2, <3>1 DEF Registers
    <2>2. CASE env.type \notin {"company", "module"}
      BY <2>2, WriteRows
    <2> QED
      BY <2>1, <2>2
  <1>4. keys'[k] # None
    <2>1. keys'[k] \in StoredKey \cup {None} /\ (keys'[k] = None \/ keys'[k] # None)
      BY TablesNext DEF Tables
    <2>2. CASE keys' = keys
      BY <2>2
    <2>3. ASSUME NEW kind \in {"company", "module"}, NEW owner, owner \in IF kind = "company" THEN Company ELSE Module,
                 NEW list \in ListsOver(Key), keys' = SyncKeys(kind, owner, list)
          PROVE  keys'[k] # None
      <3>1. CASE k \in DOMAIN list
        <4>1. keys'[k] = [kind |-> kind, owner |-> owner, role |-> list[k].role, status |-> list[k].status]
          BY <2>3, <3>1 DEF SyncKeys
        <4>2. [kind |-> kind, owner |-> owner, role |-> list[k].role, status |-> list[k].status] \in StoredKey
          <5>1. list[k] \in KeyEntry
            BY <3>1 DEF ListsOver
          <5> QED
            BY <2>3, <5>1 DEF StoredKey, KeyOf, KeyEntry
        <4> QED
          BY <4>1, <4>2, NoneAssumption DEF NoneAssumption
      <3>2. CASE k \notin DOMAIN list
        <4>1. keys'[k] = Dropped(keys[k]) \/ keys'[k] = keys[k]
          BY <2>3, <3>2 DEF SyncKeys
        <4>2. Dropped(keys[k]) \in StoredKey
          BY <1>1 DEF Dropped, StoredKey, KeyOf
        <4> QED
          BY <4>1, <4>2, NoneAssumption DEF NoneAssumption
      <3> QED
        BY <3>1, <3>2
    <2>4. CASE env.type \in {"company", "module"}
      <3>1. Registers(env)
        BY <2>4, WriteRows
      <3> QED
        BY <2>3, <2>4, <3>1 DEF Registers
    <2>5. CASE env.type \notin {"company", "module"}
      BY <2>2, <2>5, WriteRows
    <2> QED
      BY <2>4, <2>5
  <1> QED
    BY <1>3, <1>4

\* An accepted record was signed by the right key, and that key stays the right one.
LEMMA SignaturesNext ==
  ASSUME TypeOK, [Next]_vars, Signatures
  PROVE  Signatures'
PROOF
  <1>1. UNCHANGED tables \/ \E env : Write(env)
    BY Steps
  <1>2. CASE UNCHANGED tables
    BY <1>2 DEF tables, Signatures, Records, SignedBy, Sent
  <1>3. ASSUME NEW env, Write(env) PROVE Signatures'
    <2>0. PICK n : n = Len(records) + 1
      OBVIOUS
    <2>1. /\ Records' = Records \cup {n} /\ env.id = n
          /\ \A r \in Records : SameRecord(records'[r], records[r])
          /\ SameRecord(records'[n], env)
      BY <1>3, <2>0, HeadsNext
    <2>2. ASSUME NEW e, NEW f, e.key \in Key, SameRecord(f, e), SignedBy(e) PROVE SignedBy(f)'
      <3>1. /\ keys'[e.key] # None /\ keys'[e.key].kind = keys[e.key].kind
            /\ keys'[e.key].owner = keys[e.key].owner
        BY <1>3, <2>2, KeyStable DEF SignedBy
      <3> QED
        BY <2>2, <3>1 DEF SignedBy, SameRecord
    <2>3. ASSUME NEW r \in Records, Sent(records'[r]) PROVE SignedBy(records[r])'
      <3>1. SameRecord(records'[r], records[r]) /\ records[r].key \in Key
        BY <2>1 DEF TypeOK, Table, Stored, Envelope
      <3>2. SignedBy(records[r])
        BY <2>3, <3>1 DEF Signatures, Sent, SameRecord
      <3> QED
        BY <2>2, <3>1, <3>2
    <2>4. ASSUME Sent(env) PROVE SignedBy(records[n])'
      <3>1. WriteRecord(env) /\ env \in Envelope
        BY <1>3, <2>4 DEF Write, CompanyCreated, ModuleCreated, Genesis, Sent, Draft, Stored
      <3>2. Authorized(env) /\ env.key \in Key
        BY <3>1, AcceptedWrite DEF Envelope
      <3>3. keys[env.key] # None
        BY <3>2, NoneAssumption DEF Authorized, Callers, Principal
      <3>4. env.issuer \in {env.subject} \cup env.counterparties
        BY <1>3, <3>2, WhatItContinues DEF Authorized, Kin
      <3>5. SignedBy(env)
        BY <3>2, <3>3, <3>4 DEF Authorized, Principal, SignedBy
      <3> QED
        BY <2>1, <2>2, <3>2, <3>5
    <2> QED
      BY <2>1, <2>3, <2>4 DEF Signatures, SameRecord, Sent
  <1> QED
    BY <1>1, <1>2, <1>3

\* Who reads a version reads the version it superseded.
LEMMA KinReadable ==
  ASSUME NEW e \in Envelope, NEW f \in Envelope, Kin(e, f), NEW p, CanRead(e, p)
  PROVE  CanRead(f, p)
PROOF
  <1>1. /\ e.visibility = f.visibility /\ e.subject = f.subject /\ e.counterparties = f.counterparties
        /\ e.type = f.type
    BY DEF Kin
  <1>2. NamesModule(e, p.id) = NamesModule(f, p.id)
    BY <1>1 DEF Kin, NamesModule
  <1> QED
    BY <1>1, <1>2 DEF CanRead

\* Signed by the right key, a record passes again the checks that come before the chain.
LEMMA SignedAnswer ==
  ASSUME TypeOK, Signatures
  PROVE  RetryAcknowledged
PROOF
  <1> SUFFICES ASSUME NEW r \in Records, Sent(records[r]), Principal(records[r].key) \in Callers,
                      CanRead(records[r], Principal(records[r].key)),
                      Info[records[r].type].namespace = "core" => Principal(records[r].key).role = "root",
                      Principal(records[r].key).kind = "module" =>
                        Granted(Principal(records[r].key).id, records[r].issuer, records[r].type, "write")
               PROVE  Answer(records[r]) = "exists"
    BY DEF RetryAcknowledged, Sent
  <1> DEFINE e == records[r]
             p == Principal(e.key)
  <1>1. /\ e \in Envelope /\ e.id = r /\ Shaped(e)
        /\ e.supersedes # None => e.supersedes \in Records /\ Kin(e, records[e.supersedes])
    <2>1. /\ Stored(e, r) /\ Len(records) \in Nat
          /\ e.supersedes # None => e.supersedes \in 1..(r - 1) /\ Kin(e, records[e.supersedes])
      BY DEF TypeOK, Table
    <2> QED
      BY <2>1, EnvelopeMembers DEF Stored, Records
  <1>2. SignedBy(e)
    BY DEF Signatures
  <1>3. e = [e EXCEPT !.is_head = e.is_head]
    BY <1>1 DEF Shaped
  <1>4. p.kind = keys[e.key].kind /\ p.id = keys[e.key].owner
    BY DEF Principal
  <1> DEFINE prev == Target(e)
  <1>5. /\ prev # None => CanRead(prev, p)
        /\ e.issuer \in IF prev = None THEN {e.subject} \cup e.counterparties ELSE {prev.subject} \cup prev.counterparties
    <2>1. CASE e.supersedes = None
      BY <1>2, <2>1 DEF Target, SignedBy
    <2>2. CASE e.supersedes # None
      <3>1. prev = records[e.supersedes] /\ prev \in Envelope /\ Kin(e, prev)
        BY <1>1, <2>2 DEF Target, TypeOK, Table, Stored
      <3>2. CanRead(prev, p)
        BY <1>1, <3>1, KinReadable
      <3> QED
        BY <1>2, <3>1, <3>2 DEF SignedBy, Kin
    <2> QED
      BY <2>1, <2>2
  <1> HIDE DEF prev
  <1>6. IF p.kind = "company" THEN /\ e.module = None /\ e.issuer = p.id
                                   /\ Info[e.type].namespace = "core" => p.role = "root"
        ELSE e.module = p.id /\ "module" \in EntryOf(e.type).writable_by /\ Info[e.type].namespace # "core"
    BY <1>2, <1>4 DEF SignedBy
  <1>7. p.kind = "module" => WriteGranted(e, p)
    BY DEF WriteGranted
  <1>8. Authorized(e)
    BY <1>5, <1>6, <1>7 DEF Authorized, prev
  <1>9. records[e.id] = e /\ e.id \in Records
    BY <1>1
  <1> HIDE DEF e
  <1>10. CanRead(records[e.id], Principal(e.key)) /\ records[e.id] = [e EXCEPT !.is_head = records[e.id].is_head]
    BY <1>3, <1>9 DEF e
  <1>11. Answer(e) = "exists"
    BY <1>8, <1>9, <1>10 DEF Answer
  <1> QED
    BY <1>11 DEF e

\* A record that was accepted is acknowledged whenever it is sent again by somebody
\* who may still write and read it, whatever its chain has become (writeRecord).
THEOREM SafeRetry == Spec => []RetryAcknowledged
PROOF
  <1> DEFINE Inv == TypeOK /\ Signatures
  <1>1. Init => Inv
    BY TypeInit, KnownFirst DEF Signatures, Sent
  <1>2. Inv /\ [Next]_vars => Inv'
    BY TypeNext, SignaturesNext
  <1>3. Inv => RetryAcknowledged
    BY SignedAnswer
  <1> QED
    BY <1>1, <1>2, <1>3, PTL DEF Spec

-----------------------------------------------------------------------------
(* Who moves a record *)

\* Who may move a record is one of its roles or its subject, and nobody else (x-dtp-status-transitions of every schema).
LEMMA MoversNamed ==
  \A type \in Type : /\ {"any", "counterparty", "subject"} \cap Info[type].roles = {}
                     /\ \A m \in Info[type].moves : m.by \subseteq Info[type].roles \cup {"subject"}
PROOF
  <1> DEFINE Knows(info) == /\ {"any", "counterparty", "subject"} \cap info.roles = {}
                            /\ \A m \in info.moves : m.by \subseteq info.roles \cup {"subject"}
  <1>1. Type = {"company", "module", "grant", "advance", "advance_offer", "invoice", "settlement_event",
                "coa_anchor", "cte", "contract", "fulfillment", "intent", "listing", "offer", "settlement",
                "standing_agreement"}
    BY DEF Type, Info
  <1>2. Knows(Company_) /\ Knows(Module_)
    BY DEF Company_, Module_, Plain
  <1>3. Knows(SettlementEvent) /\ Knows(CoaAnchor) /\ Knows(Cte) /\ Knows(Settlement)
    BY DEF SettlementEvent, CoaAnchor, Cte, Settlement, Plain
  <1>4. Knows(Grant)
    BY DEF Grant, Machine, Plain, Moves
  <1>5. Knows(Advance)
    BY DEF Advance, Machine, Plain, Moves
  <1>6. Knows(AdvanceOffer)
    BY DEF AdvanceOffer, Machine, Plain, Moves
  <1>7. Knows(Invoice)
    BY DEF Invoice, Machine, Plain, Moves
  <1>8. Knows(Contract)
    BY DEF Contract, Machine, Plain, Moves
  <1>9. Knows(Fulfillment)
    BY DEF Fulfillment, Machine, Plain, Moves
  <1>10. Knows(Intent)
    BY DEF Intent, Machine, Plain, Moves
  <1>11. Knows(Listing)
    BY DEF Listing, Machine, Plain, Moves
  <1>12. Knows(Offer)
    BY DEF Offer, Machine, Plain, Moves
  <1>13. Knows(StandingAgreement)
    BY DEF StandingAgreement, Machine, Plain, Moves
  <1> HIDE DEF Knows
  <1>14. \A type \in Type : Knows(Info[type])
    BY <1>1, <1>2, <1>3, <1>4, <1>5, <1>6, <1>7, <1>8, <1>9, <1>10, <1>11, <1>12, <1>13 DEF Info
  <1> QED
    BY <1>14 DEF Knows

\* The roles that are no third party's are played as the first version says.
RolesKept ==
  \A r \in Records : /\ records[r].root \in Records
                     /\ \A role \in Info[records[r].type].roles \ Info[records[r].type].third :
                          records[r].body.roles[role] = records[records[r].root].body.roles[role]

\* What AccountableMoves says of one record.
Accounted(e) ==
  LET s == e.supersedes
      holder(role) == IF role \in Info[e.type].third THEN records[s].body.roles[role] ELSE records[e.root].body.roles[role]
  IN  s # None /\ e.body.status # records[s].body.status =>
        \E m \in Info[e.type].moves :
          /\ m.from = records[s].body.status /\ m.to = e.body.status
          /\ \/ "subject" \in m.by /\ e.issuer = e.subject
             \/ \E role \in m.by \ {"subject"} : holder(role) = e.issuer

\* AccountableMoves says it of every record.
LEMMA AccountedAll == AccountableMoves <=> \A r \in Records : Accounted(records[r])
PROOF
  BY DEF AccountableMoves, Accounted

\* A version that moves its record was signed by one who may.
LEMMA MoveAccounted ==
  ASSUME TypeOK, RolesKept, NEW env, Write(env)
  PROVE  Accounted(env)
PROOF
  <1> DEFINE old == records[env.supersedes]
  <1> SUFFICES ASSUME env.supersedes # None, env.body.status # old.body.status
               PROVE  Accounted(env)
    BY DEF Accounted
  <1>1. /\ env.supersedes \in Records /\ Target(env) = old /\ old # None /\ Kin(env, old)
    BY WhatItContinues
  <1>2. WriteRecord(env)
    BY DEF Write, CompanyCreated, ModuleCreated, Genesis
  <1> DEFINE roles == RolesOf(env.type, old.body, env.issuer, env.subject, env.counterparties)
             listed == {m \in Info[env.type].moves : m.from = old.body.status /\ m.to = env.body.status}
  <1>3. TransitionAllowed(env, old, roles)
    BY <1>1, <1>2, AcceptedWrite DEF Acceptable, RoleSource
  <1>4. /\ env.type \in Type /\ env.type = old.type
        /\ env.body.status \in StatusOf(env.type) /\ old.body.status \in StatusOf(old.type)
    BY <1>1 DEF Write, Draft, Stored, Envelope, TypeOK, Table, Kin
  <1>5. listed # {}
    <2>1. Info[env.type].stateful
      BY <1>4 DEF StatusOf
    <2> QED
      BY <1>1, <1>3, <2>1 DEF TransitionAllowed
  <1>6. PICK m \in listed : m.by \cap roles # {}
    BY <1>1, <1>3, <1>5 DEF TransitionAllowed
  <1>7. PICK role \in m.by : role \in roles
    BY <1>6
  <1>8. role \in Info[env.type].roles \cup {"subject"} /\ role \notin {"any", "counterparty"}
        /\ "subject" \notin Info[env.type].roles
    BY <1>4, <1>6, <1>7, MoversNamed
  <1>9. CASE role = "subject" /\ env.issuer = env.subject
    BY <1>6, <1>7, <1>9 DEF Accounted
  <1>10. CASE role # "subject" /\ role \in Info[env.type].roles /\ old.body.roles[role] = env.issuer
    <2>1. role \notin Info[env.type].third => old.body.roles[role] = records[env.root].body.roles[role]
      BY <1>1, <1>4, <1>10 DEF RolesKept, Kin
    <2> QED
      BY <1>6, <1>7, <1>10, <2>1 DEF Accounted
  <1> QED
    BY <1>7, <1>8, <1>9, <1>10 DEF RolesOf

\* Every new version was moved by one who may, by the roles of the first version.
LEMMA MovesNext ==
  ASSUME TypeOK, [Next]_vars, RolesKept, AccountableMoves
  PROVE  RolesKept' /\ AccountableMoves'
PROOF
  <1>1. UNCHANGED tables \/ \E env : Write(env)
    BY Steps
  <1>2. CASE UNCHANGED tables
    BY <1>2 DEF tables, RolesKept, AccountableMoves, Records
  <1>3. (\A r \in Records : Accounted(records[r]))' => AccountableMoves'
    BY AccountedAll, PTL
  <1>4. ASSUME NEW env, Write(env) PROVE RolesKept' /\ AccountableMoves'
    <2>0. PICK n : n = Len(records) + 1
      OBVIOUS
    <2>1. /\ Records' = Records \cup {n} /\ n \notin Records
          /\ \A r \in Records : SameRecord(records'[r], records[r])
          /\ SameRecord(records'[n], env)
      BY <1>4, <2>0, HeadsNext
    <2>2. \A r \in Records : records[r].supersedes # None => records[r].supersedes \in Records
      <3> SUFFICES ASSUME NEW r \in Records, records[r].supersedes # None PROVE records[r].supersedes \in Records
        OBVIOUS
      <3>1. records[r].supersedes \in 1..(r - 1) /\ Len(records) \in Nat
        BY DEF TypeOK, Table
      <3> QED
        BY <3>1 DEF Records
    <2>3. \/ env.supersedes = None /\ Target(env) = None /\ env.root = n
          \/ /\ env.supersedes \in Records /\ env.supersedes # None /\ Target(env) = records[env.supersedes]
             /\ Target(env) # None /\ Kin(env, records[env.supersedes])
      <3>1. env.supersedes = None => env.root = n
        BY <1>4, <2>0, NoneAssumption DEF NoneAssumption, Write, Draft, Heads, Records
      <3> QED
        BY <1>4, <3>1, WhatItContinues
    <2>4. /\ records'[n].body = env.body /\ records'[n].root = env.root /\ records'[n].type = env.type
          /\ \A r \in Records : /\ records'[r].body = records[r].body /\ records'[r].root = records[r].root
                                /\ records'[r].type = records[r].type
      BY <2>1 DEF SameRecord
    <2>5. RolesKept'
      <3>1. ASSUME env.supersedes # None
            PROVE  /\ env.root \in Records
                   /\ \A role \in Info[env.type].roles \ Info[env.type].third :
                        env.body.roles[role] = records[env.root].body.roles[role]
        <4> DEFINE old == records[env.supersedes]
        <4>1. /\ env.root = old.root /\ env.type = old.type /\ env.supersedes \in Records
              /\ Target(env) = old /\ old # None
          BY <2>3, <3>1 DEF Kin
        <4>2. WriteRecord(env)
          BY <1>4, <3>1 DEF Write, CompanyCreated, ModuleCreated, Genesis
        <4>3. \A role \in Info[env.type].roles \ Info[env.type].third : old.body.roles[role] = env.body.roles[role]
          BY <4>1, <4>2, AcceptedWrite DEF Acceptable, RolesContinue
        <4> QED
          BY <4>1, <4>3 DEF RolesKept
      <3> DEFINE Kept(r) == /\ records[r].root \in Records
                            /\ \A role \in Info[records[r].type].roles \ Info[records[r].type].third :
                                 records[r].body.roles[role] = records[records[r].root].body.roles[role]
      <3>2. ASSUME NEW r \in Records PROVE Kept(r)'
        BY SMTT(30), <2>1, <2>4 DEF RolesKept
      <3>3. Kept(n)'
        BY <2>1, <2>3, <2>4, <3>1
      <3> HIDE DEF Kept
      <3>4. \A r \in Records' : Kept(r)'
        BY <2>1, <3>2, <3>3
      <3> QED
        BY <3>4 DEF RolesKept, Kept
    <2>6. ASSUME NEW r \in Records PROVE Accounted(records[r])'
      <3>1. Accounted(records[r]) /\ records[r].root \in Records /\ SameRecord(records'[r], records[r])
        BY <2>1 DEF AccountableMoves, Accounted, RolesKept
      <3> QED
        BY <2>2, <2>4, <3>1 DEF Accounted, SameRecord
    <2>7. Accounted(records[n])'
      <3>1. Accounted(env)
        BY <1>4, MoveAccounted
      <3>2. env.supersedes # None => env.supersedes \in Records /\ env.root \in Records
        BY <2>3 DEF RolesKept, Kin
      <3> QED
        BY <2>1, <2>4, <3>1, <3>2 DEF Accounted, SameRecord
    <2>8. AccountableMoves'
      <3>1. (\A r \in Records : Accounted(records[r]))'
        BY <2>1, <2>6, <2>7
      <3> QED
        BY <1>3, <3>1
    <2> QED
      BY <2>5, <2>8
  <1> QED
    BY <1>1, <1>2, <1>4

\* Every move of a record was signed by one who plays a role that may make it, by
\* the record's first version, or as a third party appointed before it moved.
THEOREM SafeMoves == Spec => []AccountableMoves
PROOF
  <1> DEFINE Inv == TypeOK /\ RolesKept /\ AccountableMoves
  <1>1. Init => Inv
    <2> SUFFICES ASSUME Init PROVE RolesKept /\ AccountableMoves
      BY TypeInit
    <2>1. \A r \in Records : records[r].supersedes = None /\ records[r].root = r
      BY TypeInit, KnownFirst DEF TypeOK, Table
    <2> QED
      BY <2>1 DEF RolesKept, AccountableMoves
  <1>2. Inv /\ [Next]_vars => Inv'
    BY TypeNext, MovesNext
  <1> QED
    BY <1>1, <1>2, PTL DEF Spec

-----------------------------------------------------------------------------
(* What was agreed *)

\* The terms of an agreement are fixed in every status but a draft's, and nothing
\* becomes a draft again (x-dtp-lock-after-statuses and x-dtp-status-transitions).
LEMMA AgreementStatuses ==
  \A type \in DOMAIN Account :
    /\ type \in Type /\ Info[type].stateful /\ Statuses(type) \ {"draft"} \subseteq Info[type].locked
    /\ \A m \in Info[type].moves : m.to # "draft"
PROOF
  <1> DEFINE Fixed(info) == /\ info.stateful /\ \A m \in info.moves : m.to # "draft"
                            /\ info.initial \ {"draft"} \subseteq info.locked
                            /\ \A m \in info.moves : m.to \in info.locked
  <1>1. DOMAIN Account = {"contract", "fulfillment", "advance_offer", "advance", "invoice"}
    BY DEF Account
  <1>2. Fixed(Contract)
    BY DEF Contract, Machine, Plain, Moves
  <1>3. Fixed(Fulfillment)
    BY DEF Fulfillment, Machine, Plain, Moves
  <1>4. Fixed(AdvanceOffer)
    BY DEF AdvanceOffer, Machine, Plain, Moves
  <1>5. Fixed(Advance)
    BY DEF Advance, Machine, Plain, Moves
  <1>6. Fixed(Invoice)
    BY DEF Invoice, Machine, Plain, Moves
  <1> HIDE DEF Fixed
  <1>7. \A type \in DOMAIN Account : Fixed(Info[type]) /\ type \in Type
    BY <1>1, <1>2, <1>3, <1>4, <1>5, <1>6 DEF Info, Type
  <1> QED
    BY <1>7 DEF Fixed, Statuses

\* Whatever a body of an agreement says is one of its terms, unless the parties
\* keep account in it or the model has a part of its own for it.
LEMMA AgreementMembers ==
  \A type \in DOMAIN Account : Members(Body[type]) \ Apart(type) \subseteq Info[type].terms \cup Account[type]
PROOF
  <1> DEFINE Said(type, body, info) == Members(body) \ Apart(type) \subseteq info.terms \cup Account[type]
  <1>1. DOMAIN Account = {"contract", "fulfillment", "advance_offer", "advance", "invoice"}
    BY DEF Account
  <1>2. {"status"} \subseteq Apart("contract") /\ {"status"} \subseteq Apart("fulfillment")
        /\ {"status"} \subseteq Apart("advance_offer") /\ {"status"} \subseteq Apart("advance")
        /\ {"status"} \subseteq Apart("invoice")
    BY DEF Apart
  <1>3. Said("contract", ContractBody, Contract)
    <2>1. "arbitrator_company_id" \in Apart("contract")
      BY DEF Apart, RoleMember, Info, Contract, Machine, Plain
    <2>2. Members(ContractBody) \ {"status", "arbitrator_company_id"} \subseteq Contract.terms
      BY DEF Members, ContractBody, Shape, Contract, Machine, Plain
    <2> QED
      BY <1>2, <2>1, <2>2
  <1>4. Said("fulfillment", FulfillmentBody, Fulfillment)
    <2>1. {"buyer_attestation", "deductions"} \subseteq Apart("fulfillment")
      BY DEF Apart
    <2>2. Members(FulfillmentBody) \ {"status", "buyer_attestation", "deductions"} \subseteq Fulfillment.terms
      BY DEF Members, FulfillmentBody, Shape, Fulfillment, Machine, Plain
    <2> QED
      BY <1>2, <2>1, <2>2
  <1>5. Said("advance_offer", AdvanceOfferBody, AdvanceOffer)
    <2>2. Members(AdvanceOfferBody) \ {"status"} \subseteq AdvanceOffer.terms
      BY DEF Members, AdvanceOfferBody, Shape, AdvanceOffer, Machine, Plain
    <2> QED
      BY <1>2, <2>2
  <1>6. Said("advance", AdvanceBody, Advance)
    <2>2. Members(AdvanceBody) \ {"status"} \subseteq Advance.terms \cup Account["advance"]
      BY DEF Members, AdvanceBody, Shape, Advance, Machine, Plain, Account
    <2> QED
      BY <1>2, <2>2
  <1>7. Said("invoice", InvoiceBody, Invoice)
    <2>1. "assigned_to_company_id" \in Apart("invoice")
      BY DEF Apart
    <2>2. Members(InvoiceBody) \ {"status", "assigned_to_company_id"} \subseteq Invoice.terms \cup Account["invoice"]
      BY DEF Members, InvoiceBody, Shape, Invoice, Machine, Plain, Account
    <2> QED
      BY <1>2, <2>1, <2>2
  <1> HIDE DEF Said
  <1>8. \A type \in DOMAIN Account : Said(type, Body[type], Info[type])
    BY <1>1, <1>3, <1>4, <1>5, <1>6, <1>7 DEF Body, Info
  <1> QED
    BY <1>8 DEF Said

\* A version says what an earlier one, past its draft, says.
AgreesWith(e, f) ==
  f.type \in DOMAIN Account /\ f.body.status # "draft" =>
    /\ e.body.status # "draft"
    /\ Followed(f.type) /\ ~FollowedIn(Account[f.type]) => e.body.followed = f.body.followed
    /\ f.type = "fulfillment" => e.body.extra.seller = f.body.extra.seller
    /\ f.type = "invoice" /\ f.body.extra.assigned # None => e.body.extra.assigned = f.body.extra.assigned

\* A new version agrees with the one it supersedes.
LEMMA NextAgrees ==
  ASSUME TypeOK, NEW env, Write(env), env.supersedes # None
  PROVE  AgreesWith(env, records[env.supersedes])
PROOF
  <1> DEFINE old == records[env.supersedes]
             type == env.type
  <1> SUFFICES ASSUME type \in DOMAIN Account, old.body.status # "draft"
               PROVE  AgreesWith(env, old)
    BY WhatItContinues DEF AgreesWith, Kin
  <1>1. /\ env.supersedes \in Records /\ Target(env) = old /\ old # None /\ old.type = type
    BY WhatItContinues DEF Kin
  <1>2. WriteRecord(env)
    BY DEF Write, CompanyCreated, ModuleCreated, Genesis
  <1> DEFINE roles == RolesOf(type, old.body, env.issuer, env.subject, env.counterparties)
             listed == {m \in Info[type].moves : m.from = old.body.status /\ m.to = env.body.status}
  <1>3. TransitionAllowed(env, old, roles) /\ Integrity(env, old)
    BY <1>1, <1>2, AcceptedWrite DEF Acceptable, RoleSource
  <1>4. /\ type \in Type /\ Info[type].stateful /\ Statuses(type) \ {"draft"} \subseteq Info[type].locked
        /\ \A m \in Info[type].moves : m.to # "draft"
    BY AgreementStatuses
  <1>5. old.body.status \in Statuses(type)
    BY <1>1, <1>4 DEF TypeOK, Table, Stored, Envelope, StatusOf
  <1>6. Terms(env) = Terms(old)
    BY <1>1, <1>3, <1>4, <1>5 DEF TransitionAllowed, TermsLocked
  <1>7. env.body.status # "draft"
    <2>1. CASE listed # {}
      BY <1>4, <2>1
    <2>2. CASE listed = {}
      BY <1>1, <1>3, <1>4, <2>2 DEF TransitionAllowed
    <2> QED
      BY <2>1, <2>2
  <1>8. ASSUME Followed(type), ~FollowedIn(Account[type]) PROVE env.body.followed = old.body.followed
    <2>1. FollowedIn(Info[type].terms)
      <3>1. limit.follow.place[1] \in Members(Body[type]) \ Apart(type)
        BY <1>4, <1>8 DEF Followed, TypeOK, Bounded, Bounds
      <3>2. Members(Body[type]) \ Apart(type) \subseteq Info[type].terms \cup Account[type]
        BY AgreementMembers
      <3> QED
        BY <1>8, <3>1, <3>2 DEF FollowedIn
    <2>2. Terms(env)[1] = env.body.followed /\ Terms(old)[1] = old.body.followed
      BY <1>1, <1>8, <2>1 DEF Terms
    <2> QED
      BY <1>6, <2>2
  <1>9. type = "fulfillment" => env.body.extra.seller = old.body.extra.seller
    <2>1. type = "fulfillment" => Terms(env)[2] = env.body.extra.seller /\ Terms(old)[2] = old.body.extra.seller
      BY <1>1 DEF Terms
    <2> QED
      BY <1>6, <2>1
  <1>10. type = "invoice" /\ old.body.extra.assigned # None => env.body.extra.assigned = old.body.extra.assigned
    BY <1>1, <1>3 DEF Integrity, InvoiceIntact
  <1> QED
    BY <1>1, <1>7, <1>8, <1>9, <1>10 DEF AgreesWith

\* The newest version is the last of its chain, and agrees with all before it; so
\* does every version.
NewestLast == \A h \in Heads, r \in Records : records[r].root = records[h].root => r <= h
VersionsAgree == \A r, s \in Records : records[r].root = records[s].root /\ s < r => AgreesWith(records[r], records[s])

\* Agreement with an agreeing version is agreement with all before it.
LEMMA AgreesTransitive ==
  ASSUME NEW e, NEW f, NEW g, e.type = f.type, f.type = g.type, AgreesWith(e, f), AgreesWith(f, g)
  PROVE  AgreesWith(e, g)
PROOF
  BY DEF AgreesWith

\* A new version becomes the last of its chain, and agrees with all before it.
LEMMA AgreementsNext ==
  ASSUME TypeOK, [Next]_vars, NewestLast, VersionsAgree
  PROVE  NewestLast' /\ VersionsAgree'
PROOF
  <1>0. limit' = limit /\ Len(records) \in Nat
    BY Steps DEF TypeOK, Table
  <1>1. UNCHANGED tables \/ \E env : Write(env)
    BY Steps
  <1>2. CASE UNCHANGED tables
    BY <1>0, <1>2 DEF tables, NewestLast, VersionsAgree, AgreesWith, Followed, FollowedIn, Heads, Records
  <1>3. ASSUME NEW env, Write(env) PROVE NewestLast' /\ VersionsAgree'
    <2>0. PICK n : n = Len(records) + 1
      OBVIOUS
    <2>1. /\ Records' = Records \cup {n} /\ n \notin Records /\ n \in Nat
          /\ \A r \in Records : SameRecord(records'[r], records[r])
          /\ SameRecord(records'[n], env)
          /\ \A h : h \in Heads' <=> (h = n \/ (h \in Heads /\ h # env.supersedes))
      BY <1>3, <2>0, HeadsNext
    <2>2. \A r \in Records : r \in Nat /\ r < n
      BY <1>0, <2>0 DEF Records
    <2>3. /\ \A r \in Records : records'[r].root = records[r].root
          /\ records'[n].root = env.root /\ \A h \in Heads : h \in Records
      BY <2>1 DEF SameRecord, Heads
    <2>4. OneHead'
      BY TypeNext DEF TypeOK
    <2>5. NewestLast'
      <3> SUFFICES ASSUME NEW h \in Heads', NEW r \in Records', records'[r].root = records'[h].root PROVE r <= h
        BY DEF NewestLast
      <3>1. CASE h = n
        BY <2>1, <2>2, <3>1
      <3>2. CASE h # n /\ r # n
        BY <2>1, <2>3, <3>2 DEF NewestLast
      <3>3. CASE h # n /\ r = n
        BY <2>1, <2>4, <3>3 DEF OneHead, Heads
      <3> QED
        BY <3>1, <3>2, <3>3
    <2>6. ASSUME NEW e, NEW f, NEW e1, NEW f1, SameRecord(e1, e), SameRecord(f1, f), AgreesWith(e, f)
          PROVE  AgreesWith(e1, f1)'
      BY <1>0, <2>6 DEF AgreesWith, SameRecord, Followed, FollowedIn
    <2>7. ASSUME NEW s \in Records, records[s].root = env.root PROVE AgreesWith(env, records[s])
      <3>1. env.supersedes # None
        <4>1. records[s].root \in 1..s /\ Len(records) \in Nat
          BY DEF TypeOK, Table, Stored
        <4>2. env.supersedes = None => env.root = n
          BY <1>3, <2>0, NoneAssumption DEF NoneAssumption, Write, Draft, Heads, Records
        <4> QED
          BY <2>2, <2>7, <4>1, <4>2
      <3> DEFINE p == env.supersedes
      <3>2. p \in Heads /\ p \in Records /\ env.type = records[p].type /\ env.root = records[p].root
        BY <1>3, <3>1 DEF Write, Draft, Kin, Heads
      <3>3. AgreesWith(env, records[p])
        BY <1>3, <3>1, NextAgrees
      <3>4. records[s].type = records[p].type
        BY <2>7, <3>2 DEF TypeOK, OneHead
      <3> HIDE DEF p
      <3>5. s <= p
        BY <2>7, <3>2 DEF NewestLast
      <3>6. CASE s = p
        BY <3>3, <3>6
      <3>7. CASE s # p
        <4>1. AgreesWith(records[p], records[s])
          BY <2>2, <2>7, <3>2, <3>5, <3>7 DEF VersionsAgree
        <4> QED
          BY <3>2, <3>3, <3>4, <4>1, AgreesTransitive
      <3> QED
        BY <3>6, <3>7
    <2>8. ASSUME NEW r \in Records', NEW s \in Records', records'[r].root = records'[s].root, s < r
          PROVE  AgreesWith(records[r], records[s])'
      <3>1. CASE r # n
        <4>1. r \in Records /\ s \in Records
          BY <2>1, <2>2, <2>8, <3>1
        <4>2. AgreesWith(records[r], records[s])
          BY <2>3, <2>8, <4>1 DEF VersionsAgree
        <4> QED
          BY <2>1, <2>6, <4>1, <4>2
      <3>2. CASE r = n
        <4>1. s \in Records /\ records[s].root = env.root
          BY <2>1, <2>2, <2>3, <2>8, <3>2
        <4>2. AgreesWith(env, records[s])
          BY <2>7, <4>1
        <4> QED
          BY <2>1, <2>6, <3>2, <4>1, <4>2
      <3> QED
        BY <3>1, <3>2
    <2> QED
      BY <2>5, <2>8 DEF VersionsAgree
  <1> QED
    BY <1>1, <1>2, <1>3

\* What is fixed in an agreement is what its first version says, or for an invoice
\* the version that issued it; and a financer keeps what was assigned to it.
THEOREM SafeTerms == Spec => []AgreedTermsKept
PROOF
  <1> DEFINE Inv == TypeOK /\ NewestLast /\ VersionsAgree
  <1>1. Init => Inv
    <2> SUFFICES ASSUME Init PROVE NewestLast /\ VersionsAgree
      BY TypeInit
    <2>1. \A r \in Records : records[r].root = r /\ r \in Nat
      BY TypeInit, KnownFirst DEF TypeOK, Table, Records
    <2> QED
      BY <2>1 DEF NewestLast, VersionsAgree, Heads
  <1>2. Inv /\ [Next]_vars => Inv'
    BY TypeNext, AgreementsNext
  <1>3. Inv => AgreedTermsKept
    BY DEF AgreedTermsKept, VersionsAgree, AgreesWith
  <1> QED
    BY <1>1, <1>2, <1>3, PTL DEF Spec

-----------------------------------------------------------------------------
(* Pages *)

\* A page takes the smallest: what stands before one of its rows is on it too.
LEMMA LeastDown ==
  ASSUME NEW S \in SUBSET Nat, IsFiniteSet(S), NEW n \in Nat
  PROVE  /\ Least(n, S) \subseteq S
         /\ \A x \in Least(n, S), y \in S : y < x => y \in Least(n, S)
PROOF
  <1>0. \A v \in S : v \in Nat
    OBVIOUS
  <1>1. ASSUME NEW x \in Least(n, S), NEW y \in S, y < x PROVE y \in Least(n, S)
    <2> DEFINE B(z) == {v \in S : v < z}
    <2>1. x \in S /\ Cardinality(B(x)) < n
      BY DEF Least
    <2>2. B(y) \subseteq B(x)
      <3>1. \A v \in S : v < y => v < x
        BY <1>0, <1>1, <2>1
      <3> QED
        BY <3>1, Zenon
    <2>3. IsFiniteSet(B(x))
      BY FS_Subset
    <2>4. Cardinality(B(y)) <= Cardinality(B(x)) /\ Cardinality(B(y)) \in Nat /\ Cardinality(B(x)) \in Nat
      BY <2>2, <2>3, FS_Subset, FS_CardinalityType
    <2>5. Cardinality(B(y)) < n
      BY <2>1, <2>4
    <2> QED
      BY <2>5 DEF Least
  <1> QED
    BY <1>1 DEF Least

\* A page is empty only if nothing is left.
LEMMA LeastSome ==
  ASSUME NEW S \in SUBSET Nat, S # {}, NEW n \in Nat \ {0}
  PROVE  Least(n, S) # {}
PROOF
  <1>0. \A v \in S : v \in Nat
    OBVIOUS
  <1>1. PICK x \in S : \A y \in S : x <= y
    BY LeastNumber
  <1>2. {y \in S : y < x} = {}
    <2>1. \A y \in S : ~(y < x)
      BY <1>0, <1>1
    <2> QED
      BY <2>1, Zenon
  <1>3. Cardinality({y \in S : y < x}) < n
    BY <1>2, FS_EmptySet
  <1> QED
    BY <1>3 DEF Least

\* A page that is not full has all there is.
LEMMA LeastAll ==
  ASSUME NEW S \in SUBSET Nat, IsFiniteSet(S), NEW n \in Nat, Cardinality(Least(n, S)) < n
  PROVE  Least(n, S) = S
PROOF
  <1> DEFINE L == Least(n, S)
  <1>1. L \subseteq S
    BY DEF Least
  <1> SUFFICES ASSUME S \ L # {} PROVE FALSE
    BY <1>1
  <1>2. PICK x \in S \ L : \A y \in S \ L : x <= y
    <2> HIDE DEF L
    <2> QED
      BY LeastNumber
  <1> DEFINE B == {y \in S : y < x}
  <1>3. B \subseteq L
    <2>1. \A v \in S : v \in Nat
      OBVIOUS
    <2> HIDE DEF L
    <2>2. \A y \in S : y < x => y \in L
      BY <1>2, <2>1
    <2> QED
      BY <2>2, Zenon
  <1>4. ~(Cardinality(B) < n)
    BY <1>2 DEF Least
  <1>5. IsFiniteSet(L)
    BY <1>1, FS_Subset
  <1>6. Cardinality(B) <= Cardinality(L) /\ Cardinality(B) \in Nat /\ Cardinality(L) \in Nat
    BY <1>3, <1>5, FS_Subset, FS_CardinalityType
  <1> HIDE DEF B
  <1>7. Cardinality(L) < n
    OBVIOUS
  <1> HIDE DEF L
  <1> QED
    BY <1>4, <1>6, <1>7

\* What fits on a page is all on it.
LEMMA LeastSmall ==
  ASSUME NEW S \in SUBSET Nat, IsFiniteSet(S), NEW n \in Nat, Cardinality(S) <= n
  PROVE  Least(n, S) = S
PROOF
  <1>1. ASSUME NEW x \in S PROVE Cardinality({y \in S : y < x}) < n
    <2> DEFINE B == {y \in S : y < x}
    <2>1. B \subseteq S /\ B # S
      OBVIOUS
    <2> HIDE DEF B
    <2>2. Cardinality(B) <= Cardinality(S) /\ Cardinality(B) # Cardinality(S)
          /\ Cardinality(B) \in Nat /\ Cardinality(S) \in Nat
      BY <2>1, FS_Subset, FS_CardinalityType
    <2>3. Cardinality(B) < n
      BY <2>2
    <2> QED
      BY <2>3 DEF B
  <1> QED
    BY <1>1 DEF Least

\* The last row of a page that has one.
LEMMA LastRow ==
  ASSUME NEW n \in Nat, NEW S \in SUBSET (0..n), S # {}
  PROVE  Last(S) \in S /\ \A y \in S : y <= Last(S)
PROOF
  <1> DEFINE T == {n - x : x \in S}
  <1>0. \A x \in S : x \in 0..n
    OBVIOUS
  <1>1. T \in SUBSET Nat /\ T # {}
    <2>1. \A x \in S : n - x \in Nat
      BY <1>0
    <2> QED
      BY <2>1, Zenon
  <1>2. PICK t \in T : \A u \in T : t <= u
    <2> HIDE DEF T
    <2> QED
      BY <1>1, LeastNumber
  <1>3. PICK x \in S : t = n - x
    OBVIOUS
  <1>4. \A y \in S : n - y \in T /\ y \in Int /\ n \in Int
    OBVIOUS
  <1>5. \A y \in S : y <= x
    <2> HIDE DEF T
    <2> QED
      BY <1>2, <1>3, <1>4
  <1> QED
    BY <1>5 DEF Last

\* A page of those that an overfull page of S holds: it takes from the front of S,
\* and leaves S empty only if S was.
LEMMA PageOf ==
  ASSUME NEW S \in SUBSET Nat, IsFiniteSet(S)
  PROVE  LET rows == Least(PageLimit + 1, S)
             shown == Least(PageLimit, rows)
         IN  /\ shown \subseteq rows /\ rows \subseteq S
             /\ \A x \in shown, y \in S : y < x => y \in shown
             /\ shown = {} => S = {}
             /\ ~(Cardinality(rows) > PageLimit) => shown = S
PROOF
  <1> DEFINE rows == Least(PageLimit + 1, S)
             shown == Least(PageLimit, rows)
  <1>1. PageLimit \in Nat /\ PageLimit + 1 \in Nat /\ PageLimit + 1 # 0 /\ PageLimit # 0
    BY PageAssumption DEF PageAssumption
  <1>2. /\ rows \subseteq S /\ \A x \in rows, y \in S : y < x => y \in rows
    BY <1>1, LeastDown
  <1>3. rows \in SUBSET Nat /\ IsFiniteSet(rows) /\ Cardinality(rows) \in Nat
    BY <1>2, FS_Subset, FS_CardinalityType
  <1> HIDE DEF rows
  <1>4. /\ shown \subseteq rows /\ \A x \in shown, y \in rows : y < x => y \in shown
    BY <1>1, <1>3, LeastDown
  <1>5. shown = {} => rows = {}
    BY <1>1, <1>3, LeastSome
  <1>6. rows = {} => S = {}
    BY <1>1, LeastSome DEF rows
  <1>7. ASSUME ~(Cardinality(rows) > PageLimit) PROVE shown = S
    <2>1. rows = S
      <3>1. Cardinality(rows) < PageLimit + 1
        BY <1>1, <1>3, <1>7
      <3> QED
        BY <1>1, <3>1, LeastAll DEF rows
    <2>2. shown = rows
      BY <1>1, <1>3, <1>7, LeastSmall
    <2> QED
      BY <2>1, <2>2
  <1> HIDE DEF shown
  <1>8. \A x \in shown, y \in S : y < x => y \in shown
    BY <1>2, <1>4
  <1> QED
    BY <1>2, <1>4, <1>5, <1>6, <1>7, <1>8 DEF rows, shown

-----------------------------------------------------------------------------
(* The feed *)

\* A scope in a grant's row asks to read or to write.
LEMMA GrantScopes ==
  ASSUME TypeOK, GrantRows, NEW x \in DOMAIN grants, NEW s \in grants[x].scopes
  PROVE  s.access \in {"read", "write"}
PROOF
  <1>1. PICK r \in Records : records[r].type = "grant" /\ records[r].root = x
    BY DEF GrantRows
  <1>2. PICK h \in Heads : records[h].root = x
    BY <1>1 DEF TypeOK, OneHead
  <1>3. records[h].type = "grant" /\ h \in Records /\ grants[x] = GrantRow(records[h])
    BY <1>1, <1>2 DEF TypeOK, OneHead, Heads, GrantRows
  <1>4. records[h].body.extra \in GrantExtra
    BY <1>3 DEF TypeOK, Table, Stored, Envelope, ExtraOf
  <1>5. s \in records[h].body.extra.scopes /\ records[h].body.extra.scopes \in Scopes
    BY <1>3, <1>4 DEF GrantRow, GrantExtra
  <1> QED
    BY <1>5 DEF Scopes

\* The clause of the queries and the check of a row say the same.
LEMMA FilterHolds ==
  ASSUME TypeOK, GrantRows
  PROVE  FilterExact
PROOF
  <1> SUFFICES ASSUME NEW p \in Callers, NEW r \in Records
               PROVE  ReadPrefilter(records[r], p) <=> CanRead(records[r], p)
    BY DEF FilterExact
  <1> DEFINE e == records[r]
             In(s) == IF s.type # None THEN s.type = e.type ELSE s.namespace \in {"*", Info[e.type].namespace}
  <1>1. ASSUME NEW g \in GrantsFor(p.id)
        PROVE  Covers(g, e.type, "read") <=> Live(g) /\ \E s \in g.scopes : In(s)
    <2>1. PICK x \in DOMAIN grants : g = grants[x]
      BY DEF GrantsFor
    <2>2. \A s \in g.scopes : s.access \in {"read", "write"}
      BY <2>1, GrantScopes
    <2>3. \A s \in g.scopes : ScopeCovers(s, e.type, "read") <=> In(s)
      BY <2>2 DEF ScopeCovers
    <2> HIDE DEF In
    <2> QED
      BY <2>3 DEF Covers
  <1> DEFINE Whose(c) == c = e.subject \/ (e.visibility = "counterparties" /\ c \in e.counterparties)
  <1>2. (\E c \in {e.subject} \cup (IF e.visibility = "counterparties" THEN e.counterparties ELSE {}) :
           Granted(p.id, c, e.type, "read"))
        <=> \E g \in GrantsFor(p.id) : Covers(g, e.type, "read") /\ Whose(g.company)
    BY DEF Granted
  <1>3. (\E g \in GrantsFor(p.id) : Covers(g, e.type, "read") /\ Whose(g.company))
        <=> \E g \in GrantsFor(p.id) : Live(g) /\ (\E s \in g.scopes : In(s)) /\ Whose(g.company)
    <2> HIDE DEF In, Whose
    <2> QED
      BY <1>1
  <1>4. ReadPrefilter(e, p) <=>
          \/ e.visibility = "public"
          \/ p.kind = "company" /\ e.subject = p.id
          \/ p.kind = "company" /\ e.visibility = "counterparties" /\ p.id \in e.counterparties
          \/ p.kind = "module" /\ NamesModule(e, p.id)
          \/ /\ p.kind = "module" /\ e.visibility # "private"
             /\ \E g \in GrantsFor(p.id) : Live(g) /\ (\E s \in g.scopes : In(s)) /\ Whose(g.company)
    <2>1. (\E g \in GrantsFor(p.id) :
             /\ Live(g)
             /\ \E s \in g.scopes : IF s.type # None THEN s.type = e.type ELSE s.namespace \in {"*", Info[e.type].namespace}
             /\ g.company = e.subject \/ (e.visibility = "counterparties" /\ g.company \in e.counterparties))
          <=> \E g \in GrantsFor(p.id) : Live(g) /\ (\E s \in g.scopes : In(s)) /\ Whose(g.company)
      OBVIOUS
    <2> HIDE DEF In, Whose, e
    <2> QED
      BY <2>1 DEF ReadPrefilter
  <1> HIDE DEF In, Whose, e
  <1>5. ReadPrefilter(e, p) <=> CanRead(e, p)
    BY <1>2, <1>3, <1>4 DEF CanRead
  <1> QED
    BY <1>5 DEF e

\* Each event announces the record at its place.
InOrder == events = [r \in Records |-> r]

\* The events are as many as the records, and announce them in their order.
LEMMA EventsInOrder ==
  ASSUME TypeOK, InOrder
  PROVE  /\ Len(records) \in Nat /\ Len(events) = Len(records)
         /\ \A e \in Records : events[e] = e
PROOF
  <1>1. Len(records) \in Nat
    BY DEF TypeOK, Table
  <1>2. events \in [1..Len(records) -> Nat]
    BY <1>1 DEF InOrder, Records
  <1>3. events \in Seq(Nat)
    BY <1>1, <1>2, SeqDef
  <1> QED
    BY <1>1, <1>2, <1>3, LenProperties DEF InOrder

\* A record and its event are inserted together.
LEMMA OrderNext ==
  ASSUME TypeOK, [Next]_vars, InOrder
  PROVE  InOrder'
PROOF
  <1>1. UNCHANGED tables \/ \E env : Write(env)
    BY Steps
  <1>2. CASE UNCHANGED tables
    BY <1>2 DEF tables, InOrder, Records
  <1>3. ASSUME NEW env, Write(env) PROVE InOrder'
    <2> DEFINE n == Len(records) + 1
    <2>1. n \in Nat /\ Len(events) = n - 1 /\ \A e \in Records : events[e] = e
      BY EventsInOrder
    <2>2. Records' = 1..n /\ Records = 1..(n - 1) /\ env.id = n
      <3>1. Records' = Records \cup {n} /\ env.id = n
        BY <1>3, HeadsNext
      <3> QED
        BY <2>1, <3>1 DEF Records
    <2>3. events \in Seq(Nat)
      <3>1. events \in [1..Len(records) -> Nat] /\ Len(records) \in Nat
        BY <2>1 DEF InOrder, Records
      <3> QED
        BY <3>1, SeqDef
    <2>4. events' = Append(events, n)
      BY <1>3, <2>2 DEF Write, Insert
    <2> HIDE DEF n
    <2>5. /\ Append(events, n) \in Seq(Nat) /\ Len(Append(events, n)) = n
          /\ \A e \in 1..(n - 1) : Append(events, n)[e] = events[e]
          /\ Append(events, n)[n] = n
      BY <2>1, <2>3, AppendProperties
    <2>6. Append(events, n) = [e \in 1..n |-> Append(events, n)[e]]
      BY <2>5, LenProperties
    <2>7. \A e \in 1..n : Append(events, n)[e] = e
      BY <2>1, <2>2, <2>5
    <2>8. events' = [e \in 1..n |-> e]
      BY <2>4, <2>6, <2>7
    <2> QED
      BY <2>2, <2>8 DEF InOrder
  <1> QED
    BY <1>1, <1>2, <1>3

\* The page of a caller: of the events after its cursor that it may read, the
\* first ones, and none only if there are none.
LEMMA PageFacts ==
  ASSUME TypeOK, GrantRows, InOrder, NEW p \in Callers, NEW after \in Nat
  PROVE  LET rest == {e \in (after + 1)..Len(records) : CanRead(records[e], p)} IN
         /\ Page(p, after) \subseteq rest
         /\ \A x \in Page(p, after), y \in rest : y < x => y \in Page(p, after)
         /\ Page(p, after) = {} => rest = {}
PROOF
  <1> DEFINE rest == {e \in (after + 1)..Len(records) : CanRead(records[e], p)}
             found == {e \in (after + 1)..Len(events) : ReadPrefilter(records[events[e]], p)}
             rows == Least(PageLimit + 1, rest)
  <1>1. /\ Len(records) \in Nat /\ Len(events) = Len(records)
        /\ \A e \in (after + 1)..Len(records) : e \in Nat /\ e \in Records /\ events[e] = e
    BY EventsInOrder DEF Records
  <1>2. \A e \in (after + 1)..Len(records) : ReadPrefilter(records[e], p) <=> CanRead(records[e], p)
    BY <1>1, FilterHolds DEF FilterExact
  <1>3. found = rest
    BY <1>1, <1>2
  <1>4. rest \in SUBSET Nat /\ IsFiniteSet(rest)
    <2>1. IsFiniteSet((after + 1)..Len(records))
      BY <1>1, FS_Interval
    <2> QED
      BY <1>1, <2>1, FS_Subset
  <1>5. rows \subseteq rest
    BY DEF Least
  <1>6. \A e \in rows : CanRead(records[events[e]], p)
    BY <1>1, <1>5
  <1>7. Page(p, after) = Least(PageLimit, rows)
    <2>1. Scanned(p, after, PageLimit + 1) = rows
      BY <1>3 DEF Scanned
    <2> HIDE DEF rows
    <2>2. {e \in rows : CanRead(records[events[e]], p)} = rows
      BY <1>6
    <2> QED
      BY <2>1, <2>2 DEF Page
  <1> HIDE DEF rest
  <1>8. /\ Page(p, after) \subseteq rest
        /\ \A x \in Page(p, after), y \in rest : y < x => y \in Page(p, after)
        /\ Page(p, after) = {} => rest = {}
    BY <1>4, <1>5, <1>7, PageOf
  <1> QED
    BY <1>8 DEF rest

\* What a company may read of a record.
Reads(e, c) ==
  e.visibility = "public" \/ e.subject = c \/ (e.visibility = "counterparties" /\ c \in e.counterparties)

\* The consumer has processed what it may read up to its cursor.
Caught ==
  /\ consumer.cursor \in 0..Len(records)
  /\ consumer.seen = {e \in 1..consumer.cursor : Reads(records[e], limit.consumer)}

\* The consumer changes only when it polls.
LEMMA ConsumerSteps ==
  ASSUME [Next]_vars
  PROVE  consumer' = consumer \/ (Poll /\ UNCHANGED <<tables, limit>>)
PROOF
  <1>1. ASSUME NEW env, WriteRecord(env) PROVE consumer' = consumer
    BY <1>1 DEF WriteRecord
  <1>2. ASSUME NEW type \in limit.types, First(type) PROVE consumer' = consumer
    BY <1>1, <1>2 DEF First
  <1>3. ASSUME NEW r \in Records, Supersede(r) PROVE consumer' = consumer
    BY <1>1, <1>3 DEF Supersede
  <1>4. ASSUME NEW c, NEW k, NEW list, NEW vis, CreateCompany(c, k, list, vis) PROVE consumer' = consumer
    BY <1>4 DEF CreateCompany
  <1>5. ASSUME NEW m, NEW caller, NEW k, NEW others, NEW list, NEW vis, CreateModule(m, caller, k, others, list, vis)
        PROVE  consumer' = consumer
    BY <1>5 DEF CreateModule
  <1>6. CASE Poll
    BY <1>6 DEF Poll
  <1>7. CASE Tick \/ UNCHANGED vars
    BY <1>7 DEF Tick, vars
  <1> QED
    BY <1>2, <1>3, <1>4, <1>5, <1>6, <1>7 DEF Next, Register

\* Nothing before the cursor changes for a reader, and a page leaves out nothing
\* between the cursor and its last event.
LEMMA CaughtNext ==
  ASSUME TypeOK, GrantRows, InOrder, [Next]_vars, Caught
  PROVE  Caught'
PROOF
  <1>0. Len(records) \in Nat /\ \A e \in 1..Len(records) : e \in Records
    BY DEF TypeOK, Table, Records
  <1>1. CASE consumer' = consumer
    <2>1. limit' = limit /\ (UNCHANGED tables \/ \E env : Write(env))
      BY Steps
    <2>2. CASE UNCHANGED tables
      BY <1>1, <2>1, <2>2 DEF tables, Caught
    <2>3. ASSUME NEW env, Write(env) PROVE Caught'
      <3>1. /\ Len(records') = Len(records) + 1
            /\ \A e \in Records : SameRecord(records'[e], records[e])
        BY <2>3, InsertFacts DEF Write, TypeOK
      <3>2. \A e \in 1..consumer.cursor : Reads(records'[e], limit.consumer) <=> Reads(records[e], limit.consumer)
        <4> SUFFICES ASSUME NEW e \in 1..consumer.cursor
                     PROVE  Reads(records'[e], limit.consumer) <=> Reads(records[e], limit.consumer)
          OBVIOUS
        <4>1. e \in Records
          BY <1>0 DEF Caught
        <4> QED
          BY <3>1, <4>1 DEF SameRecord, Reads
      <3>3. consumer.cursor \in 0..(Len(records) + 1)
        BY <1>0 DEF Caught
      <3> QED
        BY <1>1, <2>1, <3>1, <3>2, <3>3 DEF Caught
    <2> QED
      BY <2>1, <2>2, <2>3
  <1>2. CASE Poll /\ UNCHANGED <<tables, limit>>
    <2> DEFINE after == consumer.cursor
    <2>1. PICK p \in Callers :
            /\ p.kind = "company" /\ p.id = limit.consumer /\ Page(p, after) # {}
            /\ consumer' = [cursor |-> Last(Page(p, after)),
                            seen |-> consumer.seen \cup {events[e] : e \in Page(p, after)}]
      BY <1>2 DEF Poll
    <2> DEFINE page == Page(p, after)
               rest == {e \in (after + 1)..Len(records) : CanRead(records[e], p)}
               last == Last(page)
    <2>2. /\ after \in Nat /\ after <= Len(records)
          /\ consumer.seen = {e \in 1..after : Reads(records[e], limit.consumer)}
      BY <1>0 DEF Caught
    <2>3. page \subseteq rest /\ \A x \in page, y \in rest : y < x => y \in page
      BY <2>2, PageFacts
    <2>4. \A e : CanRead(records[e], p) <=> Reads(records[e], limit.consumer)
      BY <2>1 DEF CanRead, Reads
    <2>5. last \in page /\ \A y \in page : y <= last
      <3>1. \A e \in rest : e \in 0..Len(records)
        BY <1>0, <2>2
      <3>2. page \in SUBSET (0..Len(records))
        <4> HIDE DEF rest, page
        <4> QED
          BY <2>3, <3>1
      <3> HIDE DEF page
      <3> QED
        BY <1>0, <2>1, <3>2, LastRow DEF page
    <2>6. \A e : e \in rest <=> /\ e \in (after + 1)..Len(records) /\ Reads(records[e], limit.consumer)
      BY <2>4
    <2>7. \A e \in page : events[e] = e
      <3>1. \A e \in rest : e \in Records
        BY <1>0, <2>2
      <3> HIDE DEF rest, page
      <3> QED
        BY <2>3, <3>1, EventsInOrder
    <2> HIDE DEF rest, page, last, after
    <2>8. last \in (after + 1)..Len(records)
      BY <2>3, <2>5, <2>6
    <2>9. \A e : e \in page <=> e \in (after + 1)..last /\ Reads(records[e], limit.consumer)
      <3>1. ASSUME NEW e \in page PROVE e \in (after + 1)..last /\ Reads(records[e], limit.consumer)
        BY <1>0, <2>2, <2>3, <2>5, <2>6, <2>8
      <3>2. ASSUME NEW e \in (after + 1)..last, Reads(records[e], limit.consumer) PROVE e \in page
        <4>1. e \in rest /\ (e = last \/ e < last)
          BY <1>0, <2>2, <2>6, <2>8, <3>2
        <4> QED
          BY <2>3, <2>5, <4>1
      <3> QED
        BY <3>1, <3>2
    <2>10. consumer'.cursor = last /\ consumer'.seen = consumer.seen \cup page
      <3>1. {events[e] : e \in page} = page
        BY <2>7
      <3> QED
        BY <2>1, <3>1 DEF page, last, after
    <2>11. consumer'.seen = {e \in 1..last : Reads(records[e], limit.consumer)}
      <3>1. \A e : e \in 1..last <=> e \in 1..after \/ e \in (after + 1)..last
        BY <1>0, <2>2, <2>8
      <3> QED
        BY <2>2, <2>9, <2>10, <3>1
    <2>12. last \in 0..Len(records)
      BY <1>0, <2>2, <2>8
    <2>13. records' = records /\ limit' = limit
      BY <1>2 DEF tables
    <2> QED
      BY <2>10, <2>11, <2>12, <2>13 DEF Caught
  <1> QED
    BY <1>1, <1>2, ConsumerSteps

\* A page of the listing of records, and whether it names a cursor to go on from.
LEMMA ListingFacts ==
  ASSUME TypeOK, GrantRows, NEW p \in Callers, NEW after \in Nat
  PROVE  LET page == RecordPage(p, after)
             rest == {h \in Heads : h > after /\ CanRead(records[h], p)} \ page.records
         IN  IF page.more THEN page.records # {} /\ \A h \in rest : h > Last(page.records) ELSE rest = {}
PROOF
  <1> DEFINE found == {h \in Heads : h > after /\ ReadPrefilter(records[h], p)}
             all == {h \in Heads : h > after /\ CanRead(records[h], p)}
             rows == Least(PageLimit + 1, all)
             shown == Least(PageLimit, rows)
  <1>1. Len(records) \in Nat /\ \A h \in Heads : h \in Records /\ h \in 0..Len(records) /\ h \in Nat
    BY DEF TypeOK, Table, Heads, Records
  <1>2. found = all
    <2>1. \A h \in Heads : ReadPrefilter(records[h], p) <=> CanRead(records[h], p)
      BY <1>1, FilterHolds DEF FilterExact
    <2> QED
      BY <2>1
  <1>3. all \in SUBSET Nat /\ IsFiniteSet(all) /\ all \in SUBSET (0..Len(records))
    <2>1. IsFiniteSet(0..Len(records)) /\ all \in SUBSET (0..Len(records)) /\ all \in SUBSET Nat
      BY <1>1, FS_Interval
    <2> HIDE DEF all
    <2> QED
      BY <2>1, FS_Subset
  <1>4. rows \subseteq all /\ \A h \in rows : CanRead(records[h], p)
    BY DEF Least
  <1>5. RecordPage(p, after) = [records |-> shown, more |-> Cardinality(rows) > PageLimit /\ shown # {}]
    <2> HIDE DEF all
    <2>1. {h \in rows : CanRead(records[h], p)} = rows
      BY <1>4
    <2> QED
      BY <1>2, <2>1 DEF RecordPage
  <1> HIDE DEF all
  <1>6. /\ shown \subseteq rows /\ rows \subseteq all
        /\ \A x \in shown, y \in all : y < x => y \in shown
        /\ shown = {} => all = {}
        /\ ~(Cardinality(rows) > PageLimit) => shown = all
    BY <1>3, PageOf
  <1> HIDE DEF rows, shown
  <1>7. ASSUME shown # {} PROVE \A h \in all \ shown : h > Last(shown)
    <2>1. shown \in SUBSET (0..Len(records))
      BY <1>3, <1>6
    <2>2. Last(shown) \in shown
      BY <1>1, <1>7, <2>1, LastRow
    <2>3. \A h \in all : h \in Nat
      BY <1>3
    <2> QED
      BY <1>6, <2>2, <2>3
  <1>8. IF Cardinality(rows) > PageLimit /\ shown # {}
        THEN shown # {} /\ \A h \in all \ shown : h > Last(shown) ELSE all \ shown = {}
    BY <1>6, <1>7
  <1> DEFINE page == RecordPage(p, after)
  <1>9. page.records = shown /\ page.more = (Cardinality(rows) > PageLimit /\ shown # {})
    BY <1>5
  <1> HIDE DEF page
  <1>10. IF page.more THEN page.records # {} /\ \A h \in all \ page.records : h > Last(page.records)
         ELSE all \ page.records = {}
    BY <1>8, <1>9
  <1> QED
    BY <1>10 DEF all, page

\* A consumer that follows its cursor misses nothing it may read, and a page or a
\* listing that ends has come to the end (listEvents, listRecords).
THEOREM SafeFeed == Spec => []FeedComplete
PROOF
  <1> DEFINE Inv == TypeOK /\ GrantRows /\ InOrder /\ Caught
  <1>1. Init => Inv
    <2> SUFFICES ASSUME Init PROVE InOrder /\ Caught
      BY TypeInit, GrantsInit
    <2>1. InOrder
      BY DEF Init, InOrder, Records
    <2>2. consumer = [cursor |-> 0, seen |-> {}] /\ Len(records) \in Nat
      BY TypeInit DEF Init, TypeOK, Table
    <2> QED
      BY <2>1, <2>2 DEF Caught
  <1>2. Inv /\ [Next]_vars => Inv'
    BY TypeNext, GrantsNext, OrderNext, CaughtNext
  <1>3. Inv => FeedComplete
    <2> SUFFICES ASSUME Inv PROVE FeedComplete
      OBVIOUS
    <2>1. /\ Len(records) \in Nat /\ Len(events) = Len(records)
          /\ \A e \in Records : events[e] = e
      BY EventsInOrder
    <2>2. ASSUME NEW p \in Callers, p.kind = "company", p.id = limit.consumer
          PROVE  consumer.seen = {events[e] : e \in {x \in 1..consumer.cursor : CanRead(records[events[x]], p)}}
      <3>1. \A e : CanRead(records[e], p) <=> Reads(records[e], limit.consumer)
        BY <2>2 DEF CanRead, Reads
      <3>2. \A e \in 1..consumer.cursor : events[e] = e
        BY <2>1 DEF Caught, Records
      <3> QED
        BY <3>1, <3>2 DEF Caught
    <2>3. ASSUME NEW p \in Callers, NEW after \in 0..Len(events), Page(p, after) = {}
          PROVE  \A e \in (after + 1)..Len(events) : ~CanRead(records[events[e]], p)
      <3>1. {e \in (after + 1)..Len(records) : CanRead(records[e], p)} = {}
        BY <2>1, <2>3, PageFacts
      <3>2. \A e \in (after + 1)..Len(events) : events[e] = e
        BY <2>1 DEF Records
      <3> QED
        BY <2>1, <3>1, <3>2
    <2>4. ASSUME NEW p \in Callers, NEW after \in 0..Len(records)
          PROVE  LET page == RecordPage(p, after)
                     rest == {h \in Heads : h > after /\ CanRead(records[h], p)} \ page.records
                 IN  IF page.more THEN page.records # {} /\ \A h \in rest : h > Last(page.records) ELSE rest = {}
      BY <2>1, ListingFacts
    <2> QED
      BY <2>2, <2>3, <2>4, FilterHolds DEF FeedComplete
  <1> QED
    BY <1>1, <1>2, <1>3, PTL DEF Spec
=============================================================================
