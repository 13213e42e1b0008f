---------------------------- MODULE TradeContract ----------------------------
(***************************************************************************)
(* The NEAR settlement contract (contracts/src/lib.rs): parties and their  *)
(* agents, catalogs, lots and tracking events, intents, listings, offers,  *)
(* contracts, attestations, disputes, settlements, standing agreements and *)
(* relationships.  One call is one action: a call that panics changes      *)
(* nothing.  Tables are sequences, an entry's position standing for its    *)
(* identifier.  A contract's total value and net freight are small numbers,*)
(* and a volume of 1 stands for 50,000 USD.                                *)
(***************************************************************************)
EXTENDS Integers, Sequences, FiniteSets, SequencesExt, FiniteSetsExt

CONSTANTS
  Account,        \* NEAR accounts
  Owner,          \* the account that owns the protocol contract
  DisputeWindow,  \* dispute_window_hours, in ticks
  MaxInputs,      \* bound of the model: the inputs of one transformation
  None,           \* Option::None
  Seeds           \* states to start from, each with its bounds

ASSUME ContractAssumption == DisputeWindow \in Nat /\ MaxInputs \in Nat /\ None \notin Account \cup Nat

VARIABLES
  now,            \* block time
  parties,        \* registered accounts: agents and reputation
  catalogs, lots, ctes, lot_cte_index,
  intents, listings, offers,
  contracts, fulfillments, settlements,
  agreements, relationships,
  limit           \* fixed by the seed: bounds on the entries of each table and on
                  \* the clock, and the quantities, prices, extras and arbitrators of the calls

goods == <<catalogs, lots, ctes, lot_cte_index>>
book == <<intents, listings, offers>>
deals == <<contracts, fulfillments, settlements>>
ties == <<agreements, relationships>>
vars == <<now, parties, goods, book, deals, ties, limit>>

(* The entries of the tables. *)

Party == [agents : SUBSET Account, completed : Nat, disputed : Nat, on_time : Nat]
GoodsCatalogEntry == [owner : Account, version : Nat]
ProvenanceEvent == [from : Account, to : Account, qty : Nat]
InputLotRef == [lot : Nat, qty : Nat]
LotStatus == {"Available", "PartiallyAllocated", "FullyAllocated", "Fulfilled", "Disposed"}
GoodsLot == [owner : Account, origin : Account, catalog : Nat, total : Nat, available : Nat,
             status : LotStatus, provenance : Seq(ProvenanceEvent), coas : Nat, inputs : Seq(InputLotRef)]
Fsma204Cte == [actor : Account, lot : Nat, output : Nat \cup {None}]
TradeIntent == [buyer : Account, ceiling : Nat, status : {"Posted", "Contracted", "Cancelled"}]
SupplyListing == [seller : Account, lot : Nat \cup {None}, status : {"Active", "Contracted", "Withdrawn"}]
Offer == [on : {"Intent", "Listing"}, target : Nat, offerer : Account, qty : Nat, price : Nat,
          freight : Nat, status : {"Submitted", "Accepted", "Retracted"}]
ContractStatus == {"Active", "InFulfillment", "Settled", "Disputed", "ResolvedBuyer", "ResolvedSeller"}
Contract == [offer : Nat, buyer : Account, seller : Account, lot : Nat \cup {None}, qty : Nat,
             total : Nat, arbitrator : Account \cup {None}, status : ContractStatus]
Fulfillment == [contract : Nat, signed_at : Nat, status : {"SellerAttested", "Complete", "Disputed"}]
Settlement == [contract : Nat, net : Nat]
RelationshipTier == {"New", "Established", "Preferred", "Strategic"}
RelationshipRecord == [trades : Nat, volume : Nat, agreements : SUBSET Nat, tier : RelationshipTier]
StandingAgreement == [buyer : Account, seller : Account, signed : SUBSET {"Buyer", "Seller"},
                      status : {"Proposed", "Active"}]

\* Nothing is contracted yet: the lots are whole, the intents and listings without
\* a contract.  Quantities, prices and extras are not negative, anybody may arbitrate.
ASSUME SeedsAssumption ==
  \A s \in Seeds :
    /\ DOMAIN s.parties \subseteq Account /\ s.parties \in [DOMAIN s.parties -> Party]
    /\ s.catalogs \in Seq(GoodsCatalogEntry) /\ s.lots \in Seq(GoodsLot)
    /\ s.intents \in Seq(TradeIntent) /\ s.listings \in Seq(SupplyListing)
    /\ \A l \in DOMAIN s.lots : s.lots[l].available = s.lots[l].total /\ s.lots[l].inputs = <<>>
    /\ \A i \in DOMAIN s.intents : s.intents[i].status # "Contracted"
    /\ \A i \in DOMAIN s.listings : /\ s.listings[i].status # "Contracted"
                                   /\ s.listings[i].lot \in DOMAIN s.lots \cup {None}
    /\ s.limit.amounts \subseteq Nat /\ s.limit.prices \subseteq Nat /\ s.limit.extras \subseteq Nat
    /\ s.limit.arbitrators \subseteq Account \cup {None}

Init ==
  \E s \in Seeds :
    /\ now = 0
    /\ parties = s.parties
    /\ catalogs = s.catalogs /\ lots = s.lots /\ ctes = <<>>
    /\ lot_cte_index = [l \in DOMAIN s.lots |-> {}]
    /\ intents = s.intents /\ listings = s.listings /\ offers = <<>>
    /\ contracts = <<>> /\ fulfillments = <<>> /\ settlements = <<>>
    /\ agreements = <<>> /\ relationships = <<>>
    /\ limit = s.limit

-----------------------------------------------------------------------------
(* Parties and their agents. *)

Registered(a) == a \in DOMAIN parties

\* The account itself, or an agent it has authorized.
PartyOrAgent(owner, caller) ==
  caller = owner \/ (Registered(owner) /\ caller \in parties[owner].agents)

RegisterParty(caller) ==
  /\ ~Registered(caller) /\ Cardinality(DOMAIN parties) < limit.parties
  /\ parties' = [a \in DOMAIN parties \cup {caller} |->
                   IF a = caller THEN [agents |-> {}, completed |-> 0, disputed |-> 0, on_time |-> 0]
                   ELSE parties[a]]
  /\ UNCHANGED <<now, goods, book, deals, ties, limit>>

AuthorizeAgent(caller, agent) ==
  /\ Registered(caller) /\ agent # caller
  /\ <<caller, agent>> \in limit.agents
  /\ parties' = [parties EXCEPT ![caller].agents = @ \cup {agent}]
  /\ UNCHANGED <<now, goods, book, deals, ties, limit>>

RevokeAgent(caller, agent) ==
  /\ Registered(caller)
  /\ parties' = [parties EXCEPT ![caller].agents = @ \ {agent}]
  /\ UNCHANGED <<now, goods, book, deals, ties, limit>>

-----------------------------------------------------------------------------
(* Catalogs and lots. *)

CreateCatalogEntry(caller) ==
  /\ Registered(caller) /\ Len(catalogs) < limit.catalogs
  /\ catalogs' = Append(catalogs, [owner |-> caller, version |-> 1])
  /\ UNCHANGED <<now, parties, lots, ctes, lot_cte_index, book, deals, ties, limit>>

UpdateCatalogEntry(caller, k) ==
  /\ PartyOrAgent(catalogs[k].owner, caller) /\ catalogs[k].version < limit.versions
  /\ catalogs' = [catalogs EXCEPT ![k].version = @ + 1]
  /\ UNCHANGED <<now, parties, lots, ctes, lot_cte_index, book, deals, ties, limit>>

NewLot(owner, k, q, inputs) ==
  [owner |-> owner, origin |-> owner, catalog |-> k, total |-> q, available |-> q,
   status |-> "Available", provenance |-> <<>>, coas |-> 0, inputs |-> inputs]

CreateLot(caller, k, q) ==
  /\ Registered(caller) /\ q > 0 /\ Len(lots) < limit.lots
  /\ lots' = Append(lots, NewLot(caller, k, q, <<>>))
  /\ lot_cte_index' = Append(lot_cte_index, {})
  /\ UNCHANGED <<now, parties, catalogs, ctes, book, deals, ties, limit>>

\* Spoiled, Donated and Recalled are treated alike.
DisposeLot(caller, l) ==
  /\ PartyOrAgent(lots[l].owner, caller)
  /\ lots[l].status \in {"Available", "PartiallyAllocated"}
  /\ lots' = [lots EXCEPT ![l].status = "Disposed"]
  /\ UNCHANGED <<now, parties, catalogs, ctes, lot_cte_index, book, deals, ties, limit>>

AnchorCoa(caller, l) ==
  /\ PartyOrAgent(lots[l].owner, caller) /\ lots[l].coas < limit.coas
  /\ lots' = [lots EXCEPT ![l].coas = @ + 1]
  /\ UNCHANGED <<now, parties, catalogs, ctes, lot_cte_index, book, deals, ties, limit>>

\* A lot less the quantity q, with the status that follows from the rest.
Debited(lot, q) ==
  [lot EXCEPT !.available = @ - q,
              !.status = IF lot.available = q THEN "FullyAllocated" ELSE "PartiallyAllocated"]

\* Ownership moves with the whole lot, whatever quantity the contract names.
Transferred(lot, c) ==
  [lot EXCEPT !.owner = c.buyer, !.status = "Fulfilled",
              !.provenance = Append(@, [from |-> c.seller, to |-> c.buyer, qty |-> c.qty])]

-----------------------------------------------------------------------------
(* FSMA 204 tracking events. *)

\* Fault: only the primary lot and the output are indexed.
WriteCteFault(cte, touched, index) ==
  /\ Len(ctes) < limit.ctes
  /\ ctes' = Append(ctes, cte)
  /\ lot_cte_index' = [l \in DOMAIN index |->
                         IF l \in {cte.lot, cte.output} THEN index[l] \cup {Len(ctes) + 1} ELSE index[l]]

\* The event's record, and its identifier under every lot it touches.
WriteCte(cte, touched, index) ==
  /\ Len(ctes) < limit.ctes
  /\ ctes' = Append(ctes, cte)
  /\ lot_cte_index' = [l \in DOMAIN index |->
                         IF l \in touched THEN index[l] \cup {Len(ctes) + 1} ELSE index[l]]

\* Growing, creating, shipping and receiving: the caller acts for the owner and
\* must itself be a registered party.
RecordCte(caller, l) ==
  /\ PartyOrAgent(lots[l].owner, caller) /\ Registered(caller)
  /\ WriteCte([actor |-> caller, lot |-> l, output |-> None], {l}, lot_cte_index)
  /\ UNCHANGED <<now, parties, catalogs, lots, book, deals, ties, limit>>

\* Fault: every input is debited from the lot as it was before the call.
DebitInputsFault(inputs) ==
  LET after[i \in 0..Len(inputs)] ==
        IF i = 0 THEN lots
        ELSE [after[i - 1] EXCEPT ![inputs[i].lot] = Debited(lots[inputs[i].lot], inputs[i].qty)]
  IN  after[Len(inputs)]

\* One input after the other, as the loop debits them: a lot may be named twice.
DebitInputs(inputs) ==
  LET after[i \in 0..Len(inputs)] ==
        IF i = 0 THEN lots
        ELSE [after[i - 1] EXCEPT ![inputs[i].lot] = Debited(@, inputs[i].qty)]
  IN  after[Len(inputs)]

Drawn(inputs, l) ==
  SumFunctionOnSet([i \in DOMAIN inputs |-> inputs[i].qty], {i \in DOMAIN inputs : inputs[i].lot = l})

TransformLot(caller, inputs, k, q) ==
  /\ Registered(caller) /\ inputs # <<>> /\ q > 0 /\ Len(lots) < limit.lots
  /\ \A i \in DOMAIN inputs : PartyOrAgent(lots[inputs[i].lot].owner, caller)
  /\ \A l \in DOMAIN lots : Drawn(inputs, l) <= lots[l].available
  /\ lots' = Append(DebitInputs(inputs), NewLot(caller, k, q, inputs))
  /\ WriteCte([actor |-> caller, lot |-> inputs[1].lot, output |-> Len(lots) + 1],
              {inputs[i].lot : i \in DOMAIN inputs} \cup {Len(lots) + 1},
              Append(lot_cte_index, {}))
  /\ UNCHANGED <<now, parties, catalogs, book, deals, ties, limit>>

-----------------------------------------------------------------------------
(* Intents, listings and offers. *)

PostIntent(caller, ceiling) ==
  /\ Registered(caller) /\ Len(intents) < limit.intents
  /\ intents' = Append(intents, [buyer |-> caller, ceiling |-> ceiling, status |-> "Posted"])
  /\ UNCHANGED <<now, parties, goods, listings, offers, deals, ties, limit>>

CancelIntent(caller, i) ==
  /\ intents[i].buyer = caller /\ intents[i].status = "Posted"
  /\ intents' = [intents EXCEPT ![i].status = "Cancelled"]
  /\ UNCHANGED <<now, parties, goods, listings, offers, deals, ties, limit>>

\* The seller is the caller, also when the lot belongs to a party it acts for.
PostListing(caller, l) ==
  /\ Registered(caller) /\ Len(listings) < limit.listings
  /\ l # None => /\ PartyOrAgent(lots[l].owner, caller)
                 /\ lots[l].status \in {"Available", "PartiallyAllocated"}
  /\ listings' = Append(listings, [seller |-> caller, lot |-> l, status |-> "Active"])
  /\ UNCHANGED <<now, parties, goods, intents, offers, deals, ties, limit>>

WithdrawListing(caller, i) ==
  /\ listings[i].seller = caller /\ listings[i].status = "Active"
  /\ listings' = [listings EXCEPT ![i].status = "Withdrawn"]
  /\ UNCHANGED <<now, parties, goods, intents, offers, deals, ties, limit>>

SubmitOffer(caller, on, target, q, p, freight) ==
  /\ Registered(caller) /\ Len(offers) < limit.offers
  /\ IF on = "Intent" THEN intents[target].status = "Posted"
     ELSE listings[target].status = "Active"
  /\ offers' = Append(offers, [on |-> on, target |-> target, offerer |-> caller,
                               qty |-> q, price |-> p, freight |-> freight, status |-> "Submitted"])
  /\ UNCHANGED <<now, parties, goods, intents, listings, deals, ties, limit>>

RetractOffer(caller, o) ==
  /\ offers[o].offerer = caller /\ offers[o].status = "Submitted"
  /\ offers' = [offers EXCEPT ![o].status = "Retracted"]
  /\ UNCHANGED <<now, parties, goods, intents, listings, deals, ties, limit>>

\* Fault: a listing that is no longer active can still be sold from.
SellableFault(caller, i) == listings[i].seller = caller
Sellable(caller, i) == listings[i].seller = caller /\ listings[i].status = "Active"

\* The contract an accepted offer forms.
Formed(caller, o, arbitrator) ==
  LET offer == offers[o]
      onIntent == offer.on = "Intent"
  IN [offer |-> o, buyer |-> IF onIntent THEN caller ELSE offer.offerer,
      seller |-> IF onIntent THEN offer.offerer ELSE caller,
      lot |-> IF onIntent THEN None ELSE listings[offer.target].lot,
      qty |-> offer.qty, total |-> offer.price, arbitrator |-> arbitrator, status |-> "Active"]

AcceptIntentOffer(caller, o, arbitrator) ==
  LET i == offers[o].target IN
  /\ offers[o].on = "Intent" /\ offers[o].status = "Submitted" /\ Len(contracts) < limit.contracts
  /\ intents[i].buyer = caller /\ intents[i].status = "Posted"
  /\ offers[o].price + offers[o].freight <= intents[i].ceiling
  /\ intents' = [intents EXCEPT ![i].status = "Contracted"]
  /\ offers' = [offers EXCEPT ![o].status = "Accepted"]
  /\ contracts' = Append(contracts, Formed(caller, o, arbitrator))
  /\ UNCHANGED <<now, parties, goods, listings, fulfillments, settlements, ties, limit>>

AcceptListingOffer(caller, o, arbitrator) ==
  LET i == offers[o].target
      l == listings[i].lot
  IN
  /\ offers[o].on = "Listing" /\ offers[o].status = "Submitted" /\ Len(contracts) < limit.contracts
  /\ Sellable(caller, i)
  /\ IF l = None THEN UNCHANGED lots
     ELSE /\ lots[l].available >= offers[o].qty
          /\ lots' = [lots EXCEPT ![l] = Debited(@, offers[o].qty)]
  /\ listings' = [listings EXCEPT ![i].status = "Contracted"]
  /\ offers' = [offers EXCEPT ![o].status = "Accepted"]
  /\ contracts' = Append(contracts, Formed(caller, o, arbitrator))
  /\ UNCHANGED <<now, parties, catalogs, ctes, lot_cte_index, intents, fulfillments,
                 settlements, ties, limit>>

-----------------------------------------------------------------------------
(* Settlement and its bookkeeping. *)

Reputed(ps, a, lost) ==
  LET r == ps[a]
      new == [r EXCEPT !.completed = @ + 1,
                       !.disputed = IF lost THEN @ + 1 ELSE @,
                       !.on_time = IF lost THEN @ ELSE @ + 1]
  IN  [ps EXCEPT ![a] = new]

DeriveTier(trades, volume, has_agreement) ==
  CASE has_agreement /\ volume >= 5 -> "Strategic"
    [] trades >= 10 \/ volume >= 1 \/ has_agreement -> "Preferred"
    [] trades >= 3 -> "Established"
    [] OTHER -> "New"

\* The relationship of a pair after one more settled trade; the first one opens it.
Related(pair, net) ==
  LET old == IF pair \in DOMAIN relationships THEN relationships[pair]
             ELSE [trades |-> 0, volume |-> 0, agreements |-> {}, tier |-> "New"]
      new == [old EXCEPT !.trades = @ + 1, !.volume = @ + net,
                         !.tier = DeriveTier(old.trades + 1, old.volume + net, old.agreements # {})]
  IN [p \in DOMAIN relationships \cup {pair} |-> IF p = pair THEN new ELSE relationships[p]]

\* execute_settlement: release the escrow less the deductions, hand over the lot
\* and count the trade; the callers then leave the contract in status final.
ExecuteSettlement(n, deducted, loser, final) ==
  LET c == contracts[n]
      net == Max({0, c.total - deducted})
  IN
  /\ Len(settlements) < limit.settlements
  /\ settlements' = Append(settlements, [contract |-> n, net |-> net])
  /\ IF c.lot = None THEN UNCHANGED lots
     ELSE lots' = [lots EXCEPT ![c.lot] = Transferred(@, c)]
  /\ contracts' = [contracts EXCEPT ![n].status = final]
  /\ relationships' = Related({c.buyer, c.seller}, net)
  /\ parties' = Reputed(Reputed(parties, c.buyer, loser = c.buyer), c.seller, loser = c.seller)
  /\ UNCHANGED <<now, catalogs, ctes, lot_cte_index, book, agreements, limit>>

SellerAttestDelivery(caller, n) ==
  /\ contracts[n].seller = caller /\ contracts[n].status \in {"Active", "InFulfillment"}
  /\ \A f \in DOMAIN fulfillments : fulfillments[f].contract # n
  /\ fulfillments' = Append(fulfillments, [contract |-> n, signed_at |-> now, status |-> "SellerAttested"])
  /\ contracts' = [contracts EXCEPT ![n].status = "InFulfillment"]
  /\ UNCHANGED <<now, parties, goods, book, settlements, ties, limit>>

BuyerAttestDelivery(caller, f, deducted) ==
  LET n == fulfillments[f].contract IN
  /\ contracts[n].buyer = caller /\ fulfillments[f].status = "SellerAttested"
  /\ fulfillments' = [fulfillments EXCEPT ![f].status = "Complete"]
  /\ ExecuteSettlement(n, deducted, None, "Settled")

\* Fault: the last instant of the window already counts as past it.
WindowClosedFault(f) == now >= fulfillments[f].signed_at + DisputeWindow
WindowClosed(f) == now > fulfillments[f].signed_at + DisputeWindow

Disputable(n) == contracts[n].status = "InFulfillment"   \* Delivered is never at rest

Contested(f) == [fulfillments EXCEPT ![f].status = "Disputed"]

InitiateDispute(caller, f) ==
  LET n == fulfillments[f].contract IN
  /\ contracts[n].buyer = caller /\ Disputable(n)
  /\ ~WindowClosed(f)
  /\ fulfillments' = Contested(f)
  /\ contracts' = [contracts EXCEPT ![n].status = "Disputed"]
  /\ UNCHANGED <<now, parties, goods, book, settlements, ties, limit>>

\* Anyone may call it; neither the attestation nor the contract is marked as used.
TriggerAutoSettlement(f) ==
  /\ fulfillments[f].status = "SellerAttested"
  /\ WindowClosed(f)
  /\ ExecuteSettlement(fulfillments[f].contract, 0, None, "Settled")
  /\ UNCHANGED fulfillments

ResolveDispute(caller, n, for, deducted) ==
  LET c == contracts[n] IN
  /\ caller \in {c.arbitrator, Owner} /\ c.status = "Disputed"
  /\ IF for = "Buyer" THEN ExecuteSettlement(n, deducted, c.seller, "ResolvedBuyer")
     ELSE ExecuteSettlement(n, deducted, c.buyer, "ResolvedSeller")
  /\ UNCHANGED fulfillments

-----------------------------------------------------------------------------
(* Standing agreements. *)

ProposeStandingAgreement(caller, counterparty, role) ==
  /\ Registered(caller) /\ Registered(counterparty) /\ Len(agreements) < limit.agreements
  /\ agreements' = Append(agreements,
       [buyer |-> IF role = "Buyer" THEN caller ELSE counterparty,
        seller |-> IF role = "Buyer" THEN counterparty ELSE caller,
        signed |-> {role}, status |-> "Proposed"])
  /\ UNCHANGED <<now, parties, goods, book, deals, relationships, limit>>

\* The proposer has signed, so the other signature activates; the pair's record, if it has one by then, gains
\* the agreement.
SignStandingAgreement(caller, g) ==
  LET a == agreements[g]
      role == IF caller = a.buyer THEN "Buyer" ELSE "Seller"
      pair == {a.buyer, a.seller}
  IN
  /\ caller \in pair /\ role \notin a.signed
  /\ agreements' = [agreements EXCEPT ![g].signed = @ \cup {role}, ![g].status = "Active"]
  /\ IF pair \in DOMAIN relationships
     THEN LET r == relationships[pair] IN
          relationships' = [relationships EXCEPT ![pair].agreements = @ \cup {g},
                                                 ![pair].tier = DeriveTier(r.trades, r.volume, TRUE)]
     ELSE UNCHANGED relationships
  /\ UNCHANGED <<now, parties, goods, book, deals, limit>>

Tick == now < limit.horizon /\ now' = now + 1 /\ UNCHANGED <<parties, goods, book, deals, ties, limit>>

Next ==
  \/ Tick
  \/ \E f \in DOMAIN fulfillments : TriggerAutoSettlement(f)
  \/ \E caller \in Account :
       \/ RegisterParty(caller)
       \/ \E a \in Account : AuthorizeAgent(caller, a) \/ RevokeAgent(caller, a)
       \/ CreateCatalogEntry(caller)
       \/ \E k \in DOMAIN catalogs : UpdateCatalogEntry(caller, k)
       \/ \E k \in DOMAIN catalogs, q \in limit.amounts : CreateLot(caller, k, q)
       \/ \E l \in DOMAIN lots : DisposeLot(caller, l) \/ AnchorCoa(caller, l) \/ RecordCte(caller, l)
       \/ \E inputs \in BoundedSeq([lot : DOMAIN lots, qty : limit.amounts], MaxInputs), k \in DOMAIN catalogs, q \in limit.amounts :
            TransformLot(caller, inputs, k, q)
       \/ \E p \in limit.prices : PostIntent(caller, p)
       \/ \E i \in DOMAIN intents : CancelIntent(caller, i)
       \/ \E l \in DOMAIN lots \cup {None} : PostListing(caller, l)
       \/ \E i \in DOMAIN listings : WithdrawListing(caller, i)
       \/ \E q \in limit.amounts, p \in limit.prices, freight \in limit.extras :
            \/ \E i \in DOMAIN intents : SubmitOffer(caller, "Intent", i, q, p, freight)
            \/ \E i \in DOMAIN listings : SubmitOffer(caller, "Listing", i, q, p, freight)
       \/ \E o \in DOMAIN offers : RetractOffer(caller, o)
       \/ \E o \in DOMAIN offers, arbitrator \in limit.arbitrators :
            AcceptIntentOffer(caller, o, arbitrator) \/ AcceptListingOffer(caller, o, arbitrator)
       \/ \E n \in DOMAIN contracts : SellerAttestDelivery(caller, n)
       \/ \E f \in DOMAIN fulfillments, d \in limit.extras : BuyerAttestDelivery(caller, f, d)
       \/ \E f \in DOMAIN fulfillments : InitiateDispute(caller, f)
       \/ \E n \in DOMAIN contracts, for \in {"Buyer", "Seller"}, d \in limit.extras : ResolveDispute(caller, n, for, d)
       \/ \E a \in Account, role \in {"Buyer", "Seller"} : ProposeStandingAgreement(caller, a, role)
       \/ \E g \in DOMAIN agreements : SignStandingAgreement(caller, g)

Spec == Init /\ [][Next]_vars

-----------------------------------------------------------------------------
(* Properties. *)

\* The tables hold their entries, and a tracking index names events that exist.
TypeOK ==
  /\ now \in Nat
  /\ DOMAIN parties \subseteq Account /\ parties \in [DOMAIN parties -> Party]
  /\ catalogs \in Seq(GoodsCatalogEntry) /\ lots \in Seq(GoodsLot) /\ ctes \in Seq(Fsma204Cte)
  /\ lot_cte_index \in [DOMAIN lots -> SUBSET DOMAIN ctes]
  /\ intents \in Seq(TradeIntent) /\ listings \in Seq(SupplyListing) /\ offers \in Seq(Offer)
  /\ contracts \in Seq(Contract) /\ fulfillments \in Seq(Fulfillment) /\ settlements \in Seq(Settlement)
  /\ agreements \in Seq(StandingAgreement)
  /\ DOMAIN relationships \subseteq SUBSET Account
  /\ relationships \in [DOMAIN relationships -> RelationshipRecord]
  /\ limit.amounts \subseteq Nat /\ limit.prices \subseteq Nat /\ limit.extras \subseteq Nat
  /\ limit.arbitrators \subseteq Account \cup {None}

Releases(n) == {s \in DOMAIN settlements : settlements[s].contract = n}
Attestation(n) == {f \in DOMAIN fulfillments : fulfillments[f].contract = n}

\* What is contracted from a lot and consumed by transformations is what the lot
\* is short of: allocation, repeated inputs and disposal never lose or mint goods.
GoodsConserved ==
  \A l \in DOMAIN lots :
    LET sold == {n \in DOMAIN contracts : contracts[n].lot = l}
    IN lots[l].total = lots[l].available
                       + SumFunctionOnSet([n \in DOMAIN contracts |-> contracts[n].qty], sold)
                       + SumFunction([m \in DOMAIN lots |-> Drawn(lots[m].inputs, l)])

\* One step up, one step down: a transformation is found from each of its inputs
\* and from its output, and no lot's index names an event that does not concern it.
TraceComplete ==
  \A e \in DOMAIN ctes :
    {l \in DOMAIN lots : e \in lot_cte_index[l]} =
      {ctes[e].lot} \cup IF ctes[e].output = None THEN {}
                        ELSE {ctes[e].output} \cup Range([i \in DOMAIN lots[ctes[e].output].inputs |->
                                                           lots[ctes[e].output].inputs[i].lot])

\* Money leaves escrow only on a delivery the seller attested, and then only when
\* the buyer confirmed it, the arbitrator ruled, or the dispute window is over.
ReleasedByRight ==
  \A s \in DOMAIN settlements :
    \E f \in Attestation(settlements[s].contract) :
      \/ fulfillments[f].status = "Complete"
      \/ fulfillments[f].status = "Disputed" /\ contracts[settlements[s].contract].status
                                                   \in {"ResolvedBuyer", "ResolvedSeller"}
      \/ now > fulfillments[f].signed_at + DisputeWindow

\* A disputed contract pays nobody until the ruling, and a ruled one paid once.
DisputePaysOnce ==
  \A n \in DOMAIN contracts :
    /\ contracts[n].status \in {"Active", "InFulfillment", "Disputed"} => Releases(n) = {}
    /\ contracts[n].status \in {"ResolvedBuyer", "ResolvedSeller"} => Cardinality(Releases(n)) = 1

\* An intent or a listing makes at most one contract, and is Contracted exactly
\* when it has one; the offers left over can never be accepted.
OneContractPerTarget ==
  LET Made(on, i) == {n \in DOMAIN contracts : offers[contracts[n].offer].on = on
                                            /\ offers[contracts[n].offer].target = i}
  IN /\ \A i \in DOMAIN intents :
          Cardinality(Made("Intent", i)) = IF intents[i].status = "Contracted" THEN 1 ELSE 0
     /\ \A i \in DOMAIN listings :
          Cardinality(Made("Listing", i)) = IF listings[i].status = "Contracted" THEN 1 ELSE 0

\* Less than the whole is paid once, after the buyer's answer or the ruling; and a contract
\* is paid again only when the window closed without a dispute.
Short(n) == {s \in Releases(n) : settlements[s].net < contracts[n].total}
ReducedOnce ==
  \A n \in DOMAIN contracts :
    /\ \A s, t \in Short(n) : s = t
    /\ Short(n) # {} => \A f \in Attestation(n) : fulfillments[f].status # "SellerAttested"
    /\ \A s, t \in Releases(n) : s # t =>
         \A f \in Attestation(n) : fulfillments[f].status # "Disputed"
                                  /\ now > fulfillments[f].signed_at + DisputeWindow

\* All three: money goes out by the right of whoever decides at that moment, a dispute stops it until
\* the ruling, and nobody deducts twice or from what was settled for want of an answer
\* (execute_settlement and its four callers).
PaidByRight == ReleasedByRight /\ DisputePaysOnce /\ ReducedOnce
=============================================================================
