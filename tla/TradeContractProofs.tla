------------------------- MODULE TradeContractProofs -------------------------
(***************************************************************************)
(* Theorems about TradeContract, for every set of accounts, every dispute  *)
(* window, every size of a transformation and every state to start from in *)
(* which nothing is contracted yet.                                        *)
(* And about TradeMatching, for every market.                              *)
(***************************************************************************)
EXTENDS TradeContract, TradeMatching, SumTheorems, SequenceTheorems

\* What an entry refers to is there.
References ==
  /\ \A l \in DOMAIN lots : \A i \in DOMAIN lots[l].inputs : lots[l].inputs[i].lot \in DOMAIN lots
  /\ \A e \in DOMAIN ctes : ctes[e].lot \in DOMAIN lots /\ ctes[e].output \in DOMAIN lots \cup {None}
  /\ \A i \in DOMAIN listings : listings[i].lot \in DOMAIN lots \cup {None}
  /\ \A o \in DOMAIN offers :
       offers[o].target \in IF offers[o].on = "Intent" THEN DOMAIN intents ELSE DOMAIN listings
  /\ \A n \in DOMAIN contracts :
       contracts[n].offer \in DOMAIN offers /\ contracts[n].lot \in DOMAIN lots \cup {None}
  /\ \A f \in DOMAIN fulfillments : fulfillments[f].contract \in DOMAIN contracts
  /\ \A s \in DOMAIN settlements : settlements[s].contract \in DOMAIN contracts

-----------------------------------------------------------------------------
(* Tables as sequences *)

\* A table with a new entry.
LEMMA Appended ==
  ASSUME NEW S, NEW s \in Seq(S), NEW e \in S
  PROVE  /\ Append(s, e) \in Seq(S) /\ Len(s) \in Nat /\ Len(Append(s, e)) = Len(s) + 1
         /\ DOMAIN s = 1..Len(s) /\ DOMAIN Append(s, e) = DOMAIN s \cup {Len(s) + 1} /\ Len(s) + 1 \notin DOMAIN s
         /\ \A i \in DOMAIN s : Append(s, e)[i] = s[i]
         /\ Append(s, e)[Len(s) + 1] = e
PROOF
  OBVIOUS

\* A table with an entry replaced.
LEMMA Replaced ==
  ASSUME NEW S, NEW s \in Seq(S), NEW k \in DOMAIN s, NEW e \in S
  PROVE  /\ [s EXCEPT ![k] = e] \in Seq(S) /\ Len([s EXCEPT ![k] = e]) = Len(s)
         /\ DOMAIN [s EXCEPT ![k] = e] = DOMAIN s
PROOF
  OBVIOUS

\* A table is a function on its places.
LEMMA TableFunction ==
  ASSUME NEW S, NEW s \in Seq(S)
  PROVE  s \in [DOMAIN s -> S]
PROOF
  OBVIOUS

\* A function on the places of a table is a table as long.
LEMMA Remade ==
  ASSUME NEW S, NEW s, NEW T, s \in Seq(T), NEW t \in [DOMAIN s -> S]
  PROVE  t \in Seq(S) /\ Len(t) = Len(s) /\ DOMAIN t = DOMAIN s
PROOF
  <1>1. DOMAIN s = 1..Len(s) /\ Len(s) \in Nat
    OBVIOUS
  <1>2. t \in Seq(S)
    BY <1>1, SeqDef
  <1> QED
    BY <1>1, <1>2

\* The greater of zero and a number is a natural number.
LEMMA AtLeastZero ==
  ASSUME NEW x \in Int
  PROVE  Max({0, x}) \in Nat
PROOF
  <1>1. \E m \in {0, x} : \A n \in {0, x} : m >= n
    OBVIOUS
  <1>2. Max({0, x}) \in {0, x} /\ \A n \in {0, x} : Max({0, x}) >= n
    BY <1>1 DEF Max
  <1> QED
    BY <1>2
-----------------------------------------------------------------------------
(* Type correctness *)

LEMMA TypeInit == Init => TypeOK /\ References
PROOF
  <1> SUFFICES ASSUME Init PROVE TypeOK /\ References
    OBVIOUS
  <1> PICK s \in Seeds :
        /\ now = 0 /\ parties = s.parties
        /\ catalogs = s.catalogs /\ lots = s.lots /\ ctes = <<>>
        /\ lot_cte_index = [l \in DOMAIN s.lots |-> {}]
        /\ intents = s.intents /\ listings = s.listings /\ offers = <<>>
        /\ contracts = <<>> /\ fulfillments = <<>> /\ settlements = <<>>
        /\ agreements = <<>> /\ relationships = <<>>
        /\ limit = s.limit
    BY DEF Init
  <1>1. /\ DOMAIN s.parties \subseteq Account /\ s.parties \in [DOMAIN s.parties -> Party]
        /\ s.catalogs \in Seq(GoodsCatalogEntry) /\ s.lots \in Seq(GoodsLot)
        /\ s.intents \in Seq(TradeIntent) /\ s.listings \in Seq(SupplyListing)
        /\ \A l \in DOMAIN s.lots : s.lots[l].inputs = <<>>
        /\ \A i \in DOMAIN s.listings : s.listings[i].lot \in DOMAIN s.lots \cup {None}
        /\ s.limit.amounts \subseteq Nat /\ s.limit.prices \subseteq Nat /\ s.limit.extras \subseteq Nat
        /\ s.limit.arbitrators \subseteq Account \cup {None}
    BY SeedsAssumption DEF SeedsAssumption
  <1>2. \A S : <<>> \in Seq(S)
    OBVIOUS
  <1>3. DOMAIN relationships = {} /\ relationships \in [DOMAIN relationships -> RelationshipRecord]
    OBVIOUS
  <1>4. lot_cte_index \in [DOMAIN lots -> SUBSET DOMAIN ctes]
    OBVIOUS
  <1>5. TypeOK
    BY <1>1, <1>2, <1>3, <1>4 DEF TypeOK
  <1>6. References
    BY <1>1 DEF References
  <1> QED
    BY <1>5, <1>6

\* What the tables hold.
LEMMA Entries ==
  ASSUME TypeOK
  PROVE  /\ \A k \in DOMAIN catalogs : catalogs[k] \in GoodsCatalogEntry
         /\ \A l \in DOMAIN lots : lots[l] \in GoodsLot
         /\ \A e \in DOMAIN ctes : ctes[e] \in Fsma204Cte
         /\ \A i \in DOMAIN intents : intents[i] \in TradeIntent
         /\ \A i \in DOMAIN listings : listings[i] \in SupplyListing
         /\ \A o \in DOMAIN offers : offers[o] \in Offer
         /\ \A n \in DOMAIN contracts : contracts[n] \in Contract
         /\ \A f \in DOMAIN fulfillments : fulfillments[f] \in Fulfillment
         /\ \A s \in DOMAIN settlements : settlements[s] \in Settlement
         /\ \A g \in DOMAIN agreements : agreements[g] \in StandingAgreement
PROOF
  <1>1. ASSUME NEW S, NEW s \in Seq(S), NEW k \in DOMAIN s PROVE s[k] \in S
    OBVIOUS
  <1> QED
    BY <1>1 DEF TypeOK

\* The places of the tables, and the numbers calls may name.
LEMMA Numbers ==
  ASSUME TypeOK
  PROVE  /\ DOMAIN catalogs = 1..Len(catalogs) /\ Len(catalogs) \in Nat
         /\ DOMAIN lots = 1..Len(lots) /\ Len(lots) \in Nat
         /\ DOMAIN ctes = 1..Len(ctes) /\ Len(ctes) \in Nat
         /\ DOMAIN intents = 1..Len(intents) /\ Len(intents) \in Nat
         /\ DOMAIN listings = 1..Len(listings) /\ Len(listings) \in Nat
         /\ DOMAIN offers = 1..Len(offers) /\ Len(offers) \in Nat
         /\ DOMAIN contracts = 1..Len(contracts) /\ Len(contracts) \in Nat
         /\ DOMAIN fulfillments = 1..Len(fulfillments) /\ Len(fulfillments) \in Nat
         /\ DOMAIN settlements = 1..Len(settlements) /\ Len(settlements) \in Nat
         /\ DOMAIN agreements = 1..Len(agreements) /\ Len(agreements) \in Nat
         /\ \A q \in limit.amounts : q \in Nat
         /\ \A p \in limit.prices : p \in Nat
         /\ \A d \in limit.extras : d \in Nat
PROOF
  <1>1. ASSUME NEW S, NEW s \in Seq(S) PROVE DOMAIN s = 1..Len(s) /\ Len(s) \in Nat
    OBVIOUS
  <1>2. limit.amounts \subseteq Nat /\ limit.prices \subseteq Nat /\ limit.extras \subseteq Nat
    BY DEF TypeOK
  <1> QED
    BY <1>1, <1>2 DEF TypeOK

\* The identifiers calls name are numbers.
LEMMA Identifiers ==
  ASSUME TypeOK
  PROVE  /\ \A l \in DOMAIN lots : l \in Nat
         /\ \A i \in DOMAIN intents : i \in Nat
         /\ \A i \in DOMAIN listings : i \in Nat
         /\ Len(lots) + 1 \in Nat
PROOF
  <1>1. /\ DOMAIN lots = 1..Len(lots) /\ Len(lots) \in Nat
        /\ DOMAIN intents = 1..Len(intents) /\ Len(intents) \in Nat
        /\ DOMAIN listings = 1..Len(listings) /\ Len(listings) \in Nat
    BY Numbers
  <1> QED
    BY <1>1

\* The amounts calls name are numbers.
LEMMA Amounts ==
  ASSUME TypeOK
  PROVE  /\ \A q \in limit.amounts : q \in Nat
         /\ \A p \in limit.prices : p \in Nat
         /\ \A d \in limit.extras : d \in Nat
PROOF
  BY Numbers

\* Registration, agents, time and the catalog.
LEMMA PartyTypes ==
  ASSUME TypeOK, NEW caller \in Account,
         \/ RegisterParty(caller)
         \/ \E a \in Account : AuthorizeAgent(caller, a) \/ RevokeAgent(caller, a)
         \/ CreateCatalogEntry(caller)
         \/ \E k \in DOMAIN catalogs : UpdateCatalogEntry(caller, k)
  PROVE  TypeOK'
PROOF
  <1>1. CASE RegisterParty(caller)
    BY <1>1 DEF RegisterParty, TypeOK, Party, goods, book, deals, ties
  <1>2. ASSUME NEW a \in Account, AuthorizeAgent(caller, a) \/ RevokeAgent(caller, a) PROVE TypeOK'
    <2>1. caller \in DOMAIN parties /\ parties[caller] \in Party
      BY <1>2 DEF AuthorizeAgent, RevokeAgent, Registered, TypeOK
    <2>2. /\ [parties[caller] EXCEPT !.agents = @ \cup {a}] \in Party
          /\ [parties[caller] EXCEPT !.agents = @ \ {a}] \in Party
      BY <2>1 DEF Party
    <2>3. DOMAIN parties' = DOMAIN parties /\ parties' \in [DOMAIN parties -> Party]
      BY <1>2, <2>2 DEF AuthorizeAgent, RevokeAgent, TypeOK
    <2> QED
      BY <1>2, <2>3 DEF AuthorizeAgent, RevokeAgent, TypeOK, goods, book, deals, ties
  <1>3. CASE CreateCatalogEntry(caller)
    <2>1. [owner |-> caller, version |-> 1] \in GoodsCatalogEntry
      BY DEF GoodsCatalogEntry
    <2>2. catalogs' \in Seq(GoodsCatalogEntry)
      BY <1>3, <2>1, Appended DEF CreateCatalogEntry, TypeOK
    <2> QED
      BY <1>3, <2>2 DEF CreateCatalogEntry, TypeOK, book, deals, ties
  <1>4. ASSUME NEW k \in DOMAIN catalogs, UpdateCatalogEntry(caller, k) PROVE TypeOK'
    <2>0. catalogs[k] \in GoodsCatalogEntry
      BY Entries
    <2>1. [catalogs[k] EXCEPT !.version = @ + 1] \in GoodsCatalogEntry
      BY <2>0 DEF GoodsCatalogEntry
    <2>2. catalogs' = [catalogs EXCEPT ![k] = [catalogs[k] EXCEPT !.version = @ + 1]]
      BY <1>4 DEF UpdateCatalogEntry
    <2>3. catalogs' \in Seq(GoodsCatalogEntry)
      BY <2>1, <2>2, Replaced DEF TypeOK
    <2> QED
      BY <1>4, <2>3 DEF UpdateCatalogEntry, TypeOK, book, deals, ties
  <1> QED
    BY <1>1, <1>2, <1>3, <1>4

\* Intents, listings and offers.
LEMMA BookTypes ==
  ASSUME TypeOK, NEW caller \in Account,
         \/ \E p \in limit.prices : PostIntent(caller, p)
         \/ \E i \in DOMAIN intents : CancelIntent(caller, i)
         \/ \E l \in DOMAIN lots \cup {None} : PostListing(caller, l)
         \/ \E i \in DOMAIN listings : WithdrawListing(caller, i)
         \/ \E q \in limit.amounts, p \in limit.prices, freight \in limit.extras :
              \/ \E i \in DOMAIN intents : SubmitOffer(caller, "Intent", i, q, p, freight)
              \/ \E i \in DOMAIN listings : SubmitOffer(caller, "Listing", i, q, p, freight)
         \/ \E o \in DOMAIN offers : RetractOffer(caller, o)
  PROVE  TypeOK'
PROOF
  <1>1. ASSUME NEW p \in limit.prices, PostIntent(caller, p) PROVE TypeOK'
    <2>1. [buyer |-> caller, ceiling |-> p, status |-> "Posted"] \in TradeIntent
      BY Entries, Numbers DEF TradeIntent
    <2>2. intents' \in Seq(TradeIntent)
      BY <1>1, <2>1, Appended DEF PostIntent, TypeOK
    <2> QED
      BY <1>1, <2>2 DEF PostIntent, TypeOK, goods, deals, ties
  <1>2. ASSUME NEW i \in DOMAIN intents, CancelIntent(caller, i) PROVE TypeOK'
    <2>1. [intents[i] EXCEPT !.status = "Cancelled"] \in TradeIntent
      BY Entries, Numbers DEF TradeIntent
    <2>2. intents' = [intents EXCEPT ![i] = [intents[i] EXCEPT !.status = "Cancelled"]]
      BY <1>2 DEF CancelIntent
    <2>3. intents' \in Seq(TradeIntent)
      BY <2>1, <2>2, Replaced DEF TypeOK
    <2> QED
      BY <1>2, <2>3 DEF CancelIntent, TypeOK, goods, deals, ties
  <1>3. ASSUME NEW l \in DOMAIN lots \cup {None}, PostListing(caller, l) PROVE TypeOK'
    <2>1. [seller |-> caller, lot |-> l, status |-> "Active"] \in SupplyListing
      BY Entries, Numbers DEF SupplyListing
    <2>2. listings' \in Seq(SupplyListing)
      BY <1>3, <2>1, Appended DEF PostListing, TypeOK
    <2> QED
      BY <1>3, <2>2 DEF PostListing, TypeOK, goods, deals, ties
  <1>4. ASSUME NEW i \in DOMAIN listings, WithdrawListing(caller, i) PROVE TypeOK'
    <2>1. [listings[i] EXCEPT !.status = "Withdrawn"] \in SupplyListing
      BY Entries, Numbers DEF SupplyListing
    <2>2. listings' = [listings EXCEPT ![i] = [listings[i] EXCEPT !.status = "Withdrawn"]]
      BY <1>4 DEF WithdrawListing
    <2>3. listings' \in Seq(SupplyListing)
      BY <2>1, <2>2, Replaced DEF TypeOK
    <2> QED
      BY <1>4, <2>3 DEF WithdrawListing, TypeOK, goods, deals, ties
  <1>5. ASSUME NEW q \in limit.amounts, NEW p \in limit.prices, NEW freight \in limit.extras,
               NEW on \in {"Intent", "Listing"}, NEW i \in DOMAIN intents \cup DOMAIN listings,
               SubmitOffer(caller, on, i, q, p, freight)
        PROVE TypeOK'
    <2>1. [on |-> on, target |-> i, offerer |-> caller, qty |-> q, price |-> p, freight |-> freight,
           status |-> "Submitted"] \in Offer
      <3>1. i \in Nat /\ q \in Nat /\ p \in Nat /\ freight \in Nat
        BY Identifiers, Amounts
      <3> QED
        BY <3>1 DEF Offer
    <2>2. offers' \in Seq(Offer)
      BY <1>5, <2>1, Appended DEF SubmitOffer, TypeOK
    <2> QED
      BY <1>5, <2>2 DEF SubmitOffer, TypeOK, goods, deals, ties
  <1>6. ASSUME NEW o \in DOMAIN offers, RetractOffer(caller, o) PROVE TypeOK'
    <2>1. [offers[o] EXCEPT !.status = "Retracted"] \in Offer
      BY Entries, Numbers DEF Offer
    <2>2. offers' = [offers EXCEPT ![o] = [offers[o] EXCEPT !.status = "Retracted"]]
      BY <1>6 DEF RetractOffer
    <2>3. offers' \in Seq(Offer)
      BY <2>1, <2>2, Replaced DEF TypeOK
    <2> QED
      BY <1>6, <2>3 DEF RetractOffer, TypeOK, goods, deals, ties
  <1> QED
    BY <1>1, <1>2, <1>3, <1>4, <1>5, <1>6

-----------------------------------------------------------------------------
(* What a transformation takes from its inputs *)

\* The lots after each input, as a function: DebitInputs is its last value.
Debits(f, inputs, n) ==
  f = [i \in 0..n |->
         IF i = 0 THEN lots ELSE [f[i - 1] EXCEPT ![inputs[i].lot] = Debited(@, inputs[i].qty)]]

LEMMA DebitsExist ==
  ASSUME NEW inputs, NEW n \in Nat
  PROVE  \E f : Debits(f, inputs, n)
PROOF
  <1> DEFINE B == {k \in Nat : ~\E f : Debits(f, inputs, k)}
  <1> SUFFICES ASSUME B # {} PROVE FALSE
    OBVIOUS
  <1>1. PICK k \in B : \A j \in B : k <= j
    <2> HIDE DEF B
    <2>1. B \in SUBSET Nat
      BY DEF B
    <2> QED
      BY <2>1, LeastNumber
  <1>2. CASE k = 0
    <2>1. Debits([i \in 0..0 |-> lots], inputs, 0)
      BY DEF Debits
    <2> QED
      BY <1>1, <1>2, <2>1
  <1>3. CASE k # 0
    <2>1. k - 1 \in Nat /\ k \in Nat /\ ~(k <= k - 1)
      BY <1>1, <1>3
    <2>2. PICK g : Debits(g, inputs, k - 1)
      BY <1>1, <2>1
    <2> DEFINE next(b, i) == [b EXCEPT ![inputs[i].lot] = Debited(@, inputs[i].qty)]
               f == [i \in 0..k |-> IF i = k THEN next(g[k - 1], k) ELSE g[i]]
    <2>3. \A i \in 0..(k - 1) : f[i] = g[i]
      BY <2>1
    <2>4. f[k] = next(f[k - 1], k)
      <3>1. k \in 0..k /\ k - 1 \in 0..(k - 1)
        BY <1>3, <2>1
      <3>2. f[k - 1] = g[k - 1]
        BY <2>3, <3>1
      <3>3. f[k] = next(g[k - 1], k)
        BY <3>1
      <3> HIDE DEF f, next
      <3> QED
        BY <3>2, <3>3
    <2>5. \A i \in 0..(k - 1) : f[i] = IF i = 0 THEN lots ELSE next(f[i - 1], i)
      <3>1. \A i \in 0..(k - 1) : g[i] = IF i = 0 THEN lots ELSE next(g[i - 1], i)
        BY <2>2 DEF Debits
      <3>2. \A i \in 0..(k - 1) : i # 0 => i - 1 \in 0..(k - 1)
        BY <2>1
      <3> HIDE DEF f, next
      <3> QED
        BY <2>3, <3>1, <3>2
    <2>6. f = [i \in 0..k |-> f[i]]
      OBVIOUS
    <2> HIDE DEF f
    <2>7. \A i \in 0..k : f[i] = IF i = 0 THEN lots ELSE next(f[i - 1], i)
      <3>1. \A i \in 0..k : i = k \/ i \in 0..(k - 1)
        BY <2>1
      <3> HIDE DEF next
      <3> QED
        BY <1>3, <2>4, <2>5, <3>1
    <2>8. Debits(f, inputs, k)
      BY <2>6, <2>7 DEF Debits
    <2> QED
      BY <1>1, <2>8
  <1> QED
    BY <1>2, <1>3

\* The lots after one input.
AfterInput(ls, input) == [ls EXCEPT ![input.lot] = Debited(@, input.qty)]

\* The first value is the table, and each other one debits one input.
LEMMA DebitsStep ==
  ASSUME NEW inputs, NEW n \in Nat, NEW f, Debits(f, inputs, n)
  PROVE  /\ f[0] = lots
         /\ \A i \in 1..n : f[i] = AfterInput(f[i - 1], inputs[i])
PROOF
  <1>1. f = [i \in 0..n |-> IF i = 0 THEN lots ELSE AfterInput(f[i - 1], inputs[i])]
    BY DEF Debits, AfterInput
  <1>2. 0 \in 0..n /\ \A i \in 1..n : i \in 0..n /\ i # 0
    OBVIOUS
  <1> QED
    BY <1>1, <1>2

Quantities(inputs) == [i \in DOMAIN inputs |-> inputs[i].qty]
\* What the first k inputs draw from lot l.
DrawnBy(inputs, l, k) == SumFunctionOnSet(Quantities(inputs), {i \in 1..k : inputs[i].lot = l})

LEMMA DrawnFacts ==
  ASSUME NEW inputs \in Seq(InputLotRef), NEW l
  PROVE  /\ Drawn(inputs, l) = DrawnBy(inputs, l, Len(inputs)) /\ Drawn(inputs, l) \in Nat
         /\ DrawnBy(inputs, l, 0) = 0
         /\ \A k \in 0..Len(inputs) : DrawnBy(inputs, l, k) \in Nat /\ DrawnBy(inputs, l, k) <= Drawn(inputs, l)
         /\ \A k \in 1..Len(inputs) :
              DrawnBy(inputs, l, k) = DrawnBy(inputs, l, k - 1) + IF inputs[k].lot = l THEN inputs[k].qty ELSE 0
PROOF
  <1> DEFINE q == Quantities(inputs)
             of(k) == {i \in 1..k : inputs[i].lot = l}
  <1>0. Len(inputs) \in Nat /\ DOMAIN inputs = 1..Len(inputs)
    OBVIOUS
  <1>1. \A i \in 1..Len(inputs) : inputs[i] \in InputLotRef
    OBVIOUS
  <1>2. \A i \in 1..Len(inputs) : q[i] \in Nat /\ q[i] = inputs[i].qty
    BY <1>0, <1>1 DEF InputLotRef, Quantities
  <1>3. ASSUME NEW k \in 0..Len(inputs) PROVE IsFiniteSet(of(k)) /\ of(k) \subseteq of(Len(inputs)) /\ \A i \in of(k) : q[i] \in Nat
    <2>1. IsFiniteSet(1..k)
      BY FS_Interval
    <2>2. of(k) \subseteq 1..k /\ 1..k \subseteq 1..Len(inputs)
      BY <1>0
    <2> HIDE DEF q
    <2> QED
      BY <1>2, <2>1, <2>2, FS_Subset
  <1>4. Drawn(inputs, l) = SumFunctionOnSet(q, of(Len(inputs)))
    BY <1>0 DEF Drawn, Quantities
  <1>5. of(0) = {}
    OBVIOUS
  <1>6. ASSUME NEW k \in 0..Len(inputs)
        PROVE  SumFunctionOnSet(q, of(k)) \in Nat /\ SumFunctionOnSet(q, of(k)) <= SumFunctionOnSet(q, of(Len(inputs)))
    <2>1. Len(inputs) \in 0..Len(inputs)
      BY <1>0
    <2>2. IsFiniteSet(of(Len(inputs))) /\ \A i \in of(Len(inputs)) : q[i] \in Nat
      BY <1>3, <2>1
    <2>3. IsFiniteSet(of(k)) /\ of(k) \in SUBSET of(Len(inputs)) /\ \A i \in of(k) : q[i] \in Nat
      BY <1>3
    <2> HIDE DEF q, of
    <2>4. SumFunctionOnSet(q, of(k)) \in Nat
      BY <2>3, SumType
    <2> QED
      BY <2>2, <2>3, <2>4, SumSubset
  <1>7. ASSUME NEW k \in 1..Len(inputs)
        PROVE  SumFunctionOnSet(q, of(k)) = SumFunctionOnSet(q, of(k - 1)) + IF inputs[k].lot = l THEN inputs[k].qty ELSE 0
    <2>1. k - 1 \in 0..Len(inputs) /\ k \in 0..Len(inputs)
      BY <1>0
    <2>2. of(k) = IF inputs[k].lot = l THEN of(k - 1) \cup {k} ELSE of(k - 1)
      BY <1>0
    <2>3. k \notin of(k - 1)
      BY <1>0
    <2>4. IsFiniteSet(of(k - 1)) /\ \A i \in of(k - 1) : q[i] \in Nat
      BY <1>3, <2>1
    <2>5. q[k] \in Nat /\ q[k] = inputs[k].qty
      BY <1>2
    <2>6. SumFunctionOnSet(q, of(k - 1)) \in Nat
      BY <1>6, <2>1
    <2> HIDE DEF q, of
    <2>7. SumFunctionOnSet(q, of(k - 1) \cup {k}) = SumFunctionOnSet(q, of(k - 1)) + q[k]
      BY <2>3, <2>4, <2>5, SumAdd
    <2> QED
      BY <2>2, <2>5, <2>6, <2>7
  <1> QED
    <2>1. Len(inputs) \in 0..Len(inputs)
      BY <1>0
    <2>2. \A k \in 0..Len(inputs) : DrawnBy(inputs, l, k) = SumFunctionOnSet(q, of(k))
      BY DEF DrawnBy
    <2>3. SumFunctionOnSet(q, of(0)) = 0
      BY <1>5, SumEmpty
    <2>4. \A k \in 1..Len(inputs) : k - 1 \in 0..Len(inputs) /\ k \in 0..Len(inputs)
      BY <1>0
    <2> HIDE DEF q, of
    <2>5. Drawn(inputs, l) = DrawnBy(inputs, l, Len(inputs)) /\ Drawn(inputs, l) \in Nat
      BY <1>4, <1>6, <2>1, <2>2
    <2>6. DrawnBy(inputs, l, 0) = 0
      BY <1>0, <2>2, <2>3
    <2>7. \A k \in 0..Len(inputs) : DrawnBy(inputs, l, k) \in Nat /\ DrawnBy(inputs, l, k) <= Drawn(inputs, l)
      BY <1>4, <1>6, <2>2
    <2>8. \A k \in 1..Len(inputs) :
            DrawnBy(inputs, l, k) = DrawnBy(inputs, l, k - 1) + IF inputs[k].lot = l THEN inputs[k].qty ELSE 0
      BY <1>7, <2>2, <2>4
    <2> QED
      BY <2>5, <2>6, <2>7, <2>8

\* A transformation takes from each lot what its inputs draw from it, and leaves
\* the total, the inputs and the identity of every lot as they were.
LEMMA DebitResult ==
  ASSUME TypeOK, NEW inputs \in Seq(InputLotRef),
         \A i \in DOMAIN inputs : inputs[i].lot \in DOMAIN lots,
         \A l \in DOMAIN lots : Drawn(inputs, l) <= lots[l].available
  PROVE  /\ DebitInputs(inputs) \in [DOMAIN lots -> GoodsLot]
         /\ \A l \in DOMAIN lots :
              /\ DebitInputs(inputs)[l].total = lots[l].total
              /\ DebitInputs(inputs)[l].inputs = lots[l].inputs
              /\ DebitInputs(inputs)[l].available = lots[l].available - Drawn(inputs, l)
PROOF
  <1> DEFINE n == Len(inputs)
  <1>0. n \in Nat /\ DOMAIN inputs = 1..n
    OBVIOUS
  <1>1. PICK f : Debits(f, inputs, n) /\ DebitInputs(inputs) = f[n]
    <2> DEFINE g == CHOOSE f : Debits(f, inputs, n)
    <2>1. DebitInputs(inputs) = g[n]
      BY DEF DebitInputs, Debits
    <2>2. Debits(g, inputs, n)
      BY <1>0, DebitsExist
    <2> QED
      BY <2>1, <2>2
  <1> DEFINE Good(k) ==
               /\ f[k] \in [DOMAIN lots -> GoodsLot]
               /\ \A l \in DOMAIN lots : /\ f[k][l].total = lots[l].total
                                         /\ f[k][l].inputs = lots[l].inputs
                                         /\ f[k][l].available = lots[l].available - DrawnBy(inputs, l, k)
             B == {k \in 0..n : ~Good(k)}
  <1>2. SUFFICES ASSUME B # {} PROVE FALSE
    <2>1. Good(n)
      BY <1>0, <1>2
    <2>2. \A l : Drawn(inputs, l) = DrawnBy(inputs, l, n)
      BY DrawnFacts
    <2> QED
      BY <1>1, <2>1, <2>2
  <1>3. PICK k \in B : \A j \in B : k <= j
    <2> HIDE DEF B
    <2>1. B \in SUBSET Nat
      BY DEF B
    <2> QED
      BY <1>2, <2>1, LeastNumber
  <1>4. f[0] = lots
    BY <1>0, <1>1, DebitsStep
  <1>5. Good(0)
    <2>1. lots \in [DOMAIN lots -> GoodsLot]
      BY Entries DEF TypeOK
    <2>2. \A l : DrawnBy(inputs, l, 0) = 0
      BY DrawnFacts
    <2>3. \A l \in DOMAIN lots : lots[l].available \in Nat
      BY Entries DEF GoodsLot
    <2> QED
      BY <1>4, <2>1, <2>2, <2>3
  <1>6. k \in 1..n /\ k - 1 \in 0..n /\ ~(k <= k - 1)
    BY <1>0, <1>3, <1>5
  <1>7. Good(k - 1)
    BY <1>3, <1>6
  <1> DEFINE x == inputs[k].lot
             q == inputs[k].qty
  <1>8. x \in DOMAIN lots /\ q \in Nat
    <2>1. inputs[k] \in InputLotRef
      BY <1>0, <1>6
    <2> QED
      BY <1>0, <1>6, <2>1 DEF InputLotRef
  <1>9. f[k] = [f[k - 1] EXCEPT ![x] = Debited(@, q)]
    <2>1. f[k] = AfterInput(f[k - 1], inputs[k])
      BY <1>0, <1>1, <1>6, DebitsStep
    <2> QED
      BY <2>1 DEF AfterInput
  <1>10. ASSUME NEW l \in DOMAIN lots
         PROVE  /\ DrawnBy(inputs, l, k) = DrawnBy(inputs, l, k - 1) + IF x = l THEN q ELSE 0
                /\ DrawnBy(inputs, l, k) \in Nat /\ DrawnBy(inputs, l, k - 1) \in Nat
                /\ DrawnBy(inputs, l, k) <= lots[l].available /\ lots[l].available \in Nat
    <2>1. DrawnBy(inputs, l, k) <= Drawn(inputs, l) /\ Drawn(inputs, l) \in Nat
          /\ DrawnBy(inputs, l, k) \in Nat /\ DrawnBy(inputs, l, k - 1) \in Nat
          /\ DrawnBy(inputs, l, k) = DrawnBy(inputs, l, k - 1) + IF x = l THEN q ELSE 0
      BY <1>0, <1>6, DrawnFacts
    <2>2. lots[l].available \in Nat
      BY Entries DEF GoodsLot
    <2>3. Drawn(inputs, l) <= lots[l].available
      OBVIOUS
    <2> HIDE DEF x, q
    <2> QED
      BY <2>1, <2>2, <2>3
  <1> HIDE DEF x, q, n, B
  <1>11. ASSUME NEW l \in DOMAIN lots
         PROVE  /\ f[k][l] \in GoodsLot /\ f[k][l].total = lots[l].total /\ f[k][l].inputs = lots[l].inputs
                /\ f[k][l].available = lots[l].available - DrawnBy(inputs, l, k)
    <2>1. f[k - 1][l] \in GoodsLot /\ f[k - 1][l].total = lots[l].total /\ f[k - 1][l].inputs = lots[l].inputs
          /\ f[k - 1][l].available = lots[l].available - DrawnBy(inputs, l, k - 1)
      BY <1>7
    <2>2. CASE l # x
      <3>1. f[k][l] = f[k - 1][l]
        BY <1>7, <1>9, <2>2
      <3> QED
        BY <1>10, <2>1, <2>2, <3>1
    <2>3. CASE l = x
      <3>1. f[k][l] = Debited(f[k - 1][l], q)
        BY <1>7, <1>9, <2>3
      <3>2. f[k - 1][l].available - q = lots[l].available - DrawnBy(inputs, l, k)
            /\ lots[l].available - DrawnBy(inputs, l, k) \in Nat
        BY <1>8, <1>10, <2>1, <2>3
      <3> QED
        BY <2>1, <3>1, <3>2 DEF Debited, GoodsLot, LotStatus
    <2> QED
      BY <2>2, <2>3
  <1>12. f[k] \in [DOMAIN lots -> GoodsLot]
    <2>1. DOMAIN f[k] = DOMAIN lots /\ f[k] = [l \in DOMAIN f[k] |-> f[k][l]]
      BY <1>7, <1>9
    <2> QED
      BY <1>11, <2>1
  <1>13. Good(k)
    BY <1>11, <1>12
  <1> QED
    BY <1>3, <1>13 DEF B

\* The inputs of a transformation are quantities of lots that exist.
LEMMA InputsFacts ==
  ASSUME TypeOK, NEW inputs \in BoundedSeq([lot : DOMAIN lots, qty : limit.amounts], MaxInputs)
  PROVE  inputs \in Seq(InputLotRef) /\ \A i \in DOMAIN inputs : inputs[i].lot \in DOMAIN lots
PROOF
  <1> DEFINE Named == [lot : DOMAIN lots, qty : limit.amounts]
  <1>1. PICK m \in 0..MaxInputs : inputs \in [1..m -> Named]
    BY DEF BoundedSeq, SeqOf
  <1>2. \A r \in Named : r \in InputLotRef /\ r.lot \in DOMAIN lots
    BY Numbers DEF InputLotRef
  <1> HIDE DEF Named
  <1>3. inputs \in [1..m -> InputLotRef] /\ m \in Nat
    BY <1>1, <1>2, ContractAssumption DEF ContractAssumption
  <1>4. inputs \in Seq(InputLotRef)
    BY <1>3, SeqDef
  <1> QED
    BY <1>1, <1>2, <1>4

\* A tracking event and its index.
LEMMA EventTypes ==
  ASSUME TypeOK, NEW cte \in Fsma204Cte, NEW touched, NEW D, NEW index \in [D -> SUBSET DOMAIN ctes],
         WriteCte(cte, touched, index)
  PROVE  ctes' \in Seq(Fsma204Cte) /\ lot_cte_index' \in [D -> SUBSET DOMAIN ctes']
         /\ DOMAIN ctes' = DOMAIN ctes \cup {Len(ctes) + 1}
PROOF
  <1>1. ctes \in Seq(Fsma204Cte) /\ ctes' = Append(ctes, cte)
        /\ lot_cte_index' = [l \in D |-> IF l \in touched THEN index[l] \cup {Len(ctes) + 1} ELSE index[l]]
    BY DEF TypeOK, WriteCte
  <1>2. ctes' \in Seq(Fsma204Cte) /\ DOMAIN ctes' = DOMAIN ctes \cup {Len(ctes) + 1}
    BY <1>1, Appended
  <1> QED
    BY <1>1, <1>2

\* Lots and tracking events.
LEMMA GoodsTypes ==
  ASSUME TypeOK, References, NEW caller \in Account,
         \/ \E k \in DOMAIN catalogs, q \in limit.amounts : CreateLot(caller, k, q)
         \/ \E l \in DOMAIN lots : DisposeLot(caller, l) \/ AnchorCoa(caller, l) \/ RecordCte(caller, l)
         \/ \E inputs \in BoundedSeq([lot : DOMAIN lots, qty : limit.amounts], MaxInputs),
               k \in DOMAIN catalogs, q \in limit.amounts : TransformLot(caller, inputs, k, q)
  PROVE  TypeOK'
PROOF
  <1>0. lots \in Seq(GoodsLot) /\ lot_cte_index \in [DOMAIN lots -> SUBSET DOMAIN ctes]
        /\ lot_cte_index \in Seq(SUBSET DOMAIN ctes) /\ Len(lot_cte_index) = Len(lots)
    BY Remade DEF TypeOK
  <1>a. \A l \in DOMAIN lots : lots[l] \in GoodsLot
    BY Entries
  <1>b. \A k \in DOMAIN catalogs : k \in Nat
    BY Numbers
  <1>1. ASSUME NEW k \in DOMAIN catalogs, NEW q \in limit.amounts, CreateLot(caller, k, q) PROVE TypeOK'
    <2>1. NewLot(caller, k, q, <<>>) \in GoodsLot
      BY <1>b, Numbers DEF NewLot, GoodsLot, LotStatus
    <2>2. lots' \in Seq(GoodsLot) /\ DOMAIN lots' = DOMAIN lots \cup {Len(lots) + 1}
      BY <1>0, <1>1, <2>1, Appended DEF CreateLot
    <2>3. lot_cte_index' \in [DOMAIN lots' -> SUBSET DOMAIN ctes]
      <3>1. lot_cte_index' = Append(lot_cte_index, {}) /\ {} \in SUBSET DOMAIN ctes
        BY <1>1 DEF CreateLot
      <3>2. lot_cte_index' \in Seq(SUBSET DOMAIN ctes) /\ DOMAIN lot_cte_index' = DOMAIN lot_cte_index \cup {Len(lots) + 1}
        BY <1>0, <3>1, Appended
      <3> QED
        BY <1>0, <2>2, <3>2, TableFunction
    <2> QED
      BY <1>1, <2>2, <2>3 DEF CreateLot, TypeOK, book, deals, ties
  <1>2. ASSUME NEW l \in DOMAIN lots, DisposeLot(caller, l) \/ AnchorCoa(caller, l) PROVE TypeOK'
    <2>0. lots[l] \in GoodsLot
      BY <1>a
    <2>a. [lots[l] EXCEPT !.status = "Disposed"] \in GoodsLot
      BY <2>0 DEF GoodsLot, LotStatus
    <2>b. [lots[l] EXCEPT !.coas = @ + 1] \in GoodsLot
      <3>1. PICK c \in Nat : c = lots[l].coas + 1
        BY <2>0 DEF GoodsLot
      <3>2. [lots[l] EXCEPT !.coas = c] \in GoodsLot
        BY <2>0 DEF GoodsLot
      <3> QED
        BY <3>1, <3>2
    <2>1. [lots[l] EXCEPT !.status = "Disposed"] \in GoodsLot /\ [lots[l] EXCEPT !.coas = @ + 1] \in GoodsLot
      BY <2>a, <2>b
    <2>2. \/ lots' = [lots EXCEPT ![l] = [lots[l] EXCEPT !.status = "Disposed"]]
          \/ lots' = [lots EXCEPT ![l] = [lots[l] EXCEPT !.coas = @ + 1]]
      BY <1>2 DEF DisposeLot, AnchorCoa
    <2>3. lots' \in Seq(GoodsLot) /\ DOMAIN lots' = DOMAIN lots
      BY <1>0, <2>1, <2>2, Replaced
    <2> QED
      BY <1>2, <2>3 DEF DisposeLot, AnchorCoa, TypeOK, book, deals, ties
  <1>3. ASSUME NEW l \in DOMAIN lots, RecordCte(caller, l) PROVE TypeOK'
    <2>1. [actor |-> caller, lot |-> l, output |-> None] \in Fsma204Cte
      BY Numbers DEF Fsma204Cte
    <2>2. ctes' \in Seq(Fsma204Cte) /\ lot_cte_index' \in [DOMAIN lots -> SUBSET DOMAIN ctes']
      BY <1>0, <1>3, <2>1, EventTypes DEF RecordCte
    <2> QED
      BY <1>3, <2>2 DEF RecordCte, TypeOK, book, deals, ties
  <1>4. ASSUME NEW inputs \in BoundedSeq([lot : DOMAIN lots, qty : limit.amounts], MaxInputs),
               NEW k \in DOMAIN catalogs, NEW q \in limit.amounts, TransformLot(caller, inputs, k, q)
        PROVE TypeOK'
    <2>1. inputs \in Seq(InputLotRef) /\ \A i \in DOMAIN inputs : inputs[i].lot \in DOMAIN lots
      BY InputsFacts
    <2>2. DebitInputs(inputs) \in [DOMAIN lots -> GoodsLot]
      BY <1>4, <2>1, DebitResult DEF TransformLot
    <2>3. DebitInputs(inputs) \in Seq(GoodsLot) /\ Len(DebitInputs(inputs)) = Len(lots) /\ DOMAIN DebitInputs(inputs) = DOMAIN lots
      BY <1>0, <2>2, Remade
    <2>4. NewLot(caller, k, q, inputs) \in GoodsLot
      BY <1>b, <2>1, Numbers DEF NewLot, GoodsLot, LotStatus
    <2>5. lots' \in Seq(GoodsLot) /\ DOMAIN lots' = DOMAIN lots \cup {Len(lots) + 1}
      BY <1>4, <2>3, <2>4, Appended DEF TransformLot
    <2>6. [actor |-> caller, lot |-> inputs[1].lot, output |-> Len(lots) + 1] \in Fsma204Cte
      <3>1. 1 \in DOMAIN inputs
        BY <1>4, <2>1 DEF TransformLot
      <3>a. inputs[1].lot \in DOMAIN lots
        BY <2>1, <3>1
      <3>2. inputs[1].lot \in Nat /\ Len(lots) + 1 \in Nat
        BY <3>a, Identifiers
      <3> QED
        BY <3>2 DEF Fsma204Cte
    <2>7. Append(lot_cte_index, {}) \in [DOMAIN lots' -> SUBSET DOMAIN ctes]
      <3>1. {} \in SUBSET DOMAIN ctes
        OBVIOUS
      <3>2. Append(lot_cte_index, {}) \in Seq(SUBSET DOMAIN ctes)
            /\ DOMAIN Append(lot_cte_index, {}) = DOMAIN lot_cte_index \cup {Len(lots) + 1}
        BY <1>0, <3>1, Appended
      <3> QED
        BY <1>0, <2>5, <3>2, TableFunction
    <2>8. ctes' \in Seq(Fsma204Cte) /\ lot_cte_index' \in [DOMAIN lots' -> SUBSET DOMAIN ctes']
      <3>1. WriteCte([actor |-> caller, lot |-> inputs[1].lot, output |-> Len(lots) + 1],
                     {inputs[i].lot : i \in DOMAIN inputs} \cup {Len(lots) + 1}, Append(lot_cte_index, {}))
        BY <1>4 DEF TransformLot
      <3> QED
        BY <2>6, <2>7, <3>1, EventTypes
    <2> QED
      BY <1>4, <2>5, <2>8 DEF TransformLot, TypeOK, book, deals, ties
  <1> QED
    BY <1>1, <1>2, <1>3, <1>4

\* Reputation changes the record of a party, or nothing.
LEMMA ReputedType ==
  ASSUME NEW D, NEW ps \in [D -> Party], NEW a, NEW loser
  PROVE  Reputed(ps, a, loser = a) \in [D -> Party]
PROOF
  <1> DEFINE d == IF loser = a THEN ps[a].disputed + 1 ELSE ps[a].disputed
             t == IF loser = a THEN ps[a].on_time ELSE ps[a].on_time + 1
             r == [ps[a] EXCEPT !.completed = ps[a].completed + 1, !.disputed = d, !.on_time = t]
  <1>1. Reputed(ps, a, loser = a) = [ps EXCEPT ![a] = r]
    BY DEF Reputed
  <1>2. ASSUME a \in D PROVE r \in Party
    <2>1. ps[a] \in Party
      BY <1>2
    <2>2. ps[a].completed + 1 \in Nat /\ d \in Nat /\ t \in Nat
      BY <2>1 DEF Party
    <2> HIDE DEF d, t
    <2> QED
      BY <2>1, <2>2 DEF Party
  <1> HIDE DEF r
  <1> QED
    BY <1>1, <1>2

\* The record of a relationship after one more trade.
LEMMA RelatedType ==
  ASSUME TypeOK, NEW pair \in SUBSET Account, NEW net \in Nat
  PROVE  Related(pair, net) \in [DOMAIN relationships \cup {pair} -> RelationshipRecord]
PROOF
  <1> DEFINE old == IF pair \in DOMAIN relationships THEN relationships[pair]
                    ELSE [trades |-> 0, volume |-> 0, agreements |-> {}, tier |-> "New"]
             tier == DeriveTier(old.trades + 1, old.volume + net, old.agreements # {})
             new == [old EXCEPT !.trades = @ + 1, !.volume = @ + net, !.tier = tier]
  <1>1. old \in RelationshipRecord
    BY DEF TypeOK, RelationshipRecord, RelationshipTier
  <1>2. tier \in RelationshipTier
    BY DEF DeriveTier, RelationshipTier
  <1>3. Related(pair, net) = [p \in DOMAIN relationships \cup {pair} |-> IF p = pair THEN new ELSE relationships[p]]
    BY DEF Related
  <1>4. \A p \in DOMAIN relationships : relationships[p] \in RelationshipRecord
    BY DEF TypeOK
  <1> HIDE DEF old, tier
  <1>5. new \in RelationshipRecord
    <2>1. old.trades + 1 \in Nat /\ old.volume + net \in Nat
      BY <1>1 DEF RelationshipRecord
    <2> QED
      BY <1>1, <1>2, <2>1 DEF RelationshipRecord
  <1> HIDE DEF new
  <1> QED
    BY <1>3, <1>4, <1>5

\* A settlement.
LEMMA SettlementTypes ==
  ASSUME TypeOK, References, NEW n \in DOMAIN contracts, NEW deducted \in Nat, NEW loser,
         NEW final \in ContractStatus, ExecuteSettlement(n, deducted, loser, final)
  PROVE  /\ settlements' \in Seq(Settlement) /\ contracts' \in Seq(Contract)
         /\ lots' \in Seq(GoodsLot) /\ DOMAIN lots' = DOMAIN lots
         /\ DOMAIN relationships' \subseteq SUBSET Account
         /\ relationships' \in [DOMAIN relationships' -> RelationshipRecord]
         /\ DOMAIN parties' \subseteq Account /\ parties' \in [DOMAIN parties' -> Party]
         /\ UNCHANGED <<now, catalogs, ctes, lot_cte_index, book, agreements, limit>>
PROOF
  <1> DEFINE c == contracts[n]
             net == Max({0, c.total - deducted})
  <1>1. c \in Contract /\ n \in Nat
    BY Entries, Numbers
  <1>2. net \in Nat
    <2>1. c.total - deducted \in Int
      BY <1>1 DEF Contract
    <2> QED
      BY <2>1, AtLeastZero
  <1> HIDE DEF net
  <1>3. /\ settlements' = Append(settlements, [contract |-> n, net |-> net])
        /\ c.lot # None => lots' = [lots EXCEPT ![c.lot] = Transferred(@, c)]
        /\ c.lot = None => lots' = lots
        /\ contracts' = [contracts EXCEPT ![n] = [c EXCEPT !.status = final]]
        /\ relationships' = Related({c.buyer, c.seller}, net)
        /\ parties' = Reputed(Reputed(parties, c.buyer, loser = c.buyer), c.seller, loser = c.seller)
        /\ UNCHANGED <<now, catalogs, ctes, lot_cte_index, book, agreements, limit>>
    BY DEF ExecuteSettlement, net
  <1>4. settlements' \in Seq(Settlement)
    <2>1. [contract |-> n, net |-> net] \in Settlement
      BY <1>1, <1>2 DEF Settlement
    <2> QED
      BY <1>3, <2>1, Appended DEF TypeOK
  <1>5. contracts' \in Seq(Contract)
    <2>1. [c EXCEPT !.status = final] \in Contract
      BY <1>1 DEF Contract
    <2> HIDE DEF c
    <2> QED
      BY <1>3, <2>1, Replaced DEF TypeOK
  <1>6. lots' \in Seq(GoodsLot) /\ DOMAIN lots' = DOMAIN lots
    <2>1. CASE c.lot = None
      BY <1>3, <2>1 DEF TypeOK
    <2>2. CASE c.lot # None
      <3>1. c.lot \in DOMAIN lots
        BY <2>2 DEF References
      <3>2. lots[c.lot] \in GoodsLot
        BY <3>1, Entries
      <3>3. Append(lots[c.lot].provenance, [from |-> c.seller, to |-> c.buyer, qty |-> c.qty]) \in Seq(ProvenanceEvent)
        <4>1. [from |-> c.seller, to |-> c.buyer, qty |-> c.qty] \in ProvenanceEvent
          BY <1>1 DEF Contract, ProvenanceEvent
        <4>2. lots[c.lot].provenance \in Seq(ProvenanceEvent)
          BY <3>2 DEF GoodsLot
        <4> QED
          BY <4>1, <4>2, Appended
      <3>4. Transferred(lots[c.lot], c) \in GoodsLot
        BY <1>1, <3>2, <3>3 DEF Transferred, GoodsLot, LotStatus, Contract
      <3>5. lots' = [lots EXCEPT ![c.lot] = Transferred(lots[c.lot], c)]
        BY <1>3, <2>2
      <3>6. lots \in Seq(GoodsLot)
        BY DEF TypeOK
      <3> HIDE DEF c
      <3> QED
        BY <3>1, <3>4, <3>5, <3>6, Replaced
    <2> QED
      BY <2>1, <2>2
  <1>7. DOMAIN relationships' \subseteq SUBSET Account /\ relationships' \in [DOMAIN relationships' -> RelationshipRecord]
    <2>1. {c.buyer, c.seller} \in SUBSET Account
      BY <1>1 DEF Contract
    <2>2. relationships' \in [DOMAIN relationships \cup {{c.buyer, c.seller}} -> RelationshipRecord]
      BY <1>2, <1>3, <2>1, RelatedType
    <2>3. DOMAIN relationships' = DOMAIN relationships \cup {{c.buyer, c.seller}}
      BY <2>2
    <2>4. DOMAIN relationships \subseteq SUBSET Account
      BY DEF TypeOK
    <2> HIDE DEF c
    <2> QED
      BY <2>1, <2>2, <2>3, <2>4
  <1>8. DOMAIN parties' \subseteq Account /\ parties' \in [DOMAIN parties' -> Party]
    <2> DEFINE mid == Reputed(parties, c.buyer, loser = c.buyer)
      <2>1. mid \in [DOMAIN parties -> Party]
      BY ReputedType DEF TypeOK
    <2> HIDE DEF mid
    <2>2. Reputed(mid, c.seller, loser = c.seller) \in [DOMAIN parties -> Party]
      BY <2>1, ReputedType
    <2> QED
      BY <1>3, <2>2 DEF TypeOK, mid
  <1> QED
    BY <1>3, <1>4, <1>5, <1>6, <1>7, <1>8

\* The settlement nobody asked for.
LEMMA AutoTypes ==
  ASSUME TypeOK, References, NEW f \in DOMAIN fulfillments, TriggerAutoSettlement(f)
  PROVE  TypeOK'
PROOF
  <1>1. fulfillments[f].contract \in DOMAIN contracts
    BY DEF References
  <1>2. "Settled" \in ContractStatus /\ 0 \in Nat
    BY DEF ContractStatus
  <1>3. ExecuteSettlement(fulfillments[f].contract, 0, None, "Settled") /\ UNCHANGED fulfillments
    BY DEF TriggerAutoSettlement
  <1> QED
    BY <1>1, <1>2, <1>3, SettlementTypes DEF TypeOK, book

\* Contracts, attestations, disputes and settlements.
LEMMA DealTypes ==
  ASSUME TypeOK, References, NEW caller \in Account,
         \/ \E o \in DOMAIN offers, arbitrator \in limit.arbitrators :
              AcceptIntentOffer(caller, o, arbitrator) \/ AcceptListingOffer(caller, o, arbitrator)
         \/ \E n \in DOMAIN contracts : SellerAttestDelivery(caller, n)
         \/ \E f \in DOMAIN fulfillments, d \in limit.extras : BuyerAttestDelivery(caller, f, d)
         \/ \E f \in DOMAIN fulfillments : InitiateDispute(caller, f)
         \/ \E n \in DOMAIN contracts, for \in {"Buyer", "Seller"}, d \in limit.extras :
              ResolveDispute(caller, n, for, d)
  PROVE  TypeOK'
PROOF
  <1>0. /\ lots \in Seq(GoodsLot) /\ offers \in Seq(Offer) /\ contracts \in Seq(Contract)
        /\ intents \in Seq(TradeIntent) /\ listings \in Seq(SupplyListing)
        /\ fulfillments \in Seq(Fulfillment) /\ now \in Nat
    BY DEF TypeOK
  <1>a. \A f \in DOMAIN fulfillments : fulfillments[f].contract \in DOMAIN contracts /\ fulfillments[f] \in Fulfillment
    BY Entries DEF References
  <1>b. \A d \in limit.extras : d \in Nat
    BY Numbers
  <1>2. ASSUME NEW o \in DOMAIN offers, NEW arbitrator \in limit.arbitrators,
               AcceptIntentOffer(caller, o, arbitrator) \/ AcceptListingOffer(caller, o, arbitrator)
        PROVE  TypeOK'
    <2> DEFINE i == offers[o].target
    <2>1. offers[o] \in Offer /\ o \in Nat /\ Len(contracts) \in Nat
      BY Entries, Numbers
    <2>2. [offers[o] EXCEPT !.status = "Accepted"] \in Offer
      BY <2>1 DEF Offer
    <2>3. offers' \in Seq(Offer)
      <3>1. offers' = [offers EXCEPT ![o] = [offers[o] EXCEPT !.status = "Accepted"]]
        BY <1>2 DEF AcceptIntentOffer, AcceptListingOffer
      <3> QED
        BY <1>0, <2>2, <3>1, Replaced
    <2>6. arbitrator \in Account \cup {None}
      BY DEF TypeOK
    <2>4. CASE AcceptIntentOffer(caller, o, arbitrator)
      <3>1. i \in DOMAIN intents
        BY <2>4 DEF AcceptIntentOffer, References
      <3>2. intents[i] \in TradeIntent
        BY <3>1, Entries
      <3>3. [intents[i] EXCEPT !.status = "Contracted"] \in TradeIntent
        BY <3>2 DEF TradeIntent
      <3>4. intents' = [intents EXCEPT ![i] = [intents[i] EXCEPT !.status = "Contracted"]]
        BY <2>4 DEF AcceptIntentOffer
      <3>5. intents' \in Seq(TradeIntent)
        BY <1>0, <3>1, <3>3, <3>4, Replaced
      <3>6. Formed(caller, o, arbitrator) \in Contract
        BY <2>1, <2>4, <2>6 DEF AcceptIntentOffer, Formed, Contract, ContractStatus, Offer
      <3>7. contracts' \in Seq(Contract)
        BY <1>0, <2>4, <3>6, Appended DEF AcceptIntentOffer
      <3> QED
        BY <2>3, <2>4, <3>5, <3>7 DEF AcceptIntentOffer, TypeOK, goods, ties
    <2>5. CASE AcceptListingOffer(caller, o, arbitrator)
      <3> DEFINE l == listings[i].lot
      <3>1. i \in DOMAIN listings /\ l \in DOMAIN lots \cup {None}
        BY <2>5 DEF AcceptListingOffer, References
      <3>2. listings[i] \in SupplyListing
        BY <3>1, Entries
      <3>3. [listings[i] EXCEPT !.status = "Contracted"] \in SupplyListing
        BY <3>2 DEF SupplyListing
      <3>4. listings' = [listings EXCEPT ![i] = [listings[i] EXCEPT !.status = "Contracted"]]
        BY <2>5 DEF AcceptListingOffer
      <3>5. listings' \in Seq(SupplyListing)
        BY <1>0, <3>1, <3>3, <3>4, Replaced
      <3>6. Formed(caller, o, arbitrator) \in Contract
        BY <2>1, <2>5, <2>6, <3>2 DEF AcceptListingOffer, Formed, Contract, ContractStatus, Offer, SupplyListing
      <3>7. contracts' \in Seq(Contract)
        BY <1>0, <2>5, <3>6, Appended DEF AcceptListingOffer
      <3>8. lots' \in Seq(GoodsLot) /\ DOMAIN lots' = DOMAIN lots
        <4>1. CASE l = None
          BY <1>0, <2>5, <4>1 DEF AcceptListingOffer
        <4>2. CASE l # None
          <5>1. lots[l] \in GoodsLot /\ lots[l].available >= offers[o].qty
                /\ lots' = [lots EXCEPT ![l] = Debited(lots[l], offers[o].qty)]
            BY <2>5, <3>1, <4>2, Entries DEF AcceptListingOffer
          <5>2. lots[l].available - offers[o].qty \in Nat
            <6>1. lots[l].available \in Nat
              BY <5>1 DEF GoodsLot
            <6>2. offers[o].qty \in Nat
              BY <2>1 DEF Offer
            <6> QED
              BY <5>1, <6>1, <6>2
          <5>3. Debited(lots[l], offers[o].qty) \in GoodsLot
            BY <5>1, <5>2 DEF Debited, GoodsLot, LotStatus
          <5> QED
            BY <1>0, <3>1, <4>2, <5>1, <5>3, Replaced
        <4> QED
          BY <4>1, <4>2
      <3> QED
        BY <2>3, <2>5, <3>5, <3>7, <3>8 DEF AcceptListingOffer, TypeOK, ties
    <2> QED
      BY <1>2, <2>4, <2>5
  <1>3. ASSUME NEW n \in DOMAIN contracts, SellerAttestDelivery(caller, n) PROVE TypeOK'
    <2>1. contracts[n] \in Contract /\ n \in Nat
      BY Entries, Numbers
    <2>2. [contract |-> n, signed_at |-> now, status |-> "SellerAttested"] \in Fulfillment
      BY <1>0, <2>1 DEF Fulfillment
    <2>3. [contracts[n] EXCEPT !.status = "InFulfillment"] \in Contract
      BY <2>1 DEF Contract, ContractStatus
    <2>4. contracts' = [contracts EXCEPT ![n] = [contracts[n] EXCEPT !.status = "InFulfillment"]]
      BY <1>3 DEF SellerAttestDelivery
    <2>5. contracts' \in Seq(Contract)
      BY <1>0, <2>3, <2>4, Replaced
    <2>6. fulfillments' \in Seq(Fulfillment)
      BY <1>0, <1>3, <2>2, Appended DEF SellerAttestDelivery
    <2> QED
      BY <1>3, <2>5, <2>6 DEF SellerAttestDelivery, TypeOK, goods, book, ties
  <1>4. ASSUME NEW f \in DOMAIN fulfillments, NEW d \in limit.extras, BuyerAttestDelivery(caller, f, d) PROVE TypeOK'
    <2>0. fulfillments[f] \in Fulfillment
      BY <1>a
    <2>1. [fulfillments[f] EXCEPT !.status = "Complete"] \in Fulfillment
      BY <2>0 DEF Fulfillment
    <2>2. fulfillments' = [fulfillments EXCEPT ![f] = [fulfillments[f] EXCEPT !.status = "Complete"]]
          /\ ExecuteSettlement(fulfillments[f].contract, d, None, "Settled")
      BY <1>4 DEF BuyerAttestDelivery
    <2>3. fulfillments' \in Seq(Fulfillment)
      BY <1>0, <2>1, <2>2, Replaced
    <2>4. "Settled" \in ContractStatus
      BY DEF ContractStatus
    <2> QED
      BY <1>a, <1>b, <2>2, <2>3, <2>4, SettlementTypes DEF TypeOK, book
  <1>5. ASSUME NEW f \in DOMAIN fulfillments, InitiateDispute(caller, f) PROVE TypeOK'
    <2> DEFINE n == fulfillments[f].contract
    <2>0. fulfillments[f] \in Fulfillment /\ n \in DOMAIN contracts /\ contracts[n] \in Contract
      BY <1>a, Entries
    <2>1. [fulfillments[f] EXCEPT !.status = "Disputed"] \in Fulfillment
          /\ [contracts[n] EXCEPT !.status = "Disputed"] \in Contract
      BY <2>0 DEF Fulfillment, Contract, ContractStatus
    <2>2. fulfillments' = [fulfillments EXCEPT ![f] = [fulfillments[f] EXCEPT !.status = "Disputed"]]
          /\ contracts' = [contracts EXCEPT ![n] = [contracts[n] EXCEPT !.status = "Disputed"]]
      BY <1>5 DEF InitiateDispute, Contested
    <2>3. fulfillments' \in Seq(Fulfillment) /\ contracts' \in Seq(Contract)
      BY <1>0, <2>0, <2>1, <2>2, Replaced
    <2> QED
      BY <1>5, <2>3 DEF InitiateDispute, TypeOK, goods, book, ties
  <1>6. ASSUME NEW n \in DOMAIN contracts, NEW for \in {"Buyer", "Seller"}, NEW d \in limit.extras,
               ResolveDispute(caller, n, for, d)
        PROVE  TypeOK'
    <2>1. UNCHANGED fulfillments
          /\ \/ ExecuteSettlement(n, d, contracts[n].seller, "ResolvedBuyer")
             \/ ExecuteSettlement(n, d, contracts[n].buyer, "ResolvedSeller")
      BY <1>6 DEF ResolveDispute
    <2>2. "ResolvedBuyer" \in ContractStatus /\ "ResolvedSeller" \in ContractStatus
      BY DEF ContractStatus
    <2> QED
      BY <1>b, <2>1, <2>2, SettlementTypes DEF TypeOK, book
  <1> QED
    BY <1>2, <1>3, <1>4, <1>5, <1>6

\* Standing agreements.
LEMMA TieTypes ==
  ASSUME TypeOK, NEW caller \in Account,
         \/ \E a \in Account, role \in {"Buyer", "Seller"} : ProposeStandingAgreement(caller, a, role)
         \/ \E g \in DOMAIN agreements : SignStandingAgreement(caller, g)
  PROVE  TypeOK'
PROOF
  <1>0. agreements \in Seq(StandingAgreement)
    BY DEF TypeOK
  <1>1. ASSUME NEW a \in Account, NEW role \in {"Buyer", "Seller"}, ProposeStandingAgreement(caller, a, role) PROVE TypeOK'
    <2>1. [buyer |-> IF role = "Buyer" THEN caller ELSE a, seller |-> IF role = "Buyer" THEN a ELSE caller,
           signed |-> {role}, status |-> "Proposed"] \in StandingAgreement
      BY DEF StandingAgreement
    <2>2. agreements' \in Seq(StandingAgreement)
      BY <1>0, <1>1, <2>1, Appended DEF ProposeStandingAgreement
    <2> QED
      BY <1>1, <2>2 DEF ProposeStandingAgreement, TypeOK, goods, book, deals
  <1>2. ASSUME NEW g \in DOMAIN agreements, SignStandingAgreement(caller, g) PROVE TypeOK'
    <2> DEFINE a == agreements[g]
               role == IF caller = a.buyer THEN "Buyer" ELSE "Seller"
               pair == {a.buyer, a.seller}
               r == relationships[pair]
    <2>1. a \in StandingAgreement /\ g \in Nat
      BY Entries, Numbers
    <2>2. [a EXCEPT !.signed = @ \cup {role}, !.status = "Active"] \in StandingAgreement
      BY <2>1 DEF StandingAgreement
    <2>3. agreements' = [agreements EXCEPT ![g] = [a EXCEPT !.signed = @ \cup {role}, !.status = "Active"]]
      BY <1>0, <1>2 DEF SignStandingAgreement
    <2>4. agreements' \in Seq(StandingAgreement)
      <3> HIDE DEF a, role
      <3> QED
        BY <1>0, <2>2, <2>3, Replaced
    <2>5. DOMAIN relationships' = DOMAIN relationships /\ relationships' \in [DOMAIN relationships -> RelationshipRecord]
      <3>1. CASE pair \in DOMAIN relationships
        <4>1. r \in RelationshipRecord
          BY <3>1 DEF TypeOK
        <4>2. DeriveTier(r.trades, r.volume, TRUE) \in RelationshipTier
          BY DEF DeriveTier, RelationshipTier
        <4> DEFINE new == [r EXCEPT !.agreements = @ \cup {g}, !.tier = DeriveTier(r.trades, r.volume, TRUE)]
        <4>3. new \in RelationshipRecord
          <5> HIDE DEF r
          <5> QED
            BY <2>1, <4>1, <4>2 DEF RelationshipRecord
        <4>4. relationships' = [relationships EXCEPT ![pair] = new]
          BY <1>2, <3>1 DEF SignStandingAgreement
        <4> HIDE DEF new, pair
        <4> QED
          BY <3>1, <4>3, <4>4 DEF TypeOK
      <3>2. CASE pair \notin DOMAIN relationships
        BY <1>2, <3>2 DEF SignStandingAgreement, TypeOK
      <3> QED
        BY <3>1, <3>2
    <2> QED
      BY <1>2, <2>4, <2>5 DEF SignStandingAgreement, TypeOK, goods, book, deals
  <1> QED
    BY <1>1, <1>2

\* Every call preserves the types.
LEMMA TypeNext == TypeOK /\ References /\ [Next]_vars => TypeOK'
PROOF
  <1> SUFFICES ASSUME TypeOK, References, [Next]_vars PROVE TypeOK'
    OBVIOUS
  <1>1. CASE Tick
    BY <1>1 DEF Tick, TypeOK, goods, book, deals, ties
  <1>2. CASE UNCHANGED vars
    BY <1>2 DEF vars, TypeOK, goods, book, deals, ties
  <1>3. CASE \E caller \in Account :
       \/ RegisterParty(caller)
       \/ \E a \in Account : AuthorizeAgent(caller, a) \/ RevokeAgent(caller, a)
       \/ CreateCatalogEntry(caller)
       \/ \E k \in DOMAIN catalogs : UpdateCatalogEntry(caller, k)
    BY <1>3, PartyTypes
  <1>4. CASE \E caller \in Account :
       \/ \E p \in limit.prices : PostIntent(caller, p)
       \/ \E i \in DOMAIN intents : CancelIntent(caller, i)
       \/ \E l \in DOMAIN lots \cup {None} : PostListing(caller, l)
       \/ \E i \in DOMAIN listings : WithdrawListing(caller, i)
       \/ \E q \in limit.amounts, p \in limit.prices, freight \in limit.extras :
            \/ \E i \in DOMAIN intents : SubmitOffer(caller, "Intent", i, q, p, freight)
            \/ \E i \in DOMAIN listings : SubmitOffer(caller, "Listing", i, q, p, freight)
       \/ \E o \in DOMAIN offers : RetractOffer(caller, o)
    BY <1>4, BookTypes
  <1>5. CASE \E caller \in Account :
       \/ \E k \in DOMAIN catalogs, q \in limit.amounts : CreateLot(caller, k, q)
       \/ \E l \in DOMAIN lots : DisposeLot(caller, l) \/ AnchorCoa(caller, l) \/ RecordCte(caller, l)
       \/ \E inputs \in BoundedSeq([lot : DOMAIN lots, qty : limit.amounts], MaxInputs),
             k \in DOMAIN catalogs, q \in limit.amounts : TransformLot(caller, inputs, k, q)
    BY <1>5, GoodsTypes
  <1>6. CASE \E f \in DOMAIN fulfillments : TriggerAutoSettlement(f)
    BY <1>6, AutoTypes
  <1>7. CASE \E caller \in Account :
       \/ \E o \in DOMAIN offers, arbitrator \in limit.arbitrators :
            AcceptIntentOffer(caller, o, arbitrator) \/ AcceptListingOffer(caller, o, arbitrator)
       \/ \E n \in DOMAIN contracts : SellerAttestDelivery(caller, n)
       \/ \E f \in DOMAIN fulfillments, d \in limit.extras : BuyerAttestDelivery(caller, f, d)
       \/ \E f \in DOMAIN fulfillments : InitiateDispute(caller, f)
       \/ \E n \in DOMAIN contracts, for \in {"Buyer", "Seller"}, d \in limit.extras :
            ResolveDispute(caller, n, for, d)
    BY <1>7, DealTypes
  <1>8. CASE \E caller \in Account :
       \/ \E a \in Account, role \in {"Buyer", "Seller"} : ProposeStandingAgreement(caller, a, role)
       \/ \E g \in DOMAIN agreements : SignStandingAgreement(caller, g)
    BY <1>8, TieTypes
  <1> QED
    BY <1>1, <1>2, <1>3, <1>4, <1>5, <1>6, <1>7, <1>8 DEF Next

-----------------------------------------------------------------------------
(* What a step changes *)

\* The lots keep what they were made from and how much of them is there.
SameStock ==
  /\ DOMAIN lots' = DOMAIN lots
  /\ \A l \in DOMAIN lots : /\ lots'[l].total = lots[l].total
                            /\ lots'[l].available = lots[l].available
                            /\ lots'[l].inputs = lots[l].inputs

\* Nothing is contracted and no contract ends: intents and listings are made and
\* taken back, and what is made refers to what there is.
SameTargets ==
  /\ \A i \in DOMAIN intents :
       i \in DOMAIN intents' /\ ((intents'[i].status = "Contracted") <=> (intents[i].status = "Contracted"))
  /\ \A i \in DOMAIN intents' \ DOMAIN intents : intents'[i].status # "Contracted"
  /\ \A i \in DOMAIN listings :
       /\ i \in DOMAIN listings' /\ listings'[i].lot = listings[i].lot
       /\ (listings'[i].status = "Contracted") <=> (listings[i].status = "Contracted")
  /\ \A i \in DOMAIN listings' \ DOMAIN listings :
       listings'[i].status # "Contracted" /\ listings'[i].lot \in DOMAIN lots \cup {None}

\* Offers stay on their targets, and the new ones are on what there is.
SameOffers ==
  /\ \A o \in DOMAIN offers :
       /\ o \in DOMAIN offers' /\ offers'[o].on = offers[o].on
       /\ offers'[o].target = offers[o].target /\ offers'[o].qty = offers[o].qty
  /\ \A o \in DOMAIN offers' \ DOMAIN offers :
       offers'[o].target \in IF offers'[o].on = "Intent" THEN DOMAIN intents ELSE DOMAIN listings

\* A step that leaves the tracking events and the contracts alone.
Calm ==
  /\ UNCHANGED <<ctes, lot_cte_index, deals>> /\ now \in Nat /\ now' \in Nat /\ now <= now'
  /\ SameStock /\ SameTargets /\ SameOffers

\* An entry that changes in its status keeps the rest.
LEMMA Restated ==
  ASSUME NEW S, NEW s \in Seq(S), NEW k \in DOMAIN s, NEW v, NEW t,
         t = [s EXCEPT ![k].status = v]
  PROVE  /\ DOMAIN t = DOMAIN s
         /\ \A i \in DOMAIN s : i # k => t[i] = s[i]
         /\ t[k] = [s[k] EXCEPT !.status = v]
PROOF
  OBVIOUS

\* Registration, catalogs, time, agreements, disposal and certificates.
LEMMA CalmGoods ==
  ASSUME TypeOK,
         \/ Tick \/ UNCHANGED vars
         \/ \E caller \in Account :
              \/ RegisterParty(caller)
              \/ \E a \in Account : AuthorizeAgent(caller, a) \/ RevokeAgent(caller, a)
              \/ CreateCatalogEntry(caller)
              \/ \E k \in DOMAIN catalogs : UpdateCatalogEntry(caller, k)
              \/ \E l \in DOMAIN lots : DisposeLot(caller, l) \/ AnchorCoa(caller, l)
              \/ \E a \in Account, role \in {"Buyer", "Seller"} : ProposeStandingAgreement(caller, a, role)
              \/ \E g \in DOMAIN agreements : SignStandingAgreement(caller, g)
  PROVE  Calm
PROOF
  <1>0. now \in Nat /\ lots \in Seq(GoodsLot) /\ \A l \in DOMAIN lots : lots[l] \in GoodsLot
    BY Entries DEF TypeOK
  <1>1. ASSUME UNCHANGED lots PROVE SameStock
    BY <1>1 DEF SameStock
  <1>2. ASSUME UNCHANGED book PROVE SameTargets /\ SameOffers
    BY <1>2 DEF SameTargets, SameOffers, book
  <1>3. CASE Tick
    <2>1. UNCHANGED <<ctes, lot_cte_index, deals, lots, book>> /\ now' = now + 1
      BY <1>3 DEF Tick, goods
    <2> QED
      BY <1>0, <1>1, <1>2, <2>1 DEF Calm
  <1>4. ASSUME UNCHANGED <<now, ctes, lot_cte_index, deals, lots, book>> PROVE Calm
    BY <1>0, <1>1, <1>2, <1>4 DEF Calm
  <1>5. ASSUME NEW caller \in Account, NEW l \in DOMAIN lots, DisposeLot(caller, l) \/ AnchorCoa(caller, l)
        PROVE  Calm
    <2>1. UNCHANGED <<now, ctes, lot_cte_index, deals, book>>
      BY <1>5 DEF DisposeLot, AnchorCoa
    <2>2. lots[l] \in GoodsLot
      BY <1>0
    <2>3. \/ lots' = [lots EXCEPT ![l] = [lots[l] EXCEPT !.status = "Disposed"]]
          \/ lots' = [lots EXCEPT ![l] = [lots[l] EXCEPT !.coas = @ + 1]]
      BY <1>5 DEF DisposeLot, AnchorCoa
    <2>4. DOMAIN lots' = DOMAIN lots /\ \A m \in DOMAIN lots : m # l => lots'[m] = lots[m]
      BY <2>3
    <2>5. lots'[l] = [lots[l] EXCEPT !.status = "Disposed"] \/ lots'[l] = [lots[l] EXCEPT !.coas = @ + 1]
      BY <1>0, <2>3
    <2>6. lots'[l].total = lots[l].total /\ lots'[l].available = lots[l].available /\ lots'[l].inputs = lots[l].inputs
      BY <2>2, <2>5 DEF GoodsLot
    <2>7. SameStock
      BY <2>4, <2>6 DEF SameStock
    <2> QED
      BY <1>0, <1>2, <2>1, <2>7 DEF Calm
  <1>6. CASE UNCHANGED vars
    BY <1>4, <1>6 DEF vars, goods
  <1>7. ASSUME NEW caller \in Account,
              \/ RegisterParty(caller)
              \/ \E a \in Account : AuthorizeAgent(caller, a) \/ RevokeAgent(caller, a)
              \/ CreateCatalogEntry(caller)
              \/ \E k \in DOMAIN catalogs : UpdateCatalogEntry(caller, k)
              \/ \E a \in Account, role \in {"Buyer", "Seller"} : ProposeStandingAgreement(caller, a, role)
              \/ \E g \in DOMAIN agreements : SignStandingAgreement(caller, g)
        PROVE UNCHANGED <<now, ctes, lot_cte_index, deals, lots, book>>
    BY <1>7 DEF RegisterParty, AuthorizeAgent, RevokeAgent, CreateCatalogEntry, UpdateCatalogEntry,
                ProposeStandingAgreement, SignStandingAgreement, goods
  <1> QED
    BY <1>3, <1>4, <1>5, <1>6, <1>7

\* Intents, listings and offers.
LEMMA CalmBook ==
  ASSUME TypeOK, NEW caller \in Account,
         \/ \E p \in limit.prices : PostIntent(caller, p)
         \/ \E i \in DOMAIN intents : CancelIntent(caller, i)
         \/ \E l \in DOMAIN lots \cup {None} : PostListing(caller, l)
         \/ \E i \in DOMAIN listings : WithdrawListing(caller, i)
         \/ \E q \in limit.amounts, p \in limit.prices, freight \in limit.extras :
              \/ \E i \in DOMAIN intents : SubmitOffer(caller, "Intent", i, q, p, freight)
              \/ \E i \in DOMAIN listings : SubmitOffer(caller, "Listing", i, q, p, freight)
         \/ \E o \in DOMAIN offers : RetractOffer(caller, o)
  PROVE  Calm
PROOF
  <1>0. now \in Nat /\ intents \in Seq(TradeIntent) /\ listings \in Seq(SupplyListing) /\ offers \in Seq(Offer)
    BY DEF TypeOK
  <1>a. /\ \A i \in DOMAIN intents : intents[i] \in TradeIntent
        /\ \A i \in DOMAIN listings : listings[i] \in SupplyListing
        /\ \A o \in DOMAIN offers : offers[o] \in Offer
    BY Entries
  <1>b. UNCHANGED <<now, ctes, lot_cte_index, deals, lots>>
    BY DEF PostIntent, CancelIntent, PostListing, WithdrawListing, SubmitOffer, RetractOffer, goods
  <1>c. SameStock /\ now <= now' /\ now' \in Nat
    BY <1>0, <1>b DEF SameStock
  <1>1. ASSUME NEW p \in limit.prices, PostIntent(caller, p) PROVE SameTargets /\ SameOffers
    <2> DEFINE e == [buyer |-> caller, ceiling |-> p, status |-> "Posted"]
    <2>1. e \in TradeIntent /\ e.status # "Contracted"
      BY Numbers DEF TradeIntent
    <2>2. intents' = Append(intents, e) /\ UNCHANGED <<listings, offers>>
      BY <1>1 DEF PostIntent
    <2> HIDE DEF e
    <2>3. DOMAIN intents' = DOMAIN intents \cup {Len(intents) + 1} /\ intents'[Len(intents) + 1] = e
          /\ \A i \in DOMAIN intents : intents'[i] = intents[i]
      BY <1>0, <2>1, <2>2, Appended
    <2> QED
      BY <2>1, <2>2, <2>3 DEF SameTargets, SameOffers
  <1>2. ASSUME NEW i \in DOMAIN intents, CancelIntent(caller, i) PROVE SameTargets /\ SameOffers
    <2>1. intents' = [intents EXCEPT ![i].status = "Cancelled"] /\ UNCHANGED <<listings, offers>>
          /\ intents[i].status = "Posted"
      BY <1>2 DEF CancelIntent
    <2>2. DOMAIN intents' = DOMAIN intents /\ intents'[i] = [intents[i] EXCEPT !.status = "Cancelled"]
          /\ \A j \in DOMAIN intents : j # i => intents'[j] = intents[j]
      BY <1>0, <2>1, Restated
    <2>3. intents'[i].status = "Cancelled"
      BY <1>a, <2>2 DEF TradeIntent
    <2> QED
      BY <2>1, <2>2, <2>3 DEF SameTargets, SameOffers
  <1>3. ASSUME NEW l \in DOMAIN lots \cup {None}, PostListing(caller, l) PROVE SameTargets /\ SameOffers
    <2> DEFINE e == [seller |-> caller, lot |-> l, status |-> "Active"]
    <2>1. e \in SupplyListing /\ e.status # "Contracted" /\ e.lot = l
      BY Numbers DEF SupplyListing
    <2>2. listings' = Append(listings, e) /\ UNCHANGED <<intents, offers>>
      BY <1>3 DEF PostListing
    <2> HIDE DEF e
    <2>3. DOMAIN listings' = DOMAIN listings \cup {Len(listings) + 1} /\ listings'[Len(listings) + 1] = e
          /\ \A i \in DOMAIN listings : listings'[i] = listings[i]
      BY <1>0, <2>1, <2>2, Appended
    <2> QED
      BY <2>1, <2>2, <2>3 DEF SameTargets, SameOffers
  <1>4. ASSUME NEW i \in DOMAIN listings, WithdrawListing(caller, i) PROVE SameTargets /\ SameOffers
    <2>1. listings' = [listings EXCEPT ![i].status = "Withdrawn"] /\ UNCHANGED <<intents, offers>>
          /\ listings[i].status = "Active"
      BY <1>4 DEF WithdrawListing
    <2>2. DOMAIN listings' = DOMAIN listings /\ listings'[i] = [listings[i] EXCEPT !.status = "Withdrawn"]
          /\ \A j \in DOMAIN listings : j # i => listings'[j] = listings[j]
      BY <1>0, <2>1, Restated
    <2>3. listings'[i].status = "Withdrawn" /\ listings'[i].lot = listings[i].lot
      BY <1>a, <2>2 DEF SupplyListing
    <2> QED
      BY <2>1, <2>2, <2>3 DEF SameTargets, SameOffers
  <1>5. ASSUME NEW q \in limit.amounts, NEW p \in limit.prices, NEW freight \in limit.extras,
               NEW on \in {"Intent", "Listing"}, NEW i \in IF on = "Intent" THEN DOMAIN intents ELSE DOMAIN listings,
               SubmitOffer(caller, on, i, q, p, freight)
        PROVE SameTargets /\ SameOffers
    <2> DEFINE e == [on |-> on, target |-> i, offerer |-> caller, qty |-> q, price |-> p, freight |-> freight,
                     status |-> "Submitted"]
    <2>0. i \in Nat /\ q \in Nat /\ p \in Nat /\ freight \in Nat
      BY Identifiers, Amounts
    <2>1. e \in Offer /\ e.on = on /\ e.target = i
      BY <2>0 DEF Offer
    <2>2. offers' = Append(offers, e) /\ UNCHANGED <<intents, listings>>
      BY <1>5 DEF SubmitOffer
    <2> HIDE DEF e
    <2>3. DOMAIN offers' = DOMAIN offers \cup {Len(offers) + 1} /\ offers'[Len(offers) + 1] = e
          /\ \A o \in DOMAIN offers : offers'[o] = offers[o]
      BY <1>0, <2>1, <2>2, Appended
    <2> QED
      BY <2>1, <2>2, <2>3 DEF SameTargets, SameOffers
  <1>6. ASSUME NEW o \in DOMAIN offers, RetractOffer(caller, o) PROVE SameTargets /\ SameOffers
    <2>1. offers' = [offers EXCEPT ![o].status = "Retracted"] /\ UNCHANGED <<intents, listings>>
      BY <1>6 DEF RetractOffer
    <2>2. DOMAIN offers' = DOMAIN offers /\ offers'[o] = [offers[o] EXCEPT !.status = "Retracted"]
          /\ \A j \in DOMAIN offers : j # o => offers'[j] = offers[j]
      BY <1>0, <2>1, Restated
    <2>3. offers'[o].on = offers[o].on /\ offers'[o].target = offers[o].target /\ offers'[o].qty = offers[o].qty
      BY <1>a, <2>2 DEF Offer
    <2> QED
      BY <2>1, <2>2, <2>3 DEF SameTargets, SameOffers
  <1>7. ASSUME NEW q \in limit.amounts, NEW p \in limit.prices, NEW freight \in limit.extras,
               \/ \E i \in DOMAIN intents : SubmitOffer(caller, "Intent", i, q, p, freight)
               \/ \E i \in DOMAIN listings : SubmitOffer(caller, "Listing", i, q, p, freight)
        PROVE SameTargets /\ SameOffers
    BY <1>5, <1>7
  <1>8. SameTargets /\ SameOffers
    BY <1>1, <1>2, <1>3, <1>4, <1>6, <1>7
  <1> QED
    BY <1>0, <1>b, <1>c, <1>8 DEF Calm

\* A step is calm, or one of nine calls.
LEMMA StepShape ==
  ASSUME TypeOK, [Next]_vars
  PROVE  \/ Calm
         \/ \E caller \in Account :
              \/ \E k \in DOMAIN catalogs, q \in limit.amounts : CreateLot(caller, k, q)
              \/ \E l \in DOMAIN lots : RecordCte(caller, l)
              \/ \E inputs \in BoundedSeq([lot : DOMAIN lots, qty : limit.amounts], MaxInputs),
                    k \in DOMAIN catalogs, q \in limit.amounts : TransformLot(caller, inputs, k, q)
              \/ \E o \in DOMAIN offers, arbitrator \in limit.arbitrators :
                   AcceptIntentOffer(caller, o, arbitrator) \/ AcceptListingOffer(caller, o, arbitrator)
              \/ \E n \in DOMAIN contracts : SellerAttestDelivery(caller, n)
              \/ \E f \in DOMAIN fulfillments, d \in limit.extras : BuyerAttestDelivery(caller, f, d)
              \/ \E f \in DOMAIN fulfillments : InitiateDispute(caller, f)
              \/ \E n \in DOMAIN contracts, for \in {"Buyer", "Seller"}, d \in limit.extras :
                   ResolveDispute(caller, n, for, d)
         \/ \E f \in DOMAIN fulfillments : TriggerAutoSettlement(f)
PROOF
  <1>1. CASE \/ Tick \/ UNCHANGED vars
         \/ \E caller \in Account :
              \/ RegisterParty(caller)
              \/ \E a \in Account : AuthorizeAgent(caller, a) \/ RevokeAgent(caller, a)
              \/ CreateCatalogEntry(caller)
              \/ \E k \in DOMAIN catalogs : UpdateCatalogEntry(caller, k)
              \/ \E l \in DOMAIN lots : DisposeLot(caller, l) \/ AnchorCoa(caller, l)
              \/ \E a \in Account, role \in {"Buyer", "Seller"} : ProposeStandingAgreement(caller, a, role)
              \/ \E g \in DOMAIN agreements : SignStandingAgreement(caller, g)
    BY <1>1, CalmGoods
  <1>2. CASE \E caller \in Account :
         \/ \E p \in limit.prices : PostIntent(caller, p)
         \/ \E i \in DOMAIN intents : CancelIntent(caller, i)
         \/ \E l \in DOMAIN lots \cup {None} : PostListing(caller, l)
         \/ \E i \in DOMAIN listings : WithdrawListing(caller, i)
         \/ \E q \in limit.amounts, p \in limit.prices, freight \in limit.extras :
              \/ \E i \in DOMAIN intents : SubmitOffer(caller, "Intent", i, q, p, freight)
              \/ \E i \in DOMAIN listings : SubmitOffer(caller, "Listing", i, q, p, freight)
         \/ \E o \in DOMAIN offers : RetractOffer(caller, o)
    BY <1>2, CalmBook
  <1> QED
    BY <1>1, <1>2 DEF Next

-----------------------------------------------------------------------------
(* What no step changes *)

\* Two states of a contract differ in its status at most.
SameTerms(c, b) ==
  /\ b.offer = c.offer /\ b.buyer = c.buyer /\ b.seller = c.seller /\ b.lot = c.lot
  /\ b.qty = c.qty /\ b.total = c.total /\ b.arbitrator = c.arbitrator

\* The records that others are judged by stay as they were written: what a lot was
\* made from, the tracking events, what an offer was for, the terms of a contract,
\* the time of an attestation and what was paid.
Kept ==
  /\ now \in Nat /\ now' \in Nat /\ now <= now'
  /\ \A l \in DOMAIN lots :
       l \in DOMAIN lots' /\ lots'[l].total = lots[l].total /\ lots'[l].inputs = lots[l].inputs
  /\ \A e \in DOMAIN ctes : e \in DOMAIN ctes' /\ ctes'[e] = ctes[e]
  /\ \A i \in DOMAIN intents : i \in DOMAIN intents'
  /\ \A i \in DOMAIN listings : i \in DOMAIN listings' /\ listings'[i].lot = listings[i].lot
  /\ \A o \in DOMAIN offers :
       /\ o \in DOMAIN offers' /\ offers'[o].on = offers[o].on
       /\ offers'[o].target = offers[o].target /\ offers'[o].qty = offers[o].qty
  /\ \A n \in DOMAIN contracts :
       n \in DOMAIN contracts' /\ SameTerms(contracts[n], contracts'[n])
  /\ \A f \in DOMAIN fulfillments :
       /\ f \in DOMAIN fulfillments' /\ fulfillments'[f].contract = fulfillments[f].contract
       /\ fulfillments'[f].signed_at = fulfillments[f].signed_at
  /\ \A s \in DOMAIN settlements : s \in DOMAIN settlements' /\ settlements'[s] = settlements[s]

\* A contract but for its status.
LEMMA TermsKept ==
  ASSUME NEW c \in Contract, NEW s
  PROVE  /\ SameTerms(c, c) /\ SameTerms(c, [c EXCEPT !.status = s])
         /\ [c EXCEPT !.status = s].status = s
PROOF
  BY DEF Contract, SameTerms

\* A lot that is debited, or handed over.
LEMMA LotChanged ==
  ASSUME NEW lot \in GoodsLot, NEW q, NEW c
  PROVE  /\ Debited(lot, q).total = lot.total /\ Debited(lot, q).inputs = lot.inputs
         /\ Debited(lot, q).available = lot.available - q
         /\ Transferred(lot, c).total = lot.total /\ Transferred(lot, c).inputs = lot.inputs
         /\ Transferred(lot, c).available = lot.available
PROOF
  BY DEF Debited, Transferred, GoodsLot

\* What acceptance changes: the target is contracted, and one contract more.
Accepted(o) ==
  /\ UNCHANGED <<now, ctes, lot_cte_index, fulfillments, settlements>>
  /\ DOMAIN lots' = DOMAIN lots
  /\ \A l \in DOMAIN lots : lots'[l].total = lots[l].total /\ lots'[l].inputs = lots[l].inputs
  /\ DOMAIN offers' = DOMAIN offers
  /\ \A p \in DOMAIN offers : /\ offers'[p].on = offers[p].on
                              /\ offers'[p].target = offers[p].target /\ offers'[p].qty = offers[p].qty
  /\ DOMAIN intents' = DOMAIN intents /\ DOMAIN listings' = DOMAIN listings
  /\ \A i \in DOMAIN listings : listings'[i].lot = listings[i].lot
  /\ DOMAIN contracts' = DOMAIN contracts \cup {Len(contracts) + 1} /\ Len(contracts) + 1 \notin DOMAIN contracts
  /\ \A n \in DOMAIN contracts : contracts'[n] = contracts[n]
  /\ contracts'[Len(contracts) + 1].offer = o
  /\ contracts'[Len(contracts) + 1].qty = offers[o].qty
  /\ contracts'[Len(contracts) + 1].status = "Active"

LEMMA IntentAccepted ==
  ASSUME TypeOK, References, NEW caller \in Account, NEW o \in DOMAIN offers, NEW arbitrator \in limit.arbitrators,
         AcceptIntentOffer(caller, o, arbitrator)
  PROVE  /\ Accepted(o) /\ SameStock /\ UNCHANGED listings
         /\ offers[o].on = "Intent" /\ offers[o].target \in DOMAIN intents
         /\ intents[offers[o].target].status = "Posted" /\ intents'[offers[o].target].status = "Contracted"
         /\ \A i \in DOMAIN intents : i # offers[o].target => intents'[i] = intents[i]
         /\ contracts'[Len(contracts) + 1].lot = None
PROOF
  <1> DEFINE i == offers[o].target
             c == Formed(caller, o, arbitrator)
  <1>0. intents \in Seq(TradeIntent) /\ offers \in Seq(Offer) /\ contracts \in Seq(Contract)
    BY DEF TypeOK
  <1>1. offers[o] \in Offer /\ o \in Nat /\ Len(contracts) \in Nat
    BY Entries, Numbers
  <1>2. offers[o].on = "Intent" /\ i \in DOMAIN intents /\ intents[i].status = "Posted"
    BY DEF AcceptIntentOffer, References
  <1>3. /\ intents' = [intents EXCEPT ![i].status = "Contracted"]
        /\ offers' = [offers EXCEPT ![o].status = "Accepted"]
        /\ contracts' = Append(contracts, c)
        /\ UNCHANGED <<now, lots, ctes, lot_cte_index, listings, fulfillments, settlements>>
    BY DEF AcceptIntentOffer, goods
  <1>4. c \in Contract /\ c.offer = o /\ c.qty = offers[o].qty /\ c.status = "Active" /\ c.lot = None
    <2>1. arbitrator \in Account \cup {None}
      BY DEF TypeOK
    <2> QED
      BY <1>1, <1>2, <2>1 DEF Formed, Contract, ContractStatus, Offer
  <1> HIDE DEF c
  <1>5. /\ DOMAIN contracts' = DOMAIN contracts \cup {Len(contracts) + 1} /\ Len(contracts) + 1 \notin DOMAIN contracts
        /\ \A n \in DOMAIN contracts : contracts'[n] = contracts[n]
        /\ contracts'[Len(contracts) + 1] = c
    <2>1. contracts \in Seq(Contract) /\ c \in Contract /\ contracts' = Append(contracts, c)
      BY <1>0, <1>3, <1>4
    <2> QED
      BY <2>1, Appended
  <1>6. DOMAIN offers' = DOMAIN offers /\ (\A p \in DOMAIN offers : p # o => offers'[p] = offers[p])
        /\ offers'[o] = [offers[o] EXCEPT !.status = "Accepted"]
    BY <1>0, <1>3, Restated
  <1>7. offers'[o].on = offers[o].on /\ offers'[o].target = offers[o].target /\ offers'[o].qty = offers[o].qty
    BY <1>1, <1>6 DEF Offer
  <1>8. DOMAIN intents' = DOMAIN intents /\ (\A j \in DOMAIN intents : j # i => intents'[j] = intents[j])
        /\ intents'[i] = [intents[i] EXCEPT !.status = "Contracted"]
    BY <1>0, <1>2, <1>3, Restated
  <1>9. intents'[i].status = "Contracted"
    <2>1. intents[i] \in TradeIntent
      BY <1>2, Entries
    <2> QED
      BY <1>8, <2>1 DEF TradeIntent
  <1>10. Accepted(o)
    BY <1>3, <1>4, <1>5, <1>6, <1>7, <1>8 DEF Accepted
  <1> QED
    BY <1>2, <1>3, <1>4, <1>5, <1>8, <1>9, <1>10 DEF SameStock

LEMMA ListingAccepted ==
  ASSUME TypeOK, References, NEW caller \in Account, NEW o \in DOMAIN offers, NEW arbitrator \in limit.arbitrators,
         AcceptListingOffer(caller, o, arbitrator)
  PROVE  LET i == offers[o].target
             l == listings[i].lot
         IN  /\ Accepted(o) /\ UNCHANGED intents
             /\ offers[o].on = "Listing" /\ i \in DOMAIN listings
             /\ listings[i].status = "Active" /\ listings'[i].status = "Contracted"
             /\ \A j \in DOMAIN listings : j # i => listings'[j] = listings[j]
             /\ contracts'[Len(contracts) + 1].lot = l
             /\ \A m \in DOMAIN lots :
                  lots'[m].available = IF m = l THEN lots[m].available - offers[o].qty ELSE lots[m].available
PROOF
  <1> DEFINE i == offers[o].target
             l == listings[i].lot
             c == Formed(caller, o, arbitrator)
  <1>0. listings \in Seq(SupplyListing) /\ offers \in Seq(Offer) /\ contracts \in Seq(Contract) /\ lots \in Seq(GoodsLot)
    BY DEF TypeOK
  <1>1. offers[o] \in Offer /\ o \in Nat /\ Len(contracts) \in Nat /\ None \notin Nat
    BY Entries, Numbers, ContractAssumption DEF ContractAssumption
  <1>2. offers[o].on = "Listing" /\ i \in DOMAIN listings /\ listings[i].status = "Active" /\ l \in DOMAIN lots \cup {None}
    BY DEF AcceptListingOffer, Sellable, References
  <1>a. listings[i] \in SupplyListing /\ \A m \in DOMAIN lots : lots[m] \in GoodsLot
    BY <1>2, Entries
  <1>3. /\ listings' = [listings EXCEPT ![i].status = "Contracted"]
        /\ offers' = [offers EXCEPT ![o].status = "Accepted"]
        /\ contracts' = Append(contracts, c)
        /\ UNCHANGED <<now, ctes, lot_cte_index, intents, fulfillments, settlements>>
        /\ l = None => lots' = lots
        /\ l # None => lots' = [lots EXCEPT ![l] = Debited(lots[l], offers[o].qty)]
    BY DEF AcceptListingOffer
  <1>4. c \in Contract /\ c.offer = o /\ c.qty = offers[o].qty /\ c.status = "Active" /\ c.lot = l
    <2>1. arbitrator \in Account \cup {None}
      BY DEF TypeOK
    <2> QED
      BY <1>1, <1>2, <1>a, <2>1 DEF Formed, Contract, ContractStatus, Offer, SupplyListing
  <1> HIDE DEF c
  <1>5. /\ DOMAIN contracts' = DOMAIN contracts \cup {Len(contracts) + 1} /\ Len(contracts) + 1 \notin DOMAIN contracts
        /\ \A n \in DOMAIN contracts : contracts'[n] = contracts[n]
        /\ contracts'[Len(contracts) + 1] = c
    <2>1. contracts \in Seq(Contract) /\ c \in Contract /\ contracts' = Append(contracts, c)
      BY <1>0, <1>3, <1>4
    <2> QED
      BY <2>1, Appended
  <1>6. DOMAIN offers' = DOMAIN offers /\ (\A p \in DOMAIN offers : p # o => offers'[p] = offers[p])
        /\ offers'[o] = [offers[o] EXCEPT !.status = "Accepted"]
    BY <1>0, <1>3, Restated
  <1>7. offers'[o].on = offers[o].on /\ offers'[o].target = offers[o].target /\ offers'[o].qty = offers[o].qty
    BY <1>1, <1>6 DEF Offer
  <1>8. DOMAIN listings' = DOMAIN listings /\ (\A j \in DOMAIN listings : j # i => listings'[j] = listings[j])
        /\ listings'[i] = [listings[i] EXCEPT !.status = "Contracted"]
    BY <1>0, <1>2, <1>3, Restated
  <1>9. listings'[i].status = "Contracted" /\ listings'[i].lot = listings[i].lot
    BY <1>8, <1>a DEF SupplyListing
  <1>10. DOMAIN lots' = DOMAIN lots
         /\ \A m \in DOMAIN lots :
              /\ lots'[m].total = lots[m].total /\ lots'[m].inputs = lots[m].inputs
              /\ lots'[m].available = IF m = l THEN lots[m].available - offers[o].qty ELSE lots[m].available
    <2>1. CASE l = None
      <3>1. l \notin DOMAIN lots
        BY <1>1, <2>1, Numbers
      <3> QED
        BY <1>3, <2>1, <3>1
    <2>2. CASE l # None
      <3>1. l \in DOMAIN lots /\ lots' = [lots EXCEPT ![l] = Debited(lots[l], offers[o].qty)]
        BY <1>2, <1>3, <2>2
      <3>2. DOMAIN lots' = DOMAIN lots /\ (\A m \in DOMAIN lots : m # l => lots'[m] = lots[m])
            /\ lots'[l] = Debited(lots[l], offers[o].qty)
        BY <1>0, <3>1
      <3>3. lots[l] \in GoodsLot
        BY <1>a, <3>1
      <3>4. /\ lots'[l].total = lots[l].total /\ lots'[l].inputs = lots[l].inputs
            /\ lots'[l].available = lots[l].available - offers[o].qty
        BY <3>2, <3>3, LotChanged
      <3> QED
        BY <3>2, <3>4
    <2> QED
      BY <2>1, <2>2
  <1>11. Accepted(o)
    BY <1>3, <1>4, <1>5, <1>6, <1>7, <1>8, <1>9, <1>10 DEF Accepted
  <1> QED
    BY <1>2, <1>3, <1>4, <1>5, <1>8, <1>9, <1>10, <1>11

\* What a settlement changes: a record of it, the status of the contract, the owner
\* of the lot, and nothing else that this module is about.
Executed(n, final) ==
  /\ UNCHANGED <<now, ctes, lot_cte_index, book>> /\ SameStock
  /\ contracts' = [contracts EXCEPT ![n].status = final]
  /\ DOMAIN settlements' = DOMAIN settlements \cup {Len(settlements) + 1} /\ Len(settlements) + 1 \notin DOMAIN settlements
  /\ \A s \in DOMAIN settlements : settlements'[s] = settlements[s]
  /\ settlements'[Len(settlements) + 1].contract = n

LEMMA SettlementExecuted ==
  ASSUME TypeOK, References, NEW n \in DOMAIN contracts, NEW deducted \in Nat, NEW loser, NEW final,
         ExecuteSettlement(n, deducted, loser, final)
  PROVE  Executed(n, final)
PROOF
  <1> DEFINE c == contracts[n]
             net == Max({0, c.total - deducted})
             e == [contract |-> n, net |-> net]
  <1>0. lots \in Seq(GoodsLot) /\ settlements \in Seq(Settlement)
    BY DEF TypeOK
  <1>1. c \in Contract /\ n \in Nat
    BY Entries, Numbers
  <1>2. net \in Nat
    <2>1. c.total - deducted \in Int
      BY <1>1 DEF Contract
    <2> QED
      BY <2>1, AtLeastZero
  <1> HIDE DEF net
  <1>3. e \in Settlement /\ e.contract = n
    BY <1>1, <1>2 DEF Settlement
  <1> HIDE DEF e
  <1>4. /\ settlements' = Append(settlements, e)
        /\ c.lot # None => lots' = [lots EXCEPT ![c.lot] = Transferred(@, c)]
        /\ c.lot = None => lots' = lots
        /\ contracts' = [contracts EXCEPT ![n].status = final]
        /\ UNCHANGED <<now, ctes, lot_cte_index, book>>
    BY DEF ExecuteSettlement, net, e
  <1>5. SameStock
    <2>1. CASE c.lot = None
      BY <1>4, <2>1 DEF SameStock
    <2>2. CASE c.lot # None
      <3> DEFINE l == c.lot
      <3>1. l \in DOMAIN lots
        BY <2>2 DEF References
      <3>2. lots[l] \in GoodsLot
        BY <3>1, Entries
      <3> HIDE DEF c
      <3>3. DOMAIN lots' = DOMAIN lots /\ (\A m \in DOMAIN lots : m # l => lots'[m] = lots[m])
            /\ lots'[l] = Transferred(lots[l], c)
        BY <1>0, <1>4, <2>2, <3>1
      <3>4. /\ lots'[l].total = lots[l].total /\ lots'[l].inputs = lots[l].inputs
            /\ lots'[l].available = lots[l].available
        BY <3>2, <3>3, LotChanged
      <3> QED
        BY <3>3, <3>4 DEF SameStock
    <2> QED
      BY <2>1, <2>2
  <1>6. DOMAIN settlements' = DOMAIN settlements \cup {Len(settlements) + 1} /\ Len(settlements) + 1 \notin DOMAIN settlements
        /\ (\A s \in DOMAIN settlements : settlements'[s] = settlements[s])
        /\ settlements'[Len(settlements) + 1] = e
    BY <1>0, <1>3, <1>4, Appended
  <1> QED
    BY <1>3, <1>4, <1>5, <1>6 DEF Executed

\* What a contract is in after a change of its status.
LEMMA ContractRestated ==
  ASSUME TypeOK, NEW n \in DOMAIN contracts, NEW s, contracts' = [contracts EXCEPT ![n].status = s]
  PROVE  /\ DOMAIN contracts' = DOMAIN contracts
         /\ \A m \in DOMAIN contracts : m # n => contracts'[m] = contracts[m]
         /\ contracts'[n] = [contracts[n] EXCEPT !.status = s] /\ contracts'[n].status = s
PROOF
  <1>1. contracts \in Seq(Contract) /\ contracts[n] \in Contract
    BY Entries DEF TypeOK
  <1> QED
    BY <1>1, Restated, TermsKept

\* What an attestation is in after a change of its status.
LEMMA FulfillmentRestated ==
  ASSUME TypeOK, NEW f \in DOMAIN fulfillments, NEW s, fulfillments' = [fulfillments EXCEPT ![f].status = s]
  PROVE  /\ DOMAIN fulfillments' = DOMAIN fulfillments
         /\ \A g \in DOMAIN fulfillments :
              /\ fulfillments'[g].contract = fulfillments[g].contract
              /\ fulfillments'[g].signed_at = fulfillments[g].signed_at
              /\ fulfillments'[g].status = IF g = f THEN s ELSE fulfillments[g].status
PROOF
  <1>1. fulfillments \in Seq(Fulfillment) /\ fulfillments[f] \in Fulfillment
    BY Entries DEF TypeOK
  <1>2. DOMAIN fulfillments' = DOMAIN fulfillments
        /\ (\A g \in DOMAIN fulfillments : g # f => fulfillments'[g] = fulfillments[g])
        /\ fulfillments'[f] = [fulfillments[f] EXCEPT !.status = s]
    BY <1>1, Restated
  <1>3. /\ fulfillments'[f].contract = fulfillments[f].contract
        /\ fulfillments'[f].signed_at = fulfillments[f].signed_at
        /\ fulfillments'[f].status = s
    BY <1>1, <1>2 DEF Fulfillment
  <1> QED
    BY <1>2, <1>3

\* What the seller's attestation changes.
LEMMA SellerAttested ==
  ASSUME TypeOK, NEW caller, NEW n \in DOMAIN contracts, SellerAttestDelivery(caller, n)
  PROVE  LET f == Len(fulfillments) + 1
         IN  /\ UNCHANGED <<now, ctes, lot_cte_index, book, settlements, lots>>
             /\ contracts[n].status \in {"Active", "InFulfillment"}
             /\ \A g \in DOMAIN fulfillments : fulfillments[g].contract # n
             /\ contracts' = [contracts EXCEPT ![n].status = "InFulfillment"]
             /\ DOMAIN fulfillments' = DOMAIN fulfillments \cup {f} /\ f \notin DOMAIN fulfillments
             /\ \A g \in DOMAIN fulfillments : fulfillments'[g] = fulfillments[g]
             /\ fulfillments'[f].contract = n /\ fulfillments'[f].status = "SellerAttested"
PROOF
  <1> DEFINE e == [contract |-> n, signed_at |-> now, status |-> "SellerAttested"]
  <1>1. e \in Fulfillment /\ e.contract = n /\ e.status = "SellerAttested"
    BY Numbers DEF Fulfillment, TypeOK
  <1> HIDE DEF e
  <1>2. /\ UNCHANGED <<now, ctes, lot_cte_index, book, settlements, lots>>
        /\ contracts[n].status \in {"Active", "InFulfillment"}
        /\ \A g \in DOMAIN fulfillments : fulfillments[g].contract # n
        /\ contracts' = [contracts EXCEPT ![n].status = "InFulfillment"]
        /\ fulfillments' = Append(fulfillments, e)
    BY DEF SellerAttestDelivery, goods, e
  <1>3. fulfillments \in Seq(Fulfillment)
    BY DEF TypeOK
  <1>4. /\ DOMAIN fulfillments' = DOMAIN fulfillments \cup {Len(fulfillments) + 1} /\ Len(fulfillments) + 1 \notin DOMAIN fulfillments
        /\ \A g \in DOMAIN fulfillments : fulfillments'[g] = fulfillments[g]
        /\ fulfillments'[Len(fulfillments) + 1] = e
    BY <1>1, <1>2, <1>3, Appended
  <1> QED
    BY <1>1, <1>2, <1>4

\* What a contract goes through after it is formed: the attestation of its seller,
\* or a change of its attestation, of its status and of its settlements.
LEMMA DealShape ==
  ASSUME TypeOK, References, NEW caller, NEW f \in DOMAIN fulfillments
  PROVE  LET n == fulfillments[f].contract
         IN  /\ \A d \in limit.extras : BuyerAttestDelivery(caller, f, d) =>
                  /\ fulfillments[f].status = "SellerAttested"
                  /\ fulfillments' = [fulfillments EXCEPT ![f].status = "Complete"]
                  /\ Executed(n, "Settled")
             /\ InitiateDispute(caller, f) =>
                  /\ contracts[n].status = "InFulfillment"
                  /\ fulfillments' = [fulfillments EXCEPT ![f].status = "Disputed"]
                  /\ contracts' = [contracts EXCEPT ![n].status = "Disputed"]
                  /\ UNCHANGED <<now, ctes, lot_cte_index, book, settlements, lots>>
             /\ TriggerAutoSettlement(f) =>
                  /\ fulfillments[f].status = "SellerAttested"
                  /\ now > fulfillments[f].signed_at + DisputeWindow
                  /\ fulfillments' = fulfillments /\ Executed(n, "Settled")
PROOF
  <1> DEFINE n == fulfillments[f].contract
  <1>1. n \in DOMAIN contracts /\ 0 \in Nat /\ \A d \in limit.extras : d \in Nat
    BY Numbers DEF References
  <1>2. ASSUME NEW d \in limit.extras, BuyerAttestDelivery(caller, f, d)
        PROVE  /\ fulfillments[f].status = "SellerAttested"
               /\ fulfillments' = [fulfillments EXCEPT ![f].status = "Complete"]
               /\ Executed(n, "Settled")
    <2>1. /\ fulfillments[f].status = "SellerAttested"
          /\ fulfillments' = [fulfillments EXCEPT ![f].status = "Complete"]
          /\ ExecuteSettlement(n, d, None, "Settled")
      BY <1>2 DEF BuyerAttestDelivery
    <2> QED
      BY <1>1, <2>1, SettlementExecuted
  <1>3. ASSUME TriggerAutoSettlement(f)
        PROVE  /\ fulfillments[f].status = "SellerAttested"
               /\ now > fulfillments[f].signed_at + DisputeWindow
               /\ fulfillments' = fulfillments /\ Executed(n, "Settled")
    <2>1. /\ fulfillments[f].status = "SellerAttested"
          /\ now > fulfillments[f].signed_at + DisputeWindow
          /\ fulfillments' = fulfillments /\ ExecuteSettlement(n, 0, None, "Settled")
      BY <1>3 DEF TriggerAutoSettlement, WindowClosed
    <2> QED
      BY <1>1, <2>1, SettlementExecuted
  <1>4. InitiateDispute(caller, f) =>
                  /\ contracts[n].status = "InFulfillment"
                  /\ fulfillments' = [fulfillments EXCEPT ![f].status = "Disputed"]
                  /\ contracts' = [contracts EXCEPT ![n].status = "Disputed"]
                  /\ UNCHANGED <<now, ctes, lot_cte_index, book, settlements, lots>>
    BY DEF InitiateDispute, Disputable, Contested, goods
  <1> QED
    BY <1>2, <1>3, <1>4

\* The ruling of a dispute.
LEMMA Ruled ==
  ASSUME TypeOK, References, NEW caller, NEW n \in DOMAIN contracts, NEW for \in {"Buyer", "Seller"},
         NEW d \in limit.extras, ResolveDispute(caller, n, for, d)
  PROVE  contracts[n].status = "Disputed" /\ fulfillments' = fulfillments
         /\ \E final \in {"ResolvedBuyer", "ResolvedSeller"} : Executed(n, final)
PROOF
  <1>1. contracts[n].status = "Disputed" /\ fulfillments' = fulfillments
        /\ \/ ExecuteSettlement(n, d, contracts[n].seller, "ResolvedBuyer")
           \/ ExecuteSettlement(n, d, contracts[n].buyer, "ResolvedSeller")
    BY DEF ResolveDispute
  <1>2. d \in Nat
    BY Numbers
  <1> QED
    BY <1>1, <1>2, SettlementExecuted

\* What a new lot changes: it is there, made of its inputs, and what they draw is
\* taken from their lots.
Produced(inputs, q) ==
  /\ UNCHANGED <<now, book, deals>>
  /\ inputs \in Seq(InputLotRef) /\ \A i \in DOMAIN inputs : inputs[i].lot \in DOMAIN lots
  /\ DOMAIN lots' = DOMAIN lots \cup {Len(lots) + 1} /\ Len(lots) + 1 \notin DOMAIN lots
  /\ \A l \in DOMAIN lots : /\ lots'[l].total = lots[l].total /\ lots'[l].inputs = lots[l].inputs
                            /\ lots'[l].available = lots[l].available - Drawn(inputs, l)
  /\ lots'[Len(lots) + 1].total = q /\ lots'[Len(lots) + 1].available = q
  /\ lots'[Len(lots) + 1].inputs = inputs

\* The events a lot is found from, none for one that is not there.
IndexOf(l) == IF l \in DOMAIN lots THEN lot_cte_index[l] ELSE {}

\* What a tracking event changes.
Noted(cte, touched) ==
  /\ DOMAIN ctes' = DOMAIN ctes \cup {Len(ctes) + 1} /\ Len(ctes) + 1 \notin DOMAIN ctes
  /\ \A e \in DOMAIN ctes : ctes'[e] = ctes[e]
  /\ ctes'[Len(ctes) + 1] = cte
  /\ \A l \in DOMAIN lots' :
       lot_cte_index'[l] = IF l \in touched THEN IndexOf(l) \cup {Len(ctes) + 1} ELSE IndexOf(l)

\* The index with room for a new lot.
LEMMA IndexGrown ==
  ASSUME TypeOK
  PROVE  LET grown == Append(lot_cte_index, {})
         IN  /\ DOMAIN grown = DOMAIN lots \cup {Len(lots) + 1}
             /\ \A l \in DOMAIN lots \cup {Len(lots) + 1} : grown[l] = IndexOf(l)
PROOF
  <1>1. lots \in Seq(GoodsLot) /\ lot_cte_index \in [DOMAIN lots -> SUBSET DOMAIN ctes]
    BY DEF TypeOK
  <1>2. lot_cte_index \in Seq(SUBSET DOMAIN ctes) /\ Len(lot_cte_index) = Len(lots) /\ DOMAIN lot_cte_index = DOMAIN lots
    BY <1>1, Remade
  <1>3. {} \in SUBSET DOMAIN ctes
    OBVIOUS
  <1> QED
    BY <1>2, <1>3, Appended DEF IndexOf

LEMMA EventNoted ==
  ASSUME TypeOK, NEW cte \in Fsma204Cte, NEW touched, NEW index, WriteCte(cte, touched, index),
         DOMAIN index = DOMAIN lots', \A l \in DOMAIN lots' : index[l] = IndexOf(l)
  PROVE  Noted(cte, touched)
PROOF
  <1>1. ctes \in Seq(Fsma204Cte) /\ ctes' = Append(ctes, cte)
        /\ lot_cte_index' = [l \in DOMAIN lots' |-> IF l \in touched THEN index[l] \cup {Len(ctes) + 1} ELSE index[l]]
    BY DEF TypeOK, WriteCte
  <1>2. DOMAIN ctes' = DOMAIN ctes \cup {Len(ctes) + 1} /\ Len(ctes) + 1 \notin DOMAIN ctes
        /\ (\A e \in DOMAIN ctes : ctes'[e] = ctes[e]) /\ ctes'[Len(ctes) + 1] = cte
    BY <1>1, Appended
  <1> QED
    BY <1>1, <1>2 DEF Noted

LEMMA LotCreated ==
  ASSUME TypeOK, NEW caller \in Account, NEW k \in DOMAIN catalogs, NEW q \in limit.amounts, CreateLot(caller, k, q)
  PROVE  Produced(<<>>, q) /\ UNCHANGED ctes /\ \A l \in DOMAIN lots' : lot_cte_index'[l] = IndexOf(l)
PROOF
  <1> DEFINE e == NewLot(caller, k, q, <<>>)
  <1>0. lots \in Seq(GoodsLot) /\ <<>> \in Seq(InputLotRef) /\ DOMAIN <<>> = {} /\ Len(<<>>) = 0
    BY DEF TypeOK
  <1>1. e \in GoodsLot /\ e.total = q /\ e.available = q /\ e.inputs = <<>>
    BY <1>0, Numbers DEF NewLot, GoodsLot, LotStatus
  <1> HIDE DEF e
  <1>2. lots' = Append(lots, e) /\ lot_cte_index' = Append(lot_cte_index, {})
        /\ UNCHANGED <<now, ctes, book, deals>>
    BY DEF CreateLot, e
  <1>3. DOMAIN lots' = DOMAIN lots \cup {Len(lots) + 1} /\ Len(lots) + 1 \notin DOMAIN lots
        /\ (\A l \in DOMAIN lots : lots'[l] = lots[l]) /\ lots'[Len(lots) + 1] = e
    BY <1>0, <1>1, <1>2, Appended
  <1>4. ASSUME NEW l \in DOMAIN lots PROVE lots[l].available = lots[l].available - Drawn(<<>>, l)
    <2>1. Drawn(<<>>, l) = 0
      BY <1>0, DrawnFacts
    <2>2. lots[l].available \in Nat
      BY Entries DEF GoodsLot
    <2> QED
      BY <2>1, <2>2
  <1>5. Produced(<<>>, q)
    BY <1>0, <1>1, <1>2, <1>3, <1>4 DEF Produced
  <1> QED
    BY <1>2, <1>3, <1>5, IndexGrown

LEMMA EventRecorded ==
  ASSUME TypeOK, NEW caller \in Account, NEW l \in DOMAIN lots, RecordCte(caller, l)
  PROVE  /\ UNCHANGED <<now, lots, book, deals>>
         /\ Noted([actor |-> caller, lot |-> l, output |-> None], {l})
PROOF
  <1>1. [actor |-> caller, lot |-> l, output |-> None] \in Fsma204Cte
    BY Numbers DEF Fsma204Cte
  <1>2. WriteCte([actor |-> caller, lot |-> l, output |-> None], {l}, lot_cte_index)
        /\ UNCHANGED <<now, lots, book, deals>>
    BY DEF RecordCte
  <1>3. DOMAIN lot_cte_index = DOMAIN lots /\ \A m \in DOMAIN lots : lot_cte_index[m] = IndexOf(m)
    BY DEF TypeOK, IndexOf
  <1> QED
    BY <1>1, <1>2, <1>3, EventNoted

LEMMA LotTransformed ==
  ASSUME TypeOK, NEW caller \in Account, NEW inputs \in BoundedSeq([lot : DOMAIN lots, qty : limit.amounts], MaxInputs),
         NEW k \in DOMAIN catalogs, NEW q \in limit.amounts, TransformLot(caller, inputs, k, q)
  PROVE  /\ Produced(inputs, q) /\ 1 \in DOMAIN inputs
         /\ Noted([actor |-> caller, lot |-> inputs[1].lot, output |-> Len(lots) + 1],
                  {inputs[i].lot : i \in DOMAIN inputs} \cup {Len(lots) + 1})
PROOF
  <1> DEFINE e == NewLot(caller, k, q, inputs)
             ls == DebitInputs(inputs)
             cte == [actor |-> caller, lot |-> inputs[1].lot, output |-> Len(lots) + 1]
             touched == {inputs[i].lot : i \in DOMAIN inputs} \cup {Len(lots) + 1}
  <1>0. lots \in Seq(GoodsLot)
    BY DEF TypeOK
  <1>1. inputs \in Seq(InputLotRef) /\ \A i \in DOMAIN inputs : inputs[i].lot \in DOMAIN lots
    BY InputsFacts
  <1>2. \A l \in DOMAIN lots : Drawn(inputs, l) <= lots[l].available
    BY DEF TransformLot
  <1>3. ls \in [DOMAIN lots -> GoodsLot]
        /\ \A l \in DOMAIN lots : /\ ls[l].total = lots[l].total /\ ls[l].inputs = lots[l].inputs
                                  /\ ls[l].available = lots[l].available - Drawn(inputs, l)
    BY <1>1, <1>2, DebitResult
  <1>4. e \in GoodsLot /\ e.total = q /\ e.available = q /\ e.inputs = inputs
    <2>1. k \in Nat /\ q \in Nat
      BY Numbers
    <2> QED
      BY <1>1, <2>1 DEF NewLot, GoodsLot, LotStatus
  <1>5. 1 \in DOMAIN inputs
    BY <1>1 DEF TransformLot
  <1>6. lots' = Append(ls, e) /\ WriteCte(cte, touched, Append(lot_cte_index, {})) /\ UNCHANGED <<now, book, deals>>
    BY DEF TransformLot
  <1>7. cte \in Fsma204Cte
    <2>1. inputs[1].lot \in Nat /\ Len(lots) + 1 \in Nat
      BY <1>1, <1>5, Numbers
    <2> QED
      BY <2>1 DEF Fsma204Cte
  <1> HIDE DEF e, ls, cte, touched
  <1>8. ls \in Seq(GoodsLot) /\ Len(ls) = Len(lots) /\ DOMAIN ls = DOMAIN lots
    BY <1>0, <1>3, Remade
  <1>9. DOMAIN lots' = DOMAIN lots \cup {Len(lots) + 1} /\ Len(lots) + 1 \notin DOMAIN lots
        /\ (\A l \in DOMAIN lots : lots'[l] = ls[l]) /\ lots'[Len(lots) + 1] = e
    BY <1>4, <1>6, <1>8, Appended
  <1>10. Produced(inputs, q)
    BY <1>1, <1>3, <1>4, <1>6, <1>9 DEF Produced
  <1>11. Noted(cte, touched)
    BY <1>6, <1>7, <1>9, IndexGrown, EventNoted
  <1> QED
    BY <1>5, <1>10, <1>11 DEF cte, touched

\* No step changes a record others are judged by.
LEMMA KeptNext == TypeOK /\ References /\ [Next]_vars => Kept
PROOF
  <1> SUFFICES ASSUME TypeOK, References, [Next]_vars PROVE Kept
    OBVIOUS
  <1>0. now \in Nat /\ \A n \in DOMAIN contracts : contracts[n] \in Contract
    BY Entries DEF TypeOK
  <1>a. \A n \in DOMAIN contracts : SameTerms(contracts[n], contracts[n])
    BY <1>0, TermsKept
  <1>1. CASE Calm
    BY <1>1, <1>a DEF Calm, SameStock, SameTargets, SameOffers, deals, Kept
  <1>2. ASSUME NEW inputs, NEW q, Produced(inputs, q), \A e \in DOMAIN ctes : e \in DOMAIN ctes' /\ ctes'[e] = ctes[e]
        PROVE  Kept
    BY <1>0, <1>a, <1>2 DEF Produced, book, deals, Kept
  <1>3. ASSUME NEW cte, NEW touched, Noted(cte, touched), UNCHANGED <<now, lots, book, deals>> PROVE Kept
    BY <1>0, <1>a, <1>3 DEF Noted, book, deals, Kept
  <1>4. ASSUME NEW o \in DOMAIN offers, Accepted(o) PROVE Kept
    BY <1>0, <1>a, <1>4 DEF Accepted, Kept
  <1>5. ASSUME NEW n \in DOMAIN contracts, NEW s, contracts' = [contracts EXCEPT ![n].status = s]
        PROVE  \A m \in DOMAIN contracts : m \in DOMAIN contracts' /\ SameTerms(contracts[m], contracts'[m])
    <2>1. DOMAIN contracts' = DOMAIN contracts /\ (\A m \in DOMAIN contracts : m # n => contracts'[m] = contracts[m])
          /\ contracts'[n] = [contracts[n] EXCEPT !.status = s]
      BY <1>5, ContractRestated
    <2>2. SameTerms(contracts[n], [contracts[n] EXCEPT !.status = s])
      BY <1>0, TermsKept
    <2> QED
      BY <1>a, <2>1, <2>2
  <1>6. ASSUME NEW n \in DOMAIN contracts, NEW s, Executed(n, s),
               \/ fulfillments' = fulfillments
               \/ \E f \in DOMAIN fulfillments : \E t : fulfillments' = [fulfillments EXCEPT ![f].status = t]
        PROVE  Kept
    <2>1. \A f \in DOMAIN fulfillments :
            /\ f \in DOMAIN fulfillments' /\ fulfillments'[f].contract = fulfillments[f].contract
            /\ fulfillments'[f].signed_at = fulfillments[f].signed_at
      BY <1>6, FulfillmentRestated
    <2>2. \A m \in DOMAIN contracts : m \in DOMAIN contracts' /\ SameTerms(contracts[m], contracts'[m])
      BY <1>5, <1>6 DEF Executed
    <2>3. now' = now /\ ctes' = ctes /\ intents' = intents /\ listings' = listings /\ offers' = offers
      BY <1>6 DEF Executed, book
    <2>4. \A l \in DOMAIN lots : l \in DOMAIN lots' /\ lots'[l].total = lots[l].total /\ lots'[l].inputs = lots[l].inputs
      BY <1>6 DEF Executed, SameStock
    <2>5. \A s1 \in DOMAIN settlements : s1 \in DOMAIN settlements' /\ settlements'[s1] = settlements[s1]
      BY <1>6 DEF Executed
    <2> QED
      BY <1>0, <2>1, <2>2, <2>3, <2>4, <2>5 DEF Kept
  <1>7. ASSUME NEW caller, NEW f \in DOMAIN fulfillments, InitiateDispute(caller, f) PROVE Kept
    <2>1. /\ fulfillments' = [fulfillments EXCEPT ![f].status = "Disputed"]
          /\ contracts' = [contracts EXCEPT ![fulfillments[f].contract].status = "Disputed"]
          /\ UNCHANGED <<now, ctes, lot_cte_index, book, settlements, lots>>
      BY <1>7, DealShape
    <2>2. \A g \in DOMAIN fulfillments :
            /\ g \in DOMAIN fulfillments' /\ fulfillments'[g].contract = fulfillments[g].contract
            /\ fulfillments'[g].signed_at = fulfillments[g].signed_at
      BY <2>1, FulfillmentRestated
    <2>3. fulfillments[f].contract \in DOMAIN contracts
      BY DEF References
    <2>4. \A m \in DOMAIN contracts : m \in DOMAIN contracts' /\ SameTerms(contracts[m], contracts'[m])
      BY <1>5, <2>1, <2>3
    <2>5. now' = now /\ ctes' = ctes /\ intents' = intents /\ listings' = listings /\ offers' = offers
          /\ settlements' = settlements /\ lots' = lots
      BY <2>1 DEF book
    <2> QED
      BY <1>0, <2>2, <2>4, <2>5 DEF Kept
  <1>8. ASSUME NEW caller, NEW n \in DOMAIN contracts, SellerAttestDelivery(caller, n) PROVE Kept
    <2>1. /\ UNCHANGED <<now, ctes, lot_cte_index, book, settlements, lots>>
          /\ contracts' = [contracts EXCEPT ![n].status = "InFulfillment"]
          /\ \A g \in DOMAIN fulfillments : g \in DOMAIN fulfillments' /\ fulfillments'[g] = fulfillments[g]
      BY <1>8, SellerAttested
    <2>2. \A m \in DOMAIN contracts : m \in DOMAIN contracts' /\ SameTerms(contracts[m], contracts'[m])
      BY <1>5, <2>1
    <2>3. now' = now /\ ctes' = ctes /\ intents' = intents /\ listings' = listings /\ offers' = offers
          /\ settlements' = settlements /\ lots' = lots
      BY <2>1 DEF book
    <2> QED
      BY <1>0, <2>1, <2>2, <2>3 DEF Kept
  <1>9. ASSUME NEW caller, NEW f \in DOMAIN fulfillments, NEW d \in limit.extras, BuyerAttestDelivery(caller, f, d) PROVE Kept
    <2>1. fulfillments' = [fulfillments EXCEPT ![f].status = "Complete"] /\ Executed(fulfillments[f].contract, "Settled")
      BY <1>9, DealShape
    <2>2. fulfillments[f].contract \in DOMAIN contracts
      BY DEF References
    <2> QED
      BY <1>6, <2>1, <2>2
  <1>10. ASSUME NEW f \in DOMAIN fulfillments, TriggerAutoSettlement(f) PROVE Kept
    BY <1>6, <1>10, DealShape DEF References
  <1>11. ASSUME NEW caller, NEW n \in DOMAIN contracts, NEW for \in {"Buyer", "Seller"}, NEW d \in limit.extras,
                ResolveDispute(caller, n, for, d)
         PROVE  Kept
    BY <1>6, <1>11, Ruled
  <1>12. ASSUME NEW caller \in Account, NEW o \in DOMAIN offers, NEW arbitrator \in limit.arbitrators,
                AcceptIntentOffer(caller, o, arbitrator) \/ AcceptListingOffer(caller, o, arbitrator)
         PROVE  Kept
    BY <1>4, <1>12, IntentAccepted, ListingAccepted
  <1>13. ASSUME NEW caller \in Account, NEW k \in DOMAIN catalogs, NEW q \in limit.amounts, CreateLot(caller, k, q) PROVE Kept
    BY <1>2, <1>13, LotCreated
  <1>14. ASSUME NEW caller \in Account, NEW l \in DOMAIN lots, RecordCte(caller, l) PROVE Kept
    BY <1>3, <1>14, EventRecorded
  <1>15. ASSUME NEW caller \in Account, NEW inputs \in BoundedSeq([lot : DOMAIN lots, qty : limit.amounts], MaxInputs),
                NEW k \in DOMAIN catalogs, NEW q \in limit.amounts, TransformLot(caller, inputs, k, q)
         PROVE  Kept
    BY <1>2, <1>15, LotTransformed DEF Noted
  <1> QED
    BY <1>1, <1>7, <1>8, <1>9, <1>10, <1>11, <1>12, <1>13, <1>14, <1>15, StepShape

-----------------------------------------------------------------------------
(* References stay good *)

\* What the new entries of a step refer to is there.
NewReferences ==
  /\ \A l \in DOMAIN lots' \ DOMAIN lots : \A i \in DOMAIN lots'[l].inputs : lots'[l].inputs[i].lot \in DOMAIN lots'
  /\ \A e \in DOMAIN ctes' \ DOMAIN ctes :
       ctes'[e].lot \in DOMAIN lots' /\ ctes'[e].output \in DOMAIN lots' \cup {None}
  /\ \A i \in DOMAIN listings' \ DOMAIN listings : listings'[i].lot \in DOMAIN lots' \cup {None}
  /\ \A o \in DOMAIN offers' \ DOMAIN offers :
       offers'[o].target \in IF offers'[o].on = "Intent" THEN DOMAIN intents' ELSE DOMAIN listings'
  /\ \A n \in DOMAIN contracts' \ DOMAIN contracts :
       contracts'[n].offer \in DOMAIN offers' /\ contracts'[n].lot \in DOMAIN lots' \cup {None}
  /\ \A f \in DOMAIN fulfillments' \ DOMAIN fulfillments : fulfillments'[f].contract \in DOMAIN contracts'
  /\ \A s \in DOMAIN settlements' \ DOMAIN settlements : settlements'[s].contract \in DOMAIN contracts'

LEMMA OldReferences ==
  ASSUME References, Kept, NewReferences
  PROVE  References'
PROOF
  <1>0. /\ \A l \in DOMAIN lots : l \in DOMAIN lots'
        /\ \A i \in DOMAIN intents : i \in DOMAIN intents'
        /\ \A i \in DOMAIN listings : i \in DOMAIN listings'
        /\ \A o \in DOMAIN offers : o \in DOMAIN offers'
        /\ \A n \in DOMAIN contracts : n \in DOMAIN contracts'
    BY DEF Kept
  <1>1. \A l \in DOMAIN lots' : \A i \in DOMAIN lots'[l].inputs : lots'[l].inputs[i].lot \in DOMAIN lots'
    <2>1. \A l \in DOMAIN lots : lots'[l].inputs = lots[l].inputs
      BY DEF Kept
    <2> QED
      BY <1>0, <2>1 DEF References, NewReferences
  <1>2. \A e \in DOMAIN ctes' : ctes'[e].lot \in DOMAIN lots' /\ ctes'[e].output \in DOMAIN lots' \cup {None}
    <2>1. \A e \in DOMAIN ctes : ctes'[e] = ctes[e]
      BY DEF Kept
    <2> QED
      BY <1>0, <2>1 DEF References, NewReferences
  <1>3. \A i \in DOMAIN listings' : listings'[i].lot \in DOMAIN lots' \cup {None}
    <2>1. \A i \in DOMAIN listings : listings'[i].lot = listings[i].lot
      BY DEF Kept
    <2> QED
      BY <1>0, <2>1 DEF References, NewReferences
  <1>4. \A o \in DOMAIN offers' :
          offers'[o].target \in IF offers'[o].on = "Intent" THEN DOMAIN intents' ELSE DOMAIN listings'
    <2>1. \A o \in DOMAIN offers : offers'[o].on = offers[o].on /\ offers'[o].target = offers[o].target
      BY DEF Kept
    <2> QED
      BY <1>0, <2>1 DEF References, NewReferences
  <1>5. \A n \in DOMAIN contracts' : contracts'[n].offer \in DOMAIN offers' /\ contracts'[n].lot \in DOMAIN lots' \cup {None}
    <2>1. \A n \in DOMAIN contracts : contracts'[n].offer = contracts[n].offer /\ contracts'[n].lot = contracts[n].lot
      BY DEF Kept, SameTerms
    <2> QED
      BY <1>0, <2>1 DEF References, NewReferences
  <1>6. \A f \in DOMAIN fulfillments' : fulfillments'[f].contract \in DOMAIN contracts'
    <2>1. \A f \in DOMAIN fulfillments : fulfillments'[f].contract = fulfillments[f].contract
      BY DEF Kept
    <2> QED
      BY <1>0, <2>1 DEF References, NewReferences
  <1>7. \A s \in DOMAIN settlements' : settlements'[s].contract \in DOMAIN contracts'
    <2>1. \A s \in DOMAIN settlements : settlements'[s] = settlements[s]
      BY DEF Kept
    <2> QED
      BY <1>0, <2>1 DEF References, NewReferences
  <1> QED
    BY <1>1, <1>2, <1>3, <1>4, <1>5, <1>6, <1>7 DEF References

LEMMA ReferencesNext == TypeOK /\ References /\ [Next]_vars => References'
PROOF
  <1> SUFFICES ASSUME TypeOK, References, [Next]_vars PROVE NewReferences
    BY KeptNext, OldReferences
  <1>1. CASE Calm
    <2>1. DOMAIN lots' = DOMAIN lots /\ ctes' = ctes /\ contracts' = contracts /\ fulfillments' = fulfillments
          /\ settlements' = settlements
      BY <1>1 DEF Calm, SameStock, deals
    <2>2. DOMAIN intents \subseteq DOMAIN intents' /\ DOMAIN listings \subseteq DOMAIN listings'
          /\ \A i \in DOMAIN listings' \ DOMAIN listings : listings'[i].lot \in DOMAIN lots \cup {None}
      BY <1>1 DEF Calm, SameTargets
    <2>3. \A o \in DOMAIN offers' \ DOMAIN offers :
            offers'[o].target \in IF offers'[o].on = "Intent" THEN DOMAIN intents ELSE DOMAIN listings
      BY <1>1 DEF Calm, SameOffers
    <2> QED
      BY <2>1, <2>2, <2>3 DEF NewReferences
  <1>2. ASSUME UNCHANGED <<lots, ctes, book>>, DOMAIN contracts' = DOMAIN contracts,
               \A f \in DOMAIN fulfillments' \ DOMAIN fulfillments : fulfillments'[f].contract \in DOMAIN contracts,
               \A s \in DOMAIN settlements' \ DOMAIN settlements : settlements'[s].contract \in DOMAIN contracts
        PROVE  NewReferences
    BY <1>2 DEF book, NewReferences
  <1>3. ASSUME NEW inputs, NEW q, Produced(inputs, q),
               \A e \in DOMAIN ctes' \ DOMAIN ctes :
                 ctes'[e].lot \in DOMAIN lots' /\ ctes'[e].output \in DOMAIN lots' \cup {None}
        PROVE  NewReferences
    <2>1. UNCHANGED <<book, deals>> /\ DOMAIN lots' = DOMAIN lots \cup {Len(lots) + 1}
          /\ lots'[Len(lots) + 1].inputs = inputs /\ \A i \in DOMAIN inputs : inputs[i].lot \in DOMAIN lots
      BY <1>3 DEF Produced
    <2>2. \A l \in DOMAIN lots' \ DOMAIN lots : \A i \in DOMAIN lots'[l].inputs : lots'[l].inputs[i].lot \in DOMAIN lots'
      BY <2>1
    <2> QED
      BY <1>3, <2>1, <2>2 DEF book, deals, NewReferences
  <1>4. ASSUME NEW o \in DOMAIN offers, Accepted(o), contracts'[Len(contracts) + 1].lot \in DOMAIN lots \cup {None}
        PROVE  NewReferences
    BY <1>4 DEF Accepted, NewReferences
  <1>5. ASSUME NEW n \in DOMAIN contracts, NEW s, Executed(n, s), DOMAIN fulfillments' = DOMAIN fulfillments
        PROVE  NewReferences
    <2>1. DOMAIN contracts' = DOMAIN contracts
      BY <1>5, ContractRestated DEF Executed
    <2> QED
      BY <1>5, <2>1 DEF Executed, SameStock, book, NewReferences
  <1>6. ASSUME NEW caller \in Account, NEW k \in DOMAIN catalogs, NEW q \in limit.amounts, CreateLot(caller, k, q)
        PROVE  NewReferences
    BY <1>3, <1>6, LotCreated
  <1>7. ASSUME NEW caller \in Account, NEW l \in DOMAIN lots, RecordCte(caller, l) PROVE NewReferences
    <2>1. UNCHANGED <<now, lots, book, deals>> /\ Noted([actor |-> caller, lot |-> l, output |-> None], {l})
      BY <1>7, EventRecorded
    <2>2. \A e \in DOMAIN ctes' \ DOMAIN ctes : ctes'[e] = [actor |-> caller, lot |-> l, output |-> None]
      BY <2>1 DEF Noted
    <2> QED
      BY <2>1, <2>2 DEF book, deals, NewReferences
  <1>8. ASSUME NEW caller \in Account, NEW inputs \in BoundedSeq([lot : DOMAIN lots, qty : limit.amounts], MaxInputs),
               NEW k \in DOMAIN catalogs, NEW q \in limit.amounts, TransformLot(caller, inputs, k, q)
        PROVE  NewReferences
    <2> DEFINE cte == [actor |-> caller, lot |-> inputs[1].lot, output |-> Len(lots) + 1]
               touched == {inputs[i].lot : i \in DOMAIN inputs} \cup {Len(lots) + 1}
    <2>1. Produced(inputs, q) /\ 1 \in DOMAIN inputs /\ Noted(cte, touched)
      BY <1>8, LotTransformed
    <2>2. \A e \in DOMAIN ctes' \ DOMAIN ctes : ctes'[e] = cte
      <3> HIDE DEF cte, touched
      <3> QED
        BY <2>1 DEF Noted
    <2>3. cte.lot \in DOMAIN lots' /\ cte.output \in DOMAIN lots'
      BY <2>1 DEF Produced
    <2> HIDE DEF cte
    <2> QED
      BY <1>3, <2>1, <2>2, <2>3
  <1>9. ASSUME NEW caller \in Account, NEW o \in DOMAIN offers, NEW arbitrator \in limit.arbitrators,
               AcceptIntentOffer(caller, o, arbitrator) \/ AcceptListingOffer(caller, o, arbitrator)
        PROVE  NewReferences
    <2>1. CASE AcceptIntentOffer(caller, o, arbitrator)
      BY <1>4, <2>1, IntentAccepted
    <2>2. CASE AcceptListingOffer(caller, o, arbitrator)
      <3>1. Accepted(o) /\ offers[o].target \in DOMAIN listings
            /\ contracts'[Len(contracts) + 1].lot = listings[offers[o].target].lot
        BY <2>2, ListingAccepted
      <3>2. listings[offers[o].target].lot \in DOMAIN lots \cup {None}
        BY <3>1 DEF References
      <3> QED
        BY <1>4, <3>1, <3>2
    <2> QED
      BY <1>9, <2>1, <2>2
  <1>10. ASSUME NEW caller, NEW n \in DOMAIN contracts, SellerAttestDelivery(caller, n) PROVE NewReferences
    <2>1. /\ UNCHANGED <<ctes, book, settlements, lots>>
          /\ contracts' = [contracts EXCEPT ![n].status = "InFulfillment"]
          /\ \A f \in DOMAIN fulfillments' \ DOMAIN fulfillments : fulfillments'[f].contract = n
      BY <1>10, SellerAttested
    <2>2. DOMAIN contracts' = DOMAIN contracts
      BY <2>1, ContractRestated
    <2> QED
      BY <1>2, <2>1, <2>2
  <1>11. ASSUME NEW caller, NEW f \in DOMAIN fulfillments, NEW d \in limit.extras, BuyerAttestDelivery(caller, f, d)
         PROVE  NewReferences
    <2>1. fulfillments' = [fulfillments EXCEPT ![f].status = "Complete"] /\ Executed(fulfillments[f].contract, "Settled")
      BY <1>11, DealShape
    <2>2. fulfillments[f].contract \in DOMAIN contracts /\ DOMAIN fulfillments' = DOMAIN fulfillments
      BY <2>1, FulfillmentRestated DEF References
    <2> QED
      BY <1>5, <2>1, <2>2
  <1>12. ASSUME NEW caller, NEW f \in DOMAIN fulfillments, InitiateDispute(caller, f) PROVE NewReferences
    <2>1. /\ fulfillments' = [fulfillments EXCEPT ![f].status = "Disputed"]
          /\ contracts' = [contracts EXCEPT ![fulfillments[f].contract].status = "Disputed"]
          /\ UNCHANGED <<ctes, book, settlements, lots>>
      BY <1>12, DealShape
    <2>2. fulfillments[f].contract \in DOMAIN contracts
      BY DEF References
    <2>3. DOMAIN fulfillments' = DOMAIN fulfillments /\ DOMAIN contracts' = DOMAIN contracts
      BY <2>1, <2>2, FulfillmentRestated, ContractRestated
    <2> QED
      BY <1>2, <2>1, <2>3
  <1>13. ASSUME NEW f \in DOMAIN fulfillments, TriggerAutoSettlement(f) PROVE NewReferences
    <2>1. fulfillments' = fulfillments /\ Executed(fulfillments[f].contract, "Settled")
          /\ fulfillments[f].contract \in DOMAIN contracts
      BY <1>13, DealShape DEF References
    <2> QED
      BY <1>5, <2>1
  <1>14. ASSUME NEW caller, NEW n \in DOMAIN contracts, NEW for \in {"Buyer", "Seller"}, NEW d \in limit.extras,
                ResolveDispute(caller, n, for, d)
         PROVE  NewReferences
    <2>1. fulfillments' = fulfillments /\ \E final \in {"ResolvedBuyer", "ResolvedSeller"} : Executed(n, final)
      BY <1>14, Ruled
    <2> QED
      BY <1>5, <2>1
  <1> QED
    BY <1>1, <1>6, <1>7, <1>8, <1>9, <1>10, <1>11, <1>12, <1>13, <1>14, StepShape

\* Every table of the contract holds well-formed entries, and what an entry refers to
\* is there (lib.rs: the maps keyed by the identifiers the calls hand out).
THEOREM TypeCorrect == Spec => [](TypeOK /\ References)
PROOF
  <1>1. Init => TypeOK /\ References
    BY TypeInit
  <1>2. TypeOK /\ References /\ [Next]_vars => (TypeOK /\ References)'
    BY TypeNext, ReferencesNext
  <1> QED
    BY <1>1, <1>2, PTL DEF Spec

\* No call rewrites what later calls judge by: the inputs of a lot, a tracking event,
\* the terms of a contract, the time of an attestation, a settlement (lib.rs: the
\* entries are changed in place by a dozen calls, none of which may touch these).
THEOREM RecordsKept == Spec => [][Kept]_vars
PROOF
  <1>1. TypeOK /\ References /\ [Next]_vars => [Kept]_vars
    BY KeptNext
  <1> QED
    BY <1>1, TypeCorrect, PTL DEF Spec

-----------------------------------------------------------------------------
(* One contract for each intent and listing *)

\* The contracts made of an intent or a listing.
Made(on, i) == {n \in DOMAIN contracts : offers[contracts[n].offer].on = on
                                      /\ offers[contracts[n].offer].target = i}

\* What OneContractPerTarget says of one side of the market.
IntentsOnce ==
  \A i \in DOMAIN intents : Cardinality(Made("Intent", i)) = IF intents[i].status = "Contracted" THEN 1 ELSE 0
ListingsOnce ==
  \A i \in DOMAIN listings : Cardinality(Made("Listing", i)) = IF listings[i].status = "Contracted" THEN 1 ELSE 0

LEMMA OnceMeans == OneContractPerTarget <=> IntentsOnce /\ ListingsOnce
PROOF
  BY DEF OneContractPerTarget, IntentsOnce, ListingsOnce, Made

\* The sets of contracts are finite, so one without elements has cardinality zero.
LEMMA MadeFinite ==
  ASSUME TypeOK, NEW on, NEW i
  PROVE  IsFiniteSet(Made(on, i)) /\ ((Cardinality(Made(on, i)) = 0) <=> (Made(on, i) = {}))
PROOF
  <1>1. Made(on, i) \subseteq 1..Len(contracts) /\ Len(contracts) \in Nat
    BY Numbers DEF Made
  <1>2. IsFiniteSet(1..Len(contracts))
    BY <1>1, FS_Interval
  <1>3. IsFiniteSet(Made(on, i))
    BY <1>1, <1>2, FS_Subset
  <1> QED
    BY <1>3, FS_EmptySet

\* No contract is made of what is not there.
LEMMA MadeOfNothing ==
  ASSUME References, NEW on \in {"Intent", "Listing"}, NEW i,
         i \notin IF on = "Intent" THEN DOMAIN intents ELSE DOMAIN listings,
         TypeOK
  PROVE  Made(on, i) = {}
PROOF
  <1>1. ASSUME NEW n \in Made(on, i) PROVE FALSE
    <2>1. n \in DOMAIN contracts /\ contracts[n].offer \in DOMAIN offers
          /\ offers[contracts[n].offer].on = on /\ offers[contracts[n].offer].target = i
      BY <1>1 DEF Made, References
    <2> QED
      BY <2>1 DEF References
  <1> QED
    BY <1>1

\* Steps that form no contract leave the sets as they are.
LEMMA MadeKept ==
  ASSUME References, Kept, DOMAIN contracts' = DOMAIN contracts, NEW on, NEW i
  PROVE  Made(on, i)' = Made(on, i)
PROOF
  <1>1. ASSUME NEW n \in DOMAIN contracts
        PROVE  /\ offers'[contracts'[n].offer].on = offers[contracts[n].offer].on
               /\ offers'[contracts'[n].offer].target = offers[contracts[n].offer].target
    <2>1. contracts'[n].offer = contracts[n].offer
      BY DEF Kept, SameTerms
    <2>2. contracts[n].offer \in DOMAIN offers
      BY DEF References
    <2> QED
      BY <2>1, <2>2 DEF Kept
  <1> QED
    BY <1>1 DEF Made

\* Acceptance adds the contract to the set of its target, and to no other.
LEMMA MadeAccepted ==
  ASSUME TypeOK, References, NEW o \in DOMAIN offers, Accepted(o), NEW on, NEW i
  PROVE  Made(on, i)' = IF offers[o].on = on /\ offers[o].target = i
                        THEN Made(on, i) \cup {Len(contracts) + 1} ELSE Made(on, i)
PROOF
  <1> DEFINE c == Len(contracts) + 1
  <1>1. ASSUME NEW n \in DOMAIN contracts
        PROVE  /\ offers'[contracts'[n].offer].on = offers[contracts[n].offer].on
               /\ offers'[contracts'[n].offer].target = offers[contracts[n].offer].target
    <2>1. contracts'[n] = contracts[n]
      BY DEF Accepted
    <2>2. contracts[n].offer \in DOMAIN offers
      BY DEF References
    <2> QED
      BY <2>1, <2>2 DEF Accepted
  <1>2. offers'[contracts'[c].offer].on = offers[o].on /\ offers'[contracts'[c].offer].target = offers[o].target
    BY DEF Accepted
  <1>3. DOMAIN contracts' = DOMAIN contracts \cup {c} /\ c \notin DOMAIN contracts
    BY DEF Accepted
  <1> HIDE DEF c
  <1>4. Made(on, i)' = {n \in DOMAIN contracts' : offers'[contracts'[n].offer].on = on
                                                 /\ offers'[contracts'[n].offer].target = i}
    BY DEF Made
  <1>5. Made(on, i)' = IF offers[o].on = on /\ offers[o].target = i THEN Made(on, i) \cup {c} ELSE Made(on, i)
    BY <1>1, <1>2, <1>3, <1>4 DEF Made
  <1> QED
    BY <1>5 DEF c

LEMMA TargetsInit == Init => OneContractPerTarget
PROOF
  <1> SUFFICES ASSUME Init PROVE IntentsOnce /\ ListingsOnce
    BY OnceMeans
  <1>1. PICK s \in Seeds : intents = s.intents /\ listings = s.listings /\ contracts = <<>>
    BY DEF Init
  <1>2. /\ \A i \in DOMAIN s.intents : s.intents[i].status # "Contracted"
        /\ \A i \in DOMAIN s.listings : s.listings[i].status # "Contracted"
    BY SeedsAssumption DEF SeedsAssumption
  <1>3. \A on, i : Made(on, i) = {}
    BY <1>1 DEF Made
  <1>4. Cardinality({}) = 0
    BY FS_EmptySet
  <1> QED
    BY <1>1, <1>2, <1>3, <1>4 DEF IntentsOnce, ListingsOnce

LEMMA TargetsNext == TypeOK /\ References /\ OneContractPerTarget /\ [Next]_vars => OneContractPerTarget'
PROOF
  <1> SUFFICES ASSUME TypeOK, References, IntentsOnce, ListingsOnce, [Next]_vars PROVE (IntentsOnce /\ ListingsOnce)'
    BY OnceMeans, PTL
  <1>0. Kept
    BY KeptNext
  <1>a. Cardinality({}) = 0 /\ \A x : Cardinality({x}) = 1
    BY FS_EmptySet, FS_Singleton
  <1>1. CASE Calm
    <2>1. DOMAIN contracts' = DOMAIN contracts
      BY <1>1 DEF Calm, deals
    <2>2. \A on, i : Made(on, i)' = Made(on, i)
      BY <1>0, <2>1, MadeKept
    <2>3. ASSUME NEW i \in DOMAIN intents'
          PROVE  Cardinality(Made("Intent", i)') = IF intents'[i].status = "Contracted" THEN 1 ELSE 0
      <3>1. CASE i \in DOMAIN intents
        <4>1. (intents'[i].status = "Contracted") <=> (intents[i].status = "Contracted")
          BY <1>1, <3>1 DEF Calm, SameTargets
        <4> QED
          BY <2>2, <3>1, <4>1 DEF IntentsOnce
      <3>2. CASE i \notin DOMAIN intents
        <4>1. intents'[i].status # "Contracted"
          BY <1>1, <2>3, <3>2 DEF Calm, SameTargets
        <4>2. Made("Intent", i) = {}
          BY <3>2, MadeOfNothing
        <4> QED
          BY <1>a, <2>2, <4>1, <4>2
      <3> QED
        BY <3>1, <3>2
    <2>4. ASSUME NEW i \in DOMAIN listings'
          PROVE  Cardinality(Made("Listing", i)') = IF listings'[i].status = "Contracted" THEN 1 ELSE 0
      <3>1. CASE i \in DOMAIN listings
        <4>1. (listings'[i].status = "Contracted") <=> (listings[i].status = "Contracted")
          BY <1>1, <3>1 DEF Calm, SameTargets
        <4> QED
          BY <2>2, <3>1, <4>1 DEF ListingsOnce
      <3>2. CASE i \notin DOMAIN listings
        <4>1. listings'[i].status # "Contracted"
          BY <1>1, <2>4, <3>2 DEF Calm, SameTargets
        <4>2. Made("Listing", i) = {}
          BY <3>2, MadeOfNothing
        <4> QED
          BY <1>a, <2>2, <4>1, <4>2
      <3> QED
        BY <3>1, <3>2
    <2> QED
      BY <2>3, <2>4 DEF IntentsOnce, ListingsOnce
  <1>2. ASSUME UNCHANGED <<intents, listings>>, DOMAIN contracts' = DOMAIN contracts PROVE (IntentsOnce /\ ListingsOnce)'
    <2>1. \A on, i : Made(on, i)' = Made(on, i)
      BY <1>0, <1>2, MadeKept
    <2> QED
      BY <1>2, <2>1 DEF IntentsOnce, ListingsOnce
  <1>3. ASSUME NEW caller \in Account, NEW o \in DOMAIN offers, NEW arbitrator \in limit.arbitrators,
               AcceptIntentOffer(caller, o, arbitrator)
        PROVE  (IntentsOnce /\ ListingsOnce)'
    <2>0. PICK t : t = offers[o].target
      OBVIOUS
    <2>1. /\ Accepted(o) /\ UNCHANGED listings
          /\ offers[o].on = "Intent" /\ t \in DOMAIN intents
          /\ intents[t].status = "Posted" /\ intents'[t].status = "Contracted"
          /\ \A i \in DOMAIN intents : i # t => intents'[i] = intents[i]
      BY <1>3, <2>0, IntentAccepted
    <2>a. DOMAIN intents' = DOMAIN intents
      BY <2>1 DEF Accepted
    <2>2. Made("Intent", t) = {}
      BY <2>1, MadeFinite DEF IntentsOnce
    <2>b. ASSUME NEW on, NEW i
          PROVE  Made(on, i)' = IF on = "Intent" /\ i = t THEN Made(on, i) \cup {Len(contracts) + 1} ELSE Made(on, i)
      BY <2>0, <2>1, MadeAccepted
    <2>3. /\ Made("Intent", t)' = Made("Intent", t) \cup {Len(contracts) + 1}
          /\ \A i : i # t => Made("Intent", i)' = Made("Intent", i)
          /\ \A i : Made("Listing", i)' = Made("Listing", i)
      BY <2>b
    <2>4. Cardinality(Made("Intent", t)') = 1
      BY <1>a, <2>2, <2>3
    <2> QED
      BY <2>1, <2>a, <2>3, <2>4 DEF IntentsOnce, ListingsOnce
  <1>4. ASSUME NEW caller \in Account, NEW o \in DOMAIN offers, NEW arbitrator \in limit.arbitrators,
               AcceptListingOffer(caller, o, arbitrator)
        PROVE  (IntentsOnce /\ ListingsOnce)'
    <2>0. PICK t : t = offers[o].target
      OBVIOUS
    <2>1. /\ Accepted(o) /\ UNCHANGED intents
          /\ offers[o].on = "Listing" /\ t \in DOMAIN listings
          /\ listings[t].status = "Active" /\ listings'[t].status = "Contracted"
          /\ \A i \in DOMAIN listings : i # t => listings'[i] = listings[i]
      BY <1>4, <2>0, ListingAccepted
    <2>a. DOMAIN listings' = DOMAIN listings
      BY <2>1 DEF Accepted
    <2>2. Made("Listing", t) = {}
      BY <2>1, MadeFinite DEF ListingsOnce
    <2>b. ASSUME NEW on, NEW i
          PROVE  Made(on, i)' = IF on = "Listing" /\ i = t THEN Made(on, i) \cup {Len(contracts) + 1} ELSE Made(on, i)
      BY <2>0, <2>1, MadeAccepted
    <2>3. /\ Made("Listing", t)' = Made("Listing", t) \cup {Len(contracts) + 1}
          /\ \A i : i # t => Made("Listing", i)' = Made("Listing", i)
          /\ \A i : Made("Intent", i)' = Made("Intent", i)
      BY <2>b
    <2>4. Cardinality(Made("Listing", t)') = 1
      BY <1>a, <2>2, <2>3
    <2> QED
      BY <2>1, <2>a, <2>3, <2>4 DEF IntentsOnce, ListingsOnce
  <1>5. ASSUME NEW inputs, NEW q, Produced(inputs, q) PROVE (IntentsOnce /\ ListingsOnce)'
    BY <1>2, <1>5 DEF Produced, book, deals
  <1>6. ASSUME NEW n \in DOMAIN contracts, NEW s, contracts' = [contracts EXCEPT ![n].status = s], UNCHANGED book
        PROVE  (IntentsOnce /\ ListingsOnce)'
    BY <1>2, <1>6, ContractRestated DEF book
  <1>7. ASSUME NEW caller \in Account, NEW k \in DOMAIN catalogs, NEW q \in limit.amounts, CreateLot(caller, k, q)
        PROVE  (IntentsOnce /\ ListingsOnce)'
    BY <1>5, <1>7, LotCreated
  <1>8. ASSUME NEW caller \in Account, NEW l \in DOMAIN lots, RecordCte(caller, l) PROVE (IntentsOnce /\ ListingsOnce)'
    BY <1>2, <1>8, EventRecorded DEF book, deals
  <1>9. ASSUME NEW caller \in Account, NEW inputs \in BoundedSeq([lot : DOMAIN lots, qty : limit.amounts], MaxInputs),
               NEW k \in DOMAIN catalogs, NEW q \in limit.amounts, TransformLot(caller, inputs, k, q)
        PROVE  (IntentsOnce /\ ListingsOnce)'
    BY <1>5, <1>9, LotTransformed
  <1>10. ASSUME NEW caller, NEW n \in DOMAIN contracts, SellerAttestDelivery(caller, n) PROVE (IntentsOnce /\ ListingsOnce)'
    <2>1. UNCHANGED book /\ contracts' = [contracts EXCEPT ![n].status = "InFulfillment"]
      BY <1>10, SellerAttested
    <2> QED
      BY <1>6, <2>1
  <1>11. ASSUME NEW f \in DOMAIN fulfillments, NEW s, Executed(fulfillments[f].contract, s) PROVE (IntentsOnce /\ ListingsOnce)'
    BY <1>6, <1>11 DEF Executed, References
  <1>12. ASSUME NEW caller, NEW f \in DOMAIN fulfillments, NEW d \in limit.extras,
                BuyerAttestDelivery(caller, f, d) \/ TriggerAutoSettlement(f)
         PROVE  (IntentsOnce /\ ListingsOnce)'
    BY <1>11, <1>12, DealShape
  <1>13. ASSUME NEW f \in DOMAIN fulfillments, TriggerAutoSettlement(f) PROVE (IntentsOnce /\ ListingsOnce)'
    BY <1>11, <1>13, DealShape
  <1>14. ASSUME NEW caller, NEW f \in DOMAIN fulfillments, InitiateDispute(caller, f) PROVE (IntentsOnce /\ ListingsOnce)'
    <2>1. UNCHANGED book /\ contracts' = [contracts EXCEPT ![fulfillments[f].contract].status = "Disputed"]
          /\ fulfillments[f].contract \in DOMAIN contracts
      BY <1>14, DealShape DEF References
    <2> QED
      BY <1>6, <2>1
  <1>15. ASSUME NEW caller, NEW n \in DOMAIN contracts, NEW for \in {"Buyer", "Seller"}, NEW d \in limit.extras,
                ResolveDispute(caller, n, for, d)
         PROVE  (IntentsOnce /\ ListingsOnce)'
    <2>1. \E final : Executed(n, final)
      BY <1>15, Ruled
    <2> QED
      BY <1>6, <2>1 DEF Executed
  <1> QED
    BY <1>1, <1>3, <1>4, <1>7, <1>8, <1>9, <1>10, <1>12, <1>13, <1>14, <1>15, StepShape

\* An intent or a listing makes at most one contract, and is Contracted exactly when
\* it has one (accept_intent_offer, accept_listing_offer): the offers left over can
\* never be accepted, whatever is posted, withdrawn or retracted in between.
THEOREM SafeTargets == Spec => []OneContractPerTarget
PROOF
  <1>1. Init => OneContractPerTarget
    BY TargetsInit
  <1>2. TypeOK /\ References /\ OneContractPerTarget /\ [Next]_vars => OneContractPerTarget'
    BY TargetsNext
  <1> QED
    BY <1>1, <1>2, TypeCorrect, PTL DEF Spec

-----------------------------------------------------------------------------
(* Payments *)

\* What the state of a contract and that of its attestation say of each other: there
\* is one attestation at most, and every contract that is not fresh has it.
Attested ==
  /\ \A f, g \in DOMAIN fulfillments : fulfillments[f].contract = fulfillments[g].contract => f = g
  /\ \A f \in DOMAIN fulfillments :
       LET s == contracts[fulfillments[f].contract].status
       IN  /\ fulfillments[f].status = "SellerAttested" => s \in {"InFulfillment", "Settled"}
           /\ fulfillments[f].status = "Complete" => s = "Settled"
           /\ fulfillments[f].status = "Disputed" => s \in {"Disputed", "ResolvedBuyer", "ResolvedSeller"}
  /\ \A n \in DOMAIN contracts : contracts[n].status # "Active" =>
       \E f \in DOMAIN fulfillments : fulfillments[f].contract = n

\* What an attestation entitles to, at time t, for a contract in status s.
Entitles(f, s, t) ==
  \/ f.status = "Complete"
  \/ f.status = "Disputed" /\ s \in {"ResolvedBuyer", "ResolvedSeller"}
  \/ t > f.signed_at + DisputeWindow

\* ReleasedByRight in these words.
Right ==
  \A s \in DOMAIN settlements : \E f \in DOMAIN fulfillments :
    /\ fulfillments[f].contract = settlements[s].contract
    /\ Entitles(fulfillments[f], contracts[settlements[s].contract].status, now)

\* ReducedOnce in these words: payments of one contract that are less than the whole, and
\* any two payments of one contract.
Less(s) == settlements[s].net < contracts[settlements[s].contract].total
Decided ==
  /\ \A s, t \in DOMAIN settlements : settlements[s].contract = settlements[t].contract /\ Less(s) /\ Less(t) => s = t
  /\ \A s \in DOMAIN settlements, f \in DOMAIN fulfillments :
       fulfillments[f].contract = settlements[s].contract /\ Less(s) => fulfillments[f].status # "SellerAttested"
  /\ \A s, t \in DOMAIN settlements, f \in DOMAIN fulfillments :
       s # t /\ settlements[s].contract = settlements[t].contract /\ fulfillments[f].contract = settlements[s].contract
         => fulfillments[f].status # "Disputed" /\ now > fulfillments[f].signed_at + DisputeWindow

\* The inductive invariant of the payments.
Payments == Attested /\ Right /\ DisputePaysOnce /\ Decided

LEMMA PaymentsMean == Payments => PaidByRight
PROOF
  <1> SUFFICES ASSUME Payments PROVE PaidByRight
    OBVIOUS
  <1>1. ReleasedByRight
    BY DEF Payments, ReleasedByRight, Right, Entitles, Attestation
  <1>2. ReducedOnce
    BY DEF Payments, ReducedOnce, Decided, Less, Short, Releases, Attestation
  <1> QED
    BY <1>1, <1>2 DEF Payments, PaidByRight

LEMMA PaymentsInit == Init => Payments
PROOF
  <1> SUFFICES ASSUME Init PROVE Payments
    OBVIOUS
  <1>1. fulfillments = <<>> /\ contracts = <<>> /\ settlements = <<>>
    BY DEF Init
  <1> QED
    BY <1>1 DEF Payments, Attested, Right, DisputePaysOnce, Decided

\* Attestations have one of three states, and contracts one of six.
LEMMA DealStates ==
  ASSUME TypeOK
  PROVE  /\ \A f \in DOMAIN fulfillments :
              fulfillments[f].status \in {"SellerAttested", "Complete", "Disputed"} /\ fulfillments[f].signed_at \in Nat
         /\ \A n \in DOMAIN contracts : contracts[n].status \in ContractStatus
PROOF
  BY Entries DEF Fulfillment, Contract

\* Steps that leave the contracts alone, but may let time pass.
LEMMA PaymentsIdle ==
  ASSUME TypeOK, Payments, UNCHANGED deals, now \in Nat, now' \in Nat, now <= now'
  PROVE  Payments'
PROOF
  <1>0. contracts' = contracts /\ fulfillments' = fulfillments /\ settlements' = settlements
    BY DEF deals
  <1>1. Attested'
    BY <1>0 DEF Payments, Attested
  <1>2. DisputePaysOnce'
    BY <1>0 DEF Payments, DisputePaysOnce, Releases
  <1>3. ASSUME NEW f \in DOMAIN fulfillments, NEW s, Entitles(fulfillments[f], s, now)
        PROVE  Entitles(fulfillments[f], s, now')
    <2>1. fulfillments[f].signed_at + DisputeWindow \in Nat
      BY DealStates, ContractAssumption DEF ContractAssumption
    <2> QED
      BY <1>3, <2>1 DEF Entitles
  <1>4. Right'
    BY <1>0, <1>3 DEF Payments, Right
  <1>5. Decided'
    <2>1. \A f \in DOMAIN fulfillments :
            now > fulfillments[f].signed_at + DisputeWindow => now' > fulfillments[f].signed_at + DisputeWindow
      BY DealStates, ContractAssumption DEF ContractAssumption
    <2>2. \A s : Less(s)' <=> Less(s)
      BY <1>0 DEF Less
    <2> QED
      BY <1>0, <2>1, <2>2 DEF Payments, Decided
  <1> QED
    BY <1>1, <1>2, <1>4, <1>5 DEF Payments

\* A new contract is fresh, and nothing is attested or paid for it.
LEMMA PaymentsAccepted ==
  ASSUME TypeOK, References, Payments, NEW o, Accepted(o)
  PROVE  Payments'
PROOF
  <1> DEFINE c == Len(contracts) + 1
  <1>0. now' = now /\ fulfillments' = fulfillments /\ settlements' = settlements
        /\ DOMAIN contracts' = DOMAIN contracts \cup {c} /\ c \notin DOMAIN contracts
        /\ (\A n \in DOMAIN contracts : contracts'[n] = contracts[n]) /\ contracts'[c].status = "Active"
    BY DEF Accepted
  <1>a. /\ \A f \in DOMAIN fulfillments : fulfillments[f].contract \in DOMAIN contracts
        /\ \A s \in DOMAIN settlements : settlements[s].contract \in DOMAIN contracts
    BY DEF References
  <1> HIDE DEF c
  <1>1. Attested'
    BY <1>0, <1>a DEF Payments, Attested
  <1>2. Right'
    BY <1>0, <1>a DEF Payments, Right
  <1>3. DisputePaysOnce'
    <2>1. \A n : Releases(n)' = Releases(n)
      BY <1>0 DEF Releases
    <2>2. Releases(c) = {}
      BY <1>0, <1>a DEF Releases
    <2> QED
      BY <1>0, <2>1, <2>2 DEF Payments, DisputePaysOnce
  <1>4. Decided'
    <2>1. \A s \in DOMAIN settlements : Less(s)' <=> Less(s)
      BY <1>0, <1>a DEF Less
    <2> QED
      BY <1>0, <2>1 DEF Payments, Decided
  <1> QED
    BY <1>1, <1>2, <1>3, <1>4 DEF Payments

\* The greater and the smaller of two numbers.
LEMMA OfTwo ==
  ASSUME NEW a \in Int, NEW b \in Int
  PROVE  /\ Max({a, b}) = IF a >= b THEN a ELSE b
         /\ Min({a, b}) = IF a <= b THEN a ELSE b
PROOF
  <1>1. \E x \in {a, b} : \A y \in {a, b} : x >= y
    OBVIOUS
  <1>2. \E x \in {a, b} : \A y \in {a, b} : x <= y
    OBVIOUS
  <1>3. Max({a, b}) \in {a, b} /\ \A y \in {a, b} : Max({a, b}) >= y
    BY <1>1 DEF Max
  <1>4. Min({a, b}) \in {a, b} /\ \A y \in {a, b} : Min({a, b}) <= y
    BY <1>2 DEF Min
  <1> QED
    BY <1>3, <1>4

\* The total of a contract outlives its status.
LEMMA TotalKept ==
  ASSUME TypeOK, NEW n \in DOMAIN contracts, NEW s, contracts' = [contracts EXCEPT ![n].status = s]
  PROVE  \A m \in DOMAIN contracts : contracts'[m].total = contracts[m].total
PROOF
  <1>1. contracts[n] \in Contract
    BY Entries
  <1>2. contracts'[n].total = contracts[n].total
    BY <1>1, ContractRestated DEF Contract
  <1> QED
    BY <1>2, ContractRestated

\* What is settled for want of an answer is paid in full.
LEMMA AutomaticWhole ==
  ASSUME TypeOK, References, NEW f \in DOMAIN fulfillments, TriggerAutoSettlement(f)
  PROVE  ~(settlements'[Len(settlements) + 1].net < contracts[fulfillments[f].contract].total)
PROOF
  <1> DEFINE n == fulfillments[f].contract
             e == [contract |-> n, net |-> Max({0, contracts[n].total - 0})]
  <1>1. n \in DOMAIN contracts /\ settlements \in Seq(Settlement)
    BY DEF References, TypeOK
  <1>2. contracts[n].total \in Nat
    BY <1>1, Entries DEF Contract
  <1>3. settlements' = Append(settlements, e)
    BY DEF TriggerAutoSettlement, ExecuteSettlement
  <1>4. Max({0, contracts[n].total - 0}) = contracts[n].total
    BY <1>2, OfTwo
  <1> HIDE DEF n
  <1>5. settlements'[Len(settlements) + 1] = e
    <2> HIDE DEF e
    <2> QED
      BY <1>1, <1>3
  <1>6. e.net = contracts[n].total
    BY <1>4
  <1> QED
    BY <1>2, <1>5, <1>6 DEF n

\* The attestation f is in state fs after a step that changes no other.
Answered(f, fs) ==
  /\ DOMAIN fulfillments' = DOMAIN fulfillments
  /\ \A g \in DOMAIN fulfillments :
       /\ fulfillments'[g].contract = fulfillments[g].contract
       /\ fulfillments'[g].signed_at = fulfillments[g].signed_at
       /\ fulfillments'[g].status = IF g = f THEN fs ELSE fulfillments[g].status

\* Why a payment is made: the buyer confirms, nobody answered in time, or a ruling.
Due(f, n, fs, final) ==
  \/ /\ final = "Settled" /\ contracts[n].status \in {"InFulfillment", "Settled"}
     /\ fulfillments[f].status = "SellerAttested"
     /\ \/ fs = "Complete"
        \/ /\ fs = "SellerAttested" /\ now > fulfillments[f].signed_at + DisputeWindow
           /\ ~(settlements'[Len(settlements) + 1].net < contracts[n].total)
  \/ /\ final \in {"ResolvedBuyer", "ResolvedSeller"} /\ contracts[n].status = "Disputed"
     /\ fs = "Disputed"

\* A payment: the attestation of the contract entitles to it afterwards, and nothing
\* was paid for the contract when it was disputed.
LEMMA PaymentsExecuted ==
  ASSUME TypeOK, References, Payments, NEW f \in DOMAIN fulfillments, NEW n, n = fulfillments[f].contract,
         NEW fs, NEW final, Executed(n, final), Answered(f, fs), Due(f, n, fs, final)
  PROVE  Payments'
PROOF
  <1> DEFINE e == Len(settlements) + 1
  <1> USE DEF Answered, Due
  <1>0. n \in DOMAIN contracts
    BY DEF References
  <1>1. /\ now' = now
        /\ DOMAIN contracts' = DOMAIN contracts /\ contracts'[n].status = final
        /\ \A m \in DOMAIN contracts : m # n => contracts'[m] = contracts[m]
    BY <1>0, ContractRestated DEF Executed
  <1>2. /\ DOMAIN settlements' = DOMAIN settlements \cup {e} /\ e \notin DOMAIN settlements
        /\ (\A s \in DOMAIN settlements : settlements'[s] = settlements[s]) /\ settlements'[e].contract = n
    BY DEF Executed
  <1> HIDE DEF e
  <1>3. \A g \in DOMAIN fulfillments : fulfillments[g].contract = n => g = f
    BY DEF Payments, Attested
  <1>4. \A g \in DOMAIN fulfillments : fulfillments[g].contract \in DOMAIN contracts
    BY DEF References
  <1>5. Attested'
    <2>1. \A g, h \in DOMAIN fulfillments' : fulfillments'[g].contract = fulfillments'[h].contract => g = h
      BY DEF Payments, Attested
    <2>2. ASSUME NEW g \in DOMAIN fulfillments'
          PROVE  LET s == contracts'[fulfillments'[g].contract].status
                 IN  /\ fulfillments'[g].status = "SellerAttested" => s \in {"InFulfillment", "Settled"}
                     /\ fulfillments'[g].status = "Complete" => s = "Settled"
                     /\ fulfillments'[g].status = "Disputed" => s \in {"Disputed", "ResolvedBuyer", "ResolvedSeller"}
      <3>1. CASE g = f
        BY <1>1, <3>1
      <3>2. CASE g # f
        <4>1. fulfillments[g].contract # n /\ fulfillments'[g].status = fulfillments[g].status
              /\ fulfillments'[g].contract = fulfillments[g].contract
          BY <1>3, <3>2
        <4>2. contracts'[fulfillments[g].contract] = contracts[fulfillments[g].contract]
          BY <1>1, <1>4, <4>1
        <4> QED
          BY <4>1, <4>2 DEF Payments, Attested
      <3> QED
        BY <3>1, <3>2
    <2>3. ASSUME NEW m \in DOMAIN contracts', contracts'[m].status # "Active"
          PROVE  \E g \in DOMAIN fulfillments' : fulfillments'[g].contract = m
      <3>1. CASE m = n
        BY <3>1
      <3>2. CASE m # n
        <4>1. contracts[m].status # "Active" /\ m \in DOMAIN contracts
          BY <1>1, <2>3, <3>2
        <4>2. PICK g \in DOMAIN fulfillments : fulfillments[g].contract = m
          BY <4>1 DEF Payments, Attested
        <4> QED
          BY <4>2
      <3> QED
        BY <3>1, <3>2
    <2> QED
      BY <2>1, <2>2, <2>3 DEF Attested
  <1>6. Right'
    <2> SUFFICES ASSUME NEW s \in DOMAIN settlements'
                 PROVE  \E g \in DOMAIN fulfillments' :
                          /\ fulfillments'[g].contract = settlements'[s].contract
                          /\ Entitles(fulfillments'[g], contracts'[settlements'[s].contract].status, now')
      BY DEF Right
    <2>1. CASE settlements'[s].contract = n
      <3>1. Entitles(fulfillments'[f], final, now')
        BY <1>1 DEF Entitles
      <3> QED
        BY <1>1, <2>1, <3>1
    <2>2. CASE settlements'[s].contract # n
      <3>1. s \in DOMAIN settlements /\ settlements'[s] = settlements[s]
        BY <1>2, <2>2
      <3>2. settlements[s].contract \in DOMAIN contracts
        BY <3>1 DEF References
      <3>3. PICK g \in DOMAIN fulfillments :
              /\ fulfillments[g].contract = settlements[s].contract
              /\ Entitles(fulfillments[g], contracts[settlements[s].contract].status, now)
        BY <3>1 DEF Payments, Right
      <3>4. g # f
        BY <2>2, <3>1, <3>3
      <3>5. Entitles(fulfillments'[g], contracts[settlements[s].contract].status, now)
        BY <3>3, <3>4 DEF Entitles
      <3>6. contracts'[settlements[s].contract] = contracts[settlements[s].contract]
        BY <1>1, <2>2, <3>1, <3>2
      <3> QED
        BY <1>1, <3>1, <3>3, <3>5, <3>6
    <2> QED
      BY <2>1, <2>2
  <1>7. DisputePaysOnce'
    <2>1. \A m : m # n => Releases(m)' = Releases(m)
      BY <1>2 DEF Releases
    <2>2. Releases(n)' = Releases(n) \cup {e}
      BY <1>2 DEF Releases
    <2>3. contracts[n].status = "Disputed" => Releases(n) = {}
      BY <1>0 DEF Payments, DisputePaysOnce
    <2>4. Cardinality({e}) = 1
      BY FS_Singleton
    <2> SUFFICES ASSUME NEW m \in DOMAIN contracts'
                 PROVE  /\ contracts'[m].status \in {"Active", "InFulfillment", "Disputed"} => Releases(m)' = {}
                        /\ contracts'[m].status \in {"ResolvedBuyer", "ResolvedSeller"} => Cardinality(Releases(m)') = 1
      BY DEF DisputePaysOnce
    <2>5. CASE m = n
      <3>1. CASE final = "Settled"
        BY <1>1, <2>5, <3>1
      <3>2. CASE final # "Settled"
        <4>1. Releases(n)' = {e} /\ contracts'[m].status \notin {"Active", "InFulfillment", "Disputed"}
          BY <1>1, <2>2, <2>3, <2>5, <3>2
        <4> QED
          BY <2>4, <2>5, <4>1
      <3> QED
        BY <3>1, <3>2
    <2>6. CASE m # n
      <3>1. m \in DOMAIN contracts /\ contracts'[m] = contracts[m]
        BY <1>1, <2>6
      <3> QED
        BY <2>1, <2>6, <3>1 DEF Payments, DisputePaysOnce
    <2> QED
      BY <2>5, <2>6
  <1>8. \A m \in DOMAIN contracts : contracts'[m].total = contracts[m].total
    BY <1>0, <1>1, TotalKept DEF Executed
  <1>9. \A s \in DOMAIN settlements : Less(s)' <=> Less(s)
    BY <1>2, <1>8 DEF References, Less
  <1>10. contracts[n].status = "Disputed" => \A s \in DOMAIN settlements : settlements[s].contract # n
    BY <1>0 DEF Payments, DisputePaysOnce, Releases
  <1>11. fulfillments[f].status = "SellerAttested" =>
           \A s \in DOMAIN settlements : settlements[s].contract = n =>
             ~Less(s) /\ now > fulfillments[f].signed_at + DisputeWindow
    BY <1>3 DEF Payments, Decided, Right, Entitles
  <1>12. ASSUME fs = "SellerAttested", NEW s, s = e PROVE ~Less(s)'
    <2>1. final = "Settled" /\ ~(settlements'[e].net < contracts[n].total)
      BY <1>12 DEF e
    <2> QED
      BY <1>0, <1>2, <1>8, <1>12, <2>1 DEF Less
  <1>13. Decided'
    <2>1. ASSUME NEW s \in DOMAIN settlements', NEW t \in DOMAIN settlements', s # t,
                 settlements'[s].contract = settlements'[t].contract
          PROVE  /\ ~(Less(s)' /\ Less(t)')
                 /\ \A g \in DOMAIN fulfillments' : fulfillments'[g].contract = settlements'[s].contract =>
                      fulfillments'[g].status # "Disputed" /\ now' > fulfillments'[g].signed_at + DisputeWindow
      <3>1. CASE settlements'[s].contract = n
        <4>1. PICK o \in DOMAIN settlements : o \in {s, t} /\ settlements[o].contract = n
          BY <1>2, <2>1, <3>1
        <4>2. fulfillments[f].status = "SellerAttested" /\ fs # "Disputed"
          BY <1>10, <4>1
        <4>3. now > fulfillments[f].signed_at + DisputeWindow /\ ~Less(o)'
          BY <1>9, <1>11, <4>1, <4>2
        <4> QED
          BY <1>1, <1>3, <3>1, <4>1, <4>2, <4>3
      <3>2. CASE settlements'[s].contract # n
        <4>1. /\ s \in DOMAIN settlements /\ t \in DOMAIN settlements
              /\ settlements'[s] = settlements[s] /\ settlements'[t] = settlements[t]
          BY <1>2, <2>1, <3>2
        <4>2. ~(Less(s) /\ Less(t))
          BY <2>1, <4>1 DEF Payments, Decided
        <4>3. \A g \in DOMAIN fulfillments : fulfillments[g].contract = settlements[s].contract =>
                g # f /\ fulfillments[g].status # "Disputed" /\ now > fulfillments[g].signed_at + DisputeWindow
          BY <2>1, <3>2, <4>1 DEF Payments, Decided
        <4> QED
          BY <1>1, <1>9, <4>1, <4>2, <4>3
      <3> QED
        BY <3>1, <3>2
    <2>2. ASSUME NEW s \in DOMAIN settlements', NEW g \in DOMAIN fulfillments',
                 fulfillments'[g].contract = settlements'[s].contract, Less(s)'
          PROVE  fulfillments'[g].status # "SellerAttested"
      <3>1. CASE s = e
        <4>1. g = f
          BY <1>2, <1>3, <2>2, <3>1
        <4> QED
          BY <1>12, <2>2, <3>1, <4>1
      <3>2. CASE s # e
        <4>1. s \in DOMAIN settlements /\ settlements'[s] = settlements[s] /\ Less(s)
          BY <1>2, <1>9, <2>2, <3>2
        <4>2. fulfillments[g].status # "SellerAttested"
          BY <2>2, <4>1 DEF Payments, Decided
        <4> QED
          BY <4>2
      <3> QED
        BY <3>1, <3>2
    <2> QED
      BY <2>1, <2>2 DEF Decided
  <1> QED
    BY <1>5, <1>6, <1>7, <1>13 DEF Payments

\* The first attestation of a contract: it was fresh, and nothing was paid for it.
LEMMA PaymentsSigned ==
  ASSUME TypeOK, References, Payments, NEW caller, NEW n \in DOMAIN contracts, SellerAttestDelivery(caller, n)
  PROVE  Payments'
PROOF
  <1> DEFINE f == Len(fulfillments) + 1
  <1>0. /\ now' = now /\ settlements' = settlements
        /\ contracts[n].status \in {"Active", "InFulfillment"}
        /\ \A g \in DOMAIN fulfillments : fulfillments[g].contract # n
        /\ contracts' = [contracts EXCEPT ![n].status = "InFulfillment"]
        /\ DOMAIN fulfillments' = DOMAIN fulfillments \cup {f} /\ f \notin DOMAIN fulfillments
        /\ \A g \in DOMAIN fulfillments : fulfillments'[g] = fulfillments[g]
        /\ fulfillments'[f].contract = n /\ fulfillments'[f].status = "SellerAttested"
    BY SellerAttested
  <1> HIDE DEF f
  <1>1. /\ DOMAIN contracts' = DOMAIN contracts /\ contracts'[n].status = "InFulfillment"
        /\ \A m \in DOMAIN contracts : m # n => contracts'[m] = contracts[m]
    BY <1>0, ContractRestated
  <1>2. contracts[n].status = "Active"
    BY <1>0 DEF Payments, Attested
  <1>3. Releases(n) = {}
    BY <1>2 DEF Payments, DisputePaysOnce
  <1>a. \A g \in DOMAIN fulfillments : fulfillments[g].contract \in DOMAIN contracts
    BY DEF References
  <1>4. Attested'
    BY <1>0, <1>1, <1>a DEF Payments, Attested
  <1>5. Right'
    <2> SUFFICES ASSUME NEW s \in DOMAIN settlements
                 PROVE  \E g \in DOMAIN fulfillments' :
                          /\ fulfillments'[g].contract = settlements[s].contract
                          /\ Entitles(fulfillments'[g], contracts'[settlements[s].contract].status, now)
      BY <1>0 DEF Right
    <2>1. settlements[s].contract \in DOMAIN contracts /\ settlements[s].contract # n
      BY <1>3 DEF References, Releases
    <2>2. PICK g \in DOMAIN fulfillments :
            /\ fulfillments[g].contract = settlements[s].contract
            /\ Entitles(fulfillments[g], contracts[settlements[s].contract].status, now)
      BY DEF Payments, Right
    <2> QED
      BY <1>0, <1>1, <2>1, <2>2
  <1>6. DisputePaysOnce'
    <2>1. \A m : Releases(m)' = Releases(m)
      BY <1>0 DEF Releases
    <2> QED
      BY <1>1, <1>3, <2>1 DEF Payments, DisputePaysOnce
  <1>7. Decided'
    <2>1. \A m \in DOMAIN contracts : contracts'[m].total = contracts[m].total
      BY <1>0, <1>1, TotalKept
    <2>2. \A s \in DOMAIN settlements : (Less(s)' <=> Less(s)) /\ settlements[s].contract # n
      BY <1>0, <1>3, <2>1 DEF References, Releases, Less
    <2> QED
      BY <1>0, <2>2 DEF Payments, Decided
  <1> QED
    BY <1>4, <1>5, <1>6, <1>7 DEF Payments

\* A dispute: nothing was paid for the contract, and nothing is.
LEMMA PaymentsDisputed ==
  ASSUME TypeOK, References, Payments, NEW caller, NEW f \in DOMAIN fulfillments, InitiateDispute(caller, f)
  PROVE  Payments'
PROOF
  <1>0. PICK n \in DOMAIN contracts : n = fulfillments[f].contract
    BY DEF References
  <1>1. /\ contracts[n].status = "InFulfillment"
        /\ fulfillments' = [fulfillments EXCEPT ![f].status = "Disputed"]
        /\ contracts' = [contracts EXCEPT ![n].status = "Disputed"]
        /\ now' = now /\ settlements' = settlements
    BY <1>0, DealShape
  <1>2. /\ DOMAIN contracts' = DOMAIN contracts /\ contracts'[n].status = "Disputed"
        /\ \A m \in DOMAIN contracts : m # n => contracts'[m] = contracts[m]
    BY <1>1, ContractRestated
  <1>3. /\ DOMAIN fulfillments' = DOMAIN fulfillments
        /\ \A g \in DOMAIN fulfillments :
             /\ fulfillments'[g].contract = fulfillments[g].contract
             /\ fulfillments'[g].signed_at = fulfillments[g].signed_at
             /\ fulfillments'[g].status = IF g = f THEN "Disputed" ELSE fulfillments[g].status
    BY <1>1, FulfillmentRestated
  <1>4. Releases(n) = {}
    BY <1>1 DEF Payments, DisputePaysOnce
  <1>5. \A g \in DOMAIN fulfillments : fulfillments[g].contract \in DOMAIN contracts /\ (fulfillments[g].contract = n => g = f)
    BY <1>0 DEF Payments, Attested, References
  <1>6. Attested'
    <2>1. \A g, h \in DOMAIN fulfillments' : fulfillments'[g].contract = fulfillments'[h].contract => g = h
      BY <1>3 DEF Payments, Attested
    <2>2. ASSUME NEW g \in DOMAIN fulfillments'
          PROVE  LET s == contracts'[fulfillments'[g].contract].status
                 IN  /\ fulfillments'[g].status = "SellerAttested" => s \in {"InFulfillment", "Settled"}
                     /\ fulfillments'[g].status = "Complete" => s = "Settled"
                     /\ fulfillments'[g].status = "Disputed" => s \in {"Disputed", "ResolvedBuyer", "ResolvedSeller"}
      <3>1. CASE g = f
        BY <1>0, <1>2, <1>3, <3>1
      <3>2. CASE g # f
        <4>1. fulfillments[g].contract # n /\ fulfillments[g].contract \in DOMAIN contracts
              /\ fulfillments'[g].status = fulfillments[g].status /\ fulfillments'[g].contract = fulfillments[g].contract
          BY <1>3, <1>5, <2>2, <3>2
        <4>2. contracts'[fulfillments[g].contract] = contracts[fulfillments[g].contract]
          BY <1>2, <4>1
        <4> QED
          BY <1>3, <4>1, <4>2 DEF Payments, Attested
      <3> QED
        BY <3>1, <3>2
    <2>3. \A m \in DOMAIN contracts' : contracts'[m].status # "Active" =>
            \E g \in DOMAIN fulfillments' : fulfillments'[g].contract = m
      BY <1>0, <1>2, <1>3 DEF Payments, Attested
    <2> QED
      BY <2>1, <2>2, <2>3 DEF Attested
  <1>7. Right'
    <2> SUFFICES ASSUME NEW s \in DOMAIN settlements
                 PROVE  \E g \in DOMAIN fulfillments' :
                          /\ fulfillments'[g].contract = settlements[s].contract
                          /\ Entitles(fulfillments'[g], contracts'[settlements[s].contract].status, now)
      BY <1>1 DEF Right
    <2>1. settlements[s].contract \in DOMAIN contracts /\ settlements[s].contract # n
      BY <1>4 DEF References, Releases
    <2>2. PICK g \in DOMAIN fulfillments :
            /\ fulfillments[g].contract = settlements[s].contract
            /\ Entitles(fulfillments[g], contracts[settlements[s].contract].status, now)
      BY DEF Payments, Right
    <2>3. g # f
      BY <1>0, <2>1, <2>2
    <2>4. Entitles(fulfillments'[g], contracts[settlements[s].contract].status, now)
      BY <1>3, <2>2, <2>3 DEF Entitles
    <2> QED
      BY <1>2, <1>3, <2>1, <2>2, <2>4
  <1>8. DisputePaysOnce'
    <2>1. \A m : Releases(m)' = Releases(m)
      BY <1>1 DEF Releases
    <2> QED
      BY <1>2, <1>4, <2>1 DEF Payments, DisputePaysOnce
  <1>9. Decided'
    <2>1. \A m \in DOMAIN contracts : contracts'[m].total = contracts[m].total
      BY <1>1, <1>2, TotalKept
    <2>2. \A s \in DOMAIN settlements : (Less(s)' <=> Less(s)) /\ settlements[s].contract # n
      BY <1>1, <1>4, <2>1 DEF References, Releases, Less
    <2>3. \A g \in DOMAIN fulfillments : fulfillments[g].contract # n => fulfillments'[g].status = fulfillments[g].status
      BY <1>0, <1>3
    <2> QED
      BY <1>1, <1>3, <2>2, <2>3 DEF Payments, Decided
  <1> QED
    BY <1>6, <1>7, <1>8, <1>9 DEF Payments

\* The attestation of a contract and its state are those of one of the cases of
\* PaymentsExecuted when a call pays.
LEMMA PaymentsNext == TypeOK /\ References /\ Payments /\ [Next]_vars => Payments'
PROOF
  <1> SUFFICES ASSUME TypeOK, References, Payments, [Next]_vars PROVE Payments'
    OBVIOUS
  <1>0. now \in Nat /\ \A f \in DOMAIN fulfillments : fulfillments[f].contract \in DOMAIN contracts
    BY DEF TypeOK, References
  <1>1. CASE Calm
    BY <1>1, PaymentsIdle DEF Calm
  <1>2. ASSUME UNCHANGED <<now, deals>> PROVE Payments'
    BY <1>0, <1>2, PaymentsIdle
  <1>3. ASSUME NEW caller \in Account, NEW k \in DOMAIN catalogs, NEW q \in limit.amounts, CreateLot(caller, k, q)
        PROVE  Payments'
    BY <1>2, <1>3, LotCreated DEF Produced
  <1>4. ASSUME NEW caller \in Account, NEW l \in DOMAIN lots, RecordCte(caller, l) PROVE Payments'
    BY <1>2, <1>4, EventRecorded
  <1>5. ASSUME NEW caller \in Account, NEW inputs \in BoundedSeq([lot : DOMAIN lots, qty : limit.amounts], MaxInputs),
               NEW k \in DOMAIN catalogs, NEW q \in limit.amounts, TransformLot(caller, inputs, k, q)
        PROVE  Payments'
    BY <1>2, <1>5, LotTransformed DEF Produced
  <1>6. ASSUME NEW caller \in Account, NEW o \in DOMAIN offers, NEW arbitrator \in limit.arbitrators,
               AcceptIntentOffer(caller, o, arbitrator) \/ AcceptListingOffer(caller, o, arbitrator)
        PROVE  Payments'
    BY <1>6, IntentAccepted, ListingAccepted, PaymentsAccepted
  <1>7. ASSUME NEW caller, NEW f \in DOMAIN fulfillments, NEW d \in limit.extras, BuyerAttestDelivery(caller, f, d)
        PROVE  Payments'
    <2>1. PICK n \in DOMAIN contracts : n = fulfillments[f].contract
      BY <1>0
    <2>2. /\ fulfillments[f].status = "SellerAttested"
          /\ fulfillments' = [fulfillments EXCEPT ![f].status = "Complete"]
          /\ Executed(n, "Settled")
      BY <1>7, <2>1, DealShape
    <2>3. contracts[n].status \in {"InFulfillment", "Settled"}
      BY <2>1, <2>2 DEF Payments, Attested
    <2>4. /\ DOMAIN fulfillments' = DOMAIN fulfillments
          /\ \A g \in DOMAIN fulfillments :
               /\ fulfillments'[g].contract = fulfillments[g].contract
               /\ fulfillments'[g].signed_at = fulfillments[g].signed_at
               /\ fulfillments'[g].status = IF g = f THEN "Complete" ELSE fulfillments[g].status
      BY <2>2, FulfillmentRestated
    <2>5. Answered(f, "Complete") /\ Due(f, n, "Complete", "Settled")
      BY <2>2, <2>3, <2>4 DEF Answered, Due
    <2> QED
      BY <2>1, <2>2, <2>5, PaymentsExecuted
  <1>8. ASSUME NEW f \in DOMAIN fulfillments, TriggerAutoSettlement(f) PROVE Payments'
    <2>1. PICK n \in DOMAIN contracts : n = fulfillments[f].contract
      BY <1>0
    <2>2. /\ fulfillments[f].status = "SellerAttested" /\ now > fulfillments[f].signed_at + DisputeWindow
          /\ fulfillments' = fulfillments /\ Executed(n, "Settled")
      BY <1>8, <2>1, DealShape
    <2>4. ~(settlements'[Len(settlements) + 1].net < contracts[n].total)
      BY <1>8, <2>1, AutomaticWhole
    <2>3. contracts[n].status \in {"InFulfillment", "Settled"}
      BY <2>1, <2>2 DEF Payments, Attested
    <2>5. Answered(f, "SellerAttested") /\ Due(f, n, "SellerAttested", "Settled")
      BY <2>2, <2>3, <2>4 DEF Answered, Due
    <2> QED
      BY <2>1, <2>2, <2>5, PaymentsExecuted
  <1>9. ASSUME NEW caller, NEW n \in DOMAIN contracts, NEW for \in {"Buyer", "Seller"}, NEW d \in limit.extras,
                ResolveDispute(caller, n, for, d)
         PROVE  Payments'
    <2>1. PICK final \in {"ResolvedBuyer", "ResolvedSeller"} : Executed(n, final)
      BY <1>9, Ruled
    <2>2. contracts[n].status = "Disputed" /\ fulfillments' = fulfillments
      BY <1>9, Ruled
    <2>3. PICK f \in DOMAIN fulfillments : n = fulfillments[f].contract
      BY <2>2 DEF Payments, Attested
    <2>4. fulfillments[f].status = "Disputed"
      <3>1. fulfillments[f].status # "SellerAttested" /\ fulfillments[f].status # "Complete"
        BY <2>2, <2>3 DEF Payments, Attested
      <3> QED
        BY <3>1, DealStates
    <2>5. Answered(f, "Disputed") /\ Due(f, n, "Disputed", final)
      BY <2>1, <2>2, <2>4 DEF Answered, Due
    <2> QED
      BY <2>1, <2>3, <2>5, PaymentsExecuted
  <1> QED
    BY <1>1, <1>3, <1>4, <1>5, <1>6, <1>7, <1>8, <1>9, PaymentsSigned, PaymentsDisputed, StepShape

\* Money leaves escrow by the right of whoever decides at that moment, and a dispute
\* stops it until the ruling, which pays once; nobody deducts twice, or from what was settled
\* for want of an answer (execute_settlement and its four callers).
THEOREM SafePayments == Spec => []PaidByRight
PROOF
  <1>1. Init => Payments
    BY PaymentsInit
  <1>2. TypeOK /\ References /\ Payments /\ [Next]_vars => Payments'
    BY PaymentsNext
  <1> QED
    BY <1>1, <1>2, PaymentsMean, TypeCorrect, PTL DEF Spec

-----------------------------------------------------------------------------
(* Tracing *)

\* The lots an event is found from, and the lots it concerns.
Found(e) == {l \in DOMAIN lots : e \in lot_cte_index[l]}
InputLots(l) == {lots[l].inputs[i].lot : i \in DOMAIN lots[l].inputs}
Concerned(e) == {ctes[e].lot} \cup (IF ctes[e].output = None THEN {} ELSE {ctes[e].output} \cup InputLots(ctes[e].output))

LEMMA TraceMeans == TraceComplete <=> \A e \in DOMAIN ctes : Found(e) = Concerned(e)
PROOF
  <1>1. \A l : Range([i \in DOMAIN lots[l].inputs |-> lots[l].inputs[i].lot]) = InputLots(l)
    BY DEF Range, InputLots
  <1> QED
    BY <1>1 DEF TraceComplete, Found, Concerned

LEMMA TraceInit == Init => TraceComplete
PROOF
  BY DEF Init, TraceComplete

\* An event concerns the same lots after any step.
LEMMA ConcernedKept ==
  ASSUME References, Kept, NEW e \in DOMAIN ctes
  PROVE  Concerned(e)' = Concerned(e)
PROOF
  <1>1. ctes'[e] = ctes[e] /\ ctes[e].output \in DOMAIN lots \cup {None}
    BY DEF Kept, References
  <1>2. ASSUME NEW l \in DOMAIN lots PROVE {lots'[l].inputs[i].lot : i \in DOMAIN lots'[l].inputs} = InputLots(l)
    BY DEF Kept, InputLots
  <1>3. Concerned(e)' = {ctes[e].lot} \cup
          (IF ctes[e].output = None THEN {}
           ELSE {ctes[e].output} \cup {lots'[ctes[e].output].inputs[i].lot : i \in DOMAIN lots'[ctes[e].output].inputs})
    BY <1>1 DEF Concerned, InputLots
  <1> QED
    BY <1>1, <1>2, <1>3 DEF Concerned

\* Events are indexed under lots that exist, and a new one is not indexed yet.
LEMMA IndexBounds ==
  ASSUME TypeOK
  PROVE  \A l : IndexOf(l) \subseteq DOMAIN ctes
PROOF
  BY DEF TypeOK, IndexOf

LEMMA TraceNext == TypeOK /\ References /\ TraceComplete /\ [Next]_vars => TraceComplete'
PROOF
  <1> SUFFICES ASSUME TypeOK, References, [Next]_vars, \A e \in DOMAIN ctes : Found(e) = Concerned(e)
               PROVE  (\A e \in DOMAIN ctes : Found(e) = Concerned(e))'
    BY TraceMeans, PTL
  <1>0. \A e \in DOMAIN ctes : Concerned(e)' = Concerned(e)
    BY KeptNext, ConcernedKept
  <1>1. ASSUME UNCHANGED <<ctes, lot_cte_index>>, DOMAIN lots' = DOMAIN lots
        PROVE  (\A e \in DOMAIN ctes : Found(e) = Concerned(e))'
    <2>1. \A e : Found(e)' = Found(e)
      BY <1>1 DEF Found
    <2> QED
      BY <1>0, <1>1, <2>1
  <1>2. ASSUME NEW caller \in Account, NEW k \in DOMAIN catalogs, NEW q \in limit.amounts, CreateLot(caller, k, q)
        PROVE  (\A e \in DOMAIN ctes : Found(e) = Concerned(e))'
    <2>1. /\ ctes' = ctes /\ DOMAIN lots' = DOMAIN lots \cup {Len(lots) + 1} /\ Len(lots) + 1 \notin DOMAIN lots
          /\ \A l \in DOMAIN lots' : lot_cte_index'[l] = IndexOf(l)
      BY <1>2, LotCreated DEF Produced
    <2>2. \A e : Found(e)' = Found(e)
      BY <2>1 DEF Found, IndexOf
    <2> QED
      BY <1>0, <2>1, <2>2
  <1>3. ASSUME NEW cte, NEW touched \in SUBSET DOMAIN lots', Noted(cte, touched),
               DOMAIN lots \subseteq DOMAIN lots'
        PROVE  /\ \A e \in DOMAIN ctes : Found(e)' = Found(e)
               /\ \A x : x = Len(ctes) + 1 => Found(x)' = touched
    <2> DEFINE n == Len(ctes) + 1
    <2>1. n \notin DOMAIN ctes
          /\ \A l \in DOMAIN lots' : lot_cte_index'[l] = IF l \in touched THEN IndexOf(l) \cup {n} ELSE IndexOf(l)
      BY <1>3 DEF Noted
    <2>2. \A l : IndexOf(l) \subseteq DOMAIN ctes
      BY IndexBounds
    <2>3. \A e \in DOMAIN ctes : Found(e)' = {l \in DOMAIN lots' : e \in IndexOf(l)}
      BY <2>1 DEF Found
    <2>4. \A e \in DOMAIN ctes : {l \in DOMAIN lots' : e \in IndexOf(l)} = Found(e)
      BY <1>3 DEF IndexOf, Found
    <2>5. ASSUME NEW x, x = n PROVE Found(x)' = touched
      <3>1. {l \in DOMAIN lots' : x \in lot_cte_index'[l]} = touched
        BY <1>3, <2>1, <2>2, <2>5
      <3> QED
        BY <3>1 DEF Found
    <2> QED
      BY <2>3, <2>4, <2>5
  <1>4. ASSUME NEW caller \in Account, NEW l \in DOMAIN lots, RecordCte(caller, l)
        PROVE  (\A e \in DOMAIN ctes : Found(e) = Concerned(e))'
    <2> DEFINE cte == [actor |-> caller, lot |-> l, output |-> None]
    <2>1. lots' = lots /\ Noted(cte, {l})
      BY <1>4, EventRecorded
    <2>2. /\ DOMAIN ctes' = DOMAIN ctes \cup {Len(ctes) + 1} /\ ctes'[Len(ctes) + 1] = cte
      BY <2>1 DEF Noted
    <2>3. /\ \A e \in DOMAIN ctes : Found(e)' = Found(e)
          /\ \A x : x = Len(ctes) + 1 => Found(x)' = {l}
      <3>1. {l} \in SUBSET DOMAIN lots' /\ DOMAIN lots \subseteq DOMAIN lots'
        BY <2>1
      <3> HIDE DEF cte
      <3> QED
        BY <1>3, <2>1, <3>1
    <2>4. ASSUME NEW x, x = Len(ctes) + 1 PROVE Concerned(x)' = {l}
      BY <2>2, <2>4 DEF Concerned
    <2> QED
      BY <1>0, <2>2, <2>3, <2>4
  <1>5. ASSUME NEW caller \in Account, NEW inputs \in BoundedSeq([lot : DOMAIN lots, qty : limit.amounts], MaxInputs),
               NEW k \in DOMAIN catalogs, NEW q \in limit.amounts, TransformLot(caller, inputs, k, q)
        PROVE  (\A e \in DOMAIN ctes : Found(e) = Concerned(e))'
    <2>0. PICK n : n = Len(lots) + 1
      OBVIOUS
    <2> DEFINE cte == [actor |-> caller, lot |-> inputs[1].lot, output |-> n]
               named == {inputs[i].lot : i \in DOMAIN inputs}
    <2>1. Produced(inputs, q) /\ 1 \in DOMAIN inputs /\ Noted(cte, named \cup {n})
      BY <1>5, <2>0, LotTransformed
    <2>2. /\ DOMAIN ctes' = DOMAIN ctes \cup {Len(ctes) + 1} /\ ctes'[Len(ctes) + 1] = cte
      BY <2>1 DEF Noted
    <2>3. named \subseteq DOMAIN lots /\ DOMAIN lots' = DOMAIN lots \cup {n} /\ lots'[n].inputs = inputs
      BY <2>0, <2>1 DEF Produced
    <2>4. /\ \A e \in DOMAIN ctes : Found(e)' = Found(e)
          /\ \A x : x = Len(ctes) + 1 => Found(x)' = named \cup {n}
      <3>1. named \cup {n} \in SUBSET DOMAIN lots' /\ DOMAIN lots \subseteq DOMAIN lots'
        BY <2>3
      <3> HIDE DEF cte, named
      <3> QED
        BY <1>3, <2>1, <3>1
    <2>5. n # None
      <3>1. n \in Nat
        BY <2>0, Numbers
      <3> QED
        BY <3>1, ContractAssumption DEF ContractAssumption
    <2>6. ASSUME NEW x, x = Len(ctes) + 1 PROVE Concerned(x)' = named \cup {n}
      <3>1. Concerned(x)' = {cte.lot} \cup ({n} \cup {lots'[n].inputs[i].lot : i \in DOMAIN lots'[n].inputs})
        BY <2>2, <2>5, <2>6 DEF Concerned, InputLots
      <3>2. cte.lot \in named
        BY <2>1
      <3>3. {lots'[n].inputs[i].lot : i \in DOMAIN lots'[n].inputs} = named
        BY <2>3
      <3> HIDE DEF named, cte
      <3> QED
        BY <3>1, <3>2, <3>3
    <2> HIDE DEF named, cte
    <2> QED
      BY <1>0, <2>2, <2>4, <2>6
  <1>6. ASSUME UNCHANGED <<ctes, lot_cte_index, lots>> PROVE (\A e \in DOMAIN ctes : Found(e) = Concerned(e))'
    BY <1>1, <1>6
  <1>7. ASSUME NEW n, NEW s, Executed(n, s) PROVE (\A e \in DOMAIN ctes : Found(e) = Concerned(e))'
    BY <1>1, <1>7 DEF Executed, SameStock
  <1>8. ASSUME NEW caller \in Account, NEW o \in DOMAIN offers, NEW arbitrator \in limit.arbitrators,
               AcceptIntentOffer(caller, o, arbitrator) \/ AcceptListingOffer(caller, o, arbitrator)
        PROVE  (\A e \in DOMAIN ctes : Found(e) = Concerned(e))'
    <2>1. Accepted(o)
      BY <1>8, IntentAccepted, ListingAccepted
    <2> QED
      BY <1>1, <2>1 DEF Accepted
  <1>9. CASE Calm
    BY <1>1, <1>9 DEF Calm, SameStock
  <1>10. ASSUME NEW caller, NEW n \in DOMAIN contracts, SellerAttestDelivery(caller, n)
         PROVE  (\A e \in DOMAIN ctes : Found(e) = Concerned(e))'
    BY <1>6, <1>10, SellerAttested
  <1>11. ASSUME NEW caller, NEW f \in DOMAIN fulfillments,
                \/ \E d \in limit.extras : BuyerAttestDelivery(caller, f, d)
                \/ InitiateDispute(caller, f) \/ TriggerAutoSettlement(f)
         PROVE  (\A e \in DOMAIN ctes : Found(e) = Concerned(e))'
    <2>1. CASE InitiateDispute(caller, f)
      BY <1>6, <2>1, DealShape
    <2>2. CASE \E d \in limit.extras : BuyerAttestDelivery(caller, f, d)
      BY <1>7, <2>2, DealShape
    <2>3. CASE TriggerAutoSettlement(f)
      BY <1>7, <2>3, DealShape
    <2> QED
      BY <1>11, <2>1, <2>2, <2>3
  <1>12. ASSUME NEW caller, NEW n \in DOMAIN contracts, NEW for \in {"Buyer", "Seller"}, NEW d \in limit.extras,
                ResolveDispute(caller, n, for, d)
         PROVE  (\A e \in DOMAIN ctes : Found(e) = Concerned(e))'
    BY <1>7, <1>12, Ruled
  <1> QED
    BY <1>2, <1>4, <1>5, <1>8, <1>9, <1>10, <1>11, <1>12, StepShape

\* One step up, one step down (record_transformation and the lot index): an event is
\* found from the lots it concerns, all of them and no other, ever after.
THEOREM SafeTrace == Spec => []TraceComplete
PROOF
  <1>1. Init => TraceComplete
    BY TraceInit
  <1>2. TypeOK /\ References /\ TraceComplete /\ [Next]_vars => TraceComplete'
    BY TraceNext
  <1> QED
    BY <1>1, <1>2, TypeCorrect, PTL DEF Spec

-----------------------------------------------------------------------------
(* Goods *)

\* What is contracted from a lot, and what the lots made of it took.
Quantity == [n \in DOMAIN contracts |-> contracts[n].qty]
SoldFrom(l) == {n \in DOMAIN contracts : contracts[n].lot = l}
Sold(l) == SumFunctionOnSet(Quantity, SoldFrom(l))
Uses(l) == [m \in DOMAIN lots |-> Drawn(lots[m].inputs, l)]
Used(l) == SumFunctionOnSet(Uses(l), DOMAIN lots)

LEMMA GoodsMean ==
  GoodsConserved <=> \A l \in DOMAIN lots : lots[l].total = lots[l].available + Sold(l) + Used(l)
PROOF
  <1>1. \A l : SumFunction([m \in DOMAIN lots |-> Drawn(lots[m].inputs, l)]) = Used(l)
    <2>1. \A l : DOMAIN [m \in DOMAIN lots |-> Drawn(lots[m].inputs, l)] = DOMAIN lots
      OBVIOUS
    <2> QED
      BY <2>1 DEF SumFunction, Used, Uses
  <1>2. \A l : SumFunctionOnSet([n \in DOMAIN contracts |-> contracts[n].qty], {n \in DOMAIN contracts : contracts[n].lot = l})
                 = Sold(l)
    BY DEF Sold, SoldFrom, Quantity
  <1> QED
    BY <1>1, <1>2 DEF GoodsConserved

\* Both are numbers, of finitely many contracts and lots.
LEMMA GoodsNumbers ==
  ASSUME TypeOK, NEW l
  PROVE  /\ IsFiniteSet(SoldFrom(l)) /\ IsFiniteSet(DOMAIN lots)
         /\ (\A n \in SoldFrom(l) : Quantity[n] \in Nat) /\ \A m \in DOMAIN lots : Uses(l)[m] \in Nat
         /\ Sold(l) \in Nat /\ Used(l) \in Nat
PROOF
  <1>1. SoldFrom(l) \subseteq 1..Len(contracts) /\ DOMAIN lots = 1..Len(lots) /\ Len(contracts) \in Nat /\ Len(lots) \in Nat
    BY Numbers DEF SoldFrom
  <1>2. IsFiniteSet(1..Len(contracts)) /\ IsFiniteSet(1..Len(lots))
    BY <1>1, FS_Interval
  <1>3. IsFiniteSet(SoldFrom(l)) /\ IsFiniteSet(DOMAIN lots)
    BY <1>1, <1>2, FS_Subset
  <1>4. \A n \in SoldFrom(l) : Quantity[n] \in Nat
    BY Entries DEF SoldFrom, Quantity, Contract
  <1>5. \A m \in DOMAIN lots : Uses(l)[m] \in Nat
    <2>1. ASSUME NEW m \in DOMAIN lots PROVE Drawn(lots[m].inputs, l) \in Nat
      <3>1. lots[m].inputs \in Seq(InputLotRef)
        BY Entries DEF GoodsLot
      <3> QED
        BY <3>1, DrawnFacts
    <2> QED
      BY <2>1 DEF Uses
  <1>6. Sold(l) \in Nat
    BY <1>3, <1>4, SumType DEF Sold
  <1>7. Used(l) \in Nat
    BY <1>3, <1>5, SumType DEF Used
  <1> QED
    BY <1>3, <1>4, <1>5, <1>6, <1>7

\* Inputs that do not name a lot draw nothing from it.
LEMMA NotDrawn ==
  ASSUME NEW inputs, NEW l, \A i \in DOMAIN inputs : inputs[i].lot # l
  PROVE  Drawn(inputs, l) = 0
PROOF
  <1>1. {i \in DOMAIN inputs : inputs[i].lot = l} = {}
    OBVIOUS
  <1> QED
    BY <1>1, SumEmpty DEF Drawn

\* Nothing is contracted from a lot that is not there, and nothing made of it.
LEMMA NothingOf ==
  ASSUME TypeOK, References, NEW l \in Nat, l \notin DOMAIN lots
  PROVE  Sold(l) = 0 /\ Used(l) = 0
PROOF
  <1>1. l # None
    BY ContractAssumption DEF ContractAssumption
  <1>2. SoldFrom(l) = {}
    BY <1>1 DEF References, SoldFrom
  <1>3. Sold(l) = 0
    BY <1>2, SumEmpty DEF Sold
  <1>4. ASSUME NEW m \in DOMAIN lots PROVE Uses(l)[m] = 0
    <2>1. \A i \in DOMAIN lots[m].inputs : lots[m].inputs[i].lot # l
      BY DEF References
    <2> QED
      BY <2>1, NotDrawn DEF Uses
  <1>5. Used(l) = 0
    BY <1>4, GoodsNumbers, SumZero DEF Used
  <1> QED
    BY <1>3, <1>5

\* Steps that form no contract leave what is contracted as it is.
LEMMA SoldKept ==
  ASSUME Kept, DOMAIN contracts' = DOMAIN contracts, NEW l
  PROVE  Sold(l)' = Sold(l)
PROOF
  <1>1. \A n \in DOMAIN contracts : contracts'[n].qty = contracts[n].qty /\ contracts'[n].lot = contracts[n].lot
    BY DEF Kept, SameTerms
  <1>2. Quantity' = Quantity
    BY <1>1 DEF Quantity
  <1>3. SoldFrom(l)' = SoldFrom(l)
    BY <1>1 DEF SoldFrom
  <1> QED
    BY <1>2, <1>3 DEF Sold

\* Acceptance adds the quantity of the offer to the lot of the contract.
LEMMA SoldMore ==
  ASSUME TypeOK, NEW o \in DOMAIN offers, Accepted(o), NEW l
  PROVE  Sold(l)' = Sold(l) + IF contracts'[Len(contracts) + 1].lot = l THEN offers[o].qty ELSE 0
PROOF
  <1>0. PICK c : c = Len(contracts) + 1
    OBVIOUS
  <1>1. /\ DOMAIN contracts' = DOMAIN contracts \cup {c} /\ c \notin DOMAIN contracts
        /\ (\A n \in DOMAIN contracts : contracts'[n] = contracts[n]) /\ contracts'[c].qty = offers[o].qty
    BY <1>0 DEF Accepted
  <1>2. offers[o].qty \in Nat
    BY Entries DEF Offer
  <1>3. IsFiniteSet(SoldFrom(l)) /\ (\A n \in SoldFrom(l) : Quantity[n] \in Nat) /\ Sold(l) \in Nat
    BY GoodsNumbers
  <1>4. /\ \A n \in SoldFrom(l) : Quantity'[n] = Quantity[n]
        /\ Quantity'[c] = offers[o].qty /\ c \notin SoldFrom(l)
    BY <1>1 DEF Quantity, SoldFrom
  <1>5. SumFunctionOnSet(Quantity', SoldFrom(l)) = Sold(l)
    BY <1>3, <1>4, SumEqual DEF Sold
  <1>6. SumFunctionOnSet(Quantity', SoldFrom(l) \cup {c}) = Sold(l) + offers[o].qty
    BY <1>2, <1>3, <1>4, <1>5, SumAdd
  <1>7. SoldFrom(l)' = IF contracts'[c].lot = l THEN SoldFrom(l) \cup {c} ELSE SoldFrom(l)
    BY <1>1 DEF SoldFrom
  <1> QED
    BY <1>0, <1>3, <1>5, <1>6, <1>7 DEF Sold

\* Steps that make no lot leave what the lots took as it is.
LEMMA UsedKept ==
  ASSUME DOMAIN lots' = DOMAIN lots, \A m \in DOMAIN lots : lots'[m].inputs = lots[m].inputs, NEW l
  PROVE  Used(l)' = Used(l)
PROOF
  <1>1. Uses(l)' = Uses(l)
    BY DEF Uses
  <1> QED
    BY <1>1 DEF Used

\* A new lot adds what it draws.
LEMMA UsedMore ==
  ASSUME TypeOK, NEW inputs, NEW q, Produced(inputs, q), NEW l
  PROVE  Used(l)' = Used(l) + Drawn(inputs, l) /\ Drawn(inputs, l) \in Nat
PROOF
  <1>0. PICK n : n = Len(lots) + 1
    OBVIOUS
  <1>1. /\ DOMAIN lots' = DOMAIN lots \cup {n} /\ n \notin DOMAIN lots /\ inputs \in Seq(InputLotRef)
        /\ (\A m \in DOMAIN lots : lots'[m].inputs = lots[m].inputs) /\ lots'[n].inputs = inputs
    BY <1>0 DEF Produced
  <1>2. Drawn(inputs, l) \in Nat
    BY <1>1, DrawnFacts
  <1>3. IsFiniteSet(DOMAIN lots) /\ (\A m \in DOMAIN lots : Uses(l)[m] \in Nat) /\ Used(l) \in Nat
    BY GoodsNumbers
  <1>4. PICK u : u = Uses(l)'
    OBVIOUS
  <1>5. (\A m \in DOMAIN lots : u[m] = Uses(l)[m]) /\ u[n] = Drawn(inputs, l)
    BY <1>1, <1>4 DEF Uses
  <1>6. SumFunctionOnSet(u, DOMAIN lots) = Used(l)
    BY <1>3, <1>5, SumEqual DEF Used
  <1>7. \A m \in DOMAIN lots \cup {n} : u[m] \in Nat
    BY <1>2, <1>3, <1>5
  <1>8. SumFunctionOnSet(u, DOMAIN lots \cup {n}) = Used(l) + Drawn(inputs, l)
    <2>1. IsFiniteSet(DOMAIN lots) /\ n \notin DOMAIN lots
      BY <1>1, <1>3
    <2>2. SumFunctionOnSet(u, DOMAIN lots \cup {n}) = SumFunctionOnSet(u, DOMAIN lots) + u[n]
      BY <1>7, <2>1, SumAdd
    <2> QED
      BY <1>5, <1>6, <2>2
  <1> QED
    BY <1>1, <1>2, <1>4, <1>8 DEF Used

\* The balance of every lot.
Balanced == \A l \in DOMAIN lots : lots[l].total = lots[l].available + Sold(l) + Used(l)

LEMMA GoodsInit == Init => GoodsConserved
PROOF
  <1> SUFFICES ASSUME Init PROVE Balanced
    BY GoodsMean DEF Balanced
  <1>0. TypeOK
    BY TypeInit
  <1>1. PICK s \in Seeds : lots = s.lots /\ contracts = <<>>
    BY DEF Init
  <1>2. \A l \in DOMAIN lots : lots[l].available = lots[l].total /\ lots[l].inputs = <<>>
    BY <1>1, SeedsAssumption DEF SeedsAssumption
  <1>3. ASSUME NEW l PROVE Sold(l) = 0 /\ Used(l) = 0
    <2>1. SoldFrom(l) = {}
      BY <1>1 DEF SoldFrom
    <2>2. \A m \in DOMAIN lots : Uses(l)[m] = 0
      BY <1>2, NotDrawn DEF Uses
    <2>3. Used(l) = 0
      BY <1>0, <2>2, GoodsNumbers, SumZero DEF Used
    <2> QED
      BY <2>1, <2>3, SumEmpty DEF Sold
  <1>4. \A l \in DOMAIN lots : lots[l].total \in Nat
    BY <1>0, Entries DEF GoodsLot
  <1> QED
    BY <1>2, <1>3, <1>4 DEF Balanced

LEMMA GoodsNext == TypeOK /\ References /\ GoodsConserved /\ [Next]_vars => GoodsConserved'
PROOF
  <1> SUFFICES ASSUME TypeOK, References, [Next]_vars, Balanced PROVE Balanced'
    BY GoodsMean, PTL DEF Balanced
  <1>0. Kept
    BY KeptNext
  <1>a. \A l \in DOMAIN lots : lots[l].total \in Nat /\ lots[l].available \in Nat
    BY Entries DEF GoodsLot
  <1>b. \A l : Sold(l) \in Nat /\ Used(l) \in Nat
    BY GoodsNumbers
  <1>1. ASSUME SameStock, DOMAIN contracts' = DOMAIN contracts PROVE Balanced'
    <2>1. \A l : Sold(l)' = Sold(l) /\ Used(l)' = Used(l)
      BY <1>0, <1>1, SoldKept, UsedKept DEF SameStock
    <2> QED
      BY <1>1, <2>1 DEF SameStock, Balanced
  <1>2. ASSUME NEW inputs, NEW q \in limit.amounts, Produced(inputs, q) PROVE Balanced'
    <2>0. PICK n : n = Len(lots) + 1
      OBVIOUS
    <2>1. /\ contracts' = contracts /\ \A i \in DOMAIN inputs : inputs[i].lot \in DOMAIN lots
          /\ DOMAIN lots' = DOMAIN lots \cup {n} /\ n \notin DOMAIN lots
          /\ \A l \in DOMAIN lots : /\ lots'[l].total = lots[l].total
                                    /\ lots'[l].available = lots[l].available - Drawn(inputs, l)
          /\ lots'[n].total = q /\ lots'[n].available = q
      BY <1>2, <2>0 DEF Produced, deals
    <2>2. \A l : Sold(l)' = Sold(l)
      BY <1>0, <2>1, SoldKept
    <2>3. \A l : Used(l)' = Used(l) + Drawn(inputs, l) /\ Drawn(inputs, l) \in Nat
      BY <1>2, UsedMore
    <2>4. ASSUME NEW l \in DOMAIN lots PROVE lots'[l].total = lots'[l].available + Sold(l)' + Used(l)'
      <3>1. lots[l].total = lots[l].available + Sold(l) + Used(l)
        BY DEF Balanced
      <3> QED
        BY <1>a, <1>b, <2>1, <2>2, <2>3, <3>1
    <2>5. lots'[n].total = lots'[n].available + Sold(n)' + Used(n)'
      <3>1. n \in Nat /\ q \in Nat
        BY <2>0, Numbers
      <3>2. Sold(n) = 0 /\ Used(n) = 0
        BY <2>1, <3>1, NothingOf
      <3>3. Drawn(inputs, n) = 0
        BY <2>1, NotDrawn
      <3> QED
        BY <2>1, <2>2, <2>3, <3>1, <3>2, <3>3
    <2> QED
      BY <2>1, <2>4, <2>5 DEF Balanced
  <1>3. ASSUME NEW o \in DOMAIN offers, Accepted(o), NEW x, x = contracts'[Len(contracts) + 1].lot,
               \A m \in DOMAIN lots :
                 lots'[m].available = IF m = x THEN lots[m].available - offers[o].qty ELSE lots[m].available
        PROVE  Balanced'
    <2>1. DOMAIN lots' = DOMAIN lots
          /\ \A l \in DOMAIN lots : lots'[l].total = lots[l].total /\ lots'[l].inputs = lots[l].inputs
      BY <1>3 DEF Accepted
    <2>2. \A l : Used(l)' = Used(l)
      BY <2>1, UsedKept
    <2>3. \A l : Sold(l)' = Sold(l) + IF x = l THEN offers[o].qty ELSE 0
      BY <1>3, SoldMore
    <2>4. offers[o].qty \in Nat
      BY Entries DEF Offer
    <2>5. ASSUME NEW l \in DOMAIN lots PROVE lots'[l].total = lots'[l].available + Sold(l)' + Used(l)'
      <3>1. lots[l].total = lots[l].available + Sold(l) + Used(l)
        BY DEF Balanced
      <3>2. /\ lots'[l].total = lots[l].total /\ Used(l)' = Used(l)
            /\ Sold(l)' = Sold(l) + IF x = l THEN offers[o].qty ELSE 0
            /\ lots'[l].available = IF l = x THEN lots[l].available - offers[o].qty ELSE lots[l].available
        BY <1>3, <2>1, <2>2, <2>3
      <3>3. lots[l].available \in Nat /\ Sold(l) \in Nat /\ Used(l) \in Nat
        BY <1>a, <1>b
      <3> QED
        BY <2>4, <3>1, <3>2, <3>3
    <2> QED
      BY <2>1, <2>5 DEF Balanced
  <1>4. CASE Calm
    BY <1>1, <1>4 DEF Calm, deals
  <1>5. ASSUME UNCHANGED lots, DOMAIN contracts' = DOMAIN contracts PROVE Balanced'
    BY <1>1, <1>5 DEF SameStock
  <1>6. ASSUME NEW n \in DOMAIN contracts, NEW s, Executed(n, s) PROVE Balanced'
    <2>1. DOMAIN contracts' = DOMAIN contracts
      BY <1>6, ContractRestated DEF Executed
    <2> QED
      BY <1>1, <1>6, <2>1 DEF Executed
  <1>7. ASSUME NEW caller \in Account, NEW k \in DOMAIN catalogs, NEW q \in limit.amounts, CreateLot(caller, k, q)
        PROVE  Balanced'
    BY <1>2, <1>7, LotCreated
  <1>8. ASSUME NEW caller \in Account, NEW l \in DOMAIN lots, RecordCte(caller, l) PROVE Balanced'
    BY <1>5, <1>8, EventRecorded DEF deals
  <1>9. ASSUME NEW caller \in Account, NEW inputs \in BoundedSeq([lot : DOMAIN lots, qty : limit.amounts], MaxInputs),
               NEW k \in DOMAIN catalogs, NEW q \in limit.amounts, TransformLot(caller, inputs, k, q)
        PROVE  Balanced'
    BY <1>2, <1>9, LotTransformed
  <1>10. ASSUME NEW caller \in Account, NEW o \in DOMAIN offers, NEW arbitrator \in limit.arbitrators,
                AcceptIntentOffer(caller, o, arbitrator)
         PROVE  Balanced'
    <2>1. Accepted(o) /\ SameStock /\ contracts'[Len(contracts) + 1].lot = None
      BY <1>10, IntentAccepted
    <2>2. None \notin DOMAIN lots
      BY Numbers, ContractAssumption DEF ContractAssumption
    <2> QED
      BY <1>3, <2>1, <2>2 DEF SameStock
  <1>11. ASSUME NEW caller \in Account, NEW o \in DOMAIN offers, NEW arbitrator \in limit.arbitrators,
                AcceptListingOffer(caller, o, arbitrator)
         PROVE  Balanced'
    <2>1. PICK x : x = listings[offers[o].target].lot
      OBVIOUS
    <2>2. /\ Accepted(o) /\ contracts'[Len(contracts) + 1].lot = x
          /\ \A m \in DOMAIN lots :
               lots'[m].available = IF m = x THEN lots[m].available - offers[o].qty ELSE lots[m].available
      BY <1>11, <2>1, ListingAccepted
    <2> QED
      BY <1>3, <2>2
  <1>12. ASSUME NEW caller, NEW n \in DOMAIN contracts, SellerAttestDelivery(caller, n) PROVE Balanced'
    <2>1. lots' = lots /\ contracts' = [contracts EXCEPT ![n].status = "InFulfillment"]
      BY <1>12, SellerAttested
    <2> QED
      BY <1>5, <2>1, ContractRestated
  <1>13. ASSUME NEW caller, NEW f \in DOMAIN fulfillments,
                \/ \E d \in limit.extras : BuyerAttestDelivery(caller, f, d)
                \/ InitiateDispute(caller, f) \/ TriggerAutoSettlement(f)
         PROVE  Balanced'
    <2>0. PICK n \in DOMAIN contracts : n = fulfillments[f].contract
      BY DEF References
    <2>1. CASE InitiateDispute(caller, f)
      <3>1. lots' = lots /\ contracts' = [contracts EXCEPT ![n].status = "Disputed"]
        BY <2>0, <2>1, DealShape
      <3> QED
        BY <1>5, <3>1, ContractRestated
    <2>2. CASE \E d \in limit.extras : BuyerAttestDelivery(caller, f, d)
      BY <1>6, <2>0, <2>2, DealShape
    <2>3. CASE TriggerAutoSettlement(f)
      BY <1>6, <2>0, <2>3, DealShape
    <2> QED
      BY <1>13, <2>1, <2>2, <2>3
  <1>14. ASSUME NEW caller, NEW n \in DOMAIN contracts, NEW for \in {"Buyer", "Seller"}, NEW d \in limit.extras,
                ResolveDispute(caller, n, for, d)
         PROVE  Balanced'
    BY <1>6, <1>14, Ruled
  <1> QED
    BY <1>4, <1>7, <1>8, <1>9, <1>10, <1>11, <1>12, <1>13, <1>14, StepShape

\* What is contracted from a lot and consumed by transformations is what the lot is
\* short of (accept_listing_offer, transform_lot): allocation, repeated inputs and
\* disposal never lose or mint goods.
THEOREM SafeGoods == Spec => []GoodsConserved
PROOF
  <1>1. Init => GoodsConserved
    BY GoodsInit
  <1>2. TypeOK /\ References /\ GoodsConserved /\ [Next]_vars => GoodsConserved'
    BY GoodsNext
  <1> QED
    BY <1>1, <1>2, TypeCorrect, PTL DEF Spec
-----------------------------------------------------------------------------
(* Matches: eligibility and scores *)

\* A cap keeps the order, from above and from below.
LEMMA Capped ==
  ASSUME NEW a \in Nat, NEW b \in Nat, a <= b, NEW c \in Nat
  PROVE  /\ Min({c, a}) \in Nat /\ Min({c, b}) \in Nat /\ Min({c, a}) <= Min({c, b})
         /\ Max({c, a}) \in Nat /\ Max({c, b}) \in Nat /\ Max({c, a}) <= Max({c, b})
PROOF
  <1>1. /\ Min({c, a}) = IF c <= a THEN c ELSE a
        /\ Min({c, b}) = IF c <= b THEN c ELSE b
    BY OfTwo
  <1>2. /\ Max({c, a}) = IF c >= a THEN c ELSE a
        /\ Max({c, b}) = IF c >= b THEN c ELSE b
    BY OfTwo
  <1> QED
    BY <1>1, <1>2

\* Rounding down keeps the order.
LEMMA Rounded ==
  ASSUME NEW a \in Nat, NEW b \in Nat, a <= b, NEW d \in Nat \ {0}
  PROVE  a \div d \in Nat /\ a \div d <= b \div d
PROOF
  <1> DEFINE p == a \div d
             q == b \div d
  <1>1. p \in Int /\ q \in Int /\ a = (d * p) + (a % d) /\ b = (d * q) + (b % d)
    OBVIOUS
  <1>2. a % d \in 0..(d - 1) /\ b % d \in 0..(d - 1)
    OBVIOUS
  <1> HIDE DEF p, q
  <1>3. ASSUME p < 0 PROVE FALSE
    <2>1. d * p <= d * (-1)
      BY <1>1, <1>3
    <2> QED
      BY <1>1, <1>2, <2>1
  <1>4. ASSUME q < p PROVE FALSE
    <2>1. d * (q + 1) <= d * p
      BY <1>1, <1>4
    <2>2. d * (q + 1) = d * q + d
      BY <1>1
    <2> QED
      BY <1>1, <1>2, <2>1, <2>2
  <1> QED
    BY <1>1, <1>3, <1>4 DEF p, q

\* A table of the market is a finite sequence of entries with their types.
IntentIs(i) ==
  {i.quantity, i.ceiling, i.earliest, i.latest, i.expires} \subseteq Nat /\ Len(i.required) \in Nat
ListingIs(l) ==
  /\ {l.quantity, l.ask, l.earliest, l.latest, l.expires} \subseteq Nat
  /\ Len(l.certs) \in Nat /\ market.reputation[l.seller] \in Nat

LEMMA MarketIs ==
  ASSUME MatchInit
  PROVE  /\ \A i \in DOMAIN market.intents : IntentIs(market.intents[i])
         /\ \A k \in DOMAIN market.listings : ListingIs(market.listings[k])
         /\ market.now \in Nat
         /\ \E n \in Nat : DOMAIN market.intents = 1..n
         /\ \E n \in Nat : DOMAIN market.listings = 1..n
  BY MarketAssumption DEF MatchInit, IntentIs, ListingIs

\* Whoever offers no less is eligible where the other is.
LEMMA EligibleToo ==
  ASSUME market.now \in Nat, NEW i, IntentIs(i), NEW x, ListingIs(x), NEW y, ListingIs(y), NoWorse(x, y), Eligible(i, y)
  PROVE  Eligible(i, x)
PROOF
  <1>0. /\ x.ask <= y.ask /\ x.quantity >= y.quantity /\ x.expires >= y.expires
        /\ x.earliest <= y.earliest /\ x.latest >= y.latest
    BY DEF NoWorse
  <1>5. y.quantity >= i.quantity /\ y.ask <= i.ceiling /\ y.expires > market.now /\ Overlapping(y, i)
    BY DEF Eligible
  <1>6. /\ {x.quantity, x.ask, x.earliest, x.latest, x.expires} \subseteq Nat
        /\ {y.quantity, y.ask, y.earliest, y.latest, y.expires} \subseteq Nat
        /\ {i.quantity, i.ceiling, i.earliest, i.latest} \subseteq Nat
    BY DEF ListingIs, IntentIs
  <1>1. x.quantity >= i.quantity /\ x.ask <= i.ceiling /\ x.expires > market.now
    BY <1>0, <1>5, <1>6
  <1>2. \A n \in DOMAIN i.required : Certified(x, i.required[n])
    <2>1. ASSUME NEW cert, Certified(y, cert) PROVE Certified(x, cert)
      BY <2>1 DEF NoWorse, Carries, Certified
    <2> QED
      BY <2>1 DEF Eligible
  <1>3. Overlapping(x, i)
    BY <1>0, <1>5, <1>6 DEF Overlapping
  <1>4. CatalogFits(i, x) /\ i.expires > market.now
    BY DEF NoWorse, Eligible, CatalogFits
  <1> QED
    BY <1>1, <1>2, <1>3, <1>4 DEF Eligible

LEMMA PriceUp ==
  ASSUME NEW ceiling \in Nat, NEW a \in Nat, NEW b \in Nat, a <= b
  PROVE  PriceScore(ceiling, a) \in Nat /\ PriceScore(ceiling, b) \in Nat /\ PriceScore(ceiling, b) <= PriceScore(ceiling, a)
PROOF
  <1>1. CASE ceiling = 0
    BY <1>1 DEF PriceScore
  <1>2. CASE ceiling # 0
    <2> DEFINE left(k) == Max({0, ceiling - k})
               share(k) == (left(k) * 10000) \div ceiling
               capped(k) == Min({10000, share(k)})
    <2>1. left(a) \in Nat /\ left(b) \in Nat /\ left(b) <= left(a)
      BY OfTwo
    <2> HIDE DEF left
    <2>2. left(a) * 10000 \in Nat /\ left(b) * 10000 \in Nat /\ left(b) * 10000 <= left(a) * 10000
      BY <2>1
    <2>3. share(b) \in Nat /\ share(a) \in Nat /\ share(b) <= share(a)
      BY <1>2, <2>2, Rounded
    <2> HIDE DEF share
    <2>4. capped(a) \in Nat /\ capped(b) \in Nat /\ capped(b) <= capped(a)
      BY <2>3, Capped
    <2> HIDE DEF capped
    <2>5. capped(a) * 2500 \in Nat /\ capped(b) * 2500 \in Nat /\ capped(b) * 2500 <= capped(a) * 2500
      BY <2>4
    <2>6. /\ (capped(a) * 2500) \div 10000 \in Nat /\ (capped(b) * 2500) \div 10000 \in Nat
          /\ (capped(b) * 2500) \div 10000 <= (capped(a) * 2500) \div 10000
      BY <2>5, Rounded
    <2>7. \A k : PriceScore(ceiling, k) = (capped(k) * 2500) \div 10000
      BY <1>2 DEF PriceScore, capped, share, left
    <2> QED
      BY <2>6, <2>7
  <1> QED
    BY <1>1, <1>2

LEMMA TimingUp ==
  ASSUME NEW i, IntentIs(i), NEW x, ListingIs(x), NEW y, ListingIs(y), x.earliest <= y.earliest, x.latest >= y.latest
  PROVE  TimingScore(i, x) \in Nat /\ TimingScore(i, y) \in Nat /\ TimingScore(i, y) <= TimingScore(i, x)
PROOF
  <1> DEFINE end(l) == Min({l.latest, i.latest})
             start(l) == Max({l.earliest, i.earliest})
             overlap(l) == Overlap(i, l)
             window == Max({1, i.latest - i.earliest})
             share(l) == (overlap(l) * 2500) \div window
  <1>1. /\ x.latest \in Nat /\ y.latest \in Nat /\ x.earliest \in Nat /\ y.earliest \in Nat
        /\ i.latest \in Nat /\ i.earliest \in Nat
    BY DEF IntentIs, ListingIs
  <1>2. end(x) \in Nat /\ end(y) \in Nat /\ end(y) <= end(x)
    <2>1. {x.latest, i.latest} = {i.latest, x.latest} /\ {y.latest, i.latest} = {i.latest, y.latest}
      OBVIOUS
    <2> QED
      BY <1>1, <2>1, Capped
  <1>3. start(x) \in Nat /\ start(y) \in Nat /\ start(x) <= start(y)
    BY <1>1, OfTwo
  <1> HIDE DEF end, start
  <1>4. overlap(x) \in Nat /\ overlap(y) \in Nat /\ overlap(y) <= overlap(x)
    <2>1. end(x) - start(x) \in Int /\ end(y) - start(y) \in Int /\ end(y) - start(y) <= end(x) - start(x)
      BY <1>2, <1>3
    <2>2. overlap(x) = Max({0, end(x) - start(x)}) /\ overlap(y) = Max({0, end(y) - start(y)})
      BY DEF Overlap, end, start
    <2> HIDE DEF overlap
    <2> QED
      BY <2>1, <2>2, OfTwo
  <1>5. window \in Nat \ {0}
    BY <1>1, OfTwo
  <1> HIDE DEF overlap, window
  <1>6. overlap(x) * 2500 \in Nat /\ overlap(y) * 2500 \in Nat /\ overlap(y) * 2500 <= overlap(x) * 2500
    BY <1>4
  <1>7. share(x) \in Nat /\ share(y) \in Nat /\ share(y) <= share(x)
    BY <1>5, <1>6, Rounded
  <1> HIDE DEF share
  <1>8. TimingScore(i, x) = Min({2500, share(x)}) /\ TimingScore(i, y) = Min({2500, share(y)})
    BY DEF TimingScore, share, overlap, window
  <1>9. Min({2500, share(x)}) \in Nat /\ Min({2500, share(y)}) \in Nat /\ Min({2500, share(y)}) <= Min({2500, share(x)})
    BY <1>7, Capped
  <1> QED
    BY <1>8, <1>9

LEMMA ReputationUp ==
  ASSUME NEW a \in Nat, NEW b \in Nat, a <= b
  PROVE  ReputationScore(a) \in Nat /\ ReputationScore(b) \in Nat /\ ReputationScore(a) <= ReputationScore(b)
PROOF
  <1> DEFINE p == Min({a, 10000})
             q == Min({b, 10000})
  <1>1. p \in Nat /\ q \in Nat /\ p <= q
    <2>1. {a, 10000} = {10000, a} /\ {b, 10000} = {10000, b}
      OBVIOUS
    <2> QED
      BY <2>1, Capped
  <1> HIDE DEF p, q
  <1>2. p * 2500 \in Nat /\ q * 2500 \in Nat /\ p * 2500 <= q * 2500
    BY <1>1
  <1>3. (p * 2500) \div 10000 \in Nat /\ (q * 2500) \div 10000 \in Nat /\ (p * 2500) \div 10000 <= (q * 2500) \div 10000
    BY <1>2, Rounded
  <1> QED
    BY <1>3 DEF ReputationScore, p, q

LEMMA DepthUp ==
  ASSUME NEW i, IntentIs(i), NEW x, ListingIs(x), NEW y, ListingIs(y), x.catalog = y.catalog, Len(x.certs) >= Len(y.certs)
  PROVE  DepthScore(i, x) \in Nat /\ DepthScore(i, y) \in Nat /\ DepthScore(i, y) <= DepthScore(i, x)
PROOF
  <1> DEFINE bonus == IF i.catalog # NoCatalog /\ x.catalog = i.catalog THEN 1500 ELSE 0
             extra(l) == Max({0, Len(l.certs) - Len(i.required)})
             some(l) == Min({5, extra(l)})
  <1>1. Len(x.certs) \in Nat /\ Len(y.certs) \in Nat /\ Len(i.required) \in Nat
    BY DEF IntentIs, ListingIs
  <1>2. extra(x) \in Nat /\ extra(y) \in Nat /\ extra(y) <= extra(x)
    <2>1. ASSUME NEW a \in Nat, NEW b \in Nat, NEW c \in Nat, b <= a
          PROVE  /\ Max({0, a - c}) \in Nat /\ Max({0, b - c}) \in Nat
                 /\ Max({0, b - c}) <= Max({0, a - c})
      <3>1. /\ Max({0, a - c}) = IF 0 >= a - c THEN 0 ELSE a - c
            /\ Max({0, b - c}) = IF 0 >= b - c THEN 0 ELSE b - c
        BY <2>1, OfTwo
      <3> QED
        BY <2>1, <3>1
    <2> QED
      BY <1>1, <2>1
  <1> HIDE DEF extra
  <1>3. some(x) \in Nat /\ some(y) \in Nat /\ some(y) <= some(x)
    BY <1>2, Capped DEF some
  <1> HIDE DEF some
  <1>4. /\ bonus + some(x) * 200 \in Nat /\ bonus + some(y) * 200 \in Nat
        /\ bonus + some(y) * 200 <= bonus + some(x) * 200
    <2>1. bonus \in Nat
      OBVIOUS
    <2> HIDE DEF bonus
    <2> QED
      BY <1>3, <2>1
  <1>5. DepthScore(i, x) = Min({2500, bonus + some(x) * 200}) /\ DepthScore(i, y) = Min({2500, bonus + some(y) * 200})
    BY DEF DepthScore, some, extra
  <1> HIDE DEF bonus
  <1>6. ASSUME NEW a \in Nat, NEW b \in Nat, b <= a
        PROVE  Min({2500, a}) \in Nat /\ Min({2500, b}) \in Nat /\ Min({2500, b}) <= Min({2500, a})
    BY <1>6, Capped
  <1> QED
    BY <1>4, <1>5, <1>6

\* No score turns an advantage round.
LEMMA ScoreUp ==
  ASSUME market.now \in Nat, NEW i, IntentIs(i), NEW x, ListingIs(x), NEW y, ListingIs(y), NoWorse(x, y), Eligible(i, y)
  PROVE  Score(i, x) \in Nat /\ Score(i, y) \in Nat /\ Score(i, y) <= Score(i, x)
PROOF
  <1>1. Eligible(i, x)
    BY EligibleToo
  <1>2. i.ceiling \in Nat /\ x.ask \in Nat /\ y.ask \in Nat /\ x.ask <= y.ask
    BY DEF NoWorse, ListingIs, IntentIs
  <1> DEFINE rx == market.reputation[x.seller]
             ry == market.reputation[y.seller]
             px == PriceScore(i.ceiling, x.ask)
             py == PriceScore(i.ceiling, y.ask)
  <1>3. rx \in Nat /\ ry \in Nat /\ ry <= rx
    BY DEF NoWorse, ListingIs
  <1>4. px \in Nat /\ py \in Nat /\ py <= px
    BY <1>2, PriceUp
  <1>5. TimingScore(i, x) \in Nat /\ TimingScore(i, y) \in Nat /\ TimingScore(i, y) <= TimingScore(i, x)
    BY TimingUp DEF NoWorse
  <1>6. ReputationScore(rx) \in Nat /\ ReputationScore(ry) \in Nat /\ ReputationScore(ry) <= ReputationScore(rx)
    BY <1>3, ReputationUp
  <1>7. DepthScore(i, x) \in Nat /\ DepthScore(i, y) \in Nat /\ DepthScore(i, y) <= DepthScore(i, x)
    BY DepthUp DEF NoWorse
  <1>8. /\ Score(i, x) = px + TimingScore(i, x) + ReputationScore(rx) + DepthScore(i, x)
        /\ Score(i, y) = py + TimingScore(i, y) + ReputationScore(ry) + DepthScore(i, y)
    BY <1>1 DEF Score
  <1> HIDE DEF px, py, rx, ry
  <1> QED
    BY <1>4, <1>5, <1>6, <1>7, <1>8

-----------------------------------------------------------------------------
(* Matches: the ranking *)

\* Everything that was found, each before what is behind it.
Ranks(f, found, points) ==
  LET n == Cardinality(found)
  IN  /\ n \in Nat /\ f \in [1..n -> found]
      /\ \A a, b \in 1..n : a < b => Ahead(points, f[a], f[b])
      /\ \A k \in found : \E a \in 1..n : f[a] = k

\* A finite set of entries can be put in the order of their points, and of their places
\* where they tie: each stands behind as many as are ahead of it.
LEMMA RankedIs ==
  ASSUME NEW found, IsFiniteSet(found), found \subseteq Int, NEW points, \A k \in found : points[k] \in Int
  PROVE  Ranks(Ranked(found, points), found, points)
PROOF
  <1> DEFINE n == Cardinality(found)
             Leaders(k) == {m \in found : Ahead(points, m, k)}
             rank == [k \in found |-> Cardinality(Leaders(k)) + 1]
             InTurn(f) == \A a, b \in DOMAIN f : a < b => Ahead(points, f[a], f[b])
  <1>1. n \in Nat
    BY FS_CardinalityType
  <1>2. /\ \A k \in found : ~Ahead(points, k, k)
        /\ \A k, m \in found : k # m => Ahead(points, k, m) \/ Ahead(points, m, k)
        /\ \A k, l, m \in found : Ahead(points, k, l) /\ Ahead(points, l, m) => Ahead(points, k, m)
    BY DEF Ahead
  <1>3. ASSUME NEW k \in found
        PROVE  IsFiniteSet(Leaders(k)) /\ Cardinality(Leaders(k)) \in Nat /\ rank[k] \in 1..n
    <2>1. Leaders(k) \in SUBSET found /\ k \notin Leaders(k)
      BY <1>2
    <2>2. IsFiniteSet(Leaders(k)) /\ Cardinality(Leaders(k)) <= n /\ Cardinality(Leaders(k)) # n
      <3> HIDE DEF Leaders
      <3> QED
        BY <2>1, FS_Subset
    <2>3. Cardinality(Leaders(k)) \in Nat
      BY <2>2, FS_CardinalityType
    <2> HIDE DEF Leaders, n
    <2> QED
      BY <1>1, <2>2, <2>3 DEF rank
  <1>4. ASSUME NEW k \in found, NEW m \in found, Ahead(points, k, m) PROVE rank[k] < rank[m]
    <2>1. Leaders(k) \cup {k} \in SUBSET Leaders(m) /\ k \notin Leaders(k)
      BY <1>2, <1>4
    <2> HIDE DEF Leaders
    <2>2. Cardinality(Leaders(k) \cup {k}) = Cardinality(Leaders(k)) + 1
      BY <1>3, <2>1, FS_AddElement
    <2>3. Cardinality(Leaders(k) \cup {k}) <= Cardinality(Leaders(m))
      BY <1>3, <2>1, FS_Subset
    <2> QED
      BY <1>3, <2>2, <2>3 DEF rank
  <1> HIDE DEF Leaders
  <1>5. rank \in [found -> 1..n] /\ \A k, m \in found : rank[k] = rank[m] => k = m
    <2>1. rank \in [found -> 1..n]
      <3> DEFINE g == rank
      <3>1. \A k \in found : Cardinality(Leaders(k)) + 1 \in 1..n
        BY <1>3
      <3> QED
        BY <3>1
    <2>2. ASSUME NEW k \in found, NEW m \in found, rank[k] = rank[m], k # m PROVE FALSE
      <3>1. rank[k] < rank[m] \/ rank[m] < rank[k]
        BY <1>2, <1>4, <2>2
      <3>2. rank[k] \in Int /\ rank[m] \in Int
        BY <1>1, <1>3
      <3> QED
        BY <2>2, <3>1, <3>2
    <2> QED
      BY <2>1, <2>2
  <1> HIDE DEF rank
  <1>6. IsFiniteSet(1..n) /\ Cardinality(1..n) = n
    BY <1>1, FS_Interval
  <1>7. \A a \in 1..n : \E k \in found : rank[k] = a
    <2>1. rank \in Injection(found, 1..n)
      BY <1>5 DEF Injection, IsInjective
    <2>2. rank \in Surjection(found, 1..n)
      BY <1>6, <2>1, FS_Injection
    <2> QED
      BY <2>2 DEF Surjection
  <1> DEFINE g == [a \in 1..n |-> CHOOSE k \in found : rank[k] = a]
  <1>8. g \in [1..n -> found] /\ \A a \in 1..n : rank[g[a]] = a
    BY <1>7
  <1>9. InTurn(g)
    <2> HIDE DEF g
    <2> SUFFICES ASSUME NEW a \in 1..n, NEW b \in 1..n, a < b PROVE Ahead(points, g[a], g[b])
      BY <1>8
    <2>1. rank[g[a]] = a /\ rank[g[b]] = b /\ g[a] \in found /\ g[b] \in found
      BY <1>8
    <2>2. ~(rank[g[b]] < rank[g[a]]) /\ g[a] # g[b]
      BY <1>1, <2>1
    <2> QED
      BY <1>2, <1>4, <2>1, <2>2
  <1> DEFINE f == Ranked(found, points)
  <1>10. f \in [1..n -> found] /\ InTurn(f)
    <2> HIDE DEF g
    <2>1. \E h \in [1..n -> found] : InTurn(h)
      BY <1>8, <1>9
    <2>2. f = CHOOSE h \in [1..n -> found] : InTurn(h)
      BY DEF Ranked
    <2> HIDE DEF f, InTurn
    <2> QED
      BY <2>1, <2>2
  <1> HIDE DEF f, n
  <1>11. \A a, b \in 1..n : a < b => Ahead(points, f[a], f[b])
    BY <1>10
  <1>12. \A a, b \in 1..n : f[a] = f[b] => a = b
    <2> SUFFICES ASSUME NEW a \in 1..n, NEW b \in 1..n, f[a] = f[b], a # b PROVE FALSE
      OBVIOUS
    <2>1. a < b \/ b < a
      BY <1>1
    <2>2. f[a] \in found
      BY <1>10
    <2> QED
      BY <1>2, <1>11, <2>1, <2>2
  <1>13. f \in Injection(1..n, found)
    BY <1>10, <1>12 DEF Injection, IsInjective
  <1>14. f \in Surjection(1..n, found)
    BY <1>6, <1>13, FS_Injection DEF n
  <1>15. \A k \in found : \E a \in 1..n : f[a] = k
    BY <1>14 DEF Surjection
  <1> QED
    BY <1>1, <1>10, <1>11, <1>15 DEF Ranks, f, n

\* A ranking contains what was found and nothing else.
LEMMA RankedContains ==
  ASSUME NEW found, IsFiniteSet(found), found \subseteq Int, NEW points, \A k \in found : points[k] \in Int
  PROVE  \A k : Contains(Ranked(found, points), k) <=> k \in found
PROOF
  <1> DEFINE f == Ranked(found, points)
             n == Cardinality(found)
  <1>1. Ranks(f, found, points)
    BY RankedIs
  <1> HIDE DEF f
  <1>2. Len(f) = n /\ f \in [1..n -> found] /\ \A k \in found : \E a \in 1..n : f[a] = k
    BY <1>1 DEF Ranks
  <1> HIDE DEF n
  <1> QED
    BY <1>2 DEF Contains, f

\* Where an entry stands, and that more points stand first.
PlaceIn(f, k) == CHOOSE a \in DOMAIN f : f[a] = k

LEMMA RankedFirst ==
  ASSUME NEW found, IsFiniteSet(found), found \subseteq Int, NEW points, \A k \in found : points[k] \in Int,
         NEW x \in found, NEW y \in found, points[x] > points[y]
  PROVE  PlaceIn(Ranked(found, points), x) <= PlaceIn(Ranked(found, points), y)
PROOF
  <1> DEFINE f == Ranked(found, points)
             n == Cardinality(found)
             place(k) == CHOOSE a \in DOMAIN f : f[a] = k
  <1>0. Ranks(f, found, points)
    BY RankedIs
  <1> HIDE DEF f
  <1>1. /\ n \in Nat /\ f \in [1..n -> found] /\ \A k \in found : \E a \in 1..n : f[a] = k
        /\ \A a, b \in 1..n : a < b => Ahead(points, f[a], f[b])
    BY <1>0 DEF Ranks
  <1> HIDE DEF n
  <1>2. place(x) \in 1..n /\ f[place(x)] = x /\ place(y) \in 1..n /\ f[place(y)] = y
    BY <1>1
  <1>3. ASSUME place(y) < place(x) PROVE FALSE
    <2> HIDE DEF place
    <2>1. Ahead(points, y, x)
      BY <1>1, <1>2, <1>3
    <2>2. points[x] \in Int /\ points[y] \in Int
      OBVIOUS
    <2> QED
      BY <2>1, <2>2 DEF Ahead
  <1> HIDE DEF place
  <1>4. place(x) <= place(y)
    BY <1>1, <1>2, <1>3
  <1> QED
    BY <1>4 DEF place, f, PlaceIn

\* What a search finds.
Offered(i) ==
  {k \in DOMAIN market.listings : market.listings[k].status = "Active" /\ Eligible(market.intents[i], market.listings[k])}
Wanted(k) ==
  {i \in DOMAIN market.intents : market.intents[i].status = "Posted" /\ Eligible(market.intents[i], market.listings[k])}

LEMMA ScoreType ==
  ASSUME market.now \in Nat, NEW i, IntentIs(i), NEW x, ListingIs(x), Eligible(i, x)
  PROVE  Score(i, x) \in Int
PROOF
  <1>1. NoWorse(x, x)
    BY DEF NoWorse, Carries, ListingIs
  <1> QED
    BY <1>1, ScoreUp

LEMMA MarketRanks == MatchInit => BetterFoundFirst
PROOF
  <1> SUFFICES ASSUME MatchInit PROVE BetterFoundFirst
    OBVIOUS
  <1>1. /\ \A i \in DOMAIN market.intents : IntentIs(market.intents[i])
        /\ \A k \in DOMAIN market.listings : ListingIs(market.listings[k])
        /\ market.now \in Nat
    BY MarketIs
  <1>2. /\ \A i : IsFiniteSet(Offered(i)) /\ Offered(i) \subseteq Int
        /\ \A k : IsFiniteSet(Wanted(k)) /\ Wanted(k) \subseteq Int
    <2>1. PICK n \in Nat : DOMAIN market.intents = 1..n
      BY MarketIs
    <2>2. PICK m \in Nat : DOMAIN market.listings = 1..m
      BY MarketIs
    <2>3. IsFiniteSet(1..n) /\ IsFiniteSet(1..m)
      BY FS_Interval
    <2>4. \A i : Offered(i) \in SUBSET (1..m)
      BY <2>2 DEF Offered
    <2>5. \A k : Wanted(k) \in SUBSET (1..n)
      BY <2>1 DEF Wanted
    <2>6. \A i : Offered(i) \subseteq Int
      BY <2>4
    <2>7. \A k : Wanted(k) \subseteq Int
      BY <2>5
    <2> QED
      BY <2>3, <2>4, <2>5, <2>6, <2>7, FS_Subset
  <1> SUFFICES ASSUME NEW i \in DOMAIN market.intents, NEW x \in DOMAIN market.listings, NEW y \in DOMAIN market.listings,
                      market.listings[x].status = "Active", NoWorse(market.listings[x], market.listings[y]),
                      MatchesForIntent(i) # Panic, Contains(MatchesForIntent(i), y)
               PROVE  LET found == MatchesForIntent(i)
                          place(k) == CHOOSE n \in DOMAIN found : found[n] = k
                      IN  /\ Contains(found, x)
                          /\ \/ place(x) <= place(y)
                             \/ Score(market.intents[i], market.listings[x]) = Score(market.intents[i], market.listings[y])
                          /\ market.intents[i].status = "Posted" /\ MatchesForListing(x) # Panic =>
                               Contains(MatchesForListing(x), i)
    BY DEF BetterFoundFirst
  <1> DEFINE intent == market.intents[i]
             points == [k \in Offered(i) |-> Score(intent, market.listings[k])]
             back == [j \in Wanted(x) |-> Score(market.intents[j], market.listings[x])]
  <1>3. /\ MatchesForIntent(i) = Ranked(Offered(i), points)
        /\ MatchesForListing(x) # Panic => MatchesForListing(x) = Ranked(Wanted(x), back)
    BY DEF MatchesForIntent, MatchesForListing, Offered, Wanted
  <1>4. \A k \in Offered(i) : points[k] = Score(intent, market.listings[k]) /\ points[k] \in Int
    BY <1>1, ScoreType DEF Offered
  <1>5. \A j \in Wanted(x) : back[j] \in Int
    BY <1>1, ScoreType DEF Wanted
  <1> HIDE DEF points, back
  <1>6. y \in Offered(i)
    BY <1>2, <1>3, <1>4, RankedContains
  <1>7. Eligible(intent, market.listings[x])
    BY <1>1, <1>6, EligibleToo DEF Offered
  <1>8. x \in Offered(i) /\ Contains(MatchesForIntent(i), x)
    <2>1. x \in Offered(i)
      BY <1>7 DEF Offered
    <2> QED
      BY <1>2, <1>3, <1>4, <2>1, RankedContains
  <1>9. intent.status = "Posted" /\ MatchesForListing(x) # Panic => Contains(MatchesForListing(x), i)
    <2>1. intent.status = "Posted" => i \in Wanted(x)
      BY <1>7 DEF Wanted
    <2> QED
      BY <1>2, <1>3, <1>5, <2>1, RankedContains
  <1>10. points[x] > points[y] \/ points[x] = points[y]
    <2>1. /\ Score(intent, market.listings[x]) \in Nat /\ Score(intent, market.listings[y]) \in Nat
          /\ Score(intent, market.listings[y]) <= Score(intent, market.listings[x])
      BY <1>1, <1>6, ScoreUp DEF Offered
    <2> QED
      BY <1>4, <1>6, <1>8, <2>1
  <1>11. CASE points[x] = points[y]
    BY <1>4, <1>6, <1>8, <1>9, <1>11
  <1>12. CASE points[x] > points[y]
    <2>1. PlaceIn(MatchesForIntent(i), x) <= PlaceIn(MatchesForIntent(i), y)
      BY <1>2, <1>3, <1>4, <1>6, <1>8, <1>12, RankedFirst
    <2> QED
      BY <1>8, <1>9, <2>1 DEF PlaceIn
  <1> QED
    BY <1>10, <1>11, <1>12

\* In a market that stays as it is, whoever offers no less is found wherever the other is and
\* not behind it unless they tie, from the intent and, where it answers, from the listing: eligibility, the four
\* rounded and capped scores and the sort keep the order (check_listing_vs_intent,
\* compute_match_score, find_matches_for_intent, find_matches_for_listing).
THEOREM FairRanking == MatchInit /\ [][UNCHANGED market]_market => []BetterFoundFirst
PROOF
  <1>1. MatchInit /\ [UNCHANGED market]_market => MatchInit'
    BY DEF MatchInit
  <1> QED
    BY <1>1, MarketRanks, PTL
=============================================================================
