--------------------------- MODULE MCTradeContract ---------------------------
(***************************************************************************)
(* TradeContract for TLC.  The seeds are states the contract reaches, each *)
(* with the bounds that let one part of it run: the tables a seed bounds   *)
(* by what they already hold stay as they are.                             *)
(***************************************************************************)
EXTENDS TradeContract, TradeMatching, TLC

CONSTANTS Ann, Ben, Dtp, Organic, Basil

\* One intent and two listings; the second listing varies less than the first.
Cert(active, expires) == [type |-> Organic, active |-> active, expires |-> expires]
Windows == {<<0, 3>>, <<5, 6>>}
Intents == UNION {[quantity : {2}, ceiling : {0, 2, 4}, earliest : {w[1]}, latest : {w[2]}, catalog : {NoCatalog},
                   required : {<<>>, <<Organic>>}, expires : {1, 2}, status : {"Posted", "Cancelled"}] :
                  w \in {<<0, 4>>, <<3, 3>>}}
Listings(seller, certs, quantities) ==
  UNION {[seller : {seller}, quantity : quantities, ask : {0, 1, 3}, earliest : {w[1]}, latest : {w[2]},
          catalog : {NoCatalog}, certs : certs, expires : {1, 2}, status : {"Active", "Withdrawn"}] : w \in Windows}
Rivals == {l \in Listings(Ann, {<<>>}, {2}) : l.expires = 2 /\ l.status = "Active" /\ l.earliest = 0}
Markets ==
  [now : {1}, intents : {<<i>> : i \in Intents},
   listings : {<<x, y>> : x \in Listings(Ann, {<<>>, <<Cert(TRUE, 2)>>, <<Cert(TRUE, 1)>>, <<Cert(FALSE, 2)>>}, {1, 2}),
                          y \in Rivals},
   reputation : {Ann :> 10000 @@ Ben :> 5000}]
\* The same windows, and sellers that differ: reputation, catalog, repeated certificates, and
\* ceilings whose product still fits or does not.
Asked == [quantity : {1}, ceiling : {4, 5}, earliest : {0}, latest : {4}, catalog : {NoCatalog, Basil},
          required : {<<>>, <<Organic>>}, expires : {2}, status : {"Posted"}]
Offers(seller, certs) ==
  [seller : {seller}, quantity : {1}, ask : {0, 1}, earliest : {0}, latest : {3, 5}, catalog : {NoCatalog, Basil},
   certs : certs, expires : {2}, status : {"Active"}]
Pedigree == Cert(TRUE, 2)
Sellers ==
  [now : {1}, intents : {<<i>> : i \in Asked},
   listings : {<<x, y>> : x \in Offers(Ann, {<<>>, <<Pedigree>>, <<Pedigree, Pedigree>>}),
                          y \in Offers(Ben, {<<>>, <<Pedigree>>})},
   reputation : {Ann :> a @@ Ben :> b : a, b \in {5000, 10000}}]
QuietMarket == [now |-> 1, intents |-> <<>>, listings |-> <<>>, reputation |-> <<>>]
AllMarkets == Markets \cup Sellers \cup {QuietMarket}

Nobody == [completed |-> 0, disputed |-> 0, on_time |-> 0, agents |-> {}]
NoRoom == [catalogs |-> 0, versions |-> 1, lots |-> 0, ctes |-> 0, coas |-> 0, intents |-> 0,
           listings |-> 0, offers |-> 0, contracts |-> 0, settlements |-> 0, agreements |-> 0, agents |-> {},
           parties |-> 0, horizon |-> 0, amounts |-> {1, 2}, prices |-> {1}, extras |-> {0},
           arbitrators |-> {None}]
Empty == [parties |-> <<>>, catalogs |-> <<>>, lots |-> <<>>, intents |-> <<>>, listings |-> <<>>, limit |-> NoRoom]
Traders == [Empty EXCEPT !.parties = [a \in {Ann, Ben} |-> Nobody]]
Stocked == [Traders EXCEPT !.catalogs = <<[owner |-> Ann, version |-> 1]>>,
                           !.lots = <<NewLot(Ann, 1, 2, <<>>)>>]

\* Registration, agents, catalogs, lots, disposal and tracking events.
LotLife == [Empty EXCEPT !.limit = [NoRoom EXCEPT !.parties = 2, !.catalogs = 1, !.versions = 2, !.lots = 1,
                                       !.ctes = 1, !.coas = 1, !.agents = {<<Ann, Ben>>}]]
\* A lot that is transformed and sold.
Processing == [Stocked EXCEPT !.limit = [NoRoom EXCEPT !.lots = 3, !.ctes = 2, !.listings = 1, !.offers = 1,
                                       !.contracts = 1, !.settlements = 1, !.amounts = {0, 1}]]
\* Two contracts on one lot, listed by its owner and by the owner's agent.
TwoSales == [Stocked EXCEPT !.limit = [NoRoom EXCEPT !.listings = 2, !.offers = 2, !.contracts = 2,
                                       !.settlements = 2, !.agents = {<<Ann, Ben>>}]]
\* An intent with competing offers, and the dispute of what comes of it.
Dispute == [Traders EXCEPT !.limit = [NoRoom EXCEPT !.intents = 1, !.offers = 2, !.contracts = 1, !.horizon = 2,
                                       !.settlements = 3, !.amounts = {1}, !.prices = {1, 2}, !.extras = {0, 1},
                                       !.arbitrators = {None, Ann}]]
\* A sale and a standing agreement between the same two.
Partners == [Traders EXCEPT !.limit = [NoRoom EXCEPT !.intents = 1, !.offers = 1, !.contracts = 1, !.horizon = 1,
                                       !.settlements = 1, !.agreements = 1, !.amounts = {1}]]

AllSeeds == {Empty, LotLife, Processing, TwoSales, Dispute, Partners}

\* A run takes either a market and an idle contract, or a contract from its seeds.
MCInit == Init /\ MatchInit /\ (market = QuietMarket \/ limit = NoRoom)
MCNext == Next /\ UNCHANGED market
MCSpec == MCInit /\ [][MCNext]_<<vars, market>>
=============================================================================
