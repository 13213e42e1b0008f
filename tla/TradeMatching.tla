---------------------------- MODULE TradeMatching ----------------------------
(***************************************************************************)
(* Match discovery of the NEAR contract (contracts/src/matching.rs and the *)
(* find_matches views of lib.rs), as pure operators over one market: the   *)
(* posted intents, the listings and the time are chosen, nothing changes   *)
(* them.  Points are the code's own.  The build checks for overflow, so a  *)
(* product that does not fit its type panics and the search has no answer. *)
(***************************************************************************)
EXTENDS Integers, Sequences, FiniteSets, SequencesExt, FiniteSetsExt

CONSTANTS
  Market,     \* the markets looked at: [now, intents, listings, reputation]
  NoCatalog,  \* Option::None of a catalog entry
  MaxPrice,   \* u128::MAX, the largest price
  MaxTime,    \* u64::MAX, the last instant
  Panic       \* what a search that panics answers

\* Prices, quantities and times are unsigned, tables and lists of certifications finite.
ASSUME MarketAssumption ==
  \A m \in Market :
    /\ \A i \in DOMAIN m.intents :
          LET intent == m.intents[i]
          IN  /\ {intent.quantity, intent.ceiling, intent.earliest, intent.latest, intent.expires} \subseteq Nat
              /\ Len(intent.required) \in Nat
    /\ \A k \in DOMAIN m.listings :
          LET listing == m.listings[k]
          IN  /\ {listing.quantity, listing.ask, listing.earliest, listing.latest, listing.expires} \subseteq Nat
              /\ Len(listing.certs) \in Nat /\ m.reputation[listing.seller] \in Nat
    /\ m.now \in Nat
    /\ \A table \in {m.intents, m.listings} : Len(table) \in Nat /\ DOMAIN table = 1..Len(table)

VARIABLE market

MatchInit == market \in Market

\* A required certification the listing carries, active and not expired.
Certified(listing, cert) ==
  \E n \in DOMAIN listing.certs :
    /\ listing.certs[n].type = cert /\ listing.certs[n].active
    /\ listing.certs[n].expires > market.now

Overlapping(a, b) == ~(a.latest < b.earliest \/ a.earliest > b.latest)

\* An intent may name a catalog entry; a listing without a lot passes anyway.
CatalogFits(intent, listing) ==
  NoCatalog \in {intent.catalog, listing.catalog} \/ intent.catalog = listing.catalog

Eligible(intent, listing) ==
  /\ listing.quantity >= intent.quantity
  /\ \A n \in DOMAIN intent.required : Certified(listing, intent.required[n])
  /\ listing.ask <= intent.ceiling
  /\ Overlapping(listing, intent)
  /\ CatalogFits(intent, listing)
  /\ listing.expires > market.now /\ intent.expires > market.now

\* Fault: the share of the ceiling that is asked earns the points.
PriceScoreFault(ceiling, ask) ==
  IF ceiling = 0 THEN 2500 ELSE (Min({10000, (ask * 10000) \div ceiling}) * 2500) \div 10000
\* How far below the ceiling the price lies; nothing is earned at the ceiling.
PriceScore(ceiling, ask) ==
  IF ceiling = 0 THEN 2500
  ELSE (Min({10000, (Max({0, ceiling - ask}) * 10000) \div ceiling}) * 2500) \div 10000

Overlap(intent, listing) ==
  Max({0, Min({listing.latest, intent.latest}) - Max({listing.earliest, intent.earliest})})
TimingScore(intent, listing) ==
  Min({2500, (Overlap(intent, listing) * 2500) \div Max({1, intent.latest - intent.earliest})})

\* One of the two products does not fit.
Overflows(intent, listing) ==
  \/ intent.ceiling # 0 /\ Max({0, intent.ceiling - listing.ask}) * 10000 > MaxPrice
  \/ Overlap(intent, listing) * 2500 > MaxTime

ReputationScore(points) == (Min({points, 10000}) * 2500) \div 10000

\* The lists are counted as they were posted, repetitions included.
DepthScore(intent, listing) ==
  LET bonus == IF intent.catalog # NoCatalog /\ listing.catalog = intent.catalog THEN 1500 ELSE 0
      extra == Max({0, Len(listing.certs) - Len(intent.required)})
  IN Min({2500, bonus + Min({5, extra}) * 200})

Score(intent, listing) ==
  IF ~Eligible(intent, listing) THEN 0
  ELSE PriceScore(intent.ceiling, listing.ask) + TimingScore(intent, listing)
       + ReputationScore(market.reputation[listing.seller]) + DepthScore(intent, listing)

\* Entries with the higher score first; entries that tie keep the table's order.
Ahead(points, i, j) == points[i] > points[j] \/ (points[i] = points[j] /\ i < j)
Ranked(found, points) ==
  CHOOSE f \in [1..Cardinality(found) -> found] : \A a, b \in DOMAIN f : a < b => Ahead(points, f[a], f[b])

MatchesForIntent(i) ==
  LET intent == market.intents[i]
      found == {k \in DOMAIN market.listings :
                  market.listings[k].status = "Active" /\ Eligible(intent, market.listings[k])}
  IN IF \E k \in found : Overflows(intent, market.listings[k]) THEN Panic
     ELSE Ranked(found, [k \in found |-> Score(intent, market.listings[k])])

MatchesForListing(k) ==
  LET listing == market.listings[k]
      found == {i \in DOMAIN market.intents :
                  market.intents[i].status = "Posted" /\ Eligible(market.intents[i], listing)}
  IN IF \E i \in found : Overflows(market.intents[i], listing) THEN Panic
     ELSE Ranked(found, [i \in found |-> Score(market.intents[i], listing)])

-----------------------------------------------------------------------------

\* What x offers is as good as what y offers in every respect a buyer can see; of the
\* certifications, it has each of the other's and lists no fewer.
Carries(listing, cert) == \E n \in DOMAIN listing.certs : listing.certs[n] = cert
NoWorse(x, y) ==
  /\ x.ask <= y.ask /\ x.quantity >= y.quantity /\ x.expires >= y.expires /\ x.catalog = y.catalog
  /\ x.earliest <= y.earliest /\ x.latest >= y.latest
  /\ \A n \in DOMAIN y.certs : Carries(x, y.certs[n])
  /\ Len(x.certs) >= Len(y.certs) /\ market.reputation[x.seller] >= market.reputation[y.seller]

\* Whoever offers no less is found wherever a search finds the other, and not behind it unless they tie: no step
\* of the eligibility, of the four rounded and capped scores or of the sorting turns an advantage round, and a pair
\* found from the intent is found from the listing, if that search answers (check_listing_vs_intent, find_matches_for_*).
BetterFoundFirst ==
  \A i \in DOMAIN market.intents, x, y \in DOMAIN market.listings :
    LET intent == market.intents[i]
        better == market.listings[x]
        found == MatchesForIntent(i)
        place(k) == CHOOSE n \in DOMAIN found : found[n] = k
    IN  better.status = "Active" /\ NoWorse(better, market.listings[y]) /\ found # Panic /\ Contains(found, y) =>
          /\ Contains(found, x)
          /\ place(x) <= place(y) \/ Score(intent, better) = Score(intent, market.listings[y])
          /\ intent.status = "Posted" /\ MatchesForListing(x) # Panic => Contains(MatchesForListing(x), i)
=============================================================================
