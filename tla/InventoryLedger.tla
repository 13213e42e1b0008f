-------------------------- MODULE InventoryLedger --------------------------
(***************************************************************************)
(* A company's stock ledger for one product, dtp/inventory@2: the reducer  *)
(* of sdk/src/profiles/inventory2.ts and what the host does around it when *)
(* it opens a ledger and appends a fact (sdk/src/v04/engine.ts).           *)
(*                                                                         *)
(* A fact is refused or takes effect as a whole.  Quantities are counted   *)
(* in base units, after the conversion of packs; all virtual locations are *)
(* Outside.  Whoever reports may repeat, reorder or withhold facts, and    *)
(* two of them may decide on the same revision.                            *)
(***************************************************************************)
EXTENDS Integers, FiniteSets, Sequences, FiniteSetsExt

CONSTANTS
  Position,       \* real positions: lot, location and status
  Available,      \* those with status "available"
  Outside,        \* "~supplier", "~customer", "~adjustment", "~production"
  ReservationId,
  Party,
  Serial,
  Source,         \* producers of observations
  Writer,         \* who reads the ledger and decides on facts
  Window,         \* OBSERVATION_WINDOW, 64
  MaxSequence,    \* bounds of the model: observations of a source,
  MaxQuantity,    \* the quantity of a leg or reservation,
  MaxParts,       \* and the legs and reservations of a fact
  None

ASSUME LedgerAssumption ==
  /\ Available \subseteq Position /\ Outside \notin Position
  /\ IsFiniteSet(ReservationId) /\ IsFiniteSet(Position)
  /\ Window \in Nat \ {0} /\ MaxSequence \in Nat /\ MaxQuantity \in Nat /\ MaxParts \in Nat
  /\ None \notin [position : Position, quantity : Nat, party : Party] /\ None \notin Nat

VARIABLES
  opened,      \* the ledger exists
  serialized,  \* the product's tracking is "serial"
  revision,
  stock,       \* what the positions hold and the reservations claim
  sources,     \* sources[s]: the high-water mark and the recent sequences
  facts,       \* the host's index: every observation that became a record
  balance,     \* history: what came in, less what went out, by those records
  drafts,      \* drafts[w]: the revision the writer last read
  outdated,    \* history: writers since whose reading a fact was recorded
  informed     \* history: whether no fact was an outdated writer's

vars == <<opened, serialized, revision, stock, sources, facts, balance, drafts, outdated, informed>>

\* A position that holds nothing is as good as absent.
EmptyStock == [onhand |-> [k \in Position |-> 0], held |-> [k \in Position |-> {}],
               claims |-> [r \in ReservationId |-> None]]
NoObservations == [s \in Source |-> [high_water |-> 0, recent |-> {}]]

Leg == [from : Position \cup {Outside}, to : Position \cup {Outside},
        quantity : 1..MaxQuantity, serials : {s \in SUBSET Serial : IsFiniteSet(s)}]
Operation == [kind : {"reserve", "release", "fulfill"}, id : ReservationId,
              position : Position, quantity : 1..MaxQuantity, party : Party]
Fact == UNION {UNION {[moves : [1..m -> Leg], reservations : [1..(k - m) -> Operation]] :
                        m \in 0..k} : k \in 1..MaxParts}

Init ==
  /\ opened = FALSE
  /\ serialized \in BOOLEAN
  /\ revision = 0
  /\ drafts = [w \in Writer |-> None] /\ outdated = {} /\ informed = TRUE
  /\ stock = EmptyStock
  /\ sources = NoObservations
  /\ facts = {}
  /\ balance = 0

-----------------------------------------------------------------------------
(* The parts of a fact.  Each is Refused or gives the next stock. *)

Refused == None

\* What each reservation claims at a position.
ClaimsOn(l, k) ==
  [r \in ReservationId |-> IF l.claims[r] # None /\ l.claims[r].position = k THEN l.claims[r].quantity ELSE 0]
Reserved(l, k) == SumFunctionOnSet(ClaimsOn(l, k), ReservationId)

UnreservedFault(l, k) == l.onhand[k]
Unreserved(l, k) == l.onhand[k] - Reserved(l, k)

\* Distinct serials, as many as the quantity; none for other products.
SerialsFit(leg) ==
  IF serialized THEN Cardinality(leg.serials) = leg.quantity ELSE leg.serials = {}

\* What leaves a real position is there; what enters the stock is not yet in it.
SerialsThere(l, leg) ==
  IF leg.from # Outside THEN leg.serials \subseteq l.held[leg.from]
  ELSE \A k \in Position : leg.serials \cap l.held[k] = {}

Move(l, leg) ==
  IF /\ leg.from # leg.to
     /\ SerialsFit(leg)
     /\ leg.from # Outside => Unreserved(l, leg.from) >= leg.quantity
     /\ SerialsThere(l, leg)
  THEN [l EXCEPT
         !.onhand = [k \in Position |-> @[k] - (IF k = leg.from THEN leg.quantity ELSE 0)
                                             + (IF k = leg.to THEN leg.quantity ELSE 0)],
         !.held = [k \in Position |-> (IF k = leg.from THEN @[k] \ leg.serials ELSE @[k])
                                      \cup (IF k = leg.to THEN leg.serials ELSE {})]]
  ELSE Refused

Reserve(l, op) ==
  LET claim == l.claims[op.id] IN
  IF /\ op.position \in Available
     /\ claim # None => claim.position = op.position
     /\ Unreserved(l, op.position) >= op.quantity
  THEN [l EXCEPT !.claims[op.id] =
          [position |-> op.position,
           quantity |-> op.quantity + (IF claim = None THEN 0 ELSE claim.quantity),
           party |-> IF claim = None THEN op.party ELSE claim.party]]
  ELSE Refused

Claimed(l, op) ==
  /\ l.claims[op.id] # None /\ l.claims[op.id].position = op.position
  /\ l.claims[op.id].quantity >= op.quantity

\* release and fulfill
Settle(l, op) ==
  LET claim == l.claims[op.id] IN
  IF /\ op.position \in Available
     /\ Claimed(l, op)
     /\ op.kind = "fulfill" => ~serialized /\ l.onhand[op.position] >= op.quantity
  THEN [l EXCEPT
         !.claims[op.id] = IF claim.quantity = op.quantity THEN None
                           ELSE [claim EXCEPT !.quantity = @ - op.quantity],
         !.onhand[op.position] = IF op.kind = "fulfill" THEN @ - op.quantity ELSE @]
  ELSE Refused

IsReserve(op) == op.kind = "reserve"

\* One part refused refuses the fact.
AfterPartFault(l, next) == IF next = Refused THEN l ELSE next
AfterPart(l, next) == next

\* Releases and fulfilments settle before any leg moves stock; reserves claim after the legs.  The reservations
\* are gone through twice.
Turns(fact) == 2 * Len(fact.reservations) + Len(fact.moves)
Turn(l, fact, i) ==
  LET n == Len(fact.reservations)
      m == Len(fact.moves)
  IN  IF i <= n THEN IF IsReserve(fact.reservations[i]) THEN l ELSE Settle(l, fact.reservations[i])
      ELSE IF i <= n + m THEN Move(l, fact.moves[i - n])
      ELSE IF IsReserve(fact.reservations[i - (n + m)]) THEN Reserve(l, fact.reservations[i - (n + m)]) ELSE l
Applied(l, fact) ==
  LET after[i \in 0..Turns(fact)] ==
        IF i = 0 THEN l
        ELSE LET before == after[i - 1]
             IN  IF before = Refused THEN Refused ELSE AfterPart(before, Turn(before, fact, i))
  IN  after[Turns(fact)]

-----------------------------------------------------------------------------
(* Observations *)

\* Neither known to the reducer nor too old to be told from a repetition.
FreshFault(s, n) == n > sources[s].high_water \/ n \notin sources[s].recent
Fresh(s, n) == \/ n > sources[s].high_water
               \/ n \notin sources[s].recent /\ n > sources[s].high_water - Window

Observed(s, n) ==
  LET mark == IF n > sources[s].high_water THEN n ELSE sources[s].high_water
  IN  [sources EXCEPT ![s] =
         [high_water |-> mark, recent |-> {m \in @.recent \cup {n} : m > mark - Window}]]

\* What the parts of a fact bring in, less what they take out.
In(fact) == [i \in DOMAIN fact.moves |-> IF fact.moves[i].from = Outside THEN fact.moves[i].quantity ELSE 0]
Out(fact) == [i \in DOMAIN fact.moves |-> IF fact.moves[i].to = Outside THEN fact.moves[i].quantity ELSE 0]
Gone(fact) == [i \in DOMAIN fact.reservations |->
                 IF fact.reservations[i].kind = "fulfill" THEN fact.reservations[i].quantity ELSE 0]
Net(fact) == SumFunctionOnSet(In(fact), DOMAIN fact.moves) - SumFunctionOnSet(Out(fact), DOMAIN fact.moves)
             - SumFunctionOnSet(Gone(fact), DOMAIN fact.reservations)

-----------------------------------------------------------------------------
(* Commands *)

\* inventory.open
Open ==
  /\ ~opened
  /\ opened' = TRUE
  /\ revision' = 0
  /\ stock' = EmptyStock
  /\ sources' = NoObservations
  /\ UNCHANGED <<serialized, facts, balance, drafts, outdated, informed>>

\* inventory.ledger: a writer reads the ledger, to decide on the next fact.
ReadLedger(w) ==
  /\ opened
  /\ drafts' = [drafts EXCEPT ![w] = revision]
  /\ outdated' = outdated \ {w}
  /\ UNCHANGED <<opened, serialized, revision, stock, sources, facts, balance, informed>>

NextRevision == revision + 1

\* A fact carries the revision its writer decided on.
CurrentFault(expected_revision) == expected_revision <= revision
Current(expected_revision) == expected_revision = revision

\* record.append of a fact.  A fact whose observation the index knows is answered
\* as a duplicate or a conflict and changes nothing.
AppendFact(w, fact, s, n) ==
  /\ opened /\ drafts[w] # None
  /\ <<s, n>> \notin facts
  /\ Fresh(s, n)
  /\ Current(drafts[w])
  /\ LET l == Applied(stock, fact) IN l # Refused /\ stock' = l
  /\ sources' = Observed(s, n)
  /\ revision' = NextRevision
  /\ facts' = facts \cup {<<s, n>>}
  /\ balance' = balance + Net(fact)
  /\ informed' = (informed /\ w \notin outdated)
  /\ outdated' = Writer
  /\ UNCHANGED <<opened, serialized, drafts>>

Next ==
  \/ Open
  \/ \E w \in Writer : ReadLedger(w)
  \/ \E w \in Writer, s \in Source, n \in 1..MaxSequence, fact \in Fact : AppendFact(w, fact, s, n)

Spec == Init /\ [][Next]_vars

-----------------------------------------------------------------------------
(* Properties *)

\* Types; what is on hand is never negative.
TypeOK ==
  /\ opened \in BOOLEAN /\ serialized \in BOOLEAN
  /\ revision \in Nat
  /\ stock.onhand \in [Position -> Nat]
  /\ stock.held \in [Position -> SUBSET Serial]
  /\ stock.claims \in [ReservationId ->
       [position : Available, quantity : Nat \ {0}, party : Party] \cup {None}]
  /\ sources \in [Source -> [high_water : Nat, recent : SUBSET (1..MaxSequence)]]
  /\ facts \subseteq Source \X (1..MaxSequence)
  /\ balance \in Int
  /\ drafts \in [Writer -> Nat \cup {None}] /\ outdated \subseteq Writer
  /\ informed \in BOOLEAN

\* Stock is never reserved twice, nor shipped while somebody has a claim on it,
\* however facts combine settlements, legs and claims (profile, rule 2).
NeverOversold == \A k \in Position : Reserved(stock, k) <= stock.onhand[k]

\* A serial is in one position at most, and the serials of a position are exactly
\* what it holds (profile, rule 4).
SerialsPlaced ==
  /\ \A j, k \in Position : j # k => stock.held[j] \cap stock.held[k] = {}
  /\ serialized => \A k \in Position : Cardinality(stock.held[k]) = stock.onhand[k]

\* Each observation of the index counted once and as a whole: the stock is what
\* the recorded facts brought in, less what they took out.
Balanced == SumFunctionOnSet(stock.onhand, Position) = balance

\* The reducer's bounded memory and the host's index agree: by itself the reducer
\* would take no recorded observation for a new one, and what it remembers was
\* recorded (profile, rule 5).
Remembered ==
  \A s \in Source :
    /\ \A n \in 1..MaxSequence : <<s, n>> \in facts => ~Fresh(s, n)
    /\ \A n \in sources[s].recent : <<s, n>> \in facts /\ n <= sources[s].high_water
    /\ Cardinality(sources[s].recent) <= Window

\* A fact takes effect on the ledger its writer decided on: once anybody has recorded
\* another since the writer read it, itself included, a fact with the revision it read
\* is refused, whichever facts were recorded and in whatever order (expected_revision).
DecidedOnCurrent == informed

\* What lies in the positions is what the recorded facts say, in quantity and
\* serial by serial, whatever part of a fact was refused.
StockAccounted == Balanced /\ SerialsPlaced
=============================================================================
