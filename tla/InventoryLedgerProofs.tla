----------------------- MODULE InventoryLedgerProofs -----------------------
(***************************************************************************)
(* Theorems about InventoryLedger, for every set of positions, parties,    *)
(* serials and sources, every window and every size of facts: what the     *)
(* observations count for, and what a fact, part by part and as a whole,   *)
(* does to the stock.                                                      *)
(***************************************************************************)
EXTENDS InventoryLedger, SumTheorems, SequenceTheorems

\* The types of what decides whether a fact is taken; a ledger that was not opened
\* is untouched.
Bookkeeping ==
  /\ opened \in BOOLEAN
  /\ revision \in Nat
  /\ sources \in [Source -> [high_water : Nat, recent : SUBSET Nat]]
  /\ ~opened => (stock = EmptyStock /\ sources = NoObservations /\ facts = {})

\* Whoever was outdated by a fact holds an older revision; nobody reads a ledger that
\* does not exist.
Readings ==
  /\ drafts \in [Writer -> Nat \cup {None}] /\ outdated \subseteq Writer /\ informed = TRUE
  /\ \A w \in Writer : drafts[w] # None => /\ opened /\ drafts[w] <= revision
                                           /\ w \in outdated => drafts[w] < revision

\* What a source's memory is: the sequences of the index above the window's edge,
\* none beyond the mark.
Memory ==
  \A s \in Source :
    /\ \A n \in Nat : <<s, n>> \in facts =>
         n <= sources[s].high_water
         /\ (n \in sources[s].recent \/ n <= sources[s].high_water - Window)
    /\ \A n \in sources[s].recent :
         /\ <<s, n>> \in facts
         /\ n <= sources[s].high_water /\ n > sources[s].high_water - Window

IInv == Bookkeeping /\ Memory

LEMMA InvInit == Init => IInv
PROOF
  <1> SUFFICES ASSUME Init PROVE IInv
    OBVIOUS
  <1>1. sources \in [Source -> [high_water : Nat, recent : SUBSET Nat]]
    BY DEF Init, NoObservations
  <1>2. Bookkeeping
    BY <1>1 DEF Init, Bookkeeping
  <1>3. Memory
    BY DEF Init, Memory, NoObservations
  <1> QED
    BY <1>2, <1>3 DEF IInv

\* Every command preserves the bookkeeping.
LEMMA InvNext == IInv /\ [Next]_vars => IInv'
PROOF
  <1> SUFFICES ASSUME IInv, [Next]_vars PROVE IInv'
    OBVIOUS
  <1>1. CASE Open
    BY <1>1 DEF Open, IInv, Bookkeeping, Memory, NoObservations
  <1>2. ASSUME NEW fact, NEW s \in Source, NEW n \in 1..MaxSequence,
               NEW w \in Writer, AppendFact(w, fact, s, n)
        PROVE IInv'
    <2> DEFINE mark == IF n > sources[s].high_water THEN n ELSE sources[s].high_water
               kept == {m \in sources[s].recent \cup {n} : m > mark - Window}
    <2>1. /\ sources[s] \in [high_water : Nat, recent : SUBSET Nat]
          /\ n \in Nat /\ Window \in Nat \ {0}
      BY LedgerAssumption DEF IInv, Bookkeeping, LedgerAssumption
    <2>2. sources' = [sources EXCEPT ![s] = [high_water |-> mark, recent |-> kept]]
      BY <1>2 DEF AppendFact, Observed
    <2>3. mark \in Nat /\ kept \in SUBSET Nat
      BY <2>1
    <2>4. Bookkeeping'
      BY <1>2, <2>2, <2>3 DEF AppendFact, NextRevision, IInv, Bookkeeping
    <2>5. facts' = facts \cup {<<s, n>>}
      BY <1>2 DEF AppendFact
    <2>6. ASSUME NEW r \in Source, r # s
          PROVE sources'[r] = sources[r] /\ \A m : <<r, m>> \in facts' <=> <<r, m>> \in facts
      BY <2>2, <2>5, <2>6 DEF IInv, Bookkeeping
    <2>7. sources'[s].high_water = mark /\ sources'[s].recent = kept
      BY <2>2 DEF IInv, Bookkeeping
    <2>8. ASSUME NEW m \in Nat, <<s, m>> \in facts'
          PROVE m <= mark /\ (m \in kept \/ m <= mark - Window)
      <3>1. CASE m = n
        BY <3>1, <2>1, <2>3
      <3>2. CASE <<s, m>> \in facts
        <4>1. m <= sources[s].high_water
              /\ (m \in sources[s].recent \/ m <= sources[s].high_water - Window)
          BY <3>2 DEF IInv, Memory
        <4> QED
          BY <4>1, <2>1
      <3> QED
        BY <2>5, <2>8, <3>1, <3>2
    <2>9. ASSUME NEW m \in kept
          PROVE <<s, m>> \in facts' /\ m <= mark /\ m > mark - Window
      <3>1. CASE m = n
        BY <3>1, <2>1, <2>5
      <3>2. CASE m \in sources[s].recent
        <4>1. <<s, m>> \in facts /\ m <= sources[s].high_water /\ m \in Nat
          BY <3>2, <2>1 DEF IInv, Memory
        <4> QED
          BY <4>1, <2>1, <2>5
      <3> QED
        BY <3>1, <3>2
    <2>10. Memory'
      <3> SUFFICES ASSUME NEW r \in Source
                   PROVE /\ \A m \in Nat : <<r, m>> \in facts' =>
                              m <= sources'[r].high_water
                              /\ (m \in sources'[r].recent \/ m <= sources'[r].high_water - Window)
                         /\ \A m \in sources'[r].recent :
                              /\ <<r, m>> \in facts'
                              /\ m <= sources'[r].high_water
                              /\ m > sources'[r].high_water - Window
        BY DEF Memory
      <3>1. CASE r = s
        BY <3>1, <2>7, <2>8, <2>9
      <3>2. CASE r # s
        BY <3>2, <2>6 DEF IInv, Memory
      <3> QED
        BY <3>1, <3>2
    <2> QED
      BY <2>4, <2>10 DEF IInv
  <1>3. CASE UNCHANGED vars
    BY <1>3 DEF vars, IInv, Bookkeeping, Memory
  <1>4. ASSUME NEW w \in Writer, ReadLedger(w)
        PROVE IInv'
    BY <1>4 DEF ReadLedger, IInv, Bookkeeping, Memory
  <1> QED
    BY <1>1, <1>2, <1>3, <1>4 DEF Next

LEMMA Inductive == Spec => []IInv
PROOF
  <1> QED
    BY InvInit, InvNext, PTL DEF Spec

\* A window holds no more sequences than its width.
LEMMA WindowBounded ==
  ASSUME NEW mark \in Nat, NEW recent, recent \subseteq mark - Window + 1 .. mark
  PROVE  Cardinality(recent) <= Window
PROOF
  <1>1. Window \in Nat \ {0}
    BY LedgerAssumption DEF LedgerAssumption
  <1>2. /\ IsFiniteSet(mark - Window + 1 .. mark)
        /\ Cardinality(mark - Window + 1 .. mark) = Window
    BY <1>1, FS_Interval
  <1> QED
    BY <1>1, <1>2, FS_Subset

\* The reducer alone, with its bounded memory, would never count a recorded
\* observation again, however old, and remembers only what was recorded.
THEOREM CountedOnce == Spec => []Remembered
PROOF
  <1>1. IInv => Remembered
    <2> SUFFICES ASSUME IInv, NEW s \in Source
                 PROVE  /\ \A n \in 1..MaxSequence : <<s, n>> \in facts => ~Fresh(s, n)
                        /\ \A n \in sources[s].recent :
                             <<s, n>> \in facts /\ n <= sources[s].high_water
                        /\ Cardinality(sources[s].recent) <= Window
      BY DEF Remembered
    <2>1. /\ sources[s] \in [high_water : Nat, recent : SUBSET Nat]
          /\ Window \in Nat \ {0}
      BY LedgerAssumption DEF IInv, Bookkeeping, LedgerAssumption
    <2>2. ASSUME NEW n \in 1..MaxSequence, <<s, n>> \in facts PROVE ~Fresh(s, n)
      <3>1. n \in Nat
        BY LedgerAssumption DEF LedgerAssumption
      <3>2. n <= sources[s].high_water
            /\ (n \in sources[s].recent \/ n <= sources[s].high_water - Window)
        BY <2>2, <3>1 DEF IInv, Memory
      <3> QED
        BY <2>1, <3>1, <3>2 DEF Fresh
    <2>3. \A n \in sources[s].recent :
            /\ <<s, n>> \in facts /\ n <= sources[s].high_water
            /\ n > sources[s].high_water - Window
      BY DEF IInv, Memory
    <2>4. sources[s].recent \subseteq sources[s].high_water - Window + 1 .. sources[s].high_water
      <3>1. sources[s].high_water \in Nat /\ sources[s].recent \subseteq Nat
        BY <2>1
      <3>2. ASSUME NEW n \in sources[s].recent
            PROVE  n \in sources[s].high_water - Window + 1 .. sources[s].high_water
        <4>1. n \in Nat /\ n <= sources[s].high_water /\ n > sources[s].high_water - Window
          BY <2>3, <3>1
        <4> QED
          BY <4>1, <3>1, <2>1
      <3> QED
        BY <3>2
    <2>5. Cardinality(sources[s].recent) <= Window
      BY <2>1, <2>4, WindowBounded
    <2> QED
      BY <2>2, <2>3, <2>5
  <1> QED
    BY <1>1, Inductive, PTL

LEMMA ReadingsHold == Spec => []Readings
PROOF
  <1>1. Init => Readings
    BY DEF Init, Readings
  <1>2. IInv /\ Readings /\ [Next]_vars => Readings'
    <2> SUFFICES ASSUME IInv, Readings, [Next]_vars PROVE Readings'
      OBVIOUS
    <2>1. revision \in Nat /\ None \notin Nat
      BY LedgerAssumption DEF IInv, Bookkeeping, LedgerAssumption
    <2>2. CASE Open
      BY <2>2, <2>1 DEF Open, Readings
    <2>3. ASSUME NEW w \in Writer, ReadLedger(w) PROVE Readings'
      BY <2>3, <2>1 DEF ReadLedger, Readings
    <2>4. ASSUME NEW w \in Writer, NEW fact, NEW s, NEW n, AppendFact(w, fact, s, n)
          PROVE Readings'
      <3>1. drafts[w] = revision /\ w \notin outdated
        BY <2>4, <2>1 DEF AppendFact, Current, Readings
      <3>2. /\ revision' = revision + 1 /\ opened' = opened /\ opened /\ drafts' = drafts
            /\ outdated' = Writer /\ informed' = TRUE
        BY <2>4, <3>1 DEF AppendFact, NextRevision, Readings
      <3> QED
        BY <3>1, <3>2, <2>1 DEF Readings
    <2>5. CASE UNCHANGED vars
      BY <2>5 DEF vars, Readings
    <2> QED
      BY <2>2, <2>3, <2>4, <2>5 DEF Next
  <1> QED
    BY <1>1, <1>2, Inductive, PTL DEF Spec

\* Nobody overwrites what they have not seen: a fact takes effect only if no other was
\* recorded since its writer read the ledger (record.append, expected_revision).
THEOREM NoLostUpdate == Spec => []DecidedOnCurrent
PROOF
  <1>1. Readings => DecidedOnCurrent
    BY DEF Readings, DecidedOnCurrent
  <1> QED
    BY <1>1, ReadingsHold, PTL
-----------------------------------------------------------------------------
(* What one part does to the stock *)

Claim == [position : Available, quantity : Nat \ {0}, party : Party]
Total(l) == SumFunctionOnSet(l.onhand, Position)

\* A stock that may be kept: quantities, serials and claims fit each other.
StockType(l) ==
  /\ l \in [onhand : [Position -> Nat], held : [Position -> SUBSET Serial], claims : [ReservationId -> Claim \cup {None}]]
  /\ \A k \in Position : IsFiniteSet(l.held[k])
Covered(l) == \A k \in Position : Reserved(l, k) <= l.onhand[k]
Placed(l) ==
  /\ \A j, k \in Position : j # k => l.held[j] \cap l.held[k] = {}
  /\ serialized => \A k \in Position : Cardinality(l.held[k]) = l.onhand[k]
Sound(l) == StockType(l) /\ Covered(l) /\ Placed(l)

\* A sum one value of which changes.
LEMMA SumChange ==
  ASSUME NEW S, IsFiniteSet(S), NEW f, NEW g, NEW x \in S, \A y \in S : f[y] \in Nat /\ g[y] \in Nat,
         \A y \in S \ {x} : g[y] = f[y]
  PROVE  /\ SumFunctionOnSet(g, S) + f[x] = SumFunctionOnSet(f, S) + g[x]
         /\ SumFunctionOnSet(g, S) \in Nat /\ SumFunctionOnSet(f, S) \in Nat
PROOF
  <1>1. IsFiniteSet(S \ {x})
    BY FS_Subset
  <1>2. SumFunctionOnSet(f, S \ {x}) = SumFunctionOnSet(g, S \ {x})
    BY <1>1, SumEqual
  <1>3. SumFunctionOnSet(f, S) = f[x] + SumFunctionOnSet(f, S \ {x})
        /\ SumFunctionOnSet(g, S) = g[x] + SumFunctionOnSet(g, S \ {x})
    BY SumRemove
  <1>4. SumFunctionOnSet(f, S \ {x}) \in Nat /\ SumFunctionOnSet(f, S) \in Nat /\ SumFunctionOnSet(g, S) \in Nat
    BY <1>1, SumType
  <1> QED
    BY <1>2, <1>3, <1>4

LEMMA ClaimsType ==
  ASSUME NEW l, StockType(l), NEW k
  PROVE  /\ \A r \in ReservationId : ClaimsOn(l, k)[r] \in Nat
         /\ Reserved(l, k) \in Nat
PROOF
  <1>1. \A r \in ReservationId : l.claims[r] # None => l.claims[r].quantity \in Nat
    BY DEF StockType, Claim
  <1>2. \A r \in ReservationId : ClaimsOn(l, k)[r] \in Nat
    BY <1>1 DEF ClaimsOn
  <1> QED
    BY <1>2, SumType, LedgerAssumption DEF Reserved

\* What is claimed at the positions when one reservation changes.
LEMMA ClaimsChange ==
  ASSUME NEW l, StockType(l), NEW m, StockType(m), NEW r \in ReservationId, NEW k,
         \A x \in ReservationId \ {r} : m.claims[x] = l.claims[x]
  PROVE  Reserved(m, k) + ClaimsOn(l, k)[r] = Reserved(l, k) + ClaimsOn(m, k)[r]
PROOF
  <1> DEFINE f == ClaimsOn(l, k)
             g == ClaimsOn(m, k)
  <1>1. \A x \in ReservationId : f[x] \in Nat /\ g[x] \in Nat
    BY ClaimsType
  <1>2. \A x \in ReservationId \ {r} : g[x] = f[x]
    BY DEF ClaimsOn
  <1> HIDE DEF f, g
  <1>3. SumFunctionOnSet(g, ReservationId) + f[r] = SumFunctionOnSet(f, ReservationId) + g[r]
    BY <1>1, <1>2, SumChange, LedgerAssumption
  <1> QED
    BY <1>3 DEF Reserved, f, g

\* A release or a fulfilment.
LEMMA SettleKeeps ==
  ASSUME NEW l, Sound(l), NEW op \in Operation, op.kind # "reserve", Settle(l, op) # Refused
  PROVE  /\ Sound(Settle(l, op))
         /\ Total(l) \in Nat
         /\ Total(Settle(l, op)) = Total(l) - (IF op.kind = "fulfill" THEN op.quantity ELSE 0)
PROOF
  <1> DEFINE r == op.id
             p == op.position
             q == op.quantity
             claim == l.claims[r]
             left == IF claim.quantity = q THEN None ELSE [claim EXCEPT !.quantity = @ - q]
             there == IF op.kind = "fulfill" THEN l.onhand[p] - q ELSE l.onhand[p]
             m == [l EXCEPT !.claims[r] = left, !.onhand[p] = there]
  <1>1. r \in ReservationId /\ p \in Position /\ q \in Nat \ {0}
    BY LedgerAssumption DEF Operation
  <1>2. /\ p \in Available /\ Claimed(l, op)
        /\ op.kind = "fulfill" => ~serialized /\ l.onhand[p] >= q
        /\ Settle(l, op) = m
    BY DEF Settle
  <1>3. claim \in Claim /\ claim.position = p /\ claim.quantity >= q /\ claim.quantity \in Nat
    BY <1>1, <1>2 DEF Claimed, Sound, StockType, Claim
  <1>4. left \in Claim \cup {None} /\ (left # None => left.position = p /\ left.quantity = claim.quantity - q)
        /\ (left = None => claim.quantity = q)
    <2>1. CASE claim.quantity = q
      BY <2>1
    <2>2. CASE claim.quantity # q
      <3>1. claim.quantity - q \in Nat \ {0}
        BY <1>1, <1>3, <2>2
      <3> DEFINE less == [claim EXCEPT !.quantity = claim.quantity - q]
      <3>2. less \in Claim /\ less.position = p /\ less.quantity = claim.quantity - q
        BY <1>3, <3>1 DEF Claim
      <3>3. None \notin Claim
        BY LedgerAssumption DEF Claim
      <3>4. left = less
        BY <2>2
      <3> HIDE DEF less, left
      <3> QED
        BY <3>2, <3>3, <3>4
    <2> QED
      BY <2>1, <2>2
  <1>5. l.onhand[p] \in Nat /\ there \in Nat
    BY <1>1, <1>2 DEF Sound, StockType
  <1> HIDE DEF left, there
  <1>6. /\ m.onhand = [l.onhand EXCEPT ![p] = there] /\ m.held = l.held
        /\ m.claims = [l.claims EXCEPT ![r] = left] /\ StockType(m)
    BY <1>1, <1>4, <1>5 DEF Sound, StockType
  <1> HIDE DEF m
  <1>7. /\ m.onhand[p] = there /\ \A k \in Position \ {p} : m.onhand[k] = l.onhand[k]
        /\ m.claims[r] = left /\ \A x \in ReservationId \ {r} : m.claims[x] = l.claims[x]
    BY <1>1, <1>6 DEF Sound, StockType
  <1>8. Covered(m)
    <2> SUFFICES ASSUME NEW k \in Position PROVE Reserved(m, k) <= m.onhand[k]
      BY DEF Covered
    <2>1. Reserved(m, k) + ClaimsOn(l, k)[r] = Reserved(l, k) + ClaimsOn(m, k)[r]
      <3>1. StockType(l)
        BY DEF Sound
      <3>2. StockType(m) /\ r \in ReservationId /\ \A x \in ReservationId \ {r} : m.claims[x] = l.claims[x]
        BY <1>1, <1>6, <1>7
      <3> HIDE DEF r
      <3> QED
        BY <3>1, <3>2, ClaimsChange
    <2>2. Reserved(l, k) \in Nat /\ Reserved(m, k) \in Nat /\ Reserved(l, k) <= l.onhand[k] /\ l.onhand[k] \in Nat
      BY <1>6, ClaimsType DEF Sound, Covered, StockType
    <2>3. CASE k = p
      <3>1. ClaimsOn(l, k)[r] = claim.quantity
        BY <1>1, <1>2, <1>3, <2>3 DEF ClaimsOn, Claimed
      <3>2. ClaimsOn(m, k)[r] = claim.quantity - q
        BY <1>1, <1>3, <1>4, <1>7, <2>3 DEF ClaimsOn
      <3>3. Reserved(m, k) = Reserved(l, k) - q
        BY <1>1, <1>3, <2>1, <2>2, <3>1, <3>2
      <3>4. m.onhand[k] >= l.onhand[k] - q
        BY <1>1, <1>5, <1>7, <2>3 DEF there
      <3> QED
        BY <1>1, <1>5, <1>7, <2>2, <2>3, <3>3, <3>4
    <2>4. CASE k # p
      <3>1. ClaimsOn(l, k)[r] = 0 /\ ClaimsOn(m, k)[r] = 0
        BY <1>1, <1>3, <1>4, <1>7, <2>4 DEF ClaimsOn
      <3> QED
        BY <1>7, <2>1, <2>2, <2>4, <3>1
    <2> QED
      BY <2>3, <2>4
  <1>9. Placed(m)
    <2>1. serialized => m.onhand[p] = l.onhand[p]
      BY <1>2, <1>7 DEF there
    <2> QED
      BY <1>6, <1>7, <2>1 DEF Sound, Placed
  <1>10. Total(l) \in Nat /\ Total(m) = Total(l) - (IF op.kind = "fulfill" THEN q ELSE 0)
    <2>1. \A y \in Position : l.onhand[y] \in Nat /\ m.onhand[y] \in Nat
      BY <1>6 DEF Sound, StockType
    <2>2. SumFunctionOnSet(m.onhand, Position) + l.onhand[p] = SumFunctionOnSet(l.onhand, Position) + m.onhand[p]
          /\ SumFunctionOnSet(m.onhand, Position) \in Nat /\ SumFunctionOnSet(l.onhand, Position) \in Nat
      BY SMTT(30), <1>1, <1>7, <2>1, SumChange, LedgerAssumption
    <2> QED
      BY <1>1, <1>5, <1>7, <2>2 DEF Total, there
  <1> QED
    BY <1>2, <1>6, <1>8, <1>9, <1>10 DEF Sound

\* A claim.
LEMMA ReserveKeeps ==
  ASSUME NEW l, Sound(l), NEW op \in Operation, Reserve(l, op) # Refused
  PROVE  Sound(Reserve(l, op)) /\ Total(Reserve(l, op)) = Total(l)
PROOF
  <1> DEFINE r == op.id
             p == op.position
             q == op.quantity
             claim == l.claims[r]
             now == [position |-> p, quantity |-> q + (IF claim = None THEN 0 ELSE claim.quantity),
                     party |-> IF claim = None THEN op.party ELSE claim.party]
             m == [l EXCEPT !.claims[r] = now]
  <1>1. r \in ReservationId /\ p \in Position /\ q \in Nat \ {0} /\ op.party \in Party
    BY LedgerAssumption DEF Operation
  <1>2. /\ p \in Available /\ (claim # None => claim.position = p) /\ Unreserved(l, p) >= q
        /\ Reserve(l, op) = m
    BY DEF Reserve
  <1>3. claim \in Claim \cup {None} /\ (claim # None => claim.quantity \in Nat /\ claim.party \in Party)
    BY <1>1 DEF Sound, StockType, Claim
  <1>4. now \in Claim /\ now # None /\ now.position = p
        /\ now.quantity = q + (IF claim = None THEN 0 ELSE claim.quantity)
    <2>1. now \in Claim /\ now.position = p /\ now.quantity = q + (IF claim = None THEN 0 ELSE claim.quantity)
      BY <1>1, <1>2, <1>3 DEF Claim
    <2>2. None \notin Claim
      BY LedgerAssumption DEF Claim
    <2> QED
      BY <2>1, <2>2
  <1> HIDE DEF now
  <1>5. m.onhand = l.onhand /\ m.held = l.held /\ m.claims = [l.claims EXCEPT ![r] = now] /\ StockType(m)
    BY <1>1, <1>4 DEF Sound, StockType
  <1> HIDE DEF m
  <1>6. m.claims[r] = now /\ \A x \in ReservationId \ {r} : m.claims[x] = l.claims[x]
    BY <1>1, <1>5 DEF Sound, StockType
  <1>7. Covered(m)
    <2> SUFFICES ASSUME NEW k \in Position PROVE Reserved(m, k) <= m.onhand[k]
      BY DEF Covered
    <2>1. Reserved(m, k) + ClaimsOn(l, k)[r] = Reserved(l, k) + ClaimsOn(m, k)[r]
      <3>1. StockType(l)
        BY DEF Sound
      <3>2. StockType(m) /\ r \in ReservationId /\ \A x \in ReservationId \ {r} : m.claims[x] = l.claims[x]
        BY <1>1, <1>5, <1>6
      <3> HIDE DEF r
      <3> QED
        BY <3>1, <3>2, ClaimsChange
    <2>2. Reserved(l, k) \in Nat /\ Reserved(m, k) \in Nat /\ Reserved(l, k) <= l.onhand[k] /\ l.onhand[k] \in Nat
      BY <1>5, ClaimsType DEF Sound, Covered, StockType
    <2>3. CASE k = p
      <3>1. ClaimsOn(l, k)[r] = IF claim = None THEN 0 ELSE claim.quantity
        BY <1>1, <1>2, <2>3 DEF ClaimsOn
      <3>2. ClaimsOn(m, k)[r] = now.quantity
        BY <1>1, <1>4, <1>6, <2>3 DEF ClaimsOn
      <3>3. Reserved(m, k) = Reserved(l, k) + q
        BY <1>1, <1>3, <1>4, <2>1, <2>2, <3>1, <3>2
      <3> QED
        BY <1>1, <1>2, <1>5, <2>2, <2>3, <3>3 DEF Unreserved
    <2>4. CASE k # p
      <3>1. ClaimsOn(l, k)[r] = 0 /\ ClaimsOn(m, k)[r] = 0
        BY <1>1, <1>2, <1>4, <1>6, <2>4 DEF ClaimsOn
      <3> QED
        BY <1>5, <2>1, <2>2, <3>1
    <2> QED
      BY <2>3, <2>4
  <1> QED
    BY <1>2, <1>5, <1>7 DEF Sound, Placed, Total
\* A sum one value of which changes by d, if it is one of the sum's.
Shifted(g, f, S, x, d) ==
  \A y \in S : f[y] \in Nat /\ g[y] \in Nat /\ g[y] = f[y] + (IF y = x THEN d ELSE 0)
LEMMA SumShift ==
  ASSUME NEW S, IsFiniteSet(S), NEW f, NEW g, NEW x, NEW d \in Int, Shifted(g, f, S, x, d)
  PROVE  /\ SumFunctionOnSet(g, S) = SumFunctionOnSet(f, S) + (IF x \in S THEN d ELSE 0)
         /\ SumFunctionOnSet(g, S) \in Nat /\ SumFunctionOnSet(f, S) \in Nat
PROOF
  <1>0. \A y \in S : f[y] \in Nat /\ g[y] \in Nat /\ g[y] = f[y] + (IF y = x THEN d ELSE 0)
    BY DEF Shifted
  <1>1. CASE x \in S
    <2>1. \A y \in S \ {x} : g[y] = f[y]
      BY <1>0
    <2>2. g[x] = f[x] + d /\ f[x] \in Nat /\ g[x] \in Nat
      BY <1>0, <1>1
    <2>3. SumFunctionOnSet(g, S) + f[x] = SumFunctionOnSet(f, S) + g[x]
          /\ SumFunctionOnSet(g, S) \in Nat /\ SumFunctionOnSet(f, S) \in Nat
      BY <1>0, <1>1, <2>1, SumChange
    <2> QED
      BY <1>1, <2>2, <2>3
  <1>2. CASE x \notin S
    <2>1. \A y \in S : g[y] = f[y]
      BY <1>0, <1>2
    <2>2. SumFunctionOnSet(g, S) = SumFunctionOnSet(f, S)
      BY <2>1, SumEqual
    <2>3. SumFunctionOnSet(f, S) \in Nat
      BY <1>0, SumType
    <2> QED
      BY <1>2, <2>2, <2>3
  <1> QED
    BY <1>1, <1>2

\* A leg.
Moved(leg) == (IF leg.from = Outside THEN leg.quantity ELSE 0) - (IF leg.to = Outside THEN leg.quantity ELSE 0)
LEMMA MoveKeeps ==
  ASSUME NEW l, Sound(l), NEW leg \in Leg, serialized \in BOOLEAN, Move(l, leg) # Refused
  PROVE  Sound(Move(l, leg)) /\ Total(Move(l, leg)) = Total(l) + Moved(leg)
PROOF
  <1> DEFINE q == leg.quantity
             s == leg.serials
             hand == [k \in Position |-> l.onhand[k] - (IF k = leg.from THEN q ELSE 0) + (IF k = leg.to THEN q ELSE 0)]
             held == [k \in Position |-> (IF k = leg.from THEN l.held[k] \ s ELSE l.held[k])
                                         \cup (IF k = leg.to THEN s ELSE {})]
             m == [l EXCEPT !.onhand = hand, !.held = held]
  <1>1. /\ leg.from \in Position \cup {Outside} /\ leg.to \in Position \cup {Outside} /\ q \in Nat
        /\ s \subseteq Serial /\ IsFiniteSet(s) /\ Outside \notin Position
    BY LedgerAssumption DEF Leg
  <1>2. /\ leg.from # leg.to /\ SerialsFit(leg) /\ SerialsThere(l, leg)
        /\ leg.from # Outside => Unreserved(l, leg.from) >= q
        /\ Move(l, leg) = m
    BY DEF Move
  <1>3. l.onhand \in [Position -> Nat] /\ l.held \in [Position -> SUBSET Serial] /\ \A k \in Position : IsFiniteSet(l.held[k])
    BY DEF Sound, StockType
  <1>4. \A k \in Position : Reserved(l, k) \in Nat /\ Reserved(l, k) <= l.onhand[k]
    BY ClaimsType DEF Sound, Covered
  <1>5. ASSUME NEW k \in Position PROVE hand[k] \in Nat /\ Reserved(l, k) <= hand[k]
    <2>1. k = leg.from => l.onhand[k] - Reserved(l, k) >= q
      BY <1>1, <1>2 DEF Unreserved
    <2>2. hand[k] = l.onhand[k] - (IF k = leg.from THEN q ELSE 0) + (IF k = leg.to THEN q ELSE 0)
      OBVIOUS
    <2>3. l.onhand[k] \in Nat /\ Reserved(l, k) \in Nat /\ Reserved(l, k) <= l.onhand[k]
      BY <1>3, <1>4
    <2> HIDE DEF hand
    <2>4. CASE k = leg.from
      BY <1>1, <1>2, <2>1, <2>2, <2>3, <2>4
    <2>5. CASE k # leg.from
      BY <1>1, <2>2, <2>3, <2>5
    <2> QED
      BY <2>4, <2>5
  <1>6. ASSUME NEW k \in Position PROVE held[k] \subseteq Serial /\ IsFiniteSet(held[k])
    <2>1. IsFiniteSet(l.held[k]) /\ l.held[k] \subseteq Serial
      BY <1>3
    <2>2. IsFiniteSet(l.held[k] \cup s) /\ held[k] \subseteq l.held[k] \cup s
      BY <1>1, <2>1, FS_Union
    <2> QED
      BY <1>1, <2>1, <2>2, FS_Subset
  <1>7. hand \in [Position -> Nat] /\ held \in [Position -> SUBSET Serial]
    BY <1>5, <1>6
  <1>8. m.onhand = hand /\ m.held = held /\ m.claims = l.claims /\ StockType(m)
    BY <1>3, <1>6, <1>7 DEF Sound, StockType
  <1>9. Covered(m)
    <2>1. \A k \in Position : ClaimsOn(m, k) = ClaimsOn(l, k)
      BY <1>8 DEF ClaimsOn
    <2>2. \A k \in Position : Reserved(m, k) = Reserved(l, k)
      BY <2>1 DEF Reserved
    <2> HIDE DEF hand, held, m
    <2> QED
      BY <1>5, <1>8, <2>2 DEF Covered
  <1>10. /\ leg.from \in Position => s \subseteq l.held[leg.from]
         /\ leg.from \notin Position => \A k \in Position : s \cap l.held[k] = {}
         /\ \A j, k \in Position : j # k => l.held[j] \cap l.held[k] = {}
    BY <1>1, <1>2 DEF SerialsThere, Sound, Placed
  <1>11. \A k \in Position : k # leg.from => s \cap l.held[k] = {}
    BY <1>1, <1>10
  <1>12. \A j, k \in Position : j # k => held[j] \cap held[k] = {}
    <2> SUFFICES ASSUME NEW j \in Position, NEW k \in Position, j # k, NEW x \in held[j] \cap held[k] PROVE FALSE
      OBVIOUS
    <2>1. (x \in l.held[j] /\ (j = leg.from => x \notin s)) \/ (j = leg.to /\ x \in s)
      OBVIOUS
    <2>2. (x \in l.held[k] /\ (k = leg.from => x \notin s)) \/ (k = leg.to /\ x \in s)
      OBVIOUS
    <2> HIDE DEF held
    <2> QED
      BY <1>10, <1>11, <2>1, <2>2
  <1>13. ASSUME serialized, NEW k \in Position PROVE Cardinality(held[k]) = hand[k]
    <2>1. Cardinality(s) = q /\ Cardinality(l.held[k]) = l.onhand[k] /\ IsFiniteSet(l.held[k]) /\ l.onhand[k] \in Nat
      BY <1>2, <1>3, <1>13 DEF SerialsFit, Sound, Placed
    <2>2. CASE k = leg.from
      <3>1. held[k] = l.held[k] \ s /\ hand[k] = l.onhand[k] - q
        BY <1>1, <1>2, <1>3, <2>2
      <3>2. l.held[k] \cap s = s
        BY <1>10, <2>2
      <3>3. Cardinality(l.held[k] \ s) = Cardinality(l.held[k]) - Cardinality(l.held[k] \cap s)
        BY <2>1, FS_Difference
      <3> QED
        BY <2>1, <3>1, <3>2, <3>3
    <2>3. CASE k = leg.to
      <3>1. held[k] = l.held[k] \cup s /\ hand[k] = l.onhand[k] + q
        BY <1>1, <1>2, <1>3, <2>3
      <3>2. l.held[k] \cap s = {}
        BY <1>2, <1>11, <2>3
      <3>3. Cardinality(l.held[k] \cup s) = Cardinality(l.held[k]) + Cardinality(s) - Cardinality(l.held[k] \cap s)
        BY <1>1, <2>1, FS_Union
      <3>4. Cardinality({}) = 0
        BY FS_EmptySet
      <3>5. Cardinality(l.held[k] \cap s) = 0
        BY <3>2, <3>4
      <3>6. q \in Nat
        BY <1>1
      <3> HIDE DEF hand, held, q, s
      <3> QED
        BY <2>1, <3>1, <3>3, <3>5, <3>6
    <2>4. CASE k # leg.from /\ k # leg.to
      BY <1>1, <1>3, <2>1, <2>4
    <2> QED
      BY <2>2, <2>3, <2>4
  <1>14. Placed(m)
    <2> HIDE DEF hand, held, m
    <2> QED
      BY <1>8, <1>12, <1>13 DEF Placed
  <1>15. Total(m) = Total(l) + Moved(leg)
    <2> DEFINE mid == [k \in Position |-> l.onhand[k] + (IF k = leg.from THEN 0 - q ELSE 0)]
    <2>1. \A k \in Position : mid[k] \in Nat /\ l.onhand[k] \in Nat /\ mid[k] = l.onhand[k] + (IF k = leg.from THEN 0 - q ELSE 0)
      <3> SUFFICES ASSUME NEW k \in Position PROVE l.onhand[k] + (IF k = leg.from THEN 0 - q ELSE 0) \in Nat
        BY <1>3
      <3>1. k = leg.from => l.onhand[k] - Reserved(l, k) >= q
        BY <1>1, <1>2 DEF Unreserved
      <3> QED
        BY <1>1, <1>3, <1>4, <3>1
    <2>2. \A k \in Position : hand[k] \in Nat /\ hand[k] = mid[k] + (IF k = leg.to THEN q ELSE 0)
      <3> SUFFICES ASSUME NEW k \in Position PROVE hand[k] \in Nat /\ hand[k] = mid[k] + (IF k = leg.to THEN q ELSE 0)
        OBVIOUS
      <3>1. l.onhand[k] \in Nat /\ hand[k] \in Nat
        BY <1>3, <1>5
      <3> QED
        BY <1>1, <3>1
    <2> HIDE DEF hand, mid, m
    <2>3. IsFiniteSet(Position) /\ q \in Int /\ 0 - q \in Int
      BY <1>1, LedgerAssumption
    <2>4. SumFunctionOnSet(mid, Position) = SumFunctionOnSet(l.onhand, Position) + (IF leg.from \in Position THEN 0 - q ELSE 0)
          /\ SumFunctionOnSet(l.onhand, Position) \in Nat
      <3> DEFINE x == leg.from
                 d == 0 - q
      <3>1. Shifted(mid, l.onhand, Position, x, d)
        BY <2>1 DEF Shifted
      <3>3. d \in Int
        BY <2>3
      <3> HIDE DEF x, d
      <3>4. SumFunctionOnSet(mid, Position) = SumFunctionOnSet(l.onhand, Position) + (IF x \in Position THEN d ELSE 0)
            /\ SumFunctionOnSet(l.onhand, Position) \in Nat
        BY <2>3, <3>1, <3>3, SumShift
      <3> QED
        BY <3>4 DEF x, d
    <2>5. SumFunctionOnSet(hand, Position) = SumFunctionOnSet(mid, Position) + (IF leg.to \in Position THEN q ELSE 0)
      <3> DEFINE x == leg.to
                 d == q
      <3>1. Shifted(hand, mid, Position, x, d)
        BY <2>1, <2>2 DEF Shifted
      <3>3. d \in Int
        BY <2>3
      <3> HIDE DEF x, d
      <3>4. SumFunctionOnSet(hand, Position) = SumFunctionOnSet(mid, Position) + (IF x \in Position THEN d ELSE 0)
        BY <2>3, <3>1, <3>3, SumShift
      <3> QED
        BY <3>4 DEF x, d
    <2> QED
      BY <1>1, <1>2, <1>8, <2>4, <2>5 DEF Total, Moved
  <1> QED
    BY <1>2, <1>8, <1>9, <1>14, <1>15 DEF Sound
-----------------------------------------------------------------------------
(* What a fact does as a whole *)

LEMMA FactParts ==
  ASSUME NEW fact \in Fact
  PROVE  /\ Len(fact.moves) \in Nat /\ fact.moves \in [1..Len(fact.moves) -> Leg]
         /\ Len(fact.reservations) \in Nat /\ fact.reservations \in [1..Len(fact.reservations) -> Operation]
PROOF
  <1>0. PICK k \in 1..MaxParts : \E m \in 0..k :
          fact \in [moves : [1..m -> Leg], reservations : [1..(k - m) -> Operation]]
    BY DEF Fact
  <1>1. PICK m \in 0..k : fact \in [moves : [1..m -> Leg], reservations : [1..(k - m) -> Operation]]
    BY <1>0
  <1>2. k \in Nat /\ m \in Nat /\ k - m \in Nat
    BY <1>1, LedgerAssumption
  <1>3. fact.moves \in [1..m -> Leg] /\ fact.reservations \in [1..(k - m) -> Operation]
    BY <1>1
  <1>4. fact.moves \in Seq(Leg) /\ fact.reservations \in Seq(Operation)
    BY <1>2, <1>3, SeqDef
  <1> QED
    BY <1>4

\* The stock after each turn, as a function: Applied is its last value.
Progress(f, l, fact, n) ==
  f = [i \in 0..n |->
         IF i = 0 THEN l
         ELSE LET before == f[i - 1]
              IN  IF before = Refused THEN Refused ELSE AfterPart(before, Turn(before, fact, i))]

LEMMA ProgressExists ==
  ASSUME NEW l, NEW fact, NEW n \in Nat
  PROVE  \E f : Progress(f, l, fact, n)
PROOF
  <1> DEFINE B == {k \in Nat : ~\E f : Progress(f, l, fact, k)}
  <1> SUFFICES ASSUME B # {} PROVE FALSE
    OBVIOUS
  <1>1. PICK k \in B : \A j \in B : k <= j
    <2> HIDE DEF B
    <2>1. B \in SUBSET Nat
      BY DEF B
    <2> QED
      BY <2>1, LeastNumber
  <1>2. CASE k = 0
    <2>1. Progress([i \in 0..0 |-> l], l, fact, 0)
      BY DEF Progress
    <2> QED
      BY <1>1, <1>2, <2>1
  <1>3. CASE k # 0
    <2>1. k - 1 \in Nat /\ k \in Nat /\ ~(k <= k - 1)
      BY <1>1, <1>3
    <2>2. PICK g : Progress(g, l, fact, k - 1)
      BY <1>1, <2>1
    <2> DEFINE after(b) == IF b = Refused THEN Refused ELSE AfterPart(b, Turn(b, fact, k))
               f == [i \in 0..k |-> IF i = k THEN after(g[k - 1]) ELSE g[i]]
    <2>3. \A i \in 0..(k - 1) : f[i] = g[i]
      BY <2>1
    <2>4. f[k] = after(f[k - 1])
      BY <2>1, <2>3
    <2>5. \A i \in 0..(k - 1) :
            f[i] = IF i = 0 THEN l
                   ELSE IF f[i - 1] = Refused THEN Refused ELSE AfterPart(f[i - 1], Turn(f[i - 1], fact, i))
      <3> SUFFICES ASSUME NEW i \in 0..(k - 1)
                   PROVE  g[i] = IF i = 0 THEN l
                                 ELSE IF g[i - 1] = Refused THEN Refused ELSE AfterPart(g[i - 1], Turn(g[i - 1], fact, i))
        BY <2>1, <2>3
      <3> QED
        BY <2>2 DEF Progress
    <2>6. \A i \in 0..k :
            f[i] = IF i = 0 THEN l
                   ELSE IF f[i - 1] = Refused THEN Refused ELSE AfterPart(f[i - 1], Turn(f[i - 1], fact, i))
      <3> DEFINE step(i) == IF i = 0 THEN l
                            ELSE IF f[i - 1] = Refused THEN Refused ELSE AfterPart(f[i - 1], Turn(f[i - 1], fact, i))
      <3>1. f[k] = step(k)
        BY <1>3, <2>4
      <3>2. \A i \in 0..(k - 1) : f[i] = step(i)
        BY <2>5
      <3>3. \A i \in 0..k : i = k \/ i \in 0..(k - 1)
        BY <2>1
      <3> HIDE DEF step, f
      <3>4. \A i \in 0..k : f[i] = step(i)
        BY <3>1, <3>2, <3>3
      <3> QED
        BY <3>4 DEF step
    <2>7. f = [i \in 0..k |-> f[i]]
      OBVIOUS
    <2> HIDE DEF f
    <2>8. Progress(f, l, fact, k)
      BY <2>6, <2>7 DEF Progress
    <2> QED
      BY <1>1, <2>8
  <1> QED
    BY <1>2, <1>3

\* What the legs and fulfilments of the first turns bring in, less what they take out.
Brought(fact, i) ==
  LET n == Len(fact.reservations)
      m == Len(fact.moves)
      a == IF i <= n THEN 0 ELSE IF i <= n + m THEN i - n ELSE m
      b == IF i <= n THEN i ELSE n
  IN  SumFunctionOnSet(In(fact), 1..a) - SumFunctionOnSet(Out(fact), 1..a) - SumFunctionOnSet(Gone(fact), 1..b)

LEMMA Quantities ==
  ASSUME NEW fact \in Fact
  PROVE  /\ \A i \in 1..Len(fact.moves) : In(fact)[i] \in Nat /\ Out(fact)[i] \in Nat
              /\ In(fact)[i] - Out(fact)[i] = Moved(fact.moves[i])
         /\ \A i \in 1..Len(fact.reservations) :
              Gone(fact)[i] = IF fact.reservations[i].kind = "fulfill" THEN fact.reservations[i].quantity ELSE 0
         /\ \A i \in 1..Len(fact.reservations) : Gone(fact)[i] \in Nat
PROOF
  <1>1. /\ \A i \in 1..Len(fact.moves) : fact.moves[i] \in Leg
        /\ \A i \in 1..Len(fact.reservations) : fact.reservations[i] \in Operation
        /\ DOMAIN fact.moves = 1..Len(fact.moves) /\ DOMAIN fact.reservations = 1..Len(fact.reservations)
    BY FactParts
  <1>2. /\ \A leg \in Leg : leg.quantity \in Nat
        /\ \A op \in Operation : op.quantity \in Nat
    BY LedgerAssumption DEF Leg, Operation
  <1>3. \A i \in 1..Len(fact.moves) : In(fact)[i] \in Nat /\ Out(fact)[i] \in Nat
                                      /\ In(fact)[i] - Out(fact)[i] = Moved(fact.moves[i])
    BY <1>1, <1>2 DEF In, Out, Moved
  <1>4. \A i \in 1..Len(fact.reservations) :
          Gone(fact)[i] = IF fact.reservations[i].kind = "fulfill" THEN fact.reservations[i].quantity ELSE 0
    BY <1>1 DEF Gone
  <1>5. \A i \in 1..Len(fact.reservations) : Gone(fact)[i] \in Nat
    BY <1>1, <1>2, <1>4
  <1> QED
    BY <1>3, <1>4, <1>5

\* One more value in the sum of the first ones.
LEMMA SumUpTo ==
  ASSUME NEW n \in Nat, NEW f, \A i \in 1..n : f[i] \in Nat, NEW a \in 1..n
  PROVE  /\ SumFunctionOnSet(f, 1..a) = SumFunctionOnSet(f, 1..(a - 1)) + f[a]
         /\ SumFunctionOnSet(f, 1..a) \in Nat /\ SumFunctionOnSet(f, 1..(a - 1)) \in Nat
PROOF
  <1>1. 1..a = (1..(a - 1)) \cup {a} /\ a \notin 1..(a - 1)
    OBVIOUS
  <1>2. IsFiniteSet(1..(a - 1)) /\ IsFiniteSet(1..a)
    BY FS_Interval
  <1>3. (\A i \in 1..a : f[i] \in Nat) /\ \A i \in 1..(a - 1) : f[i] \in Nat
    OBVIOUS
  <1>4. \A i \in (1..(a - 1)) \cup {a} : f[i] \in Nat
    BY <1>1, <1>3
  <1>5. SumFunctionOnSet(f, (1..(a - 1)) \cup {a}) = SumFunctionOnSet(f, 1..(a - 1)) + f[a]
    BY <1>1, <1>2, <1>4, SumAdd
  <1>6. SumFunctionOnSet(f, 1..a) \in Nat /\ SumFunctionOnSet(f, 1..(a - 1)) \in Nat
    BY <1>2, <1>3, SumType
  <1> QED
    BY <1>1, <1>5, <1>6

Gain(fact, i) ==
  LET n == Len(fact.reservations)
      m == Len(fact.moves)
  IN  IF i <= n THEN 0 - Gone(fact)[i] ELSE IF i <= n + m THEN Moved(fact.moves[i - n]) ELSE 0

LEMMA BroughtStep ==
  ASSUME NEW fact \in Fact, NEW i \in 1..Turns(fact)
  PROVE  Brought(fact, i) = Brought(fact, i - 1) + Gain(fact, i) /\ Brought(fact, i - 1) \in Int
PROOF
  <1> DEFINE n == Len(fact.reservations)
             m == Len(fact.moves)
             I(a) == SumFunctionOnSet(In(fact), 1..a)
             O(a) == SumFunctionOnSet(Out(fact), 1..a)
             G(b) == SumFunctionOnSet(Gone(fact), 1..b)
  <1>1. n \in Nat /\ m \in Nat /\ i \in 1..(2 * n + m)
    BY FactParts DEF Turns
  <1>a. /\ \A a \in 1..m : /\ In(fact)[a] \in Nat /\ Out(fact)[a] \in Nat
                          /\ In(fact)[a] - Out(fact)[a] = Moved(fact.moves[a])
        /\ \A b \in 1..n : Gone(fact)[b] \in Nat
    BY Quantities
  <1>2. \A a \in 0..m : I(a) \in Nat /\ O(a) \in Nat
    <2>1. \A a \in 0..m : IsFiniteSet(1..a) /\ \A j \in 1..a : In(fact)[j] \in Nat /\ Out(fact)[j] \in Nat
      <3> SUFFICES ASSUME NEW a \in 0..m
                   PROVE  IsFiniteSet(1..a) /\ \A j \in 1..a : In(fact)[j] \in Nat /\ Out(fact)[j] \in Nat
        OBVIOUS
      <3>1. IsFiniteSet(1..a) /\ \A j \in 1..a : j \in 1..m
        BY <1>1, FS_Interval
      <3> QED
        BY <1>a, <3>1
    <2> QED
      BY <2>1, SumType
  <1>3. \A b \in 0..n : G(b) \in Nat
    <2>1. \A b \in 0..n : IsFiniteSet(1..b) /\ \A j \in 1..b : Gone(fact)[j] \in Nat
      <3> SUFFICES ASSUME NEW b \in 0..n
                   PROVE  IsFiniteSet(1..b) /\ \A j \in 1..b : Gone(fact)[j] \in Nat
        OBVIOUS
      <3>1. IsFiniteSet(1..b) /\ b \in Int
        BY FS_Interval
      <3>2. \A j \in 1..b : j \in 1..n
        BY <1>1
      <3> QED
        BY <1>a, <3>1, <3>2
    <2> QED
      BY <2>1, SumType
  <1>4. \A a \in 1..m : I(a) = I(a - 1) + In(fact)[a] /\ O(a) = O(a - 1) + Out(fact)[a]
    BY <1>1, <1>a, SumUpTo
  <1>5. \A b \in 1..n : G(b) = G(b - 1) + Gone(fact)[b]
    BY <1>1, <1>a, SumUpTo
  <1>6. \A j \in 0..(2 * n + m) :
          Brought(fact, j) = I(IF j <= n THEN 0 ELSE IF j <= n + m THEN j - n ELSE m)
                             - O(IF j <= n THEN 0 ELSE IF j <= n + m THEN j - n ELSE m) - G(IF j <= n THEN j ELSE n)
    BY DEF Brought
  <1>b. Gain(fact, i) = IF i <= n THEN 0 - Gone(fact)[i]
                        ELSE IF i <= n + m THEN Moved(fact.moves[i - n]) ELSE 0
    BY DEF Gain
  <1> HIDE DEF I, O, G, n, m
  <1>7. CASE i <= n
    <2>1. Brought(fact, i) = I(0) - O(0) - G(i) /\ Brought(fact, i - 1) = I(0) - O(0) - G(i - 1)
      BY <1>1, <1>6, <1>7
    <2>2. G(i) = G(i - 1) + Gone(fact)[i] /\ G(i - 1) \in Nat /\ I(0) \in Nat /\ O(0) \in Nat /\ G(i) \in Nat /\ Gone(fact)[i] \in Nat
      BY <1>1, <1>2, <1>3, <1>5, <1>7, <1>a
    <2>3. Gain(fact, i) = 0 - Gone(fact)[i]
      BY <1>7, <1>b
    <2> QED
      BY <2>1, <2>2, <2>3
  <1>8. CASE ~(i <= n) /\ i <= n + m
    <2> DEFINE a == i - n
    <2>1. a \in 1..m /\ a - 1 \in 0..m /\ n \in 0..n
      BY <1>1, <1>8
    <2>2. Brought(fact, i) = I(a) - O(a) - G(n)
      BY <1>1, <1>6, <1>8
    <2>3. Brought(fact, i - 1) = I(a - 1) - O(a - 1) - G(n)
      <3>1. CASE i - 1 = n
        <4>1. i - 1 \in 0..(2 * n + m) /\ i - 1 <= n /\ a - 1 = 0
          BY <1>1, <1>8, <3>1
        <4>2. Brought(fact, i - 1) = I(0) - O(0) - G(i - 1)
          BY <1>6, <4>1
        <4> QED
          BY <3>1, <4>1, <4>2
      <3>2. CASE i - 1 # n
        <4>1. i - 1 \in 0..(2 * n + m) /\ ~(i - 1 <= n) /\ i - 1 <= n + m /\ a - 1 = i - 1 - n
          BY <1>1, <1>8, <3>2
        <4> QED
          BY <1>6, <4>1
      <3> QED
        BY <3>1, <3>2
    <2>4. I(a) = I(a - 1) + In(fact)[a] /\ O(a) = O(a - 1) + Out(fact)[a]
          /\ I(a - 1) \in Nat /\ O(a - 1) \in Nat /\ G(n) \in Nat
      BY <1>2, <1>3, <1>4, <2>1
    <2>5. In(fact)[a] \in Nat /\ Out(fact)[a] \in Nat /\ In(fact)[a] - Out(fact)[a] = Moved(fact.moves[a])
      BY <2>1, <1>a
    <2>6. Gain(fact, i) = Moved(fact.moves[a])
      BY <1>8, <1>b
    <2> HIDE DEF a
    <2> QED
      BY <2>2, <2>3, <2>4, <2>5, <2>6
  <1>9. CASE ~(i <= n) /\ ~(i <= n + m)
    <2>1. Brought(fact, i) = I(m) - O(m) - G(n)
      BY <1>1, <1>6, <1>9
    <2>2. Brought(fact, i - 1) = I(m) - O(m) - G(n)
      <3>1. CASE i - 1 = n + m
        <4>1. i - 1 \in 0..(2 * n + m) /\ i - 1 <= n + m /\ i - 1 - n = m /\ (i - 1 <= n => i - 1 = n /\ m = 0)
          BY <1>1, <1>9, <3>1
        <4>2. CASE i - 1 <= n
          <5>1. Brought(fact, i - 1) = I(0) - O(0) - G(i - 1)
            BY <1>6, <4>1, <4>2
          <5> QED
            BY <4>1, <4>2, <5>1
        <4>3. CASE ~(i - 1 <= n)
          <5>1. Brought(fact, i - 1) = I(i - 1 - n) - O(i - 1 - n) - G(n)
            BY <1>6, <4>1, <4>3
          <5> QED
            BY <4>1, <5>1
        <4> QED
          BY <4>2, <4>3
      <3>2. CASE i - 1 # n + m
        <4>1. i - 1 \in 0..(2 * n + m) /\ ~(i - 1 <= n) /\ ~(i - 1 <= n + m)
          BY <1>1, <1>9, <3>2
        <4> QED
          BY <1>6, <4>1
      <3> QED
        BY <3>1, <3>2
    <2>3. I(m) \in Nat /\ O(m) \in Nat /\ G(n) \in Nat
      BY <1>1, <1>2, <1>3
    <2>4. Gain(fact, i) = 0
      BY <1>9, <1>b
    <2> QED
      BY <2>1, <2>2, <2>3, <2>4
  <1> QED
    BY <1>7, <1>8, <1>9

LEMMA BroughtEnds ==
  ASSUME NEW fact \in Fact
  PROVE  Brought(fact, 0) = 0 /\ Brought(fact, Turns(fact)) = Net(fact) /\ Turns(fact) \in Nat
PROOF
  <1> DEFINE n == Len(fact.reservations)
             m == Len(fact.moves)
  <1>1. n \in Nat /\ m \in Nat /\ DOMAIN fact.moves = 1..m /\ DOMAIN fact.reservations = 1..n
    BY FactParts
  <1>2. Turns(fact) = 2 * n + m /\ Turns(fact) \in Nat
    <2>1. Turns(fact) = 2 * n + m
      BY DEF Turns
    <2> HIDE DEF n, m
    <2> QED
      BY <1>1, <2>1
  <1>3. Brought(fact, 0) = 0
    <2>1. 1..0 = {} /\ 0 <= n
      BY <1>1
    <2>2. Brought(fact, 0) = SumFunctionOnSet(In(fact), {}) - SumFunctionOnSet(Out(fact), {})
                             - SumFunctionOnSet(Gone(fact), {})
      BY <2>1 DEF Brought
    <2> QED
      BY <2>2, SumEmpty
  <1>4. Brought(fact, 2 * n + m) = SumFunctionOnSet(In(fact), 1..m) - SumFunctionOnSet(Out(fact), 1..m)
                                   - SumFunctionOnSet(Gone(fact), 1..n)
    <2> DEFINE t == 2 * n + m
               a == IF t <= n THEN 0 ELSE IF t <= n + m THEN t - n ELSE m
               b == IF t <= n THEN t ELSE n
    <2>1. Brought(fact, t) = SumFunctionOnSet(In(fact), 1..a) - SumFunctionOnSet(Out(fact), 1..a)
                             - SumFunctionOnSet(Gone(fact), 1..b)
      BY DEF Brought
    <2>2. a = m /\ b = n
      <3> HIDE DEF n, m
      <3> QED
        BY <1>1
    <2> HIDE DEF a, b, n, m
    <2> QED
      BY <2>1, <2>2 DEF t
  <1>5. Net(fact) = SumFunctionOnSet(In(fact), 1..m) - SumFunctionOnSet(Out(fact), 1..m)
                    - SumFunctionOnSet(Gone(fact), 1..n)
    BY <1>1 DEF Net
  <1> QED
    BY <1>2, <1>3, <1>4, <1>5

LEMMA GainType ==
  ASSUME NEW fact \in Fact
  PROVE  (\A i \in 1..Turns(fact) : Gain(fact, i) \in Int) /\ Net(fact) \in Int
PROOF
  <1> DEFINE n == Len(fact.reservations)
             m == Len(fact.moves)
  <1>1. /\ n \in Nat /\ m \in Nat
        /\ DOMAIN fact.moves = 1..m /\ DOMAIN fact.reservations = 1..n
        /\ \A j \in 1..m : fact.moves[j] \in Leg
    BY FactParts
  <1>2. /\ \A j \in 1..m : In(fact)[j] \in Nat /\ Out(fact)[j] \in Nat
        /\ \A j \in 1..n : Gone(fact)[j] \in Nat
    BY Quantities
  <1>3. \A j \in 1..m : Moved(fact.moves[j]) \in Int
    <2>1. \A leg \in Leg : leg.quantity \in Nat
      BY LedgerAssumption DEF Leg
    <2> QED
      BY <1>1, <2>1 DEF Moved
  <1>4. \A i \in 1..Turns(fact) : Gain(fact, i) \in Int
    <2> SUFFICES ASSUME NEW i \in 1..Turns(fact) PROVE Gain(fact, i) \in Int
      OBVIOUS
    <2>1. Gain(fact, i) = IF i <= n THEN 0 - Gone(fact)[i]
                          ELSE IF i <= n + m THEN Moved(fact.moves[i - n]) ELSE 0
      BY DEF Gain
    <2>2. i \in 1..(2 * n + m)
      BY DEF Turns
    <2> HIDE DEF n, m
    <2>3. (i <= n => i \in 1..n) /\ (~(i <= n) /\ i <= n + m => i - n \in 1..m)
      BY <1>1, <2>2
    <2> QED
      BY <1>2, <1>3, <2>1, <2>3
  <1>5. /\ SumFunctionOnSet(In(fact), 1..m) \in Nat /\ SumFunctionOnSet(Out(fact), 1..m) \in Nat
        /\ SumFunctionOnSet(Gone(fact), 1..n) \in Nat
    <2>1. IsFiniteSet(1..m) /\ IsFiniteSet(1..n)
      BY SMTT(30), <1>1, FS_Interval
    <2> QED
      BY <1>2, <2>1, SumType
  <1> QED
    BY <1>1, <1>4, <1>5 DEF Net

\* A turn keeps the stock sound and brings in what its part says.
LEMMA TurnKeeps ==
  ASSUME NEW fact \in Fact, NEW i \in 1..Turns(fact), serialized \in BOOLEAN, NEW l, Sound(l),
         Turn(l, fact, i) # Refused
  PROVE  /\ Sound(Turn(l, fact, i))
         /\ Total(l) \in Nat /\ Total(Turn(l, fact, i)) = Total(l) + Gain(fact, i)
PROOF
  <1> DEFINE n == Len(fact.reservations)
             m == Len(fact.moves)
  <1>1. n \in Nat /\ m \in Nat /\ i \in 1..(2 * n + m)
    BY FactParts DEF Turns
  <1>2. /\ \A j \in 1..n : fact.reservations[j] \in Operation
        /\ \A j \in 1..m : fact.moves[j] \in Leg
        /\ \A j \in 1..n : Gone(fact)[j] = IF fact.reservations[j].kind = "fulfill"
                                            THEN fact.reservations[j].quantity ELSE 0
    BY FactParts, Quantities
  <1>3. Total(l) \in Nat
    <2>1. \A k \in Position : l.onhand[k] \in Nat
      BY DEF Sound, StockType
    <2> QED
      BY <2>1, SumType, LedgerAssumption DEF Total
  <1>4. Turn(l, fact, i) =
          IF i <= n THEN IF IsReserve(fact.reservations[i]) THEN l ELSE Settle(l, fact.reservations[i])
          ELSE IF i <= n + m THEN Move(l, fact.moves[i - n])
          ELSE IF IsReserve(fact.reservations[i - (n + m)]) THEN Reserve(l, fact.reservations[i - (n + m)]) ELSE l
    BY DEF Turn
  <1>5. Gain(fact, i) = IF i <= n THEN 0 - Gone(fact)[i]
                        ELSE IF i <= n + m THEN Moved(fact.moves[i - n]) ELSE 0
    BY DEF Gain
  <1> HIDE DEF n, m
  <1>6. CASE i <= n
    <2> DEFINE op == fact.reservations[i]
    <2>1. op \in Operation /\ op.quantity \in Nat
          /\ Gain(fact, i) = 0 - (IF op.kind = "fulfill" THEN op.quantity ELSE 0)
      BY <1>1, <1>2, <1>5, <1>6, LedgerAssumption DEF Operation
    <2>2. CASE IsReserve(op)
      <3>1. Turn(l, fact, i) = l /\ Gain(fact, i) = 0
        BY <1>4, <1>6, <2>1, <2>2 DEF IsReserve
      <3> QED
        BY <1>3, <3>1
    <2>3. CASE ~IsReserve(op)
      <3>1. Turn(l, fact, i) = Settle(l, op) /\ op.kind # "reserve"
        BY <1>4, <1>6, <2>3 DEF IsReserve
      <3> HIDE DEF op
      <3>2. /\ Sound(Settle(l, op))
            /\ Total(Settle(l, op)) = Total(l) - (IF op.kind = "fulfill" THEN op.quantity ELSE 0)
        BY <2>1, <3>1, SettleKeeps
      <3> QED
        BY <1>3, <2>1, <3>1, <3>2
    <2> QED
      BY <2>2, <2>3
  <1>7. CASE ~(i <= n) /\ i <= n + m
    <2> DEFINE leg == fact.moves[i - n]
    <2>1. leg \in Leg /\ Turn(l, fact, i) = Move(l, leg) /\ Gain(fact, i) = Moved(leg)
      <3>1. i - n \in 1..m
        BY <1>1, <1>7
      <3> QED
        BY <1>2, <1>4, <1>5, <1>7, <3>1
    <2> HIDE DEF leg
    <2> QED
      BY <1>3, <2>1, MoveKeeps
  <1>8. CASE ~(i <= n) /\ ~(i <= n + m)
    <2> DEFINE op == fact.reservations[i - (n + m)]
    <2>1. op \in Operation /\ Gain(fact, i) = 0
          /\ Turn(l, fact, i) = IF IsReserve(op) THEN Reserve(l, op) ELSE l
      <3>1. i - (n + m) \in 1..n
        BY <1>1, <1>8
      <3> QED
        BY <1>2, <1>4, <1>5, <1>8, <3>1
    <2> HIDE DEF op
    <2>2. CASE IsReserve(op)
      <3>1. Sound(Reserve(l, op)) /\ Total(Reserve(l, op)) = Total(l)
        BY <2>1, <2>2, ReserveKeeps
      <3> QED
        BY <1>3, <2>1, <2>2, <3>1
    <2>3. CASE ~IsReserve(op)
      BY <1>3, <2>1, <2>3
    <2> QED
      BY <2>2, <2>3
  <1> QED
    BY <1>6, <1>7, <1>8

\* After every turn of a fact: a turn was refused, or the stock is sound and accounts for the parts so far.
Reached(f, l, fact, i) ==
  f[i] # Refused => Sound(f[i]) /\ Total(f[i]) = Total(l) + Brought(fact, i)

LEMMA AppliedKeeps ==
  ASSUME NEW fact \in Fact, serialized \in BOOLEAN, NEW l, Sound(l), Applied(l, fact) # Refused
  PROVE  Sound(Applied(l, fact)) /\ Total(Applied(l, fact)) = Total(l) + Net(fact)
PROOF
  <1> DEFINE t == Turns(fact)
             f == CHOOSE f : Progress(f, l, fact, t)
             Bad == {i \in 0..t : ~Reached(f, l, fact, i)}
  <1>1. t \in Nat /\ Brought(fact, 0) = 0 /\ Brought(fact, t) = Net(fact)
    BY BroughtEnds
  <1>2. Total(l) \in Nat
    <2>1. \A k \in Position : l.onhand[k] \in Nat
      BY DEF Sound, StockType
    <2> QED
      BY <2>1, SumType, LedgerAssumption DEF Total
  <1>3. Applied(l, fact) = f[t]
    BY DEF Applied, Progress
  <1>4. Progress(f, l, fact, t)
    BY <1>1, ProgressExists
  <1> HIDE DEF f, t
  <1>5. \A i \in 0..t : f[i] = IF i = 0 THEN l
                               ELSE IF f[i - 1] = Refused THEN Refused
                               ELSE AfterPart(f[i - 1], Turn(f[i - 1], fact, i))
    <2> DEFINE after(i) == IF i = 0 THEN l ELSE IF f[i - 1] = Refused THEN Refused
                           ELSE AfterPart(f[i - 1], Turn(f[i - 1], fact, i))
    <2>1. f = [i \in 0..t |-> after(i)]
      BY <1>4 DEF Progress
    <2> HIDE DEF after
    <2>2. \A i \in 0..t : f[i] = after(i)
      BY <2>1
    <2> QED
      BY <2>2 DEF after
  <1>6. Bad = {}
    <2> SUFFICES ASSUME Bad # {} PROVE FALSE
      OBVIOUS
    <2>1. PICK i \in Bad : \A j \in Bad : i <= j
      <3>1. Bad \in SUBSET Nat
        BY <1>1
      <3> HIDE DEF Bad
      <3> QED
        BY <3>1, LeastNumber
    <2>2. i \in 0..t /\ ~Reached(f, l, fact, i)
      BY <2>1
    <2>3. CASE i = 0
      <3>1. f[0] = l
        BY <1>1, <1>5
      <3> QED
        BY <1>1, <1>2, <2>2, <2>3, <3>1 DEF Reached
    <2>4. CASE i # 0
      <3>1. i - 1 \in 0..t /\ i \in 1..t /\ ~(i <= i - 1)
        BY <1>1, <2>2, <2>4
      <3>2. Reached(f, l, fact, i - 1)
        BY <2>1, <3>1
      <3> DEFINE b == f[i - 1]
      <3>3. f[i] # Refused
        BY <2>2 DEF Reached
      <3>4. b # Refused /\ f[i] = Turn(b, fact, i)
        BY <1>5, <2>2, <2>4, <3>3 DEF AfterPart
      <3>5. Sound(b) /\ Total(b) = Total(l) + Brought(fact, i - 1)
        BY <3>2, <3>4 DEF Reached
      <3>6. i \in 1..Turns(fact)
        BY <3>1 DEF t
      <3> HIDE DEF b
      <3>7. Sound(Turn(b, fact, i)) /\ Total(Turn(b, fact, i)) = Total(b) + Gain(fact, i) /\ Total(b) \in Nat
        BY <3>3, <3>4, <3>5, <3>6, TurnKeeps
      <3>8. Brought(fact, i) = Brought(fact, i - 1) + Gain(fact, i) /\ Brought(fact, i - 1) \in Int
        BY <3>6, BroughtStep
      <3>9. Gain(fact, i) \in Int
        BY <3>6, GainType
      <3>10. Total(f[i]) = Total(l) + Brought(fact, i)
        BY <1>2, <3>4, <3>5, <3>7, <3>8, <3>9
      <3> QED
        BY <2>2, <3>4, <3>7, <3>10 DEF Reached
    <2> QED
      BY <2>3, <2>4
  <1>7. Reached(f, l, fact, t)
    BY <1>1, <1>6
  <1> QED
    BY <1>1, <1>3, <1>7 DEF Reached
-----------------------------------------------------------------------------
(* The stock is covered and accounted for *)

\* Sound as a whole, and the history's balance is what lies in the positions.
StockInv ==
  /\ serialized \in BOOLEAN /\ balance \in Int
  /\ Sound(stock)
  /\ Total(stock) = balance
  /\ ~opened => stock = EmptyStock /\ balance = 0

\* A ledger just opened.
LEMMA EmptyLedger ==
  /\ Sound(EmptyStock)
  /\ Total(EmptyStock) = 0
PROOF
  <1> DEFINE e == EmptyStock
  <1>1. /\ \A k \in Position : e.onhand[k] = 0 /\ e.held[k] = {}
        /\ \A r \in ReservationId : e.claims[r] = None
        /\ e.onhand = [k \in Position |-> 0]
    BY DEF EmptyStock
  <1>2. StockType(e)
    BY FS_EmptySet DEF StockType, EmptyStock
  <1>3. Covered(e)
    <2> SUFFICES ASSUME NEW k \in Position PROVE Reserved(e, k) <= e.onhand[k]
      BY DEF Covered
    <2>1. \A r \in ReservationId : ClaimsOn(e, k)[r] = 0
      BY <1>1 DEF ClaimsOn
    <2>2. Reserved(e, k) = 0
      BY <2>1, SumZero, LedgerAssumption DEF Reserved
    <2> QED
      BY <1>1, <2>2
  <1>4. Placed(e)
    BY <1>1, FS_EmptySet DEF Placed
  <1>5. Total(e) = 0
    BY <1>1, SumZero, LedgerAssumption DEF Total
  <1> QED
    BY <1>2, <1>3, <1>4, <1>5 DEF Sound

\* What the index holds; with the memory's invariant it bounds the recent sequences too.
Indexed == facts \subseteq Source \X (1..MaxSequence)

LEMMA StockInit == Init => StockInv /\ Indexed
  BY EmptyLedger DEF Init, StockInv, Indexed

LEMMA StockNext == StockInv /\ Indexed /\ [Next]_vars => StockInv' /\ Indexed'
PROOF
  <1> SUFFICES ASSUME StockInv, Indexed, [Next]_vars PROVE StockInv' /\ Indexed'
    OBVIOUS
  <1>1. CASE Open
    <2>1. balance = 0 /\ UNCHANGED <<serialized, facts, balance>> /\ stock' = EmptyStock /\ opened'
      BY <1>1 DEF Open, StockInv
    <2>2. Placed(EmptyStock)'
      BY <2>1, EmptyLedger DEF Placed, Sound, EmptyStock
    <2>3. Sound(stock)' /\ Total(stock)' = 0
      <3>1. StockType(EmptyStock) /\ Covered(EmptyStock) /\ Total(EmptyStock) = 0
        BY EmptyLedger DEF Sound
      <3>2. StockType(stock') /\ Covered(stock') /\ Total(stock') = 0
        BY <2>1, <3>1
      <3>3. Placed(stock)'
        BY <2>1, <2>2 DEF Placed, EmptyStock
      <3> QED
        BY <3>2, <3>3 DEF Sound, StockType, Covered, Total, Reserved, ClaimsOn, EmptyStock
    <2> QED
      BY <2>1, <2>3 DEF StockInv, Indexed
  <1>2. ASSUME NEW w \in Writer, NEW fact \in Fact, NEW s \in Source, NEW n \in 1..MaxSequence,
               AppendFact(w, fact, s, n)
        PROVE  StockInv' /\ Indexed'
    <2> DEFINE l == Applied(stock, fact)
    <2>1. /\ l # Refused /\ stock' = l /\ opened' /\ serialized' = serialized
          /\ balance' = balance + Net(fact) /\ facts' = facts \cup {<<s, n>>}
      BY <1>2 DEF AppendFact
    <2>2. Sound(l) /\ Total(l) = Total(stock) + Net(fact)
      BY <2>1, AppliedKeeps DEF StockInv
    <2>3. Net(fact) \in Int
      BY GainType
    <2> HIDE DEF l
    <2>4. Sound(stock)'
      BY <2>1, <2>2 DEF Sound, StockType, Covered, Placed, Reserved, ClaimsOn
    <2>5. Total(stock)' = balance' /\ balance' \in Int
      BY <2>1, <2>2, <2>3 DEF StockInv, Total
    <2> QED
      BY <2>1, <2>4, <2>5 DEF StockInv, Indexed
  <1>3. ASSUME UNCHANGED <<opened, serialized, stock, facts, balance>>
        PROVE  StockInv' /\ Indexed'
    BY <1>3 DEF StockInv, Indexed, Sound, StockType, Covered, Placed, Reserved, ClaimsOn, Total
  <1>4. CASE UNCHANGED vars
    BY <1>4, <1>3 DEF vars
  <1>5. ASSUME NEW w \in Writer, ReadLedger(w)
        PROVE  StockInv' /\ Indexed'
    BY <1>5, <1>3 DEF ReadLedger
  <1> QED
    BY <1>1, <1>2, <1>4, <1>5 DEF Next

LEMMA StockInductive == Spec => [](StockInv /\ Indexed)
PROOF
  <1> QED
    BY StockInit, StockNext, PTL DEF Spec

\* The types of the ledger, which no fact of any size takes the stock out of: a refused or accepted record.append
\* leaves no quantity below zero.
THEOREM TypeCorrect == Spec => []TypeOK
PROOF
  <1>1. StockInv /\ Indexed /\ IInv /\ Readings => TypeOK
    <2> SUFFICES ASSUME StockInv, Indexed, IInv, Readings PROVE TypeOK
      OBVIOUS
    <2>1. sources \in [Source -> [high_water : Nat, recent : SUBSET (1..MaxSequence)]]
      <3>1. sources \in [Source -> [high_water : Nat, recent : SUBSET Nat]]
        BY DEF IInv, Bookkeeping
      <3>2. \A s \in Source : sources[s].recent \subseteq 1..MaxSequence
        BY DEF IInv, Memory, Indexed
      <3>3. \A s \in Source : sources[s] \in [high_water : Nat, recent : SUBSET (1..MaxSequence)]
        BY <3>1, <3>2
      <3> QED
        BY <3>1, <3>3
    <2>2. opened \in BOOLEAN /\ revision \in Nat
      BY DEF IInv, Bookkeeping
    <2>3. /\ stock.onhand \in [Position -> Nat] /\ stock.held \in [Position -> SUBSET Serial]
          /\ stock.claims \in [ReservationId -> Claim \cup {None}]
      BY DEF StockInv, Sound, StockType
    <2> QED
      BY <2>1, <2>2, <2>3 DEF TypeOK, Claim, StockInv, Indexed, Readings
  <1> QED
    BY <1>1, StockInductive, Inductive, ReadingsHold, PTL

\* No position is claimed beyond what it holds, however facts combine settlements, legs and claims: record.append
\* applies a fact's settlements, then its legs, then its reserves (reduceInventory).
THEOREM SafeClaims == Spec => []NeverOversold
PROOF
  <1>1. StockInv => NeverOversold
    BY DEF StockInv, Sound, Covered, NeverOversold
  <1> QED
    BY <1>1, StockInductive, PTL

\* What lies in the positions is what the recorded facts say, in quantity and serial by serial: a fact the reducer
\* refuses at any part leaves nothing behind, and one it accepts counts whole.
THEOREM SafeStock == Spec => []StockAccounted
PROOF
  <1>1. StockInv => StockAccounted
    BY DEF StockInv, Sound, Placed, Total, StockAccounted, Balanced, SerialsPlaced
  <1> QED
    BY <1>1, StockInductive, PTL
=============================================================================
