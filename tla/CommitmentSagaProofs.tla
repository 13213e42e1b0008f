------------------------- MODULE CommitmentSagaProofs -------------------------
(***************************************************************************)
(* Theorems about CommitmentSaga, for every set of pools, legs, quotes and  *)
(* coordinations, every capacity and every time: what a provider never owes,*)
(* what a coordination may say of its legs when it is over, and what a hold *)
(* says was delivered, whatever messages are lost, late or repeated.        *)
(***************************************************************************)
EXTENDS CommitmentSaga, SumTheorems

-----------------------------------------------------------------------------
(* The types *)

Status == {"held", "expired", "released", "accepted", "cancelled", "fulfilling", "completed", "disputed"}
DeliveryReport == [leg : Leg, operation : Nat, good : Nat, damaged : Nat]
Response == [leg : Leg, action : Action, outcome : {"accepted", "rejected"}]
Phase == {"holding", "confirming", "compensating"} \cup Terminal
LegStatus == {"planned", "held", "accepted", "released", "cancelled", "rejected", "exception"}

TypeOK ==
  /\ quotes \in [Pool -> Seq(Quote)]
  /\ holds \in [Leg -> Hold \cup {None}]
  /\ receipts \subseteq Request \cup DeliveryReport
  /\ phase \in [Coordination -> Phase]
  /\ legs \in [Leg -> LegStatus]
  /\ pending \in [Coordination -> Request \cup {None}]
  /\ uncertain \in [Coordination -> BOOLEAN]
  /\ responses \in [Coordination -> SUBSET Response]
  /\ requests \subseteq Request
  /\ answers \subseteq Response
  /\ now \in Nat

\* Every natural number set with elements has a least one.
LEMMA MinOf ==
  ASSUME NEW S \in SUBSET Nat, S # {}
  PROVE  Min(S) \in S /\ \A y \in S : Min(S) <= y
  BY LeastNumber DEF Min

\* And a greatest one, when there is a bound.
LEMMA MaxOf ==
  ASSUME NEW n \in Nat, NEW S \in SUBSET (1..n), S # {}
  PROVE  Max(S) \in S /\ \A y \in S : Max(S) >= y
PROOF
  <1> DEFINE T == {n - y : y \in S}
  <1>1. T \in SUBSET Nat /\ T # {}
    <2>1. \A y \in S : n - y \in Nat
      OBVIOUS
    <2> QED BY <2>1
  <1>2. Min(T) \in T /\ \A y \in T : Min(T) <= y
    BY <1>1, MinOf
  <1>3. PICK x \in S : Min(T) = n - x
    BY <1>2
  <1>4. \A y \in S : n - x <= n - y
    BY <1>2, <1>3
  <1>5. \A y \in S : x >= y
    BY <1>4
  <1> QED
    BY <1>5 DEF Max

\* What a look at the clock does to a hold.
LEMMA LapsedHolds ==
  ASSUME TypeOK, NEW p, NEW l \in Leg
  PROVE  LET h == holds[l]  k == Lapsed(p)[l]
         IN  /\ h = None <=> k = None
             /\ h # None =>
                  /\ h \in Hold /\ k \in Hold
                  /\ k.good = h.good /\ k.damaged = h.damaged /\ k.closed = h.closed
                  /\ k.fulfilled = h.fulfilled /\ k.disputed = h.disputed
                  /\ k.status = h.status \/ (h.status = "held" /\ k.status = "expired" /\ Booking[l].expires <= now)
                  /\ Of(l).pool = p /\ k.status = "held" => ~(Booking[l].expires <= now)
PROOF
  <1> DEFINE h == holds[l]
             k == [h EXCEPT !.status = "expired"]
  <1>1. h \in Hold \cup {None} /\ None \notin Hold
    BY BookingAssumption DEF TypeOK
  <1>2. CASE h = None
    BY <1>2 DEF Lapsed
  <1>3. CASE h \in Hold
    <2>1. /\ k \in Hold /\ k.status = "expired" /\ k.good = h.good /\ k.damaged = h.damaged
          /\ k.closed = h.closed /\ k.fulfilled = h.fulfilled /\ k.disputed = h.disputed
      BY <1>3 DEF Hold
    <2>2. k # None
      BY <1>1, <2>1
    <2> HIDE DEF k
    <2>3. Lapsed(p)[l] = IF h # None /\ Of(l).pool = p /\ h.status = "held" /\ Booking[l].expires <= now
                         THEN k ELSE h
      BY DEF Lapsed, k
    <2>4. CASE h # None /\ Of(l).pool = p /\ h.status = "held" /\ Booking[l].expires <= now
      BY <1>3, <2>1, <2>2, <2>3, <2>4
    <2>5. CASE ~(h # None /\ Of(l).pool = p /\ h.status = "held" /\ Booking[l].expires <= now)
      BY <1>1, <1>3, <2>3, <2>5
    <2> QED
      BY <2>4, <2>5
  <1> QED
    BY <1>1, <1>2, <1>3

\* What one step may do to one hold: nothing but let it lapse, or one of the three.
Lapses(l) ==
  /\ holds[l] = None <=> holds'[l] = None
  /\ holds[l] # None =>
       /\ holds'[l].good = holds[l].good /\ holds'[l].damaged = holds[l].damaged
       /\ holds'[l].closed = holds[l].closed /\ holds'[l].fulfilled = holds[l].fulfilled
       /\ holds'[l].disputed = holds[l].disputed
       /\ holds'[l].status = holds[l].status
          \/ (holds[l].status = "held" /\ holds'[l].status = "expired" /\ Booking[l].expires <= now)

FreshHold == [status |-> "held", good |-> 0, damaged |-> 0, closed |-> FALSE, fulfilled |-> FALSE, disputed |-> FALSE]

LEMMA FreshIsHold == FreshHold \in Hold /\ FreshHold # None /\ FreshHold.status = "held"
PROOF
  <1>1. FreshHold \in Hold /\ FreshHold.status = "held"
    BY DEF FreshHold, Hold
  <1> QED
    BY <1>1, BookingAssumption

\* A step changes at most one hold beyond letting it lapse.
LEMMA LegSteps ==
  ASSUME TypeOK, [Next]_vars
  PROVE  \/ \E l \in Leg, a \in Action : Apply(l, a) /\ \A x \in Leg \ {l} : Lapses(x)
         \/ \E l \in Leg : \E op \in Unused(Of(l).pool) : \E good, damaged \in 0..Of(l).quantity, final \in BOOLEAN :
              Fulfill(l, op, good, damaged, final) /\ \A x \in Leg \ {l} : Lapses(x)
         \/ \E l \in Leg : \E op \in Unused(Of(l).pool) : Dispute(l, op) /\ \A x \in Leg \ {l} : Lapses(x)
         \/ receipts' = receipts /\ \A x \in Leg : Lapses(x)
PROOF
  <1>1. ASSUME NEW p, NEW x \in Leg, holds'[x] = Lapsed(p)[x] PROVE Lapses(x)
    BY <1>1, LapsedHolds DEF Lapses
  <1>2. CASE UNCHANGED <<holds, receipts>>
    BY <1>2 DEF Lapses
  <1>3. ASSUME NEW q \in Quote, Publish(q) PROVE receipts' = receipts /\ \A x \in Leg : Lapses(x)
    <2>1. holds' = Lapsed(Terms[q].pool) /\ receipts' = receipts
      BY <1>3 DEF Publish
    <2> QED
      BY <1>1, <2>1
  <1>4. ASSUME NEW p, NEW l \in Leg, NEW h, holds' = [Lapsed(p) EXCEPT ![l] = h], NEW x \in Leg \ {l}
        PROVE  Lapses(x)
    <2>1. holds'[x] = Lapsed(p)[x]
      BY <1>4 DEF Lapsed
    <2> QED
      BY <1>1, <2>1
  <1>5. ASSUME NEW l \in Leg, NEW a \in Action, Apply(l, a) PROVE \A x \in Leg \ {l} : Lapses(x)
    <2>1. \E h : holds' = [Lapsed(Of(l).pool) EXCEPT ![l] = h]
      BY <1>5 DEF Apply
    <2> QED
      BY <1>4, <2>1
  <1>6. ASSUME NEW l \in Leg, NEW op, NEW good, NEW damaged, NEW final, Fulfill(l, op, good, damaged, final)
        PROVE  \A x \in Leg \ {l} : Lapses(x)
    <2>1. \E h : holds' = [Lapsed(Of(l).pool) EXCEPT ![l] = h]
      BY <1>6 DEF Fulfill
    <2> QED
      BY <1>4, <2>1
  <1>7. ASSUME NEW l \in Leg, NEW op, Dispute(l, op)
        PROVE  \A x \in Leg \ {l} : Lapses(x)
    <2>1. \E h : holds' = [Lapsed(Of(l).pool) EXCEPT ![l] = h]
      BY <1>7 DEF Dispute
    <2> QED
      BY <1>4, <2>1
  <1>8. \/ UNCHANGED <<holds, receipts>>
        \/ \E q \in Quote : Publish(q)
        \/ \E l \in Leg, a \in Action : Apply(l, a)
        \/ \E l \in Leg : \E op \in Unused(Of(l).pool) : \E good, damaged \in 0..Of(l).quantity, final \in BOOLEAN :
              Fulfill(l, op, good, damaged, final)
        \/ \E l \in Leg : \E op \in Unused(Of(l).pool) : Dispute(l, op)
    BY DEF Next, vars, provider, Receive, Repeat, Refuse, Proceed, AskHold, AskConfirm, Commit, Compensate, Send, Timeout,
           Lose, Record, Tick
  <1> QED
    BY <1>2, <1>3, <1>5, <1>6, <1>7, <1>8

\* What an accepted command found, and what it makes of the hold.
LEMMA ApplyEffect ==
  ASSUME TypeOK, NEW l \in Leg, NEW a \in Action, Apply(l, a)
  PROVE  /\ holds' \in [Leg -> Hold \cup {None}] /\ holds'[l] \in Hold
         /\ [leg |-> l, action |-> a] \in requests \ receipts
         /\ receipts' = receipts \cup {[leg |-> l, action |-> a]}
         /\ a = "hold" => holds[l] = None /\ holds'[l] = FreshHold
         /\ a # "hold" =>
              /\ holds[l] \in Hold
              /\ holds'[l].good = holds[l].good /\ holds'[l].damaged = holds[l].damaged
              /\ holds'[l].fulfilled = holds[l].fulfilled /\ holds'[l].disputed = holds[l].disputed
         /\ a = "confirm" => holds[l].status = "held" /\ holds'[l].status = "accepted"
                             /\ ~(Booking[l].expires <= now) /\ Of(l).expires > now /\ Of(l).end > now /\ Current(l)
         /\ a = "release" => holds[l].status \in {"held", "expired"} /\ holds'[l].status = "released"
         /\ a = "cancel" => holds[l].status = "accepted" /\ holds'[l].status = "cancelled"
                            /\ ~holds[l].fulfilled /\ Of(l).cancellable
PROOF
  <1> DEFINE L == Lapsed(Of(l).pool)
             h == L[l]
  <1>1. /\ h = None <=> holds[l] = None
        /\ holds[l] # None =>
             /\ holds[l] \in Hold /\ h \in Hold
             /\ h.good = holds[l].good /\ h.damaged = holds[l].damaged
             /\ h.fulfilled = holds[l].fulfilled /\ h.disputed = holds[l].disputed
             /\ h.status = holds[l].status \/ (holds[l].status = "held" /\ h.status = "expired")
             /\ h.status = "held" => ~(Booking[l].expires <= now)
    BY LapsedHolds
  <1>2. Allowed(l, a) /\ [leg |-> l, action |-> a] \in requests \ receipts
        /\ receipts' = receipts \cup {[leg |-> l, action |-> a]}
    BY DEF Apply
  <1>3. L \in [Leg -> Hold \cup {None}]
    <2>1. \A x \in Leg : L[x] \in Hold \cup {None}
      BY LapsedHolds
    <2> QED
      BY <2>1 DEF Lapsed
  <1>4. FreshHold \in Hold
    BY FreshIsHold
  <1>5. CASE a = "hold"
    <2>1. h = None
      BY <1>2, <1>5 DEF Allowed
    <2>2. holds' = [L EXCEPT ![l] = FreshHold]
      BY <1>5 DEF Apply, FreshHold
    <2> HIDE DEF L
    <2> QED
      BY <1>1, <1>2, <1>3, <1>4, <1>5, <2>1, <2>2
  <1>6. CASE a # "hold"
    <2>1. h # None /\ h \in Hold
      BY <1>1, <1>2, <1>6 DEF Allowed
    <2> DEFINE k == [h EXCEPT !.status = After(a)]
    <2>2. holds' = [L EXCEPT ![l] = k]
      BY <1>6 DEF Apply
    <2>3. After(a) \in Status
      BY <1>6 DEF After, Action, Status
    <2>4. k \in Hold /\ k.status = After(a) /\ k.good = h.good /\ k.damaged = h.damaged
          /\ k.fulfilled = h.fulfilled /\ k.disputed = h.disputed
      BY <2>1, <2>3 DEF Hold, Status
    <2>5. /\ a = "confirm" => /\ h.status = "held" /\ Of(l).expires > now /\ Of(l).end > now /\ Current(l)
          /\ a = "release" => h.status \in {"held", "expired"}
          /\ a = "cancel" => h.status = "accepted" /\ Of(l).cancellable /\ ~h.fulfilled
      BY <1>2, <1>6 DEF Allowed
    <2>6. holds'[l] = k /\ holds' \in [Leg -> Hold \cup {None}]
      BY <1>3, <2>2, <2>4
    <2> HIDE DEF L, k
    <2> QED
      BY <1>1, <1>2, <1>6, <2>1, <2>4, <2>5, <2>6 DEF After
  <1> QED
    BY <1>5, <1>6

\* What a delivery and a dispute find, and what they make of the hold.
DeliveryTaken(l, op, good, damaged) ==
  /\ holds' \in [Leg -> Hold \cup {None}] /\ holds'[l] \in Hold
  /\ holds[l] \in Hold /\ holds[l].status \in {"accepted", "fulfilling", "disputed"}
  /\ receipts' = receipts \cup {[leg |-> l, operation |-> op, good |-> good, damaged |-> damaged]}
  /\ holds'[l].good = holds[l].good + good /\ holds'[l].damaged = holds[l].damaged + damaged
  /\ holds'[l].fulfilled /\ holds'[l].disputed = holds[l].disputed
  /\ holds[l].good + holds[l].damaged + good + damaged <= Of(l).quantity
  /\ holds'[l].status \in {"disputed", "completed", "fulfilling"}
  /\ holds'[l].status = "completed" =>
       /\ ~holds[l].disputed /\ ~(holds[l].damaged + damaged > 0)
       /\ ~(holds[l].good + good < Of(l).quantity)
LEMMA FulfillEffect ==
  ASSUME TypeOK, NEW l \in Leg, NEW op, NEW good \in Nat, NEW damaged \in Nat, NEW final \in BOOLEAN,
         Fulfill(l, op, good, damaged, final)
  PROVE  DeliveryTaken(l, op, good, damaged)
PROOF
  <1> DEFINE L == Lapsed(Of(l).pool)
             h == L[l]
             k == Delivered(h, Of(l), good, damaged, final)
  <1>1. /\ h = None <=> holds[l] = None
        /\ holds[l] # None =>
             /\ holds[l] \in Hold /\ h \in Hold
             /\ h.good = holds[l].good /\ h.damaged = holds[l].damaged
             /\ h.disputed = holds[l].disputed
             /\ h.status = holds[l].status \/ (holds[l].status = "held" /\ h.status = "expired")
    BY LapsedHolds
  <1>2. /\ h # None /\ h.status \in {"accepted", "fulfilling", "disputed"}
        /\ h.good + h.damaged + good + damaged <= Of(l).quantity
        /\ holds' = [L EXCEPT ![l] = k]
        /\ receipts' = receipts \cup {[leg |-> l, operation |-> op, good |-> good, damaged |-> damaged]}
    BY DEF Fulfill, Report
  <1>3. L \in [Leg -> Hold \cup {None}]
    <2>1. \A x \in Leg : L[x] \in Hold \cup {None}
      BY LapsedHolds
    <2> QED
      BY <2>1 DEF Lapsed
  <1> HIDE DEF L
  <1>4. h \in Hold /\ h.good \in Nat /\ h.damaged \in Nat /\ h.disputed \in BOOLEAN
    BY <1>1, <1>2 DEF Hold
  <1> DEFINE s == IF h.disputed \/ h.damaged + damaged > 0 \/ (final /\ h.good + good < Of(l).quantity) THEN "disputed"
                  ELSE IF final THEN "completed" ELSE "fulfilling"
  <1>5. s \in {"disputed", "completed", "fulfilling"}
        /\ (s = "completed" => ~h.disputed /\ ~(h.damaged + damaged > 0) /\ ~(h.good + good < Of(l).quantity))
    OBVIOUS
  <1>6. k = [h EXCEPT !.good = h.good + good, !.damaged = h.damaged + damaged, !.closed = final, !.fulfilled = TRUE,
                      !.status = s]
    BY <1>4 DEF Delivered, Hold
  <1> HIDE DEF s, k
  <1>7. /\ k \in Hold /\ k.good = h.good + good /\ k.damaged = h.damaged + damaged /\ k.fulfilled
        /\ k.disputed = h.disputed /\ k.status = s
    <2>1. s \in Status /\ h.good + good \in Nat /\ h.damaged + damaged \in Nat
      BY <1>4, <1>5 DEF Status
    <2>2. k.status = s /\ k.good = h.good + good /\ k.damaged = h.damaged + damaged /\ k.disputed = h.disputed
      BY <1>4, <1>6, <2>1 DEF Hold
    <2>3. k.fulfilled
      BY <1>4, <1>6, <2>1 DEF Hold
    <2>4. k \in Hold
      BY <1>4, <1>6, <2>1 DEF Hold, Status
    <2> QED
      BY <2>2, <2>3, <2>4
  <1>8. holds'[l] = k /\ holds' \in [Leg -> Hold \cup {None}]
    BY <1>2, <1>3, <1>7
  <1> QED
    BY <1>1, <1>2, <1>5, <1>7, <1>8 DEF DeliveryTaken

LEMMA DisputeEffect ==
  ASSUME TypeOK, NEW l \in Leg, NEW op, Dispute(l, op)
  PROVE  /\ holds' \in [Leg -> Hold \cup {None}] /\ holds'[l] \in Hold
         /\ holds[l] \in Hold /\ holds[l].status \in {"accepted", "fulfilling", "completed", "disputed"}
         /\ receipts' = receipts \cup {[leg |-> l, operation |-> op, good |-> 0, damaged |-> 0]}
         /\ holds'[l].good = holds[l].good /\ holds'[l].damaged = holds[l].damaged
         /\ holds'[l].fulfilled = holds[l].fulfilled
         /\ holds'[l].status = "disputed"
PROOF
  <1> DEFINE L == Lapsed(Of(l).pool)
             h == L[l]
             k == [h EXCEPT !.disputed = TRUE, !.status = "disputed"]
  <1>1. /\ h = None <=> holds[l] = None
        /\ holds[l] # None =>
             /\ holds[l] \in Hold /\ h \in Hold
             /\ h.good = holds[l].good /\ h.damaged = holds[l].damaged
             /\ h.fulfilled = holds[l].fulfilled
             /\ h.status = holds[l].status \/ (holds[l].status = "held" /\ h.status = "expired")
    BY LapsedHolds
  <1>2. /\ h # None /\ h.status \in {"accepted", "fulfilling", "completed", "disputed"}
        /\ holds' = [L EXCEPT ![l] = k]
        /\ receipts' = receipts \cup {[leg |-> l, operation |-> op, good |-> 0, damaged |-> 0]}
    BY DEF Dispute, Report
  <1>3. L \in [Leg -> Hold \cup {None}]
    <2>1. \A x \in Leg : L[x] \in Hold \cup {None}
      BY LapsedHolds
    <2> QED
      BY <2>1 DEF Lapsed
  <1> HIDE DEF L
  <1>4. k \in Hold /\ k.good = h.good /\ k.damaged = h.damaged /\ k.fulfilled = h.fulfilled /\ k.status = "disputed"
    BY <1>1, <1>2 DEF Hold
  <1> HIDE DEF k
  <1> QED
    BY <1>1, <1>2, <1>3, <1>4

\* The steps of the plan with a status, and the first of them.
LEMMA FirstOf ==
  ASSUME NEW c \in Coordination, NEW S \in SUBSET DOMAIN Plan[c], S # {}
  PROVE  /\ Min(S) \in S /\ Min(S) \in DOMAIN Plan[c]
         /\ Plan[c][Min(S)] \in Leg /\ Plan[c][Min(S)] \in LegsOf(c)
PROOF
  <1>1. Plan[c] \in Seq(Leg) /\ DOMAIN Plan[c] \subseteq Nat
    BY BookingAssumption
  <1>2. Min(S) \in S
    BY <1>1, MinOf
  <1> QED
    BY <1>1, <1>2 DEF LegsOf

\* What a coordination's own step may ask for and end in.
LEMMA AskType ==
  ASSUME TypeOK, NEW c \in Coordination, NEW S \in SUBSET DOMAIN Plan[c], S # {}, NEW a \in Action, Ask(c, Min(S), a)
  PROVE  /\ pending' \in [Coordination -> Request \cup {None}]
         /\ pending'[c] = [leg |-> Plan[c][Min(S)], action |-> a]
         /\ Plan[c][Min(S)] \in LegsOf(c) /\ Plan[c][Min(S)] \in Leg
         /\ \A d \in Coordination \ {c} : pending'[d] = pending[d]
PROOF
  <1>1. [leg |-> Plan[c][Min(S)], action |-> a] \in Request
    BY FirstOf DEF Request
  <1> QED
    BY <1>1, FirstOf DEF Ask, TypeOK

LEMMA TypeNext ==
  ASSUME TypeOK, [Next]_vars
  PROVE  TypeOK'
PROOF
  <1> USE DEF TypeOK
  <1>1. ASSUME NEW l \in Leg, NEW a \in Action, NEW o \in {"accepted", "rejected"}, Answer(l, a, o)
        PROVE  answers' \subseteq Response
    BY <1>1 DEF Answer, Response
  <1>2. ASSUME NEW l \in Leg, NEW a \in Action, Receive(l, a) PROVE TypeOK'
    <2>1. CASE Apply(l, a)
      <3>1. holds' \in [Leg -> Hold \cup {None}] /\ receipts' \subseteq Request \cup DeliveryReport
        <4>1. holds' \in [Leg -> Hold \cup {None}] /\ receipts' = receipts \cup {[leg |-> l, action |-> a]}
          BY <2>1, ApplyEffect
        <4>2. [leg |-> l, action |-> a] \in Request
          BY DEF Request
        <4> QED
          BY <4>1, <4>2
      <3> QED
        BY <1>1, <2>1, <3>1 DEF Apply, coordinator
    <2>2. CASE Repeat(l, a)
      BY <1>1, <2>2 DEF Repeat, provider, coordinator
    <2>3. CASE Refuse(l, a)
      BY <1>1, <2>3 DEF Refuse, provider, coordinator
    <2> QED
      BY <1>2, <2>1, <2>2, <2>3 DEF Receive
  <1>3. ASSUME NEW q \in Quote, Publish(q) PROVE TypeOK'
    <2>1. \A x \in Leg : Lapsed(Terms[q].pool)[x] \in Hold \cup {None}
      BY LapsedHolds
    <2>2. Lapsed(Terms[q].pool) \in [Leg -> Hold \cup {None}]
      BY <2>1 DEF Lapsed
    <2>3. quotes' \in [Pool -> Seq(Quote)]
      <3>1. Terms[q].pool \in Pool
        BY BookingAssumption
      <3> QED
        BY <1>3, <3>1 DEF Publish
    <2> QED
      BY <1>3, <2>2, <2>3 DEF Publish, coordinator
  <1>4. ASSUME NEW l \in Leg, NEW op \in Unused(Of(l).pool), NEW good \in 0..Of(l).quantity, NEW damaged \in 0..Of(l).quantity,
               NEW final \in BOOLEAN, Fulfill(l, op, good, damaged, final)
        PROVE  TypeOK'
    <2>1. Of(l).quantity \in Nat /\ op \in Nat
      BY BookingAssumption DEF Of, Unused
    <2>2. holds' \in [Leg -> Hold \cup {None}] /\ receipts' \subseteq Request \cup DeliveryReport
      <3>1. good \in Nat /\ damaged \in Nat
        BY <2>1
      <3>2. /\ holds' \in [Leg -> Hold \cup {None}]
            /\ receipts' = receipts \cup {[leg |-> l, operation |-> op, good |-> good, damaged |-> damaged]}
        <4>1. DeliveryTaken(l, op, good, damaged)
          BY <1>4, <3>1, FulfillEffect
        <4> QED
          BY <4>1 DEF DeliveryTaken
      <3>3. [leg |-> l, operation |-> op, good |-> good, damaged |-> damaged] \in DeliveryReport
        BY <2>1, <3>1 DEF DeliveryReport
      <3> QED
        BY <3>2, <3>3
    <2> QED
      BY <1>4, <2>2 DEF Fulfill, coordinator
  <1>5. ASSUME NEW l \in Leg, NEW op \in Unused(Of(l).pool), Dispute(l, op) PROVE TypeOK'
    <2>1. op \in Nat
      BY BookingAssumption DEF Of, Unused
    <2>2. holds' \in [Leg -> Hold \cup {None}] /\ receipts' \subseteq Request \cup DeliveryReport
      BY <1>5, <2>1, DisputeEffect DEF DeliveryReport
    <2> QED
      BY <1>5, <2>2 DEF Dispute, coordinator
  <1>6. ASSUME NEW c \in Coordination, Proceed(c) PROVE TypeOK'
    <2>1. CASE AskHold(c)
      BY <2>1, AskType DEF AskHold, provider, With, Action, Phase
    <2>2. CASE AskConfirm(c)
      <3>1. pending' \in [Coordination -> Request \cup {None}]
        BY <2>2, AskType DEF AskConfirm, With, Action
      <3> QED
        BY <2>2, <3>1 DEF AskConfirm, provider, Phase
    <2>3. CASE Commit(c)
      BY <2>3 DEF Commit, provider, Phase, Terminal
    <2>4. CASE Compensate(c)
      <3> DEFINE fixed == {i \in With(c, "accepted") : ~Of(Plan[c][i]).cancellable}
                 open == (With(c, "held") \cup With(c, "accepted")) \ fixed
      <3>1. open \in SUBSET DOMAIN Plan[c]
        BY DEF With
      <3>2. pending' \in [Coordination -> Request \cup {None}]
        <4>1. CASE open = {}
          BY <2>4, <4>1 DEF Compensate
        <4>2. CASE open # {}
          <5>1. \E a \in Action : Ask(c, Min(open), a)
            BY <2>4, <4>2 DEF Compensate, Action
          <5> HIDE DEF open
          <5> QED
            BY <3>1, <4>2, <5>1, AskType
        <4> QED
          BY <4>1, <4>2
      <3>3. phase' \in [Coordination -> Phase]
        BY <2>4 DEF Compensate, Phase, Terminal
      <3>4. legs' \in [Leg -> LegStatus]
        BY <2>4 DEF Compensate, LegStatus
      <3> QED
        BY <2>4, <3>2, <3>3, <3>4 DEF Compensate, provider
    <2> QED
      BY <1>6, <2>1, <2>2, <2>3, <2>4 DEF Proceed
  <1>7. ASSUME NEW c \in Coordination, Send(c) PROVE TypeOK'
    BY <1>7 DEF Send, provider, coordinator
  <1>8. ASSUME NEW c \in Coordination, Timeout(c) PROVE TypeOK'
    BY <1>8 DEF Timeout, provider
  <1>9. ASSUME NEW c \in Coordination, Lose(c) PROVE TypeOK'
    BY <1>9 DEF Lose, provider, coordinator
  <1>10. ASSUME NEW c \in Coordination, NEW r \in answers, Record(c, r) PROVE TypeOK'
    <2>1. r \in Response
      OBVIOUS
    <2>2. legs' \in [Leg -> LegStatus]
      BY <1>10, <2>1 DEF Record, Response, Action, After, LegStatus
    <2>3. phase' \in [Coordination -> Phase]
      BY <1>10 DEF Record, Phase
    <2> QED
      BY <1>10, <2>1, <2>2, <2>3 DEF Record, provider
  <1>11. CASE Tick
    BY <1>11 DEF Tick, provider, coordinator
  <1>12. CASE UNCHANGED vars
    BY <1>12 DEF vars, provider, coordinator
  <1> QED
    BY ZenonT(60), <1>2, <1>3, <1>4, <1>5, <1>6, <1>7, <1>8, <1>9, <1>10, <1>11, <1>12 DEF Next

-----------------------------------------------------------------------------
(* Capacity *)

Quantity == [l \in Leg |-> Of(l).quantity]
Booked(hs, p, t) == {l \in Leg : Reserves(hs[l]) /\ Of(l).pool = p /\ Of(l).start <= t /\ t < Of(l).end}
\* No pool owes more than it has, at any time.
WithinCapacity == \A p \in Pool, t \in Nat : Used(holds, p, t) <= Capacity[p]

LEMMA UsedSum ==
  ASSUME NEW hs, NEW p, NEW t
  PROVE  /\ Used(hs, p, t) = SumFunctionOnSet(Quantity, Booked(hs, p, t))
         /\ Used(hs, p, t) \in Nat
         /\ IsFiniteSet(Booked(hs, p, t)) /\ \A l \in Leg : Quantity[l] \in Nat
PROOF
  <1>1. \A l \in Leg : Quantity[l] \in Nat
    BY BookingAssumption DEF Quantity, Of
  <1>2. IsFiniteSet(Booked(hs, p, t)) /\ Booked(hs, p, t) \subseteq Leg
    BY BookingAssumption, FS_Subset DEF Booked
  <1>3. Used(hs, p, t) = SumFunctionOnSet(Quantity, Booked(hs, p, t))
    BY DEF Used, Quantity, Booked
  <1> QED
    BY <1>1, <1>2, <1>3, SumType

LEMMA UsedLess ==
  ASSUME NEW hs, NEW gs, NEW p, NEW t, Booked(gs, p, t) \subseteq Booked(hs, p, t)
  PROVE  Used(gs, p, t) <= Used(hs, p, t)
PROOF
  <1>1. \A l \in Booked(hs, p, t) : Quantity[l] \in Nat
    BY UsedSum DEF Booked
  <1> QED
    BY <1>1, UsedSum, SumSubset

\* Only a hold that is accepted makes a pool owe more.
LEMMA CapacityNext ==
  ASSUME TypeOK, WithinCapacity, [Next]_vars
  PROVE  WithinCapacity'
PROOF
  <1> SUFFICES ASSUME NEW p \in Pool, NEW t \in Nat PROVE Used(holds', p, t) <= Capacity[p]
    BY DEF WithinCapacity, Used
  <1>1. Used(holds, p, t) <= Capacity[p] /\ Capacity[p] \in Nat
    BY BookingAssumption DEF WithinCapacity
  <1>2. ASSUME \A x \in Leg : Reserves(holds'[x]) => Reserves(holds[x]) \/ ~(Of(x).pool = p /\ Of(x).start <= t /\ t < Of(x).end)
        PROVE  Used(holds', p, t) <= Capacity[p]
    <2>1. Booked(holds', p, t) \subseteq Booked(holds, p, t)
      BY <1>2 DEF Booked
    <2>2. Used(holds', p, t) <= Used(holds, p, t)
      BY <2>1, UsedLess
    <2> QED
      BY <1>1, <2>2, UsedSum
  <1>3. ASSUME NEW x \in Leg, Lapses(x) PROVE Reserves(holds'[x]) => Reserves(holds[x])
    BY <1>3 DEF Lapses, Reserves
  <1>4. ASSUME NEW l \in Leg, Apply(l, "hold"), \A x \in Leg \ {l} : Lapses(x)
        PROVE  Used(holds', p, t) <= Capacity[p]
    <2>1. CASE Of(l).pool = p /\ Of(l).start <= t /\ t < Of(l).end
      <3> DEFINE L == Lapsed(p)
      <3>1. L[l] = None /\ holds' = [L EXCEPT ![l] = FreshHold]
        BY <1>4, <2>1 DEF Apply, Allowed, FreshHold
      <3>2. t \in Of(l).start..(Of(l).end - 1)
        BY <2>1, BookingAssumption DEF Of
      <3>3. Used(L, p, t) + Of(l).quantity <= Capacity[p]
        BY <1>4, <2>1, <3>2 DEF Apply, Allowed, ReserveFits
      <3>4. l \notin Booked(L, p, t)
        BY <3>1 DEF Booked, Reserves
      <3>5. L = [x \in Leg |-> L[x]]
        BY DEF Lapsed
      <3> HIDE DEF L
      <3>6. Reserves(FreshHold)
        BY FreshIsHold DEF Reserves
      <3>7. Booked(holds', p, t) = Booked(L, p, t) \cup {l}
        BY <2>1, <3>1, <3>5, <3>6 DEF Booked
      <3>8. SumFunctionOnSet(Quantity, Booked(L, p, t) \cup {l}) = SumFunctionOnSet(Quantity, Booked(L, p, t)) + Quantity[l]
        <4>1. \A x \in Booked(L, p, t) \cup {l} : Quantity[x] \in Nat
          BY UsedSum DEF Booked
        <4> QED
          BY <3>4, <4>1, UsedSum, SumAdd
      <3> QED
        BY <3>3, <3>7, <3>8, UsedSum DEF Quantity
    <2>2. CASE ~(Of(l).pool = p /\ Of(l).start <= t /\ t < Of(l).end)
      BY <1>2, <1>3, <1>4, <2>2
    <2> QED
      BY <2>1, <2>2
  <1>5. ASSUME NEW l \in Leg, \A x \in Leg \ {l} : Lapses(x), Reserves(holds[l]) \/ ~Reserves(holds'[l])
        PROVE  Used(holds', p, t) <= Capacity[p]
    BY <1>2, <1>3, <1>5
  <1>6. ASSUME NEW l \in Leg, NEW a \in Action, Apply(l, a), a # "hold"
        PROVE  Reserves(holds[l]) \/ ~Reserves(holds'[l])
    <2>1. holds[l] # None
      BY ZenonT(60), <1>6, ApplyEffect, BookingAssumption
    <2>2. \/ holds[l].status \notin {"expired", "released", "cancelled"}
          \/ holds'[l].status \in {"released", "cancelled"}
      BY ZenonT(60), <1>6, ApplyEffect DEF Action
    <2> QED
      BY <2>1, <2>2 DEF Reserves
  <1>7. ASSUME NEW l \in Leg, NEW op \in Unused(Of(l).pool), NEW good \in 0..Of(l).quantity, NEW damaged \in 0..Of(l).quantity,
               NEW final \in BOOLEAN, Fulfill(l, op, good, damaged, final)
        PROVE  Reserves(holds[l])
    <2>1. good \in Nat /\ damaged \in Nat
      BY BookingAssumption DEF Of
    <2>2. holds[l] \in Hold /\ holds[l].status \in {"accepted", "fulfilling", "disputed"}
      <3>1. DeliveryTaken(l, op, good, damaged)
        BY <1>7, <2>1, FulfillEffect
      <3> QED
        BY <3>1 DEF DeliveryTaken
    <2> QED
      BY <2>2, BookingAssumption DEF Reserves
  <1>8. ASSUME NEW l \in Leg, NEW op \in Unused(Of(l).pool), Dispute(l, op)
        PROVE  Reserves(holds[l])
    <2>1. holds[l] \in Hold /\ holds[l].status \in {"accepted", "fulfilling", "completed", "disputed"}
      BY <1>8, DisputeEffect
    <2> QED
      BY <2>1, BookingAssumption DEF Reserves
  <1>9. CASE \E l \in Leg, a \in Action : Apply(l, a) /\ \A x \in Leg \ {l} : Lapses(x)
    BY <1>4, <1>5, <1>6, <1>9
  <1>10. CASE \A x \in Leg : Lapses(x)
    BY <1>2, <1>3, <1>10
  <1>11. CASE \E l \in Leg : \E op \in Unused(Of(l).pool) : \E good, damaged \in 0..Of(l).quantity, final \in BOOLEAN :
                 Fulfill(l, op, good, damaged, final) /\ \A x \in Leg \ {l} : Lapses(x)
    BY <1>5, <1>7, <1>11
  <1>12. CASE \E l \in Leg : \E op \in Unused(Of(l).pool) : Dispute(l, op) /\ \A x \in Leg \ {l} : Lapses(x)
    BY <1>5, <1>8, <1>12
  <1> QED
    BY <1>9, <1>10, <1>11, <1>12, LegSteps

\* Every state of the providers and coordinations has its types: what is kept, in flight
\* and reported is what its parser accepts (provider, coordinator).
THEOREM TypeCorrect == Spec => []TypeOK
PROOF
  <1>1. Init => TypeOK
    BY BookingAssumption DEF Init, TypeOK, Phase, LegStatus
  <1>2. TypeOK /\ [Next]_vars => TypeOK'
    BY TypeNext
  <1> QED
    BY <1>1, <1>2, PTL DEF Spec

\* A provider never owes more at one time than its pool holds, whoever booked it, however
\* requests are repeated or delayed and however late a hold that had lapsed is confirmed
\* (reserveFits, confirm's look at the clock).
THEOREM SafeCapacity == Spec => []NoOvercommit
PROOF
  <1>1. Init => TypeOK /\ WithinCapacity
    <2> SUFFICES ASSUME Init PROVE TypeOK /\ WithinCapacity
      OBVIOUS
    <2>1. TypeOK
      BY BookingAssumption DEF Init, TypeOK, Phase, LegStatus
    <2>2. \A p \in Pool, t \in Nat : Booked(holds, p, t) = {}
      BY DEF Init, Booked, Reserves
    <2>3. \A p \in Pool, t \in Nat : Used(holds, p, t) = 0
      BY <2>2, UsedSum, SumEmpty
    <2> QED
      BY <2>1, <2>3, BookingAssumption DEF WithinCapacity
  <1>2. TypeOK /\ WithinCapacity /\ [Next]_vars => TypeOK' /\ WithinCapacity'
    BY TypeNext, CapacityNext
  <1>3. WithinCapacity => NoOvercommit
    BY BookingAssumption DEF WithinCapacity, NoOvercommit, Of
  <1> QED
    BY <1>1, <1>2, <1>3, PTL DEF Spec

-----------------------------------------------------------------------------
(* Deliveries *)

IsReport(r) == "operation" \in DOMAIN r
Deliveries(l) == {r \in receipts : IsReport(r) /\ r.leg = l}
Good(l) == SumFunctionOnSet([r \in Deliveries(l) |-> r.good], Deliveries(l))
Damaged(l) == SumFunctionOnSet([r \in Deliveries(l) |-> r.damaged], Deliveries(l))

\* A provider numbers its reports one after another, and reports on what it holds.
Numbered ==
  /\ IsFiniteSet(receipts)
  /\ \A p \in Pool : \E n \in Nat : Numbers(p) = 1..n
  /\ \A l \in Leg : holds[l] = None => Deliveries(l) = {}

\* A hold says what was reported of it.
Says(l) ==
  holds[l] # None =>
    /\ holds[l].good = Good(l) /\ holds[l].damaged = Damaged(l)
    /\ holds[l].good + holds[l].damaged <= Of(l).quantity
    /\ holds[l].status = "completed" =>
         holds[l].good = Of(l).quantity /\ holds[l].damaged = 0 /\ ~holds[l].disputed

LEMMA KindsOfReceipt ==
  /\ \A r \in Request : ~IsReport(r)
  /\ \A r \in DeliveryReport : IsReport(r) /\ r.leg \in Leg /\ r.good \in Nat /\ r.damaged \in Nat /\ r.operation \in Nat
  BY DEF Request, DeliveryReport, IsReport

\* A report takes the next number of its pool, so it is one that was not there before.
LEMMA ReportIsNew ==
  ASSUME TypeOK, Numbered, NEW l \in Leg, NEW op \in Unused(Of(l).pool), NEW good \in Nat, NEW damaged \in Nat
  PROVE  LET r == [leg |-> l, operation |-> op, good |-> good, damaged |-> damaged]
         IN  /\ r \in DeliveryReport /\ r \notin receipts
             /\ receipts' = receipts \cup {r} =>
                  /\ \A p \in Pool : \E n \in Nat : Numbers(p)' = 1..n
                  /\ IsFiniteSet(receipts')
                  /\ Deliveries(l)' = Deliveries(l) \cup {r}
                  /\ \A x \in Leg \ {l} : Deliveries(x)' = Deliveries(x)
PROOF
  <1> DEFINE r == [leg |-> l, operation |-> op, good |-> good, damaged |-> damaged]
             pool == Of(l).pool
  <1>1. pool \in Pool
    BY BookingAssumption DEF Of
  <1>2. PICK n \in Nat : Numbers(pool) = 1..n
    BY <1>1 DEF Numbered
  <1>3. op = n + 1 /\ op \in Nat
    <2>1. Cardinality(Numbers(pool)) = n
      BY <1>2, FS_Interval
    <2> QED
      BY <2>1 DEF Unused
  <1>4. r \in DeliveryReport /\ r.leg = l /\ r.operation = op
    BY <1>3 DEF DeliveryReport
  <1>5. IsReport(r)
    BY <1>4, KindsOfReceipt
  <1> HIDE DEF r
  <1>6. r \notin receipts
    <2>1. r \in receipts => op \in Numbers(pool)
      BY <1>4, <1>5 DEF Numbers, IsReport
    <2> QED
      BY <1>2, <1>3, <2>1
  <1>7. ASSUME receipts' = receipts \cup {r}
        PROVE  /\ \A p \in Pool : \E m \in Nat : Numbers(p)' = 1..m
               /\ IsFiniteSet(receipts')
               /\ Deliveries(l)' = Deliveries(l) \cup {r}
               /\ \A x \in Leg \ {l} : Deliveries(x)' = Deliveries(x)
    <2>1. Numbers(pool)' = Numbers(pool) \cup {op}
      BY <1>4, <1>5, <1>7 DEF Numbers, IsReport
    <2>2. Numbers(pool)' = 1..(n + 1)
      BY <1>2, <1>3, <2>1
    <2>3. \A p \in Pool \ {pool} : Numbers(p)' = Numbers(p)
      BY <1>4, <1>7 DEF Numbers
    <2>4. \A p \in Pool : \E m \in Nat : Numbers(p)' = 1..m
      BY <1>2, <2>2, <2>3 DEF Numbered
    <2>5. IsFiniteSet(receipts')
      BY <1>7, FS_AddElement DEF Numbered
    <2>6. Deliveries(l)' = Deliveries(l) \cup {r}
      BY <1>4, <1>5, <1>7 DEF Deliveries
    <2>7. \A x \in Leg \ {l} : Deliveries(x)' = Deliveries(x)
      BY <1>4, <1>7 DEF Deliveries
    <2> QED
      BY <2>4, <2>5, <2>6, <2>7
  <1> QED
    BY <1>4, <1>6, <1>7 DEF r

\* What one more report adds to the sums.
LEMMA ReportAdds ==
  ASSUME TypeOK, Numbered, NEW l \in Leg, NEW r \in DeliveryReport, r \notin receipts,
         Deliveries(l)' = Deliveries(l) \cup {r}
  PROVE  Good(l)' = Good(l) + r.good /\ Damaged(l)' = Damaged(l) + r.damaged
PROOF
  <1> DEFINE D == Deliveries(l)
  <1>1. IsFiniteSet(D) /\ r \notin D
    BY FS_Subset DEF Deliveries, Numbered
  <1>2. \A x \in D \cup {r} : x.good \in Nat /\ x.damaged \in Nat
    BY KindsOfReceipt DEF Deliveries, TypeOK
  <1> DEFINE g == [x \in D \cup {r} |-> x.good]
             d == [x \in D \cup {r} |-> x.damaged]
  <1> HIDE DEF D
  <1>3. /\ SumFunctionOnSet(g, D \cup {r}) = SumFunctionOnSet(g, D) + g[r]
        /\ SumFunctionOnSet(d, D \cup {r}) = SumFunctionOnSet(d, D) + d[r]
    <2>1. \A x \in D \cup {r} : g[x] \in Nat /\ d[x] \in Nat
      BY <1>2
    <2> HIDE DEF g, d
    <2> QED
      BY <1>1, <2>1, SumAdd
  <1>4. /\ SumFunctionOnSet(g, D) = SumFunctionOnSet([x \in D |-> x.good], D)
        /\ SumFunctionOnSet(d, D) = SumFunctionOnSet([x \in D |-> x.damaged], D)
    <2> DEFINE g0 == [x \in D |-> x.good]
               d0 == [x \in D |-> x.damaged]
    <2>1. \A x \in D : g[x] = g0[x] /\ d[x] = d0[x]
      OBVIOUS
    <2> HIDE DEF g, d, g0, d0
    <2>2. SumFunctionOnSet(g, D) = SumFunctionOnSet(g0, D) /\ SumFunctionOnSet(d, D) = SumFunctionOnSet(d0, D)
      BY <1>1, <2>1, SumEqual
    <2> QED
      BY <2>2 DEF g0, d0
  <1>5. Good(l)' = SumFunctionOnSet(g, D \cup {r}) /\ Damaged(l)' = SumFunctionOnSet(d, D \cup {r})
    BY DEF Good, Damaged, D
  <1>6. g[r] = r.good /\ d[r] = r.damaged
    OBVIOUS
  <1> QED
    BY <1>3, <1>4, <1>5, <1>6 DEF Good, Damaged, D

\* Nothing reported, nothing delivered.
LEMMA NothingReported ==
  ASSUME NEW l, Deliveries(l) = {}
  PROVE  Good(l) = 0 /\ Damaged(l) = 0
  BY SumEmpty DEF Good, Damaged

\* A hold that does not change but may lapse says what it said.
LEMMA SaysKept ==
  ASSUME TypeOK, NEW l \in Leg, Says(l), Lapses(l), Deliveries(l)' = Deliveries(l)
  PROVE  Says(l)' /\ (holds'[l] = None => holds[l] = None)
PROOF
  <1>1. Good(l)' = Good(l) /\ Damaged(l)' = Damaged(l)
    BY DEF Good, Damaged
  <1>2. CASE holds[l] = None
    BY <1>2 DEF Lapses, Says
  <1>3. CASE holds[l] # None
    BY <1>1, <1>3 DEF Lapses, Says
  <1> QED
    BY <1>2, <1>3

LEMMA DeliveriesNext ==
  ASSUME TypeOK, Numbered, \A l \in Leg : Says(l), [Next]_vars
  PROVE  Numbered' /\ \A l \in Leg : Says(l)'
PROOF
  <1>1. ASSUME receipts' = receipts, \A x \in Leg : Lapses(x) PROVE Numbered' /\ \A l \in Leg : Says(l)'
    <2>1. \A x \in Leg : Deliveries(x)' = Deliveries(x)
      BY <1>1 DEF Deliveries
    <2>2. \A p \in Pool : Numbers(p)' = Numbers(p)
      BY <1>1 DEF Numbers
    <2> QED
      BY <1>1, <2>1, <2>2, SaysKept DEF Numbered
  <1>2. ASSUME NEW l \in Leg, NEW a \in Action, Apply(l, a), \A x \in Leg \ {l} : Lapses(x)
        PROVE  Numbered' /\ \A x \in Leg : Says(x)'
    <2> DEFINE r == [leg |-> l, action |-> a]
    <2>1. r \in Request /\ ~IsReport(r) /\ receipts' = receipts \cup {r} /\ holds'[l] \in Hold /\ holds'[l] # None
      <3>1. r \in Request
        BY DEF Request
      <3>2. receipts' = receipts \cup {r} /\ holds'[l] \in Hold
        BY <1>2, ApplyEffect
      <3> QED
        BY <3>1, <3>2, KindsOfReceipt, BookingAssumption
    <2> HIDE DEF r
    <2>2. \A x \in Leg : Deliveries(x)' = Deliveries(x)
      BY <2>1 DEF Deliveries
    <2>3. \A p \in Pool : Numbers(p)' = Numbers(p)
      BY <2>1 DEF Numbers, IsReport
    <2>4. IsFiniteSet(receipts')
      BY <2>1, FS_AddElement DEF Numbered
    <2>5. Good(l)' = Good(l) /\ Damaged(l)' = Damaged(l)
      BY <2>2 DEF Good, Damaged
    <2>6. Says(l)'
      <3>1. CASE a = "hold"
        <4>1. holds[l] = None /\ holds'[l] = FreshHold
          BY <1>2, <3>1, ApplyEffect
        <4>2. Good(l)' = 0 /\ Damaged(l)' = 0
          BY <2>5, <4>1, NothingReported DEF Numbered
        <4>3. holds'[l].good = 0 /\ holds'[l].damaged = 0 /\ holds'[l].status = "held"
          BY <4>1 DEF FreshHold
        <4>4. Of(l).quantity \in Nat
          BY BookingAssumption DEF Of
        <4> QED
          BY <4>2, <4>3, <4>4 DEF Says
      <3>2. CASE a # "hold"
        <4>1. /\ holds[l] # None /\ holds'[l].good = holds[l].good /\ holds'[l].damaged = holds[l].damaged
          BY ZenonT(60), <1>2, <3>2, ApplyEffect, BookingAssumption
        <4>2. holds'[l].status # "completed"
          BY <1>2, <3>2, ApplyEffect DEF Action
        <4> QED
          BY <2>5, <4>1, <4>2 DEF Says
      <3> QED
        BY <3>1, <3>2
    <2>7. \A x \in Leg \ {l} : Says(x)' /\ (holds'[x] = None => holds[x] = None)
      BY <1>2, <2>2, SaysKept
    <2> QED
      BY <2>1, <2>2, <2>3, <2>4, <2>6, <2>7 DEF Numbered
  \* A report of either kind, with what it makes of its hold.
  <1>3. ASSUME NEW l \in Leg, NEW op \in Unused(Of(l).pool), NEW good \in Nat, NEW damaged \in Nat,
               \A x \in Leg \ {l} : Lapses(x),
               receipts' = receipts \cup {[leg |-> l, operation |-> op, good |-> good, damaged |-> damaged]},
               holds[l] \in Hold, holds'[l] \in Hold,
               holds'[l].good = holds[l].good + good, holds'[l].damaged = holds[l].damaged + damaged,
               holds[l].good + holds[l].damaged + good + damaged <= Of(l).quantity,
               holds'[l].status = "completed" =>
                 holds'[l].good = Of(l).quantity /\ holds'[l].damaged = 0 /\ ~holds'[l].disputed
        PROVE  Numbered' /\ \A x \in Leg : Says(x)'
    <2> DEFINE r == [leg |-> l, operation |-> op, good |-> good, damaged |-> damaged]
    <2>1. /\ r \in DeliveryReport /\ r \notin receipts
          /\ \A p \in Pool : \E n \in Nat : Numbers(p)' = 1..n
          /\ IsFiniteSet(receipts')
          /\ Deliveries(l)' = Deliveries(l) \cup {r}
          /\ \A x \in Leg \ {l} : Deliveries(x)' = Deliveries(x)
      BY <1>3, ReportIsNew
    <2>2. r.good = good /\ r.damaged = damaged
      OBVIOUS
    <2> HIDE DEF r
    <2>3. Good(l)' = Good(l) + good /\ Damaged(l)' = Damaged(l) + damaged
      BY <2>1, <2>2, ReportAdds
    <2>4. holds[l] # None /\ holds'[l] # None
      BY <1>3, BookingAssumption
    <2>5. holds[l].good \in Nat /\ holds[l].damaged \in Nat /\ Of(l).quantity \in Nat
      BY <1>3, BookingAssumption DEF Hold, Of
    <2>6. Says(l)'
      BY <1>3, <2>3, <2>4, <2>5 DEF Says
    <2>7. \A x \in Leg \ {l} : Says(x)' /\ (holds'[x] = None => holds[x] = None)
      BY <1>3, <2>1, SaysKept
    <2> QED
      BY <2>1, <2>4, <2>6, <2>7 DEF Numbered
  <1>4. ASSUME NEW l \in Leg, NEW op \in Unused(Of(l).pool), NEW good \in 0..Of(l).quantity, NEW damaged \in 0..Of(l).quantity,
               NEW final \in BOOLEAN, Fulfill(l, op, good, damaged, final), \A x \in Leg \ {l} : Lapses(x)
        PROVE  Numbered' /\ \A x \in Leg : Says(x)'
    <2>1. good \in Nat /\ damaged \in Nat /\ Of(l).quantity \in Nat
      BY BookingAssumption DEF Of
    <2>2. DeliveryTaken(l, op, good, damaged)
      BY <1>4, <2>1, FulfillEffect
    <2>3. holds[l].good \in Nat /\ holds[l].damaged \in Nat /\ holds[l] \in Hold
      BY <2>2 DEF DeliveryTaken, Hold
    <2>4. holds'[l].status = "completed" =>
            holds'[l].good = Of(l).quantity /\ holds'[l].damaged = 0 /\ ~holds'[l].disputed
      BY <2>1, <2>2, <2>3 DEF DeliveryTaken
    <2> QED
      BY <1>3, <1>4, <2>1, <2>2, <2>4 DEF DeliveryTaken
  <1>5. ASSUME NEW l \in Leg, NEW op \in Unused(Of(l).pool), Dispute(l, op), \A x \in Leg \ {l} : Lapses(x)
        PROVE  Numbered' /\ \A x \in Leg : Says(x)'
    <2>1. /\ holds'[l] \in Hold /\ holds[l] \in Hold
          /\ receipts' = receipts \cup {[leg |-> l, operation |-> op, good |-> 0, damaged |-> 0]}
          /\ holds'[l].good = holds[l].good /\ holds'[l].damaged = holds[l].damaged
          /\ holds'[l].status = "disputed"
      BY <1>5, DisputeEffect
    <2>2. holds[l].good \in Nat /\ holds[l].damaged \in Nat
      BY <2>1 DEF Hold
    <2>3. holds[l].good + holds[l].damaged <= Of(l).quantity
      BY <2>1, BookingAssumption DEF Says
    <2>4. /\ holds'[l].good = holds[l].good + 0 /\ holds'[l].damaged = holds[l].damaged + 0
          /\ holds[l].good + holds[l].damaged + 0 + 0 <= Of(l).quantity
          /\ 0 \in Nat /\ holds'[l].status # "completed"
      BY <2>1, <2>2, <2>3
    <2> QED
      BY <1>3, <1>5, <2>1, <2>4
  <1> QED
    BY <1>1, <1>2, <1>4, <1>5, LegSteps

\* What a hold says was delivered is the sum of the distinct deliveries reported, never more
\* than was booked, and complete means all of it, undamaged and undisputed (fulfill, dispute,
\* and their retries).
THEOREM SafeDeliveries == Spec => []DeliveredOnce
PROOF
  <1> DEFINE Inv == TypeOK /\ Numbered /\ \A l \in Leg : Says(l)
  <1>1. Init => Inv
    <2> SUFFICES ASSUME Init PROVE Inv
      OBVIOUS
    <2>1. TypeOK
      BY BookingAssumption DEF Init, TypeOK, Phase, LegStatus
    <2>2. receipts = {} /\ \A l \in Leg : holds[l] = None
      BY DEF Init
    <2>3. \A p \in Pool : Numbers(p) = 1..0
      BY <2>2 DEF Numbers
    <2>4. Numbered
      BY <2>2, <2>3, FS_EmptySet DEF Numbered, Deliveries
    <2> QED
      BY <2>1, <2>2, <2>4 DEF Says
  <1>2. Inv /\ [Next]_vars => Inv'
    BY TypeNext, DeliveriesNext
  <1>3. Inv => DeliveredOnce
    BY DEF DeliveredOnce, Says, Good, Damaged, Deliveries, IsReport
  <1> QED
    BY <1>1, <1>2, <1>3, PTL DEF Spec

-----------------------------------------------------------------------------
(* What a coordination knows *)

\* The commands a provider has accepted for a leg, and those its hold's status tells of.
Commands(l) == {a \in Action : [leg |-> l, action |-> a] \in receipts}
CommandsOf(h) ==
  IF h = None THEN {}
  ELSE IF h.status \in {"held", "expired"} THEN {"hold"}
  ELSE IF h.status = "released" THEN {"hold", "release"}
  ELSE IF h.status = "cancelled" THEN {"hold", "confirm", "cancel"}
  ELSE {"hold", "confirm"}
Listed(l) == \E i \in DOMAIN quotes[Of(l).pool] : quotes[Of(l).pool][i] = Booking[l].quote
Ledger == \A l \in Leg : Commands(l) = CommandsOf(holds[l]) /\ (holds[l] # None => Listed(l))

\* A confirmation, or a cancellation, that was refused once can never be accepted.
ConfirmDead(l) ==
  /\ holds[l] # None /\ "confirm" \notin Commands(l)
  /\ \/ holds[l].status # "held" \/ Booking[l].expires <= now
     \/ ~(Of(l).expires > now) \/ ~(Of(l).end > now) \/ ~Current(l)
CancelDead(l) ==
  /\ "confirm" \in Commands(l) /\ "cancel" \notin Commands(l)
  /\ holds[l].status # "accepted" \/ holds[l].fulfilled \/ ~Of(l).cancellable

\* What an answer says is so: of an acceptance for good, of a refusal as above; a release is never refused.
Truthful(x) ==
  IF x.outcome = "accepted" THEN x.action \in Commands(x.leg)
  ELSE /\ x.action # "release"
       /\ x.action = "confirm" => ConfirmDead(x.leg)
       /\ x.action = "cancel" => CancelDead(x.leg)
Records == UNION {responses[c] : c \in Coordination}
Recorded(l) == {x \in Records : x.leg = l}
Told == \A x \in answers \cup Records : Truthful(x)

\* Whatever is in flight or was accepted had been asked for; an answer under way is one that is waited for.
Waiting(l, a) == \E c \in Coordination : pending[c] = [leg |-> l, action |-> a]
Asked(l, a) == Waiting(l, a) \/ \E x \in Recorded(l) : x.action = a
OnlyAsked ==
  /\ \A r \in requests : Asked(r.leg, r.action)
  /\ \A l \in Leg : \A a \in Commands(l) : Asked(l, a)
  /\ \A x \in answers : Waiting(x.leg, x.action)
InPlan ==
  \A c \in Coordination :
    /\ pending[c] # None => pending[c].leg \in LegsOf(c)
    /\ \A x \in responses[c] : x.leg \in LegsOf(c)

\* The status of a leg tells what was answered for it.
Answered(l, a, o) == [leg |-> l, action |-> a, outcome |-> o] \in Recorded(l)
Story(l) ==
  /\ legs[l] = "planned" => Recorded(l) = {}
  /\ legs[l] = "rejected" => \A x \in Recorded(l) : x.action = "hold"
  /\ legs[l] = "held" =>
       /\ Answered(l, "hold", "accepted")
       /\ \A x \in Recorded(l) : x.action = "hold" \/ (x.action = "confirm" /\ x.outcome = "rejected")
       /\ \A x \in Recorded(l) : x.action = "confirm" =>
            \A c \in Coordination : l \in LegsOf(c) => phase[c] = "compensating"
  /\ legs[l] = "accepted" =>
       Answered(l, "confirm", "accepted") /\ \A x \in Recorded(l) : x.action \in {"hold", "confirm"}
  /\ legs[l] = "released" => Answered(l, "release", "accepted")
  /\ legs[l] = "cancelled" => Answered(l, "cancel", "accepted")
  /\ legs[l] = "exception" =>
       Answered(l, "confirm", "accepted") /\ \A x \in Recorded(l) : x.action = "cancel" => x.outcome = "rejected"

Knowledge ==
  /\ TypeOK /\ Ledger /\ Told /\ OnlyAsked /\ InPlan
  /\ (\A l \in Leg : Story(l)) /\ (\A c \in Coordination : CoordinationValid(c))

\* A leg is booked by one coordination.
LEMMA OneOwner ==
  ASSUME NEW c \in Coordination, NEW d \in Coordination, NEW l \in LegsOf(c), l \in LegsOf(d)
  PROVE  c = d /\ l \in Leg
  BY BookingAssumption DEF LegsOf

\* A provider accepts a command once, and a report is none.
LEMMA CommandsNext ==
  ASSUME TypeOK, [Next]_vars
  PROVE  \/ \E l \in Leg, a \in Action :
              /\ Apply(l, a) /\ Commands(l)' = Commands(l) \cup {a} /\ a \notin Commands(l)
              /\ \A x \in Leg \ {l} : Commands(x)' = Commands(x) /\ Lapses(x)
         \/ (\A x \in Leg : Commands(x)' = Commands(x)) /\ \E l \in Leg :
              /\ \A x \in Leg \ {l} : Lapses(x)
              /\ holds'[l] \in Hold /\ holds[l] \in Hold
              /\ holds[l].status \in {"accepted", "fulfilling", "completed", "disputed"}
              /\ holds'[l].status \in {"fulfilling", "completed", "disputed"}
              /\ holds[l].fulfilled => holds'[l].fulfilled
         \/ (\A x \in Leg : Commands(x)' = Commands(x)) /\ \A x \in Leg : Lapses(x)
PROOF
  <1>1. ASSUME NEW l \in Leg, NEW a \in Action, Apply(l, a), \A x \in Leg \ {l} : Lapses(x)
        PROVE  /\ Commands(l)' = Commands(l) \cup {a} /\ a \notin Commands(l)
               /\ \A x \in Leg \ {l} : Commands(x)' = Commands(x) /\ Lapses(x)
    <2>1. receipts' = receipts \cup {[leg |-> l, action |-> a]} /\ [leg |-> l, action |-> a] \notin receipts
      BY <1>1, ApplyEffect
    <2> QED
      BY <1>1, <2>1 DEF Commands
  <1>2. ASSUME NEW l \in Leg, NEW op \in Nat, NEW good \in Nat, NEW damaged \in Nat,
               receipts' = receipts \cup {[leg |-> l, operation |-> op, good |-> good, damaged |-> damaged]}
        PROVE  \A x \in Leg : Commands(x)' = Commands(x)
    <2>1. [leg |-> l, operation |-> op, good |-> good, damaged |-> damaged] \in DeliveryReport
      BY DEF DeliveryReport
    <2>2. \A x \in Leg, a \in Action :
            [leg |-> x, action |-> a] # [leg |-> l, operation |-> op, good |-> good, damaged |-> damaged]
      BY <2>1, KindsOfReceipt DEF Request
    <2> QED
      BY <1>2, <2>2 DEF Commands
  <1>3. ASSUME NEW l \in Leg, NEW op \in Unused(Of(l).pool), NEW good \in 0..Of(l).quantity,
               NEW damaged \in 0..Of(l).quantity, NEW final \in BOOLEAN, Fulfill(l, op, good, damaged, final)
        PROVE  /\ \A x \in Leg : Commands(x)' = Commands(x)
               /\ holds'[l] \in Hold /\ holds[l] \in Hold
               /\ holds[l].status \in {"accepted", "fulfilling", "completed", "disputed"}
               /\ holds'[l].status \in {"fulfilling", "completed", "disputed"}
               /\ holds[l].fulfilled => holds'[l].fulfilled
    <2>1. good \in Nat /\ damaged \in Nat /\ op \in Nat
      BY BookingAssumption DEF Of, Unused
    <2>2. DeliveryTaken(l, op, good, damaged)
      BY <1>3, <2>1, FulfillEffect
    <2> QED
      BY <1>2, <2>1, <2>2 DEF DeliveryTaken
  <1>4. ASSUME NEW l \in Leg, NEW op \in Unused(Of(l).pool), Dispute(l, op)
        PROVE  /\ \A x \in Leg : Commands(x)' = Commands(x)
               /\ holds'[l] \in Hold /\ holds[l] \in Hold
               /\ holds[l].status \in {"accepted", "fulfilling", "completed", "disputed"}
               /\ holds'[l].status \in {"fulfilling", "completed", "disputed"}
               /\ holds[l].fulfilled => holds'[l].fulfilled
    <2>1. op \in Nat /\ 0 \in Nat
      BY DEF Unused
    <2>2. /\ holds'[l] \in Hold /\ holds[l] \in Hold
          /\ holds[l].status \in {"accepted", "fulfilling", "completed", "disputed"}
          /\ receipts' = receipts \cup {[leg |-> l, operation |-> op, good |-> 0, damaged |-> 0]}
          /\ holds'[l].fulfilled = holds[l].fulfilled
          /\ holds'[l].status = "disputed"
      BY <1>4, DisputeEffect
    <2> QED
      BY <1>2, <2>1, <2>2
  <1>5. CASE \E l \in Leg, a \in Action : Apply(l, a) /\ \A x \in Leg \ {l} : Lapses(x)
    BY <1>1, <1>5
  <1>6. CASE \E l \in Leg : \E op \in Unused(Of(l).pool) : \E good, damaged \in 0..Of(l).quantity, final \in BOOLEAN :
               Fulfill(l, op, good, damaged, final) /\ \A x \in Leg \ {l} : Lapses(x)
    BY <1>3, <1>6
  <1>7. CASE \E l \in Leg : \E op \in Unused(Of(l).pool) : Dispute(l, op) /\ \A x \in Leg \ {l} : Lapses(x)
    BY <1>4, <1>7
  <1>8. CASE receipts' = receipts /\ \A x \in Leg : Lapses(x)
    BY <1>8 DEF Commands
  <1> QED
    BY <1>5, <1>6, <1>7, <1>8, LegSteps

\* Published quotes stay, and time goes on.
LEMMA QuotesNext ==
  ASSUME TypeOK, [Next]_vars
  PROVE  /\ now' >= now /\ now \in Nat /\ now' \in Nat
         /\ \/ quotes' = quotes
            \/ \E q \in Quote : /\ \A i \in DOMAIN quotes[Terms[q].pool] : quotes[Terms[q].pool][i] # q
                                /\ quotes' = [quotes EXCEPT ![Terms[q].pool] = Append(@, q)]
PROOF
  <1>1. now \in Nat
    BY DEF TypeOK
  <1>2. ASSUME Tick PROVE quotes' = quotes /\ now' = now + 1
    BY <1>2 DEF Tick, provider
  <1>3. ASSUME NEW q \in Quote, Publish(q)
        PROVE  /\ now' = now /\ quotes' = [quotes EXCEPT ![Terms[q].pool] = Append(@, q)]
               /\ \A i \in DOMAIN quotes[Terms[q].pool] : quotes[Terms[q].pool][i] # q
    BY <1>3 DEF Publish
  <1>4. CASE UNCHANGED vars
    BY <1>1, <1>4 DEF vars, provider
  <1>5. ASSUME NEW l \in Leg, NEW a \in Action, Receive(l, a) PROVE quotes' = quotes /\ now' = now
    BY <1>5 DEF Receive, Repeat, Apply, Refuse, provider
  <1>6. ASSUME NEW l, NEW op, (\E good, damaged, final : Fulfill(l, op, good, damaged, final)) \/ Dispute(l, op)
        PROVE  quotes' = quotes /\ now' = now
    BY <1>6 DEF Fulfill, Dispute
  <1>7. ASSUME NEW c, Proceed(c) \/ Send(c) \/ Timeout(c) \/ Lose(c) \/ \E r \in answers : Record(c, r)
        PROVE  quotes' = quotes /\ now' = now
    BY <1>7 DEF Proceed, AskHold, AskConfirm, Commit, Compensate, Send, Timeout, Lose, Record, provider
  <1>8. CASE Next
    <2>1. \/ quotes' = quotes /\ now' = now
          \/ Tick
          \/ \E q \in Quote : Publish(q)
      BY <1>5, <1>6, <1>7, <1>8 DEF Next
    <2>2. CASE Tick
      BY <1>1, <1>2, <2>2
    <2>3. CASE \E q \in Quote : Publish(q)
      BY <1>1, <1>3, <2>3
    <2> QED
      BY <1>1, <2>1, <2>2, <2>3
  <1> QED
    BY <1>4, <1>8

\* The quote a hold was made for stays in its pool.
LEMMA ListedStays ==
  ASSUME TypeOK, [Next]_vars, NEW l \in Leg, Listed(l)
  PROVE  Listed(l)'
PROOF
  <1> DEFINE p == Of(l).pool
  <1>1. p \in Pool /\ quotes[p] \in Seq(Quote)
    BY BookingAssumption DEF Of, TypeOK
  <1>2. ASSUME NEW q \in Quote, quotes' = [quotes EXCEPT ![Terms[q].pool] = Append(@, q)] PROVE Listed(l)'
    <2>1. CASE Terms[q].pool = p
      <3>1. quotes'[p] = Append(quotes[p], q)
        BY <1>1, <1>2, <2>1 DEF TypeOK
      <3>2. \A i \in DOMAIN quotes[p] : i \in DOMAIN quotes'[p] /\ quotes'[p][i] = quotes[p][i]
        BY <1>1, <3>1
      <3> QED
        BY <3>2 DEF Listed, Of
    <2>2. CASE Terms[q].pool # p
      BY <1>1, <1>2, <2>2 DEF Listed, TypeOK, Of
    <2> QED
      BY <2>1, <2>2
  <1>3. CASE quotes' = quotes
    BY <1>3 DEF Listed, Of
  <1> QED
    BY <1>2, <1>3, QuotesNext

\* A quote that is the newest of its entity is in its pool.
Revisions(p, entity) == {i \in DOMAIN quotes[p] : Terms[quotes[p][i]].entity = entity}
LEMMA CurrentIsListed ==
  ASSUME TypeOK, NEW l \in Leg, Current(l)
  PROVE  Listed(l)
PROOF
  <1> DEFINE p == Of(l).pool
             mine == Revisions(p, Of(l).entity)
  <1>1. p \in Pool /\ Booking[l].quote \in Quote
    BY BookingAssumption DEF Of
  <1>2. currentQuote(p, Of(l).entity) = IF mine = {} THEN None ELSE quotes[p][Max(mine)]
    BY DEF currentQuote, Revisions
  <1>3. mine # {} /\ Booking[l].quote = quotes[p][Max(mine)]
    BY <1>1, <1>2, BookingAssumption DEF Current
  <1>4. mine \subseteq 1..Len(quotes[p]) /\ Len(quotes[p]) \in Nat
    BY <1>1 DEF TypeOK, Revisions
  <1>5. Max(mine) \in mine
    BY <1>3, <1>4, MaxOf
  <1> QED
    BY <1>3, <1>5 DEF Listed, Revisions

\* A quote that has been replaced stays replaced: none is published twice.
LEMMA StaysReplaced ==
  ASSUME TypeOK, [Next]_vars, NEW l \in Leg, Listed(l), ~Current(l)
  PROVE  ~Current(l)'
PROOF
  <1> DEFINE p == Of(l).pool
             e == Of(l).entity
  <1>1. p \in Pool /\ quotes[p] \in Seq(Quote) /\ Of(l) = Terms[Booking[l].quote]
    BY BookingAssumption DEF Of, TypeOK
  <1>2. ASSUME quotes'[p] = quotes[p] PROVE ~Current(l)'
    BY <1>2 DEF Current, currentQuote, Of
  <1>3. ASSUME NEW q \in Quote, quotes'[p] = Append(quotes[p], q), \A i \in DOMAIN quotes[p] : quotes[p][i] # q
        PROVE  ~Current(l)'
    <2> DEFINE n == Len(quotes[p])
    <2>1. n \in Nat /\ quotes'[p][n + 1] = q /\ DOMAIN quotes[p] = 1..n /\ DOMAIN quotes'[p] = 1..(n + 1)
          /\ \A i \in 1..n : quotes'[p][i] = quotes[p][i]
      <3> DEFINE s == quotes[p]
      <3>1. s \in Seq(Quote) /\ quotes'[p] = Append(s, q)
        BY <1>1, <1>3
      <3> HIDE DEF s
      <3>2. /\ Len(s) \in Nat /\ Append(s, q)[Len(s) + 1] = q /\ DOMAIN s = 1..Len(s)
            /\ DOMAIN Append(s, q) = 1..(Len(s) + 1) /\ \A i \in 1..Len(s) : Append(s, q)[i] = s[i]
        BY <3>1
      <3> QED
        BY <3>1, <3>2 DEF s
    <2>2. CASE Terms[q].entity # e
      <3>1. {i \in DOMAIN quotes'[p] : Terms[quotes'[p][i]].entity = e}
              = {i \in DOMAIN quotes[p] : Terms[quotes[p][i]].entity = e}
        BY SMTT(30), <2>1, <2>2
      <3>2. {i \in DOMAIN quotes[p] : Terms[quotes[p][i]].entity = e} # {}
        BY <1>1 DEF Listed
      <3> DEFINE mine == {i \in DOMAIN quotes[p] : Terms[quotes[p][i]].entity = e}
      <3>3. Max(mine) \in 1..n
        <4>1. mine \in SUBSET (1..n) /\ mine # {}
          BY <2>1, <3>2
        <4> HIDE DEF mine
        <4>2. Max(mine) \in mine
          BY <2>1, <4>1, MaxOf
        <4> QED
          BY <4>1, <4>2
      <3>4. quotes'[p][Max(mine)] = quotes[p][Max(mine)]
        BY <2>1, <3>3
      <3>5. currentQuote(p, e)' = quotes'[p][Max(mine)] /\ currentQuote(p, e) = quotes[p][Max(mine)]
        BY <3>1, <3>2 DEF currentQuote, Of
      <3> QED
        BY <3>4, <3>5 DEF Current, Of
    <2>3. CASE Terms[q].entity = e
      <3> DEFINE mine == {i \in DOMAIN quotes'[p] : Terms[quotes'[p][i]].entity = e}
      <3>1. n + 1 \in mine /\ mine \in SUBSET (1..(n + 1))
        BY <2>1, <2>3
      <3>2. currentQuote(p, e)' = quotes'[p][Max(mine)]
        BY <3>1 DEF currentQuote, Of
      <3> HIDE DEF mine
      <3>3. Max(mine) = n + 1
        <4>1. Max(mine) \in mine /\ \A y \in mine : Max(mine) >= y
          <5>1. n + 1 \in Nat
            BY <2>1
          <5> HIDE DEF n
          <5> QED
            BY <3>1, <5>1, MaxOf
        <4> QED
          BY <2>1, <3>1, <4>1
      <3>4. currentQuote(p, e)' = q
        BY <2>1, <3>2, <3>3
      <3> QED
        BY <1>3, <3>4 DEF Listed, Current, Of
    <2> QED
      BY <2>2, <2>3
  <1>4. ASSUME NEW q \in Quote, quotes' = [quotes EXCEPT ![Terms[q].pool] = Append(@, q)]
        PROVE  quotes'[p] = quotes[p] \/ (Terms[q].pool = p /\ quotes'[p] = Append(quotes[p], q))
    BY <1>1, <1>4 DEF TypeOK
  <1> QED
    BY <1>2, <1>3, <1>4, QuotesNext

\* What a provider has accepted stays what its holds tell of.
LEMMA LedgerNext ==
  ASSUME TypeOK, Ledger, [Next]_vars
  PROVE  Ledger'
PROOF
  <1>1. ASSUME NEW l \in Leg, NEW a \in Action, Apply(l, a), Commands(l)' = Commands(l) \cup {a}
        PROVE  Commands(l)' = CommandsOf(holds'[l]) /\ holds'[l] # None /\ (holds[l] # None \/ Current(l))
    <2>1. holds'[l] \in Hold /\ holds'[l] # None
      BY <1>1, ApplyEffect, BookingAssumption
    <2>2. CASE a = "hold"
      <3>1. holds[l] = None /\ holds'[l].status = "held"
        BY <1>1, <2>2, ApplyEffect, FreshIsHold
      <3>2. Current(l)
        <4>1. Lapsed(Of(l).pool)[l] = None
          BY <3>1, LapsedHolds
        <4> QED
          BY <1>1, <2>2 DEF Apply, Allowed
      <3> QED
        BY <1>1, <2>1, <2>2, <3>1, <3>2 DEF Ledger, CommandsOf
    <2>3. CASE a # "hold"
      <3>1. holds[l] \in Hold /\ holds[l] # None
        BY <1>1, <2>3, ApplyEffect, BookingAssumption
      <3>2. CASE a = "confirm"
        <4>1. holds[l].status = "held" /\ holds'[l].status = "accepted"
          BY <1>1, <3>2, ApplyEffect
        <4> QED
          BY <1>1, <2>1, <3>1, <3>2, <4>1 DEF Ledger, CommandsOf
      <3>3. CASE a = "release"
        <4>1. holds[l].status \in {"held", "expired"} /\ holds'[l].status = "released"
          BY <1>1, <3>3, ApplyEffect
        <4> QED
          BY <1>1, <2>1, <3>1, <3>3, <4>1 DEF Ledger, CommandsOf
      <3>4. CASE a = "cancel"
        <4>1. holds[l].status = "accepted" /\ holds'[l].status = "cancelled"
          BY <1>1, <3>4, ApplyEffect
        <4> QED
          BY <1>1, <2>1, <3>1, <3>4, <4>1 DEF Ledger, CommandsOf
      <3> QED
        BY <2>3, <3>2, <3>3, <3>4 DEF Action
    <2> QED
      BY <2>2, <2>3
  <1>2. ASSUME NEW l \in Leg, Lapses(l), Commands(l)' = Commands(l)
        PROVE  Commands(l)' = CommandsOf(holds'[l]) /\ (holds'[l] # None => holds[l] # None)
    BY <1>2 DEF Ledger, CommandsOf, Lapses
  <1>3. ASSUME NEW l \in Leg, Commands(l)' = Commands(l), holds[l] \in Hold, holds'[l] \in Hold,
               holds[l].status \in {"accepted", "fulfilling", "completed", "disputed"},
               holds'[l].status \in {"fulfilling", "completed", "disputed"}
        PROVE  Commands(l)' = CommandsOf(holds'[l]) /\ holds[l] # None
    <2>1. holds[l] # None /\ holds'[l] # None
      BY <1>3, BookingAssumption
    <2> QED
      BY <1>3, <2>1 DEF Ledger, CommandsOf
  <1>4. \A l \in Leg : /\ Commands(l)' = CommandsOf(holds'[l])
                       /\ holds'[l] # None => holds[l] # None \/ Current(l)
    BY <1>1, <1>2, <1>3, CommandsNext
  <1>5. \A l \in Leg : holds'[l] # None => Listed(l)'
    <2>1. ASSUME NEW l \in Leg, holds'[l] # None PROVE Listed(l)
      <3>1. holds[l] # None \/ Current(l)
        BY <1>4, <2>1
      <3> QED
        BY <3>1, CurrentIsListed DEF Ledger
    <2> QED
      BY <2>1, ListedStays
  <1> QED
    BY <1>4, <1>5 DEF Ledger

\* A command that was accepted stays accepted.
LEMMA CommandsStay ==
  ASSUME TypeOK, [Next]_vars, NEW l \in Leg
  PROVE  Commands(l) \subseteq Commands(l)'
  BY CommandsNext

\* A confirmation that could not be accepted cannot be accepted any more.
LEMMA ConfirmStaysDead ==
  ASSUME TypeOK, Ledger, [Next]_vars, NEW l \in Leg, ConfirmDead(l)
  PROVE  ConfirmDead(l)'
PROOF
  <1>1. holds[l] # None /\ holds[l] \in Hold /\ "confirm" \notin Commands(l) /\ Listed(l)
    BY DEF ConfirmDead, TypeOK, Ledger
  <1>2. /\ Booking[l].expires \in Nat /\ Of(l).expires \in Nat /\ Of(l).end \in Nat
        /\ now \in Nat /\ now' \in Nat /\ now' >= now
    BY QuotesNext, BookingAssumption DEF Of
  <1>3. /\ Booking[l].expires <= now => Booking[l].expires <= now'
        /\ ~(Of(l).expires > now) => ~(Of(l).expires > now')
        /\ ~(Of(l).end > now) => ~(Of(l).end > now')
        /\ ~Current(l) => ~Current(l)'
    <2>1. ~Current(l) => ~Current(l)'
      BY <1>1, StaysReplaced
    <2> QED
      BY <1>2, <2>1
  <1>4. ASSUME Lapses(l), Commands(l)' = Commands(l) PROVE ConfirmDead(l)'
    <2>1. holds'[l] # None /\ (holds[l].status # "held" => holds'[l].status # "held")
      BY <1>1, <1>4 DEF Lapses
    <2> QED
      BY <1>1, <1>3, <1>4, <2>1 DEF ConfirmDead, Of
  <1>5. ASSUME Commands(l)' = Commands(l), holds'[l] \in Hold,
               holds'[l].status \in {"fulfilling", "completed", "disputed"}
        PROVE  ConfirmDead(l)'
    <2>1. holds'[l] # None /\ holds'[l].status # "held"
      BY <1>5, BookingAssumption
    <2> QED
      BY <1>1, <1>5, <2>1 DEF ConfirmDead
  <1>6. ASSUME NEW a \in Action, Apply(l, a), Commands(l)' = Commands(l) \cup {a} PROVE ConfirmDead(l)'
    <2>1. a # "hold" /\ holds'[l] \in Hold /\ holds'[l] # None
      BY <1>1, <1>6, ApplyEffect, BookingAssumption
    <2>2. a # "confirm"
      <3>1. ASSUME a = "confirm" PROVE FALSE
        <4>1. /\ holds[l].status = "held" /\ ~(Booking[l].expires <= now)
              /\ Of(l).expires > now /\ Of(l).end > now /\ Current(l)
          BY <1>6, <3>1, ApplyEffect
        <4> QED
          BY <4>1 DEF ConfirmDead
      <3> QED
        BY <3>1
    <2>3. a = "release" => holds'[l].status = "released"
      BY <1>6, ApplyEffect
    <2>4. a = "cancel" => holds'[l].status = "cancelled"
      BY <1>6, ApplyEffect
    <2>5. holds'[l].status # "held" /\ "confirm" \notin Commands(l)'
      BY <1>1, <1>6, <2>1, <2>2, <2>3, <2>4 DEF Action
    <2> QED
      BY <2>1, <2>5 DEF ConfirmDead
  <1> QED
    BY <1>4, <1>5, <1>6, CommandsNext

\* Nor can a cancellation.
LEMMA CancelStaysDead ==
  ASSUME TypeOK, Ledger, [Next]_vars, NEW l \in Leg, CancelDead(l)
  PROVE  CancelDead(l)'
PROOF
  <1>1. holds[l] # None /\ holds[l] \in Hold /\ "confirm" \in Commands(l) /\ "cancel" \notin Commands(l)
    BY DEF CancelDead, TypeOK, Ledger, CommandsOf
  <1>2. holds[l].status \notin {"held", "expired"}
    BY <1>1 DEF Ledger, CommandsOf
  <1>3. ASSUME Lapses(l), Commands(l)' = Commands(l) PROVE CancelDead(l)'
    <2>1. holds'[l].status = holds[l].status /\ holds'[l].fulfilled = holds[l].fulfilled
      BY <1>1, <1>2, <1>3 DEF Lapses
    <2> QED
      BY <1>1, <1>3, <2>1 DEF CancelDead, Of
  <1>4. ASSUME Commands(l)' = Commands(l), holds'[l] \in Hold,
               holds'[l].status \in {"fulfilling", "completed", "disputed"}
        PROVE  CancelDead(l)'
    BY <1>1, <1>4 DEF CancelDead
  <1>5. ASSUME NEW a \in Action, Apply(l, a), Commands(l)' = Commands(l) \cup {a} PROVE CancelDead(l)'
    <2>1. a # "hold" /\ a # "confirm"
      BY <1>1, <1>2, <1>5, ApplyEffect
    <2>2. a # "cancel"
      <3>1. ASSUME a = "cancel" PROVE FALSE
        <4>1. holds[l].status = "accepted" /\ ~holds[l].fulfilled /\ Of(l).cancellable
          BY <1>5, <3>1, ApplyEffect
        <4> QED
          BY <4>1 DEF CancelDead
      <3> QED
        BY <3>1
    <2>3. a = "release" => holds'[l].status = "released"
      BY <1>5, ApplyEffect
    <2>4. holds'[l].status = "released" /\ "cancel" \notin Commands(l)' /\ "confirm" \in Commands(l)'
      BY <1>1, <1>5, <2>1, <2>2, <2>3 DEF Action
    <2> QED
      BY <2>4 DEF CancelDead
  <1> QED
    BY <1>3, <1>4, <1>5, CommandsNext

\* What an answer says stays so.
LEMMA TruthStays ==
  ASSUME TypeOK, Ledger, [Next]_vars, NEW x \in Response, Truthful(x)
  PROVE  Truthful(x)'
PROOF
  <1>1. x.leg \in Leg /\ x.action \in Action
    BY DEF Response
  <1>2. CASE x.outcome = "accepted"
    BY <1>1, <1>2, CommandsStay DEF Truthful
  <1>3. CASE x.outcome # "accepted"
    <2>1. /\ x.action = "confirm" => ConfirmDead(x.leg)'
          /\ x.action = "cancel" => CancelDead(x.leg)'
      BY <1>1, <1>3, ConfirmStaysDead, CancelStaysDead DEF Truthful
    <2> QED
      BY <1>3, <2>1 DEF Truthful
  <1> QED
    BY <1>2, <1>3

\* What a coordination does when it goes on with nothing pending.
ProceedEffect(c) ==
  /\ pending[c] = None
  /\ \A d \in Coordination \ {c} : pending'[d] = pending[d] /\ phase'[d] = phase[d]
  /\ pending'[c] # None => pending'[c].leg \in LegsOf(c)
  /\ \A l \in Leg : legs'[l] = legs[l] \/ (l \in LegsOf(c) /\ legs[l] = "accepted" /\ legs'[l] = "exception")
  /\ phase[c] = "compensating" /\ (\E l \in LegsOf(c) : legs[l] = "held") => phase'[c] = "compensating"
  /\ UNCHANGED <<quotes, holds, receipts, responses, requests, answers, now>>
  /\ CoordinationValid(c)'
LEMMA ProceedDoes ==
  ASSUME TypeOK, NEW c \in Coordination, Proceed(c)
  PROVE  ProceedEffect(c)
PROOF
  <1>1. ASSUME NEW s, With(c, s) # {}
        PROVE  Min(With(c, s)) \in DOMAIN Plan[c] /\ Plan[c][Min(With(c, s))] \in LegsOf(c)
    <2>1. With(c, s) \in SUBSET Nat /\ With(c, s) \subseteq DOMAIN Plan[c]
      BY BookingAssumption DEF With
    <2>2. Min(With(c, s)) \in With(c, s)
      BY <1>1, <2>1, MinOf
    <2> QED
      BY <2>1, <2>2 DEF LegsOf
  <1>2. CoordinationValid(c)'
    BY DEF Proceed
  <1>3. CASE AskHold(c)
    <2>1. pending' = [pending EXCEPT ![c] = [leg |-> Plan[c][Min(With(c, "planned"))], action |-> "hold"]]
          /\ With(c, "planned") # {} /\ pending[c] = None
          /\ UNCHANGED <<quotes, holds, receipts, phase, legs, responses, requests, answers, now>>
      BY <1>3 DEF AskHold, Ask, provider
    <2>2. pending'[c].leg \in LegsOf(c) /\ \A d \in Coordination \ {c} : pending'[d] = pending[d] /\ phase'[d] = phase[d]
      BY <1>1, <2>1 DEF TypeOK
    <2>3. phase[c] # "compensating" \/ phase'[c] = "compensating"
      BY <2>1
    <2> QED
      BY <1>2, <2>1, <2>2, <2>3 DEF ProceedEffect
  <1>4. CASE AskConfirm(c)
    <2>1. pending' = [pending EXCEPT ![c] = [leg |-> Plan[c][Min(With(c, "held"))], action |-> "confirm"]]
          /\ With(c, "held") # {} /\ pending[c] = None /\ phase[c] \in {"holding", "confirming"}
          /\ phase' = [phase EXCEPT ![c] = "confirming"]
          /\ UNCHANGED <<quotes, holds, receipts, legs, responses, requests, answers, now>>
      BY <1>4 DEF AskConfirm, Ask, provider
    <2>2. pending'[c].leg \in LegsOf(c) /\ \A d \in Coordination \ {c} : pending'[d] = pending[d] /\ phase'[d] = phase[d]
      BY <1>1, <2>1 DEF TypeOK
    <2>3. phase[c] # "compensating" \/ phase'[c] = "compensating"
      BY <2>1
    <2> QED
      BY <1>2, <2>1, <2>2, <2>3 DEF ProceedEffect
  <1>5. CASE Commit(c)
    <2>1. phase' = [phase EXCEPT ![c] = "committed"] /\ phase[c] = "confirming" /\ pending[c] = None
          /\ UNCHANGED <<quotes, holds, receipts, legs, pending, responses, requests, answers, now>>
      BY <1>5 DEF Commit, provider
    <2>2. \A d \in Coordination \ {c} : pending'[d] = pending[d] /\ phase'[d] = phase[d]
      BY <2>1 DEF TypeOK
    <2> QED
      BY <1>2, <2>1, <2>2 DEF ProceedEffect
  <1>6. CASE Compensate(c)
    <2> DEFINE fixed == {i \in With(c, "accepted") : ~Of(Plan[c][i]).cancellable}
               open == (With(c, "held") \cup With(c, "accepted")) \ fixed
               stuck == {Plan[c][i] : i \in {x \in fixed : \A y \in open : x < y}}
    <2>1. /\ pending[c] = None
          /\ legs' = [l \in Leg |-> IF l \in stuck THEN "exception" ELSE legs[l]]
          /\ UNCHANGED <<quotes, holds, receipts, responses, requests, answers, now>>
      BY <1>6 DEF Compensate, provider
    <2>2. \A l \in stuck : l \in LegsOf(c) /\ legs[l] = "accepted"
      BY DEF With, LegsOf
    <2>3. \A l \in Leg : legs'[l] = legs[l] \/ (l \in LegsOf(c) /\ legs[l] = "accepted" /\ legs'[l] = "exception")
      BY <2>1, <2>2
    <2>4. open \in SUBSET Nat /\ open \subseteq DOMAIN Plan[c]
      BY BookingAssumption DEF With
    <2>5. CASE open # {}
      <3>1. /\ \E a : pending' = [pending EXCEPT ![c] = [leg |-> Plan[c][Min(open)], action |-> a]]
            /\ phase' = phase
        BY <1>6, <2>5 DEF Compensate, Ask
      <3> HIDE DEF open, stuck
      <3>2. Min(open) \in DOMAIN Plan[c] /\ Plan[c][Min(open)] \in LegsOf(c)
        <4>1. Min(open) \in open
          BY <2>4, <2>5, MinOf
        <4> QED
          BY <2>4, <4>1 DEF LegsOf
      <3>3. pending'[c].leg \in LegsOf(c) /\ \A d \in Coordination \ {c} : pending'[d] = pending[d]
        BY <3>1, <3>2 DEF TypeOK
      <3> QED
        BY <1>2, <2>1, <2>3, <3>1, <3>3 DEF ProceedEffect
    <2>6. CASE open = {}
      <3>1. /\ \E s : phase' = [phase EXCEPT ![c] = s]
            /\ pending' = pending
        BY <1>6, <2>6 DEF Compensate
      <3>2. (\A l \in LegsOf(c) : legs[l] # "held") /\ \A d \in Coordination \ {c} : phase'[d] = phase[d]
        BY <2>6, <3>1 DEF With, LegsOf, TypeOK
      <3> QED
        BY <1>2, <2>1, <2>3, <3>1, <3>2 DEF ProceedEffect
    <2> QED
      BY <2>5, <2>6
  <1> QED
    BY <1>3, <1>4, <1>5, <1>6 DEF Proceed

\* What recording an answer does.
RecordEffect(c, r) ==
  /\ r \in answers /\ r \in Response /\ pending[c] = [leg |-> r.leg, action |-> r.action] /\ pending[c] # None
  /\ pending'[c] = None /\ \A d \in Coordination \ {c} : pending'[d] = pending[d] /\ phase'[d] = phase[d]
  /\ Records' = Records \cup {r}
  /\ responses'[c] = responses[c] \cup {r} /\ \A d \in Coordination \ {c} : responses'[d] = responses[d]
  /\ \A l \in Leg \ {r.leg} : legs'[l] = legs[l]
  /\ legs'[r.leg] = IF r.outcome = "accepted" THEN After(r.action)
                    ELSE IF r.action = "hold" THEN "rejected" ELSE IF r.action = "confirm" THEN "held" ELSE "exception"
  /\ phase'[c] = IF r.outcome = "accepted" THEN phase[c] ELSE "compensating"
  /\ answers' = {x \in answers : ~(x.leg = r.leg /\ x.action = r.action)}
  /\ UNCHANGED <<quotes, holds, receipts, requests, now>>
  /\ CoordinationValid(c)'
LEMMA RecordDoes ==
  ASSUME TypeOK, NEW c \in Coordination, NEW r \in answers, Record(c, r)
  PROVE  RecordEffect(c, r)
PROOF
  <1>1. r \in Response /\ r.leg \in Leg /\ r.action \in Action /\ [leg |-> r.leg, action |-> r.action] \in Request
    BY DEF TypeOK, Response, Request
  <1>2. /\ pending[c] = [leg |-> r.leg, action |-> r.action] /\ pending' = [pending EXCEPT ![c] = None]
        /\ responses' = [responses EXCEPT ![c] = @ \cup {r}]
        /\ phase' = IF r.outcome = "accepted" THEN phase ELSE [phase EXCEPT ![c] = "compensating"]
        /\ answers' = {x \in answers : ~(x.leg = r.leg /\ x.action = r.action)}
        /\ UNCHANGED <<quotes, holds, receipts, requests, now>>
        /\ CoordinationValid(c)'
    BY DEF Record, provider
  <1>3. /\ legs' = [legs EXCEPT ![r.leg] =
                      IF r.outcome = "accepted" THEN After(r.action)
                      ELSE CASE r.action \in {"cancel", "release"} -> "exception"
                             [] r.action = "confirm" -> "held" [] r.action = "hold" -> "rejected"]
    BY DEF Record
  <1>4. /\ \A l \in Leg \ {r.leg} : legs'[l] = legs[l]
        /\ legs'[r.leg] = IF r.outcome = "accepted" THEN After(r.action)
                          ELSE IF r.action = "hold" THEN "rejected" ELSE IF r.action = "confirm" THEN "held" ELSE "exception"
    BY <1>1, <1>3 DEF TypeOK, Action
  <1>5. responses'[c] = responses[c] \cup {r} /\ \A d \in Coordination \ {c} : responses'[d] = responses[d]
    BY <1>2 DEF TypeOK
  <1>6. Records' = Records \cup {r}
    BY <1>5 DEF Records
  <1>7. /\ pending'[c] = None /\ \A d \in Coordination \ {c} : pending'[d] = pending[d] /\ phase'[d] = phase[d]
        /\ phase'[c] = IF r.outcome = "accepted" THEN phase[c] ELSE "compensating"
    BY <1>2 DEF TypeOK
  <1>8. pending[c] # None
    BY <1>1, <1>2, BookingAssumption
  <1> QED
    BY <1>1, <1>2, <1>4, <1>5, <1>6, <1>7, <1>8 DEF RecordEffect

\* Every other step leaves the coordinations as they are.
LEMMA CoordinationSteps ==
  ASSUME TypeOK, [Next]_vars
  PROVE  \/ UNCHANGED <<phase, legs, pending, responses>>
         \/ \E c \in Coordination : ProceedEffect(c)
         \/ \E c \in Coordination, r \in answers : RecordEffect(c, r)
PROOF
  <1>1. CASE UNCHANGED vars
    BY <1>1 DEF vars, coordinator
  <1>2. CASE Next
    <2>1. ASSUME NEW l \in Leg, NEW a \in Action, Receive(l, a) PROVE UNCHANGED <<phase, legs, pending, responses>>
      BY <2>1 DEF Receive, Repeat, Apply, Refuse, coordinator
    <2>2. ASSUME NEW q \in Quote, Publish(q) PROVE UNCHANGED <<phase, legs, pending, responses>>
      BY <2>2 DEF Publish, coordinator
    <2>3. ASSUME NEW l, NEW op, (\E good, damaged, final : Fulfill(l, op, good, damaged, final)) \/ Dispute(l, op)
          PROVE  UNCHANGED <<phase, legs, pending, responses>>
      BY <2>3 DEF Fulfill, Dispute, coordinator
    <2>4. ASSUME NEW c \in Coordination, Send(c) \/ Timeout(c) \/ Lose(c)
          PROVE  UNCHANGED <<phase, legs, pending, responses>>
      BY <2>4 DEF Send, Timeout, Lose, coordinator
    <2>5. Tick => UNCHANGED <<phase, legs, pending, responses>>
      BY DEF Tick, coordinator
    <2>6. \/ UNCHANGED <<phase, legs, pending, responses>>
          \/ \E c \in Coordination : Proceed(c)
          \/ \E c \in Coordination, r \in answers : Record(c, r)
      BY <1>2, <2>1, <2>2, <2>3, <2>4, <2>5 DEF Next
    <2> QED
      BY <2>6, ProceedDoes, RecordDoes
  <1> QED
    BY <1>1, <1>2

\* What is sent is what is pending.
LEMMA RequestsNext ==
  ASSUME TypeOK, [Next]_vars
  PROVE  requests' \subseteq requests \cup {pending[c] : c \in {d \in Coordination : pending[d] # None /\ pending' = pending}}
PROOF
  <1>1. CASE UNCHANGED vars
    BY <1>1 DEF vars
  <1>2. ASSUME NEW l \in Leg, NEW a \in Action, Receive(l, a) PROVE requests' = requests
    BY <1>2 DEF Receive, Repeat, Apply, Refuse
  <1>3. ASSUME NEW q \in Quote, Publish(q) PROVE requests' = requests
    BY <1>3 DEF Publish
  <1>4. ASSUME NEW l, NEW op, (\E good, damaged, final : Fulfill(l, op, good, damaged, final)) \/ Dispute(l, op)
        PROVE  requests' = requests
    BY <1>4 DEF Fulfill, Dispute
  <1>5. ASSUME NEW c \in Coordination, Proceed(c) \/ Timeout(c) PROVE requests' = requests
    BY <1>5 DEF Proceed, AskHold, AskConfirm, Commit, Compensate, Timeout
  <1>6. ASSUME NEW c \in Coordination, Lose(c) \/ \E r \in answers : Record(c, r) PROVE requests' \subseteq requests
    BY <1>6 DEF Lose, Record
  <1>7. ASSUME NEW c \in Coordination, Send(c)
        PROVE  requests' = requests \cup {pending[c]} /\ pending[c] # None /\ pending' = pending
    BY <1>7 DEF Send, coordinator
  <1>8. Tick => requests' = requests
    BY DEF Tick
  <1>9. CASE Next
    <2>1. \/ requests' \subseteq requests
          \/ \E c \in Coordination : requests' = requests \cup {pending[c]} /\ pending[c] # None /\ pending' = pending
      BY <1>2, <1>3, <1>4, <1>5, <1>6, <1>7, <1>8, <1>9 DEF Next
    <2> QED
      BY <2>1
  <1> QED
    BY <1>1, <1>9

\* An answer that is sent is to a request that came and has no recorded answer.
AnswerSent(x) ==
  /\ x \in Response /\ x.leg \in Leg /\ x.action \in Action
  /\ answers' \subseteq answers \cup {x}
  /\ ~\E y \in Records : y.leg = x.leg /\ y.action = x.action
  /\ [leg |-> x.leg, action |-> x.action] \in requests
  /\ \/ x.outcome = "accepted" /\ x.action \in Commands(x.leg)'
     \/ x.outcome = "rejected" /\ x.action \notin Commands(x.leg) /\ ~Allowed(x.leg, x.action) /\ UNCHANGED <<holds, receipts>>
  /\ UNCHANGED <<phase, legs, pending, responses>>
LEMMA AnswersNext ==
  ASSUME TypeOK, [Next]_vars
  PROVE  answers' \subseteq answers \/ \E x : AnswerSent(x)
PROOF
  <1>1. CASE UNCHANGED vars
    BY <1>1 DEF vars
  <1>2. ASSUME NEW l \in Leg, NEW a \in Action, NEW o \in {"accepted", "rejected"}, Answer(l, a, o),
               [leg |-> l, action |-> a] \in requests,
               \/ o = "accepted" /\ [leg |-> l, action |-> a] \in receipts'
               \/ o = "rejected" /\ [leg |-> l, action |-> a] \notin receipts /\ ~Allowed(l, a) /\ UNCHANGED <<holds, receipts>>,
               UNCHANGED <<phase, legs, pending, responses>>
        PROVE  answers' \subseteq answers \/ \E x : AnswerSent(x)
    <2> DEFINE x == [leg |-> l, action |-> a, outcome |-> o]
    <2>1. x \in Response /\ x.leg = l /\ x.action = a /\ x.outcome = o
      BY DEF Response
    <2> HIDE DEF x
    <2>2. CASE \E y \in Records : y.leg = l /\ y.action = a
      <3>1. answers' = answers
        BY <1>2, <2>2 DEF Answer, Records
      <3> QED
        BY <3>1
    <2>3. CASE ~\E y \in Records : y.leg = l /\ y.action = a
      <3>1. answers' = answers \cup {x}
        BY <1>2, <2>3 DEF Answer, Records, x
      <3>2. /\ a \in Commands(l)' <=> [leg |-> l, action |-> a] \in receipts'
            /\ a \in Commands(l) <=> [leg |-> l, action |-> a] \in receipts
        BY DEF Commands
      <3>3. AnswerSent(x)
        BY <1>2, <2>1, <2>3, <3>1, <3>2 DEF AnswerSent
      <3> QED
        BY <3>3
    <2> QED
      BY <2>2, <2>3
  <1>3. ASSUME NEW l \in Leg, NEW a \in Action, Receive(l, a) PROVE answers' \subseteq answers \/ \E x : AnswerSent(x)
    <2>1. CASE Repeat(l, a)
      BY <1>2, <2>1 DEF Repeat, provider, coordinator
    <2>2. CASE Apply(l, a)
      <3>1. [leg |-> l, action |-> a] \in requests /\ [leg |-> l, action |-> a] \in receipts' /\ Answer(l, a, "accepted")
            /\ UNCHANGED <<phase, legs, pending, responses>>
        BY <2>2 DEF Apply, coordinator
      <3> QED
        BY <1>2, <3>1
    <2>3. CASE Refuse(l, a)
      <3>1. /\ [leg |-> l, action |-> a] \in requests /\ [leg |-> l, action |-> a] \notin receipts
            /\ Answer(l, a, "rejected") /\ ~Allowed(l, a) /\ UNCHANGED <<holds, receipts>>
            /\ UNCHANGED <<phase, legs, pending, responses>>
        BY <2>3 DEF Refuse, provider, coordinator
      <3> QED
        BY <1>2, <3>1
    <2> QED
      BY <1>3, <2>1, <2>2, <2>3 DEF Receive
  <1>4. ASSUME NEW q \in Quote, Publish(q) PROVE answers' = answers
    BY <1>4 DEF Publish
  <1>5. ASSUME NEW l, NEW op, (\E good, damaged, final : Fulfill(l, op, good, damaged, final)) \/ Dispute(l, op)
        PROVE  answers' = answers
    BY <1>5 DEF Fulfill, Dispute
  <1>6. ASSUME NEW c \in Coordination, Proceed(c) \/ Send(c) \/ Timeout(c) PROVE answers' = answers
    BY <1>6 DEF Proceed, AskHold, AskConfirm, Commit, Compensate, Send, Timeout
  <1>7. ASSUME NEW c \in Coordination, Lose(c) \/ \E r \in answers : Record(c, r) PROVE answers' \subseteq answers
    BY <1>7 DEF Lose, Record
  <1>8. Tick => answers' = answers
    BY DEF Tick
  <1>9. CASE Next
    <2>1. answers' \subseteq answers \/ \E l \in Leg, a \in Action : Receive(l, a)
      BY <1>4, <1>5, <1>6, <1>7, <1>8, <1>9 DEF Next
    <2> QED
      BY <1>3, <2>1
  <1> QED
    BY <1>1, <1>9

\* Whoever waits for a command is the one coordination of the leg, and nothing else is waited for there.
LEMMA OneWaits ==
  ASSUME InPlan, NEW c \in Coordination, pending[c] # None, NEW l \in Leg, l = pending[c].leg, NEW a \in Action, Waiting(l, a)
  PROVE  a = pending[c].action
PROOF
  <1>1. PICK d \in Coordination : pending[d] = [leg |-> l, action |-> a]
    BY DEF Waiting
  <1>2. [leg |-> l, action |-> a] # None
    BY BookingAssumption DEF Request
  <1> QED
    BY <1>1, <1>2, OneOwner DEF InPlan

\* What is refused is refused for good: nothing that is asked for is refused for now.
LEMMA RefusedForGood ==
  ASSUME Knowledge, NEW x \in Response, ~\E y \in Records : y.leg = x.leg /\ y.action = x.action,
         [leg |-> x.leg, action |-> x.action] \in requests, x.outcome = "rejected",
         x.action \notin Commands(x.leg), ~Allowed(x.leg, x.action)
  PROVE  Truthful(x)
PROOF
  <1> DEFINE l == x.leg
             a == x.action
             h == Lapsed(Of(l).pool)[l]
  <1>0. l \in Leg /\ a \in Action /\ TypeOK
    BY DEF Response, Knowledge
  <1>1. PICK c \in Coordination : pending[c] = [leg |-> l, action |-> a]
    <2>1. Asked(l, a)
      BY DEF Knowledge, OnlyAsked
    <2>2. Waiting(l, a)
      BY <2>1 DEF Asked, Recorded
    <2> QED
      BY <2>2 DEF Waiting
  <1>2. pending[c].leg = l /\ pending[c].action = a /\ pending[c] # None
    BY <1>0, <1>1, BookingAssumption DEF Request
  <1>3. Awaits(c) /\ l \in LegsOf(c) /\ Story(l)
    BY <1>0, <1>2 DEF Knowledge, CoordinationValid, InPlan
  <1>4. \A b \in Commands(l) : b \in Action /\ (b = a \/ \E y \in Records : y.leg = l /\ y.action = b)
    <2>0. \A b \in Commands(l) : b \in Action
      BY DEF Commands
    <2> SUFFICES ASSUME NEW b \in Commands(l), b # a PROVE \E y \in Records : y.leg = l /\ y.action = b
      BY <2>0
    <2>1. Asked(l, b)
      BY <1>0 DEF Knowledge, OnlyAsked
    <2>2. ~Waiting(l, b)
      BY <1>0, <1>2, <2>0, OneWaits DEF Knowledge
    <2> QED
      BY <2>1, <2>2 DEF Asked, Recorded
  <1>5. \A y \in Records : Truthful(y) /\ y.outcome \in {"accepted", "rejected"}
    BY <1>0 DEF Knowledge, Told, Records, TypeOK, Response
  <1>6. Commands(l) = CommandsOf(holds[l]) /\ (holds[l] # None => holds[l] \in Hold)
    BY <1>0 DEF Knowledge, Ledger, TypeOK
  <1>7. /\ h = None <=> holds[l] = None
        /\ holds[l] # None =>
             /\ h.fulfilled = holds[l].fulfilled
             /\ h.status = holds[l].status \/ (holds[l].status = "held" /\ h.status = "expired" /\ Booking[l].expires <= now)
    BY <1>0, LapsedHolds
  <1> HIDE DEF h
  <1>8. CASE a = "hold"
    BY <1>8 DEF Truthful
  <1>9. CASE a \in {"confirm", "release"}
    <2>1. legs[l] = "held"
      BY <1>2, <1>3, <1>9 DEF Awaits
    <2>2. "hold" \in Commands(l)
      <3>1. [leg |-> l, action |-> "hold", outcome |-> "accepted"] \in Records
        BY <1>3, <2>1 DEF Story, Answered, Recorded
      <3> QED
        BY <1>5, <3>1 DEF Truthful
    <2>3. holds[l] # None
      BY <1>6, <2>2 DEF CommandsOf
    <2>4. CASE a = "confirm"
      <3>1. ~(/\ h.status = "held" /\ Booking[l].expires > now /\ Of(l).expires > now /\ Of(l).end > now /\ Current(l))
        BY <1>7, <2>3, <2>4 DEF Allowed, h
      <3>2. Booking[l].expires \in Nat /\ now \in Nat
        BY <1>0, BookingAssumption DEF TypeOK
      <3>3. ConfirmDead(l)
        BY <1>7, <2>3, <2>4, <3>1, <3>2 DEF ConfirmDead
      <3> QED
        BY <2>4, <3>3 DEF Truthful
    <2>5. CASE a = "release"
      <3>1. "confirm" \notin Commands(l)
        <4>1. ASSUME "confirm" \in Commands(l) PROVE FALSE
          <5>1. PICK y \in Records : y.leg = l /\ y.action = "confirm"
            BY <1>4, <2>5, <4>1
          <5>2. y.outcome = "rejected"
            BY <1>3, <2>1, <5>1 DEF Story, Recorded
          <5>3. ConfirmDead(l)
            BY <1>5, <5>1, <5>2 DEF Truthful
          <5> QED
            BY <4>1, <5>3 DEF ConfirmDead
        <4> QED
          BY <4>1
      <3>2. holds[l].status \in {"held", "expired"}
        BY <1>6, <2>3, <2>5, <3>1 DEF CommandsOf
      <3>3. h.status \in {"held", "expired"} /\ h # None
        BY <1>7, <2>3, <3>2
      <3>4. Allowed(l, a)
        BY <2>5, <3>3 DEF Allowed, h
      <3> QED
        BY <3>4
    <2> QED
      BY <1>9, <2>4, <2>5
  <1>10. CASE a = "cancel"
    <2>1. legs[l] = "accepted"
      BY <1>2, <1>3, <1>10 DEF Awaits
    <2>2. "confirm" \in Commands(l)
      <3>1. [leg |-> l, action |-> "confirm", outcome |-> "accepted"] \in Records
        BY <1>3, <2>1 DEF Story, Answered, Recorded
      <3> QED
        BY <1>5, <3>1 DEF Truthful
    <2>3. holds[l] # None /\ holds[l].status \notin {"held", "expired"}
      BY <1>6, <2>2 DEF CommandsOf
    <2>4. h # None /\ h.status = holds[l].status /\ h.fulfilled = holds[l].fulfilled
      BY <1>7, <2>3
    <2>5. ~(h.status = "accepted" /\ Of(l).cancellable /\ ~h.fulfilled)
      BY <1>10, <2>4 DEF Allowed, h
    <2>6. CancelDead(l)
      BY <1>10, <2>2, <2>4, <2>5 DEF CancelDead
    <2> QED
      BY <1>10, <2>6 DEF Truthful
  <1> QED
    BY <1>0, <1>8, <1>9, <1>10 DEF Action

\* What is said is true in the next state too.
LEMMA ToldNext ==
  ASSUME Knowledge, [Next]_vars
  PROVE  Told'
PROOF
  <1>0. TypeOK /\ Ledger /\ Told
    BY DEF Knowledge
  <1>1. \A x \in answers \cup Records : x \in Response /\ Truthful(x)'
    <2>1. \A x \in answers \cup Records : x \in Response
      BY <1>0 DEF TypeOK, Records
    <2> QED
      BY <1>0, <2>1, TruthStays DEF Told
  <1>2. ASSUME NEW x, AnswerSent(x) PROVE Truthful(x)'
    <2>1. CASE x.outcome = "accepted"
      BY <1>2, <2>1 DEF AnswerSent, Truthful
    <2>2. CASE x.outcome # "accepted"
      <3>1. x \in Response /\ x.outcome = "rejected"
        BY <1>2, <2>2 DEF AnswerSent
      <3>2. Truthful(x)
        BY <1>2, <3>1, RefusedForGood DEF AnswerSent
      <3> QED
        BY <1>0, <3>1, <3>2, TruthStays
    <2> QED
      BY <2>1, <2>2
  <1>3. \A x \in answers' : Truthful(x)'
    <2>1. CASE answers' \subseteq answers
      BY <1>1, <2>1
    <2>2. CASE \E x : AnswerSent(x)
      <3>1. PICK x : AnswerSent(x)
        BY <2>2
      <3>2. answers' \subseteq answers \cup {x}
        BY <3>1 DEF AnswerSent
      <3> QED
        BY <1>1, <1>2, <3>1, <3>2
    <2> QED
      BY <1>0, <2>1, <2>2, AnswersNext
  <1>4. Records' \subseteq Records \cup answers
    <2>1. CASE responses' = responses
      BY <2>1 DEF Records
    <2>2. CASE \E c \in Coordination, r \in answers : RecordEffect(c, r)
      BY <2>2 DEF RecordEffect
    <2> QED
      BY <1>0, <2>1, <2>2, CoordinationSteps DEF ProceedEffect
  <1> QED
    BY <1>1, <1>3, <1>4 DEF Told

\* What is asked for stays asked for.
LEMMA AskedStays ==
  ASSUME Knowledge, [Next]_vars, NEW l \in Leg, NEW a \in Action, Asked(l, a)
  PROVE  Asked(l, a)'
PROOF
  <1>0. TypeOK
    BY DEF Knowledge
  <1>1. [leg |-> l, action |-> a] # None
    BY BookingAssumption DEF Request
  <1>2. CASE UNCHANGED <<phase, legs, pending, responses>>
    BY <1>2 DEF Asked, Waiting, Recorded, Records
  <1>3. ASSUME NEW c \in Coordination, ProceedEffect(c) PROVE Asked(l, a)'
    <2>1. \A d \in Coordination : pending[d] # None => pending'[d] = pending[d]
      BY <1>3 DEF ProceedEffect
    <2>2. Waiting(l, a) => Waiting(l, a)'
      BY <1>1, <2>1 DEF Waiting
    <2>3. Records' = Records
      BY <1>3 DEF ProceedEffect, Records
    <2> QED
      BY <2>2, <2>3 DEF Asked, Recorded
  <1>4. ASSUME NEW c \in Coordination, NEW r \in answers, RecordEffect(c, r) PROVE Asked(l, a)'
    <2>1. Records' = Records \cup {r} /\ pending[c] = [leg |-> r.leg, action |-> r.action]
          /\ \A d \in Coordination \ {c} : pending'[d] = pending[d]
      BY <1>4 DEF RecordEffect
    <2>2. CASE \E x \in Recorded(l) : x.action = a
      BY <2>1, <2>2 DEF Asked, Recorded
    <2>3. ASSUME NEW d \in Coordination, pending[d] = [leg |-> l, action |-> a] PROVE Asked(l, a)'
      <3>1. CASE d # c
        BY <2>1, <2>3, <3>1 DEF Asked, Waiting
      <3>2. CASE d = c
        <4>1. r.leg = l /\ r.action = a
          BY <2>1, <2>3, <3>2
        <4> QED
          BY <2>1, <4>1 DEF Asked, Recorded
      <3> QED
        BY <3>1, <3>2
    <2> QED
      BY <2>2, <2>3 DEF Asked, Waiting
  <1> QED
    BY <1>0, <1>2, <1>3, <1>4, CoordinationSteps

LEMMA OnlyAskedNext ==
  ASSUME Knowledge, [Next]_vars
  PROVE  OnlyAsked'
PROOF
  <1>0. TypeOK /\ OnlyAsked /\ TypeOK'
    BY TypeNext DEF Knowledge
  <1>1. \A r \in requests' : Asked(r.leg, r.action)'
    <2> SUFFICES ASSUME NEW r \in requests' PROVE Asked(r.leg, r.action)'
      OBVIOUS
    <2>1. r \in Request /\ r.leg \in Leg /\ r.action \in Action /\ r = [leg |-> r.leg, action |-> r.action]
      BY <1>0 DEF TypeOK, Request
    <2>2. CASE r \in requests
      BY <1>0, <2>1, <2>2, AskedStays DEF OnlyAsked
    <2>3. CASE \E c \in Coordination : r = pending[c] /\ pending' = pending
      <3>1. Waiting(r.leg, r.action)'
        BY <2>1, <2>3 DEF Waiting
      <3> QED
        BY <3>1 DEF Asked
    <2> QED
      BY <1>0, <2>2, <2>3, RequestsNext
  <1>2. \A l \in Leg : \A a \in Commands(l)' : Asked(l, a)'
    <2>1. ASSUME NEW l \in Leg, NEW a \in Commands(l) PROVE Asked(l, a)'
      <3>1. a \in Action
        BY DEF Commands
      <3> QED
        BY <1>0, <3>1, AskedStays DEF OnlyAsked
    <2>2. ASSUME NEW l \in Leg, NEW a \in Action, Apply(l, a) PROVE Asked(l, a)'
      <3>1. [leg |-> l, action |-> a] \in requests
        BY <2>2 DEF Apply
      <3>2. Asked(l, a)
        BY <1>0, <3>1 DEF OnlyAsked
      <3> QED
        BY <3>2, AskedStays
    <2> QED
      BY <1>0, <2>1, <2>2, CommandsNext
  <1>3. \A x \in answers' : Waiting(x.leg, x.action)'
    <2> SUFFICES ASSUME NEW x \in answers' PROVE Waiting(x.leg, x.action)'
      OBVIOUS
    <2>0. x.leg \in Leg /\ x.action \in Action /\ [leg |-> x.leg, action |-> x.action] # None
      BY <1>0, BookingAssumption DEF TypeOK, Response, Request
    <2>1. Waiting(x.leg, x.action)
      <3>1. CASE x \in answers
        BY <1>0, <3>1 DEF OnlyAsked
      <3>2. CASE AnswerSent(x)
        <4>1. Asked(x.leg, x.action)
          BY <1>0, <3>2 DEF OnlyAsked, AnswerSent
        <4> QED
          BY <3>2, <4>1 DEF AnswerSent, Asked, Recorded
      <3>3. x \in answers \/ AnswerSent(x)
        BY <1>0, AnswersNext DEF AnswerSent
      <3> QED
        BY <3>1, <3>2, <3>3
    <2>2. PICK d \in Coordination : pending[d] = [leg |-> x.leg, action |-> x.action]
      BY <2>1 DEF Waiting
    <2>3. CASE UNCHANGED <<phase, legs, pending, responses>>
      BY <2>2, <2>3 DEF Waiting
    <2>4. ASSUME NEW c \in Coordination, ProceedEffect(c) PROVE Waiting(x.leg, x.action)'
      BY <2>0, <2>2, <2>4 DEF ProceedEffect, Waiting
    <2>5. ASSUME NEW c \in Coordination, NEW r \in answers, RecordEffect(c, r) PROVE Waiting(x.leg, x.action)'
      <3>1. /\ ~(x.leg = r.leg /\ x.action = r.action) /\ pending[c] = [leg |-> r.leg, action |-> r.action]
            /\ \A e \in Coordination \ {c} : pending'[e] = pending[e]
        BY <2>5 DEF RecordEffect
      <3>2. d # c
        BY <2>2, <3>1
      <3> QED
        BY <2>2, <3>1, <3>2 DEF Waiting
    <2> QED
      BY <1>0, <2>3, <2>4, <2>5, CoordinationSteps
  <1> QED
    BY <1>1, <1>2, <1>3 DEF OnlyAsked

LEMMA InPlanNext ==
  ASSUME Knowledge, [Next]_vars
  PROVE  InPlan'
PROOF
  <1>0. TypeOK /\ InPlan
    BY DEF Knowledge
  <1>1. \A c \in Coordination : LegsOf(c)' = LegsOf(c)
    BY DEF LegsOf
  <1>2. CASE UNCHANGED <<phase, legs, pending, responses>>
    BY <1>0, <1>2 DEF InPlan, LegsOf
  <1>3. ASSUME NEW c \in Coordination, ProceedEffect(c) PROVE InPlan'
    <2>1. /\ \A d \in Coordination \ {c} : pending'[d] = pending[d]
          /\ pending'[c] # None => pending'[c].leg \in LegsOf(c)
          /\ responses' = responses
      BY <1>3 DEF ProceedEffect
    <2> QED
      BY <1>0, <2>1 DEF InPlan, LegsOf
  <1>4. ASSUME NEW c \in Coordination, NEW r \in answers, RecordEffect(c, r) PROVE InPlan'
    <2>1. /\ \A d \in Coordination \ {c} : pending'[d] = pending[d] /\ responses'[d] = responses[d]
          /\ pending'[c] = None /\ responses'[c] = responses[c] \cup {r}
          /\ pending[c] # None /\ pending[c] = [leg |-> r.leg, action |-> r.action]
      BY <1>4 DEF RecordEffect
    <2>2. r.leg \in LegsOf(c)
      BY <1>0, <2>1 DEF InPlan
    <2> QED
      BY <1>0, <2>1, <2>2 DEF InPlan, LegsOf
  <1> QED
    BY <1>0, <1>2, <1>3, <1>4, CoordinationSteps

\* A leg whose status, and whose answers, stay keeps its story, as long as its coordination goes on taking back.
LEMMA StoryStays ==
  ASSUME NEW l \in Leg, Story(l), legs'[l] = legs[l], Recorded(l)' = Recorded(l),
         legs[l] = "held" => \A c \in Coordination : l \in LegsOf(c) /\ phase[c] = "compensating" => phase'[c] = "compensating"
  PROVE  Story(l)'
PROOF
  <1>1. CASE legs[l] = "held"
    BY <1>1 DEF Story, Answered, LegsOf
  <1>2. CASE legs[l] # "held"
    BY <1>2 DEF Story, Answered
  <1> QED
    BY <1>1, <1>2

\* The story of the leg an answer is recorded for.
LEMMA StoryRecorded ==
  ASSUME Knowledge, NEW c \in Coordination, NEW r \in answers, RecordEffect(c, r)
  PROVE  Story(r.leg)'
PROOF
  <1> DEFINE l == r.leg
  <1>0. /\ r \in Response /\ l \in Leg /\ r.action \in Action /\ r.outcome \in {"accepted", "rejected"}
        /\ r = [leg |-> l, action |-> r.action, outcome |-> r.outcome]
    BY DEF RecordEffect, Response
  <1>1. /\ pending[c] = [leg |-> l, action |-> r.action] /\ pending[c] # None
        /\ pending[c].leg = l /\ pending[c].action = r.action
        /\ Records' = Records \cup {r}
        /\ legs'[l] = IF r.outcome = "accepted" THEN After(r.action)
                      ELSE IF r.action = "hold" THEN "rejected" ELSE IF r.action = "confirm" THEN "held" ELSE "exception"
        /\ phase'[c] = IF r.outcome = "accepted" THEN phase[c] ELSE "compensating"
    BY DEF RecordEffect
  <1>2. l \in LegsOf(c) /\ Awaits(c) /\ Story(l) /\ Truthful(r)
    BY <1>0, <1>1 DEF Knowledge, InPlan, CoordinationValid, Told
  <1>3. Recorded(l)' = Recorded(l) \cup {r}
    BY <1>1 DEF Recorded
  <1>4. Answered(l, r.action, r.outcome)' /\ \A a, o : Answered(l, a, o) => Answered(l, a, o)'
    BY <1>0, <1>3 DEF Answered
  <1>5. \A d \in Coordination : l \in LegsOf(d) => d = c
    BY <1>2, OneOwner
  <1>6. CASE r.action = "hold"
    <2>1. Recorded(l)' = {r}
      BY <1>1, <1>2, <1>3, <1>6 DEF Awaits, Story
    <2>2. legs'[l] = IF r.outcome = "accepted" THEN "held" ELSE "rejected"
      BY <1>1, <1>6 DEF After
    <2> QED
      BY <1>0, <1>4, <1>6, <2>1, <2>2 DEF Story
  <1>7. CASE r.action = "confirm"
    <2>1. legs[l] = "held" /\ phase[c] = "confirming"
      BY <1>1, <1>2, <1>7 DEF Awaits
    <2>2. \A x \in Recorded(l) : x.action = "hold"
      BY <1>2, <2>1 DEF Story
    <2>3. legs'[l] = IF r.outcome = "accepted" THEN "accepted" ELSE "held"
      BY <1>1, <1>7 DEF After
    <2>4. CASE r.outcome = "accepted"
      <3>1. legs'[l] = "accepted" /\ Answered(l, "confirm", "accepted")'
        BY <1>4, <1>7, <2>3, <2>4
      <3>2. \A x \in Recorded(l)' : x.action \in {"hold", "confirm"}
        BY <1>3, <1>7, <2>2
      <3> QED
        BY <3>1, <3>2 DEF Story
    <2>5. CASE r.outcome = "rejected"
      <3>1. legs'[l] = "held" /\ Answered(l, "hold", "accepted")' /\ phase'[c] = "compensating"
        BY <1>1, <1>2, <1>4, <2>1, <2>3, <2>5 DEF Story
      <3>2. \A x \in Recorded(l)' : x.action = "hold" \/ (x.action = "confirm" /\ x.outcome = "rejected")
        BY <1>3, <1>7, <2>2, <2>5
      <3>3. \A d \in Coordination : l \in LegsOf(d) => phase'[d] = "compensating"
        BY <1>5, <3>1
      <3> QED
        BY <3>1, <3>2, <3>3 DEF Story, LegsOf
    <2> QED
      BY <1>0, <2>4, <2>5
  <1>8. CASE r.action = "release"
    <2>1. r.outcome = "accepted"
      BY <1>0, <1>2, <1>8 DEF Truthful
    <2>2. legs'[l] = "released" /\ Answered(l, "release", "accepted")'
      BY <1>1, <1>4, <1>8, <2>1 DEF After
    <2> QED
      BY <2>2 DEF Story
  <1>9. CASE r.action = "cancel"
    <2>1. legs[l] = "accepted"
      BY <1>1, <1>2, <1>9 DEF Awaits
    <2>2. Answered(l, "confirm", "accepted") /\ \A x \in Recorded(l) : x.action \in {"hold", "confirm"}
      BY <1>2, <2>1 DEF Story
    <2>3. CASE r.outcome = "accepted"
      <3>1. legs'[l] = "cancelled" /\ Answered(l, "cancel", "accepted")'
        BY <1>1, <1>4, <1>9, <2>3 DEF After
      <3> QED
        BY <3>1 DEF Story
    <2>4. CASE r.outcome = "rejected"
      <3>1. legs'[l] = "exception" /\ Answered(l, "confirm", "accepted")'
        BY <1>1, <1>4, <1>9, <2>2, <2>4
      <3>2. \A x \in Recorded(l)' : x.action = "cancel" => x.outcome = "rejected"
        BY <1>3, <2>2, <2>4
      <3> QED
        BY <3>1, <3>2 DEF Story
    <2> QED
      BY <1>0, <2>3, <2>4
  <1> QED
    BY <1>0, <1>6, <1>7, <1>8, <1>9 DEF Action

LEMMA StoryNext ==
  ASSUME Knowledge, [Next]_vars
  PROVE  \A l \in Leg : Story(l)'
PROOF
  <1>0. TypeOK /\ \A l \in Leg : Story(l)
    BY DEF Knowledge
  <1>1. CASE UNCHANGED <<phase, legs, pending, responses>>
    <2>1. \A l \in Leg : Recorded(l)' = Recorded(l)
      BY <1>1 DEF Recorded, Records
    <2> QED
      BY <1>0, <1>1, <2>1, StoryStays
  <1>2. ASSUME NEW c \in Coordination, ProceedEffect(c), NEW l \in Leg PROVE Story(l)'
    <2>1. Recorded(l)' = Recorded(l)
      BY <1>2 DEF ProceedEffect, Recorded, Records
    <2>2. CASE legs'[l] = legs[l]
      <3>1. legs[l] = "held" => \A d \in Coordination : l \in LegsOf(d) /\ phase[d] = "compensating" => phase'[d] = "compensating"
        BY <1>2 DEF ProceedEffect
      <3> QED
        BY <1>0, <2>1, <2>2, <3>1, StoryStays
    <2>3. CASE legs[l] = "accepted" /\ legs'[l] = "exception"
      BY <1>0, <2>1, <2>3 DEF Story, Answered
    <2> QED
      BY <1>2, <2>2, <2>3 DEF ProceedEffect
  <1>3. ASSUME NEW c \in Coordination, NEW r \in answers, RecordEffect(c, r), NEW l \in Leg PROVE Story(l)'
    <2>1. CASE l = r.leg
      BY <1>3, <2>1, StoryRecorded
    <2>2. CASE l # r.leg
      <3>1. legs'[l] = legs[l] /\ Recorded(l)' = Recorded(l)
        BY <1>3, <2>2 DEF RecordEffect, Recorded
      <3>2. \A d \in Coordination : phase[d] = "compensating" => phase'[d] = "compensating"
        BY <1>3 DEF RecordEffect
      <3> QED
        BY <1>0, <3>1, <3>2, StoryStays
    <2> QED
      BY <2>1, <2>2
  <1> QED
    BY <1>0, <1>1, <1>2, <1>3, CoordinationSteps

\* Every coordination stays one its own check accepts: a step of another one, or of a provider, cannot change that.
LEMMA ValidNext ==
  ASSUME Knowledge, [Next]_vars
  PROVE  \A c \in Coordination : CoordinationValid(c)'
PROOF
  <1>0. TypeOK /\ InPlan /\ \A c \in Coordination : CoordinationValid(c)
    BY DEF Knowledge
  <1>1. ASSUME NEW c \in Coordination, phase'[c] = phase[c], pending'[c] = pending[c],
               \A l \in LegsOf(c) : legs'[l] = legs[l], pending[c] = None => uncertain'[c] = uncertain[c]
        PROVE  CoordinationValid(c)'
    <2>1. CASE pending[c] = None
      BY <1>0, <1>1, <2>1 DEF CoordinationValid, LegsOf, Standing
    <2>2. CASE pending[c] # None
      <3>1. pending[c].leg \in LegsOf(c)
        BY <1>0, <2>2 DEF InPlan
      <3>2. Awaits(c)'
        BY <1>0, <1>1, <2>2, <3>1 DEF CoordinationValid, Awaits
      <3> QED
        BY <1>0, <1>1, <2>2, <3>2 DEF CoordinationValid, LegsOf, Standing
    <2> QED
      BY <2>1, <2>2
  <1>2. ASSUME NEW c \in Coordination, ProceedEffect(c), NEW d \in Coordination \ {c}, uncertain'[d] = uncertain[d]
        PROVE  CoordinationValid(d)'
    <2>1. \A l \in LegsOf(d) : l \in Leg /\ l \notin LegsOf(c)
      BY OneOwner
    <2>2. \A l \in LegsOf(d) : legs'[l] = legs[l]
      BY <1>2, <2>1 DEF ProceedEffect
    <2> QED
      BY <1>1, <1>2, <2>2 DEF ProceedEffect
  <1>3. ASSUME NEW c \in Coordination, NEW r \in answers, RecordEffect(c, r), NEW d \in Coordination \ {c},
               uncertain'[d] = uncertain[d]
        PROVE  CoordinationValid(d)'
    <2>1. r.leg \in LegsOf(c)
      <3>1. pending[c].leg = r.leg /\ pending[c] # None
        BY <1>3 DEF RecordEffect
      <3> QED
        BY <1>0, <3>1 DEF InPlan
    <2>2. \A l \in LegsOf(d) : l \in Leg /\ l # r.leg
      BY <2>1, OneOwner
    <2>3. \A l \in LegsOf(d) : legs'[l] = legs[l]
      BY <1>3, <2>2 DEF RecordEffect
    <2> QED
      BY <1>1, <1>3, <2>3 DEF RecordEffect
  <1> DEFINE Kept == UNCHANGED <<phase, legs, pending>> /\ \A c \in Coordination : pending[c] = None => uncertain'[c] = uncertain[c]
             Only(c) == \A d \in Coordination \ {c} : uncertain'[d] = uncertain[d]
  <1>4. \/ Kept
        \/ \E c \in Coordination : ProceedEffect(c) /\ Only(c)
        \/ \E c \in Coordination, r \in answers : RecordEffect(c, r) /\ Only(c)
    <2>1. CASE UNCHANGED vars
      BY <2>1 DEF vars, coordinator
    <2>2. ASSUME NEW l \in Leg, NEW a \in Action, Receive(l, a) PROVE Kept
      BY <2>2 DEF Receive, Repeat, Apply, Refuse, coordinator
    <2>3. ASSUME NEW q \in Quote, Publish(q) PROVE Kept
      BY <2>3 DEF Publish, coordinator
    <2>4. ASSUME NEW l, NEW op, (\E good, damaged, final : Fulfill(l, op, good, damaged, final)) \/ Dispute(l, op) PROVE Kept
      BY <2>4 DEF Fulfill, Dispute, coordinator
    <2>5. ASSUME NEW c \in Coordination, Send(c) \/ Lose(c) PROVE Kept
      BY <2>5 DEF Send, Lose, coordinator
    <2>6. ASSUME NEW c \in Coordination, Timeout(c) PROVE Kept
      <3>1. uncertain' = [uncertain EXCEPT ![c] = TRUE] /\ pending[c] # None /\ UNCHANGED <<phase, legs, pending>>
        BY <2>6 DEF Timeout
      <3>2. \A d \in Coordination \ {c} : uncertain'[d] = uncertain[d]
        BY <1>0, <3>1 DEF TypeOK
      <3> QED
        BY <3>1, <3>2
    <2>7. Tick => Kept
      BY DEF Tick, coordinator
    <2>8. ASSUME NEW c \in Coordination, Proceed(c) PROVE ProceedEffect(c) /\ Only(c)
      <3>1. \E u : uncertain' = [uncertain EXCEPT ![c] = u]
        BY <2>8 DEF Proceed, AskHold, AskConfirm, Commit, Compensate
      <3> QED
        BY <1>0, <2>8, <3>1, ProceedDoes DEF TypeOK
    <2>9. ASSUME NEW c \in Coordination, NEW r \in answers, Record(c, r) PROVE RecordEffect(c, r) /\ Only(c)
      <3>1. \E u : uncertain' = [uncertain EXCEPT ![c] = u]
        BY <2>9 DEF Record
      <3> QED
        BY <1>0, <2>9, <3>1, RecordDoes DEF TypeOK
    <2> HIDE DEF Kept, Only
    <2> QED
      BY <2>1, <2>2, <2>3, <2>4, <2>5, <2>6, <2>7, <2>8, <2>9 DEF Next
  <1>5. CASE Kept
    BY <1>1, <1>5
  <1>6. ASSUME NEW c \in Coordination, ProceedEffect(c), Only(c) PROVE \A d \in Coordination : CoordinationValid(d)'
    BY <1>2, <1>6 DEF ProceedEffect
  <1>7. ASSUME NEW c \in Coordination, NEW r \in answers, RecordEffect(c, r), Only(c)
        PROVE  \A d \in Coordination : CoordinationValid(d)'
    BY <1>3, <1>7 DEF RecordEffect
  <1> QED
    BY <1>4, <1>5, <1>6, <1>7

LEMMA KnowledgeNext ==
  ASSUME Knowledge, [Next]_vars
  PROVE  Knowledge'
  BY TypeNext, LedgerNext, ToldNext, OnlyAskedNext, InPlanNext, StoryNext, ValidNext DEF Knowledge

\* When a coordination is over nothing of it is on its way, so what its legs say is what was accepted.
LEMMA KnowledgeShows ==
  ASSUME Knowledge, NEW c \in Coordination, phase[c] \in Terminal, NEW l \in LegsOf(c)
  PROVE  Obliged(l) <=> legs[l] \in {"accepted", "exception"}
PROOF
  <1>0. l \in Leg /\ TypeOK
    BY OneOwner DEF Knowledge
  <1>1. pending[c] = None /\ legs[l] \in Standing[phase[c]] /\ Story(l)
    BY <1>0 DEF Knowledge, CoordinationValid
  <1>2. \A a \in Action : ~Waiting(l, a)
    <2>1. ASSUME NEW d \in Coordination, NEW a \in Action, pending[d] = [leg |-> l, action |-> a] PROVE FALSE
      <3>1. pending[d] # None /\ pending[d].leg = l
        BY <1>0, <2>1, BookingAssumption DEF Request
      <3>2. d = c
        BY <3>1, OneOwner DEF Knowledge, InPlan
      <3> QED
        BY <1>1, <3>1, <3>2
    <2> QED
      BY <2>1 DEF Waiting
  <1>3. \A a \in Commands(l) : a \in Action /\ \E x \in Recorded(l) : x.action = a
    <2>1. \A a \in Commands(l) : a \in Action /\ Asked(l, a)
      BY <1>0 DEF Knowledge, OnlyAsked, Commands
    <2> QED
      BY <1>2, <2>1 DEF Asked
  <1>4. \A x \in Recorded(l) : Truthful(x) /\ x.leg = l
    BY DEF Knowledge, Told, Recorded
  <1>5. \A a : Answered(l, a, "accepted") => a \in Commands(l)
    BY <1>4 DEF Answered, Truthful
  <1>6. Commands(l) = CommandsOf(holds[l]) /\ (holds[l] # None => holds[l].status \in Status)
    BY <1>0 DEF Knowledge, Ledger, TypeOK, Hold, Status
  <1>7. legs[l] \in {"planned", "held", "accepted", "released", "cancelled", "rejected", "exception"} /\ legs[l] # "held"
    BY <1>1 DEF Terminal, Standing
  <1>8. CASE legs[l] = "planned"
    <2>1. Commands(l) = {}
      BY <1>1, <1>3, <1>8 DEF Story
    <2> QED
      BY <1>6, <1>8, <2>1 DEF CommandsOf, Obliged
  <1>9. CASE legs[l] = "rejected"
    <2>1. \A a \in Commands(l) : a = "hold"
      BY <1>1, <1>3, <1>9 DEF Story
    <2> QED
      BY <1>6, <1>9, <2>1 DEF CommandsOf, Obliged
  <1>10. CASE legs[l] = "released"
    <2>1. "release" \in Commands(l)
      BY <1>1, <1>5, <1>10 DEF Story
    <2> QED
      BY <1>6, <1>10, <2>1 DEF CommandsOf, Obliged
  <1>11. CASE legs[l] = "cancelled"
    <2>1. "cancel" \in Commands(l)
      BY <1>1, <1>5, <1>11 DEF Story
    <2> QED
      BY <1>6, <1>11, <2>1 DEF CommandsOf, Obliged
  <1>12. CASE legs[l] \in {"accepted", "exception"}
    <2>1. "confirm" \in Commands(l)
      BY <1>1, <1>5, <1>12 DEF Story
    <2>2. "cancel" \notin Commands(l)
      <3>1. ASSUME "cancel" \in Commands(l) PROVE FALSE
        <4>1. PICK x \in Recorded(l) : x.action = "cancel"
          BY <1>3, <3>1
        <4>2. x.outcome = "rejected" /\ x.outcome # "accepted"
          BY <1>1, <1>12, <4>1 DEF Story
        <4>3. CancelDead(l)
          BY <1>4, <4>1, <4>2 DEF Truthful
        <4> QED
          BY <3>1, <4>3 DEF CancelDead
      <3> QED
        BY <3>1
    <2> QED
      BY <1>6, <1>12, <2>1, <2>2 DEF CommandsOf, Obliged, Status
  <1> QED
    BY <1>7, <1>8, <1>9, <1>10, <1>11, <1>12

\* When a coordination is over, what it says of each leg is so at the provider, whatever was
\* lost, late or repeated: nothing is forgotten after a lost answer, and nothing is claimed that
\* a provider does not owe (recordCoordinatorResponse, planCoordinator, provider).
THEOREM SafeOutcome == Spec => []OutcomeTrue
PROOF
  <1>1. Init => Knowledge
    <2> SUFFICES ASSUME Init PROVE Knowledge
      OBVIOUS
    <2>1. TypeOK
      BY BookingAssumption DEF Init, TypeOK, Phase, LegStatus
    <2>2. /\ Records = {} /\ answers = {} /\ requests = {} /\ \A c \in Coordination : pending[c] = None /\ responses[c] = {}
          /\ \A l \in Leg : legs[l] = "planned" /\ holds[l] = None /\ Commands(l) = {} /\ Recorded(l) = {}
          /\ \A c \in Coordination : phase[c] = "holding" /\ ~uncertain[c]
      BY DEF Init, Records, Commands, Recorded
    <2>3. Ledger
      BY <2>2 DEF Ledger, CommandsOf
    <2>4. Told /\ OnlyAsked /\ InPlan
      BY <2>2 DEF Told, OnlyAsked, InPlan
    <2>5. \A l \in Leg : Story(l)
      BY <2>2 DEF Story
    <2>6. \A c \in Coordination : CoordinationValid(c)
      <3>1. \A c \in Coordination : \A l \in LegsOf(c) : l \in Leg
        BY OneOwner
      <3> QED
        BY <2>2, <3>1 DEF CoordinationValid, Standing, Terminal
    <2> QED
      BY <2>1, <2>3, <2>4, <2>5, <2>6 DEF Knowledge
  <1>2. Knowledge /\ [Next]_vars => Knowledge'
    BY KnowledgeNext
  <1>3. Knowledge => OutcomeTrue
    BY KnowledgeShows DEF OutcomeTrue
  <1> QED
    BY <1>1, <1>2, <1>3, PTL DEF Spec
=============================================================================
