---------------------------- MODULE CommitmentSaga ----------------------------
(***************************************************************************)
(* Booking capacity with several providers (sdk/foundation/commitments.ts).*)
(* A provider's pool keeps quotes, holds and receipts; a coordination asks *)
(* one provider after another to hold, then to confirm, and on a refusal   *)
(* takes back what it got.  Requests and answers can be lost, delayed and  *)
(* delivered twice; what a coordination waits for is persisted and sent    *)
(* again.  The pool's compare-and-swap is one step here; losing it is no   *)
(* answer, the request is tried again.  All clocks are one clock.          *)
(***************************************************************************)
EXTENDS Integers, Sequences, FiniteSets, FiniteSetsExt

CONSTANTS Pool, Coordination, Leg, Quote, None,
          Capacity,         \* of each pool
          Terms,            \* of each quote: entity, pool, quantity, start, end, expires, cancellable
          Booking,          \* of each leg: its quote, and when its hold expires
          Plan,             \* the legs of each coordination, in order
          Offered,          \* the quotes each pool has published at the start
          Reports,          \* how many deliveries and disputes each pool reports
          MaxTime

Action == {"hold", "confirm", "release", "cancel"}
Request == [leg : Leg, action : Action]
Hold == [status : {"held", "expired", "released", "accepted", "cancelled", "fulfilling", "completed", "disputed"},
         good : Nat, damaged : Nat, closed : BOOLEAN, fulfilled : BOOLEAN, disputed : BOOLEAN]

\* What quote, hold and coordinator are checked for when they are read; a leg is booked by one coordination, once.
ASSUME BookingAssumption ==
  /\ \A l \in Leg : Booking[l].quote \in Quote /\ Booking[l].expires \in Nat /\ Booking[l].expires <= Terms[Booking[l].quote].expires
  /\ \A q \in Quote : /\ Terms[q].pool \in Pool /\ Terms[q].cancellable \in BOOLEAN
                      /\ {Terms[q].quantity, Terms[q].start, Terms[q].end, Terms[q].expires} \subseteq Nat
  /\ \A c \in Coordination : Plan[c] \in Seq(Leg)
  /\ \A c, d \in Coordination : \A i \in DOMAIN Plan[c], j \in DOMAIN Plan[d] : Plan[c][i] = Plan[d][j] => c = d /\ i = j
  /\ Offered \in [Pool -> Seq(Quote)] /\ Capacity \in [Pool -> Nat] /\ Reports \in [Pool -> Nat]
  /\ IsFiniteSet(Leg) /\ None \notin Request /\ None \notin Hold /\ None \notin Quote

VARIABLES quotes,           \* the quotes of each pool, oldest first
          holds,            \* the hold of each leg at its provider, or None
          receipts,         \* commands the providers have accepted
          phase, legs, pending, uncertain, responses,   \* of each coordination
          requests, answers,                            \* in flight
          now

provider == <<quotes, holds, receipts>>
coordinator == <<phase, legs, pending, uncertain, responses>>
vars == <<provider, coordinator, requests, answers, now>>

Terminal == {"committed", "compensated", "exception"}
Of(l) == Terms[Booking[l].quote]
LegsOf(c) == {Plan[c][i] : i \in DOMAIN Plan[c]}
----------------------------------------------------------------------------
(* A provider's pool *)

\* The newest revision of a quote.
currentQuote(p, entity) ==
  LET mine == {i \in DOMAIN quotes[p] : Terms[quotes[p][i]].entity = entity}
  IN  IF mine = {} THEN None ELSE quotes[p][Max(mine)]
Current(l) == currentQuote(Of(l).pool, Of(l).entity) = Booking[l].quote

\* The holds of a pool after those past their time are marked.
Lapsed(p) ==
  [l \in Leg |-> IF holds[l] # None /\ Of(l).pool = p /\ holds[l].status = "held" /\ Booking[l].expires <= now
                 THEN [holds[l] EXCEPT !.status = "expired"] ELSE holds[l]]

Reserves(h) == h # None /\ h.status \notin {"expired", "released", "cancelled"}
Used(hs, p, t) ==
  SumFunctionOnSet([l \in Leg |-> Of(l).quantity],
                   {l \in Leg : Reserves(hs[l]) /\ Of(l).pool = p /\ Of(l).start <= t /\ t < Of(l).end})
\* Fault: a hold that was confirmed is no longer counted.
ReserveFitsFault(l) ==
  \A t \in Of(l).start..(Of(l).end - 1) :
    Used([x \in Leg |-> IF holds[x] # None /\ Lapsed(Of(l).pool)[x].status = "held" THEN holds[x] ELSE None], Of(l).pool, t)
      + Of(l).quantity <= Capacity[Of(l).pool]
\* The sweep over the ends of the windows: the peak with this leg stays within the capacity.
ReserveFits(l) ==
  \A t \in Of(l).start..(Of(l).end - 1) :
    Used(Lapsed(Of(l).pool), Of(l).pool, t) + Of(l).quantity <= Capacity[Of(l).pool]

\* What every state of a pool is checked for before it is kept.
PoolValid(p) ==
  /\ \A i, j \in DOMAIN quotes[p] : quotes[p][i] = quotes[p][j] => i = j
  /\ \A l \in Leg : holds[l] # None /\ Of(l).pool = p =>
       /\ \E i \in DOMAIN quotes[p] : quotes[p][i] = Booking[l].quote
       /\ holds[l].good + holds[l].damaged <= Of(l).quantity

Allowed(l, action) ==
  LET h == Lapsed(Of(l).pool)[l] IN
  IF action = "hold"
  THEN /\ h = None /\ Current(l) /\ Of(l).expires > now /\ Of(l).end > now /\ Booking[l].expires > now
       /\ ReserveFits(l)
  ELSE /\ h # None
       /\ CASE action = "confirm" -> /\ h.status = "held" /\ Booking[l].expires > now
                                     /\ Of(l).expires > now /\ Of(l).end > now /\ Current(l)
            [] action = "release" -> h.status \in {"held", "expired"}
            [] action = "cancel" -> h.status = "accepted" /\ Of(l).cancellable /\ ~h.fulfilled
            [] OTHER -> FALSE
After(action) ==
  CASE action = "hold" -> "held" [] action = "confirm" -> "accepted" [] action = "release" -> "released"
    [] action = "cancel" -> "cancelled"

\* The answer is sent; one that comes after the first was recorded is dropped there.
Answer(l, action, outcome) ==
  answers' = IF \E c \in Coordination : \E x \in responses[c] : x.leg = l /\ x.action = action THEN answers
             ELSE answers \cup {[leg |-> l, action |-> action, outcome |-> outcome]}
\* A command that was accepted before is answered by its receipt.
Repeat(l, action) ==
  /\ [leg |-> l, action |-> action] \in requests \cap receipts
  /\ Answer(l, action, "accepted")
  /\ UNCHANGED <<provider, coordinator, requests, now>>
Apply(l, action) ==
  /\ [leg |-> l, action |-> action] \in requests \ receipts
  /\ Allowed(l, action)
  /\ holds' = [Lapsed(Of(l).pool) EXCEPT
       ![l] = IF action = "hold"
              THEN [status |-> "held", good |-> 0, damaged |-> 0, closed |-> FALSE, fulfilled |-> FALSE, disputed |-> FALSE]
              ELSE [@ EXCEPT !.status = After(action)]]
  /\ receipts' = receipts \cup {[leg |-> l, action |-> action]}
  /\ Answer(l, action, "accepted")
  /\ UNCHANGED <<quotes, coordinator, requests, now>>
\* A refusal leaves no trace at the provider: the same command may be accepted later.
Refuse(l, action) ==
  /\ [leg |-> l, action |-> action] \in requests \ receipts
  /\ ~Allowed(l, action)
  /\ Answer(l, action, "rejected")
  /\ UNCHANGED <<provider, coordinator, requests, now>>

Publish(q) ==
  LET p == Terms[q].pool IN
  /\ \A i \in DOMAIN quotes[p] : quotes[p][i] # q
  /\ Terms[q].expires > now /\ Terms[q].end > now
  /\ quotes' = [quotes EXCEPT ![p] = Append(@, q)]
  /\ holds' = Lapsed(p)
  /\ UNCHANGED <<receipts, coordinator, requests, answers, now>>
  /\ PoolValid(p)'

\* The ids of the providers' own commands, in the order of their use.
Numbers(p) == {r.operation : r \in {x \in receipts : "operation" \in DOMAIN x /\ Of(x.leg).pool = p}}
Report(l, op, good, damaged) == receipts' = receipts \cup {[leg |-> l, operation |-> op, good |-> good, damaged |-> damaged]}
\* Fault: a report that is sent again is counted again.
UnusedFault(p) == 1..Reports[p]
Unused(p) == {Cardinality(Numbers(p)) + 1} \cap 1..Reports[p]

Delivered(h, q, good, damaged, final) ==
  [h EXCEPT !.good = @ + good, !.damaged = @ + damaged, !.closed = final, !.fulfilled = TRUE,
            !.status = IF h.disputed \/ h.damaged + damaged > 0 \/ (final /\ h.good + good < q.quantity) THEN "disputed"
                       ELSE IF final THEN "completed" ELSE "fulfilling"]
Fulfill(l, op, good, damaged, final) ==
  LET h == Lapsed(Of(l).pool)[l] IN
  /\ h # None /\ h.status \in {"accepted", "fulfilling", "disputed"} /\ ~h.closed
  /\ h.good + h.damaged + good + damaged <= Of(l).quantity
  /\ good + damaged > 0 \/ final
  /\ holds' = [Lapsed(Of(l).pool) EXCEPT ![l] = Delivered(h, Of(l), good, damaged, final)]
  /\ Report(l, op, good, damaged)
  /\ UNCHANGED <<quotes, coordinator, requests, answers, now>>
  /\ PoolValid(Of(l).pool)'
Dispute(l, op) ==
  LET h == Lapsed(Of(l).pool)[l] IN
  /\ h # None /\ h.status \in {"accepted", "fulfilling", "completed", "disputed"}
  /\ holds' = [Lapsed(Of(l).pool) EXCEPT ![l] = [h EXCEPT !.disputed = TRUE, !.status = "disputed"]]
  /\ Report(l, op, 0, 0)
  /\ UNCHANGED <<quotes, coordinator, requests, answers, now>>
  /\ PoolValid(Of(l).pool)'
----------------------------------------------------------------------------
(* The coordination *)

With(c, status) == {i \in DOMAIN Plan[c] : legs[Plan[c][i]] = status}
Ask(c, i, action) == pending' = [pending EXCEPT ![c] = [leg |-> Plan[c][i], action |-> action]]

\* What every state of a coordination is checked for before it is kept: its phase agrees with its legs, and the
\* pending request with the leg it is for.
Standing == [holding |-> {"planned", "held"}, confirming |-> {"held", "accepted"}, committed |-> {"accepted"},
             compensated |-> {"planned", "released", "cancelled", "rejected"},
             exception |-> {"planned", "released", "cancelled", "rejected", "exception"},
             compensating |-> {"planned", "held", "accepted", "released", "cancelled", "rejected", "exception"}]
Awaits(c) ==
  LET status == legs[pending[c].leg] IN
  CASE pending[c].action = "hold" -> phase[c] = "holding" /\ status = "planned"
    [] pending[c].action = "confirm" -> phase[c] = "confirming" /\ status = "held"
    [] pending[c].action = "release" -> phase[c] = "compensating" /\ status = "held"
    [] pending[c].action = "cancel" -> phase[c] = "compensating" /\ status = "accepted"
CoordinationValid(c) ==
  /\ \A l \in LegsOf(c) : legs[l] \in Standing[phase[c]]
  /\ phase[c] = "exception" => \E l \in LegsOf(c) : legs[l] = "exception"
  /\ phase[c] \in Terminal => pending[c] = None
  /\ IF pending[c] = None THEN ~uncertain[c] ELSE Awaits(c)

\* planCoordinator without a pending request.
AskHold(c) ==
  /\ pending[c] = None /\ phase[c] = "holding" /\ With(c, "planned") # {}
  /\ Ask(c, Min(With(c, "planned")), "hold")
  /\ uncertain' = [uncertain EXCEPT ![c] = FALSE]
  /\ UNCHANGED <<provider, phase, legs, responses, requests, answers, now>>
AskConfirm(c) ==
  /\ pending[c] = None /\ phase[c] \in {"holding", "confirming"}
  /\ phase[c] = "holding" => With(c, "planned") = {}
  /\ With(c, "held") # {}
  /\ Ask(c, Min(With(c, "held")), "confirm")
  /\ phase' = [phase EXCEPT ![c] = "confirming"]
  /\ uncertain' = [uncertain EXCEPT ![c] = FALSE]
  /\ UNCHANGED <<provider, legs, responses, requests, answers, now>>
Commit(c) ==
  /\ pending[c] = None /\ phase[c] = "confirming" /\ With(c, "held") = {}
  /\ With(c, "accepted") = DOMAIN Plan[c]
  /\ phase' = [phase EXCEPT ![c] = "committed"]
  /\ uncertain' = [uncertain EXCEPT ![c] = FALSE]
  /\ UNCHANGED <<provider, legs, pending, responses, requests, answers, now>>
\* Take back the first leg that can be: the accepted legs before it that cannot become exceptions.
Compensate(c) ==
  LET fixed == {i \in With(c, "accepted") : ~Of(Plan[c][i]).cancellable}
      open == (With(c, "held") \cup With(c, "accepted")) \ fixed
      stuck == {Plan[c][i] : i \in {x \in fixed : \A y \in open : x < y}}
      next == [l \in Leg |-> IF l \in stuck THEN "exception" ELSE legs[l]]
  IN  /\ pending[c] = None /\ phase[c] = "compensating"
      /\ legs' = next
      /\ IF open # {}
         THEN /\ Ask(c, Min(open), IF legs[Plan[c][Min(open)]] = "held" THEN "release" ELSE "cancel")
              /\ phase' = phase
         ELSE /\ phase' = [phase EXCEPT ![c] = IF \E l \in LegsOf(c) : next[l] = "exception" THEN "exception" ELSE "compensated"]
              /\ pending' = pending
      /\ uncertain' = [uncertain EXCEPT ![c] = FALSE]
      /\ UNCHANGED <<provider, responses, requests, answers, now>>

\* Fault: what timed out once is not sent again.
SendFault(c) ==
  /\ pending[c] # None /\ ~uncertain[c]
  /\ requests' = requests \cup {pending[c]}
  /\ UNCHANGED <<provider, coordinator, answers, now>>
\* planCoordinator with a pending request, after a restart too: the application sends it (again).
Send(c) ==
  /\ pending[c] # None
  /\ requests' = requests \cup {pending[c]}
  /\ UNCHANGED <<provider, coordinator, answers, now>>
\* Fault: a cancellation that is not answered is taken to have worked.
TimeoutFault(c) ==
  /\ pending[c] # None /\ pending[c].action = "cancel"
  /\ legs' = [legs EXCEPT ![pending[c].leg] = "cancelled"] /\ pending' = [pending EXCEPT ![c] = None]
  /\ UNCHANGED <<provider, phase, uncertain, responses, requests, answers, now>>
Timeout(c) ==
  /\ pending[c] # None
  /\ uncertain' = [uncertain EXCEPT ![c] = TRUE]
  /\ UNCHANGED <<provider, phase, legs, pending, responses, requests, answers, now>>

\* The first answer to the pending request counts; one that differs later is an error and changes nothing.
Record(c, r) ==
  /\ r \in answers
  /\ pending[c] = [leg |-> r.leg, action |-> r.action]
  /\ legs' = [legs EXCEPT ![r.leg] =
                IF r.outcome = "accepted" THEN After(r.action)
                ELSE CASE r.action \in {"cancel", "release"} -> "exception"
                       [] r.action = "confirm" -> "held" [] r.action = "hold" -> "rejected"]
  /\ phase' = IF r.outcome = "accepted" THEN phase ELSE [phase EXCEPT ![c] = "compensating"]
  /\ responses' = [responses EXCEPT ![c] = @ \cup {r}]
  /\ pending' = [pending EXCEPT ![c] = None]
  /\ uncertain' = [uncertain EXCEPT ![c] = FALSE]
  /\ answers' = {x \in answers : ~(x.leg = r.leg /\ x.action = r.action)}
  /\ UNCHANGED <<provider, requests, now>>
  /\ CoordinationValid(c)'
----------------------------------------------------------------------------
\* Everything under way for a pending request is lost; a lost copy of an older one is one that never arrives.
Lose(c) ==
  /\ pending[c] \in requests
  /\ requests' = requests \ {pending[c]}
  /\ answers' = {x \in answers : ~(x.leg = pending[c].leg /\ x.action = pending[c].action)}
  /\ UNCHANGED <<provider, coordinator, now>>
Tick == now < MaxTime /\ now' = now + 1 /\ UNCHANGED <<provider, coordinator, requests, answers>>

Init ==
  /\ quotes = Offered /\ holds = [l \in Leg |-> None] /\ receipts = {}
  /\ phase = [c \in Coordination |-> "holding"] /\ legs = [l \in Leg |-> "planned"]
  /\ pending = [c \in Coordination |-> None] /\ uncertain = [c \in Coordination |-> FALSE]
  /\ responses = [c \in Coordination |-> {}]
  /\ requests = {} /\ answers = {} /\ now = 0

Receive(l, action) == Repeat(l, action) \/ (Apply(l, action) /\ PoolValid(Of(l).pool)') \/ Refuse(l, action)
Proceed(c) == (AskHold(c) \/ AskConfirm(c) \/ Commit(c) \/ Compensate(c)) /\ CoordinationValid(c)'
Next ==
  \/ \E l \in Leg, action \in Action : Receive(l, action)
  \/ \E q \in Quote : Publish(q)
  \/ \E l \in Leg : \E op \in Unused(Of(l).pool) :
       \/ \E good, damaged \in 0..Of(l).quantity, final \in BOOLEAN : Fulfill(l, op, good, damaged, final)
       \/ Dispute(l, op)
  \/ \E c \in Coordination : Proceed(c) \/ Send(c) \/ Timeout(c) \/ Lose(c) \/ \E r \in answers : Record(c, r)
  \/ Tick

\* An application that goes on sends again until it has an answer; what is sent again and again arrives.
Fairness ==
  /\ \A c \in Coordination : WF_vars(Proceed(c)) /\ WF_vars(Send(c)) /\ SF_vars(\E r \in answers : Record(c, r))
  /\ \A c \in Coordination : SF_vars(\E l \in LegsOf(c), action \in Action :
       pending[c] = [leg |-> l, action |-> action] /\ Receive(l, action))
Spec == Init /\ [][Next]_vars /\ Fairness
----------------------------------------------------------------------------
(* Properties *)

\* A provider never owes more at one time than its pool holds, whoever booked it and however late a hold that had
\* lapsed is confirmed (reserveFits, and confirm's look at the clock).
NoOvercommit == \A p \in Pool : \A l \in Leg : Used(holds, p, Of(l).start) <= Capacity[p]

\* When a coordination is over, what it says of each leg is so at the provider: a commitment stands exactly where the
\* leg is accepted or an exception. Nothing is forgotten after a lost answer, nothing is claimed that a provider
\* does not owe (recordCoordinatorResponse, planCoordinator).
Obliged(l) == holds[l] # None /\ holds[l].status \in {"accepted", "fulfilling", "completed", "disputed"}
OutcomeTrue ==
  \A c \in Coordination : phase[c] \in Terminal =>
    \A l \in LegsOf(c) : Obliged(l) <=> legs[l] \in {"accepted", "exception"}

\* What a hold says was delivered is the sum of the distinct deliveries reported, within its quantity, and complete
\* means all of it, undamaged and undisputed (fulfill and dispute, with retries).
DeliveredOnce ==
  \A l \in Leg : holds[l] # None =>
    LET mine == {r \in receipts : "operation" \in DOMAIN r /\ r.leg = l}
        h == holds[l]
    IN  /\ h.good = SumFunctionOnSet([r \in mine |-> r.good], mine)
        /\ h.damaged = SumFunctionOnSet([r \in mine |-> r.damaged], mine)
        /\ h.good + h.damaged <= Of(l).quantity
        /\ h.status = "completed" => h.good = Of(l).quantity /\ h.damaged = 0 /\ ~h.disputed

\* A coordination ends, whatever is lost or answered late, as long as it goes on sending: no state it
\* reaches is one that its own check refuses to keep (planCoordinator, coordinator).
Finishes == \A c \in Coordination : <>(phase[c] \in Terminal)
=============================================================================
