--------------------------- MODULE MCFoundationStore ---------------------------
(***************************************************************************)
(* Small instances of FoundationFeed, one per hazard; Init picks one.      *)
(***************************************************************************)
EXTENDS FoundationFeed, TLC

CONSTANTS ann, bob, org, root, child, use, r1, rec, op1, op2, n1, n2, n3

GovernedBy(C, k) == [controllers |-> C, threshold |-> k]
Scope == [operations |-> {use}, resource_ids |-> {r1}]
Rule(C, k, x) == [people |-> C, threshold |-> k, exclude_actor |-> x]
Offer(id, parent, subject, expires, depth, limit, rule) ==
    [id |-> id, parent_id |-> parent, subject |-> subject, scope |-> Scope,
     not_before |-> 0, expires_at |-> expires, delegation_depth |-> depth,
     limit |-> limit, approval |-> rule]
Intent(o, up, app, cost) ==
    [operation_id |-> o, operation |-> use, resources |-> {r1}, updates |-> up,
     appends |-> app, cost |-> cost]

Quiet == [genesis |-> GovernedBy({ann}, 1), proposals |-> {}, offers |-> {},
          revokes |-> FALSE, imports |-> {r1}, intents |-> {}, asks |-> {}, approvers |-> {}, nonces |-> Nonce,
          until |-> MaxTime, views |-> 0]

\* Heads and consents: two controllers, three ways on, back and forth.
Succession ==
    [Quiet EXCEPT !.genesis = GovernedBy({ann, bob}, 2),
        !.proposals = {[governance |-> GovernedBy({ann, bob}, 1), expires_at |-> 2],
                       [governance |-> GovernedBy({ann, bob}, 2), expires_at |-> 2],
                       [governance |-> GovernedBy({bob}, 1), expires_at |-> 3]},
        !.imports = {}]
\* A budget of three, delegated: two operations of two do not both fit.
Spending ==
    [Quiet EXCEPT
        !.offers = {Offer(root, None, ann, 4, 1, 3, None), Offer(child, root, bob, 3, 0, 3, None)},
        !.revokes = TRUE, !.asks = {<<ann, root>>, <<bob, child>>},
        !.intents = {Intent(op1, {r1}, {}, 2), Intent(op2, {r1}, {}, 2)}]
\* An approved grant: both operations read and write the same resource.
Approving ==
    [Quiet EXCEPT
        !.offers = {Offer(root, None, ann, 4, 0, 3, Rule({ann, bob}, 1, TRUE))},
        !.intents = {Intent(op1, {r1}, {}, 1), Intent(op2, {r1}, {rec}, 1)},
        !.approvers = {ann, bob}, !.asks = {<<ann, root>>}]
\* One operation id signed for two intents, and a record two of them append.
Appending ==
    [Quiet EXCEPT
        !.offers = {Offer(root, None, ann, 4, 0, 3, None)},
        !.imports = {r1, rec}, !.asks = {<<ann, root>>, <<bob, root>>},
        !.intents = {Intent(op1, {}, {rec}, 1), Intent(op1, {r1}, {}, 1), Intent(op2, {r1}, {rec}, 1)}]

\* A feed: a resource is imported, then updated and a record appended. Two views
\* in one instant, or one view over two instants.
Feeding ==
    [Quiet EXCEPT !.offers = {Offer(root, None, ann, 4, 0, 3, None)}, !.asks = {<<ann, root>>},
        !.intents = {Intent(op1, {r1}, {rec}, 1)}, !.nonces = {n1}, !.until = 0, !.views = 2]
Refreshing == [Quiet EXCEPT !.imports = {r1, rec}, !.until = 1, !.views = 1]

Nonces == Permutations(Nonce)

MCScenarios == {Succession, Spending, Approving, Appending, Feeding, Refreshing}
=============================================================================
