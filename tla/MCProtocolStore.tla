--------------------------- MODULE MCProtocolStore ---------------------------
(***************************************************************************)
(* ProtocolStore for TLC.  Each seed is a store with a few registered      *)
(* identities, and lets some record types evolve.                          *)
(***************************************************************************)
EXTENDS ProtocolStore, TLC

CONSTANTS Ann, Ben, Cleo, App, k1, k2, k3, k4

Root == [role |-> "root", status |-> "active"]
KeyRow(kind, owner) == [kind |-> kind, owner |-> owner, role |-> "root", status |-> "active"]
Identity(n, type, k, c, m, listed, vis) ==
  [id |-> n, root |-> n, type |-> type, key |-> k, issuer |-> c, module |-> None, subject |-> c, counterparties |-> {},
   visibility |-> vis, supersedes |-> None, body |-> KeysBody(m, listed :> Root), is_head |-> TRUE]

Bare == [companies |-> [c \in Company |-> None], modules |-> [m \in Module |-> None], keys |-> [k \in Key |-> None],
         records |-> << >>,
         limit |-> [records |-> 3, types |-> {}, parties |-> {Ann, Ben}, newcomers |-> {}, visibility |-> {"public"},
                    keys |-> {k1, k2, k3}, scopes |-> {}, consumer |-> None, chains |-> 1, horizon |-> 0,
                    follow |-> [type |-> None, place |-> << >>]]]
Two == [Bare EXCEPT !.companies[Ann] = 1, !.companies[Ben] = 2,
                    !.keys[k1] = KeyRow("company", Ann), !.keys[k2] = KeyRow("company", Ben),
                    !.records = <<Identity(1, "company", k1, Ann, None, k1, "public"), Identity(2, "company", k2, Ben, None, k2, "private")>>]
Three == [Two EXCEPT !.companies[Cleo] = 3, !.keys[k3] = KeyRow("company", Cleo),
                     !.records = Append(@, Identity(3, "company", k3, Cleo, None, k3, "public")),
                     !.limit.parties = {Ann, Ben, Cleo}]
WithApp == [Two EXCEPT !.modules[App] = [publisher |-> Ann, head |-> 3], !.keys[k3] = KeyRow("module", App),
                       !.records = Append(@, Identity(3, "module", k1, Ann, App, k3, "public"))]
Extend(seed, types, n, vis) ==
  [seed EXCEPT !.limit.types = types, !.limit.records = Len(seed.records) + n, !.limit.visibility = vis]

\* Registration and the change of keys.
Registering == [Extend(Bare, {"company", "module"}, 4, {"public"}) EXCEPT !.limit.newcomers = {Ann}, !.limit.keys = {k1, k2}]
\* Grants, what a module does with them, and who can read it.
Scope(namespace, type, access) == [namespace |-> namespace, type |-> type, access |-> access]
Granting == [Extend(WithApp, {"grant", "cte"}, 3, {"counterparties", "granted", "private"})
               EXCEPT !.limit.scopes = {{Scope("traceability", None, "write")}, {Scope(None, "cte", "read")}},
                      !.limit.horizon = 1]
\* The feed of a company that may not read everything.
Feeding == [Extend(Two, {"cte"}, 3, {"counterparties", "private", "public"}) EXCEPT !.limit.chains = 2, !.limit.consumer = Ben]
Follow(seed, type, place) == [seed EXCEPT !.limit.follow = [type |-> type, place |-> place]]
\* Chains of several versions, each with a member that was agreed.
Agreed == [contract |-> <<"price_per_unit", "amount">>, fulfillment |-> <<"quantity_delivered", "amount">>,
           invoice |-> <<"total", "amount">>, advance |-> <<"principal", "amount">>, advance_offer |-> <<"fee", "fee_bps">>]
Chain(seed, type, n) == Follow(Extend(seed, {type}, n, {"counterparties"}), type, Agreed[type])
Agreements == {Chain(Three, "contract", 4), Chain(Two, "fulfillment", 4)} \cup {Chain(Two, type, 3) : type \in {"invoice", "advance", "advance_offer"}}
Agreeing == Extend(Two, {"standing_agreement"}, 3, {"counterparties"})
\* Every other type, one chain.
Chains == {Extend(Two, {type}, 3, {"counterparties"}) : type \in Type \ ({"company", "module", "grant", "standing_agreement"}
                                                                                  \cup DOMAIN Agreed)}

\* Every member of every body that is neither a role nor part of the model by itself, through one revision.
Following(type) ==
  {Follow(Extend(Two, {type}, 2, {"counterparties"}), type, p) :
     p \in {x \in Places(Body[type]) : x[1] \notin Apart(type)}}
Followings == UNION {Following(type) : type \in Type \ {"company", "module", "grant"}}

AllSeeds == {Registering, Granting, Feeding, Agreeing} \cup Agreements \cup Chains \cup Followings
=============================================================================
