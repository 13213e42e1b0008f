---------------------------- MODULE RecordSchemas ----------------------------
(***************************************************************************)
(* The record types of the v0.2 store: the registry of sdk/src/schemas.ts, *)
(* and what its x-dtp keywords say about each type: its roles, and its     *)
(* status machine (who may create it, in which status, who may move it     *)
(* where, and the members of a body that are fixed).  What the bodies are  *)
(* made of is in RecordBodies.                                             *)
(***************************************************************************)

Moves(from, to, by) == {[from |-> f, to |-> t, by |-> by] : f \in from, t \in to}

\* A type whose keywords say nothing but the roles.
Plain(namespace, roles) ==
  [namespace |-> namespace, roles |-> roles, third |-> {}, stateful |-> FALSE,
   initial |-> {}, creators |-> {"any"}, moves |-> {}, append_only |-> FALSE, locked |-> {}, terms |-> {},
   revisers |-> {"subject"}]

Machine(type, initial, creators, moves) ==
  [type EXCEPT !.stateful = TRUE, !.initial = initial, !.creators = creators, !.moves = moves]

Company_ == Plain("core", {})

Module_ == Plain("core", {})

Grant == Machine(Plain("core", {}), {"active"}, {"subject"}, Moves({"active"}, {"active", "revoked"}, {"subject"}))

Advance ==
  [Machine(Plain("finance", {"seller", "financer"}), {"funded"}, {"financer"},
           Moves({"funded"}, {"partially_repaid", "repaid", "defaulted"}, {"financer"})
           \cup Moves({"partially_repaid"}, {"repaid", "defaulted"}, {"financer"})
           \cup Moves({"defaulted"}, {"repaid", "written_off"}, {"financer"}))
     EXCEPT !.revisers = {"financer"}, !.locked = {"funded", "partially_repaid", "repaid", "defaulted", "written_off"},
            !.terms = {"advance_offer_id", "invoice_id", "seller_company_id", "financer_company_id", "principal",
                      "fee", "funded_at", "funding_event_id", "maturity_at"}]

AdvanceOffer ==
  [Machine(Plain("finance", {"seller", "financer"}), {"offered"}, {"financer"},
           Moves({"offered"}, {"accepted", "declined"}, {"seller"}) \cup Moves({"offered"}, {"withdrawn"}, {"financer"})
           \cup Moves({"offered"}, {"expired"}, {"seller", "financer"}))
     EXCEPT !.revisers = {"financer"}, !.locked = {"offered", "accepted", "declined", "withdrawn", "expired"},
            !.terms = {"invoice_id", "seller_company_id", "financer_company_id", "advance_amount", "advance_bps",
                      "fee", "repayment", "recourse", "pricing_basis", "expires_at"}]

Invoice ==
  [Machine(Plain("finance", {"seller", "buyer"}), {"draft", "issued"}, {"seller"},
           Moves({"draft"}, {"issued", "void"}, {"seller"}) \cup Moves({"issued"}, {"acknowledged", "disputed"}, {"buyer"})
           \cup Moves({"issued"}, {"partially_paid", "paid", "void"}, {"seller"})
           \cup Moves({"acknowledged"}, {"partially_paid", "paid"}, {"seller"})
           \cup Moves({"acknowledged"}, {"disputed"}, {"buyer"}) \cup Moves({"disputed"}, {"acknowledged"}, {"buyer"})
           \cup Moves({"disputed"}, {"void"}, {"seller"}) \cup Moves({"partially_paid"}, {"paid"}, {"seller"}))
     EXCEPT !.locked = {"issued", "acknowledged", "disputed", "partially_paid", "paid", "void"},
            !.terms = {"invoice_number", "seller_company_id", "buyer_company_id", "contract_id", "fulfillment_id",
                      "line_items", "subtotal", "deductions", "total", "issued_at", "due_at", "payment_terms"}]

SettlementEvent ==
  [Plain("finance", {"payer", "payee"}) EXCEPT !.creators = {"payer"}, !.append_only = TRUE]

CoaAnchor == [Plain("traceability", {"anchor"}) EXCEPT !.creators = {"anchor"}]

Cte == [Plain("traceability", {"actor"}) EXCEPT !.creators = {"actor"}]

Contract ==
  [Machine(Plain("trade", {"buyer", "seller", "arbitrator"}), {"active"}, {"buyer", "seller"},
           Moves({"active"}, {"in_fulfillment"}, {"seller"}) \cup Moves({"active"}, {"cancelled"}, {"buyer", "seller"})
           \cup Moves({"in_fulfillment"}, {"delivered", "disputed"}, {"buyer"})
           \cup Moves({"in_fulfillment"}, {"delivered"}, {"seller"}) \cup Moves({"delivered"}, {"settled"}, {"buyer"})
           \cup Moves({"disputed"}, {"resolved_buyer", "resolved_seller"}, {"arbitrator"})
           \cup Moves({"resolved_buyer", "resolved_seller"}, {"settled"}, {"buyer"}))
     EXCEPT !.third = {"arbitrator"},
            !.locked = {"active", "cancelled", "in_fulfillment", "delivered", "disputed", "resolved_buyer",
                        "resolved_seller", "settled"},
            !.terms = {"buyer_company_id", "seller_company_id", "intent_id", "listing_id", "offer_id",
                      "standing_agreement_id", "lot_id", "buyer_po_number", "goods", "delivery", "finance",
                      "freight", "price_per_unit", "total_value", "escrow_ref", "dispute_window_hours"}]

Fulfillment ==
  [Machine(Plain("trade", {"seller", "buyer"}), {"seller_attested"}, {"seller"},
           Moves({"seller_attested"}, {"buyer_attested", "disputed"}, {"buyer"})
           \cup Moves({"seller_attested"}, {"complete"}, {"seller"})
           \cup Moves({"buyer_attested", "disputed"}, {"complete"}, {"buyer", "seller"}))
     EXCEPT !.locked = {"seller_attested", "buyer_attested", "disputed", "complete"},
            !.terms = {"contract_id", "seller_company_id", "buyer_company_id", "delivered_at",
                      "quantity_delivered", "seller_attestation"}]

Intent ==
  Machine(Plain("trade", {"buyer"}), {"draft", "posted"}, {"buyer"},
          Moves({"draft"}, {"posted", "cancelled"}, {"buyer"}) \cup Moves({"posted"}, {"matched", "cancelled", "expired"}, {"buyer"})
          \cup Moves({"matched"}, {"contracted", "cancelled"}, {"buyer"}) \cup Moves({"contracted"}, {"fulfilled"}, {"buyer"})
          \cup Moves({"fulfilled"}, {"settled"}, {"buyer"}))

Listing ==
  Machine(Plain("trade", {"seller"}), {"draft", "active"}, {"seller"},
          Moves({"draft"}, {"active", "withdrawn"}, {"seller"}) \cup Moves({"active"}, {"matched", "withdrawn", "expired"}, {"seller"})
          \cup Moves({"matched"}, {"contracted", "withdrawn"}, {"seller"}))

Offer ==
  Machine(Plain("trade", {"offerer", "target_owner"}), {"submitted"}, {"offerer"},
          Moves({"submitted"}, {"shortlisted"}, {"target_owner"})
          \cup Moves({"submitted", "shortlisted"}, {"accepted", "rejected"}, {"target_owner"})
          \cup Moves({"submitted", "shortlisted"}, {"retracted"}, {"offerer"})
          \cup Moves({"submitted", "shortlisted"}, {"expired"}, {"offerer", "target_owner"}))

Settlement == [Plain("trade", {"buyer", "seller"}) EXCEPT !.creators = {"buyer"}, !.append_only = TRUE]

StandingAgreement ==
  Machine(Plain("trade", {"proposer", "buyer", "seller"}), {"proposed"}, {"proposer"},
          Moves({"proposed", "countered"}, {"countered", "active", "terminated"}, {"buyer", "seller"})
          \cup Moves({"active"}, {"completed", "terminated"}, {"buyer", "seller"}))

Info ==
  [company |-> Company_, module |-> Module_, grant |-> Grant, advance |-> Advance, advance_offer |-> AdvanceOffer,
   invoice |-> Invoice, settlement_event |-> SettlementEvent, coa_anchor |-> CoaAnchor, cte |-> Cte,
   contract |-> Contract, fulfillment |-> Fulfillment, intent |-> Intent, listing |-> Listing, offer |-> Offer,
   settlement |-> Settlement, standing_agreement |-> StandingAgreement]

-----------------------------------------------------------------------------
(* The registry: who may issue a record of a type, and which member of its *)
(* body names the subject.  The default visibility is the writer's affair. *)

Entry(writable_by, subject) == [writable_by |-> writable_by, subject |-> subject]
Both == {"company", "module"}

CoreEntries ==
  [company |-> Entry({"company"}, "self"), module |-> Entry(Both, "publisher_company_id"),
   grant |-> Entry({"company"}, "self")]
TradeEntries ==
  [intent |-> Entry(Both, "buyer_company_id"), listing |-> Entry(Both, "seller_company_id"),
   offer |-> Entry(Both, "offerer_company_id"), contract |-> Entry(Both, "buyer_company_id"),
   fulfillment |-> Entry(Both, "seller_company_id"), settlement |-> Entry(Both, "buyer_company_id"),
   standing_agreement |-> Entry(Both, "proposer_company_id")]
FinanceEntries ==
  [invoice |-> Entry(Both, "seller_company_id"), advance_offer |-> Entry(Both, "seller_company_id"),
   advance |-> Entry(Both, "seller_company_id"), settlement_event |-> Entry(Both, "from_company_id")]
TraceabilityEntries == [cte |-> Entry(Both, "actor_company_id"), coa_anchor |-> Entry(Both, "company_id")]

Registry ==
  [core |-> CoreEntries, trade |-> TradeEntries, finance |-> FinanceEntries, traceability |-> TraceabilityEntries]
EntryOf(type) == Registry[Info[type].namespace][type]


\* x-dtp-roles: the member of a body that names who plays a role.
RoleMember ==
  [buyer |-> "buyer_company_id", seller |-> "seller_company_id", arbitrator |-> "arbitrator_company_id",
   financer |-> "financer_company_id", offerer |-> "offerer_company_id", target_owner |-> "target_owner_company_id",
   proposer |-> "proposer_company_id", payer |-> "from_company_id", payee |-> "to_company_id",
   actor |-> "actor_company_id", anchor |-> "company_id"]
\* The role the subject of a record plays, where it plays one.
SubjectRoles(type) == {role \in Info[type].roles : RoleMember[role] = EntryOf(type).subject}

Type == DOMAIN Info
Statuses(t) == Info[t].initial \cup {m.to : m \in Info[t].moves}
=============================================================================
