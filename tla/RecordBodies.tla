----------------------------- MODULE RecordBodies -----------------------------
(***************************************************************************)
(* The bodies of the v0.2 record types, from sdk/src/schemas.ts: which      *)
(* members a body needs, which it may have, and what each is made of.  A    *)
(* member that is text, a number or one of a few words is a Value, and one  *)
(* that common/ids gives a grammar has the grammar's name; a list stands    *)
(* for its entries.  Members are null or absent alike.  Own members (x_...) *)
(* and the grammars themselves are left out.  The envelope around a body,   *)
(* and the event that announces a record, are shapes too.                   *)
(***************************************************************************)
LOCAL INSTANCE Sequences
LOCAL INSTANCE SequencesExt

Shape(needs, may) == [needs |-> needs, may |-> may, grammar |-> "none"]
Value == Shape(<<>>, <<>>)
Named(grammar) == [Value EXCEPT !.grammar = grammar]

Members(s) == DOMAIN s.needs \cup DOMAIN s.may
Member(s, m) == IF m \in DOMAIN s.needs THEN s.needs[m] ELSE s.may[m]
\* The places in a body, down to three names.
Places(s) ==
  LET one == {<<m>> : m \in Members(s)}
      below(P) == UNION {{Append(p, m) : m \in Members(FoldLeft(Member, s, p))} : p \in P}
  IN  one \cup below(one) \cup below(below(one))
\* Whether what holds a place must fill it.
Needed(s, place) == Last(place) \in DOMAIN FoldLeft(Member, s, Front(place)).needs

-----------------------------------------------------------------------------
(* The grammars of common/ids *)

RecordId == Named("RecordId")
CompanyId == Named("CompanyId")
ModuleId == Named("ModuleId")
KeyId == Named("KeyId")
Signature == Named("Signature")
RecordType == Named("RecordType")
Namespace == Named("Namespace")
SchemaVersion == Named("SchemaVersion")
DateTime == Named("DateTime")
Date == Named("Date")
GLN == Named("GLN")
GTIN == Named("GTIN")
DUNS == Named("DUNS")
Bps == Named("Bps")
CountryCode == Named("CountryCode")

-----------------------------------------------------------------------------
(* Shapes that several bodies use *)

Money == Shape([amount |-> Value, currency |-> Value], <<>>)
Quantity == Shape([amount |-> Value, unit |-> Value], <<>>)
Address == Shape([city |-> Value, region |-> Value, country |-> CountryCode],
                 [line1 |-> Value, line2 |-> Value, postal_code |-> Value])
Attestation == Shape([company_id |-> CompanyId, attested_at |-> DateTime, record_id |-> RecordId], [notes |-> Value])
CertificationRef ==
  Shape([cert_id |-> Value, cert_type |-> Value, issuer |-> Value, issued_at |-> DateTime, status |-> Value],
        [issuer_url |-> Value, expires_at |-> DateTime, verification_url |-> Value])
KeyShape == Shape([key_id |-> KeyId, role |-> Value, status |-> Value, added_at |-> DateTime],
                  [label |-> Value, revoked_at |-> DateTime, near_account |-> Value])
KybRef ==
  Shape([legal_name |-> Value, jurisdiction |-> CountryCode, provider |-> Value, issued_at |-> DateTime, status |-> Value],
        [tax_id |-> Value, attestation_ref |-> Value, expires_at |-> DateTime])
ScopeShape == Shape([access |-> Value], [namespace |-> Value, type |-> RecordType])
Deduction == Shape([reason |-> Value, amount |-> Money], <<>>)

CommodityDetails ==
  Shape(<<>>, [country_of_origin |-> CountryCode, farming_practices |-> Value, grade |-> Value, harvest_date |-> Date])
BrandedDetails == Shape([brand_name |-> Value, sku |-> Value], [gtin |-> GTIN, upc |-> Value, manufacturer |-> Value])
ValueAddedDetails == Shape([process_type |-> Value], [base_ingredients |-> Value, processing_facility |-> Value])
Quality == Shape(<<>>, [grade |-> Value, specifications |-> Value])
GoodsSpec ==
  Shape([category |-> Value, product_name |-> Value, product_type |-> Value, quantity |-> Quantity],
        [description |-> Value, required_certifications |-> Value, packaging |-> Value, shelf_life_days |-> Value,
         commodity_details |-> CommodityDetails, branded_details |-> BrandedDetails,
         value_added_details |-> ValueAddedDetails, quality |-> Quality])
DeliverySpec ==
  Shape([destination |-> Address, window |-> Shape([earliest |-> DateTime, latest |-> DateTime], <<>>), method |-> Value],
        [destination_gln |-> GLN, temperature_requirements |-> Value, notes |-> Value])
FinanceTerms ==
  Shape([payment_timing |-> Value, net_days |-> Value, paca_covered |-> Value, financing_mode |-> Value],
        [liquidity_pool_id |-> Value, financer_company_id |-> CompanyId, finance_fee_bps |-> Bps])
FreightTerms ==
  Shape([payer |-> Value, estimated_freight |-> Money, quote_source |-> Value, quoted_at |-> DateTime,
         booked_at_contract |-> Value],
        [freight_allowance |-> Money, quote_ref |-> Value, quote_expires_at |-> DateTime])
BuyerPricing == Shape([ceiling_price_per_unit |-> Money], [desired_quantity |-> Quantity])
SellerPricing ==
  Shape([model |-> Value, asking_price_per_unit |-> Money],
        [tiers |-> Shape([min_quantity |-> Quantity, price_per_unit |-> Money],
                         [max_quantity |-> Quantity, label |-> Value])])
PackStructure ==
  Shape([unit_size |-> Quantity, units_per_case |-> Value, moq |-> Shape([quantity |-> Quantity], [label |-> Value])],
        [cases_per_pallet |-> Value, pallets_per_truckload |-> Value])
Fee == Shape([fee_bps |-> Bps, apr_bps |-> Bps], [fixed_fee |-> Money])

-----------------------------------------------------------------------------
(* The body of each type *)

Location ==
  Shape([location_id |-> Value, address |-> Address], [label |-> Value, gln |-> GLN, roles |-> Value])
Identifiers == Shape(<<>>, [duns |-> DUNS, tax_id |-> Value, near_account |-> Value])
CompanyBody ==
  Shape([display_name |-> Value, jurisdiction |-> CountryCode, keys |-> KeyShape, locations |-> Location],
        [legal_name |-> Value, business_types |-> Value, kyb |-> KybRef, certifications |-> CertificationRef,
         identifiers |-> Identifiers,
         fsma_pcqi_on_file |-> Value, facility_allergens |-> Value, data_vault_uri |-> Value])

ModuleBody ==
  Shape([module_id |-> ModuleId, name |-> Value, publisher_company_id |-> CompanyId, keys |-> KeyShape],
        [description |-> Value, homepage |-> Value, requested_scopes |-> ScopeShape])

GrantBody ==
  Shape([module_id |-> ModuleId, scopes |-> ScopeShape, status |-> Value], [expires_at |-> DateTime, note |-> Value])

AdvanceBody ==
  Shape([advance_offer_id |-> RecordId, invoice_id |-> RecordId, seller_company_id |-> CompanyId,
         financer_company_id |-> CompanyId, principal |-> Money, fee |-> Fee, funded_at |-> DateTime,
         funding_event_id |-> RecordId, maturity_at |-> DateTime, repaid_amount |-> Money, outstanding |-> Money, status |-> Value],
        [repayment_event_ids |-> RecordId])

AdvanceOfferBody ==
  Shape([invoice_id |-> RecordId, seller_company_id |-> CompanyId, financer_company_id |-> CompanyId, advance_amount |-> Money,
         advance_bps |-> Bps, fee |-> Fee, repayment |-> Shape([source |-> Value, due_at |-> DateTime], <<>>),
         recourse |-> Value, pricing_basis |-> Shape([record_id |-> RecordId, type |-> RecordType], [note |-> Value]),
         expires_at |-> DateTime, status |-> Value],
        <<>>)

LineItem ==
  Shape([description |-> Value, quantity |-> Quantity, unit_price |-> Money, amount |-> Money], [sku |-> Value])
PaymentTerms == Shape([net_days |-> Value, paca_covered |-> Value], [early_pay_discount_bps |-> Bps])
InvoiceBody ==
  Shape([invoice_number |-> Value, seller_company_id |-> CompanyId, buyer_company_id |-> CompanyId,
         contract_id |-> RecordId, line_items |-> LineItem, subtotal |-> Money, deductions |-> Deduction,
         total |-> Money, issued_at |-> DateTime, due_at |-> DateTime, payment_terms |-> PaymentTerms,
         status |-> Value, paid_amount |-> Money, settlement_event_ids |-> RecordId],
        [fulfillment_id |-> RecordId, assigned_to_company_id |-> CompanyId])

SettlementEventBody ==
  Shape([kind |-> Value, from_company_id |-> CompanyId, to_company_id |-> CompanyId, amount |-> Money, occurred_at |-> DateTime,
         rail |-> Value,
         references |-> Shape(<<>>, [invoice_id |-> RecordId, advance_id |-> RecordId, contract_id |-> RecordId,
                                     trade_settlement_id |-> RecordId])],
        [reverses |-> RecordId, rail_ref |-> Value, memo |-> Value])

CoaAnchorBody ==
  Shape([company_id |-> CompanyId, lot_id |-> Value, cert_type |-> Value, issuer |-> Value, doc_hash |-> Value],
        [doc_uri_hint |-> Value, issued_at |-> DateTime, expires_at |-> DateTime])

CteBody ==
  Shape([cte_type |-> Value, lot_id |-> Value, actor_company_id |-> CompanyId, quantity |-> Quantity, event_date |-> DateTime],
        [output_lot_id |-> Value, input_lot_ids |-> Value, actor_gln |-> GLN, source_gln |-> GLN, dest_gln |-> GLN,
         commodity |-> Value, variety |-> Value, contract_id |-> RecordId, notes |-> Value])

ContractBody ==
  Shape([buyer_company_id |-> CompanyId, seller_company_id |-> CompanyId, goods |-> GoodsSpec, delivery |-> DeliverySpec,
         price_per_unit |-> Money, total_value |-> Money, dispute_window_hours |-> Value, status |-> Value],
        [intent_id |-> RecordId, listing_id |-> RecordId, offer_id |-> RecordId, standing_agreement_id |-> RecordId,
         lot_id |-> Value, buyer_po_number |-> Value, finance |-> FinanceTerms, freight |-> FreightTerms,
         escrow_ref |-> Value, arbitrator_company_id |-> CompanyId])

FulfillmentBody ==
  Shape([contract_id |-> RecordId, seller_company_id |-> CompanyId, buyer_company_id |-> CompanyId, delivered_at |-> DateTime,
         quantity_delivered |-> Quantity, seller_attestation |-> Attestation, status |-> Value],
        [buyer_attestation |-> Attestation, deductions |-> Deduction])

IntentBody ==
  Shape([buyer_company_id |-> CompanyId, goods |-> GoodsSpec, delivery |-> DeliverySpec, pricing |-> BuyerPricing,
         expires_at |-> DateTime, status |-> Value],
        [catalog_id |-> Value, finance |-> FinanceTerms, freight |-> FreightTerms])

ListingBody ==
  Shape([seller_company_id |-> CompanyId, goods |-> GoodsSpec, pack_structure |-> PackStructure, delivery |-> DeliverySpec,
         pricing |-> SellerPricing, available_from |-> DateTime, expires_at |-> DateTime, status |-> Value],
        [lot_id |-> Value, finance |-> FinanceTerms, freight |-> FreightTerms, certifications |-> CertificationRef])

OfferBody ==
  Shape([offerer_company_id |-> CompanyId, target_type |-> Value, target_id |-> RecordId, target_owner_company_id |-> CompanyId,
         goods |-> GoodsSpec, delivery |-> DeliverySpec, price_per_unit |-> Money, total_price |-> Money,
         expires_at |-> DateTime, status |-> Value],
        [finance |-> FinanceTerms, freight |-> FreightTerms, certifications |-> CertificationRef])

SettlementBody ==
  Shape([contract_id |-> RecordId, fulfillment_id |-> RecordId, buyer_company_id |-> CompanyId, seller_company_id |-> CompanyId,
         gross_amount |-> Money, deductions |-> Deduction, net_amount |-> Money, settled_at |-> DateTime],
        [escrow_release_tx |-> Value, settlement_event_ids |-> RecordId, corrects |-> RecordId])

StandingAgreementBody ==
  Shape([proposer_company_id |-> CompanyId, proposer_role |-> Value, buyer_company_id |-> CompanyId,
         seller_company_id |-> CompanyId, goods |-> GoodsSpec, signatures |-> Attestation, status |-> Value,
         terms |-> Shape([period_start |-> DateTime, period_end |-> DateTime, pricing |-> SellerPricing, renewal |-> Value],
                         [delivery_cadence |-> Value,
                          volume_commitment |-> Shape(<<>>, [min_quantity_per_period |-> Quantity, period |-> Value,
                                                             committed_total |-> Quantity])])],
        <<>>)

Body ==
  [company |-> CompanyBody, module |-> ModuleBody, grant |-> GrantBody, advance |-> AdvanceBody,
   advance_offer |-> AdvanceOfferBody, invoice |-> InvoiceBody, settlement_event |-> SettlementEventBody,
   coa_anchor |-> CoaAnchorBody, cte |-> CteBody, contract |-> ContractBody, fulfillment |-> FulfillmentBody,
   intent |-> IntentBody, listing |-> ListingBody, offer |-> OfferBody, settlement |-> SettlementBody,
   standing_agreement |-> StandingAgreementBody]

-----------------------------------------------------------------------------
(* Around the bodies.  A genesis record supersedes null; a company's own    *)
(* signature has no module; a record of a type without a machine has no     *)
(* status.                                                                  *)

Issuer == Shape([key_id |-> KeyId, company_id |-> CompanyId], [module_id |-> ModuleId])
EnvelopeShape ==
  Shape([record_id |-> RecordId, root_id |-> RecordId, type |-> RecordType, namespace |-> Namespace,
         schema_version |-> SchemaVersion, subject_company_id |-> CompanyId, counterparty_ids |-> CompanyId,
         issuer |-> Issuer, visibility |-> Value, created_at |-> DateTime, body |-> Value, signature |-> Signature],
        [supersedes |-> RecordId])
EventShape ==
  Shape([cursor |-> Value, event_id |-> RecordId, kind |-> Value, record_id |-> RecordId, root_id |-> RecordId,
         type |-> RecordType, namespace |-> Namespace, schema_version |-> SchemaVersion,
         subject_company_id |-> CompanyId, counterparty_ids |-> CompanyId, issuer |-> Issuer, visibility |-> Value,
         created_at |-> DateTime, recorded_at |-> DateTime],
        [supersedes |-> RecordId, status |-> Value])
=============================================================================
