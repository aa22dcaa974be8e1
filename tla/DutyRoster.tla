----------------------------- MODULE DutyRoster -----------------------------
(***************************************************************************)
(* The founder's roster (store/duties.ts), the lanes that claim it          *)
(* (brain/registry.ts) and the two bounds every filing passes before it is  *)
(* judged: the duty governs the verb, and the lane holds the duty.          *)
(***************************************************************************)
EXTENDS Integers, FiniteSets

Rows(door, minLevel, keys) ==
  {[key |-> k, door |-> door, minLevel |-> minLevel] : k \in keys}

\* A door's name without its spaces.
Duties == UNION {
  Rows("NovaHQ", 0, {"ceo.department_oversight", "ceo.risk_alerts"}),
  Rows("NovaHQ", 1, {"ceo.daily_business_brief"}),
  Rows("Goals", 1, {"ceo.goal_tracking"}),
  Rows("Goals", 2, {"ceo.revenue_forecasting", "ceo.weekly_strategy_memo"}),
  Rows("Campaigns", 2, {"growth.seasonal_planning"}),
  Rows("Campaigns", 3, {"marketing.ad_budget_optimization", "marketing.pause_weak_ad_sets",
                        "marketing.seasonal_promotions", "marketing.campaign_scaling"}),
  Rows("ContentStudio", 2, {"marketing.ad_copywriting"}),
  Rows("ContentStudio", 3, {"marketing.social_posts", "marketing.reels_and_stories"}),
  Rows("Broadcast", 3, {"marketing.email_campaigns", "marketing.sms_campaigns",
                        "marketing.push_notifications", "sales.sms_cart_recovery",
                        "sales.abandoned_checkout_emails", "sales.winback_campaigns"}),
  Rows("Coupons", 3, {"sales.upsell_offers", "inventory.dead_stock_clearance", "growth.bundle_offers"}),
  Rows("Inbox", 2, {"sales.inbox_orders", "sales.inbox_discounts", "sales.inbox_cart_recovery",
                    "support.customer_replies", "support.review_responses", "support.inbox_replies",
                    "support.inbox_escalations", "shipping.delivery_cases",
                    "shipping.predispatch_confirms"}),
  Rows("Inbox", 3, {"sales.whatsapp_cart_recovery", "sales.lead_followups", "support.complaint_resolution"}),
  Rows("Orders", 2, {"sales.bulk_buyer_quotes"}),
  Rows("Orders", 3, {"sales.payment_chasing"}),
  Rows("Orders", 4, {"support.refund_processing", "support.replacement_shipments"}),
  Rows("StoreStudio", 2, {"support.faq_policy_updates", "product_research.product_page_generation",
                           "growth.landing_page_variants"}),
  Rows("Dropshipping", 3, {"product_research.winning_product_imports"}),
  Rows("Reports", 1, {"product_research.pricing_research", "finance.ad_spend_audit"}),
  Rows("Reports", 4, {"finance.tax_export"}),
  Rows("Research", 1, {"product_research.trend_scouting", "product_research.competitor_tracking",
                       "growth.competitor_benchmarks"}),
  Rows("Growth", 1, {"growth.hypothesis_backlog"}),
  Rows("Growth", 3, {"product_research.demand_validation", "growth.ab_testing"}),
  Rows("Products", 0, {"inventory.stock_monitoring", "inventory.low_stock_alerts"}),
  Rows("Products", 3, {"inventory.multi_channel_sync"}),
  Rows("Purchases", 2, {"product_research.supplier_sourcing", "inventory.reorder_drafts",
                        "operations.rfq_requests", "operations.po_drafting"}),
  Rows("Purchases", 3, {"operations.supplier_switching"}),
  Rows("Purchases", 4, {"operations.payment_terms_negotiation"}),
  Rows("Delivery", 2, {"shipping.delay_prediction"}),
  Rows("Delivery", 3, {"shipping.pickup_booking", "shipping.delay_chasing"}),
  Rows("RateCompare", 2, {"shipping.rate_compare"}),
  Rows("RTOAnalytics", 2, {"shipping.rto_reduction"}),
  Rows("RFQCompare", 1, {"operations.rfq_compare"}),
  Rows("PLReports", 2, {"finance.pnl_reports"}),
  Rows("Accounts", 1, {"finance.expense_flagging"}),
  Rows("Accounts", 2, {"finance.invoice_logging", "finance.refund_ledger"}),
  Rows("Accounts", 3, {"finance.cod_reconciliation"}) }

DutyByKey == [k \in {d.key : d \in Duties} |-> CHOOSE d \in Duties : d.key = k]

\* Every door the roster names has its screen.
Doors == {d.door : d \in Duties}

\* The status the founder reads: a missing door speaks before a pause, a pause before a level.
DutyStatus(duty, level, enabled, doors) ==
  IF duty.door \notin doors THEN "NEEDS_DOOR"
  ELSE IF ~enabled THEN "PAUSED"
  ELSE IF duty.minLevel > level THEN "LOCKED" ELSE "ACTIVE"

----------------------------------------------------------------------------
(* Which duty may govern a verb.  A verb with no row, or an empty one, is governed by none. *)

VerbDuties ==
  [create_order_from_chat |-> {"sales.inbox_orders"},
   cancel_order_from_chat |-> {"sales.inbox_orders"},
   offer_chat_discount    |-> {"sales.inbox_discounts"},
   send_inbox_reply       |-> {"support.inbox_replies", "support.customer_replies"},
   escalate_conversation  |-> {"support.inbox_escalations"},
   link_customer_identity |-> {"support.inbox_replies"},
   schedule_follow_up     |-> {"support.inbox_replies", "sales.inbox_cart_recovery", "sales.lead_followups"},
   verify_payment_slip    |-> {"support.inbox_replies"},
   open_case              |-> {"shipping.delivery_cases"},
   update_order_contact   |-> {"shipping.delivery_cases"},
   confirm_order_intent   |-> {"shipping.predispatch_confirms"},
   bulk_refund            |-> {"support.refund_processing"},
   flag_courier_issue     |-> {"shipping.delay_chasing", "shipping.delivery_cases"},
   create_purchase_order  |-> {"inventory.reorder_drafts", "operations.po_drafting"},
   switch_supplier        |-> {"operations.supplier_switching"},
   create_discount        |-> {"inventory.dead_stock_clearance", "sales.upsell_offers", "growth.bundle_offers"},
   send_customer_message  |-> {"sales.abandoned_checkout_emails", "sales.sms_cart_recovery",
                               "sales.winback_campaigns", "sales.upsell_offers", "sales.payment_chasing",
                               "sales.lead_followups", "support.customer_replies"},
   update_campaign        |-> {"marketing.ad_budget_optimization", "marketing.pause_weak_ad_sets",
                               "marketing.campaign_scaling"},
   create_campaign        |-> {"marketing.seasonal_promotions"},
   publish_social_post    |-> {"marketing.social_posts", "marketing.reels_and_stories"},
   import_product         |-> {"product_research.winning_product_imports"},
   assign_courier         |-> {"shipping.pickup_booking"},
   update_price           |-> {},
   resolve_ticket         |-> {},
   merge_customer_records |-> {}]

Verbs == DOMAIN VerbDuties
GoverningDuties(verb) == IF verb \in Verbs THEN VerbDuties[verb] ELSE {}

----------------------------------------------------------------------------
(* The lanes: which duties the work of a job kind may be done under.  A server sweep has none. *)

LaneDuties ==
  [pulse                |-> {"ceo.risk_alerts", "ceo.department_oversight",
                             "inventory.stock_monitoring", "inventory.low_stock_alerts"},
   morning_report       |-> {"ceo.daily_business_brief"},
   weekly_strategy      |-> {"ceo.weekly_strategy_memo", "ceo.goal_tracking", "growth.hypothesis_backlog"},
   night_ops            |-> {"marketing.ad_budget_optimization", "marketing.pause_weak_ad_sets",
                             "marketing.campaign_scaling", "marketing.ad_copywriting",
                             "operations.po_drafting", "inventory.reorder_drafts"},
   reflection           |-> {},
   cart_sweep           |-> {"sales.abandoned_checkout_emails", "sales.sms_cart_recovery"},
   inbox_reply          |-> {"support.inbox_replies", "support.customer_replies", "support.inbox_escalations"},
   followup             |-> {"support.inbox_replies", "sales.inbox_cart_recovery", "sales.lead_followups"},
   case_update          |-> {"shipping.delivery_cases", "support.inbox_replies"},
   courier_intervention |-> {"shipping.delay_chasing"},
   restock_check        |-> {"inventory.stock_monitoring"},
   catalog_vision       |-> {}]

ServerSweeps == {"promise_sweep", "identity_merge_sweep", "conversation_distill", "journey_sweep",
                 "inbox_attribution", "inbox_sla_sweep", "order_confirm_sweep", "night_shift",
                 "catalog_photo_sweep"}

Department ==
  [morning_report |-> "ceo", pulse |-> "ceo", weekly_strategy |-> "ceo", night_ops |-> "ceo",
   night_shift |-> "ceo", reflection |-> "ceo", cart_sweep |-> "sales", inbox_reply |-> "support",
   courier_intervention |-> "shipping", restock_check |-> "inventory", catalog_vision |-> "inventory"]

DutyInLane(lane, duty) == lane \in DOMAIN LaneDuties /\ duty \in LaneDuties[lane]

\* Mutant: the lane's claim alone, as before the verbs were bound to duties.
LaneBinding(verb, duty, lane) == lane # "front_office" => DutyInLane(lane, duty)

\* The seam's own assertion, made before the ledger is read or the gate consulted.
DutyBinding(verb, duty, lane) ==
  /\ duty \in GoverningDuties(verb)
  /\ lane # "front_office" => DutyInLane(lane, duty)

\* The founder's roster, less what no lane and no chat verb does today.
Unclaimed ==
  {"ceo.revenue_forecasting", "marketing.email_campaigns", "marketing.sms_campaigns",
   "marketing.push_notifications", "marketing.social_posts", "marketing.reels_and_stories",
   "marketing.seasonal_promotions", "sales.whatsapp_cart_recovery", "sales.bulk_buyer_quotes",
   "sales.payment_chasing", "sales.upsell_offers", "sales.winback_campaigns",
   "support.complaint_resolution", "support.faq_policy_updates", "support.refund_processing",
   "support.replacement_shipments", "support.review_responses",
   "product_research.winning_product_imports", "product_research.pricing_research",
   "product_research.supplier_sourcing", "product_research.product_page_generation",
   "product_research.trend_scouting", "product_research.competitor_tracking",
   "product_research.demand_validation", "inventory.dead_stock_clearance",
   "inventory.multi_channel_sync", "shipping.predispatch_confirms", "shipping.pickup_booking",
   "shipping.rate_compare", "shipping.rto_reduction", "shipping.delay_prediction",
   "finance.cod_reconciliation", "finance.invoice_logging", "finance.expense_flagging",
   "finance.ad_spend_audit", "finance.refund_ledger", "finance.pnl_reports", "finance.tax_export",
   "operations.rfq_requests", "operations.rfq_compare", "operations.supplier_switching",
   "operations.payment_terms_negotiation", "growth.bundle_offers", "growth.landing_page_variants",
   "growth.ab_testing", "growth.competitor_benchmarks", "growth.seasonal_planning"}

\* What the process checks of these tables as it boots: a binding or a claim off the roster
\* would be refused at every tier, so it stops the import instead.
BootAssertions ==
  /\ \A v \in Verbs : VerbDuties[v] \subseteq DOMAIN DutyByKey
  /\ \A l \in DOMAIN LaneDuties : LaneDuties[l] \subseteq DOMAIN DutyByKey
  /\ Unclaimed \subseteq DOMAIN DutyByKey
  /\ DOMAIN Department \subseteq DOMAIN LaneDuties \cup ServerSweeps

ASSUME RosterBoots == BootAssertions
=============================================================================
