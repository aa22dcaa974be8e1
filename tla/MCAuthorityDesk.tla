--------------------------- MODULE MCAuthorityDesk ---------------------------
EXTENDS AuthorityDesk

On(keys) == [k \in keys |-> [enabled |-> TRUE, doorExists |-> TRUE]]
SomeDuties == On({"support.inbox_replies", "support.inbox_escalations", "inventory.reorder_drafts",
                  "shipping.delay_chasing"})

NoKeys == [k \in {} |-> 0]
InboxBag == ("inbox.orderAuto" :> TRUE) @@ ("inbox.maxAutoOrder" :> 5000)
            @@ ("inbox.rtoShadowThreshold" :> 2) @@ ("inbox.autoIntents" :> {"price"})
            @@ ("inbox.discountAuto" :> TRUE) @@ ("inbox.maxDiscountPct" :> 15)
            @@ ("inbox.discountPerCustomerDays" :> 30) @@ ("inbox.cancelAuto" :> TRUE)
DeskBag == ("maxDiscountPct" :> 20) @@ ("maxPriceChangePct" :> 15) @@ ("maxBudgetChangePct" :> 50)
           @@ ("minMarginPct" :> 25) @@ ("maxAutoPurchaseOrderTotal" :> 3000)

Store(level, modes, bag) ==
  [level |-> level, earned |-> 4, modes |-> modes, duties |-> SomeDuties, locks |-> {},
   maxDiscount |-> 20, spendCap |-> 500000, spent |-> 0, bag |-> bag]
\* A demo store (autonomous, the six caps), a live one (assisted, only the inbox's keys) and one
\* at the top of the dial with everything switched on.
MCStores == {Store(3, ("store" :> "autonomous"), DeskBag),
             Store(2, ("store" :> "assisted") @@ ("inbox" :> "autonomous"), InboxBag),
             Store(4, ("store" :> "autonomous"), InboxBag @@ DeskBag)}

Ask(type, duty, words, pay) == [type |-> type, duty |-> {duty}, words |-> words, pay |-> pay]
MCRequests ==
  {Ask("send_inbox_reply", "support.inbox_replies", {"saree"}, ("intent" :> "price")),
   Ask("send_inbox_reply", "support.inbox_replies", {}, ("intent" :> "price") @@ ("purpose" :> "escalation_draft")),
   Ask("escalate_conversation", "support.inbox_escalations", {"saree"}, NoKeys),
   Ask("link_customer_identity", "support.inbox_replies", {}, NoKeys),
   Ask("flag_courier_issue", "shipping.delay_chasing", {}, NoKeys),
   Ask("merge_customer_records", "support.inbox_replies", {}, NoKeys),
   Ask("schedule_follow_up", "support.inbox_replies", {"saree"}, NoKeys),
   Ask("create_order_from_chat", "sales.inbox_orders", {"saree"},
       ("confirmedByCustomer" :> TRUE) @@ ("items" :> <<[qty |-> 2, price |-> {900}], [qty |-> 1, price |-> {400}]>>)),
   Ask("create_order_from_chat", "sales.inbox_orders", {}, 
       ("confirmedByCustomer" :> TRUE) @@ ("items" :> <<[qty |-> 1, price |-> {}]>>)),
   Ask("offer_chat_discount", "sales.inbox_discounts", {},
       ("mechanism" :> "percent") @@ ("percentOff" :> 12) @@ ("conversationId" :> "c")),
   Ask("create_order_from_chat", "sales.inbox_orders", {}, ("items" :> <<[qty |-> 1, price |-> {400}]>>)),
   Ask("offer_chat_discount", "sales.inbox_discounts", {}, ("mechanism" :> "fixed")),
   Ask("offer_chat_discount", "sales.inbox_discounts", {}, ("mechanism" :> "percent") @@ ("percentOff" :> 12)),
   Ask("cancel_order_from_chat", "sales.inbox_orders", {}, NoKeys),
   Ask("update_order_contact", "shipping.delivery_cases", {}, NoKeys),
   Ask("create_purchase_order", "inventory.reorder_drafts", {}, ("quantity" :> 20) @@ ("unitCost" :> 100)),
   Ask("create_purchase_order", "inventory.low_stock_alerts", {}, ("quantity" :> 20) @@ ("unitCost" :> 100)),
   Ask("create_discount", "inventory.dead_stock_clearance", {}, ("percentOff" :> 15)),
   Ask("update_campaign", "marketing.campaign_scaling", {},
       ("dailyBudget" :> 40) @@ ("previousDailyBudget" :> 30)),
   Ask("create_campaign", "marketing.seasonal_promotions", {}, ("dailyBudget" :> 40)),
   Ask("update_price", "finance.expense_flagging", {"saree"}, ("newPrice" :> 110)),
   Ask("send_customer_message", "sales.sms_cart_recovery", {}, ("customerId" :> "u")),
   Ask("bulk_refund", "support.refund_processing", {}, NoKeys),
   Ask("guardrail_edit", "ceo.risk_alerts", {}, NoKeys)}
MCLanes == {"front_office", "pulse", "courier_intervention", "night_ops"}

World(authority, shelf, thread) ==
  [authority |-> authority, shelf |-> shelf, product |-> {[price |-> 100, cost |-> 60]},
   campaign |-> {30}, thread |-> thread, delivery |-> {120}, rto |-> {1}]
Thread(enabled, held) == {[novaEnabled |-> enabled, held |-> held]}
MCWorlds == {World(TRUE, TRUE, Thread(TRUE, FALSE)), World(TRUE, FALSE, Thread(TRUE, TRUE)),
             World(FALSE, TRUE, {}), World(TRUE, TRUE, Thread(FALSE, FALSE))}

MCLocks == {{"saree", "price"}, {"saree"}, {}}
MCLimits == ("inbox.autoIntents" :> {{}, {"price"}}) @@ ("maxAutoPurchaseOrderTotal" :> {1000, 3000}) @@ ("inbox.maxDiscountPct" :> {10, 15})
            @@ ("inbox.orderAuto" :> {FALSE, TRUE}) @@ ("minMarginPct" :> {25, 50})
            @@ ("outbound.customerMessageAuto" :> {TRUE}) @@ ("inbox.discountAuto" :> {FALSE, TRUE})
            @@ ("inbox.maxAutoOrder" :> {1000}) @@ ("inbox.rtoShadowThreshold" :> {1})
            @@ ("inbox.cancelAuto" :> {FALSE}) @@ ("inbox.addressEditAuto" :> {TRUE})
            @@ ("maxBudgetChangePct" :> {20}) @@ ("maxDiscountPct" :> {10})
=============================================================================
