--------------------------- MODULE AuthorityLadder ---------------------------
(***************************************************************************)
(* evaluateAuthority (store/authority.ts) and the guardrails it ends in     *)
(* (store/autonomy.ts): what may be done with one request under the         *)
(* founder's controls.                                                      *)
(*                                                                          *)
(*   c   the controls: level, earned, modes (scope -> mode), duties (key -> *)
(*       [enabled, doorExists]), locks (sets of words), maxDiscount,        *)
(*       spendCap, spent, bag (the platform keys that are there)            *)
(*   r   the request: type, duty ({} when none), words (what the founder    *)
(*       could lock of its payload), pay (the payload's fields that are     *)
(*       there)                                                             *)
(*   w   what the reads find: authority, shelf (do the catalogue reads      *)
(*       answer), product, campaign, thread, delivery and rto ({} = none)   *)
(***************************************************************************)
EXTENDS DutyRoster, Sequences, SequencesExt

LowRisk == {"send_customer_message", "resolve_ticket", "send_inbox_reply", "escalate_conversation",
            "link_customer_identity", "schedule_follow_up", "create_order_from_chat",
            "offer_chat_discount", "publish_social_post", "open_case", "flag_courier_issue",
            "confirm_order_intent"}
MediumRisk == {"update_campaign", "create_campaign", "create_discount", "update_price",
               "import_product", "assign_courier", "update_order_contact", "cancel_order_from_chat"}
\* A verb nobody classed is a high risk.
RiskClass(verb) == IF verb \in LowRisk THEN "low" ELSE IF verb \in MediumRisk THEN "medium" ELSE "high"

FounderOnly == {"bulk_refund", "guardrail_edit", "promotion_accept", "contract_sign"}
NeverGated == {"escalate_conversation", "link_customer_identity"}
AlwaysDraft == {"merge_customer_records", "verify_payment_slip", "flag_courier_issue"}

\* A payload or a guardrail bag holds some fields and not others.
Field(f, key, default) == IF key \in DOMAIN f THEN f[key] ELSE default
Has(f, key, value) == key \in DOMAIN f /\ f[key] = value

----------------------------------------------------------------------------
(* What a lock is matched against, and what a request would spend. *)

\* Mutant: the extractors of the founder's desk only, as before the front office.
DeskLiterals ==
  [update_price |-> {"price", "pricing"}, create_discount |-> {"discount"}, bulk_refund |-> {"refund"}]

Literals ==
  [update_price |-> {"price", "pricing"}, create_discount |-> {"discount", "price", "pricing"},
   create_campaign |-> {"campaign"}, update_campaign |-> {"campaign", "budget"},
   publish_social_post |-> {"post", "social"}, send_customer_message |-> {"message"},
   resolve_ticket |-> {"ticket", "support"}, create_purchase_order |-> {"purchase", "supplier"},
   switch_supplier |-> {"supplier"}, assign_courier |-> {"courier", "delivery", "shipping"},
   import_product |-> {"product", "import"}, bulk_refund |-> {"refund"},
   send_inbox_reply |-> {"reply", "message", "inbox"},
   escalate_conversation |-> {"escalation", "handover"},
   link_customer_identity |-> {"customer", "identity", "link", "phone"},
   merge_customer_records |-> {"customer", "merge", "records"},
   schedule_follow_up |-> {"follow", "up", "reminder"},
   create_order_from_chat |-> {"order", "sell", "cod"},
   offer_chat_discount |-> {"discount", "coupon", "price", "pricing"},
   verify_payment_slip |-> {"payment", "slip", "claim"}, open_case |-> {"case"},
   flag_courier_issue |-> {"courier", "delivery", "shipping"},
   confirm_order_intent |-> {"confirm", "order"}, update_order_contact |-> {"address", "delivery"},
   cancel_order_from_chat |-> {"cancel", "order"}]

\* {} when the verb has no extractor: nothing can show that it is outside a lock.
TargetText(r) == IF r.type \in DOMAIN Literals THEN {Literals[r.type] \cup r.words} ELSE {}
\* Every significant word of the lock is in the text; a lock of none matches nothing.
LockMatches(lock, text) == lock # {} /\ lock \subseteq text

AtLeast0(n) == IF n > 0 THEN n ELSE 0
SpendMinor(r) ==
  CASE r.type = "create_campaign" -> AtLeast0(100 * Field(r.pay, "dailyBudget", 0))
    [] r.type = "update_campaign" ->
         AtLeast0(100 * (Field(r.pay, "dailyBudget", 0) - Field(r.pay, "previousDailyBudget", 0)))
    [] r.type = "create_purchase_order" ->
         AtLeast0(100 * Field(r.pay, "quantity", 0) * Field(r.pay, "unitCost", 0))
    [] OTHER -> 0

----------------------------------------------------------------------------
(* The dial: the mode of the duty's door, else of the store, and the three ceilings. *)

\* A scope is "store" or a door.  Only the inbox's is also looked up as the dial may spell it.
Spellings(door) == IF door = "Inbox" THEN <<"Inbox", "inbox">> ELSE <<door>>

ResolveMode(modes, door) ==
  LET spelt == Spellings(door)
      known == {i \in DOMAIN spelt : spelt[i] \in DOMAIN modes}
  IN  IF known # {} THEN modes[spelt[Min(known)]] ELSE Field(modes, "store", "assisted")

ModeCeiling == [manual |-> 1, assisted |-> 2, autonomous |-> 4]

\* Mutant: the trust a store has earned is left out.
LevelWithoutTrust(c, door) == Min({c.level, ModeCeiling[ResolveMode(c.modes, door)]})

EffectiveLevel(c, door) == Min({c.level, c.earned, ModeCeiling[ResolveMode(c.modes, door)]})

Decision(verdict, rule, escalate) == [verdict |-> verdict, rule |-> rule, escalate |-> escalate]

VerdictForLevel(level, risk) ==
  CASE level <= 0 -> Decision("refuse", "level:observe_only", FALSE)
    [] level = 1 -> Decision("suggest", "level:suggest", FALSE)
    [] level = 2 -> Decision("draft", "level:draft", FALSE)
    [] level = 3 /\ risk = "low" -> Decision("execute", "level:operator", FALSE)
    [] level = 3 /\ risk # "low" -> Decision("draft", "level:operator_needs_approval", FALSE)
    [] OTHER -> Decision("execute", "level:acting_ceo", FALSE)

----------------------------------------------------------------------------
(* The platform guardrails, one arm per verb.  "allow", "needs_approval", "block", or    *)
(* "throws" when a read that nothing guards does not answer.  A limit that is not there  *)
(* never lets an action through, but for the discount whose limit was applied before.    *)

Abs(n) == IF n < 0 THEN -n ELSE n

DiscountArm(c, r) ==
  IF Field(r.pay, "percentOff", 0) > Field(c.bag, "maxDiscountPct", Field(r.pay, "percentOff", 0))
  THEN "block" ELSE "allow"

PriceArm(c, r, w) ==
  IF ~({"maxPriceChangePct", "minMarginPct"} \subseteq DOMAIN c.bag) THEN "needs_approval"
  ELSE IF ~w.shelf THEN "throws"
  ELSE IF w.product = {} THEN "block"
  ELSE LET p == CHOOSE x \in w.product : TRUE
           price == Field(r.pay, "newPrice", 0)
       IN  IF 100 * Abs(price - p.price) > c.bag["maxPriceChangePct"] * p.price THEN "needs_approval"
           ELSE IF 100 * (price - p.cost) < c.bag["minMarginPct"] * price THEN "block" ELSE "allow"

CampaignArm(c, r, w) ==
  IF "dailyBudget" \notin DOMAIN r.pay THEN "allow"
  ELSE IF "maxBudgetChangePct" \notin DOMAIN c.bag THEN "needs_approval"
  ELSE IF ~w.shelf THEN "throws"
  ELSE IF w.campaign = {} THEN "block"
  ELSE LET b == CHOOSE x \in w.campaign : TRUE
           change == IF b > 0 THEN 100 * Abs(r.pay["dailyBudget"] - b) ELSE 100
       IN  IF change > c.bag["maxBudgetChangePct"] * (IF b > 0 THEN b ELSE 1)
           THEN "needs_approval" ELSE "allow"

\* Five checks on a reply; the thread is read fresh, from the server.
ReplyArm(c, r, w) ==
  IF Has(r.pay, "purpose", "escalation_draft") THEN "needs_approval"
  ELSE IF Field(r.pay, "intent", "unclassified") \notin Field(c.bag, "inbox.autoIntents", {})
       THEN "needs_approval"
  ELSE IF w.thread = {} THEN "needs_approval"
  ELSE LET t == CHOOSE x \in w.thread : TRUE
       IN  IF ~t.novaEnabled THEN "block" ELSE IF t.held THEN "needs_approval" ELSE "allow"

\* The order priced from the catalogue with the dearer delivery; {} when any part will not price.
EstimateChatOrderTotal(r, w) ==
  LET items == Field(r.pay, "items", <<>>)
      whole == /\ items # <<>> /\ w.delivery # {}
               /\ \A i \in DOMAIN items : items[i].qty > 0 /\ items[i].price # {}
  IN  IF whole
      THEN {FoldSeq(LAMBDA line, total : total + line.qty * (CHOOSE p \in line.price : TRUE),
                    CHOOSE d \in w.delivery : TRUE, items)}
      ELSE {}

\* Mutant: the switch for orders is not read.
OrderUnswitched(c, r, w) ==
  LET total == EstimateChatOrderTotal(r, w)
  IN  IF /\ Has(r.pay, "confirmedByCustomer", TRUE)
         /\ {"inbox.maxAutoOrder", "inbox.rtoShadowThreshold"} \subseteq DOMAIN c.bag
         /\ \E t \in total : t <= c.bag["inbox.maxAutoOrder"]
         /\ \E n \in w.rto : n < c.bag["inbox.rtoShadowThreshold"]
      THEN "allow" ELSE "needs_approval"

OrderArm(c, r, w) ==
  LET total == EstimateChatOrderTotal(r, w)
  IN  IF /\ Has(c.bag, "inbox.orderAuto", TRUE)
         /\ Has(r.pay, "confirmedByCustomer", TRUE)
         /\ {"inbox.maxAutoOrder", "inbox.rtoShadowThreshold"} \subseteq DOMAIN c.bag
         /\ \E t \in total : t <= c.bag["inbox.maxAutoOrder"]
         /\ \E n \in w.rto : n < c.bag["inbox.rtoShadowThreshold"]
      THEN "allow" ELSE "needs_approval"

\* Mutant: the switch is asked first, so a store that hands out nothing offers anything for a tap.
SwitchBeforeCeiling(c, r) ==
  IF \/ ~Has(r.pay, "mechanism", "percent") \/ ~Has(c.bag, "inbox.discountAuto", TRUE)
     \/ ~({"inbox.maxDiscountPct", "inbox.discountPerCustomerDays"} \subseteq DOMAIN c.bag)
     \/ {"customerId", "conversationId"} \cap DOMAIN r.pay = {}
  THEN "needs_approval"
  ELSE IF Field(r.pay, "percentOff", 101) > c.bag["inbox.maxDiscountPct"] THEN "block" ELSE "allow"

\* The ceiling comes before the switch: past it, not even the founder's tap is enough.
ChatDiscountArm(c, r) ==
  IF ~Has(r.pay, "mechanism", "percent") \/ "inbox.maxDiscountPct" \notin DOMAIN c.bag
  THEN "needs_approval"
  ELSE IF "percentOff" \notin DOMAIN r.pay \/ r.pay["percentOff"] > c.bag["inbox.maxDiscountPct"]
       THEN "block"
  ELSE IF /\ Has(c.bag, "inbox.discountAuto", TRUE)
          /\ "inbox.discountPerCustomerDays" \in DOMAIN c.bag
          /\ {"customerId", "conversationId"} \cap DOMAIN r.pay # {}
       THEN "allow" ELSE "needs_approval"

PurchaseArm(c, r) ==
  IF /\ "maxAutoPurchaseOrderTotal" \in DOMAIN c.bag
     /\ Field(r.pay, "quantity", 0) * Field(r.pay, "unitCost", 0) <= c.bag["maxAutoPurchaseOrderTotal"]
  THEN "allow" ELSE "needs_approval"

MessageArm(c, r) ==
  IF Has(c.bag, "outbound.customerMessageAuto", TRUE) /\ "customerId" \in DOMAIN r.pay
  THEN "allow" ELSE "needs_approval"

SwitchArm(c, key) == IF Has(c.bag, key, TRUE) THEN "allow" ELSE "needs_approval"

NoGuardrailNeeded == {"schedule_follow_up", "open_case", "confirm_order_intent",
                      "escalate_conversation", "link_customer_identity"}

CheckGuardrails(c, r, w) ==
  CASE r.type = "create_discount" -> DiscountArm(c, r)
    [] r.type = "update_price" -> PriceArm(c, r, w)
    [] r.type = "update_campaign" -> CampaignArm(c, r, w)
    [] r.type = "send_inbox_reply" -> ReplyArm(c, r, w)
    [] r.type = "create_order_from_chat" -> OrderArm(c, r, w)
    [] r.type = "offer_chat_discount" -> ChatDiscountArm(c, r)
    [] r.type = "create_purchase_order" -> PurchaseArm(c, r)
    [] r.type = "send_customer_message" -> MessageArm(c, r)
    [] r.type = "cancel_order_from_chat" -> SwitchArm(c, "inbox.cancelAuto")
    [] r.type = "update_order_contact" -> SwitchArm(c, "inbox.addressEditAuto")
    [] OTHER -> IF r.type \in NoGuardrailNeeded THEN "allow" ELSE "needs_approval"

----------------------------------------------------------------------------
(* The judgement.  The order is fixed and the first rung that answers wins. *)

Locked(c, r) == \E lock \in c.locks, text \in TargetText(r) : LockMatches(lock, text)
Unverifiable(c, r) == c.locks # {} /\ TargetText(r) = {}
\* The duty as this store keeps it: a duty with no row of its own is neither paused nor doorless.
Kept(c, duty) == Field(c.duties, duty, [enabled |-> TRUE, doorExists |-> TRUE])
Spec0 == [key |-> "", door |-> "", minLevel |-> 0]
DutyOf(r) == IF r.duty = {} THEN Spec0 ELSE DutyByKey[CHOOSE k \in r.duty : TRUE]
OverSpend(c, r) == SpendMinor(r) > 0 /\ c.spent + SpendMinor(r) > c.spendCap
OverDiscount(c, r) == r.type = "create_discount" /\ Field(r.pay, "percentOff", 0) > c.maxDiscount

\* From the dial down: the level, the duty's level, the founder's limits, the platform's.
JudgeByLevel(c, r, w) ==
  LET level == EffectiveLevel(c, DutyOf(r).door)
      byLevel == VerdictForLevel(level, RiskClass(r.type))
      platform == CheckGuardrails(c, r, w)
  IN  IF byLevel.verdict = "refuse" THEN byLevel
      ELSE IF DutyOf(r).minLevel > level THEN Decision("refuse", "duty:min_level", FALSE)
      ELSE IF OverDiscount(c, r) THEN Decision("refuse", "guardrail:max_discount_pct", TRUE)
      ELSE IF OverSpend(c, r) THEN Decision("draft", "guardrail:daily_spend_cap", FALSE)
      ELSE IF platform = "throws" THEN Decision("throws", "platform", FALSE)
      ELSE IF platform = "block" THEN Decision("refuse", "guardrail", TRUE)
      ELSE IF platform = "needs_approval" THEN Decision("draft", "guardrail", FALSE)
      ELSE byLevel

EvaluateAuthority(c, r, w) ==
  IF ~w.authority THEN Decision("refuse", "authority:unavailable", TRUE)
  ELSE IF r.type \in FounderOnly THEN Decision("refuse", "founder_only", TRUE)
  ELSE IF Unverifiable(c, r) THEN Decision("refuse", "no_touch:unverifiable", TRUE)
  ELSE IF Locked(c, r) THEN Decision("refuse", "no_touch", TRUE)
  ELSE IF ~(r.duty \subseteq DOMAIN DutyByKey) THEN Decision("refuse", "duty:unknown", TRUE)
  ELSE IF \E k \in r.duty : ~Kept(c, k).enabled THEN Decision("refuse", "duty:paused", FALSE)
  ELSE IF \E k \in r.duty : ~Kept(c, k).doorExists THEN Decision("refuse", "duty:needs_door", FALSE)
  ELSE IF r.type \in NeverGated THEN Decision("execute", "never_gated", FALSE)
  ELSE IF r.type \in AlwaysDraft THEN Decision("draft", "always_draft", FALSE)
  ELSE JudgeByLevel(c, r, w)

\* What a filing asks: the duty must govern the verb and the lane must hold it, or nothing is judged.
Judged(c, r, w, lane) ==
  IF \E k \in r.duty : DutyBinding(r.type, k, lane) THEN EvaluateAuthority(c, r, w)
  ELSE Decision("throws", "duty_binding", FALSE)
=============================================================================
