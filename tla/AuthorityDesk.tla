---------------------------- MODULE AuthorityDesk ----------------------------
(***************************************************************************)
(* A founder moves the controls of a store one at a time while the lanes    *)
(* file requests; every request is judged by the ladder under the controls  *)
(* as they stand.  The properties state what the controls promise, without  *)
(* the order the ladder happens to ask its questions in.                    *)
(***************************************************************************)
EXTENDS AuthorityLadder, Functions

CONSTANTS Stores,    \* the controls a store may start from
          Requests,  \* the requests that may be filed
          Lanes,     \* who files them
          Worlds,    \* what the reads may find
          Locks,     \* the locks the founder may set
          Limits,    \* platform key -> the values the founder may give it
          MaxMoves   \* how many controls move in a behaviour

Modes == {"manual", "assisted", "autonomous"}
Scopes == {"store", "Inbox", "inbox", "Purchases"}

\* Of the platform's keys a few are lists, switches or floors; the rest are ceilings.
Floors == {"minMarginPct"}
Lists == {"inbox.autoIntents"}
Switches == {"inbox.orderAuto", "inbox.discountAuto", "inbox.cancelAuto", "inbox.addressEditAuto",
             "outbound.customerMessageAuto"}

SettingOK(key, value) ==
  IF key \in Lists THEN TRUE ELSE IF key \in Switches THEN value \in BOOLEAN ELSE value \in Int

ControlsOK(c) ==
  /\ DOMAIN c = {"level", "earned", "modes", "duties", "locks", "maxDiscount", "spendCap", "spent", "bag"}
  /\ {c.level, c.earned, c.maxDiscount, c.spendCap, c.spent} \subseteq Int
  /\ \A s \in DOMAIN c.modes : c.modes[s] \in Modes
  /\ \A k \in DOMAIN c.duties : c.duties[k] \in [enabled : BOOLEAN, doorExists : BOOLEAN]
  /\ \A key \in DOMAIN c.bag : SettingOK(key, c.bag[key])

Amounts == {"quantity", "unitCost", "dailyBudget", "previousDailyBudget", "percentOff", "newPrice"}

\* A request is filed under one duty, if any; a read finds one thread, if any.
ASSUME DeskAssumption ==
  /\ MaxMoves \in Nat
  /\ \A c \in Stores : ControlsOK(c)
  /\ \A key \in DOMAIN Limits : \A value \in Limits[key] : SettingOK(key, value)
  /\ \A r \in Requests :
       /\ \A k, l \in r.duty : k = l
       /\ \A field \in Amounts \cap DOMAIN r.pay : r.pay[field] \in Int
       /\ \A w \in Worlds : EstimateChatOrderTotal(r, w) \subseteq Int
  /\ \A w \in Worlds : w.rto \cup w.campaign \subseteq Int /\ \A t, u \in w.thread : t = u
  /\ \A w \in Worlds : \A p \in w.product : {p.price, p.cost} \subseteq Int

VARIABLES controls, moves
deskVars == <<controls, moves>>

DeskInit == controls \in Stores /\ moves = 0

\* f with one key given a value, whether or not it had one.
Put(f, key, value) == [x \in DOMAIN f \cup {key} |-> IF x = key THEN value ELSE f[x]]

Moved(next) == moves < MaxMoves /\ moves' = moves + 1 /\ controls' = next

SetLevel == \E l \in 0..4 : Moved([controls EXCEPT !.level = l])
TrustMoves == \E l \in 2..4 : Moved([controls EXCEPT !.earned = l])
SetMode == \E s \in Scopes, m \in Modes : Moved([controls EXCEPT !.modes = Put(@, s, m)])
ToggleDuty == \E k \in DOMAIN controls.duties :
                 Moved([controls EXCEPT !.duties[k].enabled = ~@])
MoveLock == \E lock \in Locks :
               Moved([controls EXCEPT !.locks = IF lock \in @ THEN @ \ {lock} ELSE @ \cup {lock}])
SetLimit == \E key \in DOMAIN Limits : \E v \in Limits[key] :
               Moved([controls EXCEPT !.bag = Put(@, key, v)])
ForgetLimit == \E key \in DOMAIN controls.bag : Moved([controls EXCEPT !.bag = Restrict(@, DOMAIN @ \ {key})])
SetCanonical == \E pct \in {10, 20}, taka \in {0, 5000} :
                   Moved([controls EXCEPT !.maxDiscount = pct, !.spendCap = 100 * taka])
\* An executed row that spends moves the day's total; the store's day begins at zero.
Spend == Moved([controls EXCEPT !.spent = IF @ = 0 THEN 400000 ELSE 0])

DeskNext == SetLevel \/ TrustMoves \/ SetMode \/ ToggleDuty \/ MoveLock \/ SetLimit \/ ForgetLimit
            \/ SetCanonical \/ Spend

DeskSpec == DeskInit /\ [][DeskNext]_deskVars

DeskTypeOK == ControlsOK(controls) /\ moves \in 0..MaxMoves

----------------------------------------------------------------------------
(* What the controls promise. *)

Money(r) == 100 * Field(r.pay, "quantity", 0) * Field(r.pay, "unitCost", 0)

\* The switch a verb waits for, and the limits that have to be set, before Nova does it alone.
SwitchOf ==
  [create_order_from_chat |-> "inbox.orderAuto", offer_chat_discount |-> "inbox.discountAuto",
   cancel_order_from_chat |-> "inbox.cancelAuto", update_order_contact |-> "inbox.addressEditAuto",
   send_customer_message |-> "outbound.customerMessageAuto"]

LimitsOf ==
  [send_inbox_reply |-> {"inbox.autoIntents"},
   create_order_from_chat |-> {"inbox.maxAutoOrder", "inbox.rtoShadowThreshold"},
   offer_chat_discount |-> {"inbox.maxDiscountPct", "inbox.discountPerCustomerDays"},
   create_purchase_order |-> {"maxAutoPurchaseOrderTotal"},
   update_price |-> {"maxPriceChangePct", "minMarginPct"}]

\* Not past a ceiling; a ceiling that is not there is not passed.
Under(c, key, amount) == key \in DOMAIN c.bag => amount <= c.bag[key]

DiscountWithin(c, r) ==
  CASE r.type = "create_discount" ->
         LET pct == Field(r.pay, "percentOff", 0) IN pct <= c.maxDiscount /\ Under(c, "maxDiscountPct", pct)
    [] r.type = "offer_chat_discount" ->
         /\ Has(r.pay, "mechanism", "percent")
         /\ Under(c, "inbox.maxDiscountPct", Field(r.pay, "percentOff", 100))
         /\ {"customerId", "conversationId"} \cap DOMAIN r.pay # {}   \* whose days are counted
    [] OTHER -> TRUE

OrderWithin(c, r, w) ==
  r.type = "create_order_from_chat" =>
    /\ Has(r.pay, "confirmedByCustomer", TRUE)
    /\ \E total \in EstimateChatOrderTotal(r, w) : total <= c.bag["inbox.maxAutoOrder"]
    /\ \E returned \in w.rto : returned < c.bag["inbox.rtoShadowThreshold"]

ReplyWithin(c, r, w) ==
  r.type = "send_inbox_reply" =>
    /\ ~Has(r.pay, "purpose", "escalation_draft")
    /\ Field(r.pay, "intent", "unclassified") \in c.bag["inbox.autoIntents"]
    /\ \E t \in w.thread : t.novaEnabled /\ ~t.held

\* A new budget is within the share of the old one it may change by.
BudgetWithin(c, r, w) ==
  r.type = "update_campaign" /\ "dailyBudget" \in DOMAIN r.pay =>
    "maxBudgetChangePct" \in DOMAIN c.bag /\ \E old \in w.campaign :
      IF old > 0 THEN 100 * Abs(r.pay["dailyBudget"] - old) <= c.bag["maxBudgetChangePct"] * old
      ELSE 100 <= c.bag["maxBudgetChangePct"]

\* A new price is within the share of the old one it may change by, and leaves the margin.
PriceWithin(c, r, w) ==
  r.type = "update_price" => \E p \in w.product :
    LET price == Field(r.pay, "newPrice", 0)
    IN  /\ 100 * Abs(price - p.price) <= c.bag["maxPriceChangePct"] * p.price
        /\ c.bag["minMarginPct"] * price <= 100 * (price - p.cost)

\* Every limit and switch of the founder's, one by one: those the store keeps for itself (the
\* day's spend, the discount) and those of the platform's bag.
WithinLimits(c, r, w) ==
  /\ SpendMinor(r) > 0 => c.spent + SpendMinor(r) <= c.spendCap
  /\ r.type \in DOMAIN SwitchOf \cup DOMAIN LimitsOf \cup NoGuardrailNeeded
                \cup {"create_discount", "update_campaign"}     \* nothing else has limits to be within
  /\ r.type \in DOMAIN SwitchOf => Has(c.bag, SwitchOf[r.type], TRUE)
  /\ r.type \in DOMAIN LimitsOf => LimitsOf[r.type] \subseteq DOMAIN c.bag
  /\ r.type = "create_purchase_order" => Money(r) <= 100 * c.bag["maxAutoPurchaseOrderTotal"]
  /\ r.type = "send_customer_message" => "customerId" \in DOMAIN r.pay
  /\ DiscountWithin(c, r) /\ OrderWithin(c, r, w) /\ ReplyWithin(c, r, w)
  /\ BudgetWithin(c, r, w) /\ PriceWithin(c, r, w)

Trusted(c, r, k) ==
  LET need == IF RiskClass(r.type) = "low" THEN 3 ELSE 4
  IN  /\ c.level >= need /\ c.earned >= need
      /\ c.level >= DutyByKey[k].minLevel /\ c.earned >= DutyByKey[k].minLevel
      /\ ResolveMode(c.modes, DutyByKey[k].door) = "autonomous"

\* What the founder's roster page says of a duty.
ShownAs(c, k) ==
  DutyStatus(DutyByKey[k], EffectiveLevel(c, DutyByKey[k].door), Kept(c, k).enabled, Doors)

\* Whatever Nova may do alone, every control on its own allows: no lock covers it, it is not
\* the founder's to do or to sign, the duty it is filed under governs it, is held by the lane
\* and is not paused, and -- but for handing over to a person and for the identity join --
\* level, earned trust, the door's mode and every limit each permit it, and the roster page
\* shows the duty as active.  The ladder asks these one by one and stops at the first answer
\* (evaluateAuthority, assertDutyBinding, dutyStatus).
ActsAloneOnlyWithinEveryControl ==
  \A r \in Requests, w \in Worlds, lane \in Lanes :
    Judged(controls, r, w, lane).verdict = "execute" =>
      /\ r.type \notin FounderOnly \cup AlwaysDraft
      /\ \A lock \in controls.locks :
            lock = {} \/ \A text \in TargetText(r) : lock \ text # {}
      /\ \E k \in r.duty :
           /\ k \in GoverningDuties(r.type)
           /\ lane = "front_office" \/ k \in LaneDuties[lane]
           /\ Kept(controls, k).enabled
           /\ \/ r.type \in NeverGated
              \/ /\ Trusted(controls, r, k) /\ WithinLimits(controls, r, w)
                 /\ ShownAs(controls, k) = "ACTIVE"

\* Asking for a person works at every level, in every mode and whatever the limits say: only the
\* founder's own lock or pause stops it (NEVER_GATED, rung 3b).
AHumanIsAlwaysInReach ==
  \A r \in Requests, w \in Worlds :
    (/\ r.type = "escalate_conversation" /\ r.duty = {"support.inbox_escalations"}
     /\ w.authority /\ ~Locked(controls, r)
     /\ Kept(controls, "support.inbox_escalations") = [enabled |-> TRUE, doorExists |-> TRUE])
    => Judged(controls, r, w, "front_office").verdict = "execute"

----------------------------------------------------------------------------
(* Turning any control down. *)

\* A limit's value is no looser: a list holds no more, a switch is no more on, a floor is no lower.
NoLooser(key, new, old) ==
  CASE key \in Lists -> new \subseteq old
    [] key \in Switches -> new => old
    [] key \in Floors -> new >= old
    [] OTHER -> new <= old

\* Every control of b is where it was in a or nearer to closed.
Tighter(b, a) ==
  /\ b.level <= a.level /\ b.earned <= a.earned
  /\ DOMAIN b.modes = DOMAIN a.modes
  /\ \A s \in DOMAIN a.modes : ModeCeiling[b.modes[s]] <= ModeCeiling[a.modes[s]]
  /\ DOMAIN b.duties = DOMAIN a.duties
  /\ \A k \in DOMAIN a.duties :
       /\ b.duties[k].enabled => a.duties[k].enabled
       /\ b.duties[k].doorExists => a.duties[k].doorExists
  /\ a.locks \subseteq b.locks
  /\ b.maxDiscount <= a.maxDiscount /\ b.spendCap <= a.spendCap /\ b.spent >= a.spent
  /\ DOMAIN b.bag = DOMAIN a.bag
  /\ \A key \in DOMAIN a.bag : NoLooser(key, b.bag[key], a.bag[key])

\* A read that does not answer gives no judgement at all, and is not compared.
Reach == [throws |-> 3, refuse |-> 0, suggest |-> 1, draft |-> 1, execute |-> 2]

\* Verbs of which a check that asks the founder comes before one that refuses: the intent of a
\* reply before its thread, the day's spend before the campaign it is for.
AskedFirst == {"send_inbox_reply", "update_campaign"}

\* No control, turned down, ever lets a request go further than it went before: from refused to
\* asked for, or from asked for to done alone (the fixed order of evaluateAuthority).  One step
\* is left open: what was refused for its thread or its campaign is asked for, once the
\* founder's own limit speaks first.
TighteningNeverWidens ==
  [][Tighter(controls', controls) =>
       \A r \in Requests, w \in Worlds, lane \in Lanes :
         LET before == Judged(controls, r, w, lane)
             after == Judged(controls', r, w, lane)
         IN  \/ Reach[after.verdict] <= Reach[before.verdict] \/ after.verdict = "throws"
             \/ r.type \in AskedFirst /\ before.rule = "guardrail" /\ after.verdict = "draft"]_deskVars

\* autonomy.ts: "Per-thread switch is a refusal, not a downgrade: the founder said "not this
\* thread", and a draft would still ask them about it."
ThreadOffIsRefused ==
  \A r \in Requests, w \in Worlds, lane \in Lanes :
    r.type = "send_inbox_reply" /\ (\E t \in w.thread : ~t.novaEnabled) =>
      Judged(controls, r, w, lane).verdict # "draft"
=============================================================================
