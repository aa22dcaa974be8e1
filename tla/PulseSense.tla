----------------------------- MODULE PulseSense -----------------------------
(***************************************************************************)
(* What one pulse can see of a store (senseStore and blindSpots in         *)
(* src/lib/snapshot.ts) and which conditions are true of it (the           *)
(* conditions and undeterminableKeys of src/brain/pulse-compare.ts).       *)
(*                                                                         *)
(* A sense is one record of six reads.  A read is [ok |-> FALSE] when it   *)
(* threw.  A number the source may not have is an option: {} when it is    *)
(* unknown, {n} when it is n.  Velocity is an option on <<units, days>>,   *)
(* so that its comparisons are exact; rates and days are in tenths, cover  *)
(* and margins in hundredths, as far as the code rounds them.              *)
(***************************************************************************)
EXTENDS Integers, Sequences, FiniteSetsExt

Unknown == {}
Known(option) == option # Unknown

(* Rounded half up, as Math.round does. *)
Rounded(n, d) == (2 * n + d) \div (2 * d)

-----------------------------------------------------------------------------
(* senseStore: what a product row says. *)

SumOf(s) == LET f[i \in 0..Len(s)] == IF i = 0 THEN 0 ELSE f[i - 1] + s[i] IN f[Len(s)]
LastWeeks(s) == SubSeq(s, IF Len(s) > 4 THEN Len(s) - 3 ELSE 1, Len(s))

VelocityOf(p) ==
  IF p.weeks = <<>> THEN Unknown
  ELSE LET weeks == LastWeeks(p.weeks) IN {<<SumOf(weeks), 7 * Len(weeks)>>}

(* A cost of zero is a missing number on the wire, not a measurement. *)
CostOf(p) == IF p.cost > 0 THEN {p.cost} ELSE Unknown

MarginPctOf(p) ==
  IF p.price > 0 THEN {Rounded((p.price - cost) * 10000, p.price) : cost \in CostOf(p)} ELSE Unknown

(* stock / velocity, in hundredths of a day; unknown for what nobody buys (0.01 a day). *)
DaysOfCover(p) ==
  {Rounded(p.stock * v[2] * 100, v[1]) : v \in {w \in VelocityOf(p) : 100 * w[1] > w[2]}}

(* The catalogue wait plus the supplier's present delay; a delay of null adds nothing. *)
LeadTimeDays(s, id) ==
  LET by == s.products.page[id].supplier
      supplier == s.suppliers.page[by]
  IN IF s.suppliers.ok /\ by \in DOMAIN s.suppliers.page /\ id \in DOMAIN supplier.offers
     THEN {supplier.offers[id] + late : late \in IF Known(supplier.delay) THEN supplier.delay ELSE {0}}
     ELSE Unknown

AllSensesDark(s) == \A domain \in DOMAIN s : ~s[domain].ok

-----------------------------------------------------------------------------
(* The conditions.  A key is <<kind, subject>>. *)

Kinds == {"cover", "dead", "margin", "drop", "carts", "delay", "rto", "slow", "stagnant"}

ReadBehind ==
  [k \in Kinds |->
     CASE k \in {"cover", "dead", "margin"} -> "products" [] k = "drop" -> "sales"
       [] k = "carts" -> "carts" [] k = "delay" -> "suppliers" [] OTHER -> "courier"]

DepartmentOf ==
  [k \in Kinds |->
     CASE k \in {"cover", "dead"} -> "inventory" [] k = "margin" -> "finance"
       [] k \in {"drop", "carts"} -> "sales" [] k = "delay" -> "operations" [] OTHER -> "shipping"]

SeverityOf ==
  [k \in Kinds |->
     CASE k = "cover" -> "critical" [] k \in {"drop", "delay", "rto", "stagnant"} -> "warning"
       [] OTHER -> "info"]

LowerIsWorse(k) == k \in {"cover", "margin", "drop"}

Condition(kind, subject, value) == [key |-> <<kind, subject>>, value |-> value]
Rows(read) == IF read.ok THEN DOMAIN read.page ELSE {}

(* A reorder would land after the shelf is empty. *)
CoverConditions(s) ==
  LET Short(id) == \E v \in VelocityOf(s.products.page[id]), wait \in LeadTimeDays(s, id) :
                     s.products.page[id].stock * v[2] < wait * v[1]
  IN UNION {{Condition("cover", id, cover) : cover \in DaysOfCover(s.products.page[id])} :
            id \in {i \in Rows(s.products) : Short(i)}}

(* Three times the reorder point on the shelf, and under 0.15 a day sold. *)
DeadConditions(s) ==
  LET Dead(p) == /\ p.reorderPoint > 0 /\ p.stock > 3 * p.reorderPoint
                 /\ \E v \in VelocityOf(p) : 100 * v[1] < 15 * v[2]
  IN UNION {{Condition("dead", id, s.products.page[id].stock * cost) :
               cost \in CostOf(s.products.page[id])} :
            id \in {i \in Rows(s.products) : Dead(s.products.page[i])}}

(* Under a quarter of the price. *)
MarginConditions(s) ==
  LET Thin(p) == \E cost \in CostOf(p) : 4 * (p.price - cost) < p.price
  IN UNION {{Condition("margin", id, pct) : pct \in MarginPctOf(s.products.page[id])} :
            id \in {i \in Rows(s.products) : Thin(s.products.page[i])}}

RevenueChange(sales) == Rounded((sales.week - sales.priorWeek) * 1000, sales.priorWeek)
SalesMeasured(sales) == ~sales.full /\ sales.priorWeek > 0

SalesConditions(s) ==
  IF s.sales.ok /\ SalesMeasured(s.sales)
     /\ 100 * (s.sales.week - s.sales.priorWeek) <= -15 * s.sales.priorWeek
  THEN {Condition("drop", "revenue", RevenueChange(s.sales))} ELSE {}

CartConditions(s) ==
  IF s.carts.ok /\ s.carts.count > 0 THEN {Condition("carts", "all", s.carts.value)} ELSE {}

SupplierConditions(s) ==
  UNION {{Condition("delay", id, days) : days \in {d \in s.suppliers.page[id].delay : d > 0}} :
         id \in Rows(s.suppliers)}

(* Mutant: any rate is evidence. *)
RateIsKnown(c) == Known(c.rto)

RateIsEvidence(c) == Known(c.rto) /\ c.evidence
MeanIsEvidence(c) == Known(c.days) /\ c.evidence /\ c.sample >= 10

CourierConditions(s) ==
  LET page == s.courier.page
  IN UNION {{Condition("rto", id, rate) : rate \in {r \in page[id].rto : RateIsEvidence(page[id]) /\ r >= 200}}
            \cup {Condition("slow", id, days) :
                    days \in {d \in page[id].days : MeanIsEvidence(page[id]) /\ d >= 50}}
            \cup {Condition("stagnant", id, n) : n \in {m \in {page[id].stagnant} : m >= 3}} :
            id \in Rows(s.courier)}

(* What is true of the store now, of the domains that answered. *)
Conditions(s) ==
  UNION {CoverConditions(s), DeadConditions(s), MarginConditions(s), SalesConditions(s),
         CartConditions(s), SupplierConditions(s), CourierConditions(s)}

-----------------------------------------------------------------------------
(* What the pulse could not decide. *)

(* A key of no kind this build knows has no domain that answers: it is kept. *)
DomainAnswered(s, key) == key[1] \in Kinds /\ s[ReadBehind[key[1]]].ok

(* Products a truncated catalogue did not look at. *)
OffPage(s, priorKeys) ==
  IF s.products.ok /\ s.products.full
  THEN {key \in priorKeys : key[1] \in {"cover", "dead", "margin"} /\ key[2] \notin DOMAIN s.products.page}
  ELSE {}

ProductUndeterminable(s) ==
  UNION {LET p == s.products.page[id] IN
         {<<kind, id>> : kind \in
            {k \in {"cover", "dead", "margin"} :
               CASE k = "cover" -> ~Known(DaysOfCover(p)) \/ ~Known(LeadTimeDays(s, id))
                 [] k = "dead" -> ~Known(VelocityOf(p)) \/ ~Known(CostOf(p)) \/ ~(p.reorderPoint > 0)
                 [] OTHER -> ~Known(MarginPctOf(p))}} :
         id \in Rows(s.products)}

CourierUndeterminable(s) ==
  {<<"rto", id>> : id \in {i \in Rows(s.courier) : ~RateIsEvidence(s.courier.page[i])}}
  \cup {<<"slow", id>> : id \in {i \in Rows(s.courier) : ~MeanIsEvidence(s.courier.page[i])}}

UndeterminableKeys(s, priorKeys) ==
  UNION {ProductUndeterminable(s), OffPage(s, priorKeys), CourierUndeterminable(s),
         {<<"delay", id>> : id \in {i \in Rows(s.suppliers) : ~Known(s.suppliers.page[i].delay)}},
         IF s.sales.ok /\ ~SalesMeasured(s.sales) THEN {<<"drop", "revenue">>} ELSE {}}

-----------------------------------------------------------------------------
(* blindSpots: what the founder is told Nova could not see. *)

Spot(name, seen) == IF seen THEN {name} ELSE {}
AnyRow(read, Test(_)) == \E id \in Rows(read) : Test(read.page[id])

ProductSpots(s) ==
  UNION {Spot("velocity", AnyRow(s.products, LAMBDA p : ~Known(VelocityOf(p)))),
         Spot("leadTime", \E id \in Rows(s.products) : ~Known(LeadTimeDays(s, id))),
         Spot("cost", AnyRow(s.products, LAMBDA p : ~Known(CostOf(p)))),
         Spot("page:products", s.products.ok /\ s.products.full)}

SalesSpots(s) ==
  IF s.sales.ok THEN Spot("page:orders", s.sales.full) \cup Spot("orderTotal", s.sales.unpriced > 0) ELSE {}

CartSpots(s) ==
  IF s.carts.ok THEN Spot("page:carts", s.carts.full) \cup Spot("cartValue", s.carts.unpriced > 0) ELSE {}

CourierSpots(s) ==
  UNION {Spot("courierEvidence", AnyRow(s.courier, LAMBDA c : ~c.evidence)),
         Spot("courierUnresolved", AnyRow(s.courier, LAMBDA c : c.resolved = 0)),
         Spot("page:couriers", s.courier.ok /\ s.courier.full)}

(* A supplier with no offers is a stub, whose delay of zero is a placeholder. *)
IsStub(supplier) == Known(supplier.delay) /\ DOMAIN supplier.offers = {}

SupplierSpots(s) ==
  Spot("supplierDelay", AnyRow(s.suppliers, LAMBDA u : ~Known(u.delay)))
  \cup Spot("supplierRecord", AnyRow(s.suppliers, IsStub))

BlindSpots(s) ==
  UNION {{<<"sense", domain>> : domain \in {d \in DOMAIN s : ~s[d].ok}},
         {<<"field", f>> : f \in ProductSpots(s) \cup SalesSpots(s) \cup CartSpots(s)
                                  \cup CourierSpots(s) \cup SupplierSpots(s)}}
===============================================================================
