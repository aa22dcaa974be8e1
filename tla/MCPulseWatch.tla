---------------------------- MODULE MCPulseWatch ----------------------------
(* Small instances of PulseWatch for TLC. *)
EXTENDS PulseWatch, TLC

CONSTANTS p1, u1, e1

(* A product that sells one a day, ten days of it left, five days from its supplier. *)
Healthy == [stock |-> 10, weeks |-> <<7>>, price |-> 100, cost |-> 60, reorderPoint |-> 4, supplier |-> u1]
Vendor == [delay |-> {0}, offers |-> p1 :> 5]
Late == [Vendor EXCEPT !.delay = {2}]
Silent == [Vendor EXCEPT !.delay = Unknown]

(* A courier whose record is long enough to judge by; so many parcels in a thousand come back. *)
Courier(rto) == [rto |-> {rto}, evidence |-> TRUE, days |-> {30}, sample |-> 20, stagnant |-> 0, resolved |-> 20]

Store(products, full, suppliers, sales) ==
  [products |-> [ok |-> TRUE, full |-> full, page |-> products],
   suppliers |-> [ok |-> TRUE, page |-> suppliers],
   sales |-> [ok |-> TRUE, week |-> sales, priorWeek |-> 100, full |-> FALSE, unpriced |-> 0],
   carts |-> [ok |-> TRUE, count |-> 0, value |-> 0, full |-> FALSE, unpriced |-> 0],
   courier |-> [ok |-> TRUE, page |-> u1 :> Courier(100), full |-> FALSE],
   inbox |-> [ok |-> TRUE]]

WellStocked == Store(p1 :> Healthy, FALSE, u1 :> Vendor, 100)
Short == Store(p1 :> [Healthy EXCEPT !.stock = 4], FALSE, u1 :> Vendor, 100)
ShortAndSlump == Store(p1 :> [Healthy EXCEPT !.stock = 2], FALSE, u1 :> Vendor, 80)
Slump == Store(p1 :> Healthy, FALSE, u1 :> Vendor, 80)
ShortAndReturned == [ShortAndSlump EXCEPT !.sales.week = 100, !.courier.page = u1 :> Courier(250)]
NoFigures == [Store(p1 :> [Healthy EXCEPT !.weeks = <<>>], FALSE, u1 :> Silent, 100)
                EXCEPT !.courier.page = u1 :> [Courier(100) EXCEPT !.evidence = FALSE]]
CutShort == [Store(<<>>, TRUE, u1 :> Late, 100) EXCEPT !.courier.page = <<>>, !.courier.full = TRUE]
Dark == [domain \in DOMAIN WellStocked |-> [ok |-> FALSE]]

WatchSenses == {WellStocked, Short, ShortAndReturned, NoFigures, CutShort, Dark}
RerunSenses == {Short, Slump}
LastTwice == [r \in Runs |-> IF r = 3 THEN 2 ELSE r]
OneJob == [r \in Runs |-> 1]
===============================================================================
