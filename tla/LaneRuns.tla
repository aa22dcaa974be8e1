------------------------------ MODULE LaneRuns ------------------------------
(***************************************************************************)
(* The two event lanes of the founder's plane, run by the dispatcher:      *)
(*                                                                         *)
(*   courier   src/brain/lanes/courier-intervention.ts: read a parcel that *)
(*             stopped, word one ask, put one card on the desk             *)
(*   restock   src/brain/lanes/restock-check.ts: read what is on order,    *)
(*             write it onto the case, raise a report                      *)
(*                                                                         *)
(* An attempt of the job waits on every read and every write, and may die  *)
(* or overrun its lease; the next attempt starts over while the parcel,    *)
(* the shelf and the day move on.                                          *)
(***************************************************************************)
EXTENDS Naturals, FiniteSets, Sequences, SequencesExt, DutyRoster

CONSTANTS
    Turns,        \* the attempts of one job
    Wordings,     \* what the model may write, or the measurement instead of it
    LastDay,      \* bound: the days a job is tried
    MaxOrders,    \* bound: purchase orders at once
    None, Unread

ASSUME LaneBounds == LastDay \in Nat /\ MaxOrders \in Nat \ {0}

\* A read that has not been answered is no answer.
ASSUME UnreadIsNoAnswer == Unread \notin {"dark", "out", "over", "none", "old", "recent"}

VARIABLES
    lane, day,
    run,        \* per attempt: its step and what it has read
    parcel,     \* the order is over or not; how long since the courier's last scan
    shelf,      \* in stock or not, and the open purchase orders
    promised,   \* history: the dates of orders that were ever placed
    ask,        \* the case: open or not, its facts, and whether many wait
    desk,       \* per day: the ledger row of the parcel, and its cards
    report      \* the report under the job's dedupe key

world == <<lane, day, parcel, shelf, promised>>
store == <<ask, desk, report>>
vars == <<world, run, store>>

Dates == 0..LastDay

NoRun == [step |-> "planned", day |-> 0, one |-> Unread, two |-> Unread, still |-> FALSE,
          facts |-> {}, fact |-> None, words |-> None]

Init ==
    /\ lane \in {"courier", "restock"} /\ day = 0
    /\ run = [t \in Turns |-> NoRun]
    /\ parcel \in [over : {FALSE}, scan : IF lane = "courier" THEN {"none", "old"} ELSE {"none"}]
    /\ shelf = [stock |-> FALSE, orders |-> {}]
    /\ promised = {}
    /\ ask \in [open : {TRUE}, facts : {<<>>}, many : IF lane = "restock" THEN BOOLEAN ELSE {FALSE}]
    /\ desk = [d \in 0..LastDay |-> [row |-> None, cards |-> 0]]
    /\ report = None

-----------------------------------------------------------------------------
(* The attempt. *)

Step(t, step) == run' = [run EXCEPT ![t].step = step]
Runs(t, step) == run[t].step = step

Begin(t) ==
    /\ Runs(t, "planned")
    /\ run' = [run EXCEPT ![t] = [NoRun EXCEPT !.step = IF lane = "courier" THEN "read" ELSE "case", !.day = day]]
    /\ UNCHANGED <<world, store>>

Completes(t) == run' = [run EXCEPT ![t] = [NoRun EXCEPT !.step = "completed"]]
Throws(t, why) == run' = [run EXCEPT ![t] = [NoRun EXCEPT !.step = why]]

Over == {"completed", "unseen", "mismatch", "dead"}

\* The process dies.
Dies(t) ==
    /\ run[t].step \notin Over \cup {"planned"}
    /\ Throws(t, "dead")
    /\ UNCHANGED <<world, store>>

-----------------------------------------------------------------------------
(* dutyForVerbInLane. *)

Kind == IF lane = "courier" THEN "courier_intervention" ELSE "restock_check"

DutiesForVerbInLane(verb) == {d \in GoverningDuties(verb) : DutyInLane(Kind, d)}

-----------------------------------------------------------------------------
(* The courier's lane. *)

\* Did the parcel stand still when it was looked at?
StandsStill == ~parcel.over /\ parcel.scan # "recent"

\* getOrder and getOrderStatus are sent together and answer in any order, or not at all.
GatherParcel(t) ==
    /\ Runs(t, "read")
    /\ \E read \in {"one", "two"} :
         /\ run[t][read] = Unread
         /\ \E answer \in {"dark", IF read = "two" THEN parcel.scan ELSE IF parcel.over THEN "over" ELSE "out"} :
              run' = [run EXCEPT ![t][read] = answer, ![t].still = @ \/ StandsStill]
    /\ UNCHANGED <<world, store>>

Gathered(t) == run[t].one # Unread /\ run[t].two # Unread

\* What could go wrong: only the scan is asked whether there is something to chase.
ScannedLately(order, scan) == scan = "recent"

\* NOTHING_TO_CHASE, and MOVED_RECENTLY_HOURS
NothingToChase(order, scan) == order = "over" \/ scan = "recent"

\* The world-moved check, then the one model call; wording that fails boundAsk is replaced.
Decide(t) ==
    /\ Runs(t, "read") /\ Gathered(t)
    /\ IF run[t].one = "dark" /\ run[t].two = "dark" THEN Throws(t, "unseen")
       ELSE IF NothingToChase(run[t].one, run[t].two) THEN Completes(t)
       ELSE \E w \in Wordings : run' = [run EXCEPT ![t].step = "gate", ![t].words = w]
    /\ UNCHANGED <<world, store>>

\* novaActionIdFor: the parcel and the day the run began.
Desk(t) == desk[run[t].day]

\* What the fingerprint covers: the ask and the read are in the payload.
Payload(t) == [words |-> run[t].words, one |-> run[t].one, two |-> run[t].two]

\* The row that owns the key answers only the request it was filed for.
Replays(t) ==
    IF Desk(t).row.payload # Payload(t) THEN Throws(t, "mismatch")
    ELSE IF Desk(t).row.status = "prepared" THEN Step(t, "heal")
    ELSE Completes(t)

\* flag_courier_issue is always a draft, or refused by a lock or a paused duty.
GateOrFile(t) ==
    /\ Runs(t, "gate")
    /\ DutiesForVerbInLane("flag_courier_issue") # {}
    /\ IF Desk(t).row # None THEN Replays(t) ELSE Step(t, "file")
    /\ UNCHANGED <<world, store>>

FileCourierCard(t) ==
    /\ Runs(t, "file")
    /\ IF Desk(t).row # None THEN Replays(t) /\ UNCHANGED desk
       ELSE \E status \in {"prepared", "blocked"} :
              /\ desk' = [desk EXCEPT ![run[t].day].row =
                            [status |-> status, payload |-> Payload(t), still |-> run[t].still]]
              /\ IF status = "prepared" THEN Step(t, "card") ELSE Completes(t)
    /\ UNCHANGED <<world, ask, report>>

\* addDecision knows of no key: a card more.
AddDecision(cards) == cards + 1

\* Best effort; and healDecision, of a row without a card.
AddCard(t) ==
    /\ Runs(t, "card") \/ Runs(t, "heal")
    /\ \/ desk' = desk
       \/ /\ Runs(t, "heal") => Desk(t).cards = 0
          /\ desk' = [desk EXCEPT ![run[t].day].cards = AddDecision(@)]
    /\ Completes(t)
    /\ UNCHANGED <<world, ask, report>>

-----------------------------------------------------------------------------
(* The restock lane. *)

\* A case that is over is nobody's question.
ReadCase(t) ==
    /\ Runs(t, "case")
    /\ IF ask.open THEN run' = [run EXCEPT ![t].step = "supply", ![t].facts = ToSet(ask.facts)]
       ELSE Completes(t)
    /\ UNCHANGED <<world, store>>

\* listProducts and listPurchaseOrders, sent together.
ReadSupply(t) ==
    /\ Runs(t, "supply")
    /\ \E read \in {"one", "two"} :
         /\ run[t][read] = Unread
         /\ \E answer \in {None, IF read = "one" THEN {shelf.stock} ELSE shelf.orders} :
              run' = [run EXCEPT ![t][read] = answer]
    /\ UNCHANGED <<world, store>>

\* What could go wrong: an order nobody has sent counts.
EveryOrder(orders) == orders

\* ON_ORDER
OnOrder(orders) == {o \in orders : o.status = "placed"}

\* The one place a date may come from: an order's own, and not one that has passed.
DateOf(date, today) == IF date < today THEN None ELSE date

SupplyPosition(product, orders, today) ==
    LET due == {o.due : o \in OnOrder(orders)}
        first == CHOOSE d \in due : \A e \in due : d <= e
        date == DateOf(first, today)
    IN IF product = None \/ orders = None THEN [fork |-> "unknown", date |-> None]
       ELSE IF TRUE \in product THEN [fork |-> "back_in_stock", date |-> None]
       ELSE IF due = {} THEN [fork |-> "nothing_on_order", date |-> None]
       ELSE [fork |-> IF date = None THEN "on_order_overdue" ELSE "on_order", date |-> date]

\* A fact the case already carried when it was read is not appended again.
WriteFact(t) ==
    /\ Runs(t, "supply") /\ Gathered(t)
    /\ LET p == SupplyPosition(run[t].one, run[t].two, run[t].day)
       IN /\ run' = [run EXCEPT ![t] = [NoRun EXCEPT !.step = "report", !.fact = p, !.day = run[t].day]]
          /\ \/ ask' = ask
             \/ /\ p \notin {f.said : f \in run[t].facts}
                /\ ask' = [ask EXCEPT !.facts = Append(@, [said |-> p, on |-> run[t].day])]
    /\ UNCHANGED <<world, desk, report>>

\* restockDecision: RESTOCK_DECISION_WAITERS, or nothing on order.
RestockDecision(position) ==
    IF ask.many THEN "several_waiting"
    ELSE IF position.fork = "nothing_on_order" THEN position.fork ELSE None

\* addReport: under one dedupe key the first report stays.
AddReport(filed, new) == IF filed = None THEN new ELSE filed

\* Best effort.
FileReport(t) ==
    /\ Runs(t, "report")
    /\ LET reason == RestockDecision(run[t].fact)
       IN report' \in IF reason = None THEN {report}
                      ELSE {report, AddReport(report, [reason |-> reason, on |-> run[t].day])}
    /\ Completes(t)
    /\ UNCHANGED <<world, ask, desk>>

-----------------------------------------------------------------------------
(* The world. *)

\* Reads that were sent together are answered within one day.
DayPasses ==
    /\ day < LastDay
    /\ \A t \in Turns : Runs(t, "read") => (run[t].one = Unread <=> run[t].two = Unread)
    /\ day' = day + 1
    /\ parcel' = [parcel EXCEPT !.scan = IF @ = "recent" THEN "old" ELSE @]
    /\ UNCHANGED <<lane, shelf, promised, ask>>

\* A courier's scan; it may be the last.
ParcelMoves ==
    /\ lane = "courier" /\ ~parcel.over
    /\ \E over \in BOOLEAN : parcel' = [over |-> over, scan |-> "recent"]
    /\ UNCHANGED <<lane, day, shelf, promised, ask>>

DraftOrder ==
    /\ lane = "restock" /\ Cardinality(shelf.orders) < MaxOrders
    /\ \E date \in Dates : shelf' = [shelf EXCEPT !.orders = @ \cup {[status |-> "draft", due |-> date]}]
    /\ UNCHANGED <<lane, day, parcel, promised, ask>>

PlaceOrder ==
    /\ \E o \in shelf.orders :
         /\ o.status = "draft"
         /\ shelf' = [shelf EXCEPT !.orders = (@ \ {o}) \cup {[o EXCEPT !.status = "placed"]}]
         /\ promised' = promised \cup {o.due}
    /\ UNCHANGED <<lane, day, parcel, ask>>

\* An order arrives, or the shelf stands empty without it.
OrderEnds ==
    /\ \E o \in shelf.orders, arrived \in BOOLEAN :
         shelf' = [stock |-> arrived, orders |-> shelf.orders \ {o}]
    /\ UNCHANGED <<lane, day, parcel, promised, ask>>

CaseEnds ==
    /\ lane = "restock" /\ ask.open
    /\ ask' = [ask EXCEPT !.open = FALSE]
    /\ UNCHANGED world

\* What happens after the last attempt is nobody's to see.
JobOpen == \E t \in Turns : run[t].step \notin Over

World == DayPasses \/ ParcelMoves \/ DraftOrder \/ PlaceOrder \/ OrderEnds \/ CaseEnds

Next ==
    \/ \E t \in Turns :
         \/ Begin(t) \/ Dies(t)
         \/ GatherParcel(t) \/ Decide(t) \/ GateOrFile(t) \/ FileCourierCard(t) \/ AddCard(t)
         \/ ReadCase(t) \/ ReadSupply(t) \/ WriteFact(t) \/ FileReport(t)
    \/ JobOpen /\ World /\ UNCHANGED <<run, desk, report>>

Spec == Init /\ [][Next]_vars

-----------------------------------------------------------------------------
(* What the properties rest on. *)

Orders == [status : {"draft", "placed"}, due : Dates]
Positions ==
    [fork : {"unknown", "back_in_stock", "nothing_on_order", "on_order", "on_order_overdue"},
     date : Dates \cup {None}]
Facts == [said : Positions, on : Dates]

CourierRuns ==
    [step : Over \cup {"planned", "read", "gate", "file", "card", "heal"}, day : Dates,
     one : {Unread, "dark", "out", "over"}, two : {Unread, "dark", "none", "old", "recent"},
     still : BOOLEAN, facts : {{}}, fact : {None}, words : Wordings \cup {None}]
RestockRuns ==
    [step : Over \cup {"planned", "case", "supply", "report"}, day : Dates,
     one : {Unread, None, {TRUE}, {FALSE}}, two : {Unread, None} \cup SUBSET Orders,
     still : {FALSE}, facts : SUBSET Facts, fact : Positions \cup {None}, words : {None}]
CardRows ==
    [status : {"prepared", "blocked"}, still : BOOLEAN,
     payload : [words : Wordings \cup {None}, one : {Unread, "dark", "out", "over"},
                two : {Unread, "dark", "none", "old", "recent"}]]

TypeOK ==
    /\ lane \in {"courier", "restock"} /\ day \in Dates
    /\ run \in [Turns -> IF lane = "courier" THEN CourierRuns ELSE RestockRuns]
    /\ parcel \in [over : BOOLEAN, scan : {"none", "old", "recent"}]
    /\ shelf \in [stock : BOOLEAN, orders : SUBSET Orders]
    /\ ask \in [open : BOOLEAN, facts : Seq(Facts), many : BOOLEAN]
    /\ desk \in [Dates -> [row : CardRows \cup {None}, cards : Nat]]

Warranted(look) == look.still \/ "dark" \in {look.one, look.two}

\* Of a parcel that was moving when the first read was answered, the second says so.
SeenStill(r) ==
    /\ r.step = "read" /\ r.one = "out" /\ r.two = Unread => r.still \/ parcel.scan = "recent"
    /\ r.step = "read" /\ r.one = Unread /\ r.two \in {"none", "old"} => r.still \/ parcel.over
    /\ r.step = "read" /\ Unread \notin {r.one, r.two} => Warranted(r) \/ NothingToChase(r.one, r.two)
    /\ r.step \in {"gate", "file"} => Warranted(r)

\* What a run has read of the orders, and what it makes of them.
Placed(orders) == \A o \in orders : o.status = "placed" => o.due \in promised

OrdersSeen ==
    /\ Placed(shelf.orders)
    /\ \A t \in Turns :
         run[t].step \in {"case", "supply"} /\ run[t].two \notin {Unread, None} => Placed(run[t].two)

-----------------------------------------------------------------------------
(* Properties. *)

(***************************************************************************)
(* The founder is put on the phone only about a parcel that stood still at *)
(* a moment this run looked at it, unless one of its two reads did not     *)
(* answer (and the card says so).                                          *)
(***************************************************************************)
CardIsWarranted ==
    \A d \in DOMAIN desk : desk[d].row # None =>
        desk[d].row.still \/ "dark" \in {desk[d].row.payload.one, desk[d].row.payload.two}

(***************************************************************************)
(* restock-check.ts: "A date you made up is a second disappointment on top *)
(* of the first."  Every date a case was given to quote is that of an      *)
(* order somebody has placed, and had not passed when the run began.       *)
(***************************************************************************)
NoInventedDate ==
    \A f \in ToSet(ask.facts) : f.said.date # None => f.said.date \in promised /\ f.said.date >= f.on

(***************************************************************************)
(* courier-intervention.eval.test.ts: "a re-leased rerun answers from the  *)
(* row that owns the key".                                                 *)
(***************************************************************************)
RerunReplays == \A t \in Turns : run[t].step # "mismatch"

LaneIInv ==
    /\ TypeOK
    /\ lane = "courier" => \A t \in Turns : SeenStill(run[t])
    /\ lane = "restock" => OrdersSeen
    /\ CardIsWarranted /\ NoInventedDate
=============================================================================
