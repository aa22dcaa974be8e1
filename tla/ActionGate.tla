----------------------------- MODULE ActionGate -----------------------------
(***************************************************************************)
(* The action gate (src/front-office/actions.ts) over the action ledger    *)
(* (src/store/backend.ts): deliveries of one decision, all under one       *)
(* at-most-once key, look the key up, are judged, write, file and answer,  *)
(* each `await` a step of its own.  The deliveries overlap, die between    *)
(* two steps, and the founder's settings change between two judgements.    *)
(*                                                                         *)
(* Two verbs stand for the two shapes a verb has: "order" writes, then     *)
(* files an executed row (performCreateOrder); "cancel" files a claim row, *)
(* writes, then finalizes the row (performCancelOrder).                    *)
(***************************************************************************)
EXTENDS Naturals, FiniteSets

CONSTANTS
  Attempts,   \* the deliveries; each is of one verb and one request
  Requests,   \* the payloads a delivery may carry under the key
  MaxFaults   \* bound: deaths of a delivery, failed best-effort calls, an order lost

ASSUME GateAssumption == MaxFaults \in Nat
ASSUME RequestAssumption == "no order" \notin Requests

VARIABLES
  rows,      \* per verb, the ledger's row that owns the key, or NoRow
  cards,     \* per verb, how many Decisions name the row
  lines,     \* per verb, how many activity lines credit the row
  placed,    \* the orders created, by server-side key: a request, or NoOrder
  parcel,    \* the last status of the order that "cancel" is about
  present,   \* the store still has that order: else a read of it answers null
  attempts,  \* per delivery, how far it is and what it knows
  reversed,  \* history: the verbs whose action the founder has undone
  faults     \* how many faults there have been

vars == <<rows, cards, lines, placed, parcel, present, attempts, reversed, faults>>

Verbs == {"order", "cancel"}
Statuses == {"blocked", "prepared", "executed", "rejected", "undone"}
ParcelStatuses == {"placed", "packed", "cancelled"}
Verdicts == {"refuse", "escalate", "draft", "execute"}   \* "suggest" files as "draft" does

NoRow == [status |-> "none"]
NoOrder == "no order"

(* `undoTo` is undoData.previousStatus, of a cancel; "placed" elsewhere. *)
Row == [status : Statuses, claim : BOOLEAN, request : Requests, undoTo : ParcelStatuses]

Attempt ==
  [pc : {"new", "look", "judge", "write", "snapshot", "file", "settle", "resolve", "confirm",
         "finalize", "line", "heal", "card", "done", "dead"},
   verb : Verbs, request : Requests,
   verdict : Verdicts,                \* of its own judgement; "refuse" before it
   seen : Row \cup {NoRow},           \* the row it was handed
   prior : ParcelStatuses,            \* the status a finalize is to record
   said : {"nothing", "executed", "prepared", "blocked", "refused", "mismatch"},
   delivered : BOOLEAN]               \* it said that the shop has the request

TypeOK ==
  /\ rows \in [Verbs -> Row \cup {NoRow}]
  /\ cards \in [Verbs -> Nat] /\ lines \in [Verbs -> Nat]
  /\ placed \in [{"key", "approval"} -> Requests \cup {NoOrder}]
  /\ parcel \in ParcelStatuses /\ present \in BOOLEAN
  /\ attempts \in [Attempts -> Attempt]
  /\ reversed \subseteq Verbs /\ faults \in 0..MaxFaults

Init ==
  /\ rows = [v \in Verbs |-> NoRow]
  /\ cards = [v \in Verbs |-> 0] /\ lines = [v \in Verbs |-> 0]
  /\ placed = [k \in {"key", "approval"} |-> NoOrder]
  /\ parcel = "placed" /\ present = TRUE
  /\ attempts \in [Attempts -> {[pc |-> "new", verb |-> v, request |-> r, verdict |-> "refuse",
                                 seen |-> NoRow, prior |-> "placed", said |-> "nothing",
                                 delivered |-> FALSE] : v \in Verbs, r \in Requests}]
  /\ reversed = {} /\ faults = 0

-----------------------------------------------------------------------------
(* Steps of a delivery.  `a` is the delivery, `me` what it knows. *)

me(a) == attempts[a]
At(a, pc) == me(a).pc = pc
Moves(a, new) == attempts' = [attempts EXCEPT ![a] = new]
GoTo(a, pc) == [me(a) EXCEPT !.pc = pc]
Settle(a, row) == [me(a) EXCEPT !.pc = "settle", !.seen = row]
Ended(a) == [me(a) EXCEPT !.pc = "dead", !.seen = NoRow]
Says(a, what) == [me(a) EXCEPT !.pc = "done", !.said = what, !.seen = NoRow]

Faulty == faults < MaxFaults /\ faults' = faults + 1
Server == <<rows, cards, lines, placed, parcel, present>>

Begin(a) ==
  /\ At(a, "new")
  /\ Moves(a, GoTo(a, "look"))
  /\ UNCHANGED <<Server, reversed, faults>>

(* findByKey, at any status *)
FindByKey(a) ==
  /\ At(a, "look")
  /\ Moves(a, IF rows[me(a).verb] = NoRow THEN GoTo(a, "judge") ELSE Settle(a, rows[me(a).verb]))
  /\ UNCHANGED <<Server, reversed, faults>>

(* What the founder's settings say now: any verdict. *)
EvaluateAuthority(a) ==
  /\ At(a, "judge")
  /\ \E verdict \in Verdicts :
       Moves(a, [me(a) EXCEPT !.verdict = verdict,
                   !.pc = IF verdict # "execute" THEN "file"
                          ELSE IF me(a).verb = "order" THEN "write" ELSE "snapshot"])
  /\ UNCHANGED <<Server, reversed, faults>>

(* One order per server-side key, whatever the request. *)
Placed(orders, key, request) ==
  IF orders[key] = NoOrder THEN [orders EXCEPT ![key] = request] ELSE orders

CreateChatOrder(a) ==
  /\ At(a, "write") /\ me(a).verb = "order"
  /\ \/ /\ placed' = Placed(placed, "key", me(a).request)
        /\ Moves(a, GoTo(a, "file"))
     \/ /\ placed["key"] = NoOrder        \* out of stock, a coupon that does not hold
        /\ Moves(a, Says(a, "refused"))
        /\ UNCHANGED placed
  /\ UNCHANGED <<rows, cards, lines, parcel, present, reversed, faults>>

(* The cancel's before-snapshot, read before its claim is filed; of no order, "placed". *)
ReadBefore(a) ==
  /\ At(a, "snapshot")
  /\ Moves(a, [me(a) EXCEPT !.prior = IF present THEN parcel ELSE "placed", !.pc = "file"])
  /\ UNCHANGED <<Server, reversed, faults>>

Refuses(m) == m.verdict \in {"refuse", "escalate"}
Claims(m) == m.verdict = "execute" /\ m.verb = "cancel"

(* Mutant: a claim is filed as executed, before its write. *)
ExecutedAtOnce(m) ==
  CASE Refuses(m) -> "blocked" [] m.verdict = "draft" -> "prepared" [] OTHER -> "executed"

StatusOf(m) ==
  CASE Refuses(m) -> "blocked" [] m.verdict = "draft" \/ Claims(m) -> "prepared" [] OTHER -> "executed"

(* What a delivery files. *)
RowOf(m) == [status |-> StatusOf(m), claim |-> Claims(m), request |-> m.request, undoTo |-> m.prior]

(* What comes after a filing that was this delivery's own. *)
AfterFiling(m) ==
  CASE m.verdict = "refuse" -> [m EXCEPT !.pc = "done", !.said = "blocked"]
    [] m.verdict \in {"escalate", "draft"} -> [m EXCEPT !.pc = "card"]
    [] OTHER -> [m EXCEPT !.pc = IF m.verb = "cancel" THEN "write" ELSE "line"]

(* Mutant: a second row is filed over the one that owns the key. *)
Refiled(row, new) == new

(* The unique index on (type, key): the row that is there stays, and is the answer. *)
Filed(row, new) == IF row = NoRow THEN new ELSE row

(* Mutant: the answer's `replayed` is not read. *)
NeverReplayed(row) == FALSE

Replayed(row) == row # NoRow

FileRow(a) ==
  /\ At(a, "file")
  /\ LET verb == me(a).verb
     IN /\ rows' = [rows EXCEPT ![verb] = Filed(@, RowOf(me(a)))]
        /\ Moves(a, IF Replayed(rows[verb]) THEN Settle(a, rows[verb]) ELSE AfterFiling(me(a)))
  /\ UNCHANGED <<cards, lines, placed, parcel, present, reversed, faults>>

(* Its own filing was a refusal that is brought before the founder. *)
Escalated(m) == m.verdict = "escalate" /\ m.seen = NoRow

(* addDecision, best effort: what did not land, or was not heard to, is not claimed. *)
AddDecision(a) ==
  /\ At(a, "card")
  /\ LET verb == me(a).verb
         said == IF Escalated(me(a)) THEN "blocked" ELSE "prepared"
     IN \/ /\ cards' = [cards EXCEPT ![verb] = @ + 1]
           /\ Moves(a, [Says(a, said) EXCEPT !.delivered = said = "prepared"])
           /\ UNCHANGED faults
        \/ /\ cards' \in {cards, [cards EXCEPT ![verb] = @ + 1]}
           /\ Moves(a, Says(a, said))
           /\ Faulty
  /\ UNCHANGED <<rows, lines, placed, parcel, present, reversed>>

(* Mutant: a key hit is a replay whatever it carries. *)
AnyRequest(row, request) == TRUE

SameRequest(row, request) == row.request = request

(* What a row that owns the key answers, by its status: done, asked for, or settled otherwise. *)
AnswerOf(row) ==
  IF row.status \in {"executed", "prepared"} THEN row.status ELSE "blocked"

(* The key matched; the request has to, and a prepared row is looked into before it answers. *)
SettleOwningRow(a) ==
  /\ At(a, "settle")
  /\ LET row == me(a).seen
     IN \/ ~SameRequest(row, me(a).request) /\ Moves(a, Says(a, "mismatch"))
        \/ /\ SameRequest(row, me(a).request)
           /\ Moves(a, IF AnswerOf(row) # "prepared" THEN Says(a, AnswerOf(row))
                       ELSE GoTo(a, IF row.claim THEN "resolve" ELSE "heal"))
  /\ UNCHANGED <<Server, reversed, faults>>

(* healDecision: a list that cannot be read files nothing and claims nothing. *)
HealDecision(a) ==
  /\ At(a, "heal")
  /\ \/ /\ Moves(a, IF cards[me(a).verb] > 0
                    THEN [Says(a, "prepared") EXCEPT !.delivered = TRUE]
                    ELSE GoTo(a, "card"))
        /\ UNCHANGED faults
     \/ Moves(a, Says(a, "prepared")) /\ Faulty
  /\ UNCHANGED <<Server, reversed>>

(* Mutant: the status to restore is read again. *)
ReadAgain(row, status) == status

(* The status to restore comes off the claim. *)
PriorOf(row, status) == row.undoTo

(* An order the store does not have reads as one that needs no write. *)
ResolveCancelClaim(a) ==
  /\ At(a, "resolve")
  /\ Moves(a, [me(a) EXCEPT !.prior = PriorOf(me(a).seen, parcel),
                            !.pc = IF present /\ parcel # "cancelled" THEN "write" ELSE "confirm"])
  /\ UNCHANGED <<Server, reversed, faults>>

(* The patch of an order the store does not have throws. *)
CancelOrder(a) ==
  /\ At(a, "write") /\ me(a).verb = "cancel"
  /\ \/ present /\ parcel' = "cancelled" /\ Moves(a, GoTo(a, "confirm"))
     \/ ~present /\ UNCHANGED parcel /\ Moves(a, Ended(a))
  /\ UNCHANGED <<rows, cards, lines, placed, present, reversed, faults>>

(* A row that cannot be read counts as not yet finalized. *)
AlreadyFinalized(a) ==
  /\ At(a, "confirm")
  /\ \/ /\ Moves(a, IF rows["cancel"].status = "executed" THEN Says(a, "executed")
                    ELSE GoTo(a, "finalize"))
        /\ UNCHANGED faults
     \/ Moves(a, GoTo(a, "finalize")) /\ Faulty
  /\ UNCHANGED <<Server, reversed>>

(* A blind patch: it does not ask what the row has become. *)
FinalizeClaim(a) ==
  /\ At(a, "finalize")
  /\ rows' = [rows EXCEPT !["cancel"].status = "executed", !["cancel"].undoTo = me(a).prior]
  /\ Moves(a, GoTo(a, "line"))
  /\ UNCHANGED <<cards, lines, placed, parcel, present, reversed, faults>>

(* fileActivity, best effort *)
FileActivity(a) ==
  /\ At(a, "line")
  /\ \/ lines' = [lines EXCEPT ![me(a).verb] = @ + 1] /\ UNCHANGED faults
     \/ UNCHANGED lines /\ Faulty
  /\ Moves(a, Says(a, "executed"))
  /\ UNCHANGED <<rows, cards, placed, parcel, present, reversed>>

(* The process dies, or a call it depends on throws, before or after its effect. *)
Die(a) ==
  /\ me(a).pc \notin {"new", "done", "dead"}
  /\ Moves(a, Ended(a))
  /\ Faulty
  /\ UNCHANGED <<Server, reversed>>

-----------------------------------------------------------------------------
(* The founder's side, in dakio-api. *)

OnDesk(verb) == rows[verb].status = "prepared" /\ ~rows[verb].claim /\ cards[verb] > 0

(* The approve executor runs the row's payload under a key of its own, the row's id. *)
Approve(verb) ==
  /\ OnDesk(verb) /\ (verb = "cancel" => present)
  /\ rows' = [rows EXCEPT ![verb].status = "executed", ![verb].undoTo =
                IF verb = "cancel" THEN parcel ELSE @]
  /\ \/ verb = "order" /\ placed' = Placed(placed, "approval", rows[verb].request) /\ UNCHANGED parcel
     \/ verb = "cancel" /\ parcel' = "cancelled" /\ UNCHANGED placed
  /\ UNCHANGED <<cards, lines, present, attempts, reversed, faults>>

Reject(verb) ==
  /\ OnDesk(verb)
  /\ rows' = [rows EXCEPT ![verb].status = "rejected"]
  /\ UNCHANGED <<cards, lines, placed, parcel, present, attempts, reversed, faults>>

Undo(verb) ==
  /\ rows[verb].status = "executed"
  /\ rows' = [rows EXCEPT ![verb].status = "undone"]
  /\ parcel' = IF verb = "cancel" /\ present THEN rows[verb].undoTo ELSE parcel
  /\ reversed' = reversed \cup {verb}
  /\ UNCHANGED <<cards, lines, placed, present, attempts, faults>>

(* The shop packs the order. *)
Pack ==
  /\ parcel = "placed" /\ present
  /\ parcel' = "packed"
  /\ UNCHANGED <<rows, cards, lines, placed, present, attempts, reversed, faults>>

(* The store loses the order: it is deleted, or no longer the tenant's. *)
Vanish ==
  /\ present /\ present' = FALSE
  /\ Faulty
  /\ UNCHANGED <<rows, cards, lines, placed, parcel, attempts, reversed>>

Next ==
  \/ \E a \in Attempts :
       \/ Begin(a) \/ FindByKey(a) \/ EvaluateAuthority(a) \/ CreateChatOrder(a) \/ ReadBefore(a)
       \/ FileRow(a) \/ AddDecision(a) \/ SettleOwningRow(a) \/ HealDecision(a)
       \/ ResolveCancelClaim(a) \/ CancelOrder(a) \/ AlreadyFinalized(a) \/ FinalizeClaim(a)
       \/ FileActivity(a) \/ Die(a)
  \/ \E verb \in Verbs : Approve(verb) \/ Reject(verb) \/ Undo(verb)
  \/ Pack \/ Vanish

Spec == Init /\ [][Next]_vars

-----------------------------------------------------------------------------
(* Properties. *)

(***************************************************************************)
(* A sale's revenue is credited at most once, and only by the delivery     *)
(* whose own filing the executed row is.                                   *)
(***************************************************************************)
SaleCreditedOnce ==
  /\ lines["order"] <= 1
  /\ lines["order"] = 1 => rows["order"].status \in {"executed", "undone"} /\ placed["key"] # NoOrder

(***************************************************************************)
(* A row that says executed is backed by its write, whoever filed or       *)
(* finalized it, unless the founder has undone it.  The exception is a     *)
(* cancel of an order the store no longer has: WrittenWhenExecuted.        *)
(***************************************************************************)
ExecutedIsDone ==
  \A verb \in Verbs \ reversed : rows[verb].status = "executed" =>
    IF verb = "order" THEN \E key \in DOMAIN placed : placed[key] # NoOrder
    ELSE present => parcel = "cancelled"

(***************************************************************************)
(* What a delivery answered is what the ledger says of its own request,    *)
(* as far as the founder has not moved the row on since; and the shop has  *)
(* a card for whatever a customer was told the shop has.                   *)
(***************************************************************************)
AnswerOK(m) ==
  LET row == rows[m.verb]
  IN /\ m.said \in {"executed", "prepared", "blocked"} => row # NoRow /\ row.request = m.request
     /\ m.said = "executed" => row.status \in {"executed", "undone"}
     /\ m.said = "prepared" => ~row.claim /\ row.status # "blocked"
     /\ m.said = "blocked" => row.status # "prepared" /\ (row.status = "executed" => row.claim)
     /\ m.delivered => cards[m.verb] > 0

AnswersAreTrue == \A a \in Attempts : AnswerOK(me(a))

(***************************************************************************)
(* The way back is kept: what an undo of the cancel would restore is never *)
(* `cancelled`, however many deliveries resolved the claim.                *)
(***************************************************************************)
UndoRestores == rows["cancel"] # NoRow => rows["cancel"].undoTo # "cancelled"

(* What a row may become. *)
Later(old, new) ==
  old # NoRow =>
    /\ new # NoRow /\ new.request = old.request /\ new.claim = old.claim
    /\ old.status \in {"blocked", "rejected"} => new.status = old.status
    /\ old.status = "prepared" => new.status # "blocked"
    /\ old.status = "executed" => new.status \in {"executed", "undone"}
    /\ old.status = "undone" => new.status = "undone" \/ (new.claim /\ new.status = "executed")

(***************************************************************************)
(* The row that owns a key stays its row: it keeps its request and its     *)
(* claim, a refusal or a rejection is final, and nothing that was decided  *)
(* is put before the founder again.                                        *)
(***************************************************************************)
OwnersStay == [][\A verb \in Verbs : Later(rows[verb], rows'[verb])]_vars

(***************************************************************************)
(* fileClaim's contract, executed only "once the write has returned", of a *)
(* cancel.  A claim resumed over an order the store lost breaks it.        *)
(***************************************************************************)
(***************************************************************************)
(* Without the exception, as the comment on a claim says it (finalizeClaim *)
(* comes "once the write has returned"): the code does not keep this.      *)
(***************************************************************************)
WrittenWhenExecuted ==
  "cancel" \notin reversed /\ rows["cancel"].status = "executed" => parcel = "cancelled"

(***************************************************************************)
(* actions.ts: the order a replayed filing leaves behind "IS that          *)
(* attempt's order and no second parcel exists".                           *)
(***************************************************************************)
OneParcel == placed["key"] = NoOrder \/ placed["approval"] = NoOrder

(***************************************************************************)
(* actions.ts: a key reused for another payload must not have "the         *)
(* customer ... told about somebody else's order".                         *)
(***************************************************************************)
OrderIsTheOneAsked ==
  \A a \in Attempts : me(a).verb = "order" /\ me(a).said = "executed" =>
    \E key \in DOMAIN placed : placed[key] = me(a).request

-----------------------------------------------------------------------------
(* The inductive invariant. *)

RowsOK ==
  /\ rows["order"] # NoRow => ~rows["order"].claim
  /\ rows["order"].status \in {"executed", "undone"} => \E key \in DOMAIN placed : placed[key] # NoOrder
  /\ rows["cancel"] = NoRow => parcel # "cancelled"
  /\ rows["cancel"] # NoRow =>
       LET row == rows["cancel"]
       IN /\ row.undoTo # "cancelled"
          /\ row.claim => row.status \in {"prepared", "executed", "undone"}
          /\ row.status = "prepared" /\ ~row.claim => parcel # "cancelled"
          /\ row.status = "executed" /\ "cancel" \notin reversed => parcel = "cancelled" \/ ~present

(* What a delivery knows is still so, and how far it is has its grounds. *)
AttemptOK(m) ==
  LET row == rows[m.verb]
      owns == row # NoRow /\ row.request = m.request
  IN /\ Later(m.seen, row)
     /\ m.pc \in {"new", "look", "judge", "snapshot"} \/ m.verb = "order" => m.prior # "cancelled"
     /\ m.pc \in {"new", "look", "judge", "snapshot", "file"} => m.seen = NoRow
     /\ m.pc = "write" /\ m.verb = "order" => m.seen = NoRow
     /\ m.pc \in {"snapshot", "resolve", "confirm", "finalize"} => m.verb = "cancel"
     /\ m.pc = "file" /\ m.prior = "cancelled" => row # NoRow
     /\ m.pc = "file" /\ m.verb = "order" /\ m.verdict = "execute" => placed["key"] # NoOrder
     /\ m.pc \in {"settle", "resolve", "heal"} => m.seen # NoRow
     /\ m.seen # NoRow /\ m.verb = "cancel" => m.seen.undoTo # "cancelled"
     /\ m.pc \in {"resolve", "heal"} => /\ m.seen.request = m.request
                                      /\ m.seen.status = "prepared"
                                      /\ m.seen.claim = (m.pc = "resolve")
     /\ m.pc \in {"confirm", "finalize"} \/ (m.pc = "write" /\ m.verb = "cancel") =>
          owns /\ row.claim /\ m.prior # "cancelled"
     /\ m.pc \in {"confirm", "finalize"} => parcel = "cancelled" \/ ~present \/ "cancel" \in reversed
     /\ m.pc = "line" => /\ owns /\ row.status \in {"executed", "undone"}
                         /\ m.verb = "order" => placed["key"] # NoOrder
     /\ m.pc = "card" => /\ owns
                         /\ IF Escalated(m) THEN row.status = "blocked"
                            ELSE ~row.claim /\ row.status # "blocked"
     /\ m.pc # "done" => m.said = "nothing" /\ ~m.delivered
     /\ AnswerOK(m)

Credits(a) == At(a, "line") /\ me(a).verb = "order"

LinesOK ==
  /\ SaleCreditedOnce
  /\ \A a \in Attempts : Credits(a) => lines["order"] = 0
  /\ \A a, b \in Attempts : Credits(a) /\ Credits(b) => a = b

IInv == TypeOK /\ RowsOK /\ LinesOK /\ \A a \in Attempts : AttemptOK(me(a))
=============================================================================
