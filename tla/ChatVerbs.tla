----------------------------- MODULE ChatVerbs -----------------------------
(***************************************************************************)
(* The four verbs of a chat that ActionGate leaves out                     *)
(* (src/front-office/actions.ts), each over the door it writes through:    *)
(*                                                                         *)
(*   discount   reserve codes, file a claim that names them, mint one,     *)
(*              finalize the claim (performOfferDiscount)                  *)
(*   contact    write, then file an executed row (performUpdateContact)    *)
(*   case       the same, and the server joins an open case                *)
(*   handover   the same, and the server joins an open escalation          *)
(*                                                                         *)
(* What a founder who has to be asked does with a row is ActionGate's.     *)
(* Deliveries overlap and die between any two awaits.  A key belongs to    *)
(* one decision; a case or a hand-over may be asked for under several.     *)
(***************************************************************************)
EXTENDS Naturals

CONSTANTS
    Deliveries,
    Keys,
    Tries,        \* CODE_MINT_ATTEMPTS
    MaxTimes,     \* bound: how often a case is opened, or a thread handed over
    MaxFaults,    \* bound: deaths of a delivery, and lists that cannot be read
    NoCode, NoDelivery

ASSUME VerbBounds == Tries \in Nat \ {0} /\ MaxTimes \in Nat \ {0} /\ MaxFaults \in Nat

VARIABLES
    verb,       \* what the deliveries are about
    key,        \* the key of a delivery
    rows,       \* the ledger's row that owns a key
    coupons,    \* per code: "free", a "stranger"'s, or issued under this key: "ours"
    door,       \* what the server holds: open or not, for the how-manieth time
    at,         \* per delivery: where it is and what it knows
    unread,     \* history: a collision that no list could explain
    faults

vars == <<verb, key, rows, coupons, door, at, unread, faults>>

Direct == {"contact", "case", "handover"}
Codes == Deliveries \X (1..Tries)

ASSUME NoValues == NoDelivery \notin Deliveries /\ NoCode \notin Codes

\* `by` reserved the codes of a claim; `fresh`: it says that it opened, or handed over.
NoRow == [status |-> "none", claim |-> FALSE, by |-> NoDelivery, code |-> NoCode, fresh |-> FALSE, time |-> 0]

Idle == [pc |-> "look", by |-> NoDelivery, try |-> 1, code |-> NoCode, fresh |-> FALSE, time |-> 0, said |-> NoRow]

\* One negotiation; at most one code of all is somebody else's.
Init ==
    /\ verb \in Direct \cup {"discount"}
    /\ key \in [Deliveries -> Keys]
    /\ verb = "discount" => \A d, e \in Deliveries : key[d] = key[e]
    /\ rows = [k \in Keys |-> NoRow]
    /\ \E taken \in SUBSET Codes :
         /\ \A c, e \in taken : c = e
         /\ taken # {} => verb = "discount"
         /\ coupons = [c \in Codes |-> IF c \in taken THEN "stranger" ELSE "free"]
    /\ door = [open |-> FALSE, times |-> 0]
    /\ at = [d \in Deliveries |-> Idle]
    /\ unread = FALSE /\ faults = 0

-----------------------------------------------------------------------------
(* Steps of a delivery. *)

At(d, pc) == at[d].pc = pc
Row(d) == rows[key[d]]
Becomes(d, new) == at' = [at EXCEPT ![d] = new]
GoTo(d, pc) == Becomes(d, [at[d] EXCEPT !.pc = pc])
Faulty == faults < MaxFaults /\ faults' = faults + 1

\* executedDiscountOutcome and the `after` of the other verbs: the row speaks, not the delivery.
FromRow(d, row) == [at[d] EXCEPT !.pc = "done", !.said = row]

\* The row that owns the key answers, and a claim is looked into.
Settled(d, row) ==
    IF row.status = "prepared" /\ row.claim
    THEN [at[d] EXCEPT !.pc = "resolve", !.by = row.by]
    ELSE FromRow(d, row)

FirstStep == IF verb = "discount" THEN "claim" ELSE "write"

\* gateOrFile: the key is looked up, then the gate lets the verb go on or files it for the founder.
Gate(d) ==
    /\ At(d, "look")
    /\ IF Row(d) # NoRow THEN Becomes(d, Settled(d, Row(d)))
       ELSE \E next \in {FirstStep, "hold"} : GoTo(d, next)
    /\ UNCHANGED <<verb, key, rows, coupons, door, unread, faults>>

\* What could go wrong: the answer of a filing is not read.
FilerAnswers(d, own) == [at[d] EXCEPT !.pc = "line", !.said = own]

\* A filing that found the key taken settles from the row that has it.
AfterFiling(d, own) ==
    IF Row(d) = NoRow THEN [at[d] EXCEPT !.pc = "line", !.said = own] ELSE Settled(d, Row(d))

\* Nothing is written under a row that is held.
Hold(d) ==
    /\ At(d, "hold")
    /\ IF Row(d) # NoRow THEN rows' = rows /\ Becomes(d, Settled(d, Row(d)))
       ELSE LET own == [NoRow EXCEPT !.status = "prepared"]
            IN rows' = [rows EXCEPT ![key[d]] = own] /\ Becomes(d, FromRow(d, own))
    /\ UNCHANGED <<verb, key, coupons, door, unread, faults>>

Die(d) ==
    /\ ~At(d, "look") /\ ~At(d, "done") /\ ~At(d, "dead")
    /\ GoTo(d, "dead")
    /\ Faulty
    /\ UNCHANGED <<verb, key, rows, coupons, door, unread>>

-----------------------------------------------------------------------------
(* Direct verbs. *)

\* What could go wrong: what the server joined is told as new.
ToldAsNew == TRUE

\* `joined`, `alreadyEscalated`: only the server can say.
Fresh == ~door.open

\* An open case is joined; one that has ended has given up its key. The verb always names
\* the conversation, so the case always has one.
OpenCase == IF door.open THEN door ELSE [open |-> TRUE, times |-> door.times + 1]

\* One open escalation per conversation.
HandoverConversation == OpenCase

\* A corrected address is written as often as it is asked for.
Write(d) ==
    /\ At(d, "write")
    /\ verb # "contact" /\ ~door.open => door.times < MaxTimes
    /\ door' = CASE verb = "contact" -> door [] verb = "case" -> OpenCase [] OTHER -> HandoverConversation
    /\ Becomes(d, [at[d] EXCEPT !.pc = "file", !.fresh = verb # "contact" /\ Fresh, !.time = door'.times])
    /\ UNCHANGED <<verb, key, rows, coupons, unread, faults>>

\* A door's refusal reaches the caller: a parcel that has left, a guardrail, a delivery
\* charge the store does not have.
Refused(d) ==
    /\ At(d, "claim") \/ At(d, "mint") \/ (At(d, "write") /\ verb # "handover")
    /\ GoTo(d, "dead")
    /\ UNCHANGED <<verb, key, rows, coupons, door, unread, faults>>

File(d) ==
    /\ At(d, "file")
    /\ LET own == [NoRow EXCEPT !.status = "executed", !.fresh = at[d].fresh, !.time = at[d].time]
       IN /\ rows' = IF Row(d) = NoRow THEN [rows EXCEPT ![key[d]] = own] ELSE rows
          /\ Becomes(d, AfterFiling(d, own))
    /\ UNCHANGED <<verb, key, coupons, door, unread, faults>>

\* attributeDoorRecord and fileActivity, best effort.
Line(d) ==
    /\ At(d, "line")
    /\ GoTo(d, "done")
    /\ UNCHANGED <<verb, key, rows, coupons, door, unread, faults>>

\* The case is closed, or the founder hands the thread back.
DoorCloses ==
    /\ door.open
    /\ door' = [door EXCEPT !.open = FALSE]
    /\ UNCHANGED <<verb, key, rows, coupons, at, unread, faults>>

-----------------------------------------------------------------------------
(* The discount. *)

\* The claim names the codes this delivery drew; it may have to settle for another's.
Claim(d) ==
    /\ At(d, "claim")
    /\ IF Row(d) # NoRow THEN rows' = rows /\ Becomes(d, Settled(d, Row(d)))
       ELSE /\ rows' = [rows EXCEPT ![key[d]] = [NoRow EXCEPT !.status = "prepared", !.claim = TRUE, !.by = d]]
            /\ Becomes(d, [at[d] EXCEPT !.pc = "mint", !.by = d])
    /\ UNCHANGED <<verb, key, coupons, door, unread, faults>>

\* What could go wrong: a delivery mints from the codes it drew itself.
ItsOwnCode(d) == <<d, at[d].try>>

\* Only the codes on the row that won are this key's.
Code(d) == <<at[d].by, at[d].try>>

Minted(code, delivery) == code[1] = at[delivery].by /\ coupons[code] # "free"

\* resolveDiscountClaim: did the mint land?  Any coupon with a code of the claim is taken for it.
Resolve(d) ==
    /\ At(d, "resolve")
    /\ \/ /\ \A c \in Codes : ~Minted(c, d)
          /\ GoTo(d, "mint")
       \/ \E c \in Codes : Minted(c, d) /\ Becomes(d, [at[d] EXCEPT !.pc = "confirm", !.code = c])
    /\ UNCHANGED <<verb, key, rows, coupons, door, unread, faults>>

\* createDiscount: a code is one coupon's, and a second of its name is refused.
CreateDiscount(code) == IF coupons[code] = "free" THEN [coupons EXCEPT ![code] = "ours"] ELSE coupons

\* mintReservedCoupon: one POST.
Mint(d) ==
    /\ At(d, "mint")
    /\ coupons' = CreateDiscount(Code(d))
    /\ IF coupons' = coupons THEN GoTo(d, "collided")
       ELSE Becomes(d, [at[d] EXCEPT !.pc = "confirm", !.code = Code(d)])
    /\ UNCHANGED <<verb, key, rows, door, unread, faults>>

NextCode(d) ==
    IF at[d].try = Tries THEN GoTo(d, "dead")
    ELSE Becomes(d, [at[d] EXCEPT !.pc = "mint", !.try = @ + 1])

\* The coupon that is there carries this key.
IsMine(code) == coupons[code] = "ours"

\* A list that cannot be read is an empty one.
Collided(d) ==
    /\ At(d, "collided")
    /\ \/ /\ IsMine(Code(d))
          /\ Becomes(d, [at[d] EXCEPT !.pc = "confirm", !.code = Code(d)])
          /\ UNCHANGED <<unread, faults>>
       \/ ~IsMine(Code(d)) /\ NextCode(d) /\ UNCHANGED <<unread, faults>>
       \/ NextCode(d) /\ unread' = TRUE /\ Faulty
    /\ UNCHANGED <<verb, key, rows, coupons, door>>

\* finalizeDiscount: somebody else's row answers; one that cannot be read counts as open.
Confirm(d) ==
    /\ At(d, "confirm")
    /\ \/ Row(d).status = "executed" /\ Becomes(d, FromRow(d, Row(d))) /\ UNCHANGED faults
       \/ Row(d).status # "executed" /\ GoTo(d, "finalize") /\ UNCHANGED faults
       \/ GoTo(d, "finalize") /\ Faulty
    /\ UNCHANGED <<verb, key, rows, coupons, door, unread>>

\* A blind patch.
Finalize(d) ==
    /\ At(d, "finalize")
    /\ LET row == [Row(d) EXCEPT !.status = "executed", !.code = at[d].code]
       IN rows' = [rows EXCEPT ![key[d]] = row] /\ Becomes(d, [at[d] EXCEPT !.pc = "line", !.said = row])
    /\ UNCHANGED <<verb, key, coupons, door, unread, faults>>

\* dakio-api deactivates the coupon the row names.
UndoDiscount(k) ==
    /\ rows[k].status = "executed" /\ rows[k].code # NoCode
    /\ rows' = [rows EXCEPT ![k].status = "undone"]
    /\ UNCHANGED <<verb, key, coupons, door, at, unread, faults>>

Next ==
    \/ \E d \in Deliveries :
         \/ Gate(d) \/ Hold(d) \/ Die(d)
         \/ Write(d) \/ Refused(d) \/ File(d) \/ Line(d)
         \/ Claim(d) \/ Resolve(d) \/ Mint(d) \/ Collided(d) \/ Confirm(d) \/ Finalize(d)
    \/ \E k \in Keys : UndoDiscount(k)
    \/ DoorCloses

Spec == Init /\ [][Next]_vars

-----------------------------------------------------------------------------
(* What the properties rest on. *)

Rows == [status : {"none", "prepared", "executed", "undone"}, claim : BOOLEAN,
         by : Deliveries \cup {NoDelivery}, code : Codes \cup {NoCode}, fresh : BOOLEAN, time : 0..MaxTimes]

Minting == {"resolve", "mint", "collided", "confirm", "finalize"}
Points == {"look", "hold", "write", "file", "line", "claim", "done", "dead"} \cup Minting

States == [pc : Points, by : Deliveries \cup {NoDelivery}, try : 1..Tries, code : Codes \cup {NoCode},
           fresh : BOOLEAN, time : 0..MaxTimes, said : Rows]

TypeOK ==
    /\ verb \in Direct \cup {"discount"}
    /\ key \in [Deliveries -> Keys]
    /\ rows \in [Keys -> Rows]
    /\ coupons \in [Codes -> {"free", "stranger", "ours"}]
    /\ door \in [open : BOOLEAN, times : 0..MaxTimes]
    /\ at \in [Deliveries -> States]
    /\ unread \in BOOLEAN /\ faults \in 0..MaxFaults

\* A code that is a coupon's, and one that the claim of a delivery's key has reserved.
Live(code) == code \in Codes /\ coupons[code] # "free"
Reserved(d, code) == Row(d).claim /\ Row(d).by = code[1]

\* A row that names a coupon names one that its claim reserved.
RowOK(row) ==
    /\ row.status = "none" => row = NoRow
    /\ row.claim => verb = "discount" /\ row.by \in Deliveries
    /\ verb = "discount" /\ row.status \in {"executed", "undone"} =>
         row.claim /\ Live(row.code) /\ row.code[1] = row.by

\* Who mints does so for the claim on the row, after the codes before have turned out a stranger's.
MinterOK(row, self) ==
    /\ self.pc \in Minting \cup {"claim"} => verb = "discount"
    /\ self.pc \in Minting => row.claim /\ self.by = row.by
    /\ self.pc \in {"write", "file"} => verb # "discount"
    /\ self.pc \in {"look", "hold", "write", "file", "claim", "resolve"} => self.try = 1
    /\ self.pc \in {"mint", "collided"} /\ ~unread =>
         \A try \in 1..Tries : try < self.try => coupons[<<self.by, try>>] = "stranger"
    /\ self.pc = "collided" => Live(<<self.by, self.try>>)
    /\ self.pc \in {"confirm", "finalize"} => Live(self.code) /\ self.code[1] = self.by

ClaimsOK ==
    /\ verb = "discount" => \A d, e \in Deliveries : key[d] = key[e]
    /\ \A k \in Keys : RowOK(rows[k])
    /\ \A d \in Deliveries : MinterOK(Row(d), at[d])

\* Our coupons are the claim's, and the first that was free.
CouponsOK ==
    /\ \A c \in Codes : coupons[c] = "ours" => \E d \in Deliveries : Reserved(d, c)
    /\ unread \/ \A c, e \in Codes :
                   coupons[c] = "ours" /\ e[1] = c[1] /\ e[2] < c[2] => coupons[e] = "stranger"

\* An opening is one delivery's, and a row that speaks of one is that delivery's.
OpeningsOK ==
    /\ \A d \in Deliveries :
         /\ at[d].pc \in {"look", "write"} => ~at[d].fresh
         /\ at[d].fresh => at[d].time <= door.times
         /\ \A e \in Deliveries : at[d].fresh /\ at[e].fresh /\ at[d].time = at[e].time => d = e
    /\ \A k \in Keys : rows[k].fresh =>
         \E d \in Deliveries : key[d] = k /\ at[d].fresh /\ at[d].time = rows[k].time

-----------------------------------------------------------------------------
(* Properties. *)

Issued == {c \in Codes : coupons[c] = "ours"}

\* A reserved code was a stranger's already: one in 31^6, and no list tells it from ours.
Lottery == \E c \in Codes : coupons[c] = "stranger"

(***************************************************************************)
(* A negotiation ends in one coupon, whoever mints it and however often a  *)
(* delivery dies between the mint and the row that records it; a second    *)
(* takes a collision while the coupons could not be listed.                *)
(***************************************************************************)
OneCouponPerNegotiation == unread \/ \A c, e \in Issued : c = e

AsRecorded(row, said) ==
    said.status = "executed" =>
        /\ row.status \in {"executed", "undone"}
        /\ row.fresh = said.fresh
        /\ unread \/ Lottery \/ row.code = said.code

(***************************************************************************)
(* What a delivery tells the customer is what the ledger says of its key:  *)
(* the code that an undo of the row takes back, the case it opened rather  *)
(* than joined; unless the lists were unread, or a stranger's.             *)
(***************************************************************************)
ToldAsRecorded == \A d \in Deliveries : AsRecorded(Row(d), at[d].said)

(***************************************************************************)
(* A case is reported opened, and a thread handed over, by one decision    *)
(* each time; everybody else is told that work is already under way.       *)
(***************************************************************************)
OpenedByOne ==
    \A j, k \in Keys : rows[j].fresh /\ rows[k].fresh /\ rows[j].time = rows[k].time => j = k

IInv == TypeOK /\ ClaimsOK /\ CouponsOK /\ OpeningsOK /\ ToldAsRecorded
=============================================================================
