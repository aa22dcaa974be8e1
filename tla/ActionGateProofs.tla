-------------------------- MODULE ActionGateProofs --------------------------
(***************************************************************************)
(* What ActionGate keeps for every set of deliveries, set of requests and  *)
(* number of faults.  A delivery knows a row that may only have moved on   *)
(* (Later); so what it knows stays good while others act, and each step    *)
(* has to be looked at only for the delivery that takes it.                *)
(***************************************************************************)
EXTENDS ActionGate, TLAPS

-----------------------------------------------------------------------------
(* Rows. *)

LEMMA RowsAreNotNoRow == NoRow \notin Row /\ \A r \in Row : r # NoRow /\ r.status # "none"
BY DEF NoRow, Row, Statuses

LEMMA LaterSame == ASSUME NEW r PROVE Later(r, r)
BY DEF Later

LEMMA LaterLater ==
  ASSUME NEW r \in Row \cup {NoRow}, NEW s \in Row \cup {NoRow}, NEW t \in Row \cup {NoRow},
         Later(r, s), Later(s, t)
  PROVE  Later(r, t)
BY RowsAreNotNoRow DEF Later, Row, Statuses

-----------------------------------------------------------------------------
(* What the deliveries that do not move rely on. *)
Onward ==
  /\ \A verb \in Verbs : Later(rows[verb], rows'[verb])
  /\ \A verb \in Verbs : cards'[verb] >= cards[verb]
  /\ placed["key"] # NoOrder => placed'["key"] # NoOrder
  /\ (parcel = "cancelled" \/ ~present \/ "cancel" \in reversed)
       => (parcel' = "cancelled" \/ ~present' \/ "cancel" \in reversed')

LEMMA Carried ==
  ASSUME TypeOK, TypeOK', Onward, NEW m \in Attempt, AttemptOK(m)
  PROVE  AttemptOK(m)'
<1> DEFINE old == rows[m.verb]
           new == rows'[m.verb]
<1>1. /\ m.verb \in Verbs /\ m.seen \in Row \cup {NoRow}
      /\ old \in Row \cup {NoRow} /\ new \in Row \cup {NoRow}
      /\ Later(old, new) /\ Later(m.seen, old)
      /\ cards[m.verb] \in Nat /\ cards'[m.verb] \in Nat /\ cards'[m.verb] >= cards[m.verb]
  BY DEF TypeOK, Attempt, Onward, AttemptOK
<1>2. Later(m.seen, new)
  BY <1>1, LaterLater
<1>3. AnswerOK(m)'
  <2>1. AnswerOK(m)
    BY DEF AttemptOK
  <2> HIDE DEF old, new
  <2>2. /\ m.said \in {"executed", "prepared", "blocked"} => old # NoRow /\ old.request = m.request
        /\ m.said = "executed" => old.status \in {"executed", "undone"}
        /\ m.said = "prepared" => ~old.claim /\ old.status # "blocked"
        /\ m.said = "blocked" => old.status # "prepared" /\ (old.status = "executed" => old.claim)
        /\ m.delivered => cards[m.verb] > 0
    BY <2>1 DEF AnswerOK, old
  <2>3. /\ m.said \in {"executed", "prepared", "blocked"} => new # NoRow /\ new.request = m.request
        /\ m.said = "executed" => new.status \in {"executed", "undone"}
        /\ m.said = "prepared" => ~new.claim /\ new.status # "blocked"
        /\ m.said = "blocked" => new.status # "prepared" /\ (new.status = "executed" => new.claim)
    BY <1>1, <2>2, RowsAreNotNoRow DEF Later, Row, Statuses
  <2>4. m.delivered => cards'[m.verb] > 0
    BY <1>1, <2>2
  <2>5. QED BY <2>3, <2>4 DEF AnswerOK, new
<1>4. QED
  <2> HIDE DEF old, new
  <2>1. /\ old # NoRow => new # NoRow /\ new.request = old.request /\ new.claim = old.claim
        /\ old # NoRow /\ old.status \in {"executed", "undone"} => new.status \in {"executed", "undone"}
        /\ old # NoRow /\ old.status = "blocked" => new.status = "blocked"
        /\ old # NoRow /\ old.status # "blocked" => new.status # "blocked"
    BY <1>1, RowsAreNotNoRow DEF Later, Row, Statuses
  <2>2. QED BY <1>2, <1>3, <2>1 DEF AttemptOK, Onward, Escalated, old, new

-----------------------------------------------------------------------------
(* One delivery moves, and the rest carry on. *)
LEMMA Stepped ==
  ASSUME IInv, TypeOK', RowsOK', LinesOK', Onward,
         NEW a \in Attempts, NEW new \in Attempt, Moves(a, new), AttemptOK(new)'
  PROVE  IInv'
<1>1. ASSUME NEW b \in Attempts
      PROVE  AttemptOK(me(b))'
  <2>1. attempts'[b] = IF b = a THEN new ELSE attempts[b]
    BY DEF IInv, TypeOK, Moves
  <2>2. CASE b = a
    BY <2>1, <2>2 DEF me
  <2>3. CASE b # a
    <3>1. AttemptOK(attempts[b])' /\ attempts'[b] = attempts[b]
      BY <2>1, <2>3, Carried DEF IInv, TypeOK, me
    <3>2. QED BY <3>1 DEF me
  <2>4. QED BY <2>2, <2>3
<1>2. QED BY <1>1 DEF IInv

(* A step that changes no row, no line and no order. *)
LEMMA QuietStep ==
  ASSUME IInv, NEW a \in Attempts, NEW new \in Attempt, Moves(a, new),
         UNCHANGED <<rows, lines, placed, parcel, present, reversed>>,
         cards' \in [Verbs -> Nat], \A verb \in Verbs : cards'[verb] >= cards[verb],
         faults' \in 0..MaxFaults, new.pc # "line", AttemptOK(new)'
  PROVE  IInv' /\ Onward
<1>1. TypeOK'
  BY DEF IInv, TypeOK, Moves
<1>2. RowsOK'
  BY DEF IInv, RowsOK
<1>3. LinesOK'
  <2>1. \A b \in Attempts : attempts'[b] = (IF b = a THEN new ELSE attempts[b])
    BY DEF IInv, TypeOK, Moves
  <2>2. QED BY <2>1 DEF IInv, LinesOK, SaleCreditedOnce, Credits, At, me
<1>4. Onward
  BY LaterSame DEF Onward
<1>5. QED BY <1>1, <1>2, <1>3, <1>4, Stepped

(* What every step starts from. *)
LEMMA Start ==
  ASSUME IInv, NEW a \in Attempts
  PROVE  /\ me(a) \in Attempt /\ AttemptOK(me(a))
         /\ me(a).verb \in Verbs /\ rows[me(a).verb] \in Row \cup {NoRow}
         /\ me(a).seen \in Row \cup {NoRow} /\ me(a).prior \in ParcelStatuses
         /\ faults \in 0..MaxFaults /\ cards \in [Verbs -> Nat]
BY DEF IInv, TypeOK, Attempt, me

(* A quiet step that changes no card either. *)
LEMMA IdleStep ==
  ASSUME IInv, NEW a \in Attempts, NEW new \in Attempt, Moves(a, new),
         UNCHANGED <<Server, reversed>>, UNCHANGED faults \/ Faulty,
         new.pc # "line", AttemptOK(new)
  PROVE  IInv' /\ Onward
<1>1. UNCHANGED <<rows, lines, placed, parcel, present, reversed>> /\ cards' = cards
  BY DEF Server
<1>2. cards' \in [Verbs -> Nat] /\ \A verb \in Verbs : cards'[verb] >= cards[verb]
  BY <1>1, Start DEF IInv, TypeOK
<1>3. faults' \in 0..MaxFaults
  BY GateAssumption DEF Faulty, IInv, TypeOK
<1>4. AttemptOK(new)'
  BY <1>1 DEF AttemptOK, AnswerOK
<1>5. QED BY <1>1, <1>2, <1>3, <1>4, QuietStep

LEMMA BeginKeeps ==
  ASSUME IInv, NEW a \in Attempts, Begin(a) PROVE IInv' /\ Onward
<1> DEFINE new == GoTo(a, "look")
<1>1. new \in Attempt /\ new.pc # "line" /\ AttemptOK(new)
  BY Start DEF Begin, At, GoTo, Attempt, AttemptOK, AnswerOK
<1>2. QED BY <1>1, IdleStep DEF Begin

LEMMA FindByKeyKeeps ==
  ASSUME IInv, NEW a \in Attempts, FindByKey(a) PROVE IInv' /\ Onward
<1>1. CASE rows[me(a).verb] = NoRow
  <2> DEFINE new == GoTo(a, "judge")
  <2>1. new \in Attempt /\ new.pc # "line" /\ AttemptOK(new)
    BY <1>1, Start DEF FindByKey, At, GoTo, Attempt, AttemptOK, AnswerOK
  <2>2. QED BY <1>1, <2>1, IdleStep DEF FindByKey
<1>2. CASE rows[me(a).verb] # NoRow
  <2> DEFINE new == Settle(a, rows[me(a).verb])
  <2>1. new \in Attempt /\ new.pc # "line"
    BY <1>2, Start DEF Settle, Attempt
  <2>2. me(a).verb = "cancel" => rows[me(a).verb].undoTo # "cancelled"
    BY <1>2 DEF IInv, RowsOK
  <2>3. AttemptOK(new)
    BY <1>2, <2>2, Start, LaterSame DEF FindByKey, At, Settle, Attempt, AttemptOK, AnswerOK
  <2>4. QED BY <1>2, <2>1, <2>3, IdleStep DEF FindByKey
<1>3. QED BY <1>1, <1>2

LEMMA EvaluateAuthorityKeeps ==
  ASSUME IInv, NEW a \in Attempts, EvaluateAuthority(a) PROVE IInv' /\ Onward
<1>1. PICK verdict \in Verdicts :
        Moves(a, [me(a) EXCEPT !.verdict = verdict,
                    !.pc = IF verdict # "execute" THEN "file"
                           ELSE IF me(a).verb = "order" THEN "write" ELSE "snapshot"])
  BY DEF EvaluateAuthority
<1> DEFINE new == [me(a) EXCEPT !.verdict = verdict,
                     !.pc = IF verdict # "execute" THEN "file"
                            ELSE IF me(a).verb = "order" THEN "write" ELSE "snapshot"]
<1>2. /\ new = [me(a) EXCEPT !.verdict = verdict, !.pc = new.pc]
      /\ \/ new.pc = "file" /\ verdict # "execute"
         \/ new.pc = "write" /\ me(a).verb = "order"
         \/ new.pc = "snapshot" /\ me(a).verb = "cancel"
  BY Start DEF Attempt, Verbs
<1> HIDE DEF new
<1>3. new \in Attempt
  BY <1>2, Start DEF Attempt
<1>4. /\ new.verb = me(a).verb /\ new.request = me(a).request /\ new.verdict = verdict
      /\ new.seen = me(a).seen /\ new.prior = me(a).prior
      /\ new.said = me(a).said /\ new.delivered = me(a).delivered
  BY <1>2, Start DEF Attempt
<1>5. AttemptOK(new)
  BY <1>2, <1>4, Start DEF EvaluateAuthority, At, AttemptOK, AnswerOK
<1>6. QED BY <1>1, <1>2, <1>3, <1>5, IdleStep DEF EvaluateAuthority, new

LEMMA ReadBeforeKeeps ==
  ASSUME IInv, NEW a \in Attempts, ReadBefore(a) PROVE IInv' /\ Onward
<1>1. PICK before : before = IF present THEN parcel ELSE "placed"
  OBVIOUS
<1> DEFINE new == [me(a) EXCEPT !.prior = before, !.pc = "file"]
<1>2. before \in ParcelStatuses /\ (before = "cancelled" => rows["cancel"] # NoRow)
  BY <1>1 DEF IInv, TypeOK, RowsOK, ParcelStatuses
<1>3. new \in Attempt /\ new.pc # "line" /\ AttemptOK(new)
  BY <1>2, Start DEF ReadBefore, At, Attempt, AttemptOK, AnswerOK
<1>4. Moves(a, new)
  BY <1>1 DEF ReadBefore
<1>5. QED BY <1>3, <1>4, IdleStep DEF ReadBefore

(* A delivery's last word, when the row it looked at bears it out. *)
LEMMA LastWord ==
  ASSUME IInv, NEW a \in Attempts, ~At(a, "done"),
         NEW what \in {"nothing", "executed", "prepared", "blocked", "refused", "mismatch"},
         NEW sure \in BOOLEAN, sure => cards[me(a).verb] > 0,
         LET row == rows[me(a).verb]
         IN /\ what \in {"executed", "prepared", "blocked"} => row # NoRow /\ row.request = me(a).request
            /\ what = "executed" => row.status \in {"executed", "undone"}
            /\ what = "prepared" => ~row.claim /\ row.status # "blocked"
            /\ what = "blocked" => row.status # "prepared" /\ (row.status = "executed" => row.claim)
  PROVE  LET new == [Says(a, what) EXCEPT !.delivered = sure]
         IN new \in Attempt /\ new.pc # "line" /\ AttemptOK(new)
<1> DEFINE new == [Says(a, what) EXCEPT !.delivered = sure]
<1>1. new = [me(a) EXCEPT !.pc = "done", !.said = what, !.seen = NoRow, !.delivered = sure]
  BY Start DEF Says, Attempt
<1> HIDE DEF new
<1>2. new \in Attempt
  BY <1>1, Start DEF Attempt
<1>3. /\ new.pc = "done" /\ new.said = what /\ new.seen = NoRow /\ new.delivered = sure
      /\ new.verb = me(a).verb /\ new.request = me(a).request /\ new.prior = me(a).prior
  BY <1>1, Start DEF Attempt
<1>4. AttemptOK(new)
  BY <1>3, Start DEF AttemptOK, AnswerOK, Later
<1>5. QED BY <1>2, <1>3, <1>4 DEF new

LEMMA PlainWord ==
  ASSUME IInv, NEW a \in Attempts, ~At(a, "done"), NEW what
  PROVE  Says(a, what) = [Says(a, what) EXCEPT !.delivered = FALSE]
<1>1. me(a) \in Attempt /\ ~me(a).delivered
  BY Start DEF AttemptOK, At
<1>2. QED BY <1>1 DEF Says, Attempt

LEMMA SettleOwningRowKeeps ==
  ASSUME IInv, NEW a \in Attempts, SettleOwningRow(a) PROVE IInv' /\ Onward
<1> DEFINE row == me(a).seen
           now == rows[me(a).verb]
<1>1. /\ At(a, "settle") /\ row # NoRow /\ Later(row, now) /\ row \in Row /\ now \in Row \cup {NoRow}
      /\ ~At(a, "done") /\ UNCHANGED <<Server, reversed, faults>>
  BY Start DEF SettleOwningRow, At, AttemptOK
<1>2. CASE ~SameRequest(row, me(a).request) /\ Moves(a, Says(a, "mismatch"))
  <2> DEFINE new == Says(a, "mismatch")
  <2>1. new \in Attempt /\ new.pc # "line" /\ AttemptOK(new)
    BY <1>1, LastWord, PlainWord
  <2> HIDE DEF new
  <2>2. Moves(a, new)
    BY <1>2 DEF new
  <2>3. QED BY <1>1, <2>1, <2>2, IdleStep
<1>3. CASE SameRequest(row, me(a).request) /\ row.status # "prepared"
  <2>1. /\ Moves(a, Says(a, AnswerOf(row)))
        /\ AnswerOf(row) = (IF row.status = "executed" THEN "executed" ELSE "blocked")
    BY <1>3 DEF SettleOwningRow, AnswerOf
  <2>2. now # NoRow /\ now.request = me(a).request
    BY <1>1, <1>3 DEF Later, SameRequest
  <2>3. /\ row.status = "executed" => now.status \in {"executed", "undone"}
        /\ row.status # "executed" => now.status # "prepared" /\ (now.status = "executed" => now.claim)
    BY <1>1, <1>3 DEF Later, Row, Statuses
  <2> DEFINE what == AnswerOf(row)
             new == Says(a, what)
  <2>4. what \in {"executed", "blocked"} /\ (what = "executed" <=> row.status = "executed")
    BY <2>1
  <2> HIDE DEF what
  <2>5. new = [Says(a, what) EXCEPT !.delivered = FALSE]
    BY <1>1, PlainWord
  <2>6. new \in Attempt /\ new.pc # "line" /\ AttemptOK(new)
    BY <1>1, <2>2, <2>3, <2>4, <2>5, LastWord
  <2>7. Moves(a, new)
    BY <2>1 DEF what
  <2> HIDE DEF new
  <2>8. QED BY <1>1, <2>6, <2>7, IdleStep
<1>4. CASE SameRequest(row, me(a).request) /\ row.status = "prepared"
  <2> DEFINE new == GoTo(a, IF row.claim THEN "resolve" ELSE "heal")
  <2>1. Moves(a, new)
    BY <1>4 DEF SettleOwningRow, AnswerOf
  <2>2. row.claim \in BOOLEAN /\ row.request = me(a).request
    BY <1>1, <1>4 DEF Row, SameRequest
  <2>3. /\ new \in Attempt /\ new.pc = (IF row.claim THEN "resolve" ELSE "heal")
        /\ new.verb = me(a).verb /\ new.request = me(a).request /\ new.seen = row
        /\ new.said = me(a).said /\ new.delivered = me(a).delivered /\ new.prior = me(a).prior
    BY Start DEF GoTo, Attempt
  <2>4. row.claim => me(a).verb = "cancel"
    BY <1>1, Start DEF IInv, RowsOK, Later, Verbs
  <2> HIDE DEF new
  <2>5. AttemptOK(new)
    BY <1>1, <1>4, <2>2, <2>3, <2>4, Start DEF AttemptOK, AnswerOK, At
  <2>6. QED BY <2>1, <2>3, <2>5, IdleStep DEF SettleOwningRow
<1>5. QED BY <1>2, <1>3, <1>4 DEF SettleOwningRow

LEMMA HealDecisionKeeps ==
  ASSUME IInv, NEW a \in Attempts, HealDecision(a) PROVE IInv' /\ Onward
<1> DEFINE row == me(a).seen
           now == rows[me(a).verb]
<1>1. /\ At(a, "heal") /\ ~At(a, "done") /\ row # NoRow /\ row.request = me(a).request
      /\ row.status = "prepared" /\ ~row.claim
      /\ Later(row, now) /\ row \in Row /\ now \in Row \cup {NoRow}
  BY Start DEF HealDecision, At, AttemptOK
<1>2. now # NoRow /\ now.request = me(a).request /\ ~now.claim /\ now.status # "blocked"
  BY <1>1 DEF Later
<1>3. CASE Moves(a, Says(a, "prepared"))
  BY <1>1, <1>2, <1>3, LastWord, PlainWord, IdleStep DEF HealDecision
<1>4. CASE cards[me(a).verb] > 0 /\ Moves(a, [Says(a, "prepared") EXCEPT !.delivered = TRUE])
  BY <1>1, <1>2, <1>4, LastWord, IdleStep DEF HealDecision
<1>5. CASE Moves(a, GoTo(a, "card"))
  <2> DEFINE new == GoTo(a, "card")
  <2>1. /\ new \in Attempt /\ new.pc = "card"
        /\ new.verb = me(a).verb /\ new.request = me(a).request /\ new.seen = row
        /\ new.said = me(a).said /\ new.delivered = me(a).delivered /\ new.prior = me(a).prior
    BY Start DEF GoTo, Attempt
  <2> HIDE DEF new
  <2>2. AttemptOK(new)
    BY <1>1, <1>2, <2>1, Start DEF AttemptOK, AnswerOK, At, Escalated
  <2>3. QED BY <1>5, <2>1, <2>2, IdleStep DEF HealDecision, new
<1>6. QED BY <1>3, <1>4, <1>5 DEF HealDecision

LEMMA ResolveCancelClaimKeeps ==
  ASSUME IInv, NEW a \in Attempts, ResolveCancelClaim(a) PROVE IInv' /\ Onward
<1> DEFINE row == me(a).seen
           now == rows[me(a).verb]
           new == [me(a) EXCEPT !.prior = row.undoTo,
                                !.pc = IF present /\ parcel # "cancelled" THEN "write" ELSE "confirm"]
<1>1. /\ At(a, "resolve") /\ me(a).verb = "cancel" /\ row # NoRow /\ row.claim
      /\ row.request = me(a).request /\ row.undoTo # "cancelled"
      /\ Later(row, now) /\ row \in Row
  BY Start DEF ResolveCancelClaim, At, AttemptOK
<1>2. now # NoRow /\ now.request = me(a).request /\ now.claim
  BY <1>1 DEF Later
<1>3. /\ new \in Attempt /\ new.pc = (IF present /\ parcel # "cancelled" THEN "write" ELSE "confirm")
      /\ new.verb = "cancel" /\ new.request = me(a).request /\ new.seen = row
      /\ new.prior = row.undoTo /\ new.said = me(a).said /\ new.delivered = me(a).delivered
  BY <1>1, Start DEF Attempt, Row
<1>4. Moves(a, new)
  BY DEF ResolveCancelClaim, PriorOf
<1> HIDE DEF new
<1>5. AttemptOK(new)
  BY <1>1, <1>2, <1>3, Start DEF AttemptOK, AnswerOK, At
<1>6. QED BY <1>3, <1>4, <1>5, IdleStep DEF ResolveCancelClaim

LEMMA AlreadyFinalizedKeeps ==
  ASSUME IInv, NEW a \in Attempts, AlreadyFinalized(a) PROVE IInv' /\ Onward
<1>1. /\ At(a, "confirm") /\ ~At(a, "done") /\ me(a).verb = "cancel"
      /\ rows["cancel"] # NoRow /\ rows["cancel"].request = me(a).request
  BY Start DEF AlreadyFinalized, At, AttemptOK
<1>2. CASE rows["cancel"].status = "executed" /\ Moves(a, Says(a, "executed"))
  <2> DEFINE new == Says(a, "executed")
  <2>1. new \in Attempt /\ new.pc # "line" /\ AttemptOK(new)
    BY <1>1, <1>2, LastWord, PlainWord
  <2>2. QED BY <1>2, <2>1, IdleStep DEF AlreadyFinalized
<1>3. CASE Moves(a, GoTo(a, "finalize"))
  <2> DEFINE new == GoTo(a, "finalize")
  <2>1. /\ new \in Attempt /\ new.pc = "finalize"
        /\ new.verb = me(a).verb /\ new.request = me(a).request /\ new.seen = me(a).seen
        /\ new.prior = me(a).prior /\ new.said = me(a).said /\ new.delivered = me(a).delivered
    BY Start DEF GoTo, Attempt
  <2> HIDE DEF new
  <2>2. AttemptOK(new)
    BY <1>1, <2>1, Start DEF AttemptOK, AnswerOK, At
  <2>3. QED BY <1>3, <2>1, <2>2, IdleStep DEF AlreadyFinalized, new
<1>4. QED BY <1>2, <1>3 DEF AlreadyFinalized

(* A delivery that ends knows and says nothing more. *)
LEMMA EndedKeeps ==
  ASSUME IInv, NEW a \in Attempts, ~At(a, "done"), Moves(a, Ended(a)),
         UNCHANGED <<Server, reversed>>, UNCHANGED faults \/ Faulty
  PROVE  IInv' /\ Onward
<1> DEFINE new == Ended(a)
<1>1. /\ new \in Attempt /\ new.pc = "dead" /\ new.seen = NoRow
      /\ new.verb = me(a).verb /\ new.request = me(a).request
      /\ new.said = me(a).said /\ new.delivered = me(a).delivered /\ new.prior = me(a).prior
  BY Start DEF Ended, Attempt
<1> HIDE DEF new
<1>2. AttemptOK(new)
  BY <1>1, Start DEF AttemptOK, AnswerOK, Later, At
<1>3. QED BY <1>1, <1>2, IdleStep DEF new

LEMMA DieKeeps ==
  ASSUME IInv, NEW a \in Attempts, Die(a) PROVE IInv' /\ Onward
BY EndedKeeps DEF Die, At

LEMMA AddDecisionKeeps ==
  ASSUME IInv, NEW a \in Attempts, AddDecision(a) PROVE IInv' /\ Onward
<1> DEFINE verb == me(a).verb
           said == IF Escalated(me(a)) THEN "blocked" ELSE "prepared"
           more == [cards EXCEPT ![verb] = @ + 1]
           row == rows[verb]
<1>1. /\ At(a, "card") /\ ~At(a, "done") /\ row # NoRow /\ row.request = me(a).request
      /\ said = "prepared" => ~row.claim /\ row.status # "blocked"
      /\ said = "blocked" => row.status = "blocked"
  BY Start DEF AddDecision, At, AttemptOK
<1>2. /\ more \in [Verbs -> Nat] /\ more[verb] = cards[verb] + 1 /\ more[verb] > 0
      /\ \A v \in Verbs : more[v] >= cards[v] /\ cards[v] >= cards[v]
  BY Start
<1>3. cards' \in {cards, more} /\ faults' \in 0..MaxFaults
  BY GateAssumption, Start DEF AddDecision, Faulty
<1>4. /\ cards' \in [Verbs -> Nat]
      /\ \A v \in Verbs : cards'[v] >= cards[v]
      /\ UNCHANGED <<rows, lines, placed, parcel, present, reversed>>
  BY <1>2, <1>3, Start DEF AddDecision
<1>5. ASSUME NEW sure \in BOOLEAN, sure => said = "prepared" /\ cards' = more,
             Moves(a, [Says(a, said) EXCEPT !.delivered = sure])
      PROVE  IInv' /\ Onward
  <2>1. PICK new \in Attempt : new = [Says(a, said) EXCEPT !.delivered = sure]
    BY Start DEF Says, Attempt
  <2>2. /\ new.pc = "done" /\ new.seen = NoRow /\ new.delivered = sure
        /\ new.verb = verb /\ new.request = me(a).request /\ new.said = said
        /\ new.prior = me(a).prior
    BY <2>1, Start DEF Says, Attempt
  <2>3. /\ said \in {"blocked", "prepared"}
        /\ sure => said = "prepared" /\ cards'[verb] > 0
        /\ rows' = rows
        /\ Moves(a, new)
    BY <1>2, <1>4, <1>5, <2>1
  <2> HIDE DEF said, more
  <2>4. AnswerOK(new)'
    BY <1>1, <2>2, <2>3 DEF AnswerOK
  <2>5. AttemptOK(new)'
    BY <2>2, <2>4, Start DEF AttemptOK, Later
  <2>6. QED BY <1>3, <1>4, <2>2, <2>3, <2>5, QuietStep
<1>6. CASE cards' = more /\ Moves(a, [Says(a, said) EXCEPT !.delivered = said = "prepared"])
  BY <1>5, <1>6
<1>7. CASE Moves(a, Says(a, said))
  BY <1>1, <1>5, <1>7, PlainWord
<1>8. QED BY <1>6, <1>7 DEF AddDecision

-----------------------------------------------------------------------------
(* Steps that change what the server holds. *)

LEMMA CreateChatOrderKeeps ==
  ASSUME IInv, NEW a \in Attempts, CreateChatOrder(a) PROVE IInv' /\ Onward
<1>1. At(a, "write") /\ ~At(a, "done") /\ me(a).verb = "order"
  BY DEF CreateChatOrder, At
<1>2. CASE placed' = Placed(placed, "key", me(a).request) /\ Moves(a, GoTo(a, "file"))
  <2>1. PICK new \in Attempt : new = GoTo(a, "file")
    BY Start DEF GoTo, Attempt
  <2>2. /\ new.pc = "file" /\ new.verb = "order" /\ new.request = me(a).request
        /\ new.prior = me(a).prior /\ new.seen = me(a).seen
        /\ new.said = me(a).said /\ new.delivered = me(a).delivered
    BY <1>1, <2>1, Start DEF GoTo, Attempt
  <2>3. /\ placed' \in [{"key", "approval"} -> Requests \cup {NoOrder}]
        /\ placed'["key"] # NoOrder
        /\ \A key \in DOMAIN placed : placed[key] # NoOrder => placed'[key] # NoOrder
        /\ DOMAIN placed' = DOMAIN placed
    BY <1>2, RequestAssumption, Start DEF IInv, TypeOK, Placed, Attempt, NoOrder
  <2>4. UNCHANGED <<rows, cards, lines, parcel, present, reversed, faults>> /\ Moves(a, new)
    BY <1>2, <2>1 DEF CreateChatOrder
  <2>5. TypeOK'
    BY <2>3, <2>4 DEF IInv, TypeOK, Moves
  <2>6. RowsOK'
    BY <2>3, <2>4 DEF IInv, RowsOK
  <2>7. LinesOK'
    <3>1. \A b \in Attempts : attempts'[b] = (IF b = a THEN new ELSE attempts[b])
      BY <2>4 DEF IInv, TypeOK, Moves
    <3>2. QED BY <2>2, <2>3, <2>4, <3>1 DEF IInv, LinesOK, SaleCreditedOnce, Credits, At, me
  <2>8. Onward
    BY <2>3, <2>4, LaterSame DEF Onward, IInv, TypeOK
  <2>9. AttemptOK(new)'
    BY <1>1, <2>2, <2>3, <2>4, Start DEF AttemptOK, AnswerOK, At
  <2>10. QED BY <2>4, <2>5, <2>6, <2>7, <2>8, <2>9, Stepped
<1>3. CASE Moves(a, Says(a, "refused")) /\ UNCHANGED placed
  <2> DEFINE new == Says(a, "refused")
  <2>1. new \in Attempt /\ new.pc # "line" /\ AttemptOK(new)
    BY <1>1, LastWord, PlainWord
  <2> HIDE DEF new
  <2>2. Moves(a, new) /\ UNCHANGED <<Server, reversed, faults>>
    BY <1>3 DEF new, CreateChatOrder, Server
  <2>3. QED BY <2>1, <2>2, IdleStep
<1>4. QED BY <1>2, <1>3 DEF CreateChatOrder

LEMMA CancelOrderKeeps ==
  ASSUME IInv, NEW a \in Attempts, CancelOrder(a) PROVE IInv' /\ Onward
<1>1. /\ At(a, "write") /\ me(a).verb = "cancel"
      /\ rows["cancel"] # NoRow /\ rows["cancel"].request = me(a).request
      /\ rows["cancel"].claim /\ me(a).prior # "cancelled"
      /\ UNCHANGED <<rows, cards, lines, placed, present, reversed, faults>>
  BY Start DEF CancelOrder, At, AttemptOK
<1>2. CASE present /\ parcel' = "cancelled" /\ Moves(a, GoTo(a, "confirm"))
  <2>1. PICK new \in Attempt : new = GoTo(a, "confirm")
    BY Start DEF GoTo, Attempt
  <2>2. /\ new.pc = "confirm" /\ new.verb = "cancel" /\ new.request = me(a).request
        /\ new.prior = me(a).prior /\ new.seen = me(a).seen
        /\ new.said = me(a).said /\ new.delivered = me(a).delivered
        /\ Moves(a, new)
    BY <1>1, <1>2, <2>1, Start DEF GoTo, Attempt
  <2>3. TypeOK'
    BY <1>1, <1>2, <2>2 DEF IInv, TypeOK, Moves, ParcelStatuses
  <2>4. RowsOK'
    BY <1>1, <1>2 DEF IInv, RowsOK
  <2>5. LinesOK'
    <3>1. \A b \in Attempts : attempts'[b] = (IF b = a THEN new ELSE attempts[b])
      BY <2>2 DEF IInv, TypeOK, Moves
    <3>2. QED BY <1>1, <2>2, <3>1 DEF IInv, LinesOK, SaleCreditedOnce, Credits, At, me
  <2>6. Onward
    BY <1>1, <1>2, LaterSame DEF Onward, IInv, TypeOK
  <2>7. AttemptOK(new)'
    BY <1>1, <1>2, <2>2, Start DEF AttemptOK, AnswerOK, At
  <2>8. QED BY <2>2, <2>3, <2>4, <2>5, <2>6, <2>7, Stepped
<1>3. CASE UNCHANGED parcel /\ Moves(a, Ended(a))
  <2>1. UNCHANGED <<Server, reversed>> /\ UNCHANGED faults
    BY <1>1, <1>3 DEF Server
  <2>2. QED BY <1>1, <1>3, <2>1, EndedKeeps DEF At
<1>4. QED BY <1>2, <1>3 DEF CancelOrder

LEMMA FileActivityKeeps ==
  ASSUME IInv, NEW a \in Attempts, FileActivity(a) PROVE IInv' /\ Onward
<1> DEFINE verb == me(a).verb
<1>1. /\ At(a, "line") /\ rows[verb] # NoRow /\ rows[verb].request = me(a).request
      /\ rows[verb].status \in {"executed", "undone"}
      /\ verb = "order" => placed["key"] # NoOrder
      /\ UNCHANGED <<rows, cards, placed, parcel, present, reversed>>
  BY Start DEF FileActivity, At, AttemptOK
<1>2. /\ lines' \in {lines, [lines EXCEPT ![verb] = @ + 1]}
      /\ faults' \in 0..MaxFaults /\ lines \in [Verbs -> Nat]
  BY GateAssumption, Start DEF FileActivity, Faulty, IInv, TypeOK
<1>3. PICK new \in Attempt : new = Says(a, "executed")
  BY Start DEF Says, Attempt
<1>4. /\ new.pc = "done" /\ new.verb = verb /\ new.request = me(a).request
      /\ new.seen = NoRow /\ new.said = "executed" /\ new.delivered = me(a).delivered
      /\ new.prior = me(a).prior
      /\ Moves(a, new)
  BY <1>3, Start DEF Says, Attempt, FileActivity
<1>5. \A b \in Attempts : attempts'[b] = (IF b = a THEN new ELSE attempts[b])
  BY <1>4 DEF IInv, TypeOK, Moves
<1>6. TypeOK'
  BY <1>1, <1>2, <1>4 DEF IInv, TypeOK, Moves
<1>7. RowsOK'
  BY <1>1 DEF IInv, RowsOK
<1>8. LinesOK'
  <2>1. CASE verb = "order"
    <3>1. Credits(a) /\ lines["order"] = 0 /\ lines' \in [Verbs -> Nat]
      BY <1>1, <1>6, <2>1 DEF Credits, IInv, LinesOK, TypeOK
    <3>2. lines'["order"] \in {0, 1}
      BY <1>2, <2>1, <3>1 DEF Verbs
    <3>3. \A b \in Attempts : ~Credits(b)'
      BY <1>4, <1>5, <3>1 DEF Credits, At, me, IInv, LinesOK
    <3>4. QED BY <1>1, <2>1, <3>2, <3>3 DEF LinesOK, SaleCreditedOnce
  <2>2. CASE verb # "order"
    <3>1. lines'["order"] = lines["order"]
      BY <1>2, <2>2 DEF Verbs
    <3>2. \A b \in Attempts : Credits(b)' => Credits(b)
      BY <1>4, <1>5 DEF Credits, At, me
    <3>3. QED BY <1>1, <3>1, <3>2 DEF LinesOK, SaleCreditedOnce, IInv
  <2>3. QED BY <2>1, <2>2
<1>9. Onward
  BY <1>1, LaterSame DEF Onward, IInv, TypeOK
<1>10. AttemptOK(new)'
  <2>1. ~me(a).delivered
    BY <1>1, Start DEF AttemptOK, At
  <2>2. QED BY <1>1, <1>4, <2>1, Start DEF AttemptOK, AnswerOK, Later
<1>11. QED BY <1>4, <1>6, <1>7, <1>8, <1>9, <1>10, Stepped

(* A filing answered by the row that is there changes nothing; one of its own opens the row. *)
LEMMA FileRowKeeps ==
  ASSUME IInv, NEW a \in Attempts, FileRow(a) PROVE IInv' /\ Onward
<1> DEFINE m == me(a)
           verb == m.verb
<1>1. /\ At(a, "file") /\ ~At(a, "done") /\ verb \in Verbs
      /\ rows' = [rows EXCEPT ![verb] = Filed(@, RowOf(m))]
      /\ Moves(a, IF Replayed(rows[verb]) THEN Settle(a, rows[verb]) ELSE AfterFiling(m))
      /\ UNCHANGED <<cards, lines, placed, parcel, present, reversed, faults>>
  BY Start DEF FileRow, At
<1>2. CASE rows[verb] # NoRow
  <2> DEFINE new == Settle(a, rows[verb])
  <2>1. rows' = rows /\ Moves(a, new)
    BY <1>1, <1>2 DEF Filed, Replayed, IInv, TypeOK
  <2>2. new \in Attempt /\ new.pc # "line"
    BY <1>2, Start DEF Settle, Attempt
  <2>3. verb = "cancel" => rows[verb].undoTo # "cancelled"
    BY <1>2 DEF IInv, RowsOK
  <2>4. AttemptOK(new)
    BY <1>1, <1>2, <2>3, Start, LaterSame DEF At, Settle, Attempt, AttemptOK, AnswerOK
  <2>5. UNCHANGED <<Server, reversed, faults>>
    BY <1>1, <2>1 DEF Server
  <2> HIDE DEF new
  <2>6. QED BY <2>1, <2>2, <2>4, <2>5, IdleStep
<1>3. CASE rows[verb] = NoRow
  <2>1. PICK new : new = AfterFiling(m)
    OBVIOUS
  <2>2. PICK row : row = RowOf(m)
    OBVIOUS
  <2>3. /\ m \in Attempt /\ AttemptOK(m) /\ m.pc = "file" /\ m.prior # "cancelled" /\ m.seen = NoRow
        /\ m.verdict \in {"refuse", "escalate", "draft", "execute"}
        /\ verb = "order" /\ m.verdict = "execute" => placed["key"] # NoOrder
        /\ m.said = "nothing" /\ ~m.delivered
    BY <1>1, <1>3, Start DEF AttemptOK, At, Attempt, Verdicts
  <2>4. /\ row \in Row /\ row # NoRow /\ row.request = m.request /\ row.undoTo = m.prior
        /\ row.claim = (m.verdict = "execute" /\ verb = "cancel")
        /\ m.verdict \in {"refuse", "escalate"} => row.status = "blocked"
        /\ m.verdict = "draft" => row.status = "prepared"
        /\ m.verdict = "execute" => row.status = (IF verb = "cancel" THEN "prepared" ELSE "executed")
    BY <1>1, <2>2, <2>3, RowsAreNotNoRow
       DEF RowOf, StatusOf, Claims, Refuses, Row, Statuses, Attempt, Verbs
  <2>5. /\ new \in Attempt /\ new.verb = verb /\ new.request = m.request /\ new.prior = m.prior
        /\ new.seen = NoRow /\ new.verdict = m.verdict /\ new.delivered = m.delivered
        /\ \/ new.pc = "done" /\ new.said = "blocked" /\ m.verdict = "refuse"
           \/ new.pc = "card" /\ new.said = "nothing" /\ m.verdict \in {"escalate", "draft"}
           \/ new.pc = "write" /\ new.said = "nothing" /\ m.verdict = "execute" /\ verb = "cancel"
           \/ new.pc = "line" /\ new.said = "nothing" /\ m.verdict = "execute" /\ verb = "order"
    BY <1>1, <2>1, <2>3 DEF AfterFiling, Attempt, Verbs
  <2>6. /\ rows'[verb] = row /\ rows' \in [Verbs -> Row \cup {NoRow}] /\ Moves(a, new)
        /\ \A v \in Verbs : v # verb => rows'[v] = rows[v]
    BY <1>1, <1>3, <2>1, <2>2, <2>4 DEF Filed, Replayed, IInv, TypeOK
  <2> HIDE DEF m
  <2>7. TypeOK'
    BY <1>1, <2>5, <2>6 DEF IInv, TypeOK, Moves
  <2>8. RowsOK'
    <3>1. parcel # "cancelled" \/ rows["cancel"] # NoRow
      BY DEF IInv, RowsOK
    <3>2. CASE verb = "order"
      <4>1. rows'["order"] = row /\ rows'["cancel"] = rows["cancel"]
        BY <2>6, <3>2 DEF Verbs
      <4>2. ~row.claim /\ (row.status \in {"executed", "undone"} => placed["key"] # NoOrder)
        BY <2>3, <2>4, <3>2
      <4>3. "key" \in DOMAIN placed
        BY DEF IInv, TypeOK
      <4>4. QED BY <1>1, <4>1, <4>2, <4>3 DEF IInv, RowsOK
    <3>3. CASE verb = "cancel"
      <4>1. rows'["cancel"] = row /\ rows'["order"] = rows["order"]
        BY <2>6, <3>3 DEF Verbs
      <4>2. /\ row # NoRow /\ row.undoTo # "cancelled" /\ row.status \in {"blocked", "prepared"}
            /\ row.claim => row.status = "prepared"
            /\ parcel # "cancelled"
        BY <1>3, <2>3, <2>4, <3>1, <3>3
      <4>3. QED BY <1>1, <4>1, <4>2 DEF IInv, RowsOK
    <3>4. QED BY <1>1, <3>2, <3>3 DEF Verbs
  <2>9. LinesOK'
    <3>1. \A b \in Attempts : attempts'[b] = (IF b = a THEN new ELSE attempts[b])
      BY <2>6 DEF IInv, TypeOK, Moves
    <3>2. CASE verb = "order"
      <4>1. lines["order"] = 0
        BY <1>3, <3>2 DEF IInv, TypeOK, LinesOK, SaleCreditedOnce, NoRow, Verbs
      <4>2. \A b \in Attempts : ~Credits(b)
        BY <1>3, <3>2, Start DEF Credits, At, AttemptOK
      <4>3. QED BY <1>1, <3>1, <4>1, <4>2 DEF LinesOK, SaleCreditedOnce, Credits, At, me
    <3>3. CASE verb # "order"
      <4>1. rows'["order"] = rows["order"]
        BY <2>6, <3>3 DEF Verbs
      <4>2. \A b \in Attempts : Credits(b)' => Credits(b)
        BY <2>5, <3>1, <3>3 DEF Credits, At, me
      <4>3. QED BY <1>1, <4>1, <4>2 DEF IInv, LinesOK, SaleCreditedOnce
    <3>4. QED BY <3>2, <3>3
  <2>10. Onward
    <3>1. \A v \in Verbs : Later(rows[v], rows'[v])
      BY <1>3, <2>6, LaterSame DEF Later
    <3>2. QED BY <1>1, <3>1 DEF Onward, IInv, TypeOK
  <2>11. AttemptOK(new)'
    <3>1. AnswerOK(new)'
      BY <2>3, <2>4, <2>5, <2>6 DEF AnswerOK
    <3>2. /\ new.pc \in {"done", "card", "line"} \/ (new.pc = "write" /\ new.verb = "cancel")
          /\ new.seen = NoRow /\ Later(new.seen, row)
          /\ new.prior # "cancelled" /\ ~new.delivered
          /\ row # NoRow /\ row.request = new.request
          /\ new.pc # "done" => new.said = "nothing"
      BY <2>3, <2>4, <2>5 DEF Later
    <3>3. new.pc = "write" => row.claim
      BY <2>4, <2>5
    <3>4. new.pc = "line" => /\ row.status = "executed"
                             /\ placed["key"] # NoOrder
      BY <2>3, <2>4, <2>5
    <3>5. new.pc = "card" => IF Escalated(new) THEN row.status = "blocked"
                             ELSE ~row.claim /\ row.status # "blocked"
      BY <2>4, <2>5 DEF Escalated
    <3>6. rows'[new.verb] = row /\ placed' = placed
      BY <1>1, <2>5, <2>6
    <3>7. QED BY <3>1, <3>2, <3>3, <3>4, <3>5, <3>6 DEF AttemptOK, Escalated
  <2>12. QED BY <2>5, <2>6, <2>7, <2>8, <2>9, <2>10, <2>11, Stepped
<1>4. QED BY <1>2, <1>3

LEMMA FinalizeClaimKeeps ==
  ASSUME IInv, NEW a \in Attempts, FinalizeClaim(a) PROVE IInv' /\ Onward
<1> DEFINE row == rows["cancel"]
           now == rows'["cancel"]
<1>1. /\ At(a, "finalize") /\ me(a).verb = "cancel" /\ me(a).seen \in Row \cup {NoRow}
      /\ row # NoRow /\ row.request = me(a).request /\ row.claim
      /\ me(a).prior \in ParcelStatuses \ {"cancelled"}
      /\ parcel = "cancelled" \/ ~present \/ "cancel" \in reversed
      /\ UNCHANGED <<cards, lines, placed, parcel, present, reversed, faults>>
  BY Start DEF FinalizeClaim, At, AttemptOK
<1>2. row \in Row /\ row.status \in {"prepared", "executed", "undone"}
  BY <1>1 DEF IInv, TypeOK, RowsOK, Verbs
<1>3. /\ rows' \in [Verbs -> Row \cup {NoRow}]
      /\ now \in Row /\ now # NoRow
      /\ now.status = "executed" /\ now.undoTo = me(a).prior
      /\ now.request = row.request /\ now.claim = row.claim
      /\ rows'["order"] = rows["order"]
  BY <1>1, <1>2, RowsAreNotNoRow DEF FinalizeClaim, IInv, TypeOK, Row, Statuses, Verbs
<1>4. Later(row, now) /\ Later(now, now)
  BY <1>1, <1>2, <1>3, LaterSame DEF Later
<1>5. PICK new \in Attempt : new = GoTo(a, "line")
  BY Start DEF GoTo, Attempt
<1>6. /\ new.pc = "line" /\ new.verb = "cancel" /\ new.request = me(a).request
      /\ new.prior = me(a).prior /\ new.seen = me(a).seen
      /\ new.said = me(a).said /\ new.delivered = me(a).delivered
      /\ Moves(a, new)
  BY <1>1, <1>5, Start DEF GoTo, Attempt, FinalizeClaim
<1>7. TypeOK'
  BY <1>1, <1>3, <1>6 DEF IInv, TypeOK, Moves
<1>8. RowsOK'
  BY <1>1, <1>3 DEF IInv, RowsOK
<1>9. LinesOK'
  <2>1. \A b \in Attempts : attempts'[b] = (IF b = a THEN new ELSE attempts[b])
    BY <1>6 DEF IInv, TypeOK, Moves
  <2>2. QED BY <1>1, <1>3, <1>6, <2>1 DEF IInv, LinesOK, SaleCreditedOnce, Credits, At, me
<1>10. Onward
  BY <1>1, <1>3, <1>4, LaterSame DEF Onward, IInv, TypeOK, Verbs
<1>11. AttemptOK(new)'
  <2>1. /\ Later(me(a).seen, row)
        /\ me(a).seen # NoRow => me(a).seen.undoTo # "cancelled"
        /\ me(a).said = "nothing" /\ ~me(a).delivered
    BY <1>1, Start DEF AttemptOK, At
  <2>2. Later(me(a).seen, now)
    BY <1>1, <1>2, <1>3, <1>4, <2>1, LaterLater
  <2>3. rows'[new.verb] = now
    BY <1>6
  <2> HIDE DEF row, now
  <2>4. AnswerOK(new)'
    BY <1>6, <2>1 DEF AnswerOK
  <2>5. QED BY <1>1, <1>3, <1>6, <2>1, <2>2, <2>3, <2>4 DEF AttemptOK
<1>12. QED BY <1>6, <1>7, <1>8, <1>9, <1>10, <1>11, Stepped

-----------------------------------------------------------------------------
(* The founder's steps move no delivery, and no line. *)
LEMMA DeskStep ==
  ASSUME IInv, TypeOK', RowsOK', Onward, UNCHANGED <<attempts, lines>>
  PROVE  IInv'
<1>1. \A b \in Attempts : AttemptOK(me(b))'
  <2>1. \A b \in Attempts : attempts[b] \in Attempt /\ AttemptOK(attempts[b])
    BY DEF IInv, TypeOK, me
  <2>2. \A b \in Attempts : AttemptOK(attempts[b])'
    BY <2>1, Carried DEF IInv
  <2>3. QED BY <2>2 DEF me
<1>2. LinesOK'
  <2>1. rows["order"] \in Row \cup {NoRow} /\ rows'["order"] \in Row \cup {NoRow}
    BY DEF IInv, TypeOK, Verbs
  <2>2. rows["order"].status \in {"executed", "undone"} => rows'["order"].status \in {"executed", "undone"}
    BY <2>1, RowsAreNotNoRow DEF Onward, Later, Verbs, NoRow
  <2>3. QED BY <2>2 DEF IInv, LinesOK, SaleCreditedOnce, Credits, At, me, Onward
<1>3. QED BY <1>1, <1>2 DEF IInv

(* The two verbs' rows are two. *)
LEMMA OneRowMoves ==
  ASSUME IInv, NEW verb \in Verbs, NEW new \in Row, new # NoRow, Later(rows[verb], new),
         rows' = [rows EXCEPT ![verb] = new]
  PROVE  /\ rows' \in [Verbs -> Row \cup {NoRow}] /\ rows'[verb] = new
         /\ \A other \in Verbs \ {verb} : rows'[other] = rows[other]
         /\ \A v \in Verbs : Later(rows[v], rows'[v])
BY LaterSame DEF IInv, TypeOK

(* What the founder may act on: a row, and not a claim that is being carried out. *)
LEMMA OnDeskIsARow ==
  ASSUME IInv, NEW verb \in Verbs, OnDesk(verb) \/ rows[verb].status = "executed"
  PROVE  rows[verb] \in Row /\ rows[verb] # NoRow
BY RowsAreNotNoRow DEF OnDesk, IInv, TypeOK, NoRow

LEMMA ApproveKeeps ==
  ASSUME IInv, NEW verb \in Verbs, Approve(verb) PROVE IInv' /\ Onward
<1>1. /\ rows[verb] \in Row /\ rows[verb].status = "prepared" /\ ~rows[verb].claim
      /\ parcel \in ParcelStatuses
      /\ UNCHANGED <<cards, lines, present, attempts, reversed, faults>>
  BY OnDeskIsARow DEF Approve, OnDesk, IInv, TypeOK
<1>2. PICK new : new = [rows[verb] EXCEPT !.status = "executed",
                                          !.undoTo = IF verb = "cancel" THEN parcel ELSE @]
  OBVIOUS
<1>3. /\ new \in Row /\ new # NoRow /\ new.status = "executed" /\ ~new.claim /\ new.claim = rows[verb].claim
      /\ new.request = rows[verb].request /\ new.request \in Requests
      /\ verb = "cancel" => new.undoTo = parcel
  BY <1>1, <1>2, RowsAreNotNoRow DEF Row, Statuses
<1>4. Later(rows[verb], new)
  BY <1>1, <1>3 DEF Later
<1>5. rows' = [rows EXCEPT ![verb] = new]
  BY <1>2 DEF Approve, IInv, TypeOK
<1>6. /\ rows' \in [Verbs -> Row \cup {NoRow}] /\ rows'[verb] = new
      /\ \A other \in Verbs \ {verb} : rows'[other] = rows[other]
      /\ \A v \in Verbs : Later(rows[v], rows'[v])
  BY <1>3, <1>4, <1>5, OneRowMoves
<1>7. CASE verb = "order"
  <2>1. placed' = Placed(placed, "approval", new.request) /\ parcel' = parcel
    BY <1>3, <1>7 DEF Approve
  <2>2. /\ placed' \in [{"key", "approval"} -> Requests \cup {NoOrder}]
        /\ placed'["approval"] # NoOrder /\ placed'["key"] = placed["key"]
    BY <1>3, <2>1, RequestAssumption DEF IInv, TypeOK, Placed, NoOrder
  <2>3. TypeOK'
    BY <1>1, <1>6, <2>1, <2>2 DEF IInv, TypeOK
  <2>4. rows'["cancel"] = rows["cancel"] /\ "approval" \in DOMAIN placed' /\ ~rows'["order"].claim
    BY <1>3, <1>6, <1>7, <2>2 DEF Verbs
  <2>5. RowsOK'
    BY <1>1, <2>1, <2>2, <2>4 DEF IInv, RowsOK
  <2>6. Onward
    BY <1>1, <1>6, <2>1, <2>2 DEF Onward, IInv, TypeOK
  <2>7. QED BY <1>1, <2>3, <2>5, <2>6, DeskStep
<1>8. CASE verb = "cancel"
  <2>1. /\ parcel' = "cancelled" /\ placed' = placed /\ parcel # "cancelled"
        /\ rows'["cancel"] = new /\ rows'["order"] = rows["order"]
    BY <1>1, <1>6, <1>8, RowsAreNotNoRow DEF Approve, IInv, RowsOK, Verbs
  <2>2. TypeOK'
    BY <1>1, <1>6, <2>1 DEF IInv, TypeOK, ParcelStatuses
  <2>3. RowsOK'
    BY <1>1, <1>3, <1>8, <2>1 DEF IInv, RowsOK
  <2>4. Onward
    BY <1>1, <1>6, <2>1 DEF Onward, IInv, TypeOK
  <2>5. QED BY <1>1, <2>2, <2>3, <2>4, DeskStep
<1>9. QED BY <1>7, <1>8 DEF Verbs

LEMMA RejectKeeps ==
  ASSUME IInv, NEW verb \in Verbs, Reject(verb) PROVE IInv' /\ Onward
<1>1. /\ rows[verb] \in Row /\ rows[verb] # NoRow
      /\ rows[verb].status = "prepared" /\ ~rows[verb].claim
      /\ UNCHANGED <<cards, lines, placed, parcel, present, attempts, reversed, faults>>
  BY OnDeskIsARow DEF Reject, OnDesk
<1>2. PICK new : new = [rows[verb] EXCEPT !.status = "rejected"]
  OBVIOUS
<1>3. /\ new \in Row /\ new # NoRow /\ new.status = "rejected" /\ ~new.claim /\ new.claim = rows[verb].claim
      /\ new.request = rows[verb].request /\ new.undoTo = rows[verb].undoTo
  BY <1>1, <1>2, RowsAreNotNoRow DEF Row, Statuses
<1>4. Later(rows[verb], new)
  BY <1>1, <1>3 DEF Later
<1>5. rows' = [rows EXCEPT ![verb] = new]
  BY <1>2 DEF Reject, IInv, TypeOK
<1>6. /\ rows' \in [Verbs -> Row \cup {NoRow}] /\ rows'[verb] = new
      /\ \A other \in Verbs \ {verb} : rows'[other] = rows[other]
      /\ \A v \in Verbs : Later(rows[v], rows'[v])
  BY <1>3, <1>4, <1>5, OneRowMoves
<1>7. TypeOK'
  BY <1>1, <1>6 DEF IInv, TypeOK
<1>8. RowsOK'
  BY <1>1, <1>3, <1>6 DEF IInv, RowsOK, Verbs
<1>9. Onward
  BY <1>1, <1>6 DEF Onward, IInv, TypeOK
<1>10. QED BY <1>1, <1>7, <1>8, <1>9, DeskStep

LEMMA UndoKeeps ==
  ASSUME IInv, NEW verb \in Verbs, Undo(verb) PROVE IInv' /\ Onward
<1>1. /\ rows[verb] \in Row /\ rows[verb] # NoRow /\ rows[verb].status = "executed"
      /\ reversed' = reversed \cup {verb}
      /\ parcel' = IF verb = "cancel" /\ present THEN rows[verb].undoTo ELSE parcel
      /\ UNCHANGED <<cards, lines, placed, present, attempts, faults>>
  BY OnDeskIsARow DEF Undo
<1>2. PICK new : new = [rows[verb] EXCEPT !.status = "undone"]
  OBVIOUS
<1>3. /\ new \in Row /\ new # NoRow /\ new.status = "undone" /\ new.claim = rows[verb].claim
      /\ new.request = rows[verb].request /\ new.undoTo = rows[verb].undoTo
  BY <1>1, <1>2, RowsAreNotNoRow DEF Row, Statuses
<1>4. Later(rows[verb], new)
  BY <1>1, <1>3 DEF Later
<1>5. rows' = [rows EXCEPT ![verb] = new]
  BY <1>2 DEF Undo, IInv, TypeOK
<1>6. /\ rows' \in [Verbs -> Row \cup {NoRow}] /\ rows'[verb] = new
      /\ \A other \in Verbs \ {verb} : rows'[other] = rows[other]
      /\ \A v \in Verbs : Later(rows[v], rows'[v])
  BY <1>3, <1>4, <1>5, OneRowMoves
<1>7. TypeOK'
  BY <1>1, <1>6 DEF IInv, TypeOK, Row
<1>8. RowsOK'
  BY <1>1, <1>3, <1>6 DEF IInv, RowsOK, Verbs
<1>9. Onward
  <2>1. verb # "cancel" => parcel' = parcel
    BY <1>1
  <2>2. verb = "cancel" => "cancel" \in reversed'
    BY <1>1
  <2>3. QED BY <1>1, <1>6, <2>1, <2>2 DEF Onward, IInv, TypeOK
<1>10. QED BY <1>1, <1>7, <1>8, <1>9, DeskStep

LEMMA PackKeeps ==
  ASSUME IInv, Pack PROVE IInv' /\ Onward
<1>1. /\ parcel = "placed" /\ parcel' = "packed"
      /\ UNCHANGED <<rows, cards, lines, placed, present, attempts, reversed, faults>>
  BY DEF Pack
<1>2. TypeOK'
  BY <1>1 DEF IInv, TypeOK, ParcelStatuses
<1>3. RowsOK'
  BY <1>1 DEF IInv, RowsOK
<1>4. Onward
  BY <1>1, LaterSame DEF Onward, IInv, TypeOK
<1>5. QED BY <1>1, <1>2, <1>3, <1>4, DeskStep

LEMMA VanishKeeps ==
  ASSUME IInv, Vanish PROVE IInv' /\ Onward
<1>1. /\ present' = FALSE /\ faults' \in 0..MaxFaults
      /\ UNCHANGED <<rows, cards, lines, placed, parcel, attempts, reversed>>
  BY GateAssumption DEF Vanish, Faulty, IInv, TypeOK
<1>2. TypeOK'
  BY <1>1 DEF IInv, TypeOK
<1>3. RowsOK'
  BY <1>1 DEF IInv, RowsOK
<1>4. Onward
  BY <1>1, LaterSame DEF Onward, IInv, TypeOK
<1>5. QED BY <1>1, <1>2, <1>3, <1>4, DeskStep

-----------------------------------------------------------------------------
(* The invariant and what follows from it. *)

LEMMA InitHolds == Init => IInv
<1> SUFFICES ASSUME Init PROVE IInv
  OBVIOUS
<1>1. \A a \in Attempts : /\ attempts[a] \in Attempt /\ me(a).pc = "new" /\ me(a).seen = NoRow
                          /\ me(a).prior = "placed" /\ me(a).said = "nothing" /\ ~me(a).delivered
  <2> TAKE a \in Attempts
  <2>1. PICK v \in Verbs, r \in Requests :
          attempts[a] = [pc |-> "new", verb |-> v, request |-> r, verdict |-> "refuse",
                         seen |-> NoRow, prior |-> "placed", said |-> "nothing", delivered |-> FALSE]
    BY DEF Init
  <2>2. QED BY <2>1 DEF me, Attempt, Verdicts, ParcelStatuses
<1>2. attempts \in [Attempts -> Attempt]
  BY <1>1 DEF Init
<1>3. TypeOK
  BY <1>2, GateAssumption DEF Init, TypeOK, ParcelStatuses
<1>4. RowsOK
  BY DEF Init, RowsOK, NoRow, Verbs
<1>5. LinesOK
  BY <1>1 DEF Init, LinesOK, SaleCreditedOnce, Credits, At, Verbs
<1>6. \A a \in Attempts : AttemptOK(me(a))
  BY <1>1 DEF AttemptOK, AnswerOK, Later
<1>7. QED BY <1>3, <1>4, <1>5, <1>6 DEF IInv

LEMMA StepHolds == IInv /\ [Next]_vars => IInv' /\ \A verb \in Verbs : Later(rows[verb], rows'[verb])
<1> SUFFICES ASSUME IInv, [Next]_vars
             PROVE  IInv' /\ \A verb \in Verbs : Later(rows[verb], rows'[verb])
  OBVIOUS
<1>1. ASSUME NEW a \in Attempts,
             \/ Begin(a) \/ FindByKey(a) \/ EvaluateAuthority(a) \/ CreateChatOrder(a) \/ ReadBefore(a)
             \/ FileRow(a) \/ AddDecision(a) \/ SettleOwningRow(a) \/ HealDecision(a)
             \/ ResolveCancelClaim(a) \/ CancelOrder(a) \/ AlreadyFinalized(a) \/ FinalizeClaim(a)
             \/ FileActivity(a) \/ Die(a)
      PROVE  IInv' /\ Onward
  BY <1>1, BeginKeeps, FindByKeyKeeps, EvaluateAuthorityKeeps, CreateChatOrderKeeps,
     ReadBeforeKeeps, FileRowKeeps, AddDecisionKeeps, SettleOwningRowKeeps, HealDecisionKeeps,
     ResolveCancelClaimKeeps, CancelOrderKeeps, AlreadyFinalizedKeeps, FinalizeClaimKeeps,
     FileActivityKeeps, DieKeeps
<1>2. ASSUME NEW verb \in Verbs, Approve(verb) \/ Reject(verb) \/ Undo(verb)
      PROVE  IInv' /\ Onward
  BY <1>2, ApproveKeeps, RejectKeeps, UndoKeeps
<1>3. CASE Pack \/ Vanish
  BY <1>3, PackKeeps, VanishKeeps DEF Onward
<1>4. CASE UNCHANGED vars
  <2>1. \A verb \in Verbs : Later(rows[verb], rows'[verb])
    BY <1>4, LaterSame DEF vars
  <2>2. IInv'
    BY <1>4 DEF vars, IInv, TypeOK, RowsOK, LinesOK, SaleCreditedOnce, Credits, At, me,
                AttemptOK, AnswerOK, Escalated
  <2>3. QED BY <2>1, <2>2
<1>5. QED BY <1>1, <1>2, <1>3, <1>4 DEF Next, Onward

(***************************************************************************)
(* Whatever deliveries run, in whatever order, and whichever of them die,  *)
(* the ledger, the shop and what each delivery knows stay in agreement.    *)
(***************************************************************************)
THEOREM Agreement == Spec => []IInv
<1>1. IInv /\ [Next]_vars => IInv'
  BY StepHolds
<1>2. QED BY InitHolds, <1>1, PTL DEF Spec

(* Every row, delivery and count is of its kind, for any deliveries and requests. *)
THEOREM Typing == Spec => []TypeOK
<1>1. IInv => TypeOK
  BY DEF IInv
<1>2. QED BY Agreement, <1>1, PTL

(* However many deliveries of one sale there are, one of them credits it (fileActivity). *)
THEOREM OneCredit == Spec => []SaleCreditedOnce
<1>1. IInv => SaleCreditedOnce
  BY DEF IInv, LinesOK
<1>2. QED BY Agreement, <1>1, PTL

(***************************************************************************)
(* No delivery, dead or alive, leaves an executed row whose write did not  *)
(* happen, save a cancel's of an order that the store no longer has.       *)
(***************************************************************************)
THEOREM NothingUndone == Spec => []ExecutedIsDone
<1>1. ASSUME IInv PROVE ExecutedIsDone
  <2>1. rows["cancel"] \in Row \cup {NoRow} /\ NoRow.status # "executed"
    BY <1>1 DEF IInv, TypeOK, NoRow, Verbs
  <2>2. QED BY <1>1, <2>1 DEF IInv, RowsOK, ExecutedIsDone, Verbs
<1>2. QED BY Agreement, <1>1, PTL

(* What a delivery said of a request stays true of it, while others fail, retry and die. *)
THEOREM TrueAnswers == Spec => []AnswersAreTrue
<1>1. IInv => AnswersAreTrue
  BY DEF IInv, AttemptOK, AnswersAreTrue
<1>2. QED BY Agreement, <1>1, PTL

(* However often a cancel's claim is resolved, its undo restores the status before it. *)
THEOREM WayBack == Spec => []UndoRestores
<1>1. IInv => UndoRestores
  BY DEF IInv, RowsOK, UndoRestores
<1>2. QED BY Agreement, <1>1, PTL

(* No step takes a key from the row that owns it, or a decided row back to the desk. *)
THEOREM RowsOnlyMoveOn == Spec => OwnersStay
<1>1. IInv /\ [Next]_vars => [\A verb \in Verbs : Later(rows[verb], rows'[verb])]_vars
  BY StepHolds
<1>2. QED BY Agreement, <1>1, PTL DEF Spec, OwnersStay
=============================================================================
