--------------------------- MODULE ChatVerbsProofs ---------------------------
(***************************************************************************)
(* What ChatVerbs keeps for every number of deliveries, keys, codes, and   *)
(* faults.  Deliveries meet in the ledger's row, in the coupons and at the *)
(* door, and IInv says of each of the three what a delivery at rest may    *)
(* count on.                                                               *)
(***************************************************************************)
EXTENDS ChatVerbs, TLAPS

-----------------------------------------------------------------------------
(* A delivery moves, and the row of one key moves on. *)

LEMMA Bounds == 1 \in 1..Tries /\ 0 \in 0..MaxTimes /\ 0 \in 0..MaxFaults
BY VerbBounds

LEMMA Blank == NoRow \in Rows /\ Idle \in States
BY Bounds DEF NoRow, Rows, Idle, States, Points

LEMMA Faultily ==
  ASSUME IInv, Faulty \/ faults' = faults
  PROVE  faults' \in 0..MaxFaults
BY VerbBounds DEF IInv, TypeOK, Faulty

LEMMA MoveStep ==
  ASSUME IInv,
         NEW d \in Deliveries, NEW new \in States, Becomes(d, new),
         NEW row \in Rows, rows' = [rows EXCEPT ![key[d]] = row],
         UNCHANGED <<verb, key, coupons, door>>,
         unread' \in BOOLEAN, unread => unread', faults' \in 0..MaxFaults,
         RowOK(row),
         Row(d).claim => row.claim /\ row.by = Row(d).by,
         \A e \in Deliveries : AsRecorded(Row(d), at[e].said) => AsRecorded(row, at[e].said),
         row.fresh => \E e \in Deliveries : key[e] = key[d] /\ at[e].fresh /\ at[e].time = row.time,
         new.fresh = at[d].fresh, new.time = at[d].time, new.pc \in {"look", "write"} => ~new.fresh,
         MinterOK(row, new)', AsRecorded(row, new.said)
  PROVE  IInv'
<1> USE DEF IInv, Becomes
<1>1. /\ \A e \in Deliveries : at'[e] = IF e = d THEN new ELSE at[e]
      /\ \A k \in Keys : rows'[k] = IF k = key[d] THEN row ELSE rows[k]
      /\ \A e \in Deliveries : key[e] \in Keys
  BY DEF TypeOK
<1>2. TypeOK'
  BY DEF TypeOK
<1>3. ClaimsOK'
  <2>1. \A k \in Keys : RowOK(rows[k])'
    BY <1>1 DEF ClaimsOK, RowOK, Live
  <2>2. ASSUME NEW e \in Deliveries
        PROVE  MinterOK(Row(e), at[e])'
    <3>1. MinterOK(Row(e), at[e])
      BY DEF ClaimsOK
    <3>2. Row(e).claim => Row(e)'.claim /\ Row(e)'.by = Row(e).by
      BY <1>1 DEF Row
    <3>3. CASE e = d
      <4>1. Row(e)' = row /\ at'[e] = new
        BY <1>1, <3>3 DEF Row
      <4>2. QED BY <4>1
    <3>4. CASE e # d
      <4>1. at'[e] = at[e]
        BY <1>1, <3>4
      <4>2. QED BY <3>1, <3>2, <4>1 DEF MinterOK, Live
    <3>5. QED BY <3>3, <3>4
  <2>3. QED BY <2>1, <2>2 DEF ClaimsOK
<1>4. CouponsOK'
  <2>1. \A e \in Deliveries, c \in Codes : Reserved(e, c) => Reserved(e, c)'
    BY <1>1 DEF Reserved, Row
  <2>2. QED BY <2>1 DEF CouponsOK
<1>5. OpeningsOK'
  BY <1>1 DEF OpeningsOK
<1>6. ToldAsRecorded'
  <2>1. ASSUME NEW e \in Deliveries
        PROVE  AsRecorded(Row(e), at[e].said)'
    <3>1. AsRecorded(Row(e), at[e].said)
      BY DEF ToldAsRecorded
    <3>2. CASE e = d
      BY <1>1, <3>2 DEF Row, AsRecorded, Lottery
    <3>3. CASE e # d
      BY <1>1, <3>1, <3>3 DEF Row, AsRecorded, Lottery
    <3>4. QED BY <3>2, <3>3
  <2>2. QED BY <2>1 DEF ToldAsRecorded
<1>7. QED BY <1>2, <1>3, <1>4, <1>5, <1>6

(* Nothing else becomes known of the lists. *)
LEMMA RowStep ==
  ASSUME IInv,
         NEW d \in Deliveries, NEW new \in States, Becomes(d, new),
         NEW row \in Rows, rows' = [rows EXCEPT ![key[d]] = row],
         UNCHANGED <<verb, key, coupons, door, unread, faults>>,
         RowOK(row),
         Row(d).claim => row.claim /\ row.by = Row(d).by,
         \A e \in Deliveries : AsRecorded(Row(d), at[e].said) => AsRecorded(row, at[e].said),
         row.fresh => \E e \in Deliveries : key[e] = key[d] /\ at[e].fresh /\ at[e].time = row.time,
         new.fresh = at[d].fresh, new.time = at[d].time, new.pc \in {"look", "write"} => ~new.fresh,
         MinterOK(row, new), AsRecorded(row, new.said)
  PROVE  IInv'
<1>1. unread \in BOOLEAN /\ faults \in 0..MaxFaults
  BY DEF IInv, TypeOK
<1>2. MinterOK(row, new)' /\ AsRecorded(row, new.said)'
  BY DEF MinterOK, Live, AsRecorded, Lottery
<1>3. QED BY <1>1, <1>2, MoveStep

(* The row stays as it is. *)
LEMMA OwnStep ==
  ASSUME IInv,
         NEW d \in Deliveries, NEW new \in States, Becomes(d, new),
         UNCHANGED <<verb, key, rows, coupons, door>>,
         unread' \in BOOLEAN, unread => unread', faults' \in 0..MaxFaults,
         new.fresh = at[d].fresh, new.time = at[d].time, new.pc \in {"look", "write"} => ~new.fresh,
         MinterOK(Row(d), new)', AsRecorded(Row(d), new.said)
  PROVE  IInv'
<1>1. key[d] \in Keys /\ Row(d) \in Rows /\ rows' = [rows EXCEPT ![key[d]] = Row(d)]
  BY DEF IInv, TypeOK, Row
<1>2. RowOK(Row(d)) /\ (MinterOK(Row(d), new)' => MinterOK(rows[key[d]], new)')
  BY <1>1 DEF IInv, ClaimsOK, Row, MinterOK, Live
<1>3. Row(d).fresh => \E e \in Deliveries : key[e] = key[d] /\ at[e].fresh /\ at[e].time = Row(d).time
  BY <1>1 DEF IInv, OpeningsOK, Row
<1>4. QED BY <1>1, <1>2, <1>3, MoveStep DEF Row

(* Neither the row nor what is known of the lists. *)
LEMMA SteadyStep ==
  ASSUME IInv,
         NEW d \in Deliveries, NEW new \in States, Becomes(d, new),
         UNCHANGED <<verb, key, rows, coupons, door, unread>>, faults' \in 0..MaxFaults,
         new.fresh = at[d].fresh, new.time = at[d].time, new.pc \in {"look", "write"} => ~new.fresh,
         MinterOK(Row(d), new), AsRecorded(Row(d), new.said)
  PROVE  IInv'
<1>1. unread \in BOOLEAN /\ Row(d)' = Row(d)
  BY DEF IInv, TypeOK, Row
<1>2. MinterOK(Row(d), new)' /\ AsRecorded(Row(d), new.said)'
  BY <1>1 DEF MinterOK, Live, AsRecorded, Lottery
<1>3. QED BY <1>1, <1>2, OwnStep

(* A row that has the key answers a delivery that was not minting yet. *)
LEMMA Answered ==
  ASSUME IInv, NEW d \in Deliveries, Row(d) # NoRow, at[d].try = 1
  PROVE  LET new == Settled(d, Row(d))
         IN /\ new \in States /\ new.pc \in {"resolve", "done"}
            /\ new.fresh = at[d].fresh /\ new.time = at[d].time
            /\ MinterOK(Row(d), new) /\ AsRecorded(Row(d), new.said)
<1>1. /\ Row(d) \in Rows /\ at[d] \in States /\ RowOK(Row(d))
      /\ AsRecorded(Row(d), at[d].said)
  BY DEF IInv, TypeOK, Row, ClaimsOK, ToldAsRecorded
<1>2. CASE Row(d).status = "prepared" /\ Row(d).claim
  BY <1>1, <1>2 DEF Settled, States, Points, Minting, MinterOK, RowOK, Rows
<1>3. CASE ~(Row(d).status = "prepared" /\ Row(d).claim)
  <2>1. Settled(d, Row(d)) = [at[d] EXCEPT !.pc = "done", !.said = Row(d)]
    BY <1>3 DEF Settled, FromRow
  <2>2. AsRecorded(Row(d), Row(d))
    BY DEF AsRecorded
  <2>3. QED BY <1>1, <2>1, <2>2 DEF States, Points, Minting, MinterOK
<1>4. QED BY <1>2, <1>3

-----------------------------------------------------------------------------
(* One step per action. *)

LEMMA InitIInv == Init => IInv
<1> SUFFICES ASSUME Init
             PROVE  IInv
  OBVIOUS
<1>1. /\ \A d \in Deliveries : at[d] = Idle /\ key[d] \in Keys
      /\ \A k \in Keys : rows[k] = NoRow
  BY DEF Init
<1>2. TypeOK
  BY Blank, Bounds DEF Init, TypeOK, Direct
<1>3. ClaimsOK
  BY <1>1, Bounds DEF Init, ClaimsOK, RowOK, NoRow, MinterOK, Idle, Row, Minting
<1>4. CouponsOK
  BY DEF Init, CouponsOK
<1>5. OpeningsOK
  BY <1>1 DEF OpeningsOK, Idle, NoRow
<1>6. ToldAsRecorded
  BY <1>1 DEF ToldAsRecorded, AsRecorded, Idle, NoRow
<1>7. QED BY <1>2, <1>3, <1>4, <1>5, <1>6 DEF IInv

LEMMA GateStep ==
  ASSUME IInv, NEW d \in Deliveries, Gate(d)
  PROVE  IInv'
<1>1. /\ at[d] \in States /\ at[d].pc = "look" /\ at[d].try = 1 /\ ~at[d].fresh
      /\ MinterOK(Row(d), at[d]) /\ AsRecorded(Row(d), at[d].said)
      /\ unread \in BOOLEAN /\ faults \in 0..MaxFaults /\ verb \in Direct \cup {"discount"}
  BY DEF IInv, TypeOK, ClaimsOK, MinterOK, ToldAsRecorded, OpeningsOK, Gate, At
<1>2. CASE Row(d) # NoRow
  <2> DEFINE new == Settled(d, Row(d))
  <2>1. /\ new \in States /\ new.pc \in {"resolve", "done"}
        /\ new.fresh = at[d].fresh /\ new.time = at[d].time
        /\ MinterOK(Row(d), new) /\ AsRecorded(Row(d), new.said)
    BY <1>1, <1>2, Answered
  <2>2. Becomes(d, new) /\ UNCHANGED <<verb, key, rows, coupons, door, unread, faults>>
    BY <1>2 DEF Gate
  <2> HIDE DEF new
  <2>3. QED BY <1>1, <2>1, <2>2, SteadyStep
<1>3. CASE Row(d) = NoRow
  <2>1. PICK next \in {FirstStep, "hold"} : GoTo(d, next) /\ UNCHANGED <<verb, key, rows, coupons, door, unread, faults>>
    BY <1>3 DEF Gate
  <2> DEFINE new == [at[d] EXCEPT !.pc = next]
  <2>2. /\ new \in States /\ new.pc = next /\ new.try = 1 /\ new.said = at[d].said
        /\ new.fresh = at[d].fresh /\ new.time = at[d].time
    BY <1>1 DEF States, Points, FirstStep
  <2>3. Becomes(d, new)
    BY <2>1 DEF GoTo
  <2> HIDE DEF new
  <2>4. MinterOK(Row(d), new) /\ AsRecorded(Row(d), new.said)
    BY <1>1, <2>1, <2>2 DEF MinterOK, FirstStep, Direct, Minting
  <2>5. QED BY <1>1, <2>1, <2>2, <2>3, <2>4, SteadyStep
<1>4. QED BY <1>2, <1>3

(* A delivery goes to a point where nothing is expected of it. *)
LEMMA RestStep ==
  ASSUME IInv, NEW d \in Deliveries, GoTo(d, "dead") \/ GoTo(d, "done"),
         UNCHANGED <<verb, key, rows, coupons, door, unread>>, faults' \in 0..MaxFaults
  PROVE  IInv'
<1>1. /\ at[d] \in States /\ AsRecorded(Row(d), at[d].said) /\ unread \in BOOLEAN
  BY DEF IInv, TypeOK, ToldAsRecorded
<1>2. PICK pc \in {"dead", "done"} : GoTo(d, pc)
  OBVIOUS
<1> DEFINE new == [at[d] EXCEPT !.pc = pc]
<1>3. /\ new \in States /\ new.pc = pc /\ new.said = at[d].said
      /\ new.fresh = at[d].fresh /\ new.time = at[d].time
  BY <1>1 DEF States, Points
<1>4. Becomes(d, new)
  BY <1>2 DEF GoTo
<1> HIDE DEF new
<1>5. MinterOK(Row(d), new) /\ AsRecorded(Row(d), new.said)
  BY <1>1, <1>3 DEF MinterOK, Minting
<1>6. QED BY <1>1, <1>3, <1>4, <1>5, SteadyStep

(* A filing finds the key taken: the row answers. *)
LEMMA TakenStep ==
  ASSUME IInv, NEW d \in Deliveries, Row(d) # NoRow, at[d].pc \in {"hold", "file", "claim"},
         Becomes(d, Settled(d, Row(d))), UNCHANGED <<verb, key, rows, coupons, door, unread, faults>>
  PROVE  IInv'
<1>1. at[d].try = 1 /\ unread \in BOOLEAN /\ faults \in 0..MaxFaults
  BY DEF IInv, TypeOK, ClaimsOK, MinterOK
<1> DEFINE new == Settled(d, Row(d))
<1>2. /\ new \in States /\ new.pc \in {"resolve", "done"}
      /\ new.fresh = at[d].fresh /\ new.time = at[d].time
      /\ MinterOK(Row(d), new) /\ AsRecorded(Row(d), new.said)
  BY <1>1, Answered
<1> HIDE DEF new
<1>3. Becomes(d, new)
  BY DEF new
<1>4. QED BY <1>1, <1>2, <1>3, SteadyStep

(* A filing finds the key free: no delivery has told or claimed anything of it. *)
LEMMA FiledStep ==
  ASSUME IInv, NEW d \in Deliveries, Row(d) = NoRow,
         NEW own \in Rows, own.status # "none", RowOK(own),
         own.fresh => at[d].fresh /\ own.time = at[d].time,
         NEW new \in States, new.fresh = at[d].fresh, new.time = at[d].time,
         new.pc \notin {"look", "write"}, MinterOK(own, new), AsRecorded(own, new.said),
         rows' = [rows EXCEPT ![key[d]] = own], Becomes(d, new),
         UNCHANGED <<verb, key, coupons, door, unread, faults>>
  PROVE  IInv'
<1>1. ~Row(d).claim /\ Row(d).status = "none"
  BY DEF NoRow
<1>2. \A e \in Deliveries : AsRecorded(Row(d), at[e].said) => AsRecorded(own, at[e].said)
  BY <1>1 DEF AsRecorded
<1>3. own.fresh => \E e \in Deliveries : key[e] = key[d] /\ at[e].fresh /\ at[e].time = own.time
  OBVIOUS
<1>4. QED BY <1>1, <1>2, <1>3, RowStep

LEMMA HoldStep ==
  ASSUME IInv, NEW d \in Deliveries, Hold(d)
  PROVE  IInv'
<1>1. CASE Row(d) # NoRow
  BY <1>1, TakenStep DEF Hold, At
<1>2. CASE Row(d) = NoRow
  <2> DEFINE own == [NoRow EXCEPT !.status = "prepared"]
             new == FromRow(d, own)
  <2>1. own \in Rows /\ own.status = "prepared" /\ ~own.fresh /\ RowOK(own)
    BY Blank DEF NoRow, Rows, RowOK
  <2>2. /\ new \in States /\ new.pc = "done" /\ new.said = own
        /\ new.fresh = at[d].fresh /\ new.time = at[d].time
    BY <2>1 DEF IInv, TypeOK, FromRow, States, Points
  <2>3. /\ rows' = [rows EXCEPT ![key[d]] = own] /\ Becomes(d, new)
        /\ UNCHANGED <<verb, key, coupons, door, unread, faults>>
    BY <1>2 DEF Hold
  <2> HIDE DEF own, new
  <2>4. MinterOK(own, new) /\ AsRecorded(own, new.said)
    BY <2>1, <2>2 DEF MinterOK, Minting, AsRecorded
  <2>5. QED BY <1>2, <2>1, <2>2, <2>3, <2>4, FiledStep
<1>3. QED BY <1>1, <1>2

LEMMA ClaimStep ==
  ASSUME IInv, NEW d \in Deliveries, Claim(d)
  PROVE  IInv'
<1>1. CASE Row(d) # NoRow
  BY <1>1, TakenStep DEF Claim, At
<1>2. CASE Row(d) = NoRow
  <2> DEFINE own == [NoRow EXCEPT !.status = "prepared", !.claim = TRUE, !.by = d]
             new == [at[d] EXCEPT !.pc = "mint", !.by = d]
  <2>1. verb = "discount" /\ at[d] \in States /\ at[d].try = 1 /\ AsRecorded(Row(d), at[d].said)
    BY DEF IInv, TypeOK, ClaimsOK, MinterOK, Minting, Claim, At, ToldAsRecorded
  <2>2. own \in Rows /\ own.status = "prepared" /\ ~own.fresh /\ own.claim /\ own.by = d /\ RowOK(own)
    BY <2>1, Blank DEF NoRow, Rows, RowOK
  <2>3. /\ new \in States /\ new.pc = "mint" /\ new.by = d /\ new.try = 1 /\ new.said = at[d].said
        /\ new.fresh = at[d].fresh /\ new.time = at[d].time
    BY <2>1 DEF States, Points, Minting
  <2>4. /\ rows' = [rows EXCEPT ![key[d]] = own] /\ Becomes(d, new)
        /\ UNCHANGED <<verb, key, coupons, door, unread, faults>>
    BY <1>2 DEF Claim
  <2> HIDE DEF own, new
  <2>5. MinterOK(own, new)
    BY <2>1, <2>2, <2>3, VerbBounds DEF MinterOK, Minting
  <2>6. AsRecorded(own, new.said)
    BY <1>2, <2>1, <2>3 DEF AsRecorded, NoRow
  <2>7. QED BY <1>2, <2>2, <2>3, <2>4, <2>5, <2>6, FiledStep
<1>3. QED BY <1>1, <1>2

LEMMA FileStep ==
  ASSUME IInv, NEW d \in Deliveries, File(d)
  PROVE  IInv'
<1>1. CASE Row(d) # NoRow
  BY <1>1, TakenStep DEF File, AfterFiling, At
<1>2. CASE Row(d) = NoRow
  <2> DEFINE own == [NoRow EXCEPT !.status = "executed", !.fresh = at[d].fresh, !.time = at[d].time]
             new == [at[d] EXCEPT !.pc = "line", !.said = own]
  <2>1. verb # "discount" /\ at[d] \in States
    BY DEF IInv, TypeOK, ClaimsOK, MinterOK, File, At
  <2>2. /\ own \in Rows /\ own.status = "executed" /\ RowOK(own)
        /\ own.fresh = at[d].fresh /\ own.time = at[d].time
    BY <2>1, Blank DEF NoRow, Rows, RowOK, States
  <2>3. /\ new \in States /\ new.pc = "line" /\ new.said = own
        /\ new.fresh = at[d].fresh /\ new.time = at[d].time
    BY <2>1, <2>2 DEF States, Points
  <2>4. /\ rows' = [rows EXCEPT ![key[d]] = own] /\ Becomes(d, new)
        /\ UNCHANGED <<verb, key, coupons, door, unread, faults>>
    BY <1>2 DEF File, AfterFiling
  <2> HIDE DEF own, new
  <2>5. MinterOK(own, new) /\ AsRecorded(own, new.said)
    BY <2>2, <2>3 DEF MinterOK, Minting, AsRecorded
  <2>6. QED BY <1>2, <2>2, <2>3, <2>4, <2>5, FiledStep
<1>3. QED BY <1>1, <1>2

(***************************************************************************)
(* The door opens for the how-manieth time, or is found open: an opening   *)
(* is counted, and no delivery has the new count yet.                      *)
(***************************************************************************)
LEMMA WriteStep ==
  ASSUME IInv, NEW d \in Deliveries, Write(d)
  PROVE  IInv'
<1>1. /\ at[d] \in States /\ at[d].pc = "write" /\ verb # "discount" /\ ~at[d].fresh /\ at[d].try = 1
      /\ door \in [open : BOOLEAN, times : 0..MaxTimes] /\ AsRecorded(Row(d), at[d].said)
  BY DEF IInv, TypeOK, ClaimsOK, MinterOK, OpeningsOK, ToldAsRecorded, Write, At
<1> DEFINE fresh == verb # "contact" /\ ~door.open
           new == [at[d] EXCEPT !.pc = "file", !.fresh = fresh, !.time = door'.times]
<1>2. /\ door' \in [open : BOOLEAN, times : 0..MaxTimes] /\ door.times <= door'.times
      /\ fresh => door'.times = door.times + 1
  BY <1>1, VerbBounds DEF Write, HandoverConversation, OpenCase
<1>3. /\ new \in States /\ new.pc = "file" /\ new.try = 1 /\ new.fresh = fresh
      /\ new.time = door'.times /\ new.said = at[d].said
  BY <1>1, <1>2 DEF States, Points
<1>4. at' = [at EXCEPT ![d] = new] /\ UNCHANGED <<verb, key, rows, coupons, unread, faults>>
  BY DEF Write, Becomes, Fresh
<1> HIDE DEF new, fresh
<1>5. \A e \in Deliveries : at'[e] = IF e = d THEN new ELSE at[e]
  BY <1>4 DEF IInv, TypeOK
<1>6. TypeOK'
  BY <1>2, <1>3, <1>4 DEF IInv, TypeOK
<1>7. ClaimsOK'
  <2>1. \A k \in Keys : RowOK(rows[k])'
    BY <1>4 DEF IInv, ClaimsOK, RowOK, Live
  <2>2. ASSUME NEW e \in Deliveries
        PROVE  MinterOK(Row(e), at[e])'
    <3>1. CASE e = d
      <4>1. at'[e] = new
        BY <1>5, <3>1
      <4>2. QED BY <1>1, <1>3, <1>4, <4>1 DEF MinterOK, Minting
    <3>2. CASE e # d
      <4>1. at'[e] = at[e] /\ Row(e)' = Row(e)
        BY <1>4, <1>5, <3>2 DEF Row
      <4>2. QED BY <1>4, <4>1 DEF IInv, ClaimsOK, MinterOK, Live
    <3>3. QED BY <3>1, <3>2
  <2>3. QED BY <1>4, <2>1, <2>2 DEF IInv, ClaimsOK
<1>8. CouponsOK'
  BY <1>4 DEF IInv, CouponsOK, Reserved, Row
<1>9. OpeningsOK'
  <2>1. \A e \in Deliveries : at[e].fresh => at[e].time <= door.times /\ at[e].time \in 0..MaxTimes
    BY DEF IInv, TypeOK, OpeningsOK, States
  <2>2. ASSUME NEW e \in Deliveries
        PROVE  /\ at'[e].pc \in {"look", "write"} => ~at'[e].fresh
               /\ at'[e].fresh => at'[e].time <= door'.times
    BY <1>1, <1>2, <1>3, <1>5, <2>1 DEF IInv, OpeningsOK
  <2>3. ASSUME NEW e \in Deliveries, NEW f \in Deliveries,
               at'[e].fresh, at'[f].fresh, at'[e].time = at'[f].time
        PROVE  e = f
    BY <1>1, <1>2, <1>3, <1>5, <2>1, <2>3 DEF IInv, OpeningsOK
  <2>4. ASSUME NEW k \in Keys, rows'[k].fresh
        PROVE  \E e \in Deliveries : key'[e] = k /\ at'[e].fresh /\ at'[e].time = rows'[k].time
    <3>1. PICK e \in Deliveries : key[e] = k /\ at[e].fresh /\ at[e].time = rows[k].time
      BY <1>4, <2>4 DEF IInv, OpeningsOK
    <3>2. e # d
      BY <1>1, <3>1
    <3>3. QED BY <1>4, <1>5, <3>1, <3>2
  <2>5. QED BY <2>2, <2>3, <2>4 DEF OpeningsOK
<1>10. ToldAsRecorded'
  BY <1>3, <1>4, <1>5 DEF IInv, ToldAsRecorded, AsRecorded, Row, Lottery
<1>11. QED BY <1>6, <1>7, <1>8, <1>9, <1>10 DEF IInv

LEMMA DoorClosesStep ==
  ASSUME IInv, DoorCloses
  PROVE  IInv'
<1>1. TypeOK' /\ OpeningsOK'
  BY DEF IInv, TypeOK, OpeningsOK, DoorCloses
<1>2. ClaimsOK' /\ CouponsOK' /\ ToldAsRecorded'
  BY DEF IInv, DoorCloses, ClaimsOK, RowOK, MinterOK, Live, Row, CouponsOK, Reserved,
         ToldAsRecorded, AsRecorded, Lottery
<1>3. QED BY <1>1, <1>2 DEF IInv

-----------------------------------------------------------------------------
(* The steps of a discount. *)

LEMMA ResolveStep ==
  ASSUME IInv, NEW d \in Deliveries, Resolve(d)
  PROVE  IInv'
<1>1. /\ at[d] \in States /\ at[d].try = 1 /\ MinterOK(Row(d), at[d]) /\ at[d].pc = "resolve"
      /\ AsRecorded(Row(d), at[d].said) /\ faults \in 0..MaxFaults
  BY DEF IInv, TypeOK, ClaimsOK, ToldAsRecorded, MinterOK, Resolve, At
<1>2. CASE GoTo(d, "mint")
  <2> DEFINE new == [at[d] EXCEPT !.pc = "mint"]
  <2>1. /\ new \in States /\ new.pc = "mint" /\ new.try = 1 /\ new.by = at[d].by /\ new.said = at[d].said
        /\ new.fresh = at[d].fresh /\ new.time = at[d].time
    BY <1>1 DEF States, Points, Minting
  <2>2. Becomes(d, new) /\ UNCHANGED <<verb, key, rows, coupons, door, unread, faults>>
    BY <1>2 DEF GoTo, Resolve
  <2> HIDE DEF new
  <2>3. MinterOK(Row(d), new)
    BY <1>1, <2>1, VerbBounds DEF MinterOK, Minting
  <2>4. QED BY <1>1, <2>1, <2>2, <2>3, SteadyStep
<1>3. ASSUME NEW c \in Codes, Minted(c, d), Becomes(d, [at[d] EXCEPT !.pc = "confirm", !.code = c])
      PROVE  IInv'
  <2> DEFINE new == [at[d] EXCEPT !.pc = "confirm", !.code = c]
  <2>1. /\ new \in States /\ new.pc = "confirm" /\ new.code = c /\ new.by = at[d].by /\ new.said = at[d].said
        /\ new.fresh = at[d].fresh /\ new.time = at[d].time
    BY <1>1 DEF States, Points, Minting
  <2>2. Becomes(d, new) /\ UNCHANGED <<verb, key, rows, coupons, door, unread, faults>>
    BY <1>3 DEF Resolve
  <2> HIDE DEF new
  <2>3. MinterOK(Row(d), new)
    BY <1>1, <1>3, <2>1 DEF MinterOK, Minting, Minted, Live
  <2>4. QED BY <1>1, <2>1, <2>2, <2>3, SteadyStep
<1>4. QED BY <1>2, <1>3 DEF Resolve

(* The codes of a claim before the one that is tried are a stranger's, so none of them is ours. *)
LEMMA MintStep ==
  ASSUME IInv, NEW d \in Deliveries, Mint(d)
  PROVE  IInv'
<1> DEFINE code == <<at[d].by, at[d].try>>
<1>1. /\ at[d] \in States /\ MinterOK(Row(d), at[d]) /\ at[d].pc = "mint" /\ verb = "discount"
      /\ Row(d).claim /\ at[d].by = Row(d).by /\ at[d].by \in Deliveries
      /\ AsRecorded(Row(d), at[d].said) /\ faults \in 0..MaxFaults /\ unread \in BOOLEAN
  BY DEF IInv, TypeOK, ClaimsOK, ToldAsRecorded, MinterOK, Minting, RowOK, Row, Mint, At
<1>2. code \in Codes /\ code[1] = at[d].by /\ code[2] = at[d].try
  BY <1>1 DEF Codes, States
<1>3. CASE coupons[code] # "free"
  <2> DEFINE new == [at[d] EXCEPT !.pc = "collided"]
  <2>1. /\ new \in States /\ new.pc = "collided" /\ new.by = at[d].by /\ new.try = at[d].try
        /\ new.said = at[d].said /\ new.fresh = at[d].fresh /\ new.time = at[d].time
    BY <1>1 DEF States, Points, Minting
  <2>2. Becomes(d, new) /\ UNCHANGED <<verb, key, rows, coupons, door, unread, faults>>
    BY <1>3 DEF Mint, CreateDiscount, Code, GoTo
  <2> HIDE DEF new
  <2>3. MinterOK(Row(d), new)
    BY <1>1, <1>2, <1>3, <2>1 DEF MinterOK, Minting, Live
  <2>4. QED BY <1>1, <2>1, <2>2, <2>3, SteadyStep
<1>4. CASE coupons[code] = "free"
  <2> DEFINE new == [at[d] EXCEPT !.pc = "confirm", !.code = code]
  <2>1. /\ new \in States /\ new.pc = "confirm" /\ new.by = at[d].by /\ new.code = code
        /\ new.said = at[d].said /\ new.fresh = at[d].fresh /\ new.time = at[d].time
    BY <1>1, <1>2 DEF States, Points, Minting
  <2>2. coupons' = [coupons EXCEPT ![code] = "ours"] /\ UNCHANGED <<verb, key, rows, door, unread, faults>>
    BY <1>4 DEF Mint, CreateDiscount, Code
  <2>3. \A c \in Codes : coupons'[c] = IF c = code THEN "ours" ELSE coupons[c]
    BY <1>2, <2>2 DEF IInv, TypeOK
  <2>4. at' = [at EXCEPT ![d] = new]
    <3>1. coupons' # coupons
      BY <1>2, <1>4, <2>3
    <3>2. QED BY <3>1 DEF Mint, Code, Becomes
  <2> HIDE DEF new, code
  <2>5. \A e \in Deliveries : at'[e] = (IF e = d THEN new ELSE at[e]) /\ Row(e)' = Row(e)
    BY <2>2, <2>4 DEF IInv, TypeOK, Row
  <2>6. TypeOK'
    BY <1>2, <2>1, <2>2, <2>4 DEF IInv, TypeOK
  <2>7. /\ \A c : Live(c) => Live(c)'
        /\ \A c \in Codes : coupons[c] = "stranger" <=> coupons'[c] = "stranger"
        /\ Lottery' = Lottery
    BY <1>2, <1>4, <2>3 DEF Live, Lottery
  <2>8. ClaimsOK'
    <3>1. \A k \in Keys : RowOK(rows[k])'
      BY <2>2, <2>7 DEF IInv, ClaimsOK, RowOK
    <3>2. ASSUME NEW e \in Deliveries
          PROVE  MinterOK(Row(e), at[e])'
      <4>1. CASE e = d
        <5>1. at'[e] = new /\ Row(e)' = Row(d)
          BY <2>5, <4>1
        <5>2. code \in Codes /\ coupons'[code] # "free"
          BY <1>2, <2>3
        <5>3. QED BY <1>1, <1>2, <2>1, <2>2, <5>1, <5>2 DEF MinterOK, Minting, Live
      <4>2. CASE e # d
        <5>1. at'[e] = at[e] /\ Row(e)' = Row(e) /\ MinterOK(Row(e), at[e])
          BY <2>5, <4>2 DEF IInv, ClaimsOK
        <5>2. at[e].pc \in Minting => at[e].by \in Deliveries
          BY <5>1 DEF IInv, TypeOK, ClaimsOK, MinterOK, RowOK, Row
        <5>3. at[e].pc \in Minting => \A try \in 1..Tries : <<at[e].by, try>> \in Codes
          BY <5>2 DEF Codes
        <5>4. QED BY <2>2, <2>7, <5>1, <5>3 DEF MinterOK, Minting
      <4>3. QED BY <4>1, <4>2
    <3>3. QED BY <2>2, <3>1, <3>2 DEF IInv, ClaimsOK
  <2>9. CouponsOK'
    <3>1. Reserved(d, code) /\ \A e \in Deliveries, c \in Codes : Reserved(e, c) <=> Reserved(e, c)'
      BY <1>1, <1>2, <2>5 DEF Reserved
    <3>2. \A c \in Codes : coupons'[c] = "ours" => \E e \in Deliveries : Reserved(e, c)'
      BY <1>2, <2>3, <3>1 DEF IInv, CouponsOK
    <3>3. ASSUME ~unread, NEW c \in Codes, NEW e \in Codes,
                 coupons'[c] = "ours", e[1] = c[1], e[2] < c[2]
          PROVE  coupons'[e] = "stranger"
      <4>1. CASE c = code
        <5>1. e = <<at[d].by, e[2]>> /\ e[2] \in 1..Tries
          BY <1>2, <3>3, <4>1 DEF Codes
        <5>2. coupons[e] = "stranger"
          BY <1>1, <1>2, <3>3, <4>1, <5>1 DEF MinterOK
        <5>3. QED BY <2>7, <5>2
      <4>2. CASE c # code
        BY <2>3, <2>7, <3>3, <4>2 DEF IInv, CouponsOK
      <4>3. QED BY <4>1, <4>2
    <3>4. QED BY <2>2, <3>2, <3>3 DEF CouponsOK
  <2>10. OpeningsOK'
    BY <2>1, <2>2, <2>5 DEF IInv, OpeningsOK
  <2>11. ToldAsRecorded'
    BY <2>1, <2>2, <2>5, <2>7 DEF IInv, ToldAsRecorded, AsRecorded
  <2>12. QED BY <2>6, <2>8, <2>9, <2>10, <2>11 DEF IInv
<1>5. QED BY <1>3, <1>4

LEMMA CollidedStep ==
  ASSUME IInv, NEW d \in Deliveries, Collided(d)
  PROVE  IInv'
<1> DEFINE code == <<at[d].by, at[d].try>>
<1>1. /\ at[d] \in States /\ MinterOK(Row(d), at[d]) /\ at[d].pc = "collided" /\ verb = "discount"
      /\ Row(d).claim /\ at[d].by = Row(d).by /\ at[d].by \in Deliveries /\ Live(code)
      /\ AsRecorded(Row(d), at[d].said) /\ faults \in 0..MaxFaults /\ unread \in BOOLEAN
  BY DEF IInv, TypeOK, ClaimsOK, ToldAsRecorded, MinterOK, Minting, RowOK, Row, Collided, At
<1>2. code[1] = at[d].by
  OBVIOUS
<1>3. UNCHANGED <<verb, key, rows, coupons, door>>
  BY DEF Collided
<1>4. faults' \in 0..MaxFaults
  BY Faultily DEF Collided
<1>5. CASE IsMine(Code(d)) /\ Becomes(d, [at[d] EXCEPT !.pc = "confirm", !.code = Code(d)]) /\ UNCHANGED unread
  <2> DEFINE new == [at[d] EXCEPT !.pc = "confirm", !.code = code]
  <2>1. /\ new \in States /\ new.pc = "confirm" /\ new.by = at[d].by /\ new.code = code
        /\ new.said = at[d].said /\ new.fresh = at[d].fresh /\ new.time = at[d].time
    BY <1>1 DEF States, Points, Minting, Live
  <2>2. Becomes(d, new)
    BY <1>5 DEF Code
  <2> HIDE DEF new
  <2>3. MinterOK(Row(d), new)
    BY <1>1, <1>2, <2>1 DEF MinterOK, Minting
  <2>4. QED BY <1>1, <1>3, <1>4, <1>5, <2>1, <2>2, <2>3, SteadyStep
<1>6. ASSUME NextCode(d), unread => unread', unread' \in BOOLEAN, ~unread' => coupons[code] = "stranger"
      PROVE  IInv'
  <2>1. CASE GoTo(d, "dead")
    <3>1. [at[d] EXCEPT !.pc = "dead"] \in States
      BY <1>1 DEF States, Points
    <3>2. ASSUME NEW new \in States, new = [at[d] EXCEPT !.pc = "dead"]
          PROVE  IInv'
      <4>1. /\ new.pc = "dead" /\ new.said = at[d].said /\ new.fresh = at[d].fresh
            /\ new.time = at[d].time /\ Becomes(d, new)
        BY <1>1, <2>1, <3>2 DEF States, GoTo
      <4>2. MinterOK(Row(d), new)' /\ AsRecorded(Row(d), new.said)
        BY <1>1, <1>3, <1>6, <4>1 DEF MinterOK, Minting, Row
      <4>3. QED BY <1>3, <1>4, <1>6, <4>1, <4>2, OwnStep
    <3>3. QED BY <3>1, <3>2
  <2>2. CASE at[d].try # Tries /\ Becomes(d, [at[d] EXCEPT !.pc = "mint", !.try = @ + 1])
    <3>1. at[d].try \in Nat /\ at[d].try + 1 \in 1..Tries
      BY <1>1, <2>2, VerbBounds DEF States
    <3>2. [at[d] EXCEPT !.pc = "mint", !.try = @ + 1] \in States
      BY <1>1, <3>1 DEF States, Points, Minting
    <3>3. ASSUME NEW new \in States, new = [at[d] EXCEPT !.pc = "mint", !.try = @ + 1]
          PROVE  IInv'
      <4>1. /\ new.pc = "mint" /\ new.said = at[d].said /\ new.fresh = at[d].fresh /\ new.time = at[d].time
            /\ new.by = at[d].by /\ new.try = at[d].try + 1 /\ Becomes(d, new)
        BY <1>1, <2>2, <3>3 DEF States
      <4>2. ~unread' => \A try \in 1..Tries : try < new.try => coupons[<<at[d].by, try>>] = "stranger"
        <5>1. \A try \in 1..Tries : try < new.try => try < at[d].try \/ try = at[d].try
          BY <3>1, <4>1
        <5>2. QED BY <1>1, <1>6, <5>1 DEF MinterOK
      <4>3. MinterOK(Row(d), new)' /\ AsRecorded(Row(d), new.said)
        BY <1>1, <1>3, <1>6, <4>1, <4>2 DEF MinterOK, Minting, Row
      <4>4. QED BY <1>3, <1>4, <1>6, <4>1, <4>3, OwnStep
    <3>4. QED BY <3>2, <3>3
  <2>3. QED BY <1>6, <2>1, <2>2 DEF NextCode
<1>7. CASE ~IsMine(Code(d)) /\ NextCode(d) /\ UNCHANGED unread
  <2>1. coupons[code] = "stranger"
    BY <1>1, <1>7 DEF IsMine, Code, Live, IInv, TypeOK
  <2>2. QED BY <1>1, <1>6, <1>7, <2>1
<1>8. CASE NextCode(d) /\ unread' = TRUE
  BY <1>6, <1>8
<1>9. QED BY <1>5, <1>7, <1>8 DEF Collided

LEMMA ConfirmStep ==
  ASSUME IInv, NEW d \in Deliveries, Confirm(d)
  PROVE  IInv'
<1>1. /\ at[d] \in States /\ MinterOK(Row(d), at[d]) /\ at[d].pc = "confirm" /\ Row(d) \in Rows
      /\ AsRecorded(Row(d), at[d].said)
  BY DEF IInv, TypeOK, ClaimsOK, ToldAsRecorded, Row, Confirm, At
<1>2. faults' \in 0..MaxFaults /\ UNCHANGED <<verb, key, rows, coupons, door, unread>>
  BY Faultily DEF Confirm
<1>3. CASE Becomes(d, FromRow(d, Row(d)))
  <2> DEFINE new == FromRow(d, Row(d))
  <2>1. /\ new \in States /\ new.pc = "done" /\ new.said = Row(d) /\ new.fresh = at[d].fresh
        /\ new.time = at[d].time
    BY <1>1 DEF FromRow, States, Points
  <2>2. Becomes(d, new)
    BY <1>3
  <2> HIDE DEF new
  <2>3. MinterOK(Row(d), new) /\ AsRecorded(Row(d), new.said)
    BY <2>1 DEF MinterOK, Minting, AsRecorded
  <2>4. QED BY <1>2, <2>1, <2>2, <2>3, SteadyStep
<1>4. CASE GoTo(d, "finalize")
  <2> DEFINE new == [at[d] EXCEPT !.pc = "finalize"]
  <2>1. /\ new \in States /\ new.pc = "finalize" /\ new.code = at[d].code /\ new.by = at[d].by
        /\ new.said = at[d].said /\ new.fresh = at[d].fresh /\ new.time = at[d].time
    BY <1>1 DEF States, Points, Minting
  <2>2. Becomes(d, new)
    BY <1>4 DEF GoTo
  <2> HIDE DEF new
  <2>3. MinterOK(Row(d), new)
    BY <1>1, <2>1 DEF MinterOK, Minting
  <2>4. QED BY <1>1, <1>2, <2>1, <2>2, <2>3, SteadyStep
<1>5. QED BY <1>3, <1>4 DEF Confirm

(* Two coupons of a negotiation that are ours would each have been free after the other was taken. *)
LEMMA OneIssued ==
  ASSUME IInv, ~unread, NEW c \in Issued, NEW e \in Issued
  PROVE  c = e
<1>1. PICK d \in Deliveries, f \in Deliveries : Reserved(d, c) /\ Reserved(f, e)
  BY DEF IInv, CouponsOK, Issued
<1>2. verb = "discount"
  BY <1>1 DEF IInv, TypeOK, ClaimsOK, RowOK, Reserved, Row
<1>3. c[1] = e[1]
  BY <1>1, <1>2 DEF IInv, ClaimsOK, Reserved, Row
<1>4. c = <<c[1], c[2]>> /\ e = <<e[1], e[2]>> /\ c[2] \in Nat /\ e[2] \in Nat
  BY VerbBounds DEF Issued, Codes
<1>5. ~(e[2] < c[2]) /\ ~(c[2] < e[2])
  BY <1>3 DEF IInv, CouponsOK, Issued
<1>6. QED BY <1>3, <1>4, <1>5

(* A finalized row names the one coupon, whoever finalizes it, and however often. *)
LEMMA FinalizeStep ==
  ASSUME IInv, NEW d \in Deliveries, Finalize(d)
  PROVE  IInv'
<1> DEFINE row == [Row(d) EXCEPT !.status = "executed", !.code = at[d].code]
           new == [at[d] EXCEPT !.pc = "line", !.said = row]
<1>1. /\ at[d] \in States /\ MinterOK(Row(d), at[d]) /\ at[d].pc = "finalize" /\ verb = "discount"
      /\ Row(d) \in Rows /\ RowOK(Row(d)) /\ Row(d).claim /\ at[d].by = Row(d).by
      /\ Live(at[d].code) /\ at[d].code[1] = at[d].by
      /\ unread \in BOOLEAN /\ faults \in 0..MaxFaults /\ Row(d).by \in Deliveries
  BY DEF IInv, TypeOK, ClaimsOK, MinterOK, Minting, RowOK, Row, Finalize, At
<1>2. /\ row \in Rows /\ row.status = "executed" /\ row.code = at[d].code /\ row.claim
      /\ row.by = Row(d).by /\ row.fresh = Row(d).fresh /\ row.time = Row(d).time
  BY <1>1 DEF Rows, Live
<1>3. /\ new \in States /\ new.pc = "line" /\ new.said = row /\ new.fresh = at[d].fresh
      /\ new.time = at[d].time
  BY <1>1, <1>2 DEF States, Points
<1>4. /\ rows' = [rows EXCEPT ![key[d]] = row] /\ Becomes(d, new)
      /\ UNCHANGED <<verb, key, coupons, door, unread, faults>>
  BY DEF Finalize
<1> HIDE DEF row, new
<1>5. RowOK(row)
  BY <1>1, <1>2 DEF RowOK
<1>6. ASSUME NEW said, AsRecorded(Row(d), said)
      PROVE  AsRecorded(row, said)
  <2>1. ASSUME said.status = "executed", ~unread, ~Lottery
        PROVE  row.code = said.code
    <3>1. Row(d).status \in {"executed", "undone"} /\ Row(d).code = said.code
      BY <1>6, <2>1 DEF AsRecorded
    <3>2. Row(d).code \in Issued /\ at[d].code \in Issued
      BY <1>1, <2>1, <3>1 DEF RowOK, Live, Lottery, Issued, IInv, TypeOK
    <3>3. Row(d).code = at[d].code
      BY <2>1, <3>2, OneIssued
    <3>4. QED BY <1>2, <3>1, <3>3
  <2>2. QED BY <1>2, <1>6, <2>1 DEF AsRecorded
<1>7. row.fresh => \E e \in Deliveries : key[e] = key[d] /\ at[e].fresh /\ at[e].time = row.time
  <2>1. key[d] \in Keys /\ Row(d) = rows[key[d]]
    BY DEF IInv, TypeOK, Row
  <2>2. rows[key[d]].fresh =>
          \E e \in Deliveries : key[e] = key[d] /\ at[e].fresh /\ at[e].time = rows[key[d]].time
    BY <2>1 DEF IInv, OpeningsOK
  <2>3. QED BY <1>2, <2>1, <2>2
<1>8. MinterOK(row, new) /\ AsRecorded(row, new.said)
  BY <1>2, <1>3 DEF MinterOK, Minting, AsRecorded
<1>9. QED BY <1>1, <1>2, <1>3, <1>4, <1>5, <1>6, <1>7, <1>8, RowStep

LEMMA UndoStep ==
  ASSUME IInv, NEW k \in Keys, UndoDiscount(k)
  PROVE  IInv'
<1> DEFINE row == [rows[k] EXCEPT !.status = "undone"]
<1>1. rows[k] \in Rows /\ rows[k].status = "executed" /\ RowOK(rows[k])
  BY DEF IInv, TypeOK, ClaimsOK, UndoDiscount
<1>2. /\ row \in Rows /\ row.status = "undone" /\ row.claim = rows[k].claim /\ row.by = rows[k].by
      /\ row.code = rows[k].code /\ row.fresh = rows[k].fresh /\ row.time = rows[k].time
  BY <1>1 DEF Rows
<1>3. rows' = [rows EXCEPT ![k] = row] /\ UNCHANGED <<verb, key, coupons, door, at, unread, faults>>
  BY DEF UndoDiscount
<1>4. RowOK(row)
  BY <1>1, <1>2 DEF RowOK
<1> HIDE DEF row
<1>5. \A j \in Keys : rows'[j] = IF j = k THEN row ELSE rows[j]
  BY <1>3 DEF IInv, TypeOK
<1>6. TypeOK'
  BY <1>2, <1>3 DEF IInv, TypeOK
<1>7. ASSUME NEW e \in Deliveries
      PROVE  /\ Row(e)'.claim = Row(e).claim /\ Row(e)'.by = Row(e).by /\ Row(e)'.code = Row(e).code
             /\ Row(e)'.fresh = Row(e).fresh
             /\ Row(e).status = "executed" => Row(e)'.status \in {"executed", "undone"}
             /\ Row(e).status = "undone" => Row(e)'.status = "undone"
  BY <1>1, <1>2, <1>3, <1>5 DEF IInv, TypeOK, Row
<1>8. ClaimsOK'
  <2>1. \A j \in Keys : RowOK(rows[j])'
    BY <1>3, <1>4, <1>5 DEF IInv, ClaimsOK, RowOK, Live
  <2>2. \A e \in Deliveries : MinterOK(Row(e), at[e])'
    BY <1>3, <1>7 DEF IInv, ClaimsOK, MinterOK, Live
  <2>3. QED BY <1>3, <2>1, <2>2 DEF IInv, ClaimsOK
<1>9. CouponsOK'
  BY <1>3, <1>7 DEF IInv, CouponsOK, Reserved
<1>10. OpeningsOK'
  BY <1>2, <1>3, <1>5 DEF IInv, OpeningsOK
<1>11. ToldAsRecorded'
  BY <1>3, <1>7 DEF IInv, ToldAsRecorded, AsRecorded, Lottery
<1>12. QED BY <1>6, <1>8, <1>9, <1>10, <1>11 DEF IInv

-----------------------------------------------------------------------------
(***************************************************************************)
(* Whatever deliveries of a chat decision overlap, die or are repeated     *)
(* (actions.ts), the ledger's row, the coupons and the door agree on what  *)
(* each of them may rely on.                                               *)
(***************************************************************************)
THEOREM Inductive == Spec => []IInv
<1>1. IInv /\ [Next]_vars => IInv'
  <2> SUFFICES ASSUME IInv, [Next]_vars
               PROVE  IInv'
    OBVIOUS
  <2>1. ASSUME NEW d \in Deliveries, Die(d) \/ Refused(d) \/ Line(d)
        PROVE  IInv'
    <3>1. faults' \in 0..MaxFaults
      BY <2>1, Faultily DEF Die, Refused, Line
    <3>2. QED BY <2>1, <3>1, RestStep DEF Die, Refused, Line
  <2>2. ASSUME NEW d \in Deliveries, Gate(d) \/ Hold(d) \/ Write(d) \/ File(d)
        PROVE  IInv'
    BY <2>2, GateStep, HoldStep, WriteStep, FileStep
  <2>3. ASSUME NEW d \in Deliveries,
               Claim(d) \/ Resolve(d) \/ Mint(d) \/ Collided(d) \/ Confirm(d) \/ Finalize(d)
        PROVE  IInv'
    BY <2>3, ClaimStep, ResolveStep, MintStep, CollidedStep, ConfirmStep, FinalizeStep
  <2>4. ASSUME NEW k \in Keys, UndoDiscount(k)
        PROVE  IInv'
    BY <2>4, UndoStep
  <2>5. CASE DoorCloses
    BY <2>5, DoorClosesStep
  <2>6. CASE UNCHANGED vars
    <3>1. TypeOK' /\ OpeningsOK'
      BY <2>6 DEF vars, IInv, TypeOK, OpeningsOK
    <3>2. ClaimsOK' /\ CouponsOK' /\ ToldAsRecorded'
      BY <2>6 DEF vars, IInv, ClaimsOK, RowOK, MinterOK, Live, Row, CouponsOK, Reserved,
                  ToldAsRecorded, AsRecorded, Lottery
    <3>3. QED BY <3>1, <3>2 DEF IInv
  <2>7. QED BY <2>1, <2>2, <2>3, <2>4, <2>5, <2>6 DEF Next
<1>2. QED BY InitIInv, <1>1, PTL DEF Spec

(***************************************************************************)
(* A negotiation issues one coupon, with any number of deliveries and of   *)
(* codes for each, unless a collision met a list that could not be read    *)
(* (actions.ts, performOfferDiscount).                                     *)
(***************************************************************************)
THEOREM OneCoupon == Spec => []OneCouponPerNegotiation
<1>1. IInv => OneCouponPerNegotiation
  BY OneIssued DEF OneCouponPerNegotiation, IInv, TypeOK
<1>2. QED BY Inductive, <1>1, PTL

(***************************************************************************)
(* What a customer is told of a discount, a case or a hand-over stays what *)
(* the ledger says of it, up to its undo (actions.ts, gateOrFile).         *)
(***************************************************************************)
THEOREM ToldTrue == Spec => []ToldAsRecorded
<1>1. IInv => ToldAsRecorded
  BY DEF IInv
<1>2. QED BY Inductive, <1>1, PTL

(***************************************************************************)
(* Of the decisions that find a case or an escalation open, one opened it  *)
(* (actions.ts, performOpenCase and performHandover).                      *)
(***************************************************************************)
THEOREM OneOpening == Spec => []OpenedByOne
<1>1. IInv => OpenedByOne
  <2> SUFFICES ASSUME IInv, NEW j \in Keys, NEW k \in Keys,
                      rows[j].fresh, rows[k].fresh, rows[j].time = rows[k].time
               PROVE  j = k
    BY DEF OpenedByOne
  <2>1. PICK d \in Deliveries, e \in Deliveries :
          /\ key[d] = j /\ at[d].fresh /\ at[d].time = rows[j].time
          /\ key[e] = k /\ at[e].fresh /\ at[e].time = rows[k].time
    BY DEF IInv, OpeningsOK
  <2>2. QED BY <2>1 DEF IInv, OpeningsOK
<1>2. QED BY Inductive, <1>1, PTL
==============================================================================
