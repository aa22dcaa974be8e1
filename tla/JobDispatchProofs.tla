-------------------------- MODULE JobDispatchProofs --------------------------
(***************************************************************************)
(* What JobDispatch keeps for every table, attempts cap, batch size, turn  *)
(* mode and number of faults.  IInv is inductive; the properties of the    *)
(* runs and the queue's contract follow from it.                           *)
(***************************************************************************)
EXTENDS JobDispatch, TLAPS

-----------------------------------------------------------------------------
(* The rows a claim handles. *)

LEMMA TokensAreNats ==
  /\ MaxLeases \in Nat
  /\ \A t \in Tokens : t \in Nat /\ t > 0
  /\ \A n \in 0..MaxLeases : n \in Nat
BY QueueAssumption DEF Tokens

LEMMA TokenRange == \A n \in 0..MaxLeases : n > 0 => n \in Tokens
BY QueueAssumption DEF Tokens

LEMMA LeasedRow ==
  ASSUME NEW r \in Row, Claimable(r)
  PROVE  /\ Leased(r) \in Row
         /\ Leased(r).status = "leased"
         /\ Leased(r).attempts = r.attempts + 1
         /\ Leased(r).token = r.attempts + 1
         /\ FreshToken(r) = r.attempts + 1
         /\ FreshToken(r) \in Tokens
<1>1. r.attempts \in Nat /\ r.attempts < MaxLeases
  BY QueueAssumption DEF Row, Claimable
<1>2. r.attempts + 1 \in 0..MaxLeases /\ r.attempts + 1 \in Tokens
  BY <1>1, QueueAssumption DEF Tokens
<1>3. QED BY <1>2 DEF Row, Statuses, Leased, FreshToken

(* Before leasing, a claim leaves a row alone, makes it due again, or creates it. *)
LEMMA PreparedRow ==
  ASSUME IInv, NEW keys, NEW overdue, NEW j \in Jobs
  PROVE  /\ row[j] \in Row
         /\ Prepared(keys, overdue)[j] \in Row
         /\ Prepared(keys, overdue)[j].attempts = row[j].attempts
         /\ \/ Prepared(keys, overdue)[j] = row[j] /\ ~IsStale(row[j])
            \/ /\ Prepared(keys, overdue)[j].status = "due"
               /\ IsStale(row[j]) \/ row[j].status = "absent"
<1> DEFINE back == [row[j] EXCEPT !.status = "due", !.token = NoToken, !.lapsed = FALSE]
           born == NewRow(j \in overdue)
<1>1. NoToken \in 0..MaxLeases
  BY QueueAssumption DEF NoToken
<1>2. row[j] \in Row /\ (row[j].status = "absent" => row[j].attempts = 0)
  BY DEF IInv, TypeOK, QueueTypeOK, LeaseOK
<1>3. back \in Row /\ back.attempts = row[j].attempts /\ back.status = "due"
  BY <1>1, <1>2 DEF Row, Statuses
<1>4. born \in Row /\ born.attempts = 0 /\ born.status = "due"
  BY <1>1 DEF NewRow, Row, Statuses, NoToken
<1>5. Prepared(keys, overdue)[j] = IF IsStale(row[j]) THEN back
                                   ELSE IF j \in keys /\ row[j].status = "absent" THEN born
                                   ELSE row[j]
  BY <1>3 DEF Prepared, Expanded, Reclaimed
<1> HIDE DEF back, born
<1>6. QED BY <1>2, <1>3, <1>4, <1>5

-----------------------------------------------------------------------------
(* A step of one delivery that leaves the table alone. *)
LEMMA DeliveryStep ==
  ASSUME IInv, NEW j \in Jobs, NEW t \in Tokens, NEW d \in Delivery,
         ~At(j, t, "none"), d.pc # "none",
         DeliveryOK(j, d, ending[j][t]),
         Goes(j, t, d), UNCHANGED queueVars, faults' \in 0..MaxFaults
  PROVE  IInv'
<1>1. TypeOK'
  BY DEF IInv, TypeOK, QueueTypeOK, Goes, queueVars
<1>2. ASSUME NEW k \in Jobs
      PROVE  LeaseOK(row[k], ending[k], delivery[k])'
  BY <1>1 DEF IInv, TypeOK, QueueTypeOK, LeaseOK, LastEnding, Goes, queueVars, At
<1>3. ASSUME NEW k \in Jobs, NEW u \in Tokens
      PROVE  DeliveryOK(k, delivery[k][u], ending[k][u])'
  BY <1>1 DEF IInv, TypeOK, QueueTypeOK, DeliveryOK, CanWrite, Goes, queueVars
<1>4. QED BY <1>1, <1>2, <1>3 DEF IInv

-----------------------------------------------------------------------------
(***************************************************************************)
(* A claim, whether or not its answer arrives.  A stale lease ends as      *)
(* reclaimed before a new one opens under the next token, and the new      *)
(* lease starts with a fresh delivery.                                     *)
(***************************************************************************)
LEMMA ClaimStep ==
  ASSUME IInv, NEW keys \in SUBSET Jobs, NEW overdue \in SUBSET Jobs, NEW batch \in SUBSET Jobs,
         NEW pc \in {"claimed", "gone"},
         ClaimDueJobs(keys, overdue, batch), Handed(batch, pc), faults' \in 0..MaxFaults
  PROVE  IInv'
<1> DEFINE table == Prepared(keys, overdue)
           n(j) == row[j].attempts + 1
           fresh == [NoDelivery EXCEPT !.pc = pc]
<1>1. ASSUME NEW j \in Jobs
      PROVE  /\ row[j] \in Row /\ table[j] \in Row
             /\ table[j].attempts = row[j].attempts
             /\ \/ table[j] = row[j] /\ ~IsStale(row[j])
                \/ table[j].status = "due" /\ (IsStale(row[j]) \/ row[j].status = "absent")
  BY PreparedRow
<1>2. /\ row' = [j \in Jobs |-> IF j \in batch THEN Leased(table[j]) ELSE table[j]]
      /\ \A j \in batch : j \in Jobs /\ Claimable(table[j])
  BY DEF ClaimDueJobs, IsBatch
<1>3. ASSUME NEW j \in batch
      PROVE  /\ row'[j] \in Row /\ row'[j].status = "leased" /\ n(j) \in Tokens
             /\ row'[j].attempts = n(j) /\ row'[j].token = n(j) /\ FreshToken(table[j]) = n(j)
  <2>1. j \in Jobs /\ table[j] \in Row /\ Claimable(table[j]) /\ table[j].attempts = row[j].attempts
    BY <1>1, <1>2
  <2>2. row'[j] = Leased(table[j])
    BY <1>2, <2>1
  <2> HIDE DEF table
  <2>3. QED BY <2>1, <2>2, LeasedRow
<1>4. ASSUME NEW j \in Jobs, NEW t \in Tokens
      PROVE  /\ ending'[j][t] = IF j \in batch /\ t = n(j) THEN "open"
                                ELSE IF IsStale(row[j]) /\ t = row[j].token THEN "reclaimed"
                                ELSE ending[j][t]
             /\ delivery'[j][t] = IF j \in batch /\ t = n(j) THEN fresh ELSE delivery[j][t]
  <2>1. ending'[j][t] = CASE j \in batch /\ t = FreshToken(table[j]) -> "open"
                          [] IsStale(row[j]) /\ t = row[j].token     -> "reclaimed"
                          [] OTHER                                   -> ending[j][t]
    BY DEF ClaimDueJobs
  <2>2. IsStale(row[j]) => row[j].token # n(j)
    BY <1>1 DEF IInv, LeaseOK, IsStale, Row
  <2>3. QED BY <2>1, <2>2, <1>3 DEF Handed
<1>5. TypeOK'
  <2>1. row' \in [Jobs -> Row]
    BY <1>1, <1>2, <1>3
  <2>2. ending' \in [Jobs -> [Tokens -> Endings]]
    <3>1. ending' = [j \in Jobs |-> [t \in Tokens |-> ending'[j][t]]]
      BY DEF ClaimDueJobs
    <3>2. QED BY <3>1, <1>4 DEF IInv, TypeOK, QueueTypeOK, Endings
  <2>3. delivery' \in [Jobs -> [Tokens -> Delivery]]
    <3>1. fresh \in Delivery
      BY DEF NoDelivery, Delivery
    <3>2. QED BY <3>1 DEF Handed, IInv, TypeOK
  <2>4. QED BY <2>1, <2>2, <2>3 DEF TypeOK, QueueTypeOK
<1>6. ASSUME NEW j \in Jobs
      PROVE  LeaseOK(row[j], ending[j], delivery[j])'
  <2>1. LeaseOK(row[j], ending[j], delivery[j])
    BY DEF IInv
  <2>2. CASE j \in batch
    <3>1. row[j].status \in {"absent", "due"} \/ IsStale(row[j])
      BY <1>1, <1>2, <2>2 DEF Claimable
    <3>2. \A t \in Tokens : t < n(j) => ending'[j][t] \in {"released", "reclaimed"}
      BY <1>1, <1>4, <2>1, <3>1, TokensAreNats DEF LeaseOK, LastEnding, IsStale, Row
    <3>3. \A t \in Tokens : t > n(j) => ending'[j][t] = "none" /\ delivery'[j][t].pc = "none"
      BY <1>1, <1>4, <2>1, TokensAreNats DEF LeaseOK, IsStale, Row
    <3>4. \A t \in Tokens : t = n(j) => ending'[j][t] = "open"
      BY <1>4, <2>2
    <3>5. n(j) > 0
      BY <1>1 DEF Row
    <3>6. QED BY <1>3, <2>2, <3>2, <3>3, <3>4, <3>5 DEF LeaseOK, LastEnding
  <2>3. CASE j \notin batch /\ ~IsStale(row[j]) /\ table[j] = row[j]
    BY <1>2, <1>4, <2>1, <2>3 DEF LeaseOK, LastEnding
  <2>4. CASE j \notin batch /\ table[j].status = "due" /\ (IsStale(row[j]) \/ row[j].status = "absent")
    <3>1. row'[j] = table[j]
      BY <1>2, <2>4
    <3>2. QED BY <1>1, <1>4, <2>1, <2>4, <3>1, TokensAreNats DEF LeaseOK, LastEnding, IsStale, Row
  <2>5. QED BY <1>1, <2>2, <2>3, <2>4
<1>7. ASSUME NEW j \in Jobs, NEW t \in Tokens
      PROVE  DeliveryOK(j, delivery[j][t], ending[j][t])'
  <2>1. DeliveryOK(j, delivery[j][t], ending[j][t]) /\ LeaseOK(row[j], ending[j], delivery[j])
    BY DEF IInv
  <2>2. CASE j \in batch /\ t = n(j)
    BY <1>4, <2>2 DEF DeliveryOK, NoDelivery
  <2>3. CASE ~(j \in batch /\ t = n(j)) /\ IsStale(row[j]) /\ t = row[j].token
    <3>1. ending[j][t] = "open"
      BY <2>1, <2>3 DEF LeaseOK, LastEnding, IsStale
    <3>2. QED BY <1>4, <2>1, <2>3, <3>1 DEF DeliveryOK, CanWrite
  <2>4. CASE ~(j \in batch /\ t = n(j)) /\ ~(IsStale(row[j]) /\ t = row[j].token)
    BY <1>4, <2>1, <2>4 DEF DeliveryOK, CanWrite
  <2>5. QED BY <2>2, <2>3, <2>4
<1>8. QED BY <1>5, <1>6, <1>7 DEF IInv

-----------------------------------------------------------------------------
(* The clock touches neither a lease's number nor its deliveries. *)
LEMMA ClockStep ==
  ASSUME IInv, NEW j \in Jobs, NEW r \in Row,
         r.status = row[j].status, r.attempts = row[j].attempts, r.token = row[j].token,
         row' = [row EXCEPT ![j] = r], UNCHANGED <<ending, delivery>>, faults' \in 0..MaxFaults
  PROVE  IInv'
<1>1. TypeOK'
  BY DEF IInv, TypeOK, QueueTypeOK
<1>2. ASSUME NEW k \in Jobs
      PROVE  LeaseOK(row[k], ending[k], delivery[k])'
  BY DEF IInv, TypeOK, QueueTypeOK, LeaseOK, LastEnding
<1>3. ASSUME NEW k \in Jobs, NEW u \in Tokens
      PROVE  DeliveryOK(k, delivery[k][u], ending[k][u])'
  BY DEF IInv, DeliveryOK, CanWrite
<1>4. QED BY <1>1, <1>2, <1>3 DEF IInv

-----------------------------------------------------------------------------
(* The server closes or returns a lease that still holds its row. *)
LEMMA SettleStep ==
  ASSUME IInv, NEW j \in Jobs, NEW t \in Tokens, NEW r \in Row, NEW how \in Endings,
         NEW d \in Delivery,
         Holds(j, t), Settle(j, t, r, how), Goes(j, t, d), UNCHANGED faults,
         r.attempts = row[j].attempts, r.token = row[j].token,
         r.status \in {"due", "done", "failed"}, how \in LastEnding(r),
         r.status = "failed" => r.attempts >= MaxAttempts,
         d.pc # "none", DeliveryOK(j, d, how)
  PROVE  IInv'
<1>1. TypeOK'
  BY DEF IInv, TypeOK, QueueTypeOK, Settle, Goes
<1>2. ASSUME NEW k \in Jobs
      PROVE  LeaseOK(row[k], ending[k], delivery[k])'
  <2>1. LeaseOK(row[k], ending[k], delivery[k])
    BY DEF IInv
  <2>2. CASE k = j
    <3>1. row'[j] = r /\ r.status # "absent" /\ r.status # "leased"
      BY DEF Settle, IInv, TypeOK, QueueTypeOK
    <3>2. t = row[j].attempts /\ row[j].attempts > 0
      BY <2>1, <2>2 DEF Holds, LeaseOK
    <3>3. \A u \in Tokens : /\ ending'[j][u] = IF u = t THEN how ELSE ending[j][u]
                           /\ delivery'[j][u] = IF u = t THEN d ELSE delivery[j][u]
      BY DEF Settle, Goes, IInv, TypeOK, QueueTypeOK
    <3>4. LeaseOK(r, ending'[j], delivery'[j])
      <4>1. r.attempts = t /\ r.token = t /\ t > 0 /\ t \in Nat
        BY <2>1, <3>2, TokensAreNats DEF Holds
      <4>2. ASSUME NEW u \in Tokens
            PROVE  /\ u > t => ending'[j][u] = "none" /\ delivery'[j][u].pc = "none"
                   /\ u < t => ending'[j][u] \in {"released", "reclaimed"}
                   /\ u = t => ending'[j][u] \in LastEnding(r)
        BY <2>1, <2>2, <3>2, <3>3, TokensAreNats DEF LeaseOK
      <4>3. r.status = "absent" => r.attempts = 0
        BY <3>1
      <4>4. QED BY <4>1, <4>2, <4>3 DEF LeaseOK
    <3>5. QED BY <2>2, <3>1, <3>4 DEF LeaseOK, LastEnding
  <2>3. CASE k # j
    <3>1. row'[k] = row[k] /\ ending'[k] = ending[k] /\ delivery'[k] = delivery[k]
      BY <2>3 DEF Settle, Goes, IInv, TypeOK, QueueTypeOK
    <3>2. QED BY <2>1, <3>1 DEF LeaseOK, LastEnding
  <2>4. QED BY <2>2, <2>3
<1>3. ASSUME NEW k \in Jobs, NEW u \in Tokens
      PROVE  DeliveryOK(k, delivery[k][u], ending[k][u])'
  BY DEF IInv, TypeOK, QueueTypeOK, DeliveryOK, CanWrite, Settle, Goes
<1>4. QED BY <1>1, <1>2, <1>3 DEF IInv

LEMMA ServeStep ==
  ASSUME IInv, NEW j \in Jobs, NEW t \in Tokens, ServeSettlement(j, t)
  PROVE  IInv'
<1> DEFINE old == delivery[j][t]
<1>1. /\ old \in Delivery /\ row[j] \in Row
      /\ DeliveryOK(j, old, ending[j][t]) /\ LeaseOK(row[j], ending[j], delivery[j])
      /\ old.pc \in {"settling", "strayed"}
      /\ faults' = faults /\ faults \in 0..MaxFaults
  BY DEF IInv, TypeOK, QueueTypeOK, ServeSettlement, At
<1>2. ASSUME NEW verdict \in {"ok", "stale"}
      PROVE  /\ Answered(old, verdict) \in Delivery
             /\ Answered(old, verdict).pc \in {"answered", "closed"}
             /\ Answered(old, verdict).wrote = old.wrote
             /\ Answered(old, verdict).why = old.why
             /\ Answered(old, verdict).answer \in {"none", verdict}
  BY <1>1 DEF Answered, Delivery, DeliveryOK
<1>3. CASE old.why = "retry" /\ ReleaseJob(j, t) /\ Goes(j, t, Answered(old, "ok"))
  <2>1. CASE row[j].attempts >= MaxAttempts
    <3> DEFINE r == [row[j] EXCEPT !.status = "failed", !.lapsed = FALSE]
    <3>1. /\ r \in Row /\ r.status = "failed"
          /\ r.attempts = row[j].attempts /\ r.token = row[j].token
      BY <1>1 DEF Row, Statuses
    <3>2. Holds(j, t) /\ Settle(j, t, r, "failed")
      BY <1>3, <2>1 DEF ReleaseJob
    <3>3. DeliveryOK(j, Answered(old, "ok"), "failed")
      BY <1>1, <1>2, <1>3 DEF DeliveryOK, CanWrite
    <3>4. "failed" \in LastEnding(r) /\ "failed" \in Endings
      BY <3>1 DEF LastEnding, Endings
    <3> HIDE DEF r
    <3>5. QED BY <1>1, <1>2, <1>3, <2>1, <3>1, <3>2, <3>3, <3>4, SettleStep
  <2>2. CASE ~(row[j].attempts >= MaxAttempts)
    <3> DEFINE r == [row[j] EXCEPT !.status = "due", !.ripe = FALSE, !.lapsed = FALSE]
    <3>1. /\ r \in Row /\ r.status = "due"
          /\ r.attempts = row[j].attempts /\ r.token = row[j].token
      BY <1>1 DEF Row, Statuses
    <3>2. Holds(j, t) /\ Settle(j, t, r, "released")
      BY <1>3, <2>2 DEF ReleaseJob
    <3>3. DeliveryOK(j, Answered(old, "ok"), "released")
      BY <1>1, <1>2, <1>3 DEF DeliveryOK, CanWrite
    <3>4. "released" \in LastEnding(r) /\ "released" \in Endings
      BY <3>1 DEF LastEnding, Endings
    <3> HIDE DEF r
    <3>5. QED BY <1>1, <1>2, <1>3, <3>1, <3>2, <3>3, <3>4, SettleStep
  <2>3. QED BY <2>1, <2>2
<1>4. CASE old.why # "retry" /\ CompleteJob(j, t) /\ Goes(j, t, Answered(old, "ok"))
  <2> DEFINE r == [row[j] EXCEPT !.status = "done", !.lapsed = FALSE]
  <2>1. /\ r \in Row /\ r.status = "done"
        /\ r.attempts = row[j].attempts /\ r.token = row[j].token
    BY <1>1 DEF Row, Statuses
  <2>2. Holds(j, t) /\ Settle(j, t, r, "completed")
    BY <1>4 DEF CompleteJob
  <2>3. old.why \in {"performed", "committed", "notOurs"}
    BY <1>1, <1>4 DEF DeliveryOK, Delivery
  <2>4. DeliveryOK(j, Answered(old, "ok"), "completed")
    BY <1>1, <1>2, <2>3 DEF DeliveryOK, CanWrite
  <2>5. "completed" \in LastEnding(r) /\ "completed" \in Endings
    BY <2>1 DEF LastEnding, Endings
  <2> HIDE DEF r
  <2>6. QED BY <1>1, <1>2, <1>4, <2>1, <2>2, <2>4, <2>5, SettleStep
<1>5. CASE StaleSettlement(j, t) /\ Goes(j, t, Answered(old, "stale"))
  <2>1. ending[j][t] = "reclaimed"
    (* The lease was granted and does not hold its row; its own request has settled nothing. *)
    <3>1. ending[j][t] \in {"open", "reclaimed"}
      BY <1>1, TokensAreNats DEF DeliveryOK, LeaseOK, LastEnding, Row
    <3>2. ending[j][t] = "open" => Holds(j, t)
      BY <1>1, TokensAreNats DEF LeaseOK, LastEnding, Holds, Row
    <3>3. QED BY <1>5, <3>1, <3>2 DEF StaleSettlement
  <2>2. DeliveryOK(j, Answered(old, "stale"), ending[j][t])
    BY <1>1, <1>2, <2>1 DEF DeliveryOK, CanWrite
  <2>3. QED BY <1>1, <1>2, <1>5, <2>2, DeliveryStep DEF StaleSettlement, At
<1>6. QED BY <1>3, <1>4, <1>5 DEF ServeSettlement

-----------------------------------------------------------------------------
LEMMA InitIInv == Init => IInv
<1> SUFFICES ASSUME Init PROVE IInv
  OBVIOUS
<1>1. \A j \in Jobs : /\ row[j] \in Row /\ row[j].attempts = 0
                      /\ row[j].status \in {"absent", "due"}
  <2>1. NoToken \in 0..MaxLeases /\ 0 \in 0..MaxLeases
    BY QueueAssumption DEF NoToken
  <2>2. ASSUME NEW b \in BOOLEAN
        PROVE  /\ NewRow(b) \in Row /\ NewRow(b).attempts = 0 /\ NewRow(b).status = "due"
               /\ [NewRow(b) EXCEPT !.status = "absent"] \in Row
               /\ [NewRow(b) EXCEPT !.status = "absent"].attempts = 0
               /\ [NewRow(b) EXCEPT !.status = "absent"].status = "absent"
    BY <2>1 DEF NewRow, Row, Statuses
  <2>3. QED BY <2>2 DEF Init, QueueInit
<1>2. TypeOK
  <2>1. NoDelivery \in Delivery /\ "none" \in Endings /\ 0 \in 0..MaxFaults
    BY DispatchAssumption DEF NoDelivery, Delivery, Endings
  <2>2. row \in [Jobs -> Row]
    BY <1>1 DEF Init, QueueInit
  <2>3. QED BY <2>1, <2>2 DEF Init, QueueInit, TypeOK, QueueTypeOK
<1>3. ASSUME NEW j \in Jobs
      PROVE  LeaseOK(row[j], ending[j], delivery[j])
  BY <1>1, TokensAreNats DEF Init, QueueInit, LeaseOK, NoDelivery
<1>4. ASSUME NEW j \in Jobs, NEW t \in Tokens
      PROVE  DeliveryOK(j, delivery[j][t], ending[j][t])
  BY DEF Init, QueueInit, DeliveryOK, NoDelivery
<1>5. QED BY <1>2, <1>3, <1>4 DEF IInv

(* Each step of settleJob that leaves the table alone. *)
LEMMA DeliverySteps ==
  ASSUME IInv, NEW j \in Jobs, NEW t \in Tokens,
         \/ RefuseSweep(j, t) \/ RouteFails(j, t) \/ RouteToNothing(j, t) \/ StartWork(j, t)
         \/ CommitWrite(j, t) \/ FinishWork(j, t) \/ WorkThrows(j, t)
         \/ TurnProducesNothing(j, t) \/ HearAnswer(j, t) \/ Fault(j, t)
  PROVE  IInv'
<1> DEFINE old == delivery[j][t]
<1>1. /\ old \in Delivery /\ DeliveryOK(j, old, ending[j][t])
      /\ faults \in 0..MaxFaults
  BY DEF IInv, TypeOK
<1>2. faults' \in 0..MaxFaults
  BY <1>1, DispatchAssumption
     DEF RefuseSweep, RouteFails, RouteToNothing, StartWork, CommitWrite, FinishWork, WorkThrows,
         TurnProducesNothing, HearAnswer, Fault, RefuseUnleased, SettlementCallFails, Crash, Faulty
<1>3. ASSUME NEW why \in {"performed", "notOurs", "committed", "retry"},
             Leaves(j, t, why), old.pc \in {"claimed", "working"},
             old.wrote => why # "retry", UNCHANGED queueVars
      PROVE  IInv'
  <2> DEFINE d == [old EXCEPT !.pc = "settling", !.why = why]
  <2>1. d \in Delivery /\ d.pc = "settling"
    BY <1>1 DEF Delivery
  <2>2. DeliveryOK(j, d, ending[j][t])
    BY <1>1, <1>3 DEF DeliveryOK, Delivery, CanWrite
  <2>3. Goes(j, t, d) /\ ~At(j, t, "none")
    BY <1>3 DEF Leaves, At
  <2>4. QED BY <1>2, <1>3, <2>1, <2>2, <2>3, DeliveryStep
<1>4. ASSUME NEW pc \in {"working", "closed", "strayed", "gone"},
             Goes(j, t, [old EXCEPT !.pc = pc]), UNCHANGED queueVars,
             \/ old.pc = "claimed" /\ pc \in {"working", "closed", "gone"}
             \/ old.pc = "working" /\ pc = "gone"
             \/ old.pc = "settling" /\ pc = "strayed"
             \/ old.pc = "answered" /\ pc \in {"closed", "gone"}
      PROVE  IInv'
  <2> DEFINE d == [old EXCEPT !.pc = pc]
  <2>1. d \in Delivery /\ d.pc # "none"
    BY <1>1 DEF Delivery
  <2>2. DeliveryOK(j, d, ending[j][t])
    BY <1>1, <1>4 DEF DeliveryOK, Delivery, CanWrite
  <2>3. QED BY <1>2, <1>4, <2>1, <2>2, DeliveryStep DEF At
<1>5. CASE CommitWrite(j, t)
  <2> DEFINE d == [old EXCEPT !.wrote = TRUE]
  <2>1. d \in Delivery /\ d.pc = "working"
    BY <1>1, <1>5 DEF Delivery, CommitWrite, At
  <2>2. DeliveryOK(j, d, ending[j][t])
    BY <1>1, <1>5 DEF DeliveryOK, Delivery, CanWrite, CommitWrite, At
  <2>3. QED BY <1>2, <1>5, <2>1, <2>2, DeliveryStep DEF CommitWrite, At
<1>6. CASE SettlementCallFails(j, t) /\ old.pc = "answered"
  <2> DEFINE d == [old EXCEPT !.pc = "closed", !.answer = "none"]
  <2>1. d \in Delivery /\ d.pc = "closed"
    BY <1>1 DEF Delivery
  <2>2. DeliveryOK(j, d, ending[j][t])
    BY <1>1, <1>6 DEF DeliveryOK, Delivery, CanWrite
  <2>3. QED BY <1>2, <1>6, <2>1, <2>2, DeliveryStep DEF SettlementCallFails, At
<1>7. CASE RefuseSweep(j, t)
  BY <1>1, <1>3, <1>7 DEF RefuseSweep, At, DeliveryOK
<1>8. CASE RouteFails(j, t)
  BY <1>1, <1>3, <1>8 DEF RouteFails, At, DeliveryOK
<1>9. CASE RouteToNothing(j, t)
  BY <1>3, <1>9 DEF RouteToNothing, At
<1>10. CASE FinishWork(j, t)
  BY <1>3, <1>10 DEF FinishWork, At
<1>11. CASE WorkThrows(j, t)
  (* A turn that wrote is a live customer turn, so what it throws is never retried. *)
  BY <1>1, <1>3, <1>11 DEF WorkThrows, WhyThrown, CanWrite, At, DeliveryOK
<1>12. CASE TurnProducesNothing(j, t)
  BY <1>3, <1>12 DEF TurnProducesNothing, WhySilent, At
<1>13. CASE StartWork(j, t)
  BY <1>4, <1>13 DEF StartWork, At
<1>14. CASE HearAnswer(j, t)
  BY <1>4, <1>14 DEF HearAnswer, At
<1>15. CASE RefuseUnleased(j, t)
  BY <1>4, <1>15 DEF RefuseUnleased, At
<1>16. CASE SettlementCallFails(j, t) /\ old.pc # "answered"
  BY <1>4, <1>16 DEF SettlementCallFails, At
<1>17. CASE Crash(j, t)
  BY <1>4, <1>17 DEF Crash
<1>18. QED
  BY <1>5, <1>6, <1>7, <1>8, <1>9, <1>10, <1>11, <1>12, <1>13, <1>14, <1>15, <1>16, <1>17 DEF Fault

LEMMA NextIInv == IInv /\ [Next]_vars => IInv'
<1> SUFFICES ASSUME IInv, [Next]_vars PROVE IInv'
  OBVIOUS
<1>1. faults \in 0..MaxFaults
  BY DEF IInv, TypeOK
<1>2. CASE Tick
  BY <1>1, <1>2, ClaimStep DEF Tick
<1>3. CASE ClaimAnswerLost
  BY <1>1, <1>3, ClaimStep, DispatchAssumption DEF ClaimAnswerLost, Faulty
<1>4. ASSUME NEW j \in Jobs, NEW t \in Tokens, Work(j, t) \/ Fault(j, t)
      PROVE  IInv'
  BY <1>4, DeliverySteps, ServeStep DEF Work
<1>5. ASSUME NEW j \in Jobs, Lapse(j)
      PROVE  IInv'
  <2> DEFINE r == [row[j] EXCEPT !.lapsed = TRUE]
  <2>1. /\ r \in Row /\ r.status = row[j].status
        /\ r.attempts = row[j].attempts /\ r.token = row[j].token
    BY DEF IInv, TypeOK, QueueTypeOK, Row
  <2>2. row' = [row EXCEPT ![j] = r] /\ UNCHANGED <<ending, delivery>>
    BY <1>5 DEF Lapse, LeaseLapses, IInv, TypeOK, QueueTypeOK
  <2>3. faults' \in 0..MaxFaults
    BY <1>1, <1>5, DispatchAssumption DEF Lapse, Faulty
  <2> HIDE DEF r
  <2>4. QED BY <2>1, <2>2, <2>3, ClockStep
<1>6. ASSUME NEW j \in Jobs, BackoffElapses(j)
      PROVE  IInv'
  <2> DEFINE r == [row[j] EXCEPT !.ripe = TRUE]
  <2>1. /\ r \in Row /\ r.status = row[j].status
        /\ r.attempts = row[j].attempts /\ r.token = row[j].token
    BY DEF IInv, TypeOK, QueueTypeOK, Row
  <2>2. row' = [row EXCEPT ![j] = r] /\ UNCHANGED <<ending, delivery, faults>>
    BY <1>6 DEF BackoffElapses, Ripen, IInv, TypeOK, QueueTypeOK
  <2> HIDE DEF r
  <2>3. QED BY <1>1, <2>1, <2>2, ClockStep
<1>7. CASE UNCHANGED vars
  <2>1. TypeOK'
    BY <1>7 DEF IInv, TypeOK, QueueTypeOK, vars
  <2>2. QED BY <1>7, <2>1 DEF IInv, LeaseOK, LastEnding, DeliveryOK, CanWrite, vars
<1>8. QED BY <1>2, <1>3, <1>4, <1>5, <1>6, <1>7 DEF Next

(* IInv holds in every reachable state. *)
THEOREM Inductive == Spec => []IInv
BY InitIInv, NextIInv, PTL DEF Spec

-----------------------------------------------------------------------------
(* Type correctness. *)
THEOREM Typing == Spec => []TypeOK
<1>1. IInv => TypeOK
  BY DEF IInv
<1>2. QED BY <1>1, Inductive, PTL

(* No turn that placed an order or handed a thread over gives its row back to be retried. *)
THEOREM CommittedIsSafe == Spec => []CommittedNeverReleased
<1>1. IInv => CommittedNeverReleased
  BY DEF IInv, CommittedNeverReleased, DeliveryOK
<1>2. QED BY <1>1, Inductive, PTL

(* The settlements a tick reports are those the table made. *)
THEOREM ReportsAreTrue == Spec => []ReportIsTrue
<1>1. IInv => ReportIsTrue
  BY DEF IInv, ReportIsTrue, DeliveryOK
<1>2. QED BY <1>1, Inductive, PTL

(* A row is closed once, by its last lease, and for a reason the dispatcher has. *)
THEOREM ClosuresHaveReasons == Spec => []ClosedForAReason
<1>1. ASSUME IInv, NEW j \in Jobs, row[j].status \in {"done", "failed"}
      PROVE  LET closing == [done |-> "completed", failed |-> "failed"]
             IN /\ ending[j][row[j].token] = closing[row[j].status]
                /\ row[j].token = row[j].attempts
                /\ \A t \in 1..(row[j].attempts - 1) : ending[j][t] \in {"released", "reclaimed"}
                /\ IF row[j].status = "done"
                   THEN delivery[j][row[j].token].why \in {"performed", "committed", "notOurs"}
                   ELSE delivery[j][row[j].token].why = "retry" /\ row[j].attempts >= MaxAttempts
  <2>1. LeaseOK(row[j], ending[j], delivery[j]) /\ row[j] \in Row
    BY <1>1 DEF IInv, TypeOK, QueueTypeOK
  <2>2. row[j].attempts \in Tokens /\ row[j].token = row[j].attempts
    BY <1>1, <2>1, TokenRange DEF LeaseOK, Row
  <2>3. DeliveryOK(j, delivery[j][row[j].attempts], ending[j][row[j].attempts])
    BY <1>1, <2>2 DEF IInv
  <2>4. \A t \in 1..(row[j].attempts - 1) : t \in Tokens /\ t < row[j].attempts
    BY <2>2, QueueAssumption DEF Tokens
  <2>5. ending[j][row[j].attempts] = IF row[j].status = "done" THEN "completed" ELSE "failed"
    BY <1>1, <2>1, <2>2 DEF LeaseOK, LastEnding
  <2>6. QED BY <1>1, <2>1, <2>2, <2>3, <2>4, <2>5 DEF LeaseOK, DeliveryOK
<1>2. IInv => ClosedForAReason
  BY <1>1 DEF ClosedForAReason
<1>3. QED BY <1>2, Inductive, PTL

-----------------------------------------------------------------------------
(***************************************************************************)
(* The cap.  Every step either keeps a row's standing, or adds the fault   *)
(* that pays for the lease it may make necessary.                          *)
(***************************************************************************)
LEMMA Counts ==
  ASSUME IInv
  PROVE  /\ faults \in Nat /\ MaxAttempts \in Nat /\ MaxAttempts > 0
         /\ \A j \in Jobs : row[j] \in Row /\ row[j].attempts \in Nat
BY QueueAssumption, DispatchAssumption DEF IInv, TypeOK, QueueTypeOK, Row

LEMMA FaultsOnlyGrow ==
  ASSUME IInv, faults' = faults \/ Faulty
  PROVE  faults' \in Nat /\ faults' >= faults /\ (faults' # faults => faults' = faults + 1)
BY Counts DEF Faulty

(* A delivery moves on: that nobody works it any more is a fault, or was so. *)
LEMMA DeliveryPays ==
  ASSUME IInv, AttemptsPaid, NEW j \in Jobs, NEW t \in Tokens, NEW d,
         Goes(j, t, d), UNCHANGED queueVars, faults' = faults \/ Faulty,
         \/ d.pc \in {"claimed", "working", "settling"}
         \/ delivery[j][t].pc \notin {"claimed", "working", "settling"}
         \/ ~Holds(j, t)
         \/ Faulty
  PROVE  AttemptsPaid'
<1>1. ASSUME NEW k \in Jobs
      PROVE  /\ row'[k].attempts <= MaxAttempts + faults'
             /\ MayBeLeasedAgain(k)' => row'[k].attempts < MaxAttempts + faults'
  <2>1. row'[k] = row[k] /\ row[k].attempts \in Nat
    BY Counts DEF queueVars
  <2>2. /\ row[k].attempts <= MaxAttempts + faults
        /\ MayBeLeasedAgain(k) => row[k].attempts < MaxAttempts + faults
    BY DEF AttemptsPaid
  <2>3. CASE Faulty
    <3>1. faults' = faults + 1
      BY <2>3 DEF Faulty
    <3>2. QED BY <2>1, <2>2, <3>1, Counts
  <2>4. CASE ~Faulty
    <3>1. faults' = faults
      BY <2>4
    <3>2. row[k].status = "leased" /\ Overrun(k) => Overrun(k)'
      <4>1. \A u \in Tokens : delivery'[k][u] = IF k = j /\ u = t THEN d ELSE delivery[k][u]
        BY DEF Goes, IInv, TypeOK
      <4>2. QED BY <2>1, <2>4, <4>1 DEF Overrun, Holds
    <3>3. MayBeLeasedAgain(k)' => MayBeLeasedAgain(k)
      BY <2>1, <3>2 DEF MayBeLeasedAgain
    <3>4. QED BY <2>1, <2>2, <3>1, <3>3
  <2>5. QED BY <2>3, <2>4
<1>2. QED BY <1>1 DEF AttemptsPaid

(* A claim leases only what may be leased again, and starts its work or is a fault. *)
LEMMA ClaimPays ==
  ASSUME IInv, AttemptsPaid, NEW keys \in SUBSET Jobs, NEW overdue \in SUBSET Jobs,
         NEW batch \in SUBSET Jobs, NEW pc \in {"claimed", "gone"},
         ClaimDueJobs(keys, overdue, batch), Handed(batch, pc), faults' = faults \/ Faulty,
         pc = "gone" => Faulty
  PROVE  AttemptsPaid'
<1> DEFINE table == Prepared(keys, overdue)
<1>1. /\ row' = [j \in Jobs |-> IF j \in batch THEN Leased(table[j]) ELSE table[j]]
      /\ \A j \in batch : j \in Jobs /\ Claimable(table[j])
  BY DEF ClaimDueJobs, IsBatch
<1>2. ASSUME NEW k \in Jobs
      PROVE  /\ row'[k].attempts <= MaxAttempts + faults'
             /\ MayBeLeasedAgain(k)' => row'[k].attempts < MaxAttempts + faults'
  <2>1. /\ row[k] \in Row /\ table[k] \in Row /\ table[k].attempts = row[k].attempts
        /\ \/ table[k] = row[k] /\ ~IsStale(row[k])
           \/ table[k].status = "due" /\ (IsStale(row[k]) \/ row[k].status = "absent")
    BY PreparedRow
  <2>2. /\ row[k].attempts <= MaxAttempts + faults
        /\ MayBeLeasedAgain(k) => row[k].attempts < MaxAttempts + faults
    BY DEF AttemptsPaid
  <2>3. IsStale(row[k]) => MayBeLeasedAgain(k)
    BY DEF IsStale, MayBeLeasedAgain
  <2>4. table[k].status = "due" => row[k].attempts < MaxAttempts + faults
    BY <2>1, <2>2, <2>3 DEF MayBeLeasedAgain
  <2>5. /\ faults \in Nat /\ faults' \in Nat /\ faults' >= faults /\ MaxAttempts \in Nat
        /\ row[k].attempts \in Nat
    BY Counts, FaultsOnlyGrow
  <2> HIDE DEF table
  <2>6. CASE k \in batch
    <3>1. row'[k] = Leased(table[k]) /\ Claimable(table[k])
      BY <1>1, <2>6
    <3>2. PICK n : n = row[k].attempts + 1
      OBVIOUS
    <3>3. /\ row'[k].attempts = n /\ row'[k].token = n /\ n \in Tokens /\ row'[k].status = "leased"
      BY <2>1, <3>1, <3>2, LeasedRow
    <3>4. row[k].attempts < MaxAttempts + faults
      BY <2>4, <3>1 DEF Claimable
    <3>5. CASE Faulty
      <4>1. faults' = faults + 1
        BY <3>5 DEF Faulty
      <4>2. QED BY <2>5, <3>2, <3>3, <3>4, <4>1
    <3>6. CASE pc = "claimed"
      <4>1. delivery'[k][n].pc = "claimed"
        BY <2>6, <3>3, <3>6 DEF Handed, NoDelivery
      <4>2. Overrun(k)'
        BY <3>3, <4>1 DEF Overrun
      <4>3. ~row'[k].lapsed
        BY <2>1, <3>1 DEF Leased, Row
      <4>4. ~MayBeLeasedAgain(k)'
        BY <3>3, <4>2, <4>3 DEF MayBeLeasedAgain
      <4>5. QED BY <2>5, <3>2, <3>3, <3>4, <4>4
    <3>7. QED BY <3>5, <3>6
  <2>7. CASE k \notin batch
    <3>1. row'[k] = table[k]
      BY <1>1, <2>7
    <3>2. CASE table[k].status = "due"
      BY <2>1, <2>4, <2>5, <3>1, <3>2
    <3>3. CASE table[k] = row[k]
      <4>1. delivery'[k] = delivery[k]
        <5>1. delivery'[k] = [u \in Tokens |-> delivery[k][u]]
          BY <2>7 DEF Handed
        <5>2. QED BY <5>1 DEF IInv, TypeOK
      <4>2. MayBeLeasedAgain(k)' <=> MayBeLeasedAgain(k)
        BY <3>1, <3>3, <4>1 DEF MayBeLeasedAgain, Overrun
      <4>3. QED BY <2>2, <2>5, <3>1, <3>3, <4>2
    <3>4. QED BY <2>1, <3>2, <3>3
  <2>8. QED BY <2>6, <2>7
<1>3. QED BY <1>2 DEF AttemptsPaid

(* A settlement that holds its row closes it, or returns it below the cap. *)
LEMMA ServePays ==
  ASSUME IInv, AttemptsPaid, NEW j \in Jobs, NEW t \in Tokens, ServeSettlement(j, t)
  PROVE  AttemptsPaid'
<1>u. faults' = faults
  BY DEF ServeSettlement
<1>1. CASE StaleSettlement(j, t) /\ Goes(j, t, Answered(delivery[j][t], "stale"))
  BY <1>1, <1>u, DeliveryPays DEF StaleSettlement
<1>2. ASSUME NEW how, NEW status \in {"due", "done", "failed"}, NEW r,
             Settle(j, t, r, how), Goes(j, t, Answered(delivery[j][t], "ok")),
             r.status = status, r.attempts = row[j].attempts,
             status = "due" => row[j].attempts < MaxAttempts
      PROVE  AttemptsPaid'
  <2>1. ASSUME NEW k \in Jobs
        PROVE  /\ row'[k].attempts <= MaxAttempts + faults'
               /\ MayBeLeasedAgain(k)' => row'[k].attempts < MaxAttempts + faults'
    <3>1. /\ row[k].attempts <= MaxAttempts + faults
          /\ MayBeLeasedAgain(k) => row[k].attempts < MaxAttempts + faults
      BY DEF AttemptsPaid
    <3>2. CASE k = j
      <4>1. row'[j] = r
        BY <1>2 DEF Settle, IInv, TypeOK, QueueTypeOK
      <4>2. MayBeLeasedAgain(j)' => status = "due"
        BY <1>2, <4>1 DEF MayBeLeasedAgain
      <4>3. row[j].attempts < MaxAttempts => row[j].attempts < MaxAttempts + faults
        BY Counts
      <4>4. QED BY <1>2, <1>u, <3>1, <3>2, <4>1, <4>2, <4>3
    <3>3. CASE k # j
      <4>1. row'[k] = row[k] /\ delivery'[k] = delivery[k]
        BY <1>2, <3>3 DEF Settle, Goes, IInv, TypeOK, QueueTypeOK
      <4>2. MayBeLeasedAgain(k)' <=> MayBeLeasedAgain(k)
        BY <4>1 DEF MayBeLeasedAgain, Overrun
      <4>3. QED BY <1>u, <3>1, <4>1, <4>2
    <3>4. QED BY <3>2, <3>3
  <2>2. QED BY <2>1 DEF AttemptsPaid
<1>3. CASE CompleteJob(j, t) /\ Goes(j, t, Answered(delivery[j][t], "ok"))
  <2> DEFINE r == [row[j] EXCEPT !.status = "done", !.lapsed = FALSE]
  <2>1. r.status = "done" /\ r.attempts = row[j].attempts
    BY Counts DEF Row
  <2>2. Settle(j, t, r, "completed")
    BY <1>3 DEF CompleteJob
  <2> HIDE DEF r
  <2>3. QED BY <1>2, <1>3, <2>1, <2>2
<1>4. CASE ReleaseJob(j, t) /\ Goes(j, t, Answered(delivery[j][t], "ok"))
  <2>1. CASE row[j].attempts >= MaxAttempts
    <3> DEFINE r == [row[j] EXCEPT !.status = "failed", !.lapsed = FALSE]
    <3>1. r.status = "failed" /\ r.attempts = row[j].attempts
      BY Counts DEF Row
    <3>2. Settle(j, t, r, "failed")
      BY <1>4, <2>1 DEF ReleaseJob
    <3> HIDE DEF r
    <3>3. QED BY <1>2, <1>4, <3>1, <3>2
  <2>2. CASE ~(row[j].attempts >= MaxAttempts)
    <3> DEFINE r == [row[j] EXCEPT !.status = "due", !.ripe = FALSE, !.lapsed = FALSE]
    <3>1. r.status = "due" /\ r.attempts = row[j].attempts
      BY Counts DEF Row
    <3>2. Settle(j, t, r, "released")
      BY <1>4, <2>2 DEF ReleaseJob
    <3>3. row[j].attempts < MaxAttempts
      BY <2>2, Counts
    <3> HIDE DEF r
    <3>4. QED BY <1>2, <1>4, <3>1, <3>2, <3>3
  <2>3. QED BY <2>1, <2>2
<1>5. QED BY <1>1, <1>3, <1>4 DEF ServeSettlement

(* A lease that runs out under its worker is a fault; under nobody it had its fault. *)
LEMMA ClockPays ==
  ASSUME IInv, AttemptsPaid, NEW j \in Jobs, Lapse(j) \/ BackoffElapses(j)
  PROVE  AttemptsPaid'
<1>u. UNCHANGED delivery /\ (faults' = faults \/ Faulty)
  BY DEF Lapse, BackoffElapses
<1>1. ASSUME NEW k \in Jobs
      PROVE  /\ row'[k].attempts <= MaxAttempts + faults'
             /\ MayBeLeasedAgain(k)' => row'[k].attempts < MaxAttempts + faults'
  <2>1. /\ row[k].attempts <= MaxAttempts + faults
        /\ MayBeLeasedAgain(k) => row[k].attempts < MaxAttempts + faults
    BY DEF AttemptsPaid
  <2>2. /\ row'[k].attempts = row[k].attempts /\ row'[k].status = row[k].status
        /\ row'[k].token = row[k].token
        /\ row'[k].lapsed = row[k].lapsed \/ (k = j /\ LeaseLapses(j))
    BY DEF Lapse, LeaseLapses, BackoffElapses, Ripen, IInv, TypeOK, QueueTypeOK, Row
  <2>3. /\ faults \in Nat /\ faults' \in Nat /\ faults' >= faults /\ MaxAttempts \in Nat
        /\ row[k].attempts \in Nat
    BY <1>u, Counts, FaultsOnlyGrow
  <2>4. Overrun(k)' <=> Overrun(k)
    BY <1>u, <2>2 DEF Overrun
  <2>5. CASE row'[k].lapsed = row[k].lapsed
    <3>1. MayBeLeasedAgain(k)' <=> MayBeLeasedAgain(k)
      BY <2>2, <2>4, <2>5 DEF MayBeLeasedAgain
    <3>2. QED BY <2>1, <2>2, <2>3, <3>1
  <2>6. CASE k = j /\ LeaseLapses(j) /\ Overrun(j)
    <3>1. Lapse(j)
      BY <2>6 DEF LeaseLapses, BackoffElapses, Ripen
    <3>2. faults' = faults + 1
      BY <2>6, <3>1 DEF Lapse, Faulty
    <3>3. QED BY <2>1, <2>2, <2>3, <3>2
  <2>7. CASE k = j /\ LeaseLapses(j) /\ ~Overrun(j)
    <3>1. MayBeLeasedAgain(k)
      BY <2>7 DEF LeaseLapses, MayBeLeasedAgain
    <3>2. QED BY <2>1, <2>2, <2>3, <3>1
  <2>8. QED BY <2>2, <2>5, <2>6, <2>7
<1>2. QED BY <1>1 DEF AttemptsPaid

(* What settleJob does on its own side. *)
LEMMA SettleJobPays ==
  ASSUME IInv, AttemptsPaid, NEW j \in Jobs, NEW t \in Tokens,
         \/ RefuseSweep(j, t) \/ RouteFails(j, t) \/ RouteToNothing(j, t) \/ StartWork(j, t)
         \/ CommitWrite(j, t) \/ FinishWork(j, t) \/ WorkThrows(j, t)
         \/ TurnProducesNothing(j, t) \/ HearAnswer(j, t) \/ Fault(j, t)
  PROVE  AttemptsPaid'
<1>1. delivery[j][t] \in Delivery
  BY DEF IInv, TypeOK
<1>2. CASE Fault(j, t)
  <2>1. Faulty /\ UNCHANGED queueVars /\ \E d : Goes(j, t, d)
    BY <1>2 DEF Fault, RefuseUnleased, SettlementCallFails, Crash
  <2>2. QED BY <2>1, DeliveryPays
<1>3. CASE HearAnswer(j, t)
  <2>1. delivery[j][t].pc = "answered"
    BY <1>3 DEF HearAnswer, At
  <2>2. QED BY <1>3, <2>1, DeliveryPays DEF HearAnswer, queueVars
<1>4. ASSUME NEW why, Leaves(j, t, why), UNCHANGED <<queueVars, faults>>
      PROVE  AttemptsPaid'
  <2> DEFINE d == [delivery[j][t] EXCEPT !.pc = "settling", !.why = why]
  <2>1. d.pc = "settling"
    BY <1>1 DEF Delivery
  <2>2. Goes(j, t, d)
    BY <1>4 DEF Leaves
  <2> HIDE DEF d
  <2>3. QED BY <1>4, <2>1, <2>2, DeliveryPays
<1>5. CASE StartWork(j, t)
  <2> DEFINE d == [delivery[j][t] EXCEPT !.pc = "working"]
  <2>1. d.pc = "working" /\ Goes(j, t, d)
    BY <1>1, <1>5 DEF Delivery, StartWork
  <2> HIDE DEF d
  <2>2. QED BY <1>5, <2>1, DeliveryPays DEF StartWork
<1>6. CASE CommitWrite(j, t)
  <2> DEFINE d == [delivery[j][t] EXCEPT !.wrote = TRUE]
  <2>1. d.pc = "working" /\ Goes(j, t, d)
    BY <1>1, <1>6 DEF Delivery, CommitWrite, At
  <2> HIDE DEF d
  <2>2. QED BY <1>6, <2>1, DeliveryPays DEF CommitWrite
<1>7. QED BY <1>2, <1>3, <1>4, <1>5, <1>6
  DEF RefuseSweep, RouteFails, RouteToNothing, FinishWork, WorkThrows, TurnProducesNothing

LEMMA NextPays ==
  ASSUME IInv, AttemptsPaid, [Next]_vars
  PROVE  AttemptsPaid'
<1>1. CASE Tick
  BY <1>1, ClaimPays DEF Tick
<1>2. CASE ClaimAnswerLost
  BY <1>2, ClaimPays DEF ClaimAnswerLost
<1>3. ASSUME NEW j \in Jobs, NEW t \in Tokens, Work(j, t) \/ Fault(j, t)
      PROVE  AttemptsPaid'
  BY <1>3, ServePays, SettleJobPays DEF Work
<1>4. ASSUME NEW j \in Jobs, Lapse(j) \/ BackoffElapses(j)
      PROVE  AttemptsPaid'
  BY <1>4, ClockPays
<1>5. CASE UNCHANGED vars
  BY <1>5 DEF vars, AttemptsPaid, MayBeLeasedAgain, Overrun
<1>6. QED BY <1>1, <1>2, <1>3, <1>4, <1>5 DEF Next

(***************************************************************************)
(* A row is leased beyond MAX_ATTEMPTS only as often as something failed:  *)
(* a claim's answer, a process, a settlement's call, or a lease that ran   *)
(* out under its worker (backend.ts, releaseJob and the watchdog).         *)
(***************************************************************************)
THEOREM CapIsKept == Spec => []ExtraLeasesAreFaults
<1>1. Init => IInv /\ AttemptsPaid
  <2> SUFFICES ASSUME Init PROVE IInv /\ AttemptsPaid
    OBVIOUS
  <2>1. IInv
    BY InitIInv
  <2>2. faults = 0 /\ \A j \in Jobs : row[j].attempts = 0
    BY DEF Init, QueueInit, NewRow
  <2>3. QED BY <2>1, <2>2, Counts DEF AttemptsPaid
<1>2. IInv /\ AttemptsPaid /\ [Next]_vars => (IInv /\ AttemptsPaid)'
  BY NextIInv, NextPays
<1>3. AttemptsPaid => ExtraLeasesAreFaults
  BY DEF AttemptsPaid, ExtraLeasesAreFaults
<1>4. QED BY <1>1, <1>2, <1>3, PTL DEF Spec

-----------------------------------------------------------------------------
(* The refinement of the queue's contract. *)

LEMMA LeaseOfType ==
  ASSUME NEW r \in Row
  PROVE  LeaseOf(r) \in Contract!LeaseState
BY TokensAreNats DEF LeaseOf, Row, Statuses, NoToken, Contract!LeaseState

(* What a claim does to one row is a grant, a revocation, or nothing. *)
LEMMA ClaimRefines ==
  ASSUME IInv, NEW keys \in SUBSET Jobs, NEW overdue \in SUBSET Jobs, NEW batch \in SUBSET Jobs,
         ClaimDueJobs(keys, overdue, batch), NEW j \in Jobs
  PROVE  \/ LeaseOf(row'[j]) = LeaseOf(row[j])
         \/ Contract!LeaseStep(LeaseOf(row[j]), LeaseOf(row'[j]))
<1>1. row[j] \in Row /\ LeaseOK(row[j], ending[j], delivery[j])
  BY DEF IInv, TypeOK, QueueTypeOK
<1>2. PICK s : s = Prepared(keys, overdue)[j]
  OBVIOUS
<1>3. /\ s \in Row /\ s.attempts = row[j].attempts
      /\ \/ s = row[j] /\ ~IsStale(row[j])
         \/ s.status = "due" /\ (IsStale(row[j]) \/ row[j].status = "absent")
  BY <1>2, PreparedRow
<1>4. /\ row'[j] = IF j \in batch THEN Leased(s) ELSE s
      /\ j \in batch => Claimable(s)
  BY <1>2 DEF ClaimDueJobs, IsBatch
<1>5. row[j].attempts \in Nat
  BY <1>1, TokensAreNats DEF Row
<1>6. CASE j \in batch
  <2>1. /\ Leased(s).status = "leased" /\ Leased(s).attempts = row[j].attempts + 1
        /\ Leased(s).token = row[j].attempts + 1
    BY <1>3, <1>4, <1>6, LeasedRow
  <2>2. row[j].status \notin {"done", "failed"}
    BY <1>3, <1>4, <1>6 DEF Claimable, IsStale
  <2>3. Contract!Granted(LeaseOf(row[j]), LeaseOf(Leased(s)))
    BY <1>5, <2>1, <2>2 DEF LeaseOf, Contract!Granted
  <2>4. QED BY <1>4, <1>6, <2>3 DEF Contract!LeaseStep
<1>7. CASE j \notin batch /\ s = row[j]
  BY <1>4, <1>7
<1>8. CASE j \notin batch /\ s.status = "due" /\ row[j].status = "absent"
  BY <1>3, <1>4, <1>8 DEF LeaseOf
<1>9. CASE j \notin batch /\ s.status = "due" /\ IsStale(row[j])
  <2>1. row[j].status = "leased" /\ row[j].token = row[j].attempts /\ row[j].attempts > 0
    BY <1>1, <1>9 DEF LeaseOK, IsStale
  <2>2. Contract!Returned(LeaseOf(row[j]), LeaseOf(s))
    BY <1>3, <1>5, <1>9, <2>1 DEF LeaseOf, NoToken, Contract!Returned, Contract!NoLease
  <2>3. QED BY <1>4, <1>9, <2>2 DEF Contract!LeaseStep
<1>10. QED BY <1>3, <1>6, <1>7, <1>8, <1>9

(* Only the holder's settlement changes a row, and it returns or closes the job. *)
LEMMA SettlementRefines ==
  ASSUME IInv, NEW j \in Jobs, NEW t \in Tokens, NEW k \in Jobs,
         CompleteJob(j, t) \/ ReleaseJob(j, t)
  PROVE  \/ LeaseOf(row'[k]) = LeaseOf(row[k])
         \/ Contract!LeaseStep(LeaseOf(row[k]), LeaseOf(row'[k]))
<1>1. row[j] \in Row /\ row \in [Jobs -> Row]
  BY DEF IInv, TypeOK, QueueTypeOK
<1>2. row[j].status = "leased" /\ row[j].token = t /\ t # 0
  BY TokensAreNats DEF CompleteJob, ReleaseJob, Holds
<1>3. CASE k # j
  BY <1>1, <1>3 DEF CompleteJob, ReleaseJob, Settle
<1>4. CASE k = j
  <2>1. /\ row'[j].attempts = row[j].attempts
        /\ row'[j].status \in {"due", "done", "failed"}
    <3>1. CASE CompleteJob(j, t)
      BY <1>1, <3>1 DEF CompleteJob, Settle, Row
    <3>2. CASE ReleaseJob(j, t)
      BY <1>1, <3>2 DEF ReleaseJob, Settle, Row
    <3>3. QED BY <3>1, <3>2
  <2>2. row'[j].status = "due" => Contract!Returned(LeaseOf(row[j]), LeaseOf(row'[j]))
    BY <1>2, <2>1 DEF LeaseOf, NoToken, Contract!Returned, Contract!NoLease
  <2>3. row'[j].status \in {"done", "failed"} => Contract!Closed(LeaseOf(row[j]), LeaseOf(row'[j]))
    BY <1>2, <2>1 DEF LeaseOf, NoToken, Contract!Closed, Contract!NoLease
  <2>4. QED BY <1>4, <2>1, <2>2, <2>3 DEF Contract!LeaseStep
<1>5. QED BY <1>3, <1>4

(* The dispatcher over the table implements the contract: the token is the fence. *)
THEOREM KeepsContract == Spec => ContractSpec
<1>1. Init => Contract!Init
  <2>1. ASSUME Init, NEW j \in Jobs
        PROVE  LeaseOf(row[j]) = [grant |-> 0, holder |-> Contract!NoLease, outcome |-> "open"]
    BY <2>1 DEF Init, QueueInit, NewRow, LeaseOf, NoToken, Contract!NoLease
  <2>2. QED BY <2>1 DEF Contract!Init, ContractLease
<1>2. IInv /\ IInv' /\ [Next]_vars => [Contract!Next]_ContractLease
  <2> SUFFICES ASSUME IInv, IInv', [Next]_vars
               PROVE  [Contract!Next]_ContractLease
    OBVIOUS
  <2>1. ContractLease' \in [Jobs -> Contract!LeaseState]
    BY LeaseOfType DEF ContractLease, IInv, TypeOK, QueueTypeOK
  <2>2. ASSUME \A k \in Jobs : \/ LeaseOf(row'[k]) = LeaseOf(row[k])
                              \/ Contract!LeaseStep(LeaseOf(row[k]), LeaseOf(row'[k]))
        PROVE  Contract!Next
    BY <2>1, <2>2 DEF Contract!Next, ContractLease
  <2>3. CASE Tick \/ ClaimAnswerLost
    BY <2>2, <2>3, ClaimRefines DEF Tick, ClaimAnswerLost
  <2>4. ASSUME NEW j \in Jobs, NEW t \in Tokens, ServeSettlement(j, t)
        PROVE  [Contract!Next]_ContractLease
    BY <2>2, <2>4, SettlementRefines
       DEF ServeSettlement, StaleSettlement, queueVars, ContractLease
  <2>5. ASSUME NEW j \in Jobs, Lapse(j) \/ BackoffElapses(j), NEW k \in Jobs
        PROVE  LeaseOf(row'[k]) = LeaseOf(row[k])
    <3>1. row \in [Jobs -> Row]
      BY DEF IInv, TypeOK, QueueTypeOK
    <3>2. \/ row' = [row EXCEPT ![j].lapsed = TRUE]
          \/ row' = [row EXCEPT ![j].ripe = TRUE]
      BY <2>5 DEF Lapse, LeaseLapses, BackoffElapses, Ripen
    <3>3. row'[k].status = row[k].status /\ row'[k].attempts = row[k].attempts
          /\ row'[k].token = row[k].token
      BY <3>1, <3>2 DEF Row
    <3>4. QED BY <3>3 DEF LeaseOf
  <2>6. ASSUME NEW j \in Jobs, NEW t \in Tokens,
               Work(j, t) \/ Fault(j, t), ~ServeSettlement(j, t)
        PROVE  row' = row
    BY <2>6 DEF Work, Fault, RefuseSweep, RouteFails, RouteToNothing, StartWork, CommitWrite,
                FinishWork, WorkThrows, TurnProducesNothing, HearAnswer, RefuseUnleased,
                SettlementCallFails, Crash, queueVars
  <2>7. (UNCHANGED vars \/ row' = row) => UNCHANGED ContractLease
    BY DEF vars, ContractLease
  <2>8. QED BY <2>2, <2>3, <2>4, <2>5, <2>6, <2>7 DEF Next
<1>3. QED BY <1>1, <1>2, Inductive, PTL DEF Spec, ContractSpec, Contract!Spec

==============================================================================
