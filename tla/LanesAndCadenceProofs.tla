------------------------ MODULE LanesAndCadenceProofs -------------------------
(***************************************************************************)
(* What JobLanes keeps for every number of attempts, promises, orders and  *)
(* days: a debt is paid where it is owed and never dropped, the founder is *)
(* called only about a parcel that stood still, and no date is made up.    *)
(* And what Cadence keeps for every cadence, zone and span of time: the    *)
(* latest occurrence is filed once, and a cart's sweep follows it.         *)
(***************************************************************************)
EXTENDS JobLanes, Cadence, TLAPS, FiniteSetTheorems, WellFoundedInduction

-----------------------------------------------------------------------------
(* What the model's operators return. *)

LEMMA LeastOfNaturals ==
  ASSUME NEW S, S \subseteq Nat, S # {}
  PROVE  \E x \in S : \A y \in S : x <= y
<1> DEFINE Below == {p \in Nat \X Nat : p[1] < p[2]}
<1>a. IsWellFoundedOn(Below, Nat)
  BY NatLessThanWellFounded DEF OpToRel
<1>1. PICK x \in S : \A y \in S : <<y, x>> \notin Below
  BY <1>a, WFMin
<1>2. ASSUME NEW y \in S
      PROVE  x <= y
  <2>1. x \in Nat /\ y \in Nat
    OBVIOUS
  <2>2. y < x => <<y, x>> \in Below
    BY <2>1
  <2>3. QED BY <1>1, <2>1, <2>2
<1>3. QED BY <1>2

(* A sequence cut short, or with an element taken out, holds what it held. *)
LEMMA CutIsPart ==
  ASSUME NEW S, NEW s \in Seq(S), NEW m \in 1..(Len(s) + 1), NEW n \in 0..Len(s)
  PROVE  /\ SubSeq(s, m, n) \in Seq(S)
         /\ \A k \in DOMAIN SubSeq(s, m, n) :
              \E j \in DOMAIN s : SubSeq(s, m, n)[k] = s[j]
<1>1. SubSeq(s, m, n) \in Seq(S) /\ Len(s) \in Nat
  OBVIOUS
<1>2. Len(SubSeq(s, m, n)) = IF m <= n THEN n - m + 1 ELSE 0
  OBVIOUS
<1>3. ASSUME NEW k \in DOMAIN SubSeq(s, m, n)
      PROVE  \E j \in DOMAIN s : SubSeq(s, m, n)[k] = s[j]
  <2>1. k \in 1..(n - m + 1)
    BY <1>1, <1>2
  <2>2. SubSeq(s, m, n)[k] = s[k + m - 1] /\ k + m - 1 \in DOMAIN s
    BY <1>1, <2>1
  <2>3. QED BY <2>2
<1>4. QED BY <1>1, <1>3

LEMMA RemovedIsPart ==
  ASSUME NEW S, NEW s \in Seq(S), NEW i \in 1..Len(s)
  PROVE  /\ RemoveAt(s, i) \in Seq(S)
         /\ \A k \in DOMAIN RemoveAt(s, i) : \E j \in DOMAIN s : RemoveAt(s, i)[k] = s[j]
<1>1. /\ 1 \in 1..(Len(s) + 1) /\ i - 1 \in 0..Len(s)
      /\ i + 1 \in 1..(Len(s) + 1) /\ Len(s) \in 0..Len(s)
  OBVIOUS
<1>2. PICK a : a = SubSeq(s, 1, i - 1)
  OBVIOUS
<1>3. PICK b : b = SubSeq(s, i + 1, Len(s))
  OBVIOUS
<1>4. a \in Seq(S) /\ \A k \in DOMAIN a : \E j \in DOMAIN s : a[k] = s[j]
  BY <1>1, <1>2, CutIsPart
<1>5. b \in Seq(S) /\ \A k \in DOMAIN b : \E j \in DOMAIN s : b[k] = s[j]
  <2>1. PICK m, n : m = i + 1 /\ n = Len(s)
    OBVIOUS
  <2>2. m \in 1..(Len(s) + 1) /\ n \in 0..Len(s)
    BY <1>1, <2>1
  <2>3. /\ SubSeq(s, m, n) \in Seq(S)
        /\ \A k \in DOMAIN SubSeq(s, m, n) :
             \E j \in DOMAIN s : SubSeq(s, m, n)[k] = s[j]
    BY <2>2, CutIsPart
  <2>4. b = SubSeq(s, m, n)
    BY <1>3, <2>1
  <2>5. QED BY <2>3, <2>4
<1>6. RemoveAt(s, i) = a \o b
  BY <1>2, <1>3 DEF RemoveAt
<1>7. /\ a \o b \in Seq(S)
      /\ \A k \in DOMAIN (a \o b) :
           \/ \E j \in DOMAIN a : (a \o b)[k] = a[j]
           \/ \E j \in DOMAIN b : (a \o b)[k] = b[j]
  <2>1. a \o b \in Seq(S) /\ Len(a \o b) = Len(a) + Len(b) /\ Len(a) \in Nat /\ Len(b) \in Nat
    BY <1>4, <1>5
  <2>2. ASSUME NEW k \in 1..(Len(a) + Len(b))
        PROVE  \/ \E j \in DOMAIN a : (a \o b)[k] = a[j]
               \/ \E j \in DOMAIN b : (a \o b)[k] = b[j]
    <3>1. CASE k <= Len(a)
      <4>1. k \in DOMAIN a /\ (a \o b)[k] = a[k]
        BY <2>1, <3>1
      <4>2. QED BY <4>1
    <3>2. CASE k > Len(a)
      <4>1. k - Len(a) \in DOMAIN b /\ (a \o b)[k] = b[k - Len(a)]
        BY <2>1, <3>2
      <4>2. QED BY <4>1
    <3>3. QED BY <2>1, <3>1, <3>2
  <2>3. DOMAIN (a \o b) = 1..(Len(a) + Len(b))
    BY <2>1
  <2>4. QED BY <2>1, <2>2, <2>3
<1>8. QED BY <1>4, <1>5, <1>6, <1>7

(* A debt is refused, or opens a turn to pay it on the thread it names. *)
LEMMA PlanOfDebt ==
  ASSUME job \in Jobs, job.promise = {Debt}
  PROVE  \/ Plan.lane = "throws"
         \/ /\ Plan.lane = "customer_turn" /\ Plan.mode = "promise"
            /\ Plan.thread = job.thread
<1>1. job.kind = "followup"
  BY PromisesAreFollowedUp
<1>2. "followup" \in DOMAIN LaneDuties
  BY DEF LaneDuties
<1>3. Plan = PlanFollowup(job)
  BY <1>1, <1>2 DEF Plan, PlanJob
<1>4. Malformed \notin job.promise /\ job.promise # {}
  BY DEF Malformed, Debt
<1>5. PlanFollowup(job) = IF job.thread = {} THEN Refused ELSE CustomerTurn("promise", job)
  BY <1>4 DEF PlanFollowup
<1>6. QED BY <1>3, <1>5 DEF Refused, CustomerTurn

(* A page that is not full is the whole list. *)
LEMMA ShortPageIsAll ==
  ASSUME ledger \in Seq(Promises), Cardinality(Page) < ScanLimit
  PROVE  Page = Open
<1>1. IsFiniteSet(Open) /\ Open \subseteq Nat
  <2>1. IsFiniteSet(1..Len(ledger))
    BY FS_Interval
  <2>2. Open \subseteq 1..Len(ledger) /\ Len(ledger) \in Nat
    BY DEF Open
  <2>3. IsFiniteSet(Open)
    BY <2>1, <2>2, FS_Subset
  <2>4. QED BY <2>2, <2>3
<1>2. Page \subseteq Open /\ IsFiniteSet(Page)
  BY <1>1, FS_Subset DEF Page
<1>3. SUFFICES ASSUME Open \ Page # {}
               PROVE  FALSE
  BY <1>2
<1>4. PICK m \in Open \ Page : \A y \in Open \ Page : m <= y
  BY <1>1, <1>3, LeastOfNaturals
<1> DEFINE Before == {j \in Open : j < m}
<1>5. ASSUME NEW j \in Before
      PROVE  j \in Page
  <2>1. j \in Open /\ j < m /\ j \in Nat /\ m \in Nat
    BY <1>1, <1>4
  <2>2. ~(m <= j)
    BY <2>1
  <2>3. QED BY <1>4, <2>1, <2>2
<1>6. IsFiniteSet(Before) /\ Cardinality(Before) <= Cardinality(Page)
  BY <1>2, <1>5, FS_Subset
<1>7. ~(Cardinality(Before) < ScanLimit)
  BY <1>4 DEF Page
<1>8. Cardinality(Before) \in Nat /\ Cardinality(Page) \in Nat /\ ScanLimit \in Nat
  BY <1>2, <1>6, FS_CardinalityType, FollowUpBounds
<1>9. QED BY <1>6, <1>7, <1>8

LEMMA GoneIsSettled ==
  ASSUME ledger \in Seq(Promises), IsGone(Page)
  PROVE  ~Owed
<1>1. Page = Open
  BY ShortPageIsAll DEF IsGone
<1>2. Sees(Page) = {}
  BY DEF IsGone
<1>3. QED BY <1>1, <1>2 DEF Sees, Owed, Open

LEMMA SeenIsOwed ==
  ASSUME ledger \in Seq(Promises), DebtOK, NEW promise \in Sees(Page)
  PROVE  promise \in Promises /\ promise.thread = owedOn
<1>1. PICK i \in Page : promise = ledger[i] /\ ledger[i].id = Debt
  BY DEF Sees
<1>2. i \in DOMAIN ledger
  BY <1>1 DEF Page, Open
<1>3. QED BY <1>1, <1>2 DEF DebtOK

-----------------------------------------------------------------------------
(* The ledger moves on: what is in it was in it, or is new and no debt. *)

LEMMA LedgerMoves ==
  ASSUME FollowUpTypes, Elsewhere
  PROVE  /\ ledger' \in Seq(Promises)
         /\ \A i \in DOMAIN ledger' : ledger'[i].id = Debt =>
              \E k \in DOMAIN ledger :
                /\ ledger[k].id = Debt /\ ledger'[i].thread = ledger[k].thread
                /\ ledger'[i].status = "open" => ledger[k].status = "open"
<1>t. ledger \in Seq(Promises)
  BY DEF FollowUpTypes
<1>1. ASSUME NEW i \in DOMAIN ledger, NEW status \in {"kept", "released", "broken"},
             ledger' = [ledger EXCEPT ![i].status = status]
      PROVE  /\ ledger' \in Seq(Promises)
             /\ \A k \in DOMAIN ledger' :
                  /\ k \in DOMAIN ledger
                  /\ ledger'[k].id = ledger[k].id /\ ledger'[k].thread = ledger[k].thread
                  /\ ledger'[k].status = "open" => ledger[k].status = "open"
  <2>1. ledger[i] \in Promises
    BY <1>t
  <2>2. [ledger[i] EXCEPT !.status = status] \in Promises
    BY <2>1 DEF Promises
  <2>3. ledger' = [ledger EXCEPT ![i] = [ledger[i] EXCEPT !.status = status]]
    BY <1>1
  <2>4. ledger' \in Seq(Promises)
    BY <1>t, <2>2, <2>3
  <2>5. QED BY <1>t, <2>1, <2>3, <2>4 DEF Promises
<1>2. CASE SettlePromise
  BY <1>1, <1>2 DEF SettlePromise
<1>3. CASE BreakPromise
  BY <1>1, <1>3 DEF BreakPromise
<1>4. CASE DeletePromise
  <2>1. PICK i \in DOMAIN ledger : ledger' = RemoveAt(ledger, i)
    BY <1>4 DEF DeletePromise
  <2>2. i \in 1..Len(ledger)
    BY <1>t, <2>1
  <2>3. QED BY <1>t, <2>1, <2>2, RemovedIsPart
<1>5. CASE MakePromise
  <2>1. Promise("other", {}) \in Promises /\ Promise("other", {}).id # Debt
    BY DEF Promise, Promises, Debt
  <2>2. ledger' = Append(ledger, Promise("other", {}))
    BY <1>5 DEF MakePromise
  <2>3. QED BY <1>t, <2>1, <2>2
<1>6. CASE UNCHANGED ledger
  BY <1>t, <1>6
<1>7. QED BY <1>2, <1>3, <1>4, <1>5, <1>6 DEF Elsewhere, HandThreadOver

-----------------------------------------------------------------------------
(* A debt's attempt moves on: what it then owes to the ledger. *)

Attempts ==
  [step : Ended \cup {"check", "seam", "turn"}, row : SUBSET Promises, looks : SUBSET {"seen", "unseen"}]

InOrder(a) ==
  /\ a.step \in {"check", "seam", "turn"} => Plan.lane = "customer_turn"
  /\ a.step \in {"leasable", "check"} => a.looks = {}
  /\ a.step \in {"seam", "turn", "words"} =>
       a.looks # {} /\ ("seen" \in a.looks => owedOn = job.thread)
  /\ a.step = "none" => ~Owed
  /\ a.step # "silent"

LEMMA AttemptIs ==
  ASSUME FollowUpIInv, NEW t \in Leases
  PROVE  attempt[t] \in Attempts /\ (job.promise = {Debt} => InOrder(attempt[t]))
BY DEF FollowUpIInv, FollowUpTypes, DebtOK, Attempts, InOrder

LEMMA OneMoves ==
  ASSUME FollowUpIInv, NEW t \in Leases, NEW a \in Attempts,
         attempt' = [attempt EXCEPT ![t] = a], UNCHANGED <<job, turnMode, owedOn, ledgers>>,
         job.promise = {Debt} => InOrder(a)
  PROVE  FollowUpIInv'
<1>1. FollowUpTypes'
  BY DEF FollowUpIInv, FollowUpTypes, Attempts, ledgers
<1>2. Owed' <=> Owed
  BY DEF Owed, ledgers, IsOpen
<1>3. \A i \in DOMAIN ledger' : ledger'[i].id = Debt => ledger'[i].thread = owedOn'
  BY DEF FollowUpIInv, DebtOK, ledgers
<1>4. ASSUME job.promise = {Debt}, NEW u \in Leases
      PROVE  /\ attempt'[u].step \in {"check", "seam", "turn"} => Plan.lane = "customer_turn"
             /\ attempt'[u].step \in {"leasable", "check"} => attempt'[u].looks = {}
             /\ attempt'[u].step \in {"seam", "turn", "words"} =>
                  attempt'[u].looks # {} /\ ("seen" \in attempt'[u].looks => owedOn = job.thread)
             /\ attempt'[u].step = "none" => ~Owed
             /\ attempt'[u].step # "silent"
  <2>1. attempt'[u] = IF u = t THEN a ELSE attempt[u]
    BY DEF FollowUpIInv, FollowUpTypes
  <2>2. InOrder(attempt'[u])
    BY <1>4, <2>1, AttemptIs
  <2>3. QED BY <2>2 DEF InOrder
<1>5. DebtOK'
  <2>1. Plan' = Plan
    BY DEF Plan
  <2>2. QED BY <1>2, <1>3, <1>4, <2>1 DEF DebtOK
<1>6. QED BY <1>1, <1>5 DEF FollowUpIInv

(* A step that only moves the attempt on keeps its row and its looks. *)
LEMMA GoesIs ==
  ASSUME FollowUpIInv, NEW t \in Leases, NEW step, Goes(t, step),
         step \in Ended \cup {"check", "seam", "turn"}
  PROVE  \E a \in Attempts :
           /\ attempt' = [attempt EXCEPT ![t] = a]
           /\ a.step = step /\ a.looks = attempt[t].looks /\ a.row = attempt[t].row
<1>1. attempt[t] \in Attempts
  BY AttemptIs
<1>2. attempt' = [attempt EXCEPT ![t] = [attempt[t] EXCEPT !.step = step]]
  BY DEF Goes
<1>3. /\ [attempt[t] EXCEPT !.step = step] \in Attempts
      /\ [attempt[t] EXCEPT !.step = step].step = step
      /\ [attempt[t] EXCEPT !.step = step].looks = attempt[t].looks
      /\ [attempt[t] EXCEPT !.step = step].row = attempt[t].row
  BY <1>1 DEF Attempts
<1>4. QED BY <1>2, <1>3

LEMMA RouteKeeps ==
  ASSUME FollowUpIInv, NEW t \in Leases, Route(t)
  PROVE  FollowUpIInv'
<1>1. PICK step \in {"released", "check", "seam"} :
        /\ Goes(t, step)
        /\ job.promise = {Debt} => step # "seam" /\ (step = "check" => Plan.lane = "customer_turn")
  <2>1. job \in Jobs
    BY DEF FollowUpIInv, FollowUpTypes
  <2>2. QED BY <2>1, PlanOfDebt DEF Route
<1>2. PICK a \in Attempts :
        attempt' = [attempt EXCEPT ![t] = a] /\ a.step = step /\ a.looks = attempt[t].looks
  BY <1>1, GoesIs DEF Ended
<1>3. job.promise = {Debt} => InOrder(a)
  BY <1>1, <1>2, AttemptIs DEF InOrder, Route, At
<1>4. UNCHANGED <<job, turnMode, owedOn, ledgers>>
  BY DEF Route
<1>5. QED BY <1>2, <1>3, <1>4, OneMoves

LEMMA CheckKeeps ==
  ASSUME FollowUpIInv, NEW t \in Leases, CheckPromise(t)
  PROVE  FollowUpIInv'
<1>s. attempt[t].step = "check" /\ attempt[t] \in Attempts /\ ledger \in Seq(Promises) /\ DebtOK
  BY AttemptIs DEF CheckPromise, At, FollowUpIInv, FollowUpTypes
<1>d. t \in DOMAIN attempt
  BY DEF FollowUpIInv, FollowUpTypes
<1>u. UNCHANGED <<job, turnMode, owedOn, ledgers>>
  BY DEF CheckPromise
<1>0. SUFFICES \E a \in Attempts :
                 /\ attempt' = [attempt EXCEPT ![t] = a]
                 /\ job.promise = {Debt} => InOrder(a)
  BY <1>u, OneMoves
<1>1. CASE attempt' = [attempt EXCEPT ![t].step = "seam", ![t].looks = Look(t, {})]
  <2> DEFINE a == [attempt[t] EXCEPT !.step = "seam", !.looks = Look(t, {})]
  <2>l. Look(t, {}) = attempt[t].looks \cup {"unseen"}
    BY DEF Look
  <2>1. a \in Attempts /\ a.step = "seam" /\ a.looks = attempt[t].looks \cup {"unseen"}
    BY <1>s, <2>l DEF Attempts
  <2>2. attempt' = [attempt EXCEPT ![t] = a]
    BY <1>1, <1>d
  <2>3. job.promise = {Debt} => InOrder(a)
    <3> HIDE DEF a
    <3>1. QED BY <1>s, <2>1, AttemptIs DEF InOrder
  <2>4. QED BY <2>1, <2>2, <2>3
<1>2. ASSUME NEW found, found = Sees(Page), NEW misled \in BOOLEAN,
             misled <=> \E promise \in found : ~OwedHere(promise, Plan.thread),
             attempt' = [attempt EXCEPT
                ![t].step = IF IsGone(Page) THEN "none" ELSE IF misled THEN "released" ELSE "seam",
                ![t].row = IF misled THEN {} ELSE found,
                ![t].looks = Look(t, found)]
      PROVE  \E a \in Attempts :
               /\ attempt' = [attempt EXCEPT ![t] = a]
               /\ job.promise = {Debt} => InOrder(a)
  <2> DEFINE step == IF IsGone(Page) THEN "none" ELSE IF misled THEN "released" ELSE "seam"
             row == IF misled THEN {} ELSE found
             a == [attempt[t] EXCEPT !.step = step, !.row = row, !.looks = Look(t, found)]
  <2>1. found \subseteq Promises
    BY <1>2, <1>s, SeenIsOwed
  <2>2. Look(t, found) \subseteq {"seen", "unseen"} /\ Look(t, found) # {}
    BY <1>s DEF Look, Attempts
  <2>3. a \in Attempts /\ a.step = step /\ a.looks = Look(t, found)
    BY <1>s, <2>1, <2>2 DEF Attempts, Ended, Closings
  <2>4. attempt' = [attempt EXCEPT ![t] = a]
    BY <1>2, <1>d
  <2>5. ASSUME job.promise = {Debt}
        PROVE  InOrder(a)
    <3>1. IsGone(Page) => ~Owed
      BY <1>s, GoneIsSettled
    <3>2. attempt[t].looks = {}
      BY <1>s, <2>5, AttemptIs DEF InOrder
    <3>3. ASSUME ~misled, "seen" \in Look(t, found)
          PROVE  owedOn = job.thread
      <4>1. PICK promise \in found : OwedHere(promise, Plan.thread)
        BY <1>2, <3>2, <3>3 DEF Look
      <4>2. promise.thread = owedOn /\ promise.thread = Plan.thread
        BY <1>2, <1>s, <4>1, SeenIsOwed DEF OwedHere
      <4>3. Plan.thread = job.thread
        <5>1. Plan.lane = "customer_turn" /\ job \in Jobs
          BY <1>s, <2>5, AttemptIs DEF InOrder, FollowUpIInv, FollowUpTypes
        <5>2. QED BY <2>5, <5>1, PlanOfDebt
      <4>4. QED BY <4>2, <4>3
    <3>4. Plan.lane = "customer_turn"
      BY <1>s, <2>5, AttemptIs DEF InOrder
    <3> HIDE DEF a
    <3>5. QED BY <2>2, <2>3, <3>1, <3>3, <3>4 DEF InOrder
  <2>6. QED BY <2>3, <2>4, <2>5
<1>3. QED BY <1>1, <1>2 DEF CheckPromise

(* A turn that throws closes the job as an error, or leaves it to the next attempt. *)
LEMMA ThrowKeeps ==
  ASSUME FollowUpIInv, NEW t \in Leases, NEW step \in {"failed", "released", "locked", "dead"},
         Goes(t, step), UNCHANGED <<job, turnMode, owedOn, ledgers>>
  PROVE  FollowUpIInv'
<1>1. PICK a \in Attempts : attempt' = [attempt EXCEPT ![t] = a] /\ a.step = step
  BY GoesIs DEF Ended, Closings
<1>2. InOrder(a)
  BY <1>1 DEF InOrder
<1>3. QED BY <1>1, <1>2, OneMoves

LEMMA OpenKeeps ==
  ASSUME FollowUpIInv, NEW t \in Leases, OpenTurn(t)
  PROVE  FollowUpIInv'
<1>s. attempt[t].step = "seam" /\ attempt[t] \in Attempts /\ ledger \in Seq(Promises) /\ DebtOK
  BY AttemptIs DEF OpenTurn, At, FollowUpIInv, FollowUpTypes
<1>d. t \in DOMAIN attempt
  BY DEF FollowUpIInv, FollowUpTypes
<1>u. UNCHANGED <<job, turnMode, owedOn, ledgers>>
  BY DEF OpenTurn
<1> DEFINE told == InstructionFor(Plan.mode, attempt[t].row)
           looksAgain == told.mode = "promise" /\ told.row = {}
<1>1. PICK found \in (IF looksAgain THEN {{}, Sees(Page)} ELSE {told.row}) :
        IF ~ValidInstructedAction(told) \/ Refuses(t, found) THEN TurnThrows(t)
        ELSE attempt' = [attempt EXCEPT ![t].step = "turn",
                           ![t].looks = IF looksAgain THEN Look(t, found) ELSE @]
  BY Zenon DEF OpenTurn
<1>2. CASE TurnThrows(t)
  BY <1>2, <1>u, ThrowKeeps DEF TurnThrows
<1>3. CASE /\ ~Refuses(t, found)
           /\ attempt' = [attempt EXCEPT ![t].step = "turn",
                            ![t].looks = IF looksAgain THEN Look(t, found) ELSE @]
  <2> DEFINE looks == IF looksAgain THEN Look(t, found) ELSE attempt[t].looks
             a == [attempt[t] EXCEPT !.step = "turn", !.looks = looks]
  <2>1. Look(t, found) = attempt[t].looks \cup {IF found # {} THEN "seen" ELSE "unseen"}
    BY DEF Look
  <2>2. looks \subseteq {"seen", "unseen"} /\ attempt[t].looks \subseteq looks
    BY <1>s, <2>1 DEF Attempts
  <2>3. a \in Attempts /\ a.step = "turn" /\ a.looks = looks
    BY <1>s, <2>2 DEF Attempts
  <2>4. attempt' = [attempt EXCEPT ![t] = a]
    BY <1>3, <1>d
  <2>5. ASSUME job.promise = {Debt}
        PROVE  InOrder(a)
    <3>1. /\ Plan.lane = "customer_turn" /\ job \in Jobs /\ attempt[t].looks # {}
          /\ "seen" \in attempt[t].looks => owedOn = job.thread
      BY <1>s, <2>5, AttemptIs DEF InOrder, FollowUpIInv, FollowUpTypes
    <3>2. Plan.thread = job.thread
      BY <2>5, <3>1, PlanOfDebt
    <3>3. ASSUME looksAgain, found # {}
          PROVE  owedOn = job.thread
      <4>1. found = Sees(Page)
        BY <1>1, <3>3
      <4>2. PICK promise \in found : OwedHere(promise, Plan.thread)
        BY <1>3, <3>3 DEF Refuses
      <4>3. promise.thread = owedOn
        BY <1>s, <4>1, <4>2, SeenIsOwed
      <4>4. QED BY <3>2, <4>2, <4>3 DEF OwedHere
    <3> HIDE DEF a, looksAgain
    <3>4. "seen" \in looks => owedOn = job.thread
      BY <2>1, <3>1, <3>3
    <3>5. QED BY <2>2, <2>3, <3>1, <3>4 DEF InOrder
  <2>6. QED BY <1>u, <2>3, <2>4, <2>5, OneMoves
<1>4. QED BY <1>1, <1>2, <1>3

LEMMA TakeKeeps ==
  ASSUME FollowUpIInv, NEW t \in Leases, TakeTurn(t)
  PROVE  FollowUpIInv'
<1>s. attempt[t].step = "turn" /\ UNCHANGED <<job, turnMode, owedOn, ledgers>>
  BY DEF TakeTurn, At
<1>1. PICK step \in {"locked", "words", "released", "silent", "failed"} :
        /\ Goes(t, step)
        /\ step = "silent" => ~InstructionFor(Plan.mode, attempt[t].row).owes
  BY DEF TakeTurn, TurnThrows
<1>2. PICK a \in Attempts :
        attempt' = [attempt EXCEPT ![t] = a] /\ a.step = step /\ a.looks = attempt[t].looks
  BY <1>1, GoesIs DEF Ended, Closings
<1>3. ASSUME job.promise = {Debt}
      PROVE  InOrder(a)
  <2>1. /\ Plan.lane = "customer_turn" /\ job \in Jobs /\ attempt[t].looks # {}
        /\ "seen" \in attempt[t].looks => owedOn = job.thread
    BY <1>s, <1>3, AttemptIs DEF InOrder, FollowUpIInv, FollowUpTypes
  <2>2. InstructionFor(Plan.mode, attempt[t].row).owes
    BY <1>3, <2>1, PlanOfDebt DEF InstructionFor, OwesReply
  <2>3. QED BY <1>1, <1>2, <2>1, <2>2 DEF InOrder
<1>4. QED BY <1>s, <1>2, <1>3, OneMoves

LEMMA ElsewhereKeeps ==
  ASSUME FollowUpIInv, Elsewhere
  PROVE  FollowUpIInv'
<1>1. UNCHANGED <<job, turnMode, owedOn, attempt>>
  BY DEF Elsewhere
<1>2. /\ ledger' \in Seq(Promises)
      /\ \A i \in DOMAIN ledger' : ledger'[i].id = Debt =>
           \E k \in DOMAIN ledger :
             /\ ledger[k].id = Debt /\ ledger'[i].thread = ledger[k].thread
             /\ ledger'[i].status = "open" => ledger[k].status = "open"
  BY LedgerMoves DEF FollowUpIInv
<1>3. FollowUpTypes'
  BY <1>1, <1>2 DEF FollowUpIInv, FollowUpTypes
<1>4. Owed' => Owed
  BY <1>2 DEF Owed, IsOpen
<1>5. Plan' = Plan
  BY <1>1 DEF Plan
<1>6. DebtOK'
  BY <1>1, <1>2, <1>4, <1>5 DEF FollowUpIInv, DebtOK
<1>7. QED BY <1>3, <1>6 DEF FollowUpIInv

LEMMA FollowUpKeeps ==
  ASSUME FollowUpIInv, FollowUpNext
  PROVE  FollowUpIInv'
<1>1. ASSUME NEW t \in Leases, Loses(t)
      PROVE  FollowUpIInv'
  BY <1>1, ThrowKeeps DEF Loses
<1>2. QED BY <1>1, RouteKeeps, CheckKeeps, OpenKeeps, TakeKeeps, ElsewhereKeeps DEF FollowUpNext

LEMMA FollowUpStarts ==
  ASSUME FollowUpInit
  PROVE  FollowUpIInv
<1>1. ledger \in Seq(Promises) /\ \A i \in DOMAIN ledger : ledger[i].id = Debt => ledger[i].thread = owedOn
  <2>1. CASE ledger = <<>>
    BY <2>1
  <2>2. CASE \E n \in 1..MaxPromises, at \in 1..MaxPromises, on \in {{c} : c \in Threads} \cup {{}} :
               ledger = [i \in 1..n |-> IF i = at THEN Promise(Debt, on) ELSE Promise("other", {})]
    <3>1. PICK n \in 1..MaxPromises, at \in 1..MaxPromises, on \in SUBSET Threads :
               ledger = [i \in 1..n |-> IF i = at THEN Promise(Debt, on) ELSE Promise("other", {})]
      BY <2>2
    <3>2. n \in Nat
      BY FollowUpBounds
    <3>3. \A i \in 1..n : ledger[i] \in Promises
      BY <3>1 DEF Promise, Promises
    <3>4. ledger \in Seq(Promises) /\ DOMAIN ledger = 1..n
      <4>1. ledger = [i \in 1..n |-> ledger[i]]
        BY <3>1
      <4>2. QED BY <3>2, <3>3, <4>1
    <3>5. ASSUME NEW i \in 1..n
          PROVE  /\ ledger[i].id = Debt => i = at
                 /\ i = at => ledger[i].thread = on
      BY <3>1 DEF Promise, Debt
    <3>6. ASSUME NEW i \in DOMAIN ledger, ledger[i].id = Debt
          PROVE  ledger[i].thread = owedOn
      <4>1. {k \in DOMAIN ledger : ledger[k].id = Debt} = {at}
        BY <3>4, <3>5, <3>6
      <4>2. owedOn = UNION {ledger[k].thread : k \in {at}}
        BY <4>1 DEF FollowUpInit
      <4>3. owedOn = ledger[at].thread
        BY <4>2
      <4>4. QED BY <3>4, <3>5, <3>6, <4>3
    <3>7. QED BY <3>4, <3>6
  <2>3. QED BY <2>1, <2>2 DEF FollowUpInit, Ledgers
<1>2. attempt = [t \in Leases |-> Idle] /\ job \in Jobs /\ turnMode \in {"shadow", "live"}
  BY DEF FollowUpInit
<1>3. FollowUpTypes
  BY <1>1, <1>2 DEF FollowUpTypes, Idle, Ended
<1>4. DebtOK
  BY <1>1, <1>2 DEF DebtOK, Idle
<1>5. QED BY <1>3, <1>4 DEF FollowUpIInv

-----------------------------------------------------------------------------
(* The event lanes: an attempt moves on while the world stands still. *)

LaneRun == IF lane = "courier" THEN CourierRuns ELSE RestockRuns

SupplySeen(r) == r.step \in {"case", "supply"} /\ r.two \notin {Unread, None} => Placed(r.two)

RunInOrder(r) ==
  /\ r \in LaneRun
  /\ lane = "courier" => SeenStill(r)
  /\ lane = "restock" => SupplySeen(r)

LEMMA RunIs ==
  ASSUME LaneIInv, NEW t \in Turns
  PROVE  /\ lane \in {"courier", "restock"} /\ day \in Dates
         /\ t \in DOMAIN run /\ RunInOrder(run[t])
BY DEF LaneIInv, TypeOK, LaneRun, RunInOrder, OrdersSeen, SupplySeen

LEMMA OneRuns ==
  ASSUME LaneIInv, NEW t \in Turns, NEW r,
         run' = [run EXCEPT ![t] = r], RunInOrder(r),
         UNCHANGED world
  PROVE  /\ run' \in [Turns -> IF lane' = "courier" THEN CourierRuns ELSE RestockRuns]
         /\ (lane = "courier" => \A u \in Turns : SeenStill(run[u]))'
         /\ (lane = "restock" => OrdersSeen)'
<1>w. UNCHANGED <<lane, day, parcel, shelf, promised>>
  BY DEF world
<1>1. run' \in [Turns -> IF lane' = "courier" THEN CourierRuns ELSE RestockRuns]
  BY <1>w DEF LaneIInv, TypeOK, RunInOrder, LaneRun
<1>2. ASSUME NEW u \in Turns
      PROVE  run'[u] = (IF u = t THEN r ELSE run[u]) /\ RunInOrder(run'[u])
  BY RunIs
<1>3. ASSUME lane = "courier", NEW u \in Turns
      PROVE  SeenStill(run[u])'
  <2>1. PICK x : x = run'[u]
    OBVIOUS
  <2>2. SeenStill(x)
    BY <1>2, <1>3, <2>1 DEF RunInOrder
  <2>3. QED BY <1>w, <2>1, <2>2 DEF SeenStill
<1>4. ASSUME lane = "restock"
      PROVE  OrdersSeen'
  <2>1. Placed(shelf.orders)
    BY <1>4 DEF LaneIInv, OrdersSeen
  <2>2. ASSUME NEW u \in Turns, run'[u].step \in {"case", "supply"}, run'[u].two \notin {Unread, None}
        PROVE  Placed(run'[u].two)
    BY <1>2, <1>4, <2>2 DEF RunInOrder, SupplySeen
  <2>3. QED BY <1>w, <2>1, <2>2 DEF OrdersSeen, Placed
<1>5. QED BY <1>w, <1>1, <1>3, <1>4

(* An attempt that touches nothing but itself. *)
LEMMA OnlyRuns ==
  ASSUME LaneIInv, NEW t \in Turns, NEW r,
         run' = [run EXCEPT ![t] = r], RunInOrder(r),
         UNCHANGED <<world, store>>
  PROVE  LaneIInv'
<1>w. UNCHANGED <<lane, day, parcel, shelf, promised, ask, desk, report>>
  BY DEF world, store
<1>1. /\ run' \in [Turns -> IF lane' = "courier" THEN CourierRuns ELSE RestockRuns]
      /\ (lane = "courier" => \A u \in Turns : SeenStill(run[u]))'
      /\ (lane = "restock" => OrdersSeen)'
  BY OneRuns
<1>2. TypeOK'
  BY <1>w, <1>1 DEF LaneIInv, TypeOK
<1>3. CardIsWarranted' /\ NoInventedDate'
  BY <1>w DEF LaneIInv, CardIsWarranted, NoInventedDate
<1>4. QED BY <1>1, <1>2, <1>3 DEF LaneIInv

LEMMA FreshRun ==
  ASSUME NEW step \in Over \cup {"planned"}
  PROVE  /\ [NoRun EXCEPT !.step = step] \in CourierRuns
         /\ [NoRun EXCEPT !.step = step] \in RestockRuns
         /\ RunInOrder([NoRun EXCEPT !.step = step])
<1>1. 0 \in Dates
  BY LaneBounds DEF Dates
<1>2. [NoRun EXCEPT !.step = step] \in CourierRuns /\ [NoRun EXCEPT !.step = step] \in RestockRuns
  BY <1>1 DEF NoRun, CourierRuns, RestockRuns
<1>3. [NoRun EXCEPT !.step = step].step = step
  BY DEF NoRun
<1>4. step \notin {"read", "gate", "file", "case", "supply"}
  BY DEF Over
<1>5. PICK r : r = [NoRun EXCEPT !.step = step]
  OBVIOUS
<1>6. SeenStill(r) /\ SupplySeen(r)
  BY <1>3, <1>4, <1>5 DEF SeenStill, SupplySeen
<1>7. QED BY <1>2, <1>5, <1>6 DEF RunInOrder, LaneRun

(* An attempt that ends, or that goes on to a step that asks nothing of what it has read. *)
LEMMA EndKeeps ==
  ASSUME LaneIInv, NEW t \in Turns, NEW step \in Over,
         run' = [run EXCEPT ![t] = [NoRun EXCEPT !.step = step]], UNCHANGED <<world, store>>
  PROVE  LaneIInv'
BY FreshRun, OnlyRuns

LEMMA BeginKeeps ==
  ASSUME LaneIInv, NEW t \in Turns, Begin(t)
  PROVE  LaneIInv'
<1> DEFINE step == IF lane = "courier" THEN "read" ELSE "case"
           r == [NoRun EXCEPT !.step = step, !.day = day]
<1>1. day \in Dates /\ lane \in {"courier", "restock"}
  BY RunIs
<1>2. r \in LaneRun
  BY <1>1 DEF NoRun, CourierRuns, RestockRuns, LaneRun
<1>3. r.step = step /\ r.one = Unread /\ r.two = Unread
  BY DEF NoRun
<1>4. run' = [run EXCEPT ![t] = r] /\ UNCHANGED <<world, store>>
  BY DEF Begin
<1> HIDE DEF r
<1>5. SeenStill(r)
  BY <1>3, UnreadIsNoAnswer DEF SeenStill
<1>6. lane = "restock" => SupplySeen(r)
  BY <1>3 DEF SupplySeen
<1>7. QED BY <1>2, <1>4, <1>5, <1>6, OnlyRuns DEF RunInOrder

LEMMA DiesKeeps ==
  ASSUME LaneIInv, NEW t \in Turns, Dies(t)
  PROVE  LaneIInv'
BY EndKeeps DEF Dies, Throws, Over

(* The courier's lane: only its own steps are a courier run's. *)
LEMMA CourierRunIs ==
  ASSUME LaneIInv, NEW t \in Turns, run[t].step \in {"read", "gate", "file", "card", "heal"}
  PROVE  /\ lane = "courier" /\ t \in DOMAIN run
         /\ run[t] \in CourierRuns /\ SeenStill(run[t])
BY RunIs DEF RunInOrder, LaneRun, RestockRuns, Over

LEMMA GatherKeeps ==
  ASSUME LaneIInv, NEW t \in Turns, GatherParcel(t)
  PROVE  LaneIInv'
<1>s. /\ run[t].step = "read" /\ lane = "courier" /\ t \in DOMAIN run
      /\ run[t] \in CourierRuns /\ SeenStill(run[t])
  BY CourierRunIs DEF GatherParcel, Runs
<1>p. parcel.over \in BOOLEAN /\ parcel.scan \in {"none", "old", "recent"}
  BY DEF LaneIInv, TypeOK
<1>u. UNCHANGED <<world, store>>
  BY DEF GatherParcel
<1>b. run[t].still \in BOOLEAN /\ StandsStill \in BOOLEAN
  BY <1>s, <1>p DEF CourierRuns, StandsStill
<1> DEFINE still == run[t].still \/ StandsStill
<1>1. ASSUME run[t].one = Unread, NEW answer \in {"dark", IF parcel.over THEN "over" ELSE "out"},
             run' = [run EXCEPT ![t]["one"] = answer, ![t].still = @ \/ StandsStill]
      PROVE  LaneIInv'
  <2> DEFINE r == [run[t] EXCEPT !.one = answer, !.still = still]
  <2>1. run' = [run EXCEPT ![t] = r]
    BY <1>1, <1>s DEF CourierRuns
  <2>2. r \in CourierRuns
    BY <1>1, <1>s, <1>b DEF CourierRuns
  <2>3. /\ r.step = "read" /\ r.one = answer /\ r.still = still
        /\ r.two = run[t].two
    BY <1>s DEF CourierRuns
  <2> HIDE DEF r
  <2>4. r.two \in {Unread, "dark", "none", "old", "recent"}
    BY <2>2 DEF CourierRuns
  <2>5. SeenStill(r)
    BY <1>1, <1>s, <1>p, <2>3, <2>4, UnreadIsNoAnswer
    DEF SeenStill, Warranted, NothingToChase, StandsStill
  <2>6. QED BY <1>s, <1>u, <2>1, <2>2, <2>5, OnlyRuns DEF RunInOrder, LaneRun
<1>2. ASSUME run[t].two = Unread, NEW answer \in {"dark", parcel.scan},
             run' = [run EXCEPT ![t]["two"] = answer, ![t].still = @ \/ StandsStill]
      PROVE  LaneIInv'
  <2> DEFINE r == [run[t] EXCEPT !.two = answer, !.still = still]
  <2>1. run' = [run EXCEPT ![t] = r]
    BY <1>2, <1>s DEF CourierRuns
  <2>2. r \in CourierRuns
    BY <1>2, <1>s, <1>b, <1>p DEF CourierRuns
  <2>3. /\ r.step = "read" /\ r.two = answer /\ r.still = still
        /\ r.one = run[t].one
    BY <1>s DEF CourierRuns
  <2> HIDE DEF r
  <2>4. r.one \in {Unread, "dark", "out", "over"}
    BY <2>2 DEF CourierRuns
  <2>5. SeenStill(r)
    BY <1>2, <1>s, <1>p, <2>3, <2>4, UnreadIsNoAnswer
    DEF SeenStill, Warranted, NothingToChase, StandsStill
  <2>6. QED BY <1>s, <1>u, <2>1, <2>2, <2>5, OnlyRuns DEF RunInOrder, LaneRun
<1>3. QED BY <1>1, <1>2 DEF GatherParcel

LEMMA DecideKeeps ==
  ASSUME LaneIInv, NEW t \in Turns, Decide(t)
  PROVE  LaneIInv'
<1>s. /\ run[t].step = "read" /\ lane = "courier" /\ t \in DOMAIN run
      /\ run[t] \in CourierRuns /\ SeenStill(run[t])
  BY CourierRunIs DEF Decide, Runs
<1>u. UNCHANGED <<world, store>>
  BY DEF Decide
<1>1. CASE Throws(t, "unseen") \/ Completes(t)
  BY <1>1, <1>u, EndKeeps DEF Throws, Completes, Over
<1>2. ASSUME ~NothingToChase(run[t].one, run[t].two), NEW w \in Wordings,
             run' = [run EXCEPT ![t].step = "gate", ![t].words = w]
      PROVE  LaneIInv'
  <2> DEFINE r == [run[t] EXCEPT !.step = "gate", !.words = w]
  <2>1. run' = [run EXCEPT ![t] = r]
    BY <1>2, <1>s
  <2>2. r \in CourierRuns
    BY <1>s DEF CourierRuns
  <2>3. /\ r.step = "gate" /\ r.one = run[t].one
        /\ r.two = run[t].two /\ r.still = run[t].still
    BY <1>s DEF CourierRuns
  <2>4. run[t].one # Unread /\ run[t].two # Unread
    BY DEF Decide, Gathered
  <2>5. Warranted(run[t])
    BY <1>2, <1>s, <2>4 DEF SeenStill
  <2> HIDE DEF r
  <2>6. SeenStill(r)
    BY <2>3, <2>5 DEF SeenStill, Warranted
  <2>7. QED BY <1>s, <1>u, <2>1, <2>2, <2>6, OnlyRuns DEF RunInOrder, LaneRun
<1>3. QED BY <1>1, <1>2 DEF Decide

(* A run that filed, or found its row, only has its card to see to. *)
LEMMA StepsTo ==
  ASSUME LaneIInv, NEW t \in Turns, run[t].step \in {"gate", "file"},
         NEW step \in {"file", "card", "heal"}
  PROVE  \E r : /\ [run EXCEPT ![t].step = step] = [run EXCEPT ![t] = r]
                /\ RunInOrder(r)
<1>s. /\ lane = "courier" /\ t \in DOMAIN run
      /\ run[t] \in CourierRuns /\ SeenStill(run[t])
  BY CourierRunIs
<1> DEFINE r == [run[t] EXCEPT !.step = step]
<1>1. [run EXCEPT ![t].step = step] = [run EXCEPT ![t] = r]
  BY <1>s
<1>2. r \in CourierRuns
  BY <1>s DEF CourierRuns, Over
<1>3. /\ r.step = step /\ r.one = run[t].one
      /\ r.two = run[t].two /\ r.still = run[t].still
  BY <1>s DEF CourierRuns
<1>4. Warranted(run[t])
  BY <1>s DEF SeenStill
<1> HIDE DEF r
<1>5. SeenStill(r)
  BY <1>3, <1>4 DEF SeenStill, Warranted
<1>6. QED BY <1>s, <1>1, <1>2, <1>5 DEF RunInOrder, LaneRun

LEMMA GateKeeps ==
  ASSUME LaneIInv, NEW t \in Turns, GateOrFile(t)
  PROVE  LaneIInv'
<1>u. UNCHANGED <<world, store>> /\ run[t].step = "gate"
  BY DEF GateOrFile, Runs
<1>1. CASE Throws(t, "mismatch") \/ Completes(t)
  BY <1>1, <1>u, EndKeeps DEF Throws, Completes, Over
<1>2. ASSUME NEW step \in {"file", "heal"}, Step(t, step)
      PROVE  LaneIInv'
  <2>1. PICK r : run' = [run EXCEPT ![t] = r] /\ RunInOrder(r)
    BY <1>2, <1>u, StepsTo DEF Step
  <2>2. QED BY <1>u, <2>1, OnlyRuns
<1>3. QED BY <1>1, <1>2 DEF GateOrFile, Replays

LEMMA FileKeeps ==
  ASSUME LaneIInv, NEW t \in Turns, FileCourierCard(t)
  PROVE  LaneIInv'
<1>s. /\ run[t].step = "file" /\ lane = "courier" /\ t \in DOMAIN run
      /\ run[t] \in CourierRuns /\ SeenStill(run[t])
  BY CourierRunIs DEF FileCourierCard, Runs
<1>u. UNCHANGED <<world, ask, report>>
  BY DEF FileCourierCard
<1>1. PICK r : run' = [run EXCEPT ![t] = r] /\ RunInOrder(r)
  <2>1. CASE \E step \in {"heal", "card"} : Step(t, step)
    BY <2>1, <1>s, StepsTo DEF Step
  <2>2. CASE Throws(t, "mismatch") \/ Completes(t)
    BY <2>2, FreshRun DEF Throws, Completes, Over
  <2>3. QED BY <2>1, <2>2 DEF FileCourierCard, Replays
<1>2. /\ run' \in [Turns -> IF lane' = "courier" THEN CourierRuns ELSE RestockRuns]
      /\ (lane = "courier" => \A u \in Turns : SeenStill(run[u]))'
      /\ (lane = "restock" => OrdersSeen)'
  BY <1>1, <1>u, OneRuns
<1>w. UNCHANGED <<lane, day, parcel, shelf, promised, ask>>
  BY <1>u DEF world
<1>d. desk \in [Dates -> [row : CardRows \cup {None}, cards : Nat]] /\ run[t].day \in Dates
  BY <1>s DEF LaneIInv, TypeOK, CourierRuns
<1>3. CASE desk' = desk
  <2>1. TypeOK'
    BY <1>w, <1>2, <1>3 DEF LaneIInv, TypeOK
  <2>2. CardIsWarranted' /\ NoInventedDate'
    BY <1>w, <1>3 DEF LaneIInv, CardIsWarranted, NoInventedDate
  <2>3. QED BY <1>2, <2>1, <2>2 DEF LaneIInv
<1>4. ASSUME NEW status \in {"prepared", "blocked"},
             desk' = [desk EXCEPT ![run[t].day].row =
                        [status |-> status, payload |-> Payload(t), still |-> run[t].still]]
      PROVE  LaneIInv'
  <2>1. PICK row : row = [status |-> status, payload |-> Payload(t), still |-> run[t].still]
    OBVIOUS
  <2>2. row \in CardRows
    BY <1>s, <2>1 DEF CardRows, CourierRuns, Payload
  <2>3. row.still \/ "dark" \in {row.payload.one, row.payload.two}
    BY <1>s, <2>1 DEF SeenStill, Warranted, Payload
  <2>4. ASSUME NEW d \in Dates
        PROVE  /\ desk'[d] \in [row : CardRows \cup {None}, cards : Nat]
               /\ desk'[d].row = IF d = run[t].day THEN row ELSE desk[d].row
    BY <1>4, <1>d, <2>1, <2>2
  <2>5. desk' \in [Dates -> [row : CardRows \cup {None}, cards : Nat]]
    BY <1>4, <1>d, <2>4
  <2>6. TypeOK'
    BY <1>w, <1>2, <2>5 DEF LaneIInv, TypeOK
  <2>7. CardIsWarranted'
    BY <1>d, <2>3, <2>4, <2>5 DEF LaneIInv, CardIsWarranted
  <2>8. NoInventedDate'
    BY <1>w DEF LaneIInv, NoInventedDate
  <2>9. QED BY <1>2, <2>6, <2>7, <2>8 DEF LaneIInv
<1>5. QED BY <1>3, <1>4 DEF FileCourierCard

LEMMA CardKeeps ==
  ASSUME LaneIInv, NEW t \in Turns, AddCard(t)
  PROVE  LaneIInv'
<1>s. /\ run[t].step \in {"card", "heal"} /\ lane = "courier" /\ t \in DOMAIN run
      /\ run[t] \in CourierRuns /\ SeenStill(run[t])
  BY CourierRunIs DEF AddCard, Runs
<1>u. UNCHANGED <<world, ask, report>>
  BY DEF AddCard
<1>1. PICK r : run' = [run EXCEPT ![t] = r] /\ RunInOrder(r)
  BY FreshRun DEF AddCard, Completes, Over
<1>2. /\ run' \in [Turns -> IF lane' = "courier" THEN CourierRuns ELSE RestockRuns]
      /\ (lane = "courier" => \A u \in Turns : SeenStill(run[u]))'
      /\ (lane = "restock" => OrdersSeen)'
  BY <1>1, <1>u, OneRuns
<1>w. UNCHANGED <<lane, day, parcel, shelf, promised, ask>>
  BY <1>u DEF world
<1>d. desk \in [Dates -> [row : CardRows \cup {None}, cards : Nat]] /\ run[t].day \in Dates
  BY <1>s DEF LaneIInv, TypeOK, CourierRuns
<1>3. \/ desk' = desk
      \/ desk' = [desk EXCEPT ![run[t].day].cards = AddDecision(@)]
  BY DEF AddCard
<1>4. /\ desk' \in [Dates -> [row : CardRows \cup {None}, cards : Nat]]
      /\ \A d \in Dates : desk'[d].row = desk[d].row
  <2>1. desk[run[t].day] \in [row : CardRows \cup {None}, cards : Nat]
    BY <1>d
  <2>2. AddDecision(desk[run[t].day].cards) \in Nat
    BY <2>1 DEF AddDecision
  <2> HIDE DEF AddDecision
  <2>3. QED BY <1>d, <1>3, <2>1, <2>2
<1>5. TypeOK'
  BY <1>w, <1>2, <1>4 DEF LaneIInv, TypeOK
<1>6. CardIsWarranted' /\ NoInventedDate'
  BY <1>w, <1>d, <1>4 DEF LaneIInv, CardIsWarranted, NoInventedDate
<1>7. QED BY <1>2, <1>5, <1>6 DEF LaneIInv

-----------------------------------------------------------------------------
(* The restock lane. *)

LEMMA RestockRunIs ==
  ASSUME LaneIInv, NEW t \in Turns, run[t].step \in {"case", "supply", "report"}
  PROVE  /\ lane = "restock" /\ t \in DOMAIN run
         /\ run[t] \in RestockRuns /\ SupplySeen(run[t])
BY RunIs DEF RunInOrder, LaneRun, CourierRuns, Over

LEMMA CaseKeeps ==
  ASSUME LaneIInv, NEW t \in Turns, ReadCase(t)
  PROVE  LaneIInv'
<1>s. /\ run[t].step = "case" /\ lane = "restock" /\ t \in DOMAIN run
      /\ run[t] \in RestockRuns /\ SupplySeen(run[t])
  BY RestockRunIs DEF ReadCase, Runs
<1>u. UNCHANGED <<world, store>>
  BY DEF ReadCase
<1>1. CASE Completes(t)
  BY <1>1, <1>u, EndKeeps DEF Completes, Over
<1>2. CASE run' = [run EXCEPT ![t].step = "supply", ![t].facts = ToSet(ask.facts)]
  <2> DEFINE r == [run[t] EXCEPT !.step = "supply", !.facts = ToSet(ask.facts)]
  <2>1. run' = [run EXCEPT ![t] = r]
    BY <1>2, <1>s
  <2>2. ToSet(ask.facts) \subseteq Facts
    BY DEF LaneIInv, TypeOK, ToSet
  <2>3. r \in RestockRuns /\ r.two = run[t].two
    BY <1>s, <2>2 DEF RestockRuns
  <2>4. SupplySeen(r)
    BY <1>s, <2>3 DEF SupplySeen
  <2>5. QED BY <1>s, <1>u, <2>1, <2>3, <2>4, OnlyRuns DEF RunInOrder, LaneRun
<1>3. QED BY <1>1, <1>2 DEF ReadCase

LEMMA SupplyKeeps ==
  ASSUME LaneIInv, NEW t \in Turns, ReadSupply(t)
  PROVE  LaneIInv'
<1>s. /\ run[t].step = "supply" /\ lane = "restock" /\ t \in DOMAIN run
      /\ run[t] \in RestockRuns /\ SupplySeen(run[t])
  BY RestockRunIs DEF ReadSupply, Runs
<1>p. shelf.stock \in BOOLEAN /\ shelf.orders \in SUBSET Orders /\ Placed(shelf.orders)
  BY <1>s DEF LaneIInv, TypeOK, OrdersSeen
<1>u. UNCHANGED <<world, store>>
  BY DEF ReadSupply
<1>1. ASSUME NEW answer \in {None, {shelf.stock}}, run' = [run EXCEPT ![t]["one"] = answer]
      PROVE  LaneIInv'
  <2> DEFINE r == [run[t] EXCEPT !.one = answer]
  <2>1. run' = [run EXCEPT ![t] = r]
    BY <1>1, <1>s DEF RestockRuns
  <2>2. answer \in {None, {TRUE}, {FALSE}}
    BY <1>1, <1>p
  <2>3. r \in RestockRuns /\ r.two = run[t].two /\ r.step = run[t].step
    BY <1>s, <2>2 DEF RestockRuns
  <2>4. SupplySeen(r)
    BY <1>s, <2>3 DEF SupplySeen
  <2>5. QED BY <1>s, <1>u, <2>1, <2>3, <2>4, OnlyRuns DEF RunInOrder, LaneRun
<1>2. ASSUME NEW answer \in {None, shelf.orders}, run' = [run EXCEPT ![t]["two"] = answer]
      PROVE  LaneIInv'
  <2> DEFINE r == [run[t] EXCEPT !.two = answer]
  <2>1. run' = [run EXCEPT ![t] = r]
    BY <1>2, <1>s DEF RestockRuns
  <2>2. answer \in {Unread, None} \cup SUBSET Orders
    BY <1>2, <1>p
  <2>3. r \in RestockRuns /\ r.two = answer
    BY <1>s, <2>2 DEF RestockRuns
  <2>4. SupplySeen(r)
    BY <1>2, <1>p, <2>3 DEF SupplySeen
  <2>5. QED BY <1>s, <1>u, <2>1, <2>3, <2>4, OnlyRuns DEF RunInOrder, LaneRun
<1>3. QED BY <1>1, <1>2 DEF ReadSupply

(* A date the position carries is that of an order that was placed, and has not passed. *)
LEMMA PositionIsPromised ==
  ASSUME NEW product, NEW orders, orders = None \/ (orders \in SUBSET Orders /\ Placed(orders)),
         NEW today \in Dates
  PROVE  LET p == SupplyPosition(product, orders, today)
         IN  p \in Positions /\ (p.date # None => p.date \in promised /\ p.date >= today)
<1> DEFINE due == {o.due : o \in OnOrder(orders)}
           first == CHOOSE d \in due : \A e \in due : d <= e
           date == DateOf(first, today)
           p == SupplyPosition(product, orders, today)
<1>1. CASE product = None \/ orders = None
  BY <1>1 DEF SupplyPosition, Positions
<1>2. CASE ~(product = None \/ orders = None) /\ TRUE \in product
  BY <1>2 DEF SupplyPosition, Positions
<1>3. CASE ~(product = None \/ orders = None) /\ TRUE \notin product
  <2>1. orders \in SUBSET Orders /\ Placed(orders)
    BY <1>3
  <2>2. due \subseteq Dates /\ due \subseteq promised
    BY <2>1 DEF OnOrder, Orders, Placed
  <2>3. CASE due = {}
    <3>1. p = [fork |-> "nothing_on_order", date |-> None]
      BY <1>3, <2>3 DEF SupplyPosition
    <3>2. QED BY <3>1 DEF Positions
  <2>4. CASE due # {}
    <3>1. due \subseteq Nat
      BY <2>2, LaneBounds DEF Dates
    <3> HIDE DEF due
    <3>2. first \in due
      BY <2>4, <3>1, LeastOfNaturals
    <3> HIDE DEF first
    <3>3. first \in Dates /\ first \in promised /\ first \in Int /\ today \in Int
      BY <2>2, <3>1, <3>2, LaneBounds DEF Dates
    <3>4. date = IF first < today THEN None ELSE first
      BY DEF DateOf
    <3>5. date \in Dates \cup {None} /\ (date # None => date \in promised /\ date >= today)
      BY <3>3, <3>4
    <3> HIDE DEF date
    <3>6. p = [fork |-> IF date = None THEN "on_order_overdue" ELSE "on_order", date |-> date]
      <4> USE DEF due, first, date
      <4>1. QED BY <1>3, <2>4 DEF SupplyPosition
    <3> HIDE DEF p
    <3>7. p \in Positions /\ p.date = date
      BY <3>5, <3>6 DEF Positions
    <3>8. QED BY <3>5, <3>7 DEF p
  <2>5. QED BY <2>3, <2>4
<1>4. QED BY <1>1, <1>2, <1>3

LEMMA FactKeeps ==
  ASSUME LaneIInv, NEW t \in Turns, WriteFact(t)
  PROVE  LaneIInv'
<1>s. /\ run[t].step = "supply" /\ lane = "restock" /\ t \in DOMAIN run
      /\ run[t] \in RestockRuns /\ SupplySeen(run[t])
  BY RestockRunIs DEF WriteFact, Runs
<1>u. UNCHANGED <<world, desk, report>>
  BY DEF WriteFact
<1>t. run[t].day \in Dates /\ run[t].two \in {Unread, None} \cup SUBSET Orders /\ run[t].two # Unread
  BY <1>s DEF RestockRuns, WriteFact, Gathered
<1>o. run[t].two = None \/ (run[t].two \in SUBSET Orders /\ Placed(run[t].two))
  BY <1>s, <1>t DEF SupplySeen
<1>1. PICK p : p = SupplyPosition(run[t].one, run[t].two, run[t].day)
  OBVIOUS
<1>2. p \in Positions /\ (p.date # None => p.date \in promised /\ p.date >= run[t].day)
  BY <1>t, <1>o, <1>1, PositionIsPromised
<1>3. PICK r : r = [NoRun EXCEPT !.step = "report", !.fact = p, !.day = run[t].day]
  OBVIOUS
<1>4. run' = [run EXCEPT ![t] = r]
  BY <1>1, <1>3 DEF WriteFact
<1>5. RunInOrder(r)
  <2>1. r \in RestockRuns /\ r.step = "report"
    BY <1>t, <1>2, <1>3 DEF RestockRuns, NoRun
  <2>2. QED BY <1>s, <2>1 DEF RunInOrder, LaneRun, SupplySeen
<1>6. /\ run' \in [Turns -> IF lane' = "courier" THEN CourierRuns ELSE RestockRuns]
      /\ (lane = "courier" => \A u \in Turns : SeenStill(run[u]))'
      /\ (lane = "restock" => OrdersSeen)'
  BY <1>4, <1>5, <1>u, OneRuns
<1>w. UNCHANGED <<lane, day, parcel, shelf, promised, desk>>
  BY <1>u DEF world
<1>7. PICK f : f = [said |-> p, on |-> run[t].day]
  OBVIOUS
<1>8. f \in Facts /\ f.said = p /\ f.on = run[t].day
  BY <1>t, <1>2, <1>7 DEF Facts
<1>9. ask \in [open : BOOLEAN, facts : Seq(Facts), many : BOOLEAN]
  BY DEF LaneIInv, TypeOK
<1>10. ask' = ask \/ ask' = [ask EXCEPT !.facts = Append(@, f)]
  BY <1>1, <1>7 DEF WriteFact
<1>11. /\ ask' \in [open : BOOLEAN, facts : Seq(Facts), many : BOOLEAN]
       /\ \A x \in ToSet(ask'.facts) : x \in ToSet(ask.facts) \/ x = f
  <2>1. CASE ask' = ask
    BY <1>9, <2>1
  <2>2. CASE ask' = [ask EXCEPT !.facts = Append(@, f)]
    <3>1. ask'.facts = Append(ask.facts, f)
      BY <1>9, <2>2
    <3>2. Append(ask.facts, f) \in Seq(Facts)
      BY <1>8, <1>9
    <3>3. \A x \in ToSet(Append(ask.facts, f)) : x \in ToSet(ask.facts) \/ x = f
      BY <1>8, <1>9 DEF ToSet
    <3>4. QED BY <1>9, <2>2, <3>1, <3>2, <3>3
  <2>3. QED BY <1>10, <2>1, <2>2
<1>12. TypeOK'
  BY <1>w, <1>6, <1>11 DEF LaneIInv, TypeOK
<1>13. NoInventedDate'
  BY <1>w, <1>2, <1>8, <1>11 DEF LaneIInv, NoInventedDate
<1>14. CardIsWarranted'
  BY <1>w DEF LaneIInv, CardIsWarranted
<1>15. QED BY <1>6, <1>12, <1>13, <1>14 DEF LaneIInv

LEMMA ReportKeeps ==
  ASSUME LaneIInv, NEW t \in Turns, FileReport(t)
  PROVE  LaneIInv'
<1>u. UNCHANGED <<world, ask, desk>>
  BY DEF FileReport
<1>1. PICK r : run' = [run EXCEPT ![t] = r] /\ RunInOrder(r)
  BY FreshRun DEF FileReport, Completes, Over
<1>2. /\ run' \in [Turns -> IF lane' = "courier" THEN CourierRuns ELSE RestockRuns]
      /\ (lane = "courier" => \A u \in Turns : SeenStill(run[u]))'
      /\ (lane = "restock" => OrdersSeen)'
  BY <1>1, <1>u, OneRuns
<1>w. UNCHANGED <<lane, day, parcel, shelf, promised, ask, desk>>
  BY <1>u DEF world
<1>3. TypeOK'
  BY <1>w, <1>2 DEF LaneIInv, TypeOK
<1>4. CardIsWarranted' /\ NoInventedDate'
  BY <1>w DEF LaneIInv, CardIsWarranted, NoInventedDate
<1>5. QED BY <1>2, <1>3, <1>4 DEF LaneIInv

-----------------------------------------------------------------------------
(* The world moves on while the attempts stand still. *)

(* What the world may do to what the attempts have read. *)
LEMMA WorldKeeps ==
  ASSUME LaneIInv, UNCHANGED <<lane, run, desk, report>>,
         day' \in Dates,
         parcel' \in [over : BOOLEAN, scan : {"none", "old", "recent"}],
         lane = "courier" => \A u \in Turns : SeenStill(run[u])',
         shelf' \in [stock : BOOLEAN, orders : SUBSET Orders],
         lane = "restock" => Placed(shelf.orders)',
         promised \subseteq promised',
         ask' \in [open : BOOLEAN, facts : Seq(Facts), many : BOOLEAN], ask'.facts = ask.facts
  PROVE  LaneIInv'
<1>1. TypeOK'
  BY DEF LaneIInv, TypeOK
<1>2. ASSUME lane = "restock"
      PROVE  OrdersSeen'
  BY <1>2 DEF LaneIInv, OrdersSeen, Placed
<1>3. CardIsWarranted' /\ NoInventedDate'
  BY DEF LaneIInv, CardIsWarranted, NoInventedDate
<1>4. QED BY <1>1, <1>2, <1>3 DEF LaneIInv

LEMMA WorldIs ==
  ASSUME LaneIInv
  PROVE  /\ lane \in {"courier", "restock"} /\ day \in Dates
         /\ parcel \in [over : BOOLEAN, scan : {"none", "old", "recent"}]
         /\ shelf \in [stock : BOOLEAN, orders : SUBSET Orders]
         /\ ask \in [open : BOOLEAN, facts : Seq(Facts), many : BOOLEAN]
         /\ lane = "restock" => Placed(shelf.orders)
         /\ lane = "courier" => \A u \in Turns : run[u] \in CourierRuns /\ SeenStill(run[u])
BY DEF LaneIInv, TypeOK, OrdersSeen

(* What stands on the parcel alone stands while the parcel does. *)
LEMMA ParcelStands ==
  ASSUME LaneIInv, UNCHANGED <<run, parcel>>
  PROVE  lane = "courier" => \A u \in Turns : SeenStill(run[u])'
BY WorldIs DEF SeenStill

LEMMA DayKeeps ==
  ASSUME LaneIInv, DayPasses, UNCHANGED <<run, desk, report>>
  PROVE  LaneIInv'
<1>1. /\ UNCHANGED <<lane, run, desk, report, shelf, promised, ask>>
      /\ \A t \in Turns : run[t].step = "read" => (run[t].one = Unread <=> run[t].two = Unread)
      /\ day' = day + 1 /\ day < LastDay
  BY DEF DayPasses, Runs
<1>2. day' \in Dates
  BY <1>1, WorldIs, LaneBounds DEF Dates
<1>3. parcel' \in [over : BOOLEAN, scan : {"none", "old", "recent"}]
  BY WorldIs DEF DayPasses
<1>4. ASSUME lane = "courier", NEW u \in Turns
      PROVE  SeenStill(run[u])'
  BY <1>1, <1>4, WorldIs, UnreadIsNoAnswer DEF SeenStill
<1>5. (lane = "restock" => Placed(shelf.orders)') /\ promised \subseteq promised'
  BY <1>1, WorldIs DEF Placed
<1>6. QED BY <1>1, <1>2, <1>3, <1>4, <1>5, WorldIs, WorldKeeps

LEMMA MoveKeeps ==
  ASSUME LaneIInv, ParcelMoves, UNCHANGED <<run, desk, report>>
  PROVE  LaneIInv'
<1>1. /\ UNCHANGED <<lane, day, run, desk, report, shelf, promised, ask>>
      /\ parcel' \in [over : BOOLEAN, scan : {"none", "old", "recent"}]
      /\ parcel'.scan = "recent" /\ ~parcel.over
  BY DEF ParcelMoves
<1>2. ASSUME lane = "courier", NEW u \in Turns
      PROVE  SeenStill(run[u])'
  BY <1>1, <1>2, WorldIs DEF SeenStill
<1>3. (lane = "restock" => Placed(shelf.orders)') /\ promised \subseteq promised'
  BY <1>1, WorldIs DEF Placed
<1>4. QED BY <1>1, <1>2, <1>3, WorldIs, WorldKeeps

(* A shelf whose placed orders' dates were promised. *)
LEMMA ShelfKeeps ==
  ASSUME LaneIInv, UNCHANGED <<lane, day, parcel, ask, run, desk, report>>,
         shelf' \in [stock : BOOLEAN, orders : SUBSET Orders],
         lane = "restock" => Placed(shelf.orders)', promised \subseteq promised'
  PROVE  LaneIInv'
BY WorldIs, ParcelStands, WorldKeeps

LEMMA DraftKeeps ==
  ASSUME LaneIInv, DraftOrder, UNCHANGED <<run, desk, report>>
  PROVE  LaneIInv'
<1>1. PICK date \in Dates :
        shelf' = [shelf EXCEPT !.orders = @ \cup {[status |-> "draft", due |-> date]}]
  BY DEF DraftOrder
<1>2. shelf' \in [stock : BOOLEAN, orders : SUBSET Orders]
  BY <1>1, WorldIs DEF Orders
<1>3. shelf'.orders = shelf.orders \cup {[status |-> "draft", due |-> date]}
  BY <1>1, WorldIs
<1>4. lane = "restock" /\ promised' = promised
  BY DEF DraftOrder
<1>5. Placed(shelf.orders)'
  BY <1>3, <1>4, WorldIs DEF Placed
<1>6. QED BY <1>2, <1>4, <1>5, ShelfKeeps DEF DraftOrder

LEMMA PlaceKeeps ==
  ASSUME LaneIInv, PlaceOrder, UNCHANGED <<run, desk, report>>
  PROVE  LaneIInv'
<1>1. PICK o \in shelf.orders :
        /\ shelf' = [shelf EXCEPT !.orders = (@ \ {o}) \cup {[o EXCEPT !.status = "placed"]}]
        /\ promised' = promised \cup {o.due}
  BY DEF PlaceOrder
<1>2. PICK p : p = [o EXCEPT !.status = "placed"]
  OBVIOUS
<1>3. p \in Orders /\ p.due = o.due
  BY <1>1, <1>2, WorldIs DEF Orders
<1>4. shelf'.orders = (shelf.orders \ {o}) \cup {p}
  BY <1>1, <1>2, WorldIs
<1>5. shelf' \in [stock : BOOLEAN, orders : SUBSET Orders]
  BY <1>1, <1>2, <1>3, WorldIs
<1>6. lane = "restock" => Placed(shelf.orders)'
  BY <1>1, <1>3, <1>4, WorldIs DEF Placed
<1>7. promised \subseteq promised'
  BY <1>1
<1>8. QED BY <1>5, <1>6, <1>7, ShelfKeeps DEF PlaceOrder

LEMMA EndsKeeps ==
  ASSUME LaneIInv, OrderEnds, UNCHANGED <<run, desk, report>>
  PROVE  LaneIInv'
<1>1. PICK o \in shelf.orders, arrived \in BOOLEAN :
        shelf' = [stock |-> arrived, orders |-> shelf.orders \ {o}]
  BY DEF OrderEnds
<1>2. /\ shelf' \in [stock : BOOLEAN, orders : SUBSET Orders]
      /\ shelf'.orders = shelf.orders \ {o} /\ promised' = promised
  BY <1>1, WorldIs DEF OrderEnds
<1>3. lane = "restock" => Placed(shelf.orders)'
  BY <1>2, WorldIs DEF Placed
<1>4. QED BY <1>2, <1>3, ShelfKeeps DEF OrderEnds

LEMMA CaseEndsKeeps ==
  ASSUME LaneIInv, CaseEnds, UNCHANGED <<run, desk, report>>
  PROVE  LaneIInv'
<1>1. UNCHANGED <<lane, day, parcel, shelf, promised, run, desk, report>>
  BY DEF CaseEnds, world
<1>2. /\ ask' \in [open : BOOLEAN, facts : Seq(Facts), many : BOOLEAN]
      /\ ask'.facts = ask.facts
  BY WorldIs DEF CaseEnds
<1>3. (lane = "restock" => Placed(shelf.orders)') /\ promised \subseteq promised'
  BY <1>1, WorldIs DEF Placed
<1>4. QED BY <1>1, <1>2, <1>3, WorldIs, ParcelStands, WorldKeeps

LEMMA LaneKeeps ==
  ASSUME LaneIInv, Next
  PROVE  LaneIInv'
<1>1. CASE World /\ UNCHANGED <<run, desk, report>>
  BY <1>1, DayKeeps, MoveKeeps, DraftKeeps, PlaceKeeps, EndsKeeps, CaseEndsKeeps DEF World
<1>2. ASSUME NEW t \in Turns,
             \/ Begin(t) \/ Dies(t)
             \/ GatherParcel(t) \/ Decide(t) \/ GateOrFile(t) \/ FileCourierCard(t) \/ AddCard(t)
             \/ ReadCase(t) \/ ReadSupply(t) \/ WriteFact(t) \/ FileReport(t)
      PROVE  LaneIInv'
  BY <1>2, BeginKeeps, DiesKeeps, GatherKeeps, DecideKeeps, GateKeeps, FileKeeps, CardKeeps,
     CaseKeeps, SupplyKeeps, FactKeeps, ReportKeeps
<1>3. QED BY <1>1, <1>2 DEF Next

LEMMA LaneStarts ==
  ASSUME Init
  PROVE  LaneIInv
<1>1. lane \in {"courier", "restock"} /\ day \in Dates
  BY LaneBounds DEF Init, Dates
<1>2. NoRun \in CourierRuns /\ NoRun \in RestockRuns /\ RunInOrder(NoRun)
  <2>1. NoRun \in CourierRuns /\ NoRun \in RestockRuns /\ NoRun.step = "planned"
    BY <1>1, LaneBounds DEF NoRun, CourierRuns, RestockRuns, Dates
  <2>2. QED BY <2>1 DEF RunInOrder, LaneRun, SeenStill, SupplySeen
<1>3. run = [t \in Turns |-> NoRun]
  BY DEF Init
<1>4. desk \in [Dates -> [row : CardRows \cup {None}, cards : Nat]]
  BY DEF Init, Dates
<1>5. /\ parcel \in [over : BOOLEAN, scan : {"none", "old", "recent"}]
      /\ shelf \in [stock : BOOLEAN, orders : SUBSET Orders] /\ shelf.orders = {}
      /\ ask \in [open : BOOLEAN, facts : Seq(Facts), many : BOOLEAN] /\ ask.facts = <<>>
  <2>1. parcel \in [over : BOOLEAN, scan : {"none", "old", "recent"}]
    BY DEF Init
  <2>2. shelf \in [stock : BOOLEAN, orders : SUBSET Orders] /\ shelf.orders = {}
    BY DEF Init
  <2>3. <<>> \in Seq(Facts)
    OBVIOUS
  <2>4. ask \in [open : BOOLEAN, facts : Seq(Facts), many : BOOLEAN] /\ ask.facts = <<>>
    BY <2>3 DEF Init
  <2>5. QED BY <2>1, <2>2, <2>4
<1>6. TypeOK
  BY <1>1, <1>2, <1>3, <1>4, <1>5 DEF TypeOK
<1>7. lane = "courier" => \A t \in Turns : SeenStill(run[t])
  BY <1>2, <1>3 DEF RunInOrder
<1>8. lane = "restock" => OrdersSeen
  BY <1>2, <1>3, <1>5 DEF RunInOrder, SupplySeen, OrdersSeen, Placed
<1>9. CardIsWarranted
  BY DEF Init, CardIsWarranted
<1>10. NoInventedDate
  BY <1>5 DEF NoInventedDate, ToSet
<1>11. QED BY <1>6, <1>7, <1>8, <1>9, <1>10 DEF LaneIInv

-----------------------------------------------------------------------------
(* The router between them: the half a job is not for stands still. *)

LEMMA StillLanes ==
  ASSUME LaneIInv, UNCHANGED vars
  PROVE  LaneIInv'
<1>1. UNCHANGED <<lane, day, parcel, shelf, promised, run, ask, desk, report>>
  BY DEF vars, world, store
<1>2. QED BY <1>1
     DEF LaneIInv, TypeOK, OrdersSeen, Placed, SeenStill, CardIsWarranted, NoInventedDate

LEMMA StillFollowUps ==
  ASSUME FollowUpIInv, UNCHANGED followUpVars
  PROVE  FollowUpIInv'
<1>1. UNCHANGED <<job, turnMode, owedOn, ledger, handed, attempt>>
  BY DEF followUpVars, ledgers
<1>2. (Owed' <=> Owed) /\ Plan' = Plan
  BY <1>1 DEF Owed, IsOpen, Plan
<1>3. QED BY <1>1, <1>2 DEF FollowUpIInv, FollowUpTypes, DebtOK

(***************************************************************************)
(* What every job of the router's keeps, whichever lane it is for: the     *)
(* invariants of the two halves are inductive (router.ts, routeJob;        *)
(* turn.ts; lanes/courier-intervention.ts; lanes/restock-check.ts).        *)
(***************************************************************************)
THEOREM Inductive == JobSpec => [](LaneIInv /\ FollowUpIInv)
<1>1. JobInit => LaneIInv /\ FollowUpIInv
  BY LaneStarts, FollowUpStarts DEF JobInit
<1>2. LaneIInv /\ FollowUpIInv /\ [JobNext]_<<vars, followUpVars>> => (LaneIInv /\ FollowUpIInv)'
  <2> SUFFICES ASSUME LaneIInv, FollowUpIInv, [JobNext]_<<vars, followUpVars>>
               PROVE  LaneIInv' /\ FollowUpIInv'
    OBVIOUS
  <2>1. CASE Next /\ UNCHANGED followUpVars
    BY <2>1, LaneKeeps, StillFollowUps
  <2>2. CASE FollowUpNext /\ UNCHANGED vars
    BY <2>2, FollowUpKeeps, StillLanes
  <2>3. CASE UNCHANGED <<vars, followUpVars>>
    BY <2>3, StillLanes, StillFollowUps
  <2>4. QED BY <2>1, <2>2, <2>3 DEF JobNext
<1>3. QED BY <1>1, <1>2, PTL DEF JobSpec

(***************************************************************************)
(* The founder is called only about a parcel that stood still when a run   *)
(* looked, or that a read could not be answered about                      *)
(* (lanes/courier-intervention.ts, NOTHING_TO_CHASE).                      *)
(***************************************************************************)
THEOREM Warrants == JobSpec => []CardIsWarranted
<1>1. LaneIInv => CardIsWarranted
  BY DEF LaneIInv
<1>2. QED BY <1>1, Inductive, PTL

(***************************************************************************)
(* No date is made up: what a case may quote is the date of an order that  *)
(* was placed, and had not passed (lanes/restock-check.ts).                *)
(***************************************************************************)
THEOREM HonestDates == JobSpec => []NoInventedDate
<1>1. LaneIInv => NoInventedDate
  BY DEF LaneIInv
<1>2. QED BY <1>1, Inductive, PTL

(***************************************************************************)
(* A debt any look saw is paid on the thread it is owed on, however the    *)
(* page is cut and the ledger moves (router.ts; turn.ts).                  *)
(***************************************************************************)
THEOREM RightThread == JobSpec => []PaidWhereOwed
<1>1. FollowUpIInv => PaidWhereOwed
  <2> SUFFICES ASSUME FollowUpIInv, NEW t \in Leases,
                      At(t, "words"), job.promise = {Debt}, owedOn # job.thread
               PROVE  attempt[t].looks = {"unseen"}
    BY DEF PaidWhereOwed
  <2>1. attempt[t].looks \subseteq {"seen", "unseen"} /\ InOrder(attempt[t])
    BY AttemptIs DEF Attempts
  <2>2. QED BY <2>1 DEF InOrder, At
<1>2. QED BY <1>1, Inductive, PTL

(***************************************************************************)
(* An open debt is never closed as nothing to pay, nor by a silence        *)
(* (router.ts, promiseStillOpen; dispatcher.ts, performJob).               *)
(***************************************************************************)
THEOREM DebtsStand == JobSpec => []NoDebtDropped
<1>1. FollowUpIInv => NoDebtDropped
  BY DEF FollowUpIInv, DebtOK, NoDebtDropped, At
<1>2. QED BY <1>1, Inductive, PTL

-----------------------------------------------------------------------------
(* Cadence. *)

(* A set of times up to some time has a latest. *)
LEMMA LatestIs ==
  ASSUME NEW S, S \subseteq Int, S # {}, NEW top \in Int, \A x \in S : x <= top
  PROVE  Max(S) \in S /\ \A x \in S : x <= Max(S)
<1> DEFINE T == {top - x : x \in S}
<1>0. \A x \in S : x \in Int /\ top - x \in Nat
  OBVIOUS
<1>1. T \subseteq Nat /\ T # {}
  BY <1>0
<1>2. PICK t \in T : \A y \in T : t <= y
  BY <1>1, LeastOfNaturals
<1>3. PICK x \in S : t = top - x
  BY <1>2
<1>4. \A y \in S : x >= y
  <2>1. TAKE y \in S
  <2>2. top - y \in T
    OBVIOUS
  <2>3. top - x <= top - y /\ x \in Int /\ y \in Int
    BY <1>2, <1>3, <2>2
  <2>4. QED BY <2>3
<1>5. Max(S) \in S /\ \A y \in S : Max(S) >= y
  BY <1>4 DEF Max
<1>6. QED BY <1>5

-----------------------------------------------------------------------------
(* The clocks of a zone. *)

Zones == [base : Bases, moves : {"forward", "back", "not"}]

(* A zone has two offsets, an hour apart, and changes from one to the other once. *)
LEMMA OffsetIs ==
  ASSUME zone \in Zones, NEW u \in Int
  PROVE  /\ zone.base \in Int /\ Hour \in Nat /\ Changes \in Int
         /\ Offset(u) \in {zone.base, zone.base + Hour} /\ Civil(u) \in Int /\ Civil(u) = u + Offset(u)
         /\ zone.moves = "forward" => Offset(u) = IF u < Changes THEN zone.base ELSE zone.base + Hour
         /\ zone.moves = "back" => Offset(u) = IF u < Changes THEN zone.base + Hour ELSE zone.base
         /\ zone.moves = "not" => Offset(u) = zone.base
<1>1. zone.base \in Int /\ Hour \in Nat /\ Changes \in Int
  BY CadenceBounds DEF Zones
<1>2. zone.moves \in {"forward", "back", "not"}
  BY DEF Zones
<1>3. /\ zone.moves = "forward" => Offset(u) = IF u < Changes THEN zone.base ELSE zone.base + Hour
      /\ zone.moves = "back" => Offset(u) = IF u < Changes THEN zone.base + Hour ELSE zone.base
      /\ zone.moves = "not" => Offset(u) = zone.base
  BY <1>1 DEF Offset
<1>4. Offset(u) \in {zone.base, zone.base + Hour}
  BY <1>2, <1>3
<1>5. QED BY <1>1, <1>3, <1>4 DEF Civil

(* Four guesses settle on an instant of that local time, if there is one. *)
LEMMA CivilToUtcIs ==
  ASSUME zone \in Zones, NEW civil \in Int
  PROVE  /\ CivilToUtc(civil) \subseteq Int
         /\ \A u, v \in CivilToUtc(civil) : u = v /\ Civil(u) = civil
         /\ (\E u \in Int : Civil(u) = civil) => CivilToUtc(civil) # {}
<1> DEFINE better(guess) == civil - Offset(guess)
           A == civil - zone.base
           B == civil - (zone.base + Hour)
           last == better(better(better(better(civil))))
<1>1. A \in Int /\ B \in Int /\ B <= A /\ zone.base \in Int /\ Hour \in Nat /\ Changes \in Int
  BY OffsetIs
<1>2. \A u \in Int : better(u) \in {A, B}
  BY OffsetIs
<1>3. better(civil) \in {A, B}
  BY <1>2
<1>4. better(A) \in {A, B} /\ better(B) \in {A, B}
  BY <1>1, <1>2
<1>5. last \in {A, B}
  BY <1>3, <1>4
<1>6. CivilToUtc(civil) = {u \in {last} : Civil(u) = civil}
  BY DEF CivilToUtc
<1>7. ASSUME NEW u \in Int, Civil(u) = civil PROVE u \in {A, B} /\ better(u) = u
  BY <1>7, <1>1, OffsetIs
<1>8. \A u \in Int : better(u) = u => Civil(u) = civil
  BY <1>1, OffsetIs
<1>9. ASSUME NEW u \in Int, Civil(u) = civil PROVE Civil(last) = civil
  <2>1. zone.moves \in {"forward", "back", "not"}
    BY DEF Zones
  <2>2. zone.moves = "not" => better(A) = A /\ better(B) = A
    BY <1>1, OffsetIs
  <2>3. zone.moves = "back" =>
          /\ better(A) = IF A < Changes THEN B ELSE A
          /\ better(B) = IF B < Changes THEN B ELSE A
    BY <1>1, OffsetIs
  <2>4. zone.moves = "forward" =>
          /\ better(A) = IF A < Changes THEN A ELSE B
          /\ better(B) = IF B < Changes THEN A ELSE B
    BY <1>1, OffsetIs
  <2>5. better(u) = u /\ u \in {A, B}
    BY <1>7, <1>9
  <2> HIDE DEF better, A, B
  <2>6. CASE zone.moves = "not"
    <3>1. last = A
      BY <1>3, <2>2, <2>6
    <3>2. QED BY <1>1, <1>8, <2>2, <2>6, <3>1
  <2>7. CASE zone.moves = "back"
    <3>1. better(last) = last
      BY <1>1, <1>3, <2>3, <2>7
    <3>2. QED BY <1>1, <1>5, <1>8, <3>1
  <2>8. CASE zone.moves = "forward"
    <3>1. better(last) = last
      BY <1>1, <1>3, <2>4, <2>5, <2>8
    <3>2. QED BY <1>1, <1>5, <1>8, <3>1
  <2>9. QED BY <2>1, <2>6, <2>7, <2>8
<1>10. last \in Int
  BY <1>1, <1>5
<1> HIDE DEF last
<1>11. QED BY <1>6, <1>9, <1>10

(* Two instants of one local time are an hour apart, about the change of the clocks. *)
LEMMA RepeatedIs ==
  ASSUME zone \in Zones, NEW u \in Int, NEW v \in Int
  PROVE  /\ Civil(u) = Civil(v) /\ u < v =>
              zone.moves = "back" /\ v = u + Hour /\ u < Changes /\ v >= Changes
         /\ u < v /\ Civil(u) > Civil(v) =>
              zone.moves = "back" /\ u < Changes /\ v >= Changes /\ v < u + Hour /\ Civil(u + Hour) = Civil(u)
         /\ zone.moves # "back" /\ u <= v => Civil(u) <= Civil(v) /\ Civil(v) - Civil(u) <= v - u + Hour
         /\ u <= v => Civil(v) - Civil(u) <= v - u + Hour
<1>1. u + Hour \in Int
  BY OffsetIs
<1>2. zone.moves \in {"forward", "back", "not"}
  BY DEF Zones
<1>3. /\ Civil(u) = u + Offset(u) /\ Civil(v) = v + Offset(v) /\ Civil(u + Hour) = (u + Hour) + Offset(u + Hour)
      /\ zone.base \in Int /\ Hour \in Nat /\ Changes \in Int
  BY <1>1, OffsetIs
<1>4. CASE zone.moves = "forward"
  <2>1. /\ Offset(u) = IF u < Changes THEN zone.base ELSE zone.base + Hour
        /\ Offset(v) = IF v < Changes THEN zone.base ELSE zone.base + Hour
    BY <1>4, OffsetIs
  <2>2. QED BY <1>3, <1>4, <2>1
<1>5. CASE zone.moves = "not"
  <2>1. Offset(u) = zone.base /\ Offset(v) = zone.base
    BY <1>5, OffsetIs
  <2>2. QED BY <1>3, <1>5, <2>1
<1>6. CASE zone.moves = "back"
  <2>1. /\ Offset(u) = IF u < Changes THEN zone.base + Hour ELSE zone.base
        /\ Offset(v) = IF v < Changes THEN zone.base + Hour ELSE zone.base
        /\ Offset(u + Hour) = IF u + Hour < Changes THEN zone.base + Hour ELSE zone.base
    BY <1>1, <1>6, OffsetIs
  <2>2. QED BY <1>3, <1>6, <2>1
<1>7. QED BY <1>2, <1>4, <1>5, <1>6

-----------------------------------------------------------------------------
(* What a claim leaves. *)

RowsOK ==
  /\ zone \in Zones
  /\ rows \subseteq Int
  /\ \A u \in rows : u \in CivilToUtc(Civil(u))

Served(at, cadence, table) ==
  LET owed == Settled(at, cadence)
      latest == Civil(Max(owed))
  IN owed # {} =>
       \E r \in table :
          \/ Civil(r) = latest
          \/ Civil(r) > latest /\ ComesAgain(Civil(r), at)

ComeTimes(cadence, at) ==
  {civil \in (Civil(at) - LookBack)..Civil(at) : Matches(cadence, civil) /\ \E u \in CivilToUtc(civil) : u <= at}

(* What the search back through the days comes to. *)
LEMMA OccurrenceIs ==
  ASSUME zone \in Zones, NEW cadence, NEW at \in Int
  PROVE  LET times == ComeTimes(cadence, at)
         IN  /\ times # {} => /\ Max(times) \in times /\ \A x \in times : x <= Max(times)
             /\ LastOccurrence(cadence, at) = IF times = {} THEN {} ELSE CivilToUtc(Max(times))
<1> DEFINE times == ComeTimes(cadence, at)
<1>1. Civil(at) \in Int /\ LookBack \in Nat
  BY OffsetIs, CadenceBounds
<1>2. times \subseteq Int /\ \A x \in times : x <= Civil(at)
  BY <1>1 DEF ComeTimes
<1>3. times # {} => Max(times) \in times /\ \A x \in times : x <= Max(times)
  BY <1>1, <1>2, LatestIs
<1>4. LastOccurrence(cadence, at) = IF times = {} THEN {} ELSE CivilToUtc(Max(times))
  BY DEF LastOccurrence, ComeTimes
<1>5. QED BY <1>3, <1>4

(* An occurrence is the instant its own local time stands for. *)
LEMMA OccurrenceOK ==
  ASSUME zone \in Zones, NEW cadence, NEW at \in Int, NEW u \in LastOccurrence(cadence, at)
  PROVE  u \in Int /\ u \in CivilToUtc(Civil(u))
<1> DEFINE top == Max(ComeTimes(cadence, at))
<1>1. u \in CivilToUtc(top) /\ top \in ComeTimes(cadence, at)
  BY OccurrenceIs
<1>2. top \in Int
  BY <1>1, OffsetIs, CadenceBounds DEF ComeTimes
<1>3. u \in Int /\ Civil(u) = top
  BY <1>1, <1>2, CivilToUtcIs
<1>4. QED BY <1>1, <1>3

(* What a claim files serves the latest local time the cadence owes. *)
LEMMA ClaimServes ==
  ASSUME zone \in Zones, NEW cadence, NEW at \in Int
  PROVE  Served(at, cadence, LastOccurrence(cadence, at))
<1> DEFINE owed == Settled(at, cadence)
           m == Max(owed)
           times == ComeTimes(cadence, at)
<1>0. LookBack \in Nat /\ Hour \in Nat
  BY CadenceBounds
<1> SUFFICES ASSUME owed # {}
             PROVE  \E r \in LastOccurrence(cadence, at) :
                       Civil(r) = Civil(m) \/ (Civil(r) > Civil(m) /\ ComesAgain(Civil(r), at))
  BY DEF Served
<1>1. owed \subseteq Int /\ \A u \in owed : u <= at
  BY <1>0 DEF Settled
<1>2. m \in owed /\ \A u \in owed : u <= m
  BY <1>1, LatestIs
<1>3. /\ m \in Int /\ m <= at /\ m >= at + Hour - LookBack /\ Matches(cadence, Civil(m))
      /\ \A v \in (at + 1)..(at + Hour) : Civil(v) # Civil(m)
  <2>1. m \in (at + Hour - LookBack)..at /\ Matches(cadence, Civil(m)) /\ ~ComesAgain(Civil(m), at)
    BY <1>2 DEF Settled
  <2> HIDE DEF m
  <2>2. m \in Int /\ m <= at /\ m >= at + Hour - LookBack
    BY <1>0, <2>1
  <2>3. QED BY <2>1, <2>2 DEF ComesAgain
<1> HIDE DEF m, owed
<1>4. Civil(m) <= Civil(at)
  <2>1. SUFFICES ASSUME Civil(m) > Civil(at) PROVE FALSE
    BY <1>3, OffsetIs
  <2>2. m < at
    BY <1>3, <2>1, OffsetIs
  <2>3. at < m + Hour /\ Civil(m + Hour) = Civil(m)
    BY <1>3, <2>1, <2>2, RepeatedIs
  <2>4. m + Hour \in (at + 1)..(at + Hour)
    BY <1>0, <1>3, <2>3
  <2>5. QED BY <1>3, <2>3, <2>4
<1>5. Civil(m) >= Civil(at) - LookBack
  <2>1. Civil(at) - Civil(m) <= at - m + Hour
    BY <1>3, RepeatedIs
  <2>2. Civil(at) \in Int /\ Civil(m) \in Int
    BY <1>3, OffsetIs
  <2>3. QED BY <1>0, <1>3, <2>1, <2>2
<1>6. PICK u \in CivilToUtc(Civil(m)) : u \in Int /\ Civil(u) = Civil(m)
  BY <1>3, OffsetIs, CivilToUtcIs
<1>7. u <= at
  <2>1. SUFFICES ASSUME u > at PROVE FALSE
    BY <1>6
  <2>2. u = m + Hour
    BY <1>3, <1>6, <2>1, RepeatedIs
  <2>3. u \in (at + 1)..(at + Hour)
    BY <1>0, <1>3, <1>6, <2>1, <2>2
  <2>4. QED BY <1>3, <1>6, <2>3
<1>8. Civil(m) \in times
  <2>1. Civil(m) \in (Civil(at) - LookBack)..Civil(at)
    BY <1>0, <1>3, <1>4, <1>5, OffsetIs
  <2>2. QED BY <1>3, <1>6, <1>7, <2>1 DEF ComeTimes
<1>9. /\ Max(times) \in times /\ Civil(m) <= Max(times)
      /\ LastOccurrence(cadence, at) = CivilToUtc(Max(times))
  BY <1>8, OccurrenceIs
<1>10. /\ Max(times) \in Int /\ Matches(cadence, Max(times))
       /\ \E r \in CivilToUtc(Max(times)) : r <= at
  BY <1>9, <1>0, OffsetIs DEF ComeTimes
<1>11. PICK r \in LastOccurrence(cadence, at) : r \in Int /\ r <= at /\ Civil(r) = Max(times)
  BY <1>9, <1>10, CivilToUtcIs
<1>12. ASSUME Civil(r) > Civil(m) PROVE ComesAgain(Civil(r), at)
  <2>1. SUFFICES ASSUME ~ComesAgain(Civil(r), at) PROVE FALSE
    OBVIOUS
  <2>2. Matches(cadence, Civil(r))
    BY <1>10, <1>11
  <2>3. ASSUME r > m PROVE FALSE
    <3>1. r \in (at + Hour - LookBack)..at
      BY <1>0, <1>3, <1>11, <2>3
    <3>2. r \in owed
      BY <2>1, <2>2, <3>1 DEF Settled, owed
    <3>3. QED BY <1>2, <1>3, <1>11, <2>3, <3>2
  <2>4. r < m
    BY <1>3, <1>11, <1>12, <2>3, OffsetIs
  <2>5. /\ zone.moves = "back" /\ m < r + Hour /\ Civil(r + Hour) = Civil(r)
    BY <1>3, <1>11, <1>12, <2>4, RepeatedIs
  <2>6. CASE r + Hour > at
    <3>1. r + Hour \in (at + 1)..(at + Hour)
      BY <1>0, <1>11, <2>6
    <3>2. QED BY <2>1, <2>5, <3>1 DEF ComesAgain
  <2>7. CASE r + Hour <= at
    <3>1. r + Hour \in (at + Hour - LookBack)..at
      BY <1>0, <1>3, <1>11, <2>5, <2>7
    <3>2. r + Hour \in owed
      BY <2>1, <2>2, <2>5, <3>1 DEF Settled, owed
    <3>3. QED BY <1>0, <1>2, <1>3, <1>11, <2>5, <3>2
  <2>8. QED BY <1>0, <1>11, <2>6, <2>7
<1>13. Civil(r) >= Civil(m) /\ Civil(r) \in Int /\ Civil(m) \in Int
  BY <1>3, <1>9, <1>11, OffsetIs
<1>14. QED BY <1>11, <1>12, <1>13 DEF m

-----------------------------------------------------------------------------
(* The rows, step by step. *)

RowsIInv ==
  /\ RowsOK /\ now \in Int
  /\ claimed # NoClaim => Served(claimed.at, claimed.cadence, rows)

LEMMA ServedStays ==
  ASSUME NEW at, NEW cadence, NEW few, NEW many, few \subseteq many, Served(at, cadence, few)
  PROVE  Served(at, cadence, many)
BY DEF Served

LEMMA RowsInit == CadenceInit => RowsIInv
BY DEF CadenceInit, RowsIInv, RowsOK, Zones

(* Rows are only ever added, at the instants their local times stand for. *)
LEMMA RowsNext == RowsIInv /\ [CadenceNext]_cadenceVars => RowsIInv'
<1> SUFFICES ASSUME RowsIInv, [CadenceNext]_cadenceVars PROVE RowsIInv'
  OBVIOUS
<1> USE DEF RowsIInv
<1>1. ASSUME UNCHANGED zone
      PROVE  /\ \A u : Offset(u)' = Offset(u) /\ Civil(u)' = Civil(u) /\ CivilToUtc(u)' = CivilToUtc(u)
             /\ \A at, cadence, table : Served(at, cadence, table)' = Served(at, cadence, table)
  <2>1. \A u : Offset(u)' = Offset(u)
    BY <1>1 DEF Offset
  <2>2. \A u : Civil(u)' = Civil(u)
    BY <2>1 DEF Civil
  <2>3. \A u : CivilToUtc(u)' = CivilToUtc(u)
    BY <2>1, <2>2 DEF CivilToUtc
  <2>4. \A at, cadence, table : Served(at, cadence, table)' = Served(at, cadence, table)
    BY <2>2 DEF Served, Settled, ComesAgain
  <2>5. QED BY <2>1, <2>2, <2>3, <2>4
<1>2. ASSUME UNCHANGED <<zone, rows, claimed>>, now' \in Int PROVE RowsIInv'
  BY <1>1, <1>2 DEF RowsOK
<1>3. CASE ClaimDueJobs
  <2>1. UNCHANGED <<zone, now>> /\ ExpandDueDefs
    BY <1>3 DEF ClaimDueJobs
  <2>2. CASE ~Active
    BY <1>2, <2>1, <2>2 DEF ExpandDueDefs
  <2>3. CASE Active
    <3>1. /\ rows' = rows \cup LastOccurrence(def.cadence, now)
          /\ claimed' = [at |-> now, cadence |-> def.cadence]
      BY <2>1, <2>3 DEF ExpandDueDefs
    <3>2. Served(now, def.cadence, rows')
      BY <3>1, ClaimServes, ServedStays DEF RowsOK
    <3>4. claimed'.at = now /\ claimed'.cadence = def.cadence
      BY <3>1
    <3>5. Served(claimed.at, claimed.cadence, rows)'
      BY <1>1, <2>1, <3>2, <3>4 DEF Served
    <3>6. rows' \subseteq Int /\ \A u \in rows' : u \in CivilToUtc(Civil(u))
      BY <3>1, OccurrenceOK DEF RowsOK
    <3>7. RowsOK'
      BY <1>1, <2>1, <3>6 DEF RowsOK
    <3>8. QED BY <2>1, <3>5, <3>7
  <2>4. QED BY <2>2, <2>3
<1>4. CASE UpsertJobDef
  BY <1>2, <1>4 DEF UpsertJobDef
<1>5. CASE CartAbandoned
  BY <1>2, <1>5 DEF CartAbandoned
<1>6. CASE PulseDrains
  BY <1>2, <1>6 DEF PulseDrains
<1>7. CASE Tick
  BY <1>2, <1>7 DEF Tick
<1>8. CASE UNCHANGED cadenceVars
  BY <1>2, <1>8 DEF cadenceVars
<1>9. QED BY <1>3, <1>4, <1>5, <1>6, <1>7, <1>8 DEF CadenceNext

(***************************************************************************)
(* claim-due-jobs files, for every local time the cadence owes, the latest *)
(* one, and no local time twice, in every zone and across its changes of   *)
(* the clocks.                                                             *)
(***************************************************************************)
THEOREM LatestOnce == CadenceSpec => []LatestRunsOnce
<1>1. RowsIInv => LatestRunsOnce
  <2> SUFFICES ASSUME RowsIInv PROVE LatestRunsOnce
    OBVIOUS
  <2>1. ASSUME NEW r \in rows, NEW s \in rows, Civil(r) = Civil(s) PROVE r = s
    <3>1. r \in CivilToUtc(Civil(r)) /\ s \in CivilToUtc(Civil(r)) /\ r \in Int
      BY <2>1 DEF RowsIInv, RowsOK
    <3>2. Civil(r) \in Int
      BY <3>1, OffsetIs DEF RowsIInv, RowsOK
    <3>3. QED BY <3>1, <3>2, CivilToUtcIs DEF RowsIInv, RowsOK
  <2>2. QED BY <2>1 DEF LatestRunsOnce, RowsIInv, Served
<1>2. QED BY <1>1, RowsInit, RowsNext, PTL DEF CadenceSpec

-----------------------------------------------------------------------------
(* The carts. *)

CartEvents == [at : Int, by : {"nobody", "queue", "pulse"}]

CartsIInv ==
  /\ now \in Int
  /\ carts \subseteq CartEvents
  /\ \A s \in sweeps : s.window \in Int /\ (s.leased # Never => s.leased \in Int /\ DueOf(s.window) <= s.leased)
  /\ \A c \in carts : c.by = "queue" => \E s \in sweeps : s.window = Bucket(c.at)

(* A cart's window is over before its sweep is due. *)
LEMMA BucketIs ==
  ASSUME NEW u \in Int
  PROVE  Bucket(u) \in Int /\ u < DueOf(Bucket(u))
<1>1. Window \in Nat \ {0}
  BY CadenceBounds
<1>2. u \div Window \in Int /\ u % Window \in 0..(Window - 1) /\ u = Window * (u \div Window) + (u % Window)
  BY <1>1
<1>3. (u \div Window) * Window = Window * (u \div Window) /\ Window * (u \div Window) \in Int
  BY <1>1, <1>2
<1> HIDE DEF Bucket
<1>4. QED BY <1>1, <1>2, <1>3 DEF Bucket, DueOf

LEMMA CartsInit == CadenceInit => CartsIInv
BY DEF CadenceInit, CartsIInv

LEMMA MarkedIs ==
  ASSUME carts \subseteq CartEvents, NEW some \in SUBSET Pending, NEW by \in {"queue", "pulse"}
  PROVE  /\ Processed(some, by) \subseteq CartEvents
         /\ \A c \in Processed(some, by) :
              c \in carts \/ (c.by = by /\ \E d \in some : d.at = c.at)
<1>1. ASSUME NEW c \in some
      PROVE  [c EXCEPT !.by = by] \in CartEvents /\ [c EXCEPT !.by = by].by = by /\ [c EXCEPT !.by = by].at = c.at
  BY <1>1 DEF Pending, CartEvents
<1>2. QED BY <1>1 DEF Processed

(* A cart the queue took has the sweep of its own window, leased only once due. *)
LEMMA CartsNext == CartsIInv /\ [CadenceNext]_cadenceVars => CartsIInv'
<1> SUFFICES ASSUME CartsIInv, [CadenceNext]_cadenceVars PROVE CartsIInv'
  OBVIOUS
<1> USE DEF CartsIInv
<1>1. CASE ClaimDueJobs
  <2>1. UNCHANGED now /\ carts' = Processed(Pending, "queue") /\ sweeps' \in Leased(Drained)
    BY <1>1 DEF ClaimDueJobs
  <2>2. PICK batch \in SUBSET {s \in Drained : s.leased = Never /\ DueOf(s.window) <= now} :
          sweeps' = {IF s \in batch THEN [s EXCEPT !.leased = now] ELSE s : s \in Drained}
    BY <2>1 DEF Leased
  <2>3. /\ carts' \subseteq CartEvents
        /\ \A c \in carts' : c \in carts \/ (c.by = "queue" /\ \E d \in Pending : d.at = c.at)
    BY <2>1, MarkedIs
  <2>4. ASSUME NEW s \in Drained
        PROVE  /\ s.window \in Int /\ (s.leased # Never => s.leased \in Int /\ DueOf(s.window) <= s.leased)
               /\ s \in batch => [s EXCEPT !.leased = now].window = s.window
                                 /\ [s EXCEPT !.leased = now].leased = now
    <3>1. CASE s \in sweeps
      <4>1. s.window \in Int /\ (s.leased # Never => s.leased \in Int /\ DueOf(s.window) <= s.leased)
        BY <3>1
      <4>2. s \in batch => s.leased = Never
        BY <2>2
      <4>3. QED BY <4>1
    <3>2. CASE s \notin sweeps
      <4>1. PICK c \in Pending : s = [window |-> Bucket(c.at), leased |-> Never]
        BY <3>2 DEF Drained
      <4>2. c.at \in Int
        BY DEF Pending, CartEvents
      <4>3. QED BY <4>1, <4>2, BucketIs
    <3>3. QED BY <3>1, <3>2
  <2>5. ASSUME NEW t \in sweeps'
        PROVE  t.window \in Int /\ (t.leased # Never => t.leased \in Int /\ DueOf(t.window) <= t.leased)
    <3>1. PICK s \in Drained : t = IF s \in batch THEN [s EXCEPT !.leased = now] ELSE s
      BY <2>2
    <3>2. QED BY <2>2, <2>4, <3>1
  <2>6. ASSUME NEW s \in Drained PROVE \E t \in sweeps' : t.window = s.window
    BY <2>2, <2>4
  <2>7. ASSUME NEW c \in carts', c.by = "queue" PROVE \E s \in sweeps' : s.window = Bucket(c.at)
    <3>1. CASE c \in carts
      <4>1. PICK s \in sweeps : s.window = Bucket(c.at)
        BY <2>7, <3>1
      <4>2. s \in Drained
        BY DEF Drained
      <4>3. QED BY <2>6, <4>1, <4>2
    <3>2. CASE c \notin carts
      <4>1. PICK d \in Pending : d.at = c.at
        BY <2>3, <3>2
      <4>2. \E s \in Drained : s.window = Bucket(c.at)
        <5>1. CASE Bucket(c.at) \in {s.window : s \in sweeps}
          BY <5>1 DEF Drained
        <5>2. CASE Bucket(c.at) \notin {s.window : s \in sweeps}
          <6>1. [window |-> Bucket(c.at), leased |-> Never] \in Drained
            BY <4>1, <5>2 DEF Drained
          <6>2. QED BY <6>1
        <5>3. QED BY <5>1, <5>2
      <4>3. QED BY <2>6, <4>2
    <3>3. QED BY <3>1, <3>2
  <2>8. QED BY <2>1, <2>3, <2>5, <2>7 DEF Bucket, DueOf
<1>2. CASE UpsertJobDef
  BY <1>2 DEF UpsertJobDef, Bucket, DueOf
<1>3. CASE CartAbandoned
  <2>1. carts' = carts \cup {[at |-> now, by |-> "nobody"]} /\ UNCHANGED <<now, sweeps>>
    BY <1>3 DEF CartAbandoned
  <2>2. [at |-> now, by |-> "nobody"] \in CartEvents
    BY DEF CartEvents
  <2>3. QED BY <2>1, <2>2 DEF Bucket, DueOf
<1>4. CASE PulseDrains
  <2>1. PICK c \in Pending : carts' = Processed({c}, "pulse")
    BY <1>4 DEF PulseDrains
  <2>2. UNCHANGED <<now, sweeps>>
    BY <1>4 DEF PulseDrains
  <2>3. carts' \subseteq CartEvents /\ \A d \in carts' : d \in carts \/ d.by = "pulse"
    BY <2>1, MarkedIs
  <2>4. QED BY <2>2, <2>3 DEF Bucket, DueOf
<1>5. CASE Tick
  BY <1>5 DEF Tick, Bucket, DueOf
<1>6. CASE UNCHANGED cadenceVars
  BY <1>6 DEF cadenceVars, Bucket, DueOf
<1>7. QED BY <1>1, <1>2, <1>3, <1>4, <1>5, <1>6 DEF CadenceNext

(* The sweep of a cart event the queue took is filed, and leased only after the cart was abandoned. *)
THEOREM SweepFollows == CadenceSpec => []SweepFollowsItsCarts
<1>1. CartsIInv => SweepFollowsItsCarts
  <2> SUFFICES ASSUME CartsIInv, NEW c \in carts, c.by = "queue"
               PROVE  \E s \in sweeps : s.window = Bucket(c.at) /\ (s.leased # Never => c.at < s.leased)
    BY DEF SweepFollowsItsCarts
  <2>1. c.at \in Int
    BY DEF CartsIInv, CartEvents
  <2>2. PICK s \in sweeps : s.window = Bucket(c.at)
    BY DEF CartsIInv
  <2>3. ASSUME s.leased # Never PROVE c.at < s.leased
    <3>1. s.leased \in Int /\ DueOf(Bucket(c.at)) <= s.leased
      BY <2>2, <2>3 DEF CartsIInv
    <3>2. c.at < DueOf(Bucket(c.at)) /\ DueOf(Bucket(c.at)) \in Int
      BY <2>1, BucketIs, CadenceBounds DEF DueOf
    <3>3. QED BY <2>1, <3>1, <3>2
  <2>4. QED BY <2>2, <2>3
<1>2. QED BY <1>1, CartsInit, CartsNext, PTL DEF CadenceSpec
===============================================================================
