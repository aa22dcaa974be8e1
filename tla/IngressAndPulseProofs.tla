------------------------ MODULE IngressAndPulseProofs -------------------------
(***************************************************************************)
(* What InboxIngress keeps for every number of conversations, deliveries   *)
(* and kept signatures, and every window: no stamped message is lost, and  *)
(* no copy of a delivery is run while the guard remembers it.  And what    *)
(* PulseWatch keeps for every store it may sense, and every number of      *)
(* pulses, deliveries and faults: what it calls announced was told, a      *)
(* quiet pulse hides nothing, and nothing unseen is forgotten.             *)
(***************************************************************************)
EXTENDS InboxIngress, PulseWatch, TLAPS, WellFoundedInduction

-----------------------------------------------------------------------------
(* The replay guard as a sequence. *)

Kept == [sig : Stamps, left : 0..2 * Skew]
Delivery == [of : Conversations, whole : BOOLEAN, offset : Expired..SenderAhead]

LEMMA WindowIsTime == Skew \in Nat /\ 2 * Skew \in Nat /\ Expired \in Int /\ SenderAhead \in Nat
BY IngressLimits DEF Expired

LEMMA LeastOfNaturals ==
  ASSUME NEW S, S \subseteq Nat, S # {}
  PROVE  Min(S) \in S /\ \A x \in S : Min(S) <= x
<1> DEFINE Below == {p \in Nat \X Nat : p[1] < p[2]}
<1>a. IsWellFoundedOn(Below, Nat)
  BY NatLessThanWellFounded DEF OpToRel
<1>1. PICK x \in S : \A y \in S : <<y, x>> \notin Below
  BY <1>a, WFMin
<1>2. ASSUME NEW y \in S
      PROVE  x <= y
  <2>1. x \in Nat /\ y \in Nat
    OBVIOUS
  <2>2. y < x => <<y, x>> \in Below
    BY <2>1
  <2>3. QED BY <1>1, <2>1, <2>2
<1>3. QED BY <1>2 DEF Min

(* What is kept starts at the first that has time left. *)
LEMMA FirstKeptIs ==
  ASSUME seen \in Seq(Kept)
  PROVE  /\ FirstKept \in 1..(Len(seen) + 1)
         /\ \A i \in DOMAIN seen : i < FirstKept => seen[i].left = 0
<1> DEFINE S == {i \in DOMAIN seen : seen[i].left > 0} \cup {Len(seen) + 1}
<1>1. S \subseteq Nat /\ S # {} /\ S \subseteq 1..(Len(seen) + 1)
  OBVIOUS
<1>2. Min(S) \in S /\ \A x \in S : Min(S) <= x
  BY <1>1, LeastOfNaturals
<1>3. FirstKept = Min(S)
  BY DEF FirstKept
<1>4. ASSUME NEW i \in DOMAIN seen, i < FirstKept
      PROVE  seen[i].left = 0
  <2>1. i \notin S
    <3>1. ~(Min(S) <= i)
      <4>1. i \in Nat
        OBVIOUS
      <4> HIDE DEF S
      <4>2. Min(S) \in Nat
        BY <1>1, <1>2
      <4>3. i < Min(S)
        BY <1>3, <1>4
      <4>4. QED BY <4>1, <4>2, <4>3
    <3>2. QED BY <3>1, <1>2
  <2>2. seen[i].left \in 0..2 * Skew
    <3>1. seen[i] \in Kept
      OBVIOUS
    <3>2. QED BY <3>1 DEF Kept
  <2>3. QED BY <2>1, <2>2, WindowIsTime
<1>5. QED BY <1>1, <1>2, <1>3, <1>4

LEMMA UnexpiredIs ==
  ASSUME seen \in Seq(Kept)
  PROVE  /\ Unexpired \in Seq(Kept)
         /\ Len(Unexpired) = Len(seen) + 1 - FirstKept
         /\ \A i \in 1..Len(Unexpired) :
              i + FirstKept - 1 \in DOMAIN seen /\ Unexpired[i] = seen[i + FirstKept - 1]
         /\ \A i \in DOMAIN seen : seen[i].left > 0 =>
              i - FirstKept + 1 \in 1..Len(Unexpired) /\ Unexpired[i - FirstKept + 1] = seen[i]
<1>1. FirstKept \in 1..(Len(seen) + 1) /\ \A i \in DOMAIN seen : i < FirstKept => seen[i].left = 0
  BY FirstKeptIs
<1>2. Unexpired \in Seq(Kept) /\ Len(Unexpired) = Len(seen) + 1 - FirstKept
  BY <1>1 DEF Unexpired
<1>3. \A i \in 1..Len(Unexpired) :
        i + FirstKept - 1 \in DOMAIN seen /\ Unexpired[i] = seen[i + FirstKept - 1]
  BY <1>1, <1>2 DEF Unexpired
<1>4. ASSUME NEW i \in DOMAIN seen, seen[i].left > 0
      PROVE  i - FirstKept + 1 \in 1..Len(Unexpired) /\ Unexpired[i - FirstKept + 1] = seen[i]
  <2>1. i >= FirstKept
    BY <1>1, <1>4
  <2>2. i - FirstKept + 1 \in 1..Len(Unexpired)
    BY <1>1, <1>2, <2>1
  <2>3. QED BY <1>1, <1>3, <2>2
<1>5. QED BY <1>2, <1>3, <1>4

(* What is recorded: those kept, but for the one that made room, and then the new one. *)
LEMMA RecordedIs ==
  ASSUME seen \in Seq(Kept), NEW d \in Stamps
  PROVE  /\ Recorded(d) \in Seq(Kept)
         /\ \E i \in DOMAIN Recorded(d) : Recorded(d)[i] = [sig |-> d, left |-> 2 * Skew]
         /\ \A i \in DOMAIN seen : seen[i].left > 0 /\ seen[i].sig \notin MadeRoom =>
              \E j \in DOMAIN Recorded(d) : Recorded(d)[j] = seen[i]
         /\ OldestFirst =>
              \A i, j \in DOMAIN Recorded(d) : i < j => Recorded(d)[i].left <= Recorded(d)[j].left
         /\ MadeRoom \subseteq Stamps
<1> DEFINE kept == Unexpired
           entry == [sig |-> d, left |-> 2 * Skew]
           rest == IF Len(kept) >= SeenMax THEN Tail(kept) ELSE kept
           dropped == IF Len(kept) >= SeenMax THEN 1 ELSE 0
<1>1. /\ kept \in Seq(Kept) /\ FirstKept \in Int
      /\ \A i \in 1..Len(kept) :
           i + FirstKept - 1 \in DOMAIN seen /\ kept[i] = seen[i + FirstKept - 1]
      /\ \A i \in DOMAIN seen : seen[i].left > 0 =>
           i - FirstKept + 1 \in 1..Len(kept) /\ kept[i - FirstKept + 1] = seen[i]
  BY UnexpiredIs, FirstKeptIs
<1> HIDE DEF kept
<1>2. entry \in Kept
  BY WindowIsTime DEF Kept
<1>3. Len(kept) >= SeenMax => kept # <<>>
  BY <1>1, IngressLimits
<1>4. /\ rest \in Seq(Kept) /\ Len(rest) = Len(kept) - dropped
      /\ \A i \in 1..Len(rest) : i + dropped \in 1..Len(kept) /\ rest[i] = kept[i + dropped]
  <2>1. CASE Len(kept) >= SeenMax
    BY <1>1, <1>3, <2>1
  <2>2. CASE ~(Len(kept) >= SeenMax)
    BY <1>1, <2>2
  <2>3. QED BY <2>1, <2>2
<1>5. dropped \in {0, 1}
  OBVIOUS
<1>6. Recorded(d) = Append(rest, entry) /\ MadeRoom = IF dropped = 1 THEN {Head(kept).sig} ELSE {}
  BY DEF Recorded, Remember, MadeRoom, kept
<1> DEFINE later == Append(rest, entry)
<1> HIDE DEF rest, dropped, entry
<1>7. /\ later \in Seq(Kept) /\ Len(later) = Len(rest) + 1
      /\ later[Len(rest) + 1] = entry /\ \A i \in 1..Len(rest) : later[i] = rest[i]
      /\ Len(rest) \in Nat
  BY <1>2, <1>4
<1> HIDE DEF later
<1>8. \E i \in DOMAIN later : later[i] = entry
  BY <1>7
<1>9. ASSUME NEW i \in DOMAIN seen, seen[i].left > 0, seen[i].sig \notin MadeRoom
      PROVE  \E j \in DOMAIN later : later[j] = seen[i]
  <2> DEFINE at == i - FirstKept + 1
  <2>1. at \in 1..Len(kept) /\ kept[at] = seen[i]
    BY <1>1, <1>9
  <2> HIDE DEF at
  <2>2. dropped = 1 => at # 1
    BY <1>6, <1>9, <2>1, <1>1
  <2>3. at - dropped \in 1..Len(rest) /\ rest[at - dropped] = kept[at]
    BY <1>1, <1>4, <1>5, <2>1, <2>2
  <2>4. QED BY <1>7, <2>1, <2>3
<1>10. ASSUME OldestFirst, NEW i \in DOMAIN later, NEW j \in DOMAIN later, i < j
       PROVE  later[i].left <= later[j].left
  <2>1. i \in 1..Len(rest) /\ later[i] = rest[i]
    BY <1>7, <1>10
  <2>2. CASE j = Len(rest) + 1
    <3>1. later[j].left = 2 * Skew
      BY <1>7, <2>2 DEF entry
    <3>2. later[i] \in Kept
      BY <1>4, <2>1
    <3>3. QED BY <3>1, <3>2, WindowIsTime DEF Kept
  <2>3. CASE j # Len(rest) + 1
    <3>1. j \in 1..Len(rest) /\ later[j] = rest[j]
      BY <1>7, <2>3
    <3>2. /\ i + dropped \in 1..Len(kept) /\ rest[i] = kept[i + dropped]
          /\ j + dropped \in 1..Len(kept) /\ rest[j] = kept[j + dropped]
      BY <1>4, <2>1, <3>1
    <3>3. /\ i + dropped + FirstKept - 1 \in DOMAIN seen /\ rest[i] = seen[i + dropped + FirstKept - 1]
          /\ j + dropped + FirstKept - 1 \in DOMAIN seen /\ rest[j] = seen[j + dropped + FirstKept - 1]
      BY <1>1, <3>2
    <3>4. i + dropped + FirstKept - 1 < j + dropped + FirstKept - 1
      BY <1>1, <1>5, <1>10, <2>1, <3>1
    <3>5. QED BY <1>10, <2>1, <3>1, <3>3, <3>4 DEF OldestFirst
  <2>4. QED BY <2>2, <2>3
<1>11. MadeRoom \subseteq Stamps
  <2>1. dropped = 1 => Head(kept) \in Kept
    BY <1>1, <1>3 DEF dropped
  <2>2. QED BY <1>6, <2>1 DEF Kept
<1>12. QED BY <1>6, <1>7, <1>8, <1>9, <1>10, <1>11 DEF later, entry

-----------------------------------------------------------------------------
(* A step keeps the types, the order of the guard and what dakio-api holds. *)

LEMMA InitIInv == Init => IInv
<1>1. Init => TypeOK
  BY WindowIsTime DEF Init, TypeOK
<1>2. Init => OldestFirst /\ MessageLostOnlyWithTheProcess
  BY DEF Init, OldestFirst, MessageLostOnlyWithTheProcess
<1>3. QED BY <1>1, <1>2 DEF IInv

LEMMA StampsDiffer == NoDelivery \notin Delivery
BY IngressLimits DEF Delivery, NoDelivery

LEMMA TypesAre ==
  ASSUME TypeOK
  PROVE  wire \in [Stamps -> Delivery \cup {NoDelivery}] /\ seen \in Seq(Kept)
BY DEF TypeOK, Delivery, Kept

LEMMA SendTyped ==
  ASSUME TypeOK, NEW c \in Conversations, Send(c)
  PROVE  TypeOK'
<1>1. PICK d \in Stamps, ahead \in 0..SenderAhead :
        /\ wire' = [wire EXCEPT ![d] = [of |-> c, whole |-> TRUE, offset |-> ahead]]
        /\ ran' = ran \ {d} /\ forgot' = forgot \ {d}
  BY DEF Send
<1>2. [of |-> c, whole |-> TRUE, offset |-> ahead] \in Delivery
  BY WindowIsTime, IngressLimits DEF Delivery, Expired
<1>3. wire' \in [Stamps -> Delivery \cup {NoDelivery}]
  BY <1>1, <1>2, TypesAre
<1>4. \A e \in Stamps : wire[e] # NoDelivery => wire'[e] # NoDelivery
  BY <1>1, <1>2, TypesAre, StampsDiffer
<1>5. QED BY <1>1, <1>3, <1>4 DEF TypeOK, Send, Delivery

LEMMA VanishTyped ==
  ASSUME TypeOK, NEW d \in Stamps, Vanish(d)
  PROVE  TypeOK'
<1>1. wire' \in [Stamps -> Delivery \cup {NoDelivery}]
  BY TypesAre DEF Vanish
<1>2. \A e \in Stamps : request[e] # "none" => wire'[e] # NoDelivery
  BY DEF Vanish, TypeOK
<1>3. QED BY <1>1, <1>2 DEF TypeOK, Vanish, Delivery

LEMMA WritesTyped ==
  ASSUME TypeOK, NEW c \in Conversations, CustomerWrites(c)
  PROVE  TypeOK'
<1>1. \A d \in Stamps : wire[d] # NoDelivery => wire'[d] \in Delivery
  BY TypesAre DEF CustomerWrites, Delivery
<1>2. \A d \in Stamps : wire[d] = NoDelivery => wire'[d] = NoDelivery
  <2>1. NoDelivery.of # c
    BY IngressLimits DEF NoDelivery
  <2>2. QED BY <2>1 DEF CustomerWrites
<1>3. wire' \in [Stamps -> Delivery \cup {NoDelivery}]
  BY <1>1, <1>2 DEF CustomerWrites
<1>4. \A d \in Stamps : request'[d] # "none" => wire'[d] # NoDelivery
  BY <1>1, StampsDiffer DEF CustomerWrites, TypeOK
<1>5. inbox' \in [Conversations -> {"new", "taken"}]
  BY DEF CustomerWrites, TypeOK
<1>6. last' \in [Conversations -> {"waits", "running"} \cup RowWritten]
  BY DEF CustomerWrites, TypeOK
<1>7. QED BY <1>3, <1>4, <1>5, <1>6 DEF TypeOK, CustomerWrites, Delivery

LEMMA DeliverTyped ==
  ASSUME TypeOK, NEW d \in Stamps, Deliver(d)
  PROVE  TypeOK'
<1>1. seen' \in Seq(Kept) /\ forgot' \subseteq Stamps
  BY TypesAre, RecordedIs DEF Deliver, TypeOK
<1>2. request' \in [Stamps -> {"none", "waiting", "ready"}]
  BY DEF Deliver, TypeOK
<1>3. \A e \in Stamps : request'[e] # "none" => wire'[e] # NoDelivery
  BY DEF Deliver, TypeOK
<1>4. QED BY <1>1, <1>2, <1>3 DEF TypeOK, Deliver, Kept

LEMMA NamedConversation ==
  ASSUME TypeOK, NEW d \in Stamps, Ready(d)
  PROVE  wire[d].of \in Conversations
<1>1. wire[d] \in Delivery
  BY TypesAre DEF TypeOK, Ready
<1>2. QED BY <1>1 DEF Delivery

LEMMA AcceptTyped ==
  ASSUME TypeOK, NEW d \in Stamps, Accept(d)
  PROVE  TypeOK'
<1>1. wire[d].of \in Conversations
  BY NamedConversation DEF Accept
<1>2. inbox' \in [Conversations -> {"new", "taken"}]
  BY <1>1 DEF Accept, Stamped, TypeOK
<1>3. last' \in [Conversations -> {"waits", "running"} \cup RowWritten]
  BY <1>1 DEF Accept, TypeOK
<1>4. busy' \subseteq Conversations /\ turns' \in [Conversations -> Nat] /\ ran' \subseteq Stamps
  BY <1>1 DEF Accept, TypeOK
<1>5. /\ request' \in [Stamps -> {"none", "waiting", "ready"}]
      /\ \A e \in Stamps : request'[e] # "none" => wire'[e] # NoDelivery
  BY DEF Accept, Answer, TypeOK
<1>6. UNCHANGED <<wire, seen, forgot>>
  BY DEF Accept
<1>7. QED BY <1>2, <1>3, <1>4, <1>5, <1>6 DEF TypeOK

LEMMA ServedTyped ==
  ASSUME TypeOK,
         \/ \E c \in Conversations : RunShadowTurn(c)
         \/ \E d \in Stamps, active \in BOOLEAN : Refuse(d, active)
         \/ ProfileAnswers \/ Crash
  PROVE  TypeOK'
<1>1. ASSUME NEW c \in Conversations, RunShadowTurn(c)
      PROVE  TypeOK'
  <2>1. last' \in [Conversations -> {"waits", "running"} \cup RowWritten]
    BY <1>1 DEF RunShadowTurn, TypeOK
  <2>2. turns' \in [Conversations -> Nat]
    BY <1>1 DEF RunShadowTurn, TypeOK
  <2>3. QED BY <1>1, <2>1, <2>2 DEF RunShadowTurn, TypeOK
<1>2. ASSUME NEW d \in Stamps, NEW active \in BOOLEAN, Refuse(d, active)
      PROVE  TypeOK'
  BY <1>2 DEF Refuse, Answer, AfterRefusal, TypeOK
<1>3. ProfileAnswers => TypeOK'
  BY DEF ProfileAnswers, TypeOK
<1>4. Crash => TypeOK'
  BY DEF Crash, TypeOK, RowWritten
<1>5. QED BY <1>1, <1>2, <1>3, <1>4

(* A tick takes its time from every entry of the guard. *)
LEMMA TickEntries ==
  ASSUME TypeOK, Tick
  PROVE  /\ seen' \in Seq(Kept) /\ Len(seen') = Len(seen)
         /\ \A i \in DOMAIN seen :
              /\ seen[i].left \in Nat /\ seen'[i].sig = seen[i].sig
              /\ seen'[i].left = IF seen[i].left = 0 THEN 0 ELSE seen[i].left - 1
<1>1. seen \in Seq(Kept) /\ \A i \in 1..Len(seen) : seen[i] \in Kept
  BY TypesAre
<1> DEFINE aged(entry) == [entry EXCEPT !.left = IF @ = 0 THEN 0 ELSE @ - 1]
<1>2. ASSUME NEW entry \in Kept
      PROVE  /\ aged(entry) \in Kept /\ entry.left \in Nat /\ aged(entry).sig = entry.sig
             /\ aged(entry).left = IF entry.left = 0 THEN 0 ELSE entry.left - 1
  BY WindowIsTime DEF Kept
<1>3. seen' = [i \in 1..Len(seen) |-> aged(seen[i])]
  <2>1. seen' = [i \in DOMAIN seen |-> aged(seen[i])]
    BY DEF Tick
  <2> HIDE DEF aged
  <2>2. QED BY <1>1, <2>1
<1> HIDE DEF aged
<1>4. seen' \in [1..Len(seen) -> Kept]
  BY <1>1, <1>2, <1>3
<1>5. seen' \in Seq(Kept) /\ Len(seen') = Len(seen)
  BY <1>1, <1>3, <1>4
<1>6. QED BY <1>1, <1>2, <1>3, <1>5

LEMMA TickTyped ==
  ASSUME TypeOK, Tick
  PROVE  TypeOK' /\ Len(seen') = Len(seen)
<1>1. \A d \in Stamps : wire'[d] \in Delivery \cup {NoDelivery} /\ (wire'[d] = NoDelivery => wire[d] = NoDelivery)
  <2> SUFFICES ASSUME NEW d \in Stamps
               PROVE  wire'[d] \in Delivery \cup {NoDelivery} /\ (wire'[d] = NoDelivery => wire[d] = NoDelivery)
    OBVIOUS
  <2>1. CASE wire[d] = NoDelivery \/ wire[d].offset = Expired
    BY <2>1, TypesAre DEF Tick
  <2>2. CASE wire[d] # NoDelivery /\ wire[d].offset # Expired
    <3>1. wire[d] \in Delivery
      BY <2>2, TypesAre
    <3>2. wire'[d] = [wire[d] EXCEPT !.offset = @ - 1]
      BY <2>2 DEF Tick
    <3>3. wire'[d] \in Delivery
      BY <2>2, <3>1, <3>2, WindowIsTime DEF Delivery
    <3>4. QED BY <3>3, StampsDiffer
  <2>3. QED BY <2>1, <2>2
<1>2. wire' \in [Stamps -> Delivery \cup {NoDelivery}]
  BY <1>1 DEF Tick
<1>3. seen' \in Seq(Kept) /\ Len(seen') = Len(seen)
  BY TickEntries
<1>4. QED BY <1>1, <1>2, <1>3 DEF Tick, TypeOK, Delivery, Kept

LEMMA NextTyped ==
  ASSUME TypeOK, [Next]_vars
  PROVE  TypeOK'
<1>1. CASE UNCHANGED vars
  BY <1>1 DEF vars, TypeOK
<1>2. CASE Next
  BY <1>2, SendTyped, VanishTyped, WritesTyped, DeliverTyped, AcceptTyped, ServedTyped, TickTyped DEF Next
<1>3. QED BY <1>1, <1>2

LEMMA NextOldestFirst ==
  ASSUME TypeOK, OldestFirst, [Next]_vars
  PROVE  OldestFirst'
<1>1. CASE UNCHANGED seen
  BY <1>1 DEF OldestFirst
<1>2. ASSUME NEW d \in Stamps, Deliver(d)
      PROVE  OldestFirst'
  BY <1>2, RecordedIs, TypesAre DEF Deliver, OldestFirst
<1>3. CASE Tick
  <2>1. /\ DOMAIN seen = 1..Len(seen) /\ DOMAIN seen' = DOMAIN seen
        /\ \A i \in DOMAIN seen : /\ seen[i].left \in Nat
                                  /\ seen'[i].left = IF seen[i].left = 0 THEN 0 ELSE seen[i].left - 1
    BY <1>3, TickEntries, TypesAre
  <2>2. SUFFICES ASSUME NEW i \in DOMAIN seen, NEW j \in DOMAIN seen, i < j
                 PROVE  seen'[i].left <= seen'[j].left
    BY <2>1 DEF OldestFirst
  <2>3. seen[i].left <= seen[j].left
    BY <2>2 DEF OldestFirst
  <2>4. QED BY <2>1, <2>3
<1>4. CASE Crash
  BY <1>4 DEF Crash, OldestFirst
<1>5. Next => UNCHANGED seen \/ (\E d \in Stamps : Deliver(d)) \/ Tick \/ Crash
  BY DEF Next, Send, CustomerWrites, RunShadowTurn, Vanish, Accept, Refuse, ProfileAnswers
<1>6. QED BY <1>1, <1>2, <1>3, <1>4, <1>5 DEF vars

LEMMA NextNotLost ==
  ASSUME TypeOK, MessageLostOnlyWithTheProcess, [Next]_vars
  PROVE  MessageLostOnlyWithTheProcess'
<1> SUFFICES ASSUME NEW c \in Conversations, inbox'[c] = "taken", last'[c] = "waits"
             PROVE  FALSE
  BY DEF MessageLostOnlyWithTheProcess
<1> USE DEF MessageLostOnlyWithTheProcess
<1>1. CASE UNCHANGED <<inbox, last>>
  BY <1>1
<1>2. ASSUME NEW b \in Conversations, CustomerWrites(b)
      PROVE  FALSE
  BY <1>2 DEF CustomerWrites, TypeOK
<1>3. ASSUME NEW b \in Conversations, RunShadowTurn(b)
      PROVE  FALSE
  BY <1>3 DEF RunShadowTurn, RowWritten, TypeOK
<1>4. ASSUME NEW d \in Stamps, Accept(d)
      PROVE  FALSE
  <2>1. wire[d].of \in Conversations
    BY <1>4, NamedConversation DEF Accept
  <2>2. CASE wire[d].whole
    BY <1>4, <2>1, <2>2 DEF Accept, Stamped, TypeOK
  <2>3. CASE ~wire[d].whole
    BY <1>4, <2>3 DEF Accept, Stamped, TypeOK
  <2>4. QED BY <2>2, <2>3
<1>5. CASE Crash
  BY <1>5 DEF Crash, TypeOK
<1>6. Next => \/ UNCHANGED <<inbox, last>> \/ Crash
              \/ \E b \in Conversations : CustomerWrites(b) \/ RunShadowTurn(b)
              \/ \E d \in Stamps : Accept(d)
  BY DEF Next, Send, Vanish, Deliver, Refuse, AfterRefusal, ProfileAnswers, Tick
<1>7. QED BY <1>1, <1>2, <1>3, <1>4, <1>5, <1>6 DEF vars

(***************************************************************************)
(* Whatever the network repeats or loses and wherever the process dies,    *)
(* the guard is ordered by time and what dakio-api holds for processed has *)
(* a turn or a row, or was lost with one.                                  *)
(***************************************************************************)
THEOREM Inductive == Spec => []IInv
<1>1. IInv /\ [Next]_vars => IInv'
  BY NextTyped, NextOldestFirst, NextNotLost DEF IInv
<1>2. QED BY InitIInv, <1>1, PTL DEF Spec

(***************************************************************************)
(* No refusal, no duplicate and no busy conversation loses a message that  *)
(* dakio-api has stamped processed (ingress.ts, the 202 and the 409s).     *)
(***************************************************************************)
THEOREM NotLost == Spec => []MessageLostOnlyWithTheProcess
<1>1. IInv => MessageLostOnlyWithTheProcess
  BY DEF IInv
<1>2. QED BY <1>1, Inductive, PTL

-----------------------------------------------------------------------------
(* The guard outlives the stamps of a sender that is not a whole window ahead. *)

Tolerated == SenderAhead < Skew

(* A delivery that is guarded and has not gone stale is refused. *)
LEMMA FreshIsRefused ==
  ASSUME TypeOK, NEW d \in Stamps, Guarded(d), wire[d] # NoDelivery, TimestampFresh(d)
  PROVE  d \in {r.sig : r \in ToSet(Unexpired)}
<1>1. wire[d] \in Delivery
  BY TypesAre
<1>2. wire[d].offset \in Int /\ wire[d].offset + Skew >= 0 /\ wire[d].offset # Expired
  BY <1>1, WindowIsTime DEF TimestampFresh, Delivery, Expired
<1>3. PICK i \in DOMAIN seen : seen[i].sig = d /\ seen[i].left > wire[d].offset + Skew
  BY <1>2 DEF Guarded
<1>4. seen[i] \in Kept
  BY TypesAre
<1>5. seen[i].left > 0
  BY <1>2, <1>3, <1>4, WindowIsTime DEF Kept
<1>6. i - FirstKept + 1 \in 1..Len(Unexpired) /\ Unexpired[i - FirstKept + 1] = seen[i] /\ Unexpired \in Seq(Kept)
  BY <1>5, UnexpiredIs, TypesAre
<1>7. seen[i] \in ToSet(Unexpired)
  BY <1>6 DEF ToSet
<1>8. QED BY <1>3, <1>7

LEMMA DeliverGuards ==
  ASSUME TypeOK, Tolerated, NEW d \in Stamps, Deliver(d), NEW e \in Stamps, e \notin forgot',
         Guarded(e) \/ e = d
  PROVE  Guarded(e)'
<1>1. seen' = Recorded(d) /\ wire' = wire /\ MadeRoom \subseteq forgot' /\ TimestampFresh(d) /\ wire[d] # NoDelivery
  BY DEF Deliver
<1>2. CASE e = d
  <2>1. PICK i \in DOMAIN seen' : seen'[i] = [sig |-> d, left |-> 2 * Skew]
    BY <1>1, RecordedIs, TypesAre
  <2>2. wire[d] \in Delivery
    BY <1>1, TypesAre
  <2>3. 2 * Skew > wire[d].offset + Skew
    BY <2>2, IngressLimits, WindowIsTime DEF Delivery, Tolerated
  <2>4. QED BY <1>1, <1>2, <2>1, <2>3 DEF Guarded
<1>3. CASE Guarded(e) /\ wire[e] # NoDelivery /\ wire[e].offset # Expired
  <2>1. PICK i \in DOMAIN seen : seen[i].sig = e /\ seen[i].left > wire[e].offset + Skew
    BY <1>3 DEF Guarded
  <2>2. wire[e] \in Delivery /\ seen[i] \in Kept
    BY <1>3, TypesAre
  <2>3. seen[i].left > 0
    BY <1>3, <2>1, <2>2, WindowIsTime DEF Kept, Delivery, Expired
  <2>4. \E j \in DOMAIN seen' : seen'[j] = seen[i]
    BY <1>1, <2>1, <2>3, RecordedIs, TypesAre
  <2>5. QED BY <1>1, <2>1, <2>4 DEF Guarded
<1>4. CASE wire[e] = NoDelivery \/ wire[e].offset = Expired
  BY <1>1, <1>4 DEF Guarded
<1>5. QED BY <1>2, <1>3, <1>4

LEMMA TickGuards ==
  ASSUME TypeOK, Tick, NEW d \in Stamps, Guarded(d)
  PROVE  Guarded(d)'
<1>1. CASE wire[d] = NoDelivery \/ wire[d].offset = Expired
  BY <1>1 DEF Guarded, Tick
<1>2. CASE wire[d] # NoDelivery /\ wire[d].offset # Expired
  <2>1. PICK i \in DOMAIN seen : seen[i].sig = d /\ seen[i].left > wire[d].offset + Skew
    BY <1>2 DEF Guarded
  <2>2. wire[d] \in Delivery /\ wire'[d] = [wire[d] EXCEPT !.offset = @ - 1]
    BY <1>2, TypesAre DEF Tick
  <2>3. wire'[d].offset = wire[d].offset - 1 /\ wire[d].offset \in Int /\ wire[d].offset + Skew >= 0
    BY <1>2, <2>2, WindowIsTime DEF Delivery, Expired
  <2>4. /\ i \in DOMAIN seen' /\ seen'[i].sig = d /\ seen[i].left \in Nat
        /\ seen'[i].left = IF seen[i].left = 0 THEN 0 ELSE seen[i].left - 1
    BY <2>1, TickEntries, TypesAre
  <2>5. seen'[i].left > wire'[d].offset + Skew
    BY <2>1, <2>3, <2>4, WindowIsTime
  <2>6. QED BY <2>4, <2>5 DEF Guarded
<1>3. QED BY <1>1, <1>2

LEMMA NextGuardOK ==
  ASSUME TypeOK, GuardOK, Tolerated, [Next]_vars
  PROVE  GuardOK'
<1> DEFINE Guards(d) == /\ d \in ran \/ request[d] # "none" => Guarded(d)
                        /\ d \notin ran \/ request[d] = "none"
<1>0. SUFFICES ASSUME NEW d \in Stamps, d \notin forgot'
               PROVE  /\ d \in ran' \/ request'[d] # "none" => Guarded(d)'
                      /\ d \notin ran' \/ request'[d] = "none"
  BY DEF GuardOK
<1>1. CASE UNCHANGED vars
  <2>1. UNCHANGED <<wire, seen, request, ran, forgot>>
    BY <1>1 DEF vars
  <2>2. Guarded(d)' = Guarded(d)
    BY <2>1 DEF Guarded
  <2>3. QED BY <1>0, <2>1, <2>2 DEF GuardOK
<1>2. ASSUME NEW c \in Conversations, Send(c)
      PROVE  Guards(d)'
  <2>1. PICK e \in Stamps, ahead \in 0..SenderAhead :
          /\ wire[e] = NoDelivery /\ ~Remembered(e) /\ request[e] = "none"
          /\ wire' = [wire EXCEPT ![e] = [of |-> c, whole |-> TRUE, offset |-> ahead]]
          /\ ran' = ran \ {e} /\ forgot' = forgot \ {e}
    BY <1>2 DEF Send
  <2>2. UNCHANGED <<request, seen>>
    BY <1>2 DEF Send
  <2>3. CASE d = e
    BY <2>1, <2>2, <2>3
  <2>4. CASE d # e
    <3>1. wire'[d] = wire[d]
      BY <2>1, <2>4, TypesAre
    <3>2. QED BY <1>0, <2>1, <2>2, <2>4, <3>1 DEF GuardOK, Guarded
  <2>5. QED BY <2>3, <2>4
<1>3. ASSUME NEW e \in Stamps, Vanish(e)
      PROVE  Guards(d)'
  <2>1. wire'[d] = wire[d] \/ wire'[d] = NoDelivery
    BY <1>3, TypesAre DEF Vanish
  <2>2. UNCHANGED <<seen, request, ran, forgot>>
    BY <1>3 DEF Vanish
  <2>3. QED BY <1>0, <2>1, <2>2 DEF GuardOK, Guarded
<1>4. ASSUME NEW c \in Conversations, CustomerWrites(c)
      PROVE  Guards(d)'
  <2>1. wire[d] = NoDelivery => wire'[d] = NoDelivery
    <3>1. NoDelivery.of # c
      BY IngressLimits DEF NoDelivery
    <3>2. QED BY <1>4, <3>1 DEF CustomerWrites
  <2>2. wire[d] # NoDelivery => wire'[d].offset = wire[d].offset
    BY <1>4, TypesAre DEF CustomerWrites, Delivery
  <2>3. UNCHANGED <<seen, request, ran, forgot>>
    BY <1>4 DEF CustomerWrites
  <2>4. QED BY <1>0, <2>1, <2>2, <2>3 DEF GuardOK, Guarded
<1>5. ASSUME NEW e \in Stamps, Deliver(e)
      PROVE  Guards(d)'
  <2>1. d \notin forgot /\ ran' = ran /\ (d # e => request'[d] = request[d])
    BY <1>0, <1>5 DEF Deliver, TypeOK
  <2>2. d = e => ~Guarded(d)
    BY <1>5, FreshIsRefused DEF Deliver
  <2>3. d = e => d \notin ran
    BY <2>1, <2>2 DEF GuardOK
  <2>4. Guarded(d) \/ d = e => Guarded(d)'
    BY <1>0, <1>5, DeliverGuards
  <2>5. QED BY <2>1, <2>3, <2>4 DEF GuardOK
<1>6. ASSUME NEW e \in Stamps, Accept(e) \/ \E active \in BOOLEAN : Refuse(e, active)
      PROVE  Guards(d)'
  <2>1. /\ UNCHANGED <<wire, seen, forgot>> /\ request[e] = "ready"
        /\ request' = [request EXCEPT ![e] = "none"] /\ ran' \in {ran, ran \cup {e}}
    BY <1>6 DEF Accept, Refuse, Answer, Ready
  <2>2. QED BY <1>0, <2>1 DEF GuardOK, Guarded, TypeOK
<1>7. CASE Tick
  <2>1. UNCHANGED <<request, ran, forgot>>
    BY <1>7 DEF Tick
  <2>2. QED BY <1>0, <1>7, <2>1, TickGuards DEF GuardOK
<1>8. CASE Crash
  BY <1>0, <1>8 DEF Crash
<1>9. CASE ProfileAnswers
  BY <1>0, <1>9 DEF ProfileAnswers, GuardOK, Guarded, TypeOK
<1>10. ASSUME NEW c \in Conversations, RunShadowTurn(c)
       PROVE  Guards(d)'
  BY <1>0, <1>10 DEF RunShadowTurn, GuardOK, Guarded
<1>11. QED BY <1>1, <1>2, <1>3, <1>4, <1>5, <1>6, <1>7, <1>8, <1>9, <1>10 DEF Next

(***************************************************************************)
(* A copy of a delivery that was accepted is refused for as long as its    *)
(* stamp passes, unless the process restarted or the guard was full        *)
(* (ingress.ts, replaySeen).  A stamp from a whole window ahead is fresh   *)
(* for one instant longer than its signature is kept, so the sender's      *)
(* clock is taken to be less than a window ahead.                          *)
(***************************************************************************)
THEOREM CopyRefused ==
  ASSUME Tolerated
  PROVE  Spec => CopyRunsOnlyIfForgotten
<1>1. Init => GuardOK
  BY DEF Init, GuardOK
<1>2. IInv /\ GuardOK /\ [Next]_vars => GuardOK'
  BY NextGuardOK DEF IInv
<1>3. IInv /\ GuardOK /\ [Next]_vars =>
        [\A d \in Stamps : Accept(d) /\ d \in ran => d \in forgot]_vars
  BY DEF GuardOK, Accept, Ready
<1>4. QED BY <1>1, <1>2, <1>3, Inductive, PTL DEF Spec, CopyRunsOnlyIfForgotten

-----------------------------------------------------------------------------
(* PulseWatch. *)

(* What a pulse may find true has a kind and a subject; the sales have one subject only. *)
KeyOK(key) == key = <<key[1], key[2]>> /\ key[1] \in Kinds /\ (key[1] = "drop" => key[2] = "revenue")

(* What the founder heard: the entries of reports, and the rows of the ledger that were not refused. *)
Heard ==
  [said |-> {[what |-> t.what, at |-> t.at] : t \in told \cup TakenForTold},
   rows |-> {row \in DOMAIN desk : desk[row] # "blocked"}]

Grows(heard, more) == heard.said \subseteq more.said /\ heard.rows \subseteq more.rows

HeardAt(heard, what, at) == [what |-> what, at |-> at] \in heard.said
OnDeskAt(heard, what, at) == RowKey(what, at) \in heard.rows
HeardSince(heard, what, then) ==
  \/ \E t \in heard.said : t.what = what /\ t.at >= then
  \/ \E row \in heard.rows : row[1] = what /\ row[2] >= DayOf(then)

(***************************************************************************)
(* A memory, at a time, of a founder who heard so much: what it calls      *)
(* announced was heard since it began, what it calls set aside is not      *)
(* critical, and a blind spot was heard of when the memory says so.        *)
(***************************************************************************)
Memory(s, now, heard) ==
  /\ \A k \in DOMAIN s.open :
       /\ KeyOK(k)
       /\ DOMAIN s.open[k] = {"since", "metric", "announced", "dismissedAt"}
       /\ s.open[k].since \in 0..now
       /\ s.open[k].announced => HeardSince(heard, k, s.open[k].since)
       /\ s.open[k].dismissedAt # {} => ~Critical(k)
  /\ \A spot \in DOMAIN s.blind : \A t \in s.blind[spot].announcedAt :
       t \in Nat /\ HeardAt(heard, spot, t)

Before == {"drain", "load", "decide"}
InFlight == Before \cup {"settle", "report", "save"}
Fields == {"pc", "sense", "at", "prior", "todo", "settled", "onDesk", "dismissed", "drain", "filed"}

(* What one delivery knows. *)
RunOK(m, now, heard) ==
  /\ DOMAIN m = Fields /\ m.pc \in Pcs
  /\ m.pc \notin InFlight => m = Over(m.pc)
  /\ m.pc \in InFlight => m.at = now
  /\ m.pc \in Before => m.settled = {}
  /\ m.todo \cap m.settled = {}
  /\ Memory(m.prior, now, heard)
  /\ \A k \in m.dismissed : ~Critical(k)
  /\ \A k \in m.onDesk : OnDeskAt(heard, k, m.at)
  /\ m.filed => m.pc = "save"
  /\ m.filed => \A what \in m.settled \cup BlindNews(m) : HeardAt(heard, what, m.at)
  /\ m.pc \in {"report", "save"} /\ m.settled = {} => Found(m) \subseteq m.dismissed

(* The deliveries start in their order, and those of one job never overlap. *)
Unstarted == {"due", "threw", "dead"}
StartInOrder(all) ==
  /\ \A q, r \in Runs : q < r /\ all[q].pc = "due" => all[r].pc = "due"
  /\ \A q, r \in Runs : JobOf[q] = JobOf[r] /\ q # r => all[q].pc \in Unstarted \/ all[r].pc \in Unstarted

(* A report that stands was filed by the delivery that ends its job, or by one that died of it. *)
Closing == {"save", "done", "quiet"}
FiledOnce(all, by, died) ==
  \A j \in Jobs : by[j].filed => j \in died \/ \E q \in Runs : JobOf[q] = j /\ all[q].pc \in Closing

WatchIInv ==
  /\ clock \in 0..MaxTime /\ faults \in 0..MaxFaults
  /\ DOMAIN runs = Runs /\ DOMAIN reports = Jobs
  /\ Memory(snapshot, clock, Heard)
  /\ \A r \in Runs : RunOK(runs[r], clock, Heard)
  /\ StartInOrder(runs)
  /\ FiledOnce(runs, reports, cut)
  /\ cut \subseteq Jobs
  /\ \A card \in DOMAIN desk : desk[card] \in Statuses
  /\ unread \subseteq Events

-----------------------------------------------------------------------------
(* What is found, and what is remembered of it. *)

LEMMA ConditionKey ==
  \A kind, subject, v : kind \in Kinds /\ (kind = "drop" => subject = "revenue") => KeyOK(Condition(kind, subject, v).key)
BY DEF Condition, KeyOK

LEMMA FoundKeys == ASSUME NEW s, NEW c \in Conditions(s) PROVE KeyOK(c.key)
<1>1. ASSUME c \in CoverConditions(s) PROVE KeyOK(c.key)
  <2>1. \E id, v : c = Condition("cover", id, v)
    BY <1>1 DEF CoverConditions
  <2>2. QED BY <2>1, ConditionKey DEF Kinds
<1>2. ASSUME c \in DeadConditions(s) PROVE KeyOK(c.key)
  <2>1. \E id, v : c = Condition("dead", id, v)
    BY <1>2 DEF DeadConditions
  <2>2. QED BY <2>1, ConditionKey DEF Kinds
<1>3. ASSUME c \in MarginConditions(s) PROVE KeyOK(c.key)
  <2>1. \E id, v : c = Condition("margin", id, v)
    BY <1>3 DEF MarginConditions
  <2>2. QED BY <2>1, ConditionKey DEF Kinds
<1>4. ASSUME c \in SalesConditions(s) PROVE KeyOK(c.key)
  <2>1. c = Condition("drop", "revenue", RevenueChange(s.sales))
    BY <1>4 DEF SalesConditions
  <2>2. QED BY <2>1, ConditionKey DEF Kinds
<1>5. ASSUME c \in CartConditions(s) PROVE KeyOK(c.key)
  <2>1. c = Condition("carts", "all", s.carts.value)
    BY <1>5 DEF CartConditions
  <2>2. QED BY <2>1, ConditionKey DEF Kinds
<1>6. ASSUME c \in SupplierConditions(s) PROVE KeyOK(c.key)
  <2>1. \E id, v : c = Condition("delay", id, v)
    BY <1>6 DEF SupplierConditions
  <2>2. QED BY <2>1, ConditionKey DEF Kinds
<1>7. ASSUME c \in CourierConditions(s) PROVE KeyOK(c.key)
  <2>1. \E kind \in {"rto", "slow", "stagnant"} : \E id, v : c = Condition(kind, id, v)
    BY <1>7 DEF CourierConditions
  <2>2. QED BY <2>1, ConditionKey DEF Kinds
<1>8. QED BY <1>1, <1>2, <1>3, <1>4, <1>5, <1>6, <1>7 DEF Conditions

(* What a memory keeps of what is true, and of what could not be decided. *)
KeptAs(is, k, s, at, prior) ==
  \/ k \in OpenKeys(prior) /\ is = prior.open[k]
  \/ k \in OpenKeys(prior) /\ \E v : is = [prior.open[k] EXCEPT !.metric = v]
  \/ /\ \E c \in Conditions(s) : c.key = k
     /\ \E v : is = [since |-> at, metric |-> v, announced |-> FALSE, dismissedAt |-> Unknown]

LEMMA OpenAfterIs ==
  ASSUME NEW s, NEW at, NEW prior, NEW k \in DOMAIN OpenAfter(s, at, prior)
  PROVE  KeptAs(OpenAfter(s, at, prior)[k], k, s, at, prior)
<1> DEFINE now == Conditions(s)
           keys == {c.key : c \in now}
           ValueOf(x) == (CHOOSE c \in now : c.key = x).value
<1>1. k \in keys \cup CarriedKeys(s, prior)
  BY DEF OpenAfter
<1>2. OpenAfter(s, at, prior)[k] =
        IF k \notin keys THEN prior.open[k]
        ELSE IF k \in OpenKeys(prior) THEN [prior.open[k] EXCEPT !.metric = ValueOf(k)]
        ELSE [since |-> at, metric |-> ValueOf(k), announced |-> FALSE, dismissedAt |-> Unknown]
  BY <1>1 DEF OpenAfter
<1>3. k \in CarriedKeys(s, prior) => k \in OpenKeys(prior)
  BY DEF CarriedKeys
<1> HIDE DEF ValueOf
<1>4. QED BY <1>1, <1>2, <1>3 DEF KeptAs

MarkedAs(is, was, k, announced, dismissed, at) ==
  \/ k \in announced /\ is = [was EXCEPT !.announced = TRUE, !.dismissedAt = Unknown]
  \/ k \in dismissed /\ is = [was EXCEPT !.dismissedAt = {at}]
  \/ is = was

LEMMA MarkedIs ==
  ASSUME NEW open, NEW announced, NEW dismissed, NEW at, NEW k \in DOMAIN Marked(open, announced, dismissed, at)
  PROVE  /\ k \in DOMAIN open
         /\ MarkedAs(Marked(open, announced, dismissed, at)[k], open[k], k, announced, dismissed, at)
BY DEF Marked, MarkedAs

LEMMA DaysPass == ASSUME NEW then \in Nat, NEW now \in Nat, then <= now PROVE DayOf(then) <= DayOf(now)
BY DayAssumption DEF DayOf

(* What reached the founder was heard while the delivery ran. *)
LEMMA AnnouncedHeard ==
  ASSUME NEW m, NEW now, NEW heard, RunOK(m, now, heard), m.pc = "save"
  PROVE  /\ \A k \in Announced(m) : HeardAt(heard, k, now) \/ OnDeskAt(heard, k, now)
         /\ \A spot \in (IF m.filed THEN BlindNews(m) ELSE {}) : HeardAt(heard, spot, now)
<1>1. m.at = now
  BY DEF RunOK, InFlight
<1>2. QED BY <1>1 DEF RunOK, Announced

LEMMA MemorySaved ==
  ASSUME NEW m, NEW now \in Nat, NEW heard, RunOK(m, now, heard), m.pc = "save"
  PROVE  Memory(NextMemory(m), now, heard)
<1> DEFINE new == NextMemory(m)
           spots == IF m.filed THEN BlindNews(m) ELSE {}
           kept == OpenAfter(m.sense, m.at, m.prior)
<1>1. m.at = now /\ Memory(m.prior, now, heard) /\ \A k \in m.dismissed : ~Critical(k)
  BY DEF RunOK, InFlight
<1>2. new.open = Marked(kept, Announced(m), m.dismissed, m.at) /\ new.blind = NextBlindSpots(m.sense, m.at, m.prior, spots)
  BY DEF NextMemory, NextSnapshot
<1> HIDE DEF new, kept
<1>3. ASSUME NEW k \in DOMAIN kept
      PROVE  /\ KeyOK(k)
             /\ DOMAIN kept[k] = {"since", "metric", "announced", "dismissedAt"}
             /\ kept[k].since \in 0..now
             /\ kept[k].announced => HeardSince(heard, k, kept[k].since)
             /\ kept[k].dismissedAt # {} => ~Critical(k)
  <2> DEFINE was == m.prior.open[k]
  <2>1. k \in OpenKeys(m.prior) =>
          /\ KeyOK(k)
          /\ DOMAIN was = {"since", "metric", "announced", "dismissedAt"}
          /\ was.since \in 0..now
          /\ was.announced => HeardSince(heard, k, was.since)
          /\ was.dismissedAt # {} => ~Critical(k)
    BY <1>1 DEF Memory, OpenKeys
  <2>2. KeptAs(kept[k], k, m.sense, m.at, m.prior)
    BY OpenAfterIs DEF kept
  <2> HIDE DEF was
  <2>3. CASE k \in OpenKeys(m.prior) /\ kept[k] = was
    BY <2>1, <2>3
  <2>4. CASE k \in OpenKeys(m.prior) /\ \E v : kept[k] = [was EXCEPT !.metric = v]
    BY <2>1, <2>4
  <2>5. CASE /\ \E c \in Conditions(m.sense) : c.key = k
             /\ \E v : kept[k] = [since |-> m.at, metric |-> v, announced |-> FALSE, dismissedAt |-> Unknown]
    BY <1>1, <2>5, FoundKeys DEF Unknown
  <2>6. QED BY <2>2, <2>3, <2>4, <2>5 DEF KeptAs, was
<1>4. ASSUME NEW k \in DOMAIN new.open
      PROVE  /\ KeyOK(k)
             /\ DOMAIN new.open[k] = {"since", "metric", "announced", "dismissedAt"}
             /\ new.open[k].since \in 0..now
             /\ new.open[k].announced => HeardSince(heard, k, new.open[k].since)
             /\ new.open[k].dismissedAt # {} => ~Critical(k)
  <2>1. k \in DOMAIN kept /\ MarkedAs(new.open[k], kept[k], k, Announced(m), m.dismissed, m.at)
    BY <1>2, MarkedIs
  <2>2. CASE k \in Announced(m) /\ new.open[k] = [kept[k] EXCEPT !.announced = TRUE, !.dismissedAt = Unknown]
    <3>1. KeyOK(k) /\ DOMAIN new.open[k] = {"since", "metric", "announced", "dismissedAt"}
          /\ new.open[k].since = kept[k].since /\ new.open[k].dismissedAt = {} /\ kept[k].since \in 0..now
      BY <1>3, <2>1, <2>2 DEF Unknown
    <3>2. HeardSince(heard, k, kept[k].since)
      <4>1. HeardAt(heard, k, now) \/ OnDeskAt(heard, k, now)
        BY <2>2, AnnouncedHeard
      <4>2. kept[k].since \in Nat /\ now >= kept[k].since
        BY <3>1
      <4>3. DayOf(now) >= DayOf(kept[k].since)
        BY <4>2, DaysPass
      <4>4. CASE HeardAt(heard, k, now)
        BY <4>2, <4>4 DEF HeardAt, HeardSince
      <4>5. CASE OnDeskAt(heard, k, now)
        BY <4>3, <4>5 DEF OnDeskAt, HeardSince, RowKey
      <4>6. QED BY <4>1, <4>4, <4>5
    <3>3. QED BY <3>1, <3>2
  <2>3. CASE k \in m.dismissed /\ new.open[k] = [kept[k] EXCEPT !.dismissedAt = {m.at}]
    BY <1>1, <1>3, <2>1, <2>3
  <2>4. CASE new.open[k] = kept[k]
    BY <1>3, <2>1, <2>4
  <2>5. QED BY <2>1, <2>2, <2>3, <2>4 DEF MarkedAs
<1>5. ASSUME NEW spot \in DOMAIN new.blind, NEW t \in new.blind[spot].announcedAt
      PROVE  t \in Nat /\ HeardAt(heard, spot, t)
  <2>1. \/ spot \in spots /\ t = m.at
        \/ spot \in DOMAIN m.prior.blind /\ t \in m.prior.blind[spot].announcedAt
    BY <1>2, <1>5 DEF NextBlindSpots, Unknown
  <2>2. CASE spot \in spots /\ t = m.at
    <3>1. HeardAt(heard, spot, now)
      BY <2>2, AnnouncedHeard
    <3>2. QED BY <1>1, <2>2, <3>1
  <2>3. CASE spot \in DOMAIN m.prior.blind /\ t \in m.prior.blind[spot].announcedAt
    BY <1>1, <2>3 DEF Memory
  <2>4. QED BY <2>1, <2>2, <2>3
<1>6. Memory(new, now, heard)
  BY <1>4, <1>5 DEF Memory
<1>7. QED BY <1>6 DEF new

-----------------------------------------------------------------------------
(* Time passes, and more is told. *)

LEMMA MemoryStays ==
  ASSUME NEW s, NEW now \in Nat, NEW later \in Nat, now <= later, NEW heard, NEW more, Grows(heard, more),
         Memory(s, now, heard)
  PROVE  Memory(s, later, more)
<1>1. \A k \in DOMAIN s.open : s.open[k].since \in 0..later
  BY DEF Memory
<1>2. \A k, then : HeardSince(heard, k, then) => HeardSince(more, k, then)
  BY DEF HeardSince, Grows
<1>3. \A k, then : HeardAt(heard, k, then) => HeardAt(more, k, then)
  BY DEF HeardAt, Grows
<1>4. QED BY <1>1, <1>2, <1>3 DEF Memory

(* Nothing told is untold, and no row that was not refused becomes one that was. *)
LEMMA HeardStays ==
  ASSUME UNCHANGED <<historyVars, desk>>
  PROVE  Heard' = Heard /\ Grows(Heard, Heard')
<1>1. Heard' = Heard
  BY DEF Heard, TakenForTold, historyVars
<1>2. QED BY <1>1 DEF Grows

LEMMA NothingRemembered ==
  ASSUME NEW now, NEW heard
  PROVE  Memory(NoSnapshot, now, heard)
<1>1. DOMAIN NoSnapshot.open = {} /\ DOMAIN NoSnapshot.blind = {}
  BY DEF NoSnapshot
<1>2. QED BY <1>1 DEF Memory

LEMMA RunStays ==
  ASSUME NEW m, NEW now \in Nat, NEW heard, NEW more, Grows(heard, more), RunOK(m, now, heard)
  PROVE  RunOK(m, now, more)
<1>1. Memory(m.prior, now, more)
  BY MemoryStays DEF RunOK
<1>2. \A k, then : /\ HeardAt(heard, k, then) => HeardAt(more, k, then)
                   /\ OnDeskAt(heard, k, then) => OnDeskAt(more, k, then)
  BY DEF HeardAt, OnDeskAt, Grows
<1>3. QED BY <1>1, <1>2 DEF RunOK

LEMMA OverIs ==
  ASSUME NEW now, NEW heard, NEW pc \in Pcs \ InFlight
  PROVE  RunOK(Over(pc), now, heard) /\ Over(pc).pc = pc
<1>1. /\ DOMAIN Over(pc) = Fields /\ Over(pc).pc = pc /\ Over(pc).prior = NoSnapshot
      /\ Over(pc).todo = {} /\ Over(pc).dismissed = {} /\ Over(pc).onDesk = {} /\ Over(pc).settled = {}
      /\ Over(pc).filed = FALSE
  BY DEF Over, Run, Fields
<1>2. pc \notin Before /\ pc \notin {"report", "save"}
  BY DEF InFlight
<1>3. QED BY <1>1, <1>2, NothingRemembered DEF RunOK

-----------------------------------------------------------------------------
(* One delivery moves. *)

(* What the others know and their order stay as they were; what is filed is argued apart. *)
LEMMA MoveStep ==
  ASSUME WatchIInv, NEW r \in Runs, NEW new, Moves(r, new), clock' = clock,
         RunOK(new, clock, Heard'), Grows(Heard, Heard'), faults' \in 0..MaxFaults,
         Memory(snapshot', clock, Heard'),
         \A card \in DOMAIN desk' : desk'[card] \in Statuses,
         unread' \subseteq Events,
         runs[r].pc # "due", new.pc # "due", runs[r].pc \in Unstarted => new.pc \in Unstarted,
         DOMAIN reports' = Jobs, cut' \subseteq Jobs, FiledOnce(runs', reports', cut')
  PROVE  WatchIInv'
<1>1. /\ DOMAIN runs' = Runs /\ runs'[r] = new /\ \A q \in Runs \ {r} : runs'[q] = runs[q]
      /\ clock \in Nat
  BY PulseAssumption DEF Moves, WatchIInv
<1>2. \A q \in Runs : RunOK(runs'[q], clock, Heard')
  BY <1>1, RunStays DEF WatchIInv
<1>3. StartInOrder(runs')
  <2>1. StartInOrder(runs)
    BY DEF WatchIInv
  <2>2. QED BY <1>1, <2>1 DEF StartInOrder
<1>4. QED BY <1>1, <1>2, <1>3 DEF WatchIInv

(* No delivery that ended a job with its report filed is taken back. *)
LEMMA StaysFiled ==
  ASSUME WatchIInv, NEW r \in Runs, NEW new, Moves(r, new), cut \subseteq cut',
         \/ runs[r].pc \in Closing => new.pc \in Closing
         \/ ~reports[JobOf[r]].filed
         \/ JobOf[r] \in cut'
  PROVE  FiledOnce(runs', reports, cut')
<1>1. runs'[r] = new /\ \A q \in Runs \ {r} : runs'[q] = runs[q]
  BY DEF Moves, WatchIInv
<1>2. SUFFICES ASSUME NEW j \in Jobs, reports[j].filed, j \notin cut'
               PROVE  \E q \in Runs : JobOf[q] = j /\ runs'[q].pc \in Closing
  BY DEF FiledOnce
<1>3. PICK q \in Runs : JobOf[q] = j /\ runs[q].pc \in Closing
  BY <1>2 DEF WatchIInv, FiledOnce
<1>4. QED BY <1>1, <1>2, <1>3

(* A step that shows the founder nothing and leaves the memory, the desk and the reports alone. *)
LEMMA ThinkStep ==
  ASSUME WatchIInv, NEW r \in Runs, NEW new, Moves(r, new),
         UNCHANGED <<clock, snapshot, reports, desk, historyVars>>,
         RunOK(new, clock, Heard), faults' \in 0..MaxFaults,
         unread' \subseteq Events,
         runs[r].pc \in InFlight, new.pc # "due", runs[r].pc = "save" => new.pc \in Closing
  PROVE  WatchIInv'
<1>1. runs[r].pc \notin Unstarted /\ (runs[r].pc \in Closing => runs[r].pc = "save")
  BY DEF InFlight, Before, Unstarted, Closing
<1>2. UNCHANGED cut /\ Heard' = Heard /\ Grows(Heard, Heard')
  BY HeardStays DEF historyVars
<1>3. FiledOnce(runs', reports', cut')
  BY <1>1, <1>2, StaysFiled
<1>4. /\ DOMAIN reports' = Jobs /\ Memory(snapshot', clock, Heard') /\ cut' \subseteq Jobs
      /\ \A card \in DOMAIN desk' : desk'[card] \in Statuses
  BY <1>2 DEF WatchIInv
<1>5. runs[r].pc # "due" /\ RunOK(new, clock, Heard')
  BY <1>1, <1>2 DEF Unstarted
<1>6. QED BY <1>1, <1>2, <1>3, <1>4, <1>5, MoveStep

(* Once drained, a sense that saw nothing throws, and any other goes on. *)
LEMMA DrainedOK ==
  ASSUME NEW m, NEW now, NEW heard, RunOK(m, now, heard), m.pc = "drain"
  PROVE  /\ RunOK(AfterDraining(m), now, heard)
         /\ AfterDraining(m).pc \in {"drain", "load", "threw"}
<1>1. /\ "threw" \in Pcs \ InFlight /\ "load" \in Pcs /\ "load" \in Before /\ "drain" \in Before
  BY DEF Pcs, InFlight, Before
<1>2. RunOK(Over("threw"), now, heard) /\ Over("threw").pc = "threw"
  BY <1>1, OverIs
<1>3. RunOK([m EXCEPT !.pc = "load"], now, heard) /\ [m EXCEPT !.pc = "load"].pc = "load"
  <2> DEFINE new == [m EXCEPT !.pc = "load"]
  <2>1. /\ DOMAIN new = Fields /\ new.pc = "load" /\ new.at = m.at /\ new.settled = m.settled
        /\ new.todo = m.todo /\ new.prior = m.prior /\ new.dismissed = m.dismissed
        /\ new.onDesk = m.onDesk /\ new.filed = m.filed
    BY DEF RunOK, Fields
  <2> HIDE DEF new
  <2>2. QED BY <1>1, <2>1 DEF RunOK, InFlight
<1>4. AfterDraining(m) \in {m, Over("threw"), [m EXCEPT !.pc = "load"]}
  BY DEF AfterDraining
<1>5. QED BY <1>2, <1>3, <1>4

LEMMA SenseStep ==
  ASSUME WatchIInv, NEW r \in Runs, Sense(r)
  PROVE  WatchIInv'
<1>1. /\ runs[r].pc = "due" /\ UNCHANGED <<clock, snapshot, reports, desk, unread, historyVars, faults>>
      /\ \A q \in Runs : q < r => runs[q].pc # "due"
      /\ \A q \in Runs : JobOf[q] = JobOf[r] /\ q < r => runs[q].pc \in {"dead", "threw"}
  BY DEF Sense, At, me
<1>2. PICK s \in Senses : Moves(r, AfterDraining([me(r) EXCEPT !.pc = "drain", !.sense = s, !.at = clock,
                !.drain = IF s.inbox.ok THEN unread ELSE {}]))
  BY DEF Sense
<1> DEFINE read == IF s.inbox.ok THEN unread ELSE {}
           sensed == [runs[r] EXCEPT !.pc = "drain", !.sense = s, !.at = clock, !.drain = read]
           new == AfterDraining(sensed)
<1>3. Moves(r, new)
  BY <1>2 DEF me
<1> HIDE DEF read
<1>4. RunOK(runs[r], clock, Heard) /\ runs[r] = Over("due")
  BY <1>1 DEF WatchIInv, RunOK, InFlight, Before
<1>5. RunOK(sensed, clock, Heard) /\ sensed.pc = "drain"
  <2>1. /\ runs[r].todo = {} /\ runs[r].settled = {} /\ runs[r].onDesk = {} /\ runs[r].dismissed = {}
        /\ runs[r].filed = FALSE /\ runs[r].prior = NoSnapshot /\ DOMAIN runs[r] = Fields
    BY <1>4 DEF Over, Run, Fields
  <2>2. /\ DOMAIN sensed = Fields /\ sensed.pc = "drain" /\ sensed.at = clock /\ sensed.settled = {}
        /\ sensed.todo = {} /\ sensed.prior = NoSnapshot /\ sensed.dismissed = {}
        /\ sensed.onDesk = {} /\ sensed.filed = FALSE
    BY <2>1 DEF Fields
  <2> HIDE DEF sensed
  <2>3. QED BY <2>2, NothingRemembered DEF RunOK, Pcs, InFlight, Before
<1> HIDE DEF sensed
<1>6. RunOK(new, clock, Heard) /\ new.pc \in {"drain", "load", "threw"}
  BY <1>5, DrainedOK
<1> HIDE DEF new
<1>7. /\ DOMAIN runs' = Runs /\ runs'[r] = new /\ \A q \in Runs \ {r} : runs'[q] = runs[q]
  BY <1>3 DEF Moves, WatchIInv
<1>8. \A q \in Runs : RunOK(runs'[q], clock, Heard)
  BY <1>6, <1>7 DEF WatchIInv
<1>9. StartInOrder(runs')
  <2>1. StartInOrder(runs)
    BY DEF WatchIInv
  <2>2. ASSUME NEW p \in Runs, NEW q \in Runs, p < q, runs'[p].pc = "due" PROVE runs'[q].pc = "due"
    <3>1. p # r /\ runs[p].pc = "due"
      BY <1>6, <1>7, <2>2
    <3>2. runs[q].pc = "due" /\ q # r
      BY <1>1, <2>1, <2>2, <3>1 DEF StartInOrder
    <3>3. QED BY <1>7, <3>2
  <2>3. ASSUME NEW q \in Runs, JobOf[q] = JobOf[r], q # r PROVE runs[q].pc \in Unstarted
    <3>1. q \in Nat /\ r \in Nat
      BY PulseAssumption
    <3>2. CASE q < r
      BY <1>1, <2>3, <3>2 DEF Unstarted
    <3>3. CASE r < q
      BY <1>1, <2>1, <3>3 DEF StartInOrder, Unstarted
    <3>4. QED BY <2>3, <3>1, <3>2, <3>3
  <2>4. ASSUME NEW p \in Runs, NEW q \in Runs, JobOf[p] = JobOf[q], p # q
        PROVE  runs'[p].pc \in Unstarted \/ runs'[q].pc \in Unstarted
    <3>1. CASE p = r
      BY <1>7, <2>3, <2>4, <3>1
    <3>2. CASE q = r
      BY <1>7, <2>3, <2>4, <3>2
    <3>3. CASE p # r /\ q # r
      BY <1>7, <2>1, <2>4, <3>3 DEF StartInOrder
    <3>4. QED BY <3>1, <3>2, <3>3
  <2>5. QED BY <2>2, <2>4 DEF StartInOrder
<1>10. FiledOnce(runs', reports, cut)
  <2>1. SUFFICES ASSUME NEW j \in Jobs, reports[j].filed, j \notin cut
                 PROVE  \E q \in Runs : JobOf[q] = j /\ runs'[q].pc \in Closing
    BY DEF FiledOnce
  <2>2. PICK q \in Runs : JobOf[q] = j /\ runs[q].pc \in Closing
    BY <2>1 DEF WatchIInv, FiledOnce
  <2>3. q # r
    BY <1>1, <2>2 DEF Closing
  <2>4. QED BY <1>7, <2>2, <2>3
<1>11. UNCHANGED cut /\ Heard' = Heard
  BY <1>1, HeardStays DEF historyVars
<1>12. QED BY <1>1, <1>7, <1>8, <1>9, <1>10, <1>11 DEF WatchIInv

LEMMA FaultsCounted == WatchIInv /\ (Faulty \/ UNCHANGED faults) => faults' \in 0..MaxFaults
BY PulseAssumption DEF WatchIInv, Faulty

LEMMA DrainStep ==
  ASSUME WatchIInv, NEW r \in Runs, Drain(r)
  PROVE  WatchIInv'
<1>1. /\ runs[r].pc = "drain" /\ UNCHANGED <<clock, snapshot, reports, desk, historyVars>>
      /\ Faulty \/ UNCHANGED faults
  BY DEF Drain, At, me
<1>2. PICK e \in runs[r].drain : /\ MarkEventProcessed(e) \/ UNCHANGED unread
                                 /\ Moves(r, AfterDraining([me(r) EXCEPT !.drain = @ \ {e}]))
  BY DEF Drain, me
<1> DEFINE less == [runs[r] EXCEPT !.drain = @ \ {e}]
           new == AfterDraining(less)
<1>3. RunOK(less, clock, Heard) /\ less.pc = "drain"
  <2>1. RunOK(runs[r], clock, Heard)
    BY DEF WatchIInv
  <2>2. /\ DOMAIN less = Fields /\ less.pc = "drain" /\ less.at = runs[r].at /\ less.settled = runs[r].settled
        /\ less.todo = runs[r].todo /\ less.prior = runs[r].prior /\ less.dismissed = runs[r].dismissed
        /\ less.onDesk = runs[r].onDesk /\ less.filed = runs[r].filed
    BY <1>1, <2>1 DEF RunOK, Fields
  <2> HIDE DEF less
  <2>3. QED BY <1>1, <2>1, <2>2 DEF RunOK, InFlight, Before
<1> HIDE DEF less
<1>4. RunOK(new, clock, Heard) /\ new.pc \in {"drain", "load", "threw"}
  BY <1>3, DrainedOK
<1>5. Moves(r, new)
  BY <1>2 DEF less, me
<1> HIDE DEF new
<1>6. unread' \subseteq Events
  <2>1. unread \subseteq Events
    BY DEF WatchIInv
  <2>2. QED BY <1>2, <2>1 DEF MarkEventProcessed
<1>7. faults' \in 0..MaxFaults
  BY <1>1, FaultsCounted
<1>8. runs[r].pc \in InFlight /\ runs[r].pc # "save" /\ new.pc # "due"
  BY <1>1, <1>4 DEF InFlight, Before
<1>9. QED BY <1>1, <1>4, <1>5, <1>6, <1>7, <1>8, ThinkStep

LEMMA UnreadStays == WatchIInv /\ UNCHANGED unread => unread' \subseteq Events
BY DEF WatchIInv

(* A delivery that has compared is over, or has something to judge. *)
LEMMA ComparedOK ==
  ASSUME NEW m, NEW now, NEW heard, RunOK(m, now, heard), m.pc = "load"
  PROVE  RunOK(AfterCompare(m), now, heard) /\ AfterCompare(m).pc \in {"save", "decide"}
<1> DEFINE next == IF Found(m) = {} /\ BlindNews(m) = {} THEN "save" ELSE "decide"
           new == [m EXCEPT !.pc = next]
<1>1. /\ DOMAIN new = Fields /\ new.pc = next /\ new.at = m.at /\ new.settled = m.settled
      /\ new.todo = m.todo /\ new.prior = m.prior /\ new.dismissed = m.dismissed
      /\ new.onDesk = m.onDesk /\ new.filed = m.filed /\ new.sense = m.sense
  BY DEF RunOK, Fields
<1>2. Found(new) = Found(m)
  BY <1>1 DEF Found
<1>3. new = AfterCompare(m)
  BY DEF AfterCompare
<1>4. next \in {"save", "decide"} /\ (next = "save" => Found(m) = {})
  OBVIOUS
<1> HIDE DEF new, next
<1>5. m.at = now /\ m.settled = {} /\ ~m.filed
  BY DEF RunOK, InFlight, Before
<1>6. RunOK(new, now, heard)
  BY <1>1, <1>2, <1>4, <1>5 DEF RunOK, InFlight, Before, Pcs
<1>7. QED BY <1>1, <1>3, <1>4, <1>6

LEMMA LoadStep ==
  ASSUME WatchIInv, NEW r \in Runs, Load(r)
  PROVE  WatchIInv'
<1>1. /\ runs[r].pc = "load" /\ UNCHANGED <<clock, snapshot, reports, desk, unread, historyVars>>
      /\ Faulty \/ UNCHANGED faults
  BY DEF Load, At, me
<1>2. RunOK(runs[r], clock, Heard) /\ Memory(snapshot, clock, Heard)
  BY DEF WatchIInv
<1> DEFINE read == [runs[r] EXCEPT !.prior = snapshot]
<1>3. PICK m \in {read, runs[r]} : Moves(r, AfterCompare(m))
  BY DEF Load, me
<1>4. RunOK(read, clock, Heard) /\ read.pc = "load"
  <2>1. /\ DOMAIN read = Fields /\ read.pc = "load" /\ read.at = runs[r].at /\ read.settled = runs[r].settled
        /\ read.todo = runs[r].todo /\ read.prior = snapshot /\ read.dismissed = runs[r].dismissed
        /\ read.onDesk = runs[r].onDesk /\ read.filed = runs[r].filed
    BY <1>1, <1>2 DEF RunOK, Fields
  <2> HIDE DEF read
  <2>2. ~read.filed
    BY <1>1, <1>2, <2>1 DEF RunOK
  <2>3. QED BY <1>1, <1>2, <2>1, <2>2 DEF RunOK, InFlight, Before
<1> HIDE DEF read
<1>5. RunOK(AfterCompare(m), clock, Heard) /\ AfterCompare(m).pc \in {"save", "decide"}
  BY <1>1, <1>2, <1>3, <1>4, ComparedOK
<1>6. runs[r].pc \in InFlight /\ runs[r].pc # "save" /\ AfterCompare(m).pc # "due"
  BY <1>1, <1>5 DEF InFlight, Before
<1>7. faults' \in 0..MaxFaults /\ unread' \subseteq Events
  BY <1>1, FaultsCounted, UnreadStays
<1>8. QED BY <1>1, <1>3, <1>5, <1>6, <1>7, ThinkStep

(* Nothing critical is set aside. *)
LEMMA DecideStep ==
  ASSUME WatchIInv, NEW r \in Runs, Decide(r)
  PROVE  WatchIInv'
<1>1. runs[r].pc = "decide" /\ UNCHANGED <<clock, snapshot, reports, desk, unread, historyVars, faults>>
  BY DEF Decide, At, me
<1>2. PICK bored : Moves(r, AfterJudging(me(r), SetAside(me(r), bored)))
  BY DEF Decide
<1> DEFINE m == runs[r]
           aside == SetAside(m, bored)
           next == CASE Found(m) # aside -> "settle"
                     [] Found(m) = aside /\ BlindNews(m) # {} -> "report"
                     [] OTHER -> "save"
           new == [m EXCEPT !.dismissed = aside, !.todo = Found(m) \ aside, !.pc = next]
<1>3. Moves(r, new)
  BY <1>2 DEF AfterJudging, me
<1>4. \A k \in aside : ~Critical(k)
  BY DEF SetAside
<1>5. next \in {"settle", "report", "save"} /\ (next # "settle" => Found(m) \subseteq aside)
  <2>1. CASE Found(m) # aside
    BY <2>1
  <2>2. CASE Found(m) = aside /\ BlindNews(m) # {}
    BY <2>2
  <2>3. CASE Found(m) = aside /\ BlindNews(m) = {}
    BY <2>3
  <2>4. QED BY <2>1, <2>2, <2>3
<1> HIDE DEF aside, next
<1>6. RunOK(m, clock, Heard)
  BY DEF WatchIInv
<1>7. /\ DOMAIN new = Fields /\ new.pc = next /\ new.at = m.at /\ new.settled = m.settled
      /\ new.todo = Found(m) \ aside /\ new.prior = m.prior /\ new.dismissed = aside
      /\ new.onDesk = m.onDesk /\ new.filed = m.filed /\ new.sense = m.sense
  BY <1>6 DEF RunOK, Fields
<1>8. Found(new) = Found(m)
  BY <1>7 DEF Found
<1> HIDE DEF new
<1>9. m.at = clock /\ m.settled = {} /\ ~m.filed
  BY <1>1, <1>6 DEF RunOK, InFlight, Before
<1>10. RunOK(new, clock, Heard)
  BY <1>4, <1>5, <1>6, <1>7, <1>8, <1>9 DEF RunOK, InFlight, Before, Pcs
<1>11. runs[r].pc \in InFlight /\ runs[r].pc # "save" /\ new.pc # "due"
  BY <1>1, <1>5, <1>7 DEF InFlight, Before
<1>12. faults' \in 0..MaxFaults /\ unread' \subseteq Events
  BY <1>1, FaultsCounted, UnreadStays
<1>13. QED BY <1>1, <1>3, <1>10, <1>11, <1>12, ThinkStep

(* A condition that is settled is never settled twice, and counts for the desk once it has a row. *)
LEMMA SettledOK ==
  ASSUME NEW m, NEW now, NEW heard, RunOK(m, now, heard), m.pc = "settle", NEW key \in m.todo,
         NEW new, \/ new = Settled(m, key)
                  \/ OnDeskAt(heard, key, now) /\ new = Reached(m, key)
  PROVE  RunOK(new, now, heard) /\ new.pc \in {"report", "settle"}
<1> DEFINE next == IF m.todo = {key} THEN "report" ELSE "settle"
           plain == [m EXCEPT !.todo = @ \ {key}, !.settled = @ \cup {key}, !.pc = next]
<1>1. plain = Settled(m, key)
  BY DEF Settled
<1>2. next \in {"report", "settle"}
  OBVIOUS
<1> HIDE DEF next
<1>3. /\ DOMAIN plain = Fields /\ plain.pc = next /\ plain.at = m.at /\ plain.settled = m.settled \cup {key}
      /\ plain.todo = m.todo \ {key} /\ plain.prior = m.prior /\ plain.dismissed = m.dismissed
      /\ plain.onDesk = m.onDesk /\ plain.filed = m.filed
  BY DEF RunOK, Fields
<1>4. \/ new = plain
      \/ OnDeskAt(heard, key, now) /\ new = [plain EXCEPT !.onDesk = @ \cup {key}]
  BY <1>1 DEF Reached
<1> HIDE DEF plain
<1>5. /\ DOMAIN new = Fields /\ new.pc = next /\ new.at = m.at /\ new.settled = m.settled \cup {key}
      /\ new.todo = m.todo \ {key} /\ new.prior = m.prior /\ new.dismissed = m.dismissed
      /\ new.filed = m.filed
  BY <1>3, <1>4 DEF Fields
<1>6. new.onDesk = m.onDesk \/ (OnDeskAt(heard, key, now) /\ new.onDesk = m.onDesk \cup {key})
  BY <1>3, <1>4 DEF Fields
<1>7. m.at = now /\ ~m.filed
  BY DEF RunOK, InFlight
<1>8. \A k \in new.onDesk : OnDeskAt(heard, k, new.at)
  BY <1>5, <1>6, <1>7 DEF RunOK
<1>9. new.pc \in Pcs /\ new.pc \in InFlight /\ new.pc \notin Before
  BY <1>2, <1>5 DEF Pcs, InFlight, Before
<1>10. new.todo \cap new.settled = {} /\ new.settled # {}
  BY <1>5 DEF RunOK
<1>11. QED BY <1>2, <1>5, <1>7, <1>8, <1>9, <1>10 DEF RunOK

LEMMA SettleReportedStep ==
  ASSUME WatchIInv, NEW r \in Runs, SettleReported(r)
  PROVE  WatchIInv'
<1>1. runs[r].pc = "settle" /\ UNCHANGED <<clock, snapshot, reports, desk, unread, historyVars, faults>>
  BY DEF SettleReported, At, me
<1>2. PICK key \in runs[r].todo : Moves(r, Settled(runs[r], key))
  BY DEF SettleReported, me
<1>3. RunOK(Settled(runs[r], key), clock, Heard) /\ Settled(runs[r], key).pc \in {"report", "settle"}
  BY <1>1, SettledOK DEF WatchIInv
<1>4. runs[r].pc \in InFlight /\ runs[r].pc # "save" /\ Settled(runs[r], key).pc # "due"
  BY <1>1, <1>3 DEF InFlight, Before
<1>5. faults' \in 0..MaxFaults /\ unread' \subseteq Events
  BY <1>1, FaultsCounted, UnreadStays
<1>6. QED BY <1>1, <1>2, <1>3, <1>4, <1>5, ThinkStep

(* What the gate leaves: the row that answers, or a new one, is refused if the outcome is. *)
LEMMA GateOutcome ==
  ASSUME WatchIInv, NEW r \in Runs, NEW key, NEW row,
         (row \in DOMAIN desk /\ Replay(r, key, row)) \/ (row \notin DOMAIN desk /\ FileRow(r, key, row))
  PROVE  /\ Faulty \/ UNCHANGED faults
         /\ DOMAIN desk \subseteq DOMAIN desk'
         /\ \A other \in DOMAIN desk : desk[other] # "blocked" => desk'[other] # "blocked"
         /\ \A other \in DOMAIN desk' : desk'[other] \in Statuses
         /\ \/ Moves(r, Settled(runs[r], key))
            \/ row \in DOMAIN desk' /\ desk'[row] # "blocked" /\ Moves(r, Reached(runs[r], key))
<1>1. \A other \in DOMAIN desk : desk[other] \in Statuses
  BY DEF WatchIInv
<1>2. CASE row \in DOMAIN desk /\ Replay(r, key, row)
  <2>1. CASE UNCHANGED desk
    BY <1>1, <1>2, <2>1 DEF Replay, Refused, me
  <2>2. CASE desk' = Filed(row, "prepared")
    <3>1. /\ DOMAIN desk' = DOMAIN desk \cup {row} /\ desk'[row] = "prepared"
          /\ \A other \in DOMAIN desk : other # row => desk'[other] = desk[other]
      BY <2>2 DEF Filed
    <3>2. QED BY <1>1, <1>2, <3>1 DEF Replay, Refused, me, Statuses
  <2>3. QED BY <1>2, <2>1, <2>2 DEF Replay
<1>3. CASE row \notin DOMAIN desk /\ FileRow(r, key, row)
  <2>1. PICK status \in {"prepared", "uncarded", "blocked"} : desk' = Filed(row, status)
    BY <1>3 DEF FileRow
  <2>2. /\ DOMAIN desk' = DOMAIN desk \cup {row} /\ desk'[row] = status
        /\ \A other \in DOMAIN desk : other # row => desk'[other] = desk[other]
    BY <2>1 DEF Filed
  <2>3. CASE desk' = Filed(row, "blocked") /\ Moves(r, Refused(me(r), key)) /\ UNCHANGED faults
    BY <1>1, <1>3, <2>1, <2>2, <2>3 DEF Refused, me, Statuses
  <2>4. CASE /\ \/ desk' = Filed(row, "prepared")
                \/ desk' = Filed(row, "uncarded")
             /\ Moves(r, Reached(me(r), key))
             /\ Faulty \/ UNCHANGED faults
    <3>1. desk'[row] \in {"prepared", "uncarded"}
      BY <2>4 DEF Filed
    <3>2. QED BY <1>1, <1>3, <2>2, <2>4, <3>1 DEF me, Statuses
  <2>5. QED BY <1>3, <2>3, <2>4 DEF FileRow
<1>4. QED BY <1>2, <1>3

LEMMA SettleThroughGateStep ==
  ASSUME WatchIInv, NEW r \in Runs, SettleThroughGate(r)
  PROVE  WatchIInv'
<1>1. runs[r].pc = "settle" /\ UNCHANGED <<clock, snapshot, reports, unread, historyVars>>
  BY DEF SettleThroughGate, At, me
<1>2. PICK key \in runs[r].todo :
        LET row == RowKey(key, runs[r].at)
        IN IF row \in DOMAIN desk THEN Replay(r, key, row) ELSE FileRow(r, key, row)
  BY DEF SettleThroughGate, me
<1> DEFINE row == RowKey(key, runs[r].at)
           plain == Settled(runs[r], key)
           reached == Reached(runs[r], key)
<1>3. /\ Faulty \/ UNCHANGED faults
      /\ DOMAIN desk \subseteq DOMAIN desk'
      /\ \A other \in DOMAIN desk : desk[other] # "blocked" => desk'[other] # "blocked"
      /\ \A other \in DOMAIN desk' : desk'[other] \in Statuses
      /\ \/ Moves(r, plain)
         \/ row \in DOMAIN desk' /\ desk'[row] # "blocked" /\ Moves(r, reached)
  BY <1>2, GateOutcome
<1> HIDE DEF plain, reached
<1>4. Grows(Heard, Heard')
  BY <1>1, <1>3 DEF Grows, Heard, TakenForTold, historyVars
<1>5. RunOK(runs[r], clock, Heard') /\ clock \in Nat /\ runs[r].at = clock
  <2>1. RunOK(runs[r], clock, Heard) /\ clock \in Nat
    BY PulseAssumption DEF WatchIInv
  <2>2. QED BY <1>1, <1>4, <2>1, RunStays DEF RunOK, InFlight
<1>6. PICK new \in {plain, reached} : Moves(r, new) /\ (new = plain \/ OnDeskAt(Heard', key, clock))
  <2>1. row \in DOMAIN desk' /\ desk'[row] # "blocked" => OnDeskAt(Heard', key, clock)
    BY <1>5 DEF OnDeskAt, Heard
  <2>2. QED BY <1>3, <2>1
<1>7. RunOK(new, clock, Heard') /\ new.pc \in {"report", "settle"}
  BY <1>1, <1>5, <1>6, SettledOK DEF plain, reached
<1>8. Memory(snapshot', clock, Heard')
  BY <1>1, <1>4, <1>5, MemoryStays DEF WatchIInv
<1>9. /\ runs[r].pc \notin Unstarted /\ runs[r].pc \notin Closing /\ runs[r].pc # "due" /\ new.pc # "due"
      /\ DOMAIN reports' = Jobs /\ UNCHANGED cut /\ cut' \subseteq Jobs
  BY <1>1, <1>7 DEF Unstarted, Closing, WatchIInv, historyVars
<1>10. FiledOnce(runs', reports', cut')
  BY <1>1, <1>6, <1>9, StaysFiled
<1>11. faults' \in 0..MaxFaults /\ unread' \subseteq Events
  BY <1>1, <1>3, FaultsCounted, UnreadStays
<1>12. QED BY <1>1, <1>3, <1>4, <1>6, <1>7, <1>8, <1>9, <1>10, <1>11, MoveStep

LEMMA GateThrowsStep ==
  ASSUME WatchIInv, NEW r \in Runs, GateThrows(r)
  PROVE  WatchIInv'
<1>1. /\ runs[r].pc = "settle" /\ Moves(r, Over("threw"))
      /\ UNCHANGED <<clock, snapshot, reports, desk, unread, historyVars, faults>>
  BY DEF GateThrows, At, me
<1>2. RunOK(Over("threw"), clock, Heard) /\ Over("threw").pc = "threw"
  BY OverIs DEF Pcs, InFlight, Before
<1>3. runs[r].pc \in InFlight /\ runs[r].pc # "save" /\ Over("threw").pc # "due"
  BY <1>1, <1>2 DEF InFlight
<1>4. faults' \in 0..MaxFaults /\ unread' \subseteq Events
  BY <1>1, FaultsCounted, UnreadStays
<1>5. QED BY <1>1, <1>2, <1>3, <1>4, ThinkStep

(* Only one delivery of a job comes to its report, and files it before it is past it. *)
LEMMA AddReportStep ==
  ASSUME WatchIInv, NEW r \in Runs, AddReport(r)
  PROVE  WatchIInv'
<1> DEFINE m == runs[r]
           job == JobOf[r]
           page == [about |-> m.settled, blind |-> BlindNews(m), filed |-> TRUE]
           new == [m EXCEPT !.pc = "save", !.filed = TRUE]
<1>1. /\ m.pc = "report" /\ UNCHANGED <<clock, snapshot, desk, unread, faults>>
      /\ reports' = [reports EXCEPT ![job] = FiledUnder(@, page)]
      /\ IF reports[job].filed
         THEN /\ missed' = missed \cup {[what |-> w, at |-> clock, job |-> job] : w \in ToTell(m)}
              /\ UNCHANGED told
         ELSE told' = told \cup {[what |-> w, at |-> clock] : w \in ToTell(m)} /\ UNCHANGED missed
      /\ Moves(r, new) /\ UNCHANGED cut
  BY DEF AddReport, At, me
<1> HIDE DEF m, new
<1>2. RunOK(m, clock, Heard) /\ clock \in Nat /\ Grows(Heard, Heard') /\ job \in Jobs
  <2>1. told \subseteq told' /\ TakenForTold \subseteq TakenForTold'
    BY <1>1 DEF TakenForTold
  <2>2. Grows(Heard, Heard')
    BY <1>1, <2>1 DEF Grows, Heard
  <2>3. QED BY <2>2, PulseAssumption DEF WatchIInv, m
<1>3. RunOK(m, clock, Heard')
  BY <1>2, RunStays
<1>4. ASSUME reports[job].filed PROVE job \in cut
  <2>1. SUFFICES ASSUME job \notin cut PROVE FALSE
    OBVIOUS
  <2>2. PICK q \in Runs : JobOf[q] = job /\ runs[q].pc \in Closing
    BY <1>2, <1>4, <2>1 DEF WatchIInv, FiledOnce
  <2>3. q # r /\ runs[q].pc \notin Unstarted /\ m.pc \notin Unstarted
    BY <1>1, <2>2 DEF Closing, Unstarted, m
  <2>4. QED BY <2>2, <2>3 DEF WatchIInv, StartInOrder, m
<1>5. /\ DOMAIN new = Fields /\ new.pc = "save" /\ new.at = m.at /\ new.settled = m.settled
      /\ new.todo = m.todo /\ new.prior = m.prior /\ new.dismissed = m.dismissed
      /\ new.onDesk = m.onDesk /\ new.sense = m.sense
  BY <1>2 DEF RunOK, Fields, new
<1>6. BlindNews(new) = BlindNews(m) /\ Found(new) = Found(m)
  BY <1>5 DEF BlindNews, Found
<1>7. m.at = clock
  BY <1>1, <1>2 DEF RunOK, InFlight
<1>8. ASSUME NEW what \in m.settled \cup BlindNews(m) PROVE HeardAt(Heard', what, m.at)
  <2>1. what \in ToTell(m)
    BY DEF ToTell
  <2>2. CASE reports[job].filed
    <3> DEFINE entry == [what |-> what, at |-> clock, job |-> job]
    <3>1. entry \in missed' /\ entry.job \in cut' /\ entry.what = what /\ entry.at = clock
      BY <1>1, <1>4, <2>1, <2>2
    <3> HIDE DEF entry
    <3>2. entry \in TakenForTold'
      BY <3>1 DEF TakenForTold
    <3>3. QED BY <1>7, <3>1, <3>2 DEF Heard, HeardAt
  <2>3. CASE ~reports[job].filed
    <3> DEFINE entry == [what |-> what, at |-> clock]
    <3>1. entry \in told' /\ entry.what = what /\ entry.at = clock
      BY <1>1, <2>1, <2>3
    <3> HIDE DEF entry
    <3>2. QED BY <1>7, <3>1 DEF Heard, HeardAt
  <2>4. QED BY <2>2, <2>3
<1>9. RunOK(new, clock, Heard')
  BY <1>1, <1>3, <1>5, <1>6, <1>7, <1>8 DEF RunOK, InFlight, Before, Pcs
<1>10. /\ DOMAIN reports' = Jobs
       /\ \A j \in Jobs : reports'[j].filed => reports[j].filed \/ j = job
  BY <1>1, <1>2 DEF WatchIInv
<1>11. FiledOnce(runs', reports', cut')
  <2>1. runs'[r].pc = "save" /\ \A q \in Runs \ {r} : runs'[q] = runs[q]
    BY <1>1, <1>5 DEF Moves, WatchIInv
  <2>2. SUFFICES ASSUME NEW j \in Jobs, reports'[j].filed, j \notin cut'
                 PROVE  \E q \in Runs : JobOf[q] = j /\ runs'[q].pc \in Closing
    BY DEF FiledOnce
  <2>3. CASE j = job
    BY <2>1, <2>3 DEF Closing
  <2>4. CASE reports[j].filed
    <3>1. PICK q \in Runs : JobOf[q] = j /\ runs[q].pc \in Closing
      BY <1>1, <2>2, <2>4 DEF WatchIInv, FiledOnce
    <3>2. q # r
      BY <1>1, <3>1 DEF Closing, m
    <3>3. QED BY <2>1, <3>1, <3>2
  <2>5. QED BY <1>10, <2>2, <2>3, <2>4
<1>12. /\ Memory(snapshot', clock, Heard') /\ (\A card \in DOMAIN desk' : desk'[card] \in Statuses)
       /\ cut' \subseteq Jobs
  BY <1>1, <1>2, MemoryStays DEF WatchIInv
<1>13. faults' \in 0..MaxFaults /\ unread' \subseteq Events
  BY <1>1, FaultsCounted, UnreadStays
<1>14. runs[r].pc # "due" /\ new.pc # "due" /\ runs[r].pc \notin Unstarted
  BY <1>1, <1>5 DEF Unstarted, m
<1>15. clock' = clock /\ Moves(r, new)
  BY <1>1
<1>16. QED BY <1>2, <1>9, <1>10, <1>11, <1>12, <1>13, <1>14, <1>15, MoveStep

LEMMA ReportFailsStep ==
  ASSUME WatchIInv, NEW r \in Runs, ReportFails(r)
  PROVE  WatchIInv'
<1> DEFINE m == runs[r]
           new == [m EXCEPT !.pc = "save"]
<1>1. m.pc = "report" /\ UNCHANGED <<clock, snapshot, reports, desk, unread, historyVars>> /\ Faulty /\ Moves(r, new)
  BY DEF ReportFails, At, me, GoTo
<1>2. RunOK(m, clock, Heard)
  BY DEF WatchIInv
<1>3. /\ DOMAIN new = Fields /\ new.pc = "save" /\ new.at = m.at /\ new.settled = m.settled
      /\ new.todo = m.todo /\ new.prior = m.prior /\ new.dismissed = m.dismissed
      /\ new.onDesk = m.onDesk /\ new.sense = m.sense /\ new.filed = m.filed
  BY <1>2 DEF RunOK, Fields
<1>4. Found(new) = Found(m) /\ ~m.filed
  BY <1>1, <1>2, <1>3 DEF Found, RunOK
<1> HIDE DEF new
<1>5. RunOK(new, clock, Heard)
  BY <1>1, <1>2, <1>3, <1>4 DEF RunOK, InFlight, Before, Pcs
<1>6. runs[r].pc \in InFlight /\ runs[r].pc # "save" /\ new.pc # "due"
  BY <1>1, <1>3 DEF InFlight
<1>7. faults' \in 0..MaxFaults /\ unread' \subseteq Events
  BY <1>1, FaultsCounted, UnreadStays
<1>8. QED BY <1>1, <1>5, <1>6, <1>7, ThinkStep

LEMMA SaveStep ==
  ASSUME WatchIInv, NEW r \in Runs, Save(r)
  PROVE  WatchIInv'
<1> DEFINE pc == Ending(runs[r])
<1>1. /\ runs[r].pc = "save" /\ UNCHANGED <<clock, reports, desk, unread, historyVars>>
      /\ Moves(r, Over(pc)) /\ (Faulty \/ UNCHANGED faults)
      /\ snapshot' \in {snapshot, NextMemory(runs[r])}
  BY DEF Save, At, me
<1>2. pc \in {"quiet", "done"}
  BY DEF Ending
<1> HIDE DEF pc
<1>3. pc \in Pcs \ InFlight
  BY <1>2 DEF Pcs, InFlight, Before
<1>4. RunOK(Over(pc), clock, Heard) /\ Over(pc).pc = pc
  BY <1>3, OverIs
<1>5. RunOK(runs[r], clock, Heard) /\ Memory(snapshot, clock, Heard) /\ clock \in Nat
  BY DEF WatchIInv
<1>6. Heard' = Heard /\ Grows(Heard, Heard') /\ Memory(snapshot', clock, Heard')
  <2>1. Heard' = Heard /\ Grows(Heard, Heard')
    BY <1>1, HeardStays
  <2>2. QED BY <1>1, <1>5, <2>1, MemorySaved
<1>7. FiledOnce(runs', reports', cut') /\ cut' \subseteq Jobs
  <2>1. UNCHANGED cut /\ cut \subseteq Jobs
    BY <1>1 DEF historyVars, WatchIInv
  <2>2. QED BY <1>1, <1>2, <1>4, <2>1, StaysFiled DEF Closing
<1>8. faults' \in 0..MaxFaults /\ unread' \subseteq Events
  BY <1>1, FaultsCounted, UnreadStays
<1>9. /\ runs[r].pc # "due" /\ runs[r].pc \notin Unstarted /\ Over(pc).pc # "due"
      /\ DOMAIN reports' = Jobs /\ (\A card \in DOMAIN desk' : desk'[card] \in Statuses)
  BY <1>1, <1>2, <1>4 DEF Unstarted, WatchIInv
<1>10. clock' = clock /\ RunOK(Over(pc), clock, Heard')
  BY <1>1, <1>4, <1>6
<1>11. QED BY <1>1, <1>6, <1>7, <1>8, <1>9, <1>10, MoveStep

LEMMA DieStep ==
  ASSUME WatchIInv, NEW r \in Runs, Die(r)
  PROVE  WatchIInv'
<1>1. /\ runs[r].pc \notin {"due", "threw", "dead"} /\ Faulty /\ Moves(r, Over("dead"))
      /\ UNCHANGED <<clock, snapshot, reports, desk, unread, told, missed>>
      /\ cut' = IF reports[JobOf[r]].filed THEN cut \cup {JobOf[r]} ELSE cut
  BY DEF Die, me
<1>2. cut \subseteq cut' /\ cut' \subseteq Jobs /\ (JobOf[r] \in cut' \/ ~reports[JobOf[r]].filed)
  BY <1>1, PulseAssumption DEF WatchIInv
<1>3. Grows(Heard, Heard')
  <2>1. TakenForTold \subseteq TakenForTold'
    BY <1>1, <1>2 DEF TakenForTold
  <2>2. QED BY <1>1, <2>1 DEF Grows, Heard
<1>4. RunOK(Over("dead"), clock, Heard') /\ Over("dead").pc = "dead"
  BY OverIs DEF Pcs, InFlight, Before
<1>5. FiledOnce(runs', reports', cut')
  BY <1>1, <1>2, StaysFiled
<1>6. faults' \in 0..MaxFaults /\ unread' \subseteq Events
  BY <1>1, FaultsCounted, UnreadStays
<1>7. Memory(snapshot', clock, Heard')
  BY <1>1, <1>3, MemoryStays, PulseAssumption DEF WatchIInv
<1>8. /\ runs[r].pc # "due" /\ Over("dead").pc # "due" /\ Over("dead").pc \in Unstarted
      /\ DOMAIN reports' = Jobs /\ (\A card \in DOMAIN desk' : desk'[card] \in Statuses)
  BY <1>1, <1>4 DEF Unstarted, WatchIInv
<1>9. QED BY <1>1, <1>2, <1>3, <1>4, <1>5, <1>6, <1>7, <1>8, MoveStep

-----------------------------------------------------------------------------
(* What happens around the deliveries. *)

LEMMA AroundStep ==
  ASSUME WatchIInv, ReceiveEvent \/ ClaimSweeps \/ FounderSettles
  PROVE  WatchIInv'
<1>1. UNCHANGED <<clock, snapshot, reports, runs, historyVars, faults>>
  BY DEF ReceiveEvent, ClaimSweeps, FounderSettles
<1>2. unread' \subseteq Events
  BY DEF ReceiveEvent, ClaimSweeps, FounderSettles, WatchIInv
<1>3. /\ DOMAIN desk' = DOMAIN desk
      /\ \A card \in DOMAIN desk : desk'[card] \in Statuses /\ (desk[card] # "blocked" => desk'[card] # "blocked")
  BY DEF ReceiveEvent, ClaimSweeps, FounderSettles, WatchIInv, Statuses
<1>4. Grows(Heard, Heard') /\ clock \in Nat
  BY <1>1, <1>3, PulseAssumption DEF Grows, Heard, TakenForTold, historyVars, WatchIInv
<1>5. Memory(snapshot, clock, Heard') /\ \A r \in Runs : RunOK(runs[r], clock, Heard')
  BY <1>4, MemoryStays, RunStays DEF WatchIInv
<1>6. UNCHANGED cut
  BY <1>1 DEF historyVars
<1>7. QED BY <1>1, <1>2, <1>3, <1>5, <1>6 DEF WatchIInv

(* No delivery is in flight while time passes. *)
LEMMA TimeStep ==
  ASSUME WatchIInv, TimePasses
  PROVE  WatchIInv'
<1>1. /\ clock' = clock + 1 /\ clock' \in 0..MaxTime /\ clock \in Nat /\ clock' \in Nat
      /\ UNCHANGED <<snapshot, reports, desk, unread, runs, historyVars, faults>>
  BY PulseAssumption DEF TimePasses, WatchIInv
<1>2. ASSUME NEW r \in Runs PROVE RunOK(runs[r], clock', Heard)
  <2>1. RunOK(runs[r], clock, Heard)
    BY DEF WatchIInv
  <2>2. runs[r].pc \in Pcs \ InFlight /\ runs[r] = Over(runs[r].pc)
    BY <2>1 DEF TimePasses, me, Ended, RunOK, InFlight, Before
  <2>3. QED BY <2>2, OverIs
<1>3. Memory(snapshot, clock', Heard)
  <2>1. Grows(Heard, Heard) /\ clock <= clock'
    BY <1>1 DEF Grows
  <2>2. QED BY <1>1, <2>1, MemoryStays DEF WatchIInv
<1>4. UNCHANGED cut /\ Heard' = Heard
  BY <1>1, HeardStays DEF historyVars
<1>5. QED BY <1>1, <1>2, <1>3, <1>4 DEF WatchIInv

LEMMA WatchInitOK == WatchInit => WatchIInv
<1> SUFFICES ASSUME WatchInit PROVE WatchIInv
  OBVIOUS
<1>1. \A r \in Runs : RunOK(runs[r], clock, Heard) /\ runs[r].pc = "due"
  <2>1. Run.pc = "due"
    BY DEF Run
  <2>2. Run = [f \in DOMAIN Run |-> Run[f]]
    BY DEF Run
  <2>3. Over("due") = Run
    BY <2>1, <2>2 DEF Over
  <2>4. QED BY <2>3, OverIs DEF WatchInit, Pcs, InFlight, Before
<1>2. Memory(snapshot, clock, Heard)
  BY NothingRemembered DEF WatchInit
<1>3. StartInOrder(runs)
  BY <1>1 DEF StartInOrder, Unstarted
<1>4. FiledOnce(runs, reports, cut)
  BY DEF WatchInit, FiledOnce, NoReport
<1>5. DOMAIN desk = {}
  BY DEF WatchInit
<1>6. QED BY <1>1, <1>2, <1>3, <1>4, <1>5, PulseAssumption DEF WatchInit, WatchIInv

LEMMA WatchStep == WatchIInv /\ [WatchNext]_watchVars => WatchIInv'
<1> SUFFICES ASSUME WatchIInv, [WatchNext]_watchVars PROVE WatchIInv'
  OBVIOUS
<1>1. ASSUME NEW r \in Runs,
             \/ Sense(r) \/ Drain(r) \/ Load(r) \/ Decide(r) \/ SettleReported(r) \/ SettleThroughGate(r)
             \/ GateThrows(r) \/ AddReport(r) \/ ReportFails(r) \/ Save(r) \/ Die(r)
      PROVE  WatchIInv'
  BY <1>1, SenseStep, DrainStep, LoadStep, DecideStep, SettleReportedStep, SettleThroughGateStep,
     GateThrowsStep, AddReportStep, ReportFailsStep, SaveStep, DieStep
<1>2. CASE UNCHANGED watchVars
  <2>1. Heard' = Heard /\ UNCHANGED cut
    BY <1>2, HeardStays DEF watchVars, historyVars
  <2>2. QED BY <1>2, <2>1 DEF watchVars, WatchIInv
<1>3. QED BY <1>1, <1>2, AroundStep, TimeStep DEF WatchNext

(* Memory, deliveries and reports agree: the inductive invariant of the pulse. *)
THEOREM WatchInductive == WatchSpec => []WatchIInv
<1>1. QED BY WatchInitOK, WatchStep, PTL DEF WatchSpec

(* The pulse is type-correct. *)
THEOREM WatchTyped == WatchSpec => []WatchTypeOK
<1>1. WatchIInv => WatchTypeOK
  BY DEF WatchIInv, WatchTypeOK, Memory, RunOK
<1>2. QED BY <1>1, WatchInductive, PTL

(* What was heard since is in a report, on a card, or one of the two excuses. *)
LEMMA HeardIsShown ==
  ASSUME WatchIInv, NEW what, NEW then, HeardSince(Heard, what, then)
  PROVE  ToldSince(what, then) \/ WronglyCounted(what, then)
<1>1. CASE \E t \in Heard.said : t.what = what /\ t.at >= then
  <2>1. PICK t \in told \cup TakenForTold : t.what = what /\ t.at >= then
    BY <1>1 DEF Heard
  <2>2. QED BY <2>1 DEF ToldSince, WronglyCounted
<1>2. CASE \E row \in Heard.rows : row[1] = what /\ row[2] >= DayOf(then)
  <2>1. PICK row \in DOMAIN desk : desk[row] # "blocked" /\ row[1] = what /\ row[2] >= DayOf(then)
    BY <1>2 DEF Heard
  <2>2. desk[row] \in {"prepared", "executed", "spent"} \/ desk[row] = "uncarded"
    BY <2>1 DEF WatchIInv, Statuses
  <2>3. QED BY <2>1, <2>2 DEF ToldSince, WronglyCounted, HasRow
<1>3. QED BY <1>1, <1>2 DEF HeardSince

(***************************************************************************)
(* What the snapshot calls announced was told to the founder since it      *)
(* began (pulse.ts, announced), in a report or on a card; unless a         *)
(* delivery died of its job after its report, or the card was lost.        *)
(***************************************************************************)
THEOREM AnnouncedOnlyIfTold == WatchSpec => []AnnouncedWasTold
<1>1. WatchIInv => AnnouncedWasTold
  BY HeardIsShown DEF WatchIInv, Memory, AnnouncedWasTold
<1>2. QED BY <1>1, WatchInductive, PTL

-----------------------------------------------------------------------------
(* What a pulse that ends may leave unsaid. *)

(* A delivery ends by its save. *)
LEMMA EndsBySaving ==
  ASSUME WatchIInv, [WatchNext]_watchVars, NEW r \in Runs, NEW pc \in {"quiet", "done"}, EndsAs(r, pc)
  PROVE  Save(r) /\ Ending(runs[r]) = pc
<1>1. runs[r].pc = "save" /\ runs'[r].pc = pc /\ DOMAIN runs = Runs
  BY DEF EndsAs, At, me, WatchIInv
<1>2. PICK q \in Runs : \/ Sense(q) \/ Drain(q) \/ Load(q) \/ Decide(q) \/ SettleReported(q)
                        \/ SettleThroughGate(q) \/ GateThrows(q) \/ AddReport(q) \/ ReportFails(q)
                        \/ Save(q) \/ Die(q)
  <2>1. runs' # runs
    BY <1>1
  <2>2. QED BY <2>1 DEF WatchNext, watchVars, ReceiveEvent, ClaimSweeps, FounderSettles, TimePasses
<1>3. \E new : Moves(q, new)
  BY <1>2 DEF Sense, Drain, Load, Decide, SettleReported, SettleThroughGate, Replay, FileRow, GateThrows,
              AddReport, ReportFails, Save, Die
<1>4. q = r
  BY <1>1, <1>3 DEF Moves
<1>5. Save(r) \/ Die(r)
  BY <1>1, <1>2, <1>4 DEF Sense, Drain, Load, Decide, SettleReported, SettleThroughGate, GateThrows,
                          AddReport, ReportFails, At, me
<1>6. Over("dead").pc = "dead" /\ Over(Ending(runs[r])).pc = Ending(runs[r])
  BY DEF Over, Run
<1>7. Save(r)
  BY <1>1, <1>5, <1>6 DEF Die, Moves
<1>8. runs'[r] = Over(Ending(runs[r]))
  BY <1>1, <1>7 DEF Save, Moves, me
<1>9. QED BY <1>1, <1>6, <1>7, <1>8

(* What a delivery that settled nothing and has no blind spot to tell leaves unsaid. *)
LEMMA QuietEnd ==
  ASSUME WatchIInv, NEW r \in Runs, runs[r].pc = "save", runs[r].settled = {}, BlindNews(runs[r]) = {}
  PROVE  HidesNothing(runs[r])
<1> DEFINE m == runs[r]
<1>1. RunOK(m, clock, Heard)
  BY DEF WatchIInv
<1>2. /\ Found(m) \subseteq m.dismissed /\ Memory(m.prior, clock, Heard) /\ (\A k \in m.dismissed : ~Critical(k))
      /\ m.at = clock /\ clock \in Nat /\ BlindNews(m) = {}
  BY <1>1, PulseAssumption DEF RunOK, InFlight, WatchIInv
<1> HIDE DEF m
<1>3. ASSUME NEW c \in Conditions(m.sense)
      PROVE  LET since == m.prior.open[c.key].since
             IN \/ c.key \in OpenKeys(m.prior) /\ (ToldSince(c.key, since) \/ WronglyCounted(c.key, since))
                \/ ~Critical(c.key) /\ SetAsideLately(m, c.key)
  <2>1. CASE IsNews(c, m.prior, m.at)
    <3>1. c.key \in Found(m)
      BY <2>1 DEF Found, FindingKeys, Findings
    <3>2. QED BY <1>2, <3>1 DEF SetAsideLately
  <2>2. CASE ~IsNews(c, m.prior, m.at)
    <3> DEFINE was == m.prior.open[c.key]
    <3>1. c.key \in OpenKeys(m.prior) /\ (was.announced \/ WithinDismissalWindow(was, m.at))
      BY <2>2 DEF IsNews
    <3>2. CASE was.announced
      <4>1. HeardSince(Heard, c.key, was.since)
        BY <1>2, <3>1, <3>2 DEF Memory, OpenKeys
      <4>2. QED BY <3>1, <4>1, HeardIsShown
    <3>3. CASE WithinDismissalWindow(was, m.at)
      BY <1>2, <3>1, <3>3 DEF Memory, OpenKeys, WithinDismissalWindow, WithinADay, SetAsideLately
    <3>4. QED BY <3>1, <3>2, <3>3
  <2>3. QED BY <2>1, <2>2
<1>4. ASSUME NEW spot \in BlindSpots(m.sense)
      PROVE  \E t \in told \cup TakenForTold : t.what = spot /\ m.at - t.at < DayTicks
  <2>1. spot \in DOMAIN m.prior.blind
    BY <1>2 DEF BlindNews, BlindSpotNews
  <2>2. PICK then \in m.prior.blind[spot].announcedAt : ~(m.at - then >= DayTicks)
    BY <1>2, <2>1 DEF BlindNews, BlindSpotNews
  <2>3. then \in Nat /\ HeardAt(Heard, spot, then)
    BY <1>2, <2>1 DEF Memory
  <2>4. PICK t \in told \cup TakenForTold : [what |-> t.what, at |-> t.at] = [what |-> spot, at |-> then]
    BY <2>3 DEF HeardAt, Heard
  <2>5. t.what = spot /\ t.at = then
    BY <2>4
  <2>6. QED BY <1>2, <2>2, <2>3, <2>5, DayAssumption
<1>5. HidesNothing(m)
  BY <1>3, <1>4 DEF HidesNothing
<1>6. QED BY <1>5 DEF m

(***************************************************************************)
(* The summary's `quiet` hides nothing (pulse.ts, runPulse): what is true  *)
(* of the store when a pulse ends quiet was told, or set aside within the  *)
(* day and not critical, and what it could not see was told within the     *)
(* day; with the excuses of AnnouncedOnlyIfTold.                           *)
(***************************************************************************)
THEOREM QuietHidesNothing == WatchSpec => QuietIsTrue
<1>1. ASSUME WatchIInv, [WatchNext]_watchVars, NEW r \in Runs, EndsAs(r, "quiet") PROVE HidesNothing(me(r))
  <2>1. Save(r) /\ Ending(runs[r]) = "quiet"
    BY <1>1, EndsBySaving
  <2>2. runs[r].pc = "save" /\ runs[r].settled = {} /\ BlindNews(runs[r]) = {}
    BY <1>1, <2>1 DEF Save, At, me, Ending
  <2>3. QED BY <1>1, <2>2, QuietEnd DEF me
<1>2. WatchIInv /\ [WatchNext]_watchVars =>
        [\A r \in Runs : EndsAs(r, "quiet") => HidesNothing(me(r))]_watchVars
  BY <1>1
<1>3. QED BY <1>2, WatchInductive, PTL DEF WatchSpec, QuietIsTrue

(* What is neither true nor carried was looked at, but for the gaps. *)
LEMMA ClosedWasLookedAt ==
  ASSUME NEW s, NEW at, NEW prior, NEW key \in OpenKeys(prior), KeyOK(key),
         key \notin DOMAIN OpenAfter(s, at, prior)
  PROVE  LookedAt(s, key) \/ KnownGap(s, key)
<1> DEFINE id == key[2]
           p == s.products.page[id]
           Listed(read) == id \in DOMAIN read.page
<1>1. DomainAnswered(s, key) /\ key \notin UndeterminableKeys(s, OpenKeys(prior))
  BY DEF OpenAfter, CarriedKeys
<1>2. key = <<key[1], id>> /\ key[1] \in Kinds /\ (key[1] = "drop" => id = "revenue")
  BY DEF KeyOK
<1>3. s[ReadBehind[key[1]]].ok
  BY <1>1 DEF DomainAnswered
<1>4. CASE key[1] \in {"cover", "dead", "margin"}
  <2>1. s.products.ok
    BY <1>3, <1>4 DEF ReadBehind, Kinds
  <2>2. key \notin ProductUndeterminable(s) /\ key \notin OffPage(s, OpenKeys(prior))
    BY <1>1 DEF UndeterminableKeys
  <2>3. Listed(s.products) \/ ~s.products.full
    BY <1>4, <2>1, <2>2 DEF OffPage
  <2>4. CASE ~Listed(s.products)
    BY <1>4, <2>1, <2>3, <2>4 DEF LookedAt
  <2>5. CASE Listed(s.products) /\ key[1] = "margin"
    <3>1. Known(MarginPctOf(p))
      BY <1>2, <2>1, <2>2, <2>5 DEF ProductUndeterminable, Rows
    <3>2. p.cost > 0 /\ p.price > 0
      BY <3>1 DEF Known, MarginPctOf, CostOf, Unknown
    <3>3. QED BY <2>1, <2>5, <3>2 DEF LookedAt
  <2>6. CASE Listed(s.products) /\ key[1] = "dead"
    <3>1. Known(VelocityOf(p)) /\ Known(CostOf(p)) /\ p.reorderPoint > 0
      BY <1>2, <2>1, <2>2, <2>6 DEF ProductUndeterminable, Rows
    <3>2. p.weeks # <<>> /\ p.cost > 0
      BY <3>1 DEF Known, VelocityOf, CostOf, Unknown
    <3>3. QED BY <2>1, <2>6, <3>1, <3>2 DEF LookedAt
  <2>7. CASE Listed(s.products) /\ key[1] = "cover"
    <3>1. Known(DaysOfCover(p)) /\ Known(LeadTimeDays(s, id))
      BY <1>2, <2>1, <2>2, <2>7 DEF ProductUndeterminable, Rows
    <3>2. p.weeks # <<>>
      BY <3>1 DEF Known, DaysOfCover, VelocityOf, Unknown
    <3>3. s.suppliers.ok /\ p.supplier \in DOMAIN s.suppliers.page
          /\ id \in DOMAIN s.suppliers.page[p.supplier].offers
      BY <3>1 DEF Known, LeadTimeDays, Unknown
    <3>4. QED BY <2>1, <2>7, <3>2, <3>3 DEF LookedAt
  <2>8. QED BY <1>4, <2>4, <2>5, <2>6, <2>7
<1>5. CASE key[1] = "drop"
  <2>1. s.sales.ok
    BY <1>3, <1>5 DEF ReadBehind, Kinds
  <2>2. SalesMeasured(s.sales)
    BY <1>1, <1>2, <1>5, <2>1 DEF UndeterminableKeys
  <2>3. QED BY <1>5, <2>1, <2>2 DEF LookedAt, SalesMeasured
<1>6. CASE key[1] = "carts"
  BY <1>3, <1>6 DEF ReadBehind, Kinds, LookedAt
<1>7. CASE key[1] = "delay"
  <2>1. s.suppliers.ok
    BY <1>3, <1>7 DEF ReadBehind, Kinds
  <2>2. Listed(s.suppliers) => s.suppliers.page[id].delay # {}
    BY <1>1, <1>2, <1>7, <2>1 DEF UndeterminableKeys, Rows, Known, Unknown
  <2>3. QED BY <1>7, <2>1, <2>2 DEF LookedAt, KnownGap, Rows
<1>8. CASE key[1] \in {"rto", "slow", "stagnant"}
  <2> DEFINE c == s.courier.page[id]
  <2>1. s.courier.ok
    BY <1>3, <1>8 DEF ReadBehind, Kinds
  <2>2. key \notin CourierUndeterminable(s)
    BY <1>1 DEF UndeterminableKeys
  <2>3. Listed(s.courier) /\ key[1] = "rto" => c.rto # {} /\ c.evidence
    BY <1>2, <2>1, <2>2 DEF CourierUndeterminable, RateIsEvidence, Rows, Known, Unknown
  <2>4. Listed(s.courier) /\ key[1] = "slow" => c.days # {} /\ c.evidence /\ c.sample >= 10
    BY <1>2, <2>1, <2>2 DEF CourierUndeterminable, MeanIsEvidence, Rows, Known, Unknown
  <2>5. CASE Listed(s.courier)
    BY <1>8, <2>1, <2>3, <2>4, <2>5 DEF LookedAt
  <2>6. CASE ~Listed(s.courier)
    BY <1>8, <2>1, <2>6 DEF LookedAt, KnownGap
  <2>7. QED BY <2>5, <2>6
<1>9. QED BY <1>2, <1>4, <1>5, <1>6, <1>7, <1>8 DEF Kinds

(***************************************************************************)
(* A condition the last pulse left open is closed only by a pulse that     *)
(* read what the condition is made of (pulse-compare.ts, nextSnapshot); a  *)
(* stub of a supplier and a courier off a truncated read are the gaps.     *)
(***************************************************************************)
THEOREM ClosesOnlyTheSeen == WatchSpec => ForgetsNothingUnseen
<1>1. ASSUME WatchIInv, [WatchNext]_watchVars, NEW r \in Runs, EndsAs(r, "quiet") \/ EndsAs(r, "done"),
             snapshot' # snapshot, NEW key \in OpenKeys(me(r).prior) \ DOMAIN snapshot'.open
      PROVE  LookedAt(me(r).sense, key) \/ KnownGap(me(r).sense, key)
  <2> DEFINE m == runs[r]
             kept == OpenAfter(m.sense, m.at, m.prior)
  <2>1. Save(r)
    BY <1>1, EndsBySaving
  <2>2. snapshot' = NextMemory(m)
    BY <1>1, <2>1 DEF Save, me
  <2>3. snapshot'.open = Marked(kept, Announced(m), m.dismissed, m.at)
    BY <2>2 DEF NextMemory, NextSnapshot
  <2>4. DOMAIN snapshot'.open = DOMAIN kept
    BY <2>3 DEF Marked
  <2>5. key \in OpenKeys(m.prior) /\ key \notin DOMAIN kept
    BY <1>1, <2>4 DEF me
  <2>6. KeyOK(key)
    BY <1>1, <2>5 DEF WatchIInv, RunOK, Memory, OpenKeys
  <2>7. QED BY <2>5, <2>6, ClosedWasLookedAt DEF me
<1>2. WatchIInv /\ [WatchNext]_watchVars =>
        [\A r \in Runs : (EndsAs(r, "quiet") \/ EndsAs(r, "done")) /\ snapshot' # snapshot =>
           \A key \in OpenKeys(me(r).prior) \ DOMAIN snapshot'.open :
             LookedAt(me(r).sense, key) \/ KnownGap(me(r).sense, key)]_watchVars
  BY <1>1
<1>3. QED BY <1>2, WatchInductive, PTL DEF WatchSpec, ForgetsNothingUnseen
===============================================================================
