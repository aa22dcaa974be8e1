------------------------- MODULE CustomerTurnProofs -------------------------
(***************************************************************************)
(* What CustomerTurn keeps for every number of messages, leases, remembered *)
(* lines and faults: one order for a yes, books that agree with the shop,  *)
(* silence after a hand-over, and a row that never goes back.              *)
(***************************************************************************)
EXTENDS CustomerTurn, TLAPS

-----------------------------------------------------------------------------
(* A context, and what a turn does to it. *)

Lines == Messages \cup {Novas}

LEMMA NumbersAre ==
  /\ MaxMessages \in Nat /\ MaxLeases \in Nat /\ MaxOrders \in Nat /\ MaxFaults \in Nat
  /\ RecentMax \in Nat /\ RecentMax > 0 /\ Messages \subseteq Nat \ {0} /\ Keys \subseteq Nat
BY TurnAssumption DEF Messages, Keys

LEMMA NoContextIsNone == NoContext \notin Contexts
<1>1. ASSUME NEW c \in Contexts
      PROVE  c # NoContext
  <2>1. "cart" \in DOMAIN c /\ "cart" \notin DOMAIN NoContext
    BY DEF Contexts, Context, NoContext
  <2>2. QED BY <2>1
<1>2. QED BY <1>1

LEMMA ContextHas ==
  ASSUME NEW c \in Contexts
  PROVE  /\ c \in Context /\ c.recent \in Seq(Lines) /\ Len(c.recent) <= RecentMax
         /\ c.filed \in Seq(Entry) /\ c.orders \in Nat /\ c.version \in Nat /\ c.cart \in Carts
         /\ c.escalated \in BOOLEAN /\ KeyOf(c) \in Nat
BY DEF Contexts, Context, Lines, KeyOf

(* Nothing but the cart, what was presented and the mute differs. *)
SameRecord(c, d) ==
  d.orders = c.orders /\ d.filed = c.filed /\ d.recent = c.recent /\ d.version = c.version

LEMMA CurrentIs ==
  ASSUME TypeOK
  PROVE  /\ Current \in Contexts
         /\ mem # NoContext => mem \in Contexts /\ Current = mem
         /\ mem = NoContext => Current = row
BY NoContextIsNone DEF TypeOK, Current

LEMMA BumpedIs ==
  ASSUME NEW c \in Contexts
  PROVE  /\ Bumped(c) \in Contexts /\ Bumped(c).version = c.version + 1
         /\ Bumped(c).orders = c.orders /\ Bumped(c).filed = c.filed
         /\ Bumped(c).recent = c.recent /\ Bumped(c).escalated = c.escalated
BY DEF Bumped, Contexts, Context

LEMMA CartIs == EmptyCart \in Carts
BY DEF EmptyCart, Carts

LEMMA FreshIs == Fresh \in Contexts
<1>1. <<>> \in Seq(Entry) /\ <<>> \in Seq(Messages \cup {Novas}) /\ Len(<<>>) = 0
  OBVIOUS
<1>2. QED BY <1>1, CartIs, NumbersAre DEF Fresh, Contexts, Context

LEMMA AppliedIs ==
  ASSUME NEW c \in Contexts, NEW content \in Content
  PROVE  /\ Applied(c, content) \in Contexts /\ SameRecord(c, Applied(c, content))
         /\ Applied(c, content).escalated = c.escalated
<1>1. CASE content.says = "qty"
  <2>1. content.qty \in Quantities
    BY <1>1 DEF Content
  <2>2. QED BY <1>1, <2>1 DEF Applied, Contexts, Context, Carts, SameRecord
<1>2. CASE content.says = "size"
  BY <1>2 DEF Applied, Contexts, Context, Carts, SameRecord
<1>3. CASE content.says \notin {"qty", "size"}
  BY <1>3 DEF Applied, SameRecord
<1>4. QED BY <1>1, <1>2, <1>3

LEMMA PresentsIs ==
  ASSUME NEW c \in Contexts, NEW action
  PROVE  /\ Presents(c, action) \in Contexts /\ SameRecord(c, Presents(c, action))
         /\ Presents(c, action).escalated = c.escalated
BY DEF Presents, Contexts, Context, SameRecord

LEMMA MutedIs ==
  ASSUME NEW c \in Contexts, NEW status
  PROVE  /\ Muted(c, status) \in Contexts /\ SameRecord(c, Muted(c, status))
         /\ status = "executed" => Muted(c, status).escalated
BY DEF Muted, Contexts, Context, SameRecord

(* An order counts under its key, at once or as a card on the desk. *)
LEMMA AfterIs ==
  ASSUME NEW c \in Contexts, NEW status, KeyOf(c) \in Keys
  PROVE  /\ After(c, status) \in Contexts
         /\ After(c, status).recent = c.recent /\ After(c, status).version = c.version
         /\ After(c, status).escalated = c.escalated
         /\ KeyOf(After(c, status)) = IF status \in {"executed", "prepared"} THEN KeyOf(c) + 1 ELSE KeyOf(c)
         /\ \/ After(c, status).filed = c.filed
            \/ After(c, status).filed = Append(c.filed, [key |-> KeyOf(c), state |-> "pending"])
<1>1. CASE status = "executed"
  <2> DEFINE counted == c.orders + 1
  <2>1. After(c, status) = [c EXCEPT !.cart = EmptyCart, !.confirm = FALSE, !.orders = counted]
    BY <1>1 DEF After, Cleared, Contexts, Context
  <2>a. counted \in Nat
    BY ContextHas
  <2> HIDE DEF counted
  <2>b. After(c, status) \in Contexts /\ After(c, status).filed = c.filed
        /\ After(c, status).orders = counted /\ After(c, status).recent = c.recent
        /\ After(c, status).version = c.version /\ After(c, status).escalated = c.escalated
    BY <2>1, <2>a, CartIs DEF Contexts, Context
  <2>2. After(c, status) \in Contexts /\ After(c, status).filed = c.filed
        /\ After(c, status).orders = c.orders + 1 /\ After(c, status).recent = c.recent
        /\ After(c, status).version = c.version /\ After(c, status).escalated = c.escalated
    BY <2>b DEF counted
  <2>3. KeyOf(After(c, status)) = KeyOf(c) + 1
    <3>1. c.orders \in Nat /\ Len(c.filed) \in Nat
      BY ContextHas
    <3>2. QED BY <2>2, <3>1 DEF KeyOf
  <2>4. QED BY <1>1, <2>2, <2>3
<1>2. CASE status = "prepared"
  <2> DEFINE card == [key |-> KeyOf(c), state |-> "pending"]
  <2>1. card \in Entry
    BY DEF Entry
  <2>2. After(c, status) = [c EXCEPT !.cart = EmptyCart, !.confirm = FALSE, !.filed = Append(@, card)]
    BY <1>2 DEF After, Cleared, Contexts, Context
  <2>3. c.filed \in Seq(Entry) /\ c.orders \in Nat
    BY ContextHas
  <2>4. Append(c.filed, card) \in Seq(Entry) /\ Len(Append(c.filed, card)) = Len(c.filed) + 1
    BY <2>1, <2>3
  <2> HIDE DEF card
  <2>5. After(c, status) \in Contexts /\ After(c, status).filed = Append(c.filed, card)
        /\ After(c, status).orders = c.orders /\ After(c, status).recent = c.recent
        /\ After(c, status).version = c.version /\ After(c, status).escalated = c.escalated
    BY <2>2, <2>4, CartIs DEF Contexts, Context
  <2>6. KeyOf(After(c, status)) = KeyOf(c) + 1
    BY <2>3, <2>4, <2>5 DEF KeyOf
  <2>7. QED BY <1>2, <2>5, <2>6 DEF card
<1>3. CASE status \notin {"executed", "prepared"}
  BY <1>3 DEF After
<1>4. QED BY <1>1, <1>2, <1>3

(* What the newest line drops is the oldest, and only from a full memory. *)
LEMMA PushedIs ==
  ASSUME NEW lines \in Seq(Lines), Len(lines) <= RecentMax, NEW line \in Lines
  PROVE  /\ Pushed(lines, line) \in Seq(Lines) /\ Len(Pushed(lines, line)) <= RecentMax
         /\ \E i \in DOMAIN Pushed(lines, line) : Pushed(lines, line)[i] = line
         /\ \A i \in DOMAIN lines :
              \/ \E j \in DOMAIN Pushed(lines, line) : Pushed(lines, line)[j] = lines[i]
              \/ Len(lines) = RecentMax /\ lines[i] = Head(lines)
<1> DEFINE all == Append(lines, line)
<1>1. /\ all \in Seq(Lines) /\ Len(all) = Len(lines) + 1 /\ all[Len(lines) + 1] = line
      /\ \A i \in 1..Len(lines) : all[i] = lines[i]
      /\ Len(lines) \in Nat
  OBVIOUS
<1>2. Pushed(lines, line) = IF Len(all) > RecentMax THEN Tail(all) ELSE all
  BY DEF Pushed
<1> HIDE DEF all
<1>3. CASE Len(all) > RecentMax
  <2>1. Len(lines) = RecentMax /\ all # <<>>
    BY <1>1, <1>3, NumbersAre
  <2>2. /\ Tail(all) \in Seq(Lines) /\ Len(Tail(all)) = Len(lines)
        /\ \A i \in 1..Len(lines) : Tail(all)[i] = all[i + 1]
    BY <1>1, <2>1
  <2>3. Len(lines) \in 1..Len(lines) /\ Tail(all)[Len(lines)] = line
    BY <1>1, <2>1, <2>2, NumbersAre
  <2>4. ASSUME NEW i \in 1..Len(lines), i # 1
        PROVE  i - 1 \in 1..Len(lines) /\ Tail(all)[i - 1] = lines[i]
    BY <1>1, <2>2, <2>4
  <2>5. lines[1] = Head(lines)
    OBVIOUS
  <2>6. \A i \in DOMAIN lines :
          \/ \E j \in DOMAIN Tail(all) : Tail(all)[j] = lines[i]
          \/ Len(lines) = RecentMax /\ lines[i] = Head(lines)
    <3>1. DOMAIN lines = 1..Len(lines) /\ DOMAIN Tail(all) = 1..Len(lines)
      BY <2>2
    <3>2. QED BY <3>1, <2>1, <2>4, <2>5
  <2>7. \E i \in DOMAIN Tail(all) : Tail(all)[i] = line
    BY <2>2, <2>3
  <2>8. QED BY <1>2, <1>3, <2>1, <2>2, <2>6, <2>7
<1>4. CASE ~(Len(all) > RecentMax)
  BY <1>1, <1>2, <1>4, NumbersAre
<1>5. QED BY <1>3, <1>4

LEMMA RecentIs ==
  ASSUME NEW c \in Contexts, NEW line \in Lines
  PROVE  LET d == [c EXCEPT !.recent = Pushed(@, line)]
         IN /\ d \in Contexts /\ d.recent = Pushed(c.recent, line) /\ d.orders = c.orders
            /\ d.filed = c.filed /\ d.version = c.version /\ d.escalated = c.escalated
<1>1. Pushed(c.recent, line) \in Seq(Lines) /\ Len(Pushed(c.recent, line)) <= RecentMax
  BY ContextHas, PushedIs
<1>2. QED BY <1>1 DEF Contexts, Context, Lines

LEMMA ReconciledIs ==
  ASSUME NEW c \in Contexts
  PROVE  /\ Reconciled(c) \in Contexts /\ KeyOf(Reconciled(c)) = KeyOf(c)
         /\ Reconciled(c).recent = c.recent /\ Reconciled(c).version = c.version
         /\ Reconciled(c).escalated = c.escalated
         /\ Reconciled(c).filed = [i \in DOMAIN c.filed |-> Settled(c.filed[i])]
<1>1. \A entry \in Entry : Settled(entry) \in Entry
  BY DEF Settled, Entry
<1> DEFINE filed == [i \in DOMAIN c.filed |-> Settled(c.filed[i])]
<1>2. c.filed \in Seq(Entry) /\ c.orders \in Nat
  BY ContextHas
<1>3. filed \in [1..Len(c.filed) -> Entry]
  BY <1>1, <1>2
<1>4. filed \in Seq(Entry) /\ Len(filed) = Len(c.filed)
  BY <1>2, <1>3
<1>5. Reconciled(c) = [c EXCEPT !.filed = filed]
  BY DEF Reconciled
<1> HIDE DEF filed
<1>6. Reconciled(c) \in Contexts /\ Reconciled(c).filed = filed /\ Reconciled(c).orders = c.orders
      /\ Reconciled(c).recent = c.recent /\ Reconciled(c).version = c.version
      /\ Reconciled(c).escalated = c.escalated
  BY <1>4, <1>5 DEF Contexts, Context
<1>7. QED BY <1>2, <1>4, <1>6 DEF KeyOf, filed

-----------------------------------------------------------------------------
(* The turns under the lock, and their jobs. *)

Turns == [msg : Messages, lease : 1..MaxLeases, read : BOOLEAN]
Jobs == [status : {"none", "due", "leased", "done"}, lease : 0..MaxLeases]
Steps == [pc : {"idle", "take", "classify", "check", "order", "handover", "write"},
          action : {"none", "ask", "summary", "order", "handover", "placed", "refused"}]

LEMMA QueueIs ==
  ASSUME TypeOK
  PROVE  /\ queue \in Seq(Turns) /\ DOMAIN queue = 1..Len(queue) /\ Len(queue) \in Nat
         /\ job \in [Messages -> Jobs] /\ turn \in Steps
         /\ queue # <<>> =>
              /\ 1 \in DOMAIN queue /\ Head(queue) = queue[1] /\ Head(queue) \in Turns
              /\ Me \in Messages /\ Me = queue[1].msg
              /\ Tail(queue) \in Seq(Turns) /\ Len(Tail(queue)) = Len(queue) - 1
              /\ \A i \in DOMAIN Tail(queue) : i + 1 \in DOMAIN queue /\ Tail(queue)[i] = queue[i + 1]
<1>1. queue \in Seq(Turns) /\ job \in [Messages -> Jobs] /\ turn \in Steps
  BY DEF TypeOK, Turns, Jobs, Steps
<1>2. DOMAIN queue = 1..Len(queue) /\ Len(queue) \in Nat
  BY <1>1
<1>3. ASSUME queue # <<>>
      PROVE  /\ 1 \in DOMAIN queue /\ Head(queue) = queue[1] /\ Head(queue) \in Turns
             /\ Me \in Messages /\ Me = queue[1].msg
             /\ Tail(queue) \in Seq(Turns) /\ Len(Tail(queue)) = Len(queue) - 1
             /\ \A i \in DOMAIN Tail(queue) : i + 1 \in DOMAIN queue /\ Tail(queue)[i] = queue[i + 1]
  <2>1. 1 \in DOMAIN queue /\ Head(queue) = queue[1] /\ Head(queue) \in Turns
    BY <1>1, <1>3
  <2>2. Tail(queue) \in Seq(Turns) /\ Len(Tail(queue)) = Len(queue) - 1
    BY <1>1, <1>3
  <2>3. \A i \in DOMAIN Tail(queue) : i + 1 \in DOMAIN queue /\ Tail(queue)[i] = queue[i + 1]
    BY <1>1, <1>3
  <2>4. QED BY <2>1, <2>2, <2>3 DEF Me, Turns
<1>4. QED BY <1>1, <1>2, <1>3

(* A turn settles its own job, if it holds it still. *)
LEMMA SettlesIs ==
  ASSUME TypeOK, queue # <<>>, NEW status \in {"due", "done"}, Settles(status)
  PROVE  /\ job' \in [Messages -> Jobs]
         /\ \A m \in Messages : job'[m].lease = job[m].lease
         /\ \A m \in Messages : job'[m] # job[m] =>
              m = Me /\ job[m].status = "leased" /\ job[m].lease = queue[1].lease /\ job'[m].status = status
<1>1. Me \in Messages /\ Head(queue) = queue[1] /\ job \in [Messages -> Jobs]
  BY QueueIs
<1>2. CASE job[Me] = [status |-> "leased", lease |-> Head(queue).lease]
  <2>1. job' = [job EXCEPT ![Me].status = status]
    BY <1>2 DEF Settles
  <2>2. QED BY <1>1, <1>2, <2>1 DEF Jobs
<1>3. CASE job[Me] # [status |-> "leased", lease |-> Head(queue).lease]
  BY <1>1, <1>3 DEF Settles
<1>4. QED BY <1>2, <1>3

(* The end of a turn: its job is settled, and the lock passed on. *)
Ends ==
  /\ queue # <<>> /\ (\E status \in {"due", "done"} : Settles(status))
  /\ queue' = Tail(queue) /\ turn' = Idle /\ thread' = thread

Stays == UNCHANGED <<thread, job, queue>> /\ turn'.pc # "idle" /\ turn' \in Steps

LEMMA TurnStays ==
  ASSUME TypeOK, TurnOK,
         Load \/ TakeIn \/ Classify \/ Validate \/ CreateOrder \/ ReplayOrder \/ Unavailable
           \/ HandOver \/ Write \/ Throw
  PROVE  queue # <<>> /\ (Ends \/ Stays)
<1> USE QueueIs
<1>0. queue # <<>>
  BY DEF TurnOK, Load, TakeIn, Classify, Validate, CreateOrder, ReplayOrder, Unavailable, HandOver, Write, Throw
<1>1. (\E status \in {"due", "done"} : Leaves(status)) => Ends
  BY <1>0 DEF Leaves, Ends
<1>2. Throws /\ UNCHANGED thread => Ends
  BY <1>0 DEF Throws, Ends
<1>3. Load => Stays
  <2>1. ASSUME Load PROVE turn' \in Steps /\ turn'.pc = "take"
    BY <2>1 DEF Load, Steps
  <2>2. QED BY <2>1 DEF Load, Stays
<1>4. TakeIn => Ends \/ Stays
  BY <1>1 DEF TakeIn, Reaches, Stays, Steps
<1>5. Classify => Stays
  BY DEF Classify, Reaches, NextBestAction, Stays, Steps
<1>6. Validate => Stays
  BY DEF Validate, Reaches, Stays, Steps
<1>7. CreateOrder => Ends \/ Stays
  BY <1>2 DEF CreateOrder, Answers, AnswerLost, Reaches, Stays, Steps
<1>8. ReplayOrder => Ends \/ Stays
  BY <1>2 DEF ReplayOrder, Answers, Reaches, Stays, Steps
<1>9. Unavailable => Stays
  BY DEF Unavailable, Reaches, Stays, Steps
<1>10. HandOver => Ends \/ Stays
  BY <1>1, <1>2 DEF HandOver, AnswerLost, Reaches, Stays, Steps
<1>11. Write => Ends
  BY <1>1 DEF Write
<1>12. Throw => Ends
  BY <1>2 DEF Throw
<1>13. QED BY <1>0, <1>3, <1>4, <1>5, <1>6, <1>7, <1>8, <1>9, <1>10, <1>11, <1>12

-----------------------------------------------------------------------------
(* What a turn does to the context and to the write chain. *)

Books(c, d) == d.orders = c.orders /\ d.filed = c.filed /\ KeyOf(d) = KeyOf(c)

(* The context in memory is worked on, or worked on and saved. *)
Works ==
  /\ mem \in Contexts /\ mem' \in Contexts /\ row' = row
  /\ \/ saves' = saves /\ mem'.version = mem.version
     \/ saves' = Append(saves, mem') /\ mem'.version = mem.version + 1

LEMMA SavedWorks ==
  ASSUME mem \in Contexts, NEW c \in Contexts, c.version = mem.version, Saved(c), row' = row
  PROVE  /\ Works /\ mem'.recent = c.recent /\ mem'.escalated = c.escalated
         /\ Books(c, mem')
BY BumpedIs DEF Saved, Enqueued, Works, Books, KeyOf

LEMMA TakeInWorks ==
  ASSUME TypeOK, TurnOK, TakeIn
  PROVE  /\ Works /\ Books(mem, mem') /\ mem'.escalated = mem.escalated
         /\ \/ Ends /\ mem' = mem /\ lost' = lost
            \/ /\ mem'.recent = Pushed(mem.recent, Me) /\ ~Absorbed(mem, Me)
               /\ lost' = IF Forgets(mem.recent) THEN lost \cup {"line"} ELSE lost
               /\ Ends \/ (~mem.escalated /\ Stays /\ turn'.pc = "classify")
<1>1. mem \in Contexts /\ queue # <<>> /\ Me \in Lines
  BY CurrentIs, QueueIs DEF TakeIn, TurnOK, Lines
<1>2. CASE Leaves("done") /\ UNCHANGED <<mem, saves, lost>>
  BY <1>1, <1>2 DEF Leaves, Works, Books, Ends
<1> DEFINE taken == [mem EXCEPT !.recent = Pushed(@, Me)]
<1>3. taken \in Contexts /\ taken.recent = Pushed(mem.recent, Me) /\ taken.version = mem.version
      /\ taken.escalated = mem.escalated /\ Books(mem, taken)
  BY <1>1, RecentIs DEF Books, KeyOf
<1> HIDE DEF taken
<1>4. CASE /\ ~Absorbed(mem, Me) /\ mem.escalated /\ Saved(taken) /\ Leaves("done")
           /\ lost' = IF Forgets(mem.recent) THEN lost \cup {"line"} ELSE lost
  <2>1. row' = row /\ Ends
    BY <1>1, <1>4 DEF Leaves, Ends
  <2>2. Works /\ mem'.recent = taken.recent /\ mem'.escalated = taken.escalated /\ Books(taken, mem')
    BY <1>1, <1>3, <1>4, <2>1, SavedWorks
  <2>3. QED BY <1>3, <1>4, <2>1, <2>2 DEF Books
<1>5. CASE /\ ~Absorbed(mem, Me) /\ ~mem.escalated /\ mem' = taken /\ Reaches("classify", "none")
           /\ lost' = IF Forgets(mem.recent) THEN lost \cup {"line"} ELSE lost
           /\ UNCHANGED <<thread, job, queue, row, saves>>
  <2>1. Stays /\ turn'.pc = "classify"
    BY <1>5 DEF Reaches, Stays, Steps
  <2>2. Works /\ Books(mem, mem')
    BY <1>1, <1>3, <1>5 DEF Works
  <2>3. QED BY <1>3, <1>5, <2>1, <2>2
<1>6. QED BY <1>2, <1>4, <1>5 DEF TakeIn, taken

LEMMA SaidIsContent ==
  ASSUME TypeOK, JobsOK, queue # <<>>
  PROVE  Said \in Content
<1>1. Me \in 1..Len(thread) /\ thread \in Seq(Content)
  BY QueueIs DEF JobsOK, TypeOK, Messages
<1>2. QED BY <1>1 DEF Said

(* No line is said, and no save is made, between the taking in and the end. *)
LEMMA ThinkingWorks ==
  ASSUME TypeOK, JobsOK, TurnOK, Classify \/ Validate \/ Unavailable
  PROVE  /\ Works /\ Books(mem, mem') /\ mem'.escalated = mem.escalated /\ mem'.recent = mem.recent
         /\ saves' = saves
<1>1. mem \in Contexts /\ queue # <<>>
  BY CurrentIs DEF Classify, Validate, Unavailable, TurnOK
<1>2. CASE Classify
  <2>1. mem' = Applied(mem, Said) /\ UNCHANGED <<row, saves>>
    BY <1>2 DEF Classify
  <2>2. QED BY <1>1, <2>1, AppliedIs, SaidIsContent DEF SameRecord, Works, Books, KeyOf
<1>3. CASE Validate
  <2>1. mem' = Presents(mem, turn.action) /\ UNCHANGED <<row, saves>>
    BY <1>3 DEF Validate
  <2>2. QED BY <1>1, <2>1, PresentsIs DEF SameRecord, Works, Books, KeyOf
<1>4. CASE Unavailable
  BY <1>1, <1>4 DEF Unavailable, stored, Works, Books
<1>5. QED BY <1>2, <1>3, <1>4

LEMMA OrderWorks ==
  ASSUME TypeOK, TurnOK, CreateOrder \/ ReplayOrder
  PROVE  /\ Works /\ mem'.escalated = mem.escalated /\ mem'.recent = mem.recent /\ saves' = saves
         /\ KeyOf(mem) \in Keys
         /\ mem' = mem \/ \E status \in {"executed", "prepared", "blocked", "approved", "rejected"} : mem' = After(mem, status)
<1>1. mem \in Contexts
  BY CurrentIs DEF CreateOrder, ReplayOrder, TurnOK
<1>2. UNCHANGED <<row, saves>> /\ KeyOf(mem) \in Keys
  BY DEF CreateOrder, ReplayOrder
<1>3. ledger[KeyOf(mem)] # NoOrder => ledger[KeyOf(mem)] \in Order
  BY <1>2 DEF TypeOK
<1>4. mem' = mem \/ \E status \in {"executed", "prepared", "blocked", "approved", "rejected"} : mem' = After(mem, status)
  BY <1>3 DEF CreateOrder, ReplayOrder, Answers, AnswerLost, Order
<1>5. CASE mem' = mem
  BY <1>1, <1>2, <1>5 DEF Works
<1>6. ASSUME NEW status \in {"executed", "prepared", "blocked", "approved", "rejected"}, mem' = After(mem, status)
      PROVE  Works /\ mem'.escalated = mem.escalated /\ mem'.recent = mem.recent
  <2>1. /\ After(mem, status) \in Contexts /\ After(mem, status).recent = mem.recent
        /\ After(mem, status).version = mem.version /\ After(mem, status).escalated = mem.escalated
    BY <1>1, <1>2, AfterIs
  <2>2. QED BY <1>1, <1>2, <1>6, <2>1 DEF Works
<1>7. QED BY <1>2, <1>4, <1>5, <1>6

LEMMA HandOverWorks ==
  ASSUME TypeOK, TurnOK, HandOver
  PROVE  /\ Works /\ Books(mem, mem') /\ mem'.recent = mem.recent
         /\ \/ handed' = "executed" /\ Ends /\ mem'.escalated
            \/ handed' = "blocked" /\ Stays /\ turn'.pc = "write" /\ mem'.escalated = mem.escalated
            \/ "state" \in lost'
         /\ lost' = lost \/ "state" \in lost'
<1>1. mem \in Contexts /\ queue # <<>>
  BY CurrentIs DEF HandOver, TurnOK
<1>2. PICK status \in IF handed = "none" THEN {"executed", "blocked"} ELSE {handed} :
        /\ handed' = status
        /\ \/ /\ status = "executed"
              /\ Saved(Muted(mem, status))
              /\ Leaves("done")
              /\ heard' = heard \cup {Me}
              /\ Reliably /\ UNCHANGED lost
           \/ /\ status = "blocked"
              /\ mem' = Muted(mem, status)
              /\ Reaches("write", "refused")
              /\ Reliably /\ UNCHANGED <<thread, job, queue, row, saves, heard, lost>>
           \/ /\ handed = "none"
              /\ AnswerLost
              /\ UNCHANGED <<thread, row, saves, heard>>
  BY DEF HandOver
<1>3. /\ Muted(mem, status) \in Contexts /\ SameRecord(mem, Muted(mem, status))
      /\ status = "executed" => Muted(mem, status).escalated
  BY <1>1, MutedIs
<1>4. CASE status = "executed" /\ Saved(Muted(mem, status)) /\ Leaves("done") /\ UNCHANGED lost
  <2>1. row' = row /\ Ends
    BY <1>1, <1>4 DEF Leaves, Ends
  <2>2. /\ Works /\ mem'.recent = Muted(mem, status).recent /\ mem'.escalated = Muted(mem, status).escalated
        /\ Books(Muted(mem, status), mem')
    BY <1>1, <1>3, <1>4, <2>1, SavedWorks DEF SameRecord
  <2>3. QED BY <1>2, <1>3, <1>4, <2>1, <2>2 DEF SameRecord, Books, KeyOf
<1>5. CASE /\ status = "blocked" /\ mem' = Muted(mem, status) /\ Reaches("write", "refused")
           /\ UNCHANGED <<thread, job, queue, row, saves, heard, lost>>
  <2>1. Muted(mem, status) = mem
    BY <1>5 DEF Muted
  <2>2. Stays /\ turn'.pc = "write"
    BY <1>5 DEF Stays, Reaches, Steps
  <2>3. QED BY <1>1, <1>2, <1>5, <2>1, <2>2 DEF Works, Books
<1>6. CASE AnswerLost /\ UNCHANGED <<thread, row, saves, heard>>
  <2>1. UNCHANGED mem /\ "state" \in lost'
    BY <1>6 DEF AnswerLost
  <2>2. QED BY <1>1, <1>6, <2>1 DEF Works, Books
<1>7. QED BY <1>2, <1>4, <1>5, <1>6

LEMMA WriteWorks ==
  ASSUME TypeOK, TurnOK, Write
  PROVE  /\ Works /\ Books(mem, mem') /\ mem'.escalated = mem.escalated
         /\ Ends /\ saves' = Append(saves, mem')
         /\ \/ mem'.recent = mem.recent /\ lost' = lost
            \/ /\ mem'.recent = Pushed(mem.recent, Novas)
               /\ lost' = IF Forgets(mem.recent) THEN lost \cup {"line"} ELSE lost
<1>1. mem \in Contexts /\ queue # <<>>
  BY CurrentIs DEF Write, TurnOK
<1>2. Ends /\ row' = row
  BY <1>1 DEF Write, Leaves, Ends
<1> DEFINE said == [mem EXCEPT !.recent = Pushed(@, Novas)]
<1>3. said \in Contexts /\ said.recent = Pushed(mem.recent, Novas) /\ said.version = mem.version
      /\ said.escalated = mem.escalated /\ Books(mem, said)
  BY <1>1, RecentIs DEF Books, KeyOf, Lines
<1> HIDE DEF said
<1>4. saves' = Append(saves, mem')
  BY DEF Write, Saved, Enqueued
<1>5. CASE Saved(said) /\ lost' = IF Forgets(mem.recent) THEN lost \cup {"line"} ELSE lost
  BY <1>1, <1>2, <1>3, <1>4, <1>5, SavedWorks DEF Books
<1>6. CASE Saved(mem) /\ UNCHANGED history
  <2>1. Works /\ mem'.recent = mem.recent /\ mem'.escalated = mem.escalated /\ Books(mem, mem')
    BY <1>1, <1>2, <1>6, SavedWorks
  <2>2. QED BY <1>2, <1>4, <1>6, <2>1 DEF history
<1>7. QED BY <1>5, <1>6 DEF Write, said

(* A load settles what it can of the books, or starts from nothing. *)
LEMMA LoadWorks ==
  ASSUME TypeOK, TurnOK, Load
  PROVE  /\ mem' \in Contexts /\ UNCHANGED <<row, saves>> /\ turn'.pc = "take" /\ Stays
         /\ \/ lost' = lost /\ (mem' = Current \/ mem' = Reconciled(Current))
            \/ "state" \in lost'
<1>1. Current \in Contexts /\ turn \in Steps
  BY CurrentIs, QueueIs
<1>2. Fresh \in Contexts
  BY FreshIs
<1>3. turn'.pc = "take" /\ Stays
  BY <1>1, TurnStays DEF Load, Stays, Steps
<1>4. QED BY <1>1, <1>2, <1>3, ReconciledIs DEF Load

-----------------------------------------------------------------------------
(* Types. *)

LEMMA InitTyped == Init => TypeOK
<1> DEFINE first == [Fresh EXCEPT !.known = TRUE, !.version = 1]
<1>1. first \in Contexts
  <2>1. Fresh \in Contexts
    BY FreshIs
  <2>2. QED BY <2>1 DEF Contexts, Context
<1> HIDE DEF first
<1>2. ASSUME Init
      PROVE  /\ row \in Contexts /\ mem = NoContext /\ saves = <<>> /\ thread = <<>> /\ queue = <<>>
             /\ turn = Idle /\ heard = {} /\ lost = {} /\ shown = EmptyCart /\ handed = "none" /\ faults = 0
             /\ job = [m \in Messages |-> [status |-> "none", lease |-> 0]]
             /\ ledger = [k \in Keys |-> NoOrder]
  BY <1>1, <1>2 DEF Init, first
<1>3. ASSUME Init
      PROVE  /\ job \in [Messages -> Jobs] /\ turn \in Steps
             /\ ledger \in [Keys -> Order \cup {NoOrder}]
  BY <1>2, <1>3, NumbersAre DEF Jobs, Idle, Steps
<1>4. QED BY <1>2, <1>3, CartIs, NumbersAre DEF TypeOK, Jobs, Steps

(* The context, the row and the write chain. *)
LEMMA StoresTyped ==
  ASSUME TypeOK, Works
  PROVE  mem' \in Contexts /\ row' \in Contexts /\ saves' \in Seq(Contexts)
<1>1. row \in Contexts /\ saves \in Seq(Contexts)
  BY DEF TypeOK
<1>2. mem' \in Contexts /\ row' = row /\ (saves' = saves \/ saves' = Append(saves, mem'))
  BY DEF Works
<1>3. Append(saves, mem') \in Seq(Contexts)
  BY <1>1, <1>2
<1>4. QED BY <1>1, <1>2, <1>3

(* The lock, the jobs and the thread. *)
LEMMA EndsTyped ==
  ASSUME TypeOK, Ends \/ Stays
  PROVE  /\ thread' = thread /\ job' \in [Messages -> Jobs] /\ queue' \in Seq(Turns) /\ turn' \in Steps
         /\ turn' # Idle => queue' # <<>> \/ queue = <<>>
<1>1. CASE Ends
  <2>1. job' \in [Messages -> Jobs]
    BY <1>1, SettlesIs DEF Ends
  <2>2. QED BY <1>1, <2>1, QueueIs DEF Ends, Idle, Steps
<1>2. CASE Stays
  BY <1>2, QueueIs DEF Stays
<1>3. QED BY <1>1, <1>2

LEMMA TurnTyped ==
  ASSUME TypeOK, Ends \/ Stays, Works \/ (UNCHANGED stored) \/ (mem' \in Contexts /\ UNCHANGED <<row, saves>>),
         ledger' \in [Keys -> Order \cup {NoOrder}], handed' \in {"none", "executed", "blocked"},
         heard' \subseteq Messages, shown' \in Carts, lost' \subseteq {"state", "line"}, faults' \in 0..MaxFaults
  PROVE  TypeOK'
<1>1. thread' = thread /\ job' \in [Messages -> Jobs] /\ queue' \in Seq(Turns) /\ turn' \in Steps
  BY EndsTyped
<1>2. mem' \in Contexts \cup {NoContext} /\ row' \in Contexts /\ saves' \in Seq(Contexts)
  <2>1. mem \in Contexts \cup {NoContext} /\ row \in Contexts /\ saves \in Seq(Contexts)
    BY DEF TypeOK
  <2>2. QED BY <2>1, StoresTyped DEF stored
<1>3. thread' \in Seq(Content) /\ Len(thread') <= MaxMessages
  BY <1>1 DEF TypeOK
<1>4. QED BY <1>1, <1>2, <1>3 DEF TypeOK, Turns, Jobs, Steps

LEMMA FaultsTyped ==
  ASSUME TypeOK, Faulty \/ Reliably
  PROVE  faults' \in 0..MaxFaults
BY NumbersAre DEF TypeOK, Faulty, Reliably

LEMMA StepTyped ==
  ASSUME TypeOK, JobsOK, TurnOK, Step \/ Throw
  PROVE  TypeOK'
<1>0. queue # <<>> /\ (Ends \/ Stays) /\ Me \in Messages
  BY TurnStays, QueueIs DEF Step
<1>1. CASE Load
  <2>1. mem' \in Contexts /\ UNCHANGED <<row, saves>>
    BY <1>1, LoadWorks
  <2>2. lost' \subseteq {"state", "line"} /\ faults' \in 0..MaxFaults /\ UNCHANGED <<shop, heard, shown>>
    BY <1>1, FaultsTyped DEF Load, TypeOK
  <2>3. QED BY <1>0, <2>1, <2>2, TurnTyped DEF TypeOK, shop
<1>2. CASE TakeIn
  <2>1. Works
    BY <1>2, TakeInWorks
  <2>2. lost' \subseteq {"state", "line"} /\ faults' \in 0..MaxFaults /\ UNCHANGED <<shop, heard, shown>>
    BY <1>2, FaultsTyped DEF TakeIn, TypeOK
  <2>3. QED BY <1>0, <2>1, <2>2, TurnTyped DEF TypeOK, shop
<1>3. CASE Classify \/ Validate \/ Unavailable
  <2>1. Works
    BY <1>3, ThinkingWorks
  <2>2. faults' \in 0..MaxFaults /\ UNCHANGED <<shop, history>>
    BY <1>3, FaultsTyped DEF Classify, Validate, Unavailable
  <2>3. QED BY <1>0, <2>1, <2>2, TurnTyped DEF TypeOK, shop, history
<1>4. CASE CreateOrder
  <2>1. Works /\ KeyOf(mem) \in Keys /\ mem \in Contexts
    BY <1>4, OrderWorks DEF Works
  <2>2. /\ lost' \subseteq {"state", "line"} /\ faults' \in 0..MaxFaults /\ UNCHANGED <<handed, heard, shown>>
        /\ \E status \in {"executed", "prepared", "blocked"} : NewOrder(status)
    BY <1>4, FaultsTyped DEF CreateOrder, Answers, AnswerLost, Throws, TypeOK
  <2>3. \A status \in {"executed", "prepared", "blocked"} :
          [by |-> Me, cart |-> mem.cart, status |-> status] \in Order
    BY <1>0, <2>1, ContextHas DEF Order
  <2>4. ledger' \in [Keys -> Order \cup {NoOrder}]
    <3>1. PICK status \in {"executed", "prepared", "blocked"} :
            ledger' = [ledger EXCEPT ![KeyOf(mem)] = [by |-> Me, cart |-> mem.cart, status |-> status]]
      BY <2>2 DEF NewOrder
    <3>2. ledger \in [Keys -> Order \cup {NoOrder}]
      BY DEF TypeOK
    <3>3. QED BY <2>3, <3>1, <3>2
  <2>5. QED BY <1>0, <2>1, <2>2, <2>4, TurnTyped DEF TypeOK
<1>5. CASE ReplayOrder
  <2>1. Works
    BY <1>5, OrderWorks
  <2>2. faults' \in 0..MaxFaults /\ UNCHANGED <<shop, heard, shown, lost>>
    BY <1>5, FaultsTyped DEF ReplayOrder, Answers, Throws
  <2>3. QED BY <1>0, <2>1, <2>2, TurnTyped DEF TypeOK, shop
<1>6. CASE HandOver
  <2>1. Works
    BY <1>6, HandOverWorks
  <2>2. handed' \in {"none", "executed", "blocked"}
    BY <1>6 DEF HandOver, TypeOK
  <2>3. /\ lost' \subseteq {"state", "line"} /\ faults' \in 0..MaxFaults /\ UNCHANGED <<ledger, shown>>
        /\ heard' \in {heard, heard \cup {Me}}
    BY <1>6, FaultsTyped DEF HandOver, AnswerLost, Throws, TypeOK
  <2>4. QED BY <1>0, <2>1, <2>2, <2>3, TurnTyped DEF TypeOK
<1>7. CASE Write
  <2>1. Works /\ mem \in Contexts
    BY <1>7, WriteWorks DEF Works
  <2>2. /\ lost' \subseteq {"state", "line"} /\ faults' \in 0..MaxFaults /\ UNCHANGED shop
        /\ heard' \in {heard, heard \cup {Me}} /\ shown' \in {shown, mem.cart}
    BY <1>7, FaultsTyped DEF Write, history, TypeOK
  <2>3. QED BY <1>0, <2>1, <2>2, ContextHas, TurnTyped DEF TypeOK, shop
<1>8. CASE Throw
  <2>1. faults' \in 0..MaxFaults /\ UNCHANGED <<stored, shop, history>>
    BY <1>8, FaultsTyped DEF Throw, Throws
  <2>2. QED BY <1>0, <2>1, TurnTyped DEF TypeOK, stored, shop, history
<1>9. QED BY <1>1, <1>2, <1>3, <1>4, <1>5, <1>6, <1>7, <1>8 DEF Step

LEMMA NextTyped ==
  ASSUME TypeOK, JobsOK, TurnOK, [Next]_vars
  PROVE  TypeOK'
<1>1. CASE UNCHANGED vars
  BY <1>1 DEF vars, stored, shop, history, TypeOK
<1>2. CASE Step \/ Throw
  BY <1>2, StepTyped
<1>3. CASE Arrive
  <2>1. thread' \in Seq(Content) /\ Len(thread') <= MaxMessages
    BY <1>3, NumbersAre DEF Arrive, TypeOK
  <2>2. job' \in [Messages -> Jobs]
    BY <1>3, QueueIs DEF Arrive, Jobs
  <2>3. QED BY <1>3, <2>1, <2>2 DEF Arrive, TypeOK, stored, shop, history, Jobs
<1>4. ASSUME NEW m \in Messages, Lease(m)
      PROVE  TypeOK'
  <2>1. job[m] \in Jobs /\ job[m].lease + 1 \in 1..MaxLeases
    BY <1>4, QueueIs, NumbersAre DEF Lease, Jobs
  <2>2. job' \in [Messages -> Jobs]
    BY <1>4, <2>1, QueueIs DEF Lease, Jobs
  <2>3. queue' \in Seq(Turns)
    BY <1>4, <2>1, QueueIs DEF Lease, Turns
  <2>4. faults' \in 0..MaxFaults
    BY <1>4, FaultsTyped DEF Lease
  <2>5. QED BY <1>4, <2>2, <2>3, <2>4 DEF Lease, TypeOK, stored, shop, history, Jobs, Turns
<1>5. ASSUME NEW m \in Messages, Lapse(m)
      PROVE  TypeOK'
  <2>1. job' \in [Messages -> Jobs]
    BY <1>5, QueueIs DEF Lapse, Jobs
  <2>2. faults' \in 0..MaxFaults
    BY <1>5, FaultsTyped DEF Lapse
  <2>3. QED BY <1>5, <2>1, <2>2 DEF Lapse, TypeOK, stored, shop, history, Jobs
<1>6. CASE SaveLands \/ SaveFails
  <2>1. row' \in Contexts /\ saves' \in Seq(Contexts)
    <3>1. row \in Contexts /\ saves \in Seq(Contexts) /\ saves # <<>>
      BY <1>6 DEF SaveLands, SaveFails, TypeOK
    <3>2. Head(saves) \in Contexts /\ Tail(saves) \in Seq(Contexts)
      BY <3>1
    <3>3. QED BY <1>6, <3>1, <3>2 DEF SaveLands, SaveFails
  <2>2. faults' \in 0..MaxFaults
    BY <1>6, FaultsTyped DEF SaveLands, SaveFails, Reliably
  <2>3. QED BY <1>6, <2>1, <2>2 DEF SaveLands, SaveFails, TypeOK, shop, history
<1>7. CASE Crash
  <2>1. faults' \in 0..MaxFaults
    BY <1>7, FaultsTyped DEF Crash
  <2>2. saves' \in Seq(Contexts) /\ queue' \in Seq(Turns) /\ turn' \in Steps
    BY <1>7 DEF Crash, Idle, Steps
  <2>3. lost' \subseteq {"state", "line"}
    BY <1>7 DEF Crash, TypeOK
  <2>4. QED BY <1>7, <2>1, <2>2, <2>3 DEF Crash, TypeOK, shop, Steps, Turns
<1>8. ASSUME NEW k \in Keys, Decide(k)
      PROVE  TypeOK'
  <2>1. ledger' \in [Keys -> Order \cup {NoOrder}]
    <3>1. ledger[k] \in Order
      BY <1>8 DEF Decide, TypeOK, NoOrder
    <3>2. \A status \in {"approved", "rejected"} : [ledger[k] EXCEPT !.status = status] \in Order
      BY <3>1 DEF Order
    <3>3. ledger \in [Keys -> Order \cup {NoOrder}]
      BY DEF TypeOK
    <3>4. PICK status \in {"approved", "rejected"} : ledger' = [ledger EXCEPT ![k].status = status]
      BY <1>8 DEF Decide
    <3>5. ledger' = [ledger EXCEPT ![k] = [ledger[k] EXCEPT !.status = status]]
      BY <3>4
    <3>6. QED BY <3>2, <3>3, <3>4, <3>5
  <2>2. QED BY <1>8, <2>1 DEF Decide, TypeOK, stored, history
<1>9. QED BY <1>1, <1>2, <1>3, <1>4, <1>5, <1>6, <1>7, <1>8 DEF Next

-----------------------------------------------------------------------------
(* The jobs, and the turns that wait for the lock. *)

TurnJobOK(i) ==
  LET m == queue[i].msg
  IN /\ m <= Len(thread) /\ job[m].status \in {"due", "leased"}
     /\ queue[i].lease <= job[m].lease
     /\ \A j \in DOMAIN queue : i < j /\ queue[j].msg = m => queue[i].lease < queue[j].lease

LEMMA JobIs ==
  ASSUME TypeOK
  PROVE  /\ \A m \in Messages : job[m] \in Jobs /\ job[m].lease \in Nat
         /\ \A i \in DOMAIN queue : queue[i].msg \in Messages /\ queue[i].lease \in Nat /\ i \in Nat
         /\ Len(thread) \in Nat
<1>1. \A m \in Messages : job[m] \in Jobs
  BY QueueIs
<1>2. \A i \in DOMAIN queue : queue[i] \in Turns /\ i \in Nat
  BY QueueIs
<1>3. Len(thread) \in Nat
  BY DEF TypeOK
<1>4. QED BY <1>1, <1>2, <1>3, NumbersAre DEF Jobs, Turns

(* Once the turn that holds the job has settled it, no turn of its message waits. *)
LEMMA EndsJobs ==
  ASSUME TypeOK, JobsOK, Ends
  PROVE  JobsOK'
<1>1. PICK status \in {"due", "done"} : Settles(status)
  BY DEF Ends
<1>2. /\ \A m \in Messages : job'[m].lease = job[m].lease
      /\ \A m \in Messages : job'[m] # job[m] =>
           m = Me /\ job[m].status = "leased" /\ job[m].lease = queue[1].lease /\ job'[m].status = status
  BY <1>1, SettlesIs DEF Ends
<1>3. /\ thread' = thread /\ 1 \in DOMAIN queue /\ Me = queue[1].msg /\ DOMAIN queue = 1..Len(queue)
      /\ \A i \in DOMAIN queue' : i + 1 \in DOMAIN queue /\ queue'[i] = queue[i + 1]
      /\ DOMAIN queue' \subseteq Nat \ {0}
  <2>1. queue' \in Seq(Turns)
    BY QueueIs DEF Ends
  <2>2. QED BY <2>1, QueueIs DEF Ends
<1>4. \A m \in Messages : job'[m].status # "none" => m <= Len(thread')
  BY <1>2, <1>3 DEF JobsOK
<1>5. ASSUME NEW i \in DOMAIN queue'
      PROVE  TurnJobOK(i)'
  <2> DEFINE m == queue[i + 1].msg
  <2>1. /\ i + 1 \in DOMAIN queue /\ queue'[i] = queue[i + 1] /\ i \in Nat \ {0} /\ m \in Messages
    BY <1>3, JobIs
  <2>2. TurnJobOK(i + 1)
    BY <2>1 DEF JobsOK, TurnJobOK
  <2>3. job'[m] = job[m]
    <3>1. SUFFICES ASSUME m = Me, job[m].lease = queue[1].lease
                   PROVE  FALSE
      BY <1>2, <2>1
    <3>2. queue[1].lease < queue[i + 1].lease
      <4>1. TurnJobOK(1)
        BY <1>3 DEF JobsOK, TurnJobOK
      <4>2. 1 < i + 1
        BY <2>1
      <4>3. QED BY <1>3, <2>1, <3>1, <4>1, <4>2 DEF TurnJobOK
    <3>3. queue[i + 1].lease <= job[m].lease
      BY <2>2 DEF TurnJobOK
    <3>4. queue[1].lease \in Nat /\ queue[i + 1].lease \in Nat
      BY <1>3, <2>1, JobIs
    <3>5. QED BY <3>1, <3>2, <3>3, <3>4
  <2>4. ASSUME NEW j \in DOMAIN queue', i < j, queue'[j].msg = m
        PROVE  queue'[i].lease < queue'[j].lease
    <3>1. j + 1 \in DOMAIN queue /\ queue'[j] = queue[j + 1] /\ i + 1 < j + 1
      BY <1>3, <2>1, <2>4
    <3>2. QED BY <2>1, <2>2, <2>4, <3>1 DEF TurnJobOK
  <2>5. QED BY <1>3, <2>1, <2>2, <2>3, <2>4 DEF TurnJobOK
<1>6. QED BY <1>4, <1>5 DEF JobsOK, TurnJobOK

LEMMA LeaseJobs ==
  ASSUME TypeOK, JobsOK, NEW m \in Messages, Lease(m)
  PROVE  JobsOK'
<1>0. PICK n \in Nat : n = Len(queue) + 1
  BY QueueIs
<1>1. /\ thread' = thread /\ job[m].status = "due"
      /\ job' = [job EXCEPT ![m] = [status |-> "leased", lease |-> @.lease + 1]]
      /\ \E read \in BOOLEAN : queue' = Append(queue, [msg |-> m, lease |-> job[m].lease + 1, read |-> read])
  BY DEF Lease
<1>2. /\ DOMAIN queue' = 1..n /\ n \in Nat /\ n \notin DOMAIN queue /\ DOMAIN queue' = DOMAIN queue \cup {n}
      /\ queue'[n].msg = m /\ queue'[n].lease = job[m].lease + 1
      /\ \A i \in DOMAIN queue : queue'[i] = queue[i] /\ i < n
  BY <1>0, <1>1, QueueIs
<1>3. /\ job'[m].status = "leased" /\ job'[m].lease = job[m].lease + 1
      /\ \A o \in Messages : o # m => job'[o] = job[o]
  BY <1>1, QueueIs
<1>4. m <= Len(thread) /\ \A o \in Messages : job'[o].status # "none" => o <= Len(thread')
  BY <1>1, <1>3 DEF JobsOK
<1>5. ASSUME NEW i \in DOMAIN queue
      PROVE  TurnJobOK(i)'
  <2>1. TurnJobOK(i) /\ queue[i].msg \in Messages /\ queue[i].lease \in Nat /\ job[queue[i].msg].lease \in Nat
    BY JobIs DEF JobsOK, TurnJobOK
  <2>2. job'[queue[i].msg].status \in {"due", "leased"} /\ queue[i].lease <= job'[queue[i].msg].lease
    BY <1>3, <2>1 DEF TurnJobOK
  <2>3. ASSUME NEW j \in DOMAIN queue', i < j, queue'[j].msg = queue[i].msg
        PROVE  queue[i].lease < queue'[j].lease
    <3>1. CASE j = n
      BY <1>2, <2>1, <2>3, <3>1 DEF TurnJobOK
    <3>2. CASE j \in DOMAIN queue
      BY <1>2, <2>1, <2>3, <3>2 DEF TurnJobOK
    <3>3. QED BY <1>2, <3>1, <3>2
  <2>4. QED BY <1>1, <1>2, <2>1, <2>2, <2>3 DEF TurnJobOK
<1>6. TurnJobOK(n)'
  <2>1. \A j \in DOMAIN queue' : ~(n < j)
    BY <1>2
  <2>2. job[m].lease \in Nat
    BY JobIs
  <2>3. QED BY <1>1, <1>2, <1>3, <1>4, <2>1, <2>2 DEF TurnJobOK
<1>7. QED BY <1>2, <1>4, <1>5, <1>6 DEF JobsOK, TurnJobOK

LEMMA NextJobs ==
  ASSUME TypeOK, JobsOK, TurnOK, [Next]_vars
  PROVE  JobsOK'
<1>1. CASE UNCHANGED <<thread, job, queue>>
  BY <1>1 DEF JobsOK
<1>2. CASE Step \/ Throw
  BY <1>1, <1>2, TurnStays, EndsJobs DEF Step, Stays
<1>3. CASE Arrive
  <2> DEFINE n == Len(thread) + 1
  <2>1. Len(thread') = n /\ n \in Messages /\ Len(thread) \in Nat /\ UNCHANGED queue
    BY <1>3, NumbersAre DEF Arrive, TypeOK, Messages
  <2>2. /\ \A m \in Messages : m # n => job'[m] = job[m]
    BY <1>3, QueueIs DEF Arrive
  <2>3. \A i \in DOMAIN queue : queue[i].msg # n /\ queue[i].msg \in Messages /\ job'[queue[i].msg] = job[queue[i].msg]
    BY <2>1, <2>2, JobIs DEF JobsOK
  <2>4. \A m \in Messages : m <= Len(thread) => m <= n
    BY <2>1, NumbersAre
  <2>5. \A m \in Messages : job'[m].status # "none" => m <= Len(thread')
    BY <2>1, <2>2, <2>4 DEF JobsOK
  <2>6. QED BY <2>1, <2>3, <2>4, <2>5 DEF JobsOK
<1>4. ASSUME NEW m \in Messages, Lapse(m)
      PROVE  JobsOK'
  <2>1. UNCHANGED <<thread, queue>> /\ job' = [job EXCEPT ![m].status = "due"] /\ job[m].status = "leased"
    BY <1>4 DEF Lapse
  <2>2. /\ \A o \in Messages : job'[o].lease = job[o].lease
        /\ \A o \in Messages : job'[o] = job[o] \/ (job[o].status = "leased" /\ job'[o].status = "due")
    BY <2>1, QueueIs DEF Jobs
  <2>3. QED BY <2>1, <2>2, JobIs DEF JobsOK
<1>5. CASE Crash
  BY <1>5 DEF Crash, JobsOK
<1>6. QED BY <1>1, <1>2, <1>3, <1>4, <1>5, LeaseJobs
          DEF Next, SaveLands, SaveFails, Decide, vars

LEMMA InitJobs == Init => JobsOK /\ TurnOK
BY DEF Init, JobsOK, TurnOK, Idle

(* A job that is done stays done. *)
LEMMA DoneStays ==
  ASSUME TypeOK, JobsOK, TurnOK, [Next]_vars, NEW m \in Messages, job[m].status = "done"
  PROVE  job'[m].status = "done"
<1>1. CASE Step \/ Throw
  <2>1. queue # <<>> /\ (Ends \/ Stays)
    BY <1>1, TurnStays DEF Step
  <2>2. QED BY <2>1, SettlesIs DEF Ends, Stays
<1>2. CASE Arrive
  <2>1. m <= Len(thread) /\ Len(thread) \in Nat
    BY JobIs DEF JobsOK
  <2>2. m # Len(thread) + 1
    BY <2>1, NumbersAre
  <2>3. QED BY <1>2, <2>2, QueueIs DEF Arrive
<1>3. ASSUME NEW o \in Messages, Lease(o) \/ Lapse(o)
      PROVE  job'[m].status = "done"
  BY <1>3, QueueIs DEF Lease, Lapse
<1>4. CASE UNCHANGED job
  BY <1>4
<1>5. QED BY <1>1, <1>2, <1>3, <1>4 DEF Next, SaveLands, SaveFails, Crash, Decide, vars

(* A turn has its context, and its message in it. *)
LEMMA NextTurn ==
  ASSUME TypeOK, JobsOK, TurnOK, [Next]_vars
  PROVE  TurnOK'
<1>1. CASE UNCHANGED <<mem, saves, turn, queue>>
  BY <1>1 DEF TurnOK, Me, Absorbed
<1>2. CASE Step
  <2>1. queue # <<>> /\ (Ends \/ Stays)
    BY <1>2, TurnStays DEF Step
  <2>2. mem' \in Contexts
    BY <1>2, LoadWorks, TakeInWorks, ThinkingWorks, OrderWorks, HandOverWorks, WriteWorks DEF Step, Works
  <2>3. CASE Ends
    BY <2>2, <2>3, NoContextIsNone DEF TurnOK, Ends, Idle
  <2>4. CASE Stays
    <3>1. queue' = queue /\ Me' = Me /\ turn'.pc # "idle"
      BY <2>4 DEF Stays, Me
    <3>2. turn'.pc \notin {"idle", "take"} => Absorbed(mem', Me)
      <4>1. CASE Load
        BY <4>1, LoadWorks
      <4>2. CASE TakeIn
        <5>1. mem'.recent = Pushed(mem.recent, Me) \/ (Ends /\ turn'.pc = "idle")
          BY <4>2, TakeInWorks DEF Ends, Idle
        <5>2. Me \in Lines /\ mem \in Contexts
          BY <2>1, <4>2, QueueIs, TakeInWorks DEF Lines, Works
        <5>3. \E i \in DOMAIN Pushed(mem.recent, Me) : Pushed(mem.recent, Me)[i] = Me
          <6>1. mem.recent \in Seq(Lines) /\ Len(mem.recent) <= RecentMax
            BY <5>2, ContextHas
          <6>2. QED BY <5>2, <6>1, PushedIs
        <5>4. QED BY <3>1, <5>1, <5>3 DEF Absorbed
      <4>3. CASE Classify \/ Validate \/ Unavailable \/ CreateOrder \/ ReplayOrder \/ HandOver
        <5>1. mem'.recent = mem.recent
          BY <4>3, ThinkingWorks, OrderWorks, HandOverWorks
        <5>2. turn.pc \notin {"idle", "take"}
          BY <4>3 DEF Classify, Validate, Unavailable, CreateOrder, ReplayOrder, HandOver
        <5>3. QED BY <5>1, <5>2 DEF TurnOK, Absorbed
      <4>4. CASE Write
        <5>1. Ends
          BY <4>4, WriteWorks
        <5>2. QED BY <3>1, <5>1 DEF Ends, Idle
      <4>5. QED BY <1>2, <4>1, <4>2, <4>3, <4>4 DEF Step
    <3>3. QED BY <2>1, <2>2, <3>1, <3>2, NoContextIsNone DEF TurnOK, Absorbed
  <2>5. QED BY <2>1, <2>3, <2>4
<1>3. CASE Throw
  <2>1. Ends /\ UNCHANGED stored
    BY <1>3, TurnStays DEF Throw, Throws, Ends
  <2>2. QED BY <2>1 DEF TurnOK, Ends, Idle, stored
<1>4. ASSUME NEW m \in Messages, Lease(m)
      PROVE  TurnOK'
  <2>1. UNCHANGED <<mem, saves, turn>> /\ queue' # <<>>
    BY <1>4, QueueIs DEF Lease, stored
  <2>2. queue # <<>> => Head(queue') = Head(queue)
    BY <1>4, QueueIs DEF Lease
  <2>3. QED BY <2>1, <2>2 DEF TurnOK, Me, Absorbed
<1>5. CASE SaveLands \/ SaveFails
  <2>1. UNCHANGED <<mem, turn, queue>> /\ mem # NoContext
    BY <1>5 DEF SaveLands, SaveFails, TurnOK
  <2>2. QED BY <2>1 DEF TurnOK, Me, Absorbed
<1>6. CASE Crash
  BY <1>6 DEF Crash, TurnOK, Idle
<1>7. QED BY <1>1, <1>2, <1>3, <1>4, <1>5, <1>6 DEF Next, Arrive, Lapse, Decide, vars, stored

-----------------------------------------------------------------------------
(* What is lost stays lost; and short of a loss a crash goes back to nothing older. *)

LEMMA LostStays ==
  ASSUME TypeOK, TurnOK, [Next]_vars
  PROVE  lost \subseteq lost'
<1>1. CASE Step
  BY <1>1, TakeInWorks, LoadWorks, HandOverWorks, WriteWorks
     DEF Step, Load, Classify, Validate, Unavailable, CreateOrder, ReplayOrder, Answers, AnswerLost,
         TakeIn, HandOver, Write, history
<1>2. CASE Crash
  BY <1>2 DEF Crash
<1>3. CASE UNCHANGED lost
  BY <1>3
<1>4. QED BY <1>1, <1>2, <1>3
          DEF Next, Arrive, Throw, Lease, Lapse, SaveLands, SaveFails, Decide, history, vars

LEMMA CurrentStays ==
  ASSUME TypeOK, TurnOK, (UNCHANGED <<mem, row>>) \/ SaveLands \/ SaveFails \/ (Crash /\ "state" \notin lost')
  PROVE  Current' = Current
<1>1. CASE UNCHANGED <<mem, row>>
  BY <1>1 DEF Current
<1>2. CASE SaveLands \/ SaveFails
  <2>1. mem' = mem /\ mem # NoContext
    BY <1>2 DEF SaveLands, SaveFails, TurnOK
  <2>2. QED BY <2>1 DEF Current
<1>3. CASE Crash /\ "state" \notin lost'
  <2>1. mem \in {NoContext, row} /\ mem' = NoContext /\ row' = row
    BY <1>3 DEF Crash
  <2>2. row # NoContext
    BY NoContextIsNone DEF TypeOK
  <2>3. QED BY <2>1, <2>2 DEF Current
<1>4. QED BY <1>1, <1>2, <1>3

LEMMA CurrentIsMem ==
  ASSUME mem' \in Contexts
  PROVE  Current' = mem'
BY NoContextIsNone DEF Current

-----------------------------------------------------------------------------
(* The write chain. *)

Ascending ==
  /\ \A i \in DOMAIN saves : row.version <= saves[i].version
  /\ \A i, j \in DOMAIN saves : i < j => saves[i].version <= saves[j].version
  /\ mem # NoContext =>
       row.version <= mem.version /\ \A i \in DOMAIN saves : saves[i].version <= mem.version

LEMMA VersionsAre ==
  ASSUME TypeOK
  PROVE  /\ row.version \in Nat
         /\ mem \in Contexts => mem.version \in Nat
         /\ \A i \in DOMAIN saves : saves[i].version \in Nat
         /\ saves \in Seq(Contexts)
<1>1. row \in Contexts /\ saves \in Seq(Contexts)
  BY DEF TypeOK
<1>2. \A i \in DOMAIN saves : saves[i] \in Contexts
  BY <1>1
<1>3. QED BY <1>1, <1>2, ContextHas

LEMMA WorksAscends ==
  ASSUME TypeOK, Ascending, Works
  PROVE  Ascending'
<1>1. /\ mem \in Contexts /\ mem # NoContext /\ row' = row /\ row.version \in Nat /\ mem.version \in Nat
      /\ saves \in Seq(Contexts) /\ \A i \in DOMAIN saves : saves[i].version \in Nat
  BY VersionsAre, NoContextIsNone, ContextHas DEF Works
<1>2. CASE saves' = saves /\ mem'.version = mem.version
  BY <1>1, <1>2 DEF Ascending
<1>3. CASE saves' = Append(saves, mem') /\ mem'.version = mem.version + 1
  <2>1. PICK n \in Nat : n = Len(saves) + 1
    BY <1>1
  <2>2. /\ DOMAIN saves' = DOMAIN saves \cup {n} /\ saves'[n] = mem'
        /\ \A i \in DOMAIN saves : saves'[i] = saves[i] /\ i < n /\ i \in Nat
    BY <1>1, <1>3, <2>1
  <2>3. \A i \in DOMAIN saves : saves[i].version <= mem'.version
    BY <1>1, <1>3 DEF Ascending
  <2>4. row.version <= mem'.version /\ mem'.version <= mem'.version
    BY <1>1, <1>3 DEF Ascending
  <2>5. \A i \in DOMAIN saves' : row'.version <= saves'[i].version /\ saves'[i].version <= mem'.version
    BY <1>1, <2>2, <2>3, <2>4 DEF Ascending
  <2>6. ASSUME NEW i \in DOMAIN saves', NEW j \in DOMAIN saves', i < j
        PROVE  saves'[i].version <= saves'[j].version
    <3>1. CASE j = n
      BY <2>2, <2>5, <3>1
    <3>2. CASE j # n
      BY <2>1, <2>2, <2>6, <3>2 DEF Ascending
    <3>3. QED BY <3>1, <3>2
  <2>7. QED BY <1>1, <2>4, <2>5, <2>6 DEF Ascending
<1>4. QED BY <1>2, <1>3 DEF Works

LEMMA NextAscends ==
  ASSUME TypeOK, JobsOK, TurnOK, SavesAscend, [Next]_vars
  PROVE  SavesAscend'
<1> SUFFICES ASSUME "state" \notin lost'
             PROVE  Ascending'
  BY DEF SavesAscend, Ascending
<1>0. Ascending
  BY LostStays DEF SavesAscend, Ascending
<1>1. CASE UNCHANGED stored
  BY <1>0, <1>1 DEF Ascending, stored
<1>2. CASE Step
  <2>1. CASE Load
    <3>1. UNCHANGED <<row, saves>> /\ (mem' = Current \/ mem' = Reconciled(Current))
      BY <2>1, LoadWorks
    <3>2. mem'.version = Current.version
      BY <3>1, CurrentIs, ReconciledIs
    <3>3. CASE mem = NoContext
      <4>1. saves = <<>> /\ Current = row /\ row.version \in Nat
        BY <3>3, CurrentIs, VersionsAre DEF TurnOK
      <4>2. QED BY <3>1, <3>2, <4>1 DEF Ascending
    <3>4. CASE mem # NoContext
      BY <1>0, <3>1, <3>2, <3>4, CurrentIs DEF Ascending
    <3>5. QED BY <3>3, <3>4
  <2>2. CASE ~Load
    <3>1. Works
      BY <1>2, <2>2, TakeInWorks, ThinkingWorks, OrderWorks, HandOverWorks, WriteWorks DEF Step
    <3>2. QED BY <1>0, <3>1, WorksAscends
  <2>3. QED BY <2>1, <2>2
<1>3. CASE SaveLands \/ SaveFails
  <2>1. /\ saves # <<>> /\ saves' = Tail(saves) /\ mem' = mem /\ row' \in {row, saves[1]}
    BY <1>3 DEF SaveLands, SaveFails
  <2>2. /\ 1 \in DOMAIN saves
        /\ \A i \in DOMAIN saves' : i + 1 \in DOMAIN saves /\ saves'[i] = saves[i + 1] /\ i \in Nat /\ 1 < i + 1
    BY <2>1, VersionsAre
  <2>3. \A i \in DOMAIN saves' : row'.version <= saves'[i].version
    BY <1>0, <2>1, <2>2 DEF Ascending
  <2>4. \A i, j \in DOMAIN saves' : i < j => saves'[i].version <= saves'[j].version
    <3>1. ASSUME NEW i \in DOMAIN saves', NEW j \in DOMAIN saves', i < j
          PROVE  saves'[i].version <= saves'[j].version
      <4>1. i + 1 < j + 1
        BY <2>2, <3>1
      <4>2. QED BY <1>0, <2>2, <4>1 DEF Ascending
    <3>2. QED BY <3>1
  <2>5. QED BY <1>0, <2>1, <2>2, <2>3, <2>4 DEF Ascending
<1>4. CASE Crash
  BY <1>4 DEF Crash, Ascending
<1>5. QED BY <1>1, <1>2, <1>3, <1>4 DEF Next, Arrive, Throw, Lease, Lapse, Decide, vars

-----------------------------------------------------------------------------
(* The mute. *)

LEMMA NextMuted ==
  ASSUME TypeOK, JobsOK, TurnOK, MutedOK, [Next]_vars
  PROVE  MutedOK'
<1> SUFFICES ASSUME handed' = "executed", "state" \notin lost'
             PROVE  Current'.escalated /\ turn'.pc \in {"idle", "take"}
  BY DEF MutedOK
<1>0. handed = "executed" => Current.escalated /\ turn.pc \in {"idle", "take"}
  BY LostStays DEF MutedOK
<1>1. CASE UNCHANGED <<mem, row, turn, handed>>
  BY <1>0, <1>1, CurrentStays
<1>2. CASE HandOver
  <2>1. Ends /\ mem'.escalated /\ mem' \in Contexts
    BY <1>2, HandOverWorks DEF Works
  <2>2. QED BY <2>1, CurrentIsMem DEF Ends, Idle
<1>3. CASE Step /\ ~HandOver
  <2>1. handed = "executed" /\ Current.escalated /\ turn.pc \in {"idle", "take"}
    BY <1>0, <1>3 DEF Step, Load, TakeIn, Classify, Validate, Unavailable, CreateOrder, ReplayOrder, Write, shop
  <2>2. CASE Load
    <3>1. mem' \in Contexts /\ turn'.pc = "take" /\ (mem' = Current \/ mem' = Reconciled(Current))
      BY <2>2, LoadWorks
    <3>2. mem'.escalated = Current.escalated
      BY <3>1, CurrentIs, ReconciledIs
    <3>3. QED BY <2>1, <3>1, <3>2, CurrentIsMem
  <2>3. CASE TakeIn
    <3>1. mem' \in Contexts /\ mem \in Contexts /\ mem'.escalated = mem.escalated
      BY <2>3, TakeInWorks DEF Works
    <3>2. mem.escalated
      BY <2>1, <3>1, CurrentIs, NoContextIsNone
    <3>3. Ends
      BY <2>3, <3>2, TakeInWorks
    <3>4. QED BY <3>1, <3>2, <3>3, CurrentIsMem DEF Ends, Idle
  <2>4. QED BY <1>3, <2>1, <2>2, <2>3
            DEF Step, Classify, Validate, Unavailable, CreateOrder, ReplayOrder, Write
<1>4. CASE Throw
  <2>1. Ends /\ UNCHANGED <<mem, row, handed>>
    BY <1>4, TurnStays DEF Throw, Throws, Ends, stored, shop
  <2>2. QED BY <1>0, <2>1, CurrentStays DEF Ends, Idle
<1>5. CASE SaveLands \/ SaveFails \/ Crash
  <2>1. Current' = Current /\ handed' = handed
    BY <1>5, CurrentStays DEF SaveLands, SaveFails, Crash, shop
  <2>2. turn' = turn \/ turn'.pc = "idle"
    BY <1>5 DEF SaveLands, SaveFails, Crash, Idle
  <2>3. QED BY <1>0, <2>1, <2>2
<1>6. QED BY <1>1, <1>2, <1>3, <1>4, <1>5 DEF Next, Arrive, Lease, Lapse, Decide, vars, stored, shop

-----------------------------------------------------------------------------
(* The books. *)

EntryOK(entry) ==
  entry.state # "pending" =>
    ledger[entry.key].status = IF entry.state = "placed" THEN "approved" ELSE "rejected"

Agree(context) ==
  /\ \A k \in Keys : k < KeyOf(context) <=> ledger[k].status \notin {"none", "blocked"}
  /\ \A i \in DOMAIN context.filed : EntryOK(context.filed[i])

LEMMA BooksAre ==
  BooksAgree <=> ("state" \notin lost => Agree(Current))
BY DEF BooksAgree, Agree, EntryOK

LEMMA LedgerIs ==
  ASSUME TypeOK
  PROVE  /\ ledger \in [Keys -> Order \cup {NoOrder}]
         /\ \A k \in Keys : ledger[k] = NoOrder <=> ledger[k].status = "none"
         /\ \A k \in Keys : ledger[k] # NoOrder => ledger[k] \in Order
<1>1. ledger \in [Keys -> Order \cup {NoOrder}]
  BY DEF TypeOK
<1>2. NoOrder.status = "none" /\ \A order \in Order : order.status # "none"
  BY DEF NoOrder, Order
<1>3. QED BY <1>1, <1>2

LEMMA EntriesAre ==
  ASSUME NEW c \in Contexts
  PROVE  \A i \in DOMAIN c.filed : c.filed[i] \in Entry /\ c.filed[i].key \in Keys
<1>1. c.filed \in Seq(Entry)
  BY ContextHas
<1>2. \A entry \in Entry : entry.key \in Keys
  BY DEF Entry
<1>3. QED BY <1>1, <1>2

(* What the founder decided is what a settled entry says. *)
LEMMA ReconciledAgrees ==
  ASSUME NEW c \in Contexts, Agree(c)
  PROVE  Agree(Reconciled(c))
<1>1. KeyOf(Reconciled(c)) = KeyOf(c) /\ Reconciled(c).filed = [i \in DOMAIN c.filed |-> Settled(c.filed[i])]
  BY ReconciledIs
<1>2. ASSUME NEW entry \in Entry, EntryOK(entry)
      PROVE  EntryOK(Settled(entry))
  BY <1>2 DEF EntryOK, Settled, Entry
<1>3. \A i \in DOMAIN c.filed : EntryOK(Settled(c.filed[i]))
  BY <1>2, EntriesAre DEF Agree
<1>4. QED BY <1>1, <1>3 DEF Agree

(* A new order takes the next key: it is counted, or blocked and not counted. *)
LEMMA CreateAgrees ==
  ASSUME TypeOK, TurnOK, Agree(mem), CreateOrder, "state" \notin lost'
  PROVE  Agree(mem)'
<1>1. mem \in Contexts /\ KeyOf(mem) \in Keys /\ ledger[KeyOf(mem)] = NoOrder
  BY OrderWorks DEF CreateOrder, Works
<1>2. PICK status \in {"executed", "prepared", "blocked"} : NewOrder(status) /\ Answers(status)
  BY DEF CreateOrder, AnswerLost
<1>3. mem' = After(mem, status)
  BY <1>2 DEF Answers
<1>4. PICK key \in Keys : key = KeyOf(mem) /\ ledger[key] = NoOrder
  BY <1>1
<1>5. /\ ledger'[key].status = status
      /\ \A k \in Keys : k # key => ledger'[k] = ledger[k]
  BY <1>2, <1>4, LedgerIs DEF NewOrder
<1>6. /\ KeyOf(mem') = IF status \in {"executed", "prepared"} THEN key + 1 ELSE key
      /\ mem'.filed = mem.filed \/ mem'.filed = Append(mem.filed, [key |-> key, state |-> "pending"])
  BY <1>1, <1>3, <1>4, AfterIs
<1>7. \A k \in Keys : k < KeyOf(mem') <=> ledger'[k].status \notin {"none", "blocked"}
  <2> SUFFICES ASSUME NEW k \in Keys
               PROVE  k < KeyOf(mem') <=> ledger'[k].status \notin {"none", "blocked"}
    OBVIOUS
  <2>1. k \in Nat /\ key \in Nat
    BY NumbersAre
  <2>2. CASE k = key
    BY <1>5, <1>6, <2>1, <2>2
  <2>3. CASE k # key
    BY <1>4, <1>5, <1>6, <2>1, <2>3 DEF Agree
  <2>4. QED BY <2>2, <2>3
<1>8. ASSUME NEW entry \in Entry, EntryOK(entry), entry.key \in Keys
      PROVE  EntryOK(entry)'
  <2>1. ledger[key].status = "none"
    BY <1>4 DEF NoOrder
  <2>2. entry.state # "pending" => entry.key # key
    BY <1>8, <2>1 DEF EntryOK
  <2>3. QED BY <1>5, <1>8, <2>2 DEF EntryOK
<1>9. ASSUME NEW filed, filed = mem'.filed, NEW i \in DOMAIN filed
      PROVE  EntryOK(filed[i])'
  <2>1. mem.filed \in Seq(Entry)
    BY <1>1, ContextHas
  <2>2. \A j \in DOMAIN mem.filed : EntryOK(mem.filed[j]) /\ mem.filed[j] \in Entry /\ mem.filed[j].key \in Keys
    BY <1>1, EntriesAre DEF Agree
  <2>3. (i \in DOMAIN mem.filed /\ filed[i] = mem.filed[i]) \/ filed[i] = [key |-> key, state |-> "pending"]
    BY <1>6, <1>9, <2>1
  <2>4. CASE i \in DOMAIN mem.filed /\ filed[i] = mem.filed[i]
    <3>1. PICK entry \in Entry : entry = filed[i] /\ EntryOK(entry) /\ entry.key \in Keys
      BY <2>2, <2>4
    <3>2. QED BY <1>8, <3>1
  <2>5. CASE filed[i] = [key |-> key, state |-> "pending"]
    BY <2>5 DEF EntryOK
  <2>6. QED BY <2>3, <2>4, <2>5
<1>10. QED BY <1>7, <1>9 DEF Agree

(* The founder decides only what was counted and was not settled. *)
LEMMA DecideAgrees ==
  ASSUME TypeOK, NEW c \in Contexts, Agree(c), NEW k \in Keys, Decide(k)
  PROVE  Agree(c)'
<1>1. PICK status \in {"approved", "rejected"} : ledger' = [ledger EXCEPT ![k].status = status]
  BY DEF Decide
<1>2. ledger[k].status = "prepared"
  BY DEF Decide
<1>3. ledger[k] \in Order
  <2>1. ledger[k] # NoOrder
    BY <1>2 DEF NoOrder
  <2>2. QED BY <2>1, LedgerIs
<1>4. ledger'[k].status = status /\ \A l \in Keys : l # k => ledger'[l] = ledger[l]
  BY <1>1, <1>3, LedgerIs DEF Order
<1>5. ASSUME NEW entry \in Entry, EntryOK(entry), entry.key \in Keys
      PROVE  EntryOK(entry)'
  BY <1>2, <1>4, <1>5 DEF EntryOK
<1>6. \A i \in DOMAIN c.filed : EntryOK(c.filed[i])'
  BY <1>5, EntriesAre DEF Agree
<1>7. \A l \in Keys : ledger'[l].status \notin {"none", "blocked"} <=> ledger[l].status \notin {"none", "blocked"}
  BY <1>2, <1>4
<1>8. QED BY <1>6, <1>7 DEF Agree

LEMMA NextBooks ==
  ASSUME TypeOK, JobsOK, TurnOK, BooksAgree, [Next]_vars
  PROVE  BooksAgree'
<1> SUFFICES ASSUME "state" \notin lost'
             PROVE  Agree(Current)'
  BY DEF BooksAgree, Agree, EntryOK
<1>0. Agree(Current) /\ Current \in Contexts
  BY LostStays, BooksAre, CurrentIs
<1>1. CASE ledger' = ledger /\ KeyOf(Current') = KeyOf(Current) /\ Current'.filed = Current.filed
  BY <1>0, <1>1 DEF Agree, EntryOK
<1>2. CASE Current' = Current /\ ledger' = ledger
  BY <1>1, <1>2
<1>3. CASE TakeIn \/ Classify \/ Validate \/ Unavailable \/ HandOver \/ Write
  <2>1. mem \in Contexts /\ mem' \in Contexts /\ Books(mem, mem')
    BY <1>3, TakeInWorks, ThinkingWorks, HandOverWorks, WriteWorks DEF Works
  <2>2. Current = mem /\ Current' = mem'
    BY <2>1, CurrentIs, CurrentIsMem, NoContextIsNone
  <2>3. ledger' = ledger
    BY <1>3 DEF TakeIn, Classify, Validate, Unavailable, HandOver, Write, shop
  <2>4. QED BY <1>1, <2>1, <2>2, <2>3 DEF Books
<1>4. CASE Load
  <2>1. mem' \in Contexts /\ (mem' = Current \/ mem' = Reconciled(Current)) /\ ledger' = ledger
    BY <1>4, LoadWorks DEF Load, shop
  <2>2. PICK c \in Contexts : c = mem' /\ Agree(c)
    BY <1>0, <2>1, ReconciledAgrees
  <2>3. Current' = c
    BY <2>1, <2>2, CurrentIsMem
  <2>4. QED BY <2>1, <2>2, <2>3 DEF Agree, EntryOK
<1>5. CASE CreateOrder
  <2>1. mem \in Contexts /\ mem' \in Contexts
    BY <1>5, OrderWorks DEF Works
  <2>2. Current = mem /\ Current' = mem'
    BY <2>1, CurrentIs, CurrentIsMem, NoContextIsNone
  <2>3. Agree(mem)'
    BY <1>0, <1>5, <2>2, CreateAgrees
  <2>4. QED BY <2>2, <2>3 DEF Agree
<1>6. CASE ReplayOrder
  <2>1. mem \in Contexts /\ mem' \in Contexts /\ KeyOf(mem) \in Keys
    BY <1>6, OrderWorks DEF Works
  <2>2. Current = mem /\ Current' = mem'
    BY <2>1, CurrentIs, CurrentIsMem, NoContextIsNone
  <2>3. ledger[KeyOf(mem)].status = "blocked"
    <3>1. ~(KeyOf(mem) < KeyOf(mem)) /\ ledger[KeyOf(mem)].status # "none"
      <4>1. KeyOf(mem) \in Nat /\ ledger[KeyOf(mem)] # NoOrder
        BY <1>6, <2>1, NumbersAre DEF ReplayOrder
      <4>2. QED BY <2>1, <4>1, LedgerIs
    <3>2. QED BY <1>0, <2>1, <2>2, <3>1 DEF Agree
  <2>4. mem' = mem /\ ledger' = ledger
    BY <1>6, <2>3 DEF ReplayOrder, Answers, After, shop
  <2>5. QED BY <1>2, <2>2, <2>4
<1>7. ASSUME NEW k \in Keys, Decide(k)
      PROVE  Agree(Current)'
  <2>1. PICK c \in Contexts : c = Current /\ Agree(c)
    BY <1>0
  <2>2. Current' = Current
    BY <1>7, CurrentStays DEF Decide, stored
  <2>3. Agree(c)'
    BY <1>7, <2>1, DecideAgrees
  <2>4. QED BY <2>1, <2>2, <2>3 DEF Agree
<1>8. CASE SaveLands \/ SaveFails \/ Crash \/ UNCHANGED <<mem, row, ledger>>
  <2>1. Current' = Current
    BY <1>8, CurrentStays
  <2>2. ledger' = ledger
    BY <1>8 DEF SaveLands, SaveFails, Crash, shop
  <2>3. QED BY <1>2, <2>1, <2>2
<1>9. QED BY <1>3, <1>4, <1>5, <1>6, <1>7, <1>8
          DEF Next, Step, Arrive, Throw, Lease, Lapse, vars, stored, shop

-----------------------------------------------------------------------------
(* One order for a yes. *)

OneEach == \A k, l \in Keys :
  ledger[k] # NoOrder /\ ledger[l] # NoOrder /\ ledger[k].by = ledger[l].by => k = l

Known(context) == \A m \in Messages, k \in Keys :
  OrderBy(m, k) => Absorbed(context, m) \/ job[m].status = "done"

(* A line is dropped for a newer one only if its job is done, short of a loss. *)
LEMMA PushedKnown ==
  ASSUME TypeOK, JobsOK, TurnOK, [Next]_vars, NEW c \in Contexts, Known(c), ~Forgets(c.recent),
         NEW line \in Lines, NEW d, d.recent = Pushed(c.recent, line), UNCHANGED ledger
  PROVE  \A m \in Messages, k \in Keys : OrderBy(m, k)' => Absorbed(d, m) \/ job'[m].status = "done"
<1> SUFFICES ASSUME NEW m \in Messages, NEW k \in Keys, OrderBy(m, k)
             PROVE  Absorbed(d, m) \/ job'[m].status = "done"
  BY DEF OrderBy
<1>1. CASE job[m].status = "done"
  BY <1>1, DoneStays
<1>2. CASE Absorbed(c, m) /\ job[m].status # "done"
  <2>1. c.recent \in Seq(Lines) /\ Len(c.recent) <= RecentMax
    BY ContextHas
  <2>2. PICK i \in DOMAIN c.recent : c.recent[i] = m
    BY <1>2 DEF Absorbed
  <2>3. \/ \E j \in DOMAIN Pushed(c.recent, line) : Pushed(c.recent, line)[j] = m
        \/ Len(c.recent) = RecentMax /\ Head(c.recent) = m
    <3>1. \A x \in DOMAIN c.recent :
            \/ \E j \in DOMAIN Pushed(c.recent, line) : Pushed(c.recent, line)[j] = c.recent[x]
            \/ Len(c.recent) = RecentMax /\ c.recent[x] = Head(c.recent)
      BY <2>1, PushedIs
    <3>2. QED BY <2>2, <3>1
  <2>4. m # Novas
    BY NumbersAre DEF Novas
  <2>5. ~(Len(c.recent) = RecentMax /\ Head(c.recent) = m)
    BY <1>2, <2>4 DEF Forgets
  <2>6. QED BY <2>3, <2>5 DEF Absorbed
<1>3. QED BY <1>1, <1>2 DEF Known

(* Whoever was known is known, as long as no line is dropped. *)
LEMMA SameKnown ==
  ASSUME TypeOK, JobsOK, TurnOK, [Next]_vars, NEW c, Known(c), NEW d, d.recent = c.recent,
         \A m \in Messages, k \in Keys : OrderBy(m, k)' => OrderBy(m, k)
  PROVE  \A m \in Messages, k \in Keys : OrderBy(m, k)' => Absorbed(d, m) \/ job'[m].status = "done"
BY DoneStays DEF Known, Absorbed

(* The founder's decision changes no order's customer, and only an order enters the ledger. *)
LEMMA DecidesWhose ==
  ASSUME TypeOK, NEW k \in Keys, Decide(k), NEW l \in Keys
  PROVE  /\ ledger'[l] # NoOrder => ledger[l] # NoOrder /\ ledger'[l].by = ledger[l].by
         /\ \A m \in Messages : OrderBy(m, l)' => OrderBy(m, l)
<1>1. PICK status \in {"approved", "rejected"} : ledger' = [ledger EXCEPT ![k].status = status]
  BY DEF Decide
<1>2. ledger[k] # NoOrder
  BY DEF Decide, NoOrder
<1>3. ledger[k] \in Order
  BY <1>2, LedgerIs
<1>4. ledger'[k].by = ledger[k].by /\ (l # k => ledger'[l] = ledger[l])
  BY <1>1, <1>3, LedgerIs DEF Order
<1>5. QED BY <1>2, <1>4 DEF OrderBy

LEMMA LedgerMoves ==
  ASSUME [Next]_vars
  PROVE  (UNCHANGED ledger) \/ CreateOrder \/ (\E k \in Keys : Decide(k))
BY DEF Next, Step, Load, TakeIn, Classify, Validate, ReplayOrder, Unavailable, HandOver, Write,
       Arrive, Throw, Lease, Lapse, SaveLands, SaveFails, Crash, vars, shop

LEMMA KnownNext ==
  ASSUME NEW c, c = Current',
         \A m \in Messages, k \in Keys : OrderBy(m, k)' => Absorbed(c, m) \/ job'[m].status = "done"
  PROVE  \A m \in Messages, k \in Keys : (OrderBy(m, k) => Absorbed(Current, m) \/ job[m].status = "done")'
BY DEF Absorbed

LEMMA NextKnown ==
  ASSUME TypeOK, JobsOK, TurnOK, Known(Current), lost' = {}, [Next]_vars
  PROVE  \A m \in Messages, k \in Keys : (OrderBy(m, k) => Absorbed(Current, m) \/ job[m].status = "done")'
<1> DEFINE KnownThen(c) ==
             \A m \in Messages, k \in Keys : OrderBy(m, k)' => Absorbed(c, m) \/ job'[m].status = "done"
<1>0. SUFFICES ASSUME NEW c, c = Current'
               PROVE  KnownThen(c)
  BY KnownNext
<1>1. PICK old \in Contexts : old = Current /\ Known(old)
  BY CurrentIs
<1>2. CASE c.recent = old.recent /\ ledger' = ledger
  <2>1. \A m \in Messages, k \in Keys : OrderBy(m, k)' => OrderBy(m, k)
    BY <1>2 DEF OrderBy
  <2>2. QED BY <1>1, <1>2, <2>1, SameKnown
<1>3. CASE \/ SaveLands \/ SaveFails \/ Crash \/ UNCHANGED <<mem, row, ledger>>
  <2>1. Current' = Current
    BY <1>3, CurrentStays
  <2>2. ledger' = ledger
    BY <1>3 DEF SaveLands, SaveFails, Crash, shop
  <2>3. QED BY <1>0, <1>1, <1>2, <2>1, <2>2
<1>4. CASE TakeIn \/ Write
  <2>1. mem = old /\ mem' = c /\ ledger' = ledger
    <3>1. mem \in Contexts /\ mem' \in Contexts
      BY <1>4, TakeInWorks, WriteWorks DEF Works
    <3>2. QED BY <1>0, <1>1, <1>4, <3>1, CurrentIs, CurrentIsMem, NoContextIsNone DEF TakeIn, Write, shop
  <2>2. \/ c.recent = old.recent
        \/ \E line \in Lines : c.recent = Pushed(old.recent, line) /\ ~Forgets(old.recent)
    <3>1. Me \in Lines /\ Novas \in Lines
      BY <1>4, TurnStays, QueueIs DEF Lines
    <3>2. CASE TakeIn
      BY <2>1, <3>1, <3>2, TakeInWorks
    <3>3. CASE Write
      BY <2>1, <3>1, <3>3, WriteWorks
    <3>4. QED BY <1>4, <3>2, <3>3
  <2>3. ASSUME NEW line \in Lines, c.recent = Pushed(old.recent, line), ~Forgets(old.recent)
        PROVE  KnownThen(c)
    BY <1>1, <2>1, <2>3, PushedKnown
  <2>4. QED BY <1>2, <2>1, <2>2, <2>3
<1>5. CASE Classify \/ Validate \/ Unavailable \/ ReplayOrder \/ HandOver
  <2>1. mem \in Contexts /\ mem' \in Contexts /\ mem'.recent = mem.recent
    BY <1>5, ThinkingWorks, OrderWorks, HandOverWorks DEF Works
  <2>2. c = mem' /\ old = mem
    BY <1>0, <1>1, <2>1, CurrentIs, CurrentIsMem, NoContextIsNone
  <2>3. ledger' = ledger
    BY <1>5 DEF Classify, Validate, Unavailable, ReplayOrder, HandOver, shop
  <2>4. QED BY <1>2, <2>1, <2>2, <2>3
<1>6. CASE Load
  <2>1. mem' \in Contexts /\ (mem' = old \/ mem' = Reconciled(old)) /\ ledger' = ledger
    BY <1>1, <1>6, LoadWorks DEF Load, shop
  <2>2. c = mem'
    BY <1>0, <2>1, CurrentIsMem
  <2>3. QED BY <1>2, <2>1, <2>2, ReconciledIs
<1>7. CASE CreateOrder
  <2>1. mem \in Contexts /\ mem' \in Contexts /\ mem'.recent = mem.recent /\ KeyOf(mem) \in Keys
    BY <1>7, OrderWorks DEF Works
  <2>2. c = mem' /\ old = mem
    BY <1>0, <1>1, <2>1, CurrentIs, CurrentIsMem, NoContextIsNone
  <2>3. \A m \in Messages, k \in Keys : OrderBy(m, k)' => OrderBy(m, k) \/ m = Me
    BY <1>7, <2>1, LedgerIs DEF CreateOrder, NewOrder, OrderBy
  <2>4. Absorbed(c, Me)
    BY <1>7, <2>1, <2>2 DEF CreateOrder, TurnOK, Absorbed
  <2>5. \A m \in Messages : Absorbed(old, m) => Absorbed(c, m)
    BY <2>1, <2>2 DEF Absorbed
  <2>6. QED BY <1>1, <2>3, <2>4, <2>5, DoneStays DEF Known
<1>8. ASSUME NEW k \in Keys, Decide(k)
      PROVE  KnownThen(c)
  <2>1. c = old
    BY <1>0, <1>1, <1>8, CurrentStays DEF Decide, stored
  <2>2. \A m \in Messages, l \in Keys : OrderBy(m, l)' => OrderBy(m, l)
    BY <1>8, DecidesWhose
  <2>3. QED BY <1>1, <2>1, <2>2, SameKnown
<1>9. QED BY <1>3, <1>4, <1>5, <1>6, <1>7, <1>8
          DEF Next, Step, Arrive, Throw, Lease, Lapse, vars, stored, shop

LEMMA NextOrderers ==
  ASSUME TypeOK, JobsOK, TurnOK, OrderersKnown, OneOrderPerYes, [Next]_vars
  PROVE  OrderersKnown' /\ OneOrderPerYes'
<1> SUFFICES ASSUME lost' = {}
             PROVE  /\ \A m \in Messages, k \in Keys :
                         (OrderBy(m, k) => Absorbed(Current, m) \/ job[m].status = "done")'
                    /\ turn'.pc \in {"classify", "check", "order"} => \A k \in Keys : ~OrderBy(Me, k)'
                    /\ OneEach'
  BY DEF OrderersKnown, OneOrderPerYes, OneEach
<1>0. /\ lost = {} /\ Known(Current) /\ OneEach
      /\ turn.pc \in {"classify", "check", "order"} => \A k \in Keys : ~OrderBy(Me, k)
  BY LostStays DEF OrderersKnown, OneOrderPerYes, OneEach, Known
<1>1. \A m \in Messages, k \in Keys : (OrderBy(m, k) => Absorbed(Current, m) \/ job[m].status = "done")'
  BY <1>0, NextKnown
<1>2. OneEach'
  <2>1. CASE CreateOrder
    <3>1. KeyOf(mem) \in Keys /\ \A k \in Keys : ~OrderBy(Me, k)
      BY <1>0, <2>1 DEF CreateOrder
    <3>2. /\ \A k \in Keys : k # KeyOf(mem) => ledger'[k] = ledger[k]
          /\ ledger'[KeyOf(mem)].by = Me
      BY <2>1, <3>1, LedgerIs DEF CreateOrder, NewOrder
    <3>3. QED BY <1>0, <3>1, <3>2 DEF OneEach, OrderBy
  <2>2. ASSUME NEW k \in Keys, Decide(k)
        PROVE  OneEach'
    BY <1>0, <2>2, DecidesWhose DEF OneEach
  <2>3. CASE UNCHANGED ledger
    BY <1>0, <2>3 DEF OneEach
  <2>4. QED BY <2>1, <2>2, <2>3, LedgerMoves
<1>3. ASSUME turn'.pc \in {"classify", "check", "order"}, NEW k \in Keys
      PROVE  ~OrderBy(Me, k)'
  <2>1. CASE TakeIn
    <3>1. ~Absorbed(mem, Me) /\ Stays /\ mem \in Contexts
      BY <1>3, <2>1, TakeInWorks DEF Ends, Idle, Works
    <3>2. queue # <<>> /\ Me \in Messages /\ job[Me].status # "done"
      <4>1. queue # <<>>
        BY <2>1, TurnStays
      <4>2. QED BY <4>1, QueueIs DEF JobsOK
    <3>3. ~OrderBy(Me, k)
      BY <1>0, <3>1, <3>2, CurrentIs, NoContextIsNone DEF Known
    <3>4. Me' = Me /\ ledger' = ledger
      BY <2>1, <3>1 DEF Stays, Me, TakeIn, shop
    <3>5. QED BY <3>3, <3>4 DEF OrderBy
  <2>2. CASE turn' = turn /\ Me' = Me
    <3>1. ~OrderBy(Me, k)
      BY <1>0, <1>3, <2>2
    <3>2. CASE UNCHANGED ledger
      BY <2>2, <3>1, <3>2 DEF OrderBy
    <3>3. ASSUME NEW l \in Keys, Decide(l)
          PROVE  ~OrderBy(Me, k)'
      BY <2>2, <3>1, <3>3, DecidesWhose DEF OrderBy
    <3>4. CASE CreateOrder
      BY <1>3, <2>2, <3>4 DEF CreateOrder, Answers, AnswerLost, Throws, Reaches, Idle
    <3>5. QED BY <3>2, <3>3, <3>4, LedgerMoves
  <2>3. CASE Classify \/ Validate
    BY <1>0, <2>3 DEF Classify, Validate, shop, Me, OrderBy
  <2>4. CASE Load \/ CreateOrder \/ ReplayOrder \/ Unavailable \/ HandOver \/ Write \/ Throw \/ Crash
    <3>1. turn'.pc \notin {"classify", "check", "order"}
      BY <2>4, LoadWorks, WriteWorks DEF CreateOrder, ReplayOrder, Unavailable, HandOver, Throw, Crash,
           Answers, AnswerLost, Throws, Leaves, Reaches, Idle, Ends
    <3>2. QED BY <1>3, <3>1
  <2>5. ASSUME NEW m \in Messages, Lease(m)
        PROVE  ~OrderBy(Me, k)'
    <3>1. turn' = turn /\ queue # <<>>
      BY <1>3, <2>5 DEF Lease, TurnOK
    <3>2. Me' = Me
      BY <2>5, <3>1, QueueIs DEF Lease, Me
    <3>3. QED BY <2>2, <3>1, <3>2
  <2>6. CASE UNCHANGED <<turn, queue>>
    BY <2>2, <2>6 DEF Me
  <2>7. QED BY <2>1, <2>3, <2>4, <2>5, <2>6
            DEF Next, Step, Arrive, Lapse, SaveLands, SaveFails, Decide, vars
<1>4. QED BY <1>1, <1>2, <1>3

-----------------------------------------------------------------------------
(* The theorems. *)

(***************************************************************************)
(* Whatever is leased again, lost, saved late or thrown away by a crash,   *)
(* the jobs, the write chain, the mute, the books and the orders agree.    *)
(***************************************************************************)
THEOREM Inductive == Spec => []IInv
<1>1. Init => IInv
  <2> SUFFICES ASSUME Init
               PROVE  IInv
    OBVIOUS
  <2>1. TypeOK /\ JobsOK /\ TurnOK
    BY InitTyped, InitJobs
  <2>2. /\ mem = NoContext /\ saves = <<>> /\ turn.pc = "idle" /\ handed = "none"
        /\ row = [Fresh EXCEPT !.known = TRUE, !.version = 1]
        /\ \A k \in Keys : ledger[k] = NoOrder
    BY DEF Init, Idle
  <2>3. SavesAscend /\ MutedOK /\ OrderersKnown /\ OneOrderPerYes
    BY <2>2 DEF SavesAscend, MutedOK, OrderersKnown, OneOrderPerYes, OrderBy
  <2>4. Current = row /\ row.orders = 0 /\ row.filed = <<>>
    BY <2>1, <2>2, CurrentIs DEF Fresh
  <2>5. BooksAgree
    BY <2>2, <2>4, NumbersAre DEF BooksAgree, KeyOf, NoOrder
  <2>6. QED BY <2>1, <2>3, <2>5 DEF IInv
<1>2. IInv /\ [Next]_vars => IInv'
  BY NextTyped, NextJobs, NextTurn, NextAscends, NextMuted, NextBooks, NextOrderers DEF IInv
<1>3. QED BY <1>1, <1>2, PTL DEF Spec

(***************************************************************************)
(* However often its job is leased, a customer's yes places one order,     *)
(* short of a context that has lost state, or dropped a line whose job was *)
(* still open (turn.ts, threadHasAbsorbed and the order key).              *)
(***************************************************************************)
THEOREM OneOrder == Spec => []OneOrderPerYes
<1>1. IInv => OneOrderPerYes
  BY DEF IInv
<1>2. QED BY <1>1, Inductive, PTL

(***************************************************************************)
(* The orders under the keys a context has counted are those the shop has, *)
(* its next key is free for another order, and a settled entry says what   *)
(* the founder decided, short of a loss (turn.ts, orderActionKey and       *)
(* reconcilePendingOrders).                                                *)
(***************************************************************************)
THEOREM BooksKept == Spec => []BooksAgree
<1>1. IInv => BooksAgree
  BY DEF IInv
<1>2. QED BY <1>1, Inductive, PTL

(***************************************************************************)
(* Once a person has the thread Nova sends nothing more on it, whatever    *)
(* was queued, short of a loss (turn.ts, the muted thread).                *)
(***************************************************************************)
THEOREM Silent == Spec => SilentAfterHandover
<1>1. IInv /\ [Next]_vars => [handed = "executed" /\ "state" \notin lost => heard' = heard]_vars
  <2>1. SUFFICES ASSUME IInv, [Next]_vars, handed = "executed", "state" \notin lost
                 PROVE  heard' = heard
    OBVIOUS
  <2>2. turn.pc \in {"idle", "take"}
    BY <2>1 DEF IInv, MutedOK
  <2>3. QED
    BY <2>1, <2>2 DEF Next, Step, Load, TakeIn, Classify, Validate, CreateOrder, ReplayOrder, Unavailable,
         HandOver, Write, Arrive, Throw, Lease, Lapse, SaveLands, SaveFails, Crash, Decide, history, vars
<1>2. QED BY <1>1, Inductive, PTL DEF Spec, SilentAfterHandover

(***************************************************************************)
(* Saves are not awaited, yet the row never goes back to an earlier turn,  *)
(* short of a failed load (context-store.ts, enqueue).                     *)
(***************************************************************************)
THEOREM RowGoesOn == Spec => RowNeverGoesBack
<1>1. IInv /\ [Next]_vars => [row'.version < row.version => "state" \in lost]_vars
  <2>1. SUFFICES ASSUME IInv, [Next]_vars, "state" \notin lost
                 PROVE  ~(row'.version < row.version)
    OBVIOUS
  <2>2. row.version \in Nat /\ \A i \in DOMAIN saves : saves[i].version \in Nat /\ row.version <= saves[i].version
    BY <2>1, VersionsAre DEF IInv, SavesAscend
  <2>3. CASE SaveLands
    <3>1. row' = saves[1] /\ 1 \in DOMAIN saves
      BY <2>1, <2>3, VersionsAre DEF SaveLands, IInv
    <3>2. QED BY <2>2, <3>1
  <2>4. CASE row' = row
    BY <2>2, <2>4
  <2>5. QED
    <3>1. Step \/ Throw => row' = row
      BY <2>1, LoadWorks, TakeInWorks, ThinkingWorks, OrderWorks, HandOverWorks, WriteWorks
         DEF Step, Works, Throw, IInv, stored
    <3>2. QED BY <2>1, <2>3, <2>4, <3>1 DEF Next, Arrive, Lease, Lapse, SaveFails, Crash, Decide, stored, vars
<1>2. QED BY <1>1, Inductive, PTL DEF Spec, RowNeverGoesBack
=============================================================================
