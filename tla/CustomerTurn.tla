----------------------------- MODULE CustomerTurn -----------------------------
(***************************************************************************)
(* The live turns of one conversation (src/front-office/turn.ts): each is  *)
(* the inbox_reply job of one customer message, run one at a time under    *)
(* the conversation's lock, over a context kept in memory and saved behind *)
(* its back (src/front-office/context-store.ts).  The dispatcher completes *)
(* or releases the job by what the turn came to.                           *)
(*                                                                         *)
(* A turn works on the context in place: what it has changed stays in      *)
(* memory if it throws, and reaches the row only with the save at its end. *)
(* One session epoch and one process; the cart is a quantity and a size of *)
(* one product that has no required size.                                  *)
(***************************************************************************)
EXTENDS Naturals, Sequences

CONSTANTS
  MaxMessages,   \* bound: how many messages the customer sends
  MaxLeases,     \* bound: how often one message's job is leased
  MaxOrders,     \* bound: the last number an order key carries
  Quantities,    \* the quantities a customer asks for
  RecentMax,     \* RECENT_MAX, the lines a context remembers
  MaxFaults      \* bound: failed calls, empty replies, lapses and crashes together

ASSUME TurnAssumption ==
  /\ {MaxMessages, MaxLeases, MaxOrders, MaxFaults} \subseteq Nat
  /\ Quantities \subseteq Nat \ {0} /\ RecentMax \in Nat \ {0}

VARIABLES
  thread,    \* the customer's messages
  job,       \* the job of each message, and which lease it is under
  queue,     \* the turns under the conversation's lock; the head one runs
  turn,      \* how far it is, and the action it decided on
  mem,       \* the context in memory, or NoContext
  row,       \* the context's row, or NoContext
  saves,     \* the write chain
  ledger,    \* the orders, by the number in the order key, or NoOrder
  handed,    \* the hand-over's row: "none", "executed" or "blocked"
  heard,     \* history: the messages that were answered, by Nova or by the shop
  shown,     \* history: the cart of the last summary the customer was sent
  lost,      \* history: what the context has lost
  faults     \* how many faults there have been

stored == <<mem, row, saves>>
shop == <<ledger, handed>>
history == <<heard, shown, lost>>
vars == <<thread, job, queue, turn, stored, shop, history, faults>>

Messages == 1..MaxMessages
Keys == 0..MaxOrders
Novas == 0   \* a line of Nova's; a customer's line is its message

(* A quantity voids a summary, as a zone does; a size does not, nor does a phone or an address. *)
Content == [says : {"qty"}, qty : Quantities] \cup [says : {"size", "yes", "person"}, qty : {0}]

Carts == [qty : {0} \cup Quantities, sized : BOOLEAN]
EmptyCart == [qty |-> 0, sized |-> FALSE]
Order == [by : Messages, cart : Carts,
          status : {"executed", "prepared", "blocked", "approved", "rejected"}]
NoOrder == [status |-> "none"]

Entry == [key : Keys, state : {"pending", "placed", "closed"}]
Context ==
  [known : BOOLEAN,                  \* product, zone, phone and address are given
   cart : Carts, confirm : BOOLEAN,  \* confirmSent
   orders : Nat, filed : Seq(Entry), \* orders[], pendingOrders[]
   escalated : BOOLEAN,              \* the stage that mutes Nova
   recent : Seq(Messages \cup {Novas}), version : Nat]
NoContext == [version |-> 0]

Fresh == [known |-> FALSE, cart |-> EmptyCart, confirm |-> FALSE, orders |-> 0, filed |-> <<>>,
          escalated |-> FALSE, recent |-> <<>>, version |-> 0]

Idle == [pc |-> "idle", action |-> "none"]

Contexts == {c \in Context : Len(c.recent) <= RecentMax}

TypeOK ==
  /\ thread \in Seq(Content) /\ Len(thread) <= MaxMessages
  /\ job \in [Messages -> [status : {"none", "due", "leased", "done"}, lease : 0..MaxLeases]]
  /\ queue \in Seq([msg : Messages, lease : 1..MaxLeases, read : BOOLEAN])
  /\ turn \in [pc : {"idle", "take", "classify", "check", "order", "handover", "write"},
               action : {"none", "ask", "summary", "order", "handover", "placed", "refused"}]
  /\ mem \in Contexts \cup {NoContext} /\ row \in Contexts /\ saves \in Seq(Contexts)
  /\ ledger \in [Keys -> Order \cup {NoOrder}]
  /\ handed \in {"none", "executed", "blocked"}
  /\ heard \subseteq Messages /\ shown \in Carts /\ lost \subseteq {"state", "line"}
  /\ faults \in 0..MaxFaults

(* The product, the zone and the contact were given before, and are not given again. *)
Init ==
  /\ thread = <<>>
  /\ job = [m \in Messages |-> [status |-> "none", lease |-> 0]]
  /\ queue = <<>> /\ turn = Idle
  /\ mem = NoContext /\ row = [Fresh EXCEPT !.known = TRUE, !.version = 1] /\ saves = <<>>
  /\ ledger = [k \in Keys |-> NoOrder] /\ handed = "none"
  /\ heard = {} /\ shown = EmptyCart /\ lost = {}
  /\ faults = 0

Faulty == faults < MaxFaults /\ faults' = faults + 1
Reliably == UNCHANGED faults

-----------------------------------------------------------------------------
(* The thread, and the jobs of its messages. *)

(* A message whose delivery failed becomes an inbox_reply job. *)
Arrive ==
  /\ Len(thread) < MaxMessages
  /\ \E content \in Content : thread' = Append(thread, content)
  /\ job' = [job EXCEPT ![Len(thread) + 1].status = "due"]
  /\ UNCHANGED <<queue, turn, stored, shop, history, faults>>

(* The job is leased, its message read from the thread, and its turn queued for the lock. A job
   names one message, and the thread shows it: a batch of several is left out, and so is the
   answer to the latest line that stands in for a message the thread does not show. *)
Lease(m) ==
  /\ job[m].status = "due" /\ job[m].lease < MaxLeases
  /\ job' = [job EXCEPT ![m] = [status |-> "leased", lease |-> @.lease + 1]]
  /\ \E read \in BOOLEAN :
       /\ queue' = Append(queue, [msg |-> m, lease |-> job[m].lease + 1, read |-> read])
       /\ IF read THEN Reliably ELSE Faulty
  /\ UNCHANGED <<thread, turn, stored, shop, history>>

InQueue(m) == \E i \in DOMAIN queue : queue[i].msg = m

(* The lease runs out, under its turn or after a crash. *)
Lapse(m) ==
  /\ job[m].status = "leased"
  /\ job' = [job EXCEPT ![m].status = "due"]
  /\ IF InQueue(m) THEN Faulty ELSE Reliably
  /\ UNCHANGED <<thread, queue, turn, stored, shop, history>>

-----------------------------------------------------------------------------
(* The context store. *)

(* Mutant: saves are not chained, and the later one lands first. *)
LaterFirst(chain, context) == <<context>> \o chain

Enqueued(chain, context) == Append(chain, context)

SaveLands ==
  /\ saves # <<>>
  /\ row' = Head(saves) /\ saves' = Tail(saves)
  /\ UNCHANGED <<thread, job, queue, turn, mem, shop, history, faults>>

SaveFails ==
  /\ saves # <<>>
  /\ saves' = Tail(saves)
  /\ Faulty
  /\ UNCHANGED <<thread, job, queue, turn, mem, row, shop, history>>

(* The process dies: what the row does not hold is gone. *)
Crash ==
  /\ mem # NoContext \/ queue # <<>>
  /\ mem' = NoContext /\ saves' = <<>> /\ queue' = <<>> /\ turn' = Idle
  /\ lost' = IF mem \in {NoContext, row} THEN lost ELSE lost \cup {"state"}
  /\ Faulty
  /\ UNCHANGED <<thread, job, row, shop, heard, shown>>

(***************************************************************************)
(* primeContext and loadContext, then reconcilePendingOrders: an entry     *)
(* still pending takes its state from its row, if that can be read.        *)
(***************************************************************************)
Settled(entry) ==
  IF entry.state = "pending" THEN
    CASE ledger[entry.key].status = "approved" -> [entry EXCEPT !.state = "placed"]
      [] ledger[entry.key].status = "rejected" -> [entry EXCEPT !.state = "closed"]
      [] OTHER                                 -> entry
  ELSE entry

Reconciled(context) ==
  [context EXCEPT !.filed = [i \in DOMAIN @ |-> Settled(@[i])]]

Current == IF mem # NoContext THEN mem ELSE IF row # NoContext THEN row ELSE Fresh

Load ==
  /\ queue # <<>> /\ turn.pc = "idle"
  /\ \/ mem' = Reconciled(Current) /\ UNCHANGED lost /\ Reliably
     \/ mem' = Current /\ Current.filed # <<>> /\ UNCHANGED lost /\ Faulty
     \/ /\ mem = NoContext /\ row # NoContext     \* the load fails: start from nothing
        /\ mem' = Fresh
        /\ lost' = lost \cup {"state"}
        /\ Faulty
  /\ turn' = [turn EXCEPT !.pc = "take"]
  /\ UNCHANGED <<thread, job, queue, row, saves, shop, heard, shown>>

-----------------------------------------------------------------------------
(* The end of a turn. *)

Me == Head(queue).msg
Said == thread[Me]
Reaches(pc, action) == turn' = [pc |-> pc, action |-> action]

(* The job, if the turn still holds its lease. *)
Settles(status) ==
  job' = IF job[Me] = [status |-> "leased", lease |-> Head(queue).lease]
         THEN [job EXCEPT ![Me].status = status] ELSE job

Leaves(status) ==
  /\ Settles(status)
  /\ queue' = Tail(queue) /\ turn' = Idle
  /\ UNCHANGED <<thread, row>>

Bumped(context) == [context EXCEPT !.version = @ + 1]

Saved(context) ==
  /\ mem' = Bumped(context)
  /\ saves' = Enqueued(saves, Bumped(context))

(* Recent lines; the oldest is dropped for the newest. *)
Pushed(lines, line) ==
  LET all == Append(lines, line) IN IF Len(all) > RecentMax THEN Tail(all) ELSE all

(* A customer's line that is dropped while its job may still be run again. *)
Forgets(lines) ==
  Len(lines) = RecentMax /\ Head(lines) # Novas /\ job[Head(lines)].status # "done"

(***************************************************************************)
(* A read, a model call or a gate throws: no save, and the live job is     *)
(* completed, since the turn may have written.  At "idle" it is the store  *)
(* profile that cannot be read.  The lock is passed on either way.         *)
(***************************************************************************)
Throws ==
  /\ Settles("done")
  /\ queue' = Tail(queue) /\ turn' = Idle
  /\ Faulty

Throw ==
  /\ queue # <<>> /\ turn.pc # "take"
  /\ Throws
  /\ UNCHANGED <<thread, stored, shop, history>>

-----------------------------------------------------------------------------
(* The turn. *)

(* Mutant: a message is new whenever its job is run. *)
NeverAbsorbed(context, message) == FALSE

(* The thread has absorbed a message whose line it remembers. *)
Absorbed(context, message) == \E i \in DOMAIN context.recent : context.recent[i] = message

(* No words, or words answered before: completed without a save.  A muted thread is saved. *)
TakeIn ==
  /\ turn.pc = "take"
  /\ \/ /\ ~Head(queue).read \/ Absorbed(mem, Me)
        /\ Leaves("done")
        /\ UNCHANGED <<mem, saves, lost>>
     \/ /\ Head(queue).read /\ ~Absorbed(mem, Me)
        /\ lost' = IF Forgets(mem.recent) THEN lost \cup {"line"} ELSE lost
        /\ LET taken == [mem EXCEPT !.recent = Pushed(@, Me)]
           IN IF mem.escalated THEN Saved(taken) /\ Leaves("done")
              ELSE /\ mem' = taken
                   /\ Reaches("classify", "none")
                   /\ UNCHANGED <<thread, job, queue, row, saves>>
  /\ Reliably
  /\ UNCHANGED <<shop, heard, shown>>

(* What the message changes. *)
Applied(context, content) ==
  CASE content.says = "qty"  -> [context EXCEPT !.cart.qty = content.qty, !.confirm = FALSE]
    [] content.says = "size" -> [context EXCEPT !.cart.sized = TRUE]
    [] OTHER                 -> context

(* nextBestAction: what is missing is asked for, one summary, then a yes orders. *)
NextBestAction(context, content) ==
  CASE content.says = "person"                 -> "handover"
    [] content.says = "yes" /\ context.confirm -> "order"
    [] OTHER -> IF ~context.known \/ context.cart.qty = 0 THEN "ask" ELSE "summary"

Classify ==
  /\ turn.pc = "classify"
  /\ mem' = Applied(mem, Said)
  /\ Reaches("check", NextBestAction(Applied(mem, Said), Said))
  /\ Reliably
  /\ UNCHANGED <<thread, job, queue, row, saves, shop, history>>

(* confirmSent is set with the decision, before a word is written. *)
Presents(context, action) ==
  IF action = "summary" THEN [context EXCEPT !.confirm = TRUE] ELSE context

Validate ==
  /\ turn.pc = "check"
  /\ Reaches(IF turn.action \in {"order", "handover"} THEN turn.action ELSE "write", turn.action)
  /\ mem' = Presents(mem, turn.action)
  /\ Reliably
  /\ UNCHANGED <<thread, job, queue, row, saves, shop, history>>

-----------------------------------------------------------------------------
(* The order gate (performCreateOrder, see ActionGate). *)

(* Mutant: an order that awaits the founder is not counted. *)
OrdersOnly(context) == context.orders

(* orderActionKey: placed and pending orders both count. *)
KeyOf(context) == context.orders + Len(context.filed)

Cleared(context) == [context EXCEPT !.cart = EmptyCart, !.confirm = FALSE]

(* The state moves of an answer of the gate.  An order approved on the desk has no snapshot,
   and is not on the result. *)
After(context, status) ==
  CASE status = "executed" -> [Cleared(context) EXCEPT !.orders = @ + 1]
    [] status = "prepared" ->
         [Cleared(context) EXCEPT !.filed = Append(@, [key |-> KeyOf(context), state |-> "pending"])]
    [] OTHER -> context

Answers(status) ==
  /\ mem' = After(mem, status)
  /\ IF status \in {"blocked", "rejected"} THEN Reaches("handover", "handover")
     ELSE Reaches("write", IF status = "approved" THEN "none" ELSE "placed")
  /\ Reliably
  /\ UNCHANGED <<job, queue, lost>>

NewOrder(status) ==
  ledger' = [ledger EXCEPT ![KeyOf(mem)] = [by |-> Me, cart |-> mem.cart, status |-> status]]

(* The answer of a write is lost: the shop has it, the context does not. *)
AnswerLost == Throws /\ lost' = lost \cup {"state"} /\ UNCHANGED mem

CreateOrder ==
  /\ turn.pc = "order" /\ KeyOf(mem) \in Keys
  /\ ledger[KeyOf(mem)] = NoOrder
  /\ \E status \in {"executed", "prepared", "blocked"} :
       NewOrder(status) /\ (Answers(status) \/ AnswerLost)
  /\ UNCHANGED <<thread, row, saves, handed, heard, shown>>

(* The key is owned: its row answers for the same cart, and another cart is a mismatch. *)
ReplayOrder ==
  /\ turn.pc = "order" /\ KeyOf(mem) \in Keys
  /\ ledger[KeyOf(mem)] # NoOrder
  /\ IF ledger[KeyOf(mem)].cart = mem.cart THEN Answers(ledger[KeyOf(mem)].status)
     ELSE Throws /\ UNCHANGED <<mem, lost>>
  /\ UNCHANGED <<thread, row, saves, shop, heard, shown>>

(* The live reads: out of stock says so, another price presents the summary again. *)
Unavailable ==
  /\ turn.pc = "order"
  /\ \E action \in {"ask", "summary"} : Reaches("write", action)
  /\ Reliably
  /\ UNCHANGED <<thread, job, queue, stored, shop, history>>

(* The founder answers the card of a prepared order. *)
Decide(k) ==
  /\ ledger[k].status = "prepared"
  /\ \E status \in {"approved", "rejected"} : ledger' = [ledger EXCEPT ![k].status = status]
  /\ UNCHANGED <<thread, job, queue, turn, stored, handed, history, faults>>

-----------------------------------------------------------------------------
(* The hand-over gate, and the writer. *)

(* Mutant: the thread is not muted. *)
Unmuted(context, status) == context

Muted(context, status) ==
  IF status = "executed" THEN [context EXCEPT !.escalated = TRUE] ELSE context

(* One row per session owns the hand-over's key.  Executed, the shop sends the holding line. *)
HandOver ==
  /\ turn.pc = "handover"
  /\ \E status \in IF handed = "none" THEN {"executed", "blocked"} ELSE {handed} :
       /\ handed' = status
       /\ \/ /\ status = "executed"
             /\ Saved(Muted(mem, status))
             /\ Leaves("done")
             /\ heard' = heard \cup {Me}
             /\ Reliably /\ UNCHANGED lost
          \/ /\ status = "blocked"
             /\ mem' = Muted(mem, status)
             /\ Reaches("write", "refused")
             /\ Reliably /\ UNCHANGED <<thread, job, queue, row, saves, heard, lost>>
          \/ /\ handed = "none"
             /\ AnswerLost
             /\ UNCHANGED <<thread, row, saves, heard>>
  /\ UNCHANGED <<ledger, shown>>

(* An order or a hand-over's row is on the result: the turn was not silent. *)
HasArtifact == turn.action \in {"placed", "refused"}

Write ==
  /\ turn.pc = "write"
  /\ \/ /\ Saved([mem EXCEPT !.recent = Pushed(@, Novas)])
        /\ Leaves("done")
        /\ heard' = heard \cup {Me}
        /\ shown' = IF turn.action = "summary" THEN mem.cart ELSE shown
        /\ lost' = IF Forgets(mem.recent) THEN lost \cup {"line"} ELSE lost
        /\ Reliably
     \/ /\ Saved(mem)                              \* the model's reply is empty
        /\ Leaves(IF HasArtifact THEN "done" ELSE "due")
        /\ Faulty
        /\ UNCHANGED history
  /\ UNCHANGED shop

Step ==
  \/ Load \/ TakeIn \/ Classify \/ Validate \/ CreateOrder \/ ReplayOrder \/ Unavailable
  \/ HandOver \/ Write

Next ==
  \/ Arrive \/ Step \/ Throw
  \/ \E m \in Messages : Lease(m) \/ Lapse(m)
  \/ SaveLands \/ SaveFails \/ Crash
  \/ \E k \in Keys : Decide(k)

Spec == Init /\ [][Next]_vars

-----------------------------------------------------------------------------
(* What the properties rest on. *)

(* A job is there once its message is.  The turns of a message wait in the order of their
   leases, so the one that holds the job is the last, and a job that is done has none. *)
JobsOK ==
  /\ \A m \in Messages : job[m].status # "none" => m <= Len(thread)
  /\ \A i \in DOMAIN queue :
       LET m == queue[i].msg
       IN /\ m <= Len(thread) /\ job[m].status \in {"due", "leased"}
          /\ queue[i].lease <= job[m].lease
          /\ \A j \in DOMAIN queue : i < j /\ queue[j].msg = m => queue[i].lease < queue[j].lease

(* A turn has a context, which holds its message from the moment it is taken in. *)
TurnOK ==
  /\ mem = NoContext => saves = <<>> /\ turn.pc = "idle"
  /\ turn.pc # "idle" => queue # <<>>
  /\ turn.pc \notin {"idle", "take"} => Absorbed(mem, Me)

(* Short of a loss, each save is of a later turn than the one before it. *)
SavesAscend ==
  "state" \notin lost =>
    /\ \A i \in DOMAIN saves : row.version <= saves[i].version
    /\ \A i, j \in DOMAIN saves : i < j => saves[i].version <= saves[j].version
    /\ mem # NoContext =>
         row.version <= mem.version /\ \A i \in DOMAIN saves : saves[i].version <= mem.version

(* Short of a loss, a hand-over is on the context, and no turn is past the mute. *)
MutedOK ==
  handed = "executed" /\ "state" \notin lost => Current.escalated /\ turn.pc \in {"idle", "take"}

OrderBy(m, k) == ledger[k] # NoOrder /\ ledger[k].by = m

(* Short of a loss, who has ordered is remembered or will not be run again. *)
OrderersKnown ==
  lost = {} =>
    /\ \A m \in Messages, k \in Keys : OrderBy(m, k) => Absorbed(Current, m) \/ job[m].status = "done"
    /\ turn.pc \in {"classify", "check", "order"} => \A k \in Keys : ~OrderBy(Me, k)

-----------------------------------------------------------------------------
(* Properties. *)

(***************************************************************************)
(* However often its job is leased, a customer's yes places one order:     *)
(* short of a context that has lost state, or dropped a line whose job was *)
(* still open.                                                             *)
(***************************************************************************)
OneOrderPerYes ==
  lost = {} => \A k, l \in Keys :
    ledger[k] # NoOrder /\ ledger[l] # NoOrder /\ ledger[k].by = ledger[l].by => k = l

(***************************************************************************)
(* The context's books and the shop's agree, short of a loss: the orders   *)
(* under the keys it has counted are those the shop has, the next key is   *)
(* free for another order, and an entry says of its order what the founder *)
(* decided.                                                                *)
(***************************************************************************)
BooksAgree ==
  "state" \notin lost =>
    /\ \A k \in Keys : k < KeyOf(Current) <=> ledger[k].status \notin {"none", "blocked"}
    /\ \A i \in DOMAIN Current.filed :
         LET entry == Current.filed[i]
         IN entry.state # "pending" =>
              ledger[entry.key].status = IF entry.state = "placed" THEN "approved" ELSE "rejected"

(***************************************************************************)
(* Once a person has the thread, Nova sends nothing more on it, whatever   *)
(* was queued; short of a loss.                                            *)
(***************************************************************************)
SilentAfterHandover ==
  [][handed = "executed" /\ "state" \notin lost => heard' = heard]_vars

(* Saves are not awaited, yet the row never goes back to an earlier turn, short of a failed load. *)
RowNeverGoesBack == [][row'.version < row.version => "state" \in lost]_vars

IInv ==
  /\ TypeOK /\ JobsOK /\ TurnOK
  /\ SavesAscend /\ MutedOK
  /\ OrderersKnown /\ BooksAgree /\ OneOrderPerYes

-----------------------------------------------------------------------------
(* What the comments say, and the code does not keep. *)

(***************************************************************************)
(* dispatcher.ts: "a job completed on a turn that produced nothing is a    *)
(* row that says 'answered' about a customer who heard nothing, forever".  *)
(* A job whose turns have all returned is completed only if its message    *)
(* was answered, or a person has the thread.                               *)
(***************************************************************************)
CompletedIsAnswered ==
  [][\A m \in Messages :
       job[m].status = "leased" /\ job'[m].status = "done" /\ turn.pc = "take" =>
         m \in heard \/ handed = "executed"]_vars

(***************************************************************************)
(* turn.ts, the receipt of an order: "customer replied yes to the final    *)
(* order summary".  What is ordered is the cart of the last summary sent.  *)
(***************************************************************************)
OrderedAsShown ==
  [][\A k \in Keys : ledger[k] = NoOrder /\ ledger'[k] # NoOrder => ledger'[k].cart = shown]_vars
===============================================================================
