----------------------------- MODULE PulseWatch -----------------------------
(***************************************************************************)
(* The hourly pulse of one store (runPulse in src/brain/pulse.ts) with its *)
(* snapshot (src/brain/pulse-state.ts): sense, drain the inbox, compare,   *)
(* judge, settle, report, save, each `await` a step of its own.            *)
(*                                                                         *)
(* A run is one delivery of one pulse job.  Jobs of two hours may be       *)
(* claimed in one batch and run at the same time; a delivery that dies     *)
(* is delivered again under the same dedupe key.  The store changes under  *)
(* them, so that every sense is any of Senses.                             *)
(***************************************************************************)
EXTENDS PulseCompare

CONSTANTS
  Jobs,        \* the pulse jobs, one per hour
  Runs,        \* the deliveries, numbered
  JobOf,       \* Runs -> Jobs
  Senses,      \* what the store may answer, without its inbox
  Events,      \* the cart.abandoned events of the inbox
  ActingKinds, \* the kinds of condition whose remedy is a duty of the pulse's lane
  MaxTime,     \* bound on the clock
  MaxTogether, \* bound: the pulses of one batch, or an overrun and its successor
  MaxFaults    \* bound: deaths, failed calls

ASSUME PulseAssumption ==
  /\ Runs \subseteq Nat /\ JobOf \in [Runs -> Jobs] /\ ActingKinds \subseteq Kinds
  /\ MaxTime \in Nat /\ MaxTogether \in Nat /\ MaxFaults \in Nat

VARIABLES
  clock,     \* the store's clock
  snapshot,  \* the pulse's memory
  reports,   \* per job, the report filed under its dedupe key
  desk,      \* the action ledger's rows, by key: the condition and the day
  unread,    \* the events of the inbox that nobody has processed
  runs,      \* per delivery, how far it is and what it knows
  told,      \* history: what the founder was told in a report, and when
  missed,    \* history: what was to go into a report that an earlier delivery had filed
  cut,       \* history: the jobs a delivery of which died with the report filed
  faults

historyVars == <<told, missed, cut>>
watchVars == <<clock, snapshot, reports, desk, unread, runs, historyVars, faults>>

Run == [pc |-> "due", sense |-> NoSnapshot, at |-> 0, prior |-> NoSnapshot, todo |-> {},
        settled |-> {}, onDesk |-> {}, dismissed |-> {}, drain |-> {}, filed |-> FALSE]

Pcs == {"due", "drain", "load", "decide", "settle", "report", "save", "done", "quiet", "threw", "dead"}
Ended == {"done", "quiet", "threw", "dead"}

(* A prepared row whose card did not reach the desk is "uncarded"; a rejected or undone one is "spent". *)
Statuses == {"uncarded", "prepared", "blocked", "executed", "spent"}
NoReport == [about |-> {}, blind |-> {}, filed |-> FALSE]

WatchTypeOK ==
  /\ clock \in 0..MaxTime /\ faults \in 0..MaxFaults
  /\ \A r \in Runs : runs[r].pc \in Pcs /\ runs[r].todo \cap runs[r].settled = {}
  /\ \A key \in DOMAIN snapshot.open : snapshot.open[key].since \in 0..clock
  /\ \A row \in DOMAIN desk : desk[row] \in Statuses
  /\ unread \subseteq Events
  /\ cut \subseteq Jobs

WatchInit ==
  /\ clock = 0 /\ snapshot = NoSnapshot /\ desk = <<>> /\ faults = 0
  /\ reports = [j \in Jobs |-> NoReport]
  /\ unread = {}
  /\ runs = [r \in Runs |-> Run]
  /\ told = {} /\ missed = {} /\ cut = {}

me(r) == runs[r]
At(r, pc) == me(r).pc = pc
Moves(r, new) == runs' = [runs EXCEPT ![r] = new]
GoTo(r, pc) == [me(r) EXCEPT !.pc = pc]
Over(pc) == [Run EXCEPT !.pc = pc]
Faulty == faults < MaxFaults /\ faults' = faults + 1

Found(m) == FindingKeys(m.sense, m.at, m.prior)
BlindNews(m) == BlindSpotNews(m.sense, m.at, m.prior)

-----------------------------------------------------------------------------
(* A delivery. *)

(* Once drained: a pulse that could see nothing did not happen. *)
AfterDraining(m) ==
  CASE m.drain # {} -> m
    [] m.drain = {} /\ AllSensesDark(m.sense) -> Over("threw")
    [] OTHER -> [m EXCEPT !.pc = "load"]

(* The six reads.  Jobs start in the order they fell due; none is delivered twice at once. *)
Sense(r) ==
  /\ At(r, "due")
  /\ \A q \in Runs : q < r => ~At(q, "due")
  /\ \A q \in Runs : JobOf[q] = JobOf[r] /\ q < r => At(q, "dead") \/ At(q, "threw")
  /\ Cardinality({q \in Runs : me(q).pc \notin {"due"} \cup Ended}) < MaxTogether
  /\ \E s \in Senses :
       Moves(r, AfterDraining([me(r) EXCEPT !.pc = "drain", !.sense = s, !.at = clock,
                   !.drain = IF s.inbox.ok THEN unread ELSE {}]))
  /\ UNCHANGED <<clock, snapshot, reports, desk, unread, historyVars, faults>>

(* Whatever the event's type, and whoever has processed it meanwhile. *)
MarkEventProcessed(e) == unread' = unread \ {e}

(* A failure to mark is counted and passed over. *)
Drain(r) ==
  /\ At(r, "drain")
  /\ \E e \in me(r).drain :
       /\ \/ MarkEventProcessed(e) /\ UNCHANGED faults
          \/ Faulty /\ UNCHANGED unread
       /\ Moves(r, AfterDraining([me(r) EXCEPT !.drain = @ \ {e}]))
  /\ UNCHANGED <<clock, snapshot, reports, desk, historyVars>>

(* Nothing crossed and nothing new is dark: the pulse is quiet, and saves. *)
AfterCompare(m) ==
  [m EXCEPT !.pc = IF Found(m) = {} /\ BlindNews(m) = {} THEN "save" ELSE "decide"]

(* loadPulseState: a snapshot that cannot be read is a first sighting. *)
Load(r) ==
  /\ At(r, "load")
  /\ \/ Moves(r, AfterCompare([me(r) EXCEPT !.prior = snapshot])) /\ UNCHANGED faults
     \/ /\ snapshot # NoSnapshot /\ Faulty
        /\ Moves(r, AfterCompare(me(r)))
  /\ UNCHANGED <<clock, snapshot, reports, desk, unread, historyVars>>

Critical(key) == SeverityOf[key[1]] = "critical"

(* A department the judge would not wake the founder for is set aside, unless it is critical. *)
SetAside(m, bored) ==
  {key \in Found(m) : /\ DepartmentOf[key[1]] \in bored
                      /\ \A other \in Found(m) :
                           DepartmentOf[other[1]] = DepartmentOf[key[1]] => ~Critical(other)}

AfterJudging(m, aside) ==
  [m EXCEPT !.dismissed = aside, !.todo = Found(m) \ aside,
            !.pc = CASE Found(m) # aside -> "settle"
                   [] Found(m) = aside /\ BlindNews(m) # {} -> "report"
                   [] OTHER -> "save"]

(* One call per moved department; a judge that fails wakes the founder. *)
Decide(r) ==
  /\ At(r, "decide")
  /\ \E bored \in SUBSET {DepartmentOf[key[1]] : key \in Found(me(r))} :
       Moves(r, AfterJudging(me(r), SetAside(me(r), bored)))
  /\ UNCHANGED <<clock, snapshot, reports, desk, unread, historyVars, faults>>

DayOf(at) == at \div DayTicks
RowKey(key, at) == <<key, DayOf(at)>>
Filed(row, status) == [k \in DOMAIN desk \cup {row} |-> IF k = row THEN status ELSE desk[k]]

Settled(m, key) ==
  [m EXCEPT !.todo = @ \ {key}, !.settled = @ \cup {key},
            !.pc = IF m.todo = {key} THEN "report" ELSE "settle"]

(* No remedy, or one whose duty this lane does not hold: the report is the response. *)
SettleReported(r) ==
  /\ At(r, "settle")
  /\ \E key \in me(r).todo :
       /\ key[1] \notin ActingKinds
       /\ Moves(r, Settled(me(r), key))
  /\ UNCHANGED <<clock, snapshot, reports, desk, unread, historyVars, faults>>

(* The outcomes that count as a card on the desk (reachedTheDesk), and a refusal, which does not. *)
Reached(m, key) == [Settled(m, key) EXCEPT !.onDesk = @ \cup {key}]
Refused(m, key) == Settled(m, key)

(* A row is filed, blocked or prepared; addDecision is best effort, and the outcome is the same. *)
FileRow(r, key, row) ==
  \/ desk' = Filed(row, "prepared") /\ Moves(r, Reached(me(r), key)) /\ UNCHANGED faults
  \/ desk' = Filed(row, "uncarded") /\ Moves(r, Reached(me(r), key)) /\ Faulty
  \/ desk' = Filed(row, "blocked") /\ Moves(r, Refused(me(r), key)) /\ UNCHANGED faults

(* settleOwningRow: the row answers; healDecision files a missing card, or fails and says the same. *)
Replay(r, key, row) ==
  \/ /\ desk[row] \in {"blocked", "spent"} /\ Moves(r, Refused(me(r), key))
     /\ UNCHANGED <<desk, faults>>
  \/ /\ desk[row] \in {"prepared", "executed"} /\ Moves(r, Reached(me(r), key))
     /\ UNCHANGED <<desk, faults>>
  \/ /\ desk[row] = "uncarded" /\ Moves(r, Reached(me(r), key))
     /\ \/ desk' = Filed(row, "prepared") /\ UNCHANGED faults
        \/ Faulty /\ UNCHANGED desk

(* gateOrFile: a row that owns the key answers; else one is filed. *)
SettleThroughGate(r) ==
  /\ At(r, "settle")
  /\ \E key \in me(r).todo :
       LET row == RowKey(key, me(r).at)
       IN /\ key[1] \in ActingKinds
          /\ IF row \in DOMAIN desk THEN Replay(r, key, row) ELSE FileRow(r, key, row)
  /\ UNCHANGED <<clock, snapshot, reports, unread, historyVars>>

(* assertSameRequest: the row was filed for other numbers than this sense's, which ends the pulse. *)
GateThrows(r) ==
  /\ At(r, "settle")
  /\ \E key \in me(r).todo : key[1] \in ActingKinds /\ RowKey(key, me(r).at) \in DOMAIN desk
  /\ Moves(r, Over("threw"))
  /\ UNCHANGED <<clock, snapshot, reports, desk, unread, historyVars, faults>>

(* addReport: the report already filed under the dedupe key is the answer. *)
FiledUnder(old, new) == IF old.filed THEN old ELSE new

ToTell(m) == m.settled \cup BlindNews(m)

AddReport(r) ==
  LET job == JobOf[r]
  IN /\ At(r, "report")
     /\ reports' = [reports EXCEPT ![job] =
          FiledUnder(@, [about |-> me(r).settled, blind |-> BlindNews(me(r)), filed |-> TRUE])]
     /\ IF reports[job].filed
        THEN missed' = missed \cup {[what |-> w, at |-> clock, job |-> job] : w \in ToTell(me(r))}
             /\ UNCHANGED told
        ELSE told' = told \cup {[what |-> w, at |-> clock] : w \in ToTell(me(r))} /\ UNCHANGED missed
     /\ Moves(r, [me(r) EXCEPT !.pc = "save", !.filed = TRUE])
     /\ UNCHANGED <<clock, snapshot, desk, unread, cut, faults>>

(* A lost report loses nothing: whatever it was about is news again. *)
ReportFails(r) ==
  /\ At(r, "report") /\ Faulty
  /\ Moves(r, GoTo(r, "save"))
  /\ UNCHANGED <<clock, snapshot, reports, desk, unread, historyVars>>

(* Mutant: whatever was settled counts as announced. *)
AnnouncedIfSettled(m) == m.settled

(* What reached the founder: by the report, or as a card on the desk. *)
Announced(m) == IF m.filed THEN m.settled ELSE m.onDesk

NextMemory(m) ==
  NextSnapshot(m.sense, m.at, m.prior, Announced(m), m.dismissed, IF m.filed THEN BlindNews(m) ELSE {})

Ending(m) == IF m.settled = {} /\ BlindNews(m) = {} THEN "quiet" ELSE "done"

(* savePulseState; one that fails is logged, and the job completes all the same. *)
Save(r) ==
  /\ At(r, "save")
  /\ \/ snapshot' = NextMemory(me(r)) /\ UNCHANGED faults
     \/ Faulty /\ UNCHANGED snapshot
  /\ Moves(r, Over(Ending(me(r))))
  /\ UNCHANGED <<clock, reports, desk, unread, historyVars>>

(* The process dies, or the lease lapses, with the job not yet completed. *)
Die(r) ==
  /\ me(r).pc \notin {"due", "threw", "dead"} /\ Faulty
  /\ Moves(r, Over("dead"))
  /\ cut' = IF reports[JobOf[r]].filed THEN cut \cup {JobOf[r]} ELSE cut
  /\ UNCHANGED <<clock, snapshot, reports, desk, unread, told, missed>>

-----------------------------------------------------------------------------
(* Around it. *)

(* An event that was processed may stand for the next.  Bound: none comes after the last sense. *)
ReceiveEvent ==
  /\ \E r \in Runs : At(r, "due")
  /\ \E e \in Events \ unread : unread' = unread \cup {e}
  /\ UNCHANGED <<clock, snapshot, reports, desk, runs, historyVars, faults>>

(* drainCartAbandonedEventsToJobs, with every claim of due jobs. *)
ClaimSweeps ==
  /\ unread # {} /\ unread' = {}
  /\ UNCHANGED <<clock, snapshot, reports, desk, runs, historyVars, faults>>

(* The founder decides by the card, and may undo what they approved. *)
FounderSettles ==
  /\ \E row \in DOMAIN desk :
       \/ desk[row] = "prepared" /\ desk' = [desk EXCEPT ![row] = "executed"]
       \/ desk[row] \in {"prepared", "executed"} /\ desk' = [desk EXCEPT ![row] = "spent"]
  /\ UNCHANGED <<clock, snapshot, reports, unread, runs, historyVars, faults>>

(* Time passes between pulses: a run takes a fraction of a tick. *)
TimePasses ==
  /\ clock < MaxTime /\ clock' = clock + 1
  /\ \A r \in Runs : me(r).pc \in {"due"} \cup Ended
  /\ UNCHANGED <<snapshot, reports, desk, unread, runs, historyVars, faults>>

WatchNext ==
  \/ \E r \in Runs :
       \/ Sense(r) \/ Drain(r) \/ Load(r) \/ Decide(r)
       \/ SettleReported(r) \/ SettleThroughGate(r) \/ GateThrows(r)
       \/ AddReport(r) \/ ReportFails(r) \/ Save(r) \/ Die(r)
  \/ ReceiveEvent \/ ClaimSweeps \/ FounderSettles \/ TimePasses

WatchSpec == WatchInit /\ [][WatchNext]_watchVars

-----------------------------------------------------------------------------
WithinADay(then, at) == \E t \in then : at - t < DayTicks

(* A row of a condition, of the day `then` or a later one, that is as the founder left it. *)
HasRow(key, then, statuses) ==
  \E row \in DOMAIN desk : row[1] = key /\ row[2] >= DayOf(then) /\ desk[row] \in statuses

(* In a report since, or on a card: a card is of a condition and a day, and is not filed twice. *)
ToldSince(what, then) ==
  \/ \E t \in told : t.what = what /\ t.at >= then
  \/ HasRow(what, then, {"prepared", "executed", "spent"})

(* What a redelivery counted as told by the report that the delivery before it had filed. *)
TakenForTold == {m \in missed : m.job \in cut}

(***************************************************************************)
(* The two ways in which the code may count as told what was not: a        *)
(* delivery died after it had filed its report, and the next takes that    *)
(* report for its own; or neither the card nor the report was delivered.   *)
(***************************************************************************)
WronglyCounted(what, then) ==
  \/ \E m \in TakenForTold : m.what = what /\ m.at >= then
  \/ HasRow(what, then, {"uncarded"})

SetAsideLately(m, key) ==
  key \in m.dismissed \/ (key \in OpenKeys(m.prior) /\ WithinADay(m.prior.open[key].dismissedAt, m.at))

HidesNothing(m) ==
  LET since(key) == m.prior.open[key].since
  IN /\ \A c \in Conditions(m.sense) :
          \/ /\ c.key \in OpenKeys(m.prior)
             /\ ToldSince(c.key, since(c.key)) \/ WronglyCounted(c.key, since(c.key))
          \/ ~Critical(c.key) /\ SetAsideLately(m, c.key)
     /\ \A spot \in BlindSpots(m.sense) :
          \E t \in told \cup TakenForTold : t.what = spot /\ m.at - t.at < DayTicks

(***************************************************************************)
(* The summary's `quiet` hides nothing.  Whatever is true of the store     *)
(* when a pulse ends quiet was told to the founder since it began, or is   *)
(* not critical and was set aside less than a day ago; and whatever it     *)
(* could not see was told less than a day ago.  A delivery that died after *)
(* its report, or a lost card, is the one excuse.                          *)
(***************************************************************************)
EndsAs(r, pc) == At(r, "save") /\ me(r)'.pc = pc

QuietIsTrue == [][\A r \in Runs : EndsAs(r, "quiet") => HidesNothing(me(r))]_watchVars

(***************************************************************************)
(* A condition the snapshot calls announced was shown to the founder since *)
(* it began, in a report or on a card: only then may it stay silent.  The  *)
(* excuses are those of WronglyCounted.                                    *)
(***************************************************************************)
AnnouncedWasTold ==
  \A key \in DOMAIN snapshot.open :
    snapshot.open[key].announced =>
      LET since == snapshot.open[key].since
      IN ToldSince(key, since) \/ WronglyCounted(key, since)

(* Without the excuses, as pulse-compare.ts says it: the code does not keep this. *)
AnnouncedWasReallyTold ==
  \A key \in DOMAIN snapshot.open :
    snapshot.open[key].announced => ToldSince(key, snapshot.open[key].since)

(* What it takes to see that a condition is over, in the fields that the store answers with. *)
LookedAt(s, key) ==
  LET subject == key[2]
      Listed(read) == subject \in DOMAIN read.page
      p == s.products.page[subject]
      u == s.suppliers.page[subject]
      c == s.courier.page[subject]
      IsOffered == /\ s.suppliers.ok /\ p.supplier \in DOMAIN s.suppliers.page
                   /\ subject \in DOMAIN s.suppliers.page[p.supplier].offers
  IN CASE key[1] = "margin" -> s.products.ok /\ IF Listed(s.products) THEN p.cost > 0 /\ p.price > 0
                                                ELSE ~s.products.full
       [] key[1] = "cover" -> s.products.ok /\ IF Listed(s.products) THEN p.weeks # <<>> /\ IsOffered
                                               ELSE ~s.products.full
       [] key[1] = "dead" -> s.products.ok /\ IF Listed(s.products)
                                              THEN p.weeks # <<>> /\ p.cost > 0 /\ p.reorderPoint > 0
                                              ELSE ~s.products.full
       [] key[1] = "drop" -> s.sales.ok /\ ~s.sales.full /\ s.sales.priorWeek > 0
       [] key[1] = "carts" -> s.carts.ok
       [] key[1] = "delay" -> s.suppliers.ok /\ (Listed(s.suppliers) => u.delay # {} /\ DOMAIN u.offers # {})
       [] key[1] = "rto" -> s.courier.ok /\ IF Listed(s.courier) THEN c.rto # {} /\ c.evidence
                                             ELSE ~s.courier.full
       [] key[1] = "slow" -> s.courier.ok /\ IF Listed(s.courier)
                                              THEN c.days # {} /\ c.evidence /\ c.sample >= 10
                                              ELSE ~s.courier.full
       [] key[1] = "stagnant" -> s.courier.ok /\ (~Listed(s.courier) => ~s.courier.full)

(***************************************************************************)
(* What the code closes without having looked: a delay whose supplier came *)
(* back as a stub, whose zero is a placeholder; and what was true of a     *)
(* courier that a truncated read does not list.                            *)
(***************************************************************************)
KnownGap(s, key) ==
  \/ key[1] = "delay" /\ key[2] \in Rows(s.suppliers) /\ DOMAIN s.suppliers.page[key[2]].offers = {}
  \/ key[1] \in {"rto", "slow", "stagnant"} /\ s.courier.full /\ key[2] \notin DOMAIN s.courier.page

(***************************************************************************)
(* A pulse forgets nothing it could not see: a condition its predecessor   *)
(* left open is closed only by a sense that read what the condition is     *)
(* made of, not by a read that failed, a field that was missing or a       *)
(* catalogue that was cut short; KnownGap is the exception.                *)
(***************************************************************************)
ForgetsNothingUnseen ==
  [][\A r \in Runs : (EndsAs(r, "quiet") \/ EndsAs(r, "done")) /\ snapshot' # snapshot =>
       \A key \in OpenKeys(me(r).prior) \ DOMAIN snapshot'.open :
         LookedAt(me(r).sense, key) \/ KnownGap(me(r).sense, key)]_watchVars
===============================================================================
