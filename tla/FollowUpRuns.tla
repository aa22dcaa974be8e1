---------------------------- MODULE FollowUpRuns ----------------------------
(***************************************************************************)
(* The jobs by which Nova opens its mouth: a promise that is due, a nudge, *)
(* a cart left behind, a case that moved.  An attempt is routed, asks      *)
(* whether the debt is still owed and where (src/brain/router.ts), asks    *)
(* again at the turn's own seam when it could not see, and then words one  *)
(* message on the thread (src/front-office/turn.ts), while the ledger of   *)
(* promises and the hands a thread is in move on.                          *)
(***************************************************************************)
EXTENDS Integers, FiniteSets, SequencesExt, JobRouting

CONSTANTS
    Leases,        \* the attempts of one job
    Threads,
    Jobs,          \* the rows a producer may have written
    ScanLimit,     \* PROMISE_SCAN_LIMIT: the page of open promises
    MaxPromises    \* bound: promises in the ledger

ASSUME FollowUpBounds == ScanLimit \in Nat \ {0} /\ MaxPromises \in Nat

\* The promiseId of a payload is read of a followup alone.
ASSUME PromisesAreFollowedUp == \A j \in Jobs : j.promise # {} => j.kind = "followup"

VARIABLES
    job,
    turnMode,      \* NOVA_BRAIN_TURN_MODE
    ledger,        \* the shop's promises, oldest first
    owedOn,        \* history: the thread of the job's promise
    handed,        \* threads a person has, by what the turns' context says
    attempt        \* per lease: its step, the row it carries, what its looks found

ledgers == <<ledger, handed>>
followUpVars == <<job, turnMode, owedOn, ledgers, attempt>>

Debt == "debt"
Promise(id, thread) == [id |-> id, thread |-> thread, status |-> "open"]

\* The job's promise, somewhere among the others; a promise may be owed on no thread.
Ledgers ==
    {<<>>} \cup {[i \in 1..n |-> IF i = at THEN Promise(Debt, on) ELSE Promise("other", {})] :
                    n \in 1..MaxPromises, at \in 1..MaxPromises, on \in {{c} : c \in Threads} \cup {{}}}

Idle == [step |-> "leasable", row |-> {}, looks |-> {}]

FollowUpInit ==
    /\ job \in Jobs
    /\ turnMode \in {"shadow", "live"}
    /\ ledger \in IF job.promise = {Debt} THEN Ledgers ELSE {<<>>}
    /\ owedOn = UNION {ledger[i].thread : i \in {k \in DOMAIN ledger : ledger[k].id = Debt}}
    /\ handed = {}
    /\ attempt = [t \in Leases |-> Idle]

-----------------------------------------------------------------------------
(* An attempt.  It ends with the row released, or closed. *)

Plan == PlanJob(job)
On(c) == Plan.thread = {c}
At(t, step) == attempt[t].step = step
Goes(t, step) == attempt' = [attempt EXCEPT ![t].step = step]

Closings == {"none", "locked", "words", "silent", "failed"}
Closed == \E t \in Leases : attempt[t].step \in Closings
Ended == Closings \cup {"leasable", "released", "dead"}

\* A turn that threw: nothing says that a live one wrote nothing.
TurnThrows(t) == Goes(t, IF turnMode = "live" THEN "failed" ELSE "released")

Route(t) ==
    /\ At(t, "leasable") /\ ~Closed
    /\ Goes(t, IF Plan.lane # "customer_turn" THEN "released"
               ELSE IF Plan.mode = "promise" THEN "check" ELSE "seam")
    /\ UNCHANGED <<job, turnMode, owedOn, ledgers>>

\* listPromises: where in the ledger the open ones are, a page of them.
IsOpen(promise) == promise.status = "open"
Open == {i \in DOMAIN ledger : IsOpen(ledger[i])}
Page == {i \in Open : Cardinality({j \in Open : j < i}) < ScanLimit}

Sees(page) == {promise \in {ledger[i] : i \in page} : promise.id = Debt}

\* What could go wrong: what is not on the page is gone.
AbsentIsGone(page) == Sees(page) = {}

\* Absence counts when the whole list was seen.
IsGone(page) == Sees(page) = {} /\ Cardinality(page) < ScanLimit

\* What could go wrong: whatever thread the row names, it is this one.
OwedAnywhere(promise, thread) == TRUE

OwedHere(promise, thread) == promise.thread = thread

\* A look at the ledger: the read may fail.
Look(t, found) ==
    attempt[t].looks \cup {IF found # {} THEN "seen" ELSE "unseen"}

\* promiseStillOpen, and what routeJob makes of it.
CheckPromise(t) ==
    /\ At(t, "check")
    /\ \/ attempt' = [attempt EXCEPT ![t].step = "seam", ![t].looks = Look(t, {})]
       \/ LET found == Sees(Page)
              misled == \E promise \in found : ~OwedHere(promise, Plan.thread)
          IN  attempt' = [attempt EXCEPT
                ![t].step = IF IsGone(Page) THEN "none" ELSE IF misled THEN "released" ELSE "seam",
                ![t].row = IF misled THEN {} ELSE found,
                ![t].looks = Look(t, found)]
    /\ UNCHANGED <<job, turnMode, owedOn, ledgers>>

\* assertPromiseOwedHere: of a row the router carried, or of one more look.
Refuses(t, found) == \E promise \in found : ~OwedHere(promise, Plan.thread)

\* runInstructedTurn, before it queues for the thread's lock.
OpenTurn(t) ==
    LET told == InstructionFor(Plan.mode, attempt[t].row)
        looksAgain == told.mode = "promise" /\ told.row = {}
    IN  /\ At(t, "seam")
        /\ \E found \in IF looksAgain THEN {{}, Sees(Page)} ELSE {told.row} :
             IF ~ValidInstructedAction(told) \/ Refuses(t, found) THEN TurnThrows(t)
             ELSE attempt' = [attempt EXCEPT ![t].step = "turn",
                                ![t].looks = IF looksAgain THEN Look(t, found) ELSE @]
        /\ UNCHANGED <<job, turnMode, owedOn, ledgers>>

(***************************************************************************)
(* executeTurn when Nova speaks first, under the lock: silence on a thread *)
(* a person has; else the writer's words, or none, or a throw.  It changes *)
(* neither the ledger nor what the customer was last asked.                *)
(***************************************************************************)
TakeTurn(t) ==
    LET told == InstructionFor(Plan.mode, attempt[t].row)
    IN  /\ At(t, "turn")
        /\ IF \E c \in handed : On(c) THEN Goes(t, "locked")
           ELSE \/ Goes(t, "words")
                \/ Goes(t, IF told.owes THEN "released" ELSE "silent")
                \/ TurnThrows(t)
        /\ UNCHANGED <<job, turnMode, owedOn, ledgers>>

\* The process dies; the row is leased again.
Loses(t) ==
    /\ attempt[t].step \notin Ended
    /\ Goes(t, "dead")
    /\ UNCHANGED <<job, turnMode, owedOn, ledgers>>

-----------------------------------------------------------------------------
(* The ledger, and the threads. *)

JobAlive == \E t \in Leases : attempt[t].step \notin Ended \ {"leasable"}

\* A settled promise does not transition twice.  Broken is the nightly sweep's word alone.
SettlePromise ==
    \E i \in DOMAIN ledger, status \in {"kept", "released"} :
        /\ IsOpen(ledger[i])
        /\ ledger' = [ledger EXCEPT ![i].status = status]

BreakPromise ==
    \E i \in DOMAIN ledger : IsOpen(ledger[i]) /\ ledger' = [ledger EXCEPT ![i].status = "broken"]

\* Its send was cancelled.
DeletePromise == \E i \in DOMAIN ledger : ledger' = RemoveAt(ledger, i)

MakePromise ==
    /\ Len(ledger) < MaxPromises
    /\ ledger' = Append(ledger, Promise("other", {}))

\* Another turn of the thread hands it to a person.
HandThreadOver ==
    \E c \in Threads \ handed : handed' = handed \cup {c} /\ UNCHANGED ledger

Elsewhere ==
    /\ JobAlive
    /\ \/ (SettlePromise \/ BreakPromise \/ DeletePromise \/ MakePromise) /\ UNCHANGED handed
       \/ HandThreadOver
    /\ UNCHANGED <<job, turnMode, owedOn, attempt>>

FollowUpNext ==
    \/ \E t \in Leases : Route(t) \/ CheckPromise(t) \/ OpenTurn(t) \/ TakeTurn(t) \/ Loses(t)
    \/ Elsewhere

-----------------------------------------------------------------------------
(* What the properties rest on. *)

Promises ==
    [id : {Debt, "other"}, thread : SUBSET Threads, status : {"open", "kept", "released", "broken"}]

FollowUpTypes ==
    /\ job \in Jobs
    /\ turnMode \in {"shadow", "live"}
    /\ ledger \in Seq(Promises)
    /\ attempt \in [Leases -> [step : Ended \cup {"check", "seam", "turn"},
                               row : SUBSET Promises, looks : SUBSET {"seen", "unseen"}]]

Owed == \E i \in DOMAIN ledger : ledger[i].id = Debt /\ IsOpen(ledger[i])

\* Past the check of a debt some look was made; and what a look saw is owed on this thread.
DebtOK ==
    /\ \A i \in DOMAIN ledger : ledger[i].id = Debt => ledger[i].thread = owedOn
    /\ job.promise = {Debt} => \A t \in Leases :
         /\ attempt[t].step \in {"check", "seam", "turn"} => Plan.lane = "customer_turn"
         /\ attempt[t].step \in {"leasable", "check"} => attempt[t].looks = {}
         /\ attempt[t].step \in {"seam", "turn", "words"} =>
              attempt[t].looks # {} /\ ("seen" \in attempt[t].looks => owedOn = job.thread)
         /\ attempt[t].step = "none" => ~Owed
         /\ attempt[t].step # "silent"

-----------------------------------------------------------------------------
(***************************************************************************)
(* A debt is paid on the thread it is owed on.  Words of it reach another  *)
(* thread only if neither the router's look nor the seam's saw the row: a  *)
(* read failed, the page was full, or the debt was settled in between      *)
(* (router.ts, routeJob; turn.ts, assertPromiseOwedHere).                  *)
(***************************************************************************)
PaidWhereOwed ==
    \A t \in Leases :
        At(t, "words") /\ job.promise = {Debt} /\ owedOn # job.thread => attempt[t].looks = {"unseen"}

(***************************************************************************)
(* No open debt is dropped: its job closes with words, with a person on    *)
(* the thread or with an error in the audit, and as nothing to pay only    *)
(* when the debt is settled, however the ledger's pages move and whichever *)
(* reads fail (router.ts, promiseStillOpen; dispatcher.ts, performJob).    *)
(***************************************************************************)
NoDebtDropped ==
    \A t \in Leases :
        job.promise = {Debt} => ~At(t, "silent") /\ (At(t, "none") => ~Owed)

FollowUpIInv == FollowUpTypes /\ DebtOK
=============================================================================
