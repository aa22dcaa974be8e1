----------------------------- MODULE JobDispatch -----------------------------
(***************************************************************************)
(* The brain's dispatcher working the job queue (src/brain/dispatcher.ts): *)
(* ticks claim batches, the jobs of a batch are performed concurrently,    *)
(* each is settled exactly once from this side, over a network that loses  *)
(* answers and from processes that crash.  Ticks overlap, so a row leased  *)
(* again may be worked while the earlier lease's worker still runs.        *)
(*                                                                         *)
(* A delivery is one lease of one job as the dispatcher sees it: settleJob *)
(* running for the claimed row.                                            *)
(***************************************************************************)
EXTENDS JobQueue

CONSTANTS
  Plane,      \* Jobs -> "sweep" | "founder" | "customer": the lane planJob picks
  TurnMode,   \* "live" | "shadow": NOVA_BRAIN_TURN_MODE
  MaxFaults   \* bound: lost claims, crashes, overruns and lost settlements together

ASSUME DispatchAssumption ==
  /\ Plane \in [Jobs -> {"sweep", "founder", "customer"}]
  /\ TurnMode \in {"live", "shadow"}
  /\ MaxFaults \in Nat

VARIABLES
  delivery,   \* what became of each lease on the dispatcher's side
  faults      \* how many faults there have been

vars == <<row, ending, delivery, faults>>

(***************************************************************************)
(* pc      none      the lease has not been granted                        *)
(*         claimed   the claim's answer arrived, settleJob starts          *)
(*         working   the lane runs                                         *)
(*         settling  complete or release is on its way to the server       *)
(*         answered  the server has applied it, the answer is on its way   *)
(*         closed    settleJob has pushed its report                       *)
(*         strayed   the call failed here, its request is still in flight  *)
(*         gone      nobody works it: the claim's answer or the process    *)
(*                   was lost                                              *)
(* why     how performJob left: it returned (performed), refused a server  *)
(*         sweep (notOurs), threw TurnCommittedError (committed) or any    *)
(*         other error (retry)                                             *)
(***************************************************************************)
Delivery == [pc     : {"none", "claimed", "working", "settling", "answered", "closed",
                       "strayed", "gone"},
             wrote  : BOOLEAN,
             why    : {"none", "performed", "notOurs", "committed", "retry"},
             answer : {"none", "ok", "stale"}]

TypeOK ==
  /\ QueueTypeOK
  /\ delivery \in [Jobs -> [Tokens -> Delivery]]
  /\ faults \in 0..MaxFaults

NoDelivery == [pc |-> "none", wrote |-> FALSE, why |-> "none", answer |-> "none"]

Init ==
  /\ QueueInit
  /\ delivery = [j \in Jobs |-> [t \in Tokens |-> NoDelivery]]
  /\ faults = 0

At(j, t, pc) == delivery[j][t].pc = pc
Goes(j, t, d) == delivery' = [delivery EXCEPT ![j][t] = d]
Faulty == faults < MaxFaults /\ faults' = faults + 1

-----------------------------------------------------------------------------
(***************************************************************************)
(* A tick's claim.  Either the answer arrives and every job of the batch   *)
(* is handed to settleJob, or it is lost and the leases dangle.            *)
(***************************************************************************)
Handed(batch, pc) ==
  delivery' = [j \in Jobs |-> [t \in Tokens |->
    IF j \in batch /\ t = row'[j].token THEN [NoDelivery EXCEPT !.pc = pc] ELSE delivery[j][t]]]

Tick ==
  \E keys, batch \in SUBSET Jobs : \E overdue \in SUBSET keys :
    /\ ClaimDueJobs(keys, overdue, batch)
    /\ Handed(batch, "claimed")
    /\ UNCHANGED faults

ClaimAnswerLost ==
  \E keys, batch \in SUBSET Jobs : \E overdue \in SUBSET keys :
    /\ batch # {}
    /\ ClaimDueJobs(keys, overdue, batch)
    /\ Handed(batch, "gone")
    /\ Faulty

-----------------------------------------------------------------------------
(* settleJob and performJob. *)

Leaves(j, t, why) ==
  Goes(j, t, [delivery[j][t] EXCEPT !.pc = "settling", !.why = why])

(* A row claimed without its token cannot be settled, so it is not run. *)
RefuseUnleased(j, t) ==
  /\ At(j, t, "claimed")
  /\ Goes(j, t, [delivery[j][t] EXCEPT !.pc = "closed"])
  /\ Faulty
  /\ UNCHANGED queueVars

RefuseSweep(j, t) ==
  /\ At(j, t, "claimed")
  /\ Plane[j] = "sweep"
  /\ Leaves(j, t, "notOurs")
  /\ UNCHANGED <<queueVars, faults>>

(* The plan or the route throws, or no runner is wired: nothing has run yet. *)
RouteFails(j, t) ==
  /\ At(j, t, "claimed")
  /\ Plane[j] # "sweep"
  /\ Leaves(j, t, "retry")
  /\ UNCHANGED <<queueVars, faults>>

(* The promise behind a follow-up is no longer open: called off, and completed. *)
RouteToNothing(j, t) ==
  /\ At(j, t, "claimed")
  /\ Plane[j] = "customer"
  /\ Leaves(j, t, "performed")
  /\ UNCHANGED <<queueVars, faults>>

StartWork(j, t) ==
  /\ At(j, t, "claimed")
  /\ Plane[j] # "sweep"
  /\ Goes(j, t, [delivery[j][t] EXCEPT !.pc = "working"])
  /\ UNCHANGED <<queueVars, faults>>

(***************************************************************************)
(* An order, a prepared order or a hand-over: what a retry would repeat.   *)
(* Shadow turns write nothing, and a founder lane's writes are keyed by    *)
(* the job's dedupe key, so that repeating them adds nothing.              *)
(***************************************************************************)
CanWrite(j) == Plane[j] = "customer" /\ TurnMode = "live"

CommitWrite(j, t) ==
  /\ At(j, t, "working")
  /\ CanWrite(j)
  /\ ~delivery[j][t].wrote
  /\ Goes(j, t, [delivery[j][t] EXCEPT !.wrote = TRUE])
  /\ UNCHANGED <<queueVars, faults>>

FinishWork(j, t) ==
  /\ At(j, t, "working")
  /\ Leaves(j, t, "performed")
  /\ UNCHANGED <<queueVars, faults>>

(* Mutant: every throw is retried. *)
AlwaysRetries(j) == "retry"

(* A throw carries no result: a live turn might have written, so it may not be retried. *)
WhyThrown(j) == IF Plane[j] = "customer" /\ TurnMode = "live" THEN "committed" ELSE "retry"

WorkThrows(j, t) ==
  /\ At(j, t, "working")
  /\ Leaves(j, t, WhyThrown(j))
  /\ UNCHANGED <<queueVars, faults>>

(* A turn that returns without the reply it owed says what it committed. *)
WhySilent(d) == IF d.wrote THEN "committed" ELSE "retry"

TurnProducesNothing(j, t) ==
  /\ At(j, t, "working")
  /\ Plane[j] = "customer"
  /\ Leaves(j, t, WhySilent(delivery[j][t]))
  /\ UNCHANGED <<queueVars, faults>>

-----------------------------------------------------------------------------
(* The settlement call and its answer. *)

Answered(d, verdict) ==
  IF d.pc = "strayed" THEN [d EXCEPT !.pc = "closed"]
  ELSE [d EXCEPT !.pc = "answered", !.answer = verdict]

(* The server applies a request that is still in flight, wanted or not. *)
ServeSettlement(j, t) ==
  /\ At(j, t, "settling") \/ At(j, t, "strayed")
  /\ \/ /\ IF delivery[j][t].why = "retry" THEN ReleaseJob(j, t) ELSE CompleteJob(j, t)
        /\ Goes(j, t, Answered(delivery[j][t], "ok"))
     \/ /\ StaleSettlement(j, t)
        /\ Goes(j, t, Answered(delivery[j][t], "stale"))
  /\ UNCHANGED faults

HearAnswer(j, t) ==
  /\ At(j, t, "answered")
  /\ Goes(j, t, [delivery[j][t] EXCEPT !.pc = "closed"])
  /\ UNCHANGED <<queueVars, faults>>

(***************************************************************************)
(* The call's own retries are used up, or its process died.  Finished work *)
(* whose complete fails is never released, and a failed release is not     *)
(* tried again.  The request may still be in flight.                       *)
(***************************************************************************)
SettlementCallFails(j, t) ==
  /\ \/ At(j, t, "settling") /\ Goes(j, t, [delivery[j][t] EXCEPT !.pc = "strayed"])
     \/ At(j, t, "answered") /\ Goes(j, t, [delivery[j][t] EXCEPT !.pc = "closed", !.answer = "none"])
  /\ Faulty
  /\ UNCHANGED queueVars

Crash(j, t) ==
  /\ delivery[j][t].pc \in {"claimed", "working", "answered"}
  /\ Goes(j, t, [delivery[j][t] EXCEPT !.pc = "gone"])
  /\ Faulty
  /\ UNCHANGED queueVars

-----------------------------------------------------------------------------
(* A lease runs out.  It is a fault only while its delivery is still being worked. *)
Overrun(j) ==
  /\ row[j].token \in Tokens
  /\ delivery[j][row[j].token].pc \in {"claimed", "working", "settling"}

Lapse(j) ==
  /\ LeaseLapses(j)
  /\ IF Overrun(j) THEN Faulty ELSE UNCHANGED faults
  /\ UNCHANGED delivery

BackoffElapses(j) == Ripen(j) /\ UNCHANGED <<delivery, faults>>

Work(j, t) ==
  \/ RefuseSweep(j, t) \/ RouteFails(j, t) \/ RouteToNothing(j, t) \/ StartWork(j, t)
  \/ CommitWrite(j, t) \/ FinishWork(j, t) \/ WorkThrows(j, t) \/ TurnProducesNothing(j, t)
  \/ ServeSettlement(j, t) \/ HearAnswer(j, t)

Fault(j, t) == RefuseUnleased(j, t) \/ SettlementCallFails(j, t) \/ Crash(j, t)

Next ==
  \/ Tick \/ ClaimAnswerLost
  \/ \E j \in Jobs, t \in Tokens : Work(j, t) \/ Fault(j, t)
  \/ \E j \in Jobs : Lapse(j) \/ BackoffElapses(j)

Spec == Init /\ [][Next]_vars

(***************************************************************************)
(* The scheduler fires a tick a minute, time passes, and a worker that is  *)
(* not lost takes its next step.  Nothing brings a strayed request home,   *)
(* and no fault has to happen.                                             *)
(***************************************************************************)
Proceed(j, t) == ~At(j, t, "strayed") /\ Work(j, t)

FairSpec ==
  /\ Spec
  /\ WF_vars(Tick)
  /\ \A j \in Jobs, t \in Tokens : WF_vars(Proceed(j, t))
  /\ \A j \in Jobs : WF_vars(Lapse(j)) /\ WF_vars(BackoffElapses(j))

-----------------------------------------------------------------------------
(* Properties. *)

(***************************************************************************)
(* "Release only when it provably wrote nothing": a turn that placed an    *)
(* order or handed a thread over never gives its row back for a retry.     *)
(***************************************************************************)
CommittedNeverReleased ==
  \A j \in Jobs, t \in Tokens :
    delivery[j][t].wrote => ending[j][t] \notin {"released", "failed"}

(***************************************************************************)
(* What the tick reports of a settlement is what became of the lease: a    *)
(* reported completion is the row's completion, a reported release put the *)
(* row back or failed it, and `stale` means the watchdog took the lease.   *)
(***************************************************************************)
ReportIsTrue ==
  \A j \in Jobs, t \in Tokens :
    LET d == delivery[j][t]
    IN /\ d.answer = "ok" => ending[j][t] \in IF d.why = "retry" THEN {"released", "failed"}
                                                               ELSE {"completed"}
       /\ d.answer = "stale" => ending[j][t] = "reclaimed"

(***************************************************************************)
(* A closed row was closed by its last lease, and for a reason: done only  *)
(* when that lease's work returned, may not be repeated, or is not ours;   *)
(* failed only by a release after MaxAttempts leases.  No earlier lease    *)
(* closed it.                                                              *)
(***************************************************************************)
ClosedForAReason ==
  \A j \in Jobs :
    LET r == row[j]
        closing == [done |-> "completed", failed |-> "failed"]
    IN r.status \in {"done", "failed"} =>
         /\ ending[j][r.token] = closing[r.status]
         /\ r.token = r.attempts
         /\ \A t \in 1..(r.attempts - 1) : ending[j][t] \in {"released", "reclaimed"}
         /\ IF r.status = "done" THEN delivery[j][r.token].why \in {"performed", "committed", "notOurs"}
            ELSE delivery[j][r.token].why = "retry" /\ r.attempts >= MaxAttempts

(* Every lease beyond the cap was paid for by a fault: release stops at MaxAttempts. *)
ExtraLeasesAreFaults ==
  \A j \in Jobs : row[j].attempts <= MaxAttempts + faults

(* A job that exists is settled for good, once the faults have stopped. *)
EveryJobCloses ==
  \A j \in Jobs : row[j].status = "due" ~> row[j].status \in {"done", "failed"}

(* The dispatcher and the table keep the queue's contract. *)
LeaseOf(r) ==
  [grant   |-> r.attempts,
   holder  |-> IF r.status = "leased" THEN r.token ELSE NoToken,
   outcome |-> IF r.status \in {"done", "failed"} THEN r.status ELSE "open"]

ContractLease == [j \in Jobs |-> LeaseOf(row[j])]

Contract == INSTANCE JobContract WITH lease <- ContractLease
ContractSpec == Contract!Spec

-----------------------------------------------------------------------------
(***************************************************************************)
(* Why they hold.  LeaseOK: the leases of a row are numbered without gaps, *)
(* only the last can be open or have closed the row, and the row's status  *)
(* says what became of it.  DeliveryOK: until a delivery's request is      *)
(* served its lease is open or was reclaimed, and a turn that wrote never  *)
(* leaves with `retry`.                                                    *)
(***************************************************************************)
LastEnding(r) ==
  CASE r.status = "leased" -> {"open"}
    [] r.status = "done"   -> {"completed"}
    [] r.status = "failed" -> {"failed"}
    [] OTHER               -> {"released", "reclaimed"}

LeaseOK(r, ends, deliveries) ==
  /\ r.status = "absent" => r.attempts = 0
  /\ r.status \in {"leased", "done", "failed"} => r.attempts > 0 /\ r.token = r.attempts
  /\ r.status = "failed" => r.attempts >= MaxAttempts
  /\ \A t \in Tokens :
       /\ t > r.attempts => ends[t] = "none" /\ deliveries[t].pc = "none"
       /\ t < r.attempts => ends[t] \in {"released", "reclaimed"}
       /\ t = r.attempts => ends[t] \in LastEnding(r)

DeliveryOK(j, d, e) ==
  /\ d.pc \in {"none", "claimed", "working"} => d.why = "none"
  /\ d.pc \in {"none", "claimed"} => ~d.wrote
  /\ d.pc \in {"settling", "strayed"} => d.why # "none"
  /\ d.pc \in {"none", "claimed", "working", "settling", "strayed"} =>
       d.answer = "none" /\ e \in {"none", "open", "reclaimed"}
  /\ d.wrote => CanWrite(j) /\ d.why # "retry"
  /\ e = "completed" => d.why \in {"performed", "committed", "notOurs"}
  /\ e \in {"released", "failed"} => d.why = "retry"
  /\ d.answer = "ok" => e \in IF d.why = "retry" THEN {"released", "failed"} ELSE {"completed"}
  /\ d.answer = "stale" => e = "reclaimed"

IInv ==
  /\ TypeOK
  /\ \A j \in Jobs : LeaseOK(row[j], ending[j], delivery[j])
  /\ \A j \in Jobs, t \in Tokens : DeliveryOK(j, delivery[j][t], ending[j][t])

(***************************************************************************)
(* And why the cap is missed by no more than the faults: a row that may be *)
(* leased once more, now or when the watchdog takes it back, was released  *)
(* below the cap or has had its fault already.                             *)
(***************************************************************************)
MayBeLeasedAgain(j) ==
  \/ row[j].status \in {"absent", "due"}
  \/ row[j].status = "leased" /\ (row[j].lapsed \/ ~Overrun(j))

AttemptsPaid ==
  \A j \in Jobs :
    /\ row[j].attempts <= MaxAttempts + faults
    /\ MayBeLeasedAgain(j) => row[j].attempts < MaxAttempts + faults

-----------------------------------------------------------------------------
(* What the comments say, and the code does not keep. *)

(***************************************************************************)
(* dispatcher.ts: "NEVER RE-RUN A TURN THAT ALREADY PLACED AN ORDER OR     *)
(* HANDED A THREAD TO A PERSON."  No turn starts for a job one of whose    *)
(* turns has written.                                                      *)
(***************************************************************************)
NeverRerunCommitted ==
  [][\A j \in Jobs, t \in Tokens :
       At(j, t, "claimed") /\ delivery'[j][t].pc = "working" =>
         \A s \in Tokens : ~delivery[j][s].wrote]_vars
==============================================================================
