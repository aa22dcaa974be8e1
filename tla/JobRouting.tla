----------------------------- MODULE JobRouting -----------------------------
(***************************************************************************)
(* planJob and instructionFor (src/brain/router.ts): which lane a leased   *)
(* job is for, and what the turn it opens on a customer's thread is told.  *)
(*                                                                         *)
(*   job   kind; thread and promise of its payload ({} = none, {Malformed} *)
(*         = a promise that is no identifier); case and cart say whether a *)
(*         case is named and whether an abandoned cart triggered it        *)
(***************************************************************************)
EXTENDS DutyRoster

Malformed == "malformed"

\* The registry's entries with a workflow; the dispatcher has a runner for each.
BuiltLanes == {"pulse", "courier_intervention", "restock_check"}

\* A sweep of the server's, or a row whose turn could reach the wrong person.
Refused == [lane |-> "throws"]
FounderPlane(job) == [lane |-> IF job.kind \in BuiltLanes THEN "founder_plane" ELSE "not_built"]
CustomerTurn(mode, job) == [lane |-> "customer_turn", mode |-> mode, thread |-> job.thread]

\* The conversation decides, not the debt: what has a thread goes back to it.
PlanFollowup(job) ==
    IF Malformed \in job.promise \/ (job.promise # {} /\ job.thread = {}) THEN Refused
    ELSE IF job.thread = {} THEN FounderPlane(job)
    ELSE CustomerTurn(IF job.promise # {} THEN "promise"
                      ELSE IF job.cart THEN "cart_recovery" ELSE "nba_nudge", job)

PlanCaseUpdate(job) ==
    IF ~job.case THEN Refused
    ELSE IF job.thread = {} THEN FounderPlane(job) ELSE CustomerTurn("case_update", job)

PlanJob(job) ==
    CASE job.kind \notin DOMAIN LaneDuties -> Refused
      [] job.kind = "inbox_reply" ->
           IF job.thread = {} THEN Refused ELSE CustomerTurn("inbox_reply", job)
      [] job.kind = "followup" -> PlanFollowup(job)
      [] job.kind = "case_update" -> PlanCaseUpdate(job)
      [] OTHER -> FounderPlane(job)

-----------------------------------------------------------------------------
(* What the turn is told, and what the seam lets it be told. *)

\* What could go wrong: a debt is worth a silence, as a nudge is.
OwesAnAnswerOnly(mode) == mode \in {"inbox_reply", "case_update"}

OwesReply(mode) == mode \notin {"cart_recovery", "nba_nudge"}

ActionForMode ==
    [promise |-> "PAY_PROMISE", cart_recovery |-> "CART_NUDGE", nba_nudge |-> "NBA_NUDGE",
     case_update |-> "CASE_UPDATE"]

\* The row rides along when the router saw it.
InstructionFor(mode, row) ==
    [mode |-> mode, owes |-> OwesReply(mode), row |-> row,
     action |-> IF mode \in DOMAIN ActionForMode THEN ActionForMode[mode] ELSE "CLARIFY"]

\* The ladder's steps for a customer's message; of no mode is a write.
ValidInstructedAction(told) ==
    IF told.mode = "inbox_reply" THEN told.action \notin {"CREATE_ORDER", "ESCALATE"}
    ELSE told.mode \in DOMAIN ActionForMode /\ told.action = ActionForMode[told.mode]
=============================================================================
