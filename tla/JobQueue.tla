------------------------------- MODULE JobQueue -------------------------------
(***************************************************************************)
(* The proactive job table of one tenant: claim, complete and release      *)
(* (src/store/backend.ts, "Proactive job queue"; the server's table has    *)
(* the same three operations).                                             *)
(*                                                                         *)
(* Time is abstracted to what the queries ask of it: `ripe` says that      *)
(* dueAt <= now, `lapsed` says that leaseUntil < now.  A lease token is    *)
(* the ordinal of the lease: a UUID drawn per lease is told apart from     *)
(* every other token of the row, and nothing else is asked of it.          *)
(***************************************************************************)
EXTENDS Naturals, FiniteSets

CONSTANTS
  Jobs,         \* the dedupe keys of the rows that may exist
  Priority,     \* Jobs -> Nat: PRIORITY_BY_KIND of the job's kind, lower is sooner
  BatchLimit,   \* how many rows one claim leases at most
  MaxAttempts,  \* MAX_ATTEMPTS
  MaxLeases     \* bound: how often one row is leased in the model

ASSUME QueueAssumption ==
  /\ Priority \in [Jobs -> Nat]
  /\ BatchLimit \in Nat \ {0}
  /\ MaxAttempts \in Nat \ {0}
  /\ MaxLeases \in Nat

VARIABLES
  row,     \* the table: one row per dedupe key, "absent" until it is expanded
  ending   \* history: how each lease of each row ended

queueVars == <<row, ending>>

NoToken == 0
Tokens == 1..MaxLeases

Statuses == {"absent", "due", "leased", "done", "failed"}
Row == [status : Statuses, attempts : 0..MaxLeases, token : 0..MaxLeases,
        ripe : BOOLEAN, lapsed : BOOLEAN]
Endings == {"none", "open", "completed", "released", "failed", "reclaimed"}

QueueTypeOK ==
  /\ row \in [Jobs -> Row]
  /\ ending \in [Jobs -> [Tokens -> Endings]]

NewRow(isRipe) ==
  [status |-> "due", attempts |-> 0, token |-> NoToken, ripe |-> isRipe, lapsed |-> FALSE]

QueueInit ==
  /\ row \in [Jobs -> {[NewRow(FALSE) EXCEPT !.status = "absent"], NewRow(TRUE)}]
  /\ ending = [j \in Jobs |-> [t \in Tokens |-> "none"]]

-----------------------------------------------------------------------------
(* Mutant: no watchdog. *)
NeverStale(r) == FALSE

(* The watchdog: a stale lease is due again.  It gives no attempt back. *)
IsStale(r) == r.status = "leased" /\ r.lapsed

Reclaimed(r) ==
  IF IsStale(r) THEN [r EXCEPT !.status = "due", !.token = NoToken, !.lapsed = FALSE] ELSE r

(* Cron occurrences and debounced event windows become rows, once per key. *)
Expanded(r, triggered, isRipe) ==
  IF triggered /\ r.status = "absent" THEN NewRow(isRipe) ELSE r

FreshToken(r) == r.attempts + 1

Leased(r) ==
  [r EXCEPT !.status = "leased", !.attempts = @ + 1, !.token = FreshToken(r), !.lapsed = FALSE]

Claimable(r) == r.status = "due" /\ r.ripe /\ r.attempts < MaxLeases

(* The first BatchLimit candidates in priority order; rows of one priority in any order. *)
IsBatch(batch, candidates) ==
  /\ batch \subseteq candidates
  /\ \/ batch = candidates
     \/ Cardinality(batch) = BatchLimit
  /\ Cardinality(batch) <= BatchLimit
  /\ \A j \in batch, k \in candidates \ batch : Priority[j] <= Priority[k]

(***************************************************************************)
(* One claim: recover stale leases, expand what is triggered, lease a      *)
(* batch.  `keys` are the dedupe keys triggered by a cadence or an event,  *)
(* `overdue` those whose due time has already come.                        *)
(***************************************************************************)
Prepared(keys, overdue) ==
  [j \in Jobs |-> Expanded(Reclaimed(row[j]), j \in keys, j \in overdue)]

ClaimDueJobs(keys, overdue, batch) ==
  LET table == Prepared(keys, overdue)
  IN /\ IsBatch(batch, {j \in Jobs : Claimable(table[j])})
     /\ row' = [j \in Jobs |-> IF j \in batch THEN Leased(table[j]) ELSE table[j]]
     /\ ending' = [j \in Jobs |-> [t \in Tokens |->
           CASE j \in batch /\ t = FreshToken(table[j]) -> "open"
             [] IsStale(row[j]) /\ t = row[j].token     -> "reclaimed"
             [] OTHER                                   -> ending[j][t]]]

(* Mutants: the fence without the token, and the fence without the lease. *)
HoldsByStatus(j, token) == row[j].status = "leased"
HoldsUnlessClosed(j, token) == row[j].status \notin {"done", "failed"}

(* The fence every settlement passes: the row is leased, and under this very token. *)
Holds(j, token) == row[j].status = "leased" /\ row[j].token = token

Settle(j, token, newRow, how) ==
  /\ row' = [row EXCEPT ![j] = newRow]
  /\ ending' = [ending EXCEPT ![j][token] = how]

CompleteJob(j, token) ==
  /\ Holds(j, token)
  /\ Settle(j, token, [row[j] EXCEPT !.status = "done", !.lapsed = FALSE], "completed")

(* Mutant: the cap is missed by one. *)
ReleaseOnceMore(j, token) ==
  /\ Holds(j, token)
  /\ IF row[j].attempts > MaxAttempts
     THEN Settle(j, token, [row[j] EXCEPT !.status = "failed", !.lapsed = FALSE], "failed")
     ELSE Settle(j, token, [row[j] EXCEPT !.status = "due", !.ripe = FALSE, !.lapsed = FALSE],
                 "released")

(* Below the cap the row is due again after a backoff; at the cap it has failed. *)
ReleaseJob(j, token) ==
  /\ Holds(j, token)
  /\ IF row[j].attempts >= MaxAttempts
     THEN Settle(j, token, [row[j] EXCEPT !.status = "failed", !.lapsed = FALSE], "failed")
     ELSE Settle(j, token, [row[j] EXCEPT !.status = "due", !.ripe = FALSE, !.lapsed = FALSE],
                 "released")

(* A superseded lease settles nothing: the answer is `stale` and no field is written. *)
StaleSettlement(j, token) == ~Holds(j, token) /\ UNCHANGED queueVars

-----------------------------------------------------------------------------
(* The clock. *)
Ripen(j) ==
  /\ row[j].status = "due"
  /\ ~row[j].ripe
  /\ row' = [row EXCEPT ![j].ripe = TRUE]
  /\ UNCHANGED ending

LeaseLapses(j) ==
  /\ row[j].status = "leased"
  /\ ~row[j].lapsed
  /\ row' = [row EXCEPT ![j].lapsed = TRUE]
  /\ UNCHANGED ending
===============================================================================
