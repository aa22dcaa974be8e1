------------------------------ MODULE StoreCall ------------------------------
(***************************************************************************)
(* One call of the live store client (src/store/dakio.ts, request): tries  *)
(* of one request, each with a timeout, with waits between them, all spent *)
(* from one budget of time.                                                *)
(*                                                                         *)
(* An aborted try may be on its way still: what a call came to says what   *)
(* the caller was told, and not whether the server has seen the request.   *)
(***************************************************************************)
EXTENDS Integers, FiniteSetsExt

CONSTANTS
    Timeout,      \* timeoutMs, of one try
    Budget,       \* deadlineMs, as it is configured
    Backoff,      \* the wait after the first try; doubled after each
    MaxRetries

ASSUME CallTimes == Timeout \in Nat \ {0} /\ Budget \in Nat /\ Backoff \in Nat /\ MaxRetries \in Nat

\* A budget below one timeout is raised to it.
Deadline == Max({Budget, Timeout})

Tries == 0..MaxRetries

NoCall == [phase |-> "none"]
Opened == [phase |-> "flight", try |-> 0, spent |-> 0]

Remaining(call) == IF call.spent < Deadline THEN Deadline - call.spent ELSE 0

\* What could go wrong: a try always has its whole timeout.
WholeTimeout(call) == Timeout

\* No try outlives the budget.
TryTimeout(call) == Min({Timeout, Remaining(call)})

\* Up to a quarter of the wait is chance; none is longer than what is left.
Waits(call) ==
    LET base == Backoff * 2 ^ call.try
    IN {Min({wait, Remaining(call)}) : wait \in base..(base + base \div 4)}

Ended(call, how) == [call EXCEPT !.phase = how]

\* The next try; a budget that the wait has used up ends the call instead.
NextTry(call) ==
    {IF waited.spent < Deadline THEN [waited EXCEPT !.try = @ + 1] ELSE Ended(waited, "timedout") :
        waited \in {[call EXCEPT !.spent = @ + wait] : wait \in Waits(call)}}

\* What becomes of a call whose try failed after some time: a fault is tried again, if it may be.
AfterFault(call, time) ==
    LET later == [call EXCEPT !.spent = @ + time]
    IN IF call.try < MaxRetries /\ Remaining(later) > 0 THEN NextTry(later)
       ELSE {Ended(later, "failed"), Ended(later, "timedout")}

\* An answer, whose body may break off; that is not tried again.
AfterAnswer(call, time) ==
    {Ended([call EXCEPT !.spent = @ + time], how) : how \in {"answered", "failed"}}
==============================================================================
