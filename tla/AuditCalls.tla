----------------------------- MODULE AuditCalls -----------------------------
(***************************************************************************)
(* The run audit over the live store client: every audit write of RunAudit *)
(* is a call of its own (StoreCall), which nobody awaits and which tries   *)
(* again, so that copies of one write are on their way at the same time    *)
(* and arrive in any order, or after their call has given up.              *)
(*                                                                         *)
(* The ledger applies a request once per idempotency key.  RunAudit is the *)
(* abstraction: a write is posted once and delivered once, or never.       *)
(***************************************************************************)
EXTENDS StoreCall

CONSTANTS Turns

VARIABLES
    pc, outcome,   \* as in RunAudit
    calls,         \* the call of every audit write of a turn
    copies,        \* the requests on their way
    keys           \* the idempotency keys the ledger has seen

vars == <<pc, outcome, calls, copies, keys>>

\* A write the ledger has not applied, whatever its call came to.
Unapplied(posts) ==
    [t \in Turns |-> {post \in posts :
        calls[t][post] # NoCall /\ \A key \in keys : <<key.turn, key.post>> # <<t, post>>}]

Posts == [kind : {"start"}, outcome : {"running"}]
         \cup [kind : {"finish", "amend"}, outcome : {"completed", "failed", "cancelled"}]

Audit == INSTANCE RunAudit WITH posts <- Unapplied(Posts)

Init ==
    /\ pc = [t \in Turns |-> "planned"]
    /\ outcome = [t \in Turns |-> "absent"]
    /\ calls = [t \in Turns |-> [post \in Posts |-> NoCall]]
    /\ copies = {} /\ keys = {}

-----------------------------------------------------------------------------
\* What could go wrong: the key is drawn for every try.
KeyOfTry(t, post, try) == [turn |-> t, post |-> post, try |-> try]

\* Drawn once, before the first try.
KeyOf(t, post, try) == [turn |-> t, post |-> post, try |-> 0]

Request(t, post, try) == [turn |-> t, post |-> post, try |-> try, key |-> KeyOf(t, post, try)]

Becomes(t, post, call) == calls' = [calls EXCEPT ![t][post] = call]

\* Sent with the call as it becomes, if that is another try.
Sends(t, post, call) ==
    copies' = IF call.phase = "flight" THEN copies \cup {Request(t, post, call.try)} ELSE copies

\* record: the dispatcher goes on, and a call is under way.
Record(t) ==
    \E post \in Posts :
        /\ calls[t][post] = NoCall
        /\ Becomes(t, post, Opened)
        /\ Sends(t, post, Opened)
        /\ UNCHANGED keys
        /\ \/ Audit!Started(t) \/ Audit!RecordRefusal(t) \/ Audit!Threw(t) \/ Audit!AcknowledgedStale(t)
           \/ \E what \in {"completed", "cancelled"} : Audit!Returned(t, what)

Acknowledged(t) ==
    /\ UNCHANGED <<calls, copies, keys>>
    /\ Audit!Acknowledged(t)

\* A request arrives, its call still waiting for it or not.
Arrives(request) ==
    /\ copies' = copies \ {request}
    /\ keys' = keys \cup {request.key}
    /\ outcome' = IF request.key \in keys THEN outcome
                  ELSE [outcome EXCEPT ![request.turn] = Audit!Recorded(@, request.post)]
    /\ UNCHANGED <<pc, calls>>

InFlight(t, post) == calls[t][post].phase = "flight"

\* Its latest try has arrived, and the answer comes back.
Answered(t, post) ==
    /\ InFlight(t, post)
    /\ \A request \in copies : <<request.turn, request.post, request.try>> # <<t, post, calls[t][post].try>>
    /\ \E time \in 0..TryTimeout(calls[t][post]) :
         \E call \in AfterAnswer(calls[t][post], time) : Becomes(t, post, call)
    /\ UNCHANGED <<pc, outcome, copies, keys>>

\* The network, a 429, a 5xx or the timeout: arrived or not.
Faulted(t, post) ==
    /\ InFlight(t, post)
    /\ \E time \in 0..TryTimeout(calls[t][post]) :
         \E call \in AfterFault(calls[t][post], time) : Becomes(t, post, call) /\ Sends(t, post, call)
    /\ UNCHANGED <<pc, outcome, keys>>

Next ==
    \/ \E t \in Turns : Record(t) \/ Acknowledged(t)
    \/ \E request \in copies : Arrives(request)
    \/ \E t \in Turns, post \in Posts : Answered(t, post) \/ Faulted(t, post)

Spec == Init /\ [][Next]_vars

-----------------------------------------------------------------------------
(* What the refinement and the budget rest on. *)

\* No call, or one that is within its budget.
Calls == {NoCall} \cup
    {call \in [phase : {"flight", "answered", "failed", "timedout"}, try : Tries, spent : Int] :
        call.spent <= Deadline}

TypeOK ==
    /\ outcome \in [Turns -> {"absent", "running", "completed", "failed", "cancelled"}]
    /\ calls \in [Turns -> [Posts -> Calls]]

\* Every key the ledger has seen or will see is that of a write, not of a try.
KeysOK ==
    /\ \A key \in keys : \E t \in Turns, post \in Posts : key = KeyOf(t, post, 0)
    /\ \A request \in copies : \E t \in Turns, post \in Posts, try \in Tries :
         request = Request(t, post, try) /\ calls[t][post] # NoCall

IInv == TypeOK /\ KeysOK

-----------------------------------------------------------------------------
(* Properties. *)

(***************************************************************************)
(* Tried again or given up, early or late, a write is applied once at      *)
(* most: the calls implement the audit's single posts.                     *)
(***************************************************************************)
AuditSpec == Audit!Spec

\* However its writes are delayed or repeated, a run that was settled is never shown as running again.
SettledStaysSettled == Audit!SettledStaysSettled

(***************************************************************************)
(* A call is over within its budget of time, whatever its tries come to;   *)
(* the budget is configured well inside a job's lease.                     *)
(***************************************************************************)
OverWithinBudget ==
    \A t \in Turns, post \in Posts :
        calls[t][post] # NoCall => calls[t][post].spent <= Deadline
=============================================================================
