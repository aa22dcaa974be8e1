------------------------------- MODULE RunAudit -------------------------------
(***************************************************************************)
(* The per-turn run audit of the dispatcher (src/brain/runs.ts, and the    *)
(* ledger behind it in src/store/backend.ts).  Every audit write is fired  *)
(* and forgotten: it is never awaited, so the writes of one turn may reach *)
(* the ledger in any order, or not at all.  AuditCalls implements this     *)
(* over the store client's calls.                                          *)
(***************************************************************************)
EXTENDS Naturals

CONSTANT Turns   \* the turn ids, job#attempt

VARIABLES
  pc,       \* how far performJob and settleJob have got with the turn
  posts,    \* the audit writes of the turn still in flight
  outcome   \* the ledger's row of the turn

vars == <<pc, posts, outcome>>

Outcomes == {"completed", "failed", "cancelled"}
Posts == [kind : {"start"}, outcome : {"running"}] \cup [kind : {"finish", "amend"}, outcome : Outcomes]

Init ==
  /\ pc = [t \in Turns |-> "planned"]
  /\ posts = [t \in Turns |-> {}]
  /\ outcome = [t \in Turns |-> "absent"]

Post(t, kind, what) == posts' = [posts EXCEPT ![t] = @ \cup {[kind |-> kind, outcome |-> what]}]
Reaches(t, where) == pc' = [pc EXCEPT ![t] = where]

-----------------------------------------------------------------------------
(* The dispatcher. *)

Started(t) ==
  /\ pc[t] = "planned"
  /\ Post(t, "start", "running")
  /\ Reaches(t, "running")
  /\ UNCHANGED outcome

(* A refused sweep is recorded as failed without ever having started. *)
RecordRefusal(t) ==
  /\ pc[t] = "planned"
  /\ Post(t, "finish", "failed")
  /\ Reaches(t, "closed")
  /\ UNCHANGED outcome

(* The turn returned: completed, or cancelled when there was nothing to do.  Its ack is next. *)
Returned(t, what) ==
  /\ pc[t] = "running"
  /\ Post(t, "finish", what)
  /\ Reaches(t, "returned")
  /\ UNCHANGED outcome

Threw(t) ==
  /\ pc[t] = "running"
  /\ Post(t, "finish", "failed")
  /\ Reaches(t, "closed")
  /\ UNCHANGED outcome

(* The complete was acknowledged, or its call failed: the audit stays as it is. *)
Acknowledged(t) ==
  /\ pc[t] = "returned"
  /\ Reaches(t, "closed")
  /\ UNCHANGED <<posts, outcome>>

(* The lease was superseded: the turn's run is amended to failed (lease_lost). *)
AcknowledgedStale(t) ==
  /\ pc[t] = "returned"
  /\ Post(t, "amend", "failed")
  /\ Reaches(t, "stale")
  /\ UNCHANGED outcome

-----------------------------------------------------------------------------
(* The ledger. *)

(* Mutant: every write overwrites the row. *)
LastWriteWins(old, post) == post.outcome

(* A start that arrives late never resets a settled outcome; a finish is an upsert. *)
Recorded(old, post) ==
  IF post.kind = "start" /\ old \in Outcomes THEN old ELSE post.outcome

(* A write arrives, whenever it does.  Its retries carry one key and are applied once. *)
Deliver(t, post) ==
  /\ post \in posts[t]
  /\ outcome' = [outcome EXCEPT ![t] = Recorded(@, post)]
  /\ posts' = [posts EXCEPT ![t] = @ \ {post}]
  /\ UNCHANGED pc

Lose(t, post) ==
  /\ post \in posts[t]
  /\ posts' = [posts EXCEPT ![t] = @ \ {post}]
  /\ UNCHANGED <<pc, outcome>>

Next ==
  \E t \in Turns :
    \/ Started(t) \/ RecordRefusal(t)
    \/ \E what \in {"completed", "cancelled"} : Returned(t, what)
    \/ Threw(t) \/ Acknowledged(t) \/ AcknowledgedStale(t)
    \/ \E post \in Posts : Deliver(t, post) \/ Lose(t, post)

Spec == Init /\ [][Next]_vars

-----------------------------------------------------------------------------
(***************************************************************************)
(* However its writes are delayed or repeated, a run that was settled is   *)
(* never shown as running again.                                           *)
(***************************************************************************)
SettledStaysSettled ==
  [][\A t \in Turns : outcome[t] \in Outcomes => outcome'[t] \in Outcomes]_vars
===============================================================================
