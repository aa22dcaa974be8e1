----------------------------- MODULE JobContract -----------------------------
(***************************************************************************)
(* What the job queue promises whoever works a row, stated without clocks, *)
(* workers, retries or messages (store/client.ts, the settle contract; the *)
(* phase E spec: "The token, not the id, is the fence").                   *)
(*                                                                         *)
(* A job is a sequence of leases, numbered by their fencing tokens.  At    *)
(* any time at most one of them holds the job.  A lease may be taken away, *)
(* only the holder may close the job, and a closed job is never leased     *)
(* again.                                                                  *)
(***************************************************************************)
EXTENDS Naturals

CONSTANT Jobs

VARIABLE lease

NoLease == 0

LeaseState == [grant : Nat, holder : Nat, outcome : {"open", "done", "failed"}]

Init == lease = [j \in Jobs |-> [grant |-> 0, holder |-> NoLease, outcome |-> "open"]]

(* A new lease supersedes whatever lease there was, under a token never issued before. *)
Granted(old, new) ==
  /\ old.outcome = "open"
  /\ new.outcome = "open"
  /\ new.grant > old.grant
  /\ new.holder = new.grant

(* The job is taken from its holder, or handed back by it, and stays open. *)
Returned(old, new) ==
  /\ old.holder # NoLease
  /\ new.holder = NoLease
  /\ new.grant = old.grant
  /\ new.outcome = old.outcome

(* The holder settles the job for good. *)
Closed(old, new) ==
  /\ old.holder # NoLease
  /\ old.outcome = "open"
  /\ new.holder = NoLease
  /\ new.grant = old.grant
  /\ new.outcome \in {"done", "failed"}

LeaseStep(old, new) == Granted(old, new) \/ Returned(old, new) \/ Closed(old, new)

(* One claim may lease, and recover, several jobs at once. *)
Next ==
  /\ lease' \in [Jobs -> LeaseState]
  /\ \A j \in Jobs : lease'[j] = lease[j] \/ LeaseStep(lease[j], lease'[j])

Spec == Init /\ [][Next]_lease
==============================================================================
