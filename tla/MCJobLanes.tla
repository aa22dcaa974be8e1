----------------------------- MODULE MCJobLanes -----------------------------
(* Instances of JobLanes. *)
EXTENDS JobLanes

Row(kind, thread, promise, case, cart) ==
    [kind |-> kind, thread |-> thread, promise |-> promise, case |-> case, cart |-> cart]

Lanes == {Row(kind, {}, {}, FALSE, FALSE) : kind \in {"courier_intervention", "restock_check"}}

\* A debt, a nudge, a cart and a case on a thread, and what a faulty producer may write.
FollowUps ==
    {Row("followup", {"a"}, promise, FALSE, FALSE) : promise \in {{}, {Debt}, {Malformed}}}
    \cup {Row("followup", {}, {Debt}, FALSE, FALSE), Row("followup", {"a"}, {}, FALSE, TRUE)}
    \cup {Row("case_update", thread, {}, TRUE, FALSE) : thread \in {{}, {"a"}}}
    \cup {Row(kind, {}, {}, FALSE, FALSE) : kind \in {"case_update", "inbox_reply", "promise_sweep", "night_ops"}}

EveryJob == Lanes \cup FollowUps
Alike == Permutations(Turns) \cup Permutations(Leases)
=============================================================================
