---------------------------- MODULE MCActionGate ----------------------------
(* Small instances of ActionGate for TLC: deliveries are interchangeable, and so are requests. *)
EXTENDS ActionGate, TLC

Interchangeable == Permutations(Attempts) \cup Permutations(Requests)

(* The deliveries are of one decision, and so of one verb: two verbs share neither a row nor a write. *)
OneVerbInit == Init /\ \E verb \in Verbs : \A a \in Attempts : attempts[a].verb = verb

OneVerbSpec == OneVerbInit /\ [][Next]_vars
=============================================================================
