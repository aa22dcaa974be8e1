---------------------------- MODULE MCJobDispatch ----------------------------
(* Small instances of JobDispatch for TLC. *)
EXTENDS JobDispatch

CONSTANTS a, b

(* A customer follow-up and a founder lane of a lower band. *)
TwoPriority == [j \in Jobs |-> IF j = a THEN 1 ELSE 2]
TwoPlanes == [j \in Jobs |-> IF j = a THEN "customer" ELSE "founder"]
SweepPlanes == [j \in Jobs |-> IF j = a THEN "customer" ELSE "sweep"]
===============================================================================
