----------------------------- MODULE MCCadence -----------------------------
(* Instances of Cadence. *)
EXTENDS Cadence

Week == 0..6

(* Once a day in the hour the clocks skip or repeat, and twice on two days, before it and in it. *)
TwoCadences == {[slots |-> {5}, days |-> Week], [slots |-> {0, 5}, days |-> {0, 1}]}

(* West and east of the clock. *)
TwoBases == {-2, 2}
============================================================================
