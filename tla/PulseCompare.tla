---------------------------- MODULE PulseCompare ----------------------------
(***************************************************************************)
(* The pulse's comparison of a sense with the snapshot of the last pulse   *)
(* (src/brain/pulse-compare.ts), and the snapshot it leaves for the next   *)
(* one.  Time is in ticks, DayTicks of them to a day.                      *)
(*                                                                         *)
(* A snapshot is [open, blind]: the conditions that are true, each with    *)
(* what became of it, and the blind spots.  An empty one stands for no     *)
(* snapshot, which the comparison answers alike.                           *)
(***************************************************************************)
EXTENDS PulseSense

CONSTANT DayTicks

ASSUME DayAssumption == DayTicks \in Nat \ {0}

NoSnapshot == [open |-> <<>>, blind |-> <<>>]

OpenKeys(prior) == DOMAIN prior.open

Abs(n) == IF n < 0 THEN -n ELSE n

(* At least a quarter worse than at the last measurement. *)
MateriallyWorse(c, was) ==
  LET worse == IF LowerIsWorse(c.key[1]) THEN was.metric - c.value ELSE c.value - was.metric
  IN worse > 0 /\ 100 * worse >= 25 * Abs(was.metric)

(* Mutant: a dismissal never expires. *)
DismissedForGood(was, at) == Known(was.dismissedAt)

WithinDismissalWindow(was, at) == \E then \in was.dismissedAt : at - then < DayTicks

(* Crossed, never reported, or worse. *)
IsNews(c, prior, at) ==
  c.key \in OpenKeys(prior) =>
    LET was == prior.open[c.key]
    IN \/ ~was.announced /\ ~WithinDismissalWindow(was, at)
       \/ MateriallyWorse(c, was)

Findings(s, at, prior) == {c \in Conditions(s) : IsNews(c, prior, at)}
FindingKeys(s, at, prior) == {c.key : c \in Findings(s, at, prior)}

(* Mutant: what could not be derived again is dropped. *)
NothingCarried(s, prior) == {}

(* What the last pulse knew and this one could not decide. *)
CarriedKeys(s, prior) ==
  {key \in OpenKeys(prior) : ~DomainAnswered(s, key) \/ key \in UndeterminableKeys(s, OpenKeys(prior))}

OpenAfter(s, at, prior) ==
  LET now == Conditions(s)
      keys == {c.key : c \in now}
      ValueOf(key) == (CHOOSE c \in now : c.key = key).value
  IN [key \in keys \cup CarriedKeys(s, prior) |->
        IF key \notin keys THEN prior.open[key]
        ELSE IF key \in OpenKeys(prior) THEN [prior.open[key] EXCEPT !.metric = ValueOf(key)]
        ELSE [since |-> at, metric |-> ValueOf(key), announced |-> FALSE, dismissedAt |-> Unknown]]

(* What became of the findings, on the conditions. *)
Marked(open, announced, dismissed, at) ==
  [key \in DOMAIN open |->
     CASE key \in announced -> [open[key] EXCEPT !.announced = TRUE, !.dismissedAt = Unknown]
       [] key \in dismissed \ announced -> [open[key] EXCEPT !.dismissedAt = {at}]
       [] OTHER -> open[key]]

(* Mutant: a blind spot is told once. *)
ToldOnce(s, at, prior) ==
  {spot \in BlindSpots(s) : spot \in DOMAIN prior.blind => ~Known(prior.blind[spot].announcedAt)}

BlindSpotNews(s, at, prior) ==
  {spot \in BlindSpots(s) :
     spot \in DOMAIN prior.blind => \A told \in prior.blind[spot].announcedAt : at - told >= DayTicks}

NextBlindSpots(s, at, prior, announced) ==
  [spot \in BlindSpots(s) |->
     LET known == spot \in DOMAIN prior.blind
     IN [since |-> IF known THEN prior.blind[spot].since ELSE at,
         announcedAt |-> CASE spot \in announced -> {at}
                           [] known /\ spot \notin announced -> prior.blind[spot].announcedAt
                           [] OTHER -> Unknown]]

NextSnapshot(s, at, prior, announced, dismissed, blindAnnounced) ==
  [open |-> Marked(OpenAfter(s, at, prior), announced, dismissed, at),
   blind |-> NextBlindSpots(s, at, prior, blindAnnounced)]
===============================================================================
