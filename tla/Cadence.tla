------------------------------ MODULE Cadence ------------------------------
(***************************************************************************)
(* How time and events become rows of the job table: the first half of     *)
(* claimDueJobs (src/store/backend.ts) over the cron arithmetic of         *)
(* src/store/cron.ts.                                                      *)
(*                                                                         *)
(*   expandDueDefs   the last local time of a cadence that has come, keyed *)
(*                   by the instant it names                               *)
(*   drain           abandoned carts, gathered into windows, each swept    *)
(*                   once when it is over                                  *)
(*                                                                         *)
(* Instants are numbers on one clock; a zone shifts them, by another       *)
(* amount after its clocks are changed.  Claims come when they come, the   *)
(* founder changes the cadence, and the pulse marks events as processed    *)
(* (src/brain/pulse.ts).  The two halves share only the clock, so a        *)
(* behaviour follows one of them.                                          *)
(***************************************************************************)
EXTENDS Integers, FiniteSets, FiniteSetsExt

CONSTANTS
    Day,        \* instants in a day
    Hour,       \* what the clocks are moved by
    Changes,    \* the instant they are moved at
    Bases,      \* zones: local time less the clock's
    Cadences,   \* [slots : times of the day, days : days of the week]
    Window,     \* CART_SWEEP_DEBOUNCE_MINUTES
    LookBack,   \* MAX_STEPS: how far back an occurrence is looked for
    Horizon,    \* bound: the last instant
    MaxEvents,  \* bound: abandoned carts
    Never

ASSUME CadenceBounds ==
    /\ Day \in Nat \ {0} /\ Hour \in Nat /\ Window \in Nat \ {0}
    /\ Changes \in Int /\ Bases \subseteq Int /\ LookBack \in Nat /\ Horizon \in Nat /\ MaxEvents \in Nat

VARIABLES
    half,     \* "cadence" or "carts": what the behaviour is about
    now,
    zone,     \* its base, and whether its clocks go forward or back
    def,      \* the cadence: Never is one of events only
    rows,     \* the instants whose key has a row
    carts,    \* the events, and who marked them processed
    sweeps,   \* the windows that have a row, and when it was leased
    claimed   \* history: the last claim of an enabled cadence

cadenceVars == <<half, now, zone, def, rows, carts, sweeps, claimed>>

NoClaim == [at |-> Never, cadence |-> Never]

CadenceInit ==
    /\ half \in {"cadence", "carts"}
    /\ now = 0
    /\ zone \in [base : Bases, moves : {"forward", "back", "not"}]
    /\ half = "carts" => zone = [base |-> Min(Bases), moves |-> "not"]
    /\ def = [cadence |-> Never, enabled |-> TRUE]
    /\ rows = {} /\ carts = {} /\ sweeps = {} /\ claimed = NoClaim

-----------------------------------------------------------------------------
(* cron.ts *)

\* tzOffsetMinutesAt
Offset(instant) ==
    zone.base + IF zone.moves = (IF instant < Changes THEN "back" ELSE "forward") THEN Hour ELSE 0

\* localCivilFields
Civil(instant) == instant + Offset(instant)

\* parseCron: does a local time match?
Matches(cadence, civil) == civil % Day \in cadence.slots /\ (civil \div Day) % 7 \in cadence.days

\* What could go wrong: the offset of the moment is used for every local time.
OffsetOfNow(civil) == {civil - Offset(now)}

\* civilToUtc: four guesses from the local time itself; none, if the clocks skip it.
CivilToUtc(civil) ==
    LET better(guess) == civil - Offset(guess)
    IN {u \in {better(better(better(better(civil))))} : Civil(u) = civil}

\* lastOccurrenceAtOrBefore: none, or one, walking back over local times.
LastOccurrence(cadence, at) ==
    LET come(civil) == Matches(cadence, civil) /\ \E u \in CivilToUtc(civil) : u <= at
        times == {civil \in (Civil(at) - LookBack)..Civil(at) : come(civil)}
    IN IF times = {} THEN {} ELSE CivilToUtc(Max(times))

-----------------------------------------------------------------------------
(* backend.ts *)

Active == def.enabled /\ def.cadence # Never

\* A key that has a row is not expanded again.
ExpandDueDefs ==
    /\ rows' = IF Active THEN rows \cup LastOccurrence(def.cadence, now) ELSE rows
    /\ claimed' = IF Active THEN [at |-> now, cadence |-> def.cadence] ELSE claimed

Bucket(instant) == (instant \div Window) * Window

\* What could go wrong: a window is swept as soon as it has an event.
DueAtOnce(bucket) == bucket

DueOf(bucket) == bucket + Window

Pending == {c \in carts : c.by = "nobody"}

\* Some of the pending events are marked.
Processed(some, by) == (carts \ some) \cup {[c EXCEPT !.by = by] : c \in some}

\* A window that has a row gets no other, whatever became of that one.
Drained ==
    sweeps \cup {[window |-> w, leased |-> Never] :
                    w \in {Bucket(c.at) : c \in Pending} \ {s.window : s \in sweeps}}

\* The rows of a priority order that fit the limit (JobQueue); here, any that are due.
Leased(table) ==
    {{IF s \in batch THEN [s EXCEPT !.leased = now] ELSE s : s \in table} :
        batch \in SUBSET {s \in table : s.leased = Never /\ DueOf(s.window) <= now}}

ClaimDueJobs ==
    /\ carts' = Processed(Pending, "queue")
    /\ sweeps' \in Leased(Drained)
    /\ ExpandDueDefs
    /\ UNCHANGED <<half, now, zone, def>>

\* A cadence is parsed before it is kept, so an event-only one cannot be set here.
UpsertJobDef ==
    /\ half = "cadence"
    /\ \E cadence \in Cadences, enabled \in BOOLEAN : def' = [cadence |-> cadence, enabled |-> enabled]
    /\ UNCHANGED <<half, now, zone, rows, carts, sweeps, claimed>>

-----------------------------------------------------------------------------
(* Everybody else. *)

CartAbandoned ==
    /\ half = "carts"
    /\ Cardinality(carts) < MaxEvents
    /\ carts' = carts \cup {[at |-> now, by |-> "nobody"]}
    /\ UNCHANGED <<half, now, zone, def, rows, sweeps, claimed>>

\* runPulse: markEventProcessed, one event after another, whatever the event.
PulseDrains ==
    /\ \E c \in Pending : carts' = Processed({c}, "pulse")
    /\ UNCHANGED <<half, now, zone, def, rows, sweeps, claimed>>

Tick ==
    /\ now < Horizon
    /\ now' = now + 1
    /\ UNCHANGED <<half, zone, def, rows, carts, sweeps, claimed>>

CadenceNext == ClaimDueJobs \/ UpsertJobDef \/ CartAbandoned \/ PulseDrains \/ Tick

CadenceSpec == CadenceInit /\ [][CadenceNext]_cadenceVars

-----------------------------------------------------------------------------
(* Properties. *)

\* The local time is reached once more within the hour that the clocks repeat.
ComesAgain(civil, at) == \E v \in (at + 1)..(at + Hour) : Civil(v) = civil

\* The instants the claim may owe a row for: their local time has come, and will not come again.
\* The clocks may have skipped an hour of what the walk back covers.
Settled(at, cadence) ==
    {u \in (at + Hour - LookBack)..at :
        Matches(cadence, Civil(u)) /\ ~ComesAgain(Civil(u), at)}

(***************************************************************************)
(* However the clocks move, a local time has one row at most, and after a  *)
(* claim the latest one that has come for good has its row: a time the     *)
(* clocks skip has none, one they repeat is not run twice.  Only a later   *)
(* one that is still to be repeated may have been run in its place.        *)
(***************************************************************************)
LatestRunsOnce ==
    /\ \A r, s \in rows : Civil(r) = Civil(s) => r = s
    /\ claimed # NoClaim =>
         LET owed == Settled(claimed.at, claimed.cadence)
             latest == Civil(Max(owed))
         IN owed # {} =>
              \E r \in rows :
                 \/ Civil(r) = latest
                 \/ Civil(r) > latest /\ ComesAgain(Civil(r), claimed.at)

(***************************************************************************)
(* A cart that a claim has taken in was left before the sweep of its       *)
(* window is worked, so the sweep finds it; one that the pulse has marked  *)
(* first is on its own.                                                    *)
(***************************************************************************)
SweepFollowsItsCarts ==
    \A c \in carts : c.by = "queue" =>
        \E s \in sweeps : s.window = Bucket(c.at) /\ (s.leased # Never => c.at < s.leased)

=============================================================================
