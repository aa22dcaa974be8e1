----------------------------- MODULE FleetTick -----------------------------
(***************************************************************************)
(* Who serves a store of the fleet, and on what standing: the minute tick  *)
(* lists the fleet and works the stores that are active                    *)
(* (src/store/fleet.ts), and any other entry (a delivery of the inbox, a   *)
(* founder's request) asks for the store's profile before it starts        *)
(* (tenants.ts, ensureTenant).  Both go through the registry of one        *)
(* process and share its refreshes; the process may restart at any point.  *)
(***************************************************************************)
EXTENDS TenantRegistry

VARIABLE caller      \* per caller: idle, listed, waiting for the refresh, ready, serving

vars == <<registry, caller>>

Callers == {"tick", "entry"}

Init == RegistryInit /\ caller = [c \in Callers |-> "idle"]

To(c, phase) == caller' = [caller EXCEPT ![c] = phase]

-----------------------------------------------------------------------------
(***************************************************************************)
(* resolveDispatchTenants: the fleet is listed, the profile of each listed *)
(* store refreshed, and the active ones are worked.                        *)
(***************************************************************************)
ListFleet ==
    /\ caller["tick"] = "idle"
    /\ ListFleetStoreIds
    /\ To("tick", IF fleet'.listed = "yes" THEN "listed" ELSE "idle")

EnsureListed ==
    /\ caller["tick"] = "listed"
    /\ EnsureTenant
    /\ To("tick", IF AnsweredAtOnce THEN "ready" ELSE "waiting")

\* Another entry asks for the one store it is about.
EnsureForEntry ==
    /\ caller["entry"] = "idle"
    /\ EnsureTenant
    /\ To("entry", IF AnsweredAtOnce THEN "ready" ELSE "waiting")

\* The status is read when the caller goes on, not when it asked.
Serve(c) ==
    /\ caller[c] = "ready"
    /\ To(c, IF IsTenantActive THEN "serving" ELSE "idle")
    /\ UNCHANGED registry

Done(c) == caller[c] = "serving" /\ To(c, "idle") /\ UNCHANGED registry

\* The refresh lands: every caller that shared it goes on.
RefreshReturns ==
    /\ RefreshTenant
    /\ caller' = [c \in Callers |-> IF caller[c] = "waiting" THEN "ready" ELSE caller[c]]

\* No clock moves while a caller has only code to run.
Tick ==
    /\ \A c \in Callers : caller[c] \notin {"listed", "ready"}
    /\ RegistryTick
    /\ UNCHANGED caller

Crash == RegistryCrash /\ caller' = [c \in Callers |-> "idle"]

Next ==
    \/ ListFleet \/ EnsureListed \/ EnsureForEntry
    \/ \E c \in Callers : Serve(c) \/ Done(c)
    \/ RefreshReturns
    \/ DakioAnswers /\ UNCHANGED caller
    \/ \E to \in {"active", "paused", "refused"} : Throw(to) /\ UNCHANGED caller
    \/ Tick \/ Crash

Spec == Init /\ [][Next]_vars

-----------------------------------------------------------------------------
Serves == \E c \in Callers : caller'[c] = "serving" /\ caller[c] # "serving"

(***************************************************************************)
(* A store that stopped being active on dakio-api is served no longer than *)
(* the row is fresh and a refresh may take, unless the last refresh        *)
(* failed; and then no longer than a stale row may be served, unless this  *)
(* process never heard of the store (tenants.ts, ensureTenant, staleOrNull *)
(* and the seed rows).                                                     *)
(***************************************************************************)
PausedStoreIsRefusedInTime ==
    [][Serves /\ out > FreshTtl + ProfileTimeout =>
         failed # Never /\ (out <= StaleMax + ProfileTimeout \/ heard.said = "nothing")]_vars

(***************************************************************************)
(* The readers find the store active only because its own profile said so  *)
(* last, or because this process has had no answer yet: an outage after a  *)
(* refusal does not bring the seed row back, and no token of another store *)
(* lends its standing (tenants.ts, evictDynamic and the identity check;    *)
(* service-token.ts, legacyTokenFor).                                      *)
(***************************************************************************)
ServedOnItsOwnStanding ==
    IsTenantActive => heard \in [of : {Store}, said : {"nothing", "active"}]

(***************************************************************************)
(* No request in flight carries a token that has run out: what is left of  *)
(* a token that is reused outlasts the request's timeout                   *)
(* (service-token.ts, REFRESH_SKEW_MS).                                    *)
(***************************************************************************)
NoDeadTokenInFlight == fetch # NoFetch => fetch.token.left > 0

-----------------------------------------------------------------------------
\* What a caller that goes on finds active was active lately, or is served through an outage.
ReadyInTime ==
    (\E c \in Callers : caller[c] = "ready") /\ row = "active" =>
        \/ out <= FreshTtl + ProfileTimeout
        \/ failed # Never /\ (out <= StaleMax + ProfileTimeout \/ heard.said = "nothing")

IInv ==
    /\ TypeOK /\ SaidInTime /\ Lasts /\ ServedOnItsOwnStanding
    /\ caller \in [Callers -> {"idle", "listed", "waiting", "ready", "serving"}]
    /\ ReadyInTime
=============================================================================
