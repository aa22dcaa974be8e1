--------------------------- MODULE TenantRegistry ---------------------------
(***************************************************************************)
(* The registry of one store in one process (src/store/tenants.ts): the    *)
(* cached profile row that says whether Nova may serve the store, its      *)
(* refresh from dakio-api with the store's own token, and the list of the  *)
(* fleet (src/store/fleet.ts).  The store is one the process was seeded    *)
(* with, so the row exists before any profile was read; once evicted it is *)
(* like any other.  Clocks are ages, counted up to where they stop to      *)
(* matter.  The actions are the registry's own: a module that composes it  *)
(* says who calls EnsureTenant and what else a Tick and a Crash do.        *)
(***************************************************************************)
EXTENDS ServiceToken, Integers

CONSTANTS
    Store,           \* the tenant id
    FreshTtl,        \* FRESH_TTL_MS
    StaleMax,        \* STALE_MAX_MS
    FailureBackoff,  \* FAILURE_BACKOFF_MS
    FleetTtl,        \* FLEET_TTL_MS
    ProfileTimeout,  \* PROFILE_TIMEOUT_MS, FLEET_TIMEOUT_MS
    Never,           \* the age of what has not happened
    NoFetch

ASSUME RegistryTimes ==
    /\ {FreshTtl, StaleMax, FailureBackoff, FleetTtl, ProfileTimeout} \subseteq Nat
    /\ FreshTtl <= StaleMax /\ ProfileTimeout <= RefreshSkew /\ ProfileTimeout < Ttl
    /\ Never \notin Nat

OutMax == StaleMax + ProfileTimeout + 1

VARIABLES
    standing,  \* dakio-api: what the store's profile answers now
    out,       \* dakio-api: how long the store has not been active
    env,       \* the token variables the process was started with
    row,       \* TENANTS: the status of the cached row, or none
    age,       \* dynamicFetchedAt, as the age of the row
    failed,    \* lastFailureAt, as the age of the failure
    token,     \* the minted token of the store
    fetch,     \* inFlight: the refresh under way
    fleet,     \* cachedIds and fetchedAtMs: whether the store is listed
    heard      \* history: the last definite answer, and whose profile it was

registry == <<standing, out, env, row, age, failed, token, fetch, fleet, heard>>

Older(a, limit) == IF a = Never THEN a ELSE IF a < limit THEN a + 1 ELSE a

RegistryInit ==
    /\ standing \in {"active", "paused", "refused"}
    /\ out = IF standing = "active" THEN 0 ELSE OutMax
    /\ env \in Environments(Store)
    /\ row = "active" /\ age = Never /\ failed = Never
    /\ token = NoToken /\ fetch = NoFetch
    /\ fleet = [listed |-> "never", age |-> FleetTtl]
    /\ heard = [of |-> Store, said |-> "nothing"]

\* isTenantActive, the synchronous reader.
IsTenantActive == row = "active"

Fresh == row # "none" /\ age # Never /\ age < FreshTtl
BackingOff == failed # Never /\ failed < FailureBackoff
\* What could go wrong: a row once active is served for as long as refreshes fail.
AnyRow(since) == row # "none"

\* A seed row that was never refreshed is a fallback of any age.
WithinStaleWindow(since) == row # "none" /\ (age = Never \/ age - since <= StaleMax)

\* What could go wrong in an eviction: only the age is forgotten, and the row is a seed again.
AgeForgotten == age' = Never /\ UNCHANGED row

EvictDynamic == row' = "none" /\ age' = Never

\* staleOrNull, judged at the time the call began: serve the row while it may be served,
\* and otherwise make the readers agree.
StaleOrNull(since) == IF WithinStaleWindow(since) THEN UNCHANGED <<row, age>> ELSE EvictDynamic

-----------------------------------------------------------------------------
(***************************************************************************)
(* ensureTenant, up to its first await.  Answered at once from a fresh row *)
(* or, soon after a failure, from what there is; otherwise the caller      *)
(* waits for the one refresh of the store, which it may have to start.     *)
(***************************************************************************)
AnsweredAtOnce == Fresh \/ BackingOff

StartFetch ==
    /\ fetch' = [age |-> 0, token |-> ServiceTokenFor(Store, env, token), answer |-> "pending"]
    /\ token' = CacheAfter(Store, env, token)

EnsureTenant ==
    /\ IF ~Fresh /\ BackingOff THEN StaleOrNull(0) ELSE UNCHANGED <<row, age>>
    /\ IF AnsweredAtOnce \/ fetch # NoFetch THEN UNCHANGED <<fetch, token>> ELSE StartFetch
    /\ UNCHANGED <<standing, out, env, failed, fleet, heard>>

\* dakio-api answers for the tenant of the token; the profile of another names that other.
ProfileOf(t) ==
    IF t.left = 0 THEN {"refused"}
    ELSE IF t.tenant = Store THEN {standing} ELSE {"active", "paused", "refused"}

DakioAnswers ==
    /\ fetch # NoFetch /\ fetch.answer = "pending"
    /\ \E a \in ProfileOf(fetch.token) \cup {"failed"} : fetch' = [fetch EXCEPT !.answer = a]
    /\ UNCHANGED <<standing, out, env, row, age, failed, token, fleet, heard>>

(***************************************************************************)
(* refreshTenant, after the fetch: a failure (no answer, a 5xx, a body     *)
(* that does not parse) leaves what may still be served; 404, 401, 403 and *)
(* a profile of another tenant drop the row; a profile replaces it, as old *)
(* as the request was.                                                     *)
(***************************************************************************)
\* What could go wrong: whatever profile comes back is this store's.
AnyProfile(f) == f.answer \in {"active", "paused"}

IsOwnProfile(f) == f.answer \in {"active", "paused"} /\ f.token.tenant = Store

RefreshFailed ==
    /\ fetch.answer = "failed"
    /\ failed' = fetch.age
    /\ StaleOrNull(fetch.age)
    /\ UNCHANGED heard

RefreshRefused ==
    /\ fetch.answer # "failed" /\ ~IsOwnProfile(fetch)
    /\ EvictDynamic
    /\ heard' = [of |-> fetch.token.tenant, said |-> "refused"]
    /\ UNCHANGED failed

RefreshLanded ==
    /\ IsOwnProfile(fetch)
    /\ row' = fetch.answer /\ age' = fetch.age /\ failed' = Never
    /\ heard' = [of |-> fetch.token.tenant, said |-> fetch.answer]

RefreshTenant ==
    /\ fetch # NoFetch /\ fetch.answer # "pending"
    /\ (RefreshFailed \/ RefreshRefused \/ RefreshLanded)
    /\ fetch' = NoFetch
    /\ UNCHANGED <<standing, out, env, token, fleet>>

-----------------------------------------------------------------------------
\* listFleetStoreIds: at most one listing per TTL, the last one kept through failures.
FleetListed(answered) ==
    IF (fleet.listed # "never" /\ fleet.age < FleetTtl) \/ ~answered THEN fleet
    ELSE [listed |-> IF standing = "active" THEN "yes" ELSE "no", age |-> 0]

ListFleetStoreIds ==
    /\ \E answered \in BOOLEAN : fleet' = FleetListed(answered)
    /\ UNCHANGED <<standing, out, env, row, age, failed, token, fetch, heard>>

\* The billing switch is thrown on dakio-api.
Throw(to) ==
    /\ standing # to
    /\ standing' = to
    /\ out' = IF to = "active" THEN 0 ELSE out
    /\ UNCHANGED <<env, row, age, failed, token, fetch, fleet, heard>>

FetchInTime == fetch # NoFetch => fetch.age < ProfileTimeout

Wear(t) == IF t.left \in {0, Pinned} THEN t ELSE [t EXCEPT !.left = @ - 1]

RegistryTick ==
    /\ FetchInTime
    /\ out' = IF standing = "active" THEN 0 ELSE Older(out, OutMax)
    /\ age' = Older(age, OutMax)
    /\ failed' = Older(failed, FailureBackoff)
    /\ token' = IF token = NoToken THEN token ELSE Wear(token)
    /\ fetch' = IF fetch = NoFetch THEN fetch
                ELSE [fetch EXCEPT !.age = @ + 1, !.token = Wear(@)]
    /\ fleet' = [fleet EXCEPT !.age = Older(@, FleetTtl)]
    /\ UNCHANGED <<standing, env, row, heard>>

\* A new process has its seeds and nothing else.
RegistryCrash ==
    /\ row' = "active" /\ age' = Never /\ failed' = Never
    /\ token' = NoToken /\ fetch' = NoFetch
    /\ fleet' = [listed |-> "never", age |-> FleetTtl]
    /\ heard' = [of |-> Store, said |-> "nothing"]
    /\ UNCHANGED <<standing, out, env>>

-----------------------------------------------------------------------------
(* What the properties of the modules that compose this one rest on. *)

Tokens == [tenant : {Store, Another}, left : 0..Pinned]

TypeOK ==
    /\ standing \in {"active", "paused", "refused"} /\ out \in 0..OutMax
    /\ env \in Environments(Store)
    /\ row \in {"none", "active", "paused"}
    /\ age \in 0..OutMax \cup {Never} /\ failed \in Nat \cup {Never}
    /\ token \in {NoToken} \cup [tenant : {Store}, left : 0..Ttl]
    /\ fetch \in {NoFetch} \cup [age : 0..ProfileTimeout, token : Tokens,
                                 answer : {"pending", "failed", "active", "paused", "refused"}]

\* What a row, or an answer on its way, says was so when its request was sent or later.
SaidInTime ==
    /\ standing = "active" => out = 0
    /\ fetch # NoFetch /\ IsOwnProfile(fetch) /\ fetch.answer = "active" => out <= fetch.age
    /\ heard.said = "nothing" => age = Never
    /\ row = "active" /\ heard.said # "nothing" => age # Never /\ out <= age

\* A token in flight lasts until its request times out.
Lasts ==
    fetch # NoFetch /\ fetch.token.left # Pinned =>
        fetch.token.left > 0 /\ fetch.token.left + fetch.age > ProfileTimeout
=============================================================================
