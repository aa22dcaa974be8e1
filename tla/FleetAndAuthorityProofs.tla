----------------------- MODULE FleetAndAuthorityProofs ------------------------
(***************************************************************************)
(* What FleetTick keeps for every length of the clocks: a store is served  *)
(* on what its own profile said last, a store that stopped being active    *)
(* not for long, and no request carries a token that runs out under way.   *)
(* And what AuthorityDesk keeps for every request, world, amount and       *)
(* limit: nothing acts alone but within every control, a person can always *)
(* be asked for, and no control turned down lets anything further.         *)
(***************************************************************************)
EXTENDS FleetTick, AuthorityDesk, TLAPS

-----------------------------------------------------------------------------
(* The clocks, and the tokens. *)

LEMMA Times ==
  /\ Ttl \in Nat /\ RefreshSkew \in Nat /\ FreshTtl \in Nat /\ StaleMax \in Nat
  /\ FailureBackoff \in Nat /\ ProfileTimeout \in Nat
  /\ ProfileTimeout <= RefreshSkew /\ ProfileTimeout < Ttl
  /\ Pinned = Ttl + 1 /\ OutMax = StaleMax + ProfileTimeout + 1
  /\ OutMax \in Nat /\ Pinned \in Nat /\ Never \notin Nat
BY TokenTimes, RegistryTimes DEF Pinned, OutMax

Caches == {NoToken} \cup [tenant : {Store}, left : 0..Ttl]

(* A call is sent with a pinned token, or with one that outlasts it. *)
LEMMA TokenIs ==
  ASSUME NEW e \in Environments(Store), NEW cached \in Caches
  PROVE  /\ ServiceTokenFor(Store, e, cached) \in Tokens
         /\ LET left == ServiceTokenFor(Store, e, cached).left
            IN  left # Pinned => left > ProfileTimeout
         /\ CacheAfter(Store, e, cached) \in Caches
<1> DEFINE t == ServiceTokenFor(Store, e, cached)
<1>1. CASE e.pin # NoToken
  <2>1. t = [tenant |-> e.pin, left |-> Pinned] /\ e.pin \in {Store, Another}
    BY <1>1 DEF ServiceTokenFor, Environments
  <2>2. t \in Tokens /\ t.left = Pinned
    BY <2>1, Times DEF Tokens
  <2>3. CacheAfter(Store, e, cached) = cached
    BY <2>2 DEF CacheAfter
  <2>4. QED BY <2>2, <2>3
<1>2. CASE e.pin = NoToken /\ LegacyTokenFor(Store, e.legacy) # NoToken
  <2>1. t = LegacyTokenFor(Store, e.legacy)
    BY <1>2 DEF ServiceTokenFor
  <2>2. e.legacy # NoToken /\ e.legacy.declared = Store
    BY <1>2 DEF LegacyTokenFor
  <2>3. e.legacy.tenant \in {Store, Another}
    BY <2>2 DEF Environments
  <2>4. t = [tenant |-> e.legacy.tenant, left |-> Pinned]
    BY <2>1, <2>2 DEF LegacyTokenFor
  <2>5. t \in Tokens /\ t.left = Pinned
    BY <2>3, <2>4, Times DEF Tokens
  <2>6. CacheAfter(Store, e, cached) = cached
    BY <2>5 DEF CacheAfter
  <2>7. QED BY <2>5, <2>6
<1>3. CASE e.pin = NoToken /\ LegacyTokenFor(Store, e.legacy) = NoToken
  <2>1. t = MintServiceToken(Store, cached)
    BY <1>3 DEF ServiceTokenFor
  <2>2. t \in [tenant : {Store}, left : 0..Ttl] /\ t.left > ProfileTimeout
    <3>1. CASE cached # NoToken /\ cached.left > RefreshSkew
      BY <2>1, <3>1, Times DEF MintServiceToken, Caches
    <3>2. CASE ~(cached # NoToken /\ cached.left > RefreshSkew)
      BY <2>1, <3>2, Times DEF MintServiceToken, Minted
    <3>3. QED BY <3>1, <3>2
  <2>3. t \in Tokens /\ t.left # Pinned
    BY <2>2, Times DEF Tokens
  <2>4. CacheAfter(Store, e, cached) = t
    BY <2>3 DEF CacheAfter
  <2>5. QED BY <2>2, <2>3, <2>4 DEF Caches
<1>4. QED BY <1>1, <1>2, <1>3

LEMMA OlderIs ==
  ASSUME NEW limit \in Nat, NEW a \in 0..limit \cup {Never}
  PROVE  /\ Older(a, limit) \in 0..limit \cup {Never}
         /\ Older(a, limit) = Never <=> a = Never
         /\ a # Never => Older(a, limit) = IF a < limit THEN a + 1 ELSE a
BY Times DEF Older

-----------------------------------------------------------------------------
(* The registry's own actions. *)

RegistryIInv == TypeOK /\ SaidInTime /\ Lasts /\ ServedOnItsOwnStanding

Fetches == [age : 0..ProfileTimeout, token : Tokens,
            answer : {"pending", "failed", "active", "paused", "refused"}]

LEMMA RegistryTypes ==
  ASSUME RegistryIInv
  PROVE  /\ standing \in {"active", "paused", "refused"} /\ out \in 0..OutMax
         /\ row \in {"none", "active", "paused"} /\ age \in 0..OutMax \cup {Never}
         /\ failed \in Nat \cup {Never} /\ env \in Environments(Store) /\ token \in Caches
         /\ fetch # NoFetch => fetch \in Fetches
BY DEF RegistryIInv, TypeOK, Caches, Fetches

(* The row is dropped, or stays. *)
LEMMA StaleIs ==
  ASSUME NEW since, StaleOrNull(since)
  PROVE  \/ /\ UNCHANGED <<row, age>>
            /\ row = "active" => age = Never \/ age - since <= StaleMax
         \/ row' = "none" /\ age' = Never
BY DEF StaleOrNull, WithinStaleWindow, EvictDynamic

(* What EnsureTenant leaves of the row. *)
LEMMA EnsureRow ==
  ASSUME EnsureTenant
  PROVE  \/ UNCHANGED <<row, age>>
         \/ row' = "none" /\ age' = Never
BY StaleIs DEF EnsureTenant

LEMMA EnsureKeeps ==
  ASSUME RegistryIInv, EnsureTenant
  PROVE  RegistryIInv'
<1>t. /\ standing \in {"active", "paused", "refused"} /\ out \in 0..OutMax
      /\ row \in {"none", "active", "paused"} /\ age \in 0..OutMax \cup {Never}
      /\ failed \in Nat \cup {Never} /\ env \in Environments(Store) /\ token \in Caches
  BY RegistryTypes
<1>u. UNCHANGED <<standing, out, env, failed, fleet, heard>>
  BY DEF EnsureTenant
<1>r. (UNCHANGED <<row, age>>) \/ (row' = "none" /\ age' = Never)
  BY EnsureRow
<1>1. CASE UNCHANGED <<fetch, token>>
  <2>1. TypeOK'
    BY <1>u, <1>r, <1>1 DEF RegistryIInv, TypeOK, Environments
  <2>2. SaidInTime'
    BY <1>u, <1>r, <1>1 DEF RegistryIInv, SaidInTime, IsOwnProfile
  <2>3. Lasts' /\ ServedOnItsOwnStanding'
    BY <1>u, <1>r, <1>1 DEF RegistryIInv, Lasts, ServedOnItsOwnStanding, IsTenantActive
  <2>4. QED BY <2>1, <2>2, <2>3 DEF RegistryIInv
<1>2. CASE StartFetch
  <2>1. PICK t : t = ServiceTokenFor(Store, env, token)
    OBVIOUS
  <2>2. /\ t \in Tokens /\ (t.left # Pinned => t.left > ProfileTimeout)
        /\ token' \in Caches
    BY <1>t, <1>2, <2>1, TokenIs DEF StartFetch
  <2>3. fetch' = [age |-> 0, token |-> t, answer |-> "pending"]
    BY <1>2, <2>1 DEF StartFetch
  <2>4. fetch' \in Fetches
    BY <2>2, <2>3, Times DEF Fetches
  <2>5. TypeOK'
    BY <1>t, <1>u, <1>r, <2>2, <2>4 DEF TypeOK, Environments, Caches, Fetches
  <2>6. SaidInTime'
    BY <1>u, <1>r, <2>3 DEF RegistryIInv, SaidInTime, IsOwnProfile
  <2>7. Lasts'
    BY <2>2, <2>3, Times DEF Lasts, Tokens
  <2>8. ServedOnItsOwnStanding'
    BY <1>u, <1>r DEF RegistryIInv, ServedOnItsOwnStanding, IsTenantActive
  <2>9. QED BY <2>5, <2>6, <2>7, <2>8 DEF RegistryIInv
<1>3. QED BY <1>1, <1>2 DEF EnsureTenant

LEMMA AnswerKeeps ==
  ASSUME RegistryIInv, DakioAnswers
  PROVE  RegistryIInv'
<1>t. /\ standing \in {"active", "paused", "refused"} /\ out \in 0..OutMax /\ fetch \in Fetches
  BY RegistryTypes DEF DakioAnswers
<1>u. UNCHANGED <<standing, out, env, row, age, failed, token, fleet, heard>> /\ fetch # NoFetch
  BY DEF DakioAnswers
<1>1. PICK a \in ProfileOf(fetch.token) \cup {"failed"} : fetch' = [fetch EXCEPT !.answer = a]
  BY DEF DakioAnswers
<1>2. a \in {"pending", "failed", "active", "paused", "refused"}
  BY <1>t DEF ProfileOf
<1>3. fetch' \in Fetches
  BY <1>t, <1>1, <1>2 DEF Fetches
<1>4. fetch'.age = fetch.age /\ fetch'.token = fetch.token /\ fetch'.answer = a
  BY <1>t, <1>1 DEF Fetches
<1>5. TypeOK'
  BY <1>u, <1>3 DEF RegistryIInv, TypeOK, Fetches, Environments
<1>6. fetch.token.tenant = Store /\ a = "active" => out <= fetch.age
  <2>1. fetch.token.tenant = Store /\ a = "active" => standing = "active"
    BY DEF ProfileOf
  <2>2. 0 <= fetch.age
    BY <1>t, Times DEF Fetches
  <2>3. QED BY <2>1, <2>2 DEF RegistryIInv, SaidInTime
<1>7. SaidInTime'
  BY <1>u, <1>4, <1>6 DEF RegistryIInv, SaidInTime, IsOwnProfile
<1>8. Lasts' /\ ServedOnItsOwnStanding'
  BY <1>u, <1>4 DEF RegistryIInv, Lasts, ServedOnItsOwnStanding, IsTenantActive
<1>9. QED BY <1>5, <1>7, <1>8 DEF RegistryIInv

LEMMA RefreshKeeps ==
  ASSUME RegistryIInv, RefreshTenant
  PROVE  RegistryIInv'
<1>t. /\ standing \in {"active", "paused", "refused"} /\ out \in 0..OutMax /\ fetch \in Fetches
      /\ row \in {"none", "active", "paused"} /\ age \in 0..OutMax \cup {Never}
      /\ failed \in Nat \cup {Never} /\ env \in Environments(Store) /\ token \in Caches
  BY RegistryTypes DEF RefreshTenant
<1>u. UNCHANGED <<standing, out, env, token, fleet>> /\ fetch # NoFetch /\ fetch' = NoFetch
  BY DEF RefreshTenant
<1>a. fetch.age \in Nat /\ fetch.age \in 0..OutMax /\ fetch.age # Never
  BY <1>t, Times DEF Fetches
<1>1. /\ row' \in {"none", "active", "paused"} /\ age' \in 0..OutMax \cup {Never}
      /\ failed' \in Nat \cup {Never}
      /\ heard'.said = "nothing" => age' = Never
      /\ row' = "active" /\ heard'.said # "nothing" => age' # Never /\ out <= age'
      /\ row' = "active" => heard' \in [of : {Store}, said : {"nothing", "active"}]
  <2>i. /\ heard.said = "nothing" => age = Never
        /\ row = "active" /\ heard.said # "nothing" => age # Never /\ out <= age
        /\ row = "active" => heard \in [of : {Store}, said : {"nothing", "active"}]
        /\ IsOwnProfile(fetch) /\ fetch.answer = "active" => out <= fetch.age
    BY <1>u DEF RegistryIInv, SaidInTime, ServedOnItsOwnStanding, IsTenantActive
  <2>1. CASE RefreshFailed
    <3>1. failed' = fetch.age /\ heard' = heard
      BY <2>1 DEF RefreshFailed
    <3>2. (UNCHANGED <<row, age>>) \/ (row' = "none" /\ age' = Never)
      BY <2>1, StaleIs DEF RefreshFailed
    <3>3. QED BY <1>t, <1>a, <2>i, <3>1, <3>2
  <2>2. CASE RefreshRefused
    <3>1. /\ row' = "none" /\ age' = Never /\ failed' = failed
      BY <2>2 DEF RefreshRefused, EvictDynamic
    <3>2. QED BY <1>t, <3>1
  <2>3. CASE RefreshLanded
    <3>1. /\ row' = fetch.answer /\ age' = fetch.age /\ failed' = Never
          /\ heard' = [of |-> fetch.token.tenant, said |-> fetch.answer]
          /\ IsOwnProfile(fetch)
      BY <2>3 DEF RefreshLanded
    <3>2. fetch.answer \in {"active", "paused"} /\ fetch.token.tenant = Store
      BY <3>1 DEF IsOwnProfile
    <3>3. QED BY <1>a, <2>i, <3>1, <3>2
  <2>4. QED BY <2>1, <2>2, <2>3 DEF RefreshTenant
<1>2. TypeOK'
  BY <1>t, <1>u, <1>1 DEF TypeOK, Caches, Environments
<1>3. SaidInTime'
  BY <1>u, <1>1 DEF RegistryIInv, SaidInTime
<1>4. Lasts' /\ ServedOnItsOwnStanding'
  BY <1>u, <1>1 DEF Lasts, ServedOnItsOwnStanding, IsTenantActive
<1>5. QED BY <1>2, <1>3, <1>4 DEF RegistryIInv

LEMMA ListKeeps ==
  ASSUME RegistryIInv, ListFleetStoreIds
  PROVE  RegistryIInv'
BY DEF RegistryIInv, ListFleetStoreIds, TypeOK, Environments, SaidInTime, IsOwnProfile, Lasts,
       ServedOnItsOwnStanding, IsTenantActive

LEMMA ThrowKeeps ==
  ASSUME RegistryIInv, NEW to \in {"active", "paused", "refused"}, Throw(to)
  PROVE  RegistryIInv'
<1>u. /\ UNCHANGED <<env, row, age, failed, token, fetch, fleet, heard>>
      /\ standing' = to /\ out' = IF to = "active" THEN 0 ELSE out
      /\ standing # to
  BY DEF Throw
<1>t. out \in 0..OutMax /\ age \in 0..OutMax \cup {Never} /\ (fetch # NoFetch => fetch \in Fetches)
  BY RegistryTypes
<1>1. out' \in 0..OutMax /\ out' <= out
  BY <1>u, <1>t, Times
<1>2. TypeOK'
  BY <1>u, <1>1 DEF RegistryIInv, TypeOK, Environments
<1>3. ASSUME NEW a \in Nat, out <= a
      PROVE  out' <= a
  BY <1>t, <1>1, <1>3, Times
<1>4. SaidInTime'
  <2>1. to = "active" => out' = 0
    BY <1>u
  <2>2. fetch # NoFetch /\ IsOwnProfile(fetch) /\ fetch.answer = "active" => out' <= fetch.age
    BY <1>t, <1>3 DEF RegistryIInv, SaidInTime, Fetches
  <2>3. row = "active" /\ heard.said # "nothing" => age # Never /\ out' <= age
    BY <1>t, <1>3 DEF RegistryIInv, SaidInTime
  <2>4. heard.said = "nothing" => age = Never
    BY DEF RegistryIInv, SaidInTime
  <2>5. QED BY <1>u, <2>1, <2>2, <2>3, <2>4 DEF SaidInTime, IsOwnProfile
<1>5. Lasts' /\ ServedOnItsOwnStanding'
  BY <1>u DEF RegistryIInv, Lasts, ServedOnItsOwnStanding, IsTenantActive
<1>6. QED BY <1>2, <1>4, <1>5 DEF RegistryIInv

(* A unit of a token's life goes by, and a request that has one cannot outlive it. *)
LEMMA WearIs ==
  ASSUME NEW t \in Tokens
  PROVE  /\ Wear(t) \in Tokens /\ Wear(t).tenant = t.tenant
         /\ t.left = Pinned => Wear(t).left = Pinned
         /\ t.left \notin {0, Pinned} => Wear(t).left = t.left - 1
         /\ t.left <= Ttl => Wear(t).left <= Ttl
BY Times DEF Wear, Tokens

LEMMA TickKeeps ==
  ASSUME RegistryIInv, RegistryTick
  PROVE  RegistryIInv'
<1>t. /\ standing \in {"active", "paused", "refused"} /\ out \in 0..OutMax
      /\ row \in {"none", "active", "paused"} /\ age \in 0..OutMax \cup {Never}
      /\ failed \in Nat \cup {Never} /\ env \in Environments(Store) /\ token \in Caches
      /\ fetch # NoFetch => fetch \in Fetches
  BY RegistryTypes
<1>u. /\ UNCHANGED <<standing, env, row, heard>>
      /\ out' = IF standing = "active" THEN 0 ELSE Older(out, OutMax)
      /\ age' = Older(age, OutMax)
      /\ failed' = Older(failed, FailureBackoff)
      /\ token' = IF token = NoToken THEN token ELSE Wear(token)
      /\ fetch' = IF fetch = NoFetch THEN fetch
                  ELSE [fetch EXCEPT !.age = @ + 1, !.token = Wear(@)]
      /\ fetch # NoFetch => fetch.age < ProfileTimeout
  BY DEF RegistryTick, FetchInTime
<1>1. out # Never /\ out' \in 0..OutMax /\ out' <= out + 1
  BY <1>t, <1>u, Times DEF Older
<1>2. age' \in 0..OutMax \cup {Never} /\ (age' = Never <=> age = Never)
  BY <1>t, <1>u, OlderIs, Times
<1>3. failed' \in Nat \cup {Never}
  BY <1>t, <1>u, Times DEF Older
<1>4. token' \in Caches
  BY <1>t, <1>u, Times DEF Caches, Wear
<1>5. ASSUME fetch # NoFetch
      PROVE  /\ fetch' \in Fetches
             /\ fetch'.age = fetch.age + 1 /\ fetch'.answer = fetch.answer
             /\ fetch'.token = Wear(fetch.token)
  <2>1. fetch.token \in Tokens /\ fetch.age \in 0..ProfileTimeout /\ fetch.age < ProfileTimeout
    BY <1>t, <1>u, <1>5 DEF Fetches
  <2>2. Wear(fetch.token) \in Tokens /\ fetch.age + 1 \in 0..ProfileTimeout
    BY <2>1, WearIs, Times
  <2> HIDE DEF Wear
  <2>3. QED BY <1>t, <1>u, <1>5, <2>2 DEF Fetches
<1>6. TypeOK'
  BY <1>t, <1>u, <1>1, <1>2, <1>3, <1>4, <1>5 DEF TypeOK, Caches, Fetches, Environments
<1>7. SaidInTime'
  <2>1. standing' = "active" => out' = 0
    BY <1>u
  <2>2. ASSUME fetch' # NoFetch, IsOwnProfile(fetch)', fetch'.answer = "active"
        PROVE  out' <= fetch'.age
    <3>1. fetch # NoFetch
      BY <1>u, <2>2
    <3>2. fetch \in Fetches /\ fetch.token \in Tokens
      BY <1>t, <3>1 DEF Fetches
    <3>3. IsOwnProfile(fetch) /\ fetch.answer = "active"
      BY <1>5, <2>2, <3>1, <3>2, WearIs DEF IsOwnProfile
    <3>4. out <= fetch.age /\ fetch.age \in Nat
      BY <3>1, <3>2, <3>3, Times DEF RegistryIInv, SaidInTime, Fetches
    <3>5. QED BY <1>t, <1>1, <1>5, <3>1, <3>4, Times
  <2>3. heard'.said = "nothing" => age' = Never
    BY <1>u, <1>2 DEF RegistryIInv, SaidInTime
  <2>4. ASSUME row' = "active", heard'.said # "nothing"
        PROVE  age' # Never /\ out' <= age'
    <3>1. age # Never /\ out <= age /\ age \in 0..OutMax
      BY <1>t, <1>u, <2>4 DEF RegistryIInv, SaidInTime
    <3>2. age' = IF age < OutMax THEN age + 1 ELSE age
      BY <1>u, <3>1 DEF Older
    <3>3. QED BY <1>t, <1>1, <1>2, <3>1, <3>2, Times
  <2>5. QED BY <2>1, <2>2, <2>3, <2>4 DEF SaidInTime
<1>8. Lasts'
  <2> SUFFICES ASSUME fetch' # NoFetch, fetch'.token.left # Pinned
               PROVE  fetch'.token.left > 0 /\ fetch'.token.left + fetch'.age > ProfileTimeout
    BY DEF Lasts
  <2>1. fetch # NoFetch
    BY <1>u
  <2>2. /\ fetch.token \in Tokens /\ fetch.token.left \in 0..Pinned
        /\ fetch.age \in Nat /\ fetch.age < ProfileTimeout
    BY <1>t, <1>u, <2>1, Times DEF Fetches, Tokens
  <2>3. fetch.token.left # Pinned
    BY <1>5, <2>1, <2>2, WearIs
  <2>4. fetch.token.left > 0 /\ fetch.token.left + fetch.age > ProfileTimeout
    BY <2>1, <2>3 DEF RegistryIInv, Lasts
  <2>5. fetch'.token.left = fetch.token.left - 1
    BY <1>5, <2>1, <2>2, <2>3, <2>4, WearIs, Times
  <2>6. QED BY <1>5, <2>1, <2>2, <2>4, <2>5, Times
<1>9. ServedOnItsOwnStanding'
  BY <1>u DEF RegistryIInv, ServedOnItsOwnStanding, IsTenantActive
<1>10. QED BY <1>6, <1>7, <1>8, <1>9 DEF RegistryIInv

LEMMA CrashKeeps ==
  ASSUME RegistryIInv, RegistryCrash
  PROVE  RegistryIInv'
<1>1. /\ row' = "active" /\ age' = Never /\ failed' = Never /\ token' = NoToken /\ fetch' = NoFetch
      /\ heard' = [of |-> Store, said |-> "nothing"] /\ UNCHANGED <<standing, out, env>>
  BY DEF RegistryCrash
<1>2. QED BY <1>1 DEF RegistryIInv, TypeOK, Environments, SaidInTime, Lasts,
                     ServedOnItsOwnStanding, IsTenantActive

LEMMA RegistryStarts ==
  ASSUME RegistryInit
  PROVE  RegistryIInv
<1>1. /\ row = "active" /\ age = Never /\ failed = Never /\ token = NoToken /\ fetch = NoFetch
      /\ heard = [of |-> Store, said |-> "nothing"] /\ env \in Environments(Store)
      /\ standing \in {"active", "paused", "refused"}
      /\ out = IF standing = "active" THEN 0 ELSE OutMax
  BY DEF RegistryInit
<1>2. out \in 0..OutMax
  BY <1>1, Times
<1>3. QED BY <1>1, <1>2 DEF RegistryIInv, TypeOK, SaidInTime, Lasts,
                     ServedOnItsOwnStanding, IsTenantActive

-----------------------------------------------------------------------------
(* The callers: what one that goes on finds of the row. *)

Phases == {"idle", "listed", "waiting", "ready", "serving"}

Timely ==
  row = "active" =>
    \/ out <= FreshTtl + ProfileTimeout
    \/ failed # Never /\ (out <= StaleMax + ProfileTimeout \/ heard.said = "nothing")

(* Answered at once, a caller finds a fresh row, or one that an outage spares. *)
LEMMA AtOnceIsTimely ==
  ASSUME RegistryIInv, EnsureTenant, AnsweredAtOnce
  PROVE  Timely'
<1>t. /\ out \in 0..OutMax /\ age \in 0..OutMax \cup {Never} /\ failed \in Nat \cup {Never}
  BY RegistryTypes
<1>u. UNCHANGED <<out, failed, heard>>
  BY DEF EnsureTenant
<1>i. /\ heard.said = "nothing" => age = Never
      /\ row = "active" /\ heard.said # "nothing" => age # Never /\ out <= age
  BY DEF RegistryIInv, SaidInTime
<1>1. CASE Fresh
  <2>1. UNCHANGED <<row, age>> /\ age # Never /\ age < FreshTtl
    BY <1>1 DEF EnsureTenant, Fresh
  <2>2. row = "active" => out <= FreshTtl + ProfileTimeout
    BY <1>t, <1>i, <2>1, Times
  <2>3. QED BY <1>u, <2>1, <2>2 DEF Timely
<1>2. CASE ~Fresh /\ BackingOff
  <2>1. failed # Never /\ StaleOrNull(0)
    BY <1>2 DEF EnsureTenant, BackingOff
  <2>2. CASE UNCHANGED <<row, age>> /\ (row = "active" => age = Never \/ age - 0 <= StaleMax)
    <3>1. row = "active" => out <= StaleMax + ProfileTimeout \/ heard.said = "nothing"
      BY <1>t, <1>i, <2>2, Times
    <3>2. QED BY <1>u, <2>1, <2>2, <3>1 DEF Timely
  <2>3. CASE row' = "none"
    BY <2>3 DEF Timely
  <2>4. QED BY <2>1, <2>2, <2>3, StaleIs
<1>3. QED BY <1>1, <1>2 DEF AnsweredAtOnce

(* Whoever asks, a caller that goes on still finds what it may serve. *)
LEMMA EnsureKeepsTimely ==
  ASSUME Timely, EnsureTenant
  PROVE  Timely'
BY EnsureRow DEF Timely, EnsureTenant

(* The refresh lands: the row is new, or one an outage spares, or gone. *)
LEMMA RefreshIsTimely ==
  ASSUME RegistryIInv, RefreshTenant
  PROVE  Timely'
<1>t. /\ out \in 0..OutMax /\ age \in 0..OutMax \cup {Never} /\ fetch \in Fetches
  BY RegistryTypes DEF RefreshTenant
<1>u. out' = out /\ fetch # NoFetch
  BY DEF RefreshTenant
<1>i. /\ heard.said = "nothing" => age = Never
      /\ row = "active" /\ heard.said # "nothing" => age # Never /\ out <= age
      /\ IsOwnProfile(fetch) /\ fetch.answer = "active" => out <= fetch.age
  BY <1>u DEF RegistryIInv, SaidInTime
<1>a. fetch.age \in Nat /\ fetch.age <= ProfileTimeout
  BY <1>t, Times DEF Fetches
<1>1. CASE RefreshFailed
  <2>1. failed' = fetch.age /\ heard' = heard /\ StaleOrNull(fetch.age)
    BY <1>1 DEF RefreshFailed
  <2>2. failed' # Never
    BY <1>a, <2>1, Times
  <2>3. CASE UNCHANGED <<row, age>> /\ (row = "active" => age = Never \/ age - fetch.age <= StaleMax)
    <3>1. row = "active" => out <= StaleMax + ProfileTimeout \/ heard.said = "nothing"
      BY <1>t, <1>i, <1>a, <2>3, Times
    <3>2. QED BY <1>u, <2>1, <2>2, <2>3, <3>1 DEF Timely
  <2>4. CASE row' = "none"
    BY <2>4 DEF Timely
  <2>5. QED BY <2>1, <2>3, <2>4, StaleIs
<1>2. CASE RefreshRefused
  BY <1>2 DEF RefreshRefused, EvictDynamic, Timely
<1>3. CASE RefreshLanded
  <2>1. row' = fetch.answer /\ IsOwnProfile(fetch)
    BY <1>3 DEF RefreshLanded
  <2>2. row' = "active" => out' <= FreshTtl + ProfileTimeout
    BY <1>t, <1>u, <1>i, <1>a, <2>1, Times
  <2>3. QED BY <2>2 DEF Timely
<1>4. QED BY <1>1, <1>2, <1>3 DEF RefreshTenant

LEMMA ThrowKeepsTimely ==
  ASSUME RegistryIInv, Timely, NEW to \in {"active", "paused", "refused"}, Throw(to)
  PROVE  Timely'
<1>1. out' = 0 \/ out' = out
  BY DEF Throw
<1>2. 0 <= FreshTtl + ProfileTimeout
  BY Times
<1>3. QED BY <1>1, <1>2 DEF Timely, Throw

-----------------------------------------------------------------------------
(* The fleet. *)

Ready == \E c \in Callers : caller[c] = "ready"

LEMMA IInvIs ==
  IInv <=> /\ RegistryIInv /\ caller \in [Callers -> Phases]
           /\ Ready => Timely
BY DEF IInv, RegistryIInv, Phases, Ready, ReadyInTime, Timely

LEMMA ToIs ==
  ASSUME caller \in [Callers -> Phases], NEW c \in Callers, NEW phase \in Phases, To(c, phase)
  PROVE  /\ caller' \in [Callers -> Phases]
         /\ Ready' => Ready \/ phase = "ready"
BY DEF To, Ready

LEMMA EnsureFor ==
  ASSUME IInv, NEW c \in Callers, EnsureTenant,
         To(c, IF AnsweredAtOnce THEN "ready" ELSE "waiting")
  PROVE  IInv'
<1>i. RegistryIInv /\ caller \in [Callers -> Phases] /\ (Ready => Timely)
  BY IInvIs
<1>1. RegistryIInv'
  BY <1>i, EnsureKeeps
<1>2. caller' \in [Callers -> Phases] /\ (Ready' => Ready \/ AnsweredAtOnce)
  <2>1. CASE AnsweredAtOnce
    BY <1>i, <2>1, ToIs DEF Phases
  <2>2. CASE ~AnsweredAtOnce
    BY <1>i, <2>2, ToIs DEF Phases
  <2>3. QED BY <2>1, <2>2
<1>3. Ready' => Timely'
  BY <1>i, <1>2, AtOnceIsTimely, EnsureKeepsTimely
<1>4. QED BY <1>1, <1>2, <1>3 DEF IInv, RegistryIInv, Phases, Ready, ReadyInTime, Timely

LEMMA FleetKeeps ==
  ASSUME IInv, [Next]_vars
  PROVE  IInv'
<1>i. RegistryIInv /\ caller \in [Callers -> Phases] /\ (Ready => Timely)
  BY IInvIs
<1>s. SUFFICES RegistryIInv' /\ caller' \in [Callers -> Phases] /\ (Ready' => Timely')
  BY DEF IInv, RegistryIInv, Phases, Ready, ReadyInTime, Timely
<1>1. CASE ListFleet
  <2>1. UNCHANGED <<row, out, failed, heard>> /\ ListFleetStoreIds
    BY <1>1 DEF ListFleet, ListFleetStoreIds
  <2>2. PICK phase \in {"listed", "idle"} : To("tick", phase)
    BY <1>1 DEF ListFleet
  <2>3. caller' \in [Callers -> Phases] /\ (Ready' => Ready)
    BY <1>i, <2>2, ToIs DEF Phases, Callers
  <2>4. Timely' <=> Timely
    BY <2>1 DEF Timely
  <2>5. QED BY <1>i, <2>1, <2>3, <2>4, ListKeeps
<1>2. CASE EnsureListed
  BY <1>2, EnsureFor, <1>i DEF EnsureListed, Callers, IInv, RegistryIInv, Phases, Ready, ReadyInTime, Timely
<1>3. CASE EnsureForEntry
  BY <1>3, EnsureFor, <1>i DEF EnsureForEntry, Callers, IInv, RegistryIInv, Phases, Ready, ReadyInTime, Timely
<1>4. ASSUME NEW c \in Callers, Serve(c) \/ Done(c)
      PROVE  RegistryIInv' /\ caller' \in [Callers -> Phases] /\ (Ready' => Timely')
  <2>1. UNCHANGED registry
    BY <1>4 DEF Serve, Done
  <2>2. RegistryIInv' /\ (Timely' <=> Timely)
    BY <1>i, <2>1 DEF registry, RegistryIInv, TypeOK, Environments, SaidInTime, IsOwnProfile, Lasts,
                      ServedOnItsOwnStanding, IsTenantActive, Timely
  <2>3. PICK phase \in {"serving", "idle"} : To(c, phase)
    BY <1>4 DEF Serve, Done
  <2>4. caller' \in [Callers -> Phases] /\ (Ready' => Ready)
    BY <1>i, <2>3, ToIs DEF Phases
  <2>5. QED BY <1>i, <2>2, <2>4
<1>5. CASE RefreshReturns
  BY <1>5, <1>i, RefreshKeeps, RefreshIsTimely DEF RefreshReturns, Phases
<1>6. CASE DakioAnswers /\ UNCHANGED caller
  <2>1. (Timely' <=> Timely) /\ (Ready' <=> Ready)
    BY <1>6 DEF DakioAnswers, Timely, Ready
  <2>2. QED BY <1>6, <1>i, <2>1, AnswerKeeps
<1>7. ASSUME NEW to \in {"active", "paused", "refused"}, Throw(to), UNCHANGED caller
      PROVE  RegistryIInv' /\ caller' \in [Callers -> Phases] /\ (Ready' => Timely')
  BY <1>7, <1>i, ThrowKeeps, ThrowKeepsTimely DEF Ready
<1>8. CASE Tick
  BY <1>8, <1>i, TickKeeps DEF Tick, Ready
<1>9. CASE Crash
  BY <1>9, <1>i, CrashKeeps DEF Crash, Ready, Phases
<1>10. CASE UNCHANGED vars
  BY <1>i, <1>10 DEF vars, registry, RegistryIInv, TypeOK, Environments, SaidInTime, IsOwnProfile,
                     Lasts, ServedOnItsOwnStanding, IsTenantActive, Timely, Ready
<1>11. QED BY <1>1, <1>2, <1>3, <1>4, <1>5, <1>6, <1>7, <1>8, <1>9, <1>10 DEF Next

(***************************************************************************)
(* The registry and its callers keep their types; what a row says was so   *)
(* when its request was sent, or later; and a caller that goes on finds a  *)
(* row it may serve (tenants.ts, ensureTenant, refreshTenant).             *)
(***************************************************************************)
THEOREM Inductive == Spec => []IInv
<1>1. Init => IInv
  <2> SUFFICES ASSUME Init PROVE IInv
    OBVIOUS
  <2>1. RegistryIInv
    BY RegistryStarts DEF Init
  <2>2. caller \in [Callers -> Phases] /\ ~Ready
    BY DEF Init, Phases, Ready
  <2>3. QED BY <2>1, <2>2, IInvIs
<1>2. IInv /\ [Next]_vars => IInv'
  BY FleetKeeps
<1>3. QED BY <1>1, <1>2, PTL DEF Spec

(***************************************************************************)
(* A store is served on what its own profile said last, or on its seed row *)
(* before any answer: not after a refusal, and not on another's standing   *)
(* (tenants.ts, evictDynamic and the identity check).                      *)
(***************************************************************************)
THEOREM OwnStanding == Spec => []ServedOnItsOwnStanding
<1>1. IInv => ServedOnItsOwnStanding
  BY DEF IInv
<1>2. QED BY <1>1, Inductive, PTL

(***************************************************************************)
(* Whatever a minted token had left when it was reused, it outlasts the    *)
(* request that carries it (service-token.ts, REFRESH_SKEW_MS).            *)
(***************************************************************************)
THEOREM TokensLast == Spec => []NoDeadTokenInFlight
<1>1. IInv => NoDeadTokenInFlight
  <2>1. Pinned > 0
    BY Times
  <2>2. QED BY <2>1 DEF IInv, Lasts, NoDeadTokenInFlight
<1>2. QED BY <1>1, Inductive, PTL

(***************************************************************************)
(* A store that stopped being active is served only while its row is fresh *)
(* and a refresh may take, then only through an outage and no longer than  *)
(* a stale row may be (tenants.ts, FRESH_TTL_MS, STALE_MAX_MS).            *)
(***************************************************************************)
THEOREM RefusedInTime == Spec => PausedStoreIsRefusedInTime
<1> DEFINE Due == Serves /\ out > FreshTtl + ProfileTimeout =>
                    failed # Never /\ (out <= StaleMax + ProfileTimeout \/ heard.said = "nothing")
<1>1. IInv /\ [Next]_vars => [Due]_vars
  <2> SUFFICES ASSUME IInv, Next, Serves, out > FreshTtl + ProfileTimeout
               PROVE  failed # Never /\ (out <= StaleMax + ProfileTimeout \/ heard.said = "nothing")
    OBVIOUS
  <2>i. RegistryIInv /\ caller \in [Callers -> Phases] /\ (Ready => Timely)
    BY IInvIs
  <2>1. PICK c \in Callers : caller'[c] = "serving" /\ caller[c] # "serving"
    BY DEF Serves
  <2>2. caller[c] = "ready" /\ row = "active"
    <3>1. ASSUME NEW d \in Callers, NEW phase, To(d, phase)
          PROVE  d = c /\ phase = "serving"
      BY <2>i, <2>1, <3>1 DEF To
    <3>2. ~ListFleet
      BY <3>1 DEF ListFleet, Callers
    <3>3. ~EnsureListed /\ ~EnsureForEntry
      BY <3>1 DEF EnsureListed, EnsureForEntry, Callers
    <3>4. ASSUME NEW d \in Callers, Done(d)
          PROVE  FALSE
      BY <3>1, <3>4 DEF Done
    <3>5. ASSUME NEW d \in Callers, Serve(d)
          PROVE  caller[c] = "ready" /\ row = "active"
      BY <3>1, <3>5 DEF Serve, IsTenantActive
    <3>6. ~RefreshReturns /\ ~Crash /\ caller' # caller
      BY <2>1 DEF RefreshReturns, Crash
    <3>7. QED BY <3>2, <3>3, <3>4, <3>5, <3>6 DEF Next, Tick
  <2>3. Timely
    BY <2>i, <2>2 DEF Ready
  <2>4. ~(out <= FreshTtl + ProfileTimeout)
    BY <2>i, RegistryTypes, Times
  <2>5. QED BY <2>2, <2>3, <2>4 DEF Timely
<1>2. Spec => [][Due]_vars
  BY <1>1, Inductive, PTL DEF Spec
<1>3. QED BY <1>2 DEF PausedStoreIsRefusedInTime

-----------------------------------------------------------------------------
(* AuthorityDesk. *)

(* The desk's controls. *)

(* Controls of the right shape stay so when a field is replaced by one of the right shape. *)
LEMMA ControlsStay ==
  ASSUME NEW c, ControlsOK(c), NEW d, DOMAIN d = DOMAIN c,
         {d.level, d.earned, d.maxDiscount, d.spendCap, d.spent} \subseteq Int,
         \A s \in DOMAIN d.modes : d.modes[s] \in Modes,
         \A k \in DOMAIN d.duties : d.duties[k] \in [enabled : BOOLEAN, doorExists : BOOLEAN],
         \A key \in DOMAIN d.bag : SettingOK(key, d.bag[key])
  PROVE  ControlsOK(d)
BY DEF ControlsOK

(* Whatever the founder and the trust engine move, the controls keep their shape. *)
THEOREM DeskTyped == DeskSpec => []DeskTypeOK
<1>1. DeskInit => DeskTypeOK
  BY DeskAssumption DEF DeskInit, DeskTypeOK
<1>2. ASSUME DeskTypeOK, [DeskNext]_deskVars PROVE DeskTypeOK'
  <2> USE <1>2 DEF DeskTypeOK, Moved
  <2>0. /\ DOMAIN controls = {"level", "earned", "modes", "duties", "locks", "maxDiscount", "spendCap", "spent", "bag"}
        /\ {controls.level, controls.earned, controls.maxDiscount, controls.spendCap, controls.spent} \subseteq Int
        /\ \A s \in DOMAIN controls.modes : controls.modes[s] \in Modes
        /\ \A k \in DOMAIN controls.duties : controls.duties[k] \in [enabled : BOOLEAN, doorExists : BOOLEAN]
        /\ \A key \in DOMAIN controls.bag : SettingOK(key, controls.bag[key])
    BY DEF ControlsOK
  <2>m. ASSUME NEW d, Moved(d) PROVE moves' \in 0..MaxMoves /\ controls' = d
    BY <2>m, DeskAssumption
  <2>1. CASE SetLevel
    <3>1. PICK l \in 0..4 : Moved([controls EXCEPT !.level = l]) BY <2>1 DEF SetLevel
    <3>2. ControlsOK([controls EXCEPT !.level = l]) BY <2>0, ControlsStay
    <3>3. QED BY <2>m, <3>1, <3>2
  <2>2. CASE TrustMoves
    <3>1. PICK l \in 2..4 : Moved([controls EXCEPT !.earned = l]) BY <2>2 DEF TrustMoves
    <3>2. ControlsOK([controls EXCEPT !.earned = l]) BY <2>0, ControlsStay
    <3>3. QED BY <2>m, <3>1, <3>2
  <2>3. CASE SetMode
    <3>1. PICK s \in Scopes, m \in Modes : Moved([controls EXCEPT !.modes = Put(@, s, m)])
      BY <2>3 DEF SetMode
    <3> DEFINE g == Put(controls.modes, s, m)
    <3>2. \A x \in DOMAIN g : g[x] \in Modes BY <2>0 DEF Put
    <3> HIDE DEF g
    <3>3. ControlsOK([controls EXCEPT !.modes = g]) BY <2>0, <3>2, ControlsStay
    <3>4. QED BY <2>m, <3>1, <3>3 DEF g
  <2>4. CASE ToggleDuty
    <3>1. PICK k \in DOMAIN controls.duties : Moved([controls EXCEPT !.duties[k].enabled = ~@])
      BY <2>4 DEF ToggleDuty
    <3> DEFINE g == [controls.duties EXCEPT ![k].enabled = ~@]
    <3>2. DOMAIN g = DOMAIN controls.duties OBVIOUS
    <3>3. \A x \in DOMAIN g : g[x] \in [enabled : BOOLEAN, doorExists : BOOLEAN] BY <2>0
    <3>4. [controls EXCEPT !.duties[k].enabled = ~@] = [controls EXCEPT !.duties = g] OBVIOUS
    <3> HIDE DEF g
    <3>5. ControlsOK([controls EXCEPT !.duties = g]) BY <2>0, <3>2, <3>3, ControlsStay
    <3>6. QED BY <2>m, <3>1, <3>4, <3>5
  <2>5. CASE MoveLock
    <3>1. PICK lock \in Locks :
             Moved([controls EXCEPT !.locks = IF lock \in @ THEN @ \ {lock} ELSE @ \cup {lock}])
      BY <2>5 DEF MoveLock
    <3>2. ASSUME NEW g PROVE ControlsOK([controls EXCEPT !.locks = g]) BY <2>0, ControlsStay
    <3>3. QED BY <2>m, <3>1, <3>2
  <2>6. CASE SetLimit
    <3>1. PICK key \in DOMAIN Limits : \E v \in Limits[key] : Moved([controls EXCEPT !.bag = Put(@, key, v)])
      BY <2>6 DEF SetLimit
    <3>0. PICK v \in Limits[key] : Moved([controls EXCEPT !.bag = Put(@, key, v)]) BY <3>1
    <3> DEFINE g == Put(controls.bag, key, v)
    <3>2. \A x \in DOMAIN g : SettingOK(x, g[x]) BY <2>0, DeskAssumption DEF Put
    <3> HIDE DEF g
    <3>3. ControlsOK([controls EXCEPT !.bag = g]) BY <2>0, <3>2, ControlsStay
    <3>4. QED BY <2>m, <3>0, <3>3 DEF g
  <2>7. CASE ForgetLimit
    <3>1. PICK key \in DOMAIN controls.bag : Moved([controls EXCEPT !.bag = Restrict(@, DOMAIN @ \ {key})])
      BY <2>7 DEF ForgetLimit
    <3> DEFINE g == Restrict(controls.bag, DOMAIN controls.bag \ {key})
    <3>2. \A x \in DOMAIN g : SettingOK(x, g[x]) BY <2>0 DEF Restrict
    <3> HIDE DEF g
    <3>3. ControlsOK([controls EXCEPT !.bag = g]) BY <2>0, <3>2, ControlsStay
    <3>4. QED BY <2>m, <3>1, <3>3 DEF g
  <2>8. CASE SetCanonical
    <3>1. PICK pct \in {10, 20}, taka \in {0, 5000} :
             Moved([controls EXCEPT !.maxDiscount = pct, !.spendCap = 100 * taka])
      BY <2>8 DEF SetCanonical
    <3> DEFINE cap == 100 * taka
    <3>2. pct \in Int /\ cap \in Int OBVIOUS
    <3> HIDE DEF cap
    <3> DEFINE d == [controls EXCEPT !.maxDiscount = pct, !.spendCap = cap]
    <3>3. /\ DOMAIN d = DOMAIN controls
          /\ d.level = controls.level /\ d.earned = controls.earned /\ d.spent = controls.spent
          /\ d.maxDiscount = pct /\ d.spendCap = cap
          /\ d.modes = controls.modes /\ d.duties = controls.duties /\ d.bag = controls.bag
      BY <2>0
    <3> HIDE DEF d
    <3>4. ControlsOK(d) BY <2>0, <3>2, <3>3, ControlsStay
    <3>5. QED BY <2>m, <3>1, <3>4 DEF cap, d
  <2>9. CASE Spend
    <3>1. ControlsOK([controls EXCEPT !.spent = IF @ = 0 THEN 400000 ELSE 0]) BY <2>0, ControlsStay
    <3>2. QED BY <2>m, <2>9, <3>1 DEF Spend
  <2>10. CASE UNCHANGED deskVars
    BY <2>10 DEF deskVars
  <2>11. QED BY <2>1, <2>2, <2>3, <2>4, <2>5, <2>6, <2>7, <2>8, <2>9, <2>10 DEF DeskNext
<1>3. QED BY <1>1, <1>2, PTL DEF DeskSpec

-----------------------------------------------------------------------------
(* The roster and the dial. *)

LEMMA DutiesAre == \A d \in Duties : d.minLevel \in 0..4 /\ d.door \in Doors
<1>1. \A door, keys : \A m \in 0..4 : \A d \in Rows(door, m, keys) : d.minLevel \in 0..4
  BY DEF Rows
<1>2. \A d \in Duties : d.minLevel \in 0..4
  BY <1>1 DEF Duties
<1>3. QED BY <1>2 DEF Doors

(* A key of the roster names a row of it. *)
LEMMA DutyIs ==
  ASSUME NEW k \in DOMAIN DutyByKey
  PROVE  DutyByKey[k].minLevel \in 0..4 /\ DutyByKey[k].door \in Doors
<1>1. \E d \in Duties : d.key = k
  BY DEF DutyByKey
<1>2. DutyByKey[k] \in Duties
  BY <1>1 DEF DutyByKey
<1>3. QED BY <1>2, DutiesAre

(* Every duty's tools are known to the guardrails; none of them moves a price. *)
LEMMA Governed ==
  ASSUME NEW verb, NEW k \in GoverningDuties(verb)
  PROVE  verb \in DOMAIN Literals /\ k \in DOMAIN DutyByKey /\ verb # "update_price"
<1>1. verb \in Verbs /\ k \in VerbDuties[verb]
  BY DEF GoverningDuties
<1>2. k \in DOMAIN DutyByKey
  BY <1>1, RosterBoots DEF BootAssertions
<1>3. Verbs \subseteq DOMAIN Literals
  BY DEF Verbs, VerbDuties, Literals
<1>4. VerbDuties["update_price"] = {}
  BY DEF VerbDuties
<1>5. QED BY <1>1, <1>2, <1>3, <1>4

(* However a door's mode is spelt, and if nobody set it, it has one. *)
LEMMA ModeIs ==
  ASSUME NEW modes, \A s \in DOMAIN modes : modes[s] \in Modes, NEW door
  PROVE  ResolveMode(modes, door) \in Modes
<1> DEFINE spelt == Spellings(door)
           known == {i \in DOMAIN spelt : spelt[i] \in DOMAIN modes}
<1>1. DOMAIN spelt \subseteq {1, 2}
  BY DEF Spellings
<1>2. CASE known # {}
  <2>1. Min(known) \in known
    <3>1. known \in {{1}, {2}, {1, 2}} BY <1>1, <1>2
    <3> HIDE DEF known
    <3>2. \E x \in known : \A y \in known : x <= y BY <3>1
    <3>3. QED BY <3>2 DEF Min
  <2>2. QED BY <1>2, <2>1 DEF ResolveMode
<1>3. CASE known = {}
  BY <1>3 DEF ResolveMode, Field, Modes
<1>4. QED BY <1>2, <1>3

LEMMA MinOfThree ==
  ASSUME NEW a \in Int, NEW b \in Int, NEW d \in Int
  PROVE  /\ Min({a, b, d}) \in {a, b, d}
         /\ Min({a, b, d}) <= a /\ Min({a, b, d}) <= b /\ Min({a, b, d}) <= d
<1>1. \E x \in {a, b, d} : \A y \in {a, b, d} : x <= y
  OBVIOUS
<1>2. QED BY <1>1 DEF Min

(* The effective level is the least of the dial, of trust and of the door's mode. *)
LEMMA LevelIs ==
  ASSUME NEW c, ControlsOK(c), NEW door
  PROVE  LET m == ModeCeiling[ResolveMode(c.modes, door)]
             level == EffectiveLevel(c, door)
         IN  /\ m \in {1, 2, 4} /\ level \in Int
             /\ level \in {c.level, c.earned, m}
             /\ level <= c.level /\ level <= c.earned /\ level <= m
             /\ level >= 3 => ResolveMode(c.modes, door) = "autonomous"
<1>1. ResolveMode(c.modes, door) \in Modes
  BY ModeIs DEF ControlsOK
<1> DEFINE m == ModeCeiling[ResolveMode(c.modes, door)]
<1>2. m \in {1, 2, 4} /\ (m >= 3 => ResolveMode(c.modes, door) = "autonomous")
  BY <1>1 DEF Modes, ModeCeiling
<1>3. c.level \in Int /\ c.earned \in Int
  BY DEF ControlsOK
<1>4. EffectiveLevel(c, door) = Min({c.level, c.earned, m})
  BY DEF EffectiveLevel
<1> HIDE DEF m
<1>5. /\ Min({c.level, c.earned, m}) \in {c.level, c.earned, m}
      /\ Min({c.level, c.earned, m}) <= c.level /\ Min({c.level, c.earned, m}) <= c.earned
      /\ Min({c.level, c.earned, m}) <= m
  <2>1. m \in Int BY <1>2
  <2>2. \A a, b, d \in Int :
          /\ Min({a, b, d}) \in {a, b, d}
          /\ Min({a, b, d}) <= a /\ Min({a, b, d}) <= b /\ Min({a, b, d}) <= d
    BY MinOfThree
  <2>3. QED BY <1>3, <2>1, <2>2, Zenon
<1>6. QED BY <1>2, <1>3, <1>4, <1>5 DEF m

LEMMA FieldsAre ==
  ASSUME NEW r \in Requests, NEW key \in Amounts, NEW default \in Int
  PROVE  Field(r.pay, key, default) \in Int
BY DeskAssumption DEF Field

(* Amounts are whole numbers, and a purchase costs its quantity at its price. *)
LEMMA SpendIs ==
  ASSUME NEW r \in Requests
  PROVE  /\ SpendMinor(r) \in Int
         /\ Money(r) = 100 * (Field(r.pay, "quantity", 0) * Field(r.pay, "unitCost", 0))
<1>1. /\ Field(r.pay, "dailyBudget", 0) \in Int /\ Field(r.pay, "previousDailyBudget", 0) \in Int
      /\ Field(r.pay, "quantity", 0) \in Int /\ Field(r.pay, "unitCost", 0) \in Int
  BY FieldsAre DEF Amounts
<1>2. \A q, u \in Int : 100 * q * u = 100 * (q * u) /\ 100 * (q * u) \in Int
  OBVIOUS
<1>3. QED BY <1>1, <1>2 DEF SpendMinor, AtLeast0, Money

-----------------------------------------------------------------------------
(* Acting alone. *)

LEMMA DutyOfIs ==
  ASSUME NEW r \in Requests, NEW k \in r.duty
  PROVE  r.duty = {k} /\ DutyOf(r) = DutyByKey[k]
<1>1. r.duty = {k}
  BY DeskAssumption
<1>2. QED BY <1>1 DEF DutyOf

(* What the level executes went by the dial, the duty's own floor, both caps and the guardrails. *)
LEMMA ExecutedBy ==
  ASSUME NEW c, ControlsOK(c), NEW r \in Requests, NEW w \in Worlds,
         JudgeByLevel(c, r, w).verdict = "execute"
  PROVE  LET level == EffectiveLevel(c, DutyOf(r).door)
         IN  /\ VerdictForLevel(level, RiskClass(r.type)).verdict = "execute"
             /\ ~(DutyOf(r).minLevel > level)
             /\ ~OverDiscount(c, r) /\ ~OverSpend(c, r)
             /\ CheckGuardrails(c, r, w) \notin {"throws", "block", "needs_approval"}
BY DEF JudgeByLevel, Decision

(* A limit that is there is a number, but for the list and the switches. *)
LEMMA LimitIs ==
  ASSUME NEW c, ControlsOK(c), NEW key \in DOMAIN c.bag, key \notin Lists \cup Switches
  PROVE  c.bag[key] \in Int
BY DEF ControlsOK, SettingOK

LEMMA DiscountIsWithin ==
  ASSUME NEW c, ControlsOK(c), NEW r \in Requests, NEW w \in Worlds, ~OverDiscount(c, r),
         CheckGuardrails(c, r, w) \notin {"throws", "block", "needs_approval"}
  PROVE  DiscountWithin(c, r)
<1>1. CASE r.type = "create_discount"
  <2> DEFINE pct == Field(r.pay, "percentOff", 0)
  <2>1. pct \in Int /\ c.maxDiscount \in Int
    BY FieldsAre DEF Amounts, ControlsOK
  <2>2. CheckGuardrails(c, r, w) = DiscountArm(c, r)
    BY <1>1 DEF CheckGuardrails
  <2>3. ASSUME "maxDiscountPct" \in DOMAIN c.bag PROVE pct <= c.bag["maxDiscountPct"]
    <3>1. ~(pct > c.bag["maxDiscountPct"])
      BY <2>2, <2>3 DEF DiscountArm, Field
    <3>2. c.bag["maxDiscountPct"] \in Int
      BY <2>3, LimitIs DEF Lists, Switches
    <3>3. QED BY <2>1, <3>1, <3>2
  <2>4. pct <= c.maxDiscount
    BY <1>1, <2>1 DEF OverDiscount
  <2>5. QED BY <1>1, <2>3, <2>4 DEF DiscountWithin, Under
<1>2. CASE r.type = "offer_chat_discount"
  <2>1. CheckGuardrails(c, r, w) = ChatDiscountArm(c, r)
    BY <1>2 DEF CheckGuardrails
  <2>2. /\ Has(r.pay, "mechanism", "percent") /\ "inbox.maxDiscountPct" \in DOMAIN c.bag
        /\ "percentOff" \in DOMAIN r.pay
        /\ ~(r.pay["percentOff"] > c.bag["inbox.maxDiscountPct"])
        /\ {"customerId", "conversationId"} \cap DOMAIN r.pay # {}
    BY <2>1 DEF ChatDiscountArm
  <2>3. r.pay["percentOff"] \in Int
    BY <2>2, FieldsAre DEF Amounts, Field
  <2>4. c.bag["inbox.maxDiscountPct"] \in Int
    BY <2>2, LimitIs DEF Lists, Switches
  <2>5. QED BY <1>2, <2>2, <2>3, <2>4 DEF DiscountWithin, Under, Field
<1>3. QED BY <1>1, <1>2 DEF DiscountWithin

LEMMA BudgetIsWithin ==
  ASSUME NEW c, ControlsOK(c), NEW r \in Requests, NEW w \in Worlds,
         CheckGuardrails(c, r, w) \notin {"throws", "block", "needs_approval"}
  PROVE  BudgetWithin(c, r, w)
<1> SUFFICES ASSUME r.type = "update_campaign", "dailyBudget" \in DOMAIN r.pay
             PROVE  /\ "maxBudgetChangePct" \in DOMAIN c.bag
                    /\ \E old \in w.campaign :
                         IF old > 0
                         THEN 100 * Abs(r.pay["dailyBudget"] - old) <= c.bag["maxBudgetChangePct"] * old
                         ELSE 100 <= c.bag["maxBudgetChangePct"]
  BY DEF BudgetWithin
<1> DEFINE b == CHOOSE x \in w.campaign : TRUE
           new == r.pay["dailyBudget"]
           share == c.bag["maxBudgetChangePct"]
           change == IF b > 0 THEN 100 * Abs(new - b) ELSE 100
<1>1. /\ "maxBudgetChangePct" \in DOMAIN c.bag /\ w.campaign # {}
      /\ ~(change > share * (IF b > 0 THEN b ELSE 1))
  BY DEF CheckGuardrails, CampaignArm
<1>2. b \in w.campaign /\ b \in Int
  BY <1>1, DeskAssumption
<1>3. new \in Int
  BY FieldsAre DEF Amounts, Field
<1>4. share \in Int
  BY <1>1, LimitIs DEF Lists, Switches
<1> HIDE DEF b, new, share
<1>5. IF b > 0 THEN 100 * Abs(new - b) <= share * b ELSE 100 <= share
  <2>1. 100 * Abs(new - b) \in Int /\ share * b \in Int /\ share * 1 = share
    BY <1>2, <1>3, <1>4 DEF Abs
  <2>2. QED BY <1>1, <1>4, <2>1
<1>6. QED BY <1>1, <1>2, <1>5 DEF b, new, share

LEMMA PriceIsWithin ==
  ASSUME NEW c, ControlsOK(c), NEW r \in Requests, NEW w \in Worlds,
         CheckGuardrails(c, r, w) \notin {"throws", "block", "needs_approval"}
  PROVE  /\ r.type = "update_price" => {"maxPriceChangePct", "minMarginPct"} \subseteq DOMAIN c.bag
         /\ PriceWithin(c, r, w)
<1> SUFFICES ASSUME r.type = "update_price"
             PROVE  /\ {"maxPriceChangePct", "minMarginPct"} \subseteq DOMAIN c.bag
                    /\ \E p \in w.product :
                         LET price == Field(r.pay, "newPrice", 0)
                         IN  /\ 100 * Abs(price - p.price) <= c.bag["maxPriceChangePct"] * p.price
                             /\ c.bag["minMarginPct"] * price <= 100 * (price - p.cost)
  BY DEF PriceWithin
<1> DEFINE q == CHOOSE x \in w.product : TRUE
           new == Field(r.pay, "newPrice", 0)
           share == c.bag["maxPriceChangePct"]
           margin == c.bag["minMarginPct"]
<1>1. /\ {"maxPriceChangePct", "minMarginPct"} \subseteq DOMAIN c.bag /\ w.product # {}
      /\ ~(100 * Abs(new - q.price) > share * q.price)
      /\ ~(100 * (new - q.cost) < margin * new)
  BY DEF CheckGuardrails, PriceArm
<1>2. q \in w.product /\ q.price \in Int /\ q.cost \in Int
  BY <1>1, DeskAssumption
<1>3. new \in Int
  BY FieldsAre DEF Amounts
<1>4. share \in Int /\ margin \in Int
  BY <1>1, LimitIs DEF Lists, Switches
<1> HIDE DEF q, new, share, margin
<1>5. 100 * Abs(new - q.price) <= share * q.price /\ margin * new <= 100 * (new - q.cost)
  <2>1. /\ 100 * Abs(new - q.price) \in Int /\ share * q.price \in Int
        /\ 100 * (new - q.cost) \in Int /\ margin * new \in Int
    BY <1>2, <1>3, <1>4 DEF Abs
  <2>2. QED BY <1>1, <2>1
<1>6. QED BY <1>1, <1>2, <1>5 DEF q, new, share, margin

LEMMA PurchaseIsWithin ==
  ASSUME NEW c, ControlsOK(c), NEW r \in Requests, NEW w \in Worlds,
         r.type = "create_purchase_order",
         CheckGuardrails(c, r, w) \notin {"throws", "block", "needs_approval"}
  PROVE  /\ "maxAutoPurchaseOrderTotal" \in DOMAIN c.bag
         /\ Money(r) <= 100 * c.bag["maxAutoPurchaseOrderTotal"]
<1> DEFINE total == Field(r.pay, "quantity", 0) * Field(r.pay, "unitCost", 0)
           cap == c.bag["maxAutoPurchaseOrderTotal"]
<1>1. "maxAutoPurchaseOrderTotal" \in DOMAIN c.bag /\ total <= cap
  BY DEF CheckGuardrails, PurchaseArm
<1>2. cap \in Int
  BY <1>1, LimitIs DEF Lists, Switches
<1>3. Field(r.pay, "quantity", 0) \in Int /\ Field(r.pay, "unitCost", 0) \in Int
  BY FieldsAre DEF Amounts
<1>4. total \in Int /\ Money(r) = 100 * total
  BY <1>3, SpendIs
<1> HIDE DEF total, cap
<1>5. Money(r) <= 100 * cap
  BY <1>1, <1>2, <1>4
<1>6. QED BY <1>1, <1>5 DEF cap

LEMMA OrderIsWithin ==
  ASSUME NEW c, NEW r \in Requests, NEW w \in Worlds, r.type = "create_order_from_chat",
         CheckGuardrails(c, r, w) \notin {"throws", "block", "needs_approval"}
  PROVE  /\ OrderWithin(c, r, w) /\ Has(c.bag, "inbox.orderAuto", TRUE)
         /\ {"inbox.maxAutoOrder", "inbox.rtoShadowThreshold"} \subseteq DOMAIN c.bag
<1>1. CheckGuardrails(c, r, w) = OrderArm(c, r, w)
  BY DEF CheckGuardrails
<1>2. QED BY <1>1 DEF OrderArm, OrderWithin

LEMMA ReplyIsWithin ==
  ASSUME NEW c, NEW r \in Requests, NEW w \in Worlds, r.type = "send_inbox_reply",
         CheckGuardrails(c, r, w) \notin {"throws", "block", "needs_approval"}
  PROVE  ReplyWithin(c, r, w) /\ "inbox.autoIntents" \in DOMAIN c.bag
<1> DEFINE t == CHOOSE x \in w.thread : TRUE
<1>1. CheckGuardrails(c, r, w) = ReplyArm(c, r, w)
  BY DEF CheckGuardrails
<1>2. /\ ~Has(r.pay, "purpose", "escalation_draft") /\ w.thread # {}
      /\ Field(r.pay, "intent", "unclassified") \in Field(c.bag, "inbox.autoIntents", {})
      /\ t.novaEnabled /\ ~t.held
  BY <1>1 DEF ReplyArm
<1>3. "inbox.autoIntents" \in DOMAIN c.bag
      /\ Field(c.bag, "inbox.autoIntents", {}) = c.bag["inbox.autoIntents"]
  BY <1>2 DEF Field
<1>4. t \in w.thread
  BY <1>2
<1>5. QED BY <1>2, <1>3, <1>4 DEF ReplyWithin

(* The tables, row by row. *)
LEMMA Tables ==
  /\ DOMAIN SwitchOf = {"create_order_from_chat", "offer_chat_discount", "cancel_order_from_chat",
                        "update_order_contact", "send_customer_message"}
  /\ SwitchOf["create_order_from_chat"] = "inbox.orderAuto"
  /\ SwitchOf["offer_chat_discount"] = "inbox.discountAuto"
  /\ SwitchOf["cancel_order_from_chat"] = "inbox.cancelAuto"
  /\ SwitchOf["update_order_contact"] = "inbox.addressEditAuto"
  /\ SwitchOf["send_customer_message"] = "outbound.customerMessageAuto"
  /\ DOMAIN LimitsOf = {"send_inbox_reply", "create_order_from_chat", "offer_chat_discount",
                        "create_purchase_order", "update_price"}
  /\ LimitsOf["send_inbox_reply"] = {"inbox.autoIntents"}
  /\ LimitsOf["create_order_from_chat"] = {"inbox.maxAutoOrder", "inbox.rtoShadowThreshold"}
  /\ LimitsOf["offer_chat_discount"] = {"inbox.maxDiscountPct", "inbox.discountPerCustomerDays"}
  /\ LimitsOf["create_purchase_order"] = {"maxAutoPurchaseOrderTotal"}
  /\ LimitsOf["update_price"] = {"maxPriceChangePct", "minMarginPct"}
BY DEF SwitchOf, LimitsOf

(* What no cap and no guardrail stops is within every limit that was set. *)
LEMMA AllowedWithin ==
  ASSUME NEW c, ControlsOK(c), NEW r \in Requests, NEW w \in Worlds,
         ~OverDiscount(c, r), ~OverSpend(c, r),
         CheckGuardrails(c, r, w) \notin {"throws", "block", "needs_approval"}
  PROVE  WithinLimits(c, r, w)
<1> DEFINE platform == CheckGuardrails(c, r, w)
           limited == DOMAIN LimitsOf
           switched == DOMAIN SwitchOf
<1>0. {c.spendCap, c.spent} \subseteq Int
  BY DEF ControlsOK
<1>1. SpendMinor(r) > 0 => c.spent + SpendMinor(r) <= c.spendCap
  BY <1>0, SpendIs DEF OverSpend
<1>3. r.type \in switched \cup limited \cup NoGuardrailNeeded \cup {"create_discount", "update_campaign"}
  <2>1. ASSUME r.type \notin switched \cup limited \cup {"create_discount", "update_campaign"}
        PROVE  r.type \in NoGuardrailNeeded
    <3>1. platform = IF r.type \in NoGuardrailNeeded THEN "allow" ELSE "needs_approval"
      BY <2>1, Tables DEF CheckGuardrails
    <3>2. QED BY <3>1
  <2>2. QED BY <2>1
<1>4. ASSUME r.type \in switched PROVE Has(c.bag, SwitchOf[r.type], TRUE)
  <2>1. CASE r.type = "create_order_from_chat"
    <3>1. Has(c.bag, "inbox.orderAuto", TRUE)
      BY <2>1, OrderIsWithin
    <3>2. QED BY <2>1, <3>1, Tables
  <2>2. CASE r.type = "offer_chat_discount"
    <3>1. Has(c.bag, "inbox.discountAuto", TRUE)
      BY <2>2 DEF CheckGuardrails, ChatDiscountArm
    <3>2. QED BY <2>2, <3>1, Tables
  <2>3. CASE r.type = "cancel_order_from_chat"
    <3>1. Has(c.bag, "inbox.cancelAuto", TRUE)
      BY <2>3 DEF CheckGuardrails, SwitchArm
    <3>2. QED BY <2>3, <3>1, Tables
  <2>4. CASE r.type = "update_order_contact"
    <3>1. Has(c.bag, "inbox.addressEditAuto", TRUE)
      BY <2>4 DEF CheckGuardrails, SwitchArm
    <3>2. QED BY <2>4, <3>1, Tables
  <2>5. CASE r.type = "send_customer_message"
    <3>1. Has(c.bag, "outbound.customerMessageAuto", TRUE)
      BY <2>5 DEF CheckGuardrails, MessageArm
    <3>2. QED BY <2>5, <3>1, Tables
  <2>6. QED BY <1>4, <2>1, <2>2, <2>3, <2>4, <2>5, Tables
<1>5. ASSUME r.type \in limited PROVE LimitsOf[r.type] \subseteq DOMAIN c.bag
  <2>1. CASE r.type = "send_inbox_reply"
    BY <2>1, ReplyIsWithin, Tables
  <2>2. CASE r.type = "create_order_from_chat"
    <3>1. {"inbox.maxAutoOrder", "inbox.rtoShadowThreshold"} \subseteq DOMAIN c.bag
      BY <2>2, OrderIsWithin
    <3>2. QED BY <2>2, <3>1, Tables
  <2>3. CASE r.type = "offer_chat_discount"
    <3>1. {"inbox.maxDiscountPct", "inbox.discountPerCustomerDays"} \subseteq DOMAIN c.bag
      BY <2>3 DEF CheckGuardrails, ChatDiscountArm
    <3>2. QED BY <2>3, <3>1, Tables
  <2>4. CASE r.type = "create_purchase_order"
    BY <2>4, PurchaseIsWithin, Tables
  <2>5. CASE r.type = "update_price"
    BY <2>5, PriceIsWithin, Tables
  <2>6. QED BY <1>5, <2>1, <2>2, <2>3, <2>4, <2>5, Tables
<1>6. r.type = "create_purchase_order" => Money(r) <= 100 * c.bag["maxAutoPurchaseOrderTotal"]
  BY PurchaseIsWithin
<1>7. r.type = "send_customer_message" => "customerId" \in DOMAIN r.pay
  BY DEF CheckGuardrails, MessageArm
<1>8. DiscountWithin(c, r) /\ BudgetWithin(c, r, w) /\ PriceWithin(c, r, w)
  BY DiscountIsWithin, BudgetIsWithin, PriceIsWithin
<1>9. OrderWithin(c, r, w) /\ ReplyWithin(c, r, w)
  <2>1. OrderWithin(c, r, w)
    BY OrderIsWithin DEF OrderWithin
  <2>2. ReplyWithin(c, r, w)
    BY ReplyIsWithin DEF ReplyWithin
  <2>3. QED BY <2>1, <2>2
<1>10. QED BY <1>1, <1>3, <1>4, <1>5, <1>6, <1>7, <1>8, <1>9 DEF WithinLimits

(* A duty that may act at its level is trusted, and is shown as active. *)
LEMMA TrustedIs ==
  ASSUME NEW c, ControlsOK(c), NEW r, NEW k \in DOMAIN DutyByKey,
         LET level == EffectiveLevel(c, DutyByKey[k].door)
         IN  /\ VerdictForLevel(level, RiskClass(r.type)).verdict = "execute"
             /\ ~(DutyByKey[k].minLevel > level)
  PROVE  Trusted(c, r, k) /\ (Kept(c, k).enabled => ShownAs(c, k) = "ACTIVE")
<1> DEFINE door == DutyByKey[k].door
           level == EffectiveLevel(c, door)
           need == IF RiskClass(r.type) = "low" THEN 3 ELSE 4
<1>1. /\ level \in Int /\ c.level \in Int /\ c.earned \in Int
      /\ level <= c.level /\ level <= c.earned
      /\ level >= 3 => ResolveMode(c.modes, door) = "autonomous"
  BY LevelIs DEF ControlsOK
<1>2. DutyByKey[k].minLevel \in Int /\ door \in Doors
  BY DutyIs
<1>3. level >= need /\ need \in {3, 4}
  BY <1>1 DEF VerdictForLevel, Decision
<1>4. DutyByKey[k].minLevel <= level
  BY <1>1, <1>2
<1>5. Trusted(c, r, k)
  BY <1>1, <1>2, <1>3, <1>4 DEF Trusted
<1>6. ASSUME Kept(c, k).enabled PROVE ShownAs(c, k) = "ACTIVE"
  BY <1>2, <1>4, <1>6 DEF ShownAs, DutyStatus
<1>7. QED BY <1>5, <1>6

(* What is judged "execute" passed every rung. *)
LEMMA ExecutePassed ==
  ASSUME NEW c, NEW r, NEW w, EvaluateAuthority(c, r, w).verdict = "execute"
  PROVE  /\ r.type \notin FounderOnly \cup AlwaysDraft
         /\ ~Unverifiable(c, r) /\ ~Locked(c, r)
         /\ \A k \in r.duty : Kept(c, k).enabled
         /\ r.type \in NeverGated \/ JudgeByLevel(c, r, w).verdict = "execute"
<1>1. NeverGated \cap AlwaysDraft = {}
  BY DEF NeverGated, AlwaysDraft
<1>2. /\ w.authority /\ r.type \notin FounderOnly /\ ~Unverifiable(c, r) /\ ~Locked(c, r)
      /\ r.duty \subseteq DOMAIN DutyByKey
      /\ ~(\E k \in r.duty : ~Kept(c, k).enabled) /\ ~(\E k \in r.duty : ~Kept(c, k).doorExists)
  BY DEF EvaluateAuthority, Decision
<1>3. CASE r.type \in NeverGated
  BY <1>1, <1>2, <1>3
<1>4. CASE r.type \notin NeverGated
  <2>1. EvaluateAuthority(c, r, w) =
          IF r.type \in AlwaysDraft THEN Decision("draft", "always_draft", FALSE)
          ELSE JudgeByLevel(c, r, w)
    BY <1>2, <1>4 DEF EvaluateAuthority
  <2>2. r.type \notin AlwaysDraft
    BY <2>1 DEF Decision
  <2>3. QED BY <1>2, <2>1, <2>2
<1>5. QED BY <1>3, <1>4

(***************************************************************************)
(* evaluateAuthority and the lanes' own bindings say "execute" only within *)
(* every control: nothing reserved for the founder, no lock that matches,  *)
(* every duty enabled, trusted and shown as active, every limit kept.      *)
(***************************************************************************)
THEOREM ActsAloneIsAllowed == DeskSpec => []ActsAloneOnlyWithinEveryControl
<1>1. DeskTypeOK => ActsAloneOnlyWithinEveryControl
  <2> SUFFICES ASSUME ControlsOK(controls), NEW r \in Requests, NEW w \in Worlds, NEW lane \in Lanes,
                      Judged(controls, r, w, lane).verdict = "execute"
               PROVE  /\ r.type \notin FounderOnly \cup AlwaysDraft
                      /\ \A lock \in controls.locks :
                            lock = {} \/ \A text \in TargetText(r) : lock \ text # {}
                      /\ \E k \in r.duty :
                           /\ k \in GoverningDuties(r.type)
                           /\ lane = "front_office" \/ k \in LaneDuties[lane]
                           /\ Kept(controls, k).enabled
                           /\ \/ r.type \in NeverGated
                              \/ /\ Trusted(controls, r, k) /\ WithinLimits(controls, r, w)
                                 /\ ShownAs(controls, k) = "ACTIVE"
    BY DEF DeskTypeOK, ActsAloneOnlyWithinEveryControl
  <2>1. PICK k \in r.duty : DutyBinding(r.type, k, lane)
    BY DEF Judged, Decision
  <2>2. EvaluateAuthority(controls, r, w).verdict = "execute"
    BY <2>1 DEF Judged
  <2>3. /\ r.type \notin FounderOnly \cup AlwaysDraft
        /\ ~Unverifiable(controls, r) /\ ~Locked(controls, r)
        /\ Kept(controls, k).enabled
        /\ r.type \in NeverGated \/ JudgeByLevel(controls, r, w).verdict = "execute"
    BY <2>2, ExecutePassed
  <2>4. \A lock \in controls.locks : lock = {} \/ \A text \in TargetText(r) : lock \ text # {}
    BY <2>3 DEF Locked, LockMatches
  <2>5. k \in GoverningDuties(r.type) /\ (lane = "front_office" \/ k \in LaneDuties[lane])
    BY <2>1 DEF DutyBinding, DutyInLane
  <2>6. ASSUME r.type \notin NeverGated
        PROVE  /\ Trusted(controls, r, k) /\ WithinLimits(controls, r, w)
               /\ ShownAs(controls, k) = "ACTIVE"
    <3>1. DutyOf(r) = DutyByKey[k] /\ k \in DOMAIN DutyByKey
      BY <2>5, DutyOfIs, Governed
    <3>2. LET level == EffectiveLevel(controls, DutyOf(r).door)
          IN  /\ VerdictForLevel(level, RiskClass(r.type)).verdict = "execute"
              /\ ~(DutyOf(r).minLevel > level)
              /\ ~OverDiscount(controls, r) /\ ~OverSpend(controls, r)
              /\ CheckGuardrails(controls, r, w) \notin {"throws", "block", "needs_approval"}
      BY <2>3, <2>6, ExecutedBy
    <3>3. WithinLimits(controls, r, w)
      BY <3>1, <3>2, AllowedWithin
    <3>4. Trusted(controls, r, k) /\ ShownAs(controls, k) = "ACTIVE"
      BY <2>3, <3>1, <3>2, TrustedIs
    <3>5. QED BY <3>3, <3>4
  <2>7. QED BY <2>3, <2>4, <2>5, <2>6
<1>2. QED BY <1>1, DeskTyped, PTL

(***************************************************************************)
(* escalate_to_human is never refused once the authority can be read: no   *)
(* level, mode, lock or switch stands between a customer and a person.     *)
(***************************************************************************)
THEOREM AHumanIsInReach == DeskSpec => []AHumanIsAlwaysInReach
<1>1. AHumanIsAlwaysInReach
  <2> DEFINE k == "support.inbox_escalations"
  <2> SUFFICES ASSUME NEW r \in Requests, NEW w \in Worlds,
                      r.type = "escalate_conversation", r.duty = {k}, w.authority,
                      ~Locked(controls, r),
                      Kept(controls, k) = [enabled |-> TRUE, doorExists |-> TRUE]
               PROVE  Judged(controls, r, w, "front_office").verdict = "execute"
    BY DEF AHumanIsAlwaysInReach
  <2>1. k \in GoverningDuties(r.type)
    BY DEF GoverningDuties, Verbs, VerbDuties
  <2>2. Judged(controls, r, w, "front_office") = EvaluateAuthority(controls, r, w)
    BY <2>1 DEF Judged, DutyBinding
  <2>3. r.type \notin FounderOnly /\ r.type \in NeverGated
    BY DEF FounderOnly, NeverGated
  <2>4. ~Unverifiable(controls, r)
    BY DEF Unverifiable, TargetText, Literals
  <2>5. r.duty \subseteq DOMAIN DutyByKey
    BY <2>1, Governed
  <2>6. ~(\E d \in r.duty : ~Kept(controls, d).enabled) /\ ~(\E d \in r.duty : ~Kept(controls, d).doorExists)
    OBVIOUS
  <2>7. EvaluateAuthority(controls, r, w) = Decision("execute", "never_gated", FALSE)
    BY <2>3, <2>4, <2>5, <2>6 DEF EvaluateAuthority
  <2>8. QED BY <2>2, <2>7 DEF Decision
<1>2. QED BY <1>1, PTL

-----------------------------------------------------------------------------
(* Turning any control down. *)

(* Tighter controls keep no duty more on, no cap higher, no switch more open, no intent more. *)
LEMMA TighterKept ==
  ASSUME NEW a, NEW b, Tighter(b, a), NEW k
  PROVE  /\ Kept(b, k).enabled => Kept(a, k).enabled
         /\ Kept(b, k).doorExists => Kept(a, k).doorExists
BY DEF Tighter, Kept, Field

LEMMA TighterCap ==
  ASSUME NEW a, NEW b, ControlsOK(a), ControlsOK(b), Tighter(b, a), NEW key \in DOMAIN b.bag,
         key \notin Lists, key \notin Switches, key \notin Floors
  PROVE  /\ key \in DOMAIN a.bag /\ b.bag[key] \in Int /\ a.bag[key] \in Int
         /\ b.bag[key] <= a.bag[key]
<1>1. key \in DOMAIN a.bag
  BY DEF Tighter
<1>2. b.bag[key] \in Int /\ a.bag[key] \in Int
  BY <1>1 DEF ControlsOK, SettingOK
<1>3. NoLooser(key, b.bag[key], a.bag[key])
  BY <1>1 DEF Tighter
<1>4. b.bag[key] <= a.bag[key]
  BY <1>3 DEF NoLooser
<1>5. QED BY <1>1, <1>2, <1>4

LEMMA TighterSwitch ==
  ASSUME NEW a, NEW b, ControlsOK(a), ControlsOK(b), Tighter(b, a), NEW key \in Switches,
         Has(b.bag, key, TRUE)
  PROVE  Has(a.bag, key, TRUE)
<1>1. key \in DOMAIN a.bag /\ key \in DOMAIN b.bag /\ b.bag[key] = TRUE
  BY DEF Tighter, Has
<1>2. key \notin Lists
  BY DEF Lists, Switches
<1>3. a.bag[key] \in BOOLEAN
  BY <1>1, <1>2 DEF ControlsOK, SettingOK
<1>4. NoLooser(key, b.bag[key], a.bag[key])
  BY <1>1 DEF Tighter
<1>5. key \notin Floors
  BY DEF Floors, Switches
<1>6. a.bag[key] = TRUE
  BY <1>1, <1>2, <1>3, <1>4, <1>5 DEF NoLooser
<1>7. QED BY <1>1, <1>6 DEF Has

LEMMA TighterIntents ==
  ASSUME NEW a, NEW b, Tighter(b, a)
  PROVE  Field(b.bag, "inbox.autoIntents", {}) \subseteq Field(a.bag, "inbox.autoIntents", {})
<1> DEFINE key == "inbox.autoIntents"
<1>1. CASE key \in DOMAIN a.bag
  <2>1. key \in DOMAIN b.bag
    BY <1>1 DEF Tighter
  <2>2. NoLooser(key, b.bag[key], a.bag[key])
    BY <1>1 DEF Tighter
  <2>3. key \in Lists /\ key \notin Switches /\ key \notin Floors
    BY DEF Lists, Switches, Floors
  <2>4. b.bag[key] \subseteq a.bag[key]
    BY <2>2, <2>3 DEF NoLooser
  <2>5. QED BY <1>1, <2>1, <2>4 DEF Field
<1>2. CASE key \notin DOMAIN a.bag
  BY <1>2 DEF Tighter, Field
<1>3. QED BY <1>1, <1>2

LEMMA TimesMonotone ==
  ASSUME NEW x \in Int, NEW y \in Int, NEW n \in Nat, x <= y
  PROVE  x * n <= y * n
<1>1. n * (y - x) >= 0
  OBVIOUS
<1>2. n * (y - x) = y * n - x * n
  OBVIOUS
<1>3. x * n \in Int /\ y * n \in Int
  OBVIOUS
<1>4. QED BY <1>1, <1>2, <1>3

(* What a guardrail says under tighter controls, y, and said before, x. *)
Narrower(y, x) ==
  /\ y = "allow" => x \in {"allow", "throws"}
  /\ y = "needs_approval" => x # "block"

(* What a guardrail allows under tighter controls it allowed before. *)
LEMMA PlatformTightens ==
  ASSUME NEW a, NEW b, ControlsOK(a), ControlsOK(b), Tighter(b, a),
         NEW r \in Requests, NEW w \in Worlds, r.type # "update_price"
  PROVE  /\ CheckGuardrails(b, r, w) = "allow" => CheckGuardrails(a, r, w) \in {"allow", "throws"}
         /\ r.type # "send_inbox_reply" => Narrower(CheckGuardrails(b, r, w), CheckGuardrails(a, r, w))
<1>0. DOMAIN b.bag = DOMAIN a.bag
  BY DEF Tighter
<1>1. CASE r.type = "create_discount"
  <2> DEFINE key == "maxDiscountPct"
             pct == Field(r.pay, "percentOff", 0)
  <2>1. pct \in Int
    BY FieldsAre DEF Amounts
  <2>2. CASE key \in DOMAIN b.bag
    <3>1. b.bag[key] \in Int /\ a.bag[key] \in Int /\ b.bag[key] <= a.bag[key]
      BY <2>2, TighterCap DEF Lists, Switches, Floors
    <3>2. pct > a.bag[key] => pct > b.bag[key]
      BY <2>1, <3>1
    <3>3. Field(b.bag, key, pct) = b.bag[key] /\ Field(a.bag, key, pct) = a.bag[key]
      BY <1>0, <2>2 DEF Field
    <3>4. Narrower(DiscountArm(b, r), DiscountArm(a, r))
      BY <3>2, <3>3 DEF Narrower, DiscountArm
    <3>5. QED BY <1>1, <3>4 DEF CheckGuardrails, Narrower
  <2>3. CASE key \notin DOMAIN b.bag
    <3>1. DiscountArm(b, r) = DiscountArm(a, r) /\ DiscountArm(b, r) \in {"block", "allow"}
      BY <1>0, <2>3 DEF DiscountArm, Field
    <3>2. QED BY <1>1, <3>1 DEF CheckGuardrails, Narrower
  <2>4. QED BY <2>2, <2>3
<1>2. CASE r.type = "update_campaign"
  <2> DEFINE key == "maxBudgetChangePct"
             base == CHOOSE x \in w.campaign : TRUE
             change == IF base > 0 THEN 100 * Abs(r.pay["dailyBudget"] - base) ELSE 100
             per == IF base > 0 THEN base ELSE 1
  <2>1. CASE "dailyBudget" \in DOMAIN r.pay /\ key \in DOMAIN b.bag /\ w.shelf /\ w.campaign # {}
    <3>1. b.bag[key] \in Int /\ a.bag[key] \in Int /\ b.bag[key] <= a.bag[key]
      BY <2>1, TighterCap DEF Lists, Switches, Floors
    <3>2. base \in Int
      BY <2>1, DeskAssumption
    <3>3. r.pay["dailyBudget"] \in Int
      BY <2>1, FieldsAre DEF Amounts, Field
    <3>4. Abs(r.pay["dailyBudget"] - base) \in Int
      BY <3>2, <3>3 DEF Abs
    <3>5. change \in Int /\ per \in Nat
      BY <3>2, <3>4
    <3>6. /\ CampaignArm(b, r, w) = IF change > b.bag[key] * per THEN "needs_approval" ELSE "allow"
          /\ CampaignArm(a, r, w) = IF change > a.bag[key] * per THEN "needs_approval" ELSE "allow"
      BY <1>0, <2>1 DEF CampaignArm
    <3> HIDE DEF change, per, base
    <3>7. b.bag[key] * per <= a.bag[key] * per /\ b.bag[key] * per \in Int /\ a.bag[key] * per \in Int
      BY <3>1, <3>5, TimesMonotone
    <3>8. change > a.bag[key] * per => change > b.bag[key] * per
      BY <3>5, <3>7
    <3>9. Narrower(CampaignArm(b, r, w), CampaignArm(a, r, w))
      BY <3>6, <3>8 DEF Narrower
    <3>10. QED BY <1>2, <3>9 DEF CheckGuardrails, Narrower
  <2>2. CASE ~("dailyBudget" \in DOMAIN r.pay /\ key \in DOMAIN b.bag /\ w.shelf /\ w.campaign # {})
    <3>1. /\ CampaignArm(b, r, w) = CampaignArm(a, r, w)
      BY <1>0, <2>2 DEF CampaignArm
    <3>2. QED BY <1>2, <3>1 DEF CheckGuardrails, Narrower
  <2>3. QED BY <2>1, <2>2
<1>3. CASE r.type = "send_inbox_reply"
  <2>1. CheckGuardrails(b, r, w) = ReplyArm(b, r, w) /\ CheckGuardrails(a, r, w) = ReplyArm(a, r, w)
    BY <1>3 DEF CheckGuardrails
  <2>2. ReplyArm(b, r, w) = "allow" => ReplyArm(a, r, w) = "allow"
    BY TighterIntents DEF ReplyArm
  <2>3. QED BY <1>3, <2>1, <2>2
<1>4. CASE r.type = "create_order_from_chat"
  <2> DEFINE total == EstimateChatOrderTotal(r, w)
  <2>1. CheckGuardrails(b, r, w) = OrderArm(b, r, w) /\ CheckGuardrails(a, r, w) = OrderArm(a, r, w)
    BY <1>4 DEF CheckGuardrails
  <2>2. OrderArm(b, r, w) \in {"allow", "needs_approval"} /\ OrderArm(a, r, w) \in {"allow", "needs_approval"}
    BY DEF OrderArm
  <2>3. ASSUME OrderArm(b, r, w) = "allow" PROVE OrderArm(a, r, w) = "allow"
    <3>1. /\ Has(b.bag, "inbox.orderAuto", TRUE) /\ Has(r.pay, "confirmedByCustomer", TRUE)
          /\ {"inbox.maxAutoOrder", "inbox.rtoShadowThreshold"} \subseteq DOMAIN b.bag
          /\ \E t \in total : t <= b.bag["inbox.maxAutoOrder"]
          /\ \E n \in w.rto : n < b.bag["inbox.rtoShadowThreshold"]
      BY <2>3 DEF OrderArm
    <3>2. Has(a.bag, "inbox.orderAuto", TRUE)
      BY <3>1, TighterSwitch DEF Switches
    <3>3. /\ b.bag["inbox.maxAutoOrder"] <= a.bag["inbox.maxAutoOrder"]
          /\ b.bag["inbox.maxAutoOrder"] \in Int /\ a.bag["inbox.maxAutoOrder"] \in Int
      BY <3>1, TighterCap DEF Lists, Switches, Floors
    <3>4. /\ b.bag["inbox.rtoShadowThreshold"] <= a.bag["inbox.rtoShadowThreshold"]
          /\ b.bag["inbox.rtoShadowThreshold"] \in Int /\ a.bag["inbox.rtoShadowThreshold"] \in Int
      BY <3>1, TighterCap DEF Lists, Switches, Floors
    <3>5. total \subseteq Int /\ w.rto \subseteq Int
      BY DeskAssumption
    <3>6. (\E t \in total : t <= a.bag["inbox.maxAutoOrder"])
      BY <3>1, <3>3, <3>5
    <3>7. \E n \in w.rto : n < a.bag["inbox.rtoShadowThreshold"]
      BY <3>1, <3>4, <3>5
    <3>8. QED BY <1>0, <3>1, <3>2, <3>6, <3>7 DEF OrderArm
  <2>4. QED BY <2>1, <2>2, <2>3 DEF Narrower
<1>5. CASE r.type = "offer_chat_discount"
  <2> DEFINE key == "inbox.maxDiscountPct"
  <2>1. CheckGuardrails(b, r, w) = ChatDiscountArm(b, r) /\ CheckGuardrails(a, r, w) = ChatDiscountArm(a, r)
    BY <1>5 DEF CheckGuardrails
  <2>2. Has(b.bag, "inbox.discountAuto", TRUE) => Has(a.bag, "inbox.discountAuto", TRUE)
    BY TighterSwitch DEF Switches
  <2>3. CASE key \in DOMAIN b.bag /\ "percentOff" \in DOMAIN r.pay
    <3>1. b.bag[key] \in Int /\ a.bag[key] \in Int /\ b.bag[key] <= a.bag[key]
      BY <2>3, TighterCap DEF Lists, Switches, Floors
    <3>2. r.pay["percentOff"] \in Int
      BY <2>3, FieldsAre DEF Amounts, Field
    <3>3. r.pay["percentOff"] > a.bag[key] => r.pay["percentOff"] > b.bag[key]
      BY <3>1, <3>2
    <3>4. Narrower(ChatDiscountArm(b, r), ChatDiscountArm(a, r))
      BY <1>0, <2>2, <2>3, <3>3 DEF Narrower, ChatDiscountArm
    <3>5. QED BY <2>1, <3>4 DEF Narrower
  <2>4. CASE ~(key \in DOMAIN b.bag /\ "percentOff" \in DOMAIN r.pay)
    <3>1. ChatDiscountArm(b, r) = ChatDiscountArm(a, r) /\ ChatDiscountArm(b, r) \in {"block", "needs_approval"}
      BY <1>0, <2>4 DEF ChatDiscountArm
    <3>2. QED BY <2>1, <3>1 DEF Narrower
  <2>5. QED BY <2>3, <2>4
<1>6. CASE r.type = "create_purchase_order"
  <2> DEFINE key == "maxAutoPurchaseOrderTotal"
             total == Field(r.pay, "quantity", 0) * Field(r.pay, "unitCost", 0)
  <2>1. CheckGuardrails(b, r, w) = PurchaseArm(b, r) /\ CheckGuardrails(a, r, w) = PurchaseArm(a, r)
    BY <1>6 DEF CheckGuardrails
  <2>2. CASE key \in DOMAIN b.bag
    <3>1. b.bag[key] \in Int /\ a.bag[key] \in Int /\ b.bag[key] <= a.bag[key]
      BY <2>2, TighterCap DEF Lists, Switches, Floors
    <3>2. Field(r.pay, "quantity", 0) \in Int /\ Field(r.pay, "unitCost", 0) \in Int
      BY FieldsAre DEF Amounts
    <3>3. total \in Int
      BY <3>2
    <3>4. PurchaseArm(b, r) = (IF key \in DOMAIN b.bag /\ total <= b.bag[key] THEN "allow" ELSE "needs_approval")
          /\ PurchaseArm(a, r) = (IF key \in DOMAIN a.bag /\ total <= a.bag[key] THEN "allow" ELSE "needs_approval")
      BY DEF PurchaseArm
    <3> HIDE DEF total
    <3>5. total <= b.bag[key] => total <= a.bag[key]
      BY <3>1, <3>3
    <3>6. Narrower(PurchaseArm(b, r), PurchaseArm(a, r))
      BY <1>0, <2>2, <3>4, <3>5 DEF Narrower
    <3>7. QED BY <2>1, <3>6 DEF Narrower
  <2>3. CASE key \notin DOMAIN b.bag
    <3>1. PurchaseArm(b, r) = "needs_approval" /\ PurchaseArm(a, r) = "needs_approval"
      BY <1>0, <2>3 DEF PurchaseArm
    <3>2. QED BY <2>1, <3>1 DEF Narrower
  <2>4. QED BY <2>2, <2>3
<1>7. CASE r.type = "send_customer_message"
  <2>1. CheckGuardrails(b, r, w) = MessageArm(b, r) /\ CheckGuardrails(a, r, w) = MessageArm(a, r)
    BY <1>7 DEF CheckGuardrails
  <2>2. Has(b.bag, "outbound.customerMessageAuto", TRUE) => Has(a.bag, "outbound.customerMessageAuto", TRUE)
    BY TighterSwitch DEF Switches
  <2>3. QED BY <2>1, <2>2 DEF MessageArm, Narrower
<1>8. ASSUME NEW key \in Switches
      PROVE  Narrower(SwitchArm(b, key), SwitchArm(a, key))
  BY TighterSwitch DEF SwitchArm, Narrower
<1>9. CASE r.type = "cancel_order_from_chat"
  <2>1. /\ CheckGuardrails(b, r, w) = SwitchArm(b, "inbox.cancelAuto")
        /\ CheckGuardrails(a, r, w) = SwitchArm(a, "inbox.cancelAuto")
    BY <1>9 DEF CheckGuardrails
  <2>2. QED BY <1>8, <2>1 DEF Switches, Narrower
<1>10. CASE r.type = "update_order_contact"
  <2>1. /\ CheckGuardrails(b, r, w) = SwitchArm(b, "inbox.addressEditAuto")
        /\ CheckGuardrails(a, r, w) = SwitchArm(a, "inbox.addressEditAuto")
    BY <1>10 DEF CheckGuardrails
  <2>2. QED BY <1>8, <2>1 DEF Switches, Narrower
<1>11. CASE r.type \notin {"create_discount", "update_price", "update_campaign", "send_inbox_reply",
                           "create_order_from_chat", "offer_chat_discount", "create_purchase_order",
                           "send_customer_message", "cancel_order_from_chat", "update_order_contact"}
  <2> DEFINE other == IF r.type \in NoGuardrailNeeded THEN "allow" ELSE "needs_approval"
  <2>1. CheckGuardrails(b, r, w) = other /\ CheckGuardrails(a, r, w) = other
    BY <1>11 DEF CheckGuardrails
  <2>2. QED BY <2>1 DEF Narrower
<1>12. QED BY <1>1, <1>2, <1>3, <1>4, <1>5, <1>6, <1>7, <1>9, <1>10, <1>11

(* No mode turned down raises a door's level. *)
LEMMA CeilingTightens ==
  ASSUME NEW a, NEW b, ControlsOK(a), ControlsOK(b), Tighter(b, a), NEW door
  PROVE  EffectiveLevel(b, door) <= EffectiveLevel(a, door)
<1> DEFINE ma == ModeCeiling[ResolveMode(a.modes, door)]
           mb == ModeCeiling[ResolveMode(b.modes, door)]
           spelt == Spellings(door)
           known(c) == {i \in DOMAIN spelt : spelt[i] \in DOMAIN c.modes}
<1>1. DOMAIN b.modes = DOMAIN a.modes /\ \A s \in DOMAIN a.modes : ModeCeiling[b.modes[s]] <= ModeCeiling[a.modes[s]]
  BY DEF Tighter
<1>2. known(a) = known(b)
  BY <1>1
<1>3. mb <= ma
  <2>1. CASE known(a) # {}
    <3>1. Min(known(a)) \in known(a)
      <4>1. known(a) \in {{1}, {2}, {1, 2}} BY <2>1 DEF Spellings
      <4> HIDE DEF known
      <4>2. \E x \in known(a) : \A y \in known(a) : x <= y BY <4>1
      <4>3. QED BY <4>2 DEF Min
    <3>2. /\ ResolveMode(a.modes, door) = a.modes[spelt[Min(known(a))]]
          /\ ResolveMode(b.modes, door) = b.modes[spelt[Min(known(a))]]
      BY <1>2, <2>1 DEF ResolveMode
    <3>3. spelt[Min(known(a))] \in DOMAIN a.modes
      BY <3>1
    <3>4. QED BY <1>1, <3>2, <3>3
  <2>2. CASE known(a) = {} /\ "store" \in DOMAIN a.modes
    <3>1. /\ ResolveMode(a.modes, door) = a.modes["store"]
          /\ ResolveMode(b.modes, door) = b.modes["store"]
      BY <1>1, <1>2, <2>2 DEF ResolveMode, Field
    <3>2. QED BY <1>1, <2>2, <3>1
  <2>3. CASE known(a) = {} /\ "store" \notin DOMAIN a.modes
    <3>1. ResolveMode(a.modes, door) = "assisted" /\ ResolveMode(b.modes, door) = "assisted"
      BY <1>1, <1>2, <2>3 DEF ResolveMode, Field
    <3>2. QED BY <3>1 DEF ModeCeiling
  <2>4. QED BY <2>1, <2>2, <2>3
<1>4. /\ ma \in Int /\ EffectiveLevel(a, door) \in {a.level, a.earned, ma}
      /\ a.level \in Int /\ a.earned \in Int
  BY LevelIs DEF ControlsOK
<1>5. /\ mb \in Int /\ EffectiveLevel(b, door) \in Int
      /\ b.level \in Int /\ b.earned \in Int
      /\ EffectiveLevel(b, door) <= b.level /\ EffectiveLevel(b, door) <= b.earned
      /\ EffectiveLevel(b, door) <= mb
  BY LevelIs DEF ControlsOK
<1>6. b.level <= a.level /\ b.earned <= a.earned
  BY DEF Tighter
<1> HIDE DEF ma, mb
<1>7. QED BY <1>3, <1>4, <1>5, <1>6

LEMMA VerdictFalls ==
  ASSUME NEW n \in Int, NEW m \in Int, n <= m, NEW risk
  PROVE  LET low == VerdictForLevel(n, risk).verdict
             high == VerdictForLevel(m, risk).verdict
         IN  /\ low \in {"refuse", "suggest", "draft", "execute"}
             /\ high \in {"refuse", "suggest", "draft", "execute"}
             /\ Reach[low] <= Reach[high]
             /\ high = "refuse" => low = "refuse"
BY DEF VerdictForLevel, Decision, Reach

(* What is refused before the guardrails, whatever they say. *)
Hard(c, r) ==
  LET level == EffectiveLevel(c, DutyOf(r).door)
  IN  \/ VerdictForLevel(level, RiskClass(r.type)).verdict = "refuse"
      \/ DutyOf(r).minLevel > level
      \/ OverDiscount(c, r)

(* What is refused before the level is asked. *)
Stopped(c, r, w) ==
  \/ ~w.authority \/ r.type \in FounderOnly \/ Unverifiable(c, r) \/ Locked(c, r)
  \/ ~(r.duty \subseteq DOMAIN DutyByKey)
  \/ \E k \in r.duty : ~Kept(c, k).enabled \/ ~Kept(c, k).doorExists

Verdicts == {"refuse", "suggest", "draft", "execute", "throws"}

(* The order in which the level, the caps and the guardrails are asked. *)
LEMMA ByLevelIs ==
  ASSUME NEW c, NEW r, NEW w
  PROVE  LET j == JudgeByLevel(c, r, w)
             byLevel == VerdictForLevel(EffectiveLevel(c, DutyOf(r).door), RiskClass(r.type))
             platform == CheckGuardrails(c, r, w)
         IN  /\ Hard(c, r) => j.verdict = "refuse"
             /\ ~Hard(c, r) /\ OverSpend(c, r) => j.verdict = "draft"
             /\ ~Hard(c, r) /\ ~OverSpend(c, r) =>
                  /\ platform = "throws" => j.verdict = "throws"
                  /\ platform = "block" => j.verdict = "refuse" /\ j.rule = "guardrail"
                  /\ platform = "needs_approval" => j.verdict = "draft"
                  /\ platform \notin {"throws", "block", "needs_approval"} => j = byLevel
BY DEF JudgeByLevel, Hard, Decision

LEMMA EvaluatedIs ==
  ASSUME NEW c, NEW r, NEW w
  PROVE  LET e == EvaluateAuthority(c, r, w)
         IN  /\ Stopped(c, r, w) => e.verdict = "refuse"
             /\ ~Stopped(c, r, w) =>
                  e = IF r.type \in NeverGated THEN Decision("execute", "never_gated", FALSE)
                      ELSE IF r.type \in AlwaysDraft THEN Decision("draft", "always_draft", FALSE)
                      ELSE JudgeByLevel(c, r, w)
BY DEF EvaluateAuthority, Stopped, Decision

(* What was stopped stays stopped under tighter controls. *)
LEMMA StoppedStays ==
  ASSUME NEW a, NEW b, Tighter(b, a), NEW r, NEW w, Stopped(a, r, w)
  PROVE  Stopped(b, r, w)
<1>1. a.locks \subseteq b.locks
  BY DEF Tighter
<1>2. Unverifiable(a, r) => Unverifiable(b, r)
  BY <1>1 DEF Unverifiable
<1>3. Locked(a, r) => Locked(b, r)
  BY <1>1 DEF Locked
<1>4. (\E k \in r.duty : ~Kept(a, k).enabled \/ ~Kept(a, k).doorExists)
        => \E k \in r.duty : ~Kept(b, k).enabled \/ ~Kept(b, k).doorExists
  BY TighterKept
<1>5. QED BY <1>2, <1>3, <1>4 DEF Stopped

LEMMA GuardrailsAnswer ==
  ASSUME NEW c, NEW r, NEW w
  PROVE  CheckGuardrails(c, r, w) \in {"allow", "needs_approval", "block", "throws"}
BY DEF CheckGuardrails, DiscountArm, PriceArm, CampaignArm, ReplyArm, OrderArm, ChatDiscountArm,
       PurchaseArm, MessageArm, SwitchArm

LEMMA LimitsTighten ==
  ASSUME NEW a, NEW b, ControlsOK(a), ControlsOK(b), Tighter(b, a),
         NEW r \in Requests, NEW k \in r.duty, k \in DOMAIN DutyByKey
  PROVE  /\ Hard(a, r) => Hard(b, r)
         /\ OverSpend(a, r) => OverSpend(b, r)
<1> DEFINE door == DutyOf(r).door
           la == EffectiveLevel(a, door)
           lb == EffectiveLevel(b, door)
<1>1. la \in Int /\ lb \in Int /\ lb <= la
  BY LevelIs, CeilingTightens
<1>2. DutyOf(r).minLevel \in Int
  BY DutyOfIs, DutyIs
<1>3. /\ b.maxDiscount <= a.maxDiscount /\ b.spendCap <= a.spendCap /\ b.spent >= a.spent
      /\ {a.maxDiscount, b.maxDiscount, a.spendCap, b.spendCap, a.spent, b.spent} \subseteq Int
  BY DEF Tighter, ControlsOK
<1>4. Field(r.pay, "percentOff", 0) \in Int
  BY FieldsAre DEF Amounts
<1>5. OverDiscount(a, r) => OverDiscount(b, r)
  BY <1>3, <1>4 DEF OverDiscount
<1>6. OverSpend(a, r) => OverSpend(b, r)
  BY <1>3, SpendIs DEF OverSpend
<1>7. VerdictForLevel(la, RiskClass(r.type)).verdict = "refuse"
        => VerdictForLevel(lb, RiskClass(r.type)).verdict = "refuse"
  BY <1>1, VerdictFalls
<1>8. DutyOf(r).minLevel > la => DutyOf(r).minLevel > lb
  BY <1>1, <1>2
<1>9. QED BY <1>5, <1>6, <1>7, <1>8 DEF Hard

(* A governed request reaches no further under tighter controls, short of the one that is asked first. *)
LEMMA LevelTightens ==
  ASSUME NEW a, NEW b, ControlsOK(a), ControlsOK(b), Tighter(b, a),
         NEW r \in Requests, NEW w \in Worlds, NEW k \in r.duty, k \in GoverningDuties(r.type)
  PROVE  LET before == JudgeByLevel(a, r, w)
             after == JudgeByLevel(b, r, w)
         IN  /\ before.verdict \in Verdicts /\ after.verdict \in Verdicts
             /\ \/ Reach[after.verdict] <= Reach[before.verdict] \/ after.verdict = "throws"
                \/ r.type \in AskedFirst /\ before.rule = "guardrail" /\ after.verdict = "draft"
<1> DEFINE before == JudgeByLevel(a, r, w)
           after == JudgeByLevel(b, r, w)
           pa == CheckGuardrails(a, r, w)
           pb == CheckGuardrails(b, r, w)
           door == DutyOf(r).door
           va == VerdictForLevel(EffectiveLevel(a, door), RiskClass(r.type))
           vb == VerdictForLevel(EffectiveLevel(b, door), RiskClass(r.type))
           NoFurther == \/ Reach[after.verdict] <= Reach[before.verdict] \/ after.verdict = "throws"
                        \/ r.type \in AskedFirst /\ before.rule = "guardrail" /\ after.verdict = "draft"
<1> SUFFICES before.verdict \in Verdicts /\ after.verdict \in Verdicts /\ NoFurther
  OBVIOUS
<1>1. k \in DOMAIN DutyByKey /\ r.type # "update_price"
  BY Governed
<1>2. (Hard(a, r) => Hard(b, r)) /\ (OverSpend(a, r) => OverSpend(b, r))
  BY <1>1, LimitsTighten
<1>3. /\ va.verdict \in {"refuse", "suggest", "draft", "execute"}
      /\ vb.verdict \in {"refuse", "suggest", "draft", "execute"}
      /\ Reach[vb.verdict] <= Reach[va.verdict]
  BY LevelIs, CeilingTightens, VerdictFalls
<1>4. ~Hard(a, r) => va.verdict # "refuse"
  BY DEF Hard
<1>5. pa \in {"allow", "needs_approval", "block", "throws"} /\ pb \in {"allow", "needs_approval", "block", "throws"}
  BY GuardrailsAnswer
<1>6. /\ pb = "allow" => pa \in {"allow", "throws"}
      /\ r.type # "send_inbox_reply" /\ pb = "needs_approval" => pa # "block"
  BY <1>1, PlatformTightens DEF Narrower
<1>7. /\ Hard(a, r) => before.verdict = "refuse"
      /\ ~Hard(a, r) /\ OverSpend(a, r) => before.verdict = "draft"
      /\ ~Hard(a, r) /\ ~OverSpend(a, r) =>
           /\ pa = "throws" => before.verdict = "throws"
           /\ pa = "block" => before.verdict = "refuse" /\ before.rule = "guardrail"
           /\ pa = "needs_approval" => before.verdict = "draft"
           /\ pa \notin {"throws", "block", "needs_approval"} => before = va
  BY ByLevelIs
<1>8. /\ Hard(b, r) => after.verdict = "refuse"
      /\ ~Hard(b, r) /\ OverSpend(b, r) => after.verdict = "draft"
      /\ ~Hard(b, r) /\ ~OverSpend(b, r) =>
           /\ pb = "throws" => after.verdict = "throws"
           /\ pb = "block" => after.verdict = "refuse"
           /\ pb = "needs_approval" => after.verdict = "draft"
           /\ pb \notin {"throws", "block", "needs_approval"} => after = vb
  BY ByLevelIs
<1>9. OverSpend(b, r) /\ pa = "block" => r.type \in AskedFirst
  <2>1. SUFFICES ASSUME OverSpend(b, r), pa = "block", r.type \notin AskedFirst PROVE FALSE
    OBVIOUS
  <2>2. r.type \in {"create_campaign", "create_purchase_order"}
    BY <2>1 DEF OverSpend, SpendMinor, AskedFirst
  <2>3. CASE r.type = "create_campaign"
    BY <2>1, <2>3 DEF CheckGuardrails, NoGuardrailNeeded
  <2>4. CASE r.type = "create_purchase_order"
    BY <2>1, <2>4 DEF CheckGuardrails, PurchaseArm
  <2>5. QED BY <2>2, <2>3, <2>4
<1> HIDE DEF before, after, pa, pb, va, vb
<1>10. before.verdict \in Verdicts /\ after.verdict \in Verdicts
  BY <1>3, <1>5, <1>7, <1>8 DEF Verdicts
<1>11. ASSUME Hard(b, r) PROVE NoFurther
  BY <1>8, <1>10, <1>11 DEF Reach, Verdicts
<1>12. ASSUME ~Hard(b, r) /\ OverSpend(b, r) PROVE NoFurther
  <2>1. after.verdict = "draft" /\ ~Hard(a, r)
    BY <1>2, <1>8, <1>12
  <2>2. CASE ~OverSpend(a, r) /\ pa = "block"
    BY <1>7, <1>9, <1>12, <2>1, <2>2
  <2>3. CASE OverSpend(a, r) \/ pa # "block"
    <3>1. before.verdict \in {"draft", "throws", "suggest", "execute"}
      BY <1>3, <1>4, <1>5, <1>7, <2>1, <2>3
    <3>2. QED BY <2>1, <3>1 DEF Reach
  <2>4. QED BY <2>2, <2>3
<1>13. ASSUME ~Hard(b, r) /\ ~OverSpend(b, r) PROVE NoFurther
  <2>1. ~Hard(a, r) /\ ~OverSpend(a, r)
    BY <1>2, <1>13
  <2>2. CASE pb = "throws" \/ pb = "block"
    BY <1>8, <1>10, <1>13, <2>2 DEF Reach, Verdicts
  <2>3. CASE pb = "needs_approval"
    <3>1. after.verdict = "draft"
      BY <1>8, <1>13, <2>3
    <3>2. CASE pa = "block"
      BY <1>6, <1>7, <2>1, <2>3, <3>1, <3>2 DEF AskedFirst
    <3>3. CASE pa # "block"
      <4>1. before.verdict \in {"draft", "throws", "suggest", "execute"}
        BY <1>3, <1>4, <1>5, <1>7, <2>1, <3>3
      <4>2. QED BY <3>1, <4>1 DEF Reach
    <3>4. QED BY <3>2, <3>3
  <2>4. CASE pb = "allow"
    <3>1. after.verdict = vb.verdict
      BY <1>8, <1>13, <2>4
    <3>2. before.verdict = "throws" \/ before.verdict = va.verdict
      BY <1>6, <1>7, <2>1, <2>4
    <3>3. CASE before.verdict = "throws"
      BY <1>10, <3>3 DEF Reach, Verdicts
    <3>4. CASE before.verdict = va.verdict
      BY <1>3, <3>1, <3>4
    <3>5. QED BY <3>2, <3>3, <3>4
  <2>5. QED BY <1>5, <2>2, <2>3, <2>4
<1>14. QED BY <1>10, <1>11, <1>12, <1>13

(***************************************************************************)
(* Turning any control down lets no request reach further than before,     *)
(* short of the duty that asks before its guardrail is looked at.          *)
(***************************************************************************)
THEOREM NothingWidens == DeskSpec => TighteningNeverWidens
<1>1. ASSUME DeskTypeOK, DeskTypeOK', Tighter(controls', controls),
             NEW r \in Requests, NEW w \in Worlds, NEW lane \in Lanes
      PROVE  LET before == Judged(controls, r, w, lane)
                 after == Judged(controls', r, w, lane)
             IN  \/ Reach[after.verdict] <= Reach[before.verdict] \/ after.verdict = "throws"
                 \/ r.type \in AskedFirst /\ before.rule = "guardrail" /\ after.verdict = "draft"
  <2> DEFINE a == controls
             b == controls'
             before == Judged(a, r, w, lane)
             after == Judged(b, r, w, lane)
  <2>0. ControlsOK(a) /\ ControlsOK(b) /\ Tighter(b, a)
    BY <1>1 DEF DeskTypeOK
  <2>1. CASE ~\E k \in r.duty : DutyBinding(r.type, k, lane)
    BY <2>1 DEF Judged, Decision
  <2>2. CASE \E k \in r.duty : DutyBinding(r.type, k, lane)
    <3>1. PICK k \in r.duty : k \in GoverningDuties(r.type)
      BY <2>2 DEF DutyBinding
    <3>2. before = EvaluateAuthority(a, r, w) /\ after = EvaluateAuthority(b, r, w)
      BY <2>2 DEF Judged
    <3> HIDE DEF a, b, before, after
    <3>3. /\ JudgeByLevel(a, r, w).verdict \in Verdicts
          /\ LET x == JudgeByLevel(a, r, w)
                 y == JudgeByLevel(b, r, w)
             IN  \/ Reach[y.verdict] <= Reach[x.verdict] \/ y.verdict = "throws"
                 \/ r.type \in AskedFirst /\ x.rule = "guardrail" /\ y.verdict = "draft"
      BY <2>0, <3>1, LevelTightens
    <3>4. CASE Stopped(b, r, w)
      <4>1. after.verdict = "refuse"
        BY <3>2, <3>4, EvaluatedIs
      <4>2. before.verdict \in Verdicts
        BY <3>2, <3>3, EvaluatedIs DEF Decision, Verdicts
      <4>3. QED BY <4>1, <4>2 DEF Reach, Verdicts, a, b, before, after
    <3>5. CASE ~Stopped(b, r, w)
      <4>1. ~Stopped(a, r, w)
        BY <2>0, <3>5, StoppedStays
      <4>2. CASE r.type \in NeverGated \cup AlwaysDraft
        <5> DEFINE alone == IF r.type \in NeverGated THEN Decision("execute", "never_gated", FALSE)
                            ELSE Decision("draft", "always_draft", FALSE)
        <5>0. before = alone /\ after = alone
          BY <3>2, <3>5, <4>1, <4>2, EvaluatedIs
        <5>1. before = after /\ before.verdict \in {"execute", "draft"}
          BY <5>0 DEF Decision
        <5>2. QED BY <5>1 DEF Reach, a, b, before, after
      <4>3. CASE r.type \notin NeverGated \cup AlwaysDraft
        <5>1. before = JudgeByLevel(a, r, w) /\ after = JudgeByLevel(b, r, w)
          BY <3>2, <3>5, <4>1, <4>3, EvaluatedIs
        <5>2. QED BY <3>3, <5>1 DEF a, b, before, after
      <4>4. QED BY <4>2, <4>3
    <3>6. QED BY <3>4, <3>5
  <2>3. QED BY <2>1, <2>2
<1>2. DeskTypeOK /\ DeskTypeOK' /\ [DeskNext]_deskVars =>
        [Tighter(controls', controls) =>
           \A r \in Requests, w \in Worlds, lane \in Lanes :
             LET before == Judged(controls, r, w, lane)
                 after == Judged(controls', r, w, lane)
             IN  \/ Reach[after.verdict] <= Reach[before.verdict] \/ after.verdict = "throws"
                 \/ r.type \in AskedFirst /\ before.rule = "guardrail" /\ after.verdict = "draft"]_deskVars
  BY <1>1
<1>3. QED BY <1>2, DeskTyped, PTL DEF DeskSpec, TighteningNeverWidens
===============================================================================
