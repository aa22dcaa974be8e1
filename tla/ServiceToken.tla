---------------------------- MODULE ServiceToken ----------------------------
(***************************************************************************)
(* Which credential a call to dakio-api carries                            *)
(* (src/lib/service-token.ts).  A token is the tenant it authenticates as  *)
(* and the time it has left; a pinned or legacy token never expires as far *)
(* as this process can tell, so its time left is Pinned.  Times are whole  *)
(* units of the clock the registry ticks.                                  *)
(***************************************************************************)
EXTENDS Naturals

CONSTANTS
    Ttl,             \* DEFAULT_TTL_SEC: the life of a minted token
    RefreshSkew,     \* REFRESH_SKEW_MS: reused only while more than this is left
    Another,         \* a tenant this process was not asked about
    NoToken

ASSUME TokenTimes == Ttl \in Nat /\ RefreshSkew \in Nat

Pinned == Ttl + 1

Minted(s) == [tenant |-> s, left |-> Ttl]

\* What could go wrong: a token is reused until its very end.
MintedToTheEnd(s, cached) ==
    IF cached # NoToken /\ cached.left > 0 THEN cached ELSE Minted(s)

\* mintServiceToken, mintFleetToken: the cached token, unless it is too near its end.
MintServiceToken(s, cached) ==
    IF cached # NoToken /\ cached.left > RefreshSkew THEN cached ELSE Minted(s)

(***************************************************************************)
(* NOVA_SERVICE_TOKEN, with the tenant it is declared for (by the          *)
(* operator, or by its own claim; NoToken when neither says).  It serves   *)
(* the one store it is bound to and no other.                              *)
(***************************************************************************)
LegacyTokenFor(s, legacy) ==
    IF legacy # NoToken /\ legacy.declared = s
    THEN [tenant |-> legacy.tenant, left |-> Pinned]
    ELSE NoToken

\* The pin of the store, then the legacy token, then a minted one.
ServiceTokenFor(s, env, cached) ==
    IF env.pin # NoToken THEN [tenant |-> env.pin, left |-> Pinned]
    ELSE IF LegacyTokenFor(s, env.legacy) # NoToken THEN LegacyTokenFor(s, env.legacy)
    ELSE MintServiceToken(s, cached)

\* Only a minted token is remembered.
CacheAfter(s, env, cached) ==
    LET t == ServiceTokenFor(s, env, cached) IN IF t.left = Pinned THEN cached ELSE t

(***************************************************************************)
(* What the operator may have set: a pin for this store that is its own or *)
(* was pasted from another; a legacy token, declared for this store, for   *)
(* another or for none, whoever it authenticates as; or nothing.           *)
(***************************************************************************)
Environments(s) ==
    [pin : {NoToken, s, Another},
     legacy : {NoToken, [declared |-> s, tenant |-> s],
               [declared |-> s, tenant |-> Another],
               [declared |-> Another, tenant |-> Another],
               [declared |-> NoToken, tenant |-> Another]}]
=============================================================================
