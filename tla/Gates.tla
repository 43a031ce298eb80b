--------------------------------- MODULE Gates ---------------------------------
(***************************************************************************)
(* The gates a request of a tenant passes before its handler runs: the     *)
(* signature of its token under a key of the issuer, which each API        *)
(* process caches; the user's row and the tenant; and the token bucket in  *)
(* Redis that limits the rate of its category.  Time matters to all of     *)
(* them: the cache is older than what the issuer says, and the bucket is   *)
(* told the time by the callers, who read their clock before the call.     *)
(***************************************************************************)
EXTENDS Integers, FiniteSets, Sequences

CONSTANTS
  Requests,  \* requests, each made once
  Kids,      \* the signing keys of the issuer, published one or two at a time
  Accepted,  \* accepted audiences: the clients of backend and frontend
  Claims,    \* what tokens claim: their audiences and their authorized party
  Calls,     \* what requests ask for: a route, and who asks
  Limits,    \* the limit of each category
  Window,    \* seconds of a window
  CacheTTL,  \* cache_ttl: 300 s in the code
  Timeout,   \* of a request to the issuer: 10 s in the code
  Delay,     \* bound: time between reading the clock and the script's run
  MaxTime,   \* bound: how long the clock runs
  MaxFaults  \* bound: failed calls

Categories == {"auth", "job_create", "chat_create", "chat_sse", "general"}

ASSUME ClaimsAssumption == Claims \subseteq [aud : SUBSET STRING, azp : STRING]
ASSUME LimitsAssumption == Limits \in [Categories -> Nat \ {0}]
ASSUME TimeAssumption   == /\ Window \in Nat \ {0} /\ Delay \in 0..Window
                           /\ CacheTTL \in Nat /\ Timeout \in Nat
ASSUME BoundAssumption  == MaxTime \in Nat /\ MaxFaults \in Nat

VARIABLES
  now,
  published,  \* the keys the issuer publishes
  retired,    \* when it withdrew a key; MaxTime + 1 while it has not
  cache,      \* the process's JwksCache
  request,    \* where each request is, and what it holds
  bucket,     \* the buckets in Redis
  granted,    \* history: when each bucket let a request through, and its slips by then
  slips,      \* history: how often a bucket's clock was put back
  told,       \* history: when a bucket's last rejection said to come back
  faults

issuer   == <<published, retired>>
history  == <<granted, slips, told>>
vars     == <<now, issuer, cache, request, bucket, history, faults>>

-------------------------------------------------------------------------------
Larger(a, b)  == IF a >= b THEN a ELSE b
Smaller(a, b) == IF a <= b THEN a ELSE b
DivUp(a, b)   == (a + b - 1) \div b

\* `account` is in every token of Keycloak and says nothing; any other foreign audience rules
\* the authorized party out.
AudienceAllowed(claims) ==
  \/ claims.aud \cap Accepted # {}
  \/ claims.aud \subseteq {"account"} /\ claims.azp \in Accepted

\* The category of a call, by method and route; "none" is not limited.
RouteCategory(call) ==
  CASE call.route = "auth"                                    -> "auth"
    [] call.route = "documents" /\ call.method = "POST"       -> "job_create"
    [] call.route = "chat_sessions" /\ call.method = "POST"   -> "chat_create"
    [] call.route = "chat" /\ call.method = "POST"            -> "chat_sse"
    [] call.route \in {"documents", "chat_sessions", "chat", "tenants", "users_me"} -> "general"
    [] OTHER                                                  -> "none"

\* Who shares a bucket: chats are counted for each user of a tenant, logins for an address.
Scope(call) ==
  CASE RouteCategory(call) = "auth"                        -> <<"ip", call.ip>>
    [] RouteCategory(call) \in {"chat_create", "chat_sse"} -> <<"tenant", call.tenant, call.user>>
    [] call.tenant # "none"                                -> <<"tenant", call.tenant>>
    [] OTHER                                               -> <<"user", call.user>>

Key(call) == [category |-> RouteCategory(call), scope |-> Scope(call)]
Keys      == {Key(call) : call \in {c \in Calls : RouteCategory(c) # "none"}}
LimitOf(key) == Limits[key.category]

NoBucket == [tokens |-> 0, ts |-> 0, touched |-> -1]
NoKey    == [category |-> "none", scope |-> <<>>]

\* `since` is when the issuer answered, the key was accepted, the limiter read its clock.
Idle == [pc |-> "idle", kid |-> "none", answer |-> {}, since |-> 0, key |-> NoKey]
Becomes(r, pc) == request' = [request EXCEPT ![r] = [Idle EXCEPT !.pc = pc]]

\* Tokens are counted in units of 1/Window, so that a second refills LimitOf(key) units.
Full(key) == LimitOf(key) * Window

Init ==
  /\ now = 0
  /\ \E k \in Kids : published = {k}
  /\ retired = [k \in Kids |-> MaxTime + 1]
  /\ cache = [keys |-> {}, at |-> -(CacheTTL + 1)]
  /\ request = [r \in Requests |-> Idle]
  /\ bucket = [k \in Keys |-> NoBucket]
  /\ granted = [k \in Keys |-> <<>>] /\ slips = [k \in Keys |-> 0] /\ told = [k \in Keys |-> -1]
  /\ faults = 0

Fault == faults < MaxFaults /\ faults' = faults + 1

-------------------------------------------------------------------------------
\* The issuer

Publish(k) ==
  /\ k \notin published /\ retired[k] > MaxTime
  /\ published' = published \cup {k}
  /\ UNCHANGED <<now, retired, cache, request, bucket, history, faults>>

Withdraw(k) ==
  /\ k \in published /\ published # {k}
  /\ published' = published \ {k} /\ retired' = [retired EXCEPT ![k] = now]
  /\ UNCHANGED <<now, cache, request, bucket, history, faults>>

-------------------------------------------------------------------------------
\* JwtValidator::validate

Expired == now - cache.at > CacheTTL

\* The token is checked under the key at hand: its signature, issuer and expiry, which may
\* each refuse it, then its audience.
Judge(r, kid, claims) ==
  \/ AudienceAllowed(claims)
     /\ request' = [request EXCEPT ![r] = [Idle EXCEPT !.pc = "known", !.kid = kid, !.since = now]]
  \/ Becomes(r, "refused")

\* The fast path: the key is cached and the cache is not expired.
Lookup(r) ==
  /\ request[r].pc = "idle"
  /\ \E kid \in Kids, claims \in Claims :
       IF ~Expired /\ kid \in cache.keys
       THEN Judge(r, kid, claims)
       ELSE request' = [request EXCEPT ![r].pc = "discovering", ![r].kid = kid]
  /\ UNCHANGED <<now, issuer, cache, bucket, history, faults>>

\* The discovery document names the place of the keys; the issuer then answers with those it
\* publishes.
Ask(r) ==
  /\ request[r].pc = "discovering"
  /\ request' = [request EXCEPT ![r].pc = "fetching", ![r].answer = published, ![r].since = now]
  /\ UNCHANGED <<now, issuer, cache, bucket, history, faults>>

\* A request fails or times out, or the answer cannot be parsed or has no usable key.
FetchFails(r) ==
  /\ request[r].pc \in {"discovering", "fetching"} /\ Fault
  /\ Becomes(r, "refused")
  /\ UNCHANGED <<now, issuer, cache, bucket, history>>

\* Faulty: keys are added to those of the cache (RetiredKeysExpire).
MergeKeys(r) ==
  /\ request[r].pc = "fetching"
  /\ request' = [request EXCEPT ![r].pc = "fetched"]
  /\ cache' = [keys |-> cache.keys \cup request[r].answer, at |-> now]
  /\ UNCHANGED <<now, issuer, bucket, history, faults>>

\* The answer replaces the whole cache, whoever stored what in between.
StoreKeys(r) ==
  /\ request[r].pc = "fetching"
  /\ request' = [request EXCEPT ![r].pc = "fetched"]
  /\ cache' = [keys |-> request[r].answer, at |-> now]
  /\ UNCHANGED <<now, issuer, bucket, history, faults>>

\* The cache is read again, whatever it holds by now.
Reread(r) ==
  /\ request[r].pc = "fetched"
  /\ \E claims \in Claims :
       IF request[r].kid \in cache.keys
       THEN Judge(r, request[r].kid, claims)
       ELSE Becomes(r, "refused")
  /\ UNCHANGED <<now, issuer, cache, bucket, history, faults>>

-------------------------------------------------------------------------------
\* provision_user, tenant_middleware and rate_limit_middleware

\* The user's row is written; it is refused when another user has the same e-mail.
Provision(r) ==
  /\ request[r].pc = "known"
  /\ \E pc \in {"provisioned", "refused"} : Becomes(r, pc)
  /\ UNCHANGED <<now, issuer, cache, bucket, history, faults>>

\* The tenant named in the header exists and OpenFGA knows the user as a member, or not.
EnterTenant(r) ==
  /\ request[r].pc = "provisioned"
  /\ \E pc \in {"entered", "refused"} : Becomes(r, pc)
  /\ UNCHANGED <<now, issuer, cache, bucket, history, faults>>

\* Unless the route is not limited, the limiter reads its clock.
ReadClock(r) ==
  /\ request[r].pc = "entered"
  /\ \E call \in Calls :
       IF RouteCategory(call) = "none"
       THEN Becomes(r, "passed")
       ELSE request' = [request EXCEPT ![r] =
              [Idle EXCEPT !.pc = "counting", !.key = Key(call), !.since = now]]
  /\ UNCHANGED <<now, issuer, cache, bucket, history, faults>>

\* The bucket as the script finds it: Redis has dropped it two windows after its last use.
Present(key)     == bucket[key].touched >= 0 /\ now < bucket[key].touched + 2 * Window
Found(key, time) == IF Present(key) THEN bucket[key]
                    ELSE [bucket[key] EXCEPT !.tokens = Full(key), !.ts = time]

\* Faulty: idle time is saved up (RateHolds).
RefilledUncapped(key, time) ==
  Found(key, time).tokens + LimitOf(key) * Larger(0, time - Found(key, time).ts)

Refilled(key, time) ==
  Smaller(Full(key), Found(key, time).tokens + LimitOf(key) * Larger(0, time - Found(key, time).ts))

Allowed(key, time) == Refilled(key, time) >= Window

\* Faulty: the preset answer of one second is never computed (RetryAfterSuffices).
RetryAfterOne(key, time) == 1

RetryAfter(key, time) == Larger(1, DivUp(Window - Refilled(key, time), LimitOf(key)))

\* TOKEN_BUCKET_LUA: the bucket's clock becomes the caller's, even when that is behind.
Take(r) ==
  LET key == request[r].key  time == request[r].since IN
  /\ request[r].pc = "counting"
  /\ bucket' = [bucket EXCEPT ![key] =
       [tokens |-> Refilled(key, time) - IF Allowed(key, time) THEN Window ELSE 0,
        ts |-> time, touched |-> now]]
  /\ slips' = [slips EXCEPT ![key] = IF time < Found(key, time).ts THEN @ + 1 ELSE @]
  /\ IF Allowed(key, time)
     THEN /\ Becomes(r, "passed")
          /\ granted' = [granted EXCEPT ![key] = Append(@, [at |-> now, slips |-> slips'[key]])]
          /\ told' = [told EXCEPT ![key] = -1]
     ELSE /\ Becomes(r, "rejected")
          /\ told' = [told EXCEPT ![key] = time + RetryAfter(key, time)]
          /\ UNCHANGED granted
  /\ UNCHANGED <<now, issuer, cache, faults>>

\* Without Redis the limiter lets everything through.
FailOpen(r) ==
  /\ request[r].pc = "counting" /\ Becomes(r, "passed") /\ Fault
  /\ UNCHANGED <<now, issuer, cache, bucket, history>>

-------------------------------------------------------------------------------
\* Only calls take time: an answer of the issuer no longer than the client's timeout, the
\* script no longer than Delay.
Tick ==
  /\ now < MaxTime
  /\ \A r \in Requests :
       /\ request[r].pc # "fetched"
       /\ request[r].pc = "fetching" => now < request[r].since + Timeout
       /\ request[r].pc = "counting" => now < request[r].since + Delay
  /\ now' = now + 1
  /\ UNCHANGED <<issuer, cache, request, bucket, history, faults>>

Next ==
  \/ \E k \in Kids : Publish(k) \/ Withdraw(k)
  \/ \E r \in Requests : \/ Lookup(r) \/ Ask(r) \/ FetchFails(r) \/ StoreKeys(r) \/ Reread(r)
                         \/ Provision(r) \/ EnterTenant(r) \/ ReadClock(r) \/ Take(r) \/ FailOpen(r)
  \/ Tick

Spec == Init /\ [][Next]_vars

-------------------------------------------------------------------------------
\* Every variable stays in its range: a bucket between empty and full, a clock put back no
\* further than Delay, no more keys in the cache than the issuer ever had (JwksCache, the hash
\* of TOKEN_BUCKET_LUA).
TypeOK ==
  /\ now \in 0..MaxTime /\ faults \in 0..MaxFaults
  /\ published \in SUBSET Kids /\ retired \in [Kids -> 0..(MaxTime + 1)]
  /\ cache.keys \in SUBSET Kids /\ cache.at \in -(CacheTTL + 1)..now
  /\ request \in [Requests -> [pc     : {"idle", "discovering", "fetching", "fetched", "known",
                                         "provisioned", "entered", "counting", "passed", "rejected", "refused"},
                               kid    : Kids \cup {"none"},
                               answer : SUBSET Kids,
                               since  : 0..now,
                               key    : Keys \cup {NoKey}]]
  /\ \A k \in Keys : /\ bucket[k].tokens \in 0..Full(k) /\ bucket[k].touched \in -1..now
                     /\ bucket[k].ts \in Larger(0, bucket[k].touched - Delay)..now
                     /\ \A i \in DOMAIN granted[k] : granted[k][i].at \in 0..now
                     /\ slips[k] \in Nat /\ told[k] \in -1..(now + 2 * Window)

\* A key the issuer has withdrawn is accepted no longer than the cache lives, plus the time an
\* answer may take on its way (auth/jwt.rs: get_key, fetch_jwks).
RetiredKeysExpire ==
  \A r \in Requests :
    request[r].pc = "known" => request[r].since <= retired[request[r].kid] + CacheTTL + Timeout

\* Among any number of requests a bucket lets through, there are no more than its limit and
\* what is refilled in the time they span; each time the clock slipped back costs Delay more
\* (middleware/rate_limit.rs: TOKEN_BUCKET_LUA).
RateHolds ==
  \A k \in Keys : \A i, j \in 1..Len(granted[k]) :
    LET span == granted[k][j].at - granted[k][i].at
        lost == granted[k][j].slips - granted[k][i].slips
    IN i <= j =>
       (j - i + 1) * Window <= Full(k) + LimitOf(k) * (span + Delay * (1 + lost))

\* A caller who comes back when Retry-After said, and nobody was let in since, is let in
\* (middleware/rate_limit.rs: TOKEN_BUCKET_LUA, rate_limit_error).
RetryAfterSuffices ==
  \A k \in Keys : told[k] >= 0 /\ now >= told[k] => Allowed(k, now)
================================================================================
