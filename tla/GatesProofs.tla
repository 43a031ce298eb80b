------------------------------- MODULE GatesProofs -------------------------------
(***************************************************************************)
(* Proofs about Gates: how long a withdrawn key is accepted, and how much  *)
(* a token bucket lets through, for any keys, requests, limits and times.  *)
(*                                                                         *)
(* The first argument follows a key on its way: the issuer's answer may be *)
(* as old as the timeout when it is stored, and the cache as old as its    *)
(* lifetime when it is read; a request that stored the answer reads it     *)
(* again before any time passes.                                           *)
(*                                                                         *)
(* The second keeps a bucket's books: what it let through since any of its *)
(* grants, and what is in it now, is paid for by a full bucket and the     *)
(* refill up to the bucket's clock.  The clock lags behind the grants by   *)
(* Delay at most, and each time it is put back that may be refilled twice. *)
(***************************************************************************)
EXTENDS Gates, TLAPS

USE TimeAssumption, BoundAssumption

-------------------------------------------------------------------------------
Places == {"idle", "discovering", "fetching", "fetched", "known", "provisioned", "entered",
           "counting", "passed", "rejected", "refused"}
Carried == [pc : Places, kid : Kids \cup {"none"}, answer : SUBSET Kids, since : Int,
            key : Keys \cup {NoKey}]

Typed ==
  /\ now \in 0..MaxTime
  /\ published \subseteq Kids /\ retired \in [Kids -> 0..(MaxTime + 1)]
  /\ cache.keys \subseteq Kids /\ cache.at \in Int
  /\ request \in [Requests -> Carried]

\* A key is published until it is withdrawn, and never again.
IssuerInv == \A k \in Kids : (k \in published => retired[k] = MaxTime + 1)
                             /\ (retired[k] <= now \/ retired[k] = MaxTime + 1)

AnswerInv == \A r \in Requests : request[r].pc = "fetching" =>
               /\ request[r].since <= now /\ now <= request[r].since + Timeout
               /\ \A k \in request[r].answer : request[r].since <= retired[k]

CacheInv ==
  /\ \A k \in cache.keys : cache.at <= retired[k] + Timeout
  /\ cache.at <= now
  /\ \A r \in Requests : request[r].pc = "fetched" => cache.at = now

KnownInv == \A r \in Requests : request[r].pc = "known" =>
              /\ request[r].kid \in Kids /\ request[r].since <= now
              /\ request[r].since <= retired[request[r].kid] + CacheTTL + Timeout

Inv == Typed /\ IssuerInv /\ AnswerInv /\ CacheInv /\ KnownInv

LEMMA InitInv == Init => Inv
BY DEF Init, Inv, Typed, IssuerInv, AnswerInv, CacheInv, KnownInv, Idle, Places, Carried

-------------------------------------------------------------------------------
\* Records built by changing one field after the other.
LEMMA WithKid ==
  ASSUME NEW q, NEW k, NEW n
  PROVE  [Idle EXCEPT !.pc = q, !.kid = k, !.since = n]
         = [pc |-> q, kid |-> k, answer |-> {}, since |-> n, key |-> NoKey]
<1>. DEFINE x == [Idle EXCEPT !.pc = q]  y == [x EXCEPT !.kid = k]  z == [y EXCEPT !.since = n]
<1>1. x = [pc |-> q, kid |-> "none", answer |-> {}, since |-> 0, key |-> NoKey]
  BY DEF Idle
<1>. HIDE DEF x
<1>2. y = [pc |-> q, kid |-> k, answer |-> {}, since |-> 0, key |-> NoKey]
  BY <1>1
<1>. HIDE DEF y
<1>3. z = [pc |-> q, kid |-> k, answer |-> {}, since |-> n, key |-> NoKey]
  BY <1>2
<1>. HIDE DEF z
<1>4. [Idle EXCEPT !.pc = q, !.kid = k, !.since = n] = z
  BY DEF x, y, z
<1>. QED
  BY <1>3, <1>4

LEMMA WithKey ==
  ASSUME NEW q, NEW k, NEW n
  PROVE  [Idle EXCEPT !.pc = q, !.key = k, !.since = n]
         = [pc |-> q, kid |-> "none", answer |-> {}, since |-> n, key |-> k]
<1>. DEFINE x == [Idle EXCEPT !.pc = q]  y == [x EXCEPT !.key = k]  z == [y EXCEPT !.since = n]
<1>1. x = [pc |-> q, kid |-> "none", answer |-> {}, since |-> 0, key |-> NoKey]
  BY DEF Idle
<1>. HIDE DEF x
<1>2. y = [pc |-> q, kid |-> "none", answer |-> {}, since |-> 0, key |-> k]
  BY <1>1
<1>. HIDE DEF y
<1>3. z = [pc |-> q, kid |-> "none", answer |-> {}, since |-> n, key |-> k]
  BY <1>2
<1>. HIDE DEF z
<1>4. [Idle EXCEPT !.pc = q, !.key = k, !.since = n] = z
  BY DEF x, y, z
<1>. QED
  BY <1>3, <1>4

LEMMA WithAnswer ==
  ASSUME request \in [Requests -> Carried], NEW r \in Requests,
         NEW q \in Places, NEW a \in SUBSET Kids, NEW n \in Int
  PROVE  [request EXCEPT ![r].pc = q, ![r].answer = a, ![r].since = n] \in [Requests -> Carried]
<1>. DEFINE x == [request EXCEPT ![r].pc = q]
            y == [x EXCEPT ![r].answer = a]
            z == [y EXCEPT ![r].since = n]
<1>1. x \in [Requests -> Carried]
  BY DEF Carried
<1>. HIDE DEF x
<1>2. y \in [Requests -> Carried]
  BY <1>1 DEF Carried
<1>. HIDE DEF y
<1>3. z \in [Requests -> Carried]
  BY <1>2 DEF Carried
<1>. HIDE DEF z
<1>4. [request EXCEPT ![r].pc = q, ![r].answer = a, ![r].since = n] = z
  BY DEF x, y, z
<1>. QED
  BY <1>3, <1>4

\* A step of a request that leaves issuer and cache alone and sends it to a place where it
\* holds no key.
LEMMA MovesOn ==
  ASSUME Inv, NEW r \in Requests, NEW new \in Carried,
         new.pc \notin {"fetching", "fetched", "known"},
         request' = [request EXCEPT ![r] = new],
         UNCHANGED <<now, issuer, cache>>
  PROVE  Inv'
BY DEF Inv, Typed, IssuerInv, AnswerInv, CacheInv, KnownInv, issuer

LEMMA BecomesKeepsInv ==
  ASSUME Inv, NEW r \in Requests, NEW pc \in Places \ {"fetching", "fetched", "known"},
         Becomes(r, pc), UNCHANGED <<now, issuer, cache>>
  PROVE  Inv'
<1>. DEFINE new == [Idle EXCEPT !.pc = pc]
<1>1. new \in Carried /\ new.pc = pc
  BY DEF Idle, Carried, Places
<1>2. request' = [request EXCEPT ![r] = new]
  BY DEF Becomes
<1>. HIDE DEF new
<1>. QED
  BY <1>1, <1>2, MovesOn

\* A token is judged under a key that was read from the cache at a time the cache vouches for.
LEMMA JudgeKeepsInv ==
  ASSUME Inv, NEW r \in Requests, NEW kid \in cache.keys, NEW claims,
         Judge(r, kid, claims), ~Expired \/ cache.at = now, UNCHANGED <<now, issuer, cache>>
  PROVE  Inv'
<1>1. now <= cache.at + CacheTTL
  BY DEF Expired, Inv, Typed
<1>2. now <= retired[kid] + CacheTTL + Timeout
  BY <1>1 DEF Inv, Typed, CacheInv
<1>3. CASE Becomes(r, "refused")
  BY <1>3, BecomesKeepsInv DEF Places
<1>4. CASE request' = [request EXCEPT ![r] = [Idle EXCEPT !.pc = "known", !.kid = kid, !.since = now]]
  <2>. DEFINE new == [Idle EXCEPT !.pc = "known", !.kid = kid, !.since = now]
  <2>1. new = [pc |-> "known", kid |-> kid, answer |-> {}, since |-> now, key |-> NoKey]
    BY WithKid
  <2>2. kid \in Kids /\ now \in Int
    BY DEF Inv, Typed
  <2>3. new \in Carried /\ new.pc = "known" /\ new.kid = kid /\ new.since = now
    BY <2>1, <2>2 DEF Carried, Places
  <2>4. request' = [request EXCEPT ![r] = new]
    BY <1>4
  <2>. HIDE DEF new
  <2>. QED
    BY <1>2, <2>2, <2>3, <2>4 DEF Inv, Typed, IssuerInv, AnswerInv, CacheInv, KnownInv, issuer
<1>. QED
  BY <1>3, <1>4 DEF Judge

LEMMA ValidatorKeepsInv ==
  ASSUME Inv, NEW r \in Requests,
         Lookup(r) \/ Ask(r) \/ FetchFails(r) \/ StoreKeys(r) \/ Reread(r)
  PROVE  Inv'
<1>1. CASE Lookup(r)
  <2>1. PICK kid \in Kids, claims \in Claims :
          IF ~Expired /\ kid \in cache.keys
          THEN Judge(r, kid, claims)
          ELSE request' = [request EXCEPT ![r].pc = "discovering", ![r].kid = kid]
    BY <1>1 DEF Lookup
  <2>2. UNCHANGED <<now, issuer, cache>>
    BY <1>1 DEF Lookup
  <2>3. CASE ~Expired /\ kid \in cache.keys
    BY <2>1, <2>2, <2>3, JudgeKeepsInv
  <2>4. CASE ~(~Expired /\ kid \in cache.keys)
    BY <2>1, <2>2, <2>4 DEF Inv, Typed, IssuerInv, AnswerInv, CacheInv, KnownInv, issuer, Carried,
       Places
  <2>. QED
    BY <2>3, <2>4
<1>2. CASE Ask(r)
  <2>1. /\ request' = [request EXCEPT ![r].pc = "fetching", ![r].answer = published, ![r].since = now]
        /\ UNCHANGED <<now, issuer, cache>>
    BY <1>2 DEF Ask
  <2>2. request' \in [Requests -> Carried]
    <3>1. request \in [Requests -> Carried] /\ published \in SUBSET Kids /\ now \in Int
      BY DEF Inv, Typed
    <3>2. "fetching" \in Places
      BY DEF Places
    <3>3. [request EXCEPT ![r].pc = "fetching", ![r].answer = published, ![r].since = now]
            \in [Requests -> Carried]
      BY <3>1, <3>2, WithAnswer
    <3>. QED
      BY <2>1, <3>3
  <2>3. /\ request'[r].pc = "fetching" /\ request'[r].answer = published /\ request'[r].since = now
        /\ \A s \in Requests \ {r} : request'[s] = request[s]
    BY <2>1 DEF Inv, Typed, Carried
  <2>4. \A k \in published : now <= retired[k]
    BY DEF Inv, Typed, IssuerInv
  <2>5. now <= now + Timeout /\ now <= now
    BY DEF Inv, Typed
  <2>6. Typed' /\ IssuerInv'
    BY <2>1, <2>2 DEF Inv, Typed, IssuerInv, issuer
  <2>7. AnswerInv'
    BY <2>1, <2>3, <2>4, <2>5 DEF Inv, AnswerInv, issuer
  <2>8. CacheInv' /\ KnownInv'
    BY <2>1, <2>3 DEF Inv, CacheInv, KnownInv, issuer
  <2>. QED
    BY <2>6, <2>7, <2>8 DEF Inv
<1>3. CASE FetchFails(r)
  BY <1>3, BecomesKeepsInv DEF FetchFails, Places
<1>4. CASE StoreKeys(r)
  <2>1. \A k \in request[r].answer : now <= retired[k] + Timeout
    BY <1>4 DEF StoreKeys, Inv, Typed, AnswerInv, Carried
  <2>. QED
    BY <1>4, <2>1 DEF StoreKeys, Inv, Typed, IssuerInv, AnswerInv, CacheInv, KnownInv, issuer,
       Carried, Places
<1>5. CASE Reread(r)
  <2>1. PICK claims \in Claims :
          IF request[r].kid \in cache.keys
          THEN Judge(r, request[r].kid, claims)
          ELSE Becomes(r, "refused")
    BY <1>5 DEF Reread
  <2>2. cache.at = now /\ UNCHANGED <<now, issuer, cache>>
    BY <1>5 DEF Reread, Inv, CacheInv
  <2>3. CASE request[r].kid \in cache.keys
    BY <2>1, <2>2, <2>3, JudgeKeepsInv
  <2>4. CASE request[r].kid \notin cache.keys
    BY <2>1, <2>2, <2>4, BecomesKeepsInv DEF Places
  <2>. QED
    BY <2>3, <2>4
<1>. QED
  BY <1>1, <1>2, <1>3, <1>4, <1>5

LEMMA LaterGatesKeepInv ==
  ASSUME Inv, NEW r \in Requests,
         Provision(r) \/ EnterTenant(r) \/ ReadClock(r) \/ Take(r) \/ FailOpen(r)
  PROVE  Inv'
<1>1. CASE Provision(r) \/ EnterTenant(r)
  BY <1>1, BecomesKeepsInv DEF Provision, EnterTenant, Places
<1>2. CASE ReadClock(r)
  <2>1. UNCHANGED <<now, issuer, cache>>
    BY <1>2 DEF ReadClock
  <2>2. PICK call \in Calls :
          IF RouteCategory(call) = "none"
          THEN Becomes(r, "passed")
          ELSE request' = [request EXCEPT ![r] =
                 [Idle EXCEPT !.pc = "counting", !.key = Key(call), !.since = now]]
    BY <1>2 DEF ReadClock
  <2>3. CASE RouteCategory(call) = "none"
    BY <2>1, <2>2, <2>3, BecomesKeepsInv DEF Places
  <2>4. CASE RouteCategory(call) # "none"
    <3>. DEFINE new == [Idle EXCEPT !.pc = "counting", !.key = Key(call), !.since = now]
    <3>1. Key(call) \in Keys
      BY <2>4 DEF Keys
    <3>2. new = [pc |-> "counting", kid |-> "none", answer |-> {}, since |-> now, key |-> Key(call)]
      BY WithKey
    <3>3. now \in Int
      BY DEF Inv, Typed
    <3>4. new \in Carried /\ new.pc = "counting"
      BY <3>1, <3>2, <3>3 DEF Carried, Places
    <3>5. request' = [request EXCEPT ![r] = new]
      BY <2>2, <2>4
    <3>. HIDE DEF new
    <3>. QED
      BY <2>1, <3>4, <3>5, MovesOn
  <2>. QED
    BY <2>3, <2>4
<1>3. CASE Take(r)
  <2>1. Becomes(r, "passed") \/ Becomes(r, "rejected")
    BY <1>3 DEF Take
  <2>2. UNCHANGED <<now, issuer, cache>>
    BY <1>3 DEF Take
  <2>. QED
    BY <2>1, <2>2, BecomesKeepsInv DEF Places
<1>4. CASE FailOpen(r)
  BY <1>4, BecomesKeepsInv DEF FailOpen, Places
<1>. QED
  BY <1>1, <1>2, <1>3, <1>4

LEMMA StepInv == Inv /\ [Next]_vars => Inv'
<1>. SUFFICES ASSUME Inv, [Next]_vars PROVE Inv'
  OBVIOUS
<1>. USE DEF Inv, Typed, IssuerInv, AnswerInv, CacheInv, KnownInv, issuer
<1>1. CASE UNCHANGED vars
  BY <1>1 DEF vars
<1>2. ASSUME NEW k \in Kids, Publish(k) PROVE Inv'
  BY <1>2 DEF Publish
<1>3. ASSUME NEW k \in Kids, Withdraw(k) PROVE Inv'
  BY <1>3 DEF Withdraw, Carried
<1>4. CASE Tick
  BY <1>4 DEF Tick, Carried
<1>. QED
  BY <1>1, <1>2, <1>3, <1>4, ValidatorKeepsInv, LaterGatesKeepInv DEF Next

\* A key the issuer has withdrawn is accepted no longer than the cache lives, plus the time an
\* answer may take on its way (auth/jwt.rs: get_key, fetch_jwks).
THEOREM WithdrawnKeysExpire == Spec => []RetiredKeysExpire
<1>1. Inv => RetiredKeysExpire
  BY DEF Inv, KnownInv, RetiredKeysExpire
<1>. QED
  BY <1>1, InitInv, StepInv, PTL DEF Spec

-------------------------------------------------------------------------------
(***************************************************************************)
(* The token bucket.                                                       *)
(***************************************************************************)
Bucket == [tokens : Int, ts : Int, touched : Int]
Grant  == [at : Int, slips : Int]

BucketTyped ==
  /\ bucket \in [Keys -> Bucket] /\ granted \in [Keys -> Seq(Grant)]
  /\ slips \in [Keys -> Int] /\ told \in [Keys -> Int]

\* The time a caller read is no older than Delay.
CountingInv == \A r \in Requests : request[r].pc = "counting" =>
                 request[r].key \in Keys /\ request[r].since <= now /\ now <= request[r].since + Delay

\* A bucket holds what fits into it; its clock is that of its last caller.
ClockInv == \A k \in Keys :
  /\ 0 <= bucket[k].tokens /\ bucket[k].tokens <= Full(k)
  /\ bucket[k].touched <= now
  /\ IF bucket[k].touched < 0
     THEN granted[k] = <<>> /\ told[k] < 0 /\ bucket[k].ts <= now
     ELSE bucket[k].ts <= bucket[k].touched /\ bucket[k].touched <= bucket[k].ts + Delay

\* The books of a bucket, since its i-th grant and between two grants.
Owed(k, i) == Full(k) + LimitOf(k) * (bucket[k].ts - granted[k][i].at
                                        + Delay * (1 + (slips[k] - granted[k][i].slips)))
CreditInv == \A k \in Keys : \A i \in 1..Len(granted[k]) :
  /\ granted[k][i].at <= bucket[k].touched /\ granted[k][i].slips <= slips[k]
  /\ (Len(granted[k]) - i + 1) * Window + bucket[k].tokens <= Owed(k, i)

\* What a rejected caller was told is when the bucket it left will hold a token.
ToldInv == \A k \in Keys : told[k] >= 0 =>
  told[k] = bucket[k].ts + Larger(1, DivUp(Window - bucket[k].tokens, LimitOf(k)))

BucketInv == BucketTyped /\ CountingInv /\ ClockInv /\ CreditInv /\ ToldInv /\ RateHolds

-------------------------------------------------------------------------------
\* Arithmetic of one call.  A bucket is refilled up to the caller's time t, ...
LEMMA CreditAfterRefill ==
  ASSUME NEW l \in Nat, NEW c \in Int, NEW k \in Int, NEW f \in Int, NEW s \in Int, NEW t \in Int,
         NEW a \in Int, NEW p \in Int, NEW k2 \in Int,
         c + k <= f + l * (s - a + Delay * (1 + p)), s <= t, k2 <= k + l * (t - s)
  PROVE  c + k2 <= f + l * (t - a + Delay * (1 + p))
OBVIOUS

LEMMA TimesNext == \A d, p, q \in Int : q = p + 1 => d * (1 + q) = d * (1 + p) + d /\ d * (1 + p) \in Int
OBVIOUS

LEMMA TimesWindow == \A a, i \in Int : (a + 1 - i + 1) * Window = (a - i + 1) * Window + Window
                                          /\ (a - i + 1) * Window \in Int
OBVIOUS

LEMMA TimesMonotone == \A l \in Nat, u, v \in Int : u <= v => l * u <= l * v /\ l * u \in Int /\ l * v \in Int
OBVIOUS

\* ... or it was dropped after two windows without a call and starts anew.
LEMMA CreditAfterDrop ==
  ASSUME NEW l \in Nat, NEW c \in Int, NEW k \in Nat, NEW s \in Int, NEW t \in Int,
         NEW a \in Int, NEW p \in Int, NEW k2 \in Int,
         c + k <= l * Window + l * (s - a + Delay * (1 + p)), s + Window <= t, k2 <= l * Window
  PROVE  c + k2 <= l * Window + l * (t - a + Delay * (1 + p))
<1>1. l * Window <= l * (t - s)
  OBVIOUS
<1>2. l * (t - a + Delay * (1 + p)) = l * (t - s) + l * (s - a + Delay * (1 + p))
  OBVIOUS
<1>. QED
  BY <1>1, <1>2

\* A bucket that is refilled at the rate l holds a token after the time that is rounded up.
LEMMA RefilledInTime ==
  ASSUME NEW l \in Nat \ {0}, NEW k \in Int, NEW d \in Int,
         d >= DivUp(Window - k, l)
  PROVE  k + l * d >= Window
<1>1. \A x \in Int : x <= l * ((x + l - 1) \div l) /\ (x + l - 1) \div l \in Int
  OBVIOUS
<1>2. DivUp(Window - k, l) \in Int /\ Window - k <= l * DivUp(Window - k, l)
  BY <1>1 DEF DivUp
<1>3. l * DivUp(Window - k, l) <= l * d
  BY <1>2
<1>. QED
  BY <1>2, <1>3

-------------------------------------------------------------------------------
LEMMA KeyFacts ==
  ASSUME NEW k \in Keys
  PROVE  LimitOf(k) \in Nat \ {0} /\ Full(k) = LimitOf(k) * Window /\ Full(k) \in Nat /\ Window <= Full(k)
<1>1. PICK call \in Calls : k = Key(call) /\ RouteCategory(call) # "none"
  BY DEF Keys
<1>2. RouteCategory(call) \in Categories
  BY <1>1 DEF RouteCategory, Categories
<1>3. k.category \in Categories
  BY <1>1, <1>2 DEF Key
<1>4. LimitOf(k) \in Nat \ {0}
  BY <1>3, LimitsAssumption DEF LimitOf
<1>5. \A l \in Nat \ {0} : l * Window \in Nat /\ Window <= l * Window
  OBVIOUS
<1>. QED
  BY <1>4, <1>5 DEF Full

LEMMA InitBucketInv == Init => BucketInv
<1>. SUFFICES ASSUME Init PROVE BucketInv
  OBVIOUS
<1>1. \A k \in Keys : Full(k) \in Nat
  BY KeyFacts
<1>2. <<>> \in Seq(Grant) /\ Len(<<>>) = 0
  OBVIOUS
<1>3. BucketTyped
  BY <1>2 DEF Init, BucketTyped, Bucket, NoBucket
<1>4. CountingInv
  BY DEF Init, CountingInv, Idle
<1>5. ClockInv
  BY <1>1 DEF Init, ClockInv, NoBucket
<1>6. CreditInv /\ ToldInv /\ RateHolds
  BY <1>2 DEF Init, CreditInv, ToldInv, RateHolds
<1>. QED
  BY <1>3, <1>4, <1>5, <1>6 DEF BucketInv

\* A step that leaves the buckets, and a clock that moves only when no call is late.
LEMMA BucketsLeftAlone ==
  ASSUME BucketInv, UNCHANGED <<bucket, history>>, CountingInv',
         now \in Int, now' \in Int, now <= now'
  PROVE  BucketInv'
<1>. USE DEF BucketInv, history
<1>1. BucketTyped'
  BY DEF BucketTyped
<1>2. ClockInv'
  BY DEF ClockInv, BucketTyped, Bucket, Full
<1>3. CreditInv'
  BY DEF CreditInv, Owed, Full
<1>4. ToldInv'
  BY DEF ToldInv
<1>5. RateHolds'
  BY DEF RateHolds, Full
<1>. QED
  BY <1>1, <1>2, <1>3, <1>4, <1>5

\* A request that moves to a place where it does not wait for the script.
LEMMA NotCounting ==
  ASSUME CountingInv, NEW r \in Requests, request \in [Requests -> Carried],
         NEW new, new.pc # "counting", request' = [request EXCEPT ![r] = new], now' = now
  PROVE  CountingInv'
BY DEF CountingInv

LEMMA BecomesNotCounting ==
  ASSUME CountingInv, NEW r \in Requests, request \in [Requests -> Carried],
         NEW pc, pc # "counting", Becomes(r, pc), now' = now
  PROVE  CountingInv'
<1>1. [Idle EXCEPT !.pc = pc].pc = pc
  BY DEF Idle
<1>. QED
  BY <1>1, NotCounting DEF Becomes

LEMMA JudgeNotCounting ==
  ASSUME CountingInv, NEW r \in Requests, request \in [Requests -> Carried],
         NEW kid, NEW claims, Judge(r, kid, claims), now' = now
  PROVE  CountingInv'
<1>. DEFINE new == [Idle EXCEPT !.pc = "known", !.kid = kid, !.since = now]
<1>1. new.pc = "known"
  BY WithKid
<1>2. CASE request' = [request EXCEPT ![r] = new]
  <2>. HIDE DEF new
  <2>. QED
    BY <1>1, <1>2, NotCounting
<1>3. CASE Becomes(r, "refused")
  BY <1>3, BecomesNotCounting
<1>. QED
  BY <1>2, <1>3 DEF Judge

LEMMA RequestsKeepBuckets ==
  ASSUME Inv, BucketInv, NEW r \in Requests,
         \/ Lookup(r) \/ Ask(r) \/ FetchFails(r) \/ StoreKeys(r) \/ Reread(r)
         \/ Provision(r) \/ EnterTenant(r) \/ ReadClock(r) \/ FailOpen(r)
  PROVE  BucketInv'
<1>0. request \in [Requests -> Carried] /\ now \in Int /\ CountingInv
  BY DEF Inv, Typed, BucketInv
<1>1. UNCHANGED <<now, bucket, history>>
  BY DEF Lookup, Ask, FetchFails, StoreKeys, Reread, Provision, EnterTenant, ReadClock, FailOpen
<1>2. CASE Lookup(r)
  <2>1. PICK kid \in Kids, claims \in Claims :
          \/ Judge(r, kid, claims)
          \/ request' = [request EXCEPT ![r].pc = "discovering", ![r].kid = kid]
    BY <1>2 DEF Lookup
  <2>2. ASSUME request' = [request EXCEPT ![r].pc = "discovering", ![r].kid = kid]
        PROVE  CountingInv'
    BY <1>0, <1>1, <2>2 DEF CountingInv, Carried
  <2>3. CountingInv'
    BY <1>0, <1>1, <2>1, <2>2, JudgeNotCounting
  <2>. QED
    BY <1>0, <1>1, <2>3, BucketsLeftAlone
<1>3. CASE Ask(r) \/ StoreKeys(r)
  <2>1. ASSUME Ask(r) PROVE CountingInv'
    BY <1>0, <1>1, <2>1 DEF Ask, CountingInv, Carried
  <2>2. ASSUME StoreKeys(r) PROVE CountingInv'
    BY <1>0, <1>1, <2>2 DEF StoreKeys, CountingInv, Carried
  <2>. QED
    BY <1>0, <1>1, <1>3, <2>1, <2>2, BucketsLeftAlone
<1>4. CASE FetchFails(r) \/ FailOpen(r) \/ Provision(r) \/ EnterTenant(r)
  <2>1. \E pc \in Places \ {"counting"} : Becomes(r, pc)
    BY <1>4 DEF FetchFails, FailOpen, Provision, EnterTenant, Places
  <2>2. CountingInv'
    BY <1>0, <1>1, <2>1, BecomesNotCounting
  <2>. QED
    BY <1>0, <1>1, <2>2, BucketsLeftAlone
<1>5. CASE Reread(r)
  <2>1. PICK claims \in Claims : Judge(r, request[r].kid, claims) \/ Becomes(r, "refused")
    BY <1>5 DEF Reread
  <2>2. CountingInv'
    BY <1>0, <1>1, <2>1, JudgeNotCounting, BecomesNotCounting
  <2>. QED
    BY <1>0, <1>1, <2>2, BucketsLeftAlone
<1>6. CASE ReadClock(r)
  <2>1. PICK call \in Calls :
          IF RouteCategory(call) = "none"
          THEN Becomes(r, "passed")
          ELSE request' = [request EXCEPT ![r] =
                 [Idle EXCEPT !.pc = "counting", !.key = Key(call), !.since = now]]
    BY <1>6 DEF ReadClock
  <2>2. CASE RouteCategory(call) = "none"
    BY <1>0, <1>1, <2>1, <2>2, BecomesNotCounting, BucketsLeftAlone
  <2>3. CASE RouteCategory(call) # "none"
    <3>. DEFINE new == [Idle EXCEPT !.pc = "counting", !.key = Key(call), !.since = now]
    <3>1. Key(call) \in Keys
      BY <2>3 DEF Keys
    <3>2. new = [pc |-> "counting", kid |-> "none", answer |-> {}, since |-> now, key |-> Key(call)]
      BY WithKey
    <3>3. request' = [request EXCEPT ![r] = new]
      BY <2>1, <2>3
    <3>4. new.key \in Keys /\ new.since = now
      BY <3>1, <3>2
    <3>. HIDE DEF new
    <3>5. CountingInv'
      BY <1>0, <1>1, <3>3, <3>4 DEF CountingInv
    <3>. QED
      BY <1>0, <1>1, <3>5, BucketsLeftAlone
  <2>. QED
    BY <2>2, <2>3
<1>. QED
  BY <1>2, <1>3, <1>4, <1>5, <1>6

LEMMA TickKeepsBuckets ==
  ASSUME Inv, BucketInv, Tick
  PROVE  BucketInv'
<1>1. now \in Int /\ now' = now + 1 /\ UNCHANGED <<request, bucket, history>>
  BY DEF Tick, Inv, Typed
<1>2. \A r \in Requests : request[r].since \in Int
  BY DEF Inv, Typed, Carried
<1>3. CountingInv'
  BY <1>1, <1>2 DEF Tick, BucketInv, CountingInv
<1>. QED
  BY <1>1, <1>3, BucketsLeftAlone

-------------------------------------------------------------------------------
\* The script finds some of what fits, and adds what fits.
LEMMA RefillFacts ==
  ASSUME BucketInv, NEW k \in Keys, NEW t \in Int, now \in Int
  PROVE  /\ Found(k, t).tokens \in 0..Full(k) /\ Found(k, t).ts \in Int
         /\ Refilled(k, t) \in 0..Full(k)
         /\ Refilled(k, t) <= Found(k, t).tokens + LimitOf(k) * Larger(0, t - Found(k, t).ts)
<1>1. bucket[k] \in Bucket /\ 0 <= bucket[k].tokens /\ bucket[k].tokens <= Full(k)
  BY DEF BucketInv, BucketTyped, ClockInv
<1>2. LimitOf(k) \in Nat /\ Full(k) \in Nat
  BY KeyFacts
<1>3. [bucket[k] EXCEPT !.tokens = Full(k), !.ts = t].tokens = Full(k)
  <2>. DEFINE x == [bucket[k] EXCEPT !.tokens = Full(k)]
  <2>1. x \in Bucket /\ x.tokens = Full(k)
    BY <1>1, <1>2 DEF Bucket
  <2>. HIDE DEF x
  <2>2. [x EXCEPT !.ts = t].tokens = Full(k)
    BY <2>1 DEF Bucket
  <2>. QED
    BY <2>2 DEF x
<1>a. [bucket[k] EXCEPT !.tokens = Full(k), !.ts = t].ts = t
  BY <1>1 DEF Bucket
<1>4. Found(k, t).tokens \in 0..Full(k) /\ Found(k, t).ts \in Int
  BY <1>1, <1>2, <1>3, <1>a DEF Bucket, Found
<1>5. Larger(0, t - Found(k, t).ts) \in Nat
  BY <1>4 DEF Larger
<1>6. \A a, b \in Nat : a * b \in Nat
  OBVIOUS
<1>7. LimitOf(k) * Larger(0, t - Found(k, t).ts) \in Nat
  BY <1>2, <1>5, <1>6
<1>. QED
  BY <1>2, <1>4, <1>7 DEF Refilled, Smaller

\* What was let through since a grant is covered by what the bucket is refilled to.
Slipped(k, t) == IF t < Found(k, t).ts THEN slips[k] + 1 ELSE slips[k]

LEMMA BooksBalance ==
  ASSUME BucketInv, NEW k \in Keys, NEW t \in Int, now \in Int, t <= now, now <= t + Delay,
         NEW i \in 1..Len(granted[k])
  PROVE  (Len(granted[k]) - i + 1) * Window + Refilled(k, t)
           <= Full(k) + LimitOf(k) * (t - granted[k][i].at
                                        + Delay * (1 + (Slipped(k, t) - granted[k][i].slips)))
<1>. DEFINE n == Len(granted[k])  c == (n - i + 1) * Window  g == granted[k][i]
            l == LimitOf(k)  f == Full(k)  x == bucket[k].tokens  s == bucket[k].ts
            q == Refilled(k, t)  p == slips[k] - g.slips
<1>1. /\ granted[k] \in Seq(Grant) /\ bucket[k] \in Bucket /\ slips[k] \in Int
      /\ n \in Nat /\ i \in Int
  BY DEF BucketInv, BucketTyped
<1>2. g \in Grant
  BY <1>1
<1>3. g.at \in Int /\ g.slips \in Int /\ p \in Int /\ s \in Int /\ bucket[k].touched \in Int
  BY <1>1, <1>2 DEF Grant, Bucket
<1>4. l \in Nat /\ f \in Nat /\ f = l * Window
  BY KeyFacts
<1>5. c \in Int
  BY <1>1
<1>6. x \in Nat /\ q \in Int /\ q <= f
  <2>1. q \in 0..f
    BY RefillFacts
  <2>2. x \in Int /\ 0 <= x
    BY <1>1 DEF BucketInv, ClockInv, Bucket
  <2>. QED
    BY <1>4, <2>1, <2>2
<1>7. c + x <= f + l * (s - g.at + Delay * (1 + p))
  BY DEF BucketInv, CreditInv, Owed
<1>8. bucket[k].touched >= 0 /\ s <= bucket[k].touched
  BY <1>1, <1>3 DEF BucketInv, ClockInv
<1>9. CASE Present(k)
  <2>1. Found(k, t) = bucket[k]
    BY <1>9 DEF Found
  <2>2. q <= x + l * Larger(0, t - s)
    BY <2>1, RefillFacts
  <2>3. CASE s <= t
    <3>1. Slipped(k, t) = slips[k]
      BY <2>1, <2>3, <1>3 DEF Slipped
    <3>2. q <= x + l * (t - s)
      BY <2>2, <2>3, <1>3 DEF Larger
    <3>. HIDE DEF c, g, l, f, x, s, q, p
    <3>3. c + q <= f + l * (t - g.at + Delay * (1 + p))
      BY <1>3, <1>4, <1>5, <1>6, <1>7, <2>3, <3>2, CreditAfterRefill
    <3>. QED
      BY <3>1, <3>3 DEF c, g, l, f, q, p
  <2>4. CASE t < s
    <3>1. Slipped(k, t) = slips[k] + 1
      BY <2>1, <2>4 DEF Slipped
    <3>2. Larger(0, t - s) = 0
      BY <2>4, <1>3 DEF Larger
    <3>3. q <= x
      BY <2>2, <3>2, <1>4, <1>6
    <3>4. s <= t + Delay
      BY <1>3, <1>8 DEF BucketInv, ClockInv
    <3>. DEFINE p2 == Slipped(k, t) - g.slips
    <3>5. p2 = p + 1 /\ p2 \in Int
      BY <1>1, <1>3, <3>1
    <3>. HIDE DEF c, g, l, f, x, s, q, p, p2
    <3>. DEFINE u == s - g.at + Delay * (1 + p)  v == t - g.at + Delay * (1 + p2)
    <3>a. Delay \in Nat
      OBVIOUS
    <3>b. Delay * (1 + p2) = Delay * (1 + p) + Delay /\ Delay * (1 + p) \in Int
      BY <1>3, <3>5, <3>a, TimesNext
    <3>6. u <= v /\ u \in Int /\ v \in Int
      BY <1>3, <3>4, <3>a, <3>b
    <3>7. c + x <= f + l * u
      BY <1>7
    <3>. HIDE DEF u, v
    <3>8. c + q <= f + l * v
      BY <1>4, <1>5, <1>6, <3>3, <3>6, <3>7, TimesMonotone
    <3>. QED
      BY <3>8 DEF c, g, l, f, q, p2, v
  <2>. QED
    BY <2>3, <2>4, <1>3
<1>10. CASE ~Present(k)
  <2>1. Found(k, t).ts = t
    BY <1>10, <1>1 DEF Found, Bucket
  <2>2. Slipped(k, t) = slips[k]
    BY <2>1 DEF Slipped
  <2>3. now >= bucket[k].touched + 2 * Window
    BY <1>3, <1>8, <1>10 DEF Present
  <2>4. s + Window <= t
    BY <1>3, <1>8, <2>3
  <2>. HIDE DEF c, g, l, f, x, s, q, p
  <2>5. c + q <= l * Window + l * (t - g.at + Delay * (1 + p))
    BY <1>3, <1>4, <1>5, <1>6, <1>7, <2>4, CreditAfterDrop
  <2>. QED
    BY <2>2, <2>5, <1>4 DEF c, g, l, f, q, p
<1>. QED
  BY <1>9, <1>10

\* What a call leaves of the bucket it finds.
Cost(k, t) == IF Allowed(k, t) THEN Window ELSE 0

\* The bucket after the call, and what it has let through.
LEMMA TakeLeaves ==
  ASSUME Inv, BucketInv, NEW r \in Requests, Take(r), NEW k, k = request[r].key,
         NEW t, t = request[r].since
  PROVE  /\ BucketTyped'
         /\ bucket'[k] = [tokens |-> Refilled(k, t) - Cost(k, t), ts |-> t, touched |-> now]
         /\ slips'[k] = Slipped(k, t) /\ slips[k] \in Int /\ slips'[k] \in {slips[k], slips[k] + 1}
         /\ \A o \in Keys \ {k} : /\ bucket'[o] = bucket[o] /\ slips'[o] = slips[o]
                                  /\ granted'[o] = granted[o] /\ told'[o] = told[o]
         /\ Refilled(k, t) \in 0..Full(k) /\ Cost(k, t) \in Int
         /\ Refilled(k, t) - Cost(k, t) >= 0
         /\ Allowed(k, t) => Cost(k, t) = Window /\ Refilled(k, t) >= Window
         /\ ~Allowed(k, t) => Cost(k, t) = 0
         /\ told'[k] = IF Allowed(k, t) THEN -1 ELSE t + RetryAfter(k, t)
         /\ granted'[k] = IF Allowed(k, t)
                          THEN Append(granted[k], [at |-> now, slips |-> Slipped(k, t)])
                          ELSE granted[k]
<1>1. k \in Keys /\ t \in Int /\ now \in Int /\ t <= now /\ now <= t + Delay
  BY DEF Inv, Typed, Carried, BucketInv, CountingInv, Take
<1>2. Refilled(k, t) \in 0..Full(k) /\ Found(k, t).ts \in Int
  BY <1>1, RefillFacts
<1>3. LimitOf(k) \in Nat \ {0} /\ Full(k) \in Nat
  BY <1>1, KeyFacts
<1>4. /\ Cost(k, t) \in Int /\ Refilled(k, t) - Cost(k, t) >= 0 /\ Refilled(k, t) - Cost(k, t) \in Int
      /\ Allowed(k, t) => Cost(k, t) = Window /\ Refilled(k, t) >= Window
      /\ ~Allowed(k, t) => Cost(k, t) = 0
  BY <1>2, <1>3 DEF Cost, Allowed
<1>5. /\ bucket \in [Keys -> Bucket] /\ granted \in [Keys -> Seq(Grant)]
      /\ slips \in [Keys -> Int] /\ told \in [Keys -> Int]
  BY DEF BucketInv, BucketTyped
<1>6. Slipped(k, t) \in {slips[k], slips[k] + 1} /\ slips[k] \in Int /\ Slipped(k, t) \in Int
  BY <1>1, <1>5 DEF Slipped
<1>7. [tokens |-> Refilled(k, t) - Cost(k, t), ts |-> t, touched |-> now] \in Bucket
  BY <1>1, <1>4 DEF Bucket
<1>8. [at |-> now, slips |-> Slipped(k, t)] \in Grant
  BY <1>1, <1>6 DEF Grant
<1>9. Append(granted[k], [at |-> now, slips |-> Slipped(k, t)]) \in Seq(Grant)
  BY <1>1, <1>5, <1>8
<1>10. t + RetryAfter(k, t) \in Int
  <2>1. \A x \in Int, l \in Nat \ {0} : (x + l - 1) \div l \in Int
    OBVIOUS
  <2>2. DivUp(Window - Refilled(k, t), LimitOf(k)) \in Int
    BY <1>2, <1>3, <2>1 DEF DivUp
  <2>. QED
    BY <1>1, <2>2 DEF RetryAfter, Larger
<1>a. bucket' = [bucket EXCEPT ![k] = [tokens |-> Refilled(k, t) - Cost(k, t),
                                       ts |-> t, touched |-> now]]
  BY DEF Take, Cost
<1>b. slips' = [slips EXCEPT ![k] = Slipped(k, t)]
  BY DEF Take, Slipped
<1>c. slips'[k] = Slipped(k, t)
  BY <1>1, <1>5, <1>b
<1>d. ASSUME Allowed(k, t)
      PROVE  /\ granted' \in [Keys -> Seq(Grant)] /\ told' \in [Keys -> Int]
             /\ \A o \in Keys \ {k} : granted'[o] = granted[o] /\ told'[o] = told[o]
             /\ told'[k] = IF Allowed(k, t) THEN -1 ELSE t + RetryAfter(k, t)
             /\ granted'[k] = IF Allowed(k, t)
                              THEN Append(granted[k], [at |-> now, slips |-> Slipped(k, t)])
                              ELSE granted[k]
  <2>1. /\ granted' = [granted EXCEPT ![k] = Append(granted[k], [at |-> now, slips |-> slips'[k]])]
        /\ told' = [told EXCEPT ![k] = -1]
    BY <1>d DEF Take
  <2>. QED
    BY <1>1, <1>5, <1>9, <1>c, <1>d, <2>1
<1>e. ASSUME ~Allowed(k, t)
      PROVE  /\ granted' \in [Keys -> Seq(Grant)] /\ told' \in [Keys -> Int]
             /\ \A o \in Keys \ {k} : granted'[o] = granted[o] /\ told'[o] = told[o]
             /\ told'[k] = IF Allowed(k, t) THEN -1 ELSE t + RetryAfter(k, t)
             /\ granted'[k] = IF Allowed(k, t)
                              THEN Append(granted[k], [at |-> now, slips |-> Slipped(k, t)])
                              ELSE granted[k]
  <2>1. told' = [told EXCEPT ![k] = t + RetryAfter(k, t)] /\ granted' = granted
    BY <1>e DEF Take
  <2>. QED
    BY <1>1, <1>5, <1>10, <1>e, <2>1
<1>11. bucket' \in [Keys -> Bucket] /\ slips' \in [Keys -> Int]
  BY <1>1, <1>5, <1>6, <1>7, <1>a, <1>b
<1>12. BucketTyped'
  BY <1>11, <1>d, <1>e DEF BucketTyped
<1>13. /\ bucket'[k] = [tokens |-> Refilled(k, t) - Cost(k, t), ts |-> t, touched |-> now]
       /\ slips'[k] = Slipped(k, t)
       /\ \A o \in Keys \ {k} : bucket'[o] = bucket[o] /\ slips'[o] = slips[o]
  BY <1>1, <1>5, <1>a, <1>b
<1>. QED
  BY <1>2, <1>4, <1>6, <1>12, <1>13, <1>d, <1>e

LEMMA TakeKeepsBuckets ==
  ASSUME Inv, BucketInv, NEW r \in Requests, Take(r)
  PROVE  BucketInv'
<1>. DEFINE k == request[r].key  t == request[r].since  q == Refilled(k, t)  c == Cost(k, t)
            n == Len(granted[k])  l == LimitOf(k)
<1>1. k \in Keys /\ t \in Int /\ now \in Int /\ t <= now /\ now <= t + Delay
  BY DEF Inv, Typed, Carried, BucketInv, CountingInv, Take
<1>2. now' = now /\ 0 <= now
  BY DEF Take, Inv, Typed
<1>3. CountingInv'
  <2>1. \E pc \in Places \ {"counting"} : Becomes(r, pc)
    BY DEF Take, Places
  <2>. QED
    BY <1>2, <2>1, BecomesNotCounting DEF Inv, Typed, BucketInv
<1>4. /\ BucketTyped' /\ BucketTyped
      /\ bucket'[k] = [tokens |-> q - c, ts |-> t, touched |-> now]
      /\ slips'[k] = Slipped(k, t) /\ slips[k] \in Int /\ slips'[k] \in {slips[k], slips[k] + 1}
      /\ \A o \in Keys \ {k} : /\ bucket'[o] = bucket[o] /\ slips'[o] = slips[o]
                               /\ granted'[o] = granted[o] /\ told'[o] = told[o]
      /\ q \in 0..Full(k) /\ c \in Int /\ q - c >= 0
      /\ Allowed(k, t) => c = Window /\ q >= Window
      /\ ~Allowed(k, t) => c = 0
      /\ told'[k] = IF Allowed(k, t) THEN -1 ELSE t + RetryAfter(k, t)
      /\ granted'[k] = IF Allowed(k, t)
                       THEN Append(granted[k], [at |-> now, slips |-> Slipped(k, t)])
                       ELSE granted[k]
  BY TakeLeaves DEF BucketInv
<1>5. l \in Nat \ {0} /\ Full(k) \in Nat /\ Full(k) = l * Window /\ Window <= Full(k)
  BY <1>1, KeyFacts
<1>6. granted[k] \in Seq(Grant) /\ n \in Nat
  BY <1>1, <1>4 DEF BucketTyped
<1>7. ClockInv'
  <2>1. \A o \in Keys \ {k} : bucket'[o] = bucket[o] /\ granted'[o] = granted[o] /\ told'[o] = told[o]
    BY <1>4
  <2>2. \A o \in Keys : Full(o)' = Full(o)
    BY DEF Full
  <2>3. bucket'[k].tokens = q - c /\ bucket'[k].ts = t /\ bucket'[k].touched = now
    BY <1>4
  <2>4. 0 <= q - c /\ q - c <= Full(k)
    BY <1>4, <1>5
  <2>5. ASSUME NEW o \in Keys
        PROVE  /\ 0 <= bucket'[o].tokens /\ bucket'[o].tokens <= Full(o)
               /\ bucket'[o].touched <= now'
               /\ IF bucket'[o].touched < 0
                  THEN granted'[o] = <<>> /\ told'[o] < 0 /\ bucket'[o].ts <= now'
                  ELSE bucket'[o].ts <= bucket'[o].touched /\ bucket'[o].touched <= bucket'[o].ts + Delay
    <3>1. CASE o = k
      BY <1>1, <1>2, <2>3, <2>4, <3>1
    <3>2. CASE o # k
      BY <1>2, <2>1, <3>2 DEF BucketInv, ClockInv
    <3>. QED
      BY <3>1, <3>2
  <2>. QED
    BY <2>2, <2>5 DEF ClockInv
<1>8. \A i \in 1..n : /\ granted[k][i] \in Grant /\ granted[k][i].at \in Int /\ granted[k][i].slips \in Int
                      /\ granted[k][i].at <= now /\ granted[k][i].slips <= slips[k]
                      /\ (n - i + 1) * Window + q
                           <= Full(k) + l * (t - granted[k][i].at
                                               + Delay * (1 + (slips'[k] - granted[k][i].slips)))
  <2>. SUFFICES ASSUME NEW i \in 1..n
                PROVE  /\ granted[k][i] \in Grant /\ granted[k][i].at \in Int /\ granted[k][i].slips \in Int
                       /\ granted[k][i].at <= now /\ granted[k][i].slips <= slips[k]
                       /\ (n - i + 1) * Window + q
                            <= Full(k) + l * (t - granted[k][i].at
                                                + Delay * (1 + (slips'[k] - granted[k][i].slips)))
    OBVIOUS
  <2>1. granted[k][i] \in Grant
    BY <1>6
  <2>2. granted[k][i].at \in Int /\ granted[k][i].slips \in Int
    BY <2>1 DEF Grant
  <2>3. granted[k][i].at <= bucket[k].touched /\ granted[k][i].slips <= slips[k]
    BY <1>1 DEF BucketInv, CreditInv
  <2>4. bucket[k].touched <= now /\ bucket[k].touched \in Int
    BY <1>1, <1>4 DEF BucketInv, ClockInv, BucketTyped, Bucket
  <2>5. (n - i + 1) * Window + q
          <= Full(k) + l * (t - granted[k][i].at
                              + Delay * (1 + (Slipped(k, t) - granted[k][i].slips)))
    BY <1>1, BooksBalance
  <2>6. slips'[k] = Slipped(k, t)
    BY <1>4
  <2>7. granted[k][i].at <= now
    BY <1>1, <2>2, <2>3, <2>4
  <2>. QED
    BY <2>1, <2>2, <2>3, <2>5, <2>6, <2>7
<1>9. \A i \in 1..n : granted'[k][i] = granted[k][i]
  BY <1>4, <1>6
<1>a. \A o \in Keys : Full(o)' = Full(o)
  BY DEF Full
<1>b. bucket'[k].tokens = q - c /\ bucket'[k].ts = t /\ bucket'[k].touched = now
  BY <1>4
<1>10. ASSUME Allowed(k, t)
       PROVE  /\ Len(granted'[k]) = n + 1
              /\ granted'[k][n + 1].at = now /\ granted'[k][n + 1].slips = slips'[k]
              /\ \A i \in 1..n : (n + 1 - i + 1) * Window + (q - c)
                                  <= Full(k) + l * (t - granted[k][i].at
                                       + Delay * (1 + (slips'[k] - granted[k][i].slips)))
              /\ (n + 1 - (n + 1) + 1) * Window + (q - c) <= Full(k)
              /\ l * (t - now + Delay * (1 + (slips'[k] - slips'[k]))) >= 0
              /\ l * (now - now + Delay * (1 + (slips'[k] - slips'[k]))) >= 0
              /\ told'[k] = -1
  <2>. DEFINE new == granted'[k][n + 1]
  <2>1. Len(granted'[k]) = n + 1 /\ new = [at |-> now, slips |-> slips'[k]]
    BY <1>4, <1>6, <1>10
  <2>2. new.at = now /\ new.slips = slips'[k]
    BY <2>1
  <2>3. \A i \in 1..n : (n + 1 - i + 1) * Window + (q - c) = (n - i + 1) * Window + q
    BY <1>4, <1>5, <1>6, <1>10, TimesWindow
  <2>4. \A i \in 1..n : (n + 1 - i + 1) * Window + (q - c)
                           <= Full(k) + l * (t - granted[k][i].at
                                + Delay * (1 + (slips'[k] - granted[k][i].slips)))
    <3>. SUFFICES ASSUME NEW i \in 1..n
                  PROVE  (n + 1 - i + 1) * Window + (q - c)
                           <= Full(k) + l * (t - granted[k][i].at
                                + Delay * (1 + (slips'[k] - granted[k][i].slips)))
      OBVIOUS
    <3>1. (n - i + 1) * Window + q
            <= Full(k) + l * (t - granted[k][i].at
                                + Delay * (1 + (slips'[k] - granted[k][i].slips)))
      BY <1>8
    <3>. QED
      BY <2>3, <3>1
  <2>5. slips'[k] \in Int
    BY <1>4
  <2>6. slips'[k] - slips'[k] = 0 /\ Delay * (1 + (slips'[k] - slips'[k])) = Delay /\ now - now = 0
    BY <1>1, <2>5
  <2>7. t - now + Delay \in Nat /\ 0 + Delay \in Nat
    BY <1>1
  <2>8. \A a \in Nat : l * a >= 0
    BY <1>5
  <2>9. /\ l * (t - now + Delay * (1 + (slips'[k] - slips'[k]))) >= 0
        /\ l * (now - now + Delay * (1 + (slips'[k] - slips'[k]))) >= 0
    BY <2>6, <2>7, <2>8
  <2>10. (n + 1 - (n + 1) + 1) * Window + (q - c) <= Full(k)
    BY <1>4, <1>5, <1>6, <1>10
  <2>. QED
    BY <2>1, <2>2, <2>4, <2>9, <2>10, <1>4, <1>10
<1>11. ASSUME ~Allowed(k, t)
       PROVE  granted'[k] = granted[k] /\ c = 0 /\ told'[k] = t + RetryAfter(k, t)
  BY <1>4, <1>11
<1>12. CreditInv'
  <2>. SUFFICES ASSUME NEW o \in Keys, NEW i \in 1..Len(granted'[o])
                PROVE  /\ granted'[o][i].at <= bucket'[o].touched /\ granted'[o][i].slips <= slips'[o]
                       /\ (Len(granted'[o]) - i + 1) * Window + bucket'[o].tokens <= Owed(o, i)'
    BY DEF CreditInv
  <2>0. Owed(o, i)' = Full(o) + LimitOf(o) * (bucket'[o].ts - granted'[o][i].at
                                                + Delay * (1 + (slips'[o] - granted'[o][i].slips)))
    BY DEF Owed, Full
  <2>1. CASE o # k
    <3>1. Owed(o, i)' = Owed(o, i)
      BY <1>4, <2>0, <2>1 DEF Owed
    <3>2. bucket'[o] = bucket[o] /\ slips'[o] = slips[o] /\ granted'[o] = granted[o]
      BY <1>4, <2>1
    <3>. QED
      BY <3>1, <3>2 DEF BucketInv, CreditInv
  <2>2. ASSUME o = k, i \in 1..n, granted'[k][i] = granted[k][i]
        PROVE  granted'[o][i].at <= bucket'[o].touched /\ granted'[o][i].slips <= slips'[o]
    <3>1. granted[k][i].at <= now /\ granted[k][i].slips <= slips[k] /\ granted[k][i].slips \in Int
      BY <1>8, <2>2
    <3>2. slips[k] <= slips'[k] /\ slips[k] \in Int /\ slips'[k] \in Int
      BY <1>4
    <3>. QED
      BY <1>b, <2>2, <3>1, <3>2
  <2>3. CASE o = k /\ Allowed(k, t) /\ i \in 1..n
    <3>1. (n + 1 - i + 1) * Window + (q - c)
            <= Full(k) + l * (t - granted[k][i].at
                 + Delay * (1 + (slips'[k] - granted[k][i].slips)))
      BY <1>10, <2>3
    <3>2. Len(granted'[k]) = n + 1 /\ granted'[k][i] = granted[k][i]
      BY <1>9, <1>10, <2>3
    <3>. QED
      BY <1>b, <2>0, <2>2, <2>3, <3>1, <3>2
  <2>4. CASE o = k /\ Allowed(k, t) /\ i = n + 1
    <3>1. /\ Len(granted'[k]) = n + 1
          /\ granted'[k][i].at = now /\ granted'[k][i].slips = slips'[k]
          /\ (n + 1 - (n + 1) + 1) * Window + (q - c) <= Full(k)
          /\ l * (t - now + Delay * (1 + (slips'[k] - slips'[k]))) >= 0
      BY <1>10, <2>4
    <3>2. slips'[k] \in Int /\ now \in Int
      BY <1>1, <1>4
    <3>. DEFINE e == l * (t - now + Delay * (1 + (slips'[k] - slips'[k])))
                w == (n + 1 - (n + 1) + 1) * Window + (q - c)
    <3>3. Owed(o, i)' = Full(k) + e
      BY <1>b, <2>0, <2>4, <3>1
    <3>4. (Len(granted'[o]) - i + 1) * Window + bucket'[o].tokens = w
      <4>1. Len(granted'[o]) = n + 1 /\ i = n + 1 /\ bucket'[o].tokens = q - c
        BY <1>b, <2>4, <3>1
      <4>. QED
        BY <4>1
    <3>5. w <= Full(k) /\ e >= 0 /\ w \in Int /\ e \in Int
      <4>1. w \in Int /\ w <= Full(k)
        BY <1>4, <1>5, <1>6, <3>1
      <4>2. slips'[k] - slips'[k] = 0 /\ Delay \in Int
        BY <3>2
      <4>3. l * (t - now + Delay * (1 + 0)) \in Int
        BY <1>1, <1>5, <4>2
      <4>4. e = l * (t - now + Delay * (1 + 0))
        BY <4>2
      <4>. QED
        BY <3>1, <4>1, <4>3, <4>4
    <3>6. w <= Full(k) + e
      <4>. HIDE DEF w, e
      <4>. QED
        BY <1>5, <3>5
    <3>. QED
      BY <1>b, <2>4, <3>1, <3>2, <3>3, <3>4, <3>6
  <2>5. CASE o = k /\ ~Allowed(k, t)
    <3>1. granted'[k] = granted[k] /\ c = 0
      BY <1>11, <2>5
    <3>2. i \in 1..n
      BY <2>5, <3>1
    <3>3. (n - i + 1) * Window + q
            <= Full(k) + l * (t - granted[k][i].at
                                + Delay * (1 + (slips'[k] - granted[k][i].slips)))
      BY <1>8, <3>2
    <3>4. q - c = q
      BY <1>4, <1>5, <3>1
    <3>. QED
      BY <1>b, <2>0, <2>2, <2>5, <3>1, <3>2, <3>3, <3>4
  <2>. QED
    BY <1>6, <1>10, <2>1, <2>3, <2>4, <2>5
<1>13. ToldInv'
  <2>. SUFFICES ASSUME NEW o \in Keys, told'[o] >= 0
                PROVE  told'[o] = bucket'[o].ts + Larger(1, DivUp(Window - bucket'[o].tokens, LimitOf(o)))
    BY DEF ToldInv
  <2>1. CASE o # k
    BY <1>4, <2>1 DEF BucketInv, ToldInv
  <2>2. CASE o = k /\ ~Allowed(k, t)
    <3>1. c = 0 /\ told'[k] = t + RetryAfter(k, t)
      BY <1>11, <2>2
    <3>2. q - c = q
      BY <1>4, <1>5, <3>1
    <3>. QED
      BY <1>b, <2>2, <3>1, <3>2 DEF RetryAfter
  <2>3. CASE o = k /\ Allowed(k, t)
    BY <1>10, <2>3
  <2>. QED
    BY <2>1, <2>2, <2>3
<1>14. RateHolds'
  <2>. DEFINE R(o, i, j) ==
         (j - i + 1) * Window
           <= Full(o) + LimitOf(o) * (granted'[o][j].at - granted'[o][i].at
                                        + Delay * (1 + (granted'[o][j].slips - granted'[o][i].slips)))
  <2>. SUFFICES ASSUME NEW o \in Keys, NEW i \in 1..Len(granted'[o]), NEW j \in 1..Len(granted'[o]), i <= j
                PROVE  R(o, i, j)
    BY <1>a DEF RateHolds
  <2>1. ASSUME NEW p \in Keys, NEW a \in 1..Len(granted[p]), NEW b \in 1..Len(granted[p]), a <= b,
               granted'[p][a] = granted[p][a], granted'[p][b] = granted[p][b]
        PROVE  R(p, a, b)
    BY <2>1 DEF BucketInv, RateHolds
  <2>2. CASE o # k \/ (o = k /\ ~Allowed(k, t))
    <3>1. granted'[o] = granted[o]
      BY <1>4, <1>11, <2>2
    <3>. QED
      BY <2>1, <3>1
  <2>3. CASE o = k /\ Allowed(k, t) /\ j \in 1..n
    <3>1. i \in 1..n
      BY <1>6, <2>3
    <3>. QED
      BY <1>1, <1>9, <2>1, <2>3, <3>1
  <2>4. CASE o = k /\ Allowed(k, t) /\ j = n + 1 /\ i \in 1..n
    <3>. DEFINE s == Delay * (1 + (slips'[k] - granted[k][i].slips))
                w == (n + 1 - i + 1) * Window
                u == t - granted[k][i].at + s
                v == now - granted[k][i].at + s
    <3>1. w + (q - c) <= Full(k) + l * u
      BY <1>10, <2>4
    <3>2. s \in Int /\ w \in Int /\ granted[k][i].at \in Int
      <4>1. granted[k][i].at \in Int /\ granted[k][i].slips \in Int
        BY <1>8, <2>4
      <4>2. slips'[k] \in Int /\ n + 1 - i + 1 \in Int
        BY <1>4, <1>6, <2>4
      <4>3. \A a, b \in Int : 1 + (a - b) \in Int
        OBVIOUS
      <4>4. 1 + (slips'[k] - granted[k][i].slips) \in Int
        BY Zenon, <4>1, <4>2, <4>3
      <4>. DEFINE y == 1 + (slips'[k] - granted[k][i].slips)  z == n + 1 - i + 1
      <4>5. y \in Int /\ z \in Int
        BY <4>2, <4>4
      <4>. HIDE DEF y, z
      <4>6. Delay * y \in Int /\ z * Window \in Int
        BY <4>5
      <4>7. s = Delay * y /\ w = z * Window
        BY Zenon DEF y, z
      <4>. HIDE DEF s, w
      <4>. QED
        BY <4>1, <4>6, <4>7
    <3>3. u \in Int /\ v \in Int /\ u <= v
      <4>. DEFINE x == granted[k][i].at
      <4>1. x \in Int /\ s \in Int /\ t \in Int /\ now \in Int /\ t <= now
        BY <1>1, <3>2
      <4>. HIDE DEF s, x, t
      <4>2. t - x + s \in Int /\ now - x + s \in Int /\ t - x + s <= now - x + s
        BY <4>1
      <4>. QED
        BY <4>2 DEF x
    <3>4. l * u <= l * v /\ l * u \in Int /\ l * v \in Int
      <4>. HIDE DEF u, v, l
      <4>. QED
        BY <1>5, <3>3, TimesMonotone
    <3>5. w <= Full(k) + l * v
      <4>1. q - c \in Int /\ q - c >= 0
        BY <1>4, <1>5
      <4>. DEFINE x == q - c  y == l * u  z == l * v
      <4>2. w + x <= Full(k) + y /\ y <= z /\ y \in Int /\ z \in Int /\ x \in Int /\ x >= 0
        BY <3>1, <3>4, <4>1
      <4>. HIDE DEF w, x, y, z
      <4>3. w <= Full(k) + z
        BY <1>5, <3>2, <4>2
      <4>. QED
        BY <4>3 DEF z
    <3>6. granted'[k][j].at = now /\ granted'[k][j].slips = slips'[k] /\ granted'[k][i] = granted[k][i]
      BY <1>9, <1>10, <2>4
    <3>. QED
      BY <2>4, <3>5, <3>6
  <2>5. CASE o = k /\ Allowed(k, t) /\ j = n + 1 /\ i = n + 1
    <3>1. l * (now - now + Delay * (1 + (slips'[k] - slips'[k]))) >= 0
      BY <1>10, <2>5
    <3>2. granted'[k][j].at = now /\ granted'[k][j].slips = slips'[k]
      BY <1>10, <2>5
    <3>3. (n + 1 - (n + 1) + 1) * Window = Window
      BY <1>6
    <3>. DEFINE e == l * (now - now + Delay * (1 + (slips'[k] - slips'[k])))
    <3>4. e \in Int /\ e >= 0
      BY <1>1, <1>4, <1>5, <3>1
    <3>5. Window <= Full(k) + e
      <4>. HIDE DEF e
      <4>. QED
        BY <1>5, <3>4
    <3>. QED
      BY <2>5, <3>2, <3>3, <3>5
  <2>6. \/ o # k \/ (o = k /\ ~Allowed(k, t)) \/ (o = k /\ Allowed(k, t) /\ j \in 1..n)
        \/ (o = k /\ Allowed(k, t) /\ j = n + 1 /\ i \in 1..n)
        \/ (o = k /\ Allowed(k, t) /\ j = n + 1 /\ i = n + 1)
    BY <1>6, <1>10
  <2>. HIDE DEF R
  <2>. QED
    BY <2>2, <2>3, <2>4, <2>5, <2>6
<1>. QED
  BY <1>3, <1>4, <1>7, <1>12, <1>13, <1>14 DEF BucketInv

LEMMA StepBucketInv == Inv /\ BucketInv /\ [Next]_vars => BucketInv'
<1>. SUFFICES ASSUME Inv, BucketInv, [Next]_vars PROVE BucketInv'
  OBVIOUS
<1>1. now \in Int
  BY DEF Inv, Typed
<1>2. ASSUME NEW k \in Kids, Publish(k) \/ Withdraw(k) PROVE BucketInv'
  <2>1. UNCHANGED <<now, request, bucket, history>>
    BY <1>2 DEF Publish, Withdraw
  <2>2. CountingInv'
    BY <2>1 DEF BucketInv, CountingInv
  <2>. QED
    BY <1>1, <2>1, <2>2, BucketsLeftAlone
<1>3. CASE UNCHANGED vars
  <2>1. UNCHANGED <<now, request, bucket, history>>
    BY <1>3 DEF vars
  <2>2. CountingInv'
    BY <2>1 DEF BucketInv, CountingInv
  <2>. QED
    BY <1>1, <2>1, <2>2, BucketsLeftAlone
<1>4. CASE Tick
  BY <1>4, TickKeepsBuckets
<1>5. ASSUME NEW r \in Requests, Take(r) PROVE BucketInv'
  BY <1>5, TakeKeepsBuckets
<1>6. ASSUME NEW r \in Requests,
             \/ Lookup(r) \/ Ask(r) \/ FetchFails(r) \/ StoreKeys(r) \/ Reread(r)
             \/ Provision(r) \/ EnterTenant(r) \/ ReadClock(r) \/ FailOpen(r)
      PROVE  BucketInv'
  BY <1>6, RequestsKeepBuckets
<1>. QED
  BY <1>2, <1>3, <1>4, <1>5, <1>6 DEF Next

\* Among any number of requests a bucket lets through there are no more than its limit, what
\* is refilled in the time they span, and Delay for each time its clock slipped back
\* (middleware/rate_limit.rs: TOKEN_BUCKET_LUA).
THEOREM TheRateIsHeld == Spec => []RateHolds
<1>1. Inv /\ BucketInv => RateHolds
  BY DEF BucketInv
<1>. QED
  BY <1>1, InitInv, StepInv, InitBucketInv, StepBucketInv, PTL DEF Spec

\* A rejected caller who comes back when Retry-After said finds a token, if nobody was let in
\* since (middleware/rate_limit.rs: TOKEN_BUCKET_LUA, rate_limit_error).
THEOREM RetryAfterIsEnough == Spec => []RetryAfterSuffices
<1>1. Inv /\ BucketInv => RetryAfterSuffices
  <2>. SUFFICES ASSUME Inv, BucketInv, NEW k \in Keys, told[k] >= 0, now >= told[k]
                PROVE  Allowed(k, now)
    BY DEF RetryAfterSuffices
  <2>1. now \in Int /\ LimitOf(k) \in Nat \ {0} /\ Full(k) \in Nat /\ Window <= Full(k)
    BY KeyFacts DEF Inv, Typed
  <2>2. bucket[k] \in Bucket
    BY DEF BucketInv, BucketTyped
  <2>3. bucket[k].tokens \in Int /\ bucket[k].ts \in Int
    BY <2>2 DEF Bucket
  <2>4. told[k] = bucket[k].ts + Larger(1, DivUp(Window - bucket[k].tokens, LimitOf(k)))
    BY DEF BucketInv, ToldInv
  <2>5. DivUp(Window - bucket[k].tokens, LimitOf(k)) \in Int
    <3>1. \A x \in Int, l \in Nat \ {0} : (x + l - 1) \div l \in Int
      OBVIOUS
    <3>. QED
      BY <2>1, <2>3, <3>1 DEF DivUp
  <2>6. now - bucket[k].ts >= DivUp(Window - bucket[k].tokens, LimitOf(k)) /\ now - bucket[k].ts >= 1
    BY <2>1, <2>3, <2>4, <2>5 DEF Larger
  <2>7. bucket[k].tokens + LimitOf(k) * (now - bucket[k].ts) >= Window
    <3>. DEFINE x == bucket[k].tokens  d == now - bucket[k].ts  l == LimitOf(k)
    <3>1. l \in Nat \ {0} /\ x \in Int /\ d \in Int /\ d >= DivUp(Window - x, l)
      BY <2>1, <2>3, <2>6
    <3>. HIDE DEF x, d, l
    <3>2. x + l * d >= Window
      BY <3>1, RefilledInTime
    <3>. QED
      BY <3>2 DEF x, d, l
  <2>8. CASE Present(k)
    <3>1. Larger(0, now - bucket[k].ts) = now - bucket[k].ts
      BY <2>1, <2>3, <2>6 DEF Larger
    <3>2. Refilled(k, now) = Smaller(Full(k), bucket[k].tokens + LimitOf(k) * (now - bucket[k].ts))
      BY <2>8, <3>1 DEF Refilled, Found
    <3>. QED
      BY <2>1, <2>7, <3>2 DEF Allowed, Smaller
  <2>9. CASE ~Present(k)
    <3>. DEFINE x == [bucket[k] EXCEPT !.tokens = Full(k)]
    <3>1. x \in Bucket /\ x.tokens = Full(k)
      BY <2>1, <2>2 DEF Bucket
    <3>2. Found(k, now) = [x EXCEPT !.ts = now]
      BY <2>2, <2>9 DEF Found, Bucket
    <3>. HIDE DEF x
    <3>3. Found(k, now).tokens = Full(k) /\ Found(k, now).ts = now
      BY <3>1, <3>2 DEF Bucket
    <3>4. Larger(0, now - now) = 0 /\ LimitOf(k) * 0 = 0
      BY <2>1 DEF Larger
    <3>5. Refilled(k, now) = Full(k)
      BY <2>1, <3>3, <3>4 DEF Refilled, Smaller
    <3>. QED
      BY <2>1, <3>5 DEF Allowed
  <2>. QED
    BY <2>8, <2>9
<1>. QED
  BY <1>1, InitInv, StepInv, InitBucketInv, StepBucketInv, PTL DEF Spec
==================================================================================
