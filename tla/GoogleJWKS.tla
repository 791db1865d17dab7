----------------------------- MODULE GoogleJWKS -----------------------------
(***************************************************************************)
(* GoogleTokenValidator of server/oauth_google.go: the cache of Google's   *)
(* signing keys.  Several /callback requests look keys up at once; the     *)
(* RWMutex covers the two look-ups and the store, but not the fetch, so    *)
(* fetches overlap and their answers are stored in any order.              *)
(*                                                                         *)
(* Google publishes a key before it signs with it and rotates its keys now *)
(* and then.  The scale of time is that of the HTTP client's timeout: what *)
(* a goroutine does between receiving an answer and returning takes none.  *)
(***************************************************************************)
EXTENDS Integers, GoMap

CONSTANTS
  Goroutines,
  NumKids,         \* how many keys Google publishes in the course of time
  MaxAges,         \* what parseCacheControlMaxAge may return, 0 if there is none
  FallbackTTL,     \* jwksFallbackTTL
  FetchTimeout,    \* httpClient.Timeout
  MaxTime          \* bound: the clock stops here

ASSUME JWKSAssumption ==
  /\ NumKids \in Nat /\ NumKids >= 2
  /\ MaxAges \subseteq Int
  /\ FallbackTTL \in Nat \ {0} /\ FetchTimeout \in Nat /\ MaxTime \in Nat

VARIABLES
  now,
  publishedAt,     \* Google: kid -> when it was published
  withdrawnAt,     \* Google: kid -> when it was withdrawn
  jwks,            \* v.jwks: the kids of the keys cached
  jwksExpiry,      \* v.jwksExpiry
  pc,              \* where each getKey is
  call             \* what a getKey under way looks for, since when, and the
                   \* answer to its fetch: the kids and when they expire

vars == <<now, publishedAt, withdrawnAt, jwks, jwksExpiry, pc, call>>

(* Key ids, in the order in which the keys are published.                  *)
Kids == 1..NumKids

google == <<publishedAt, withdrawnAt>>
cache  == <<jwks, jwksExpiry>>

Published == DOMAIN publishedAt \ DOMAIN withdrawnAt

Goto(g, label) == pc' = [pc EXCEPT ![g] = label]

NewCall(k) == [kid |-> k, since |-> now, keys |-> {}, expiry |-> 0]

(* Mutant: a max-age that is not positive is used as it is.                *)
TTLUnchecked(maxAge) == maxAge

TTL(maxAge) == IF maxAge > 0 THEN maxAge ELSE FallbackTTL

ASSUME BoundedTTL == \E m \in MaxAges : \A n \in MaxAges : TTL(n) <= TTL(m)

LongestTTL == CHOOSE t \in {TTL(m) : m \in MaxAges} : \A m \in MaxAges : TTL(m) <= t

-----------------------------------------------------------------------------
JWKSInit ==
  /\ now = 0
  /\ publishedAt = [k \in {1, 2} |-> 0]
  /\ withdrawnAt = EmptyMap
  /\ jwks = {} /\ jwksExpiry = 0
  /\ pc = [g \in Goroutines |-> "idle"]
  /\ call = EmptyMap

(* Mutant: an unexpired cache without the key is taken at its word.        *)
getKeyNoRefetch(g, k) ==
  /\ pc[g] = "idle"
  /\ call' = Put(call, g, NewCall(k))
  /\ Goto(g, IF now >= jwksExpiry THEN "fetch"
             ELSE IF k \in jwks THEN "found" ELSE "missing")
  /\ UNCHANGED <<now, google, cache>>

(* Mutant: the expiry is not looked at.                                    *)
getKeyAnyAge(g, k) ==
  /\ pc[g] = "idle"
  /\ call' = Put(call, g, NewCall(k))
  /\ Goto(g, IF k \in jwks THEN "found" ELSE "fetch")
  /\ UNCHANGED <<now, google, cache>>

(* getKey up to its fetch.                                                 *)
getKey(g, k) ==
  /\ pc[g] = "idle"
  /\ call' = Put(call, g, NewCall(k))
  /\ Goto(g, IF now < jwksExpiry /\ k \in jwks THEN "found" ELSE "fetch")
  /\ UNCHANGED <<now, google, cache>>

(* Google answers a fetch with the keys of this moment.                    *)
GoogleAnswers(g) ==
  /\ pc[g] = "fetch"
  /\ call' = [call EXCEPT ![g].keys = Published]
  /\ Goto(g, "answered")
  /\ UNCHANGED <<now, google, cache>>

(* fetchJWKS: the answer arrives before the client's timeout.              *)
AnswerArrives(g, maxAge) ==
  /\ pc[g] = "answered"
  /\ now - call[g].since <= FetchTimeout
  /\ call' = [call EXCEPT ![g].expiry = now + TTL(maxAge)]
  /\ Goto(g, "store")
  /\ UNCHANGED <<now, google, cache>>

(* fetchJWKS: a timeout, an HTTP error, an answer that does not decode, or *)
(* a single key in it that does not parse.  getKey returns the error.      *)
FetchFails(g) ==
  /\ pc[g] \in {"fetch", "answered"}
  /\ Goto(g, "idle")
  /\ call' = Delete(call, g)
  /\ UNCHANGED <<now, google, cache>>

(* fetchJWKS: whatever was stored meanwhile is replaced.                   *)
StoreJWKS(g) ==
  /\ pc[g] = "store"
  /\ jwks' = call[g].keys
  /\ jwksExpiry' = call[g].expiry
  /\ Goto(g, "look")
  /\ UNCHANGED <<now, google, call>>

(* getKey after its fetch: the look-up is in the cache, not in the answer. *)
LookAgain(g) ==
  /\ pc[g] = "look"
  /\ Goto(g, IF call[g].kid \in jwks THEN "found" ELSE "missing")
  /\ UNCHANGED <<now, google, cache, call>>

Returns(g) ==
  /\ pc[g] \in {"found", "missing"}
  /\ Goto(g, "idle")
  /\ call' = Delete(call, g)
  /\ UNCHANGED <<now, google, cache>>

Rotate ==
  \E k \in Kids \ DOMAIN publishedAt :
    /\ k - 1 \in Published
    /\ publishedAt' = Put(publishedAt, k, now)
    /\ withdrawnAt' = Put(withdrawnAt, k - 2, now)
    /\ UNCHANGED <<now, cache, pc, call>>

Tick ==
  /\ now < MaxTime
  /\ \A g \in Goroutines : pc[g] \in {"idle", "fetch", "answered"}
  /\ now' = now + 1
  /\ UNCHANGED <<google, cache, pc, call>>

JWKSNext ==
  \/ \E g \in Goroutines, k \in DOMAIN publishedAt : getKey(g, k)
  \/ \E g \in Goroutines :
       \/ GoogleAnswers(g)
       \/ \E maxAge \in MaxAges : AnswerArrives(g, maxAge)
       \/ FetchFails(g)
       \/ StoreJWKS(g)
       \/ LookAgain(g)
       \/ Returns(g)
  \/ Rotate
  \/ Tick

JWKSSpec == JWKSInit /\ [][JWKSNext]_vars

-----------------------------------------------------------------------------
JWKSTypeOK ==
  /\ now \in Nat
  /\ IsMap(publishedAt, Kids, Nat) /\ IsMap(withdrawnAt, Kids, Nat)
  /\ jwks \subseteq Kids /\ jwksExpiry \in Nat
  /\ pc \in [Goroutines -> {"idle", "fetch", "answered", "store", "look",
                            "found", "missing"}]
  /\ IsMap(call, Goroutines,
           [kid : Kids, since : Nat, keys : SUBSET Kids, expiry : Nat])
  /\ \A g \in Goroutines : pc[g] # "idle" => g \in DOMAIN call

(* The last moment at which a withdrawn key may be trusted.                *)
TrustLimit(k) == withdrawnAt[k] + LongestTTL + FetchTimeout

(* A key Google has withdrawn is trusted no longer than the longest        *)
(* lifetime of an answer and the time an answer may take, although the     *)
(* second look-up tests no expiry and answers overtake each other.         *)
TrustEndsInTime ==
  \A g \in Goroutines, k \in DOMAIN withdrawnAt :
    pc[g] = "found" /\ call[g].kid = k => now <= TrustLimit(k)

(* Keys that have just been stored spare the next look-up its fetch,       *)
(* whatever Cache-Control said and whoever stored them.                    *)
StoredUnexpired ==
  \A g \in Goroutines : pc[g] = "look" => now < jwksExpiry

(* A published key is found: "not found" is only said of a key that Google *)
(* published or withdrew a moment ago, within the time an answer may take. *)
(* It is not enough to look at the caller's own fetch: an older answer,    *)
(* fetched by another call, may replace the one that has the key.          *)
NotFoundOnlyNearRotation ==
  \A g \in Goroutines : pc[g] = "missing" =>
    \/ publishedAt[call[g].kid] >= now - FetchTimeout
    \/ call[g].kid \in DOMAIN withdrawnAt

(* A set of keys that was answered to a call made at time t has every key  *)
(* published before t, but for those withdrawn since.                      *)
Covers(keys, t) == \A k \in Published \ keys : publishedAt[k] >= t

(* No key in the set makes it trusted too long if it expires at time t.    *)
ExpiresInTime(keys, t) == \A k \in keys \cap DOMAIN withdrawnAt : t <= TrustLimit(k)

(* What each stage of a look-up owes to the time at which its keys were    *)
(* Google's: an answer is as old as its call, what is about to be stored   *)
(* is at most FetchTimeout old, what is looked at again was stored now.    *)
Fresh(g) ==
  /\ pc[g] # "idle" =>
       call[g].since <= now /\ call[g].kid \in DOMAIN publishedAt
  /\ pc[g] = "answered" =>
       /\ Covers(call[g].keys, call[g].since)
       /\ \A k \in call[g].keys \cap DOMAIN withdrawnAt :
            call[g].since <= withdrawnAt[k]
  /\ pc[g] = "store" =>
       /\ Covers(call[g].keys, now - FetchTimeout)
       /\ ExpiresInTime(call[g].keys, call[g].expiry)
       /\ call[g].expiry \in (now + 1)..(now + LongestTTL)
  /\ pc[g] = "look" =>
       /\ Covers(jwks, now - FetchTimeout)
       /\ now < jwksExpiry
  /\ pc[g] = "found" => ExpiresInTime({call[g].kid}, now)
  /\ pc[g] = "missing" /\ call[g].kid \in Published =>
       publishedAt[call[g].kid] >= now - FetchTimeout

(* The inductive invariant behind the two bounds.                          *)
JWKSInv ==
  /\ JWKSTypeOK
  /\ {1, 2} \subseteq DOMAIN publishedAt
  /\ \A k \in DOMAIN withdrawnAt : withdrawnAt[k] <= now
  /\ jwksExpiry <= now + LongestTTL
  /\ ExpiresInTime(jwks, jwksExpiry)
  /\ \A g \in Goroutines : Fresh(g)

=============================================================================
