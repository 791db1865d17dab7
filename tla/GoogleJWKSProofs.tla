------------------------- MODULE GoogleJWKSProofs -------------------------
(* How long a withdrawn key is trusted and a published one missed, for any *)
(* number of look-ups and of keys and any lifetimes and delays, however    *)
(* the fetches overlap.                                                    *)
EXTENDS GoogleJWKS, TLAPS

(* LongestTTL is what its name says.                                       *)
LEMMA LongestTTLBound ==
  LongestTTL \in Nat /\ \A m \in MaxAges : TTL(m) \in 1..LongestTTL
<1>1. \A m \in MaxAges : TTL(m) \in Nat \ {0}
      BY JWKSAssumption DEF TTL
<1>2. \E t \in {TTL(m) : m \in MaxAges} : \A m \in MaxAges : TTL(m) <= t
      BY BoundedTTL
<1>3. /\ LongestTTL \in {TTL(m) : m \in MaxAges}
      /\ \A m \in MaxAges : TTL(m) <= LongestTTL
      BY <1>2 DEF LongestTTL
<1> QED BY <1>1, <1>3

(* At the start nothing is cached.                                         *)
LEMMA JWKSInitInv == JWKSInit => JWKSInv
<1> SUFFICES ASSUME JWKSInit
             PROVE  JWKSInv
    OBVIOUS
<1>1. JWKSTypeOK
      BY JWKSAssumption DEF JWKSInit, JWKSTypeOK, IsMap, EmptyMap, Kids
<1>2. \A g \in Goroutines : Fresh(g)
      BY DEF JWKSInit, Fresh
<1> QED BY <1>1, <1>2, LongestTTLBound
        DEF JWKSInit, JWKSInv, ExpiresInTime, EmptyMap

(* What one look-up does leaves the other look-ups as fresh as they are.   *)
LEMMA OthersFresh ==
  ASSUME JWKSInv, NEW h \in Goroutines,
         pc'[h] = pc[h], pc[h] # "idle" => call'[h] = call[h],
         UNCHANGED <<now, google, cache>>
  PROVE  Fresh(h)'
<1>1. Fresh(h)
      BY DEF JWKSInv
<1> QED BY <1>1 DEF google, cache, Fresh, Covers, ExpiresInTime, TrustLimit, Published

(* A step of one look-up that stores nothing, once it is shown that the    *)
(* look-up itself stays fresh.                                             *)
LEMMA LookUpStep ==
  ASSUME JWKSInv, NEW g \in Goroutines, UNCHANGED <<now, google, cache>>,
         IsMap(call', Goroutines,
               [kid : Kids, since : Nat, keys : SUBSET Kids, expiry : Nat]),
         NEW label \in {"idle", "fetch", "answered", "store", "look", "found", "missing"},
         pc' = [pc EXCEPT ![g] = label],
         label # "idle" => g \in DOMAIN call',
         \A h \in Goroutines \ {g} : h \in DOMAIN call =>
           h \in DOMAIN call' /\ call'[h] = call[h],
         Fresh(g)'
  PROVE  JWKSInv'
<1>1. JWKSTypeOK'
      BY DEF JWKSInv, JWKSTypeOK, google, cache
<1>2. \A h \in Goroutines \ {g} : Fresh(h)'
  <2> SUFFICES ASSUME NEW h \in Goroutines \ {g}
               PROVE  Fresh(h)'
      OBVIOUS
  <2>1. pc'[h] = pc[h] /\ (pc[h] # "idle" => call'[h] = call[h])
        BY DEF JWKSInv, JWKSTypeOK
  <2> QED BY <2>1, OthersFresh
<1>3. /\ {1, 2} \subseteq DOMAIN publishedAt'
      /\ \A k \in DOMAIN withdrawnAt' : withdrawnAt'[k] <= now'
      /\ jwksExpiry' <= now' + LongestTTL
      /\ ExpiresInTime(jwks, jwksExpiry)'
      BY DEF JWKSInv, google, cache, ExpiresInTime, TrustLimit
<1> QED BY <1>1, <1>2, <1>3 DEF JWKSInv

(* One step per action.                                                    *)
LEMMA JWKSNextInv == JWKSInv /\ [JWKSNext]_vars => JWKSInv'
<1> SUFFICES ASSUME JWKSInv, [JWKSNext]_vars
             PROVE  JWKSInv'
    OBVIOUS
<1> DEFINE Call == [kid : Kids, since : Nat, keys : SUBSET Kids, expiry : Nat]
<1>a. /\ now \in Nat /\ jwks \subseteq Kids /\ jwksExpiry \in Nat
      /\ IsMap(publishedAt, Kids, Nat) /\ IsMap(withdrawnAt, Kids, Nat)
      /\ pc \in [Goroutines -> {"idle", "fetch", "answered", "store", "look",
                                "found", "missing"}]
      /\ IsMap(call, Goroutines, Call)
      /\ \A g \in Goroutines : pc[g] # "idle" => g \in DOMAIN call
      BY DEF JWKSInv, JWKSTypeOK
<1>b. /\ {1, 2} \subseteq DOMAIN publishedAt
      /\ \A k \in DOMAIN withdrawnAt : withdrawnAt[k] <= now
      /\ jwksExpiry <= now + LongestTTL
      /\ ExpiresInTime(jwks, jwksExpiry)
      /\ \A g \in Goroutines : Fresh(g)
      BY DEF JWKSInv
<1>c. LongestTTL \in Nat /\ FetchTimeout \in Nat /\ NumKids \in Nat
      BY LongestTTLBound, JWKSAssumption
<1>d. Published \subseteq Kids
      BY <1>a DEF Published, IsMap
<1>1. ASSUME NEW g \in Goroutines, NEW k \in DOMAIN publishedAt, getKey(g, k)
      PROVE  JWKSInv'
  <2> DEFINE label == IF now < jwksExpiry /\ k \in jwks THEN "found" ELSE "fetch"
  <2>1. /\ pc[g] = "idle" /\ call' = Put(call, g, NewCall(k))
        /\ pc' = [pc EXCEPT ![g] = label]
        /\ UNCHANGED <<now, google, cache>>
        BY <1>1 DEF getKey, Goto
  <2>2. NewCall(k) \in Call /\ NewCall(k).since = now /\ NewCall(k).kid = k
        BY <1>a DEF NewCall, IsMap
  <2>3. /\ IsMap(call', Goroutines, Call) /\ g \in DOMAIN call'
        /\ call'[g] = NewCall(k)
        /\ \A h \in Goroutines \ {g} : h \in DOMAIN call =>
             h \in DOMAIN call' /\ call'[h] = call[h]
        BY <1>a, <2>1, <2>2 DEF IsMap, Put
  <2>4. Fresh(g)'
    <3>1. pc'[g] = label
          BY <1>a, <2>1
    <3>2. label = "found" => ExpiresInTime({k}, now)
          BY <1>a, <1>b, <1>c DEF ExpiresInTime, TrustLimit, IsMap
    <3>3. label = "found" => ExpiresInTime({call[g].kid}, now)'
          BY <2>1, <2>2, <2>3, <3>2 DEF ExpiresInTime, TrustLimit, google
    <3> QED BY <1>a, <2>1, <2>2, <2>3, <3>1, <3>3 DEF Fresh, google
  <2> QED BY <2>1, <2>3, <2>4, LookUpStep
<1>2. ASSUME NEW g \in Goroutines, GoogleAnswers(g)
      PROVE  JWKSInv'
  <2>1. /\ pc[g] = "fetch" /\ call' = [call EXCEPT ![g].keys = Published]
        /\ pc' = [pc EXCEPT ![g] = "answered"]
        /\ UNCHANGED <<now, google, cache>>
        BY <1>2 DEF GoogleAnswers, Goto
  <2>2. /\ IsMap(call', Goroutines, Call) /\ g \in DOMAIN call'
        /\ call'[g].keys = Published /\ call'[g].since = call[g].since
        /\ call'[g].kid = call[g].kid
        /\ \A h \in Goroutines \ {g} : h \in DOMAIN call =>
             h \in DOMAIN call' /\ call'[h] = call[h]
        BY <1>a, <1>d, <2>1 DEF IsMap
  <2>3. Fresh(g)'
        BY <1>a, <1>b, <2>1, <2>2 DEF Fresh, Covers, Published, google
  <2> QED BY <2>1, <2>2, <2>3, LookUpStep
<1>3. ASSUME NEW g \in Goroutines, NEW maxAge \in MaxAges, AnswerArrives(g, maxAge)
      PROVE  JWKSInv'
  <2>1. /\ pc[g] = "answered" /\ now - call[g].since <= FetchTimeout
        /\ call' = [call EXCEPT ![g].expiry = now + TTL(maxAge)]
        /\ pc' = [pc EXCEPT ![g] = "store"]
        /\ UNCHANGED <<now, google, cache>>
        BY <1>3 DEF AnswerArrives, Goto
  <2>2. /\ TTL(maxAge) \in Nat /\ TTL(maxAge) <= LongestTTL
        /\ now + TTL(maxAge) \in (now + 1)..(now + LongestTTL)
        BY <1>a, <1>c, LongestTTLBound
  <2>3. /\ IsMap(call', Goroutines, Call) /\ g \in DOMAIN call'
        /\ call'[g].keys = call[g].keys /\ call'[g].since = call[g].since
        /\ call'[g].kid = call[g].kid /\ call'[g].expiry = now + TTL(maxAge)
        /\ \A h \in Goroutines \ {g} : h \in DOMAIN call =>
             h \in DOMAIN call' /\ call'[h] = call[h]
        BY <1>a, <2>1, <2>2 DEF IsMap
  <2>4. call[g].since \in Nat /\ call[g].keys \subseteq Kids
        BY <1>a, <2>1 DEF IsMap
  <2>5. Covers(call[g].keys, now - FetchTimeout)
    <3>1. Covers(call[g].keys, call[g].since)
          BY <1>b, <2>1 DEF Fresh
    <3>2. \A k \in Published : publishedAt[k] \in Nat
          BY <1>a DEF IsMap, Published
    <3>3. now - FetchTimeout \in Int /\ now - FetchTimeout <= call[g].since
          BY <1>a, <1>c, <2>1, <2>4
    <3> QED BY <2>4, <3>1, <3>2, <3>3 DEF Covers
  <2>6. ExpiresInTime(call[g].keys, now + TTL(maxAge))
        BY <1>a, <1>b, <1>c, <2>1, <2>2, <2>4
           DEF Fresh, ExpiresInTime, TrustLimit, IsMap
  <2>7. /\ Covers(call[g].keys, now - FetchTimeout)'
        /\ ExpiresInTime(call[g].keys, call[g].expiry)'
        BY <2>1, <2>3, <2>5, <2>6
           DEF Covers, ExpiresInTime, TrustLimit, Published, google
  <2>8. Fresh(g)'
        BY <1>a, <1>b, <2>1, <2>2, <2>3, <2>7 DEF Fresh, google
  <2> QED BY <2>1, <2>3, <2>8, LookUpStep
<1>4. ASSUME NEW g \in Goroutines, FetchFails(g) \/ Returns(g)
      PROVE  JWKSInv'
  <2>1. /\ pc' = [pc EXCEPT ![g] = "idle"] /\ call' = Delete(call, g)
        /\ UNCHANGED <<now, google, cache>>
        BY <1>4 DEF FetchFails, Returns, Goto
  <2>2. /\ IsMap(call', Goroutines, Call)
        /\ \A h \in Goroutines \ {g} : h \in DOMAIN call =>
             h \in DOMAIN call' /\ call'[h] = call[h]
        BY <1>a, <2>1 DEF IsMap, Delete, Restrict
  <2>3. Fresh(g)'
        BY <1>a, <2>1 DEF Fresh
  <2> QED BY <2>1, <2>2, <2>3, LookUpStep
<1>5. ASSUME NEW g \in Goroutines, StoreJWKS(g)
      PROVE  JWKSInv'
  <2>1. /\ pc[g] = "store" /\ jwks' = call[g].keys /\ jwksExpiry' = call[g].expiry
        /\ pc' = [pc EXCEPT ![g] = "look"]
        /\ UNCHANGED <<now, google, call>>
        BY <1>5 DEF StoreJWKS, Goto
  <2>2. /\ Covers(jwks, now - FetchTimeout)'
        /\ ExpiresInTime(jwks, jwksExpiry)'
        /\ jwksExpiry' \in (now' + 1)..(now' + LongestTTL)
        BY <1>b, <2>1 DEF Fresh, Covers, ExpiresInTime, TrustLimit, Published, google
  <2>3. JWKSTypeOK'
        BY <1>a, <2>1 DEF JWKSTypeOK, IsMap, google
  <2>4. ASSUME NEW h \in Goroutines
        PROVE  Fresh(h)'
    <3>1. Fresh(h) /\ Fresh(g)
          BY <1>b
    <3>2. now' < jwksExpiry'
          BY <1>a, <1>c, <2>1, <2>2
    <3>3. CASE h = g
          BY <1>a, <2>1, <2>2, <3>1, <3>2, <3>3 DEF Fresh, google
    <3>4. CASE h # g
      <4>1. pc'[h] = pc[h]
            BY <1>a, <2>1, <3>4
      <4> QED BY <2>1, <2>2, <3>1, <3>2, <4>1
              DEF Fresh, Covers, ExpiresInTime, TrustLimit, Published, google
    <3> QED BY <3>3, <3>4
  <2>5. jwksExpiry' <= now' + LongestTTL
        BY <1>a, <1>c, <2>1, <2>2
  <2> QED BY <1>b, <2>1, <2>2, <2>3, <2>4, <2>5 DEF JWKSInv, google
<1>6. ASSUME NEW g \in Goroutines, LookAgain(g)
      PROVE  JWKSInv'
  <2> DEFINE label == IF call[g].kid \in jwks THEN "found" ELSE "missing"
  <2>1. /\ pc[g] = "look" /\ pc' = [pc EXCEPT ![g] = label]
        /\ UNCHANGED <<now, google, cache, call>>
        BY <1>6 DEF LookAgain, Goto
  <2>2. pc'[g] = label /\ g \in DOMAIN call
        BY <1>a, <2>1
  <2>3. Covers(jwks, now - FetchTimeout) /\ now < jwksExpiry
        BY <1>b, <2>1 DEF Fresh
  <2>4. label = "found" => ExpiresInTime({call[g].kid}, now)
        BY <1>a, <1>b, <1>c, <2>3 DEF ExpiresInTime, TrustLimit, IsMap
  <2>5. label = "missing" /\ call[g].kid \in Published =>
          publishedAt[call[g].kid] >= now - FetchTimeout
        BY <2>3 DEF Covers
  <2>6. Fresh(g)'
        BY <1>b, <2>1, <2>2, <2>4, <2>5
           DEF Fresh, ExpiresInTime, TrustLimit, Published, google
  <2> QED BY <1>a, <2>1, <2>2, <2>6, LookUpStep
<1>7. ASSUME Rotate
      PROVE  JWKSInv'
  <2>1. PICK k \in Kids \ DOMAIN publishedAt :
          /\ publishedAt' = Put(publishedAt, k, now)
          /\ withdrawnAt' = Put(withdrawnAt, k - 2, now)
          /\ UNCHANGED <<now, cache, pc, call>>
        BY <1>7 DEF Rotate
  <2>2. k - 2 \in Kids
        BY <1>b, <1>c, <2>1 DEF Kids
  <2>3. /\ IsMap(publishedAt', Kids, Nat) /\ IsMap(withdrawnAt', Kids, Nat)
        /\ DOMAIN publishedAt \subseteq DOMAIN publishedAt'
        /\ \A x \in DOMAIN publishedAt' \ {k} :
             x \in DOMAIN publishedAt /\ publishedAt'[x] = publishedAt[x]
        /\ publishedAt'[k] = now
        /\ \A x \in DOMAIN withdrawnAt' \ {k - 2} :
             x \in DOMAIN withdrawnAt /\ withdrawnAt'[x] = withdrawnAt[x]
        /\ withdrawnAt'[k - 2] = now
        /\ DOMAIN withdrawnAt \subseteq DOMAIN withdrawnAt'
        BY <1>a, <2>1, <2>2 DEF IsMap, Put
  <2>4. JWKSTypeOK'
        BY <1>a, <2>1, <2>3 DEF JWKSTypeOK, cache
  <2>5. \A x \in Published' \ {k} : x \in Published /\ publishedAt'[x] = publishedAt[x]
        BY <2>3 DEF Published
  <2>6. ASSUME NEW keys \in SUBSET Kids, NEW t \in Int, t <= now, Covers(keys, t)
        PROVE  \A x \in Published' \ keys : publishedAt'[x] >= t
        BY <1>a, <2>3, <2>5, <2>6 DEF Covers
  <2>7. ASSUME NEW keys \in SUBSET Kids, NEW t \in Nat, t <= now + LongestTTL,
               ExpiresInTime(keys, t)
        PROVE  \A x \in keys \cap DOMAIN withdrawnAt' :
                 t <= withdrawnAt'[x] + LongestTTL + FetchTimeout
    <3> SUFFICES ASSUME NEW x \in keys \cap DOMAIN withdrawnAt'
                 PROVE  t <= withdrawnAt'[x] + LongestTTL + FetchTimeout
        OBVIOUS
    <3>1. CASE x = k - 2
          BY <1>a, <1>c, <2>3, <2>7, <3>1
    <3>2. CASE x # k - 2
          BY <2>3, <2>7, <3>2 DEF ExpiresInTime, TrustLimit
    <3> QED BY <3>1, <3>2
  <2>8. ExpiresInTime(jwks, jwksExpiry)'
        BY <1>a, <1>b, <2>1, <2>7 DEF ExpiresInTime, TrustLimit, cache
  <2>9. ASSUME NEW g \in Goroutines
        PROVE  Fresh(g)'
    <3>1. Fresh(g)
          BY <1>b
    <3>2. CASE pc[g] = "idle"
          BY <2>1, <3>2 DEF Fresh
    <3>3. CASE pc[g] # "idle"
      <4>1. /\ call[g].since \in Nat /\ call[g].keys \in SUBSET Kids
            /\ call[g].expiry \in Nat /\ call[g].kid \in DOMAIN publishedAt
            /\ call[g].since <= now /\ call[g].kid \in Kids
            BY <1>a, <3>1, <3>3 DEF IsMap, Fresh
      <4>2. pc'[g] = pc[g] /\ call'[g] = call[g] /\ now' = now /\ jwks' = jwks
            /\ jwksExpiry' = jwksExpiry
            BY <2>1 DEF cache
      <4>3. pc[g] = "answered" =>
              /\ Covers(call[g].keys, call[g].since)'
              /\ \A x \in call[g].keys \cap DOMAIN withdrawnAt' :
                   call[g].since <= withdrawnAt'[x]
        <5> SUFFICES ASSUME pc[g] = "answered"
                     PROVE  /\ Covers(call[g].keys, call[g].since)'
                            /\ \A x \in call[g].keys \cap DOMAIN withdrawnAt' :
                                 call[g].since <= withdrawnAt'[x]
            OBVIOUS
        <5>1. Covers(call[g].keys, call[g].since)
              BY <3>1 DEF Fresh
        <5>2. Covers(call[g].keys, call[g].since)'
              BY <2>6, <4>1, <4>2, <5>1 DEF Covers
        <5> QED BY <2>3, <3>1, <4>1, <5>2 DEF Fresh
      <4>4. pc[g] = "store" =>
              /\ Covers(call[g].keys, now - FetchTimeout)'
              /\ ExpiresInTime(call[g].keys, call[g].expiry)'
        <5> SUFFICES ASSUME pc[g] = "store"
                     PROVE  /\ Covers(call[g].keys, now - FetchTimeout)'
                            /\ ExpiresInTime(call[g].keys, call[g].expiry)'
            OBVIOUS
        <5>1. /\ Covers(call[g].keys, now - FetchTimeout)
              /\ ExpiresInTime(call[g].keys, call[g].expiry)
              /\ call[g].expiry <= now + LongestTTL
              BY <1>a, <1>c, <3>1 DEF Fresh
        <5>2. now - FetchTimeout \in Int /\ now - FetchTimeout <= now
              BY <1>a, <1>c
        <5>3. Covers(call[g].keys, now - FetchTimeout)'
              BY <2>6, <4>1, <4>2, <5>1, <5>2 DEF Covers
        <5>4. ExpiresInTime(call[g].keys, call[g].expiry)'
              BY <2>7, <4>1, <4>2, <5>1 DEF ExpiresInTime, TrustLimit
        <5> QED BY <5>3, <5>4
      <4>5. pc[g] = "look" => Covers(jwks, now - FetchTimeout)'
        <5>1. now - FetchTimeout \in Int /\ now - FetchTimeout <= now
              BY <1>a, <1>c
        <5> QED BY <1>a, <2>6, <3>1, <4>2, <5>1 DEF Covers, Fresh
      <4>6. pc[g] = "found" => ExpiresInTime({call[g].kid}, now)'
        <5>1. now <= now + LongestTTL /\ {call[g].kid} \in SUBSET Kids
              BY <1>a, <1>c, <4>1
        <5> QED BY <1>a, <2>7, <3>1, <4>2, <5>1 DEF ExpiresInTime, TrustLimit, Fresh
      <4>7. pc[g] = "missing" /\ call[g].kid \in Published' =>
              publishedAt'[call[g].kid] >= now - FetchTimeout
            BY <2>1, <2>5, <3>1, <4>1 DEF Fresh
      <4> QED BY <2>3, <3>1, <4>1, <4>2, <4>3, <4>4, <4>5, <4>6, <4>7 DEF Fresh
    <3> QED BY <3>2, <3>3
  <2> QED BY <1>a, <1>b, <2>1, <2>3, <2>4, <2>8, <2>9 DEF JWKSInv, cache
<1>8. ASSUME Tick
      PROVE  JWKSInv'
  <2>1. /\ now' = now + 1
        /\ \A g \in Goroutines : pc[g] \in {"idle", "fetch", "answered"}
        /\ UNCHANGED <<google, cache, pc, call>>
        BY <1>8 DEF Tick
  <2>2. JWKSTypeOK'
        BY <1>a, <2>1 DEF JWKSTypeOK, google, cache
  <2>3. ASSUME NEW g \in Goroutines
        PROVE  Fresh(g)'
    <3>1. Fresh(g) /\ pc[g] \in {"idle", "fetch", "answered"}
          BY <1>b, <2>1
    <3>2. pc[g] # "idle" => call[g].since \in Nat
          BY <1>a DEF IsMap
    <3> QED BY <1>a, <2>1, <3>1, <3>2 DEF Fresh, Covers, Published, google
  <2>4. /\ \A k \in DOMAIN withdrawnAt' : withdrawnAt'[k] <= now'
        /\ jwksExpiry' <= now' + LongestTTL
        BY <1>a, <1>b, <1>c, <2>1 DEF google, cache, IsMap
  <2>5. ExpiresInTime(jwks, jwksExpiry)'
        BY <1>b, <2>1 DEF ExpiresInTime, TrustLimit, google, cache
  <2> QED BY <1>b, <2>1, <2>2, <2>3, <2>4, <2>5 DEF JWKSInv, google
<1>9. CASE UNCHANGED vars
  <2>1. ASSUME NEW g \in Goroutines
        PROVE  Fresh(g)'
        BY <1>b, <1>9, OthersFresh DEF vars, google, cache
  <2> QED BY <1>a, <1>b, <1>9, <2>1
          DEF vars, JWKSInv, JWKSTypeOK, ExpiresInTime, TrustLimit
<1> QED BY <1>1, <1>2, <1>3, <1>4, <1>5, <1>6, <1>7, <1>8, <1>9 DEF JWKSNext

(* The cache and the look-ups hold values of their types.                  *)
THEOREM JWKSTypesCorrect == JWKSSpec => []JWKSTypeOK
<1>1. JWKSInv => JWKSTypeOK
      BY DEF JWKSInv
<1> QED BY <1>1, JWKSInitInv, JWKSNextInv, PTL DEF JWKSSpec

(* No answer is stored that has expired already.                           *)
THEOREM JWKSStoredUnexpired == JWKSSpec => []StoredUnexpired
<1>1. JWKSInv => StoredUnexpired
      BY DEF JWKSInv, Fresh, StoredUnexpired
<1> QED BY <1>1, JWKSInitInv, JWKSNextInv, PTL DEF JWKSSpec

(* A withdrawn key is trusted no longer than an answer's longest lifetime  *)
(* and the longest delay of an answer.                                     *)
THEOREM JWKSTrustEnds == JWKSSpec => []TrustEndsInTime
<1>1. JWKSInv => TrustEndsInTime
      BY DEF JWKSInv, Fresh, ExpiresInTime, TrustEndsInTime
<1> QED BY <1>1, JWKSInitInv, JWKSNextInv, PTL DEF JWKSSpec

(* "Not found" is only said of a withdrawn key, or of one published within *)
(* the time an answer may take.                                            *)
THEOREM JWKSNotFoundNearRotation == JWKSSpec => []NotFoundOnlyNearRotation
<1>1. JWKSInv => NotFoundOnlyNearRotation
      BY DEF JWKSInv, Fresh, Published, NotFoundOnlyNearRotation
<1> QED BY <1>1, JWKSInitInv, JWKSNextInv, PTL DEF JWKSSpec

=============================================================================
