------------------------- MODULE OAuthServerProofs -------------------------
(* The store's two indexes agree, for any number of identifiers, requests  *)
(* and users and any lifetimes.  The server uses the store only through    *)
(* its methods, so what is proved of the store holds of the server; a flow *)
(* yields at most one code and at most one token; and the server           *)
(* implements AuthorizationGrant.  For any number of flows, clients, users *)
(* and codes, any lifetimes, and any interleaving of requests, expiry and  *)
(* restarts.                                                               *)
EXTENDS OAuthServer, TLAPS

(* A new store is sound.                                                   *)
LEMMA StoreInitInv == StoreInit => StoreInv
BY DEF IsMap, EmptyMap, StoreInit, StoreInv, TypeOK, CsrfIndexSound, PendingMinted

(* One step per method: each leaves the two indexes in agreement.          *)
LEMMA StoreNextInv == StoreInv /\ [StoreNext]_allStoreVars => StoreInv'
<1> SUFFICES ASSUME StoreInv, [StoreNext]_allStoreVars
             PROVE  StoreInv'
    OBVIOUS
<1>a. /\ now \in Nat
      /\ IsMap(pendingAuthz, GoogleStates, PendingAuthorization)
      /\ IsMap(csrfTokens, CSRFTokens, GoogleStates)
      /\ IsMap(authCodes, Codes, AuthorizationCode)
      /\ minted \subseteq GoogleStates \cup CSRFTokens \cup Codes
      BY DEF StoreInv, TypeOK
<1>b. /\ CsrfIndexSound
      /\ DOMAIN pendingAuthz \subseteq minted
      BY DEF StoreInv, PendingMinted
<1>c. ASSUME TypeOK', CsrfIndexSound', DOMAIN pendingAuthz' \subseteq minted'
      PROVE  StoreInv'
      BY <1>c DEF StoreInv, PendingMinted
<1>1. ASSUME NEW g \in GoogleStates, NEW t \in CSRFTokens, NEW r \in Requests,
             NewPending(g, t, r)
      PROVE  StoreInv'
  <2> DEFINE pa == [googleState |-> g, csrfToken |-> t,
                    request |-> r, createdAt |-> now]
  <2>1. pa \in PendingAuthorization
        BY <1>a DEF PendingAuthorization
  <2>2. /\ pendingAuthz' = Put(pendingAuthz, g, pa)
        /\ csrfTokens' = Put(csrfTokens, t, g)
        /\ {g, t} \cap minted = {}
        /\ minted' = minted \cup {g, t}
        /\ UNCHANGED <<now, authCodes>>
        BY <1>1 DEF NewPending, RandomHex, StorePendingAuthorization
  <2>3. pa.csrfToken = t
        OBVIOUS
  <2> HIDE DEF pa
  <2>4. /\ IsMap(pendingAuthz', GoogleStates, PendingAuthorization)
        /\ DOMAIN pendingAuthz' = DOMAIN pendingAuthz \cup {g}
        /\ pendingAuthz'[g] = pa
        /\ \A x \in DOMAIN pendingAuthz : x # g => pendingAuthz'[x] = pendingAuthz[x]
        BY <1>a, <2>1, <2>2 DEF IsMap, Put
  <2>5. /\ IsMap(csrfTokens', CSRFTokens, GoogleStates)
        /\ DOMAIN csrfTokens' = DOMAIN csrfTokens \cup {t}
        /\ csrfTokens'[t] = g
        /\ \A x \in DOMAIN csrfTokens : x # t => csrfTokens'[x] = csrfTokens[x]
        BY <1>a, <2>2 DEF IsMap, Put
  <2>6. TypeOK'
        BY <1>a, <2>2, <2>4, <2>5 DEF TypeOK
  <2>7. CsrfIndexSound'
        BY <1>b, <2>2, <2>3, <2>4, <2>5 DEF CsrfIndexSound
  <2> QED BY <1>b, <1>c, <2>2, <2>4, <2>6, <2>7
<1>2. ASSUME NEW c \in Codes, NEW r \in Requests, NEW u \in Users, NewCode(c, r, u)
      PROVE  StoreInv'
  <2> DEFINE ac == [code |-> c, request |-> r, user |-> u, createdAt |-> now]
  <2>1. ac \in AuthorizationCode
        BY <1>a DEF AuthorizationCode
  <2>2. /\ authCodes' = Put(authCodes, c, ac)
        /\ minted' = minted \cup {c}
        /\ UNCHANGED <<now, pendingAuthz, csrfTokens>>
        BY <1>2 DEF NewCode, StoreAuthCode, RandomHex
  <2> HIDE DEF ac
  <2>3. IsMap(authCodes', Codes, AuthorizationCode)
        BY <1>a, <2>1, <2>2 DEF IsMap, Put
  <2>4. TypeOK' /\ CsrfIndexSound'
        BY <1>a, <1>b, <2>2, <2>3 DEF TypeOK, CsrfIndexSound
  <2> QED BY <1>b, <1>c, <2>2, <2>4
<1>3. ASSUME NEW t \in CSRFTokens, ConsumePendingByCSRF(t), UNCHANGED <<now, minted>>
      PROVE  StoreInv'
  <2>1. CASE t \notin DOMAIN csrfTokens
    <3>1. UNCHANGED allStoreVars
          BY <1>3, <2>1 DEF ConsumePendingByCSRF, storeVars, allStoreVars
    <3> QED BY <1>a, <1>b, <1>c, <3>1 DEF allStoreVars, TypeOK, CsrfIndexSound
  <2>2. CASE t \in DOMAIN csrfTokens
    <3> DEFINE g == csrfTokens[t]
    <3>1. /\ csrfTokens' = Delete(csrfTokens, t)
          /\ pendingAuthz' = Delete(pendingAuthz, g) \/ pendingAuthz' = pendingAuthz
          /\ UNCHANGED authCodes
          BY <1>3, <2>2 DEF ConsumePendingByCSRF
    <3>2. /\ IsMap(csrfTokens', CSRFTokens, GoogleStates)
          /\ DOMAIN csrfTokens' = DOMAIN csrfTokens \ {t}
          /\ \A x \in DOMAIN csrfTokens \ {t} : csrfTokens'[x] = csrfTokens[x]
          BY <1>a, <3>1 DEF IsMap, Delete, Restrict
    <3>3. \A x \in DOMAIN csrfTokens \ {t} : csrfTokens[x] # g
          BY <1>b, <2>2 DEF CsrfIndexSound
    <3> HIDE DEF g
    <3>4. /\ IsMap(pendingAuthz', GoogleStates, PendingAuthorization)
          /\ DOMAIN pendingAuthz' \subseteq DOMAIN pendingAuthz
          /\ DOMAIN pendingAuthz \ {g} \subseteq DOMAIN pendingAuthz'
          /\ \A x \in DOMAIN pendingAuthz \ {g} : pendingAuthz'[x] = pendingAuthz[x]
          BY <1>a, <3>1 DEF IsMap, Delete, Restrict
    <3>5. TypeOK'
          BY <1>a, <1>3, <3>1, <3>2, <3>4 DEF TypeOK
    <3>6. CsrfIndexSound'
          BY <1>b, <3>2, <3>3, <3>4 DEF CsrfIndexSound
    <3> QED BY <1>b, <1>c, <1>3, <3>4, <3>5, <3>6
  <2> QED BY <2>1, <2>2
<1>4. ASSUME NEW g \in GoogleStates, ConsumePendingByGoogleState(g),
             UNCHANGED <<now, minted>>
      PROVE  StoreInv'
  <2>1. CASE g \notin DOMAIN pendingAuthz
    <3>1. UNCHANGED allStoreVars
          BY <1>4, <2>1 DEF ConsumePendingByGoogleState, storeVars, allStoreVars
    <3> QED BY <1>a, <1>b, <1>c, <3>1 DEF allStoreVars, TypeOK, CsrfIndexSound
  <2>2. CASE g \in DOMAIN pendingAuthz
    <3> DEFINE t == pendingAuthz[g].csrfToken
    <3>1. /\ pendingAuthz' = Delete(pendingAuthz, g)
          /\ csrfTokens' = Delete(csrfTokens, t)
          /\ UNCHANGED authCodes
          BY <1>4, <2>2 DEF ConsumePendingByGoogleState
    <3>2. \A x \in DOMAIN csrfTokens \ {t} : csrfTokens[x] # g
          BY <1>b DEF CsrfIndexSound
    <3> HIDE DEF t
    <3>3. /\ IsMap(pendingAuthz', GoogleStates, PendingAuthorization)
          /\ DOMAIN pendingAuthz' = DOMAIN pendingAuthz \ {g}
          /\ \A x \in DOMAIN pendingAuthz \ {g} : pendingAuthz'[x] = pendingAuthz[x]
          BY <1>a, <3>1 DEF IsMap, Delete, Restrict
    <3>4. /\ IsMap(csrfTokens', CSRFTokens, GoogleStates)
          /\ DOMAIN csrfTokens' = DOMAIN csrfTokens \ {t}
          /\ \A x \in DOMAIN csrfTokens \ {t} : csrfTokens'[x] = csrfTokens[x]
          BY <1>a, <3>1 DEF IsMap, Delete, Restrict
    <3>5. TypeOK'
          BY <1>a, <1>4, <3>1, <3>3, <3>4 DEF TypeOK
    <3>6. CsrfIndexSound'
          BY <1>b, <3>2, <3>3, <3>4 DEF CsrfIndexSound
    <3> QED BY <1>b, <1>c, <1>4, <3>3, <3>5, <3>6
  <2> QED BY <2>1, <2>2
<1>5. ASSUME NEW c \in Codes, ConsumeAuthCode(c), UNCHANGED <<now, minted>>
      PROVE  StoreInv'
  <2>1. /\ authCodes' = Delete(authCodes, c)
        /\ UNCHANGED <<pendingAuthz, csrfTokens>>
        BY <1>5 DEF ConsumeAuthCode
  <2>2. IsMap(authCodes', Codes, AuthorizationCode)
        BY <1>a, <2>1 DEF IsMap, Delete, Restrict
  <2> QED BY <1>a, <1>b, <1>c, <1>5, <2>1, <2>2 DEF TypeOK, CsrfIndexSound
<1>6. ASSUME CleanupTick
      PROVE  StoreInv'
  <2> DEFINE stale == {g \in DOMAIN pendingAuthz : PendingExpired(g)}
             gone  == {pendingAuthz[g].csrfToken : g \in stale}
             dead  == {c \in DOMAIN authCodes : Expired(authCodes[c], AuthCodeTTL)}
  <2>1. /\ pendingAuthz' = Restrict(pendingAuthz, DOMAIN pendingAuthz \ stale)
        /\ csrfTokens' = Restrict(csrfTokens, DOMAIN csrfTokens \ gone)
        /\ authCodes' = Restrict(authCodes, DOMAIN authCodes \ dead)
        /\ UNCHANGED <<now, minted>>
        BY <1>6 DEF CleanupTick, Cleanup
  <2> HIDE DEF stale, dead
  <2>2. \A x \in DOMAIN csrfTokens \ gone : csrfTokens[x] \notin stale
        BY <1>b DEF CsrfIndexSound
  <2> HIDE DEF gone
  <2>3. /\ IsMap(pendingAuthz', GoogleStates, PendingAuthorization)
        /\ DOMAIN pendingAuthz' = DOMAIN pendingAuthz \ stale
        /\ \A x \in DOMAIN pendingAuthz \ stale : pendingAuthz'[x] = pendingAuthz[x]
        BY <1>a, <2>1 DEF IsMap, Restrict
  <2>4. /\ IsMap(csrfTokens', CSRFTokens, GoogleStates)
        /\ DOMAIN csrfTokens' = DOMAIN csrfTokens \ gone
        /\ \A x \in DOMAIN csrfTokens \ gone : csrfTokens'[x] = csrfTokens[x]
        BY <1>a, <2>1 DEF IsMap, Restrict
  <2>5. IsMap(authCodes', Codes, AuthorizationCode)
        BY <1>a, <2>1 DEF IsMap, Restrict
  <2>6. TypeOK'
        BY <1>a, <2>1, <2>3, <2>4, <2>5 DEF TypeOK
  <2>7. CsrfIndexSound'
        BY <1>b, <2>2, <2>3, <2>4 DEF CsrfIndexSound
  <2> QED BY <1>b, <1>c, <2>1, <2>3, <2>6, <2>7
<1>7. ASSUME NewOAuthStore, UNCHANGED <<now, minted>>
      PROVE  StoreInv'
  <2>1. /\ IsMap(pendingAuthz', GoogleStates, PendingAuthorization)
        /\ IsMap(csrfTokens', CSRFTokens, GoogleStates)
        /\ IsMap(authCodes', Codes, AuthorizationCode)
        /\ DOMAIN pendingAuthz' = {} /\ DOMAIN csrfTokens' = {}
        BY <1>7 DEF NewOAuthStore, IsMap, EmptyMap
  <2> QED BY <1>a, <1>b, <1>c, <1>7, <2>1 DEF TypeOK, CsrfIndexSound
<1>8. ASSUME Tick
      PROVE  StoreInv'
  <2>1. /\ now' \in Nat
        /\ UNCHANGED <<pendingAuthz, csrfTokens, authCodes, minted>>
        BY <1>a, <1>8 DEF Tick, storeVars
  <2> QED BY <1>a, <1>b, <1>c, <2>1 DEF TypeOK, CsrfIndexSound
<1>9. ASSUME UNCHANGED allStoreVars
      PROVE  StoreInv'
      BY <1>a, <1>b, <1>c, <1>9 DEF allStoreVars, TypeOK, CsrfIndexSound
<1> QED BY <1>1, <1>2, <1>3, <1>4, <1>5, <1>6, <1>7, <1>8, <1>9 DEF StoreNext

(* The values the store holds have their types.                            *)
THEOREM StoreTypeOK == StoreSpec => []TypeOK
<1>1. StoreInv => TypeOK
      BY DEF StoreInv
<1> QED BY <1>1, StoreInitInv, StoreNextInv, PTL DEF StoreSpec

(* Every CSRF token in the store leads to a pending authorization made     *)
(* with it.                                                                *)
THEOREM StoreCsrfIndexSound == StoreSpec => []CsrfIndexSound
<1>1. StoreInv => CsrfIndexSound
      BY DEF StoreInv
<1> QED BY <1>1, StoreInitInv, StoreNextInv, PTL DEF StoreSpec

-----------------------------------------------------------------------------
(* A server that has just started satisfies the invariant.                 *)
LEMMA ServerInitInv == ServerInit => ServerInv
<1> SUFFICES ASSUME ServerInit PROVE ServerInv
    OBVIOUS
<1>1. StoreInv
      BY StoreInitInv DEF ServerInit
<1>2. ServerTypeOK
      BY <1>1 DEF ServerInit, ServerTypeOK, StoreInv, IsMap, EmptyMap
<1>3. FlowInOnePlace /\ OneCodePerFlow /\ CodeInOnePlace
      BY DEF ServerInit, StoreInit, EmptyMap, FlowInOnePlace, OneCodePerFlow,
             CodeInOnePlace
<1> QED BY <1>1, <1>2, <1>3 DEF ServerInv

(* Every step of the server is a step of the store, or leaves it alone.    *)
LEMMA ServerStepIsStoreStep ==
  ServerInv /\ [ServerNext]_vars => [StoreNext]_allStoreVars
<1> SUFFICES ASSUME ServerInv, [ServerNext]_vars
             PROVE  [StoreNext]_allStoreVars
    OBVIOUS
<1>1. ASSUME NEW q \in Queries, NEW g \in GoogleStates, NEW t \in CSRFTokens,
             HandleAuthorize(q, g, t)
      PROVE  StoreNext
  <2>1. RequestOf(q) \in Requests
        BY InputsAssumption
  <2> QED BY <1>1, <2>1 DEF HandleAuthorize, StoreNext
<1>2. ASSUME NEW g \in DOMAIN asked, NEW h \in DOMAIN asked,
             HandleConsent(g, asked[h].csrfToken)
      PROVE  StoreNext
  <2>1. asked[h].csrfToken \in CSRFTokens
        BY DEF ServerInv, ServerTypeOK, IsMap, PendingAuthorization
  <2> QED BY <1>2, <2>1 DEF HandleConsent, StoreNext
<1>3. ASSUME NEW g \in GoogleStates, HandleCallback(g)
      PROVE  StoreNext
      BY <1>3 DEF HandleCallback, StoreNext
<1>4. ASSUME NEW call \in inFlight, NEW claims \in IDTokens, NEW c \in Codes,
             CallbackSucceeds(call, claims, c)
      PROVE  StoreNext
  <2>1. call.pending.request \in Requests
        BY DEF ServerInv, ServerTypeOK, PendingAuthorization
  <2>2. UserOf(claims) \in Users
        BY InputsAssumption DEF UserOf
  <2> QED BY <1>4, <2>1, <2>2 DEF CallbackSucceeds, StoreNext
<1>5. ASSUME NEW call \in inFlight, CallbackFails(call)
      PROVE  UNCHANGED allStoreVars
      BY <1>5 DEF CallbackFails, allStoreVars, storeVars
<1>6. ASSUME NEW c \in Codes, NEW form \in TokenForms, handleToken(c, form)
      PROVE  StoreNext
      BY <1>6 DEF handleToken, StoreNext
<1>7. ASSUME Restart
      PROVE  StoreNext
      BY <1>7 DEF Restart, StoreNext
<1>8. CASE CleanupTick \/ Tick
      BY <1>8 DEF StoreNext
<1>9. CASE UNCHANGED vars
      BY <1>9 DEF vars, allStoreVars
<1> QED BY <1>1, <1>2, <1>3, <1>4, <1>5, <1>6, <1>7, <1>8, <1>9 DEF ServerNext

(* The inductive invariant, one step per handler.                          *)
LEMMA ServerNextInv == ServerInv /\ [ServerNext]_vars => ServerInv'
<1> SUFFICES ASSUME ServerInv, [ServerNext]_vars
             PROVE  ServerInv'
    OBVIOUS
<1>a. StoreInv'
      BY ServerStepIsStoreStep, StoreNextInv DEF ServerInv
<1>b. TypeOK' /\ PendingMinted'
      BY <1>a DEF StoreInv
<1>c. TypeOK /\ PendingMinted /\ ServerTypeOK
      BY DEF ServerInv, StoreInv
<1>d. FlowInOnePlace /\ OneCodePerFlow /\ CodeInOnePlace
      BY DEF ServerInv
<1>e. ASSUME ServerTypeOK', FlowInOnePlace', OneCodePerFlow', CodeInOnePlace'
      PROVE  ServerInv'
      BY <1>a, <1>e DEF ServerInv
<1>1. ASSUME NEW q \in Queries, NEW g \in GoogleStates, NEW t \in CSRFTokens,
             HandleAuthorize(q, g, t)
      PROVE  ServerInv'
  <2> DEFINE pa == [googleState |-> g, csrfToken |-> t,
                    request |-> RequestOf(q), createdAt |-> now]
  <2>1. /\ g \notin minted
        /\ minted' = minted \cup {g, t}
        /\ pendingAuthz' = Put(pendingAuthz, g, pa)
        /\ UNCHANGED <<authCodes, approvals, inFlight, codeLog, tokens>>
        BY <1>1 DEF HandleAuthorize, NewPending, RandomHex, StorePendingAuthorization
  <2>2. pa.googleState = g
        OBVIOUS
  <2> HIDE DEF pa
  <2>3. /\ DOMAIN pendingAuthz' = DOMAIN pendingAuthz \cup {g}
        /\ pendingAuthz'[g] = pa
        /\ \A x \in DOMAIN pendingAuthz : x # g => pendingAuthz'[x] = pendingAuthz[x]
        BY <2>1 DEF Put
  <2>4. IsMap(asked', GoogleStates, PendingAuthorization)
    <3>1. pendingAuthz'[g] \in PendingAuthorization
          BY <1>b, <2>3 DEF TypeOK, IsMap
    <3>2. asked' = Put(asked, g, pendingAuthz'[g])
          BY <1>1 DEF HandleAuthorize
    <3> QED BY <1>c, <3>1, <3>2 DEF ServerTypeOK, IsMap, Put
  <2>5. ServerTypeOK'
        BY <1>b, <1>c, <2>1, <2>4 DEF ServerTypeOK
  <2>6. FlowInOnePlace'
        BY <1>d, <2>1, <2>2, <2>3 DEF FlowInOnePlace
  <2>7. OneCodePerFlow' /\ CodeInOnePlace'
        BY <1>d, <2>1 DEF OneCodePerFlow, CodeInOnePlace
  <2> QED BY <1>e, <2>5, <2>6, <2>7
<1>2. ASSUME NEW g \in DOMAIN asked, NEW h \in DOMAIN asked,
             HandleConsent(g, asked[h].csrfToken)
      PROVE  ServerInv'
  <2>1. /\ approvals' = Append(approvals, [flow |-> g, at |-> now])
           \/ approvals' = approvals
        /\ UNCHANGED <<now, minted, authCodes, asked, inFlight, codeLog, tokens>>
        BY <1>2 DEF HandleConsent, ConsumePendingByCSRF, storeVars
  <2>2. /\ DOMAIN pendingAuthz' \subseteq DOMAIN pendingAuthz
        /\ \A x \in DOMAIN pendingAuthz' : pendingAuthz'[x] = pendingAuthz[x]
        BY <1>2 DEF HandleConsent, ConsumePendingByCSRF, storeVars, Delete, Restrict
  <2>3. [flow |-> g, at |-> now] \in [flow : GoogleStates, at : Nat]
        BY <1>c DEF ServerTypeOK, TypeOK, IsMap
  <2>4. ServerTypeOK'
    <3> DEFINE Approval == [flow : GoogleStates, at : Nat]
               approval == [flow |-> g, at |-> now]
    <3>1. /\ approvals \in Seq(Approval) /\ approval \in Approval
          /\ approvals' = Append(approvals, approval) \/ approvals' = approvals
          BY <1>c, <2>1, <2>3 DEF ServerTypeOK
    <3> HIDE DEF Approval, approval
    <3>2. approvals' \in Seq(Approval)
          BY <3>1
    <3> QED BY <1>b, <1>c, <2>1, <3>2 DEF ServerTypeOK, Approval
  <2>5. FlowInOnePlace'
        BY <1>d, <2>1, <2>2 DEF FlowInOnePlace
  <2>6. OneCodePerFlow' /\ CodeInOnePlace'
        BY <1>d, <2>1 DEF OneCodePerFlow, CodeInOnePlace
  <2> QED BY <1>e, <2>4, <2>5, <2>6
<1>3. ASSUME NEW g \in GoogleStates, HandleCallback(g)
      PROVE  ServerInv'
  <2>1. UNCHANGED <<now, minted, authCodes, asked, approvals, codeLog, tokens>>
        BY <1>3 DEF HandleCallback, ConsumePendingByGoogleState, storeVars
  <2>2. /\ DOMAIN pendingAuthz' = DOMAIN pendingAuthz \ {g}
        /\ \A x \in DOMAIN pendingAuthz' : pendingAuthz'[x] = pendingAuthz[x]
    <3>1. CASE g \notin DOMAIN pendingAuthz
          BY <1>3, <3>1 DEF HandleCallback, ConsumePendingByGoogleState, storeVars
    <3>2. CASE g \in DOMAIN pendingAuthz
      <4>1. pendingAuthz' = Delete(pendingAuthz, g)
            BY <1>3, <3>2 DEF HandleCallback, ConsumePendingByGoogleState
      <4> QED BY <4>1 DEF Delete, Restrict
    <3> QED BY <3>1, <3>2
  <2>3. CASE StateAccepted(g)
    <3> DEFINE call == [pending |-> pendingAuthz[g], at |-> now]
    <3>1. inFlight' = inFlight \cup {call}
          BY <1>3, <2>3 DEF HandleCallback
    <3>2. /\ g \in DOMAIN pendingAuthz
          /\ pendingAuthz[g] \in PendingAuthorization
          /\ now \in Nat
          BY <1>c, <2>3 DEF StateAccepted, TypeOK, IsMap
    <3>3. /\ call \in [pending : PendingAuthorization, at : Nat]
          /\ call.pending.googleState = g
          BY <1>d, <3>2 DEF FlowInOnePlace
    <3>4. g \in minted
          BY <1>c, <3>2 DEF PendingMinted
    <3> HIDE DEF call
    <3>5. ServerTypeOK'
          BY <1>b, <1>c, <2>1, <3>1, <3>3 DEF ServerTypeOK
    <3>6. FlowInOnePlace'
      <4>1. \A x \in inFlight : x.pending.googleState # g
            BY <1>d, <3>2 DEF FlowInOnePlace
      <4>2. \A c \in DOMAIN codeLog : codeLog[c].flow # g
            BY <1>d, <3>2 DEF FlowInOnePlace
      <4> QED BY <1>d, <2>1, <2>2, <3>1, <3>3, <3>4, <4>1, <4>2 DEF FlowInOnePlace
    <3>7. OneCodePerFlow' /\ CodeInOnePlace'
          BY <1>d, <2>1 DEF OneCodePerFlow, CodeInOnePlace
    <3> QED BY <1>e, <3>5, <3>6, <3>7
  <2>4. CASE ~ StateAccepted(g)
    <3>1. UNCHANGED inFlight
          BY <1>3, <2>4 DEF HandleCallback
    <3>2. ServerTypeOK'
          BY <1>b, <1>c, <2>1, <3>1 DEF ServerTypeOK
    <3>3. FlowInOnePlace'
          BY <1>d, <2>1, <2>2, <3>1 DEF FlowInOnePlace
    <3>4. OneCodePerFlow' /\ CodeInOnePlace'
          BY <1>d, <2>1 DEF OneCodePerFlow, CodeInOnePlace
    <3> QED BY <1>e, <3>2, <3>3, <3>4
  <2> QED BY <2>3, <2>4
<1>4. ASSUME NEW call \in inFlight, NEW claims \in IDTokens, NEW c \in Codes,
             CallbackSucceeds(call, claims, c)
      PROVE  ServerInv'
  <2> DEFINE g   == call.pending.googleState
             log == [flow |-> g, user |-> UserOf(claims),
                     returnedAt |-> call.at, at |-> now]
  <2>1. /\ c \notin minted
        /\ minted' = minted \cup {c}
        /\ inFlight' = inFlight \ {call}
        /\ codeLog' = Put(codeLog, c, log)
        /\ DOMAIN authCodes' = DOMAIN authCodes \cup {c}
        /\ UNCHANGED <<now, pendingAuthz, asked, approvals, tokens>>
        BY <1>4 DEF CallbackSucceeds, NewCode, RandomHex, StoreAuthCode, Put
  <2>2. /\ log \in [flow : GoogleStates, user : Users, returnedAt : Nat, at : Nat]
        /\ log.flow = g
    <3>1. UserOf(claims) \in Users
          BY InputsAssumption DEF UserOf
    <3> QED BY <1>c, <3>1 DEF ServerTypeOK, TypeOK, PendingAuthorization
  <2>3. /\ g \in minted
        /\ g \notin DOMAIN pendingAuthz
        /\ \A x \in inFlight \ {call} : x.pending.googleState # g
        /\ \A d \in DOMAIN codeLog : codeLog[d].flow # g
        BY <1>d DEF FlowInOnePlace
  <2>4. c \notin DOMAIN codeLog
        BY <1>d, <2>1 DEF FlowInOnePlace
  <2> HIDE DEF g, log
  <2>5. /\ DOMAIN codeLog' = DOMAIN codeLog \cup {c}
        /\ codeLog'[c] = log
        /\ \A d \in DOMAIN codeLog : d # c => codeLog'[d] = codeLog[d]
        BY <2>1 DEF Put
  <2>6. ServerTypeOK'
    <3>1. IsMap(codeLog', Codes,
                [flow : GoogleStates, user : Users, returnedAt : Nat, at : Nat])
          BY <1>c, <2>1, <2>2 DEF ServerTypeOK, IsMap, Put
    <3> QED BY <1>b, <1>c, <2>1, <3>1 DEF ServerTypeOK
  <2>7. FlowInOnePlace'
        BY <1>d, <2>1, <2>2, <2>3, <2>5 DEF FlowInOnePlace
  <2>8. OneCodePerFlow'
        BY <1>d, <2>2, <2>3, <2>5 DEF OneCodePerFlow
  <2>9. CodeInOnePlace'
        BY <1>d, <2>1, <2>4, <2>5 DEF CodeInOnePlace
  <2> QED BY <1>e, <2>6, <2>7, <2>8, <2>9
<1>5. ASSUME NEW call \in inFlight, CallbackFails(call)
      PROVE  ServerInv'
  <2>1. /\ inFlight' = inFlight \ {call}
        /\ UNCHANGED <<now, pendingAuthz, authCodes, minted, asked, approvals,
                       codeLog, tokens>>
        BY <1>5 DEF CallbackFails, storeVars
  <2>2. ServerTypeOK' /\ FlowInOnePlace'
        BY <1>b, <1>c, <1>d, <2>1 DEF ServerTypeOK, FlowInOnePlace
  <2>3. OneCodePerFlow' /\ CodeInOnePlace'
        BY <1>d, <2>1 DEF OneCodePerFlow, CodeInOnePlace
  <2> QED BY <1>e, <2>2, <2>3
<1>6. ASSUME NEW c \in Codes, NEW form \in TokenForms, handleToken(c, form)
      PROVE  ServerInv'
  <2>1. /\ DOMAIN authCodes' = DOMAIN authCodes \ {c}
        /\ UNCHANGED <<now, pendingAuthz, minted, asked, approvals, inFlight, codeLog>>
        BY <1>6 DEF handleToken, ConsumeAuthCode, Delete, Restrict
  <2>2. FlowInOnePlace' /\ OneCodePerFlow'
        BY <1>d, <2>1 DEF FlowInOnePlace, OneCodePerFlow
  <2>3. CASE CodeAccepted(c) /\ FormMatches(authCodes[c], form)
    <3> DEFINE token == [code |-> c, flow |-> codeLog[c].flow, at |-> now,
                         user |-> authCodes[c].user, verifier |-> form.codeVerifier,
                         clientID |-> authCodes[c].request.clientID,
                         redirectURI |-> form.redirectURI,
                         audience |-> Audience(authCodes[c].request)]
    <3>1. tokens' = Append(tokens, token)
          BY <1>6, <2>3 DEF handleToken
    <3>2. c \in DOMAIN authCodes /\ c \in DOMAIN codeLog
          BY <1>d, <2>3 DEF CodeAccepted, CodeInOnePlace
    <3>3. token \in AccessToken
      <4>1. authCodes[c] \in AuthorizationCode
            BY <1>c, <3>2 DEF TypeOK, IsMap
      <4>2. codeLog[c].flow \in GoogleStates
            BY <1>c, <3>2 DEF ServerTypeOK, IsMap
      <4>3. now \in Nat /\ form.codeVerifier \in Verifiers
            BY <1>c, InputsAssumption DEF TypeOK
      <4>4. authCodes[c].request \in Requests /\ authCodes[c].user \in Users
            BY <4>1 DEF AuthorizationCode
      <4> QED BY <4>2, <4>3, <4>4 DEF AccessToken
    <3>4. token.code = c /\ token.flow = codeLog[c].flow
          OBVIOUS
    <3> HIDE DEF token
    <3>5. /\ tokens \in Seq(AccessToken)
          /\ tokens' \in Seq(AccessToken)
          /\ Len(tokens') = Len(tokens) + 1
          /\ \A i \in 1..Len(tokens) : tokens'[i] = tokens[i]
          /\ tokens'[Len(tokens) + 1] = token
          BY <1>c, <3>1, <3>3 DEF ServerTypeOK
    <3>6. /\ DOMAIN tokens' = DOMAIN tokens \cup {Len(tokens) + 1}
          /\ \A i \in DOMAIN tokens : tokens'[i] = tokens[i]
          BY <3>5
    <3>7. ServerTypeOK'
          BY <1>b, <1>c, <2>1, <3>5 DEF ServerTypeOK
    <3>8. CodeInOnePlace'
      <4>1. \A i \in DOMAIN tokens : tokens[i].code # c
            BY <1>d, <3>2 DEF CodeInOnePlace
      <4> QED BY <1>d, <2>1, <3>2, <3>4, <3>5, <3>6, <4>1 DEF CodeInOnePlace
    <3> QED BY <1>e, <2>2, <3>7, <3>8
  <2>4. CASE ~ (CodeAccepted(c) /\ FormMatches(authCodes[c], form))
    <3>1. UNCHANGED tokens
          BY <1>6, <2>4 DEF handleToken
    <3>2. ServerTypeOK'
          BY <1>b, <1>c, <2>1, <3>1 DEF ServerTypeOK
    <3>3. CodeInOnePlace'
          BY <1>d, <2>1, <3>1 DEF CodeInOnePlace
    <3> QED BY <1>e, <2>2, <3>2, <3>3
  <2> QED BY <2>3, <2>4
<1>7. ASSUME Restart
      PROVE  ServerInv'
  <2>1. /\ DOMAIN pendingAuthz' = {} /\ DOMAIN authCodes' = {} /\ inFlight' = {}
        /\ UNCHANGED <<now, minted, asked, approvals, codeLog, tokens>>
        BY <1>7 DEF Restart, NewOAuthStore, EmptyMap
  <2>2. ServerTypeOK' /\ FlowInOnePlace'
        BY <1>b, <1>c, <1>d, <2>1 DEF ServerTypeOK, FlowInOnePlace
  <2>3. OneCodePerFlow' /\ CodeInOnePlace'
        BY <1>d, <2>1 DEF OneCodePerFlow, CodeInOnePlace
  <2> QED BY <1>e, <2>2, <2>3
<1>8. ASSUME CleanupTick \/ Tick \/ UNCHANGED vars, UNCHANGED serverVars
      PROVE  ServerInv'
  <2>1. /\ DOMAIN pendingAuthz' \subseteq DOMAIN pendingAuthz
        /\ \A x \in DOMAIN pendingAuthz' : pendingAuthz'[x] = pendingAuthz[x]
        /\ DOMAIN authCodes' \subseteq DOMAIN authCodes
        /\ UNCHANGED <<minted, asked, approvals, inFlight, codeLog, tokens>>
        BY <1>8 DEF CleanupTick, Cleanup, Tick, Restrict, storeVars, serverVars, vars
  <2>2. ServerTypeOK' /\ FlowInOnePlace'
        BY <1>b, <1>c, <1>d, <2>1 DEF ServerTypeOK, FlowInOnePlace
  <2>3. OneCodePerFlow' /\ CodeInOnePlace'
        BY <1>d, <2>1 DEF OneCodePerFlow, CodeInOnePlace
  <2> QED BY <1>e, <2>2, <2>3
<1>9. UNCHANGED vars => UNCHANGED serverVars
      BY DEF vars, serverVars
<1> QED BY <1>1, <1>2, <1>3, <1>4, <1>5, <1>6, <1>7, <1>8, <1>9 DEF ServerNext

(* What the server stores, logs and issues has its type.                   *)
THEOREM ServerTypesCorrect == ServerSpec => []ServerTypeOK
<1>1. ServerInv => ServerTypeOK
      BY DEF ServerInv
<1> QED BY <1>1, ServerInitInv, ServerNextInv, PTL DEF ServerSpec

(* A flow yields at most one authorization code.                           *)
THEOREM ServerOneCodePerFlow == ServerSpec => []OneCodePerFlow
<1>1. ServerInv => OneCodePerFlow
      BY DEF ServerInv
<1> QED BY <1>1, ServerInitInv, ServerNextInv, PTL DEF ServerSpec

(* A flow yields at most one access token: two tokens of one flow would    *)
(* come from one code, and a code is consumed before its token is issued.  *)
THEOREM ServerOneTokenPerFlow == ServerSpec => []OneTokenPerFlow
<1>1. ServerInv => OneTokenPerFlow
  <2> SUFFICES ASSUME ServerInv, NEW i \in DOMAIN tokens, NEW j \in DOMAIN tokens,
                      tokens[i].flow = tokens[j].flow
               PROVE  i = j
      BY DEF OneTokenPerFlow
  <2>1. /\ tokens[i].code \in DOMAIN codeLog /\ tokens[j].code \in DOMAIN codeLog
        /\ codeLog[tokens[i].code].flow = codeLog[tokens[j].code].flow
        BY DEF ServerInv, CodeInOnePlace
  <2>2. tokens[i].code = tokens[j].code
        BY <2>1 DEF ServerInv, OneCodePerFlow
  <2> QED BY <2>2 DEF ServerInv, CodeInOnePlace
<1> QED BY <1>1, ServerInitInv, ServerNextInv, PTL DEF ServerSpec

(* The server is a caller of the store like any other: with StoreTypeOK    *)
(* and StoreCsrfIndexSound, what holds of every use of the store holds in  *)
(* the server.                                                             *)
THEOREM ServerImplementsStore == ServerSpec => StoreSpec
<1>1. ServerInit => StoreInit
      BY DEF ServerInit
<1> QED BY <1>1, ServerInitInv, ServerNextInv, ServerStepIsStoreStep, PTL
        DEF ServerSpec, StoreSpec

(* In the server, too, every CSRF token leads to its own pending flow.     *)
THEOREM ServerCsrfIndexSound == ServerSpec => []CsrfIndexSound
BY ServerImplementsStore, StoreCsrfIndexSound, PTL

(* The flows' times, one step per handler.                                 *)
LEMMA HopsNextInv == ServerInv /\ HopsInv /\ [ServerNext]_vars => HopsInv'
<1> SUFFICES ASSUME ServerInv, HopsInv, [ServerNext]_vars
             PROVE  HopsInv'
    OBVIOUS
<1>a. /\ TypeOK /\ PendingMinted /\ CsrfIndexSound /\ ServerTypeOK
      /\ FlowInOnePlace /\ CodeInOnePlace
      BY DEF ServerInv, StoreInv
<1>b. TimesRecorded /\ HopsWithinTTL
      BY DEF HopsInv
<1>c. PendingAuthzTTL \in Nat /\ AuthCodeTTL \in Nat /\ now \in Nat
      BY <1>a, TimesAssumption DEF TypeOK
<1>1. ASSUME NEW q \in Queries, NEW g \in GoogleStates, NEW t \in CSRFTokens,
             HandleAuthorize(q, g, t)
      PROVE  HopsInv'
  <2> DEFINE pa == [googleState |-> g, csrfToken |-> t,
                    request |-> RequestOf(q), createdAt |-> now]
  <2>1. /\ g \notin minted
        /\ minted' = minted \cup {g, t}
        /\ pendingAuthz' = Put(pendingAuthz, g, pa)
        /\ asked' = Put(asked, g, pendingAuthz'[g])
        /\ UNCHANGED <<authCodes, approvals, inFlight, codeLog, tokens>>
        BY <1>1 DEF HandleAuthorize, NewPending, RandomHex, StorePendingAuthorization
  <2> HIDE DEF pa
  <2>2. /\ DOMAIN pendingAuthz' = DOMAIN pendingAuthz \cup {g}
        /\ \A x \in DOMAIN pendingAuthz : x # g => pendingAuthz'[x] = pendingAuthz[x]
        BY <2>1 DEF Put
  <2>3. /\ DOMAIN asked' = DOMAIN asked \cup {g}
        /\ asked'[g] = pendingAuthz'[g]
        /\ \A x \in DOMAIN asked : asked'[x] = asked[x]
    <3>1. g \notin DOMAIN asked
          BY <1>b, <2>1 DEF TimesRecorded
    <3> QED BY <2>1, <3>1 DEF Put
  <2>4. TimesRecorded'
        BY <1>b, <2>1, <2>2, <2>3 DEF TimesRecorded
  <2>5. HopsWithinTTL'
        BY <1>b, <2>1, <2>3 DEF HopsWithinTTL, TimesRecorded
  <2> QED BY <2>4, <2>5 DEF HopsInv
<1>2. ASSUME NEW g \in DOMAIN asked, NEW h \in DOMAIN asked,
             HandleConsent(g, asked[h].csrfToken)
      PROVE  HopsInv'
  <2> DEFINE t == asked[h].csrfToken
             approval == [flow |-> g, at |-> now]
  <2>1. /\ UNCHANGED <<now, minted, authCodes, asked, inFlight, codeLog, tokens>>
        /\ DOMAIN pendingAuthz' \subseteq DOMAIN pendingAuthz
        /\ \A x \in DOMAIN pendingAuthz' : pendingAuthz'[x] = pendingAuthz[x]
        BY <1>2 DEF HandleConsent, ConsumePendingByCSRF, storeVars, Delete, Restrict
  <2>2. CASE CSRFAccepted(t) /\ PendingOfCSRF(t).googleState = g
    <3>1. approvals' = Append(approvals, approval)
          BY <1>2, <2>2 DEF HandleConsent
    <3>2. now - asked[g].createdAt <= PendingAuthzTTL
      <4>1. csrfTokens[t] \in DOMAIN pendingAuthz /\ ~ PendingExpired(csrfTokens[t])
            BY <2>2 DEF CSRFAccepted
      <4>2. csrfTokens[t] = g
            BY <1>a, <2>2, <4>1 DEF PendingOfCSRF, FlowInOnePlace
      <4>3. pendingAuthz[g].createdAt \in Nat
            BY <1>a, <4>1, <4>2 DEF TypeOK, IsMap, PendingAuthorization
      <4> QED BY <1>b, <1>c, <4>1, <4>2, <4>3 DEF PendingExpired, Expired, TimesRecorded
    <3>3. approval.flow = g /\ approval.at = now
          OBVIOUS
    <3>4. /\ approvals \in Seq([flow : GoogleStates, at : Nat])
          /\ approval \in [flow : GoogleStates, at : Nat]
          BY <1>a, <1>c DEF ServerTypeOK, IsMap
    <3> HIDE DEF approval
    <3>5. /\ DOMAIN approvals' = DOMAIN approvals \cup {Len(approvals) + 1}
          /\ \A i \in DOMAIN approvals : approvals'[i] = approvals[i]
          /\ approvals'[Len(approvals) + 1] = approval
          BY <3>1, <3>4
    <3>6. TimesRecorded'
          BY <1>b, <2>1, <3>3, <3>5 DEF TimesRecorded
    <3>7. HopsWithinTTL'
          BY <1>b, <2>1, <3>2, <3>3, <3>5 DEF HopsWithinTTL
    <3> QED BY <3>6, <3>7 DEF HopsInv
  <2>3. CASE ~ (CSRFAccepted(t) /\ PendingOfCSRF(t).googleState = g)
    <3>1. UNCHANGED approvals
          BY <1>2, <2>3 DEF HandleConsent
    <3> QED BY <1>b, <2>1, <3>1 DEF HopsInv, TimesRecorded, HopsWithinTTL
  <2> QED BY <2>2, <2>3
<1>3. ASSUME NEW g \in GoogleStates, HandleCallback(g)
      PROVE  HopsInv'
  <2>1. UNCHANGED <<now, minted, authCodes, asked, approvals, codeLog, tokens>>
        BY <1>3 DEF HandleCallback, ConsumePendingByGoogleState, storeVars
  <2>2. /\ DOMAIN pendingAuthz' \subseteq DOMAIN pendingAuthz
        /\ \A x \in DOMAIN pendingAuthz' : pendingAuthz'[x] = pendingAuthz[x]
        BY <1>3 DEF HandleCallback, ConsumePendingByGoogleState, storeVars, Delete, Restrict
  <2>3. HopsWithinTTL'
        BY <1>b, <2>1 DEF HopsWithinTTL
  <2>4. CASE StateAccepted(g)
    <3> DEFINE call == [pending |-> pendingAuthz[g], at |-> now]
    <3>1. inFlight' = inFlight \cup {call}
          BY <1>3, <2>4 DEF HandleCallback
    <3>2. g \in DOMAIN pendingAuthz /\ ~ PendingExpired(g)
          BY <2>4 DEF StateAccepted
    <3>3. call.pending.googleState = g /\ call.at = now
          BY <1>a, <3>2 DEF FlowInOnePlace
    <3>4. g \in DOMAIN asked /\ now - asked[g].createdAt <= PendingAuthzTTL
      <4>1. pendingAuthz[g].createdAt \in Nat
            BY <1>a, <3>2 DEF TypeOK, IsMap, PendingAuthorization
      <4> QED BY <1>b, <1>c, <3>2, <4>1 DEF PendingExpired, Expired, TimesRecorded
    <3> HIDE DEF call
    <3>5. TimesRecorded'
          BY <1>b, <2>1, <2>2, <3>1, <3>3, <3>4 DEF TimesRecorded
    <3> QED BY <2>3, <3>5 DEF HopsInv
  <2>5. CASE ~ StateAccepted(g)
    <3>1. UNCHANGED inFlight
          BY <1>3, <2>5 DEF HandleCallback
    <3> QED BY <1>b, <2>1, <2>2, <2>3, <3>1 DEF HopsInv, TimesRecorded
  <2> QED BY <2>4, <2>5
<1>4. ASSUME NEW call \in inFlight, NEW claims \in IDTokens, NEW c \in Codes,
             CallbackSucceeds(call, claims, c)
      PROVE  HopsInv'
  <2> DEFINE log == [flow |-> call.pending.googleState, user |-> UserOf(claims),
                     returnedAt |-> call.at, at |-> now]
             ac == [code |-> c, request |-> call.pending.request,
                    user |-> UserOf(claims), createdAt |-> now]
  <2>1. /\ c \notin minted
        /\ minted' = minted \cup {c}
        /\ inFlight' = inFlight \ {call}
        /\ codeLog' = Put(codeLog, c, log)
        /\ authCodes' = Put(authCodes, c, ac)
        /\ UNCHANGED <<now, pendingAuthz, asked, approvals, tokens>>
        BY <1>4 DEF CallbackSucceeds, NewCode, RandomHex, StoreAuthCode
  <2>2. c \notin DOMAIN codeLog
        BY <1>a, <2>1 DEF FlowInOnePlace
  <2>3. /\ log.flow = call.pending.googleState /\ log.returnedAt = call.at
        /\ log.at = ac.createdAt
        OBVIOUS
  <2> HIDE DEF log, ac
  <2>4. /\ DOMAIN codeLog' = DOMAIN codeLog \cup {c}
        /\ codeLog'[c] = log
        /\ \A d \in DOMAIN codeLog : codeLog'[d] = codeLog[d]
        BY <2>1, <2>2 DEF Put
  <2>5. /\ DOMAIN authCodes' = DOMAIN authCodes \cup {c}
        /\ authCodes'[c] = ac
        /\ \A d \in DOMAIN authCodes : d # c => authCodes'[d] = authCodes[d]
        BY <2>1 DEF Put
  <2>6. TimesRecorded'
        BY <1>a, <1>b, <2>1, <2>3, <2>4, <2>5 DEF TimesRecorded, CodeInOnePlace
  <2>7. HopsWithinTTL'
        BY <1>a, <1>b, <2>1, <2>3, <2>4 DEF HopsWithinTTL, TimesRecorded, CodeInOnePlace
  <2> QED BY <2>6, <2>7 DEF HopsInv
<1>5. ASSUME NEW call \in inFlight, CallbackFails(call)
      PROVE  HopsInv'
      BY <1>5, <1>b DEF CallbackFails, storeVars, HopsInv, TimesRecorded, HopsWithinTTL
<1>6. ASSUME NEW c \in Codes, NEW form \in TokenForms, handleToken(c, form)
      PROVE  HopsInv'
  <2>1. /\ DOMAIN authCodes' \subseteq DOMAIN authCodes
        /\ \A d \in DOMAIN authCodes' : authCodes'[d] = authCodes[d]
        /\ UNCHANGED <<now, pendingAuthz, minted, asked, approvals, inFlight, codeLog>>
        BY <1>6 DEF handleToken, ConsumeAuthCode, Delete, Restrict
  <2>2. TimesRecorded'
        BY <1>b, <2>1 DEF TimesRecorded
  <2>3. CASE CodeAccepted(c) /\ FormMatches(authCodes[c], form)
    <3> DEFINE token == [code |-> c, flow |-> codeLog[c].flow, at |-> now,
                         user |-> authCodes[c].user, verifier |-> form.codeVerifier,
                         clientID |-> authCodes[c].request.clientID,
                         redirectURI |-> form.redirectURI,
                         audience |-> Audience(authCodes[c].request)]
    <3>1. tokens' = Append(tokens, token)
          BY <1>6, <2>3 DEF handleToken
    <3>2. c \in DOMAIN authCodes /\ ~ Expired(authCodes[c], AuthCodeTTL)
          BY <2>3 DEF CodeAccepted
    <3>3. now - codeLog[c].at <= AuthCodeTTL
      <4>1. authCodes[c].createdAt \in Nat /\ authCodes[c].createdAt = codeLog[c].at
            BY <1>a, <1>b, <3>2 DEF TypeOK, IsMap, AuthorizationCode, TimesRecorded
      <4> QED BY <1>c, <3>2, <4>1 DEF Expired
    <3>4. token.code = c /\ token.at = now
          OBVIOUS
    <3> HIDE DEF token
    <3>5. /\ DOMAIN tokens' = DOMAIN tokens \cup {Len(tokens) + 1}
          /\ \A i \in DOMAIN tokens : tokens'[i] = tokens[i]
          /\ tokens'[Len(tokens) + 1] = token
          BY <1>a, <3>1 DEF ServerTypeOK
    <3>6. HopsWithinTTL'
          BY <1>b, <2>1, <3>3, <3>4, <3>5 DEF HopsWithinTTL
    <3> QED BY <2>2, <3>6 DEF HopsInv
  <2>4. CASE ~ (CodeAccepted(c) /\ FormMatches(authCodes[c], form))
    <3>1. UNCHANGED tokens
          BY <1>6, <2>4 DEF handleToken
    <3> QED BY <1>b, <2>1, <2>2, <3>1 DEF HopsInv, HopsWithinTTL
  <2> QED BY <2>3, <2>4
<1>7. ASSUME Restart
      PROVE  HopsInv'
  <2>1. /\ DOMAIN pendingAuthz' = {} /\ DOMAIN authCodes' = {} /\ inFlight' = {}
        /\ UNCHANGED <<now, minted, asked, approvals, codeLog, tokens>>
        BY <1>7 DEF Restart, NewOAuthStore, EmptyMap
  <2> QED BY <1>b, <2>1 DEF HopsInv, TimesRecorded, HopsWithinTTL
<1>8. ASSUME CleanupTick \/ Tick \/ UNCHANGED vars, UNCHANGED serverVars
      PROVE  HopsInv'
  <2>1. /\ DOMAIN pendingAuthz' \subseteq DOMAIN pendingAuthz
        /\ \A x \in DOMAIN pendingAuthz' : pendingAuthz'[x] = pendingAuthz[x]
        /\ DOMAIN authCodes' \subseteq DOMAIN authCodes
        /\ \A x \in DOMAIN authCodes' : authCodes'[x] = authCodes[x]
        /\ UNCHANGED <<minted, asked, approvals, inFlight, codeLog, tokens>>
        BY <1>8 DEF CleanupTick, Cleanup, Tick, Restrict, storeVars, serverVars, vars
  <2> QED BY <1>b, <2>1 DEF HopsInv, TimesRecorded, HopsWithinTTL
<1>9. UNCHANGED vars => UNCHANGED serverVars
      BY DEF vars, serverVars
<1> QED BY <1>1, <1>2, <1>3, <1>4, <1>5, <1>6, <1>7, <1>8, <1>9 DEF ServerNext

(* A consent and a callback come within the lifetime of the authorization, *)
(* and a token within that of its code, whenever the clean-up runs.        *)
THEOREM ServerHopsWithinTTL == ServerSpec => []HopsWithinTTL
<1>1. ServerInit => HopsInv
      BY DEF ServerInit, StoreInit, EmptyMap, HopsInv, TimesRecorded, HopsWithinTTL
<1>2. HopsInv => HopsWithinTTL
      BY DEF HopsInv
<1> QED BY <1>1, <1>2, HopsNextInv, ServerInitInv, ServerNextInv, PTL DEF ServerSpec

(* Every step keeps the entries of the store tied to their flows.          *)
LEMMA FlowsNextInv == GrantInv /\ [ServerNext]_vars => FlowsSound'
<1> SUFFICES ASSUME GrantInv, [ServerNext]_vars
             PROVE  FlowsSound'
    OBVIOUS
<1>a. /\ TypeOK /\ PendingMinted /\ CsrfIndexSound /\ ServerTypeOK
      /\ FlowInOnePlace /\ CodeInOnePlace /\ TimesRecorded /\ FlowsSound
      BY DEF GrantInv, ServerInv, StoreInv, HopsInv
<1>1. ASSUME NEW q \in Queries, NEW g \in GoogleStates, NEW t \in CSRFTokens,
             HandleAuthorize(q, g, t)
      PROVE  FlowsSound'
  <2> DEFINE pa == [googleState |-> g, csrfToken |-> t,
                    request |-> RequestOf(q), createdAt |-> now]
  <2>1. /\ g \notin minted
        /\ ValidQuery(q)
        /\ pendingAuthz' = Put(pendingAuthz, g, pa)
        /\ csrfTokens' = Put(csrfTokens, t, g)
        /\ asked' = Put(asked, g, pendingAuthz'[g])
        /\ UNCHANGED <<authCodes, approvals, inFlight, codeLog, tokens>>
        BY <1>1 DEF HandleAuthorize, NewPending, RandomHex, StorePendingAuthorization
  <2>2. pa.request = RequestOf(q)
        OBVIOUS
  <2> HIDE DEF pa
  <2>3. pendingAuthz'[g] = pa
        BY <2>1 DEF Put
  <2>4. g \notin DOMAIN asked
        BY <1>a, <2>1 DEF TimesRecorded
  <2>5. /\ DOMAIN asked' = DOMAIN asked \cup {g}
        /\ asked'[g] = pa
        /\ \A x \in DOMAIN asked : asked'[x] = asked[x]
        BY <2>1, <2>3, <2>4 DEF Put
  <2>6. \A x \in DOMAIN csrfTokens' : csrfTokens'[x] = g \/ (x \in DOMAIN csrfTokens
                                                  /\ csrfTokens'[x] = csrfTokens[x])
        BY <2>1 DEF Put
  <2>7. \A x : Approved(x)' <=> Approved(x)
        BY <2>1 DEF Approved
  <2>8. ~ Approved(g)
        BY <1>a, <2>4 DEF Approved, TimesRecorded
  <2>9. /\ \A x \in DOMAIN asked' :
             \E r \in Queries : ValidQuery(r) /\ asked'[x].request = RequestOf(r)
        /\ \A x \in DOMAIN csrfTokens' : ~ Approved(csrfTokens'[x])
        BY <1>a, <2>1, <2>2, <2>5, <2>6, <2>8 DEF FlowsSound
  <2>10. /\ \A call \in inFlight :
              call.pending.request = asked'[call.pending.googleState].request
         /\ \A c \in DOMAIN authCodes :
              authCodes[c].request = asked'[codeLog[c].flow].request
        BY <1>a, <2>5 DEF FlowsSound, TimesRecorded, CodeInOnePlace
  <2> QED BY <1>a, <2>1, <2>7, <2>9, <2>10 DEF FlowsSound, Approved
<1>2. ASSUME NEW g \in DOMAIN asked, NEW h \in DOMAIN asked,
             HandleConsent(g, asked[h].csrfToken)
      PROVE  FlowsSound'
  <2> DEFINE t == asked[h].csrfToken
  <2>1. /\ UNCHANGED <<authCodes, asked, inFlight, codeLog, tokens>>
        /\ DOMAIN csrfTokens' = DOMAIN csrfTokens \ {t}
        /\ \A x \in DOMAIN csrfTokens' : csrfTokens'[x] = csrfTokens[x]
        BY <1>2 DEF HandleConsent, ConsumePendingByCSRF, storeVars, Delete, Restrict
  <2>2. CASE CSRFAccepted(t) /\ PendingOfCSRF(t).googleState = g
    <3>1. approvals' = Append(approvals, [flow |-> g, at |-> now])
          BY <1>2, <2>2 DEF HandleConsent
    <3>2. /\ approvals \in Seq([flow : GoogleStates, at : Nat])
          /\ [flow |-> g, at |-> now] \in [flow : GoogleStates, at : Nat]
          BY <1>a DEF ServerTypeOK, IsMap, TypeOK
    <3>a. /\ Len(approvals) \in Nat /\ DOMAIN approvals = 1 .. Len(approvals)
          /\ DOMAIN approvals' = 1 .. Len(approvals) + 1
          /\ \A i \in 1 .. Len(approvals) : approvals'[i] = approvals[i]
          /\ approvals'[Len(approvals) + 1].flow = g
          BY <3>1, <3>2
    <3>3. \A x : Approved(x)' <=> Approved(x) \/ x = g
          BY <3>a DEF Approved
    <3>4. t \in DOMAIN csrfTokens /\ csrfTokens[t] = g
          BY <1>a, <2>2 DEF CSRFAccepted, PendingOfCSRF, FlowInOnePlace
    <3>5. \A x \in DOMAIN csrfTokens : csrfTokens[x] = g => x = t
          BY <1>a, <3>4 DEF CsrfIndexSound
    <3> QED BY <1>a, <2>1, <3>3, <3>5 DEF FlowsSound
  <2>3. CASE ~ (CSRFAccepted(t) /\ PendingOfCSRF(t).googleState = g)
    <3>1. UNCHANGED approvals
          BY <1>2, <2>3 DEF HandleConsent
    <3> QED BY <1>a, <2>1, <3>1 DEF FlowsSound, Approved
  <2> QED BY <2>2, <2>3
<1>3. ASSUME NEW g \in GoogleStates, HandleCallback(g)
      PROVE  FlowsSound'
  <2>1. UNCHANGED <<authCodes, asked, approvals, codeLog, tokens>>
        BY <1>3 DEF HandleCallback, ConsumePendingByGoogleState, storeVars
  <2>2. /\ DOMAIN csrfTokens' \subseteq DOMAIN csrfTokens
        /\ \A x \in DOMAIN csrfTokens' : csrfTokens'[x] = csrfTokens[x]
        BY <1>3 DEF HandleCallback, ConsumePendingByGoogleState, storeVars, Delete, Restrict
  <2>3. \A call \in inFlight' \ inFlight :
          call.pending.request = asked[call.pending.googleState].request
    <3>2. CASE StateAccepted(g)
      <4>1. inFlight' = inFlight \cup {[pending |-> pendingAuthz[g], at |-> now]}
            BY <1>3, <3>2 DEF HandleCallback
      <4>2. pendingAuthz[g].googleState = g /\ pendingAuthz[g] = asked[g]
            BY <1>a, <3>2 DEF StateAccepted, FlowInOnePlace, TimesRecorded
      <4> QED BY <4>1, <4>2
    <3>3. CASE ~ StateAccepted(g)
          BY <1>3, <3>3 DEF HandleCallback
    <3> QED BY <3>2, <3>3
  <2> QED BY <1>a, <2>1, <2>2, <2>3 DEF FlowsSound, Approved
<1>4. ASSUME NEW call \in inFlight, NEW claims \in IDTokens, NEW c \in Codes,
             CallbackSucceeds(call, claims, c)
      PROVE  FlowsSound'
  <2> DEFINE log == [flow |-> call.pending.googleState, user |-> UserOf(claims),
                     returnedAt |-> call.at, at |-> now]
             ac == [code |-> c, request |-> call.pending.request,
                    user |-> UserOf(claims), createdAt |-> now]
  <2>1. /\ c \notin minted
        /\ inFlight' = inFlight \ {call}
        /\ codeLog' = Put(codeLog, c, log)
        /\ authCodes' = Put(authCodes, c, ac)
        /\ UNCHANGED <<csrfTokens, asked, approvals, tokens>>
        BY <1>4 DEF CallbackSucceeds, NewCode, RandomHex, StoreAuthCode
  <2>2. c \notin DOMAIN codeLog
        BY <1>a, <2>1 DEF FlowInOnePlace
  <2>3. /\ log.flow = call.pending.googleState /\ log.user = ac.user
        /\ ac.request = call.pending.request
        OBVIOUS
  <2> HIDE DEF log, ac
  <2>4. /\ codeLog'[c] = log /\ authCodes'[c] = ac
        /\ DOMAIN authCodes' = DOMAIN authCodes \cup {c}
        /\ \A d \in DOMAIN codeLog : codeLog'[d] = codeLog[d]
        /\ \A d \in DOMAIN authCodes : d # c => authCodes'[d] = authCodes[d]
        BY <2>1, <2>2 DEF Put
  <2>5. \A d \in DOMAIN authCodes' :
          /\ authCodes'[d].user = codeLog'[d].user
          /\ authCodes'[d].request = asked[codeLog'[d].flow].request
        BY <1>a, <2>3, <2>4 DEF FlowsSound, CodeInOnePlace
  <2> QED BY <1>a, <2>1, <2>5 DEF FlowsSound, Approved
<1>5. ASSUME NEW call \in inFlight, CallbackFails(call)
      PROVE  FlowsSound'
      BY <1>5, <1>a DEF CallbackFails, storeVars, FlowsSound, Approved
<1>6. ASSUME NEW c \in Codes, NEW form \in TokenForms, handleToken(c, form)
      PROVE  FlowsSound'
  <2>1. /\ DOMAIN authCodes' \subseteq DOMAIN authCodes
        /\ \A d \in DOMAIN authCodes' : authCodes'[d] = authCodes[d]
        /\ UNCHANGED <<csrfTokens, asked, approvals, inFlight, codeLog>>
        BY <1>6 DEF handleToken, ConsumeAuthCode, Delete, Restrict
  <2> QED BY <1>a, <2>1 DEF FlowsSound, Approved
<1>7. ASSUME Restart
      PROVE  FlowsSound'
  <2>1. /\ DOMAIN csrfTokens' = {} /\ DOMAIN authCodes' = {} /\ inFlight' = {}
        /\ UNCHANGED <<asked, approvals, codeLog>>
        BY <1>7 DEF Restart, NewOAuthStore, EmptyMap
  <2> QED BY <1>a, <2>1 DEF FlowsSound, Approved
<1>8. ASSUME CleanupTick \/ Tick \/ UNCHANGED vars, UNCHANGED serverVars
      PROVE  FlowsSound'
  <2>1. /\ DOMAIN csrfTokens' \subseteq DOMAIN csrfTokens
        /\ \A x \in DOMAIN csrfTokens' : csrfTokens'[x] = csrfTokens[x]
        /\ DOMAIN authCodes' \subseteq DOMAIN authCodes
        /\ \A x \in DOMAIN authCodes' : authCodes'[x] = authCodes[x]
        /\ UNCHANGED <<asked, approvals, inFlight, codeLog>>
        BY <1>8 DEF CleanupTick, Cleanup, Tick, Restrict, storeVars, serverVars, vars
  <2> QED BY <1>a, <2>1 DEF FlowsSound, Approved
<1>9. UNCHANGED vars => UNCHANGED serverVars
      BY DEF vars, serverVars
<1> QED BY <1>1, <1>2, <1>3, <1>4, <1>5, <1>6, <1>7, <1>8, <1>9 DEF ServerNext

(* The mapping of a sequence, element by element, maps an appended element *)
(* to an appended one.                                                     *)
LEMMA MapAppend ==
  ASSUME NEW S, NEW T, NEW s \in Seq(S), NEW e \in S, NEW f \in [S -> T]
  PROVE  [i \in DOMAIN Append(s, e) |-> f[Append(s, e)[i]]]
           = Append([i \in DOMAIN s |-> f[s[i]]], f[e])
<1> DEFINE m == [i \in DOMAIN s |-> f[s[i]]]
           n == [i \in DOMAIN Append(s, e) |-> f[Append(s, e)[i]]]
<1>1. /\ Len(s) \in Nat /\ DOMAIN s = 1 .. Len(s)
      /\ DOMAIN Append(s, e) = 1 .. Len(s) + 1
      /\ \A i \in 1 .. Len(s) : Append(s, e)[i] = s[i]
      /\ Append(s, e)[Len(s) + 1] = e
      OBVIOUS
<1>2. m \in [1 .. Len(s) -> T]
  <2>1. \A i \in 1 .. Len(s) : s[i] \in S
        BY <1>1
  <2> QED BY <1>1, <2>1
<1>3. m \in Seq(T) /\ Len(m) = Len(s)
      BY <1>1, <1>2
<1>4. /\ DOMAIN Append(m, f[e]) = 1 .. Len(s) + 1
      /\ \A i \in 1 .. Len(s) : Append(m, f[e])[i] = m[i]
      /\ Append(m, f[e])[Len(s) + 1] = f[e]
      BY <1>3
<1>5. Append(m, f[e]) = [i \in DOMAIN Append(m, f[e]) |-> Append(m, f[e])[i]]
      BY <1>3
<1>6. DOMAIN n = DOMAIN Append(m, f[e])
      BY <1>1, <1>4
<1>7. \A i \in 1 .. Len(s) + 1 : n[i] = Append(m, f[e])[i]
      BY <1>1, <1>4
<1> QED BY <1>1, <1>4, <1>5, <1>6, <1>7

(* A server that has just started is a grant that nobody has asked for.    *)
LEMMA GrantInitMaps == ServerInit => Grant!GrantInit
<1> SUFFICES ASSUME ServerInit PROVE Grant!GrantInit
    OBVIOUS
<1>1. GrantAsked = Grant!EmptyMap
      BY DEF ServerInit, GrantAsked, EmptyMap, Grant!EmptyMap
<1>2. GrantApproved = << >> /\ GrantTokens = << >>
      BY DEF ServerInit, GrantApproved, GrantTokens
<1>3. GrantSignedIn = Grant!EmptyMap
      BY DEF ServerInit, GrantSignedIn, FlowsSignedInto, EmptyMap, Grant!EmptyMap
<1> QED BY <1>1, <1>2, <1>3 DEF Grant!GrantInit

(* The flow of a code is signed into, by the account of that code.         *)
LEMMA CodeOfFlow ==
  ASSUME OneCodePerFlow, NEW c \in DOMAIN codeLog
  PROVE  /\ codeLog[c].flow \in DOMAIN GrantSignedIn
         /\ GrantSignedIn[codeLog[c].flow] = codeLog[c].user
<1>1. codeLog[c].flow \in FlowsSignedInto
      BY DEF FlowsSignedInto
<1>2. CodeOf(codeLog[c].flow) = c
      BY DEF CodeOf, OneCodePerFlow
<1> QED BY <1>1, <1>2 DEF GrantSignedIn

(* The elements of a sequence are members of its set.                       *)
LEMMA SeqElements ==
  ASSUME NEW S, NEW s \in Seq(S)
  PROVE  \A i \in DOMAIN s : s[i] \in S
  OBVIOUS

(* What a step leaves of the history, it leaves of the grant.              *)
LEMMA GrantKept ==
  /\ asked' = asked => GrantAsked' = GrantAsked
  /\ approvals' = approvals => GrantApproved' = GrantApproved
  /\ codeLog' = codeLog => GrantSignedIn' = GrantSignedIn
  /\ tokens' = tokens => GrantTokens' = GrantTokens
<1>1. asked' = asked => GrantAsked' = GrantAsked
      BY DEF GrantAsked
<1>2. approvals' = approvals => GrantApproved' = GrantApproved
      BY DEF GrantApproved
<1>3. codeLog' = codeLog => GrantSignedIn' = GrantSignedIn
      BY DEF GrantSignedIn, FlowsSignedInto, CodeOf
<1>4. tokens' = tokens => GrantTokens' = GrantTokens
      BY DEF GrantTokens
<1> QED BY <1>1, <1>2, <1>3, <1>4

(* Storing an authorization asks for its flow.                             *)
LEMMA AuthorizeAsks ==
  ASSUME GrantInv, NEW q \in Queries, NEW g \in GoogleStates, NEW t \in CSRFTokens,
         HandleAuthorize(q, g, t)
  PROVE  Grant!Ask(g, GrantRequest(RequestOf(q)))
<1> DEFINE pa == [googleState |-> g, csrfToken |-> t,
                  request |-> RequestOf(q), createdAt |-> now]
<1>1. /\ g \notin minted
      /\ pendingAuthz' = Put(pendingAuthz, g, pa)
      /\ asked' = Put(asked, g, pendingAuthz'[g])
      /\ UNCHANGED <<approvals, codeLog, tokens>>
      BY DEF HandleAuthorize, NewPending, RandomHex, StorePendingAuthorization
<1>2. pa.request = RequestOf(q)
      OBVIOUS
<1> HIDE DEF pa
<1>3. pendingAuthz'[g] = pa
      BY <1>1 DEF Put
<1>4. g \notin DOMAIN asked
      BY <1>1 DEF GrantInv, HopsInv, TimesRecorded
<1>5. asked' = Put(asked, g, pa)
      BY <1>1, <1>3
<1>6. DOMAIN GrantAsked = DOMAIN asked
      BY DEF GrantAsked
<1>7. /\ DOMAIN asked' = DOMAIN asked \cup {g}
      /\ asked'[g] = pa
      /\ \A x \in DOMAIN asked : asked'[x] = asked[x]
      BY <1>4, <1>5 DEF Put
<1>8. GrantAsked' = Grant!Put(GrantAsked, g, GrantRequest(RequestOf(q)))
      BY <1>2, <1>4, <1>6, <1>7 DEF GrantAsked, Grant!Put
<1>9. UNCHANGED <<GrantApproved, GrantSignedIn, GrantTokens>>
      BY <1>1, GrantKept
<1> QED BY <1>4, <1>6, <1>8, <1>9 DEF Grant!Ask

(* An accepted consent approves its flow, for the first time and before it *)
(* is signed into.                                                         *)
LEMMA ConsentApproves ==
  ASSUME GrantInv, NEW g \in DOMAIN asked, NEW t, HandleConsent(g, t),
         CSRFAccepted(t), PendingOfCSRF(t).googleState = g
  PROVE  Grant!Approve(g)
<1> DEFINE A == [flow : GoogleStates, at : Nat]
           e == [flow |-> g, at |-> now]
           f == [a \in A |-> a.flow]
<1>a. /\ TypeOK /\ CsrfIndexSound /\ ServerTypeOK /\ FlowInOnePlace /\ FlowsSound
      BY DEF GrantInv, ServerInv, StoreInv
<1>1. /\ approvals' = Append(approvals, e)
      /\ UNCHANGED <<asked, codeLog, tokens>>
      BY DEF HandleConsent
<1>2. t \in DOMAIN csrfTokens /\ csrfTokens[t] = g
      BY <1>a DEF CSRFAccepted, PendingOfCSRF, FlowInOnePlace
<1>3. \A i \in DOMAIN approvals : approvals[i].flow # g
      BY <1>a, <1>2 DEF FlowsSound, Approved
<1>4. approvals \in Seq(A) /\ g \in GoogleStates /\ now \in Nat
      BY <1>a DEF ServerTypeOK, TypeOK, IsMap
<1>5. e \in A /\ f \in [A -> GoogleStates] /\ f[e] = g
      BY <1>4
<1>6. \A i \in DOMAIN approvals : approvals[i] \in A
      BY <1>4, SeqElements
<1> HIDE DEF e
<1>7. Append(approvals, e) \in Seq(A)
  <2> HIDE DEF A, f
  <2> QED BY <1>4, <1>5
<1>8. \A i \in DOMAIN Append(approvals, e) : Append(approvals, e)[i] \in A
      BY <1>7, SeqElements
<1>9. [i \in DOMAIN Append(approvals, e) |-> f[Append(approvals, e)[i]]]
        = Append([i \in DOMAIN approvals |-> f[approvals[i]]], f[e])
  <2> HIDE DEF A, f
  <2> QED BY <1>4, <1>5, MapAppend
<1>a1. \A x \in A : f[x] = x.flow
      OBVIOUS
<1>10. GrantApproved = [i \in DOMAIN approvals |-> f[approvals[i]]]
  <2> HIDE DEF A, f
  <2>1. \A i \in DOMAIN approvals : approvals[i].flow = f[approvals[i]]
        BY <1>6, <1>a1, Zenon
  <2> QED BY <2>1 DEF GrantApproved
<1>11. GrantApproved' = [i \in DOMAIN Append(approvals, e) |-> f[Append(approvals, e)[i]]]
  <2> HIDE DEF A, f
  <2>1. \A i \in DOMAIN Append(approvals, e) :
          Append(approvals, e)[i].flow = f[Append(approvals, e)[i]]
        BY <1>8, <1>a1, Zenon
  <2>2. GrantApproved' = [i \in DOMAIN approvals' |-> approvals'[i].flow]
        BY DEF GrantApproved
  <2>3. GrantApproved' = [i \in DOMAIN Append(approvals, e) |-> Append(approvals, e)[i].flow]
        BY <1>1, <2>2, Zenon
  <2> QED BY <2>1, <2>3
<1>12. GrantApproved' = Append(GrantApproved, g)
      BY <1>5, <1>9, <1>10, <1>11
<1>13. \A i \in DOMAIN GrantApproved : GrantApproved[i] # g
      BY <1>3 DEF GrantApproved
<1>14. g \in DOMAIN GrantAsked /\ g \notin DOMAIN GrantSignedIn
  <2>1. g \in DOMAIN pendingAuthz
        BY <1>a, <1>2 DEF CsrfIndexSound
  <2>2. g \notin FlowsSignedInto
        BY <1>a, <2>1 DEF FlowInOnePlace, FlowsSignedInto
  <2> QED BY <2>2 DEF GrantAsked, GrantSignedIn
<1>15. UNCHANGED <<GrantAsked, GrantSignedIn, GrantTokens>>
      BY <1>1, GrantKept
<1> QED BY <1>12, <1>13, <1>14, <1>15 DEF Grant!Approve

(* A code that is created signs the flow of its callback in, with an       *)
(* account the operator lets in.                                           *)
LEMMA CallbackSignsIn ==
  ASSUME GrantInv, OneCodePerFlow', NEW call \in inFlight, NEW claims \in IDTokens,
         NEW c \in Codes, CallbackSucceeds(call, claims, c)
  PROVE  /\ call.pending.googleState \in GoogleStates
         /\ UserOf(claims) \in Admitted
         /\ Grant!SignIn(call.pending.googleState, UserOf(claims))
<1> DEFINE flow == call.pending.googleState
           user == UserOf(claims)
           log == [flow |-> flow, user |-> user, returnedAt |-> call.at, at |-> now]
<1>a. /\ ServerTypeOK /\ FlowInOnePlace /\ OneCodePerFlow /\ FlowsSound
      BY DEF GrantInv, ServerInv
<1>1. /\ c \notin minted
      /\ codeLog' = Put(codeLog, c, log)
      /\ UNCHANGED <<asked, approvals, tokens>>
      BY DEF CallbackSucceeds, NewCode, RandomHex
<1>2. log.flow = flow /\ log.user = user
      OBVIOUS
<1>3. flow \in GoogleStates
      BY <1>a DEF ServerTypeOK, PendingAuthorization
<1>4. user \in Admitted
      BY AdmittedAssumption DEF CallbackSucceeds, ValidIDToken, CheckAccess, UserOf
<1>5. flow \in DOMAIN GrantAsked
      BY DEF GrantInv, HopsInv, TimesRecorded, GrantAsked
<1>6. c \notin DOMAIN codeLog /\ flow \notin FlowsSignedInto
      BY <1>a, <1>1 DEF FlowInOnePlace, FlowsSignedInto
<1> HIDE DEF log, flow, user
<1>7. /\ DOMAIN codeLog' = DOMAIN codeLog \cup {c}
      /\ codeLog'[c] = log
      /\ \A d \in DOMAIN codeLog : codeLog'[d] = codeLog[d]
      BY <1>1, <1>6 DEF Put
<1>8. FlowsSignedInto' = FlowsSignedInto \cup {flow}
      BY <1>2, <1>7 DEF FlowsSignedInto
<1>9. GrantSignedIn'[flow] = user
  <2>1. CodeOf(flow)' = c
        BY <1>2, <1>7 DEF CodeOf, OneCodePerFlow
  <2> QED BY <1>2, <1>7, <1>8, <2>1 DEF GrantSignedIn
<1>10. \A x \in FlowsSignedInto : GrantSignedIn'[x] = GrantSignedIn[x]
  <2> SUFFICES ASSUME NEW x \in FlowsSignedInto
               PROVE  GrantSignedIn'[x] = GrantSignedIn[x]
      OBVIOUS
  <2>1. PICK d \in DOMAIN codeLog : codeLog[d].flow = x
        BY DEF FlowsSignedInto
  <2>2. CodeOf(x) = d
        BY <1>a, <2>1 DEF CodeOf, OneCodePerFlow
  <2>3. CodeOf(x)' = d
        BY <1>7, <2>1 DEF CodeOf, OneCodePerFlow
  <2>4. x \in FlowsSignedInto'
        BY <1>8
  <2> QED BY <1>7, <2>1, <2>2, <2>3, <2>4 DEF GrantSignedIn
<1>11. DOMAIN GrantSignedIn = FlowsSignedInto /\ DOMAIN GrantSignedIn' = FlowsSignedInto'
      BY DEF GrantSignedIn
<1>12. GrantSignedIn' = [x \in FlowsSignedInto' |-> GrantSignedIn'[x]]
      BY DEF GrantSignedIn
<1>13. GrantSignedIn' = Grant!Put(GrantSignedIn, flow, user)
      BY <1>6, <1>8, <1>9, <1>10, <1>11, <1>12 DEF Grant!Put
<1>14. UNCHANGED <<GrantAsked, GrantApproved, GrantTokens>>
      BY <1>1, GrantKept
<1>15. Grant!SignIn(flow, user)
      BY <1>5, <1>6, <1>11, <1>13, <1>14 DEF Grant!SignIn
<1> QED BY <1>3, <1>4, <1>15 DEF flow, user

(* A token that is issued is bound to the flow of the code it redeems, the *)
(* first of that flow.                                                     *)
LEMMA TokenIssues ==
  ASSUME GrantInv, ServerTypeOK', NEW c \in Codes, NEW form \in TokenForms,
         handleToken(c, form), CodeAccepted(c), FormMatches(authCodes[c], form)
  PROVE  /\ codeLog[c].flow \in GoogleStates
         /\ form.codeVerifier \in Verifiers
         /\ Grant!Issue(codeLog[c].flow, form.codeVerifier)
<1> DEFINE flow == codeLog[c].flow
           v == form.codeVerifier
           tok == [code |-> c, flow |-> flow, at |-> now,
                   user |-> authCodes[c].user, verifier |-> v,
                   clientID |-> authCodes[c].request.clientID,
                   redirectURI |-> form.redirectURI,
                   audience |-> Audience(authCodes[c].request)]
           T == {GrantToken(x) : x \in AccessToken}
           f == [x \in AccessToken |-> GrantToken(x)]
<1>a. /\ TypeOK /\ ServerTypeOK /\ OneCodePerFlow /\ CodeInOnePlace /\ TimesRecorded
      /\ FlowsSound
      BY DEF GrantInv, ServerInv, StoreInv, HopsInv
<1>1. /\ tokens' = Append(tokens, tok)
      /\ UNCHANGED <<asked, approvals, codeLog>>
      BY DEF handleToken
<1>2. c \in DOMAIN authCodes /\ c \in DOMAIN codeLog
      BY <1>a DEF CodeAccepted, CodeInOnePlace
<1>3. flow \in GoogleStates /\ flow \in DOMAIN asked
      BY <1>a, <1>2 DEF ServerTypeOK, IsMap, TimesRecorded
<1>4. v \in Verifiers
      BY InputsAssumption
<1>5. PICK q \in Queries : ValidQuery(q) /\ asked[flow].request = RequestOf(q)
      BY <1>a, <1>3 DEF FlowsSound
<1>6. /\ authCodes[c].request = asked[flow].request
      /\ authCodes[c].user = codeLog[c].user
      BY <1>a, <1>2 DEF FlowsSound
<1>7. Audience(authCodes[c].request) = ResourceURL
  <2>1. authCodes[c].request = RequestOf(q) /\ q.resource \in {"", ResourceURL}
        BY <1>5, <1>6 DEF ValidQuery
  <2>2. RequestOf(q).resource = q.resource
        BY DEF RequestOf
  <2> QED BY <2>1, <2>2 DEF Audience
<1>8. /\ DOMAIN GrantAsked = DOMAIN asked
      /\ GrantAsked[flow] = GrantRequest(asked[flow].request)
      BY <1>3 DEF GrantAsked
<1>9. /\ GrantAsked[flow].clientID = authCodes[c].request.clientID
      /\ GrantAsked[flow].redirectURI = form.redirectURI
      /\ GrantAsked[flow].codeChallenge = S256[v]
      /\ GrantAsked[flow].audience = ResourceURL
      BY <1>6, <1>8 DEF GrantRequest, FormMatches
<1>10. flow \in DOMAIN GrantSignedIn /\ GrantSignedIn[flow] = authCodes[c].user
      BY <1>a, <1>2, <1>6, CodeOfFlow
<1>11. \A i \in DOMAIN tokens : tokens[i].flow # flow
      BY <1>a, <1>2 DEF CodeInOnePlace, OneCodePerFlow
<1>12. \A i \in DOMAIN GrantTokens : GrantTokens[i].flow # flow
      BY <1>11 DEF GrantTokens, GrantToken
<1>13. GrantToken(tok)
         = [flow |-> flow, user |-> GrantSignedIn[flow], verifier |-> v,
            clientID |-> GrantAsked[flow].clientID,
            redirectURI |-> GrantAsked[flow].redirectURI,
            audience |-> GrantAsked[flow].audience]
      BY <1>7, <1>9, <1>10 DEF GrantToken
<1> HIDE DEF tok
<1>14. tokens \in Seq(AccessToken) /\ tokens' \in Seq(AccessToken)
      BY <1>a DEF ServerTypeOK
<1>15. tok \in AccessToken
  <2>1. Len(tokens) \in Nat /\ Len(tokens) + 1 \in DOMAIN tokens'
        BY <1>1, <1>14
  <2>2. tokens'[Len(tokens) + 1] = tok
        BY <1>1, <1>14
  <2> QED BY <1>14, <2>1, <2>2
<1>16. f \in [AccessToken -> T] /\ f[tok] = GrantToken(tok)
      BY <1>15
<1>17. [i \in DOMAIN Append(tokens, tok) |-> f[Append(tokens, tok)[i]]]
         = Append([i \in DOMAIN tokens |-> f[tokens[i]]], f[tok])
  <2> HIDE DEF T, f
  <2> QED BY <1>14, <1>15, <1>16, MapAppend
<1>18. /\ \A i \in DOMAIN tokens : tokens[i] \in AccessToken
       /\ \A i \in DOMAIN tokens' : tokens'[i] \in AccessToken
      BY <1>14
<1>19. GrantTokens = [i \in DOMAIN tokens |-> f[tokens[i]]]
      BY <1>18 DEF GrantTokens
<1>20. GrantTokens' = [i \in DOMAIN tokens' |-> f[tokens'[i]]]
      BY <1>18 DEF GrantTokens
<1>21. GrantTokens' = Append(GrantTokens, GrantToken(tok))
      BY <1>1, <1>16, <1>17, <1>19, <1>20
<1>22. UNCHANGED <<GrantAsked, GrantApproved, GrantSignedIn>>
      BY <1>1, GrantKept
<1> QED BY <1>3, <1>4, <1>9, <1>10, <1>12, <1>13, <1>21, <1>22 DEF Grant!Issue

(* Every step of the server is a step of the grant or leaves it alone.     *)
LEMMA GrantNextMaps ==
  GrantInv /\ ServerInv' /\ [ServerNext]_vars => [Grant!GrantNext]_(Grant!grantVars)
<1> SUFFICES ASSUME GrantInv, ServerInv', [ServerNext]_vars
             PROVE  Grant!GrantNext \/ UNCHANGED Grant!grantVars
    OBVIOUS
<1>a. UNCHANGED <<asked, approvals, codeLog, tokens>> => UNCHANGED Grant!grantVars
      BY GrantKept DEF Grant!grantVars
<1>1. ASSUME NEW q \in Queries, NEW g \in GoogleStates, NEW t \in CSRFTokens,
             HandleAuthorize(q, g, t)
      PROVE  Grant!GrantNext
      BY <1>1, AuthorizeAsks DEF Grant!GrantNext
<1>2. ASSUME NEW g \in DOMAIN asked, NEW h \in DOMAIN asked,
             HandleConsent(g, asked[h].csrfToken)
      PROVE  Grant!GrantNext \/ UNCHANGED Grant!grantVars
  <2> DEFINE t == asked[h].csrfToken
             accepted == CSRFAccepted(t) /\ PendingOfCSRF(t).googleState = g
  <2>1. CASE accepted
    <3>1. Grant!Approve(g)
          BY <1>2, <2>1, ConsentApproves
    <3>2. g \in GoogleStates
          BY DEF GrantInv, ServerInv, ServerTypeOK, IsMap
    <3> QED BY <3>1, <3>2 DEF Grant!GrantNext
  <2>2. CASE ~ accepted
        BY <1>2, <1>a, <2>2 DEF HandleConsent
  <2> QED BY <2>1, <2>2
<1>3. ASSUME NEW g \in GoogleStates, HandleCallback(g)
      PROVE  UNCHANGED Grant!grantVars
      BY <1>3, <1>a DEF HandleCallback
<1>4. ASSUME NEW call \in inFlight, NEW claims \in IDTokens, NEW c \in Codes,
             CallbackSucceeds(call, claims, c)
      PROVE  Grant!GrantNext
      BY <1>4, CallbackSignsIn DEF ServerInv, Grant!GrantNext
<1>5. ASSUME NEW call \in inFlight, CallbackFails(call)
      PROVE  UNCHANGED Grant!grantVars
      BY <1>5, <1>a DEF CallbackFails
<1>6. ASSUME NEW c \in Codes, NEW form \in TokenForms, handleToken(c, form)
      PROVE  Grant!GrantNext \/ UNCHANGED Grant!grantVars
  <2>1. CASE CodeAccepted(c) /\ FormMatches(authCodes[c], form)
        BY <1>6, <2>1, TokenIssues DEF ServerInv, Grant!GrantNext
  <2>2. CASE ~ (CodeAccepted(c) /\ FormMatches(authCodes[c], form))
        BY <1>6, <1>a, <2>2 DEF handleToken
  <2> QED BY <2>1, <2>2
<1>7. ASSUME UNCHANGED serverVars \/ Restart
      PROVE  UNCHANGED Grant!grantVars
      BY <1>7, <1>a DEF serverVars, Restart
<1>8. UNCHANGED vars => UNCHANGED serverVars
      BY DEF vars, serverVars
<1> QED BY <1>1, <1>2, <1>3, <1>4, <1>5, <1>6, <1>7, <1>8 DEF ServerNext

(* For every set of flows, requests, accounts and settings, the server is  *)
(* an authorization grant: the client, redirect URI, challenge, resource   *)
(* and account of a token are those of one flow, which nobody approves     *)
(* twice or after it was signed into, and which yields no other token.     *)
THEOREM ServerImplementsGrant == ServerSpec => ImplementsGrant
<1>1. ServerInit => GrantInv
  <2> SUFFICES ASSUME ServerInit PROVE GrantInv
      OBVIOUS
  <2>1. ServerInv
        BY ServerInitInv
  <2>2. HopsInv
        BY DEF ServerInit, StoreInit, HopsInv, TimesRecorded, HopsWithinTTL, EmptyMap
  <2>3. FlowsSound
        BY DEF ServerInit, StoreInit, FlowsSound, EmptyMap
  <2> QED BY <2>1, <2>2, <2>3 DEF GrantInv
<1>2. GrantInv /\ [ServerNext]_vars => GrantInv'
      BY ServerNextInv, HopsNextInv, FlowsNextInv DEF GrantInv
<1>3. GrantInv' => ServerInv'
      BY DEF GrantInv
<1> QED BY <1>1, <1>2, <1>3, GrantInitMaps, GrantNextMaps, PTL
        DEF ServerSpec, ImplementsGrant, Grant!GrantSpec

=============================================================================
