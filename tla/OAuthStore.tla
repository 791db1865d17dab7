----------------------------- MODULE OAuthStore -----------------------------
(***************************************************************************)
(* server/oauth_store.go: the in-memory store of the OAuth server.  It     *)
(* holds the authorizations waiting for the user (by the random state sent *)
(* to Google), an index from CSRF token to that state, and the             *)
(* authorization codes waiting to be redeemed.  Every method runs under    *)
(* one mutex, so each is one step.                                         *)
(*                                                                         *)
(* The handlers that call the store are in OAuthServer; here its callers   *)
(* are the most general ones: any of them calls any method at any time,    *)
(* and identifiers come from randomHex, which never repeats itself.        *)
(***************************************************************************)
EXTENDS Integers, GoMap

CONSTANTS
  GoogleStates,     \* what randomHex returns for PendingAuthorization.GoogleState
  CSRFTokens,       \* ... for PendingAuthorization.CSRFToken
  Codes,            \* ... for AuthorizationCode.Code
  Requests,         \* what the client asked for: the fields the store only carries
  Users,            \* Google accounts (UserID, Email)
  PendingAuthzTTL,  \* pendingAuthzTTL
  AuthCodeTTL,      \* authCodeTTL
  MaxTime,          \* bound: the clock stops here
  MaxArrival        \* bound: no entry is created after this time

ASSUME TimesAssumption ==
  {PendingAuthzTTL, AuthCodeTTL, MaxTime, MaxArrival} \subseteq Nat

VARIABLES
  now,              \* the monotonic clock
  pendingAuthz,     \* googleState -> PendingAuthorization
  csrfTokens,       \* csrfToken -> googleState
  authCodes,        \* code -> AuthorizationCode
  minted            \* every identifier randomHex has returned

storeVars == <<pendingAuthz, csrfTokens, authCodes>>

PendingAuthorization ==
  [googleState : GoogleStates, csrfToken : CSRFTokens,
   request : Requests, createdAt : Nat]

AuthorizationCode ==
  [code : Codes, request : Requests, user : Users, createdAt : Nat]

TypeOK ==
  /\ now \in Nat
  /\ IsMap(pendingAuthz, GoogleStates, PendingAuthorization)
  /\ IsMap(csrfTokens, CSRFTokens, GoogleStates)
  /\ IsMap(authCodes, Codes, AuthorizationCode)
  /\ minted \subseteq GoogleStates \cup CSRFTokens \cup Codes

-----------------------------------------------------------------------------
(* time.Since(entry.CreatedAt) > ttl *)
Expired(entry, ttl) == now - entry.createdAt > ttl

PendingExpired(g) == Expired(pendingAuthz[g], PendingAuthzTTL)

(* ids are fresh results of randomHex: 256 random bits do not collide. *)
RandomHex(ids) ==
  /\ ids \cap minted = {}
  /\ minted' = minted \cup ids

(* Mutant: the index from CSRF token to state built the wrong way round.    *)
StorePendingSwapped(pa) ==
  /\ pendingAuthz' = Put(pendingAuthz, pa.googleState, pa)
  /\ csrfTokens' = Put(csrfTokens, pa.googleState, pa.csrfToken)
  /\ UNCHANGED authCodes

StorePendingAuthorization(pa) ==
  /\ pendingAuthz' = Put(pendingAuthz, pa.googleState, pa)
  /\ csrfTokens' = Put(csrfTokens, pa.csrfToken, pa.googleState)
  /\ UNCHANGED authCodes

(* The authorization ConsumePendingByCSRF(t) returns; there is one, that   *)
(* is, the result is not nil, when CSRFAccepted(t).                        *)
PendingOfCSRF(t) == pendingAuthz[csrfTokens[t]]

CSRFExpired(t) ==
  /\ csrfTokens[t] \in DOMAIN pendingAuthz
  /\ PendingExpired(csrfTokens[t])

CSRFAccepted(t) ==
  /\ t \in DOMAIN csrfTokens
  /\ csrfTokens[t] \in DOMAIN pendingAuthz
  /\ ~ PendingExpired(csrfTokens[t])

ConsumePendingByCSRF(t) ==
  \/ /\ t \notin DOMAIN csrfTokens
     /\ UNCHANGED storeVars
  \/ /\ t \in DOMAIN csrfTokens
     /\ csrfTokens' = Delete(csrfTokens, t)
     /\ pendingAuthz' = IF CSRFExpired(t)
                          THEN Delete(pendingAuthz, csrfTokens[t])
                          ELSE pendingAuthz
     /\ UNCHANGED authCodes

(* Mutant: only the cleanup loop looks at the age.                         *)
StateKnown(g) == g \in DOMAIN pendingAuthz

(* ConsumePendingByGoogleState(g) returns pendingAuthz[g], not nil.        *)
StateAccepted(g) == g \in DOMAIN pendingAuthz /\ ~ PendingExpired(g)

(* Mutant: the CSRF token outlives the authorization it belongs to.        *)
ConsumeStateKeepsCSRF(g) ==
  /\ pendingAuthz' = Delete(pendingAuthz, g)
  /\ UNCHANGED <<csrfTokens, authCodes>>

(* Mutant: the authorization stays until the callback has succeeded.       *)
PeekPendingByGoogleState(g) == g \in GoogleStates /\ UNCHANGED storeVars

ConsumePendingByGoogleState(g) ==
  \/ /\ g \notin DOMAIN pendingAuthz
     /\ UNCHANGED storeVars
  \/ /\ g \in DOMAIN pendingAuthz
     /\ pendingAuthz' = Delete(pendingAuthz, g)
     /\ csrfTokens' = Delete(csrfTokens, pendingAuthz[g].csrfToken)
     /\ UNCHANGED authCodes

StoreAuthCode(ac) ==
  /\ authCodes' = Put(authCodes, ac.code, ac)
  /\ UNCHANGED <<pendingAuthz, csrfTokens>>

(* ConsumeAuthCode(c) returns authCodes[c], not nil. *)
CodeAccepted(c) ==
  c \in DOMAIN authCodes /\ ~ Expired(authCodes[c], AuthCodeTTL)

(* Mutant: a code is deleted only when it has expired.                     *)
ConsumeExpiredCodeOnly(c) ==
  /\ authCodes' = IF CodeAccepted(c) THEN authCodes ELSE Delete(authCodes, c)
  /\ UNCHANGED <<pendingAuthz, csrfTokens>>

ConsumeAuthCode(c) ==
  /\ authCodes' = Delete(authCodes, c)
  /\ UNCHANGED <<pendingAuthz, csrfTokens>>

(* Mutant: the loop over the codes is missing.                             *)
CleanupPendingOnly ==
  LET stale == {g \in DOMAIN pendingAuthz : PendingExpired(g)}
  IN  /\ pendingAuthz' = Restrict(pendingAuthz, DOMAIN pendingAuthz \ stale)
      /\ csrfTokens' = Restrict(csrfTokens,
           DOMAIN csrfTokens \ {pendingAuthz[g].csrfToken : g \in stale})
      /\ UNCHANGED authCodes

Cleanup ==
  LET stale == {g \in DOMAIN pendingAuthz : PendingExpired(g)}
      dead  == {c \in DOMAIN authCodes : Expired(authCodes[c], AuthCodeTTL)}
  IN  /\ pendingAuthz' = Restrict(pendingAuthz, DOMAIN pendingAuthz \ stale)
      /\ csrfTokens' = Restrict(csrfTokens,
           DOMAIN csrfTokens \ {pendingAuthz[g].csrfToken : g \in stale})
      /\ authCodes' = Restrict(authCodes, DOMAIN authCodes \ dead)

(* The process restarts: nothing is persisted. *)
NewOAuthStore ==
  /\ pendingAuthz' = EmptyMap
  /\ csrfTokens' = EmptyMap
  /\ authCodes' = EmptyMap

Tick ==
  /\ now < MaxTime
  /\ now' = now + 1
  /\ UNCHANGED <<storeVars, minted>>

-----------------------------------------------------------------------------
(* The most general callers. *)

NewPending(g, t, r) ==
  /\ now <= MaxArrival
  /\ RandomHex({g, t})
  /\ StorePendingAuthorization([googleState |-> g, csrfToken |-> t,
                                request |-> r, createdAt |-> now])
  /\ UNCHANGED now

NewCode(c, r, u) ==
  /\ now <= MaxArrival
  /\ RandomHex({c})
  /\ StoreAuthCode([code |-> c, request |-> r, user |-> u, createdAt |-> now])
  /\ UNCHANGED now

StoreInit ==
  /\ now = 0
  /\ pendingAuthz = EmptyMap
  /\ csrfTokens = EmptyMap
  /\ authCodes = EmptyMap
  /\ minted = {}

CleanupTick == Cleanup /\ UNCHANGED <<now, minted>>

StoreNext ==
  \/ \E g \in GoogleStates, t \in CSRFTokens, r \in Requests : NewPending(g, t, r)
  \/ \E c \in Codes, r \in Requests, u \in Users : NewCode(c, r, u)
  \/ \E t \in CSRFTokens : ConsumePendingByCSRF(t) /\ UNCHANGED <<now, minted>>
  \/ \E g \in GoogleStates :
       ConsumePendingByGoogleState(g) /\ UNCHANGED <<now, minted>>
  \/ \E c \in Codes : ConsumeAuthCode(c) /\ UNCHANGED <<now, minted>>
  \/ CleanupTick
  \/ NewOAuthStore /\ UNCHANGED <<now, minted>>
  \/ Tick

allStoreVars == <<now, pendingAuthz, csrfTokens, authCodes, minted>>

StoreSpec == StoreInit /\ [][StoreNext]_allStoreVars

(* Time passes and the ticker of StartCleanupLoop keeps firing. *)
FairStoreSpec ==
  StoreSpec /\ WF_allStoreVars(Tick) /\ WF_allStoreVars(CleanupTick)

-----------------------------------------------------------------------------
(* The two indexes agree: every CSRF token leads to an authorization that  *)
(* is still pending and was created with that very token.  Four methods    *)
(* delete from the two maps, each in its own order and on its own          *)
(* condition; the nil test in ConsumePendingByCSRF is there because        *)
(* nothing else says they keep in step.                                    *)
CsrfIndexSound ==
  \A t \in DOMAIN csrfTokens :
    /\ csrfTokens[t] \in DOMAIN pendingAuthz
    /\ pendingAuthz[csrfTokens[t]].csrfToken = t

(* What makes CsrfIndexSound inductive: a state that is still a key was    *)
(* minted, so no later authorization overwrites the entry a token leads to.*)
PendingMinted == DOMAIN pendingAuthz \subseteq minted

StoreInv == TypeOK /\ CsrfIndexSound /\ PendingMinted

(* An abandoned authorization, its CSRF token and an unredeemed code are   *)
(* all removed in the end, whatever the callers do: the maps of a server   *)
(* that runs for months do not fill with them.                             *)
EventuallyPurged ==
  /\ \A g \in GoogleStates :
       g \in DOMAIN pendingAuthz ~> g \notin DOMAIN pendingAuthz
  /\ \A t \in CSRFTokens :
       t \in DOMAIN csrfTokens ~> t \notin DOMAIN csrfTokens
  /\ \A c \in Codes :
       c \in DOMAIN authCodes ~> c \notin DOMAIN authCodes

=============================================================================
