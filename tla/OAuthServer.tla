----------------------------- MODULE OAuthServer -----------------------------
(***************************************************************************)
(* server/oauth.go: the authorization server of the HTTP mode, on top of   *)
(* the store.  A flow is named by the random state it sends to Google.     *)
(*                                                                         *)
(*   GET  /authorize   HandleAuthorize   stores the request, shows consent *)
(*   POST /consent     HandleConsent     redirects the user to Google      *)
(*   GET  /callback    HandleCallback    ends at Google's code exchange    *)
(*                     CallbackSucceeds, CallbackFails: the rest of it     *)
(*   POST /token       handleToken       redeems the code                  *)
(*                                                                         *)
(* Requests are served concurrently.  /callback calls Google between two   *)
(* store operations and so is two steps; the other handlers touch shared   *)
(* state once and are one.  A request a handler refuses before it touches  *)
(* the store changes nothing and is no step.                               *)
(***************************************************************************)
EXTENDS OAuthStore, Sequences

CONSTANTS
  Queries,          \* the queries /authorize may be called with
  IDTokens,         \* the claims of the ID tokens Google may answer with
  TokenForms,       \* the forms, but for the code, /token may be called with
  RedirectURIs,     \* client -> the redirect URIs it registered, by config.yml or
                    \*   by its client metadata document
  ResourceURL,      \* h.resourceURL
  GoogleClientID,   \* cfg.OAuth.Google.ClientID
  AllowedDomains,   \* cfg.OAuth.Google.AllowedDomains
  AllowedEmails,    \* cfg.OAuth.Google.AllowedEmails
  Verifiers,        \* PKCE verifiers
  S256,             \* verifier -> base64url(sha256(verifier))
  VerifierLength,   \* verifier -> its length
  Admitted          \* the accounts the operator means to let in

VARIABLES
  asked,            \* history: googleState -> the authorization as stored
  approvals,        \* history: the consents that led to Google, in order
  inFlight,         \* the /callback requests waiting for Google
  codeLog,          \* history: code -> the callback it was created for
  tokens            \* history: the access tokens issued, in order

serverVars == <<asked, approvals, inFlight, codeLog, tokens>>

vars == <<now, pendingAuthz, csrfTokens, authCodes, minted,
          asked, approvals, inFlight, codeLog, tokens>>

ServerInit ==
  /\ StoreInit
  /\ asked = EmptyMap
  /\ approvals = << >>
  /\ inFlight = {}
  /\ codeLog = EmptyMap
  /\ tokens = << >>

-----------------------------------------------------------------------------
(* Checks without state.  A URI is a record of scheme, host, port, path.   *)

isLoopbackRedirectURI(uri) ==
  uri.scheme = "http" /\ uri.host \in {"localhost", "127.0.0.1"}

(* RFC 8252: the port of a loopback redirect URI is not compared.          *)
SameButPort(a, b) ==
  <<a.scheme, a.host, a.path>> = <<b.scheme, b.host, b.path>>

validateRedirectURI(uri, allowed) ==
  IF isLoopbackRedirectURI(uri)
    THEN \E a \in allowed : isLoopbackRedirectURI(a) /\ SameButPort(uri, a)
    ELSE uri \in allowed

ValidQuery(q) ==
  /\ q.responseType = "code"
  /\ q.resource \in {"", ResourceURL}
  /\ q.codeChallenge # ""
  /\ q.codeChallengeMethod \in {"", "S256"}
  /\ q.clientID \in DOMAIN RedirectURIs
  /\ validateRedirectURI(q.redirectURI, RedirectURIs[q.clientID])

RequestOf(q) ==
  [clientID |-> q.clientID, redirectURI |-> q.redirectURI,
   codeChallenge |-> q.codeChallenge, resource |-> q.resource]

(* Mutant: the account is known by its address, which Google may reassign. *)
EmailOf(claims) == claims.email

(* AuthorizationCode.UserID, later the token's subject.                    *)
UserOf(claims) == claims.sub

(* The signature, with the key getKey finds, is GoogleJWKS's subject.      *)
ValidIDToken(claims) ==
  /\ claims.iss \in {"accounts.google.com", "https://accounts.google.com"}
  /\ claims.aud = GoogleClientID

CheckAccess(claims) ==
  /\ claims.emailVerified
  /\ \/ AllowedDomains = {} /\ AllowedEmails = {}
     \/ claims.email \in AllowedEmails
     \/ claims.hd \in AllowedDomains

ValidForm(form) ==
  /\ form.grantType = "authorization_code"
  /\ VerifierLength[form.codeVerifier] \in 43..128

(* Mutant: the verifier is not compared with the challenge.                *)
FormMatchesNoPKCE(ac, form) ==
  /\ ac.request.clientID = form.clientID
  /\ ac.request.redirectURI = form.redirectURI

(* What /token compares the code it has just consumed with.                *)
FormMatches(ac, form) ==
  /\ ac.request.clientID = form.clientID
  /\ ac.request.redirectURI = form.redirectURI
  /\ S256[form.codeVerifier] = ac.request.codeChallenge

Audience(request) ==
  IF request.resource = "" THEN ResourceURL ELSE request.resource

ASSUME InputsAssumption ==
  /\ \A q \in Queries : RequestOf(q) \in Requests
  /\ \A claims \in IDTokens : claims.sub \in Users
  /\ \A form \in TokenForms : form.codeVerifier \in Verifiers

(* What the operator means by the settings: everybody if there are none.   *)
ASSUME AdmittedAssumption ==
  \A claims \in IDTokens :
    /\ claims.aud = GoogleClientID /\ claims.emailVerified
    /\ \/ claims.email \in AllowedEmails \/ claims.hd \in AllowedDomains
       \/ AllowedEmails \cup AllowedDomains = {}
    => claims.sub \in Admitted

-----------------------------------------------------------------------------
(* Handlers.                                                               *)

HandleAuthorize(q, g, t) ==
  /\ ValidQuery(q)
  /\ NewPending(g, t, RequestOf(q))
  /\ asked' = Put(asked, g, pendingAuthz'[g])
  /\ UNCHANGED <<approvals, inFlight, codeLog, tokens>>

(* The form's fields come from consent pages the server has rendered, but  *)
(* not necessarily both from the same one.  When the states differ, the    *)
(* token has been used up all the same.                                    *)
HandleConsent(g, t) ==
  /\ ConsumePendingByCSRF(t)
  /\ \/ /\ CSRFAccepted(t) /\ PendingOfCSRF(t).googleState = g
        /\ approvals' = Append(approvals, [flow |-> g, at |-> now])
     \/ /\ ~ (CSRFAccepted(t) /\ PendingOfCSRF(t).googleState = g)
        /\ UNCHANGED approvals
  /\ UNCHANGED <<now, minted, asked, inFlight, codeLog, tokens>>

(* The browser comes with any state it has seen: after Google, or without  *)
(* the user having approved, since the consent page has the state already; *)
(* and it may come more than once.                                         *)
HandleCallback(g) ==
  /\ ConsumePendingByGoogleState(g)
  /\ \/ /\ StateAccepted(g)
        /\ inFlight' = inFlight \cup {[pending |-> pendingAuthz[g], at |-> now]}
     \/ ~ StateAccepted(g) /\ UNCHANGED inFlight
  /\ UNCHANGED <<now, minted, asked, approvals, codeLog, tokens>>

CallbackSucceeds(call, claims, c) ==
  /\ call \in inFlight
  /\ ValidIDToken(claims)
  /\ CheckAccess(claims)
  /\ NewCode(c, call.pending.request, UserOf(claims))
  /\ codeLog' = Put(codeLog, c,
       [flow |-> call.pending.googleState, user |-> UserOf(claims),
        returnedAt |-> call.at, at |-> now])
  /\ inFlight' = inFlight \ {call}
  /\ UNCHANGED <<asked, approvals, tokens>>

(* The exchange fails, or the ID token is missing, invalid or not let in.  *)
CallbackFails(call) ==
  /\ call \in inFlight
  /\ inFlight' = inFlight \ {call}
  /\ UNCHANGED <<now, storeVars, minted, asked, approvals, codeLog, tokens>>

(* The code is gone whether or not the form matches it.  Issuing the token *)
(* signs with an HMAC key, which does not fail.                            *)
handleToken(c, form) ==
  /\ ValidForm(form)
  /\ ConsumeAuthCode(c)
  /\ \/ /\ CodeAccepted(c) /\ FormMatches(authCodes[c], form)
        /\ tokens' = Append(tokens,
             [code |-> c, flow |-> codeLog[c].flow, at |-> now,
              user |-> authCodes[c].user, verifier |-> form.codeVerifier,
              clientID |-> authCodes[c].request.clientID,
              redirectURI |-> form.redirectURI,
              audience |-> Audience(authCodes[c].request)])
     \/ /\ ~ (CodeAccepted(c) /\ FormMatches(authCodes[c], form))
        /\ UNCHANGED tokens
  /\ UNCHANGED <<now, minted, asked, approvals, inFlight, codeLog>>

(* The process stops, with what it was serving, and starts again.          *)
Restart ==
  /\ NewOAuthStore
  /\ inFlight' = {}
  /\ UNCHANGED <<now, minted, asked, approvals, codeLog, tokens>>

ServerNext ==
  \/ \E q \in Queries, g \in GoogleStates, t \in CSRFTokens : HandleAuthorize(q, g, t)
  \/ \E g, h \in DOMAIN asked : HandleConsent(g, asked[h].csrfToken)
  \/ \E g \in GoogleStates : HandleCallback(g)
  \/ \E call \in inFlight, claims \in IDTokens, c \in Codes :
       CallbackSucceeds(call, claims, c)
  \/ \E call \in inFlight : CallbackFails(call)
  \/ \E c \in Codes, form \in TokenForms : handleToken(c, form)
  \/ CleanupTick /\ UNCHANGED serverVars
  \/ Tick /\ UNCHANGED serverVars
  \/ Restart

ServerSpec == ServerInit /\ [][ServerNext]_vars

-----------------------------------------------------------------------------
AccessToken ==
  [code : Codes, flow : GoogleStates, at : Nat, user : Users,
   verifier : Verifiers, clientID : {r.clientID : r \in Requests},
   redirectURI : {form.redirectURI : form \in TokenForms},
   audience : {Audience(r) : r \in Requests}]

ServerTypeOK ==
  /\ TypeOK
  /\ IsMap(asked, GoogleStates, PendingAuthorization)
  /\ approvals \in Seq([flow : GoogleStates, at : Nat])
  /\ inFlight \subseteq [pending : PendingAuthorization, at : Nat]
  /\ IsMap(codeLog, Codes,
           [flow : GoogleStates, user : Users, returnedAt : Nat, at : Nat])
  /\ tokens \in Seq(AccessToken)

(* However often the browser comes back from Google, and however its       *)
(* requests overlap the exchange with Google, a flow yields one code.      *)
OneCodePerFlow ==
  \A c, d \in DOMAIN codeLog : codeLog[c].flow = codeLog[d].flow => c = d

(* docs/oauth-setup.md: codes are single-use.  Stronger: no two tokens     *)
(* come from one flow.                                                     *)
OneTokenPerFlow ==
  \A i, j \in DOMAIN tokens : tokens[i].flow = tokens[j].flow => i = j

(* Why these two hold: a flow is pending, or waiting for Google, or has its*)
(* code, and never two of these; a code is in the store or in a token.     *)
FlowInOnePlace ==
  /\ \A g \in DOMAIN pendingAuthz : pendingAuthz[g].googleState = g
  /\ \A call \in inFlight :
       call.pending.googleState \in minted \ DOMAIN pendingAuthz
  /\ \A call, other \in inFlight :
       call.pending.googleState = other.pending.googleState => call = other
  /\ \A c \in DOMAIN codeLog :
       /\ c \in minted
       /\ codeLog[c].flow \in minted \ DOMAIN pendingAuthz
       /\ \A call \in inFlight : call.pending.googleState # codeLog[c].flow

CodeInOnePlace ==
  /\ DOMAIN authCodes \subseteq DOMAIN codeLog
  /\ \A i \in DOMAIN tokens :
       /\ tokens[i].code \in DOMAIN codeLog \ DOMAIN authCodes
       /\ tokens[i].flow = codeLog[tokens[i].code].flow
  /\ \A i, j \in DOMAIN tokens : tokens[i].code = tokens[j].code => i = j

ServerInv ==
  StoreInv /\ ServerTypeOK /\ FlowInOnePlace /\ OneCodePerFlow /\ CodeInOnePlace

(* docs/oauth-setup.md: consent records live ten minutes and codes five.   *)
(* Each hop of a flow happens within the lifetime that guards it, whether  *)
(* or not the cleanup loop has run meanwhile.                              *)
HopsWithinTTL ==
  /\ \A i \in DOMAIN approvals :
       approvals[i].at - asked[approvals[i].flow].createdAt <= PendingAuthzTTL
  /\ \A c \in DOMAIN codeLog :
       codeLog[c].returnedAt - asked[codeLog[c].flow].createdAt <= PendingAuthzTTL
  /\ \A i \in DOMAIN tokens :
       tokens[i].at - codeLog[tokens[i].code].at <= AuthCodeTTL

(* What makes HopsWithinTTL inductive: every flow that is anywhere was     *)
(* asked for, and the entries of the store carry the times of the history. *)
TimesRecorded ==
  /\ DOMAIN asked \subseteq minted
  /\ \A g \in DOMAIN pendingAuthz : g \in DOMAIN asked /\ asked[g] = pendingAuthz[g]
  /\ \A i \in DOMAIN approvals : approvals[i].flow \in DOMAIN asked
  /\ \A call \in inFlight :
       /\ call.pending.googleState \in DOMAIN asked
       /\ call.at - asked[call.pending.googleState].createdAt <= PendingAuthzTTL
  /\ \A c \in DOMAIN codeLog : codeLog[c].flow \in DOMAIN asked
  /\ \A c \in DOMAIN authCodes : authCodes[c].createdAt = codeLog[c].at

HopsInv == TimesRecorded /\ HopsWithinTTL

(* What ties the store's entries to the flow they belong to, for the       *)
(* mapping to AuthorizationGrant: no CSRF token is left of a flow that is  *)
(* approved, and the request of a flow is carried along unchanged.         *)
Approved(g) == \E i \in DOMAIN approvals : approvals[i].flow = g

FlowsSound ==
  /\ \A g \in DOMAIN asked : \E q \in Queries : ValidQuery(q) /\ asked[g].request = RequestOf(q)
  /\ \A t \in DOMAIN csrfTokens : ~ Approved(csrfTokens[t])
  /\ \A call \in inFlight :
       call.pending.request = asked[call.pending.googleState].request
  /\ \A c \in DOMAIN authCodes :
       /\ authCodes[c].user = codeLog[c].user
       /\ authCodes[c].request = asked[codeLog[c].flow].request

GrantInv == ServerInv /\ HopsInv /\ FlowsSound

(* The mapping to AuthorizationGrant.                                      *)
FlowsSignedInto == {codeLog[c].flow : c \in DOMAIN codeLog}

CodeOf(f) == CHOOSE c \in DOMAIN codeLog : codeLog[c].flow = f

GrantRequest(request) ==
  [clientID |-> request.clientID, redirectURI |-> request.redirectURI,
   codeChallenge |-> request.codeChallenge, audience |-> ResourceURL]

GrantAsked == [g \in DOMAIN asked |-> GrantRequest(asked[g].request)]

GrantApproved == [i \in DOMAIN approvals |-> approvals[i].flow]

GrantSignedIn == [f \in FlowsSignedInto |-> codeLog[CodeOf(f)].user]

GrantToken(token) ==
  [flow |-> token.flow, user |-> token.user, verifier |-> token.verifier,
   clientID |-> token.clientID, redirectURI |-> token.redirectURI,
   audience |-> token.audience]

GrantTokens == [i \in DOMAIN tokens |-> GrantToken(tokens[i])]

Grant == INSTANCE AuthorizationGrant WITH
  Flows    <- GoogleStates,
  Requests <- {GrantRequest(RequestOf(q)) : q \in Queries},
  asked    <- GrantAsked,
  approved <- GrantApproved,
  signedIn <- GrantSignedIn,
  tokens   <- GrantTokens

(* With retried and overlapping requests, forms that mix two consent       *)
(* pages, expiry, failed callbacks and restarts, the server does nothing a *)
(* grant does not allow: a user approves a flow at most once and not after *)
(* it was signed into, the account that signs in is one the operator lets  *)
(* in, and the token is bound to the client, redirect URI, challenge and   *)
(* resource of that very flow.                                             *)
ImplementsGrant == Grant!GrantSpec

=============================================================================
