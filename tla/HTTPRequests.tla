---------------------------- MODULE HTTPRequests ----------------------------
(***************************************************************************)
(* server/middleware.go: what a request to the MCP endpoint passes before  *)
(* the SDK reads its body,                                                 *)
(*                                                                         *)
(*   withRequestLogging     peeks at the beginning of the body             *)
(*   withOriginValidation   403 for an origin that is not allowed          *)
(*   withAuthMiddleware     401 without the token (or MakeOAuthMiddleware) *)
(*   the SDK's handler      403 for what CrossOriginProtection refuses     *)
(*                                                                         *)
(* while the body is still arriving, or its connection breaks.  The        *)
(* allowed origins are given to two of the four, as RunHTTP starts.        *)
(***************************************************************************)
EXTENDS Naturals

CONSTANTS
  HTTPConfigs,      \* what cfg.HTTP and cfg.OAuth.Enabled may be
  Requests,     \* the requests, but for their bodies
  ValidTokens,  \* the tokens the OAuth verifier lets through
  PeekLimit,    \* what is peeked at, 4096 bytes
  MaxBody       \* bound on the length of a body

Origins == [scheme : STRING, host : STRING, slash : BOOLEAN]

ASSUME OriginsAssumption == \A c \in HTTPConfigs : c.allowedOrigins \subseteq Origins

(* The verifier lets nobody through without a token.                       *)
ASSUME TokensAssumption == "" \notin ValidTokens

VARIABLES
  httpCfg,          \* the configuration
  request,      \* the request
  sent,         \* how much of its body has arrived
  client,       \* "sending", "complete" or "broken"
  stage,        \* "log", "origin", "auth", "sdk", "body", and in the end
                \*   "handled", "bad body", "401" or "403"
  body,         \* r.Body: what of it is in memory, and whether the rest follows
  read          \* what the SDK took for the body

requestVars == <<httpCfg, request, sent, client, stage, body, read>>

-----------------------------------------------------------------------------
(* An origin is a record of scheme, host and whether a slash follows; the  *)
(* header is absent when all of it is blank.                               *)
Absent(origin) == origin.scheme = "" /\ origin.host = ""

TrimRight(origin) == [origin EXCEPT !.slash = FALSE]

(* External: CrossOriginProtection.AddTrustedOrigin returns no error.      *)
Trustable(origin) == origin.scheme # "" /\ origin.host # "" /\ ~ origin.slash

(* RunHTTP returns before it listens if an origin is not trustable.        *)
Starts(c) == \A origin \in c.allowedOrigins : Trustable(origin)

(* Mutant: the SDK's handler keeps its own, empty list.                    *)
NothingTrusted(c) == {}

(* The origins RunHTTP adds to cop.                                        *)
Trusted(c) == c.allowedOrigins

(* External: CrossOriginProtection.Check returns no error.                 *)
SameOriginOrTrusted(r) ==
  \/ r.method \in {"GET", "HEAD", "OPTIONS"}
  \/ r.fetchSite \in {"same-origin", "none"}
  \/ r.fetchSite = "" /\ (Absent(r.origin) \/ r.origin.host = r.host)
  \/ r.origin \in Trusted(httpCfg)

(* Mutant: an origin is allowed by its host.                               *)
HostAllowed(c, origin) ==
  \/ c.allowedOrigins = {}
  \/ Absent(origin)
  \/ \E allowed \in c.allowedOrigins : allowed.host = origin.host

OriginAllowed(c, origin) ==
  \/ c.allowedOrigins = {}
  \/ Absent(origin)
  \/ TrimRight(origin) \in {TrimRight(allowed) : allowed \in c.allowedOrigins}

(* "" without the header, or when it begins with something else.           *)
extractBearerToken(r) ==
  IF r.auth.scheme \in {"Bearer", "bearer"} THEN r.auth.token ELSE ""

Authorized(c, r) ==
  IF c.oauth
    THEN extractBearerToken(r) \in ValidTokens
    ELSE c.authToken = "" \/ extractBearerToken(r) = c.authToken

-----------------------------------------------------------------------------
RequestInit ==
  /\ httpCfg \in {c \in HTTPConfigs : Starts(c)}
  /\ request \in Requests
  /\ sent = 0
  /\ client = "sending"
  /\ stage = "log"
  /\ body = [peek |-> 0, rest |-> TRUE]
  /\ read = 0

(* The client, at any time.                                                *)
ClientSends ==
  /\ client = "sending"
  /\ \/ sent < MaxBody /\ sent' = sent + 1 /\ UNCHANGED client
     \/ client' \in {"complete", "broken"} /\ UNCHANGED sent
  /\ UNCHANGED <<httpCfg, request, stage, body, read>>

Goto(s) == stage' = s /\ UNCHANGED <<httpCfg, request, sent, client>>

(* Mutant: PeekLimit bytes are waited for.                                 *)
PeekFull ==
  /\ stage = "log"
  /\ sent >= PeekLimit
  /\ body' = [peek |-> PeekLimit, rest |-> TRUE]
  /\ Goto("origin")
  /\ UNCHANGED read

(* Mutant: the rest of the body is forgotten.                              *)
PeekOnly ==
  /\ stage = "log"
  /\ sent >= PeekLimit \/ client = "complete"
  /\ body' = [peek |-> IF sent < PeekLimit THEN sent ELSE PeekLimit, rest |-> FALSE]
  /\ Goto("origin")
  /\ UNCHANGED read

(* peekJSONRPCRequest waits for PeekLimit bytes or for the end.            *)
Peek ==
  /\ stage = "log"
  /\ sent >= PeekLimit \/ client = "complete"
  /\ body' = [peek |-> IF sent < PeekLimit THEN sent ELSE PeekLimit, rest |-> TRUE]
  /\ Goto("origin")
  /\ UNCHANGED read

(* The error is not passed on: the handlers see an empty body.             *)
PeekFails ==
  /\ stage = "log"
  /\ sent < PeekLimit /\ client = "broken"
  /\ body' = [peek |-> 0, rest |-> FALSE]
  /\ Goto("origin")
  /\ UNCHANGED read

withOriginValidation ==
  /\ stage = "origin"
  /\ Goto(IF OriginAllowed(httpCfg, request.origin) THEN "auth" ELSE "403")
  /\ UNCHANGED <<body, read>>

withAuthMiddleware ==
  /\ stage = "auth"
  /\ Goto(IF Authorized(httpCfg, request) THEN "sdk" ELSE "401")
  /\ UNCHANGED <<body, read>>

(* External: the SDK's handler, up to its reading of the body.             *)
CheckCrossOrigin ==
  /\ stage = "sdk"
  /\ Goto(IF SameOriginOrTrusted(request) THEN "body" ELSE "403")
  /\ UNCHANGED <<body, read>>

(* External: it reads r.Body to its end, or answers that it could not.     *)
ReadBody ==
  /\ stage = "body"
  /\ \/ ~ body.rest /\ read' = body.peek /\ Goto("handled")
     \/ body.rest /\ client = "complete" /\ read' = sent /\ Goto("handled")
     \/ body.rest /\ client = "broken" /\ UNCHANGED read /\ Goto("bad body")
  /\ UNCHANGED body

RequestNext ==
  \/ ClientSends
  \/ Peek \/ PeekFails
  \/ withOriginValidation \/ withAuthMiddleware
  \/ CheckCrossOrigin \/ ReadBody

RequestSpec == RequestInit /\ [][RequestNext]_requestVars

(* The handlers go on as long as they can; the client need not.            *)
FairRequestSpec ==
  /\ RequestSpec
  /\ WF_requestVars(Peek \/ PeekFails)
  /\ WF_requestVars(withOriginValidation \/ withAuthMiddleware \/ CheckCrossOrigin \/ ReadBody)

-----------------------------------------------------------------------------
(* However the peek and the client meet, a message is handled whole or not *)
(* at all: what looks complete is, except that nothing is left of one that *)
(* broke off during the peek.                                              *)
BodyWholeOrNothing ==
  stage = "handled" =>
    \/ client = "complete" /\ read = sent
    \/ client = "broken" /\ read = 0 /\ sent < PeekLimit

(* A request that may change something, from another site than the server  *)
(* as its browser tells.                                                   *)
CrossSite(r) ==
  /\ r.method \notin {"GET", "HEAD", "OPTIONS"}
  /\ \/ r.fetchSite \notin {"", "same-origin", "none"}
     \/ r.fetchSite = "" /\ ~ Absent(r.origin) /\ r.origin.host # r.host

(* What two layers with one list make of it together: a listed origin is   *)
(* never answered 403, and a cross-site request is served only if its      *)
(* origin is listed as it stands.  So with an empty list, which            *)
(* withOriginValidation takes for every origin, none is served, nor is one *)
(* whose listed origin comes with a slash, which withOriginValidation      *)
(* strips: the SDK's handler refuses both.                                 *)
CrossSiteAsListed ==
  /\ stage = "403" => request.origin \notin httpCfg.allowedOrigins
  /\ stage \in {"handled", "bad body"} /\ CrossSite(request) =>
       request.origin \in httpCfg.allowedOrigins

(* No message is handled for a stranger, with the wrong token or from      *)
(* another origin, whichever of the layers should have stopped it.         *)
StrangersRefused ==
  stage \in {"handled", "bad body"} =>
    /\ httpCfg.authToken # "" /\ ~ httpCfg.oauth => request.auth.token = httpCfg.authToken
    /\ httpCfg.oauth => request.auth.token \in ValidTokens
    /\ httpCfg.allowedOrigins # {} /\ ~ Absent(request.origin) =>
         TrimRight(request.origin) \in httpCfg.allowedOrigins

(* What makes these three inductive: of the stages a request has passed,   *)
(* what each one made sure of.                                             *)
BodySound ==
  \/ body.rest
  \/ client = "broken" /\ body.peek = 0 /\ sent < PeekLimit

StagesSound ==
  /\ stage \in {"auth", "sdk", "body", "handled", "bad body"} =>
       OriginAllowed(httpCfg, request.origin)
  /\ stage \in {"sdk", "body", "handled", "bad body"} => Authorized(httpCfg, request)
  /\ stage = "403" =>
       ~ OriginAllowed(httpCfg, request.origin) \/ ~ SameOriginOrTrusted(request)
  /\ stage \in {"body", "handled", "bad body"} => SameOriginOrTrusted(request)

RequestInv ==
  /\ httpCfg \in HTTPConfigs /\ Starts(httpCfg)
  /\ BodySound /\ StagesSound /\ BodyWholeOrNothing

(* A body that ends, or breaks off, is answered.                           *)
EndedBodiesAnswered ==
  client # "sending" ~> stage \in {"handled", "bad body", "401", "403"}

=============================================================================
