---------------------------- MODULE AccessProofs ----------------------------
(* What it takes for a request to be let in: an access token is good for   *)
(* its own server for as long as it was issued for, whatever restarts      *)
(* there are in between, for any configurations, clock and length of a     *)
(* second; and the chain of handlers lets through whom the configuration   *)
(* allows, and a body whole, for any configurations, requests and sizes.   *)
EXTENDS AccessToken, HTTPRequests, TLAPS

(* Rounding a date down to a second loses less than a second.              *)
LEMMA DateRounds ==
  ASSUME NEW t \in Int
  PROVE  /\ NumericDate(t) \in Int
         /\ NumericDate(t) * Second <= t
         /\ t < NumericDate(t) * Second + Second
<1>1. Second \in Nat /\ Second > 0
      BY TicksAssumption
<1>2. t \div Second \in Int /\ t % Second \in 0 .. Second - 1
      BY <1>1
<1>3. t = Second * (t \div Second) + (t % Second)
      BY <1>1
<1> QED BY <1>1, <1>2, <1>3 DEF NumericDate

(* Addresses are the same when their four parts are.                       *)
LEMMA SameAddress ==
  ASSUME NEW a \in Addresses, NEW b \in Addresses
  PROVE  a = b <=> /\ a.scheme = b.scheme /\ a.host = b.host
                   /\ a.path = b.path /\ a.query = b.query
BY DEF Addresses

(* Of an issuer that Validate let through, scheme and host are all that    *)
(* the addresses made of it depend on.                                     *)
LEMMA AddressesOfIssuer ==
  ASSUME NEW c, Runs(c)
  PROVE  /\ NormalizedIssuer(c) \in Addresses
         /\ NormalizedIssuer(c).path = "" /\ NormalizedIssuer(c).query = ""
         /\ NormalizedIssuer(c).scheme = c.issuer.scheme
         /\ NormalizedIssuer(c).host = c.issuer.host
         /\ ResourceURL(c) \in Addresses
         /\ ResourceURL(c).path = c.endpoint /\ ResourceURL(c).query = ""
         /\ ResourceURL(c).scheme = c.issuer.scheme
         /\ ResourceURL(c).host = c.issuer.host
<1>1. /\ c.issuer \in Addresses /\ c.endpoint \in STRING
      /\ c.issuer.path \in {"", "/"} /\ c.issuer.query = ""
      BY ConfigsAssumption DEF Runs, Validate
<1>2. NormalizedIssuer(c) = [c.issuer EXCEPT !.path = ""]
      BY <1>1 DEF NormalizedIssuer
<1>3. /\ NormalizedIssuer(c) \in Addresses
      /\ NormalizedIssuer(c).path = "" /\ NormalizedIssuer(c).query = ""
      /\ NormalizedIssuer(c).scheme = c.issuer.scheme
      /\ NormalizedIssuer(c).host = c.issuer.host
      BY <1>1, <1>2 DEF Addresses
<1>4. /\ ResourceURL(c) \in Addresses
      /\ ResourceURL(c).path = c.endpoint
      /\ ResourceURL(c).query = NormalizedIssuer(c).query
      /\ ResourceURL(c).scheme = NormalizedIssuer(c).scheme
      /\ ResourceURL(c).host = NormalizedIssuer(c).host
      BY <1>1, <1>3 DEF ResourceURL, Addresses
<1> QED BY <1>3, <1>4

(* What a token is good for does not depend on how the issuer is written.  *)
LEMMA MadeForSameServer ==
  ASSUME NEW token, NEW c, NEW d, Runs(c), Runs(d), MadeFor(token, c)
  PROVE  MadeFor(token, d) <=> SameServer(c, d)
<1>1. MadeFor(token, d) <=>
        /\ c.signingKey = d.signingKey
        /\ NormalizedIssuer(c) = NormalizedIssuer(d)
        /\ ResourceURL(c) = ResourceURL(d)
      BY DEF MadeFor
<1> DEFINE n(x) == NormalizedIssuer(x)
           r(x) == ResourceURL(x)
<1>2. NormalizedIssuer(c) = NormalizedIssuer(d) <=>
        c.issuer.scheme = d.issuer.scheme /\ c.issuer.host = d.issuer.host
  <2>1. /\ n(c) \in Addresses /\ n(c).path = "" /\ n(c).query = ""
        /\ n(c).scheme = c.issuer.scheme /\ n(c).host = c.issuer.host
        BY AddressesOfIssuer
  <2>2. /\ n(d) \in Addresses /\ n(d).path = "" /\ n(d).query = ""
        /\ n(d).scheme = d.issuer.scheme /\ n(d).host = d.issuer.host
        BY AddressesOfIssuer
  <2> HIDE DEF n
  <2>3. n(c) = n(d) <=> /\ n(c).scheme = n(d).scheme /\ n(c).host = n(d).host
                        /\ n(c).path = n(d).path /\ n(c).query = n(d).query
        BY <2>1, <2>2, SameAddress
  <2> QED BY <2>1, <2>2, <2>3 DEF n
<1>3. ResourceURL(c) = ResourceURL(d) <=>
        /\ c.issuer.scheme = d.issuer.scheme /\ c.issuer.host = d.issuer.host
        /\ c.endpoint = d.endpoint
  <2>1. /\ r(c) \in Addresses /\ r(c).path = c.endpoint /\ r(c).query = ""
        /\ r(c).scheme = c.issuer.scheme /\ r(c).host = c.issuer.host
        BY AddressesOfIssuer
  <2>2. /\ r(d) \in Addresses /\ r(d).path = d.endpoint /\ r(d).query = ""
        /\ r(d).scheme = d.issuer.scheme /\ r(d).host = d.issuer.host
        BY AddressesOfIssuer
  <2> HIDE DEF r
  <2>3. r(c) = r(d) <=> /\ r(c).scheme = r(d).scheme /\ r(c).host = r(d).host
                        /\ r(c).path = r(d).path /\ r(c).query = r(d).query
        BY <2>1, <2>2, SameAddress
  <2> QED BY <2>1, <2>2, <2>3 DEF r
<1> QED BY <1>1, <1>2, <1>3 DEF SameServer

(* No token has been issued at first.                                      *)
LEMMA TokenInitInv == TokenInit => TokenInv
BY DEF TokenInit, TokenInv, NoAnswer, IssuedSound, CheckingSound, AnswerSound

(* The verification of a token is the comparison, and the clock.           *)
LEMMA VerifyCompares ==
  ASSUME NEW token
  PROVE  VerifyAccessToken(token) <=> MadeFor(token, cfg) /\ now < token.exp * Second
BY DEF VerifyAccessToken, MadeFor

(* Every step on the tokens keeps what is known of them.                   *)
LEMMA TokenNextInv == TokenInv /\ [TokenNext]_vars => TokenInv'
<1> SUFFICES ASSUME TokenInv, [TokenNext]_vars
             PROVE  TokenInv'
    OBVIOUS
<1>a. /\ now \in Int /\ cfg \in Configs /\ Validate(cfg)
      /\ checking # {} => cfg.enabled
      /\ IssuedSound /\ CheckingSound /\ AnswerSound
      BY DEF TokenInv
<1>b. Second \in Int
      BY TicksAssumption
<1>c. \A i \in issued : i.token.exp \in Int
      BY <1>a, <1>b, ConfigsAssumption, DateRounds DEF IssuedSound, Runs
<1>1. ASSUME NEW user, IssueAccessToken(user)
      PROVE  TokenInv'
  <2> DEFINE new == [token |-> Claims(user), by |-> cfg, at |-> now]
  <2>1. /\ cfg.enabled /\ user \in cfg.admits
        /\ issued' = issued \cup {new}
        /\ UNCHANGED <<now, cfg, checking, answer>>
        BY <1>1 DEF IssueAccessToken
  <2>2. /\ new.by = cfg /\ new.at = now
        /\ MadeFor(new.token, cfg)
        /\ new.token.sub = user
        /\ new.token.exp = NumericDate(now + cfg.tokenExpiry * Second)
        BY DEF Claims, MadeFor
  <2> HIDE DEF new
  <2>3. IssuedSound'
        BY <1>a, <2>1, <2>2 DEF IssuedSound, Runs
  <2>4. CheckingSound' /\ AnswerSound'
        BY <1>a, <2>1 DEF CheckingSound, AnswerSound
  <2> QED BY <1>a, <2>1, <2>3, <2>4 DEF TokenInv
<1>2. ASSUME NEW i \in issued, Verify(i.token)
      PROVE  TokenInv'
  <2>1. cfg.enabled /\ UNCHANGED <<now, cfg, issued>>
        BY <1>2 DEF Verify
  <2>2. CASE VerifyAccessToken(i.token)
    <3>1. checking' = checking \cup {i.token} /\ UNCHANGED answer
          BY <1>2, <2>2 DEF Verify
    <3>2. CheckingSound'
          BY <1>a, <2>1, <2>2, <3>1, VerifyCompares DEF CheckingSound
    <3> QED BY <1>a, <2>1, <3>1, <3>2 DEF TokenInv, IssuedSound, AnswerSound
  <2>3. CASE ~ VerifyAccessToken(i.token)
    <3>1. /\ answer' = [token |-> i.token, outcome |-> "refused", under |-> cfg, at |-> now]
          /\ UNCHANGED checking
          BY <1>2, <2>3 DEF Verify, Answered
    <3>2. MadeFor(i.token, cfg) => now >= i.token.exp * Second
          BY <1>a, <1>b, <1>c, <2>3, VerifyCompares
    <3>3. AnswerSound'
          BY <1>a, <2>1, <3>1, <3>2 DEF AnswerSound, Runs
    <3> QED BY <1>a, <2>1, <3>1, <3>3 DEF TokenInv, IssuedSound, CheckingSound
  <2> QED BY <2>2, <2>3
<1>3. ASSUME NEW i \in issued, CheckExpiration(i.token)
      PROVE  TokenInv'
  <2>1. /\ i.token \in checking
        /\ checking' = checking \ {i.token}
        /\ answer' = [token |-> i.token, under |-> cfg, at |-> now,
                      outcome |-> IF i.token.exp * Second < now
                                    THEN "refused" ELSE "granted"]
        /\ UNCHANGED <<now, cfg, issued>>
        BY <1>3 DEF CheckExpiration, Answered
  <2>2. MadeFor(i.token, cfg) /\ Runs(cfg)
        BY <1>a, <2>1 DEF CheckingSound, Runs
  <2>3. answer'.outcome = "refused" => now >= i.token.exp * Second
        BY <1>a, <1>b, <1>c, <2>1
  <2>4. answer'.outcome = "granted" => now <= i.token.exp * Second
        BY <1>a, <1>b, <1>c, <2>1
  <2>5. AnswerSound'
        BY <1>a, <2>1, <2>2, <2>3, <2>4 DEF AnswerSound
  <2> QED BY <1>a, <2>1, <2>5 DEF TokenInv, IssuedSound, CheckingSound
<1>4. ASSUME Tick
      PROVE  TokenInv'
      BY <1>4, <1>a DEF Tick, TokenInv, IssuedSound, CheckingSound, AnswerSound
<1>5. ASSUME NEW c \in Configs, Restart(c)
      PROVE  TokenInv'
      BY <1>5, <1>a DEF Restart, TokenInv, IssuedSound, CheckingSound, AnswerSound
<1>6. ASSUME UNCHANGED vars
      PROVE  TokenInv'
      BY <1>6, <1>a DEF vars, TokenInv, IssuedSound, CheckingSound, AnswerSound
<1> QED BY <1>1, <1>2, <1>3, <1>4, <1>5, <1>6 DEF TokenNext

(* A request is let in only with a token of this server, issued to someone *)
(* then admitted, within the token_expiry of its issue.                    *)
THEOREM TokenGrantedAsIssued == TokenSpec => []GrantedAsIssued
<1>1. TokenInv => GrantedAsIssued
  <2> SUFFICES ASSUME TokenInv, answer.outcome = "granted"
               PROVE  \E i \in issued :
                        /\ i.token = answer.token
                        /\ SameServer(i.by, answer.under)
                        /\ i.token.sub \in i.by.admits
                        /\ answer.at <= i.at + i.by.tokenExpiry * Second
      BY DEF GrantedAsIssued
  <2>1. PICK i \in issued : i.token = answer.token
        BY DEF TokenInv, AnswerSound
  <2>2. /\ Runs(i.by) /\ i.at \in Int /\ MadeFor(i.token, i.by)
        /\ i.token.sub \in i.by.admits
        /\ i.token.exp = NumericDate(i.at + i.by.tokenExpiry * Second)
        BY DEF TokenInv, IssuedSound
  <2>3. /\ Runs(answer.under) /\ MadeFor(i.token, answer.under)
        /\ answer.at \in Int /\ answer.at <= i.token.exp * Second
        BY <2>1 DEF TokenInv, AnswerSound
  <2>4. SameServer(i.by, answer.under)
        BY <2>2, <2>3, MadeForSameServer
  <2>5. i.by.tokenExpiry \in Int /\ Second \in Int
        BY <2>2, ConfigsAssumption, TicksAssumption DEF Runs
  <2>6. /\ i.token.exp \in Int
        /\ i.token.exp * Second <= i.at + i.by.tokenExpiry * Second
        BY <2>2, <2>5, DateRounds
  <2>7. answer.at <= i.at + i.by.tokenExpiry * Second
        BY <2>2, <2>3, <2>5, <2>6
  <2> QED BY <2>1, <2>2, <2>4, <2>7
<1> QED BY <1>1, TokenInitInv, TokenNextInv, PTL DEF TokenSpec

(* A token is refused by the server it is for only when its token_expiry   *)
(* is over, but for a fraction of a second.                                *)
THEOREM TokenRefusedWhenOver == TokenSpec => []RefusedWhenOver
<1>1. TokenInv => RefusedWhenOver
  <2> SUFFICES ASSUME TokenInv, answer.outcome = "refused",
                      NEW i \in issued, i.token = answer.token,
                      SameServer(i.by, answer.under)
               PROVE  answer.at > i.at + (i.by.tokenExpiry - 1) * Second
      BY DEF RefusedWhenOver
  <2>2. /\ Runs(i.by) /\ i.at \in Int /\ MadeFor(i.token, i.by)
        /\ i.token.exp = NumericDate(i.at + i.by.tokenExpiry * Second)
        BY DEF TokenInv, IssuedSound
  <2>3. Runs(answer.under) /\ answer.at \in Int
        BY DEF TokenInv, AnswerSound
  <2>4. MadeFor(answer.token, answer.under)
        BY <2>2, <2>3, MadeForSameServer
  <2>5. answer.at >= i.token.exp * Second
        BY <2>4 DEF TokenInv, AnswerSound
  <2>6. i.by.tokenExpiry \in Int /\ Second \in Int
        BY <2>2, ConfigsAssumption, TicksAssumption DEF Runs
  <2>7. /\ i.token.exp \in Int
        /\ i.at + i.by.tokenExpiry * Second < i.token.exp * Second + Second
        BY <2>2, <2>6, DateRounds
  <2>8. (i.by.tokenExpiry - 1) * Second = i.by.tokenExpiry * Second - Second
        BY <2>6
  <2> QED BY <2>2, <2>3, <2>5, <2>6, <2>7, <2>8
<1> QED BY <1>1, TokenInitInv, TokenNextInv, PTL DEF TokenSpec

(* The server knows its own origins from the way they are listed: without  *)
(* a slash, or it would not have started.                                  *)
LEMMA ListedWithoutSlash ==
  ASSUME NEW c \in HTTPConfigs, Starts(c), NEW origin \in c.allowedOrigins
  PROVE  TrimRight(origin) = origin
<1>1. origin \in Origins /\ ~ origin.slash
      BY OriginsAssumption DEF Starts, Trustable
<1>2. [origin EXCEPT !.slash = FALSE] = origin
      BY <1>1 DEF Origins
<1> QED BY <1>2 DEF TrimRight

(* No request has been served at first.                                    *)
LEMMA RequestInitInv == RequestInit => RequestInv
BY DEF RequestInit, RequestInv, BodySound, StagesSound, BodyWholeOrNothing

(* Every step of a request keeps what is known of it.                      *)
LEMMA RequestNextInv == RequestInv /\ [RequestNext]_requestVars => RequestInv'
<1> SUFFICES ASSUME RequestInv, [RequestNext]_requestVars
             PROVE  RequestInv'
    OBVIOUS
<1>a. /\ httpCfg \in HTTPConfigs /\ Starts(httpCfg)
      /\ BodySound /\ StagesSound /\ BodyWholeOrNothing
      BY DEF RequestInv
<1>b. ASSUME UNCHANGED <<httpCfg, request>>
      PROVE  /\ OriginAllowed(httpCfg, request.origin)' <=> OriginAllowed(httpCfg, request.origin)
             /\ Authorized(httpCfg, request)' <=> Authorized(httpCfg, request)
             /\ SameOriginOrTrusted(request)' <=> SameOriginOrTrusted(request)
      BY <1>b DEF SameOriginOrTrusted
<1>1. ASSUME ClientSends
      PROVE  RequestInv'
  <2>1. /\ client = "sending"
        /\ UNCHANGED <<httpCfg, request, stage, body, read>>
        BY <1>1 DEF ClientSends
  <2>2. BodySound'
        BY <1>a, <2>1 DEF BodySound
  <2>3. BodyWholeOrNothing'
        BY <1>a, <2>1 DEF BodyWholeOrNothing
  <2>4. StagesSound'
        BY <1>a, <1>b, <2>1 DEF StagesSound
  <2> QED BY <1>a, <2>1, <2>2, <2>3, <2>4 DEF RequestInv
<1>2. ASSUME Peek \/ PeekFails
      PROVE  RequestInv'
  <2>1. stage' = "origin" /\ UNCHANGED <<httpCfg, request, sent, client>>
        BY <1>2 DEF Peek, PeekFails, Goto
  <2>2. BodySound'
        BY <1>2, <2>1 DEF Peek, PeekFails, BodySound
  <2> QED BY <1>a, <2>1, <2>2 DEF RequestInv, StagesSound, BodyWholeOrNothing
<1>3. ASSUME withOriginValidation
      PROVE  RequestInv'
  <2>1. /\ stage' = IF OriginAllowed(httpCfg, request.origin) THEN "auth" ELSE "403"
        /\ UNCHANGED <<httpCfg, request, sent, client, body, read>>
        BY <1>3 DEF withOriginValidation, Goto
  <2>2. StagesSound'
        BY <1>b, <2>1 DEF StagesSound
  <2> QED BY <1>a, <2>1, <2>2 DEF RequestInv, BodySound, BodyWholeOrNothing
<1>4. ASSUME withAuthMiddleware
      PROVE  RequestInv'
  <2>1. /\ stage = "auth"
        /\ stage' = IF Authorized(httpCfg, request) THEN "sdk" ELSE "401"
        /\ UNCHANGED <<httpCfg, request, sent, client, body, read>>
        BY <1>4 DEF withAuthMiddleware, Goto
  <2>2. StagesSound'
        BY <1>a, <1>b, <2>1 DEF StagesSound
  <2> QED BY <1>a, <2>1, <2>2 DEF RequestInv, BodySound, BodyWholeOrNothing
<1>5. ASSUME CheckCrossOrigin
      PROVE  RequestInv'
  <2>1. /\ stage = "sdk"
        /\ stage' = IF SameOriginOrTrusted(request) THEN "body" ELSE "403"
        /\ UNCHANGED <<httpCfg, request, sent, client, body, read>>
        BY <1>5 DEF CheckCrossOrigin, Goto
  <2>2. StagesSound'
        BY <1>a, <1>b, <2>1 DEF StagesSound
  <2> QED BY <1>a, <2>1, <2>2 DEF RequestInv, BodySound, BodyWholeOrNothing
<1>6. ASSUME ReadBody
      PROVE  RequestInv'
  <2>1. /\ stage = "body" /\ stage' \in {"handled", "bad body"}
        /\ UNCHANGED <<httpCfg, request, sent, client, body>>
        BY <1>6 DEF ReadBody, Goto
  <2>2. StagesSound'
        BY <1>a, <1>b, <2>1 DEF StagesSound
  <2>3. BodyWholeOrNothing'
        BY <1>6, <1>a, <2>1 DEF ReadBody, Goto, BodySound, BodyWholeOrNothing
  <2> QED BY <1>a, <2>1, <2>2, <2>3 DEF RequestInv, BodySound
<1>7. ASSUME UNCHANGED requestVars
      PROVE  RequestInv'
  <2>1. UNCHANGED <<httpCfg, request, sent, client, stage, body, read>>
        BY <1>7 DEF requestVars
  <2>2. StagesSound'
        BY <1>a, <1>b, <2>1 DEF StagesSound
  <2> QED BY <1>a, <2>1, <2>2 DEF RequestInv, BodySound, BodyWholeOrNothing
<1> QED BY <1>1, <1>2, <1>3, <1>4, <1>5, <1>6, <1>7 DEF RequestNext

(* So it holds always.                                                     *)
LEMMA RequestInvAlways == RequestSpec => []RequestInv
BY RequestInitInv, RequestNextInv, PTL DEF RequestSpec

(* A message is handled whole or not at all, for any limit of the peek and *)
(* any length of the body.                                                 *)
THEOREM RequestBodyWhole == RequestSpec => []BodyWholeOrNothing
<1>1. RequestInv => BodyWholeOrNothing
      BY DEF RequestInv
<1> QED BY <1>1, RequestInvAlways, PTL

(* A request of a listed origin is never answered 403, and a cross-site    *)
(* one is served only if its origin is listed as it stands: none with an   *)
(* empty list, and none whose origin ends in a slash.                      *)
THEOREM RequestCrossSiteAsListed == RequestSpec => []CrossSiteAsListed
<1>1. RequestInv => CrossSiteAsListed
  <2>1. ASSUME RequestInv, stage = "403", request.origin \in httpCfg.allowedOrigins
        PROVE  FALSE
    <3>1. OriginAllowed(httpCfg, request.origin)
          BY <2>1 DEF OriginAllowed
    <3>2. SameOriginOrTrusted(request)
          BY <2>1 DEF SameOriginOrTrusted, Trusted
    <3> QED BY <2>1, <3>1, <3>2 DEF RequestInv, StagesSound
  <2>2. ASSUME RequestInv, stage \in {"handled", "bad body"}, CrossSite(request)
        PROVE  request.origin \in httpCfg.allowedOrigins
    <3>1. SameOriginOrTrusted(request)
          BY <2>2 DEF RequestInv, StagesSound
    <3> QED BY <2>2, <3>1 DEF SameOriginOrTrusted, CrossSite, Trusted
  <2> QED BY <2>1, <2>2 DEF CrossSiteAsListed
<1> QED BY <1>1, RequestInvAlways, PTL

(* No message is handled for a stranger: with the wrong token or from an   *)
(* origin that is not configured.                                          *)
THEOREM RequestStrangersRefused == RequestSpec => []StrangersRefused
<1>1. RequestInv => StrangersRefused
  <2> SUFFICES ASSUME RequestInv, stage \in {"handled", "bad body"}
               PROVE  /\ httpCfg.authToken # "" /\ ~ httpCfg.oauth =>
                           request.auth.token = httpCfg.authToken
                      /\ httpCfg.oauth => request.auth.token \in ValidTokens
                      /\ httpCfg.allowedOrigins # {} /\ ~ Absent(request.origin) =>
                           TrimRight(request.origin) \in httpCfg.allowedOrigins
      BY DEF StrangersRefused
  <2>1. Authorized(httpCfg, request) /\ OriginAllowed(httpCfg, request.origin)
        BY DEF RequestInv, StagesSound
  <2>2. ASSUME extractBearerToken(request) # ""
        PROVE  extractBearerToken(request) = request.auth.token
        BY <2>2 DEF extractBearerToken
  <2>3. httpCfg.authToken # "" /\ ~ httpCfg.oauth =>
          request.auth.token = httpCfg.authToken
        BY <2>1, <2>2 DEF Authorized
  <2>4. httpCfg.oauth => request.auth.token \in ValidTokens
        BY <2>1, <2>2, TokensAssumption DEF Authorized
  <2>5. ASSUME httpCfg.allowedOrigins # {}, ~ Absent(request.origin)
        PROVE  TrimRight(request.origin) \in httpCfg.allowedOrigins
    <3>1. PICK allowed \in httpCfg.allowedOrigins :
            TrimRight(request.origin) = TrimRight(allowed)
          BY <2>1, <2>5 DEF OriginAllowed
    <3>2. TrimRight(allowed) = allowed
          BY ListedWithoutSlash DEF RequestInv
    <3> QED BY <3>1, <3>2
  <2> QED BY <2>3, <2>4, <2>5
<1> QED BY <1>1, RequestInvAlways, PTL

=============================================================================
