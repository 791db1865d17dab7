---------------------------- MODULE AccessToken ----------------------------
(***************************************************************************)
(* server/oauth_jwt.go: access tokens, from their issue by /token to the   *)
(* requests they are sent with.  A token is stateless: what it is worth is *)
(* decided by its claims and by the configuration of the process that sees *)
(* it, which may be another one, started later and configured otherwise.   *)
(* The clock runs in ticks; the dates of a token are whole seconds.        *)
(***************************************************************************)
EXTENDS Integers, FiniteSets

CONSTANTS
  Configs,      \* what cfg.OAuth and cfg.HTTP.Endpoint may be: see Validate
  KeyLength,    \* signing key -> its length in bytes
  Second,       \* ticks in a second
  MaxTime,      \* bound on the clock
  MaxIssued     \* bound on the tokens issued

ASSUME TicksAssumption == Second \in Nat \ {0}

Addresses == [scheme : STRING, host : STRING, path : STRING, query : STRING]

ASSUME ConfigsAssumption ==
  \A c \in Configs :
    c.tokenExpiry \in Int /\ c.issuer \in Addresses /\ c.endpoint \in STRING

VARIABLES
  now,          \* time.Now()
  cfg,          \* the configuration of the process that runs
  issued,       \* history: [token, by, at], the issues of tokens
  checking,     \* the tokens VerifyAccessToken has let through
  answer        \* history: [token, outcome, under, at], the last request's end

vars == <<now, cfg, issued, checking, answer>>

NoAnswer == [outcome |-> "none"]

-----------------------------------------------------------------------------
(* An issuer is a record of scheme, host, path and query.                  *)
Validate(c) ==
  c.enabled =>
    /\ c.issuer.scheme = "https"
    /\ c.issuer.host # ""
    /\ c.issuer.path \in {"", "/"}
    /\ c.issuer.query = ""
    /\ KeyLength[c.signingKey] >= 32
    /\ c.clientID # "" /\ c.clientSecret # ""

(* Mutant: the issuer is used as it is written.                            *)
IssuerAsWritten(c) == c.issuer

NormalizedIssuer(c) == [c.issuer EXCEPT !.path = IF @ = "/" THEN "" ELSE @]

ResourceURL(c) == [NormalizedIssuer(c) EXCEPT !.path = c.endpoint]

(* jwt.NewNumericDate.                                                     *)
NumericDate(t) == t \div Second

(* The token, which is its claims and the key it is signed with: the dates *)
(* make tokens differ, the random parts of a flow do not enter them.       *)
Claims(user) ==
  [sub |-> user, iss |-> NormalizedIssuer(cfg), aud |-> ResourceURL(cfg),
   iat |-> NumericDate(now), exp |-> NumericDate(now + cfg.tokenExpiry * Second),
   key |-> cfg.signingKey]

(* Mutant: any audience will do.                                           *)
VerifiesForAnyone(token) ==
  /\ token.key = cfg.signingKey
  /\ now < token.exp * Second
  /\ token.iss = NormalizedIssuer(cfg)

(* VerifyAccessToken: signature, expiry, issuer, audience.                 *)
VerifyAccessToken(token) ==
  /\ token.key = cfg.signingKey
  /\ now < token.exp * Second
  /\ token.iss = NormalizedIssuer(cfg)
  /\ token.aud = ResourceURL(cfg)

-----------------------------------------------------------------------------
TokenInit ==
  /\ now = 0
  /\ cfg \in {c \in Configs : Validate(c)}
  /\ issued = {}
  /\ checking = {}
  /\ answer = NoAnswer

Answered(token, outcome) ==
  answer' = [token |-> token, outcome |-> outcome, under |-> cfg, at |-> now]

(* At the end of handleToken, for a user CheckAccess let through: it is    *)
(* the same process, or the code would be gone.                            *)
IssueAccessToken(user) ==
  /\ cfg.enabled
  /\ user \in cfg.admits
  /\ Cardinality(issued) < MaxIssued
  /\ issued' = issued \cup {[token |-> Claims(user), by |-> cfg, at |-> now]}
  /\ UNCHANGED <<now, cfg, checking, answer>>

(* The verifier MakeTokenVerifier returns, called by RequireBearerToken.   *)
Verify(token) ==
  /\ cfg.enabled
  /\ IF VerifyAccessToken(token)
       THEN checking' = checking \cup {token} /\ UNCHANGED answer
       ELSE Answered(token, "refused") /\ UNCHANGED checking
  /\ UNCHANGED <<now, cfg, issued>>

(* RequireBearerToken then looks at the clock for itself.                  *)
CheckExpiration(token) ==
  /\ token \in checking
  /\ checking' = checking \ {token}
  /\ Answered(token, IF token.exp * Second < now THEN "refused" ELSE "granted")
  /\ UNCHANGED <<now, cfg, issued>>

Tick ==
  /\ now < MaxTime
  /\ now' = now + 1
  /\ UNCHANGED <<cfg, issued, checking, answer>>

(* RunHTTP begins with Validate; the requests of the old process are lost. *)
Restart(c) ==
  /\ Validate(c)
  /\ cfg' = c
  /\ checking' = {}
  /\ UNCHANGED <<now, issued, answer>>

TokenNext ==
  \/ \E user \in UNION {c.admits : c \in Configs} : IssueAccessToken(user)
  \/ \E i \in issued : Verify(i.token) \/ CheckExpiration(i.token)
  \/ Tick
  \/ \E c \in Configs : Restart(c)

TokenSpec == TokenInit /\ [][TokenNext]_vars

-----------------------------------------------------------------------------
(* Reference: a token of one server is good at the other one.              *)
SameServer(c, d) ==
  /\ c.signingKey = d.signingKey
  /\ <<c.issuer.scheme, c.issuer.host>> = <<d.issuer.scheme, d.issuer.host>>
  /\ c.endpoint = d.endpoint

(* A request is let in only with a token that this server, or an earlier   *)
(* run of it, issued to someone its configuration then admitted, and never *)
(* later than that configuration's token_expiry afterwards: so long at     *)
(* most does someone removed from the allowed users keep access.           *)
GrantedAsIssued ==
  answer.outcome = "granted" =>
    \E i \in issued :
      /\ i.token = answer.token
      /\ SameServer(i.by, answer.under)
      /\ i.token.sub \in i.by.admits
      /\ answer.at <= i.at + i.by.tokenExpiry * Second

(* A token is refused by the server it is for only when its time is over,  *)
(* or a fraction of a second before: neither a restart nor another         *)
(* spelling of the issuer ends it, nor a token_expiry set since.           *)
RefusedWhenOver ==
  answer.outcome = "refused" =>
    \A i \in issued :
      i.token = answer.token /\ SameServer(i.by, answer.under) =>
        answer.at > i.at + (i.by.tokenExpiry - 1) * Second

-----------------------------------------------------------------------------
(* What makes these two inductive: what a token says is what the           *)
(* configuration it was issued under said, and what is decided about a     *)
(* token was decided by comparing it with the configuration of the same    *)
(* process.  The dates of tokens are rounded down, which is all that       *)
(* separates the time of an answer from the lifetime in the configuration. *)
MadeFor(token, c) ==
  <<token.key, token.iss, token.aud>> = <<c.signingKey, NormalizedIssuer(c), ResourceURL(c)>>

Runs(c) == c \in Configs /\ Validate(c) /\ c.enabled

IssuedSound ==
  \A i \in issued :
    /\ Runs(i.by)
    /\ i.at \in Int
    /\ MadeFor(i.token, i.by)
    /\ i.token.sub \in i.by.admits
    /\ i.token.exp = NumericDate(i.at + i.by.tokenExpiry * Second)

CheckingSound ==
  \A token \in checking : MadeFor(token, cfg) /\ \E i \in issued : i.token = token

AnswerSound ==
  /\ answer.outcome # "none" => Runs(answer.under) /\ answer.at \in Int
  /\ answer.outcome = "granted" =>
       /\ MadeFor(answer.token, answer.under)
       /\ answer.at <= answer.token.exp * Second
       /\ \E i \in issued : i.token = answer.token
  /\ answer.outcome = "refused" /\ MadeFor(answer.token, answer.under) =>
       answer.at >= answer.token.exp * Second

TokenInv ==
  /\ now \in Int
  /\ cfg \in Configs /\ Validate(cfg)
  /\ checking # {} => cfg.enabled
  /\ IssuedSound /\ CheckingSound /\ AnswerSound

=============================================================================
