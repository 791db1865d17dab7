--------------------------- MODULE MCAccessToken ---------------------------
(* Configurations that differ from the first one in one thing each.        *)
EXTENDS AccessToken

Issuer(host, path) == [scheme |-> "https", host |-> host, path |-> path, query |-> ""]

Base ==
  [enabled |-> TRUE, issuer |-> Issuer("a", ""), signingKey |-> "k1", endpoint |-> "/mcp",
   tokenExpiry |-> 2, admits |-> {"u1"}, clientID |-> "id", clientSecret |-> "secret"]

MCConfigs ==
  {Base,
   [Base EXCEPT !.issuer.path = "/"],
   [Base EXCEPT !.issuer.host = "b"],
   [Base EXCEPT !.issuer.path = "/path"],
   [Base EXCEPT !.signingKey = "k2"],
   [Base EXCEPT !.signingKey = "short"],
   [Base EXCEPT !.endpoint = "/other"],
   [Base EXCEPT !.tokenExpiry = 1, !.admits = {}],
   [Base EXCEPT !.tokenExpiry = -1],
   [Base EXCEPT !.enabled = FALSE]}

MCKeyLength == [k1 |-> 32, k2 |-> 64, short |-> 31]

=============================================================================
