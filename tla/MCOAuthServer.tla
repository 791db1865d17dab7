--------------------------- MODULE MCOAuthServer ---------------------------
(* Two flows and two codes.  The queries differ in every field a token is  *)
(* bound to; some of them, of the forms and of the ID tokens must be       *)
(* refused.                                                                *)
EXTENDS OAuthServer, TLC

Loopback(port, path) ==
  [scheme |-> "http", host |-> "localhost", port |-> port, path |-> path]

WebURI == [scheme |-> "https", host |-> "web.example", port |-> 443, path |-> "/cb"]

MCRedirectURIs == [cli |-> {Loopback(0, "/cb")}, web |-> {WebURI}]

Query(client, uri, challenge, resource) ==
  [responseType |-> "code", clientID |-> client, redirectURI |-> uri,
   codeChallenge |-> challenge, codeChallengeMethod |-> "S256",
   resource |-> resource]

MCQueries ==
  { Query("cli", Loopback(5001, "/cb"), "ch1", ""),
    Query("web", WebURI, "ch2", "https://mcp.example/mcp"),
    Query("cli", Loopback(5001, "/other"), "ch1", ""),
    Query("web", WebURI, "ch2", "https://other.example"),
    Query("web", WebURI, "", "") }

Claims(sub, email, hd, verified) ==
  [iss |-> "https://accounts.google.com", aud |-> "mcp-client", sub |-> sub,
   email |-> email, hd |-> hd, emailVerified |-> verified]

MCIDTokens ==
  { Claims("ann", "ann@corp.example", "corp.example", TRUE),
    Claims("bob", "bob@mail.example", "", TRUE),
    Claims("cat", "cat@mail.example", "", TRUE),
    Claims("dan", "dan@corp.example", "corp.example", FALSE),
    [Claims("eve", "eve@corp.example", "corp.example", TRUE) EXCEPT !.aud = "other"] }

MCS256 == [v1 |-> "ch1", v2 |-> "ch2", short |-> "ch3"]
MCVerifierLength == [v1 |-> 43, v2 |-> 128, short |-> 42]

TokenForm(client, uri, verifier) ==
  [grantType |-> "authorization_code", clientID |-> client,
   redirectURI |-> uri, codeVerifier |-> verifier]

MCTokenForms ==
  { TokenForm("cli", Loopback(5001, "/cb"), "v1"),
    TokenForm("web", WebURI, "v2"),
    TokenForm("cli", Loopback(5002, "/cb"), "v1"),
    TokenForm("web", WebURI, "v1"),
    TokenForm("cli", WebURI, "v2"),
    TokenForm("cli", Loopback(5001, "/cb"), "short"),
    [TokenForm("web", WebURI, "v2") EXCEPT !.grantType = "refresh_token"] }

MCSymmetry ==
  Permutations(GoogleStates) \cup Permutations(CSRFTokens) \cup Permutations(Codes)

MCRequests == {RequestOf(q) : q \in MCQueries}

=============================================================================
