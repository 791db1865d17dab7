SPECIFICATION ServerSpec
CONSTANTS
  GoogleStates = {g1, g2}
  CSRFTokens = {t1, t2}
  Codes = {c1, c2}
  Requests <- MCRequests
  Users = {"ann", "bob", "cat", "dan", "eve"}
  Admitted = {"ann", "bob"}
  PendingAuthzTTL = 1
  AuthCodeTTL = 0
  MaxTime = 2
  MaxArrival = 2
  Queries <- MCQueries
  IDTokens <- MCIDTokens
  TokenForms <- MCTokenForms
  RedirectURIs <- MCRedirectURIs
  ResourceURL = "https://mcp.example/mcp"
  GoogleClientID = "mcp-client"
  AllowedDomains = {"corp.example"}
  AllowedEmails = {"bob@mail.example"}
  Verifiers = {"v1", "v2", "short"}
  S256 <- MCS256
  VerifierLength <- MCVerifierLength
SYMMETRY MCSymmetry
INVARIANTS
  ServerTypeOK
  OneCodePerFlow
  OneTokenPerFlow
  HopsWithinTTL
PROPERTIES
  ImplementsGrant
