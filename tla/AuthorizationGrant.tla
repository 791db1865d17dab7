------------------------- MODULE AuthorizationGrant -------------------------
(***************************************************************************)
(* What the OAuth server promises, with no store, no clock and no browser: *)
(* a flow is asked for once, approved by the user at most once and never   *)
(* after it was signed into, signed into at most once by an admitted       *)
(* account, and yields at most one token.  That token carries what this    *)
(* flow asked for and the account that signed into it, and goes to someone *)
(* who knows the verifier of its challenge.  That a flow was approved when *)
(* it is signed into is not promised: the server does not look.            *)
(***************************************************************************)
EXTENDS Sequences, GoMap

CONSTANTS
  Flows,        \* authorization flows
  Requests,     \* [clientID, redirectURI, codeChallenge, audience]
  Admitted,     \* the Google accounts the operator lets in
  Verifiers,    \* PKCE verifiers
  S256          \* verifier -> challenge

VARIABLES
  asked,        \* flow -> what its client asked for
  approved,     \* the flows the user approved, in order
  signedIn,     \* flow -> the account that signed in
  tokens        \* the access tokens issued, in order

grantVars == <<asked, approved, signedIn, tokens>>

GrantInit ==
  /\ asked = EmptyMap
  /\ approved = << >>
  /\ signedIn = EmptyMap
  /\ tokens = << >>

Ask(f, r) ==
  /\ f \notin DOMAIN asked
  /\ asked' = Put(asked, f, r)
  /\ UNCHANGED <<approved, signedIn, tokens>>

Approve(f) ==
  /\ f \in DOMAIN asked
  /\ f \notin DOMAIN signedIn
  /\ \A i \in DOMAIN approved : approved[i] # f
  /\ approved' = Append(approved, f)
  /\ UNCHANGED <<asked, signedIn, tokens>>

SignIn(f, u) ==
  /\ f \in DOMAIN asked
  /\ f \notin DOMAIN signedIn
  /\ signedIn' = Put(signedIn, f, u)
  /\ UNCHANGED <<asked, approved, tokens>>

Issue(f, v) ==
  /\ f \in DOMAIN signedIn
  /\ \A i \in DOMAIN tokens : tokens[i].flow # f
  /\ S256[v] = asked[f].codeChallenge
  /\ tokens' = Append(tokens,
       [flow |-> f, user |-> signedIn[f], verifier |-> v,
        clientID |-> asked[f].clientID, redirectURI |-> asked[f].redirectURI,
        audience |-> asked[f].audience])
  /\ UNCHANGED <<asked, approved, signedIn>>

GrantNext ==
  \/ \E f \in Flows, r \in Requests : Ask(f, r)
  \/ \E f \in Flows : Approve(f)
  \/ \E f \in Flows, u \in Admitted : SignIn(f, u)
  \/ \E f \in Flows, v \in Verifiers : Issue(f, v)

GrantSpec == GrantInit /\ [][GrantNext]_grantVars

=============================================================================
