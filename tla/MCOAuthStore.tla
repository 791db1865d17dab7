---------------------------- MODULE MCOAuthStore ----------------------------
(* Two authorizations and two codes with lifetimes of two and one ticks:   *)
(* entries of different ages, live and expired, coexist in both maps.      *)
EXTENDS OAuthStore, TLC

MCSymmetry ==
  Permutations(GoogleStates) \cup Permutations(CSRFTokens) \cup Permutations(Codes)

=============================================================================
