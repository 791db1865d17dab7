------------------------------- MODULE GoMap -------------------------------
(***************************************************************************)
(* Go's built-in maps, as the maps of OAuthStore, GoogleTokenValidator and *)
(* DBManager use them: keys in K, values in V; an insertion overwrites     *)
(* what the key held, and a deletion of an absent key is a no-op.          *)
(***************************************************************************)
EXTENDS Functions

IsMap(m, K, V) == DOMAIN m \subseteq K /\ m \in [DOMAIN m -> V]

EmptyMap == [k \in {} |-> k]

Put(m, k, v) == [x \in DOMAIN m \cup {k} |-> IF x = k THEN v ELSE m[x]]

Delete(m, k) == Restrict(m, DOMAIN m \ {k})

=============================================================================
