---------------------------- MODULE MCGoogleJWKS ----------------------------
(* Two look-ups at a time and two rotations; a withdrawn key can outlive   *)
(* every answer, lifetimes of one and two ticks and a delay of one.        *)
EXTENDS GoogleJWKS, TLC

MCMaxAges == {-1, 1}

MCSymmetry == Permutations(Goroutines)

=============================================================================
