SPECIFICATION JWKSSpec
CONSTANTS
  Goroutines = {a, b}
  NumKids = 4
  MaxAges <- MCMaxAges
  FallbackTTL = 2
  FetchTimeout = 1
  MaxTime = 5
SYMMETRY MCSymmetry
INVARIANTS
  JWKSTypeOK
  StoredUnexpired
  TrustEndsInTime
  NotFoundOnlyNearRotation
