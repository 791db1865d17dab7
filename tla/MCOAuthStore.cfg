SPECIFICATION FairStoreSpec
CONSTANTS
  GoogleStates = {g1, g2}
  CSRFTokens = {t1, t2, t3}
  Codes = {c1, c2}
  Requests = {r1}
  Users = {u1}
  PendingAuthzTTL = 2
  AuthCodeTTL = 1
  MaxTime = 6
  MaxArrival = 3
INVARIANTS
  TypeOK
  CsrfIndexSound
PROPERTIES
  EventuallyPurged
