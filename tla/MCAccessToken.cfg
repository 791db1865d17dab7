SPECIFICATION TokenSpec
CONSTANTS
  Configs <- MCConfigs
  KeyLength <- MCKeyLength
  Second = 2
  MaxTime = 5
  MaxIssued = 2
INVARIANTS
  GrantedAsIssued
  RefusedWhenOver
