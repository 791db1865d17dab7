-------------------------- MODULE MCHTTPLifecycle --------------------------
(* Every call is for a read-only preset, whose pools take one step more to *)
(* be set up than the configured ones.                                     *)
EXTENDS HTTPLifecycle, TLC

Preset(dsn, readOnly, timeout) ==
  [dsn |-> dsn, readOnly |-> readOnly, queryTimeout |-> timeout]

MCPresets == [ro |-> Preset("db1", TRUE, 0)]

MCConfigParams == Preset("db1", FALSE, 30)

MCNativeDSN == "db1" :> "db1"

=============================================================================
