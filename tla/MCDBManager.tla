---------------------------- MODULE MCDBManager ----------------------------
(* The configured connection, two presets and a DSN argument, spelled in   *)
(* two ways, lead to one database in two modes.                            *)
EXTENDS DBManager, Integers, TLC

Preset(dsn, readOnly, timeout) ==
  [dsn |-> dsn, readOnly |-> readOnly, queryTimeout |-> timeout]

MCPresets == [rw |-> Preset("db1 url", FALSE, 5), ro |-> Preset("db1", TRUE, 0)]

MCConfigParams == Preset("db1", FALSE, 30)

MCNativeDSN == ("db1" :> "db1") @@ ("db1 url" :> "db1")

=============================================================================
