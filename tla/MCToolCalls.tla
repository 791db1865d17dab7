---------------------------- MODULE MCToolCalls ----------------------------
(* One tool of each kind, and statements that suit some of them; read_query  *)
(* takes an INSERT in a WITH clause for a SELECT.                          *)
EXTENDS ToolCalls, TLC

Preset(dsn, readOnly, timeout) ==
  [dsn |-> dsn, readOnly |-> readOnly, queryTimeout |-> timeout]

MCPresets == [rw |-> Preset("db1", FALSE, 5), ro |-> Preset("db1", TRUE, 0)]

MCConfigParams == Preset("db1", FALSE, 0)

MCNativeDSN == "db1" :> "db1"

MCTools ==
  [list_table |-> [kind |-> "fixed", expects |-> {"SELECT"}],
   read_query |-> [kind |-> "read", expects |-> {"SELECT", "INSERT"}],
   write_query |-> [kind |-> "write", expects |-> {"INSERT"}],
   create_table |-> [kind |-> "exec", expects |-> {}]]

MCStatements == [type : {"SELECT", "INSERT"}, returning : BOOLEAN]

MCSymmetry == Permutations(Calls) \cup Permutations(PoolIds)

=============================================================================
