---------------------------- MODULE MCQueryPath ----------------------------
(* Names that begin, and that end, with a keyword; blank fields, the       *)
(* password's too, and a password with an equals sign.  Neither half looks *)
(* at the other, so one of them is as usual.                               *)
EXTENDS QueryPath, TLC

MCColumns ==
  {<<"ID">>, <<"UPDATE", "D_AT">>, <<"BACK", "DROP">>, <<"IS_", "DELETE">>,
   <<"RETURNING", "_INSERT">>}

MCBreaks == {" ", "\n"}

MCHosts == {<< >>, <<"h">>}
MCUsers == {<< >>, <<"u">>}
MCPasswords == {<< >>, <<"secret">>, <<"se", "=", "cret">>}
MCDatabases == {<< >>, <<"d">>}
MCPorts == {0, 6432}
MCDecimal == [p \in {5432, 6432} |-> <<ToString(p)>>]
MCSchemas == {<< >>, <<"s">>}
MCDSNs ==
  {<< >>,
   <<"host", " ", "=", "h2", " ", "user", "=", " ", "u2">>,
   <<"host", "=", "h2", " ", "dbname">>}

UsualQuery ==
  [ctes |-> << >>, main |-> "select", column |-> <<"ID">>, first |-> " ",
   inner |-> " ", padded |-> FALSE, break |-> " ", outer |-> " ",
   returning |-> FALSE, end |-> "bare"]

UsualFields ==
  [host |-> <<"h">>, user |-> <<"u">>, password |-> <<"secret">>,
   database |-> <<"d">>, port |-> 6432, schema |-> << >>, dsn |-> << >>]

MCInit ==
  \/ query = UsualQuery /\ PathInit
  \/ fields = UsualFields /\ place = "postgresql" /\ PathInit

MCSpec == MCInit /\ [][PathNext]_pathVars

=============================================================================
