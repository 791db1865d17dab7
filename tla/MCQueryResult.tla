--------------------------- MODULE MCQueryResult ---------------------------
(* A query of two columns, with distinct names or not, a statement without *)
(* a result, and the two handlers that scan rows themselves.               *)
EXTENDS QueryResult, TLC

MCHandlers == [query |-> 1, exec |-> 1, list_table |-> 1, desc_table |-> 4]

MCColumnLists ==
  [query |-> {<<"a", "b">>, <<"a", "a">>}, exec |-> {<<>>},
   list_table |-> {<<"tablename">>}, desc_table |-> {<<"line">>}]

=============================================================================
