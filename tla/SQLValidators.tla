--------------------------- MODULE SQLValidators ---------------------------
(***************************************************************************)
(* validateReadOnlyQuery and validateWriteQuery of server/tools.go, which  *)
(* decide by the substrings of the upper-cased text what read_query and    *)
(* the three write tools execute, and by which path.                       *)
(*                                                                         *)
(* A text is a sequence of fragments: white space, or what words are made  *)
(* of, so that "BACK", "DROP" is one word.  Literals and comments are left *)
(* out: the validators read them like the rest.                            *)
(***************************************************************************)
EXTENDS Integers, SequencesExt

CONSTANTS
  Columns,      \* the names of columns, each a sequence of fragments
  Breaks,       \* the white space there may be between words
  MaxCTEs       \* bound on the queries in a WITH clause

Sp == " "
Comma == ","
Semicolon == ";"

(* What SQL takes for white space.                                         *)
WhiteSpace == {Sp, "\t", "\n", "\f", "\r"}

ASSUME TextsAssumption ==
  /\ Columns \subseteq Seq(STRING) /\ Breaks \subseteq WhiteSpace /\ MaxCTEs \in Nat
  /\ \A c \in Columns : c # << >> /\ \A i \in 1 .. Len(c) : c[i] \notin {Sp, Semicolon}

VARIABLES
  query,        \* a client's query: see Queries
  tool,         \* the tool it was given to last
  verdict       \* "refused", "query" or "exec", the path it takes, or "none"

validatorVars == <<query, tool, verdict>>

-----------------------------------------------------------------------------
(* External: SQL.  A query has an optional WITH clause and a statement,    *)
(* perhaps with RETURNING, and perhaps a second statement follows.  Four   *)
(* places of it have white space of their own: after its first word,       *)
(* inside the queries of the WITH clause, after that clause, and inside    *)
(* the statement.  The queries in parentheses may be padded with it.       *)
Keyword ==
  [select |-> "SELECT", insert |-> "INSERT", upsert |-> "INSERT", update |-> "UPDATE",
   delete |-> "DELETE", create |-> "CREATE", alter |-> "ALTER"]

Writing == DOMAIN Keyword \ {"select"}

Queries ==
  [ctes : BoundedSeq({"select", "update", "delete"}, MaxCTEs), main : DOMAIN Keyword,
   column : Columns, first : Breaks, inner : Breaks, padded : BOOLEAN, break : Breaks,
   outer : Breaks, returning : BOOLEAN, end : {"bare", "semicolon", "second"}]

(* A statement: its first word, what follows that, and the rest, with the  *)
(* white space b between its words.                                        *)
Rest(kind, b, column) ==
  CASE kind = "select" -> column \o <<b, "FROM", b, "T">>
    [] kind = "insert" -> <<"INTO", b, "T", b, "VALUES", b, "1">>
    [] kind = "upsert" -> <<"INTO", b, "T", b, "VALUES", b, "1", b, "ON", b, "CONFLICT",
                            b, "DO", b, "UPDATE", b, "SET", b>> \o column
    [] kind = "update" -> <<"T", b, "SET", b>> \o column
    [] kind = "delete" -> <<"FROM", b, "T">>
    [] OTHER -> <<"TABLE", b, "T">>

Statement(kind, after, b, column) == <<Keyword[kind], after>> \o Rest(kind, b, column)

Pad(q) == IF q.padded THEN <<q.inner>> ELSE << >>

(* WITH X AS (...) , X AS (...)                                            *)
WithClause(q) ==
  FlattenSeq([i \in DOMAIN q.ctes |->
    (<<IF i = 1 THEN "WITH" ELSE Comma, IF i = 1 THEN q.first ELSE q.inner, "X",
       q.inner, "AS", q.inner, "(">> \o Pad(q))
    \o Statement(q.ctes[i], q.inner, q.inner, q.column)
    \o (Pad(q) \o <<")">>)])

Ending(q) ==
  (IF q.returning THEN <<q.outer, "RETURNING", q.outer>> \o q.column ELSE << >>)
  \o (CASE q.end = "bare" -> << >>
        [] q.end = "semicolon" -> <<Semicolon>>
        [] OTHER -> <<Semicolon, q.outer, "DELETE", q.outer, "FROM", q.outer, "T">>)

Text(q) ==
  IF q.ctes = << >> THEN Statement(q.main, q.first, q.outer, q.column) \o Ending(q)
  ELSE (WithClause(q) \o <<q.break>>)
       \o Statement(q.main, q.outer, q.outer, q.column) \o Ending(q)

-----------------------------------------------------------------------------
Has(text, s) ==
  \E i \in 1 .. Len(text) - Len(s) + 1 : SubSeq(text, i, i + Len(s) - 1) = s

HasWord(text, words) == \E w \in words : Has(text, <<w, Sp>>)

Dangerous == {"DROP", "TRUNCATE", "COPY", "GRANT", "REVOKE", "ALTER"}

White == {Sp, "\t", "\n"}

BeginsWith(text, word) == \E s \in White : IsPrefix(<<word, s>>, text)

(* INTO, with a space on either side, before the first such FROM.          *)
SelectInto(text) ==
  LET into == <<Sp, "INTO", Sp>>
      from == <<Sp, "FROM", Sp>>
  IN /\ Has(text, into)
     /\ Has(text, from) => IndexFirstSubSeq(into, text) < IndexFirstSubSeq(from, text)

(* Mutant: the deletions in a WITH clause are forgotten.                   *)
ReadOnlyButDeletes(text) ==
  /\ \/ BeginsWith(text, "SELECT")
     \/ IsPrefix(<<"WITH", Sp>>, text) /\ Has(text, <<Sp, "SELECT", Sp>>)
  /\ ~ SelectInto(text)
  /\ ~ Has(text, <<"INSERT", Sp, "INTO">>)
  /\ ~ (Has(text, <<"UPDATE", Sp>>) /\ Has(text, <<Sp, "SET", Sp>>))
  /\ ~ HasWord(text, Dangerous \cup {"CREATE", "CALL", "EXECUTE"})
  /\ ~ Has(text, <<"DO", Sp, "$$">>)

validateReadOnlyQuery(text) ==
  /\ \/ BeginsWith(text, "SELECT")
     \/ IsPrefix(<<"WITH", Sp>>, text) /\ Has(text, <<Sp, "SELECT", Sp>>)
  /\ ~ SelectInto(text)
  /\ ~ Has(text, <<"INSERT", Sp, "INTO">>)
  /\ ~ Has(text, <<"DELETE", Sp, "FROM">>)
  /\ ~ (Has(text, <<"UPDATE", Sp>>) /\ Has(text, <<Sp, "SET", Sp>>))
  /\ ~ HasWord(text, Dangerous \cup {"CREATE", "CALL", "EXECUTE"})
  /\ ~ Has(text, <<"DO", Sp, "$$">>)

(* Mutant: the expected word may be anywhere in any statement.             *)
WriteAnywhere(text, expectedType) ==
  /\ ~ Has(IF IsSuffix(<<Semicolon>>, text) THEN Front(text) ELSE text, <<Semicolon>>)
  /\ ~ HasWord(text, Dangerous)
  /\ BeginsWith(text, expectedType) \/ Has(text, <<Sp, expectedType, Sp>>)

validateWriteQuery(text, expectedType) ==
  /\ ~ Has(IF IsSuffix(<<Semicolon>>, text) THEN Front(text) ELSE text, <<Semicolon>>)
  /\ ~ HasWord(text, Dangerous)
  /\ \/ BeginsWith(text, expectedType)
     \/ IsPrefix(<<"WITH", Sp>>, text) /\ Has(text, <<Sp, expectedType, Sp>>)

-----------------------------------------------------------------------------
ValidatorInit ==
  /\ query \in Queries
  /\ tool = "none"
  /\ verdict = "none"

Verdict(t, v) == tool' = t /\ verdict' = v /\ UNCHANGED query

handleReadQuery ==
  Verdict("SELECT", IF validateReadOnlyQuery(Text(query)) THEN "query" ELSE "refused")

(* Mutant: RETURNING is looked for where a statement begins.               *)
WritePathByFirstWord(expectedType) ==
  Verdict(expectedType, IF ~ validateWriteQuery(Text(query), expectedType) THEN "refused"
                        ELSE IF BeginsWith(Text(query), "RETURNING") THEN "query"
                        ELSE "exec")

(* For a preset that is not read-only: see ToolCalls.                      *)
handleWriteQuery(expectedType) ==
  Verdict(expectedType, IF ~ validateWriteQuery(Text(query), expectedType) THEN "refused"
                        ELSE IF Has(Text(query), <<"RETURNING">>) THEN "query"
                        ELSE "exec")

(* A query is tried with any tool.                                         *)
ValidatorNext ==
  \/ handleReadQuery
  \/ \E type \in {"INSERT", "UPDATE", "DELETE"} : handleWriteQuery(type)

ValidatorSpec == ValidatorInit /\ [][ValidatorNext]_validatorVars

-----------------------------------------------------------------------------
(* A column's name is, with what follows it, what the tool looks for.      *)
Misleading ==
  LET column == query.column
      last == column[Len(column)]
  IN \/ last \in Dangerous
     \/ tool = "SELECT" /\ last \in {"CREATE", "CALL", "EXECUTE", "DELETE", "INTO"}
     \/ tool # "SELECT" /\ \E i \in 1 .. Len(column) : column[i] = "RETURNING"

Accepted == verdict \in {"query", "exec"}

(* A second statement is found by its semicolon, or else, by read_query,   *)
(* by a DELETE FROM with one space between the words.                      *)
SecondFound ==
  query.end = "second" /\ (tool = "SELECT" => query.outer = Sp)

(* A statement without a WITH clause is executed by the tool that is for   *)
(* its kind, and by no other, however it is broken into lines and whatever *)
(* keywords are in its names, unless a second statement is found after it: *)
(* four tools decide by substrings alone, and an INSERT may well contain   *)
(* UPDATE.  It takes the path that returns its rows, if it has any.        *)
PlainStatementsByTheirTool ==
  tool # "none" /\ query.ctes = << >> /\ query.first \in White /\ ~ Misleading =>
    verdict = IF tool # Keyword[query.main] \/ SecondFound THEN "refused"
              ELSE IF tool = "SELECT" \/ query.returning THEN "query"
              ELSE "exec"

(* What read_query executes writes only where it does not look: a part of  *)
(* it that writes, in the WITH clause or after it, has something other     *)
(* than a space between its words, as DELETE and FROM on two lines have.   *)
(* With one space between them a write is refused, wherever it is.         *)
SpacedWritesAreNotRead ==
  tool = "SELECT" /\ Accepted =>
    /\ query.main \in Writing => query.outer # Sp
    /\ \A i \in DOMAIN query.ctes : query.ctes[i] \in Writing => query.inner # Sp

=============================================================================
