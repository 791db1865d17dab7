---------------------------- MODULE QueryResult ----------------------------
(***************************************************************************)
(* From the rows a statement returns to the text a tool call answers:      *)
(* handleQueryWithPreset, handleExecWithPreset, handleListTable,           *)
(* handleDescTable and MapToCSV of server/tools.go.  The database commits  *)
(* or aborts a statement after its last row, and says so after it: a       *)
(* statement may return rows and fail at its end.                          *)
(***************************************************************************)
EXTENDS Integers, Sequences

CONSTANTS
  Handlers,      \* handler -> the number of statements it executes
  ColumnLists,   \* handler -> the column names its statements may return
  BestEffort,    \* the handlers that ignore the errors of their last statement
  NonEmpty,      \* those that fail if their first statement returns no row
  MaxRows        \* bound: the rows a statement may return

ASSUME RowsAssumption ==
  /\ Handlers \in [DOMAIN Handlers -> Nat \ {0}]
  /\ ColumnLists \in [DOMAIN Handlers -> SUBSET Seq(STRING)]
  /\ \A h \in BestEffort : h \in DOMAIN Handlers /\ Handlers[h] > 1
  /\ NonEmpty \subseteq DOMAIN Handlers
  /\ MaxRows \in Nat

VARIABLES
  stage,         \* of the call: "idle", "querying", "reading", "answered"
  handler,       \* what it is a call of
  cols,          \* rows.Columns() of the statement
  result,        \* the rows read, each a map from column name to value
  texts,         \* what earlier statements of the call added to its answer
  answer,        \* "none", "ok" or "error"
  server,        \* of the statement: "running", "committed", "aborted"
  sent,          \* how many rows it has sent
  broken         \* the connection is lost, or the deadline has passed

callVars == <<stage, handler, cols, result, texts, answer>>

serverVars == <<server, sent, broken>>

vars == <<callVars, serverVars>>

-----------------------------------------------------------------------------
(* The value in column i of row k, as the database sent it.                *)
Cell(k, i) == <<k, i>>

Names == {cols[i] : i \in DOMAIN cols}

LastColumn(name) ==
  CHOOSE i \in DOMAIN cols :
    cols[i] = name /\ \A j \in DOMAIN cols : cols[j] = name => j <= i

(* resultRow[col] is assigned in the order of the columns.                 *)
ResultRow(k) == [name \in Names |-> Cell(k, LastColumn(name))]

MapToCSV(rows, headers) ==
  [k \in DOMAIN rows |-> [i \in DOMAIN headers |-> rows[k][headers[i]]]]

LastStatement == Len(texts) + 1 = Handlers[handler]

-----------------------------------------------------------------------------
ResultInit ==
  /\ stage = "idle"
  /\ handler \in DOMAIN Handlers
  /\ cols = <<>> /\ result = <<>> /\ texts = <<>>
  /\ answer = "none"
  /\ server = "committed" /\ sent = 0 /\ broken = FALSE

Answer(what) ==
  /\ stage' = "answered"
  /\ answer' = what

(* The error return of every handler; the last statement of some is        *)
(* allowed to fail.                                                        *)
Fails ==
  /\ Answer(IF handler \in BestEffort /\ LastStatement THEN "ok" ELSE "error")
  /\ UNCHANGED <<handler, cols, result, texts>>

Call(h) ==
  /\ stage = "idle"
  /\ stage' = "querying"
  /\ handler' = h
  /\ UNCHANGED <<cols, result, texts, answer, serverVars>>

(* Mutant: desc_table's rows are collected in one list.                    *)
QueryStartsKeepingRows(c) ==
  /\ stage = "querying"
  /\ stage' = "reading"
  /\ cols' = c
  /\ server' = "running" /\ sent' = 0 /\ broken' = FALSE
  /\ UNCHANGED <<handler, result, texts, answer>>

(* QueryxContext or ExecContext, and Columns.                              *)
QueryStarts(c) ==
  /\ stage = "querying"
  /\ stage' = "reading"
  /\ cols' = c
  /\ result' = <<>>
  /\ server' = "running" /\ sent' = 0 /\ broken' = FALSE
  /\ UNCHANGED <<handler, texts, answer>>

QueryFails == stage = "querying" /\ Fails /\ UNCHANGED serverVars

(* Mutant: resultRow is declared outside the loop, and shared.             *)
ReadRowShared ==
  /\ stage = "reading"
  /\ Len(result) < sent
  /\ result' = [k \in 1 .. Len(result) + 1 |-> ResultRow(Len(result) + 1)]
  /\ UNCHANGED <<stage, handler, cols, texts, answer, serverVars>>

(* rows.Next, SliceScan or Scan.                                           *)
ReadRow ==
  /\ stage = "reading"
  /\ Len(result) < sent
  /\ result' = Append(result, ResultRow(Len(result) + 1))
  /\ UNCHANGED <<stage, handler, cols, texts, answer, serverVars>>

ScanFails ==
  /\ stage = "reading"
  /\ Len(result) < sent
  /\ Fails
  /\ UNCHANGED serverVars

(* rows.Next returns false.                                                *)
RowsOver == broken \/ (Len(result) = sent /\ server # "running")

(* Mutant: nobody looks at rows.Err.                                       *)
RowsOverUnchecked == RowsOver

(* And rows.Err returns nil: what broke, broke after the last message.     *)
RowsWhole == Len(result) = sent /\ server = "committed"

(* Mutant: a table without columns is described.                           *)
NeverMissing == FALSE

DoesNotExist == handler \in NonEmpty /\ texts = <<>> /\ result = <<>>

RowsFail ==
  /\ stage = "reading"
  /\ RowsOver
  /\ broken \/ server = "aborted" \/ DoesNotExist
  /\ Fails
  /\ UNCHANGED serverVars

RowsEnd ==
  /\ stage = "reading"
  /\ RowsWhole /\ ~ DoesNotExist
  /\ texts' = Append(texts, MapToCSV(result, cols))
  /\ IF LastStatement
       THEN Answer("ok")
       ELSE stage' = "querying" /\ UNCHANGED answer
  /\ UNCHANGED <<handler, cols, result, serverVars>>

(* The answer has been given; rows and context are closed.                 *)
CallOver ==
  /\ stage = "answered"
  /\ stage' = "idle"
  /\ answer' = "none"
  /\ cols' = <<>> /\ result' = <<>> /\ texts' = <<>>
  /\ UNCHANGED <<handler, serverVars>>

-----------------------------------------------------------------------------
(* PostgreSQL (external): a statement that nobody reads any more may still *)
(* end either way.                                                         *)
SendRow ==
  /\ stage = "reading" /\ server = "running" /\ sent < MaxRows
  /\ sent' = sent + 1
  /\ UNCHANGED <<callVars, server, broken>>

StatementEnds(how) ==
  /\ server = "running"
  /\ server' = how
  /\ UNCHANGED <<callVars, sent, broken>>

Breaks ==
  /\ stage = "reading" /\ ~ broken
  /\ broken' = TRUE
  /\ UNCHANGED <<callVars, server, sent>>

ResultNext ==
  \/ \E h \in DOMAIN Handlers : Call(h)
  \/ \E c \in ColumnLists[handler] : QueryStarts(c)
  \/ QueryFails \/ ReadRow \/ ScanFails \/ RowsFail \/ RowsEnd \/ CallOver
  \/ SendRow \/ Breaks
  \/ \E how \in {"committed", "aborted"} : StatementEnds(how)

ResultSpec == ResultInit /\ [][ResultNext]_vars

-----------------------------------------------------------------------------
ResultTypeOK ==
  /\ stage \in {"idle", "querying", "reading", "answered"}
  /\ handler \in DOMAIN Handlers
  /\ cols \in Seq(STRING)
  /\ Len(result) \in 0 .. sent
  /\ Len(texts) \in 0 .. Handlers[handler]
  /\ answer \in {"none", "ok", "error"}
  /\ server \in {"running", "committed", "aborted"}
  /\ sent \in 0 .. MaxRows
  /\ broken \in BOOLEAN

(* A result enters the answer only whole, and only when its statement has  *)
(* committed: rows that RETURNING sent before the statement failed at its  *)
(* end, or before the deadline or the loss of the connection, never do.    *)
OnlyWholeResults ==
  [][texts' # texts /\ texts' # <<>> =>
       server = "committed" /\ Len(texts'[Len(texts')]) = sent]_vars

(* A call that succeeds has the results of all its statements, except that *)
(* the last of desc_table, the table's comment, may be missing; and a      *)
(* description has columns.                                                *)
OkIsComplete ==
  answer = "ok" =>
    /\ Len(texts) \in {Handlers[handler]} \cup
         (IF handler \in BestEffort THEN {Handlers[handler] - 1} ELSE {})
    /\ handler \in NonEmpty => texts[1] # <<>>

(* What is being built up: the rows read so far, and the statements done.  *)
CollectedSoFar ==
  /\ \A k \in 1 .. Len(result) : result[k] = ResultRow(k)
  /\ stage \in {"querying", "reading"} => Len(texts) < Handlers[handler]
  /\ stage # "answered" => answer = "none"
  /\ stage = "idle" => texts = <<>>
  /\ handler \in NonEmpty /\ texts # <<>> => texts[1] # <<>>
  /\ answer = "ok" /\ Len(texts) = Handlers[handler] =>
       texts[Len(texts)] = MapToCSV(result, cols)

Distinct == \A i, j \in DOMAIN cols : cols[i] = cols[j] => i = j

(* With distinct column names, every value of every row comes out in its   *)
(* place.                                                                  *)
CSVFaithful ==
  answer = "ok" /\ Len(texts) = Handlers[handler] /\ Distinct =>
    \A k \in DOMAIN texts[Len(texts)], i \in DOMAIN cols :
      texts[Len(texts)][k][i] = Cell(k, i)

=============================================================================
