------------------------- MODULE QueryResultProofs -------------------------
(* What a tool call answers is the whole result of statements that have    *)
(* committed, for any handlers, columns and numbers of rows.               *)
EXTENDS QueryResult, SequenceTheorems, TLAPS

(* The sequences of the model have elements of no particular set.          *)
IsSequence(s) == \E S : s \in Seq(S)

LEMMA AppendSequence ==
  ASSUME NEW s, IsSequence(s), NEW e
  PROVE  /\ IsSequence(Append(s, e)) /\ Len(s) \in Nat
         /\ Len(Append(s, e)) = Len(s) + 1
         /\ \A i \in 1 .. Len(s) : Append(s, e)[i] = s[i]
         /\ Append(s, e)[Len(s) + 1] = e
         /\ s = <<>> <=> Len(s) = 0
<1>1. PICK S : s \in Seq(S)
      BY DEF IsSequence
<1>2. s \in Seq(S \cup {e})
      BY <1>1, SeqMonotonic
<1>3. /\ Append(s, e) \in Seq(S \cup {e}) /\ Len(s) \in Nat
      /\ Len(Append(s, e)) = Len(s) + 1
      /\ \A i \in 1 .. Len(s) : Append(s, e)[i] = s[i]
      /\ Append(s, e)[Len(s) + 1] = e
      BY <1>2
<1>4. s = <<>> <=> Len(s) = 0
      BY <1>1, EmptySeq
<1> QED BY <1>3, <1>4 DEF IsSequence

LEMMA EmptySequence == IsSequence(<<>>) /\ Len(<<>>) = 0
BY EmptySeq DEF IsSequence

(* Among distinct names the last column of a name is the only one.         *)
LEMMA LastColumnDistinct ==
  ASSUME cols \in Seq(STRING), Distinct, NEW i \in DOMAIN cols
  PROVE  LastColumn(cols[i]) = i
<1> DEFINE P(j) == /\ cols[j] = cols[i]
                   /\ \A l \in DOMAIN cols : cols[l] = cols[i] => l <= j
<1>1. \A j \in DOMAIN cols : P(j) => j = i
      BY DEF Distinct
<1>2. CASE \E j \in DOMAIN cols : P(j)
  <2>1. LastColumn(cols[i]) \in DOMAIN cols /\ P(LastColumn(cols[i]))
        BY <1>2 DEF LastColumn
  <2> QED BY <1>1, <2>1
<1>3. \A l \in DOMAIN cols : cols[l] = cols[i] => l = i
      BY DEF Distinct
<1>4. i \in Nat
      BY LenProperties
<1>5. P(i)
      BY <1>3, <1>4
<1> QED BY <1>2, <1>5

ResultInv ==
  /\ ResultTypeOK /\ OkIsComplete /\ CollectedSoFar
  /\ IsSequence(result) /\ IsSequence(texts)

LEMMA ResultInitInv == ResultInit => ResultInv
<1> SUFFICES ASSUME ResultInit
             PROVE  ResultInv
    OBVIOUS
<1>1. /\ cols = <<>> /\ result = <<>> /\ texts = <<>> /\ Len(<<>>) = 0
      /\ <<>> \in Seq(STRING) /\ IsSequence(<<>>)
      BY EmptySequence, EmptySeq DEF ResultInit
<1>2. /\ stage = "idle" /\ handler \in DOMAIN Handlers /\ answer = "none"
      /\ server = "committed" /\ sent = 0 /\ broken = FALSE
      /\ Handlers[handler] \in Nat \ {0} /\ MaxRows \in Nat
      BY RowsAssumption DEF ResultInit
<1>3. ResultTypeOK
  <2>1. Len(result) \in 0 .. sent /\ Len(texts) \in 0 .. Handlers[handler]
        BY <1>1, <1>2
  <2>2. cols \in Seq(STRING) /\ sent \in 0 .. MaxRows
        BY <1>1, <1>2
  <2> QED BY <1>2, <2>1, <2>2 DEF ResultTypeOK
<1>4. OkIsComplete /\ CollectedSoFar
      BY <1>1, <1>2 DEF OkIsComplete, CollectedSoFar
<1> QED BY <1>1, <1>3, <1>4 DEF ResultInv

(* The error returns keep what is collected.                               *)
LEMMA FailsInv ==
  ASSUME ResultInv, Fails, UNCHANGED serverVars, stage \in {"querying", "reading"}
  PROVE  ResultInv'
<1> USE DEF ResultInv, ResultTypeOK, CollectedSoFar
<1>1. /\ stage' = "answered" /\ UNCHANGED <<handler, cols, result, texts, server, sent, broken>>
      /\ answer' \in {"ok", "error"}
      /\ answer' = "ok" => handler \in BestEffort /\ LastStatement
      BY DEF Fails, Answer, serverVars
<1>2. Handlers[handler] \in Nat \ {0} /\ (handler \in BestEffort => Handlers[handler] > 1)
      BY RowsAssumption
<1>3. Len(texts) \in Nat /\ (texts = <<>> <=> Len(texts) = 0)
      BY AppendSequence
<1>4. answer' = "ok" => Len(texts) = Handlers[handler] - 1 /\ texts # <<>>
      BY <1>1, <1>2, <1>3 DEF LastStatement
<1>5. OkIsComplete'
      BY <1>1, <1>4 DEF OkIsComplete
<1>6. CollectedSoFar'
  <2>1. \A k : ResultRow(k)' = ResultRow(k)
        BY <1>1 DEF ResultRow, Names, LastColumn
  <2>2. answer' = "ok" => Len(texts') # Handlers[handler']
        BY <1>1, <1>2, <1>4
  <2> QED BY <1>1, <2>1, <2>2
<1> QED BY <1>1, <1>5, <1>6

LEMMA ResultNextInv == ResultInv /\ [ResultNext]_vars => ResultInv'
<1> SUFFICES ASSUME ResultInv, [ResultNext]_vars
             PROVE  ResultInv'
    OBVIOUS
<1> USE DEF ResultInv, ResultTypeOK, CollectedSoFar
<1>a. \A h \in DOMAIN Handlers : /\ Handlers[h] \in Nat \ {0}
                                 /\ ColumnLists[h] \subseteq Seq(STRING)
      BY RowsAssumption
<1>b. MaxRows \in Nat /\ sent \in Nat
      BY RowsAssumption
<1>c. /\ Len(texts) \in Nat /\ (texts = <<>> <=> Len(texts) = 0)
      /\ Len(result) \in Nat /\ (result = <<>> <=> Len(result) = 0)
      BY AppendSequence
<1>1. ASSUME NEW h \in DOMAIN Handlers, Call(h)
      PROVE  ResultInv'
  <2>1. /\ stage = "idle" /\ stage' = "querying" /\ handler' = h
        /\ UNCHANGED <<cols, result, texts, answer, server, sent, broken>>
        BY <1>1 DEF Call, serverVars
  <2>2. texts = <<>> /\ Len(texts) = 0 /\ answer = "none"
        BY <2>1, <1>c
  <2>3. \A k : ResultRow(k)' = ResultRow(k)
        BY <2>1 DEF ResultRow, Names, LastColumn
  <2> QED BY <1>a, <2>1, <2>2, <2>3 DEF OkIsComplete
<1>2. ASSUME NEW c \in ColumnLists[handler], QueryStarts(c)
      PROVE  ResultInv'
  <2>1. /\ stage = "querying" /\ stage' = "reading" /\ cols' = c /\ c \in Seq(STRING)
        /\ result' = <<>> /\ IsSequence(result') /\ Len(result') = 0
        /\ server' = "running" /\ sent' = 0 /\ broken' = FALSE
        /\ UNCHANGED <<handler, texts, answer>>
        BY <1>2, <1>a, EmptySequence DEF QueryStarts
  <2>2. answer' = "none"
        BY <2>1
  <2>3. ResultTypeOK'
    <3>1. Len(result') \in 0 .. sent' /\ sent' \in 0 .. MaxRows
          BY <1>b, <2>1
    <3>2. Len(texts') \in 0 .. Handlers[handler'] /\ cols' \in Seq(STRING)
          BY <2>1
    <3> QED BY <2>1, <2>2, <3>1, <3>2
  <2>4. CollectedSoFar'
        BY <2>1, <2>2
  <2> QED BY <2>1, <2>2, <2>3, <2>4 DEF OkIsComplete
<1>3. CASE QueryFails
      BY <1>3, FailsInv DEF QueryFails
<1>4. CASE ReadRow
  <2>1. /\ stage = "reading" /\ Len(result) < sent
        /\ result' = Append(result, ResultRow(Len(result) + 1))
        /\ UNCHANGED <<stage, handler, cols, texts, answer, server, sent, broken>>
        BY <1>4 DEF ReadRow, serverVars
  <2>2. /\ IsSequence(result') /\ Len(result') = Len(result) + 1
        /\ \A k \in 1 .. Len(result) : result'[k] = result[k]
        /\ result'[Len(result) + 1] = ResultRow(Len(result) + 1)
        BY <2>1, AppendSequence
  <2>3. \A k : ResultRow(k)' = ResultRow(k)
        BY <2>1 DEF ResultRow, Names, LastColumn
  <2>4. \A k \in 1 .. Len(result') : result'[k] = ResultRow(k)'
        BY <1>c, <2>2, <2>3
  <2>5. answer' = "none" /\ Len(result') \in 0 .. sent
        BY <1>b, <1>c, <2>1, <2>2
  <2> QED BY <2>1, <2>2, <2>4, <2>5 DEF OkIsComplete
<1>5. CASE ScanFails \/ RowsFail
      BY <1>5, FailsInv DEF ScanFails, RowsFail
<1>6. CASE RowsEnd
  <2> DEFINE text == MapToCSV(result, cols)
  <2>1. /\ stage = "reading" /\ ~ DoesNotExist /\ texts' = Append(texts, text)
        /\ \/ LastStatement /\ stage' = "answered" /\ answer' = "ok"
           \/ ~ LastStatement /\ stage' = "querying" /\ answer' = answer
        /\ UNCHANGED <<handler, cols, result, server, sent, broken>>
        BY <1>6 DEF RowsEnd, Answer, serverVars
  <2>2. /\ IsSequence(texts') /\ Len(texts') = Len(texts) + 1
        /\ \A k \in 1 .. Len(texts) : texts'[k] = texts[k]
        /\ texts'[Len(texts) + 1] = text
        /\ texts' # <<>>
    <3> HIDE DEF text
    <3>1. /\ IsSequence(texts') /\ Len(texts') = Len(texts) + 1
          /\ \A k \in 1 .. Len(texts) : texts'[k] = texts[k]
          /\ texts'[Len(texts) + 1] = text
          BY <2>1, AppendSequence
    <3> QED BY <1>c, <3>1, EmptySequence
  <2>3. \A k : ResultRow(k)' = ResultRow(k)
        BY <2>1 DEF ResultRow, Names, LastColumn
  <2>4. MapToCSV(result', cols') = text
        BY <2>1
  <2>5. Len(texts) < Handlers[handler] /\ answer = "none"
        BY <2>1
  <2>6. ASSUME handler \in NonEmpty
        PROVE  texts'[1] # <<>>
    <3>1. CASE texts = <<>>
      <4>1. result # <<>> /\ Len(result) # 0
            BY <1>c, <2>1, <2>6, <3>1 DEF DoesNotExist
      <4>2. 1 \in DOMAIN result
            BY <4>1, LenProperties DEF IsSequence
      <4>3. 1 \in DOMAIN text /\ texts'[1] = text
            BY <1>c, <2>2, <3>1, <4>2 DEF MapToCSV
      <4> QED BY <4>3
    <3>2. CASE texts # <<>>
          BY <1>c, <2>2, <2>6, <3>2
    <3> QED BY <3>1, <3>2
  <2>7. answer' = "ok" => Len(texts') = Handlers[handler] /\ stage' = "answered"
        BY <2>1, <2>2, <2>5 DEF LastStatement
  <2>8. stage' # "answered" => Len(texts') < Handlers[handler]
        BY <1>a, <1>c, <2>1, <2>2, <2>5 DEF LastStatement
  <2>9. ResultTypeOK'
        BY <1>a, <1>c, <2>1, <2>2, <2>5
  <2>10. OkIsComplete'
        BY <2>1, <2>6, <2>7 DEF OkIsComplete
  <2>11. CollectedSoFar'
    <3> HIDE DEF text
    <3>1. answer' = "ok" => texts'[Len(texts')] = text
          BY <2>2
    <3>2. \A k \in 1 .. Len(result') : result'[k] = ResultRow(k)'
          BY <2>1, <2>3
    <3>3. stage' \in {"querying", "answered"} /\ handler' = handler
          BY <2>1
    <3>4. stage' # "answered" => answer' = "none"
          BY <2>1, <2>5
    <3> QED BY <2>4, <2>6, <2>8, <3>1, <3>2, <3>3, <3>4
  <2> QED BY <2>1, <2>2, <2>9, <2>10, <2>11
<1>7. CASE CallOver
      BY <1>7, <1>a, <1>b, EmptySequence DEF CallOver, serverVars, OkIsComplete
<1>8. CASE UNCHANGED callVars /\ sent' \in sent .. MaxRows /\ server' \in {"running", "committed", "aborted"}
           /\ broken' \in BOOLEAN
  <2>1. \A k : ResultRow(k)' = ResultRow(k)
        BY <1>8 DEF ResultRow, Names, LastColumn, callVars
  <2>2. MapToCSV(result', cols') = MapToCSV(result, cols)
        BY <1>8 DEF callVars
  <2>3. ResultTypeOK'
        BY <1>8, <1>b, <1>c DEF callVars
  <2> QED BY <1>8, <2>1, <2>2, <2>3 DEF callVars, OkIsComplete
<1>9. CASE SendRow \/ Breaks \/ \E how \in {"committed", "aborted"} : StatementEnds(how)
  <2>1. sent' \in sent .. MaxRows
        BY <1>9, <1>b DEF SendRow, Breaks, StatementEnds
  <2>2. UNCHANGED callVars
        BY <1>9 DEF SendRow, Breaks, StatementEnds
  <2>3. server' \in {"running", "committed", "aborted"} /\ broken' \in BOOLEAN
        BY <1>9 DEF SendRow, Breaks, StatementEnds
  <2> QED BY <1>8, <2>1, <2>2, <2>3
<1>10. CASE UNCHANGED vars
       BY <1>8, <1>10, <1>b DEF vars, serverVars
<1> QED BY <1>1, <1>2, <1>3, <1>4, <1>5, <1>6, <1>7, <1>9, <1>10 DEF ResultNext

LEMMA ResultInvariant == ResultSpec => []ResultInv
BY ResultInitInv, ResultNextInv, PTL DEF ResultSpec

(* The type invariant: no more rows are read than were sent.               *)
THEOREM ResultTypesCorrect == ResultSpec => []ResultTypeOK
<1>1. ResultInv => ResultTypeOK
      BY DEF ResultInv
<1> QED BY <1>1, ResultInvariant, PTL

(* Success means every statement, but for the comment of a table.          *)
THEOREM ResultsComplete == ResultSpec => []OkIsComplete
<1>1. ResultInv => OkIsComplete
      BY DEF ResultInv
<1> QED BY <1>1, ResultInvariant, PTL

(* Distinct column names suffice for every value to come out in its place. *)
THEOREM ResultsFaithful == ResultSpec => []CSVFaithful
<1>1. ResultInv => CSVFaithful
  <2> SUFFICES ASSUME ResultInv, answer = "ok", Len(texts) = Handlers[handler], Distinct,
                      NEW k \in DOMAIN texts[Len(texts)], NEW i \in DOMAIN cols
               PROVE  texts[Len(texts)][k][i] = Cell(k, i)
      BY DEF CSVFaithful
  <2>1. texts[Len(texts)] = MapToCSV(result, cols)
        BY DEF ResultInv, CollectedSoFar
  <2>2. k \in DOMAIN result /\ texts[Len(texts)][k][i] = result[k][cols[i]]
        BY <2>1 DEF MapToCSV
  <2>3. k \in 1 .. Len(result)
        BY <2>2, LenProperties DEF ResultInv, IsSequence
  <2>4. result[k] = ResultRow(k) /\ cols[i] \in Names
        BY <2>3 DEF ResultInv, CollectedSoFar, Names
  <2>5. result[k][cols[i]] = Cell(k, LastColumn(cols[i]))
        BY <2>4 DEF ResultRow
  <2> QED BY <2>2, <2>5, LastColumnDistinct DEF ResultInv, ResultTypeOK
<1> QED BY <1>1, ResultInvariant, PTL

(* No step adds to the answer but the whole result of a committed          *)
(* statement.                                                              *)
THEOREM ResultsWhole == ResultSpec => OnlyWholeResults
<1> DEFINE Whole == texts' # texts /\ texts' # <<>> =>
                      server = "committed" /\ Len(texts'[Len(texts')]) = sent
<1>1. ResultInv /\ [ResultNext]_vars => [Whole]_vars
  <2> SUFFICES ASSUME ResultInv, ResultNext, texts' # texts, texts' # <<>>
               PROVE  server = "committed" /\ Len(texts'[Len(texts')]) = sent
      OBVIOUS
  <2>1. RowsEnd
        BY DEF ResultNext, Call, QueryStarts, QueryFails, ReadRow, ScanFails, RowsFail,
               CallOver, SendRow, Breaks, StatementEnds, Fails, callVars
  <2>2. /\ server = "committed" /\ Len(result) = sent
        /\ texts' = Append(texts, MapToCSV(result, cols))
        BY <2>1 DEF RowsEnd, RowsWhole
  <2>3. texts'[Len(texts')] = MapToCSV(result, cols)
    <3> DEFINE text == MapToCSV(result, cols)
    <3> HIDE DEF text
    <3>1. texts' = Append(texts, text)
          BY <2>2 DEF text
    <3>2. texts'[Len(texts')] = text
          BY <3>1, AppendSequence DEF ResultInv
    <3> QED BY <3>2 DEF text
  <2>4. DOMAIN MapToCSV(result, cols) = 1 .. Len(result) /\ Len(result) \in Nat
        BY LenProperties DEF MapToCSV, ResultInv, IsSequence
  <2>5. Len(MapToCSV(result, cols)) = Len(result)
        BY <2>4
  <2> QED BY <2>2, <2>3, <2>5
<1> QED BY <1>1, ResultInvariant, PTL DEF ResultSpec, OnlyWholeResults

=============================================================================
