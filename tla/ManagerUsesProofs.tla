-------------------------- MODULE ManagerUsesProofs --------------------------
(* The two uses of the DBManager.  Under the HTTP server, as under the     *)
(* tools, it behaves as its own specification says, so its theorems hold   *)
(* there.  main never closes a pool under a request that Shutdown was to   *)
(* wait for, and no tool that writes reaches a read-only pool, for any     *)
(* tools, presets, DSNs and numbers of calls.                              *)
EXTENDS HTTPLifecycle, ToolCalls, DBManagerProofs

(* Every step of the server is a step of the DBManager or leaves it alone. *)
LEMMA HTTPStepRefines == [HTTPNext]_allVars => [ManagerNext]_vars
<1> SUFFICES ASSUME [HTTPNext]_allVars
             PROVE  [ManagerNext]_vars
    OBVIOUS
<1>1. CASE RunHTTPNext
      BY <1>1
         DEF RunHTTPNext, StartFails, Starts, Signal, Killed, ReceiveError, ReceiveDone,
             ShutdownDone, ShutdownTimesOut, Exit, ListenFails, ServeStep, Listening,
             ServerClosed, SendError, CloseErrCh, Request, ClientLeaves, RequestOver,
             Returns
<1>2. CASE DatabaseNext
      BY <1>2
         DEF DatabaseNext, StartCall, CallRuns, EndCall, GetsLock, MainCloses, MainRuns,
             ManagerNext
<1>3. CASE UNCHANGED allVars
      BY <1>3 DEF allVars
<1> QED BY <1>1, <1>2, <1>3 DEF HTTPNext

(* The HTTP server implements the DBManager's specification.               *)
THEOREM HTTPImplementsManager == HTTPSpec => ManagerSpec
<1>1. HTTPInit => ManagerInit
      BY DEF HTTPInit
<1> QED BY <1>1, HTTPStepRefines, PTL DEF HTTPSpec, ManagerSpec

(* The server's steps on the manager are the manager's own.                *)
LEMMA HTTPManagerInvariant == HTTPSpec => []ManagerInv
BY HTTPImplementsManager, ManagerInvariant, PTL

-----------------------------------------------------------------------------
(* The server has not begun to stop.                                       *)
LEMMA HTTPInitInv == HTTPInit => HTTPInv
<1> SUFFICES ASSUME HTTPInit
             PROVE  HTTPInv
    OBVIOUS
<1>1. HTTPTypeOK /\ CleanReturn /\ ChannelSound
      BY DEF HTTPInit, HTTPTypeOK, CleanReturn, ChannelSound
<1>2. RunSound
      BY ProcsAssumption DEF HTTPInit, ManagerInit, RunSound
<1> QED BY <1>1, <1>2 DEF HTTPInv

(* What a step of the database leaves alone, and where it takes the        *)
(* goroutines: only main closes, and a call starts only with a request.    *)
LEMMA DatabaseStep ==
  ASSUME ManagerInv, DatabaseNext
  PROVE  /\ UNCHANGED httpVars
         /\ pc'[Main] # pc[Main] => run = "returned" \/ pc[Main] # "idle"
         /\ \A p \in Calls : pc'[p] # "idle" => pc[p] # "idle" \/ requests[p] # "none"
<1>a. /\ pc \in [Procs -> Labels] /\ Calls \subseteq Procs /\ Main \in Procs \ Calls
      BY ProcsAssumption DEF ManagerInv, ManagerTypeOK
<1>1. ASSUME NEW p \in Calls, NEW d \in ToolDSNs, NEW s \in ToolPresets, StartCall(p, d, s)
      PROVE  /\ UNCHANGED httpVars /\ requests[p] # "none"
             /\ \A q \in Procs \ {p} : pc'[q] = pc[q]
      BY <1>1, <1>a DEF StartCall, GetDBWithPreset, Goto
<1>2. ASSUME NEW p \in Calls, CallRuns(p) \/ EndCall(p)
      PROVE  /\ UNCHANGED httpVars /\ pc[p] # "idle"
             /\ \A q \in Procs \ {p} : pc'[q] = pc[q]
      BY <1>2, <1>a
         DEF CallRuns, EndCall, CallStep, FastPath, DoubleCheck, Connected, ConnectFails,
             SetReadOnly, SetReadOnlyFails, Publish, CallEnds, ReturnPool, ReturnError, Goto
<1>3. ASSUME NEW p \in Procs, GetsLock(p)
      PROVE  UNCHANGED httpVars /\ pc' = pc
      BY <1>3 DEF GetsLock, Lock, managerVars
<1>4. ASSUME MainCloses \/ MainRuns
      PROVE  /\ UNCHANGED httpVars
             /\ run = "returned" \/ pc[Main] # "idle"
             /\ \A q \in Procs \ {Main} : pc'[q] = pc[q]
      BY <1>4, <1>a DEF MainCloses, MainRuns, CloseDB, Close, Goto
<1> QED BY <1>a, <1>1, <1>2, <1>3, <1>4 DEF DatabaseNext

(* One step per action of the server; the database's come last.            *)
LEMMA HTTPNextInv == HTTPInv /\ ManagerInv /\ [HTTPNext]_allVars => HTTPInv'
<1> SUFFICES ASSUME HTTPInv, ManagerInv, [HTTPNext]_allVars
             PROVE  HTTPInv'
    OBVIOUS
<1> USE DEF HTTPInv, HTTPTypeOK, CleanReturn, ChannelSound, RunSound, OpenRequests,
            ShuttingDown, Alive
<1>a. pc[Main] \in Labels
      BY ProcsAssumption DEF ManagerInv, ManagerTypeOK
<1>1. CASE StartFails \/ Starts
      BY <1>1 DEF StartFails, Starts, Returns, vars
<1>2. CASE Signal \/ Killed
      BY <1>2 DEF Signal, Killed, vars
<1>3. CASE ReceiveError
      BY <1>3 DEF ReceiveError, Returns, vars
<1>4. CASE ReceiveDone
      BY <1>4 DEF ReceiveDone, vars
<1>5. CASE ShutdownDone \/ ShutdownTimesOut
      BY <1>5 DEF ShutdownDone, ShutdownTimesOut, Returns, vars
<1>6. CASE Exit
      BY <1>6 DEF Exit, vars
<1>7. CASE Listening \/ ListenFails \/ ServerClosed
      BY <1>7 DEF Listening, ListenFails, ServerClosed, vars
<1>8. CASE SendError \/ CloseErrCh
      BY <1>8 DEF SendError, CloseErrCh, vars
<1>9. ASSUME NEW c \in Clients, Request(c) \/ ClientLeaves(c)
      PROVE  HTTPInv'
  <2>1. PICK state \in {"none", "open", "left"} :
          /\ requests' = [requests EXCEPT ![c] = state]
          /\ state = "open" => ~ ShuttingDown
          /\ state = "none" => c = Stream
        BY <1>9 DEF Request, ClientLeaves, SetRequest
  <2>2. UNCHANGED <<vars, run, outcome, ctx, serve, errCh>>
        BY <1>9 DEF Request, ClientLeaves
  <2>3. requests[c] # "none" \/ serve = "accept"
        BY <1>9 DEF Request, ClientLeaves
  <2>4. HTTPTypeOK' /\ CleanReturn' /\ ChannelSound'
        BY <2>1, <2>2 DEF vars
  <2>5. \A p \in Calls : p # Stream
        BY StreamAssumption
  <2>6. \A p \in Calls : pc[p] # "idle" => requests'[p] # "none"
        BY <2>1, <2>5 DEF Clients
  <2>7. RunSound'
        BY <2>1, <2>2, <2>3, <2>6 DEF vars
  <2> QED BY <2>4, <2>7
<1>10. ASSUME NEW p \in Calls, RequestOver(p)
       PROVE  HTTPInv'
       BY <1>10 DEF RequestOver, SetRequest, vars, Clients
<1>11. CASE DatabaseNext
  <2>1. /\ UNCHANGED httpVars
        /\ pc'[Main] # pc[Main] => run = "returned" \/ pc[Main] # "idle"
        /\ \A p \in Calls : pc'[p] # "idle" => pc[p] # "idle" \/ requests[p] # "none"
        BY <1>11, DatabaseStep
  <2> QED BY <2>1 DEF httpVars
<1>12. CASE UNCHANGED allVars
       BY <1>12 DEF allVars, httpVars, vars
<1> QED BY <1>1, <1>2, <1>3, <1>4, <1>5, <1>6, <1>7, <1>8, <1>9, <1>10, <1>11, <1>12
        DEF HTTPNext, RunHTTPNext, ServeStep

(* The server's invariant and the manager's hold together.                 *)
LEMMA HTTPInvariant == HTTPSpec => [](HTTPInv /\ ManagerInv)
<1>1. HTTPInv /\ ManagerInv /\ [HTTPNext]_allVars => HTTPInv'
      BY HTTPNextInv
<1> QED BY <1>1, HTTPInitInv, HTTPManagerInvariant, PTL DEF HTTPSpec

(* A run that ends without an error ends on a signal with every request    *)
(* answered or abandoned, for any number of clients.                       *)
THEOREM HTTPCleanReturn == HTTPSpec => []CleanReturn
<1>1. HTTPInv => CleanReturn
      BY DEF HTTPInv
<1> QED BY <1>1, HTTPInvariant, PTL

(* Whoever waits for an answer keeps the pool it comes from until the end  *)
(* of the run, unless Shutdown gave up or the listener failed.             *)
THEOREM HTTPAnswersKeepTheirPool == HTTPSpec => []AnswersKeepTheirPool
<1>1. HTTPInv /\ ManagerInv => AnswersKeepTheirPool
  <2> SUFFICES ASSUME HTTPInv, ManagerInv, NEW p \in Calls, pc[p] = "using",
                      requests[p] = "open", ~ pools[db[p]].open
               PROVE  outcome \in {"listen", "shutdown"}
      BY DEF AnswersKeepTheirPool
  <2>1. pc[Main] # "idle"
        BY DEF ManagerInv, PoolInUseIsOpen
  <2>2. outcome # "none"
        BY <2>1 DEF HTTPInv, RunSound
  <2>3. p \in Clients /\ OpenRequests # {}
        BY DEF OpenRequests, Clients
  <2>4. outcome \notin {"nil", "config"}
        BY <2>3 DEF HTTPInv, CleanReturn, RunSound
  <2> QED BY <2>2, <2>4 DEF HTTPInv, HTTPTypeOK
<1> QED BY <1>1, HTTPInvariant, PTL

(* What CloseDB misses belongs to calls nobody waits for, unless the run   *)
(* ended in an error.                                                      *)
THEOREM HTTPLatePoolsAreUnanswered == HTTPSpec => LatePoolsAreUnanswered
<1>1. HTTPInv /\ ManagerInv =>
        \A p \in Calls : pc[Main] = "closed" /\ pc[p] = "publish" /\ pc'[p] = "using"
          => requests[p] = "left" \/ outcome \in {"listen", "shutdown"}
  <2> SUFFICES ASSUME HTTPInv, NEW p \in Calls, pc[Main] = "closed", pc[p] = "publish",
                      outcome \notin {"listen", "shutdown"}
               PROVE  requests[p] = "left"
      OBVIOUS
  <2>1. p \in Clients /\ requests[p] \in {"open", "left"}
        BY DEF HTTPInv, HTTPTypeOK, RunSound, Clients
  <2>2. outcome = "nil"
        BY <2>1 DEF HTTPInv, HTTPTypeOK, RunSound
  <2> QED BY <2>1, <2>2 DEF HTTPInv, CleanReturn, OpenRequests
<1> QED BY <1>1, HTTPInvariant, PTL DEF LatePoolsAreUnanswered

(* OnlyFailedConnectsLeak, OnePoolPerMode, PoolAsResolved and              *)
(* PoolInUseIsOpen hold of the server as they hold of the DBManager: the   *)
(* open pools nothing leads to are those of failed connects, to which the  *)
(* server adds none.                                                       *)
THEOREM HTTPKeepsPools ==
  HTTPSpec =>
    [](OnlyFailedConnectsLeak /\ OnePoolPerMode /\ PoolAsResolved /\ PoolInUseIsOpen)
BY HTTPImplementsManager, ManagerOnlyFailedConnectsLeak, ManagerOnePoolPerMode,
   ManagerPoolAsResolved, ManagerPoolInUseIsOpen, PTL

-----------------------------------------------------------------------------
(* The tool calls.                                                         *)

(* A call begins by asking the manager for its database; one that is no    *)
(* SELECT, and is not let through as a read, does so only where neither    *)
(* the preset nor the configuration is read-only.                          *)
LEMMA ToolCallStarts ==
  ASSUME NEW p \in Calls, NEW t \in DOMAIN Tools, NEW q \in Statements,
         NEW d \in ToolDSNs, NEW s \in ToolPresets, CallTool(p, t, q, d, s)
  PROVE  /\ GetDBWithPreset(p, d, s)
         /\ calls' = [calls EXCEPT ![p] =
                         [kind |-> Tools[t].kind, preset |-> s, type |-> q.type]]
         /\ Tools[t].kind \in Kinds
         /\ q.type # "SELECT" /\ Tools[t].kind # "read" =>
              ~ ReadOnlyPreset(s) /\ ~ ConfigParams.readOnly
BY ToolsAssumption
   DEF CallTool, handleQueryWithPreset, handleExecWithPreset, handleWriteQuery, Runs,
       Registered, Writes, Kinds

(* A tool call's steps on the manager are the manager's own.               *)
LEMMA ToolStepRefines == [ToolNext]_toolVars => [ManagerNext]_vars
<1> SUFFICES ASSUME [ToolNext]_toolVars
             PROVE  [ManagerNext]_vars
    OBVIOUS
<1>1. ASSUME NEW p \in Calls, NEW t \in DOMAIN Tools, NEW q \in Statements,
             NEW d \in ToolDSNs, NEW s \in ToolPresets, CallTool(p, t, q, d, s)
      PROVE  ManagerNext
      BY <1>1, ToolCallStarts DEF ManagerNext
<1>2. CASE \E p \in Calls : CallGoesOn(p)
      BY <1>2 DEF CallGoesOn, ManagerNext
<1>3. CASE (\E p \in Procs : LocksForCall(p)) \/ Closes
      BY <1>3 DEF LocksForCall, Closes, ManagerNext
<1>4. CASE UNCHANGED toolVars
      BY <1>4 DEF toolVars
<1> QED BY <1>1, <1>2, <1>3, <1>4 DEF ToolNext

(* The tools implement the DBManager's specification.                      *)
THEOREM ToolsImplementManager == ToolSpec => ManagerSpec
<1>1. ToolInit => ManagerInit
      BY DEF ToolInit
<1> QED BY <1>1, ToolStepRefines, PTL DEF ToolSpec, ManagerSpec

(* The timeout of a call is the first of the three that is given.          *)
LEMMA FirstOfThree ==
  ASSUME NEW a \in Int, NEW b \in Int
  PROVE  FirstPositive(<<a, b, 30>>) = IF a > 0 THEN a ELSE IF b > 0 THEN b ELSE 30
<1> DEFINE ts == <<a, b, 30>>
           P(i) == ts[i] > 0 /\ \A j \in 1 .. i - 1 : ts[j] <= 0
<1>1. DOMAIN ts = 1 .. 3 /\ ts[1] = a /\ ts[2] = b /\ ts[3] = 30
      OBVIOUS
<1> DEFINE n == IF a > 0 THEN 1 ELSE IF b > 0 THEN 2 ELSE 3
<1>2. n \in 1 .. 3 /\ P(n)
      BY <1>1
<1>3. ASSUME NEW i \in 1 .. 3, P(i)
      PROVE  i = n
      BY <1>1, <1>2, <1>3
<1>4. (CHOOSE i \in DOMAIN ts : P(i)) = n
  <2> HIDE DEF P, n
  <2> QED BY <1>1, <1>2, <1>3
<1>5. FirstPositive(ts) = ts[n]
      BY <1>4 DEF FirstPositive
<1> QED BY <1>1, <1>5

(* What holds of a call from its start on.                                 *)
CallSound(p) ==
  /\ calls[p].type # "SELECT" /\ calls[p].kind # "read" =>
       ~ params[p].readOnly /\ ~ ConfigParams.readOnly
  /\ LET preset == calls[p].preset
         own == IF preset = "" THEN 0 ELSE Presets[preset].queryTimeout
     IN QueryTimeout(params[p]) = FirstPositive(<<own, ConfigParams.queryTimeout, 30>>)

ToolInv ==
  /\ calls \in [Calls -> [kind : Kinds, preset : ToolPresets \cup {""},
                          type : {q.type : q \in Statements} \cup {"none"}]]
  /\ \A p \in Calls : pc[p] # "idle" => CallSound(p)

(* The arguments that pass the guards lead to parameters that are sound.   *)
LEMMA ResolvedSound ==
  ASSUME NEW d \in ToolDSNs, NEW s \in ToolPresets, Resolves(d, s)
  PROVE  LET ps == resolveConnectionParams(d, s)
             own == IF s = "" THEN 0 ELSE Presets[s].queryTimeout
         IN /\ ~ ReadOnlyPreset(s) /\ ~ ConfigParams.readOnly => ~ ps.readOnly
            /\ QueryTimeout(ps) = FirstPositive(<<own, ConfigParams.queryTimeout, 30>>)
<1> DEFINE ps == resolveConnectionParams(d, s)
           own == IF s = "" THEN 0 ELSE Presets[s].queryTimeout
<1>1. ConfigParams.queryTimeout \in Int /\ ConfigParams \in ConnectionParams
      BY ParamsAssumption DEF ConnectionParams
<1>2. CASE s = ""
  <2>1. /\ ps.readOnly = ConfigParams.readOnly
        /\ ps.queryTimeout = ConfigParams.queryTimeout
        BY <1>1, <1>2 DEF resolveConnectionParams, Arguments, ConnectionParams
  <2>2. QueryTimeout(ps) = IF ConfigParams.queryTimeout > 0
                             THEN ConfigParams.queryTimeout ELSE 30
        BY <1>1, <2>1 DEF QueryTimeout
  <2>3. FirstPositive(<<0, ConfigParams.queryTimeout, 30>>) =
          IF ConfigParams.queryTimeout > 0 THEN ConfigParams.queryTimeout ELSE 30
        BY <1>1, FirstOfThree
  <2>4. own = 0 /\ (~ ConfigParams.readOnly => ~ ps.readOnly)
        BY <1>2, <2>1
  <2> HIDE DEF ps, own
  <2>5. QueryTimeout(ps) = FirstPositive(<<own, ConfigParams.queryTimeout, 30>>)
        BY <2>2, <2>3, <2>4
  <2> QED BY <2>4, <2>5 DEF ps, own
<1>3. CASE s # ""
  <2>1. s \in DOMAIN Presets /\ Presets[s] \in ConnectionParams
        BY <1>3, ParamsAssumption DEF Resolves
  <2>2. Presets[s].queryTimeout \in Int
        BY <2>1 DEF ConnectionParams
  <2>3. /\ ps.readOnly = Presets[s].readOnly
        /\ ps.queryTimeout = IF Presets[s].queryTimeout <= 0
                               THEN ConfigParams.queryTimeout ELSE Presets[s].queryTimeout
        BY <1>3, <2>1 DEF resolveConnectionParams, Arguments, ConnectionParams
  <2>4. ~ ReadOnlyPreset(s) => ~ ps.readOnly
        BY <1>3, <2>1, <2>3 DEF ReadOnlyPreset
  <2>5. QueryTimeout(ps) = IF own > 0 THEN own
                             ELSE IF ConfigParams.queryTimeout > 0
                               THEN ConfigParams.queryTimeout ELSE 30
    <3>1. own = Presets[s].queryTimeout
          BY <1>3
    <3> HIDE DEF ps, own
    <3>2. CASE own > 0
          BY <1>1, <2>2, <2>3, <3>1, <3>2 DEF QueryTimeout
    <3>3. CASE own <= 0
          BY <1>1, <2>2, <2>3, <3>1, <3>3 DEF QueryTimeout
    <3> QED BY <2>2, <3>1, <3>2, <3>3
  <2>6. own \in Int /\ FirstPositive(<<own, ConfigParams.queryTimeout, 30>>) =
          IF own > 0 THEN own ELSE IF ConfigParams.queryTimeout > 0
                                     THEN ConfigParams.queryTimeout ELSE 30
        BY <1>1, <1>3, <2>2, FirstOfThree
  <2> HIDE DEF ps, own
  <2>7. QueryTimeout(ps) = FirstPositive(<<own, ConfigParams.queryTimeout, 30>>)
        BY <2>5, <2>6
  <2> QED BY <2>4, <2>7 DEF ps, own
<1> QED BY <1>2, <1>3

(* No call has begun.                                                      *)
LEMMA ToolInitInv == ToolInit => ToolInv
<1> SUFFICES ASSUME ToolInit
             PROVE  ToolInv
    OBVIOUS
<1>1. Calls \subseteq Procs
      BY ProcsAssumption
<1>2. \A p \in Calls : pc[p] = "idle"
      BY <1>1 DEF ToolInit, ManagerInit
<1>3. calls = [p \in Calls |-> [kind |-> "fixed", preset |-> "", type |-> "none"]]
      BY DEF ToolInit
<1>4. calls \in [Calls -> [kind : Kinds, preset : ToolPresets \cup {""},
                           type : {q.type : q \in Statements} \cup {"none"}]]
      BY <1>3 DEF Kinds
<1> QED BY <1>2, <1>4 DEF ToolInv

(* Every step of a call keeps what is known of it.                         *)
LEMMA ToolNextInv == ToolInv /\ ManagerInv /\ [ToolNext]_toolVars => ToolInv'
<1> SUFFICES ASSUME ToolInv, ManagerInv, [ToolNext]_toolVars
             PROVE  ToolInv'
    OBVIOUS
<1>a. /\ pc \in [Procs -> Labels] /\ Calls \subseteq Procs /\ Main \in Procs \ Calls
      /\ params \in [Calls -> ConnectionParams]
      BY ProcsAssumption DEF ManagerInv, ManagerTypeOK
<1>1. ASSUME NEW p \in Calls, NEW t \in DOMAIN Tools, NEW q \in Statements,
             NEW d \in ToolDSNs, NEW s \in ToolPresets, CallTool(p, t, q, d, s)
      PROVE  ToolInv'
  <2>1. /\ calls' = [calls EXCEPT ![p] = [kind |-> Tools[t].kind, preset |-> s,
                                          type |-> q.type]]
        /\ Tools[t].kind \in Kinds
        BY <1>1, ToolCallStarts
  <2>2. /\ Resolves(d, s) /\ params' = [params EXCEPT ![p] = resolveConnectionParams(d, s)]
        /\ pc' = [pc EXCEPT ![p] = "fast"]
        BY <1>1, ToolCallStarts DEF GetDBWithPreset, Goto
  <2>3. q.type # "SELECT" /\ Tools[t].kind # "read" =>
          ~ ReadOnlyPreset(s) /\ ~ ConfigParams.readOnly
        BY <1>1, ToolCallStarts
  <2>4. /\ calls'[p].preset = s /\ calls'[p].type = q.type
        /\ calls'[p].kind = Tools[t].kind
        /\ params'[p] = resolveConnectionParams(d, s)
        BY <1>a, <2>1, <2>2 DEF ToolInv
  <2>5. CallSound(p)'
        BY <2>2, <2>3, <2>4, ResolvedSound DEF CallSound
  <2>6. ASSUME NEW r \in Calls \ {p}, pc'[r] # "idle"
        PROVE  CallSound(r)'
    <3>1. pc[r] # "idle" /\ calls'[r] = calls[r] /\ params'[r] = params[r]
          BY <1>a, <2>1, <2>2, <2>6 DEF ToolInv
    <3> QED BY <3>1 DEF ToolInv, CallSound
  <2>7. calls' \in [Calls -> [kind : Kinds, preset : ToolPresets \cup {""},
                              type : {x.type : x \in Statements} \cup {"none"}]]
        BY <2>1 DEF ToolInv
  <2> QED BY <2>5, <2>6, <2>7 DEF ToolInv
<1>2. ASSUME UNCHANGED <<calls, params>>,
             \A p \in Calls : pc'[p] # "idle" => pc[p] # "idle"
      PROVE  ToolInv'
      BY <1>2 DEF ToolInv, CallSound
<1>3. ASSUME NEW p \in Calls, CallGoesOn(p)
      PROVE  ToolInv'
  <2>1. /\ UNCHANGED <<calls, params>> /\ pc[p] # "idle"
        /\ \A r \in Procs \ {p} : pc'[r] = pc[r]
        BY <1>3, <1>a
           DEF CallGoesOn, CallStep, FastPath, DoubleCheck, Connected, ConnectFails,
               SetReadOnly, SetReadOnlyFails, Publish, CallEnds, ReturnPool, ReturnError, Goto
  <2> QED BY <1>2, <1>a, <2>1
<1>4. ASSUME NEW p \in Procs, LocksForCall(p)
      PROVE  ToolInv'
      BY <1>2, <1>4 DEF LocksForCall, Lock, managerVars
<1>5. CASE Closes
  <2>1. /\ UNCHANGED <<calls, params>>
        /\ \A r \in Procs \ {Main} : pc'[r] = pc[r]
        BY <1>5, <1>a DEF Closes, CloseDB, Close, Goto
  <2> QED BY <1>2, <1>a, <2>1
<1>6. CASE UNCHANGED toolVars
      BY <1>2, <1>6 DEF toolVars, vars
<1> QED BY <1>1, <1>3, <1>4, <1>5, <1>6 DEF ToolNext

(* The calls' invariant and the manager's hold together.                   *)
LEMMA ToolInvariant == ToolSpec => [](ToolInv /\ ManagerInv)
<1>1. ToolInv /\ ManagerInv /\ [ToolNext]_toolVars => ToolInv'
      BY ToolNextInv
<1> QED BY <1>1, ToolInitInv, ToolsImplementManager, ManagerInvariant, PTL DEF ToolSpec

(* With the three guards together, no path leads from a tool that writes   *)
(* to a pool that is read-only or past a read-only configuration; nothing  *)
(* is assumed of what the read tools let through.                          *)
THEOREM ToolsWritesOnlyByReads == ToolSpec => []WritesOnlyByReads
<1>1. ToolInv /\ ManagerInv => WritesOnlyByReads
      BY DEF ToolInv, CallSound, ManagerInv, PoolAsResolved, WritesOnlyByReads
<1> QED BY <1>1, ToolInvariant, PTL

(* The two places that fall back to another timeout agree with the order   *)
(* of preset, configuration and default.                                   *)
THEOREM ToolsDeadlineAsConfigured == ToolSpec => []DeadlineAsConfigured
<1>1. ToolInv => DeadlineAsConfigured
      BY DEF ToolInv, CallSound, DeadlineAsConfigured
<1> QED BY <1>1, ToolInvariant, PTL

=============================================================================
