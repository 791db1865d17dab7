----------------------------- MODULE ToolCalls -----------------------------
(***************************************************************************)
(* The tools of server/tools.go on the DBManager: which are registered,    *)
(* which statements their handlers let through, with which preset, on      *)
(* which path, and how long the statement may run.  Writes are kept from   *)
(* read-only databases in three places: at the registration, in            *)
(* handleWriteQuery, and in handleExecWithPreset.                          *)
(***************************************************************************)
EXTENDS DBManager

CONSTANTS
  Tools,        \* name -> [kind, expects]: the types its validator lets through
  Statements    \* [type, returning]: what a tool may be given to execute

Kinds == {"fixed", "read", "write", "exec"}

ASSUME ToolsAssumption ==
  /\ \A t \in DOMAIN Tools : Tools[t].kind \in Kinds
  /\ \A t \in DOMAIN Tools :
       Tools[t].kind = "fixed" => Tools[t].expects = {"SELECT"}
  /\ \A q \in Statements : q.returning \in BOOLEAN

VARIABLES
  calls     \* p -> [kind, preset, type] of the call it serves, or served last

toolVars == <<vars, calls>>

Writes(t) == Tools[t].kind \in {"write", "exec"}

(* RegisterAllTools.                                                       *)
Registered == {t \in DOMAIN Tools : Writes(t) => ~ ConfigParams.readOnly}

(* The guard of handleWriteQuery and of handleExecWithPreset.              *)
ReadOnlyPreset(preset) ==
  preset # "" /\ preset \in DOMAIN Presets /\ Presets[preset].readOnly

(* Reference: the first of the timeouts that is one.                       *)
FirstPositive(timeouts) ==
  LET i == CHOOSE i \in DOMAIN timeouts :
             timeouts[i] > 0 /\ \A j \in 1 .. i - 1 : timeouts[j] <= 0
  IN timeouts[i]

(* Mutant: the last resort is forgotten.                                   *)
NoDefaultTimeout(ps) ==
  IF ps.queryTimeout <= 0 THEN ConfigParams.queryTimeout ELSE ps.queryTimeout

(* contextWithTimeoutFromParams.                                           *)
QueryTimeout(ps) ==
  LET timeout == IF ps.queryTimeout <= 0 THEN ConfigParams.queryTimeout ELSE ps.queryTimeout
  IN IF timeout <= 0 THEN 30 ELSE timeout

-----------------------------------------------------------------------------
ToolInit ==
  /\ ManagerInit
  /\ calls = [p \in Calls |-> [kind |-> "fixed", preset |-> "", type |-> "none"]]

Runs(p, t, q, toolDSN, toolPreset) ==
  /\ GetDBWithPreset(p, toolDSN, toolPreset)
  /\ calls' = [calls EXCEPT ![p] = [kind |-> Tools[t].kind, preset |-> toolPreset,
                                    type |-> q.type]]

handleQueryWithPreset(p, t, q, toolDSN, toolPreset) ==
  Runs(p, t, q, toolDSN, toolPreset)

handleExecWithPreset(p, t, q, toolDSN, toolPreset) ==
  /\ ~ ReadOnlyPreset(toolPreset)
  /\ Runs(p, t, q, toolDSN, toolPreset)

(* Mutant: the guard is left to handleExecWithPreset.                      *)
writeWithoutGuard(p, t, q, toolDSN, toolPreset) ==
  IF q.returning
    THEN handleQueryWithPreset(p, t, q, toolDSN, toolPreset)
    ELSE handleExecWithPreset(p, t, q, toolDSN, toolPreset)

handleWriteQuery(p, t, q, toolDSN, toolPreset) ==
  /\ ~ ReadOnlyPreset(toolPreset)
  /\ IF q.returning
       THEN handleQueryWithPreset(p, t, q, toolDSN, toolPreset)
       ELSE handleExecWithPreset(p, t, q, toolDSN, toolPreset)

(* A call that is refused changes nothing: it is refused before the        *)
(* database is looked for.                                                 *)
CallTool(p, t, q, toolDSN, toolPreset) ==
  /\ t \in Registered
  /\ Tools[t].kind # "exec" => q.type \in Tools[t].expects
  /\ \/ /\ Tools[t].kind \in {"fixed", "read"}
        /\ handleQueryWithPreset(p, t, q, toolDSN, toolPreset)
     \/ /\ Tools[t].kind = "write"
        /\ handleWriteQuery(p, t, q, toolDSN, toolPreset)
     \/ /\ Tools[t].kind = "exec"
        /\ handleExecWithPreset(p, t, q, toolDSN, toolPreset)

CallGoesOn(p) == (CallStep(p) \/ CallEnds(p)) /\ UNCHANGED calls

LocksForCall(p) == Lock(p) /\ UNCHANGED calls

Closes == (CloseDB \/ Close) /\ UNCHANGED calls

ToolNext ==
  \/ \E p \in Calls, t \in DOMAIN Tools, q \in Statements, d \in ToolDSNs, s \in ToolPresets :
       CallTool(p, t, q, d, s)
  \/ \E p \in Calls : CallGoesOn(p)
  \/ \E p \in Procs : LocksForCall(p)
  \/ Closes

ToolSpec == ToolInit /\ [][ToolNext]_toolVars

-----------------------------------------------------------------------------
(* A statement that is no SELECT runs on a read-only pool, or on a server  *)
(* that is read-only, only if a read tool let it through (its validator    *)
(* does so with some: see SQLValidators).  The tools that write never get  *)
(* there, whatever preset, DSN and path they take, and whoever connected   *)
(* the pool, with which preset.                                            *)
WritesOnlyByReads ==
  \A p \in Calls :
    /\ pc[p] = "using" /\ calls[p].type # "SELECT"
    /\ pools[db[p]].readOnly \/ ConfigParams.readOnly
    => calls[p].kind = "read"

(* Every statement has a deadline: the preset's, or else the configured    *)
(* one, or else thirty seconds, although pools are shared between presets. *)
DeadlineAsConfigured ==
  \A p \in Calls : pc[p] = "using" =>
    LET preset == calls[p].preset
        own == IF preset = "" THEN 0 ELSE Presets[preset].queryTimeout
    IN QueryTimeout(params[p]) = FirstPositive(<<own, ConfigParams.queryTimeout, 30>>)

=============================================================================
