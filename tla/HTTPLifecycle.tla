--------------------------- MODULE HTTPLifecycle ---------------------------
(***************************************************************************)
(* A run of the HTTP server: RunHTTP of server/http.go, called by main,    *)
(* over the DBManager.  RunHTTP starts a goroutine that listens, and waits *)
(* for its error or for a signal; on a signal it shuts the server down,    *)
(* which waits ten seconds for the open requests.  When it has returned,   *)
(* main closes the pools and the process exits.  The tool calls run in     *)
(* goroutines of the MCP SDK: one goes on when its client hangs up, and it *)
(* may get its pool only then.                                             *)
(***************************************************************************)
EXTENDS DBManager

CONSTANT Stream     \* a client's request for a stream of events

ASSUME StreamAssumption == Stream \notin Calls

Clients == Calls \cup {Stream}

VARIABLES
  run,        \* where RunHTTP is, and then main
  outcome,    \* what RunHTTP returned, or "none"
  ctx,        \* of signal.NotifyContext: "live", "signal", or "stopped"
  serve,      \* where the goroutine that listens is
  errCh,      \* its channel, of capacity one: [buffered, closed]
  requests    \* client -> "none", "open", or "left": its call may go on

httpVars == <<run, outcome, ctx, serve, errCh, requests>>

allVars == <<vars, httpVars>>

-----------------------------------------------------------------------------
HTTPInit ==
  /\ ManagerInit
  /\ run = "starting"
  /\ outcome = "none"
  /\ ctx = "live"
  /\ serve = "none"
  /\ errCh = [buffered |-> FALSE, closed |-> FALSE]
  /\ requests = [c \in Clients |-> "none"]

Alive == run \notin {"exited", "killed"}

ShuttingDown == run = "stopping" \/ outcome \in {"nil", "shutdown"}

OpenRequests == {c \in Clients : requests[c] = "open"}

(* RunHTTP returns; its deferred stop() gives up the signals.              *)
Returns(result) ==
  /\ run' = "returned"
  /\ outcome' = result
  /\ ctx' = IF ctx = "live" THEN "stopped" ELSE ctx
  /\ UNCHANGED <<vars, serve, requests>>

(* The OAuth settings or an origin are invalid.                            *)
StartFails ==
  /\ run = "starting"
  /\ Returns("config")
  /\ UNCHANGED errCh

Starts ==
  /\ run = "starting"
  /\ run' = "serving"
  /\ serve' = "bind"
  /\ UNCHANGED <<vars, outcome, ctx, errCh, requests>>

(* SIGINT or SIGTERM: a further one changes nothing while RunHTTP has them *)
(* caught; before and after that a signal ends the process.                *)
Signal ==
  /\ run \in {"serving", "stopping"}
  /\ ctx = "live"
  /\ ctx' = "signal"
  /\ UNCHANGED <<vars, run, outcome, serve, errCh, requests>>

Killed ==
  /\ run \in {"starting", "returned"}
  /\ run' = "killed"
  /\ UNCHANGED <<vars, outcome, ctx, serve, errCh, requests>>

(* The two branches of the select; with both ready, either is taken.       *)
ReceiveError ==
  /\ run = "serving"
  /\ errCh.buffered \/ errCh.closed
  /\ errCh' = [errCh EXCEPT !.buffered = FALSE]
  /\ Returns(IF errCh.buffered THEN "listen" ELSE "nil")

ReceiveDone ==
  /\ run = "serving"
  /\ ctx = "signal"
  /\ run' = "stopping"
  /\ UNCHANGED <<vars, outcome, ctx, serve, errCh, requests>>

(* Mutant: the server is closed, not shut down.                            *)
CloseServer ==
  /\ run = "stopping"
  /\ Returns("nil")
  /\ UNCHANGED errCh

ShutdownDone ==
  /\ run = "stopping"
  /\ OpenRequests = {}
  /\ Returns("nil")
  /\ UNCHANGED errCh

(* Mutant: Shutdown is given a context without a deadline.                 *)
NoDeadline == FALSE /\ UNCHANGED allVars

ShutdownTimesOut ==
  /\ run = "stopping"
  /\ Returns("shutdown")
  /\ UNCHANGED errCh

(* The deferred CloseDB; its steps are DBManager's.                        *)
MainCloses ==
  /\ run = "returned"
  /\ CloseDB
  /\ UNCHANGED httpVars

Exit ==
  /\ run = "returned"
  /\ pc[Main] = "closed"
  /\ run' = "exited"
  /\ UNCHANGED <<vars, outcome, ctx, serve, errCh, requests>>

-----------------------------------------------------------------------------
(* ListenAndServe (external): it listens until an error or Shutdown.       *)
Listening ==
  /\ Alive
  /\ serve = "bind" /\ ~ ShuttingDown
  /\ serve' = "accept"
  /\ UNCHANGED <<vars, run, outcome, ctx, errCh, requests>>

ListenFails ==
  /\ Alive
  /\ serve \in {"bind", "accept"} /\ ~ ShuttingDown
  /\ serve' = "send"
  /\ UNCHANGED <<vars, run, outcome, ctx, errCh, requests>>

(* Mutant: any error is taken for ErrServerClosed.                         *)
ServeErrorDropped ==
  /\ Alive
  /\ serve = "send" \/ (serve \in {"bind", "accept"} /\ ShuttingDown)
  /\ serve' = "close"
  /\ UNCHANGED <<vars, run, outcome, ctx, errCh, requests>>

(* ErrServerClosed is not sent.                                            *)
ServerClosed ==
  /\ Alive
  /\ serve \in {"bind", "accept"} /\ ShuttingDown
  /\ serve' = "close"
  /\ UNCHANGED <<vars, run, outcome, ctx, errCh, requests>>

(* The buffer of one takes the error even when nobody receives any more.   *)
SendError ==
  /\ Alive
  /\ serve = "send" /\ ~ errCh.buffered
  /\ errCh' = [errCh EXCEPT !.buffered = TRUE]
  /\ serve' = "close"
  /\ UNCHANGED <<vars, run, outcome, ctx, requests>>

CloseErrCh ==
  /\ Alive
  /\ serve = "close"
  /\ errCh' = [errCh EXCEPT !.closed = TRUE]
  /\ serve' = "ended"
  /\ UNCHANGED <<vars, run, outcome, ctx, requests>>

ServeStep == Listening \/ ServerClosed \/ SendError \/ CloseErrCh

-----------------------------------------------------------------------------
(* The connections that net/http (external) serves: Shutdown closes the    *)
(* listener and waits for those already accepted.                          *)
SetRequest(c, state) == requests' = [requests EXCEPT ![c] = state]

Request(c) ==
  /\ Alive
  /\ serve = "accept" /\ ~ ShuttingDown
  /\ requests[c] = "none"
  /\ SetRequest(c, "open")
  /\ UNCHANGED <<vars, run, outcome, ctx, serve, errCh>>

(* A client hangs up; the SDK (external) does not cancel its call.         *)
ClientLeaves(c) ==
  /\ Alive
  /\ requests[c] = "open"
  /\ SetRequest(c, IF c = Stream THEN "none" ELSE "left")
  /\ UNCHANGED <<vars, run, outcome, ctx, serve, errCh>>

(* The request is answered, or what was left of it is over.                *)
RequestOver(p) ==
  /\ Alive
  /\ requests[p] # "none" /\ pc[p] = "idle"
  /\ SetRequest(p, "none")
  /\ UNCHANGED <<vars, run, outcome, ctx, serve, errCh>>

(* A POST carries a call, or several.                                      *)
StartCall(p, toolDSN, toolPreset) ==
  /\ Alive
  /\ requests[p] # "none"
  /\ GetDBWithPreset(p, toolDSN, toolPreset)
  /\ UNCHANGED httpVars

(* Mutant: the handler closes the pool it was given.                       *)
EndCallClosing(p) == Alive /\ CallEndsClosing(p) /\ UNCHANGED httpVars

EndCall(p) == Alive /\ CallEnds(p) /\ UNCHANGED httpVars

CallRuns(p) == Alive /\ CallStep(p) /\ UNCHANGED httpVars

GetsLock(p) == Alive /\ Lock(p) /\ UNCHANGED httpVars

MainRuns == Alive /\ Close /\ UNCHANGED httpVars

-----------------------------------------------------------------------------
RunHTTPNext ==
  \/ StartFails \/ Starts \/ Signal \/ Killed
  \/ ReceiveError \/ ReceiveDone
  \/ ShutdownDone \/ ShutdownTimesOut
  \/ Exit
  \/ ListenFails \/ ServeStep
  \/ \E c \in Clients : Request(c) \/ ClientLeaves(c)
  \/ \E p \in Calls : RequestOver(p)

DatabaseNext ==
  \/ \E p \in Calls, d \in ToolDSNs, s \in ToolPresets : StartCall(p, d, s)
  \/ \E p \in Calls : CallRuns(p) \/ EndCall(p)
  \/ \E p \in Procs : GetsLock(p)
  \/ MainCloses \/ MainRuns

HTTPNext == RunHTTPNext \/ DatabaseNext

HTTPSpec == HTTPInit /\ [][HTTPNext]_allVars

(* Goroutines are scheduled, Shutdown's deadline passes, and what          *)
(* DBManager assumes of the lock and of connection attempts.  Clients,     *)
(* signals and failures owe nothing, and a call that uses its pool may do  *)
(* so for ever.                                                            *)
FairHTTPSpec ==
  /\ HTTPSpec
  /\ WF_allVars(ReceiveError \/ ReceiveDone)
  /\ WF_allVars(ShutdownTimesOut)
  /\ WF_allVars(ServeStep)
  /\ WF_allVars(MainCloses \/ Exit)
  /\ WF_allVars(MainRuns) /\ SF_allVars(GetsLock(Main))
  /\ \A p \in Calls : WF_allVars(CallRuns(p)) /\ SF_allVars(GetsLock(p))

-----------------------------------------------------------------------------
HTTPTypeOK ==
  /\ run \in {"starting", "serving", "stopping", "returned", "exited", "killed"}
  /\ outcome \in {"none", "nil", "config", "listen", "shutdown"}
  /\ ctx \in {"live", "signal", "stopped"}
  /\ serve \in {"none", "bind", "accept", "send", "close", "ended"}
  /\ errCh \in [buffered : BOOLEAN, closed : BOOLEAN]
  /\ requests \in [Clients -> {"none", "open", "left"}]

(* RunHTTP returns no error only on a signal, and then no request is open, *)
(* nor will be: nobody who still waits for an answer is cut off.           *)
CleanReturn == outcome = "nil" => ctx = "signal" /\ OpenRequests = {}

(* CloseDB closes no pool under a call whose client still waits, unless    *)
(* RunHTTP returned an error: it does not wait for the calls, but Shutdown *)
(* has waited for the requests.                                            *)
AnswersKeepTheirPool ==
  \A p \in Calls :
    pc[p] = "using" /\ requests[p] = "open" /\ ~ pools[db[p]].open
    => outcome \in {"listen", "shutdown"}

(* A pool is stored after CloseDB has returned, to be closed by nobody,    *)
(* only for a call whose client has left or when RunHTTP returned an error.*)
LatePoolsAreUnanswered ==
  [][\A p \in Calls :
       pc[Main] = "closed" /\ pc[p] = "publish" /\ pc'[p] = "using"
       => requests[p] = "left" \/ outcome \in {"listen", "shutdown"}]_allVars

(* What the goroutine has sent, by where it is; before Shutdown it sends   *)
(* its error before it closes the channel.                                 *)
ChannelSound ==
  /\ errCh.closed => serve = "ended"
  /\ errCh.buffered => serve \in {"close", "ended"}
  /\ run = "serving" /\ serve \in {"close", "ended"} => errCh.buffered

(* RunHTTP has returned when main closes; calls come from requests, and    *)
(* requests from a listener.                                               *)
RunSound ==
  /\ run \in {"starting", "serving", "stopping"} => outcome = "none" /\ pc[Main] = "idle"
  /\ run \in {"returned", "exited"} => outcome # "none"
  /\ outcome = "none" => pc[Main] = "idle"
  /\ run = "stopping" => ctx = "signal"
  /\ run = "starting" \/ outcome = "config" => serve = "none"
  /\ serve \in {"none", "bind"} => \A c \in Clients : requests[c] = "none"
  /\ \A p \in Calls : pc[p] # "idle" => requests[p] # "none"

(* With ManagerInv, inductive.                                             *)
HTTPInv == HTTPTypeOK /\ CleanReturn /\ ChannelSound /\ RunSound

(* The process ends after a signal that RunHTTP caught or after a failure  *)
(* to listen: whatever clients hold open, and although CloseDB has to wait *)
(* for a call that connects.                                               *)
ProcessEnds == ctx = "signal" \/ serve = "send" ~> ~ Alive

=============================================================================
