----------------------------- MODULE DBManager -----------------------------
(***************************************************************************)
(* The DBManager of server/server.go: connection pools, cached by DSN and  *)
(* read-only mode, behind an RWMutex.  A tool call that misses the cache   *)
(* takes the write lock, looks again, and connects to the database with    *)
(* the lock held.  CloseDB runs when main returns; calls may still be      *)
(* running then, since the HTTP server's Shutdown gives up after a while   *)
(* and the stdio server does not wait for them.                            *)
(***************************************************************************)
EXTENDS Integers, RWMutex, GoMap

CONSTANTS
  Calls,         \* the goroutines that serve tool calls
  Main,          \* the goroutine of main
  PoolIds,       \* identities of *sqlx.DB values
  NoPool,        \* nil
  DSNs,          \* connection strings, as written or converted
  ToolDSNs,      \* the dsn arguments of tool calls, "" for none
  NativeDSN,     \* a DSN as written -> what it converts to; the others do not parse
  ToolPresets,   \* the preset arguments of tool calls, "" for none
  Presets,       \* cfg.Presets: name -> [dsn, readOnly, queryTimeout]
  ConfigParams   \* [dsn, readOnly, queryTimeout] of cfg.PostgreSQL

ASSUME ProcsAssumption == Procs = Calls \cup {Main} /\ Main \notin Calls

ASSUME NoPoolAssumption == NoPool \notin PoolIds

ConnectionParams == [dsn : DSNs, readOnly : BOOLEAN, queryTimeout : Int]

ASSUME ParamsAssumption ==
  /\ ToolDSNs \subseteq DSNs
  /\ NativeDSN \in [DOMAIN NativeDSN -> DSNs]
  /\ Presets \in [DOMAIN Presets -> ConnectionParams]
  /\ ConfigParams \in ConnectionParams

VARIABLES
  pc,            \* where each goroutine is
  params,        \* the connectionParams of its call
  db,            \* the pool it works on or was given, or NoPool
  connections,   \* m.connections: cache key -> pool
  pools          \* pool -> [dsn, readOnly, open, connected]: what became of it

managerVars == <<pc, params, db, connections, pools>>

vars == <<readers, blocked, writer, pc, params, db, connections, pools>>

-----------------------------------------------------------------------------
(* The arguments' DSN as written, mode and timeout.                        *)
Arguments(toolDSN, toolPreset) ==
  IF toolPreset # ""
    THEN [Presets[toolPreset] EXCEPT !.queryTimeout =
            IF @ <= 0 THEN ConfigParams.queryTimeout ELSE @]
    ELSE [ConfigParams EXCEPT !.dsn = IF toolDSN = "" THEN @ ELSE toolDSN]

(* resolveConnectionParams returns no error.                               *)
Resolves(toolDSN, toolPreset) ==
  /\ toolDSN = "" \/ toolPreset = ""
  /\ toolPreset = "" \/ toolPreset \in DOMAIN Presets
  /\ Arguments(toolDSN, toolPreset).dsn \in DOMAIN NativeDSN

resolveConnectionParams(toolDSN, toolPreset) ==
  [Arguments(toolDSN, toolPreset) EXCEPT !.dsn = NativeDSN[@]]

(* Mutant: the cache is keyed by the DSN alone.                            *)
CacheKeyDSN(ps) == [dsn |-> ps.dsn]

(* queryTimeout is left out: it is applied to each query.                  *)
CacheKey(ps) == [dsn |-> ps.dsn, readOnly |-> ps.readOnly]

Cached(p) == CacheKey(params[p]) \in DOMAIN connections

(* A pool nobody can reach any more lends its identity to a new one: a     *)
(* bound.                                                                  *)
FreePools ==
  {i \in PoolIds : /\ \A k \in DOMAIN connections : connections[k] # i
                   /\ \A p \in Procs : db[p] # i}

NewPool(p, i, connected) ==
  /\ i \in FreePools
  /\ pools' = Put(pools, i, [dsn |-> params[p].dsn, readOnly |-> FALSE,
                            open |-> TRUE, connected |-> connected])

Goto(p, label) == pc' = [pc EXCEPT ![p] = label]

ReturnPool(p, pool) ==
  /\ db' = [db EXCEPT ![p] = pool]
  /\ Goto(p, "using")

ReturnError(p) ==
  /\ db' = [db EXCEPT ![p] = NoPool]
  /\ Goto(p, "idle")

-----------------------------------------------------------------------------
ManagerInit ==
  /\ LockInit
  /\ pc = [p \in Procs |-> "idle"]
  /\ params = [p \in Calls |-> ConfigParams]
  /\ db = [p \in Procs |-> NoPool]
  /\ connections = EmptyMap
  /\ pools = EmptyMap

GetDBWithPreset(p, toolDSN, toolPreset) ==
  /\ pc[p] = "idle"
  /\ Resolves(toolDSN, toolPreset)
  /\ params' = [params EXCEPT ![p] = resolveConnectionParams(toolDSN, toolPreset)]
  /\ RLock(p)
  /\ Goto(p, "fast")
  /\ UNCHANGED <<db, connections, pools>>

FastPath(p) ==
  /\ pc[p] = "fast"
  /\ p \in readers
  /\ RUnlock(p)
  /\ \/ Cached(p) /\ ReturnPool(p, connections[CacheKey(params[p])])
     \/ ~ Cached(p) /\ Goto(p, "lock") /\ UNCHANGED db
  /\ UNCHANGED <<params, connections, pools>>

Lock(p) ==
  /\ pc[p] = "lock"
  /\ AnnounceLock(p)
  /\ UNCHANGED managerVars

(* Mutant: the cache is not looked at again once the lock is held.         *)
NoDoubleCheck(p) ==
  /\ pc[p] = "lock"
  /\ HoldsLock(p)
  /\ Goto(p, "connect")
  /\ UNCHANGED <<lockVars, params, db, connections, pools>>

DoubleCheck(p) ==
  /\ pc[p] = "lock"
  /\ HoldsLock(p)
  /\ \/ /\ Cached(p)
        /\ ReturnPool(p, connections[CacheKey(params[p])])
        /\ Unlock(p)
     \/ /\ ~ Cached(p)
        /\ Goto(p, "connect")
        /\ UNCHANGED <<lockVars, db>>
  /\ UNCHANGED <<params, connections, pools>>

(* createConnectionWithReadOnly: ConnectContext, then the SET that makes   *)
(* the session read-only, if it is to be.  Both wait for the database.     *)
Connected(p, i) ==
  /\ pc[p] = "connect"
  /\ NewPool(p, i, TRUE)
  /\ db' = [db EXCEPT ![p] = i]
  /\ Goto(p, IF params[p].readOnly THEN "setReadOnly" ELSE "publish")
  /\ UNCHANGED <<lockVars, params, connections>>

(* Mutant: the error is noticed only by the caller.                        *)
ConnectFailsCached(p, i) ==
  /\ pc[p] = "connect"
  /\ connections' = Put(connections, CacheKey(params[p]), NoPool)
  /\ ReturnError(p)
  /\ Unlock(p)
  /\ UNCHANGED <<params, pools>>

(* Mutant: this error path lacks the deferred Unlock.                      *)
ConnectFailsLocked(p, i) ==
  /\ pc[p] = "connect"
  /\ NewPool(p, i, FALSE)
  /\ ReturnError(p)
  /\ UNCHANGED <<lockVars, params, connections>>

(* sqlx's ConnectContext opens a pool and pings the database; when the ping*)
(* fails it returns the error and the open pool, which is dropped here.    *)
ConnectFails(p, i) ==
  /\ pc[p] = "connect"
  /\ NewPool(p, i, FALSE)
  /\ ReturnError(p)
  /\ Unlock(p)
  /\ UNCHANGED <<params, connections>>

SetReadOnly(p) ==
  /\ pc[p] = "setReadOnly"
  /\ pools' = [pools EXCEPT ![db[p]].readOnly = TRUE]
  /\ Goto(p, "publish")
  /\ UNCHANGED <<lockVars, params, db, connections>>

(* Mutant: the pool is dropped without being closed.                       *)
SetReadOnlyFailsOpen(p) ==
  /\ pc[p] = "setReadOnly"
  /\ ReturnError(p)
  /\ Unlock(p)
  /\ UNCHANGED <<params, connections, pools>>

SetReadOnlyFails(p) ==
  /\ pc[p] = "setReadOnly"
  /\ pools' = [pools EXCEPT ![db[p]].open = FALSE]
  /\ ReturnError(p)
  /\ Unlock(p)
  /\ UNCHANGED <<params, connections>>

Publish(p) ==
  /\ pc[p] = "publish"
  /\ connections' = Put(connections, CacheKey(params[p]), db[p])
  /\ ReturnPool(p, db[p])
  /\ Unlock(p)
  /\ UNCHANGED <<params, pools>>

(* Mutant: the handler closes the pool it was given.                       *)
CallEndsClosing(p) ==
  /\ pc[p] = "using"
  /\ pools' = [pools EXCEPT ![db[p]].open = FALSE]
  /\ ReturnError(p)
  /\ UNCHANGED <<lockVars, params, connections>>

(* The tool call is over.                                                  *)
CallEnds(p) ==
  /\ pc[p] = "using"
  /\ ReturnError(p)
  /\ UNCHANGED <<lockVars, params, connections, pools>>

(* CloseDB, deferred by main.                                              *)
CloseDB ==
  /\ pc[Main] = "idle"
  /\ Goto(Main, "lock")
  /\ UNCHANGED <<lockVars, params, db, connections, pools>>

(* Close holds the lock from end to end and so is one step: its loop meets *)
(* every key once.  A pool leaves the map whether or not closing it reports*)
(* an error.                                                               *)
Close ==
  /\ pc[Main] = "lock"
  /\ HoldsLock(Main)
  /\ pools' = [i \in DOMAIN pools |-> [pools[i] EXCEPT
       !.open = @ /\ \A k \in DOMAIN connections : connections[k] # i]]
  /\ connections' = EmptyMap
  /\ Goto(Main, "closed")
  /\ Unlock(Main)
  /\ UNCHANGED <<params, db>>

CallStep(p) ==
  \/ FastPath(p)
  \/ DoubleCheck(p)
  \/ \E i \in PoolIds : Connected(p, i) \/ ConnectFails(p, i)
  \/ SetReadOnly(p)
  \/ SetReadOnlyFails(p)
  \/ Publish(p)

ManagerNext ==
  \/ \E p \in Calls, d \in ToolDSNs, s \in ToolPresets : GetDBWithPreset(p, d, s)
  \/ \E p \in Calls : CallStep(p) \/ CallEnds(p)
  \/ \E p \in Procs : Lock(p)
  \/ CloseDB \/ Close

ManagerSpec == ManagerInit /\ [][ManagerNext]_vars

(* Goroutines are scheduled, the database or the call's context ends every *)
(* connection attempt, and a goroutine is not passed over for ever at the  *)
(* lock (sync.Mutex hands over in order once a waiter is starving).  No    *)
(* fairness on new calls, on their ends, or on the end of main.            *)
FairManagerSpec ==
  /\ ManagerSpec
  /\ \A p \in Calls : WF_vars(CallStep(p)) /\ SF_vars(Lock(p))
  /\ WF_vars(Close) /\ SF_vars(Lock(Main))

-----------------------------------------------------------------------------
Labels ==
  {"idle", "fast", "lock", "connect", "setReadOnly", "publish", "using", "closed"}

PoolStates == [dsn : DSNs, readOnly : BOOLEAN, open : BOOLEAN, connected : BOOLEAN]

ManagerTypeOK ==
  /\ LockTypeOK
  /\ pc \in [Procs -> Labels]
  /\ params \in [Calls -> ConnectionParams]
  /\ db \in [Procs -> DOMAIN pools \cup {NoPool}]
  /\ \A k \in DOMAIN connections : connections[k] \in DOMAIN pools
  /\ IsMap(pools, PoolIds, PoolStates)

(* The pool p is setting up, lock in hand.                                 *)
SettingUp(p) == pc[p] \in {"setReadOnly", "publish"}

(* The pool is in the map, where a CloseDB to come will find it, or the    *)
(* call that connected it is about to put it there.                        *)
Reachable(i) ==
  \/ \E k \in DOMAIN connections : connections[k] = i
  \/ \E p \in Calls : SettingUp(p) /\ db[p] = i

(* The pools that are left open and out of CloseDB's reach are those whose *)
(* connect failed (server.go:268 drops them without closing them), and no  *)
(* others: not the pool of a SET that fails, and none of the pools of calls*)
(* that miss the cache together.  They are given to no call and to no key. *)
OnlyFailedConnectsLeak ==
  \A i \in DOMAIN pools : pools[i].open => (Reachable(i) <=> pools[i].connected)

(* Calls that race to connect to one database in one mode end up sharing a *)
(* single pool: at no time are there two, so the limit of ten connections  *)
(* that each pool is given holds for the database.                         *)
OnePoolPerMode ==
  \A i, j \in DOMAIN pools :
    /\ pools[i].open /\ pools[i].connected
    /\ pools[j].open /\ pools[j].connected
    /\ pools[i].dsn = pools[j].dsn
    /\ pools[i].readOnly = pools[j].readOnly
    /\ \A p \in Calls : pc[p] = "setReadOnly" => db[p] \notin {i, j}
    => i = j

(* A call gets a pool of the database and the mode its arguments resolve   *)
(* to, whoever connected it and with which preset.                         *)
PoolAsResolved ==
  \A p \in Calls : pc[p] = "using" =>
    /\ pools[db[p]].dsn = params[p].dsn
    /\ pools[db[p]].readOnly = params[p].readOnly

(* Nobody closes a pool a call is using, except CloseDB.                   *)
PoolInUseIsOpen ==
  \A p \in Calls : pc[p] = "using" /\ pc[Main] = "idle" => pools[db[p]].open

(* Who has the lock, and who waits for it.                                 *)
LockDiscipline ==
  /\ \A p \in readers \cup blocked : p \in Calls /\ pc[p] = "fast"
  /\ readers \cap blocked = {}
  /\ \A p \in Calls : pc[p] \in {"connect", "setReadOnly", "publish"} =>
       HoldsLock(p) /\ ~ Cached(p)
  /\ writer # NoProc => pc[writer] \in {"lock", "connect", "setReadOnly", "publish"}
  /\ pc[Main] \in {"idle", "lock", "closed"}

(* What is in the map is open and is what its key says; the pool that is   *)
(* being set up is not in it yet.                                          *)
MapSound ==
  /\ \A k \in DOMAIN connections :
       /\ pools[connections[k]].open /\ pools[connections[k]].connected
       /\ k = [dsn |-> pools[connections[k]].dsn,
               readOnly |-> pools[connections[k]].readOnly]
  /\ \A p \in Calls : SettingUp(p) =>
       /\ db[p] \in DOMAIN pools
       /\ pools[db[p]].open /\ pools[db[p]].connected
       /\ pools[db[p]].dsn = params[p].dsn
       /\ pc[p] = "setReadOnly" => params[p].readOnly /\ ~ pools[db[p]].readOnly
       /\ pc[p] = "publish" => pools[db[p]].readOnly = params[p].readOnly
       /\ \A k \in DOMAIN connections : connections[k] # db[p]
       /\ \A q \in Procs \ {p} : db[q] # db[p]
  /\ \A p \in Procs : pc[p] = "using" => p \in Calls /\ db[p] \in DOMAIN pools

ConnectedReachable ==
  \A i \in DOMAIN pools : pools[i].open /\ pools[i].connected => Reachable(i)

(* The inductive invariant.                                                *)
ManagerInv ==
  /\ ManagerTypeOK /\ LockDiscipline /\ MapSound
  /\ ConnectedReachable /\ PoolAsResolved /\ PoolInUseIsOpen

(* Every call gets its pool or an error, although it may have to wait for  *)
(* another call's connection attempt.                                      *)
CallsReturn ==
  \A p \in Calls : pc[p] \notin {"idle", "using"} ~> pc[p] \in {"idle", "using"}

(* CloseDB gets the lock, whatever calls hold it or wait for it, and ends.  *)
CloseDBReturns == pc[Main] = "lock" ~> pc[Main] = "closed"

=============================================================================
