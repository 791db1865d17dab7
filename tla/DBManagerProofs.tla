-------------------------- MODULE DBManagerProofs --------------------------
(* No pool that has connected is lost, duplicated, mixed up or closed under*)
(* a call: for any number of calls, presets, DSNs and databases, whatever  *)
(* errors occur.                                                           *)
EXTENDS DBManager, TLAPS

(* What arguments resolve to is well-formed.                               *)
LEMMA ResolvedParams ==
  ASSUME NEW d \in ToolDSNs, NEW s \in ToolPresets, Resolves(d, s)
  PROVE  resolveConnectionParams(d, s) \in ConnectionParams
<1>1. Arguments(d, s) \in ConnectionParams
      BY ParamsAssumption DEF Resolves, Arguments, ConnectionParams
<1>2. NativeDSN[Arguments(d, s).dsn] \in DSNs
      BY ParamsAssumption DEF Resolves
<1> QED BY <1>1, <1>2 DEF resolveConnectionParams, ConnectionParams

(* Nothing is connected at the start.                                      *)
LEMMA ManagerInitInv == ManagerInit => ManagerInv
<1> SUFFICES ASSUME ManagerInit
             PROVE  ManagerInv
    OBVIOUS
<1> USE DEF ManagerInit, LockInit, EmptyMap
<1>1. ManagerTypeOK
      BY ParamsAssumption, NoPoolAssumption
         DEF ManagerTypeOK, LockTypeOK, Labels, IsMap
<1>2. LockDiscipline
      BY ProcsAssumption DEF LockDiscipline
<1>3. MapSound /\ ConnectedReachable /\ PoolAsResolved /\ PoolInUseIsOpen
      BY ProcsAssumption
         DEF MapSound, SettingUp, ConnectedReachable, Reachable, PoolAsResolved, PoolInUseIsOpen
<1> QED BY <1>1, <1>2, <1>3 DEF ManagerInv

(* A step at which p moves on, perhaps to take a pool from the map or to   *)
(* let go of its pool, and the pools and the map stay as they are.         *)
LEMMA QuietStep ==
  ASSUME ManagerInv, NEW p \in Procs, NEW label \in Labels,
         UNCHANGED <<connections, pools>>, ~ SettingUp(p),
         ManagerTypeOK', LockDiscipline',
         pc' = [pc EXCEPT ![p] = label],
         \A q \in Procs \ {p} : db'[q] = db[q],
         \A q \in Calls \ {p} : params'[q] = params[q],
         label \in {"idle", "fast", "lock", "connect", "closed"} \/
           /\ label = "using" /\ p \in Calls
           /\ params'[p] = params[p]
           /\ Cached(p) /\ db'[p] = connections[CacheKey(params[p])],
         \A q \in Procs \ {p} : SettingUp(q) => db'[p] # db[q],
         p = Main => label # "idle"
  PROVE  ManagerInv'
<1>a. /\ ManagerTypeOK /\ LockDiscipline /\ MapSound
      /\ ConnectedReachable /\ PoolAsResolved /\ PoolInUseIsOpen
      BY DEF ManagerInv
<1>b. pc \in [Procs -> Labels] /\ Calls \subseteq Procs /\ Main \in Procs
      BY <1>a, ProcsAssumption DEF ManagerTypeOK
<1>1. pc'[p] = label /\ \A q \in Procs \ {p} : pc'[q] = pc[q]
      BY <1>b
<1>2. label = "using" =>
        /\ db'[p] \in DOMAIN pools /\ pools[db'[p]].open
        /\ pools[db'[p]].dsn = params'[p].dsn
        /\ pools[db'[p]].readOnly = params'[p].readOnly
      BY <1>a DEF Cached, CacheKey, MapSound, ManagerTypeOK
<1>3. MapSound'
      BY <1>a, <1>b, <1>1, <1>2 DEF MapSound, SettingUp
<1>4. ConnectedReachable'
      BY <1>a, <1>b, <1>1 DEF ConnectedReachable, Reachable, SettingUp
<1>5. PoolAsResolved'
      BY <1>a, <1>b, <1>1, <1>2 DEF PoolAsResolved
<1>6. PoolInUseIsOpen'
      BY <1>a, <1>b, <1>1, <1>2 DEF PoolInUseIsOpen
<1> QED BY <1>3, <1>4, <1>5, <1>6 DEF ManagerInv

(* The lock's holder lets go of it.                                        *)
LEMMA UnlockDiscipline ==
  ASSUME ManagerInv, NEW p \in Procs, HoldsLock(p), Unlock(p),
         NEW label \in {"idle", "using", "closed"},
         pc' = [pc EXCEPT ![p] = label], p = Main => label = "closed"
  PROVE  LockDiscipline'
<1>a. /\ LockDiscipline /\ pc \in [Procs -> Labels] /\ blocked \subseteq Procs
      /\ p # NoProc /\ Calls \subseteq Procs /\ Main \in Procs
      BY ProcsAssumption, NoProcAssumption
         DEF ManagerInv, ManagerTypeOK, LockTypeOK
<1>1. /\ writer = p /\ writer' = NoProc /\ readers' = blocked /\ blocked' = {}
      BY DEF HoldsLock, Unlock
<1>2. pc'[p] = label /\ \A q \in Procs \ {p} : pc'[q] = pc[q]
      BY <1>a
<1>3. pc[p] \in {"lock", "connect", "setReadOnly", "publish"}
      BY <1>a, <1>1 DEF LockDiscipline
<1>4. \A q \in Calls : pc'[q] \notin {"connect", "setReadOnly", "publish"}
      BY <1>a, <1>1, <1>2 DEF LockDiscipline, HoldsLock
<1>5. \A q \in blocked : q \in Calls /\ pc'[q] = "fast"
      BY <1>a, <1>2, <1>3 DEF LockDiscipline
<1>6. pc'[Main] \in {"idle", "lock", "closed"}
      BY <1>a, <1>2 DEF LockDiscipline
<1> QED BY <1>1, <1>4, <1>5, <1>6 DEF LockDiscipline

(* The lock's holder goes on with the lock in hand.                        *)
LEMMA HeldDiscipline ==
  ASSUME ManagerInv, NEW p \in Calls, HoldsLock(p), ~ Cached(p),
         UNCHANGED <<lockVars, params, connections>>,
         NEW label \in {"connect", "setReadOnly", "publish"},
         pc' = [pc EXCEPT ![p] = label]
  PROVE  LockDiscipline'
<1>a. /\ LockDiscipline /\ pc \in [Procs -> Labels]
      /\ p # NoProc /\ Calls \subseteq Procs /\ Main \in Procs \ {p}
      BY ProcsAssumption, NoProcAssumption DEF ManagerInv, ManagerTypeOK
<1>1. /\ writer' = p /\ writer = p /\ readers' = {} /\ readers = {} /\ blocked' = blocked
      BY DEF HoldsLock, lockVars
<1>2. pc'[p] = label /\ \A q \in Procs \ {p} : pc'[q] = pc[q]
      BY <1>a
<1>3. pc[p] \in {"lock", "connect", "setReadOnly", "publish"}
      BY <1>a, <1>1 DEF LockDiscipline
<1>4. \A q \in Calls \ {p} : pc'[q] \notin {"connect", "setReadOnly", "publish"}
      BY <1>a, <1>1, <1>2 DEF LockDiscipline, HoldsLock
<1>5. \A q \in blocked : q \in Calls /\ pc'[q] = "fast"
      BY <1>a, <1>2, <1>3 DEF LockDiscipline
<1>6. HoldsLock(p)' /\ ~ Cached(p)'
      BY <1>1 DEF HoldsLock, Cached, CacheKey
<1>7. pc'[Main] \in {"idle", "lock", "closed"}
      BY <1>a, <1>2 DEF LockDiscipline
<1> QED BY <1>1, <1>2, <1>4, <1>5, <1>6, <1>7 DEF LockDiscipline

(* One step per action.                                                    *)
LEMMA ManagerNextInv == ManagerInv /\ [ManagerNext]_vars => ManagerInv'
<1> SUFFICES ASSUME ManagerInv, [ManagerNext]_vars
             PROVE  ManagerInv'
    OBVIOUS
<1>a. /\ readers \subseteq Procs /\ blocked \subseteq Procs
      /\ writer \in Procs \cup {NoProc}
      /\ pc \in [Procs -> Labels]
      /\ params \in [Calls -> ConnectionParams]
      /\ db \in [Procs -> DOMAIN pools \cup {NoPool}]
      /\ \A k \in DOMAIN connections : connections[k] \in DOMAIN pools
      /\ IsMap(pools, PoolIds, PoolStates)
      BY DEF ManagerInv, ManagerTypeOK, LockTypeOK
<1>b. /\ LockDiscipline /\ MapSound /\ ManagerTypeOK
      /\ ConnectedReachable /\ PoolAsResolved /\ PoolInUseIsOpen
      BY DEF ManagerInv
<1>c. /\ Calls \subseteq Procs /\ Main \in Procs /\ Main \notin Calls
      /\ NoProc \notin Procs
      BY ProcsAssumption, NoProcAssumption
<1>d. NoPool \notin DOMAIN pools
      BY <1>a, NoPoolAssumption DEF IsMap
<1>e. \A q \in Procs : SettingUp(q) => q \in Calls
      BY <1>b, <1>c, ProcsAssumption DEF LockDiscipline, SettingUp
<1>f. \A k \in DOMAIN connections :
        /\ pools[connections[k]].open /\ pools[connections[k]].connected
        /\ k = [dsn |-> pools[connections[k]].dsn,
                readOnly |-> pools[connections[k]].readOnly]
      BY <1>b DEF MapSound
<1>1. ASSUME NEW p \in Calls, NEW d \in ToolDSNs, NEW s \in ToolPresets,
             GetDBWithPreset(p, d, s)
      PROVE  ManagerInv'
  <2>1. /\ pc[p] = "idle" /\ RLock(p) /\ pc' = [pc EXCEPT ![p] = "fast"]
        /\ params' = [params EXCEPT ![p] = resolveConnectionParams(d, s)]
        /\ UNCHANGED <<db, connections, pools>>
        BY <1>1 DEF GetDBWithPreset, Goto
  <2>2. params' \in [Calls -> ConnectionParams]
        BY <1>1, <1>a, <2>1, ResolvedParams DEF GetDBWithPreset
  <2>3. ManagerTypeOK'
        BY <1>a, <1>c, <2>1, <2>2 DEF ManagerTypeOK, LockTypeOK, RLock, Labels
  <2>4. LockDiscipline'
    <3>1. /\ writer' = writer /\ readers' \cap blocked' = {}
          /\ readers' \cup blocked' \subseteq readers \cup blocked \cup {p}
          /\ writer # NoProc => readers' = readers
          BY <1>b, <2>1 DEF RLock, LockDiscipline
    <3>2. \A q \in Procs \ {p} : pc'[q] = pc[q] /\ (q \in Calls => params'[q] = params[q])
          BY <1>a, <1>c, <2>1
    <3>3. pc'[p] = "fast" /\ writer # p
          BY <1>a, <1>b, <1>c, <2>1 DEF LockDiscipline
    <3> QED BY <1>b, <1>c, <2>1, <3>1, <3>2, <3>3
            DEF LockDiscipline, HoldsLock, Cached, CacheKey
  <2>5. /\ ~ SettingUp(p) /\ p \in Procs /\ p # Main
        /\ \A q \in Procs \ {p} : SettingUp(q) => db'[p] # db[q]
        /\ \A q \in Calls \ {p} : params'[q] = params[q]
        BY <1>a, <1>b, <1>c, <1>e, <2>1 DEF SettingUp, MapSound
  <2> QED BY <2>1, <2>3, <2>4, <2>5, QuietStep DEF Labels
<1>2. ASSUME NEW p \in Calls, FastPath(p)
      PROVE  ManagerInv'
  <2>1. /\ pc[p] = "fast" /\ readers' = readers \ {p}
        /\ UNCHANGED <<blocked, writer, params, connections, pools>>
        /\ p \in readers
        BY <1>2 DEF FastPath, RUnlock
  <2>2. PICK label \in {"using", "lock"} :
          /\ pc' = [pc EXCEPT ![p] = label]
          /\ label = "lock" => db' = db
          /\ label = "using" => /\ Cached(p)
                                /\ db' = [db EXCEPT ![p] = connections[CacheKey(params[p])]]
        BY <1>2 DEF FastPath, ReturnPool, Goto
  <2>3. ManagerTypeOK'
        BY <1>a, <1>c, <2>1, <2>2 DEF ManagerTypeOK, LockTypeOK, Labels, Cached
  <2>4. LockDiscipline'
    <3>1. \A q \in Procs \ {p} : pc'[q] = pc[q]
          BY <1>a, <2>2
    <3>2. pc'[p] = label /\ writer # p /\ \A q \in Calls : ~ HoldsLock(q)
      <4>1. pc'[p] = label /\ \A q \in Calls : ~ HoldsLock(q)
            BY <1>a, <1>c, <2>1, <2>2 DEF HoldsLock
      <4>2. writer # p
            BY <1>b, <1>c, <2>1 DEF LockDiscipline
      <4> QED BY <4>1, <4>2
    <3>3. p \notin blocked
          BY <1>b, <2>1 DEF LockDiscipline
    <3>4. \A q \in Calls : pc'[q] \notin {"connect", "setReadOnly", "publish"}
          BY <1>b, <1>c, <2>2, <3>1, <3>2 DEF LockDiscipline
    <3>5. \A q \in readers' \cup blocked' : q \in Calls /\ pc'[q] = "fast"
          BY <1>b, <1>c, <2>1, <3>1, <3>3 DEF LockDiscipline
    <3>6. /\ readers' \cap blocked' = {}
          /\ writer' # NoProc =>
               pc'[writer'] \in {"lock", "connect", "setReadOnly", "publish"}
          /\ pc'[Main] \in {"idle", "lock", "closed"}
          BY <1>a, <1>b, <1>c, <2>1, <3>1, <3>2 DEF LockDiscipline
    <3> QED BY <3>4, <3>5, <3>6 DEF LockDiscipline
  <2>5. /\ \A q \in Procs \ {p} : db'[q] = db[q]
        /\ label = "using" => db'[p] = connections[CacheKey(params[p])]
        /\ label = "lock" => db'[p] = db[p]
        BY <1>a, <1>c, <2>2
  <2>6. ASSUME NEW q \in Procs \ {p}, SettingUp(q)
        PROVE  db'[p] # db[q]
    <3>1. /\ q \in Calls /\ p \in Procs \ {q}
          /\ \A k \in DOMAIN connections : connections[k] # db[q]
          /\ \A r \in Procs \ {q} : db[r] # db[q]
          BY <1>b, <1>c, <1>e, <2>6 DEF MapSound
    <3> QED BY <2>2, <2>5, <3>1 DEF Cached
  <2>7. label \in Labels /\ ~ SettingUp(p) /\ p \in Procs /\ p # Main
        BY <1>c, <2>1 DEF SettingUp, Labels
  <2> QED BY <2>1, <2>2, <2>3, <2>4, <2>5, <2>6, <2>7, QuietStep
<1>3. ASSUME NEW p \in Calls, DoubleCheck(p)
      PROVE  ManagerInv'
  <2>1. /\ pc[p] = "lock" /\ HoldsLock(p) /\ p \in Procs /\ p # Main
        /\ UNCHANGED <<params, connections, pools>>
        BY <1>3, <1>c DEF DoubleCheck
  <2>2. CASE Cached(p) /\ ReturnPool(p, connections[CacheKey(params[p])]) /\ Unlock(p)
    <3>1. /\ pc' = [pc EXCEPT ![p] = "using"]
          /\ db' = [db EXCEPT ![p] = connections[CacheKey(params[p])]]
          BY <2>2 DEF ReturnPool, Goto
    <3>2. LockDiscipline'
          BY <2>1, <2>2, <3>1, UnlockDiscipline
    <3>3. ManagerTypeOK'
          BY <1>a, <1>c, <2>1, <2>2, <3>1
             DEF ManagerTypeOK, LockTypeOK, Labels, Cached, Unlock
    <3>4. /\ db'[p] = connections[CacheKey(params[p])]
          /\ \A q \in Procs \ {p} : db'[q] = db[q] /\ ~ SettingUp(q)
          BY <1>a, <1>b, <1>e, <2>1, <3>1 DEF LockDiscipline, HoldsLock, SettingUp
    <3> QED BY <2>1, <2>2, <3>1, <3>2, <3>3, <3>4, QuietStep DEF SettingUp, Labels
  <2>3. CASE ~ Cached(p) /\ Goto(p, "connect") /\ UNCHANGED <<lockVars, db>>
    <3>1. pc' = [pc EXCEPT ![p] = "connect"] /\ db' = db
          BY <2>3 DEF Goto
    <3>2. LockDiscipline'
          BY <2>1, <2>3, <3>1, HeldDiscipline
    <3>3. ManagerTypeOK'
          BY <1>a, <1>c, <2>1, <2>3, <3>1
             DEF ManagerTypeOK, LockTypeOK, Labels, lockVars
    <3>4. \A q \in Procs \ {p} : ~ SettingUp(q)
          BY <1>b, <1>e, <2>1 DEF LockDiscipline, HoldsLock, SettingUp
    <3> QED BY <2>1, <2>3, <3>1, <3>2, <3>3, <3>4, QuietStep DEF SettingUp, Labels
  <2> QED BY <1>3, <2>2, <2>3 DEF DoubleCheck
<1>4. ASSUME NEW p \in Calls, NEW i \in PoolIds, Connected(p, i)
      PROVE  ManagerInv'
  <2> DEFINE label == IF params[p].readOnly THEN "setReadOnly" ELSE "publish"
             pool == [dsn |-> params[p].dsn, readOnly |-> FALSE,
                      open |-> TRUE, connected |-> TRUE]
  <2>1. /\ pc[p] = "connect" /\ pc' = [pc EXCEPT ![p] = label]
        /\ db' = [db EXCEPT ![p] = i] /\ pools' = Put(pools, i, pool)
        /\ UNCHANGED <<lockVars, params, connections>>
        BY <1>4 DEF Connected, NewPool, Goto
  <2>2. /\ \A k \in DOMAIN connections : connections[k] # i
        /\ \A q \in Procs : db[q] # i
        BY <1>4 DEF Connected, NewPool, FreePools
  <2>3. /\ HoldsLock(p) /\ ~ Cached(p)
        /\ \A q \in Procs \ {p} : ~ SettingUp(q)
        BY <1>b, <1>e, <2>1 DEF LockDiscipline, HoldsLock, SettingUp
  <2>4. params[p] \in ConnectionParams
        BY <1>a
  <2>5. /\ DOMAIN pools' = DOMAIN pools \cup {i} /\ pools'[i] = pool
        /\ \A j \in DOMAIN pools \ {i} : pools'[j] = pools[j]
        /\ IsMap(pools', PoolIds, PoolStates)
        BY <1>a, <2>1, <2>4 DEF Put, IsMap, ConnectionParams, PoolStates
  <2>6. /\ pc'[p] = label /\ \A q \in Procs \ {p} : pc'[q] = pc[q]
        /\ db'[p] = i /\ \A q \in Procs \ {p} : db'[q] = db[q]
        BY <1>a, <1>c, <2>1
  <2>7. \A k \in DOMAIN connections : connections[k] # i
        BY <2>2
  <2>8. LockDiscipline'
        BY <2>1, <2>3, HeldDiscipline
  <2>9. ManagerTypeOK'
        BY <1>a, <1>c, <2>1, <2>5, <2>6
           DEF ManagerTypeOK, LockTypeOK, Labels, lockVars
  <2>10. MapSound'
    <3>1. ASSUME NEW k \in DOMAIN connections
          PROVE  /\ connections'[k] = connections[k]
                 /\ pools'[connections[k]] = pools[connections[k]]
          BY <1>a, <2>1, <2>5, <2>7
    <3>2. \A k \in DOMAIN connections' :
            /\ pools'[connections'[k]].open /\ pools'[connections'[k]].connected
            /\ k = [dsn |-> pools'[connections'[k]].dsn,
                    readOnly |-> pools'[connections'[k]].readOnly]
          BY <1>b, <2>1, <3>1 DEF MapSound
    <3>3. \A q \in Calls \ {p} : pc'[q] \notin {"setReadOnly", "publish"}
          BY <1>c, <2>3, <2>6 DEF SettingUp
    <3>4. /\ db'[p] \in DOMAIN pools' /\ pools'[db'[p]] = pool
          /\ \A k \in DOMAIN connections' : connections'[k] # db'[p]
          /\ \A q \in Procs \ {p} : db'[q] # db'[p]
          BY <2>1, <2>2, <2>5, <2>6, <2>7
    <3>5. /\ pc'[p] = "setReadOnly" => params'[p].readOnly
          /\ pc'[p] = "publish" => params'[p].readOnly = FALSE
          BY <2>1, <2>4, <2>6 DEF ConnectionParams
    <3>6. \A q \in Procs : pc'[q] = "using" => q \in Calls /\ db'[q] \in DOMAIN pools'
          BY <1>b, <2>5, <2>6 DEF MapSound
    <3>7. params' = params
          BY <2>1
    <3> HIDE DEF pool, label
    <3>8. /\ pools'[db'[p]].open /\ pools'[db'[p]].connected
          /\ pools'[db'[p]].dsn = params'[p].dsn
          /\ pools'[db'[p]].readOnly = FALSE
          BY <3>4, <3>7 DEF pool
    <3> QED BY <3>2, <3>3, <3>4, <3>5, <3>6, <3>8 DEF MapSound, SettingUp
  <2>11. ConnectedReachable'
    <3> SUFFICES ASSUME NEW j \in DOMAIN pools', pools'[j].open, pools'[j].connected
                 PROVE  \/ \E k \in DOMAIN connections' : connections'[k] = j
                        \/ \E q \in Calls : SettingUp(q)' /\ db'[q] = j
        BY DEF ConnectedReachable, Reachable
    <3>1. CASE j = i
          BY <2>6, <3>1 DEF SettingUp
    <3>2. CASE j # i
      <4>1. j \in DOMAIN pools /\ pools[j].open /\ pools[j].connected
            BY <2>5, <3>2
      <4>2. ~ SettingUp(p)
            BY <2>1 DEF SettingUp
      <4> QED BY <1>b, <1>c, <2>1, <2>3, <4>1, <4>2 DEF ConnectedReachable, Reachable
    <3> QED BY <3>1, <3>2
  <2>12. ASSUME NEW q \in Calls, pc'[q] = "using"
         PROVE  /\ pc[q] = "using" /\ db'[q] = db[q] /\ params'[q] = params[q]
                /\ pools'[db[q]] = pools[db[q]]
    <3>1. q # p /\ pc[q] = "using" /\ db'[q] = db[q]
          BY <1>c, <2>6, <2>12
    <3>2. db[q] \in DOMAIN pools /\ db[q] # i
          BY <1>b, <1>c, <2>2, <3>1 DEF MapSound
    <3> QED BY <2>1, <2>5, <3>1, <3>2
  <2>13. PoolAsResolved'
        BY <1>b, <2>12 DEF PoolAsResolved
  <2>14. PoolInUseIsOpen'
        BY <1>b, <1>c, <2>6, <2>12 DEF PoolInUseIsOpen
  <2> QED BY <2>8, <2>9, <2>10, <2>11, <2>13, <2>14 DEF ManagerInv
<1>5. ASSUME NEW p \in Calls, NEW i \in PoolIds, ConnectFails(p, i)
      PROVE  ManagerInv'
  <2> DEFINE pool == [dsn |-> params[p].dsn, readOnly |-> FALSE,
                      open |-> TRUE, connected |-> FALSE]
  <2>1. /\ pc[p] = "connect" /\ pc' = [pc EXCEPT ![p] = "idle"]
        /\ db' = [db EXCEPT ![p] = NoPool] /\ Unlock(p)
        /\ pools' = Put(pools, i, pool)
        /\ params' = params /\ connections' = connections /\ p \in Procs /\ p # Main
        BY <1>5, <1>c DEF ConnectFails, NewPool, ReturnError, Goto
  <2>2. /\ \A k \in DOMAIN connections : connections[k] # i
        /\ \A q \in Procs : db[q] # i
        BY <1>5 DEF ConnectFails, NewPool, FreePools
  <2>3. HoldsLock(p) /\ \A q \in Procs : ~ SettingUp(q)
        BY <1>b, <1>e, <2>1 DEF LockDiscipline, HoldsLock, SettingUp
  <2>4. params[p] \in ConnectionParams
        BY <1>a
  <2>5. /\ DOMAIN pools' = DOMAIN pools \cup {i} /\ pools'[i] = pool
        /\ \A j \in DOMAIN pools \ {i} : pools'[j] = pools[j]
        /\ IsMap(pools', PoolIds, PoolStates)
        BY <1>a, <2>1, <2>4 DEF Put, IsMap, ConnectionParams, PoolStates
  <2>6. /\ pc'[p] = "idle" /\ \A q \in Procs \ {p} : pc'[q] = pc[q]
        /\ db'[p] = NoPool /\ \A q \in Procs \ {p} : db'[q] = db[q]
        BY <1>a, <2>1
  <2>7. LockDiscipline'
        BY <2>1, <2>3, UnlockDiscipline
  <2>8. ManagerTypeOK'
    <3>1. db' \in [Procs -> DOMAIN pools' \cup {NoPool}]
          BY <1>a, <2>1, <2>5
    <3>2. \A k \in DOMAIN connections' : connections'[k] \in DOMAIN pools'
          BY <1>a, <2>1, <2>5
    <3>3. pc' \in [Procs -> Labels]
          BY <1>a, <2>1 DEF Labels
    <3> QED BY <1>a, <1>c, <2>1, <2>5, <3>1, <3>2, <3>3
            DEF ManagerTypeOK, LockTypeOK, Unlock
  <2>9. \A k \in DOMAIN connections : pools'[connections[k]] = pools[connections[k]]
        BY <1>a, <2>2, <2>5
  <2>10. \A q \in Calls : pc'[q] \notin {"setReadOnly", "publish"}
        BY <1>c, <2>3, <2>6 DEF SettingUp
  <2>11. MapSound'
    <3>1. ASSUME NEW k \in DOMAIN connections'
          PROVE  /\ pools'[connections'[k]].open /\ pools'[connections'[k]].connected
                 /\ k = [dsn |-> pools'[connections'[k]].dsn,
                         readOnly |-> pools'[connections'[k]].readOnly]
      <4>1. k \in DOMAIN connections /\ connections'[k] = connections[k]
            BY <2>1
      <4>2. pools'[connections'[k]] = pools[connections[k]]
            BY <2>9, <4>1
      <4> QED BY <1>f, <4>1, <4>2
    <3>2. \A q \in Procs : pc'[q] = "using" => q \in Calls /\ db'[q] \in DOMAIN pools'
          BY <1>b, <2>5, <2>6 DEF MapSound
    <3> QED BY <2>10, <3>1, <3>2 DEF MapSound, SettingUp
  <2>12. ConnectedReachable'
    <3> SUFFICES ASSUME NEW j \in DOMAIN pools', pools'[j].open, pools'[j].connected
                 PROVE  \E k \in DOMAIN connections' : connections'[k] = j
        BY DEF ConnectedReachable, Reachable
    <3>1. pool.connected = FALSE
          OBVIOUS
    <3>2. j \in DOMAIN pools /\ pools[j].open /\ pools[j].connected
      <4> HIDE DEF pool
      <4> QED BY <2>5, <3>1
    <3> QED BY <1>b, <1>c, <2>1, <2>3, <3>2 DEF ConnectedReachable, Reachable
  <2>13. ASSUME NEW q \in Calls, pc'[q] = "using"
         PROVE  /\ pc[q] = "using" /\ db'[q] = db[q] /\ params'[q] = params[q]
                /\ pools'[db[q]] = pools[db[q]]
    <3>1. q # p /\ pc[q] = "using" /\ db'[q] = db[q]
          BY <1>c, <2>6, <2>13
    <3>2. db[q] \in DOMAIN pools /\ db[q] # i
          BY <1>b, <1>c, <2>2, <3>1 DEF MapSound
    <3> QED BY <2>1, <2>5, <3>1, <3>2
  <2>14. PoolAsResolved'
        BY <1>b, <2>13 DEF PoolAsResolved
  <2>15. PoolInUseIsOpen'
        BY <1>b, <1>c, <2>6, <2>13 DEF PoolInUseIsOpen
  <2> QED BY <2>7, <2>8, <2>11, <2>12, <2>14, <2>15 DEF ManagerInv
<1>6. ASSUME NEW p \in Calls, SettingUp(p)
      PROVE  /\ HoldsLock(p) /\ ~ Cached(p) /\ db[p] \in DOMAIN pools
             /\ pools[db[p]].open /\ pools[db[p]].connected
             /\ pools[db[p]].dsn = params[p].dsn
             /\ \A q \in Procs \ {p} : ~ SettingUp(q) /\ db[q] # db[p]
             /\ \A k \in DOMAIN connections : connections[k] # db[p]
             /\ pools[db[p]] \in PoolStates
      BY <1>a, <1>b, <1>e, <1>6 DEF LockDiscipline, HoldsLock, MapSound, SettingUp, IsMap
<1>7. ASSUME NEW p \in Calls, SetReadOnly(p)
      PROVE  ManagerInv'
  <2>1. /\ pc[p] = "setReadOnly" /\ pc' = [pc EXCEPT ![p] = "publish"]
        /\ pools' = [pools EXCEPT ![db[p]].readOnly = TRUE]
        /\ readers' = readers /\ blocked' = blocked /\ writer' = writer
        /\ params' = params /\ db' = db /\ connections' = connections
        BY <1>7 DEF SetReadOnly, Goto, lockVars
  <2>2. SettingUp(p)
        BY <2>1 DEF SettingUp
  <2>3. /\ DOMAIN pools' = DOMAIN pools
        /\ \A j \in DOMAIN pools \ {db[p]} : pools'[j] = pools[j]
        /\ pools'[db[p]] = [pools[db[p]] EXCEPT !.readOnly = TRUE]
        BY <1>6, <2>1, <2>2
  <2>4. /\ pools'[db[p]] \in PoolStates
        /\ pools'[db[p]].open /\ pools'[db[p]].connected
        /\ pools'[db[p]].readOnly = TRUE /\ pools'[db[p]].dsn = params[p].dsn
    <3>1. PICK r \in PoolStates : pools[db[p]] = r
          BY <1>6, <2>2
    <3>2. pools'[db[p]] = [r EXCEPT !.readOnly = TRUE]
          BY <2>3, <3>1
    <3>3. r.open /\ r.connected /\ r.dsn = params[p].dsn
          BY <1>6, <2>2, <3>1
    <3> QED BY <3>2, <3>3 DEF PoolStates
  <2>5. pc'[p] = "publish" /\ \A q \in Procs \ {p} : pc'[q] = pc[q]
        BY <1>a, <1>c, <2>1
  <2>6. LockDiscipline'
        BY <1>6, <2>1, <2>2, HeldDiscipline DEF lockVars
  <2>7. IsMap(pools', PoolIds, PoolStates)
        BY <1>a, <2>1, <2>3, <2>4 DEF IsMap
  <2>8. ManagerTypeOK'
        BY <1>a, <1>c, <2>1, <2>3, <2>7 DEF ManagerTypeOK, LockTypeOK, Labels
  <2>9. params[p].readOnly = TRUE
        BY <1>a, <1>b, <2>1, <2>2 DEF MapSound, ConnectionParams
  <2>10. MapSound'
    <3>1. \A k \in DOMAIN connections : pools'[connections[k]] = pools[connections[k]]
          BY <1>6, <1>a, <2>2, <2>3
    <3>2. ASSUME NEW k \in DOMAIN connections'
          PROVE  /\ pools'[connections'[k]].open /\ pools'[connections'[k]].connected
                 /\ k = [dsn |-> pools'[connections'[k]].dsn,
                         readOnly |-> pools'[connections'[k]].readOnly]
      <4>1. k \in DOMAIN connections /\ connections'[k] = connections[k]
            BY <2>1
      <4>2. pools'[connections'[k]] = pools[connections[k]]
            BY <3>1, <4>1
      <4> QED BY <1>f, <4>1, <4>2
    <3>3. \A q \in Calls \ {p} : pc'[q] \notin {"setReadOnly", "publish"}
          BY <1>6, <1>c, <2>2, <2>5 DEF SettingUp
    <3>4. /\ db'[p] \in DOMAIN pools' /\ pools'[db'[p]].open /\ pools'[db'[p]].connected
          /\ pools'[db'[p]].dsn = params'[p].dsn
          /\ pools'[db'[p]].readOnly = params'[p].readOnly
          /\ \A k \in DOMAIN connections' : connections'[k] # db'[p]
          /\ \A q \in Procs \ {p} : db'[q] # db'[p]
      <4>1. /\ db[p] \in DOMAIN pools'
            /\ \A k \in DOMAIN connections : connections[k] # db[p]
            /\ \A q \in Procs \ {p} : db[q] # db[p]
            BY <1>6, <2>2, <2>3
      <4> QED BY <2>1, <2>4, <2>9, <4>1
    <3>5. \A q \in Procs : pc'[q] = "using" => q \in Calls /\ db'[q] \in DOMAIN pools'
          BY <1>b, <2>1, <2>3, <2>5 DEF MapSound
    <3> QED BY <2>5, <3>2, <3>3, <3>4, <3>5 DEF MapSound, SettingUp
  <2>11. ConnectedReachable'
    <3> SUFFICES ASSUME NEW j \in DOMAIN pools', pools'[j].open, pools'[j].connected
                 PROVE  \/ \E k \in DOMAIN connections' : connections'[k] = j
                        \/ \E q \in Calls : SettingUp(q)' /\ db'[q] = j
        BY DEF ConnectedReachable, Reachable
    <3>1. CASE j = db[p]
          BY <2>1, <2>5, <3>1 DEF SettingUp
    <3>2. CASE j # db[p]
          BY <1>6, <1>b, <1>c, <2>1, <2>2, <2>3, <3>2 DEF ConnectedReachable, Reachable
    <3> QED BY <3>1, <3>2
  <2>12. ASSUME NEW q \in Calls, pc'[q] = "using"
         PROVE  /\ pc[q] = "using" /\ db'[q] = db[q] /\ params'[q] = params[q]
                /\ pools'[db[q]] = pools[db[q]]
    <3>1. q # p /\ pc[q] = "using" /\ db[q] # db[p]
          BY <1>6, <1>c, <2>2, <2>5, <2>12
    <3> QED BY <1>b, <1>c, <2>1, <2>3, <3>1 DEF MapSound
  <2>13. PoolAsResolved'
        BY <1>b, <2>12 DEF PoolAsResolved
  <2>14. PoolInUseIsOpen'
        BY <1>b, <1>c, <2>5, <2>12 DEF PoolInUseIsOpen
  <2> QED BY <2>6, <2>8, <2>10, <2>11, <2>13, <2>14 DEF ManagerInv
<1>8. ASSUME NEW p \in Calls, SetReadOnlyFails(p)
      PROVE  ManagerInv'
  <2>1. /\ pc[p] = "setReadOnly" /\ pc' = [pc EXCEPT ![p] = "idle"]
        /\ db' = [db EXCEPT ![p] = NoPool] /\ Unlock(p)
        /\ pools' = [pools EXCEPT ![db[p]].open = FALSE]
        /\ params' = params /\ connections' = connections
        BY <1>8 DEF SetReadOnlyFails, ReturnError, Goto
  <2>2. SettingUp(p) /\ p \in Procs /\ p # Main
        BY <1>c, <2>1 DEF SettingUp
  <2>3. /\ DOMAIN pools' = DOMAIN pools
        /\ \A j \in DOMAIN pools \ {db[p]} : pools'[j] = pools[j]
        /\ pools'[db[p]] = [pools[db[p]] EXCEPT !.open = FALSE]
        BY <1>6, <2>1, <2>2
  <2>4. /\ pools'[db[p]] \in PoolStates
        /\ pools'[db[p]].open = FALSE
    <3>1. PICK r \in PoolStates : pools[db[p]] = r
          BY <1>6, <2>2
    <3>2. pools'[db[p]] = [r EXCEPT !.open = FALSE]
          BY <2>3, <3>1
    <3> QED BY <3>2 DEF PoolStates
  <2>5. /\ pc'[p] = "idle" /\ \A q \in Procs \ {p} : pc'[q] = pc[q]
        /\ db'[p] = NoPool /\ \A q \in Procs \ {p} : db'[q] = db[q]
        BY <1>a, <2>1, <2>2
  <2>6. LockDiscipline'
        BY <1>6, <2>1, <2>2, UnlockDiscipline
  <2>7. IsMap(pools', PoolIds, PoolStates)
        BY <1>a, <2>1, <2>3, <2>4 DEF IsMap
  <2>8. ManagerTypeOK'
        BY <1>a, <1>c, <2>1, <2>3, <2>7 DEF ManagerTypeOK, LockTypeOK, Labels, Unlock
  <2>9. \A k \in DOMAIN connections : pools'[connections[k]] = pools[connections[k]]
        BY <1>6, <1>a, <2>2, <2>3
  <2>10. MapSound'
    <3>1. ASSUME NEW k \in DOMAIN connections'
          PROVE  /\ pools'[connections'[k]].open /\ pools'[connections'[k]].connected
                 /\ k = [dsn |-> pools'[connections'[k]].dsn,
                         readOnly |-> pools'[connections'[k]].readOnly]
      <4>1. k \in DOMAIN connections /\ connections'[k] = connections[k]
            BY <2>1
      <4>2. pools'[connections'[k]] = pools[connections[k]]
            BY <2>9, <4>1
      <4> QED BY <1>f, <4>1, <4>2
    <3>2. \A q \in Calls : pc'[q] \notin {"setReadOnly", "publish"}
          BY <1>6, <1>c, <2>2, <2>5 DEF SettingUp
    <3>3. \A q \in Procs : pc'[q] = "using" => q \in Calls /\ db'[q] \in DOMAIN pools'
          BY <1>b, <2>3, <2>5 DEF MapSound
    <3> QED BY <3>1, <3>2, <3>3 DEF MapSound, SettingUp
  <2>11. ConnectedReachable'
    <3> SUFFICES ASSUME NEW j \in DOMAIN pools', pools'[j].open, pools'[j].connected
                 PROVE  \E k \in DOMAIN connections' : connections'[k] = j
        BY DEF ConnectedReachable, Reachable
    <3>1. j \in DOMAIN pools /\ pools[j].open /\ pools[j].connected /\ j # db[p]
          BY <2>3, <2>4
    <3> QED BY <1>6, <1>b, <1>c, <2>1, <2>2, <3>1 DEF ConnectedReachable, Reachable
  <2>12. ASSUME NEW q \in Calls, pc'[q] = "using"
         PROVE  /\ pc[q] = "using" /\ db'[q] = db[q] /\ params'[q] = params[q]
                /\ pools'[db[q]] = pools[db[q]]
    <3>1. q # p /\ pc[q] = "using" /\ db[q] # db[p]
          BY <1>6, <1>c, <2>2, <2>5, <2>12
    <3> QED BY <1>b, <1>c, <2>1, <2>3, <2>5, <3>1 DEF MapSound
  <2>13. PoolAsResolved'
        BY <1>b, <2>12 DEF PoolAsResolved
  <2>14. PoolInUseIsOpen'
        BY <1>b, <1>c, <2>2, <2>5, <2>12 DEF PoolInUseIsOpen
  <2> QED BY <2>6, <2>8, <2>10, <2>11, <2>13, <2>14 DEF ManagerInv
<1>9. ASSUME NEW p \in Calls, Publish(p)
      PROVE  ManagerInv'
  <2> DEFINE key == CacheKey(params[p])
  <2>1. /\ pc[p] = "publish" /\ pc' = [pc EXCEPT ![p] = "using"]
        /\ db' = [db EXCEPT ![p] = db[p]] /\ Unlock(p)
        /\ connections' = Put(connections, key, db[p])
        /\ params' = params /\ pools' = pools
        BY <1>9 DEF Publish, ReturnPool, Goto
  <2>2. SettingUp(p) /\ p \in Procs /\ p # Main
        BY <1>c, <2>1 DEF SettingUp
  <2>3. /\ DOMAIN connections' = DOMAIN connections \cup {key}
        /\ connections'[key] = db[p] /\ key \notin DOMAIN connections
        /\ \A k \in DOMAIN connections : connections'[k] = connections[k]
        BY <1>6, <2>1, <2>2 DEF Put, Cached
  <2>4. /\ pc'[p] = "using" /\ \A q \in Procs \ {p} : pc'[q] = pc[q]
        /\ db' = db
        BY <1>a, <2>1, <2>2
  <2>5. pools[db[p]].readOnly = params[p].readOnly
        BY <1>b, <2>1, <2>2 DEF MapSound
  <2>6. LockDiscipline'
        BY <1>6, <2>1, <2>2, UnlockDiscipline
  <2>7. \A k \in DOMAIN connections' : connections'[k] \in DOMAIN pools'
        BY <1>6, <1>a, <2>1, <2>2, <2>3
  <2>8. ManagerTypeOK'
        BY <1>a, <1>c, <2>1, <2>4, <2>7
           DEF ManagerTypeOK, LockTypeOK, Labels, Unlock
  <2>9. MapSound'
    <3>1. ASSUME NEW k \in DOMAIN connections'
          PROVE  /\ pools'[connections'[k]].open /\ pools'[connections'[k]].connected
                 /\ k = [dsn |-> pools'[connections'[k]].dsn,
                         readOnly |-> pools'[connections'[k]].readOnly]
      <4>1. CASE k = key
            BY <1>6, <2>1, <2>2, <2>3, <2>5, <4>1 DEF CacheKey
      <4>2. CASE k # key
        <5>1. k \in DOMAIN connections /\ connections'[k] = connections[k]
              BY <2>3, <4>2
        <5> QED BY <1>f, <2>1, <5>1
      <4> QED BY <4>1, <4>2
    <3>2. \A q \in Calls : pc'[q] \notin {"setReadOnly", "publish"}
          BY <1>6, <1>c, <2>2, <2>4 DEF SettingUp
    <3>3. \A q \in Procs : pc'[q] = "using" => q \in Calls /\ db'[q] \in DOMAIN pools'
          BY <1>6, <1>b, <2>1, <2>2, <2>4 DEF MapSound
    <3> QED BY <3>1, <3>2, <3>3 DEF MapSound, SettingUp
  <2>10. ConnectedReachable'
    <3> SUFFICES ASSUME NEW j \in DOMAIN pools, pools[j].open, pools[j].connected
                 PROVE  \E k \in DOMAIN connections' : connections'[k] = j
        BY <2>1 DEF ConnectedReachable, Reachable
    <3>1. CASE j = db[p]
          BY <2>3, <3>1
    <3>2. CASE j # db[p]
      <4>1. PICK k \in DOMAIN connections : connections[k] = j
            BY <1>6, <1>b, <1>c, <2>2, <3>2 DEF ConnectedReachable, Reachable
      <4> QED BY <2>3, <4>1
    <3> QED BY <3>1, <3>2
  <2>11. PoolAsResolved'
        BY <1>6, <1>b, <1>c, <2>1, <2>2, <2>4, <2>5 DEF PoolAsResolved
  <2>12. PoolInUseIsOpen'
        BY <1>6, <1>b, <1>c, <2>1, <2>2, <2>4 DEF PoolInUseIsOpen
  <2> QED BY <2>6, <2>8, <2>9, <2>10, <2>11, <2>12 DEF ManagerInv
<1>10. ASSUME NEW p \in Calls, CallEnds(p)
       PROVE  ManagerInv'
  <2>1. /\ pc[p] = "using" /\ pc' = [pc EXCEPT ![p] = "idle"]
        /\ db' = [db EXCEPT ![p] = NoPool] /\ p \in Procs /\ p # Main
        /\ readers' = readers /\ blocked' = blocked /\ writer' = writer
        /\ params' = params /\ connections' = connections /\ pools' = pools
        BY <1>10, <1>c DEF CallEnds, ReturnError, Goto, lockVars
  <2>2. /\ pc'[p] = "idle" /\ \A q \in Procs \ {p} : pc'[q] = pc[q]
        /\ db'[p] = NoPool /\ \A q \in Procs \ {p} : db'[q] = db[q]
        BY <1>a, <2>1
  <2>3. LockDiscipline'
        BY <1>b, <1>c, <2>1, <2>2 DEF LockDiscipline, HoldsLock, Cached, CacheKey
  <2>4. ManagerTypeOK'
        BY <1>a, <1>c, <2>1 DEF ManagerTypeOK, LockTypeOK, Labels
  <2>5. \A q \in Procs \ {p} : SettingUp(q) => db'[p] # db[q]
        BY <1>6, <1>d, <1>e, <2>2
  <2> QED BY <2>1, <2>2, <2>3, <2>4, <2>5, QuietStep DEF SettingUp, Labels
<1>11. ASSUME NEW p \in Procs, Lock(p)
       PROVE  ManagerInv'
  <2>1. /\ pc[p] = "lock" /\ writer = NoProc /\ writer' = p
        /\ readers' = readers /\ blocked' = blocked
        /\ pc' = pc /\ params' = params /\ db' = db
        /\ connections' = connections /\ pools' = pools
        BY <1>11 DEF Lock, AnnounceLock, managerVars
  <2>2. \A q \in Calls : pc[q] \notin {"connect", "setReadOnly", "publish"}
        BY <1>b, <1>c, <2>1 DEF LockDiscipline, HoldsLock
  <2>3. LockDiscipline'
        BY <1>b, <1>c, <2>1, <2>2 DEF LockDiscipline
  <2>4. ManagerTypeOK'
        BY <1>a, <2>1 DEF ManagerTypeOK, LockTypeOK
  <2>5. MapSound' /\ ConnectedReachable' /\ PoolAsResolved' /\ PoolInUseIsOpen'
        BY <1>b, <2>1
           DEF MapSound, ConnectedReachable, Reachable, PoolAsResolved, PoolInUseIsOpen, SettingUp
  <2> QED BY <2>3, <2>4, <2>5 DEF ManagerInv
<1>12. ASSUME CloseDB
       PROVE  ManagerInv'
  <2>1. /\ pc[Main] = "idle" /\ pc' = [pc EXCEPT ![Main] = "lock"]
        /\ readers' = readers /\ blocked' = blocked /\ writer' = writer
        /\ params' = params /\ db' = db /\ connections' = connections /\ pools' = pools
        BY <1>12 DEF CloseDB, Goto, lockVars
  <2>2. pc'[Main] = "lock" /\ \A q \in Procs \ {Main} : pc'[q] = pc[q]
        BY <1>a, <1>c, <2>1
  <2>3. LockDiscipline'
        BY <1>a, <1>b, <1>c, <2>1, <2>2
           DEF LockDiscipline, HoldsLock, Cached, CacheKey
  <2>4. ManagerTypeOK'
        BY <1>a, <1>c, <2>1 DEF ManagerTypeOK, LockTypeOK, Labels
  <2>5. \A q \in Procs \ {Main} : SettingUp(q) => db'[Main] # db[q]
        BY <1>6, <1>c, <1>e, <2>1
  <2> QED BY <1>c, <2>1, <2>3, <2>4, <2>5, QuietStep DEF SettingUp, Labels
<1>13. ASSUME pc[Main] = "lock", HoldsLock(Main)
       PROVE  \A q \in Procs : ~ SettingUp(q)
  BY <1>13, <1>b, <1>c, <1>e DEF LockDiscipline, HoldsLock, SettingUp
<1>14. ASSUME Close
       PROVE  ManagerInv'
  <2> DEFINE mapped(i) == \E k \in DOMAIN connections : connections[k] = i
  <2>1. /\ pc[Main] = "lock" /\ HoldsLock(Main) /\ Unlock(Main)
        /\ pc' = [pc EXCEPT ![Main] = "closed"]
        /\ pools' = [i \in DOMAIN pools |-> [pools[i] EXCEPT !.open = @ /\ ~ mapped(i)]]
        /\ DOMAIN connections' = {} /\ params' = params /\ db' = db
        BY <1>14 DEF Close, Goto, EmptyMap
  <2>2. /\ pc'[Main] = "closed" /\ \A q \in Procs \ {Main} : pc'[q] = pc[q]
        /\ pc' \in [Procs -> Labels]
        BY <1>a, <1>c, <2>1 DEF Labels
  <2>3. DOMAIN pools' = DOMAIN pools
        BY <2>1
  <2>4. ASSUME NEW i \in DOMAIN pools
        PROVE  /\ pools'[i] \in PoolStates
               /\ pools'[i].open => pools[i].open /\ ~ mapped(i)
               /\ pools'[i].connected => pools[i].connected
               /\ pools'[i].dsn = pools[i].dsn /\ pools'[i].readOnly = pools[i].readOnly
    <3>1. PICK r \in PoolStates : pools[i] = r
          BY <1>a DEF IsMap
    <3> HIDE DEF mapped
    <3>2. pools'[i] = [r EXCEPT !.open = @ /\ ~ mapped(i)]
          BY <2>1, <3>1
    <3>3. r.open \in BOOLEAN /\ (r.open /\ ~ mapped(i)) \in BOOLEAN
          BY <3>1 DEF PoolStates
    <3> QED BY <3>1, <3>2, <3>3 DEF PoolStates
  <2>5. IsMap(pools', PoolIds, PoolStates)
    <3>1. pools' = [i \in DOMAIN pools' |-> pools'[i]]
          BY <2>1
    <3> QED BY <1>a, <2>3, <2>4, <3>1 DEF IsMap
  <2>6. ManagerTypeOK'
        BY <1>a, <1>c, <2>1, <2>2, <2>3, <2>5 DEF ManagerTypeOK, LockTypeOK, Unlock
  <2>7. LockDiscipline'
        BY <1>c, <2>1, UnlockDiscipline
  <2>8. \A q \in Procs : ~ SettingUp(q)
        BY <1>13, <2>1
  <2>9. MapSound'
    <3>1. \A q \in Procs : pc'[q] = "using" => q \in Calls /\ db'[q] \in DOMAIN pools'
          BY <1>b, <2>1, <2>2, <2>3 DEF MapSound
    <3>2. \A q \in Calls : pc'[q] \notin {"setReadOnly", "publish"}
          BY <1>c, <2>2, <2>8 DEF SettingUp
    <3> QED BY <2>1, <3>1, <3>2 DEF MapSound, SettingUp
  <2>10. ConnectedReachable'
    <3> SUFFICES ASSUME NEW j \in DOMAIN pools', pools'[j].open, pools'[j].connected
                 PROVE  FALSE
        BY DEF ConnectedReachable
    <3>1. j \in DOMAIN pools /\ pools[j].open /\ pools[j].connected /\ ~ mapped(j)
          BY <2>3, <2>4
    <3> QED BY <1>b, <1>c, <2>8, <3>1 DEF ConnectedReachable, Reachable
  <2>11. PoolAsResolved'
    <3>1. \A q \in Calls : pc'[q] = "using" => pc[q] = "using" /\ db[q] \in DOMAIN pools
          BY <1>b, <1>c, <2>2 DEF MapSound
    <3> QED BY <1>b, <2>1, <2>4, <3>1 DEF PoolAsResolved
  <2>12. PoolInUseIsOpen'
        BY <2>2 DEF PoolInUseIsOpen
  <2> QED BY <2>6, <2>7, <2>9, <2>10, <2>11, <2>12 DEF ManagerInv
<1>16. CASE UNCHANGED vars
  BY <1>16, <1>b
     DEF vars, ManagerInv, ManagerTypeOK, LockTypeOK, LockDiscipline, MapSound,
         ConnectedReachable, Reachable, PoolAsResolved, PoolInUseIsOpen, SettingUp, HoldsLock,
         Cached, CacheKey
<1>17. ASSUME NEW p \in Calls, CallStep(p)
       PROVE  ManagerInv'
  BY <1>2, <1>3, <1>4, <1>5, <1>7, <1>8, <1>9, <1>17 DEF CallStep
<1> QED
  BY <1>1, <1>10, <1>11, <1>12, <1>14, <1>16, <1>17 DEF ManagerNext

(* ManagerInv holds in every reachable state.                              *)
LEMMA ManagerInvariant == ManagerSpec => []ManagerInv
BY ManagerInitInv, ManagerNextInv, PTL DEF ManagerSpec

(* Whatever the calls do, the map holds pools that exist, under the keys   *)
(* and in the states the code expects.                                     *)
THEOREM ManagerTypesCorrect == ManagerSpec => []ManagerTypeOK
<1>1. ManagerInv => ManagerTypeOK
      BY DEF ManagerInv
<1> QED BY <1>1, ManagerInvariant, PTL

(* The open pools that CloseDB cannot find are those whose connect failed; *)
(* neither a failed SET nor a race leaves one behind.                      *)
THEOREM ManagerOnlyFailedConnectsLeak == ManagerSpec => []OnlyFailedConnectsLeak
<1>1. ManagerInv => OnlyFailedConnectsLeak
  <2> SUFFICES ASSUME ManagerInv, NEW i \in DOMAIN pools, pools[i].open
               PROVE  Reachable(i) <=> pools[i].connected
      BY DEF OnlyFailedConnectsLeak
  <2>1. Reachable(i) => pools[i].connected
        BY DEF ManagerInv, MapSound, Reachable
  <2>2. pools[i].connected \in BOOLEAN
        BY DEF ManagerInv, ManagerTypeOK, IsMap, PoolStates
  <2>3. pools[i].connected => Reachable(i)
        BY DEF ManagerInv, ConnectedReachable
  <2> QED BY <2>1, <2>2, <2>3
<1> QED BY <1>1, ManagerInvariant, PTL

(* Calls that miss the cache together never leave two pools for one        *)
(* database in one mode: the second look under the lock suffices.          *)
THEOREM ManagerOnePoolPerMode == ManagerSpec => []OnePoolPerMode
<1>1. ManagerInv => OnePoolPerMode
  <2> SUFFICES ASSUME ManagerInv, NEW i \in DOMAIN pools, NEW j \in DOMAIN pools,
                      pools[i].open, pools[i].connected,
                      pools[j].open, pools[j].connected,
                      pools[i].dsn = pools[j].dsn,
                      pools[i].readOnly = pools[j].readOnly,
                      \A p \in Calls : pc[p] = "setReadOnly" => db[p] \notin {i, j}
               PROVE  i = j
      BY DEF OnePoolPerMode
  <2> DEFINE key(x) == [dsn |-> pools[x].dsn, readOnly |-> pools[x].readOnly]
             Mapped(x) == key(x) \in DOMAIN connections /\ connections[key(x)] = x
             Published(x) == \E p \in Calls : /\ pc[p] = "publish" /\ db[p] = x
                                              /\ HoldsLock(p)
                                              /\ key(x) \notin DOMAIN connections
  <2>1. ASSUME NEW x \in {i, j}
        PROVE  Mapped(x) \/ Published(x)
    <3>1. CASE \E k \in DOMAIN connections : connections[k] = x
          BY <3>1 DEF ManagerInv, MapSound
    <3>2. CASE \E p \in Calls : SettingUp(p) /\ db[p] = x
      <4>1. PICK p \in Calls : pc[p] = "publish" /\ db[p] = x
            BY <3>2 DEF SettingUp
      <4>2. HoldsLock(p) /\ ~ Cached(p)
            BY <4>1 DEF ManagerInv, LockDiscipline
      <4>3. key(x) = CacheKey(params[p])
            BY <4>1 DEF ManagerInv, MapSound, SettingUp, CacheKey
      <4> QED BY <4>1, <4>2, <4>3 DEF Cached
    <3> QED BY <3>1, <3>2 DEF ManagerInv, ConnectedReachable, Reachable
  <2>2. key(i) = key(j)
        OBVIOUS
  <2>3. Published(i) /\ Published(j) => i = j
        BY DEF HoldsLock
  <2> QED BY <2>1, <2>2, <2>3
<1> QED BY <1>1, ManagerInvariant, PTL

(* A call is given a pool of the database and the mode that its own        *)
(* arguments resolve to, never another preset's.                           *)
THEOREM ManagerPoolAsResolved == ManagerSpec => []PoolAsResolved
<1>1. ManagerInv => PoolAsResolved
      BY DEF ManagerInv
<1> QED BY <1>1, ManagerInvariant, PTL

(* Until CloseDB starts, no call's pool is closed under it.                *)
THEOREM ManagerPoolInUseIsOpen == ManagerSpec => []PoolInUseIsOpen
<1>1. ManagerInv => PoolInUseIsOpen
      BY DEF ManagerInv
<1> QED BY <1>1, ManagerInvariant, PTL

=============================================================================
