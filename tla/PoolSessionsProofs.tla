------------------------ MODULE PoolSessionsProofs ------------------------
(* The limit of the pool and the absence of hold-and-wait, for any number  *)
(* of calls and sessions, any limits and any kinds of calls.               *)
EXTENDS PoolSessions, FiniteSetTheorems, TLAPS

(* A pool as createConnectionWithReadOnly leaves it.                       *)
LEMMA PoolInitInv == PoolInit => PoolInv
<1> SUFFICES ASSUME PoolInit
             PROVE  PoolInv
    OBVIOUS
<1>1. PICK s \in Sessions : idle = {s} /\ restricted \subseteq {s}
      BY DEF PoolInit
<1>2. Open = {s}
      BY <1>1 DEF PoolInit, Open, EmptyMap
<1>3. IsFiniteSet(Open) /\ Cardinality(Open) <= MaxOpenConns
  <2>1. IsFiniteSet({s}) /\ Cardinality({s}) = 1
        BY FS_Singleton, Zenon
  <2> QED BY <1>2, <2>1, SizesAssumption
<1>4. PoolTypeOK
      BY <1>1, <1>2, <1>3 DEF PoolInit, PoolTypeOK, IsMap, EmptyMap
<1>5. NoHoldAndWait
      BY DEF PoolInit, NoHoldAndWait, SessionsOf, EmptyMap
<1> QED BY <1>3, <1>4, <1>5 DEF PoolInit, PoolInv

(* Closing sessions keeps the pool within its limit.                       *)
LEMMA FewerOpen ==
  ASSUME PoolInv, Open' \subseteq Open
  PROVE  IsFiniteSet(Open') /\ Cardinality(Open') <= MaxOpenConns
<1>1. /\ IsFiniteSet(Open') /\ Cardinality(Open') <= Cardinality(Open)
      /\ Cardinality(Open) \in Nat /\ Cardinality(Open') \in Nat
      BY FS_Subset, FS_CardinalityType DEF PoolInv
<1> QED BY <1>1, SizesAssumption DEF PoolInv, PoolTypeOK

(* When a call gives its sessions back, the others keep theirs.            *)
LEMMA ReleaseSound ==
  ASSUME PoolInv, NEW c \in Calls, Release(c)
  PROVE  /\ idle' \subseteq Sessions
         /\ IsMap(owner', Sessions, Calls)
         /\ idle' \cap DOMAIN owner' = {}
         /\ restricted' \subseteq Open'
         /\ Open' \subseteq Open
         /\ SessionsOf(c)' = {}
         /\ \A d \in Calls : SessionsOf(d)' \subseteq SessionsOf(d)
<1> USE DEF PoolInv, PoolTypeOK, IsMap, Restrict, SessionsOf, Open
<1>1. /\ owner' = [s \in DOMAIN owner \ SessionsOf(c) |-> owner[s]]
      /\ idle' \subseteq idle \cup SessionsOf(c)
      /\ restricted' = restricted \cap (idle' \cup DOMAIN owner')
      BY DEF Release
<1> QED BY <1>1

(* One step per action.                                                    *)
LEMMA PoolNextInv == PoolInv /\ [PoolNext]_vars => PoolInv'
<1> SUFFICES ASSUME PoolInv, [PoolNext]_vars
             PROVE  PoolInv'
    OBVIOUS
<1>a. /\ idle \subseteq Sessions
      /\ IsMap(owner, Sessions, Calls)
      /\ idle \cap DOMAIN owner = {}
      /\ restricted \subseteq Open
      /\ Cardinality(Open) <= MaxOpenConns
      /\ pc \in [Calls -> {"idle", "waiting", "running"}]
      /\ left \in [Calls -> Nat]
      BY DEF PoolInv, PoolTypeOK
<1>b. /\ \A c \in Calls : pc[c] # "running" => SessionsOf(c) = {}
      /\ IsFiniteSet(Open)
      /\ \A c \in Calls : pc[c] # "idle" => left[c] > 0
      BY DEF PoolInv, NoHoldAndWait
<1>1. ASSUME NEW c \in Calls, NEW kind \in DOMAIN Statements, ToolCall(c, kind)
      PROVE  PoolInv'
  <2>1. Statements[kind] \in Nat \ {0}
        BY SizesAssumption
  <2>2. /\ pc' = [pc EXCEPT ![c] = "waiting"] /\ pc[c] = "idle"
        /\ left' = [left EXCEPT ![c] = Statements[kind]]
        /\ UNCHANGED <<idle, owner, restricted>>
        BY <1>1 DEF ToolCall
  <2>3. Open' = Open /\ \A d \in Calls : SessionsOf(d)' = SessionsOf(d)
        BY <2>2 DEF Open, SessionsOf
  <2>4. PoolTypeOK'
        BY <1>a, <2>1, <2>2, <2>3 DEF PoolTypeOK
  <2> QED BY <1>a, <1>b, <2>1, <2>2, <2>3, <2>4 DEF PoolInv, NoHoldAndWait
<1>2. ASSUME NEW c \in Calls, NEW s \in Sessions, StartStatement(c, s)
      PROVE  PoolInv'
  <2>1. /\ pc[c] = "waiting" /\ pc' = [pc EXCEPT ![c] = "running"]
        /\ idle' = idle \ {s} /\ owner' = Put(owner, s, c)
        /\ left' = left
        BY <1>2 DEF StartStatement
  <2>2. Open' = Open \cup {s} /\ s \notin DOMAIN owner
        BY <1>2, <1>a, <2>1 DEF StartStatement, Open, Put
  <2>3. IsFiniteSet(Open') /\ Cardinality(Open') <= MaxOpenConns
    <3>1. CASE s \in idle
      <4>1. Open' = Open
            BY <2>2, <3>1 DEF Open
      <4> QED BY <1>a, <1>b, <4>1
    <3>2. CASE s \notin Open /\ Cardinality(Open) < MaxOpenConns
      <4>1. /\ IsFiniteSet(Open') /\ Cardinality(Open') = Cardinality(Open) + 1
            /\ Cardinality(Open) \in Nat
            BY <1>b, <2>2, <3>2, FS_AddElement, FS_CardinalityType
      <4> QED BY <3>2, <4>1, SizesAssumption
    <3> QED BY <1>2, <3>1, <3>2 DEF StartStatement, MayOpenSession
  <2>4. restricted' \subseteq restricted
        BY <1>2 DEF StartStatement
  <2>5. /\ IsMap(owner', Sessions, Calls)
        /\ idle' \cap DOMAIN owner' = {}
        /\ \A d \in Calls \ {c} : SessionsOf(d)' = SessionsOf(d)
        BY <1>a, <2>1, <2>2 DEF IsMap, Put, SessionsOf
  <2>6. PoolTypeOK'
        BY <1>a, <2>1, <2>2, <2>3, <2>4, <2>5 DEF PoolTypeOK
  <2>7. NoHoldAndWait'
        BY <1>a, <1>b, <2>1, <2>5 DEF NoHoldAndWait
  <2> QED BY <1>a, <1>b, <2>1, <2>3, <2>6, <2>7 DEF PoolInv
<1>3. ASSUME NEW c \in Calls, StatementDone(c)
      PROVE  PoolInv'
  <2>1. Release(c)
        BY <1>3 DEF StatementDone
  <2>2. /\ pc[c] = "running"
        /\ left' = [left EXCEPT ![c] = left[c] - 1]
        /\ pc' = [pc EXCEPT ![c] = IF left[c] = 1 THEN "idle" ELSE "waiting"]
        BY <1>3 DEF StatementDone
  <2>3. left' \in [Calls -> Nat] /\ \A d \in Calls : pc'[d] # "idle" => left'[d] > 0
        BY <1>a, <1>b, <2>2
  <2>4. PoolTypeOK'
        BY <1>a, <2>1, <2>2, <2>3, ReleaseSound, FewerOpen DEF PoolTypeOK
  <2>5. NoHoldAndWait'
        BY <1>a, <1>b, <2>1, <2>2, ReleaseSound DEF NoHoldAndWait
  <2> QED BY <2>1, <2>3, <2>4, <2>5, ReleaseSound, FewerOpen DEF PoolInv
<1>4. ASSUME NEW c \in Calls, StatementFails(c)
      PROVE  PoolInv'
  <2>1. Release(c)
        BY <1>4 DEF StatementFails
  <2>2. /\ left' = [left EXCEPT ![c] = 0]
        /\ pc' = [pc EXCEPT ![c] = "idle"]
        BY <1>4 DEF StatementFails
  <2>3. PoolTypeOK'
        BY <1>a, <2>1, <2>2, ReleaseSound, FewerOpen DEF PoolTypeOK
  <2>4. NoHoldAndWait'
        BY <1>a, <1>b, <2>1, <2>2, ReleaseSound DEF NoHoldAndWait
  <2> QED BY <1>a, <1>b, <2>1, <2>2, <2>3, <2>4, ReleaseSound, FewerOpen DEF PoolInv
<1>5. ASSUME NEW c \in Calls, Deadline(c)
      PROVE  PoolInv'
  <2>1. /\ left' = [left EXCEPT ![c] = 0]
        /\ pc' = [pc EXCEPT ![c] = "idle"]
        /\ owner' = [s \in DOMAIN owner \ SessionsOf(c) |-> owner[s]]
        /\ restricted' = restricted \ SessionsOf(c)
        /\ idle' = idle
        BY <1>5 DEF Deadline, Restrict
  <2>2. /\ IsMap(owner', Sessions, Calls)
        /\ Open' \subseteq Open /\ restricted' \subseteq Open'
        /\ SessionsOf(c)' = {}
        /\ \A d \in Calls : SessionsOf(d)' \subseteq SessionsOf(d)
        BY <1>a, <2>1 DEF IsMap, Open, SessionsOf
  <2>3. PoolTypeOK'
        BY <1>a, <2>1, <2>2, FewerOpen DEF PoolTypeOK
  <2>4. NoHoldAndWait'
        BY <1>a, <1>b, <2>1, <2>2 DEF NoHoldAndWait
  <2> QED BY <1>a, <1>b, <2>1, <2>2, <2>3, <2>4, FewerOpen DEF PoolInv
<1>6. ASSUME NEW s \in Sessions, LifetimeEnds(s)
      PROVE  PoolInv'
  <2>1. /\ idle' = idle \ {s} /\ restricted' = restricted \ {s}
        /\ UNCHANGED <<owner, pc, left>>
        BY <1>6 DEF LifetimeEnds
  <2>2. /\ Open' \subseteq Open /\ restricted' \subseteq Open'
        /\ \A d \in Calls : SessionsOf(d)' = SessionsOf(d)
        BY <1>a, <2>1 DEF Open, SessionsOf
  <2>3. PoolTypeOK'
        BY <1>a, <2>1, <2>2, FewerOpen DEF PoolTypeOK
  <2> QED BY <1>b, <2>1, <2>2, <2>3, FewerOpen DEF PoolInv, NoHoldAndWait
<1>7. CASE UNCHANGED vars
      BY <1>7 DEF vars, PoolInv, PoolTypeOK, NoHoldAndWait, Open, SessionsOf
<1> QED BY <1>1, <1>2, <1>3, <1>4, <1>5, <1>6, <1>7 DEF PoolNext

(* The pool never has more sessions open than SetMaxOpenConns allows, and  *)
(* no session is idle and in use.                                          *)
THEOREM PoolTypesCorrect == PoolSpec => []PoolTypeOK
<1>1. PoolInv => PoolTypeOK
      BY DEF PoolInv
<1> QED BY <1>1, PoolInitInv, PoolNextInv, PTL DEF PoolSpec

(* No call holds a session while it waits for another, or after it has     *)
(* returned.                                                               *)
THEOREM PoolNoHoldAndWait == PoolSpec => []NoHoldAndWait
<1>1. PoolInv => NoHoldAndWait
      BY DEF PoolInv
<1> QED BY <1>1, PoolInitInv, PoolNextInv, PTL DEF PoolSpec

=============================================================================
