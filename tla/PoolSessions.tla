---------------------------- MODULE PoolSessions ----------------------------
(***************************************************************************)
(* One *sqlx.DB as createConnectionWithReadOnly leaves it, and the tool    *)
(* calls of server/tools.go that run statements on it.  The pool opens a   *)
(* database session when a statement finds none idle, up to MaxOpenConns,  *)
(* and makes further calls wait.  A call runs its statements one after the *)
(* other, each on a session of its own, and one deadline, queryCtx, covers *)
(* them all: read_query, write queries and the lists run one statement,    *)
(* desc_table four.                                                        *)
(*                                                                         *)
(* The pool itself is package database/sql, modelled from its use here.    *)
(***************************************************************************)
EXTENDS Integers, FiniteSets, GoMap

CONSTANTS
  Calls,          \* the goroutines that serve tool calls
  Sessions,       \* identities of database sessions
  MaxOpenConns,   \* db.SetMaxOpenConns
  MaxIdleConns,   \* db.SetMaxIdleConns
  ReadOnly,       \* the mode the pool was created with
  Statements      \* kind of call -> how many statements it runs in a row

ASSUME SizesAssumption ==
  /\ MaxOpenConns \in Nat \ {0} /\ MaxIdleConns \in Nat /\ ReadOnly \in BOOLEAN
  /\ Statements \in [DOMAIN Statements -> Nat \ {0}]

VARIABLES
  idle,           \* the open sessions no call is using
  owner,          \* the other open sessions: session -> the call that uses it
  restricted,     \* the open sessions whose transactions are read-only
  pc,             \* where each call is
  left            \* how many statements it still has to finish

vars == <<idle, owner, restricted, pc, left>>

Open == idle \cup DOMAIN owner

SessionsOf(c) == {s \in DOMAIN owner : owner[s] = c}

(* ConnectContext's ping has opened a session; the SET, for a read-only    *)
(* pool, has run on the one idle session there is.                         *)
PoolInit ==
  /\ \E s \in Sessions :
       /\ idle = {s}
       /\ restricted = IF ReadOnly THEN {s} ELSE {}
  /\ owner = EmptyMap
  /\ pc = [c \in Calls |-> "idle"]
  /\ left = [c \in Calls |-> 0]

(* A tool handler has its pool and starts the clock of queryCtx.           *)
ToolCall(c, kind) ==
  /\ pc[c] = "idle"
  /\ pc' = [pc EXCEPT ![c] = "waiting"]
  /\ left' = [left EXCEPT ![c] = Statements[kind]]
  /\ UNCHANGED <<idle, owner, restricted>>

(* Mutant: SetMaxOpenConns is not called, which means no limit.            *)
NoLimit == TRUE

MayOpenSession == Cardinality(Open) < MaxOpenConns

(* QueryxContext, ExecContext: the statement starts on an idle session, or *)
(* else on a new one, which starts out as the server's defaults say.       *)
StartStatement(c, s) ==
  /\ pc[c] = "waiting"
  /\ \/ /\ s \in idle
        /\ UNCHANGED restricted
     \/ /\ idle = {} /\ s \notin Open
        /\ MayOpenSession
        /\ restricted' = restricted \ {s}
  /\ idle' = idle \ {s}
  /\ owner' = Put(owner, s, c)
  /\ pc' = [pc EXCEPT ![c] = "running"]
  /\ UNCHANGED left

(* rows.Close, or the end of ExecContext: the pool takes back what c used, *)
(* keeping MaxIdleConns at most (or more, when another call waits).        *)
Release(c) ==
  /\ owner' = Restrict(owner, DOMAIN owner \ SessionsOf(c))
  /\ idle' = IF \/ Cardinality(idle) < MaxIdleConns
                \/ \E d \in Calls \ {c} : pc[d] = "waiting"
               THEN idle \cup SessionsOf(c)
               ELSE idle
  /\ restricted' = restricted \cap (idle' \cup DOMAIN owner')

(* Mutant: desc_table closes its rows only when it returns.                *)
StatementDoneKeepsRows(c) ==
  /\ pc[c] = "running"
  /\ left' = [left EXCEPT ![c] = @ - 1]
  /\ pc' = [pc EXCEPT ![c] = IF left[c] = 1 THEN "idle" ELSE "waiting"]
  /\ IF left[c] = 1 THEN Release(c) ELSE UNCHANGED <<idle, owner, restricted>>

(* All rows read: the next statement, or the call returns its result.      *)
StatementDone(c) ==
  /\ pc[c] = "running"
  /\ left' = [left EXCEPT ![c] = @ - 1]
  /\ pc' = [pc EXCEPT ![c] = IF left[c] = 1 THEN "idle" ELSE "waiting"]
  /\ Release(c)

(* Mutant: an error return without the deferred rows.Close.                *)
StatementFailsLeaks(c) ==
  /\ pc[c] = "running"
  /\ pc' = [pc EXCEPT ![c] = "idle"]
  /\ left' = [left EXCEPT ![c] = 0]
  /\ UNCHANGED <<idle, owner, restricted>>

(* The statement or a scan fails, or desc_table finds no column: the call  *)
(* returns the error and its remaining statements are not run.             *)
StatementFails(c) ==
  /\ pc[c] = "running"
  /\ pc' = [pc EXCEPT ![c] = "idle"]
  /\ left' = [left EXCEPT ![c] = 0]
  /\ Release(c)

(* Mutant: the statement runs under the request's context.                 *)
DeadlineWhileWaiting(c) ==
  /\ pc[c] = "waiting"
  /\ pc' = [pc EXCEPT ![c] = "idle"]
  /\ left' = [left EXCEPT ![c] = 0]
  /\ UNCHANGED <<idle, owner, restricted>>

(* queryCtx ends.  A call that waits gives up; one that runs a statement   *)
(* gives up and the driver closes the session it was using.                *)
Deadline(c) ==
  /\ pc[c] \in {"waiting", "running"}
  /\ pc' = [pc EXCEPT ![c] = "idle"]
  /\ left' = [left EXCEPT ![c] = 0]
  /\ owner' = Restrict(owner, DOMAIN owner \ SessionsOf(c))
  /\ restricted' = restricted \ SessionsOf(c)
  /\ UNCHANGED idle

(* db.SetConnMaxLifetime: an idle session has become too old.              *)
LifetimeEnds(s) ==
  /\ s \in idle
  /\ idle' = idle \ {s}
  /\ restricted' = restricted \ {s}
  /\ UNCHANGED <<owner, pc, left>>

PoolNext ==
  \/ \E c \in Calls, kind \in DOMAIN Statements : ToolCall(c, kind)
  \/ \E c \in Calls, s \in Sessions : StartStatement(c, s)
  \/ \E c \in Calls : StatementDone(c) \/ StatementFails(c) \/ Deadline(c)
  \/ \E s \in Sessions : LifetimeEnds(s)

PoolSpec == PoolInit /\ [][PoolNext]_vars

(* A call in the pool's queue is served in its turn, and the database      *)
(* answers every statement; deadlines may never be met.                    *)
DatabaseAnswers ==
  \A c \in Calls :
    /\ SF_vars(\E s \in Sessions : StartStatement(c, s))
    /\ WF_vars(StatementDone(c) \/ StatementFails(c))

(* Deadlines pass; the database may never answer.                          *)
DeadlinesPass == \A c \in Calls : WF_vars(Deadline(c))

-----------------------------------------------------------------------------
PoolTypeOK ==
  /\ idle \subseteq Sessions
  /\ IsMap(owner, Sessions, Calls)
  /\ idle \cap DOMAIN owner = {}
  /\ restricted \subseteq Open
  /\ Cardinality(Open) <= MaxOpenConns
  /\ pc \in [Calls -> {"idle", "waiting", "running"}]
  /\ left \in [Calls -> Nat]

(* A call that waits for a session holds none, and one that has returned   *)
(* has given its session back: only then can calls not wait for each other *)
(* in a circle, or for ever, when the pool is at its limit.                *)
NoHoldAndWait == \A c \in Calls : pc[c] # "running" => SessionsOf(c) = {}

(* What the two rest on: the sessions are finitely many, and a call that   *)
(* has not returned has a statement to finish.                             *)
PoolInv ==
  /\ PoolTypeOK
  /\ NoHoldAndWait
  /\ IsFiniteSet(Open)
  /\ \A c \in Calls : pc[c] # "idle" => left[c] > 0

(* Every call returns, for one of two reasons, each enough by itself: the  *)
(* database answers, or the deadline passes.                               *)
CallsReturn ==
  DatabaseAnswers \/ DeadlinesPass
  => \A c \in Calls : pc[c] # "idle" ~> pc[c] = "idle"

(* "Set session to read-only if configured" (createConnectionWithReadOnly) *)
(* and "read_only: true presets block all write operations at runtime"     *)
(* (README.md): the sessions of a read-only pool are read-only.            *)
EverySessionReadOnly == ReadOnly => Open \subseteq restricted

=============================================================================
