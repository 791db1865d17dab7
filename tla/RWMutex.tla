------------------------------ MODULE RWMutex ------------------------------
(***************************************************************************)
(* Go's sync.RWMutex, as DBManager uses it.  A writer first announces      *)
(* itself, which keeps new readers out, and holds the lock when the readers*)
(* that were in have left; its Unlock lets in the readers that queued up   *)
(* meanwhile, before another writer can announce itself.                   *)
(***************************************************************************)
CONSTANTS Procs, NoProc

ASSUME NoProcAssumption == NoProc \notin Procs

VARIABLES
  readers,     \* the processes that hold the read lock
  blocked,     \* the processes RLock has put to sleep
  writer       \* the process that has announced itself, or NoProc

lockVars == <<readers, blocked, writer>>

LockTypeOK ==
  /\ readers \subseteq Procs
  /\ blocked \subseteq Procs
  /\ writer \in Procs \cup {NoProc}

LockInit == readers = {} /\ blocked = {} /\ writer = NoProc

HoldsLock(p) == writer = p /\ readers = {}

RLock(p) ==
  /\ IF writer = NoProc
       THEN readers' = readers \cup {p} /\ UNCHANGED blocked
       ELSE blocked' = blocked \cup {p} /\ UNCHANGED readers
  /\ UNCHANGED writer

RUnlock(p) ==
  /\ readers' = readers \ {p}
  /\ UNCHANGED <<blocked, writer>>

(* The first half of Lock; the second is to wait for HoldsLock(p).         *)
AnnounceLock(p) ==
  /\ writer = NoProc
  /\ writer' = p
  /\ UNCHANGED <<readers, blocked>>

Unlock(p) ==
  /\ writer' = NoProc
  /\ readers' = blocked
  /\ blocked' = {}

=============================================================================
