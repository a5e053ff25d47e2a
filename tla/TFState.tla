------------------------------ MODULE TFState ------------------------------
(***************************************************************************)
(* The OpenTofu state of a workspace and the two ways it is read: the HTTP *)
(* state backend (internal/tfbackend), which serves GET, POST, DELETE,     *)
(* LOCK and UNLOCK over two SQLite tables, and the projection index        *)
(* (internal/projection), an in-memory cache that a goroutine of its own   *)
(* rebuilds after every successful apply.                                  *)
(*                                                                         *)
(* A state blob is abstracted to the number of the POST that wrote it; 0   *)
(* is "no row".  Two kinds of client write: the server's own tofu runs, at *)
(* most one per workspace (the apply queue) and without a lock, because    *)
(* writeBackend configures an address and no lock_address; and operations  *)
(* of other clients that lock first.  Each operation has a lock ID of its  *)
(* own (tofu makes a UUID), so the operation stands for its ID.            *)
(***************************************************************************)
EXTENDS Integers, FiniteSets

CONSTANTS Workspaces,  \* workspace IDs, sanitized tenant names
          Ops,         \* operations of clients that use LOCK and UNLOCK
          Pulls,       \* the goroutines that run Index.Rebuild
          NoOp,        \* no row in tf_locks
          MaxWrites    \* bound on the number of POSTs

ASSUME TFStateAssumption ==
  /\ Workspaces # {}
  /\ NoOp \notin Ops
  /\ MaxWrites \in Nat

VARIABLES blob,      \* tf_state: the blob of a workspace, 0 for no row
          writes,    \* number of POSTs so far
          lockRow,   \* tf_locks: the holder of a workspace
          op,        \* progress of each locking operation
          unlock,    \* UNLOCK requests that compared and are to delete
          sent,      \* UNLOCK requests sent per operation
          run,       \* the server's tofu run of a workspace
          pull,      \* the Rebuild goroutines
          index,     \* Index.entries and serial: the blob a tenant shows
          reading,   \* workspaces whose entries a reader is walking
          writer,    \* the pulls that hold idx.mu for writing
          stolen,    \* history: operations whose row another UNLOCK deleted
          applied,   \* history: blob of the last PhaseApplied
          crossed,   \* history: rebuilds of the workspace have overlapped
          missed     \* history: nothing was rebuilt since a failed pull, DELETE or restart

backendVars == <<blob, writes, lockRow, op, unlock, sent, stolen>>
indexVars == <<run, pull, index, reading, writer, applied, crossed, missed>>
tfStateVars == <<backendVars, indexVars>>

IdlePull == [pc |-> "idle", ws |-> CHOOSE w \in Workspaces : TRUE, blob |-> 0]

TFStateInit ==
  /\ blob = [w \in Workspaces |-> 0]
  /\ writes = 0
  /\ lockRow = [w \in Workspaces |-> NoOp]
  /\ op = [o \in Ops |-> [pc |-> "idle", ws |-> CHOOSE w \in Workspaces : TRUE]]
  /\ unlock = [o \in Ops |-> 0]
  /\ sent = [o \in Ops |-> 0]
  /\ run = [w \in Workspaces |-> "idle"]
  /\ pull = [p \in Pulls |-> IdlePull]
  /\ index = [w \in Workspaces |-> 0]
  /\ reading = {}
  /\ writer = {}
  /\ stolen = {}
  /\ applied = [w \in Workspaces |-> 0]
  /\ crossed = {}
  /\ missed = {}

(***************************************************************************)
(* The HTTP backend.  LOCK is one INSERT on the primary key; when it fails *)
(* the holder is looked up for the 423 answer (500 if it has gone): the    *)
(* operation is refused either way.                                        *)
(***************************************************************************)
LockUpsert(o, w) ==
  /\ op[o].pc = "idle"
  /\ lockRow' = [lockRow EXCEPT ![w] = o]
  /\ op' = [op EXCEPT ![o] = [pc |-> "holds", ws |-> w]]
  /\ UNCHANGED <<blob, writes, unlock, sent, stolen, indexVars>>

lockHolder(w) == lockRow[w]

\* Store.Lock: the INSERT succeeds only on a workspace without a row.
Lock(o, w) == lockHolder(w) = NoOp /\ lockRow' = [lockRow EXCEPT ![w] = o]

handleLock(o, w) ==
  /\ op[o].pc = "idle"
  /\ IF lockHolder(w) = NoOp
     THEN /\ Lock(o, w)
          /\ op' = [op EXCEPT ![o] = [pc |-> "holds", ws |-> w]]
     ELSE /\ op' = [op EXCEPT ![o] = [pc |-> "refused", ws |-> w]]
          /\ UNCHANGED lockRow
  /\ UNCHANGED <<blob, writes, unlock, sent, stolen, indexVars>>

\* POST: an upsert that asks for no lock.
PutState(w) ==
  /\ writes < MaxWrites
  /\ writes' = writes + 1
  /\ blob' = [blob EXCEPT ![w] = writes + 1]

handleWrite(o) ==
  /\ op[o].pc = "holds"
  /\ PutState(op[o].ws)
  /\ UNCHANGED <<lockRow, op, unlock, sent, stolen, indexVars>>

\* DELETE: 404 when there is no row.
DeleteState(w) ==
  /\ blob[w] # 0
  /\ blob' = [blob EXCEPT ![w] = 0]

handleDelete(o) ==
  /\ op[o].pc = "holds"
  /\ DeleteState(op[o].ws)
  /\ missed' = missed \cup {op[o].ws}
  /\ UNCHANGED <<writes, lockRow, op, unlock, sent, stolen,
                 run, pull, index, reading, writer, applied, crossed>>

(***************************************************************************)
(* UNLOCK reads the holder, compares and then deletes the row by workspace *)
(* alone.  The client repeats a request whose answer it did not get        *)
(* (at most one repetition here), so two UNLOCKs of one operation may be   *)
(* in progress.  No holder answers 200 and another holder 409.             *)
(***************************************************************************)
handleUnlock(o) ==
  /\ op[o].pc \in {"holds", "unlocking"}
  /\ sent[o] < 2
  /\ sent' = [sent EXCEPT ![o] = @ + 1]
  /\ op' = [op EXCEPT ![o].pc = "unlocking"]
  /\ IF lockHolder(op[o].ws) = o
     THEN unlock' = [unlock EXCEPT ![o] = @ + 1]
     ELSE UNCHANGED unlock
  /\ UNCHANGED <<blob, writes, lockRow, stolen, indexVars>>

\* Unlock: the row of the workspace goes, whoever holds it by now.
UnlockDelete(o) ==
  LET w == op[o].ws IN
  /\ unlock[o] > 0
  /\ unlock' = [unlock EXCEPT ![o] = @ - 1]
  /\ lockRow' = [lockRow EXCEPT ![w] = NoOp]
  /\ stolen' = stolen \cup ({lockRow[w]} \ {o, NoOp})
  /\ UNCHANGED <<blob, writes, op, sent, indexVars>>

(***************************************************************************)
(* The server's tofu run: Run and its timeout.  It may have posted any     *)
(* number of states before it ends; PhaseApplied starts a Rebuild          *)
(* goroutine, a failure or a timeout starts none.                          *)
(***************************************************************************)
Run(w) ==
  /\ run[w] = "idle"
  /\ run' = [run EXCEPT ![w] = "running"]
  /\ UNCHANGED <<backendVars, pull, index, reading, writer, applied, crossed, missed>>

RunWrite(w) ==
  /\ run[w] = "running"
  /\ PutState(w)
  /\ UNCHANGED <<lockRow, op, unlock, sent, stolen, indexVars>>

RunFailed(w) ==
  /\ run[w] = "running"
  /\ run' = [run EXCEPT ![w] = "idle"]
  /\ UNCHANGED <<backendVars, pull, index, reading, writer, applied, crossed, missed>>

Busy(w) == {p \in Pulls : pull[p].pc # "idle" /\ pull[p].ws = w}

ProjectionListener(w, p) ==
  /\ run[w] = "running"
  /\ pull[p].pc = "idle"
  /\ run' = [run EXCEPT ![w] = "idle"]
  /\ pull' = [pull EXCEPT ![p] = [pc |-> "spawned", ws |-> w, blob |-> 0]]
  /\ applied' = [applied EXCEPT ![w] = blob[w]]
  /\ crossed' = IF Busy(w) # {} THEN crossed \cup {w} ELSE crossed \ {w}
  /\ missed' = missed \ {w}
  /\ UNCHANGED <<backendVars, index, reading, writer>>

(***************************************************************************)
(* Index.Rebuild.  The state is pulled without a lock; a failed pull       *)
(* leaves the index alone.  An absent state clears the entries without     *)
(* idx.mu; any other is parsed and installed under idx.mu, whatever the    *)
(* serial of what is there.                                                *)
(***************************************************************************)
GetState(w) == blob[w]

StatePull(p) ==
  /\ pull[p].pc = "spawned"
  /\ pull' = [pull EXCEPT ![p].pc = "pulled", ![p].blob = GetState(pull[p].ws)]
  /\ UNCHANGED <<backendVars, run, index, reading, writer, applied, crossed, missed>>

PullFails(p) ==
  /\ pull[p].pc = "spawned"
  /\ pull' = [pull EXCEPT ![p] = IdlePull]
  /\ missed' = missed \cup {pull[p].ws}
  /\ UNCHANGED <<backendVars, run, index, reading, writer, applied, crossed>>

InstallUnlocked(p) ==
  /\ pull[p].pc = "pulled"
  /\ pull[p].blob # 0
  /\ pull' = [pull EXCEPT ![p].pc = "installing"]
  /\ writer' = writer \cup {p}
  /\ UNCHANGED <<backendVars, run, index, reading, applied, crossed, missed>>

InstallLock(p) ==
  /\ pull[p].pc = "pulled"
  /\ pull[p].blob # 0
  /\ writer = {}
  /\ reading = {}
  /\ pull' = [pull EXCEPT ![p].pc = "installing"]
  /\ writer' = writer \cup {p}
  /\ UNCHANGED <<backendVars, run, index, reading, applied, crossed, missed>>

InstallNothing(p) ==
  /\ pull[p].pc = "installing"
  /\ pull' = [pull EXCEPT ![p] = IdlePull]
  /\ writer' = writer \ {p}
  /\ UNCHANGED <<backendVars, run, index, reading, applied, crossed, missed>>

Install(p) ==
  /\ pull[p].pc = "installing"
  /\ index' = [index EXCEPT ![pull[p].ws] = pull[p].blob]
  /\ pull' = [pull EXCEPT ![p] = IdlePull]
  /\ writer' = writer \ {p}
  /\ UNCHANGED <<backendVars, run, reading, applied, crossed, missed>>

ClearStart(p) ==
  /\ pull[p].pc = "pulled"
  /\ pull[p].blob = 0
  /\ pull' = [pull EXCEPT ![p].pc = "clearing"]
  /\ UNCHANGED <<backendVars, run, index, reading, writer, applied, crossed, missed>>

Clear(p) ==
  /\ pull[p].pc = "clearing"
  /\ index' = [index EXCEPT ![pull[p].ws] = 0]
  /\ pull' = [pull EXCEPT ![p] = IdlePull]
  /\ UNCHANGED <<backendVars, run, reading, writer, applied, crossed, missed>>

\* List, Lookup and Serial walk the entries under idx.mu.RLock.
ListStart(w) ==
  /\ writer = {}
  /\ w \notin reading
  /\ reading' = reading \cup {w}
  /\ UNCHANGED <<backendVars, run, pull, index, writer, applied, crossed, missed>>

List(w) ==
  /\ w \in reading
  /\ reading' = reading \ {w}
  /\ UNCHANGED <<backendVars, run, pull, index, writer, applied, crossed, missed>>

\* The process restarts: the tables stay, the index is empty again.
Restart ==
  /\ run' = [w \in Workspaces |-> "idle"]
  /\ missed' = missed \cup Workspaces
  /\ pull' = [p \in Pulls |-> IdlePull]
  /\ index' = [w \in Workspaces |-> 0]
  /\ reading' = {}
  /\ writer' = {}
  /\ unlock' = [o \in Ops |-> 0]
  /\ UNCHANGED <<blob, writes, lockRow, op, sent, stolen, applied, crossed>>

TFStateNext ==
  \/ \E o \in Ops, w \in Workspaces : handleLock(o, w)
  \/ \E o \in Ops : handleWrite(o) \/ handleDelete(o) \/ handleUnlock(o) \/ UnlockDelete(o)
  \/ \E w \in Workspaces : Run(w) \/ RunWrite(w) \/ RunFailed(w) \/ ListStart(w) \/ List(w)
  \/ \E w \in Workspaces, p \in Pulls : ProjectionListener(w, p)
  \/ \E p \in Pulls :
       \/ StatePull(p) \/ PullFails(p)
       \/ InstallLock(p) \/ Install(p) \/ ClearStart(p) \/ Clear(p)
  \/ Restart

TFStateSpec == TFStateInit /\ [][TFStateNext]_tfStateVars

-----------------------------------------------------------------------------

TFStateTypeOK ==
  /\ blob \in [Workspaces -> 0..MaxWrites]
  /\ writes \in 0..MaxWrites
  /\ lockRow \in [Workspaces -> Ops \cup {NoOp}]
  /\ op \in [Ops -> [pc : {"idle", "holds", "refused", "unlocking"}, ws : Workspaces]]
  /\ unlock \in [Ops -> 0..2]
  /\ sent \in [Ops -> 0..2]
  /\ run \in [Workspaces -> {"idle", "running"}]
  /\ pull \in [Pulls -> [pc : {"idle", "spawned", "pulled", "installing", "clearing"},
                         ws : Workspaces, blob : 0..MaxWrites]]
  /\ index \in [Workspaces -> 0..MaxWrites]
  /\ reading \subseteq Workspaces
  /\ writer \subseteq Pulls
  /\ stolen \subseteq Ops
  /\ applied \in [Workspaces -> 0..MaxWrites]
  /\ crossed \subseteq Workspaces
  /\ missed \subseteq Workspaces

(***************************************************************************)
(* Two clients work under the lock of one workspace at the same time only  *)
(* after a late UNLOCK deleted the row of one of them: the primary key of  *)
(* tf_locks is the only exclusion (Lock), and Unlock's comparison is the   *)
(* only way round it.                                                      *)
(***************************************************************************)
LockExclusive ==
  \A a, b \in Ops :
    (a # b /\ op[a].pc = "holds" /\ op[b].pc = "holds" /\ op[a].ws = op[b].ws)
      => {a, b} \cap stolen # {}

(***************************************************************************)
(* Once the last rebuild of a workspace has ended, and rebuilds of it did  *)
(* not overlap, the index shows the state of the last successful apply or  *)
(* a later one; only a failed pull, a DELETE and a restart leave it behind. *)
(***************************************************************************)
IndexCatchesUp ==
  \A w \in Workspaces :
    (Busy(w) = {} /\ w \notin crossed \cup missed) => index[w] >= applied[w]

(***************************************************************************)
(* Two accesses to the index maps overlap, one of them a write, only when  *)
(* one is the unlocked delete of an absent state: every other access is    *)
(* under idx.mu.                                                           *)
(***************************************************************************)
UnlockedOnlyForEmpty ==
  /\ Cardinality(writer) <= 1
  /\ writer # {} => reading = {}
  /\ \A p \in Pulls : pull[p].pc = "installing" <=> p \in writer

-----------------------------------------------------------------------------
(***************************************************************************)
(* What makes the three invariants above inductive.  An operation that     *)
(* works under a lock has the row unless a late UNLOCK took it, and only   *)
(* an operation that is done working has an UNLOCK in progress, each sent  *)
(* by its client.                                                          *)
(***************************************************************************)
LockInv ==
  \A o \in Ops :
    /\ op[o].pc = "holds" => lockRow[op[o].ws] = o \/ o \in stolen
    /\ unlock[o] > 0 => op[o].pc = "unlocking"
    /\ unlock[o] <= sent[o]

(***************************************************************************)
(* Blob numbers only grow, so between the end of an apply and the end of   *)
(* the rebuild it started, the stored blob and whatever the rebuild pulled *)
(* are the applied blob or a later one.                                    *)
(***************************************************************************)
IndexInv ==
  /\ \A w \in Workspaces : blob[w] <= writes /\ applied[w] <= writes
  /\ \A w \in Workspaces \ missed : blob[w] >= applied[w]
  /\ \A p \in Pulls : pull[p].pc = "clearing" => pull[p].blob = 0
  /\ \A p \in Pulls :
       (/\ pull[p].pc \in {"pulled", "installing", "clearing"}
        /\ pull[p].ws \notin crossed \cup missed)
         => pull[p].blob >= applied[pull[p].ws]
  /\ IndexCatchesUp

\* At most one pull is in idx.mu's critical section, and no reader with it.
MutexInv ==
  /\ \A p, q \in writer : p = q
  /\ writer # {} => reading = {}
  /\ \A p \in Pulls : pull[p].pc = "installing" <=> p \in writer

TFStateInv == TFStateTypeOK /\ LockInv /\ IndexInv /\ MutexInv
=============================================================================
