---------------------------- MODULE PlaneProofs ----------------------------
(***************************************************************************)
(* Proofs about the components behind the apply loop: the state backend    *)
(* with the projection index, the status of a tenant (the tracker behind   *)
(* its bounded channel, the PUT handlers it races with, the health cache)  *)
(* and the converge engine, for any number of workspaces, operations,      *)
(* machines, handler goroutines, callers, events, writes and edits.        *)
(***************************************************************************)
EXTENDS TFState, StatusPlane, Converge, FiniteSetTheorems, SequenceTheorems, TLAPS

-----------------------------------------------------------------------------
(* The state backend and the projection index. *)

(***************************************************************************)
(* The workspace an idle operation or pull carries is one of Workspaces.   *)
(***************************************************************************)
LEMMA IdlePullType ==
  /\ IdlePull.pc = "idle"
  /\ IdlePull \in [pc : {"idle", "spawned", "pulled", "installing", "clearing"},
                   ws : Workspaces, blob : 0..MaxWrites]
  /\ (CHOOSE w \in Workspaces : TRUE) \in Workspaces
  <1>1. (CHOOSE w \in Workspaces : TRUE) \in Workspaces
    BY TFStateAssumption DEF TFStateAssumption
  <1> QED BY <1>1, TFStateAssumption DEF TFStateAssumption, IdlePull

(***************************************************************************)
(* TFStateInit establishes the inductive invariant: no rows, no runs, no   *)
(* rebuilds.                                                               *)
(***************************************************************************)
LEMMA TFStateInitInv == TFStateInit => TFStateInv
  <1> SUFFICES ASSUME TFStateInit PROVE TFStateInv
    OBVIOUS
  <1>1. TFStateTypeOK
    BY IdlePullType, TFStateAssumption
    DEF TFStateAssumption, TFStateInit, TFStateTypeOK
  <1>2. LockInv
    BY DEF TFStateInit, LockInv
  <1>3. IndexInv
    BY IdlePullType DEF TFStateInit, IndexInv, IndexCatchesUp, Busy
  <1>4. MutexInv
    BY IdlePullType DEF TFStateInit, MutexInv
  <1> QED BY <1>1, <1>2, <1>3, <1>4 DEF TFStateInv

(***************************************************************************)
(* Every request of the backend, step of a run and step of a rebuild keeps *)
(* the types.                                                              *)
(***************************************************************************)
LEMMA TFStateTypeStep ==
  ASSUME TFStateTypeOK, LockInv, [TFStateNext]_tfStateVars
  PROVE  TFStateTypeOK'
  <1> USE TFStateAssumption DEF TFStateAssumption, TFStateTypeOK
  <1>1. ASSUME NEW o \in Ops, NEW w \in Workspaces, handleLock(o, w)
        PROVE  TFStateTypeOK'
    <2>1. CASE lockHolder(w) = NoOp
      BY <1>1, <2>1, SMTT(30) DEF handleLock, Lock, indexVars
    <2>2. CASE lockHolder(w) # NoOp
      BY <1>1, <2>2 DEF handleLock, indexVars
    <2> QED BY <2>1, <2>2
  <1>2. ASSUME NEW o \in Ops, handleWrite(o)
        PROVE  TFStateTypeOK'
    BY <1>2 DEF handleWrite, PutState, indexVars
  <1>3. ASSUME NEW o \in Ops, handleDelete(o)
        PROVE  TFStateTypeOK'
    BY <1>3 DEF handleDelete, DeleteState
  <1>4. ASSUME NEW o \in Ops, handleUnlock(o)
        PROVE  TFStateTypeOK'
    <2>1. sent' \in [Ops -> 0..2] /\ op' = [op EXCEPT ![o].pc = "unlocking"]
      BY <1>4 DEF handleUnlock
    <2>2. unlock' = unlock \/ unlock' = [unlock EXCEPT ![o] = @ + 1]
      BY <1>4 DEF handleUnlock
    <2>3. unlock[o] < 2
      BY <1>4 DEF handleUnlock, LockInv
    <2> QED BY <1>4, <2>1, <2>2, <2>3 DEF handleUnlock, indexVars
  <1>5. ASSUME NEW o \in Ops, UnlockDelete(o)
        PROVE  TFStateTypeOK'
    BY <1>5 DEF UnlockDelete, indexVars
  <1>6. ASSUME NEW w \in Workspaces, Run(w) \/ RunFailed(w)
        PROVE  TFStateTypeOK'
    BY <1>6 DEF Run, RunFailed, backendVars
  <1>7. ASSUME NEW w \in Workspaces, RunWrite(w)
        PROVE  TFStateTypeOK'
    BY <1>7 DEF RunWrite, PutState, indexVars
  <1>8. ASSUME NEW w \in Workspaces, ListStart(w) \/ List(w)
        PROVE  TFStateTypeOK'
    BY <1>8 DEF ListStart, List, backendVars
  <1>9. ASSUME NEW w \in Workspaces, NEW p \in Pulls, ProjectionListener(w, p)
        PROVE  TFStateTypeOK'
    BY <1>9 DEF ProjectionListener, backendVars
  <1>10. ASSUME NEW p \in Pulls, StatePull(p)
         PROVE  TFStateTypeOK'
    BY <1>10, ZenonT(60) DEF StatePull, GetState, backendVars
  <1>11. ASSUME NEW p \in Pulls, PullFails(p)
         PROVE  TFStateTypeOK'
    BY <1>11, IdlePullType DEF PullFails, backendVars
  <1>12. ASSUME NEW p \in Pulls, InstallLock(p) \/ ClearStart(p)
         PROVE  TFStateTypeOK'
    <2>1. CASE InstallLock(p)
      BY <2>1 DEF InstallLock, backendVars
    <2>2. CASE ClearStart(p)
      BY <2>2 DEF ClearStart, backendVars
    <2> QED BY <1>12, <2>1, <2>2
  <1>13. ASSUME NEW p \in Pulls, Install(p) \/ Clear(p)
         PROVE  TFStateTypeOK'
    <2>1. CASE Install(p)
      BY <2>1, IdlePullType DEF Install, backendVars
    <2>2. CASE Clear(p)
      BY <2>2, IdlePullType DEF Clear, backendVars
    <2> QED BY <1>13, <2>1, <2>2
  <1>14. CASE Restart
    BY <1>14, IdlePullType DEF Restart
  <1>15. CASE UNCHANGED tfStateVars
    BY <1>15 DEF tfStateVars, backendVars, indexVars
  <1> QED
    BY <1>1, <1>2, <1>3, <1>4, <1>5, <1>6, <1>7, <1>8, <1>9, <1>10, <1>11, <1>12,
       <1>13, <1>14, <1>15 DEF TFStateNext

(***************************************************************************)
(* LOCK, UNLOCK and the delayed delete of UNLOCK keep LockInv: the INSERT  *)
(* only takes a workspace without a row, and the delete marks the holder   *)
(* it displaces as stolen.                                                 *)
(***************************************************************************)
LEMMA LockStep ==
  ASSUME TFStateTypeOK, LockInv, [TFStateNext]_tfStateVars
  PROVE  LockInv'
  <1> USE TFStateAssumption DEF TFStateAssumption, TFStateTypeOK, LockInv
  <1>1. ASSUME NEW o \in Ops, NEW w \in Workspaces, handleLock(o, w)
        PROVE  LockInv'
    <2>1. CASE lockHolder(w) = NoOp
      <3> SUFFICES ASSUME NEW a \in Ops, op'[a].pc = "holds"
                   PROVE  lockRow'[op'[a].ws] = a \/ a \in stolen'
        BY <1>1, <2>1 DEF handleLock, Lock
      <3>1. CASE a = o
        BY <1>1, <2>1, <3>1 DEF handleLock, Lock
      <3>2. CASE a # o
        BY <1>1, <2>1, <3>2 DEF handleLock, Lock, lockHolder
      <3> QED BY <3>1, <3>2
    <2>2. CASE lockHolder(w) # NoOp
      BY <1>1, <2>2 DEF handleLock
    <2> QED BY <2>1, <2>2
  <1>2. ASSUME NEW o \in Ops, handleWrite(o) \/ handleDelete(o)
        PROVE  LockInv'
    BY <1>2 DEF handleWrite, handleDelete
  <1>3. ASSUME NEW o \in Ops, handleUnlock(o)
        PROVE  LockInv'
    <2>1. unlock' = unlock \/ unlock' = [unlock EXCEPT ![o] = @ + 1]
      BY <1>3 DEF handleUnlock
    <2> QED BY <1>3, <2>1 DEF handleUnlock
  <1>4. ASSUME NEW o \in Ops, UnlockDelete(o)
        PROVE  LockInv'
    <2> SUFFICES ASSUME NEW a \in Ops
                 PROVE  /\ op[a].pc = "holds"
                             => lockRow'[op[a].ws] = a \/ a \in stolen'
                        /\ unlock'[a] > 0 => op[a].pc = "unlocking"
                        /\ unlock'[a] <= sent[a]
      BY <1>4 DEF UnlockDelete
    <2>1. op[o].pc = "unlocking"
      BY <1>4 DEF UnlockDelete
    <2> QED BY <1>4, <2>1 DEF UnlockDelete
  <1>5. ASSUME UNCHANGED <<lockRow, op, unlock, sent, stolen>>
        PROVE  LockInv'
    BY <1>5
  <1>6. CASE Restart
    BY <1>6 DEF Restart
  <1> QED
    BY <1>1, <1>2, <1>3, <1>4, <1>5, <1>6
    DEF TFStateNext, Run, RunWrite, RunFailed, ListStart, List, ProjectionListener,
        StatePull, PullFails, InstallLock, Install, ClearStart, Clear, backendVars,
        indexVars, tfStateVars

(***************************************************************************)
(* Taking, releasing and dropping idx.mu keeps MutexInv: InstallLock waits *)
(* for the writer and the readers, ListStart for the writer.               *)
(***************************************************************************)
LEMMA MutexStep ==
  ASSUME TFStateTypeOK, MutexInv, [TFStateNext]_tfStateVars
  PROVE  MutexInv'
  <1> USE DEF TFStateTypeOK, MutexInv
  <1>1. ASSUME UNCHANGED <<pull, reading, writer>>
        PROVE  MutexInv'
    BY <1>1
  <1>2. ASSUME NEW w \in Workspaces, ListStart(w) \/ List(w)
        PROVE  MutexInv'
    BY <1>2 DEF ListStart, List
  <1>3. ASSUME NEW w \in Workspaces, NEW p \in Pulls, ProjectionListener(w, p)
        PROVE  MutexInv'
    BY <1>3 DEF ProjectionListener
  <1>4. ASSUME NEW p \in Pulls, StatePull(p)
        PROVE  MutexInv'
    BY <1>4 DEF StatePull
  <1>5. ASSUME NEW p \in Pulls, PullFails(p)
        PROVE  MutexInv'
    BY <1>5, IdlePullType DEF PullFails
  <1>6. ASSUME NEW p \in Pulls, InstallLock(p)
        PROVE  MutexInv'
    BY <1>6 DEF InstallLock
  <1>7. ASSUME NEW p \in Pulls, Install(p)
        PROVE  MutexInv'
    BY <1>7, IdlePullType DEF Install
  <1>8. ASSUME NEW p \in Pulls, ClearStart(p)
        PROVE  MutexInv'
    BY <1>8 DEF ClearStart
  <1>9. ASSUME NEW p \in Pulls, Clear(p)
        PROVE  MutexInv'
    BY <1>9, IdlePullType DEF Clear
  <1>10. CASE Restart
    BY <1>10, IdlePullType DEF Restart
  <1> QED
    BY <1>1, <1>2, <1>3, <1>4, <1>5, <1>6, <1>7, <1>8, <1>9, <1>10
    DEF TFStateNext, handleLock, handleWrite, handleDelete, handleUnlock, UnlockDelete,
        Run, RunWrite, RunFailed, indexVars, tfStateVars

(***************************************************************************)
(* POST, DELETE, the end of an apply and every step of a rebuild keep      *)
(* IndexInv: blobs only grow, except for a DELETE, a failed pull and a     *)
(* restart, which mark the workspace as missed until the next apply.       *)
(***************************************************************************)
LEMMA IndexStep ==
  ASSUME TFStateTypeOK, IndexInv, [TFStateNext]_tfStateVars
  PROVE  IndexInv'
  <1> USE TFStateAssumption
      DEF TFStateAssumption, TFStateTypeOK, IndexInv, IndexCatchesUp, Busy
  <1>1. ASSUME NEW w \in Workspaces, PutState(w), UNCHANGED indexVars
        PROVE  IndexInv'
    BY <1>1 DEF PutState, indexVars
  <1>2. ASSUME NEW o \in Ops, handleDelete(o)
        PROVE  IndexInv'
    BY <1>2 DEF handleDelete, DeleteState
  <1>3. ASSUME NEW w \in Workspaces, NEW p \in Pulls, ProjectionListener(w, p)
        PROVE  IndexInv'
    <2>1. /\ applied' = [applied EXCEPT ![w] = blob[w]]
          /\ pull' = [pull EXCEPT ![p] = [pc |-> "spawned", ws |-> w, blob |-> 0]]
          /\ missed' = missed \ {w}
          /\ UNCHANGED <<blob, writes, index>>
      BY <1>3 DEF ProjectionListener, backendVars
    <2>2. ASSUME NEW q \in Pulls, q # p, pull[q].pc # "idle", pull[q].ws \notin crossed'
          PROVE  pull[q].ws # w /\ pull[q].ws \notin crossed
      BY <1>3, <2>2 DEF ProjectionListener
    <2>3. \A v \in Workspaces : v # w => (v \in crossed <=> v \in crossed')
      BY <1>3 DEF ProjectionListener
    <2>4. ASSUME NEW q \in Pulls, pull'[q].pc \in {"pulled", "installing", "clearing"},
                 pull'[q].ws \notin crossed' \cup missed'
          PROVE  pull'[q].blob >= applied'[pull'[q].ws]
      BY <2>1, <2>2, <2>4
    <2>5. ASSUME NEW v \in Workspaces, Busy(v)' = {}, v \notin crossed' \cup missed'
          PROVE  index'[v] >= applied'[v]
      <3>1. v # w
        BY <2>1, <2>5
      <3>2. Busy(v) = {}
        BY <1>3, <2>1, <2>5, <3>1 DEF ProjectionListener
      <3> QED BY <2>1, <2>3, <2>5, <3>1, <3>2
    <2> QED BY <2>1, <2>4, <2>5
  <1>4. ASSUME NEW p \in Pulls, StatePull(p)
        PROVE  IndexInv'
    BY <1>4 DEF StatePull, GetState, backendVars
  <1>5. ASSUME NEW p \in Pulls, PullFails(p)
        PROVE  IndexInv'
    BY <1>5, IdlePullType DEF PullFails, backendVars
  <1>6. ASSUME NEW p \in Pulls, InstallLock(p)
        PROVE  IndexInv'
    BY <1>6 DEF InstallLock, backendVars
  <1>7. ASSUME NEW p \in Pulls, Install(p)
        PROVE  IndexInv'
    BY <1>7, IdlePullType DEF Install, backendVars
  <1>8. ASSUME NEW p \in Pulls, ClearStart(p)
        PROVE  IndexInv'
    BY <1>8 DEF ClearStart, backendVars
  <1>9. ASSUME NEW p \in Pulls, Clear(p)
        PROVE  IndexInv'
    BY <1>9, IdlePullType DEF Clear, backendVars
  <1>10. CASE Restart
    BY <1>10, IdlePullType DEF Restart
  <1>11. ASSUME UNCHANGED <<blob, writes, pull, index, applied, crossed, missed>>
         PROVE  IndexInv'
    BY <1>11
  <1>12. ASSUME NEW o \in Ops, handleWrite(o)
         PROVE  IndexInv'
    BY <1>1, <1>12 DEF handleWrite
  <1>13. ASSUME NEW w \in Workspaces, RunWrite(w)
         PROVE  IndexInv'
    BY <1>1, <1>13 DEF RunWrite
  <1> QED
    BY <1>2, <1>3, <1>4, <1>5, <1>6, <1>7, <1>8, <1>9, <1>10, <1>11, <1>12, <1>13
    DEF TFStateNext, handleLock, handleUnlock, UnlockDelete, Run, RunFailed,
        ListStart, List, backendVars, indexVars, tfStateVars

(***************************************************************************)
(* The backend and the index stay in TFStateInv whatever the clients, the  *)
(* runs and the rebuilds do and however often the process restarts.        *)
(***************************************************************************)
THEOREM TFStateInvariant == TFStateSpec => []TFStateInv
  <1>1. ASSUME TFStateInv, [TFStateNext]_tfStateVars
        PROVE  TFStateInv'
    BY <1>1, TFStateTypeStep, LockStep, MutexStep, IndexStep DEF TFStateInv
  <1> QED BY <1>1, TFStateInitInv, PTL DEF TFStateSpec

(***************************************************************************)
(* Type correctness of the two tables, the clients and the rebuilds.       *)
(***************************************************************************)
THEOREM TFStateTypeCorrect == TFStateSpec => []TFStateTypeOK
  <1>1. TFStateInv => TFStateTypeOK
    BY DEF TFStateInv
  <1> QED BY <1>1, TFStateInvariant, PTL

(***************************************************************************)
(* Two clients work under the lock of one workspace only after a late      *)
(* UNLOCK deleted the row of one of them.                                  *)
(***************************************************************************)
THEOREM LockIsExclusive == TFStateSpec => []LockExclusive
  <1>1. TFStateInv => LockExclusive
    BY DEF TFStateInv, LockInv, LockExclusive
  <1> QED BY <1>1, TFStateInvariant, PTL

(***************************************************************************)
(* A workspace whose rebuilds did not overlap and did not miss a change    *)
(* shows the blob of its last apply, or a later one, once they have ended. *)
(***************************************************************************)
THEOREM IndexIsCurrent == TFStateSpec => []IndexCatchesUp
  <1>1. TFStateInv => IndexCatchesUp
    BY DEF TFStateInv, IndexInv
  <1> QED BY <1>1, TFStateInvariant, PTL

(***************************************************************************)
(* Installs exclude each other and the readers of the index: only the      *)
(* unlocked delete of an absent state overlaps another access.             *)
(***************************************************************************)
THEOREM InstallsAreExclusive == TFStateSpec => []UnlockedOnlyForEmpty
  <1>1. TFStateInv => UnlockedOnlyForEmpty
    <2> SUFFICES ASSUME MutexInv PROVE UnlockedOnlyForEmpty
      BY DEF TFStateInv
    <2>1. CASE writer = {}
      BY <2>1, FS_EmptySet DEF MutexInv, UnlockedOnlyForEmpty
    <2>2. CASE writer # {}
      <3>1. PICK p : writer = {p}
        BY <2>2 DEF MutexInv
      <3>2. Cardinality(writer) = 1
        BY <3>1, FS_Singleton
      <3> QED BY <3>2 DEF MutexInv, UnlockedOnlyForEmpty
    <2> QED BY <2>1, <2>2
  <1> QED BY <1>1, TFStateInvariant, PTL

-----------------------------------------------------------------------------
(* The status of a tenant. *)

(***************************************************************************)
(* The worker between two events: no event and an empty copy.              *)
(***************************************************************************)
LEMMA IdleWorkerType ==
  /\ IdleWorker \in [pc : {"idle", "write", "list"}, ev : Event \cup {NoEvent},
                     kind : Kinds, copy : StoredStatus]
  /\ IdleWorker.copy \in StoredStatus
  BY StatusPlaneAssumption DEF StatusPlaneAssumption, IdleWorker, StoredStatus

(***************************************************************************)
(* nextReconciliation makes a status of a status, a phase and an error.    *)
(***************************************************************************)
LEMMA NextReconciliationType ==
  ASSUME NEW cur \in StoredStatus, NEW ph \in Phases \cup {"destroying"},
         NEW e \in 0..MaxEvents
  PROVE  /\ nextReconciliation(cur, ph, e) \in StoredStatus
         /\ nextReconciliation(cur, ph, e).phase = ph
         /\ nextReconciliation(cur, ph, e).rest = cur.rest
         /\ nextReconciliation(cur, ph, e).err =
              IF ph = "failed" THEN e ELSE IF ph = "applied" THEN 0 ELSE cur.err
  <1> DEFINE err == CASE ph = "failed" -> e [] ph = "applied" -> 0 [] OTHER -> cur.err
  <1>1. err = IF ph = "failed" THEN e ELSE IF ph = "applied" THEN 0 ELSE cur.err
    OBVIOUS
  <1>2. err \in 0..MaxEvents
    BY <1>1, StatusPlaneAssumption DEF StatusPlaneAssumption, StoredStatus
  <1>3. nextReconciliation(cur, ph, e) = [cur EXCEPT !.phase = ph, !.err = err]
    BY DEF nextReconciliation
  <1> HIDE DEF err
  <1> QED BY <1>1, <1>2, <1>3 DEF StoredStatus

(***************************************************************************)
(* A PUT makes a status of the reconciliation part it was read with.       *)
(***************************************************************************)
LEMMA PutType ==
  ASSUME NEW recon \in StoredStatus, NEW n \in 0..MaxPuts
  PROVE  /\ [recon EXCEPT !.rest = n] \in StoredStatus
         /\ [recon EXCEPT !.rest = n].rest = n
         /\ [recon EXCEPT !.rest = n].phase = recon.phase
         /\ [recon EXCEPT !.rest = n].err = recon.err
  BY DEF StoredStatus

(***************************************************************************)
(* No status, no event, an empty cache: the initial state is in the        *)
(* inductive invariant.                                                    *)
(***************************************************************************)
LEMMA StatusPlaneInitInv == StatusPlaneInit => StatusPlaneInv
  <1> SUFFICES ASSUME StatusPlaneInit PROVE StatusPlaneInv
    OBVIOUS
  <1> USE StatusPlaneAssumption DEF StatusPlaneAssumption, StatusPlaneInit
  <1>1. StatusPlaneTypeOK
    <2>1. ch \in Seq(Event)
      OBVIOUS
    <2>2. last \in Event \cup {NoEvent}
      OBVIOUS
    <2>3. stored \in [Kinds -> StoredStatus]
      BY DEF StoredStatus
    <2>4. caller \in [HealthCallers -> [pc : {"idle", "probing", "probed", "answered"},
                                       now : 0..MaxTime, obs : 0..MaxTime]]
      OBVIOUS
    <2>5. expires \in -1..MaxTime + TTL
      OBVIOUS
    <2>6. deleting \in BOOLEAN /\ dropped \in BOOLEAN
      OBVIOUS
    <2>7. lastPut \in [Kinds -> 0..MaxPuts]
      OBVIOUS
    <2> QED BY <2>1, <2>2, <2>3, <2>4, <2>5, <2>6, <2>7, IdleWorkerType DEF StatusPlaneTypeOK
  <1>2. PutInv
    BY DEF PutInv, PutKeptUnlessRaced, IdleWorker
  <1>3. GatherInv
    BY DEF GatherInv, AnswersFresh
  <1>4. EventInv /\ DestroyInv
    BY DEF EventInv, DestroyInv, IdleWorker, NoEvent
  <1>5. PhaseInv /\ ErrorInv
    BY DEF PhaseInv, ErrorInv, ToWrite, Decides, IdleWorker, NoEvent
  <1> QED BY <1>1, <1>2, <1>3, <1>4, <1>5 DEF StatusPlaneInv

(***************************************************************************)
(* What WriteTenant and WriteNodeGroup write: the phase of the event, the  *)
(* rest of the copy, and the error of the event if it decides.             *)
(***************************************************************************)
LEMMA WriteFacts ==
  ASSUME StatusPlaneTypeOK, EventInv, NEW k \in Kinds,
         \/ k = "tenant" /\ WriteTenant
         \/ k = "nodegroup" /\ WriteNodeGroup
  PROVE  /\ worker.pc = "write" /\ worker.kind = k /\ worker.ev \in Event
         /\ stored'[k] \in StoredStatus
         /\ stored' = [stored EXCEPT ![k] = stored'[k]]
         /\ stored'[k].phase = IF k = "tenant" THEN Translated(worker.ev)
                                              ELSE worker.ev.phase
         /\ stored'[k].rest = worker.copy.rest
         /\ stored'[k].err = IF Decides(worker.ev) THEN worker.ev.err
                                                  ELSE worker.copy.err
  <1> DEFINE ph == IF k = "tenant" THEN Translated(worker.ev) ELSE worker.ev.phase
             new == nextReconciliation(worker.copy, ph, worker.ev.err)
  <1>1. worker.pc = "write" /\ worker.kind = k
    BY DEF WriteTenant, WriteNodeGroup
  <1>2. worker.ev \in Event
    BY <1>1 DEF EventInv
  <1>3. worker.copy \in StoredStatus /\ worker.ev.err \in 0..MaxEvents
    BY <1>2 DEF StatusPlaneTypeOK, Event
  <1>4. ph \in Phases \cup {"destroying"}
    BY <1>2 DEF Translated, Event
  <1>5. /\ ph = "failed" <=> worker.ev.phase = "failed"
        /\ ph = "applied" <=> worker.ev.phase = "applied"
    BY DEF Translated
  <1>6. stored' = [stored EXCEPT ![k] = new]
    BY StatusPlaneAssumption DEF StatusPlaneAssumption, WriteTenant, WriteNodeGroup
  <1>7. stored'[k] = new
    BY <1>6 DEF StatusPlaneTypeOK
  <1> HIDE DEF ph
  <1>8. /\ new \in StoredStatus
        /\ new.phase = ph
        /\ new.rest = worker.copy.rest
        /\ new.err = IF ph = "failed" THEN worker.ev.err
                     ELSE IF ph = "applied" THEN 0 ELSE worker.copy.err
    BY <1>3, <1>4, NextReconciliationType
  <1> HIDE DEF new
  <1>9. new.err = IF Decides(worker.ev) THEN worker.ev.err ELSE worker.copy.err
    BY <1>5, <1>8 DEF EventInv, Decides
  <1> QED BY <1>1, <1>2, <1>6, <1>7, <1>8, <1>9 DEF ph

(***************************************************************************)
(* The event the listener makes of a phase.                                *)
(***************************************************************************)
NewEvent(phase) ==
  [phase |-> phase, err |-> IF phase = "failed" THEN events + 1 ELSE 0, del |-> deleting]

(***************************************************************************)
(* Every step of the tracker keeps the types of its variables.             *)
(***************************************************************************)
LEMMA TrackerTypeStep ==
  ASSUME StatusPlaneTypeOK, EventInv, TrackerNext
  PROVE  StatusPlaneTypeOK'
  <1> USE StatusPlaneAssumption DEF StatusPlaneAssumption, StatusPlaneTypeOK
  <1>1. ASSUME NEW p \in Phases, Listener(p)
        PROVE  StatusPlaneTypeOK'
    <2>1. NewEvent(p) \in Event /\ NewEvent(p).err \in 0..MaxEvents
      BY <1>1 DEF Listener, Event, NewEvent
    <2>2. ch' \in Seq(Event) /\ last' \in Event \cup {NoEvent}
      BY <1>1, <2>1, AppendProperties DEF Listener, NewEvent
    <2>3. owed' \in 0..MaxEvents /\ wiped' \subseteq Kinds
      BY <1>1, <2>1 DEF Listener, NewEvent
    <2> QED BY <1>1, <2>2, <2>3 DEF Listener, gatherVars
  <1>2. CASE Take
    <2>1. Head(ch) \in Event /\ Tail(ch) \in Seq(Event)
      BY <1>2, HeadTailProperties DEF Take
    <2>2. [Head(ch) EXCEPT !.del = deleting] \in Event
      BY <2>1 DEF Event
    <2>3. worker' \in [pc : {"idle", "write", "list"}, ev : Event \cup {NoEvent},
                       kind : Kinds, copy : StoredStatus]
      BY <1>2, <2>2 DEF Take
    <2> QED BY <1>2, <2>1, <2>3 DEF Take, gatherVars
  <1>3. CASE WriteTenant
    <2>1. stored' \in [Kinds -> StoredStatus]
      BY <1>3, WriteFacts
    <2> QED BY <1>3, <2>1 DEF WriteTenant, gatherVars
  <1>4. CASE ListNodeGroups
    BY <1>4 DEF ListNodeGroups, gatherVars
  <1>5. CASE WriteNodeGroup
    <2>1. stored' \in [Kinds -> StoredStatus]
      BY <1>5, WriteFacts
    <2> QED BY <1>5, <2>1, IdleWorkerType DEF WriteNodeGroup, gatherVars
  <1>6. ASSUME NEW k \in Kinds, NEW recon \in {stored[k], IdleWorker.copy},
               UpdateStatus(k, recon)
        PROVE  StatusPlaneTypeOK'
    <2>1. [recon EXCEPT !.rest = puts + 1] \in StoredStatus
      <3>1. recon \in StoredStatus
        BY IdleWorkerType
      <3>2. puts + 1 \in 0..MaxPuts
        BY <1>6, SMTT(30) DEF UpdateStatus
      <3> QED BY <3>1, <3>2, PutType
    <2>2. stored' \in [Kinds -> StoredStatus]
      BY <1>6, <2>1 DEF UpdateStatus
    <2>3. puts' \in 0..MaxPuts /\ lastPut' \in [Kinds -> 0..MaxPuts]
      BY <1>6, SMTT(30) DEF UpdateStatus
    <2>4. replaced' \subseteq Kinds /\ wiped' \subseteq Kinds /\ raced' \subseteq Kinds
      BY <1>6 DEF UpdateStatus
    <2> QED BY <1>6, <2>2, <2>3, <2>4 DEF UpdateStatus, gatherVars
  <1>7. CASE Delete
    BY <1>7 DEF Delete, gatherVars
  <1> HIDE DEF StatusPlaneTypeOK
  <1> QED BY <1>1, <1>2, <1>3, <1>4, <1>5, <1>6, <1>7 DEF TrackerNext, apply

(***************************************************************************)
(* The clock and the Gather calls keep the types.                          *)
(***************************************************************************)
LEMMA GatherTypeStep ==
  ASSUME StatusPlaneTypeOK, GatherInv, GatherNext
  PROVE  StatusPlaneTypeOK'
  <1> USE StatusPlaneAssumption DEF StatusPlaneAssumption, StatusPlaneTypeOK
  <1>1. CASE Tick
    BY <1>1 DEF Tick, trackerVars
  <1>2. ASSUME NEW c \in HealthCallers, Gather(c)
        PROVE  StatusPlaneTypeOK'
    BY <1>2 DEF Gather, trackerVars
  <1>3. ASSUME NEW c \in HealthCallers, probe(c)
        PROVE  StatusPlaneTypeOK'
    BY <1>3, ZenonT(60) DEF probe, trackerVars
  <1>4. ASSUME NEW c \in HealthCallers, CacheHealth(c)
        PROVE  StatusPlaneTypeOK'
    <2>1. caller[c].now \in 0..MaxTime /\ caller[c].obs \in 0..MaxTime
      OBVIOUS
    <2>2. expires' \in -1..MaxTime + TTL /\ observedAt' \in 0..MaxTime
      BY <1>4, <2>1, SMTT(30) DEF CacheHealth
    <2> QED BY <1>4, <2>2, ZenonT(60) DEF CacheHealth, trackerVars
  <1>5. ASSUME NEW c \in HealthCallers, Return(c)
        PROVE  StatusPlaneTypeOK'
    BY <1>5, ZenonT(60) DEF Return, trackerVars
  <1> HIDE DEF StatusPlaneTypeOK
  <1> QED BY <1>1, <1>2, <1>3, <1>4, <1>5 DEF GatherNext

(***************************************************************************)
(* The clock and the Gather calls keep GatherInv: a call stores an entry   *)
(* that expires a TTL after its own beginning, not after its probe.        *)
(***************************************************************************)
LEMMA GatherStep ==
  ASSUME StatusPlaneTypeOK, GatherInv, GatherNext
  PROVE  GatherInv'
  <1> USE StatusPlaneAssumption
      DEF StatusPlaneAssumption, StatusPlaneTypeOK, GatherInv, AnswersFresh
  <1>1. CASE Tick
    BY <1>1 DEF Tick
  <1>2. ASSUME NEW c \in HealthCallers, Gather(c)
        PROVE  GatherInv'
    BY <1>2 DEF Gather
  <1>3. ASSUME NEW c \in HealthCallers, probe(c)
        PROVE  GatherInv'
    BY <1>3, SMTT(30) DEF probe
  <1>4. ASSUME NEW c \in HealthCallers, CacheHealth(c)
        PROVE  GatherInv'
    <2>1. caller[c].now \in 0..MaxTime /\ caller[c].obs \in 0..MaxTime
      OBVIOUS
    <2>2. caller[c].obs >= caller[c].now /\ caller[c].obs <= clock
      BY <1>4 DEF CacheHealth
    <2>3. observedAt' <= clock' /\ expires' <= observedAt' + TTL
      BY <1>4, <2>1, <2>2, SMTT(30) DEF CacheHealth
    <2>4. caller[c].obs > caller[c].now - TTL
      BY <2>1, <2>2
    <2> QED BY <1>4, <2>3, <2>4, ZenonT(60) DEF CacheHealth
  <1>5. ASSUME NEW c \in HealthCallers, Return(c)
        PROVE  GatherInv'
    BY <1>5, ZenonT(60) DEF Return
  <1> QED BY <1>1, <1>2, <1>3, <1>4, <1>5 DEF GatherNext

(***************************************************************************)
(* A PUT into the worker's read-modify-write marks the resource, any other *)
(* PUT is in the row the worker reads next: PutInv is kept.                *)
(***************************************************************************)
LEMMA PutStep ==
  ASSUME StatusPlaneTypeOK, EventInv, PutInv, TrackerNext
  PROVE  PutInv'
  <1> USE StatusPlaneAssumption
      DEF StatusPlaneAssumption, StatusPlaneTypeOK, PutInv, PutKeptUnlessRaced
  <1>1. ASSUME UNCHANGED <<stored, worker, lastPut, raced>>
        PROVE  PutInv'
    BY <1>1
  <1>2. CASE Take
    BY <1>2 DEF Take
  <1>3. CASE WriteTenant
    BY <1>3, WriteFacts DEF WriteTenant
  <1>4. CASE ListNodeGroups
    BY <1>4 DEF ListNodeGroups, EventInv
  <1>5. CASE WriteNodeGroup
    BY <1>5, WriteFacts DEF WriteNodeGroup, IdleWorker
  <1>6. ASSUME NEW k \in Kinds, NEW recon \in {stored[k], IdleWorker.copy},
               UpdateStatus(k, recon)
        PROVE  PutInv'
    <2>1. recon \in StoredStatus /\ puts + 1 \in 0..MaxPuts
      BY <1>6, IdleWorkerType, SMTT(30) DEF UpdateStatus
    <2>2. stored' = [stored EXCEPT ![k] = [recon EXCEPT !.rest = puts + 1]]
      BY <1>6 DEF UpdateStatus
    <2>3. stored'[k].rest = puts + 1
      BY <2>1, <2>2, PutType
    <2> QED BY <1>6, <2>2, <2>3 DEF UpdateStatus
  <1> HIDE DEF PutInv
  <1> QED
    BY <1>1, <1>2, <1>3, <1>4, <1>5, <1>6, ZenonT(60) DEF TrackerNext, apply, Listener, Delete

(***************************************************************************)
(* The listener appends an event of its own at the end of a channel that   *)
(* has room.                                                               *)
(***************************************************************************)
LEMMA ListenerFacts ==
  ASSUME StatusPlaneTypeOK, NEW p \in Phases, Listener(p)
  PROVE  /\ NewEvent(p) \in Event
         /\ last' = NewEvent(p)
         /\ NewEvent(p).phase = p
         /\ NewEvent(p).phase # "failed" => NewEvent(p).err = 0
         /\ \/ dropped' /\ ch' = ch /\ owed' = owed /\ wiped' = wiped
            \/ /\ Len(ch) < QueueSize
               /\ Len(ch') = Len(ch) + 1
               /\ ch'[Len(ch) + 1] = NewEvent(p)
               /\ \A i \in 1..Len(ch) : ch'[i] = ch[i]
               /\ IF p \in {"failed", "applied"}
                  THEN owed' = NewEvent(p).err /\ wiped' = {}
                  ELSE owed' = owed /\ wiped' = wiped
  <1> USE StatusPlaneAssumption DEF StatusPlaneAssumption, StatusPlaneTypeOK
  <1>1. NewEvent(p) \in Event /\ last' = NewEvent(p)
    BY DEF Listener, Event, NewEvent
  <1>2. NewEvent(p).phase = p /\ (NewEvent(p).phase # "failed" => NewEvent(p).err = 0)
    BY DEF NewEvent
  <1>3. CASE Len(ch) < QueueSize
    <2>1. ch' = Append(ch, NewEvent(p))
      BY <1>3 DEF Listener, NewEvent
    <2>2. /\ Len(ch') = Len(ch) + 1
          /\ ch'[Len(ch) + 1] = NewEvent(p)
          /\ \A i \in 1..Len(ch) : ch'[i] = ch[i]
      BY <1>1, <2>1, AppendProperties
    <2>3. IF p \in {"failed", "applied"}
          THEN owed' = NewEvent(p).err /\ wiped' = {}
          ELSE owed' = owed /\ wiped' = wiped
      BY <1>3 DEF Listener, NewEvent
    <2> QED BY <1>1, <1>2, <1>3, <2>2, <2>3
  <1>4. CASE ~(Len(ch) < QueueSize)
    <2>1. ch' = ch /\ owed' = owed /\ wiped' = wiped
      BY <1>4 DEF Listener
    <2>2. Len(ch) >= QueueSize
      BY <1>4
    <2>3. dropped'
      BY <2>2 DEF Listener
    <2> QED BY <1>1, <1>2, <2>1, <2>3
  <1> QED BY <1>3, <1>4

(***************************************************************************)
(* Start takes the first event; the others move up by one.                 *)
(***************************************************************************)
LEMMA TakeFacts ==
  ASSUME StatusPlaneTypeOK, Take
  PROVE  /\ worker.pc = "idle"
         /\ Len(ch) > 0
         /\ ch[1] \in Event
         /\ Len(ch') = Len(ch) - 1
         /\ \A i \in 1..Len(ch) - 1 : ch'[i] = ch[i + 1]
         /\ worker'.pc = "write" /\ worker'.kind = "tenant"
         /\ worker'.copy = stored["tenant"]
         /\ worker'.ev \in Event
         /\ worker'.ev.phase = ch[1].phase
         /\ worker'.ev.err = ch[1].err
         /\ worker'.ev.del = deleting
  <1> USE StatusPlaneAssumption DEF StatusPlaneAssumption, StatusPlaneTypeOK
  <1>1. ch # <<>> /\ ch' = Tail(ch) /\ worker.pc = "idle"
    BY DEF Take
  <1>2. /\ Len(ch) > 0 /\ Len(ch') = Len(ch) - 1
        /\ \A i \in 1..Len(ch) - 1 : ch'[i] = ch[i + 1]
        /\ Head(ch) = ch[1] /\ ch[1] \in Event
    BY <1>1
  <1>3. /\ worker'.pc = "write" /\ worker'.kind = "tenant"
        /\ worker'.copy = stored["tenant"]
        /\ worker'.ev = [Head(ch) EXCEPT !.del = deleting]
    BY DEF Take
  <1>4. ASSUME NEW e \in Event
        PROVE  /\ [e EXCEPT !.del = deleting] \in Event
               /\ [e EXCEPT !.del = deleting].phase = e.phase
               /\ [e EXCEPT !.del = deleting].err = e.err
               /\ [e EXCEPT !.del = deleting].del = deleting
    BY DEF Event
  <1>5. /\ worker'.ev \in Event
        /\ worker'.ev.phase = ch[1].phase
        /\ worker'.ev.err = ch[1].err
        /\ worker'.ev.del = deleting
    BY <1>2, <1>3, <1>4, SMTT(30)
  <1> QED BY <1>1, <1>2, <1>3, <1>5

(***************************************************************************)
(* Every step of the tracker keeps EventInv: only the listener makes       *)
(* events, and Start hands them over one at a time.                        *)
(***************************************************************************)
LEMMA EventStep ==
  ASSUME StatusPlaneTypeOK, EventInv, TrackerNext
  PROVE  EventInv'
  <1> USE StatusPlaneAssumption DEF StatusPlaneAssumption, StatusPlaneTypeOK, EventInv
  <1>1. ASSUME NEW p \in Phases, Listener(p)
        PROVE  EventInv'
    <2>1. \A i \in DOMAIN ch' : ch'[i].phase # "failed" => ch'[i].err = 0
      BY <1>1, ListenerFacts DEF Listener
    <2>2. Len(ch') <= QueueSize
      BY <1>1, ListenerFacts
    <2> QED BY <1>1, <2>1, <2>2 DEF Listener
  <1>2. CASE Take
    <2>1. /\ Len(ch') = Len(ch) - 1 /\ Len(ch) > 0
          /\ \A i \in 1..Len(ch) - 1 : ch'[i] = ch[i + 1]
          /\ worker'.ev \in Event
          /\ worker'.ev.phase = ch[1].phase /\ worker'.ev.err = ch[1].err
          /\ worker'.pc = "write"
      BY <1>2, TakeFacts
    <2>2. UNCHANGED <<replaced, wiped>> /\ ch' \in Seq(Event)
      BY <1>2 DEF Take
    <2>3. ASSUME NEW i \in DOMAIN ch'
          PROVE  ch'[i].phase # "failed" => ch'[i].err = 0
      <3>1. i \in 1..Len(ch) - 1
        BY <2>1, <2>2
      <3>2. i + 1 \in DOMAIN ch
        BY <3>1
      <3> QED BY <2>1, <3>1, <3>2
    <2>4. Len(ch') <= QueueSize
      BY <2>1
    <2>5. worker'.ev.phase # "failed" => worker'.ev.err = 0
      BY <2>1
    <2> QED BY <2>1, <2>2, <2>3, <2>4, <2>5
  <1>3. CASE WriteTenant
    BY <1>3 DEF WriteTenant
  <1>4. CASE ListNodeGroups
    BY <1>4 DEF ListNodeGroups
  <1>5. CASE WriteNodeGroup
    BY <1>5 DEF WriteNodeGroup, IdleWorker, NoEvent
  <1>6. ASSUME NEW k \in Kinds, NEW recon \in {stored[k], IdleWorker.copy},
               UpdateStatus(k, recon)
        PROVE  EventInv'
    BY <1>6 DEF UpdateStatus
  <1>7. CASE Delete
    BY <1>7 DEF Delete
  <1> HIDE DEF EventInv
  <1> QED BY <1>1, <1>2, <1>3, <1>4, <1>5, <1>6, <1>7 DEF TrackerNext, apply

(***************************************************************************)
(* Every step of the tracker keeps DestroyInv: Translated says destroying  *)
(* only of a tenant whose deletionTimestamp Start has read, and nothing    *)
(* takes the timestamp back.                                               *)
(***************************************************************************)
LEMMA DestroyStep ==
  ASSUME StatusPlaneTypeOK, EventInv, DestroyInv, TrackerNext
  PROVE  DestroyInv'
  <1> USE StatusPlaneAssumption DEF StatusPlaneAssumption, StatusPlaneTypeOK, DestroyInv
  <1>1. ASSUME NEW p \in Phases, Listener(p)
        PROVE  DestroyInv'
    <2>1. last'.del = deleting
      BY <1>1 DEF Listener
    <2> QED BY <1>1, <2>1 DEF Listener
  <1>2. CASE Take
    <2>1. worker'.copy = stored["tenant"] /\ worker'.ev.del = deleting
      BY <1>2, TakeFacts
    <2> QED BY <1>2, <2>1 DEF Take
  <1>3. CASE WriteTenant
    <2>1. stored'["tenant"].phase = "destroying" => deleting
      <3>1. stored'["tenant"].phase = Translated(worker.ev) /\ worker.ev \in Event
        BY <1>3, WriteFacts
      <3> QED BY <3>1 DEF Translated, Event, Phases
    <2>2. stored'["nodegroup"] = stored["nodegroup"]
      BY <1>3 DEF WriteTenant
    <2>3. worker'.copy = worker.copy /\ worker'.ev = worker.ev /\ UNCHANGED <<deleting, last>>
      BY <1>3 DEF WriteTenant
    <2> QED BY <2>1, <2>2, <2>3
  <1>4. CASE ListNodeGroups
    <2>1. worker'.copy = stored["nodegroup"] /\ worker'.ev = worker.ev
      BY <1>4 DEF ListNodeGroups
    <2> QED BY <1>4, <2>1 DEF ListNodeGroups
  <1>5. CASE WriteNodeGroup
    <2>1. stored'["nodegroup"].phase # "destroying"
      <3>1. stored'["nodegroup"].phase = worker.ev.phase /\ worker.ev \in Event
        BY <1>5, WriteFacts
      <3> QED BY <3>1 DEF Event, Phases
    <2>2. stored'["tenant"] = stored["tenant"]
      BY <1>5 DEF WriteNodeGroup
    <2>3. /\ worker'.copy.phase # "destroying" /\ ~worker'.ev.del
          /\ UNCHANGED <<deleting, last>>
      BY <1>5 DEF WriteNodeGroup, IdleWorker, NoEvent
    <2> QED BY <2>1, <2>2, <2>3
  <1>6. ASSUME NEW k \in Kinds, NEW recon \in {stored[k], IdleWorker.copy},
               UpdateStatus(k, recon)
        PROVE  DestroyInv'
    <2>1. recon \in StoredStatus /\ puts + 1 \in 0..MaxPuts
      BY <1>6, IdleWorkerType, SMTT(30) DEF UpdateStatus
    <2>2. stored' = [stored EXCEPT ![k] = [recon EXCEPT !.rest = puts + 1]]
      BY <1>6 DEF UpdateStatus
    <2>3. stored'[k].phase = recon.phase
      BY <2>1, <2>2, PutType
    <2>4. IdleWorker.copy.phase = "none"
      BY DEF IdleWorker
    <2>5. \A l \in Kinds : stored'[l].phase = "destroying" => deleting
      BY <2>2, <2>3, <2>4
    <2> QED BY <1>6, <2>5 DEF UpdateStatus
  <1>7. CASE Delete
    BY <1>7 DEF Delete
  <1> HIDE DEF DestroyInv
  <1> QED BY <1>1, <1>2, <1>3, <1>4, <1>5, <1>6, <1>7 DEF TrackerNext, apply

(***************************************************************************)
(* Every step of the tracker keeps PhaseInv.  The listener puts the event  *)
(* at the end of ch and a PUT exempts the resource; Start, the writes and  *)
(* the listing move the event on without changing its phase.               *)
(***************************************************************************)
LEMMA PhaseStep ==
  ASSUME StatusPlaneTypeOK, EventInv, DestroyInv, PhaseInv, TrackerNext
  PROVE  PhaseInv'
  <1> USE StatusPlaneAssumption DEF StatusPlaneAssumption, StatusPlaneTypeOK
  <1>1. ASSUME NEW p \in Phases, Listener(p)
        PROVE  PhaseInv'
    <2>1. ASSUME ~dropped'
          PROVE  ch' # <<>> /\ ch'[Len(ch')] = last'
      BY <1>1, <2>1, ListenerFacts
    <2> QED BY <2>1 DEF PhaseInv
  <1>2. CASE Take
    <2> SUFFICES ASSUME ~dropped, last # NoEvent
                 PROVE  /\ ch' # <<>> => ch'[Len(ch')] = last
                        /\ ch' = <<>> => /\ worker'.ev.phase = last.phase
                                         /\ last.del => worker'.ev.del
                        /\ \A k \in Kinds : ToWrite(k)'
      BY <1>2, TakeFacts DEF Take, PhaseInv
    <2>1. ch # <<>> /\ ch[Len(ch)] = last
      BY <1>2 DEF Take, PhaseInv
    <2>2. ch' # <<>> => ch'[Len(ch')] = last
      <3> SUFFICES ASSUME ch' # <<>> PROVE ch'[Len(ch')] = last
        OBVIOUS
      <3>1. ch' \in Seq(Event) /\ Len(ch') = Len(ch) - 1
        BY <1>2, TakeFacts DEF Take
      <3>2. Len(ch) - 1 \in 1..Len(ch) - 1
        BY <3>1
      <3>3. ch'[Len(ch) - 1] = ch[(Len(ch) - 1) + 1]
        BY <1>2, <3>2, TakeFacts, ZenonT(60)
      <3>4. (Len(ch) - 1) + 1 = Len(ch)
        BY <3>2
      <3> QED BY <2>1, <3>1, <3>3, <3>4
    <2>3. ch' = <<>> => worker'.ev.phase = last.phase
      <3>1. ch' = <<>> => Len(ch) = 1
        BY <1>2, TakeFacts
      <3> QED BY <1>2, <2>1, <3>1, TakeFacts
    <2>4. last.del => worker'.ev.del
      BY <1>2, TakeFacts DEF DestroyInv
    <2>5. \A k \in Kinds : ToWrite(k)'
      BY <1>2, TakeFacts DEF ToWrite
    <2> QED BY <2>2, <2>3, <2>4, <2>5
  <1>3. CASE WriteTenant
    <2> SUFFICES ASSUME ~dropped, last # NoEvent, ch = <<>>
                 PROVE  /\ worker.ev.phase = last.phase
                        /\ last.del => worker.ev.del
                        /\ stored'["tenant"].phase \in {last.phase, "destroying"}
                        /\ last.del => stored'["tenant"].phase = Translated(last)
      BY <1>3 DEF WriteTenant, PhaseInv, ToWrite
    <2>1. worker.ev.phase = last.phase /\ (last.del => worker.ev.del)
      BY <1>3 DEF WriteTenant, PhaseInv
    <2>2. stored'["tenant"].phase = Translated(worker.ev)
      BY <1>3, WriteFacts
    <2>3. Translated(worker.ev) \in {last.phase, "destroying"}
      BY <2>1 DEF Translated
    <2>4. last.del => Translated(worker.ev) = Translated(last)
      BY <2>1 DEF Translated
    <2> QED BY <2>1, <2>2, <2>3, <2>4
  <1>4. CASE ListNodeGroups
    <2>1. UNCHANGED <<stored, ch, last, dropped, replaced>> /\ worker'.ev = worker.ev
      BY <1>4 DEF ListNodeGroups
    <2>2. worker.pc = "list" /\ worker'.pc = "write" /\ worker'.kind = "nodegroup"
      BY <1>4 DEF ListNodeGroups, EventInv
    <2>3. \A k \in Kinds : ToWrite(k)' <=> ToWrite(k)
      BY <2>2 DEF ToWrite
    <2> QED BY <2>1, <2>2, <2>3 DEF PhaseInv
  <1>5. CASE WriteNodeGroup
    <2> SUFFICES ASSUME ~dropped, last # NoEvent, ch = <<>>
                 PROVE  \A k \in Kinds \ replaced :
                          /\ stored'[k].phase \in {last.phase} \cup
                                 (IF k = "tenant" THEN {"destroying"} ELSE {})
                          /\ k = "tenant" /\ last.del => stored'[k].phase = Translated(last)
      BY <1>5 DEF WriteNodeGroup, PhaseInv, IdleWorker
    <2>1. stored'["nodegroup"].phase = last.phase
      BY <1>5, WriteFacts DEF WriteNodeGroup, PhaseInv
    <2>2. stored'["tenant"] = stored["tenant"] /\ ~ToWrite("tenant")
      BY <1>5 DEF WriteNodeGroup, ToWrite
    <2> QED BY <2>1, <2>2 DEF PhaseInv
  <1>6. ASSUME NEW k \in Kinds, NEW recon \in {stored[k], IdleWorker.copy},
               UpdateStatus(k, recon)
        PROVE  PhaseInv'
    <2>1. \A l \in Kinds : l # k => stored'[l] = stored[l]
      BY <1>6 DEF UpdateStatus
    <2>2. k \in replaced' /\ replaced \subseteq replaced'
      BY <1>6 DEF UpdateStatus
    <2>3. UNCHANGED <<ch, worker, last, dropped>>
      BY <1>6 DEF UpdateStatus
    <2> QED BY <2>1, <2>2, <2>3 DEF PhaseInv, ToWrite
  <1>7. CASE Delete
    BY <1>7 DEF Delete, PhaseInv, ToWrite
  <1> QED BY <1>1, <1>2, <1>3, <1>4, <1>5, <1>6, <1>7 DEF TrackerNext, apply

(***************************************************************************)
(* Every step of the tracker keeps ErrorInv.  A deciding event that is     *)
(* accepted becomes the last one of ch and what is owed; once it is the    *)
(* worker's it is written; an event that does not decide hands the error   *)
(* it read back to the row.                                                *)
(***************************************************************************)
LEMMA ErrorStep ==
  ASSUME StatusPlaneTypeOK, EventInv, ErrorInv, TrackerNext
  PROVE  ErrorInv'
  <1> USE StatusPlaneAssumption DEF StatusPlaneAssumption, StatusPlaneTypeOK
  <1>1. ASSUME NEW p \in Phases, Listener(p)
        PROVE  ErrorInv'
    <2>1. /\ UNCHANGED <<stored, worker>> /\ ch' \in Seq(Event)
          /\ \A k \in Kinds : ToWrite(k)' <=> ToWrite(k)
      <3>1. ch' \in Seq(Event)
        BY <1>1, ListenerFacts, AppendProperties DEF Listener, NewEvent
      <3> QED BY <1>1, <3>1 DEF Listener, ToWrite
    <2>2. CASE UNCHANGED <<ch, owed, wiped>>
      BY <2>1, <2>2 DEF ErrorInv
    <2>3. CASE /\ Len(ch') = Len(ch) + 1
               /\ ch'[Len(ch) + 1].phase = p
               /\ ch'[Len(ch) + 1].err = NewEvent(p).err
               /\ \A i \in 1..Len(ch) : ch'[i] = ch[i]
               /\ IF p \in {"failed", "applied"}
                  THEN owed' = NewEvent(p).err /\ wiped' = {}
                  ELSE owed' = owed /\ wiped' = wiped
      <3>1. CASE p \in {"failed", "applied"}
        <4>1. Decides(ch'[Len(ch')]) /\ ch'[Len(ch')].err = owed'
          BY <2>3, <3>1 DEF Decides
        <4>2. Len(ch') \in 1..Len(ch')
          BY <2>3
        <4>3. \A i \in 1..Len(ch') :
                (Decides(ch'[i]) /\ \A j \in (i + 1)..Len(ch') : ~Decides(ch'[j]))
                  => i = Len(ch')
          BY <4>1, <4>2
        <4> QED BY <4>1, <4>2, <4>3 DEF ErrorInv
      <3>2. CASE p \notin {"failed", "applied"}
        <4>1. ~Decides(ch'[Len(ch) + 1]) /\ owed' = owed /\ wiped' = wiped
          BY <2>3, <3>2 DEF Decides
        <4>2. ASSUME NEW i \in 1..Len(ch'), Decides(ch'[i]),
                     \A j \in (i + 1)..Len(ch') : ~Decides(ch'[j])
              PROVE  ch'[i].err = owed'
          <5>1. i \in 1..Len(ch) /\ ch'[i] = ch[i]
            BY <2>3, <4>1, <4>2
          <5>2. \A j \in (i + 1)..Len(ch) : ~Decides(ch[j])
            BY <2>3, <4>2, <5>1
          <5> QED BY <4>1, <4>2, <5>1, <5>2 DEF ErrorInv
        <4>3. (\A i \in 1..Len(ch') : ~Decides(ch'[i]))
                => (\A i \in 1..Len(ch) : ~Decides(ch[i]))
          BY <2>3
        <4> QED BY <2>1, <4>1, <4>2, <4>3 DEF ErrorInv
      <3> QED BY <3>1, <3>2
    <2> QED BY <1>1, <2>2, <2>3, ListenerFacts
  <1>2. CASE Take
    <2>1. /\ UNCHANGED <<stored, owed, wiped>> /\ ch' \in Seq(Event)
          /\ worker'.kind = "tenant" /\ worker'.pc = "write"
          /\ worker'.copy = stored["tenant"]
      BY <1>2, TakeFacts DEF Take
    <2>2. Len(ch') = Len(ch) - 1 /\ Len(ch) > 0
      BY <1>2, TakeFacts
    <2>3. \A i \in 1..Len(ch) - 1 : ch'[i] = ch[i + 1]
      BY <1>2, TakeFacts
    <2>4. worker'.ev.err = ch[1].err /\ (Decides(worker'.ev) <=> Decides(ch[1]))
      BY <1>2, TakeFacts DEF Decides
    <2>5. ASSUME NEW i \in 1..Len(ch'), Decides(ch'[i]),
                 \A j \in (i + 1)..Len(ch') : ~Decides(ch'[j])
          PROVE  ch'[i].err = owed
      <3>1. i + 1 \in 1..Len(ch) /\ ch'[i] = ch[i + 1]
        BY <2>2, <2>3
      <3>2. ASSUME NEW j \in ((i + 1) + 1)..Len(ch)
            PROVE  ~Decides(ch[j])
        <4>1. j - 1 \in (i + 1)..Len(ch') /\ j - 1 \in 1..Len(ch) - 1 /\ (j - 1) + 1 = j
          BY <2>2
        <4>2. ch'[j - 1] = ch[j]
          BY <2>3, <4>1
        <4> QED BY <2>5, <4>1, <4>2
      <3> QED BY <2>5, <3>1, <3>2 DEF ErrorInv
    <2>6. ASSUME \A i \in 1..Len(ch') : ~Decides(ch'[i])
          PROVE  \A j \in 2..Len(ch) : ~Decides(ch[j])
      <3> SUFFICES ASSUME NEW j \in 2..Len(ch) PROVE ~Decides(ch[j])
        OBVIOUS
      <3>1. j - 1 \in 1..Len(ch') /\ j - 1 \in 1..Len(ch) - 1 /\ (j - 1) + 1 = j
        BY <2>2
      <3>2. ch'[j - 1] = ch[j]
        BY <2>3, <3>1
      <3> QED BY <2>6, <3>1, <3>2
    <2>7. ASSUME \A i \in 1..Len(ch') : ~Decides(ch'[i])
          PROVE  /\ Decides(worker'.ev) => worker'.ev.err = owed
                 /\ ~Decides(worker'.ev) => \A k \in Kinds \ wiped : stored[k].err = owed
      <3>1. CASE Decides(ch[1])
        <4>1. 1 \in 1..Len(ch) /\ \A j \in (1 + 1)..Len(ch) : ~Decides(ch[j])
          BY <2>2, <2>6, <2>7
        <4> QED BY <2>4, <3>1, <4>1 DEF ErrorInv
      <3>2. CASE ~Decides(ch[1])
        <4>1. \A i \in 1..Len(ch) : ~Decides(ch[i])
          BY <2>6, <2>7, <3>2
        <4>2. \A k \in Kinds : ~ToWrite(k)
          BY <1>2, TakeFacts DEF ToWrite
        <4> QED BY <2>4, <3>2, <4>1, <4>2 DEF ErrorInv
      <3> QED BY <3>1, <3>2
    <2>8. \A k \in Kinds : ToWrite(k)'
      BY <2>1 DEF ToWrite
    <2> QED BY <2>1, <2>5, <2>7, <2>8 DEF ErrorInv
  <1>3. CASE WriteTenant
    <2>1. /\ UNCHANGED <<ch, owed, wiped>> /\ worker'.ev = worker.ev
          /\ worker'.pc = "list" /\ worker.pc = "write" /\ worker.kind = "tenant"
      BY <1>3 DEF WriteTenant
    <2>2. /\ stored'["tenant"].err = IF Decides(worker.ev) THEN worker.ev.err
                                                           ELSE worker.copy.err
          /\ stored'["nodegroup"] = stored["nodegroup"]
      BY <1>3, WriteFacts
    <2>3. ToWrite("nodegroup") /\ ToWrite("nodegroup")' /\ ~ToWrite("tenant")'
      BY <2>1 DEF ToWrite
    <2> QED BY <2>1, <2>2, <2>3 DEF ErrorInv
  <1>4. CASE ListNodeGroups
    <2>1. /\ UNCHANGED <<stored, ch, owed, wiped>> /\ worker'.ev = worker.ev
          /\ worker.pc = "list" /\ worker'.pc = "write" /\ worker'.kind = "nodegroup"
          /\ worker'.copy = stored["nodegroup"]
      BY <1>4 DEF ListNodeGroups, EventInv
    <2>2. \A k \in Kinds : ToWrite(k)' <=> ToWrite(k)
      BY <2>1 DEF ToWrite
    <2> QED BY <2>1, <2>2 DEF ErrorInv
  <1>5. CASE WriteNodeGroup
    <2>1. /\ UNCHANGED <<ch, owed, wiped>>
          /\ worker'.pc = "idle" /\ worker.pc = "write" /\ worker.kind = "nodegroup"
      BY <1>5 DEF WriteNodeGroup, IdleWorker
    <2>2. /\ stored'["nodegroup"].err = IF Decides(worker.ev) THEN worker.ev.err
                                                              ELSE worker.copy.err
          /\ stored'["tenant"] = stored["tenant"]
      BY <1>5, WriteFacts
    <2>3. ~ToWrite("tenant") /\ ~ToWrite("nodegroup")' /\ ~ToWrite("tenant")'
      BY <2>1 DEF ToWrite
    <2> QED BY <2>1, <2>2, <2>3, SMTT(30) DEF ErrorInv
  <1>6. ASSUME NEW k \in Kinds, NEW recon \in {stored[k], IdleWorker.copy},
               UpdateStatus(k, recon)
        PROVE  ErrorInv'
    <2>1. \A l \in Kinds : l # k => stored'[l] = stored[l]
      BY <1>6 DEF UpdateStatus
    <2>2. k \in wiped' /\ wiped \subseteq wiped'
      BY <1>6 DEF UpdateStatus
    <2>3. UNCHANGED <<ch, worker, owed>>
      BY <1>6 DEF UpdateStatus
    <2> QED BY <2>1, <2>2, <2>3 DEF ErrorInv, ToWrite
  <1>7. CASE Delete
    BY <1>7 DEF Delete, ErrorInv, ToWrite
  <1> QED BY <1>1, <1>2, <1>3, <1>4, <1>5, <1>6, <1>7 DEF TrackerNext, apply

(***************************************************************************)
(* The tracker, the PUT handlers and the gatherer stay in StatusPlaneInv.  *)
(***************************************************************************)
THEOREM StatusPlaneInvariant == StatusPlaneSpec => []StatusPlaneInv
  <1>1. ASSUME StatusPlaneInv, [StatusPlaneNext]_statusPlaneVars
        PROVE  StatusPlaneInv'
    <2>1. CASE TrackerNext
      <3>1. GatherInv'
        BY <1>1, <2>1
        DEF StatusPlaneInv, GatherInv, AnswersFresh, TrackerNext, Listener, Take, apply,
            WriteTenant, ListNodeGroups, WriteNodeGroup, UpdateStatus, Delete, gatherVars
      <3> QED
        BY <1>1, <2>1, <3>1, TrackerTypeStep, PutStep, EventStep, DestroyStep, PhaseStep,
           ErrorStep DEF StatusPlaneInv
    <2>2. CASE GatherNext
      <3>1. UNCHANGED trackerVars
        BY <2>2 DEF GatherNext, Tick, Gather, probe, CacheHealth, Return
      <3>2. PutInv' /\ EventInv' /\ DestroyInv'
        BY <1>1, <3>1 DEF StatusPlaneInv, trackerVars, PutInv, PutKeptUnlessRaced,
           EventInv, DestroyInv
      <3>3. PhaseInv' /\ ErrorInv'
        BY <1>1, <3>1 DEF StatusPlaneInv, trackerVars, PhaseInv, ErrorInv, ToWrite
      <3> QED
        BY <1>1, <2>2, <3>2, <3>3, GatherTypeStep, GatherStep DEF StatusPlaneInv
    <2>3. CASE UNCHANGED statusPlaneVars
      <3>1. StatusPlaneTypeOK' /\ PutInv' /\ GatherInv' /\ EventInv' /\ DestroyInv'
        BY <1>1, <2>3 DEF StatusPlaneInv, statusPlaneVars, trackerVars, gatherVars,
           StatusPlaneTypeOK, PutInv, PutKeptUnlessRaced, GatherInv, AnswersFresh,
           EventInv, DestroyInv
      <3>2. PhaseInv' /\ ErrorInv'
        BY <1>1, <2>3 DEF StatusPlaneInv, statusPlaneVars, trackerVars, PhaseInv,
           ErrorInv, ToWrite
      <3> QED BY <3>1, <3>2 DEF StatusPlaneInv
    <2> QED BY <1>1, <2>1, <2>2, <2>3 DEF StatusPlaneNext
  <1> QED BY <1>1, StatusPlaneInitInv, PTL DEF StatusPlaneSpec

(***************************************************************************)
(* Type correctness of the rows, the channel, the worker and the cache.    *)
(***************************************************************************)
THEOREM StatusPlaneTypeCorrect == StatusPlaneSpec => []StatusPlaneTypeOK
  <1>1. StatusPlaneInv => StatusPlaneTypeOK
    BY DEF StatusPlaneInv
  <1> QED BY <1>1, StatusPlaneInvariant, PTL

(***************************************************************************)
(* A tracker that has caught up shows the last phase and the error of the  *)
(* failure that is not over, unless the event was dropped or a PUT         *)
(* replaced the status since.                                              *)
(***************************************************************************)
THEOREM TrackerIsCurrent == StatusPlaneSpec => []TrackerCatchesUp
  <1>1. StatusPlaneInv => TrackerCatchesUp
    <2> SUFFICES ASSUME StatusPlaneInv, Quiet, ~dropped, last # NoEvent,
                        NEW k \in Kinds \ replaced
                 PROVE  /\ stored[k].phase \in {last.phase} \cup
                                  (IF k = "tenant" THEN {"destroying"} ELSE {})
                        /\ k = "tenant" /\ last.del => stored[k].phase = Translated(last)
                        /\ stored[k].phase = "destroying" => deleting
                        /\ k \notin wiped => stored[k].err = owed
      BY DEF TrackerCatchesUp
    <2>1. ~ToWrite(k) /\ ch = <<>>
      BY DEF Quiet, ToWrite
    <2>2. /\ stored[k].phase \in {last.phase} \cup
                               (IF k = "tenant" THEN {"destroying"} ELSE {})
          /\ k = "tenant" /\ last.del => stored[k].phase = Translated(last)
      BY <2>1 DEF StatusPlaneInv, PhaseInv
    <2>3. k \notin wiped => stored[k].err = owed
      BY <2>1 DEF StatusPlaneInv, ErrorInv
    <2>4. stored[k].phase = "destroying" => deleting
      BY DEF StatusPlaneInv, DestroyInv
    <2> QED BY <2>2, <2>3, <2>4
  <1> QED BY <1>1, StatusPlaneInvariant, PTL

(***************************************************************************)
(* What an agent PUT is kept until the next PUT, unless the PUT fell into  *)
(* the tracker's read-modify-write.                                        *)
(***************************************************************************)
THEOREM PutsAreKept == StatusPlaneSpec => []PutKeptUnlessRaced
  <1>1. StatusPlaneInv => PutKeptUnlessRaced
    BY DEF StatusPlaneInv, PutInv
  <1> QED BY <1>1, StatusPlaneInvariant, PTL

(***************************************************************************)
(* A health answer was observed less than a TTL before its call began.     *)
(***************************************************************************)
THEOREM AnswersAreFresh == StatusPlaneSpec => []AnswersFresh
  <1>1. StatusPlaneInv => AnswersFresh
    BY DEF StatusPlaneInv, GatherInv
  <1> QED BY <1>1, StatusPlaneInvariant, PTL

-----------------------------------------------------------------------------
(* The converge engine. *)

(***************************************************************************)
(* A goroutine that has ended.                                             *)
(***************************************************************************)
LEMMA IdleHandlerFacts ==
  /\ IdleHandler \in HandlerState
  /\ IdleHandler.pc = "idle"
  <1>1. (CHOOSE m \in Machines : TRUE) \in Machines
    BY ConvergeAssumption DEF ConvergeAssumption
  <1> QED BY <1>1 DEF IdleHandler, HandlerState, HandlerPcs

(***************************************************************************)
(* The goroutine emit starts for an event.                                 *)
(***************************************************************************)
EventHandler(kind, m) == [IdleHandler EXCEPT !.pc = "event", !.kind = kind, !.m = m]

LEMMA EventHandlerFacts ==
  ASSUME NEW kind \in {"connected", "disconnected"}, NEW m \in Machines
  PROVE  /\ EventHandler(kind, m) \in HandlerState
         /\ EventHandler(kind, m).pc = "event"
         /\ EventHandler(kind, m).kind = kind
         /\ EventHandler(kind, m).m = m
  BY IdleHandlerFacts DEF EventHandler, HandlerState, HandlerPcs

(***************************************************************************)
(* What a step of a handler does to the goroutines: it moves on with the   *)
(* same event, or it ends, and the others stay where they are.             *)
(***************************************************************************)
Others(h) ==
  /\ handler' \in [PeerHandlers -> HandlerState]
  /\ \A g \in PeerHandlers : g # h => handler'[g] = handler[g]

Moves(h, c) ==
  /\ Others(h)
  /\ handler'[h].pc = c
  /\ handler'[h].m = handler[h].m
  /\ handler'[h].kind = handler[h].kind

Ends(h) == Others(h) /\ handler'[h] = IdleHandler

(***************************************************************************)
(* The assignments the handlers make are moves and ends.                   *)
(***************************************************************************)
LEMMA MoveFacts ==
  ASSUME ConvergeTypeOK, NEW h \in PeerHandlers
  PROVE  /\ \A c \in HandlerPcs : handler' = [handler EXCEPT ![h].pc = c] =>
              /\ Moves(h, c)
              /\ handler'[h].cfg = handler[h].cfg /\ handler'[h].stage = handler[h].stage
         /\ \A v \in Nat : handler' = [handler EXCEPT ![h].pc = "store", ![h].ver = v]
              => Moves(h, "store")
         /\ \A v \in Nat : handler' = [handler EXCEPT ![h].pc = "deliver", ![h].cfg = v]
              => Moves(h, "deliver") /\ handler'[h].cfg = v
         /\ \A s \in Stages :
              handler' = [handler EXCEPT ![h].pc = "marking", ![h].stage = s]
                => Moves(h, "marking") /\ handler'[h].stage = s
         /\ handler' = [handler EXCEPT ![h] = IdleHandler] => Ends(h)
  <1> USE DEF ConvergeTypeOK, Moves, Others, HandlerState, HandlerPcs
  <1>1. ASSUME NEW c \in HandlerPcs, handler' = [handler EXCEPT ![h].pc = c]
        PROVE  /\ Moves(h, c)
               /\ handler'[h].cfg = handler[h].cfg /\ handler'[h].stage = handler[h].stage
    BY <1>1
  <1>2. ASSUME NEW v \in Nat, handler' = [handler EXCEPT ![h].pc = "store", ![h].ver = v]
        PROVE  Moves(h, "store")
    BY <1>2, ZenonT(60)
  <1>3. ASSUME NEW v \in Nat, handler' = [handler EXCEPT ![h].pc = "deliver", ![h].cfg = v]
        PROVE  Moves(h, "deliver") /\ handler'[h].cfg = v
    BY <1>3, ZenonT(60)
  <1>4. ASSUME NEW s \in Stages,
               handler' = [handler EXCEPT ![h].pc = "marking", ![h].stage = s]
        PROVE  Moves(h, "marking") /\ handler'[h].stage = s
    BY <1>4, ZenonT(60)
  <1>5. ASSUME handler' = [handler EXCEPT ![h] = IdleHandler]
        PROVE  Ends(h)
    BY <1>5, IdleHandlerFacts DEF Ends
  <1> QED BY <1>1, <1>2, <1>3, <1>4, <1>5

(***************************************************************************)
(* The steps of the handlers, as moves and ends.                           *)
(***************************************************************************)
LEMMA StepFacts ==
  ASSUME ConvergeTypeOK, NEW h \in PeerHandlers
  PROVE  /\ resolveMachine(h) =>
              IF mrow[handler[h].m].live THEN Moves(h, "flag") ELSE Ends(h)
         /\ markDisconnected(h) =>
              IF /\ handler[h].m \in Matching /\ mrow[handler[h].m].live
                 /\ mrow[handler[h].m].connected
              THEN Moves(h, "flag") ELSE Ends(h)
         /\ setConnectedRead(h) => Moves(h, "store")
         /\ setConnected(h) =>
              IF handler[h].kind = "connected" THEN Moves(h, "converge") ELSE Ends(h)
         /\ converge(h) => Moves(h, "deliver") /\ handler'[h].cfg = desired[handler[h].m]
         /\ Deliver(h) => Moves(h, "mark")
         /\ convergeWithRetry(h) =>
              (Moves(h, "converge") /\ gaveUp' = gaveUp)
                \/ (Ends(h) /\ gaveUp' = gaveUp \cup {handler[h].m})
         /\ markConvergedRead(h) => Moves(h, "marking") /\ handler'[h].stage \in Stages
         /\ markConverged(h) => Ends(h)
  <1> USE MoveFacts DEF HandlerPcs
  <1>1. handler[h].m \in Machines
    BY DEF ConvergeTypeOK, HandlerState
  <1>2. /\ mrow[handler[h].m].ver \in Nat /\ mrow[handler[h].m].stage \in Stages
        /\ desired[handler[h].m] \in Nat
    BY <1>1 DEF ConvergeTypeOK, MachineRow
  <1>3. ASSUME resolveMachine(h)
        PROVE  IF mrow[handler[h].m].live THEN Moves(h, "flag") ELSE Ends(h)
    BY <1>3 DEF resolveMachine
  <1>4. ASSUME markDisconnected(h)
        PROVE  IF /\ handler[h].m \in Matching /\ mrow[handler[h].m].live
                  /\ mrow[handler[h].m].connected
               THEN Moves(h, "flag") ELSE Ends(h)
    BY <1>4 DEF markDisconnected
  <1>5. setConnectedRead(h) => Moves(h, "store")
    BY <1>2 DEF setConnectedRead
  <1>6. ASSUME setConnected(h)
        PROVE  IF handler[h].kind = "connected" THEN Moves(h, "converge") ELSE Ends(h)
    <2>1. CASE handler[h].kind = "connected"
      <3>1. handler' = [handler EXCEPT ![h].pc = "converge"]
        BY <1>6, <2>1 DEF setConnected
      <3> QED BY <2>1, <3>1
    <2>2. CASE handler[h].kind # "connected"
      BY <1>6, <2>2 DEF setConnected
    <2> QED BY <2>1, <2>2
  <1>7. converge(h) => Moves(h, "deliver") /\ handler'[h].cfg = desired[handler[h].m]
    BY <1>2 DEF converge
  <1>8. Deliver(h) => Moves(h, "mark")
    BY DEF Deliver
  <1>9. ASSUME convergeWithRetry(h)
        PROVE  (Moves(h, "converge") /\ gaveUp' = gaveUp)
                 \/ (Ends(h) /\ gaveUp' = gaveUp \cup {handler[h].m})
    <2>1. \/ handler' = [handler EXCEPT ![h].pc = "converge"] /\ gaveUp' = gaveUp
          \/ /\ handler' = [handler EXCEPT ![h] = IdleHandler]
             /\ gaveUp' = gaveUp \cup {handler[h].m}
      BY <1>9 DEF convergeWithRetry
    <2> QED BY <2>1
  <1>10. markConvergedRead(h) => Moves(h, "marking") /\ handler'[h].stage \in Stages
    BY <1>2 DEF markConvergedRead
  <1>11. markConverged(h) => Ends(h)
    BY DEF markConverged
  <1> QED BY <1>3, <1>4, <1>5, <1>6, <1>7, <1>8, <1>9, <1>10, <1>11

(***************************************************************************)
(* What the writes of a machine row leave alone.                           *)
(***************************************************************************)
LEMMA RowFacts ==
  ASSUME ConvergeTypeOK, NEW m \in Machines
  PROVE  /\ \A b \in BOOLEAN :
              mrow' = [mrow EXCEPT ![m].connected = b, ![m].ver = @ + 1] =>
                /\ mrow' \in [Machines -> MachineRow]
                /\ \A l \in Machines : /\ l # m => mrow'[l] = mrow[l]
                                       /\ mrow'[l].live = mrow[l].live
                                       /\ mrow'[l].current = mrow[l].current
                /\ mrow'[m].connected = b
         /\ \A s \in Stages, b \in BOOLEAN :
              mrow' = [mrow EXCEPT ![m].current = b, ![m].stage = s] =>
                /\ mrow' \in [Machines -> MachineRow]
                /\ \A l \in Machines : /\ l # m => mrow'[l] = mrow[l]
                                       /\ mrow'[l].live = mrow[l].live
                                       /\ mrow'[l].connected = mrow[l].connected
                /\ mrow'[m].current = b
         /\ mrow' = [mrow EXCEPT ![m].ver = @ + 1] =>
              /\ mrow' \in [Machines -> MachineRow]
              /\ \A l \in Machines : /\ mrow'[l].live = mrow[l].live
                                     /\ mrow'[l].connected = mrow[l].connected
                                     /\ mrow'[l].current = mrow[l].current
         /\ mrow' = [mrow EXCEPT ![m].live = FALSE] =>
              /\ mrow' \in [Machines -> MachineRow]
              /\ \A l \in Machines : /\ mrow'[l].live => mrow[l].live
                                     /\ mrow'[l].connected = mrow[l].connected
                                     /\ mrow'[l].current = mrow[l].current
  <1> USE DEF ConvergeTypeOK, MachineRow
  <1>1. ASSUME NEW b \in BOOLEAN, mrow' = [mrow EXCEPT ![m].connected = b, ![m].ver = @ + 1]
        PROVE  /\ mrow' \in [Machines -> MachineRow]
               /\ \A l \in Machines : /\ l # m => mrow'[l] = mrow[l]
                                      /\ mrow'[l].live = mrow[l].live
                                      /\ mrow'[l].current = mrow[l].current
               /\ mrow'[m].connected = b
    BY <1>1
  <1>2. ASSUME NEW s \in Stages, NEW b \in BOOLEAN,
               mrow' = [mrow EXCEPT ![m].current = b, ![m].stage = s]
        PROVE  /\ mrow' \in [Machines -> MachineRow]
               /\ \A l \in Machines : /\ l # m => mrow'[l] = mrow[l]
                                      /\ mrow'[l].live = mrow[l].live
                                      /\ mrow'[l].connected = mrow[l].connected
               /\ mrow'[m].current = b
    BY <1>2
  <1>3. ASSUME mrow' = [mrow EXCEPT ![m].ver = @ + 1]
        PROVE  /\ mrow' \in [Machines -> MachineRow]
               /\ \A l \in Machines : /\ mrow'[l].live = mrow[l].live
                                      /\ mrow'[l].connected = mrow[l].connected
                                      /\ mrow'[l].current = mrow[l].current
    BY <1>3
  <1>4. ASSUME mrow' = [mrow EXCEPT ![m].live = FALSE]
        PROVE  /\ mrow' \in [Machines -> MachineRow]
               /\ \A l \in Machines : /\ mrow'[l].live => mrow[l].live
                                      /\ mrow'[l].connected = mrow[l].connected
                                      /\ mrow'[l].current = mrow[l].current
    BY <1>4
  <1> QED BY <1>1, <1>2, <1>3, <1>4

(***************************************************************************)
(* What each action does to the rows: only setConnected writes the flag,   *)
(* at the version it read; only markConverged sets configUpToDate.         *)
(***************************************************************************)
LEMMA RowSteps ==
  ASSUME ConvergeTypeOK, HandlerInv
  PROVE  /\ \A h \in PeerHandlers : setConnected(h) =>
              /\ mrow' \in [Machines -> MachineRow]
              /\ \A l \in Machines : /\ l # handler[h].m => mrow'[l] = mrow[l]
                                     /\ mrow'[l].live = mrow[l].live
                                     /\ mrow'[l].current = mrow[l].current
              /\ \/ /\ mrow'[handler[h].m].connected <=> handler[h].kind = "connected"
                    /\ refused' = refused
                 \/ mrow' = mrow /\ refused' = refused \cup {handler[h].m}
         /\ \A h \in PeerHandlers : markConverged(h) =>
              /\ mrow' \in [Machines -> MachineRow]
              /\ \A l \in Machines : /\ l # handler[h].m => mrow'[l] = mrow[l]
                                     /\ mrow'[l].live = mrow[l].live
                                     /\ mrow'[l].connected = mrow[l].connected
         /\ \A m \in Machines : SpecUpdated(m) \/ UpdateMachineStage(m) \/ DeleteMachine(m) =>
              /\ mrow' \in [Machines -> MachineRow]
              /\ \A l \in Machines : /\ mrow'[l].live => mrow[l].live
                                     /\ mrow'[l].connected = mrow[l].connected
                                     /\ mrow'[l].current => mrow[l].current
  <1>1. ASSUME NEW h \in PeerHandlers, setConnected(h)
        PROVE  /\ mrow' \in [Machines -> MachineRow]
               /\ \A l \in Machines : /\ l # handler[h].m => mrow'[l] = mrow[l]
                                      /\ mrow'[l].live = mrow[l].live
                                      /\ mrow'[l].current = mrow[l].current
               /\ \/ /\ mrow'[handler[h].m].connected <=> handler[h].kind = "connected"
                     /\ refused' = refused
                  \/ mrow' = mrow /\ refused' = refused \cup {handler[h].m}
    <2>1. handler[h].m \in Machines
      BY DEF ConvergeTypeOK, HandlerState
    <2>2. CASE mrow[handler[h].m].ver = handler[h].ver
      <3> DEFINE b == (handler[h].kind = "connected")
      <3>1. mrow' = [mrow EXCEPT ![handler[h].m].connected = b, ![handler[h].m].ver = @ + 1]
        BY <1>1, <2>2 DEF setConnected
      <3>2. refused' = refused
        BY <1>1, <2>2 DEF setConnected
      <3>3. b \in BOOLEAN
        BY SMTT(30)
      <3> HIDE DEF b
      <3>4. /\ mrow' \in [Machines -> MachineRow]
            /\ \A l \in Machines : /\ l # handler[h].m => mrow'[l] = mrow[l]
                                   /\ mrow'[l].live = mrow[l].live
                                   /\ mrow'[l].current = mrow[l].current
            /\ mrow'[handler[h].m].connected = b
        BY <2>1, <3>1, <3>3, RowFacts
      <3> QED BY <3>2, <3>4 DEF b
    <2>3. CASE mrow[handler[h].m].ver # handler[h].ver
      BY <1>1, <2>3 DEF setConnected, ConvergeTypeOK
    <2> QED BY <2>2, <2>3
  <1>2. ASSUME NEW h \in PeerHandlers, markConverged(h)
        PROVE  /\ mrow' \in [Machines -> MachineRow]
               /\ \A l \in Machines : /\ l # handler[h].m => mrow'[l] = mrow[l]
                                      /\ mrow'[l].live = mrow[l].live
                                      /\ mrow'[l].connected = mrow[l].connected
    <2>1. handler[h].m \in Machines
      BY DEF ConvergeTypeOK, HandlerState
    <2> DEFINE s == IF handler[h].stage = "configuring" THEN "ready" ELSE handler[h].stage
    <2>2. s \in Stages
      BY <1>2 DEF markConverged, HandlerInv, Stages
    <2>3. mrow' = [mrow EXCEPT ![handler[h].m].current = TRUE, ![handler[h].m].stage = s]
      BY <1>2 DEF markConverged
    <2> HIDE DEF s
    <2> QED BY <2>1, <2>2, <2>3, RowFacts
  <1>3. ASSUME NEW m \in Machines, SpecUpdated(m) \/ UpdateMachineStage(m) \/ DeleteMachine(m)
        PROVE  /\ mrow' \in [Machines -> MachineRow]
               /\ \A l \in Machines : /\ mrow'[l].live => mrow[l].live
                                      /\ mrow'[l].connected = mrow[l].connected
                                      /\ mrow'[l].current => mrow[l].current
    <2>1. CASE SpecUpdated(m)
      BY <2>1, RowFacts DEF SpecUpdated
    <2>2. CASE UpdateMachineStage(m)
      <3>1. mrow' = [mrow EXCEPT ![m].stage = "other", ![m].current = FALSE]
        BY <2>2 DEF UpdateMachineStage
      <3> QED BY <3>1, ZenonT(60) DEF ConvergeTypeOK, MachineRow, Stages
    <2>3. CASE DeleteMachine(m)
      BY <2>3, RowFacts DEF DeleteMachine
    <2> QED BY <1>3, <2>1, <2>2, <2>3
  <1> QED BY <1>1, <1>2, <1>3

(***************************************************************************)
(* emit starts a goroutine in an idle slot and remembers an overlap.       *)
(***************************************************************************)
LEMMA EmitFacts ==
  ASSUME ConvergeTypeOK, NEW h \in PeerHandlers, NEW m \in Machines,
         NEW kind \in {"connected", "disconnected"}, emit(h, kind, m)
  PROVE  /\ Others(h)
         /\ handler[h].pc = "idle"
         /\ handler'[h].pc = "event" /\ handler'[h].kind = kind /\ handler'[h].m = m
         /\ muddled' = IF HandlersOf(m) # {} THEN muddled \cup {m} ELSE muddled \ {m}
  <1>1. handler' = [handler EXCEPT ![h] = EventHandler(kind, m)]
    BY DEF emit, EventHandler
  <1> QED BY <1>1, EventHandlerFacts DEF emit, Others, ConvergeTypeOK

(***************************************************************************)
(* Every peer event, step of a handler and edit keeps the types.           *)
(***************************************************************************)
LEMMA ConvergeTypeStep ==
  ASSUME ConvergeTypeOK, HandlerInv, [ConvergeNext]_convergeVars
  PROVE  ConvergeTypeOK'
  <1> USE ConvergeAssumption DEF ConvergeAssumption, ConvergeTypeOK
  <1>1. ASSUME NEW h \in PeerHandlers, NEW m \in Machines, Provision(h, m)
        PROVE  ConvergeTypeOK'
    <2>1. handler' \in [PeerHandlers -> HandlerState]
      BY <1>1, EmitFacts DEF Provision, Others
    <2> QED BY <1>1, <2>1 DEF Provision, emit
  <1>2. ASSUME NEW h \in PeerHandlers, NEW m \in Machines, Detach(h, m)
        PROVE  ConvergeTypeOK'
    <2>1. handler' \in [PeerHandlers -> HandlerState]
      BY <1>2, EmitFacts DEF Detach, Others
    <2> QED BY <1>2, <2>1 DEF Detach, emit
  <1>3. ASSUME NEW h \in PeerHandlers, onPeer(h) \/ converge(h) \/ Deliver(h)
                \/ convergeWithRetry(h) \/ markConvergedRead(h) \/ markConverged(h)
        PROVE  ConvergeTypeOK'
    <2>1. handler' \in [PeerHandlers -> HandlerState]
      BY <1>3, StepFacts DEF onPeer, Moves, Ends, Others
    <2>2. handler[h].m \in Machines /\ handler[h].cfg \in Nat
      BY DEF HandlerState
    <2>3. CASE onPeer(h)
      <3>1. CASE resolveMachine(h)
        BY <2>1, <2>2, <3>1 DEF resolveMachine
      <3>2. CASE markDisconnected(h) \/ setConnectedRead(h)
        BY <2>1, <3>2 DEF markDisconnected, setConnectedRead
      <3>3. CASE setConnected(h)
        <4>1. mrow' \in [Machines -> MachineRow] /\ refused' \subseteq Machines
          BY <2>2, <3>3, RowSteps
        <4> QED BY <2>1, <3>3, <4>1 DEF setConnected
      <3> QED BY <2>3, <3>1, <3>2, <3>3 DEF onPeer
    <2>4. CASE converge(h) \/ markConvergedRead(h)
      BY <2>1, <2>4 DEF converge, markConvergedRead
    <2>5. CASE Deliver(h)
      BY <2>1, <2>2, <2>5 DEF Deliver
    <2>6. CASE convergeWithRetry(h)
      BY <2>1, <2>2, <2>6, SMTT(30) DEF convergeWithRetry
    <2>7. CASE markConverged(h)
      BY <2>1, <2>7, RowSteps DEF markConverged
    <2> QED BY <1>3, <2>3, <2>4, <2>5, <2>6, <2>7
  <1>4. ASSUME NEW m \in Machines, ConfigEdited(m)
        PROVE  ConvergeTypeOK'
    BY <1>4 DEF ConfigEdited
  <1>5. ASSUME NEW m \in Machines, SpecUpdated(m) \/ UpdateMachineStage(m) \/ DeleteMachine(m)
        PROVE  ConvergeTypeOK'
    BY <1>5, RowSteps DEF SpecUpdated, UpdateMachineStage, DeleteMachine
  <1>6. CASE UNCHANGED convergeVars
    BY <1>6 DEF convergeVars
  <1> HIDE DEF ConvergeTypeOK
  <1> QED BY <1>1, <1>2, <1>3, <1>4, <1>5, <1>6 DEF ConvergeNext

(***************************************************************************)
(* Every step keeps HandlerInv: an event takes the path of its kind, and   *)
(* converge renders a config before anything is delivered or marked.       *)
(***************************************************************************)
LEMMA HandlerStep ==
  ASSUME ConvergeTypeOK, HandlerInv, [ConvergeNext]_convergeVars
  PROVE  HandlerInv'
  <1> USE IdleHandlerFacts DEF HandlerInv, Converging
  <1>1. ASSUME NEW h \in PeerHandlers, NEW m \in Machines, Provision(h, m) \/ Detach(h, m)
        PROVE  HandlerInv'
    <2>1. /\ Others(h) /\ UNCHANGED nodeCfg
          /\ handler'[h].pc = "event" /\ handler'[h].kind # "none"
      BY <1>1, EmitFacts DEF Provision, Detach
    <2> QED BY <2>1 DEF Others
  <1>2. ASSUME NEW h \in PeerHandlers, Others(h), UNCHANGED nodeCfg,
               Ends(h) \/ (/\ handler'[h].pc # "idle" => handler'[h].kind # "none"
                           /\ handler'[h].pc \in Converging => handler'[h].kind = "connected"
                           /\ handler'[h].pc = "deliver" => handler'[h].cfg # 0
                           /\ handler'[h].pc \in {"mark", "marking"}
                                => nodeCfg[handler'[h].m] # 0
                           /\ handler'[h].pc = "marking" => handler'[h].stage \in Stages)
        PROVE  HandlerInv'
    BY <1>2 DEF Others, Ends
  <1>3. ASSUME NEW h \in PeerHandlers, resolveMachine(h)
        PROVE  HandlerInv'
    BY <1>2, <1>3, StepFacts DEF resolveMachine, Moves, Ends
  <1>4. ASSUME NEW h \in PeerHandlers, markDisconnected(h)
        PROVE  HandlerInv'
    BY <1>2, <1>4, StepFacts DEF markDisconnected, Moves, Ends
  <1>5. ASSUME NEW h \in PeerHandlers, setConnectedRead(h)
        PROVE  HandlerInv'
    BY <1>2, <1>5, StepFacts, ZenonT(60) DEF setConnectedRead, Moves
  <1>6. ASSUME NEW h \in PeerHandlers, setConnected(h)
        PROVE  HandlerInv'
    BY <1>2, <1>6, StepFacts DEF setConnected, Moves, Ends
  <1>7. ASSUME NEW h \in PeerHandlers, converge(h)
        PROVE  HandlerInv'
    <2>1. desired[handler[h].m] # 0
      BY DEF ConvergeTypeOK, HandlerState
    <2> QED BY <1>2, <1>7, <2>1, StepFacts, ZenonT(60) DEF converge, Moves
  <1>8. ASSUME NEW h \in PeerHandlers, handler[h].pc = "deliver",
               nodeCfg' = [nodeCfg EXCEPT ![handler[h].m] = handler[h].cfg],
               Moves(h, "mark") \/ Moves(h, "converge") \/ Ends(h)
        PROVE  HandlerInv'
    <2>1. \A l \in Machines : nodeCfg[l] # 0 => nodeCfg'[l] # 0
      BY <1>8 DEF ConvergeTypeOK
    <2>2. handler[h].m \in Machines /\ nodeCfg'[handler[h].m] # 0
      BY <1>8 DEF ConvergeTypeOK, HandlerState
    <2>3. \A g \in PeerHandlers : handler[g].m \in Machines
      BY DEF ConvergeTypeOK, HandlerState
    <2> QED BY <1>8, <2>1, <2>2, <2>3 DEF Moves, Ends, Others
  <1>9. ASSUME NEW h \in PeerHandlers, Deliver(h)
        PROVE  HandlerInv'
    BY <1>8, <1>9, StepFacts DEF Deliver
  <1>10. ASSUME NEW h \in PeerHandlers, convergeWithRetry(h)
         PROVE  HandlerInv'
    <2>1. CASE UNCHANGED nodeCfg
      BY <1>2, <1>10, <2>1, StepFacts DEF convergeWithRetry, Moves, Ends
    <2>2. CASE nodeCfg' # nodeCfg
      BY <1>8, <1>10, <2>2, StepFacts DEF convergeWithRetry
    <2> QED BY <2>1, <2>2
  <1>11. ASSUME NEW h \in PeerHandlers, markConvergedRead(h)
         PROVE  HandlerInv'
    BY <1>2, <1>11, StepFacts, ZenonT(60) DEF markConvergedRead, Moves
  <1>12. ASSUME NEW h \in PeerHandlers, markConverged(h)
         PROVE  HandlerInv'
    BY <1>2, <1>12, StepFacts DEF markConverged, Ends
  <1>13. CASE UNCHANGED <<handler, nodeCfg>>
    BY <1>13
  <1> HIDE DEF HandlerInv
  <1> QED
    BY <1>1, <1>3, <1>4, <1>5, <1>6, <1>7, <1>9, <1>10, <1>11, <1>12, <1>13
    DEF ConvergeNext, onPeer, ConfigEdited, SpecUpdated, UpdateMachineStage,
        DeleteMachine, convergeVars

(***************************************************************************)
(* Every step keeps AloneInv: a second handler of a machine makes it       *)
(* muddled, and only an event that finds it quiet clears that again.       *)
(***************************************************************************)
LEMMA AloneStep ==
  ASSUME ConvergeTypeOK, HandlerInv, AloneInv, [ConvergeNext]_convergeVars
  PROVE  AloneInv'
  <1> USE IdleHandlerFacts DEF AloneInv, HandlersOf
  <1>1. ASSUME NEW h \in PeerHandlers, NEW m \in Machines, Provision(h, m)
        PROVE  AloneInv'
    <2>1. /\ Others(h) /\ handler[h].pc = "idle"
          /\ handler'[h].pc = "event" /\ handler'[h].kind = "connected" /\ handler'[h].m = m
          /\ muddled' = IF HandlersOf(m) # {} THEN muddled \cup {m} ELSE muddled \ {m}
          /\ link' = link \cup {m}
      BY <1>1, EmitFacts DEF Provision
    <2> QED BY <2>1 DEF Others
  <1>2. ASSUME NEW h \in PeerHandlers, NEW m \in Machines, Detach(h, m)
        PROVE  AloneInv'
    <2>1. /\ Others(h) /\ handler[h].pc = "idle"
          /\ handler'[h].pc = "event" /\ handler'[h].kind = "disconnected" /\ handler'[h].m = m
          /\ muddled' = IF HandlersOf(m) # {} THEN muddled \cup {m} ELSE muddled \ {m}
          /\ link' = link \ {m}
      BY <1>2, EmitFacts DEF Detach
    <2> QED BY <2>1 DEF Others
  <1>3. ASSUME NEW h \in PeerHandlers, handler[h].pc # "idle",
               Ends(h) \/ Moves(h, handler'[h].pc), UNCHANGED <<link, muddled>>
        PROVE  AloneInv'
    BY <1>3 DEF Ends, Moves, Others
  <1>4. ASSUME NEW h \in PeerHandlers, onPeer(h)
        PROVE  AloneInv'
    <2>1. Ends(h) \/ Moves(h, handler'[h].pc)
      BY <1>4, StepFacts DEF onPeer, Moves
    <2> QED BY <1>3, <1>4, <2>1
        DEF onPeer, resolveMachine, markDisconnected, setConnectedRead, setConnected
  <1>5. ASSUME NEW h \in PeerHandlers, converge(h) \/ Deliver(h) \/ convergeWithRetry(h)
                 \/ markConvergedRead(h) \/ markConverged(h)
        PROVE  AloneInv'
    <2>1. Ends(h) \/ Moves(h, handler'[h].pc)
      BY <1>5, StepFacts DEF Moves
    <2> QED BY <1>3, <1>5, <2>1
        DEF converge, Deliver, convergeWithRetry, markConvergedRead, markConverged
  <1>6. CASE UNCHANGED <<handler, link, muddled>>
    BY <1>6
  <1> HIDE DEF AloneInv
  <1> QED
    BY <1>1, <1>2, <1>4, <1>5, <1>6
    DEF ConvergeNext, ConfigEdited, SpecUpdated, UpdateMachineStage, DeleteMachine,
        convergeVars

(***************************************************************************)
(* Every step keeps FlagInv: a lone handler sets the flag to what its      *)
(* event made of the link, a refusal and a deletion exempt the machine.    *)
(***************************************************************************)
LEMMA FlagStep ==
  ASSUME ConvergeTypeOK, HandlerInv, AloneInv, FlagInv, [ConvergeNext]_convergeVars
  PROVE  FlagInv'
  <1> USE IdleHandlerFacts DEF FlagInv, FlagFollowsLink, HandlersOf, Converging
  <1>0. \A h \in PeerHandlers : handler[h].m \in Machines
    BY DEF ConvergeTypeOK, HandlerState
  <1>1. ASSUME NEW h \in PeerHandlers, NEW m \in Machines, Provision(h, m) \/ Detach(h, m)
        PROVE  FlagInv'
    <2>1. /\ Others(h) /\ handler[h].pc = "idle"
          /\ handler'[h].pc = "event" /\ handler'[h].m = m
          /\ muddled' = IF HandlersOf(m) # {} THEN muddled \cup {m} ELSE muddled \ {m}
      BY <1>1, EmitFacts DEF Provision, Detach
    <2>2. /\ mrow' = mrow /\ refused' = refused \ {m}
          /\ link' = link \cup {m} \/ link' = link \ {m}
      BY <1>1 DEF Provision, Detach
    <2> QED BY <1>0, <2>1, <2>2 DEF Others
  <1>2. ASSUME NEW h \in PeerHandlers, resolveMachine(h)
        PROVE  FlagInv'
    <2>1. UNCHANGED <<mrow, link, muddled, refused>> /\ handler[h].pc = "event"
      BY <1>2 DEF resolveMachine
    <2>2. CASE mrow[handler[h].m].live
      <3>1. Moves(h, "flag")
        BY <1>2, <2>2, StepFacts
      <3> QED BY <1>0, <2>1, <3>1 DEF Moves, Others
    <2>3. CASE ~mrow[handler[h].m].live
      <3>1. Ends(h)
        BY <1>2, <2>3, StepFacts
      <3> QED BY <1>0, <2>1, <2>3, <3>1 DEF Ends, Others
    <2> QED BY <2>2, <2>3
  <1>3. ASSUME NEW h \in PeerHandlers, markDisconnected(h)
        PROVE  FlagInv'
    <2>1. /\ UNCHANGED <<mrow, link, muddled, refused>>
          /\ handler[h].pc = "event" /\ handler[h].kind = "disconnected"
      BY <1>3 DEF markDisconnected
    <2>2. CASE Moves(h, "flag")
      BY <1>0, <2>1, <2>2 DEF Moves, Others
    <2>3. CASE Ends(h) /\ ~(/\ handler[h].m \in Matching /\ mrow[handler[h].m].live
                            /\ mrow[handler[h].m].connected)
      <3>1. handler[h].m \notin muddled => handler[h].m \notin link
        BY <2>1 DEF AloneInv
      <3> QED BY <1>0, <2>1, <2>3, <3>1 DEF Ends, Others
    <2> QED BY <1>3, <2>2, <2>3, StepFacts
  <1>4. ASSUME NEW h \in PeerHandlers, setConnectedRead(h)
        PROVE  FlagInv'
    <2>1. UNCHANGED <<mrow, link, muddled, refused>> /\ Moves(h, "store") /\ handler[h].pc = "flag"
      BY <1>4, StepFacts DEF setConnectedRead
    <2> QED BY <1>0, <2>1 DEF Moves, Others
  <1>5. ASSUME NEW h \in PeerHandlers, setConnected(h)
        PROVE  FlagInv'
    <2>1. UNCHANGED <<link, muddled>> /\ handler[h].pc = "store"
      BY <1>5 DEF setConnected
    <2>2. /\ \A l \in Machines : /\ l # handler[h].m => mrow'[l] = mrow[l]
                                 /\ mrow'[l].live = mrow[l].live
          /\ \/ /\ mrow'[handler[h].m].connected <=> handler[h].kind = "connected"
                /\ refused' = refused
             \/ mrow' = mrow /\ refused' = refused \cup {handler[h].m}
      BY <1>5, RowSteps
    <2>3. IF handler[h].kind = "connected" THEN Moves(h, "converge") ELSE Ends(h)
      BY <1>5, StepFacts
    <2>4. handler[h].m \notin muddled =>
            /\ \A g \in HandlersOf(handler[h].m) : g = h
            /\ handler[h].kind = "connected" <=> handler[h].m \in link
      BY <2>1 DEF AloneInv
    <2>5. CASE handler[h].kind = "connected"
      <3>1. Moves(h, "converge")
        BY <2>3, <2>5
      <3> QED BY <1>0, <2>1, <2>2, <2>4, <2>5, <3>1 DEF Moves, Others
    <2>6. CASE handler[h].kind # "connected"
      <3>1. Ends(h)
        BY <2>3, <2>6
      <3> QED BY <1>0, <2>1, <2>2, <2>4, <2>6, <3>1 DEF Ends, Others
    <2> QED BY <2>5, <2>6
  <1>6. ASSUME NEW h \in PeerHandlers, handler[h].pc \in Converging,
               UNCHANGED <<link, muddled, refused>>,
               \A l \in Machines : mrow'[l].connected = mrow[l].connected
                                  /\ mrow'[l].live = mrow[l].live,
               Ends(h) \/ Moves(h, handler'[h].pc)
        PROVE  FlagInv'
    <2>1. handler[h].m \notin muddled =>
            /\ \A g \in HandlersOf(handler[h].m) : g = h
            /\ handler[h].m \in link
      BY <1>6 DEF AloneInv, HandlerInv
    <2>2. CASE Ends(h)
      BY <1>0, <1>6, <2>1, <2>2 DEF Ends, Others
    <2>3. CASE Moves(h, handler'[h].pc)
      BY <1>0, <1>6, <2>1, <2>3 DEF Moves, Others
    <2> QED BY <1>6, <2>2, <2>3
  <1>7. ASSUME NEW h \in PeerHandlers, converge(h) \/ Deliver(h) \/ convergeWithRetry(h)
                 \/ markConvergedRead(h) \/ markConverged(h)
        PROVE  FlagInv'
    <2>1. Ends(h) \/ Moves(h, handler'[h].pc)
      BY <1>7, StepFacts DEF Moves
    <2>2. \A l \in Machines : mrow'[l].connected = mrow[l].connected
                              /\ mrow'[l].live = mrow[l].live
      BY <1>7, RowSteps DEF converge, Deliver, convergeWithRetry, markConvergedRead
    <2>3. UNCHANGED <<link, muddled, refused>> /\ handler[h].pc \in Converging
      BY <1>7 DEF converge, Deliver, convergeWithRetry, markConvergedRead, markConverged
    <2> QED BY <1>6, <2>1, <2>2, <2>3
  <1>8. ASSUME NEW m \in Machines, SpecUpdated(m) \/ UpdateMachineStage(m) \/ DeleteMachine(m)
        PROVE  FlagInv'
    <2>1. \A l \in Machines : /\ mrow'[l].live => mrow[l].live
                              /\ mrow'[l].connected = mrow[l].connected
      BY <1>8, RowSteps
    <2>2. UNCHANGED <<handler, link, muddled, refused>>
      BY <1>8 DEF SpecUpdated, UpdateMachineStage, DeleteMachine
    <2> QED BY <1>0, <2>1, <2>2
  <1>9. CASE UNCHANGED <<handler, mrow, link, muddled, refused>>
    BY <1>9
  <1> HIDE DEF FlagInv
  <1> QED
    BY <1>1, <1>2, <1>3, <1>4, <1>5, <1>7, <1>8, <1>9
    DEF ConvergeNext, onPeer, ConfigEdited, convergeVars

(***************************************************************************)
(* Every step keeps DeliveredInv: desired configs only get newer, a lone   *)
(* handler delivers one rendered after its connect, and it marks or gives  *)
(* up before it ends.                                                      *)
(***************************************************************************)
LEMMA DeliveredStep ==
  ASSUME ConvergeTypeOK, HandlerInv, AloneInv, DeliveredInv, [ConvergeNext]_convergeVars
  PROVE  DeliveredInv'
  <1> USE IdleHandlerFacts DEF DeliveredInv, HandlersOf
  <1>0. /\ \A h \in PeerHandlers : handler[h].m \in Machines /\ handler[h].cfg \in Nat
        /\ \A m \in Machines : /\ desired[m] \in Nat /\ desired[m] # 0
                               /\ nodeCfg[m] \in Nat /\ rendered[m] \in Nat
    BY DEF ConvergeTypeOK, HandlerState
  <1>1. ASSUME NEW h \in PeerHandlers, NEW m \in Machines, Provision(h, m)
        PROVE  DeliveredInv'
    <2>1. /\ Others(h) /\ handler[h].pc = "idle"
          /\ handler'[h].pc = "event" /\ handler'[h].m = m
          /\ muddled' = IF HandlersOf(m) # {} THEN muddled \cup {m} ELSE muddled \ {m}
      BY <1>1, EmitFacts DEF Provision
    <2>2. /\ UNCHANGED <<mrow, nodeCfg, desired>>
          /\ gaveUp' = gaveUp \ {m} /\ link' = link \cup {m}
          /\ rendered'[m] = desired[m]
          /\ \A l \in Machines : l # m => rendered'[l] = rendered[l]
      BY <1>1 DEF Provision, ConvergeTypeOK
    <2> QED BY <1>0, <2>1, <2>2 DEF Others
  <1>2. ASSUME NEW h \in PeerHandlers, NEW m \in Machines, Detach(h, m)
        PROVE  DeliveredInv'
    <2>1. /\ Others(h) /\ handler[h].pc = "idle"
          /\ handler'[h].pc = "event" /\ handler'[h].m = m
          /\ muddled' = IF HandlersOf(m) # {} THEN muddled \cup {m} ELSE muddled \ {m}
      BY <1>2, EmitFacts DEF Detach
    <2>2. UNCHANGED <<mrow, nodeCfg, desired, gaveUp, rendered>> /\ link' = link \ {m}
      BY <1>2 DEF Detach
    <2> QED BY <1>0, <2>1, <2>2 DEF Others
  <1>3. ASSUME NEW h \in PeerHandlers, onPeer(h), handler[h].kind = "connected"
        PROVE  DeliveredInv'
    <2>1. /\ UNCHANGED <<nodeCfg, desired, gaveUp, rendered, link, muddled>>
          /\ handler[h].pc \in {"event", "flag", "store"}
      BY <1>3 DEF onPeer, resolveMachine, markDisconnected, setConnectedRead, setConnected
    <2>2. \A l \in Machines : mrow'[l].live = mrow[l].live /\ mrow'[l].current = mrow[l].current
      BY <1>3, RowSteps DEF onPeer, resolveMachine, markDisconnected, setConnectedRead
    <2>3. \/ Moves(h, "flag") \/ Moves(h, "store") \/ Moves(h, "converge")
          \/ Ends(h) /\ ~mrow[handler[h].m].live
      BY <1>3, StepFacts DEF onPeer, markDisconnected
    <2>4. CASE Moves(h, "flag") \/ Moves(h, "store") \/ Moves(h, "converge")
      BY <1>0, <2>1, <2>2, <2>4 DEF Moves, Others
    <2>5. CASE Ends(h) /\ ~mrow[handler[h].m].live
      BY <1>0, <2>1, <2>2, <2>5 DEF Ends, Others
    <2> QED BY <2>3, <2>4, <2>5
  <1>4. ASSUME NEW h \in PeerHandlers, onPeer(h), handler[h].kind # "connected"
        PROVE  DeliveredInv'
    <2>1. /\ UNCHANGED <<nodeCfg, desired, gaveUp, rendered, link, muddled>>
          /\ handler[h].pc \in {"event", "flag", "store"}
      BY <1>4 DEF onPeer, resolveMachine, markDisconnected, setConnectedRead, setConnected
    <2>2. \A l \in Machines : mrow'[l].live = mrow[l].live /\ mrow'[l].current = mrow[l].current
      BY <1>4, RowSteps DEF onPeer, resolveMachine, markDisconnected, setConnectedRead
    <2>3. Moves(h, "flag") \/ Moves(h, "store") \/ Ends(h)
      BY <1>4, StepFacts DEF onPeer, resolveMachine
    <2>4. handler[h].m \notin muddled => handler[h].m \notin link
      BY <1>4, <2>1 DEF AloneInv
    <2>5. CASE Moves(h, "flag") \/ Moves(h, "store")
      BY <1>0, <2>1, <2>2, <2>5 DEF Moves, Others
    <2>6. CASE Ends(h)
      BY <1>0, <2>1, <2>2, <2>4, <2>6 DEF Ends, Others
    <2> QED BY <2>3, <2>5, <2>6
  <1>5. ASSUME NEW h \in PeerHandlers, converge(h)
        PROVE  DeliveredInv'
    <2>1. UNCHANGED <<mrow, nodeCfg, desired, gaveUp, rendered, link, muddled>>
      BY <1>5 DEF converge
    <2>2. Moves(h, "deliver") /\ handler'[h].cfg = desired[handler[h].m] /\ handler[h].pc # "idle"
      BY <1>5, StepFacts DEF converge
    <2> QED BY <1>0, <2>1, <2>2 DEF Moves, Others
  <1>6. ASSUME NEW h \in PeerHandlers, handler[h].pc = "deliver",
               nodeCfg' = [nodeCfg EXCEPT ![handler[h].m] = handler[h].cfg],
               UNCHANGED <<mrow, desired, rendered, link, muddled>>,
               \/ Moves(h, "mark") /\ gaveUp' = gaveUp
               \/ Moves(h, "converge") /\ gaveUp' = gaveUp
               \/ Ends(h) /\ gaveUp' = gaveUp \cup {handler[h].m}
        PROVE  DeliveredInv'
    <2>1. /\ \A l \in Machines : l # handler[h].m => nodeCfg'[l] = nodeCfg[l]
          /\ nodeCfg'[handler[h].m] = handler[h].cfg
      BY <1>0, <1>6 DEF ConvergeTypeOK
    <2>2. handler[h].cfg # 0
      BY <1>6 DEF HandlerInv
    <2>3. handler[h].m \notin muddled => \A g \in HandlersOf(handler[h].m) : g = h
      BY <1>6 DEF AloneInv
    <2>4. CASE Moves(h, "mark") /\ gaveUp' = gaveUp
      BY <1>0, <1>6, <2>1, <2>2, <2>3, <2>4 DEF Moves, Others
    <2>5. CASE Moves(h, "converge") /\ gaveUp' = gaveUp
      BY <1>0, <1>6, <2>1, <2>2, <2>3, <2>5 DEF Moves, Others
    <2>6. CASE Ends(h) /\ gaveUp' = gaveUp \cup {handler[h].m}
      BY <1>0, <1>6, <2>1, <2>2, <2>3, <2>6 DEF Ends, Others
    <2> QED BY <1>6, <2>4, <2>5, <2>6
  <1>7. ASSUME NEW h \in PeerHandlers, Deliver(h)
        PROVE  DeliveredInv'
    BY <1>6, <1>7, StepFacts DEF Deliver
  <1>8. ASSUME NEW h \in PeerHandlers, convergeWithRetry(h)
        PROVE  DeliveredInv'
    <2>1. /\ UNCHANGED <<mrow, desired, rendered, link, muddled>>
          /\ handler[h].pc # "idle"
      BY <1>8 DEF convergeWithRetry
    <2>2. CASE nodeCfg' # nodeCfg
      BY <1>6, <1>8, <2>1, <2>2, StepFacts DEF convergeWithRetry
    <2>3. CASE nodeCfg' = nodeCfg /\ Moves(h, "converge") /\ gaveUp' = gaveUp
      BY <1>0, <2>1, <2>3 DEF Moves, Others
    <2>4. CASE nodeCfg' = nodeCfg /\ Ends(h) /\ gaveUp' = gaveUp \cup {handler[h].m}
      BY <1>0, <2>1, <2>4 DEF Ends, Others
    <2> QED BY <1>8, <2>2, <2>3, <2>4, StepFacts
  <1>9. ASSUME NEW h \in PeerHandlers, markConvergedRead(h)
        PROVE  DeliveredInv'
    <2>1. UNCHANGED <<mrow, nodeCfg, desired, gaveUp, rendered, link, muddled>>
      BY <1>9 DEF markConvergedRead
    <2>2. Moves(h, "marking") /\ handler[h].pc = "mark"
      BY <1>9, StepFacts DEF markConvergedRead
    <2> QED BY <1>0, <2>1, <2>2 DEF Moves, Others
  <1>10. ASSUME NEW h \in PeerHandlers, markConverged(h)
         PROVE  DeliveredInv'
    <2>1. /\ UNCHANGED <<nodeCfg, desired, gaveUp, rendered, link, muddled>>
          /\ handler[h].pc = "marking"
      BY <1>10 DEF markConverged
    <2>2. \A l \in Machines : /\ l # handler[h].m => mrow'[l] = mrow[l]
                              /\ mrow'[l].live = mrow[l].live
      BY <1>10, RowSteps
    <2>3. Ends(h) /\ nodeCfg[handler[h].m] # 0
      BY <1>10, <2>1, StepFacts DEF HandlerInv
    <2> QED BY <1>0, <2>1, <2>2, <2>3 DEF Ends, Others
  <1>11. ASSUME NEW m \in Machines, ConfigEdited(m)
         PROVE  DeliveredInv'
    <2>1. \A l \in Machines : desired'[l] \in Nat /\ desired'[l] >= desired[l]
      BY <1>0, <1>11 DEF ConfigEdited, ConvergeTypeOK
    <2> QED BY <1>0, <1>11, <2>1 DEF ConfigEdited
  <1>12. ASSUME NEW m \in Machines, SpecUpdated(m) \/ UpdateMachineStage(m) \/ DeleteMachine(m)
         PROVE  DeliveredInv'
    <2>1. \A l \in Machines : /\ mrow'[l].live => mrow[l].live
                              /\ mrow'[l].current => mrow[l].current
      BY <1>12, RowSteps
    <2>2. UNCHANGED <<handler, nodeCfg, desired, gaveUp, rendered, link, muddled>>
      BY <1>12 DEF SpecUpdated, UpdateMachineStage, DeleteMachine
    <2> QED BY <1>0, <2>1, <2>2
  <1>13. CASE UNCHANGED convergeVars
    BY <1>13 DEF convergeVars
  <1> HIDE DEF DeliveredInv
  <1> QED
    BY <1>1, <1>2, <1>3, <1>4, <1>5, <1>7, <1>8, <1>9, <1>10, <1>11, <1>12, <1>13
    DEF ConvergeNext

(***************************************************************************)
(* No events, no link, no config: the initial state is in the inductive    *)
(* invariant.                                                              *)
(***************************************************************************)
LEMMA ConvergeInitInv == ConvergeInit => ConvergeInv
  <1> SUFFICES ASSUME ConvergeInit PROVE ConvergeInv
    OBVIOUS
  <1> USE ConvergeAssumption, IdleHandlerFacts DEF ConvergeAssumption, ConvergeInit
  <1>1. mrow \in [Machines -> MachineRow]
    BY DEF MachineRow, Stages
  <1>2. ConvergeTypeOK
    BY <1>1 DEF ConvergeTypeOK
  <1>3. HandlerInv /\ AloneInv
    BY DEF HandlerInv, AloneInv, Converging
  <1>4. \A m \in Machines : ~mrow[m].connected /\ ~mrow[m].current /\ m \notin link
    OBVIOUS
  <1>5. FlagInv /\ DeliveredInv
    BY <1>4 DEF FlagInv, FlagFollowsLink, DeliveredInv, Converging
  <1> QED BY <1>2, <1>3, <1>5 DEF ConvergeInv

(***************************************************************************)
(* The engine stays in ConvergeInv however the events of the nodes, the    *)
(* handlers and the edits interleave.                                      *)
(***************************************************************************)
THEOREM ConvergeInvariant == ConvergeSpec => []ConvergeInv
  <1>1. ASSUME ConvergeInv, [ConvergeNext]_convergeVars
        PROVE  ConvergeInv'
    BY <1>1, ConvergeTypeStep, HandlerStep, AloneStep, FlagStep, DeliveredStep
    DEF ConvergeInv
  <1> QED BY <1>1, ConvergeInitInv, PTL DEF ConvergeSpec

(***************************************************************************)
(* Type correctness of the rows, the nodes and the handlers.               *)
(***************************************************************************)
THEOREM ConvergeTypeCorrect == ConvergeSpec => []ConvergeTypeOK
  <1>1. ConvergeInv => ConvergeTypeOK
    BY DEF ConvergeInv
  <1> QED BY <1>1, ConvergeInvariant, PTL

(***************************************************************************)
(* The connected flag of a quiet machine follows its link, unless handlers *)
(* overlapped, a write was refused or the record is being deleted.         *)
(***************************************************************************)
THEOREM FlagIsRight == ConvergeSpec => []FlagFollowsLink
  <1>1. ConvergeInv => FlagFollowsLink
    BY DEF ConvergeInv, FlagInv
  <1> QED BY <1>1, ConvergeInvariant, PTL

(***************************************************************************)
(* configUpToDate means that a config was delivered, and, for a quiet      *)
(* connected machine whose handlers did not overlap or give up, one        *)
(* rendered no earlier than its last connect.                              *)
(***************************************************************************)
THEOREM CurrentIsDelivered == ConvergeSpec => []CurrentMeansDelivered
  <1>1. ConvergeInv => CurrentMeansDelivered
    BY DEF ConvergeInv, DeliveredInv, CurrentMeansDelivered
  <1> QED BY <1>1, ConvergeInvariant, PTL
=============================================================================
