----------------------- MODULE TenantLifecycleProofs -----------------------
(***************************************************************************)
(* Proofs about TenantLifecycle for any sets of node groups, handlers and  *)
(* background goroutines and any number of requests, failures and crashes. *)
(***************************************************************************)
EXTENDS TenantLifecycle, TLAPS

\* What the type of `api` says about the request a handler serves.
LEMMA HandlerFields ==
  ASSUME TypeOK, NEW h \in Handlers
  PROVE  /\ api[h].pc \in {"addfin", "setfin"} => api[h].fin \in Finalizers
         /\ api[h].pc = "setfin" => api[h].fins \subseteq Finalizers
         /\ api[h].pc \in {"insertgroup", "removegroup", "updategroup"} => api[h].g \in Groups
         /\ api[h].pc = "updategroup" =>
              api[h].ver \in Nat /\ api[h].uid \in Nat /\ api[h].tok \in Nat
  BY DEF TypeOK, HandlerStates, Idle

\* What the type of `enrich` says about an enrichment in progress.
LEMMA EnrichFields ==
  ASSUME TypeOK, NEW j \in Enrichers
  PROVE  /\ enrich[j].pc \in {"list", "create", "bind"} => enrich[j].todo \subseteq Groups
         /\ enrich[j].pc = "bind" => enrich[j].tok \in [Groups -> Nat]
  BY DEF TypeOK, EnrichStates, NoEnrich

\* What the type of `rebuild` says about a rebuild that has pulled the state.
LEMMA RebuildFields ==
  ASSUME TypeOK, NEW j \in Rebuilders
  PROVE  rebuild[j].pc = "install" => rebuild[j].blob \in [Groups -> Nat]
  BY DEF TypeOK, RebuildStates, NoRebuild

\* Every step keeps the store well-formed.
LEMMA StoreTypeStep ==
  ASSUME TypeOK, [Next]_vars
  PROVE  StoreTypeOK'
  <1>1. ASSUME NEW h \in Handlers, NewRequest(h)
        PROVE  StoreTypeOK'
    <2>1. CASE DeleteTenant(h)
      BY <2>1 DEF DeleteTenant, Request, Serve, Publish, apiRest, TypeOK,
         StoreTypeOK, RowStates, Finalizers, MachinesFin, SecretsFin, storeVars
    <2>2. CASE CreateTenant(h) \/ UpdateTenant(h) \/ (\E g \in Groups :
       CreateGroup(h, g)) \/ (\E g \in Groups : UpdateNodeGroup(h, g)) \/ (\E g \in
       Groups : DeleteGroup(h, g))
      BY <2>2 DEF CreateTenant, Request, Serve, apiRest, UpdateTenant, Publish,
         CreateGroup, UpdateNodeGroup, DeleteGroup, TypeOK, StoreTypeOK, RowStates,
         Finalizers, MachinesFin, SecretsFin, storeVars
    <2> QED
      BY <1>1, <2>1, <2>2 DEF NewRequest
  <1>2. ASSUME NEW h \in Handlers, Continue(h)
        PROVE  StoreTypeOK'
    <2>1. CASE CreateTenantInsert(h)
      BY <2>1 DEF CreateTenantInsert, InsertTenant, Publish, Serve, Return,
         apiRest, TypeOK, StoreTypeOK, RowStates, Finalizers, MachinesFin,
         SecretsFin, storeVars
    <2>2. CASE CreateTenantSecrets(h)
      BY <2>2 DEF CreateTenantSecrets, Serve, Return, apiRest, TypeOK, StoreTypeOK,
         RowStates, Finalizers, MachinesFin, SecretsFin, storeVars
    <2>3. CASE AddFinalizerWrite(h)
      BY <2>3, HandlerFields DEF AddFinalizerWrite, WriteFinalizers, TypeOK,
         StoreTypeOK, RowStates, Finalizers, MachinesFin, SecretsFin, storeVars
    <2>4. CASE CreateGroupInsert(h)
      BY <2>4, HandlerFields DEF CreateGroupInsert, InsertGroup, TypeOK,
         StoreTypeOK, RowStates, Finalizers, MachinesFin, SecretsFin, storeVars
    <2>5. CASE UpdateNodeGroupWrite(h)
      BY <2>5, HandlerFields DEF UpdateNodeGroupWrite, UpdateGroup, TypeOK,
         StoreTypeOK, RowStates, Finalizers, MachinesFin, SecretsFin, storeVars
    <2>6. CASE DeleteGroupRemove(h)
      BY <2>6, HandlerFields DEF DeleteGroupRemove, RemoveGroup, TypeOK,
         StoreTypeOK, RowStates, Finalizers, MachinesFin, SecretsFin, storeVars
    <2>7. CASE AddFinalizerRead(h)
      BY <2>7 DEF AddFinalizerRead, AfterFinalizer, Serve, Return, apiRest, TypeOK,
         StoreTypeOK, RowStates, Finalizers, MachinesFin, SecretsFin, storeVars
    <2> QED
      BY <1>2, <2>1, <2>2, <2>3, <2>4, <2>5, <2>6, <2>7 DEF Continue
  <1>3. CASE Resync \/ LoseWakeup
    BY <1>3 DEF Resync, queueRest, LoseWakeup, TypeOK, StoreTypeOK, RowStates,
       Finalizers, MachinesFin, SecretsFin, storeVars
  <1>4. CASE Work
    <2>1. CASE PersistToken
      BY <2>1 DEF PersistToken, UpdateGroup, WorkerTypeOK, RestTypeOK, TypeOK,
         StoreTypeOK, RowStates, Finalizers, MachinesFin, SecretsFin, storeVars
    <2>2. CASE RemoveTenantSecrets
      BY <2>2 DEF RemoveTenantSecrets, workerRest, TypeOK, StoreTypeOK, RowStates,
         Finalizers, MachinesFin, SecretsFin, storeVars
    <2>3. ASSUME NEW r \in pend, CascadeDelete(r)
          PROVE  StoreTypeOK'
      BY <2>3 DEF CascadeDelete, WorkerTypeOK, TypeOK, StoreTypeOK, RowStates,
         Finalizers, MachinesFin, SecretsFin, storeVars
    <2>4. CASE RemoveFinalizerWrite
      BY <2>4 DEF RemoveFinalizerWrite, WriteFinalizers, WorkerTypeOK, TypeOK,
         StoreTypeOK, RowStates, Finalizers, MachinesFin, SecretsFin, storeVars
    <2>5. CASE Begin \/ LoadNodeGroups \/ Render \/ (\E g \in Groups :
       ReadToken(g)) \/ TofuSucceeds \/ CascadeList \/ RemoveFinalizerRead \/
       Applied \/ Failed
      BY <2>5 DEF Begin, workerRest, LoadNodeGroups, Stored, Render, ReadToken,
         TofuSucceeds, Goal, CascadeList, ChildRows, RemoveFinalizerRead,
         NextFinalizer, Applied, Failed, TypeOK, StoreTypeOK, RowStates,
         Finalizers, MachinesFin, SecretsFin, storeVars
    <2> QED
      BY <1>4, <2>1, <2>2, <2>3, <2>4, <2>5 DEF Work
  <1>5. CASE RunFails \/ CascadeFails
    <2>1. CASE RunFails
      BY <2>1 DEF RunFails, Goal, Halfway, workerRest, TypeOK, StoreTypeOK,
         RowStates, Finalizers, MachinesFin, SecretsFin, storeVars
    <2>2. CASE CascadeFails
      BY <2>2 DEF CascadeFails, workerRest, TypeOK, StoreTypeOK, RowStates,
         Finalizers, MachinesFin, SecretsFin, storeVars
    <2> QED
      BY <1>5, <2>1, <2>2
  <1>6. ASSUME NEW j \in Rebuilders, Rebuild(j) \/ RebuildFails(j)
        PROVE  StoreTypeOK'
    BY <1>6 DEF Rebuild, RebuildPull, jobRest, RebuildInstall, RebuildFails,
       TypeOK, StoreTypeOK, RowStates, Finalizers, MachinesFin, SecretsFin,
       storeVars
  <1>7. ASSUME NEW j \in Enrichers, Enrich(j)
        PROVE  StoreTypeOK'
    <2>1. ASSUME NEW g \in Groups, EnrichCreate(j, g)
          PROVE  StoreTypeOK'
      BY <2>1 DEF EnrichCreate, EnrichAs, Publish, jobRest, TypeOK, StoreTypeOK,
         RowStates, Finalizers, MachinesFin, SecretsFin, storeVars
    <2>2. ASSUME NEW g \in Groups, EnrichBind(j, g)
          PROVE  StoreTypeOK'
      <3>1. enrich[j].tok[g] \in Nat
        BY <2>2, EnrichFields DEF EnrichBind
      <3>2. bound' \in [Groups -> Nat] /\ \A x \in Groups : bound'[x] # 0 => x \in machines'
        BY <2>2, <3>1 DEF EnrichBind, TypeOK, StoreTypeOK
      <3> QED
        BY <2>2, <3>2 DEF EnrichBind, jobRest, TypeOK, StoreTypeOK
    <2>3. CASE EnrichRead(j) \/ EnrichList(j) \/ EnrichBindings(j) \/ EnrichDone(j)
      BY <2>3 DEF EnrichRead, EnrichAs, Projected, jobRest, EnrichList,
         EnrichBindings, EnrichDone, TypeOK, StoreTypeOK, RowStates, Finalizers,
         MachinesFin, SecretsFin, storeVars
    <2> QED
      BY <1>7, <2>1, <2>2, <2>3 DEF Enrich
  <1>8. CASE Crash
    BY <1>8 DEF Crash, Halfway, Goal, TypeOK, StoreTypeOK, RowStates, Finalizers,
       MachinesFin, SecretsFin, storeVars
  <1>9. CASE UNCHANGED vars
    BY <1>9 DEF vars, storeVars, workerVars, jobVars, bounds, TypeOK, StoreTypeOK,
       RowStates, Finalizers, MachinesFin, SecretsFin
  <1> QED
    BY <1>1, <1>2, <1>3, <1>4, <1>5, <1>6, <1>7, <1>8, <1>9 DEF Next

\* Every step keeps the worker's locals well-formed.
LEMMA WorkerTypeStep ==
  ASSUME TypeOK, [Next]_vars
  PROVE  WorkerTypeOK'
  <1>1. ASSUME NEW h \in Handlers, NewRequest(h)
        PROVE  WorkerTypeOK'
    BY <1>1 DEF NewRequest, CreateTenant, Request, Serve, apiRest, UpdateTenant,
       Publish, DeleteTenant, CreateGroup, UpdateNodeGroup, DeleteGroup, TypeOK,
       WorkerTypeOK, RowStates, Reading, Purging, Freeing, Finalizers, MachinesFin,
       SecretsFin, workerVars
  <1>2. ASSUME NEW h \in Handlers, Continue(h)
        PROVE  WorkerTypeOK'
    BY <1>2 DEF Continue, CreateTenantInsert, InsertTenant, Publish, Serve, Return,
       apiRest, CreateTenantSecrets, AddFinalizerRead, AfterFinalizer,
       AddFinalizerWrite, WriteFinalizers, CreateGroupInsert, InsertGroup,
       UpdateNodeGroupWrite, UpdateGroup, DeleteGroupRemove, RemoveGroup, TypeOK,
       WorkerTypeOK, RowStates, Reading, Purging, Freeing, Finalizers, MachinesFin,
       SecretsFin, workerVars
  <1>3. CASE Resync \/ LoseWakeup
    BY <1>3 DEF Resync, queueRest, LoseWakeup, TypeOK, WorkerTypeOK, RowStates,
       Reading, Purging, Freeing, Finalizers, MachinesFin, SecretsFin, workerVars
  <1>4. CASE Work
    <2>1. CASE Begin
      BY <2>1 DEF Begin, workerRest, TypeOK, WorkerTypeOK, RowStates, Reading,
         Purging, Freeing, Finalizers, MachinesFin, SecretsFin, workerVars
    <2>2. CASE LoadNodeGroups
      BY <2>2 DEF LoadNodeGroups, Stored, StoreTypeOK, Nothing, TypeOK,
         WorkerTypeOK, RowStates, Reading, Purging, Freeing, Finalizers,
         MachinesFin, SecretsFin, workerVars
    <2>3. CASE PersistToken
      BY <2>3 DEF PersistToken, RestTypeOK, Unread, TypeOK, WorkerTypeOK,
         RowStates, Reading, Purging, Freeing, Finalizers, MachinesFin, SecretsFin,
         workerVars
    <2>4. CASE Render
      BY <2>4 DEF Render, workerRest, TypeOK, WorkerTypeOK, RowStates, Reading,
         Purging, Freeing, Finalizers, MachinesFin, SecretsFin, workerVars
    <2>5. ASSUME NEW g \in Groups, ReadToken(g)
          PROVE  WorkerTypeOK'
      BY <2>5 DEF ReadToken, StoreTypeOK, Unread, TypeOK, WorkerTypeOK, RowStates,
         Reading, Purging, Freeing, Finalizers, MachinesFin, SecretsFin, workerVars
    <2>6. CASE TofuSucceeds
      BY <2>6 DEF TofuSucceeds, Goal, workerRest, TypeOK, WorkerTypeOK, RowStates,
         Reading, Purging, Freeing, Finalizers, MachinesFin, SecretsFin, workerVars
    <2>7. CASE CascadeList
      BY <2>7 DEF CascadeList, ChildRows, Stored, StoreTypeOK, TypeOK,
         WorkerTypeOK, RowStates, Reading, Purging, Freeing, Finalizers,
         MachinesFin, SecretsFin, workerVars
    <2>8. CASE RemoveTenantSecrets
      BY <2>8 DEF RemoveTenantSecrets, workerRest, TypeOK, WorkerTypeOK, RowStates,
         Reading, Purging, Freeing, Finalizers, MachinesFin, SecretsFin, workerVars
    <2>9. ASSUME NEW r \in pend, CascadeDelete(r)
          PROVE  WorkerTypeOK'
      BY <2>9 DEF CascadeDelete, Publish, workerRest, TypeOK, WorkerTypeOK,
         RowStates, Reading, Purging, Freeing, Finalizers, MachinesFin, SecretsFin,
         workerVars
    <2>10. CASE RemoveFinalizerRead
      <3>1. seen' \in [ver : Nat, uid : Nat, fins : SUBSET Finalizers, row : RowStates]
        <4>1. CASE UNCHANGED seen
          BY <4>1 DEF TypeOK, WorkerTypeOK
        <4>2. CASE seen' = [Unread EXCEPT !.fins = fins \ {cur}, !.row = row]
          BY <4>2 DEF TypeOK, StoreTypeOK, Unread
        <4> QED
          BY <2>10, <4>1, <4>2 DEF RemoveFinalizerRead
      <3>2. /\ pc' \in {"failed", "finread", "finwrite", "applied"}
            /\ pc' \in Freeing => cur' \in Finalizers
        BY <2>10 DEF RemoveFinalizerRead, NextFinalizer, TypeOK, WorkerTypeOK, Freeing, Finalizers
      <3> QED
        BY <2>10, <3>1, <3>2 DEF RemoveFinalizerRead, TypeOK, WorkerTypeOK, Reading, Purging, Freeing
    <2>11. CASE RemoveFinalizerWrite
      BY <2>11 DEF RemoveFinalizerWrite, NextFinalizer, Unread, TypeOK,
         WorkerTypeOK, RowStates, Reading, Purging, Freeing, Finalizers,
         MachinesFin, SecretsFin, workerVars
    <2>12. CASE Applied
      BY <2>12 DEF Applied, TypeOK, WorkerTypeOK, RowStates, Reading, Purging,
         Freeing, Finalizers, MachinesFin, SecretsFin, workerVars
    <2>13. CASE Failed
      BY <2>13 DEF Failed, workerRest, TypeOK, WorkerTypeOK, RowStates, Reading,
         Purging, Freeing, Finalizers, MachinesFin, SecretsFin, workerVars
    <2> QED
      BY <1>4, <2>1, <2>2, <2>3, <2>4, <2>5, <2>6, <2>7, <2>8, <2>9, <2>10, <2>11,
         <2>12, <2>13 DEF Work
  <1>5. CASE RunFails \/ CascadeFails
    <2>1. CASE RunFails
      BY <2>1 DEF RunFails, Goal, Halfway, workerRest, TypeOK, WorkerTypeOK,
         RowStates, Reading, Purging, Freeing, Finalizers, MachinesFin, SecretsFin,
         workerVars
    <2>2. CASE CascadeFails
      BY <2>2 DEF CascadeFails, workerRest, TypeOK, WorkerTypeOK, RowStates,
         Reading, Purging, Freeing, Finalizers, MachinesFin, SecretsFin, workerVars
    <2> QED
      BY <1>5, <2>1, <2>2
  <1>6. ASSUME NEW j \in Rebuilders, Rebuild(j) \/ RebuildFails(j)
        PROVE  WorkerTypeOK'
    BY <1>6 DEF Rebuild, RebuildPull, jobRest, RebuildInstall, RebuildFails,
       TypeOK, WorkerTypeOK, RowStates, Reading, Purging, Freeing, Finalizers,
       MachinesFin, SecretsFin, workerVars
  <1>7. ASSUME NEW j \in Enrichers, Enrich(j)
        PROVE  WorkerTypeOK'
    BY <1>7 DEF Enrich, EnrichRead, EnrichAs, Projected, jobRest, EnrichList,
       EnrichBindings, EnrichDone, EnrichCreate, Publish, EnrichBind, TypeOK,
       WorkerTypeOK, RowStates, Reading, Purging, Freeing, Finalizers, MachinesFin,
       SecretsFin, workerVars
  <1>8. CASE Crash
    BY <1>8 DEF Crash, Unread, Nothing, TypeOK, WorkerTypeOK, RowStates, Reading,
       Purging, Freeing, Finalizers, MachinesFin, SecretsFin, workerVars
  <1>9. CASE UNCHANGED vars
    BY <1>9 DEF vars, storeVars, workerVars, jobVars, bounds, TypeOK, WorkerTypeOK,
       RowStates, Reading, Purging, Freeing, Finalizers, MachinesFin, SecretsFin
  <1> QED
    BY <1>1, <1>2, <1>3, <1>4, <1>5, <1>6, <1>7, <1>8, <1>9 DEF Next

\* Every step keeps the OpenTofu state, the index and the counters well-formed.
LEMMA RestTypeStep ==
  ASSUME TypeOK, [Next]_vars
  PROVE  RestTypeOK'
  <1>1. ASSUME NEW h \in Handlers, NewRequest(h)
        PROVE  RestTypeOK'
    BY <1>1 DEF NewRequest, CreateTenant, Request, Serve, apiRest, UpdateTenant,
       Publish, DeleteTenant, CreateGroup, UpdateNodeGroup, DeleteGroup, TypeOK,
       RestTypeOK
  <1>2. ASSUME NEW h \in Handlers, Continue(h)
        PROVE  RestTypeOK'
    BY <1>2 DEF Continue, CreateTenantInsert, InsertTenant, Publish, Serve, Return,
       apiRest, CreateTenantSecrets, AddFinalizerRead, AfterFinalizer,
       AddFinalizerWrite, WriteFinalizers, CreateGroupInsert, InsertGroup,
       UpdateNodeGroupWrite, UpdateGroup, DeleteGroupRemove, RemoveGroup, TypeOK,
       RestTypeOK
  <1>3. CASE Resync \/ LoseWakeup
    BY <1>3 DEF Resync, queueRest, LoseWakeup, TypeOK, RestTypeOK
  <1>4. CASE Work
    <2>1. CASE PersistToken
      BY <2>1 DEF PersistToken, workerRest, TypeOK, RestTypeOK
    <2>2. CASE TofuSucceeds
      BY <2>2 DEF TofuSucceeds, Goal, Nothing, WorkerTypeOK, workerRest, TypeOK,
         RestTypeOK
    <2>3. CASE Begin \/ LoadNodeGroups \/ Render \/ (\E g \in Groups :
       ReadToken(g)) \/ CascadeList \/ (\E r \in pend :
       CascadeDelete(r)) \/ RemoveFinalizerRead \/ RemoveFinalizerWrite \/ Applied
       \/ Failed
      BY <2>3 DEF Begin, workerRest, LoadNodeGroups, Stored, Render, ReadToken,
         CascadeList, ChildRows, CascadeDelete, Publish,
         RemoveFinalizerRead, NextFinalizer, RemoveFinalizerWrite, WriteFinalizers,
         Applied, Failed, TypeOK, RestTypeOK
    <2>4. CASE RemoveTenantSecrets
      BY <2>4 DEF RemoveTenantSecrets, workerRest, TypeOK, RestTypeOK
    <2> QED
      BY <1>4, <2>1, <2>2, <2>3, <2>4 DEF Work
  <1>5. CASE RunFails \/ CascadeFails
    <2>1. CASE RunFails
      BY <2>1 DEF RunFails, Halfway, Goal, Nothing, WorkerTypeOK, workerRest,
         TypeOK, RestTypeOK
    <2>2. CASE CascadeFails
      BY <2>2 DEF CascadeFails, workerRest, TypeOK, RestTypeOK
    <2> QED
      BY <1>5, <2>1, <2>2
  <1>6. ASSUME NEW j \in Rebuilders, Rebuild(j) \/ RebuildFails(j)
        PROVE  RestTypeOK'
    <2>1. CASE RebuildInstall(j)
      BY <2>1, RebuildFields DEF RebuildInstall, jobRest, TypeOK, RestTypeOK
    <2>2. CASE RebuildPull(j) \/ RebuildFails(j)
      BY <2>2 DEF RebuildPull, jobRest, RebuildFails, TypeOK, RestTypeOK
    <2> QED
      BY <1>6, <2>1, <2>2 DEF Rebuild
  <1>7. ASSUME NEW j \in Enrichers, Enrich(j)
        PROVE  RestTypeOK'
    BY <1>7 DEF Enrich, EnrichRead, EnrichAs, Projected, jobRest, EnrichList,
       EnrichBindings, EnrichDone, EnrichCreate, Publish, EnrichBind, TypeOK,
       RestTypeOK
  <1>8. CASE Crash
    BY <1>8 DEF Crash, Halfway, Goal, Nothing, WorkerTypeOK, TypeOK, RestTypeOK
  <1>9. CASE UNCHANGED vars
    BY <1>9 DEF vars, storeVars, workerVars, jobVars, bounds, TypeOK, RestTypeOK
  <1> QED
    BY <1>1, <1>2, <1>3, <1>4, <1>5, <1>6, <1>7, <1>8, <1>9 DEF Next

\* Every step keeps each handler inside a request the code knows.
LEMMA ApiTypeStep ==
  ASSUME TypeOK, [Next]_vars
  PROVE  api' \in [Handlers -> HandlerStates]
  <1>1. ASSUME NEW h \in Handlers, NewRequest(h)
        PROVE  api' \in [Handlers -> HandlerStates]
    <2>1. CASE CreateTenant(h)
      BY <2>1 DEF CreateTenant, Request, Serve, apiRest, TypeOK, HandlerStates,
         Idle
    <2>2. CASE UpdateTenant(h)
      BY <2>2 DEF UpdateTenant, Request, Serve, Publish, apiRest, TypeOK,
         HandlerStates, Idle
    <2>3. CASE DeleteTenant(h)
      BY <2>3 DEF DeleteTenant, Request, Serve, Finalizers, TypeOK, HandlerStates,
         Idle
    <2>4. ASSUME NEW g \in Groups, CreateGroup(h, g)
          PROVE  api' \in [Handlers -> HandlerStates]
      BY <2>4 DEF CreateGroup, Request, Serve, apiRest, TypeOK, HandlerStates, Idle
    <2>5. ASSUME NEW g \in Groups, UpdateNodeGroup(h, g)
          PROVE  api' \in [Handlers -> HandlerStates]
      BY <2>5 DEF UpdateNodeGroup, Request, Serve, StoreTypeOK, TypeOK,
         HandlerStates, Idle
    <2>6. ASSUME NEW g \in Groups, DeleteGroup(h, g)
          PROVE  api' \in [Handlers -> HandlerStates]
      BY <2>6 DEF DeleteGroup, Request, Serve, apiRest, TypeOK, HandlerStates, Idle
    <2> QED
      BY <1>1, <2>1, <2>2, <2>3, <2>4, <2>5, <2>6 DEF NewRequest
  <1>2. ASSUME NEW h \in Handlers, Continue(h)
        PROVE  api' \in [Handlers -> HandlerStates]
    <2>1. CASE CreateTenantInsert(h)
      BY <2>1 DEF CreateTenantInsert, InsertTenant, Publish, Serve, Return,
         apiRest, TypeOK, HandlerStates, Idle
    <2>2. CASE CreateTenantSecrets(h)
      BY <2>2 DEF CreateTenantSecrets, Serve, Return, apiRest, TypeOK,
         HandlerStates, Idle
    <2>3. CASE AddFinalizerRead(h)
      <3>1. api[h].fin \in Finalizers /\ SecretsFin \in Finalizers
        BY <2>3, HandlerFields DEF AddFinalizerRead, Finalizers
      <3>2. PICK r \in HandlerStates : api' = [api EXCEPT ![h] = r]
        <4> SUFFICES \E r \in HandlerStates : api' = [api EXCEPT ![h] = r]
          OBVIOUS
        <4>1. [pc |-> "addfin", fin |-> SecretsFin] \in HandlerStates /\ Idle \in HandlerStates
          BY <3>1 DEF HandlerStates
        <4>2. [pc |-> "setfin", fin |-> api[h].fin, fins |-> fins] \in HandlerStates
          BY <3>1 DEF HandlerStates, TypeOK, StoreTypeOK
        <4> QED
          BY <2>3, <4>1, <4>2 DEF AddFinalizerRead, AfterFinalizer, Serve, Return
      <3> QED
        BY <3>2 DEF TypeOK
    <2>4. CASE AddFinalizerWrite(h)
      <3>1. api[h].fin \in Finalizers /\ SecretsFin \in Finalizers
        BY <2>4, HandlerFields DEF AddFinalizerWrite, Finalizers
      <3>2. PICK r \in HandlerStates : api' = [api EXCEPT ![h] = r]
        <4> SUFFICES \E r \in HandlerStates : api' = [api EXCEPT ![h] = r]
          OBVIOUS
        <4>1. [pc |-> "addfin", fin |-> SecretsFin] \in HandlerStates /\ Idle \in HandlerStates
          BY <3>1 DEF HandlerStates
        <4> QED
          BY <2>4, <4>1 DEF AddFinalizerWrite, AfterFinalizer, Serve, Return
      <3> QED
        BY <3>2 DEF TypeOK
    <2>5. CASE CreateGroupInsert(h)
      BY <2>5 DEF CreateGroupInsert, InsertGroup, Publish, Serve, Return, apiRest,
         TypeOK, HandlerStates, Idle
    <2>6. CASE UpdateNodeGroupWrite(h)
      BY <2>6 DEF UpdateNodeGroupWrite, UpdateGroup, Publish, Serve, Return,
         apiRest, TypeOK, HandlerStates, Idle
    <2>7. CASE DeleteGroupRemove(h)
      BY <2>7 DEF DeleteGroupRemove, RemoveGroup, Publish, Serve, Return, apiRest,
         TypeOK, HandlerStates, Idle
    <2> QED
      BY <1>2, <2>1, <2>2, <2>3, <2>4, <2>5, <2>6, <2>7 DEF Continue
  <1>3. CASE Resync \/ LoseWakeup
    BY <1>3 DEF Resync, queueRest, LoseWakeup, TypeOK, HandlerStates, Idle
  <1>4. CASE Work
    BY <1>4 DEF Work, Begin, workerRest, LoadNodeGroups, Stored, PersistToken,
       UpdateGroup, Publish, Render, ReadToken, TofuSucceeds, Goal, CascadeList,
       ChildRows, RemoveTenantSecrets, CascadeDelete, RemoveFinalizerRead,
       NextFinalizer, RemoveFinalizerWrite, WriteFinalizers, Applied, Failed,
       TypeOK, HandlerStates, Idle
  <1>5. CASE RunFails \/ CascadeFails
    BY <1>5 DEF RunFails, Goal, Halfway, workerRest, CascadeFails, TypeOK,
       HandlerStates, Idle
  <1>6. ASSUME NEW j \in Rebuilders, Rebuild(j) \/ RebuildFails(j)
        PROVE  api' \in [Handlers -> HandlerStates]
    BY <1>6 DEF Rebuild, RebuildPull, jobRest, RebuildInstall, RebuildFails,
       TypeOK, HandlerStates, Idle
  <1>7. ASSUME NEW j \in Enrichers, Enrich(j)
        PROVE  api' \in [Handlers -> HandlerStates]
    BY <1>7 DEF Enrich, EnrichRead, EnrichAs, Projected, jobRest, EnrichList,
       EnrichBindings, EnrichDone, EnrichCreate, Publish, EnrichBind, TypeOK,
       HandlerStates, Idle
  <1>8. CASE Crash
    BY <1>8 DEF Crash, Halfway, Goal, TypeOK, HandlerStates, Idle
  <1>9. CASE UNCHANGED vars
    BY <1>9 DEF vars, storeVars, workerVars, jobVars, bounds, TypeOK,
       HandlerStates, Idle
  <1> QED
    BY <1>1, <1>2, <1>3, <1>4, <1>5, <1>6, <1>7, <1>8, <1>9 DEF Next

\* Every step keeps the projection rebuilds well-formed.
LEMMA RebuildTypeStep ==
  ASSUME TypeOK, [Next]_vars
  PROVE  rebuild' \in [Rebuilders -> RebuildStates]
  <1>1. ASSUME NEW h \in Handlers, NewRequest(h)
        PROVE  rebuild' \in [Rebuilders -> RebuildStates]
    BY <1>1 DEF NewRequest, CreateTenant, Request, Serve, apiRest, UpdateTenant,
       Publish, DeleteTenant, CreateGroup, UpdateNodeGroup, DeleteGroup, TypeOK,
       RebuildStates, NoRebuild, jobVars
  <1>2. ASSUME NEW h \in Handlers, Continue(h)
        PROVE  rebuild' \in [Rebuilders -> RebuildStates]
    BY <1>2 DEF Continue, CreateTenantInsert, InsertTenant, Publish, Serve, Return,
       apiRest, CreateTenantSecrets, AddFinalizerRead, AfterFinalizer,
       AddFinalizerWrite, WriteFinalizers, CreateGroupInsert, InsertGroup,
       UpdateNodeGroupWrite, UpdateGroup, DeleteGroupRemove, RemoveGroup, TypeOK,
       RebuildStates, NoRebuild, jobVars
  <1>3. CASE Resync \/ LoseWakeup
    BY <1>3 DEF Resync, queueRest, LoseWakeup, TypeOK, RebuildStates, NoRebuild,
       jobVars
  <1>4. CASE Work
    <2>1. CASE Applied
      BY <2>1 DEF Applied, TypeOK, RebuildStates, NoRebuild, jobVars
    <2>2. CASE Begin \/ LoadNodeGroups \/ PersistToken \/ Render \/ (\E g \in
       Groups : ReadToken(g)) \/ TofuSucceeds \/ CascadeList \/ RemoveTenantSecrets
       \/ (\E r \in pend : CascadeDelete(r)) \/ RemoveFinalizerRead \/
       RemoveFinalizerWrite \/ Failed
      BY <2>2 DEF Begin, workerRest, LoadNodeGroups, Stored, PersistToken,
         UpdateGroup, Publish, Render, ReadToken, TofuSucceeds, Goal, CascadeList,
         ChildRows, RemoveTenantSecrets, CascadeDelete, RemoveFinalizerRead,
         NextFinalizer, RemoveFinalizerWrite, WriteFinalizers, Failed, TypeOK,
         RebuildStates, NoRebuild, jobVars
    <2> QED
      BY <1>4, <2>1, <2>2 DEF Work
  <1>5. CASE RunFails \/ CascadeFails
    BY <1>5 DEF RunFails, Goal, Halfway, workerRest, CascadeFails, TypeOK,
       RebuildStates, NoRebuild, jobVars
  <1>6. ASSUME NEW j \in Rebuilders, Rebuild(j) \/ RebuildFails(j)
        PROVE  rebuild' \in [Rebuilders -> RebuildStates]
    <2>1. CASE RebuildPull(j)
      BY <2>1 DEF RebuildPull, RestTypeOK, TypeOK, RebuildStates, NoRebuild,
         jobVars
    <2>2. CASE RebuildInstall(j)
      BY <2>2 DEF RebuildInstall, jobRest, TypeOK, RebuildStates, NoRebuild,
         jobVars
    <2>3. CASE RebuildFails(j)
      BY <2>3 DEF RebuildFails, jobRest, TypeOK, RebuildStates, NoRebuild, jobVars
    <2> QED
      BY <1>6, <2>1, <2>2, <2>3 DEF Rebuild
  <1>7. ASSUME NEW j \in Enrichers, Enrich(j)
        PROVE  rebuild' \in [Rebuilders -> RebuildStates]
    BY <1>7 DEF Enrich, EnrichRead, EnrichAs, Projected, jobRest, EnrichList,
       EnrichBindings, EnrichDone, EnrichCreate, Publish, EnrichBind, TypeOK,
       RebuildStates, NoRebuild, jobVars
  <1>8. CASE Crash
    BY <1>8 DEF Crash, Halfway, Goal, TypeOK, RebuildStates, NoRebuild, jobVars
  <1>9. CASE UNCHANGED vars
    BY <1>9 DEF vars, storeVars, workerVars, jobVars, bounds, TypeOK,
       RebuildStates, NoRebuild
  <1> QED
    BY <1>1, <1>2, <1>3, <1>4, <1>5, <1>6, <1>7, <1>8, <1>9 DEF Next

\* Every step keeps the enrichments well-formed.
LEMMA EnrichTypeStep ==
  ASSUME TypeOK, [Next]_vars
  PROVE  enrich' \in [Enrichers -> EnrichStates]
  <1>1. ASSUME NEW h \in Handlers, NewRequest(h)
        PROVE  enrich' \in [Enrichers -> EnrichStates]
    BY <1>1 DEF NewRequest, CreateTenant, Request, Serve, apiRest, UpdateTenant,
       Publish, DeleteTenant, CreateGroup, UpdateNodeGroup, DeleteGroup, TypeOK,
       EnrichStates, NoEnrich, jobVars
  <1>2. ASSUME NEW h \in Handlers, Continue(h)
        PROVE  enrich' \in [Enrichers -> EnrichStates]
    BY <1>2 DEF Continue, CreateTenantInsert, InsertTenant, Publish, Serve, Return,
       apiRest, CreateTenantSecrets, AddFinalizerRead, AfterFinalizer,
       AddFinalizerWrite, WriteFinalizers, CreateGroupInsert, InsertGroup,
       UpdateNodeGroupWrite, UpdateGroup, DeleteGroupRemove, RemoveGroup, TypeOK,
       EnrichStates, NoEnrich, jobVars
  <1>3. CASE Resync \/ LoseWakeup
    BY <1>3 DEF Resync, queueRest, LoseWakeup, TypeOK, EnrichStates, NoEnrich,
       jobVars
  <1>4. CASE Work
    <2>1. CASE Applied
      BY <2>1 DEF Applied, TypeOK, EnrichStates, NoEnrich, jobVars
    <2>2. CASE Begin \/ LoadNodeGroups \/ PersistToken \/ Render \/ (\E g \in
       Groups : ReadToken(g)) \/ TofuSucceeds \/ CascadeList \/ RemoveTenantSecrets
       \/ (\E r \in pend : CascadeDelete(r)) \/ RemoveFinalizerRead \/
       RemoveFinalizerWrite \/ Failed
      BY <2>2 DEF Begin, workerRest, LoadNodeGroups, Stored, PersistToken,
         UpdateGroup, Publish, Render, ReadToken, TofuSucceeds, Goal, CascadeList,
         ChildRows, RemoveTenantSecrets, CascadeDelete, RemoveFinalizerRead,
         NextFinalizer, RemoveFinalizerWrite, WriteFinalizers, Failed, TypeOK,
         EnrichStates, NoEnrich, jobVars
    <2> QED
      BY <1>4, <2>1, <2>2 DEF Work
  <1>5. CASE RunFails \/ CascadeFails
    BY <1>5 DEF RunFails, Goal, Halfway, workerRest, CascadeFails, TypeOK,
       EnrichStates, NoEnrich, jobVars
  <1>6. ASSUME NEW j \in Rebuilders, Rebuild(j) \/ RebuildFails(j)
        PROVE  enrich' \in [Enrichers -> EnrichStates]
    BY <1>6 DEF Rebuild, RebuildPull, jobRest, RebuildInstall, RebuildFails,
       TypeOK, EnrichStates, NoEnrich, jobVars
  <1>7. ASSUME NEW j \in Enrichers, Enrich(j)
        PROVE  enrich' \in [Enrichers -> EnrichStates]
    <2>1. CASE EnrichRead(j)
      BY <2>1 DEF EnrichRead, EnrichAs, Projected, jobRest, TypeOK, EnrichStates,
         NoEnrich, jobVars
    <2>2. CASE EnrichList(j)
      BY <2>2, EnrichFields DEF EnrichList, EnrichAs, TypeOK, EnrichStates,
         NoEnrich, jobVars
    <2>3. CASE EnrichBindings(j)
      BY <2>3 DEF EnrichBindings, EnrichAs, Projected, RestTypeOK, TypeOK,
         EnrichStates, NoEnrich, jobVars
    <2>4. CASE EnrichDone(j)
      BY <2>4 DEF EnrichDone, EnrichAs, jobRest, TypeOK, EnrichStates, NoEnrich,
         jobVars
    <2>5. ASSUME NEW g \in Groups, EnrichCreate(j, g)
          PROVE  enrich' \in [Enrichers -> EnrichStates]
      BY <2>5, EnrichFields DEF EnrichCreate, EnrichAs, TypeOK, EnrichStates,
         NoEnrich, jobVars
    <2>6. ASSUME NEW g \in Groups, EnrichBind(j, g)
          PROVE  enrich' \in [Enrichers -> EnrichStates]
      BY <2>6, EnrichFields DEF EnrichBind, EnrichAs, TypeOK, EnrichStates,
         NoEnrich, jobVars
    <2> QED
      BY <1>7, <2>1, <2>2, <2>3, <2>4, <2>5, <2>6 DEF Enrich
  <1>8. CASE Crash
    BY <1>8 DEF Crash, Halfway, Goal, TypeOK, EnrichStates, NoEnrich, jobVars
  <1>9. CASE UNCHANGED vars
    BY <1>9 DEF vars, storeVars, workerVars, jobVars, bounds, TypeOK, EnrichStates,
       NoEnrich
  <1> QED
    BY <1>1, <1>2, <1>3, <1>4, <1>5, <1>6, <1>7, <1>8, <1>9 DEF Next

\* `want` stays a Boolean.
LEMMA WantTypeStep ==
  ASSUME TypeOK, [Next]_vars
  PROVE  want' \in BOOLEAN
  <1>1. ASSUME NEW h \in Handlers, NewRequest(h)
        PROVE  want' \in BOOLEAN
    BY <1>1, Zenon DEF NewRequest, CreateTenant, Request, Serve, apiRest,
       UpdateTenant, Publish, DeleteTenant, CreateGroup, UpdateNodeGroup,
       DeleteGroup, TypeOK
  <1>2. ASSUME NEW h \in Handlers, Continue(h)
        PROVE  want' \in BOOLEAN
    BY <1>2, Zenon DEF Continue, CreateTenantInsert, InsertTenant, Publish, Serve,
       Return, apiRest, CreateTenantSecrets, AddFinalizerRead, AfterFinalizer,
       AddFinalizerWrite, WriteFinalizers, CreateGroupInsert, InsertGroup,
       UpdateNodeGroupWrite, UpdateGroup, DeleteGroupRemove, RemoveGroup, TypeOK
  <1>3. CASE Resync \/ LoseWakeup
    BY <1>3, Zenon DEF Resync, queueRest, LoseWakeup, TypeOK
  <1>4. CASE Work
    BY <1>4, Zenon DEF Work, Begin, workerRest, LoadNodeGroups, Stored,
       PersistToken, UpdateGroup, Publish, Render, ReadToken, TofuSucceeds, Goal,
       CascadeList, ChildRows, RemoveTenantSecrets, CascadeDelete,
       RemoveFinalizerRead, NextFinalizer, RemoveFinalizerWrite, WriteFinalizers,
       Applied, Failed, TypeOK
  <1>5. CASE RunFails \/ CascadeFails
    BY <1>5, Zenon DEF RunFails, Goal, Halfway, workerRest, CascadeFails, TypeOK
  <1>6. ASSUME NEW j \in Rebuilders, Rebuild(j) \/ RebuildFails(j)
        PROVE  want' \in BOOLEAN
    BY <1>6, Zenon DEF Rebuild, RebuildPull, jobRest, RebuildInstall, RebuildFails,
       TypeOK
  <1>7. ASSUME NEW j \in Enrichers, Enrich(j)
        PROVE  want' \in BOOLEAN
    BY <1>7, Zenon DEF Enrich, EnrichRead, EnrichAs, Projected, jobRest,
       EnrichList, EnrichBindings, EnrichDone, EnrichCreate, Publish, EnrichBind,
       TypeOK
  <1>8. CASE Crash
    BY <1>8, Zenon DEF Crash, Halfway, Goal, TypeOK
  <1>9. CASE UNCHANGED vars
    BY <1>9, Zenon DEF vars, storeVars, workerVars, jobVars, bounds, TypeOK
  <1> QED
    BY <1>1, <1>2, <1>3, <1>4, <1>5, <1>6, <1>7, <1>8, <1>9 DEF Next

\* The initial state is well-formed.
LEMMA TypeInit == Init => TypeOK
  <1> SUFFICES ASSUME Init PROVE TypeOK
    OBVIOUS
  <1>1. StoreTypeOK
    BY DEF Init, StoreTypeOK, RowStates, Nothing
  <1>2. WorkerTypeOK
    BY DEF Init, WorkerTypeOK, RowStates, Nothing, Unread, Freeing
  <1>3. RestTypeOK
    BY DEF Init, RestTypeOK, Nothing
  <1>4. want \in BOOLEAN
    BY Zenon DEF Init
  <1>5. /\ api \in [Handlers -> HandlerStates]
        /\ rebuild \in [Rebuilders -> RebuildStates]
        /\ enrich \in [Enrichers -> EnrichStates]
    BY DEF Init, HandlerStates, RebuildStates, EnrichStates
  <1> QED
    BY <1>1, <1>2, <1>3, <1>4, <1>5 DEF TypeOK

\* The variables keep their types, and no token, finalizer or binding outlives its
\* row (Store.RemoveResource deletes whole rows).
THEOREM TypeCorrect == Spec => []TypeOK
  <1>1. ASSUME TypeOK, [Next]_vars
        PROVE  TypeOK'
    BY <1>1, StoreTypeStep, WorkerTypeStep, RestTypeStep, WantTypeStep, ApiTypeStep,
       RebuildTypeStep, EnrichTypeStep DEF TypeOK
  <1> QED
    BY <1>1, TypeInit, PTL DEF Spec

\* One step preserves LifecycleInv: only RemoveFinalizerWrite removes the row, and
\* only a tofu run or a crash in the middle of one changes the infrastructure.
LEMMA LifecycleStep ==
  ASSUME TypeOK, LifecycleInv, [Next]_vars
  PROVE  LifecycleInv'
  <1>1. ASSUME NEW h \in Handlers, NewRequest(h)
        PROVE  LifecycleInv'
    <2>1. CASE DeleteTenant(h)
      BY <2>1 DEF DeleteTenant, Request, Serve, Publish, apiRest, LifecycleInv,
         RowOutlivesInfra, OnlyDeletedTornDown, Reading, Purging, Freeing,
         storeVars, workerVars
    <2>2. CASE CreateTenant(h) \/ UpdateTenant(h) \/ (\E g \in Groups :
       CreateGroup(h, g)) \/ (\E g \in Groups : UpdateNodeGroup(h, g)) \/ (\E g \in
       Groups : DeleteGroup(h, g))
      BY <2>2 DEF CreateTenant, Request, Serve, apiRest, UpdateTenant, Publish,
         CreateGroup, UpdateNodeGroup, DeleteGroup, LifecycleInv, RowOutlivesInfra,
         OnlyDeletedTornDown, Reading, Purging, Freeing, storeVars, workerVars
    <2> QED
      BY <1>1, <2>1, <2>2 DEF NewRequest
  <1>2. ASSUME NEW h \in Handlers, Continue(h)
        PROVE  LifecycleInv'
    <2>1. CASE CreateTenantInsert(h)
      BY <2>1 DEF CreateTenantInsert, InsertTenant, Publish, Serve, Return,
         apiRest, LifecycleInv, RowOutlivesInfra, OnlyDeletedTornDown, Reading,
         Purging, Freeing, storeVars, workerVars
    <2>2. CASE CreateTenantSecrets(h) \/ AddFinalizerRead(h) \/
       AddFinalizerWrite(h) \/ CreateGroupInsert(h) \/ UpdateNodeGroupWrite(h) \/
       DeleteGroupRemove(h)
      BY <2>2 DEF CreateTenantSecrets, Serve, Return, apiRest, AddFinalizerRead,
         AfterFinalizer, AddFinalizerWrite, WriteFinalizers, CreateGroupInsert,
         InsertGroup, Publish, UpdateNodeGroupWrite, UpdateGroup,
         DeleteGroupRemove, RemoveGroup, LifecycleInv, RowOutlivesInfra,
         OnlyDeletedTornDown, Reading, Purging, Freeing, storeVars, workerVars
    <2> QED
      BY <1>2, <2>1, <2>2 DEF Continue
  <1>3. CASE Resync \/ LoseWakeup
    BY <1>3 DEF Resync, queueRest, LoseWakeup, LifecycleInv, RowOutlivesInfra,
       OnlyDeletedTornDown, Reading, Purging, Freeing, storeVars, workerVars
  <1>4. CASE Work
    <2>1. CASE Begin
      BY <2>1 DEF Begin, workerRest, LifecycleInv, RowOutlivesInfra,
         OnlyDeletedTornDown, Reading, Purging, Freeing, storeVars, workerVars
    <2>2. CASE PersistToken
      BY <2>2 DEF PersistToken, UpdateGroup, Publish, workerRest, LifecycleInv,
         RowOutlivesInfra, OnlyDeletedTornDown, Reading, Purging, Freeing,
         storeVars, workerVars
    <2>3. ASSUME NEW g \in Groups, ReadToken(g)
          PROVE  LifecycleInv'
      BY <2>3 DEF ReadToken, workerRest, LifecycleInv, RowOutlivesInfra,
         OnlyDeletedTornDown, Reading, Purging, Freeing, storeVars, workerVars
    <2>4. CASE TofuSucceeds
      BY <2>4 DEF TofuSucceeds, Goal, workerRest, TypeOK, WorkerTypeOK,
         LifecycleInv, RowOutlivesInfra, OnlyDeletedTornDown, Reading, Purging,
         Freeing, storeVars, workerVars
    <2>5. CASE RemoveFinalizerRead
      BY <2>5 DEF RemoveFinalizerRead, NextFinalizer, workerRest, LifecycleInv,
         RowOutlivesInfra, OnlyDeletedTornDown, Reading, Purging, Freeing,
         storeVars, workerVars
    <2>6. CASE RemoveFinalizerWrite
      BY <2>6 DEF RemoveFinalizerWrite, WriteFinalizers, NextFinalizer, Publish,
         workerRest, LifecycleInv, RowOutlivesInfra, OnlyDeletedTornDown, Reading,
         Purging, Freeing, storeVars, workerVars
    <2>7. CASE LoadNodeGroups \/ Render \/ CascadeList \/ RemoveTenantSecrets \/
       (\E r \in pend : CascadeDelete(r)) \/ Applied \/ Failed
      BY <2>7 DEF LoadNodeGroups, Stored, workerRest, Render, CascadeList,
         ChildRows, RemoveTenantSecrets, CascadeDelete, Publish, Applied, Failed,
         LifecycleInv, RowOutlivesInfra, OnlyDeletedTornDown, Reading, Purging,
         Freeing, storeVars, workerVars
    <2> QED
      BY <1>4, <2>1, <2>2, <2>3, <2>4, <2>5, <2>6, <2>7 DEF Work
  <1>5. CASE RunFails \/ CascadeFails
    <2>1. CASE RunFails
      BY <2>1 DEF RunFails, Goal, Halfway, workerRest, LifecycleInv,
         RowOutlivesInfra, OnlyDeletedTornDown, Reading, Purging, Freeing,
         storeVars, workerVars
    <2>2. CASE CascadeFails
      BY <2>2 DEF CascadeFails, workerRest, LifecycleInv, RowOutlivesInfra,
         OnlyDeletedTornDown, Reading, Purging, Freeing, storeVars, workerVars
    <2> QED
      BY <1>5, <2>1, <2>2
  <1>6. ASSUME NEW j \in Rebuilders, Rebuild(j) \/ RebuildFails(j)
        PROVE  LifecycleInv'
    BY <1>6 DEF Rebuild, RebuildPull, jobRest, RebuildInstall, RebuildFails,
       LifecycleInv, RowOutlivesInfra, OnlyDeletedTornDown, Reading, Purging,
       Freeing, storeVars, workerVars
  <1>7. ASSUME NEW j \in Enrichers, Enrich(j)
        PROVE  LifecycleInv'
    BY <1>7 DEF Enrich, EnrichRead, EnrichAs, Projected, jobRest, EnrichList,
       EnrichBindings, EnrichDone, EnrichCreate, Publish, EnrichBind, LifecycleInv,
       RowOutlivesInfra, OnlyDeletedTornDown, Reading, Purging, Freeing, storeVars,
       workerVars
  <1>8. CASE Crash
    BY <1>8 DEF Crash, Halfway, Goal, LifecycleInv, RowOutlivesInfra,
       OnlyDeletedTornDown, Reading, Purging, Freeing, storeVars, workerVars
  <1>9. CASE UNCHANGED vars
    BY <1>9 DEF vars, storeVars, workerVars, jobVars, bounds, LifecycleInv,
       RowOutlivesInfra, OnlyDeletedTornDown, Reading, Purging, Freeing
  <1> QED
    BY <1>1, <1>2, <1>3, <1>4, <1>5, <1>6, <1>7, <1>8, <1>9 DEF Next

\* What Applier.Apply read of the tenant row still holds while it acts on it, for
\* any number of handlers, node groups, failures and crashes.
THEOREM LifecycleInvariant == Spec => []LifecycleInv
  <1>1. Init => LifecycleInv
    BY DEF Init, LifecycleInv, RowOutlivesInfra, OnlyDeletedTornDown, Reading, Purging, Freeing
  <1>2. TypeOK /\ LifecycleInv /\ [Next]_vars => LifecycleInv'
    BY LifecycleStep
  <1> QED
    BY <1>1, <1>2, TypeCorrect, PTL DEF Spec

\* The row of a tenant is garbage-collected by Store.RemoveFinalizer only when
\* its infrastructure is gone.
THEOREM TeardownSafe == Spec => []RowOutlivesInfra
  <1>1. LifecycleInv => RowOutlivesInfra
    BY DEF LifecycleInv
  <1> QED
    BY <1>1, LifecycleInvariant, PTL

\* Applier.destroy never works on a tenant that has come back.
THEOREM TeardownIntended == Spec => []OnlyDeletedTornDown
  <1>1. LifecycleInv => OnlyDeletedTornDown
    BY DEF LifecycleInv
  <1> QED
    BY <1>1, LifecycleInvariant, PTL

\* What one step can do to the row of a node group.
RowMove(x) ==
  \/ ver'[x] = ver[x] /\ uid'[x] = uid[x] /\ token'[x] = token[x]
  \/ ver'[x] = 0 /\ uid'[x] = uid[x]
  \/ ver[x] = 0 /\ uid'[x] = uid[x] + 1
  \/ ver[x] > 0 /\ ver'[x] = ver[x] + 1 /\ uid'[x] = uid[x]

\* Every step moves the row of a node group as RowMove says.
LEMMA RowMoves ==
  ASSUME TypeOK, TokenInv, [Next]_vars, NEW x \in Groups
  PROVE  RowMove(x)
  <1>1. ASSUME NEW h \in Handlers, NewRequest(h)
        PROVE  RowMove(x)
    BY <1>1 DEF NewRequest, CreateTenant, Request, Serve, apiRest, UpdateTenant,
       Publish, DeleteTenant, CreateGroup, UpdateNodeGroup, DeleteGroup, RowMove,
       TypeOK, StoreTypeOK, storeVars
  <1>2. ASSUME NEW h \in Handlers, Continue(h)
        PROVE  RowMove(x)
    <2>1. CASE CreateGroupInsert(h)
      BY <2>1, HandlerFields DEF CreateGroupInsert, InsertGroup, RowMove, TypeOK,
         StoreTypeOK, storeVars
    <2>2. CASE UpdateNodeGroupWrite(h)
      BY <2>2, HandlerFields DEF UpdateNodeGroupWrite, UpdateGroup, TokenInv,
         PutCurrent, RowMove, TypeOK, StoreTypeOK, storeVars
    <2>3. CASE DeleteGroupRemove(h)
      BY <2>3, HandlerFields DEF DeleteGroupRemove, RemoveGroup, RowMove, TypeOK,
         StoreTypeOK, storeVars
    <2>4. CASE CreateTenantInsert(h) \/ CreateTenantSecrets(h) \/
       AddFinalizerRead(h) \/ AddFinalizerWrite(h)
      BY <2>4 DEF CreateTenantInsert, InsertTenant, Publish, Serve, Return,
         apiRest, CreateTenantSecrets, AddFinalizerRead, AfterFinalizer,
         AddFinalizerWrite, WriteFinalizers, RowMove, TypeOK, StoreTypeOK,
         storeVars
    <2> QED
      BY <1>2, <2>1, <2>2, <2>3, <2>4 DEF Continue
  <1>3. CASE Resync \/ LoseWakeup
    BY <1>3 DEF Resync, queueRest, LoseWakeup, RowMove, TypeOK, StoreTypeOK,
       storeVars
  <1>4. CASE Work
    <2>1. CASE PersistToken
      BY <2>1 DEF PersistToken, UpdateGroup, TokenInv, PersistCurrent,
         WorkerTypeOK, RowMove, TypeOK, StoreTypeOK, storeVars
    <2>2. ASSUME NEW r \in pend, CascadeDelete(r)
          PROVE  RowMove(x)
      BY <2>2 DEF CascadeDelete, WorkerTypeOK, RowMove, TypeOK, StoreTypeOK,
         storeVars
    <2>3. CASE Begin \/ LoadNodeGroups \/ Render \/ (\E g \in Groups :
       ReadToken(g)) \/ TofuSucceeds \/ CascadeList \/ RemoveTenantSecrets \/
       RemoveFinalizerRead \/ RemoveFinalizerWrite \/ Applied \/ Failed
      BY <2>3 DEF Begin, workerRest, LoadNodeGroups, Stored, Render, ReadToken,
         TofuSucceeds, Goal, CascadeList, ChildRows, RemoveTenantSecrets,
         RemoveFinalizerRead, NextFinalizer, RemoveFinalizerWrite, WriteFinalizers,
         Publish, Applied, Failed, RowMove, TypeOK, StoreTypeOK, storeVars
    <2> QED
      BY <1>4, <2>1, <2>2, <2>3 DEF Work
  <1>5. CASE RunFails \/ CascadeFails
    <2>1. CASE RunFails
      BY <2>1 DEF RunFails, Goal, Halfway, workerRest, RowMove, TypeOK,
         StoreTypeOK, storeVars
    <2>2. CASE CascadeFails
      BY <2>2 DEF CascadeFails, workerRest, RowMove, TypeOK, StoreTypeOK, storeVars
    <2> QED
      BY <1>5, <2>1, <2>2
  <1>6. ASSUME NEW j \in Rebuilders, Rebuild(j) \/ RebuildFails(j)
        PROVE  RowMove(x)
    BY <1>6 DEF Rebuild, RebuildPull, jobRest, RebuildInstall, RebuildFails,
       RowMove, TypeOK, StoreTypeOK, storeVars
  <1>7. ASSUME NEW j \in Enrichers, Enrich(j)
        PROVE  RowMove(x)
    BY <1>7 DEF Enrich, EnrichRead, EnrichAs, Projected, jobRest, EnrichList,
       EnrichBindings, EnrichDone, EnrichCreate, Publish, EnrichBind, RowMove,
       TypeOK, StoreTypeOK, storeVars
  <1>8. CASE Crash
    BY <1>8 DEF Crash, Halfway, Goal, RowMove, TypeOK, StoreTypeOK, storeVars
  <1>9. CASE UNCHANGED vars
    BY <1>9 DEF vars, storeVars, workerVars, jobVars, bounds, RowMove, TypeOK,
       StoreTypeOK
  <1> QED
    BY <1>1, <1>2, <1>3, <1>4, <1>5, <1>6, <1>7, <1>8, <1>9 DEF Next

\* A token about to be persisted was about to be persisted before, or has just
\* been found missing.
LEMMA PersistOrigin ==
  ASSUME [Next]_vars, pc' = "persist"
  PROVE  (pc = "persist" /\ UNCHANGED <<cur, seen>>) \/ \E x \in Groups : ReadToken(x)
  <1>1. ASSUME NEW h \in Handlers, NewRequest(h)
        PROVE  (pc = "persist" /\ UNCHANGED <<cur, seen>>) \/ \E x \in Groups : ReadToken(x)
    BY <1>1 DEF NewRequest, CreateTenant, Request, Serve, apiRest, UpdateTenant,
       Publish, DeleteTenant, CreateGroup, UpdateNodeGroup, DeleteGroup, workerVars
  <1>2. ASSUME NEW h \in Handlers, Continue(h)
        PROVE  (pc = "persist" /\ UNCHANGED <<cur, seen>>) \/ \E x \in Groups : ReadToken(x)
    BY <1>2 DEF Continue, CreateTenantInsert, InsertTenant, Publish, Serve, Return,
       apiRest, CreateTenantSecrets, AddFinalizerRead, AfterFinalizer,
       AddFinalizerWrite, WriteFinalizers, CreateGroupInsert, InsertGroup,
       UpdateNodeGroupWrite, UpdateGroup, DeleteGroupRemove, RemoveGroup,
       workerVars
  <1>3. CASE Resync \/ LoseWakeup
    BY <1>3 DEF Resync, queueRest, LoseWakeup, workerVars
  <1>4. CASE Work
    <2>1. CASE PersistToken
      BY <2>1 DEF PersistToken, UpdateGroup, Publish, workerRest, workerVars
    <2>2. ASSUME NEW g \in Groups, ReadToken(g)
          PROVE  (pc = "persist" /\ UNCHANGED <<cur, seen>>) \/ \E x \in Groups : ReadToken(x)
      BY <2>2 DEF ReadToken, workerRest, workerVars
    <2>3. CASE TofuSucceeds
      BY <2>3 DEF TofuSucceeds, Goal, workerRest, workerVars
    <2>4. CASE RemoveFinalizerRead
      BY <2>4 DEF RemoveFinalizerRead, NextFinalizer, workerRest, workerVars
    <2>5. CASE RemoveFinalizerWrite
      BY <2>5 DEF RemoveFinalizerWrite, WriteFinalizers, NextFinalizer, Publish,
         workerRest, workerVars
    <2>6. CASE Begin \/ LoadNodeGroups \/ Render \/ CascadeList \/
       RemoveTenantSecrets \/ (\E r \in pend : CascadeDelete(r)) \/ Applied \/
       Failed
      BY <2>6 DEF Begin, workerRest, LoadNodeGroups, Stored, Render, CascadeList,
         ChildRows, RemoveTenantSecrets, CascadeDelete, Publish, Applied, Failed,
         workerVars
    <2> QED
      BY <1>4, <2>1, <2>2, <2>3, <2>4, <2>5, <2>6 DEF Work
  <1>5. CASE RunFails \/ CascadeFails
    <2>1. CASE RunFails
      BY <2>1 DEF RunFails, Goal, Halfway, workerRest, workerVars
    <2>2. CASE CascadeFails
      BY <2>2 DEF CascadeFails, workerRest, workerVars
    <2> QED
      BY <1>5, <2>1, <2>2
  <1>6. ASSUME NEW j \in Rebuilders, Rebuild(j) \/ RebuildFails(j)
        PROVE  (pc = "persist" /\ UNCHANGED <<cur, seen>>) \/ \E x \in Groups : ReadToken(x)
    BY <1>6 DEF Rebuild, RebuildPull, jobRest, RebuildInstall, RebuildFails,
       workerVars
  <1>7. ASSUME NEW j \in Enrichers, Enrich(j)
        PROVE  (pc = "persist" /\ UNCHANGED <<cur, seen>>) \/ \E x \in Groups : ReadToken(x)
    BY <1>7 DEF Enrich, EnrichRead, EnrichAs, Projected, jobRest, EnrichList,
       EnrichBindings, EnrichDone, EnrichCreate, Publish, EnrichBind, workerVars
  <1>8. CASE Crash
    BY <1>8 DEF Crash, Halfway, Goal, workerVars
  <1>9. CASE UNCHANGED vars
    BY <1>9 DEF vars, storeVars, workerVars, jobVars, bounds
  <1> QED
    BY <1>1, <1>2, <1>3, <1>4, <1>5, <1>6, <1>7, <1>8, <1>9 DEF Next

\* A PUT about to be written was there before, or has just read its row.
LEMMA PutOrigin ==
  ASSUME TypeOK, [Next]_vars, NEW k \in Handlers, api'[k].pc = "updategroup"
  PROVE  api'[k] = api[k] \/ \E x \in Groups : UpdateNodeGroup(k, x)
  <1>1. ASSUME NEW h \in Handlers, NewRequest(h)
        PROVE  api'[k] = api[k] \/ \E x \in Groups : UpdateNodeGroup(k, x)
    <2>1. CASE CreateTenant(h)
      BY <2>1 DEF CreateTenant, Request, Serve, apiRest, TypeOK, Idle
    <2>2. CASE UpdateTenant(h)
      BY <2>2 DEF UpdateTenant, Request, Serve, Publish, apiRest, TypeOK, Idle
    <2>3. CASE DeleteTenant(h)
      BY <2>3 DEF DeleteTenant, Request, Serve, Publish, apiRest, TypeOK, Idle
    <2>4. ASSUME NEW g \in Groups, CreateGroup(h, g)
          PROVE  api'[k] = api[k] \/ \E x \in Groups : UpdateNodeGroup(k, x)
      BY <2>4 DEF CreateGroup, Request, Serve, apiRest, TypeOK, Idle
    <2>5. ASSUME NEW g \in Groups, UpdateNodeGroup(h, g)
          PROVE  api'[k] = api[k] \/ \E x \in Groups : UpdateNodeGroup(k, x)
      BY <2>5 DEF UpdateNodeGroup, Request, Serve, apiRest, TypeOK, Idle
    <2>6. ASSUME NEW g \in Groups, DeleteGroup(h, g)
          PROVE  api'[k] = api[k] \/ \E x \in Groups : UpdateNodeGroup(k, x)
      BY <2>6 DEF DeleteGroup, Request, Serve, apiRest, TypeOK, Idle
    <2> QED
      BY <1>1, <2>1, <2>2, <2>3, <2>4, <2>5, <2>6 DEF NewRequest
  <1>2. ASSUME NEW h \in Handlers, Continue(h)
        PROVE  api'[k] = api[k] \/ \E x \in Groups : UpdateNodeGroup(k, x)
    <2>1. CASE CreateTenantInsert(h)
      BY <2>1 DEF CreateTenantInsert, InsertTenant, Publish, Serve, Return,
         apiRest, TypeOK, Idle
    <2>2. CASE CreateTenantSecrets(h)
      BY <2>2 DEF CreateTenantSecrets, Serve, Return, apiRest, TypeOK, Idle
    <2>3. CASE AddFinalizerRead(h)
      BY <2>3 DEF AddFinalizerRead, AfterFinalizer, Serve, Return, apiRest, TypeOK,
         Idle
    <2>4. CASE AddFinalizerWrite(h)
      BY <2>4 DEF AddFinalizerWrite, AfterFinalizer, WriteFinalizers, Serve,
         Return, apiRest, TypeOK, Idle
    <2>5. CASE CreateGroupInsert(h)
      BY <2>5 DEF CreateGroupInsert, InsertGroup, Publish, Serve, Return, apiRest,
         TypeOK, Idle
    <2>6. CASE UpdateNodeGroupWrite(h)
      BY <2>6 DEF UpdateNodeGroupWrite, UpdateGroup, Publish, Serve, Return,
         apiRest, TypeOK, Idle
    <2>7. CASE DeleteGroupRemove(h)
      BY <2>7 DEF DeleteGroupRemove, RemoveGroup, Publish, Serve, Return, apiRest,
         TypeOK, Idle
    <2> QED
      BY <1>2, <2>1, <2>2, <2>3, <2>4, <2>5, <2>6, <2>7 DEF Continue
  <1>3. CASE Resync \/ LoseWakeup
    BY <1>3 DEF Resync, queueRest, LoseWakeup, TypeOK, Idle
  <1>4. CASE Work
    BY <1>4 DEF Work, Begin, workerRest, LoadNodeGroups, Stored, PersistToken,
       UpdateGroup, Publish, Render, ReadToken, TofuSucceeds, Goal, CascadeList,
       ChildRows, RemoveTenantSecrets, CascadeDelete, RemoveFinalizerRead,
       NextFinalizer, RemoveFinalizerWrite, WriteFinalizers, Applied, Failed,
       TypeOK, Idle
  <1>5. CASE RunFails \/ CascadeFails
    BY <1>5 DEF RunFails, Goal, Halfway, workerRest, CascadeFails, TypeOK, Idle
  <1>6. ASSUME NEW j \in Rebuilders, Rebuild(j) \/ RebuildFails(j)
        PROVE  api'[k] = api[k] \/ \E x \in Groups : UpdateNodeGroup(k, x)
    BY <1>6 DEF Rebuild, RebuildPull, jobRest, RebuildInstall, RebuildFails,
       TypeOK, Idle
  <1>7. ASSUME NEW j \in Enrichers, Enrich(j)
        PROVE  api'[k] = api[k] \/ \E x \in Groups : UpdateNodeGroup(k, x)
    BY <1>7 DEF Enrich, EnrichRead, EnrichAs, Projected, jobRest, EnrichList,
       EnrichBindings, EnrichDone, EnrichCreate, Publish, EnrichBind, TypeOK, Idle
  <1>8. CASE Crash
    BY <1>8 DEF Crash, Halfway, Goal, TypeOK, Idle
  <1>9. CASE UNCHANGED vars
    BY <1>9 DEF vars, storeVars, workerVars, jobVars, bounds, TypeOK, Idle
  <1> QED
    BY <1>1, <1>2, <1>3, <1>4, <1>5, <1>6, <1>7, <1>8, <1>9 DEF Next

\* One step preserves TokenInv: within one uid every write raises the version.
LEMMA TokenStep ==
  ASSUME TypeOK, TokenInv, [Next]_vars
  PROVE  TokenInv'
  <1>1. PersistCurrent'
    <2> SUFFICES ASSUME pc' = "persist"
                 PROVE  PersistCurrent'
      BY DEF PersistCurrent
    <2>1. CASE pc = "persist" /\ UNCHANGED <<cur, seen>>
      <3>1. cur \in Groups /\ seen.ver \in Nat /\ seen.uid \in Nat
        BY <2>1 DEF TypeOK, WorkerTypeOK
      <3>2. RowMove(cur) /\ ver[cur] \in Nat /\ uid[cur] \in Nat
        BY <3>1, RowMoves DEF TypeOK, StoreTypeOK
      <3> QED
        BY <2>1, <3>1, <3>2 DEF TokenInv, PersistCurrent, RowMove
    <2>2. CASE \E x \in Groups : ReadToken(x)
      <3>1. PICK x \in Groups : ReadToken(x)
        BY <2>2
      <3>2. /\ ver[x] > 0 /\ token[x] = 0 /\ cur' = x
            /\ seen' = [Unread EXCEPT !.ver = ver[x], !.uid = uid[x]]
        BY <3>1 DEF ReadToken
      <3>3. UNCHANGED <<ver, uid, token>>
        BY <3>1 DEF ReadToken, storeVars
      <3>4. seen'.ver = ver[x] /\ seen'.uid = uid[x]
        BY <3>2 DEF Unread
      <3> QED
        BY <3>2, <3>3, <3>4 DEF PersistCurrent, TypeOK, StoreTypeOK
    <2> QED
      BY <2>1, <2>2, PersistOrigin
  <1>2. ASSUME NEW k \in Handlers
        PROVE  PutCurrent(k)'
    <2> SUFFICES ASSUME api'[k].pc = "updategroup"
                 PROVE  PutCurrent(k)'
      BY DEF PutCurrent
    <2>1. CASE api'[k] = api[k]
      <3>1. /\ api[k].g \in Groups
            /\ api[k].ver \in Nat /\ api[k].uid \in Nat
        BY <2>1, HandlerFields
      <3>2. /\ RowMove(api[k].g)
            /\ ver[api[k].g] \in Nat /\ uid[api[k].g] \in Nat
        BY <3>1, RowMoves DEF TypeOK, StoreTypeOK
      <3>3. PutCurrent(k)
        BY DEF TokenInv
      <3> QED
        BY <2>1, <3>1, <3>2, <3>3 DEF PutCurrent, RowMove
    <2>2. CASE \E x \in Groups : UpdateNodeGroup(k, x)
      <3>1. PICK x \in Groups : UpdateNodeGroup(k, x)
        BY <2>2
      <3>2. api'[k] = [pc |-> "updategroup", g |-> x, ver |-> ver[x],
                       uid |-> uid[x], tok |-> token[x]]
        BY <3>1 DEF UpdateNodeGroup, Request, Serve, TypeOK
      <3>3. ver[x] > 0 /\ UNCHANGED <<ver, uid, token>>
        BY <3>1 DEF UpdateNodeGroup, storeVars
      <3> QED
        BY <3>2, <3>3 DEF PutCurrent, TypeOK, StoreTypeOK
    <2> QED
      BY <2>1, <2>2, PutOrigin
  <1> QED
    BY <1>1, <1>2 DEF TokenInv

\* A read-modify-write that read the current row of a node group and would still
\* find its version carries the token the row has (Store.UpdateResource).
THEOREM TokenInvariant == Spec => []TokenInv
  <1>1. Init => TokenInv
    BY DEF Init, TokenInv, PersistCurrent, PutCurrent, Idle
  <1>2. TypeOK /\ TokenInv /\ [Next]_vars => TokenInv'
    BY TokenStep
  <1> QED
    BY <1>1, <1>2, TypeCorrect, PTL DEF Spec

\* The step of TokenStable: a write that replaces a token read an earlier row.
LEMMA TokenStableStep ==
  ASSUME TypeOK, TokenInv, [Next]_vars, NEW x \in Groups,
         token[x] # 0, token'[x] # token[x]
  PROVE  ver'[x] = 0 \/ StaleWrite(x)
  <1>1. ASSUME NEW h \in Handlers, NewRequest(h)
        PROVE  ver'[x] = 0 \/ StaleWrite(x)
    BY <1>1 DEF NewRequest, CreateTenant, Request, Serve, apiRest, UpdateTenant,
       Publish, DeleteTenant, CreateGroup, UpdateNodeGroup, DeleteGroup, TypeOK,
       StoreTypeOK, storeVars
  <1>2. ASSUME NEW h \in Handlers, Continue(h)
        PROVE  ver'[x] = 0 \/ StaleWrite(x)
    <2>1. CASE CreateGroupInsert(h)
      BY <2>1, HandlerFields DEF CreateGroupInsert, InsertGroup, TypeOK,
         StoreTypeOK, storeVars
    <2>2. CASE UpdateNodeGroupWrite(h)
      BY <2>2, HandlerFields DEF UpdateNodeGroupWrite, UpdateGroup, TokenInv,
         PutCurrent, StaleWrite, TypeOK, StoreTypeOK, storeVars
    <2>3. CASE DeleteGroupRemove(h)
      BY <2>3, HandlerFields DEF DeleteGroupRemove, RemoveGroup, TypeOK,
         StoreTypeOK, storeVars
    <2>4. CASE CreateTenantInsert(h) \/ CreateTenantSecrets(h) \/
       AddFinalizerRead(h) \/ AddFinalizerWrite(h)
      BY <2>4 DEF CreateTenantInsert, InsertTenant, Publish, Serve, Return,
         apiRest, CreateTenantSecrets, AddFinalizerRead, AfterFinalizer,
         AddFinalizerWrite, WriteFinalizers, TypeOK, StoreTypeOK, storeVars
    <2> QED
      BY <1>2, <2>1, <2>2, <2>3, <2>4 DEF Continue
  <1>3. CASE Resync \/ LoseWakeup
    BY <1>3 DEF Resync, queueRest, LoseWakeup, TypeOK, StoreTypeOK, storeVars
  <1>4. CASE Work
    <2>1. CASE PersistToken
      BY <2>1 DEF PersistToken, UpdateGroup, TokenInv, PersistCurrent,
         WorkerTypeOK, StaleWrite, TypeOK, StoreTypeOK, storeVars
    <2>2. ASSUME NEW r \in pend, CascadeDelete(r)
          PROVE  ver'[x] = 0 \/ StaleWrite(x)
      BY <2>2 DEF CascadeDelete, WorkerTypeOK, TypeOK, StoreTypeOK, storeVars
    <2>3. CASE Begin \/ LoadNodeGroups \/ Render \/ (\E g \in Groups :
       ReadToken(g)) \/ TofuSucceeds \/ CascadeList \/ RemoveTenantSecrets \/
       RemoveFinalizerRead \/ RemoveFinalizerWrite \/ Applied \/ Failed
      BY <2>3 DEF Begin, workerRest, LoadNodeGroups, Stored, Render, ReadToken,
         TofuSucceeds, Goal, CascadeList, ChildRows, RemoveTenantSecrets,
         RemoveFinalizerRead, NextFinalizer, RemoveFinalizerWrite, WriteFinalizers,
         Publish, Applied, Failed, TypeOK, StoreTypeOK, storeVars
    <2> QED
      BY <1>4, <2>1, <2>2, <2>3 DEF Work
  <1>5. CASE RunFails \/ CascadeFails
    <2>1. CASE RunFails
      BY <2>1 DEF RunFails, Goal, Halfway, workerRest, TypeOK, StoreTypeOK,
         storeVars
    <2>2. CASE CascadeFails
      BY <2>2 DEF CascadeFails, workerRest, TypeOK, StoreTypeOK, storeVars
    <2> QED
      BY <1>5, <2>1, <2>2
  <1>6. ASSUME NEW j \in Rebuilders, Rebuild(j) \/ RebuildFails(j)
        PROVE  ver'[x] = 0 \/ StaleWrite(x)
    BY <1>6 DEF Rebuild, RebuildPull, jobRest, RebuildInstall, RebuildFails,
       TypeOK, StoreTypeOK, storeVars
  <1>7. ASSUME NEW j \in Enrichers, Enrich(j)
        PROVE  ver'[x] = 0 \/ StaleWrite(x)
    BY <1>7 DEF Enrich, EnrichRead, EnrichAs, Projected, jobRest, EnrichList,
       EnrichBindings, EnrichDone, EnrichCreate, Publish, EnrichBind, TypeOK,
       StoreTypeOK, storeVars
  <1>8. CASE Crash
    BY <1>8 DEF Crash, Halfway, Goal, TypeOK, StoreTypeOK, storeVars
  <1>9. CASE UNCHANGED vars
    BY <1>9 DEF vars, storeVars, workerVars, jobVars, bounds, TypeOK, StoreTypeOK
  <1> QED
    BY <1>1, <1>2, <1>3, <1>4, <1>5, <1>6, <1>7, <1>8, <1>9 DEF Next

\* A binding token changes only with its row or by a write that read an earlier
\* row of the same name (ensureBindingTokens, nodegroup API.Update).
THEOREM TokensStable == Spec => TokenStable
  <1>1. TypeOK /\ TokenInv /\ [Next]_vars =>
          [\A g \in Groups : token[g] # 0 /\ token'[g] # token[g]
                               => ver'[g] = 0 \/ StaleWrite(g)]_vars
    BY TokenStableStep
  <1> QED
    BY <1>1, TypeCorrect, TokenInvariant, PTL DEF Spec, TokenStable

=============================================================================
