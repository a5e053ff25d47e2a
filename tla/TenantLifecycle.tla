-------------------------- MODULE TenantLifecycle --------------------------
(***************************************************************************)
(* The life of one tenant name, from POST to garbage collection: the API   *)
(* handlers that write its rows (internal/api), the store that keeps them  *)
(* (internal/state), the worker the apply queue runs for it                *)
(* (internal/reconcile/applier.go) and the goroutines that a successful    *)
(* apply starts (internal/reconcile/listener.go and enricher.go).          *)
(*                                                                         *)
(* The queue is taken at its specification, CoalescingScheduler: `want`    *)
(* says whether a request is outstanding, a run uses it up.  A node group  *)
(* stands for one machine: `infra` is what its OpenTofu state holds, with  *)
(* the binding token the machine was booted with.  A store call that       *)
(* publishes is one step with the Enqueue that EnqueueBus makes of it.     *)
(***************************************************************************)
EXTENDS Naturals, FiniteSets

CONSTANTS
  Groups,       \* node group names; the machine of a group has its name
  Handlers,     \* goroutines that serve API requests
  Rebuilders,   \* bound: goroutines of ProjectionListener at one time
  Enrichers,    \* bound: goroutines of StoreEnricher.Listener at one time
  MaxOps,       \* bound: API requests
  MaxFailures,  \* bound: runs of Apply and state pulls that fail
  MaxDbErrors,  \* bound: DELETE statements of the teardown that fail
  MaxLost,      \* bound: wakeups the queue loses
  MaxCrashes,   \* bound: crashes of the management plane
  Prompt        \* do requests in flight end before the tofu run in progress?

ASSUME LifecycleAssumption ==
  /\ MaxOps \in Nat /\ MaxFailures \in Nat /\ MaxDbErrors \in Nat
  /\ MaxLost \in Nat /\ MaxCrashes \in Nat
  /\ Prompt \in BOOLEAN

VARIABLES
  row,       \* the tenant row: "absent", "live" or "deleting"
  fins,      \* its finalizers
  secrets,   \* is there a tenant_secrets row?
  ver,       \* version of a nodegroup row, 0 when there is none
  uid,       \* uid of the row, a new one for every INSERT of the name
  token,     \* binding token in its annotations, 0 when there is none
  machines,  \* machine rows
  bound,     \* Spec.BindingToken of a machine row, 0 when it has none
  infra,     \* the OpenTofu state: the token a machine runs with, 0 if none
  index,     \* the projection index, same shape
  want,      \* does the queue hold a request for the tenant?
  pc,        \* where the tenant's worker is inside Applier.Apply
  mode,      \* "apply" or "destroy"
  todo,      \* node groups ensureBindingTokens has yet to visit
  plan,      \* what the rendered configuration asks for, same shape as infra
  cur,       \* the node group, or the finalizer, a read-modify-write is about
  seen,      \* what that read-modify-write has read
  pend,      \* rows the cascade has listed and not yet deleted
  api,       \* the request each handler serves
  rebuild,   \* where each projection rebuild is
  enrich,    \* where each enrichment is
  nextTok,   \* the next random token
  ops, failures, dberrs, lost, crashes   \* how much of each bound is used

storeVars  == <<row, fins, secrets, ver, uid, token, machines, bound>>
workerVars == <<pc, mode, todo, plan, cur, seen, pend>>
jobVars    == <<rebuild, enrich>>
bounds     == <<ops, failures, dberrs, lost, crashes>>
vars == <<storeVars, infra, index, want, workerVars, api, jobVars, nextTok, bounds>>

-----------------------------------------------------------------------------
MachinesFin == "rezuscloud.io/machines"
SecretsFin  == "rezuscloud.io/secrets"
Finalizers  == {MachinesFin, SecretsFin}

Nothing == [g \in Groups |-> 0]
Unread  == [ver |-> 0, uid |-> 0, fins |-> {}, row |-> "absent"]
Stored  == {g \in Groups : ver[g] > 0}
ChildRows == ({"nodegroup"} \X Stored) \union ({"machine"} \X machines)

\* A request a handler serves; a rebuild and an enrichment in progress.
Idle      == [pc |-> "idle"]
NoRebuild == [pc |-> "idle"]
NoEnrich  == [pc |-> "idle"]

Init ==
  /\ row = "absent" /\ fins = {} /\ secrets = FALSE
  /\ ver = Nothing /\ uid = Nothing /\ token = Nothing
  /\ machines = {} /\ bound = Nothing
  /\ infra = Nothing /\ index = Nothing /\ want = FALSE
  /\ pc = "idle" /\ mode = "apply" /\ todo = {} /\ plan = Nothing
  /\ cur = "none" /\ seen = Unread /\ pend = {}
  /\ api = [h \in Handlers |-> Idle]
  /\ rebuild = [j \in Rebuilders |-> NoRebuild]
  /\ enrich = [j \in Enrichers |-> NoEnrich]
  /\ nextTok = 1
  /\ ops = 0 /\ failures = 0 /\ dberrs = 0 /\ lost = 0 /\ crashes = 0

-----------------------------------------------------------------------------
(* The store.  EnqueueBus turns every create, spec and delete event of the *)
(* tenant or of a row that carries its label into an Enqueue.              *)

Publish == want' = TRUE

\* Mutant: an upsert, which brings back a row that is being deleted.
InsertTenantUpserts ==
  IF row # "live"
    THEN row' = "live" /\ fins' = {} /\ Publish
    ELSE UNCHANGED <<row, fins, want>>

\* CreateResource for the tenant: a duplicate name fails the INSERT.
InsertTenant ==
  IF row = "absent"
    THEN row' = "live" /\ fins' = {} /\ Publish
    ELSE UNCHANGED <<row, fins, want>>

InsertGroup(g) ==
  IF ver[g] = 0
    THEN /\ ver' = [ver EXCEPT ![g] = 1]
         /\ uid' = [uid EXCEPT ![g] = @ + 1]
         /\ token' = [token EXCEPT ![g] = 0]
         /\ Publish
    ELSE UNCHANGED <<ver, uid, token, want>>

\* Mutant: the version is not compared.
UpdateGroupBlind(g, version, tok) ==
  IF ver[g] > 0
    THEN /\ ver' = [ver EXCEPT ![g] = @ + 1]
         /\ token' = [token EXCEPT ![g] = tok]
         /\ Publish
    ELSE UNCHANGED <<ver, token, want>>

\* UpdateResource: WHERE version = ?, and the annotations are replaced.
UpdateGroup(g, version, tok) ==
  IF ver[g] = version
    THEN /\ ver' = [ver EXCEPT ![g] = @ + 1]
         /\ token' = [token EXCEPT ![g] = tok]
         /\ Publish
    ELSE UNCHANGED <<ver, token, want>>

RemoveGroup(g) ==
  /\ ver' = [ver EXCEPT ![g] = 0]
  /\ token' = [token EXCEPT ![g] = 0]
  /\ IF ver[g] > 0 THEN Publish ELSE UNCHANGED want

\* UPDATE resources SET finalizers: no row, no effect.
WriteFinalizers(f) ==
  IF row = "absent" THEN UNCHANGED fins ELSE fins' = f

-----------------------------------------------------------------------------
(* API handlers.  A handler reads, checks and writes in separate steps.    *)

Serve(h, r) == api' = [api EXCEPT ![h] = r]
Return(h)   == Serve(h, Idle)

Request(h, r) ==
  /\ api[h] = Idle
  /\ ops < MaxOps /\ ops' = ops + 1
  /\ Serve(h, r)

apiRest == <<infra, index, workerVars, jobVars, nextTok, failures, dberrs, lost, crashes>>

\* TenantAPI.Create: GetTenant finds nothing ...
CreateTenant(h) ==
  /\ row = "absent"
  /\ Request(h, [pc |-> "insert"])
  /\ UNCHANGED <<storeVars, want, apiRest>>

\* ... the INSERT, which another POST may have won ...
CreateTenantInsert(h) ==
  /\ api[h].pc = "insert"
  /\ InsertTenant
  /\ IF row = "absent" THEN Serve(h, [pc |-> "bundle"]) ELSE Return(h)
  /\ UNCHANGED <<secrets, ver, uid, token, machines, bound, ops, apiRest>>

\* ... and the secrets bundle, whose failure is not reported.
CreateTenantSecrets(h) ==
  /\ api[h].pc = "bundle"
  /\ secrets' = TRUE
  /\ Return(h)
  /\ UNCHANGED <<row, fins, ver, uid, token, machines, bound, want, ops, apiRest>>

\* UpdateTenantSpec; the spec itself is not part of this module.
UpdateTenant(h) ==
  /\ row # "absent"
  /\ Request(h, Idle)
  /\ Publish
  /\ UNCHANGED <<storeVars, apiRest>>

\* Store.DeleteTenant: DeleteResource, only where deletion_timestamp is null ...
DeleteTenant(h) ==
  /\ row = "live"
  /\ row' = "deleting"
  /\ Publish
  /\ Request(h, [pc |-> "addfin", fin |-> MachinesFin])
  /\ UNCHANGED <<fins, secrets, ver, uid, token, machines, bound, apiRest>>

AfterFinalizer(h) ==
  IF api[h].fin = MachinesFin
    THEN Serve(h, [pc |-> "addfin", fin |-> SecretsFin])
    ELSE Return(h)

\* ... then AddFinalizer twice, each a read and a write, errors ignored.
AddFinalizerRead(h) ==
  /\ api[h].pc = "addfin"
  /\ IF row = "absent" \/ api[h].fin \in fins
       THEN AfterFinalizer(h)
       ELSE Serve(h, [pc |-> "setfin", fin |-> api[h].fin, fins |-> fins])
  /\ UNCHANGED <<storeVars, want, ops, apiRest>>

AddFinalizerWrite(h) ==
  /\ api[h].pc = "setfin"
  /\ WriteFinalizers(api[h].fins \union {api[h].fin})
  /\ AfterFinalizer(h)
  /\ UNCHANGED <<row, secrets, ver, uid, token, machines, bound, want, ops, apiRest>>

\* nodegroup API.Create: the tenant exists (deleting or not), the group does not.
CreateGroup(h, g) ==
  /\ row # "absent" /\ ver[g] = 0
  /\ Request(h, [pc |-> "insertgroup", g |-> g])
  /\ UNCHANGED <<storeVars, want, apiRest>>

CreateGroupInsert(h) ==
  /\ api[h].pc = "insertgroup"
  /\ InsertGroup(api[h].g)
  /\ Return(h)
  /\ UNCHANGED <<row, fins, secrets, machines, bound, ops, apiRest>>

\* API.Update keeps the annotations it read and checks the version the
\* client sent, here the one current when the request arrives.
UpdateNodeGroup(h, g) ==
  /\ ver[g] > 0
  /\ Request(h, [pc |-> "updategroup", g |-> g, ver |-> ver[g],
                 uid |-> uid[g], tok |-> token[g]])
  /\ UNCHANGED <<storeVars, want, apiRest>>

UpdateNodeGroupWrite(h) ==
  /\ api[h].pc = "updategroup"
  /\ UpdateGroup(api[h].g, api[h].ver, api[h].tok)
  /\ Return(h)
  /\ UNCHANGED <<row, fins, secrets, uid, machines, bound, ops, apiRest>>

\* API.Delete: found, then removed outright.
DeleteGroup(h, g) ==
  /\ ver[g] > 0
  /\ Request(h, [pc |-> "removegroup", g |-> g])
  /\ UNCHANGED <<storeVars, want, apiRest>>

DeleteGroupRemove(h) ==
  /\ api[h].pc = "removegroup"
  /\ RemoveGroup(api[h].g)
  /\ Return(h)
  /\ UNCHANGED <<row, fins, secrets, uid, machines, bound, ops, apiRest>>

NewRequest(h) ==
  \/ CreateTenant(h) \/ UpdateTenant(h) \/ DeleteTenant(h)
  \/ \E g \in Groups : CreateGroup(h, g) \/ UpdateNodeGroup(h, g) \/ DeleteGroup(h, g)

Continue(h) ==
  \/ CreateTenantInsert(h) \/ CreateTenantSecrets(h)
  \/ AddFinalizerRead(h) \/ AddFinalizerWrite(h)
  \/ CreateGroupInsert(h) \/ UpdateNodeGroupWrite(h) \/ DeleteGroupRemove(h)

-----------------------------------------------------------------------------
(* The queue, at its specification.                                        *)

queueRest == <<storeVars, infra, index, api, jobVars, nextTok, ops, failures, dberrs, crashes>>

\* The resync ticker: ListTenants leaves out rows that carry a deletion timestamp.
Resync ==
  /\ row = "live" /\ ~want
  /\ want' = TRUE
  /\ UNCHANGED <<workerVars, lost, queueRest>>

\* The Lose step of CoalescingScheduler.
LoseWakeup ==
  /\ want /\ lost < MaxLost
  /\ want' = FALSE /\ lost' = lost + 1
  /\ UNCHANGED <<workerVars, queueRest>>

-----------------------------------------------------------------------------
(* The worker: Applier.Apply for this tenant.                              *)

\* Where the worker is: before the end of tofu, in the cascade, in RemoveFinalizer.
Reading == {"load", "tokens", "persist", "tofu"}
Purging == {"cascade", "purge"}
Freeing == {"finread", "finwrite"}

workerRest == <<api, jobVars, ops, lost, crashes>>

\* GetTenant decides the path: nothing to do, tear down, or reconcile.
Begin ==
  /\ pc = "idle" /\ want
  /\ want' = FALSE
  /\ pc' = IF row = "absent" THEN "applied" ELSE "load"
  /\ mode' = IF row = "deleting" THEN "destroy" ELSE "apply"
  /\ UNCHANGED <<todo, plan, cur, seen, pend, storeVars, infra, index, nextTok,
                 failures, dberrs, workerRest>>

LoadNodeGroups ==
  /\ pc = "load"
  /\ pc' = "tokens"
  /\ todo' = Stored
  /\ plan' = Nothing
  /\ UNCHANGED <<mode, cur, seen, pend, storeVars, infra, index, want, nextTok,
                 failures, dberrs, workerRest>>

\* ensureBindingTokens: a group deleted meanwhile is an error, a token that
\* is already there is reused.
ReadToken(g) ==
  /\ pc = "tokens" /\ g \in todo
  /\ \/ /\ ver[g] = 0
        /\ pc' = "failed"
        /\ UNCHANGED <<todo, plan, cur, seen>>
     \/ /\ ver[g] > 0 /\ token[g] # 0
        /\ plan' = [plan EXCEPT ![g] = token[g]]
        /\ todo' = todo \ {g}
        /\ UNCHANGED <<pc, cur, seen>>
     \/ /\ ver[g] > 0 /\ token[g] = 0
        /\ pc' = "persist" /\ cur' = g /\ seen' = [Unread EXCEPT !.ver = ver[g], !.uid = uid[g]]
        /\ UNCHANGED <<todo, plan>>
  /\ UNCHANGED <<mode, pend, storeVars, infra, index, want, nextTok,
                 failures, dberrs, workerRest>>

PersistToken ==
  /\ pc = "persist"
  /\ UpdateGroup(cur, seen.ver, nextTok)
  /\ IF ver[cur] = seen.ver
       THEN /\ plan' = [plan EXCEPT ![cur] = nextTok]
            /\ todo' = todo \ {cur}
            /\ pc' = "tokens" /\ nextTok' = nextTok + 1
       ELSE pc' = "failed" /\ UNCHANGED <<plan, todo, nextTok>>
  /\ cur' = "none" /\ seen' = Unread
  /\ UNCHANGED <<mode, pend, row, fins, secrets, uid, machines, bound, infra, index,
                 failures, dberrs, workerRest>>

\* renderConfig, renderTFVars, tofu init; then tofu apply or destroy runs.
Render ==
  /\ pc = "tokens" /\ todo = {}
  /\ pc' = "tofu"
  /\ UNCHANGED <<mode, todo, plan, cur, seen, pend, storeVars, infra, index, want,
                 nextTok, failures, dberrs, workerRest>>

Goal == IF mode = "apply" THEN plan ELSE Nothing

\* What a tofu run that stops half-way leaves: each machine old or new.
Halfway == {i \in [Groups -> {infra[g] : g \in Groups} \union {Goal[g] : g \in Groups}] :
              \A g \in Groups : i[g] \in {infra[g], Goal[g]}}

TofuSucceeds ==
  /\ pc = "tofu"
  /\ Prompt => \A h \in Handlers : api[h] = Idle
  /\ infra' = Goal
  /\ pc' = IF mode = "apply" THEN "applied" ELSE "cascade"
  /\ UNCHANGED <<mode, todo, plan, cur, seen, pend, storeVars, index, want, nextTok,
                 failures, dberrs, workerRest>>

\* Mutant: a failed destroy is logged and the teardown goes on.
RunFailsGoesOn ==
  /\ pc = "tofu"
  /\ failures < MaxFailures /\ failures' = failures + 1
  /\ infra' \in Halfway
  /\ pc' = IF mode = "apply" THEN "failed" ELSE "cascade"
  /\ UNCHANGED <<mode, todo, plan, cur, seen, pend, storeVars, index, want, nextTok,
                 dberrs, workerRest>>

\* A step of Apply or destroy returns an error: the upgrade hook, the work
\* directory, a store call, a renderer, tofu init, or tofu itself half-way.
RunFails ==
  /\ pc \in Reading \union Freeing
  /\ failures < MaxFailures /\ failures' = failures + 1
  /\ infra' \in IF pc = "tofu" THEN Halfway ELSE {infra}
  /\ pc' = "failed"
  /\ UNCHANGED <<mode, todo, plan, cur, seen, pend, storeVars, index, want, nextTok,
                 dberrs, workerRest>>

\* RemoveResourcesByTenant lists the tenant's rows ...
CascadeList ==
  /\ pc = "cascade"
  /\ pend' = ChildRows
  /\ pc' = "purge"
  /\ UNCHANGED <<mode, todo, plan, cur, seen, storeVars, infra, index, want, nextTok,
                 failures, dberrs, workerRest>>

\* ... and deletes them one by one, each with its event.
CascadeDelete(r) ==
  /\ pc = "purge" /\ r \in pend
  /\ pend' = pend \ {r}
  /\ Publish
  /\ IF r[1] = "nodegroup"
       THEN /\ ver' = [ver EXCEPT ![r[2]] = 0]
            /\ token' = [token EXCEPT ![r[2]] = 0]
            /\ UNCHANGED <<machines, bound>>
       ELSE /\ machines' = machines \ {r[2]}
            /\ bound' = [bound EXCEPT ![r[2]] = 0]
            /\ UNCHANGED <<ver, token>>
  /\ UNCHANGED <<pc, mode, todo, plan, cur, seen, row, fins, secrets, uid, infra, index,
                 nextTok, failures, dberrs, workerRest>>

\* A failed DELETE ends the cascade; destroy logs it and goes on.
CascadeFails ==
  /\ pc = "purge" /\ pend # {}
  /\ dberrs < MaxDbErrors /\ dberrs' = dberrs + 1
  /\ pend' = {}
  /\ UNCHANGED <<pc, mode, todo, plan, cur, seen, storeVars, infra, index, want,
                 nextTok, failures, workerRest>>

\* So does a failed DELETE of the secrets.
RemoveTenantSecrets ==
  /\ pc = "purge" /\ pend = {}
  /\ \/ secrets' = FALSE /\ UNCHANGED dberrs
     \/ dberrs < MaxDbErrors /\ dberrs' = dberrs + 1 /\ UNCHANGED secrets
  /\ pc' = "finread" /\ cur' = MachinesFin
  /\ UNCHANGED <<mode, todo, plan, seen, pend, row, fins, ver, uid, token, machines, bound,
                 infra, index, want, nextTok, failures, workerRest>>

\* destroy removes the machines finalizer, then the secrets one, then returns.
NextFinalizer ==
  IF cur = MachinesFin THEN pc' = "finread" /\ cur' = SecretsFin
                       ELSE pc' = "applied" /\ cur' = "none"

\* RemoveFinalizer reads the row: missing is an error, a finalizer that is
\* not there is nothing to do.
RemoveFinalizerRead ==
  /\ pc = "finread"
  /\ \/ /\ row = "absent"
        /\ pc' = "failed" /\ cur' = "none" /\ UNCHANGED seen
     \/ /\ row # "absent" /\ cur \notin fins
        /\ NextFinalizer /\ UNCHANGED seen
     \/ /\ row # "absent" /\ cur \in fins
        /\ seen' = [Unread EXCEPT !.fins = fins \ {cur}, !.row = row]
        /\ pc' = "finwrite" /\ UNCHANGED cur
  /\ UNCHANGED <<mode, todo, plan, pend, storeVars, infra, index, want, nextTok,
                 failures, dberrs, workerRest>>

\* Mutant: the last finalizer goes and the row stays.
RemoveFinalizerKeepsRow ==
  /\ pc = "finwrite"
  /\ WriteFinalizers(seen.fins)
  /\ NextFinalizer
  /\ seen' = Unread
  /\ UNCHANGED <<mode, todo, plan, pend, row, want, secrets, ver, uid, token, machines,
                 bound, infra, index, nextTok, failures, dberrs, workerRest>>

\* The last finalizer of a deleted row takes the row with it.
RemoveFinalizerWrite ==
  /\ pc = "finwrite"
  /\ IF seen.fins = {} /\ seen.row = "deleting"
       THEN /\ row' = "absent" /\ fins' = {}
            /\ IF row # "absent" THEN Publish ELSE UNCHANGED want
       ELSE WriteFinalizers(seen.fins) /\ UNCHANGED <<row, want>>
  /\ NextFinalizer
  /\ seen' = Unread
  /\ UNCHANGED <<mode, todo, plan, pend, secrets, ver, uid, token, machines, bound,
                 infra, index, nextTok, failures, dberrs, workerRest>>

\* PhaseApplied: the listeners start a rebuild and an enrichment.
Applied ==
  /\ pc = "applied" /\ pc' = "idle"
  /\ \E j \in Rebuilders : rebuild[j] = NoRebuild
                        /\ rebuild' = [rebuild EXCEPT ![j] = [pc |-> "pull"]]
  /\ \E j \in Enrichers : enrich[j] = NoEnrich
                       /\ enrich' = [enrich EXCEPT ![j] = [pc |-> "read"]]
  /\ UNCHANGED <<mode, todo, plan, cur, seen, pend, storeVars, infra, index, want,
                 nextTok, failures, dberrs, api, ops, lost, crashes>>

\* PhaseFailed: no listener of this module acts on it.
Failed ==
  /\ pc = "failed" /\ pc' = "idle"
  /\ UNCHANGED <<mode, todo, plan, cur, seen, pend, storeVars, infra, index, want,
                 nextTok, failures, dberrs, workerRest>>

Work ==
  \/ Begin \/ LoadNodeGroups \/ PersistToken \/ Render
  \/ \E g \in Groups : ReadToken(g)
  \/ TofuSucceeds \/ CascadeList \/ RemoveTenantSecrets
  \/ \E r \in pend : CascadeDelete(r)
  \/ RemoveFinalizerRead \/ RemoveFinalizerWrite \/ Applied \/ Failed

-----------------------------------------------------------------------------
(* What PhaseApplied starts.                                               *)

jobRest == <<row, fins, secrets, ver, uid, token, infra, workerVars, api, nextTok,
             ops, dberrs, lost, crashes>>

\* Index.Rebuild: tofu state pull without the lock ...
RebuildPull(j) ==
  /\ rebuild[j].pc = "pull"
  /\ rebuild' = [rebuild EXCEPT ![j] = [pc |-> "install", blob |-> infra]]
  /\ UNCHANGED <<jobRest, machines, bound, index, want, enrich, failures>>

RebuildFails(j) ==
  /\ rebuild[j].pc = "pull"
  /\ failures < MaxFailures /\ failures' = failures + 1
  /\ rebuild' = [rebuild EXCEPT ![j] = NoRebuild]
  /\ UNCHANGED <<jobRest, machines, bound, index, want, enrich>>

\* ... then the new entries replace the old.
RebuildInstall(j) ==
  /\ rebuild[j].pc = "install"
  /\ index' = rebuild[j].blob
  /\ rebuild' = [rebuild EXCEPT ![j] = NoRebuild]
  /\ UNCHANGED <<jobRest, machines, bound, want, enrich, failures>>

Projected == {g \in Groups : index[g] # 0}
EnrichAs(j, e) == enrich' = [enrich EXCEPT ![j] = e]

\* StoreEnricher.enrich: the projected machines, if any ...
EnrichRead(j) ==
  /\ enrich[j].pc = "read"
  /\ EnrichAs(j, IF Projected = {} THEN NoEnrich ELSE [pc |-> "list", todo |-> Projected])
  /\ UNCHANGED <<jobRest, machines, bound, index, want, rebuild, failures>>

\* ... less the ones that have a row ...
EnrichList(j) ==
  /\ enrich[j].pc = "list"
  /\ EnrichAs(j, [pc |-> "create", todo |-> enrich[j].todo \ machines])
  /\ UNCHANGED <<jobRest, machines, bound, index, want, rebuild, failures>>

\* ... get a row each; no look at the tenant ...
EnrichCreate(j, g) ==
  /\ enrich[j].pc = "create" /\ g \in enrich[j].todo
  /\ machines' = machines \union {g}
  /\ IF g \in machines THEN UNCHANGED want ELSE Publish
  /\ EnrichAs(j, [pc |-> "create", todo |-> enrich[j].todo \ {g}])
  /\ UNCHANGED <<jobRest, bound, index, rebuild, failures>>

\* ... and applyBindingTokens reads the projected bindings again ...
EnrichBindings(j) ==
  /\ enrich[j].pc = "create" /\ enrich[j].todo = {}
  /\ EnrichAs(j, [pc |-> "bind", todo |-> Projected, tok |-> index])
  /\ UNCHANGED <<jobRest, machines, bound, index, want, rebuild, failures>>

\* Mutant: a machine row that has a token keeps it.
EnrichBindFirstOnly(j, g) ==
  /\ enrich[j].pc = "bind" /\ g \in enrich[j].todo
  /\ IF g \in machines /\ bound[g] = 0
       THEN bound' = [bound EXCEPT ![g] = enrich[j].tok[g]] /\ Publish
       ELSE UNCHANGED <<bound, want>>
  /\ EnrichAs(j, [enrich[j] EXCEPT !.todo = @ \ {g}])
  /\ UNCHANGED <<jobRest, machines, index, rebuild, failures>>

\* Mutant: the token is written whether it is new or not.
EnrichBindAlways(j, g) ==
  /\ enrich[j].pc = "bind" /\ g \in enrich[j].todo
  /\ IF g \in machines
       THEN bound' = [bound EXCEPT ![g] = enrich[j].tok[g]] /\ Publish
       ELSE UNCHANGED <<bound, want>>
  /\ EnrichAs(j, [enrich[j] EXCEPT !.todo = @ \ {g}])
  /\ UNCHANGED <<jobRest, machines, index, rebuild, failures>>

\* ... and writes those that are new.
EnrichBind(j, g) ==
  /\ enrich[j].pc = "bind" /\ g \in enrich[j].todo
  /\ IF g \in machines /\ bound[g] # enrich[j].tok[g]
       THEN bound' = [bound EXCEPT ![g] = enrich[j].tok[g]] /\ Publish
       ELSE UNCHANGED <<bound, want>>
  /\ EnrichAs(j, [enrich[j] EXCEPT !.todo = @ \ {g}])
  /\ UNCHANGED <<jobRest, machines, index, rebuild, failures>>

EnrichDone(j) ==
  /\ enrich[j].pc = "bind" /\ enrich[j].todo = {}
  /\ EnrichAs(j, NoEnrich)
  /\ UNCHANGED <<jobRest, machines, bound, index, want, rebuild, failures>>

Rebuild(j) == RebuildPull(j) \/ RebuildInstall(j)
Enrich(j)  == \/ EnrichRead(j) \/ EnrichList(j) \/ EnrichBindings(j) \/ EnrichDone(j)
              \/ \E g \in Groups : EnrichCreate(j, g) \/ EnrichBind(j, g)

-----------------------------------------------------------------------------
\* The process dies and starts again: rows and tofu state survive, nothing
\* is enqueued at startup.
Crash ==
  /\ crashes < MaxCrashes /\ crashes' = crashes + 1
  /\ infra' \in IF pc = "tofu" THEN Halfway ELSE {infra}
  /\ want' = FALSE /\ index' = Nothing
  /\ pc' = "idle" /\ mode' = "apply" /\ todo' = {} /\ plan' = Nothing
  /\ cur' = "none" /\ seen' = Unread /\ pend' = {}
  /\ api' = [h \in Handlers |-> Idle]
  /\ rebuild' = [j \in Rebuilders |-> NoRebuild]
  /\ enrich' = [j \in Enrichers |-> NoEnrich]
  /\ UNCHANGED <<storeVars, nextTok, ops, failures, dberrs, lost>>

Next ==
  \/ \E h \in Handlers : NewRequest(h) \/ Continue(h)
  \/ Resync \/ LoseWakeup
  \/ Work \/ RunFails \/ CascadeFails
  \/ \E j \in Rebuilders : Rebuild(j) \/ RebuildFails(j)
  \/ \E j \in Enrichers : Enrich(j)
  \/ Crash

\* Goroutines are scheduled, tofu ends within its 30 minute timeout, the
\* resync ticker keeps ticking.  Requests, failures and crashes need not come.
Fairness ==
  /\ \A h \in Handlers : WF_vars(Continue(h))
  /\ WF_vars(Resync)
  /\ WF_vars(Work)
  /\ \A j \in Rebuilders : WF_vars(Rebuild(j))
  /\ \A j \in Enrichers : WF_vars(Enrich(j))

Spec == Init /\ [][Next]_vars
FairSpec == Spec /\ Fairness

-----------------------------------------------------------------------------
(* Properties.                                                             *)

HandlerStates ==
  {Idle, [pc |-> "insert"], [pc |-> "bundle"]}
  \union [pc : {"addfin"}, fin : Finalizers]
  \union [pc : {"setfin"}, fin : Finalizers, fins : SUBSET Finalizers]
  \union [pc : {"insertgroup", "removegroup"}, g : Groups]
  \union [pc : {"updategroup"}, g : Groups, ver : Nat, uid : Nat, tok : Nat]

RebuildStates == {NoRebuild, [pc |-> "pull"]} \union [pc : {"install"}, blob : [Groups -> Nat]]

EnrichStates ==
  {NoEnrich, [pc |-> "read"]}
  \union [pc : {"list", "create"}, todo : SUBSET Groups]
  \union [pc : {"bind"}, todo : SUBSET Groups, tok : [Groups -> Nat]]

RowStates == {"absent", "live", "deleting"}

StoreTypeOK ==
  /\ row \in RowStates
  /\ fins \subseteq Finalizers /\ (row = "absent" => fins = {})
  /\ secrets \in BOOLEAN
  /\ ver \in [Groups -> Nat] /\ uid \in [Groups -> Nat] /\ token \in [Groups -> Nat]
  /\ \A g \in Groups : token[g] # 0 => ver[g] > 0
  /\ machines \subseteq Groups /\ bound \in [Groups -> Nat]
  /\ \A g \in Groups : bound[g] # 0 => g \in machines

WorkerTypeOK ==
  /\ pc \in {"idle", "applied", "failed"} \union Reading \union Purging \union Freeing
  /\ mode \in {"apply", "destroy"}
  /\ todo \subseteq Groups /\ plan \in [Groups -> Nat]
  /\ pend \subseteq {"nodegroup", "machine"} \X Groups
  /\ pc = "persist" => cur \in Groups
  /\ pc \in Freeing => cur \in Finalizers
  /\ seen \in [ver : Nat, uid : Nat, fins : SUBSET Finalizers,
               row : RowStates]

RestTypeOK ==
  /\ infra \in [Groups -> Nat] /\ index \in [Groups -> Nat]
  /\ nextTok \in Nat \ {0}
  /\ ops \in Nat /\ failures \in Nat /\ dberrs \in Nat /\ lost \in Nat /\ crashes \in Nat

\* Every variable has the type the code gives it, and what belongs to a row
\* goes when the row goes: no token without a node group row, no finalizer
\* without a tenant row, no binding without a machine row (Store.RemoveResource
\* deletes whole rows).
TypeOK ==
  /\ StoreTypeOK /\ WorkerTypeOK /\ RestTypeOK
  /\ want \in BOOLEAN
  /\ api \in [Handlers -> HandlerStates]
  /\ rebuild \in [Rebuilders -> RebuildStates]
  /\ enrich \in [Enrichers -> EnrichStates]

\* The tenant row outlives the infrastructure: once Store.RemoveFinalizer has
\* garbage-collected the row nothing is left in the OpenTofu state, however
\* tofu runs fail, the process crashes and handlers interleave.  Machines
\* that outlive the row would run on with nobody left to destroy them.
RowOutlivesInfra == row = "absent" => infra = Nothing

\* Applier.destroy tears down only what is being deleted: while it renders,
\* runs tofu destroy and purges rows, the row carries a deletion timestamp,
\* so no POST has brought the tenant back in the meantime.
OnlyDeletedTornDown ==
  (pc \in Reading /\ mode = "destroy") \/ pc \in Purging => row = "deleting"

\* The inductive invariant: what the worker read of the row still holds while
\* it acts on it, and between tofu destroy and the end of Applier.destroy
\* there is no infrastructure.
LifecycleInv ==
  /\ RowOutlivesInfra
  /\ OnlyDeletedTornDown
  /\ pc \in Reading => row # "absent"
  /\ pc \in Purging \union Freeing => infra = Nothing

\* A read-modify-write of g that read an earlier row of that name.
StaleWrite(g) ==
  \/ \E h \in Handlers :
       api[h].pc = "updategroup" /\ api[h].g = g /\ api[h].uid # uid[g]
  \/ pc = "persist" /\ cur = g /\ seen.uid # uid[g]

\* A binding token, once persisted by ensureBindingTokens, changes only with
\* its node group row: a PUT that carries annotations read earlier does not
\* erase it and two applies do not replace it, unless the write stems from an
\* earlier row of that name (UpdateResource compares the version, which starts
\* again at 1, and not the uid).
TokenStable ==
  [][\A g \in Groups : token[g] # 0 /\ token'[g] # token[g]
                         => ver'[g] = 0 \/ StaleWrite(g)]_vars

\* Why: a write that read the current row and would still find its version
\* carries the token the row has.
PutCurrent(h) ==
  api[h].pc = "updategroup" =>
    LET g == api[h].g IN
      /\ api[h].ver > 0 /\ api[h].uid <= uid[g]
      /\ api[h].uid = uid[g] /\ ver[g] > 0 =>
           /\ api[h].ver <= ver[g]
           /\ api[h].ver = ver[g] => api[h].tok = token[g]

PersistCurrent ==
  pc = "persist" =>
    /\ seen.ver > 0 /\ seen.uid <= uid[cur]
    /\ seen.uid = uid[cur] /\ ver[cur] > 0 =>
         /\ seen.ver <= ver[cur]
         /\ seen.ver = ver[cur] => token[cur] = 0

TokenInv == PersistCurrent /\ \A h \in Handlers : PutCurrent(h)

InSync == \A g \in Groups : infra[g] = token[g] /\ (ver[g] > 0 <=> token[g] # 0)
MachinesKnown == \A g \in Groups : infra[g] # 0 => g \in machines /\ bound[g] = infra[g]

\* When the requests have ended, a tenant that still lives converges and stays
\* converged: its node groups exist with their tokens and nothing else does,
\* and every machine has a row bound to the token it runs with, although the
\* enrichment reads an index its own apply has usually not rebuilt yet.
Converges == <>[](row = "live" => InSync /\ MachinesKnown)

\* DELETE completes: the row of a deleted tenant goes away ("the controller
\* runs tofu destroy, then clears finalizers", TenantAPI.Delete).
DeletionCompletes == row = "deleting" ~> row = "absent"

\* The reconciler does not feed itself: the writes of token persistence,
\* cascade and enrichment enqueue the tenant again, but not for ever; in the
\* end only the resync ticker asks for runs.
SelfTriggersDieOut == <>[][~want /\ want' => Resync]_vars
=============================================================================
