------------------------------- MODULE Fleet -------------------------------
(***************************************************************************)
(* What the management plane computes from its rows: the lists the store   *)
(* returns, a tenant's phase and status (internal/state/status.go), the    *)
(* dashboard's posture (internal/dashboard/posture.go), the patches and    *)
(* the configuration of a machine (internal/api/patch, configrender).      *)
(* Rows are records with a name and, where the code labels them, the       *)
(* tenant of their label; "" is a label that is not set.                   *)
(***************************************************************************)
EXTENDS Integers, Sequences, FiniteSets, FiniteSetsExt, SequencesExt

CONSTANTS Rank,       \* [names -> Nat], the order of ORDER BY name
          ListLimit   \* the limit of a list without options (50)

-----------------------------------------------------------------------------
(* Lists.  ListTenants, ListMachines and ListMachinesByTenant go through   *)
(* newListOptions and stop at ListLimit rows; ListTypedByTenant and the    *)
(* direct uses of ListResources pass no limit.                             *)

Listed(rows) ==
  {r \in rows : Cardinality({q \in rows : Rank[q.name] < Rank[r.name]}) < ListLimit}
ListMachinesByTenant(machines, tenant) ==
  Listed({m \in machines : m.tenant = tenant /\ tenant # ""})
ListTypedByTenant(rows, tenant) == {r \in rows : r.tenant = tenant /\ tenant # ""}
Named(rows, name) == {r \in rows : r.name = name}

-----------------------------------------------------------------------------
(* state/status.go *)

sumNodeGroupCounts(groups) == MapThenSumSet(LAMBDA g : g.count, groups)

ComputeTenantPhase(t, machines, groups) ==
  LET total == Cardinality(machines)
      expected == sumNodeGroupCounts(groups)
      unready == {m \in machines : ~(m.ready /\ m.stage = "ready")}
  IN CASE t.removing -> "removing"
       [] ~t.removing /\ total # 0 /\ total > expected -> "shrinking"
       [] ~t.removing /\ total # 0 /\ total = expected /\ unready = {} -> "active"
       [] OTHER -> "forming"

ComputeTenantStatus(t, machines, groups) ==
  LET phase == ComputeTenantPhase(t, machines, groups)
      cp == \E m \in machines : m.ready /\ m.role = "controlplane"
  IN [phase |-> phase,
      available |-> phase = "active" \/ (phase = "forming" /\ cp),
      apiReady |-> cp,
      total |-> Cardinality(machines),
      healthy |-> Cardinality({m \in machines : m.ready}),
      connected |-> Cardinality({m \in machines : m.connected}),
      reconcile |-> t.reconcile]

-----------------------------------------------------------------------------
(* internal/web/handler.go: the rows of the cluster tables. *)

tenantSummaries(db) ==
  {LET groups == ListTypedByTenant(db.groups, t.name)
       status == ComputeTenantStatus(t, ListMachinesByTenant(db.machines, t.name), groups)
   IN [name |-> t.name, phase |-> status.phase, ready |-> status.healthy,
       total |-> IF status.total = 0 THEN sumNodeGroupCounts(groups) ELSE status.total] :
     t \in Listed(db.tenants)}

-----------------------------------------------------------------------------
(* internal/dashboard/posture.go *)

isPendingStage(s) == s \in {"initializing", "installing", "configuring", "updating"}
isFailedStage(s) == s \in {"off", "removing"}

\* A mutant: ComputeTenantStatus without the machines, the bug that the
\* comment of Build recalls.
postureFromMetadata(db) ==
  LET tenants == Listed(db.tenants)
      Phase(t) == ComputeTenantStatus(t, {}, {}).phase
      Count(phases) == Cardinality({t \in tenants : Phase(t) \in phases})
  IN [active |-> Count({"active"}), forming |-> Count({"forming", "shrinking"}),
      removing |-> Count({"removing"}), erroring |-> 0, expected |-> 0, ready |-> 0]
\* All tenants share the one limited list of machines.
clusterPosture(db) ==
  LET tenants == Listed(db.tenants)
      Fleet(t) == {m \in Listed(db.machines) : m.tenant = t.name}
      Groups(t) == ListTypedByTenant(db.groups, t.name)
      Phase(t) == ComputeTenantStatus(t, Fleet(t), Groups(t)).phase
      Count(phases) == Cardinality({t \in tenants : Phase(t) \in phases})
  IN [active |-> Count({"active"}),
      forming |-> Count({"forming", "shrinking"}),
      removing |-> Count({"removing"}),
      erroring |-> 0,
      expected |-> MapThenSumSet(LAMBDA t : sumNodeGroupCounts(Groups(t)), tenants),
      ready |-> Cardinality({m \in Listed(db.machines) : m.stage = "ready"
                                /\ \E t \in tenants : t.name = m.tenant})]

machinePosture(machines) ==
  [total |-> Cardinality(machines),
   connected |-> Cardinality({m \in machines : m.connected}),
   pending |-> Cardinality({m \in machines : isPendingStage(m.stage)}),
   failed |-> Cardinality({m \in machines : isFailedStage(m.stage)})]

providerPosture(providers) ==
  [total |-> Cardinality(providers),
   disconnected |-> Cardinality({p \in providers : ~p.connected}),
   errors |-> Cardinality({p \in providers : p.error # ""})]

\* snaps is newest first; the newest success is the last one.
backupPosture(snaps) ==
  LET good == {i \in DOMAIN snaps : snaps[i].status = "success"}
  IN [lastSuccess |-> IF good = {} THEN "never" ELSE snaps[Min(good)].name,
      failures |-> Cardinality({i \in DOMAIN snaps : snaps[i].status = "failed"})]

\* Only the newest run of a tenant counts, and only in these two phases;
\* a run that rolls is in phase upgrading.
upgradePosture(db) ==
  LET Runs(t) == {r \in db.runs : r.tenant = t.name}
      latest == {CHOOSE r \in Runs(t) : \A q \in Runs(t) : Rank[q.name] <= Rank[r.name] :
                   t \in {u \in Listed(db.tenants) : Runs(u) # {}}}
  IN [activeRuns |-> Cardinality({r \in latest : r.phase \in {"running", "precheck"}}),
      blocked |-> \E r \in latest : r.phase = "precheck" /\ r.error # ""]

Build(db) ==
  [clusters |-> clusterPosture(db),
   machines |-> machinePosture(Listed(db.machines)),
   providers |-> providerPosture(db.providers),
   backups |-> backupPosture(db.snaps),
   upgrades |-> upgradePosture(db)]

-----------------------------------------------------------------------------
(* internal/api/patch and internal/configrender *)

effectiveScope(scope) == IF scope = "" THEN "cluster" ELSE scope

ValidateScope(scope, machine) ==
  /\ scope \in {"", "cluster", "machine"}
  /\ (scope = "machine") <=> (machine # "")

\* What the two forms refuse before they look at any row.
validatePatchInput(p) ==
  /\ p.body # ""
  /\ p.format \in {"", "strategic", "json6902", "text"}
  /\ ValidateScope(p.scope, p.machine)
  /\ p.role \in {"", "all", "controlplane", "worker", "kernel"}
  /\ p.format = "text" \/ p.body # "malformed"

\* Cluster scope first, machine scope last, by name within a scope: the
\* generator applies them in this order and the last writer wins.
ResolvePatches(patches, tenant, role, machine) ==
  LET rank(p) == IF effectiveScope(p.scope) = "machine" THEN 1 ELSE 0
      applies == {p \in ListTypedByTenant(patches, tenant) :
                    /\ p.enabled
                    /\ rank(p) = 1 => p.machine = machine
                    /\ p.role \in {"", "all"} \/ role = "" \/ p.role = role}
      before(p, q) == rank(p) < rank(q) \/ (rank(p) = rank(q) /\ Rank[p.name] < Rank[q.name])
      sorted == SetToSortSeq(applies, before)
  IN [i \in DOMAIN sorted |-> sorted[i].body]

\* The configuration of a machine is its patches over a base that depends on
\* the tenant; without the machine, its tenant or the tenant's secrets there
\* is none.
GenerateMachineConfig(db, tenant, id) ==
  {[base |-> tenant, patches |-> ResolvePatches(db.patches, tenant, m.role, id)] :
     m \in {k \in Named(db.machines, id) : Named(db.tenants, tenant) # {} /\ tenant \in db.secrets}}
=============================================================================
