------------------------------ MODULE Console ------------------------------
(***************************************************************************)
(* The web console (internal/web): one browser tab with its session        *)
(* cookie, the handlers behind every route, and the rows they read and     *)
(* write.  A page is the set of elements ConsoleViews gives it; the tab    *)
(* keeps showing it while other requests, another tab of the same browser, *)
(* the REST interface and the reconciler go on.  The answer to a form is a *)
(* redirect with a toast, and the page it names is a request of its own.   *)
(***************************************************************************)
EXTENDS Fleet

CONSTANTS Accounts,     \* [user names -> roles], who can sign in
          NewNames,     \* names that forms may give to groups, patches, users, clusters
          PatchForms,   \* what the patch editor may send
          KernelArgsName,  \* [clusters -> patch names], "kernel-args-" and the cluster
          Tokens, RunIds,
          Metrics,      \* what the metrics aggregator answers: {} or one summary
          AuditRows,    \* rows of the audit table
          AuditLimit,   \* rows per page of it
          InitialRows,  \* the rows the run starts from
          MaxEvents     \* forms sent and things that happen elsewhere

VARIABLES session,   \* claims of the session cookie, user "" when there is none
          db,        \* the rows
          reveal,    \* the token-reveal cookie
          tab,       \* [page, body, fresh]
          pending,   \* the redirect the browser has still to follow
          answer,    \* the answer to a form, until the next page is shown
          events

consoleVars == <<session, db, reveal, tab, pending, answer, events>>

\* Rows are records with these fields.  A name is given once per table
\* (UNIQUE(type, name)), a cluster has one, and names have an order.
IsTenant(t) == t = [name |-> t.name, removing |-> t.removing, reconcile |-> t.reconcile]
IsMachine(m) ==
  m = [name |-> m.name, tenant |-> m.tenant, role |-> m.role, stage |-> m.stage,
       ready |-> m.ready, connected |-> m.connected]
IsPatch(p) ==
  p = [name |-> p.name, tenant |-> p.tenant, kind |-> p.kind, scope |-> p.scope,
       machine |-> p.machine, role |-> p.role, enabled |-> p.enabled, body |-> p.body]
IsTables(d) ==
  d = [tenants |-> d.tenants, groups |-> d.groups, machines |-> d.machines,
       patches |-> d.patches, runs |-> d.runs, users |-> d.users, tokens |-> d.tokens,
       snaps |-> d.snaps, retention |-> d.retention, secrets |-> d.secrets,
       providers |-> d.providers]
NamesUnique(rows) == \A r, q \in rows : r.name = q.name => r = q
RowsOK(d) ==
  /\ IsTables(d)
  /\ NamesUnique(d.tenants) /\ IsFiniteSet(d.tenants)
  /\ \A t \in d.tenants : IsTenant(t) /\ t.name # ""
  /\ IsFiniteSet(d.machines)
  /\ \A m \in d.machines : IsMachine(m) /\ m.name \in DOMAIN Rank
  /\ NamesUnique(d.patches)
  /\ \A p \in d.patches : IsPatch(p)
ASSUME ConsoleAssumption ==
  /\ \A d \in InitialRows : RowsOK(d)
  /\ ListLimit \in Nat
  /\ \A n \in DOMAIN Rank : Rank[n] \in Nat

V == INSTANCE ConsoleViews

NoSession == [user |-> "", role |-> ""]
To(handler, arg, part) == [handler |-> handler, arg |-> arg, part |-> part, message |-> "", type |-> ""]
Toast(target, message, type) == [target EXCEPT !.message = message, !.type = type]
Nowhere == To("", "", "")
NoAnswer == [handler |-> "", code |-> 0, fresh |-> FALSE]

-----------------------------------------------------------------------------
(* internal/web/handler.go *)

CanMutate == session.role \in {"admin", "edit"}
IsAdmin == session.role = "admin"
SignedOut == session.user = ""
Now(rows, name) == CHOOSE r \in Named(rows, name) : TRUE
Has(rows, name) == Named(rows, name) # {}

\* A page for Base; pops says whether the handler shows the toast of the URL.
Page(page, crumbs, pops, content) ==
  [code |-> 200, page |-> page, crumbs |-> crumbs, pops |-> pops, content |-> content]
Status(code) == [code |-> code, page |-> "", crumbs |-> <<>>, pops |-> FALSE, content |-> {}]

-----------------------------------------------------------------------------
(* The pages.  authn, dashboard *)

LoginForm(error) == Page("login", <<>>, FALSE, V!Login([error |-> error, oidc |-> FALSE]))
LoginPage == LoginForm("")

NodeCards(m) == {[name |-> n.name, status |-> n.status, pct |-> n.pct] : n \in m.nodes}
Dashboard ==
  Page("dashboard", <<>>, TRUE,
       V!Dashboard([posture |-> Build(db), tenants |-> tenantSummaries(db),
                    metrics |-> {[cpu |-> m.cpu, mem |-> m.mem, pods |-> m.pods,
                                  nodes |-> NodeCards(m)] : m \in Metrics},
                    audit |-> {[id |-> i, status |-> AuditRows[i]] :
                                 i \in {k \in DOMAIN AuditRows : k > Len(AuditRows) - 8}}]))

-----------------------------------------------------------------------------
(* handlers/clusters *)

TenantsList == Page("clusters", <<<<"", "">>>>, FALSE, V!TenantsList([tenants |-> tenantSummaries(db)]))

ClusterForm(name, nameError, formError) ==
  V!ClusterCreate([nameError |-> nameError, formError |-> formError, k8s |-> "", talos |-> ""])
ClusterCreatePage ==
  Page("clusters", <<<<"TenantsList", "">>, <<"", "">>>>, FALSE, ClusterForm("", "", ""))

\* The machines of a cluster page: the limited list of the tenant.
machineRows(cluster) ==
  {[id |-> m.name, stage |-> m.stage, connected |-> m.connected, role |-> m.role] :
     m \in ListMachinesByTenant(db.machines, cluster)}

patchRows(cluster) ==
  {[name |-> p.name, scope |-> effectiveScope(p.scope), machine |-> p.machine,
    role |-> IF p.role = "" THEN "all" ELSE p.role, enabled |-> p.enabled] :
     p \in ListTypedByTenant(db.patches, cluster)}

tenantDetailData(cluster, part) ==
  LET t == Now(db.tenants, cluster)
      groups == ListTypedByTenant(db.groups, cluster)
      status == ComputeTenantStatus(t, ListMachinesByTenant(db.machines, cluster), groups)
  IN [name |-> cluster, phase |-> status.phase, tab |-> V!ActiveTab(part),
      canMutate |-> CanMutate, reconcile |-> status.reconcile, lastError |-> "",
      groups |-> groups, machines |-> machineRows(cluster), patches |-> patchRows(cluster),
      runs |-> {[id |-> r.name, phase |-> r.phase, error |-> r.error] :
                  r \in ListTypedByTenant(db.runs, cluster)},
      previewRole |-> "controlplane",
      preview |-> ResolvePatches(db.patches, cluster, "controlplane", "")]

TenantDetail(cluster, part) ==
  IF ~Has(db.tenants, cluster) THEN Status(404)
  ELSE Page("cluster", <<<<"TenantsList", "">>, <<"", "">>>>, TRUE,
            V!TenantDetail(tenantDetailData(cluster, part)))

\* What the live-update script would fetch: a section alone, or 204.
renderReconcilePartial(cluster) ==
  IF ~Has(db.tenants, cluster) THEN Status(404)
  ELSE IF Now(db.tenants, cluster).reconcile = "" THEN Status(204)
  ELSE Page("partial", <<>>, FALSE, V!ReconciliationBanner(tenantDetailData(cluster, "overview")))
renderMachinesPartial(cluster) ==
  IF ~Has(db.tenants, cluster) THEN Status(404)
  ELSE IF machineRows(cluster) = {} THEN Status(204)
  ELSE Page("partial", <<>>, FALSE, V!MachinesPanel(tenantDetailData(cluster, "overview")))

credentialDownload(cluster) ==
  IF Has(db.tenants, cluster) /\ cluster \in db.secrets THEN Status(200) ELSE Status(404)

PatchOf(cluster, name) == {p \in Named(db.patches, name) : p.tenant = cluster}
ClusterPatchEditPage(cluster, name) ==
  IF PatchOf(cluster, name) = {} THEN Status(404)
  ELSE LET p == Now(db.patches, name)
       IN Page("cluster", <<<<"TenantsList", "">>, <<"TenantDetail", cluster>>, <<"", "">>>>, TRUE,
               V!PatchEdit([cluster |-> cluster, name |-> name, scope |-> effectiveScope(p.scope),
                            machine |-> p.machine, role |-> IF p.role = "" THEN "all" ELSE p.role,
                            enabled |-> p.enabled, canMutate |-> CanMutate]))

ClusterPatchesPreview(cluster) ==
  Page("partial", <<>>, FALSE,
       V!Cell("preview", "controlplane", ResolvePatches(db.patches, cluster, "controlplane", "")))

-----------------------------------------------------------------------------
(* handlers/machines *)

machineFleetRow(m) ==
  [id |-> m.name, cluster |-> m.tenant, stage |-> m.stage, connected |-> m.connected, role |-> m.role]
machineList(crumbs, rows, cluster, stage) ==
  Page("machines", crumbs, FALSE,
       V!MachinesList([machines |-> {machineFleetRow(m) : m \in rows},
                       filterCluster |-> cluster, filterStage |-> stage]))
MachinesList(cluster, stage) ==
  machineList(<<<<"", "">>>>,
              {m \in Listed(db.machines) : /\ cluster \in {"", m.tenant}
                                           /\ stage \in {"", m.stage}}, cluster, stage)
MachinesPending ==
  machineList(<<<<"MachinesList", "">>, <<"", "">>>>,
              {m \in Listed(db.machines) : m.stage \in {"initializing", "installing", "configuring"}}, "", "")

\* The pages of one machine: 404 without its row, and no toast.
MachinePage(id, crumbs, Content(_)) ==
  IF ~Has(db.machines, id) THEN Status(404)
  ELSE Page("machine", crumbs, FALSE, Content(Now(db.machines, id)))
Below(id) == <<<<"MachinesList", "">>, <<"MachineDetail", id>>, <<"", "">>>>

MachineDetail(id) ==
  MachinePage(id, <<<<"MachinesList", "">>, <<"", "">>>>,
    LAMBDA m : V!MachineDetail([id |-> id, cluster |-> m.tenant, role |-> m.role, stage |-> m.stage,
                                connected |-> m.connected, schematic |-> "", hardware |-> {},
                                addresses |-> {}, canMutate |-> CanMutate]))
\* One line: the Talos interface answers or the line says why not.
recentLogs(m) == {[text |-> IF m.connected THEN "dmesg" ELSE "unavailable",
                   level |-> IF m.connected THEN "info" ELSE "warn"]}
MachineLogs(id) ==
  MachinePage(id, Below(id),
    LAMBDA m : V!MachineLogs([id |-> id, cluster |-> m.tenant, lines |-> recentLogs(m)]))
MachineMonitor(id) ==
  MachinePage(id, Below(id),
    LAMBDA m : V!MachineMonitor([id |-> id, cluster |-> m.tenant, stage |-> m.stage]))
MachineConfig(id) ==
  IF Has(db.machines, id) /\ GenerateMachineConfig(db, Now(db.machines, id).tenant, id) = {}
  THEN Status(500)
  ELSE MachinePage(id, Below(id),
         LAMBDA m : V!MachineConfig([id |-> id, cluster |-> m.tenant,
                                     config |-> GenerateMachineConfig(db, m.tenant, id)]))

\* The first patch of the cluster, by name, with the kernel-args label.
findKernelArgsPatch(cluster) ==
  LET found == {p \in ListTypedByTenant(db.patches, cluster) : p.kind = "kernel-args"}
  IN {p \in found : \A q \in found : Rank[p.name] <= Rank[q.name]}
MachineKernelArgs(id) ==
  MachinePage(id, Below(id),
    LAMBDA m : V!KernelArgs([id |-> id, cluster |-> m.tenant, canMutate |-> CanMutate,
                             existing |-> IF findKernelArgsPatch(m.tenant) = {} THEN ""
                                          ELSE (CHOOSE p \in findKernelArgsPatch(m.tenant) : TRUE).body]))

-----------------------------------------------------------------------------
(* handlers/settings *)

InSettings == <<<<"SettingsIndexPage", "">>, <<"", "">>>>
SettingsIndexPage == Page("settings", <<<<"", "">>>>, TRUE, V!SettingsIndex([config |-> "defaults"]))
BackupsPage ==
  LET p == backupPosture(db.snaps)
  IN Page("settings-backups", InSettings, TRUE,
          V!BackupsPage([snapshots |-> {[id |-> db.snaps[i].name, status |-> db.snaps[i].status,
                                         error |-> ""] : i \in DOMAIN db.snaps},
                         retention |-> db.retention, lastSuccess |-> p.lastSuccess,
                         failures |-> p.failures, canMutate |-> CanMutate]))
\* A mutant: the forms follow CanMutate.
UsersPageForEditors ==
  Page("users", InSettings, TRUE,
       V!UsersPage([users |-> {[name |-> u, role |-> db.users[u]] : u \in DOMAIN db.users},
                    canMutate |-> CanMutate]))
UsersPage ==
  Page("users", InSettings, TRUE,
       V!UsersPage([users |-> {[name |-> u, role |-> db.users[u]] : u \in DOMAIN db.users},
                    canMutate |-> IsAdmin]))
APITokensPage ==
  Page("api-tokens", InSettings, TRUE,
       V!APITokensPage([tokens |-> {[id |-> t.name, status |-> "active"] :
                                      t \in {k \in db.tokens : IsAdmin \/ k.owner = session.user}},
                        canMutate |-> CanMutate, user |-> session.user, newToken |-> reveal]))
AuditPage(offset) ==
  LET shown == {i \in DOMAIN AuditRows : Len(AuditRows) - i \in offset..(offset + AuditLimit - 1)}
  IN Page("audit", InSettings, TRUE,
          V!AuditPage([events |-> {[id |-> i, status |-> AuditRows[i]] : i \in shown},
                       total |-> Len(AuditRows), limit |-> AuditLimit, offset |-> offset,
                       verb |-> ""]))
ProvidersPage ==
  Page("providers", <<<<"", "">>>>, TRUE,
       V!ProvidersPage([providers |-> {[type |-> p.name, connected |-> p.connected,
                                        error |-> p.error] : p \in db.providers}]))

-----------------------------------------------------------------------------
(* The route tables of the sections and AuthRequired. *)

settingsRoutes(handler, arg, part) ==
  CASE handler = "SettingsIndexPage" -> SettingsIndexPage
    [] handler = "BackupsPage" -> BackupsPage
    [] handler = "UsersPage" -> UsersPage
    [] handler = "APITokensPage" -> APITokensPage
    [] handler = "AuditPage" -> AuditPage(IF arg = "page" THEN part ELSE 0)
    [] handler = "ProvidersPage" -> ProvidersPage
    [] OTHER -> Status(404)
machinesRoutes(handler, arg, part) ==
  CASE handler = "MachinesList" -> MachinesList(arg, part)
    [] handler = "MachinesPending" -> MachinesPending
    [] handler = "MachineDetail" -> MachineDetail(arg)
    [] handler = "MachineLogs" -> MachineLogs(arg)
    [] handler = "MachineMonitor" -> MachineMonitor(arg)
    [] handler = "MachineConfig" -> MachineConfig(arg)
    [] handler = "MachineKernelArgs" -> MachineKernelArgs(arg)
    [] handler = "MachineEvents" -> Status(200)
    [] OTHER -> settingsRoutes(handler, arg, part)
clustersRoutes(handler, arg, part) ==
  CASE handler = "TenantsList" -> TenantsList
    [] handler = "ClusterCreatePage" -> ClusterCreatePage
    [] handler = "TenantDetail" -> TenantDetail(arg, part)
    [] handler = "ReconcilePartial" -> renderReconcilePartial(arg)
    [] handler = "MachinesPartial" -> renderMachinesPartial(arg)
    [] handler \in {"ClusterKubeconfig", "ClusterTalosconfig"} -> credentialDownload(arg)
    [] handler = "ClusterPatchEditPage" -> ClusterPatchEditPage(arg[1], arg[2])
    [] handler = "ClusterPatchesPreview" -> ClusterPatchesPreview(arg)
    [] OTHER -> machinesRoutes(handler, arg, part)
Serve(handler, arg, part) ==
  IF handler = "LoginPage" \/ SignedOut THEN LoginPage
  ELSE IF handler = "Dashboard" THEN Dashboard
  ELSE clustersRoutes(handler, arg, part)

\* The tab shows what a request for the target is answered.  A download, an
\* event stream or an error leaves no form on the screen.
Show(target) ==
  \E r \in {Serve(target.handler, target.arg, target.part)} :
    LET toast == [message |-> IF r.pops THEN target.message ELSE "",
                  type |-> IF r.pops THEN target.type ELSE ""]
        props == [page |-> r.page, user |-> session.user, crumbs |-> r.crumbs, toast |-> toast]
        body == IF r.page \in {"", "partial"} THEN r.content ELSE V!Base(props, r.content)
    IN /\ tab' = [page |-> r.page, body |-> body, fresh |-> TRUE]
       /\ reveal' = IF r.page = "api-tokens" THEN "" ELSE reveal
       /\ pending' = Nowhere /\ answer' = NoAnswer
       /\ UNCHANGED <<session, db, events>>

\* The addresses a user can type or a link can name.
Addresses ==
  {To(h, "", "") : h \in {"LoginPage", "Dashboard", "TenantsList", "ClusterCreatePage",
                          "MachinesPending", "SettingsIndexPage", "BackupsPage", "UsersPage",
                          "APITokensPage", "AuditPage", "ProvidersPage"}}
    \cup {To("TenantDetail", t.name, part) : t \in db.tenants, part \in V!TabNames}
    \cup {To(h, t.name, "") : t \in db.tenants,
            h \in {"ReconcilePartial", "MachinesPartial", "ClusterPatchesPreview", "ClusterKubeconfig"}}
    \cup {To("ClusterPatchEditPage", <<p.tenant, p.name>>, "") : p \in db.patches}
    \cup {To("MachinesList", c, s) : c \in {""} \cup {t.name : t \in db.tenants}, s \in {"", "ready"}}
    \cup {To(h, m.name, "") : m \in db.machines,
            h \in {"MachineDetail", "MachineLogs", "MachineMonitor", "MachineConfig", "MachineKernelArgs"}}
    \cup {To("AuditPage", "page", i) : i \in {0, AuditLimit}}

\* Every page has the link to the dashboard; an address is typed there.
Visit ==
  /\ pending = Nowhere
  /\ \E target \in Addresses :
       /\ tab.page \in {"", "login", "dashboard"} \/ target.handler = "Dashboard"
       /\ Show(target)
Follow == pending # Nowhere /\ Show(pending)

-----------------------------------------------------------------------------
(* The forms. *)

Opened(e) == e[4] = "" \/ <<"open", e[4], e[5], "", "">> \in tab.body
Sends(method, handler, arg) ==
  /\ events < MaxEvents /\ pending = Nowhere
  /\ \E e \in tab.body : e[1] = method /\ e[2] = handler /\ e[3] = arg /\ Opened(e)
Forms(handler) == {e[3] : e \in {f \in tab.body : f[2] = handler}}

Redirect(rows, target) == [code |-> 303, rows |-> rows, to |-> target]
Refuse(code) == [code |-> code, rows |-> db, to |-> Nowhere]
Failed(target, why) == Redirect(db, Toast(target, why, "error"))
Done(rows, target, what) == Redirect(rows, Toast(target, what, "success"))
\* RedirectAction and http.Redirect differ only in the header that carries
\* the target.
Reply(handler, out) ==
  LET r == IF SignedOut THEN Redirect(db, To("LoginPage", "", "")) ELSE out
  IN /\ db' = r.rows
     /\ pending' = r.to
     /\ answer' = [handler |-> handler, code |-> r.code, fresh |-> tab.fresh]
     /\ tab' = IF r.rows = db THEN tab ELSE [tab EXCEPT !.fresh = FALSE]
     /\ events' = events + 1
     /\ UNCHANGED session

Cluster(c) == To("TenantDetail", c, "overview")
OnTab(c, part) == To("TenantDetail", c, part)
Replace(rows, name, new) == (rows \ Named(rows, name)) \cup {new}

\* Nobody checks the role here.  A refused form comes back as the answer.
ClusterCreateSubmit(name) ==
  /\ Sends("POST", "ClusterCreateSubmit", "")
  /\ IF ~SignedOut /\ (name = "" \/ Has(db.tenants, name))
     THEN /\ tab' = [page |-> "clusters", fresh |-> TRUE,
                     body |-> ClusterForm(name, IF name = "" THEN "required" ELSE "",
                                          IF name = "" THEN "" ELSE "exists")]
          /\ answer' = [handler |-> "ClusterCreateSubmit", code |-> 200, fresh |-> tab.fresh]
          /\ events' = events + 1
          /\ UNCHANGED <<session, db, pending, reveal>>
     ELSE /\ Reply("ClusterCreateSubmit",
                   Done([db EXCEPT !.tenants = @ \cup {[name |-> name, removing |-> FALSE,
                                                        reconcile |-> ""]},
                                   !.secrets = @ \cup {name}], Cluster(name), "created"))
          /\ UNCHANGED reveal

\* DeleteTenant sets the deletion timestamp; the row goes when the cluster
\* is destroyed.  The secrets go at once and no error is shown.
ClusterDelete(c) ==
  /\ Sends("DELETE", "ClusterDelete", c)
  /\ Reply("ClusterDelete",
       IF ~CanMutate THEN Refuse(403)
       ELSE Done([db EXCEPT !.tenants = {IF t.name = c THEN [t EXCEPT !.removing = TRUE] ELSE t : t \in @},
                            !.secrets = @ \ {c}], To("TenantsList", "", ""), "deleted"))
  /\ UNCHANGED reveal

NodeGroupScale(c, g, count) ==
  /\ Sends("POST", "NodeGroupScale", <<c, g>>)
  /\ Reply("NodeGroupScale",
       IF ~CanMutate THEN Refuse(403)
       ELSE IF count \notin 0..100 THEN Refuse(400)
       ELSE IF {r \in Named(db.groups, g) : r.tenant = c} = {} THEN Refuse(404)
       ELSE Done([db EXCEPT !.groups = Replace(@, g, [Now(@, g) EXCEPT !.count = count])],
                 Cluster(c), "scaled"))
  /\ UNCHANGED reveal

NodeGroupCreate(c, g, count) ==
  /\ Sends("POST", "NodeGroupCreate", c)
  /\ Reply("NodeGroupCreate",
       IF ~CanMutate THEN Refuse(403)
       ELSE IF g = "" \/ count \notin 1..100 \/ ~Has(db.tenants, c) \/ Has(db.groups, g)
            THEN Failed(Cluster(c), "group refused")
       ELSE Done([db EXCEPT !.groups = @ \cup {[name |-> g, tenant |-> c, role |-> "worker",
                                                count |-> count]}], Cluster(c), "group created"))
  /\ UNCHANGED reveal

\* StartRun refuses a tenant without machines and an empty version; the row
\* of a new run says upgrading.
ClusterUpgradeStart(c, run, version) ==
  /\ run \in RunIds /\ ~Has(db.runs, run)
  /\ \A r \in db.runs : Rank[r.name] < Rank[run]
  /\ Sends("POST", "ClusterUpgradeStart", c)
  /\ Reply("ClusterUpgradeStart",
       IF ~CanMutate THEN Refuse(403)
       ELSE IF version = "" \/ ~Has(db.tenants, c) \/ ListMachinesByTenant(db.machines, c) = {}
            THEN Failed(OnTab(c, "upgrade"), "run refused")
       ELSE Done([db EXCEPT !.runs = @ \cup {[name |-> run, tenant |-> c, phase |-> "upgrading",
                                              error |-> ""]}], OnTab(c, "upgrade"), "run started"))
  /\ UNCHANGED reveal

\* CancelRun only ends the context; the run writes its own end.
ClusterUpgradeCancel(c, run) ==
  /\ Sends("POST", "ClusterUpgradeCancel", <<c, run>>)
  /\ Reply("ClusterUpgradeCancel",
       IF ~CanMutate THEN Refuse(403)
       ELSE IF \A r \in Named(db.runs, run) : r.phase \notin {"precheck", "upgrading"}
            THEN Failed(OnTab(c, "upgrade"), "not active")
       ELSE Done(db, OnTab(c, "upgrade"), "canceled"))
  /\ UNCHANGED reveal

\* The row of a patch from the form: cluster scope is stored as no scope.
patchSpec(name, c, kind, f) ==
  [name |-> name, tenant |-> c, kind |-> kind, scope |-> IF f.scope = "cluster" THEN "" ELSE f.scope,
   machine |-> f.machine, role |-> IF f.role = "all" THEN "" ELSE f.role, enabled |-> f.enabled,
   body |-> f.body]

ClusterPatchCreate(c, name, f) ==
  /\ Sends("POST", "ClusterPatchCreate", c)
  /\ Reply("ClusterPatchCreate",
       IF ~CanMutate THEN Refuse(403)
       ELSE IF ~validatePatchInput(f) \/ Has(db.patches, name)
            THEN Failed(OnTab(c, "patches"), "patch refused")
       ELSE Done([db EXCEPT !.patches = @ \cup {patchSpec(name, c, "", f)}],
                 OnTab(c, "patches"), "patch created"))
  /\ UNCHANGED reveal

EditPage(c, name) == To("ClusterPatchEditPage", <<c, name>>, "")
\* The labels stay, and the tenant label is written again.
\* A mutant: the labels are not passed on.
savedWithoutLabels(p, c, f) == patchSpec(p.name, "", "", f)
savedPatch(p, c, f) == patchSpec(p.name, c, p.kind, f)
ClusterPatchSave(c, name, f) ==
  /\ Sends("POST", "ClusterPatchSave", <<c, name>>)
  /\ Reply("ClusterPatchSave",
       IF ~CanMutate THEN Refuse(403)
       ELSE IF ~validatePatchInput(f) THEN Failed(EditPage(c, name), "patch refused")
       ELSE IF PatchOf(c, name) = {} THEN Refuse(404)
       ELSE Done([db EXCEPT !.patches = Replace(@, name, savedPatch(Now(@, name), c, f))],
                 EditPage(c, name), "patch saved"))
  /\ UNCHANGED reveal

ClusterPatchDelete(c, name) ==
  /\ Sends("POST", "ClusterPatchDelete", <<c, name>>)
  /\ Reply("ClusterPatchDelete",
       IF ~CanMutate THEN Refuse(403)
       ELSE IF PatchOf(c, name) = {} THEN Refuse(404)
       ELSE Done([db EXCEPT !.patches = @ \ Named(@, name)], OnTab(c, "patches"), "patch deleted"))
  /\ UNCHANGED reveal

toggledPatch(p) == [p EXCEPT !.enabled = ~@]
ClusterPatchToggle(c, name) ==
  /\ Sends("POST", "ClusterPatchToggle", <<c, name>>)
  /\ Reply("ClusterPatchToggle",
       IF ~CanMutate THEN Refuse(403)
       ELSE IF PatchOf(c, name) = {} THEN Refuse(404)
       ELSE Done([db EXCEPT !.patches = Replace(@, name, toggledPatch(Now(@, name)))],
                 EditPage(c, name), "toggled"))
  /\ UNCHANGED reveal

\* An existing patch is written back with no labels at all; a new one is
\* named after the cluster, and a name that is taken is an internal error.
UpdatedArgs(p, args) == [p EXCEPT !.body = args, !.tenant = "", !.kind = ""]
StoreArgs(c, args) ==
  LET found == findKernelArgsPatch(c)
      new == [name |-> KernelArgsName[c], tenant |-> c, kind |-> "kernel-args", scope |-> "",
              machine |-> "", role |-> "", enabled |-> TRUE, body |-> args]
  IN IF found # {} THEN {Replace(db.patches, p.name, UpdatedArgs(p, args)) : p \in found}
     ELSE IF Has(db.patches, new.name) THEN {} ELSE {db.patches \cup {new}}
isValidKernelArg(args) == args \notin {"", "disallowed"}
MachineKernelArgsSave(id, args) ==
  /\ Sends("POST", "MachineKernelArgsSave", id)
  /\ Reply("MachineKernelArgsSave",
       IF ~CanMutate THEN Refuse(403)
       ELSE IF ~Has(db.machines, id) THEN Refuse(404)
       ELSE LET c == Now(db.machines, id).tenant
                there == To("MachineKernelArgs", id, "")
            IN IF c = "" THEN Refuse(400)
               ELSE IF ~isValidKernelArg(args) THEN Failed(there, "args refused")
               ELSE IF StoreArgs(c, args) = {} THEN Refuse(500)
               ELSE Done([db EXCEPT !.patches = CHOOSE s \in StoreArgs(c, args) : TRUE],
                         there, "args saved"))
  /\ UNCHANGED reveal

\* Restart and shutdown go to the node; the rows change only when it reports.
MachineAction(handler, id) ==
  /\ handler \in {"MachineRestart", "MachineShutdown"}
  /\ Sends("POST", handler, id)
  /\ Reply(handler,
       IF ~CanMutate THEN Refuse(403)
       ELSE IF ~Has(db.machines, id) THEN Refuse(404)
       ELSE IF ~Now(db.machines, id).connected THEN Failed(To("MachineDetail", id, ""), "failed")
       ELSE Done(db, To("MachineDetail", id, ""), "queued"))
  /\ UNCHANGED reveal

BackupsAt == To("BackupsPage", "", "")
\* What the service itself does is module Backup's; here a new record is
\* listed first, or a failed one is.
BackupsRun(handler, worked) ==
  /\ handler \in {"BackupsRunDatabase", "BackupsRunResources"}
  /\ Sends("POST", handler, "")
  /\ Reply(handler,
       IF ~CanMutate THEN Refuse(403)
       ELSE LET snap == [name |-> IF worked THEN "new-ok" ELSE "new-bad",
                         status |-> IF worked THEN "success" ELSE "failed"]
                rows == [db EXCEPT !.snaps = <<snap>> \o @]
            IN IF worked THEN Done(rows, BackupsAt, "created")
               ELSE Redirect(rows, Toast(BackupsAt, "failed", "error")))
  /\ UNCHANGED reveal
BackupsPolicySave(retention) ==
  /\ Sends("POST", "BackupsPolicySave", "")
  /\ Reply("BackupsPolicySave",
       IF ~CanMutate THEN Refuse(403)
       ELSE IF retention <= 0 THEN Failed(BackupsAt, "must be positive")
       ELSE Done([db EXCEPT !.retention = retention], BackupsAt, "updated"))
  /\ UNCHANGED reveal
BackupsRestore(snap) ==
  /\ Sends("POST", "BackupsRestore", "")
  /\ Reply("BackupsRestore",
       IF ~CanMutate THEN Refuse(403)
       ELSE IF \A i \in DOMAIN db.snaps : db.snaps[i].name # snap \/ db.snaps[i].status # "success"
            THEN Failed(BackupsAt, "not restorable")
       ELSE Done(db, BackupsAt, "restored"))
  /\ UNCHANGED reveal

UsersAt == To("UsersPage", "", "")
UserCreate(u, role) ==
  /\ Sends("POST", "UserCreate", "")
  /\ Reply("UserCreate",
       IF ~IsAdmin THEN Refuse(403)
       ELSE IF u = "" \/ u \in DOMAIN db.users THEN Failed(UsersAt, "user refused")
       ELSE Done([db EXCEPT !.users = [v \in DOMAIN @ \cup {u} |-> IF v = u THEN role ELSE @[v]]],
                 UsersAt, "user created"))
  /\ UNCHANGED reveal
UserUpdate(u, role) ==
  /\ Sends("POST", "UserUpdate", u)
  /\ Reply("UserUpdate",
       IF ~IsAdmin THEN Refuse(403)
       ELSE IF u \notin DOMAIN db.users THEN Failed(UsersAt, "not found")
       ELSE Done([db EXCEPT !.users[u] = role], UsersAt, "user updated"))
  /\ UNCHANGED reveal
UserDelete(u) ==
  /\ Sends("POST", "UserDelete", u)
  /\ Reply("UserDelete",
       IF ~IsAdmin THEN Refuse(403)
       ELSE IF u = session.user \/ u \notin DOMAIN db.users THEN Failed(UsersAt, "not deleted")
       ELSE Done([db EXCEPT !.users = [v \in DOMAIN @ \ {u} |-> @[v]]], UsersAt, "user deleted"))
  /\ UNCHANGED reveal

TokensAt == To("APITokensPage", "", "")
\* The secret travels to the next page in a cookie.
APITokenCreate(target, t) ==
  /\ t \in Tokens /\ ~Has(db.tokens, t)
  /\ Sends("POST", "APITokenCreate", target)
  /\ LET allowed == CanMutate /\ (IsAdmin \/ session.user = target)
         made == allowed /\ target \in DOMAIN db.users
     IN /\ Reply("APITokenCreate",
             IF ~allowed THEN Refuse(403)
             ELSE IF ~made THEN Failed(TokensAt, "user not found")
             ELSE Done([db EXCEPT !.tokens = @ \cup {[name |-> t, owner |-> target]}],
                       TokensAt, "token created"))
        /\ reveal' = IF made THEN t ELSE reveal
APITokenDelete(t) ==
  /\ Sends("POST", "APITokenDelete", t)
  /\ Reply("APITokenDelete",
       IF ~CanMutate THEN Refuse(403)
       ELSE IF ~Has(db.tokens, t) THEN Failed(TokensAt, "token not found")
       ELSE IF ~IsAdmin /\ Now(db.tokens, t).owner # session.user THEN Refuse(403)
       ELSE Done([db EXCEPT !.tokens = @ \ Named(@, t)], TokensAt, "token revoked"))
  /\ UNCHANGED reveal

\* A sign-in that fails shows the form again; one that works sets the cookie.
LoginSubmit(u, right) ==
  /\ Sends("POST", "LoginSubmit", "")
  /\ events' = events + 1
  /\ answer' = [handler |-> "LoginSubmit", code |-> IF right /\ u \in DOMAIN db.users THEN 303 ELSE 200,
                fresh |-> tab.fresh]
  /\ IF right /\ u \in DOMAIN db.users
     THEN /\ session' = [user |-> u, role |-> db.users[u]]
          /\ pending' = To("Dashboard", "", "")
          /\ tab' = [tab EXCEPT !.fresh = FALSE]
     ELSE /\ tab' = [page |-> "login", body |-> LoginForm("invalid").content, fresh |-> TRUE]
          /\ UNCHANGED <<session, pending>>
  /\ UNCHANGED <<db, reveal>>

Logout ==
  /\ pending = Nowhere /\ ~SignedOut
  /\ <<"GET", "Logout", "", "", "">> \in tab.body
  /\ session' = NoSession /\ pending' = To("LoginPage", "", "")
  /\ tab' = [tab EXCEPT !.fresh = FALSE]
  /\ UNCHANGED <<db, reveal, answer, events>>

Submit ==
  \/ \E name \in NewNames \cup {""} : ClusterCreateSubmit(name)
  \/ \E c \in Forms("ClusterDelete") : ClusterDelete(c)
  \/ \E a \in Forms("NodeGroupScale"), n \in {0, 2, 101} : NodeGroupScale(a[1], a[2], n)
  \/ \E c \in Forms("NodeGroupCreate"), g \in NewNames, n \in {0, 1} : NodeGroupCreate(c, g, n)
  \/ \E c \in Forms("ClusterUpgradeStart"), r \in RunIds, v \in {"", "1.13.0"} :
       ClusterUpgradeStart(c, r, v)
  \/ \E a \in Forms("ClusterUpgradeCancel") : ClusterUpgradeCancel(a[1], a[2])
  \/ \E c \in Forms("ClusterPatchCreate"), p \in NewNames, f \in PatchForms : ClusterPatchCreate(c, p, f)
  \/ \E a \in Forms("ClusterPatchSave"), f \in PatchForms : ClusterPatchSave(a[1], a[2], f)
  \/ \E a \in Forms("ClusterPatchDelete") : ClusterPatchDelete(a[1], a[2])
  \/ \E a \in Forms("ClusterPatchToggle") : ClusterPatchToggle(a[1], a[2])
  \/ \E id \in Forms("MachineKernelArgsSave"), args \in {"", "console=a", "console=b"} :
       MachineKernelArgsSave(id, args)
  \/ \E h \in {"MachineRestart", "MachineShutdown"} : \E id \in Forms(h) : MachineAction(h, id)
  \/ \E h \in {"BackupsRunDatabase", "BackupsRunResources"}, ok \in BOOLEAN : BackupsRun(h, ok)
  \/ \E n \in {0, 3} : BackupsPolicySave(n)
  \/ \E i \in DOMAIN db.snaps : BackupsRestore(db.snaps[i].name)
  \/ \E u \in NewNames : UserCreate(u, "view")
  \/ \E u \in Forms("UserUpdate") : UserUpdate(u, "view")
  \/ \E u \in Forms("UserDelete") : UserDelete(u)
  \/ \E u \in Forms("APITokenCreate"), t \in Tokens : APITokenCreate(u, t)
  \/ \E t \in Forms("APITokenDelete") : APITokenDelete(t)
  \/ \E u \in DOMAIN Accounts, right \in BOOLEAN : LoginSubmit(u, right)

-----------------------------------------------------------------------------
(* What happens elsewhere while the tab shows its page. *)

Meanwhile(rows) ==
  /\ events < MaxEvents /\ events' = events + 1
  /\ db' = rows
  /\ tab' = [tab EXCEPT !.fresh = FALSE]
  /\ UNCHANGED <<session, reveal, pending, answer>>

\* A node reports, or the row of a machine goes.
Report(m, stage) ==
  Meanwhile([db EXCEPT !.machines = Replace(@, m.name, [m EXCEPT !.stage = stage,
                                                          !.ready = (stage = "ready"),
                                                          !.connected = (stage = "ready")])])
RemoveMachine(m) == Meanwhile([db EXCEPT !.machines = @ \ {m}])
\* The reconciler records a phase, and removes a destroyed tenant with what
\* carries its label.
RecordPhase(t) == Meanwhile([db EXCEPT !.tenants = Replace(@, t.name, [t EXCEPT !.reconcile = "applied"])])
RemoveTenant(t) ==
  t.removing /\ Meanwhile([db EXCEPT !.tenants = @ \ {t},
                                     !.groups = {g \in @ : g.tenant # t.name},
                                     !.patches = {p \in @ : p.tenant # t.name}])
\* The REST interface removes a group or a patch.
RemoveGroup(g) == Meanwhile([db EXCEPT !.groups = @ \ {g}])
RemovePatch(p) == Meanwhile([db EXCEPT !.patches = @ \ {p}])
\* A run moves on.
Advance(r, phase) ==
  Meanwhile([db EXCEPT !.runs = Replace(@, r.name, [r EXCEPT !.phase = phase])])
\* Another tab signs in as somebody else, or the cookie expires.
SwitchSession(u) ==
  /\ events < MaxEvents /\ events' = events + 1
  /\ session' = IF u \in DOMAIN db.users THEN [user |-> u, role |-> db.users[u]] ELSE NoSession
  /\ session' # session
  /\ tab' = [tab EXCEPT !.fresh = FALSE]
  /\ UNCHANGED <<db, reveal, pending, answer>>

Elsewhere ==
  \/ \E m \in db.machines : (\E stage \in {"ready", "off"} : Report(m, stage)) \/ RemoveMachine(m)
  \/ \E t \in db.tenants : RecordPhase(t) \/ RemoveTenant(t)
  \/ \E g \in db.groups : RemoveGroup(g)
  \/ \E p \in db.patches : RemovePatch(p)
  \/ \E r \in db.runs, phase \in {"precheck", "complete"} : Advance(r, phase)
  \/ \E u \in DOMAIN Accounts \cup {""} : SwitchSession(u)

-----------------------------------------------------------------------------
ConsoleInit ==
  /\ \E u \in DOMAIN Accounts : session = [user |-> u, role |-> Accounts[u]]
  /\ db \in InitialRows
  /\ reveal = "" /\ pending = Nowhere
  /\ tab = [page |-> "", body |-> {}, fresh |-> FALSE]
  /\ answer = NoAnswer
  /\ events = 0

ConsoleNext == Visit \/ Follow \/ Submit \/ Logout \/ Elsewhere

ConsoleSpec == ConsoleInit /\ [][ConsoleNext]_consoleVars

-----------------------------------------------------------------------------
(* Properties. *)

\* A form that a page offers is one its handler takes: as long as neither
\* the rows nor the session changed since the page was rendered, sending it
\* is never answered 403 or 404.  The one exception is the Revoke button,
\* which api_tokens.templ shows to a viewer for their own tokens while
\* APITokenDelete wants CanMutate.
FreshFormsAccepted ==
  answer.fresh => answer.code \notin {403, 404} \/ answer.handler = "APITokenDelete"

Shown(what, arg) == {e[5] : e \in {f \in tab.body : f[1] = "cell" /\ f[2] = what /\ f[3] = arg}}
ActiveRows == {e \in tab.body : e[1] = "cell" /\ e[2] = "phase" /\ e[5] = "positive"}

\* The dashboard counts as active exactly the clusters its own table shows
\* as active, as long as the whole fleet fits into one list: the card is
\* computed from one list of all machines, the table from one per tenant.
PostureMatchesTable ==
  tab.fresh /\ tab.page = "dashboard" /\ Cardinality(db.machines) <= ListLimit =>
    Shown("count", "active") = {Cardinality(ActiveRows)}

\* No request of the console takes a patch out of its cluster, except the
\* second save of the kernel-args editor, which writes the row back without
\* labels: a patch that has a tenant label keeps it as long as it exists.
PatchesStayInCluster ==
  [][\A p \in db.patches : p.tenant # "" =>
       \A q \in db'.patches : q.name = p.name /\ q.tenant # p.tenant =>
         p.kind = "kernel-args" /\ answer'.handler = "MachineKernelArgsSave"]_consoleVars

-----------------------------------------------------------------------------
(* The invariant the proofs rest on. *)

\* What a page promises with a form: whoever sees it may use it, and the
\* rows it names are there.
Offered(handler, arg) ==
  \/ handler \in {"LoginSubmit", "ClusterCreateSubmit", "APITokenDelete"}
  \/ /\ CanMutate
     /\ handler \in {"ClusterDelete", "NodeGroupCreate", "ClusterUpgradeStart",
                     "ClusterUpgradeCancel", "ClusterPatchCreate", "BackupsRunDatabase",
                     "BackupsRunResources", "BackupsPolicySave", "BackupsRestore"}
  \/ /\ CanMutate /\ handler \in {"ClusterPatchSave", "ClusterPatchToggle", "ClusterPatchDelete"}
     /\ \E p \in db.patches : arg = <<p.tenant, p.name>>
  \/ /\ CanMutate /\ handler \in {"MachineKernelArgsSave", "MachineRestart", "MachineShutdown"}
     /\ \E m \in db.machines : arg = m.name
  \/ IsAdmin /\ handler \in {"UserCreate", "UserUpdate", "UserDelete"}
  \/ CanMutate /\ handler = "APITokenCreate" /\ arg = session.user
\* The scale dialogs are on the page of every user, the buttons that open
\* them are not.
Scales(e) ==
  e[2] = "NodeGroupScale" /\ e[4] = "scale" /\ \E g \in db.groups : e[3] = <<g.tenant, g.name>>
Accepted(e) ==
  /\ e[1] = "open" => CanMutate
  /\ e[1] \in {"POST", "DELETE"} => Offered(e[2], e[3]) \/ Scales(e)
FormsOK == tab.fresh => \A e \in tab.body : Accepted(e)

IsTab == tab = [page |-> tab.page, body |-> tab.body, fresh |-> tab.fresh]
ConsoleInv == RowsOK(db) /\ IsTab /\ FormsOK /\ FreshFormsAccepted /\ PostureMatchesTable
=============================================================================
