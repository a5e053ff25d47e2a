---------------------------- MODULE ConsoleViews ----------------------------
(***************************************************************************)
(* The pages of the web console (internal/web/pages, internal/web/layout). *)
(* A template is an operator from the data its handler passes to the set   *)
(* of elements the browser then shows; text, style and column order are    *)
(* left out.  An element is a tuple <<kind, what, arg, dialog, value>>:    *)
(*   GET, POST, DELETE  a link or form for handler `what` and object arg,  *)
(*                      inside the dialog named by the last two fields     *)
(*                      when the fourth is not empty                       *)
(*   open, dialog       a button that opens a dialog, and the dialog       *)
(*   cell               a value shown for arg                              *)
(***************************************************************************)
EXTENDS Integers, Sequences, FiniteSets

Link(handler, arg) == {<<"GET", handler, arg, "", "">>}
Form(handler, arg) == {<<"POST", handler, arg, "", "">>}
Opener(dialog, of) == {<<"open", dialog, of, "", "">>}
Dialog(dialog, of, method, handler, arg) ==
  {<<"dialog", dialog, of, "", "">>, <<method, handler, arg, dialog, of>>}
Cell(what, arg, value) == {<<"cell", what, arg, "", value>>}
When(shown, elements) == IF shown THEN elements ELSE {}
Each(rows, Row(_)) == UNION {Row(r) : r \in rows}

-----------------------------------------------------------------------------
(* pages/helpers.go and the badge classes of the pages. *)

phaseBadgeClass(phase) ==
  CASE phase \in {"active", "complete"} -> "positive"
    [] phase \in {"removing", "failed"} -> "negative"
    [] OTHER -> "neutral"

reconcileBadgeClass(phase) ==
  CASE phase = "applied" -> "positive"
    [] phase = "failed" -> "negative"
    [] phase \in {"queued", "applying"} -> "warning"
    [] OTHER -> "neutral"

stageBadgeClass(stage) ==
  CASE stage = "ready" -> "positive"
    [] stage \in {"off", "removing", "stopping"} -> "negative"
    [] OTHER -> "neutral"

pressureClass(pct) ==
  CASE pct >= 90 -> "critical" [] pct >= 70 -> "warning" [] OTHER -> "ok"

nodeStatusClass(status) ==
  CASE status = "healthy" -> "positive"
    [] status = "warning" -> "warning"
    [] OTHER -> "negative"

pctInt(usage, capacity) ==
  IF capacity <= 0 THEN 0
  ELSE IF (usage * 100) \div capacity > 100 THEN 100
  ELSE (usage * 100) \div capacity

userRoleBadgeClass(role) ==
  CASE role = "admin" -> "negative" [] role = "edit" -> "positive" [] OTHER -> "neutral"

tokenRowBadgeClass(status) ==
  CASE status = "active" -> "positive" [] status = "expired" -> "negative" [] OTHER -> "neutral"

backupStatusBadge(status) ==
  CASE status = "success" -> "positive" [] status = "failed" -> "negative" [] OTHER -> "neutral"

auditStatusBadgeClass(code) ==
  CASE code \in 200..299 -> "positive" [] code \in 300..399 -> "neutral" [] OTHER -> "negative"

roleBadgeClass(role) == IF role = "worker" THEN "positive" ELSE "neutral"

logLevelClass(level) ==
  CASE level \in {"error", "fatal"} -> "error"
    [] level \in {"warn", "warning"} -> "warn"
    [] level = "debug" -> "debug"
    [] OTHER -> "info"

\* An empty role is shown as a dash.
machineRoleLabel(role) == IF role = "" THEN "dash" ELSE role

-----------------------------------------------------------------------------
(* internal/web/layout: what every page is wrapped in. *)

\* The section of the sidebar that is highlighted for a page.
sidebarSection(page) ==
  CASE page \in {"clusters", "cluster"} -> "TenantsList"
    [] page \in {"machines", "machine"} -> "MachinesList"
    [] page = "dashboard" -> "Dashboard"
    [] page = "providers" -> "ProvidersPage"
    [] page = "settings" -> "SettingsIndexPage"
    [] page = "users" -> "UsersPage"
    [] page = "api-tokens" -> "APITokensPage"
    [] page = "audit" -> "AuditPage"
    [] page = "backups" -> "BackupsPage"
    [] OTHER -> ""

sidebar(page) ==
  (UNION {Link(h, "") : h \in {"Dashboard", "TenantsList", "MachinesList", "ProvidersPage",
                               "SettingsIndexPage", "UsersPage", "APITokensPage",
                               "AuditPage", "BackupsPage"}})
    \cup When(sidebarSection(page) # "", Cell("active", "", sidebarSection(page)))

\* items is a sequence of <<handler, arg>>; the last one is the page itself
\* and no link.
breadcrumb(items) ==
  When(items # <<>>,
       Link("Dashboard", "") \cup
       UNION {Link(items[i][1], items[i][2]) : i \in 1..(Len(items) - 1)})

toastClass(type) == IF type \in {"success", "error"} THEN type ELSE "neutral"
toast(data) == When(data.message # "", Cell("toast", data.message, toastClass(data.type)))

\* props: page, user, crumbs, toast.
Base(props, content) ==
  IF props.page = "login" THEN content
  ELSE sidebar(props.page)
         \cup When(props.user # "", Cell("user", "", props.user) \cup Link("Logout", ""))
         \cup breadcrumb(props.crumbs) \cup toast(props.toast) \cup content

Login(data) ==
  Form("LoginSubmit", "") \cup When(data.error # "", Cell("error", "", data.error))
    \cup When(data.oidc, Link("OIDCLogin", ""))

-----------------------------------------------------------------------------
(* pages/tenants.templ, cluster_create.templ, tenant.templ: the clusters. *)

TenantsList(data) ==
  Link("ClusterCreatePage", "") \cup
  Each(data.tenants, LAMBDA t : Link("TenantDetail", t.name)
                                  \cup Cell("phase", t.name, phaseBadgeClass(t.phase))
                                  \cup Cell("ready", t.name, <<t.ready, t.total>>))

\* The chosen version, or the default when it is not one of the options.
markSelected(options, current, default) == IF current \in options THEN current ELSE default
k8sVersionOptions(current) == markSelected({"1.35.0", "1.34.0", "1.33.0"}, current, "1.35.0")
talosVersionOptions(current) == markSelected({"1.12.0", "1.11.0", "1.10.0"}, current, "1.12.0")

versionSelects(data) ==
  Cell("k8s", "", k8sVersionOptions(data.k8s)) \cup Cell("talos", "", talosVersionOptions(data.talos))

ClusterCreate(data) ==
  When(data.formError # "", Cell("alert", "", data.formError))
    \cup Cell(IF data.nameError # "" THEN "nameError" ELSE "nameHint", "", data.nameError)
    \cup versionSelects(data)
    \cup Form("ClusterCreateSubmit", "") \cup Link("TenantsList", "")

\* The tabs are links; an unknown one counts as overview.  The fifth field
\* of a link to a cluster page names its tab.
TabNames == {"overview", "patches", "backups", "upgrade", "settings"}
TabLink(cluster, tab) == {<<"GET", "TenantDetail", cluster, "", tab>>}
ActiveTab(current) == IF current \in TabNames THEN current ELSE "overview"
tabItemsFor(cluster, current) ==
  Cell("tab", cluster, ActiveTab(current)) \cup UNION {TabLink(cluster, t) : t \in TabNames}

patchTargetDisplay(p) ==
  IF p.scope = "machine" THEN <<p.machine, IF p.role = "all" THEN "" ELSE p.role>>
  ELSE <<"", p.role>>

groupRow(data, ng) ==
  Cell("group", ng.name, <<ng.role, ng.count>>)
    \cup When(data.canMutate, Opener("scale", ng.name))

overviewPatchRow(p) == Cell("patch", p.name, <<patchTargetDisplay(p), p.enabled>>)

machinePanelRow(m) == Cell("machine", m.id, <<stageBadgeClass(m.stage), m.connected>>)

MachinesPanel(data) ==
  Cell("panel", "machines-panel", "") \cup Each(data.machines, machinePanelRow)

ReconciliationBanner(data) ==
  Cell("panel", "reconcile-banner", "")
    \cup Cell("reconciliation", "", reconcileBadgeClass(data.reconcile))
    \cup When(data.lastError # "", Cell("lastError", "", data.lastError))

addNodeGroupForm(data) == Form("NodeGroupCreate", data.name)

\* The script names the cluster with a literal { JSON.stringify(name) },
\* which the browser refuses to parse: nothing in it ever runs.
liveUpdateScript(data) == Cell("script", data.name, "not parsed")

clusterOverview(data) ==
  Each(data.groups, LAMBDA ng : groupRow(data, ng))
    \cup When(data.canMutate, addNodeGroupForm(data))
    \cup When(data.machines # {}, MachinesPanel(data))
    \cup Each(data.patches, overviewPatchRow)
    \cup liveUpdateScript(data)

\* The button of a form that may not be sent is disabled.
upgradeForm(data) == When(data.canMutate, Form("ClusterUpgradeStart", data.name))
runRow(data, run) ==
  Cell("run", run.id, phaseBadgeClass(run.phase))
    \cup When(run.phase = "upgrading" /\ data.canMutate, Form("ClusterUpgradeCancel", <<data.name, run.id>>))
    \cup When(run.error # "", Cell("runError", run.id, run.error))
clusterUpgradeTab(data) == upgradeForm(data) \cup Each(data.runs, LAMBDA r : runRow(data, r))

createPatchModal(cluster) == Dialog("create-patch", cluster, "POST", "ClusterPatchCreate", cluster)

patchRow(data, p) ==
  Link("ClusterPatchEditPage", <<data.name, p.name>>) \cup Cell("patch", p.name, <<patchTargetDisplay(p), p.enabled>>)

patchPreview(data) ==
  {<<"GET", "TenantDetail", data.name, "", "patches">>}
    \cup Cell("preview", data.previewRole, data.preview)

clusterPatchesTab(data) ==
  When(data.canMutate, Opener("create-patch", data.name))
    \cup Each(data.patches, LAMBDA p : patchRow(data, p))
    \cup patchPreview(data)
    \cup When(data.canMutate, createPatchModal(data.name))

clusterSettings(data) ==
  Cell("name", "", data.name) \cup When(data.canMutate, Opener("delete", data.name))

stubTab(title) == Cell("stub", title, "")

scaleNodeGroupModal(cluster, ng) ==
  Dialog("scale", ng.name, "POST", "NodeGroupScale", <<cluster, ng.name>>)
deleteClusterModal(name) == Dialog("delete", name, "DELETE", "ClusterDelete", name)

clusterTabs(data) ==
  tabItemsFor(data.name, data.tab) \cup
  CASE data.tab = "settings" -> clusterSettings(data)
    [] data.tab = "patches" -> clusterPatchesTab(data)
    [] data.tab = "backups" -> stubTab("Backups")
    [] data.tab = "upgrade" -> clusterUpgradeTab(data)
    [] OTHER -> clusterOverview(data)

TenantDetail(data) ==
  Cell("phase", data.name, phaseBadgeClass(data.phase))
    \cup Link("ClusterKubeconfig", data.name) \cup Link("ClusterTalosconfig", data.name)
    \cup clusterTabs(data)
    \cup When(data.reconcile # "", ReconciliationBanner(data))
    \cup Each(data.groups, LAMBDA ng : scaleNodeGroupModal(data.name, ng))
    \cup When(data.canMutate, deleteClusterModal(data.name))

\* pages/patch_edit.templ: three buttons of one form, each with its action.
PatchActions(data) ==
  UNION {Form(h, <<data.cluster, data.name>>) : h \in {"ClusterPatchSave", "ClusterPatchToggle", "ClusterPatchDelete"}}
patchFields(data) == Cell("patch", data.name, <<patchTargetDisplay(data), data.enabled>>)
PatchEdit(data) ==
  TabLink(data.cluster, "patches") \cup patchFields(data)
    \cup When(data.canMutate, PatchActions(data))

-----------------------------------------------------------------------------
(* pages/machines.templ, machine_deepdive.templ, monitor.templ. *)

ClusterLink(cluster) ==
  IF cluster # "" THEN TabLink(cluster, "overview") ELSE Cell("unassigned", "", "")

fleetRow(m) ==
  Link("MachineDetail", m.id) \cup ClusterLink(m.cluster)
    \cup Cell("machine", m.id, <<stageBadgeClass(m.stage), m.connected>>)

machinesFilters(data) ==
  Link("MachinesList", "") \cup Cell("filter", data.filterCluster, data.filterStage)

MachinesList(data) ==
  machinesFilters(data) \cup Each(data.machines, fleetRow)

machineActionConfirm(dialog, handler, id) == Dialog(dialog, id, "POST", handler, id)

machineHeader(data) ==
  ClusterLink(data.cluster)
    \cup Cell("role", data.id, <<roleBadgeClass(data.role), machineRoleLabel(data.role)>>)
    \cup Cell("machine", data.id, <<stageBadgeClass(data.stage), data.connected>>)

machineButtons(data) ==
  When(data.canMutate, Opener("restart-machine", data.id) \cup Opener("shutdown-machine", data.id))
    \cup Link("MachinesList", "")

machineDetails(data) ==
  When(data.schematic # "", Cell("schematic", data.id, data.schematic))
    \cup When(data.hardware # {}, Cell("hardware", data.id, data.hardware))

machineNetwork(data) ==
  When(data.addresses # {}, Cell("addresses", data.id, data.addresses))

MachineDetail(data) ==
  machineHeader(data) \cup machineButtons(data) \cup machineDetails(data) \cup machineNetwork(data)
    \cup When(data.canMutate,
              machineActionConfirm("restart-machine", "MachineRestart", data.id)
                \cup machineActionConfirm("shutdown-machine", "MachineShutdown", data.id))

\* The subtitle of the pages below a machine names the cluster only when
\* there is one.
machineSubtitle(data) ==
  When(data.cluster # "", TabLink(data.cluster, "overview")) \cup Link("MachineDetail", data.id)

logsControls == Cell("control", "logs-pause", "")
logRow(l) == Cell("line", l.text, IF l.level # "" THEN logLevelClass(l.level) ELSE "")

\* Links of the kind API go to the REST interface, not to the console.
APILink(what, id) == {<<"API", what, id, "", "">>}
MachineLogs(data) ==
  machineSubtitle(data)
    \cup APILink("Logs", data.id) \cup Link("MachineMonitor", data.id)
    \cup logsControls
    \cup When(data.cluster # "", {<<"API", "LogsStream", data.id, "", "">>})
    \cup Each(data.lines, logRow)

MachineConfig(data) ==
  machineSubtitle(data) \cup APILink("Config", data.id) \cup Cell("config", data.id, data.config)

kernelArgsForm(data) ==
  IF data.canMutate THEN Form("MachineKernelArgsSave", data.id)
  ELSE When(data.existing # "", Cell("args", data.id, data.existing))
KernelArgs(data) == machineSubtitle(data) \cup kernelArgsForm(data)

MachineMonitor(data) ==
  machineSubtitle(data) \cup Link("MachineLogs", data.id) \cup Link("MachineEvents", data.id)
    \cup Cell("stage", data.id, data.stage)

-----------------------------------------------------------------------------
(* pages/users.templ, api_tokens.templ, audit.templ, backups.templ,        *)
(* providers.templ, settings_index.templ.                                  *)

createUserModal == Dialog("create-user", "", "POST", "UserCreate", "")
editUserModal(u) == Dialog("edit-user", u.name, "POST", "UserUpdate", u.name)
deleteUserForm(name) == Form("UserDelete", name)
userRow(data, u) ==
  Cell("user", u.name, userRoleBadgeClass(u.role))
    \cup When(data.canMutate,
              Opener("edit-user", u.name) \cup deleteUserForm(u.name) \cup editUserModal(u))
UsersPage(data) ==
  When(data.canMutate, Opener("create-user", "") \cup createUserModal)
    \cup Each(data.users, LAMBDA u : userRow(data, u))

apiTokenReveal(data) == Cell("secret", data.user, data.newToken)
createAPITokenModal(data) == Dialog("create-api-token", "", "POST", "APITokenCreate", data.user)
revokeAPITokenForm(id) == Form("APITokenDelete", id)
tokenRow(t) == Cell("token", t.id, tokenRowBadgeClass(t.status)) \cup revokeAPITokenForm(t.id)
APITokensPage(data) ==
  When(data.canMutate, Opener("create-api-token", "") \cup createAPITokenModal(data))
    \cup When(data.newToken # "", apiTokenReveal(data))
    \cup Each(data.tokens, tokenRow)

\* The links to the previous and the next page of the audit log; a page is
\* named by its offset.
auditPageURL(offset) == {<<"GET", "AuditPage", "page", "", offset>>}
auditPager(data) ==
  When(data.offset > 0,
       auditPageURL(IF data.offset > data.limit THEN data.offset - data.limit ELSE 0))
    \cup When(data.offset + data.limit < data.total, auditPageURL(data.offset + data.limit))
auditFilterForm(data) == Link("AuditPage", "") \cup Cell("filter", "verb", data.verb)
auditRow(ev) == Cell("event", "", <<ev.id, auditStatusBadgeClass(ev.status)>>)
AuditPage(data) ==
  auditFilterForm(data)
    \cup When(data.events # {}, Each(data.events, auditRow) \cup auditPager(data))

backupForms(data) ==
  When(data.canMutate,
       UNION {Form(h, "") : h \in {"BackupsRunDatabase", "BackupsRunResources",
                                   "BackupsPolicySave", "BackupsRestore"}})
snapshotRow(s) ==
  Cell("snapshot", s.id, backupStatusBadge(s.status))
    \cup When(s.error # "", Cell("snapshotError", s.id, s.error))
BackupsPage(data) ==
  Cell("lastSuccess", "", data.lastSuccess) \cup Cell("failures", "", data.failures)
    \cup Cell("retention", "", data.retention)
    \cup backupForms(data) \cup Each(data.snapshots, snapshotRow)

countConnected(rows) == Cardinality({p \in rows : p.connected})
countErrors(rows) == Cardinality({p \in rows : p.error # "" \/ ~p.connected})
providerRow(p) ==
  Cell("provider", p.type, IF p.connected THEN "positive" ELSE "negative")
    \cup When(p.error # "", Cell("providerError", p.type, p.error))
ProvidersPage(data) ==
  When(data.providers # {},
       Cell("connected", "", countConnected(data.providers))
         \cup Cell("errors", "", countErrors(data.providers)))
    \cup Each(data.providers, providerRow)

SettingsIndex(data) ==
  (UNION {Link(h, "") : h \in {"UsersPage", "APITokensPage", "AuditPage", "BackupsPage",
                               "ProvidersPage"}})
    \cup Cell("config", "", data.config)

-----------------------------------------------------------------------------
(* pages/dashboard.templ. *)

Badge(name, n) == When(n > 0, Cell("badge", name, n))

clusterPostureCard(p) ==
  Link("TenantsList", "") \cup Cell("count", "active", p.active)
    \cup Badge("forming", p.forming) \cup Badge("removing", p.removing)
    \cup Badge("degraded", p.erroring)
    \cup Cell("count", "ready", p.ready) \cup Cell("count", "expected", p.expected)

machinePostureCard(p) ==
  Link("MachinesList", "") \cup Cell("count", "machines", p.total)
    \cup Cell("count", "connected", p.connected)
    \cup Badge("pending", p.pending) \cup Badge("failed", p.failed)

providerPostureCard(p) ==
  Link("ProvidersPage", "") \cup Cell("count", "providers", p.total)
    \cup Badge("erroring", p.errors) \cup Badge("disconnected", p.disconnected)

backupPostureCard(p) ==
  Link("BackupsPage", "") \cup Cell("lastSuccess", "", p.lastSuccess)
    \cup Badge("failures", p.failures)

upgradePostureBanner(p) ==
  When(p.activeRuns > 0 \/ p.blocked,
       Link("TenantsList", "") \cup Badge("upgrades", p.activeRuns)
         \cup When(p.blocked, Cell("blocked", "", "precheck")))

postureGrid(p) ==
  clusterPostureCard(p.clusters) \cup machinePostureCard(p.machines)
    \cup providerPostureCard(p.providers) \cup backupPostureCard(p.backups)
    \cup upgradePostureBanner(p.upgrades)

pressureBar(what, of, pct) == Cell(what, of, <<pct, pressureClass(pct)>>)
pressureTile(usage, capacity) == pressureBar("tile", "CPU", pctInt(usage, capacity))
pressureTileBytes(usage, capacity) == pressureBar("tile", "Memory", pctInt(usage, capacity))
pressureTilePods(running, capacity) == pressureBar("tile", "Pods", pctInt(running, capacity))
pressureTileCount(nodes) == Cell("count", "nodes", nodes)

nodeBar(node, resource, pct) == pressureBar(resource, node, pct)
nodePressureCard(n) ==
  Cell("node", n.name, nodeStatusClass(n.status))
    \cup UNION {nodeBar(n.name, r, n.pct[r]) : r \in {"CPU", "Mem", "Pods", "Disk"}}

resourcePressure(m) ==
  pressureTile(m.cpu[1], m.cpu[2]) \cup pressureTileBytes(m.mem[1], m.mem[2])
    \cup pressureTilePods(m.pods[1], m.pods[2]) \cup pressureTileCount(Cardinality(m.nodes))
    \cup Each(m.nodes, nodePressureCard)

clustersTable(data) ==
  Each(data.tenants, LAMBDA t : TabLink(t.name, "overview")
                                  \cup Cell("phase", t.name, phaseBadgeClass(t.phase))
                                  \cup Cell("ready", t.name, <<t.ready, t.total>>))

recentActivity(data) ==
  When(data.audit # {}, Each(data.audit, auditRow) \cup Link("AuditPage", ""))

\* metrics is the empty set when no aggregator is configured or it fails,
\* and holds one summary otherwise.
Dashboard(data) ==
  postureGrid(data.posture) \cup Each(data.metrics, resourcePressure)
    \cup clustersTable(data) \cup recentActivity(data)
=============================================================================
