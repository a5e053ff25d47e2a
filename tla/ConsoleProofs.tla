---------------------------- MODULE ConsoleProofs ----------------------------
(***************************************************************************)
(* Proofs about the web console, for any accounts, rows, names and number  *)
(* of events, and about the backup service behind its backups page, for    *)
(* any number of concurrent requests, exported kinds, snapshots,           *)
(* retentions, edits, restores and crashes.                                *)
(***************************************************************************)
EXTENDS Console, Backup, SequenceTheorems, FiniteSetTheorems, TLAPS

-----------------------------------------------------------------------------
(* Elements of a page. *)

\* Elements that send nothing: links, cells, dialogs.
Silent(e) == e[1] \notin {"POST", "DELETE", "open"}
Quiet(S) == \A e \in S : Silent(e)
\* Elements that do what they offer.
Good(S) == \A e \in S : Accepted(e)

\* The five parts of an element.
LEMMA Fields ==
  ASSUME NEW a, NEW b, NEW c, NEW d, NEW f, NEW e, e = <<a, b, c, d, f>>
  PROVE  e[1] = a /\ e[2] = b /\ e[3] = c /\ e[4] = d /\ e[5] = f
OBVIOUS

\* Elements that send nothing promise nothing.
LEMMA QuietIsGood == ASSUME NEW S, Quiet(S) PROVE Good(S)
BY Zenon DEF Quiet, Silent, Good, Accepted

\* No elements, a union, a condition.
LEMMA QuietEmpty == Quiet({})
BY Zenon DEF Quiet
LEMMA QuietUnion == ASSUME NEW A, NEW B, Quiet(A), Quiet(B) PROVE Quiet(A \cup B)
BY DEF Quiet
LEMMA QuietUNION == ASSUME NEW S, \A s \in S : Quiet(s) PROVE Quiet(UNION S)
BY Zenon DEF Quiet
LEMMA QuietWhen == ASSUME NEW b, NEW A, Quiet(A) PROVE Quiet(V!When(b, A))
BY QuietEmpty, Zenon DEF V!When

\* One element that is no form and no button.
LEMMA QuietOne ==
  ASSUME NEW a, NEW b, NEW c, NEW d, NEW f, a \notin {"POST", "DELETE", "open"}
  PROVE  Quiet({<<a, b, c, d, f>>})
<1>1. <<a, b, c, d, f>>[1] = a
  BY Fields, Zenon
<1> QED  BY <1>1, Zenon DEF Quiet, Silent

\* Links and cells send nothing.
LEMMA QuietLink == ASSUME NEW h, NEW a PROVE Quiet(V!Link(h, a))
<1>1. "GET" \notin {"POST", "DELETE", "open"}
  OBVIOUS
<1> QED  BY <1>1, QuietOne, Zenon DEF V!Link
LEMMA QuietCell == ASSUME NEW h, NEW a, NEW v PROVE Quiet(V!Cell(h, a, v))
<1>1. "cell" \notin {"POST", "DELETE", "open"}
  OBVIOUS
<1> QED  BY <1>1, QuietOne, Zenon DEF V!Cell
LEMMA QuietTabLink == ASSUME NEW c, NEW t PROVE Quiet(V!TabLink(c, t))
<1>1. "GET" \notin {"POST", "DELETE", "open"}
  OBVIOUS
<1> QED  BY <1>1, QuietOne, Zenon DEF V!TabLink
LEMMA QuietAPILink == ASSUME NEW c, NEW t PROVE Quiet(V!APILink(c, t))
<1>1. "API" \notin {"POST", "DELETE", "open"}
  OBVIOUS
<1> QED  BY <1>1, QuietOne, Zenon DEF V!APILink

-----------------------------------------------------------------------------
(* What every page is wrapped in. *)

\* The sidebar is links.
LEMMA QuietSidebar == ASSUME NEW p PROVE Quiet(V!sidebar(p))
<1> DEFINE Hs == {"Dashboard", "TenantsList", "MachinesList", "ProvidersPage",
                              "SettingsIndexPage", "UsersPage", "APITokensPage",
                              "AuditPage", "BackupsPage"}
<1>1. \A s \in {V!Link(h, "") : h \in Hs} : Quiet(s)
  BY QuietLink, Zenon
<1> DEFINE Links == UNION {V!Link(h, "") : h \in Hs}
<1>2. Quiet(Links)
  BY <1>1, QuietUNION, Zenon
<1>3. Quiet(V!When(V!sidebarSection(p) # "", V!Cell("active", "", V!sidebarSection(p))))
  BY QuietWhen, QuietCell, Zenon
<1>4. V!sidebar(p) = Links \cup V!When(V!sidebarSection(p) # "", V!Cell("active", "", V!sidebarSection(p)))
  BY Zenon DEF V!sidebar
<1> HIDE DEF Links
<1> QED  BY <1>2, <1>3, <1>4, QuietUnion, Zenon

\* The breadcrumb is links.
LEMMA QuietBreadcrumb == ASSUME NEW items PROVE Quiet(V!breadcrumb(items))
<1>1. \A s \in {V!Link(items[i][1], items[i][2]) : i \in 1..(Len(items) - 1)} : Quiet(s)
  BY QuietLink, Zenon
<1>2. Quiet(UNION {V!Link(items[i][1], items[i][2]) : i \in 1..(Len(items) - 1)})
  BY <1>1, QuietUNION, Zenon
<1> QED  BY <1>2, QuietLink, QuietUnion, QuietWhen, Zenon DEF V!breadcrumb

\* A toast is a cell.
LEMMA QuietToast == ASSUME NEW d PROVE Quiet(V!toast(d))
BY QuietWhen, QuietCell, Zenon DEF V!toast

\* Promises of a union.
LEMMA GoodUnion == ASSUME NEW A, NEW B, Good(A), Good(B) PROVE Good(A \cup B)
BY DEF Good
LEMMA GoodUNION == ASSUME NEW S, \A s \in S : Good(s) PROVE Good(UNION S)
BY Zenon DEF Good
LEMMA GoodEmpty == Good({})
BY Zenon DEF Good

\* Elements behind a condition.
LEMMA GoodWhen == ASSUME NEW b, NEW A, b => Good(A) PROVE Good(V!When(b, A))
BY GoodEmpty, Zenon DEF V!When

\* The frame of a page adds links and cells.
LEMMA GoodBase == ASSUME NEW props, NEW S, Good(S) PROVE Good(V!Base(props, S))
<1> DEFINE A == V!sidebar(props.page)
           B == V!When(props.user # "", V!Cell("user", "", props.user) \cup V!Link("Logout", ""))
           C == V!breadcrumb(props.crumbs)
           D == V!toast(props.toast)
<1>1. Quiet(A)
  BY QuietSidebar, Zenon
<1>2. Quiet(B)
  BY QuietCell, QuietLink, QuietUnion, QuietWhen, Zenon
<1>3. Quiet(C)
  BY QuietBreadcrumb, Zenon
<1>4. Quiet(D)
  BY QuietToast, Zenon
<1>5. V!Base(props, S) = IF props.page = "login" THEN S ELSE A \cup B \cup C \cup D \cup S
  BY Zenon DEF V!Base
<1> HIDE DEF A, B, C, D
<1>6. Good(A \cup B \cup C \cup D \cup S)
  BY <1>1, <1>2, <1>3, <1>4, QuietUnion, QuietIsGood, GoodUnion
<1> QED  BY <1>5, <1>6, Zenon

-----------------------------------------------------------------------------
(* The pages without forms. *)

\* The table of clusters sends nothing.
LEMMA QuietTenantsList == ASSUME NEW data PROVE Quiet(V!TenantsList(data))
<1> DEFINE Row(t) == V!Link("TenantDetail", t.name)
                       \cup V!Cell("phase", t.name, V!phaseBadgeClass(t.phase))
                       \cup V!Cell("ready", t.name, <<t.ready, t.total>>)
<1>1. V!TenantsList(data) = V!Link("ClusterCreatePage", "") \cup UNION {Row(t) : t \in data.tenants}
  BY Zenon DEF V!TenantsList, V!Each
<1>2. ASSUME NEW t PROVE Quiet(Row(t))
  BY QuietLink, QuietCell, QuietUnion
<1> HIDE DEF Row
<1>3. Quiet(UNION {Row(t) : t \in data.tenants})
  BY <1>2, QuietUNION, Zenon
<1> QED  BY <1>1, <1>3, QuietUnion, QuietLink, ZenonT(60)

\* Nor do the sections the live update fetches.
LEMMA QuietMachinesPanel == ASSUME NEW data PROVE Quiet(V!MachinesPanel(data))
<1>1. ASSUME NEW m PROVE Quiet(V!machinePanelRow(m))
  BY QuietCell, Zenon DEF V!machinePanelRow
<1>2. Quiet(UNION {V!machinePanelRow(m) : m \in data.machines})
  BY <1>1, QuietUNION, Zenon
<1> QED  BY <1>2, QuietUnion, QuietCell, Zenon DEF V!MachinesPanel, V!Each

LEMMA QuietBanner == ASSUME NEW data PROVE Quiet(V!ReconciliationBanner(data))
BY QuietUnion, QuietCell, QuietWhen, Zenon DEF V!ReconciliationBanner

\* Nor does the table of machines.
LEMMA QuietMachinesList == ASSUME NEW data PROVE Quiet(V!MachinesList(data))
<1>1. ASSUME NEW m PROVE Quiet(V!fleetRow(m))
  <2>1. Quiet(V!ClusterLink(m.cluster))
    BY QuietTabLink, QuietCell, Zenon DEF V!ClusterLink
  <2> QED  BY <2>1, QuietLink, QuietCell, QuietUnion, Zenon DEF V!fleetRow
<1>2. Quiet(UNION {V!fleetRow(m) : m \in data.machines})
  BY <1>1, QuietUNION, Zenon
<1>3. Quiet(V!machinesFilters(data))
  BY QuietLink, QuietCell, QuietUnion, Zenon DEF V!machinesFilters
<1> QED  BY <1>2, <1>3, QuietUnion, Zenon DEF V!MachinesList, V!Each

\* Nor do the logs, the configuration and the monitor of a machine.
LEMMA QuietSubtitle == ASSUME NEW data PROVE Quiet(V!machineSubtitle(data))
BY QuietWhen, QuietTabLink, QuietLink, QuietUnion, Zenon DEF V!machineSubtitle

LEMMA QuietMachineLogs == ASSUME NEW data PROVE Quiet(V!MachineLogs(data))
<1>1. ASSUME NEW l PROVE Quiet(V!logRow(l))
  BY QuietCell, Zenon DEF V!logRow
<1>2. Quiet(UNION {V!logRow(l) : l \in data.lines})
  BY <1>1, QuietUNION, Zenon
<1>3. Quiet(V!When(data.cluster # "", V!APILink("LogsStream", data.id)))
  BY QuietWhen, QuietAPILink, Zenon
<1> DEFINE A == V!machineSubtitle(data)
           B == V!APILink("Logs", data.id)
           C == V!Link("MachineMonitor", data.id)
           D == V!logsControls
           E == V!When(data.cluster # "", V!APILink("LogsStream", data.id))
           F == UNION {V!logRow(l) : l \in data.lines}
<1>4. V!MachineLogs(data) = A \cup B \cup C \cup D \cup E \cup F
  BY Zenon DEF V!MachineLogs, V!Each, V!APILink
<1>5. Quiet(A) /\ Quiet(B) /\ Quiet(C) /\ Quiet(D) /\ Quiet(E) /\ Quiet(F)
  BY <1>2, <1>3, QuietSubtitle, QuietAPILink, QuietLink, QuietCell, Zenon DEF V!logsControls
<1> HIDE DEF A, B, C, D, E, F
<1> QED  BY <1>4, <1>5, QuietUnion

LEMMA QuietMachineConfig == ASSUME NEW data PROVE Quiet(V!MachineConfig(data))
BY QuietSubtitle, QuietAPILink, QuietCell, QuietUnion, Zenon DEF V!MachineConfig

LEMMA QuietMachineMonitor == ASSUME NEW data PROVE Quiet(V!MachineMonitor(data))
BY QuietSubtitle, QuietLink, QuietCell, QuietUnion, Zenon DEF V!MachineMonitor

\* Nor do the audit table, the providers and the settings.
LEMMA QuietAuditRows == ASSUME NEW S PROVE Quiet(UNION {V!auditRow(ev) : ev \in S})
<1>1. ASSUME NEW ev PROVE Quiet(V!auditRow(ev))
  BY QuietCell, Zenon DEF V!auditRow
<1> QED  BY <1>1, QuietUNION, Zenon

LEMMA QuietAuditPage == ASSUME NEW data PROVE Quiet(V!AuditPage(data))
<1>1. ASSUME NEW n PROVE Quiet(V!auditPageURL(n))
  <2>1. "GET" \notin {"POST", "DELETE", "open"}
    OBVIOUS
  <2> QED  BY <2>1, QuietOne, Zenon DEF V!auditPageURL
<1>2. Quiet(V!auditPager(data))
  BY <1>1, QuietWhen, QuietUnion, Zenon DEF V!auditPager
<1>3. Quiet(V!auditFilterForm(data))
  BY QuietLink, QuietCell, QuietUnion, Zenon DEF V!auditFilterForm
<1> DEFINE Rows == UNION {V!auditRow(ev) : ev \in data.events}
<1>4. V!AuditPage(data) = V!auditFilterForm(data)
                            \cup V!When(data.events # {}, Rows \cup V!auditPager(data))
  BY Zenon DEF V!AuditPage, V!Each
<1>5. Quiet(Rows)
  BY QuietAuditRows, Zenon
<1> HIDE DEF Rows
<1> QED  BY <1>2, <1>3, <1>4, <1>5, QuietWhen, QuietUnion, Zenon

LEMMA QuietProvidersPage == ASSUME NEW data PROVE Quiet(V!ProvidersPage(data))
<1>1. ASSUME NEW p PROVE Quiet(V!providerRow(p))
  BY QuietCell, QuietWhen, QuietUnion, Zenon DEF V!providerRow
<1>2. Quiet(UNION {V!providerRow(p) : p \in data.providers})
  BY <1>1, QuietUNION, Zenon
<1>3. Quiet(V!Cell("connected", "", V!countConnected(data.providers))
              \cup V!Cell("errors", "", V!countErrors(data.providers)))
  BY QuietCell, QuietUnion, Zenon
<1> QED  BY <1>2, <1>3, QuietWhen, QuietUnion, Zenon DEF V!ProvidersPage, V!Each

LEMMA QuietSettingsIndex == ASSUME NEW data PROVE Quiet(V!SettingsIndex(data))
<1> DEFINE Hs == {"UsersPage", "APITokensPage", "AuditPage", "BackupsPage", "ProvidersPage"}
<1>1. \A s \in {V!Link(h, "") : h \in Hs} : Quiet(s)
  BY QuietLink, Zenon
<1> DEFINE Links == UNION {V!Link(h, "") : h \in Hs}
<1>2. Quiet(Links)
  BY <1>1, QuietUNION, Zenon
<1>3. V!SettingsIndex(data) = Links \cup V!Cell("config", "", data.config)
  BY Zenon DEF V!SettingsIndex
<1> HIDE DEF Links
<1> QED  BY <1>2, <1>3, QuietCell, QuietUnion, Zenon

-----------------------------------------------------------------------------
(* The dashboard. *)

\* Nor does the dashboard.
LEMMA QuietBadge == ASSUME NEW name, NEW n PROVE Quiet(V!Badge(name, n))
BY QuietWhen, QuietCell, Zenon DEF V!Badge

LEMMA QuietGrid == ASSUME NEW p PROVE Quiet(V!postureGrid(p))
<1>1. ASSUME NEW q PROVE Quiet(V!clusterPostureCard(q))
  BY QuietLink, QuietCell, QuietBadge, QuietUnion DEF V!clusterPostureCard
<1>2. ASSUME NEW q PROVE Quiet(V!machinePostureCard(q))
  BY QuietLink, QuietCell, QuietBadge, QuietUnion DEF V!machinePostureCard
<1>3. ASSUME NEW q PROVE Quiet(V!providerPostureCard(q))
  BY QuietLink, QuietCell, QuietBadge, QuietUnion DEF V!providerPostureCard
<1>4. ASSUME NEW q PROVE Quiet(V!backupPostureCard(q))
  BY QuietLink, QuietCell, QuietBadge, QuietUnion DEF V!backupPostureCard
<1>5. ASSUME NEW q PROVE Quiet(V!upgradePostureBanner(q))
  BY QuietLink, QuietCell, QuietBadge, QuietUnion, QuietWhen, Zenon DEF V!upgradePostureBanner
<1> QED  BY <1>1, <1>2, <1>3, <1>4, <1>5, QuietUnion, Zenon DEF V!postureGrid

LEMMA QuietPressure == ASSUME NEW m PROVE Quiet(V!resourcePressure(m))
<1>1. ASSUME NEW what, NEW of, NEW pct PROVE Quiet(V!pressureBar(what, of, pct))
  BY QuietCell, Zenon DEF V!pressureBar
<1>2. ASSUME NEW n PROVE Quiet(V!nodePressureCard(n))
  <2> DEFINE Rs == {"CPU", "Mem", "Pods", "Disk"}
  <2>1. \A s \in {V!nodeBar(n.name, r, n.pct[r]) : r \in Rs} : Quiet(s)
    BY <1>1, Zenon DEF V!nodeBar
  <2>2. V!nodePressureCard(n) = V!Cell("node", n.name, V!nodeStatusClass(n.status))
                                  \cup UNION {V!nodeBar(n.name, r, n.pct[r]) : r \in Rs}
    BY Zenon DEF V!nodePressureCard
  <2> HIDE DEF Rs
  <2> QED  BY <2>1, <2>2, QuietUNION, QuietCell, QuietUnion, Zenon
<1>3. Quiet(UNION {V!nodePressureCard(n) : n \in m.nodes})
  BY <1>2, QuietUNION, Zenon
<1> DEFINE A == V!pressureTile(m.cpu[1], m.cpu[2])
           B == V!pressureTileBytes(m.mem[1], m.mem[2])
           C == V!pressureTilePods(m.pods[1], m.pods[2])
           D == V!pressureTileCount(V!Cardinality(m.nodes))
           E == UNION {V!nodePressureCard(n) : n \in m.nodes}
<1>4. V!resourcePressure(m) = A \cup B \cup C \cup D \cup E
  BY Zenon DEF V!resourcePressure, V!Each
<1>5. Quiet(A) /\ Quiet(B) /\ Quiet(C) /\ Quiet(D) /\ Quiet(E)
  BY <1>1, <1>3, QuietCell, Zenon
     DEF V!pressureTile, V!pressureTileBytes, V!pressureTilePods, V!pressureTileCount
<1> HIDE DEF A, B, C, D, E
<1> QED  BY <1>4, <1>5, QuietUnion

\* Its whole content.
LEMMA QuietDashboard == ASSUME NEW data PROVE Quiet(V!Dashboard(data))
<1>1. Quiet(UNION {V!resourcePressure(m) : m \in data.metrics})
  BY QuietPressure, QuietUNION, Zenon
<1> DEFINE Row(t) == V!TabLink(t.name, "overview")
                       \cup V!Cell("phase", t.name, V!phaseBadgeClass(t.phase))
                       \cup V!Cell("ready", t.name, <<t.ready, t.total>>)
<1>2. V!clustersTable(data) = UNION {Row(t) : t \in data.tenants}
  BY Zenon DEF V!clustersTable, V!Each
<1>3. ASSUME NEW t PROVE Quiet(Row(t))
  BY QuietTabLink, QuietCell, QuietUnion
<1> HIDE DEF Row
<1>4. Quiet(V!clustersTable(data))
  BY <1>2, <1>3, QuietUNION, Zenon
<1>5. Quiet(V!recentActivity(data))
  BY QuietAuditRows, QuietLink, QuietUnion, QuietWhen, Zenon DEF V!recentActivity, V!Each
<1> QED  BY <1>1, <1>4, <1>5, QuietGrid, QuietUnion, Zenon DEF V!Dashboard, V!Each

-----------------------------------------------------------------------------
(* The pages with forms. *)

\* Elements that send nothing beside ones that keep their promises.
LEMMA GoodQuiet == ASSUME NEW A, Quiet(A), NEW B, Good(B) PROVE Good(A \cup B)
BY QuietIsGood, GoodUnion, Zenon

\* One form.
LEMMA GoodOne ==
  ASSUME NEW a, NEW b, NEW c, NEW d, NEW f, a = "open" => CanMutate,
         a \in {"POST", "DELETE"} => Offered(b, c)
  PROVE  Good({<<a, b, c, d, f>>})
<1>1. \A e : e = <<a, b, c, d, f>> => e[1] = a /\ e[2] = b /\ e[3] = c
  BY Fields
<1> QED  BY <1>1, Zenon DEF Good, Accepted

\* A form whose promise holds, and a button that opens a dialog.
LEMMA GoodForm == ASSUME NEW h, NEW a, Offered(h, a) PROVE Good(V!Form(h, a))
<1>1. "POST" # "open"
  OBVIOUS
<1> QED  BY <1>1, GoodOne, Zenon DEF V!Form

LEMMA GoodOpener == ASSUME NEW d, NEW o, CanMutate PROVE Good(V!Opener(d, o))
<1>1. "open" \notin {"POST", "DELETE"}
  OBVIOUS
<1> QED  BY <1>1, GoodOne, Zenon DEF V!Opener

\* A dialog and the form in it.
LEMMA QuietDialog == ASSUME NEW d, NEW o PROVE Quiet({<<"dialog", d, o, "", "">>})
<1>1. "dialog" \notin {"POST", "DELETE", "open"}
  OBVIOUS
<1> QED  BY <1>1, QuietOne, Zenon

LEMMA GoodDialog ==
  ASSUME NEW d, NEW o, NEW m \in {"POST", "DELETE"}, NEW h, NEW a, Offered(h, a)
  PROVE  Good(V!Dialog(d, o, m, h, a))
<1>1. m # "open"
  OBVIOUS
<1>2. Good({<<m, h, a, d, o>>})
  BY <1>1, GoodOne, Zenon
<1>3. V!Dialog(d, o, m, h, a) = {<<"dialog", d, o, "", "">>} \cup {<<m, h, a, d, o>>}
  BY Zenon DEF V!Dialog
<1> QED  BY <1>2, <1>3, QuietDialog, GoodQuiet, Zenon

\* The scale dialog: on the page of every user, its form names a group.
LEMMA GoodScale ==
  ASSUME NEW c, NEW g \in db.groups, g.tenant = c PROVE Good(V!scaleNodeGroupModal(c, g))
<1>1. "POST" # "open"
  OBVIOUS
<1> DEFINE x == <<"POST", "NodeGroupScale", <<c, g.name>>, "scale", g.name>>
<1>2. x[1] = "POST" /\ x[2] = "NodeGroupScale" /\ x[3] = <<c, g.name>> /\ x[4] = "scale"
  BY Fields, Zenon
<1>3. V!scaleNodeGroupModal(c, g) = {<<"dialog", "scale", g.name, "", "">>} \cup {x}
  BY Zenon DEF V!Dialog, V!scaleNodeGroupModal
<1> HIDE DEF x
<1>4. Scales(x)
  BY <1>2, Zenon DEF Scales
<1>5. Good({x})
  BY <1>1, <1>2, <1>4, Zenon DEF Good, Accepted
<1> QED  BY <1>3, <1>5, QuietDialog, GoodQuiet, Zenon

\* The sign-in form and the form of a new cluster promise nothing.
LEMMA GoodLogin == ASSUME NEW data PROVE Good(V!Login(data))
<1>1. Good(V!Form("LoginSubmit", ""))
  BY GoodForm, Zenon DEF Offered
<1>2. Quiet(V!When(data.error # "", V!Cell("error", "", data.error)))
  BY QuietWhen, QuietCell, Zenon
<1>3. Quiet(V!When(data.oidc, V!Link("OIDCLogin", "")))
  BY QuietWhen, QuietLink, Zenon
<1> QED  BY <1>1, <1>2, <1>3, QuietIsGood, GoodUnion, Zenon DEF V!Login

LEMMA GoodClusterCreate == ASSUME NEW data PROVE Good(V!ClusterCreate(data))
<1> DEFINE A == V!When(data.formError # "", V!Cell("alert", "", data.formError))
           B == V!Cell(IF data.nameError # "" THEN "nameError" ELSE "nameHint", "", data.nameError)
           C == V!versionSelects(data)
           D == V!Form("ClusterCreateSubmit", "")
           E == V!Link("TenantsList", "")
<1>1. V!ClusterCreate(data) = A \cup B \cup C \cup D \cup E
  BY Zenon DEF V!ClusterCreate
<1>2. Good(D)
  BY GoodForm, Zenon DEF Offered
<1>3. Quiet(A) /\ Quiet(B) /\ Quiet(C) /\ Quiet(E)
  BY QuietWhen, QuietCell, QuietLink, QuietUnion, Zenon DEF V!versionSelects
<1> HIDE DEF A, B, C, D, E
<1> QED  BY <1>1, <1>2, <1>3, QuietIsGood, GoodUnion

\* The patch editor offers its forms to who can mutate, for a patch of the cluster.
LEMMA GoodPatchEdit ==
  ASSUME NEW data, data.canMutate => CanMutate, NEW p \in db.patches,
         <<data.cluster, data.name>> = <<p.tenant, p.name>>
  PROVE  Good(V!PatchEdit(data))
<1> DEFINE Hs == {"ClusterPatchSave", "ClusterPatchToggle", "ClusterPatchDelete"}
           arg == <<data.cluster, data.name>>
<1>1. ASSUME CanMutate, NEW h \in Hs PROVE Good(V!Form(h, arg))
  BY <1>1, GoodForm, Zenon DEF Offered
<1>2. V!PatchActions(data) = UNION {V!Form(h, arg) : h \in Hs}
  BY Zenon DEF V!PatchActions
<1> HIDE DEF Hs, arg
<1>3. CanMutate => Good(V!PatchActions(data))
  BY <1>1, <1>2, GoodUNION, Zenon
<1>4. Good(V!When(data.canMutate, V!PatchActions(data)))
  BY <1>3, GoodWhen, Zenon
<1> QED  BY <1>4, QuietTabLink, QuietCell, QuietIsGood, GoodUnion, Zenon DEF V!PatchEdit, V!patchFields

\* The link to a cluster.
LEMMA QuietClusterLink == ASSUME NEW c PROVE Quiet(V!ClusterLink(c))
BY QuietTabLink, QuietCell, Zenon DEF V!ClusterLink

\* A machine offers restart and shutdown to who can mutate.
LEMMA GoodMachineDetail ==
  ASSUME NEW data, data.canMutate => CanMutate, NEW m \in db.machines, data.id = m.name
  PROVE  Good(V!MachineDetail(data))
<1>1. Quiet(V!machineHeader(data))
  BY QuietClusterLink, QuietCell, QuietUnion, Zenon DEF V!machineHeader
<1>2. Good(V!machineButtons(data))
  BY GoodOpener, GoodUnion, GoodWhen, QuietLink, QuietIsGood, Zenon DEF V!machineButtons
<1>3. Quiet(V!machineDetails(data))
  BY QuietWhen, QuietCell, QuietUnion, Zenon DEF V!machineDetails
<1>4. Quiet(V!machineNetwork(data))
  BY QuietWhen, QuietCell, Zenon DEF V!machineNetwork
<1> DEFINE A == V!machineActionConfirm("restart-machine", "MachineRestart", data.id)
           B == V!machineActionConfirm("shutdown-machine", "MachineShutdown", data.id)
<1>5. CanMutate => Good(A) /\ Good(B)
  <2>1. CanMutate => Offered("MachineRestart", data.id) /\ Offered("MachineShutdown", data.id)
    BY Zenon DEF Offered
  <2> QED  BY <2>1, GoodDialog, Zenon DEF V!machineActionConfirm
<1>6. V!MachineDetail(data) = V!machineHeader(data) \cup V!machineButtons(data)
        \cup V!machineDetails(data) \cup V!machineNetwork(data) \cup V!When(data.canMutate, A \cup B)
  BY Zenon DEF V!MachineDetail
<1> HIDE DEF A, B
<1>7. Good(V!When(data.canMutate, A \cup B))
  BY <1>5, GoodUnion, GoodWhen, Zenon
<1> QED  BY <1>1, <1>2, <1>3, <1>4, <1>6, <1>7, QuietIsGood, GoodUnion

\* The kernel-args editor.
LEMMA GoodKernelArgs ==
  ASSUME NEW data, data.canMutate => CanMutate, NEW m \in db.machines, data.id = m.name
  PROVE  Good(V!KernelArgs(data))
<1>1. CanMutate => Good(V!Form("MachineKernelArgsSave", data.id))
  BY GoodForm, Zenon DEF Offered
<1>2. Quiet(V!When(data.existing # "", V!Cell("args", data.id, data.existing)))
  BY QuietWhen, QuietCell, Zenon
<1>3. Good(V!kernelArgsForm(data))
  BY <1>1, <1>2, QuietIsGood, Zenon DEF V!kernelArgsForm
<1> QED  BY <1>3, QuietSubtitle, GoodQuiet, Zenon DEF V!KernelArgs

\* The backups page.
LEMMA GoodBackupsPage ==
  ASSUME NEW data, data.canMutate => CanMutate PROVE Good(V!BackupsPage(data))
<1> DEFINE Hs == {"BackupsRunDatabase", "BackupsRunResources", "BackupsPolicySave", "BackupsRestore"}
           Links == UNION {V!Form(h, "") : h \in Hs}
<1>1. ASSUME CanMutate, NEW h \in Hs PROVE Good(V!Form(h, ""))
  BY <1>1, GoodForm, Zenon DEF Offered
<1>2. V!backupForms(data) = V!When(data.canMutate, Links)
  BY Zenon DEF V!backupForms
<1> HIDE DEF Hs
<1>3. CanMutate => Good(Links)
  BY <1>1, GoodUNION, Zenon
<1> HIDE DEF Links
<1>4. Good(V!backupForms(data))
  BY <1>2, <1>3, GoodWhen, Zenon
<1>5. ASSUME NEW s PROVE Quiet(V!snapshotRow(s))
  BY QuietWhen, QuietCell, QuietUnion, Zenon DEF V!snapshotRow
<1> DEFINE Rows == UNION {V!snapshotRow(s) : s \in data.snapshots}
           A == V!Cell("lastSuccess", "", data.lastSuccess)
           B == V!Cell("failures", "", data.failures)
           C == V!Cell("retention", "", data.retention)
<1>6. Quiet(Rows) /\ Quiet(A) /\ Quiet(B) /\ Quiet(C)
  BY <1>5, QuietUNION, QuietCell, Zenon
<1>7. V!BackupsPage(data) = A \cup B \cup C \cup V!backupForms(data) \cup Rows
  BY Zenon DEF V!BackupsPage, V!Each
<1> HIDE DEF Rows, A, B, C
<1> QED  BY <1>4, <1>6, <1>7, QuietIsGood, GoodUnion

\* The users page is for administrators.
LEMMA GoodUsersPage ==
  ASSUME NEW data, data.canMutate => IsAdmin PROVE Good(V!UsersPage(data))
<1>1. IsAdmin => CanMutate
  BY Zenon DEF IsAdmin, CanMutate
<1>2. ASSUME IsAdmin, NEW a PROVE Offered("UserCreate", a) /\ Offered("UserUpdate", a) /\ Offered("UserDelete", a)
  BY <1>2, Zenon DEF Offered
<1>3. IsAdmin => Good(V!createUserModal)
  BY <1>2, GoodDialog, Zenon DEF V!createUserModal
<1>4. ASSUME NEW u PROVE Good(V!userRow(data, u))
  <2>1. IsAdmin => Good(V!editUserModal(u))
    BY <1>2, GoodDialog, Zenon DEF V!editUserModal
  <2>2. IsAdmin => Good(V!deleteUserForm(u.name))
    BY <1>2, GoodForm, Zenon DEF V!deleteUserForm
  <2>3. IsAdmin => Good(V!Opener("edit-user", u.name))
    BY <1>1, GoodOpener, Zenon
  <2>4. Good(V!When(data.canMutate, V!Opener("edit-user", u.name) \cup V!deleteUserForm(u.name)
                                      \cup V!editUserModal(u)))
    BY <2>1, <2>2, <2>3, GoodUnion, GoodWhen, Zenon
  <2> QED  BY <2>4, QuietCell, GoodQuiet, Zenon DEF V!userRow
<1> DEFINE Rows == UNION {V!userRow(data, u) : u \in data.users}
           A == V!When(data.canMutate, V!Opener("create-user", "") \cup V!createUserModal)
<1>5. Good(Rows)
  BY <1>4, GoodUNION, Zenon
<1>6. Good(A)
  BY <1>1, <1>3, GoodOpener, GoodUnion, GoodWhen, Zenon
<1>7. V!UsersPage(data) = A \cup Rows
  BY Zenon DEF V!UsersPage, V!Each
<1> HIDE DEF Rows, A
<1> QED  BY <1>5, <1>6, <1>7, GoodUnion, Zenon

\* The tokens page: a form for the own user.
LEMMA GoodAPITokensPage ==
  ASSUME NEW data, data.canMutate => CanMutate, data.user = session.user
  PROVE  Good(V!APITokensPage(data))
<1>1. CanMutate => Good(V!createAPITokenModal(data))
  <2>1. CanMutate => Offered("APITokenCreate", data.user)
    BY Zenon DEF Offered
  <2> QED  BY <2>1, GoodDialog, Zenon DEF V!createAPITokenModal
<1>2. ASSUME NEW t PROVE Good(V!tokenRow(t))
  <2>1. Good(V!revokeAPITokenForm(t.id))
    BY GoodForm, Zenon DEF Offered, V!revokeAPITokenForm
  <2> QED  BY <2>1, QuietCell, GoodQuiet, Zenon DEF V!tokenRow
<1> DEFINE Rows == UNION {V!tokenRow(t) : t \in data.tokens}
           A == V!When(data.canMutate, V!Opener("create-api-token", "") \cup V!createAPITokenModal(data))
           B == V!When(data.newToken # "", V!apiTokenReveal(data))
<1>3. Good(Rows)
  BY <1>2, GoodUNION, Zenon
<1>4. Good(A)
  BY <1>1, GoodOpener, GoodUnion, GoodWhen, Zenon
<1>5. Quiet(B)
  BY QuietCell, QuietWhen, Zenon DEF V!apiTokenReveal
<1>6. V!APITokensPage(data) = A \cup B \cup Rows
  BY Zenon DEF V!APITokensPage, V!Each
<1> HIDE DEF Rows, A, B
<1> QED  BY <1>3, <1>4, <1>5, <1>6, QuietIsGood, GoodUnion

-----------------------------------------------------------------------------
(* The page of a cluster. *)

\* The overview tab of a cluster.
LEMMA GoodOverview ==
  ASSUME NEW data, data.canMutate => CanMutate PROVE Good(V!clusterOverview(data))
<1>1. ASSUME NEW ng PROVE Good(V!groupRow(data, ng))
  <2>1. Good(V!When(data.canMutate, V!Opener("scale", ng.name)))
    BY GoodOpener, GoodWhen, Zenon
  <2> QED  BY <2>1, QuietCell, GoodQuiet, Zenon DEF V!groupRow
<1>2. ASSUME NEW p PROVE Quiet(V!overviewPatchRow(p))
  BY QuietCell, Zenon DEF V!overviewPatchRow
<1> DEFINE A == UNION {V!groupRow(data, ng) : ng \in data.groups}
           B == V!When(data.canMutate, V!addNodeGroupForm(data))
           C == V!When(data.machines # {}, V!MachinesPanel(data))
           D == UNION {V!overviewPatchRow(p) : p \in data.patches}
           E == V!liveUpdateScript(data)
<1>3. V!clusterOverview(data) = A \cup B \cup C \cup D \cup E
  BY Zenon DEF V!clusterOverview, V!Each
<1>4. Good(A)
  BY <1>1, GoodUNION, Zenon
<1>5. Good(B)
  <2>1. CanMutate => Offered("NodeGroupCreate", data.name)
    BY Zenon DEF Offered
  <2> QED  BY <2>1, GoodForm, GoodWhen, Zenon DEF V!addNodeGroupForm
<1>6. Quiet(C) /\ Quiet(D) /\ Quiet(E)
  BY <1>2, QuietUNION, QuietMachinesPanel, QuietWhen, QuietCell, Zenon DEF V!liveUpdateScript
<1> HIDE DEF A, B, C, D, E
<1> QED  BY <1>3, <1>4, <1>5, <1>6, QuietIsGood, GoodUnion

\* The upgrade tab.
LEMMA GoodUpgradeTab ==
  ASSUME NEW data, data.canMutate => CanMutate PROVE Good(V!clusterUpgradeTab(data))
<1>1. ASSUME NEW a PROVE CanMutate => Offered("ClusterUpgradeStart", a) /\ Offered("ClusterUpgradeCancel", a)
  BY Zenon DEF Offered
<1>2. Good(V!upgradeForm(data))
  BY <1>1, GoodForm, GoodWhen, Zenon DEF V!upgradeForm
<1>3. ASSUME NEW r PROVE Good(V!runRow(data, r))
  <2> DEFINE A == V!Cell("run", r.id, V!phaseBadgeClass(r.phase))
             b == r.phase = "upgrading" /\ data.canMutate
             f == V!Form("ClusterUpgradeCancel", <<data.name, r.id>>)
             C == V!When(r.error # "", V!Cell("runError", r.id, r.error))
  <2>1. V!runRow(data, r) = A \cup V!When(b, f) \cup C
    BY Zenon DEF V!runRow
  <2>2. Quiet(A) /\ Quiet(C)
    BY QuietCell, QuietWhen, Zenon
  <2>3. b => Good(f)
    BY <1>1, GoodForm, Zenon
  <2> HIDE DEF A, b, f, C
  <2>4. Good(V!When(b, f))
    BY <2>3, GoodWhen, Zenon
  <2> QED  BY <2>1, <2>2, <2>4, QuietIsGood, GoodUnion
<1> DEFINE Rows == UNION {V!runRow(data, r) : r \in data.runs}
<1>4. Good(Rows)
  BY <1>3, GoodUNION, Zenon
<1>5. V!clusterUpgradeTab(data) = V!upgradeForm(data) \cup Rows
  BY Zenon DEF V!clusterUpgradeTab, V!Each
<1> HIDE DEF Rows
<1> QED  BY <1>2, <1>4, <1>5, GoodUnion, Zenon

\* The patches tab.
LEMMA GoodPatchesTab ==
  ASSUME NEW data, data.canMutate => CanMutate PROVE Good(V!clusterPatchesTab(data))
<1>1. ASSUME NEW p PROVE Quiet(V!patchRow(data, p))
  BY QuietLink, QuietCell, QuietUnion, Zenon DEF V!patchRow
<1> DEFINE A == V!When(data.canMutate, V!Opener("create-patch", data.name))
           B == UNION {V!patchRow(data, p) : p \in data.patches}
           C == V!patchPreview(data)
           D == V!When(data.canMutate, V!createPatchModal(data.name))
<1>2. V!clusterPatchesTab(data) = A \cup B \cup C \cup D
  BY Zenon DEF V!clusterPatchesTab, V!Each
<1>3. Good(A)
  BY GoodOpener, GoodWhen, Zenon
<1>4. Quiet(B)
  BY <1>1, QuietUNION, Zenon
<1>5. Quiet(C)
  <2>1. V!patchPreview(data) = V!TabLink(data.name, "patches") \cup V!Cell("preview", data.previewRole, data.preview)
    BY Zenon DEF V!patchPreview, V!TabLink
  <2> QED  BY <2>1, QuietTabLink, QuietCell, QuietUnion, Zenon
<1>6. Good(D)
  <2>1. CanMutate => Offered("ClusterPatchCreate", data.name)
    BY Zenon DEF Offered
  <2> QED  BY <2>1, GoodDialog, GoodWhen, Zenon DEF V!createPatchModal
<1> HIDE DEF A, B, C, D
<1> QED  BY <1>2, <1>3, <1>4, <1>5, <1>6, QuietIsGood, GoodUnion

\* The tabs together.
LEMMA GoodTabs ==
  ASSUME NEW data, data.canMutate => CanMutate PROVE Good(V!clusterTabs(data))
<1>1. Good(V!clusterSettings(data))
  <2>1. Good(V!When(data.canMutate, V!Opener("delete", data.name)))
    BY GoodOpener, GoodWhen, Zenon
  <2> QED  BY <2>1, QuietCell, GoodQuiet, Zenon DEF V!clusterSettings
<1>2. Good(V!stubTab("Backups"))
  BY QuietCell, QuietIsGood, Zenon DEF V!stubTab
<1>3. Quiet(V!tabItemsFor(data.name, data.tab))
  <2> DEFINE Tabs == UNION {V!TabLink(data.name, t) : t \in V!TabNames}
  <2>1. V!tabItemsFor(data.name, data.tab) = V!Cell("tab", data.name, V!ActiveTab(data.tab)) \cup Tabs
    BY Zenon DEF V!tabItemsFor
  <2>2. ASSUME NEW t PROVE Quiet(V!TabLink(data.name, t))
    BY QuietTabLink, Zenon
  <2>3. Quiet(Tabs)
    BY <2>2, QuietUNION, Zenon
  <2> HIDE DEF Tabs
  <2> QED  BY <2>1, <2>3, QuietCell, QuietUnion, Zenon
<1> DEFINE body == CASE data.tab = "settings" -> V!clusterSettings(data)
                     [] data.tab = "patches" -> V!clusterPatchesTab(data)
                     [] data.tab = "backups" -> V!stubTab("Backups")
                     [] data.tab = "upgrade" -> V!clusterUpgradeTab(data)
                     [] OTHER -> V!clusterOverview(data)
<1>4. body \in {V!clusterSettings(data), V!clusterPatchesTab(data), V!stubTab("Backups"),
                V!clusterUpgradeTab(data), V!clusterOverview(data)}
  OBVIOUS
<1>5. V!clusterTabs(data) = V!tabItemsFor(data.name, data.tab) \cup body
  BY Zenon DEF V!clusterTabs
<1> HIDE DEF body
<1>6. Good(body)
  BY <1>1, <1>2, <1>4, GoodPatchesTab, GoodUpgradeTab, GoodOverview, Zenon
<1> QED  BY <1>3, <1>5, <1>6, GoodQuiet, Zenon

\* The page of a cluster.
LEMMA GoodTenantDetail ==
  ASSUME NEW data, data.canMutate => CanMutate,
         \A g \in data.groups : g \in db.groups /\ g.tenant = data.name
  PROVE  Good(V!TenantDetail(data))
<1> DEFINE A == V!Cell("phase", data.name, V!phaseBadgeClass(data.phase))
           B == V!Link("ClusterKubeconfig", data.name)
           C == V!Link("ClusterTalosconfig", data.name)
           D == V!clusterTabs(data)
           E == V!When(data.reconcile # "", V!ReconciliationBanner(data))
           F == UNION {V!scaleNodeGroupModal(data.name, ng) : ng \in data.groups}
           G == V!When(data.canMutate, V!deleteClusterModal(data.name))
<1>1. V!TenantDetail(data) = A \cup B \cup C \cup D \cup E \cup F \cup G
  BY Zenon DEF V!TenantDetail, V!Each
<1>2. Quiet(A) /\ Quiet(B) /\ Quiet(C) /\ Quiet(E)
  BY QuietCell, QuietLink, QuietBanner, QuietWhen, Zenon
<1>3. Good(D)
  BY GoodTabs, Zenon
<1>4. Good(F)
  <2>1. ASSUME NEW ng \in data.groups PROVE Good(V!scaleNodeGroupModal(data.name, ng))
    BY GoodScale, Zenon
  <2> QED  BY <2>1, GoodUNION, Zenon
<1>5. Good(G)
  <2>1. CanMutate => Offered("ClusterDelete", data.name)
    BY Zenon DEF Offered
  <2> QED  BY <2>1, GoodDialog, GoodWhen, Zenon DEF V!deleteClusterModal
<1> HIDE DEF A, B, C, D, E, F, G
<1> QED  BY <1>1, <1>2, <1>3, <1>4, <1>5, QuietIsGood, GoodUnion

-----------------------------------------------------------------------------
(* What the handlers of the pages answer. *)

\* A page other than the dashboard whose forms are all acceptable.
Fine(r) == Good(r.content) /\ r.page # "dashboard"

\* The fields of an answer.
LEMMA PageFields ==
  ASSUME NEW p, NEW c, NEW b, NEW S
  PROVE  Page(p, c, b, S).page = p /\ Page(p, c, b, S).content = S
BY Zenon DEF Page

\* A page is fine when its content is.
LEMMA FinePage ==
  ASSUME NEW p, NEW c, NEW b, NEW S, p # "dashboard", Good(S) PROVE Fine(Page(p, c, b, S))
BY Zenon DEF Fine, Page

\* An answer without a page has no forms.
LEMMA FineStatus == ASSUME NEW code PROVE Fine(Status(code))
<1>1. Status(code).page = "" /\ Status(code).content = {}
  BY Zenon DEF Status
<1>2. "" # "dashboard"
  BY Zenon
<1> QED  BY <1>1, <1>2, GoodEmpty, Zenon DEF Fine

\* Either of two answers.
LEMMA FineEither == ASSUME NEW b, NEW r, NEW q, Fine(r), Fine(q) PROVE Fine(IF b THEN r ELSE q)
BY Zenon

\* A row that is there is found under its name.
LEMMA NowIn ==
  ASSUME NEW rows, NEW name, Has(rows, name) PROVE Now(rows, name) \in rows /\ Now(rows, name).name = name
BY Zenon DEF Has, Now, Named

\* The sign-in page, with or without an error.
LEMMA FineLogin == ASSUME NEW e PROVE Fine(LoginForm(e))
<1>1. "login" # "dashboard"
  BY Zenon
<1> QED  BY <1>1, FinePage, GoodLogin, Zenon DEF LoginForm

LEMMA FineLoginPage == Fine(LoginPage)
BY FineLogin, Zenon DEF LoginPage

\* handlers/clusters: the pages and partials of the clusters.
LEMMA FineTenantsList == Fine(TenantsList)
<1>1. "clusters" # "dashboard"
  BY Zenon
<1> QED  BY <1>1, FinePage, QuietTenantsList, QuietIsGood, Zenon DEF TenantsList

LEMMA GoodClusterForm == ASSUME NEW a, NEW b, NEW c PROVE Good(ClusterForm(a, b, c))
BY GoodClusterCreate, Zenon DEF ClusterForm
LEMMA FineClusterCreate == Fine(ClusterCreatePage)
<1>1. "clusters" # "dashboard"
  BY Zenon
<1> QED  BY <1>1, FinePage, GoodClusterForm, Zenon DEF ClusterCreatePage

\* What the page of a cluster is given.
LEMMA DetailData ==
  ASSUME NEW c, NEW part
  PROVE  /\ tenantDetailData(c, part).canMutate = CanMutate
         /\ tenantDetailData(c, part).groups = ListTypedByTenant(db.groups, c)
         /\ tenantDetailData(c, part).name = c
BY Zenon DEF tenantDetailData

\* The page of a cluster.
LEMMA FineTenantDetail == ASSUME NEW c, NEW part PROVE Fine(TenantDetail(c, part))
<1>1. "cluster" # "dashboard"
  BY Zenon
<1>2. \A g \in ListTypedByTenant(db.groups, c) : g \in db.groups /\ g.tenant = c
  BY Zenon DEF ListTypedByTenant
<1>3. Good(V!TenantDetail(tenantDetailData(c, part)))
  BY <1>2, DetailData, GoodTenantDetail, Zenon
<1> QED  BY <1>1, <1>3, FinePage, FineStatus, Zenon DEF TenantDetail

\* The sections alone, and the downloads.
LEMMA FineReconcilePartial == ASSUME NEW c PROVE Fine(renderReconcilePartial(c))
<1>1. "partial" # "dashboard"
  BY Zenon
<1> QED  BY <1>1, FinePage, FineStatus, QuietBanner, QuietIsGood, Zenon DEF renderReconcilePartial
LEMMA FineMachinesPartial == ASSUME NEW c PROVE Fine(renderMachinesPartial(c))
<1>1. "partial" # "dashboard"
  BY Zenon
<1> QED  BY <1>1, FinePage, FineStatus, QuietMachinesPanel, QuietIsGood, Zenon DEF renderMachinesPartial
LEMMA FineDownload == ASSUME NEW c PROVE Fine(credentialDownload(c))
BY FineStatus, Zenon DEF credentialDownload

\* A patch of the cluster.
LEMMA PatchOfFacts ==
  ASSUME NEW c, NEW name, PatchOf(c, name) # {}
  PROVE  \E p \in db.patches : p.name = name /\ p.tenant = c
BY Zenon DEF PatchOf, Named

\* The patch editor and the preview.
LEMMA FinePatchEdit == ASSUME NEW c, NEW name PROVE Fine(ClusterPatchEditPage(c, name))
<1>1. "cluster" # "dashboard"
  BY Zenon
<1>2. ASSUME PatchOf(c, name) # {}, NEW data, data.cluster = c, data.name = name, data.canMutate = CanMutate
      PROVE  Good(V!PatchEdit(data))
  <2>1. PICK p \in db.patches : p.name = name /\ p.tenant = c
    BY <1>2, PatchOfFacts, Zenon
  <2>2. <<data.cluster, data.name>> = <<p.tenant, p.name>>
    BY <1>2, <2>1, Zenon
  <2> QED  BY <1>2, <2>2, GoodPatchEdit, Zenon
<1>3. CASE PatchOf(c, name) = {}
  BY <1>3, FineStatus, Zenon DEF ClusterPatchEditPage
<1>4. CASE PatchOf(c, name) # {}
  <2> DEFINE p == Now(db.patches, name)
             data == [cluster |-> c, name |-> name, scope |-> effectiveScope(p.scope),
                      machine |-> p.machine, role |-> IF p.role = "" THEN "all" ELSE p.role,
                      enabled |-> p.enabled, canMutate |-> CanMutate]
  <2>1. data.cluster = c /\ data.name = name /\ data.canMutate = CanMutate
    BY Zenon
  <2>2. ClusterPatchEditPage(c, name)
          = Page("cluster", <<<<"TenantsList", "">>, <<"TenantDetail", c>>, <<"", "">>>>, TRUE, V!PatchEdit(data))
    BY <1>4, Zenon DEF ClusterPatchEditPage
  <2> HIDE DEF data
  <2>3. Good(V!PatchEdit(data))
    BY <1>2, <1>4, <2>1, Zenon
  <2> QED  BY <1>1, <2>2, <2>3, FinePage, Zenon
<1> QED  BY <1>3, <1>4

LEMMA FinePreview == ASSUME NEW c PROVE Fine(ClusterPatchesPreview(c))
<1>1. "partial" # "dashboard"
  BY Zenon
<1> QED  BY <1>1, FinePage, QuietCell, QuietIsGood, Zenon DEF ClusterPatchesPreview

\* handlers/machines: the lists.
LEMMA FineMachineList ==
  ASSUME NEW crumbs, NEW rows, NEW c, NEW s PROVE Fine(machineList(crumbs, rows, c, s))
<1>1. "machines" # "dashboard"
  BY Zenon
<1> QED  BY <1>1, FinePage, QuietMachinesList, QuietIsGood, Zenon DEF machineList
LEMMA FineMachinesList == ASSUME NEW c, NEW s PROVE Fine(MachinesList(c, s))
BY FineMachineList, Zenon DEF MachinesList
LEMMA FineMachinesPending == Fine(MachinesPending)
BY FineMachineList, Zenon DEF MachinesPending

\* The pages of one machine: 404 without its row.
LEMMA FineMachine ==
  ASSUME NEW id, NEW crumbs, NEW S, Has(db.machines, id) => Good(S)
  PROVE  Fine(IF ~Has(db.machines, id) THEN Status(404) ELSE Page("machine", crumbs, FALSE, S))
<1>1. "machine" # "dashboard"
  BY Zenon
<1> QED  BY <1>1, FinePage, FineStatus, Zenon

LEMMA FineMachineDetail == ASSUME NEW id PROVE Fine(MachineDetail(id))
<1> DEFINE m == Now(db.machines, id)
           data == [id |-> id, cluster |-> m.tenant, role |-> m.role, stage |-> m.stage,
                    connected |-> m.connected, schematic |-> "", hardware |-> {},
                    addresses |-> {}, canMutate |-> CanMutate]
           crumbs == <<<<"MachinesList", "">>, <<"", "">>>>
<1>1. data.id = id /\ data.canMutate = CanMutate
  BY Zenon
<1>2. MachineDetail(id) = IF ~Has(db.machines, id) THEN Status(404)
                          ELSE Page("machine", crumbs, FALSE, V!MachineDetail(data))
  BY Zenon DEF MachineDetail, MachinePage
<1> HIDE DEF data, crumbs
<1>3. Has(db.machines, id) => Good(V!MachineDetail(data))
  BY <1>1, NowIn, GoodMachineDetail, Zenon
<1> QED  BY <1>2, <1>3, FineMachine, ZenonT(60)

LEMMA FineKernelArgs == ASSUME NEW id PROVE Fine(MachineKernelArgs(id))
<1> DEFINE m == Now(db.machines, id)
           data == [id |-> id, cluster |-> m.tenant, canMutate |-> CanMutate,
                    existing |-> IF findKernelArgsPatch(m.tenant) = {} THEN ""
                                 ELSE (CHOOSE p \in findKernelArgsPatch(m.tenant) : TRUE).body]
<1>1. data.id = id /\ data.canMutate = CanMutate
  BY Zenon
<1>2. MachineKernelArgs(id) = IF ~Has(db.machines, id) THEN Status(404)
                              ELSE Page("machine", Below(id), FALSE, V!KernelArgs(data))
  BY Zenon DEF MachineKernelArgs, MachinePage
<1> HIDE DEF data
<1>3. Has(db.machines, id) => Good(V!KernelArgs(data))
  BY <1>1, NowIn, GoodKernelArgs, Zenon
<1> QED  BY <1>2, <1>3, FineMachine, ZenonT(60)

LEMMA FineMachineLogs == ASSUME NEW id PROVE Fine(MachineLogs(id))
BY FineMachine, QuietMachineLogs, QuietIsGood, Zenon DEF MachineLogs, MachinePage
LEMMA FineMachineMonitor == ASSUME NEW id PROVE Fine(MachineMonitor(id))
BY FineMachine, QuietMachineMonitor, QuietIsGood, Zenon DEF MachineMonitor, MachinePage
LEMMA FineMachineConfig == ASSUME NEW id PROVE Fine(MachineConfig(id))
<1> DEFINE m == Now(db.machines, id)
           data == [id |-> id, cluster |-> m.tenant, config |-> GenerateMachineConfig(db, m.tenant, id)]
           q == IF ~Has(db.machines, id) THEN Status(404)
                ELSE Page("machine", Below(id), FALSE, V!MachineConfig(data))
<1>1. MachineConfig(id) = q \/ MachineConfig(id) = Status(500)
  BY Zenon DEF MachineConfig, MachinePage
<1>2. Fine(q)
  BY FineMachine, QuietMachineConfig, QuietIsGood, Zenon
<1> HIDE DEF q
<1> QED  BY <1>1, <1>2, FineStatus, ZenonT(60)

\* handlers/settings.
LEMMA FineSettings == Fine(SettingsIndexPage)
<1>1. "settings" # "dashboard"
  BY Zenon
<1> QED  BY <1>1, FinePage, QuietSettingsIndex, QuietIsGood, Zenon DEF SettingsIndexPage
LEMMA FineAudit == ASSUME NEW n PROVE Fine(AuditPage(n))
<1>1. "audit" # "dashboard"
  BY Zenon
<1> QED  BY <1>1, FinePage, QuietAuditPage, QuietIsGood, Zenon DEF AuditPage
LEMMA FineProviders == Fine(ProvidersPage)
<1>1. "providers" # "dashboard"
  BY Zenon
<1> QED  BY <1>1, FinePage, QuietProvidersPage, QuietIsGood, Zenon DEF ProvidersPage

LEMMA FineBackups == Fine(BackupsPage)
<1> DEFINE p == backupPosture(db.snaps)
           data == [snapshots |-> {[id |-> db.snaps[i].name, status |-> db.snaps[i].status,
                                    error |-> ""] : i \in DOMAIN db.snaps},
                    retention |-> db.retention, lastSuccess |-> p.lastSuccess,
                    failures |-> p.failures, canMutate |-> CanMutate]
<1>1. data.canMutate = CanMutate
  BY Zenon
<1>2. BackupsPage = Page("settings-backups", InSettings, TRUE, V!BackupsPage(data))
  BY Zenon DEF BackupsPage
<1> HIDE DEF data
<1>3. "settings-backups" # "dashboard"
  BY Zenon
<1> QED  BY <1>1, <1>2, <1>3, FinePage, GoodBackupsPage, Zenon

LEMMA FineUsers == Fine(UsersPage)
<1> DEFINE data == [users |-> {[name |-> u, role |-> db.users[u]] : u \in DOMAIN db.users},
                    canMutate |-> IsAdmin]
<1>1. data.canMutate = IsAdmin
  BY Zenon
<1>2. UsersPage = Page("users", InSettings, TRUE, V!UsersPage(data))
  BY Zenon DEF UsersPage
<1> HIDE DEF data
<1>3. "users" # "dashboard"
  BY Zenon
<1> QED  BY <1>1, <1>2, <1>3, FinePage, GoodUsersPage, Zenon

LEMMA FineTokens == Fine(APITokensPage)
<1> DEFINE data == [tokens |-> {[id |-> t.name, status |-> "active"] :
                                  t \in {k \in db.tokens : IsAdmin \/ k.owner = session.user}},
                    canMutate |-> CanMutate, user |-> session.user, newToken |-> reveal]
<1>1. data.canMutate = CanMutate /\ data.user = session.user
  BY Zenon
<1>2. APITokensPage = Page("api-tokens", InSettings, TRUE, V!APITokensPage(data))
  BY Zenon DEF APITokensPage
<1> HIDE DEF data
<1>3. "api-tokens" # "dashboard"
  BY Zenon
<1> QED  BY <1>1, <1>2, <1>3, FinePage, GoodAPITokensPage, Zenon

\* The dashboard.
LEMMA GoodDashboard == Good(Dashboard.content) /\ Dashboard.page = "dashboard"
BY QuietDashboard, QuietIsGood, Zenon DEF Dashboard, Page

\* Every page but the dashboard is fine.
LEMMA FineSettingsRoutes == ASSUME NEW h, NEW a, NEW p PROVE Fine(settingsRoutes(h, a, p))
<1> DEFINE r == settingsRoutes(h, a, p)
           n == IF a = "page" THEN p ELSE 0
<1>1. \/ r = SettingsIndexPage \/ r = BackupsPage \/ r = UsersPage \/ r = APITokensPage
      \/ r = AuditPage(n) \/ r = ProvidersPage \/ r = Status(404)
  BY ZenonT(60) DEF settingsRoutes
<1> HIDE DEF r, n
<1>2. Fine(r)
  BY <1>1, FineSettings, FineBackups, FineUsers, FineTokens, FineAudit, FineProviders, FineStatus, ZenonT(60)
<1> QED  BY <1>2 DEF r

\* The routes, section by section.
LEMMA FineMachinesRoutes == ASSUME NEW h, NEW a, NEW p PROVE Fine(machinesRoutes(h, a, p))
<1> DEFINE r == machinesRoutes(h, a, p)
<1>1. \/ r = MachinesList(a, p) \/ r = MachinesPending \/ r = MachineDetail(a) \/ r = MachineLogs(a)
      \/ r = MachineMonitor(a) \/ r = MachineConfig(a) \/ r = MachineKernelArgs(a)
      \/ r = Status(200) \/ r = settingsRoutes(h, a, p)
  BY Zenon DEF machinesRoutes
<1> HIDE DEF r
<1>2. Fine(r)
  BY <1>1, FineMachinesList, FineMachinesPending, FineMachineDetail, FineMachineLogs,
     FineMachineMonitor, FineMachineConfig, FineKernelArgs, FineStatus, FineSettingsRoutes, Zenon
<1> QED  BY <1>2 DEF r
LEMMA FineClustersRoutes == ASSUME NEW h, NEW a, NEW p PROVE Fine(clustersRoutes(h, a, p))
<1> DEFINE r == clustersRoutes(h, a, p)
<1>1. \/ r = TenantsList \/ r = ClusterCreatePage \/ r = TenantDetail(a, p)
      \/ r = renderReconcilePartial(a) \/ r = renderMachinesPartial(a) \/ r = credentialDownload(a)
      \/ r = ClusterPatchEditPage(a[1], a[2]) \/ r = ClusterPatchesPreview(a)
      \/ r = machinesRoutes(h, a, p)
  BY Zenon DEF clustersRoutes
<1> HIDE DEF r
<1>2. Fine(r)
  BY <1>1, FineTenantsList, FineClusterCreate, FineTenantDetail, FineReconcilePartial,
     FineMachinesPartial, FineDownload, FinePatchEdit, FinePreview, FineMachinesRoutes, Zenon
<1> QED  BY <1>2 DEF r

\* Whatever is requested, the answer is the dashboard or a fine page.
LEMMA ServeFacts ==
  ASSUME NEW h, NEW a, NEW p PROVE Fine(Serve(h, a, p)) \/ Serve(h, a, p) = Dashboard
BY FineLoginPage, FineClustersRoutes, Zenon DEF Serve

-----------------------------------------------------------------------------
(* The dashboard's count of active clusters, and its table. *)

\* Neither the count nor a row of the table.
Plain(S) == \A e \in S : e[1] = "cell" => e[2] # "phase" /\ (e[2] = "count" => e[3] # "active")

\* Plain elements: no elements, a union, a condition.
LEMMA PlainEmpty == Plain({})
BY Zenon DEF Plain
LEMMA PlainUnion == ASSUME NEW A, NEW B, Plain(A), Plain(B) PROVE Plain(A \cup B)
BY DEF Plain
LEMMA PlainUNION == ASSUME NEW S, \A s \in S : Plain(s) PROVE Plain(UNION S)
BY Zenon DEF Plain
LEMMA PlainWhen == ASSUME NEW b, NEW A, Plain(A) PROVE Plain(V!When(b, A))
BY PlainEmpty, Zenon DEF V!When

\* One element that is no phase and no count.
LEMMA PlainOne ==
  ASSUME NEW a, NEW b, NEW c, NEW d, NEW f,
         a = "cell" => b # "phase" /\ (b = "count" => c # "active")
  PROVE  Plain({<<a, b, c, d, f>>})
<1>1. \A e : e = <<a, b, c, d, f>> => e[1] = a /\ e[2] = b /\ e[3] = c
  BY Fields
<1> QED  BY <1>1, Zenon DEF Plain

\* Links, cells and badges.
LEMMA PlainLink == ASSUME NEW h, NEW a PROVE Plain(V!Link(h, a))
<1>1. "GET" # "cell"
  BY Zenon
<1> QED  BY <1>1, PlainOne, Zenon DEF V!Link
LEMMA PlainTabLink == ASSUME NEW c, NEW t PROVE Plain(V!TabLink(c, t))
<1>1. "GET" # "cell"
  BY Zenon
<1> QED  BY <1>1, PlainOne, Zenon DEF V!TabLink
LEMMA PlainCell ==
  ASSUME NEW h, NEW a, NEW v, h # "phase", h = "count" => a # "active" PROVE Plain(V!Cell(h, a, v))
BY PlainOne, Zenon DEF V!Cell
LEMMA PlainBadge == ASSUME NEW name, NEW n PROVE Plain(V!Badge(name, n))
<1>1. "badge" # "phase" /\ "badge" # "count"
  BY Zenon
<1> QED  BY <1>1, PlainWhen, PlainCell, Zenon DEF V!Badge

\* The frame.
LEMMA PlainSidebar == ASSUME NEW p PROVE Plain(V!sidebar(p))
<1> DEFINE Hs == {"Dashboard", "TenantsList", "MachinesList", "ProvidersPage",
                  "SettingsIndexPage", "UsersPage", "APITokensPage", "AuditPage", "BackupsPage"}
           Links == UNION {V!Link(h, "") : h \in Hs}
           A == V!Cell("active", "", V!sidebarSection(p))
           b == V!sidebarSection(p) # ""
<1>1. \A s \in {V!Link(h, "") : h \in Hs} : Plain(s)
  BY PlainLink, Zenon
<1>2. Plain(Links)
  BY <1>1, PlainUNION, Zenon
<1>3. V!sidebar(p) = Links \cup V!When(b, A)
  BY Zenon DEF V!sidebar
<1>4. Plain(A)
  BY PlainCell, Zenon
<1> HIDE DEF Links, A, b
<1> QED  BY <1>2, <1>3, <1>4, PlainWhen, PlainUnion, Zenon

\* What every page is wrapped in.
LEMMA PlainBreadcrumb == ASSUME NEW items PROVE Plain(V!breadcrumb(items))
<1>1. \A s \in {V!Link(items[i][1], items[i][2]) : i \in 1..(Len(items) - 1)} : Plain(s)
  BY PlainLink, Zenon
<1>2. Plain(UNION {V!Link(items[i][1], items[i][2]) : i \in 1..(Len(items) - 1)})
  BY <1>1, PlainUNION, Zenon
<1> QED  BY <1>2, PlainLink, PlainUnion, PlainWhen, Zenon DEF V!breadcrumb
LEMMA PlainToast == ASSUME NEW d PROVE Plain(V!toast(d))
BY PlainWhen, PlainCell, Zenon DEF V!toast
LEMMA PlainFrame ==
  ASSUME NEW props, props.page = "dashboard", NEW S
  PROVE  \E R : Plain(R) /\ V!Base(props, S) = R \cup S
<1> DEFINE A == V!sidebar(props.page)
           B == V!When(props.user # "", V!Cell("user", "", props.user) \cup V!Link("Logout", ""))
           C == V!breadcrumb(props.crumbs)
           D == V!toast(props.toast)
<1>1. Plain(A) /\ Plain(C) /\ Plain(D)
  BY PlainSidebar, PlainBreadcrumb, PlainToast, Zenon
<1>2. Plain(B)
  BY PlainCell, PlainLink, PlainUnion, PlainWhen, Zenon
<1>3. V!Base(props, S) = A \cup B \cup C \cup D \cup S
  BY Zenon DEF V!Base
<1> HIDE DEF A, B, C, D
<1>4. Plain(A \cup B \cup C \cup D)
  BY <1>1, <1>2, PlainUnion
<1> QED  BY <1>3, <1>4, Zenon

\* The grid of counts.
LEMMA PlainCards ==
  ASSUME NEW p
  PROVE  \E R : Plain(R) /\ V!clusterPostureCard(p) = R \cup V!Cell("count", "active", p.active)
<1> DEFINE A == V!Link("TenantsList", "")
           B == V!Cell("count", "active", p.active)
           C == V!Badge("forming", p.forming)
           D == V!Badge("removing", p.removing)
           E == V!Badge("degraded", p.erroring)
           F == V!Cell("count", "ready", p.ready)
           G == V!Cell("count", "expected", p.expected)
<1>1. V!clusterPostureCard(p) = A \cup B \cup C \cup D \cup E \cup F \cup G
  BY Zenon DEF V!clusterPostureCard
<1>2. Plain(A) /\ Plain(C) /\ Plain(D) /\ Plain(E)
  BY PlainLink, PlainBadge, Zenon
<1>3. Plain(F) /\ Plain(G)
  BY PlainCell, Zenon
<1> HIDE DEF A, B, C, D, E, F, G
<1>4. Plain(A \cup C \cup D \cup E \cup F \cup G)
  BY <1>2, <1>3, PlainUnion
<1>5. V!clusterPostureCard(p) = (A \cup C \cup D \cup E \cup F \cup G) \cup B
  BY <1>1
<1> QED  BY <1>4, <1>5, Zenon DEF B

\* The cards but the one that counts active clusters.
LEMMA PlainGrid ==
  ASSUME NEW p
  PROVE  \E R : Plain(R) /\ V!postureGrid(p) = R \cup V!Cell("count", "active", p.clusters.active)
<1>1. PICK R : Plain(R) /\ V!clusterPostureCard(p.clusters) = R \cup V!Cell("count", "active", p.clusters.active)
  BY PlainCards, Zenon
<1>2. ASSUME NEW q PROVE Plain(V!machinePostureCard(q))
  <2>1. Plain(V!Cell("count", "machines", q.total)) /\ Plain(V!Cell("count", "connected", q.connected))
    BY PlainCell, Zenon
  <2> QED  BY <2>1, PlainLink, PlainBadge, PlainUnion DEF V!machinePostureCard
<1>3. ASSUME NEW q PROVE Plain(V!providerPostureCard(q))
  <2>1. Plain(V!Cell("count", "providers", q.total))
    BY PlainCell, Zenon
  <2> QED  BY <2>1, PlainLink, PlainBadge, PlainUnion DEF V!providerPostureCard
<1>4. ASSUME NEW q PROVE Plain(V!backupPostureCard(q))
  <2>1. Plain(V!Cell("lastSuccess", "", q.lastSuccess))
    BY PlainCell, Zenon
  <2> QED  BY <2>1, PlainLink, PlainBadge, PlainUnion, Zenon DEF V!backupPostureCard
<1>5. ASSUME NEW q PROVE Plain(V!upgradePostureBanner(q))
  <2>1. Plain(V!Cell("blocked", "", "precheck"))
    BY PlainCell, Zenon
  <2> QED  BY <2>1, PlainLink, PlainBadge, PlainUnion, PlainWhen, Zenon DEF V!upgradePostureBanner
<1> DEFINE B == V!Cell("count", "active", p.clusters.active)
           C == V!machinePostureCard(p.machines)
           D == V!providerPostureCard(p.providers)
           E == V!backupPostureCard(p.backups)
           F == V!upgradePostureBanner(p.upgrades)
<1>6. V!postureGrid(p) = (R \cup B) \cup C \cup D \cup E \cup F
  BY <1>1, Zenon DEF V!postureGrid
<1>7. Plain(C) /\ Plain(D) /\ Plain(E) /\ Plain(F)
  BY <1>2, <1>3, <1>4, <1>5, Zenon
<1> HIDE DEF B, C, D, E, F
<1>8. Plain(R \cup C \cup D \cup E \cup F)
  BY <1>1, <1>7, PlainUnion
<1>9. V!postureGrid(p) = (R \cup C \cup D \cup E \cup F) \cup B
  BY <1>6
<1> QED  BY <1>8, <1>9, Zenon DEF B

\* The resource section.
LEMMA PlainPressure == ASSUME NEW m PROVE Plain(V!resourcePressure(m))
<1>1. ASSUME NEW what, NEW of, NEW pct, what # "phase", what # "count" PROVE Plain(V!pressureBar(what, of, pct))
  BY <1>1, PlainCell, Zenon DEF V!pressureBar
<1>2. ASSUME NEW n PROVE Plain(V!nodePressureCard(n))
  <2> DEFINE Rs == {"CPU", "Mem", "Pods", "Disk"}
             Bars == UNION {V!nodeBar(n.name, r, n.pct[r]) : r \in Rs}
             A == V!Cell("node", n.name, V!nodeStatusClass(n.status))
  <2>1. \A r \in Rs : r # "phase" /\ r # "count"
    BY Zenon
  <2>2. \A s \in {V!nodeBar(n.name, r, n.pct[r]) : r \in Rs} : Plain(s)
    <3> HIDE DEF Rs
    <3> QED  BY <1>1, <2>1, Zenon DEF V!nodeBar
  <2>3. Plain(Bars)
    BY <2>2, PlainUNION, Zenon
  <2>4. V!nodePressureCard(n) = A \cup Bars
    BY Zenon DEF V!nodePressureCard
  <2>5. Plain(A)
    BY PlainCell, Zenon
  <2> HIDE DEF Bars, A
  <2> QED  BY <2>3, <2>4, <2>5, PlainUnion, Zenon
<1>3. Plain(UNION {V!nodePressureCard(n) : n \in m.nodes})
  BY <1>2, PlainUNION, Zenon
<1> DEFINE A == V!pressureTile(m.cpu[1], m.cpu[2])
           B == V!pressureTileBytes(m.mem[1], m.mem[2])
           C == V!pressureTilePods(m.pods[1], m.pods[2])
           D == V!pressureTileCount(V!Cardinality(m.nodes))
           E == UNION {V!nodePressureCard(n) : n \in m.nodes}
<1>4. V!resourcePressure(m) = A \cup B \cup C \cup D \cup E
  BY Zenon DEF V!resourcePressure, V!Each
<1>5. "tile" # "phase" /\ "tile" # "count" /\ "nodes" # "active" /\ "count" # "phase"
  BY Zenon
<1>6. Plain(A) /\ Plain(B) /\ Plain(C)
  BY <1>1, <1>5, Zenon DEF V!pressureTile, V!pressureTileBytes, V!pressureTilePods
<1>7. Plain(D)
  BY <1>5, PlainCell, Zenon DEF V!pressureTileCount
<1>8. Plain(E)
  BY <1>3
<1> HIDE DEF A, B, C, D, E
<1> QED  BY <1>4, <1>6, <1>7, <1>8, PlainUnion

\* The row of a cluster in the table.
PhaseCell(t) == <<"cell", "phase", t.name, "", V!phaseBadgeClass(t.phase)>>

\* The table but its phases.
LEMMA PlainTable ==
  ASSUME NEW data
  PROVE  \E R : Plain(R) /\ V!clustersTable(data) = R \cup {PhaseCell(t) : t \in data.tenants}
<1> DEFINE A(t) == V!TabLink(t.name, "overview")
           B(t) == V!Cell("phase", t.name, V!phaseBadgeClass(t.phase))
           C(t) == V!Cell("ready", t.name, <<t.ready, t.total>>)
           R == UNION {A(t) \cup C(t) : t \in data.tenants}
<1>1. V!clustersTable(data) = UNION {A(t) \cup B(t) \cup C(t) : t \in data.tenants}
  BY Zenon DEF V!clustersTable, V!Each
<1>2. ASSUME NEW t PROVE Plain(A(t) \cup C(t))
  <2>1. Plain(A(t))
    BY PlainTabLink, Zenon
  <2>2. Plain(C(t))
    BY PlainCell, Zenon
  <2> QED  BY <2>1, <2>2, PlainUnion, Zenon
<1>3. ASSUME NEW t PROVE B(t) = {PhaseCell(t)}
  BY Zenon DEF V!Cell, PhaseCell
<1> HIDE DEF A, B, C
<1>4. Plain(R)
  BY <1>2, PlainUNION, Zenon
<1>5. UNION {A(t) \cup B(t) \cup C(t) : t \in data.tenants} = R \cup {PhaseCell(t) : t \in data.tenants}
  <2> DEFINE P == {PhaseCell(t) : t \in data.tenants}
             L == UNION {A(t) \cup B(t) \cup C(t) : t \in data.tenants}
  <2>1. \A e : e \in L <=> \E t \in data.tenants : e \in A(t) \/ e = PhaseCell(t) \/ e \in C(t)
    <3>1. \A e : e \in L <=> \E t \in data.tenants : e \in A(t) \cup B(t) \cup C(t)
      BY Zenon
    <3>2. ASSUME NEW e, NEW t
          PROVE  e \in A(t) \cup B(t) \cup C(t) <=> e \in A(t) \/ e = PhaseCell(t) \/ e \in C(t)
      BY <1>3, Zenon
    <3> HIDE DEF L
    <3> QED  BY <3>1, <3>2
  <2>2. \A e : e \in R <=> \E t \in data.tenants : e \in A(t) \/ e \in C(t)
    BY ZenonT(60)
  <2>3. \A e : e \in P <=> \E t \in data.tenants : e = PhaseCell(t)
    BY Zenon
  <2> HIDE DEF P, L, R
  <2>4. \A e : e \in L <=> e \in R \/ e \in P
    BY <2>1, <2>2, <2>3, Zenon
  <2>5. L = R \cup P
    BY <2>4, Zenon
  <2> QED  BY <2>5 DEF P, L
<1> HIDE DEF R
<1> QED  BY <1>1, <1>4, <1>5, Zenon

\* The rest of the dashboard.
LEMMA PlainDashboard ==
  ASSUME NEW data
  PROVE  \E R : /\ Plain(R)
                /\ V!Dashboard(data) = R \cup V!Cell("count", "active", data.posture.clusters.active)
                                         \cup {PhaseCell(t) : t \in data.tenants}
<1> DEFINE B == V!Cell("count", "active", data.posture.clusters.active)
           C == {PhaseCell(t) : t \in data.tenants}
           M == UNION {V!resourcePressure(m) : m \in data.metrics}
           Act == V!recentActivity(data)
<1>1. PICK R1 : Plain(R1) /\ V!postureGrid(data.posture) = R1 \cup B
  BY PlainGrid, Zenon
<1>2. PICK R2 : Plain(R2) /\ V!clustersTable(data) = R2 \cup C
  BY PlainTable, Zenon
<1>3. Plain(M)
  BY PlainPressure, PlainUNION, Zenon
<1>4. Plain(Act)
  <2>1. ASSUME NEW ev PROVE Plain(V!auditRow(ev))
    BY PlainCell, Zenon DEF V!auditRow
  <2> DEFINE Rows == UNION {V!auditRow(ev) : ev \in data.audit}
  <2>2. Plain(Rows)
    BY <2>1, PlainUNION, Zenon
  <2>3. V!recentActivity(data) = V!When(data.audit # {}, Rows \cup V!Link("AuditPage", ""))
    BY Zenon DEF V!recentActivity, V!Each
  <2> HIDE DEF Rows
  <2> QED  BY <2>2, <2>3, PlainLink, PlainUnion, PlainWhen, Zenon
<1>5. V!Dashboard(data) = (R1 \cup B) \cup M \cup (R2 \cup C) \cup Act
  BY <1>1, <1>2, Zenon DEF V!Dashboard, V!Each
<1> HIDE DEF B, C, M, Act
<1>6. Plain(R1 \cup M \cup R2 \cup Act)
  BY <1>1, <1>2, <1>3, <1>4, PlainUnion
<1>7. V!Dashboard(data) = (R1 \cup M \cup R2 \cup Act) \cup B \cup C
  BY <1>5
<1> QED  BY <1>6, <1>7, Zenon DEF B, C

\* A list that is not cut.
LEMMA ListedAll ==
  ASSUME NEW M, IsFiniteSet(M), Cardinality(M) <= ListLimit, \A m \in M : m.name \in DOMAIN Rank,
         NEW S, S \subseteq M
  PROVE  Listed(S) = S
<1> SUFFICES ASSUME NEW r \in S
             PROVE  Cardinality({q \in S : Rank[q.name] < Rank[r.name]}) < ListLimit
  BY Zenon DEF Listed
<1> DEFINE T == {q \in S : Rank[q.name] < Rank[r.name]}
<1>1. Rank[r.name] \in Nat
  BY ConsoleAssumption, Zenon DEF ConsoleAssumption
<1>2. r \notin T
  BY <1>1
<1>3. T \subseteq M \ {r}
  BY <1>2
<1>4. Cardinality(M \ {r}) = Cardinality(M) - 1 /\ IsFiniteSet(M \ {r})
  BY FS_RemoveElement
<1>5. Cardinality(T) <= Cardinality(M \ {r}) /\ IsFiniteSet(T)
  BY <1>3, <1>4, FS_Subset
<1>6. Cardinality(T) \in Nat /\ Cardinality(M) \in Nat /\ ListLimit \in Nat
  BY <1>5, FS_CardinalityType, ConsoleAssumption DEF ConsoleAssumption
<1> HIDE DEF T
<1>7. Cardinality(T) < ListLimit
  BY <1>4, <1>5, <1>6
<1> QED  BY <1>7 DEF T

\* The phase that the table computes for a cluster.
TablePhase(t) ==
  ComputeTenantStatus(t, ListMachinesByTenant(db.machines, t.name),
                      ListTypedByTenant(db.groups, t.name)).phase
ActiveTenants == {t \in Listed(db.tenants) : TablePhase(t) = "active"}

\* As long as no list is cut, the machines of a cluster are the same.
LEMMA SameFleet ==
  ASSUME RowsOK(db), Cardinality(db.machines) <= ListLimit, NEW t \in db.tenants
  PROVE  {m \in Listed(db.machines) : m.tenant = t.name} = ListMachinesByTenant(db.machines, t.name)
<1>1. /\ IsFiniteSet(db.machines) /\ \A m \in db.machines : m.name \in DOMAIN Rank
      /\ t.name # ""
  BY Zenon DEF RowsOK
<1> DEFINE S == {m \in db.machines : m.tenant = t.name /\ t.name # ""}
<1>2. S = {m \in db.machines : m.tenant = t.name}
  BY <1>1, Zenon
<1>3. S \subseteq db.machines
  BY Zenon
<1>4. ListMachinesByTenant(db.machines, t.name) = Listed(S)
  BY Zenon DEF ListMachinesByTenant
<1> HIDE DEF S
<1>5. Listed(S) = S
  BY <1>1, <1>3, ListedAll, Zenon
<1>6. Listed(db.machines) = db.machines
  BY <1>1, ListedAll, Zenon
<1> QED  BY <1>2, <1>4, <1>5, <1>6, Zenon

\* A limited list holds rows of its table.
LEMMA ListedSubset == ASSUME NEW S PROVE Listed(S) \subseteq S
BY Zenon DEF Listed

\* The card counts the clusters whose phase is active.
LEMMA CountActive ==
  ASSUME RowsOK(db), Cardinality(db.machines) <= ListLimit
  PROVE  Build(db).clusters.active = Cardinality(ActiveTenants)
<1> DEFINE Fleet(t) == {m \in Listed(db.machines) : m.tenant = t.name}
           Groups(t) == ListTypedByTenant(db.groups, t.name)
           Phase(t) == ComputeTenantStatus(t, Fleet(t), Groups(t)).phase
<1>1. Build(db).clusters = clusterPosture(db)
  BY Zenon DEF Build
<1>2. clusterPosture(db).active = Cardinality({t \in Listed(db.tenants) : Phase(t) \in {"active"}})
  BY Zenon DEF clusterPosture
<1>3. ASSUME NEW t \in Listed(db.tenants) PROVE Phase(t) = TablePhase(t)
  <2>1. t \in db.tenants
    BY ListedSubset, Zenon
  <2>2. Fleet(t) = ListMachinesByTenant(db.machines, t.name)
    BY <2>1, SameFleet, Zenon
  <2> HIDE DEF Fleet
  <2> QED  BY <2>2, Zenon DEF TablePhase
<1> HIDE DEF Phase
<1>4. {t \in Listed(db.tenants) : Phase(t) \in {"active"}} = ActiveTenants
  BY <1>3, Zenon DEF ActiveTenants
<1> QED  BY <1>1, <1>2, <1>4, Zenon

\* The phases of a cluster.
LEMMA PhaseRange ==
  ASSUME NEW t PROVE TablePhase(t) \in {"removing", "shrinking", "active", "forming"}
<1> DEFINE M == ListMachinesByTenant(db.machines, t.name)
           G == ListTypedByTenant(db.groups, t.name)
<1>1. TablePhase(t) = ComputeTenantPhase(t, M, G)
  BY Zenon DEF TablePhase, ComputeTenantStatus
<1> HIDE DEF M, G
<1>2. ComputeTenantPhase(t, M, G) \in {"removing", "shrinking", "active", "forming"}
  BY DEF ComputeTenantPhase
<1> QED  BY <1>1, <1>2, Zenon

\* A phase is shown as positive exactly when it is active.
LEMMA PositiveActive ==
  ASSUME NEW p \in {"removing", "shrinking", "active", "forming"}
  PROVE  V!phaseBadgeClass(p) = "positive" <=> p = "active"
BY DEF V!phaseBadgeClass

\* The rows of the table.
Row(t) == <<"cell", "phase", t.name, "", V!phaseBadgeClass(TablePhase(t))>>

\* The phase cells of the table, one per cluster.
LEMMA TableRows ==
  {PhaseCell(s) : s \in tenantSummaries(db)} = {Row(t) : t \in Listed(db.tenants)}
<1> DEFINE status(t) == ComputeTenantStatus(t, ListMachinesByTenant(db.machines, t.name),
                                            ListTypedByTenant(db.groups, t.name))
           Sum(t) == [name |-> t.name, phase |-> status(t).phase, ready |-> status(t).healthy,
                      total |-> IF status(t).total = 0
                                THEN sumNodeGroupCounts(ListTypedByTenant(db.groups, t.name))
                                ELSE status(t).total]
<1>1. tenantSummaries(db) = {Sum(t) : t \in Listed(db.tenants)}
  BY Zenon DEF tenantSummaries
<1>2. ASSUME NEW t PROVE Sum(t).name = t.name /\ Sum(t).phase = TablePhase(t)
  BY Zenon DEF TablePhase
<1> HIDE DEF Sum
<1>3. ASSUME NEW t PROVE PhaseCell(Sum(t)) = Row(t)
  BY <1>2, Zenon DEF PhaseCell, Row
<1> QED  BY <1>1, <1>3, Zenon

\* As many of them are positive as clusters are active.
LEMMA ActiveCount ==
  ASSUME RowsOK(db), NEW body, NEW R, Plain(R), NEW n,
         body = R \cup V!Cell("count", "active", n) \cup {Row(t) : t \in Listed(db.tenants)}
  PROVE  Cardinality({e \in body : e[1] = "cell" /\ e[2] = "phase" /\ e[5] = "positive"})
           = Cardinality(ActiveTenants)
<1> DEFINE A == {e \in body : e[1] = "cell" /\ e[2] = "phase" /\ e[5] = "positive"}
           C == <<"cell", "count", "active", "", n>>
           f == [t \in ActiveTenants |-> Row(t)]
<1>1. ASSUME NEW t
      PROVE  /\ Row(t)[1] = "cell" /\ Row(t)[2] = "phase" /\ Row(t)[3] = t.name
             /\ Row(t)[5] = V!phaseBadgeClass(TablePhase(t))
  BY Fields, Zenon DEF Row
<1>2. C[2] = "count"
  BY Fields, Zenon
<1>3. \A e \in body : e \in R \/ e = C \/ \E t \in Listed(db.tenants) : e = Row(t)
  BY Zenon DEF V!Cell
<1>4. \A t \in Listed(db.tenants) : Row(t) \in body
  BY Zenon
<1>c. "count" # "phase"
  OBVIOUS
<1> HIDE DEF C
<1>5. ASSUME NEW e \in A PROVE \E t \in ActiveTenants : e = Row(t)
  <2>1. e \in body /\ e[1] = "cell" /\ e[2] = "phase" /\ e[5] = "positive"
    BY <1>5
  <2>2. e \notin R
    BY <2>1, Zenon DEF Plain
  <2>3. e # C
    BY <1>2, <1>c, <2>1, Zenon
  <2>4. PICK t \in Listed(db.tenants) : e = Row(t)
    BY <1>3, <2>1, <2>2, <2>3, Zenon
  <2>5. TablePhase(t) = "active"
    BY <1>1, <2>1, <2>4, PhaseRange, PositiveActive, Zenon
  <2> QED  BY <2>4, <2>5, Zenon DEF ActiveTenants
<1>6. ASSUME NEW t \in ActiveTenants PROVE Row(t) \in A
  <2>1. t \in Listed(db.tenants) /\ TablePhase(t) = "active"
    BY Zenon DEF ActiveTenants
  <2>2. V!phaseBadgeClass(TablePhase(t)) = "positive"
    BY <2>1, PhaseRange, PositiveActive, Zenon
  <2> QED  BY <1>1, <1>4, <2>1, <2>2, Zenon
<1>7. ASSUME NEW t \in ActiveTenants, NEW u \in ActiveTenants, Row(t) = Row(u) PROVE t = u
  <2>1. t.name = u.name
    BY <1>1, <1>7, Zenon
  <2>2. t \in db.tenants /\ u \in db.tenants
    BY ListedSubset, Zenon DEF ActiveTenants
  <2> QED  BY <2>1, <2>2, Zenon DEF RowsOK, NamesUnique
<1> HIDE DEF A
<1>8. f \in [ActiveTenants -> A]
  BY <1>6
<1>9. \A e \in A : \E t \in ActiveTenants : f[t] = e
  BY <1>5
<1>10. \A t, u \in ActiveTenants : f[t] = f[u] => t = u
  BY <1>7
<1> HIDE DEF f
<1>11. f \in Surjection(ActiveTenants, A)
  BY <1>8, <1>9 DEF Surjection
<1>12. f \in Injection(ActiveTenants, A)
  BY <1>8, <1>10 DEF Injection, IsInjective
<1>13. ActiveTenants \subseteq db.tenants /\ IsFiniteSet(db.tenants)
  BY ListedSubset, Zenon DEF ActiveTenants, RowsOK
<1>14. IsFiniteSet(ActiveTenants)
  BY <1>13, FS_Subset
<1>15. Cardinality(A) = Cardinality(ActiveTenants)
  BY <1>11, <1>12, <1>14, FS_Surjection
<1> QED  BY <1>15 DEF A

\* The count that the card shows.
LEMMA ShownCount ==
  ASSUME NEW body, NEW R, Plain(R), NEW n,
         body = R \cup V!Cell("count", "active", n) \cup {Row(t) : t \in Listed(db.tenants)}
  PROVE  {e[5] : e \in {g \in body : g[1] = "cell" /\ g[2] = "count" /\ g[3] = "active"}} = {n}
<1> DEFINE C == <<"cell", "count", "active", "", n>>
           B == {g \in body : g[1] = "cell" /\ g[2] = "count" /\ g[3] = "active"}
<1>1. ASSUME NEW t PROVE Row(t)[2] = "phase"
  BY Fields, Zenon DEF Row
<1>2. C[1] = "cell" /\ C[2] = "count" /\ C[3] = "active" /\ C[5] = n
  BY Fields, Zenon
<1>3. \A e \in body : e \in R \/ e = C \/ \E t \in Listed(db.tenants) : e = Row(t)
  BY Zenon DEF V!Cell
<1>4. C \in body
  BY Zenon DEF V!Cell
<1>c. "count" # "phase"
  OBVIOUS
<1> HIDE DEF C
<1>5. \A e \in B : e = C
  BY <1>1, <1>3, <1>c, Zenon DEF Plain
<1>6. C \in B
  BY <1>2, <1>4, Zenon
<1> HIDE DEF B
<1>7. B = {C}
  BY <1>5, <1>6, Zenon
<1>8. {e[5] : e \in B} = {n}
  BY <1>2, <1>7, Zenon
<1> QED  BY <1>8 DEF B

\* What the tab shows when it shows the dashboard.
LEMMA DashboardMatches ==
  ASSUME RowsOK(db), Cardinality(db.machines) <= ListLimit, NEW props, props.page = "dashboard",
         NEW body, body = V!Base(props, Dashboard.content)
  PROVE  {e[5] : e \in {g \in body : g[1] = "cell" /\ g[2] = "count" /\ g[3] = "active"}}
           = {Cardinality({e \in body : e[1] = "cell" /\ e[2] = "phase" /\ e[5] = "positive"})}
<1> DEFINE n == Build(db).clusters.active
           data == [posture |-> Build(db), tenants |-> tenantSummaries(db),
                    metrics |-> {[cpu |-> m.cpu, mem |-> m.mem, pods |-> m.pods,
                                  nodes |-> NodeCards(m)] : m \in Metrics},
                    audit |-> {[id |-> i, status |-> AuditRows[i]] :
                                 i \in {k \in DOMAIN AuditRows : k > Len(AuditRows) - 8}}]
           Rows == {Row(t) : t \in Listed(db.tenants)}
<1>1. data.posture = Build(db) /\ data.tenants = tenantSummaries(db)
  BY Zenon
<1>2. Dashboard.content = V!Dashboard(data)
  BY Zenon DEF Dashboard, Page
<1> HIDE DEF data
<1>3. PICK R1 : Plain(R1) /\ V!Base(props, Dashboard.content) = R1 \cup Dashboard.content
  BY PlainFrame, Zenon
<1>4. PICK R2 : /\ Plain(R2)
                /\ V!Dashboard(data) = R2 \cup V!Cell("count", "active", n) \cup {PhaseCell(t) : t \in data.tenants}
  BY <1>1, PlainDashboard, Zenon
<1>5. {PhaseCell(t) : t \in data.tenants} = Rows
  BY <1>1, TableRows, Zenon
<1> DEFINE C == V!Cell("count", "active", n)
<1> HIDE DEF n, Rows, C
<1>6. body = (R1 \cup R2) \cup C \cup Rows
  <2>1. V!Dashboard(data) = R2 \cup C \cup Rows
    BY <1>4, <1>5, Zenon DEF C
  <2>2. body = R1 \cup (R2 \cup C \cup Rows)
    BY <1>2, <1>3, <2>1, Zenon
  <2> QED  BY <2>2
<1>7. Plain(R1 \cup R2)
  BY <1>3, <1>4, PlainUnion
<1>8. body = (R1 \cup R2) \cup V!Cell("count", "active", n) \cup {Row(t) : t \in Listed(db.tenants)}
  BY <1>6 DEF C, Rows
<1> DEFINE X == {e[5] : e \in {g \in body : g[1] = "cell" /\ g[2] = "count" /\ g[3] = "active"}}
           Y == Cardinality({e \in body : e[1] = "cell" /\ e[2] = "phase" /\ e[5] = "positive"})
<1>9. X = {n}
  BY <1>7, <1>8, ShownCount, Zenon
<1>10. Y = Cardinality(ActiveTenants)
  BY <1>7, <1>8, ActiveCount, Zenon
<1>11. n = Cardinality(ActiveTenants)
  BY CountActive DEF n
<1> HIDE DEF X, Y
<1>12. X = {Y}
  BY <1>9, <1>10, <1>11, Zenon
<1> QED  BY <1>12 DEF X, Y

-----------------------------------------------------------------------------
(* The rows. *)

\* The rows of one table.
TenantsOK(S) == NamesUnique(S) /\ IsFiniteSet(S) /\ \A t \in S : IsTenant(t) /\ t.name # ""
PatchesOK(S) == NamesUnique(S) /\ \A p \in S : IsPatch(p)
MachinesOK(S) == IsFiniteSet(S) /\ \A m \in S : IsMachine(m) /\ m.name \in DOMAIN Rank

\* Rows, table by table.
LEMMA RowsParts ==
  ASSUME NEW d
  PROVE  RowsOK(d) <=> /\ IsTables(d) /\ TenantsOK(d.tenants)
                       /\ MachinesOK(d.machines) /\ PatchesOK(d.patches)
BY Zenon DEF RowsOK, TenantsOK, PatchesOK, MachinesOK

\* One table with other rows.
LEMMA WithGroups ==
  ASSUME NEW b, RowsOK(b), NEW v
  PROVE  RowsOK([b EXCEPT !.groups = v]) /\ [b EXCEPT !.groups = v].patches = b.patches
<1> DEFINE d == [b EXCEPT !.groups = v]
<1>1. IsTables(b)
  BY Zenon DEF RowsOK
<1>2. IsTables(d) /\ d.tenants = b.tenants /\ d.machines = b.machines /\ d.patches = b.patches
  BY <1>1 DEF IsTables
<1> HIDE DEF d
<1>3. RowsOK(d)
  BY <1>2, RowsParts, Zenon
<1> QED  BY <1>2, <1>3 DEF d
LEMMA WithRuns ==
  ASSUME NEW b, RowsOK(b), NEW v
  PROVE  RowsOK([b EXCEPT !.runs = v]) /\ [b EXCEPT !.runs = v].patches = b.patches
<1> DEFINE d == [b EXCEPT !.runs = v]
<1>1. IsTables(b)
  BY Zenon DEF RowsOK
<1>2. IsTables(d) /\ d.tenants = b.tenants /\ d.machines = b.machines /\ d.patches = b.patches
  BY <1>1 DEF IsTables
<1> HIDE DEF d
<1>3. RowsOK(d)
  BY <1>2, RowsParts, Zenon
<1> QED  BY <1>2, <1>3 DEF d
LEMMA WithUsers ==
  ASSUME NEW b, RowsOK(b), NEW v
  PROVE  RowsOK([b EXCEPT !.users = v]) /\ [b EXCEPT !.users = v].patches = b.patches
<1> DEFINE d == [b EXCEPT !.users = v]
<1>1. IsTables(b)
  BY Zenon DEF RowsOK
<1>2. IsTables(d) /\ d.tenants = b.tenants /\ d.machines = b.machines /\ d.patches = b.patches
  BY <1>1 DEF IsTables
<1> HIDE DEF d
<1>3. RowsOK(d)
  BY <1>2, RowsParts, Zenon
<1> QED  BY <1>2, <1>3 DEF d
LEMMA WithTokens ==
  ASSUME NEW b, RowsOK(b), NEW v
  PROVE  RowsOK([b EXCEPT !.tokens = v]) /\ [b EXCEPT !.tokens = v].patches = b.patches
<1> DEFINE d == [b EXCEPT !.tokens = v]
<1>1. IsTables(b)
  BY Zenon DEF RowsOK
<1>2. IsTables(d) /\ d.tenants = b.tenants /\ d.machines = b.machines /\ d.patches = b.patches
  BY <1>1 DEF IsTables
<1> HIDE DEF d
<1>3. RowsOK(d)
  BY <1>2, RowsParts, Zenon
<1> QED  BY <1>2, <1>3 DEF d
LEMMA WithSnaps ==
  ASSUME NEW b, RowsOK(b), NEW v
  PROVE  RowsOK([b EXCEPT !.snaps = v]) /\ [b EXCEPT !.snaps = v].patches = b.patches
<1> DEFINE d == [b EXCEPT !.snaps = v]
<1>1. IsTables(b)
  BY Zenon DEF RowsOK
<1>2. IsTables(d) /\ d.tenants = b.tenants /\ d.machines = b.machines /\ d.patches = b.patches
  BY <1>1 DEF IsTables
<1> HIDE DEF d
<1>3. RowsOK(d)
  BY <1>2, RowsParts, Zenon
<1> QED  BY <1>2, <1>3 DEF d
LEMMA WithRetention ==
  ASSUME NEW b, RowsOK(b), NEW v
  PROVE  RowsOK([b EXCEPT !.retention = v]) /\ [b EXCEPT !.retention = v].patches = b.patches
<1> DEFINE d == [b EXCEPT !.retention = v]
<1>1. IsTables(b)
  BY Zenon DEF RowsOK
<1>2. IsTables(d) /\ d.tenants = b.tenants /\ d.machines = b.machines /\ d.patches = b.patches
  BY <1>1 DEF IsTables
<1> HIDE DEF d
<1>3. RowsOK(d)
  BY <1>2, RowsParts, Zenon
<1> QED  BY <1>2, <1>3 DEF d
LEMMA WithSecrets ==
  ASSUME NEW b, RowsOK(b), NEW v
  PROVE  RowsOK([b EXCEPT !.secrets = v]) /\ [b EXCEPT !.secrets = v].patches = b.patches
<1> DEFINE d == [b EXCEPT !.secrets = v]
<1>1. IsTables(b)
  BY Zenon DEF RowsOK
<1>2. IsTables(d) /\ d.tenants = b.tenants /\ d.machines = b.machines /\ d.patches = b.patches
  BY <1>1 DEF IsTables
<1> HIDE DEF d
<1>3. RowsOK(d)
  BY <1>2, RowsParts, Zenon
<1> QED  BY <1>2, <1>3 DEF d
LEMMA WithTenants ==
  ASSUME NEW b, RowsOK(b), NEW v, TenantsOK(v)
  PROVE  RowsOK([b EXCEPT !.tenants = v]) /\ [b EXCEPT !.tenants = v].patches = b.patches
<1> DEFINE d == [b EXCEPT !.tenants = v]
<1>1. IsTables(b)
  BY Zenon DEF RowsOK
<1>2. IsTables(d) /\ d.tenants = v /\ d.machines = b.machines /\ d.patches = b.patches
  BY <1>1 DEF IsTables
<1> HIDE DEF d
<1>3. RowsOK(d)
  BY <1>2, RowsParts, Zenon
<1> QED  BY <1>2, <1>3 DEF d
LEMMA WithMachines ==
  ASSUME NEW b, RowsOK(b), NEW v, MachinesOK(v)
  PROVE  RowsOK([b EXCEPT !.machines = v]) /\ [b EXCEPT !.machines = v].patches = b.patches
<1> DEFINE d == [b EXCEPT !.machines = v]
<1>1. IsTables(b)
  BY Zenon DEF RowsOK
<1>2. IsTables(d) /\ d.tenants = b.tenants /\ d.machines = v /\ d.patches = b.patches
  BY <1>1 DEF IsTables
<1> HIDE DEF d
<1>3. RowsOK(d)
  BY <1>2, RowsParts, Zenon
<1> QED  BY <1>2, <1>3 DEF d
LEMMA WithPatches ==
  ASSUME NEW b, RowsOK(b), NEW v, PatchesOK(v)
  PROVE  RowsOK([b EXCEPT !.patches = v]) /\ [b EXCEPT !.patches = v].patches = v
<1> DEFINE d == [b EXCEPT !.patches = v]
<1>1. IsTables(b)
  BY Zenon DEF RowsOK
<1>2. IsTables(d) /\ d.tenants = b.tenants /\ d.machines = b.machines /\ d.patches = v
  BY <1>1 DEF IsTables
<1> HIDE DEF d
<1>3. RowsOK(d)
  BY <1>2, RowsParts, Zenon
<1> QED  BY <1>2, <1>3 DEF d

\* Two tables at once.
LEMMA WithTenantsSecrets ==
  ASSUME RowsOK(db), NEW v, TenantsOK(v), NEW w
  PROVE  /\ RowsOK([db EXCEPT !.tenants = v, !.secrets = w])
         /\ [db EXCEPT !.tenants = v, !.secrets = w].patches = db.patches
<1> DEFINE b == [db EXCEPT !.tenants = v]
<1>1. [db EXCEPT !.tenants = v, !.secrets = w] = [b EXCEPT !.secrets = w]
  OBVIOUS
<1>2. RowsOK(b) /\ b.patches = db.patches
  BY WithTenants
<1> HIDE DEF b
<1>3. RowsOK([b EXCEPT !.secrets = w]) /\ [b EXCEPT !.secrets = w].patches = b.patches
  BY <1>2, WithSecrets
<1> QED  BY <1>1, <1>2, <1>3

\* Three tables at once.
LEMMA WithoutTenant ==
  ASSUME RowsOK(db), NEW v, TenantsOK(v), NEW w, NEW x, PatchesOK(x)
  PROVE  /\ RowsOK([db EXCEPT !.tenants = v, !.groups = w, !.patches = x])
         /\ [db EXCEPT !.tenants = v, !.groups = w, !.patches = x].patches = x
<1> DEFINE b == [db EXCEPT !.tenants = v]
           c == [b EXCEPT !.groups = w]
<1>1. [db EXCEPT !.tenants = v, !.groups = w, !.patches = x] = [c EXCEPT !.patches = x]
  OBVIOUS
<1>2. RowsOK(b)
  BY WithTenants
<1> HIDE DEF b
<1>3. RowsOK(c)
  BY <1>2, WithGroups
<1> HIDE DEF c
<1>4. RowsOK([c EXCEPT !.patches = x]) /\ [c EXCEPT !.patches = x].patches = x
  BY <1>3, WithPatches
<1> QED  BY <1>1, <1>4

-----------------------------------------------------------------------------
(* Rows that are replaced. *)

\* Names stay unique, and a table finite.
LEMMA ReplaceUnique ==
  ASSUME NEW S, NamesUnique(S), NEW name, NEW new, new.name = name
  PROVE  NamesUnique(Replace(S, name, new))
BY Zenon DEF NamesUnique, Replace, Named
LEMMA AddUnique ==
  ASSUME NEW S, NamesUnique(S), NEW new, ~Has(S, new.name) PROVE NamesUnique(S \cup {new})
BY Zenon DEF NamesUnique, Has, Named
LEMMA SubsetUnique == ASSUME NEW S, NamesUnique(S), NEW T, T \subseteq S PROVE NamesUnique(T)
BY Zenon DEF NamesUnique
LEMMA ReplaceFinite ==
  ASSUME NEW S, IsFiniteSet(S), NEW name, NEW new PROVE IsFiniteSet(Replace(S, name, new))
<1>1. S \ Named(S, name) \in SUBSET S
  OBVIOUS
<1>2. IsFiniteSet(S \ Named(S, name))
  BY <1>1, FS_Subset
<1> QED  BY <1>2, FS_AddElement DEF Replace

-----------------------------------------------------------------------------
(* Steps that show a page, answer a form, or happen elsewhere. *)

\* Nothing a page promises depends on anything but the rows and the session.
LEMMA SamePromises == ASSUME UNCHANGED <<session, db>> PROVE \A e : Accepted(e)' <=> Accepted(e)
<1>1. CanMutate' <=> CanMutate
  BY DEF CanMutate
<1>2. IsAdmin' <=> IsAdmin
  BY DEF IsAdmin
<1>3. ASSUME NEW h, NEW a PROVE Offered(h, a)' <=> Offered(h, a)
  BY <1>1, <1>2, Zenon DEF Offered
<1>4. ASSUME NEW e PROVE Scales(e)' <=> Scales(e)
  BY Zenon DEF Scales
<1> QED  BY <1>1, <1>3, <1>4, Zenon DEF Accepted

\* A step after which the page is no longer what a request would show.
LEMMA StaleStep ==
  ASSUME ConsoleInv, tab' = [tab EXCEPT !.fresh = FALSE], RowsOK(db'),
         answer'.fresh => answer'.code \notin {403, 404} \/ answer'.handler = "APITokenDelete"
  PROVE  ConsoleInv'
<1>1. tab'.fresh = FALSE /\ IsTab'
  BY DEF ConsoleInv, IsTab
<1>2. RowsOK(db)'
  OBVIOUS
<1> QED  BY <1>1, <1>2, Zenon DEF ConsoleInv, FormsOK, PostureMatchesTable, FreshFormsAccepted

\* A step that leaves the page as it is.
LEMMA SamePageStep ==
  ASSUME ConsoleInv, tab' = tab, UNCHANGED <<session, db>>,
         answer'.fresh => answer'.code \notin {403, 404} \/ answer'.handler = "APITokenDelete"
  PROVE  ConsoleInv'
<1>1. FormsOK'
  BY SamePromises, Zenon DEF ConsoleInv, FormsOK
<1>2. PostureMatchesTable'
  BY Zenon DEF ConsoleInv, PostureMatchesTable, Shown, ActiveRows
<1>3. IsTab' /\ RowsOK(db)'
  BY DEF ConsoleInv, IsTab
<1> QED  BY <1>1, <1>2, <1>3, Zenon DEF ConsoleInv, FreshFormsAccepted

\* A step that shows another page than the dashboard.
LEMMA NewPageStep ==
  ASSUME ConsoleInv, UNCHANGED <<session, db>>, NEW p, p # "dashboard", NEW S, Good(S),
         tab' = [page |-> p, body |-> S, fresh |-> TRUE],
         answer'.fresh => answer'.code \notin {403, 404} \/ answer'.handler = "APITokenDelete"
  PROVE  ConsoleInv'
<1>1. tab'.page = p /\ tab'.body = S /\ IsTab'
  BY DEF IsTab
<1>2. FormsOK'
  BY <1>1, SamePromises, Zenon DEF FormsOK, Good
<1>3. PostureMatchesTable'
  BY <1>1, Zenon DEF PostureMatchesTable
<1>4. RowsOK(db)'
  BY DEF ConsoleInv
<1> QED  BY <1>1, <1>2, <1>3, <1>4, Zenon DEF ConsoleInv, FreshFormsAccepted

\* A page that is shown keeps its promises, and the dashboard counts right.
LEMMA ShowStep == ASSUME ConsoleInv, NEW target, Show(target) PROVE ConsoleInv'
<1> DEFINE r == Serve(target.handler, target.arg, target.part)
           toast == [message |-> IF r.pops THEN target.message ELSE "",
                     type |-> IF r.pops THEN target.type ELSE ""]
           props == [page |-> r.page, user |-> session.user, crumbs |-> r.crumbs, toast |-> toast]
           body == IF r.page \in {"", "partial"} THEN r.content ELSE V!Base(props, r.content)
<1>1. /\ tab' = [page |-> r.page, body |-> body, fresh |-> TRUE]
      /\ answer' = NoAnswer /\ UNCHANGED <<session, db, events>>
  BY Zenon DEF Show
<1>2. props.page = r.page
  BY Zenon
<1>3. answer'.fresh = FALSE
  BY <1>1, Zenon DEF NoAnswer
<1>4. Fine(r) \/ r = Dashboard
  BY ServeFacts, Zenon
<1> HIDE DEF r, props
<1>5. Good(r.content)
  BY <1>4, GoodDashboard, Zenon DEF Fine
<1>6. Good(body)
  BY <1>5, GoodBase, Zenon
<1> HIDE DEF body
<1>7. CASE r.page # "dashboard"
  BY <1>1, <1>3, <1>6, <1>7, NewPageStep, Zenon
<1>8. CASE r.page = "dashboard"
  <2>1. r = Dashboard
    BY <1>4, <1>8, Zenon DEF Fine
  <2>2. body = V!Base(props, Dashboard.content)
    BY <1>8, <2>1, Zenon DEF body
  <2>3. tab'.body = body /\ IsTab'
    BY <1>1 DEF IsTab
  <2>4. FormsOK'
    BY <1>1, <1>6, <2>3, SamePromises, Zenon DEF FormsOK, Good
  <2>5. PostureMatchesTable'
    <3>1. SUFFICES ASSUME Cardinality(db.machines) <= ListLimit
                   PROVE  Shown("count", "active")' = {Cardinality(ActiveRows)}'
      BY <1>1, Zenon DEF PostureMatchesTable
    <3>2. {e[5] : e \in {g \in body : g[1] = "cell" /\ g[2] = "count" /\ g[3] = "active"}}
           = {Cardinality({e \in body : e[1] = "cell" /\ e[2] = "phase" /\ e[5] = "positive"})}
      BY <1>2, <1>8, <2>2, <3>1, DashboardMatches, Zenon DEF ConsoleInv
    <3> QED  BY <2>3, <3>2, Zenon DEF Shown, ActiveRows
  <2>6. RowsOK(db)'
    BY <1>1 DEF ConsoleInv
  <2> QED  BY <1>3, <2>3, <2>4, <2>5, <2>6, Zenon DEF ConsoleInv, FreshFormsAccepted
<1> QED  BY <1>7, <1>8

-----------------------------------------------------------------------------
(* The answer to a form. *)

\* An administrator is an editor.
LEMMA AdminMutates == IsAdmin => CanMutate
BY Zenon DEF IsAdmin, CanMutate

\* What a form on a fresh page was promised.
LEMMA FreshOffered ==
  ASSUME ConsoleInv, tab.fresh, NEW m \in {"POST", "DELETE"}, NEW h, NEW a, Sends(m, h, a),
         h # "NodeGroupScale"
  PROVE  Offered(h, a)
<1>1. PICK e \in tab.body : e[1] = m /\ e[2] = h /\ e[3] = a
  BY Zenon DEF Sends
<1>2. Accepted(e)
  BY Zenon DEF ConsoleInv, FormsOK
<1> QED  BY <1>1, <1>2, Zenon DEF Accepted, Scales

\* The scale form of a fresh page was opened by somebody who can mutate.
LEMMA FreshScale ==
  ASSUME ConsoleInv, tab.fresh, NEW a, Sends("POST", "NodeGroupScale", a)
  PROVE  CanMutate /\ \E g \in db.groups : a = <<g.tenant, g.name>>
<1>1. PICK e \in tab.body : e[1] = "POST" /\ e[2] = "NodeGroupScale" /\ e[3] = a /\ Opened(e)
  BY Zenon DEF Sends
<1>2. Accepted(e)
  BY Zenon DEF ConsoleInv, FormsOK
<1>3. ~Offered("NodeGroupScale", a)
  BY Zenon DEF Offered
<1>4. Scales(e)
  BY <1>1, <1>2, <1>3, Zenon DEF Accepted
<1>5. e[4] = "scale" /\ "scale" # ""
  BY <1>4, Zenon DEF Scales
<1> DEFINE o == <<"open", e[4], e[5], "", "">>
<1>6. o \in tab.body /\ o[1] = "open"
  BY <1>1, <1>5, Fields, Zenon DEF Opened
<1> HIDE DEF o
<1>7. CanMutate
  BY <1>6, Zenon DEF ConsoleInv, FormsOK, Accepted
<1> QED  BY <1>1, <1>4, <1>7, Zenon DEF Scales

\* What an offer says, form by form.
LEMMA OfferedMutate ==
  ASSUME NEW h, NEW a, Offered(h, a), h \notin {"LoginSubmit", "ClusterCreateSubmit", "APITokenDelete"}
  PROVE  CanMutate
BY AdminMutates, Zenon DEF Offered
LEMMA OfferedPatch ==
  ASSUME NEW h \in {"ClusterPatchSave", "ClusterPatchToggle", "ClusterPatchDelete"}, NEW a, Offered(h, a)
  PROVE  \E p \in db.patches : a = <<p.tenant, p.name>>
BY Zenon DEF Offered
LEMMA OfferedMachine ==
  ASSUME NEW h \in {"MachineKernelArgsSave", "MachineRestart", "MachineShutdown"}, NEW a, Offered(h, a)
  PROVE  \E m \in db.machines : a = m.name
BY Zenon DEF Offered
LEMMA OfferedAdmin ==
  ASSUME NEW h \in {"UserCreate", "UserUpdate", "UserDelete"}, NEW a, Offered(h, a) PROVE IsAdmin
BY Zenon DEF Offered
LEMMA OfferedToken == ASSUME NEW a, Offered("APITokenCreate", a) PROVE a = session.user
BY Zenon DEF Offered

\* What a step may do to the patches.
Keeps(d, h) ==
  \A p \in db.patches : p.tenant # "" =>
    \A q \in d.patches : q.name = p.name /\ q.tenant # p.tenant =>
      p.kind = "kernel-args" /\ h = "MachineKernelArgsSave"
PatchesKept ==
  \A p \in db.patches : p.tenant # "" =>
    \A q \in db'.patches : q.name = p.name /\ q.tenant # p.tenant =>
      p.kind = "kernel-args" /\ answer'.handler = "MachineKernelArgsSave"

\* Patches that go away, or stay.
LEMMA SubsetKeeps ==
  ASSUME RowsOK(db), NEW d, d.patches \subseteq db.patches, NEW h PROVE Keeps(d, h)
BY Zenon DEF Keeps, RowsOK, NamesUnique
LEMMA SubsetKept == ASSUME RowsOK(db), db'.patches \subseteq db.patches PROVE PatchesKept
BY Zenon DEF PatchesKept, RowsOK, NamesUnique

\* Answers that may be given.
OutOK(h, out) ==
  /\ RowsOK(out.rows) /\ Keeps(out.rows, h)
  /\ tab.fresh => out.code \notin {403, 404} \/ h = "APITokenDelete"

\* The fields of an answer to a form.
LEMMA RedirectFields ==
  ASSUME NEW rows, NEW t
  PROVE  Redirect(rows, t).rows = rows /\ Redirect(rows, t).code = 303 /\ Redirect(rows, t).code \notin {403, 404}
<1>1. Redirect(rows, t).rows = rows /\ Redirect(rows, t).code = 303
  BY Zenon DEF Redirect
<1>2. 303 \notin {403, 404}
  OBVIOUS
<1> QED  BY <1>1, <1>2, ZenonT(60)
LEMMA RefuseFields == ASSUME NEW c PROVE Refuse(c).rows = db /\ Refuse(c).code = c
BY Zenon DEF Refuse

\* Redirects are never refusals.
LEMMA RedirectOK ==
  ASSUME NEW h, NEW rows, RowsOK(rows), Keeps(rows, h), NEW t PROVE OutOK(h, Redirect(rows, t))
<1> DEFINE o == Redirect(rows, t)
<1>1. o.rows = rows /\ o.code \notin {403, 404}
  BY RedirectFields
<1> HIDE DEF o
<1>2. OutOK(h, o)
  BY <1>1, Zenon DEF OutOK
<1> QED  BY <1>2 DEF o
LEMMA DoneOK ==
  ASSUME NEW h, NEW rows, RowsOK(rows), Keeps(rows, h), NEW t, NEW w PROVE OutOK(h, Done(rows, t, w))
BY RedirectOK, Zenon DEF Done

\* The patches as they were.
LEMMA KeepsSame == ASSUME RowsOK(db), NEW h, NEW d, d.patches = db.patches PROVE Keeps(d, h)
BY SubsetKeeps, Zenon

\* A refusal with a toast.
LEMMA FailedOK == ASSUME RowsOK(db), NEW h, NEW t, NEW w PROVE OutOK(h, Failed(t, w))
BY KeepsSame, RedirectOK, Zenon DEF Failed

\* A refusal with a status: only for a page that is stale, or not 403 or 404.
LEMMA RefuseOK ==
  ASSUME RowsOK(db), NEW h, NEW c, tab.fresh => c \notin {403, 404} \/ h = "APITokenDelete"
  PROVE  OutOK(h, Refuse(c))
<1> DEFINE o == Refuse(c)
<1>1. o.rows = db /\ o.code = c
  BY RefuseFields, Zenon
<1> HIDE DEF o
<1>2. OutOK(h, o)
  BY <1>1, KeepsSame, ZenonT(60) DEF OutOK
<1> QED  BY <1>2 DEF o
LEMMA RefuseStale == ASSUME RowsOK(db), NEW h, NEW c, ~tab.fresh PROVE OutOK(h, Refuse(c))
BY RefuseOK, Zenon
LEMMA RefuseInput ==
  ASSUME RowsOK(db), NEW h PROVE OutOK(h, Refuse(400)) /\ OutOK(h, Refuse(500))
<1>1. 400 \notin {403, 404} /\ 500 \notin {403, 404}
  OBVIOUS
<1> QED  BY <1>1, RefuseOK

\* Reply with an answer that may be given keeps the invariant.
LEMMA ReplyStep ==
  ASSUME ConsoleInv, NEW h, NEW out, Reply(h, out), OutOK(h, out)
  PROVE  ConsoleInv' /\ PatchesKept
<1>0. RowsOK(db)
  BY Zenon DEF ConsoleInv
<1> DEFINE r == IF SignedOut THEN Redirect(db, To("LoginPage", "", "")) ELSE out
<1>1. /\ db' = r.rows /\ answer' = [handler |-> h, code |-> r.code, fresh |-> tab.fresh]
      /\ tab' = IF r.rows = db THEN tab ELSE [tab EXCEPT !.fresh = FALSE]
      /\ session' = session
  BY Zenon DEF Reply
<1>2. OutOK(h, r)
  BY <1>0, KeepsSame, RedirectOK, Zenon
<1> HIDE DEF r
<1>3. answer'.handler = h /\ answer'.code = r.code /\ answer'.fresh = tab.fresh
  BY <1>1
<1>4. answer'.fresh => answer'.code \notin {403, 404} \/ answer'.handler = "APITokenDelete"
  BY <1>2, <1>3, ZenonT(60) DEF OutOK
<1>5. RowsOK(db')
  BY <1>1, <1>2, Zenon DEF OutOK
<1>6. CASE r.rows = db
  <2>1. tab' = tab /\ db' = db
    BY <1>1, <1>6
  <2> QED  BY <1>0, <1>1, <1>4, <2>1, SamePageStep, SubsetKept, Zenon
<1>7. CASE r.rows # db
  <2>1. tab' = [tab EXCEPT !.fresh = FALSE]
    BY <1>1, <1>7
  <2>2. ConsoleInv'
    BY <1>4, <1>5, <2>1, StaleStep
  <2>3. PatchesKept
    BY <1>1, <1>2, <1>3, Zenon DEF OutOK, Keeps, PatchesKept
  <2> QED  BY <2>2, <2>3
<1> QED  BY <1>6, <1>7

-----------------------------------------------------------------------------
(* The forms, one by one. *)

\* The part of the invariant about the rows.
LEMMA InvRows == ConsoleInv => RowsOK(db)
BY Zenon DEF ConsoleInv

\* ClusterCreateSubmit: no role is asked for, and the form may come back.
LEMMA ClusterCreateStep ==
  ASSUME ConsoleInv, NEW name, ClusterCreateSubmit(name) PROVE ConsoleInv' /\ PatchesKept
<1> DEFINE h == "ClusterCreateSubmit"
           new == [name |-> name, removing |-> FALSE, reconcile |-> ""]
           v == db.tenants \cup {new}
           w == db.secrets \cup {name}
           d == [db EXCEPT !.tenants = v, !.secrets = w]
<1>1. CASE ~SignedOut /\ (name = "" \/ Has(db.tenants, name))
  <2> DEFINE S == ClusterForm(name, IF name = "" THEN "required" ELSE "",
                              IF name = "" THEN "" ELSE "exists")
  <2>1. /\ tab' = [page |-> "clusters", fresh |-> TRUE, body |-> S]
        /\ answer' = [handler |-> h, code |-> 200, fresh |-> tab.fresh]
        /\ UNCHANGED <<session, db>>
    BY <1>1, Zenon DEF ClusterCreateSubmit
  <2>2. Good(S)
    BY GoodClusterForm, Zenon
  <2> HIDE DEF S
  <2>3. answer'.code \notin {403, 404}
    BY <2>1
  <2>4. tab' = [page |-> "clusters", body |-> S, fresh |-> TRUE]
    BY <2>1
  <2>5. "clusters" # "dashboard"
    OBVIOUS
  <2>6. ConsoleInv'
    BY <2>1, <2>2, <2>3, <2>4, <2>5, NewPageStep
  <2> QED  BY <2>1, <2>6, InvRows, SubsetKept, Zenon
<1>2. CASE ~(~SignedOut /\ (name = "" \/ Has(db.tenants, name)))
  <2>1. Reply(h, Done(d, Cluster(name), "created"))
    BY <1>2, Zenon DEF ClusterCreateSubmit
  <2>2. CASE SignedOut
    <3>1. Reply(h, Done(db, Cluster(name), "created"))
      BY <2>1, <2>2, Zenon DEF Reply
    <3> QED  BY <3>1, InvRows, KeepsSame, DoneOK, ReplyStep, Zenon
  <2>3. CASE ~SignedOut
    <3>1. name # "" /\ ~Has(db.tenants, name)
      BY <1>2, <2>3, Zenon
    <3>2. new.name = name
      BY Zenon
    <3>3. IsTenant(new)
      BY Zenon DEF IsTenant
    <3> HIDE DEF new
    <3>4. TenantsOK(db.tenants)
      BY InvRows, RowsParts, Zenon
    <3>5. NamesUnique(v)
      BY <3>1, <3>2, <3>4, AddUnique, Zenon DEF TenantsOK
    <3>6. IsFiniteSet(v)
      BY <3>4, FS_AddElement DEF TenantsOK
    <3>7. \A t \in v : IsTenant(t) /\ t.name # ""
      BY <3>1, <3>2, <3>3, <3>4, Zenon DEF TenantsOK
    <3>8. TenantsOK(v)
      BY <3>5, <3>6, <3>7, Zenon DEF TenantsOK
    <3> HIDE DEF v, w
    <3>9. RowsOK(d) /\ d.patches = db.patches
      BY <3>8, InvRows, WithTenantsSecrets, Zenon
    <3> HIDE DEF d
    <3>10. Keeps(d, h)
      BY <3>9, InvRows, KeepsSame, Zenon
    <3> QED  BY <2>1, <3>9, <3>10, DoneOK, ReplyStep, Zenon
  <2> QED  BY <2>2, <2>3
<1> QED  BY <1>1, <1>2

\* ClusterDelete marks the tenant.
LEMMA ClusterDeleteStep ==
  ASSUME ConsoleInv, NEW c, ClusterDelete(c) PROVE ConsoleInv' /\ PatchesKept
<1> DEFINE h == "ClusterDelete"
           Gone(t) == IF t.name = c THEN [t EXCEPT !.removing = TRUE] ELSE t
           v == {Gone(t) : t \in db.tenants}
           w == db.secrets \ {c}
           d == [db EXCEPT !.tenants = v, !.secrets = w]
           done == Done(d, To("TenantsList", "", ""), "deleted")
<1>1. Reply(h, IF ~CanMutate THEN Refuse(403) ELSE done)
  BY Zenon DEF ClusterDelete
<1>2. tab.fresh => CanMutate
  BY FreshOffered, OfferedMutate, Zenon DEF ClusterDelete
<1>3. TenantsOK(db.tenants)
  BY InvRows, RowsParts, Zenon
<1>4. ASSUME NEW t \in db.tenants PROVE IsTenant(Gone(t)) /\ Gone(t).name = t.name
  <2>1. IsTenant(t)
    BY <1>3, Zenon DEF TenantsOK
  <2> QED  BY <2>1 DEF IsTenant
<1> HIDE DEF Gone
<1>5. NamesUnique(v)
  <2>1. SUFFICES ASSUME NEW x \in v, NEW y \in v, x.name = y.name PROVE x = y
    BY Zenon DEF NamesUnique
  <2>2. PICK t \in db.tenants, u \in db.tenants : x = Gone(t) /\ y = Gone(u)
    BY <2>1
  <2>3. t.name = u.name
    BY <1>4, <2>1, <2>2
  <2>4. t = u
    BY <1>3, <2>3, Zenon DEF TenantsOK, NamesUnique
  <2> QED  BY <2>2, <2>4
<1>6. IsFiniteSet(v)
  <2> DEFINE f == [t \in db.tenants |-> Gone(t)]
  <2>1. f \in Surjection(db.tenants, v)
    BY DEF Surjection
  <2>2. IsFiniteSet(db.tenants)
    BY <1>3, Zenon DEF TenantsOK
  <2> HIDE DEF f, v
  <2> QED  BY <2>1, <2>2, FS_Surjection
<1>7. \A t \in v : IsTenant(t) /\ t.name # ""
  BY <1>3, <1>4, Zenon DEF TenantsOK
<1>8. TenantsOK(v)
  BY <1>5, <1>6, <1>7, Zenon DEF TenantsOK
<1> HIDE DEF v, w
<1>9. RowsOK(d) /\ d.patches = db.patches
  BY <1>8, InvRows, WithTenantsSecrets, Zenon
<1> HIDE DEF d
<1>10. OutOK(h, done)
  BY <1>9, InvRows, KeepsSame, DoneOK, Zenon
<1> HIDE DEF done
<1>11. OutOK(h, IF ~CanMutate THEN Refuse(403) ELSE done)
  BY <1>2, <1>10, InvRows, RefuseStale, Zenon
<1> QED  BY <1>1, <1>11, ReplyStep, ZenonT(60)

\* NodeGroupScale: the group of a fresh page is there.
LEMMA NodeGroupScaleStep ==
  ASSUME ConsoleInv, NEW c, NEW g, NEW n, NodeGroupScale(c, g, n) PROVE ConsoleInv' /\ PatchesKept
<1> DEFINE h == "NodeGroupScale"
           v == Replace(db.groups, g, [Now(db.groups, g) EXCEPT !.count = n])
           d == [db EXCEPT !.groups = v]
           done == Done(d, Cluster(c), "scaled")
           found == {r \in Named(db.groups, g) : r.tenant = c}
           out == IF ~CanMutate THEN Refuse(403)
                  ELSE IF n \notin 0..100 THEN Refuse(400)
                  ELSE IF found = {} THEN Refuse(404) ELSE done
<1>1. Reply(h, out)
  BY Zenon DEF NodeGroupScale
<1>2. tab.fresh => CanMutate /\ found # {}
  <2> SUFFICES ASSUME tab.fresh PROVE CanMutate /\ found # {}
    OBVIOUS
  <2>1. CanMutate /\ \E r \in db.groups : <<c, g>> = <<r.tenant, r.name>>
    BY FreshScale, Zenon DEF NodeGroupScale
  <2> QED  BY <2>1 DEF Named
<1> HIDE DEF v, found
<1>3. RowsOK(d) /\ d.patches = db.patches
  BY InvRows, WithGroups
<1> HIDE DEF d
<1>4. OutOK(h, done)
  BY <1>3, InvRows, KeepsSame, DoneOK, Zenon
<1> HIDE DEF done
<1>5. OutOK(h, out)
  BY <1>2, <1>4, InvRows, RefuseStale, RefuseInput
<1> HIDE DEF out
<1> QED  BY <1>1, <1>5, ReplyStep, Zenon

\* NodeGroupCreate.
LEMMA NodeGroupCreateStep ==
  ASSUME ConsoleInv, NEW c, NEW g, NEW n, NodeGroupCreate(c, g, n) PROVE ConsoleInv' /\ PatchesKept
<1> DEFINE h == "NodeGroupCreate"
           v == db.groups \cup {[name |-> g, tenant |-> c, role |-> "worker", count |-> n]}
           d == [db EXCEPT !.groups = v]
           done == Done(d, Cluster(c), "group created")
           out == IF ~CanMutate THEN Refuse(403)
                  ELSE IF g = "" \/ n \notin 1..100 \/ ~Has(db.tenants, c) \/ Has(db.groups, g)
                       THEN Failed(Cluster(c), "group refused")
                  ELSE done
<1>1. Reply(h, out)
  BY Zenon DEF NodeGroupCreate
<1>2. tab.fresh => CanMutate
  BY FreshOffered, OfferedMutate, Zenon DEF NodeGroupCreate
<1> HIDE DEF v
<1>3. RowsOK(d) /\ d.patches = db.patches
  BY InvRows, WithGroups
<1> HIDE DEF d
<1>4. OutOK(h, done)
  BY <1>3, InvRows, KeepsSame, DoneOK, Zenon
<1> HIDE DEF done
<1>5. OutOK(h, out)
  BY <1>2, <1>4, InvRows, RefuseStale, FailedOK, Zenon
<1> HIDE DEF out
<1> QED  BY <1>1, <1>5, ReplyStep, Zenon

\* ClusterUpgradeStart.
LEMMA UpgradeStartStep ==
  ASSUME ConsoleInv, NEW c, NEW run, NEW version, ClusterUpgradeStart(c, run, version)
  PROVE  ConsoleInv' /\ PatchesKept
<1> DEFINE h == "ClusterUpgradeStart"
           v == db.runs \cup {[name |-> run, tenant |-> c, phase |-> "upgrading", error |-> ""]}
           d == [db EXCEPT !.runs = v]
           done == Done(d, OnTab(c, "upgrade"), "run started")
           out == IF ~CanMutate THEN Refuse(403)
                  ELSE IF version = "" \/ ~Has(db.tenants, c) \/ ListMachinesByTenant(db.machines, c) = {}
                       THEN Failed(OnTab(c, "upgrade"), "run refused")
                  ELSE done
<1>1. Reply(h, out)
  BY Zenon DEF ClusterUpgradeStart
<1>2. tab.fresh => CanMutate
  BY FreshOffered, OfferedMutate, Zenon DEF ClusterUpgradeStart
<1> HIDE DEF v
<1>3. RowsOK(d) /\ d.patches = db.patches
  BY InvRows, WithRuns
<1> HIDE DEF d
<1>4. OutOK(h, done)
  BY <1>3, InvRows, KeepsSame, DoneOK, Zenon
<1> HIDE DEF done
<1>5. OutOK(h, out)
  BY <1>2, <1>4, InvRows, RefuseStale, FailedOK, Zenon
<1> HIDE DEF out
<1> QED  BY <1>1, <1>5, ReplyStep, Zenon

\* ClusterUpgradeCancel writes nothing.
LEMMA UpgradeCancelStep ==
  ASSUME ConsoleInv, NEW c, NEW run, ClusterUpgradeCancel(c, run) PROVE ConsoleInv' /\ PatchesKept
<1> DEFINE h == "ClusterUpgradeCancel"
           out == IF ~CanMutate THEN Refuse(403)
                  ELSE IF \A r \in Named(db.runs, run) : r.phase \notin {"precheck", "upgrading"}
                       THEN Failed(OnTab(c, "upgrade"), "not active")
                  ELSE Done(db, OnTab(c, "upgrade"), "canceled")
<1>1. Reply(h, out)
  BY Zenon DEF ClusterUpgradeCancel
<1>2. tab.fresh => CanMutate
  BY FreshOffered, OfferedMutate, Zenon DEF ClusterUpgradeCancel
<1>3. OutOK(h, Done(db, OnTab(c, "upgrade"), "canceled"))
  BY InvRows, KeepsSame, DoneOK, Zenon
<1>4. OutOK(h, out)
  BY <1>2, <1>3, InvRows, RefuseStale, FailedOK, Zenon
<1> HIDE DEF out
<1> QED  BY <1>1, <1>4, ReplyStep, Zenon

\* The part of the invariant about the patches.
LEMMA InvPatches == ConsoleInv => PatchesOK(db.patches)
BY InvRows, RowsParts, Zenon

\* Writing one patch.
LEMMA KeepsReplace ==
  ASSUME RowsOK(db), NEW name, NEW new, new.name = name, NEW d, NEW h,
         d.patches = Replace(db.patches, name, new),
         \A p \in db.patches : p.name = name =>
           p.tenant = new.tenant \/ (p.kind = "kernel-args" /\ h = "MachineKernelArgsSave")
  PROVE  Keeps(d, h)
<1>1. \A q \in d.patches : q = new \/ q \in db.patches
  BY Zenon DEF Replace
<1>2. NamesUnique(db.patches)
  BY Zenon DEF RowsOK
<1> QED  BY <1>1, <1>2, Zenon DEF Keeps, NamesUnique

\* A patch under a new name takes none away.
LEMMA KeepsAdd ==
  ASSUME RowsOK(db), NEW new, ~Has(db.patches, new.name), NEW d, NEW h,
         d.patches = db.patches \cup {new}
  PROVE  Keeps(d, h)
<1>1. \A q \in d.patches : q = new \/ q \in db.patches
  BY Zenon
<1>2. NamesUnique(db.patches)
  BY Zenon DEF RowsOK
<1>3. \A p \in db.patches : p.name # new.name
  BY Zenon DEF Has, Named
<1> QED  BY <1>1, <1>2, <1>3, Zenon DEF Keeps, NamesUnique

\* The table of patches with one written.
LEMMA ReplacePatches ==
  ASSUME NEW S, PatchesOK(S), NEW name, NEW new, new.name = name, IsPatch(new)
  PROVE  PatchesOK(Replace(S, name, new))
<1>1. NamesUnique(Replace(S, name, new))
  BY ReplaceUnique, Zenon DEF PatchesOK
<1>2. \A p \in Replace(S, name, new) : p = new \/ p \in S
  BY Zenon DEF Replace
<1> QED  BY <1>1, <1>2, Zenon DEF PatchesOK
LEMMA AddPatch ==
  ASSUME NEW S, PatchesOK(S), NEW new, ~Has(S, new.name), IsPatch(new) PROVE PatchesOK(S \cup {new})
<1>1. NamesUnique(S \cup {new})
  BY AddUnique, Zenon DEF PatchesOK
<1> QED  BY <1>1, Zenon DEF PatchesOK

\* ClusterPatchCreate.
LEMMA PatchCreateStep ==
  ASSUME ConsoleInv, NEW c, NEW name, NEW f, ClusterPatchCreate(c, name, f)
  PROVE  ConsoleInv' /\ PatchesKept
<1> DEFINE h == "ClusterPatchCreate"
           new == patchSpec(name, c, "", f)
           v == db.patches \cup {new}
           d == [db EXCEPT !.patches = v]
           done == Done(d, OnTab(c, "patches"), "patch created")
           out == IF ~CanMutate THEN Refuse(403)
                  ELSE IF ~validatePatchInput(f) \/ Has(db.patches, name)
                       THEN Failed(OnTab(c, "patches"), "patch refused")
                  ELSE done
<1>1. Reply(h, out)
  BY Zenon DEF ClusterPatchCreate
<1>2. tab.fresh => CanMutate
  BY FreshOffered, OfferedMutate, Zenon DEF ClusterPatchCreate
<1>3. new.name = name /\ IsPatch(new)
  <2>1. new.name = name
    BY Zenon DEF patchSpec
  <2>2. IsPatch(new)
    BY Zenon DEF IsPatch, patchSpec
  <2> QED  BY <2>1, <2>2, Zenon
<1> HIDE DEF new
<1>4. ASSUME ~Has(db.patches, name) PROVE OutOK(h, done)
  <2>1. PatchesOK(v)
    BY <1>3, <1>4, InvPatches, AddPatch, Zenon
  <2> HIDE DEF v
  <2>2. RowsOK(d) /\ d.patches = v
    BY <2>1, InvRows, WithPatches
  <2> HIDE DEF d
  <2>3. Keeps(d, h)
    BY <1>3, <1>4, <2>2, InvRows, KeepsAdd, Zenon DEF v
  <2> QED  BY <2>2, <2>3, DoneOK, Zenon
<1> HIDE DEF done
<1>5. OutOK(h, out)
  BY <1>2, <1>4, InvRows, RefuseStale, FailedOK, ZenonT(60)
<1> HIDE DEF out
<1> QED  BY <1>1, <1>5, ReplyStep, Zenon

\* A patch that a form of a fresh page names.
LEMMA FreshPatch ==
  ASSUME ConsoleInv, NEW h \in {"ClusterPatchSave", "ClusterPatchToggle", "ClusterPatchDelete"},
         NEW c, NEW name, Sends("POST", h, <<c, name>>), tab.fresh
  PROVE  CanMutate /\ PatchOf(c, name) # {}
<1>1. h # "NodeGroupScale" /\ h \notin {"LoginSubmit", "ClusterCreateSubmit", "APITokenDelete"}
  OBVIOUS
<1>2. Offered(h, <<c, name>>)
  BY <1>1, FreshOffered, Zenon
<1>3. CanMutate
  BY <1>1, <1>2, OfferedMutate, Zenon
<1>4. \E p \in db.patches : <<c, name>> = <<p.tenant, p.name>>
  BY <1>2, OfferedPatch, Zenon
<1>5. PatchOf(c, name) # {}
  BY <1>4 DEF PatchOf, Named
<1> QED  BY <1>3, <1>5

\* The patch a form names is the only one of the name.
LEMMA TheirPatch ==
  ASSUME ConsoleInv, NEW c, NEW name, PatchOf(c, name) # {}
  PROVE  LET p == Now(db.patches, name)
         IN /\ p \in db.patches /\ p.name = name /\ p.tenant = c /\ IsPatch(p)
            /\ \A q \in db.patches : q.name = name => q = p
<1>1. PICK o \in db.patches : o.name = name /\ o.tenant = c
  BY PatchOfFacts, Zenon
<1>2. Has(db.patches, name)
  BY <1>1, Zenon DEF Has, Named
<1> DEFINE p == Now(db.patches, name)
<1>3. p \in db.patches /\ p.name = name
  BY <1>2, NowIn, Zenon
<1> HIDE DEF p
<1>4. NamesUnique(db.patches) /\ IsPatch(p)
  BY <1>3, InvPatches, Zenon DEF PatchesOK
<1>5. \A q \in db.patches : q.name = name => q = p
  BY <1>3, <1>4, Zenon DEF NamesUnique
<1>6. o = p
  BY <1>1, <1>5, Zenon
<1> QED  BY <1>1, <1>3, <1>4, <1>5, <1>6 DEF p

\* ClusterPatchSave writes the tenant label again.
LEMMA PatchSaveStep ==
  ASSUME ConsoleInv, NEW c, NEW name, NEW f, ClusterPatchSave(c, name, f)
  PROVE  ConsoleInv' /\ PatchesKept
<1> DEFINE h == "ClusterPatchSave"
           p == Now(db.patches, name)
           new == savedPatch(p, c, f)
           v == Replace(db.patches, name, new)
           d == [db EXCEPT !.patches = v]
           done == Done(d, EditPage(c, name), "patch saved")
           out == IF ~CanMutate THEN Refuse(403)
                  ELSE IF ~validatePatchInput(f) THEN Failed(EditPage(c, name), "patch refused")
                  ELSE IF PatchOf(c, name) = {} THEN Refuse(404) ELSE done
<1>1. Reply(h, out)
  BY Zenon DEF ClusterPatchSave
<1>2. tab.fresh => CanMutate /\ PatchOf(c, name) # {}
  BY FreshPatch, Zenon DEF ClusterPatchSave
<1>3. ASSUME PatchOf(c, name) # {} PROVE OutOK(h, done)
  <2>1. p \in db.patches /\ p.name = name /\ \A q \in db.patches : q.name = name => q.tenant = c
    BY <1>3, TheirPatch, Zenon
  <2>2. new.name = name /\ new.tenant = c /\ IsPatch(new)
    <3> HIDE DEF p
    <3>1. new.name = p.name
      BY Zenon DEF savedPatch, patchSpec
    <3>2. new.tenant = c
      BY Zenon DEF savedPatch, patchSpec
    <3>3. IsPatch(new)
      BY Zenon DEF IsPatch, savedPatch, patchSpec
    <3> HIDE DEF new
    <3> QED  BY <2>1, <3>1, <3>2, <3>3, Zenon
  <2> HIDE DEF new
  <2>3. PatchesOK(v)
    BY <2>2, InvPatches, ReplacePatches, Zenon
  <2> HIDE DEF v
  <2>4. RowsOK(d) /\ d.patches = v
    BY <2>3, InvRows, WithPatches
  <2> HIDE DEF d
  <2>5. Keeps(d, h)
    <3>1. d.patches = Replace(db.patches, name, new)
      BY <2>4 DEF v
    <3>2. \A q \in db.patches : q.name = name =>
            q.tenant = new.tenant \/ (q.kind = "kernel-args" /\ h = "MachineKernelArgsSave")
      BY <2>1, <2>2, Zenon
    <3> HIDE DEF h
    <3> QED  BY <2>2, <3>1, <3>2, InvRows, KeepsReplace
  <2> QED  BY <2>4, <2>5, DoneOK, Zenon
<1> HIDE DEF done
<1>4. OutOK(h, out)
  BY <1>2, <1>3, InvRows, RefuseStale, FailedOK, ZenonT(60)
<1> HIDE DEF out
<1> QED  BY <1>1, <1>4, ReplyStep, Zenon

\* ClusterPatchToggle.
LEMMA PatchToggleStep ==
  ASSUME ConsoleInv, NEW c, NEW name, ClusterPatchToggle(c, name) PROVE ConsoleInv' /\ PatchesKept
<1> DEFINE h == "ClusterPatchToggle"
           p == Now(db.patches, name)
           new == toggledPatch(p)
           v == Replace(db.patches, name, new)
           d == [db EXCEPT !.patches = v]
           done == Done(d, EditPage(c, name), "toggled")
           out == IF ~CanMutate THEN Refuse(403)
                  ELSE IF PatchOf(c, name) = {} THEN Refuse(404) ELSE done
<1>1. Reply(h, out)
  BY Zenon DEF ClusterPatchToggle
<1>2. tab.fresh => CanMutate /\ PatchOf(c, name) # {}
  BY FreshPatch, Zenon DEF ClusterPatchToggle
<1>3. ASSUME PatchOf(c, name) # {} PROVE OutOK(h, done)
  <2>1. /\ p \in db.patches /\ p.name = name /\ p.tenant = c /\ IsPatch(p)
        /\ \A q \in db.patches : q.name = name => q.tenant = c
    BY <1>3, TheirPatch, Zenon
  <2> HIDE DEF p
  <2>2. new.name = name /\ new.tenant = c /\ IsPatch(new)
    BY <2>1 DEF IsPatch, toggledPatch
  <2> HIDE DEF new
  <2>3. PatchesOK(v)
    BY <2>2, InvPatches, ReplacePatches, Zenon
  <2> HIDE DEF v
  <2>4. RowsOK(d) /\ d.patches = v
    BY <2>3, InvRows, WithPatches
  <2> HIDE DEF d
  <2>5. Keeps(d, h)
    <3>1. d.patches = Replace(db.patches, name, new)
      BY <2>4 DEF v
    <3>2. \A q \in db.patches : q.name = name =>
            q.tenant = new.tenant \/ (q.kind = "kernel-args" /\ h = "MachineKernelArgsSave")
      BY <2>1, <2>2, Zenon
    <3> HIDE DEF h
    <3> QED  BY <2>2, <3>1, <3>2, InvRows, KeepsReplace
  <2> QED  BY <2>4, <2>5, DoneOK, Zenon
<1> HIDE DEF done
<1>4. OutOK(h, out)
  BY <1>2, <1>3, InvRows, RefuseStale, ZenonT(60)
<1> HIDE DEF out
<1> QED  BY <1>1, <1>4, ReplyStep, Zenon

\* Fewer patches.
LEMMA SubsetPatches == ASSUME NEW S, PatchesOK(S), NEW T, T \subseteq S PROVE PatchesOK(T)
BY SubsetUnique, Zenon DEF PatchesOK

\* ClusterPatchDelete.
LEMMA PatchDeleteStep ==
  ASSUME ConsoleInv, NEW c, NEW name, ClusterPatchDelete(c, name) PROVE ConsoleInv' /\ PatchesKept
<1> DEFINE h == "ClusterPatchDelete"
           v == db.patches \ Named(db.patches, name)
           d == [db EXCEPT !.patches = v]
           done == Done(d, OnTab(c, "patches"), "patch deleted")
           out == IF ~CanMutate THEN Refuse(403)
                  ELSE IF PatchOf(c, name) = {} THEN Refuse(404) ELSE done
<1>1. Reply(h, out)
  BY Zenon DEF ClusterPatchDelete
<1>2. tab.fresh => CanMutate /\ PatchOf(c, name) # {}
  BY FreshPatch, Zenon DEF ClusterPatchDelete
<1>3. v \subseteq db.patches
  BY Zenon
<1> HIDE DEF v
<1>4. PatchesOK(v)
  BY <1>3, InvPatches, SubsetPatches, Zenon
<1>5. RowsOK(d) /\ d.patches = v
  BY <1>4, InvRows, WithPatches
<1> HIDE DEF d
<1>6. OutOK(h, done)
  BY <1>3, <1>5, InvRows, SubsetKeeps, DoneOK, Zenon
<1> HIDE DEF done
<1>7. OutOK(h, out)
  BY <1>2, <1>6, InvRows, RefuseStale, ZenonT(60)
<1> HIDE DEF out
<1> QED  BY <1>1, <1>7, ReplyStep, Zenon

\* A machine that a form of a fresh page names.
LEMMA FreshMachine ==
  ASSUME ConsoleInv, NEW h \in {"MachineKernelArgsSave", "MachineRestart", "MachineShutdown"},
         NEW id, Sends("POST", h, id), tab.fresh
  PROVE  CanMutate /\ Has(db.machines, id)
<1>1. h # "NodeGroupScale" /\ h \notin {"LoginSubmit", "ClusterCreateSubmit", "APITokenDelete"}
  OBVIOUS
<1>2. Offered(h, id)
  BY <1>1, FreshOffered, Zenon
<1>3. CanMutate
  BY <1>1, <1>2, OfferedMutate, Zenon
<1>4. \E m \in db.machines : id = m.name
  BY <1>2, OfferedMachine, Zenon
<1> QED  BY <1>3, <1>4, Zenon DEF Has, Named

\* What the kernel-args editor may write.
LEMMA StoreArgsFacts ==
  ASSUME ConsoleInv, NEW c, NEW args, NEW v \in StoreArgs(c, args)
  PROVE  PatchesOK(v) /\ \A d : d.patches = v => Keeps(d, "MachineKernelArgsSave")
<1> DEFINE found == findKernelArgsPatch(c)
           new == [name |-> KernelArgsName[c], tenant |-> c, kind |-> "kernel-args", scope |-> "",
                   machine |-> "", role |-> "", enabled |-> TRUE, body |-> args]
<1>1. StoreArgs(c, args) = IF found # {} THEN {Replace(db.patches, p.name, UpdatedArgs(p, args)) : p \in found}
                           ELSE IF Has(db.patches, new.name) THEN {} ELSE {db.patches \cup {new}}
  BY Zenon DEF StoreArgs
<1>2. \A p \in found : p \in db.patches /\ p.kind = "kernel-args"
  BY Zenon DEF findKernelArgsPatch, ListTypedByTenant
<1>3. IsPatch(new)
  BY Zenon DEF IsPatch
<1> HIDE DEF new, found
<1>4. CASE found # {}
  <2>1. PICK p \in found : v = Replace(db.patches, p.name, UpdatedArgs(p, args))
    BY <1>1, <1>4, Zenon
  <2>2. p \in db.patches /\ p.kind = "kernel-args" /\ IsPatch(p) /\ NamesUnique(db.patches)
    BY <1>2, <2>1, InvPatches, Zenon DEF PatchesOK
  <2> DEFINE u == UpdatedArgs(p, args)
  <2>3. u.name = p.name /\ IsPatch(u)
    <3> DEFINE a == [p EXCEPT !.body = args]
    <3>1. PICK e : e = ""
      BY Zenon
    <3>2. u = [p EXCEPT !.body = args, !.tenant = e, !.kind = e]
      BY <3>1, Zenon DEF UpdatedArgs
    <3> HIDE DEF u
    <3>3. [p EXCEPT !.body = args, !.tenant = e, !.kind = e] = [[a EXCEPT !.tenant = e] EXCEPT !.kind = e]
      OBVIOUS
    <3>4. IsPatch(a) /\ a.name = p.name
      BY <2>2 DEF IsPatch
    <3> HIDE DEF a
    <3> DEFINE b == [a EXCEPT !.tenant = e]
    <3>5. IsPatch(b) /\ b.name = p.name
      BY <3>4 DEF IsPatch
    <3> HIDE DEF b
    <3>6. IsPatch([b EXCEPT !.kind = e]) /\ [b EXCEPT !.kind = e].name = p.name
      BY <3>5 DEF IsPatch
    <3> QED  BY <3>2, <3>3, <3>6 DEF b
  <2> HIDE DEF u
  <2>4. v = Replace(db.patches, p.name, u)
    BY <2>1 DEF u
  <2>5. PatchesOK(v)
    BY <2>3, <2>4, InvPatches, ReplacePatches, Zenon
  <2>6. \A q \in db.patches : q.name = p.name => q.kind = "kernel-args"
    BY <2>2, Zenon DEF NamesUnique
  <2>7. ASSUME NEW d, d.patches = v PROVE Keeps(d, "MachineKernelArgsSave")
    <3>1. d.patches = Replace(db.patches, p.name, u)
      BY <2>4, <2>7
    <3>2. \A q \in db.patches : q.name = p.name =>
            q.tenant = u.tenant \/ (q.kind = "kernel-args"
                                     /\ "MachineKernelArgsSave" = "MachineKernelArgsSave")
      BY <2>6, Zenon
    <3> QED  BY <2>3, <3>1, <3>2, InvRows, KeepsReplace
  <2> QED  BY <2>5, <2>7
<1>5. CASE found = {}
  <2>1. ~Has(db.patches, new.name) /\ v = db.patches \cup {new}
    BY <1>1, <1>5, Zenon
  <2>2. PatchesOK(v)
    BY <1>3, <2>1, InvPatches, AddPatch, Zenon
  <2>3. ASSUME NEW d, d.patches = v PROVE Keeps(d, "MachineKernelArgsSave")
    BY <2>1, <2>3, InvRows, KeepsAdd, Zenon
  <2> QED  BY <2>2, <2>3
<1> QED  BY <1>4, <1>5

\* MachineKernelArgsSave, the one form that drops a label.
LEMMA KernelArgsStep ==
  ASSUME ConsoleInv, NEW id, NEW args, MachineKernelArgsSave(id, args) PROVE ConsoleInv' /\ PatchesKept
<1> DEFINE h == "MachineKernelArgsSave"
           c == Now(db.machines, id).tenant
           there == To("MachineKernelArgs", id, "")
           v == CHOOSE s \in StoreArgs(c, args) : TRUE
           d == [db EXCEPT !.patches = v]
           done == Done(d, there, "args saved")
           out == IF ~CanMutate THEN Refuse(403)
                  ELSE IF ~Has(db.machines, id) THEN Refuse(404)
                  ELSE IF c = "" THEN Refuse(400)
                  ELSE IF ~isValidKernelArg(args) THEN Failed(there, "args refused")
                  ELSE IF StoreArgs(c, args) = {} THEN Refuse(500) ELSE done
<1>1. Reply(h, out)
  BY Zenon DEF MachineKernelArgsSave
<1>2. tab.fresh => CanMutate /\ Has(db.machines, id)
  BY FreshMachine, Zenon DEF MachineKernelArgsSave
<1>3. ASSUME StoreArgs(c, args) # {} PROVE OutOK(h, done)
  <2>1. v \in StoreArgs(c, args)
    BY <1>3, Zenon
  <2> HIDE DEF v, c
  <2>2. PatchesOK(v) /\ \A b : b.patches = v => Keeps(b, h)
    BY <2>1, StoreArgsFacts, Zenon
  <2>3. RowsOK(d) /\ d.patches = v
    BY <2>2, InvRows, WithPatches
  <2> HIDE DEF d
  <2> QED  BY <2>2, <2>3, DoneOK, Zenon
<1>4. OutOK(h, Refuse(400)) /\ OutOK(h, Refuse(500))
  BY InvRows, RefuseInput
<1> HIDE DEF done, c
<1> DEFINE bad == Refuse(400)
           worse == Refuse(500)
<1>5. OutOK(h, IF c = "" THEN bad
               ELSE IF ~isValidKernelArg(args) THEN Failed(there, "args refused")
               ELSE IF StoreArgs(c, args) = {} THEN worse ELSE done)
  <2> HIDE DEF bad, worse
  <2>1. OutOK(h, bad) /\ OutOK(h, worse)
    BY <1>4 DEF bad, worse
  <2> QED  BY <1>3, <2>1, InvRows, FailedOK, Zenon
<1>6. OutOK(h, out)
  BY <1>2, <1>5, InvRows, RefuseStale, ZenonT(60)
<1> HIDE DEF out
<1> QED  BY <1>1, <1>6, ReplyStep, Zenon

\* MachineRestart and MachineShutdown write nothing.
LEMMA MachineActionStep ==
  ASSUME ConsoleInv, NEW h, NEW id, MachineAction(h, id) PROVE ConsoleInv' /\ PatchesKept
<1> DEFINE out == IF ~CanMutate THEN Refuse(403)
                  ELSE IF ~Has(db.machines, id) THEN Refuse(404)
                  ELSE IF ~Now(db.machines, id).connected
                       THEN Failed(To("MachineDetail", id, ""), "failed")
                  ELSE Done(db, To("MachineDetail", id, ""), "queued")
<1>1. Reply(h, out)
  BY Zenon DEF MachineAction
<1>2. tab.fresh => CanMutate /\ Has(db.machines, id)
  BY FreshMachine, Zenon DEF MachineAction
<1>3. OutOK(h, Done(db, To("MachineDetail", id, ""), "queued"))
  BY InvRows, KeepsSame, DoneOK, Zenon
<1>4. OutOK(h, out)
  BY <1>2, <1>3, InvRows, RefuseStale, FailedOK, ZenonT(60)
<1> HIDE DEF out
<1> QED  BY <1>1, <1>4, ReplyStep, Zenon

\* The rows change in a table other than the patches.
LEMMA SavedOK ==
  ASSUME ConsoleInv, NEW h, NEW d, RowsOK(d), d.patches = db.patches, NEW t, NEW w
  PROVE  OutOK(h, Done(d, t, w))
BY InvRows, KeepsSame, DoneOK, Zenon

\* A form of a fresh page that only an editor gets.
LEMMA FreshEditor ==
  ASSUME ConsoleInv, NEW h, NEW a, Sends("POST", h, a), tab.fresh,
         h \notin {"NodeGroupScale", "LoginSubmit", "ClusterCreateSubmit", "APITokenDelete"}
  PROVE  CanMutate
<1>1. h # "NodeGroupScale" /\ h \notin {"LoginSubmit", "ClusterCreateSubmit", "APITokenDelete"}
  OBVIOUS
<1> QED  BY <1>1, FreshOffered, OfferedMutate, Zenon

\* BackupsRunDatabase and BackupsRunResources.
LEMMA BackupsRunStep ==
  ASSUME ConsoleInv, NEW h, NEW worked, BackupsRun(h, worked) PROVE ConsoleInv' /\ PatchesKept
<1> DEFINE snap == [name |-> IF worked THEN "new-ok" ELSE "new-bad",
                    status |-> IF worked THEN "success" ELSE "failed"]
           v == <<snap>> \o db.snaps
           d == [db EXCEPT !.snaps = v]
           bad == Redirect(d, Toast(BackupsAt, "failed", "error"))
           done == Done(d, BackupsAt, "created")
           out == IF ~CanMutate THEN Refuse(403) ELSE IF worked THEN done ELSE bad
<1>1. Reply(h, out)
  BY Zenon DEF BackupsRun
<1>2. tab.fresh => CanMutate
  <2>1. h \in {"BackupsRunDatabase", "BackupsRunResources"}
    BY Zenon DEF BackupsRun
  <2>2. Sends("POST", h, "")
    BY Zenon DEF BackupsRun
  <2>3. h \notin {"NodeGroupScale", "LoginSubmit", "ClusterCreateSubmit", "APITokenDelete"}
    BY <2>1
  <2> QED  BY <2>2, <2>3, FreshEditor, Zenon
<1> HIDE DEF v
<1>3. RowsOK(d) /\ d.patches = db.patches
  BY InvRows, WithSnaps
<1> HIDE DEF d
<1>4. OutOK(h, done) /\ OutOK(h, bad)
  BY <1>3, InvRows, SavedOK, KeepsSame, RedirectOK, Zenon
<1> HIDE DEF done, bad
<1>5. OutOK(h, out)
  BY <1>2, <1>4, InvRows, RefuseStale, Zenon
<1> HIDE DEF out
<1> QED  BY <1>1, <1>5, ReplyStep, Zenon

\* BackupsPolicySave.
LEMMA PolicySaveStep ==
  ASSUME ConsoleInv, NEW n, BackupsPolicySave(n) PROVE ConsoleInv' /\ PatchesKept
<1> DEFINE h == "BackupsPolicySave"
           d == [db EXCEPT !.retention = n]
           done == Done(d, BackupsAt, "updated")
           bad == Failed(BackupsAt, "must be positive")
           out == IF ~CanMutate THEN Refuse(403) ELSE IF n <= 0 THEN bad ELSE done
<1>1. Reply(h, out)
  BY Zenon DEF BackupsPolicySave
<1>2. tab.fresh => CanMutate
  <2>1. h \notin {"NodeGroupScale", "LoginSubmit", "ClusterCreateSubmit", "APITokenDelete"}
    OBVIOUS
  <2>2. Sends("POST", h, "")
    BY Zenon DEF BackupsPolicySave
  <2> QED  BY <2>1, <2>2, FreshEditor, Zenon
<1>3. RowsOK(d) /\ d.patches = db.patches
  BY InvRows, WithRetention
<1> HIDE DEF d
<1>4. OutOK(h, done) /\ OutOK(h, bad)
  BY <1>3, InvRows, SavedOK, FailedOK, Zenon
<1> HIDE DEF done, bad
<1>5. OutOK(h, out)
  BY <1>2, <1>4, InvRows, RefuseStale, Zenon
<1> HIDE DEF out
<1> QED  BY <1>1, <1>5, ReplyStep, Zenon

\* BackupsRestore.
LEMMA RestoreFormStep ==
  ASSUME ConsoleInv, NEW s, BackupsRestore(s) PROVE ConsoleInv' /\ PatchesKept
<1> DEFINE h == "BackupsRestore"
           done == Done(db, BackupsAt, "restored")
           bad == Failed(BackupsAt, "not restorable")
           out == IF ~CanMutate THEN Refuse(403)
                  ELSE IF \A i \in DOMAIN db.snaps : db.snaps[i].name # s \/ db.snaps[i].status # "success"
                       THEN bad
                  ELSE done
<1>1. Reply(h, out)
  BY Zenon DEF BackupsRestore
<1>2. tab.fresh => CanMutate
  <2>1. h \notin {"NodeGroupScale", "LoginSubmit", "ClusterCreateSubmit", "APITokenDelete"}
    OBVIOUS
  <2>2. Sends("POST", h, "")
    BY Zenon DEF BackupsRestore
  <2> QED  BY <2>1, <2>2, FreshEditor, Zenon
<1>4. OutOK(h, done) /\ OutOK(h, bad)
  BY InvRows, SavedOK, FailedOK, Zenon
<1> HIDE DEF done, bad
<1>5. OutOK(h, out)
  BY <1>2, <1>4, InvRows, RefuseStale, Zenon
<1> HIDE DEF out
<1> QED  BY <1>1, <1>5, ReplyStep, Zenon

\* The users page gives its forms to an administrator only.
LEMMA FreshAdmin ==
  ASSUME ConsoleInv, NEW h \in {"UserCreate", "UserUpdate", "UserDelete"}, NEW a,
         Sends("POST", h, a), tab.fresh
  PROVE  IsAdmin
<1>1. h # "NodeGroupScale"
  OBVIOUS
<1> QED  BY <1>1, FreshOffered, OfferedAdmin, Zenon

\* UserCreate.
LEMMA UserCreateStep ==
  ASSUME ConsoleInv, NEW u, NEW role, UserCreate(u, role) PROVE ConsoleInv' /\ PatchesKept
<1> DEFINE h == "UserCreate"
           x == [v \in DOMAIN db.users \cup {u} |-> IF v = u THEN role ELSE db.users[v]]
           d == [db EXCEPT !.users = x]
           done == Done(d, UsersAt, "user created")
           bad == Failed(UsersAt, "user refused")
           out == IF ~IsAdmin THEN Refuse(403)
                  ELSE IF u = "" \/ u \in DOMAIN db.users THEN bad ELSE done
<1>1. Reply(h, out)
  BY Zenon DEF UserCreate
<1>2. tab.fresh => IsAdmin
  BY FreshAdmin, Zenon DEF UserCreate
<1> HIDE DEF x
<1>3. RowsOK(d) /\ d.patches = db.patches
  BY InvRows, WithUsers
<1> HIDE DEF d
<1>4. OutOK(h, done) /\ OutOK(h, bad)
  BY <1>3, InvRows, SavedOK, FailedOK, Zenon
<1> HIDE DEF done, bad
<1>5. OutOK(h, out)
  BY <1>2, <1>4, InvRows, RefuseStale, Zenon
<1> HIDE DEF out
<1> QED  BY <1>1, <1>5, ReplyStep, Zenon

\* UserUpdate.
LEMMA UserUpdateStep ==
  ASSUME ConsoleInv, NEW u, NEW role, UserUpdate(u, role) PROVE ConsoleInv' /\ PatchesKept
<1> DEFINE h == "UserUpdate"
           x == [db.users EXCEPT ![u] = role]
           d == [db EXCEPT !.users = x]
           done == Done(d, UsersAt, "user updated")
           bad == Failed(UsersAt, "not found")
           out == IF ~IsAdmin THEN Refuse(403) ELSE IF u \notin DOMAIN db.users THEN bad ELSE done
<1>1. Reply(h, out)
  <2>1. [db EXCEPT !.users[u] = role] = d
    OBVIOUS
  <2> HIDE DEF d
  <2> QED  BY <2>1, Zenon DEF UserUpdate
<1>2. tab.fresh => IsAdmin
  BY FreshAdmin, Zenon DEF UserUpdate
<1> HIDE DEF x
<1>3. RowsOK(d) /\ d.patches = db.patches
  BY InvRows, WithUsers
<1> HIDE DEF d
<1>4. OutOK(h, done) /\ OutOK(h, bad)
  BY <1>3, InvRows, SavedOK, FailedOK, Zenon
<1> HIDE DEF done, bad
<1>5. OutOK(h, out)
  BY <1>2, <1>4, InvRows, RefuseStale, Zenon
<1> HIDE DEF out
<1> QED  BY <1>1, <1>5, ReplyStep, Zenon

\* UserDelete.
LEMMA UserDeleteStep ==
  ASSUME ConsoleInv, NEW u, UserDelete(u) PROVE ConsoleInv' /\ PatchesKept
<1> DEFINE h == "UserDelete"
           x == [v \in DOMAIN db.users \ {u} |-> db.users[v]]
           d == [db EXCEPT !.users = x]
           done == Done(d, UsersAt, "user deleted")
           bad == Failed(UsersAt, "not deleted")
           out == IF ~IsAdmin THEN Refuse(403)
                  ELSE IF u = session.user \/ u \notin DOMAIN db.users THEN bad ELSE done
<1>1. Reply(h, out)
  BY Zenon DEF UserDelete
<1>2. tab.fresh => IsAdmin
  BY FreshAdmin, Zenon DEF UserDelete
<1> HIDE DEF x
<1>3. RowsOK(d) /\ d.patches = db.patches
  BY InvRows, WithUsers
<1> HIDE DEF d
<1>4. OutOK(h, done) /\ OutOK(h, bad)
  BY <1>3, InvRows, SavedOK, FailedOK, Zenon
<1> HIDE DEF done, bad
<1>5. OutOK(h, out)
  BY <1>2, <1>4, InvRows, RefuseStale, Zenon
<1> HIDE DEF out
<1> QED  BY <1>1, <1>5, ReplyStep, Zenon

\* APITokenCreate: the form of a fresh page is for the own user.
LEMMA TokenCreateStep ==
  ASSUME ConsoleInv, NEW u, NEW t, APITokenCreate(u, t) PROVE ConsoleInv' /\ PatchesKept
<1> DEFINE h == "APITokenCreate"
           allowed == CanMutate /\ (IsAdmin \/ session.user = u)
           made == allowed /\ u \in DOMAIN db.users
           x == db.tokens \cup {[name |-> t, owner |-> u]}
           d == [db EXCEPT !.tokens = x]
           done == Done(d, TokensAt, "token created")
           bad == Failed(TokensAt, "user not found")
           out == IF ~allowed THEN Refuse(403) ELSE IF ~made THEN bad ELSE done
<1>1. Reply(h, out)
  BY Zenon DEF APITokenCreate
<1>2. tab.fresh => allowed
  <2>1. h # "NodeGroupScale" /\ h \notin {"LoginSubmit", "ClusterCreateSubmit", "APITokenDelete"}
    OBVIOUS
  <2>2. Sends("POST", h, u)
    BY Zenon DEF APITokenCreate
  <2> QED  BY <2>1, <2>2, FreshOffered, OfferedMutate, OfferedToken, Zenon
<1> HIDE DEF x
<1>3. RowsOK(d) /\ d.patches = db.patches
  BY InvRows, WithTokens
<1> HIDE DEF d, made, allowed
<1>4. OutOK(h, done) /\ OutOK(h, bad)
  BY <1>3, InvRows, SavedOK, FailedOK, Zenon
<1> HIDE DEF done, bad
<1>5. OutOK(h, out)
  BY <1>2, <1>4, InvRows, RefuseStale, Zenon
<1> HIDE DEF out
<1> QED  BY <1>1, <1>5, ReplyStep, Zenon

\* APITokenDelete, the exception.
LEMMA TokenDeleteStep ==
  ASSUME ConsoleInv, NEW t, APITokenDelete(t) PROVE ConsoleInv' /\ PatchesKept
<1> DEFINE h == "APITokenDelete"
           x == db.tokens \ Named(db.tokens, t)
           d == [db EXCEPT !.tokens = x]
           done == Done(d, TokensAt, "token revoked")
           bad == Failed(TokensAt, "token not found")
           no == Refuse(403)
           out == IF ~CanMutate THEN no
                  ELSE IF ~Has(db.tokens, t) THEN bad
                  ELSE IF ~IsAdmin /\ Now(db.tokens, t).owner # session.user THEN no
                  ELSE done
<1>1. Reply(h, out)
  BY Zenon DEF APITokenDelete
<1> HIDE DEF x
<1>3. RowsOK(d) /\ d.patches = db.patches
  BY InvRows, WithTokens
<1> HIDE DEF d
<1>4. OutOK(h, done) /\ OutOK(h, bad) /\ OutOK(h, no)
  BY <1>3, InvRows, SavedOK, FailedOK, RefuseOK, ZenonT(60)
<1> HIDE DEF done, bad, no
<1>5. OutOK(h, out)
  BY <1>4, Zenon
<1> HIDE DEF out
<1> QED  BY <1>1, <1>5, ReplyStep, Zenon

-----------------------------------------------------------------------------
(* Signing in and out. *)

\* LoginSubmit shows the form again or sets the cookie.
LEMMA LoginStep ==
  ASSUME ConsoleInv, NEW u, NEW right, LoginSubmit(u, right) PROVE ConsoleInv' /\ PatchesKept
<1> DEFINE code == IF right /\ u \in DOMAIN db.users THEN 303 ELSE 200
<1>1. answer' = [handler |-> "LoginSubmit", code |-> code, fresh |-> tab.fresh] /\ db' = db
  BY Zenon DEF LoginSubmit
<1>2. answer'.code \notin {403, 404}
  BY <1>1
<1>3. CASE right /\ u \in DOMAIN db.users
  <2>1. tab' = [tab EXCEPT !.fresh = FALSE]
    BY <1>3, Zenon DEF LoginSubmit
  <2>2. RowsOK(db')
    BY <1>1, InvRows, Zenon
  <2>3. ConsoleInv'
    BY <1>2, <2>1, <2>2, StaleStep
  <2> QED  BY <1>1, <2>3, InvRows, SubsetKept, Zenon
<1>4. CASE ~(right /\ u \in DOMAIN db.users)
  <2> DEFINE S == LoginForm("invalid").content
  <2>1. tab' = [page |-> "login", body |-> S, fresh |-> TRUE] /\ session' = session
    BY <1>4, Zenon DEF LoginSubmit
  <2>2. Good(S)
    BY FineLogin, Zenon DEF Fine
  <2> HIDE DEF S
  <2>3. "login" # "dashboard"
    OBVIOUS
  <2>4. ConsoleInv'
    BY <1>1, <1>2, <2>1, <2>2, <2>3, NewPageStep
  <2> QED  BY <1>1, <2>4, InvRows, SubsetKept, Zenon
<1> QED  BY <1>3, <1>4

\* A step elsewhere that leaves every patch or takes some away.
LEMMA ElsewhereStep ==
  ASSUME ConsoleInv, tab' = [tab EXCEPT !.fresh = FALSE], answer' = answer, RowsOK(db'),
         db'.patches \subseteq db.patches
  PROVE  ConsoleInv' /\ PatchesKept
<1>1. answer'.fresh => answer'.code \notin {403, 404} \/ answer'.handler = "APITokenDelete"
  BY ZenonT(60) DEF ConsoleInv, FreshFormsAccepted
<1>2. ConsoleInv'
  BY <1>1, StaleStep
<1> QED  BY <1>2, InvRows, SubsetKept, Zenon

\* Logout, and another tab that changes the session.
LEMMA LogoutStep == ASSUME ConsoleInv, Logout PROVE ConsoleInv' /\ PatchesKept
<1>1. tab' = [tab EXCEPT !.fresh = FALSE] /\ answer' = answer /\ db' = db
  BY Zenon DEF Logout
<1>2. RowsOK(db') /\ db'.patches \subseteq db.patches
  BY <1>1, InvRows, Zenon
<1> QED  BY <1>1, <1>2, ElsewhereStep, Zenon
LEMMA SwitchStep == ASSUME ConsoleInv, NEW u, SwitchSession(u) PROVE ConsoleInv' /\ PatchesKept
<1>1. tab' = [tab EXCEPT !.fresh = FALSE] /\ answer' = answer /\ db' = db
  BY Zenon DEF SwitchSession
<1>2. RowsOK(db') /\ db'.patches \subseteq db.patches
  BY <1>1, InvRows, Zenon
<1> QED  BY <1>1, <1>2, ElsewhereStep, Zenon

\* Rows that change elsewhere make the page stale.
LEMMA MeanwhileStep ==
  ASSUME ConsoleInv, NEW d, Meanwhile(d), RowsOK(d), d.patches \subseteq db.patches
  PROVE  ConsoleInv' /\ PatchesKept
<1>1. tab' = [tab EXCEPT !.fresh = FALSE] /\ answer' = answer /\ db' = d
  BY Zenon DEF Meanwhile
<1>2. RowsOK(db') /\ db'.patches \subseteq db.patches
  BY <1>1, Zenon
<1> QED  BY <1>1, <1>2, ElsewhereStep, Zenon

-----------------------------------------------------------------------------
(* What happens elsewhere. *)

\* A node reports.
LEMMA ReportStep ==
  ASSUME ConsoleInv, NEW m \in db.machines, NEW stage, Report(m, stage) PROVE ConsoleInv' /\ PatchesKept
<1> DEFINE new == [m EXCEPT !.stage = stage, !.ready = (stage = "ready"), !.connected = (stage = "ready")]
           v == Replace(db.machines, m.name, new)
           d == [db EXCEPT !.machines = v]
<1>1. Meanwhile(d)
  BY Zenon DEF Report
<1>2. MachinesOK(db.machines)
  BY InvRows, RowsParts, Zenon
<1>3. new.name = m.name /\ IsMachine(new)
  <2>1. IsMachine(m)
    BY <1>2, Zenon DEF MachinesOK
  <2> DEFINE a == [m EXCEPT !.stage = stage]
             b == [a EXCEPT !.ready = (stage = "ready")]
  <2>2. new = [b EXCEPT !.connected = (stage = "ready")]
    OBVIOUS
  <2>3. IsMachine(a) /\ a.name = m.name
    BY <2>1 DEF IsMachine
  <2> HIDE DEF a
  <2>4. IsMachine(b) /\ b.name = m.name
    BY <2>3 DEF IsMachine
  <2> HIDE DEF b
  <2>5. IsMachine([b EXCEPT !.connected = (stage = "ready")])
        /\ [b EXCEPT !.connected = (stage = "ready")].name = m.name
    BY <2>4 DEF IsMachine
  <2> QED  BY <2>2, <2>5
<1> HIDE DEF new
<1>4. IsFiniteSet(v)
  BY <1>2, ReplaceFinite DEF MachinesOK
<1>5. \A x \in v : x = new \/ x \in db.machines
  BY Zenon DEF Replace
<1> HIDE DEF v
<1>6. MachinesOK(v)
  BY <1>2, <1>3, <1>4, <1>5, Zenon DEF MachinesOK
<1>7. RowsOK(d) /\ d.patches = db.patches
  BY <1>6, InvRows, WithMachines
<1> HIDE DEF d
<1> QED  BY <1>1, <1>7, MeanwhileStep, Zenon

\* The row of a machine goes.
LEMMA RemoveMachineStep ==
  ASSUME ConsoleInv, NEW m \in db.machines, RemoveMachine(m) PROVE ConsoleInv' /\ PatchesKept
<1> DEFINE v == db.machines \ {m}
           d == [db EXCEPT !.machines = v]
<1>1. Meanwhile(d)
  BY Zenon DEF RemoveMachine
<1>2. MachinesOK(db.machines)
  BY InvRows, RowsParts, Zenon
<1>3. v \in SUBSET db.machines
  OBVIOUS
<1>4. IsFiniteSet(v)
  BY <1>2, <1>3, FS_Subset DEF MachinesOK
<1> HIDE DEF v
<1>5. MachinesOK(v)
  BY <1>2, <1>3, <1>4, Zenon DEF MachinesOK
<1>6. RowsOK(d) /\ d.patches = db.patches
  BY <1>5, InvRows, WithMachines
<1> HIDE DEF d
<1> QED  BY <1>1, <1>6, MeanwhileStep, Zenon

\* The reconciler records a phase.
LEMMA RecordPhaseStep ==
  ASSUME ConsoleInv, NEW t \in db.tenants, RecordPhase(t) PROVE ConsoleInv' /\ PatchesKept
<1> DEFINE new == [t EXCEPT !.reconcile = "applied"]
           v == Replace(db.tenants, t.name, new)
           d == [db EXCEPT !.tenants = v]
<1>1. Meanwhile(d)
  BY Zenon DEF RecordPhase
<1>2. TenantsOK(db.tenants)
  BY InvRows, RowsParts, Zenon
<1>3. IsTenant(t)
  BY <1>2, Zenon DEF TenantsOK
<1>4. new.name = t.name /\ IsTenant(new)
  BY <1>3 DEF IsTenant
<1> HIDE DEF new
<1>5. IsFiniteSet(v)
  BY <1>2, ReplaceFinite, Zenon DEF TenantsOK
<1>6. NamesUnique(v)
  BY <1>2, <1>4, ReplaceUnique, Zenon DEF TenantsOK
<1>7. \A x \in v : x = new \/ x \in db.tenants
  BY Zenon DEF Replace
<1> HIDE DEF v
<1>8. TenantsOK(v)
  BY <1>2, <1>4, <1>5, <1>6, <1>7, Zenon DEF TenantsOK
<1>9. RowsOK(d) /\ d.patches = db.patches
  BY <1>8, InvRows, WithTenants
<1> HIDE DEF d
<1> QED  BY <1>1, <1>9, MeanwhileStep, Zenon

\* The reconciler removes a tenant with its groups and patches.
LEMMA RemoveTenantStep ==
  ASSUME ConsoleInv, NEW t \in db.tenants, RemoveTenant(t) PROVE ConsoleInv' /\ PatchesKept
<1> DEFINE v == db.tenants \ {t}
           w == {g \in db.groups : g.tenant # t.name}
           x == {p \in db.patches : p.tenant # t.name}
           d == [db EXCEPT !.tenants = v, !.groups = w, !.patches = x]
<1>1. Meanwhile(d)
  BY Zenon DEF RemoveTenant
<1>2. TenantsOK(db.tenants) /\ PatchesOK(db.patches)
  BY InvRows, RowsParts, Zenon
<1>3. v \in SUBSET db.tenants /\ x \subseteq db.patches
  OBVIOUS
<1>4. IsFiniteSet(v)
  <2>1. IsFiniteSet(db.tenants)
    BY <1>2, Zenon DEF TenantsOK
  <2> QED  BY <1>3, <2>1, FS_Subset
<1> HIDE DEF v, w, x
<1>5. TenantsOK(v)
  BY <1>2, <1>3, <1>4, SubsetUnique, Zenon DEF TenantsOK
<1>6. PatchesOK(x)
  BY <1>2, <1>3, SubsetPatches, Zenon
<1>7. RowsOK(d) /\ d.patches = x
  BY <1>5, <1>6, InvRows, WithoutTenant
<1> HIDE DEF d
<1> QED  BY <1>1, <1>3, <1>7, MeanwhileStep, Zenon

\* The REST interface removes a group or a patch.
LEMMA RemoveGroupStep ==
  ASSUME ConsoleInv, NEW g, RemoveGroup(g) PROVE ConsoleInv' /\ PatchesKept
<1> DEFINE v == db.groups \ {g}
           d == [db EXCEPT !.groups = v]
<1>1. Meanwhile(d)
  BY Zenon DEF RemoveGroup
<1> HIDE DEF v
<1>2. RowsOK(d) /\ d.patches = db.patches
  BY InvRows, WithGroups
<1> HIDE DEF d
<1> QED  BY <1>1, <1>2, MeanwhileStep, Zenon
LEMMA RemovePatchStep ==
  ASSUME ConsoleInv, NEW p, RemovePatch(p) PROVE ConsoleInv' /\ PatchesKept
<1> DEFINE v == db.patches \ {p}
           d == [db EXCEPT !.patches = v]
<1>1. Meanwhile(d)
  BY Zenon DEF RemovePatch
<1>2. v \subseteq db.patches
  OBVIOUS
<1> HIDE DEF v
<1>3. PatchesOK(v)
  BY <1>2, InvPatches, SubsetPatches, Zenon
<1>4. RowsOK(d) /\ d.patches = v
  BY <1>3, InvRows, WithPatches
<1> HIDE DEF d
<1> QED  BY <1>1, <1>2, <1>4, MeanwhileStep, Zenon

\* A run moves on.
LEMMA AdvanceStep ==
  ASSUME ConsoleInv, NEW r, NEW phase, Advance(r, phase) PROVE ConsoleInv' /\ PatchesKept
<1> DEFINE v == Replace(db.runs, r.name, [r EXCEPT !.phase = phase])
           d == [db EXCEPT !.runs = v]
<1>1. Meanwhile(d)
  BY Zenon DEF Advance
<1> HIDE DEF v
<1>2. RowsOK(d) /\ d.patches = db.patches
  BY InvRows, WithRuns
<1> HIDE DEF d
<1> QED  BY <1>1, <1>2, MeanwhileStep, Zenon

-----------------------------------------------------------------------------
(* The whole specification. *)

\* Showing a page changes no row.
LEMMA PageShown == ASSUME ConsoleInv, NEW target, Show(target) PROVE ConsoleInv' /\ PatchesKept
<1>1. ConsoleInv'
  BY ShowStep, Zenon
<1>2. db' = db
  BY Zenon DEF Show
<1> QED  BY <1>1, <1>2, InvRows, SubsetKept, Zenon

\* Every form.
LEMMA SubmitStep == ASSUME ConsoleInv, Submit PROVE ConsoleInv' /\ PatchesKept
<1>1. CASE \E name \in NewNames \cup {""} : ClusterCreateSubmit(name)
  BY <1>1, ClusterCreateStep, Zenon
<1>2. CASE \E c \in Forms("ClusterDelete") : ClusterDelete(c)
  BY <1>2, ClusterDeleteStep, Zenon
<1>3. CASE \E a \in Forms("NodeGroupScale"), n \in {0, 2, 101} : NodeGroupScale(a[1], a[2], n)
  <2>1. PICK a, n : NodeGroupScale(a[1], a[2], n)
    BY <1>3
  <2> QED  BY <2>1, NodeGroupScaleStep, Zenon
<1>4. CASE \E c \in Forms("NodeGroupCreate"), g \in NewNames, n \in {0, 1} : NodeGroupCreate(c, g, n)
  <2>1. PICK c, g, n : NodeGroupCreate(c, g, n)
    BY <1>4
  <2> QED  BY <2>1, NodeGroupCreateStep, Zenon
<1>5. CASE \E c \in Forms("ClusterUpgradeStart"), r \in RunIds, v \in {"", "1.13.0"} :
            ClusterUpgradeStart(c, r, v)
  BY <1>5, UpgradeStartStep, Zenon
<1>6. CASE \E a \in Forms("ClusterUpgradeCancel") : ClusterUpgradeCancel(a[1], a[2])
  BY <1>6, UpgradeCancelStep, Zenon
<1>7. CASE \E c \in Forms("ClusterPatchCreate"), p \in NewNames, f \in PatchForms : ClusterPatchCreate(c, p, f)
  BY <1>7, PatchCreateStep, Zenon
<1>8. CASE \E a \in Forms("ClusterPatchSave"), f \in PatchForms : ClusterPatchSave(a[1], a[2], f)
  BY <1>8, PatchSaveStep, Zenon
<1>9. CASE \E a \in Forms("ClusterPatchDelete") : ClusterPatchDelete(a[1], a[2])
  BY <1>9, PatchDeleteStep, Zenon
<1>10. CASE \E a \in Forms("ClusterPatchToggle") : ClusterPatchToggle(a[1], a[2])
  BY <1>10, PatchToggleStep, Zenon
<1>11. CASE \E id \in Forms("MachineKernelArgsSave"), args \in {"", "console=a", "console=b"} :
            MachineKernelArgsSave(id, args)
  BY <1>11, KernelArgsStep, Zenon
<1>12. CASE \E h \in {"MachineRestart", "MachineShutdown"} : \E id \in Forms(h) : MachineAction(h, id)
  BY <1>12, MachineActionStep, Zenon
<1>13. CASE \E h \in {"BackupsRunDatabase", "BackupsRunResources"}, ok \in BOOLEAN : BackupsRun(h, ok)
  BY <1>13, BackupsRunStep, Zenon
<1>14. CASE \E n \in {0, 3} : BackupsPolicySave(n)
  <2>1. PICK n : BackupsPolicySave(n)
    BY <1>14
  <2> QED  BY <2>1, PolicySaveStep, Zenon
<1>15. CASE \E i \in DOMAIN db.snaps : BackupsRestore(db.snaps[i].name)
  BY <1>15, RestoreFormStep, Zenon
<1>16. CASE \E u \in NewNames : UserCreate(u, "view")
  BY <1>16, UserCreateStep, Zenon
<1>17. CASE \E u \in Forms("UserUpdate") : UserUpdate(u, "view")
  BY <1>17, UserUpdateStep, Zenon
<1>18. CASE \E u \in Forms("UserDelete") : UserDelete(u)
  BY <1>18, UserDeleteStep, Zenon
<1>19. CASE \E u \in Forms("APITokenCreate"), t \in Tokens : APITokenCreate(u, t)
  BY <1>19, TokenCreateStep, Zenon
<1>20. CASE \E t \in Forms("APITokenDelete") : APITokenDelete(t)
  BY <1>20, TokenDeleteStep, Zenon
<1>21. CASE \E u \in DOMAIN Accounts, right \in BOOLEAN : LoginSubmit(u, right)
  BY <1>21, LoginStep, Zenon
<1> QED  BY <1>1, <1>2, <1>3, <1>4, <1>5, <1>6, <1>7, <1>8, <1>9, <1>10, <1>11, <1>12,
            <1>13, <1>14, <1>15, <1>16, <1>17, <1>18, <1>19, <1>20, <1>21, Zenon DEF Submit

\* Everything that happens elsewhere.
LEMMA ElsewhereSteps == ASSUME ConsoleInv, Elsewhere PROVE ConsoleInv' /\ PatchesKept
BY ReportStep, RemoveMachineStep, RecordPhaseStep, RemoveTenantStep, RemoveGroupStep,
   RemovePatchStep, AdvanceStep, SwitchStep, Zenon DEF Elsewhere

\* Every step keeps the invariant and the patches in their clusters.
LEMMA ConsoleStep ==
  ASSUME ConsoleInv, [ConsoleNext]_consoleVars PROVE ConsoleInv' /\ PatchesKept
<1>1. CASE ConsoleNext
  <2>1. CASE Visit \/ Follow
    BY <2>1, PageShown, Zenon DEF Visit, Follow
  <2>2. CASE Submit
    BY <2>2, SubmitStep, Zenon
  <2>3. CASE Logout
    BY <2>3, LogoutStep, Zenon
  <2>4. CASE Elsewhere
    BY <2>4, ElsewhereSteps, Zenon
  <2> QED  BY <1>1, <2>1, <2>2, <2>3, <2>4, Zenon DEF ConsoleNext
<1>2. CASE UNCHANGED consoleVars
  <2>1. tab' = tab /\ session' = session /\ db' = db /\ answer' = answer
    BY <1>2, Zenon DEF consoleVars
  <2>2. answer'.fresh => answer'.code \notin {403, 404} \/ answer'.handler = "APITokenDelete"
    BY <2>1, ZenonT(60) DEF ConsoleInv, FreshFormsAccepted
  <2>3. ConsoleInv'
    BY <2>1, <2>2, SamePageStep, Zenon
  <2> QED  BY <2>1, <2>3, InvRows, SubsetKept, Zenon
<1> QED  BY <1>1, <1>2

\* The invariant holds on an empty tab.
LEMMA ConsoleStart == ConsoleInit => ConsoleInv
<1> SUFFICES ASSUME ConsoleInit PROVE ConsoleInv
  OBVIOUS
<1>1. RowsOK(db)
  BY ConsoleAssumption, Zenon DEF ConsoleInit
<1>2. ~tab.fresh
  BY Zenon DEF ConsoleInit
<1>3. ~answer.fresh
  BY Zenon DEF ConsoleInit, NoAnswer
<1>4. IsTab
  BY Zenon DEF ConsoleInit, IsTab
<1> QED  BY <1>1, <1>2, <1>3, <1>4, Zenon
         DEF ConsoleInv, FormsOK, FreshFormsAccepted, PostureMatchesTable

\* The inductive invariant of the console: rows keep their shape and names, every
\* form on a fresh page is one whoever sees it may use on rows that are there,
\* no form of a fresh page was refused, and the dashboard counts right.
THEOREM ConsoleInvariant == ConsoleSpec => []ConsoleInv
<1>1. ConsoleInit => ConsoleInv
  BY ConsoleStart
<1>2. ConsoleInv /\ [ConsoleNext]_consoleVars => ConsoleInv'
  BY ConsoleStep
<1> QED  BY <1>1, <1>2, PTL DEF ConsoleSpec

\* FreshFormsAccepted, for any accounts, rows, names and number of events: the
\* templates show a form only where the handler behind it (CanMutate, IsAdmin
\* and the lookups of handlers/*) takes it.
THEOREM FormsAccepted == ConsoleSpec => []FreshFormsAccepted
<1>1. ConsoleInv => FreshFormsAccepted
  BY Zenon DEF ConsoleInv
<1> QED  BY <1>1, ConsoleInvariant, PTL

\* PostureMatchesTable, for any number of clusters and machines: posture.Build,
\* from one list of all machines, and the table, from one list per tenant, agree
\* on which clusters are active as long as the fleet fits into one list.
THEOREM PostureIsRight == ConsoleSpec => []PostureMatchesTable
<1>1. ConsoleInv => PostureMatchesTable
  BY Zenon DEF ConsoleInv
<1> QED  BY <1>1, ConsoleInvariant, PTL

\* PatchesStayInCluster, for any rows: no form of the console and nothing that
\* happens meanwhile takes a patch out of its cluster, but the kernel-args
\* editor writing its own patch a second time.
THEOREM PatchesStay == ConsoleSpec => PatchesStayInCluster
<1> DEFINE A == \A p \in db.patches : p.tenant # "" =>
                  \A q \in db'.patches : q.name = p.name /\ q.tenant # p.tenant =>
                    p.kind = "kernel-args" /\ answer'.handler = "MachineKernelArgsSave"
<1>1. ConsoleInv /\ [ConsoleNext]_consoleVars => [A]_consoleVars
  BY ConsoleStep, Zenon DEF PatchesKept
<1>2. ConsoleSpec => [][A]_consoleVars
  BY <1>1, ConsoleInvariant, PTL DEF ConsoleSpec
<1> QED  BY <1>2 DEF PatchesStayInCluster

-----------------------------------------------------------------------------
(* The backup service: requests. *)

Pcs == {"idle", "list", "upload", "copy", "record", "policy", "choose", "delete", "remove",
        "putPolicy", "get", "put", "status", "restored"}
Items == ExportedKinds \cup SnapshotRecord \cup EntryRecord

\* The fields of a request.
LEMMA RequestFields ==
  ASSUME NEW q \in RequestState
  PROVE  /\ q.pc \in Pcs /\ q.type \in Types \cup {""} /\ q.started \in 0..MaxTicks
         /\ q.nth \in Nat /\ q.data \in Seq(EntryRecord) /\ q.todo \in Seq(Items)
         /\ q.read \in Nat /\ q.touched \in SUBSET ExportedKinds
BY DEF RequestState, Pcs, Items

\* Nothing in no sequence.
LEMMA NoPlaces == Len(<<>>) = 0 /\ 1..0 = {}
OBVIOUS

\* A request at rest.
LEMMA RestingFacts ==
  /\ Resting \in RequestState /\ Resting.pc = "idle" /\ Resting.data = <<>>
  /\ Resting.todo = <<>> /\ Resting.touched = {} /\ Resting.read = 0 /\ Once(Resting.data)
<1>1. <<>> \in Seq(EntryRecord) /\ <<>> \in Seq(Items) /\ 0 \in 0..MaxTicks
  BY BackupAssumption DEF BackupAssumption
<1>2. Resting \in RequestState
  BY <1>1 DEF Resting, RequestState, Items
<1>3. Once(<<>>)
  BY NoPlaces DEF Once
<1> QED  BY <1>2, <1>3 DEF Resting

\* Become changes one request.
LEMMA BecomeFacts ==
  ASSUME req \in [Requests -> RequestState], NEW r \in Requests, NEW new \in RequestState,
         Become(r, new)
  PROVE  /\ req' \in [Requests -> RequestState] /\ req'[r] = new
         /\ \A q \in Requests : q # r => req'[q] = req[q]
BY DEF Become

\* The first of a sequence and the rest.
LEMMA HeadTail ==
  ASSUME NEW S, NEW s \in Seq(S), s # <<>>
  PROVE  /\ Head(s) = s[1] /\ Head(s) \in S /\ Tail(s) \in Seq(S) /\ Len(s) \in Nat
         /\ Len(s) >= 1 /\ 1 \in 1..Len(s) /\ Len(Tail(s)) = Len(s) - 1
         /\ \A i \in 1..(Len(s) - 1) : Tail(s)[i] = s[i + 1] /\ i + 1 \in 1..Len(s)
         /\ Tail(s) = <<>> <=> Len(s) = 1
<1>1. Len(s) \in Nat /\ Len(s) >= 1
  BY EmptySeq, LenProperties
<1>2. Head(s) = s[1] /\ s[1] \in S
  BY <1>1
<1>3. Tail(s) \in Seq(S) /\ Len(Tail(s)) = Len(s) - 1
  BY HeadTailProperties
<1>4. \A i \in 1..(Len(s) - 1) : Tail(s)[i] = s[i + 1] /\ i + 1 \in 1..Len(s)
  BY <1>1
<1>5. Tail(s) = <<>> <=> Len(Tail(s)) = 0
  BY <1>3, EmptySeq
<1> QED  BY <1>1, <1>2, <1>3, <1>4, <1>5

-----------------------------------------------------------------------------
(* What every part of the invariant asks of a step. *)

\* A request that is as it was.
Same(q) == req'[q] = req[q]

LEMMA TodoKeeps ==
  ASSUME TodoInv, \A q \in Requests : Same(q) \/ TodoOK(q)'
  PROVE  TodoInv'
<1>1. ASSUME NEW q \in Requests, Same(q) PROVE TodoOK(q)'
  BY <1>1 DEF TodoInv, TodoOK, Same, AtPC, Removing, Restoring
<1> QED  BY <1>1 DEF TodoInv

\* A request that began no snapshot and no removal in this step: one that
\* takes a snapshot keeps its number, one that removes records has no new one.
Calm(q) ==
  /\ Taking(q)' => /\ Taking(q) /\ req'[q].nth = req[q].nth /\ req'[q].type = req[q].type
                   /\ req'[q].started = req[q].started
  /\ Removing(q)' => /\ Removing(q)
                     /\ \A i \in 1..Len(req'[q].todo) :
                          \E j \in 1..Len(req[q].todo) : req'[q].todo[i] = req[q].todo[j]

LEMMA SameIsCalm ==
  ASSUME NEW q, Same(q)
  PROVE  Calm(q)
BY DEF Same, Calm, Taking, Removing

LEMMA NumberKeeps ==
  ASSUME NumberInv, BackupTypeOK, snaps' \subseteq snaps, doomed' = doomed, begun' \in Nat,
         begun' >= begun, \A q \in Requests : Calm(q), \A q \in Requests : req'[q].nth \in Nat
  PROVE  NumberInv'
<1>t. /\ begun \in Nat /\ \A s \in snaps : s.id \in Nat
      /\ \A i \in doomed : i \in Nat
  BY DEF BackupTypeOK, SnapshotRecord
<1>1. ASSUME NEW s \in snaps' PROVE RecordOK(s)'
  BY <1>t DEF NumberInv, RecordOK
<1>2. \A s, t \in snaps' : s.id = t.id => s = t
  BY DEF NumberInv
<1>3. \A i \in doomed' : i < begun'
  BY <1>t DEF NumberInv
<1>4. ASSUME NEW q \in Requests PROVE NumberOK(q)'
  <2>1. Calm(q) /\ NumberOK(q)
    BY DEF NumberInv
  <2>2. Taking(q)' => req'[q].nth < begun'
    BY <1>t, <2>1 DEF Calm, NumberOK
  <2>3. Removing(q)' => \A i \in 1..Len(req'[q].todo) : req'[q].todo[i].id \in doomed
    BY <2>1, Zenon DEF Calm, NumberOK
  <2> QED  BY <2>1, <2>2, <2>3 DEF Calm, NumberOK
<1>5. ASSUME NEW r \in Requests, NEW q \in Requests, Taking(r)', Taking(q)',
             req'[q].nth = req'[r].nth
      PROVE  q = r
  BY <1>5 DEF NumberInv, Calm
<1> QED  BY <1>1, <1>2, <1>3, <1>4, <1>5 DEF NumberInv

\* A request that writes the file it wrote.
Still(q) ==
  req'[q].pc \in {"copy", "record"} => req'[q].pc = req[q].pc /\ req'[q].data = req[q].data

\* The keys are pairs, unlike the key of a failed snapshot.
LEMMA KeyFacts ==
  /\ <<>> \notin FileKeys
  /\ \A t \in Types, at \in 0..MaxTicks : SnapshotKey(t, at) \in FileKeys
<1>1. \A a, b : <<a, b>> # <<>>
  OBVIOUS
<1> QED  BY <1>1 DEF FileKeys, SnapshotKey

\* No record is named anew for a key.
LEMMA NamesKeep ==
  ASSUME \A s \in snaps' : s \in snaps \/ s.key = <<>>,
         \A q \in Requests : Removing(q)' =>
           \A i \in 1..Len(req'[q].todo) :
             \/ req'[q].todo[i] \in snaps
             \/ (Removing(q) /\ \E j \in 1..Len(req[q].todo) : req'[q].todo[i] = req[q].todo[j]),
         NEW i, NEW key \in FileKeys, NamedBy(i, key)'
  PROVE  NamedBy(i, key)
<1>1. CASE \E s \in snaps' : s.id = i /\ s.key = key
  BY <1>1, KeyFacts, Zenon DEF NamedBy
<1>2. ASSUME NEW r \in Requests, Removing(r)', NEW j \in 1..Len(req'[r].todo),
             req'[r].todo[j].id = i, req'[r].todo[j].key = key
      PROVE  NamedBy(i, key)
  BY <1>2, Zenon DEF NamedBy
<1> QED  BY <1>1, <1>2, Zenon DEF NamedBy

\* FileInv is about the files, the uploads and who has to do with them.
LEMMA FileKeeps ==
  ASSUME FileInv, files' = files, uploads' = uploads, doomed \subseteq doomed',
         \A s \in snaps' : s \in snaps \/ s.key = <<>>,
         \A q \in Requests : Removing(q)' =>
           \A i \in 1..Len(req'[q].todo) :
             \/ req'[q].todo[i] \in snaps
             \/ (Removing(q) /\ \E j \in 1..Len(req[q].todo) : req'[q].todo[i] = req[q].todo[j]),
         \A q \in Requests : Taking(q)' => req'[q].type = req[q].type
                                           /\ req'[q].started = req[q].started,
         \A q \in Requests : Still(q)
  PROVE  FileInv'
<1>1. ASSUME NEW i, NEW key \in FileKeys, NamedBy(i, key)' PROVE NamedBy(i, key)
  BY <1>1, NamesKeep
<1>2. ASSUME NEW q \in Requests, NEW key \in FileKeys, WritesTo(q, key)'
      PROVE  WritesTo(q, key) /\ req'[q].pc = req[q].pc /\ req'[q].data = req[q].data
  BY <1>2 DEF WritesTo, Still, Taking
<1>3. ASSUME NEW key \in FileKeys, uploads[key] = 0 PROVE UnusedOK(key)'
  <2>1. UnusedOK(key)
    BY <1>3 DEF FileInv
  <2> QED  BY <1>1, <1>2, <2>1 DEF UnusedOK
<1>4. ASSUME NEW key \in FileKeys, uploads[key] = 1 PROVE UsedOnceOK(key)'
  <2>1. UsedOnceOK(key)
    BY <1>4 DEF FileInv
  <2>2. \A r, q \in Requests : WritesTo(r, key)' /\ WritesTo(q, key)' => r = q
    BY <1>2, <2>1 DEF UsedOnceOK
  <2>3. \A r \in Requests : WritesTo(r, key)' => \A i \in Nat : ~NamedBy(i, key)'
    BY <1>1, <1>2, <2>1 DEF UsedOnceOK
  <2>4. \A i, j \in Nat : NamedBy(i, key)' /\ NamedBy(j, key)' => i = j
    BY <1>1, <2>1 DEF UsedOnceOK
  <2>5. ASSUME NEW r \in Requests, WritesTo(r, key)'
        PROVE  files'[key] = IF AtPC(r, "copy")' THEN Torn ELSE Whole(req'[r].data)
    BY <1>2, <2>1, <2>5 DEF UsedOnceOK, AtPC
  <2>6. ASSUME NEW s \in snaps', s.key = key, s.id \notin doomed'
        PROVE  files'[key] = Whole(s.sum)
    <3>1. s \in snaps /\ s.id \notin doomed
      BY <2>6, KeyFacts
    <3> QED  BY <2>1, <2>6, <3>1 DEF UsedOnceOK
  <2> QED  BY <2>2, <2>3, <2>4, <2>5, <2>6 DEF UsedOnceOK, Whole
<1> QED  BY <1>3, <1>4 DEF FileInv

LEMMA DataKeeps ==
  ASSUME DataInv, files' = files, \A q \in Requests : Same(q) \/ DataOK(q)'
  PROVE  DataInv'
<1>1. ASSUME NEW q \in Requests, Same(q) PROVE DataOK(q)'
  BY <1>1 DEF DataInv, DataOK, Same, AtPC
<1> QED  BY <1>1 DEF DataInv

LEMMA RestoreKeeps ==
  ASSUME RestoreInv, objects' = objects, \A q \in Requests : Same(q) \/ RestoreOK(q)'
  PROVE  RestoreInv'
<1>1. ASSUME NEW q \in Requests, Same(q) PROVE RestoreOK(q)'
  <2>1. \A e : Applied(q, e)' <=> Applied(q, e)
    BY <1>1 DEF Same, Applied, Entry
  <2>2. \A e : Half(q, e)' <=> Half(q, e)
    BY <1>1 DEF Same, Half
  <2>3. RestoreOK(q)
    BY DEF RestoreInv
  <2> QED  BY <1>1, <2>1, <2>2, <2>3 DEF RestoreOK, Same, Restoring, AtPC
<1> QED  BY <1>1 DEF RestoreInv

LEMMA RetentionKeeps ==
  ASSUME RetentionInv, snaps' = snaps, doomed' = doomed, created' = created, lowest' = lowest,
         policy' = policy,
         \A q \in Requests : AtPC(q, "choose")' => AtPC(q, "choose") /\ req'[q].read = req[q].read
  PROVE  RetentionInv'
<1>1. Kept' = Kept
  BY DEF Kept
<1>2. \A q \in Requests : AtPC(q, "choose")' => req'[q].read >= lowest'
  BY DEF RetentionInv
<1> QED  BY <1>1, <1>2 DEF RetentionInv

-----------------------------------------------------------------------------
(* One request moves and the rest of the service stays as it is. *)

\* A request that has come to rest takes part in nothing.
LEMMA RestIsOK ==
  ASSUME NEW r, req'[r] = Resting
  PROVE  /\ TodoOK(r)' /\ DataOK(r)' /\ RestoreOK(r)' /\ Calm(r) /\ Still(r)
         /\ ~AtPC(r, "choose")' /\ ~Taking(r)' /\ ~Removing(r)' /\ ~Restoring(r)'
<1>1. /\ req'[r].pc = "idle" /\ Once(req'[r].data)
  BY RestingFacts
<1>2. ~Taking(r)' /\ ~Removing(r)' /\ ~Restoring(r)' /\ ~AtPC(r, "choose")' /\ ~AtPC(r, "list")'
  BY <1>1 DEF Taking, Removing, Restoring, AtPC
<1>3. DataOK(r)'
  BY <1>1, <1>2 DEF DataOK, Once
<1> QED  BY <1>1, <1>2, <1>3 DEF TodoOK, RestoreOK, Calm, Still

\* The parts of the invariant that are about one request, after a step that
\* changes nothing else they speak of.
LEMMA OneMoves ==
  ASSUME BackupInv, NEW r \in Requests, NEW new \in RequestState, Become(r, new),
         UNCHANGED <<objects, files, snaps, policy, begun, created, uploads, doomed, lowest>>,
         clock' = clock, edits' \in Nat, restores' \in Nat, bcrashes' \in Nat,
         TodoOK(r)', Calm(r), Still(r), DataOK(r)', RestoreOK(r)',
         AtPC(r, "choose")' => AtPC(r, "choose") /\ new.read = req[r].read
  PROVE  BackupInv'
<1>i. /\ BackupTypeOK /\ TodoInv /\ NumberInv /\ FileInv /\ RetentionInv /\ DataInv /\ RestoreInv
  BY DEF BackupInv
<1>1. /\ req' \in [Requests -> RequestState] /\ req'[r] = new
      /\ \A q \in Requests : q # r => Same(q)
  BY <1>i, BecomeFacts DEF BackupTypeOK, Same
<1>2. BackupTypeOK'
  BY <1>i, <1>1 DEF BackupTypeOK
<1>3. TodoInv'
  BY <1>i, <1>1, TodoKeeps
<1>4. \A q \in Requests : Calm(q)
  BY <1>1, SameIsCalm
<1>5. NumberInv'
  <2>1. begun \in Nat /\ \A q \in Requests : req'[q].nth \in Nat
    BY <1>i, <1>1, RequestFields DEF BackupTypeOK
  <2> QED  BY <1>i, <1>4, <2>1, NumberKeeps
<1>6. FileInv'
  <2>1. \A q \in Requests : Still(q)
    BY <1>1 DEF Still, Same
  <2> QED  BY <1>i, <1>4, <2>1, FileKeeps DEF Calm
<1>7. RetentionInv'
  <2>1. \A q \in Requests : AtPC(q, "choose")' => AtPC(q, "choose") /\ req'[q].read = req[q].read
    BY <1>1 DEF AtPC, Same
  <2> QED  BY <1>i, <2>1, RetentionKeeps
<1>8. DataInv' /\ RestoreInv'
  BY <1>i, <1>1, DataKeeps, RestoreKeeps
<1> QED  BY <1>2, <1>3, <1>5, <1>6, <1>7, <1>8 DEF BackupInv

\* A request ends and leaves everything as it is.
LEMMA EndsQuietly ==
  ASSUME BackupInv, NEW r \in Requests, Finish(r),
         UNCHANGED <<objects, files, snaps, policy, clock, edits, restores, begun, created, uploads,
                     doomed, lowest, bcrashes>>
  PROVE  BackupInv'
<1>1. Become(r, Resting)
  BY DEF Finish
<1>2. /\ BackupTypeOK /\ edits \in Nat /\ restores \in Nat /\ bcrashes \in Nat
  BY DEF BackupInv, BackupTypeOK
<1>3. req'[r] = Resting
  BY <1>1, <1>2, RestingFacts, BecomeFacts DEF BackupTypeOK
<1>4. AtPC(r, "choose")' => AtPC(r, "choose") /\ Resting.read = req[r].read
  BY <1>3, RestIsOK
<1> QED  BY <1>1, <1>2, <1>3, <1>4, RestingFacts, RestIsOK, OneMoves

\* The entry of an object as it is.
LEMMA EntryType ==
  ASSUME BackupTypeOK, NEW k \in ExportedKinds
  PROVE  Entry(k) \in EntryRecord /\ Entry(k).kind = k /\ Entry(k).spec = objects[k].spec
         /\ Entry(k).status = objects[k].status
BY DEF BackupTypeOK, Entry, EntryRecord

LEMMA ExportedFacts ==
  /\ Exported \in Seq(ExportedKinds) /\ Exported # <<>> /\ DOMAIN Exported = 1..Len(Exported)
  /\ \A i, j \in 1..Len(Exported) : Exported[i] = Exported[j] => i = j
  /\ \A i \in 1..Len(Exported) : Exported[i] \in ExportedKinds
<1>1. Exported \in Seq(ExportedKinds) /\ Exported # <<>>
  BY BackupAssumption DEF BackupAssumption, ExportedKinds
<1>2. DOMAIN Exported = 1..Len(Exported)
  BY <1>1
<1> QED  BY <1>1, <1>2, BackupAssumption DEF BackupAssumption

-----------------------------------------------------------------------------
(* Taking a snapshot. *)

\* A snapshot begins under a number that nothing bears.
LEMMA BeginStep ==
  ASSUME BackupInv, NEW r \in Requests, NEW type, NEW pc \in {"list", "upload"},
         NEW data \in Seq(EntryRecord), NEW todo \in Seq(ExportedKinds),
         Begin(r, type, pc, data, todo), Once(data),
         pc = "list" => /\ todo # <<>> /\ data = <<>>
                        /\ \A i, j \in 1..Len(todo) : todo[i] = todo[j] => i = j
  PROVE  BackupInv'
<1> DEFINE new == [Resting EXCEPT !.pc = pc, !.type = type, !.started = clock, !.nth = begun,
                                  !.data = data, !.todo = todo]
<1>i. /\ BackupTypeOK /\ TodoInv /\ NumberInv /\ FileInv /\ RetentionInv /\ DataInv /\ RestoreInv
  BY DEF BackupInv
<1>t. /\ begun \in Nat /\ begun + 1 \in Nat /\ begun + 1 > begun /\ clock \in 0..MaxTicks
      /\ req \in [Requests -> RequestState]
  BY <1>i DEF BackupTypeOK
<1>u. /\ UNCHANGED <<objects, files, snaps, policy, clock, edits, restores, created, uploads,
                     doomed, lowest, bcrashes>>
      /\ begun' = begun + 1 /\ Become(r, new) /\ type \in Types /\ AtPC(r, "idle")
  BY DEF Begin
<1>n. /\ new \in RequestState /\ new.pc = pc /\ new.type = type /\ new.started = clock
      /\ new.nth = begun /\ new.data = data /\ new.todo = todo
  <2>1. todo \in Seq(Items)
    BY DEF Items
  <2> QED  BY <1>t, <1>u, <2>1, RestingFacts DEF RequestState, Items
<1> HIDE DEF new
<1>1. /\ req' \in [Requests -> RequestState] /\ req'[r] = new
      /\ \A q \in Requests : q # r => Same(q)
  BY <1>t, <1>u, <1>n, BecomeFacts DEF Same
<1>2. /\ ~Removing(r)' /\ ~Restoring(r)' /\ ~AtPC(r, "choose")' /\ Still(r) /\ ~Taking(r)
      /\ (AtPC(r, "list")' => pc = "list")
  BY <1>u, <1>n, <1>1 DEF Taking, Removing, Restoring, AtPC, Still
<1>3. BackupTypeOK'
  BY <1>i, <1>t, <1>u, <1>1 DEF BackupTypeOK
<1>4. TodoInv'
  <2>1. TodoOK(r)'
    BY <1>n, <1>1, <1>2 DEF TodoOK
  <2> QED  BY <1>i, <1>1, <2>1, TodoKeeps
<1>5. NumberInv'
  <2>1. /\ \A s \in snaps : s.id \in Nat /\ s.id < begun
        /\ \A i \in doomed : i \in Nat /\ i < begun
    BY <1>i DEF NumberInv, RecordOK, BackupTypeOK, SnapshotRecord
  <2>2. ASSUME NEW s \in snaps PROVE RecordOK(s)'
    BY <1>i, <1>t, <1>u, <2>1, <2>2 DEF NumberInv, RecordOK
  <2>3. ASSUME NEW q \in Requests, q # r PROVE NumberOK(q)' /\ Calm(q) /\ (Taking(q) => req[q].nth < begun)
    <3>1. NumberOK(q) /\ Same(q) /\ req[q].nth \in Nat
      BY <1>i, <1>t, <1>1, <2>3, RequestFields DEF NumberInv
    <3>2. Taking(q)' => req'[q].nth < begun'
      BY <1>t, <1>u, <3>1 DEF NumberOK, Same, Taking
    <3> QED  BY <1>u, <3>1, <3>2, SameIsCalm DEF NumberOK, Same, Taking, Removing
  <2>4. NumberOK(r)'
    BY <1>t, <1>u, <1>n, <1>1, <1>2, <2>1 DEF NumberOK
  <2>5. ASSUME NEW p \in Requests, NEW q \in Requests, Taking(p)', Taking(q)',
               req'[q].nth = req'[p].nth
        PROVE  q = p
    <3>1. CASE p # r /\ q # r
      BY <1>i, <2>3, <2>5, <3>1 DEF NumberInv, Calm
    <3>2. ASSUME NEW x \in Requests, x # r, Taking(x)' PROVE req'[x].nth # req'[r].nth
      <4>1. Taking(x) /\ req'[x].nth = req[x].nth /\ req[x].nth < begun /\ req[x].nth \in Nat
        BY <1>t, <2>3, <3>2, RequestFields DEF Calm
      <4> QED  BY <1>n, <1>t, <1>1, <4>1
    <3> QED  BY <2>5, <3>1, <3>2
  <2>6. \A i \in doomed' : i < begun'
    BY <1>t, <1>u, <2>1
  <2> QED  BY <1>i, <1>u, <2>2, <2>3, <2>4, <2>5, <2>6 DEF NumberInv
<1>6. FileInv'
  <2>1. \A q \in Requests : Still(q)
    BY <1>1, <1>2 DEF Still, Same
  <2>2. \A q \in Requests : q # r => Calm(q)
    BY <1>1, SameIsCalm
  <2>3. ASSUME NEW key \in FileKeys, NEW q \in Requests, WritesTo(q, key)'
        PROVE  q # r
    BY <1>n, <1>1, <2>3 DEF WritesTo
  <2>4. \A i, key : NamedBy(i, key)' <=> NamedBy(i, key)
    <3>1. \A q \in Requests : Removing(q)' <=> Removing(q)
      BY <1>u, <1>1, <1>2 DEF Removing, Same, AtPC
    <3>2. \A q \in Requests : Removing(q) => req'[q].todo = req[q].todo
      BY <1>u, <1>1 DEF Removing, Same, AtPC
    <3> QED  BY <1>u, <3>1, <3>2 DEF NamedBy
  <2>5. \A q \in Requests, key \in FileKeys : WritesTo(q, key)' => WritesTo(q, key) /\ Same(q)
    BY <1>1, <2>3 DEF WritesTo, Same
  <2>6. ASSUME NEW key \in FileKeys, uploads[key] = 0 PROVE UnusedOK(key)'
    BY <1>i, <2>4, <2>5, <2>6 DEF FileInv, UnusedOK
  <2>7. ASSUME NEW key \in FileKeys, uploads[key] = 1 PROVE UsedOnceOK(key)'
    <3>1. UsedOnceOK(key)
      BY <1>i, <2>7 DEF FileInv
    <3>2. ASSUME NEW q \in Requests, WritesTo(q, key)'
          PROVE  files'[key] = IF AtPC(q, "copy")' THEN Torn ELSE Whole(req'[q].data)
      <4>1. WritesTo(q, key) /\ Same(q)
        BY <2>5, <3>2
      <4> QED  BY <1>u, <3>1, <4>1 DEF UsedOnceOK, AtPC, Same
    <3> QED  BY <1>u, <2>4, <2>5, <3>1, <3>2 DEF UsedOnceOK, Whole
  <2> QED  BY <1>u, <2>6, <2>7 DEF FileInv
<1>7. RetentionInv'
  <2>1. \A q \in Requests : AtPC(q, "choose")' => AtPC(q, "choose") /\ req'[q].read = req[q].read
    BY <1>1, <1>2 DEF AtPC, Same
  <2> QED  BY <1>i, <1>u, <2>1, RetentionKeeps
<1>8. DataInv' /\ RestoreInv'
  <2>1. DataOK(r)'
    BY <1>n, <1>1, <1>2, NoPlaces DEF DataOK, Once
  <2>2. RestoreOK(r)'
    BY <1>2 DEF RestoreOK
  <2> QED  BY <1>i, <1>u, <1>1, <2>1, <2>2, DataKeeps, RestoreKeeps
<1> QED  BY <1>3, <1>4, <1>5, <1>6, <1>7, <1>8 DEF BackupInv

LEMMA TriggerDatabaseStep ==
  ASSUME BackupInv, NEW r \in Requests, TriggerDatabase(r)
  PROVE  BackupInv'
<1> DEFINE data == [i \in DOMAIN Exported |-> Entry(Exported[i])]
<1>1. \A i \in 1..Len(Exported) : Entry(Exported[i]) \in EntryRecord
                                   /\ Entry(Exported[i]).kind = Exported[i]
  BY ExportedFacts, EntryType DEF BackupInv
<1>2. data \in Seq(EntryRecord) /\ Len(data) = Len(Exported)
  BY <1>1, ExportedFacts
<1>3. Once(data)
  <2>1. \A i \in 1..Len(data) : data[i].kind = Exported[i]
    BY <1>1, <1>2, ExportedFacts
  <2> HIDE DEF data
  <2> QED  BY <1>2, <2>1, ExportedFacts DEF Once
<1>4. Begin(r, "database", "upload", data, <<>>)
  BY DEF TriggerDatabase
<1> HIDE DEF data
<1>5. <<>> \in Seq(ExportedKinds)
  OBVIOUS
<1> QED  BY <1>2, <1>3, <1>4, <1>5, BeginStep

LEMMA TriggerResourcesStep ==
  ASSUME BackupInv, NEW r \in Requests, TriggerResources(r)
  PROVE  BackupInv'
<1>1. Begin(r, "resources", "list", <<>>, Exported)
  BY DEF TriggerResources
<1>2. Once(<<>>) /\ <<>> \in Seq(EntryRecord)
  BY NoPlaces DEF Once
<1> QED  BY <1>1, <1>2, ExportedFacts, BeginStep

\* The entries listed so far and the kinds to come.
Listing(data, todo) ==
  /\ data \in Seq(EntryRecord) /\ Once(data) /\ todo \in Seq(ExportedKinds)
  /\ \A i, j \in 1..Len(todo) : todo[i] = todo[j] => i = j
  /\ \A i \in 1..Len(todo), j \in 1..Len(data) : todo[i] # data[j].kind

\* What resourceSnapshot adds for a kind: its entry, or nothing.
LEMMA ListsKind ==
  ASSUME NEW data, NEW todo, Listing(data, todo), todo # <<>>,
         NEW e \in EntryRecord, e.kind = Head(todo), NEW more, more \in {<<>>, <<e>>}
  PROVE  Listing(data \o more, Tail(todo))
<1>0. /\ data \in Seq(EntryRecord) /\ Once(data) /\ todo \in Seq(ExportedKinds)
      /\ \A i, j \in 1..Len(todo) : todo[i] = todo[j] => i = j
      /\ \A i \in 1..Len(todo), j \in 1..Len(data) : todo[i] # data[j].kind
  BY DEF Listing
<1>1. /\ Tail(todo) \in Seq(ExportedKinds) /\ Len(Tail(todo)) = Len(todo) - 1 /\ Len(todo) \in Nat
      /\ Head(todo) = todo[1] /\ 1 \in 1..Len(todo)
      /\ \A i \in 1..(Len(todo) - 1) : Tail(todo)[i] = todo[i + 1] /\ i + 1 \in 1..Len(todo)
  BY <1>0, HeadTail
<1>2. \A i, j \in 1..Len(Tail(todo)) : Tail(todo)[i] = Tail(todo)[j] => i = j
  <2> SUFFICES ASSUME NEW i \in 1..(Len(todo) - 1), NEW j \in 1..(Len(todo) - 1),
                      Tail(todo)[i] = Tail(todo)[j]
               PROVE  i = j
    BY <1>1
  <2>1. i + 1 = j + 1
    BY <1>0, <1>1
  <2> QED  BY <1>1, <2>1
<1>3. \A i \in 1..Len(Tail(todo)) : /\ Tail(todo)[i] # e.kind
                                    /\ \A j \in 1..Len(data) : Tail(todo)[i] # data[j].kind
  <2> SUFFICES ASSUME NEW i \in 1..(Len(todo) - 1)
               PROVE  /\ Tail(todo)[i] # e.kind
                      /\ \A j \in 1..Len(data) : Tail(todo)[i] # data[j].kind
    BY <1>1
  <2>1. i + 1 # 1
    BY <1>1
  <2> QED  BY <1>0, <1>1, <2>1
<1>4. CASE more = <<>>
  <2>1. data \o more = data
    BY <1>0, <1>4, ConcatEmptySeq
  <2> QED  BY <1>0, <1>1, <1>2, <1>3, <2>1 DEF Listing
<1>5. CASE more = <<e>>
  <2> DEFINE all == data \o more
             n == Len(data)
  <2>1. /\ all \in Seq(EntryRecord) /\ Len(all) = n + 1 /\ n \in Nat /\ all[n + 1] = e
        /\ \A i \in 1..n : all[i] = data[i]
    BY <1>0, <1>5
  <2> HIDE DEF all, n
  <2>2. \A i \in 1..(n + 1) : i = n + 1 \/ i \in 1..n
    BY <2>1
  <2>3. \A j \in 1..n : data[j].kind # e.kind
    BY <1>0, <1>1 DEF n
  <2>4. Once(all)
    <3> SUFFICES ASSUME NEW i \in 1..(n + 1), NEW j \in 1..(n + 1), all[i].kind = all[j].kind
                 PROVE  i = j
      BY <2>1 DEF Once
    <3> QED  BY <1>0, <2>1, <2>2, <2>3 DEF Once, n
  <2>5. \A i \in 1..Len(Tail(todo)), j \in 1..Len(all) : Tail(todo)[i] # all[j].kind
    BY <1>3, <2>1, <2>2 DEF n
  <2> QED  BY <1>1, <1>2, <2>1, <2>4, <2>5 DEF all, Listing
<1> QED  BY <1>4, <1>5

LEMMA ResourceSnapshotStep ==
  ASSUME BackupInv, NEW r \in Requests, resourceSnapshot(r)
  PROVE  BackupInv'
<1> DEFINE k == Head(req[r].todo)
           found == IF objects[k].version = 0 THEN <<>> ELSE <<Entry(k)>>
           pc == IF Len(req[r].todo) = 1 THEN "upload" ELSE "list"
           new == [req[r] EXCEPT !.data = @ \o found, !.todo = Tail(@), !.pc = pc]
<1>i. /\ BackupTypeOK /\ req[r] \in RequestState /\ TodoOK(r) /\ DataOK(r)
      /\ edits \in Nat /\ restores \in Nat /\ bcrashes \in Nat
  BY DEF BackupInv, BackupTypeOK, TodoInv, DataInv
<1>u. /\ UNCHANGED <<objects, files, snaps, policy, clock, edits, restores, begun, created, uploads,
                     doomed, lowest, bcrashes>>
      /\ Become(r, new) /\ AtPC(r, "list")
  BY DEF resourceSnapshot
<1>1. /\ req[r].todo \in Seq(ExportedKinds) /\ req[r].todo # <<>> /\ k \in ExportedKinds
      /\ Len(req[r].todo) \in Nat /\ Len(Tail(req[r].todo)) = Len(req[r].todo) - 1
      /\ (Tail(req[r].todo) = <<>> <=> Len(req[r].todo) = 1)
  BY <1>i, <1>u, HeadTail DEF TodoOK
<1>2. /\ Entry(k) \in EntryRecord /\ Entry(k).kind = Head(req[r].todo) /\ found \in {<<>>, <<Entry(k)>>}
      /\ req[r].data \in Seq(EntryRecord)
  BY <1>i, <1>1, EntryType, RequestFields
<1> HIDE DEF found
<1> DEFINE data == req[r].data \o found
           todo == Tail(req[r].todo)
<1>3. Listing(data, todo)
  <2> DEFINE e == Entry(k)
  <2>1. Listing(req[r].data, req[r].todo)
    BY <1>i, <1>u, <1>1, <1>2 DEF DataOK, Listing
  <2>2. e \in EntryRecord /\ e.kind = Head(req[r].todo) /\ found \in {<<>>, <<e>>}
    BY <1>2
  <2> HIDE DEF e
  <2> QED  BY <1>1, <2>1, <2>2, ListsKind
<1>4. pc \in Pcs /\ pc \in {"list", "upload"} /\ (pc = "list" <=> todo # <<>>)
  BY <1>1 DEF Pcs
<1>5. new = [req[r] EXCEPT !.data = data, !.todo = todo, !.pc = pc]
  OBVIOUS
<1>6. todo \in Seq(Items)
  BY <1>3 DEF Items, Listing
<1> HIDE DEF pc, new, data, todo, k
<1>7. /\ new \in RequestState /\ new.pc = pc /\ new.data = data /\ new.todo = todo
      /\ new.type = req[r].type /\ new.started = req[r].started /\ new.nth = req[r].nth
  BY <1>i, <1>3, <1>4, <1>5, <1>6 DEF RequestState, Items, Pcs, Listing
<1>8. req'[r] = new
  BY <1>i, <1>u, <1>7, BecomeFacts DEF BackupTypeOK
<1>9. /\ ~Removing(r)' /\ ~Restoring(r)' /\ ~AtPC(r, "choose")' /\ Still(r) /\ Taking(r)
      /\ (AtPC(r, "list")' <=> todo # <<>>)
  BY <1>u, <1>4, <1>7, <1>8 DEF Taking, Removing, Restoring, AtPC, Still
<1>10. TodoOK(r)' /\ RestoreOK(r)' /\ Calm(r)
  BY <1>3, <1>7, <1>8, <1>9 DEF TodoOK, RestoreOK, Calm, Listing
<1>11. DataOK(r)'
  BY <1>3, <1>7, <1>8 DEF DataOK, Once, Listing
<1> QED  BY <1>i, <1>u, <1>7, <1>9, <1>10, <1>11, OneMoves

\* A record is added under the number of the request that ends with it.
LEMMA AddsRecord ==
  ASSUME BackupInv, NEW r \in Requests, Taking(r), NEW s \in SnapshotRecord, s.id = req[r].nth,
         s.status = "success" <=> s.key # <<>>,
         snaps' = snaps \cup {s}, created' = created + 1, doomed' = doomed, begun' = begun,
         req' \in [Requests -> RequestState], \A q \in Requests : q # r => Same(q),
         ~Taking(r)', ~Removing(r)'
  PROVE  /\ snaps' \subseteq SnapshotRecord /\ IsFiniteSet(snaps') /\ NumberInv'
         /\ Cardinality(snaps') = Cardinality(snaps) + 1
         /\ Cardinality(Kept') >= Cardinality(Kept) /\ IsFiniteSet(Kept')
         /\ \A t \in snaps' : t.id \in doomed =>
              t \in snaps /\ {x \in Kept : Before(x, t)} \subseteq {x \in Kept' : Before(x, t)}
<1>i. /\ BackupTypeOK /\ NumberInv /\ NumberOK(r) /\ snaps \subseteq SnapshotRecord
      /\ IsFiniteSet(snaps) /\ begun \in Nat
  BY DEF BackupInv, NumberInv, BackupTypeOK
<1>1. s \notin snaps /\ s.id < begun /\ s.id \notin doomed /\ \A t \in snaps : t.id # s.id
  BY <1>i DEF NumberOK
<1>2. IsFiniteSet(snaps') /\ Cardinality(snaps') = Cardinality(snaps) + 1
  BY <1>i, <1>1, FS_AddElement
<1>3. Kept \subseteq Kept' /\ Kept' \subseteq snaps'
  BY DEF Kept
<1>4. IsFiniteSet(Kept') /\ Cardinality(Kept') >= Cardinality(Kept)
  <2>1. IsFiniteSet(Kept')
    BY <1>2, <1>3, FS_Subset
  <2>2. IsFiniteSet(Kept) /\ Cardinality(Kept) <= Cardinality(Kept')
    BY <1>3, <2>1, FS_Subset
  <2>3. Cardinality(Kept) \in Nat /\ Cardinality(Kept') \in Nat
    BY <2>1, <2>2, FS_CardinalityType
  <2> QED  BY <2>1, <2>2, <2>3
<1>5. NumberInv'
  <2>1. ASSUME NEW t \in snaps' PROVE RecordOK(t)'
    BY <1>i, <1>1, <2>1 DEF NumberInv, RecordOK
  <2>2. \A t, x \in snaps' : t.id = x.id => t = x
    BY <1>i, <1>1 DEF NumberInv
  <2>3. ASSUME NEW q \in Requests PROVE NumberOK(q)' /\ (Taking(q)' => q # r /\ Taking(q))
    <3>1. CASE q = r
      BY <3>1 DEF NumberOK
    <3>2. CASE q # r
      <4>1. NumberOK(q) /\ Same(q)
        BY <1>i, <3>2 DEF NumberInv
      <4>2. Taking(q) => req[q].nth # s.id
        BY <1>i, <3>2 DEF NumberInv
      <4> QED  BY <3>2, <4>1, <4>2 DEF NumberOK, Same, Taking, Removing
    <3> QED  BY <3>1, <3>2
  <2>4. \A p, q \in Requests : Taking(p)' /\ Taking(q)' /\ req'[q].nth = req'[p].nth => q = p
    BY <1>i, <2>3 DEF NumberInv, Same
  <2>5. \A i \in doomed' : i < begun'
    BY <1>i DEF NumberInv
  <2> QED  BY <2>1, <2>2, <2>3, <2>4, <2>5 DEF NumberInv
<1>6. ASSUME NEW t \in snaps', t.id \in doomed
      PROVE  t \in snaps /\ {x \in Kept : Before(x, t)} \subseteq {x \in Kept' : Before(x, t)}
  BY <1>1, <1>3, <1>6
<1> QED  BY <1>i, <1>2, <1>4, <1>5, <1>6

\* Retention after a record was added.
LEMMA AddKeepsRetention ==
  ASSUME BackupInv, IsFiniteSet(Kept'), Cardinality(Kept') >= Cardinality(Kept),
         Cardinality(snaps') = Cardinality(snaps) + 1, created' = created + 1,
         \A t \in snaps' : t.id \in doomed =>
           t \in snaps /\ {x \in Kept : Before(x, t)} \subseteq {x \in Kept' : Before(x, t)},
         UNCHANGED <<policy, lowest, doomed>>,
         \A q \in Requests : ~AtPC(q, "choose")' \/ Same(q)
  PROVE  RetentionInv'
<1>i. RetentionInv /\ lowest \in Nat /\ IsFiniteSet(snaps) /\ created \in Nat
  BY DEF BackupInv, BackupTypeOK
<1>1. ASSUME NEW t \in snaps', t.id \in doomed
      PROVE  Cardinality({x \in Kept' : Before(x, t)}) >= lowest
  <2> DEFINE A == {x \in Kept : Before(x, t)}
             B == {x \in Kept' : Before(x, t)}
  <2>1. A \subseteq B /\ B \subseteq Kept' /\ t \in snaps
    BY <1>1
  <2>2. IsFiniteSet(B)
    BY <2>1, FS_Subset
  <2>3. IsFiniteSet(A) /\ Cardinality(A) <= Cardinality(B)
    BY <2>1, <2>2, FS_Subset
  <2>4. Cardinality(A) \in Nat /\ Cardinality(B) \in Nat
    BY <2>2, <2>3, FS_CardinalityType
  <2>5. Cardinality(A) >= lowest
    BY <1>i, <1>1, <2>1 DEF RetentionInv
  <2> HIDE DEF A, B
  <2>6. Cardinality(B) >= lowest
    BY <1>i, <2>3, <2>4, <2>5
  <2> QED  BY <2>6 DEF B
<1>2. \A q \in Requests : AtPC(q, "choose")' => req'[q].read >= lowest
  BY <1>i DEF RetentionInv, AtPC, Same
<1>3. (doomed' = {} /\ Cardinality(snaps') = created') \/ Cardinality(Kept') >= lowest
  <2>2. IsFiniteSet(Kept)
    <3>1. Kept \subseteq snaps
      BY DEF Kept
    <3> QED  BY <1>i, <3>1, FS_Subset
  <2>3. Cardinality(Kept) \in Nat /\ Cardinality(Kept') \in Nat
    BY <2>2, FS_CardinalityType
  <2>4. (doomed = {} /\ Cardinality(snaps) = created) \/ Cardinality(Kept) >= lowest
    BY <1>i DEF RetentionInv
  <2> QED  BY <1>i, <2>3, <2>4
<1> QED  BY <1>i, <1>1, <1>2, <1>3 DEF RetentionInv

\* A snapshot fails, and its failure is recorded or not.
LEMMA FailStep ==
  ASSUME BackupInv, NEW r \in Requests, Taking(r), recordFailure(r), Finish(r),
         UNCHANGED <<objects, files, policy, clock, edits, restores, begun, uploads, doomed, lowest,
                     bcrashes>>
  PROVE  BackupInv'
<1> DEFINE s == [id |-> req[r].nth, type |-> req[r].type, key |-> <<>>, at |-> clock,
                 status |-> "failed", sum |-> <<>>]
<1>1. CASE UNCHANGED <<snaps, created>>
  BY <1>1, EndsQuietly
<1>2. CASE snaps' = snaps \cup {s} /\ created' = created + 1
  <2>i. /\ BackupTypeOK /\ TodoInv /\ NumberInv /\ FileInv /\ RetentionInv /\ DataInv /\ RestoreInv
    BY DEF BackupInv
  <2>1. /\ req' \in [Requests -> RequestState] /\ req'[r] = Resting
        /\ \A q \in Requests : q # r => Same(q)
    BY <2>i, RestingFacts, BecomeFacts DEF BackupTypeOK, Same, Finish
  <2>2. /\ TodoOK(r)' /\ DataOK(r)' /\ RestoreOK(r)' /\ Calm(r) /\ Still(r)
        /\ ~AtPC(r, "choose")' /\ ~Taking(r)' /\ ~Removing(r)'
    BY <2>1, RestIsOK
  <2>3. s \in SnapshotRecord /\ s.id = req[r].nth /\ (s.status = "success" <=> s.key # <<>>)
        /\ s.key = <<>>
    <3>1. req[r].type \in Types /\ req[r].nth \in Nat /\ clock \in Nat /\ <<>> \in Seq(EntryRecord)
      <4>1. NumberOK(r) /\ req[r] \in RequestState /\ clock \in 0..MaxTicks
        BY <2>i DEF NumberInv, BackupTypeOK
      <4>2. clock \in Nat
        BY <4>1
      <4>3. <<>> \in Seq(EntryRecord)
        OBVIOUS
      <4>4. req[r].type \in Types
        BY <4>1 DEF NumberOK
      <4> QED  BY <4>1, <4>2, <4>3, <4>4, RequestFields
    <3> QED  BY <3>1 DEF SnapshotRecord
  <2> HIDE DEF s
  <2>4. /\ snaps' \subseteq SnapshotRecord /\ IsFiniteSet(snaps') /\ NumberInv'
        /\ Cardinality(snaps') = Cardinality(snaps) + 1
        /\ Cardinality(Kept') >= Cardinality(Kept) /\ IsFiniteSet(Kept')
        /\ \A t \in snaps' : t.id \in doomed =>
             t \in snaps /\ {x \in Kept : Before(x, t)} \subseteq {x \in Kept' : Before(x, t)}
    BY <1>2, <2>1, <2>2, <2>3, AddsRecord
  <2>5. BackupTypeOK'
    BY <1>2, <2>i, <2>1, <2>4 DEF BackupTypeOK
  <2>6. RetentionInv'
    <3>1. \A q \in Requests : ~AtPC(q, "choose")' \/ Same(q)
      BY <2>1, <2>2
    <3> QED  BY <1>2, <2>4, <3>1, AddKeepsRetention
  <2>7. FileInv'
    <3>1. \A q \in Requests : Calm(q) /\ Still(q)
      BY <2>1, <2>2, SameIsCalm DEF Same, Still
    <3>2. \A t \in snaps' : t \in snaps \/ t.key = <<>>
      BY <1>2, <2>3
    <3> QED  BY <2>i, <3>1, <3>2, FileKeeps DEF Calm
  <2>8. TodoInv' /\ DataInv' /\ RestoreInv'
    BY <2>i, <2>1, <2>2, TodoKeeps, DataKeeps, RestoreKeeps
  <2> QED  BY <2>4, <2>5, <2>6, <2>7, <2>8 DEF BackupInv
<1> QED  BY <1>1, <1>2 DEF recordFailure

LEMMA TriggerFailsStep ==
  ASSUME BackupInv, NEW r \in Requests, TriggerFails(r)
  PROVE  BackupInv'
<1>1. Taking(r)
  BY DEF TriggerFails, Taking
<1> QED  BY <1>1, FailStep DEF TriggerFails

LEMMA UploadFailsStep ==
  ASSUME BackupInv, NEW r \in Requests, UploadFails(r)
  PROVE  BackupInv'
<1>1. Taking(r)
  BY DEF UploadFails, Taking, AtPC
<1> QED  BY <1>1, FailStep DEF UploadFails

\* A request at its upload, which is about to write the file of its key.
LEMMA TakingKey ==
  ASSUME BackupInv, NEW r \in Requests, Taking(r)
  PROVE  /\ req[r] \in RequestState /\ req[r].type \in Types /\ req[r].started \in 0..MaxTicks
         /\ req[r].data \in Seq(EntryRecord) /\ Once(req[r].data)
         /\ SnapshotKey(req[r].type, req[r].started) \in FileKeys
<1>1. req[r] \in RequestState /\ req[r].type \in Types /\ Once(req[r].data)
  BY DEF BackupInv, BackupTypeOK, NumberInv, NumberOK, DataInv, DataOK
<1> QED  BY <1>1, RequestFields, KeyFacts

\* A step of an upload from one place to the next: only the files, the
\* uploads and the place of the request change.
LEMMA UploadMoves ==
  ASSUME BackupInv, NEW r \in Requests, NEW pc \in {"copy", "record"},
         req[r].pc \in {"upload", "copy"}, Become(r, [req[r] EXCEPT !.pc = pc]),
         UNCHANGED <<objects, snaps, policy, clock, edits, restores, begun, created, doomed, lowest,
                     bcrashes>>,
         files' \in [FileKeys -> [state : {"none", "torn", "whole"}, entries : Seq(EntryRecord)]],
         uploads' \in [FileKeys -> Nat], \A key \in FileKeys : Once(files'[key].entries), FileInv'
  PROVE  BackupInv'
<1> DEFINE new == [req[r] EXCEPT !.pc = pc]
<1>i. /\ BackupTypeOK /\ TodoInv /\ NumberInv /\ FileInv /\ RetentionInv /\ DataInv /\ RestoreInv
      /\ begun \in Nat
  BY DEF BackupInv, BackupTypeOK
<1>t. Taking(r) /\ req[r] \in RequestState
  BY <1>i DEF Taking, BackupTypeOK
<1>1. /\ new \in RequestState /\ new.pc = pc /\ new.data = req[r].data /\ new.nth = req[r].nth
      /\ new.type = req[r].type /\ new.started = req[r].started
  BY <1>t DEF RequestState
<1> HIDE DEF new
<1>2. /\ req' \in [Requests -> RequestState] /\ req'[r] = new
      /\ \A q \in Requests : q # r => Same(q)
  BY <1>i, <1>1, BecomeFacts DEF BackupTypeOK, Same, new
<1>3. /\ ~Removing(r)' /\ ~Restoring(r)' /\ ~AtPC(r, "choose")' /\ ~AtPC(r, "list")' /\ Calm(r)
  BY <1>t, <1>1, <1>2 DEF Removing, Restoring, AtPC, Calm
<1>4. TodoOK(r)' /\ RestoreOK(r)'
  BY <1>3 DEF TodoOK, RestoreOK
<1>5. BackupTypeOK'
  BY <1>i, <1>2 DEF BackupTypeOK
<1>6. NumberInv'
  <2>1. \A q \in Requests : Calm(q) /\ req'[q].nth \in Nat
    BY <1>2, <1>3, SameIsCalm, RequestFields
  <2> QED  BY <1>i, <2>1, NumberKeeps
<1>7. RetentionInv'
  <2>1. \A q \in Requests : AtPC(q, "choose")' => AtPC(q, "choose") /\ req'[q].read = req[q].read
    BY <1>2, <1>3 DEF AtPC, Same
  <2> QED  BY <1>i, <2>1, RetentionKeeps
<1>8. DataInv'
  <2>1. ASSUME NEW q \in Requests PROVE DataOK(q)'
    <3>1. DataOK(q)
      BY <1>i DEF DataInv
    <3>2. CASE q = r
      BY <1>1, <1>2, <1>3, <3>1, <3>2 DEF DataOK, Once
    <3>3. CASE q # r
      BY <1>2, <3>1, <3>3 DEF DataOK, Once, Same, AtPC
    <3> QED  BY <3>2, <3>3
  <2> QED  BY <2>1 DEF DataInv, Once
<1>9. TodoInv' /\ RestoreInv'
  BY <1>i, <1>2, <1>4, TodoKeeps, RestoreKeeps
<1> QED  BY <1>5, <1>6, <1>7, <1>8, <1>9 DEF BackupInv

\* What is asked of a key holds on when one request moves that has nothing
\* to do with it and its file stays.
LEMMA KeyKeeps ==
  ASSUME FileInv, NEW r \in Requests, \A q \in Requests : q # r => Same(q), NEW key \in FileKeys,
         ~WritesTo(r, key)', \A i \in Nat : NamedBy(i, key)' => NamedBy(i, key),
         \A s \in snaps' : s.key = key => s \in snaps, doomed \subseteq doomed',
         files'[key] = files[key], uploads'[key] = uploads[key]
  PROVE  /\ uploads'[key] = 0 => UnusedOK(key)'
         /\ uploads'[key] = 1 => UsedOnceOK(key)'
<1>1. ASSUME NEW q \in Requests, WritesTo(q, key)'
      PROVE  WritesTo(q, key) /\ Same(q)
  BY <1>1 DEF WritesTo, Same
<1>2. ASSUME uploads[key] = 0 PROVE UnusedOK(key)'
  BY <1>1, <1>2 DEF FileInv, UnusedOK
<1>3. ASSUME uploads[key] = 1 PROVE UsedOnceOK(key)'
  <2>1. UsedOnceOK(key)
    BY <1>3 DEF FileInv
  <2>2. ASSUME NEW q \in Requests, WritesTo(q, key)'
        PROVE  files'[key] = IF AtPC(q, "copy")' THEN Torn ELSE Whole(req'[q].data)
    <3>1. WritesTo(q, key) /\ Same(q)
      BY <1>1, <2>2
    <3> QED  BY <2>1, <3>1 DEF UsedOnceOK, AtPC, Same
  <2>3. ASSUME NEW s \in snaps', s.key = key, s.id \notin doomed'
        PROVE  files'[key] = Whole(s.sum)
    BY <2>1, <2>3 DEF UsedOnceOK
  <2> QED  BY <1>1, <2>1, <2>2, <2>3 DEF UsedOnceOK, Whole
<1> QED  BY <1>2, <1>3

\* Nobody names a key anew when no record is added and no removal begun.
LEMMA SameNames ==
  ASSUME NEW r \in Requests, \A q \in Requests : q # r => Same(q), ~Removing(r)', snaps' = snaps,
         NEW i, NEW key, NamedBy(i, key)'
  PROVE  NamedBy(i, key)
<1>1. \A q \in Requests : Removing(q)' => Removing(q) /\ req'[q].todo = req[q].todo
  BY DEF Removing, Same
<1> QED  BY <1>1, Zenon DEF NamedBy

LEMMA UploadCreateStep ==
  ASSUME BackupInv, NEW r \in Requests, UploadCreate(r)
  PROVE  BackupInv'
<1> DEFINE key == SnapshotKey(req[r].type, req[r].started)
           new == [req[r] EXCEPT !.pc = "copy"]
<1>u. /\ AtPC(r, "upload") /\ files' = [files EXCEPT ![key] = Torn]
      /\ uploads' = [uploads EXCEPT ![key] = @ + 1] /\ Become(r, new)
      /\ UNCHANGED <<objects, snaps, policy, clock, edits, restores, begun, created, doomed, lowest,
                     bcrashes>>
  BY DEF UploadCreate
<1>i. BackupTypeOK /\ FileInv /\ DataInv /\ uploads \in [FileKeys -> Nat]
      /\ files \in [FileKeys -> [state : {"none", "torn", "whole"}, entries : Seq(EntryRecord)]]
  BY DEF BackupInv, BackupTypeOK
<1>t. Taking(r) /\ key \in FileKeys /\ req[r] \in RequestState /\ req[r].pc \in {"upload", "copy"}
  BY <1>u, TakingKey DEF Taking, AtPC
<1>1. /\ new \in RequestState /\ new.pc = "copy" /\ new.type = req[r].type
      /\ new.started = req[r].started
  BY <1>t DEF RequestState
<1>2. /\ req'[r] = new /\ \A q \in Requests : q # r => Same(q)
  BY <1>i, <1>u, <1>1, BecomeFacts DEF BackupTypeOK, Same
<1> HIDE DEF new
<1>3. ~Removing(r)' /\ AtPC(r, "copy")' /\ \A k : WritesTo(r, k)' => k = key
  BY <1>1, <1>2 DEF Removing, WritesTo, AtPC
<1>4. \A i, k : NamedBy(i, k)' => NamedBy(i, k)
  BY <1>u, <1>2, <1>3, SameNames
<1>5. /\ files' \in [FileKeys -> [state : {"none", "torn", "whole"}, entries : Seq(EntryRecord)]]
      /\ uploads' \in [FileKeys -> Nat] /\ \A k \in FileKeys : Once(files'[k].entries)
  <2>1. Torn \in [state : {"none", "torn", "whole"}, entries : Seq(EntryRecord)]
        /\ Torn.entries = <<>> /\ Once(<<>>)
    BY NoPlaces DEF Torn, Once
  <2> HIDE DEF key
  <2>2. \A k \in FileKeys : files'[k] = Torn \/ files'[k] = files[k]
    BY <1>i, <1>u
  <2>3. \A k \in FileKeys : Once(files'[k].entries)
    BY <1>i, <2>1, <2>2 DEF DataInv
  <2>4. uploads' \in [FileKeys -> Nat]
    BY <1>i, <1>u, <1>t
  <2>5. files' \in [FileKeys -> [state : {"none", "torn", "whole"}, entries : Seq(EntryRecord)]]
    BY <1>i, <1>u, <2>1
  <2> QED  BY <2>3, <2>4, <2>5
<1>6. ASSUME NEW k \in FileKeys
      PROVE  /\ uploads'[k] = 0 => UnusedOK(k)'
             /\ uploads'[k] = 1 => UsedOnceOK(k)'
  <2> HIDE DEF key
  <2>1. CASE k # key
    <3>1. files'[k] = files[k] /\ uploads'[k] = uploads[k] /\ ~WritesTo(r, k)'
      BY <1>i, <1>u, <1>3, <2>1
    <3>2. (\A s \in snaps' : s.key = k => s \in snaps) /\ doomed \subseteq doomed'
      BY <1>u
    <3> QED  BY <1>i, <1>2, <1>4, <3>1, <3>2, KeyKeeps
  <2>2. CASE k = key
    <3>1. uploads'[k] = uploads[k] + 1 /\ uploads[k] \in Nat /\ files'[k] = Torn
      BY <1>i, <1>u, <2>2
    <3>2. SUFFICES ASSUME uploads[k] = 0 PROVE UsedOnceOK(k)'
      BY <3>1
    <3>3. UnusedOK(k)
      BY <1>i, <3>2 DEF FileInv
    <3>4. \A q \in Requests : WritesTo(q, k)' => q = r
      BY <1>2, <3>3 DEF UnusedOK, WritesTo, Same
    <3>5. \A i \in Nat : ~NamedBy(i, k)'
      BY <1>4, <3>3 DEF UnusedOK
    <3>6. \A s \in snaps' : s.key # k
      <4>1. \A s \in snaps : s.id \in Nat
        BY <1>i DEF BackupTypeOK, SnapshotRecord
      <4> QED  BY <1>u, <3>3, <4>1 DEF UnusedOK, NamedBy
    <3> QED  BY <1>3, <3>1, <3>4, <3>5, <3>6 DEF UsedOnceOK, Torn
  <2> QED  BY <2>1, <2>2
<1>7. FileInv'
  BY <1>6 DEF FileInv
<1> QED  BY <1>u, <1>t, <1>5, <1>7, UploadMoves DEF new

LEMMA UploadCopyStep ==
  ASSUME BackupInv, NEW r \in Requests, UploadCopy(r)
  PROVE  BackupInv'
<1> DEFINE key == SnapshotKey(req[r].type, req[r].started)
           data == req[r].data
           old == files[key]
           content == CASE old = NoFile -> NoFile
                        [] old = Torn -> Whole(data)
                        [] Len(old.entries) > Len(data) -> Torn
                        [] OTHER -> Whole(data)
           new == [req[r] EXCEPT !.pc = "record"]
<1>u. /\ AtPC(r, "copy") /\ files' = [files EXCEPT ![key] = content] /\ Become(r, new)
      /\ UNCHANGED <<objects, snaps, policy, clock, edits, restores, begun, created, uploads, doomed,
                     lowest, bcrashes>>
  BY DEF UploadCopy
<1>i. BackupTypeOK /\ FileInv /\ DataInv /\ uploads \in [FileKeys -> Nat]
      /\ files \in [FileKeys -> [state : {"none", "torn", "whole"}, entries : Seq(EntryRecord)]]
  BY DEF BackupInv, BackupTypeOK
<1>t. /\ Taking(r) /\ key \in FileKeys /\ req[r] \in RequestState /\ req[r].pc \in {"upload", "copy"}
      /\ data \in Seq(EntryRecord) /\ Once(data)
  BY <1>u, TakingKey DEF Taking, AtPC
<1>1. /\ new \in RequestState /\ new.pc = "record" /\ new.type = req[r].type
      /\ new.started = req[r].started /\ new.data = data
  BY <1>t DEF RequestState
<1>2. /\ req'[r] = new /\ \A q \in Requests : q # r => Same(q)
  BY <1>i, <1>u, <1>1, BecomeFacts DEF BackupTypeOK, Same
<1>c. content \in {NoFile, Torn, Whole(data)} /\ (old = Torn => content = Whole(data))
  BY DEF NoFile, Torn
<1> HIDE DEF new, content
<1>3. ~Removing(r)' /\ ~AtPC(r, "copy")' /\ \A k : WritesTo(r, k)' => k = key
  BY <1>1, <1>2 DEF Removing, WritesTo, AtPC
<1>4. \A i, k : NamedBy(i, k)' => NamedBy(i, k)
  BY <1>u, <1>2, <1>3, SameNames
<1>5. /\ files' \in [FileKeys -> [state : {"none", "torn", "whole"}, entries : Seq(EntryRecord)]]
      /\ \A k \in FileKeys : Once(files'[k].entries)
  <2>1. /\ content \in [state : {"none", "torn", "whole"}, entries : Seq(EntryRecord)]
        /\ Once(content.entries)
    <3>1. Once(<<>>) /\ <<>> \in Seq(EntryRecord)
      BY NoPlaces DEF Once
    <3> HIDE DEF data
    <3>2. /\ NoFile \in [state : {"none", "torn", "whole"}, entries : Seq(EntryRecord)]
          /\ Torn \in [state : {"none", "torn", "whole"}, entries : Seq(EntryRecord)]
          /\ NoFile.entries = <<>> /\ Torn.entries = <<>>
      BY <3>1 DEF NoFile, Torn
    <3>3. /\ Whole(data) \in [state : {"none", "torn", "whole"}, entries : Seq(EntryRecord)]
          /\ Whole(data).entries = data
      BY <1>t DEF Whole
    <3> QED  BY <1>t, <1>c, <3>1, <3>2, <3>3
  <2> HIDE DEF key
  <2>2. \A k \in FileKeys : files'[k] = content \/ files'[k] = files[k]
    BY <1>i, <1>u
  <2>3. \A k \in FileKeys : Once(files'[k].entries)
    BY <1>i, <2>1, <2>2 DEF DataInv
  <2> QED  BY <1>i, <1>u, <2>1, <2>3
<1>6. ASSUME NEW k \in FileKeys
      PROVE  /\ uploads'[k] = 0 => UnusedOK(k)'
             /\ uploads'[k] = 1 => UsedOnceOK(k)'
  <2>w. WritesTo(r, key)
    BY <1>u DEF WritesTo, AtPC
  <2> HIDE DEF key
  <2>1. CASE k # key
    <3>1. files'[k] = files[k] /\ uploads'[k] = uploads[k] /\ ~WritesTo(r, k)'
      BY <1>i, <1>u, <1>3, <2>1
    <3>2. (\A s \in snaps' : s.key = k => s \in snaps) /\ doomed \subseteq doomed'
      BY <1>u
    <3> QED  BY <1>i, <1>2, <1>4, <3>1, <3>2, KeyKeeps
  <2>2. CASE k = key
    <3>1. uploads[k] # 0
      BY <1>i, <2>2, <2>w DEF FileInv, UnusedOK
    <3>2. SUFFICES ASSUME uploads[k] = 1 PROVE UsedOnceOK(k)'
      BY <1>u, <3>1
    <3>3. UsedOnceOK(k)
      BY <1>i, <3>2 DEF FileInv
    <3>4. files'[k] = Whole(data)
      <4>1. files[k] = Torn
        BY <1>u, <2>2, <2>w, <3>3 DEF UsedOnceOK
      <4> QED  BY <1>i, <1>u, <1>c, <2>2, <4>1
    <3>5. \A q \in Requests : WritesTo(q, k)' => q = r
      BY <1>2, <2>2, <2>w, <3>3 DEF UsedOnceOK, WritesTo, Same
    <3>6. \A i \in Nat : ~NamedBy(i, k)
      BY <2>2, <2>w, <3>3 DEF UsedOnceOK
    <3>7. \A i \in Nat : ~NamedBy(i, k)'
      BY <1>4, <3>6
    <3>8. \A s \in snaps' : s.key # k
      <4>1. \A s \in snaps : s.id \in Nat
        BY <1>i DEF BackupTypeOK, SnapshotRecord
      <4> QED  BY <1>u, <3>6, <4>1 DEF NamedBy
    <3>9. ASSUME NEW q \in Requests, WritesTo(q, k)'
          PROVE  files'[k] = IF AtPC(q, "copy")' THEN Torn ELSE Whole(req'[q].data)
      BY <1>1, <1>2, <1>3, <3>4, <3>5, <3>9
    <3> QED  BY <3>5, <3>7, <3>8, <3>9 DEF UsedOnceOK, Torn, Whole
  <2> QED  BY <2>1, <2>2
<1>7. FileInv'
  BY <1>6 DEF FileInv
<1>8. uploads' \in [FileKeys -> Nat]
  BY <1>i, <1>u
<1> QED  BY <1>u, <1>t, <1>5, <1>7, <1>8, UploadMoves DEF new

\* What a request took is recorded: the record names a file that was written
\* whole, unless another upload to its key was begun.
LEMMA PersistSnapshotStep ==
  ASSUME BackupInv, NEW r \in Requests, persistSnapshot(r)
  PROVE  BackupInv'
<1> DEFINE key == SnapshotKey(req[r].type, req[r].started)
           s == [id |-> req[r].nth, type |-> req[r].type, key |-> key, at |-> clock,
                 status |-> "success", sum |-> req[r].data]
           new == [Resting EXCEPT !.pc = "policy", !.type = req[r].type]
<1>u. AtPC(r, "record")
      /\ UNCHANGED <<objects, files, policy, clock, edits, restores, begun, uploads, doomed, lowest,
                     bcrashes>>
  BY DEF persistSnapshot
<1>1. CASE Finish(r) /\ UNCHANGED <<snaps, created>>
  BY <1>1, <1>u, EndsQuietly
<1>2. CASE snaps' = snaps \cup {s} /\ created' = created + 1 /\ Become(r, new)
  <2>i. /\ BackupTypeOK /\ TodoInv /\ NumberInv /\ FileInv /\ RetentionInv /\ DataInv /\ RestoreInv
        /\ clock \in 0..MaxTicks
    BY DEF BackupInv, BackupTypeOK
  <2>t. /\ Taking(r) /\ WritesTo(r, key) /\ key \in FileKeys /\ req[r] \in RequestState
        /\ req[r].type \in Types /\ req[r].data \in Seq(EntryRecord) /\ req[r].nth \in Nat
        /\ ~AtPC(r, "copy")
    <3>1. Taking(r) /\ WritesTo(r, key) /\ ~AtPC(r, "copy")
      BY <1>u DEF Taking, AtPC, WritesTo
    <3> QED  BY <3>1, TakingKey, RequestFields
  <2>1. /\ new \in RequestState /\ new.pc = "policy" /\ new.data = <<>>
    BY <2>t, RestingFacts DEF RequestState
  <2>2. /\ req' \in [Requests -> RequestState] /\ req'[r] = new
        /\ \A q \in Requests : q # r => Same(q)
    BY <1>2, <2>i, <2>1, BecomeFacts DEF BackupTypeOK, Same
  <2> HIDE DEF new
  <2>3. /\ ~AtPC(r, "choose")' /\ ~Taking(r)' /\ ~Removing(r)' /\ ~Restoring(r)' /\ ~AtPC(r, "list")'
        /\ \A k : ~WritesTo(r, k)'
    BY <2>1, <2>2 DEF Taking, Removing, Restoring, AtPC, WritesTo
  <2>4. /\ s \in SnapshotRecord /\ s.id = req[r].nth /\ (s.status = "success" <=> s.key # <<>>)
        /\ s.key = key /\ s.sum = req[r].data
    <3>1. clock \in Nat /\ key # <<>>
      BY <2>i, <2>t, KeyFacts
    <3> HIDE DEF key
    <3> QED  BY <2>t, <3>1 DEF SnapshotRecord
  <2> HIDE DEF s, key
  <2>5. /\ snaps' \subseteq SnapshotRecord /\ IsFiniteSet(snaps') /\ NumberInv'
        /\ Cardinality(snaps') = Cardinality(snaps) + 1
        /\ Cardinality(Kept') >= Cardinality(Kept) /\ IsFiniteSet(Kept')
        /\ \A t \in snaps' : t.id \in doomed =>
             t \in snaps /\ {x \in Kept : Before(x, t)} \subseteq {x \in Kept' : Before(x, t)}
    BY <1>u, <1>2, <2>t, <2>2, <2>3, <2>4, AddsRecord
  <2>6. BackupTypeOK'
    BY <1>u, <1>2, <2>i, <2>2, <2>5 DEF BackupTypeOK
  <2>7. RetentionInv'
    <3>1. \A q \in Requests : ~AtPC(q, "choose")' \/ Same(q)
      BY <2>2, <2>3
    <3> QED  BY <1>u, <1>2, <2>5, <3>1, AddKeepsRetention
  <2>8. TodoInv' /\ DataInv' /\ RestoreInv'
    <3>1. TodoOK(r)' /\ RestoreOK(r)'
      BY <2>3 DEF TodoOK, RestoreOK
    <3>2. DataOK(r)'
      BY <2>1, <2>2, <2>3, NoPlaces DEF DataOK, Once
    <3> QED  BY <1>u, <2>i, <2>2, <3>1, <3>2, TodoKeeps, DataKeeps, RestoreKeeps
  <2>9. \A i, k : NamedBy(i, k)' => NamedBy(i, k) \/ (i = s.id /\ k = key)
    <3>1. \A q \in Requests : Removing(q)' => Removing(q) /\ req'[q].todo = req[q].todo
      BY <2>2, <2>3 DEF Removing, Same
    <3> QED  BY <1>2, <2>4, <3>1 DEF NamedBy
  <2>10. ASSUME NEW k \in FileKeys
         PROVE  /\ uploads'[k] = 0 => UnusedOK(k)'
                /\ uploads'[k] = 1 => UsedOnceOK(k)'
    <3>1. CASE k # key
      <4>1. /\ files'[k] = files[k] /\ uploads'[k] = uploads[k] /\ doomed \subseteq doomed'
            /\ \A t \in snaps' : t.key = k => t \in snaps
        BY <1>u, <1>2, <2>4, <3>1
      <4> QED  BY <2>i, <2>2, <2>3, <2>9, <3>1, <4>1, KeyKeeps
    <3>2. CASE k = key
      <4>1. uploads[k] # 0
        BY <2>i, <2>t, <3>2 DEF FileInv, UnusedOK
      <4>2. SUFFICES ASSUME uploads[k] = 1 PROVE UsedOnceOK(k)'
        BY <1>u, <4>1
      <4>3. UsedOnceOK(k)
        BY <2>i, <4>2 DEF FileInv
      <4>4. \A q \in Requests : ~WritesTo(q, k)'
        BY <2>t, <2>2, <2>3, <3>2, <4>3 DEF UsedOnceOK, WritesTo, Same
      <4>5. \A i \in Nat : ~NamedBy(i, k)
        BY <2>t, <3>2, <4>3 DEF UsedOnceOK
      <4>6. \A i \in Nat : NamedBy(i, k)' => i = s.id
        BY <2>9, <4>5
      <4>7. ASSUME NEW x \in snaps', x.key = k PROVE files'[k] = Whole(x.sum)
        <5>1. \A y \in snaps : y.id \in Nat
          BY <2>i DEF BackupTypeOK, SnapshotRecord
        <5>2. x = s
          BY <1>2, <4>5, <4>7, <5>1 DEF NamedBy
        <5> QED  BY <1>u, <2>t, <2>4, <3>2, <4>3, <5>2 DEF UsedOnceOK
      <4> QED  BY <4>4, <4>6, <4>7 DEF UsedOnceOK, Whole
    <3> QED  BY <3>1, <3>2
  <2>11. FileInv'
    BY <2>10 DEF FileInv
  <2> QED  BY <2>5, <2>6, <2>7, <2>8, <2>11 DEF BackupInv
<1> QED  BY <1>1, <1>2 DEF persistSnapshot

-----------------------------------------------------------------------------
(* Retention. *)

\* A pass reads the policy, which it may have to write first.
LEMMA EnforceRetentionStep ==
  ASSUME BackupInv, NEW r \in Requests, enforceRetention(r)
  PROVE  BackupInv'
<1> DEFINE new == [req[r] EXCEPT !.pc = "choose", !.read = GetPolicy.retention]
<1>u. /\ AtPC(r, "policy") /\ policy' = GetPolicy /\ Become(r, new)
      /\ UNCHANGED <<objects, files, snaps, clock, edits, restores, begun, created, uploads, doomed,
                     lowest, bcrashes>>
  BY DEF enforceRetention
<1>i. /\ BackupTypeOK /\ TodoInv /\ NumberInv /\ FileInv /\ RetentionInv /\ DataInv /\ RestoreInv
      /\ req[r] \in RequestState /\ begun \in Nat
  BY DEF BackupInv, BackupTypeOK
<1>1. /\ GetPolicy \in [retention : Nat, version : Nat] /\ GetPolicy.retention \in Nat
      /\ GetPolicy.retention >= lowest
  <2>1. /\ policy \in [retention : Nat, version : Nat] /\ DefaultRetention \in Nat /\ lowest \in Nat
    BY <1>i, BackupAssumption DEF BackupTypeOK, BackupAssumption
  <2> QED  BY <1>i, <2>1 DEF GetPolicy, RetentionInv
<1>2. /\ new \in RequestState /\ new.pc = "choose" /\ new.data = req[r].data
      /\ new.read = GetPolicy.retention
  <2> DEFINE n == GetPolicy.retention
  <2> HIDE DEF n
  <2>1. n \in Nat
    BY <1>1 DEF n
  <2>2. [req[r] EXCEPT !.pc = "choose", !.read = n] \in RequestState
    BY <1>i, <2>1 DEF RequestState
  <2> QED  BY <1>i, <2>2 DEF n, RequestState
<1> HIDE DEF new
<1>3. /\ req' \in [Requests -> RequestState] /\ req'[r] = new
      /\ \A q \in Requests : q # r => Same(q)
  BY <1>i, <1>u, <1>2, BecomeFacts DEF BackupTypeOK, Same
<1>4. /\ ~Taking(r)' /\ ~Removing(r)' /\ ~Restoring(r)' /\ ~AtPC(r, "list")' /\ Still(r) /\ Calm(r)
  BY <1>2, <1>3 DEF Taking, Removing, Restoring, AtPC, Still, Calm
<1>5. BackupTypeOK'
  BY <1>i, <1>u, <1>1, <1>3 DEF BackupTypeOK
<1>6. NumberInv' /\ FileInv'
  <2>1. \A q \in Requests : Calm(q) /\ Still(q) /\ req'[q].nth \in Nat
    BY <1>3, <1>4, SameIsCalm, RequestFields DEF Same, Still
  <2>2. NumberInv'
    BY <1>i, <1>u, <2>1, NumberKeeps
  <2> QED  BY <1>i, <1>u, <2>1, <2>2, FileKeeps DEF Calm
<1>7. TodoInv' /\ DataInv' /\ RestoreInv'
  <2>1. TodoOK(r)' /\ RestoreOK(r)'
    BY <1>4 DEF TodoOK, RestoreOK
  <2>2. DataOK(r)'
    BY <1>i, <1>2, <1>3, <1>4 DEF DataInv, DataOK, Once
  <2> QED  BY <1>i, <1>u, <1>3, <2>1, <2>2, TodoKeeps, DataKeeps, RestoreKeeps
<1>8. RetentionInv'
  <2>1. Kept' = Kept
    BY <1>u DEF Kept
  <2>2. \A q \in Requests : AtPC(q, "choose")' => req'[q].read >= lowest'
    BY <1>i, <1>u, <1>1, <1>2, <1>3 DEF RetentionInv, AtPC, Same
  <2> QED  BY <1>i, <1>u, <1>1, <2>1, <2>2 DEF RetentionInv
<1> QED  BY <1>5, <1>6, <1>7, <1>8 DEF BackupInv

\* The order of the list is a strict and total one.
LEMMA BeforeOrder ==
  ASSUME BackupInv
  PROVE  /\ \A s, t, u \in snaps : Before(s, t) /\ Before(t, u) => Before(s, u)
         /\ \A s \in snaps : ~Before(s, s)
         /\ \A s, t \in snaps : s # t => Before(s, t) \/ Before(t, s)
<1>1. /\ \A s \in snaps : s.at \in Nat /\ s.id \in Nat /\ s.type \in {"database", "resources"}
      /\ \A s, t \in snaps : s.id = t.id => s = t
  BY BackupAssumption DEF BackupInv, BackupTypeOK, SnapshotRecord, NumberInv, BackupAssumption
<1>2. \A s, t \in snaps : s.type = t.type <=> TypeRank(s.type) = TypeRank(t.type)
  BY <1>1 DEF TypeRank
<1>3. \A s \in snaps : TypeRank(s.type) \in Nat
  BY DEF TypeRank
<1>4. \A s, t \in snaps : Before(s, t) <=>
        \/ s.at > t.at
        \/ s.at = t.at /\ TypeRank(s.type) < TypeRank(t.type)
        \/ s.at = t.at /\ TypeRank(s.type) = TypeRank(t.type) /\ s.id < t.id
  BY <1>2 DEF Before
<1> QED  BY <1>1, <1>3, <1>4

\* Different records get different places, and every place goes to one.
LEMMA PlaceFacts ==
  ASSUME BackupInv
  PROVE  /\ Cardinality(snaps) \in Nat
         /\ \A s \in snaps : PlaceOf(s) \in 1..Cardinality(snaps)
         /\ \A s, t \in snaps : PlaceOf(s) = PlaceOf(t) => s = t
         /\ \A s, t \in snaps : Before(s, t) <=> PlaceOf(s) < PlaceOf(t)
         /\ \A p \in 1..Cardinality(snaps) : \E s \in snaps : PlaceOf(s) = p
<1> DEFINE N == Cardinality(snaps)
           UpTo(s) == {t \in snaps : t = s \/ Before(t, s)}
<1>1. IsFiniteSet(snaps) /\ N \in Nat
  BY FS_CardinalityType DEF BackupInv, BackupTypeOK
<1>2. ASSUME NEW s \in snaps
      PROVE  /\ IsFiniteSet(UpTo(s)) /\ PlaceOf(s) = Cardinality(UpTo(s)) /\ s \in UpTo(s)
             /\ PlaceOf(s) \in Nat /\ PlaceOf(s) <= N /\ PlaceOf(s) # 0
  <2>1. UpTo(s) \in SUBSET snaps /\ s \in UpTo(s)
    OBVIOUS
  <2>2. IsFiniteSet(UpTo(s)) /\ Cardinality(UpTo(s)) <= N
    BY <1>1, <2>1, FS_Subset
  <2>3. Cardinality(UpTo(s)) \in Nat /\ Cardinality(UpTo(s)) # 0
    BY <2>1, <2>2, FS_CardinalityType, FS_EmptySet
  <2> QED  BY <2>1, <2>2, <2>3 DEF PlaceOf
<1>3. ASSUME NEW s \in snaps, NEW t \in snaps, Before(s, t)
      PROVE  PlaceOf(s) < PlaceOf(t)
  <2>1. UpTo(s) \subseteq UpTo(t)
    BY <1>3, BeforeOrder
  <2>2. t \in UpTo(t) /\ t \notin UpTo(s)
    BY <1>3, BeforeOrder
  <2>3. /\ Cardinality(UpTo(s)) <= Cardinality(UpTo(t))
        /\ Cardinality(UpTo(t)) # Cardinality(UpTo(s))
    BY <1>2, <2>1, <2>2, FS_Subset
  <2>4. /\ PlaceOf(s) = Cardinality(UpTo(s)) /\ PlaceOf(s) \in Nat
        /\ PlaceOf(t) = Cardinality(UpTo(t)) /\ PlaceOf(t) \in Nat
    BY <1>2
  <2> HIDE DEF UpTo
  <2> QED  BY <2>3, <2>4
<1> HIDE DEF N, UpTo
<1>4. \A s \in snaps : PlaceOf(s) \in 1..N
  BY <1>1, <1>2
<1>5. ASSUME NEW s \in snaps, NEW t \in snaps
      PROVE  /\ PlaceOf(s) = PlaceOf(t) => s = t
             /\ Before(s, t) <=> PlaceOf(s) < PlaceOf(t)
  <2>1. PlaceOf(s) \in Nat /\ PlaceOf(t) \in Nat
    BY <1>2
  <2>2. s # t => Before(s, t) \/ Before(t, s)
    BY BeforeOrder
  <2> QED  BY <1>3, <2>1, <2>2
<1>6. ASSUME NEW p \in 1..N PROVE \E s \in snaps : PlaceOf(s) = p
  <2> DEFINE f == [s \in snaps |-> PlaceOf(s)]
  <2>1. f \in Injection(snaps, 1..N)
    BY <1>4, <1>5 DEF Injection, IsInjective
  <2>2. IsFiniteSet(1..N) /\ Cardinality(1..N) = N
    BY <1>1, FS_Interval, SMTT(30)
  <2>3. f \in Surjection(snaps, 1..N)
    BY <2>1, <2>2, FS_Injection DEF N
  <2> QED  BY <2>3 DEF Surjection
<1> QED  BY <1>1, <1>4, <1>5, <1>6 DEF N

\* As many records come first in the list as one asks for.
LEMMA FirstRecords ==
  ASSUME BackupInv, NEW n \in Nat, n <= Cardinality(snaps)
  PROVE  Cardinality({s \in snaps : PlaceOf(s) <= n}) = n
<1> DEFINE First == {s \in snaps : PlaceOf(s) <= n}
           f == [s \in First |-> PlaceOf(s)]
<1>1. IsFiniteSet(1..n) /\ Cardinality(1..n) = n
  BY FS_Interval, SMTT(30)
<1>2. \A s \in First : s \in snaps /\ PlaceOf(s) \in 1..n
  <2>1. \A s \in First : s \in snaps /\ PlaceOf(s) <= n /\ PlaceOf(s) \in 1..Cardinality(snaps)
    BY PlaceFacts
  <2> QED  BY <2>1, PlaceFacts
<1>3. f \in Injection(First, 1..n)
  BY <1>2, PlaceFacts DEF Injection, IsInjective
<1>4. ASSUME NEW p \in 1..n PROVE \E s \in First : f[s] = p
  <2>1. p \in 1..Cardinality(snaps)
    BY PlaceFacts
  <2>2. PICK s \in snaps : PlaceOf(s) = p
    BY <2>1, PlaceFacts
  <2>3. s \in First
    BY <2>2
  <2> QED  BY <2>2, <2>3
<1>5. f \in Surjection(First, 1..n)
  BY <1>3, <1>4 DEF Surjection, Injection
<1>6. Cardinality(First) = n
  BY <1>1, <1>3, <1>5, FS_Injection
<1> QED  BY <1>6

\* What a pass chooses: the records beyond the retention it read.
LEMMA BeyondFacts ==
  ASSUME BackupInv, NEW n \in Nat, NEW items, items = BeyondRetention(n)
  PROVE  /\ items \in Seq(snaps) /\ DOMAIN items = 1..Len(items)
         /\ \A s \in snaps : PlaceOf(s) > n <=> \E i \in 1..Len(items) : items[i] = s
<1> DEFINE N == Cardinality(snaps)
<1>1. N \in Nat
  BY PlaceFacts
<1>2. ASSUME NEW p \in 1..N
      PROVE  ListSnapshots[p] \in snaps /\ PlaceOf(ListSnapshots[p]) = p
  <2>1. ListSnapshots[p] = CHOOSE s \in snaps : PlaceOf(s) = p
    BY DEF ListSnapshots
  <2>2. \E s \in snaps : PlaceOf(s) = p
    BY PlaceFacts
  <2> QED  BY <2>1, <2>2
<1>3. ListSnapshots \in Seq(snaps) /\ Len(ListSnapshots) = N
  <2>1. ListSnapshots = [p \in 1..N |-> ListSnapshots[p]]
    BY DEF ListSnapshots
  <2>2. \A p \in 1..N : ListSnapshots[p] \in snaps
    BY <1>2
  <2> HIDE DEF N
  <2> QED  BY <1>1, <2>1, <2>2
<1>4. \A s \in snaps : PlaceOf(s) \in 1..N /\ ListSnapshots[PlaceOf(s)] = s
  BY <1>2, PlaceFacts
<1> HIDE DEF N
<1>5. CASE N <= n
  <2>1. items = <<>>
    BY <1>3, <1>5 DEF BeyondRetention
  <2>2. \A s \in snaps : ~(PlaceOf(s) > n)
    BY <1>1, <1>4, <1>5
  <2>3. items \in Seq(snaps) /\ Len(items) = 0 /\ DOMAIN items = 1..0 /\ 1..0 = {}
    BY <2>1
  <2> QED  BY <2>2, <2>3
<1>6. CASE ~(N <= n)
  <2>1. items = SubSeq(ListSnapshots, n + 1, N)
    BY <1>3, <1>6 DEF BeyondRetention
  <2>2. /\ items \in Seq(snaps) /\ Len(items) = N - n
        /\ \A i \in 1..(N - n) : items[i] = ListSnapshots[n + i]
    BY <1>1, <1>3, <1>6, <2>1
  <2>3. ASSUME NEW s \in snaps, PlaceOf(s) > n PROVE \E i \in 1..(N - n) : items[i] = s
    <3>1. PlaceOf(s) \in 1..N /\ ListSnapshots[PlaceOf(s)] = s
      BY <1>4
    <3>2. PlaceOf(s) - n \in 1..(N - n) /\ n + (PlaceOf(s) - n) = PlaceOf(s)
      BY <1>1, <2>3, <3>1
    <3> QED  BY <2>2, <3>1, <3>2
  <2>4. ASSUME NEW i \in 1..(N - n) PROVE PlaceOf(items[i]) > n
    <3>1. n + i \in 1..N /\ n + i > n
      BY <1>1
    <3> QED  BY <1>2, <2>2, <3>1 DEF N
  <2> QED  BY <2>2, <2>3, <2>4
<1> QED  BY <1>1, <1>5, <1>6

\* A subset of the records that counts for the retention.
LEMMA CountsFor ==
  ASSUME NEW A, NEW B, IsFiniteSet(B), A \subseteq B, NEW n \in Nat, Cardinality(A) >= n
  PROVE  Cardinality(B) >= n
<1>1. IsFiniteSet(A) /\ Cardinality(A) <= Cardinality(B)
  BY FS_Subset
<1>2. Cardinality(A) \in Nat /\ Cardinality(B) \in Nat
  BY <1>1, FS_CardinalityType
<1> QED  BY <1>1, <1>2

\* Whatever other passes have chosen, the records a pass with a retention
\* that was in force chooses leave enough before them that nobody chose.
LEMMA ChoiceKeepsRetention ==
  ASSUME BackupInv, NEW n \in Nat, n >= lowest, snaps' = snaps,
         doomed' = doomed \cup {s.id : s \in {t \in snaps : PlaceOf(t) > n}},
         UNCHANGED <<policy, lowest, created>>,
         \A q \in Requests : ~AtPC(q, "choose")' \/ Same(q)
  PROVE  RetentionInv'
<1> DEFINE First == {t \in snaps : PlaceOf(t) <= n}
<1>i. /\ RetentionInv /\ lowest \in Nat /\ IsFiniteSet(snaps) /\ Cardinality(snaps) \in Nat
      /\ \A s, t \in snaps : s.id = t.id => s = t
  BY PlaceFacts DEF BackupInv, BackupTypeOK, NumberInv
<1>p. \A s \in snaps : PlaceOf(s) \in Nat /\ PlaceOf(s) <= Cardinality(snaps)
  <2>1. \A s \in snaps : PlaceOf(s) \in 1..Cardinality(snaps)
    BY PlaceFacts
  <2> QED  BY <1>i, <2>1
<1>1. /\ Kept' = {s \in Kept : PlaceOf(s) <= n} /\ Kept' \subseteq snaps /\ Kept \subseteq snaps
      /\ \A s \in snaps : s.id \in doomed' <=> s.id \in doomed \/ PlaceOf(s) > n
  <2>1. ASSUME NEW s \in snaps PROVE s.id \in doomed' <=> s.id \in doomed \/ PlaceOf(s) > n
    BY <1>i
  <2>2. ASSUME NEW s \in snaps PROVE ~(PlaceOf(s) > n) <=> PlaceOf(s) <= n
    BY <1>p
  <2> QED  BY <2>1, <2>2 DEF Kept
<1>f. IsFiniteSet(Kept')
  BY <1>i, <1>1, FS_Subset
<1>2. ASSUME NEW s \in snaps, s.id \in doomed'
      PROVE  Cardinality({t \in Kept' : Before(t, s)}) >= lowest
  <2> DEFINE B == {t \in Kept' : Before(t, s)}
  <2>0. IsFiniteSet(B)
    BY <1>f, FS_Subset
  <2>1. ASSUME NEW d \in snaps, d.id \in doomed, PlaceOf(d) <= n, PlaceOf(d) <= PlaceOf(s)
        PROVE  Cardinality(B) >= lowest
    <3> DEFINE A == {t \in Kept : Before(t, d)}
    <3>1. Cardinality(A) >= lowest
      BY <1>i, <2>1 DEF RetentionInv
    <3>2. A \subseteq B
      <4> SUFFICES ASSUME NEW t \in Kept, Before(t, d) PROVE t \in Kept' /\ Before(t, s)
        OBVIOUS
      <4>1. t \in snaps /\ PlaceOf(t) < PlaceOf(d)
        BY <1>1, PlaceFacts
      <4>2. PlaceOf(t) <= n /\ PlaceOf(t) < PlaceOf(s)
        BY <1>p, <2>1, <4>1
      <4> QED  BY <1>1, <4>1, <4>2, PlaceFacts
    <3> HIDE DEF A, B
    <3> QED  BY <1>i, <2>0, <3>1, <3>2, CountsFor
  <2>2. CASE PlaceOf(s) <= n
    <3>1. s.id \in doomed
      BY <1>1, <1>2, <1>p, <2>2
    <3> QED  BY <1>p, <2>1, <2>2, <3>1
  <2>3. CASE PlaceOf(s) > n
    <3>1. CASE \E d \in snaps : d.id \in doomed /\ PlaceOf(d) <= n
      BY <1>p, <2>1, <2>3, <3>1
    <3>2. CASE \A d \in snaps : d.id \in doomed => ~(PlaceOf(d) <= n)
      <4>1. First \subseteq B
        <5> SUFFICES ASSUME NEW t \in snaps, PlaceOf(t) <= n PROVE t \in Kept' /\ Before(t, s)
          OBVIOUS
        <5>1. t \in Kept
          BY <3>2 DEF Kept
        <5>2. PlaceOf(t) < PlaceOf(s)
          BY <1>p, <2>3
        <5> QED  BY <1>1, <5>1, <5>2, PlaceFacts
      <4>2. n <= Cardinality(snaps)
        BY <1>i, <1>p, <2>3
      <4>3. Cardinality(First) = n
        BY <4>2, FirstRecords
      <4> HIDE DEF First, B
      <4>4. Cardinality(First) >= lowest
        BY <4>3
      <4>5. Cardinality(B) >= lowest
        BY <1>i, <2>0, <4>1, <4>4, CountsFor
      <4> QED  BY <4>5 DEF B
    <3> QED  BY <3>1, <3>2
  <2> QED  BY <1>p, <2>2, <2>3
<1>3. (doomed' = {} /\ Cardinality(snaps') = created') \/ Cardinality(Kept') >= lowest
  <2>1. CASE doomed' = doomed
    <3>1. Kept' = Kept
      BY <2>1 DEF Kept
    <3> QED  BY <1>i, <2>1, <3>1 DEF RetentionInv
  <2>2. CASE doomed' # doomed
    <3>1. PICK s \in snaps : s.id \in doomed'
      BY <2>2
    <3>2. {t \in Kept' : Before(t, s)} \subseteq Kept'
      OBVIOUS
    <3> QED  BY <1>i, <1>f, <1>2, <3>1, <3>2, CountsFor
  <2> QED  BY <2>1, <2>2
<1>4. \A q \in Requests : AtPC(q, "choose")' => req'[q].read >= lowest
  BY <1>i DEF RetentionInv, AtPC, Same
<1> QED  BY <1>i, <1>2, <1>3, <1>4 DEF RetentionInv

LEMMA ChooseExpiredStep ==
  ASSUME BackupInv, NEW r \in Requests, ChooseExpired(r)
  PROVE  BackupInv'
<1> DEFINE n == req[r].read
           items == BeyondRetention(n)
           new == IF items = <<>> THEN Resting ELSE [req[r] EXCEPT !.pc = "delete", !.todo = items]
<1>i. /\ BackupTypeOK /\ TodoInv /\ NumberInv /\ FileInv /\ RetentionInv /\ DataInv /\ RestoreInv
      /\ req[r] \in RequestState /\ begun \in Nat /\ doomed \subseteq Nat
      /\ snaps \subseteq SnapshotRecord
  BY DEF BackupInv, BackupTypeOK
<1>u. /\ AtPC(r, "choose") /\ doomed' = doomed \cup {items[i].id : i \in DOMAIN items}
      /\ Become(r, new)
      /\ UNCHANGED <<objects, files, snaps, policy, clock, edits, restores, begun, created, uploads,
                     lowest, bcrashes>>
  BY DEF ChooseExpired, Finish
<1>n. n \in Nat /\ n >= lowest
  BY <1>i, <1>u, RequestFields DEF RetentionInv
<1>b. /\ items \in Seq(snaps) /\ DOMAIN items = 1..Len(items)
      /\ \A s \in snaps : PlaceOf(s) > n <=> \E i \in 1..Len(items) : items[i] = s
      /\ \A i \in 1..Len(items) : items[i] \in snaps
  <2>1. /\ items \in Seq(snaps) /\ DOMAIN items = 1..Len(items)
        /\ \A s \in snaps : PlaceOf(s) > n <=> \E i \in 1..Len(items) : items[i] = s
    BY <1>n, BeyondFacts
  <2> HIDE DEF items
  <2> QED  BY <2>1, ElementOfSeq
<1> HIDE DEF items, n
<1>1. /\ new \in RequestState /\ new.pc \in {"idle", "delete"} /\ Once(new.data)
      /\ (new.pc = "delete" => new.todo = items /\ items # <<>>)
  <2>1. CASE items = <<>>
    BY <2>1, RestingFacts
  <2>2. CASE items # <<>>
    <3>1. items \in Seq(Items) /\ new = [req[r] EXCEPT !.pc = "delete", !.todo = items]
      BY <1>i, <1>b, <2>2 DEF Items
    <3>2. Once(req[r].data)
      BY <1>i DEF DataInv, DataOK
    <3> QED  BY <1>i, <2>2, <3>1, <3>2 DEF RequestState, Items
  <2> QED  BY <2>1, <2>2
<1> HIDE DEF new
<1>2. /\ req' \in [Requests -> RequestState] /\ req'[r] = new
      /\ \A q \in Requests : q # r => Same(q)
  BY <1>i, <1>u, <1>1, BecomeFacts DEF BackupTypeOK, Same
<1>3. /\ ~Taking(r)' /\ ~Restoring(r)' /\ ~AtPC(r, "list")' /\ ~AtPC(r, "choose")' /\ Still(r)
      /\ (Removing(r)' => req'[r].todo = items /\ items # <<>>)
  BY <1>1, <1>2 DEF Taking, Removing, Restoring, AtPC, Still
<1>4. doomed' = doomed \cup {s.id : s \in {t \in snaps : PlaceOf(t) > n}}
  BY <1>u, <1>b
<1>5. BackupTypeOK'
  <2>1. doomed' \subseteq Nat
    BY <1>i, <1>4 DEF SnapshotRecord
  <2> QED  BY <1>i, <1>u, <1>2, <2>1 DEF BackupTypeOK
<1>6. TodoInv' /\ DataInv' /\ RestoreInv'
  <2>1. TodoOK(r)'
    <3>1. items \in Seq(SnapshotRecord)
      BY <1>i, <1>b
    <3> QED  BY <1>3, <3>1 DEF TodoOK
  <2>2. DataOK(r)' /\ RestoreOK(r)'
    BY <1>1, <1>2, <1>3 DEF DataOK, RestoreOK, Once
  <2> QED  BY <1>i, <1>u, <1>2, <2>1, <2>2, TodoKeeps, DataKeeps, RestoreKeeps
<1>7. NumberInv'
  <2>1. \A s \in snaps' : RecordOK(s)'
    BY <1>i, <1>u DEF NumberInv, RecordOK
  <2>2. \A i \in doomed' : i < begun'
    BY <1>i, <1>u, <1>4 DEF NumberInv, RecordOK
  <2>3. ASSUME NEW q \in Requests PROVE NumberOK(q)' /\ (Taking(q)' => Taking(q) /\ Same(q))
    <3>0. NumberOK(q)
      BY <1>i DEF NumberInv
    <3>1. CASE q = r
      BY <1>u, <1>b, <1>3, <3>1 DEF NumberOK
    <3>2. CASE q # r
      <4>1. Same(q) /\ (Taking(q)' <=> Taking(q)) /\ (Removing(q)' <=> Removing(q))
        BY <1>2, <3>2 DEF Same, Taking, Removing
      <4>2. Taking(q) => req[q].nth \notin doomed'
        BY <1>4, <3>0 DEF NumberOK
      <4> QED  BY <1>u, <3>0, <4>1, <4>2 DEF NumberOK, Same
    <3> QED  BY <3>1, <3>2
  <2>4. \A p, q \in Requests : Taking(p)' /\ Taking(q)' /\ req'[q].nth = req'[p].nth => q = p
    BY <1>i, <2>3 DEF NumberInv, Same
  <2> QED  BY <1>i, <1>u, <2>1, <2>2, <2>3, <2>4 DEF NumberInv
<1>8. FileInv'
  <2>1. \A q \in Requests : Still(q)
    BY <1>2, <1>3 DEF Still, Same
  <2>2. \A q \in Requests : Taking(q)' => req'[q].type = req[q].type
                                          /\ req'[q].started = req[q].started
    BY <1>2, <1>3 DEF Same
  <2>3. ASSUME NEW q \in Requests, Removing(q)', NEW i \in 1..Len(req'[q].todo)
        PROVE  \/ req'[q].todo[i] \in snaps
               \/ (Removing(q) /\ \E j \in 1..Len(req[q].todo) : req'[q].todo[i] = req[q].todo[j])
    <3>1. CASE q = r
      BY <1>b, <1>3, <2>3, <3>1
    <3>2. CASE q # r
      BY <1>2, <2>3, <3>2 DEF Same, Removing
    <3> QED  BY <3>1, <3>2
  <2> QED  BY <1>i, <1>u, <2>1, <2>2, <2>3, FileKeeps
<1>9. RetentionInv'
  <2>1. \A q \in Requests : ~AtPC(q, "choose")' \/ Same(q)
    BY <1>2, <1>3
  <2> QED  BY <1>u, <1>n, <1>4, <2>1, ChoiceKeepsRetention
<1> QED  BY <1>5, <1>6, <1>7, <1>8, <1>9 DEF BackupInv

\* The file of a record that was chosen: while one upload was begun, nobody
\* writes it and no other record names it.
LEMMA DeleteFileStep ==
  ASSUME BackupInv, NEW r \in Requests, DeleteFile(r)
  PROVE  BackupInv'
<1> DEFINE s == Head(req[r].todo)
           new == [req[r] EXCEPT !.pc = "remove"]
<1>i. /\ BackupTypeOK /\ TodoInv /\ NumberInv /\ FileInv /\ RetentionInv /\ DataInv /\ RestoreInv
      /\ req[r] \in RequestState /\ begun \in Nat
      /\ files \in [FileKeys -> [state : {"none", "torn", "whole"}, entries : Seq(EntryRecord)]]
  BY DEF BackupInv, BackupTypeOK
<1>u. /\ AtPC(r, "delete") /\ Become(r, new)
      /\ (s.key # <<>> /\ files' = [files EXCEPT ![s.key] = NoFile]) \/ UNCHANGED files
      /\ UNCHANGED <<objects, snaps, policy, clock, edits, restores, begun, created, uploads, doomed,
                     lowest, bcrashes>>
  BY DEF DeleteFile
<1>r. Removing(r) /\ ~Restoring(r) /\ ~Taking(r)
  BY <1>u DEF Removing, Restoring, Taking, AtPC
<1>s. /\ s \in SnapshotRecord /\ s.id \in doomed /\ s.id \in Nat /\ NamedBy(s.id, s.key)
      /\ req[r].todo \in Seq(SnapshotRecord) /\ req[r].todo # <<>>
  <2>1. req[r].todo \in Seq(SnapshotRecord) /\ req[r].todo # <<>>
    BY <1>i, <1>r DEF TodoInv, TodoOK
  <2>2. s = req[r].todo[1] /\ s \in SnapshotRecord /\ 1 \in 1..Len(req[r].todo)
    BY <2>1, HeadTail
  <2> HIDE DEF s
  <2>3. s.id \in doomed
    BY <1>i, <1>r, <2>2 DEF NumberInv, NumberOK
  <2>4. NamedBy(s.id, s.key)
    BY <1>r, <2>2 DEF NamedBy
  <2>5. s.id \in Nat
    BY <2>2 DEF SnapshotRecord
  <2> QED  BY <2>1, <2>2, <2>3, <2>4, <2>5
<1>1. /\ new \in RequestState /\ new.pc = "remove" /\ new.todo = req[r].todo /\ new.data = req[r].data
  BY <1>i DEF RequestState
<1> HIDE DEF new, s
<1>2. /\ req' \in [Requests -> RequestState] /\ req'[r] = new
      /\ \A q \in Requests : q # r => Same(q)
  BY <1>i, <1>u, <1>1, BecomeFacts DEF BackupTypeOK, Same
<1>3. /\ ~Taking(r)' /\ ~Restoring(r)' /\ ~AtPC(r, "list")' /\ ~AtPC(r, "choose")' /\ Removing(r)'
      /\ Calm(r) /\ \A k : ~WritesTo(r, k)'
  BY <1>r, <1>1, <1>2 DEF Taking, Removing, Restoring, AtPC, Calm, WritesTo
<1>4. \A k \in FileKeys : files'[k] = files[k] \/ (files'[k] = NoFile /\ k = s.key)
  BY <1>i, <1>u
<1>5. /\ files' \in [FileKeys -> [state : {"none", "torn", "whole"}, entries : Seq(EntryRecord)]]
      /\ \A k \in FileKeys : Once(files'[k].entries)
  <2>1. /\ NoFile \in [state : {"none", "torn", "whole"}, entries : Seq(EntryRecord)]
        /\ NoFile.entries = <<>> /\ Once(<<>>)
    BY NoPlaces DEF NoFile, Once
  <2>2. \A k \in FileKeys : Once(files'[k].entries)
    BY <1>i, <1>4, <2>1 DEF DataInv
  <2> QED  BY <1>i, <1>u, <2>1, <2>2
<1>6. BackupTypeOK'
  BY <1>i, <1>u, <1>2, <1>5 DEF BackupTypeOK
<1>7. NumberInv'
  <2>1. \A q \in Requests : Calm(q) /\ req'[q].nth \in Nat
    BY <1>2, <1>3, SameIsCalm, RequestFields
  <2> QED  BY <1>i, <1>u, <2>1, NumberKeeps
<1>8. TodoInv' /\ RestoreInv'
  <2>1. TodoOK(r)' /\ RestoreOK(r)'
    BY <1>s, <1>1, <1>2, <1>3 DEF TodoOK, RestoreOK
  <2> QED  BY <1>i, <1>u, <1>2, <2>1, TodoKeeps, RestoreKeeps
<1>9. DataInv'
  <2>1. ASSUME NEW q \in Requests PROVE DataOK(q)'
    <3>1. DataOK(q)
      BY <1>i DEF DataInv
    <3>2. CASE q = r
      BY <1>1, <1>2, <1>3, <3>1, <3>2 DEF DataOK, Once
    <3>3. CASE q # r
      BY <1>2, <3>1, <3>3 DEF DataOK, Once, Same, AtPC
    <3> QED  BY <3>2, <3>3
  <2> QED  BY <1>5, <2>1 DEF DataInv, Once
<1>10. RetentionInv'
  <2>1. \A q \in Requests : AtPC(q, "choose")' => AtPC(q, "choose") /\ req'[q].read = req[q].read
    BY <1>2, <1>3 DEF AtPC, Same
  <2> QED  BY <1>i, <1>u, <2>1, RetentionKeeps
<1>11. \A i, k : NamedBy(i, k)' => NamedBy(i, k)
  <2>1. \A q \in Requests : Removing(q)' => Removing(q) /\ req'[q].todo = req[q].todo
    BY <1>r, <1>1, <1>2 DEF Removing, Same
  <2> QED  BY <1>u, <2>1, Zenon DEF NamedBy
<1>12. ASSUME NEW k \in FileKeys
       PROVE  /\ uploads'[k] = 0 => UnusedOK(k)'
              /\ uploads'[k] = 1 => UsedOnceOK(k)'
  <2>1. CASE files'[k] = files[k]
    <3>1. /\ uploads'[k] = uploads[k] /\ doomed \subseteq doomed'
          /\ \A t \in snaps' : t.key = k => t \in snaps
      BY <1>u
    <3> QED  BY <1>i, <1>2, <1>3, <1>11, <2>1, <3>1, KeyKeeps
  <2>2. CASE files'[k] = NoFile /\ k = s.key
    <3>1. uploads[k] # 0
      BY <1>i, <1>s, <2>2 DEF FileInv, UnusedOK
    <3>2. SUFFICES ASSUME uploads[k] = 1 PROVE UsedOnceOK(k)'
      BY <1>u, <3>1
    <3>3. UsedOnceOK(k)
      BY <1>i, <3>2 DEF FileInv
    <3>4. \A q \in Requests : ~WritesTo(q, k)'
      BY <1>s, <1>2, <1>3, <2>2, <3>3 DEF UsedOnceOK, WritesTo, Same
    <3>5. \A i \in Nat : NamedBy(i, k)' => i = s.id
      BY <1>s, <1>11, <2>2, <3>3 DEF UsedOnceOK
    <3>6. ASSUME NEW x \in snaps', x.key = k PROVE x.id \in doomed'
      <4>1. x.id \in Nat /\ NamedBy(x.id, k)
        BY <1>i, <1>u, <3>6 DEF BackupTypeOK, SnapshotRecord, NamedBy
      <4>2. x.id = s.id
        BY <1>s, <2>2, <3>3, <4>1 DEF UsedOnceOK
      <4> QED  BY <1>s, <1>u, <4>2
    <3> QED  BY <3>4, <3>5, <3>6 DEF UsedOnceOK
  <2> QED  BY <1>4, <2>1, <2>2
<1>13. FileInv'
  BY <1>12 DEF FileInv
<1> QED  BY <1>6, <1>7, <1>8, <1>9, <1>10, <1>13 DEF BackupInv

\* A record that was chosen is removed; the records that count stay.
LEMMA RemoveRecordStep ==
  ASSUME BackupInv, NEW r \in Requests, RemoveRecord(r)
  PROVE  BackupInv'
<1> DEFINE s == Head(req[r].todo)
           rest == Tail(req[r].todo)
           new == IF rest = <<>> THEN Resting ELSE [req[r] EXCEPT !.pc = "delete", !.todo = rest]
<1>i. /\ BackupTypeOK /\ TodoInv /\ NumberInv /\ FileInv /\ RetentionInv /\ DataInv /\ RestoreInv
      /\ req[r] \in RequestState /\ begun \in Nat /\ IsFiniteSet(snaps)
      /\ snaps \subseteq SnapshotRecord
  BY DEF BackupInv, BackupTypeOK
<1>u. /\ AtPC(r, "remove") /\ snaps' = {t \in snaps : t.id # s.id} /\ Become(r, new)
      /\ UNCHANGED <<objects, files, policy, clock, edits, restores, begun, created, uploads, doomed,
                     lowest, bcrashes>>
  BY DEF RemoveRecord, Finish
<1>r. Removing(r)
  BY <1>u DEF Removing, AtPC
<1>s. /\ s.id \in doomed /\ rest \in Seq(SnapshotRecord)
      /\ \A i \in 1..Len(rest) : \E j \in 1..Len(req[r].todo) : rest[i] = req[r].todo[j]
  <2>1. req[r].todo \in Seq(SnapshotRecord) /\ req[r].todo # <<>>
    BY <1>i, <1>r DEF TodoInv, TodoOK
  <2>2. /\ s = req[r].todo[1] /\ 1 \in 1..Len(req[r].todo) /\ rest \in Seq(SnapshotRecord)
        /\ Len(rest) = Len(req[r].todo) - 1
        /\ \A i \in 1..(Len(req[r].todo) - 1) :
             rest[i] = req[r].todo[i + 1] /\ i + 1 \in 1..Len(req[r].todo)
    BY <2>1, HeadTail
  <2> HIDE DEF s, rest
  <2> QED  BY <1>i, <1>r, <2>2 DEF NumberInv, NumberOK
<1> HIDE DEF s, rest
<1>1. /\ new \in RequestState /\ new.pc \in {"idle", "delete"} /\ Once(new.data)
      /\ (new.pc = "delete" => new.todo = rest /\ rest # <<>>)
  <2>1. CASE rest = <<>>
    BY <2>1, RestingFacts
  <2>2. CASE rest # <<>>
    <3>1. rest \in Seq(Items) /\ new = [req[r] EXCEPT !.pc = "delete", !.todo = rest]
      BY <1>s, <2>2 DEF Items
    <3>2. Once(req[r].data)
      BY <1>i DEF DataInv, DataOK
    <3> QED  BY <1>i, <2>2, <3>1, <3>2 DEF RequestState, Items
  <2> QED  BY <2>1, <2>2
<1> HIDE DEF new
<1>2. /\ req' \in [Requests -> RequestState] /\ req'[r] = new
      /\ \A q \in Requests : q # r => Same(q)
  BY <1>i, <1>u, <1>1, BecomeFacts DEF BackupTypeOK, Same
<1>3. /\ ~Taking(r)' /\ ~Restoring(r)' /\ ~AtPC(r, "list")' /\ ~AtPC(r, "choose")' /\ Still(r)
      /\ (Removing(r)' => req'[r].todo = rest /\ rest # <<>>)
  BY <1>1, <1>2 DEF Taking, Removing, Restoring, AtPC, Still
<1>4. \A q \in Requests : Calm(q) /\ Still(q) /\ req'[q].nth \in Nat
  <2>1. Calm(r)
    BY <1>r, <1>s, <1>3 DEF Calm
  <2> QED  BY <1>2, <1>3, <2>1, SameIsCalm, RequestFields DEF Same, Still
<1>5. snaps' \subseteq snaps /\ IsFiniteSet(snaps')
  BY <1>i, <1>u, FS_Subset
<1>6. BackupTypeOK'
  BY <1>i, <1>u, <1>2, <1>5 DEF BackupTypeOK
<1>7. NumberInv'
  BY <1>i, <1>u, <1>4, <1>5, NumberKeeps
<1>8. FileInv'
  BY <1>i, <1>u, <1>4, <1>5, FileKeeps DEF Calm
<1>9. TodoInv' /\ DataInv' /\ RestoreInv'
  <2>1. TodoOK(r)' /\ RestoreOK(r)' /\ DataOK(r)'
    BY <1>s, <1>1, <1>2, <1>3 DEF TodoOK, RestoreOK, DataOK, Once
  <2> QED  BY <1>i, <1>u, <1>2, <2>1, TodoKeeps, DataKeeps, RestoreKeeps
<1>10. RetentionInv'
  <2>1. Kept' = Kept
    BY <1>s, <1>u DEF Kept
  <2>2. \A q \in Requests : AtPC(q, "choose")' => req'[q].read >= lowest'
    BY <1>i, <1>u, <1>2, <1>3 DEF RetentionInv, AtPC, Same
  <2>3. doomed # {}
    BY <1>s
  <2> QED  BY <1>i, <1>u, <1>5, <2>1, <2>2, <2>3 DEF RetentionInv
<1> QED  BY <1>6, <1>7, <1>8, <1>9, <1>10 DEF BackupInv

LEMMA UpdatePolicyStep ==
  ASSUME BackupInv, NEW r \in Requests, UpdatePolicy(r)
  PROVE  BackupInv'
<1> DEFINE new == [Resting EXCEPT !.pc = "putPolicy", !.read = policy.version]
<1>i. /\ BackupTypeOK /\ edits \in Nat /\ restores \in Nat /\ bcrashes \in Nat
      /\ policy.version \in Nat /\ edits + 1 \in Nat
  BY SMTT(30) DEF BackupInv, BackupTypeOK
<1>u. /\ Become(r, new) /\ edits' = edits + 1
      /\ UNCHANGED <<objects, files, snaps, policy, clock, restores, begun, created, uploads, doomed,
                     lowest, bcrashes>>
  BY DEF UpdatePolicy
<1>1. new \in RequestState /\ new.pc = "putPolicy" /\ new.data = <<>>
  <2> DEFINE v == policy.version
  <2>1. v \in Nat
    BY <1>i
  <2> HIDE DEF v
  <2>2. /\ [Resting EXCEPT !.pc = "putPolicy", !.read = v] \in RequestState
        /\ [Resting EXCEPT !.pc = "putPolicy", !.read = v].pc = "putPolicy"
        /\ [Resting EXCEPT !.pc = "putPolicy", !.read = v].data = <<>>
    BY <2>1, RestingFacts DEF RequestState
  <2> QED  BY <2>2 DEF v
<1> HIDE DEF new
<1>2. req'[r] = new
  BY <1>i, <1>u, <1>1, BecomeFacts DEF BackupTypeOK
<1>3. /\ ~Taking(r)' /\ ~Removing(r)' /\ ~Restoring(r)' /\ ~AtPC(r, "list")' /\ ~AtPC(r, "choose")'
      /\ Still(r) /\ Calm(r)
  BY <1>1, <1>2 DEF Taking, Removing, Restoring, AtPC, Still, Calm
<1>4. TodoOK(r)' /\ RestoreOK(r)' /\ DataOK(r)'
  BY <1>1, <1>2, <1>3, NoPlaces DEF TodoOK, RestoreOK, DataOK, Once
<1> QED  BY <1>i, <1>u, <1>1, <1>3, <1>4, OneMoves

\* A client sets a retention: from then on it counts.
LEMMA PutPolicyStep ==
  ASSUME BackupInv, NEW r \in Requests, PutPolicy(r)
  PROVE  BackupInv'
<1>u. /\ Finish(r)
      /\ UNCHANGED <<objects, files, snaps, clock, edits, restores, begun, created, uploads, doomed,
                     bcrashes>>
  BY DEF PutPolicy
<1>1. CASE UNCHANGED <<policy, lowest>>
  BY <1>u, <1>1, EndsQuietly
<1>2. ASSUME NEW n \in Retentions \ {0}, policy' = [retention |-> n, version |-> policy.version + 1],
             lowest' = IF n < lowest THEN n ELSE lowest
      PROVE  BackupInv'
  <2>i. /\ BackupTypeOK /\ TodoInv /\ NumberInv /\ FileInv /\ RetentionInv /\ DataInv /\ RestoreInv
        /\ begun \in Nat /\ lowest \in Nat /\ policy \in [retention : Nat, version : Nat]
        /\ DefaultRetention \in Nat /\ n \in Nat /\ req \in [Requests -> RequestState]
        /\ IsFiniteSet(snaps)
    BY <1>2, BackupAssumption DEF BackupInv, BackupTypeOK, BackupAssumption
  <2>1. /\ req' \in [Requests -> RequestState] /\ req'[r] = Resting
        /\ \A q \in Requests : q # r => Same(q)
    BY <1>u, <2>i, RestingFacts, BecomeFacts DEF Same, Finish
  <2>2. /\ TodoOK(r)' /\ DataOK(r)' /\ RestoreOK(r)' /\ Calm(r) /\ Still(r)
        /\ ~AtPC(r, "choose")' /\ ~Taking(r)' /\ ~Removing(r)'
    BY <2>1, RestIsOK
  <2>3. /\ lowest' \in Nat /\ lowest' <= lowest /\ lowest' <= n /\ policy'.retention = n
        /\ policy' \in [retention : Nat, version : Nat]
    BY <1>2, <2>i
  <2>4. BackupTypeOK'
    BY <1>u, <2>i, <2>1, <2>3 DEF BackupTypeOK
  <2>5. TodoInv' /\ DataInv' /\ RestoreInv'
    BY <1>u, <2>i, <2>1, <2>2, TodoKeeps, DataKeeps, RestoreKeeps
  <2>6. NumberInv' /\ FileInv'
    <3>1. \A q \in Requests : Calm(q) /\ Still(q) /\ req'[q].nth \in Nat
      BY <2>1, <2>2, SameIsCalm, RequestFields DEF Same, Still
    <3>2. NumberInv'
      BY <1>u, <2>i, <3>1, NumberKeeps
    <3> QED  BY <1>u, <2>i, <3>1, <3>2, FileKeeps DEF Calm
  <2>7. RetentionInv'
    <3>1. Kept' = Kept /\ Kept \subseteq snaps
      BY <1>u DEF Kept
    <3>2. ASSUME NEW A, A \subseteq snaps, Cardinality(A) >= lowest PROVE Cardinality(A) >= lowest'
      <4>1. Cardinality(A) \in Nat
        BY <2>i, <3>2, FS_Subset, FS_CardinalityType
      <4> QED  BY <2>i, <2>3, <3>2, <4>1
    <3>3. ASSUME NEW s \in snaps, s.id \in doomed
          PROVE  Cardinality({t \in Kept : Before(t, s)}) >= lowest'
      <4>1. Cardinality({t \in Kept : Before(t, s)}) >= lowest
        BY <2>i, <3>3 DEF RetentionInv
      <4>2. {t \in Kept : Before(t, s)} \subseteq snaps
        BY <3>1
      <4> QED  BY <3>2, <4>1, <4>2
    <3>4. (doomed = {} /\ Cardinality(snaps) = created) \/ Cardinality(Kept) >= lowest'
      BY <2>i, <3>1, <3>2 DEF RetentionInv
    <3>5. ASSUME NEW q \in Requests, AtPC(q, "choose")' PROVE req'[q].read >= lowest'
      <4>1. Same(q) /\ AtPC(q, "choose")
        BY <2>1, <2>2, <3>5 DEF Same, AtPC
      <4>2. req[q].read >= lowest /\ req[q].read \in Nat
        BY <2>i, <4>1, RequestFields DEF RetentionInv
      <4> QED  BY <2>i, <2>3, <4>1, <4>2 DEF Same
    <3>6. lowest' <= DefaultRetention
      BY <2>i, <2>3 DEF RetentionInv
    <3> QED  BY <1>u, <2>i, <2>3, <3>1, <3>3, <3>4, <3>5, <3>6 DEF RetentionInv
  <2> QED  BY <2>4, <2>5, <2>6, <2>7 DEF BackupInv
<1> QED  BY <1>1, <1>2 DEF PutPolicy

-----------------------------------------------------------------------------
(* Restore. *)

\* A restore starts with all entries of the file before it.
LEMMA RestoreStep ==
  ASSUME BackupInv, NEW r \in Requests, NEW s \in snaps, NEW dryRun, Restore(r, s, dryRun)
  PROVE  BackupInv'
<1> DEFINE entries == files[s.key].entries
           new == [Resting EXCEPT !.pc = "get", !.data = entries, !.todo = entries]
<1>i. /\ BackupTypeOK /\ edits \in Nat /\ restores \in Nat /\ bcrashes \in Nat /\ restores + 1 \in Nat
      /\ req \in [Requests -> RequestState] /\ NumberInv /\ DataInv /\ s \in SnapshotRecord
      /\ files \in [FileKeys -> [state : {"none", "torn", "whole"}, entries : Seq(EntryRecord)]]
  BY DEF BackupInv, BackupTypeOK
<1>u. /\ restores' = restores + 1
      /\ UNCHANGED <<objects, files, snaps, policy, clock, edits, begun, created, uploads, doomed,
                     lowest, bcrashes>>
  BY DEF Restore
<1>1. CASE UNCHANGED req
  <2>1. /\ BackupTypeOK' /\ \A q \in Requests : Same(q)
    BY <1>i, <1>u, <1>1 DEF BackupTypeOK, Same
  <2>2. \A q \in Requests : Calm(q) /\ Still(q) /\ req'[q].nth \in Nat
    BY <1>i, <1>1, <2>1, SameIsCalm, RequestFields DEF Still
  <2>3. begun \in Nat
    BY <1>i DEF BackupTypeOK
  <2>4. NumberInv'
    BY <1>i, <1>u, <2>2, <2>3, NumberKeeps
  <2>5. FileInv'
    BY <1>u, <2>2, FileKeeps DEF Calm, BackupInv
  <2>6. RetentionInv'
    BY <1>u, <1>1, RetentionKeeps DEF BackupInv, AtPC
  <2>7. TodoInv' /\ DataInv' /\ RestoreInv'
    BY <1>u, <2>1, TodoKeeps, DataKeeps, RestoreKeeps DEF BackupInv
  <2> QED  BY <2>1, <2>4, <2>5, <2>6, <2>7 DEF BackupInv
<1>2. CASE s.status = "success" /\ entries # <<>> /\ Become(r, new)
  <2>1. s.key \in FileKeys
    BY <1>i, <1>2 DEF NumberInv, RecordOK, SnapshotRecord
  <2>2. entries \in Seq(EntryRecord) /\ Once(entries)
    BY <1>i, <2>1 DEF DataInv
  <2>3. entries \in Seq(Items)
    BY <2>2 DEF Items
  <2> HIDE DEF entries
  <2>4. /\ new \in RequestState /\ new.pc = "get" /\ new.data = entries /\ new.todo = entries
    BY <2>2, <2>3, RestingFacts DEF RequestState, Items
  <2> HIDE DEF new
  <2>5. req'[r] = new
    BY <1>i, <1>2, <2>4, BecomeFacts
  <2>6. /\ ~Taking(r)' /\ ~Removing(r)' /\ Restoring(r)' /\ ~AtPC(r, "list")' /\ ~AtPC(r, "choose")'
        /\ ~AtPC(r, "restored")' /\ ~AtPC(r, "status")' /\ Still(r) /\ Calm(r)
    BY <2>4, <2>5 DEF Taking, Removing, Restoring, AtPC, Still, Calm
  <2>7. TodoOK(r)' /\ DataOK(r)'
    BY <1>2, <2>2, <2>4, <2>5, <2>6 DEF TodoOK, DataOK, Once
  <2>8. RestoreOK(r)'
    <3>1. Len(entries) \in Nat
      BY <2>2
    <3>2. \A i \in 1..Len(entries) : (Len(entries) - Len(entries)) + i = i
      BY <3>1
    <3>3. 1..(Len(entries) - Len(entries)) = {} /\ Len(entries) <= Len(entries)
      BY <3>1
    <3> QED  BY <1>2, <2>4, <2>5, <2>6, <3>2, <3>3 DEF RestoreOK
  <2> QED  BY <1>i, <1>u, <1>2, <2>4, <2>6, <2>7, <2>8, OneMoves
<1> QED  BY <1>1, <1>2 DEF Restore

\* A request at an entry of its restore: the first that is left.
LEMMA AtEntry ==
  ASSUME BackupInv, NEW r \in Requests, Restoring(r), ~AtPC(r, "restored")
  PROVE  /\ req[r] \in RequestState /\ req[r].todo \in Seq(EntryRecord) /\ req[r].todo # <<>>
         /\ req[r].data \in Seq(EntryRecord) /\ Once(req[r].data) /\ req[r].data # <<>>
         /\ Current(r) \in EntryRecord /\ Current(r).kind \in ExportedKinds
         /\ Current(r) = req[r].todo[1] /\ Len(req[r].todo) <= Len(req[r].data)
         /\ Len(req[r].todo) \in Nat /\ Len(req[r].todo) >= 1 /\ Len(req[r].data) \in Nat
         /\ Current(r) = req[r].data[(Len(req[r].data) - Len(req[r].todo)) + 1]
<1>1. /\ req[r] \in RequestState /\ TodoOK(r) /\ DataOK(r) /\ RestoreOK(r)
  BY DEF BackupInv, BackupTypeOK, TodoInv, DataInv, RestoreInv
<1>2. req[r].todo \in Seq(EntryRecord) /\ req[r].todo # <<>> /\ req[r].data \in Seq(EntryRecord)
      /\ Once(req[r].data)
  BY <1>1, RequestFields DEF TodoOK, DataOK
<1>3. /\ Current(r) = req[r].todo[1] /\ Current(r) \in EntryRecord /\ Len(req[r].todo) \in Nat
      /\ Len(req[r].todo) >= 1 /\ 1 \in 1..Len(req[r].todo) /\ Len(req[r].data) \in Nat
  BY <1>2, HeadTail, LenProperties DEF Current
<1>4. Current(r).kind \in ExportedKinds
  BY <1>3 DEF EntryRecord
<1> QED  BY <1>1, <1>2, <1>3, <1>4 DEF RestoreOK

LEMMA ApplyEntryStep ==
  ASSUME BackupInv, NEW r \in Requests, applyEntry(r)
  PROVE  BackupInv'
<1> DEFINE version == objects[Current(r).kind].version
           new == [req[r] EXCEPT !.pc = "put", !.read = version]
<1>u. /\ AtPC(r, "get") /\ Become(r, new)
      /\ UNCHANGED <<objects, files, snaps, policy, clock, edits, restores, begun, created, uploads,
                     doomed, lowest, bcrashes>>
  BY DEF applyEntry
<1>r. Restoring(r) /\ ~AtPC(r, "restored")
  BY <1>u DEF Restoring, AtPC
<1>i. /\ BackupTypeOK /\ edits \in Nat /\ restores \in Nat /\ bcrashes \in Nat /\ RestoreOK(r)
      /\ req[r] \in RequestState /\ req \in [Requests -> RequestState] /\ TodoOK(r) /\ DataOK(r)
      /\ objects \in [ExportedKinds -> [version : Nat, spec : Nat, status : Nat]]
  BY DEF BackupInv, BackupTypeOK, RestoreInv, TodoInv, DataInv
<1>1. version \in Nat
  BY <1>i, <1>r, AtEntry
<1> HIDE DEF version
<1>2. /\ new \in RequestState /\ new.pc = "put" /\ new.data = req[r].data /\ new.todo = req[r].todo
      /\ new.touched = req[r].touched
  BY <1>i, <1>1 DEF RequestState
<1> HIDE DEF new
<1>3. req'[r] = new
  BY <1>i, <1>u, <1>2, BecomeFacts
<1>4. /\ ~Taking(r)' /\ ~Removing(r)' /\ Restoring(r)' /\ ~AtPC(r, "list")' /\ ~AtPC(r, "choose")'
      /\ ~AtPC(r, "restored")' /\ ~AtPC(r, "status")' /\ Still(r) /\ Calm(r)
  BY <1>2, <1>3 DEF Taking, Removing, Restoring, AtPC, Still, Calm
<1>5. TodoOK(r)' /\ DataOK(r)'
  BY <1>i, <1>r, <1>2, <1>3, <1>4 DEF TodoOK, DataOK, Once
<1>6. RestoreOK(r)'
  <2>1. \A e : Applied(r, e)' <=> Applied(r, e)
    BY <1>u, <1>2, <1>3 DEF Applied, Entry
  <2> QED  BY <1>i, <1>r, <1>2, <1>3, <1>4, <2>1 DEF RestoreOK
<1> QED  BY <1>i, <1>u, <1>2, <1>4, <1>5, <1>6, OneMoves

LEMMA RestoredStep ==
  ASSUME BackupInv, NEW r \in Requests, Restored(r)
  PROVE  BackupInv'
BY EndsQuietly DEF Restored

\* A request about which nothing changed, but for what was written beside it.
OnlyTouched(q) ==
  /\ req'[q].pc = req[q].pc /\ req'[q].type = req[q].type /\ req'[q].started = req[q].started
  /\ req'[q].nth = req[q].nth /\ req'[q].data = req[q].data /\ req'[q].todo = req[q].todo
  /\ req'[q].read = req[q].read /\ req[q].touched \subseteq req'[q].touched

\* What Touch makes of the requests.
LEMMA TouchFacts ==
  ASSUME BackupInv, NEW k \in ExportedKinds, NEW w
  PROVE  /\ Touch(k, w) \in [Requests -> RequestState]
         /\ \A q \in Requests : q = w => Touch(k, w)[q] = req[q]
         /\ \A q \in Requests :
              LET t == Touch(k, w)[q] IN
              /\ t.pc = req[q].pc /\ t.type = req[q].type /\ t.started = req[q].started
              /\ t.nth = req[q].nth /\ t.data = req[q].data /\ t.todo = req[q].todo
              /\ t.read = req[q].read /\ req[q].touched \subseteq t.touched
              /\ (q # w /\ Restoring(q) => k \in t.touched)
<1>1. req \in [Requests -> RequestState] /\ RestoreInv
  BY DEF BackupInv, BackupTypeOK
<1>2. ASSUME NEW q \in Requests
      PROVE  LET t == Touch(k, w)[q] IN
             /\ t \in RequestState /\ (q = w => t = req[q])
             /\ t.pc = req[q].pc /\ t.type = req[q].type /\ t.started = req[q].started
             /\ t.nth = req[q].nth /\ t.data = req[q].data /\ t.todo = req[q].todo
             /\ t.read = req[q].read /\ req[q].touched \subseteq t.touched
             /\ (q # w /\ Restoring(q) => k \in t.touched)
  <2>0. req[q] \in RequestState /\ (Restoring(q) => req[q].data # <<>>)
    BY <1>1 DEF RestoreInv, RestoreOK
  <2>1. CASE q # w /\ req[q].data # <<>> /\ Restoring(q)
    <3> DEFINE t == [req[q] EXCEPT !.touched = @ \cup {k}]
    <3>1. Touch(k, w)[q] = t
      BY <2>1 DEF Touch, Restoring
    <3>2. /\ t \in RequestState /\ t.pc = req[q].pc /\ t.type = req[q].type
          /\ t.started = req[q].started /\ t.nth = req[q].nth /\ t.data = req[q].data
          /\ t.todo = req[q].todo /\ t.read = req[q].read /\ t.touched = req[q].touched \cup {k}
      BY <2>0 DEF RequestState
    <3> HIDE DEF t
    <3> QED  BY <2>1, <3>1, <3>2
  <2>2. CASE ~(q # w /\ req[q].data # <<>> /\ Restoring(q))
    <3>1. Touch(k, w)[q] = req[q]
      BY <2>2 DEF Touch, Restoring
    <3> QED  BY <2>0, <2>2, <3>1
  <2> QED  BY <2>1, <2>2
<1>3. Touch(k, w) = [q \in Requests |-> Touch(k, w)[q]]
  BY DEF Touch
<1>4. Touch(k, w) \in [Requests -> RequestState]
  BY <1>2, <1>3
<1> QED  BY <1>2, <1>4

\* An object is written: by one request of a restore, or by somebody else.
LEMMA WriteKeeps ==
  ASSUME BackupInv, NEW k \in ExportedKinds, NEW w,
         objects' \in [ExportedKinds -> [version : Nat, spec : Nat, status : Nat]],
         \A j \in ExportedKinds : j # k => objects'[j] = objects[j],
         req' \in [Requests -> RequestState],
         \A q \in Requests : q # w => OnlyTouched(q) /\ (Restoring(q) => k \in req'[q].touched),
         w \in Requests => /\ TodoOK(w)' /\ DataOK(w)' /\ RestoreOK(w)' /\ Calm(w) /\ Still(w)
                           /\ ~AtPC(w, "choose")',
         edits' \in Nat,
         UNCHANGED <<files, snaps, policy, clock, restores, begun, created, uploads, doomed, lowest,
                     bcrashes>>
  PROVE  BackupInv'
<1>i. /\ BackupTypeOK /\ TodoInv /\ NumberInv /\ FileInv /\ RetentionInv /\ DataInv /\ RestoreInv
      /\ begun \in Nat /\ req \in [Requests -> RequestState]
  BY DEF BackupInv, BackupTypeOK
<1>1. BackupTypeOK'
  BY <1>i DEF BackupTypeOK
<1>2. ASSUME NEW q \in Requests, q # w
      PROVE  TodoOK(q)' /\ DataOK(q)' /\ Calm(q) /\ Still(q)
  <2>1. TodoOK(q) /\ DataOK(q) /\ OnlyTouched(q)
    BY <1>i, <1>2 DEF TodoInv, DataInv
  <2>2. TodoOK(q)'
    BY <2>1 DEF OnlyTouched, TodoOK, Removing, Restoring, AtPC
  <2>3. DataOK(q)'
    <3>1. req'[q].pc = req[q].pc /\ req'[q].data = req[q].data /\ req'[q].todo = req[q].todo
      BY <2>1, Zenon DEF OnlyTouched
    <3>2. Once(req[q].data)'
      BY <2>1, <3>1, Zenon DEF DataOK, Once
    <3>3. SUFFICES ASSUME AtPC(q, "list")
                   PROVE  /\ \A i, j \in 1..Len(req'[q].todo) : req'[q].todo[i] = req'[q].todo[j] => i = j
                          /\ \A i \in 1..Len(req'[q].todo), j \in 1..Len(req'[q].data) :
                               req'[q].todo[i] # req'[q].data[j].kind
      BY <3>1, <3>2, Zenon DEF DataOK, AtPC
    <3>4. PICK t, a : t = req[q].todo /\ a = req[q].data
      BY Zenon
    <3>5. /\ \A i, j \in 1..Len(t) : t[i] = t[j] => i = j
          /\ \A i \in 1..Len(t), j \in 1..Len(a) : t[i] # a[j].kind
      BY <2>1, <3>3, <3>4 DEF DataOK
    <3>6. req'[q].todo = t /\ req'[q].data = a
      BY <3>1, <3>4, Zenon
    <3> QED  BY <3>5, <3>6, Zenon
  <2>4. Calm(q)
    BY <2>1, Zenon DEF OnlyTouched, Calm, Taking, Removing
  <2>5. Still(q)
    BY <2>1 DEF OnlyTouched, Still
  <2> QED  BY <2>2, <2>3, <2>4, <2>5
<1>3. ASSUME NEW q \in Requests, q # w PROVE RestoreOK(q)'
  <2>1. /\ OnlyTouched(q) /\ RestoreOK(q) /\ (Restoring(q) => k \in req'[q].touched)
        /\ (Restoring(q)' <=> Restoring(q)) /\ req[q] \in RequestState /\ TodoOK(q)
    BY <1>i, <1>3 DEF RestoreInv, OnlyTouched, Restoring, TodoInv
  <2>2. SUFFICES ASSUME Restoring(q) PROVE RestoreOK(q)'
    BY <2>1 DEF RestoreOK
  <2>3. ASSUME NEW e \in EntryRecord, Applied(q, e) PROVE Applied(q, e)'
    BY <2>1, <2>2, <2>3 DEF Applied, OnlyTouched, EntryRecord, Entry
  <2>4. ASSUME NEW e \in EntryRecord, Half(q, e) PROVE Half(q, e)'
    BY <2>1, <2>2, <2>4 DEF Half, OnlyTouched, EntryRecord
  <2>5. /\ req[q].data \in Seq(EntryRecord) /\ Len(req[q].data) \in Nat
        /\ req[q].todo \in Seq(EntryRecord) /\ Len(req[q].todo) \in Nat
        /\ (AtPC(q, "status") => req[q].todo # <<>>)
    <3>1. req[q].data \in Seq(EntryRecord) /\ req[q].todo \in Seq(EntryRecord)
      BY <2>1, <2>2, RequestFields DEF TodoOK
    <3>2. AtPC(q, "status") => req[q].todo # <<>>
      BY <2>1, <2>2 DEF TodoOK, AtPC
    <3> QED  BY <3>1, <3>2, LenProperties
  <2> DEFINE n == Len(req[q].data)
             m == Len(req[q].todo)
  <2>6. /\ req[q].data # <<>> /\ m <= n
        /\ \A i \in 1..m : req[q].todo[i] = req[q].data[(n - m) + i]
        /\ \A i \in 1..(n - m) : Applied(q, req[q].data[i])
        /\ AtPC(q, "status") => Half(q, req[q].todo[1])
    BY <2>1, <2>2 DEF RestoreOK
  <2>7. \A i \in 1..(n - m) : req[q].data[i] \in EntryRecord
    <3>1. \A i \in 1..(n - m) : i \in 1..n
      BY <2>5, <2>6
    <3> QED  BY <2>5, <3>1, ElementOfSeq
  <2>8. AtPC(q, "status") => req[q].todo[1] \in EntryRecord
    BY <2>5, HeadTail
  <2>9. /\ \A e \in EntryRecord : Applied(q, e) => Applied(q, e)'
        /\ \A e \in EntryRecord : Half(q, e) => Half(q, e)'
    BY <2>3, <2>4
  <2>10. /\ req'[q].data = req[q].data /\ req'[q].todo = req[q].todo
         /\ (AtPC(q, "status")' <=> AtPC(q, "status"))
    BY <2>1 DEF OnlyTouched, AtPC
  <2> HIDE DEF n, m
  <2>11. /\ \A i \in 1..(n - m) : Applied(q, req[q].data[i])'
         /\ AtPC(q, "status") => Half(q, req[q].todo[1])'
    BY <2>6, <2>7, <2>8, <2>9, <2>10
  <2> QED  BY <2>6, <2>10, <2>11 DEF RestoreOK, n, m
<1>4. TodoInv' /\ RestoreInv' /\ \A q \in Requests : DataOK(q)'
  BY <1>2, <1>3 DEF TodoInv, RestoreInv
<1>5. DataInv'
  BY <1>i, <1>4 DEF DataInv, Once
<1>6. NumberInv' /\ FileInv'
  <2>1. \A q \in Requests : Calm(q) /\ Still(q) /\ req'[q].nth \in Nat
    BY <1>2, RequestFields
  <2>2. NumberInv'
    BY <1>i, <2>1, NumberKeeps
  <2> QED  BY <1>i, <2>1, <2>2, FileKeeps DEF Calm
<1>7. RetentionInv'
  <2>1. \A q \in Requests : AtPC(q, "choose")' => AtPC(q, "choose") /\ req'[q].read = req[q].read
    BY DEF OnlyTouched, AtPC
  <2> QED  BY <1>i, <2>1, RetentionKeeps
<1> QED  BY <1>1, <1>4, <1>5, <1>6, <1>7 DEF BackupInv

LEMMA EditObjectStep ==
  ASSUME BackupInv, NEW k \in ExportedKinds, EditObject(k)
  PROVE  BackupInv'
<1>i. /\ edits \in Nat /\ edits + 1 \in Nat
      /\ objects \in [ExportedKinds -> [version : Nat, spec : Nat, status : Nat]]
  BY DEF BackupInv, BackupTypeOK
<1>u. /\ edits' = edits + 1 /\ req' = Touch(k, "client")
      /\ UNCHANGED <<files, snaps, policy, clock, restores, begun, created, uploads, doomed, lowest,
                     bcrashes>>
  BY DEF EditObject
<1>1. /\ objects' \in [ExportedKinds -> [version : Nat, spec : Nat, status : Nat]]
      /\ \A j \in ExportedKinds : j # k => objects'[j] = objects[j]
  <2>1. CASE objects' = [objects EXCEPT ![k] = [version |-> @.version + 1, spec |-> edits + 1,
                                                 status |-> @.status]]
    BY <1>i, <2>1
  <2>2. CASE objects' = [objects EXCEPT ![k].status = edits + 1]
    BY <1>i, <2>2
  <2>3. CASE objects' = [objects EXCEPT ![k] = NoObject]
    BY <1>i, <2>3 DEF NoObject
  <2> QED  BY <2>1, <2>2, <2>3 DEF EditObject
<1>2. "client" \notin Requests
  BY BackupAssumption DEF BackupAssumption
<1>3. /\ req' \in [Requests -> RequestState]
      /\ \A q \in Requests : OnlyTouched(q) /\ (Restoring(q) => k \in req'[q].touched)
  <2> DEFINE w == "client"
  <2>1. w \notin Requests /\ req' = Touch(k, w)
    BY <1>u, <1>2
  <2> HIDE DEF w
  <2> QED  BY <2>1, TouchFacts DEF OnlyTouched
<1> QED  BY <1>i, <1>u, <1>1, <1>2, <1>3, WriteKeeps

\* An entry is in the table and the restore goes on to the next one: the
\* entries before it are of other kinds, and still there.
LEMMA EntryDone ==
  ASSUME BackupInv, NEW r \in Requests, Restoring(r), ~AtPC(r, "restored"),
         req'[r] = NextEntry(req[r]), NEW e, e = Current(r),
         \A j \in ExportedKinds : j # e.kind => objects'[j] = objects[j],
         e.kind \in req[r].touched
           \/ (objects'[e.kind].version > 0 /\ objects'[e.kind].spec = e.spec
               /\ objects'[e.kind].status = e.status)
  PROVE  /\ NextEntry(req[r]) \in RequestState /\ TodoOK(r)' /\ DataOK(r)' /\ RestoreOK(r)'
         /\ Calm(r) /\ Still(r) /\ ~AtPC(r, "choose")'
<1> DEFINE todo == req[r].todo
           data == req[r].data
           m == Len(todo)
           n == Len(data)
           pc == IF m = 1 THEN "restored" ELSE "get"
           new == [req[r] EXCEPT !.todo = Tail(todo), !.pc = pc]
<1>1. /\ req[r] \in RequestState /\ todo \in Seq(EntryRecord) /\ todo # <<>>
      /\ data \in Seq(EntryRecord) /\ Once(data) /\ data # <<>> /\ e \in EntryRecord
      /\ m <= n /\ m \in Nat /\ m >= 1 /\ n \in Nat /\ e = data[(n - m) + 1]
  BY AtEntry
<1>2. /\ Tail(todo) \in Seq(EntryRecord) /\ Len(Tail(todo)) = m - 1
      /\ (Tail(todo) = <<>> <=> m = 1)
      /\ \A i \in 1..(m - 1) : Tail(todo)[i] = todo[i + 1] /\ i + 1 \in 1..m
  BY <1>1, HeadTail
<1>3. NextEntry(req[r]) = new
  BY DEF NextEntry
<1>4. /\ \A i \in 1..m : todo[i] = data[(n - m) + i]
      /\ \A i \in 1..(n - m) : Applied(r, data[i])
  BY DEF BackupInv, RestoreInv, RestoreOK
<1>5. pc \in {"get", "restored"} /\ (pc = "restored" <=> Tail(todo) = <<>>)
  BY <1>2
<1> HIDE DEF pc
<1>6. /\ new \in RequestState /\ new.todo = Tail(todo) /\ new.data = data /\ new.pc = pc
      /\ new.touched = req[r].touched
  <2>1. Tail(todo) \in Seq(Items)
    BY <1>2 DEF Items
  <2> QED  BY <1>1, <1>5, <2>1 DEF RequestState, Items
<1> HIDE DEF new
<1>7. req'[r] = new
  BY <1>3
<1>8. /\ Restoring(r)' /\ ~AtPC(r, "list")' /\ ~AtPC(r, "choose")' /\ ~AtPC(r, "status")'
      /\ ~Taking(r)' /\ ~Removing(r)' /\ Still(r) /\ (AtPC(r, "restored")' <=> Tail(todo) = <<>>)
  BY <1>5, <1>6, <1>7 DEF Restoring, Removing, Taking, Still, AtPC
<1> HIDE DEF todo, data
<1>9. TodoOK(r)' /\ DataOK(r)' /\ Calm(r)
  BY <1>1, <1>2, <1>6, <1>7, <1>8 DEF TodoOK, DataOK, Once, Calm
<1>10. \A i \in 1..n : data[i] \in EntryRecord
  BY <1>1, ElementOfSeq
<1>11. Applied(r, e)'
  <2>1. ASSUME objects'[e.kind].spec = e.spec, objects'[e.kind].status = e.status
        PROVE  [kind |-> e.kind, spec |-> objects'[e.kind].spec, status |-> objects'[e.kind].status] = e
    BY <1>1, <2>1 DEF EntryRecord
  <2> QED  BY <1>6, <1>7, <2>1 DEF Applied, Entry
<1>12. \A f \in EntryRecord : f.kind # e.kind /\ Applied(r, f) => Applied(r, f)'
  BY <1>6, <1>7 DEF Applied, Entry, EntryRecord
<1> HIDE DEF m, n
<1>13. \A i \in 1..(n - (m - 1)) : Applied(r, data[i])'
  <2> SUFFICES ASSUME NEW i \in 1..(n - (m - 1)) PROVE Applied(r, data[i])'
    OBVIOUS
  <2>0. data' = data
    BY <1>6, <1>7 DEF data
  <2>1. CASE i = (n - m) + 1
    BY <1>1, <1>11, <2>0, <2>1
  <2>2. CASE i # (n - m) + 1
    <3>1. i \in 1..(n - m) /\ i \in 1..n /\ (n - m) + 1 \in 1..n
      BY <1>1, <2>2
    <3>2. data[i].kind # data[(n - m) + 1].kind
      BY <1>1, <2>2, <3>1 DEF Once, n
    <3>3. data[i] \in EntryRecord /\ Applied(r, data[i]) /\ data[i].kind # e.kind
      BY <1>1, <1>4, <1>10, <3>1, <3>2
    <3> QED  BY <1>12, <2>0, <3>3
  <2> QED  BY <2>1, <2>2
<1>14. ASSUME NEW i \in 1..(m - 1) PROVE Tail(todo)[i] = data[(n - (m - 1)) + i]
  <2>1. /\ i + 1 \in 1..m /\ Tail(todo)[i] = todo[i + 1]
        /\ (n - m) + (i + 1) = (n - (m - 1)) + i
    BY <1>1, <1>2 DEF m
  <2> QED  BY <1>4, <2>1 DEF m
<1>15. m - 1 <= n
  BY <1>1
<1>16. RestoreOK(r)'
  <2>1. /\ req'[r].data = data /\ req'[r].todo = Tail(todo) /\ Len(req'[r].data) = n
        /\ Len(req'[r].todo) = m - 1
    BY <1>2, <1>6, <1>7 DEF n, m
  <2>2. \A i \in 1..(n - (m - 1)) : Applied(r, req[r].data[i])'
    BY <1>13 DEF data
  <2> QED  BY <1>1, <1>8, <1>14, <1>15, <2>1, <2>2 DEF RestoreOK
<1> QED  BY <1>3, <1>6, <1>8, <1>9, <1>16

\* The requests after a write of a restore and the step of that restore.
LEMMA TouchAndMove ==
  ASSUME BackupInv, NEW k \in ExportedKinds, NEW r \in Requests, NEW new \in RequestState,
         req' = [Touch(k, r) EXCEPT ![r] = new]
  PROVE  /\ req' \in [Requests -> RequestState] /\ req'[r] = new
         /\ \A q \in Requests : q # r => OnlyTouched(q) /\ (Restoring(q) => k \in req'[q].touched)
<1>1. /\ Touch(k, r) \in [Requests -> RequestState]
      /\ \A q \in Requests :
           LET t == Touch(k, r)[q] IN
           /\ t.pc = req[q].pc /\ t.type = req[q].type /\ t.started = req[q].started
           /\ t.nth = req[q].nth /\ t.data = req[q].data /\ t.todo = req[q].todo
           /\ t.read = req[q].read /\ req[q].touched \subseteq t.touched
           /\ (q # r /\ Restoring(q) => k \in t.touched)
  BY TouchFacts
<1>2. /\ req' \in [Requests -> RequestState] /\ req'[r] = new
      /\ \A q \in Requests : q # r => req'[q] = Touch(k, r)[q]
  BY <1>1
<1> QED  BY <1>1, <1>2 DEF OnlyTouched

LEMMA PutEntryStep ==
  ASSUME BackupInv, NEW r \in Requests, PutEntry(r)
  PROVE  BackupInv'
<1> DEFINE e == Current(r)
           row == objects[e.kind]
           fresh == req[r].read = 0
           written == [version |-> row.version + 1, spec |-> e.spec,
                       status |-> IF fresh THEN e.status ELSE row.status]
           new == IF fresh THEN NextEntry(req[r]) ELSE [req[r] EXCEPT !.pc = "status"]
<1>u. /\ AtPC(r, "put")
      /\ UNCHANGED <<files, snaps, policy, clock, edits, restores, begun, created, uploads, doomed,
                     lowest, bcrashes>>
  BY DEF PutEntry
<1>r. Restoring(r) /\ ~AtPC(r, "restored")
  BY <1>u DEF Restoring, AtPC
<1>i. /\ BackupTypeOK /\ edits \in Nat /\ req[r] \in RequestState /\ TodoOK(r) /\ DataOK(r)
      /\ RestoreOK(r) /\ req \in [Requests -> RequestState]
      /\ objects \in [ExportedKinds -> [version : Nat, spec : Nat, status : Nat]]
  BY DEF BackupInv, BackupTypeOK, RestoreInv, TodoInv, DataInv
<1>1. CASE Finish(r) /\ UNCHANGED objects
  BY <1>u, <1>1, EndsQuietly
<1>2. CASE /\ objects' = [objects EXCEPT ![e.kind] =
                [version |-> @.version + 1, spec |-> e.spec,
                 status |-> IF fresh THEN e.status ELSE @.status]]
           /\ req' = [Touch(e.kind, r) EXCEPT
                        ![r] = IF fresh THEN NextEntry(@) ELSE [@ EXCEPT !.pc = "status"]]
  <2>1. e \in EntryRecord /\ e.kind \in ExportedKinds
    BY <1>r, AtEntry
  <2>2. /\ written \in [version : Nat, spec : Nat, status : Nat] /\ written.version > 0
        /\ written.spec = e.spec /\ (fresh => written.status = e.status)
    BY <1>i, <2>1 DEF EntryRecord
  <2>3. objects' = [objects EXCEPT ![e.kind] = written]
    BY <1>2
  <2>4. req' = [Touch(e.kind, r) EXCEPT ![r] = new]
    <3>1. Touch(e.kind, r)[r] = req[r]
      BY <2>1, TouchFacts
    <3> QED  BY <1>2, <3>1
  <2> HIDE DEF e, written
  <2>5. /\ objects' \in [ExportedKinds -> [version : Nat, spec : Nat, status : Nat]]
        /\ objects'[e.kind] = written
        /\ \A j \in ExportedKinds : j # e.kind => objects'[j] = objects[j]
    BY <1>i, <2>1, <2>2, <2>3
  <2>6. /\ new \in RequestState
        /\ (req'[r] = new =>
              /\ TodoOK(r)' /\ DataOK(r)' /\ RestoreOK(r)' /\ Calm(r) /\ Still(r)
              /\ ~AtPC(r, "choose")')
    <3>1. CASE fresh
      <4>1. new = NextEntry(req[r])
        BY <3>1
      <4>2. /\ objects'[e.kind].version > 0 /\ objects'[e.kind].spec = e.spec
            /\ objects'[e.kind].status = e.status
        BY <2>2, <2>5, <3>1
      <4>3. new \in RequestState
        <5> DEFINE pc == IF Len(req[r].todo) = 1 THEN "restored" ELSE "get"
        <5>1. Tail(req[r].todo) \in Seq(Items)
          <6>1. Tail(req[r].todo) \in Seq(EntryRecord)
            BY <1>r, AtEntry, HeadTail
          <6> QED  BY <6>1 DEF Items
        <5>2. new = [req[r] EXCEPT !.todo = Tail(req[r].todo), !.pc = pc]
          BY <4>1 DEF NextEntry
        <5>3. pc \in Pcs
          BY DEF Pcs
        <5> HIDE DEF pc, new
        <5> QED  BY <1>i, <5>1, <5>2, <5>3 DEF RequestState, Items, Pcs
      <4> HIDE DEF new
      <4>4. e = Current(r)
        BY DEF e
      <4> QED  BY <1>r, <2>5, <4>1, <4>2, <4>3, <4>4, EntryDone
    <3>2. CASE ~fresh
      <4>1. new = [req[r] EXCEPT !.pc = "status"]
        BY <3>2
      <4> HIDE DEF new
      <4>2. /\ new \in RequestState /\ new.pc = "status" /\ new.data = req[r].data
            /\ new.todo = req[r].todo /\ new.touched = req[r].touched
        BY <1>i, <4>1 DEF RequestState
      <4>3. SUFFICES ASSUME req'[r] = new
                     PROVE  /\ TodoOK(r)' /\ DataOK(r)' /\ RestoreOK(r)' /\ Calm(r) /\ Still(r)
                            /\ ~AtPC(r, "choose")'
        BY <4>2
      <4>4. /\ Restoring(r)' /\ ~AtPC(r, "list")' /\ ~AtPC(r, "choose")' /\ ~AtPC(r, "restored")'
            /\ ~Taking(r)' /\ ~Removing(r)' /\ Still(r)
        BY <4>2, <4>3 DEF Restoring, Removing, Taking, Still, AtPC
      <4>5. TodoOK(r)' /\ DataOK(r)' /\ Calm(r)
        BY <1>i, <1>r, <4>2, <4>3, <4>4 DEF TodoOK, DataOK, Once, Calm
      <4>6. RestoreOK(r)'
        <5> DEFINE n == Len(req[r].data)
                   m == Len(req[r].todo)
        <5>1. /\ req[r].data # <<>> /\ m <= n
              /\ \A i \in 1..m : req[r].todo[i] = req[r].data[(n - m) + i]
              /\ \A i \in 1..(n - m) : Applied(r, req[r].data[i])
          BY <1>i, <1>r DEF RestoreOK
        <5>2. /\ req[r].data \in Seq(EntryRecord) /\ Once(req[r].data) /\ n \in Nat /\ m \in Nat
              /\ m >= 1 /\ e = req[r].data[(n - m) + 1] /\ e = req[r].todo[1]
          BY <1>r, AtEntry DEF e
        <5>3. \A f \in EntryRecord : f.kind # e.kind /\ Applied(r, f) => Applied(r, f)'
          BY <2>5, <4>2, <4>3 DEF Applied, Entry, EntryRecord
        <5>4. \A i \in 1..(n - m) : req[r].data[i] \in EntryRecord /\ req[r].data[i].kind # e.kind
          <6> SUFFICES ASSUME NEW i \in 1..(n - m)
                       PROVE  req[r].data[i] \in EntryRecord /\ req[r].data[i].kind # e.kind
            OBVIOUS
          <6>0. m <= n /\ n \in Nat /\ m \in Nat /\ m >= 1
            BY <5>1, <5>2
          <6> HIDE DEF n, m
          <6>1. i \in 1..n /\ (n - m) + 1 \in 1..n /\ i # (n - m) + 1
            BY <6>0
          <6> QED  BY <5>2, <6>1, ElementOfSeq DEF Once, n, m
        <5>5. req'[r].data = req[r].data /\ req'[r].todo = req[r].todo
          BY <4>2, <4>3
        <5>6. \A i \in 1..(n - m) : Applied(r, req[r].data[i])'
          BY <5>1, <5>3, <5>4, <5>5
        <5>7. Half(r, req[r].todo[1])'
          <6>1. objects'[e.kind].version > 0 /\ objects'[e.kind].spec = e.spec
            BY <2>2, <2>5
          <6> QED  BY <5>2, <5>5, <6>1 DEF Half
        <5> QED  BY <5>1, <5>5, <5>6, <5>7 DEF RestoreOK
      <4> QED  BY <4>4, <4>5, <4>6
    <3> QED  BY <3>1, <3>2
  <2> HIDE DEF new
  <2>7. /\ req' \in [Requests -> RequestState] /\ req'[r] = new
        /\ \A q \in Requests :
             q # r => OnlyTouched(q) /\ (Restoring(q) => e.kind \in req'[q].touched)
    BY <2>1, <2>4, <2>6, TouchAndMove
  <2> DEFINE k == e.kind
  <2>8. /\ k \in ExportedKinds /\ \A j \in ExportedKinds : j # k => objects'[j] = objects[j]
        /\ \A q \in Requests : q # r => OnlyTouched(q) /\ (Restoring(q) => k \in req'[q].touched)
        /\ edits' \in Nat
    BY <1>i, <1>u, <2>1, <2>5, <2>7
  <2> HIDE DEF k
  <2> QED  BY <1>u, <2>5, <2>6, <2>7, <2>8, WriteKeeps
<1> QED  BY <1>1, <1>2 DEF PutEntry

LEMMA PutStatusStep ==
  ASSUME BackupInv, NEW r \in Requests, PutStatus(r)
  PROVE  BackupInv'
<1> DEFINE e == Current(r)
           new == NextEntry(req[r])
<1>u. /\ AtPC(r, "status")
      /\ UNCHANGED <<files, snaps, policy, clock, edits, restores, begun, created, uploads, doomed,
                     lowest, bcrashes>>
  BY DEF PutStatus
<1>r. Restoring(r) /\ ~AtPC(r, "restored")
  BY <1>u DEF Restoring, AtPC
<1>i. /\ edits \in Nat /\ req[r] \in RequestState /\ RestoreOK(r)
      /\ objects \in [ExportedKinds -> [version : Nat, spec : Nat, status : Nat]]
  BY DEF BackupInv, BackupTypeOK, RestoreInv
<1>1. CASE Finish(r) /\ UNCHANGED objects
  BY <1>u, <1>1, EndsQuietly
<1>2. CASE /\ objects' = [objects EXCEPT ![e.kind].status = e.status]
           /\ req' = [Touch(e.kind, r) EXCEPT ![r] = NextEntry(@)]
  <2>1. e \in EntryRecord /\ e.kind \in ExportedKinds /\ e.status \in Nat /\ e = req[r].todo[1]
    BY <1>r, AtEntry DEF EntryRecord
  <2>2. req' = [Touch(e.kind, r) EXCEPT ![r] = new]
    <3>1. Touch(e.kind, r)[r] = req[r]
      BY <2>1, TouchFacts
    <3> QED  BY <1>2, <3>1
  <2>3. Half(r, e)
    BY <1>i, <1>u, <1>r, <2>1 DEF RestoreOK
  <2>c. e = Current(r)
    OBVIOUS
  <2> HIDE DEF e
  <2>4. /\ objects' \in [ExportedKinds -> [version : Nat, spec : Nat, status : Nat]]
        /\ \A j \in ExportedKinds : j # e.kind => objects'[j] = objects[j]
        /\ objects'[e.kind].status = e.status /\ objects'[e.kind].spec = objects[e.kind].spec
        /\ objects'[e.kind].version = objects[e.kind].version
    BY <1>i, <1>2, <2>1
  <2>5. new \in RequestState
    <3> DEFINE pc == IF Len(req[r].todo) = 1 THEN "restored" ELSE "get"
    <3>1. Tail(req[r].todo) \in Seq(Items)
      <4>1. Tail(req[r].todo) \in Seq(EntryRecord)
        BY <1>r, AtEntry, HeadTail
      <4> QED  BY <4>1 DEF Items
    <3>2. new = [req[r] EXCEPT !.todo = Tail(req[r].todo), !.pc = pc]
      BY DEF NextEntry
    <3>3. pc \in Pcs
      BY DEF Pcs
    <3> HIDE DEF pc, new
    <3> QED  BY <1>i, <3>1, <3>2, <3>3 DEF RequestState, Items, Pcs
  <2>6. e.kind \in req[r].touched
           \/ (objects'[e.kind].version > 0 /\ objects'[e.kind].spec = e.spec
               /\ objects'[e.kind].status = e.status)
    BY <2>3, <2>4 DEF Half
  <2> DEFINE k == e.kind
  <2>7. /\ req' \in [Requests -> RequestState] /\ req'[r] = new
        /\ \A q \in Requests : q # r => OnlyTouched(q) /\ (Restoring(q) => k \in req'[q].touched)
    BY <2>1, <2>2, <2>5, TouchAndMove
  <2>8. /\ TodoOK(r)' /\ DataOK(r)' /\ RestoreOK(r)' /\ Calm(r) /\ Still(r) /\ ~AtPC(r, "choose")'
    BY <1>r, <2>4, <2>6, <2>7, <2>c, EntryDone
  <2>9. k \in ExportedKinds /\ edits' \in Nat /\ \A j \in ExportedKinds : j # k => objects'[j] = objects[j]
    BY <1>i, <1>u, <2>1, <2>4
  <2> HIDE DEF k, new
  <2> QED  BY <1>u, <2>4, <2>7, <2>8, <2>9, WriteKeeps
<1> QED  BY <1>1, <1>2 DEF PutStatus

-----------------------------------------------------------------------------
(* The invariant, and what it says. *)

LEMMA TockStep ==
  ASSUME BackupInv, Tock
  PROVE  BackupInv'
<1>i. /\ BackupTypeOK /\ TodoInv /\ NumberInv /\ FileInv /\ RetentionInv /\ DataInv /\ RestoreInv
      /\ clock \in 0..MaxTicks /\ begun \in Nat /\ req \in [Requests -> RequestState]
      /\ MaxTicks \in Nat
  BY BackupAssumption DEF BackupInv, BackupTypeOK, BackupAssumption
<1>u. /\ clock < MaxTicks /\ clock' = clock + 1
      /\ UNCHANGED <<objects, files, snaps, policy, req, edits, restores, begun, created, uploads,
                     doomed, lowest, bcrashes>>
  BY DEF Tock
<1>1. clock' \in 0..MaxTicks
  BY <1>i, <1>u
<1>2. BackupTypeOK'
  BY <1>i, <1>u, <1>1 DEF BackupTypeOK
<1>3. \A q \in Requests : Same(q) /\ Calm(q) /\ Still(q) /\ req'[q].nth \in Nat
  BY <1>i, <1>u, SameIsCalm, RequestFields DEF Same, Still
<1>4. NumberInv'
  BY <1>i, <1>u, <1>3, NumberKeeps
<1>5. FileInv'
  BY <1>i, <1>u, <1>3, FileKeeps DEF Calm
<1>6. RetentionInv'
  BY <1>i, <1>u, RetentionKeeps DEF AtPC
<1>7. TodoInv' /\ DataInv' /\ RestoreInv'
  BY <1>i, <1>u, <1>3, TodoKeeps, DataKeeps, RestoreKeeps
<1> QED  BY <1>2, <1>4, <1>5, <1>6, <1>7 DEF BackupInv

\* A crash ends every request where it is.
LEMMA BackupCrashStep ==
  ASSUME BackupInv, BackupCrash
  PROVE  BackupInv'
<1>i. /\ BackupTypeOK /\ TodoInv /\ NumberInv /\ FileInv /\ RetentionInv /\ DataInv /\ RestoreInv
      /\ begun \in Nat /\ bcrashes \in Nat
  BY DEF BackupInv, BackupTypeOK
<1>u. /\ bcrashes' = bcrashes + 1 /\ req' = [r \in Requests |-> Resting]
      /\ UNCHANGED <<objects, files, snaps, policy, clock, edits, restores, begun, created, uploads,
                     doomed, lowest>>
  BY DEF BackupCrash
<1>1. req' \in [Requests -> RequestState] /\ \A q \in Requests : req'[q] = Resting
  BY <1>u, RestingFacts
<1>2. BackupTypeOK'
  BY <1>i, <1>u, <1>1 DEF BackupTypeOK
<1>3. \A q \in Requests :
        /\ TodoOK(q)' /\ DataOK(q)' /\ RestoreOK(q)' /\ Calm(q) /\ Still(q)
        /\ ~AtPC(q, "choose")' /\ ~Taking(q)' /\ ~Removing(q)' /\ req'[q].nth \in Nat
  BY <1>1, RestIsOK, RequestFields
<1>4. NumberInv'
  BY <1>i, <1>u, <1>3, NumberKeeps
<1>5. FileInv'
  BY <1>i, <1>u, <1>3, FileKeeps
<1>6. RetentionInv'
  BY <1>i, <1>u, <1>3, RetentionKeeps
<1>7. TodoInv' /\ DataInv' /\ RestoreInv'
  BY <1>i, <1>u, <1>3, TodoKeeps, DataKeeps, RestoreKeeps
<1> QED  BY <1>2, <1>4, <1>5, <1>6, <1>7 DEF BackupInv

LEMMA BackupInitInv == BackupInit => BackupInv
<1> SUFFICES ASSUME BackupInit PROVE BackupInv
  OBVIOUS
<1>1. /\ req \in [Requests -> RequestState] /\ \A q \in Requests : req[q] = Resting
  BY RestingFacts DEF BackupInit
<1>2. \A q \in Requests : req[q].pc = "idle" /\ req[q].data = <<>>
  BY <1>1, RestingFacts
<1>3. \A q \in Requests : ~Taking(q) /\ ~Removing(q) /\ ~Restoring(q) /\ ~AtPC(q, "list")
                          /\ ~AtPC(q, "choose") /\ \A k : ~WritesTo(q, k)
  BY <1>2 DEF Taking, Removing, Restoring, AtPC, WritesTo
<1>4. BackupTypeOK
  <2>1. NoFile \in [state : {"none", "torn", "whole"}, entries : Seq(EntryRecord)]
    BY DEF NoFile
  <2>2. /\ MaxTicks \in Nat /\ DefaultRetention \in Nat /\ IsFiniteSet({}) /\ 0 \in 0..MaxTicks
    BY FS_EmptySet, BackupAssumption DEF BackupAssumption
  <2> QED  BY <1>1, <2>1, <2>2 DEF BackupInit, BackupTypeOK
<1>5. TodoInv /\ RestoreInv
  BY <1>3 DEF TodoInv, TodoOK, RestoreInv, RestoreOK
<1>6. NumberInv
  BY <1>3 DEF NumberInv, NumberOK, BackupInit
<1>7. FileInv
  <2>1. \A i, k : ~NamedBy(i, k)
    BY <1>3 DEF NamedBy, BackupInit
  <2>2. \A k \in FileKeys : uploads[k] = 0 /\ UnusedOK(k)
    BY <1>3, <2>1 DEF UnusedOK, BackupInit
  <2> QED  BY <2>2 DEF FileInv
<1>8. RetentionInv
  <2>1. Cardinality({}) = 0 /\ DefaultRetention \in Nat
    BY FS_EmptySet, BackupAssumption DEF BackupAssumption
  <2> QED  BY <1>3, <2>1 DEF RetentionInv, BackupInit
<1>9. DataInv
  <2>1. Once(<<>>)
    BY NoPlaces DEF Once
  <2>2. \A k \in FileKeys : files[k].entries = <<>>
    BY DEF BackupInit, NoFile
  <2> QED  BY <1>2, <1>3, <2>1, <2>2 DEF DataInv, DataOK
<1> QED  BY <1>4, <1>5, <1>6, <1>7, <1>8, <1>9 DEF BackupInv

LEMMA BackupStep == BackupInv /\ [BackupNext]_backupVars => BackupInv'
<1> SUFFICES ASSUME BackupInv, [BackupNext]_backupVars PROVE BackupInv'
  OBVIOUS
<1>1. ASSUME NEW r \in Requests, TriggerDatabase(r) \/ TriggerResources(r) \/ resourceSnapshot(r)
                                 \/ TriggerFails(r)
      PROVE  BackupInv'
  BY <1>1, TriggerDatabaseStep, TriggerResourcesStep, ResourceSnapshotStep, TriggerFailsStep
<1>2. ASSUME NEW r \in Requests, UploadCreate(r) \/ UploadCopy(r) \/ UploadFails(r)
                                 \/ persistSnapshot(r)
      PROVE  BackupInv'
  BY <1>2, UploadCreateStep, UploadCopyStep, UploadFailsStep, PersistSnapshotStep
<1>3. ASSUME NEW r \in Requests, enforceRetention(r) \/ ChooseExpired(r) \/ DeleteFile(r)
                                 \/ RemoveRecord(r) \/ UpdatePolicy(r) \/ PutPolicy(r)
      PROVE  BackupInv'
  BY <1>3, EnforceRetentionStep, ChooseExpiredStep, DeleteFileStep, RemoveRecordStep,
     UpdatePolicyStep, PutPolicyStep
<1>4. ASSUME NEW r \in Requests, NEW s \in snaps, NEW dryRun \in BOOLEAN, Restore(r, s, dryRun)
      PROVE  BackupInv'
  BY <1>4, RestoreStep
<1>5. ASSUME NEW r \in Requests, applyEntry(r) \/ PutEntry(r) \/ PutStatus(r) \/ Restored(r)
      PROVE  BackupInv'
  BY <1>5, ApplyEntryStep, PutEntryStep, PutStatusStep, RestoredStep
<1>6. ASSUME NEW k \in ExportedKinds, EditObject(k) PROVE BackupInv'
  BY <1>6, EditObjectStep
<1>7. CASE Tock \/ BackupCrash
  BY <1>7, TockStep, BackupCrashStep
<1>8. CASE UNCHANGED backupVars
  <2>1. UNCHANGED <<objects, files, snaps, policy, req, clock, edits, restores, begun, created,
                    uploads, doomed, lowest, bcrashes>>
    BY <1>8 DEF backupVars
  <2>2. BackupTypeOK' /\ \A q \in Requests : Same(q) /\ Calm(q) /\ Still(q) /\ req'[q].nth \in Nat
    BY <2>1, SameIsCalm, RequestFields DEF BackupInv, BackupTypeOK, Same, Still
  <2>3. begun \in Nat /\ NumberInv'
    BY <2>1, <2>2, NumberKeeps DEF BackupInv, BackupTypeOK
  <2>4. FileInv'
    BY <2>1, <2>2, FileKeeps DEF BackupInv, Calm
  <2>5. RetentionInv'
    BY <2>1, RetentionKeeps DEF BackupInv, AtPC
  <2>6. TodoInv' /\ DataInv' /\ RestoreInv'
    BY <2>1, <2>2, TodoKeeps, DataKeeps, RestoreKeeps DEF BackupInv
  <2> QED  BY <2>2, <2>3, <2>4, <2>5, <2>6 DEF BackupInv
<1> QED  BY <1>1, <1>2, <1>3, <1>4, <1>5, <1>6, <1>7, <1>8 DEF BackupNext

(***************************************************************************)
(* The invariant: what requests hold, what their numbers are, who has to   *)
(* do with a file, what a retention pass leaves and how far a restore is.  *)
(***************************************************************************)
THEOREM BackupInvariant == BackupSpec => []BackupInv
<1>1. BackupInit => BackupInv
  BY BackupInitInv
<1>2. BackupInv /\ [BackupNext]_backupVars => BackupInv'
  BY BackupStep
<1> QED  BY <1>1, <1>2, PTL DEF BackupSpec

(***************************************************************************)
(* Every variable of the backup service keeps its type.                    *)
(***************************************************************************)
THEOREM BackupTypeCorrect == BackupSpec => []BackupTypeOK
<1>1. BackupInv => BackupTypeOK
  BY DEF BackupInv
<1> QED  BY <1>1, BackupInvariant, PTL

(***************************************************************************)
(* What persistSnapshot recorded as a success can be read back as it was   *)
(* taken, whatever fails, crashes or runs at the same time, as long as no  *)
(* other upload to its key was begun and no retention pass chose it.       *)
(***************************************************************************)
THEOREM SnapshotsStayIntact == BackupSpec => []SnapshotIntact
<1>1. BackupInv => SnapshotIntact
  <2> SUFFICES ASSUME BackupInv, NEW s \in snaps, s.status = "success", s.id \notin doomed,
                      uploads[s.key] = 1
               PROVE  files[s.key] = Whole(s.sum)
    BY DEF SnapshotIntact
  <2>1. s.key \in FileKeys
    BY DEF BackupInv, BackupTypeOK, SnapshotRecord, NumberInv, RecordOK
  <2>2. UsedOnceOK(s.key)
    BY <2>1 DEF BackupInv, FileInv
  <2> QED  BY <2>2 DEF UsedOnceOK
<1> QED  BY <1>1, BackupInvariant, PTL

(***************************************************************************)
(* However many retention passes overlap, each with the list and the       *)
(* policy it read (enforceRetention), as many records stay as the smallest *)
(* retention that was in force.                                            *)
(***************************************************************************)
THEOREM RetentionHolds == BackupSpec => []RetentionKeepsEnough
<1>1. BackupInv => RetentionKeepsEnough
  <2> SUFFICES ASSUME BackupInv
               PROVE  Cardinality(snaps) >= IF created < lowest THEN created ELSE lowest
    BY DEF RetentionKeepsEnough
  <2>1. /\ lowest \in Nat /\ created \in Nat /\ IsFiniteSet(snaps)
        /\ (doomed = {} /\ Cardinality(snaps) = created) \/ Cardinality(Kept) >= lowest
    BY DEF BackupInv, BackupTypeOK, RetentionInv
  <2>2. Cardinality(snaps) \in Nat
    BY <2>1, FS_CardinalityType
  <2>3. Cardinality(Kept) >= lowest => Cardinality(snaps) >= lowest
    <3>1. Kept \subseteq snaps
      BY DEF Kept
    <3> QED  BY <2>1, <3>1, CountsFor
  <2> QED  BY <2>1, <2>2, <2>3
<1> QED  BY <1>1, BackupInvariant, PTL

(***************************************************************************)
(* A restore that ends without an error leaves every object of the         *)
(* snapshot with the spec and the status of the snapshot (applyEntry),     *)
(* unless somebody else wrote that object while it ran.                    *)
(***************************************************************************)
THEOREM RestoresAreComplete == BackupSpec => []RestoreComplete
<1>1. BackupInv => RestoreComplete
  <2> SUFFICES ASSUME BackupInv, NEW r \in Requests, AtPC(r, "restored"),
                      NEW i \in DOMAIN req[r].data
               PROVE  Applied(r, req[r].data[i])
    BY DEF RestoreComplete, Applied
  <2>1. Restoring(r) /\ TodoOK(r) /\ RestoreOK(r) /\ req[r].data \in Seq(EntryRecord)
    BY RequestFields DEF BackupInv, BackupTypeOK, TodoInv, RestoreInv, Restoring, AtPC
  <2>2. req[r].todo = <<>> /\ Len(req[r].todo) = 0
    BY <2>1, NoPlaces DEF TodoOK
  <2>3. /\ Len(req[r].data) \in Nat /\ i \in 1..Len(req[r].data)
        /\ Len(req[r].data) - 0 = Len(req[r].data)
    BY <2>1
  <2> QED  BY <2>1, <2>2, <2>3 DEF RestoreOK
<1> QED  BY <1>1, BackupInvariant, PTL
=============================================================================
