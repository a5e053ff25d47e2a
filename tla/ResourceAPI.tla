---------------------------- MODULE ResourceAPI ----------------------------
(***************************************************************************)
(* The resource rows of the state store and the requests that change them: *)
(* the REST handlers of tenants, node groups, config patches, machines and *)
(* providers, and the forms of the web console's cluster pages.            *)
(*                                                                         *)
(* A handler is a program: the sequence of store calls it makes for a      *)
(* request, each with the status code it answers when the call fails.      *)
(* Every SQL statement is a step of its own, so requests interleave        *)
(* between a lookup and the write that relies on it, and between a write   *)
(* and the event that announces it.                                        *)
(***************************************************************************)
EXTENDS Integers, Sequences, FiniteSets

CONSTANTS Clients,     \* concurrent requests
          Tenants,     \* tenant names
          Names,       \* names of node groups, patches, machines, providers
          Requests,    \* the requests that may arrive
          MaxRequests, \* bound on the requests served
          MaxMachines  \* bound on the machines the enricher creates

VARIABLES rows,     \* table resources: a row or NoRow for every <<type, name>>
          secrets,  \* table tenant_secrets: the tenants with a bundle
          conn,     \* what every client's request is doing
          lastSeen, \* the last event published about every key
          overlap,  \* keys with two unpublished mutations since the last quiet one
          uids,     \* rows inserted so far: the source of uid
          adopted,  \* ghost: the uids of rows whose owner an update has changed
          served    \* requests accepted

resourceVars == <<rows, secrets, conn, lastSeen, overlap, uids, adopted, served>>

Keys == ({"tenant"} \X Tenants)
          \cup ({"nodegroup", "configpatch", "machine", "provider"} \X Names)
Roles == {"", "controlplane", "worker"}

(* A spec is reduced to the fields handlers treat differently: the role,   *)
(* the number of machines, the provider settings and the enabled flag.     *)
Specs == [role : Roles, count : 0..2, provider : {"set", "none"},
          enabled : {"on", "off"}]
NoSpec == [role |-> "", count |-> 0, provider |-> "none", enabled |-> "off"]

(* The requests of the routes that RegisterRoutes knows.                   *)
Routes ==
    {"ng.create", "ng.get", "ng.update", "ng.delete", "ng.status", "patch.create", "patch.get",
     "patch.update", "patch.delete", "machine.get", "machine.bytenant", "machine.status",
     "machine.delete", "provider.get", "provider.status", "tenant.create", "tenant.get",
     "tenant.update", "tenant.status", "tenant.delete", "tenant.kubeconfig", "tenant.talosconfig",
     "web.create", "web.delete", "web.scale", "web.ng", "web.credentials", "web.patch",
     "web.patchsave", "web.patchdelete", "web.patchtoggle", "web.patchpage"}
ResourceRequest ==
    [op : Routes, tenant : Tenants, name : Names, spec : Specs, version : Nat, valid : BOOLEAN,
     role : {"edit", "view"}]
ASSUME ResourceAssumption == Requests \subseteq ResourceRequest /\ MaxRequests \in Nat

NoRow == [uid |-> 0, version |-> 0, owner |-> "", role |-> "", spec |-> NoSpec,
          status |-> "", deleted |-> FALSE, finalizers |-> {}]
NewRow(uid, owner, role, spec, status) ==
    [NoRow EXCEPT !.uid = uid, !.version = 1, !.owner = owner, !.role = role,
                  !.spec = spec, !.status = status]

Exists(k) == rows[k].uid # 0

(* An idle connection: no request, no program, nothing read or written.    *)
(* A request is well formed or not, and its caller may change things or    *)
(* only look.                                                              *)
NoRequest == [op |-> "none", tenant |-> "", name |-> "", spec |-> NoSpec,
              version |-> 0, valid |-> TRUE, role |-> "edit"]
Idle == [req |-> NoRequest, todo |-> <<>>, read |-> NoRow, checked |-> 0,
         event |-> NoRow, wrote |-> FALSE, gone |-> FALSE, answer |-> 0]

-----------------------------------------------------------------------------
(* Program steps: act names the store call, key its row, code the answer   *)
(* when it fails (0: the handler ignores the error), how its variant.      *)
Step(act, key, how, code) == [act |-> act, key |-> key, how |-> how, code |-> code]

Refuse(code) == << Step("answer", <<"", "">>, "", code) >>
NeedTenant(t, code) == Step("need", <<"tenant", t>>, "any", code)
NeedOwned(k, code) == Step("need", k, "owned", code)
NeedFree(k, how, code) == Step("free", k, how, code)

Key(kind, q) == <<kind, q.name>>
validRoles == {"controlplane", "worker"}

(* The body cannot be decoded, lacks a name or fails registry.Validate.    *)
WellFormed(q, program) == IF q.valid THEN program ELSE Refuse(400)
(* CanMutate: the forms of the console are for editors and admins.         *)
CanMutate(q, program) == IF q.role = "edit" THEN program ELSE Refuse(403)

(* nodegroup.API.Create                                                    *)
NodeGroupCreate(q) ==
    IF ~q.valid \/ q.spec.role \notin validRoles \/ q.spec.count < 1 THEN Refuse(400)
    ELSE << NeedTenant(q.tenant, 404), NeedFree(Key("nodegroup", q), "owned", 409),
            Step("create", Key("nodegroup", q), "forming", 500) >>

(* nodegroup.API.Update: the version is the client's, and required.        *)
NodeGroupUpdate(q) ==
    IF ~q.valid \/ q.version = 0 \/ q.spec.role \notin validRoles \/ q.spec.count < 1
    THEN Refuse(400)
    ELSE << NeedOwned(Key("nodegroup", q), 404),
            Step("update", Key("nodegroup", q), "client", 409) >>

(* A delete that trusts the name in the URL.                               *)
DeleteByName(q) == << Step("snapshot", Key("nodegroup", q), "", 500) >>

NodeGroupDelete(q) ==
    << NeedOwned(Key("nodegroup", q), 404),
       Step("snapshot", Key("nodegroup", q), "", 500) >>

NodeGroupUpdateStatus(q) ==
    << NeedOwned(Key("nodegroup", q), 404) >>
      \o WellFormed(q, << Step("status", Key("nodegroup", q), "reported", 500) >>)

NodeGroupGet(q) == << NeedOwned(Key("nodegroup", q), 404) >>

(* patch.API: Create inserts under the tenant, Update writes on top of the *)
(* version it has just read, whatever version the client sent.             *)
PatchCreate(q) ==
    WellFormed(q,
      << NeedTenant(q.tenant, 404), NeedFree(Key("configpatch", q), "owned", 409),
         Step("create", Key("configpatch", q), "", 500) >>)

PatchUpdate(q) ==
    WellFormed(q,
      << NeedOwned(Key("configpatch", q), 404),
         Step("update", Key("configpatch", q), "patch", 409) >>)

PatchDelete(q) ==
    << NeedOwned(Key("configpatch", q), 404),
       Step("snapshot", Key("configpatch", q), "", 500) >>

PatchGet(q) == << NeedOwned(Key("configpatch", q), 404) >>

(* machine.API                                                             *)
MachineGet(q) == << Step("need", Key("machine", q), "any", 404) >>

MachineGetByTenant(q) == << NeedOwned(Key("machine", q), 404) >>

MachineUpdateStatus(q) ==
    << NeedOwned(Key("machine", q), 404) >>
      \o WellFormed(q, << Step("status", Key("machine", q), "reported", 404) >>)

(* Store.DeleteMachine and Store.DeleteTenant mark the row and then add    *)
(* two finalizers, whose errors are ignored.                               *)
DeleteMachine(q, code) ==
    << Step("delete", Key("machine", q), "", code),
       Step("finalizer", Key("machine", q), "config", 0),
       Step("finalizer", Key("machine", q), "link", 0) >>

DeleteTenant(q, code) ==
    << Step("delete", <<"tenant", q.tenant>>, "", code),
       Step("finalizer", <<"tenant", q.tenant>>, "machines", 0),
       Step("finalizer", <<"tenant", q.tenant>>, "secrets", 0) >>

MachineDelete(q) ==
    << NeedOwned(Key("machine", q), 404) >> \o DeleteMachine(q, 500)

(* provider.API.UpdateStatus goes through Store.UpsertProvider, which      *)
(* looks the row up again before it updates the status.                    *)
UpsertProvider(q) ==
    << Step("need", Key("provider", q), "any", 404),
       Step("status", Key("provider", q), "reported", 404) >>

ProviderUpdateStatus(q) ==
    WellFormed(q, << Step("need", Key("provider", q), "any", 404) >> \o UpsertProvider(q))

ProviderGet(q) == << Step("need", Key("provider", q), "any", 404) >>

(* A creation that reports a missing bundle as its own failure.            *)
BundleRequired(q) ==
    << NeedFree(<<"tenant", q.tenant>>, "any", 409),
       Step("create", <<"tenant", q.tenant>>, "forming", 500),
       Step("save", <<"tenant", q.tenant>>, "", 500) >>

(* TenantAPI: the bundle of secrets is saved after the row is announced.   *)
TenantCreate(q) ==
    WellFormed(q,
      << NeedFree(<<"tenant", q.tenant>>, "any", 409),
         Step("create", <<"tenant", q.tenant>>, "forming", 500),
         Step("save", <<"tenant", q.tenant>>, "", 0) >>)

TenantUpdate(q) ==
    IF ~q.valid \/ q.version = 0 THEN Refuse(400)
    ELSE << Step("update", <<"tenant", q.tenant>>, "client", 409) >>

TenantUpdateStatus(q) ==
    WellFormed(q, << Step("status", <<"tenant", q.tenant>>, "reported", 404) >>)

TenantDelete(q) == DeleteTenant(q, 404)

TenantGet(q) == << NeedTenant(q.tenant, 404) >>

(* Kubeconfig and Talosconfig differ in what they generate from the bundle.*)
TenantKubeconfig(q) ==
    << NeedTenant(q.tenant, 404), Step("bundle", <<"tenant", q.tenant>>, "", 404) >>
TenantTalosconfig(q) == TenantKubeconfig(q)

-----------------------------------------------------------------------------
(* The forms of the web console. A form posts no version: it writes on top *)
(* of the version it has just read.                                        *)
ClusterCreateSubmit(q) ==
    WellFormed(q,
      << Step("create", <<"tenant", q.tenant>>, "forming", 500),
         Step("save", <<"tenant", q.tenant>>, "", 0) >>)

(* ClusterDelete ignores the errors of both calls, and drops the bundle    *)
(* that the destroy run still needs.                                       *)
ClusterDelete(q) ==
    CanMutate(q, DeleteTenant(q, 0) \o << Step("drop", <<"tenant", q.tenant>>, "", 0) >>)

NodeGroupScale(q) ==
    CanMutate(q, WellFormed(q,
      << NeedOwned(Key("nodegroup", q), 404),
         Step("update", Key("nodegroup", q), "scale", 500) >>))

WebNodeGroupCreate(q) ==
    CanMutate(q,
      IF ~q.valid \/ q.spec.role \notin validRoles \/ q.spec.count < 1 THEN Refuse(400)
      ELSE << NeedTenant(q.tenant, 404), NeedFree(Key("nodegroup", q), "any", 409),
              Step("create", Key("nodegroup", q), "", 500) >>)

credentialDownload(q) ==
    << NeedTenant(q.tenant, 404), Step("bundle", <<"tenant", q.tenant>>, "", 404) >>

(* ClusterPatchCreate looks nothing up, not even the cluster.              *)
ClusterPatchCreate(q) ==
    CanMutate(q, WellFormed(q, << Step("create", Key("configpatch", q), "", 500) >>))

ClusterPatchSave(q) ==
    CanMutate(q, WellFormed(q,
      << NeedOwned(Key("configpatch", q), 404),
         Step("update", Key("configpatch", q), "save", 500) >>))

ClusterPatchDelete(q) ==
    CanMutate(q,
      << NeedOwned(Key("configpatch", q), 404),
         Step("snapshot", Key("configpatch", q), "", 500) >>)

ClusterPatchToggle(q) ==
    CanMutate(q,
      << NeedOwned(Key("configpatch", q), 404),
         Step("update", Key("configpatch", q), "toggle", 500) >>)

ClusterPatchEditPage(q) == << NeedOwned(Key("configpatch", q), 404) >>

(* RegisterRoutes of the APIs and of the console: which handler serves     *)
(* which request.                                                          *)
RegisterRoutes(q) ==
    CASE q.op = "ng.create" -> NodeGroupCreate(q)
      [] q.op = "ng.get" -> NodeGroupGet(q)
      [] q.op = "ng.update" -> NodeGroupUpdate(q)
      [] q.op = "ng.delete" -> NodeGroupDelete(q)
      [] q.op = "ng.status" -> NodeGroupUpdateStatus(q)
      [] q.op = "patch.create" -> PatchCreate(q)
      [] q.op = "patch.get" -> PatchGet(q)
      [] q.op = "patch.update" -> PatchUpdate(q)
      [] q.op = "patch.delete" -> PatchDelete(q)
      [] q.op = "machine.get" -> MachineGet(q)
      [] q.op = "machine.bytenant" -> MachineGetByTenant(q)
      [] q.op = "machine.status" -> MachineUpdateStatus(q)
      [] q.op = "machine.delete" -> MachineDelete(q)
      [] q.op = "provider.get" -> ProviderGet(q)
      [] q.op = "provider.status" -> ProviderUpdateStatus(q)
      [] q.op = "tenant.create" -> TenantCreate(q)
      [] q.op = "tenant.get" -> TenantGet(q)
      [] q.op = "tenant.update" -> TenantUpdate(q)
      [] q.op = "tenant.status" -> TenantUpdateStatus(q)
      [] q.op = "tenant.delete" -> TenantDelete(q)
      [] q.op = "tenant.kubeconfig" -> TenantKubeconfig(q)
      [] q.op = "tenant.talosconfig" -> TenantTalosconfig(q)
      [] q.op = "web.create" -> ClusterCreateSubmit(q)
      [] q.op = "web.delete" -> ClusterDelete(q)
      [] q.op = "web.scale" -> NodeGroupScale(q)
      [] q.op = "web.ng" -> WebNodeGroupCreate(q)
      [] q.op = "web.credentials" -> credentialDownload(q)
      [] q.op = "web.patch" -> ClusterPatchCreate(q)
      [] q.op = "web.patchsave" -> ClusterPatchSave(q)
      [] q.op = "web.patchdelete" -> ClusterPatchDelete(q)
      [] q.op = "web.patchtoggle" -> ClusterPatchToggle(q)
      [] q.op = "web.patchpage" -> ClusterPatchEditPage(q)

-----------------------------------------------------------------------------
(* The store calls. Next(c), Fail(c), Goto: how a program proceeds.        *)
AtStep(c, act) == conn[c].todo # <<>> /\ Head(conn[c].todo).act = act
head(c) == Head(conn[c].todo)

(* The call succeeded: more is put in front of what the program has left.  *)
Proceed(c, changes, more) ==
    conn' = [conn EXCEPT ![c] = [changes EXCEPT !.todo = more \o Tail(@)]]

(* The call failed: the handler answers, unless it ignores the error.      *)
Failed(c) ==
    conn' = [conn EXCEPT ![c] =
        IF head(c).code = 0 THEN [conn[c] EXCEPT !.todo = Tail(@)]
        ELSE [conn[c] EXCEPT !.todo = <<>>, !.answer = head(c).code]]

(* Mutations of a row that are under way: a removal from its snapshot, the *)
(* others from their write, until the event is published.                  *)
Unpublished(k) ==
    {c \in Clients : \E i \in 1..Len(conn[c].todo) :
        /\ conn[c].todo[i].act \in {"remove", "reload", "publish"}
        /\ conn[c].todo[i].key = k}
Overlapping(c, k, publishes) ==
    overlap' = IF Unpublished(k) \ {c} # {} THEN overlap \cup {k}
               ELSE IF publishes THEN overlap \ {k} ELSE overlap

(* Every mutation is followed by a reload of the row and a publication.    *)
Mutate(c, k, row, verb) ==
    /\ rows' = [rows EXCEPT ![k] = row]
    /\ Overlapping(c, k, TRUE)
    /\ Proceed(c, [conn[c] EXCEPT !.wrote = TRUE],
               << Step("reload", k, verb, head(c).code),
                  Step("publish", k, verb, head(c).code) >>)

(* Store.GetResource with the ownership test of getNodeGroup and getPatch. *)
GetResource(c) ==
    LET k == head(c).key IN
    /\ AtStep(c, "need")
    /\ IF Exists(k) /\ (head(c).how = "owned" => rows[k].owner = conn[c].req.tenant)
       THEN Proceed(c, [conn[c] EXCEPT !.read = rows[k], !.checked = rows[k].uid], <<>>)
       ELSE Failed(c)
    /\ UNCHANGED <<rows, secrets, lastSeen, overlap, uids, adopted, served>>

(* A create first asks for the row: the API for its own tenant's only, the *)
(* console for any, although a name is unique over all tenants.            *)
CheckFree(c) ==
    LET k == head(c).key IN
    /\ AtStep(c, "free")
    /\ IF Exists(k) /\ (head(c).how = "owned" => rows[k].owner = conn[c].req.tenant)
       THEN Failed(c)
       ELSE Proceed(c, conn[c], <<>>)
    /\ UNCHANGED <<rows, secrets, lastSeen, overlap, uids, adopted, served>>

(* Store.CreateResource: INSERT, refused by UNIQUE(type, name). The role   *)
(* label of a patch without a target role is absent.                       *)
CreateResource(c) ==
    LET k == head(c).key
        q == conn[c].req IN
    /\ AtStep(c, "create")
    /\ IF Exists(k)
       THEN Failed(c) /\ UNCHANGED <<rows, overlap, uids>>
       ELSE /\ uids' = uids + 1
            /\ Mutate(c, k, NewRow(uids + 1, q.tenant, q.spec.role, q.spec, head(c).how),
                      "ADDED")
    /\ UNCHANGED <<secrets, lastSeen, adopted, served>>

(* What an update makes of the row it read: a PUT replaces the spec, a     *)
(* scale keeps name, role and count only, a toggle flips the flag.         *)
UpdatedSpec(how, read, q) ==
    CASE how \in {"client", "patch", "save"} -> q.spec
      [] how = "scale" -> [NoSpec EXCEPT !.role = read.spec.role, !.count = q.spec.count]
      [] how = "toggle" -> [read.spec EXCEPT
            !.enabled = IF @ = "on" THEN "off" ELSE "on"]

(* The role label follows the spec, except that a PUT of a patch that no   *)
(* longer names a role leaves the old label.                               *)
UpdatedRole(how, read, q) ==
    CASE how \in {"client", "save"} -> q.spec.role
      [] how = "patch" -> IF q.spec.role # "" THEN q.spec.role ELSE read.role
      [] how \in {"scale", "toggle"} -> read.role

ExpectedVersion(c) ==
    IF head(c).how = "client" THEN conn[c].req.version ELSE conn[c].read.version

(* Store.UpdateResource: UPDATE ... WHERE version = ?; no row, whatever    *)
(* the reason, is ErrConflict.                                             *)
UpdateResource(c) ==
    LET k == head(c).key
        q == conn[c].req
        spec == UpdatedSpec(head(c).how, conn[c].read, q) IN
    /\ AtStep(c, "update")
    /\ IF Exists(k) /\ rows[k].version = ExpectedVersion(c)
       THEN /\ Mutate(c, k, [rows[k] EXCEPT !.version = @ + 1, !.spec = spec,
                                !.owner = q.tenant,
                                !.role = UpdatedRole(head(c).how, conn[c].read, q)],
                      "MODIFIED")
            /\ adopted' = IF rows[k].owner = q.tenant THEN adopted
                          ELSE adopted \cup {rows[k].uid}
       ELSE Failed(c) /\ UNCHANGED <<rows, overlap, adopted>>
    /\ UNCHANGED <<secrets, lastSeen, uids, served>>

(* Store.UpdateStatus: by name, and without a new version.                 *)
UpdateResourceStatus(c) ==
    LET k == head(c).key IN
    /\ AtStep(c, "status")
    /\ IF Exists(k)
       THEN Mutate(c, k, [rows[k] EXCEPT !.status = head(c).how], "MODIFIED")
       ELSE Failed(c) /\ UNCHANGED <<rows, overlap>>
    /\ UNCHANGED <<secrets, lastSeen, uids, adopted, served>>

(* Store.DeleteResource: sets the deletion timestamp, once.                *)
DeleteResource(c) ==
    LET k == head(c).key IN
    /\ AtStep(c, "delete")
    /\ IF Exists(k) /\ ~rows[k].deleted
       THEN Mutate(c, k, [rows[k] EXCEPT !.deleted = TRUE], "DELETED")
       ELSE Failed(c) /\ UNCHANGED <<rows, overlap>>
    /\ UNCHANGED <<secrets, lastSeen, uids, adopted, served>>

(* Store.AddFinalizer: reads the finalizers, and writes them all back.     *)
AddFinalizer(c) ==
    LET k == head(c).key
        f == head(c).how IN
    \/ /\ AtStep(c, "finalizer")
       /\ IF ~Exists(k) \/ f \in rows[k].finalizers
          THEN Proceed(c, conn[c], <<>>)
          ELSE Proceed(c, [conn[c] EXCEPT !.read = rows[k]],
                       << Step("finalizers", k, f, 0) >>)
       /\ UNCHANGED <<rows, secrets, lastSeen, overlap, uids, adopted, served>>
    \/ /\ AtStep(c, "finalizers")
       /\ rows' = IF Exists(k)
                  THEN [rows EXCEPT ![k].finalizers = conn[c].read.finalizers \cup {f}]
                  ELSE rows
       /\ Proceed(c, conn[c], <<>>)
       /\ UNCHANGED <<secrets, lastSeen, overlap, uids, adopted, served>>

(* A removal that tells nobody.                                            *)
RemoveSilently(c) ==
    LET k == head(c).key IN
    \/ /\ AtStep(c, "snapshot")
       /\ Proceed(c, conn[c], << Step("remove", k, "", 500) >>)
       /\ UNCHANGED <<rows, secrets, lastSeen, overlap, uids, adopted, served>>
    \/ /\ AtStep(c, "remove")
       /\ rows' = [rows EXCEPT ![k] = NoRow]
       /\ Proceed(c, [conn[c] EXCEPT !.wrote = TRUE], <<>>)
       /\ UNCHANGED <<secrets, lastSeen, overlap, uids, adopted, served>>

(* Store.RemoveResource: a snapshot, DELETE by name, and the event made    *)
(* from the snapshot.                                                      *)
RemoveResource(c) ==
    LET k == head(c).key IN
    \/ /\ AtStep(c, "snapshot")
       /\ Proceed(c, [conn[c] EXCEPT !.event = rows[k]], << Step("remove", k, "", 500) >>)
       /\ UNCHANGED <<rows, secrets, lastSeen, overlap, uids, adopted, served>>
    \/ /\ AtStep(c, "remove")
       /\ rows' = [rows EXCEPT ![k] = NoRow]
       /\ Overlapping(c, k, conn[c].event.uid # 0)
       /\ Proceed(c, [conn[c] EXCEPT !.wrote = TRUE],
                  IF conn[c].event.uid # 0 THEN << Step("publish", k, "DELETED", 500) >>
                  ELSE <<>>)
       /\ UNCHANGED <<secrets, lastSeen, uids, adopted, served>>

(* updateResourceMetadataAndPublish: the row is read again after the write *)
(* (a row removed meanwhile is an error, and no event) ...                 *)
reload(c) ==
    LET k == head(c).key IN
    /\ AtStep(c, "reload")
    /\ IF Exists(k)
       THEN Proceed(c, [conn[c] EXCEPT !.event = rows[k]], <<>>)
       ELSE conn' = [conn EXCEPT ![c] = [conn[c] EXCEPT !.gone = TRUE,
                !.todo = IF head(c).code = 0 THEN SubSeq(@, 3, Len(@)) ELSE <<>>,
                !.answer = IF head(c).code = 0 THEN @ ELSE 500]]
    /\ UNCHANGED <<rows, secrets, lastSeen, overlap, uids, adopted, served>>

(* ... and what was read then is published.                                *)
publish(c) ==
    LET k == head(c).key IN
    /\ AtStep(c, "publish")
    /\ lastSeen' = [lastSeen EXCEPT ![k] =
            [verb |-> head(c).how, row |-> conn[c].event]]
    /\ Proceed(c, [conn[c] EXCEPT !.event = NoRow], <<>>)
    /\ UNCHANGED <<rows, secrets, overlap, uids, adopted, served>>

(* SaveTenantSecrets (of a bundle that may fail to be generated),          *)
(* RemoveTenantSecrets and LoadTenantSecrets.                              *)
TenantSecrets(c) ==
    LET t == head(c).key[2] IN
    /\ \/ AtStep(c, "save") /\ secrets' = secrets \cup {t} /\ Proceed(c, conn[c], <<>>)
       \/ AtStep(c, "save") /\ Failed(c) /\ UNCHANGED secrets
       \/ AtStep(c, "drop") /\ secrets' = secrets \ {t} /\ Proceed(c, conn[c], <<>>)
       \/ /\ AtStep(c, "bundle")
          /\ IF t \in secrets THEN Proceed(c, conn[c], <<>>) ELSE Failed(c)
          /\ UNCHANGED secrets
    /\ UNCHANGED <<rows, lastSeen, overlap, uids, adopted, served>>

-----------------------------------------------------------------------------
(* A request arrives; a handler that refuses it outright touches nothing.  *)
(* A versioned PUT carries the version of some row the client has read.    *)
Arrive(c) ==
    /\ conn[c].todo = <<>> /\ served < MaxRequests
    /\ served' = served + 1
    /\ \E q \in Requests :
         conn' = [conn EXCEPT ![c] = [Idle EXCEPT !.req = q, !.todo = RegisterRoutes(q)]]
    /\ UNCHANGED <<rows, secrets, lastSeen, overlap, uids, adopted>>

(* writeError for a request refused by its own content.                    *)
Answer(c) ==
    /\ AtStep(c, "answer")
    /\ Failed(c)
    /\ UNCHANGED <<rows, secrets, lastSeen, overlap, uids, adopted, served>>

(* The enricher creates the machines a tenant's infrastructure reports     *)
(* (Store.CreateMachine), here without the steps inside.                   *)
CreateMachine ==
    \E t \in Tenants, n \in Names :
        /\ ~Exists(<<"machine", n>>) /\ Unpublished(<<"machine", n>>) = {}
        /\ Cardinality({k \in Keys : k[1] = "machine" /\ Exists(k)}) < MaxMachines
        /\ uids' = uids + 1
        /\ rows' = [rows EXCEPT ![<<"machine", n>>] =
                NewRow(uids + 1, t, "", NoSpec, "initializing")]
        /\ lastSeen' = [lastSeen EXCEPT ![<<"machine", n>>] =
                [verb |-> "ADDED", row |-> rows'[<<"machine", n>>]]]
        /\ overlap' = overlap \ {<<"machine", n>>}
        /\ UNCHANGED <<secrets, conn, adopted, served>>

(* The applier has destroyed a tenant that is being deleted: its resources *)
(* (RemoveResourcesByTenant), its bundle and its row go.                   *)
RemoveResourcesByTenant ==
    \E t \in Tenants :
        LET mine == {k \in Keys : Exists(k)
                        /\ (k = <<"tenant", t>> \/ (k[1] # "tenant" /\ rows[k].owner = t))}
        IN /\ Exists(<<"tenant", t>>) /\ rows[<<"tenant", t>>].deleted
           /\ {"machines", "secrets"} \subseteq rows[<<"tenant", t>>].finalizers
           /\ rows' = [k \in Keys |-> IF k \in mine THEN NoRow ELSE rows[k]]
           /\ lastSeen' = [k \in Keys |->
                IF k \in mine THEN [verb |-> "DELETED", row |-> rows[k]] ELSE lastSeen[k]]
           /\ overlap' = (overlap \ mine) \cup {k \in mine : Unpublished(k) # {}}
           /\ secrets' = secrets \ {t}
           /\ UNCHANGED <<conn, uids, adopted, served>>

(* The process starts on a database with the tenants' rows and bundles and *)
(* the rows of the registered providers.                                   *)
ResourceInit ==
    /\ rows = [k \in Keys |->
            IF k[1] \in {"tenant", "provider"} THEN NewRow(1, "", "", NoSpec, "") ELSE NoRow]
    /\ secrets = Tenants
    /\ conn = [c \in Clients |-> Idle]
    /\ lastSeen = [k \in Keys |->
            [verb |-> IF rows[k].uid # 0 THEN "ADDED" ELSE "DELETED", row |-> rows[k]]]
    /\ overlap = {} /\ uids = 1 /\ adopted = {} /\ served = 0

StoreCall(c) ==
    \/ GetResource(c) \/ CheckFree(c) \/ CreateResource(c) \/ UpdateResource(c)
    \/ UpdateResourceStatus(c) \/ DeleteResource(c) \/ AddFinalizer(c)
    \/ RemoveResource(c) \/ reload(c) \/ publish(c) \/ TenantSecrets(c)

ResourceNext ==
    \/ \E c \in Clients : Arrive(c) \/ Answer(c) \/ StoreCall(c)
    \/ CreateMachine
    \/ RemoveResourcesByTenant

ResourceSpec == ResourceInit /\ [][ResourceNext]_resourceVars

-----------------------------------------------------------------------------
Rows == [uid : Nat, version : Nat, owner : Tenants \cup {""}, role : Roles,
         spec : Specs, status : {"", "forming", "reported", "initializing"},
         deleted : BOOLEAN, finalizers : SUBSET {"machines", "secrets", "config", "link"}]
Steps == [act : {"answer", "need", "free", "create", "update", "status", "delete", "finalizer",
                 "finalizers", "snapshot", "remove", "reload", "publish", "save", "drop", "bundle"},
          key : Keys \cup {<<"", "">>},
          how : {"", "any", "owned", "forming", "client", "patch", "scale", "save", "toggle",
                 "reported", "machines", "secrets", "config", "link", "ADDED", "MODIFIED",
                 "DELETED"},
          code : Nat]
Connection == [req : ResourceRequest \cup {NoRequest}, todo : Seq(Steps), read : Rows,
               checked : Nat, event : Rows, wrote : BOOLEAN, gone : BOOLEAN, answer : Nat]

ResourceTypeOK ==
    /\ rows \in [Keys -> Rows]
    /\ secrets \subseteq Tenants
    /\ conn \in [Clients -> Connection]
    /\ lastSeen \in [Keys -> [verb : {"ADDED", "MODIFIED", "DELETED"}, row : Rows]]
    /\ overlap \subseteq Keys
    /\ uids \in Nat /\ adopted \subseteq Nat /\ served \in Nat

(* A request under a tenant's URL never changes or removes a row of        *)
(* another tenant: getNodeGroup, getPatch and the machine handlers check   *)
(* the owner before they act by name. The one way around the check is a    *)
(* row that was removed and created anew after it: a late request then     *)
(* meets the new row, or one that such a request has put under its own     *)
(* tenant (UpdateResource writes the labels its caller read).              *)
ForeignOnlyAfterRecreate ==
    [][\A c \in Clients, k \in Keys :
        (/\ conn[c].todo # <<>> /\ conn'[c].todo # conn[c].todo
         /\ k[1] \notin {"tenant", "provider"} /\ Exists(k) /\ rows'[k] # rows[k]
         /\ rows[k].owner # conn[c].req.tenant)
        => conn[c].checked # 0 /\ (conn[c].checked # rows[k].uid \/ rows[k].uid \in adopted)
      ]_resourceVars

(* Watchers end up with the truth: once nothing is left to publish about a *)
(* row, the last event carries the row as it is (or its removal), unless   *)
(* two mutations of it were under way at once. Then the reload of one and  *)
(* the publication of the other may cross in                               *)
(* updateResourceMetadataAndPublish, and the stale event stays the last.   *)
Announced(row) == [row EXCEPT !.finalizers = {}]
LastEventCurrent ==
    \A k \in Keys : Unpublished(k) = {} /\ k \notin overlap =>
        IF Exists(k) THEN Announced(lastSeen[k].row) = Announced(rows[k])
        ELSE lastSeen[k].verb = "DELETED"

(* A request that answers an error has changed nothing, so that a client   *)
(* may repeat it; the exception is a row removed between the write and its *)
(* reload, which answers 500 although the write took place.                *)
ErrorMeansUnchanged ==
    \A c \in Clients : conn[c].answer >= 400 /\ conn[c].wrote => conn[c].gone

-----------------------------------------------------------------------------
(* The invariant the proofs rest on. First the programs: what a step needs *)
(* to be what its call expects ...                                         *)
StepOK(s) ==
    /\ s.act # "answer" => s.key \in Keys
    /\ s.act = "create" => s.how \in {"", "forming"}
    /\ s.act = "status" => s.how = "reported"
    /\ s.act = "update" => s.how \in {"client", "patch", "scale", "save", "toggle"}
    /\ s.act \in {"finalizer", "finalizers"} => s.how \in {"machines", "secrets", "config", "link"}
    /\ s.act \in {"save", "drop", "bundle"} => s.key \in {"tenant"} \X Tenants
    /\ s.act \in {"reload", "publish"} => s.how \in {"ADDED", "MODIFIED", "DELETED"}
    /\ s.act \in {"need", "snapshot"} => s.code # 0

(* ... the steps the store adds to a handler's own ones, the steps that    *)
(* write, those that cannot end in an error answer, and those that write a *)
(* row by its name although it may have another owner.                     *)
StoresOwn(s) == s.act \in {"remove", "reload", "publish", "finalizers"}
WritesRow(s) == s.act \in {"create", "update", "status", "delete", "snapshot", "remove"}
Harmless(s) == s.code = 0 \/ s.act \in {"reload", "publish"}
ActsByName(s) ==
    /\ s.act \in {"update", "status", "delete", "finalizer", "finalizers", "snapshot", "remove"}
    /\ s.key[1] \notin {"tenant", "provider"}

(* What is left of a program: the store's own steps come first, a reload   *)
(* with its publication behind it; nothing that may fail comes after a     *)
(* write; and a request looks a row up before it acts on it, not after.    *)
HandlerOK(p) ==
    /\ p \in Seq(Steps) /\ \A i \in 1..Len(p) : StepOK(p[i])
    /\ \A i \in 1..Len(p) : StoresOwn(p[i]) => i = 1 \/ (i = 2 /\ p[1].act = "reload")
    /\ p # <<>> /\ p[1].act = "reload" =>
         Len(p) >= 2 /\ p[2].act = "publish" /\ p[2].key = p[1].key
    /\ \A i, j \in 1..Len(p) : i < j /\ WritesRow(p[i]) => Harmless(p[j])
    /\ \A i, j \in 1..Len(p) : ActsByName(p[i]) /\ p[j].act = "need" => j = 1
HandlerInv == \A c \in Clients : HandlerOK(conn[c].todo)

(* A request that has answered is done, and one that has written can only  *)
(* fail where the row is gone.                                             *)
AnswerOK(c) ==
    /\ conn[c].answer # 0 => conn[c].todo = <<>>
    /\ conn[c].wrote => \A i \in 1..Len(conn[c].todo) : Harmless(conn[c].todo[i])
    /\ conn[c].answer >= 400 /\ conn[c].wrote => conn[c].gone
AnswerInv == \A c \in Clients : AnswerOK(c)

(* What a request acts on by name it is about to look up, or it has found  *)
(* the row it looked up to be its tenant's, and if the row still is the    *)
(* same one and nobody took it over, it still is the tenant's.             *)
Vouched(c, k) ==
    /\ conn[c].checked # 0
    /\ rows[k].uid = conn[c].checked /\ rows[k].uid \notin adopted
         => rows[k].owner = conn[c].req.tenant
LookedUpOK(c) ==
    LET p == conn[c].todo IN
    \A i \in 1..Len(p) :
        ActsByName(p[i]) => IF p[1].act = "need" THEN p[1].how = "owned" /\ p[1].key = p[i].key
                            ELSE Vouched(c, p[i].key)
OwnerInv ==
    /\ \A k \in Keys : rows[k].uid <= uids
    /\ \A c \in Clients : conn[c].checked <= uids /\ LookedUpOK(c)

(* The event under way about a row. As long as no second mutation overlaps *)
(* one, at most one client has a row to announce, and what it is about to  *)
(* announce is the row as it is.                                           *)
OnKey(c, act, k) == AtStep(c, act) /\ head(c).key = k
Announces(c, k) == OnKey(c, "reload", k) \/ OnKey(c, "publish", k)
SeenAsIs(k) ==
    IF Exists(k) THEN Announced(lastSeen[k].row) = Announced(rows[k])
    ELSE lastSeen[k].verb = "DELETED"
HoldsAsIs(c, k) ==
    IF Exists(k) THEN Announced(conn[c].event) = Announced(rows[k])
    ELSE head(c).how = "DELETED"
KeyOK(k) ==
    /\ \A c, d \in Clients : Announces(c, k) /\ Announces(d, k) => c = d
    /\ (\A c \in Clients : ~Announces(c, k)) => SeenAsIs(k)
    /\ \A c \in Clients :
         /\ OnKey(c, "publish", k) => HoldsAsIs(c, k)
         /\ OnKey(c, "reload", k) => Exists(k)
         /\ OnKey(c, "remove", k) /\ conn[c].event.uid = 0 => ~Exists(k)
EventInvariant == \A k \in Keys : k \notin overlap => KeyOK(k)

ResourceInv ==
    ResourceTypeOK /\ HandlerInv /\ AnswerInv /\ OwnerInv /\ EventInvariant
=============================================================================
