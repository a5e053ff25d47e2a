------------------------------- MODULE MCEdge -------------------------------
(***************************************************************************)
(* The edge of the management plane, checked one part at a time: the       *)
(* handlers over the resource table, users, tokens and sign-in, the watch  *)
(* bus and the audit recorder.  A behaviour has one part in focus, the     *)
(* others rest in their initial states; the handlers are further split     *)
(* into families of operations that meet on the same rows.                 *)
(***************************************************************************)
EXTENDS ResourceAPI, Identity, WatchBus, Audit, TLC

CONSTANTS c1, c2

VARIABLE focus

\* The requests in progress are interchangeable.
MCSymmetry == Permutations({c1, c2})

-----------------------------------------------------------------------------
(* Requests to the resource handlers: two tenants, one name. *)

Spec4(role, count, provider, enabled) ==
  [role |-> role, count |-> count, provider |-> provider, enabled |-> enabled]
Req(op, tenant, spec, version) ==
  [op |-> op, tenant |-> tenant, name |-> "n", spec |-> spec, version |-> version,
   valid |-> TRUE, role |-> "edit"]
Plain(op, tenant) == Req(op, tenant, NoSpec, 0)
Group == Spec4("worker", 1, "set", "off")
WorkerPatch == Spec4("worker", 0, "none", "on")
PlainPatch == Spec4("", 0, "none", "on")

GroupRequests ==
  {Req("ng.create", "a", Group, 0), Req("ng.create", "b", Group, 0), Plain("ng.create", "a"),
   Req("ng.update", "a", Spec4("controlplane", 2, "set", "off"), 1),
   Plain("ng.delete", "a"), Plain("ng.delete", "b"), Plain("ng.status", "b"),
   Plain("ng.get", "a"), Req("web.scale", "a", Spec4("", 2, "none", "off"), 0),
   Req("web.ng", "b", Group, 0), Plain("tenant.delete", "a")}
PatchRequests ==
  {Req("patch.create", "a", WorkerPatch, 0), Req("patch.update", "a", PlainPatch, 0),
   Plain("patch.delete", "a"), Plain("patch.get", "a"), Req("web.patch", "b", WorkerPatch, 0),
   [Req("web.patch", "b", WorkerPatch, 0) EXCEPT !.valid = FALSE],
   Req("web.patchsave", "a", PlainPatch, 0), Plain("web.patchdelete", "b"),
   Plain("web.patchtoggle", "a"), Plain("web.patchpage", "a")}
MachineRequests ==
  {Plain("machine.status", "a"), Plain("machine.delete", "a"), Plain("machine.get", "a"),
   Plain("machine.bytenant", "b"), Plain("provider.status", "a"), Plain("provider.get", "a")}
TenantRequests ==
  {Plain("tenant.create", "a"), Req("tenant.update", "a", NoSpec, 1), Plain("tenant.status", "a"),
   Plain("tenant.delete", "a"), Plain("tenant.get", "a"), Plain("tenant.kubeconfig", "a"),
   Plain("tenant.talosconfig", "a"), Plain("web.create", "a"), Plain("web.delete", "a"),
   [Plain("web.delete", "a") EXCEPT !.role = "view"], Plain("web.credentials", "a")}
MCRequests == GroupRequests \cup PatchRequests \cup MachineRequests \cup TenantRequests
RequestFamilies ==
  [groups |-> GroupRequests, patches |-> PatchRequests, machines |-> MachineRequests,
   tenants |-> TenantRequests]

-----------------------------------------------------------------------------
(* Requests about users: the administrator and bob, one token, one subject. *)

Call(op, user, role, pw) == [NoCall EXCEPT !.op = op, !.user = user, !.role = role, !.pw = pw]
OfToken(op) == [Call(op, "", "", "") EXCEPT !.tok = "t1"]
Callback(role, claim) ==
  [Call("oidc.callback", "", role, "") EXCEPT !.sub = "s", !.claim = claim]

PasswordCalls ==
  {Call("users.create", "bob", "edit", "p"), Call("form.create", "bob", "admin", "q"),
   Call("users.update", "bob", "admin", "q"), Call("users.update", "bob", "view", ""),
   Call("form.update", "bob", "edit", ""), Call("users.update", "admin", "view", ""),
   Call("users.update", "admin", "admin", "p"), Call("users.create", "admin", "admin", "q"),
   Call("users.delete", "bob", "", ""), Call("users.delete", "admin", "", ""),
   Call("form.delete", "admin", "", ""), Call("users.get", "bob", "", ""),
   Call("login", "bob", "", "p"), Call("login", "admin", "", "initial"), Call("login", "bob", "", "")}
TokenCalls ==
  {Call("users.create", "bob", "edit", "p"), Call("users.update", "bob", "view", ""),
   Call("users.delete", "bob", "", ""), Call("login", "admin", "", "initial"),
   Call("login", "bob", "", "p"), Call("token.create", "bob", "", ""),
   [Call("form.token", "admin", "", "") EXCEPT !.days = 1], OfToken("token.delete"),
   OfToken("form.revoke"), OfToken("token.get"), Call("token.list", "bob", "", "")}
SignInCalls ==
  {Call("oidc.login", "", "", ""), Callback("view", "bob"), Callback("admin", "admin"),
   Callback("view", ""), Call("users.delete", "bob", "", "")}
MCUserRequests == PasswordCalls \cup TokenCalls \cup SignInCalls
CallFamilies == [passwords |-> PasswordCalls, tokens |-> TokenCalls, signin |-> SignInCalls]

-----------------------------------------------------------------------------
(* Watched objects and the streams that watch them. *)

Object(type, tenant, name) == [type |-> type, tenant |-> tenant, name |-> name]
MCObjects == {Object("tenant", "", "a"), Object("machine", "a", "m"), Object("machine", "b", "n")}
MCEndpoints ==
  {[at |-> "tenants", of |-> ""], [at |-> "machines", of |-> ""], [at |-> "scoped", of |-> "a"],
   [at |-> "cluster", of |-> "a"], [at |-> "machine", of |-> "m"], [at |-> "stream", of |-> ""]}

-----------------------------------------------------------------------------
EdgeInit ==
  /\ ResourceInit /\ IdentityInit /\ WatchBusInit /\ AuditInit
  /\ focus \in DOMAIN RequestFamilies \cup DOMAIN CallFamilies \cup {"watch", "audit"}
  /\ focus # "watch" => kind = "nats"

Except(vars) == UNCHANGED focus /\ UNCHANGED vars
EdgeNext ==
  \/ /\ focus \in DOMAIN RequestFamilies /\ ResourceNext
     /\ \A c \in Clients : conn'[c].req \in RequestFamilies[focus] \/ conn'[c].req = conn[c].req
     /\ Except(<<identityVars, watchBusVars, auditVars>>)
  \/ /\ focus \in DOMAIN CallFamilies /\ IdentityNext
     /\ \A c \in Callers : calls'[c].req \in CallFamilies[focus] \/ calls'[c].req \in {calls[c].req, NoCall}
     /\ focus # "signin" => jwks' = jwks /\ handled' < MaxCalls
     /\ Except(<<resourceVars, watchBusVars, auditVars>>)
  \/ /\ focus = "watch" /\ WatchBusNext
     /\ Except(<<resourceVars, identityVars, auditVars>>)
  \/ /\ focus = "audit" /\ AuditNext
     /\ Except(<<resourceVars, identityVars, watchBusVars>>)
=============================================================================
