----------------------------- MODULE MCConsole -----------------------------
(***************************************************************************)
(* The web console, and the backup service behind its backups page.  A     *)
(* behaviour has one part in focus, the other rests in its initial state;  *)
(* the backup service is split into what happens to stored snapshots and   *)
(* what a restore makes of the table.                                      *)
(***************************************************************************)
EXTENDS Console, Backup

VARIABLE focus

-----------------------------------------------------------------------------
(* The rows a browser starts on: two clusters, one of them being deleted,  *)
(* a machine with and one without a cluster, a patch in each cluster.      *)

MCNames ==
  <<"c1", "c2", "g1", "g2", "kernel-args-c1", "kernel-args-c2", "m1", "m2", "p1", "p2", "r1",
    "t1", "t2", "x1">>
MCRank == [n \in Range(MCNames) |-> CHOOSE i \in DOMAIN MCNames : MCNames[i] = n]
MCAccounts == [ada |-> "admin", eve |-> "edit", vic |-> "view"]
MCKernelArgsName ==
  [c \in {"c1", "c2"} |-> IF c = "c1" THEN "kernel-args-c1" ELSE "kernel-args-c2"]

PatchForm(scope, machine, role, body) ==
  [format |-> "", scope |-> scope, machine |-> machine, role |-> role, body |-> body,
   enabled |-> TRUE]
MCPatchForms ==
  {PatchForm("cluster", "", "all", "b1"), PatchForm("machine", "m1", "worker", "b2"),
   PatchForm("machine", "", "all", "b1")}

Machine(name, tenant, stage) ==
  [name |-> name, tenant |-> tenant, role |-> "worker", stage |-> stage,
   ready |-> stage = "ready", connected |-> stage = "ready"]
Patch(name, tenant, scope, machine) ==
  [name |-> name, tenant |-> tenant, kind |-> "", scope |-> scope, machine |-> machine,
   role |-> "", enabled |-> TRUE, body |-> "b0"]
MCMetrics ==
  {[cpu |-> <<1, 2>>, mem |-> <<3, 4>>, pods |-> <<95, 100>>,
    nodes |-> {[name |-> "n1", status |-> "healthy",
                pct |-> [r \in {"CPU", "Mem", "Pods", "Disk"} |-> 75]]}]}
MCAuditRows == <<200, 404, 201>>
MCInitialRows ==
  {[tenants |-> {[name |-> "c1", removing |-> FALSE, reconcile |-> ""],
                 [name |-> "c2", removing |-> TRUE, reconcile |-> ""]},
    groups |-> {[name |-> "g1", tenant |-> "c1", role |-> "worker", count |-> 1]},
    machines |-> {Machine("m1", "c1", "ready"), Machine("m2", "", "installing")},
    patches |-> {Patch("p1", "c1", "", ""), Patch("p2", "c2", "machine", "m1")},
    runs |-> {}, users |-> MCAccounts, tokens |-> {[name |-> "t1", owner |-> "vic"]},
    snaps |-> <<[name |-> "s1", status |-> "success"]>>, retention |-> 7, secrets |-> {"c1"},
    providers |-> {[name |-> "oci", connected |-> FALSE, error |-> "down"]}]}

-----------------------------------------------------------------------------
(* Snapshots: two requests, two kinds of rows to export. *)

MCExported == <<"tenant", "machine">>
MCSymmetry == Permutations(Requests)

-----------------------------------------------------------------------------
SuiteInit ==
  /\ ConsoleInit /\ BackupInit
  /\ focus \in {"console", "retention", "restore"}
  /\ focus # "console" => session.user = "ada"

Except(vars) == UNCHANGED focus /\ UNCHANGED vars
SuiteNext ==
  \/ /\ focus = "console" /\ ConsoleNext
     /\ Except(backupVars)
  \/ /\ focus = "retention" /\ BackupNext
     /\ objects' = objects /\ restores' = 0 /\ edits' <= 1
     /\ \A r \in Requests : req'[r].type # "resources"
     /\ Except(consoleVars)
  \/ /\ focus = "restore" /\ BackupNext
     /\ begun' <= 1 /\ clock' = 0 /\ policy'.retention \in {0, 2}
     /\ \A r \in Requests : req'[r].type # "database"
     /\ Except(consoleVars)
=============================================================================
