------------------------------ MODULE Upgrade ------------------------------
(***************************************************************************)
(* Rolling upgrades (internal/upgrade, internal/upgrade/talos), the        *)
(* pre-apply hook of the applier that starts one by itself, and the cache  *)
(* of tenant secrets (internal/credentials) both depend on.  One tenant.   *)
(*                                                                         *)
(* A roller is a call of rollUpgrade: one per run record of the API, and   *)
(* Hook for the call the applier makes before tofu apply.  Rollers share   *)
(* nothing but the machines.  A version is a number; 0 stands for none.    *)
(***************************************************************************)
EXTENDS Integers, Sequences, SequencesExt, FiniteSets

CONSTANTS MachineList,   \* the machine rows, in the order the store lists them
          ControlPlanes, \* machines whose status.role is controlplane
          Runs,          \* run records of the API
          Hook,          \* the roller of the pre-apply hook
          Versions,      \* versions an operator may ask for, a set of numbers
          MaxEdits,      \* bound on the changes of the tenant spec
          MaxCrashes     \* bound on the restarts of the process

ASSUME UpgradeAssumption ==
  /\ MachineList \in Seq(Range(MachineList))
  /\ Hook \notin Runs
  /\ Versions \subseteq Nat \ {0}
  /\ \E v \in Versions : \A w \in Versions : v <= w
  /\ MaxEdits \in Nat /\ MaxCrashes \in Nat

Fleet == Range(MachineList)
Rollers == Runs \cup {Hook}

VARIABLES spec,      \* tenant.spec.talosVersion
          node,      \* the machines themselves: running, previous, staged
          reported,  \* machine.status.talosVersion, 0 when never reported
          cached,    \* the secrets cache holds a bundle of the tenant
          roll,      \* progress of the rollers
          row,       \* the upgraderun records
          running,   \* Manager.running
          canceled,  \* runs whose context was cancelled
          applier,   \* the apply of the tenant
          edits, crashes,
          touched,   \* history: machines a roller called UpgradeMachine on
          orphaned,  \* history: runs a crash interrupted
          drift      \* history: the version all machines had when the apply began

upgradeVars == <<spec, node, reported, cached, roll, row, running, canceled,
                 applier, edits, crashes, touched, orphaned, drift>>

IdleRoll == [pc |-> "idle", from |-> 0, target |-> 0, i |-> 0, phase |-> "idle"]
NoRow == [phase |-> "none", completed |-> 0, ended |-> FALSE]
Oldest == CHOOSE v \in Versions : \A w \in Versions : v <= w

\* A tenant whose machines run, and report, the declared version.
UpgradeInit ==
  /\ spec = Oldest
  /\ node = [m \in Fleet |-> [ver |-> Oldest, prev |-> 0, staged |-> 0]]
  /\ reported = [m \in Fleet |-> Oldest]
  /\ cached = TRUE
  /\ roll = [r \in Rollers |-> IdleRoll]
  /\ row = [r \in Runs |-> NoRow]
  /\ running = {}
  /\ canceled = {}
  /\ applier = "idle"
  /\ edits = 0
  /\ crashes = 0
  /\ touched = [r \in Rollers |-> {}]
  /\ orphaned = {}
  /\ drift = 0

-----------------------------------------------------------------------------
(* The machines, and what agents report of them.  External: Talos answers an *)
(* upgrade request when it has accepted it and reboots into it afterwards.   *)

Reboot(m) ==
  /\ node[m].staged # 0
  /\ node' = [node EXCEPT ![m] = [ver |-> @.staged, prev |-> @.ver, staged |-> 0]]
  /\ UNCHANGED <<spec, reported, cached, roll, row, running, canceled, applier,
                 edits, crashes, touched, orphaned, drift>>

\* PUT .../machines/{id}/status
UpdateMachineStatus(m) ==
  /\ reported[m] # node[m].ver
  /\ reported' = [reported EXCEPT ![m] = node[m].ver]
  /\ UNCHANGED <<spec, node, cached, roll, row, running, canceled, applier,
                 edits, crashes, touched, orphaned, drift>>

\* An update of the tenant declares another version.
UpdateTenantVersion(v) ==
  /\ edits < MaxEdits
  /\ v # spec
  /\ spec' = v
  /\ edits' = edits + 1
  /\ UNCHANGED <<node, reported, cached, roll, row, running, canceled, applier,
                 crashes, touched, orphaned, drift>>

-----------------------------------------------------------------------------
(* The order of a rolling upgrade. *)

ListAsStored == MachineList

\* Rows are appended to the control planes or to the workers in the order the
\* store lists them, and the workers to the control planes: row k comes no later
\* than row j, and the rows up to j give it its place.
IsControlPlane(j) == MachineList[j] \in ControlPlanes

NotAfter(k, j) ==
  \/ IsControlPlane(k) /\ ~IsControlPlane(j)
  \/ (IsControlPlane(k) <=> IsControlPlane(j)) /\ k <= j

PlaceOf(j) == Cardinality({k \in 1..Len(MachineList) : NotAfter(k, j)})

ListMachinesInOrder ==
  [p \in 1..Len(MachineList) |-> MachineList[CHOOSE j \in 1..Len(MachineList) : PlaceOf(j) = p]]

(* The cache of bundles: SecretsCache.Get, and Refresh after an apply. *)

CacheGet == cached

Refresh == cached' = TRUE

\* The console's restart button: MachineUpgrader.action opens a client with the
\* cached bundle; a node with a staged upgrade comes up in it.
action == CacheGet

MachineRestart(m) == action /\ Reboot(m)

(* Manager.StartRun: a tenant with machines gets a record and a goroutine. *)

canStart(version) == Fleet # {} /\ spec # version

StartRun(r, version) ==
  /\ row[r].phase = "none"
  /\ Fleet # {}
  /\ row' = [row EXCEPT ![r] = [phase |-> "upgrading", completed |-> 0, ended |-> FALSE]]
  /\ running' = running \cup {r}
  /\ roll' = [roll EXCEPT ![r] =
                [pc |-> "start", from |-> spec, target |-> version, i |-> 0, phase |-> "precheck"]]
  /\ UNCHANGED <<spec, node, reported, cached, canceled, applier, edits, crashes,
                 touched, orphaned, drift>>

\* POST .../upgrades asks canStart first, the form of the console does not.
Start(r, version) == canStart(version) /\ StartRun(r, version)

ClusterUpgradeStart(r, version) == StartRun(r, version)

\* CancelRun: only a run of this process that has not ended.
CancelRun(r) ==
  /\ r \in running
  /\ canceled' = canceled \cup {r}
  /\ UNCHANGED <<spec, node, reported, cached, roll, row, running, applier,
                 edits, crashes, touched, orphaned, drift>>

\* persistStatus: the whole status of the row is replaced; the hook has none.
Persist(r, phase, completed) ==
  IF r \in Runs
  THEN row' = [row EXCEPT ![r].phase = phase, ![r].completed = completed]
  ELSE UNCHANGED row

End(r, phase) == roll' = [roll EXCEPT ![r].pc = "final", ![r].phase = phase]

-----------------------------------------------------------------------------
(* rollUpgrade, one step per call it makes. *)

\* Equal versions, or an error of the lister, end it; otherwise the loop begins.
RollStart(r) ==
  /\ roll[r].pc = "start"
  /\ Persist(r, "precheck", 0)
  /\ \/ /\ roll[r].from = roll[r].target
        /\ End(r, "complete")
     \/ End(r, "failed")
     \/ /\ roll[r].from # roll[r].target
        /\ roll' = [roll EXCEPT ![r].pc = "next", ![r].i = 1]
  /\ UNCHANGED <<spec, node, reported, cached, running, canceled, applier,
                 edits, crashes, touched, orphaned, drift>>

\* The head of the loop: the end, a cancellation, or the next machine.
RollNext(r) ==
  /\ roll[r].pc = "next"
  /\ IF roll[r].i > Len(MachineList)
     THEN End(r, "complete") /\ UNCHANGED row
     ELSE IF r \in canceled
     THEN End(r, "canceled") /\ UNCHANGED row
     ELSE /\ Persist(r, "upgrading", roll[r].i - 1)
          /\ roll' = [roll EXCEPT ![r].pc = "upgrade"]
  /\ UNCHANGED <<spec, node, reported, cached, running, canceled, applier,
                 edits, crashes, touched, orphaned, drift>>

\* The installation of a machine before the last one comes back; an upgrade
\* that is still staged is forgotten.
RolledBack(n) ==
  IF n.staged # 0 THEN [n EXCEPT !.staged = 0]
  ELSE [ver |-> n.prev, prev |-> n.ver, staged |-> 0]

\* RollbackMachine: it reverts whatever is installed, in the run's context.
RollbackMachine(r, m) ==
  \/ UNCHANGED node
  \/ /\ CacheGet /\ r \notin canceled
     /\ node[m].staged # 0 \/ node[m].prev # 0
     /\ node' = [node EXCEPT ![m] = RolledBack(@)]

Current(r) == ListMachinesInOrder[roll[r].i]

\* The request is accepted: the node will reboot into the target.
UpgradeMachine(r) ==
  LET m == Current(r) IN
  /\ roll[r].pc = "upgrade"
  /\ CacheGet /\ r \notin canceled
  /\ node' = [node EXCEPT ![m].staged = roll[r].target]
  /\ touched' = [touched EXCEPT ![r] = @ \cup {m}]
  /\ roll' = [roll EXCEPT ![r].pc = "health"]
  /\ UNCHANGED <<spec, reported, cached, row, running, canceled, applier,
                 edits, crashes, orphaned, drift>>

\* No bundle in the cache, no connection, or a refusal: the machine is rolled
\* back all the same, and the run has failed.
UpgradeFails(r) ==
  /\ roll[r].pc = "upgrade"
  /\ RollbackMachine(r, Current(r))
  /\ touched' = [touched EXCEPT ![r] = @ \cup {Current(r)}]
  /\ End(r, "failed")
  /\ UNCHANGED <<spec, reported, cached, row, running, canceled, applier,
                 edits, crashes, orphaned, drift>>

\* Any version the machine answers with is good.
CheckMachineHealth(r) ==
  /\ roll[r].pc = "health"
  /\ CacheGet /\ r \notin canceled
  /\ roll' = [roll EXCEPT ![r].pc = "next", ![r].i = @ + 1]
  /\ UNCHANGED <<spec, node, reported, cached, row, running, canceled, applier,
                 edits, crashes, touched, orphaned, drift>>

HealthFails(r) ==
  /\ roll[r].pc = "health"
  /\ RollbackMachine(r, Current(r))
  /\ End(r, "failed")
  /\ UNCHANGED <<spec, reported, cached, row, running, canceled, applier,
                 edits, crashes, touched, orphaned, drift>>

\* The number of machines the last status of the loop counted.
Completed(r) ==
  IF roll[r].i = 0 THEN 0
  ELSE IF roll[r].i > Len(MachineList) THEN Len(MachineList) ELSE roll[r].i - 1

FinalForgotten(r) ==
  /\ roll[r].pc = "final"
  /\ running' = running \ {r}
  /\ roll' = [roll EXCEPT ![r] = IdleRoll]
  /\ UNCHANGED <<spec, node, reported, cached, row, canceled, applier, edits,
                 crashes, touched, orphaned, drift>>

\* persistFinal and the deferred delete from running.
executeRunEnds(r) ==
  /\ roll[r].pc = "final"
  /\ row' = [row EXCEPT ![r] = [phase |-> roll[r].phase, completed |-> Completed(r), ended |-> TRUE]]
  /\ running' = running \ {r}
  /\ roll' = [roll EXCEPT ![r] = IdleRoll]
  /\ UNCHANGED <<spec, node, reported, cached, canceled, applier, edits, crashes,
                 touched, orphaned, drift>>

-----------------------------------------------------------------------------
(* The applier: upgrade first, then tofu. *)

\* sharedVersion of the reported versions: 0 for none or a disagreement.
observedTalos ==
  IF \E v \in Versions : \A m \in Fleet : reported[m] = v
  THEN CHOOSE v \in Versions : \A m \in Fleet : reported[m] = v
  ELSE 0

\* runUpgradesIfNeeded: only a drift all machines agree on starts the hook.
runUpgradesIfNeeded ==
  /\ applier = "idle"
  /\ IF observedTalos \notin {0, spec}
     THEN /\ roll' = [roll EXCEPT ![Hook] =
                        [pc |-> "start", from |-> observedTalos, target |-> spec,
                         i |-> 0, phase |-> "precheck"]]
          /\ applier' = "upgrading"
          /\ drift' = observedTalos
     ELSE /\ applier' = "tofu"
          /\ drift' = 0
          /\ UNCHANGED roll
  /\ touched' = [touched EXCEPT ![Hook] = {}]
  /\ UNCHANGED <<spec, node, reported, cached, row, running, canceled, edits,
                 crashes, orphaned>>

HookErrorIgnored ==
  /\ applier = "upgrading"
  /\ roll[Hook].pc = "final"
  /\ applier' = "tofu"
  /\ roll' = [roll EXCEPT ![Hook] = IdleRoll]
  /\ UNCHANGED <<spec, node, reported, cached, row, running, canceled, edits,
                 crashes, touched, orphaned, drift>>

\* RunUpgrade returns: a failure or a cancellation fails the apply.
RunUpgrade ==
  /\ applier = "upgrading"
  /\ roll[Hook].pc = "final"
  /\ applier' = IF roll[Hook].phase = "complete" THEN "tofu" ELSE "idle"
  /\ roll' = [roll EXCEPT ![Hook] = IdleRoll]
  /\ UNCHANGED <<spec, node, reported, cached, row, running, canceled, edits,
                 crashes, touched, orphaned, drift>>

\* tofu apply: PhaseApplied refreshes the cache, a failure does not.
TofuApplied ==
  /\ applier = "tofu"
  /\ applier' = "idle"
  /\ Refresh
  /\ drift' = 0
  /\ UNCHANGED <<spec, node, reported, roll, row, running, canceled, edits,
                 crashes, touched, orphaned>>

TofuFailed ==
  /\ applier = "tofu"
  /\ applier' = "idle"
  /\ drift' = 0
  /\ UNCHANGED <<spec, node, reported, cached, roll, row, running, canceled,
                 edits, crashes, touched, orphaned>>

\* The process restarts: rows and machines stay, nothing is resumed and the
\* cache is empty.
UpgradeCrash ==
  /\ crashes < MaxCrashes
  /\ crashes' = crashes + 1
  /\ orphaned' = orphaned \cup running
  /\ running' = {}
  /\ canceled' = {}
  /\ roll' = [r \in Rollers |-> IdleRoll]
  /\ applier' = "idle"
  /\ cached' = FALSE
  /\ drift' = 0
  /\ UNCHANGED <<spec, node, reported, row, edits, touched>>

Roll(r) ==
  \/ RollStart(r) \/ RollNext(r)
  \/ UpgradeMachine(r) \/ UpgradeFails(r)
  \/ CheckMachineHealth(r) \/ HealthFails(r)

UpgradeNext ==
  \/ \E m \in Fleet : Reboot(m) \/ MachineRestart(m) \/ UpdateMachineStatus(m)
  \/ \E v \in Versions : UpdateTenantVersion(v)
  \/ \E r \in Runs : (\E v \in Versions : Start(r, v) \/ ClusterUpgradeStart(r, v)) \/ CancelRun(r) \/ executeRunEnds(r)
  \/ \E r \in Rollers : Roll(r)
  \/ runUpgradesIfNeeded \/ RunUpgrade \/ TofuApplied \/ TofuFailed
  \/ UpgradeCrash

UpgradeSpec == UpgradeInit /\ [][UpgradeNext]_upgradeVars

-----------------------------------------------------------------------------

RunPhases == {"none", "precheck", "upgrading", "complete", "failed", "canceled"}

NodeState == [ver : Versions \cup {0}, prev : Versions \cup {0}, staged : Versions \cup {0}]
RollState == [pc : {"idle", "start", "next", "upgrade", "health", "final"},
              from : Versions \cup {0}, target : Versions \cup {0},
              i : 0..(Len(MachineList) + 1), phase : RunPhases \cup {"idle"}]
RunRow == [phase : RunPhases, completed : 0..Len(MachineList), ended : BOOLEAN]

UpgradeTypeOK ==
  /\ spec \in Versions
  /\ node \in [Fleet -> NodeState]
  /\ reported \in [Fleet -> Versions \cup {0}]
  /\ cached \in BOOLEAN
  /\ roll \in [Rollers -> RollState]
  /\ row \in [Runs -> RunRow]
  /\ running \subseteq Runs
  /\ canceled \subseteq Runs
  /\ applier \in {"idle", "upgrading", "tofu"}
  /\ edits \in 0..MaxEdits
  /\ crashes \in 0..MaxCrashes
  /\ touched \in [Rollers -> SUBSET Fleet]
  /\ orphaned \subseteq Runs
  /\ drift \in Versions \cup {0}

(***************************************************************************)
(* The progress a record shows is the progress made: the machines a run    *)
(* has touched are the first ones of its order, as many as Completed says  *)
(* or one more, and control planes come before workers.  A failure or a    *)
(* cancellation leaves every machine behind it alone (rollUpgrade).        *)
(***************************************************************************)
ProgressMatchesMachines ==
  \A r \in Runs :
    /\ touched[r] \in {Range(SubSeq(ListMachinesInOrder, 1, k)) :
                         k \in {row[r].completed, row[r].completed + 1} \cap 0..Len(MachineList)}
    /\ touched[r] \ ControlPlanes # {} => (ControlPlanes \cap Fleet) \subseteq touched[r]

(***************************************************************************)
(* A record that shows no end belongs to a run that goes on, unless the    *)
(* process was restarted under it: nothing else loses a run, and nobody    *)
(* ends the record of an interrupted one (executeRun, persistFinal).       *)
(***************************************************************************)
UnendedOnlyAfterCrash ==
  \A r \in Runs : row[r].phase # "none" => (row[r].ended <=> r \notin running \cup orphaned)

(***************************************************************************)
(* Upgrade first, then tofu: when all machines agreed on another version   *)
(* than the declared one, tofu runs only after the hook asked each of them *)
(* to upgrade.  Machines that disagree, as a failed roll leaves them, are  *)
(* the exception: then no upgrade is started (observedTalos).              *)
(***************************************************************************)
UniformDriftUpgradedFirst ==
  (applier = "tofu" /\ drift # 0) => touched[Hook] = Fleet

-----------------------------------------------------------------------------
(***************************************************************************)
(* What makes the three invariants inductive.  How far a roller has come   *)
(* tells which machines it has touched.                                    *)
(***************************************************************************)
FirstMachines(k) == {ListMachinesInOrder[j] : j \in 1..k}

RollerOK(r) ==
  LET i == roll[r].i
      n == Len(MachineList) IN
  /\ roll[r].pc = "start" => i = 0 /\ touched[r] = {}
  /\ roll[r].pc = "next" => i \in 1..(n + 1) /\ touched[r] = FirstMachines(i - 1)
  /\ roll[r].pc = "upgrade" => i \in 1..n /\ touched[r] = FirstMachines(i - 1)
  /\ roll[r].pc = "health" => i \in 1..n /\ touched[r] = FirstMachines(i)
  /\ roll[r].pc = "final" =>
       /\ roll[r].phase \in {"complete", "failed", "canceled"}
       /\ \/ i = 0 /\ touched[r] = {} /\ (roll[r].phase = "complete" => roll[r].from = roll[r].target)
          \/ i = n + 1 /\ touched[r] = FirstMachines(n)
          \/ /\ i \in 1..n /\ roll[r].phase # "complete"
             /\ touched[r] \in {FirstMachines(i - 1), FirstMachines(i)}

RollInv == \A r \in Rollers : RollerOK(r)

\* The record of a run counts the machines before the current one, or is one
\* machine behind at the head of the loop.
ProgressOK(r) ==
  /\ roll[r].pc = "start" => row[r].completed = 0
  /\ roll[r].pc \in {"upgrade", "health"} => row[r].completed = roll[r].i - 1
  /\ row[r].phase = "none" => touched[r] = {}
  /\ \E k \in {row[r].completed, row[r].completed + 1} \cap 0..Len(MachineList) :
       touched[r] = FirstMachines(k)

ProgressInv == \A r \in Runs : ProgressOK(r)

\* Manager.running names the runs that have a goroutine.
RecordOK(r) ==
  /\ row[r].phase # "none" => (row[r].ended <=> r \notin running \cup orphaned)
  /\ r \in running => r \notin orphaned
  /\ r \in running <=> roll[r].pc # "idle"
  /\ row[r].phase = "none" => ~row[r].ended /\ r \notin running \cup orphaned

RecordInv == \A r \in Runs : RecordOK(r)

\* The hook rolls only inside an apply, and only from one version to another.
HookInv ==
  /\ applier # "upgrading" => roll[Hook].pc = "idle"
  /\ roll[Hook].pc # "idle" => roll[Hook].from # roll[Hook].target
  /\ UniformDriftUpgradedFirst

UpgradeInv == UpgradeTypeOK /\ RollInv /\ ProgressInv /\ RecordInv /\ HookInv
=============================================================================
