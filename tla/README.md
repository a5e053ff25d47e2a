# RezusCloud management plane: a TLA+ model

TLA+ modules for the RezusCloud management plane, TLC configurations that check
them on small instances, and TLAPS proofs of the main safety properties for every
value of the constants. `PROJECT.json` maps each definition to the lines of Go it
models, each run to its properties, and each hazard of the code to the properties
that would catch it.

| Module | Models | Checked by | Proofs |
|---|---|---|---|
| `CoalescingScheduler` | what the apply queue promises (abstract) | as a property of `applyqueue_safety` | refinement proved in `ApplyQueueProofs` |
| `ApplyQueue` | `internal/applyqueue` | `MCApplyQueue`, 3 runs | `ApplyQueueProofs` |
| `TenantLifecycle` | tenant and node group API, store, applier, projection, enricher around one tenant | `MCTenantLifecycle`, 4 runs | `TenantLifecycleProofs` |
| `MgmtLink` | `internal/mgmtlink`: provisioning, WireGuard-over-gRPC streams | `MCMgmtLink`, 1 run | `MgmtLinkProofs` |
| `TFState` | `internal/tfbackend`, `internal/projection`, state access of `internal/tfexec` | `MCPlane` | `PlaneProofs` |
| `StatusPlane` | `internal/reconcile/status.go`, `internal/status` | `MCPlane` | `PlaneProofs` |
| `Upgrade` | `internal/upgrade`, the applier's pre-apply hook, `internal/credentials` | `MCPlane` | `UpgradeProofs` |
| `Converge` | `internal/converge` | `MCPlane` | `PlaneProofs` |
| `ResourceAPI` | the resource handlers of `internal/api` and of the console's forms, over `internal/state` | `MCEdge` | `ResourceAPIProofs` |
| `Identity` | `internal/auth`, `internal/auth/oidc`, users and tokens in `internal/state` | `MCEdge` | `EdgeProofs` |
| `WatchBus` | `internal/watch` | `MCEdge` | `EdgeProofs` |
| `Audit` | `internal/audit` and the shutdown of `main.go` | `MCEdge` | `EdgeProofs` |
| `Fleet` | phases, lists, posture, patch resolution: pure operators | `MCConsole`, through `Console` | `ConsoleProofs` (phases, posture) |
| `ConsoleViews` | `internal/web/pages`, `internal/web/layout` | `MCConsole`, through `Console` | `ConsoleProofs` |
| `Console` | `internal/web` and its handlers | `MCConsole` | `ConsoleProofs` |
| `Backup` | `internal/backup` | `MCConsole`, 2 runs | `ConsoleProofs` |

Running: `tlc -config Plane.cfg MCPlane`, and so on for each configuration;
`tlapm ApplyQueueProofs.tla` for the proofs.

## 1. The system

`main.go` is one Go process: an HTTP API and a web console over an SQLite store, a
reconciliation pipeline that runs OpenTofu per tenant, and a management link over
which Talos nodes are reached.

### 1.1 Inventory

| Part | State it keeps | What is hard about it | What makes it correct |
|---|---|---|---|
| State store (`internal/state`) | one `resources` row per object: version, spec, status, finalizers, labels, deletion timestamp; secrets, users, tokens | read-modify-write without a version; versions restart when a name is reused; the event of a write is a second step | no update is silently overwritten; a row under deletion goes with its last finalizer; the last event tells the truth |
| Apply queue (`internal/applyqueue`) | map of per-tenant loops, a one-slot trigger each | the handle is used after the mutex; exit races Enqueue; cancellation | applies of a tenant never overlap; no request is lost for good; Stop ends |
| Applier, enricher, bus (`internal/reconcile`) | none: reads rows, renders, runs tofu, writes rows | minutes between reading and acting; its own writes enqueue it again; partial failure | a tenant converges, a deletion completes, infrastructure never outlives its row |
| Status tracker, gatherer | 256 phase events; a cached probe per tenant | drops when full; unversioned writes; slow probes | the status ends at the last phase; answers are fresh |
| State backend (`internal/tfbackend`) | state blob and lock row per tenant | compare and delete in two statements; repeated requests | one holder at a time |
| Projection index (`internal/projection`) | objects derived from tofu state | pull outside the lock; rebuilds out of order; a delete without the lock | the index catches up |
| Upgrade manager (`internal/upgrade`) | run records, cancel functions | two rolls at once; cancel, rollback, crash | control plane first, in order; tofu only after the upgrade |
| Management link (`internal/mgmtlink`) | peer rows; a slot and a send queue per address | concurrent allocation; reconnects that overlap teardown | addresses are exclusive and permanent; one stream per node |
| Converge engine (`internal/converge`) | connected and converged flags of machine rows | a goroutine per event; conflicts only logged | the flag follows the peer; "current" was delivered |
| Backup (`internal/backup`) | snapshot records, files, policy | keys shared per day and kind; retention, restore and crashes overlap | a kept record has its file; a restore is complete |
| Watch (`internal/watch`) | subscriber channels of 64 events | drops when full; delivery after cancellation | a watcher ends up with the current state |
| Audit (`internal/audit`) | queue of 1024 records, the table | Record races Close; the sweep races readers | an event is written or visibly lost |
| Auth (`internal/auth`) | users, API tokens, links; sessions are signed cookies | a role cached in a signed token; concurrent sign-ins | a password, a session, a role is what was last decided, within the expiry |
| API and console | none of their own; a browser tab shows a page of the past | check, then act by name; pages and handlers decide separately | a request stays in its tenant; what a page offers is accepted |

The parts interact by calls and by events. A store write publishes to a multi-bus,
one branch of which (`EnqueueBus`) enqueues the tenant of the object, another of
which feeds the watchers. The queue's loop calls the applier and reports its phases
to a combined listener: status tracker, projection rebuild, enricher, secrets
cache. Those write rows again, and so may enqueue again. `Provision` and
`CreateStream` report peers to the converge engine, which writes machine rows.

### 1.2 Hazards

The `hazards` list of `PROJECT.json` names the places where an order of steps, a
failure or a limit decides whether the code is right, each with the properties
that would catch it going wrong. A property often has an exception: the
interleaving the code does *not* handle. The exception is a history variable
(`stolen`, `crossed`, `missed`, `muddled`, `refused`, `raced`, `overlap`, `reborn`,
`orphaned`, `doomed`...), so the property says exactly how far the code's guarantee
reaches; the notes of the hazards repeat it.

## 2. The modules

### 2.1 `ApplyQueue`, and `CoalescingScheduler` above it

A *handle* stands for a `*tenantState`: a trigger channel and the goroutine that
owns it. `active` is `q.active`, `trigger[h]` the one-slot channel, `loop[h]` the
place of `run`, `call[p]` the place of a caller inside `Enqueue`, `lctx` and
`hctx` the contexts. A step is what happens between two points where another
goroutine can interfere: a critical section of `q.mu`, a channel operation, a
select.

| Code | Actions |
|---|---|
| `Enqueue` | `Enqueue` (critical section: `Register` or `FindLoop`), then `Spawn` or `Send` |
| `run`, `release` | `Redebounce`, `Fire`, `Applied`, `Decide`; `SeeCancel`, `Release` |
| `resyncLoop` | `Tick`, `ResyncEnqueue`, `ResyncDone`, `ResyncExit` |
| `Start`, `Stop` | `Start`, `Stop`, `StopReturn` |

`phase`, `result` and `pending` record what the listener was told, what `Apply`
returned and whether a request is unserved; they guard no action. The debounce timer
is untimed: it may fire at any moment. A second Start/Stop cycle is left out:
nothing in the program makes one.

`CoalescingScheduler` says what the rest of the program may rely on: a request is
kept, merged with another, or lost in one named step, and one run per tenant is
under way at a time, each paid for by a request. `ImplementsScheduler` is the
refinement, with the backlog mapped to the loop, its trigger and the calls about
to send. `TenantLifecycle` uses the queue at this level: `want` is "the backlog is
not empty" and `LoseWakeup` is the `Lose` step.

### 2.2 `TenantLifecycle`

One tenant name from POST to garbage collection, and from there to the next POST
of the name. Each store call of a handler or of the applier is a step of its own,
since any other goroutine may run between two of them.

| Code | State | Actions |
|---|---|---|
| `resources` rows | `row`, `fins`, `secrets`; per group `ver`, `uid`, `token`; `machines`, `bound` | operators `InsertTenant`, `InsertGroup`, `UpdateGroup`, `RemoveGroup`, `WriteFinalizers` |
| `TenantAPI`, `nodegroup.API` | `api[h]`: the request a handler serves | `CreateTenant...`, `UpdateTenant`, `DeleteTenant`, `AddFinalizer...`, `CreateGroup...`, `UpdateNodeGroup...`, `DeleteGroup...` |
| `Applier.Apply`, `destroy` | `pc`, `mode`, `todo`, `plan`, `cur`, `seen`, `pend` | `Begin`, `LoadNodeGroups`, `ReadToken`, `PersistToken`, `Render`, `TofuSucceeds`, `RunFails`, `Cascade...`, `RemoveTenantSecrets`, `RemoveFinalizer...`, `Applied`, `Failed` |
| OpenTofu (external) | `infra`: the token each machine runs with | a run reaches its goal, or leaves each machine old or new (`Halfway`) |
| `Index.Rebuild`, `StoreEnricher` | `index`, `rebuild[j]`, `enrich[j]` | `Rebuild...`, `Enrich...` |
| queue, bus, process | `want` | `Publish` inside each writing step, `Resync`, `LoseWakeup`, `Crash` |

A node group stands for one machine. `uid` counts the rows a name has had; the code
draws a random one. `RunFails` is an error of any step of `Apply` or `destroy`; the
contents of the rendered configuration are the set of groups and tokens it asks
for. The upgrade hook's own work is in `Upgrade`.

### 2.3 `MgmtLink`

`idx[n]` is the only persistent state, the peer table. `rpc[r]` is a `Provision`
call in progress (`FindPeer`, `NextIndex`, `InsertPeer`, `ApplyPeer`, `Respond`),
`stream[s]` a `CreateStream` call (`AllowStream`, `GetSendQueue`, `Register`,
`EndStream`, `Release`, `DropPeer`, `EmitDisconnected`), `sender[w]` a `Send` of
the WireGuard device. `streams` and `peers` are the two maps, each under a mutex of
its own; `closed` holds the closed channels and `cancelled` the streams told that
they were replaced. A send on a closed channel panics in a goroutine that nobody
recovers, so `PushPanics` restarts the server like `Restart`. Packets, keys,
`last_seen` and the netstack are left out. `SlotSafe` joins the three guarantees of
a slot. The peer events are the input of `Converge`.

### 2.4 Behind the apply loop: `TFState`, `StatusPlane`, `Upgrade`, `Converge`

- `TFState`. A state blob is the number of the POST that wrote it. `op[o]` is a
  client that locks, writes and unlocks; an UNLOCK may be sent again, and its
  comparison and its delete are two steps. The server's own tofu run writes without
  a lock, as `writeBackend` configures it. `pull[p]` is a goroutine of
  `Index.Rebuild`: `StatePull`, `InstallLock`, `Install`, or, for an absent state,
  the unlocked `Clear`. `reading` and `writer` say who is inside the maps.
- `StatusPlane`. A status is its reconciliation part and the number of the PUT that
  wrote the rest. The tracker's goroutine reads the row in one step and writes it in
  another. A probe of `Gather` starts, observes, and is stored at different times.
- `Upgrade`. A roller is a call of `rollUpgrade`: one per run record, and `Hook` for
  the one the applier makes. It works through `ListMachinesInOrder` with upgrade,
  health check and rollback, each a step; a node accepts an upgrade and reboots
  later. Cancel, status reports, edits of the declared version and a crash happen
  in between. `cached` is the secrets cache: empty after a restart, filled by
  `PhaseApplied`. The order of the list is defined by the place of each row: how
  many rows are not after it, where a control plane is before every worker and rows
  of one role keep their order. That is what the two appended slices of the code
  give, in a form that can be reasoned about for lists of any length.
- `Converge`. `handler[h]` is a goroutine of `peerEvents.emit`. Connect events set
  the flag (versioned, so refused on conflict), render, deliver with retries until
  the budget is spent, and mark; disconnect events look the machine up by its
  management address. `Matching` are the machines where that address is the one of
  the stream.

### 2.5 The edge: `ResourceAPI`, `Identity`, `WatchBus`, `Audit`

- `ResourceAPI` and `Identity` write a handler as the *program* it runs: the sequence
  of its store calls with the status code each answers when it fails. One action
  executes the next call of some request. A write is followed by the reload of the
  row and its publication, each a step. `checked` remembers the row the owner check
  saw. `adopted` is history: the rows whose owner an update has changed, which happens
  because `UpdateResource` writes the labels of its caller onto whatever row has the
  name and the version by then. Identity adds the clock, the flow cookie of OIDC and the provider's keys.
- `WatchBus`. A mutation reaches the wire, the subscription's callback, the bounded
  channel and the client's view in four steps; a client subscribes, then lists, then
  follows; it may leave at any step. Both buses are checked; `main.go` uses NATS.
- `Audit`. Request goroutines record after they answered; `Flush` sends a marker;
  shutdown follows `main.go`: server, database, recorder. The table is a function of
  row ids, which AUTOINCREMENT never gives twice; `buildQuery` is the place of a row in
  `ORDER BY id DESC`, and a page is the rows whose place is in its range.

### 2.6 The console and backups: `ConsoleViews`, `Fleet`, `Console`, `Backup`

- A page is an operator of `ConsoleViews` from the data its handler gathered to the
  set of elements shown: links, forms, dialogs, cells. The definitions follow the
  Go code generated from the `.templ` files, which is what the binary runs. `Fleet`
  computes phases, lists (with the default limit), the posture and the patches of a
  machine. `Console` has one tab: `Visit`, `Submit` of any form the page shows,
  `Follow` of the redirect, `Logout`, and `Elsewhere`, what other clients and the
  reconciler do. `tab.fresh` says that nothing has changed since the page was
  rendered.
- `Backup`. Requests trigger snapshots, change the policy and restore; every store
  and file access is a step; an upload truncates the file first. A crash may fall
  between any two. A record bears the number of the request that made it, since its
  name is the moment the request began. The list is defined by the place of each
  record: how many are not after it, the newest first, and rows of one second in the
  order of the table. `sort.Slice` keeps that order up to twelve records.

`MCPlane`, `MCEdge` and `MCConsole` check several components in one run. They share
no state, so a behaviour has one component in `focus` and the others rest: the
reachable states are the sum, not the product. The request families of `MCEdge`
and the two halves of `Backup` in `MCConsole` split further, along the rows the
requests meet on.

## 3. What TLC checks

| Run | Instance | States | Shows |
|---|---|---|---|
| `applyqueue_safety` | 1 tenant, 2 callers and the ticker, 4 handles, 5 calls | 101 000 | `AppliesSerialized`, `WakeupLostOnlyInSendWindow`, `ImplementsScheduler` |
| `applyqueue_liveness` | 1 caller, 2 calls | 54 809 | `EventuallyApplied`, `StopTerminates` |
| `applyqueue_lost_wakeup` | as above | violation | `NoLostWakeup` does not hold |
| `lifecycle_safety` | 1 group, 2 handlers, 4 requests, 1 failed run, 1 database error, 1 crash | 7.4 M | `RowOutlivesInfra`, `OnlyDeletedTornDown`, `TokenStable` |
| `lifecycle_converges` | 1 handler, 4 requests, 1 failed run, 1 lost wakeup, 1 crash | 998 000 | `Converges`, `SelfTriggersDieOut` |
| `lifecycle_deletion` | 2 handlers, 4 requests, no failure | 85 882 | `DeletionCompletes` |
| `lifecycle_destroy_retry` | 1 handler, 3 requests, 1 failed run | violation | `DeletionCompletes` does not survive a failure |
| `link_safety` | 3 nodes, 3 calls, 2 addresses, 2 streams, 1 sender, 1 restart | 962 600 | `AddressInv`, `SlotSafe` |
| `plane_safety` | see below | 1.9 M | 11 properties of section 2.4 |
| `edge_safety` | see below | 955 000 | 10 properties of section 2.5 |
| `console_safety` | see below | 517 000 | 6 properties of section 2.6 |
| `backup_kept_snapshots` | as above | violation | `KeptSnapshotsReadable` does not hold |

What the three suites show:

| Module | Property | In words |
|---|---|---|
| `TFState` | `LockExclusive` | two clients hold one workspace only after a late UNLOCK took the row of one |
| | `IndexCatchesUp` | rebuilds that do not overlap leave the index at the last apply |
| | `UnlockedOnlyForEmpty` | only the delete of an empty state enters the maps without the mutex |
| `StatusPlane` | `TrackerCatchesUp` | the stored phase and error are those of the last event, unless it was dropped or replaced |
| | `PutKeptUnlessRaced` | a PUT is lost only between the tracker's read and write |
| | `AnswersFresh` | an answer was observed less than a TTL before it was asked for |
| `Upgrade` | `ProgressMatchesMachines` | what a record counts is what was rolled, control planes first |
| | `UnendedOnlyAfterCrash` | only a crash leaves a record without an end |
| | `UniformDriftUpgradedFirst` | tofu never runs before the upgrade of a uniformly drifted tenant |
| `Converge` | `FlagFollowsLink` | the flag is right once handlers that did not overlap are done |
| | `CurrentMeansDelivered` | configUpToDate speaks of a config that reached the node |
| `ResourceAPI` | `ForeignOnlyAfterRecreate` | a request touches another tenant's row only if it was re-created after the check |
| | `LastEventCurrent` | the last event shows the row as it is, unless mutations overlapped |
| | `ErrorMeansUnchanged` | an error answer means nothing was written |
| `Identity` | `PasswordIsLastChosen` | a change of role never undoes a password |
| | `SessionMatchesLink` | all sessions of a subject are of the user it is linked to |
| | `AdminEndsWithSession` | an admin's request comes from an admin of at most one expiry ago |
| `WatchBus` | `WatcherCatchesUp` | a watcher that lost no event knows the current state |
| `Audit` | `FlushMeansWritten` | what was recorded before Flush is written after it |
| | `PagesMissNothing` | paging misses no row but for a sweep out of order |
| | `StoppedMeansDecided` | no event is in limbo when the process has ended |
| `Console` | `FreshFormsAccepted` | a fresh page offers nothing its handler refuses |
| | `PostureMatchesTable` | the dashboard's card counts the clusters its table shows |
| | `PatchesStayInCluster` | a patch stays in its cluster, but for the kernel-args editor |
| `Backup` | `SnapshotIntact` | a success reads back as taken |
| | `RetentionKeepsEnough` | overlapping passes keep what the smallest policy asks for |
| | `RestoreComplete` | a restore without an error restored all, spec and status |

### 3.1 Bounds, and why they are enough

- *Apply queue.* Loops of different tenants share the mutex and nothing else, so
  one tenant shows every interference; two callers and the ticker give two calls in
  the window between lookup and send at once. `HandleSupply` makes sure that a
  lookup never waits for a handle, which the garbage collector never makes it do.
- *Lifecycle.* Four requests are POST, a node group, DELETE and one more, which may
  be the POST that brings the name back, or a group deleted and created again while
  its token is being persisted. The stale PUT that `TokenStable` excepts takes five
  requests and is left to the proof. One group keeps the tofu runs small; groups meet
  only in `todo` and `pend`, where order does not matter. `Prompt` is FALSE in the
  safety run. It is TRUE where liveness is checked, and says that an HTTP request in
  flight, a few SQLite statements, ends before the tofu run that is in progress, at
  least a provider download and a cloud call. Without it a DELETE could stall
  between its steps until `destroy` has ended.
- *Management link.* Three nodes for two addresses reach exhaustion (65 535 in the
  code); two streams replace each other, overlap in every state and end; one
  restart separates what is stored from what is not.
- *Plane.* One workspace, two locking clients (one to hold the lock, one whose late
  UNLOCK takes it), two rebuilds, two writes; three phase events for two slots, so
  that one is dropped; two Gather calls with a TTL of 2 on a clock of 5; two
  machines listed worker first, one run beside the hook, two versions, one edit, one
  crash; two machines, one of them `Matching`, two peer handlers, three peer events.
- *Edge.* Two concurrent requests out of three per family, two tenants that compete
  for one name; two callers, four calls, sessions that expire after one tick of a
  clock of 3; three publications for channels of 2, every endpoint; two audited
  mutations for two goroutines and a queue of 2, pages of one row, a retention of
  one day on a clock of 2.
- *Console.* Two clusters, one being deleted, two machines for a `ListLimit` of 2, a
  user of each role, two forms or foreign changes after the first page, which
  reaches every page and form. Backups: two requests, three snapshots, two ticks per
  day, retentions 1 and 2, one crash, two restores, two kinds of objects.
- Symmetry is used in safety runs only: nodes, streams, handlers, callers, clients
  and backup requests are interchangeable, and no definition orders or names one.
- Deadlock checking is off: the requests, calls and streams of every instance are
  bounded, and a state in which all have ended is where a run should stop.

### 3.2 Fairness

Weak fairness for what a goroutine does on its own: Go's scheduler runs every
runnable goroutine, tofu runs under a timeout of 30 minutes, a timer fires, the
ticker ticks. Strong fairness only for `ResyncExit`: once the context is cancelled
that case of the select is ready at every turn and select picks at random. Nothing
is assumed of clients, of failures or of crashes. The resync lister is assumed to
succeed again some day. Two liveness claims are deliberately restricted:
`EventuallyApplied` to listed tenants (the lister returns one page of 50), and
`DeletionCompletes` to runs without failure or crash, since the code retries none
of those (see findings). The three suites check safety; their "catches up"
properties say what holds whenever nothing is under way.

## 4. What is proved

All theorems hold for every set of tenants, groups, handlers, nodes, streams,
machines and clients and for every bound. They assume only the named `ASSUME`s of
the modules (`ConstantsAssumption`, `HandleSupply`, `LifecycleAssumption`,
`LinkAssumption`, `TFStateAssumption`, `StatusPlaneAssumption`,
`ConvergeAssumption`, `UpgradeAssumption`, `IdentityAssumption`, `AuditAssumption`,
`WatchBusAssumption`, `ResourceAssumption`, `BackupAssumption`, `ConsoleAssumption`):
bounds are natural numbers, null values are not members of the sets they stand
beside, a sequence is one, a request names an operation there is, the exported kinds
are different ones, and the rows the console starts on have the fields of their table
and a name only once. `HandleSupply`
says that callers are finitely many and handles never run out.
TLC evaluates each of them in a run, and has checked each inductive invariant on the
instance of that run before it was proved.

**Apply queue.** `AppliesSerialized` is not inductive: it says nothing of a loop that
is registered and not yet spawned, nor of one that has run out. `QueueInv` adds
that a running goroutine is the one the map names for its tenant
(`LoopRegistered`), that the map's handle was made for that tenant (`MapOwned`),
and that a handle between the critical section and `go run` is in the map, idle, and
in nobody else's hands (`SpawnRegistered`, `SpawnDistinct`). From it:
`QueueInvariant`, `TypeCorrect`, `Serialization`, `PhaseAgreement` (the late report
of "queued" never overtakes "applying") and `WakeupWindow`, which says exactly when a
request can be lost: the loop saw the cancellation, or a caller was between lookup
and send.

`Refinement` is `Spec => ImplementsScheduler`: the queue implements
`CoalescingScheduler` step by step. The backlog of a tenant is the loop that has
been woken and has not fired (`Unfired`), plus the buffered trigger (`Buffered`), plus
the calls between lookup and send; a run is under way while a loop applies
(`Applying`). Each action is shown to be the abstract step of its name or to leave
the mapped state alone (`AsRequest`, `AsReturn`, `AsBegin`, `AsFinish`, `AsDrop`,
`AsStutter`). The proof needs `QueueInv` and one fact more, `SendOwned`: a handle
that a caller holds is never given to another tenant, or its trigger would count for
the wrong one.

**Tenant lifecycle.** `RowOutlivesInfra` needs that the decision taken at `Begin`
stays valid for the minutes that follow. `LifecycleInv` says so: while Apply works
the row exists, while destroy works it carries its deletion timestamp (nothing but
the worker itself removes a row under deletion, and a POST fails on it), and from
the end of `tofu destroy` to the last finalizer there is no infrastructure.
`TeardownSafe` and `TeardownIntended` follow. `TokenInv` carries `TokensStable`: a
pending write that read the current row and would still find its version carries
the token the row has. Its lemmas follow the origin of each pending write
(`PutOrigin`, `PersistOrigin`) and of each row (`RowMoves`).

**Management link.** `AddressInv` is inductive as it stands thanks to the unique index:
`AddressInvariant`, `AddressesKept`; `TypeCorrect` keeps every index below the limit.
`SlotInv` joins `OwnerInv` (the map holds the one stream that runs and was not
replaced) and `QueueInv` (a queue in the map is open, belongs to one address, and
has an owner or a stream about to become or to cease to be one): `SlotInvariant`,
`SingleConsumer`, `ReplacedHarmless`, `QueuesLookedAfter`, and `SlotsSafe`, which
joins the last three.

**State backend and index.** `TFStateInv` has a part per property. `LockInv`: an
operation that works under the lock owns the row or has lost it to a late UNLOCK, and
an UNLOCK in progress belongs to an operation that has finished working; this gives
`LockIsExclusive`. `IndexInv`: blobs only get newer, so whatever a rebuild that did
not overlap has pulled is the applied blob or a later one; this gives
`IndexIsCurrent`. `MutexInv`, with `InstallsAreExclusive`, says the same of `writer`
without counting.

**Status plane.** `TrackerCatchesUp` speaks of a drained queue only, so the invariant
has to say what is still on its way. `PhaseInv`: the last event is the last one of
the channel, or the worker's, or in the rows. `ErrorInv`: the error owed is that of
the last *deciding* event (failed or applied) of the channel, or the worker's, or in
the rows and the worker's copy. `DestroyInv` relates "destroying" to the deletion
timestamp; `PutInv` adds that a copy nobody raced carries the last PUT; `GatherInv`
that an entry expires at most a TTL after its observation.

**Upgrade manager.** `RollInv` says which machines a roller has touched at each place
of its loop: exactly the first `i` or `i - 1` of the ordered list. `ProgressInv`
relates the record to it, `RecordInv` the map of running goroutines to the records,
`HookInv` the hook to the applier. `PlaceFacts` and `OrderIsComplete` prove that
`ListMachinesInOrder` lists every machine, control planes first, for every list:
`ProgressIsReal` and `UpgradeComesFirst` rest on it.

**Converge engine.** `AloneInv`: a machine whose handlers have not overlapped has one
handler at most, and it handles the event that made the link what it is. `FlagInv`
and `DeliveredInv` carry the flag and the config through the places of that handler.
`FlagIsRight` and `CurrentIsDelivered` follow.

**Identity.** `ProgramInv` says what a handler may still have to do: the calls left
follow each other as in its code (`CallOrder`) and suit its request. On it rest three
parts. `PasswordInv`: a uid is given once and the version of a row only grows, so a
role change that still finds the version it read writes back the hash that is there;
`PasswordsAreLastChosen`. `LinkInv`: a link keeps its user for good, and a sign-in past
its link is for that user; `SessionsMatchLinks`. `AdminInv`: a role read within a tick
was had in that tick, and a session of an admin expires at most `Expiry` after its
user was one; `AdminsEnd`.

**Audit.** `OnceInv`: an event is with its goroutine, in the queue, or past it, and in
one row at most; `EventInv` adds that none is nowhere. With `StageInv` (the drain leaves
an empty queue behind) this gives `StopDecides`. `FlushInv`: what a flush waits for is
decided, or in the queue before every marker; `FlushesMeanWritten`. `PageInv`: a row
the reader wants is seen, swept, moved up by the sweep of a row above it, or ahead of
the offset; `PagesComplete` needs besides that a page with a row behind it is full
(`FullPage`), because the places of the rows are 1 to their number (`Places`).

**Watch bus.** `WatcherCatchesUp` speaks of a client to which nothing is under way.
`ToldInv` says what is: on the wire, in the callback, in the channel, in this order, the
last event about an object has its current version, and where there is none the view
has (`Tells`). It holds for what changed since the subscription and, once the list has
been sent, for every tenant; before the list, what has not changed has no event.
`BusInv` is the plumbing: a subscription carries its own type, is open as long as the
bus knows it, and nothing is under way to a connection before it subscribes.

**Resource API.** The programs of 32 routes are the data of this model, so the
invariant starts with what every one of them has in common. `HandlerInv`: what is left
of a program starts with the store's own steps, a reload with its publication behind
it; nothing that can answer an error comes after a write; and what acts on a row by
name has looked the row up first. `EveryRouteStarts` goes through the routes and shows
that each starts such a program; the lemmas on `Proceed` and `Failed` show that running
one leaves such a program. `AnswerInv` rests on it and gives `ErrorsLeaveUnchanged`.
`OwnerInv`: a uid is never given twice, so a row that still has the uid the check saw
has the owner the check saw, unless an update took it over (`Vouched`). This gives
`ForeignOnly`. The exception for rows taken over was found here: without it the
invariant is not inductive, and five requests reach the counterexample (a late update
writes its tenant onto a row created anew, and a second late request then meets a row
that had been its own). `EventInvariant`: as long as the mutations of a row do not
overlap at most one client has it to announce, a client about to publish holds the row
as it is, and with none the last event is the row; `LastEventIsCurrent`.

**Backup.** `NumberInv`: a request that takes a snapshot has a number nothing else
bears. `FileInv`: a key with one upload belongs to the request that writes it and then
to the one record it makes, which gives `SnapshotsStayIntact`. `RetentionInv`: every
record that some pass has chosen has as many records before it that nobody has chosen
as the lowest retention in force; since a pass chooses from the list it read, the
proof compares the place of a record in an older list with its place now
(`RetentionHolds`). `DataInv` and `RestoreInv`: a snapshot has each kind once, and the
entries a restore has behind it are in the table unless somebody touched them
(`RestoresAreComplete`).

**Console.** `FreshFormsAccepted` speaks of the answer to a form, so its invariant has
to speak of the form while it is on the screen. `FormsOK`: as long as the page is fresh,
whoever sees one of its forms or buttons may use it, and the patch, machine or group
that it names has a row (`Offered`, `Scales`). Every operator of `ConsoleViews` is shown
to give only such elements (`Quiet...` for what sends nothing, `Good...` for the rest),
every handler to answer only such pages (`Fine...`, up to `ServeFacts`), and every form
handler to refuse with 403 or 404 only where the promise was broken (`OutOK`,
`ReplyStep`): `FormsAccepted`. `PostureIsRight` compares two computations of one number:
the card counts the tenants whose phase, from one list of all machines, is active; the
table has one cell per tenant because names are unique; and a limited list that holds
all machines holds those of each tenant. No other element of the page can be
taken for one of those cells (`Plain...`). `PatchesStay` follows from the same steps: a
patch is found under a unique name, and each handler writes its tenant label again.

Only model-checked: all liveness (`EventuallyApplied`, `StopTerminates`, `Converges`,
`SelfTriggersDieOut`, `DeletionCompletes`), since TLAPS does not reason about
fairness here.

## 5. Findings

Each is a violation run with the line it contradicts quoted in `PROJECT.json`.

1. `Enqueue` can lose a wakeup to an exiting loop (`NoLostWakeup`), although the
   package comment rules it out; the next resync heals it (`EventuallyApplied`).
2. A failed destroy is never tried again (`DeletionCompletes`): the resync lists
   live tenants only.
3. Snapshots of one type and day share a file, so retention deletes the file of a
   record it keeps (`KeptSnapshotsReadable`).

### 5.1 Observed while modelling

The models take these as the code has them; where a property needs an exception for
one, its comment says so.

- *Queue and lifecycle.* An apply cut short by Stop is reported as `PhaseApplied`
  ("Apply succeeded"). The enrichment after a successful destroy reads the old index
  and writes machine rows back. A node group inserted after the cascade has listed
  the children survives its tenant, and so do the rows of a cascade that failed. A
  crash between the deletion timestamp and the finalizers leaves a row that nothing
  collects.
- *Link and converge.* A reconnect that overlaps the teardown of the old stream is
  left with a closed queue. `ConvergeMachine` has no caller. A machine whose
  management address is not that of its stream stays connected.
- *Upgrade.* A health check accepts any version; a rollback does not use the version
  it is given; a run of component "kubernetes" passes its version as a Talos tag;
  versions are compared as strings, with or without "v". After a partial failure the
  machines disagree, and the hook then starts no upgrade. The console's start skips
  `canStart`.
- *Store and API.* Names are unique across tenants although the routes are per
  tenant. Versions restart at 1 with a re-created name. Updating a missing row is a
  conflict. A patch PUT ignores the client's version. Foreign keys are declared with
  a cascade but never enabled, so tokens survive their user. `ClusterDelete` ignores
  errors and drops the secrets that destroy needs.
- *Identity.* Sessions are never compared with the user's row; nothing protects the
  last admin; a link to a deleted user blocks its sign-in.
- *Watch and audit.* Cancelling a NATS subscription closes a channel its callback may
  be sending on; so does `Close` of the recorder for a `Record` past its test. A
  scoped tenant watch misses events. `Flush` returns at once on a full queue. The
  database may be closed before the recorder drains.
- *Backup.* A checksum is stored and never compared; a restore stops half-way at the
  first error and deletes nothing; the file goes before the record.
- *Console.* The live-update script is emitted with its placeholder unexpanded. Two
  spellings of the node group label are in use. The Revoke button is offered to
  viewers, whom the handler refuses. The posture counts at most 50 machines. The
  second save of the kernel-args editor takes the patch out of its cluster.

## 6. Not modelled

Text generation and parsing (provider configuration, Talos configuration and
secrets, encryption of the tofu state, merging of patches, the machine
configuration diff), cryptography and the discovery documents of OIDC, metrics
(their result is an input of the console), log streaming, the console's event
streams and the two machine handlers that no page offers, the `rezusctl` command
line, which drives Docker, QEMU and Helm, and stateless helpers. `PROJECT.json`
lists each with its reason.
