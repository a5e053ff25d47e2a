----------------------------- MODULE ApplyQueue -----------------------------
(***************************************************************************)
(* The reconciliation scheduler, internal/applyqueue/queue.go.             *)
(*                                                                         *)
(* One debounce-and-apply goroutine per tenant, started lazily by Enqueue  *)
(* and registered in the map `active`; a one-slot trigger channel carries  *)
(* the enqueues that find the goroutine already there; a resync ticker     *)
(* enqueues every listed tenant.  A step of this module is what the code   *)
(* does between two points where another goroutine can interfere: a        *)
(* critical section of q.mu, a channel operation, a select.                *)
(*                                                                         *)
(* A handle stands for a *tenantState, that is, for a trigger channel and  *)
(* the goroutine that owns it.  Handles are taken from a finite pool and   *)
(* reused once nothing refers to them, as the garbage collector does.      *)
(***************************************************************************)
EXTENDS Naturals, FiniteSets

CONSTANTS
  Tenants,    \* tenant names
  Listed,     \* what the TenantLister returns
  Callers,    \* goroutines that call Enqueue: API handlers, watchers
  Resync,     \* the goroutine of resyncLoop
  Handles,    \* addresses of tenantState values
  NoHandle,   \* the nil *tenantState
  NoTenant,   \* no tenant
  MaxCalls    \* bound: Enqueue calls made by Callers

ASSUME ConstantsAssumption ==
  /\ Listed \subseteq Tenants
  /\ Resync \notin Callers
  /\ NoHandle \notin Handles
  /\ NoTenant \notin Tenants
  /\ MaxCalls \in Nat

\* Enough handles for the live loops and for the ones callers still point at.
ASSUME HandleSupply ==
  /\ IsFiniteSet(Tenants) /\ IsFiniteSet(Callers) /\ IsFiniteSet(Handles)
  /\ Cardinality(Handles) > Cardinality(Tenants) + Cardinality(Callers)

VARIABLES
  lctx,     \* q.lctx: "nil", "live" or "cancelled"
  stopped,  \* TRUE once Stop has returned from q.wg.Wait
  active,   \* q.active: tenant -> handle of its loop, or NoHandle
  owner,    \* the tenant a handle was allocated for, until its goroutine returns
  trigger,  \* is a value buffered in the handle's trigger channel?
  hctx,     \* the context its goroutine runs under: "background" or "lctx"
  loop,     \* where the goroutine of a handle is
  call,     \* where each caller is inside Enqueue
  calls,    \* Enqueue calls made by Callers so far
  resync,   \* the resync goroutine: "off", "wait" or "walk"
  todo,     \* tenants resyncLoop still has to enqueue in this tick
  phase,    \* the last phase the Listener saw for a tenant
  result,   \* what the last Apply of a tenant returned, "none" while it runs
  pending   \* has Enqueue(t) been called since the last Apply of t began?

vars == <<lctx, stopped, active, owner, trigger, hctx, loop, call, calls,
          resync, todo, phase, result, pending>>

-----------------------------------------------------------------------------
Procs == Callers \union {Resync}

LoopStates == {"none", "debounce", "releasing", "applying", "deciding"}
Idle == [pc |-> "idle", tenant |-> NoTenant, handle |-> NoHandle]
CallStates ==
  [pc : {"spawn", "send"}, tenant : Tenants, handle : Handles] \union {Idle}
Phases == {"none", "queued", "applying", "applied", "failed"}
Results == {"none", "ok", "error", "canceled"}

\* The one type invariant: every variable stays in its declared range.
TypeOK ==
  /\ lctx \in {"nil", "live", "cancelled"}
  /\ stopped \in BOOLEAN
  /\ active \in [Tenants -> Handles \union {NoHandle}]
  /\ owner \in [Handles -> Tenants \union {NoTenant}]
  /\ trigger \in [Handles -> BOOLEAN]
  /\ hctx \in [Handles -> {"background", "lctx"}]
  /\ loop \in [Handles -> LoopStates]
  /\ call \in [Procs -> CallStates]
  /\ calls \in 0..MaxCalls
  /\ resync \in {"off", "wait", "walk"}
  /\ todo \in SUBSET Tenants
  /\ phase \in [Tenants -> Phases]
  /\ result \in [Tenants -> Results]
  /\ pending \in [Tenants -> BOOLEAN]

\* New: nothing runs, Start has not been called.
Init ==
  /\ lctx = "nil"
  /\ stopped = FALSE
  /\ active = [t \in Tenants |-> NoHandle]
  /\ owner = [h \in Handles |-> NoTenant]
  /\ trigger = [h \in Handles |-> FALSE]
  /\ hctx = [h \in Handles |-> "background"]
  /\ loop = [h \in Handles |-> "none"]
  /\ call = [p \in Procs |-> Idle]
  /\ calls = 0
  /\ resync = "off"
  /\ todo = {}
  /\ phase = [t \in Tenants |-> "none"]
  /\ result = [t \in Tenants |-> "none"]
  /\ pending = [t \in Tenants |-> FALSE]

\* The context of h's goroutine has been cancelled.
Cancelled(h) == hctx[h] = "lctx" /\ lctx = "cancelled"

\* Nothing refers to h any more: the next &tenantState{} may have its address.
Free(h) ==
  /\ loop[h] = "none"
  /\ \A t \in Tenants : active[t] # h
  /\ \A p \in Procs : call[p].handle # h

-----------------------------------------------------------------------------
(* Start and Stop. A second Start is a no-op and is a stuttering step.     *)

Start ==
  /\ lctx = "nil"
  /\ lctx' = "live"
  /\ resync' = "wait"
  /\ UNCHANGED <<stopped, active, owner, trigger, hctx, loop, call, calls, todo,
                 phase, result, pending>>

\* Stop up to q.wg.Wait, or the cancellation of the context given to Start.
Stop ==
  /\ lctx = "live"
  /\ lctx' = "cancelled"
  /\ UNCHANGED <<stopped, active, owner, trigger, hctx, loop, call, calls,
                 resync, todo, phase, result, pending>>

\* q.wg.Wait returns: no tenant goroutine and no resync goroutine is left.
StopReturn ==
  /\ lctx = "cancelled"
  /\ ~stopped
  /\ \A h \in Handles : loop[h] = "none"
  /\ resync = "off"
  /\ stopped' = TRUE
  /\ UNCHANGED <<lctx, active, owner, trigger, hctx, loop, call, calls, resync,
                 todo, phase, result, pending>>

-----------------------------------------------------------------------------
(* Enqueue(t), called by p: the critical section, then either the spawn or *)
(* the non-blocking send, both after q.mu has been released.               *)

\* Mutant of Register: the new loop is not put into the map.
RegisterOutsideMap(p, t) ==
  /\ active[t] = NoHandle
  /\ \E h \in Handles :
       /\ Free(h)
       /\ owner' = [owner EXCEPT ![h] = t]
       /\ trigger' = [trigger EXCEPT ![h] = FALSE]
       /\ hctx' = [hctx EXCEPT ![h] = IF lctx = "nil" THEN "background" ELSE "lctx"]
       /\ call' = [call EXCEPT ![p] = [pc |-> "spawn", tenant |-> t, handle |-> h]]
  /\ UNCHANGED active

\* No loop: allocate a handle, register it, capture the context.
Register(p, t) ==
  /\ active[t] = NoHandle
  /\ \E h \in Handles :
       /\ Free(h)
       /\ active' = [active EXCEPT ![t] = h]
       /\ owner' = [owner EXCEPT ![h] = t]
       /\ trigger' = [trigger EXCEPT ![h] = FALSE]
       /\ hctx' = [hctx EXCEPT ![h] = IF lctx = "nil" THEN "background" ELSE "lctx"]
       /\ call' = [call EXCEPT ![p] = [pc |-> "spawn", tenant |-> t, handle |-> h]]

\* A loop is registered: remember its channel.
FindLoop(p, t) ==
  /\ active[t] # NoHandle
  /\ call' = [call EXCEPT ![p] = [pc |-> "send", tenant |-> t, handle |-> active[t]]]
  /\ UNCHANGED <<active, owner, trigger, hctx>>

Lookup(p, t) ==
  /\ call[p] = Idle
  /\ Register(p, t) \/ FindLoop(p, t)
  /\ pending' = [pending EXCEPT ![t] = TRUE]
  /\ UNCHANGED <<lctx, stopped, loop, resync, phase, result>>

\* Enqueue by an API handler: a bounded number of times.
Enqueue(c, t) ==
  /\ calls < MaxCalls
  /\ calls' = calls + 1
  /\ Lookup(c, t)
  /\ UNCHANGED todo

\* listener(PhaseQueued), wg.Add, go run.
Spawn(p) ==
  /\ call[p].pc = "spawn"
  /\ phase' = [phase EXCEPT ![call[p].tenant] = "queued"]
  /\ loop' = [loop EXCEPT ![call[p].handle] = "debounce"]
  /\ call' = [call EXCEPT ![p] = Idle]
  /\ UNCHANGED <<lctx, stopped, active, owner, trigger, hctx, calls, resync,
                 todo, result, pending>>

\* A full channel drops the send: the trigger is pending already.
Send(p) ==
  /\ call[p].pc = "send"
  /\ trigger' = [trigger EXCEPT ![call[p].handle] = TRUE]
  /\ call' = [call EXCEPT ![p] = Idle]
  /\ UNCHANGED <<lctx, stopped, active, owner, hctx, loop, calls, resync, todo,
                 phase, result, pending>>

-----------------------------------------------------------------------------
(* run(ctx, tenant, ts): the select picks any case that is ready.          *)

SeeCancel(h) ==
  /\ loop[h] = "debounce"
  /\ Cancelled(h)
  /\ loop' = [loop EXCEPT ![h] = "releasing"]
  /\ UNCHANGED <<lctx, stopped, active, owner, trigger, hctx, call, calls,
                 resync, todo, phase, result, pending>>

\* run returns: its arguments tenant and ctx are gone with it.
Exit(h) ==
  /\ loop' = [loop EXCEPT ![h] = "none"]
  /\ owner' = [owner EXCEPT ![h] = NoTenant]
  /\ hctx' = [hctx EXCEPT ![h] = "background"]

\* release: forget the loop, unless the map names another one by now.
Release(h) ==
  /\ loop[h] = "releasing"
  /\ active' = IF active[owner[h]] = h THEN [active EXCEPT ![owner[h]] = NoHandle]
                                       ELSE active
  /\ Exit(h)
  /\ UNCHANGED <<lctx, stopped, trigger, call, calls, resync, todo, phase, result,
                 pending>>

\* A spec write resets the window.
Redebounce(h) ==
  /\ loop[h] = "debounce"
  /\ trigger[h]
  /\ trigger' = [trigger EXCEPT ![h] = FALSE]
  /\ UNCHANGED <<lctx, stopped, active, owner, hctx, loop, call, calls, resync,
                 todo, phase, result, pending>>

\* The window has elapsed: listener(PhaseApplying) and Apply begins.
Fire(h) ==
  /\ loop[h] = "debounce"
  /\ loop' = [loop EXCEPT ![h] = "applying"]
  /\ phase' = [phase EXCEPT ![owner[h]] = "applying"]
  /\ result' = [result EXCEPT ![owner[h]] = "none"]
  /\ pending' = [pending EXCEPT ![owner[h]] = FALSE]
  /\ UNCHANGED <<lctx, stopped, active, owner, trigger, hctx, call, calls,
                 resync, todo>>

\* The phase reported for what Apply returned.
Outcome(r) == IF r = "error" THEN "failed" ELSE "applied"

\* Apply returns; only a cancelled context makes it return context.Canceled.
Applied(h, r) ==
  /\ loop[h] = "applying"
  /\ r = "canceled" => Cancelled(h)
  /\ result' = [result EXCEPT ![owner[h]] = r]
  /\ phase' = [phase EXCEPT ![owner[h]] = Outcome(r)]
  /\ loop' = [loop EXCEPT ![h] = "deciding"]
  /\ UNCHANGED <<lctx, stopped, active, owner, trigger, hctx, call, calls,
                 resync, todo, pending>>

\* Mutant of Decide: exit without looking at the trigger channel.
DecideIgnoresTrigger(h) ==
  /\ loop[h] = "deciding"
  /\ active' = [active EXCEPT ![owner[h]] = NoHandle]
  /\ Exit(h)
  /\ UNCHANGED <<lctx, stopped, trigger, call, calls, resync, todo, phase, result,
                 pending>>

\* Mutant of Decide: exit without leaving the map.
DecideStaysInMap(h) ==
  /\ loop[h] = "deciding"
  /\ trigger' = [trigger EXCEPT ![h] = FALSE]
  /\ loop' = [loop EXCEPT ![h] = IF trigger[h] THEN "debounce" ELSE "none"]
  /\ UNCHANGED <<lctx, stopped, active, owner, hctx, call, calls, resync, todo,
                 phase, result, pending>>

\* Mutant of Decide: always go round the loop once more.
DecideAlwaysContinues(h) ==
  /\ loop[h] = "deciding"
  /\ trigger' = [trigger EXCEPT ![h] = FALSE]
  /\ loop' = [loop EXCEPT ![h] = "debounce"]
  /\ UNCHANGED <<lctx, stopped, active, owner, hctx, call, calls, resync, todo,
                 phase, result, pending>>

\* Under q.mu: take a buffered trigger and go on, or leave the map and exit.
Decide(h) ==
  /\ loop[h] = "deciding"
  /\ IF trigger[h]
     THEN /\ trigger' = [trigger EXCEPT ![h] = FALSE]
          /\ loop' = [loop EXCEPT ![h] = "debounce"]
          /\ UNCHANGED <<active, owner, hctx>>
     ELSE /\ active' = [active EXCEPT ![owner[h]] = NoHandle]
          /\ Exit(h)
          /\ UNCHANGED trigger
  /\ UNCHANGED <<lctx, stopped, call, calls, resync, todo, phase, result, pending>>

-----------------------------------------------------------------------------
(* resyncLoop. A tick whose lister fails changes nothing.                  *)

Tick ==
  /\ resync = "wait"
  /\ resync' = "walk"
  /\ todo' = Listed
  /\ UNCHANGED <<lctx, stopped, active, owner, trigger, hctx, loop, call, calls,
                 phase, result, pending>>

ResyncEnqueue(t) ==
  /\ resync = "walk"
  /\ t \in todo
  /\ todo' = todo \ {t}
  /\ Lookup(Resync, t)
  /\ UNCHANGED calls

\* The walk is over: back to the ticker.
ResyncDone ==
  /\ resync = "walk"
  /\ todo = {}
  /\ call[Resync] = Idle
  /\ resync' = "wait"
  /\ UNCHANGED <<lctx, stopped, active, owner, trigger, hctx, loop, call, calls,
                 todo, phase, result, pending>>

\* Mutant of ResyncExit: the ticker loop does not watch its context.
ResyncNeverExits ==
  /\ FALSE
  /\ UNCHANGED vars

ResyncExit ==
  /\ resync = "wait"
  /\ lctx = "cancelled"
  /\ resync' = "off"
  /\ UNCHANGED <<lctx, stopped, active, owner, trigger, hctx, loop, call, calls,
                 todo, phase, result, pending>>

-----------------------------------------------------------------------------
CallStep(p) == Spawn(p) \/ Send(p)

LoopStep(h) ==
  \/ SeeCancel(h)
  \/ Release(h)
  \/ Redebounce(h)
  \/ Fire(h)
  \/ \E r \in Results \ {"none"} : Applied(h, r)
  \/ Decide(h)

ResyncStep ==
  \/ Tick
  \/ \E t \in Tenants : ResyncEnqueue(t)
  \/ ResyncDone
  \/ ResyncExit

Next ==
  \/ Start
  \/ Stop
  \/ StopReturn
  \/ \E c \in Callers, t \in Tenants : Enqueue(c, t)
  \/ \E p \in Procs : CallStep(p)
  \/ \E h \in Handles : LoopStep(h)
  \/ ResyncStep

Spec == Init /\ [][Next]_vars

(***************************************************************************)
(* Fairness.  Goroutines that can run do run (Go's scheduler), a timer     *)
(* fires, Apply returns (tofu runs under a timeout), the lister succeeds   *)
(* again some day.  Select picks at random among ready cases, so the       *)
(* context case of resyncLoop, ready for good once the context is          *)
(* cancelled, is taken in the end: strong fairness.  API callers owe       *)
(* nothing, and make finitely many calls, so that the debounce window is   *)
(* not reset for ever; resync ticks are 5 minutes apart, the window 5s.    *)
(***************************************************************************)
Fairness ==
  /\ \A p \in Procs : WF_vars(CallStep(p))
  /\ \A h \in Handles :
       /\ WF_vars(Fire(h) \/ SeeCancel(h))
       /\ WF_vars(Release(h) \/ Decide(h))
       /\ WF_vars(\E r \in Results \ {"none"} : Applied(h, r))
  /\ WF_vars(Tick)
  /\ \A t \in Tenants : WF_vars(ResyncEnqueue(t))
  /\ WF_vars(ResyncDone)
  /\ SF_vars(ResyncExit)
  /\ WF_vars(StopReturn)

FairSpec == Spec /\ Fairness

-----------------------------------------------------------------------------
(* Properties.                                                             *)

\* Is the goroutine of h between `go run` and its return?
Alive(h) == loop[h] # "none"

\* "A tenant's apply never overlaps itself": two goroutines of run never work
\* for the same tenant, so no two applies of a tenant overlap.
AppliesSerialized ==
  \A g, h \in Handles :
    g # h /\ Alive(g) /\ Alive(h) => owner[g] # owner[h]

\* What the Listener was told last agrees with what the goroutines do: a tenant
\* is reported "applying" exactly while an Apply of it runs, although Enqueue
\* reports "queued" after it has released the mutex.
PhaseMatchesLoop ==
  \A t \in Tenants :
    phase[t] = "applying" <=> \E h \in Handles : owner[h] = t /\ loop[h] = "applying"

\* Something in the queue will lead to an Apply of t that starts from now on: its
\* loop has not fired yet, or a trigger is buffered for it, or is about to be.
Covered(t) ==
  LET h == active[t] IN
  /\ h # NoHandle
  /\ \/ loop[h] \in {"none", "debounce"}
     \/ trigger[h]
     \/ \E p \in Procs : call[p].pc = "send" /\ call[p].handle = h

\* A request that is covered stops being so, with no Apply begun, in two cases
\* only: its loop saw the context cancelled, or an Enqueue had looked the loop up
\* and had not sent its trigger yet when run left the map.  The check of the
\* trigger and the removal from the map in one critical section rule out the rest.
WakeupLostOnlyInSendWindow ==
  [][\A t \in Tenants :
       pending[t] /\ Covered(t) /\ pending'[t] /\ ~Covered(t)'
         => \/ Cancelled(active[t])
            \/ \E p \in Procs : call[p].pc = "send" /\ call[p].handle = active[t]]_vars

\* The package comment: "an Enqueue can never lose a wakeup to an exiting
\* goroutine".  While the queue is not being stopped, every requested
\* reconciliation is covered.
NoLostWakeup ==
  \A t \in Tenants : pending[t] /\ lctx # "cancelled" => Covered(t)

\* Every Enqueue of a listed tenant is followed by an Apply that starts after it,
\* a lost wakeup included (the next resync heals it), unless the queue is stopped.
EventuallyApplied ==
  \A t \in Listed :
    pending[t] /\ lctx = "live" ~> ~pending[t] \/ lctx = "cancelled"

\* Stop returns: after the cancellation all goroutines of the queue exit.
StopTerminates == lctx = "cancelled" ~> stopped

-----------------------------------------------------------------------------
(* Why applies are serialized: the inductive invariant of the proofs.      *)

\* A running goroutine is the one the map names for its tenant.
LoopRegistered ==
  \A h \in Handles : Alive(h) => owner[h] \in Tenants /\ active[owner[h]] = h

\* The handle the map names for a tenant was made for that tenant.
MapOwned ==
  \A t \in Tenants : active[t] # NoHandle => owner[active[t]] = t

\* A handle about to be given its goroutine is in the map and has none yet.
SpawnRegistered ==
  \A p \in Procs :
    call[p].pc = "spawn" =>
      /\ loop[call[p].handle] = "none"
      /\ owner[call[p].handle] = call[p].tenant
      /\ active[call[p].tenant] = call[p].handle

\* No handle is about to be given two goroutines.
SpawnDistinct ==
  \A p, q \in Procs :
    p # q /\ call[p].pc = "spawn" /\ call[q].pc = "spawn"
      => call[p].handle # call[q].handle

\* A goroutine gives up only under a cancelled context.
ReleaseCancelled ==
  \A h \in Handles : loop[h] = "releasing" => Cancelled(h)

\* The map and the goroutines agree, also while Enqueue is between its critical
\* section and `go run`: what makes the per-tenant goroutine "the serialization
\* point".
QueueInv == TypeOK /\ LoopRegistered /\ MapOwned /\ SpawnRegistered /\ SpawnDistinct

-----------------------------------------------------------------------------
(* The queue implements the coalescing scheduler.                          *)

\* Calls that have found a loop and have not sent their trigger.
Senders(t) == {p \in Procs : call[p].pc = "send" /\ call[p].tenant = t}

\* A request waits in the debounce window, or one is buffered behind it.
Unfired(t) == active[t] # NoHandle /\ loop[active[t]] \in {"none", "debounce"}
Buffered(t) == active[t] # NoHandle /\ trigger[active[t]]

Backlog(t) ==
    (IF Unfired(t) THEN 1 ELSE 0)
  + (IF Buffered(t) THEN 1 ELSE 0)
  + Cardinality(Senders(t))

Applying == {t \in Tenants : \E h \in Handles : owner[h] = t /\ loop[h] = "applying"}

Scheduler ==
  INSTANCE CoalescingScheduler WITH
    asking  <- [p \in Procs |-> call[p].tenant],
    backlog <- [t \in Tenants |-> Backlog(t)],
    running <- Applying

\* A trigger on its way goes to a loop of its own tenant, if to any: the handle a
\* caller holds is not given to another tenant.
SendOwned ==
  \A p \in Procs :
    call[p].pc = "send" => \A t \in Tenants : active[t] = call[p].handle => t = call[p].tenant

\* Every step of the queue is a step of the coalescing scheduler or changes
\* nothing it can see: no overlap, no apply without a request, merging only.
ImplementsScheduler == Scheduler!Spec
=============================================================================
