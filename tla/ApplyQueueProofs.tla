-------------------------- MODULE ApplyQueueProofs --------------------------
(***************************************************************************)
(* Proofs about ApplyQueue for any number of tenants, callers and calls.   *)
(* QueueInv is inductive; the other safety properties follow from it.      *)
(***************************************************************************)
EXTENDS ApplyQueue, FiniteSetTheorems, TLAPS

\* What the type of `call` says about a caller that is inside Enqueue.
LEMMA CallFields ==
  ASSUME TypeOK, NEW p \in Procs
  PROVE  /\ call[p].pc \in {"idle", "spawn", "send"}
         /\ call[p].pc = "idle" => call[p] = Idle
         /\ call[p].pc # "idle" => call[p].tenant \in Tenants /\ call[p].handle \in Handles
         /\ call[p].handle \in Handles \union {NoHandle}
  BY DEF TypeOK, CallStates, Idle

\* New puts the queue into a state that satisfies the invariant.
LEMMA InitInv == Init => QueueInv
  <1> SUFFICES ASSUME Init PROVE QueueInv
    OBVIOUS
  <1>1. TypeOK
    <2>1. /\ stopped \in BOOLEAN
          /\ trigger \in [Handles -> BOOLEAN]
          /\ pending \in [Tenants -> BOOLEAN]
      BY Zenon DEF Init
    <2>2. /\ lctx \in {"nil", "live", "cancelled"}
          /\ active \in [Tenants -> Handles \union {NoHandle}]
          /\ owner \in [Handles -> Tenants \union {NoTenant}]
          /\ hctx \in [Handles -> {"background", "lctx"}]
          /\ loop \in [Handles -> LoopStates]
      BY DEF Init, LoopStates
    <2>3. /\ call \in [Procs -> CallStates]
          /\ calls \in 0..MaxCalls
          /\ resync \in {"off", "wait", "walk"}
          /\ todo \in SUBSET Tenants
      BY ConstantsAssumption DEF ConstantsAssumption, Init, CallStates, Idle
    <2>4. /\ phase \in [Tenants -> Phases]
          /\ result \in [Tenants -> Results]
      BY DEF Init, Phases, Results
    <2> QED
      BY <2>1, <2>2, <2>3, <2>4 DEF TypeOK
  <1>2. LoopRegistered
    BY DEF Init, LoopRegistered, Alive
  <1>4. MapOwned
    BY DEF Init, MapOwned
  <1>3. SpawnRegistered /\ SpawnDistinct
    BY DEF Init, SpawnRegistered, SpawnDistinct, Idle
  <1> QED
    BY <1>1, <1>2, <1>3, <1>4 DEF QueueInv

\* Enqueue's critical section keeps the map and the goroutines in agreement.
LEMMA LookupInv ==
  ASSUME QueueInv, NEW p \in Procs, NEW t \in Tenants, Lookup(p, t),
         calls' \in 0..MaxCalls, todo' \in SUBSET Tenants
  PROVE  QueueInv'
  <1> USE ConstantsAssumption DEF ConstantsAssumption, QueueInv
  <1>1. CASE Register(p, t)
    <2>1. PICK h \in Handles :
            /\ Free(h)
            /\ active' = [active EXCEPT ![t] = h]
            /\ owner' = [owner EXCEPT ![h] = t]
            /\ trigger' = [trigger EXCEPT ![h] = FALSE]
            /\ hctx' = [hctx EXCEPT ![h] = IF lctx = "nil" THEN "background" ELSE "lctx"]
            /\ call' = [call EXCEPT ![p] = [pc |-> "spawn", tenant |-> t, handle |-> h]]
      BY <1>1 DEF Register
    <2>2. TypeOK'
      BY <2>1 DEF Lookup, TypeOK, CallStates
    <2>3. LoopRegistered'
      BY <1>1, <2>1 DEF Register, Lookup, TypeOK, LoopRegistered, Alive, Free
    <2>4. SpawnRegistered'
      <3> SUFFICES ASSUME NEW q \in Procs, call'[q].pc = "spawn"
                   PROVE  /\ loop'[call'[q].handle] = "none"
                          /\ owner'[call'[q].handle] = call'[q].tenant
                          /\ active'[call'[q].tenant] = call'[q].handle
        BY DEF SpawnRegistered
      <3>1. CASE q = p
        BY <2>1, <3>1 DEF Lookup, TypeOK, Free
      <3>2. CASE q # p
        <4>1. call'[q] = call[q]
          BY <2>1, <3>2 DEF TypeOK
        <4>2. call[q].handle \in Handles /\ call[q].tenant \in Tenants /\ call[q].handle # h
          BY <2>1, <4>1, CallFields DEF Free
        <4>3. call[q].tenant # t
          BY <1>1, <4>1, <4>2 DEF Register, SpawnRegistered
        <4> QED
          BY <2>1, <4>1, <4>2, <4>3 DEF Lookup, TypeOK, SpawnRegistered
      <3> QED
        BY <3>1, <3>2
    <2>5. SpawnDistinct'
      BY <2>1 DEF TypeOK, SpawnDistinct, Free
    <2>6. MapOwned'
      BY <2>1 DEF TypeOK, MapOwned, Free
    <2> QED
      BY <2>2, <2>3, <2>4, <2>5, <2>6
  <1>2. CASE FindLoop(p, t)
    <2>1. TypeOK'
      BY <1>2 DEF FindLoop, Lookup, TypeOK, CallStates
    <2>2. LoopRegistered' /\ MapOwned'
      BY <1>2 DEF FindLoop, Lookup, LoopRegistered, MapOwned, Alive
    <2>3. SpawnRegistered' /\ SpawnDistinct'
      BY <1>2 DEF FindLoop, Lookup, TypeOK, SpawnRegistered, SpawnDistinct
    <2> QED
      BY <2>1, <2>2, <2>3
  <1> QED
    BY <1>1, <1>2 DEF Lookup

\* The steps of Enqueue outside the critical section.
LEMMA CallStepInv ==
  ASSUME QueueInv, NEW p \in Procs, CallStep(p)
  PROVE  QueueInv'
  <1> USE ConstantsAssumption DEF ConstantsAssumption, QueueInv
  <1>1. CASE Spawn(p)
    <2> DEFINE h == call[p].handle
    <2>0. h \in Handles /\ call[p].tenant \in Tenants
      BY <1>1, CallFields DEF Spawn
    <2>1. TypeOK'
      BY <1>1, <2>0 DEF Spawn, TypeOK, CallStates, LoopStates, Phases
    <2>2. LoopRegistered' /\ MapOwned'
      BY <1>1, <2>0 DEF Spawn, TypeOK, LoopRegistered, MapOwned, SpawnRegistered, Alive
    <2>3. SpawnRegistered'
      <3> SUFFICES ASSUME NEW q \in Procs, call'[q].pc = "spawn"
                   PROVE  /\ loop'[call'[q].handle] = "none"
                          /\ owner'[call'[q].handle] = call'[q].tenant
                          /\ active'[call'[q].tenant] = call'[q].handle
        BY DEF SpawnRegistered
      <3>1. q # p /\ call'[q] = call[q]
        BY <1>1 DEF Spawn, TypeOK, Idle
      <3>2. call[q].handle \in Handles /\ call[q].handle # h
        BY <1>1, <3>1, CallFields DEF Spawn, SpawnDistinct
      <3> QED
        BY <1>1, <3>1, <3>2 DEF Spawn, TypeOK, SpawnRegistered
    <2>4. SpawnDistinct'
      BY <1>1 DEF Spawn, TypeOK, SpawnDistinct, Idle
    <2> QED
      BY <2>1, <2>2, <2>3, <2>4
  <1>2. CASE Send(p)
    <2>1. TypeOK'
      BY <1>2, CallFields DEF Send, TypeOK, CallStates
    <2>2. LoopRegistered' /\ MapOwned'
      BY <1>2 DEF Send, LoopRegistered, MapOwned, Alive
    <2>3. SpawnRegistered' /\ SpawnDistinct'
      BY <1>2 DEF Send, TypeOK, SpawnRegistered, SpawnDistinct, Idle
    <2> QED
      BY <2>1, <2>2, <2>3
  <1> QED
    BY <1>1, <1>2 DEF CallStep

\* The steps of run and release.
LEMMA LoopStepInv ==
  ASSUME QueueInv, NEW h \in Handles, LoopStep(h)
  PROVE  QueueInv'
  <1> USE ConstantsAssumption DEF ConstantsAssumption, QueueInv
  <1>0. Alive(h) /\ owner[h] \in Tenants /\ active[owner[h]] = h
    BY DEF LoopStep, SeeCancel, Release, Redebounce, Fire, Applied, Decide, Alive,
           LoopRegistered
  <1>1. ASSUME SeeCancel(h) \/ Redebounce(h) \/ Fire(h)
               \/ (\E r \in Results \ {"none"} : Applied(h, r))
        PROVE  QueueInv'
    <2>1. TypeOK'
      <3>1. CASE SeeCancel(h)
        BY <1>0, <3>1 DEF SeeCancel, TypeOK, LoopStates
      <3>2. CASE Redebounce(h)
        <4>1. trigger' \in [Handles -> BOOLEAN]
          BY <3>2, Zenon DEF Redebounce, TypeOK
        <4> QED
          BY <3>2, <4>1 DEF Redebounce, TypeOK
      <3>3. CASE Fire(h)
        <4>1. pending' \in [Tenants -> BOOLEAN]
          BY <1>0, <3>3, Zenon DEF Fire, TypeOK
        <4> QED
          BY <1>0, <3>3, <4>1 DEF Fire, TypeOK, LoopStates, Phases, Results
      <3>4. ASSUME NEW r \in Results \ {"none"}, Applied(h, r)
            PROVE  TypeOK'
        BY <1>0, <3>4 DEF Applied, Outcome, TypeOK, LoopStates, Phases, Results
      <3> QED
        BY <1>1, <3>1, <3>2, <3>3, <3>4
    <2>2. LoopRegistered' /\ MapOwned'
      BY <1>0, <1>1 DEF SeeCancel, Redebounce, Fire, Applied, TypeOK, LoopRegistered,
                        MapOwned, Alive
    <2>3. SpawnRegistered'
      BY <1>0, <1>1, CallFields DEF SeeCancel, Redebounce, Fire, Applied, TypeOK,
                                    SpawnRegistered, Alive
    <2>4. SpawnDistinct'
      BY <1>1 DEF SeeCancel, Redebounce, Fire, Applied, SpawnDistinct
    <2> QED
      BY <2>1, <2>2, <2>3, <2>4
  <1>2. ASSUME active' = [active EXCEPT ![owner[h]] = NoHandle], Exit(h),
               UNCHANGED <<lctx, stopped, trigger, call, calls, resync, todo, phase,
                           result, pending>>
        PROVE  QueueInv'
    <2>1. TypeOK'
      BY <1>0, <1>2 DEF Exit, TypeOK, LoopStates
    <2>2. LoopRegistered' /\ MapOwned'
      BY <1>0, <1>2 DEF Exit, TypeOK, LoopRegistered, MapOwned, Alive
    <2>3. SpawnRegistered'
      <3> SUFFICES ASSUME NEW q \in Procs, call[q].pc = "spawn"
                   PROVE  /\ loop'[call[q].handle] = "none"
                          /\ owner'[call[q].handle] = call[q].tenant
                          /\ active'[call[q].tenant] = call[q].handle
        BY <1>2 DEF SpawnRegistered
      <3>1. call[q].handle \in Handles /\ call[q].tenant \in Tenants /\ call[q].handle # h
        BY <1>0, CallFields DEF SpawnRegistered, Alive
      <3>2. call[q].tenant # owner[h]
        BY <1>0, <3>1 DEF SpawnRegistered
      <3> QED
        BY <1>0, <1>2, <3>1, <3>2 DEF Exit, TypeOK, SpawnRegistered
    <2>4. SpawnDistinct'
      BY <1>2 DEF SpawnDistinct
    <2> QED
      BY <2>1, <2>2, <2>3, <2>4
  <1>3. CASE Release(h)
    BY <1>0, <1>2, <1>3 DEF Release
  <1>4. CASE Decide(h) /\ ~trigger[h]
    BY <1>2, <1>4 DEF Decide
  <1>5. CASE Decide(h) /\ trigger[h]
    <2>1. TypeOK'
      <3>1. trigger' \in [Handles -> BOOLEAN]
        BY <1>5, Zenon DEF Decide, TypeOK
      <3> QED
        BY <1>0, <1>5, <3>1 DEF Decide, TypeOK, LoopStates
    <2>2. LoopRegistered' /\ MapOwned'
      BY <1>0, <1>5 DEF Decide, TypeOK, LoopRegistered, MapOwned, Alive
    <2>3. SpawnRegistered'
      BY <1>0, <1>5, CallFields DEF Decide, TypeOK, SpawnRegistered, Alive
    <2>4. SpawnDistinct'
      BY <1>5 DEF Decide, SpawnDistinct
    <2> QED
      BY <2>1, <2>2, <2>3, <2>4
  <1> QED
    BY <1>1, <1>3, <1>4, <1>5 DEF LoopStep

\* Every step of the queue preserves the invariant.
LEMMA NextInv == QueueInv /\ [Next]_vars => QueueInv'
  <1> SUFFICES ASSUME QueueInv, [Next]_vars PROVE QueueInv'
    OBVIOUS
  <1>1. CASE Start \/ Stop \/ StopReturn
    <2>1. stopped' \in BOOLEAN
      BY <1>1, Zenon DEF Start, Stop, StopReturn, QueueInv, TypeOK
    <2>2. UNCHANGED <<active, owner, trigger, hctx, loop, call, calls, todo, phase,
                      result, pending>>
      BY <1>1 DEF Start, Stop, StopReturn
    <2>3. lctx' \in {"nil", "live", "cancelled"} /\ resync' \in {"off", "wait", "walk"}
      BY <1>1 DEF Start, Stop, StopReturn, QueueInv, TypeOK
    <2> QED
      BY <2>1, <2>2, <2>3 DEF QueueInv, TypeOK, LoopRegistered, MapOwned, SpawnRegistered,
                              SpawnDistinct, Alive
  <1>2. ASSUME NEW c \in Callers, NEW t \in Tenants, Enqueue(c, t)
        PROVE  QueueInv'
    <2>1. c \in Procs /\ Lookup(c, t) /\ calls' \in 0..MaxCalls /\ todo' \in SUBSET Tenants
      BY <1>2, ConstantsAssumption DEF ConstantsAssumption, Enqueue, Procs, QueueInv, TypeOK
    <2> QED
      BY <2>1, LookupInv
  <1>3. ASSUME NEW p \in Procs, CallStep(p)
        PROVE  QueueInv'
    BY <1>3, CallStepInv
  <1>4. ASSUME NEW h \in Handles, LoopStep(h)
        PROVE  QueueInv'
    BY <1>4, LoopStepInv
  <1>5. ASSUME NEW t \in Tenants, ResyncEnqueue(t)
        PROVE  QueueInv'
    <2>1. Resync \in Procs /\ Lookup(Resync, t) /\ calls' \in 0..MaxCalls /\ todo' \in SUBSET Tenants
      BY <1>5, ConstantsAssumption DEF ConstantsAssumption, ResyncEnqueue, Procs, QueueInv, TypeOK
    <2> QED
      BY <2>1, LookupInv
  <1>6. CASE Tick \/ ResyncDone \/ ResyncExit
    BY <1>6, ConstantsAssumption
       DEF ConstantsAssumption, Tick, ResyncDone, ResyncExit, QueueInv, TypeOK, LoopRegistered, MapOwned,
           SpawnRegistered, SpawnDistinct, Alive
  <1>7. CASE UNCHANGED vars
    BY <1>7 DEF vars, QueueInv, TypeOK, LoopRegistered, MapOwned, SpawnRegistered,
                SpawnDistinct, Alive
  <1> QED
    BY <1>1, <1>2, <1>3, <1>4, <1>5, <1>6, <1>7 DEF Next, ResyncStep

\* The map and the goroutines agree in every reachable state of the queue.
THEOREM QueueInvariant == Spec => []QueueInv
  BY InitInv, NextInv, PTL DEF Spec

\* Every variable of the queue stays in its range.
THEOREM TypeCorrect == Spec => []TypeOK
  <1>1. QueueInv => TypeOK
    BY DEF QueueInv
  <1> QED
    BY <1>1, QueueInvariant, PTL

\* queue.go: "a tenant's apply never overlaps itself".  For any number of tenants
\* and of concurrent Enqueue calls, two goroutines never serve the same tenant.
THEOREM Serialization == Spec => []AppliesSerialized
  <1>1. QueueInv => AppliesSerialized
    BY DEF QueueInv, LoopRegistered, AppliesSerialized, Alive
  <1> QED
    BY <1>1, QueueInvariant, PTL

\* A step that leaves owner, loop and phase alone keeps the reported phase right.
LEMMA PhaseUnchanged ==
  ASSUME PhaseMatchesLoop, UNCHANGED <<owner, loop, phase>>
  PROVE  PhaseMatchesLoop'
  BY DEF PhaseMatchesLoop

\* Every step keeps the reported phase in agreement with the goroutines: here the
\* serialization is needed, a second goroutine would report over the first one.
LEMMA PhaseStep ==
  ASSUME QueueInv, PhaseMatchesLoop, [Next]_vars
  PROVE  PhaseMatchesLoop'
  <1> USE DEF QueueInv
  <1>1. ASSUME NEW p \in Procs, NEW t \in Tenants, Lookup(p, t)
        PROVE  PhaseMatchesLoop'
    <2>1. CASE Register(p, t)
      <3>1. PICK h \in Handles : Free(h) /\ owner' = [owner EXCEPT ![h] = t]
        BY <2>1 DEF Register
      <3>2. loop[h] = "none" /\ UNCHANGED <<loop, phase>>
        BY <1>1, <3>1 DEF Lookup, Free
      <3> QED
        BY <3>1, <3>2 DEF PhaseMatchesLoop, TypeOK
    <2>2. CASE FindLoop(p, t)
      BY <1>1, <2>2, PhaseUnchanged DEF FindLoop, Lookup
    <2> QED
      BY <1>1, <2>1, <2>2 DEF Lookup
  <1>2. ASSUME NEW p \in Procs, Spawn(p)
        PROVE  PhaseMatchesLoop'
    <2> DEFINE h == call[p].handle
               t == call[p].tenant
    <2>1. h \in Handles /\ t \in Tenants
      BY <1>2, CallFields DEF Spawn
    <2>2. loop[h] = "none" /\ owner[h] = t /\ active[t] = h
      BY <1>2 DEF Spawn, SpawnRegistered
    <2>3. \A g \in Handles : owner[g] = t => loop[g] = "none"
      BY <2>2 DEF LoopRegistered, Alive
    <2> QED
      BY <1>2, <2>1, <2>2, <2>3 DEF Spawn, PhaseMatchesLoop, TypeOK
  <1>3. ASSUME NEW p \in Procs, Send(p)
        PROVE  PhaseMatchesLoop'
    BY <1>3, PhaseUnchanged DEF Send
  <1>4. ASSUME NEW h \in Handles, LoopStep(h)
        PROVE  PhaseMatchesLoop'
    <2>1. loop[h] # "none" /\ owner[h] \in Tenants /\ active[owner[h]] = h
      BY <1>4 DEF LoopStep, SeeCancel, Release, Redebounce, Fire, Applied, Decide, Alive,
                  LoopRegistered
    <2>2. \A g \in Handles : g # h /\ owner[g] = owner[h] => loop[g] = "none"
      BY <2>1 DEF LoopRegistered, Alive
    <2>3. CASE SeeCancel(h)
      BY <2>1, <2>3 DEF SeeCancel, PhaseMatchesLoop, TypeOK
    <2>4. ASSUME Exit(h), loop[h] # "applying", UNCHANGED phase
          PROVE  PhaseMatchesLoop'
      BY <2>1, <2>4 DEF Exit, PhaseMatchesLoop, TypeOK
    <2>5. CASE Release(h)
      BY <2>4, <2>5 DEF Release
    <2>6. CASE Redebounce(h)
      BY <2>6, PhaseUnchanged DEF Redebounce
    <2>7. CASE Fire(h)
      BY <2>1, <2>7 DEF Fire, PhaseMatchesLoop, TypeOK
    <2>8. ASSUME NEW r \in Results \ {"none"}, Applied(h, r)
          PROVE  PhaseMatchesLoop'
      <3>1. Outcome(r) # "applying"
        BY DEF Outcome
      <3>2. /\ loop' = [loop EXCEPT ![h] = "deciding"]
            /\ phase' = [phase EXCEPT ![owner[h]] = Outcome(r)]
            /\ owner' = owner
        BY <2>8 DEF Applied
      <3>3. SUFFICES ASSUME NEW t \in Tenants
                     PROVE  phase'[t] = "applying" <=>
                              \E g \in Handles : owner[g] = t /\ loop'[g] = "applying"
        BY <3>2 DEF PhaseMatchesLoop
      <3>4. CASE t = owner[h]
        BY <2>1, <2>2, <3>1, <3>2, <3>4 DEF TypeOK
      <3>5. CASE t # owner[h]
        BY <2>1, <3>2, <3>5 DEF PhaseMatchesLoop, TypeOK
      <3> QED
        BY <3>4, <3>5
    <2>9. CASE Decide(h)
      <3>1. CASE trigger[h]
        BY <2>1, <2>9, <3>1 DEF Decide, PhaseMatchesLoop, TypeOK
      <3>2. CASE ~trigger[h]
        BY <2>4, <2>9, <3>2 DEF Decide
      <3> QED
        BY <3>1, <3>2
    <2> QED
      BY <1>4, <2>3, <2>5, <2>6, <2>7, <2>8, <2>9 DEF LoopStep
  <1>5. CASE \/ Start \/ Stop \/ StopReturn \/ Tick \/ ResyncDone \/ ResyncExit
             \/ UNCHANGED vars
    BY <1>5, PhaseUnchanged
       DEF Start, Stop, StopReturn, Tick, ResyncDone, ResyncExit, vars
  <1> QED
    BY <1>1, <1>2, <1>3, <1>4, <1>5
       DEF Next, Enqueue, CallStep, ResyncStep, ResyncEnqueue, Procs

\* A tenant is reported "applying" exactly while an Apply of it runs, whatever the
\* order in which Enqueue and the loop call the Listener.
THEOREM PhaseAgreement == Spec => []PhaseMatchesLoop
  <1>1. Init => PhaseMatchesLoop
    BY DEF Init, PhaseMatchesLoop
  <1>2. QueueInv /\ PhaseMatchesLoop /\ [Next]_vars => PhaseMatchesLoop'
    BY PhaseStep
  <1> QED
    BY <1>1, <1>2, QueueInvariant, PTL DEF Spec

\* A goroutine reaches release only after its context was cancelled, for good.
THEOREM ReleaseOnlyCancelled == Spec => []ReleaseCancelled
  <1>1. Init => ReleaseCancelled
    BY DEF Init, ReleaseCancelled
  <1>2. QueueInv /\ ReleaseCancelled /\ [Next]_vars => ReleaseCancelled'
    <2> SUFFICES ASSUME QueueInv, ReleaseCancelled, [Next]_vars,
                        NEW h \in Handles, loop'[h] = "releasing"
                 PROVE  hctx'[h] = "lctx" /\ lctx' = "cancelled"
      BY DEF ReleaseCancelled, Cancelled
    <2> USE DEF QueueInv
    <2>0. loop[h] = "releasing" => hctx[h] = "lctx" /\ lctx = "cancelled"
      BY DEF ReleaseCancelled, Cancelled
    <2>1. ASSUME NEW p \in Procs, NEW t \in Tenants, Lookup(p, t)
          PROVE  hctx'[h] = "lctx" /\ lctx' = "cancelled"
      <3>1. loop[h] = "releasing" /\ lctx' = lctx
        BY <2>1 DEF Lookup
      <3>2. CASE Register(p, t)
        BY <2>0, <3>1, <3>2 DEF Register, Free, TypeOK
      <3>3. CASE FindLoop(p, t)
        BY <2>0, <3>1, <3>3 DEF FindLoop
      <3> QED
        BY <2>1, <3>2, <3>3 DEF Lookup
    <2>2. ASSUME NEW p \in Procs, CallStep(p)
          PROVE  hctx'[h] = "lctx" /\ lctx' = "cancelled"
      <3>1. call[p].handle \in Handles
        BY <2>2, CallFields DEF CallStep, Spawn, Send
      <3> QED
        BY <2>0, <2>2, <3>1 DEF CallStep, Spawn, Send, TypeOK
    <2>3. ASSUME NEW g \in Handles, LoopStep(g)
          PROVE  hctx'[h] = "lctx" /\ lctx' = "cancelled"
      BY <2>0, <2>3 DEF LoopStep, SeeCancel, Release, Exit, Redebounce, Fire, Applied,
                        Decide, Cancelled, TypeOK
    <2>4. CASE \/ Start \/ Stop \/ StopReturn \/ Tick \/ ResyncDone \/ ResyncExit
               \/ UNCHANGED vars
      BY <2>0, <2>4 DEF Start, Stop, StopReturn, Tick, ResyncDone, ResyncExit, vars
    <2> QED
      BY <2>1, <2>2, <2>3, <2>4 DEF Next, Enqueue, ResyncStep, ResyncEnqueue, Procs
  <1> QED
    BY <1>1, <1>2, QueueInvariant, PTL DEF Spec

\* The only window in which run may drop a request is the one between the unlock
\* and the send of an Enqueue (or a cancelled context), for any number of callers.
THEOREM WakeupWindow == Spec => WakeupLostOnlyInSendWindow
  <1> DEFINE Window ==
        \A t \in Tenants :
          pending[t] /\ Covered(t) /\ pending'[t] /\ ~Covered(t)'
            => \/ Cancelled(active[t])
               \/ \E p \in Procs : call[p].pc = "send" /\ call[p].handle = active[t]
  <1>1. QueueInv /\ ReleaseCancelled /\ [Next]_vars => [Window]_vars
    <2> SUFFICES ASSUME QueueInv, ReleaseCancelled, Next,
                        NEW t \in Tenants,
                        pending[t], Covered(t), pending'[t], ~Covered(t)',
                        ~Cancelled(active[t]),
                        \A p \in Procs : ~(call[p].pc = "send" /\ call[p].handle = active[t])
                 PROVE  FALSE
      OBVIOUS
    <2> USE DEF QueueInv
    <2> DEFINE h == active[t]
    <2>0. h \in Handles /\ (loop[h] \in {"none", "debounce"} \/ trigger[h])
      BY ConstantsAssumption DEF ConstantsAssumption, Covered, TypeOK
    <2>1. ASSUME active'[t] = h, loop'[h] \in {"none", "debounce"} \/ trigger'[h]
          PROVE  FALSE
      BY <2>0, <2>1, ConstantsAssumption DEF ConstantsAssumption, Covered
    <2>2. CASE UNCHANGED <<active, loop, trigger>>
      BY <2>0, <2>1, <2>2
    <2>3. ASSUME NEW p \in Procs, NEW s \in Tenants, Lookup(p, s)
          PROVE  FALSE
      <3>1. CASE Register(p, s)
        <4>1. PICK g \in Handles : /\ Free(g)
                                   /\ active' = [active EXCEPT ![s] = g]
                                   /\ trigger' = [trigger EXCEPT ![g] = FALSE]
          BY <3>1 DEF Register
        <4>2. s # t /\ g # h
          BY <2>0, <3>1, <4>1, ConstantsAssumption DEF ConstantsAssumption, Register, Free
        <4> QED
          BY <2>0, <2>1, <2>3, <4>1, <4>2 DEF Lookup, TypeOK
      <3>2. CASE FindLoop(p, s)
        BY <2>2, <2>3, <3>2 DEF FindLoop, Lookup
      <3> QED
        BY <2>3, <3>1, <3>2 DEF Lookup
    <2>4. ASSUME NEW p \in Procs, CallStep(p)
          PROVE  FALSE
      <3>0. call[p].handle \in Handles
        BY <2>4, CallFields DEF CallStep, Spawn, Send
      <3>1. CASE Spawn(p)
        BY <2>0, <2>1, <3>0, <3>1 DEF Spawn, TypeOK
      <3>2. CASE Send(p)
        BY <2>0, <2>1, <3>0, <3>2 DEF Send, TypeOK
      <3> QED
        BY <2>4, <3>1, <3>2 DEF CallStep
    <2>5. ASSUME NEW g \in Handles, LoopStep(g)
          PROVE  FALSE
      <3>0. loop[g] # "none" /\ owner[g] \in Tenants /\ active[owner[g]] = g
        BY <2>5 DEF LoopStep, SeeCancel, Release, Redebounce, Fire, Applied, Decide, Alive,
                    LoopRegistered
      <3>1. CASE g # h
        <4>1. owner[g] # t
          BY <3>0, <3>1
        <4>2. /\ active'[t] = h
              /\ loop'[h] = loop[h]
              /\ trigger'[h] = trigger[h]
          BY <2>0, <2>5, <3>0, <3>1, <4>1
             DEF LoopStep, SeeCancel, Release, Exit, Redebounce, Fire, Applied, Decide, TypeOK
        <4> QED
          BY <2>0, <2>1, <4>2
      <3>2. CASE g = h
        <4>1. CASE SeeCancel(g)
          BY <3>2, <4>1 DEF SeeCancel
        <4>2. CASE Release(g)
          BY <2>0, <3>2, <4>2 DEF Release, ReleaseCancelled
        <4>3. CASE Redebounce(g)
          <5>1. loop'[h] = "debounce" /\ active'[t] = h
            BY <3>2, <4>3 DEF Redebounce
          <5> QED
            BY <2>1, <5>1
        <4>4. CASE Fire(g)
          BY <2>0, <3>0, <3>2, <4>4, ConstantsAssumption
             DEF ConstantsAssumption, Fire, TypeOK, MapOwned
        <4>5. ASSUME NEW r \in Results \ {"none"}, Applied(g, r)
              PROVE  FALSE
          BY <2>0, <2>1, <3>2, <4>5 DEF Applied
        <4>6. CASE Decide(g)
          BY <2>0, <2>1, <3>2, <4>6 DEF Decide, TypeOK
        <4> QED
          BY <2>5, <4>1, <4>2, <4>3, <4>4, <4>5, <4>6 DEF LoopStep
      <3> QED
        BY <3>1, <3>2
    <2>6. CASE \/ Start \/ Stop \/ StopReturn \/ Tick \/ ResyncDone \/ ResyncExit
      BY <2>2, <2>6 DEF Start, Stop, StopReturn, Tick, ResyncDone, ResyncExit
    <2> QED
      BY <2>3, <2>4, <2>5, <2>6 DEF Next, Enqueue, ResyncStep, ResyncEnqueue, Procs
  <1>2. [][Window]_vars => WakeupLostOnlyInSendWindow
    BY DEF WakeupLostOnlyInSendWindow
  <1> QED
    BY <1>1, <1>2, QueueInvariant, ReleaseOnlyCancelled, PTL DEF Spec

-----------------------------------------------------------------------------
(***************************************************************************)
(* The queue implements the coalescing scheduler.  First, what the steps   *)
(* of the scheduler are when its state is read off the queue's.            *)
(***************************************************************************)

\* A call comes in: its caller asks, and its tenant has one request more.
LEMMA AsRequest ==
  ASSUME NEW p \in Procs, NEW t \in Tenants,
         call[p].tenant = NoTenant,
         \A q \in Procs : call'[q].tenant = IF q = p THEN t ELSE call[q].tenant,
         \A u \in Tenants : Backlog(u)' = IF u = t THEN Backlog(t) + 1 ELSE Backlog(u),
         Applying' = Applying
  PROVE  Scheduler!Request(p, t)
  BY DEF Scheduler!Request

\* A call returns: its request stands, or there is one request fewer.
LEMMA AsReturn ==
  ASSUME NEW p \in Procs, NEW t \in Tenants, call[p].tenant = t, t # NoTenant,
         \A q \in Procs : call'[q].tenant = IF q = p THEN NoTenant ELSE call[q].tenant,
         \A u \in Tenants : u # t => Backlog(u)' = Backlog(u),
         Backlog(t) \in Nat, Backlog(t)' \in Nat,
         Backlog(t)' = Backlog(t) \/ Backlog(t)' = Backlog(t) - 1,
         Applying' = Applying
  PROVE  Scheduler!Return(p)
  <1> DEFINE B == [u \in Tenants |-> Backlog(u)]
  <1>1. CASE Backlog(t)' = Backlog(t)
    BY <1>1 DEF Scheduler!Return
  <1>2. CASE Backlog(t)' = Backlog(t) - 1
    <2>1. B' = [B EXCEPT ![t] = @ - 1]
      BY <1>2
    <2>2. CASE Backlog(t) > 1
      <3>1. Scheduler!Merge(t)
        BY <2>1, <2>2 DEF Scheduler!Merge
      <3> QED BY <3>1 DEF Scheduler!Return
    <2>3. CASE Backlog(t) = 1
      <3>1. Scheduler!Lose(t)
        BY <2>1, <2>3 DEF Scheduler!Lose
      <3> QED BY <3>1 DEF Scheduler!Return
    <2> QED BY <1>2, <2>2, <2>3
  <1> QED BY <1>1, <1>2

\* The loop of a tenant takes one request away without a run.
LEMMA AsDrop ==
  ASSUME NEW t \in Tenants,
         \A q \in Procs : call'[q].tenant = call[q].tenant,
         \A u \in Tenants : u # t => Backlog(u)' = Backlog(u),
         Backlog(t) \in Nat, Backlog(t)' \in Nat, Backlog(t)' = Backlog(t) - 1,
         Applying' = Applying
  PROVE  Scheduler!Drop(t)
  <1> DEFINE B == [u \in Tenants |-> Backlog(u)]
  <1>1. B' = [B EXCEPT ![t] = @ - 1]
    OBVIOUS
  <1>2. CASE Backlog(t) > 1
    BY <1>1, <1>2 DEF Scheduler!Drop, Scheduler!Merge
  <1>3. CASE Backlog(t) = 1
    BY <1>1, <1>3 DEF Scheduler!Drop, Scheduler!Lose
  <1> QED BY <1>2, <1>3

\* A run starts, paid for by a request.
LEMMA AsBegin ==
  ASSUME NEW t \in Tenants, t \notin Applying, Applying' = Applying \union {t},
         \A q \in Procs : call'[q].tenant = call[q].tenant,
         \A u \in Tenants : u # t => Backlog(u)' = Backlog(u),
         Backlog(t) \in Nat, Backlog(t)' \in Nat, Backlog(t)' = Backlog(t) - 1
  PROVE  Scheduler!Begin(t)
  <1> DEFINE B == [u \in Tenants |-> Backlog(u)]
  <1>1. B' = [B EXCEPT ![t] = @ - 1]
    OBVIOUS
  <1>2. Backlog(t) > 0
    OBVIOUS
  <1> QED BY <1>1, <1>2 DEF Scheduler!Begin

\* A run ends.
LEMMA AsFinish ==
  ASSUME NEW t \in Tenants, t \in Applying, Applying' = Applying \ {t},
         \A q \in Procs : call'[q].tenant = call[q].tenant,
         \A u \in Tenants : Backlog(u)' = Backlog(u)
  PROVE  Scheduler!Finish(t)
  BY DEF Scheduler!Finish

\* Nothing the scheduler sees changes.
LEMMA AsStutter ==
  ASSUME \A q \in Procs : call'[q].tenant = call[q].tenant,
         \A u \in Tenants : Backlog(u)' = Backlog(u),
         Applying' = Applying
  PROVE  UNCHANGED Scheduler!schedVars
  BY DEF Scheduler!schedVars

\* There are finitely many callers, so the requests of a tenant can be counted.
LEMMA BacklogType ==
  ASSUME NEW t \in Tenants
  PROVE  /\ IsFiniteSet(Senders(t)) /\ Cardinality(Senders(t)) \in Nat
         /\ Backlog(t) \in Nat
  <1>1. IsFiniteSet(Procs)
    BY HandleSupply, FS_AddElement DEF HandleSupply, Procs
  <1>2. Senders(t) \in SUBSET Procs
    BY DEF Senders
  <1>3. IsFiniteSet(Senders(t))
    BY <1>1, <1>2, FS_Subset
  <1>4. Cardinality(Senders(t)) \in Nat
    BY <1>3, FS_CardinalityType
  <1> QED BY <1>3, <1>4 DEF Backlog

\* The same in the next state.
LEMMA BacklogTypeNext ==
  ASSUME NEW t \in Tenants
  PROVE  /\ IsFiniteSet(Senders(t)') /\ Cardinality(Senders(t)') \in Nat
         /\ Backlog(t)' \in Nat
  <1>1. IsFiniteSet(Procs)
    BY HandleSupply, FS_AddElement DEF HandleSupply, Procs
  <1>2. Senders(t)' \in SUBSET Procs
    BY DEF Senders
  <1>3. IsFiniteSet(Senders(t)')
    BY <1>1, <1>2, FS_Subset
  <1>4. Cardinality(Senders(t)') \in Nat
    BY <1>3, FS_CardinalityType
  <1> QED BY <1>3, <1>4 DEF Backlog

\* A caller that begins or ends its wait before the send.
LEMMA SendersStep ==
  ASSUME NEW t \in Tenants, NEW p \in Procs
  PROVE  /\ p \notin Senders(t) /\ Senders(t)' = Senders(t) \union {p}
              => Cardinality(Senders(t)') = Cardinality(Senders(t)) + 1
         /\ p \in Senders(t) /\ Senders(t)' = Senders(t) \ {p}
              => Cardinality(Senders(t)') = Cardinality(Senders(t)) - 1
  BY BacklogType, FS_AddElement, FS_RemoveElement

\* The parts of a backlog that a step leaves alone.
LEMMA BacklogParts ==
  ASSUME NEW t \in Tenants
  PROVE  /\ /\ Unfired(t)' <=> Unfired(t)
            /\ Buffered(t)' <=> Buffered(t)
            /\ Senders(t)' = Senders(t)
            => Backlog(t)' = Backlog(t)
         /\ /\ Unfired(t) /\ ~Unfired(t)'
            /\ Buffered(t)' <=> Buffered(t)
            /\ Senders(t)' = Senders(t)
            => Backlog(t)' = Backlog(t) - 1
         /\ /\ ~Unfired(t) /\ Unfired(t)'
            /\ Buffered(t)' <=> Buffered(t)
            /\ Senders(t)' = Senders(t)
            => Backlog(t)' = Backlog(t) + 1
         /\ /\ Unfired(t)' <=> Unfired(t)
            /\ Buffered(t) /\ ~Buffered(t)'
            /\ Senders(t)' = Senders(t)
            => Backlog(t)' = Backlog(t) - 1
         /\ /\ ~Unfired(t) /\ Unfired(t)'
            /\ Buffered(t) /\ ~Buffered(t)'
            /\ Senders(t)' = Senders(t)
            => Backlog(t)' = Backlog(t)
  <1>1. Cardinality(Senders(t)) \in Nat
    BY BacklogType
  <1>2. Backlog(t) = (IF Unfired(t) THEN 1 ELSE 0) + (IF Buffered(t) THEN 1 ELSE 0)
                       + Cardinality(Senders(t))
    BY DEF Backlog
  <1>3. Backlog(t)' = (IF Unfired(t)' THEN 1 ELSE 0) + (IF Buffered(t)' THEN 1 ELSE 0)
                        + Cardinality(Senders(t)')
    BY DEF Backlog
  <1>4. Senders(t)' = Senders(t) => Cardinality(Senders(t)') = Cardinality(Senders(t))
    OBVIOUS
  <1> QED BY <1>1, <1>2, <1>3, <1>4

\* The handle an Enqueue sends to stays with its tenant.
LEMMA SendOwnedStep ==
  ASSUME QueueInv, SendOwned, [Next]_vars
  PROVE  SendOwned'
  <1> USE DEF QueueInv
  <1>1. ASSUME NEW p \in Procs, NEW t \in Tenants, Lookup(p, t)
        PROVE  SendOwned'
    <2>1. CASE Register(p, t)
      <3>1. PICK h \in Handles :
              /\ Free(h)
              /\ active' = [active EXCEPT ![t] = h]
              /\ call' = [call EXCEPT ![p] = [pc |-> "spawn", tenant |-> t, handle |-> h]]
        BY <2>1 DEF Register
      <3> QED BY <3>1 DEF SendOwned, TypeOK, Free
    <2>2. CASE FindLoop(p, t)
      BY <2>2 DEF FindLoop, SendOwned, TypeOK, MapOwned
    <2> QED BY <1>1, <2>1, <2>2 DEF Lookup
  <1>2. ASSUME NEW p \in Procs, CallStep(p)
        PROVE  SendOwned'
    BY <1>2 DEF CallStep, Spawn, Send, Idle, SendOwned, TypeOK
  <1>3. ASSUME NEW h \in Handles, LoopStep(h)
        PROVE  SendOwned'
    <2>1. call' = call /\ \A t \in Tenants : active'[t] \in {active[t], NoHandle}
      BY <1>3 DEF LoopStep, SeeCancel, Release, Exit, Redebounce, Fire, Applied, Decide, TypeOK
    <2>2. \A q \in Procs : call[q].pc = "send" => call[q].handle # NoHandle
      BY CallFields, ConstantsAssumption DEF ConstantsAssumption
    <2> QED BY <2>1, <2>2 DEF SendOwned
  <1>4. CASE UNCHANGED <<active, call>>
    BY <1>4 DEF SendOwned
  <1> HIDE DEF QueueInv
  <1>5. CASE Start \/ Stop \/ StopReturn \/ Tick \/ ResyncDone \/ ResyncExit \/ UNCHANGED vars
    BY <1>4, <1>5 DEF Start, Stop, StopReturn, Tick, ResyncDone, ResyncExit, vars
  <1> QED
    BY <1>1, <1>2, <1>3, <1>5 DEF Next, Enqueue, ResyncStep, ResyncEnqueue, Procs

\* What one tenant's goroutine does is nothing to the backlog of another.
LEMMA OtherTenants ==
  ASSUME QueueInv, NEW h \in Handles, NEW t \in Tenants, active[t] = h,
         \A u \in Tenants : u # t => active'[u] = active[u],
         \A g \in Handles : g # h => loop'[g] = loop[g] /\ trigger'[g] = trigger[g],
         NEW u \in Tenants, u # t, Senders(u)' = Senders(u)
  PROVE  Backlog(u)' = Backlog(u)
  <1>1. active'[u] = active[u] /\ active[u] # h /\ active[u] \in Handles \union {NoHandle}
    BY ConstantsAssumption DEF ConstantsAssumption, QueueInv, TypeOK, MapOwned
  <1>2. /\ Unfired(u)' <=> Unfired(u)
        /\ Buffered(u)' <=> Buffered(u)
    BY <1>1 DEF Unfired, Buffered
  <1> QED BY <1>2, BacklogParts

\* Enqueue's critical section is a request.
LEMMA LookupIsRequest ==
  ASSUME QueueInv, NEW p \in Procs, NEW t \in Tenants, Lookup(p, t)
  PROVE  Scheduler!Request(p, t)
  <1>0. TypeOK /\ MapOwned /\ call[p] = Idle /\ loop' = loop
    BY DEF QueueInv, Lookup
  <1>1. call[p].tenant = NoTenant /\ call[p].pc = "idle"
    BY <1>0 DEF Idle
  <1>2. \A u \in Tenants : p \notin Senders(u)
    BY <1>1 DEF Senders
  <1>3. CASE Register(p, t)
    <2>1. PICK h \in Handles :
            /\ Free(h)
            /\ active' = [active EXCEPT ![t] = h]
            /\ owner' = [owner EXCEPT ![h] = t]
            /\ trigger' = [trigger EXCEPT ![h] = FALSE]
            /\ call' = [call EXCEPT ![p] = [pc |-> "spawn", tenant |-> t, handle |-> h]]
      BY <1>3 DEF Register
    <2>2. /\ call'[p].pc = "spawn" /\ call'[p].tenant = t
          /\ \A q \in Procs : q # p => call'[q] = call[q]
      BY <1>0, <2>1 DEF TypeOK
    <2>3. \A u \in Tenants : Senders(u)' = Senders(u)
      BY <1>1, <2>2 DEF Senders
    <2>4. h # NoHandle /\ loop[h] = "none" /\ active[t] = NoHandle /\ \A u \in Tenants : active[u] # h
      BY <1>3, <2>1, ConstantsAssumption DEF ConstantsAssumption, Register, Free
    <2>5. /\ active'[t] = h /\ \A u \in Tenants : u # t => active'[u] = active[u]
          /\ trigger'[h] = FALSE /\ \A g \in Handles : g # h => trigger'[g] = trigger[g]
      BY <1>0, <2>1 DEF TypeOK
    <2>6. ~Unfired(t) /\ Unfired(t)' /\ ~Buffered(t) /\ ~Buffered(t)'
      BY <1>0, <2>4, <2>5 DEF Unfired, Buffered
    <2>7. Backlog(t)' = Backlog(t) + 1
      BY <2>3, <2>6, BacklogParts
    <2>8. ASSUME NEW u \in Tenants, u # t
          PROVE  Backlog(u)' = Backlog(u)
      <3>1. active'[u] = active[u] /\ active[u] # h /\ active[u] \in Handles \union {NoHandle}
        BY <1>0, <2>4, <2>5, <2>8 DEF TypeOK
      <3>2. /\ Unfired(u)' <=> Unfired(u)
            /\ Buffered(u)' <=> Buffered(u)
        BY <1>0, <2>5, <3>1 DEF Unfired, Buffered
      <3> QED BY <2>3, <3>2, BacklogParts
    <2>9. Applying' = Applying
      <3>1. \A g \in Handles : loop[g] = "applying" => owner'[g] = owner[g]
        BY <1>0, <2>1, <2>4 DEF TypeOK
      <3> QED BY <1>0, <3>1 DEF Applying
    <2> QED BY <1>1, <2>2, <2>7, <2>8, <2>9, AsRequest
  <1>4. CASE FindLoop(p, t)
    <2>1. /\ call' = [call EXCEPT ![p] = [pc |-> "send", tenant |-> t, handle |-> active[t]]]
          /\ UNCHANGED <<active, owner, trigger, hctx>>
      BY <1>4 DEF FindLoop
    <2>2. /\ call'[p].pc = "send" /\ call'[p].tenant = t
          /\ \A q \in Procs : q # p => call'[q] = call[q]
      BY <1>0, <2>1 DEF TypeOK
    <2>3. /\ Senders(t)' = Senders(t) \union {p}
          /\ \A u \in Tenants : u # t => Senders(u)' = Senders(u)
      BY <1>1, <2>2 DEF Senders
    <2>4. \A u \in Tenants : /\ Unfired(u)' <=> Unfired(u)
                             /\ Buffered(u)' <=> Buffered(u)
      BY <1>0, <2>1 DEF Unfired, Buffered
    <2>5. Backlog(t)' = Backlog(t) + 1
      <3>1. Cardinality(Senders(t)') = Cardinality(Senders(t)) + 1
        BY <1>2, <2>3, SendersStep
      <3>2. Cardinality(Senders(t)) \in Nat
        BY BacklogType
      <3> QED BY <2>4, <3>1, <3>2 DEF Backlog
    <2>6. \A u \in Tenants : u # t => Backlog(u)' = Backlog(u)
      BY <2>3, <2>4, BacklogParts
    <2>7. Applying' = Applying
      BY <1>0, <2>1 DEF Applying
    <2> QED BY <1>1, <2>2, <2>5, <2>6, <2>7, AsRequest
  <1> QED BY <1>3, <1>4 DEF Lookup

\* The spawn and the send are the return of the call: the trigger of a send that
\* finds the channel full, or the loop gone, is merged or lost.
LEMMA CallStepIsReturn ==
  ASSUME QueueInv, SendOwned, NEW p \in Procs, CallStep(p)
  PROVE  Scheduler!Return(p)
  <1>a. call[p].tenant \in Tenants /\ call[p].handle \in Handles
    BY CallFields DEF QueueInv, CallStep, Spawn, Send
  <1>b. PICK t \in Tenants, h \in Handles : t = call[p].tenant /\ h = call[p].handle
    BY <1>a
  <1>0. TypeOK /\ MapOwned /\ SpawnRegistered /\ t # NoTenant /\ h # NoHandle
    BY ConstantsAssumption DEF ConstantsAssumption, QueueInv
  <1>1. call' = [call EXCEPT ![p] = Idle] /\ active' = active /\ owner' = owner
    BY DEF CallStep, Spawn, Send
  <1>2. /\ call'[p].pc = "idle" /\ call'[p].tenant = NoTenant
        /\ \A q \in Procs : q # p => call'[q] = call[q]
    BY <1>0, <1>1 DEF TypeOK, Idle
  <1>3. \A u \in Tenants : u # t => Senders(u)' = Senders(u)
    BY <1>b, <1>2 DEF Senders
  <1>4. Backlog(t) \in Nat /\ Backlog(t)' \in Nat
    BY <1>0, BacklogType, BacklogTypeNext
  <1>5. CASE Spawn(p)
    <2>1. /\ loop' = [loop EXCEPT ![h] = "debounce"] /\ trigger' = trigger
          /\ call[p].pc = "spawn"
      BY <1>b, <1>5 DEF Spawn
    <2>2. loop[h] = "none" /\ active[t] = h
      BY <1>0, <1>b, <2>1 DEF SpawnRegistered
    <2>3. /\ loop'[h] = "debounce" /\ \A g \in Handles : g # h => loop'[g] = loop[g]
      BY <1>0, <2>1 DEF TypeOK
    <2>4. Senders(t)' = Senders(t)
      BY <1>b, <1>2, <2>1 DEF Senders
    <2>5. /\ Unfired(t)' <=> Unfired(t)
          /\ Buffered(t)' <=> Buffered(t)
      BY <1>1, <2>1, <2>2, <2>3 DEF Unfired, Buffered
    <2>6. Backlog(t)' = Backlog(t)
      BY <1>0, <2>4, <2>5, BacklogParts
    <2>7. \A u \in Tenants : u # t => Backlog(u)' = Backlog(u)
      BY <1>0, <1>1, <1>3, <2>1, <2>2, <2>3, OtherTenants
    <2>8. Applying' = Applying
      BY <1>1, <2>2, <2>3 DEF Applying
    <2> QED BY <1>0, <1>b, <1>2, <1>4, <2>6, <2>7, <2>8, AsReturn
  <1>6. CASE Send(p)
    <2>1. /\ trigger' = [trigger EXCEPT ![h] = TRUE] /\ loop' = loop
          /\ call[p].pc = "send"
      BY <1>b, <1>6 DEF Send
    <2>2. /\ trigger'[h] /\ \A g \in Handles : g # h => trigger'[g] = trigger[g]
      BY <1>0, <2>1 DEF TypeOK
    <2>3. p \in Senders(t) /\ Senders(t)' = Senders(t) \ {p}
      BY <1>b, <1>2, <2>1 DEF Senders
    <2>4. /\ Cardinality(Senders(t)') = Cardinality(Senders(t)) - 1
          /\ Cardinality(Senders(t)) \in Nat
      BY <1>0, <2>3, SendersStep, BacklogType
    <2>5. \A u \in Tenants : Unfired(u)' <=> Unfired(u)
      BY <1>1, <2>1 DEF Unfired
    <2>6. \A u \in Tenants : u # t => (Buffered(u)' <=> Buffered(u))
      <3>1. \A u \in Tenants : u # t => active[u] # h /\ active[u] \in Handles \union {NoHandle}
        BY <1>0, <1>b, <2>1 DEF SendOwned, TypeOK
      <3> QED BY <1>1, <2>2, <3>1 DEF Buffered
    <2>7. (Buffered(t)' <=> Buffered(t)) \/ (~Buffered(t) /\ Buffered(t)')
      <3>1. Buffered(t) => Buffered(t)'
        <4>1. active[t] \in Handles \union {NoHandle}
          BY <1>0 DEF TypeOK
        <4> QED BY <1>1, <2>2, <4>1 DEF Buffered
      <3> QED BY <3>1
    <2>8. Backlog(t)' = Backlog(t) \/ Backlog(t)' = Backlog(t) - 1
      <3>1. Unfired(t)' <=> Unfired(t)
        BY <1>0, <2>5
      <3> QED BY <2>4, <2>7, <3>1 DEF Backlog
    <2>9. \A u \in Tenants : u # t => Backlog(u)' = Backlog(u)
      BY <1>3, <2>5, <2>6, BacklogParts
    <2>10. Applying' = Applying
      BY <1>1, <2>1 DEF Applying
    <2> QED BY <1>0, <1>b, <1>2, <1>4, <2>8, <2>9, <2>10, AsReturn
  <1> QED BY <1>5, <1>6 DEF CallStep

\* The goroutine of a tenant: what each of its steps is for the scheduler.
LEMMA LoopStepIsAbstract ==
  ASSUME QueueInv, NEW h \in Handles, LoopStep(h)
  PROVE  \/ \E t \in Tenants : Scheduler!Drop(t) \/ Scheduler!Begin(t) \/ Scheduler!Finish(t)
         \/ UNCHANGED Scheduler!schedVars
  <1>a. Alive(h) /\ owner[h] \in Tenants /\ active[owner[h]] = h
    BY DEF LoopStep, SeeCancel, Release, Redebounce, Fire, Applied, Decide, Alive,
           LoopRegistered, QueueInv
  <1>b. PICK t \in Tenants : t = owner[h]
    BY <1>a
  <1>0. /\ TypeOK /\ MapOwned /\ LoopRegistered /\ t = owner[h]
        /\ Alive(h) /\ active[t] = h /\ h # NoHandle
    BY <1>a, <1>b, ConstantsAssumption DEF ConstantsAssumption, QueueInv
  <1>1. call' = call
    BY DEF LoopStep, SeeCancel, Release, Redebounce, Fire, Applied, Decide
  <1>2. \A u \in Tenants : Senders(u)' = Senders(u)
    BY <1>1 DEF Senders
  <1>3. /\ \A u \in Tenants : u # t => active'[u] = active[u]
        /\ \A g \in Handles : g # h => loop'[g] = loop[g] /\ trigger'[g] = trigger[g]
                                       /\ owner'[g] = owner[g]
    BY <1>0 DEF LoopStep, SeeCancel, Release, Exit, Redebounce, Fire, Applied, Decide, TypeOK
  <1>4. \A u \in Tenants : u # t => Backlog(u)' = Backlog(u)
    BY <1>0, <1>2, <1>3, OtherTenants
  <1>5. Backlog(t) \in Nat /\ Backlog(t)' \in Nat
    BY <1>0, BacklogType, BacklogTypeNext
  <1>6. \A g \in Handles : g # h /\ loop[g] = "applying" => owner[g] # t
    BY <1>0 DEF LoopRegistered, Alive
  <1>7. ASSUME loop[h] # "applying", loop'[h] # "applying"
        PROVE  Applying' = Applying
    BY <1>3, <1>7 DEF Applying
  <1>8. CASE SeeCancel(h)
    <2>1. loop[h] = "debounce" /\ loop'[h] = "releasing" /\ UNCHANGED <<active, trigger>>
      BY <1>8 DEF SeeCancel, QueueInv, TypeOK
    <2>2. /\ Unfired(t) /\ ~Unfired(t)'
          /\ Buffered(t)' <=> Buffered(t)
      BY <1>0, <2>1 DEF Unfired, Buffered
    <2>3. Backlog(t)' = Backlog(t) - 1
      BY <1>0, <1>2, <2>2, BacklogParts
    <2> QED BY <1>0, <1>1, <1>4, <1>5, <1>7, <2>1, <2>3, AsDrop
  <1>9. CASE Redebounce(h)
    <2>1. loop[h] = "debounce" /\ UNCHANGED <<active, loop>> /\ trigger[h] /\ ~trigger'[h]
      BY <1>9 DEF Redebounce, QueueInv, TypeOK
    <2>2. /\ Unfired(t)' <=> Unfired(t)
          /\ Buffered(t) /\ ~Buffered(t)'
      BY <1>0, <2>1 DEF Unfired, Buffered
    <2>3. Backlog(t)' = Backlog(t) - 1
      BY <1>0, <1>2, <2>2, BacklogParts
    <2> QED BY <1>0, <1>1, <1>4, <1>5, <1>7, <2>1, <2>3, AsDrop
  <1>10. CASE Fire(h)
    <2>1. /\ loop[h] = "debounce" /\ loop'[h] = "applying"
          /\ UNCHANGED <<active, trigger, owner>>
      BY <1>10 DEF Fire, QueueInv, TypeOK
    <2>2. /\ Unfired(t) /\ ~Unfired(t)'
          /\ Buffered(t)' <=> Buffered(t)
      BY <1>0, <2>1 DEF Unfired, Buffered
    <2>3. Backlog(t)' = Backlog(t) - 1
      BY <1>0, <1>2, <2>2, BacklogParts
    <2>4. t \notin Applying
      BY <1>6, <2>1 DEF Applying
    <2>5. Applying' = Applying \union {t}
      BY <1>0, <1>3, <2>1 DEF Applying
    <2> QED BY <1>0, <1>1, <1>4, <1>5, <2>3, <2>4, <2>5, AsBegin
  <1>11. ASSUME NEW r \in Results \ {"none"}, Applied(h, r)
         PROVE  Scheduler!Finish(t)
    <2>1. /\ loop[h] = "applying" /\ loop'[h] = "deciding"
          /\ UNCHANGED <<active, trigger, owner>>
      BY <1>11 DEF Applied, QueueInv, TypeOK
    <2>2. /\ Unfired(t)' <=> Unfired(t)
          /\ Buffered(t)' <=> Buffered(t)
      BY <1>0, <2>1 DEF Unfired, Buffered
    <2>3. Backlog(t)' = Backlog(t)
      BY <1>0, <1>2, <2>2, BacklogParts
    <2>4. t \in Applying
      BY <1>0, <2>1 DEF Applying
    <2>5. Applying' = Applying \ {t}
      BY <1>0, <1>3, <1>6, <2>1 DEF Applying
    <2> QED BY <1>0, <1>1, <1>4, <2>3, <2>4, <2>5, AsFinish
  <1>12. CASE Release(h)
    <2>1. /\ loop[h] = "releasing" /\ loop'[h] = "none" /\ active'[t] = NoHandle
      BY <1>0, <1>12 DEF Release, Exit, TypeOK
    <2>2. ~Unfired(t) /\ ~Unfired(t)' /\ ~Buffered(t)'
      BY <1>0, <2>1 DEF Unfired, Buffered
    <2>3. CASE Buffered(t)
      <3>1. Backlog(t)' = Backlog(t) - 1
        BY <1>0, <1>2, <2>2, <2>3, BacklogParts
      <3> QED BY <1>0, <1>1, <1>4, <1>5, <1>7, <2>1, <3>1, AsDrop
    <2>4. CASE ~Buffered(t)
      <3>1. Backlog(t)' = Backlog(t)
        BY <1>0, <1>2, <2>2, <2>4, BacklogParts
      <3> QED BY <1>0, <1>1, <1>4, <1>7, <2>1, <3>1, AsStutter
    <2> QED BY <2>3, <2>4
  <1>13. CASE Decide(h)
    <2>1. loop[h] = "deciding" /\ loop'[h] # "applying"
      BY <1>13 DEF Decide, Exit, QueueInv, TypeOK
    <2>2. CASE trigger[h]
      <3>1. loop'[h] = "debounce" /\ ~trigger'[h] /\ active' = active
        BY <1>0, <1>13, <2>2 DEF Decide, TypeOK
      <3>2. ~Unfired(t) /\ Unfired(t)' /\ Buffered(t) /\ ~Buffered(t)'
        BY <1>0, <2>1, <2>2, <3>1 DEF Unfired, Buffered
      <3>3. Backlog(t)' = Backlog(t)
        BY <1>0, <1>2, <3>2, BacklogParts
      <3> QED BY <1>0, <1>1, <1>4, <1>7, <2>1, <3>3, AsStutter
    <2>3. CASE ~trigger[h]
      <3>1. active'[t] = NoHandle
        BY <1>0, <1>13, <2>3 DEF Decide, TypeOK
      <3>2. ~Unfired(t) /\ ~Unfired(t)' /\ ~Buffered(t) /\ ~Buffered(t)'
        BY <1>0, <2>1, <2>3, <3>1 DEF Unfired, Buffered
      <3>3. Backlog(t)' = Backlog(t)
        BY <1>0, <1>2, <3>2, BacklogParts
      <3> QED BY <1>0, <1>1, <1>4, <1>7, <2>1, <3>3, AsStutter
    <2> QED BY <2>2, <2>3
  <1> QED BY <1>0, <1>8, <1>9, <1>10, <1>11, <1>12, <1>13 DEF LoopStep

\* queue.go is a coalescing scheduler: however many tenants, callers and handles
\* there are, applies of a tenant do not overlap, each one uses up a request, and
\* requests vanish only by merging or where a step says so.
THEOREM Refinement == Spec => ImplementsScheduler
  <1>1. Init => Scheduler!Init
    <2> SUFFICES ASSUME Init PROVE Scheduler!Init
      OBVIOUS
    <2>1. \A p \in Procs : call[p].tenant = NoTenant
      BY DEF Init, Idle
    <2>2. \A t \in Tenants : Backlog(t) = 0
      <3> TAKE t \in Tenants
      <3>1. ~Unfired(t) /\ ~Buffered(t)
        BY DEF Init, Unfired, Buffered
      <3>2. Senders(t) = {}
        BY DEF Init, Idle, Senders
      <3>3. Cardinality(Senders(t)) = 0
        BY <3>2, FS_EmptySet
      <3> QED BY <3>1, <3>3 DEF Backlog
    <2>3. Applying = {}
      BY DEF Init, Applying
    <2> QED BY <2>1, <2>2, <2>3 DEF Scheduler!Init
  <1>2. Init => SendOwned
    BY DEF Init, SendOwned, Idle
  <1>3. QueueInv /\ SendOwned /\ [Next]_vars => [Scheduler!Next]_(Scheduler!schedVars)
    <2> SUFFICES ASSUME QueueInv, SendOwned, [Next]_vars
                 PROVE  Scheduler!Next \/ UNCHANGED Scheduler!schedVars
      OBVIOUS
    <2>1. ASSUME NEW p \in Procs, NEW t \in Tenants, Lookup(p, t)
          PROVE  Scheduler!Next
      BY <2>1, LookupIsRequest DEF Scheduler!Next
    <2>2. ASSUME NEW p \in Procs, CallStep(p)
          PROVE  Scheduler!Next
      BY <2>2, CallStepIsReturn DEF Scheduler!Next
    <2>3. ASSUME NEW h \in Handles, LoopStep(h)
          PROVE  Scheduler!Next \/ UNCHANGED Scheduler!schedVars
      BY <2>3, LoopStepIsAbstract DEF Scheduler!Next
    <2>4. CASE Start \/ Stop \/ StopReturn \/ Tick \/ ResyncDone \/ ResyncExit \/ UNCHANGED vars
      <3>1. UNCHANGED <<active, owner, trigger, loop, call>>
        BY <2>4 DEF Start, Stop, StopReturn, Tick, ResyncDone, ResyncExit, vars
      <3>2. \A t \in Tenants : /\ Unfired(t)' <=> Unfired(t)
                               /\ Buffered(t)' <=> Buffered(t)
                               /\ Senders(t)' = Senders(t)
        BY <3>1 DEF Unfired, Buffered, Senders
      <3>3. \A t \in Tenants : Backlog(t)' = Backlog(t)
        BY <3>2, BacklogParts
      <3>4. Applying' = Applying
        BY <3>1 DEF Applying
      <3> QED BY <3>1, <3>3, <3>4, AsStutter
    <2> QED
      BY <2>1, <2>2, <2>3, <2>4 DEF Next, Enqueue, ResyncStep, ResyncEnqueue, Procs
  <1> QED
    BY <1>1, <1>2, <1>3, SendOwnedStep, QueueInvariant, PTL
    DEF Spec, ImplementsScheduler, Scheduler!Spec
=============================================================================
