---------------------------- MODULE StatusPlane ----------------------------
(***************************************************************************)
(* The status of a tenant: the tracker that persists the phases of the     *)
(* apply queue (internal/reconcile/status.go), the PUT .../status handlers *)
(* that replace the same columns, and the on-demand health probe with its  *)
(* TTL cache (internal/status).                                            *)
(*                                                                         *)
(* One tenant with one node group.  A status is its reconciliation part    *)
(* (phase, lastError) and the rest, abstracted to the number of the PUT    *)
(* that wrote it.  An error message is the number of the event; 0 is none. *)
(***************************************************************************)
EXTENDS Integers, Sequences, FiniteSets

CONSTANTS Kinds,       \* the resources of the tenant: {"tenant", "nodegroup"}
          HealthCallers,     \* concurrent Gather calls
          QueueSize,   \* capacity of StatusTracker.ch (256 in the code)
          TTL,         \* lifetime of a health entry (15 s in the code)
          MaxEvents, MaxPuts, MaxTime   \* bounds

ASSUME StatusPlaneAssumption ==
  /\ Kinds = {"tenant", "nodegroup"}
  /\ QueueSize \in Nat
  /\ TTL \in Nat \ {0}
  /\ MaxEvents \in Nat /\ MaxPuts \in Nat /\ MaxTime \in Nat

VARIABLES stored,     \* the status columns, per resource
          deleting,   \* tenant.metadata.deletionTimestamp is set
          ch,         \* StatusTracker.ch
          worker,     \* the goroutine that applies events
          events,     \* phase events emitted so far
          puts,       \* PUT .../status requests so far
          clock,
          observedAt, \* Gatherer.cached: when its content was observed
          expires,    \* ... and until when it is served; -1 for no entry
          caller,     \* the Gather calls in progress
          last,       \* history: the last event the listener was given
          dropped,    \* history: ch was full when it came
          replaced,   \* history: resources a PUT replaced since the last event
          owed,       \* history: the error the accepted events leave behind
          wiped,      \* history: resources a PUT replaced since owed was set
          lastPut,    \* history: the last PUT of a resource
          raced       \* history: resources whose last PUT fell into a read-modify-write

trackerVars == <<stored, deleting, ch, worker, events, puts, last, dropped,
                 replaced, owed, wiped, lastPut, raced>>
gatherVars == <<clock, observedAt, expires, caller>>
statusPlaneVars == <<trackerVars, gatherVars>>

Phases == {"queued", "applying", "applied", "failed"}
NoEvent == [phase |-> "none", err |-> 0, del |-> FALSE]
IdleWorker == [pc |-> "idle", ev |-> NoEvent, kind |-> "tenant",
               copy |-> [phase |-> "none", err |-> 0, rest |-> 0]]

StatusPlaneInit ==
  /\ stored = [k \in Kinds |-> [phase |-> "none", err |-> 0, rest |-> 0]]
  /\ deleting = FALSE
  /\ ch = <<>>
  /\ worker = IdleWorker
  /\ events = 0
  /\ puts = 0
  /\ clock = 0
  /\ observedAt = 0
  /\ expires = -1
  /\ caller = [c \in HealthCallers |-> [pc |-> "idle", now |-> 0, obs |-> 0]]
  /\ last = NoEvent
  /\ dropped = FALSE
  /\ replaced = {}
  /\ owed = 0
  /\ wiped = {}
  /\ lastPut = [k \in Kinds |-> 0]
  /\ raced = {}

-----------------------------------------------------------------------------
(* The tracker. *)

\* The queue calls the listener for every phase; a full channel drops the event.
Listener(phase) ==
  LET ev == [phase |-> phase, err |-> IF phase = "failed" THEN events + 1 ELSE 0,
             del |-> deleting] IN
  /\ events < MaxEvents
  /\ events' = events + 1
  /\ last' = ev
  /\ dropped' = (Len(ch) >= QueueSize)
  /\ ch' = IF Len(ch) < QueueSize THEN Append(ch, ev) ELSE ch
  /\ replaced' = {}
  /\ IF Len(ch) < QueueSize /\ phase \in {"failed", "applied"}
     THEN owed' = ev.err /\ wiped' = {}
     ELSE UNCHANGED <<owed, wiped>>
  /\ UNCHANGED <<stored, deleting, worker, puts, lastPut, raced, gatherVars>>

ErrorDropped(cur, phase, err) == [cur EXCEPT !.phase = phase, !.err = err]

\* The error of the last failure stays until the next success.
nextReconciliation(cur, phase, err) ==
  [cur EXCEPT !.phase = phase,
              !.err = CASE phase = "failed" -> err
                        [] phase = "applied" -> 0
                        [] OTHER -> cur.err]

\* Start: the next event; apply reads the tenant row, its deletionTimestamp included.
Take ==
  /\ worker.pc = "idle"
  /\ ch # <<>>
  /\ ch' = Tail(ch)
  /\ worker' = [pc |-> "write", ev |-> [Head(ch) EXCEPT !.del = deleting],
                kind |-> "tenant", copy |-> stored["tenant"]]
  /\ UNCHANGED <<stored, deleting, events, puts, last, dropped, replaced, owed, wiped, lastPut, raced, gatherVars>>

\* A queue that says applying for a tenant that is being deleted is destroying
\* it; the node groups keep the queue's own word.
Translated(ev) ==
  IF ev.phase = "applying" /\ ev.del THEN "destroying" ELSE ev.phase

TenantFromEvent ==
  /\ worker.pc = "write"
  /\ worker.kind = "tenant"
  /\ stored' = [stored EXCEPT !["tenant"] =
                  nextReconciliation(IdleWorker.copy, Translated(worker.ev), worker.ev.err)]
  /\ worker' = [worker EXCEPT !.kind = "nodegroup", !.pc = "list"]
  /\ UNCHANGED <<deleting, ch, events, puts, last, dropped, replaced, owed, wiped, lastPut, raced, gatherVars>>

WriteTenant ==
  /\ worker.pc = "write"
  /\ worker.kind = "tenant"
  /\ stored' = [stored EXCEPT !["tenant"] =
                  nextReconciliation(worker.copy, Translated(worker.ev), worker.ev.err)]
  /\ worker' = [worker EXCEPT !.kind = "nodegroup", !.pc = "list"]
  /\ UNCHANGED <<deleting, ch, events, puts, last, dropped, replaced, owed, wiped, lastPut, raced, gatherVars>>

ListNodeGroups ==
  /\ worker.pc = "list"
  /\ worker' = [worker EXCEPT !.pc = "write", !.copy = stored["nodegroup"]]
  /\ UNCHANGED <<stored, deleting, ch, events, puts, last, dropped, replaced, owed, wiped, lastPut, raced, gatherVars>>

WriteNodeGroup ==
  /\ worker.pc = "write"
  /\ worker.kind = "nodegroup"
  /\ stored' = [stored EXCEPT !["nodegroup"] =
                  nextReconciliation(worker.copy, worker.ev.phase, worker.ev.err)]
  /\ worker' = IdleWorker
  /\ UNCHANGED <<deleting, ch, events, puts, last, dropped, replaced, owed, wiped, lastPut, raced, gatherVars>>

\* PUT .../status: an agent's status replaces the column, with or without the
\* reconciliation part it was read with; no version is asked for.
UpdateStatus(k, recon) ==
  /\ puts < MaxPuts
  /\ puts' = puts + 1
  /\ stored' = [stored EXCEPT ![k] = [recon EXCEPT !.rest = puts + 1]]
  /\ replaced' = replaced \cup {k}
  /\ wiped' = wiped \cup {k}
  /\ lastPut' = [lastPut EXCEPT ![k] = puts + 1]
  /\ raced' = IF worker.pc = "write" /\ worker.kind = k THEN raced \cup {k} ELSE raced \ {k}
  /\ UNCHANGED <<deleting, ch, worker, events, last, dropped, owed, gatherVars>>

\* DELETE of the tenant sets the timestamp; nothing takes it back.
Delete ==
  /\ ~deleting
  /\ deleting' = TRUE
  /\ UNCHANGED <<stored, ch, worker, events, puts, last, dropped, replaced, owed,
                 wiped, lastPut, raced, gatherVars>>

-----------------------------------------------------------------------------
(* The gatherer: one probe per call that finds no fresh entry. *)

Tick ==
  /\ clock < MaxTime
  /\ clock' = clock + 1
  /\ UNCHANGED <<trackerVars, observedAt, expires, caller>>

\* Gather reads the clock first, then the cache.
Gather(c) ==
  /\ caller[c].pc = "idle"
  /\ caller' = [caller EXCEPT ![c] =
                  IF clock < expires
                  THEN [pc |-> "answered", now |-> clock, obs |-> observedAt]
                  ELSE [pc |-> "probing", now |-> clock, obs |-> clock]]
  /\ UNCHANGED <<trackerVars, clock, observedAt, expires>>

\* probe and ProbeTenant: the machines answer some time before it returns.
probe(c) ==
  /\ caller[c].pc = "probing"
  /\ caller' = [caller EXCEPT ![c].pc = "probed", ![c].obs = clock]
  /\ UNCHANGED <<trackerVars, clock, observedAt, expires>>

ExpiresFromEnd(c) ==
  /\ caller[c].pc = "probed"
  /\ observedAt' = caller[c].obs
  /\ expires' = clock + TTL
  /\ caller' = [caller EXCEPT ![c].pc = "answered"]
  /\ UNCHANGED <<trackerVars, clock>>

\* The entry expires a TTL after the call began.
CacheHealth(c) ==
  /\ caller[c].pc = "probed"
  /\ observedAt' = caller[c].obs
  /\ expires' = caller[c].now + TTL
  /\ caller' = [caller EXCEPT ![c].pc = "answered"]
  /\ UNCHANGED <<trackerVars, clock>>

Return(c) ==
  /\ caller[c].pc = "answered"
  /\ caller' = [caller EXCEPT ![c].pc = "idle"]
  /\ UNCHANGED <<trackerVars, clock, observedAt, expires>>

\* apply, after it has read the tenant: a write, a listing, a write per group.
apply == WriteTenant \/ ListNodeGroups \/ WriteNodeGroup

TrackerNext ==
  \/ \E p \in Phases : Listener(p)
  \/ Take \/ apply
  \/ \E k \in Kinds : \E recon \in {stored[k], IdleWorker.copy} : UpdateStatus(k, recon)
  \/ Delete

GatherNext ==
  \/ Tick
  \/ \E c \in HealthCallers : Gather(c) \/ probe(c) \/ CacheHealth(c) \/ Return(c)

StatusPlaneNext == TrackerNext \/ GatherNext

StatusPlaneSpec == StatusPlaneInit /\ [][StatusPlaneNext]_statusPlaneVars

-----------------------------------------------------------------------------

StoredStatus == [phase : Phases \cup {"none", "destroying"}, err : 0..MaxEvents,
                 rest : 0..MaxPuts]
Event == [phase : Phases, err : 0..MaxEvents, del : BOOLEAN]

StatusPlaneTypeOK ==
  /\ stored \in [Kinds -> StoredStatus]
  /\ deleting \in BOOLEAN
  /\ ch \in Seq(Event)
  /\ worker \in [pc : {"idle", "write", "list"}, ev : Event \cup {NoEvent},
                 kind : Kinds, copy : StoredStatus]
  /\ events \in 0..MaxEvents
  /\ puts \in 0..MaxPuts
  /\ clock \in 0..MaxTime
  /\ observedAt \in 0..MaxTime
  /\ expires \in -1..MaxTime + TTL
  /\ caller \in [HealthCallers -> [pc : {"idle", "probing", "probed", "answered"},
                             now : 0..MaxTime, obs : 0..MaxTime]]
  /\ last \in Event \cup {NoEvent}
  /\ dropped \in BOOLEAN
  /\ replaced \subseteq Kinds
  /\ owed \in 0..MaxEvents
  /\ wiped \subseteq Kinds
  /\ lastPut \in [Kinds -> 0..MaxPuts]
  /\ raced \subseteq Kinds

Quiet == ch = <<>> /\ worker.pc = "idle"

(***************************************************************************)
(* Once the tracker has caught up, every resource shows the last phase the *)
(* queue reported, and with it the error of the failure it has not got     *)
(* over yet; an applying that was reported after the DELETE reads          *)
(* destroying.  Only an event dropped at a full channel, or a PUT that     *)
(* replaced the status since, leaves anything else (Listener, apply,       *)
(* nextReconciliation).                                                    *)
(***************************************************************************)
TrackerCatchesUp ==
  (Quiet /\ ~dropped /\ last # NoEvent) =>
    \A k \in Kinds \ replaced :
      /\ stored[k].phase \in {last.phase} \cup (IF k = "tenant" THEN {"destroying"} ELSE {})
      /\ k = "tenant" /\ last.del => stored[k].phase = Translated(last)
      /\ stored[k].phase = "destroying" => deleting
      /\ k \notin wiped => stored[k].err = owed

(***************************************************************************)
(* What an agent PUT into a status is there until the next PUT, unless the *)
(* PUT fell between the read and the write of the tracker, which writes    *)
(* its copy back without a version (apply, UpdateTenantStatus).            *)
(***************************************************************************)
PutKeptUnlessRaced ==
  \A k \in Kinds : k \notin raced => stored[k].rest = lastPut[k]

(***************************************************************************)
(* A health answer is never older than the TTL: it was observed at most    *)
(* TTL before the call that got it began, however long the probe took and  *)
(* whoever stored it (Gather).                                             *)
(***************************************************************************)
AnswersFresh ==
  \A c \in HealthCallers : caller[c].pc = "answered" => caller[c].obs > caller[c].now - TTL

-----------------------------------------------------------------------------
(***************************************************************************)
(* What makes the three invariants inductive.  A copy that no PUT raced    *)
(* still carries the last PUT.                                             *)
(***************************************************************************)
PutInv ==
  /\ PutKeptUnlessRaced
  /\ (worker.pc = "write" /\ worker.kind \notin raced)
       => worker.copy.rest = lastPut[worker.kind]

(***************************************************************************)
(* An entry expires a TTL after a moment that is not later than its        *)
(* observation, and a probe observes no earlier than its call began.       *)
(***************************************************************************)
GatherInv ==
  /\ observedAt <= clock
  /\ expires <= observedAt + TTL
  /\ \A c \in HealthCallers :
       /\ caller[c].now <= clock
       /\ caller[c].obs <= clock
       /\ caller[c].pc \in {"probing", "probed"} => caller[c].obs >= caller[c].now
  /\ AnswersFresh

\* The worker holds an event it has not written to k yet.
ToWrite(k) ==
  \/ worker.pc = "write" /\ (worker.kind = "tenant" \/ k = "nodegroup")
  \/ worker.pc = "list" /\ k = "nodegroup"

\* Only a failure and a success change the error of a status.
Decides(ev) == ev.phase \in {"failed", "applied"}

\* Only a failure has an error, and the worker between events has no event.
EventInv ==
  /\ Len(ch) <= QueueSize
  /\ \A i \in DOMAIN ch : ch[i].phase # "failed" => ch[i].err = 0
  /\ worker.pc # "idle" => worker.ev \in Event
  /\ worker.ev.phase # "failed" => worker.ev.err = 0
  /\ worker.pc = "list" => worker.kind = "nodegroup"
  /\ replaced \subseteq wiped

\* Once written destroying, the tenant is being deleted.
DestroyInv ==
  /\ \A k \in Kinds : stored[k].phase = "destroying" => deleting
  /\ worker.copy.phase = "destroying" => deleting
  /\ worker.ev.del => deleting
  /\ last.del => deleting

(***************************************************************************)
(* An event that was not dropped is the last of ch, or else the worker's   *)
(* event, or else it is in the rows.                                       *)
(***************************************************************************)
PhaseInv ==
  (~dropped /\ last # NoEvent) =>
    /\ ch # <<>> => ch[Len(ch)] = last
    /\ ch = <<>> =>
         /\ worker.pc # "idle" =>
              worker.ev.phase = last.phase /\ (last.del => worker.ev.del)
         /\ \A k \in Kinds \ replaced : ~ToWrite(k) =>
              /\ stored[k].phase \in {last.phase} \cup
                                     (IF k = "tenant" THEN {"destroying"} ELSE {})
              /\ k = "tenant" /\ last.del => stored[k].phase = Translated(last)

(***************************************************************************)
(* The error the accepted events leave behind is that of the last deciding *)
(* event of ch; without one, of the worker's event if it decides; without  *)
(* that, it is in the rows and in the worker's copy.                       *)
(***************************************************************************)
ErrorInv ==
  /\ \A i \in 1..Len(ch) :
       (Decides(ch[i]) /\ \A j \in (i + 1)..Len(ch) : ~Decides(ch[j]))
         => ch[i].err = owed
  /\ (\A i \in 1..Len(ch) : ~Decides(ch[i])) =>
       /\ (worker.pc # "idle" /\ Decides(worker.ev)) => worker.ev.err = owed
       /\ \A k \in Kinds \ wiped :
            /\ (~ToWrite(k) \/ ~Decides(worker.ev)) => stored[k].err = owed
            /\ (worker.pc = "write" /\ worker.kind = k /\ ~Decides(worker.ev))
                 => worker.copy.err = owed

StatusPlaneInv ==
  /\ StatusPlaneTypeOK /\ PutInv /\ GatherInv
  /\ EventInv /\ DestroyInv /\ PhaseInv /\ ErrorInv
=============================================================================
