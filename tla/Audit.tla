------------------------------- MODULE Audit -------------------------------
(***************************************************************************)
(* The audit log: the middleware records every mutation after its handler  *)
(* has answered, a bounded queue and one goroutine carry the events to the *)
(* table, a sweep removes old ones, and a reader pages through them. The   *)
(* process stops the way main.go does it: the HTTP server first (for five  *)
(* seconds at most), then the database, then the recorder.                 *)
(***************************************************************************)
EXTENDS Integers, Sequences, FiniteSets

CONSTANTS AuditHandlers, \* request goroutines
          AuditSize,   \* capacity of the recorder's queue (1024)
          PageLimit,   \* limit of a page of the log
          MaxAudited,  \* bound on the mutations
          MaxDay,      \* bound on the clock
          RetentionDays

ASSUME AuditAssumption ==
    /\ AuditSize \in Nat \ {0} /\ PageLimit \in Nat \ {0}
    /\ MaxAudited \in Nat /\ MaxDay \in Nat /\ RetentionDays \in Nat

VARIABLES request,   \* per goroutine: pc and event
          auditQueue,\* the recorder's channel: events and flush markers
          drainer,   \* the goroutine of drain: running, or gone
          stopped,   \* Recorder.stopped, set together with closing the channel
          table,     \* audit_events: the events, by row id
          inserted,  \* the last row id given (AUTOINCREMENT never gives one twice)
          fate,      \* events that will not be in the table, and why
          flushing,  \* the caller of Flush
          reader,    \* a client paging through the log
          stage,     \* how far the shutdown of main has come
          day,       \* the clock
          audited    \* events made so far

auditVars == <<request, auditQueue, drainer, stopped, table, inserted, fate, flushing,
               reader, stage, day, audited>>

Marker == [id |-> 0, day |-> 0]
Ids(rows) == {rows[i].id : i \in DOMAIN rows}

(* Middleware: reads pass; a mutation is recorded once it is answered.     *)
Middleware(h) ==
    /\ request[h].pc = "idle" /\ stage \in {"up", "draining"} /\ audited < MaxAudited
    /\ \E mutation \in BOOLEAN :
         IF mutation
         THEN /\ audited' = audited + 1
              /\ request' = [request EXCEPT ![h] =
                    [pc |-> "record", event |-> [id |-> audited + 1, day |-> day]]]
         ELSE UNCHANGED <<audited, request>>
    /\ UNCHANGED <<auditQueue, drainer, stopped, table, inserted, fate, flushing, reader, stage,
                   day>>

(* Recorder.Record looks at stopped under the mutex and sends without it:  *)
(* a Close in between makes the send panic.                                *)
Record(h) ==
    LET e == request[h].event IN
    /\ \/ /\ request[h].pc = "record"
          /\ IF stopped
             THEN /\ request' = [request EXCEPT ![h].pc = "idle"]
                  /\ fate' = [fate EXCEPT ![e.id] = "refused"]
             ELSE request' = [request EXCEPT ![h].pc = "send"] /\ UNCHANGED fate
          /\ UNCHANGED auditQueue
       \/ /\ request[h].pc = "send"
          /\ request' = [request EXCEPT ![h].pc = "idle"]
          /\ IF stopped
             THEN fate' = [fate EXCEPT ![e.id] = "panic"] /\ UNCHANGED auditQueue
             ELSE IF Len(auditQueue) < AuditSize
             THEN auditQueue' = Append(auditQueue, e) /\ UNCHANGED fate
             ELSE fate' = [fate EXCEPT ![e.id] = "dropped"] /\ UNCHANGED auditQueue
    /\ UNCHANGED <<drainer, stopped, table, inserted, flushing, reader, stage, day, audited>>

(* One event off the queue. InsertEvent fails on a closed database, and    *)
(* may fail on an open one: the event is dropped with a message.           *)
InsertEvent ==
    LET e == Head(auditQueue) IN
    /\ auditQueue' = Tail(auditQueue)
    /\ UNCHANGED drainer
    /\ \/ /\ e = Marker /\ flushing.pc = "waiting"
          /\ flushing' = [flushing EXCEPT !.pc = "done"]
          /\ UNCHANGED <<table, inserted, fate>>
       \/ /\ e = Marker /\ flushing.pc # "waiting"
          /\ UNCHANGED <<table, inserted, fate, flushing>>
       \/ /\ e # Marker /\ stage \in {"up", "draining"}
          /\ inserted' = inserted + 1
          /\ table' = [i \in DOMAIN table \cup {inserted + 1} |->
                         IF i = inserted + 1 THEN e ELSE table[i]]
          /\ UNCHANGED <<fate, flushing>>
       \/ /\ e # Marker
          /\ fate' = [fate EXCEPT ![e.id] = IF stage \in {"up", "draining"} THEN "failed"
                                            ELSE "database closed"]
          /\ UNCHANGED <<table, inserted, flushing>>

(* A drain that leaves as soon as the recorder is stopped.                 *)
DrainUntilStopped ==
    /\ drainer = "running"
    /\ IF stopped THEN drainer' = "gone"
            /\ UNCHANGED <<auditQueue, table, inserted, fate, flushing>>
       ELSE auditQueue # <<>> /\ InsertEvent
    /\ UNCHANGED <<request, stopped, reader, stage, day, audited>>

(* recorder.drain: to the end of the closed channel.                       *)
drain ==
    /\ drainer = "running"
    /\ IF auditQueue # <<>> THEN InsertEvent
       ELSE stopped /\ drainer' = "gone"
            /\ UNCHANGED <<auditQueue, table, inserted, fate, flushing>>
    /\ UNCHANGED <<request, stopped, reader, stage, day, audited>>

(* A flush that overtakes the queue.                                       *)
FlushAhead ==
    /\ flushing.pc = "off" /\ ~stopped
    /\ auditQueue' = << Marker >> \o auditQueue
    /\ flushing' = [pc |-> "waiting", before |-> Ids(auditQueue) \ {0}]
    /\ UNCHANGED <<request, drainer, stopped, table, inserted, fate, reader, stage, day, audited>>

(* Recorder.Flush: a marker through the queue; nil at once on a stopped    *)
(* recorder and on a full queue, an error when the caller gives up.        *)
Flush ==
    /\ \/ /\ flushing.pc = "off"
          /\ IF stopped \/ Len(auditQueue) >= AuditSize
             THEN flushing' = [flushing EXCEPT !.pc = "gave up"] /\ UNCHANGED auditQueue
             ELSE /\ auditQueue' = Append(auditQueue, Marker)
                  /\ flushing' = [pc |-> "waiting", before |-> Ids(auditQueue) \ {0}]
       \/ /\ flushing.pc = "waiting"
          /\ flushing' = [flushing EXCEPT !.pc = "gave up"]
          /\ UNCHANGED auditQueue
    /\ UNCHANGED <<request, drainer, stopped, table, inserted, fate, reader, stage, day, audited>>

(* RetentionPolicy.sweep: DELETE WHERE timestamp < cutoff.                 *)
sweep ==
    /\ stage = "up"
    /\ LET old == {i \in DOMAIN table : table[i].day < day - RetentionDays} IN
       /\ old # {}
       /\ table' = [i \in DOMAIN table \ old |-> table[i]]
       /\ fate' = [n \in DOMAIN fate |->
            IF n \in {table[i].id : i \in old} THEN "swept" ELSE fate[n]]
    /\ UNCHANGED <<request, auditQueue, drainer, stopped, inserted, flushing, reader, stage, day,
                   audited>>

(* A row's place in a query in insertion order.                            *)
OldestFirst(r) == Cardinality({k \in DOMAIN table : k <= r})

(* buildQuery: newest first, so a row comes after those with a higher id.  *)
buildQuery(r) == Cardinality({k \in DOMAIN table : k >= r})

(* Handlers.List, as a client uses it, with LIMIT and OFFSET: page after   *)
(* page until a short one.                                                 *)
ListEvents ==
    /\ reader.pc # "end" /\ stage \in {"up", "draining"}
    /\ LET from == IF reader.pc = "off" THEN 0 ELSE reader.offset
           page == {r \in DOMAIN table : buildQuery(r) \in (from + 1)..(from + PageLimit)} IN
       reader' = [pc |-> IF Cardinality(page) < PageLimit THEN "end" ELSE "more",
                  offset |-> from + PageLimit,
                  wanted |-> IF reader.pc = "off" THEN table ELSE reader.wanted,
                  seen |-> reader.seen \cup {table[r].id : r \in page}]
    /\ UNCHANGED <<request, auditQueue, drainer, stopped, table, inserted, fate, flushing, stage,
                   day, audited>>

(* main: srv.Shutdown returns when the handlers are done or after five     *)
(* seconds; store.Close; then the deferred auditComponent.Close, which     *)
(* closes the channel and waits for the drain.                             *)
Shutdown ==
    /\ \/ stage = "up" /\ stage' = "draining" /\ UNCHANGED stopped
       \/ stage = "draining" /\ stage' = "store closed" /\ UNCHANGED stopped
       \/ stage = "store closed" /\ stage' = "stopping" /\ stopped' = TRUE
       \/ stage = "stopping" /\ drainer = "gone" /\ stage' = "stopped" /\ UNCHANGED stopped
    /\ UNCHANGED <<request, auditQueue, drainer, table, inserted, fate, flushing, reader, day,
                   audited>>

NextDay ==
    /\ day < MaxDay /\ day' = day + 1
    /\ UNCHANGED <<request, auditQueue, drainer, stopped, table, inserted, fate, flushing, reader,
                   stage, audited>>

AuditInit ==
    /\ request = [h \in AuditHandlers |-> [pc |-> "idle", event |-> Marker]]
    /\ auditQueue = <<>> /\ drainer = "running" /\ stopped = FALSE
    /\ table = [i \in {} |-> Marker] /\ inserted = 0
    /\ fate = [n \in 1..MaxAudited |-> ""]
    /\ flushing = [pc |-> "off", before |-> {}]
    /\ reader = [pc |-> "off", offset |-> 0, wanted |-> table, seen |-> {}]
    /\ stage = "up" /\ day = 0 /\ audited = 0

AuditNext ==
    \/ \E h \in AuditHandlers : Middleware(h) \/ Record(h)
    \/ drain \/ Flush \/ sweep \/ ListEvents \/ Shutdown \/ NextDay

AuditSpec == AuditInit /\ [][AuditNext]_auditVars

-----------------------------------------------------------------------------
Event == [id : 0..MaxAudited, day : 0..MaxDay]
Fates == {"", "refused", "panic", "dropped", "failed", "database closed", "swept"}

AuditTypeOK ==
    /\ request \in [AuditHandlers -> [pc : {"idle", "record", "send"}, event : Event]]
    /\ auditQueue \in Seq(Event) /\ Len(auditQueue) <= AuditSize
    /\ drainer \in {"running", "gone"} /\ stopped \in BOOLEAN
    /\ inserted \in Nat /\ DOMAIN table \subseteq 1..inserted
    /\ table \in [DOMAIN table -> Event]
    /\ fate \in [1..MaxAudited -> Fates]
    /\ flushing \in [pc : {"off", "waiting", "done", "gave up"}, before : SUBSET (1..MaxAudited)]
    /\ stage \in {"up", "draining", "store closed", "stopping", "stopped"}
    /\ day \in 0..MaxDay /\ audited \in 0..MaxAudited

Lost(n) == fate[n] # ""

(* What a flush waited for is written: every event recorded before Flush   *)
(* is in the table when it returns through its marker, unless its insert   *)
(* failed or the sweep has taken it since.                                 *)
FlushMeansWritten ==
    flushing.pc = "done" => \A n \in flushing.before : n \in Ids(table) \/ Lost(n)

(* Paging by offset while events arrive and old ones are swept misses a    *)
(* row of the first moment only if the sweep took a row inserted after it, *)
(* one that its goroutine recorded late: new rows come in before the       *)
(* offset, swept ones go behind it (buildQuery orders by id, descending).  *)
PagesMissNothing ==
    reader.pc = "end" => \A r \in DOMAIN reader.wanted :
        LET n == reader.wanted[r].id IN
        \/ n \in reader.seen \/ fate[n] = "swept"
        \/ \E m \in 1..audited :
             /\ fate[m] = "swept"
             /\ \A k \in DOMAIN reader.wanted : k <= r => reader.wanted[k].id # m

(* Once the process has stopped no event is left undecided: each one is in *)
(* the table or was lost in a way the code admits (a full or a closed      *)
(* queue, a failed insert, a database closed before the recorder).         *)
StoppedMeansDecided ==
    stage = "stopped" => \A n \in 1..audited :
        \/ n \in Ids(table) \/ Lost(n)
        \/ \E h \in AuditHandlers : request[h].pc # "idle" /\ request[h].event.id = n

-----------------------------------------------------------------------------
(***************************************************************************)
(* What makes the three invariants inductive. An event is with its         *)
(* goroutine, then in the queue, then in a row or lost.                    *)
(***************************************************************************)
Pending(h) == request[h].pc # "idle"
Queued(n) == \E i \in 1..Len(auditQueue) : auditQueue[i].id = n
Decided(n) == n \in Ids(table) \/ Lost(n)

StageInv ==
    /\ stopped <=> stage \in {"stopping", "stopped"}
    /\ drainer = "gone" => stopped /\ auditQueue = <<>>
    /\ stage = "stopped" => drainer = "gone"

EventInv ==
    /\ \A h \in AuditHandlers : Pending(h) => request[h].event.id \in 1..audited
    /\ \A i \in 1..Len(auditQueue) :
         auditQueue[i] = Marker \/ auditQueue[i].id \in 1..audited
    /\ \A r \in DOMAIN table : table[r].id \in 1..audited
    /\ \A n \in 1..MaxAudited : Lost(n) => n <= audited
    /\ \A n \in 1..audited :
         Decided(n) \/ Queued(n) \/ \E h \in AuditHandlers : Pending(h) /\ request[h].event.id = n

(***************************************************************************)
(* What a flush waits for is decided, or in the queue before every marker. *)
(***************************************************************************)
BeforeMarker(n) ==
    \E i \in 1..Len(auditQueue) :
        auditQueue[i].id = n /\ \A j \in 1..i : auditQueue[j] # Marker

FlushInv ==
    /\ flushing.pc = "off" => \A i \in 1..Len(auditQueue) : auditQueue[i] # Marker
    /\ flushing.pc = "waiting" => \A n \in flushing.before : Decided(n) \/ BeforeMarker(n)
    /\ flushing.pc = "done" => \A n \in flushing.before : Decided(n)

(***************************************************************************)
(* No event is in two places, and a row has one event: it is the one the   *)
(* reader found there. Past are the events that have had their row.        *)
(***************************************************************************)
Past(n) == n \in Ids(table) \cup Ids(reader.wanted) \/ fate[n] = "swept"

OnceInv ==
    /\ \A h, g \in AuditHandlers :
         Pending(h) /\ Pending(g) /\ request[h].event.id = request[g].event.id => h = g
    /\ \A h \in AuditHandlers :
         Pending(h) => ~Queued(request[h].event.id) /\ ~Past(request[h].event.id)
    /\ \A i, j \in 1..Len(auditQueue) :
         auditQueue[i] # Marker /\ auditQueue[i].id = auditQueue[j].id => i = j
    /\ \A i \in 1..Len(auditQueue) : auditQueue[i] # Marker => ~Past(auditQueue[i].id)
    /\ \A r, k \in DOMAIN table : table[r].id = table[k].id => r = k
    /\ \A r \in DOMAIN table, k \in DOMAIN reader.wanted :
         table[r].id = reader.wanted[k].id <=> r = k

(***************************************************************************)
(* A row the reader wants and has not seen is still ahead of its offset.   *)
(***************************************************************************)
SweptAbove(r) ==
    \E m \in 1..audited :
        /\ fate[m] = "swept"
        /\ \A k \in DOMAIN reader.wanted : k <= r => reader.wanted[k].id # m

Ahead(r) == r \in DOMAIN table /\ buildQuery(r) > reader.offset

PageInv ==
    /\ reader.pc \in {"off", "more", "end"} /\ reader.offset \in Nat
    /\ DOMAIN reader.wanted \subseteq 1..inserted
    /\ \A r \in DOMAIN reader.wanted : reader.wanted[r].id \in 1..audited
    /\ reader.pc = "off" => DOMAIN reader.wanted = {} /\ reader.seen = {}
    /\ \A r \in DOMAIN reader.wanted :
         LET n == reader.wanted[r].id IN
         \/ n \in reader.seen \/ fate[n] = "swept" \/ SweptAbove(r)
         \/ reader.pc = "more" /\ Ahead(r)

AuditInv == AuditTypeOK /\ StageInv /\ EventInv /\ FlushInv /\ OnceInv /\ PageInv
=============================================================================
